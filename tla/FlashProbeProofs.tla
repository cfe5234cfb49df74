------------------------- MODULE FlashProbeProofs --------------------------
(* Theorems about FlashProbe: which chip the operation can be given, and that *)
(* main has the board prepared when it gives it to one.                       *)
EXTENDS FlashProbe, TLAPS

-----------------------------------------------------------------------------
(* The two chip tables: the first row that a pair of ids stands in, 0 for     *)
(* none.  The rows that stand in a table twice say the same both times.       *)
Place(v, d) ==
  CASE v = "0001" ->
       IF d = "0214" THEN 1 ELSE IF d = "0215" THEN 2 ELSE IF d = "0216" THEN 3 ELSE
       IF d = "2249" THEN 4 ELSE IF d = "22C4" THEN 5 ELSE IF d = "22F9" THEN 6 ELSE
       IF d = "22F6" THEN 7 ELSE IF d = "2200" THEN 8 ELSE IF d = "227E" THEN 9 ELSE
       IF d = "2201" THEN 10 ELSE 0
    [] v = "0089" ->
       IF d = "0018" THEN 11 ELSE IF d = "8891" THEN 12 ELSE IF d = "8890" THEN 13 ELSE
       IF d = "88C3" THEN 14 ELSE IF d = "88C2" THEN 15 ELSE IF d = "8897" THEN 17 ELSE
       IF d = "8896" THEN 18 ELSE IF d = "88C5" THEN 19 ELSE IF d = "88C4" THEN 20 ELSE
       IF d = "0016" THEN 21 ELSE IF d = "0014" THEN 22 ELSE IF d = "8899" THEN 24 ELSE
       IF d = "8898" THEN 25 ELSE IF d = "88CD" THEN 26 ELSE IF d = "88CC" THEN 27 ELSE
       IF d = "0017" THEN 28 ELSE IF d = "0015" THEN 29 ELSE 0
    [] v = "00B0" ->
       IF d = "00D0" THEN 16 ELSE IF d = "00D4" THEN 23 ELSE IF d = "00E3" THEN 39 ELSE
       0
    [] v = "0004" ->
       IF d = "22F9" THEN 30 ELSE IF d = "22F6" THEN 31 ELSE IF d = "2249" THEN 44 ELSE
       IF d = "22C4" THEN 45 ELSE IF d = "2250" THEN 66 ELSE IF d = "2253" THEN 67 ELSE
       0
    [] v = "00C2" ->
       IF d = "22A8" THEN 32 ELSE IF d = "00A8" THEN 33 ELSE IF d = "00A7" THEN 34 ELSE
       IF d = "22A7" THEN 35 ELSE IF d = "2249" THEN 46 ELSE IF d = "22C4" THEN 47 ELSE
       IF d = "22DA" THEN 58 ELSE IF d = "225B" THEN 59 ELSE IF d = "227E" THEN 65 ELSE
       IF d = "0014" THEN 89 ELSE IF d = "2015" THEN 92 ELSE IF d = "2016" THEN 93 ELSE
       IF d = "2017" THEN 94 ELSE IF d = "22C9" THEN 99 ELSE IF d = "22CB" THEN 100 ELSE
       0
    [] v = "00BF" ->
       IF d = "2783" THEN 36 ELSE IF d = "234B" THEN 50 ELSE IF d = "234A" THEN 51 ELSE
       IF d = "235B" THEN 52 ELSE IF d = "235A" THEN 53 ELSE IF d = "236B" THEN 54 ELSE
       IF d = "236A" THEN 55 ELSE IF d = "236D" THEN 62 ELSE IF d = "236C" THEN 63 ELSE
       0
    [] v = "0020" ->
       IF d = "22CB" THEN 37 ELSE IF d = "22CA" THEN 38 ELSE IF d = "2249" THEN 48 ELSE
       IF d = "22C4" THEN 49 ELSE IF d = "227E" THEN 64 ELSE IF d = "2015" THEN 71 ELSE
       IF d = "2016" THEN 72 ELSE IF d = "2017" THEN 73 ELSE IF d = "2018" THEN 74 ELSE
       IF d = "225C" THEN 75 ELSE IF d = "225D" THEN 76 ELSE 0
    [] v = "0098" ->
       IF d = "009C" THEN 40 ELSE IF d = "009A" THEN 41 ELSE IF d = "0057" THEN 84 ELSE
       IF d = "0058" THEN 85 ELSE 0
    [] v = "001F" ->
       IF d = "00C0" THEN 42 ELSE IF d = "00C2" THEN 43 ELSE IF d = "00C8" THEN 68 ELSE
       IF d = "00C9" THEN 69 ELSE IF d = "2600" THEN 70 ELSE 0
    [] v = "00EC" ->
       IF d = "2275" THEN 56 ELSE IF d = "2277" THEN 57 ELSE IF d = "22A0" THEN 60 ELSE
       IF d = "22A2" THEN 61 ELSE IF d = "22E0" THEN 106 ELSE IF d = "22E2" THEN 107 ELSE
       0
    [] v = "0040" ->
       IF d = "0000" THEN 77 ELSE 0
    [] v = "007F" ->
       IF d = "2249" THEN 78 ELSE IF d = "22C4" THEN 79 ELSE IF d = "22C9" THEN 80 ELSE
       IF d = "22CB" THEN 81 ELSE IF d = "22F6" THEN 82 ELSE IF d = "22F9" THEN 83 ELSE
       0
    [] v = "00DA" ->
       IF d = "222A" THEN 102 ELSE IF d = "22BA" THEN 103 ELSE 0
    [] v = "00EF" ->
       IF d = "3016" THEN 108 ELSE IF d = "3017" THEN 109 ELSE 0
    [] v = "017E" ->
       IF d = "1000" THEN 110 ELSE IF d = "1001" THEN 111 ELSE IF d = "1200" THEN 112 ELSE
       IF d = "1A00" THEN 113 ELSE IF d = "1A01" THEN 114 ELSE IF d = "2101" THEN 115 ELSE
       IF d = "2201" THEN 116 ELSE IF d = "2301" THEN 117 ELSE IF d = "2801" THEN 118 ELSE
       0
    [] OTHER -> 0

Place_tjtag(v, d) ==
  CASE v = "00C2" ->
       IF d = "22DA" THEN 1 ELSE IF d = "225B" THEN 2 ELSE IF d = "2249" THEN 9 ELSE
       IF d = "22C4" THEN 10 ELSE IF d = "0014" THEN 15 ELSE IF d = "2015" THEN 20 ELSE
       IF d = "2016" THEN 21 ELSE IF d = "2017" THEN 22 ELSE IF d = "22A8" THEN 40 ELSE
       IF d = "00A8" THEN 41 ELSE IF d = "00A7" THEN 42 ELSE IF d = "22A7" THEN 43 ELSE
       IF d = "22C9" THEN 46 ELSE IF d = "22CB" THEN 47 ELSE 0
    [] v = "0001" ->
       IF d = "2249" THEN 3 ELSE IF d = "22C4" THEN 4 ELSE IF d = "2200" THEN 27 ELSE
       IF d = "227E" THEN 28 ELSE IF d = "2201" THEN 29 ELSE IF d = "22F9" THEN 36 ELSE
       IF d = "22F6" THEN 37 ELSE IF d = "0214" THEN 94 ELSE IF d = "0215" THEN 95 ELSE
       IF d = "0216" THEN 96 ELSE 0
    [] v = "007F" ->
       IF d = "2249" THEN 5 ELSE IF d = "22C4" THEN 6 ELSE IF d = "22F9" THEN 101 ELSE
       IF d = "22F6" THEN 102 ELSE IF d = "22C9" THEN 103 ELSE IF d = "22CB" THEN 104 ELSE
       0
    [] v = "0004" ->
       IF d = "2249" THEN 7 ELSE IF d = "22C4" THEN 8 ELSE IF d = "2253" THEN 34 ELSE
       IF d = "2250" THEN 35 ELSE IF d = "22F9" THEN 38 ELSE IF d = "22F6" THEN 39 ELSE
       0
    [] v = "00EC" ->
       IF d = "2275" THEN 11 ELSE IF d = "2277" THEN 12 ELSE IF d = "22A0" THEN 18 ELSE
       IF d = "22A2" THEN 19 ELSE IF d = "22E0" THEN 55 ELSE IF d = "22E2" THEN 56 ELSE
       0
    [] v = "0020" ->
       IF d = "2249" THEN 13 ELSE IF d = "22C4" THEN 14 ELSE IF d = "2015" THEN 23 ELSE
       IF d = "2016" THEN 24 ELSE IF d = "2017" THEN 25 ELSE IF d = "2018" THEN 26 ELSE
       IF d = "22CB" THEN 44 ELSE IF d = "22CA" THEN 45 ELSE IF d = "225C" THEN 51 ELSE
       IF d = "225D" THEN 52 ELSE 0
    [] v = "001F" ->
       IF d = "2600" THEN 16 ELSE IF d = "00C0" THEN 32 ELSE IF d = "00C2" THEN 33 ELSE
       IF d = "00C8" THEN 105 ELSE IF d = "00C9" THEN 106 ELSE 0
    [] v = "0040" ->
       IF d = "0000" THEN 17 ELSE 0
    [] v = "0098" ->
       IF d = "009C" THEN 30 ELSE IF d = "009A" THEN 31 ELSE IF d = "0057" THEN 53 ELSE
       IF d = "0058" THEN 54 ELSE 0
    [] v = "00DA" ->
       IF d = "22BA" THEN 48 ELSE IF d = "222A" THEN 49 ELSE 0
    [] v = "22DA" ->
       IF d = "222A" THEN 50 ELSE 0
    [] v = "0089" ->
       IF d = "8891" THEN 57 ELSE IF d = "8890" THEN 58 ELSE IF d = "88C3" THEN 59 ELSE
       IF d = "88C2" THEN 60 ELSE IF d = "8897" THEN 61 ELSE IF d = "8896" THEN 62 ELSE
       IF d = "88C5" THEN 63 ELSE IF d = "88C4" THEN 64 ELSE IF d = "8899" THEN 66 ELSE
       IF d = "8898" THEN 67 ELSE IF d = "88CD" THEN 68 ELSE IF d = "88CC" THEN 69 ELSE
       IF d = "0016" THEN 71 ELSE IF d = "0014" THEN 72 ELSE IF d = "0017" THEN 74 ELSE
       IF d = "0015" THEN 75 ELSE IF d = "0018" THEN 76 ELSE 0
    [] v = "00B0" ->
       IF d = "00E3" THEN 65 ELSE IF d = "00D0" THEN 70 ELSE IF d = "00D4" THEN 73 ELSE
       0
    [] v = "00BF" ->
       IF d = "234B" THEN 77 ELSE IF d = "234A" THEN 78 ELSE IF d = "235B" THEN 79 ELSE
       IF d = "235A" THEN 80 ELSE IF d = "236B" THEN 81 ELSE IF d = "236A" THEN 82 ELSE
       IF d = "236D" THEN 83 ELSE IF d = "236C" THEN 84 ELSE 0
    [] v = "017E" ->
       IF d = "1A00" THEN 85 ELSE IF d = "1A01" THEN 86 ELSE IF d = "1000" THEN 87 ELSE
       IF d = "1001" THEN 88 ELSE IF d = "2101" THEN 89 ELSE IF d = "1200" THEN 90 ELSE
       IF d = "2201" THEN 91 ELSE IF d = "2301" THEN 92 ELSE IF d = "2801" THEN 93 ELSE
       0
    [] v = "DA7E" ->
       IF d = "0A00" THEN 97 ELSE IF d = "0A01" THEN 98 ELSE 0
    [] v = "00EF" ->
       IF d = "3016" THEN 99 ELSE IF d = "3017" THEN 100 ELSE 0
    [] OTHER -> 0

LEMMA RowFields ==
  \A v, d, mb, type, regions :
    Row(v, d, mb, type, regions).vendid = v /\ Row(v, d, mb, type, regions).devid = d
BY DEF Row

LEMMA Ids ==
  /\ Len(flash_chip_list) = 118 /\ DOMAIN flash_chip_list = 1..Len(flash_chip_list)
  /\ \A n \in 1..118 :
       LET p == Place(flash_chip_list[n].vendid, flash_chip_list[n].devid)
       IN  p \in 1..n /\ flash_chip_list[p] = flash_chip_list[n]
<1> PICK T : T = flash_chip_list OBVIOUS
<1>0. T = flash_chip_list OBVIOUS
<1>1. /\ T[1].vendid = "0001" /\ T[1].devid = "0214"
      /\ T[2].vendid = "0001" /\ T[2].devid = "0215"
      /\ T[3].vendid = "0001" /\ T[3].devid = "0216"
      /\ T[4].vendid = "0001" /\ T[4].devid = "2249"
      /\ T[5].vendid = "0001" /\ T[5].devid = "22C4"
      /\ T[6].vendid = "0001" /\ T[6].devid = "22F9"
  BY ONLY <1>0, RowFields DEF flash_chip_list
<1>2. /\ T[7].vendid = "0001" /\ T[7].devid = "22F6"
      /\ T[8].vendid = "0001" /\ T[8].devid = "2200"
      /\ T[9].vendid = "0001" /\ T[9].devid = "227E"
      /\ T[10].vendid = "0001" /\ T[10].devid = "2201"
      /\ T[11].vendid = "0089" /\ T[11].devid = "0018"
      /\ T[12].vendid = "0089" /\ T[12].devid = "8891"
  BY ONLY <1>0, RowFields DEF flash_chip_list
<1>3. /\ T[13].vendid = "0089" /\ T[13].devid = "8890"
      /\ T[14].vendid = "0089" /\ T[14].devid = "88C3"
      /\ T[15].vendid = "0089" /\ T[15].devid = "88C2"
      /\ T[16].vendid = "00B0" /\ T[16].devid = "00D0"
      /\ T[17].vendid = "0089" /\ T[17].devid = "8897"
      /\ T[18].vendid = "0089" /\ T[18].devid = "8896"
  BY ONLY <1>0, RowFields DEF flash_chip_list
<1>4. /\ T[19].vendid = "0089" /\ T[19].devid = "88C5"
      /\ T[20].vendid = "0089" /\ T[20].devid = "88C4"
      /\ T[21].vendid = "0089" /\ T[21].devid = "0016"
      /\ T[22].vendid = "0089" /\ T[22].devid = "0014"
      /\ T[23].vendid = "00B0" /\ T[23].devid = "00D4"
      /\ T[24].vendid = "0089" /\ T[24].devid = "8899"
  BY ONLY <1>0, RowFields DEF flash_chip_list
<1>5. /\ T[25].vendid = "0089" /\ T[25].devid = "8898"
      /\ T[26].vendid = "0089" /\ T[26].devid = "88CD"
      /\ T[27].vendid = "0089" /\ T[27].devid = "88CC"
      /\ T[28].vendid = "0089" /\ T[28].devid = "0017"
      /\ T[29].vendid = "0089" /\ T[29].devid = "0015"
      /\ T[30].vendid = "0004" /\ T[30].devid = "22F9"
  BY ONLY <1>0, RowFields DEF flash_chip_list
<1>6. /\ T[31].vendid = "0004" /\ T[31].devid = "22F6"
      /\ T[32].vendid = "00C2" /\ T[32].devid = "22A8"
      /\ T[33].vendid = "00C2" /\ T[33].devid = "00A8"
      /\ T[34].vendid = "00C2" /\ T[34].devid = "00A7"
      /\ T[35].vendid = "00C2" /\ T[35].devid = "22A7"
      /\ T[36].vendid = "00BF" /\ T[36].devid = "2783"
  BY ONLY <1>0, RowFields DEF flash_chip_list
<1>7. /\ T[37].vendid = "0020" /\ T[37].devid = "22CB"
      /\ T[38].vendid = "0020" /\ T[38].devid = "22CA"
      /\ T[39].vendid = "00B0" /\ T[39].devid = "00E3"
      /\ T[40].vendid = "0098" /\ T[40].devid = "009C"
      /\ T[41].vendid = "0098" /\ T[41].devid = "009A"
      /\ T[42].vendid = "001F" /\ T[42].devid = "00C0"
  BY ONLY <1>0, RowFields DEF flash_chip_list
<1>8. /\ T[43].vendid = "001F" /\ T[43].devid = "00C2"
      /\ T[44].vendid = "0004" /\ T[44].devid = "2249"
      /\ T[45].vendid = "0004" /\ T[45].devid = "22C4"
      /\ T[46].vendid = "00C2" /\ T[46].devid = "2249"
      /\ T[47].vendid = "00C2" /\ T[47].devid = "22C4"
      /\ T[48].vendid = "0020" /\ T[48].devid = "2249"
  BY ONLY <1>0, RowFields DEF flash_chip_list
<1>9. /\ T[49].vendid = "0020" /\ T[49].devid = "22C4"
      /\ T[50].vendid = "00BF" /\ T[50].devid = "234B"
      /\ T[51].vendid = "00BF" /\ T[51].devid = "234A"
      /\ T[52].vendid = "00BF" /\ T[52].devid = "235B"
      /\ T[53].vendid = "00BF" /\ T[53].devid = "235A"
      /\ T[54].vendid = "00BF" /\ T[54].devid = "236B"
  BY ONLY <1>0, RowFields DEF flash_chip_list
<1>10. /\ T[55].vendid = "00BF" /\ T[55].devid = "236A"
      /\ T[56].vendid = "00EC" /\ T[56].devid = "2275"
      /\ T[57].vendid = "00EC" /\ T[57].devid = "2277"
      /\ T[58].vendid = "00C2" /\ T[58].devid = "22DA"
      /\ T[59].vendid = "00C2" /\ T[59].devid = "225B"
      /\ T[60].vendid = "00EC" /\ T[60].devid = "22A0"
  BY ONLY <1>0, RowFields DEF flash_chip_list
<1>11. /\ T[61].vendid = "00EC" /\ T[61].devid = "22A2"
      /\ T[62].vendid = "00BF" /\ T[62].devid = "236D"
      /\ T[63].vendid = "00BF" /\ T[63].devid = "236C"
      /\ T[64].vendid = "0020" /\ T[64].devid = "227E"
      /\ T[65].vendid = "00C2" /\ T[65].devid = "227E"
      /\ T[66].vendid = "0004" /\ T[66].devid = "2250"
  BY ONLY <1>0, RowFields DEF flash_chip_list
<1>12. /\ T[67].vendid = "0004" /\ T[67].devid = "2253"
      /\ T[68].vendid = "001F" /\ T[68].devid = "00C8"
      /\ T[69].vendid = "001F" /\ T[69].devid = "00C9"
      /\ T[70].vendid = "001F" /\ T[70].devid = "2600"
      /\ T[71].vendid = "0020" /\ T[71].devid = "2015"
      /\ T[72].vendid = "0020" /\ T[72].devid = "2016"
  BY ONLY <1>0, RowFields DEF flash_chip_list
<1>13. /\ T[73].vendid = "0020" /\ T[73].devid = "2017"
      /\ T[74].vendid = "0020" /\ T[74].devid = "2018"
      /\ T[75].vendid = "0020" /\ T[75].devid = "225C"
      /\ T[76].vendid = "0020" /\ T[76].devid = "225D"
      /\ T[77].vendid = "0040" /\ T[77].devid = "0000"
      /\ T[78].vendid = "007F" /\ T[78].devid = "2249"
  BY ONLY <1>0, RowFields DEF flash_chip_list
<1>14. /\ T[79].vendid = "007F" /\ T[79].devid = "22C4"
      /\ T[80].vendid = "007F" /\ T[80].devid = "22C9"
      /\ T[81].vendid = "007F" /\ T[81].devid = "22CB"
      /\ T[82].vendid = "007F" /\ T[82].devid = "22F6"
      /\ T[83].vendid = "007F" /\ T[83].devid = "22F9"
      /\ T[84].vendid = "0098" /\ T[84].devid = "0057"
  BY ONLY <1>0, RowFields DEF flash_chip_list
<1>15. /\ T[85].vendid = "0098" /\ T[85].devid = "0058"
      /\ T[86].vendid = "0098" /\ T[86].devid = "009A"
      /\ T[87].vendid = "0098" /\ T[87].devid = "009C"
      /\ T[88].vendid = "00BF" /\ T[88].devid = "2783"
      /\ T[89].vendid = "00C2" /\ T[89].devid = "0014"
      /\ T[90].vendid = "00C2" /\ T[90].devid = "00A7"
  BY ONLY <1>0, RowFields DEF flash_chip_list
<1>16. /\ T[91].vendid = "00C2" /\ T[91].devid = "00A8"
      /\ T[92].vendid = "00C2" /\ T[92].devid = "2015"
      /\ T[93].vendid = "00C2" /\ T[93].devid = "2016"
      /\ T[94].vendid = "00C2" /\ T[94].devid = "2017"
      /\ T[95].vendid = "00C2" /\ T[95].devid = "2249"
      /\ T[96].vendid = "00C2" /\ T[96].devid = "227E"
  BY ONLY <1>0, RowFields DEF flash_chip_list
<1>17. /\ T[97].vendid = "00C2" /\ T[97].devid = "22A7"
      /\ T[98].vendid = "00C2" /\ T[98].devid = "22A8"
      /\ T[99].vendid = "00C2" /\ T[99].devid = "22C9"
      /\ T[100].vendid = "00C2" /\ T[100].devid = "22CB"
      /\ T[101].vendid = "00C2" /\ T[101].devid = "22C4"
      /\ T[102].vendid = "00DA" /\ T[102].devid = "222A"
  BY ONLY <1>0, RowFields DEF flash_chip_list
<1>18. /\ T[103].vendid = "00DA" /\ T[103].devid = "22BA"
      /\ T[104].vendid = "00EC" /\ T[104].devid = "2275"
      /\ T[105].vendid = "00EC" /\ T[105].devid = "2277"
      /\ T[106].vendid = "00EC" /\ T[106].devid = "22E0"
      /\ T[107].vendid = "00EC" /\ T[107].devid = "22E2"
      /\ T[108].vendid = "00EF" /\ T[108].devid = "3016"
  BY ONLY <1>0, RowFields DEF flash_chip_list
<1>19. /\ T[109].vendid = "00EF" /\ T[109].devid = "3017"
      /\ T[110].vendid = "017E" /\ T[110].devid = "1000"
      /\ T[111].vendid = "017E" /\ T[111].devid = "1001"
      /\ T[112].vendid = "017E" /\ T[112].devid = "1200"
      /\ T[113].vendid = "017E" /\ T[113].devid = "1A00"
      /\ T[114].vendid = "017E" /\ T[114].devid = "1A01"
  BY ONLY <1>0, RowFields DEF flash_chip_list
<1>20. /\ T[115].vendid = "017E" /\ T[115].devid = "2101"
      /\ T[116].vendid = "017E" /\ T[116].devid = "2201"
      /\ T[117].vendid = "017E" /\ T[117].devid = "2301"
      /\ T[118].vendid = "017E" /\ T[118].devid = "2801"
  BY ONLY <1>0, RowFields DEF flash_chip_list
<1>21. /\ T[41] = T[86]
      /\ T[40] = T[87]
      /\ T[36] = T[88]
      /\ T[34] = T[90]
      /\ T[33] = T[91]
      /\ T[46] = T[95]
      /\ T[65] = T[96]
      /\ T[35] = T[97]
      /\ T[32] = T[98]
      /\ T[47] = T[101]
      /\ T[56] = T[104]
      /\ T[57] = T[105]
  BY ONLY <1>0 DEF flash_chip_list, R, Flat, Top, Bot, TopB, BotB
<1>22. Len(T) = 118 /\ DOMAIN T = 1..Len(T) BY ONLY <1>0 DEF flash_chip_list
<1>23. \A n \in {1, 2, 3, 4, 5, 6} : Place(T[n].vendid, T[n].devid) = n
  BY ONLY <1>1 DEF Place
<1>24. \A n \in {7, 8, 9, 10, 11, 12} : Place(T[n].vendid, T[n].devid) = n
  BY ONLY <1>2 DEF Place
<1>25. \A n \in {13, 14, 15, 16, 17, 18} : Place(T[n].vendid, T[n].devid) = n
  BY ONLY <1>3 DEF Place
<1>26. \A n \in {19, 20, 21, 22, 23, 24} : Place(T[n].vendid, T[n].devid) = n
  BY ONLY <1>4 DEF Place
<1>27. \A n \in {25, 26, 27, 28, 29, 30} : Place(T[n].vendid, T[n].devid) = n
  BY ONLY <1>5 DEF Place
<1>28. \A n \in {31, 32, 33, 34, 35, 36} : Place(T[n].vendid, T[n].devid) = n
  BY ONLY <1>6 DEF Place
<1>29. \A n \in {37, 38, 39, 40, 41, 42} : Place(T[n].vendid, T[n].devid) = n
  BY ONLY <1>7 DEF Place
<1>30. \A n \in {43, 44, 45, 46, 47, 48} : Place(T[n].vendid, T[n].devid) = n
  BY ONLY <1>8 DEF Place
<1>31. \A n \in {49, 50, 51, 52, 53, 54} : Place(T[n].vendid, T[n].devid) = n
  BY ONLY <1>9 DEF Place
<1>32. \A n \in {55, 56, 57, 58, 59, 60} : Place(T[n].vendid, T[n].devid) = n
  BY ONLY <1>10 DEF Place
<1>33. \A n \in {61, 62, 63, 64, 65, 66} : Place(T[n].vendid, T[n].devid) = n
  BY ONLY <1>11 DEF Place
<1>34. \A n \in {67, 68, 69, 70, 71, 72} : Place(T[n].vendid, T[n].devid) = n
  BY ONLY <1>12 DEF Place
<1>35. \A n \in {73, 74, 75, 76, 77, 78} : Place(T[n].vendid, T[n].devid) = n
  BY ONLY <1>13 DEF Place
<1>36. \A n \in {79, 80, 81, 82, 83, 84} : Place(T[n].vendid, T[n].devid) = n
  BY ONLY <1>14 DEF Place
<1>37. \A n \in {85, 89} : Place(T[n].vendid, T[n].devid) = n
  BY ONLY <1>15 DEF Place
<1>38. \A n \in {92, 93, 94} : Place(T[n].vendid, T[n].devid) = n
  BY ONLY <1>16 DEF Place
<1>39. \A n \in {99, 100, 102} : Place(T[n].vendid, T[n].devid) = n
  BY ONLY <1>17 DEF Place
<1>40. \A n \in {103, 106, 107, 108} : Place(T[n].vendid, T[n].devid) = n
  BY ONLY <1>18 DEF Place
<1>41. \A n \in {109, 110, 111, 112, 113, 114} : Place(T[n].vendid, T[n].devid) = n
  BY ONLY <1>19 DEF Place
<1>42. \A n \in {115, 116, 117, 118} : Place(T[n].vendid, T[n].devid) = n
  BY ONLY <1>20 DEF Place
<1>43. /\ Place(T[86].vendid, T[86].devid) = 41
      /\ Place(T[87].vendid, T[87].devid) = 40
      /\ Place(T[88].vendid, T[88].devid) = 36
      /\ Place(T[90].vendid, T[90].devid) = 34
  BY ONLY <1>15 DEF Place
<1>44. /\ Place(T[91].vendid, T[91].devid) = 33
      /\ Place(T[95].vendid, T[95].devid) = 46
      /\ Place(T[96].vendid, T[96].devid) = 65
  BY ONLY <1>16 DEF Place
<1>45. /\ Place(T[97].vendid, T[97].devid) = 35
      /\ Place(T[98].vendid, T[98].devid) = 32
      /\ Place(T[101].vendid, T[101].devid) = 47
  BY ONLY <1>17 DEF Place
<1>46. /\ Place(T[104].vendid, T[104].devid) = 56
      /\ Place(T[105].vendid, T[105].devid) = 57
  BY ONLY <1>18 DEF Place
<1>47. \A n \in {86, 87, 88, 90, 91, 95, 96, 97, 98, 101, 104, 105} :
        LET p == Place(T[n].vendid, T[n].devid) IN p \in 1..n /\ T[p] = T[n]
  BY ONLY <1>21, <1>43, <1>44, <1>45, <1>46
<1> DEFINE Stands(n) == LET p == Place(T[n].vendid, T[n].devid) IN p \in 1..n /\ T[p] = T[n]
<1> HIDE DEF Stands
<1>48. \A n \in 1..36 : n \in
        {1, 2, 3, 4, 5, 6} \cup {7, 8, 9, 10, 11, 12} \cup {13, 14, 15, 16, 17, 18}
        \cup {19, 20, 21, 22, 23, 24} \cup {25, 26, 27, 28, 29, 30}
        \cup {31, 32, 33, 34, 35, 36}
  OBVIOUS
<1>49. \A n \in 1..36 : Place(T[n].vendid, T[n].devid) = n
  BY ONLY <1>48, <1>23, <1>24, <1>25, <1>26, <1>27, <1>28
<1>50. \A n \in 1..36 : Stands(n)
  <2> SUFFICES ASSUME NEW n \in 1..36 PROVE Stands(n) OBVIOUS
  <2>1. n \in 1..n OBVIOUS
  <2>2. CASE Place(T[n].vendid, T[n].devid) = n BY ONLY <2>1, <2>2 DEF Stands
  <2> QED BY ONLY <1>49, <2>2
<1>51. \A n \in 37..72 : n \in
        {37, 38, 39, 40, 41, 42} \cup {43, 44, 45, 46, 47, 48} \cup {49, 50, 51, 52, 53, 54}
        \cup {55, 56, 57, 58, 59, 60} \cup {61, 62, 63, 64, 65, 66}
        \cup {67, 68, 69, 70, 71, 72}
  OBVIOUS
<1>52. \A n \in 37..72 : Place(T[n].vendid, T[n].devid) = n
  BY ONLY <1>51, <1>29, <1>30, <1>31, <1>32, <1>33, <1>34
<1>53. \A n \in 37..72 : Stands(n)
  <2> SUFFICES ASSUME NEW n \in 37..72 PROVE Stands(n) OBVIOUS
  <2>1. n \in 1..n OBVIOUS
  <2>2. CASE Place(T[n].vendid, T[n].devid) = n BY ONLY <2>1, <2>2 DEF Stands
  <2> QED BY ONLY <1>52, <2>2
<1>54. \A n \in 73..108 : n \in
        {73, 74, 75, 76, 77, 78} \cup {79, 80, 81, 82, 83, 84} \cup {85, 89} \cup {92, 93, 94}
        \cup {99, 100, 102} \cup {103, 106, 107, 108}
        \cup {86, 87, 88, 90, 91, 95, 96, 97, 98, 101, 104, 105}
  OBVIOUS
<1>55. \A n \in 73..108 : n \in {86, 87, 88, 90, 91, 95, 96, 97, 98, 101, 104, 105} \/
        Place(T[n].vendid, T[n].devid) = n
  BY ONLY <1>54, <1>35, <1>36, <1>37, <1>38, <1>39, <1>40
<1>56. \A n \in 73..108 : Stands(n)
  <2> SUFFICES ASSUME NEW n \in 73..108 PROVE Stands(n) OBVIOUS
  <2>1. n \in 1..n OBVIOUS
  <2>2. CASE Place(T[n].vendid, T[n].devid) = n BY ONLY <2>1, <2>2 DEF Stands
  <2>3. CASE n \in {86, 87, 88, 90, 91, 95, 96, 97, 98, 101, 104, 105} BY ONLY <2>3, <1>47 DEF Stands
  <2> QED BY ONLY <1>55, <2>2, <2>3
<1>57. \A n \in 109..118 : n \in
        {109, 110, 111, 112, 113, 114} \cup {115, 116, 117, 118}
  OBVIOUS
<1>58. \A n \in 109..118 : Place(T[n].vendid, T[n].devid) = n
  BY ONLY <1>57, <1>41, <1>42
<1>59. \A n \in 109..118 : Stands(n)
  <2> SUFFICES ASSUME NEW n \in 109..118 PROVE Stands(n) OBVIOUS
  <2>1. n \in 1..n OBVIOUS
  <2>2. CASE Place(T[n].vendid, T[n].devid) = n BY ONLY <2>1, <2>2 DEF Stands
  <2> QED BY ONLY <1>58, <2>2
<1>60. \A n \in 1..118 : Stands(n)
  <2> SUFFICES ASSUME NEW n \in 1..118 PROVE Stands(n) OBVIOUS
  <2>1. CASE n \in 1..36 BY ONLY <2>1, <1>50
  <2>2. CASE n \in 37..72 BY ONLY <2>2, <1>53
  <2>3. CASE n \in 73..108 BY ONLY <2>3, <1>56
  <2>4. CASE n \in 109..118 BY ONLY <2>4, <1>59
  <2> QED BY ONLY <2>1, <2>2, <2>3, <2>4
<1>61. \A n \in 1..118 :
        LET p == Place(T[n].vendid, T[n].devid) IN p \in 1..n /\ T[p] = T[n]
  BY ONLY <1>60, Zenon DEF Stands
<1> QED BY ONLY <1>0, <1>22, <1>61

LEMMA Ids_tjtag ==
  /\ Len(flash_chip_list_tjtag) = 106 /\ DOMAIN flash_chip_list_tjtag = 1..Len(flash_chip_list_tjtag)
  /\ \A n \in 1..106 :
       LET p == Place_tjtag(flash_chip_list_tjtag[n].vendid, flash_chip_list_tjtag[n].devid)
       IN  p \in 1..n /\ flash_chip_list_tjtag[p] = flash_chip_list_tjtag[n]
<1> PICK T : T = flash_chip_list_tjtag OBVIOUS
<1>0. T = flash_chip_list_tjtag OBVIOUS
<1>1. /\ T[1].vendid = "00C2" /\ T[1].devid = "22DA"
      /\ T[2].vendid = "00C2" /\ T[2].devid = "225B"
      /\ T[3].vendid = "0001" /\ T[3].devid = "2249"
      /\ T[4].vendid = "0001" /\ T[4].devid = "22C4"
      /\ T[5].vendid = "007F" /\ T[5].devid = "2249"
      /\ T[6].vendid = "007F" /\ T[6].devid = "22C4"
  BY ONLY <1>0, RowFields DEF flash_chip_list_tjtag
<1>2. /\ T[7].vendid = "0004" /\ T[7].devid = "2249"
      /\ T[8].vendid = "0004" /\ T[8].devid = "22C4"
      /\ T[9].vendid = "00C2" /\ T[9].devid = "2249"
      /\ T[10].vendid = "00C2" /\ T[10].devid = "22C4"
      /\ T[11].vendid = "00EC" /\ T[11].devid = "2275"
      /\ T[12].vendid = "00EC" /\ T[12].devid = "2277"
  BY ONLY <1>0, RowFields DEF flash_chip_list_tjtag
<1>3. /\ T[13].vendid = "0020" /\ T[13].devid = "2249"
      /\ T[14].vendid = "0020" /\ T[14].devid = "22C4"
      /\ T[15].vendid = "00C2" /\ T[15].devid = "0014"
      /\ T[16].vendid = "001F" /\ T[16].devid = "2600"
      /\ T[17].vendid = "0040" /\ T[17].devid = "0000"
      /\ T[18].vendid = "00EC" /\ T[18].devid = "22A0"
  BY ONLY <1>0, RowFields DEF flash_chip_list_tjtag
<1>4. /\ T[19].vendid = "00EC" /\ T[19].devid = "22A2"
      /\ T[20].vendid = "00C2" /\ T[20].devid = "2015"
      /\ T[21].vendid = "00C2" /\ T[21].devid = "2016"
      /\ T[22].vendid = "00C2" /\ T[22].devid = "2017"
      /\ T[23].vendid = "0020" /\ T[23].devid = "2015"
      /\ T[24].vendid = "0020" /\ T[24].devid = "2016"
  BY ONLY <1>0, RowFields DEF flash_chip_list_tjtag
<1>5. /\ T[25].vendid = "0020" /\ T[25].devid = "2017"
      /\ T[26].vendid = "0020" /\ T[26].devid = "2018"
      /\ T[27].vendid = "0001" /\ T[27].devid = "2200"
      /\ T[28].vendid = "0001" /\ T[28].devid = "227E"
      /\ T[29].vendid = "0001" /\ T[29].devid = "2201"
      /\ T[30].vendid = "0098" /\ T[30].devid = "009C"
  BY ONLY <1>0, RowFields DEF flash_chip_list_tjtag
<1>6. /\ T[31].vendid = "0098" /\ T[31].devid = "009A"
      /\ T[32].vendid = "001F" /\ T[32].devid = "00C0"
      /\ T[33].vendid = "001F" /\ T[33].devid = "00C2"
      /\ T[34].vendid = "0004" /\ T[34].devid = "2253"
      /\ T[35].vendid = "0004" /\ T[35].devid = "2250"
      /\ T[36].vendid = "0001" /\ T[36].devid = "22F9"
  BY ONLY <1>0, RowFields DEF flash_chip_list_tjtag
<1>7. /\ T[37].vendid = "0001" /\ T[37].devid = "22F6"
      /\ T[38].vendid = "0004" /\ T[38].devid = "22F9"
      /\ T[39].vendid = "0004" /\ T[39].devid = "22F6"
      /\ T[40].vendid = "00C2" /\ T[40].devid = "22A8"
      /\ T[41].vendid = "00C2" /\ T[41].devid = "00A8"
      /\ T[42].vendid = "00C2" /\ T[42].devid = "00A7"
  BY ONLY <1>0, RowFields DEF flash_chip_list_tjtag
<1>8. /\ T[43].vendid = "00C2" /\ T[43].devid = "22A7"
      /\ T[44].vendid = "0020" /\ T[44].devid = "22CB"
      /\ T[45].vendid = "0020" /\ T[45].devid = "22CA"
      /\ T[46].vendid = "00C2" /\ T[46].devid = "22C9"
      /\ T[47].vendid = "00C2" /\ T[47].devid = "22CB"
      /\ T[48].vendid = "00DA" /\ T[48].devid = "22BA"
  BY ONLY <1>0, RowFields DEF flash_chip_list_tjtag
<1>9. /\ T[49].vendid = "00DA" /\ T[49].devid = "222A"
      /\ T[50].vendid = "22DA" /\ T[50].devid = "222A"
      /\ T[51].vendid = "0020" /\ T[51].devid = "225C"
      /\ T[52].vendid = "0020" /\ T[52].devid = "225D"
      /\ T[53].vendid = "0098" /\ T[53].devid = "0057"
      /\ T[54].vendid = "0098" /\ T[54].devid = "0058"
  BY ONLY <1>0, RowFields DEF flash_chip_list_tjtag
<1>10. /\ T[55].vendid = "00EC" /\ T[55].devid = "22E0"
      /\ T[56].vendid = "00EC" /\ T[56].devid = "22E2"
      /\ T[57].vendid = "0089" /\ T[57].devid = "8891"
      /\ T[58].vendid = "0089" /\ T[58].devid = "8890"
      /\ T[59].vendid = "0089" /\ T[59].devid = "88C3"
      /\ T[60].vendid = "0089" /\ T[60].devid = "88C2"
  BY ONLY <1>0, RowFields DEF flash_chip_list_tjtag
<1>11. /\ T[61].vendid = "0089" /\ T[61].devid = "8897"
      /\ T[62].vendid = "0089" /\ T[62].devid = "8896"
      /\ T[63].vendid = "0089" /\ T[63].devid = "88C5"
      /\ T[64].vendid = "0089" /\ T[64].devid = "88C4"
      /\ T[65].vendid = "00B0" /\ T[65].devid = "00E3"
      /\ T[66].vendid = "0089" /\ T[66].devid = "8899"
  BY ONLY <1>0, RowFields DEF flash_chip_list_tjtag
<1>12. /\ T[67].vendid = "0089" /\ T[67].devid = "8898"
      /\ T[68].vendid = "0089" /\ T[68].devid = "88CD"
      /\ T[69].vendid = "0089" /\ T[69].devid = "88CC"
      /\ T[70].vendid = "00B0" /\ T[70].devid = "00D0"
      /\ T[71].vendid = "0089" /\ T[71].devid = "0016"
      /\ T[72].vendid = "0089" /\ T[72].devid = "0014"
  BY ONLY <1>0, RowFields DEF flash_chip_list_tjtag
<1>13. /\ T[73].vendid = "00B0" /\ T[73].devid = "00D4"
      /\ T[74].vendid = "0089" /\ T[74].devid = "0017"
      /\ T[75].vendid = "0089" /\ T[75].devid = "0015"
      /\ T[76].vendid = "0089" /\ T[76].devid = "0018"
      /\ T[77].vendid = "00BF" /\ T[77].devid = "234B"
      /\ T[78].vendid = "00BF" /\ T[78].devid = "234A"
  BY ONLY <1>0, RowFields DEF flash_chip_list_tjtag
<1>14. /\ T[79].vendid = "00BF" /\ T[79].devid = "235B"
      /\ T[80].vendid = "00BF" /\ T[80].devid = "235A"
      /\ T[81].vendid = "00BF" /\ T[81].devid = "236B"
      /\ T[82].vendid = "00BF" /\ T[82].devid = "236A"
      /\ T[83].vendid = "00BF" /\ T[83].devid = "236D"
      /\ T[84].vendid = "00BF" /\ T[84].devid = "236C"
  BY ONLY <1>0, RowFields DEF flash_chip_list_tjtag
<1>15. /\ T[85].vendid = "017E" /\ T[85].devid = "1A00"
      /\ T[86].vendid = "017E" /\ T[86].devid = "1A01"
      /\ T[87].vendid = "017E" /\ T[87].devid = "1000"
      /\ T[88].vendid = "017E" /\ T[88].devid = "1001"
      /\ T[89].vendid = "017E" /\ T[89].devid = "2101"
      /\ T[90].vendid = "017E" /\ T[90].devid = "1200"
  BY ONLY <1>0, RowFields DEF flash_chip_list_tjtag
<1>16. /\ T[91].vendid = "017E" /\ T[91].devid = "2201"
      /\ T[92].vendid = "017E" /\ T[92].devid = "2301"
      /\ T[93].vendid = "017E" /\ T[93].devid = "2801"
      /\ T[94].vendid = "0001" /\ T[94].devid = "0214"
      /\ T[95].vendid = "0001" /\ T[95].devid = "0215"
      /\ T[96].vendid = "0001" /\ T[96].devid = "0216"
  BY ONLY <1>0, RowFields DEF flash_chip_list_tjtag
<1>17. /\ T[97].vendid = "DA7E" /\ T[97].devid = "0A00"
      /\ T[98].vendid = "DA7E" /\ T[98].devid = "0A01"
      /\ T[99].vendid = "00EF" /\ T[99].devid = "3016"
      /\ T[100].vendid = "00EF" /\ T[100].devid = "3017"
      /\ T[101].vendid = "007F" /\ T[101].devid = "22F9"
      /\ T[102].vendid = "007F" /\ T[102].devid = "22F6"
  BY ONLY <1>0, RowFields DEF flash_chip_list_tjtag
<1>18. /\ T[103].vendid = "007F" /\ T[103].devid = "22C9"
      /\ T[104].vendid = "007F" /\ T[104].devid = "22CB"
      /\ T[105].vendid = "001F" /\ T[105].devid = "00C8"
      /\ T[106].vendid = "001F" /\ T[106].devid = "00C9"
  BY ONLY <1>0, RowFields DEF flash_chip_list_tjtag
<1>19. Len(T) = 106 /\ DOMAIN T = 1..Len(T) BY ONLY <1>0 DEF flash_chip_list_tjtag
<1>20. \A n \in {1, 2, 3, 4, 5, 6} : Place_tjtag(T[n].vendid, T[n].devid) = n
  BY ONLY <1>1 DEF Place_tjtag
<1>21. \A n \in {7, 8, 9, 10, 11, 12} : Place_tjtag(T[n].vendid, T[n].devid) = n
  BY ONLY <1>2 DEF Place_tjtag
<1>22. \A n \in {13, 14, 15, 16, 17, 18} : Place_tjtag(T[n].vendid, T[n].devid) = n
  BY ONLY <1>3 DEF Place_tjtag
<1>23. \A n \in {19, 20, 21, 22, 23, 24} : Place_tjtag(T[n].vendid, T[n].devid) = n
  BY ONLY <1>4 DEF Place_tjtag
<1>24. \A n \in {25, 26, 27, 28, 29, 30} : Place_tjtag(T[n].vendid, T[n].devid) = n
  BY ONLY <1>5 DEF Place_tjtag
<1>25. \A n \in {31, 32, 33, 34, 35, 36} : Place_tjtag(T[n].vendid, T[n].devid) = n
  BY ONLY <1>6 DEF Place_tjtag
<1>26. \A n \in {37, 38, 39, 40, 41, 42} : Place_tjtag(T[n].vendid, T[n].devid) = n
  BY ONLY <1>7 DEF Place_tjtag
<1>27. \A n \in {43, 44, 45, 46, 47, 48} : Place_tjtag(T[n].vendid, T[n].devid) = n
  BY ONLY <1>8 DEF Place_tjtag
<1>28. \A n \in {49, 50, 51, 52, 53, 54} : Place_tjtag(T[n].vendid, T[n].devid) = n
  BY ONLY <1>9 DEF Place_tjtag
<1>29. \A n \in {55, 56, 57, 58, 59, 60} : Place_tjtag(T[n].vendid, T[n].devid) = n
  BY ONLY <1>10 DEF Place_tjtag
<1>30. \A n \in {61, 62, 63, 64, 65, 66} : Place_tjtag(T[n].vendid, T[n].devid) = n
  BY ONLY <1>11 DEF Place_tjtag
<1>31. \A n \in {67, 68, 69, 70, 71, 72} : Place_tjtag(T[n].vendid, T[n].devid) = n
  BY ONLY <1>12 DEF Place_tjtag
<1>32. \A n \in {73, 74, 75, 76, 77, 78} : Place_tjtag(T[n].vendid, T[n].devid) = n
  BY ONLY <1>13 DEF Place_tjtag
<1>33. \A n \in {79, 80, 81, 82, 83, 84} : Place_tjtag(T[n].vendid, T[n].devid) = n
  BY ONLY <1>14 DEF Place_tjtag
<1>34. \A n \in {85, 86, 87, 88, 89, 90} : Place_tjtag(T[n].vendid, T[n].devid) = n
  BY ONLY <1>15 DEF Place_tjtag
<1>35. \A n \in {91, 92, 93, 94, 95, 96} : Place_tjtag(T[n].vendid, T[n].devid) = n
  BY ONLY <1>16 DEF Place_tjtag
<1>36. \A n \in {97, 98, 99, 100, 101, 102} : Place_tjtag(T[n].vendid, T[n].devid) = n
  BY ONLY <1>17 DEF Place_tjtag
<1>37. \A n \in {103, 104, 105, 106} : Place_tjtag(T[n].vendid, T[n].devid) = n
  BY ONLY <1>18 DEF Place_tjtag
<1> DEFINE Stands(n) == LET p == Place_tjtag(T[n].vendid, T[n].devid) IN p \in 1..n /\ T[p] = T[n]
<1> HIDE DEF Stands
<1>38. \A n \in 1..36 : n \in
        {1, 2, 3, 4, 5, 6} \cup {7, 8, 9, 10, 11, 12} \cup {13, 14, 15, 16, 17, 18}
        \cup {19, 20, 21, 22, 23, 24} \cup {25, 26, 27, 28, 29, 30}
        \cup {31, 32, 33, 34, 35, 36}
  OBVIOUS
<1>39. \A n \in 1..36 : Place_tjtag(T[n].vendid, T[n].devid) = n
  BY ONLY <1>38, <1>20, <1>21, <1>22, <1>23, <1>24, <1>25
<1>40. \A n \in 1..36 : Stands(n)
  <2> SUFFICES ASSUME NEW n \in 1..36 PROVE Stands(n) OBVIOUS
  <2>1. n \in 1..n OBVIOUS
  <2>2. CASE Place_tjtag(T[n].vendid, T[n].devid) = n BY ONLY <2>1, <2>2 DEF Stands
  <2> QED BY ONLY <1>39, <2>2
<1>41. \A n \in 37..72 : n \in
        {37, 38, 39, 40, 41, 42} \cup {43, 44, 45, 46, 47, 48} \cup {49, 50, 51, 52, 53, 54}
        \cup {55, 56, 57, 58, 59, 60} \cup {61, 62, 63, 64, 65, 66}
        \cup {67, 68, 69, 70, 71, 72}
  OBVIOUS
<1>42. \A n \in 37..72 : Place_tjtag(T[n].vendid, T[n].devid) = n
  BY ONLY <1>41, <1>26, <1>27, <1>28, <1>29, <1>30, <1>31
<1>43. \A n \in 37..72 : Stands(n)
  <2> SUFFICES ASSUME NEW n \in 37..72 PROVE Stands(n) OBVIOUS
  <2>1. n \in 1..n OBVIOUS
  <2>2. CASE Place_tjtag(T[n].vendid, T[n].devid) = n BY ONLY <2>1, <2>2 DEF Stands
  <2> QED BY ONLY <1>42, <2>2
<1>44. \A n \in 73..106 : n \in
        {73, 74, 75, 76, 77, 78} \cup {79, 80, 81, 82, 83, 84} \cup {85, 86, 87, 88, 89, 90}
        \cup {91, 92, 93, 94, 95, 96} \cup {97, 98, 99, 100, 101, 102} \cup {103, 104, 105, 106}
  OBVIOUS
<1>45. \A n \in 73..106 : Place_tjtag(T[n].vendid, T[n].devid) = n
  BY ONLY <1>44, <1>32, <1>33, <1>34, <1>35, <1>36, <1>37
<1>46. \A n \in 73..106 : Stands(n)
  <2> SUFFICES ASSUME NEW n \in 73..106 PROVE Stands(n) OBVIOUS
  <2>1. n \in 1..n OBVIOUS
  <2>2. CASE Place_tjtag(T[n].vendid, T[n].devid) = n BY ONLY <2>1, <2>2 DEF Stands
  <2> QED BY ONLY <1>45, <2>2
<1>47. \A n \in 1..106 : Stands(n)
  <2> SUFFICES ASSUME NEW n \in 1..106 PROVE Stands(n) OBVIOUS
  <2>1. CASE n \in 1..36 BY ONLY <2>1, <1>40
  <2>2. CASE n \in 37..72 BY ONLY <2>2, <1>43
  <2>3. CASE n \in 73..106 BY ONLY <2>3, <1>46
  <2> QED BY ONLY <2>1, <2>2, <2>3
<1>48. \A n \in 1..106 :
        LET p == Place_tjtag(T[n].vendid, T[n].devid) IN p \in 1..n /\ T[p] = T[n]
  BY ONLY <1>47, Zenon DEF Stands
<1> QED BY ONLY <1>0, <1>19, <1>48

-----------------------------------------------------------------------------
(* What identify_flash_part can find *)

(* The first row of the table in use with the ids v and d, 0 for none.        *)
PlaceIn(v, d) == IF request.tjtag THEN Place_tjtag(v, d) ELSE Place(v, d)

LEMMA Placed ==
  /\ DOMAIN Chips = 1..Len(Chips) /\ Len(Chips) \in Nat
  /\ \A n \in 1..Len(Chips) :
       LET p == PlaceIn(Chips[n].vendid, Chips[n].devid)
       IN  p \in 1..n /\ Chips[p] = Chips[n]
<1> PICK T : T = flash_chip_list OBVIOUS
<1> PICK U : U = flash_chip_list_tjtag OBVIOUS
<1>1. T = flash_chip_list /\ U = flash_chip_list_tjtag OBVIOUS
<1>2. /\ DOMAIN T = 1..Len(T) /\ Len(T) = 118
      /\ \A n \in 1..118 :
           LET p == Place(T[n].vendid, T[n].devid) IN p \in 1..n /\ T[p] = T[n]
  BY ONLY <1>1, Ids
<1>3. /\ DOMAIN U = 1..Len(U) /\ Len(U) = 106
      /\ \A n \in 1..106 :
           LET p == Place_tjtag(U[n].vendid, U[n].devid) IN p \in 1..n /\ U[p] = U[n]
  BY ONLY <1>1, Ids_tjtag
<1>4. CASE request.tjtag
  <2>1. Chips = U BY ONLY <1>1, <1>4 DEF Chips
  <2>2. \A v, d : PlaceIn(v, d) = Place_tjtag(v, d) BY ONLY <1>4 DEF PlaceIn
  <2>3. DOMAIN Chips = 1..Len(Chips) BY ONLY <1>3, <2>1
  <2>4. Len(Chips) = 106 BY ONLY <1>3, <2>1
  <2>5. \A n \in 1..Len(Chips) :
          LET p == PlaceIn(Chips[n].vendid, Chips[n].devid) IN p \in 1..n /\ Chips[p] = Chips[n]
    BY ONLY <1>3, <2>1, <2>2, <2>4
  <2>6. Len(Chips) \in Nat BY ONLY <2>4
  <2> QED BY ONLY <2>3, <2>5, <2>6, Zenon
<1>5. CASE ~request.tjtag
  <2>1. Chips = T BY ONLY <1>1, <1>5 DEF Chips
  <2>2. \A v, d : PlaceIn(v, d) = Place(v, d) BY ONLY <1>5 DEF PlaceIn
  <2>3. DOMAIN Chips = 1..Len(Chips) BY ONLY <1>2, <2>1
  <2>4. Len(Chips) = 118 BY ONLY <1>2, <2>1
  <2>5. \A n \in 1..Len(Chips) :
          LET p == PlaceIn(Chips[n].vendid, Chips[n].devid) IN p \in 1..n /\ Chips[p] = Chips[n]
    BY ONLY <1>2, <2>1, <2>2, <2>4
  <2>6. Len(Chips) \in Nat BY ONLY <2>4
  <2> QED BY ONLY <2>3, <2>5, <2>6, Zenon
<1> QED BY <1>4, <1>5

(* The first row with the ids that are looked for is found, if there is one.  *)
LEMMA FirstRow ==
  ASSUME NEW id, NEW v, NEW d, Renamed(id) = <<v, d>>
  PROVE  RowOf(id) \in {0, PlaceIn(v, d)}
<1> DEFINE rows == {n \in DOMAIN Chips : <<Chips[n].vendid, Chips[n].devid>> = Renamed(id)}
           p == PlaceIn(v, d)
<1>1. \A n \in rows : p \in 1..n /\ n \in Nat /\ p \in rows
  <2>1. \A n \in rows : /\ n \in 1..Len(Chips)
                        /\ <<Chips[n].vendid, Chips[n].devid>> = <<v, d>>
    BY Placed
  <2>2. \A n \in rows : n \in 1..Len(Chips) /\ Chips[n].vendid = v /\ Chips[n].devid = d
    BY <2>1
  <2>3. \A n \in rows : n \in Nat /\ p \in 1..n /\ Chips[p] = Chips[n]
    BY ONLY <2>2, Placed
  <2>4. \A n \in rows : p \in DOMAIN Chips
    <3>1. \A n \in rows : p \in 1..Len(Chips) BY ONLY <2>2, <2>3, Placed
    <3> QED BY ONLY <3>1, Placed
  <2> QED BY <2>3, <2>4
<1>2. RowOf(id) = IF rows = {} THEN 0 ELSE Min(rows) BY DEF RowOf
<1> HIDE DEF rows, p
<1>3. rows # {} => Min(rows) = p
  <2> SUFFICES ASSUME rows # {} PROVE Min(rows) = p OBVIOUS
  <2>1. p \in rows /\ p \in Nat /\ \A y \in rows : y \in Nat /\ p <= y BY <1>1
  <2>2. Min(rows) = CHOOSE x \in rows : \A y \in rows : x <= y BY DEF Min
  <2>3. \A x \in rows : (\A y \in rows : x <= y) => x = p BY <2>1
  <2> QED BY ONLY <2>1, <2>2, <2>3
<1> QED BY <1>2, <1>3 DEF p

(* No row has the ids of noise, or the common ids under their new name.       *)
LEMMA NoRow ==
  ASSUME NEW d
  PROVE  /\ PlaceIn("FFFF", d) = 0
         /\ PlaceIn("00DA", "007E") = 0 /\ PlaceIn("00DA", "227E") = 0
         /\ PlaceIn("017E", "FFFF") = 0
BY DEF PlaceIn, Place, Place_tjtag

LEMMA NoiseRow == RowOf(Noise) = 0
<1>1. Noise.vendid = "FFFF" /\ Noise.devid = "FFFF" BY DEF Noise
<1>2. Renamed(Noise) = <<"FFFF", "FFFF">> BY <1>1 DEF Renamed
<1> QED BY <1>2, FirstRow, NoRow

(* Under the ids of Chips[n], or those it answers with, a row is found that   *)
(* says the same, or none.                                                    *)
LEMMA OwnRow ==
  ASSUME NEW n \in 1..Len(Chips), NEW id,
         \/ id.vendid = Chips[n].vendid /\ id.devid = Chips[n].devid /\ id.sub = "FFFF"
         \/ /\ Chips[n].vendid = "017E"
            /\ id.vendid = "0001" /\ id.devid = "227E" /\ id.sub = Chips[n].devid
         \/ /\ Chips[n].vendid = "DA7E"
            /\ id.vendid = "00DA" /\ id.devid = "227E" /\ id.sub = Chips[n].devid
  PROVE  RowOf(id) = 0 \/ Chips[RowOf(id)] = Chips[n]
<1> DEFINE p == PlaceIn(Chips[n].vendid, Chips[n].devid)
<1>1. p \in 1..n /\ Chips[p] = Chips[n] BY Placed
<1>2. CASE Renamed(id) = <<Chips[n].vendid, Chips[n].devid>>
  <2>1. RowOf(id) \in {0, p} BY ONLY <1>2, FirstRow
  <2> QED BY ONLY <1>1, <2>1
<1>3. CASE Renamed(id) = <<"017E", "FFFF">>
  BY ONLY <1>3, FirstRow, NoRow
<1>4. Chips[n].vendid = "00DA" => Chips[n].devid \notin {"007E", "227E"}
  <2>1. p # 0 BY ONLY <1>1
  <2> QED BY ONLY <2>1, NoRow
<1>5. CASE id.vendid = Chips[n].vendid /\ id.devid = Chips[n].devid /\ id.sub = "FFFF"
  <2>1. \/ Renamed(id) = <<"017E", "FFFF">>
        \/ Renamed(id) = <<Chips[n].vendid, Chips[n].devid>>
    BY <1>4, <1>5 DEF Renamed
  <2> QED BY <1>2, <1>3, <2>1
<1>6. CASE /\ Chips[n].vendid = "017E"
           /\ id.vendid = "0001" /\ id.devid = "227E" /\ id.sub = Chips[n].devid
  BY <1>2, <1>6 DEF Renamed
<1>7. CASE /\ Chips[n].vendid = "DA7E"
           /\ id.vendid = "00DA" /\ id.devid = "227E" /\ id.sub = Chips[n].devid
  BY <1>2, <1>7 DEF Renamed
<1> QED BY <1>5, <1>6, <1>7

LEMMA PresentRow ==
  ASSUME board.chip \in 0..Len(Chips)
  PROVE  \/ RowOf(Present) = 0
         \/ board.chip \in DOMAIN Chips /\ Chips[RowOf(Present)] = Chips[board.chip]
<1>1. CASE board.chip = 0 BY <1>1, NoiseRow DEF Present
<1>2. CASE board.chip # 0
  <2>1. board.chip \in 1..Len(Chips) BY <1>2, Placed
  <2> PICK c : c = Chips[board.chip] OBVIOUS
  <2>2. c = Chips[board.chip] OBVIOUS
  <2>3. Present = IdsOf(c) BY <1>2, <2>2 DEF Present
  <2>4. \/ Present.vendid = c.vendid /\ Present.devid = c.devid /\ Present.sub = "FFFF"
        \/ /\ c.vendid = "017E"
           /\ Present.vendid = "0001" /\ Present.devid = "227E" /\ Present.sub = c.devid
        \/ /\ c.vendid = "DA7E"
           /\ Present.vendid = "00DA" /\ Present.devid = "227E" /\ Present.sub = c.devid
    BY ONLY <2>3 DEF IdsOf
  <2>5. board.chip \in DOMAIN Chips BY ONLY <2>1, Placed
  <2>6. RowOf(Present) = 0 \/ Chips[RowOf(Present)] = Chips[board.chip]
    BY ONLY <2>1, <2>2, <2>4, OwnRow
  <2> QED BY ONLY <2>5, <2>6, Zenon
<1> QED BY <1>1, <1>2

LEMMA TableRow ==
  ASSUME NEW row \in DOMAIN Chips
  PROVE  RowOf(TableIds(row)) = 0 \/ Chips[RowOf(TableIds(row))] = Chips[row]
<1>1. row \in 1..Len(Chips) BY Placed
<1>2. /\ TableIds(row).vendid = Chips[row].vendid
      /\ TableIds(row).devid = Chips[row].devid /\ TableIds(row).sub = "FFFF"
  BY DEF TableIds
<1> QED BY ONLY <1>1, <1>2, OwnRow

-----------------------------------------------------------------------------
(* The chip the operation is given *)

(* The stages of main up to a place: before the chip is found, from the reset *)
(* on, with the processor halted, with the flash opened.                      *)
Working == {"config", "probe", "operate", "finish"}
Halted == {"watchdog", "serial", "open"} \cup Working
Featured == {"reset", "memory", "halt"} \cup Halted
Searching ==
  {"options", "detect", "detect_tjtag", "features"} \cup (Featured \ {"operate", "finish"})

(* What is assumed of the sessions, of the one that runs.                     *)
BoardInv ==
  /\ board.chip \in 0..Len(Chips)
  /\ board.dma \in BOOLEAN /\ board.halts \in BOOLEAN
  /\ board.watchdog \in BOOLEAN /\ board.protects \in BOOLEAN
  /\ board.protects => board.version = 0

(* /fc takes the way by the table, everything else the way by the probe; and  *)
(* no chip is found before either.                                            *)
FoundInv ==
  /\ pc \in Searching => found = 0
  /\ pc = "config" => request.fc # 0
  /\ pc = "probe" => request.fc = 0
  /\ FoundIsPresent

LEMMA SameSession ==
  ASSUME [Next]_vars
  PROVE  /\ request' = request /\ board' = board /\ Chips' = Chips
         /\ Prepared' <=> Prepared
         /\ Recognisable' <=> Recognisable
<1>1. request' = request /\ board' = board
  BY DEF Next, Step, Bite, Options, chip_detect, chip_detect_tjtag, check_ejtag_features, Reset,
         EnableMemoryWrites, Halt, ClearWatchdog, isbrcm, OpenFlash, sflash_config, sflash_probe,
         Operate, NoFile, Finish, chip_shutdown, vars
<1>2. Chips' = Chips BY <1>1 DEF Chips
<1>3. Prepared' <=> Prepared BY <1>1 DEF Prepared
<1>4. Present' = Present BY <1>1, <1>2 DEF Present
<1>5. RowOf(Present)' = RowOf(Present) BY <1>2, <1>4 DEF RowOf
<1>6. Recognisable' <=> Recognisable BY <1>1, <1>2, <1>5 DEF Recognisable
<1> QED BY <1>1, <1>2, <1>3, <1>6

LEMMA BoardKept == ASSUME BoardInv, [Next]_vars PROVE BoardInv'
BY SameSession DEF BoardInv

LEMMA BoardInit == Init => BoardInv
<1> SUFFICES ASSUME Init PROVE BoardInv OBVIOUS
<1>1. PICK s \in Sessions : request = s.request /\ board = s.board BY DEF Init
<1> QED BY <1>1, SessionsAssumption DEF BoardInv, Chips

(* What the probe reads is the chip's or noise.                               *)
LEMMA ReadPresent == \A family : Read(family) \subseteq {Present, Noise}
BY DEF Read

LEMMA FoundKept ==
  ASSUME BoardInv, FoundInv, [Next]_vars
  PROVE  FoundInv'
<1>0. Chips' = Chips /\ Meant' = Meant BY SameSession DEF Meant
<1>1. request' = request /\ board' = board BY SameSession
<1>2. CASE sflash_config
  <2>1. pc = "config" /\ pc' = "operate" BY <1>2 DEF sflash_config
  <2>2. found = 0 /\ request.fc # 0 BY <2>1 DEF FoundInv, Searching, Featured, Halted, Working
  <2>3. found' # 0 => request.fc \in DOMAIN Chips /\ Chips[found'] = Chips[request.fc]
    <3>1. CASE request.fc \in DOMAIN Chips
      <4>1. found' = RowOf(TableIds(request.fc))
        BY <1>2, <3>1 DEF sflash_config, identify_flash_part
      <4> QED BY <3>1, <4>1, TableRow
    <3>2. CASE request.fc \notin DOMAIN Chips
      BY <1>2, <2>2, <3>2 DEF sflash_config
    <3> QED BY <3>1, <3>2
  <2>4. Chips' = Chips /\ Meant' = Meant BY <1>1, SameSession DEF Meant
  <2> QED BY <1>1, <2>1, <2>2, <2>3, <2>4
          DEF FoundInv, FoundIsPresent, Meant, Searching, Featured, Halted, Working
<1>3. CASE sflash_probe
  <2>1. pc = "probe" BY <1>3 DEF sflash_probe
  <2>2. found = 0 /\ request.fc = 0 BY <2>1 DEF FoundInv, Searching, Featured, Halted, Working
  <2>3. PICK id \in Read(Steps[step]) : found' = RowOf(id)
    BY <1>3 DEF sflash_probe, identify_flash_part
  <2>4. id \in {Present, Noise} BY <2>3, ReadPresent
  <2>5. found' # 0 => board.chip \in DOMAIN Chips /\ Chips[found'] = Chips[board.chip]
    BY <2>3, <2>4, NoiseRow, PresentRow DEF BoardInv
  <2>6. pc' = "operate" \/ (pc' = "probe" /\ found' = 0) BY <1>3, <2>1 DEF sflash_probe
  <2>7. Chips' = Chips /\ Meant' = Meant BY <1>1, SameSession DEF Meant
  <2> QED BY <1>1, <2>2, <2>5, <2>6, <2>7
          DEF FoundInv, FoundIsPresent, Meant, Searching, Featured, Halted, Working
<1>4. CASE OpenFlash
  BY <1>1, <1>0, <1>4 DEF OpenFlash, FoundInv, FoundIsPresent, Searching, Featured, Halted, Working
<1>5. CASE UNCHANGED vars \/ Bite
  BY <1>1, <1>0, <1>5 DEF Bite, vars, probing, FoundInv, FoundIsPresent
<1>6. CASE Options \/ chip_detect \/ chip_detect_tjtag \/ check_ejtag_features \/ Reset
           \/ EnableMemoryWrites \/ Halt \/ ClearWatchdog \/ isbrcm \/ Operate \/ NoFile
           \/ Finish \/ chip_shutdown
  <2>1. found' = found /\ pc \notin {"config", "probe", "open"}
    BY <1>6 DEF Options, chip_detect, chip_detect_tjtag, check_ejtag_features, Reset,
                EnableMemoryWrites, Halt, ClearWatchdog, isbrcm, Operate, NoFile, Finish,
                chip_shutdown, probing
  <2>2. pc' \notin {"config", "probe"}
    BY <1>6 DEF Options, chip_detect, chip_detect_tjtag, check_ejtag_features, Reset,
                EnableMemoryWrites, Halt, ClearWatchdog, isbrcm, Operate, NoFile, Finish,
                chip_shutdown
  <2>3. pc' \in Searching => pc \in Searching
    BY <1>6 DEF Options, chip_detect, chip_detect_tjtag, check_ejtag_features, Reset,
                EnableMemoryWrites, Halt, ClearWatchdog, isbrcm, Operate, NoFile, Finish,
                chip_shutdown, Searching, Featured, Halted, Working
  <2> QED BY <1>0, <1>1, <2>1, <2>2, <2>3 DEF FoundInv, FoundIsPresent
<1> QED BY <1>2, <1>3, <1>4, <1>5, <1>6 DEF Next, Step

(* The row the operation takes its commands, window, area and blocks from     *)
(* says what the row of the board's chip, or of the one /fc names, says,      *)
(* whatever the board and the command line are: FoundIsPresent, for all rows  *)
(* of both tables, those that stand in one twice among them (sflash_probe,    *)
(* identify_flash_part, sflash_config).                                       *)
THEOREM FoundChip == Spec => []FoundIsPresent
<1>1. Init => BoardInv /\ FoundInv
  <2>1. Init => FoundInv
    BY DEF Init, FoundInv, FoundIsPresent
  <2> QED BY <2>1, BoardInit
<1>2. BoardInv /\ FoundInv /\ [Next]_vars => BoardInv' /\ FoundInv'
  BY BoardKept, FoundKept
<1>3. FoundInv => FoundIsPresent BY DEF FoundInv
<1> QED BY <1>1, <1>2, <1>3, PTL DEF Spec

-----------------------------------------------------------------------------
(* The board is prepared *)

Cpu == [mode : {"running", "debug"}, watchdog : BOOLEAN, protected : BOOLEAN,
        opened : BOOLEAN, depc : {"user", "boot"}]
(* host is a record of its three fields; the version is what the port says.   *)
TypeOK ==
  /\ cpu \in Cpu
  /\ host.dma \in BOOLEAN
  /\ host = [dma |-> host.dma, version |-> host.version, bcmproc |-> host.bcmproc]

(* The older program knows the processor once it has looked for it, and takes *)
(* only an Atheros one for an Atheros one.                                    *)
ProcInv ==
  /\ pc = "detect" => ~request.tjtag
  /\ pc = "detect_tjtag" => request.tjtag
  /\ proc_id = "atheros" => board.proc = "atheros"
  /\ pc \in {"features"} \cup Featured /\ request.tjtag /\ ~request.skipdetect =>
       proc_id = board.proc

(* Only a board that has a watchdog or the protection can be in their way.    *)
CpuInv ==
  /\ cpu.watchdog => board.watchdog
  /\ cpu.protected => board.protects

HostInv ==
  Prepared /\ pc \in Featured => /\ host.dma => board.dma
                                 /\ host.version = board.version

(* What each stage of main leaves done for the stages after it.               *)
ReadyInv ==
  Prepared =>
    /\ pc \in Halted => cpu.mode = "debug"
    /\ pc \in {"halt"} \cup Halted => ~(host.dma /\ cpu.protected)
    /\ pc \in {"serial", "open"} \cup Working => ~cpu.watchdog
    /\ pc \in Working => Reached
    /\ pc \in Searching \ {"probe"} => step = 1
    /\ Recognisable /\ pc = "probe" =>
         step = 1 \/ (step = 2 /\ Chips[board.chip].type = "SST")
    /\ Recognisable /\ request.fc = 0 /\ pc \in {"operate", "finish"} => found # 0
    /\ pc = "finish" /\ worked # Nothing => worked.reached

PreparedInv == BoardInv /\ FoundInv /\ TypeOK /\ ProcInv /\ CpuInv /\ HostInv /\ ReadyInv

LEMMA RestartedCpu ==
  ASSUME BoardInv
  PROVE  /\ Restarted \in Cpu /\ Restarted.watchdog = board.watchdog
         /\ Restarted.protected = board.protects
         /\ Left \in Cpu /\ Left.watchdog = FALSE /\ Left.protected = board.protects
BY DEF BoardInv, Restarted, Left, Cpu

LEMMA PreparedInit == Init => PreparedInv
<1> SUFFICES ASSUME Init PROVE PreparedInv OBVIOUS
<1>1. BoardInv BY BoardInit
<1>2. FoundInv BY DEF Init, FoundInv, FoundIsPresent
<1>3. cpu \in {Left, Restarted} BY DEF Init
<1>4. TypeOK BY <1>1, <1>3, RestartedCpu DEF Init, TypeOK
<1>5. CpuInv BY <1>1, <1>3, RestartedCpu DEF CpuInv
<1>6. ProcInv /\ HostInv /\ ReadyInv
  BY DEF Init, ProcInv, HostInv, ReadyInv, Featured, Halted, Working
<1> QED BY <1>1, <1>2, <1>4, <1>5, <1>6 DEF PreparedInv

(* What the processor's record is after a step.                               *)
LEMMA TypeKept ==
  ASSUME PreparedInv, [Next]_vars
  PROVE  TypeOK' /\ CpuInv'
<1>1. board' = board /\ request' = request BY SameSession
<1>2. BoardInv /\ TypeOK /\ CpuInv BY DEF PreparedInv
<1>3. CASE Reset \/ Finish \/ Bite
  <2>1. host' = host BY <1>3 DEF Reset, Finish, Bite
  <2>2. \/ cpu' = cpu \/ cpu' = Restarted \/ cpu' = Rebooted(cpu)
    BY <1>3 DEF Reset, Finish, Bite
  <2>3. \/ cpu' \in Cpu /\ cpu'.watchdog = cpu.watchdog /\ cpu'.protected = cpu.protected
        \/ cpu' \in Cpu /\ cpu'.watchdog = board.watchdog /\ cpu'.protected = board.protects
    BY <1>2, <2>2, RestartedCpu DEF Rebooted, TypeOK, Cpu
  <2> QED BY <1>1, <1>2, <2>1, <2>3 DEF TypeOK, CpuInv
<1>4. CASE EnableMemoryWrites \/ Halt \/ ClearWatchdog \/ OpenFlash
  <2>1. host' = host BY <1>4 DEF EnableMemoryWrites, Halt, ClearWatchdog, OpenFlash
  <2>2. cpu' \in Cpu /\ (cpu'.watchdog => cpu.watchdog) /\ (cpu'.protected => cpu.protected)
    <3>1. CASE EnableMemoryWrites
      BY <1>2, <3>1 DEF EnableMemoryWrites, TypeOK, Cpu
    <3>2. CASE Halt
      BY <1>2, <3>2 DEF Halt, TypeOK, Cpu
    <3>3. CASE ClearWatchdog
      BY <1>2, <3>3 DEF ClearWatchdog, TypeOK, Cpu
    <3>4. CASE OpenFlash
      BY <1>2, <3>4 DEF OpenFlash, TypeOK, Cpu
    <3> QED BY <1>4, <3>1, <3>2, <3>3, <3>4
  <2> QED BY <1>1, <1>2, <2>1, <2>2 DEF TypeOK, CpuInv
<1>5. CASE check_ejtag_features
  <2>1. cpu' = cpu BY <1>5 DEF check_ejtag_features
  <2>2. PICK features : host' = [host EXCEPT !.dma = UseDma(features), !.version = features.version]
    BY <1>5 DEF check_ejtag_features
  <2>3. UseDma(features) \in BOOLEAN BY DEF UseDma
  <2> PICK h : h = host OBVIOUS
  <2>4. h = host OBVIOUS
  <2>5. host' = [dma |-> UseDma(features), version |-> features.version, bcmproc |-> h.bcmproc]
    BY <1>2, <2>2, <2>4 DEF TypeOK
  <2> QED BY <1>1, <1>2, <2>1, <2>3, <2>5 DEF TypeOK, CpuInv
<1>6. CASE isbrcm
  <2>1. cpu' = cpu BY <1>6 DEF isbrcm
  <2> PICK h : h = host OBVIOUS
  <2>2. h = host OBVIOUS
  <2>3. host' = [dma |-> h.dma, version |-> h.version, bcmproc |-> bcm_registers(proc_id)]
    BY <1>2, <1>6, <2>2 DEF TypeOK, isbrcm
  <2>4. h.dma \in BOOLEAN BY <1>2, <2>2 DEF TypeOK
  <2> QED BY <1>1, <1>2, <2>1, <2>3, <2>4 DEF TypeOK, CpuInv
<1>7. CASE \/ Options \/ chip_detect \/ chip_detect_tjtag \/ sflash_config \/ sflash_probe
           \/ Operate \/ NoFile \/ chip_shutdown \/ UNCHANGED vars
  <2>1. host' = host /\ cpu' = cpu
    BY <1>7 DEF Options, chip_detect, chip_detect_tjtag, sflash_config, sflash_probe, Operate,
                NoFile, chip_shutdown, vars
  <2> QED BY <1>1, <1>2, <2>1 DEF TypeOK, CpuInv
<1> QED BY <1>3, <1>4, <1>5, <1>6, <1>7 DEF Next, Step

LEMMA ProcKept ==
  ASSUME PreparedInv, [Next]_vars
  PROVE  ProcInv'
<1>1. board' = board /\ request' = request BY SameSession
<1>2. ProcInv BY DEF PreparedInv
<1>3. CASE chip_detect_tjtag
  BY <1>1, <1>2, <1>3 DEF chip_detect_tjtag, ProcInv, Featured, Halted, Working
<1>4. CASE Options \/ chip_detect \/ check_ejtag_features
  BY <1>1, <1>2, <1>4
     DEF Options, chip_detect, check_ejtag_features, ProcInv, Featured, Halted, Working
<1>5. CASE Bite \/ UNCHANGED vars
  BY <1>1, <1>2, <1>5 DEF Bite, vars, ProcInv
<1>6. CASE \/ Reset \/ EnableMemoryWrites \/ Halt \/ ClearWatchdog \/ isbrcm \/ OpenFlash
           \/ sflash_config \/ sflash_probe \/ Operate \/ NoFile \/ Finish \/ chip_shutdown
  <2>1. proc_id' = proc_id
    BY <1>6 DEF Reset, EnableMemoryWrites, Halt, ClearWatchdog, isbrcm, OpenFlash, sflash_config,
                sflash_probe, Operate, NoFile, Finish, chip_shutdown
  <2>2. /\ pc' \notin {"detect", "detect_tjtag"}
        /\ pc' \in {"features"} \cup Featured => pc \in Featured
    BY <1>6 DEF Reset, EnableMemoryWrites, Halt, ClearWatchdog, isbrcm, OpenFlash, sflash_config,
                sflash_probe, Operate, NoFile, Finish, chip_shutdown, Featured, Halted, Working
  <2> QED BY <1>1, <1>2, <2>1, <2>2 DEF ProcInv
<1> QED BY <1>3, <1>4, <1>5, <1>6 DEF Next, Step

LEMMA HostKept ==
  ASSUME PreparedInv, [Next]_vars
  PROVE  HostInv'
<1>1. board' = board /\ request' = request /\ (Prepared' <=> Prepared) BY SameSession
<1>2. HostInv /\ TypeOK /\ BoardInv BY DEF PreparedInv
<1>3. CASE check_ejtag_features
  <2> SUFFICES ASSUME Prepared PROVE (host'.dma => board.dma) /\ host'.version = board.version
    BY <1>1 DEF HostInv
  <2>1. board.proc # "unknown" BY DEF Prepared
  <2>2. PICK features : /\ features = [version |-> board.version, dma |-> board.dma]
                        /\ host' = [host EXCEPT !.dma = UseDma(features),
                                                !.version = features.version]
    BY <1>3, <2>1 DEF check_ejtag_features
  <2> PICK h : h = host OBVIOUS
  <2>3. h = host OBVIOUS
  <2>4. host' = [dma |-> UseDma(features), version |-> features.version, bcmproc |-> h.bcmproc]
    BY <1>2, <2>2, <2>3 DEF TypeOK
  <2>5. UseDma(features) => board.dma BY <2>2 DEF UseDma, Prepared
  <2> QED BY <2>2, <2>4, <2>5
<1>4. CASE isbrcm
  <2> PICK h : h = host OBVIOUS
  <2>1. h = host OBVIOUS
  <2>2. host' = [dma |-> h.dma, version |-> h.version, bcmproc |-> bcm_registers(proc_id)]
    BY <1>2, <1>4, <2>1 DEF TypeOK, isbrcm
  <2>3. pc \in Featured BY <1>4 DEF isbrcm, Featured, Halted
  <2> QED BY <1>1, <1>2, <2>1, <2>2, <2>3 DEF HostInv
<1>5. CASE Options \/ chip_detect \/ chip_detect_tjtag
  <2>1. pc' \notin Featured
    BY <1>5 DEF Options, chip_detect, chip_detect_tjtag, Featured, Halted, Working
  <2> QED BY <2>1 DEF HostInv
<1>6. CASE \/ Reset \/ EnableMemoryWrites \/ Halt \/ ClearWatchdog \/ OpenFlash
           \/ sflash_config \/ sflash_probe \/ Operate \/ NoFile \/ Finish \/ chip_shutdown
           \/ Bite \/ UNCHANGED vars
  <2>1. host' = host
    BY <1>6 DEF Reset, EnableMemoryWrites, Halt, ClearWatchdog, OpenFlash, sflash_config,
                sflash_probe, Operate, NoFile, Finish, chip_shutdown, Bite, vars
  <2>2. pc' \in Featured => pc \in Featured
    BY <1>6 DEF Reset, EnableMemoryWrites, Halt, ClearWatchdog, OpenFlash, sflash_config,
                sflash_probe, Operate, NoFile, Finish, chip_shutdown, Bite, vars,
                Featured, Halted, Working
  <2> QED BY <1>1, <1>2, <2>1, <2>2 DEF HostInv
<1> QED BY <1>3, <1>4, <1>5, <1>6 DEF Next, Step

(* Once the processor is halted every access gets through.                    *)
LEMMA Halts ==
  ASSUME PreparedInv, Prepared, pc \in Halted
  PROVE  /\ Stores /\ cpu.mode = "debug" /\ ~(host.dma /\ cpu.protected)
         /\ proc_id = "atheros" <=> board.proc = "atheros"
<1>1. pc \in Featured BY DEF Featured
<1>2. cpu.mode = "debug" /\ ~(host.dma /\ cpu.protected) BY DEF PreparedInv, ReadyInv
<1>3. host.dma => board.dma BY <1>1 DEF PreparedInv, HostInv
<1>4. board.proc # "unknown" BY DEF Prepared
<1>5. Stores BY <1>2, <1>3, <1>4 DEF Stores, Accesses
<1>6. board.proc = "atheros" => proc_id = board.proc BY <1>1 DEF Prepared, PreparedInv, ProcInv
<1>7. proc_id = "atheros" => board.proc = "atheros" BY DEF PreparedInv, ProcInv
<1> QED BY <1>2, <1>5, <1>6, <1>7

(* A chip of the AMD or SST commands answers at its own family, at the latest.*)
LEMMA ProbeFinds ==
  ASSUME PreparedInv, Prepared, Recognisable, sflash_probe
  PROVE  \/ pc' = "operate" /\ found' # 0
         \/ pc' = "probe" /\ step' = 2 /\ Chips[board.chip].type = "SST"
<1> PICK c : c = Chips[board.chip] OBVIOUS
<1>0. c = Chips[board.chip] OBVIOUS
<1>1. pc = "probe" BY DEF sflash_probe
<1>2. Reached /\ (step = 1 \/ (step = 2 /\ c.type = "SST"))
  BY <1>0, <1>1 DEF PreparedInv, ReadyInv, Working
<1>3. board.chip # 0 /\ RowOf(Present) # 0 /\ c.type \in {"AMD", "SST"}
  BY <1>0 DEF Recognisable
<1>4. PICK id \in Read(Steps[step]) : found' = RowOf(id)
  BY DEF sflash_probe, identify_flash_part
<1>5. Steps[1] = "AMD" /\ Steps[2] = "SST" /\ Len(Steps) = 4 BY DEF Steps
<1>6. Read(c.type) = {Present} BY <1>0, <1>2, <1>3 DEF Read
<1>7. found' # 0 => pc' = "operate" BY DEF sflash_probe
<1>8. CASE Steps[step] = c.type BY <1>3, <1>4, <1>6, <1>7, <1>8
<1>9. CASE step = 1 /\ c.type = "SST"
  <2>1. found' = 0 => step' = 2 /\ pc' = pc BY <1>5, <1>9 DEF sflash_probe
  <2> QED BY <1>0, <1>1, <1>7, <1>9, <2>1
<1> QED BY <1>2, <1>3, <1>5, <1>8, <1>9

LEMMA OperationReaches ==
  ASSUME Reached, Operation # Nothing
  PROVE  Operation.reached
<1> PICK b \in BOOLEAN : b = Reached BY DEF Reached
<1> QED BY DEF Operation, Nothing

LEMMA ReadyKept ==
  ASSUME PreparedInv, [Next]_vars
  PROVE  ReadyInv'
<1>1. /\ board' = board /\ request' = request /\ Chips' = Chips
      /\ Prepared' <=> Prepared
      /\ Recognisable' <=> Recognisable
  BY SameSession
<1> SUFFICES ASSUME Prepared PROVE ReadyInv' BY <1>1 DEF ReadyInv
<1>2. TypeOK /\ ReadyInv BY DEF PreparedInv
<1> USE DEF Searching, Featured, Halted, Working
<1>3. CASE Options \/ chip_detect \/ chip_detect_tjtag \/ check_ejtag_features \/ Reset
  <2>1. step' = step /\ pc' \in {"exit", "detect", "detect_tjtag", "features", "reset", "memory"}
    BY <1>3 DEF Options, chip_detect, chip_detect_tjtag, check_ejtag_features, Reset, probing
  <2>2. pc \in Searching \ {"probe"}
    BY <1>3 DEF Options, chip_detect, chip_detect_tjtag, check_ejtag_features, Reset
  <2> QED BY <1>2, <2>1, <2>2 DEF ReadyInv
<1>4. CASE EnableMemoryWrites
  <2>1. pc = "memory" /\ pc' = "halt" /\ host' = host /\ step' = step
    BY <1>4 DEF EnableMemoryWrites, probing
  <2>2. (host.dma => board.dma) /\ host.version = board.version
    BY <2>1 DEF PreparedInv, HostInv
  <2>3. cpu'.protected = (cpu.protected /\ ~(Enables /\ board.dma /\ board.proc # "unknown"))
    BY <1>2, <1>4 DEF EnableMemoryWrites, TypeOK, Cpu
  <2>4. cpu.protected => Enables /\ board.proc # "unknown"
    BY <2>2 DEF Enables, Prepared, PreparedInv, CpuInv, BoardInv
  <2>5. ~(host'.dma /\ cpu'.protected) BY <2>1, <2>2, <2>3, <2>4
  <2>6. step = 1 BY <1>2, <2>1 DEF ReadyInv
  <2> QED BY <2>1, <2>5, <2>6 DEF ReadyInv
<1>5. CASE Halt
  <2>1. pc = "halt" /\ host' = host /\ step' = step BY <1>5 DEF Halt, probing
  <2>2. pc' = "watchdog" /\ cpu' = [cpu EXCEPT !.mode = "debug"]
    BY <1>5 DEF Halt, Prepared
  <2>3. cpu'.mode = "debug" /\ cpu'.protected = cpu.protected
    BY <1>2, <2>2 DEF TypeOK, Cpu
  <2>4. step = 1 /\ ~(host.dma /\ cpu.protected) BY <1>2, <2>1 DEF ReadyInv
  <2> QED BY <2>1, <2>2, <2>3, <2>4 DEF ReadyInv
<1>6. CASE ClearWatchdog
  <2>1. pc = "watchdog" /\ pc' = "serial" /\ host' = host /\ step' = step
    BY <1>6 DEF ClearWatchdog, probing
  <2>2. /\ Stores /\ cpu.mode = "debug" /\ ~(host.dma /\ cpu.protected)
        /\ proc_id = "atheros" <=> board.proc = "atheros"
    BY <2>1, Halts
  <2>3. /\ cpu'.mode = cpu.mode /\ cpu'.protected = cpu.protected
        /\ cpu'.watchdog =
             (cpu.watchdog /\ ~(/\ ~request.nocwd /\ Stores
                                /\ proc_id = "atheros" <=> board.proc = "atheros"))
    BY <1>2, <1>6 DEF ClearWatchdog, TypeOK, Cpu
  <2>4. cpu.watchdog => ~request.nocwd BY DEF PreparedInv, CpuInv, Prepared
  <2>5. ~cpu'.watchdog BY <2>2, <2>3, <2>4
  <2>6. step = 1 BY <1>2, <2>1 DEF ReadyInv
  <2> QED BY <2>1, <2>2, <2>3, <2>5, <2>6 DEF ReadyInv
<1>7. CASE isbrcm
  <2>1. pc = "serial" /\ pc' = "open" /\ cpu' = cpu /\ step' = step BY <1>7 DEF isbrcm, probing
  <2> PICK h : h = host OBVIOUS
  <2>2. h = host OBVIOUS
  <2>3. host' = [dma |-> h.dma, version |-> h.version, bcmproc |-> bcm_registers(proc_id)]
    BY <1>2, <1>7, <2>2 DEF TypeOK, isbrcm
  <2>4. host'.dma = host.dma BY <2>2, <2>3
  <2> QED BY <1>2, <2>1, <2>4 DEF ReadyInv
<1>8. CASE OpenFlash
  <2>1. /\ pc = "open" /\ pc' \in {"config", "probe"} /\ host' = host /\ step' = step
        /\ proc_id' = proc_id
    BY <1>8 DEF OpenFlash
  <2>2. /\ Stores /\ cpu.mode = "debug" /\ ~(host.dma /\ cpu.protected)
        /\ proc_id = "atheros" <=> board.proc = "atheros"
    BY <2>1, Halts
  <2>3. /\ cpu'.mode = cpu.mode /\ cpu'.protected = cpu.protected
        /\ cpu'.watchdog = cpu.watchdog
        /\ proc_id = "atheros" => cpu'.opened
    BY <1>2, <1>8, <2>2 DEF OpenFlash, TypeOK, Cpu
  <2>4. Reached' BY <1>1, <2>1, <2>2, <2>3 DEF Reached, Stores, Accesses
  <2>5. step = 1 /\ ~cpu.watchdog BY <1>2, <2>1 DEF ReadyInv
  <2> QED BY <2>1, <2>2, <2>3, <2>4, <2>5 DEF ReadyInv
<1>9. CASE Bite
  BY <1>2, <1>9 DEF Bite, ReadyInv
<1>10. CASE sflash_config \/ sflash_probe \/ Operate
  <2>1. /\ pc \in {"config", "probe", "operate"} /\ host' = host /\ cpu' = cpu
        /\ pc' \in {"probe", "operate", "finish"}
    BY <1>10 DEF sflash_config, sflash_probe, Operate
  <2>2. cpu'.mode = "debug" /\ ~(host'.dma /\ cpu'.protected) /\ ~cpu'.watchdog /\ Reached
    BY <1>2, <2>1 DEF ReadyInv
  <2>3. Reached' BY <1>1, <2>1, <2>2 DEF Reached, Stores, Accesses
  <2>4. /\ Recognisable /\ pc' = "probe" =>
              step' = 1 \/ (step' = 2 /\ Chips[board.chip].type = "SST")
        /\ Recognisable /\ request.fc = 0 /\ pc' \in {"operate", "finish"} =>
              found' # 0
    <3>1. CASE sflash_config
      BY <3>1 DEF sflash_config, PreparedInv, FoundInv
    <3>2. CASE sflash_probe
      BY <3>2, ProbeFinds
    <3>3. CASE Operate
      BY <1>2, <3>3 DEF Operate, ReadyInv
    <3> QED BY <1>10, <3>1, <3>2, <3>3
  <2>5. pc' = "finish" /\ worked' # Nothing => worked'.reached
    <3> SUFFICES ASSUME pc' = "finish" PROVE worked' # Nothing => worked'.reached OBVIOUS
    <3>1. Operate BY <1>10, <2>1 DEF sflash_config, sflash_probe
    <3>2. worked' = Operation BY <3>1 DEF Operate
    <3> QED BY <2>2, <3>2, OperationReaches
  <2>6. Nothing' = Nothing BY DEF Nothing, Nowhere
  <2> QED BY <1>1, <2>1, <2>2, <2>3, <2>4, <2>5, <2>6 DEF ReadyInv
<1>11. CASE NoFile \/ Finish \/ chip_shutdown
  <2>1. pc' \in {"exit", "shutdown", "done"} BY <1>11 DEF NoFile, Finish, chip_shutdown
  <2> QED BY <2>1 DEF ReadyInv
<1>12. CASE UNCHANGED vars
  <2>1. Reached' = Reached BY <1>12 DEF vars, Reached, Stores, Accesses
  <2> QED BY <1>1, <1>2, <1>12, <2>1 DEF vars, probing, ReadyInv
<1> QED BY <1>3, <1>4, <1>5, <1>6, <1>7, <1>8, <1>9, <1>10, <1>11, <1>12 DEF Next, Step

LEMMA PreparedKept == PreparedInv /\ [Next]_vars => PreparedInv'
<1> SUFFICES ASSUME PreparedInv, [Next]_vars PROVE PreparedInv' OBVIOUS
<1>1. BoardInv' BY BoardKept DEF PreparedInv
<1>2. FoundInv' BY FoundKept DEF PreparedInv
<1> QED BY <1>1, <1>2, TypeKept, ProcKept, HostKept, ReadyKept DEF PreparedInv

(* What main prepares, stage by stage, in every session.                      *)
THEOREM MainPrepares == Spec => []PreparedInv
BY PreparedInit, PreparedKept, PTL DEF Spec

(* On a board that main can prepare, a chip of the AMD or SST commands is     *)
(* found, and an operation works on it with the processor halted and every    *)
(* cycle arriving: Undisturbed, for every board and every combination of the  *)
(* switches (main, check_ejtag_features, sflash_probe).                       *)
THEOREM WorksUndisturbed == Spec => []Undisturbed
<1>1. PreparedInv => Undisturbed
  BY DEF PreparedInv, ReadyInv, Undisturbed, Halted, Working
<1> QED BY <1>1, MainPrepares, PTL
==============================================================================
