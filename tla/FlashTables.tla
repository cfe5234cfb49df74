----------------------------- MODULE FlashTables -----------------------------
(* The tables of wrt54g.c and of the older tjtag.1.c beside it: the flash     *)
(* chips and the named areas.  Addresses and sizes are in units of 128 bytes, *)
(* which divide the odd blocks of the Atmel chips.                            *)
EXTENDS Integers

KB(n) == 8 * n
MB(n) == KB(1024 * n)

(* A row of flash_chip_list: its name is left out.                            *)
Row(v, d, mb, type, regions) ==
  [vendid |-> v, devid |-> d, size |-> MB(mb), type |-> type, regions |-> regions]
R(n, kb) == [num |-> n, size |-> KB(kb)]
Flat(n) == <<R(n, 64)>>
Top(n) == <<R(n, 64), R(8, 8)>>
Bot(n) == <<R(8, 8), R(n, 64)>>
TopB(n) == <<R(n, 64), R(1, 32), R(2, 8), R(1, 16)>>
BotB(n) == <<R(1, 16), R(2, 8), R(1, 32), R(n, 64)>>
sizeA4K == 33

(* flash_chip_list of wrt54g.c, in its order: twelve rows stand in it twice.  *)
flash_chip_list ==
  << Row("0001", "0214", 2, "SPI", Flat(32)),          Row("0001", "0215", 4, "SPI", Flat(64)),
     Row("0001", "0216", 8, "SPI", Flat(128)),         Row("0001", "2249", 2, "AMD", BotB(31)),
     Row("0001", "22C4", 2, "AMD", TopB(31)),          Row("0001", "22F9", 4, "AMD", Bot(63)),
     Row("0001", "22F6", 4, "AMD", Top(63)),           Row("0001", "2200", 4, "AMD", Bot(63)),
     Row("0001", "227E", 4, "AMD", Top(63)),           Row("0001", "2201", 4, "AMD", Top(63)),
     Row("0089", "0018", 16, "SCS", <<R(128, 128)>>),  Row("0089", "8891", 2, "BSC", Bot(31)),
     Row("0089", "8890", 2, "BSC", Top(31)),           Row("0089", "88C3", 2, "BSC", Bot(31)),
     Row("0089", "88C2", 2, "BSC", Top(31)),           Row("00B0", "00D0", 2, "SCS", Flat(32)),
     Row("0089", "8897", 4, "BSC", Bot(63)),           Row("0089", "8896", 4, "BSC", Top(63)),
     Row("0089", "88C5", 4, "BSC", Bot(63)),           Row("0089", "88C4", 4, "BSC", Top(63)),
     Row("0089", "0016", 4, "SCS", <<R(32, 128)>>),    Row("0089", "0014", 4, "SCS", <<R(32, 128)>>),
     Row("00B0", "00D4", 4, "SCS", Flat(64)),          Row("0089", "8899", 8, "BSC", Bot(127)),
     Row("0089", "8898", 8, "BSC", Top(127)),          Row("0089", "88CD", 8, "BSC", Bot(127)),
     Row("0089", "88CC", 8, "BSC", Top(127)),          Row("0089", "0017", 8, "SCS", <<R(64, 128)>>),
     Row("0089", "0015", 8, "SCS", <<R(64, 128)>>),    Row("0004", "22F9", 4, "AMD", BotB(63)),
     Row("0004", "22F6", 4, "AMD", TopB(63)),          Row("00C2", "22A8", 4, "AMD", Bot(63)),
     Row("00C2", "00A8", 4, "AMD", Bot(63)),           Row("00C2", "00A7", 4, "AMD", Top(63)),
     Row("00C2", "22A7", 4, "AMD", Top(63)),           Row("00BF", "2783", 4, "SST", Flat(64)),
     Row("0020", "22CB", 4, "AMD", BotB(63)),          Row("0020", "22CA", 4, "AMD", TopB(63)),
     Row("00B0", "00E3", 4, "BSC", Bot(63)),           Row("0098", "009C", 4, "AMD", BotB(63)),
     Row("0098", "009A", 4, "AMD", TopB(63)),          Row("001F", "00C0", 4, "AMD", Bot(63)),
     Row("001F", "00C2", 4, "AMD", Top(63)),           Row("0004", "2249", 2, "AMD", BotB(31)),
     Row("0004", "22C4", 2, "AMD", TopB(31)),          Row("00C2", "2249", 2, "AMD", BotB(31)),
     Row("00C2", "22C4", 2, "AMD", TopB(31)),          Row("0020", "2249", 2, "AMD", BotB(31)),
     Row("0020", "22C4", 2, "AMD", TopB(31)),          Row("00BF", "234B", 4, "SST", <<R(64, 32)>>),
     Row("00BF", "234A", 4, "SST", <<R(64, 32)>>),     Row("00BF", "235B", 4, "SST", <<R(128, 32)>>),
     Row("00BF", "235A", 4, "SST", <<R(128, 32)>>),    Row("00BF", "236B", 4, "SST", <<R(256, 32)>>),
     Row("00BF", "236A", 4, "SST", <<R(256, 32)>>),    Row("00EC", "2275", 2, "AMD", Top(31)),
     Row("00EC", "2277", 2, "AMD", Bot(31)),
     Row("00C2", "22DA", 1, "AMD", <<R(15, 32), R(1, 16), R(2, 4), R(1, 8)>>),
     Row("00C2", "225B", 1, "AMD", <<R(1, 8), R(2, 4), R(1, 16), R(15, 32)>>),
     Row("00EC", "22A0", 2, "AMD", Top(63)),           Row("00EC", "22A2", 2, "AMD", Bot(63)),
     Row("00BF", "236D", 8, "SST", <<R(256, 32)>>),    Row("00BF", "236C", 8, "SST", <<R(256, 32)>>),
     Row("0020", "227E", 16, "AMD", <<R(128, 128)>>),  Row("00C2", "227E", 8, "AMD", <<R(256, 32)>>),
     Row("0004", "2250", 4, "AMD", Top(63)),           Row("0004", "2253", 4, "AMD", Bot(63)),
     Row("001F", "00C8", 4, "AMD", Bot(63)),           Row("001F", "00C9", 4, "AMD", Top(63)),
     Row("001F", "2600", 2, "SPI", <<[num |-> 512, size |-> sizeA4K]>>),
     Row("0020", "2015", 2, "SPI", Flat(32)),          Row("0020", "2016", 4, "SPI", Flat(64)),
     Row("0020", "2017", 8, "SPI", Flat(128)),         Row("0020", "2018", 16, "SPI", <<R(32, 256)>>),
     Row("0020", "225C", 4, "AMD", Top(63)),           Row("0020", "225D", 4, "AMD", Bot(63)),
     Row("0040", "0000", 2, "SPI", <<[num |-> 512, size |-> sizeA4K]>>),
     Row("007F", "2249", 2, "AMD", BotB(31)),          Row("007F", "22C4", 2, "AMD", TopB(31)),
     Row("007F", "22C9", 8, "AMD", Top(127)),          Row("007F", "22CB", 8, "AMD", Bot(127)),
     Row("007F", "22F6", 4, "AMD", Top(63)),           Row("007F", "22F9", 4, "AMD", Bot(63)),
     Row("0098", "0057", 8, "AMD", Top(127)),          Row("0098", "0058", 8, "AMD", Bot(127)),
     Row("0098", "009A", 4, "AMD", TopB(63)),          Row("0098", "009C", 4, "AMD", BotB(63)),
     Row("00BF", "2783", 4, "SST", Flat(64)),          Row("00C2", "0014", 2, "SPI", Flat(32)),
     Row("00C2", "00A7", 4, "AMD", Top(63)),           Row("00C2", "00A8", 4, "AMD", Bot(63)),
     Row("00C2", "2015", 2, "SPI", Flat(32)),          Row("00C2", "2016", 4, "SPI", Flat(64)),
     Row("00C2", "2017", 8, "SPI", Flat(128)),         Row("00C2", "2249", 2, "AMD", BotB(31)),
     Row("00C2", "227E", 8, "AMD", <<R(256, 32)>>),    Row("00C2", "22A7", 4, "AMD", Top(63)),
     Row("00C2", "22A8", 4, "AMD", Bot(63)),           Row("00C2", "22C9", 16, "AMD", Top(127)),
     Row("00C2", "22CB", 16, "AMD", Bot(127)),         Row("00C2", "22C4", 2, "AMD", TopB(31)),
     Row("00DA", "222A", 4, "AMD", Bot(63)),           Row("00DA", "22BA", 4, "AMD", Top(63)),
     Row("00EC", "2275", 2, "AMD", Top(31)),           Row("00EC", "2277", 2, "AMD", Bot(31)),
     Row("00EC", "22E0", 8, "AMD", Top(127)),          Row("00EC", "22E2", 8, "AMD", Bot(127)),
     Row("00EF", "3016", 4, "SPI", Flat(64)),          Row("00EF", "3017", 8, "SPI", Flat(128)),
     Row("017E", "1000", 8, "AMD", Bot(127)),          Row("017E", "1001", 8, "AMD", Top(127)),
     Row("017E", "1200", 16, "AMD", <<R(128, 128)>>),  Row("017E", "1A00", 4, "AMD", Bot(63)),
     Row("017E", "1A01", 4, "AMD", Top(63)),           Row("017E", "2101", 16, "AMD", <<R(128, 128)>>),
     Row("017E", "2201", 32, "AMD", <<R(256, 128)>>),  Row("017E", "2301", 64, "AMD", <<R(512, 128)>>),
     Row("017E", "2801", 128, "AMD", <<R(1024, 128)>>) >>

(* flash_chip_list of tjtag.1.c, in its order.                                *)
flash_chip_list_tjtag ==
  << Row("00C2", "22DA", 1, "AMD", <<R(15, 32), R(1, 16), R(2, 4), R(1, 8)>>),
     Row("00C2", "225B", 1, "AMD", <<R(1, 8), R(2, 4), R(1, 16), R(15, 32)>>),
     Row("0001", "2249", 2, "AMD", BotB(31)),          Row("0001", "22C4", 2, "AMD", TopB(31)),
     Row("007F", "2249", 2, "AMD", BotB(31)),          Row("007F", "22C4", 2, "AMD", TopB(31)),
     Row("0004", "2249", 2, "AMD", BotB(31)),          Row("0004", "22C4", 2, "AMD", TopB(31)),
     Row("00C2", "2249", 2, "AMD", BotB(31)),          Row("00C2", "22C4", 2, "AMD", TopB(31)),
     Row("00EC", "2275", 2, "AMD", Top(31)),           Row("00EC", "2277", 2, "AMD", Bot(31)),
     Row("0020", "2249", 2, "AMD", BotB(31)),          Row("0020", "22C4", 2, "AMD", TopB(31)),
     Row("00C2", "0014", 2, "SPI", Flat(32)),
     Row("001F", "2600", 2, "SPI", <<[num |-> 512, size |-> sizeA4K]>>),
     Row("0040", "0000", 2, "SPI", <<[num |-> 512, size |-> sizeA4K]>>),
     Row("00EC", "22A0", 4, "AMD", Top(63)),           Row("00EC", "22A2", 4, "AMD", Bot(63)),
     Row("00C2", "2015", 2, "SPI", Flat(32)),          Row("00C2", "2016", 4, "SPI", Flat(64)),
     Row("00C2", "2017", 8, "SPI", Flat(128)),         Row("0020", "2015", 2, "SPI", Flat(32)),
     Row("0020", "2016", 4, "SPI", Flat(64)),          Row("0020", "2017", 8, "SPI", Flat(128)),
     Row("0020", "2018", 16, "SPI", <<R(32, 256)>>),   Row("0001", "2200", 4, "AMD", Bot(63)),
     Row("0001", "227E", 4, "AMD", Top(63)),           Row("0001", "2201", 4, "AMD", Top(63)),
     Row("0098", "009C", 4, "AMD", BotB(63)),          Row("0098", "009A", 4, "AMD", TopB(63)),
     Row("001F", "00C0", 4, "AMD", Bot(63)),           Row("001F", "00C2", 4, "AMD", Top(63)),
     Row("0004", "2253", 4, "AMD", Bot(63)),           Row("0004", "2250", 4, "AMD", Top(63)),
     Row("0001", "22F9", 4, "AMD", Bot(63)),           Row("0001", "22F6", 4, "AMD", Top(63)),
     Row("0004", "22F9", 4, "AMD", BotB(63)),          Row("0004", "22F6", 4, "AMD", TopB(63)),
     Row("00C2", "22A8", 4, "AMD", Bot(63)),           Row("00C2", "00A8", 4, "AMD", Bot(63)),
     Row("00C2", "00A7", 4, "AMD", Top(63)),           Row("00C2", "22A7", 4, "AMD", Top(63)),
     Row("0020", "22CB", 4, "AMD", BotB(63)),          Row("0020", "22CA", 4, "AMD", TopB(63)),
     Row("00C2", "22C9", 16, "AMD", Top(127)),         Row("00C2", "22CB", 16, "AMD", Bot(127)),
     Row("00DA", "22BA", 4, "AMD", Top(63)),           Row("00DA", "222A", 4, "AMD", Bot(63)),
     Row("22DA", "222A", 4, "AMD", Bot(63)),           Row("0020", "225C", 4, "AMD", Top(63)),
     Row("0020", "225D", 4, "AMD", Bot(63)),           Row("0098", "0057", 8, "AMD", Top(127)),
     Row("0098", "0058", 8, "AMD", Bot(127)),          Row("00EC", "22E0", 8, "AMD", Top(127)),
     Row("00EC", "22E2", 8, "AMD", Bot(127)),          Row("0089", "8891", 2, "BSC", Bot(31)),
     Row("0089", "8890", 2, "BSC", Top(31)),           Row("0089", "88C3", 2, "BSC", Bot(31)),
     Row("0089", "88C2", 2, "BSC", Top(31)),           Row("0089", "8897", 4, "BSC", Bot(63)),
     Row("0089", "8896", 4, "BSC", Top(63)),           Row("0089", "88C5", 4, "BSC", Bot(63)),
     Row("0089", "88C4", 4, "BSC", Top(63)),           Row("00B0", "00E3", 4, "BSC", Bot(63)),
     Row("0089", "8899", 8, "BSC", Bot(127)),          Row("0089", "8898", 8, "BSC", Top(127)),
     Row("0089", "88CD", 8, "BSC", Bot(127)),          Row("0089", "88CC", 8, "BSC", Top(127)),
     Row("00B0", "00D0", 2, "SCS", Flat(32)),          Row("0089", "0016", 4, "SCS", <<R(32, 128)>>),
     Row("0089", "0014", 4, "SCS", <<R(32, 128)>>),    Row("00B0", "00D4", 4, "SCS", Flat(64)),
     Row("0089", "0017", 8, "SCS", <<R(64, 128)>>),    Row("0089", "0015", 8, "SCS", <<R(64, 128)>>),
     Row("0089", "0018", 16, "SCS", <<R(128, 128)>>),  Row("00BF", "234B", 2, "SST", Bot(31)),
     Row("00BF", "234A", 2, "SST", Top(31)),           Row("00BF", "235B", 4, "SST", Bot(63)),
     Row("00BF", "235A", 4, "SST", Top(63)),           Row("00BF", "236B", 8, "SST", Bot(127)),
     Row("00BF", "236A", 8, "SST", Top(127)),          Row("00BF", "236D", 8, "SST", Bot(127)),
     Row("00BF", "236C", 8, "SST", Top(127)),          Row("017E", "1A00", 4, "AMD", Bot(63)),
     Row("017E", "1A01", 4, "AMD", Top(63)),           Row("017E", "1000", 8, "AMD", Bot(127)),
     Row("017E", "1001", 8, "AMD", Top(127)),          Row("017E", "2101", 16, "AMD", <<R(128, 128)>>),
     Row("017E", "1200", 16, "AMD", <<R(128, 128)>>),  Row("017E", "2201", 32, "AMD", <<R(256, 128)>>),
     Row("017E", "2301", 64, "AMD", <<R(512, 128)>>),
     Row("017E", "2801", 128, "AMD", <<R(1024, 128)>>),
     Row("0001", "0214", 2, "SPI", Flat(32)),          Row("0001", "0215", 4, "SPI", Flat(64)),
     Row("0001", "0216", 8, "SPI", Flat(128)),         Row("DA7E", "0A00", 4, "AMD", Bot(63)),
     Row("DA7E", "0A01", 4, "AMD", Top(63)),           Row("00EF", "3016", 4, "SPI", Flat(64)),
     Row("00EF", "3017", 8, "SPI", Flat(128)),         Row("007F", "22F9", 4, "AMD", Bot(63)),
     Row("007F", "22F6", 4, "AMD", Top(63)),           Row("007F", "22C9", 8, "AMD", Top(127)),
     Row("007F", "22CB", 8, "AMD", Bot(127)),          Row("001F", "00C8", 4, "AMD", Bot(63)),
     Row("001F", "00C9", 4, "AMD", Top(63)) >>

(* flash_area_list of wrt54g.c: the megabyte the area is counted from,        *)
(* where it starts there and how long it is.                                  *)
Areas(sizes, name, mb, kb, length) ==
  {[chip_size |-> MB(s), name |-> name, start |-> MB(mb) + KB(kb), length |-> KB(length)] : s \in sizes}
flash_area_list == UNION
  { Areas({1, 2, 4}, "CFE", 508, 0, 256),    Areas({8}, "CFE", 448, 0, 256),
    Areas({16}, "CFE", 496, 0, 256),         Areas({8, 16}, "AR-CFE", 2688, 0, 256),
    Areas({1, 2, 4}, "CFE128", 508, 0, 128), Areas({8, 16}, "CFE128", 448, 0, 128),
    Areas({1, 2, 4}, "CF1", 508, 0, 8),      Areas({8, 16}, "CF1", 448, 0, 8),
    Areas({1}, "KERNEL", 508, 256, 704),     Areas({2}, "KERNEL", 508, 256, 1728),
    Areas({4}, "KERNEL", 508, 256, 3776),    Areas({8, 16}, "KERNEL", 448, 256, 7808),
    Areas({8, 16}, "AR-KERNEL", 2688, 256, 7808),
    Areas({1}, "NVRAM", 508, 960, 64),       Areas({2}, "NVRAM", 508, 1984, 64),
    Areas({4}, "NVRAM", 508, 4032, 64),      Areas({8, 16}, "NVRAM", 448, 8064, 128),
    Areas({8, 16}, "AR-NVRAM", 2688, 8064, 128),
    Areas({2}, "WGRV9NVRAM", 508, 2032, 16), Areas({2}, "WGRV9BDATA", 508, 2028, 4),
    Areas({4}, "WGRV8BDATA", 508, 3968, 64),
    Areas({1}, "WHOLEFLASH", 508, 0, 1024),  Areas({2}, "WHOLEFLASH", 508, 0, 2048),
    Areas({4}, "WHOLEFLASH", 508, 0, 4096),  Areas({8}, "WHOLEFLASH", 448, 0, 8192),
    Areas({16}, "WHOLEFLASH", 496, 0, 16384), Areas({8}, "AR-WHOLEFLASH", 2688, 0, 8192),
    Areas({16}, "AR-WHOLEFLASH", 2688, 0, 16384),
    Areas({1, 2, 4}, "BSP", 508, 0, 320),    Areas({8, 16}, "BSP", 448, 0, 320),
    Areas({8, 16}, "AR-BSP", 2688, 0, 320),  Areas({8}, "AR-RED", 2688, 0, 192),
    Areas({1, 2, 4, 8, 16}, "RED", 1280, 0, 320) }
(* The one of tjtag.1.c has the same areas.                                   *)
flash_area_list_tjtag == flash_area_list
==============================================================================
