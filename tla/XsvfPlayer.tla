----------------------------- MODULE XsvfPlayer -----------------------------
(* The XSVF player (micro.c, with lenval.c and the routines of ports.c that   *)
(* it calls): it reads one command after the other and drives TMS and TCK.    *)
(* ucTapState is where it believes the TAP to be; the TAP itself, the         *)
(* controller of the device, moves with every clock.  The bits shifted are    *)
(* not followed, so the length of a scan and of its data are bounded apart;   *)
(* a comparison of TDO may come out either way.  A file waits only in states  *)
(* the TAP can stay in.                                                       *)
EXTENDS TapController, Lenval

CONSTANTS UChar,       \* number of values of an unsigned char, 256 in the program
          Repeats,     \* parameters of XREPEAT
          RunTimes,    \* of XRUNTEST, in clocks
          Lengths,     \* of a scan with its header and trailer, in bits
          Masks,       \* of XSETSDRMASKS
          Data,        \* of an XSDRINC
          Times,       \* numbers of repetitions in an XSDRINC
          Comments,    \* lengths of comments, in characters
          States,      \* states an XSTATE names
          WaitStates   \* states an XWAIT names

NoState == "unknown"     \* a byte that is no state
Stable == {"TEST_LOGIC_RESET", "RUN_TEST_IDLE", "SHIFT_DR", "PAUSE_DR", "SHIFT_IR", "PAUSE_IR"}
ASSUME PlayerAssumption ==
  /\ UChar \in Nat /\ Repeats \subseteq 0..(UChar - 1) /\ 0 \in Repeats
  /\ RunTimes \subseteq Nat /\ 0 \in RunTimes
  /\ Lengths \subseteq Nat /\ 0 \in Lengths
  /\ Masks \subseteq [address : Seq(Byte), data : Seq(Byte)] /\ Data \subseteq Seq(Byte)
  /\ Times \subseteq 0..(UChar - 1) /\ Comments \subseteq Nat
  /\ States \subseteq TapStates \cup {NoState} /\ WaitStates \subseteq Stable

VARIABLES tap, tms,
          ucTapState,
          info,        \* the other fields of SXsvfInfo that persist
          iErrorCode,  \* "NONE" or the name of the error
          ucComplete,
          todo,        \* what the command in progress has still to do
          scan,        \* arguments and locals of xsvfShift
          lv,          \* the lenVals of the XSDRINC in progress
          rested,      \* history: clocks in Run-Test/Idle since the last bit
          heard        \* history: `rested` when the data to compare was captured

portVars == <<tap, tms, rested, heard>>
vars == <<tap, tms, ucTapState, info, iErrorCode, ucComplete, todo, scan, lv, rested, heard>>

-----------------------------------------------------------------------------
(* The port.  waitTime pulses TCK and leaves TMS as it is. *)
Clock(t) ==
  /\ tap' = NextTap(tap, t) /\ tms' = t
  /\ rested' = IF tap = "SHIFT_DR" THEN 0
               ELSE IF tap = "RUN_TEST_IDLE" /\ t = 0 THEN rested + 1 ELSE rested
  /\ heard' = IF tap = "CAPTURE_DR" THEN rested ELSE heard

Op(o) == [op |-> o, to |-> "", n |-> 0, length |-> 0]
Move(o, s) == [op |-> o, to |-> s, n |-> 0, length |-> 0]
Goto(s) == Move("goto", s)
Pulse(n) == [op |-> "pulse", to |-> "", n |-> n, length |-> 0]
Count(n, length) == [op |-> "count", to |-> "", n |-> n, length |-> length]
Increments(n) == [op |-> "inc", to |-> "", n |-> n, length |-> 0]
At(o) == todo # <<>> /\ Head(todo).op = o
Target == Head(todo).to
Go == todo' = Tail(todo)
GoOnWith(o) == todo' = <<o>> \o Tail(todo)

PulseClock ==
  /\ At("pulse")
  /\ IF Head(todo).n = 0 THEN Go /\ UNCHANGED portVars
     ELSE Clock(tms) /\ GoOnWith(Pulse(Head(todo).n - 1))
  /\ UNCHANGED <<ucTapState, info, iErrorCode, ucComplete, scan>>
(* setPort(TMS, 1) takes effect with the next clock. *)
RaiseTms ==
  /\ At("raise") /\ tms' = 1 /\ Go
  /\ UNCHANGED <<tap, rested, heard, ucTapState, info, iErrorCode, ucComplete, scan>>

(* xsvfGotoTapState.  RESET clocks the TAP there whatever its state; Exit2 is *)
(* reached from Pause only, which is an error of XSTATE (the other callers    *)
(* ignore it and never ask for Exit2); from Pause to the same Pause it goes   *)
(* around.                                                                    *)
Unreachable(s) == \/ s = "EXIT2_DR" /\ ucTapState \notin {"PAUSE_DR", s}
                  \/ s = "EXIT2_IR" /\ ucTapState \notin {"PAUSE_IR", s}
IRStates_past == {"CAPTURE_IR", "SHIFT_IR", "EXIT1_IR", "PAUSE_IR", "EXIT2_IR", "UPDATE_IR",
                  NoState}
IRStates == {"SELECT_IR_SCAN", "CAPTURE_IR", "SHIFT_IR", "EXIT1_IR", "PAUSE_IR",
             "EXIT2_IR", "UPDATE_IR", NoState}
GotoTapState ==
  /\ At("goto")
  /\ \/ /\ Target = "TEST_LOGIC_RESET"
        /\ todo' = <<Op("raise"), Pulse(6), Op("reset")>> \o Tail(todo)
        /\ UNCHANGED iErrorCode
     \/ /\ Target # "TEST_LOGIC_RESET" /\ ~Unreachable(Target)
        /\ GoOnWith(Move(IF Target = ucTapState /\ Target \in {"PAUSE_DR", "PAUSE_IR"}
                         THEN "around" ELSE "walk", Target))
        /\ UNCHANGED iErrorCode
     \/ /\ Unreachable(Target) /\ Go
        /\ iErrorCode' = "ILLEGALSTATE"
  /\ UNCHANGED <<portVars, ucTapState, info, ucComplete, scan>>
Reset ==
  /\ At("reset") /\ ucTapState' = "TEST_LOGIC_RESET" /\ Go
  /\ UNCHANGED <<portVars, info, iErrorCode, ucComplete, scan>>
(* One turn of its loop: the TMS it sets in state s on the way to t, and the  *)
(* state it then takes the TAP to be in.                                      *)
Turn(s, t) ==
  LET to(low, high, condition) == IF condition THEN <<0, low>> ELSE <<1, high>> IN
  CASE s = "TEST_LOGIC_RESET" -> <<0, "RUN_TEST_IDLE">>
    [] s = "RUN_TEST_IDLE" -> <<1, "SELECT_DR_SCAN">>
    [] s = "SELECT_DR_SCAN" -> to("CAPTURE_DR", "SELECT_IR_SCAN", t \notin IRStates)
    [] s = "CAPTURE_DR" -> to("SHIFT_DR", "EXIT1_DR", t = "SHIFT_DR")
    [] s = "SHIFT_DR" -> <<1, "EXIT1_DR">>
    [] s = "EXIT1_DR" -> to("PAUSE_DR", "UPDATE_DR", t = "PAUSE_DR")
    [] s = "PAUSE_DR" -> <<1, "EXIT2_DR">>
    [] s = "EXIT2_DR" -> to("SHIFT_DR", "UPDATE_DR", t = "SHIFT_DR")
    [] s = "SELECT_IR_SCAN" -> <<0, "CAPTURE_IR">>
    [] s = "CAPTURE_IR" -> to("SHIFT_IR", "EXIT1_IR", t = "SHIFT_IR")
    [] s = "SHIFT_IR" -> <<1, "EXIT1_IR">>
    [] s = "EXIT1_IR" -> to("PAUSE_IR", "UPDATE_IR", t = "PAUSE_IR")
    [] s = "PAUSE_IR" -> <<1, "EXIT2_IR">>
    [] s = "EXIT2_IR" -> to("SHIFT_IR", "UPDATE_IR", t = "SHIFT_IR")
    [] s \in {"UPDATE_DR", "UPDATE_IR"} ->
         to("RUN_TEST_IDLE", "SELECT_DR_SCAN", t = "RUN_TEST_IDLE")
Walk ==
  /\ At("walk") \/ At("around")
  /\ IF At("walk") /\ ucTapState = Target THEN Go /\ UNCHANGED <<portVars, ucTapState>>
     ELSE /\ Clock(Turn(ucTapState, Target)[1])
          /\ ucTapState' = Turn(ucTapState, Target)[2]
          /\ GoOnWith(Move("walk", Target))
  /\ UNCHANGED <<info, iErrorCode, ucComplete, scan>>

-----------------------------------------------------------------------------
(* xsvfShift.  An attempt goes to the shift state, shifts, compares, and      *)
(* leaves the shift state with the last bit unless it is to stay there.       *)
Exits(sc) == sc.start # sc.end
Attempt(sc) ==
  <<Goto(sc.start)>>
  \o (IF Exits(sc) THEN <<Pulse(sc.bits - 1), Op("raise"), Pulse(1), Op("compare"),
                          Op("exit"), Op("leave"), Op("again")>>
      ELSE <<Pulse(sc.bits), Op("compare"), Op("again")>>)
(* Waits behind a scan, in Run-Test/Idle. *)
RunTest(time) == IF time = 0 THEN <<>> ELSE <<Goto("RUN_TEST_IDLE"), Pulse(time)>>
xsvfShift(sc) == IF sc.bits = 0 THEN RunTest(sc.run) ELSE Attempt(sc)

Compare ==
  /\ At("compare") /\ Go
  /\ \E m \in IF scan.expect THEN BOOLEAN ELSE {FALSE} :
       scan' = [scan EXCEPT !.mismatch = m, !.tried = @ + 1]
  /\ heard' = 0
  /\ UNCHANGED <<tap, tms, rested, ucTapState, info, iErrorCode, ucComplete>>
Exit_uncounted ==
  /\ At("exit") /\ Go
  /\ UNCHANGED <<portVars, ucTapState, info, iErrorCode, ucComplete, scan>>
Exit ==
  /\ At("exit") /\ Go
  /\ ucTapState' = IF scan.start = "SHIFT_DR" THEN "EXIT1_DR" ELSE "EXIT1_IR"
  /\ UNCHANGED <<portVars, info, iErrorCode, ucComplete, scan>>
(* After a mismatch that will be tried again, a detour through Pause-DR and   *)
(* one more bit, and a longer wait; but only if there is a wait at all.       *)
Leave_nowait ==
  LET detour == scan.mismatch /\ scan.run # 0 /\ scan.repeat < scan.max
      run == IF detour THEN scan.run + scan.run \div 4 ELSE scan.run IN
  /\ At("leave")
  /\ scan' = [scan EXCEPT !.run = run]
  /\ todo' = (IF detour THEN <<Goto("PAUSE_DR"), Goto("SHIFT_DR"), Goto("RUN_TEST_IDLE")>>
              ELSE <<Goto(scan.end)>> \o RunTest(run)) \o Tail(todo)
  /\ UNCHANGED <<portVars, ucTapState, info, iErrorCode, ucComplete>>
Leave ==
  LET detour == scan.mismatch /\ scan.run # 0 /\ scan.repeat < scan.max
      run == IF detour THEN scan.run + scan.run \div 4 ELSE scan.run IN
  /\ At("leave")
  /\ scan' = [scan EXCEPT !.run = run]
  /\ todo' = (IF detour THEN <<Goto("PAUSE_DR"), Goto("SHIFT_DR")>> ELSE <<Goto(scan.end)>>)
             \o RunTest(run) \o Tail(todo)
  /\ UNCHANGED <<portVars, ucTapState, info, iErrorCode, ucComplete>>
(* ucRepeat is counted up after the comparison with ucMaxRepeat, in 8 bits.   *)
Again_wide ==
  LET repeat == IF scan.mismatch THEN scan.repeat + 1 ELSE scan.repeat
      retry == scan.mismatch /\ scan.repeat < scan.max IN
  /\ At("again")
  /\ scan' = [scan EXCEPT !.repeat = repeat]
  /\ IF scan.mismatch /\ ~retry
     THEN /\ iErrorCode' = IF scan.max # 0 THEN "MAXRETRIES" ELSE "TDOMISMATCH"
          /\ todo' = <<>>
     ELSE /\ todo' = (IF retry THEN Attempt(scan) ELSE <<>>) \o Tail(todo)
          /\ UNCHANGED iErrorCode
  /\ UNCHANGED <<portVars, ucTapState, info, ucComplete>>
Again ==
  LET repeat == IF scan.mismatch THEN (scan.repeat + 1) % UChar ELSE scan.repeat
      retry == scan.mismatch /\ scan.repeat < scan.max IN
  /\ At("again")
  /\ scan' = [scan EXCEPT !.repeat = repeat]
  /\ IF scan.mismatch /\ ~retry
     THEN /\ iErrorCode' = IF scan.max # 0 /\ repeat > scan.max THEN "MAXRETRIES" ELSE "TDOMISMATCH"
          /\ todo' = <<>>
     ELSE /\ todo' = (IF retry THEN Attempt(scan) ELSE <<>>) \o Tail(todo)
          /\ UNCHANGED iErrorCode
  /\ UNCHANGED <<portVars, ucTapState, info, ucComplete>>

-----------------------------------------------------------------------------
(* The commands: xsvfRun reads one while there is no error.                   *)
Scan(start, end, bits, expect, run, max) ==
  [start |-> start, end |-> end, bits |-> bits, expect |-> expect, run |-> run, max |-> max,
   repeat |-> 0, mismatch |-> FALSE, tried |-> 0]
NoScan == Scan("SHIFT_DR", "SHIFT_DR", 0, FALSE, 0, 0)
xsvfInfoInit == [ucMaxRepeat |-> 0, ucEndIR |-> "RUN_TEST_IDLE", ucEndDR |-> "RUN_TEST_IDLE",
                 lShiftLengthBits |-> 0, lRunTestTime |-> 0]
NoLv == [lvTdi |-> <<>>, lvNextData |-> <<>>, lvAddressMask |-> <<>>, lvDataMask |-> <<>>]
(* xsvfInitialize has taken ucTapState for Reset and goes there. *)
Init ==
  /\ tap \in TapStates /\ tms = 1
  /\ ucTapState = "TEST_LOGIC_RESET" /\ info = xsvfInfoInit
  /\ iErrorCode = "NONE" /\ ucComplete = FALSE
  /\ todo = <<Goto("TEST_LOGIC_RESET")>> /\ scan = NoScan
  /\ lv = NoLv /\ rested = 0 /\ heard = 0

Idle == todo = <<>>
xsvfRun == Idle /\ iErrorCode = "NONE" /\ ~ucComplete
Execute(sc, ops) ==
  /\ xsvfRun /\ scan' = sc /\ todo' = ops
  /\ rested' = 0 /\ heard' = 0
  /\ UNCHANGED <<tap, tms, ucTapState, info, iErrorCode, ucComplete>>
Set(field, parameter) ==
  /\ xsvfRun /\ info' = [info EXCEPT ![field] = parameter]
  /\ UNCHANGED <<portVars, ucTapState, iErrorCode, ucComplete, todo, scan>>
Fail(error) ==
  /\ xsvfRun /\ iErrorCode' = error
  /\ UNCHANGED <<portVars, ucTapState, info, ucComplete, todo, scan>>

(* A scan of the data register with the settings of the file's header, and    *)
(* one of the XSDRB kind, without a wait or retries, that may stay in Shift.  *)
DRScan == Scan("SHIFT_DR", info.ucEndDR, info.lShiftLengthBits, TRUE,
               info.lRunTestTime, info.ucMaxRepeat)
PlainScan(end, expect) == Scan("SHIFT_DR", end, info.lShiftLengthBits, expect, 0, 0)
IRScan(n) == Scan("SHIFT_IR", info.ucEndIR, n, FALSE, info.lRunTestTime, 0)

XCOMPLETE == /\ xsvfRun /\ ucComplete' = TRUE
             /\ UNCHANGED <<portVars, ucTapState, info, iErrorCode, todo, scan>>
XSIR == \E n \in Lengths : Execute(IRScan(n), xsvfShift(IRScan(n)))
XSDR == Execute(DRScan, xsvfShift(DRScan))       \* and XSDRTDO
XRUNTEST == \E t \in RunTimes : Set("lRunTestTime", t)
XREPEAT == \E n \in Repeats : Set("ucMaxRepeat", n)
XSDRSIZE == \E n \in Lengths : Set("lShiftLengthBits", n)
XENDXR == \/ \E s \in {"RUN_TEST_IDLE", "PAUSE_IR"} : Set("ucEndIR", s)
          \/ \E s \in {"RUN_TEST_IDLE", "PAUSE_DR"} : Set("ucEndDR", s)
XSDRBCE == \E end \in {"SHIFT_DR", info.ucEndDR}, expect \in BOOLEAN :
             Execute(PlainScan(end, expect), xsvfShift(PlainScan(end, expect)))
XSTATE == \E s \in States : Execute(NoScan, <<Goto(s)>>)
XWAIT == \E s, end \in WaitStates, t \in RunTimes :
           Execute(NoScan, (IF s = ucTapState THEN <<>> ELSE <<Goto(s)>>) \o <<Pulse(t)>>
                           \o (IF end = s THEN <<>> ELSE <<Goto(end)>>))
(* A comment is read up to the byte 0 behind it.  If the file is over before, *)
(* readByte leaves the last character where it is, and the loop goes on with  *)
(* that; if there is no character it goes on or ends, as the stack has it.    *)
Comment(n, ended) ==
  [op |-> IF ended THEN "comment" ELSE "truncated", to |-> "", n |-> n, length |-> 0]
XCOMMENT == \E n \in Comments, ended \in BOOLEAN :
              /\ xsvfRun /\ todo' = <<Comment(n, ended)>>
              /\ UNCHANGED <<portVars, ucTapState, info, iErrorCode, ucComplete, scan>>
ReadComment ==
  /\ At("comment") \/ At("truncated")
  /\ \/ /\ Head(todo).n > 0
        /\ GoOnWith(Comment(Head(todo).n - 1, At("comment"))) /\ UNCHANGED iErrorCode
     \/ Head(todo).n = 0 /\ At("comment") /\ Go /\ iErrorCode' = "NONE"
  /\ UNCHANGED <<portVars, ucTapState, info, ucComplete, scan>>
(* A scan or a size longer than MAX_LEN; a parameter of XENDIR/XENDDR that is *)
(* neither 0 nor 1; a byte that is no command.                                *)
Refused == \E e \in {"DATAOVERFLOW", "ILLEGALSTATE", "ILLEGALCMD"} : Fail(e)

(* XSDRINC: a scan, then the bits of the data mask are counted (its bytes     *)
(* with an unsigned char), then `times` times new data and a scan.  The masks *)
(* are those of the last XSETSDRMASKS, which does nothing but keep them; they *)
(* have the length of the data.                                               *)
XSDRINC ==
  \E masks \in Masks, tdi \in Data, times \in Times :
    /\ Len(tdi) = Len(masks.data) /\ Len(tdi) = Len(masks.address)
    /\ Execute(DRScan, xsvfShift(DRScan) \o <<Count(0, Len(masks.data)), Increments(times)>>)
    /\ lv' = [lvTdi |-> tdi, lvNextData |-> <<>>,
              lvAddressMask |-> masks.address, lvDataMask |-> masks.data]
CountMask ==
  /\ At("count")
  /\ IF Head(todo).n < Head(todo).length
     THEN GoOnWith(Count((Head(todo).n + 1) % UChar, Head(todo).length)) ELSE Go
  /\ UNCHANGED <<portVars, ucTapState, info, iErrorCode, ucComplete, scan>>
NextIncrement ==
  /\ At("inc")
  /\ IF Head(todo).n = 0 THEN Go /\ lv' = NoLv /\ UNCHANGED <<portVars, scan>>
     ELSE /\ todo' = xsvfShift(DRScan) \o <<Increments(Head(todo).n - 1)>> \o Tail(todo)
          /\ \E next \in LenVal(NumBytes(DataBits(lv.lvDataMask))) :
               lv' = [lv EXCEPT !.lvNextData = next,
                                !.lvTdi = xsvfDoSDRMasking(@, next, lv.lvAddressMask, lv.lvDataMask)]
          /\ scan' = DRScan /\ rested' = 0 /\ heard' = 0 /\ UNCHANGED <<tap, tms>>
  /\ UNCHANGED <<ucTapState, info, iErrorCode, ucComplete>>

Command == XCOMPLETE \/ XSIR \/ XSDR \/ XRUNTEST \/ XREPEAT \/ XSDRSIZE \/ XENDXR \/ XSDRBCE
           \/ XSTATE \/ XWAIT \/ XCOMMENT \/ Refused
Step == PulseClock \/ RaiseTms \/ GotoTapState \/ Reset \/ Walk \/ Compare \/ Exit \/ Leave
        \/ Again \/ CountMask \/ ReadComment
Running == (Step /\ UNCHANGED lv) \/ NextIncrement
Next == (Command /\ UNCHANGED lv) \/ XSDRINC \/ Running
Spec == Init /\ [][Next]_vars /\ WF_vars(Running)

-----------------------------------------------------------------------------
Operations == [op : {"goto", "walk", "around", "raise", "pulse", "reset", "compare", "exit", "leave",
                     "again", "count", "inc", "comment", "truncated"},
               to : TapStates \cup {NoState, ""}, n : Nat, length : Nat]
Scans == [start : {"SHIFT_DR", "SHIFT_IR"}, end : TapStates, bits : Nat, expect : BOOLEAN,
          run : Nat, max : 0..(UChar - 1), repeat : 0..(UChar - 1), mismatch : BOOLEAN,
          tried : 0..UChar]
TypeOK ==
  /\ tap \in TapStates /\ tms \in {0, 1} /\ ucTapState \in TapStates
  /\ info \in [ucMaxRepeat : Repeats, ucEndIR : {"RUN_TEST_IDLE", "PAUSE_IR"},
               ucEndDR : {"RUN_TEST_IDLE", "PAUSE_DR"},
               lShiftLengthBits : Lengths, lRunTestTime : RunTimes]
  /\ iErrorCode \in {"NONE", "TDOMISMATCH", "MAXRETRIES", "ILLEGALCMD", "ILLEGALSTATE",
                     "DATAOVERFLOW"}
  /\ ucComplete \in BOOLEAN
  /\ todo \in Seq(Operations) /\ scan \in Scans
  /\ rested \in Nat /\ heard \in Nat

(* Wherever the player decides by ucTapState the TAP is in that state: what   *)
(* the table of xsvfGotoTapState, the last bit of a scan and the TMS left     *)
(* behind for the waits do to it is what the player believes.  A scan ends in *)
(* the state asked for, or in Run-Test/Idle when it waited.                   *)
InStep ==
  /\ Idle \/ At("walk") \/ At("leave") \/ At("again") \/ At("count") \/ At("inc")
       => tap = ucTapState
  /\ At("again") /\ ~scan.mismatch
       => tap = IF Exits(scan) /\ scan.run # 0 THEN "RUN_TEST_IDLE" ELSE scan.end

(* What is compared in a retry was captured after the device had rested for   *)
(* the whole, longer, wait; and a mismatch is reported after exactly the      *)
(* retries XREPEAT allows, as MAXRETRIES if there were any, except that 255   *)
(* retries count over to 0 and are reported as none.                          *)
RetriesAsAsked ==
  /\ At("compare") /\ scan.repeat > 0 /\ scan.run > 0 => heard >= scan.run
  /\ iErrorCode \in {"TDOMISMATCH", "MAXRETRIES"} =>
       /\ scan.tried = scan.max + 1
       /\ iErrorCode = "MAXRETRIES" <=> scan.max \in 1..(UChar - 2)

(* XSDRINC shifts the previous data plus the address mask, modulo its length, *)
(* with the bits of the data mask then replaced by the new data in order; and *)
(* the arithmetic is exact for all data and masks of `Bytes` bytes.           *)
IncrementIsExact ==
  /\ SumIsExact /\ MaskingIsExact
  /\ [][At("inc") /\ Head(todo).n > 0 =>
          IsIncrement(lv.lvTdi, lv.lvAddressMask, lv.lvDataMask, lv'.lvNextData, lv'.lvTdi)]_vars

(* Every command comes to an end, unless it names no state, an XSDRINC counts *)
(* more bytes than its counter can, or the file is over in a comment.         *)
CommandEnds == ~Idle ~> \/ Idle
                        \/ At("walk") /\ Target = NoState
                        \/ At("count") /\ Head(todo).length >= UChar
                        \/ At("truncated") /\ Head(todo).n = 0
==============================================================================
