-------------------------- MODULE JtagDriverProofs ---------------------------
(* The control path of the JTAG layer, proved for every chain, every setup    *)
(* that sends at least one instruction bit, and every register width: where   *)
(* the controllers are while the routines of wrt54g.c clock them.             *)
EXTENDS JtagDriver, TLAPS

(* The states from which k clocks with TMS high lead to Test-Logic-Reset.     *)
Within(k) ==
  {"TEST_LOGIC_RESET"}
    \union (IF k > 0 THEN {"SELECT_IR_SCAN"} ELSE {})
    \union (IF k > 1 THEN {"SELECT_DR_SCAN"} ELSE {})
    \union (IF k > 2 THEN {"RUN_TEST_IDLE", "UPDATE_DR", "UPDATE_IR"} ELSE {})
    \union (IF k > 3 THEN {"EXIT1_DR", "EXIT2_DR", "EXIT1_IR", "EXIT2_IR"} ELSE {})
    \union (IF k > 4 THEN {"CAPTURE_DR", "SHIFT_DR", "PAUSE_DR",
                          "CAPTURE_IR", "SHIFT_IR", "PAUSE_IR"} ELSE {})

(* Where the routines are, in terms of the controller's state.                *)
ResetInv ==
  pc \in {"powerup", "reset"} =>
    /\ i \in 0..6
    /\ tap \in Within(IF i < 5 THEN 5 - i ELSE 0)
    /\ state \in Within(IF i < 5 THEN 5 - i ELSE 0)

PathInv ==
  pc = "goto" =>
    IF scan.register = "IR"
    THEN /\ i \in 0..3
         /\ tap = <<"RUN_TEST_IDLE", "SELECT_DR_SCAN", "SELECT_IR_SCAN", "CAPTURE_IR">>[i + 1]
    ELSE /\ i \in 0..2
         /\ tap = <<"RUN_TEST_IDLE", "SELECT_DR_SCAN", "CAPTURE_DR">>[i + 1]

ShiftInv ==
  pc = "shift" =>
    /\ i \in Nat /\ i < Total(scan)
    /\ tap = (IF scan.register = "IR" THEN "SHIFT_IR" ELSE "SHIFT_DR")

FinishInv ==
  pc = "finish" =>
    /\ i \in 0..1
    /\ tap = IF scan.register = "IR"
             THEN IF i = 0 THEN "EXIT1_IR" ELSE "UPDATE_IR"
             ELSE IF i = 0 THEN "EXIT1_DR" ELSE "UPDATE_DR"

(* The frame of the scan in progress, as far as control depends on it.        *)
FrameInv ==
  pc \in {"goto", "shift", "finish"} =>
    /\ \/ scan.register = "IR" /\ scan.path = goToShiftIR
       \/ scan.register = "DR" /\ scan.path = goToShiftDR
    /\ scan.head \in Nat /\ scan.tail \in Nat
    /\ Len(scan.bits) \in Nat
    /\ Len(scan.bits) + scan.tail > 0

ControlInv ==
  /\ setup \in Setups
  /\ pc \in Pcs /\ i \in Nat
  /\ tap \in TapStates /\ state \in TapStates
  /\ pc = "idle" => tap = "RUN_TEST_IDLE"
  /\ pc \in {"idle", "goto", "shift", "finish"} => state = tap
  /\ ResetInv /\ PathInv /\ ShiftInv /\ FinishInv /\ FrameInv

-----------------------------------------------------------------------------
(* The levels and lengths of the two paths. *)
LEMMA PathFacts ==
  /\ Len(goToShiftIR) = 4 /\ goToShiftIR[1] = 1 /\ goToShiftIR[2] = 1
  /\ goToShiftIR[3] = 0 /\ goToShiftIR[4] = 0
  /\ Len(goToShiftDR) = 3 /\ goToShiftDR[1] = 1 /\ goToShiftDR[2] = 0
  /\ goToShiftDR[3] = 0
BY DEF goToShiftIR, goToShiftDR

(* An encoded instruction has the length it was encoded for. *)
LEMMA EncodeLen ==
  ASSUME NEW len \in Nat, NEW instr \in Instructions
  PROVE  Len(Encode(instr, len)) = len
BY DEF Encode, Instructions

(* A word has Width bits. *)
LEMMA WordLen == ASSUME NEW data \in Word PROVE Len(data) = Width
BY ChainAssumption DEF Word

(* TMS rises on the last bit of a scan that has a bit to send or a trailer,   *)
(* and on no other one: header bits alone never raise it.                     *)
LEMMA LastBitIsLast ==
  ASSUME NEW s, s.head \in Nat, s.tail \in Nat, Len(s.bits) \in Nat,
         Len(s.bits) + s.tail > 0,
         NEW k \in Nat, k < Total(s)
  PROVE  LastBit(s, k) <=> k + 1 = Total(s)
BY DEF LastBit, Total, InBits

(* One clock with TMS high leads one state closer to Test-Logic-Reset.        *)
LEMMA Closer ==
  ASSUME NEW n \in 1..5, NEW s \in Within(n)
  PROVE  NextTap(s, 1) \in Within(n - 1)
<1>1. n = 1 \/ n = 2 \/ n = 3 \/ n = 4 \/ n = 5
  OBVIOUS
<1>2. CASE n = 1
  BY <1>2 DEF Within, NextTap, OnHigh
<1>3. CASE n = 2
  BY <1>3 DEF Within, NextTap, OnHigh
<1>4. CASE n = 3
  BY <1>4 DEF Within, NextTap, OnHigh
<1>5. CASE n = 4
  BY <1>5 DEF Within, NextTap, OnHigh, TapStates
<1>6. CASE n = 5
  BY <1>6 DEF Within, NextTap, OnHigh, TapStates
<1> QED
  BY <1>1, <1>2, <1>3, <1>4, <1>5, <1>6

(* The next state is a state. *)
LEMMA NextTapType ==
  ASSUME NEW s \in TapStates, NEW tms PROVE NextTap(s, tms) \in TapStates
BY DEF NextTap, TapStates, OnLow, OnHigh

(* A clock moves the controllers and their copy alike; the rest of the chain  *)
(* does not matter to control.                                                *)
LEMMA ClockMoves ==
  ASSUME NEW tms, NEW tdi, tog_tck(tms, tdi)
  PROVE  tap' = NextTap(tap, tms) /\ state' = NextTap(state, tms)
BY DEF tog_tck, ClockChain

(* Both frames are well formed and send at least one bit after the header.    *)
LEMMA Frames ==
  ASSUME setup \in Setups
  PROVE  /\ \A instr \in Instructions :
              /\ WrIR(instr).register = "IR" /\ WrIR(instr).path = goToShiftIR
              /\ WrIR(instr).head \in Nat /\ WrIR(instr).tail \in Nat
              /\ Len(WrIR(instr).bits) \in Nat
              /\ Len(WrIR(instr).bits) + WrIR(instr).tail > 0
         /\ \A data \in Word :
              /\ rwDR(data).register = "DR" /\ rwDR(data).path = goToShiftDR
              /\ rwDR(data).head \in Nat /\ rwDR(data).tail \in Nat
              /\ Len(rwDR(data).bits) \in Nat
              /\ Len(rwDR(data).bits) + rwDR(data).tail > 0
<1>1. setup \in SetupType /\ Drivable(setup)
  BY SetupsAssumption
<1>2. /\ setup.instruction_length \in Nat /\ setup.hir \in Nat /\ setup.tir \in Nat
      /\ setup.hdr \in Nat /\ setup.tdr \in Nat
  BY <1>1 DEF SetupType
<1>3. ASSUME NEW instr \in Instructions
      PROVE  Len(WrIR(instr).bits) = setup.instruction_length
  BY <1>2, EncodeLen DEF WrIR
<1>4. ASSUME NEW data \in Word
      PROVE  Len(rwDR(data).bits) = Width
  BY WordLen DEF rwDR
<1> QED
  BY <1>1, <1>2, <1>3, <1>4, ChainAssumption DEF WrIR, rwDR, Drivable

LEMMA ControlInit == Init => ControlInv
BY DEF Init, InitChain, ControlInv, ResetInv, PathInv, ShiftInv, FinishInv, FrameInv,
       Pcs, TapStates, Within

LEMMA ControlStep == ControlInv /\ [Next]_vars => ControlInv'
<1> SUFFICES ASSUME ControlInv, [Next]_vars PROVE ControlInv'
  OBVIOUS
<1> USE DEF ControlInv
<1>1. CASE StartReset
  <2>1. tap' = tap /\ state' = state /\ pc' = "reset" /\ i' = 0 /\ setup' = setup
    BY <1>1 DEF StartReset, chainVars
  <2>2. tap \in Within(5) /\ state \in Within(5)
    BY DEF Within, TapStates
  <2> QED
    BY <2>1, <2>2 DEF ResetInv, PathInv, ShiftInv, FinishInv, FrameInv, Pcs
<1>2. CASE test_reset
  <2>1. /\ pc \in {"powerup", "reset"} /\ setup' = setup
        /\ tog_tck(IF i < 6 THEN 1 ELSE 0, 0)
    BY <1>2 DEF test_reset
  <2>2. i \in 0..6
    BY <2>1 DEF ResetInv
  <2>3. CASE i < 5
    <3>1. tap' = NextTap(tap, 1) /\ state' = NextTap(state, 1)
      BY <2>1, <2>3, ClockMoves
    <3>2. tap \in Within(5 - i) /\ state \in Within(5 - i) /\ 5 - i \in 1..5
      BY <2>1, <2>2, <2>3 DEF ResetInv
    <3>3. tap' \in Within(5 - i - 1) /\ state' \in Within(5 - i - 1)
      BY <3>1, <3>2, Closer
    <3>4. pc' = pc /\ i' = i + 1
      BY <1>2, <2>2, <2>3 DEF test_reset
    <3>5. i' < 5 => 5 - i - 1 = 5 - i'
      BY <3>4, <2>2
    <3>6. ~(i' < 5) => 5 - i - 1 = 0
      BY <3>4, <2>2, <2>3
    <3>7. ResetInv'
      <4>1. tap' \in Within(IF i' < 5 THEN 5 - i' ELSE 0)
        BY <3>3, <3>5, <3>6
      <4>2. state' \in Within(IF i' < 5 THEN 5 - i' ELSE 0)
        BY <3>3, <3>5, <3>6
      <4> QED
        BY <4>1, <4>2, <3>4, <2>2, <2>3 DEF ResetInv
    <3> QED
      BY <3>1, <3>4, <3>7, <2>1, <2>2, NextTapType
      DEF PathInv, ShiftInv, FinishInv, FrameInv, Pcs
  <2>4. CASE i = 5
    <3>1. tap = "TEST_LOGIC_RESET" /\ state = "TEST_LOGIC_RESET"
      BY <2>1, <2>4 DEF ResetInv, Within
    <3>2. tap' = "TEST_LOGIC_RESET" /\ state' = "TEST_LOGIC_RESET"
      BY <3>1, <2>1, <2>4, ClockMoves DEF NextTap, OnHigh
    <3>3. pc' = pc /\ i' = 6
      BY <1>2, <2>4 DEF test_reset
    <3> QED
      BY <3>2, <3>3, <2>1
      DEF ResetInv, PathInv, ShiftInv, FinishInv, FrameInv, Pcs, Within, TapStates
  <2>5. CASE i = 6
    <3>1. tap = "TEST_LOGIC_RESET" /\ state = "TEST_LOGIC_RESET"
      BY <2>1, <2>5 DEF ResetInv, Within
    <3>2. tap' = "RUN_TEST_IDLE" /\ state' = "RUN_TEST_IDLE"
      BY <3>1, <2>1, <2>5, ClockMoves DEF NextTap, OnLow
    <3>3. pc' = "idle" /\ i' = 0
      BY <1>2, <2>5 DEF test_reset
    <3> QED
      BY <3>2, <3>3, <2>1
      DEF ResetInv, PathInv, ShiftInv, FinishInv, FrameInv, Pcs, TapStates
  <2> QED
    BY <2>2, <2>3, <2>4, <2>5
<1>3. CASE WriteToIR \/ ReadWriteData
  <2>1. PICK s : /\ Start(s)
                 /\ \/ \E instr \in Instructions : s = WrIR(instr)
                    \/ \E data \in Word : s = rwDR(data)
    BY <1>3 DEF WriteToIR, ReadWriteData
  <2>2. /\ pc = "idle" /\ pc' = "goto" /\ i' = 0 /\ scan' = s
        /\ tap' = tap /\ state' = state /\ setup' = setup
    BY <2>1 DEF Start, chainVars
  <2>3. FrameInv'
    BY <2>1, <2>2, Frames DEF FrameInv
  <2> QED
    BY <2>2, <2>3 DEF ResetInv, PathInv, ShiftInv, FinishInv, Pcs
<1>4. CASE GoToShift
  <2>1. /\ pc = "goto" /\ tog_tck(scan.path[i + 1], 0)
        /\ setup' = setup /\ scan' = scan
    BY <1>4 DEF GoToShift
  <2>2. /\ tap' = NextTap(tap, scan.path[i + 1])
        /\ state' = tap'
    BY <2>1, ClockMoves
  <2>3. /\ i + 1 < Len(scan.path) => pc' = pc /\ i' = i + 1
        /\ ~(i + 1 < Len(scan.path)) => pc' = "shift" /\ i' = 0
    BY <1>4, <2>1 DEF GoToShift, FrameInv, Total
  <2>4. Total(scan) \in Nat /\ Total(scan) > 0
    BY <2>1 DEF FrameInv, Total
  <2>5. FrameInv'
    BY <2>1, <2>3 DEF FrameInv
  <2>6. CASE scan.register = "IR"
    <3>1. i \in 0..3 /\ scan.path = goToShiftIR
      BY <2>1, <2>6 DEF PathInv, FrameInv
    <3>2. CASE i = 0
      BY <3>1, <3>2, <2>1, <2>2, <2>3, <2>5, <2>6, PathFacts
      DEF ResetInv, PathInv, ShiftInv, FinishInv, Pcs, NextTap, OnHigh, TapStates
    <3>3. CASE i = 1
      BY <3>1, <3>3, <2>1, <2>2, <2>3, <2>5, <2>6, PathFacts
      DEF ResetInv, PathInv, ShiftInv, FinishInv, Pcs, NextTap, OnHigh, TapStates
    <3>4. CASE i = 2
      BY <3>1, <3>4, <2>1, <2>2, <2>3, <2>5, <2>6, PathFacts
      DEF ResetInv, PathInv, ShiftInv, FinishInv, Pcs, NextTap, OnLow, TapStates
    <3>5. CASE i = 3
      BY <3>1, <3>5, <2>1, <2>2, <2>3, <2>4, <2>5, <2>6, PathFacts
      DEF ResetInv, PathInv, ShiftInv, FinishInv, Pcs, NextTap, OnLow, TapStates
    <3> QED
      BY <3>1, <3>2, <3>3, <3>4, <3>5
  <2>7. CASE scan.register # "IR"
    <3>1. i \in 0..2 /\ scan.path = goToShiftDR
      BY <2>1, <2>7 DEF PathInv, FrameInv
    <3>2. CASE i = 0
      BY <3>1, <3>2, <2>1, <2>2, <2>3, <2>5, <2>7, PathFacts
      DEF ResetInv, PathInv, ShiftInv, FinishInv, Pcs, NextTap, OnHigh, TapStates
    <3>3. CASE i = 1
      BY <3>1, <3>3, <2>1, <2>2, <2>3, <2>5, <2>7, PathFacts
      DEF ResetInv, PathInv, ShiftInv, FinishInv, Pcs, NextTap, OnLow, TapStates
    <3>4. CASE i = 2
      BY <3>1, <3>4, <2>1, <2>2, <2>3, <2>4, <2>5, <2>7, PathFacts
      DEF ResetInv, PathInv, ShiftInv, FinishInv, Pcs, NextTap, OnLow, TapStates
    <3> QED
      BY <3>1, <3>2, <3>3, <3>4
  <2> QED
    BY <2>6, <2>7
<1>5. CASE Shift
  <2>1. /\ pc = "shift" /\ setup' = setup /\ scan' = scan
        /\ tog_tck(IF LastBit(scan, i) THEN 1 ELSE 0, TdiBit(scan, i))
        /\ i + 1 < Total(scan) => pc' = pc /\ i' = i + 1
        /\ ~(i + 1 < Total(scan)) => pc' = "finish" /\ i' = 0
    BY <1>5 DEF Shift
  <2>2. /\ i < Total(scan) /\ Total(scan) \in Nat
        /\ LastBit(scan, i) <=> i + 1 = Total(scan)
    <3>1. i < Total(scan)
      BY <2>1 DEF ShiftInv
    <3>2. /\ scan.head \in Nat /\ scan.tail \in Nat /\ Len(scan.bits) \in Nat
          /\ Len(scan.bits) + scan.tail > 0
      BY <2>1 DEF FrameInv
    <3>3. Total(scan) \in Nat
      BY <3>2 DEF Total
    <3> QED
      BY <3>1, <3>2, <3>3, LastBitIsLast
  <2>3. tap' = NextTap(tap, IF LastBit(scan, i) THEN 1 ELSE 0) /\ state' = tap'
    BY <2>1, ClockMoves
  <2>4. tap = IF scan.register = "IR" THEN "SHIFT_IR" ELSE "SHIFT_DR"
    BY <2>1 DEF ShiftInv
  <2>5. FrameInv'
    BY <2>1, <2>2 DEF FrameInv
  <2>6. CASE i + 1 < Total(scan)
    <3>1. tap' = tap
      BY <2>2, <2>3, <2>4, <2>6 DEF NextTap, OnLow
    <3>2. Total(scan)' = Total(scan)
      BY <2>1 DEF Total
    <3> QED
      BY <3>1, <3>2, <2>1, <2>3, <2>4, <2>5, <2>6
      DEF ResetInv, PathInv, ShiftInv, FinishInv, Pcs
  <2>7. CASE ~(i + 1 < Total(scan))
    <3>1. tap' = IF scan.register = "IR" THEN "EXIT1_IR" ELSE "EXIT1_DR"
      BY <2>2, <2>3, <2>4, <2>7 DEF NextTap, OnHigh
    <3> QED
      BY <3>1, <2>1, <2>3, <2>5, <2>7
      DEF ResetInv, PathInv, ShiftInv, FinishInv, Pcs, TapStates
  <2> QED
    BY <2>6, <2>7
<1>6. CASE Finish
  <2>1. /\ pc = "finish" /\ setup' = setup
        /\ tog_tck(IF i = 0 THEN 1 ELSE 0, 0)
    BY <1>6 DEF Finish
  <2>2. tap' = NextTap(tap, IF i = 0 THEN 1 ELSE 0) /\ state' = tap'
    BY <2>1, ClockMoves
  <2>3. i \in 0..1
    BY <2>1 DEF FinishInv
  <2>4. CASE i = 0
    <3>1. pc' = pc /\ i' = 1 /\ scan' = scan
      BY <1>6, <2>4 DEF Finish
    <3>2. tap' = IF scan.register = "IR" THEN "UPDATE_IR" ELSE "UPDATE_DR"
      BY <2>1, <2>2, <2>4 DEF FinishInv, NextTap, OnHigh
    <3> QED
      BY <3>1, <3>2, <2>1, <2>2
      DEF ResetInv, PathInv, ShiftInv, FinishInv, FrameInv, Pcs, TapStates
  <2>5. CASE i = 1
    <3>1. pc' = "idle" /\ i' = 0
      BY <1>6, <2>5 DEF Finish
    <3>2. tap' = "RUN_TEST_IDLE"
      BY <2>1, <2>2, <2>5 DEF FinishInv, NextTap, OnLow
    <3> QED
      BY <3>1, <3>2, <2>1, <2>2
      DEF ResetInv, PathInv, ShiftInv, FinishInv, FrameInv, Pcs, TapStates
  <2> QED
    BY <2>3, <2>4, <2>5
<1>7. CASE UNCHANGED vars
  BY <1>7 DEF vars, chainVars, driverVars, ResetInv, PathInv, ShiftInv, FinishInv,
              FrameInv, Total
<1> QED
  BY <1>1, <1>2, <1>3, <1>4, <1>5, <1>6, <1>7 DEF Next

LEMMA Control == Spec => []ControlInv
BY ControlInit, ControlStep, PTL DEF Spec

(* Between two calls the chain rests in Run-Test/Idle, for every chain, setup *)
(* and register width, from whatever state power-up left it in.               *)
THEOREM RestsInIdle == Spec => []IdleIsRunTestIdle
<1>1. ControlInv => IdleIsRunTestIdle
  BY DEF ControlInv, IdleIsRunTestIdle
<1> QED
  BY <1>1, Control, PTL

(* Bits are only sent in the shift state of the register the scan is for, and *)
(* the last one leaves it.                                                    *)
THEOREM ShiftsInShiftState == Spec => []ShiftingInShiftState
<1>1. ControlInv => ShiftingInShiftState
  BY DEF ControlInv, ShiftingInShiftState, ShiftInv, FinishInv
<1> QED
  BY <1>1, Control, PTL
==============================================================================
