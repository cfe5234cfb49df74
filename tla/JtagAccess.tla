----------------------------- MODULE JtagAccess ------------------------------
(* What the JTAG layer of wrt54g.c promises the EJTAG layer above it: the     *)
(* selected device has an instruction and a DATA register, WriteToIR sets the *)
(* one and ReadWriteData exchanges the register the instruction selects, each *)
(* in a single step.  The rest of the chain cannot be seen.                   *)
EXTENDS Naturals

CONSTANTS Width, IdCode

Word == [1..Width -> {0, 1}]

VARIABLES ready,   \* the first test_reset has been done
          instr,   \* the instruction of the selected device
          reg,     \* its DATA register
          ret      \* what the last ReadWriteData returned

vars == <<ready, instr, reg, ret>>

Init == /\ ready = FALSE
        /\ instr \in {"BYPASS", "IDCODE", "DATA"}
        /\ reg \in Word
        /\ ret = <<>>

(* Before the first reset nothing is known of the device. *)
PowerUp == /\ ~ready
           /\ ready' = FALSE
           /\ instr' \in {"BYPASS", "IDCODE", "DATA"}
           /\ reg' \in Word
           /\ UNCHANGED ret

TestReset == /\ ready' = TRUE
             /\ instr' = "IDCODE"
             /\ UNCHANGED <<reg, ret>>

WriteToIR(v) == /\ ready
                /\ instr' = v
                /\ UNCHANGED <<ready, reg, ret>>

(* A device in BYPASS delays the bits sent by one clock. *)
ReadWriteData(v) ==
  /\ ready
  /\ CASE instr = "DATA"   -> ret' = reg /\ reg' = v
       [] instr = "IDCODE" -> ret' = IdCode /\ reg' = reg
       [] OTHER -> /\ ret' = [k \in 1..Width |-> IF k = 1 THEN 0 ELSE v[k - 1]]
                   /\ reg' = reg
  /\ UNCHANGED <<ready, instr>>

Next == \/ PowerUp
        \/ TestReset
        \/ \E v \in {"BYPASS", "IDCODE", "DATA"} : WriteToIR(v)
        \/ \E v \in Word : ReadWriteData(v)

Spec == Init /\ [][Next]_vars
==============================================================================
