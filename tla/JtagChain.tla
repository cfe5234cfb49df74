------------------------------ MODULE JtagChain ------------------------------
(* The hardware on the far side of the parallel port: a chain of IEEE 1149.1  *)
(* devices that share TCK and TMS.  The program holds no code for it; it is   *)
(* modelled from how wrt54g.c drives it and from the copy of the controller   *)
(* that wrt54g.c keeps for its debug output,                                  *)
(* jtag_tap_controller_state_machine.                                         *)
(*                                                                            *)
(* Device 1 is the one closest to TDO (idcodes[0] of the program).  A shift   *)
(* register is one sequence over the whole chain whose head is the next bit   *)
(* at TDO.  Each device has the instructions BYPASS (all ones), IDCODE and    *)
(* DATA, a register of Width bits that can be written and read back.          *)
EXTENDS TapController, Naturals, Sequences, SequencesExt

CONSTANTS Width,      \* bits of a data register (32 in the program)
          IdCode      \* what an IDCODE register holds

Bit == {0, 1}
Word == [1..Width -> Bit]

ASSUME ChainAssumption == Width \in Nat \ {0} /\ IdCode \in Word

VARIABLES tap,     \* state of the TAP controllers, the same in every device
          irsr,    \* the instruction shift register of the whole chain
          drsr,    \* the data shift register of the whole chain
          ir,      \* the instruction each device executes
          dr,      \* the DATA register of each device
          tdo      \* the TDO line, which changes on the falling edge of TCK

chainVars == <<tap, irsr, drsr, ir, dr, tdo>>

Instructions == {"BYPASS", "IDCODE", "DATA"}

(* The bits of an instruction in a register of len bits, least significant    *)
(* bit first; a pattern the device does not know selects BYPASS.              *)
Encode(instr, len) ==
  CASE instr = "BYPASS" -> [k \in 1..len |-> 1]
    [] instr = "IDCODE" -> [k \in 1..len |-> IF k = 1 THEN 1 ELSE 0]
    [] instr = "DATA"   -> [k \in 1..len |-> IF k = 2 THEN 1 ELSE 0]
Decode(bits) ==
  CASE bits = Encode("IDCODE", Len(bits)) -> "IDCODE"
    [] bits = Encode("DATA", Len(bits))   -> "DATA"
    [] OTHER                              -> "BYPASS"

SumOf(s) == FoldLeft(+, 0, s)
(* The part of a chain-wide shift register that lies in device d, where       *)
(* lens[k] is the number of bits of device k.                                 *)
Segment(bits, lens, d) ==
  LET before == SumOf(SubSeq(lens, 1, d - 1))
  IN  SubSeq(bits, before + 1, before + lens[d])

DrLens == [d \in DOMAIN ir |-> IF ir[d] = "BYPASS" THEN 1 ELSE Width]
CaptureDR(d) == CASE ir[d] = "BYPASS" -> <<0>>
                  [] ir[d] = "IDCODE" -> IdCode
                  [] ir[d] = "DATA"   -> dr[d]
CapturedDR == FlattenSeq([d \in DOMAIN ir |-> CaptureDR(d)])
CapturedIR(lens) == FlattenSeq([d \in DOMAIN lens |-> Encode("IDCODE", lens[d])])
ShiftIn(bits, tdi) == Append(Tail(bits), tdi)

(* TCK low, then high, with TMS and TDI held, on a chain whose instruction    *)
(* registers have the lengths lens.                                           *)
ClockChain(lens, tms, tdi) ==
  /\ tap' = NextTap(tap, tms)
  /\ tdo' = CASE tap = "SHIFT_DR" -> Head(drsr)
              [] tap = "SHIFT_IR" -> Head(irsr)
              [] OTHER            -> tdo
  /\ irsr' = CASE tap = "CAPTURE_IR" -> CapturedIR(lens)
               [] tap = "SHIFT_IR"   -> ShiftIn(irsr, tdi)
               [] OTHER              -> irsr
  /\ drsr' = CASE tap = "CAPTURE_DR" -> CapturedDR
               [] tap = "SHIFT_DR"   -> ShiftIn(drsr, tdi)
               [] OTHER              -> drsr
  /\ ir' = CASE tap = "TEST_LOGIC_RESET" -> [d \in DOMAIN ir |-> "IDCODE"]
             [] tap = "UPDATE_IR" -> [d \in DOMAIN ir |-> Decode(Segment(irsr, lens, d))]
             [] OTHER             -> ir
  /\ dr' = IF tap = "UPDATE_DR"
           THEN [d \in DOMAIN dr |->
                   IF ir[d] = "DATA" THEN Segment(drsr, DrLens, d) ELSE dr[d]]
           ELSE dr

(* At power-up the controllers may be in any state, with any instruction.     *)
InitChain(lens) ==
  /\ tap \in TapStates
  /\ tdo \in Bit
  /\ ir \in {[d \in DOMAIN lens |-> instr] : instr \in Instructions}
  /\ dr \in {[d \in DOMAIN lens |-> [k \in 1..Width |-> b]] : b \in Bit}
  /\ irsr = CapturedIR(lens)
  /\ drsr = CapturedDR
==============================================================================
