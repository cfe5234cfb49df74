----------------------------- MODULE JtagDriver ------------------------------
(* The bottom layer of wrt54g.c: how test_reset, WriteToIR and ReadWriteData  *)
(* clock the chain, one rising edge of TCK per step.  The setup (how many     *)
(* header and trailer bits to send) is what setHeaderTrailer found or what    *)
(* /hir /tir /hdr /tdr /instrlen said; ChainSetup models how it comes about.  *)
EXTENDS JtagChain

CONSTANT Setups   \* the setups to consider

(* lens: the lengths of the instruction registers, device 1 next to TDO;      *)
(* sel: the selected device; the other fields are the program's globals.      *)
SetupType == [lens : Seq(Nat), sel : Nat, instruction_length : Nat,
              hir : Nat, tir : Nat, hdr : Nat, tdr : Nat]

(* With no bit to send the shift loops never raise TMS.                       *)
Drivable(s) == s.instruction_length + s.tir > 0

ASSUME SetupsAssumption == \A s \in Setups : s \in SetupType /\ Drivable(s)

VARIABLES setup,   \* the setup in force
          pc,      \* which part of which routine runs
          i,       \* its loop counter
          scan,    \* the scan in progress: register, bits to send, its frame
          recv,    \* the bits of recive_data so far
          ret,     \* the value the last ReadWriteData returned
          state    \* the debug copy of the controller's state

driverVars == <<setup, pc, i, scan, recv, ret, state>>
vars == <<chainVars, driverVars>>

Pcs == {"powerup", "idle", "reset", "goto", "shift", "finish"}

(* Drive TMS and TDI and toggle TCK from 0 to 1; the debug copy follows TMS.  *)
tog_tck(tms, tdi) ==
  /\ ClockChain(setup.lens, tms, tdi)
  /\ state' = NextTap(state, tms)

(* The levels of TMS on the way from Run-Test/Idle. *)
goToShiftIR_short == <<1, 0, 0>>
goToShiftIR == <<1, 1, 0, 0>>
goToShiftDR == <<1, 0, 0>>

(* The frame of a scan: header bits, the bits to send, trailer bits.  Header  *)
(* and trailer keep the other devices in BYPASS: ones in an instruction scan, *)
(* padding of value 0 in a data scan.                                         *)
WrIR_notrailer(instr) ==
  [register |-> "IR", path |-> goToShiftIR, pad |-> 1, head |-> setup.hir,
   bits |-> Encode(instr, setup.instruction_length), tail |-> 0]
WrIR_swapped(instr) ==
  [register |-> "IR", path |-> goToShiftIR, pad |-> 1, head |-> setup.tir,
   bits |-> Encode(instr, setup.instruction_length), tail |-> setup.hir]
WrIR(instr) == [register |-> "IR", path |-> goToShiftIR, pad |-> 1,
                head |-> setup.hir, bits |-> Encode(instr, setup.instruction_length),
                tail |-> setup.tir]
rwDR_noheader(data) == [register |-> "DR", path |-> goToShiftDR, pad |-> 0,
                        head |-> 0, bits |-> data, tail |-> setup.tdr]
rwDR(data)  == [register |-> "DR", path |-> goToShiftDR, pad |-> 0,
                head |-> setup.hdr, bits |-> data, tail |-> setup.tdr]

Total(s) == s.head + Len(s.bits) + s.tail
InBits_late(s, k) == s.head < k /\ k < s.head + Len(s.bits)
InBits(s, k) == s.head <= k /\ k < s.head + Len(s.bits)
(* TMS rises with the last trailer bit or, when there is no trailer, with the *)
(* last bit sent: never with a header bit.                                    *)
LastBit_trailer(s, k) == s.tail > 0 /\ k = Total(s) - 1
LastBit(s, k) == IF s.tail > 0 THEN k = Total(s) - 1
                 ELSE InBits(s, k) /\ k = s.head + Len(s.bits) - 1
TdiBit(s, k) == IF InBits(s, k) THEN s.bits[k - s.head + 1] ELSE s.pad

NoScan == [register |-> "none", path |-> <<>>, pad |-> 0, head |-> 0,
           bits |-> <<>>, tail |-> 0]

Init == /\ setup \in Setups
        /\ InitChain(setup.lens)
        /\ pc = "powerup"
        /\ i = 0
        /\ scan = NoScan
        /\ recv = <<>>
        /\ ret = <<>>
        /\ state = "TEST_LOGIC_RESET"

-----------------------------------------------------------------------------
(* test_reset: six clocks with TMS high, one with TMS low; the first call is  *)
(* the first thing that chip_detect and detectChainLength do.                 *)
StartReset ==
  /\ pc = "idle"
  /\ pc' = "reset"
  /\ i' = 0
  /\ UNCHANGED <<chainVars, setup, scan, recv, ret, state>>

test_reset ==
  /\ pc \in {"powerup", "reset"}
  /\ tog_tck(IF i < 6 THEN 1 ELSE 0, 0)
  /\ IF i < 6 THEN pc' = pc /\ i' = i + 1
              ELSE pc' = "idle" /\ i' = 0
  /\ UNCHANGED <<setup, scan, recv, ret>>

Start(s) ==
  /\ pc = "idle"
  /\ pc' = "goto"
  /\ i' = 0
  /\ scan' = s
  /\ recv' = <<>>
  /\ UNCHANGED <<chainVars, setup, ret, state>>

WriteToIR == \E instr \in Instructions : Start(WrIR(instr))
ReadWriteData == \E data \in Word : Start(rwDR(data))

(* goToShiftIR or goToShiftDR. *)
GoToShift ==
  /\ pc = "goto"
  /\ tog_tck(scan.path[i + 1], 0)
  /\ IF i + 1 < Len(scan.path)
     THEN pc' = pc /\ i' = i + 1
     ELSE /\ pc' = IF Total(scan) > 0 THEN "shift" ELSE "finish"
          /\ i' = 0
  /\ UNCHANGED <<setup, scan, recv, ret>>

(* One clockin of the loops of WrIR or rwDR.  TDO is read after the edge.     *)
Shift ==
  /\ pc = "shift"
  /\ tog_tck(IF LastBit(scan, i) THEN 1 ELSE 0, TdiBit(scan, i))
  /\ recv' = IF scan.register = "DR" /\ InBits(scan, i) THEN Append(recv, tdo') ELSE recv
  /\ IF i + 1 < Total(scan) THEN pc' = pc /\ i' = i + 1
                            ELSE pc' = "finish" /\ i' = 0
  /\ UNCHANGED <<setup, scan, ret>>

(* The way back through Update to Run-Test/Idle; ReadWriteData returns.       *)
Finish ==
  /\ pc = "finish"
  /\ tog_tck(IF i = 0 THEN 1 ELSE 0, 0)
  /\ IF i = 0 THEN pc' = pc /\ i' = 1
              ELSE pc' = "idle" /\ i' = 0
  /\ ret' = IF i = 1 /\ scan.register = "DR" THEN recv ELSE ret
  /\ scan' = IF i = 1 THEN NoScan ELSE scan
  /\ recv' = IF i = 1 THEN <<>> ELSE recv
  /\ UNCHANGED setup

Next == \/ StartReset \/ test_reset
        \/ WriteToIR \/ ReadWriteData
        \/ GoToShift \/ Shift \/ Finish

Spec == Init /\ [][Next]_vars

-----------------------------------------------------------------------------
(* The setup that belongs to the selected device.                             *)
RightSetup(s) ==
  /\ s.sel \in DOMAIN s.lens
  /\ s.instruction_length = s.lens[s.sel]
  /\ s.hir = SumOf(SubSeq(s.lens, 1, s.sel - 1))
  /\ s.tir = SumOf(SubSeq(s.lens, s.sel + 1, Len(s.lens)))
  /\ s.hdr = s.sel - 1
  /\ s.tdr = Len(s.lens) - s.sel

(* TypeOK: types; a data scan returns a word of all its bits.                 *)
TypeOK ==
  /\ setup \in Setups
  /\ tap \in TapStates /\ state \in TapStates
  /\ tdo \in Bit
  /\ pc \in Pcs
  /\ i \in Nat
  /\ scan.register \in {"none", "IR", "DR"}
  /\ ret \in Word \cup {<<>>}

(* IdleIsRunTestIdle: whatever state power-up left the controllers in, and    *)
(* whatever the numbers of header and trailer bits, between two calls of the  *)
(* JTAG layer the chain is in Run-Test/Idle and the debug copy says so: the   *)
(* "Final state: RTI" of the comments over test_reset, and what every scan    *)
(* starts from.                                                               *)
IdleIsRunTestIdle ==
  pc = "idle" => tap = "RUN_TEST_IDLE" /\ state = tap

(* ShiftingInShiftState: while bits are sent the controllers are in the shift *)
(* state of that register, and enter Exit1 with the last bit, neither earlier *)
(* nor later.                                                                 *)
ShiftingInShiftState ==
  /\ pc = "shift" => tap = (IF scan.register = "IR" THEN "SHIFT_IR" ELSE "SHIFT_DR")
  /\ pc = "finish" /\ i = 0
       => tap = (IF scan.register = "IR" THEN "EXIT1_IR" ELSE "EXIT1_DR")

(* OthersInBypass: when an instruction scan returns the selected device       *)
(* executes the instruction and every other device is in BYPASS: the header   *)
(* and trailer bits of WrIR went where they belong.                           *)
OthersInBypass ==
  [][(pc = "finish" /\ pc' = "idle" /\ scan.register = "IR" /\ RightSetup(setup)) =>
       \A d \in DOMAIN ir :
         ir'[d] = IF d = setup.sel THEN Decode(scan.bits) ELSE "BYPASS"]_vars

(* OnlySelectedWritten: a data scan never writes a register of a device that  *)
(* was not selected, once an instruction scan has put the others in BYPASS.   *)
OnlySelectedWritten ==
  [][(pc # "powerup" /\ RightSetup(setup)) =>
       \A d \in DOMAIN dr \ {setup.sel} : dr'[d] = dr[d]]_vars

(* AccessSpec: the scans are, step for step, the atomic register accesses     *)
(* that the EJTAG layer is written against.                                   *)
Access == INSTANCE JtagAccess
            WITH ready <- pc # "powerup", instr <- ir[setup.sel],
                 reg <- dr[setup.sel], ret <- ret
AccessSpec == Access!Spec
==============================================================================
