------------------------------ MODULE FlashChip ------------------------------
(* A flash chip as wrt54g.c drives it: external, modelled from the command    *)
(* cycles of sflash_erase_block, sflash_write_word, sflash_reset,             *)
(* unlock_bypass and the spiflash_ routines and from what sflash_poll and the *)
(* latter expect to read.  Two families of parallel chips, AMD (CMD_TYPE_AMD  *)
(* and, with another erase code, CMD_TYPE_SST) and Intel (CMD_TYPE_BSC,       *)
(* CMD_TYPE_SCS), and the serial chips (CMD_TYPE_SPI) behind the controller   *)
(* of the Atheros or that of the Broadcom processors.                         *)
(*                                                                            *)
(* A halfword is the set of its bits that are 1, of which two are kept: bit 7,*)
(* which the program polls, and bit 0.  Programming clears bits, erasing a    *)
(* block sets them all.                                                       *)
EXTENDS Integers, FiniteSets, Sequences

CONSTANTS Sizes     \* the chip's blocks in order: words in each
ASSUME SizesAssumption == Sizes \in Seq(Nat \ {0}) /\ Sizes # <<>>

VARIABLES cell,     \* the halfwords: cell 2w is the lower half of word w
          mode,     \* state of the chip's command decoder
          busy,     \* the embedded operation that runs, or Ready
          locked,   \* blocks an Intel chip refuses to change
          spi       \* a serial chip's write enable latch, and its controller

chipVars == <<cell, mode, busy, locked, spi>>

Half == SUBSET {0, 7}
Erased == {0, 7}
Blocks == DOMAIN Sizes

(* define_block: the first word of block b; the blocks follow each other.     *)
Base[b \in 1..Len(Sizes) + 1] == IF b = 1 THEN 0 ELSE Base[b - 1] + Sizes[b - 1]
Words == 0..Base[Len(Sizes) + 1] - 1
Cells == 0..2 * Base[Len(Sizes) + 1] - 1
BlockOf(c) == CHOOSE b \in Blocks : 2 * Base[b] <= c /\ c < 2 * Base[b + 1]

(* What a bus cycle carries: a command code, or data.  A cycle goes to a cell *)
(* or to one of the two unlock addresses, halfwords 0x555 and 0x2AA (SST:     *)
(* 0x5555, 0x2AAA), which a small instance does not reach as cells.           *)
Cmd(code) == [cmd |-> code, half |-> {}]
Data(h) == [cmd |-> "data", half |-> h]
Unlock1 == 1365
Unlock2 == 682

Ready == [op |-> "none"]
Program(c, halves) == [op |-> "program", at |-> c, halves |-> halves]
Programmed == busy.at..busy.at + Len(busy.halves) - 1
Erase(c) == [op |-> "erase", at |-> c]

(* The decoder of an AMD chip; eraseCode is its block erase command.          *)
AmdNext(a, v, eraseCode) ==
  CASE mode = "read" /\ a = Unlock1 /\ v.cmd = "AA" -> "unlock1"
    [] mode = "unlock1" /\ a = Unlock2 /\ v.cmd = "55" -> "unlock2"
    [] mode = "unlock2" /\ a = Unlock1 /\ v.cmd = "A0" -> "program"
    [] mode = "unlock2" /\ a = Unlock1 /\ v.cmd = "80" -> "erase"
    [] mode = "unlock2" /\ a = Unlock1 /\ v.cmd = "20" -> "bypass"
    [] mode = "erase" /\ a = Unlock1 /\ v.cmd = "AA" -> "erase1"
    [] mode = "erase1" /\ a = Unlock2 /\ v.cmd = "55" -> "erase2"
    [] mode = "bypass" -> IF v.cmd = "A0" THEN "bypassProgram" ELSE "bypass"
    [] mode = "bypassProgram" -> "bypass"
    [] OTHER -> "read"
AmdStarts(a, v, eraseCode) ==
  CASE mode \in {"program", "bypassProgram"} /\ a \in Cells -> Program(a, <<v.half>>)
    [] mode = "erase2" /\ v.cmd = eraseCode /\ a \in Cells -> Erase(a)
    [] OTHER -> Ready

IntelNext(a, v) ==
  IF mode \in {"program", "confirmErase", "confirmUnlock"} THEN "status"
  ELSE CASE v.cmd = "40" -> "program"
         [] v.cmd = "20" -> "confirmErase"
         [] v.cmd = "60" -> "confirmUnlock"
         [] v.cmd = "70" -> "status"
         [] v.cmd = "FF" -> "read"
         [] OTHER -> mode
IntelStarts(a, v) ==
  CASE mode = "program" -> Program(a, <<v.half>>)
    [] mode = "confirmErase" /\ v.cmd = "D0" -> Erase(a)
    [] OTHER -> Ready

(* The registers of the serial controllers: the address, the data that goes   *)
(* with it or comes back, and the control register, which starts the transfer *)
(* and shows that it is under way.  The command stands beside the address on  *)
(* an Atheros, in the control register on a Broadcom, there with the number   *)
(* of bytes that follow it, of which each command wants its own; a number is  *)
(* the set of its bits.  They lie outside the chip's window, at addresses     *)
(* that are no cell's.                                                        *)
Ctl == -1
Opcode == -2
DataReg == -3
Serial(code, c) == [cmd |-> code, at |-> c]
Stop == [cmd |-> "none", bytes |-> {}]
Bytes == [none |-> {}, start |-> {}, write_enable |-> {}, read_status |-> {0}, erase |-> {1}, program |-> {2}]
SpiIdle == [opcode |-> Serial("none", 0), ctl |-> Stop, data |-> <<{}, {}>>, sending |-> FALSE,
            latch |-> FALSE]
SpiWrite(a, v) ==
  spi' = CASE spi.sending -> spi
           [] ~spi.sending /\ a = Opcode -> [spi EXCEPT !.opcode = v]
           [] ~spi.sending /\ a = DataReg -> [spi EXCEPT !.data = v]
           [] ~spi.sending /\ a = Ctl -> [spi EXCEPT !.ctl = v, !.sending = v.cmd # "none"]
           [] OTHER -> spi
Sent == IF spi.ctl.cmd = "start" THEN spi.opcode.cmd
        ELSE IF spi.ctl.bytes = Bytes[spi.ctl.cmd] THEN spi.ctl.cmd ELSE "none"

(* The transfer: what the chip makes of the command.  A busy chip only tells  *)
(* its status, whose bit 0 says so (SPI_STATUS_WIP); it erases and programs   *)
(* only after a write enable.                                                 *)
Transfer ==
  /\ spi.sending
  /\ LET obeys == busy = Ready /\ spi.latch
     IN  /\ spi' = [spi EXCEPT !.sending = FALSE,
                              !.latch = @ \/ (Sent = "write_enable" /\ busy = Ready),
                              !.data = IF Sent = "read_status" THEN <<IF busy = Ready THEN {} ELSE {0}, {}>>
                                       ELSE @]
         /\ busy' = CASE Sent = "erase" /\ obeys -> Erase(spi.opcode.at)
                      [] Sent = "program" /\ obeys -> Program(spi.opcode.at, spi.data)
                      [] OTHER -> busy
  /\ UNCHANGED <<cell, mode, locked>>

(* One write cycle.  A busy chip does not listen, a serial one not at all.    *)
BusWrite(family, a, v) ==
  IF family = "SPI" THEN SpiWrite(a, v) /\ UNCHANGED <<cell, mode, busy, locked>>
  ELSE IF busy # Ready THEN UNCHANGED chipVars
  ELSE /\ UNCHANGED <<cell, spi>>
       /\ IF family = "Intel"
          THEN /\ mode' = IntelNext(a, v) /\ busy' = IntelStarts(a, v)
               /\ locked' = IF mode = "confirmUnlock" /\ v.cmd = "D0"
                            THEN locked \ {BlockOf(a)} ELSE locked
          ELSE LET code == IF family = "SST" THEN "50" ELSE "30"
               IN  /\ mode' = AmdNext(a, v, code) /\ busy' = AmdStarts(a, v, code)
                   /\ UNCHANGED locked

(* What a read cycle returns: status while an operation runs and, on an Intel *)
(* chip, until it is put back into array mode.  Bit 7 of an AMD chip's status *)
(* is the complement of what is programmed, and 0 during an erase.            *)
BusRead(family, a) ==
  CASE family = "SPI" /\ a = Ctl -> IF spi.sending THEN {7} ELSE {}
    [] family = "SPI" /\ a = DataReg -> spi.data[1]
    [] family = "SPI" /\ a \in Cells -> cell[a]
    [] family = "Intel" -> IF busy # Ready THEN {} ELSE IF mode = "read" THEN cell[a] ELSE {7}
    [] OTHER -> CASE busy = Ready -> cell[a]
                  [] busy.op = "program" -> IF 7 \in busy.halves[1] THEN {} ELSE {7}
                  [] busy.op = "erase" -> {}

(* The operation comes to its end; a locked block stays as it is.             *)
Outcome ==
  IF BlockOf(busy.at) \in locked THEN cell
  ELSE [c \in Cells |->
          IF busy.op = "program"
          THEN IF c \in Programmed THEN cell[c] \intersect busy.halves[1 + c - busy.at] ELSE cell[c]
          ELSE IF BlockOf(c) = BlockOf(busy.at) THEN Erased ELSE cell[c]]
Complete ==
  /\ busy # Ready
  /\ cell' = Outcome
  /\ busy' = Ready
  /\ spi' = [spi EXCEPT !.latch = FALSE]
  /\ UNCHANGED <<mode, locked>>
==============================================================================
