------------------------------- MODULE FlashOps ------------------------------
(* The operations of wrt54g.c: run_flash, run_erase and run_backup on the     *)
(* flash chip with everything below them, sflash_erase_area,                  *)
(* sflash_erase_block, sflash_write_word, sflash_poll, sflash_reset,          *)
(* unlock_bypass and the spiflash_ routines; and what only the older          *)
(* tjtag.1.c reaches of them, as only it learns which processor there is: the *)
(* serial controller of a Broadcom and the order of an Atheros.               *)
(*                                                                            *)
(* A bus cycle is one ejtag_write_h or ejtag_read_h, or ejtag_write or        *)
(* ejtag_read for a serial chip, atomic here (PrAcc and EjtagDma show when it *)
(* is); with /check and without DMA a write cycle is read back and repeated.  *)
EXTENDS FlashChip, Sequences, SequencesExt

CONSTANTS Jobs,        \* what the program may be asked to do
          Retries,     \* repetitions of a checked cycle that reads back wrong
          Contents     \* what the chip may hold at the start

(* family: of the chip (cmd_type); op: run_flash, run_erase, run_backup or    *)
(* run_load, which fills memory and only resets the chip; start, length:      *)
(* AREA_START and AREA_LENGTH, in words of the chip's window; image: the      *)
(* file, of whose last word cut leaves only half; proc: what proc_id and      *)
(* bcmproc say; board: how a word is read from the chip (see BusWord); the    *)
(* rest are the options of the same name and USE_DMA.  "You have to use       *)
(* /nodma" with the Speedtouch, says sflash_write_word, an Atheros has no     *)
(* engine, and the engine's lanes do not cross (ejtag_dma_read_h); what knows *)
(* the processor, tjtag.1.c, has no /check.                                   *)
ASSUME JobsAssumption ==
  /\ Retries \in Nat \ {0} /\ Contents \subseteq [Cells -> Half]
  /\ \A j \in Jobs :
       /\ j.family \in {"AMD", "SST", "Intel", "SPI"}
       /\ j.op \in {"flash", "erase", "backup", "load"}
       /\ j.proc \in {"", "atheros", "bcm"}
       /\ j.start \in Words /\ j.length \in Nat \ {0} /\ j.start + j.length - 1 \in Words
       /\ j.image \in Seq(Half \X Half)
       /\ {j.issue_erase, j.cl_bypass, j.check, j.dma, j.speedtouch, j.swap_endian, j.cut} \subseteq BOOLEAN
       /\ j.board \in {"plain", "crossed", "turned"}
       /\ j.check => j.proc = ""
       /\ j.dma => ~j.speedtouch /\ j.proc # "atheros" /\ j.board # "crossed"

VARIABLES job,
          pc,      \* "erase", "bypass", "load", "save", "ram", "reset" or "done"
          at,      \* cur_block while erasing, addr while loading or saving
          saved,   \* the file run_backup writes, or the memory run_load does
          todo,    \* the bus cycles of the running sflash_ routine still to do
          again    \* retries2 of the cycle in progress

hostVars == <<job, pc, at, saved, todo, again>>
vars == <<chipVars, hostVars>>

-----------------------------------------------------------------------------
(* The bus cycles of the routines. *)
W(a, v) == [op |-> "write", to |-> a, value |-> v]
(* sflash_poll: an AMD chip shows bit 7 of the data at the address when it is *)
(* done, an Intel chip the ready bit of its status at the window's start.     *)
Poll_data(a, h) == [op |-> "poll", to |-> IF job.family = "Intel" THEN 0 ELSE a,
                    bit |-> 7 \in h]
Poll(a, h) == [op |-> "poll", to |-> IF job.family = "Intel" THEN 0 ELSE a,
               bit |-> job.family = "Intel" \/ 7 \in h]

Unlock == <<W(Unlock1, Cmd("AA")), W(Unlock2, Cmd("55"))>>

sflash_reset_status ==
  IF job.family = "Intel" THEN <<W(0, Cmd("50"))>> ELSE <<W(0, Cmd("F0"))>>
sflash_reset ==
  IF job.family = "SPI" THEN <<>>
  ELSE IF job.family = "Intel" THEN <<W(0, Cmd("50")), W(0, Cmd("FF"))>> ELSE <<W(0, Cmd("F0"))>>

(* The routines for serial chips: every command waits for the controller      *)
(* first and last; a write or an erase, which needs a write enable of its     *)
(* own, is over when the status says so.                                      *)
SpiWait == [op |-> "poll", to |-> Ctl, bit |-> FALSE]
Start == W(Ctl, [cmd |-> "start", bytes |-> {}])
Finish == <<[op |-> "status", to |-> DataReg]>>
spiflash_sendcmd(code) == <<SpiWait, W(Opcode, Serial(code, 0)), Start, SpiWait>>
spiflash_erase_block(b) ==
  spiflash_sendcmd("write_enable") \o
  <<SpiWait, W(Opcode, Serial("erase", 2 * Base[b])), Start, SpiWait>> \o
  spiflash_sendcmd("read_status") \o Finish
spiflash_write_word(w, word) ==
  spiflash_sendcmd("write_enable") \o
  <<SpiWait, W(DataReg, word), W(Opcode, Serial("program", 2 * w)), Start, SpiWait>> \o
  spiflash_sendcmd("read_status") \o Finish

(* The same with bcmproc, which only tjtag.1.c reaches.  The command goes     *)
(* where it is started and what the register held beyond its low byte stays   *)
(* there, which is why it is cleared first.  The command also goes to the     *)
(* address register, and with an erase into the low bits of the address,      *)
(* inside the block.                                                          *)
bcm_clear == <<W(Ctl, Stop)>>
bcm_start(code) == [op |-> "start", to |-> Ctl, code |-> code]
bcm_sendcmd(code) == bcm_clear \o <<SpiWait, W(Opcode, Serial(code, 0)), bcm_start(code), SpiWait>>
bcm_erase_block(b) ==
  bcm_clear \o bcm_sendcmd("write_enable") \o
  <<SpiWait, W(Opcode, Serial("erase", 2 * Base[b])), bcm_start("erase")>> \o bcm_clear \o
  <<SpiWait>> \o bcm_sendcmd("read_status") \o Finish
bcm_write_word(w, word) ==
  bcm_clear \o bcm_sendcmd("write_enable") \o
  <<SpiWait, W(DataReg, word), W(Opcode, Serial("program", 2 * w)), bcm_start("program"), SpiWait>> \o
  bcm_sendcmd("read_status") \o Finish
ReadStatus == IF job.proc = "bcm" THEN bcm_sendcmd("read_status") ELSE spiflash_sendcmd("read_status")

UnlockAndErase(c, code) ==
  Unlock \o <<W(Unlock1, Cmd("80"))>> \o Unlock \o <<W(c, Cmd(code)), Poll(c, Erased)>>
sflash_erase_block(b) ==
  LET c == 2 * Base[b] IN
  CASE job.family = "SPI" -> IF job.proc = "bcm" THEN bcm_erase_block(b) ELSE spiflash_erase_block(b)
    [] job.family = "AMD" -> UnlockAndErase(c, "30") \o sflash_reset
    [] job.family = "SST" -> UnlockAndErase(c, "50") \o sflash_reset
    [] job.family = "Intel" ->
         <<W(c, Cmd("50")), W(c, Cmd("60")), W(c, Cmd("D0")), W(c, Cmd("70")),
           Poll(c, Erased),
           W(c, Cmd("50")), W(c, Cmd("20")), W(c, Cmd("D0")), W(c, Cmd("70")),
           Poll(c, Erased)>> \o sflash_reset

(* With DMA the whole word is on the bus for either half and the address      *)
(* picks the lane; without, the program picks the half.                       *)
Lane(word, c) == word[1 + (c % 2)]
DataOf(word, half, c) == Data(IF job.dma THEN Lane(word, c) ELSE word[half])

(* For the Speedtouch (/st5) and on an Atheros each half goes where the other *)
(* one is polled; in bypass mode, where nothing is polled, only on an Atheros.*)
Crossed == job.family = "AMD" /\ (job.proc = "atheros" \/ (job.speedtouch /\ ~job.cl_bypass))
CellOf_straight(w, half) == 2 * w + half - 1
CellOf(w, half) == 2 * w + (IF Crossed THEN 2 - half ELSE half - 1)
WriteHalf(w, word, half) ==
  LET polled == 2 * w + half - 1
      c == CellOf(w, half)
      v == DataOf(word, half, c)
  IN  IF job.family = "Intel"
      THEN <<W(c, Cmd("50")), W(c, Cmd("40")), W(c, v), Poll(c, word[half])>>
      ELSE IF job.family = "AMD" /\ job.cl_bypass
      THEN <<W(Unlock1, Cmd("A0")), W(c, v)>>
      ELSE Unlock \o <<W(Unlock1, Cmd("A0")), W(c, v), Poll(polled, word[half])>>
sflash_write_word(w, word) ==
  IF job.family = "SPI"
  THEN IF job.proc = "bcm" THEN bcm_write_word(w, word) ELSE spiflash_write_word(w, word)
  ELSE WriteHalf(w, word, 1) \o WriteHalf(w, word, 2)

unlock_bypass == <<W(Unlock1, Cmd("90"))>> \o Unlock \o <<W(Unlock1, Cmd("20"))>>

-----------------------------------------------------------------------------
Init == /\ job \in Jobs
        /\ cell \in Contents
        /\ mode = "read" /\ busy = Ready
        /\ locked = IF job.family = "Intel" THEN Blocks ELSE {}
        /\ spi = SpiIdle
        /\ pc = IF job.op = "backup" THEN "save" ELSE IF job.op = "load" THEN "ram"
                ELSE IF job.op = "erase" \/ job.issue_erase THEN "erase" ELSE "bypass"
        /\ at = IF job.op = "backup" THEN job.start ELSE 1
        /\ saved = <<>>
        /\ todo = <<>> /\ again = Retries

InArea_past(w) == job.start <= w /\ w <= job.start + job.length
InArea(w) == job.start <= w /\ w < job.start + job.length

(* A block is erased when its first word lies in the area. *)
ToErase_after(b) == InArea(Base[b]) /\ Base[b] # job.start
ToErase_up(b) == job.start <= Base[b]
ToErase(b) == InArea(Base[b])

sflash_erase_area ==
  /\ pc = "erase" /\ todo = <<>>
  /\ IF at \in Blocks
     THEN /\ todo' = IF ToErase(at) THEN sflash_erase_block(at) ELSE <<>>
          /\ at' = at + 1 /\ pc' = pc
     ELSE /\ pc' = IF job.op = "erase" THEN "reset" ELSE "bypass"
          /\ UNCHANGED <<at, todo>>
  /\ UNCHANGED <<chipVars, job, saved, again>>

EnterBypass ==
  /\ pc = "bypass" /\ todo = <<>>
  /\ todo' = IF job.cl_bypass THEN unlock_bypass ELSE <<>>
  /\ pc' = "load" /\ at' = job.start
  /\ UNCHANGED <<chipVars, job, saved, again>>

FFWord == <<Erased, Erased>>
(* The words fread may leave in data: what lies behind the end of the file is *)
(* preset to FF, but in the first word it was never set.                      *)
FileWord(n) ==
  LET unread == IF n = 1 THEN Half ELSE {Erased}
      whole == Len(job.image) - (IF job.cut THEN 1 ELSE 0)
  IN  CASE n <= whole -> {job.image[n]}
        [] whole < n /\ n <= Len(job.image) -> {job.image[n][1]} \X unread
        [] OTHER -> unread \X unread
AreaWord(w) == FileWord(w - job.start + 1)

(* One turn of the loop of run_flash; erased words are left out.              *)
LoadWord ==
  /\ pc = "load" /\ todo = <<>>
  /\ IF InArea(at)
     THEN /\ \E word \in AreaWord(at) :
               todo' = IF job.issue_erase /\ word = FFWord THEN <<>>
                       ELSE sflash_write_word(at, word)
          /\ at' = at + 1 /\ pc' = pc
     ELSE pc' = "reset" /\ UNCHANGED <<at, todo>>
  /\ UNCHANGED <<chipVars, job, saved, again>>

Reset ==
  /\ pc = "reset" /\ todo = <<>>
  /\ todo' = sflash_reset
  /\ pc' = "done"
  /\ UNCHANGED <<chipVars, job, at, saved, again>>

(* What ejtag_read makes of two halfwords is the board's: the lower half of   *)
(* the word first, as the usual boards have it; last, as the Speedtouch and   *)
(* the Atheros must have it for whom sflash_write_word writes it there; or    *)
(* all bytes turned, as /swap_endian expects of "most Atheros based routers". *)
Turn(h) == {IF b < 8 THEN b + 8 ELSE b - 8 : b \in h}
byteSwap_32(word) == <<Turn(word[2]), Turn(word[1])>>
BusWord(w) ==
  LET first == BusRead(job.family, 2 * w)
      second == BusRead(job.family, 2 * w + 1)
  IN  CASE job.board = "plain" -> <<first, second>>
        [] job.board = "crossed" -> <<second, first>>
        [] job.board = "turned" -> byteSwap_32(<<first, second>>)

(* The loop of run_backup: a word read at a time.                             *)
SaveWord ==
  /\ pc = "save" /\ todo = <<>>
  /\ IF InArea(at)
     THEN /\ saved' = Append(saved, IF job.swap_endian THEN byteSwap_32(BusWord(at)) ELSE BusWord(at))
          /\ at' = at + 1 /\ pc' = pc
     ELSE pc' = "done" /\ UNCHANGED <<at, saved>>
  /\ UNCHANGED <<chipVars, job, todo, again>>

(* The loop of run_load: as many words as the file begins.                    *)
LoadMemory ==
  /\ pc = "ram" /\ todo = <<>>
  /\ IF at \in DOMAIN job.image
     THEN /\ \E word \in FileWord(at) : saved' = Append(saved, word)
          /\ at' = at + 1 /\ pc' = pc
     ELSE pc' = "reset" /\ UNCHANGED <<at, saved>>
  /\ UNCHANGED <<chipVars, job, todo, again>>

Checked == job.check /\ ~job.dma

(* A write cycle.  An AMD chip in bypass mode is not polled after it has been *)
(* given a halfword: there the program relies on the port being slower than   *)
(* the chip programs.                                                         *)
WriteCycle ==
  /\ todo # <<>> /\ Head(todo).op = "write"
  /\ job.family = "AMD" /\ job.cl_bypass => busy.op # "program"
  /\ BusWrite(job.family, Head(todo).to, Head(todo).value)
  /\ todo' = IF Checked THEN <<[Head(todo) EXCEPT !.op = "check"]>> \o Tail(todo)
             ELSE Tail(todo)
  /\ UNCHANGED <<job, pc, at, saved, again>>

(* The start of a command with bcmproc: the register's higher bits are kept.  *)
StartCycle ==
  /\ todo # <<>> /\ Head(todo).op = "start"
  /\ SpiWrite(Ctl, [cmd |-> Head(todo).code, bytes |-> spi.ctl.bytes \cup Bytes[Head(todo).code]])
  /\ todo' = Tail(todo)
  /\ UNCHANGED <<cell, mode, busy, locked, job, pc, at, saved, again>>

(* The read back of ejtag_pracc_write_h and ejtag_pracc_write.  A command     *)
(* code is written as two equal halves, which no halfword that is read back   *)
(* can equal; whether a cycle to a serial chip's controller reads back as it  *)
(* was written is the controller's affair.                                    *)
ReadsEqual(c) ==
  IF job.family = "SPI" THEN BOOLEAN
  ELSE {c.value.cmd = "data" /\ BusRead(job.family, c.to) = c.value.half}
CheckCycle ==
  /\ todo # <<>> /\ Head(todo).op = "check"
  /\ LET c == Head(todo)
     IN  \E same \in ReadsEqual(c) :
           IF same \/ again = 0
           THEN todo' = Tail(todo) /\ again' = Retries
           ELSE /\ todo' = <<[c EXCEPT !.op = "write"]>> \o Tail(todo)
                /\ again' = again - 1
  /\ UNCHANGED <<chipVars, job, pc, at, saved>>

PollCycle ==
  /\ todo # <<>> /\ Head(todo).op = "poll"
  /\ LET p == Head(todo)
     IN  todo' = IF (7 \in BusRead(job.family, p.to)) = p.bit THEN Tail(todo) ELSE todo
  /\ UNCHANGED <<chipVars, job, pc, at, saved, again>>

(* The end of a loop on the status of a serial chip.                          *)
StatusCycle ==
  /\ todo # <<>> /\ Head(todo).op = "status"
  /\ todo' = IF 0 \in BusRead(job.family, DataReg) THEN ReadStatus \o todo
             ELSE Tail(todo)
  /\ UNCHANGED <<chipVars, job, pc, at, saved, again>>

HostStep == \/ sflash_erase_area \/ EnterBypass \/ LoadWord \/ Reset \/ SaveWord \/ LoadMemory
            \/ WriteCycle \/ StartCycle \/ CheckCycle \/ PollCycle \/ StatusCycle
ChipStep == Complete /\ UNCHANGED hostVars
ControllerStep == Transfer /\ UNCHANGED hostVars
Finished == pc = "done" /\ todo = <<>> /\ UNCHANGED vars

Next == HostStep \/ ChipStep \/ ControllerStep \/ Finished

Spec == Init /\ [][Next]_vars
(* The program runs on; the chip and the controller complete what they have   *)
(* begun.                                                                     *)
FairSpec == Spec /\ WF_vars(HostStep) /\ WF_vars(ChipStep) /\ WF_vars(ControllerStep)

-----------------------------------------------------------------------------
(* Properties *)

Idle == pc = "done" /\ todo = <<>>
(* Options under which the program can be held to its promise: it erases what *)
(* it will write, from the start of a block, and repeats no cycle to the chip *)
(* itself; and the halves go where the board has them.                        *)
Aligned == \E b \in Blocks : Base[b] = job.start
HeardOnce == Checked => job.family = "SPI"
Sound == Aligned /\ job.issue_erase /\ HeardOnce
RightHalves == (job.board = "crossed") = Crossed

(* TypeOK: the chip and the program stay within their values; every cycle the *)
(* program has still to do goes to the chip's window.                         *)
TypeOK ==
  /\ cell \in [Cells -> Half] /\ locked \subseteq Blocks
  /\ busy = Ready \/ busy.at \in Cells
  /\ pc \in {"erase", "bypass", "load", "save", "ram", "reset", "done"}
  /\ LET Read == SUBSET {0, 7, 8, 15} IN saved \in Seq(Read \X Read)
  /\ at \in 0..Cardinality(Words) + 1 /\ again \in 0..Retries
  /\ \A n \in DOMAIN todo : /\ todo[n].op \in {"write", "start", "check", "poll", "status"}
                           /\ todo[n].to \in Cells \cup {Unlock1, Unlock2, Ctl, Opcode, DataReg}

(* FlashedHoldsImage: when run_flash says that the file is loaded OK, the     *)
(* area holds the file, halves in the board's order, and, behind its end, FF  *)
(* (run_flash with sflash_erase_area, sflash_write_word and sflash_poll);     *)
(* when run_backup says that the area is saved, and /swap_endian was given    *)
(* just where the board turns the bytes, the file is one that run_flash would *)
(* put there again; and when run_load says that the file is loaded, the       *)
(* memory holds it.                                                           *)
Stored(w) == IF job.board = "crossed" THEN <<cell[2 * w + 1], cell[2 * w]>>
             ELSE <<cell[2 * w], cell[2 * w + 1]>>
FlashedHoldsImage ==
  Idle => /\ job.op = "flash" /\ Sound /\ RightHalves =>
               \A w \in Words : InArea(w) => Stored(w) \in AreaWord(w)
          /\ job.op = "backup" /\ job.swap_endian = (job.board = "turned") =>
               saved = [n \in 1..job.length |-> Stored(job.start + n - 1)]
          /\ job.op = "load" => /\ Len(saved) = Len(job.image)
                                /\ \A n \in DOMAIN saved : saved[n] \in FileWord(n)

(* NeverOverprogrammed: a halfword that is being programmed is an erased one, *)
(* as flash demands: run_flash erases all it writes and writes it once.       *)
NeverOverprogrammed ==
  Sound /\ busy.op = "program" => \A c \in Programmed : cell[c] = Erased

(* OutsideUntouched: a cell that changes lies in the area or in a block that  *)
(* begins there; in a block that only ends in the area, what lies before the  *)
(* area is kept; and saving or filling memory changes none                    *)
(* (sflash_erase_area, run_flash).                                            *)
OutsideUntouched ==
  [][\A c \in Cells : cell'[c] # cell[c] =>
       /\ job.op \in {"flash", "erase"}
       /\ InArea(c \div 2) \/ InArea(Base[BlockOf(c)])]_vars

(* LeftReadable: when the program is through, the chip runs nothing and is    *)
(* back in its read mode (sflash_reset), whatever the job; in bypass mode it  *)
(* stays, as nothing calls unlock_bypass_reset.                               *)
LeftReadable ==
  Idle => /\ busy = Ready /\ ~spi.sending
          /\ mode = "read" \/ (mode = "bypass" /\ job.cl_bypass)

(* JobFinishes: neither a poll of sflash_poll nor a wait of the spiflash_     *)
(* routines, which have no limit, goes on for ever when the job erases what   *)
(* it writes, or writes nothing.  For the Speedtouch and an Atheros the file  *)
(* must have bit 7 set in every halfword: each is polled where the other is,  *)
(* or is erased.                                                              *)
PollsAgree == Crossed /\ ~job.cl_bypass => /\ job.image # <<>>
                         /\ \A n \in DOMAIN job.image : 7 \in job.image[n][1] \intersect job.image[n][2]
JobFinishes == (job.op # "flash" \/ (Sound /\ PollsAgree)) /\ HeardOnce ~> Idle

(* CheckedFlashHoldsImage: what the usage text's "/check ............. check  *)
(* every flash write" promises: the file is in the area when run_flash says   *)
(* so.                                                                        *)
CheckedFlashHoldsImage ==
  Idle /\ job.op = "flash" /\ Aligned /\ job.issue_erase /\ RightHalves /\ Checked =>
    \A w \in Words : InArea(w) => Stored(w) \in AreaWord(w)
==============================================================================
