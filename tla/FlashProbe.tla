------------------------------ MODULE FlashProbe ------------------------------
(* The course of wrt54g.c from its arguments to its end: main, chip_detecty,  *)
(* check_ejtag_features, sflash_config, sflash_probe, identify_flash_part     *)
(* with its two tables, define_block, and what run_backup, run_erase and      *)
(* run_flash are given to work on (FlashOps has their bus cycles, ChainSetup  *)
(* what chip_detect does); and the same of the older tjtag.1.c beside it,     *)
(* which still knows the processor.                                           *)
EXTENDS FlashTables, Sequences, FiniteSets, FiniteSetsExt, SequencesExt

CONSTANTS Sessions,    \* command lines, each with a board that may be connected
          Rounds       \* retries of sflash_probe: 30 in the program, 0 in the older one

(* A board has one of the chips of the table, or none that is known; and only *)
(* the first version of the port has the bit that protects the memory         *)
(* ("Memory Protection bit only applies to EJTAG 2.0 based chips").           *)
ASSUME SessionsAssumption ==
  \A s \in Sessions :
    /\ s.board.chip \in
         0..Len(IF s.request.tjtag THEN flash_chip_list_tjtag ELSE flash_chip_list)
    /\ s.board.dma \in BOOLEAN /\ s.board.halts \in BOOLEAN
    /\ s.board.watchdog \in BOOLEAN /\ s.board.protects \in BOOLEAN
    /\ s.board.protects => s.board.version = 0

-----------------------------------------------------------------------------
VARIABLES request, board,
          pc,          \* the stage of main that is next
          proc_id,     \* the processor the program knows of, "" for 0
          host,        \* what the program keeps of the EJTAG port
          cpu,         \* the board's processor
          step,        \* the family sflash_probe tries, 1..4
          retries,
          found,       \* the row of flash_part, 0 when it is ""
          window,      \* FLASH_MEMORY_START
          area,        \* AREA_START and AREA_LENGTH
          blocks,      \* the block table: for every region its first address, number and size
          worked       \* what the operation has worked on
probing == <<step, retries, found, window, area, blocks, worked>>
vars == <<request, board, pc, proc_id, host, cpu, probing>>

Chips == IF request.tjtag THEN flash_chip_list_tjtag ELSE flash_chip_list
Nowhere == [start |-> 0, length |-> 0]
Nothing == [op |-> "none", area |-> Nowhere, erased |-> <<>>, reached |-> FALSE]
Custom == request.area = "CUSTOM"

(* The options of main.  A named area is what the parameter says; each of     *)
(* /window, /start and /length counts once, whichever it is, and "custom"     *)
(* itself once more (not for -probeonly); that /window counts for             *)
(* -probeonly:custom stands in a second branch in this version, which is      *)
(* never reached, and in the only one of the older version.                   *)
Selected(switch) ==
  IF switch \in ToSet(request.switches) THEN request.custom[switch] ELSE 0
custom_options == Len(request.switches) + (IF Custom /\ request.op # "probeonly" THEN 1 ELSE 0)
probe_options_tjtag == Cardinality({n \in DOMAIN request.switches : request.switches[n] = "window"})
probe_options == IF request.tjtag THEN probe_options_tjtag ELSE 0
Refused == /\ Custom
           /\ \/ request.op # "probeonly" /\ custom_options \notin {0, 4}
              \/ request.op = "probeonly" /\ probe_options # 1

Options ==
  /\ pc = "options"
  /\ pc' = IF Refused THEN "exit" ELSE IF request.tjtag THEN "detect_tjtag" ELSE "detect"
  /\ UNCHANGED <<request, board, proc_id, host, cpu, probing>>

(* chip_detect.  This version goes on only with /skipdetect, and then only on *)
(* a chain that setHeaderTrailer accepts; with /old chip_detecty tries every  *)
(* instruction length of its list and goes on with the last one when no       *)
(* processor has answered.  Neither sets proc_id.                             *)
chip_detect ==
  /\ pc = "detect"
  /\ pc' \in IF request.old THEN {"features"}
             ELSE IF request.skipdetect THEN {"features", "exit"} ELSE {"exit"}
  /\ UNCHANGED <<request, board, proc_id, host, cpu, probing>>

(* The older one looks for the processor in its list, of which main and the   *)
(* flash routines only ask for a Broadcom, the BCM6358 among them, an Atheros *)
(* or one of the ARM family, and gives up on an unknown one; with /skipdetect *)
(* it goes on without knowing.                                                *)
processor_chip_list == {"bcm", "bcm6358", "atheros", "ixp", "other"}
chip_detect_tjtag ==
  /\ pc = "detect_tjtag"
  /\ pc' = IF ~request.skipdetect /\ board.proc \notin processor_chip_list THEN "exit" ELSE "features"
  /\ proc_id' = IF request.skipdetect THEN "" ELSE board.proc
  /\ UNCHANGED <<request, board, host, cpu, probing>>

(* check_ejtag_features: the engine is used where the processor has one, with *)
(* /dma anyway, with /nodma, which is looked at last, never.  A processor     *)
(* whose instruction length does not fit says anything.                       *)
UseDma(features) == (features.dma \/ request.dma) /\ ~request.nodma
check_ejtag_features ==
  /\ pc = "features" /\ pc' = "reset"
  /\ \E features \in IF board.proc = "unknown" THEN [version : {0, 7}, dma : BOOLEAN]
                     ELSE {[version |-> board.version, dma |-> board.dma]} :
        host' = [host EXCEPT !.dma = UseDma(features), !.version = features.version]
  /\ UNCHANGED <<request, board, proc_id, cpu, probing>>

(* The processor starts again at its reset vector: it starts the watchdog, if *)
(* the board uses one, and its memory may be protected against the port.  An  *)
(* earlier session may have left it halted.                                   *)
Restarted == [mode |-> "running", watchdog |-> board.watchdog, protected |-> board.protects,
              opened |-> FALSE, depc |-> "user"]
Left == [Restarted EXCEPT !.mode = "debug", !.watchdog = FALSE]
Reset ==
  /\ pc = "reset" /\ pc' = "memory"
  /\ cpu' = IF request.noreset \/ board.proc = "unknown" THEN cpu ELSE Restarted
  /\ UNCHANGED <<request, board, proc_id, host, probing>>

(* Clearing the protection goes by the engine, whether it is there or not,    *)
(* and only on processors of the first version.                               *)
Enables_newer == host.version # 0 /\ ~request.noemw
Enables == host.version = 0 /\ ~request.noemw
EnableMemoryWrites ==
  /\ pc = "memory" /\ pc' = "halt"
  /\ cpu' = [cpu EXCEPT !.protected = @ /\ ~(Enables /\ board.dma /\ board.proc # "unknown")]
  /\ UNCHANGED <<request, board, proc_id, host, probing>>

(* issue_break: this version does all the rest, the operation included, only  *)
(* when the processor has been told to halt and says that it has; the older   *)
(* one does it whatever the answer.                                           *)
Halt ==
  /\ pc = "halt"
  /\ \E halted \in IF request.nobreak THEN {FALSE}
                   ELSE IF board.proc = "unknown" THEN BOOLEAN ELSE {board.halts} :
       /\ pc' = IF halted \/ request.tjtag THEN "watchdog" ELSE "shutdown"
       /\ cpu' = IF halted THEN [cpu EXCEPT !.mode = "debug"] ELSE cpu
  /\ UNCHANGED <<request, board, proc_id, host, probing>>

-----------------------------------------------------------------------------
(* ejtag_read, ejtag_write: by the engine or by modules that the processor    *)
(* fetches only in debug mode; the older version waits for it without a       *)
(* limit.  Protected memory keeps the engine's writes out.                    *)
Accesses == board.proc # "unknown" /\ IF host.dma THEN board.dma ELSE cpu.mode = "debug"
Answers == request.tjtag => host.dma \/ Accesses
Stores == Accesses /\ ~(host.dma /\ cpu.protected)

(* The watchdog: an address for the Atheros processors, which only the older  *)
(* version can know of, and one for all others.                               *)
ClearWatchdog ==
  /\ pc = "watchdog" /\ pc' = "serial"
  /\ request.nocwd \/ Answers
  /\ LET clears == ~request.nocwd /\ Stores /\ (proc_id = "atheros" <=> board.proc = "atheros")
     IN  cpu' = [cpu EXCEPT !.watchdog = @ /\ ~clears]
  /\ UNCHANGED <<request, board, proc_id, host, probing>>

(* isbrcm takes the registers of the Broadcom controller or those of the      *)
(* Atheros one, which is all this version knows of.                           *)
bcm_registers(proc) == proc \in {"bcm", "bcm6358"}
isbrcm ==
  /\ pc = "serial" /\ pc' = "open"
  /\ host' = [host EXCEPT !.bcmproc = bcm_registers(proc_id)]
  /\ UNCHANGED <<request, board, proc_id, cpu, probing>>

(* Where the chip's window begins.                                            *)
WindowFor_over(size) == IF size > MB(8) THEN MB(448) ELSE MB(508)
WindowFor(size) ==
  CASE Custom -> Selected("window")
    [] ~Custom /\ proc_id = "ixp" -> MB(4)
    [] ~Custom /\ proc_id = "bcm6358" -> MB(496)
    [] OTHER -> IF size >= MB(8) THEN MB(448) ELSE MB(508)

(* An Atheros processor is told the width of its flash, and asked which it is *)
(* for a message.  The probe then takes the window of a chip of size 0, as    *)
(* flash_size is before it.                                                   *)
OpenFlash ==
  /\ pc = "open"
  /\ proc_id = "atheros" => Answers
  /\ cpu' = [cpu EXCEPT !.opened = @ \/ (proc_id = "atheros" /\ Stores)]
  /\ pc' = IF request.fc # 0 THEN "config" ELSE "probe"
  /\ window' = IF request.fc # 0 THEN window ELSE WindowFor(0)
  /\ UNCHANGED <<request, board, proc_id, host, step, retries, found, area, blocks, worked>>

(* While the processor is halted nobody serves its watchdog, which resets the *)
(* board some time after the first few accesses: during the probe or the      *)
(* operation.                                                                 *)
Bite ==
  /\ pc \in {"config", "probe", "operate"} /\ cpu.mode = "debug" /\ cpu.watchdog
  /\ cpu' = Restarted
  /\ UNCHANGED <<request, board, pc, proc_id, host, probing>>

-----------------------------------------------------------------------------
(* What the chip says of itself (its datasheet, not this program): Spansion   *)
(* chips give one device id for all and the real one two words further on,    *)
(* and so do some of Winbond's.                                               *)
Noise == [vendid |-> "FFFF", devid |-> "FFFF", sub |-> "FFFF"]
IdsOf(c) ==
  CASE c.vendid = "017E" -> [vendid |-> "0001", devid |-> "227E", sub |-> c.devid]
    [] c.vendid = "DA7E" -> [vendid |-> "00DA", devid |-> "227E", sub |-> c.devid]
    [] OTHER -> [vendid |-> c.vendid, devid |-> c.devid, sub |-> "FFFF"]
Present == IF board.chip = 0 THEN Noise ELSE IdsOf(Chips[board.chip])

Steps == <<"AMD", "SST", "BSC", "SPI">>
(* The commands of a probe reach the chip, on an Atheros board only once its  *)
(* width is set; and the serial chip where its controller is driven.          *)
Reached == Stores /\ (board.proc = "atheros" => cpu.opened)
SerialReady == board.spi = "ready" /\ host.bcmproc = bcm_registers(board.proc)

(* The ids read after the commands of a family: the chip answers those of its *)
(* own; Intel chips take the last one of any family; and for BSC and SCS the  *)
(* ids are read as whole words, which hold more than the id.  A serial chip   *)
(* answers where its controller is the one that is driven.                    *)
Read(family) ==
  LET serial == board.chip # 0 /\ Chips[board.chip].type = "SPI"
      own == board.chip # 0 /\ Chips[board.chip].type = family
  IN  IF ~Reached THEN {Noise}
      ELSE IF family = "SPI" THEN (IF serial /\ SerialReady THEN {Present} ELSE {Noise})
      ELSE IF serial \/ board.chip = 0 THEN {Noise}
      ELSE IF own /\ family \in {"AMD", "SST"} THEN {Present}
      ELSE {Present, Noise}

(* The start of identify_flash_part: where a common id stands for many chips  *)
(* the sub id replaces it.  Of the rows with the ids the first is taken.      *)
Renamed_not(id) == <<id.vendid, id.devid>>
Renamed(id) ==
  CASE id.vendid = "0001" /\ id.devid = "227E" -> <<"017E", id.sub>>
    [] id.vendid = "00DA" /\ id.devid \in {"007E", "227E"} -> <<"DA7E", id.sub>>
    [] OTHER -> <<id.vendid, id.devid>>
RowOf(id) ==
  LET rows == {n \in DOMAIN Chips :
                 <<Chips[n].vendid, Chips[n].devid>> = Renamed(id)}
  IN  IF rows = {} THEN 0 ELSE Min(rows)

(* On an Atheros board big chips have areas of their own.                     *)
AreaName(size) ==
  LET big == [n \in {"CFE", "NVRAM", "KERNEL", "WHOLEFLASH", "BSP", "RED"} |->
                CASE n = "CFE" -> "AR-CFE"       [] n = "NVRAM" -> "AR-NVRAM"
                  [] n = "KERNEL" -> "AR-KERNEL" [] n = "BSP" -> "AR-BSP"
                  [] n = "RED" -> "AR-RED"       [] OTHER -> "AR-WHOLEFLASH"]
  IN  IF proc_id = "atheros" /\ size >= MB(8) /\ request.area \in DOMAIN big
      THEN big[request.area] ELSE request.area
AreaIn(size) ==
  LET rows == {a \in (IF request.tjtag THEN flash_area_list_tjtag ELSE flash_area_list) : a.chip_size = size /\ a.name = AreaName(size)}
  IN  IF Custom THEN [start |-> Selected("start"), length |-> Selected("length")]
      ELSE IF rows = {} THEN Nowhere
      ELSE LET a == CHOOSE a \in rows : TRUE IN [start |-> a.start, length |-> a.length]

(* define_block for each region, one after the other.                         *)
define_block(table, region) ==
  LET last == table[Len(table)]
  IN  Append(table, [at |-> last.at + last.num * last.size, num |-> region.num, size |-> region.size])
BlockTable(first, regions) ==
  Tail(FoldLeft(define_block, << [at |-> first, num |-> 0, size |-> 0] >>, regions))

identify_flash_part(id) ==
  /\ found' = RowOf(id)
  /\ IF found' = 0 THEN UNCHANGED <<window, area, blocks>>
     ELSE /\ window' = WindowFor(Chips[found'].size)
          /\ area' = AreaIn(Chips[found'].size)
          /\ blocks' = BlockTable(window', Chips[found'].regions)

(* sflash_config: /fc names a row.  The ids come from the table then, and the *)
(* sub id of a common one from wherever address 0 leads.                      *)
TableIds(row) == [vendid |-> Chips[row].vendid, devid |-> Chips[row].devid, sub |-> "FFFF"]
sflash_config ==
  /\ pc = "config"
  /\ pc' = "operate"
  /\ IF request.fc \in DOMAIN Chips
     THEN identify_flash_part(TableIds(request.fc))
     ELSE UNCHANGED <<found, window, area, blocks>>
  /\ UNCHANGED <<request, board, proc_id, host, cpu, step, retries, worked>>

(* One family of sflash_probe; after the last it starts again, and gives up   *)
(* after the last retry.  What the serial routines wait for never comes on a  *)
(* board where other hardware holds the busy bit ("stuck").                   *)
TriesLeft_endless(r) == r
TriesLeft(r) == r - 1
sflash_probe ==
  /\ pc = "probe"
  /\ Answers
  /\ Steps[step] = "SPI" /\ Accesses => board.spi # "stuck"
  /\ \E id \in Read(Steps[step]) : identify_flash_part(id)
  /\ IF found' # 0 THEN pc' = "operate" /\ UNCHANGED <<step, retries>>
     ELSE IF step < Len(Steps) THEN step' = step + 1 /\ UNCHANGED <<pc, retries>>
     ELSE /\ retries' = TriesLeft(retries)
          /\ IF retries # 0 THEN step' = 1 /\ pc' = pc ELSE pc' = "operate" /\ step' = step
  /\ UNCHANGED <<request, board, proc_id, host, cpu, worked>>

-----------------------------------------------------------------------------
(* sflash_erase_area: the blocks that begin in the area; of a region, those   *)
(* that begin before its end and not before its start.                        *)
Before(region, x) ==
  Min({region.num, Max({0, (x - region.at + region.size - 1) \div region.size})})
Within(region, a) ==
  [region EXCEPT !.at = @ + Before(region, a.start) * region.size,
                 !.num = Before(region, a.start + a.length) - Before(region, a.start)]
ErasedBlocks(a) == SelectSeq([n \in DOMAIN blocks |-> Within(blocks[n], a)], LAMBDA r : r.num # 0)

(* The operation: only on a chip that was found and an area that has a        *)
(* length; otherwise nothing is done, and the program says it is complete.    *)
(* Loading memory and erasing a whole serial chip need neither.               *)
Operation ==
  IF found # 0 /\ area.length > 0 /\ request.op \in {"backup", "erase", "flash"}
  THEN [op |-> request.op, area |-> area, reached |-> Reached,
        erased |-> IF request.op = "backup" THEN <<>> ELSE ErasedBlocks(area)]
  ELSE IF request.op \in {"load", "chiperase"} 
       THEN [Nothing EXCEPT !.op = request.op, !.reached = Reached]
  ELSE Nothing
Operate ==
  /\ pc = "operate" /\ pc' = "finish"
  /\ worked' = Operation
  /\ worked' # Nothing => Answers
  /\ UNCHANGED <<request, board, proc_id, host, cpu, step, retries, found, window, area, blocks>>

(* Without its file run_backup, run_flash or run_load leaves the program at   *)
(* once, before it has touched the flash, with the processor halted.          *)
NoFile ==
  /\ pc = "operate" /\ Operation.op \in {"backup", "flash", "load"}
  /\ pc' = "exit"
  /\ UNCHANGED <<request, board, proc_id, host, cpu, probing>>

(* /reboot tells a halted processor to go on at the reset vector, but only an *)
(* Atheros one is then sent on, and reset.  All others are left halted.       *)
Rebooted(c) == IF request.reboot /\ c.mode = "debug" THEN [c EXCEPT !.depc = "boot"] ELSE c
Finish ==
  /\ pc = "finish" /\ pc' = "shutdown"
  /\ request.tjtag /\ (request.reboot \/ proc_id = "atheros") => cpu.mode = "debug"
  /\ cpu' = IF proc_id = "atheros" THEN Restarted ELSE Rebooted(cpu)
  /\ UNCHANGED <<request, board, proc_id, host, probing>>

(* chip_shutdown resets the TAP and closes the port.                          *)
chip_shutdown ==
  /\ pc = "shutdown" /\ pc' = "done"
  /\ UNCHANGED <<request, board, proc_id, host, cpu, probing>>

Init ==
  /\ \E s \in Sessions : request = s.request /\ board = s.board
  /\ pc = "options" /\ proc_id = "" /\ step = 1
  /\ host = [dma |-> FALSE, version |-> 0, bcmproc |-> FALSE]
  /\ cpu = IF board.halted THEN Left ELSE Restarted
  /\ retries = IF request.tjtag THEN 0 ELSE Rounds
  /\ found = 0 /\ window = 0 /\ area = Nowhere /\ blocks = <<>> /\ worked = Nothing

Step == \/ Options \/ chip_detect \/ chip_detect_tjtag \/ check_ejtag_features
        \/ Reset \/ EnableMemoryWrites \/ Halt \/ ClearWatchdog \/ isbrcm \/ OpenFlash
        \/ sflash_config \/ sflash_probe \/ Operate \/ NoFile \/ Finish \/ chip_shutdown
Next == Step \/ Bite
Spec == Init /\ [][Next]_vars
(* The program runs on.                                                       *)
FairSpec == Spec /\ WF_vars(Step)

-----------------------------------------------------------------------------
(* Properties *)

(* FoundIsPresent: the row the operation takes its commands, window, area and *)
(* blocks from says of the chip what the row of the one on the board, or of   *)
(* the one /fc names, says, also when another row with the same ids stands    *)
(* before it: neither noise nor the common ids of the Spansion and Winbond    *)
(* chips lead to a row of another chip (sflash_probe, identify_flash_part,    *)
(* sflash_config).                                                            *)
Meant == IF request.fc # 0 THEN request.fc ELSE board.chip
FoundIsPresent == found # 0 => Meant \in DOMAIN Chips /\ Chips[found] = Chips[Meant]


(* AreaFits: the chips, the areas and the windows of the three tables fit     *)
(* together: on a chip that is as large as its regions say, in blocks of at   *)
(* most 64K, of a processor without a window or areas of its own, what an     *)
(* operation on a named area of whole 64K works on begins and ends with a     *)
(* block, and all the blocks in between are erased; WHOLEFLASH is all of the  *)
(* chip (identify_flash_part, sflash_erase_area).                             *)
End(table) == table[Len(table)].at + table[Len(table)].num * table[Len(table)].size
Regular == /\ End(blocks) - blocks[1].at = Chips[found].size
           /\ \A n \in DOMAIN blocks : blocks[n].size <= KB(64)
Named == {"CFE", "CFE128", "KERNEL", "NVRAM", "WGRV8BDATA", "BSP", "WHOLEFLASH"}
AreaFits ==
  worked # Nothing /\ request.area \in Named /\ proc_id \in {"", "bcm", "other"} /\ Regular =>
    /\ worked.op # "backup" => /\ worked.erased # <<>>
                               /\ worked.erased[1].at = worked.area.start
                               /\ End(worked.erased) = worked.area.start + worked.area.length
    /\ request.area = "WHOLEFLASH" => /\ worked.area.start = blocks[1].at
                                      /\ worked.area.length = Chips[found].size

(* Undisturbed: where main can prepare the board, a chip of the AMD or SST     *)
(* commands that the table has is found, and an operation works on it with    *)
(* the processor halted, every cycle gets there, and no watchdog ends it: the *)
(* order of reset, enabling writes, halting, clearing the watchdog and        *)
(* opening the flash, and the way of access, fit together (main,              *)
(* check_ejtag_features).                                                     *)
Prepared ==
  /\ board.proc # "unknown" /\ board.halts /\ ~request.nobreak
  /\ request.dma /\ ~request.nodma => board.dma
  /\ board.proc = "atheros" => request.tjtag /\ ~request.skipdetect
  /\ board.watchdog => ~request.nocwd
  /\ board.protects => ~request.noemw
Recognisable == /\ board.chip # 0 /\ RowOf(Present) # 0
                /\ Chips[board.chip].type \in {"AMD", "SST"}
Undisturbed ==
  Prepared /\ pc = "finish" =>
    /\ cpu.mode = "debug"
    /\ Recognisable /\ request.fc = 0 => found # 0
    /\ worked # Nothing => worked.reached

(* GivesUp: on such a board, where nothing holds the serial controller's busy *)
(* bit either, the program comes to an end, with a chip or without            *)
(* (sflash_probe's retries, ExecuteDebugModule).                              *)
GivesUp == Prepared /\ board.spi # "stuck" => <>(pc \in {"done", "exit"})
==============================================================================
