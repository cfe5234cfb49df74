# Verification of speed-to-fritz

TLA+ models, TLC runs and TLAPS proofs about the parts of speed-to-fritz that
can destroy a router when they are wrong, and about the configuration program
that decides what goes into its firmware. Source paths are relative to the
repository; `wrt54g.c` means `trunk/wrtjp/wrtjp.5.2/wrt54g.c`, `kconfig/` means
`trunk/speed-to-fritz/tools/kk/scripts/kconfig/`.

* Parse: `tlasany M.tla`. Check a run: `tlc -config X.cfg M`. Prove: `tlapm MProofs.tla`.
* `PROJECT.json` lists the components, the runs with their properties, the code
  lines behind every definition, the hazards, findings and theorems, and for
  every checked property a mutant of the model that breaks it.

## 1. The system

speed-to-fritz turns Speedport DSL routers into Fritz!Boxes. A configuration
menu (kconfig) says what to build, a shell pipeline builds the firmware image,
an uploader flashes it through the boot loader, and a JTAG utility brings back
routers that no longer boot.

| Component | Source | State it keeps | Operations |
|---|---|---|---|
| JTAG driver | `wrt54g.c` 578-1110 | TAP state of the chain, header/trailer counts, `curinstr` | `test_reset`, `goToShiftIR/DR`, `WrIR`, `rwDR`, `WriteToIR`, `set_instr`, `ReadWriteData` |
| Chain detection | `wrt54g.c` 1596-1904 | `idcodes[10]`, `ndevs`, `device`, `hir tir hdr tdr`, `instruction_length`, `idcode_in_use` | `detectChainLength`, `chip_detect`, `autodetect`, `setHeaderTrailer`, `set_tir_hir`, `detectOne` |
| Memory access by PrAcc | `wrt54g.c` 1207-1309, 1499-1586, `wrt54g.h` 492-541 | `address_register`, `data_register`; memory and registers of the halted CPU | `ejtag_pracc_read/_write(_h)`, `ExecuteDebugModule` |
| Memory access by DMA | `wrt54g.c` 1114-1206 | the target's EJTAG registers, its DMA engine | `ejtag_dma_read/_write(_h)` |
| Flash operations | `wrt54g.c` 2000-2126, 2297-2609, 2745-2932 | block table, command decoder and cells of the flash chip, the serial controller's registers | `run_flash`, `run_erase`, `run_backup`, `run_load`, `sflash_*`, `spiflash_*`, `unlock_bypass` |
| Flash probing, `main` | `wrt54g.c` 2183-2296, 2610-2744, 3075-3360, `tjtag.1.c` | options, `proc_id`, `cmd_type`, area and window addresses, the board's processor | `sflash_probe`, `identify_flash_part`, `sflash_config`, `main` |
| Parallel port | `ports.c` | the port's output word | `setPort`, `readTDOBit` |
| XSVF player | `micro.c`, `lenval.c`, `ports.c` | TAP state, `ucComplete`, XSDR registers | `xsvfRun`, `xsvfShift`, `xsvfGotoTapState`, `addVal` ... |
| Uploader | `trunk/uploader/source/ftp_uploader` | FTP control and data connection, form state | `waitOpen`, `Open`, `Login`, `upload`, `DoIt` |
| kconfig | `kconfig/` `expr.c symbol.c menu.c confdata.c mconf.c conf.c zconf.y` | symbols and the values kept in them, `sym_change_count`, the menu tree | `sym_calc_value`, `sym_set_*`, `conf_read`, `conf_write`, `menu_finalize`, `conf` |
| lxdialog | `kconfig/lxdialog/` | a box's place in its list, the windows | `dialog_menu`, `dialog_checklist`, `dialog_textbox`, `dialog_inputbox`, `dialog_yesno` |
| Firmware pipeline | `trunk/speed-to-fritz/*.sh`, `includes/` | download directory, MD5 database, unpacked trees | `get_item`, `do_download`, `fw_unpack`, `fw_pack`, `pushconfig` |

How they interact: the layers of the JTAG utility call each other
synchronously, `main` -> `run_flash` -> `sflash_*` -> `ejtag_write_h` /
`ejtag_read_h` -> PrAcc or DMA -> `set_instr` / `ReadWriteData` -> `clockin` ->
the port. The host program is one thread. What makes it concurrent is the other
end of the cable: the CPU that executes the code fed to it, the DMA engine, the
board's watchdog and the flash chip each go on at their own pace while the host
polls. The state the host remembers (the header counts, `data_register`, the
position in a command sequence) is valid only as long as the other end did what
the host assumes. The uploader has the router's boot loader at its other end,
which refuses, breaks off and loses power, and lets the form's handlers run in
the middle of an upload (`DoEvents`). The configuration program is sequential;
its hazards are values that are kept too long and long sequences of legal calls.

What is hard, and what each part has to guarantee:

* **Driver.** From an unknown power-up state, and with any header and trailer
  lengths, the controllers must be in Run-Test/Idle between two calls, in the
  shift state while bits are sent, and only the selected device may be written.
* **Chain detection.** Which device answers depends on options, a chip list
  with masks, unknown devices and arithmetic on counts that may be zero or
  negative. A setup that the IDCODE check accepts must work.
* **PrAcc.** `ExecuteDebugModule` gives up after a number of polls, in the
  middle of a module; the CPU goes on later and meets the next module with
  other registers. A run that returns 0 must nevertheless be one whole pass.
* **DMA.** The engine may fail or take long; a retry repeats everything; a
  halfword comes in one of two lanes. Only the requested cells may change.
* **Flash.** A busy chip ignores commands, a cell can only lose bits, an erase
  takes a whole block, polls have no limit. After "loaded OK" the area must
  hold the file, and what lies outside the erased blocks must be as before.
* **Probing.** Only the chip that is there may be found, whatever noise looks
  like; the optional steps of `main` must leave the board so that the operation
  reaches the flash.
* **Uploader.** Commands and replies must stay matched over refusals, broken
  transfers and swallowed exceptions; what is flashed must be what was chosen.
* **XSVF player.** Its idea of the TAP state must be right wherever it decides by
  it, retries must be as many as asked.
* **kconfig, lxdialog.** A value kept is the value a recalculation would give;
  what is not marked as changed is what the file says; a box shows what its
  variables say, after scrolling and after a change of the terminal's size.

## 2. Modules

```
 JtagAccess  <-refined by-  JtagDriver EXTENDS JtagChain     JtagDriverProofs
 ChainSetup                 (scans taken whole)
 MemAccess   <-refined by-  PrAcc                            PrAccProofs
             <-refined by-  EjtagDma                         EjtagDmaProofs
 FlashOps   EXTENDS FlashChip   (bus cycles taken whole)     FlashOpsProofs
 FlashProbe EXTENDS FlashTables (operations taken whole)     FlashProbeProofs
 XsvfPlayer EXTENDS Lenval, TapController                    XsvfPlayerProofs
 Uploader   EXTENDS Adam2                                    UploaderProofs
 Conf       EXTENDS Zconf EXTENDS Kconfig EXTENDS KconfigExpr
 Lxdialog   EXTENDS Menubox, Checklist, Textbox, Inputbox (each EXTENDS DialogUtil)
```

Each layer of the JTAG utility takes one operation of the layer below as atomic;
the refinement below it says when that is right: a scan is atomic by
`JtagDriver!AccessSpec`, a memory access by `PrAcc!AccessSpec` and
`EjtagDma!AccessSpec` (and is not when a module run was given up, or the last
DMA attempt failed).

`MC*.tla` give the constants of a run. Definitions are mapped to 5.2's
`wrt54g.c` (and, for what only the older utility does, to `tjtag.1.c`). 5.1 has
the same `micro.c`, `lenval.c` and `ports.c` and differs in `wrt54g.c`: its `WriteIR` caches an instruction in `curinstr1`, which is never
set, its `sflash_poll` has a limit, its PrAcc accesses are repeated
(`REPEAT_EJAG`), and it has neither SPI chips nor `/bypass`.

### JtagChain, JtagDriver, JtagAccess
`JtagChain` is the hardware: the sixteen TAP states, the transitions of
`jtag_tap_controller_state_machine` (673-729, the debug copy which the code
keeps; the hardware has the same ones; module `TapController`), and for every
device an instruction register of its own length, a data register, IDCODE and
BYPASS. `ClockChain` is one rising edge of TCK. All controllers see the same TMS
and hence are in one state `tap`; TDI and TDO run through the devices.

`JtagDriver` is the code, one edge per step. `pc` is the routine that runs, `i`
its loop counter, `scan` its frame: the path of TMS levels to the shift state,
header bits, bits to send, trailer bits. `LastBit` says in which of the loops
of `WrIR` and `rwDR` the TMS-raising bit is. `set_instr` compares with a static
variable that nothing assigns, so it always calls `WriteToIR`; the model has no
cache. `Setups` are assumed `Drivable`: with neither instruction nor trailer
bits `WrIR` never raises TMS. What happens then is in `ChainSetup`.

`JtagAccess` is what the layer above expects: `WriteToIR` and `ReadWriteData`
are atomic on the selected device's instruction and DATA register.

### ChainSetup
One action per step of `main`'s detection: `detectChainLength`, `chip_detect`,
`autodetect`, the range check, `set_tir_hir` (/bypass), `detectOne`, the
computed counts, and the IDCODE check `verify`. Scans are operators on bit
sequences (`After`, `Out`) and devices are those of `Chips`, some of which are
in the list `Listed`, with a mask; of several rows that match the last counts
(`Row`), as the search of `lookupCipList` goes on. A lookup also sets
`instruction`, the IDCODE instruction that is shifted before the check. `ReadId`
is what `ReadData` then reads, also after an instruction scan that never raised
TMS: two more bits were shifted, with TDI as it was (`Held`), and the register
that is read is still the instruction register.

### PrAcc, EjtagDma, MemAccess
`PrAcc` has the host (`hpc`, `module`, `timeout`, `finished`, `retries2`, the
pseudo registers) and the CPU (offset `k` in the module, what it does next, its
registers). The code modules are sequences of instructions by what they do with
pseudo registers and memory. The CPU takes a step whenever it likes. The
half-word functions have the same text over other modules and are not repeated.
`EjtagDma` has the four functions scan by scan and the engine, which answers
well, with an error that left no trace, or with an error after it had written.
`MemAccess` is their promise: a call reads or writes one place exactly once,
unless it is `tainted` by a failure. The functions return no error, so the
caller cannot see the taint; it is a history variable.

### FlashChip, FlashOps
`FlashChip` is a chip of the AMD/SST, Intel or serial command family: command
decoder, embedded program and erase operations with status reads, block locks
of Intel chips; for a serial one the registers of the Atheros controller, or of
the Broadcom one that only `tjtag.1.c` still drives. A halfword is the set of its
one bits, of which bit 7 (polled) and bit 0 are kept. `FlashOps` turns each
`sflash_` and `spiflash_` routine into the sequence of its bus cycles (`todo`),
done one per step while the chip works on its own. A poll is one turn of the
unlimited loop of `sflash_poll`. A write cycle of `ejtag_pracc_write_h` and,
for a serial chip's controller, of `ejtag_pracc_write` under /check is read back
and repeated (`again`); what the controller's registers read back is left open
(`ReadsEqual`). `sflash_write_word` writes the halves of a word in the other
order for a Speedtouch and an Atheros (`Crossed`; in bypass mode for an Atheros
only, since lines 2851-2866 do not look at `speedtouch`); `run_backup` looks at
none of these, only at /swap_endian. Where the halves belong is therefore the
board's: `job.board` has the lower half of a word first, last, or all bytes
turned, and `BusWord` is what the processor reads there. `saved` is the file that
`run_backup` writes, or the memory that `run_load` fills; a last partial word of
the file gets whatever the buffer held. `tjtag.1.c`, whose Broadcom controller
the jobs with `proc = "bcm"` are, has no /check.

### FlashTables, FlashProbe
All rows of both versions' chip tables (118 and 106) and of the area table, and the course of
`main` in both versions, one action per stage: options, detection of the
processor, `check_ejtag_features`, reset, enabling of memory writes, break,
watchdog, probe, area, operation, end. `board` is what is connected: processor,
chip, watchdog, protection. `Read` says what the ids look like to each of the
four families of probe commands, noise included. `Bite` is the watchdog.
`SessionsAssumption` says that a board has one of the table's chips or none that
is known, and that only EJTAG 2.0 has the protection bit, as the comment in
`main` says.

### Lenval, XsvfPlayer
The player's commands as scripts of TAP operations (`todo`), done one clock or
walk per step, next to the TAP of the device (`tap`), which need not be where
`ucTapState` says. A comparison may mismatch at any time. `Lenval` has the
arithmetic of XSDRINC on bytes of `Bits` bits with the carries of `addVal`; `lv`
holds the lenVals of the XSDRINC in progress, whose masks are chosen where they
are used. `readByte` leaves its byte alone at the end of the file: the player
then repeats its last command, which any file of commands covers, and a comment
that is cut off is read for ever (`Comment`).

### Adam2, Uploader
`Adam2` is the router's boot loader (external, from how the client uses it):
its greeting, its five seconds' window, its replies, what is in its mtd areas.
`Uploader` is the session of the Start button, call by call: `todo` holds what
the handler still has to do, `replies` what the loader has sent and nobody has
read yet; a refused command or a broken transfer raises the exception the code
raises, which unwinds to the handler that catches it. `Fsel_Click` is the file
dialog's handler wherever `DoEvents` lets it run.

### KconfigExpr, Kconfig
Expressions with the rewritings of `expr.c`, and mconf's symbols: each keeps its
calculated value and whether that is valid, what the user set, and flags;
actions are to show a menu, to set a boolean, tristate, string, number or
choice, to save and to load. Numbers have ranges that depend on other symbols.
`SaveFails` is the write whose last step, the renaming, fails; `overlooked` is
history: which of the changes that the code does not follow have happened since
everything was last calculated again or read.

### Zconf, Conf
Configuration files as sequences of parts (`config`, `if`, `menu`, `source`,
`help` ...), the scanner's and parser's nesting, `menu_finalize`, and the walk of
`conf` over the tree in its five modes with the questions it asks. Mapped to the
generated scanner and parser as shipped, which is what the Makefile builds.

### DialogUtil, Menubox, Checklist, Textbox, Inputbox, Lxdialog
Each box keeps the variables of its C function and what is printed in its window
line by line; a key is one step; the terminal may change its size before each.
`Inputbox` has the yes/no box too, with the wrapping of its question. `Lxdialog`
adds mconf: the stack of its functions, which box each of them opens next, and what
they keep meanwhile. What the options are worth is `Kconfig`'s; here a menu is
built again with any of the lists it can have. One of them may be empty: `conf`
leaves a menu only while `child_count` is 0 (`mconf.c:614`), and nothing sets that
back (275), so that after the first option shown a submenu with every entry hidden
is shown without items. `single_menu_mode` and the options whose prompt is itself
a menu (`MenuPrompts`) decide what Select opens.

## 3. Runs

| Run | Instance | States | What it shows |
|---|---|---|---|
| `jtag_driver` | chains of 1-3 devices, IR lengths 2 and 3, each device selected, 2-bit registers, any power-up state | 409,960 | Idle means Run-Test/Idle; shifting happens in the shift state; the driver implements `JtagAccess` |
| `chain_setup` | all chains of up to 3 of 5 chips (3 of them match the list), one of 9 and one of 11 devices, all option values | 792,464 | Accepted setups work; known chains are accepted |
| `pracc` | 2 addresses, 2 words, 1 poll beyond the first, 1 retry, with and without /check | 329,076 | A completed run is one whole pass and stores what was asked; a checked success with a completed read back is in memory; calls return; refinement of `MemAccess` |
| `ejtag_dma` | 2 words, 2 halfword values, 1 retry | 680,048 | Only requested cells change; refinement of `MemAccess` |
| `flash_probe` | every row of both chip tables with every named area; every board and every switch about its preparation | 730,847 | What is found is what the table says of the chip there; areas, windows and blocks fit; nothing disturbs the operation; the program ends |
| `flash_ops` | 3 blocks of 1, 2 and 1 words, 4 areas, 3 files, 4 families, 3 boards, erase, bypass, DMA, /check, /swap_endian, fresh and used chip | 403,181 | The area holds the file, or the saved file the area; only erased cells are programmed; the chip is left readable; nothing outside is touched; the job ends |
| `flash_ops_check` | AMD, /check, 2 repetitions | violation | finding 1 |
| `uploader` | 2 archives and a loose image, 2 clicks, 1 fault | 111,325 | Commands and replies stay matched; an accepted upload is whole; what is flashed was asked for; sessions end |
| `xsvf_player` | bytes of 2 bits, lenVals of 3 bytes, unsigned chars of 4 values | 474,660 | The player is in step with the TAP; retries as asked; XSDRINC is exact; commands end |
| `kconfig` | 7 menus of 2-3 symbols, any `.config`, a file that names symbols twice, one failing write between two recalculations, all expressions of a bounded depth | 25,201 | Values are legal; kept values are fresh; changes are marked; rewriting keeps meaning |
| `lxdialog` | menus of 8 and 5 items, a submenu of 2 items or none, choices of 4 values, a text longer and texts shorter than the box, terminals 21x80, 17x70 and 9x80 | 100,133 | A box shows its state; keys move as named; a menu is shown again at its place; mconf responds |
| `conf` | the texts listed in `MCConf`: nestings of up to 4 parts with 3 included files, 90 dependencies, 5 modes, 45 saved files | 114,248 | Dependencies are combined as written; every entry can be reached; answers are kept; conf ends |

**Bounds.** `Timeout` = 1 is enough to give up at every point of a module, as
each poll may find no access; a larger one only lengthens the wait. One retry
gives every order of failed and good attempt, `retries2` = 0 included. Two
addresses, two words: the one asked for and a stale one. Chains of three have a
device on both sides of the selected one; the long ones are one longer than
`detectOne` can count (8 to the left of it, `unsigned char x`) and one longer
than `autodetect` (10). The list has the two IDCODEs that padding looks like
(0x00000001 and 0xFFFFFFFF, `wrt54g.c:286`, 306). IR lengths of 2 and 3 make header and trailer
distinguishable. The small instance of the flash chip has a block of another
size, an area that begins inside a block, and files that end early or hold FF
words. `flash_probe` has the program's own tables; `Rounds` = 2 instead of 30
retries gives a first, a middle and a last one. The uploader's `MaxFaults` = 1
is one refused command, broken transfer, loss of power or refused greeting at
any point of either of two sessions; with `Clicks` = 2 a file is selected before
and during one. Bytes of two bits and `UChar` = 4 wrap where the program's
bytes wrap; `Repeats` {0, 1, 3} has the wrapping maximum, `RunTimes` {0, 4} and
`Lengths` {0, 1, 2} the empty and the longest scan; in three bytes a carry passes
one in the middle, and `MCMasks` has a data mask with bits in two of them. kconfig's menus are one for
each kind of symbol and one with a submenu. lxdialog's terminals
have a window of seven lines for a menu of eight items, one of three, and none:
the list is longer than its window by one, longer by far, or not shown. The
list of a choice is one longer than its window (3), an input of four
characters is one longer than its field.
No state constraint is used.

**Fairness.** `PrAcc!FairSpec`: weak fairness of the host only, a running
program that never blocks in a call; nothing of the CPU, which may have
crashed, so `CallsReturn` rests on the time-out alone. `EjtagDma!FairSpec`: the
engine ends an access too, because the host waits for `DSTRT` without a limit.
`FlashOps!FairSpec`: the chip completes what it began, for the same reason.
`FlashProbe!FairSpec`, `XsvfPlayer!Spec`: the program runs on. `Uploader!FairSpec`:
client and loader run on (WF); the user turns the router on again and again at
the address shown, and the client then connects within its window (SF): the
dialog asks for just that. `Lxdialog`: mconf runs on (WF); `Conf`: conf runs on
(WF) and its user sometimes answers acceptably (SF). The others have no liveness
property.

**Preconditions.** `FlashedHoldsImage`, `NeverOverprogrammed` and `JobFinishes`
hold for jobs that erase what they write, from the start of a block, and whose
cycles a parallel chip hears once, i.e. without /check or by DMA (`Sound`);
`FlashedHoldsImage`, where a file is flashed, for switches that put the halves in
the board's order (`RightHalves`: a Speedtouch needs /st5 and not /clbypass), and,
where an area is saved, for /swap_endian just on a board that turns the bytes;
`JobFinishes` for halfwords that the order of the halves
lets be polled (`PollsAgree`). Without these the code promises nothing: an area
that begins inside a block has old contents there, FF words are left out, and a
poll for a bit that cannot be set never ends. `OutsideUntouched` and
`LeftReadable` hold for every job. In bypass mode an AMD chip's halfwords are not
polled; there, and only there, `WriteCycle` waits for the chip, which is the
assumption (port slower than chip) the code itself makes. `AcceptedWorks` assumes that header counts given by hand
are right, that one device is listed and the chain has no more than the ten
devices `idcodes` is read for, and has one exception: after an instruction scan
that never raised TMS the check may accept padding (ones followed by zeros),
which the list has as 0x00000001 and 0xFFFFFFFF.
`Undisturbed` and `GivesUp` are about boards that main can prepare (`Prepared`).
`XsvfPlayer`'s inputs are waits in stable TAP states and masks as long as the
data. `CommandEnds` leaves out an XSTATE of no state, masks too long to count and
comments that are cut off. `SessionEnds` is about
sessions without faults in which no second greeting is waited for. `ConfEnds`
excludes options that have no value and that conf never asks for (`unresolved`).
`Responds` excludes a terminal too small for the input box while mconf asks for
a string or a file name. `BoxShowsState` leaves out what section 4 says of stale
menus and of texts without a newline at their end, and input fields behind
`strayed`; `MovesAsAsked` texts of that kind, and what a cursor key does in a menu
without items, which has nowhere to go (`BoxShowsState` says what is shown there).
`PlaceIsKept` is about a menu that is shown again with the same list on a terminal
of the same size. A configuration without any option that mconf shows, whose root
menu returns at once, is left out.

## 4. Findings

1. /check repeats command cycles that can never read back as written, in the
   middle of the chip's command sequence; flashing through PrAcc with /check
   does not program the chip (`wrt54g.c:1307`). `sflash_probe` turns the option
   off for itself (2630), `run_flash` does not. What does happen then is proved:
   section 5, `CheckedInv`.

Observed and modelled as the code has it, without a run that refutes a claim:

* **Chain.** The range check of the selected device is off by one:
  `selected_device = ndevs` passes and `device` becomes -1 (`wrt54g.c:1763`). The
  IDCODE check looks up what it has read before comparing, so any listed chip
  equals "the wanted one" (`wrt54g.c:1789`, `1799`). A listed chip with a masked
  revision is refused.
* **PrAcc, DMA.** /check reports success when write and read back both time out:
  `data_register` still holds the word that was to be written (`wrt54g.c:1277`).
  A write that succeeds on the very last retry is reported as an error. After
  DERR on the last DMA attempt the caller gets whatever was read.
* **Flash.** Polling on a Speedtouch or an Atheros hangs for a halfword whose
  bit 7 is clear when the other half's is set. With /clbypass the halves of a
  Speedtouch are not exchanged (`wrt54g.c:2851-2866`), so that what is flashed is
  not what `run_backup` would read. `unlock_bypass_reset` and
  `spiflash_poll` are called by nothing; `unlock_bypass`'s code 20 puts an Intel
  chip in front of a confirmation (harmless). `run_load` writes FF or
  uninitialised bytes behind a file that is no multiple of four. A file shorter
  than the area: the rest is erased and not written. Above the end of the code
  module the host reads past it (`wrt54g.c:1560`).
* **Probing, `main`.** With `/nobreak`, which NOTE 3 recommends, 5.2 does nothing.
  `proc_id` is never assigned in 5.2: its branches per processor are dead, and
  an Atheros board's watchdog is never cleared. `tjtag.1.c` goes on although the
  processor has not halted, and waits for it without a limit; its Atheros areas
  lie outside the window, so that nothing is erased before flashing. RED is in
  no window, WGRV9BDATA begins inside a block, NVRAM of 64K on 128K blocks
  erases nothing, and an area that a chip does not have is skipped with "REQUESTED
  OPERATION IS COMPLETE". A missing file leaves the program with the processor
  halted. Some rows of the 5.2 table contradict their own size (466, 467, 470,
  471, 476, 477, 479, 480, 492, 496, 499, 521, 522), and twelve stand in it twice,
  with the same geometry; the row of the common id 227E of vendor 0001 can never
  be found, nor in 5.2 a Winbond chip with a common id (2203), whose rows only the
  older table has; S29GL01GP's 1024 blocks overflow
  `blocks[1024]` (2302). `-probeonly:custom` is always refused in 5.2. Memory
  writes are enabled by DMA whether it is used or not.
* **Uploader.** `DoItAgain` opens twice, and the second `Open` waits for ever for a
  second greeting: a session with "clear" hangs and leaves the box with autoload
  "no". A file selected while an upload runs leaves the form with the old
  `kernel.image` as the new selection (`upload.cs:942`). `DoIt` reboots the box
  after a failed upload. `TestKI`'s result is ignored.
* **XSVF player.** A file that waits in an unstable TAP state moves the TAP away
  from where the player believes it is; XSTATE above 0x0F and XSDRINC with a mask
  of 256 bytes loop for ever, and so does a comment that the end of the
  file cuts off (`micro.c:1155`, 1640). XSDRINC adds the address mask and then
  replaces the bits of the data mask (1044, 1049); the comment above it has the
  replacing first (1398-1401). `Lengths` are those XSDRSIZE accepts; what a size
  whose number of bytes does not fit in a short (483, 1322) does to the buffers is
  not modelled; 255 retries wrap to none; XCOMMENT clears
  `iErrorCode`; with XRUNTEST 0 and ENDDR in Pause a retry scans again without
  a new capture; XSDR compares with what an earlier command left.
* **kconfig.** `conf_read` takes the user's value from a choice, or from a number
  outside its range, after it has calculated others from it (`confdata.c:349`); a
  string set to the text it had keeps a stale value; loading a file that is not
  there clears the mark of change (`confdata.c:310`); a write that fails at the
  renaming (`confdata.c:519`), when the old file is already away, has taken the
  symbols' marks for writing, so that the next one writes a file without them and
  clears the mark of change; a boolean as default of a string gives "n" whatever
  its value is (`symbol.c:344`); a symbol that a file assigns twice makes its choice
  inconsistent (`confdata.c:211`, 290); a choice whose value is
  only visible as m cannot be expressed in `.config`; `expr_eliminate_dups2` is
  wrong for tristates at m; the comment at `expr.c:497` contradicts its line;
  `sym_check_deps` looks neither from a choice at the prompts of its values nor
  at limits of ranges. These are the named exceptions in the properties.
* **conf.** `check_conf`'s loop does not end when a visible option has no value
  and is never asked for (`conf.c:624`, reached from the top Makefile); a sourced file
  whose last `endmenu` has no newline is refused; an `if` at the end of a sourced
  file belongs to the file that sources it; the line after `help` that is not
  indented is swallowed.
* **lxdialog.** `child_count` is never reset (`mconf.c:275`, 614): a submenu with
  every entry hidden is shown empty, Down moves its cursor to -1
  (`menubox.c:331`) and a key for the cursor prints a row of the empty `item_nil`.
  `first_item` is not reset where the list is shown from its start
  again, and the window is drawn from it: after the terminal has shrunk and
  grown, a menu shows other items than Enter takes, or takes the text of one
  behind its list (`menubox.c:245-264`). After a resize the first button is
  highlighted while `button` keeps its value, and the cursor is back at the item
  opened with; a checklist draws its down arrow although nothing is below
  (`checklist.c:76-99`); the input box keeps its scroll, and types at the wrong
  place. A text without a newline at its end loses or doubles a line
  (`textbox.c:234`). The boxes' error for a small terminal is not handled by
  `conf_string`, `conf_load`, `conf_save`, which loop (`mconf.c:807`), and not by
  `main`, which takes it for a No; one ESC alone is ignored.

## 5. Proofs

All proofs are for every value of the constants.

* **`JtagDriverProofs`**: `RestsInIdle` (`[]IdleIsRunTestIdle`) and
  `ShiftsInShiftState` (`[]ShiftingInShiftState`), for every chain, register
  width and drivable setup. The two properties are not inductive: during
  `test_reset` the TAP is anywhere. `ControlInv` adds `ResetInv` (after `i`
  clocks with TMS high the TAP is within 6 - i clocks of Test-Logic-Reset; the
  lemma `Closer` is that five suffice), `PathInv` (where on the path of the
  goTo routines it is), `ShiftInv`, `FinishInv` and `FrameInv` (what the scan
  frame looks like, which with `LastBitIsLast` says that TMS rises with the last
  bit and no other).
* **`PrAccProofs`**: `TypeCorrect`, `PassAgrees`, `FullPassStores`,
  `CheckedHolds`, from the invariant `PrAccInv`. The properties only speak of
  the moment when a run is over; `PassInv` says what holds at every instruction
  of a pass: once the first fetch from the vector is answered (`finished = 1`)
  the CPU is in *this* module and its registers are as far as the module has
  come, whatever the CPU did before. `DoneInv` carries the result over to the
  caller, `PendingInv` ties the access the host serves to the instruction the
  CPU is at, `CallInv` the address register to the call.
  `PrAccImplementsAccess` in the same module, the refinement of `MemAccess`:
  every step is a step of the atomic access or a stutter. `CleanInv` adds what a
  call that is not tainted leaves alone: the processor waits at the vector when
  a run begins, and `data_register` holds the word of a write call through every
  run, the read backs included. So a store in such a call is the requested one
  (`StoreIsWrite`) and a return finds memory as it should be (`ReturnIsReturn`).
* **`EjtagDmaProofs`**: `DmaTypeCorrect`, `ServesCall`, `OnlyRequested`,
  `ImplementsAccess`, from `DmaInv`: besides types, at each scan which of the
  target's registers already hold the call's values, and that the engine is off
  everywhere except in the wait (`RegistersInv`); that a completed write is in
  memory, and that what was fetched is what the call asked for, unless the last
  attempt failed (`ResultInv`). The last theorem is the refinement of
  `MemAccess`: every step is a step of the atomic access or a stutter.
* **`UploaderProofs`**: `UploaderInvariant`, `CommandsInSync` (`[]InSync`),
  `AcceptedUploadIsWhole` (`AcceptedIsWhole`), `OnlyAskedIsFlashed`
  (`FlashedAsAsked`), `WaitsForWhatComes` (`[]ReadIsOwed`), for every set of images with any sizes, any number of
  clicks and any number of faults. Over an exception the handler unwinds to one
  of several places, and a `DoEvents` inside `upload` runs other handlers, so the
  properties say nothing of the moment before a step. `UploaderInv` does:
  `ScriptInv` – what the handler has still to do (`todo`) is the rest of a well
  formed script for the operation it is in; `SyncInv` – the next call tells how
  many replies the loader still owes, none or one, and after `STOR` which one;
  `FlashInv` – what of the file is read, on the link and in the partition, and
  that the session's file is still the one that was chosen when it began.
  `ReadIsOwed`, which no run lists, is the safety half of `SessionEnds`: reads
  have no limit of time, and while the connection is up the handler waits only
  for a reply that is there or will come. It needs `AliveInv` on top: after
  `STOR` was answered with 150 either the transfer goes on or its second reply is
  under way, and an `Open` that finds the connection is the second one of
  `DoItAgain`, whose greeting is the one exception (section 4).
* **`XsvfPlayerProofs`**: `PlayerInvariant`, `PlayerInStep` (`[]InStep`),
  `RetriesCounted` (`[]RetriesAsAsked`), for every byte width, every set of
  repeats, run times, lengths and wait states that are stable. A command is
  divided into phases by what it still has to do; `PlayerInv` says for each of
  them which operations are left, in which order, and what they have to find:
  where the TAP will be when the walk that is next is over (`Synced`), which
  comparison decides (`Compared`), how long the command has rested and been
  heard. In between the belief may be wrong: the invariant keeps that apart
  (`ucTapState` is right when the next operation decides by it).
* **`FlashOpsProofs`**: `FlashInvariant`, `ImageHeld` (`[]FlashedHoldsImage`),
  `ProgramsErased` (`[]NeverOverprogrammed`), `CheckedInvariant`, `ReadableAgain`
  (`[]LeftReadable`), `OutsideKept` (`OutsideUntouched`), for every division of
  the chip into blocks, every area, file and set of options. `FlashInv` relates
  three positions: the host's in its routine (the first cycle of `todo`), the
  command decoder's, which follows it cycle by cycle (`EraseCourse` and its like
  list the decoder's modes along a routine; a serial command goes through
  stages, and `Leads` says which cycle leads from which stage to the next), and the
  operation's in the area (`at`). What is in the chip is stated of `After`, what it
  will hold once the running embedded operation is over, so that the chip's
  completion changes nothing: cells of erased blocks are erased, words before
  `at` hold the file, no cell outside the area's blocks has changed. That
  the block table covers the area is an induction over blocks (by well-founded
  induction, `Base` being a recursive function). `SavedInv` is the same for what
  `run_backup` has read. Under /check the host repeats cycles, and that
  invariant is lost: `CheckedInv` says what is left. Every cycle ahead is one of
  a legal routine; an AMD chip never gets beyond `unlock2`, because a command cycle
  is repeated at once, and so obeys nothing; an Intel chip takes the second of two
  equal codes as a halfword to program, but with an address inside the area and with a
  poll still to come; and the reset at the end finds the chip where it obeys it.
  A serial chip's controller is given the lines of a command again and again, as its
  registers read back or not (`SerialInv`: the registers hold orders of the area only, and while one may be
  carried out the cycles that are left still wait for its end).
  `ReadableAgain` and `OutsideKept` hold with and without /check, for all four
  families. `ImageHeld` and `ProgramsErased` are proved for serial chips without
  /check only; under it TLC checks them.
* **`FlashProbeProofs`**: `FoundChip` (`[]FoundIsPresent`), `MainPrepares`,
  `WorksUndisturbed` (`[]Undisturbed`), for every board, every command line and
  all rows of both chip tables, which are the program's own. That what is found
  is the chip's rests on the tables: `Place` computes the first row from the ids,
  `Ids` and `Ids_tjtag` show row by row that it is right and that the twelve rows
  with ids that an earlier one has say the same as that; `OwnRow` that noise is in no
  row, and the common id of the Spansion chips, which stands in one, in none under
  the new name it is given.
  `FoundIsPresent` then follows from which way leads to `identify_flash_part`
  (`FoundInv`). `Undisturbed` speaks of the end only; `PreparedInv` says what each
  stage of `main` leaves done for the later ones: the way of access is one the
  processor has (`HostInv`), the protection is off where the engine is used, the
  processor is halted and its watchdog cleared from then on, so that `Bite` cannot
  happen, and the probe of a chip that answers has not got past its family (`ReadyInv`).

* **`LxdialogProofs`**: `BoxesShowTheirState` (`[]BoxShowsState`), `KeysMoveAsAsked`
  (`[][GoesAsAsked]`), `MenuFindsItsPlace` (`[][FindsPlace]`), for all menus, texts,
  values and questions and for terminals, lists and fields of every size. The
  properties are of what is printed, and most keys print a line or two, so each
  box has an invariant of its own. `MenuInv`, `ListInv`: the cursor is inside the
  window and the window inside the list, the rows are those from `scroll` on, with
  the one at `choice` lit; a key unlights it, moves (`Dark` menus, no row lit; a
  page is an induction over the steps; a hot key goes to the nearest item that has
  it, `Nearest`) and lights another. A menu without items has an invariant of its own (`Bare`). `TextInv` counts line
  ends: a text with N of them has N lines, line k begins behind the k-th (`begins`),
  and the window, `page` and the ends reached are numbers of lines (`Sound`);
  `back_lines` moves character by character and does not count the step that only
  takes back `end_reached`, and the lemmas about it say at which line it ends.
  `InputInv` says how long the value is and what of it the field holds,
  `YesnoInv` follows the wrapping of the words. Across the boxes, `Owner` says that
  the box that is shown, or whose answer is there, belongs to the function on top
  of the stack, and `MenuPlace` with `Remembers` that what `conf` keeps of its menu
  (`active_menu`, `s_scroll`) is the place it was left at, which `dialog_menu` then
  finds again, since no entry is in a menu twice.

Assumptions: the named ASSUMEs of the modules, nothing else (`ChainAssumption`,
`SetupsAssumption`, `PrAccAssumption`, `DmaAssumption`, `SizesAssumption`,
`JobsAssumption`, `SessionsAssumption`, `BoxAssumption`, `FirmwareAssumption`,
`LenvalAssumption`, `PlayerAssumption`, `ListHeightAssumption`, `FieldAssumption`,
`DialogsAssumption`); TLC evaluates them in every run.

Only model-checked, and why:

* liveness (`CallsReturn`, `JobFinishes`, `GivesUp`, `SessionEnds`, `CommandEnds`,
  `Responds`, `ConfEnds`): out of the provers' reach;
* the refinement of `JtagDriver`, `ChainSetup` (`AcceptedWorks`,
  `KnownChainAccepted`), `IncrementIsExact` and `AreaFits`: they rest on sums and
  concatenations over a chain, a byte string or a table of regions, i.e. on what a
  fold computes, which is induction over data with an operator as parameter;
* `Kconfig` and `Conf` (`ValuesLegal`, `CacheIsFresh`, `ChangesAreMarked`,
  `SimplifiedAgrees`, `DependsCombined`, `Reachable`, `AnswersKept`): expressions
  and menus are trees, and their operators are RECURSIVE.

## 6. Not modelled

* The firmware pipeline: shell scripts that download, unpack, patch and repack;
  what matters there is the contents of files.
* `chip_detecty` (/old) beyond its place in `FlashProbe`; the error returns of
  `ExecuteDebugModule` for addresses outside module and registers (a wiring
  fault); `spiflash_chiperase`'s end, which it does not wait for;
  `setup_memory_*` and `readmem_*`; 5.1's own differences (section 2);
  `tjtag.1.c`'s cached `set_instr`, which `test_reset` does not clear, and its
  `ExecuteDebugModule` without a limit beyond `Answers`; the bit layout of the
  parallel port.
* kconfig's graphical front ends `qconf`, `gconf`, the tables yacc and flex
  generate, error recovery, several prompts or definitions of one symbol,
  formats of numbers, `conf_split_config` and what `conf.c` no longer calls
  (126-418), `kxgettext`, `fixdep`; the names of the files `conf_write` renames,
  and what a full disk loses, which it does not ask.
* lxdialog's colours and borders.
* `ftplib.cs` and `ftp_1.cs` (not compiled), the patch dialogs of the uploader.
* coLinux and andLinux packaging is third-party; patches, icons and configuration
  menus are data.

## 7. Plan

Done: the models, runs and proofs above. Left:

1. `AreaFits` for the regular rows of the tables, if the block table can be had
   from a recursive function instead of a fold.
2. The refinement of `JtagDriver` for a single device (no sums over the chain).
