---------------------------- MODULE MCFlashProbe ----------------------------
(* The tables: every row of both chip tables, or no chip, with every named    *)
(* area, a custom one, and /fc with the row of a common id, one that stands   *)
(* in the table twice, another and none, on a board that needs no             *)
(* preparation; in the older program on every kind of processor.              *)
(* And the preparation: every board and every switch about it, with chips of  *)
(* the AMD and the SST commands.                                              *)
EXTENDS FlashProbe

(* The processors with a serial controller have one; elsewhere what is read   *)
(* in its place is busy for ever or not.                                      *)
Procs == {"bcm", "bcm6358", "atheros", "ixp", "other", "unknown"}
Serials == [bcm |-> {"ready"}, bcm6358 |-> {"ready"}, atheros |-> {"ready"},
            ixp |-> {"junk"}, other |-> {"junk", "stuck"}, unknown |-> {"junk", "stuck"}]
Board(p, chip, spi) ==
  [proc |-> p, chip |-> chip, spi |-> spi, version |-> 0, dma |-> TRUE, halts |-> TRUE,
   watchdog |-> FALSE, protects |-> FALSE, halted |-> FALSE]

Switches == [window |-> MB(448), start |-> MB(448) + KB(64), length |-> KB(128)]
Request(op, name, switches, fc) ==
  [op |-> op, area |-> name, switches |-> switches, fc |-> fc, custom |-> Switches,
   tjtag |-> FALSE, skipdetect |-> TRUE, old |-> FALSE, dma |-> FALSE, nodma |-> FALSE,
   noreset |-> FALSE, noemw |-> FALSE, nocwd |-> FALSE, nobreak |-> FALSE, reboot |-> FALSE]
All == {"CFE", "CFE128", "CF1", "KERNEL", "NVRAM", "WGRV9NVRAM", "WGRV9BDATA", "WGRV8BDATA",
        "WHOLEFLASH", "BSP", "RED"}
Asked ==
  {Request("erase", a, <<>>, 0) : a \in All}
  \cup {Request(op, "WHOLEFLASH", <<>>, fc) : op \in {"backup", "flash"}, fc \in {0, 9, 28, 96, 999}}
  \cup {Request("erase", "CUSTOM", s, 0) :
          s \in {<<>>, <<"window", "start", "length">>, <<"start", "start", "length">>}}
  \cup {Request("probeonly", "CUSTOM", <<"window">>, 0), Request("probeonly", "", <<>>, 0),
        Request("load", "", <<>>, 0), Request("chiperase", "", <<>>, 0)}

Here(chips) == UNION {{Board("other", chip, spi) : spi \in Serials["other"]} : chip \in 0..Len(chips)}
There(chips) == UNION {{Board(p, chip, spi) : spi \in Serials[p]} : chip \in 0..Len(chips), p \in Procs}
Older(skipdetect) == {[r EXCEPT !.tjtag = TRUE, !.skipdetect = skipdetect] : r \in Asked}
Tables == [request : Asked, board : Here(flash_chip_list)]
          \cup [request : Older(FALSE), board : There(flash_chip_list_tjtag)]
          \cup [request : Older(TRUE), board : Here(flash_chip_list_tjtag)]

Switched(r) ==
  {[r EXCEPT !.dma = d = "dma", !.nodma = d = "nodma", !.noreset = n, !.noemw = e,
             !.nocwd = w, !.nobreak = b, !.reboot = n] :
     d \in {"", "dma", "nodma"}, n \in BOOLEAN, e \in BOOLEAN, w \in BOOLEAN, b \in BOOLEAN}
Flash == Request("flash", "CFE", <<>>, 0)
Prepares(p, chip, spi) ==
  {[Board(p, chip, spi) EXCEPT !.version = IF v = "dma 2.5" THEN 1 ELSE 0, !.dma = v # "none",
      !.protects = v = "protected", !.halts = h, !.watchdog = w, !.halted = l] :
     v \in {"none", "dma", "dma 2.5", "protected"}, h \in BOOLEAN, w \in BOOLEAN, l \in BOOLEAN}
Preparations ==
  [request : Switched([Flash EXCEPT !.old = TRUE])
             \cup Switched([Flash EXCEPT !.tjtag = TRUE, !.skipdetect = FALSE])
             \cup {[Flash EXCEPT !.old = TRUE, !.skipdetect = FALSE, !.op = "chiperase", !.area = ""],
                   [Flash EXCEPT !.tjtag = TRUE, !.reboot = TRUE]},
   board : Prepares("other", 6, "junk") \cup Prepares("unknown", 6, "stuck")
           \cup Prepares("atheros", 4, "ready") \cup Prepares("bcm", 53, "ready")]

MCSessions == Tables \cup Preparations
==============================================================================
