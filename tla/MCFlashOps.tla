----------------------------- MODULE MCFlashOps -----------------------------
(* A chip of three blocks, one of them of two words, as the boot blocks of a  *)
(* real chip differ from the others.                                          *)
EXTENDS FlashOps

MCSizes == <<1, 2, 1>>

Used == [c \in Cells |-> IF c % 2 = 0 THEN {} ELSE {7}]
Fresh == [c \in Cells |-> Erased]
MCContents == {Used, Fresh}

(* A file that fills two words, a short one with an FF word, an empty one.    *)
Images == {<< <<{}, {0, 7}>>, <<{7}, {0}>> >>, << <<{0, 7}, {0, 7}>> >>, <<>>}
(* The whole chip, the big block, the small one in front, and an area that    *)
(* starts inside the big block and ends with the chip.                        *)
Areas == {<<0, 4>>, <<1, 2>>, <<0, 1>>, <<2, 2>>}

JobSet(family, ops, erase, bypass, check, dma) ==
  {[family |-> family, op |-> op, start |-> a[1], length |-> a[2], image |-> f,
    issue_erase |-> e, cl_bypass |-> b, check |-> check, dma |-> d, speedtouch |-> FALSE, cut |-> FALSE,
    proc |-> "", board |-> "plain", swap_endian |-> FALSE] :
     op \in ops, a \in Areas, f \in Images, e \in erase, b \in bypass, d \in dma}

MCJobs == UNION {JobSet(f, {"flash", "erase"}, BOOLEAN, BOOLEAN, c, BOOLEAN) :
                   f \in {"AMD", "SST", "Intel"}, c \in BOOLEAN}
          \cup UNION {JobSet("SPI", {"flash", "erase"}, BOOLEAN, BOOLEAN, c, {FALSE}) : c \in BOOLEAN}
          \cup {[j EXCEPT !.proc = "bcm"] :
                  j \in JobSet("SPI", {"flash", "erase"}, BOOLEAN, {FALSE}, FALSE, {FALSE})}
          \cup {[j EXCEPT !.speedtouch = (p = ""), !.proc = p, !.image = f, !.board = "crossed"] :
                  p \in {"", "atheros"},
                  j \in JobSet("AMD", {"flash"}, BOOLEAN, BOOLEAN, FALSE, {FALSE}),
                  f \in Images \cup {<< <<{7}, {0, 7}>>, <<{0, 7}, {7}>> >>}}
          \cup {[j EXCEPT !.board = b, !.swap_endian = (b = "turned"), !.proc = p] :
                  b \in {"plain", "crossed", "turned"}, p \in {"", "atheros", "bcm"},
                  j \in UNION {JobSet(f, {"backup"}, {FALSE}, {FALSE}, FALSE, {FALSE}) : f \in {"AMD", "SPI"}}}
          \cup {[j EXCEPT !.cut = j.image # <<>>] : j \in UNION {
                  JobSet(f, {"flash", "load"}, {TRUE}, {FALSE}, FALSE, {FALSE}) : f \in {"AMD", "Intel"}}}
(* Under /check: any job of an AMD chip, and a file whose halfwords all have  *)
(* bit 7 set, as an erased chip has.                                          *)
CheckJobs == {[j EXCEPT !.image = << <<{7}, {7}>> >>] :
                j \in JobSet("AMD", {"flash"}, {TRUE}, {FALSE}, TRUE, {FALSE})}
==============================================================================
