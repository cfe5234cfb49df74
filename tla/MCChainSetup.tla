---------------------------- MODULE MCChainSetup -----------------------------
(* Chains of up to three devices of five kinds, three of them listed; one of  *)
(* those twice, with another length in the first row, as 0x102002E1 is twice  *)
(* in processor_chip_list with another instruction.  The list also has the    *)
(* two IDCODEs that padding looks like, 0x00000001 and 0xFFFFFFFF.            *)
EXTENDS ChainSetup

Exactly == <<1, 1, 1, 1, 1, 1>>
MCListed == <<[chip_id |-> <<1, 0, 1, 1, 0, 1>>, chip_mask |-> Exactly, chip_IDCODE |-> 1, len |-> 3],
              [chip_id |-> <<1, 0, 0, 0, 0, 0>>, chip_mask |-> Exactly, chip_IDCODE |-> 1, len |-> 3],
              [chip_id |-> <<1, 1, 0, 1, 0, 0>>, chip_mask |-> <<1, 1, 1, 1, 1, 0>>, chip_IDCODE |-> 6, len |-> 3],
              [chip_id |-> <<1, 0, 1, 1, 0, 1>>, chip_mask |-> Exactly, chip_IDCODE |-> 1, len |-> 2],
              [chip_id |-> Exactly, chip_mask |-> Exactly, chip_IDCODE |-> 9, len |-> 2]>>
MCChips == {[id |-> <<1, 0, 1, 1, 0, 1>>, len |-> 2, IDCODE |-> 1],
            [id |-> <<1, 1, 0, 1, 0, 0>>, len |-> 3, IDCODE |-> 6],
            [id |-> <<1, 1, 0, 1, 0, 1>>, len |-> 3, IDCODE |-> 6],
            [id |-> <<1, 0, 0, 1, 1, 1>>, len |-> 2, IDCODE |-> 1],
            [id |-> <<1, 1, 0, 0, 1, 1>>, len |-> 3, IDCODE |-> 1]}
\* Nine listed devices are one more than detectOne can count, eleven one more
\* than autodetect.
Long(n) == [d \in 1..n |-> IF d = n THEN [id |-> <<1, 0, 1, 1, 0, 1>>, len |-> 2, IDCODE |-> 1]
                           ELSE [id |-> <<1, 1, 0, 1, 0, 0>>, len |-> 3, IDCODE |-> 6]]
MCChains == UNION {[1..n -> MCChips] : n \in 1..3} \union {Long(9), Long(11)}

MCPlain == [selected_device : 0..3, setBypass : BOOLEAN, skipdetect : BOOLEAN,
            instrlen : {0}, selected_hir : {0}, selected_tir : {0},
            selected_hdr : {0}, selected_tdr : {0}]
MCOptions ==
  MCPlain \union
  [selected_device : 0..3, setBypass : BOOLEAN, skipdetect : {TRUE},
   instrlen : {0, 2}, selected_hir : {0, 2, 3}, selected_tir : {0, 2, 3},
   selected_hdr : 0..1, selected_tdr : 0..1]
==============================================================================
