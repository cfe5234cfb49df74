---------------------------- MODULE MCJtagDriver -----------------------------
(* Chains of one, two and three devices with instruction registers of two and *)
(* three bits, each device selected in turn, with the setup that belongs to   *)
(* it.                                                                        *)
EXTENDS JtagDriver

MCIdCode == <<1, 1>>
MCChains == {<<2>>, <<2, 3>>, <<3, 2>>, <<2, 3, 2>>}
MCRight(lens, d) ==
  [lens |-> lens, sel |-> d, instruction_length |-> lens[d],
   hir |-> SumOf(SubSeq(lens, 1, d - 1)), tir |-> SumOf(SubSeq(lens, d + 1, Len(lens))),
   hdr |-> d - 1, tdr |-> Len(lens) - d]
MCSetups == UNION {{MCRight(lens, d) : d \in DOMAIN lens} : lens \in MCChains}
==============================================================================
