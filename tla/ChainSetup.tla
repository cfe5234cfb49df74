----------------------------- MODULE ChainSetup ------------------------------
(* How wrt54g.c finds out which devices are on the chain and how many header  *)
(* and trailer bits reach the selected one: detectChainLength, chip_detect,   *)
(* autodetect and setHeaderTrailer, up to the IDCODE check that accepts the   *)
(* setup or ends the program.                                                 *)
(*                                                                            *)
(* Scans are taken whole here (JtagDriver has their clocks): a scan moves the *)
(* bits sent into the chain behind the bits captured, the first bits out are  *)
(* the first bits read.                                                       *)
EXTENDS Integers, Sequences, SequencesExt

CONSTANTS Width,     \* bits of an IDCODE register
          Chips,     \* the devices there are: [id, len, IDCODE]
          Listed,    \* processor_chip_list, a sequence of
                     \* [chip_id, chip_mask, chip_IDCODE, len]
          Chains,    \* the chains to consider: sequences over Chips
          Options    \* the command lines to consider

NoId == [k \in 1..Width |-> 0]     \* the value 0 of idcode_in_use
Ones(n) == [k \in 1..n |-> 1]
Zeros(n) == [k \in 1..n |-> 0]
Bits(instr, n) == [k \in 1..n |-> (instr \div 2^(k - 1)) % 2]
INSTR_IDCODE == 1

Masked(id, mask) == [k \in 1..Width |-> id[k] * mask[k]]
Matches(e, id) == Masked(id, e.chip_mask) = e.chip_id

(* The search of lookupCipList goes on behind a match: the last row counts.   *)
Row(id) == SelectLastInSeq(Listed, LAMBDA e : Matches(e, id))
IsListed(id) == Row(id) # 0
Entry(id) == Listed[Row(id)]

(* What the list says of the devices of the chain is taken to be right.       *)
ASSUME SetupAssumption ==
  /\ \A k \in DOMAIN Listed : Matches(Listed[k], Listed[k].chip_id)
  /\ \A c \in Chips :
       /\ c.id[1] = 1 /\ c.len > 1 /\ Bits(c.IDCODE, c.len) # Ones(c.len)
       /\ IsListed(c.id) => Entry(c.id).len = c.len /\ Entry(c.id).chip_IDCODE = c.IDCODE

VARIABLES chain,         \* the devices; the first is next to TDO
          opt,           \* the command line
          pc,
          ChainLength, ndevs, idcodes, device,
          hir, tir, hdr, tdr,
          instr_l, instruction,          \* set by each lookup
          instruction_length, instruct,  \* set once the selected device is known
          idcode_in_use

vars == <<chain, opt, pc, ChainLength, ndevs, idcodes, device, hir, tir, hdr, tdr,
          instr_l, instruction, instruction_length, instruct, idcode_in_use>>

OptionType == [selected_device : Nat, setBypass : BOOLEAN, skipdetect : BOOLEAN,
               instrlen : Nat, selected_hir : Nat, selected_tir : Nat,
               selected_hdr : Nat, selected_tdr : Nat]
ASSUME OptionAssumption == Options \subseteq OptionType

(* lookupCipList sets instr_l and instruction, with or without a match, and   *)
(* idcode_in_use, to the IDCODE as the list has it, only with one.            *)
LookupLength(id) == IF IsListed(id) THEN Entry(id).len ELSE opt.instrlen
LookupInstruction(id) == IF IsListed(id) THEN Entry(id).chip_IDCODE ELSE INSTR_IDCODE
LookupInUse(id, before) == IF IsListed(id) THEN Entry(id).chip_id ELSE before
Looked(ids, before) == FoldLeft(LAMBDA u, id : LookupInUse(id, u), before, ids)

Lens == [d \in DOMAIN chain |-> chain[d].len]
SumOf(s) == FoldLeft(+, 0, s)

(* What a chain-wide register holds after stream was shifted in behind        *)
(* captured, and the bits that came out.                                      *)
After(captured, stream) ==
  SubSeq(captured \o stream, Len(stream) + 1, Len(captured) + Len(stream))
Out(captured, stream, skip, n) ==
  LET all == captured \o stream IN SubSeq(all, skip + 1, skip + n)

Init == /\ chain \in Chains /\ opt \in Options
        /\ pc = "detectChainLength"
        /\ ChainLength = 0 /\ ndevs = 0 /\ idcodes = <<>> /\ device = 0
        /\ hir = 0 /\ tir = 0 /\ hdr = 0 /\ tdr = 0
        /\ instr_l = 0 /\ instruction = 0 /\ instruction_length = 0 /\ instruct = 0
        /\ idcode_in_use = NoId

-----------------------------------------------------------------------------
(* main runs detectChainLength only for /bypass or without /skipdetect; more  *)
(* than 62 bits cannot be measured and end the program after the retries.     *)
detectChainLength ==
  /\ pc = "detectChainLength"
  /\ IF ~opt.skipdetect \/ opt.setBypass
     THEN /\ ChainLength' = SumOf(Lens)
          /\ pc' = IF SumOf(Lens) \in 1..62 THEN "chip_detect" ELSE "exit"
     ELSE pc' = "chip_detect" /\ UNCHANGED ChainLength
  /\ UNCHANGED <<chain, opt, ndevs, idcodes, device, hir, tir, hdr, tdr,
                 instr_l, instruction, instruction_length, instruct, idcode_in_use>>

(* The options preset the counts.  Without /skipdetect the devices are only   *)
(* listed and the program ends.                                               *)
chip_detect ==
  /\ pc = "chip_detect"
  /\ hir' = opt.selected_hir /\ tir' = opt.selected_tir
  /\ hdr' = opt.selected_hdr /\ tdr' = opt.selected_tdr
  /\ pc' = IF opt.skipdetect THEN "autodetect" ELSE "exit"
  /\ UNCHANGED <<chain, opt, ChainLength, ndevs, idcodes, device,
                 instr_l, instruction, instruction_length, instruct, idcode_in_use>>

(* Up to ten IDCODEs, the one next to TDO first; they are looked up from the  *)
(* last to the first.                                                         *)
MaxDevices == 10
Found == SubSeq([d \in DOMAIN chain |-> chain[d].id], 1,
                IF Len(chain) > MaxDevices THEN MaxDevices ELSE Len(chain))
autodetect ==
  /\ pc = "autodetect"
  /\ ndevs' = Len(Found)
  /\ idcodes' = Found
  /\ IF Found = <<>>
     THEN UNCHANGED <<instr_l, instruction>>
     ELSE /\ instr_l' = LookupLength(Head(Found))
          /\ instruction' = LookupInstruction(Head(Found))
  /\ idcode_in_use' = Looked(Reverse(Found), idcode_in_use)
  /\ pc' = IF Found = <<>> THEN "exit" ELSE "range"
  /\ UNCHANGED <<chain, opt, ChainLength, device, hir, tir, hdr, tdr,
                 instruction_length, instruct>>

(* The check of the selected device; devices are numbered from TDI, so it is  *)
(* turned into a position from TDO.                                           *)
InRange == ~(opt.selected_device > ndevs)
range ==
  /\ pc = "range"
  /\ IF InRange
     THEN /\ device' = ndevs - opt.selected_device - 1
          /\ pc' = "set_tir_hir"
     ELSE pc' = "exit" /\ UNCHANGED device
  /\ UNCHANGED <<chain, opt, ChainLength, ndevs, idcodes, hir, tir, hdr, tdr,
                 instr_l, instruction, instruction_length, instruct, idcode_in_use>>

(* With /bypass the lengths of the other devices are added to what the        *)
(* options preset.  idcodes[d] is idcodes of d + 1 here.                      *)
LengthSum_reversed(D) ==
  SumOf([k \in 1..ndevs |-> IF ndevs - k \in D THEN LookupLength(idcodes[k]) ELSE 0])
LengthSum(D) == SumOf([k \in 1..ndevs |-> IF (k - 1) \in D THEN LookupLength(idcodes[k]) ELSE 0])
set_tir_hir ==
  /\ pc = "set_tir_hir"
  /\ IF opt.setBypass
     THEN /\ tir' = tir + LengthSum({d \in 0..ndevs-1 : d > device})
          /\ hir' = hir + LengthSum({d \in 0..ndevs-1 : d < device})
          /\ idcode_in_use' = Looked(Reverse(idcodes), idcode_in_use)
     ELSE UNCHANGED <<tir, hir, idcode_in_use>>
  /\ pc' = "detectOne"
  /\ UNCHANGED <<chain, opt, ChainLength, ndevs, idcodes, device, hdr, tdr,
                 instr_l, instruction, instruction_length, instruct>>

(* The IDCODE of the selected device is read again, after x clocks; x is an   *)
(* unsigned char, so eight IDCODE registers are as far as it counts.          *)
detectOne ==
  /\ pc = "detectOne"
  /\ LET x == (Width * device) % (8 * Width)
         ids == FlattenSeq([d \in DOMAIN chain |-> chain[d].id])
         id == Out(ids, Zeros(x + Width), x, Width)
     IN  /\ instr_l' = LookupLength(id)
         /\ instruction_length' = LookupLength(id)
         /\ instruction' = LookupInstruction(id)
         /\ instruct' = LookupInstruction(id)
         /\ idcode_in_use' = LookupInUse(id, idcode_in_use)
  /\ pc' = "counts"
  /\ UNCHANGED <<chain, opt, ChainLength, ndevs, idcodes, device, hir, tir, hdr, tdr>>

(* Counts that are still 0 are computed, each from those before it.           *)
counts ==
  /\ pc = "counts"
  /\ hdr' = IF hdr = 0 THEN ndevs - 1 - opt.selected_device ELSE hdr
  /\ tdr' = IF tdr = 0 THEN ndevs - 1 - hdr' ELSE tdr
  /\ IF hir = 0 /\ tir = 0 /\ ndevs # 1
     THEN pc' = "exit" /\ UNCHANGED <<hir, tir>>
     ELSE /\ tir' = IF tir = 0 /\ ChainLength # 0
                    THEN ChainLength - instruction_length - hir ELSE tir
          /\ hir' = IF hir = 0 /\ ChainLength # 0
                    THEN ChainLength - instruction_length - tir' ELSE hir
          /\ pc' = "verify"
  /\ UNCHANGED <<chain, opt, ChainLength, ndevs, idcodes, device,
                 instr_l, instruction, instruction_length, instruct, idcode_in_use>>

(* set_instr(instruct) and ReadData: the instruction registers are shifted    *)
(* from what they capture, 0...01; a device that gets anything but its IDCODE *)
(* instruction goes to BYPASS.                                                *)
Times(n) == IF n > 0 THEN n ELSE 0     \* iterations of a loop up to n
RaisesTms == tir > 0 \/ (tir = 0 /\ instruction_length > 0)
IrStream == Ones(Times(hir)) \o Bits(instruct, instruction_length) \o Ones(Times(tir))
IrCaptured == FlattenSeq([d \in DOMAIN chain |-> Bits(1, chain[d].len)])
IrAfter == After(IrCaptured, IrStream)
IrOf(d) == LET before == SumOf(SubSeq(Lens, 1, d - 1))
           IN  SubSeq(IrAfter, before + 1, before + Lens[d])
Selected(d) == IrOf(d) = Bits(chain[d].IDCODE, Lens[d])
DrCaptured == FlattenSeq([d \in DOMAIN chain |-> IF Selected(d) THEN chain[d].id ELSE <<0>>])

(* Without a bit that raises TMS the registers are not updated: the clock     *)
(* that was to leave Exit1-IR shifts one more bit, the next ends in Pause-IR, *)
(* and the data scan comes back to Shift-IR with a clock that shifts another, *)
(* both with TDI as the last bit left it.  What is read is still the chain's  *)
(* instruction register.                                                      *)
Held == IF IrStream = <<>> THEN 0 ELSE Last(IrStream)
ReadId == IF RaisesTms
          THEN Out(DrCaptured, Zeros(Times(hdr) + Width), Times(hdr), Width)
          ELSE Out(IrAfter, <<Held, Held>> \o Zeros(Times(hdr) + Width), 2 + Times(hdr), Width)
IsWanted_unchecked == TRUE
IsWanted == LookupInUse(ReadId, idcode_in_use) = ReadId
verify ==
  /\ pc = "verify"
  /\ instr_l' = LookupLength(ReadId)
  /\ instruction' = LookupInstruction(ReadId)
  /\ idcode_in_use' = LookupInUse(ReadId, idcode_in_use)
  /\ pc' = IF IsWanted THEN "ready" ELSE "exit"
  /\ UNCHANGED <<chain, opt, ChainLength, ndevs, idcodes, device, hir, tir, hdr, tdr,
                 instruction_length, instruct>>

Stopped == pc \in {"ready", "exit"} /\ UNCHANGED vars

Next == \/ detectChainLength \/ chip_detect \/ autodetect \/ range \/ set_tir_hir
        \/ detectOne \/ counts \/ verify \/ Stopped

Spec == Init /\ [][Next]_vars

-----------------------------------------------------------------------------
(* TypeOK: types, and the array idcodes, of ten, never overflows.             *)
TypeOK ==
  /\ chain \in Chains /\ opt \in Options
  /\ pc \in {"detectChainLength", "chip_detect", "autodetect", "range", "set_tir_hir",
             "detectOne", "counts", "verify", "ready", "exit"}
  /\ ndevs = Len(idcodes) /\ ndevs <= 10
  /\ {ChainLength, instr_l, instruction, instruction_length, instruct} \subseteq Nat
  /\ {device, hir, tir, hdr, tdr} \subseteq Int

(* With these counts every instruction reaches the selected device, no other  *)
(* device takes it for IDCODE, and a data scan frames exactly the register of *)
(* the selected device.                                                       *)
Works ==
  LET sel == ndevs - opt.selected_device
      got(instr, d) ==
        LET before == SumOf(SubSeq(Lens, 1, d - 1))
            all == After(IrCaptured, Ones(Times(hir)) \o instr \o Ones(Times(tir)))
        IN  SubSeq(all, before + 1, before + Lens[d])
  IN  /\ sel \in DOMAIN chain
      /\ instruction_length = chain[sel].len
      /\ \A instr \in [1..instruction_length -> {0, 1}] :
           /\ got(instr, sel) = instr
           /\ \A d \in DOMAIN chain \ {sel} : got(instr, d) # Bits(chain[d].IDCODE, Lens[d])
      /\ hdr = sel - 1 /\ tdr = Len(chain) - sel

SelectedId == chain[Len(chain) - opt.selected_device].id
SomeListed == \E d \in DOMAIN chain : IsListed(chain[d].id)
InChain == device \in 0..ndevs-1

(* AcceptedWorks: a setup that the IDCODE check accepts works, and it was the *)
(* IDCODE of the selected device that was read, if the header and trailer     *)
(* counts on the command line are right or left out: counts that were left    *)
(* out, and that a device the list does not know made wrong, are caught.  The *)
(* one exception is an instruction scan without a bit that raises TMS: what   *)
(* is read then is padding, and the check takes it for an IDCODE if the list  *)
(* has ones followed by zeros, as it has 0x00000001 and 0xFFFFFFFF.           *)
Padding == {Ones(n) \o Zeros(Width - n) : n \in 1..Width}
GivenRight ==
  LET sel == ndevs - opt.selected_device IN
  /\ opt.selected_hir \in {0, SumOf(SubSeq(Lens, 1, sel - 1))}
  /\ opt.selected_tir \in {0, SumOf(SubSeq(Lens, sel + 1, Len(Lens)))}
  /\ opt.selected_hdr \in {0, sel - 1}
  /\ opt.selected_tdr \in {0, Len(chain) - sel}
AcceptedWorks ==
  (pc = "ready" /\ InChain /\ Len(chain) <= MaxDevices /\ SomeListed /\ GivenRight)
    => \/ Works /\ idcode_in_use = SelectedId
       \/ ~RaisesTms /\ idcode_in_use \in Padding

(* KnownChainAccepted: a chain of known chips is accepted with /bypass,       *)
(* whichever device is selected, as far as detectOne can count, eight devices *)
(* from TDO, if the list has the IDCODE of the selected one bit for bit: a    *)
(* revision that the mask hides is refused.                                   *)
KnownChainAccepted ==
  (/\ pc = "exit"
   /\ Len(chain) <= MaxDevices
   /\ opt.selected_device \in Len(chain) - 8 .. Len(chain) - 1
   /\ \A d \in DOMAIN chain : IsListed(chain[d].id)
   /\ opt.skipdetect /\ opt.setBypass
   /\ opt.selected_hir = 0 /\ opt.selected_tir = 0
   /\ opt.selected_hdr = 0 /\ opt.selected_tdr = 0)
  => ~ \E k \in DOMAIN Listed : Listed[k].chip_id = SelectedId
==============================================================================
