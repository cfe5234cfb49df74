------------------------------- MODULE Lenval -------------------------------
(* The arithmetic of the XSVF player on its data (lenval.c and                *)
(* xsvfDoSDRMasking): a lenVal is a sequence of bytes, the most significant   *)
(* one first.                                                                 *)
EXTENDS Integers, Sequences, SequencesExt

CONSTANTS Bits,      \* of a byte, 8 in the program
          Bytes      \* length of the lenVals that IncrementIsExact is about

ASSUME LenvalAssumption == Bits \in Nat \ {0} /\ Bytes \in Nat \ {0}

Byte == 0..(2^Bits - 1)
LenVal(n) == [1..n -> Byte]
value(lv) == FoldLeft(LAMBDA sum, byte : sum * 2^Bits + byte, 0, lv)
(* xsvfGetAsNumBytes *)
NumBytes(bits) == (bits + Bits - 1) \div Bits

(* addVal: byte by byte from the last, with the carry of the one behind. *)
Carry(a, b) ==
  LET c[i \in 1..(Len(a) + 1)] ==
        IF i > Len(a) THEN 0 ELSE IF a[i] + b[i] + c[i + 1] > 2^Bits - 1 THEN 1 ELSE 0
  IN  c
addVal(a, b) == [i \in 1..Len(a) |-> (a[i] + b[i] + Carry(a, b)[i + 1]) % 2^Bits]

(* xsvfDoSDRMasking, after the addition: the bits of the data mask, the last  *)
(* byte first and its least significant bit first, each take the next bit of  *)
(* the new data, in the same order.  ucNextMask runs out of its byte to 0.    *)
(* The comment on XSDRINC has the two the other way round (micro.c:1398).     *)
BitOf(byte, mask) == (byte \div mask) % 2
DataBits(mask) == FoldLeft(LAMBDA n, byte :
                    n + FoldLeft(LAMBDA m, k : m + BitOf(byte, 2^k), 0, [k \in 1..Bits |-> k - 1]),
                    0, mask)
TakeBit(s, byte, bit, next) ==
  LET fetch == s.nextMask = 0
      data == IF fetch THEN next[s.left] ELSE s.data
      nextMask == IF fetch THEN 1 ELSE s.nextMask IN
  [tdi |-> [s.tdi EXCEPT ![byte] = @ + bit * (BitOf(data, nextMask) - BitOf(@, bit))],
   data |-> data, nextMask |-> (nextMask * 2) % 2^Bits,
   left |-> IF fetch THEN s.left - 1 ELSE s.left]
Masked(tdi, next, mask) ==
  LET places == [k \in 1..(Len(mask) * Bits) |->
                   [byte |-> Len(mask) - (k - 1) \div Bits, bit |-> 2^((k - 1) % Bits)]]
  IN  FoldLeft(LAMBDA s, p : IF BitOf(mask[p.byte], p.bit) = 1
                             THEN TakeBit(s, p.byte, p.bit, next) ELSE s,
               [tdi |-> tdi, data |-> 0, nextMask |-> 0, left |-> Len(next)], places).tdi
xsvfDoSDRMasking_addLast(tdi, next, address, mask) == addVal(Masked(tdi, next, mask), address)
xsvfDoSDRMasking(tdi, next, address, mask) == Masked(addVal(tdi, address), next, mask)

-----------------------------------------------------------------------------
(* What both do, on the numbers. *)
Width == Bytes * Bits
MaskBitsBelow(mask, k) == FoldLeft(LAMBDA n, i : n + BitOf(mask, 2^i), 0, [i \in 1..k |-> i - 1])
IsIncrement(tdi, address, mask, next, result) ==
  LET width == Len(tdi) * Bits
      sum == (value(tdi) + value(address)) % 2^width
      replaced == value(mask) IN
  \A k \in 0..(width - 1) :
    BitOf(value(result), 2^k) =
      IF BitOf(replaced, 2^k) = 1 THEN BitOf(value(next), 2^MaskBitsBelow(replaced, k))
      ELSE BitOf(sum, 2^k)
SumIsExact ==
  \A a, b \in LenVal(Bytes) : value(addVal(a, b)) = (value(a) + value(b)) % 2^Width
MaskingIsExact ==
  \A b \in Byte, mask \in LenVal(Bytes) : \A next \in LenVal(NumBytes(DataBits(mask))) :
    LET tdi == [k \in 1..Bytes |-> b] IN
    IsIncrement(tdi, [k \in 1..Bytes |-> 0], mask, next, Masked(tdi, next, mask))
==============================================================================
