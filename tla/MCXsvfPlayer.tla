---------------------------- MODULE MCXsvfPlayer ----------------------------
(* Bytes of two bits: unsigned chars of four values, lenVals of three bytes,  *)
(* so that a carry passes a byte in the middle and a mask has bits in two,    *)
(* and one of four, which are more than an unsigned char counts.              *)
EXTENDS XsvfPlayer

MCStates == TapStates \cup {NoState}
MCWaitStates == {"TEST_LOGIC_RESET", "RUN_TEST_IDLE", "SHIFT_DR", "PAUSE_IR"}
MCMasks == {[address |-> <<0, 0, 3>>, data |-> <<0, 1, 2>>],
            [address |-> <<0, 0, 0, 1>>, data |-> <<0, 0, 0, 1>>]}
MCData == {<<1, 3, 3>>, <<0, 0, 0, 0>>}
==============================================================================
