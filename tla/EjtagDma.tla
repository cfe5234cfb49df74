------------------------------ MODULE EjtagDma ------------------------------
(* Memory access through the EJTAG DMA engine: ejtag_dma_read, _read_h,       *)
(* _write and _write_h of wrt54g.c.  A call sets ADDRESS (and DATA), starts   *)
(* the engine with a CONTROL scan, polls DSTRT, and repeats everything when   *)
(* DERR shows an error.  The engine is external and takes its time; an access *)
(* that fails may or may not have reached memory.  One scan of the JTAG layer *)
(* is atomic (JtagDriver shows why).                                          *)
EXTENDS Naturals

CONSTANTS Words,           \* the word addresses: word w is cells 2w and 2w+1
          Half, Zero,      \* values of a halfword; all bits 0
          RETRY_ATTEMPTS   \* 16

ASSUME DmaAssumption == Words \subseteq Nat /\ Zero \in Half /\ RETRY_ATTEMPTS \in Nat

VARIABLES pc,        \* the scan that the host does next
          call,      \* the call in progress
          retries,   \* its local variable
          data,      \* its local variable: the word read
          ret,       \* what the last read returned
          tainted,   \* history: the call failed when no retry was left
          address_register, data_register,   \* of the target's EJTAG unit
          dma,       \* its engine: DSTRT, DERR, DRWN and the size
          mem        \* the target's memory, by halfwords

hostVars == <<pc, call, retries, data, ret, tainted>>
chipVars == <<address_register, data_register, dma, mem>>
vars == <<hostVars, chipVars>>

Cells == {2 * w : w \in Words} \cup {2 * w + 1 : w \in Words}
Word == Half \X Half

(* A word call goes to an even cell; the data of a halfword call is a word on *)
(* the bus, of which the address picks the lane.                              *)
Calls == {c \in [op : {"read", "write"}, size : {"word", "half"}, addr : Cells, data : Word] :
            c.size = "word" => c.addr % 2 = 0}
NoCall == [op |-> "none"]

Lane(word, c) == word[1 + (c % 2)]
Pair(m, w) == <<m[2 * w], m[2 * w + 1]>>
(* The engine. *)
Hit(size, a) == IF size = "word" THEN {a, a + 1} ELSE {a}
Put(m, size, a, word) == [c \in Cells |-> IF c \in Hit(size, a) THEN Lane(word, c) ELSE m[c]]

Init == /\ pc = "idle" /\ call = NoCall /\ retries = 0
        /\ data = <<Zero, Zero>> /\ ret = <<Zero, Zero>> /\ tainted = FALSE
        /\ address_register \in Cells /\ data_register \in Word
        /\ dma = [DSTRT |-> FALSE, DERR |-> FALSE, DRWN |-> TRUE, size |-> "word"]
        /\ mem \in [Cells -> Half]

-----------------------------------------------------------------------------
Request(op, size) ==
  /\ pc = "idle"
  /\ \E a \in Cells, d \in Word :
       /\ call' = [op |-> op, size |-> size, addr |-> a, data |-> d]
       /\ call' \in Calls
  /\ retries' = RETRY_ATTEMPTS
  /\ tainted' = FALSE
  /\ pc' = "address"
  /\ UNCHANGED <<data, ret, chipVars>>

ejtag_dma_read    == Request("read", "word")
ejtag_dma_read_h  == Request("read", "half")
ejtag_dma_write   == Request("write", "word")
ejtag_dma_write_h == Request("write", "half")

(* set_instr(INSTR_ADDRESS); WriteData(addr): the label of the retry. *)
SetAddress_stale ==
  /\ pc = "address"
  /\ pc' = IF call.op = "write" THEN "data" ELSE "start"
  /\ UNCHANGED <<call, retries, data, ret, tainted, address_register, data_register, dma, mem>>
SetAddress_resets ==
  /\ pc = "address"
  /\ address_register' = call.addr
  /\ retries' = RETRY_ATTEMPTS
  /\ pc' = IF call.op = "write" THEN "data" ELSE "start"
  /\ UNCHANGED <<call, data, ret, tainted, data_register, dma, mem>>
SetAddress ==
  /\ pc = "address"
  /\ address_register' = call.addr
  /\ pc' = IF call.op = "write" THEN "data" ELSE "start"
  /\ UNCHANGED <<call, retries, data, ret, tainted, data_register, dma, mem>>

SetData ==
  /\ pc = "data"
  /\ data_register' = call.data
  /\ pc' = "start"
  /\ UNCHANGED <<call, retries, data, ret, tainted, address_register, dma, mem>>

(* The CONTROL scan with DMAACC and DSTRT; a new access clears DERR. *)
Start ==
  /\ pc = "start"
  /\ dma' = [DSTRT |-> TRUE, DERR |-> FALSE, DRWN |-> call.op = "read", size |-> call.size]
  /\ pc' = "wait"
  /\ UNCHANGED <<call, retries, data, ret, tainted, address_register, data_register, mem>>

(* One turn of the while loop on DSTRT. *)
StillBusy_ignored == FALSE
StillBusy == dma.DSTRT
Wait ==
  /\ pc = "wait"
  /\ pc' = IF StillBusy THEN "wait" ELSE IF call.op = "read" THEN "fetch" ELSE "clear"
  /\ UNCHANGED <<call, retries, data, ret, tainted, chipVars>>

(* ReadData of DATA: a data scan shifts zeros in while it shifts out.         *)
FetchData ==
  /\ pc = "fetch"
  /\ data' = data_register
  /\ data_register' = <<Zero, Zero>>
  /\ pc' = "clear"
  /\ UNCHANGED <<call, retries, ret, tainted, address_register, dma, mem>>

(* The CONTROL scan that clears DMAACC and shows DERR. *)
RetryLeft_any == retries >= 0
RetryLeft == retries > 0
Retry ==
  /\ pc = "clear" /\ dma.DERR /\ RetryLeft
  /\ retries' = retries - 1
  /\ pc' = "address"
  /\ UNCHANGED <<call, data, ret, tainted, chipVars>>

(* ... after which the call returns, with a message on the screen if there    *)
(* was an error and no retry is left, and without any other sign of it.       *)
Picked_low(word, a) == word[1]
Picked(word, a) == IF a % 2 = 1 THEN word[2] ELSE word[1]
Return ==
  /\ pc = "clear" /\ (dma.DERR => ~RetryLeft)
  /\ ret' = IF call.op = "write" THEN ret
            ELSE IF call.size = "word" THEN data ELSE Picked(data, call.addr)
  /\ call' = NoCall /\ pc' = "idle"
  /\ UNCHANGED <<retries, data, tainted, chipVars>>

HostStep == SetAddress \/ SetData \/ Start \/ Wait \/ FetchData \/ Retry \/ Return

-----------------------------------------------------------------------------
(* The engine ends its access, well or with an error. *)
EngineStep ==
  /\ dma.DSTRT
  /\ \E error \in BOOLEAN, reached \in BOOLEAN :
       /\ dma' = [dma EXCEPT !.DSTRT = FALSE, !.DERR = error]
       /\ ~error => reached
       /\ mem' = IF ~dma.DRWN /\ reached
                 THEN Put(mem, dma.size, address_register, data_register) ELSE mem
       /\ \/ dma.DRWN /\ ~error /\ data_register' = Pair(mem, address_register \div 2)
          \/ dma.DRWN /\ error /\ data_register' \in Word
          \/ ~dma.DRWN /\ UNCHANGED data_register
       /\ tainted' = (error /\ retries = 0)
  /\ UNCHANGED <<pc, call, retries, data, ret, address_register>>

Next == \/ ejtag_dma_read \/ ejtag_dma_read_h \/ ejtag_dma_write \/ ejtag_dma_write_h
        \/ HostStep \/ EngineStep

Spec == Init /\ [][Next]_vars

-----------------------------------------------------------------------------
(* TypeOK: types; retries never runs below zero.                              *)
TypeOK ==
  /\ pc \in {"idle", "address", "data", "start", "wait", "fetch", "clear"}
  /\ call \in Calls \cup {NoCall}
  /\ retries \in 0..RETRY_ATTEMPTS
  /\ data \in Word /\ ret \in Word \cup Half /\ tainted \in BOOLEAN
  /\ address_register \in Cells /\ data_register \in Word
  /\ dma \in [DSTRT : BOOLEAN, DERR : BOOLEAN, DRWN : BOOLEAN, size : {"word", "half"}]
  /\ mem \in [Cells -> Half]

(* EngineServesCall: while the engine runs, its registers are those of the    *)
(* call in progress and the host leaves them alone: no scan of a later        *)
(* attempt or of the read out overtakes the poll of DSTRT.                    *)
EngineServesCall ==
  dma.DSTRT => /\ pc = "wait"
               /\ address_register = call.addr
               /\ dma.size = call.size /\ dma.DRWN = (call.op = "read")
               /\ call.op = "write" => data_register = call.data

(* OnlyRequestedCells: even with errors and retries, memory changes at the    *)
(* cells of a write call and nowhere else.                                    *)
OnlyRequestedCells ==
  [][\A c \in Cells : mem'[c] # mem[c] =>
       call.op = "write" /\ c \in Hit(call.size, call.addr)]_vars

(* AccessSpec: the four functions are atomic accesses to memory, of a word or *)
(* of the halfword that the address picks, unless the last attempt failed.    *)
Stored(m, c) == Put(m, c.size, c.addr, c.data)
Loaded(m, c) == IF c.size = "word" THEN Pair(m, c.addr \div 2) ELSE m[c.addr]
Access == INSTANCE MemAccess WITH Memory <- [Cells -> Half], Result <- Word \cup Half
AccessSpec == Access!Spec
==============================================================================
