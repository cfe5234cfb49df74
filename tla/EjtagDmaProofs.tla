--------------------------- MODULE EjtagDmaProofs ----------------------------
(* Proofs about EjtagDma, for every memory and every number of retries.       *)
(*                                                                            *)
(* The argument: the engine is off but for the wait of the host; from each    *)
(* scan on, the register it set holds what the call asked for; so what the    *)
(* engine does, it does for the call, and a write that is done twice leaves   *)
(* what it left the first time.                                               *)
EXTENDS EjtagDma, TLAPS

(* The engine is through with an access of this call. *)
Through == pc \in {"wait", "fetch", "clear"} /\ ~dma.DSTRT

CallInv ==
  /\ pc = "idle" <=> call = NoCall
  /\ pc = "data" => call.op = "write"
  /\ pc = "fetch" => call.op = "read"

(* Which of the target's registers hold the call's values at which scan.      *)
RegistersInv ==
  /\ dma.DSTRT => pc = "wait"
  /\ pc \in {"data", "start", "wait", "fetch", "clear"} => address_register = call.addr
  /\ pc \in {"start", "wait", "clear"} /\ call.op = "write" => data_register = call.data
  /\ pc \in {"wait", "fetch", "clear"} => /\ dma.size = call.size
                                         /\ dma.DRWN = (call.op = "read")

(* What an access without an error has brought about. *)
ResultInv ==
  Through /\ ~dma.DERR =>
    /\ call.op = "write" => mem = Stored(mem, call)
    /\ call.op = "read" /\ pc # "clear" => data_register = Pair(mem, call.addr \div 2)
    /\ call.op = "read" /\ pc = "clear" => data = Pair(mem, call.addr \div 2)

TaintInv == pc # "idle" => tainted = (Through /\ dma.DERR /\ retries = 0)

DmaInv == TypeOK /\ CallInv /\ RegistersInv /\ ResultInv /\ TaintInv

-----------------------------------------------------------------------------
(* The cells of a word, and what is in them. *)
LEMMA CellsOfWord ==
  ASSUME NEW a \in Cells
  PROVE  /\ a \in Nat
         /\ 2 * (a \div 2) \in Cells /\ 2 * (a \div 2) + 1 \in Cells
         /\ a % 2 \in {0, 1}
BY DmaAssumption DEF Cells

LEMMA PairType ==
  ASSUME NEW m \in [Cells -> Half], NEW a \in Cells
  PROVE  Pair(m, a \div 2) \in Word
BY CellsOfWord DEF Pair, Word

LEMMA LaneType ==
  ASSUME NEW w \in Word, NEW c \in Cells
  PROVE  Lane(w, c) \in Half
<1>1. c % 2 \in {0, 1} BY CellsOfWord
<1>2. w[1] \in Half /\ w[2] \in Half BY DEF Word
<1> QED BY <1>1, <1>2 DEF Lane

LEMMA PutType ==
  ASSUME NEW m \in [Cells -> Half], NEW size, NEW a, NEW w \in Word
  PROVE  Put(m, size, a, w) \in [Cells -> Half]
BY LaneType DEF Put

(* A write that is repeated leaves what it left the first time. *)
LEMMA PutTwice ==
  ASSUME NEW m, NEW size, NEW a, NEW w
  PROVE  Put(Put(m, size, a, w), size, a, w) = Put(m, size, a, w)
BY DEF Put

LEMMA CallFields ==
  ASSUME NEW c \in Calls
  PROVE  /\ c.op \in {"read", "write"} /\ c.size \in {"word", "half"}
         /\ c.addr \in Cells /\ c.data \in Word
         /\ c # NoCall
BY DEF Calls, NoCall

-----------------------------------------------------------------------------
LEMMA DmaInit == Init => DmaInv
<1> SUFFICES ASSUME Init PROVE DmaInv
  OBVIOUS
<1>1. <<Zero, Zero>> \in Word BY DmaAssumption DEF Word
<1>2. retries \in 0..RETRY_ATTEMPTS BY DmaAssumption DEF Init
<1>3. TypeOK BY <1>1, <1>2 DEF Init, TypeOK
<1> QED BY <1>3 DEF Init, DmaInv, CallInv, RegistersInv, ResultInv, TaintInv, Through

(* A call begins. *)
LEMMA RequestKeeps ==
  ASSUME DmaInv, NEW op, NEW size, Request(op, size)
  PROVE  DmaInv'
<1> USE DEF DmaInv, Request, chipVars
<1>1. call' \in Calls /\ call' # NoCall BY CallFields
<1>2. retries' \in 0..RETRY_ATTEMPTS BY DmaAssumption
<1>3. TypeOK' BY <1>1, <1>2 DEF TypeOK
<1>4. CallInv' BY <1>1 DEF CallInv
<1>5. RegistersInv' BY DEF RegistersInv
<1>6. ResultInv' /\ TaintInv' BY DEF ResultInv, TaintInv, Through
<1> QED BY <1>3, <1>4, <1>5, <1>6

(* The scans before the engine starts. *)
LEMMA SetKeeps ==
  ASSUME DmaInv, SetAddress \/ SetData
  PROVE  DmaInv'
<1> USE DEF DmaInv, SetAddress, SetData
<1>1. call \in Calls BY DEF TypeOK, CallInv
<1>2. /\ call.op \in {"read", "write"} /\ call.addr \in Cells /\ call.data \in Word
      /\ call # NoCall
  BY <1>1, CallFields
<1>3. TypeOK' BY <1>2 DEF TypeOK
<1>4. CallInv' BY <1>2 DEF CallInv
<1>5. RegistersInv' BY <1>2 DEF RegistersInv
<1>6. ResultInv' /\ TaintInv' BY DEF ResultInv, TaintInv, Through
<1> QED BY <1>3, <1>4, <1>5, <1>6

LEMMA StartKeeps ==
  ASSUME DmaInv, Start
  PROVE  DmaInv'
<1> USE DEF DmaInv, Start
<1>1. call \in Calls BY DEF TypeOK, CallInv
<1>2. call.op \in {"read", "write"} /\ call.size \in {"word", "half"} /\ call # NoCall
  BY <1>1, CallFields
<1>3. TypeOK' BY <1>2 DEF TypeOK
<1>4. CallInv' BY <1>2 DEF CallInv
<1>5. RegistersInv' BY <1>2 DEF RegistersInv
<1>6. ResultInv' /\ TaintInv' BY DEF ResultInv, TaintInv, Through
<1> QED BY <1>3, <1>4, <1>5, <1>6

(* The poll, the read out and the retry. *)
LEMMA AfterKeeps ==
  ASSUME DmaInv, Wait \/ FetchData \/ Retry
  PROVE  DmaInv'
<1> USE DEF DmaInv
<1>1. call \in Calls BY DEF Wait, FetchData, Retry, TypeOK, CallInv
<1>2. call.op \in {"read", "write"} /\ call # NoCall BY <1>1, CallFields
<1>3. CASE Wait
  <2> USE <1>3 DEF Wait, StillBusy, chipVars
  <2>1. TypeOK' BY DEF TypeOK
  <2>2. CallInv' /\ RegistersInv' BY <1>2 DEF CallInv, RegistersInv
  <2>3. ResultInv' BY <1>2 DEF ResultInv, Through, Stored
  <2>4. TaintInv' BY <1>2 DEF TaintInv, Through
  <2> QED BY <2>1, <2>2, <2>3, <2>4
<1>4. CASE FetchData
  <2> USE <1>4 DEF FetchData
  <2>1. TypeOK' BY DmaAssumption DEF TypeOK, Word
  <2>2. CallInv' /\ RegistersInv' BY <1>2 DEF CallInv, RegistersInv
  <2>3. ResultInv' BY <1>2 DEF ResultInv, Through, CallInv
  <2>4. TaintInv' BY <1>2 DEF TaintInv, Through
  <2> QED BY <2>1, <2>2, <2>3, <2>4
<1>5. CASE Retry
  <2> USE <1>5 DEF Retry, RetryLeft, chipVars
  <2>1. retries' \in 0..RETRY_ATTEMPTS /\ retries # 0
    <3>1. retries \in 0..RETRY_ATTEMPTS BY DEF TypeOK
    <3> QED BY <3>1, DmaAssumption
  <2>2. TypeOK' BY <2>1 DEF TypeOK
  <2>3. CallInv' /\ RegistersInv' BY <1>2 DEF CallInv, RegistersInv
  <2>4. ResultInv' BY DEF ResultInv, Through
  <2>5. TaintInv' BY <2>1 DEF TaintInv, Through
  <2> QED BY <2>2, <2>3, <2>4, <2>5
<1> QED BY <1>3, <1>4, <1>5

LEMMA ReturnKeeps ==
  ASSUME DmaInv, Return
  PROVE  DmaInv'
<1> USE DEF DmaInv, Return, chipVars
<1>1. call \in Calls BY DEF TypeOK, CallInv
<1>2. ret' \in Word \cup Half
  <2>1. data \in Word /\ ret \in Word \cup Half BY DEF TypeOK
  <2>2. Picked(data, call.addr) \in Half BY <2>1 DEF Picked, Word
  <2> QED BY <2>1, <2>2
<1>3. TypeOK' BY <1>2 DEF TypeOK
<1>4. CallInv' /\ RegistersInv' BY DEF CallInv, RegistersInv
<1>5. ResultInv' /\ TaintInv' BY DEF ResultInv, TaintInv, Through
<1> QED BY <1>3, <1>4, <1>5

(* The engine works for the call, with the registers of the call. *)
LEMMA EngineFacts ==
  ASSUME DmaInv, EngineStep
  PROVE  /\ pc = "wait" /\ call \in Calls /\ call # NoCall
         /\ address_register = call.addr /\ dma.size = call.size
         /\ dma.DRWN = (call.op = "read")
         /\ call.op = "write" => data_register = call.data
         /\ ~tainted
BY DEF DmaInv, EngineStep, TypeOK, CallInv, RegistersInv, TaintInv, Through

LEMMA EngineKeeps ==
  ASSUME DmaInv, EngineStep
  PROVE  DmaInv'
<1> USE DEF DmaInv
<1>1. /\ pc = "wait" /\ call \in Calls /\ call # NoCall
      /\ address_register = call.addr /\ dma.size = call.size
      /\ dma.DRWN = (call.op = "read")
      /\ call.op = "write" => data_register = call.data
  BY EngineFacts
<1>2. call.op \in {"read", "write"} /\ call.addr \in Cells /\ call.data \in Word
  BY <1>1, CallFields
<1>3. PICK error \in BOOLEAN, reached \in BOOLEAN :
       /\ dma' = [dma EXCEPT !.DSTRT = FALSE, !.DERR = error]
       /\ ~error => reached
       /\ mem' = IF ~dma.DRWN /\ reached
                 THEN Put(mem, dma.size, address_register, data_register) ELSE mem
       /\ \/ dma.DRWN /\ ~error /\ data_register' = Pair(mem, address_register \div 2)
          \/ dma.DRWN /\ error /\ data_register' \in Word
          \/ ~dma.DRWN /\ UNCHANGED data_register
       /\ tainted' = (error /\ retries = 0)
  BY DEF EngineStep
<1>4. UNCHANGED <<pc, call, retries, data, ret, address_register>> BY DEF EngineStep
<1>5. /\ dma'.DSTRT = FALSE /\ dma'.DERR = error
      /\ dma'.DRWN = dma.DRWN /\ dma'.size = dma.size
  BY <1>3 DEF TypeOK
<1>6. TypeOK'
  <2>1. dma' \in [DSTRT : BOOLEAN, DERR : BOOLEAN, DRWN : BOOLEAN, size : {"word", "half"}]
    BY <1>3 DEF TypeOK
  <2>2. mem' \in [Cells -> Half] BY <1>3, PutType DEF TypeOK
  <2>3. data_register' \in Word BY <1>3, PairType DEF TypeOK
  <2> QED BY <1>3, <1>4, <2>1, <2>2, <2>3 DEF TypeOK
<1>7. CallInv' BY <1>1, <1>4 DEF CallInv
<1>8. RegistersInv' BY <1>1, <1>3, <1>4, <1>5 DEF RegistersInv
<1>9. ResultInv'
  <2>1. CASE call.op = "write" /\ ~error
    <3>1. mem' = Put(mem, call.size, call.addr, call.data) BY <1>1, <1>3, <2>1
    <3>2. Put(mem', call.size, call.addr, call.data) = mem' BY <3>1, PutTwice
    <3> QED BY <1>4, <2>1, <3>2 DEF ResultInv, Stored
  <2>2. CASE call.op = "read" /\ ~error
    <3>1. mem' = mem /\ data_register' = Pair(mem, call.addr \div 2) BY <1>1, <1>3, <2>2
    <3> QED BY <1>1, <1>4, <2>2, <3>1 DEF ResultInv
  <2>3. CASE error BY <1>5, <2>3 DEF ResultInv
  <2> QED BY <1>2, <2>1, <2>2, <2>3
<1>10. TaintInv' BY <1>1, <1>3, <1>4, <1>5 DEF TaintInv, Through
<1> QED BY <1>6, <1>7, <1>8, <1>9, <1>10

LEMMA DmaStep == DmaInv /\ [Next]_vars => DmaInv'
<1> SUFFICES ASSUME DmaInv, [Next]_vars
             PROVE  DmaInv'
  OBVIOUS
<1>1. CASE ejtag_dma_read \/ ejtag_dma_read_h \/ ejtag_dma_write \/ ejtag_dma_write_h
  BY <1>1, RequestKeeps
     DEF ejtag_dma_read, ejtag_dma_read_h, ejtag_dma_write, ejtag_dma_write_h
<1>2. CASE HostStep
  BY <1>2, SetKeeps, StartKeeps, AfterKeeps, ReturnKeeps DEF HostStep
<1>3. CASE EngineStep
  BY <1>3, EngineKeeps
<1>4. CASE UNCHANGED vars
  BY <1>4 DEF vars, hostVars, chipVars, DmaInv, TypeOK, CallInv, RegistersInv, ResultInv,
              TaintInv, Through, Stored
<1> QED BY <1>1, <1>2, <1>3, <1>4 DEF Next

LEMMA Dma == Spec => []DmaInv
BY DmaInit, DmaStep, PTL DEF Spec

-----------------------------------------------------------------------------
(* The types of the host's and the engine's state; retries never runs below   *)
(* zero, however often DERR comes back.                                       *)
THEOREM DmaTypeCorrect == Spec => []TypeOK
<1>1. DmaInv => TypeOK BY DEF DmaInv
<1> QED BY <1>1, Dma, PTL

(* While the engine runs, the registers it works from are those of the call   *)
(* in progress, in the first attempt and in every retry.                      *)
THEOREM ServesCall == Spec => []EngineServesCall
<1>1. DmaInv => EngineServesCall BY DEF DmaInv, RegistersInv, EngineServesCall
<1> QED BY <1>1, Dma, PTL

(* Memory changes at the cells of a write call only, errors or not.           *)
THEOREM OnlyRequested == Spec => OnlyRequestedCells
<1> DEFINE Kept == \A c \in Cells : mem'[c] # mem[c] =>
                     call.op = "write" /\ c \in Hit(call.size, call.addr)
<1>1. DmaInv /\ [Next]_vars => [Kept]_vars
  <2> SUFFICES ASSUME DmaInv, Next PROVE Kept
    OBVIOUS
  <2>1. CASE EngineStep
    <3>1. /\ address_register = call.addr /\ dma.size = call.size
          /\ dma.DRWN = (call.op = "read") /\ call \in Calls
      BY <2>1, EngineFacts
    <3>2. \/ mem' = mem
          \/ ~dma.DRWN /\ mem' = Put(mem, dma.size, address_register, data_register)
      BY <2>1 DEF EngineStep
    <3>3. call.op \in {"read", "write"} BY <3>1, CallFields
    <3> QED BY <3>1, <3>2, <3>3 DEF Put
  <2>2. CASE ~EngineStep
    <3>1. mem' = mem
      BY <2>2 DEF Next, ejtag_dma_read, ejtag_dma_read_h, ejtag_dma_write,
                  ejtag_dma_write_h, Request, HostStep, SetAddress, SetData, Start, Wait,
                  FetchData, Retry, Return, chipVars
    <3> QED BY <3>1
  <2> QED BY <2>1, <2>2
<1> QED BY <1>1, Dma, PTL DEF Spec, OnlyRequestedCells

-----------------------------------------------------------------------------
(* The four functions implement atomic accesses to one word or halfword.      *)
LEMMA AccessInit == Init => Access!Init
<1>1. <<Zero, Zero>> \in Word BY DmaAssumption DEF Word
<1> QED BY <1>1 DEF Init, Access!Init, NoCall, Access!NoCall

LEMMA AccessStep == DmaInv /\ [Next]_vars => [Access!Next]_Access!vars
<1> SUFFICES ASSUME DmaInv, [Next]_vars
             PROVE  [Access!Next]_Access!vars
  OBVIOUS
<1> USE DEF Access!vars, Access!Next
<1>1. CASE ejtag_dma_read \/ ejtag_dma_read_h \/ ejtag_dma_write \/ ejtag_dma_write_h
  <2>1. Access!Request
    BY <1>1 DEF Access!Request, Access!NoCall, NoCall, DmaInv, CallInv, ejtag_dma_read,
                ejtag_dma_read_h, ejtag_dma_write, ejtag_dma_write_h, Request, chipVars
  <2> QED BY <2>1
<1>2. CASE SetAddress \/ SetData \/ Start \/ Wait \/ FetchData \/ Retry
  BY <1>2 DEF SetAddress, SetData, Start, Wait, FetchData, Retry, chipVars
<1>3. CASE Return
  <2> USE <1>3 DEF Return
  <2>1. call \in Calls /\ call # NoCall BY CallFields DEF DmaInv, TypeOK, CallInv
  <2>2. call.op \in {"read", "write"} /\ call.size \in {"word", "half"}
    BY <2>1, CallFields
  <2>3. ret' \in Word \cup Half BY ReturnKeeps DEF DmaInv, TypeOK
  <2>4. CASE tainted
    <3>1. Access!Return
      BY <2>1, <2>3, <2>4 DEF Access!Return, Access!NoCall, NoCall, chipVars
    <3> QED BY <3>1
  <2>5. CASE ~tainted
    <3>1. ~dma.DSTRT BY DEF DmaInv, RegistersInv
    <3>2. ~dma.DERR
      BY <2>5, <3>1 DEF DmaInv, TaintInv, Through, TypeOK, RetryLeft
    <3>3. CASE call.op = "write"
      <4>1. mem = Stored(mem, call) /\ ret' = ret
        BY <3>1, <3>2, <3>3 DEF DmaInv, ResultInv, Through
      <4>2. Access!Return
        BY <2>1, <2>5, <3>3, <4>1 DEF Access!Return, Access!NoCall, NoCall, chipVars
      <4> QED BY <4>2
    <3>4. CASE call.op = "read"
      <4>1. data = Pair(mem, call.addr \div 2)
        BY <3>1, <3>2, <3>4 DEF DmaInv, ResultInv, Through
      <4>2. ret' = Loaded(mem, call)
        <5>1. CASE call.size = "word" BY <3>4, <4>1, <5>1 DEF Loaded
        <5>2. CASE call.size = "half"
          <6>1. call.addr \in Cells BY <2>1, CallFields
          <6>2. Picked(data, call.addr) = mem[call.addr]
            BY <4>1, <6>1, DmaAssumption DEF Picked, Pair, Cells
          <6> QED BY <3>4, <5>2, <6>2 DEF Loaded
        <5> QED BY <2>2, <5>1, <5>2
      <4>3. Access!Return
        BY <2>1, <2>5, <3>4, <4>2 DEF Access!Return, Access!NoCall, NoCall, chipVars
      <4> QED BY <4>3
    <3> QED BY <2>2, <3>3, <3>4
  <2> QED BY <2>4, <2>5
<1>4. CASE EngineStep
  <2>1. /\ call \in Calls /\ address_register = call.addr /\ dma.size = call.size
        /\ dma.DRWN = (call.op = "read")
        /\ call.op = "write" => data_register = call.data
        /\ ~tainted
    BY <1>4, EngineFacts
  <2>2. call.op \in {"read", "write"} BY <2>1, CallFields
  <2>3. tainted' \in BOOLEAN /\ UNCHANGED <<call, ret>> BY <1>4 DEF EngineStep
  <2>4. CASE mem' = mem
    <3>1. CASE tainted' BY <2>3, <2>4, <3>1 DEF Access!Taint
    <3>2. CASE ~tainted'
      <4>1. tainted' = tainted BY <2>1, <2>3, <3>2 DEF DmaInv, TypeOK
      <4> QED BY <2>3, <2>4, <4>1
    <3> QED BY <3>1, <3>2
  <2>5. CASE mem' # mem
    <3>1. ~dma.DRWN /\ mem' = Put(mem, dma.size, address_register, data_register)
      BY <1>4, <2>5 DEF EngineStep
    <3>2. call.op = "write" BY <2>1, <2>2, <3>1
    <3>3. mem' = Stored(mem, call) BY <2>1, <3>1, <3>2 DEF Stored
    <3>4. Access!Write BY <2>1, <2>3, <3>2, <3>3 DEF Access!Write
    <3> QED BY <3>4
  <2> QED BY <2>4, <2>5
<1>5. CASE UNCHANGED vars
  BY <1>5 DEF vars, hostVars, chipVars
<1> QED BY <1>1, <1>2, <1>3, <1>4, <1>5 DEF Next, HostStep

(* ejtag_dma_read, _read_h, _write and _write_h are, for every memory and     *)
(* number of retries, the atomic accesses that their callers take them for,   *)
(* unless the last attempt failed.                                            *)
THEOREM ImplementsAccess == Spec => AccessSpec
<1> QED BY AccessInit, AccessStep, Dma, PTL DEF Spec, AccessSpec, Access!Spec
==============================================================================
