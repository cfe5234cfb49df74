----------------------------- MODULE PrAccProofs -----------------------------
(* Proofs about PrAcc, for every memory, every set of words and every number  *)
(* of polls and retries: what the runs of MCPrAcc find on two addresses.      *)
(*                                                                            *)
(* The argument: the first fetch from the debug vector that the host answers  *)
(* (finished = 1) puts the processor at the start of the module, wherever it  *)
(* was before.  From there on it is at an instruction of this module, and its *)
(* two registers follow the module's instructions (PassInv), until the next   *)
(* fetch from the vector.                                                     *)
EXTENDS PrAcc, TLAPS

(* What the offset of the processor says about its registers. *)
InPass == finished = 1 /\ hpc # "idle"
PassInv ==
  InPass =>
    /\ todo = "fetch" \/ todo = Code(module)[k + 1]
    /\ k > 2 => r2 = address_register
    /\ module = "write" /\ k > 3 => r3 = data_register
    /\ module = "read" /\ k > 3 => r3 = mem[address_register]
    /\ k > 4 => mem[address_register] = data_register
    /\ AtVector => mem[address_register] = data_register

(* A completed run leaves the processor waiting at the vector. *)
DoneInv ==
  /\ hpc = "ran" /\ last = 0 => /\ AtVector /\ pracc = "fetch"
                                /\ mem[address_register] = data_register
  /\ finished = 2 => hpc \in {"ran", "idle"}

(* The access that is pending is the one the processor has come to. *)
PendingInv ==
  /\ pracc # "none" => pracc = todo
  /\ hpc = "serve" => pracc # "none"

CallInv == hpc # "idle" => call \in Calls /\ call.addr = address_register

PrAccInv == TypeOK /\ PassInv /\ DoneInv /\ PendingInv /\ CallInv

-----------------------------------------------------------------------------
(* The modules, instruction by instruction. *)
LEMMA ReadModule ==
  ASSUME NEW j \in 0..7
  PROVE  LET c == Code("read")[j + 1]
         IN  /\ c \in Instructions
             /\ c = "ldaddr" <=> j = 2
             /\ c = "ldmem" <=> j = 3
             /\ c = "stdata" <=> j = 4
             /\ c # "stmem" /\ c # "lddata"
<1>1. CASE j = 0 BY <1>1 DEF Code, pracc_readword_code_module, Instructions
<1>2. CASE j = 1 BY <1>2 DEF Code, pracc_readword_code_module, Instructions
<1>3. CASE j = 2 BY <1>3 DEF Code, pracc_readword_code_module, Instructions
<1>4. CASE j = 3 BY <1>4 DEF Code, pracc_readword_code_module, Instructions
<1>5. CASE j = 4 BY <1>5 DEF Code, pracc_readword_code_module, Instructions
<1>6. CASE j = 5 BY <1>6 DEF Code, pracc_readword_code_module, Instructions
<1>7. CASE j = 6 BY <1>7 DEF Code, pracc_readword_code_module, Instructions
<1>8. CASE j = 7 BY <1>8 DEF Code, pracc_readword_code_module, Instructions
<1> QED BY <1>1, <1>2, <1>3, <1>4, <1>5, <1>6, <1>7, <1>8

LEMMA WriteModule ==
  ASSUME NEW j \in 0..7
  PROVE  LET c == Code("write")[j + 1]
         IN  /\ c \in Instructions
             /\ c = "ldaddr" <=> j = 2
             /\ c = "lddata" <=> j = 3
             /\ c = "stmem" <=> j = 4
             /\ c # "ldmem" /\ c # "stdata"
<1>1. CASE j = 0 BY <1>1 DEF Code, pracc_writeword_code_module, Instructions
<1>2. CASE j = 1 BY <1>2 DEF Code, pracc_writeword_code_module, Instructions
<1>3. CASE j = 2 BY <1>3 DEF Code, pracc_writeword_code_module, Instructions
<1>4. CASE j = 3 BY <1>4 DEF Code, pracc_writeword_code_module, Instructions
<1>5. CASE j = 4 BY <1>5 DEF Code, pracc_writeword_code_module, Instructions
<1>6. CASE j = 5 BY <1>6 DEF Code, pracc_writeword_code_module, Instructions
<1>7. CASE j = 6 BY <1>7 DEF Code, pracc_writeword_code_module, Instructions
<1>8. CASE j = 7 BY <1>8 DEF Code, pracc_writeword_code_module, Instructions
<1> QED BY <1>1, <1>2, <1>3, <1>4, <1>5, <1>6, <1>7, <1>8

LEMMA InvInit == Init => PrAccInv
<1> SUFFICES ASSUME Init
             PROVE  PrAccInv
  OBVIOUS
<1>1. check \in BOOLEAN /\ tainted \in BOOLEAN BY DEF Init
<1>2. TypeOK BY <1>1, PrAccAssumption DEF Init, TypeOK
<1>3. PassInv /\ DoneInv /\ PendingInv /\ CallInv
  BY DEF Init, PassInv, InPass, DoneInv, PendingInv, CallInv
<1> QED BY <1>2, <1>3 DEF PrAccInv

(* A call begins, or a module is started again: nothing is said of a run      *)
(* before its first fetch from the vector.                                    *)
LEMMA StartsKeep ==
  ASSUME PrAccInv, ejtag_pracc_read \/ ejtag_pracc_write \/ ReadBack \/ Repeat
  PROVE  PrAccInv'
<1> USE PrAccAssumption DEF PrAccInv, PendingInv
<1>1. TypeOK'
  <2>1. CASE ejtag_pracc_read
    BY <2>1 DEF ejtag_pracc_read, Execute, TypeOK, Calls, cpuVars
  <2>2. CASE ejtag_pracc_write
    BY <2>2 DEF ejtag_pracc_write, Execute, TypeOK, Calls, cpuVars
  <2>3. CASE ReadBack BY <2>3 DEF ReadBack, Execute, TypeOK, cpuVars
  <2>4. CASE Repeat
    BY <2>4 DEF Repeat, Execute, TypeOK, cpuVars, Less, CallInv, Calls
  <2> QED BY <2>1, <2>2, <2>3, <2>4
<1>2. finished' = 0 /\ hpc' = "poll" /\ pracc' = pracc /\ todo' = todo
  BY DEF ejtag_pracc_read, ejtag_pracc_write, ReadBack, Repeat, Execute, cpuVars
<1>3. CallInv'
  <2>1. CASE ejtag_pracc_read
    BY <2>1 DEF ejtag_pracc_read, CallInv, Calls
  <2>2. CASE ejtag_pracc_write
    BY <2>2 DEF ejtag_pracc_write, CallInv, Calls
  <2>3. CASE ReadBack BY <2>3 DEF ReadBack, CallInv
  <2>4. CASE Repeat BY <2>4 DEF Repeat, CallInv
  <2> QED BY <2>1, <2>2, <2>3, <2>4
<1> QED BY <1>1, <1>2, <1>3 DEF PassInv, InPass, DoneInv

LEMMA PollKeeps ==
  ASSUME PrAccInv, Poll
  PROVE  PrAccInv'
<1> USE DEF PrAccInv, Poll, cpuVars
<1>1. TypeOK'
  <2>1. check' \in BOOLEAN /\ tainted' \in BOOLEAN BY DEF TypeOK
  <2>2. timeout' \in 0..Timeout BY PrAccAssumption DEF TypeOK, Less
  <2> QED BY <2>1, <2>2 DEF TypeOK
<1>2. PassInv' /\ PendingInv' /\ CallInv'
  BY DEF TypeOK, PassInv, InPass, AtVector, PendingInv, CallInv
<1>3. DoneInv' BY DEF DoneInv, AtVector
<1> QED BY <1>1, <1>2, <1>3

LEMMA ServeFetchKeeps ==
  ASSUME PrAccInv, ServeFetch
  PROVE  PrAccInv'
<1> USE DEF PrAccInv
<1>1. todo = "fetch" /\ k \in 0..7 /\ module \in {"read", "write"} /\ finished \in {0, 1}
  BY DEF ServeFetch, PendingInv, TypeOK, DoneInv
<1>2. CASE k = 0 /\ finished > 0
  <2>1. /\ hpc' = "ran" /\ last' = 0 /\ finished' = 2
        /\ UNCHANGED <<todo, pracc, k, mem, address_register, data_register, module,
                       call, check, timeout, retries2, ret, status, tainted, r2, r3>>
    BY <1>1, <1>2 DEF ServeFetch
  <2>2. mem[address_register] = data_register
    BY <1>1, <1>2 DEF PassInv, InPass, AtVector, ServeFetch
  <2>3. TypeOK' BY <2>1 DEF TypeOK
  <2>4. DoneInv' BY <1>1, <1>2, <2>1, <2>2 DEF DoneInv, AtVector, ServeFetch
  <2> QED BY <2>1, <2>3, <2>4 DEF PassInv, InPass, PendingInv, CallInv, ServeFetch
<1>3. CASE ~(k = 0 /\ finished > 0)
  <2>1. /\ hpc' = "poll" /\ todo' = Code(module)[k + 1] /\ pracc' = "none"
        /\ finished' = (IF k = 0 THEN 1 ELSE finished)
        /\ UNCHANGED <<k, mem, address_register, data_register, module, last,
                       call, check, timeout, retries2, ret, status, tainted, r2, r3>>
    BY <1>3 DEF ServeFetch
  <2>2. todo' \in Instructions /\ todo' # "fetch"
    BY <1>1, <2>1, ReadModule, WriteModule DEF Instructions
  <2>3. TypeOK' BY <1>1, <2>1, <2>2 DEF TypeOK
  <2>4. PassInv'
    <3>1. CASE k = 0 BY <2>1, <2>2, <3>1 DEF PassInv, AtVector
    <3>2. CASE k # 0
      BY <2>1, <2>2, <3>2 DEF PassInv, InPass, AtVector, ServeFetch
    <3> QED BY <3>1, <3>2
  <2>5. DoneInv' BY <1>1, <2>1 DEF DoneInv
  <2> QED BY <2>1, <2>3, <2>4, <2>5 DEF PendingInv, CallInv, ServeFetch
<1> QED BY <1>2, <1>3

LEMMA ServeRegisterKeeps ==
  ASSUME PrAccInv, ServeRegister
  PROVE  PrAccInv'
<1> USE DEF PrAccInv
<1>1. /\ k \in 0..7 /\ module \in {"read", "write"} /\ finished \in {0, 1}
      /\ todo = pracc /\ pracc \in {"ldaddr", "lddata", "stdata"}
  BY DEF ServeRegister, PendingInv, TypeOK, DoneInv
<1>2. todo' = "fetch" /\ k' \in 0..7 /\ k' = (k + 1) % 8
  BY <1>1 DEF ServeRegister, Advance
<1>3. TypeOK' BY <1>1, <1>2 DEF ServeRegister, TypeOK
<1>4. PassInv'
  <2> SUFFICES ASSUME finished = 1
               PROVE  PassInv'
    BY <1>1 DEF PassInv, InPass, ServeRegister
  <2>1. todo = Code(module)[k + 1] BY <1>1 DEF PassInv, InPass, ServeRegister
  <2>2. CASE module = "read"
    <3>1. CASE todo = "ldaddr"
      <4>1. k = 2 /\ k' = 3 BY <1>1, <1>2, <2>1, <2>2, <3>1, ReadModule
      <4> QED BY <1>1, <1>2, <2>2, <3>1, <4>1 DEF ServeRegister, PassInv, AtVector
    <3>2. CASE todo = "stdata"
      <4>1. k = 4 /\ k' = 5 BY <1>1, <1>2, <2>1, <2>2, <3>2, ReadModule
      <4> QED
        BY <1>1, <1>2, <2>2, <3>2, <4>1 DEF ServeRegister, PassInv, InPass, AtVector
    <3> QED BY <1>1, <2>1, <2>2, <3>1, <3>2, ReadModule
  <2>3. CASE module = "write"
    <3>1. CASE todo = "ldaddr"
      <4>1. k = 2 /\ k' = 3 BY <1>1, <1>2, <2>1, <2>3, <3>1, WriteModule
      <4> QED BY <1>1, <1>2, <2>3, <3>1, <4>1 DEF ServeRegister, PassInv, AtVector
    <3>2. CASE todo = "lddata"
      <4>1. k = 3 /\ k' = 4 BY <1>1, <1>2, <2>1, <2>3, <3>2, WriteModule
      <4> QED
        BY <1>1, <1>2, <2>3, <3>2, <4>1 DEF ServeRegister, PassInv, InPass, AtVector
    <3> QED BY <1>1, <2>1, <2>3, <3>1, <3>2, WriteModule
  <2> QED BY <1>1, <2>2, <2>3
<1>5. DoneInv' BY <1>1 DEF ServeRegister, DoneInv
<1> QED BY <1>3, <1>4, <1>5 DEF ServeRegister, PendingInv, CallInv

LEMMA ReturnsKeep ==
  ASSUME PrAccInv, ReadReturns \/ WriteReturns
  PROVE  PrAccInv'
<1> USE DEF PrAccInv
<1>1. TypeOK' BY DEF ReadReturns, WriteReturns, TypeOK, cpuVars
<1>2. /\ hpc' = "idle" /\ hpc # "idle" /\ UNCHANGED <<todo, pracc>>
  BY DEF ReadReturns, WriteReturns, cpuVars
<1> QED BY <1>1, <1>2 DEF PassInv, InPass, DoneInv, PendingInv, CallInv

(* The processor on its own: it cannot move while it waits for the host. *)
LEMMA CpuKeeps ==
  ASSUME PrAccInv, CpuStep
  PROVE  PrAccInv'
<1> USE DEF PrAccInv
<1>1. CASE CpuFetch \/ CpuRegister
  <2>1. TypeOK' BY <1>1 DEF CpuFetch, CpuRegister, TypeOK, hostVars
  <2> QED
    BY <1>1, <2>1 DEF CpuFetch, CpuRegister, hostVars, PassInv, InPass, DoneInv,
                      PendingInv, CallInv, AtVector
<1>2. CASE CpuOther \/ CpuLoad \/ CpuStore
  <2> DEFINE Host == UNCHANGED hostVars
  <2>1. /\ Host /\ pracc' = pracc /\ todo' = "fetch"
        /\ k \in 0..7 /\ k' \in 0..7 /\ k' = (k + 1) % 8
        /\ module \in {"read", "write"} /\ address_register \in Addr
        /\ todo \notin {"fetch", "ldaddr", "lddata", "stdata"}
    BY <1>2 DEF CpuOther, CpuLoad, CpuStore, Advance, TypeOK
  <2>2. pracc = "none" /\ ~AtVector
    BY <2>1 DEF PendingInv, TypeOK, AtVector
  <2>3. TypeOK'
    <3>1. mem' \in [Addr -> Val] /\ r3' \in Val /\ r2' \in Addr
      BY <1>2 DEF CpuOther, CpuLoad, CpuStore, TypeOK
    <3> QED BY <2>1, <3>1 DEF TypeOK, hostVars
  <2>4. PassInv'
    <3> SUFFICES ASSUME InPass
                 PROVE  PassInv'
      BY <2>1 DEF PassInv, InPass, hostVars
    <3>1. todo = Code(module)[k + 1] BY <2>1 DEF PassInv
    <3>2. CASE CpuOther
      <4>1. k # 2 /\ k # 3 /\ k # 4
        BY <2>1, <3>1, <3>2, ReadModule, WriteModule DEF CpuOther
      <4> QED
        BY <2>1, <3>2, <4>1 DEF CpuOther, PassInv, InPass, AtVector, hostVars
    <3>3. CASE CpuLoad
      <4>1. module = "read" /\ k = 3
        <5>1. Code(module)[k + 1] = "ldmem" BY <3>1, <3>3 DEF CpuLoad
        <5> QED BY <2>1, <5>1, ReadModule, WriteModule
      <4> QED
        BY <2>1, <3>3, <4>1 DEF CpuLoad, PassInv, InPass, AtVector, hostVars
    <3>4. CASE CpuStore
      <4>1. module = "write" /\ k = 4
        BY <2>1, <3>1, <3>4, ReadModule, WriteModule DEF CpuStore
      <4>2. mem'[address_register] = data_register
        BY <2>1, <3>4, <4>1 DEF CpuStore, PassInv, TypeOK
      <4> QED
        BY <2>1, <3>4, <4>1, <4>2 DEF CpuStore, PassInv, InPass, AtVector, hostVars
    <3> QED BY <1>2, <3>2, <3>3, <3>4
  <2>5. DoneInv' BY <2>1, <2>2 DEF DoneInv, hostVars
  <2> QED BY <2>1, <2>2, <2>3, <2>4, <2>5 DEF PendingInv, CallInv, hostVars
<1> QED BY <1>1, <1>2 DEF CpuStep

LEMMA InvStep == PrAccInv /\ [Next]_vars => PrAccInv'
<1> SUFFICES ASSUME PrAccInv, [Next]_vars
             PROVE  PrAccInv'
  OBVIOUS
<1>1. CASE Next
  BY <1>1, StartsKeep, PollKeeps, ServeFetchKeeps, ServeRegisterKeeps, ReturnsKeep, CpuKeeps
  DEF Next, HostStep
<1>2. CASE UNCHANGED vars
  BY <1>2 DEF vars, hostVars, cpuVars, PrAccInv, TypeOK, PassInv, InPass, DoneInv,
              PendingInv, CallInv, AtVector
<1> QED BY <1>1, <1>2

LEMMA Invariant == Spec => []PrAccInv
<1> QED BY InvInit, InvStep, PTL DEF Spec

-----------------------------------------------------------------------------
(* The types of the host's and the processor's state, with the bounds of its  *)
(* counters, for every number of polls and retries.                           *)
THEOREM TypeCorrect == Spec => []TypeOK
<1>1. PrAccInv => TypeOK BY DEF PrAccInv
<1> QED BY <1>1, Invariant, PTL

(* When ExecuteDebugModule returns 0, memory and data_register agree at the   *)
(* address asked for, whatever the processor was doing when the run began.    *)
THEOREM PassAgrees == Spec => []CompletedPassAgrees
<1>1. PrAccInv => CompletedPassAgrees BY DEF PrAccInv, DoneInv, CompletedPassAgrees
<1> QED BY <1>1, Invariant, PTL

(* In the pass that counts the processor stores the requested word at the     *)
(* requested address, and nothing else.                                       *)
THEOREM FullPassStores == Spec => FullPassStoresRequest
<1> DEFINE Step == mem' # mem /\ finished = 1 /\ hpc # "idle" =>
                     mem' = [mem EXCEPT ![address_register] = data_register]
<1>1. PrAccInv /\ [Next]_vars => Step
  <2> SUFFICES ASSUME PrAccInv, [Next]_vars, mem' # mem, finished = 1, hpc # "idle"
               PROVE  mem' = [mem EXCEPT ![address_register] = data_register]
    OBVIOUS
  <2>1. CpuStore
    BY DEF Next, HostStep, CpuStep, vars, cpuVars, ejtag_pracc_read, ejtag_pracc_write,
           Poll, ServeFetch, ServeRegister, ReadReturns, ReadBack, Repeat, WriteReturns,
           CpuFetch, CpuRegister, CpuOther, CpuLoad
  <2>2. todo = "stmem" /\ todo = Code(module)[k + 1] /\ k \in 0..7
        /\ module \in {"read", "write"}
    BY <2>1 DEF CpuStore, PrAccInv, PassInv, InPass, TypeOK
  <2>3. module = "write" /\ k = 4 BY <2>2, ReadModule, WriteModule
  <2>4. r2 = address_register /\ r3 = data_register
    BY <2>3 DEF PrAccInv, PassInv, InPass
  <2> QED BY <2>1, <2>4 DEF CpuStore
<1> QED BY <1>1, Invariant, PTL DEF Spec, FullPassStoresRequest

(* A checked write that reports success, and whose last read back was         *)
(* completed, is in memory.                                                   *)
THEOREM CheckedHolds == Spec => CheckedWriteHolds
<1> DEFINE Step == hpc = "ran" /\ call.op = "write" /\ hpc' = "idle" /\ check /\ last = 0
                     /\ status' = 0 => mem[call.addr] = call.data
<1>1. PrAccInv /\ [Next]_vars => Step
  <2> SUFFICES ASSUME PrAccInv, [Next]_vars, hpc = "ran", call.op = "write", hpc' = "idle",
                      check, last = 0, status' = 0
               PROVE  mem[call.addr] = call.data
    OBVIOUS
  <2>1. WriteReturns
    BY DEF Next, HostStep, CpuStep, vars, hostVars, ejtag_pracc_read, ejtag_pracc_write,
           Execute, Poll, ServeFetch, ServeRegister, ReadReturns, ReadBack, Repeat,
           CpuFetch, CpuRegister, CpuOther, CpuLoad, CpuStore
  <2>2. call.data = data_register BY <2>1 DEF WriteReturns, Differs
  <2>3. call.addr = address_register /\ mem[address_register] = data_register
    BY DEF PrAccInv, CallInv, DoneInv
  <2> QED BY <2>2, <2>3
<1> QED BY <1>1, Invariant, PTL DEF Spec, CheckedWriteHolds

-----------------------------------------------------------------------------
(* ejtag_pracc_read and ejtag_pracc_write are atomic accesses to memory: the  *)
(* proof that PrAcc implements MemAccess.  On top of PrAccInv it needs to     *)
(* know what a call that is not tainted has left untouched: the processor     *)
(* waits at the vector when a run begins, and data_register holds the word of *)
(* a write call through every run, the read backs included.                   *)

CleanInv ==
  /\ hpc = "idle" <=> call = NoCall
  /\ hpc # "idle" /\ module = "write" => call.op = "write"
  /\ ~tainted =>
       /\ hpc = "ran" => last = 0
       /\ hpc = "idle" \/ finished = 0 => AtVector
       /\ hpc # "idle" /\ call.op = "write" =>
            /\ data_register = call.data
            /\ module = "read" => mem[call.addr] = call.data

Inv == PrAccInv /\ CleanInv

LEMMA CallFields ==
  ASSUME NEW c \in Calls
  PROVE  c.op \in {"read", "write"} /\ c.addr \in Addr /\ c.data \in Val /\ c # NoCall
BY DEF Calls, NoCall

(* A processor that leaves the vector in a call that is not tainted does so   *)
(* within the pass that counts.                                               *)
LEMMA CleanPass ==
  ASSUME Inv, ~tainted, ~AtVector
  PROVE  InPass
<1>1. hpc # "idle" /\ finished # 0 BY DEF Inv, CleanInv
<1>2. hpc # "ran" BY DEF Inv, CleanInv, PrAccInv, DoneInv
<1>3. finished \in {0, 1, 2} BY DEF Inv, PrAccInv, TypeOK
<1>4. finished # 2 BY <1>1, <1>2 DEF Inv, PrAccInv, DoneInv
<1> QED BY <1>1, <1>3, <1>4 DEF InPass

LEMMA CleanInit == Init => CleanInv
BY DEF Init, CleanInv, AtVector

LEMMA CleanStarts ==
  ASSUME Inv, ejtag_pracc_read \/ ejtag_pracc_write \/ ReadBack \/ Repeat
  PROVE  CleanInv'
<1> USE DEF Inv, Execute
<1>1. CASE ejtag_pracc_read
  <2>1. /\ hpc' = "poll" /\ module' = "read" /\ call'.op = "read" /\ call' # NoCall
        /\ tainted' = ~AtVector /\ UNCHANGED <<k, todo>>
    BY <1>1 DEF ejtag_pracc_read, NoCall, cpuVars
  <2> QED BY <2>1 DEF CleanInv, AtVector
<1>2. CASE ejtag_pracc_write
  <2>1. /\ hpc' = "poll" /\ module' = "write" /\ call'.op = "write" /\ call' # NoCall
        /\ call'.data = data_register'
        /\ tainted' = ~AtVector /\ UNCHANGED <<k, todo>>
    BY <1>2 DEF ejtag_pracc_write, NoCall, cpuVars
  <2> QED BY <2>1 DEF CleanInv, AtVector
<1>3. CASE ReadBack
  <2>1. call.addr = address_register BY <1>3 DEF ReadBack, PrAccInv, CallInv
  <2> QED
    BY <1>3, <2>1 DEF ReadBack, CleanInv, PrAccInv, DoneInv, AtVector, cpuVars
<1>4. CASE Repeat
  <2>1. tainted' = tainted /\ tainted BY <1>4 DEF Repeat, Differs, CleanInv, PrAccInv, TypeOK
  <2> QED BY <1>4, <2>1 DEF Repeat, CleanInv
<1> QED BY <1>1, <1>2, <1>3, <1>4

LEMMA CleanServes ==
  ASSUME Inv, Poll \/ ServeFetch \/ ServeRegister
  PROVE  CleanInv'
<1> USE DEF Inv
<1>1. CASE Poll
  BY <1>1 DEF Poll, CleanInv, AtVector, cpuVars
<1>2. CASE ServeFetch
  <2>1. hpc' # "idle" /\ hpc # "idle" /\ UNCHANGED <<call, module, tainted, data_register, mem>>
    BY <1>2 DEF ServeFetch
  <2>2. ~tainted => finished' # 0
    <3>1. finished \in {0, 1, 2} BY DEF PrAccInv, TypeOK
    <3>2. ~tainted /\ finished = 0 => k = 0
      BY <1>2 DEF CleanInv, AtVector
    <3> QED BY <1>2, <3>1, <3>2 DEF ServeFetch
  <2>3. hpc' = "ran" => last' = 0 BY <1>2 DEF ServeFetch
  <2> QED BY <2>1, <2>2, <2>3 DEF CleanInv
<1>3. CASE ServeRegister
  <2>1. /\ hpc' = "poll" /\ hpc = "serve" /\ todo = pracc /\ ~AtVector
        /\ UNCHANGED <<call, module, tainted, finished, mem>>
    BY <1>3 DEF ServeRegister, PrAccInv, PendingInv, AtVector
  <2>2. ASSUME ~tainted, call.op = "write"
        PROVE  data_register' = data_register
    <3>1. finished = 1 /\ call.addr = address_register
      BY <2>1, <2>2, CleanPass DEF InPass, PrAccInv, CallInv
    <3>2. CASE pracc = "stdata"
      <4>1. /\ k \in 0..7 /\ module \in {"read", "write"}
            /\ todo = "stdata" /\ todo = Code(module)[k + 1]
        BY <2>1, <3>1, <3>2 DEF PrAccInv, PassInv, InPass, TypeOK
      <4>2. module = "read" /\ k = 4 BY <4>1, ReadModule, WriteModule
      <4>3. r3 = mem[address_register]
        BY <2>1, <3>1, <4>2 DEF PrAccInv, PassInv, InPass
      <4> QED BY <1>3, <2>1, <2>2, <3>1, <3>2, <4>2, <4>3 DEF ServeRegister, CleanInv
    <3>3. CASE pracc # "stdata" BY <1>3, <3>3 DEF ServeRegister
    <3> QED BY <3>2, <3>3
  <2>3. ~tainted => finished # 0 BY <2>1 DEF CleanInv
  <2> QED BY <2>1, <2>2, <2>3 DEF CleanInv
<1> QED BY <1>1, <1>2, <1>3

LEMMA CleanReturns ==
  ASSUME Inv, ReadReturns \/ WriteReturns
  PROVE  CleanInv'
BY DEF Inv, ReadReturns, WriteReturns, CleanInv, PrAccInv, DoneInv, AtVector, cpuVars

LEMMA CleanCpu ==
  ASSUME Inv, CpuStep
  PROVE  CleanInv'
<1>1. CASE CpuFetch \/ CpuRegister
  BY <1>1 DEF Inv, CpuFetch, CpuRegister, CleanInv, AtVector, hostVars
<1>2. CASE CpuOther \/ CpuLoad \/ CpuStore
  <2>1. UNCHANGED hostVars /\ ~AtVector
    BY <1>2 DEF CpuOther, CpuLoad, CpuStore, AtVector
  <2>2. ~tainted => InPass BY <2>1, CleanPass
  <2>3. ~tainted /\ module = "read" => mem' = mem
    <3> SUFFICES ASSUME ~tainted, module = "read", CpuStore PROVE FALSE
      BY <1>2 DEF CpuOther, CpuLoad
    <3>1. k \in 0..7 /\ todo = "stmem" /\ todo = Code("read")[k + 1]
      BY <2>2 DEF Inv, PrAccInv, PassInv, TypeOK, CpuStore
    <3> QED BY <3>1, ReadModule
  <2> QED BY <2>1, <2>2, <2>3 DEF Inv, CleanInv, InPass, hostVars
<1> QED BY <1>1, <1>2 DEF CpuStep

LEMMA CleanStep == Inv /\ [Next]_vars => CleanInv'
<1> SUFFICES ASSUME Inv, [Next]_vars
             PROVE  CleanInv'
  OBVIOUS
<1>1. CASE Next
  BY <1>1, CleanStarts, CleanServes, CleanReturns, CleanCpu DEF Next, HostStep
<1>2. CASE UNCHANGED vars
  BY <1>2 DEF vars, hostVars, cpuVars, Inv, CleanInv, AtVector
<1> QED BY <1>1, <1>2

LEMMA Clean == Spec => []Inv
<1>1. Init => Inv BY InvInit, CleanInit DEF Inv
<1>2. Inv /\ [Next]_vars => Inv' BY InvStep, CleanStep DEF Inv
<1> QED BY <1>1, <1>2, PTL DEF Spec

-----------------------------------------------------------------------------
LEMMA AccessInit == Init => Access!Init
BY PrAccAssumption DEF Init, Access!Init, NoCall, Access!NoCall

(* A call returns: what it leaves is what MemAccess asks for. *)
LEMMA ReturnIsReturn ==
  ASSUME Inv, Inv', ReadReturns \/ WriteReturns
  PROVE  Access!Return
<1> USE DEF Access!Return, Access!NoCall, NoCall
<1>1. /\ call \in Calls /\ call' = NoCall /\ hpc = "ran"
      /\ UNCHANGED <<mem, tainted>> /\ ret' \in Val
  BY DEF Inv, PrAccInv, CallInv, TypeOK, ReadReturns, WriteReturns, cpuVars
<1>2. call # NoCall /\ call.op \in {"read", "write"} BY <1>1, CallFields
<1>3. CASE tainted BY <1>1, <1>2, <1>3
<1>4. CASE ~tainted
  <2>1. mem[call.addr] = data_register
    BY <1>1, <1>4 DEF Inv, CleanInv, PrAccInv, DoneInv, CallInv
  <2>2. CASE call.op = "read"
    <3>1. ret' = Loaded(mem, call)
      BY <2>1, <2>2 DEF Loaded, ReadReturns, WriteReturns
    <3> QED BY <1>1, <1>2, <1>4, <2>2, <3>1
  <2>3. CASE call.op = "write"
    <3>1. ret' = ret BY <2>3 DEF ReadReturns, WriteReturns
    <3>2. mem[call.addr] = call.data
      BY <1>1, <1>4, <2>1, <2>3 DEF Inv, CleanInv
    <3>3. mem = Stored(mem, call)
      BY <3>2 DEF Stored, Inv, PrAccInv, TypeOK
    <3> QED BY <1>1, <1>2, <1>4, <2>3, <3>1, <3>3
  <2> QED BY <1>2, <2>2, <2>3
<1> QED BY <1>3, <1>4

(* The processor stores a word: the requested one, or the call is tainted.    *)
LEMMA StoreIsWrite ==
  ASSUME Inv, Inv', CpuStore, mem' # mem
  PROVE  Access!Write \/ Access!Stray
<1>1. UNCHANGED <<call, ret, tainted>> /\ ~AtVector
  BY DEF CpuStore, hostVars, AtVector
<1>2. mem' \in [Addr -> Val] /\ tainted \in BOOLEAN BY DEF Inv, PrAccInv, TypeOK
<1>3. CASE tainted BY <1>1, <1>2, <1>3 DEF Access!Stray
<1>4. CASE ~tainted
  <2>1. InPass BY <1>1, <1>4, CleanPass
  <2>2. /\ todo = "stmem" /\ todo = Code(module)[k + 1] /\ k \in 0..7
        /\ module \in {"read", "write"}
    BY <2>1 DEF CpuStore, Inv, PrAccInv, PassInv, TypeOK
  <2>3. module = "write" /\ k = 4 BY <2>2, ReadModule, WriteModule
  <2>4. r2 = call.addr /\ r3 = call.data /\ call.op = "write"
    BY <1>4, <2>1, <2>3 DEF Inv, CleanInv, PrAccInv, PassInv, InPass, CallInv
  <2>5. mem' = Stored(mem, call) BY <2>4 DEF CpuStore, Stored
  <2> QED BY <1>1, <1>2, <1>4, <2>4, <2>5 DEF Access!Write
<1> QED BY <1>3, <1>4

LEMMA AccessStep == Inv /\ Inv' /\ [Next]_vars => [Access!Next]_Access!vars
<1> SUFFICES ASSUME Inv, Inv', [Next]_vars
             PROVE  [Access!Next]_Access!vars
  OBVIOUS
<1> USE DEF Access!vars, Access!Next
<1>1. CASE ejtag_pracc_read \/ ejtag_pracc_write
  <2>1. Access!Request
    <3>1. call = NoCall /\ UNCHANGED <<mem, ret>>
      BY <1>1 DEF Inv, CleanInv, ejtag_pracc_read, ejtag_pracc_write, cpuVars
    <3>2. call' \in Calls
      BY <1>1, PrAccAssumption DEF Calls, ejtag_pracc_read, ejtag_pracc_write
    <3>3. tainted' \in BOOLEAN BY DEF Inv, PrAccInv, TypeOK
    <3> QED BY <3>1, <3>2, <3>3 DEF Access!Request, Access!NoCall, NoCall
  <2> QED BY <2>1
<1>2. CASE Poll
  <2>1. UNCHANGED <<mem, call, ret>> /\ (tainted' = TRUE \/ tainted' = tainted)
    BY <1>2 DEF Poll, cpuVars
  <2> QED BY <2>1 DEF Access!Taint
<1>3. CASE ServeFetch \/ ServeRegister \/ ReadBack \/ Repeat
  BY <1>3 DEF ServeFetch, ServeRegister, ReadBack, Repeat, cpuVars
<1>4. CASE ReadReturns \/ WriteReturns
  BY <1>4, ReturnIsReturn
<1>5. CASE CpuFetch \/ CpuRegister \/ CpuOther \/ CpuLoad
  BY <1>5 DEF CpuFetch, CpuRegister, CpuOther, CpuLoad, hostVars
<1>6. CASE CpuStore
  <2>1. CASE mem' = mem BY <1>6, <2>1 DEF CpuStore, hostVars
  <2>2. CASE mem' # mem BY <1>6, <2>2, StoreIsWrite
  <2> QED BY <2>1, <2>2
<1>7. CASE UNCHANGED vars
  BY <1>7 DEF vars, hostVars, cpuVars
<1> QED BY <1>1, <1>2, <1>3, <1>4, <1>5, <1>6, <1>7 DEF Next, HostStep, CpuStep

(* ejtag_pracc_read and ejtag_pracc_write, with everything that polling,      *)
(* read backs and retries do, are the atomic accesses that their callers take *)
(* them for, for every memory and every number of polls and retries, unless   *)
(* a module run of the call was given up or began away from the vector.       *)
THEOREM PrAccImplementsAccess == Spec => AccessSpec
<1> QED BY AccessInit, AccessStep, Clean, PTL DEF Spec, AccessSpec, Access!Spec
==============================================================================
