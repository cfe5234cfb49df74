-------------------------------- MODULE PrAcc --------------------------------
(* Memory access through the processor: wrt54g.c feeds the halted MIPS core   *)
(* a small program, instruction by instruction, and answers its accesses to   *)
(* two pseudo registers.  The host side is ejtag_pracc_read, ejtag_pracc_write*)
(* and ExecuteDebugModule; the processor is external, modelled from the       *)
(* instructions of the modules in wrt54g.h.  It runs on its own: it may take  *)
(* any time for an instruction, longer than the host cares to poll.           *)
(* One ReadWriteData of the JTAG layer is atomic (JtagDriver shows why).      *)
EXTENDS Naturals, Sequences

CONSTANTS Addr,       \* addresses of the target's memory
          Val,        \* words
          Zero,       \* the word 0
          Timeout,    \* polls of one ExecuteDebugModule (10000)
          Retries     \* retries of a checked write (10)

ASSUME PrAccAssumption ==
  /\ Zero \in Val /\ Timeout \in Nat /\ Retries \in Nat /\ Addr # {}

VARIABLES check,              \* the option /check
          hpc,                \* where the host is
          call,               \* the call of ejtag_read or ejtag_write in progress
          module,             \* pmodule of the running ExecuteDebugModule
          timeout, finished,  \* its local variables
          retries2,           \* of ejtag_pracc_write
          address_register, data_register,
          ret,                \* what the last ejtag_read returned
          status,             \* what the last ejtag_pracc_write returned
          last,               \* what the last ExecuteDebugModule returned
          tainted,            \* history: a module run of this call went wrong
          mem,                \* memory of the target
          k,                  \* offset of the instruction the processor is at
          todo,               \* what it does next: "fetch" or an instruction
          pracc,              \* the access it waits for: the PRACC bit
          r2, r3              \* its registers $2 and $3

hostVars == <<check, hpc, call, module, timeout, finished, retries2,
              address_register, data_register, ret, status, last, tainted>>
cpuVars == <<mem, k, todo, pracc, r2, r3>>
vars == <<hostVars, cpuVars>>

(* The code modules, by what each instruction does with the pseudo registers  *)
(* and with memory; the base register $1 is always the same.                  *)
pracc_readword_code_module_early ==
  <<"set", "set", "ldaddr", "stdata", "ldmem", "nop", "branch", "nop">>
pracc_writeword_code_module_swapped ==
  <<"set", "set", "lddata", "stmem", "ldaddr", "nop", "branch", "nop">>
pracc_readword_code_module ==
  <<"set", "set", "ldaddr", "ldmem", "stdata", "nop", "branch", "nop">>
pracc_writeword_code_module ==
  <<"set", "set", "ldaddr", "lddata", "stmem", "nop", "branch", "nop">>
Code(m) == IF m = "read" THEN pracc_readword_code_module ELSE pracc_writeword_code_module

Calls == [op : {"read", "write"}, addr : Addr, data : Val]
NoCall == [op |-> "none"]

(* The processor stands at the debug vector, where a module begins.           *)
AtVector == k = 0 /\ todo = "fetch"

(* Halted by JTAGBRK, the processor is about to fetch from the debug vector.  *)
Init == /\ check \in BOOLEAN
        /\ hpc = "idle" /\ call = NoCall /\ module = "read"
        /\ timeout = 0 /\ finished = 0 /\ retries2 = 0
        /\ address_register \in Addr /\ data_register = Zero
        /\ ret = Zero /\ status = 0 /\ last = 0 /\ tainted = FALSE
        /\ mem \in [Addr -> Val]
        /\ k = 0 /\ todo = "fetch" /\ pracc = "none"
        /\ r2 \in Addr /\ r3 = Zero

-----------------------------------------------------------------------------
(* Host *)

(* What timeout-- and retries2-- leave. *)
Less_same(n) == n
Less(n) == n - 1

(* The first lines of ExecuteDebugModule. *)
Execute_stale(m) == /\ module' = m /\ timeout' = Timeout
                    /\ finished' = finished /\ hpc' = "poll"
Execute(m) == /\ module' = m
              /\ timeout' = Timeout
              /\ finished' = 0
              /\ hpc' = "poll"

ejtag_pracc_read ==
  \E a \in Addr :
    /\ hpc = "idle"
    /\ call' = [op |-> "read", addr |-> a, data |-> Zero]
    /\ address_register' = a
    /\ data_register' = Zero
    /\ Execute("read")
    /\ tainted' = ~AtVector
    /\ UNCHANGED <<check, retries2, ret, status, last, cpuVars>>

ejtag_pracc_write ==
  \E a \in Addr, d \in Val :
    /\ hpc = "idle"
    /\ call' = [op |-> "write", addr |-> a, data |-> d]
    /\ address_register' = a
    /\ data_register' = d
    /\ retries2' = Retries
    /\ Execute("write")
    /\ tainted' = ~AtVector
    /\ UNCHANGED <<check, ret, status, last, cpuVars>>

(* The CONTROL scan that looks for an access of the processor. *)
Poll ==
  /\ hpc = "poll"
  /\ IF pracc # "none" THEN hpc' = "serve" /\ UNCHANGED <<timeout, last, tainted>>
     ELSE IF timeout = 0 THEN /\ hpc' = "ran" /\ last' = 1 /\ tainted' = TRUE
                              /\ UNCHANGED timeout
     ELSE timeout' = Less(timeout) /\ UNCHANGED <<hpc, last, tainted>>
  /\ UNCHANGED <<check, call, module, finished, retries2, address_register,
                 data_register, ret, status, cpuVars>>

(* The processor goes on with its next instruction. *)
Advance_on == todo' = "fetch" /\ k' = k + 1
Advance == todo' = "fetch" /\ k' = (k + 1) % 8

(* An access is answered and PRACC cleared.  The second fetch from the debug  *)
(* vector is not: it is left pending for the next module.                     *)
ServeFetch ==
  /\ hpc = "serve" /\ pracc = "fetch"
  /\ IF k = 0 /\ finished > 0
     THEN /\ hpc' = "ran" /\ last' = 0 /\ finished' = finished + 1
          /\ UNCHANGED <<todo, pracc>>
     ELSE /\ hpc' = "poll"
          /\ finished' = IF k = 0 THEN 1 ELSE finished
          /\ todo' = Code(module)[k + 1]
          /\ pracc' = "none"
          /\ UNCHANGED last
  /\ UNCHANGED <<check, call, module, timeout, retries2, address_register, data_register,
                 ret, status, tainted, mem, k, r2, r3>>

ServeRegister ==
  /\ hpc = "serve" /\ pracc \in {"ldaddr", "lddata", "stdata"}
  /\ hpc' = "poll" /\ pracc' = "none"
  /\ r2' = IF pracc = "ldaddr" THEN address_register ELSE r2
  /\ r3' = IF pracc = "lddata" THEN data_register ELSE r3
  /\ data_register' = IF pracc = "stdata" THEN r3 ELSE data_register
  /\ Advance
  /\ UNCHANGED <<check, call, module, timeout, finished, retries2, address_register,
                 ret, status, last, tainted, mem>>

(* ExecuteDebugModule has returned to ejtag_pracc_read: whatever data_register*)
(* holds is the word read.                                                    *)
ReadReturns ==
  /\ hpc = "ran" /\ call.op = "read"
  /\ ret' = data_register
  /\ call' = NoCall /\ hpc' = "idle"
  /\ UNCHANGED <<check, module, timeout, finished, retries2, address_register,
                 data_register, status, last, tainted, cpuVars>>

(* ... and to ejtag_pracc_write, which reads back when /check is given, and   *)
(* repeats the write as long as a retry is left and the word differs.         *)
ReadBack ==
  /\ hpc = "ran" /\ call.op = "write" /\ module = "write" /\ check
  /\ Execute("read")
  /\ UNCHANGED <<check, call, retries2, address_register, data_register, ret, status,
                 last, tainted, cpuVars>>

Differs_never == FALSE
Differs == call.data # data_register
Repeat ==
  /\ hpc = "ran" /\ call.op = "write" /\ module = "read"
  /\ Differs /\ retries2 > 0
  /\ retries2' = Less(retries2)
  /\ data_register' = call.data
  /\ Execute("write")
  /\ UNCHANGED <<check, call, address_register, ret, status, last, tainted, cpuVars>>

(* It succeeds without /check, or when the word agrees and a retry is left;   *)
(* a word that agrees after the very last retry is still an error.            *)
WriteReturns ==
  /\ hpc = "ran" /\ call.op = "write"
  /\ IF check THEN module = "read" /\ (~Differs \/ retries2 = 0) ELSE TRUE
  /\ status' = IF ~check \/ (~Differs /\ retries2 > 0) THEN 0 ELSE 1
  /\ call' = NoCall /\ hpc' = "idle"
  /\ UNCHANGED <<check, module, timeout, finished, retries2, address_register,
                 data_register, ret, last, tainted, cpuVars>>

HostStep == \/ Poll \/ ServeFetch \/ ServeRegister
            \/ ReadReturns \/ ReadBack \/ Repeat \/ WriteReturns

-----------------------------------------------------------------------------
(* Processor *)
CpuFetch ==
  /\ todo = "fetch" /\ pracc = "none"
  /\ pracc' = "fetch"
  /\ UNCHANGED <<hostVars, mem, k, todo, r2, r3>>

CpuRegister ==
  /\ todo \in {"ldaddr", "lddata", "stdata"} /\ pracc = "none"
  /\ pracc' = todo
  /\ UNCHANGED <<hostVars, mem, k, todo, r2, r3>>

CpuOther ==
  /\ todo \in {"set", "nop", "branch"}
  /\ Advance
  /\ UNCHANGED <<hostVars, mem, pracc, r2, r3>>

CpuLoad ==
  /\ todo = "ldmem"
  /\ r3' = mem[r2]
  /\ Advance
  /\ UNCHANGED <<hostVars, mem, pracc, r2>>

CpuStore ==
  /\ todo = "stmem"
  /\ mem' = [mem EXCEPT ![r2] = r3]
  /\ Advance
  /\ UNCHANGED <<hostVars, pracc, r2, r3>>

CpuStep == CpuFetch \/ CpuRegister \/ CpuOther \/ CpuLoad \/ CpuStore

Next == ejtag_pracc_read \/ ejtag_pracc_write \/ HostStep \/ CpuStep

Spec == Init /\ [][Next]_vars
(* The host never stops in the middle of a call; of the processor nothing is  *)
(* assumed, it may have crashed or lost power.                                *)
FairSpec == Spec /\ WF_vars(HostStep)

-----------------------------------------------------------------------------
Instructions == {"set", "nop", "branch", "ldaddr", "lddata", "stdata", "ldmem", "stmem"}

(* TypeOK: types; the processor stays within the module.                      *)
TypeOK ==
  /\ check \in BOOLEAN /\ tainted \in BOOLEAN
  /\ hpc \in {"idle", "poll", "serve", "ran"}
  /\ call \in Calls \union {NoCall}
  /\ module \in {"read", "write"}
  /\ timeout \in 0..Timeout /\ finished \in 0..2 /\ retries2 \in 0..Retries
  /\ address_register \in Addr /\ data_register \in Val
  /\ ret \in Val /\ status \in {0, 1} /\ last \in {0, 1}
  /\ mem \in [Addr -> Val]
  /\ k \in 0..7 /\ todo \in Instructions \union {"fetch"}
  /\ pracc \in {"none", "fetch", "ldaddr", "lddata", "stdata"}
  /\ r2 \in Addr /\ r3 \in Val

(* CompletedPassAgrees: one pass from vector to vector is the whole module:   *)
(* when ExecuteDebugModule returns 0, memory and data_register agree at the   *)
(* address asked for, even if an earlier run was given up half way and the    *)
(* processor was in the middle of another module when this one began.         *)
CompletedPassAgrees ==
  (hpc = "ran" /\ last = 0) => mem[address_register] = data_register

(* FullPassStoresRequest: in the pass that counts, the processor stores       *)
(* nothing but the requested word.                                            *)
FullPassStoresRequest ==
  [][(mem' # mem /\ finished = 1 /\ hpc # "idle") =>
       mem' = [mem EXCEPT ![address_register] = data_register]]_vars

(* CheckedWriteHolds: a write that reports success under /check is in memory, *)
(* whatever went wrong on the way, if the last read back was completed.       *)
CheckedWriteHolds ==
  [][(hpc = "ran" /\ call.op = "write" /\ hpc' = "idle" /\ check /\ last = 0 /\ status' = 0)
       => mem[call.addr] = call.data]_vars

(* AccessSpec: calls are atomic accesses to memory as long as no module run   *)
(* is given up; the taint of a run that was ends when the processor is back   *)
(* at the vector.                                                             *)
Stored(m, c) == [m EXCEPT ![c.addr] = c.data]
Loaded(m, c) == m[c.addr]
Access == INSTANCE MemAccess WITH Memory <- [Addr -> Val], Result <- Val
AccessSpec == Access!Spec

(* CallsReturn: every call returns, even if the processor has stopped for     *)
(* good.                                                                      *)
CallsReturn == hpc # "idle" ~> hpc = "idle"
==============================================================================
