------------------------------ MODULE MemAccess ------------------------------
(* What ejtag_read, ejtag_write, ejtag_read_h and ejtag_write_h promise their *)
(* callers: a call reads or writes one place of the target's memory, exactly  *)
(* once and nothing else, unless it is tainted by a failure of the access     *)
(* itself.  The functions do not report a failure, so the caller cannot see   *)
(* the taint; it ends with the call or with a later one.                      *)
CONSTANTS Memory,        \* what the target's memory may contain
          Result,        \* what a read may return
          Calls,         \* records with a field op, "read" or "write"
          Stored(_, _),  \* memory after a write call
          Loaded(_, _)   \* what a read call finds in memory

VARIABLES mem,       \* the target's memory
          call,      \* the call in progress, or NoCall
          ret,       \* what the last read returned
          tainted    \* the call in progress, or the last one, met a failure

vars == <<mem, call, ret, tainted>>

NoCall == [op |-> "none"]

Init == /\ mem \in Memory
        /\ call = NoCall
        /\ ret \in Result
        /\ tainted \in BOOLEAN

Request == /\ call = NoCall
           /\ call' \in Calls
           /\ tainted' \in BOOLEAN
           /\ UNCHANGED <<mem, ret>>

Taint == tainted' = TRUE /\ UNCHANGED <<mem, call, ret>>

(* A write takes effect during its call, and may meet its failure with it. *)
Write == /\ ~tainted
         /\ call.op = "write"
         /\ mem' = Stored(mem, call)
         /\ tainted' \in BOOLEAN
         /\ UNCHANGED <<call, ret>>

Stray == /\ tainted
         /\ mem' \in Memory
         /\ UNCHANGED <<call, ret, tainted>>

Return == /\ call # NoCall
          /\ call' = NoCall
          /\ IF tainted THEN ret' \in Result
             ELSE IF call.op = "read" THEN ret' = Loaded(mem, call)
             ELSE ret' = ret /\ mem = Stored(mem, call)
          /\ UNCHANGED <<mem, tainted>>

Next == Request \/ Taint \/ Write \/ Stray \/ Return

Spec == Init /\ [][Next]_vars
==============================================================================
