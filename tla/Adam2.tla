-------------------------------- MODULE Adam2 --------------------------------
(* The router as the uploader finds it: for some seconds after power on its   *)
(* boot loader answers as an FTP server (ADAM2) at the address in its         *)
(* environment, then it starts the system unless autoload is "no" or a client *)
(* is connected.  None of its code is in the repository: this is what         *)
(* upload.cs and ftplib-st.cs rely on.                                        *)
EXTENDS Naturals, Sequences

CONSTANTS Images,      \* firmware images
          Size,        \* Size[f]: blocks of 1460 bytes of the file f
          Brands,      \* values of firmware_version
          MaxFaults    \* bound on the faults of a behaviour

ASSUME BoxAssumption ==
  /\ {"old", "empty", "none"} \cap Images = {}
  /\ Size \in [Images \cup {"old", "empty"} -> Nat]
  /\ Size["empty"] = 0          \* filesystem.image
  /\ MaxFaults \in Nat

Parts == {"mtd1", "mtd3", "mtd4"}
Addresses == {"192.168.178.1", "192.168.2.1"}
Files == Images \cup {"old", "empty"}
Whole(f) == [i \in 1..Size[f] |-> <<f, i>>]
Environments == [my_ipaddress : Addresses, firmware_version : Brands \cup {"factory"},
                 autoload : {"yes", "no"}]
Factory == [my_ipaddress |-> "192.168.2.1", firmware_version |-> "factory",
            autoload |-> "yes"]

VARIABLES mode,       \* "loader" or "system"
          address,    \* the loader's address, taken from env at boot
          env,
          flash,      \* the blocks each partition holds
          conn,       \* the control connection is up at the loader's end
          cmds,       \* commands that reached the loader, unanswered
          replies,    \* codes of replies the client has not received
          link,       \* the data connection: "none", "listening", "open",
                      \* "closed" by the client, "broken" by the loader
          data,       \* blocks under way on it
          transfer,   \* the partition being stored, or "none"
          faults

boxVars == <<mode, address, env, flash, conn, cmds, replies, link, data, transfer, faults>>

BoxTypeOK ==
  /\ mode \in {"loader", "system"} /\ address \in Addresses /\ env \in Environments
  /\ \A p \in Parts : \E f \in Files :
       flash[p] \in {SubSeq(Whole(f), 1, n) : n \in 0..Size[f]}
  /\ conn \in BOOLEAN /\ Len(cmds) <= 1 /\ Len(replies) <= 2
  /\ link \in {"none", "listening", "open", "closed", "broken"}
  /\ \A i \in 1..Len(data) : data[i] \in UNION {{Whole(f)[k] : k \in 1..Size[f]} : f \in Files}
  /\ transfer \in Parts \cup {"none"} /\ faults \in 0..MaxFaults

BoxInit ==
  /\ mode = "system"
  /\ env \in {[Factory EXCEPT !.my_ipaddress = a] : a \in Addresses}
  /\ address = env.my_ipaddress
  /\ flash = [p \in Parts |-> Whole("old")]
  /\ conn = FALSE /\ cmds = <<>> /\ replies = <<>>
  /\ link = "none" /\ data = <<>> /\ transfer = "none" /\ faults = 0

(* A boot takes the address from the environment and forgets the connections. *)
Boot ==
  /\ mode' = "loader" /\ address' = env.my_ipaddress
  /\ conn' = FALSE /\ cmds' = <<>>
  /\ link' = "none" /\ data' = <<>> /\ transfer' = "none"
BootSystem ==
  /\ mode = "loader" /\ ~conn /\ env.autoload = "yes"
  /\ mode' = "system"
  /\ UNCHANGED <<address, env, flash, conn, cmds, replies, link, data, transfer, faults>>

-----------------------------------------------------------------------------
(* The commands.  Each takes the command and puts its reply under way.        *)
Command(c) == conn /\ cmds # <<>> /\ Head(cmds).cmd = c
Reply(code) == cmds' = Tail(cmds) /\ replies' = Append(replies, code)

AnswerPlain ==
  /\ \/ Command("USER") /\ Reply(331)
     \/ Command("PASS") /\ Reply(230)
     \/ Command("GETENV") /\ Reply(200)
  /\ UNCHANGED <<mode, address, env, flash, conn, link, data, transfer, faults>>
AnswerSetenv ==
  /\ Command("SETENV") /\ Reply(200)
  /\ env' = [env EXCEPT ![Head(cmds).var] = Head(cmds).to]
  /\ UNCHANGED <<mode, address, flash, conn, link, data, transfer, faults>>
AnswerPasv ==
  /\ Command("PASV") /\ Reply(227)
  /\ link' = "listening" /\ data' = <<>>
  /\ UNCHANGED <<mode, address, env, flash, conn, transfer, faults>>
(* STOR erases the partition before it is answered.  The environment is kept  *)
(* in mtd3 and mtd4: with both erased it is the factory's again.              *)
AnswerStor ==
  LET p == Head(cmds).var
      erased == [flash EXCEPT ![p] = <<>>] IN
  /\ Command("STOR") /\ link = "open" /\ Reply(150)
  /\ flash' = erased
  /\ env' = IF p # "mtd1" /\ erased["mtd3"] = <<>> /\ erased["mtd4"] = <<>>
            THEN Factory ELSE env
  /\ transfer' = p
  /\ UNCHANGED <<mode, address, conn, link, data, faults>>
AnswerReboot ==
  /\ Command("REBOOT")
  /\ replies' = Append(replies, 221)
  /\ Boot /\ UNCHANGED <<env, flash, faults>>

StoreBlock ==
  /\ transfer # "none" /\ data # <<>>
  /\ flash' = [flash EXCEPT ![transfer] = Append(@, Head(data))]
  /\ data' = Tail(data)
  /\ UNCHANGED <<mode, address, env, conn, cmds, replies, link, transfer, faults>>
EndTransfer ==
  /\ transfer # "none" /\ data = <<>> /\ link = "closed"
  /\ transfer' = "none" /\ link' = "none" /\ replies' = Append(replies, 226)
  /\ UNCHANGED <<mode, address, env, flash, conn, cmds, data, faults>>

Serve == AnswerPlain \/ AnswerSetenv \/ AnswerPasv \/ AnswerStor \/ AnswerReboot
         \/ StoreBlock \/ EndTransfer

-----------------------------------------------------------------------------
(* What can go wrong, at most MaxFaults times: a command is refused, a        *)
(* transfer is given up, the power fails.                                     *)
Fault == faults < MaxFaults /\ faults' = faults + 1
Refuse ==
  /\ Fault /\ conn /\ cmds # <<>> /\ Reply(550)
  /\ UNCHANGED <<mode, address, env, flash, conn, link, data, transfer>>
BreakTransfer ==
  /\ Fault /\ transfer # "none"
  /\ transfer' = "none" /\ data' = <<>> /\ link' = "broken"
  /\ replies' = Append(replies, 426)
  /\ UNCHANGED <<mode, address, env, flash, conn, cmds>>
PowerLoss == Fault /\ Boot /\ UNCHANGED <<env, flash, replies>>

Box == Serve \/ BootSystem \/ Refuse \/ BreakTransfer \/ PowerLoss
==============================================================================
