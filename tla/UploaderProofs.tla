--------------------------- MODULE UploaderProofs ----------------------------
(* Proofs about Uploader, for every set of images and every size of theirs,   *)
(* and any number of sessions and faults.                                     *)
(*                                                                            *)
(* The argument: what the handler has still to do is always the rest of a     *)
(* well formed script, in which an operation tells what may come next         *)
(* (ScriptInv); the operation that is next tells how many replies the loader  *)
(* still owes (SyncInv), and what of the file is on the link and in the       *)
(* partition (FlashInv).                                                      *)
EXTENDS Uploader, TLAPS

-----------------------------------------------------------------------------
(* Scripts. *)
PartOps == {"start", "port", "opendata", "openfile", "erase", "stor", "block", "finish"}
OtherOps == {"connect", "login", "user", "pass", "close"}
(* The operations before which nothing is owed.                               *)
QuietOps == OtherOps \cup {"popup", "send", "start", "port", "opendata", "openfile"}
Messages ==
  [cmd : {"", "USER", "PASS", "GETENV", "SETENV", "PASV", "STOR", "REBOOT"},
   var : Parts \cup {"", "my_ipaddress", "firmware_version", "autoload"},
   to : Addresses \cup Brands \cup {"", "yes", "no"}]
Operations == [op : PartOps \cup OtherOps \cup {"popup", "greeting", "send", "read"},
               of : Parts \cup {"none"}, cmd : Messages]
IsStor(a) == a.op = "send" /\ a.cmd.cmd = "STOR"

(* What an operation is part of. *)
Placed(a) ==
  /\ a.op \in PartOps => a.of \in Parts
  /\ a.op \in OtherOps \cup {"popup", "greeting"} => a.of = "none"
  /\ IsStor(a) => a.of \in Parts /\ a.cmd.var = a.of
(* What may follow it. *)
After(a, b) ==
  /\ b.op # "popup"
  /\ a.op = "popup" => b.op = "read"
  /\ a.op = "connect" => b.op \in {"read", "greeting"}
  /\ a.op = "send" => b.op = IF IsStor(a) THEN "erase" ELSE "read"
  /\ a.op = "erase" => b.op = "read"
  /\ a.op = "read" => b.op \in QuietOps \cup {"stor"}
  /\ a.op = "stor" => b.op = "block"
  /\ a.op \in {"greeting", "login", "user", "pass", "close", "start", "port", "opendata",
               "openfile", "block", "finish"} => b.op \in QuietOps
  /\ a.op = "openfile" <=> IsStor(b)
  /\ b.op = "openfile" => a.op = "opendata"
  /\ a.of # "none" => (b.of = a.of <=> a.op \notin {"block", "finish"})
  /\ b.of # a.of => b.op = "start" \/ (b.op = "send" /\ b.of = "none")
  /\ b.op = "connect" => a.op \in {"read", "close"}
(* The reply to STOR is told from all others by what waits for it; only the   *)
(* second Open finds a connection, and a greeting is waited for after it.     *)
Between(a, b, c) == /\ b.op = "read" => (c.op = "stor" <=> a.op = "erase")
                    /\ a.op = "read" /\ b.op = "connect" => c.op = "greeting"
Early(a, b) == a.op \in {"erase", "block", "finish"} =>
                 ~(b.op = "openfile" /\ b.of = "mtd1")
Wanted(a, j) == /\ a.of = "mtd1" => j.push
                /\ a.of \in {"mtd3", "mtd4"} => j.clear

Script(s, j) ==
  /\ s \in Seq(Operations)
  /\ \A n \in 1..Len(s) : Placed(s[n]) /\ Wanted(s[n], j)
  /\ \A n \in 1..(Len(s) - 1) : After(s[n], s[n + 1])
  /\ \A n \in 1..(Len(s) - 2) : Between(s[n], s[n + 1], s[n + 2])
  /\ \A m, n \in 1..Len(s) : m < n => Early(s[m], s[n])
Closed(s) == s # <<>> => s[Len(s)].op = "close"

-----------------------------------------------------------------------------
(* What the loader owes. *)
Quiet == bucket = <<>> /\ replies = <<>> /\ cmds = <<>> /\ transfer = "none"
(* One reply at most, to a command other than STOR. *)
Answer ==
  /\ bucket = <<>> /\ transfer = "none"
  /\ sock = "null" => Quiet
  /\ \/ cmds = <<>> /\ Len(replies) <= 1
     \/ replies = <<>> /\ Len(cmds) = 1 /\ cmds[1].cmd # "STOR"
(* To STOR: a refusal, or 150 and then the end of the transfer. *)
Started == replies # <<>> /\ replies[1] = 150
StorAnswer ==
  /\ bucket = <<>>
  /\ \/ /\ replies = <<>> /\ Len(cmds) = 1 /\ cmds[1].cmd = "STOR" /\ cmds[1].var = Part
        /\ transfer = "none"
     \/ cmds = <<>> /\ replies = <<>> /\ transfer = "none"
     \/ /\ cmds = <<>> /\ Len(replies) = 1 /\ replies[1] \notin {125, 150}
        /\ transfer = "none"
     \/ /\ cmds = <<>> /\ Started
        /\ Len(replies) = 1 \/ (Len(replies) = 2 /\ transfer = "none")
(* The end of the transfer. *)
EndOwed ==
  /\ cmds = <<>>
  /\ \/ bucket = <<>> /\ replies = <<>>
     \/ Len(bucket) = 1 /\ replies = <<>> /\ transfer = "none"
     \/ bucket = <<>> /\ Len(replies) = 1 /\ transfer = "none"

StorReply == At("read") /\ todo[2].op = "stor"
Accepted == response \in {125, 150}
SyncInv ==
  /\ conn => sock = "open"
  /\ ~Idle /\ Part # "none" /\ ~At("start") => sock = "open"
  /\ Idle \/ At("popup") => sock = "null"
  /\ Idle => Quiet
  /\ ~Idle /\ Head(todo).op \in QuietOps => Quiet
  /\ At("greeting") \/ (At("read") /\ ~StorReply) => Answer
  /\ At("erase") \/ StorReply => StorAnswer
  /\ At("stor") => IF Accepted THEN EndOwed ELSE Quiet
  /\ At("block") \/ At("finish") => EndOwed

-----------------------------------------------------------------------------
(* The file on its way. *)
Holds(p, f, n) ==
  /\ Len(flash[p]) + Len(data) = n
  /\ \A i \in 1..Len(flash[p]) : flash[p][i] = <<f, i>>
  /\ \A i \in 1..Len(data) : data[i] = <<f, Len(flash[p]) + i>>
Sending == /\ ~Idle
           /\ Head(todo).op \in {"erase", "stor", "block"} \/ StorReply \/ IsStor(Head(todo))
Opened == \/ At("block")
          \/ At("stor") /\ Accepted
          \/ (At("erase") \/ StorReply) /\ Started
(* The image that was asked for is the one shown until it is opened.          *)
ShownInv == \A n \in DOMAIN todo : todo[n].op = "openfile" /\ todo[n].of = "mtd1"
                                    => ImageAt(shown) = job.image
FileInv ==
  Sending => /\ ImageAt(file.path) = AskedFor(Part) /\ AskedFor(Part) \in Images \cup {"empty"}
             /\ dsock = "open"
             /\ IF At("block") THEN file.got <= Size[AskedFor(Part)] ELSE file.got = 0
OpenInv == At("openfile") => dsock = "open"
LinkInv ==
  /\ transfer = "none" => data = <<>>
  /\ Opened /\ transfer = "none" => link # "open"
TransferInv ==
  transfer # "none" =>
    /\ ~Idle /\ transfer = Part /\ (At("finish") \/ Opened)
    /\ link = IF At("finish") THEN "closed" ELSE "open"
    /\ AskedFor(Part) \in Images \cup {"empty"}
    /\ Holds(Part, AskedFor(Part), IF At("finish") THEN Size[AskedFor(Part)] ELSE file.got)
(* A transfer that has ended well. *)
EndInv ==
  (\E n \in DOMAIN replies : replies[n] = 226) \/ (\E n \in DOMAIN bucket : bucket[n] = 226)
    => At("finish") /\ flash[Part] = Whole(AskedFor(Part))
FlashInv == ShownInv /\ FileInv /\ OpenInv /\ LinkInv /\ TransferInv /\ EndInv

Blocks == Files \X Nat
TypeInv ==
  /\ replies \in Seq(Nat) /\ bucket \in Seq(Nat) /\ response \in Nat
  /\ cmds \in Seq(Messages)
  /\ sock \in {"null", "open"} /\ dsock \in {"null", "open"} /\ conn \in BOOLEAN
  /\ transfer \in Parts \cup {"none"}
  /\ link \in {"none", "listening", "open", "closed", "broken"}
  /\ data \in Seq(Blocks) /\ flash \in [Parts -> Seq(Blocks)]
  /\ shown \in Images \cup {"kernel"} /\ kernel \in Images \cup {"none"} /\ brand \in Brands
  /\ job \in [image : Images \cup {"none"}, brand : Brands, push : BOOLEAN, clear : BOOLEAN]
  /\ file \in [path : Images \cup {"kernel", "empty", "none"}, got : Nat]

ScriptInv == Script(todo, job) /\ Closed(todo)
UploaderInv == TypeInv /\ ScriptInv /\ SyncInv /\ FlashInv

-----------------------------------------------------------------------------
(* Rests of scripts. *)
LEMMA RestOfScript ==
  ASSUME NEW s, NEW j, Script(s, j), NEW n \in 1..Len(s)
  PROVE  LET r == SubSeq(s, n, Len(s)) IN
         /\ Script(r, j) /\ Len(r) = Len(s) - n + 1
         /\ \A k \in 1..Len(r) : r[k] = s[k + n - 1]
<1> DEFINE r == SubSeq(s, n, Len(s))
<1>1. s \in Seq(Operations) BY DEF Script
<1>2. /\ r \in Seq(Operations) /\ Len(r) = Len(s) - n + 1
      /\ \A k \in 1..Len(r) : r[k] = s[k + n - 1]
  BY <1>1
<1> HIDE DEF r
<1>3. Len(s) \in Nat /\ n \in Nat /\ n >= 1 /\ n <= Len(s) BY <1>1
<1>4. \A k \in 1..Len(r) : Placed(r[k]) /\ Wanted(r[k], j) BY <1>2, <1>3 DEF Script
<1>5. \A k \in 1..(Len(r) - 1) : After(r[k], r[k + 1]) 
  <2> TAKE k \in 1..(Len(r) - 1)
  <2>0. /\ k \in 1..Len(r) /\ k + 1 \in 1..Len(r) /\ (k + 1) + n - 1 = (k + n - 1) + 1
        /\ k + n - 1 \in 1..(Len(s) - 1)
    BY <1>2, <1>3
  <2>1. r[k] = s[k + n - 1] /\ r[k + 1] = s[(k + n - 1) + 1]
    BY <1>2, <2>0
  <2> QED BY <2>0, <2>1 DEF Script
<1>6. \A k \in 1..(Len(r) - 2) : Between(r[k], r[k + 1], r[k + 2]) 
  <2> TAKE k \in 1..(Len(r) - 2)
  <2>0. /\ k \in 1..Len(r) /\ k + 1 \in 1..Len(r) /\ k + 2 \in 1..Len(r)
        /\ (k + 1) + n - 1 = (k + n - 1) + 1 /\ (k + 2) + n - 1 = (k + n - 1) + 2
        /\ k + n - 1 \in 1..(Len(s) - 2)
    BY <1>2, <1>3
  <2>2. r[k] = s[k + n - 1] /\ r[k + 1] = s[(k + 1) + n - 1] /\ r[k + 2] = s[(k + 2) + n - 1]
    BY <1>2, <2>0
  <2>1. r[k] = s[k + n - 1] /\ r[k + 1] = s[(k + n - 1) + 1] /\ r[k + 2] = s[(k + n - 1) + 2]
    BY <2>0, <2>2
  <2> QED BY <2>0, <2>1 DEF Script
<1>7. \A m, k \in 1..Len(r) : m < k => Early(r[m], r[k]) 
  <2> TAKE m, k \in 1..Len(r)
  <2>1. /\ m + n - 1 \in 1..Len(s) /\ k + n - 1 \in 1..Len(s) 
        /\ m < k => m + n - 1 < k + n - 1
        /\ r[m] = s[m + n - 1] /\ r[k] = s[k + n - 1]
    BY <1>2, <1>3
  <2> QED BY <2>1 DEF Script
<1> QED BY <1>2, <1>4, <1>5, <1>6, <1>7 DEF r, Script

LEMMA TailOfScript ==
  ASSUME NEW s, NEW j, Script(s, j), s # <<>>
  PROVE  /\ Script(Tail(s), j) /\ Len(Tail(s)) = Len(s) - 1
         /\ \A k \in 1..(Len(s) - 1) : Tail(s)[k] = s[k + 1]
<1>1. s \in Seq(Operations) BY DEF Script
<1>2. Len(Tail(s)) = Len(s) - 1 /\ \A k \in 1..(Len(s) - 1) : Tail(s)[k] = s[k + 1]
  BY <1>1
<1>5. Len(s) \in Nat /\ Len(s) # 0 BY <1>1
<1>3. CASE Len(s) = 1
  <2>1. Tail(s) \in Seq(Operations) /\ Len(Tail(s)) = 0 BY <1>1, <1>2, <1>3
  <2> QED BY <1>2, <2>1 DEF Script
<1>4. CASE Len(s) > 1
  <2>1. Tail(s) = SubSeq(s, 2, Len(s)) /\ 2 \in 1..Len(s) BY <1>1, <1>4
  <2> QED BY <1>2, <2>1, RestOfScript
<1> QED BY <1>3, <1>4, <1>5

(* The operations of the handler. *)
LEMMA Fields ==
  ASSUME NEW o, NEW p, NEW c, NEW v, NEW t
  PROVE  /\ Op(o, p) = [op |-> o, of |-> p, cmd |-> [cmd |-> "", var |-> "", to |-> ""]]
         /\ To(o, t) = [op |-> o, of |-> "none", cmd |-> [cmd |-> "", var |-> "", to |-> t]]
         /\ Send(c, v, t, p) = [op |-> "send", of |-> p, cmd |-> [cmd |-> c, var |-> v, to |-> t]]
         /\ Read(p) = [op |-> "read", of |-> p, cmd |-> [cmd |-> "", var |-> "", to |-> ""]]
BY DEF Op, To, Send, Read, Message

(* Two scripts, one after the other. *)
LEMMA Joined ==
  ASSUME NEW s, NEW t, NEW j, Script(s, j), Script(t, j), s # <<>>, t # <<>>,
         After(s[Len(s)], t[1]), t[1].op \notin {"read", "stor"},
         Len(s) >= 2 /\ s[Len(s)].op = "read" => s[Len(s) - 1].op # "erase",
         s[Len(s)].op # "connect",
         s[Len(s)].op = "read" /\ t[1].op = "connect" => t[2].op = "greeting",
         \A m \in 1..Len(s), n \in 1..Len(t) : Early(s[m], t[n])
  PROVE  /\ Script(s \o t, j) /\ s \o t # <<>> /\ Len(s \o t) = Len(s) + Len(t)
         /\ \A k \in 1..Len(s) : (s \o t)[k] = s[k]
         /\ \A k \in 1..Len(t) : (s \o t)[k + Len(s)] = t[k]
<1> DEFINE u == s \o t
           l == Len(s)
<1>1. s \in Seq(Operations) /\ t \in Seq(Operations) BY DEF Script
<1>2. /\ u \in Seq(Operations) /\ Len(u) = l + Len(t) /\ l \in Nat /\ Len(t) \in Nat
      /\ \A k \in 1..l : u[k] = s[k]
      /\ \A k \in (l + 1)..(l + Len(t)) : u[k] = t[k - l]
  BY <1>1
<1>3. l >= 1 /\ Len(t) >= 1 BY <1>1
<1>4. \A k \in 1..Len(t) : k + l \in (l + 1)..(l + Len(t)) /\ (k + l) - l = k BY <1>2
<1>5. \A k \in 1..Len(t) : u[k + l] = t[k] BY <1>2, <1>4
<1>6. \A n \in 1..Len(s) : Placed(s[n]) /\ Wanted(s[n], j) BY DEF Script
<1>7. \A n \in 1..Len(t) : Placed(t[n]) /\ Wanted(t[n], j) BY DEF Script
<1> HIDE DEF u, l
<1>8. ASSUME NEW k \in 1..Len(u) 
      PROVE  k \in 1..l \/ (k - l \in 1..Len(t) /\ u[k] = t[k - l])
  BY <1>2
<1>9. \A k \in 1..Len(u) : Placed(u[k]) /\ Wanted(u[k], j)
  <2> TAKE k \in 1..Len(u)
  <2>1. CASE k \in 1..l BY <1>2, <1>6, <2>1 DEF l
  <2>2. CASE k - l \in 1..Len(t) /\ u[k] = t[k - l] BY <1>7, <2>2
  <2> QED BY <1>8, <2>1, <2>2
<1>10. \A k \in 1..(Len(u) - 1) : After(u[k], u[k + 1])
  <2> TAKE k \in 1..(Len(u) - 1)
  <2>1. CASE k < l
    <3>1. k \in 1..l /\ k + 1 \in 1..l /\ k \in 1..(Len(s) - 1) BY <1>2, <2>1 DEF l
    <3>2. u[k] = s[k] /\ u[k + 1] = s[k + 1] BY <1>2, <3>1
    <3> QED BY <3>1, <3>2 DEF Script
  <2>2. CASE k = l
    <3>1. u[k] = s[Len(s)] /\ k + 1 = 1 + l /\ 1 \in 1..Len(t) BY <1>2, <1>3, <2>2 DEF l
    <3> QED BY <1>5, <3>1
  <2>3. CASE k > l
    <3>1. k - l \in 1..(Len(t) - 1) /\ k - l \in 1..Len(t) /\ (k - l) + 1 \in 1..Len(t)
      BY <1>2, <2>3
    <3>2. (k - l) + l = k /\ ((k - l) + 1) + l = k + 1 BY <1>2
    <3>3. u[k] = t[k - l] /\ u[k + 1] = t[(k - l) + 1] BY <1>5, <3>1, <3>2
    <3> QED BY <3>1, <3>3 DEF Script
  <2> QED BY <1>2, <2>1, <2>2, <2>3
<1>11. \A k \in 1..(Len(u) - 2) : Between(u[k], u[k + 1], u[k + 2])
  <2> TAKE k \in 1..(Len(u) - 2)
  <2>1. CASE k + 1 < l
    <3>1. /\ k \in 1..l /\ k + 1 \in 1..l /\ k + 2 \in 1..l /\ k \in 1..(Len(s) - 2)
      BY <1>2, <2>1 DEF l
    <3>2. u[k] = s[k] /\ u[k + 1] = s[k + 1] /\ u[k + 2] = s[k + 2] BY <1>2, <3>1
    <3> QED BY <3>1, <3>2 DEF Script
  <2>2. CASE k + 1 = l
    <3>1. /\ k \in 1..l /\ k + 1 \in 1..l /\ k + 2 = 1 + l /\ 1 \in 1..Len(t) /\ Len(s) >= 2
          /\ k = Len(s) - 1
      BY <1>2, <1>3, <2>2 DEF l
    <3>2. u[k] = s[Len(s) - 1] /\ u[k + 1] = s[Len(s)] /\ u[k + 2] = t[1]
      BY <1>2, <1>5, <2>2, <3>1 DEF l
    <3> QED BY <3>1, <3>2 DEF Between
  <2>3. CASE k = l
    <3>1. /\ k + 1 = 1 + l /\ 1 \in 1..Len(t) /\ k + 2 = 2 + l /\ 2 \in 1..Len(t)
          /\ k \in 1..l
      BY <1>2, <1>3, <2>3
    <3>2. u[k] = s[Len(s)] /\ u[k + 1] = t[1] /\ u[k + 2] = t[2]
      BY <1>2, <1>5, <2>3, <3>1 DEF l
    <3> QED BY <3>2 DEF Between
  <2>4. CASE k > l
    <3>1. /\ k - l \in 1..(Len(t) - 2) /\ k - l \in 1..Len(t) /\ (k - l) + 1 \in 1..Len(t)
          /\ (k - l) + 2 \in 1..Len(t)
      BY <1>2, <2>4
    <3>2. (k - l) + l = k /\ ((k - l) + 1) + l = k + 1 /\ ((k - l) + 2) + l = k + 2 BY <1>2
    <3>3. u[k] = t[k - l] /\ u[k + 1] = t[(k - l) + 1] /\ u[k + 2] = t[(k - l) + 2]
      BY <1>5, <3>1, <3>2
    <3> QED BY <3>1, <3>3 DEF Script
  <2> QED BY <1>2, <2>1, <2>2, <2>3, <2>4
<1>12. \A m, k \in 1..Len(u) : m < k => Early(u[m], u[k])
  <2> SUFFICES ASSUME NEW m \in 1..Len(u), NEW k \in 1..Len(u), m < k
               PROVE  Early(u[m], u[k])
    OBVIOUS
  <2>1. CASE k \in 1..l
    <3>1. m \in 1..l BY <2>1, <1>2
    <3> QED BY <1>2, <2>1, <3>1 DEF Script, l
  <2>2. CASE m \in 1..l /\ k - l \in 1..Len(t) /\ u[k] = t[k - l] BY <1>2, <2>2 DEF l
  <2>3. CASE /\ m - l \in 1..Len(t) /\ u[m] = t[m - l]
             /\ k - l \in 1..Len(t) /\ u[k] = t[k - l]
    <3>1. m - l < k - l BY <1>2
    <3> QED BY <2>3, <3>1 DEF Script
  <2> QED BY <1>8, <2>1, <2>2, <2>3
<1>13. Script(u, j)
  <2>1. \A k \in 1..Len(u) : Placed(u[k]) /\ Wanted(u[k], j) BY <1>9
  <2>2. u \in Seq(Operations) BY <1>2
  <2> QED BY <1>10, <1>11, <1>12, <2>1, <2>2, Zenon DEF Script
<1>14. u # <<>> BY <1>1, <1>2, <1>3
<1>15. \A k \in 1..Len(s) : u[k] = s[k] BY <1>2 DEF l
<1>16. \A k \in 1..Len(t) : u[k + Len(s)] = t[k] BY <1>5 DEF l
<1>17. Len(u) = Len(s) + Len(t) BY <1>2 DEF l
<1> QED BY <1>13, <1>14, <1>15, <1>16, <1>17 DEF u

(* The operation in hand. *)
LEMMA Current ==
  ASSUME ScriptInv, ~Idle
  PROVE  /\ Head(todo) = todo[1] /\ Head(todo) \in Operations
         /\ Placed(Head(todo)) /\ Wanted(Head(todo), job)
         /\ todo \in Seq(Operations) /\ Len(todo) \in Nat /\ Len(todo) >= 1
         /\ Head(todo).op # "close" => Len(todo) >= 2 /\ After(todo[1], todo[2])
BY DEF ScriptInv, Script, Closed, Idle

(* What a step that is done leaves to do. *)
LEMMA GoOn ==
  ASSUME ScriptInv, ~Idle, Go, job' = job
  PROVE  /\ ScriptInv'
         /\ \A n \in DOMAIN todo' : n + 1 \in DOMAIN todo /\ todo'[n] = todo[n + 1]
         /\ Idle' <=> Head(todo).op = "close" /\ Len(todo) = 1
         /\ ~Idle' => /\ Head(todo)' = todo[2] /\ After(Head(todo), Head(todo'))
                      /\ Head(todo') \in Operations /\ Placed(Head(todo'))
                      /\ Head(todo').op = "read" => 
                           (todo'[2].op = "stor" <=> Head(todo).op = "erase")
<1>1. /\ todo \in Seq(Operations) /\ todo # <<>>
      /\ \A n \in 1..Len(todo) : Placed(todo[n]) /\ Wanted(todo[n], job)
      /\ \A n \in 1..(Len(todo) - 1) : After(todo[n], todo[n + 1])
      /\ \A n \in 1..(Len(todo) - 2) : Between(todo[n], todo[n + 1], todo[n + 2])
      /\ \A m, n \in 1..Len(todo) : m < n => Early(todo[m], todo[n])
      /\ todo[Len(todo)].op = "close"
  BY DEF ScriptInv, Script, Closed, Idle
<1>2. /\ todo' \in Seq(Operations) /\ Len(todo') = Len(todo) - 1 /\ Len(todo) \in Nat
      /\ \A k \in 1..(Len(todo) - 1) : todo'[k] = todo[k + 1]
  BY <1>1, TailOfScript DEF Go, ScriptInv, Script
<1>3. Script(todo', job') BY <1>1, TailOfScript DEF Go, ScriptInv
<1>4. Closed(todo)' BY <1>1, <1>2 DEF Closed
<1>5. todo' # <<>> => Len(todo') >= 1 /\ Head(todo') = todo'[1] BY <1>2
<1>6. todo' # <<>> /\ todo'[1].op = "read" => Len(todo') >= 2 BY <1>4, <1>5, <1>2 DEF Closed
<1>7. Head(todo) = todo[1] BY <1>1
<1>8. ASSUME todo' # <<>> 
      PROVE  /\ Head(todo') = todo[2] /\ After(Head(todo), Head(todo'))
             /\ Head(todo') \in Operations /\ Placed(Head(todo'))
             /\ Head(todo').op = "read" => (todo'[2].op = "stor" <=> Head(todo).op = "erase")
  <2>1. Head(todo') = todo[2] /\ 1 \in 1..(Len(todo) - 1) /\ todo[2] \in Operations
    BY <1>1, <1>2, <1>5, <1>8
  <2>2. After(Head(todo), Head(todo')) /\ Placed(Head(todo')) BY <2>1, <1>1, <1>7
  <2>3. ASSUME Head(todo').op = "read" PROVE todo'[2].op = "stor" <=> Head(todo).op = "erase"
    <3>1. Len(todo') >= 2 /\ 1 \in 1..(Len(todo) - 2) BY <1>6, <2>3, <1>5, <1>2, <1>8
    <3>2. todo'[2] = todo[3] BY <3>1, <1>2
    <3>3. Between(todo[1], todo[2], todo[3]) BY <3>1, <1>1
    <3> QED BY <3>2, <3>3, <2>1, <2>3, <1>7 DEF Between
  <2> QED BY <2>1, <2>2, <2>3
<1>9. todo' = <<>> <=> Len(todo) = 1 BY <1>1, <1>2
<1> QED BY <1>1, <1>2, <1>3, <1>4, <1>7, <1>8, <1>9 DEF ScriptInv, Idle

(* An exception leaves what is no part of the upload. *)
LEMMA ThrowOn ==
  ASSUME ScriptInv, ~Idle, Part # "none", Throw, job' = job
  PROVE  /\ ScriptInv' /\ ~Idle'
         /\ \A n \in DOMAIN todo' : \E m \in DOMAIN todo : todo'[n] = todo[m]
         /\ Head(todo').op = "start" \/ (Head(todo').op = "send" /\ Head(todo').of = "none")
         /\ Head(todo') \in Operations /\ Placed(Head(todo'))
<1>1. PICK n \in DOMAIN todo : /\ todo[n].of # Part /\ \A m \in 1..(n - 1) : todo[m].of = Part
                               /\ todo' = SubSeq(todo, n, Len(todo))
  BY DEF Throw
<1>2. /\ todo \in Seq(Operations) /\ todo # <<>>
      /\ \A k \in 1..Len(todo) : Placed(todo[k])
      /\ \A k \in 1..(Len(todo) - 1) : After(todo[k], todo[k + 1])
      /\ todo[Len(todo)].op = "close" /\ Script(todo, job)
  BY DEF ScriptInv, Script, Closed, Idle
<1>3. n \in 1..Len(todo) /\ Len(todo) \in Nat /\ Head(todo) = todo[1] BY <1>2
<1>20. n # 1 BY <1>1, <1>3 DEF Part
<1>4. n - 1 \in 1..(Len(todo) - 1) /\ todo[n - 1].of = Part BY <1>1, <1>3, <1>20
<1>5. After(todo[n - 1], todo[n]) BY <1>4, <1>2, <1>3
<1>6. /\ Script(todo', job) /\ Len(todo') = Len(todo) - n + 1
      /\ \A k \in 1..Len(todo') : todo'[k] = todo[k + n - 1]
  BY <1>1, <1>2, <1>3, RestOfScript
<1>7. todo' \in Seq(Operations) BY <1>6 DEF Script
<1>8. Len(todo') >= 1 /\ todo' # <<>> /\ Head(todo') = todo[n] BY <1>3, <1>6, <1>7
<1>9. Closed(todo') 
  <2> DEFINE l == Len(todo')
  <2>2. l \in Int /\ l = Len(todo) - n + 1 /\ l >= 1 BY <1>3, <1>6, <1>8
  <2> HIDE DEF l
  <2>3. l \in 1..l /\ l + n - 1 = Len(todo) BY <1>3, <2>2
  <2>1. Len(todo') \in 1..Len(todo') /\ Len(todo') + n - 1 = Len(todo) BY <2>3 DEF l
  <2> QED BY <1>2, <1>6, <2>1 DEF Closed
<1>10. \A k \in DOMAIN todo' : k + n - 1 \in DOMAIN todo /\ todo'[k] = todo[k + n - 1]
  BY <1>2, <1>3, <1>6, <1>7
<1>11. todo[n].op = "start" \/ (todo[n].op = "send" /\ todo[n].of = "none")
  BY <1>1, <1>4, <1>5 DEF After
<1>12. todo[n] \in Operations /\ Placed(todo[n]) BY <1>2, <1>3
<1> QED BY <1>6, <1>8, <1>9, <1>10, <1>11, <1>12 DEF ScriptInv, Idle

LEMMA ShownKept ==
  ASSUME ShownInv, UNCHANGED <<job, shown, kernel>>,
         \A n \in DOMAIN todo' : \E m \in DOMAIN todo : todo'[n] = todo[m]
  PROVE  ShownInv'
BY DEF ShownInv, ImageAt

-----------------------------------------------------------------------------
(* Steps after which nothing is owed. *)
LEMMA QuietSync ==
  ASSUME Quiet', conn' => sock' = "open", Idle' => sock' = "null",
         ~Idle' => /\ Head(todo').op \in QuietOps \ {"popup"}
                   /\ Head(todo').of = "none" \/ Head(todo').op = "start" \/ sock' = "open"
  PROVE  SyncInv'
BY DEF SyncInv, QuietOps, OtherOps, Idle, At, StorReply, Part

LEMMA QuietFlash ==
  ASSUME Quiet', data' = <<>>, ShownInv',
         ~Idle' => Head(todo').op \in QuietOps,
         ~Idle' /\ IsStor(Head(todo')) =>
            /\ ImageAt(file.path)' = AskedFor(Part)' /\ AskedFor(Part)' \in Images \cup {"empty"}
            /\ dsock' = "open" /\ file.got' = 0,
         ~Idle' /\ Head(todo').op = "openfile" => dsock' = "open"
  PROVE  FlashInv'
<1>1. FileInv' BY DEF FileInv, Sending, StorReply, At, QuietOps, OtherOps, Idle
<1>2. LinkInv' /\ TransferInv' BY DEF LinkInv, TransferInv, Quiet, Opened, At, QuietOps, OtherOps, StorReply, Idle
<1>3. EndInv' BY DEF EndInv, Quiet
<1>4. OpenInv' BY DEF OpenInv, At, Idle
<1> QED BY <1>1, <1>2, <1>3, <1>4 DEF FlashInv

(* The client's steps. *)
LEMMA SendKeeps == ASSUME UploaderInv, SendCommand PROVE UploaderInv'
<1> USE DEF UploaderInv, SendCommand, At
<1>0. ~Idle /\ job' = job /\ Go /\ Head(todo).op = "send" BY DEF Idle, formVars
<1>1. ScriptInv' /\ \A n \in DOMAIN todo' : n + 1 \in DOMAIN todo /\ todo'[n] = todo[n + 1]
  BY <1>0, GoOn
<1>2. /\ ~Idle' /\ Head(todo)' = todo[2] /\ After(Head(todo), Head(todo'))
      /\ Head(todo').op = "read" => todo'[2].op # "stor"
      /\ Placed(Head(todo')) /\ Placed(Head(todo)) /\ Head(todo) \in Operations
  BY <1>0, GoOn, Current
<1>3. Head(todo').op = IF IsStor(Head(todo)) THEN "erase" ELSE "read"
  BY <1>0, <1>2 DEF After
<1>4. IsStor(Head(todo)) => Part' = Part /\ Head(todo).cmd.var = Part /\ Part \in Parts
  BY <1>0, <1>2 DEF After, Placed, Part, Parts
<1>5. Quiet BY <1>0 DEF SyncInv, QuietOps
<1>6. TypeInv' 
  <2>1. Head(todo).cmd \in Messages BY <1>2 DEF Operations
  <2>2. cmds' \in Seq(Messages) BY <2>1 DEF TypeInv
  <2> QED BY <2>2 DEF TypeInv, formVars, libVars
<1>7. SyncInv' 
  <2>1. cmds' = <<>> \/ cmds' = <<Head(todo).cmd>> BY <1>5 DEF Quiet
  <2>2. /\ replies' = <<>> /\ bucket' = <<>> /\ transfer' = "none" /\ sock' = sock /\ conn' = conn
        /\ sock = "null" => cmds' = <<>>
    BY <1>5 DEF Quiet, libVars, TypeInv
  <2>3. CASE IsStor(Head(todo))
    <3>1. StorAnswer'
      <4>1. CASE cmds' = <<>> BY <2>2, <4>1 DEF StorAnswer
      <4>2. CASE cmds' = <<Head(todo).cmd>>
        <5>1. Len(cmds') = 1 /\ cmds'[1] = Head(todo).cmd /\ Head(todo).cmd.cmd = "STOR"
          BY <2>3, <4>2 DEF IsStor
        <5> QED BY <1>4, <2>2, <2>3, <5>1 DEF StorAnswer
      <4> QED BY <2>1, <4>1, <4>2
    <3>2. sock = "open" BY <1>0, <1>4, <2>3 DEF SyncInv, Parts
    <3> QED BY <1>0, <1>2, <1>3, <1>4, <2>2, <2>3, <3>1, <3>2 DEF SyncInv, StorReply, QuietOps, OtherOps, Idle
  <2>4. CASE ~IsStor(Head(todo))
    <3>1. Answer'
      <4>1. CASE cmds' = <<>> BY <2>2, <4>1 DEF Answer, Quiet
      <4>2. CASE cmds' = <<Head(todo).cmd>>
        <5>1. Len(cmds') = 1 /\ cmds'[1] = Head(todo).cmd /\ Head(todo).cmd.cmd # "STOR"
          BY <1>0, <2>4, <4>2 DEF IsStor
        <5>2. sock # "null" BY <2>2, <4>2
        <5> QED BY <2>2, <5>1, <5>2 DEF Answer
      <4> QED BY <2>1, <4>1, <4>2
    <3>2. Part' # "none" => Part = Part' BY <1>2, <1>3, <2>4, <1>0 DEF After, Part
    <3> QED BY <1>0, <1>2, <1>3, <2>2, <2>4, <3>1, <3>2 DEF SyncInv, StorReply, QuietOps, OtherOps, Idle
  <2> QED BY <2>3, <2>4
<1>8. FlashInv'
  <2>1. ShownInv' BY <1>1, ShownKept DEF FlashInv, formVars
  <2>2. FileInv' BY <1>0, <1>2, <1>3, <1>4 DEF FlashInv, FileInv, Sending, StorReply, ImageAt, AskedFor, formVars, libVars, IsStor
  <2>3. LinkInv' /\ TransferInv' BY <1>2, <1>3, <1>5 DEF FlashInv, LinkInv, TransferInv, Quiet, Opened, Started
  <2>4. EndInv' BY <1>5 DEF EndInv, Quiet, libVars
  <2>5. OpenInv' BY <1>3 DEF OpenInv
  <2> QED BY <2>1, <2>2, <2>3, <2>4, <2>5 DEF FlashInv
<1> QED BY <1>1, <1>6, <1>7, <1>8

(* What a quiet operation is followed by. *)
LEMMA QuietNext ==
  ASSUME UploaderInv, ~Idle, Head(todo).op \in QuietOps
  PROVE  /\ Quiet /\ data = <<>>
         /\ Head(todo).op \in OtherOps => Part = "none"
         /\ Head(todo).op \in {"start", "port", "opendata", "openfile"} => Part \in Parts
BY Current DEF UploaderInv, SyncInv, FlashInv, LinkInv, Quiet, Placed, Part, OtherOps, PartOps, Parts

LEMMA DisconnectKeeps ==
  ASSUME UploaderInv, Quiet, Disconnect, UNCHANGED <<formVars, response, bucket>>
  PROVE  Quiet' /\ TypeInv' /\ ~conn' /\ sock' = "null" /\ data' = data
<1> USE DEF Disconnect
<1>1. sock' = "null" /\ conn' = FALSE BY DEF UploaderInv, TypeInv, SyncInv
<1>2. cmds' = <<>> /\ replies' = <<>> /\ bucket' = <<>> /\ transfer' = "none" BY DEF Quiet
<1>3. dsock' = "null" /\ link' \in {"none", "listening", "open", "closed", "broken"}
  BY DEF CloseDataSocket, UploaderInv, TypeInv
<1>4. file' \in [path : Images \cup {"kernel", "empty", "none"}, got : Nat]
  BY DEF NoFile
<1>5. cmds' \in Seq(Messages) /\ replies' \in Seq(Nat) BY <1>2
<1>6. TypeInv' BY <1>1, <1>2, <1>3, <1>4, <1>5 DEF UploaderInv, TypeInv, formVars, Parts
<1> QED BY <1>1, <1>2, <1>6 DEF Quiet

(* QUIT, and the failures of a login. *)
LEMMA CloseKeeps == ASSUME UploaderInv, close \/ Login \/ Pass PROVE UploaderInv'
<1> USE DEF At
<1>0. /\ ~Idle /\ Go /\ job' = job /\ UNCHANGED <<formVars, response, bucket>>
      /\ Head(todo).op \in {"close", "login", "pass"}
      /\ Head(todo).op = "close" => Disconnect
      /\ Disconnect \/ UNCHANGED <<boxVars, sock, dsock, file>>
  BY DEF close, Login, Pass, Idle, formVars
<1>1. Quiet /\ data = <<>> /\ Part = "none"
  BY <1>0, QuietNext DEF QuietOps, OtherOps
<1>2. ScriptInv' /\ \A n \in DOMAIN todo' : n + 1 \in DOMAIN todo /\ todo'[n] = todo[n + 1]
  BY <1>0, GoOn DEF UploaderInv
<1>3. ~Idle' => /\ Head(todo').op \in QuietOps \ {"popup", "openfile"} /\ ~IsStor(Head(todo'))
                /\ Head(todo').of = "none" \/ Head(todo').op = "start"
  BY <1>0, <1>1, GoOn DEF UploaderInv, After, Part, QuietOps, IsStor, Placed, Parts
<1>4. /\ Quiet' /\ TypeInv' /\ data' = data /\ (conn' => sock' = "open")
      /\ Disconnect => sock' = "null"
  <2>1. CASE Disconnect BY <1>0, <1>1, <2>1, DisconnectKeeps
  <2>2. CASE ~Disconnect
    <3>1. UNCHANGED <<boxVars, sock, dsock, file>> BY <1>0, <2>2
    <3>2. TypeInv' BY <1>0, <3>1 DEF UploaderInv, TypeInv, boxVars, formVars
    <3> QED BY <1>0, <1>1, <2>2, <3>1, <3>2 DEF UploaderInv, SyncInv, Quiet, boxVars
  <2> QED BY <2>1, <2>2
<1>5. Idle' => sock' = "null" BY <1>0, <1>4, GoOn DEF UploaderInv
<1>6. SyncInv' BY <1>3, <1>4, <1>5, QuietSync
<1>7. ShownInv' BY <1>0, <1>2, ShownKept DEF UploaderInv, FlashInv, formVars
<1>8. FlashInv' BY <1>1, <1>3, <1>4, <1>7, QuietFlash DEF QuietOps
<1> QED BY <1>2, <1>4, <1>6, <1>8 DEF UploaderInv

-----------------------------------------------------------------------------
(* Pieces of the handler, which its script is put together from. *)
Fresh(a) == a.op \in QuietOps /\ ~IsStor(a) /\ (a.of = "none" \/ a.op = "start")
EndOf(s) == s[Len(s)]
Piece(s, j) ==
  /\ Script(s, j) /\ s # <<>> /\ Fresh(s[1])
  /\ EndOf(s).op \in {"read", "greeting", "login", "user", "pass", "close", "block"}
  /\ EndOf(s).op # "block" => EndOf(s).of = "none"
  /\ EndOf(s).op = "read" /\ Len(s) >= 2 => s[Len(s) - 1].op # "erase"
Plain(s) == \A n \in 1..Len(s) : s[n].of = "none"
Later(s) == \A n \in 1..Len(s) : s[n].of # "mtd1"

LEMMA Single ==
  ASSUME NEW a \in Operations, NEW j, Placed(a), a.of = "none", Fresh(a),
         a.op \in {"login", "user", "pass", "close"}
  PROVE  Piece(<<a>>, j) /\ Plain(<<a>>) /\ Later(<<a>>) /\ EndOf(<<a>>) = a /\ <<a>>[1] = a
<1> DEFINE s == <<a>>
<1>1. s \in Seq(Operations) /\ Len(s) = 1 /\ s # <<>> /\ s[1] = a OBVIOUS
<1> HIDE DEF s
<1>2. Wanted(a, j) BY DEF Wanted
<1>3. \A m, n \in 1..Len(s) : ~(m < n) BY <1>1
<1>4. 1..(Len(s) - 1) = {} /\ 1..(Len(s) - 2) = {} BY <1>1
<1>5. Script(s, j) BY <1>1, <1>2, <1>3, <1>4 DEF Script
<1> QED BY <1>1, <1>5 DEF Piece, Plain, Later, EndOf, s

LEMMA Pair ==
  ASSUME NEW a \in Operations, NEW b \in Operations, NEW j, Placed(a), Placed(b),
         a.of = "none", b.of = "none", Fresh(a), After(a, b), b.op \in {"read", "greeting"}
  PROVE  /\ Piece(<<a, b>>, j) /\ Plain(<<a, b>>) /\ Later(<<a, b>>)
         /\ EndOf(<<a, b>>) = b /\ <<a, b>>[1] = a
<1> DEFINE s == <<a, b>>
<1>1. s \in Seq(Operations) /\ Len(s) = 2 /\ s # <<>> /\ s[1] = a /\ s[2] = b OBVIOUS
<1> HIDE DEF s
<1>2. Wanted(a, j) /\ Wanted(b, j) BY DEF Wanted
<1>3. \A n \in 1..Len(s) : s[n] \in {a, b} BY <1>1
<1>4. \A n \in 1..(Len(s) - 1) : s[n] = a /\ s[n + 1] = b BY <1>1
<1>5. 1..(Len(s) - 2) = {} BY <1>1
<1>6. Early(a, b) /\ Early(a, a) /\ Early(b, b) /\ Early(b, a)
  BY DEF Early, Fresh, QuietOps, OtherOps
<1>7. \A m, n \in 1..Len(s) : Early(s[m], s[n]) BY <1>3, <1>6
<1>8. Script(s, j) BY <1>1, <1>2, <1>3, <1>4, <1>5, <1>7 DEF Script
<1>9. s[Len(s) - 1].op # "erase" BY <1>1 DEF Fresh, QuietOps, OtherOps
<1> QED BY <1>1, <1>3, <1>8, <1>9 DEF Piece, Plain, Later, EndOf, s

LEMMA Chained ==
  ASSUME NEW s, NEW t, NEW j, Piece(s, j), Piece(t, j), t[1].op # "popup",
         Plain(s) \/ Later(t),
         EndOf(s).op = "block" => t[1].op \in {"start", "send"} /\ t[1].of # EndOf(s).of,
         t[1].op = "connect" =>
           EndOf(s).op = "close" \/ (EndOf(s).op = "read" /\ t[2].op = "greeting")
  PROVE  /\ Piece(s \o t, j) /\ (s \o t)[1] = s[1] /\ EndOf(s \o t) = EndOf(t)
         /\ Plain(s) /\ Plain(t) => Plain(s \o t)
         /\ Later(s) /\ Later(t) => Later(s \o t)
<1> DEFINE u == s \o t
<1>1. /\ Script(s, j) /\ Script(t, j) /\ s # <<>> /\ t # <<>>
      /\ s \in Seq(Operations) /\ t \in Seq(Operations)
  BY DEF Piece, Script
<1>2. Len(s) \in Nat /\ Len(t) \in Nat /\ Len(s) # 0 /\ Len(t) # 0 BY <1>1
<1>4. Placed(EndOf(s)) /\ Placed(t[1]) BY <1>1, <1>2 DEF Script, EndOf
<1>3. /\ t[1].op \in QuietOps \ {"popup", "openfile"} /\ ~IsStor(t[1])
      /\ t[1].of = "none" \/ t[1].op = "start"
  BY <1>4 DEF Piece, Fresh, Placed, PartOps, Parts
<1>5. After(EndOf(s), t[1])
  <2>1. CASE EndOf(s).op = "block"
    <3>1. EndOf(s).of \in Parts BY <1>4, <2>1 DEF Placed, PartOps
    <3>2. t[1].op \in {"start", "send"} /\ t[1].of # EndOf(s).of BY <2>1
    <3> QED BY <1>3, <2>1, <3>1, <3>2 DEF After, Parts, QuietOps, OtherOps
  <2>2. CASE EndOf(s).op # "block"
    <3>1. EndOf(s).of = "none" /\ EndOf(s).op \in {"read", "greeting", "login", "user", "pass", "close"}
      BY <2>2 DEF Piece
    <3> QED BY <1>3, <3>1 DEF After
  <2> QED BY <2>1, <2>2
<1>6. \A m \in 1..Len(s), n \in 1..Len(t) : Early(s[m], t[n])
  <2>1. CASE Plain(s)
    <3>1. \A m \in 1..Len(s) : Placed(s[m]) /\ s[m].of = "none" BY <1>1, <2>1 DEF Script, Plain
    <3>2. \A m \in 1..Len(s) : s[m].op \notin PartOps BY <3>1 DEF Placed, Parts
    <3> QED BY <3>2 DEF Early, PartOps
  <2>2. CASE Later(t) BY <2>2 DEF Early, Later
  <2> QED BY <2>1, <2>2
<1>7. /\ Script(u, j) /\ u # <<>> /\ Len(u) = Len(s) + Len(t)
      /\ \A k \in 1..Len(s) : u[k] = s[k]
      /\ \A k \in 1..Len(t) : u[k + Len(s)] = t[k]
  <2>1. Len(s) >= 2 /\ s[Len(s)].op = "read" => s[Len(s) - 1].op # "erase" BY DEF Piece, EndOf
  <2>2. t[1].op \notin {"read", "stor"} BY <1>3 DEF QuietOps, OtherOps
  <2>3. After(s[Len(s)], t[1]) BY <1>5 DEF EndOf
  <2>4. s[Len(s)].op # "connect" BY DEF Piece, EndOf
  <2>5. s[Len(s)].op = "read" /\ t[1].op = "connect" => t[2].op = "greeting" BY DEF EndOf
  <2> QED BY <1>1, <1>6, <2>1, <2>2, <2>3, <2>4, <2>5, Joined
<1> HIDE DEF u
<1>8. \A k \in 1..Len(u) : \/ k \in 1..Len(s)
                           \/ k - Len(s) \in 1..Len(t) /\ (k - Len(s)) + Len(s) = k
  BY <1>2, <1>7
<1>14. \A k \in 1..Len(u) : (\E m \in 1..Len(s) : u[k] = s[m]) \/ (\E m \in 1..Len(t) : u[k] = t[m])
  BY <1>7, <1>8
<1>9. /\ Plain(s) /\ Plain(t) => Plain(u)
      /\ Later(s) /\ Later(t) => Later(u)
  BY <1>14 DEF Plain, Later
<1>10. u[1] = s[1] BY <1>2, <1>7
<1>11. EndOf(u) = EndOf(t)
  <2>1. Len(t) \in 1..Len(t) /\ Len(t) + Len(s) = Len(u) BY <1>2, <1>7
  <2> QED BY <1>7, <2>1 DEF EndOf
<1>12. ASSUME EndOf(u).op = "read", Len(u) >= 2 PROVE u[Len(u) - 1].op # "erase"
  <2>1. CASE Len(t) = 1
    <3>1. t[1].op = "read" BY <1>11, <1>12, <2>1 DEF EndOf
    <3> QED BY <1>3, <3>1 DEF QuietOps, OtherOps
  <2>2. CASE Len(t) >= 2
    <3>1. Len(t) - 1 \in 1..Len(t) /\ (Len(t) - 1) + Len(s) = Len(u) - 1 BY <1>2, <1>7, <2>2
    <3>2. u[Len(u) - 1] = t[Len(t) - 1] BY <1>7, <3>1
    <3> QED BY <1>11, <1>12, <2>2, <3>2 DEF Piece
  <2>3. \A n \in Nat : n # 0 => n = 1 \/ n >= 2 OBVIOUS
  <2>4. Len(t) = 1 \/ Len(t) >= 2 BY <1>2, <2>3, Zenon
  <2> QED BY <2>1, <2>2, <2>4
<1>13. Piece(u, j) BY <1>7, <1>10, <1>11, <1>12 DEF Piece
<1> QED BY <1>9, <1>10, <1>11, <1>13 DEF u

(* A command that is quoted, and the login. *)
LEMMA Quoted ==
  ASSUME NEW j, NEW c, NEW v, NEW t, Message(c, v, t) \in Messages, c # "STOR"
  PROVE  /\ Piece(quote(c, v, t), j) /\ Plain(quote(c, v, t)) /\ Later(quote(c, v, t))
         /\ EndOf(quote(c, v, t)).op = "read" /\ quote(c, v, t)[1].op = "send"
         /\ quote(c, v, t)[1].of = "none"
<1> DEFINE a == Send(c, v, t, "none")
           b == Read("none")
<1>1. a.op = "send" /\ a.of = "none" /\ a.cmd.cmd = c /\ b.op = "read" /\ b.of = "none"
  BY DEF Send, Read, Op, Message
<1>2. a \in Operations BY DEF Send, Operations
<1>3. b \in Operations
  BY DEF Read, Op, Message, Operations, Messages
<1> HIDE DEF a, b
<1>4. Placed(a) /\ Placed(b) /\ Fresh(a) BY <1>1 DEF Placed, Fresh, IsStor, PartOps, OtherOps, QuietOps
<1>5. After(a, b) BY <1>1 DEF After, IsStor
<1>6. /\ Piece(<<a, b>>, j) /\ Plain(<<a, b>>) /\ Later(<<a, b>>)
      /\ EndOf(<<a, b>>) = b /\ <<a, b>>[1] = a
  BY <1>1, <1>2, <1>3, <1>4, <1>5, Pair
<1>7. quote(c, v, t) = <<a, b>> BY DEF quote, a, b
<1> QED BY <1>1, <1>6, <1>7

LEMMA One ==
  ASSUME NEW j, NEW o \in {"login", "user", "pass", "close"}
  PROVE  /\ Piece(<<Op(o, "none")>>, j) /\ Plain(<<Op(o, "none")>>) /\ Later(<<Op(o, "none")>>)
         /\ EndOf(<<Op(o, "none")>>).op = o /\ <<Op(o, "none")>>[1].op = o
<1> DEFINE a == Op(o, "none")
<1>1. a.op = o /\ a.of = "none" BY DEF Op, Message
<1>2. a \in Operations BY DEF Op, Message, Operations, Messages, OtherOps
<1> HIDE DEF a
<1>3. Placed(a) /\ Fresh(a) BY <1>1 DEF Placed, Fresh, IsStor, PartOps, OtherOps, QuietOps
<1> QED BY <1>1, <1>2, <1>3, Single DEF a

LEMMA Upload ==
  ASSUME NEW j, NEW p \in Parts, p = "mtd1" => j.push, p # "mtd1" => j.clear
  PROVE  /\ Piece(uploadOps(p), j) /\ (p # "mtd1" => Later(uploadOps(p)))
         /\ EndOf(uploadOps(p)).op = "block" /\ EndOf(uploadOps(p)).of = p
         /\ uploadOps(p)[1].op = "start" /\ uploadOps(p)[1].of = p
<1> DEFINE s == uploadOps(p)
<1>1. Len(s) = 11 /\ s # <<>> BY DEF uploadOps
<1>2. /\ s[1].op = "start" /\ s[1].of = p
      /\ s[2].op = "send" /\ s[2].of = p
      /\ s[3].op = "read" /\ s[3].of = p
      /\ s[4].op = "port" /\ s[4].of = p
      /\ s[5].op = "opendata" /\ s[5].of = p
      /\ s[6].op = "openfile" /\ s[6].of = p
      /\ s[7].op = "send" /\ s[7].of = p
      /\ s[8].op = "erase" /\ s[8].of = p
      /\ s[9].op = "read" /\ s[9].of = p
      /\ s[10].op = "stor" /\ s[10].of = p
      /\ s[11].op = "block" /\ s[11].of = p
  BY DEF uploadOps, Op, Read, Send, Message
<1>3. s[2].cmd.cmd = "PASV" /\ s[7].cmd.cmd = "STOR" /\ s[7].cmd.var = p
  BY DEF uploadOps, Op, Read, Send, Message
<1>4. s \in Seq(Operations)
  <2>1. \A o \in PartOps \cup {"read"} : Op(o, p) \in Operations
    BY DEF Op, Message, Operations, Messages
  <2>2. Send("PASV", "", "", p) \in Operations BY DEF Send, Message, Operations, Messages
  <2>3. Send("STOR", p, "", p) \in Operations BY DEF Send, Message, Operations, Messages
  <2>4. /\ Op("start", p) \in Operations /\ Op("port", p) \in Operations
        /\ Op("opendata", p) \in Operations /\ Op("openfile", p) \in Operations
        /\ Op("erase", p) \in Operations /\ Op("stor", p) \in Operations
        /\ Op("block", p) \in Operations /\ Read(p) \in Operations
    BY <2>1 DEF PartOps, Read
  <2>5. ASSUME NEW a \in Operations, NEW b \in Operations, NEW c \in Operations,
               NEW d \in Operations, NEW e \in Operations, NEW f \in Operations,
               NEW g \in Operations, NEW h \in Operations, NEW i \in Operations,
               NEW k \in Operations
        PROVE  <<a, b, c, d, e, f, g, h, c, i, k>> \in Seq(Operations)
    OBVIOUS
  <2> QED BY <2>2, <2>3, <2>4, <2>5 DEF uploadOps
<1> HIDE DEF s
<1>5. p # "none" BY DEF Parts
<1>6. \A n \in 1..11 : Placed(s[n]) /\ Wanted(s[n], j)
  <2>1. \A n \in 1..11 : s[n].of = p /\ s[n].op \notin OtherOps \cup {"popup", "greeting"}
                         /\ (n # 7 => ~IsStor(s[n]))
    BY <1>2, <1>3 DEF IsStor, OtherOps
  <2> QED BY <1>3, <2>1 DEF Placed, Wanted, Parts
<1>7. \A n \in 1..10 : After(s[n], s[n + 1])
  <2>1. /\ After(s[1], s[2]) /\ After(s[2], s[3]) /\ After(s[3], s[4]) /\ After(s[4], s[5])
        /\ After(s[5], s[6])
    BY <1>2, <1>3, <1>5 DEF After, IsStor, QuietOps, OtherOps
  <2>2. /\ After(s[6], s[7]) /\ After(s[7], s[8]) /\ After(s[8], s[9]) /\ After(s[9], s[10])
        /\ After(s[10], s[11])
    BY <1>2, <1>3, <1>5 DEF After, IsStor, QuietOps, OtherOps
  <2>3. \A n \in 1..10 : n = 1 \/ n = 2 \/ n = 3 \/ n = 4 \/ n = 5 \/ n = 6 \/ n = 7 \/ n = 8
                         \/ n = 9 \/ n = 10
    OBVIOUS
  <2> QED BY <2>1, <2>2, <2>3
<1>8. \A n \in 1..9 : Between(s[n], s[n + 1], s[n + 2])
  <2>1. /\ Between(s[1], s[2], s[3]) /\ Between(s[2], s[3], s[4]) /\ Between(s[3], s[4], s[5])
        /\ Between(s[4], s[5], s[6]) /\ Between(s[5], s[6], s[7]) /\ Between(s[6], s[7], s[8])
        /\ Between(s[7], s[8], s[9]) /\ Between(s[8], s[9], s[10])
        /\ Between(s[9], s[10], s[11])
    BY <1>2 DEF Between
  <2>2. \A n \in 1..9 : n = 1 \/ n = 2 \/ n = 3 \/ n = 4 \/ n = 5 \/ n = 6 \/ n = 7 \/ n = 8
                         \/ n = 9
    OBVIOUS
  <2> QED BY <2>1, <2>2
<1>9. \A m, n \in 1..11 : m < n => Early(s[m], s[n])
  <2>1. \A m \in 1..11 : s[m].op \in {"erase", "block", "finish"} => m >= 8 BY <1>2
  <2>2. \A n \in 1..11 : s[n].op = "openfile" => n = 6 BY <1>2
  <2> QED BY <2>1, <2>2 DEF Early
<1>10. Script(s, j) BY <1>1, <1>4, <1>6, <1>7, <1>8, <1>9 DEF Script
<1>11. EndOf(s) = s[11] BY <1>1 DEF EndOf
<1>12. Fresh(s[1]) BY <1>2 DEF Fresh, QuietOps, IsStor
<1>13. Piece(s, j) BY <1>1, <1>2, <1>10, <1>11, <1>12 DEF Piece
<1>14. p # "mtd1" => Later(s)
  <2>1. \A n \in 1..11 : s[n].of = p BY <1>2
  <2> QED BY <1>1, <2>1 DEF Later
<1> QED BY <1>2, <1>11, <1>13, <1>14 DEF s

(* The whole script of a click. *)
LEMMA LoginPiece ==
  ASSUME NEW j
  PROVE  /\ Piece(LoginOps, j) /\ Plain(LoginOps) /\ Later(LoginOps)
         /\ EndOf(LoginOps).op = "user" /\ LoginOps[1].op = "login"
<1> DEFINE a == <<Op("login", "none")>>
           b == quote("USER", "", "")
           c == <<Op("user", "none")>>
<1>1. /\ Piece(a, j) /\ Plain(a) /\ Later(a) /\ EndOf(a).op = "login" /\ a[1].op = "login" BY One
<1>2. /\ Piece(c, j) /\ Plain(c) /\ Later(c) /\ EndOf(c).op = "user" /\ c[1].op = "user" BY One
<1>3. /\ Piece(b, j) /\ Plain(b) /\ Later(b) /\ EndOf(b).op = "read" /\ b[1].op = "send"
  BY Quoted DEF Message, Messages
<1>4. LoginOps = (a \o b) \o c BY DEF LoginOps
<1> HIDE DEF a, b, c
<1> DEFINE d == a \o b
<1>5. /\ Piece(d, j) /\ Plain(d) /\ Later(d) /\ EndOf(d).op = "read" /\ d[1].op = "login"
  BY <1>1, <1>3, Chained
<1> HIDE DEF d
<1>6. LoginOps = d \o c BY <1>4 DEF d
<1> QED BY <1>2, <1>5, <1>6, Chained

LEMMA SetenvPiece ==
  ASSUME NEW j, j.brand \in Brands
  PROVE  /\ Piece(SetenvOps(j), j) /\ Plain(SetenvOps(j)) /\ Later(SetenvOps(j))
         /\ EndOf(SetenvOps(j)).op = "read" /\ SetenvOps(j)[1].op = "send"
<1> DEFINE a == quote("SETENV", "my_ipaddress", "192.168.178.1")
           b == quote("SETENV", "firmware_version", j.brand)
<1>1. /\ Piece(a, j) /\ Plain(a) /\ Later(a) /\ EndOf(a).op = "read" /\ a[1].op = "send"
  BY Quoted DEF Message, Messages, Addresses
<1>2. /\ Piece(b, j) /\ Plain(b) /\ Later(b) /\ EndOf(b).op = "read" /\ b[1].op = "send"
  <2>1. Message("SETENV", "firmware_version", j.brand) \in Messages BY DEF Message, Messages
  <2> QED BY <2>1, Quoted
<1> HIDE DEF a, b
<1>3. SetenvOps(j) = a \o b BY DEF SetenvOps, a, b
<1> QED BY <1>1, <1>2, <1>3, Chained

LEMMA DoItPiece ==
  ASSUME NEW j, j.brand \in Brands, j.push \in BOOLEAN, j.clear \in BOOLEAN,
         NEW ip \in Addresses
  PROVE  /\ Piece(DoItOps(j, ip), j) /\ EndOf(DoItOps(j, ip)).op = "close"
         /\ DoItOps(j, ip)[1].op = "popup"
<1> DEFINE a == <<To("popup", ip), Read("none")>>
           b == quote("GETENV", "", "")
           c == IF j.push THEN uploadOps("mtd1") ELSE <<>>
           d == uploadOps("mtd3") \o uploadOps("mtd4") \o quote("SETENV", "autoload", "no")
           e == IF j.clear THEN d ELSE <<>>
           f == quote("REBOOT", "", "")
           g == <<Op("close", "none")>>
<1>1. DoItOps(j, ip) = ((((((a \o LoginOps) \o b) \o SetenvOps(j)) \o c) \o e) \o f) \o g
  BY DEF DoItOps
<1>2. Piece(a, j) /\ Plain(a) /\ EndOf(a).op = "read" /\ a[1].op = "popup"
  <2>1. /\ To("popup", ip) \in Operations /\ To("popup", ip).op = "popup"
        /\ To("popup", ip).of = "none"
    BY DEF To, Message, Operations, Messages
  <2>2. Read("none") \in Operations /\ Read("none").op = "read" /\ Read("none").of = "none"
    BY DEF Read, Op, Message, Operations, Messages
  <2>3. Placed(To("popup", ip)) /\ Placed(Read("none")) /\ Fresh(To("popup", ip))
    BY <2>1, <2>2 DEF Placed, Fresh, IsStor, PartOps, OtherOps, QuietOps
  <2>4. After(To("popup", ip), Read("none")) BY <2>1, <2>2 DEF After, IsStor
  <2> QED BY <2>1, <2>2, <2>3, <2>4, Pair
<1>3. /\ Piece(b, j) /\ Plain(b) /\ EndOf(b).op = "read" /\ b[1].op = "send"
  BY Quoted DEF Message, Messages
<1>4. /\ Piece(f, j) /\ Plain(f) /\ Later(f) /\ EndOf(f).op = "read" /\ f[1].op = "send" /\ f[1].of = "none"
  BY Quoted DEF Message, Messages
<1>5. /\ Piece(g, j) /\ Plain(g) /\ Later(g) /\ EndOf(g).op = "close" /\ g[1].op = "close" BY One
<1> HIDE DEF a, b, f, g
<1> DEFINE h == a \o LoginOps
           i == h \o b
           k == i \o SetenvOps(j)
           l == k \o c
           m == l \o e
           n == m \o f
<1>6. Piece(h, j) /\ Plain(h) /\ EndOf(h).op = "user" /\ h[1].op = "popup"
  BY <1>2, LoginPiece, Chained
<1> HIDE DEF h
<1>7. Piece(i, j) /\ Plain(i) /\ EndOf(i).op = "read" /\ i[1].op = "popup"
  BY <1>6, <1>3, Chained
<1> HIDE DEF i
<1>8. Piece(k, j) /\ Plain(k) /\ EndOf(k).op = "read" /\ k[1].op = "popup"
  <2>1. /\ Piece(SetenvOps(j), j) /\ Plain(SetenvOps(j)) /\ Later(SetenvOps(j))
        /\ EndOf(SetenvOps(j)).op = "read" /\ SetenvOps(j)[1].op = "send"
    BY SetenvPiece
  <2> QED BY <1>7, <2>1, Chained
<1> HIDE DEF k
<1>9. \A s : Piece(s, j) => s \o <<>> = s
  <2>1. \A s : Piece(s, j) => s \in Seq(Operations) BY DEF Piece, Script
  <2> QED BY <2>1
<1>10. /\ Piece(l, j) /\ l[1].op = "popup"
       /\ EndOf(l).op = "read" \/ (EndOf(l).op = "block" /\ EndOf(l).of = "mtd1")
  <2>1. CASE j.push
    <3>1. c = uploadOps("mtd1") /\ "mtd1" \in Parts BY <2>1 DEF Parts
    <3>2. /\ Piece(c, j) /\ EndOf(c).op = "block" /\ EndOf(c).of = "mtd1"
          /\ c[1].op = "start" /\ c[1].of = "mtd1"
      BY <2>1, <3>1, Upload
    <3> HIDE DEF c
    <3> QED BY <1>8, <3>2, Chained
  <2>2. CASE ~j.push
    <3>1. l = k BY <1>8, <1>9, <2>2
    <3> QED BY <1>8, <3>1
  <2> QED BY <2>1, <2>2
<1> HIDE DEF l, c
<1>11. /\ Piece(m, j) /\ m[1].op = "popup"
       /\ EndOf(m).op = "read" \/ (EndOf(m).op = "block" /\ EndOf(m).of = "mtd1")
  <2>1. CASE j.clear
    <3> DEFINE x == uploadOps("mtd3")
               y == uploadOps("mtd4")
               z == quote("SETENV", "autoload", "no")
               w == x \o y
    <3>1. "mtd3" \in Parts /\ "mtd4" \in Parts BY DEF Parts
    <3>2. /\ Piece(x, j) /\ Later(x) /\ EndOf(x).op = "block" /\ EndOf(x).of = "mtd3"
          /\ x[1].op = "start" /\ x[1].of = "mtd3"
      BY <2>1, <3>1, Upload
    <3>3. /\ Piece(y, j) /\ Later(y) /\ EndOf(y).op = "block" /\ EndOf(y).of = "mtd4"
          /\ y[1].op = "start" /\ y[1].of = "mtd4"
      BY <2>1, <3>1, Upload
    <3>4. /\ Piece(z, j) /\ Later(z) /\ EndOf(z).op = "read" /\ z[1].op = "send" /\ z[1].of = "none"
      BY Quoted DEF Message, Messages
    <3>5. d = w \o z OBVIOUS
    <3> HIDE DEF x, y, z, d
    <3>6. /\ Piece(w, j) /\ Later(w) /\ EndOf(w).op = "block" /\ EndOf(w).of = "mtd4"
          /\ w[1].op = "start" /\ w[1].of = "mtd3"
      BY <3>2, <3>3, Chained
    <3> HIDE DEF w
    <3>7. /\ Piece(d, j) /\ Later(d) /\ EndOf(d).op = "read"
          /\ d[1].op = "start" /\ d[1].of = "mtd3"
      BY <3>4, <3>5, <3>6, Chained
    <3>8. m = l \o d BY <2>1
    <3> HIDE DEF m
    <3> QED BY <1>10, <3>7, <3>8, Chained
  <2>2. CASE ~j.clear
    <3>1. m = l BY <1>9, <1>10, <2>2
    <3> QED BY <1>10, <3>1
  <2> QED BY <2>1, <2>2
<1> HIDE DEF m, e, d
<1>12. Piece(n, j) /\ EndOf(n).op = "read" /\ n[1].op = "popup"
  BY <1>4, <1>11, Chained
<1> HIDE DEF n
<1>13. DoItOps(j, ip) = n \o g BY <1>1 DEF n, m, l, k, i, h
<1> QED BY <1>5, <1>12, <1>13, Chained

LEMMA DoItAgainPiece ==
  ASSUME NEW j, j.brand \in Brands
  PROVE  /\ Piece(DoItAgainOps(j), j) /\ Later(DoItAgainOps(j))
         /\ EndOf(DoItAgainOps(j)).op = "close" /\ DoItAgainOps(j)[1].op = "connect"
<1> DEFINE o == To("connect", "192.168.2.1")
           a == <<o, Read("none"), o, Op("greeting", "none")>>
           b == quote("SETENV", "autoload", "yes")
           f == quote("REBOOT", "", "")
           g == <<Op("close", "none")>>
<1>1. DoItAgainOps(j) = ((((a \o LoginOps) \o SetenvOps(j)) \o b) \o f) \o g BY DEF DoItAgainOps
<1>2. Piece(a, j) /\ Later(a) /\ EndOf(a).op = "greeting" /\ a[1].op = "connect"
  <2>1. o \in Operations /\ o.op = "connect" /\ o.of = "none"
    BY DEF To, Message, Operations, Messages, OtherOps, Addresses
  <2>2. Read("none") \in Operations /\ Read("none").op = "read" /\ Read("none").of = "none"
    BY DEF Read, Op, Message, Operations, Messages
  <2>3. /\ Op("greeting", "none") \in Operations /\ Op("greeting", "none").op = "greeting"
        /\ Op("greeting", "none").of = "none"
    BY DEF Op, Message, Operations, Messages
  <2> DEFINE r == Read("none")
             w == Op("greeting", "none")
  <2> HIDE DEF o, r, w
  <2>4. a = <<o, r>> \o <<o, w>>
    <3>1. a = <<o, r, o, w>> BY DEF r, w
    <3> QED BY <3>1
  <2>5. Placed(o) /\ Placed(r) /\ Placed(w) /\ Fresh(o)
    BY <2>1, <2>2, <2>3 DEF Placed, Fresh, IsStor, PartOps, OtherOps, QuietOps, r, w
  <2>6. After(o, r) /\ After(o, w) BY <2>1, <2>2, <2>3 DEF After, IsStor, r, w
  <2> DEFINE s == <<o, r>>
             t == <<o, w>>
  <2>7. Piece(s, j) /\ Plain(s) /\ Later(s) /\ EndOf(s).op = "read" /\ s[1].op = "connect"
    BY <2>1, <2>2, <2>5, <2>6, Pair DEF r
  <2>8. /\ Piece(t, j) /\ Plain(t) /\ Later(t) /\ EndOf(t).op = "greeting"
        /\ t[1].op = "connect" /\ t[2].op = "greeting"
    BY <2>1, <2>3, <2>5, <2>6, Pair DEF w
  <2>9. a = s \o t BY <2>4
  <2> HIDE DEF s, t, a
  <2> QED BY <2>7, <2>8, <2>9, Chained
<1>3. /\ Piece(b, j) /\ Later(b) /\ EndOf(b).op = "read" /\ b[1].op = "send"
  BY Quoted DEF Message, Messages
<1>4. /\ Piece(f, j) /\ Later(f) /\ EndOf(f).op = "read" /\ f[1].op = "send"
  BY Quoted DEF Message, Messages
<1>5. /\ Piece(g, j) /\ Later(g) /\ EndOf(g).op = "close" /\ g[1].op = "close" BY One
<1> HIDE DEF a, b, f, g
<1> DEFINE h == a \o LoginOps
           i == h \o SetenvOps(j)
           k == i \o b
           l == k \o f
<1>6. Piece(h, j) /\ Later(h) /\ EndOf(h).op = "user" /\ h[1].op = "connect"
  BY <1>2, LoginPiece, Chained
<1> HIDE DEF h
<1>7. Piece(i, j) /\ Later(i) /\ EndOf(i).op = "read" /\ i[1].op = "connect"
  <2>1. /\ Piece(SetenvOps(j), j) /\ Plain(SetenvOps(j)) /\ Later(SetenvOps(j))
        /\ EndOf(SetenvOps(j)).op = "read" /\ SetenvOps(j)[1].op = "send"
    BY SetenvPiece
  <2> QED BY <1>6, <2>1, Chained
<1> HIDE DEF i
<1>8. Piece(k, j) /\ Later(k) /\ EndOf(k).op = "read" /\ k[1].op = "connect"
  BY <1>3, <1>7, Chained
<1> HIDE DEF k
<1>9. Piece(l, j) /\ Later(l) /\ EndOf(l).op = "read" /\ l[1].op = "connect"
  BY <1>4, <1>8, Chained
<1> HIDE DEF l
<1>10. DoItAgainOps(j) = l \o g BY <1>1 DEF l, k, i, h
<1> QED BY <1>5, <1>9, <1>10, Chained

LEMMA SessionPiece ==
  ASSUME NEW j, j.brand \in Brands, j.push \in BOOLEAN, j.clear \in BOOLEAN,
         NEW ip \in Addresses
  PROVE  LET s == DoItOps(j, ip) \o (IF j.clear THEN DoItAgainOps(j) ELSE <<>>)
         IN  Script(s, j) /\ Closed(s) /\ s # <<>> /\ s[1].op = "popup"
<1> DEFINE d == DoItOps(j, ip)
           e == DoItAgainOps(j)
           s == d \o (IF j.clear THEN e ELSE <<>>)
<1>1. Piece(d, j) /\ EndOf(d).op = "close" /\ d[1].op = "popup" BY DoItPiece
<1>2. Piece(e, j) /\ Later(e) /\ EndOf(e).op = "close" /\ e[1].op = "connect" BY DoItAgainPiece
<1> HIDE DEF d, e
<1>3. Piece(s, j) /\ EndOf(s).op = "close" /\ s[1].op = "popup"
  <2>1. CASE j.clear BY <1>1, <1>2, <2>1, Chained
  <2>2. CASE ~j.clear
    <3>1. d \in Seq(Operations) BY <1>1 DEF Piece, Script
    <3>2. s = d BY <2>2, <3>1
    <3> QED BY <1>1, <3>2
  <2> QED BY <2>1, <2>2
<1> HIDE DEF s
<1>4. Script(s, j) /\ Closed(s) /\ s # <<>> BY <1>3 DEF Piece, Closed, EndOf
<1> QED BY <1>3, <1>4 DEF s, d, e

-----------------------------------------------------------------------------
(* The form's steps. *)
LEMMA ClickKeeps == ASSUME UploaderInv, button1_Click PROVE UploaderInv'
<1>0. Idle /\ UNCHANGED <<boxVars, shown, kernel, brand, libVars>> BY DEF button1_Click
<1>1. PICK push \in BOOLEAN, clear \in BOOLEAN, ip \in Addresses :
        /\ job' = [image |-> ImageAt(shown), brand |-> brand, push |-> push, clear |-> clear]
        /\ todo' = DoItOps(job', ip) \o (IF clear THEN DoItAgainOps(job') ELSE <<>>)
  BY DEF button1_Click
<1>2. job'.brand \in Brands /\ job'.push = push /\ job'.clear = clear /\ job'.image = ImageAt(shown)
  BY <1>1 DEF UploaderInv, TypeInv
<1>3. Script(todo', job') /\ Closed(todo') /\ todo' # <<>> /\ todo'[1].op = "popup"
  BY <1>1, <1>2, SessionPiece
<1>4. ScriptInv' /\ ~Idle' /\ Head(todo').op = "popup" /\ Placed(Head(todo'))
  BY <1>3 DEF ScriptInv, Idle, Script
<1>5. Quiet /\ sock = "null" /\ data = <<>>
  BY <1>0 DEF UploaderInv, SyncInv, FlashInv, LinkInv, Quiet
<1>6. Quiet' /\ sock' = "null" /\ data' = <<>> /\ conn' = conn
  BY <1>0, <1>5 DEF Quiet, boxVars, libVars
<1>7. TypeInv'
  <2>1. ImageAt(shown) \in Images \cup {"none"} BY DEF ImageAt, UploaderInv, TypeInv
  <2>2. job' \in [image : Images \cup {"none"}, brand : Brands, push : BOOLEAN, clear : BOOLEAN]
    BY <1>1, <2>1 DEF UploaderInv, TypeInv
  <2> QED BY <1>0, <2>2 DEF UploaderInv, TypeInv, boxVars, libVars
<1>8. SyncInv'
  <2>1. Part' = "none" BY <1>4 DEF Placed, Part
  <2> QED BY <1>4, <1>5, <1>6, <2>1 DEF UploaderInv, SyncInv, QuietOps, At, StorReply
<1>9. ShownInv' BY <1>0, <1>2 DEF ShownInv, ImageAt
<1>10. FlashInv' BY <1>4, <1>6, <1>9, QuietFlash DEF QuietOps, IsStor
<1> QED BY <1>4, <1>7, <1>8, <1>10 DEF UploaderInv

LEMMA SelectKeeps ==
  ASSUME UploaderInv, NEW f \in Firmware, Fsel_Click(f)
  PROVE  UploaderInv'
<1>0. /\ Idle \/ DoEvents
      /\ kernel' = IF file.path = "kernel" THEN kernel ELSE IF f.tar THEN f.image ELSE "none"
      /\ shown' = IF kernel' # "none" THEN "kernel" ELSE f.image
      /\ brand' \in (IF file.path = "kernel" THEN {brand, f.brand}
                     ELSE IF f.tar THEN {f.brand} ELSE {brand})
      /\ UNCHANGED <<boxVars, job, clicks, todo, libVars>>
  BY DEF Fsel_Click
<1>1. f.image \in Images /\ f.brand \in Brands BY FirmwareAssumption
<1>2. kernel' \in Images \cup {"none"} /\ shown' \in Images \cup {"kernel"} /\ brand' \in Brands
  BY <1>0, <1>1 DEF UploaderInv, TypeInv
<1>3. TypeInv' BY <1>0, <1>2 DEF UploaderInv, TypeInv, boxVars, libVars
<1>4. ScriptInv' BY <1>0 DEF UploaderInv, ScriptInv
<1>5. SyncInv'
  BY <1>0 DEF UploaderInv, SyncInv, Quiet, Answer, StorAnswer, EndOwed, Started, Accepted, StorReply,
              Part, At, Idle, boxVars, libVars
<1>6. ShownInv'
  <2>1. CASE Idle
    <3>1. todo' = <<>> BY <1>0, <2>1 DEF Idle
    <3> QED BY <3>1 DEF ShownInv
  <2>2. CASE ~Idle
    <3>1. Head(todo).op \in {"erase", "block"} BY <1>0, <2>2 DEF DoEvents, At
    <3>2. /\ Head(todo) = todo[1] /\ Len(todo) \in Nat /\ Len(todo) >= 1 /\ DOMAIN todo = 1..Len(todo)
      BY <2>2, Current DEF UploaderInv
    <3>3. \A n \in DOMAIN todo : n # 1 => 1 < n BY <3>2
    <3>4. \A n \in DOMAIN todo : n # 1 => Early(todo[1], todo[n])
      BY <3>2, <3>3 DEF UploaderInv, ScriptInv, Script
    <3>5. \A n \in DOMAIN todo : ~(todo[n].op = "openfile" /\ todo[n].of = "mtd1")
      BY <3>1, <3>2, <3>4 DEF Early
    <3> QED BY <1>0, <3>5 DEF ShownInv
  <2> QED BY <2>1, <2>2
<1>7. ImageAt(file.path)' = ImageAt(file.path) BY <1>0 DEF ImageAt, libVars
<1>8. FileInv'
  BY <1>0, <1>7 DEF UploaderInv, FlashInv, FileInv, Sending, StorReply, IsStor, Part, At, Idle, AskedFor, libVars
<1>9. LinkInv' /\ OpenInv'
  BY <1>0 DEF UploaderInv, FlashInv, LinkInv, OpenInv, Opened, Started, Accepted, StorReply, At, boxVars, libVars
<1>10. TransferInv'
  BY <1>0 DEF UploaderInv, FlashInv, TransferInv, Opened, Started, Accepted, StorReply, At, Idle,
              Part, AskedFor, Holds, boxVars, libVars
<1>11. EndInv'
  BY <1>0 DEF UploaderInv, FlashInv, EndInv, At, Part, AskedFor, boxVars, libVars
<1> QED BY <1>3, <1>4, <1>5, <1>6, <1>8, <1>9, <1>10, <1>11 DEF UploaderInv, FlashInv

(* The password. *)
LEMMA UserKeeps == ASSUME UploaderInv, User PROVE UploaderInv'
<1> USE DEF At
<1> DEFINE r == Tail(todo)
           q == quote("PASS", "", "")
           o == <<Op("pass", "none")>>
           p == q \o o
<1>0. /\ ~Idle /\ UNCHANGED <<boxVars, formVars, libVars>> /\ Head(todo).op = "user"
      /\ todo' = (IF response = 331 THEN p ELSE <<>>) \o r
  BY DEF User, Idle
<1>1. Quiet /\ data = <<>> /\ Part = "none"
  BY <1>0, QuietNext DEF QuietOps, OtherOps
<1>2. /\ Len(todo) >= 2 /\ After(todo[1], todo[2]) /\ todo \in Seq(Operations)
      /\ Head(todo) = todo[1] /\ Len(todo) \in Nat /\ todo # <<>>
      /\ Script(todo, job) /\ todo[Len(todo)].op = "close"
      /\ Placed(todo[Len(todo)]) /\ Placed(todo[2])
  <2>1. /\ Len(todo) >= 2 /\ After(todo[1], todo[2]) /\ todo \in Seq(Operations)
        /\ Head(todo) = todo[1] /\ Len(todo) \in Nat /\ todo # <<>>
    BY <1>0, Current DEF UploaderInv, Idle
  <2>2. 2 \in 1..Len(todo) /\ Len(todo) \in 1..Len(todo) BY <2>1
  <2>3. Script(todo, job) /\ Closed(todo) BY DEF UploaderInv, ScriptInv
  <2> QED BY <2>1, <2>2, <2>3 DEF Script, Closed
<1>3. /\ Script(r, job) /\ Len(r) = Len(todo) - 1
      /\ \A n \in 1..(Len(todo) - 1) : r[n] = todo[n + 1]
  BY <1>2, TailOfScript
<1>4. r \in Seq(Operations) /\ Len(r) >= 1 /\ r # <<>> /\ r[1] = todo[2]
  <2>1. r \in Seq(Operations) BY <1>3 DEF Script
  <2> HIDE DEF r
  <2> QED BY <1>2, <1>3, <2>1
<1>5. EndOf(r).op = "close" /\ EndOf(r).of = "none"
  <2>1. Len(r) \in 1..(Len(todo) - 1) /\ Len(r) + 1 = Len(todo) BY <1>2, <1>3, <1>4
  <2>2. EndOf(r) = todo[Len(todo)] BY <1>3, <2>1 DEF EndOf
  <2> QED BY <1>2, <2>2 DEF Placed, OtherOps
<1> HIDE DEF r
<1>6. Fresh(r[1]) /\ r[1].op \notin {"popup", "openfile", "connect"}
  BY <1>0, <1>1, <1>2, <1>4 DEF Fresh, After, Part
<1>7. Piece(r, job) BY <1>3, <1>4, <1>5, <1>6 DEF Piece
<1>8. /\ Piece(q, job) /\ Plain(q) /\ EndOf(q).op = "read" /\ q[1].op = "send" /\ q[1].of = "none"
  BY Quoted DEF Message, Messages
<1>9. /\ Piece(o, job) /\ Plain(o) /\ EndOf(o).op = "pass" /\ o[1].op = "pass" BY One
<1> HIDE DEF q, o
<1>10. Piece(p, job) /\ Plain(p) /\ EndOf(p).op = "pass" /\ p[1] = q[1] BY <1>8, <1>9, Chained
<1> HIDE DEF p
<1>11. Piece(p \o r, job) /\ EndOf(p \o r) = EndOf(r) /\ (p \o r)[1] = q[1]
  BY <1>6, <1>7, <1>10, Chained
<1>12. ASSUME NEW n \in 1..Len(p \o r), (p \o r)[n].op = "openfile"
       PROVE  \E m \in DOMAIN todo : (p \o r)[n] = todo[m]
  <2>1. p \in Seq(Operations) /\ Len(p) \in Nat BY <1>10 DEF Piece, Script
  <2>2. \A k \in 1..Len(p) : p[k].op # "openfile"
    BY <1>10 DEF Plain, Piece, Script, Placed, PartOps, Parts
  <2>3. CASE n \in 1..Len(p) BY <1>4, <1>12, <2>1, <2>2, <2>3
  <2>4. CASE n \notin 1..Len(p)
    <3>1. n - Len(p) \in 1..Len(r) /\ (p \o r)[n] = r[n - Len(p)] BY <1>4, <2>1, <2>4
    <3>2. n - Len(p) \in 1..(Len(todo) - 1) /\ (n - Len(p)) + 1 \in DOMAIN todo
      BY <1>2, <1>3, <1>4, <2>1, <3>1
    <3> QED BY <1>3, <3>1, <3>2
  <2> QED BY <2>3, <2>4
<1>13. /\ Piece(todo', job) /\ EndOf(todo') = EndOf(r) /\ todo'[1].op \notin {"popup", "openfile"}
       /\ \A n \in DOMAIN todo' : todo'[n].op = "openfile" => \E m \in DOMAIN todo : todo'[n] = todo[m]
  <2>1. CASE response = 331
    <3>1. todo' = p \o r BY <1>0, <2>1
    <3>2. DOMAIN todo' = 1..Len(p \o r) BY <1>11, <3>1 DEF Piece, Script
    <3> QED BY <1>8, <1>11, <1>12, <3>1, <3>2
  <2>2. CASE response # 331
    <3>1. todo' = r BY <1>0, <1>4, <2>2
    <3>2. \A n \in DOMAIN r : n \in 1..(Len(todo) - 1) /\ n + 1 \in DOMAIN todo BY <1>2, <1>3, <1>4
    <3> QED BY <1>3, <1>6, <1>7, <3>1, <3>2
  <2> QED BY <2>1, <2>2
<1>14. job' = job BY <1>0 DEF formVars
<1>15. /\ ScriptInv' /\ ~Idle' /\ Fresh(Head(todo')) /\ Head(todo').op \notin {"popup", "openfile"}
  <2>1. todo' \in Seq(Operations) /\ todo' # <<>> BY <1>13 DEF Piece, Script
  <2>2. Head(todo') = todo'[1] BY <2>1
  <2>3. Closed(todo') BY <1>5, <1>13 DEF Closed, EndOf
  <2> QED BY <1>13, <1>14, <2>1, <2>2, <2>3 DEF ScriptInv, Idle, Piece
<1>16. TypeInv' BY <1>0 DEF UploaderInv, TypeInv, boxVars, formVars, libVars
<1>17. Quiet' /\ data' = <<>> /\ conn' = conn /\ sock' = sock
  BY <1>0, <1>1 DEF Quiet, boxVars, libVars
<1>18. SyncInv' BY <1>15, <1>17, QuietSync DEF UploaderInv, SyncInv, Fresh
<1>19. ShownInv' BY <1>0, <1>13, <1>14 DEF UploaderInv, FlashInv, ShownInv, ImageAt, formVars
<1>20. FlashInv' BY <1>15, <1>17, <1>19, QuietFlash DEF Fresh
<1> QED BY <1>15, <1>16, <1>18, <1>20 DEF UploaderInv

(* Another operation in the place of the one in hand. *)
LEMMA Replaced ==
  ASSUME ScriptInv, ~Idle, NEW x \in Operations, job' = job, todo' = <<x>> \o Tail(todo),
         Placed(x), x.of = Part, ~IsStor(x), ~IsStor(Head(todo)), Head(todo).op # "close",
         \/ x.op = "popup" /\ At("popup")
         \/ x.op = "finish" /\ At("block")
  PROVE  /\ ScriptInv' /\ ~Idle' /\ Head(todo') = x
         /\ \A n \in DOMAIN todo' : n = 1 \/ (n \in DOMAIN todo /\ todo'[n] = todo[n])
<1>1. /\ todo \in Seq(Operations) /\ Len(todo) \in Nat /\ Len(todo) >= 2 /\ Head(todo) = todo[1]
      /\ After(todo[1], todo[2])
  BY Current
<1>2. Script(todo, job) /\ Closed(todo) /\ todo # <<>> BY DEF ScriptInv, Idle
<1> DEFINE u == <<x>> \o Tail(todo)
<1>3. /\ u \in Seq(Operations) /\ Len(u) = Len(todo) /\ u[1] = x
      /\ \A k \in 2..Len(todo) : u[k] = todo[k]
  <2>1. /\ Tail(todo) \in Seq(Operations) /\ Len(Tail(todo)) = Len(todo) - 1
        /\ \A k \in 1..(Len(todo) - 1) : Tail(todo)[k] = todo[k + 1]
    BY <1>1
  <2>2. <<x>> \in Seq(Operations) /\ Len(<<x>>) = 1 /\ <<x>>[1] = x OBVIOUS
  <2> DEFINE r == Tail(todo)
             y == <<x>>
  <2> HIDE DEF r, y
  <2>3. /\ y \o r \in Seq(Operations) /\ Len(y \o r) = 1 + Len(r) /\ (y \o r)[1] = y[1]
        /\ \A k \in 2..(1 + Len(r)) : (y \o r)[k] = r[k - 1]
    BY <1>1, <2>1, <2>2 DEF r, y
  <2>4. \A k \in 2..Len(todo) : k - 1 \in 1..(Len(todo) - 1) /\ (k - 1) + 1 = k BY <1>1
  <2>5. \A k \in 2..Len(todo) : r[k - 1] = todo[k] BY <2>1, <2>4 DEF r
  <2>6. 1 + Len(r) = Len(todo) BY <1>1, <2>1 DEF r
  <2> QED BY <2>2, <2>3, <2>5, <2>6 DEF r, y
<1> HIDE DEF u
<1>4. /\ x.op = "erase" <=> todo[1].op = "erase"
      /\ x.op = "read" <=> todo[1].op = "read"
      /\ x.op \in {"erase", "block", "finish"} <=> todo[1].op \in {"erase", "block", "finish"}
      /\ x.of = todo[1].of
  BY <1>1 DEF At, Part
<1>5. \A n \in 1..Len(u) : Placed(u[n]) /\ Wanted(u[n], job)
  <2>1. Wanted(todo[1], job) BY <1>1, <1>2 DEF Script
  <2>2. Wanted(x, job) BY <1>4, <2>1 DEF Wanted
  <2>3. \A n \in 1..Len(u) : n = 1 \/ (n \in 2..Len(todo) /\ n \in 1..Len(todo)) BY <1>1, <1>3
  <2> QED BY <1>2, <1>3, <2>2, <2>3 DEF Script
<1>6. After(x, todo[2])
  <2>1. IsStor(todo[2]) => todo[2].op = "send" BY DEF IsStor
  <2> QED BY <1>1, <1>4, <2>1 DEF After, At, IsStor
<1>7. \A n \in 1..(Len(u) - 1) : After(u[n], u[n + 1])
  <2> TAKE n \in 1..(Len(u) - 1)
  <2>1. CASE n = 1 BY <1>1, <1>3, <1>6, <2>1
  <2>2. CASE n # 1
    <3>1. n \in 2..Len(todo) /\ n + 1 \in 2..Len(todo) /\ n \in 1..(Len(todo) - 1) BY <1>1, <1>3, <2>2
    <3> QED BY <1>2, <1>3, <3>1 DEF Script
  <2> QED BY <2>1, <2>2
<1>8. \A n \in 1..(Len(u) - 2) : Between(u[n], u[n + 1], u[n + 2])
  <2> TAKE n \in 1..(Len(u) - 2)
  <2>1. n + 1 \in 2..Len(todo) /\ n + 2 \in 2..Len(todo) /\ n \in 1..(Len(todo) - 2) BY <1>1, <1>3
  <2>2. u[n + 1] = todo[n + 1] /\ u[n + 2] = todo[n + 2] BY <1>3, <2>1
  <2>3. Between(todo[n], todo[n + 1], todo[n + 2]) BY <1>2, <2>1 DEF Script
  <2>4. /\ u[n].op = "erase" <=> todo[n].op = "erase"
        /\ u[n].op = "read" <=> todo[n].op = "read"
    <3>1. n = 1 \/ n \in 2..Len(todo) BY <1>1, <1>3
    <3> QED BY <1>3, <1>4, <3>1
  <2> QED BY <2>2, <2>3, <2>4 DEF Between
<1>9. \A m, n \in 1..Len(u) : m < n => Early(u[m], u[n])
  <2> SUFFICES ASSUME NEW m \in 1..Len(u), NEW n \in 1..Len(u), m < n PROVE Early(u[m], u[n])
    OBVIOUS
  <2>1. n \in 2..Len(todo) /\ m \in 1..Len(todo) /\ n \in 1..Len(todo) /\ (m = 1 \/ m \in 2..Len(todo))
    BY <1>1, <1>3
  <2>2. Early(todo[m], todo[n]) BY <1>2, <2>1 DEF Script
  <2> QED BY <1>3, <1>4, <2>1, <2>2 DEF Early
<1>10. Script(u, job) BY <1>3, <1>5, <1>7, <1>8, <1>9 DEF Script
<1>11. u # <<>> /\ Head(u) = x BY <1>1, <1>3
<1>12. Closed(u) BY <1>1, <1>2, <1>3 DEF Closed
<1>13. \A n \in DOMAIN u : n = 1 \/ (n \in DOMAIN todo /\ u[n] = todo[n])
  <2>1. \A n \in 1..Len(todo) : n = 1 \/ n \in 2..Len(todo) BY <1>1
  <2>2. DOMAIN u = 1..Len(todo) /\ DOMAIN todo = 1..Len(todo) BY <1>1, <1>3
  <2> QED BY <1>3, <2>1, <2>2
<1> QED BY <1>10, <1>11, <1>12, <1>13 DEF ScriptInv, Idle, u

(* The connection. *)
LEMMA ReadFlash ==
  ASSUME ~Idle', Head(todo').op \in {"read", "greeting"}, ~StorReply', transfer' = "none",
         data' = <<>>, ShownInv', bucket' = <<>>, \A n \in DOMAIN replies' : replies'[n] # 226
  PROVE  FlashInv'
<1>1. FileInv' /\ OpenInv' BY DEF FileInv, OpenInv, Sending, IsStor, At, StorReply
<1>2. LinkInv' /\ TransferInv' BY DEF LinkInv, TransferInv, Opened, At, StorReply
<1>3. EndInv' BY DEF EndInv
<1> QED BY <1>1, <1>2, <1>3 DEF FlashInv

LEMMA PowerCycleKeeps == ASSUME UploaderInv, PowerCycle PROVE UploaderInv'
<1> USE DEF At
<1>0. /\ ~Idle /\ Head(todo).op = "popup" /\ Boot
      /\ UNCHANGED <<env, flash, replies, faults, formVars, todo, libVars>>
  BY DEF PowerCycle, Idle
<1>1. Quiet /\ sock = "null" /\ data = <<>>
  BY <1>0, QuietNext DEF QuietOps, UploaderInv, SyncInv, Idle
<1>2. Quiet' /\ data' = <<>> /\ conn' = FALSE /\ sock' = "null" /\ link' = "none"
  BY <1>0, <1>1 DEF Boot, Quiet, libVars
<1>3. TypeInv'
  <2>1. cmds' \in Seq(Messages) /\ data' \in Seq(Blocks) BY <1>2 DEF Quiet
  <2> QED BY <1>0, <1>2, <2>1 DEF UploaderInv, TypeInv, Quiet, formVars, libVars
<1>4. ScriptInv' BY <1>0 DEF UploaderInv, ScriptInv, formVars
<1>5. SyncInv'
  <2>1. Part' = Part /\ Idle' = Idle BY <1>0 DEF Part, Idle
  <2> QED BY <1>0, <1>1, <1>2, <2>1 DEF UploaderInv, SyncInv, StorReply
<1>6. ShownInv' BY <1>0 DEF UploaderInv, FlashInv, ShownInv, ImageAt, formVars
<1>7. FlashInv' BY <1>0, <1>2, <1>6, QuietFlash DEF IsStor, QuietOps
<1> QED BY <1>3, <1>4, <1>5, <1>7 DEF UploaderInv

LEMMA ConnectKeeps ==
  ASSUME UploaderInv, ~Idle, Head(todo).op \in {"popup", "connect"}, sock = "null", Connected
  PROVE  UploaderInv'
<1> USE DEF At
<1>0. /\ sock' = "open" /\ conn' = TRUE /\ Go
      /\ replies' = <<220>> \/ replies' = <<550>>
      /\ UNCHANGED <<mode, address, env, flash, cmds, link, data, transfer,
                     formVars, response, bucket, dsock, file>>
      /\ job' = job
  BY DEF Connected, formVars
<1>1. Quiet /\ data = <<>> BY QuietNext DEF QuietOps, OtherOps
<1>2. ScriptInv' /\ \A n \in DOMAIN todo' : n + 1 \in DOMAIN todo /\ todo'[n] = todo[n + 1]
  BY <1>0, GoOn DEF UploaderInv
<1>3. ~Idle' /\ Head(todo').op \in {"read", "greeting"} /\ ~StorReply'
  BY <1>0, GoOn DEF UploaderInv, After, StorReply, Idle
<1>4. TypeInv'
  <2>1. replies' \in Seq(Nat)
    <3>1. ASSUME NEW n \in Nat, replies' = <<n>> PROVE replies' \in Seq(Nat) BY <3>1
    <3>2. 220 \in Nat /\ 550 \in Nat OBVIOUS
    <3> QED BY <1>0, <3>1, <3>2
  <2> QED BY <1>0, <2>1 DEF UploaderInv, TypeInv, formVars
<1>5. Answer' /\ \A n \in DOMAIN replies' : replies'[n] # 226
  <2>1. /\ cmds' = <<>> /\ bucket' = <<>> /\ transfer' = "none" /\ sock' # "null"
    BY <1>0, <1>1 DEF Quiet
  <2>2. Len(replies') = 1 /\ \A n \in DOMAIN replies' : replies'[n] # 226 BY <1>0
  <2> QED BY <2>1, <2>2 DEF Answer
<1>6. SyncInv' BY <1>0, <1>3, <1>5 DEF SyncInv, StorReply, QuietOps, OtherOps
<1>7. ShownInv' BY <1>0, <1>2, ShownKept DEF UploaderInv, FlashInv, formVars
<1>8. FlashInv' BY <1>0, <1>1, <1>3, <1>5, <1>7, ReadFlash DEF Quiet
<1> QED BY <1>2, <1>4, <1>6, <1>8 DEF UploaderInv

LEMMA WaitKeeps == ASSUME UploaderInv, waitOpen PROVE UploaderInv'
<1> USE DEF At
<1>0. ~Idle /\ Head(todo).op = "popup" /\ sock = "null" BY DEF waitOpen, Idle
<1> DEFINE ip == CHOOSE a \in Addresses : a # Head(todo).cmd.to
<1>1. CASE Connected BY <1>0, <1>1, ConnectKeeps
<1>2. CASE todo' = <<To("popup", ip)>> \o Tail(todo) /\ UNCHANGED <<boxVars, formVars, libVars>>
  <2>1. ip \in Addresses
    <3>1. \E a \in Addresses : a # Head(todo).cmd.to BY DEF Addresses
    <3> QED BY <3>1
  <2> HIDE DEF ip
  <2>2. /\ To("popup", ip) \in Operations /\ To("popup", ip).op = "popup"
        /\ To("popup", ip).of = "none"
    BY <2>1 DEF To, Message, Operations, Messages
  <2>3. Placed(To("popup", ip)) /\ ~IsStor(To("popup", ip)) /\ ~IsStor(Head(todo))
    BY <1>0, <2>2 DEF Placed, PartOps, OtherOps, IsStor
  <2>4. Part = "none" BY <1>0, Current DEF UploaderInv, Placed, Part
  <2>5. job' = job BY <1>2 DEF formVars
  <2>6. /\ ScriptInv' /\ ~Idle' /\ Head(todo') = To("popup", ip)
        /\ \A n \in DOMAIN todo' : n = 1 \/ (n \in DOMAIN todo /\ todo'[n] = todo[n])
    BY <1>0, <1>2, <2>2, <2>3, <2>4, <2>5, Replaced DEF UploaderInv, Idle
  <2>7. Quiet /\ data = <<>> BY <1>0, QuietNext DEF QuietOps
  <2>8. Quiet' /\ data' = <<>> /\ sock' = "null" /\ conn' = conn
    BY <1>0, <1>2, <2>7 DEF Quiet, boxVars, libVars
  <2>9. TypeInv' BY <1>2 DEF UploaderInv, TypeInv, boxVars, formVars, libVars
  <2>10. Part' = "none" BY <2>2, <2>6 DEF Part
  <2>11. SyncInv' BY <1>0, <2>2, <2>6, <2>8, <2>10 DEF UploaderInv, SyncInv, StorReply
  <2>12. Head(todo') = todo'[1]
    <3>1. todo' \in Seq(Operations) /\ todo' # <<>> BY <2>6 DEF ScriptInv, Script, Idle
    <3> QED BY <3>1
  <2>13. ShownInv'
    <3>1. \A n \in DOMAIN todo' : todo'[n].op = "openfile" => n \in DOMAIN todo /\ todo'[n] = todo[n]
      BY <2>2, <2>6, <2>12
    <3> QED BY <1>2, <3>1 DEF UploaderInv, FlashInv, ShownInv, ImageAt, formVars
  <2>14. FlashInv' BY <2>2, <2>3, <2>6, <2>8, <2>13, QuietFlash DEF QuietOps
  <2> QED BY <2>6, <2>9, <2>11, <2>14 DEF UploaderInv
<1> QED BY <1>1, <1>2 DEF waitOpen

LEMMA OpenKeeps == ASSUME UploaderInv, Open PROVE UploaderInv'
<1> USE DEF At
<1>0. ~Idle /\ Head(todo).op = "connect" BY DEF Open, Idle
<1>1. CASE sock = "null" /\ Connected BY <1>0, <1>1, ConnectKeeps
<1>2. CASE sock = "open" /\ Go /\ UNCHANGED <<boxVars, formVars, libVars>>
  <2>1. Quiet /\ data = <<>> BY <1>0, QuietNext DEF QuietOps, OtherOps
  <2>2. job' = job BY <1>2 DEF formVars
  <2>3. ScriptInv' /\ \A n \in DOMAIN todo' : n + 1 \in DOMAIN todo /\ todo'[n] = todo[n + 1]
    BY <1>0, <1>2, <2>2, GoOn DEF UploaderInv
  <2>4. ~Idle' /\ Head(todo').op \in {"read", "greeting"} /\ ~StorReply'
    BY <1>0, <1>2, <2>2, GoOn DEF UploaderInv, After, StorReply, Idle
  <2>5. TypeInv' BY <1>2 DEF UploaderInv, TypeInv, boxVars, formVars, libVars
  <2>6. Quiet' /\ data' = <<>> /\ sock' = "open"
    BY <1>2, <2>1 DEF Quiet, boxVars, libVars
  <2>7. Answer' /\ \A n \in DOMAIN replies' : replies'[n] # 226 BY <2>6 DEF Answer, Quiet
  <2>8. SyncInv' BY <1>2, <2>4, <2>6, <2>7 DEF SyncInv, StorReply, QuietOps, OtherOps
  <2>9. ShownInv' BY <1>2, <2>3, ShownKept DEF UploaderInv, FlashInv, formVars
  <2>10. FlashInv' BY <2>4, <2>6, <2>7, <2>9, ReadFlash DEF Quiet
  <2> QED BY <2>3, <2>5, <2>8, <2>10 DEF UploaderInv
<1> QED BY <1>1, <1>2 DEF Open

-----------------------------------------------------------------------------
(* Replies. *)
LEMMA TakeOne ==
  ASSUME UploaderInv, sock = "open", Take
  PROVE  LET lines == IF bucket = <<>> THEN replies ELSE bucket IN
         /\ lines # <<>> /\ response' = Head(lines) /\ bucket' = Tail(lines)
         /\ replies' = (IF bucket = <<>> THEN <<>> ELSE replies)
         /\ lines \in Seq(Nat) /\ Len(lines) >= 1 /\ Head(lines) = lines[1]
         /\ response' \in Nat /\ bucket' \in Seq(Nat) /\ replies' \in Seq(Nat)
         /\ Len(bucket') = Len(lines) - 1
         /\ \A n \in DOMAIN bucket' : n + 1 \in DOMAIN lines /\ bucket'[n] = lines[n + 1]
<1> DEFINE lines == IF bucket = <<>> THEN replies ELSE bucket
<1>1. lines # <<>> /\ response' = Head(lines) /\ bucket' = Tail(lines)
      /\ replies' = (IF bucket = <<>> THEN <<>> ELSE replies)
  BY DEF Take
<1>2. lines \in Seq(Nat) /\ replies \in Seq(Nat) BY DEF UploaderInv, TypeInv
<1>3. replies' \in Seq(Nat) BY <1>1, <1>2
<1> HIDE DEF lines
<1>4. Len(lines) \in Nat /\ Len(lines) >= 1 /\ Head(lines) = lines[1] /\ Head(lines) \in Nat BY <1>1, <1>2
<1>5. /\ bucket' \in Seq(Nat) /\ Len(bucket') = Len(lines) - 1
      /\ \A n \in 1..(Len(lines) - 1) : bucket'[n] = lines[n + 1]
  BY <1>1, <1>2, <1>4
<1>6. \A n \in DOMAIN bucket' : n \in 1..(Len(lines) - 1) /\ n + 1 \in DOMAIN lines BY <1>2, <1>4, <1>5
<1> QED BY <1>1, <1>2, <1>3, <1>4, <1>5, <1>6 DEF lines

LEMMA ReadKeeps == ASSUME UploaderInv, ReadResponse PROVE UploaderInv'
<1> USE DEF At
<1>0. /\ ~Idle /\ Head(todo).op \in {"read", "greeting"} /\ Take /\ Go
      /\ UNCHANGED <<mode, address, env, flash, conn, cmds, link, data, transfer, faults,
                     formVars, sock, dsock, file>>
      /\ job' = job
  BY DEF ReadResponse, Idle, formVars
<1>1. ScriptInv' /\ \A n \in DOMAIN todo' : n + 1 \in DOMAIN todo /\ todo'[n] = todo[n + 1]
  BY <1>0, GoOn DEF UploaderInv
<1>2. /\ ~Idle' /\ After(Head(todo), Head(todo')) /\ Head(todo') = todo[2]
      /\ Placed(Head(todo')) /\ Placed(Head(todo))
  BY <1>0, GoOn, Current DEF UploaderInv
<1>3. ShownInv' BY <1>0, <1>1, ShownKept DEF UploaderInv, FlashInv, formVars
<1>4. CASE ~StorReply
  <2>1. Answer BY <1>0, <1>4 DEF UploaderInv, SyncInv, Idle
  <2>2. Head(todo').op \in QuietOps \ {"popup", "openfile"} /\ ~IsStor(Head(todo'))
    BY <1>0, <1>2, <1>4 DEF After, StorReply, Idle, QuietOps, OtherOps
  <2>3. Head(todo').of = "none" \/ Head(todo').op = "start" \/ sock' = "open"
    BY <1>0, <1>2 DEF After, UploaderInv, SyncInv, Part
  <2>4. Quiet' /\ response' \in Nat
    <3>1. CASE sock = "null"
      BY <1>0, <2>1, <3>1 DEF Take, Answer, Quiet, UploaderInv, TypeInv
    <3>2. CASE sock = "open"
      <4>1. bucket = <<>> /\ transfer = "none" BY <2>1 DEF Answer
      <4>2. /\ replies # <<>> /\ bucket' = Tail(replies) /\ replies' = <<>> /\ response' \in Nat
            /\ replies \in Seq(Nat) /\ Len(replies) >= 1
        BY <1>0, <3>2, <4>1, TakeOne
      <4>5. Len(replies) \in Nat BY <4>2
      <4>6. replies # <<>> BY <4>2
      <4>7. cmds = <<>> /\ Len(replies) <= 1 BY <2>1, <4>6, Zenon DEF Answer
      <4>8. ASSUME NEW n \in Nat, n >= 1, n <= 1 PROVE n = 1 BY <4>8
      <4>9. Len(replies) >= 1 BY <4>2
      <4>3. cmds = <<>> /\ Len(replies) = 1 BY <4>5, <4>7, <4>8, <4>9
      <4>4. bucket' = <<>> BY <4>2, <4>3
      <4> QED BY <1>0, <4>1, <4>2, <4>3, <4>4 DEF Quiet
    <3> QED BY <3>1, <3>2 DEF UploaderInv, TypeInv
  <2>5. TypeInv'
    <3>1. replies' \in Seq(Nat) /\ bucket' \in Seq(Nat) BY <2>4 DEF Quiet
    <3> QED BY <1>0, <2>4, <3>1 DEF UploaderInv, TypeInv, formVars
  <2>6. data' = <<>> BY <1>0, <2>1 DEF Answer, UploaderInv, FlashInv, LinkInv
  <2>7. SyncInv' BY <1>0, <1>2, <2>2, <2>3, <2>4, QuietSync DEF UploaderInv, SyncInv
  <2>8. FlashInv' BY <1>2, <1>3, <2>2, <2>4, <2>6, QuietFlash
  <2> QED BY <1>1, <2>5, <2>7, <2>8 DEF UploaderInv
<1>5. CASE StorReply
  <2>1. StorAnswer /\ Head(todo).op = "read" /\ Head(todo').op = "stor" /\ Part' = Part /\ Part \in Parts
    BY <1>0, <1>2, <1>5 DEF UploaderInv, SyncInv, StorReply, After, Placed, Part, PartOps, Parts
  <2>2. sock = "open" BY <1>0, <2>1 DEF UploaderInv, SyncInv, Parts
  <2>3. bucket = <<>> BY <2>1 DEF StorAnswer
  <2>4. /\ replies # <<>> /\ bucket' = Tail(replies) /\ replies' = <<>> /\ response' = replies[1]
        /\ replies \in Seq(Nat) /\ Len(replies) >= 1 /\ response' \in Nat
        /\ bucket' \in Seq(Nat) /\ Len(bucket') = Len(replies) - 1
        /\ \A n \in DOMAIN bucket' : n + 1 \in DOMAIN replies /\ bucket'[n] = replies[n + 1]
    BY <1>0, <2>2, <2>3, TakeOne
  <2>5. TypeInv' BY <1>0, <2>4 DEF UploaderInv, TypeInv, formVars
  <2>6. cmds' = <<>> /\ (Started <=> Accepted')
    BY <1>0, <2>1, <2>4 DEF StorAnswer, Started, Accepted
  <2>7. IF Accepted' THEN EndOwed' ELSE Quiet'
    <3>1. CASE Started
      <4>1. Len(replies) = 1 \/ (Len(replies) = 2 /\ transfer = "none") BY <2>1, <3>1 DEF StorAnswer, Started
      <4>2. CASE Len(replies) = 1
        <5>1. bucket' = <<>> BY <2>4, <4>2
        <5> QED BY <2>4, <2>6, <3>1, <5>1 DEF EndOwed
      <4>3. CASE Len(replies) = 2 /\ transfer = "none"
        <5>1. Len(bucket') = 1 BY <2>4, <4>3
        <5> QED BY <1>0, <2>4, <2>6, <3>1, <4>3, <5>1 DEF EndOwed
      <4> QED BY <4>1, <4>2, <4>3
    <3>2. CASE ~Started
      <4>1. Len(replies) = 1 /\ transfer = "none" BY <2>1, <2>4, <3>2 DEF StorAnswer
      <4>2. bucket' = <<>> BY <2>4, <4>1
      <4> QED BY <1>0, <2>4, <2>6, <3>2, <4>1, <4>2 DEF Quiet
    <3> QED BY <3>1, <3>2
  <2>8. SyncInv' BY <1>0, <1>2, <2>1, <2>2, <2>7 DEF UploaderInv, SyncInv, StorReply, QuietOps, OtherOps
  <2>9. FileInv' /\ OpenInv'
    BY <1>0, <1>2, <1>5, <2>1 DEF UploaderInv, FlashInv, FileInv, OpenInv, Sending, StorReply, ImageAt, AskedFor, formVars
  <2>10. LinkInv'
    BY <1>0, <1>2, <1>5, <2>1, <2>6 DEF UploaderInv, FlashInv, LinkInv, Opened, StorReply
  <2>11. TransferInv'
    <3>1. AskedFor(Part)' = AskedFor(Part) /\ file' = file /\ flash' = flash /\ data' = data
      BY <1>0, <2>1 DEF AskedFor
    <3>2. CASE transfer = "none" BY <1>0, <3>2 DEF TransferInv
    <3>3. CASE transfer # "none"
      <4>1. /\ transfer = Part /\ Started /\ link = "open" /\ AskedFor(Part) \in Images \cup {"empty"}
            /\ Holds(Part, AskedFor(Part), file.got)
        BY <2>1, <3>3 DEF UploaderInv, FlashInv, TransferInv, Opened
      <4>2. Holds(Part, AskedFor(Part), file.got)' BY <2>1, <3>1, <4>1 DEF Holds
      <4>3. ~At("finish")' /\ Opened' BY <1>2, <2>1, <2>6, <4>1 DEF Opened, Idle
      <4> QED BY <1>0, <1>2, <2>1, <3>1, <4>1, <4>2, <4>3 DEF TransferInv
    <3> QED BY <3>2, <3>3
  <2>12. EndInv'
    <3>1. \A n \in DOMAIN replies : replies[n] # 226 BY <2>1 DEF UploaderInv, FlashInv, EndInv
    <3>2. \A n \in DOMAIN bucket' : bucket'[n] # 226 BY <2>4, <3>1
    <3> QED BY <2>4, <3>2 DEF EndInv
  <2> QED BY <1>1, <1>3, <2>5, <2>8, <2>9, <2>10, <2>11, <2>12 DEF UploaderInv, FlashInv
<1> QED BY <1>4, <1>5

(* The end of the erase that is waited for. *)
LEMMA EraseKeeps == ASSUME UploaderInv, CheckSocetAvalabel PROVE UploaderInv'
<1> USE DEF At
<1>0. /\ ~Idle /\ Head(todo).op = "erase" /\ Go /\ UNCHANGED <<boxVars, formVars, libVars>>
      /\ job' = job
  BY DEF CheckSocetAvalabel, Idle, formVars
<1>1. ScriptInv' /\ \A n \in DOMAIN todo' : n + 1 \in DOMAIN todo /\ todo'[n] = todo[n + 1]
  BY <1>0, GoOn DEF UploaderInv
<1>2. /\ ~Idle' /\ After(Head(todo), Head(todo')) /\ Placed(Head(todo))
      /\ Head(todo').op = "read" => todo'[2].op = "stor"
  BY <1>0, GoOn, Current DEF UploaderInv
<1>3. StorReply' /\ Part' = Part /\ Part \in Parts /\ Head(todo').op = "read" /\ sock = "open"
  BY <1>0, <1>2 DEF After, StorReply, Part, Placed, PartOps, Parts, Idle, UploaderInv, SyncInv
<1>4. StorAnswer BY <1>0 DEF UploaderInv, SyncInv, Idle
<1>5. StorAnswer' BY <1>0, <1>3, <1>4 DEF StorAnswer, Started, boxVars, libVars
<1>6. TypeInv' BY <1>0 DEF UploaderInv, TypeInv, boxVars, formVars, libVars
<1>7. SyncInv'
  BY <1>0, <1>2, <1>3, <1>5 DEF UploaderInv, SyncInv, QuietOps, OtherOps, boxVars, libVars
<1>8. ShownInv' BY <1>0, <1>1, ShownKept DEF UploaderInv, FlashInv, formVars
<1>9. FileInv' /\ OpenInv'
  BY <1>0, <1>2, <1>3 DEF UploaderInv, FlashInv, FileInv, OpenInv, Sending, ImageAt, AskedFor, Idle, boxVars, formVars, libVars
<1>10. LinkInv' BY <1>0, <1>2, <1>3 DEF UploaderInv, FlashInv, LinkInv, Opened, Started, Idle, boxVars
<1>11. TransferInv'
  BY <1>0, <1>2, <1>3 DEF UploaderInv, FlashInv, TransferInv, Opened, Started, Idle, AskedFor, Holds, boxVars, formVars, libVars
<1>12. EndInv' BY <1>0, <1>3 DEF UploaderInv, FlashInv, EndInv, boxVars, libVars
<1> QED BY <1>1, <1>6, <1>7, <1>8, <1>9, <1>10, <1>11, <1>12 DEF UploaderInv, FlashInv

-----------------------------------------------------------------------------
(* The steps of an upload. *)
(* What an exception leaves when nothing is owed. *)
LEMMA ThrowKeeps ==
  ASSUME UploaderInv, ~Idle, Part # "none", Throw, Quiet', data' = <<>>, TypeInv',
         UNCHANGED formVars, conn' => sock' = "open"
  PROVE  UploaderInv'
<1>0. job' = job /\ shown' = shown /\ kernel' = kernel BY DEF formVars
<1>1. /\ ScriptInv' /\ ~Idle'
      /\ \A n \in DOMAIN todo' : \E m \in DOMAIN todo : todo'[n] = todo[m]
      /\ Head(todo').op = "start" \/ (Head(todo').op = "send" /\ Head(todo').of = "none")
      /\ Placed(Head(todo'))
  BY <1>0, ThrowOn DEF UploaderInv
<1>2. Head(todo').op \in QuietOps \ {"popup", "openfile"} /\ ~IsStor(Head(todo'))
  BY <1>1 DEF QuietOps, IsStor, Placed, Parts
<1>3. SyncInv' BY <1>1, <1>2, QuietSync
<1>4. ShownInv' BY <1>0, <1>1, ShownKept DEF UploaderInv, FlashInv
<1>5. FlashInv' BY <1>2, <1>4, QuietFlash
<1> QED BY <1>1, <1>3, <1>5 DEF UploaderInv

(* The next operation of the upload, of those before the file is opened.      *)
LEMMA UploadGoesOn ==
  ASSUME UploaderInv, ~Idle, Head(todo).op \in {"start", "port", "opendata"}, Go, Quiet',
         data' = <<>>, TypeInv', UNCHANGED formVars, sock' = "open",
         Head(todo).op = "opendata" => dsock' = "open"
  PROVE  UploaderInv'
<1>0. job' = job /\ shown' = shown /\ kernel' = kernel BY DEF formVars
<1>1. ScriptInv' /\ \A n \in DOMAIN todo' : n + 1 \in DOMAIN todo /\ todo'[n] = todo[n + 1]
  BY <1>0, GoOn DEF UploaderInv
<1>2. ~Idle' /\ After(Head(todo), Head(todo'))
  BY <1>0, GoOn DEF UploaderInv
<1>3. Head(todo').op \in QuietOps \ {"popup"} /\ ~IsStor(Head(todo')) BY <1>2 DEF After
<1>4. SyncInv' BY <1>2, <1>3, QuietSync
<1>5. ShownInv' BY <1>0, <1>1, ShownKept DEF UploaderInv, FlashInv
<1>6. Head(todo').op = "openfile" => dsock' = "open" BY <1>2 DEF After
<1>7. FlashInv' BY <1>3, <1>5, <1>6, QuietFlash DEF QuietOps
<1> QED BY <1>1, <1>4, <1>7 DEF UploaderInv

LEMMA StartKeeps == ASSUME UploaderInv, Start PROVE UploaderInv'
<1> USE DEF At
<1>0. /\ ~Idle /\ Head(todo).op = "start" /\ UNCHANGED <<boxVars, formVars, libVars>>
      /\ IF sock = "null" THEN Throw ELSE Go
  BY DEF Start, Idle
<1>1. Quiet /\ data = <<>> /\ Part \in Parts /\ (conn => sock = "open") /\ sock \in {"null", "open"}
  BY <1>0, QuietNext DEF QuietOps, UploaderInv, SyncInv, TypeInv
<1>2. /\ Quiet' /\ data' = <<>> /\ UNCHANGED formVars /\ sock' = sock /\ conn' = conn
  BY <1>0, <1>1 DEF Quiet, boxVars, libVars
<1>3. TypeInv' BY <1>0 DEF UploaderInv, TypeInv, boxVars, formVars, libVars
<1>4. CASE sock = "null" BY <1>0, <1>1, <1>2, <1>3, <1>4, ThrowKeeps DEF Parts
<1>5. CASE sock = "open" BY <1>0, <1>1, <1>2, <1>3, <1>5, UploadGoesOn
<1> QED BY <1>1, <1>4, <1>5

LEMMA PortKeeps == ASSUME UploaderInv, GetDataPort PROVE UploaderInv'
<1> USE DEF At
<1>0. /\ ~Idle /\ Head(todo).op = "port" /\ UNCHANGED <<formVars, response, bucket>>
      /\ IF response = 227 THEN Go /\ UNCHANGED <<boxVars, sock, dsock, file>>
         ELSE Throw /\ Disconnect
  BY DEF GetDataPort, Idle
<1>1. Quiet /\ data = <<>> /\ Part \in Parts /\ sock = "open" /\ Part # "none"
  BY <1>0, QuietNext DEF QuietOps, UploaderInv, SyncInv, Parts
<1>2. CASE response = 227
  <2>1. /\ Quiet' /\ data' = <<>> /\ UNCHANGED formVars /\ sock' = "open"
    BY <1>0, <1>1, <1>2 DEF Quiet, boxVars
  <2>2. TypeInv' BY <1>0, <1>2 DEF UploaderInv, TypeInv, boxVars, formVars
  <2> QED BY <1>0, <1>2, <2>1, <2>2, UploadGoesOn
<1>3. CASE response # 227
  <2>1. Quiet' /\ TypeInv' /\ ~conn' /\ sock' = "null" /\ data' = data
    BY <1>0, <1>1, <1>3, DisconnectKeeps
  <2> QED BY <1>0, <1>1, <1>3, <2>1, ThrowKeeps
<1> QED BY <1>2, <1>3

LEMMA DataSocketKeeps == ASSUME UploaderInv, OpenDataSocket PROVE UploaderInv'
<1> USE DEF At
<1> DEFINE listening == IF dsock = "open" /\ link = "open" THEN "closed" ELSE link
<1>0. /\ ~Idle /\ Head(todo).op = "opendata"
      /\ \/ dsock' = "open" /\ link' = "open" /\ Go
         \/ dsock' = "null" /\ link' = listening /\ Throw
      /\ UNCHANGED <<mode, address, env, flash, conn, cmds, replies, data, transfer, faults,
                     formVars, sock, response, bucket, file>>
  BY DEF OpenDataSocket, Idle
<1>1. Quiet /\ data = <<>> /\ Part \in Parts /\ sock = "open" /\ Part # "none"
  BY <1>0, QuietNext DEF QuietOps, UploaderInv, SyncInv, Parts
<1>2. Quiet' /\ data' = <<>> /\ UNCHANGED formVars /\ sock' = "open" BY <1>0, <1>1 DEF Quiet
<1>3. TypeInv' BY <1>0 DEF UploaderInv, TypeInv, formVars
<1>4. CASE Go /\ dsock' = "open" BY <1>0, <1>2, <1>3, <1>4, UploadGoesOn
<1>5. CASE Throw BY <1>0, <1>1, <1>2, <1>3, <1>5, ThrowKeeps
<1> QED BY <1>0, <1>4, <1>5

LEMMA FileKeeps == ASSUME UploaderInv, OpenUploadFile PROVE UploaderInv'
<1> USE DEF At
<1> DEFINE path == IF Part = "mtd1" THEN shown ELSE "empty"
<1>0. /\ ~Idle /\ Head(todo).op = "openfile"
      /\ IF ImageAt(path) = "none" THEN file' = NoFile /\ Throw
         ELSE file' = [path |-> path, got |-> 0] /\ Go
      /\ UNCHANGED <<boxVars, formVars, sock, response, bucket, dsock>>
  BY DEF OpenUploadFile, Idle
<1>1. /\ Quiet /\ data = <<>> /\ Part \in Parts /\ sock = "open" /\ Part # "none"
      /\ conn => sock = "open"
  BY <1>0, QuietNext DEF QuietOps, UploaderInv, SyncInv, Parts
<1>2. dsock = "open" BY <1>0 DEF UploaderInv, FlashInv, OpenInv, Idle
<1>3. Quiet' /\ data' = <<>> /\ UNCHANGED formVars /\ sock' = "open" /\ dsock' = "open" /\ conn' = conn
  BY <1>0, <1>1, <1>2 DEF Quiet, boxVars
<1>4. path \in Images \cup {"kernel", "empty"} BY DEF UploaderInv, TypeInv
<1>5. file' \in [path : Images \cup {"kernel", "empty", "none"}, got : Nat]
  BY <1>0, <1>4 DEF NoFile
<1>6. TypeInv' BY <1>0, <1>5 DEF UploaderInv, TypeInv, boxVars, formVars
<1>7. CASE ImageAt(path) = "none"
  <2>1. Throw /\ UNCHANGED formVars /\ (conn' => sock' = "open") BY <1>0, <1>3, <1>7
  <2> QED BY <1>0, <1>1, <1>3, <1>6, <2>1, ThrowKeeps
<1>8. CASE ImageAt(path) # "none"
  <2>0. job' = job /\ shown' = shown /\ kernel' = kernel BY <1>0 DEF formVars
  <2>1. ScriptInv' /\ \A n \in DOMAIN todo' : n + 1 \in DOMAIN todo /\ todo'[n] = todo[n + 1]
    BY <1>0, <1>8, <2>0, GoOn DEF UploaderInv
  <2>2. ~Idle' /\ After(Head(todo), Head(todo')) /\ Placed(Head(todo'))
    BY <1>0, <1>8, <2>0, GoOn DEF UploaderInv
  <2>3. IsStor(Head(todo')) /\ Head(todo').op = "send" /\ Part' = Part
    BY <1>0, <1>1, <2>2 DEF After, IsStor, Part
  <2>4. SyncInv' BY <1>3, <2>2, <2>3, QuietSync DEF QuietOps
  <2>5. ShownInv' BY <2>0, <2>1, ShownKept DEF UploaderInv, FlashInv
  <2>6. AskedFor(Part)' = AskedFor(Part) BY <2>0, <2>3 DEF AskedFor
  <2>7. ImageAt(path) = AskedFor(Part) /\ AskedFor(Part) \in Images \cup {"empty"}
    <3>1. CASE Part = "mtd1"
      <4>1. 1 \in DOMAIN todo /\ Head(todo) = todo[1] BY <1>0, Current DEF UploaderInv
      <4>2. ImageAt(shown) = job.image BY <1>0, <3>1, <4>1 DEF UploaderInv, FlashInv, ShownInv, Part
      <4>3. ImageAt(shown) \in Images \cup {"none"} BY DEF ImageAt, UploaderInv, TypeInv
      <4> QED BY <1>8, <3>1, <4>2, <4>3 DEF AskedFor
    <3>2. CASE Part # "mtd1" BY <3>2 DEF AskedFor, ImageAt
    <3> QED BY <3>1, <3>2
  <2>8. ImageAt(file.path)' = ImageAt(path) /\ file'.got = 0 BY <1>0, <1>8, <2>0 DEF ImageAt
  <2>9. FlashInv' BY <1>3, <2>3, <2>5, <2>6, <2>7, <2>8, QuietFlash DEF QuietOps
  <2> QED BY <1>6, <2>1, <2>4, <2>9 DEF UploaderInv
<1> QED BY <1>7, <1>8

LEMMA StorKeeps == ASSUME UploaderInv, CheckStor PROVE UploaderInv'
<1> USE DEF At
<1>0. /\ ~Idle /\ Head(todo).op = "stor"
      /\ IF Accepted THEN Go /\ UNCHANGED file ELSE Throw /\ file' = NoFile
      /\ UNCHANGED <<boxVars, formVars, sock, response, bucket, dsock>>
      /\ job' = job /\ shown' = shown /\ kernel' = kernel
  BY DEF CheckStor, Idle, Accepted, formVars
<1>1. Part \in Parts /\ Part # "none" /\ sock = "open"
  BY <1>0, Current DEF UploaderInv, Placed, PartOps, Part, Parts, SyncInv
<1>2. CASE ~Accepted
  <2>1. Quiet BY <1>0, <1>2 DEF UploaderInv, SyncInv, Idle
  <2>2. Quiet' /\ data' = <<>> /\ sock' = "open" /\ UNCHANGED formVars
    BY <1>0, <1>1, <2>1 DEF Quiet, UploaderInv, FlashInv, LinkInv, boxVars
  <2>3. file' \in [path : Images \cup {"kernel", "empty", "none"}, got : Nat]
    BY <1>0, <1>2 DEF NoFile
  <2>4. TypeInv' BY <1>0, <2>3 DEF UploaderInv, TypeInv, boxVars, formVars
  <2> QED BY <1>0, <1>1, <1>2, <2>2, <2>4, ThrowKeeps
<1>3. CASE Accepted
  <2>1. ScriptInv' /\ \A n \in DOMAIN todo' : n + 1 \in DOMAIN todo /\ todo'[n] = todo[n + 1]
    BY <1>0, <1>3, GoOn DEF UploaderInv
  <2>2. ~Idle' /\ After(Head(todo), Head(todo')) BY <1>0, <1>3, GoOn DEF UploaderInv
  <2>3. Head(todo').op = "block" /\ Part' = Part BY <1>0, <1>1, <2>2 DEF After, Part
  <2>4. EndOwed BY <1>0, <1>3 DEF UploaderInv, SyncInv, Idle
  <2>5. EndOwed' BY <1>0, <2>4 DEF EndOwed, boxVars
  <2>6. TypeInv' BY <1>0, <1>3 DEF UploaderInv, TypeInv, boxVars, formVars
  <2>7. SyncInv' BY <1>0, <1>1, <2>2, <2>3, <2>5 DEF UploaderInv, SyncInv, StorReply, QuietOps, OtherOps, boxVars
  <2>8. ShownInv' BY <1>0, <2>1, ShownKept DEF UploaderInv, FlashInv
  <2>9. AskedFor(Part)' = AskedFor(Part) /\ ImageAt(file.path)' = ImageAt(file.path) /\ file' = file
    BY <1>0, <1>3, <2>3 DEF AskedFor, ImageAt
  <2>10. /\ ImageAt(file.path) = AskedFor(Part) /\ AskedFor(Part) \in Images \cup {"empty"}
         /\ dsock = "open" /\ file.got = 0
    BY <1>0 DEF UploaderInv, FlashInv, FileInv, Sending, Idle
  <2>11. Size[AskedFor(Part)] \in Nat BY <2>10, BoxAssumption
  <2>12. FileInv' /\ OpenInv' BY <1>0, <2>3, <2>9, <2>10, <2>11 DEF FileInv, OpenInv
  <2>13. LinkInv' BY <1>0, <1>3, <2>3 DEF UploaderInv, FlashInv, LinkInv, Opened, Idle, boxVars
  <2>14. TransferInv'
    <3>1. Holds(Part, AskedFor(Part), file.got)' <=> Holds(Part, AskedFor(Part), file.got)
      BY <1>0, <2>3, <2>9 DEF Holds, boxVars
    <3> QED BY <1>0, <1>3, <2>2, <2>3, <2>9, <3>1 DEF UploaderInv, FlashInv, TransferInv, Opened, Idle, boxVars
  <2>15. EndInv' BY <1>0, <2>3 DEF UploaderInv, FlashInv, EndInv, boxVars
  <2> QED BY <2>1, <2>6, <2>7, <2>8, <2>12, <2>13, <2>14, <2>15 DEF UploaderInv, FlashInv
<1> QED BY <1>2, <1>3

LEMMA SendBlockKeeps == ASSUME UploaderInv, SendBlock PROVE UploaderInv'
<1> USE DEF At
<1> DEFINE f == AskedFor(Part)
<1>0. /\ ~Idle /\ Head(todo).op = "block" /\ ~LastBlock
      /\ data' = IF link = "open" THEN Append(data, <<ImageAt(file.path), file.got + 1>>) ELSE data
      /\ file' = [file EXCEPT !.got = @ + 1]
      /\ UNCHANGED <<mode, address, env, flash, conn, cmds, replies, link, transfer, faults,
                     formVars, todo, sock, response, bucket, dsock>>
      /\ job' = job /\ shown' = shown /\ kernel' = kernel /\ brand' = brand
  BY DEF SendBlock, Idle, formVars
<1>1. /\ ImageAt(file.path) = f /\ f \in Images \cup {"empty"} /\ dsock = "open"
      /\ file.got <= Size[f]
  BY <1>0 DEF UploaderInv, FlashInv, FileInv, Sending, Idle
<1>2. Size[f] \in Nat /\ file.got \in Nat /\ f \in Files
      /\ file \in [path : Images \cup {"kernel", "empty", "none"}, got : Nat]
  BY <1>1, BoxAssumption DEF Files, UploaderInv, TypeInv
<1>3. file'.path = file.path /\ file'.got = file.got + 1
      /\ file' \in [path : Images \cup {"kernel", "empty", "none"}, got : Nat]
  BY <1>0, <1>2
<1>4. file'.got <= Size[f] BY <1>0, <1>1, <1>2, <1>3 DEF LastBlock
<1>5. /\ Part' = Part /\ AskedFor(Part)' = f /\ ImageAt(file.path)' = f /\ Idle' = Idle
  BY <1>0, <1>1, <1>3 DEF Part, AskedFor, ImageAt, Idle
<1>6. <<f, file.got + 1>> \in Blocks BY <1>2 DEF Blocks
<1>7. data' \in Seq(Blocks) BY <1>0, <1>1, <1>6 DEF UploaderInv, TypeInv
<1>8. TypeInv' BY <1>0, <1>3, <1>7 DEF UploaderInv, TypeInv
<1>9. ScriptInv' BY <1>0 DEF UploaderInv, ScriptInv
<1>10. SyncInv'
  BY <1>0, <1>5 DEF UploaderInv, SyncInv, StorReply, EndOwed, QuietOps, OtherOps
<1>11. ShownInv' BY <1>0 DEF UploaderInv, FlashInv, ShownInv, ImageAt
<1>16. /\ dsock' = dsock /\ todo' = todo /\ link' = link /\ transfer' = transfer /\ flash' = flash
       /\ Head(todo') = Head(todo) /\ todo # <<>>
  BY <1>0 DEF Idle
<1>12. FileInv' /\ OpenInv'
  <2>1. FileInv' BY <1>0, <1>1, <1>4, <1>5, <1>16, Zenon DEF FileInv
  <2> QED BY <1>0, <1>16, <2>1 DEF OpenInv
<1>13. LinkInv'
  <2>1. Opened /\ Opened' BY <1>0, <1>16 DEF Opened
  <2>2. transfer = "none" => data' = <<>>
    BY <1>0, <2>1 DEF UploaderInv, FlashInv, LinkInv
  <2> QED BY <1>16, <2>1, <2>2 DEF UploaderInv, FlashInv, LinkInv
<1>14. TransferInv'
  <2>1. CASE transfer = "none" BY <1>0, <2>1 DEF TransferInv
  <2>2. CASE transfer # "none"
    <3>1. transfer = Part /\ link = "open" /\ Holds(Part, f, file.got) /\ Part \in Parts
      BY <1>0, <2>2 DEF UploaderInv, FlashInv, TransferInv, TypeInv
    <3> DEFINE fp == flash[Part]
    <3>2. fp \in Seq(Blocks) /\ data \in Seq(Blocks) BY <3>1 DEF UploaderInv, TypeInv
    <3>3. data' = Append(data, <<f, file.got + 1>>) BY <1>0, <1>1, <3>1
    <3>4. /\ Len(fp) + Len(data) = file.got
          /\ \A i \in 1..Len(fp) : fp[i] = <<f, i>>
          /\ \A i \in 1..Len(data) : data[i] = <<f, Len(fp) + i>>
      BY <3>1 DEF Holds
    <3> HIDE DEF fp
    <3>5. Len(fp) \in Nat /\ Len(data) \in Nat BY <3>2
    <3>6. /\ Len(data') = Len(data) + 1 /\ data'[Len(data) + 1] = <<f, file.got + 1>>
          /\ \A i \in 1..Len(data) : data'[i] = data[i]
      BY <1>6, <3>2, <3>3
    <3>7. Len(fp) + Len(data') = file.got + 1 /\ Len(fp) + (Len(data) + 1) = file.got + 1
      BY <1>2, <3>4, <3>5, <3>6
    <3>8. \A i \in 1..Len(data') : data'[i] = <<f, Len(fp) + i>>
      <4>1. \A i \in 1..Len(data') : i \in 1..Len(data) \/ i = Len(data) + 1 BY <3>5, <3>6
      <4> QED BY <3>4, <3>6, <3>7, <4>1
    <3>9. Holds(Part, AskedFor(Part), file.got)'
      <4>1. flash'[Part'] = fp BY <1>0, <1>5 DEF fp
      <4>2. file'.got = file.got + 1 BY <1>3
      <4> HIDE DEF f
      <4>3. /\ Len(flash'[Part']) + Len(data') = file'.got
            /\ \A i \in 1..Len(flash'[Part']) : flash'[Part'][i] = <<f, i>>
            /\ \A i \in 1..Len(data') : data'[i] = <<f, Len(flash'[Part']) + i>>
        BY <3>4, <3>7, <3>8, <4>1, <4>2
      <4> QED BY <1>5, <4>3, Zenon DEF Holds
    <3>10. ~At("finish")' /\ Opened' /\ ~Idle' BY <1>0, <1>16 DEF Opened, Idle
    <3>11. transfer' = Part' /\ link' = "open" BY <1>5, <1>16, <3>1
    <3> HIDE DEF f
    <3> QED BY <1>1, <1>5, <3>9, <3>10, <3>11, Zenon DEF TransferInv
  <2> QED BY <2>1, <2>2
<1>15. EndInv' BY <1>0 DEF UploaderInv, FlashInv, EndInv
<1> QED BY <1>8, <1>9, <1>10, <1>11, <1>12, <1>13, <1>14, <1>15 DEF UploaderInv, FlashInv

LEMMA EndUploadKeeps == ASSUME UploaderInv, EndUpload PROVE UploaderInv'
<1> USE DEF At
<1> DEFINE x == Op("finish", Part)
<1>0. /\ ~Idle /\ Head(todo).op = "block" /\ (LastBlock \/ link # "open")
      /\ file' = NoFile /\ CloseDataSocket /\ todo' = <<x>> \o Tail(todo)
      /\ UNCHANGED <<mode, address, env, flash, conn, cmds, replies, data, transfer, faults,
                     formVars, sock, response, bucket>>
      /\ job' = job /\ shown' = shown /\ kernel' = kernel /\ brand' = brand
  BY DEF EndUpload, Idle, formVars
<1>1. Part \in Parts BY <1>0, Current DEF UploaderInv, Placed, PartOps, Part
<1>2. x \in Operations /\ x.op = "finish" /\ x.of = Part
  BY <1>1 DEF Op, Message, Operations, Messages, PartOps
<1> HIDE DEF x
<1>3. Placed(x) /\ ~IsStor(x) /\ ~IsStor(Head(todo))
  BY <1>0, <1>1, <1>2 DEF Placed, PartOps, OtherOps, IsStor
<1>4. /\ ScriptInv' /\ ~Idle' /\ Head(todo') = x
      /\ \A n \in DOMAIN todo' : n = 1 \/ (n \in DOMAIN todo /\ todo'[n] = todo[n])
  BY <1>0, <1>2, <1>3, Replaced DEF UploaderInv, Idle
<1>5. Part' = Part /\ AskedFor(Part)' = AskedFor(Part) BY <1>0, <1>2, <1>4 DEF Part, AskedFor
<1>6. /\ ImageAt(file.path) = AskedFor(Part) /\ dsock = "open"
      /\ AskedFor(Part) \in Images \cup {"empty"}
  BY <1>0 DEF UploaderInv, FlashInv, FileInv, Sending, Idle
<1>7. dsock' = "null" /\ link' = (IF link = "open" THEN "closed" ELSE link)
  BY <1>0, <1>6 DEF CloseDataSocket
<1>8. TypeInv'
  <2>1. file' \in [path : Images \cup {"kernel", "empty", "none"}, got : Nat] BY <1>0 DEF NoFile
  <2> QED BY <1>0, <1>7, <2>1 DEF UploaderInv, TypeInv
<1>9. SyncInv'
  BY <1>0, <1>2, <1>4, <1>5 DEF UploaderInv, SyncInv, StorReply, EndOwed, QuietOps, OtherOps, Idle
<1>10. ShownInv'
  <2>1. Head(todo') = todo'[1]
    <3>1. todo' \in Seq(Operations) /\ todo' # <<>> BY <1>4 DEF ScriptInv, Script, Idle
    <3> QED BY <3>1
  <2>2. \A n \in DOMAIN todo' : todo'[n].op = "openfile" => n \in DOMAIN todo /\ todo'[n] = todo[n]
    BY <1>2, <1>4, <2>1
  <2> QED BY <1>0, <2>2 DEF UploaderInv, FlashInv, ShownInv, ImageAt
<1>11. FileInv' /\ OpenInv' BY <1>2, <1>3, <1>4 DEF FileInv, OpenInv, Sending, StorReply
<1>12. LinkInv' BY <1>0, <1>2, <1>4 DEF UploaderInv, FlashInv, LinkInv, Opened, StorReply
<1>13. TransferInv'
  <2>1. CASE transfer = "none" BY <1>0, <2>1 DEF TransferInv
  <2>2. CASE transfer # "none"
    <3>1. transfer = Part /\ link = "open" /\ Holds(Part, AskedFor(Part), file.got)
      BY <1>0, <2>2 DEF UploaderInv, FlashInv, TransferInv
    <3>2. file.got = Size[AskedFor(Part)] BY <1>0, <1>6, <3>1 DEF LastBlock
    <3>3. Holds(Part, AskedFor(Part), Size[AskedFor(Part)])' BY <1>0, <1>5, <3>1, <3>2 DEF Holds
    <3> QED BY <1>0, <1>2, <1>4, <1>5, <1>6, <1>7, <3>1, <3>3 DEF TransferInv
  <2> QED BY <2>1, <2>2
<1>14. EndInv' BY <1>0 DEF UploaderInv, FlashInv, EndInv
<1> QED BY <1>4, <1>8, <1>9, <1>10, <1>11, <1>12, <1>13, <1>14 DEF UploaderInv, FlashInv

LEMMA FinishKeeps == ASSUME UploaderInv, Finish PROVE UploaderInv'
<1> USE DEF At
<1>0. /\ ~Idle /\ Head(todo).op = "finish" /\ Take /\ Throw
      /\ UNCHANGED <<mode, address, env, flash, conn, cmds, link, data, transfer, faults,
                     formVars, sock, dsock, file>>
  BY DEF Finish, Idle
<1>1. Part \in Parts /\ Part # "none" /\ sock = "open"
  BY <1>0, Current DEF UploaderInv, Placed, PartOps, Part, Parts, SyncInv
<1>2. EndOwed BY <1>0 DEF UploaderInv, SyncInv, Idle
<1> DEFINE lines == IF bucket = <<>> THEN replies ELSE bucket
<1>3. /\ lines # <<>> /\ bucket' = Tail(lines) /\ response' \in Nat
      /\ replies' = (IF bucket = <<>> THEN <<>> ELSE replies)
      /\ bucket' \in Seq(Nat) /\ replies' \in Seq(Nat) /\ Len(bucket') = Len(lines) - 1
  BY <1>0, <1>1, TakeOne
<1>4. cmds = <<>> /\ transfer = "none" /\ Len(lines) = 1 /\ replies' = <<>>
  BY <1>2, <1>3 DEF EndOwed
<1>5. bucket' = <<>>
  <2> HIDE DEF lines
  <2>1. Len(bucket') = 0 BY <1>3, <1>4
  <2>2. bucket' \in Seq(Nat) BY <1>3
  <2> QED BY <2>1, <2>2
<1>6. Quiet' /\ data' = <<>> BY <1>0, <1>4, <1>5 DEF Quiet, UploaderInv, FlashInv, LinkInv
<1>7. TypeInv' BY <1>0, <1>3 DEF UploaderInv, TypeInv, formVars
<1> QED BY <1>0, <1>1, <1>6, <1>7, ThrowKeeps

-----------------------------------------------------------------------------
(* The loader's steps. *)
(* A command that is there is the only thing under way. *)
LEMMA CommandThere ==
  ASSUME UploaderInv, cmds # <<>>
  PROVE  /\ bucket = <<>> /\ replies = <<>> /\ transfer = "none" /\ data = <<>>
         /\ Tail(cmds) = <<>> /\ ~Idle /\ Head(cmds) = cmds[1] /\ Head(cmds) \in Messages
         /\ \/ At("erase") \/ StorReply
            \/ At("greeting") \/ (At("read") /\ ~StorReply)
         /\ IF At("erase") \/ StorReply THEN Head(cmds).cmd = "STOR" /\ Head(cmds).var = Part
            ELSE Head(cmds).cmd # "STOR"
<1>1. SyncInv /\ TypeInv /\ ScriptInv BY DEF UploaderInv
<1>2. ~Quiet BY DEF Quiet
<1>3. ~Idle BY <1>1, <1>2 DEF SyncInv
<1>4. Head(todo).op \in PartOps \cup OtherOps \cup {"popup", "greeting", "send", "read"}
  BY <1>1, <1>3, Current DEF Operations
<1>5. Head(todo).op \notin QuietOps BY <1>1, <1>2, <1>3 DEF SyncInv
<1>6. Head(todo).op \notin {"block", "finish", "stor"}
  BY <1>1, <1>2, <1>3 DEF SyncInv, EndOwed, At, Idle
<1>7. Head(todo).op \in {"erase", "read", "greeting"} BY <1>4, <1>5, <1>6 DEF QuietOps, PartOps
<1>8. \/ At("erase") \/ StorReply
      \/ At("greeting") \/ (At("read") /\ ~StorReply)
  BY <1>3, <1>7 DEF At, Idle
<1>9. \A s \in Seq(Messages) : Len(s) = 1 => Tail(s) = <<>> /\ Head(s) = s[1] /\ Head(s) \in Messages
  <2> TAKE s \in Seq(Messages)
  <2> HAVE Len(s) = 1
  <2>1. Len(Tail(s)) = 0 /\ Tail(s) \in Seq(Messages) OBVIOUS
  <2>4. \A t \in Seq(Messages) : Len(t) = 0 => t = <<>> OBVIOUS
  <2>2. Tail(s) = <<>> BY <2>1, <2>4
  <2>3. Head(s) = s[1] /\ Head(s) \in Messages OBVIOUS
  <2> QED BY <2>2, <2>3
<1>10. cmds \in Seq(Messages) BY <1>1 DEF TypeInv
<1>11. CASE At("erase") \/ StorReply
  <2>1. StorAnswer BY <1>1, <1>11 DEF SyncInv
  <2>2. /\ bucket = <<>> /\ replies = <<>> /\ transfer = "none" /\ Len(cmds) = 1
        /\ cmds[1].cmd = "STOR" /\ cmds[1].var = Part
    BY <2>1 DEF StorAnswer
  <2>3. data = <<>> BY <2>2 DEF UploaderInv, FlashInv, LinkInv
  <2> QED BY <1>3, <1>8, <1>9, <1>10, <1>11, <2>2, <2>3
<1>12. CASE ~(At("erase") \/ StorReply)
  <2>1. Answer BY <1>1, <1>8, <1>12 DEF SyncInv
  <2>2. /\ bucket = <<>> /\ replies = <<>> /\ transfer = "none" /\ Len(cmds) = 1
        /\ cmds[1].cmd # "STOR"
    BY <2>1 DEF Answer
  <2>3. data = <<>> BY <2>2 DEF UploaderInv, FlashInv, LinkInv
  <2> QED BY <1>3, <1>8, <1>9, <1>10, <1>12, <2>2, <2>3
<1> QED BY <1>11, <1>12

(* An answer that is no 150 and no end of a transfer. *)
LEMMA Replied ==
  ASSUME UploaderInv, cmds # <<>>, NEW c \in Nat, c \notin {125, 150, 226}, cmds' = <<>>,
         replies' = Append(replies, c), conn' \in BOOLEAN, conn' => conn,
         UNCHANGED <<flash, formVars, todo, libVars>>, transfer' = "none", data' = <<>>,
         link' \in {"none", "listening", "open", "closed", "broken"}
  PROVE  UploaderInv'
<1>0. /\ bucket = <<>> /\ replies = <<>> /\ transfer = "none" /\ ~Idle
      /\ \/ At("erase") \/ StorReply
         \/ At("greeting") \/ (At("read") /\ ~StorReply)
  BY CommandThere
<1>1. /\ job' = job /\ shown' = shown /\ kernel' = kernel /\ brand' = brand /\ sock' = sock
      /\ bucket' = <<>> /\ response' = response /\ dsock' = dsock /\ file' = file
  BY <1>0 DEF formVars, libVars
<1>2. replies' = <<c>> BY <1>0
<1>3. Len(replies') = 1 /\ replies'[1] = c /\ replies' \in Seq(Nat) /\ DOMAIN replies' = {1} BY <1>2
<1>4. ~Started' BY <1>3 DEF Started
<1>5. TypeInv'
  <2>1. cmds' \in Seq(Messages) /\ data' \in Seq(Blocks) OBVIOUS
  <2> QED BY <1>1, <1>3, <2>1 DEF UploaderInv, TypeInv
<1>6. ScriptInv' BY <1>1 DEF UploaderInv, ScriptInv
<1>7. /\ Idle' = Idle /\ StorReply' = StorReply /\ Part' = Part /\ ~Idle'
      /\ \A o : At(o)' = At(o)
  BY <1>0 DEF Idle, StorReply, Part, At
<1>8. /\ At("erase") \/ StorReply => StorAnswer'
      /\ sock # "null" => Answer'
  BY <1>1, <1>3 DEF StorAnswer, Answer
<1>9. sock # "null"
  <2>1. CASE At("erase") \/ StorReply
    <3>1. Part # "none"
      <4>1. CASE At("erase") BY <1>0, <4>1, Current DEF UploaderInv, Placed, PartOps, Part, Parts, At
      <4>2. CASE StorReply
        <5>1. 2 \in 1..Len(todo) /\ Head(todo).op # "close"
          BY <1>0, <4>2, Current DEF UploaderInv, StorReply, At
        <5>2. After(todo[1], todo[2]) /\ Head(todo) = todo[1] BY <1>0, <5>1, Current DEF UploaderInv
        <5>3. Placed(todo[2]) BY <5>1 DEF UploaderInv, ScriptInv, Script
        <5> QED BY <4>2, <5>2, <5>3 DEF StorReply, After, Placed, PartOps, Parts, Part
      <4> QED BY <2>1, <4>1, <4>2
    <3> QED BY <1>0, <2>1, <3>1 DEF UploaderInv, SyncInv, At, StorReply
  <2>2. CASE ~(At("erase") \/ StorReply)
    <3>1. Answer /\ ~Quiet BY <1>0, <2>2 DEF UploaderInv, SyncInv, Quiet
    <3> QED BY <3>1 DEF Answer
  <2> QED BY <2>1, <2>2
<1>10. SyncInv'
  <2>1. Head(todo).op \in {"erase", "read", "greeting"} /\ Head(todo') = Head(todo)
    BY <1>0 DEF At, StorReply
  <2> QED BY <1>0, <1>1, <1>7, <1>8, <1>9, <2>1 DEF UploaderInv, SyncInv, QuietOps, OtherOps, At
<1>11. ShownInv' BY <1>1 DEF UploaderInv, FlashInv, ShownInv, ImageAt
<1>12. FileInv' /\ OpenInv'
  BY <1>1, <1>7 DEF UploaderInv, FlashInv, FileInv, OpenInv, Sending, ImageAt, AskedFor
<1>13. LinkInv' /\ TransferInv'
  <2>1. ~Opened' BY <1>0, <1>4, <1>7 DEF Opened, At, StorReply
  <2> QED BY <2>1 DEF LinkInv, TransferInv
<1>14. EndInv' BY <1>1, <1>3 DEF EndInv
<1> QED BY <1>5, <1>6, <1>10, <1>11, <1>12, <1>13, <1>14 DEF UploaderInv, FlashInv

LEMMA PlainKeeps ==
  ASSUME UploaderInv, UNCHANGED <<formVars, todo, libVars>>,
         AnswerPlain \/ AnswerSetenv \/ AnswerPasv \/ AnswerReboot \/ Refuse
  PROVE  UploaderInv'
<1>1. cmds # <<>> /\ conn BY DEF AnswerPlain, AnswerSetenv, AnswerPasv, AnswerReboot, Refuse, Command
<1>2. transfer = "none" /\ data = <<>> /\ Tail(cmds) = <<>> BY <1>1, CommandThere
<1>3. conn \in BOOLEAN /\ link \in {"none", "listening", "open", "closed", "broken"}
  BY DEF UploaderInv, TypeInv
<1>4. CASE AnswerPlain \/ AnswerSetenv \/ AnswerPasv \/ Refuse
  <2>1. PICK c \in {331, 230, 200, 227, 550} : Reply(c)
    BY <1>4 DEF AnswerPlain, AnswerSetenv, AnswerPasv, Refuse
  <2>2. cmds' = <<>> /\ replies' = Append(replies, c) BY <1>2, <2>1 DEF Reply
  <2>3. /\ flash' = flash /\ transfer' = "none" /\ data' = <<>> /\ conn' = conn
        /\ link' \in {"none", "listening", "open", "closed", "broken"}
    BY <1>2, <1>3, <1>4 DEF AnswerPlain, AnswerSetenv, AnswerPasv, Refuse
  <2>4. c \in Nat /\ c \notin {125, 150, 226} BY <2>1
  <2> QED BY <1>1, <1>3, <2>2, <2>3, <2>4, Replied
<1>5. CASE AnswerReboot
  <2>1. /\ cmds' = <<>> /\ replies' = Append(replies, 221) /\ flash' = flash /\ transfer' = "none"
        /\ data' = <<>> /\ conn' = FALSE /\ link' = "none"
    BY <1>5 DEF AnswerReboot, Boot
  <2>2. PICK c \in Nat : c = 221 OBVIOUS
  <2>3. replies' = Append(replies, c) /\ c \notin {125, 150, 226} BY <2>1, <2>2
  <2>4. conn' \in BOOLEAN /\ (conn' => conn) BY <1>1, <2>1
  <2>5. link' \in {"none", "listening", "open", "closed", "broken"} BY <2>1
  <2> QED BY <1>1, <2>1, <2>3, <2>4, <2>5, Replied
<1> QED BY <1>4, <1>5

LEMMA AnswerStorKeeps ==
  ASSUME UploaderInv, UNCHANGED <<formVars, todo, libVars>>, AnswerStor
  PROVE  UploaderInv' /\ Part \in Parts /\ \A p \in Parts : p # Part => flash'[p] = flash[p]
<1> DEFINE f == AskedFor(Part)
<1>0. /\ conn /\ cmds # <<>> /\ Head(cmds).cmd = "STOR" /\ link = "open"
      /\ cmds' = Tail(cmds) /\ replies' = Append(replies, 150)
      /\ flash' = [flash EXCEPT ![Head(cmds).var] = <<>>] /\ transfer' = Head(cmds).var
      /\ UNCHANGED <<mode, address, conn, link, data, faults>>
  BY DEF AnswerStor, Command, Reply
<1>1. /\ bucket = <<>> /\ replies = <<>> /\ transfer = "none" /\ data = <<>> /\ ~Idle
      /\ Tail(cmds) = <<>> /\ Head(cmds).var = Part /\ (At("erase") \/ StorReply)
  BY <1>0, CommandThere
<1>2. /\ job' = job /\ shown' = shown /\ kernel' = kernel /\ brand' = brand /\ sock' = sock
      /\ bucket' = <<>> /\ response' = response /\ dsock' = dsock /\ file' = file /\ cmds' = <<>>
      /\ todo' = todo
  BY <1>0, <1>1 DEF formVars, libVars
<1>3. replies' = <<150>> BY <1>0, <1>1
<1>4. Len(replies') = 1 /\ replies'[1] = 150 /\ replies' \in Seq(Nat) /\ DOMAIN replies' = {1} /\ Started'
  BY <1>3 DEF Started
<1>5. Part \in Parts
  <2>1. CASE At("erase") BY <1>1, <2>1, Current DEF UploaderInv, Placed, PartOps, Part, Parts, At
  <2>2. CASE StorReply
    <3>1. 2 \in 1..Len(todo) /\ Head(todo).op # "close"
      BY <1>1, <2>2, Current DEF UploaderInv, StorReply, At
    <3>2. After(todo[1], todo[2]) /\ Head(todo) = todo[1] BY <1>1, <3>1, Current DEF UploaderInv
    <3>3. Placed(todo[2]) BY <3>1 DEF UploaderInv, ScriptInv, Script
    <3> QED BY <2>2, <3>2, <3>3 DEF StorReply, After, Placed, PartOps, Parts, Part
  <2> QED BY <1>1, <2>1, <2>2
<1>6. /\ flash' \in [Parts -> Seq(Blocks)] /\ flash'[Part] = <<>>
      /\ \A p \in Parts : p # Part => flash'[p] = flash[p]
  <2>1. flash \in [Parts -> Seq(Blocks)] BY DEF UploaderInv, TypeInv
  <2>2. flash' = [flash EXCEPT ![Part] = <<>>] BY <1>0, <1>1
  <2>3. <<>> \in Seq(Blocks) OBVIOUS
  <2> HIDE DEF f
  <2> QED BY <1>5, <2>1, <2>2, <2>3
<1>7. TypeInv'
  <2>1. cmds' \in Seq(Messages) BY <1>2
  <2> QED BY <1>0, <1>1, <1>2, <1>4, <1>5, <1>6, <2>1 DEF UploaderInv, TypeInv
<1>8. ScriptInv' BY <1>2 DEF UploaderInv, ScriptInv
<1>9. /\ StorReply' = StorReply /\ Part' = Part /\ ~Idle' /\ \A o : At(o)' = At(o)
  BY <1>1, <1>2 DEF Idle, StorReply, Part, At
<1>10. SyncInv'
  <2>1. Head(todo).op \in {"erase", "read"} /\ Head(todo') = Head(todo)
    BY <1>1, <1>2 DEF At, StorReply
  <2>2. StorAnswer' BY <1>2, <1>4 DEF StorAnswer
  <2>3. At("read") => StorReply BY <1>1 DEF At
  <2> QED BY <1>0, <1>1, <1>2, <1>9, <2>1, <2>2, <2>3 DEF UploaderInv, SyncInv, QuietOps, OtherOps, At
<1>11. ShownInv' BY <1>2 DEF UploaderInv, FlashInv, ShownInv, ImageAt
<1>17. /\ ImageAt(file.path) = f /\ f \in Images \cup {"empty"} /\ file.got = 0
       /\ dsock = "open" /\ ~At("block") /\ ~At("openfile")
  <2>1. Sending /\ ~At("block") /\ ~At("openfile") BY <1>1 DEF Sending, At, StorReply
  <2> QED BY <2>1 DEF UploaderInv, FlashInv, FileInv
<1>18. f' = f /\ ImageAt(file.path)' = ImageAt(file.path) BY <1>2, <1>9 DEF AskedFor, ImageAt
<1>12. FileInv' /\ OpenInv'
  <2>1. ~At("block")' /\ ~At("openfile")' BY <1>9, <1>17
  <2> QED BY <1>2, <1>17, <1>18, <2>1 DEF FileInv, OpenInv
<1>13. transfer' # "none" BY <1>0, <1>1, <1>5 DEF Parts
<1>14. TransferInv'
  <2>1. f \in Images \cup {"empty"} /\ file.got = 0 BY <1>17
  <2>2. f' = f BY <1>18
  <2>3. Len(flash'[Part]) = 0 /\ Len(data') = 0 BY <1>0, <1>1, <1>6
  <2>4. Holds(Part, f, file.got)' BY <1>2, <1>9, <2>1, <2>3 DEF Holds
  <2>5. ~At("finish")' /\ Opened' BY <1>1, <1>4, <1>9 DEF Opened, At, StorReply
  <2> QED BY <1>0, <1>1, <1>9, <2>1, <2>2, <2>4, <2>5 DEF TransferInv
<1>15. LinkInv' BY <1>13 DEF LinkInv
<1>16. EndInv' BY <1>2, <1>4 DEF EndInv
<1> QED BY <1>5, <1>6, <1>7, <1>8, <1>10, <1>11, <1>12, <1>14, <1>15, <1>16 DEF UploaderInv, FlashInv

(* Where a transfer goes on, nothing is owed yet. *)
LEMMA TransferThere ==
  ASSUME UploaderInv, transfer # "none"
  PROVE  /\ ~Idle /\ transfer = Part /\ Part \in Parts /\ (At("finish") \/ Opened)
         /\ link = (IF At("finish") THEN "closed" ELSE "open")
         /\ AskedFor(Part) \in Images \cup {"empty"}
         /\ Holds(Part, AskedFor(Part), IF At("finish") THEN Size[AskedFor(Part)] ELSE file.got)
         /\ cmds = <<>> /\ bucket = <<>>
         /\ \/ (At("erase") \/ StorReply) /\ Len(replies) = 1 /\ Started
            \/ replies = <<>> /\ (At("finish") \/ At("block") \/ (At("stor") /\ Accepted))
         /\ \A n \in DOMAIN replies : replies[n] # 226
<1>1. /\ ~Idle /\ transfer = Part /\ Part \in Parts /\ (At("finish") \/ Opened)
      /\ link = (IF At("finish") THEN "closed" ELSE "open")
      /\ AskedFor(Part) \in Images \cup {"empty"}
      /\ Holds(Part, AskedFor(Part), IF At("finish") THEN Size[AskedFor(Part)] ELSE file.got)
  BY DEF UploaderInv, FlashInv, TransferInv, TypeInv
<1>2. CASE At("finish") \/ At("block") \/ (At("stor") /\ Accepted)
  <2>1. EndOwed BY <1>2 DEF UploaderInv, SyncInv
  <2>2. cmds = <<>> /\ bucket = <<>> /\ replies = <<>> BY <2>1 DEF EndOwed
  <2> QED BY <1>1, <1>2, <2>2
<1>3. CASE (At("erase") \/ StorReply) /\ Started
  <2>1. StorAnswer BY <1>3 DEF UploaderInv, SyncInv
  <2>2. cmds = <<>> /\ bucket = <<>> /\ Len(replies) = 1 BY <1>3, <2>1 DEF StorAnswer, Started
  <2>3. \A n \in DOMAIN replies : replies[n] # 226
    BY <1>3 DEF UploaderInv, FlashInv, EndInv, At, StorReply
  <2> QED BY <1>1, <1>3, <2>2, <2>3
<1> QED BY <1>1, <1>2, <1>3 DEF Opened

LEMMA StoreBlockKeeps ==
  ASSUME UploaderInv, UNCHANGED <<formVars, todo, libVars>>, StoreBlock
  PROVE  /\ UploaderInv' /\ Part \in Parts /\ Holds(Part, AskedFor(Part), Len(flash[Part]) + Len(data))'
         /\ AskedFor(Part)' = AskedFor(Part)
         /\ Len(flash'[Part]) + Len(data') <= Size[AskedFor(Part)]
         /\ \A p \in Parts : p # Part => flash'[p] = flash[p]
<1> DEFINE f == AskedFor(Part)
           m == IF At("finish") THEN Size[f] ELSE file.got
           fp == flash[Part]
<1>0. /\ transfer # "none" /\ data # <<>>
      /\ flash' = [flash EXCEPT ![transfer] = Append(@, Head(data))]
      /\ data' = Tail(data)
      /\ UNCHANGED <<mode, address, env, conn, cmds, replies, link, transfer, faults>>
  BY DEF StoreBlock
<1>1. /\ ~Idle /\ transfer = Part /\ Part \in Parts /\ (At("finish") \/ Opened)
      /\ link = (IF At("finish") THEN "closed" ELSE "open")
      /\ f \in Images \cup {"empty"} /\ Holds(Part, f, m)
      /\ bucket = <<>> /\ \A n \in DOMAIN replies : replies[n] # 226
  BY <1>0, TransferThere
<1>2. /\ job' = job /\ shown' = shown /\ kernel' = kernel /\ brand' = brand /\ sock' = sock
      /\ bucket' = bucket /\ response' = response /\ dsock' = dsock /\ file' = file /\ cmds' = cmds
      /\ todo' = todo /\ replies' = replies /\ link' = link /\ transfer' = transfer /\ conn' = conn
  BY <1>0 DEF formVars, libVars
<1>3. flash \in [Parts -> Seq(Blocks)] /\ data \in Seq(Blocks) BY DEF UploaderInv, TypeInv
<1>4. fp \in Seq(Blocks) /\ Head(data) = data[1] /\ Head(data) \in Blocks /\ Len(data) >= 1 /\ Len(data) \in Nat
  BY <1>0, <1>1, <1>3
<1>5. /\ flash' \in [Parts -> Seq(Blocks)] /\ flash'[Part] = Append(fp, data[1])
      /\ \A p \in Parts : p # Part => flash'[p] = flash[p]
  <2>1. Append(fp, data[1]) \in Seq(Blocks) BY <1>4
  <2>2. flash' = [flash EXCEPT ![Part] = Append(fp, data[1])] BY <1>0, <1>1, <1>4
  <2> HIDE DEF fp, f, m
  <2> QED BY <1>1, <1>3, <2>1, <2>2
<1>6. /\ data' \in Seq(Blocks) /\ Len(data') = Len(data) - 1
      /\ \A i \in 1..(Len(data) - 1) : data'[i] = data[i + 1]
  BY <1>0, <1>3, <1>4
<1>7. TypeInv' BY <1>2, <1>5, <1>6 DEF UploaderInv, TypeInv
<1>8. ScriptInv' BY <1>2 DEF UploaderInv, ScriptInv
<1>9. /\ StorReply' = StorReply /\ Part' = Part /\ Idle' = Idle /\ (\A o : At(o)' = At(o))
      /\ f' = f /\ ImageAt(file.path)' = ImageAt(file.path)
  BY <1>2 DEF Idle, StorReply, Part, At, AskedFor, ImageAt
<1>10. /\ Opened' = Opened /\ Started' = Started /\ Accepted' = Accepted /\ EndOwed' = EndOwed
       /\ StorAnswer' = StorAnswer /\ Answer' = Answer /\ Quiet' = Quiet
  BY <1>2, <1>9 DEF Opened, Started, Accepted, EndOwed, StorAnswer, Answer, Quiet
<1>11. SyncInv'
  <2>1. Head(todo') = Head(todo) BY <1>2
  <2> QED BY <1>2, <1>9, <1>10, <2>1 DEF UploaderInv, SyncInv
<1>12. ShownInv' BY <1>2 DEF UploaderInv, FlashInv, ShownInv, ImageAt
<1>13. FileInv' /\ OpenInv'
  <2>1. Sending' = Sending BY <1>2, <1>9 DEF Sending
  <2> HIDE DEF f
  <2> QED BY <1>2, <1>9, <2>1 DEF UploaderInv, FlashInv, FileInv, OpenInv, f
<1>14. LinkInv' BY <1>0, <1>2 DEF LinkInv
<1>15. /\ Len(flash'[Part]) = Len(fp) + 1 /\ Len(flash'[Part]) + Len(data') = m
       /\ \A i \in 1..Len(flash'[Part]) : flash'[Part][i] = <<f, i>>
       /\ \A i \in 1..Len(data') : data'[i] = <<f, Len(flash'[Part]) + i>>
  <2>1. /\ Len(fp) + Len(data) = m
        /\ \A i \in 1..Len(fp) : fp[i] = <<f, i>>
        /\ \A i \in 1..Len(data) : data[i] = <<f, Len(fp) + i>>
    BY <1>1 DEF Holds
  <2> DEFINE fn == flash'[Part]
  <2>2. fn = Append(fp, data[1]) /\ fp \in Seq(Blocks) /\ data[1] \in Blocks BY <1>4, <1>5
  <2> HIDE DEF fp, f, m, fn
  <2>3. /\ Len(fn) = Len(fp) + 1 /\ fn[Len(fp) + 1] = data[1] /\ Len(fp) \in Nat
        /\ \A i \in 1..Len(fp) : fn[i] = fp[i]
    BY <2>2
  <2>4. 1 \in 1..Len(data) BY <1>4
  <2>5. data[1] = <<f, Len(fp) + 1>> BY <2>1, <2>4
  <2>6. \A i \in 1..Len(fn) : i \in 1..Len(fp) \/ i = Len(fp) + 1 BY <2>3
  <2>7. \A i \in 1..Len(fn) : fn[i] = <<f, i>> BY <2>1, <2>3, <2>5, <2>6
  <2>8. \A i \in 1..Len(data') : /\ i \in 1..(Len(data) - 1) /\ i + 1 \in 1..Len(data)
                                 /\ Len(fp) + (i + 1) = Len(fn) + i
    BY <1>4, <1>6, <2>3
  <2>9. \A i \in 1..Len(data') : data'[i] = <<f, Len(fn) + i>> BY <1>6, <2>1, <2>8
  <2>10. Len(fn) + Len(data') = m BY <1>4, <1>6, <2>1, <2>3
  <2> QED BY <2>3, <2>7, <2>9, <2>10 DEF fn
<1>16. m' = m BY <1>2, <1>9
<1>17. Holds(Part, AskedFor(Part), Len(flash[Part]) + Len(data))'
  <2> HIDE DEF f, m
  <2>1. flash'[Part'] = flash'[Part] /\ AskedFor(Part)' = f BY <1>9 DEF f
  <2> QED BY <1>15, <2>1 DEF Holds
<1>18. TransferInv'
  <2> HIDE DEF f
  <2>1. AskedFor(Part)' = f /\ AskedFor(Part) = f BY <1>9 DEF f
  <2>2. Holds(Part, f, m)' <=> Holds(Part, AskedFor(Part), Len(flash[Part]) + Len(data))'
    BY <1>9, <1>15, <1>16 DEF Holds, f
  <2>3. Holds(Part, AskedFor(Part), IF At("finish") THEN Size[AskedFor(Part)] ELSE file.got)'
    BY <1>17, <2>2 DEF f
  <2> QED BY <1>1, <1>2, <1>9, <1>10, <2>1, <2>3 DEF TransferInv
<1>19. EndInv' BY <1>1, <1>2 DEF EndInv
<1>20. m <= Size[f] /\ m \in Nat
  <2>1. Size[f] \in Nat BY <1>1, BoxAssumption
  <2>2. CASE At("finish") BY <2>1, <2>2
  <2>3. CASE ~At("finish")
    <3>1. Sending BY <1>1, <2>3 DEF Opened, Sending, At, Idle
    <3>2. file.got <= Size[f] /\ file.got \in Nat
      BY <2>1, <3>1 DEF UploaderInv, FlashInv, FileInv, TypeInv
    <3> QED BY <2>3, <3>2
  <2> QED BY <2>2, <2>3
<1>21. UploaderInv'
  BY <1>7, <1>8, <1>11, <1>12, <1>13, <1>14, <1>18, <1>19 DEF UploaderInv, FlashInv
<1> QED BY <1>1, <1>5, <1>9, <1>15, <1>17, <1>20, <1>21

LEMMA EndTransferKeeps ==
  ASSUME UploaderInv, UNCHANGED <<formVars, todo, libVars>>, EndTransfer
  PROVE  UploaderInv'
<1> DEFINE f == AskedFor(Part)
           fp == flash[Part]
<1>0. /\ transfer # "none" /\ data = <<>> /\ link = "closed"
      /\ transfer' = "none" /\ link' = "none" /\ replies' = Append(replies, 226)
      /\ UNCHANGED <<mode, address, env, flash, conn, cmds, data, faults>>
  BY DEF EndTransfer
<1>1. At("finish") BY <1>0, TransferThere
<1>2. /\ ~Idle /\ Part \in Parts /\ f \in Images \cup {"empty"} /\ Holds(Part, f, Size[f])
      /\ cmds = <<>> /\ bucket = <<>> /\ replies = <<>>
  BY <1>0, <1>1, TransferThere DEF At, StorReply
<1>3. /\ job' = job /\ shown' = shown /\ kernel' = kernel /\ brand' = brand /\ sock' = sock
      /\ bucket' = bucket /\ response' = response /\ dsock' = dsock /\ file' = file /\ cmds' = cmds
      /\ todo' = todo /\ conn' = conn /\ flash' = flash /\ data' = data
  BY <1>0 DEF formVars, libVars
<1>4. replies' = <<226>> BY <1>0, <1>2
<1>5. Len(replies') = 1 /\ replies' \in Seq(Nat) BY <1>4
<1>6. TypeInv' BY <1>0, <1>3, <1>5 DEF UploaderInv, TypeInv
<1>7. ScriptInv' BY <1>3 DEF UploaderInv, ScriptInv
<1>8. /\ Part' = Part /\ ~Idle' /\ (\A o : At(o)' = At(o)) /\ f' = f /\ At("finish")'
  BY <1>1, <1>2, <1>3 DEF Idle, Part, At, AskedFor
<1>9. SyncInv'
  <2>1. EndOwed' BY <1>0, <1>2, <1>3, <1>5 DEF EndOwed
  <2>2. Head(todo') = "finish" \/ Head(todo').op = "finish" BY <1>8 DEF At
  <2> QED BY <1>1, <1>2, <1>3, <1>8, <2>1 DEF UploaderInv, SyncInv, StorReply, QuietOps, OtherOps, At
<1>10. ShownInv' BY <1>3 DEF UploaderInv, FlashInv, ShownInv, ImageAt
<1>11. FileInv' /\ OpenInv' BY <1>8 DEF FileInv, OpenInv, Sending, StorReply, IsStor, At
<1>12. LinkInv' /\ TransferInv' BY <1>0, <1>3 DEF LinkInv, TransferInv
<1>13. fp = Whole(f)
  <2>1. fp \in Seq(Blocks) BY <1>2 DEF UploaderInv, TypeInv
  <2>2. Len(data) = 0 BY <1>0
  <2>3. Size[f] \in Nat BY <1>2, BoxAssumption
  <2>4. Len(fp) = Size[f] /\ \A i \in 1..Len(fp) : fp[i] = <<f, i>> BY <1>2, <2>1, <2>2 DEF Holds
  <2> HIDE DEF fp, f
  <2>5. fp = [i \in 1..Len(fp) |-> fp[i]] BY <2>1
  <2> QED BY <2>4, <2>5 DEF Whole
<1>14. EndInv' BY <1>3, <1>8, <1>13 DEF EndInv
<1> QED BY <1>6, <1>7, <1>9, <1>10, <1>11, <1>12, <1>14 DEF UploaderInv, FlashInv

(* A transfer given up, a loss of power.  Neither adds to the partitions. *)
LEMMA BreakKeeps ==
  ASSUME UploaderInv, UNCHANGED <<formVars, todo, libVars>>, BreakTransfer
  PROVE  UploaderInv'
<1>0. /\ transfer # "none" /\ transfer' = "none" /\ data' = <<>> /\ link' = "broken"
      /\ replies' = Append(replies, 426)
      /\ UNCHANGED <<mode, address, env, flash, conn, cmds>>
  BY DEF BreakTransfer
<1>1. /\ ~Idle /\ (At("finish") \/ Opened) /\ cmds = <<>> /\ bucket = <<>>
      /\ \/ (At("erase") \/ StorReply) /\ Len(replies) = 1 /\ Started
         \/ replies = <<>> /\ (At("finish") \/ At("block") \/ (At("stor") /\ Accepted))
      /\ \A n \in DOMAIN replies : replies[n] # 226
  BY <1>0, TransferThere
<1>2. /\ job' = job /\ shown' = shown /\ kernel' = kernel /\ brand' = brand /\ sock' = sock
      /\ bucket' = bucket /\ response' = response /\ dsock' = dsock /\ file' = file /\ cmds' = cmds
      /\ todo' = todo /\ conn' = conn /\ flash' = flash
  BY <1>0 DEF formVars, libVars
<1>3. /\ replies' \in Seq(Nat) /\ Len(replies') = Len(replies) + 1 /\ Len(replies) \in Nat
      /\ replies # <<>> => replies'[1] = replies[1]
      /\ \A n \in DOMAIN replies' : replies'[n] # 226
  <2>1. replies \in Seq(Nat) BY DEF UploaderInv, TypeInv
  <2>2. /\ replies' \in Seq(Nat) /\ Len(replies') = Len(replies) + 1 /\ Len(replies) \in Nat
        /\ \A n \in 1..Len(replies) : replies'[n] = replies[n]
        /\ replies'[Len(replies) + 1] = 426
    BY <1>0, <2>1
  <2>3. \A n \in DOMAIN replies' : n \in 1..Len(replies) \/ n = Len(replies) + 1 BY <2>2
  <2>4. replies # <<>> => 1 \in 1..Len(replies) BY <2>1
  <2>5. \A n \in 1..Len(replies) : replies[n] # 226 BY <1>1, <2>1
  <2> QED BY <2>2, <2>3, <2>4, <2>5
<1>4. TypeInv'
  <2>1. data' \in Seq(Blocks) BY <1>0
  <2> QED BY <1>0, <1>2, <1>3, <2>1 DEF UploaderInv, TypeInv
<1>5. ScriptInv' BY <1>2 DEF UploaderInv, ScriptInv
<1>6. /\ StorReply' = StorReply /\ Part' = Part /\ ~Idle' /\ (\A o : At(o)' = At(o))
      /\ Accepted' = Accepted
  BY <1>1, <1>2 DEF Idle, StorReply, Part, At, Accepted
<1>7. SyncInv'
  <2>1. Head(todo') = Head(todo) /\ Head(todo).op \notin QuietOps /\ ~At("popup") /\ ~At("greeting")
    BY <1>1, <1>2 DEF At, StorReply, QuietOps, OtherOps
  <2>2. CASE (At("erase") \/ StorReply) /\ Len(replies) = 1 /\ Started
    <3>1. Len(replies') = 2 /\ replies'[1] = 150 /\ replies' # <<>>
      BY <1>3, <2>2 DEF Started
    <3>2. StorAnswer' BY <1>0, <1>1, <1>2, <3>1 DEF StorAnswer, Started
    <3>3. At("read") => StorReply BY <2>2 DEF At
    <3>4. ~At("stor") /\ ~At("block") /\ ~At("finish") BY <2>2 DEF At, StorReply
    <3> QED BY <1>1, <1>2, <1>6, <2>1, <3>2, <3>3, <3>4 DEF UploaderInv, SyncInv
  <2>3. CASE replies = <<>> /\ (At("finish") \/ At("block") \/ (At("stor") /\ Accepted))
    <3>1. Len(replies') = 1
      <4>1. Len(replies) = 0 BY <2>3
      <4> QED BY <1>3, <4>1
    <3>2. EndOwed' BY <1>0, <1>1, <1>2, <3>1 DEF EndOwed
    <3>3. ~At("erase") /\ ~At("read") BY <2>3 DEF At
    <3>4. ~StorReply /\ ~At("greeting") BY <2>1, <3>3 DEF StorReply
    <3>5. At("stor") => Accepted BY <2>3 DEF At
    <3> QED BY <1>1, <1>2, <1>6, <2>1, <3>2, <3>3, <3>4, <3>5 DEF UploaderInv, SyncInv
  <2> QED BY <1>1, <2>2, <2>3
<1>8. ShownInv' BY <1>2 DEF UploaderInv, FlashInv, ShownInv, ImageAt
<1>12. /\ AskedFor(Part)' = AskedFor(Part) /\ ImageAt(file.path)' = ImageAt(file.path)
       /\ Sending' = Sending
  <2>1. AskedFor(Part)' = AskedFor(Part) /\ ImageAt(file.path)' = ImageAt(file.path)
    BY <1>2, <1>6 DEF ImageAt, AskedFor
  <2>2. Sending' = Sending
    <3>1. Head(todo') = Head(todo) /\ Idle' = Idle BY <1>2 DEF Idle
    <3> QED BY <1>6, <3>1 DEF Sending
  <2> QED BY <2>1, <2>2
<1>9. FileInv' /\ OpenInv'
  BY <1>2, <1>6, <1>12 DEF UploaderInv, FlashInv, FileInv, OpenInv
<1>10. LinkInv' /\ TransferInv' BY <1>0 DEF LinkInv, TransferInv
<1>11. EndInv' BY <1>1, <1>2, <1>3 DEF EndInv
<1> QED BY <1>4, <1>5, <1>7, <1>8, <1>9, <1>10, <1>11 DEF UploaderInv, FlashInv

LEMMA PowerLossKeeps ==
  ASSUME UploaderInv, UNCHANGED <<formVars, todo, libVars>>, PowerLoss
  PROVE  UploaderInv'
<1>0. /\ conn' = FALSE /\ cmds' = <<>> /\ link' = "none" /\ data' = <<>> /\ transfer' = "none"
      /\ UNCHANGED <<env, flash, replies>>
  BY DEF PowerLoss, Boot
<1>1. /\ job' = job /\ shown' = shown /\ kernel' = kernel /\ brand' = brand /\ sock' = sock
      /\ bucket' = bucket /\ response' = response /\ dsock' = dsock /\ file' = file
      /\ todo' = todo /\ flash' = flash /\ replies' = replies
  BY <1>0 DEF formVars, libVars
<1>2. TypeInv'
  <2>1. data' \in Seq(Blocks) /\ cmds' \in Seq(Messages) BY <1>0
  <2> QED BY <1>0, <1>1, <2>1 DEF UploaderInv, TypeInv
<1>3. ScriptInv' BY <1>1 DEF UploaderInv, ScriptInv
<1>4. /\ StorReply' = StorReply /\ Part' = Part /\ Idle' = Idle /\ (\A o : At(o)' = At(o))
      /\ Accepted' = Accepted /\ Started' = Started /\ Head(todo') = Head(todo)
  BY <1>1 DEF Idle, StorReply, Part, At, Accepted, Started
<1>5. /\ Quiet => Quiet'
      /\ Answer => Answer'
      /\ StorAnswer => StorAnswer'
      /\ EndOwed => EndOwed'
  <2>1. Quiet => Quiet' BY <1>0, <1>1 DEF Quiet
  <2>2. Answer => Answer'
    <3>1. replies = <<>> => Len(replies) <= 1 OBVIOUS
    <3> QED BY <1>0, <1>1, <2>1, <3>1 DEF Answer
  <2>3. StorAnswer => StorAnswer' BY <1>0, <1>1, <1>4 DEF StorAnswer
  <2>4. EndOwed => EndOwed' BY <1>0, <1>1 DEF EndOwed
  <2> QED BY <2>1, <2>2, <2>3, <2>4
<1>6. SyncInv' BY <1>0, <1>1, <1>4, <1>5 DEF UploaderInv, SyncInv
<1>7. ShownInv' BY <1>1 DEF UploaderInv, FlashInv, ShownInv, ImageAt
<1>8. FileInv' /\ OpenInv'
  BY <1>1, <1>4 DEF UploaderInv, FlashInv, FileInv, OpenInv, Sending, ImageAt, AskedFor
<1>9. LinkInv' /\ TransferInv' BY <1>0 DEF LinkInv, TransferInv
<1>10. EndInv' BY <1>1, <1>4 DEF UploaderInv, FlashInv, EndInv, AskedFor
<1> QED BY <1>2, <1>3, <1>6, <1>7, <1>8, <1>9, <1>10 DEF UploaderInv, FlashInv

-----------------------------------------------------------------------------
(* The invariant, and what follows from it. *)
LEMMA Initially == Init => UploaderInv
<1> SUFFICES ASSUME Init PROVE UploaderInv OBVIOUS
<1> USE DEF Init, BoxInit
<1>1. /\ sock = "null" /\ bucket = <<>> /\ response = 0 /\ dsock = "null" /\ file = NoFile
      /\ todo = <<>> /\ conn = FALSE /\ cmds = <<>> /\ replies = <<>> /\ link = "none"
      /\ data = <<>> /\ transfer = "none"
  OBVIOUS
<1>2. TypeInv
  <2>1. Whole("old") \in Seq(Blocks)
    <3>1. "old" \in Files /\ Size["old"] \in Nat BY BoxAssumption DEF Files
    <3>2. \A i \in 1..Size["old"] : <<"old", i>> \in Blocks BY <3>1 DEF Blocks
    <3> QED BY <3>1, <3>2 DEF Whole
  <2>2. flash \in [Parts -> Seq(Blocks)] BY <2>1
  <2>3. file \in [path : Images \cup {"kernel", "empty", "none"}, got : Nat] BY DEF NoFile
  <2>4. /\ replies \in Seq(Nat) /\ bucket \in Seq(Nat) /\ cmds \in Seq(Messages)
        /\ data \in Seq(Blocks)
    BY <1>1
  <2>5. job \in [image : Images \cup {"none"}, brand : Brands, push : BOOLEAN, clear : BOOLEAN]
    OBVIOUS
  <2>6. /\ response \in Nat /\ sock \in {"null", "open"} /\ dsock \in {"null", "open"}
        /\ transfer \in Parts \cup {"none"}
        /\ link \in {"none", "listening", "open", "closed", "broken"}
    BY <1>1
  <2>8. conn \in BOOLEAN BY <1>1
  <2>7. shown \in Images \cup {"kernel"} /\ kernel \in Images \cup {"none"} /\ brand \in Brands
    OBVIOUS
  <2> QED BY <2>2, <2>3, <2>4, <2>5, <2>6, <2>7, <2>8 DEF TypeInv
<1>3. Script(todo, job) /\ Closed(todo)
  <2>1. todo \in Seq(Operations) /\ Len(todo) = 0 BY <1>1
  <2> QED BY <1>1, <2>1 DEF Script, Closed
<1>4. SyncInv BY <1>1 DEF SyncInv, Idle, Quiet, At, StorReply
<1>5. FlashInv
  <2>1. DOMAIN todo = {} /\ DOMAIN replies = {} /\ DOMAIN bucket = {} BY <1>1
  <2> QED BY <1>1, <2>1
      DEF FlashInv, ShownInv, FileInv, OpenInv, LinkInv, TransferInv, EndInv, Sending, Opened, At,
          StorReply, Idle
<1> QED BY <1>2, <1>3, <1>4, <1>5 DEF UploaderInv, ScriptInv

LEMMA StutterKeeps == ASSUME UploaderInv, UNCHANGED vars PROVE UploaderInv'
<1>1. UNCHANGED <<replies, bucket, response, cmds, sock, dsock, conn, transfer, link, data, flash,
                  shown, kernel, brand, job, file, todo>>
  BY DEF vars, boxVars, formVars, libVars
<1>2. TypeInv' BY <1>1 DEF UploaderInv, TypeInv
<1>3. ScriptInv' BY <1>1 DEF UploaderInv, ScriptInv
<1>4. SyncInv'
  BY <1>1 DEF UploaderInv, SyncInv, Quiet, Answer, StorAnswer, EndOwed, Started, Accepted, StorReply,
              Part, At, Idle
<1>5. /\ Sending' = Sending /\ Opened' = Opened /\ AskedFor(Part)' = AskedFor(Part)
      /\ ImageAt(file.path)' = ImageAt(file.path) /\ Idle' = Idle /\ Part' = Part
      /\ \A o : At(o)' = At(o)
  BY <1>1 DEF Sending, Opened, Started, Accepted, StorReply, AskedFor, ImageAt, Part, At, Idle, IsStor
<1>6. ShownInv' BY <1>1 DEF UploaderInv, FlashInv, ShownInv, ImageAt
<1>7. FileInv' /\ OpenInv' BY <1>1, <1>5 DEF UploaderInv, FlashInv, FileInv, OpenInv
<1>8. LinkInv' BY <1>1, <1>5 DEF UploaderInv, FlashInv, LinkInv
<1>9. TransferInv' BY <1>1, <1>5 DEF UploaderInv, FlashInv, TransferInv, Holds
<1>10. EndInv' BY <1>1, <1>5 DEF UploaderInv, FlashInv, EndInv
<1> QED BY <1>2, <1>3, <1>4, <1>6, <1>7, <1>8, <1>9, <1>10 DEF UploaderInv, FlashInv

LEMMA BootSystemKeeps ==
  ASSUME UploaderInv, UNCHANGED <<formVars, todo, libVars>>, BootSystem
  PROVE  UploaderInv'
<1>1. UNCHANGED <<replies, bucket, response, cmds, sock, dsock, conn, transfer, link, data, flash,
                  shown, kernel, brand, job, file, todo>>
  BY DEF BootSystem, formVars, libVars
<1>2. TypeInv' BY <1>1 DEF UploaderInv, TypeInv
<1>3. ScriptInv' BY <1>1 DEF UploaderInv, ScriptInv
<1>4. SyncInv'
  BY <1>1 DEF UploaderInv, SyncInv, Quiet, Answer, StorAnswer, EndOwed, Started, Accepted, StorReply,
              Part, At, Idle
<1>5. /\ Sending' = Sending /\ Opened' = Opened /\ AskedFor(Part)' = AskedFor(Part)
      /\ ImageAt(file.path)' = ImageAt(file.path) /\ Idle' = Idle /\ Part' = Part
      /\ \A o : At(o)' = At(o)
  BY <1>1 DEF Sending, Opened, Started, Accepted, StorReply, AskedFor, ImageAt, Part, At, Idle, IsStor
<1>6. ShownInv' BY <1>1 DEF UploaderInv, FlashInv, ShownInv, ImageAt
<1>7. FileInv' /\ OpenInv' BY <1>1, <1>5 DEF UploaderInv, FlashInv, FileInv, OpenInv
<1>8. LinkInv' BY <1>1, <1>5 DEF UploaderInv, FlashInv, LinkInv
<1>9. TransferInv' BY <1>1, <1>5 DEF UploaderInv, FlashInv, TransferInv, Holds
<1>10. EndInv' BY <1>1, <1>5 DEF UploaderInv, FlashInv, EndInv
<1> QED BY <1>2, <1>3, <1>4, <1>6, <1>7, <1>8, <1>9, <1>10 DEF UploaderInv, FlashInv

LEMMA Inductive == ASSUME UploaderInv, [Next]_vars PROVE UploaderInv'
<1>1. CASE button1_Click BY <1>1, ClickKeeps
<1>2. CASE \E f \in Firmware : Fsel_Click(f) BY <1>2, SelectKeeps
<1>3. CASE PowerCycle BY <1>3, PowerCycleKeeps
<1>4. CASE Client
  BY <1>4, WaitKeeps, OpenKeeps, SendKeeps, ReadKeeps, CloseKeeps, UserKeeps, StartKeeps, PortKeeps,
     DataSocketKeeps, FileKeeps, EraseKeeps, StorKeeps, SendBlockKeeps, EndUploadKeeps, FinishKeeps
  DEF Client
<1>5. CASE BoxStep
  <2>1. Box /\ UNCHANGED <<formVars, todo, libVars>> BY <1>5 DEF BoxStep
  <2> QED BY <2>1, PlainKeeps, AnswerStorKeeps, StoreBlockKeeps, EndTransferKeeps, BreakKeeps,
             PowerLossKeeps, BootSystemKeeps
          DEF Box, Serve
<1>6. CASE UNCHANGED vars BY <1>6, StutterKeeps
<1> QED BY <1>1, <1>2, <1>3, <1>4, <1>5, <1>6 DEF Next

(* The invariant holds in every state. *)
THEOREM UploaderInvariant == Spec => []UploaderInv
<1>1. Init => UploaderInv BY Initially
<1>2. UploaderInv /\ [Next]_vars => UploaderInv' BY Inductive
<1> QED BY <1>1, <1>2, PTL DEF Spec

(* A command is sent only when every reply to what went before has been read, *)
(* however many faults there were and wherever an upload was left.            *)
THEOREM CommandsInSync == Spec => []InSync
<1>1. UploaderInv => InSync
  BY DEF UploaderInv, SyncInv, InSync, Quiet, QuietOps, At, Idle
<1> QED BY <1>1, UploaderInvariant, PTL

(* The code 226 is read only when the whole of the file is in the partition.  *)
LEMMA FinishAccepts == ASSUME UploaderInv, Finish, response' = 226
                       PROVE  flash[Part] = Whole(AskedFor(Part))
<1> USE DEF At
<1>0. ~Idle /\ Head(todo).op = "finish" /\ Take BY DEF Finish, Idle
<1>1. sock = "open"
  BY <1>0, Current DEF UploaderInv, Placed, PartOps, Part, Parts, SyncInv
<1> DEFINE lines == IF bucket = <<>> THEN replies ELSE bucket
<1>2. lines \in Seq(Nat) /\ Len(lines) >= 1 /\ response' = lines[1]
  BY <1>0, <1>1, TakeOne
<1>3. 1 \in DOMAIN lines /\ lines[1] = 226
  <2> HIDE DEF lines
  <2> QED BY <1>2
<1>4. (\E n \in DOMAIN replies : replies[n] = 226) \/ (\E n \in DOMAIN bucket : bucket[n] = 226)
  BY <1>3
<1> QED BY <1>4 DEF UploaderInv, FlashInv, EndInv

THEOREM AcceptedUploadIsWhole == Spec => AcceptedIsWhole
<1>1. UploaderInv /\ [Next]_vars =>
        [Finish /\ response' = 226 => flash[Part] = Whole(AskedFor(Part))]_vars
  BY FinishAccepts
<1> QED BY <1>1, UploaderInvariant, PTL DEF Spec, AcceptedIsWhole

(* The partitions change only as asked at the click. *)
LEMMA StepFlashes ==
  ASSUME UploaderInv, Next, NEW p \in Parts, flash'[p] # flash[p]
  PROVE  /\ IF p = "mtd1" THEN job.push ELSE job.clear
         /\ IsPrefix(flash'[p], Whole(AskedFor(p)))
<1>1. BoxStep
  <2>1. button1_Click \/ PowerCycle \/ (\E f \in Firmware : Fsel_Click(f)) => flash' = flash
    BY DEF button1_Click, PowerCycle, Fsel_Click, boxVars
  <2>2. waitOpen \/ Open \/ SendCommand \/ ReadResponse => flash' = flash
    BY DEF waitOpen, Open, Connected, SendCommand, ReadResponse, boxVars
  <2>3. close \/ Login \/ User \/ Pass \/ Start \/ GetDataPort \/ OpenDataSocket => flash' = flash
    BY DEF close, Login, User, Pass, Start, GetDataPort, OpenDataSocket, Disconnect, boxVars
  <2>4. OpenUploadFile \/ CheckSocetAvalabel \/ CheckStor \/ SendBlock \/ EndUpload \/ Finish
        => flash' = flash
    BY DEF OpenUploadFile, CheckSocetAvalabel, CheckStor, SendBlock, EndUpload, Finish, boxVars
  <2> QED BY <2>1, <2>2, <2>3, <2>4 DEF Next, Client
<1>2. UNCHANGED <<formVars, todo, libVars>> BY <1>1 DEF BoxStep
<1>3. AnswerStor \/ StoreBlock
  <2>1. AnswerPlain \/ AnswerSetenv \/ AnswerPasv \/ AnswerReboot \/ EndTransfer => flash' = flash
    BY DEF AnswerPlain, AnswerSetenv, AnswerPasv, AnswerReboot, EndTransfer
  <2>2. BootSystem \/ Refuse \/ BreakTransfer \/ PowerLoss => flash' = flash
    BY DEF BootSystem, Refuse, BreakTransfer, PowerLoss
  <2> QED BY <1>1, <2>1, <2>2 DEF BoxStep, Box, Serve
<1>4. p = Part /\ ~Idle
  BY <1>2, <1>3, AnswerStorKeeps, StoreBlockKeeps, CommandThere, TransferThere
  DEF AnswerStor, StoreBlock, Command
<1>5. IF p = "mtd1" THEN job.push ELSE job.clear
  BY <1>4, Current DEF UploaderInv, Wanted, Part, Parts
<1>6. CASE AnswerStor
  <2>1. flash'[p] = <<>>
    <3>1. Head(cmds).var = Part /\ flash' = [flash EXCEPT ![Head(cmds).var] = <<>>]
      BY <1>6, CommandThere DEF AnswerStor, Command
    <3>2. flash \in [Parts -> Seq(Blocks)] BY DEF UploaderInv, TypeInv
    <3> QED BY <1>4, <3>1, <3>2
  <2>2. AskedFor(p) \in Images \cup {"empty"}
    <3>1. Sending
      BY <1>4, <1>6, CommandThere DEF AnswerStor, Command, Sending, At
    <3> QED BY <1>4, <3>1 DEF UploaderInv, FlashInv, FileInv
  <2>3. Whole(AskedFor(p)) \in Seq(Blocks)
    <3>1. AskedFor(p) \in Files /\ Size[AskedFor(p)] \in Nat BY <2>2, BoxAssumption DEF Files
    <3> QED BY <3>1 DEF Whole, Blocks
  <2>4. \A s \in Seq(Blocks) : IsPrefix(<<>>, s)
    <3> TAKE s \in Seq(Blocks)
    <3>1. Len(<<>>) = 0 /\ Len(s) \in Nat /\ SubSeq(s, 1, 0) = <<>> /\ SubSeq(<<>>, 1, 0) = <<>> OBVIOUS
    <3> QED BY <3>1 DEF IsPrefix
  <2> QED BY <1>5, <2>1, <2>3, <2>4
<1>7. CASE StoreBlock
  <2> DEFINE f == AskedFor(p)
             s == flash'[p]
             w == Whole(f)
  <2>1. /\ UploaderInv' /\ Holds(Part, AskedFor(Part), Len(flash[Part]) + Len(data))'
        /\ AskedFor(Part)' = AskedFor(Part)
        /\ Len(flash'[Part]) + Len(data') <= Size[AskedFor(Part)]
    BY <1>2, <1>7, StoreBlockKeeps
  <2>2. todo' = todo /\ Part' = p BY <1>2, <1>4 DEF Part
  <2>3. s \in Seq(Blocks) /\ Len(data') \in Nat /\ \A i \in 1..Len(s) : s[i] = <<f, i>>
    <3>1. s \in Seq(Blocks) /\ data' \in Seq(Blocks) BY <2>1 DEF UploaderInv, TypeInv
    <3>2. \A i \in 1..Len(s) : s[i] = <<f, i>> BY <1>4, <2>1, <2>2 DEF Holds
    <3> QED BY <3>1, <3>2
  <2>4. f \in Images \cup {"empty"} BY <1>4, <1>7, TransferThere DEF StoreBlock
  <2>5. f \in Files /\ Size[f] \in Nat BY <2>4, BoxAssumption DEF Files
  <2>6. Len(s) \in Nat /\ Len(s) <= Size[f] BY <1>4, <2>1, <2>3, <2>5
  <2> HIDE DEF s, f
  <2>7. w \in Seq(Blocks) /\ Len(w) = Size[f] /\ \A i \in 1..Size[f] : w[i] = <<f, i>>
    BY <2>5 DEF Whole, Blocks
  <2> HIDE DEF w
  <2>8. /\ SubSeq(w, 1, Len(s)) \in Seq(Blocks) /\ Len(SubSeq(w, 1, Len(s))) = Len(s)
        /\ \A i \in 1..Len(s) : SubSeq(w, 1, Len(s))[i] = w[i]
    BY <2>6, <2>7
  <2>13. \A i \in 1..Len(s) : i \in 1..Size[f] BY <2>5, <2>6
  <2>9. \A i \in 1..Len(s) : SubSeq(w, 1, Len(s))[i] = s[i] BY <2>3, <2>7, <2>8, <2>13
  <2>10. SubSeq(w, 1, Len(s)) = s BY <2>3, <2>8, <2>9
  <2>11. SubSeq(s, 1, Len(s)) = s BY <2>3
  <2>12. IsPrefix(s, w) BY <2>6, <2>7, <2>10, <2>11 DEF IsPrefix
  <2> QED BY <1>5, <2>12 DEF s, w, f
<1> QED BY <1>3, <1>6, <1>7

THEOREM OnlyAskedIsFlashed == Spec => FlashedAsAsked
<1>1. UploaderInv /\ [Next]_vars =>
        [\A p \in Parts : flash'[p] # flash[p] =>
           /\ IF p = "mtd1" THEN job.push ELSE job.clear
           /\ IsPrefix(flash'[p], Whole(AskedFor(p)))]_vars
  BY StepFlashes
<1> QED BY <1>1, UploaderInvariant, PTL DEF Spec, FlashedAsAsked

-----------------------------------------------------------------------------
(* The handler waits only for what is owed.  While the connection is up, a    *)
(* command or its reply is there where a reply is waited for; a transfer that *)
(* was answered with 150 is going on or has its second reply under way; and   *)
(* an Open that finds the connection is followed by the second greeting.      *)
AliveInv ==
  conn => /\ At("read") \/ At("erase") => replies # <<>> \/ cmds # <<>>
          /\ (At("erase") \/ StorReply) /\ Started => transfer # "none" \/ Len(replies) = 2
          /\ (At("stor") /\ Accepted) \/ At("block") \/ At("finish") =>
               transfer # "none" \/ replies # <<>> \/ bucket # <<>>
          /\ At("connect") => todo[2].op = "greeting"

(* Operations that neither wait nor are part of a transfer. *)
LEMMA NothingAwaited ==
  ASSUME Idle' \/ Head(todo').op \in QuietOps \ {"connect"}
  PROVE  AliveInv'
BY DEF AliveInv, At, StorReply, Idle, QuietOps, OtherOps

LEMMA NotConnected == ASSUME ~conn' PROVE AliveInv'
BY DEF AliveInv

LEMMA ThrowAlive ==
  ASSUME UploaderInv, ~Idle, Part # "none", Throw, UNCHANGED formVars
  PROVE  AliveInv'
<1>1. Head(todo').op \in {"start", "send"}
  BY ThrowOn DEF UploaderInv, formVars
<1> QED BY <1>1, NothingAwaited DEF QuietOps, OtherOps

(* The operations that go on to one of their kind. *)
LEMMA GoAlive ==
  ASSUME UploaderInv, ~Idle, Go, UNCHANGED formVars,
         Head(todo).op \in {"greeting", "login", "user", "pass", "start", "port", "opendata",
                           "openfile"}
  PROVE  AliveInv'
<1>1. Idle' \/ After(Head(todo), Head(todo')) BY GoOn DEF UploaderInv, formVars
<1>2. Idle' \/ Head(todo').op \in QuietOps \ {"connect"} BY <1>1 DEF After
<1> QED BY <1>2, NothingAwaited

LEMMA LoginAlive ==
  ASSUME UploaderInv, close \/ Login \/ Pass PROVE AliveInv'
<1>1. ~Idle /\ Go /\ UNCHANGED formVars BY DEF close, Login, Pass, At, Idle
<1>2. CASE close
  <2>1. conn' = FALSE
    BY <1>2 DEF close, Disconnect, UploaderInv, SyncInv, TypeInv
  <2> QED BY <2>1, NotConnected
<1>3. CASE Login \/ Pass
  <2>1. Head(todo).op \in {"login", "pass"} BY <1>3 DEF Login, Pass, At
  <2> QED BY <1>1, <2>1, GoAlive
<1> QED BY <1>2, <1>3

LEMMA UserAlive == ASSUME UploaderInv, User PROVE AliveInv'
<1> DEFINE r == Tail(todo)
           q == quote("PASS", "", "")
           o == <<Op("pass", "none")>>
<1>1. ~Idle /\ Head(todo).op = "user" /\ todo' = (IF response = 331 THEN q \o o ELSE <<>>) \o r
  BY DEF User, At, Idle
<1>2. /\ Len(todo) >= 2 /\ After(todo[1], todo[2]) /\ todo \in Seq(Operations) /\ Head(todo) = todo[1]
  BY <1>1, Current DEF UploaderInv
<1>3. r # <<>> /\ Head(r) = todo[2] /\ r \in Seq(Operations)
  <2>1. r \in Seq(Operations) /\ Len(r) >= 1 /\ r[1] = todo[2] BY <1>2
  <2> HIDE DEF r
  <2> QED BY <2>1
<1>4. todo[2].op \in QuietOps \ {"connect"} BY <1>1, <1>2 DEF After
<1>5. CASE response = 331
  <2>1. \A u, v \in Seq(Operations) :
          u # <<>> => u \o v # <<>> /\ u \o v \in Seq(Operations) /\ Head(u \o v) = u[1]
    OBVIOUS
  <2>2. q \in Seq(Operations) /\ q # <<>> /\ q[1].op = "send"
    BY Quoted DEF Message, Messages, Piece, Script
  <2>3. o \in Seq(Operations) BY One DEF Piece, Script
  <2>4. todo' = (q \o o) \o r BY <1>1, <1>5
  <2> HIDE DEF q, o, r
  <2>5. q \o o # <<>> /\ q \o o \in Seq(Operations) /\ (q \o o)[1] = q[1] BY <2>1, <2>2, <2>3
  <2>6. Head(todo') = q[1] BY <1>3, <2>1, <2>4, <2>5
  <2> QED BY <2>2, <2>6, NothingAwaited DEF QuietOps
<1>6. CASE response # 331
  <2>1. todo' = r BY <1>1, <1>3, <1>6
  <2> QED BY <1>3, <1>4, <2>1, NothingAwaited
<1> QED BY <1>5, <1>6

(* The connection: greeted, or found by the second Open. *)
LEMMA ConnectAlive ==
  ASSUME UploaderInv, ~Idle, Head(todo).op \in {"popup", "connect"}, sock = "null", Connected
  PROVE  AliveInv'
<1>1. Go /\ job' = job /\ replies' # <<>> BY DEF Connected, formVars
<1>2. Head(todo').op \in {"read", "greeting"} /\ ~StorReply'
  BY <1>1, GoOn DEF UploaderInv, After, StorReply, At, Idle
<1> QED BY <1>1, <1>2 DEF AliveInv, At

LEMMA WaitAlive == ASSUME UploaderInv, waitOpen PROVE AliveInv'
<1>0. ~Idle /\ Head(todo).op = "popup" /\ sock = "null" BY DEF waitOpen, At, Idle
<1>1. CASE Connected BY <1>0, <1>1, ConnectAlive
<1>2. CASE ~Connected
  <2>1. UNCHANGED boxVars /\ ~conn
    BY <1>0, <1>2 DEF waitOpen, UploaderInv, SyncInv
  <2> QED BY <2>1, NotConnected DEF boxVars
<1> QED BY <1>1, <1>2

LEMMA OpenAlive == ASSUME UploaderInv, AliveInv, Open PROVE AliveInv'
<1>0. ~Idle /\ Head(todo).op = "connect" /\ At("connect") BY DEF Open, At, Idle
<1>1. CASE sock = "null" /\ Connected BY <1>0, <1>1, ConnectAlive
<1>2. CASE sock = "open" /\ Go /\ UNCHANGED <<boxVars, formVars, libVars>>
  <2>1. conn' = conn /\ job' = job BY <1>2 DEF boxVars, formVars
  <2>2. conn => todo[2].op = "greeting" BY <1>0 DEF AliveInv
  <2>3. ~Idle' /\ Head(todo') = todo[2] BY <1>0, <1>2, <2>1, GoOn DEF UploaderInv
  <2> QED BY <2>1, <2>2, <2>3 DEF AliveInv, At, StorReply
<1> QED BY <1>1, <1>2 DEF Open

(* A command sent on the connection is one to be answered. *)
LEMMA SendAlive == ASSUME UploaderInv, SendCommand PROVE AliveInv'
<1>1. /\ ~Idle /\ Head(todo).op = "send" /\ Go /\ job' = job /\ conn' = conn /\ replies' = replies
      /\ cmds' = IF sock = "open" /\ conn THEN Append(cmds, Head(todo).cmd) ELSE cmds
  BY DEF SendCommand, At, Idle, formVars
<1>2. Quiet /\ (conn => sock = "open") BY <1>1 DEF UploaderInv, SyncInv, QuietOps
<1>3. conn => cmds' # <<>>
  <2>1. cmds = <<>> BY <1>2 DEF Quiet
  <2> QED BY <1>1, <1>2, <2>1
<1>4. ~Started' BY <1>1, <1>2 DEF Quiet, Started
<1>5. ~Idle' /\ Head(todo').op \in {"read", "erase"}
  BY <1>1, GoOn DEF UploaderInv, After
<1> QED BY <1>1, <1>3, <1>4, <1>5 DEF AliveInv, At

(* The greeting that is read after the first Open is followed by the second.  *)
LEMMA Reconnected ==
  ASSUME ScriptInv, ~Idle, Go, Head(todo).op = "read", Head(todo').op = "connect", ~Idle'
  PROVE  todo'[2].op = "greeting"
<1>1. /\ todo \in Seq(Operations) /\ todo # <<>> /\ Script(todo, job) /\ Head(todo) = todo[1]
      /\ todo[Len(todo)].op = "close"
  BY DEF ScriptInv, Script, Closed, Idle
<1>2. /\ todo' \in Seq(Operations) /\ Len(todo') = Len(todo) - 1 /\ Len(todo) \in Nat
      /\ \A k \in 1..(Len(todo) - 1) : todo'[k] = todo[k + 1]
  BY <1>1, TailOfScript DEF Go, Script
<1>3. Len(todo') >= 1 /\ Head(todo') = todo'[1] BY <1>2 DEF Idle
<1>4. todo[2].op = "connect" BY <1>2, <1>3
<1>5. Len(todo) # 2 BY <1>1, <1>4
<1>6. 1 \in 1..(Len(todo) - 2) /\ 2 \in 1..(Len(todo) - 1) BY <1>2, <1>3, <1>5
<1>7. Between(todo[1], todo[2], todo[3]) BY <1>1, <1>6 DEF Script
<1>8. todo'[2] = todo[3] BY <1>2, <1>6
<1> QED BY <1>1, <1>4, <1>7, <1>8 DEF Between

LEMMA ReadAlive == ASSUME UploaderInv, AliveInv, ReadResponse PROVE AliveInv'
<1> USE DEF At
<1>0. /\ ~Idle /\ Head(todo).op \in {"read", "greeting"} /\ Take /\ Go /\ job' = job
      /\ conn' = conn /\ transfer' = transfer /\ UNCHANGED formVars
  BY DEF ReadResponse, Idle, formVars
<1>1. SUFFICES ASSUME conn PROVE AliveInv' BY <1>0, NotConnected
<1>2. sock = "open" BY <1>1 DEF UploaderInv, SyncInv
<1>3. CASE Head(todo).op = "greeting" BY <1>0, <1>3, GoAlive
<1>4. CASE Head(todo).op = "read" /\ ~StorReply
  <2>1. ~Idle' /\ Head(todo') = todo[2] /\ After(Head(todo), Head(todo'))
    BY <1>0, <1>4, GoOn DEF UploaderInv
  <2>2. Head(todo').op \in QuietOps BY <1>0, <1>4, <2>1 DEF After, StorReply, Idle
  <2>3. CASE Head(todo').op = "connect"
    <3>1. todo'[2].op = "greeting" BY <1>0, <1>4, <2>1, <2>3, Reconnected DEF UploaderInv
    <3> QED BY <2>3, <3>1 DEF AliveInv, StorReply
  <2>4. CASE Head(todo').op # "connect" BY <2>2, <2>4, NothingAwaited
  <2> QED BY <2>3, <2>4
<1>5. CASE StorReply
  <2>1. ~Idle' /\ Head(todo').op = "stor" BY <1>0, <1>5, GoOn DEF UploaderInv, StorReply
  <2>2. StorAnswer BY <1>0, <1>5 DEF UploaderInv, SyncInv
  <2>3. bucket = <<>> BY <2>2 DEF StorAnswer
  <2>4. /\ replies # <<>> /\ response' = replies[1] /\ Len(bucket') = Len(replies) - 1
        /\ bucket' \in Seq(Nat)
    BY <1>0, <1>2, <2>3, TakeOne
  <2>5. Accepted' => Started BY <2>2, <2>4 DEF StorAnswer, Started, Accepted
  <2>6. Started => transfer # "none" \/ Len(replies) = 2 BY <1>1, <1>5 DEF AliveInv
  <2>7. Len(replies) = 2 => bucket' # <<>>
    <3>1. Len(replies) = 2 => Len(bucket') = 1 BY <2>4
    <3> QED BY <3>1
  <2>8. Accepted' => transfer' # "none" \/ bucket' # <<>> BY <1>0, <2>5, <2>6, <2>7
  <2> QED BY <2>1, <2>8 DEF AliveInv, StorReply
<1> QED BY <1>0, <1>3, <1>4, <1>5

LEMMA EraseAlive == ASSUME UploaderInv, AliveInv, CheckSocetAvalabel PROVE AliveInv'
<1>1. /\ ~Idle /\ At("erase") /\ Go /\ job' = job /\ conn' = conn /\ replies' = replies
      /\ transfer' = transfer /\ (sock = "null" \/ replies # <<>>)
  BY DEF CheckSocetAvalabel, At, Idle, boxVars, formVars
<1>2. ~Idle' /\ Head(todo').op = "read"
  BY <1>1, GoOn DEF UploaderInv, After, At
<1>3. conn => replies # <<>> BY <1>1 DEF UploaderInv, SyncInv
<1>4. Started' = Started BY <1>1 DEF Started
<1> QED BY <1>1, <1>2, <1>3, <1>4 DEF AliveInv, At

(* The steps of an upload. *)
LEMMA UploadAlive ==
  ASSUME UploaderInv, Start \/ GetDataPort \/ OpenDataSocket \/ OpenUploadFile PROVE AliveInv'
<1>1. /\ ~Idle /\ Head(todo).op \in {"start", "port", "opendata", "openfile"}
      /\ Go \/ Throw
  BY DEF Start, GetDataPort, OpenDataSocket, OpenUploadFile, At, Idle
<1>2. UNCHANGED formVars BY DEF Start, GetDataPort, OpenDataSocket, OpenUploadFile
<1>3. Part # "none" BY <1>1, Current DEF UploaderInv, Placed, PartOps, Part, Parts
<1> QED BY <1>1, <1>2, <1>3, GoAlive, ThrowAlive

LEMMA StorAlive == ASSUME UploaderInv, AliveInv, CheckStor PROVE AliveInv'
<1>1. /\ ~Idle /\ At("stor") /\ UNCHANGED <<boxVars, formVars, bucket>>
      /\ IF Accepted THEN Go ELSE Throw
  BY DEF CheckStor, Accepted, At, Idle
<1>2. Part # "none" BY <1>1, Current DEF UploaderInv, Placed, PartOps, Part, Parts, At
<1>3. CASE ~Accepted BY <1>1, <1>2, <1>3, ThrowAlive
<1>4. CASE Accepted
  <2>1. ~Idle' /\ Head(todo').op = "block"
    BY <1>1, <1>4, GoOn DEF UploaderInv, After, At, formVars
  <2>2. conn => transfer # "none" \/ replies # <<>> \/ bucket # <<>> BY <1>1, <1>4 DEF AliveInv
  <2> QED BY <1>1, <2>1, <2>2 DEF AliveInv, At, StorReply, boxVars
<1> QED BY <1>3, <1>4

LEMMA BlockAlive ==
  ASSUME UploaderInv, AliveInv, SendBlock \/ EndUpload PROVE AliveInv'
<1>1. /\ ~Idle /\ At("block") /\ conn' = conn /\ transfer' = transfer /\ replies' = replies
      /\ bucket' = bucket /\ job' = job
  BY DEF SendBlock, EndUpload, At, Idle, formVars
<1>2. conn => transfer # "none" \/ replies # <<>> \/ bucket # <<>> BY <1>1 DEF AliveInv
<1>3. ~Idle' /\ Head(todo').op \in {"block", "finish"}
  <2>1. CASE SendBlock BY <1>1, <2>1 DEF SendBlock, At, Idle
  <2>2. CASE EndUpload
    <3>1. \A s \in Seq(Operations) : \A a : <<a>> \o s # <<>> /\ Head(<<a>> \o s) = a
      <4> TAKE s \in Seq(Operations)
      <4> TAKE a
      <4>1. <<a>> \in Seq({a} \cup Operations) /\ s \in Seq({a} \cup Operations) OBVIOUS
      <4>2. Len(<<a>>) = 1 /\ <<a>>[1] = a OBVIOUS
      <4> DEFINE x == <<a>>
      <4> HIDE DEF x
      <4> QED BY <4>1, <4>2 DEF x
    <3>2. Tail(todo) \in Seq(Operations) /\ todo' = <<Op("finish", Part)>> \o Tail(todo)
      BY <1>1, <2>2, Current DEF UploaderInv, EndUpload, Idle
    <3>3. todo' # <<>> /\ Head(todo') = Op("finish", Part) BY <3>1, <3>2
    <3>4. Op("finish", Part).op = "finish" BY DEF Op, Message
    <3> QED BY <3>3, <3>4 DEF Idle
  <2> QED BY <2>1, <2>2
<1> QED BY <1>1, <1>2, <1>3 DEF AliveInv, At, StorReply

LEMMA FinishAlive == ASSUME UploaderInv, Finish PROVE AliveInv'
<1>1. ~Idle /\ At("finish") /\ Throw /\ UNCHANGED formVars BY DEF Finish, At, Idle
<1>2. Part # "none" BY <1>1, Current DEF UploaderInv, Placed, PartOps, Part, Parts, At
<1> QED BY <1>1, <1>2, ThrowAlive

(* What leaves the connection and all that is owed alone. *)
LEMMA SameAlive ==
  ASSUME AliveInv, UNCHANGED <<conn, todo, replies, cmds, transfer, bucket, response>>
  PROVE  AliveInv'
BY DEF AliveInv, At, StorReply, Started, Accepted

(* The loader's answers. *)
LEMMA ReplyAlive ==
  ASSUME UploaderInv, AliveInv, cmds # <<>>, todo' = todo, NEW c \in Nat,
         replies' = Append(replies, c), c # 150 \/ transfer' # "none", conn' = conn
  PROVE  AliveInv'
<1>1. replies = <<>> BY CommandThere
<1>2. replies' = <<c>> BY <1>1
<1>3. replies' # <<>> /\ replies'[1] = c BY <1>2
<1>4. \A o : At(o)' = At(o) BY DEF At
<1> QED BY <1>3, <1>4 DEF AliveInv, Started

LEMMA BoxAlive ==
  ASSUME UploaderInv, AliveInv, UNCHANGED <<formVars, todo, libVars>>, Box
  PROVE  AliveInv'
<1>0. todo' = todo /\ bucket' = bucket /\ response' = response BY DEF libVars
<1>1. CASE AnswerPlain \/ AnswerSetenv \/ AnswerPasv \/ Refuse
  <2>1. PICK c \in {331, 230, 200, 227, 550} : Reply(c) /\ cmds # <<>> /\ conn' = conn
    BY <1>1 DEF AnswerPlain, AnswerSetenv, AnswerPasv, Refuse, Command
  <2>2. c \in Nat /\ c # 150 /\ replies' = Append(replies, c) BY <2>1 DEF Reply
  <2> QED BY <1>0, <2>1, <2>2, ReplyAlive
<1>2. CASE AnswerStor
  <2>1. cmds # <<>> /\ conn' = conn /\ replies' = Append(replies, 150) /\ transfer' = Head(cmds).var
    BY <1>2 DEF AnswerStor, Command, Reply
  <2>2. transfer' \in Parts
    BY <1>2, <2>1, AnswerStorKeeps, CommandThere DEF AnswerStor, Command
  <2>3. transfer' # "none" BY <2>2 DEF Parts
  <2>4. PICK c \in Nat : c = 150 OBVIOUS
  <2> QED BY <1>0, <2>1, <2>3, <2>4, ReplyAlive
<1>3. CASE AnswerReboot \/ PowerLoss
  BY <1>3, NotConnected DEF AnswerReboot, PowerLoss, Boot
<1>4. CASE StoreBlock \/ BootSystem
  BY <1>0, <1>4, SameAlive DEF StoreBlock, BootSystem
<1>5. CASE EndTransfer \/ BreakTransfer
  <2>1. /\ transfer # "none" /\ conn' = conn
        /\ \E c \in {226, 426} : replies' = Append(replies, c)
        /\ EndTransfer => link = "closed"
    BY <1>5 DEF EndTransfer, BreakTransfer
  <2>2. /\ \/ (At("erase") \/ StorReply) /\ Len(replies) = 1
           \/ replies = <<>> /\ (At("finish") \/ At("block") \/ At("stor"))
    BY <2>1, TransferThere
  <2>3. replies' # <<>> /\ Len(replies') = Len(replies) + 1
    <3>1. replies \in Seq(Nat) BY DEF UploaderInv, TypeInv
    <3>2. PICK c \in Nat : replies' = Append(replies, c) BY <2>1
    <3> QED BY <3>1, <3>2
  <2>4. ASSUME At("erase") \/ StorReply PROVE Len(replies') = 2
    <3>1. Len(replies) = 1 BY <2>2, <2>4 DEF At, StorReply
    <3> QED BY <2>3, <3>1
  <2>5. (\A o : At(o)' = At(o)) /\ StorReply' = StorReply BY <1>0 DEF At, StorReply
  <2>6. ~At("connect") BY <2>2 DEF At, StorReply
  <2> QED BY <2>3, <2>4, <2>5, <2>6 DEF AliveInv
<1> QED BY <1>1, <1>2, <1>3, <1>4, <1>5 DEF Box, Serve

LEMMA StaysAlive == ASSUME UploaderInv, AliveInv, [Next]_vars PROVE AliveInv'
<1>1. CASE button1_Click
  <2>1. job'.brand \in Brands /\ job'.push \in BOOLEAN /\ job'.clear \in BOOLEAN
    BY <1>1 DEF button1_Click, UploaderInv, TypeInv
  <2>2. \E ip \in Addresses :
          todo' = DoItOps(job', ip) \o (IF job'.clear THEN DoItAgainOps(job') ELSE <<>>)
    BY <1>1 DEF button1_Click
  <2>3. Script(todo', job') /\ todo' # <<>> /\ todo'[1].op = "popup" BY <2>1, <2>2, SessionPiece
  <2>4. Head(todo').op = "popup" BY <2>3 DEF Script
  <2> QED BY <2>4, NothingAwaited DEF QuietOps
<1>2. CASE \E f \in Firmware : Fsel_Click(f)
  BY <1>2, SameAlive DEF Fsel_Click, boxVars, libVars
<1>3. CASE PowerCycle BY <1>3, NotConnected DEF PowerCycle, Boot
<1>4. CASE Client
  BY <1>4, WaitAlive, OpenAlive, SendAlive, ReadAlive, LoginAlive, UserAlive, UploadAlive,
     EraseAlive, StorAlive, BlockAlive, FinishAlive
  DEF Client
<1>5. CASE BoxStep BY <1>5, BoxAlive DEF BoxStep
<1>6. CASE UNCHANGED vars BY <1>6, SameAlive DEF vars, boxVars, libVars
<1> QED BY <1>1, <1>2, <1>3, <1>4, <1>5, <1>6 DEF Next

(* The handler, which waits for replies without a limit of time, waits while  *)
(* the connection is up only for one that is there or will come: whatever was *)
(* refused, broken off or left in the middle before.                          *)
THEOREM WaitsForWhatComes == Spec => []ReadIsOwed
<1>1. Init => AliveInv BY DEF Init, BoxInit, AliveInv
<1>2. UploaderInv /\ AliveInv /\ [Next]_vars => AliveInv' BY StaysAlive
<1>3. UploaderInv /\ AliveInv => ReadIsOwed
  <2> SUFFICES ASSUME UploaderInv, AliveInv, At("read") \/ At("erase") \/ At("finish"), conn
               PROVE  \/ bucket # <<>> \/ replies # <<>> \/ cmds # <<>>
                      \/ transfer # "none" /\ link = "closed"
    BY DEF ReadIsOwed
  <2>1. At("finish") /\ transfer # "none" => link = "closed"
    BY DEF UploaderInv, FlashInv, TransferInv
  <2> QED BY <2>1 DEF AliveInv
<1>4. Spec => []AliveInv BY <1>1, <1>2, UploaderInvariant, PTL DEF Spec
<1> QED BY <1>3, <1>4, UploaderInvariant, PTL

=============================================================================
