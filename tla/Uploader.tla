------------------------------ MODULE Uploader ------------------------------
(* The firmware uploader (upload.cs) and its FTP library (ftplib-st.cs): one  *)
(* thread that runs the handler of the Start button from end to end.  What it *)
(* has still to do is `todo`; a step does its head.  Only where the handler   *)
(* calls DoEvents can the form's other handler, Fsel_Click, run in between.   *)
EXTENDS Adam2, SequencesExt

CONSTANTS Firmware,     \* what the file dialog offers
          Clicks        \* bound on the presses of Start

(* tar: an archive with a kernel.image; else the file is an image itself.     *)
ASSUME FirmwareAssumption ==
  /\ \A f \in Firmware : f.image \in Images /\ f.tar \in BOOLEAN /\ f.brand \in Brands
  /\ Clicks \in Nat

VARIABLES shown,     \* textBox1: "kernel" for .\var\tmp\kernel.image, or an image
          kernel,    \* what .\var\tmp\kernel.image holds, or "none"
          brand,     \* OEMBox
          job,       \* what the handler captured at the click
          todo,
          sock,      \* main_sock: "null" or "open"
          response, bucket,
          dsock,     \* data_sock: "null" or "open"
          file,      \* the open file: its path, and the blocks read
          clicks

formVars == <<shown, kernel, brand, job, clicks>>
libVars == <<sock, response, bucket, dsock, file>>
vars == <<boxVars, formVars, todo, libVars>>

-----------------------------------------------------------------------------
(* The handler as a sequence of operations; `of` is the upload it is part of. *)
Message(c, v, t) == [cmd |-> c, var |-> v, to |-> t]
Op(o, p) == [op |-> o, of |-> p, cmd |-> Message("", "", "")]
To(o, a) == [op |-> o, of |-> "none", cmd |-> Message("", "", a)]
Send(c, v, t, p) == [op |-> "send", of |-> p, cmd |-> Message(c, v, t)]
Read(p) == Op("read", p)
quote(c, v, t) == <<Send(c, v, t, "none"), Read("none")>>

LoginOps == <<Op("login", "none")>> \o quote("USER", "", "") \o <<Op("user", "none")>>
SetenvOps(j) == quote("SETENV", "my_ipaddress", "192.168.178.1")
                \o quote("SETENV", "firmware_version", j.brand)
uploadOps(p) ==
  <<Op("start", p), Send("PASV", "", "", p), Read(p), Op("port", p), Op("opendata", p),
    Op("openfile", p), Send("STOR", p, "", p), Op("erase", p), Read(p),
    Op("stor", p), Op("block", p)>>
DoItOps(j, ip) ==
  <<To("popup", ip), Read("none")>> \o LoginOps \o quote("GETENV", "", "")
  \o SetenvOps(j)
  \o (IF j.push THEN uploadOps("mtd1") ELSE <<>>)
  \o (IF j.clear THEN uploadOps("mtd3") \o uploadOps("mtd4")
                      \o quote("SETENV", "autoload", "no") ELSE <<>>)
  \o quote("REBOOT", "", "") \o <<Op("close", "none")>>
DoItAgainOps(j) ==
  <<To("connect", "192.168.2.1"), Read("none"), To("connect", "192.168.2.1"),
    Op("greeting", "none")>> \o LoginOps \o SetenvOps(j)
  \o quote("SETENV", "autoload", "yes") \o quote("REBOOT", "", "") \o <<Op("close", "none")>>

At(o) == todo # <<>> /\ Head(todo).op = o
Part == Head(todo).of
Go == todo' = Tail(todo)
(* An exception inside upload ends in its catch: the rest of it is not done.  *)
Throw == \E n \in DOMAIN todo : /\ todo[n].of # Part /\ \A m \in 1..(n - 1) : todo[m].of = Part
                                /\ todo' = SubSeq(todo, n, Len(todo))

-----------------------------------------------------------------------------
(* The form. *)
NoFile == [path |-> "none", got |-> 0]
ImageAt(path) == IF path = "kernel" THEN kernel ELSE path
Idle == todo = <<>>

Init ==
  /\ BoxInit
  /\ shown = "kernel" /\ kernel \in Images \cup {"none"} /\ brand \in Brands
  /\ job = [image |-> "none", brand |-> brand, push |-> FALSE, clear |-> FALSE]
  /\ todo = <<>> /\ clicks = 0
  /\ sock = "null" /\ response = 0 /\ bucket = <<>> /\ dsock = "null" /\ file = NoFile

(* The texts and check boxes are read once.  Start is disabled until the end: *)
(* DoIt enables it before DoItAgain, but no event is handled in between.      *)
button1_Click ==
  /\ Idle /\ clicks < Clicks
  /\ \E push, clear \in BOOLEAN, ip \in Addresses :
       /\ job' = [image |-> ImageAt(shown), brand |-> brand, push |-> push, clear |-> clear]
       /\ todo' = DoItOps(job', ip) \o (IF clear THEN DoItAgainOps(job') ELSE <<>>)
  /\ clicks' = clicks + 1
  /\ UNCHANGED <<boxVars, shown, kernel, brand, libVars>>

(* DoEvents runs while the erase is waited for and after every block sent.    *)
DoEvents == \/ At("erase") /\ sock = "open" /\ replies = <<>>
            \/ At("block") /\ file.got > 0
(* A file that is open cannot be deleted or overwritten; the handler ignores  *)
(* both errors, and shows whatever kernel.image is there in the end.          *)
Fsel_Click_shared(f) ==
  LET locked == file.path = "kernel" IN
  /\ Idle \/ DoEvents
  /\ kernel' = IF f.tar THEN f.image ELSE IF locked THEN kernel ELSE "none"
  /\ shown' = IF kernel' # "none" THEN "kernel" ELSE f.image
  /\ brand' \in (IF f.tar THEN {f.brand} ELSE {brand})
  /\ UNCHANGED <<boxVars, job, clicks, todo, libVars>>
Fsel_Click(f) ==
  LET locked == file.path = "kernel" IN
  /\ Idle \/ DoEvents
  /\ kernel' = IF locked THEN kernel ELSE IF f.tar THEN f.image ELSE "none"
  /\ shown' = IF kernel' # "none" THEN "kernel" ELSE f.image
  /\ brand' \in (IF locked THEN {brand, f.brand} ELSE IF f.tar THEN {f.brand} ELSE {brand})
  /\ UNCHANGED <<boxVars, job, clicks, todo, libVars>>

-----------------------------------------------------------------------------
(* The library's control connection, which the loader greets with 220, or,    *)
(* as a fault, with a refusal.                                                *)
Accepts(ip) == mode = "loader" /\ ~conn /\ address = ip
Connected ==
  /\ sock' = "open" /\ conn' = TRUE /\ Go
  /\ \/ replies' = <<220>> /\ UNCHANGED faults
     \/ replies' = <<550>> /\ Fault
  /\ UNCHANGED <<mode, address, env, flash, cmds, link, data, transfer,
                 formVars, response, bucket, dsock, file>>
(* waitOpen shows a message, the user cycles the power and presses OK; a      *)
(* failed connection makes it try the other address.  Open tries the same     *)
(* address until it succeeds, so its failures change nothing.                 *)
waitOpen_same ==
  /\ At("popup") /\ sock = "null"
  /\ Accepts(Head(todo).cmd.to) /\ Connected
waitOpen ==
  /\ At("popup") /\ sock = "null"
  /\ LET ip == Head(todo).cmd.to IN
     \/ Accepts(ip) /\ Connected
     \/ /\ ~Accepts(ip)
        /\ todo' = <<To("popup", CHOOSE a \in Addresses : a # ip)>> \o Tail(todo)
        /\ UNCHANGED <<boxVars, formVars, libVars>>
PowerCycle ==
  /\ At("popup") /\ mode = "system"
  /\ Boot /\ UNCHANGED <<env, flash, replies, faults, formVars, todo, libVars>>
Open ==
  /\ At("connect")
  /\ \/ sock = "null" /\ Accepts(Head(todo).cmd.to) /\ Connected
     \/ sock = "open" /\ Go /\ UNCHANGED <<boxVars, formVars, libVars>>

SendCommand ==
  /\ At("send") /\ Go
  /\ cmds' = IF sock = "open" /\ conn THEN Append(cmds, Head(todo).cmd) ELSE cmds
  /\ UNCHANGED <<mode, address, env, flash, conn, replies, link, data, transfer, faults,
                 formVars, libVars>>

(* ReadResponse without a socket returns at once and keeps `response`; with   *)
(* one it waits for ever until a line is there.  Lines after the first stay   *)
(* in the bucket, across connections.                                         *)
Take ==
  IF sock = "null" THEN UNCHANGED <<response, bucket, replies>>
  ELSE LET lines == IF bucket = <<>> THEN replies ELSE bucket IN
       /\ lines # <<>>
       /\ response' = Head(lines) /\ bucket' = Tail(lines)
       /\ replies' = IF bucket = <<>> THEN <<>> ELSE replies
ReadResponse ==
  /\ At("read") \/ At("greeting")
  /\ Take /\ Go
  /\ UNCHANGED <<mode, address, env, flash, conn, cmds, link, data, transfer, faults,
                 formVars, sock, dsock, file>>

(* Disconnect and Fail, which does not throw.  QUIT needs no answer.          *)
CloseDataSocket ==
  /\ dsock' = "null"
  /\ link' = IF dsock = "open" /\ link = "open" THEN "closed" ELSE link
Disconnect ==
  /\ CloseDataSocket
  /\ IF sock = "open" THEN sock' = "null" /\ conn' = FALSE /\ replies' = <<>> /\ cmds' = <<>>
     ELSE UNCHANGED <<sock, conn, replies, cmds>>
  /\ file' = NoFile
  /\ UNCHANGED <<mode, address, env, flash, data, transfer, faults>>
close ==
  /\ At("close") /\ Disconnect /\ Go
  /\ UNCHANGED <<formVars, response, bucket>>

Login ==
  /\ At("login") /\ Go
  /\ IF response = 220 THEN UNCHANGED <<boxVars, sock, dsock, file>> ELSE Disconnect
  /\ UNCHANGED <<formVars, response, bucket>>
User ==
  /\ At("user")
  /\ todo' = (IF response = 331 THEN quote("PASS", "", "") \o <<Op("pass", "none")>> ELSE <<>>)
             \o Tail(todo)
  /\ UNCHANGED <<boxVars, formVars, libVars>>
Pass ==
  /\ At("pass") /\ Go
  /\ IF response = 230 THEN UNCHANGED <<boxVars, sock, dsock, file>> ELSE Disconnect
  /\ UNCHANGED <<formVars, response, bucket>>

-----------------------------------------------------------------------------
(* upload *)
Start ==
  /\ At("start")
  /\ IF sock = "null" THEN Throw ELSE Go
  /\ UNCHANGED <<boxVars, formVars, libVars>>
GetDataPort ==
  /\ At("port")
  /\ IF response = 227 THEN Go /\ UNCHANGED <<boxVars, sock, dsock, file>>
     ELSE Throw /\ Disconnect
  /\ UNCHANGED <<formVars, response, bucket>>
OpenDataSocket ==
  LET listening == IF dsock = "open" /\ link = "open" THEN "closed" ELSE link IN
  /\ At("opendata")
  /\ IF listening = "listening" THEN dsock' = "open" /\ link' = "open" /\ Go
     ELSE dsock' = "null" /\ link' = listening /\ Throw
  /\ UNCHANGED <<mode, address, env, flash, conn, cmds, replies, data, transfer, faults,
                 formVars, sock, response, bucket, file>>
OpenUploadFile ==
  LET path == IF Part = "mtd1" THEN shown ELSE "empty" IN
  /\ At("openfile")
  /\ IF ImageAt(path) = "none" THEN file' = NoFile /\ Throw
     ELSE file' = [path |-> path, got |-> 0] /\ Go
  /\ UNCHANGED <<boxVars, formVars, sock, response, bucket, dsock>>
CheckSocetAvalabel ==
  /\ At("erase") /\ (sock = "null" \/ replies # <<>>) /\ Go
  /\ UNCHANGED <<boxVars, formVars, libVars>>
CheckStor ==
  /\ At("stor")
  /\ IF response \in {125, 150} THEN Go /\ UNCHANGED file ELSE Throw /\ file' = NoFile
  /\ UNCHANGED <<boxVars, formVars, sock, response, bucket, dsock>>

(* One turn of DoUpload1460's loop sends a block; a Send on a link the loader *)
(* has closed fails, or goes unnoticed.  At the end of the file, or after a   *)
(* failed Send, file and link are closed and one reply is read ("finish"): a  *)
(* code other than 226 or 250 is thrown inside the try, whose handler fails   *)
(* on the closed file before it reads a second time.                          *)
LastBlock_past == file.got > Size[ImageAt(file.path)]
LastBlock_short == file.got + 1 >= Size[ImageAt(file.path)]
LastBlock == file.got = Size[ImageAt(file.path)]
SendBlock ==
  /\ At("block") /\ ~LastBlock
  /\ data' = IF link = "open" THEN Append(data, <<ImageAt(file.path), file.got + 1>>) ELSE data
  /\ file' = [file EXCEPT !.got = @ + 1]
  /\ UNCHANGED <<mode, address, env, flash, conn, cmds, replies, link, transfer, faults,
                 formVars, todo, sock, response, bucket, dsock>>
EndUpload_unread ==
  /\ At("block") /\ (LastBlock \/ link # "open")
  /\ file' = NoFile /\ CloseDataSocket
  /\ IF LastBlock THEN todo' = <<Op("finish", Part)>> \o Tail(todo) ELSE Throw
  /\ UNCHANGED <<mode, address, env, flash, conn, cmds, replies, data, transfer, faults,
                 formVars, sock, response, bucket>>
EndUpload ==
  /\ At("block") /\ (LastBlock \/ link # "open")
  /\ file' = NoFile /\ CloseDataSocket
  /\ todo' = <<Op("finish", Part)>> \o Tail(todo)
  /\ UNCHANGED <<mode, address, env, flash, conn, cmds, replies, data, transfer, faults,
                 formVars, sock, response, bucket>>
Finish_twice ==
  /\ At("finish") /\ Take
  /\ IF response' \in {226, 250} THEN Throw ELSE todo' = <<Read(Part)>> \o Tail(todo)
  /\ UNCHANGED <<mode, address, env, flash, conn, cmds, link, data, transfer, faults,
                 formVars, sock, dsock, file>>
Finish ==
  /\ At("finish") /\ Take /\ Throw
  /\ UNCHANGED <<mode, address, env, flash, conn, cmds, link, data, transfer, faults,
                 formVars, sock, dsock, file>>

-----------------------------------------------------------------------------
Client == waitOpen \/ Open \/ SendCommand \/ ReadResponse \/ close \/ Login \/ User \/ Pass
          \/ Start \/ GetDataPort \/ OpenDataSocket \/ OpenUploadFile
          \/ CheckSocetAvalabel \/ CheckStor \/ SendBlock \/ EndUpload \/ Finish
BoxStep == Box /\ UNCHANGED <<formVars, todo, libVars>>
Next == button1_Click \/ (\E f \in Firmware : Fsel_Click(f)) \/ PowerCycle \/ Client \/ BoxStep
Spec == Init /\ [][Next]_vars

(* The program and the loader run; a user who is asked again and again cycles *)
(* the power at the address the message names, and presses OK in time.        *)
Fairness ==
  /\ WF_vars(Client) /\ WF_vars(Serve /\ UNCHANGED <<formVars, todo, libVars>>)
  /\ SF_vars(PowerCycle /\ Head(todo).cmd.to = env.my_ipaddress)
  /\ SF_vars(waitOpen /\ Accepts(Head(todo).cmd.to))
FairSpec == Spec /\ Fairness

-----------------------------------------------------------------------------
TypeOK ==
  /\ BoxTypeOK
  /\ shown \in Images \cup {"kernel"} /\ kernel \in Images \cup {"none"} /\ brand \in Brands
  /\ job \in [image : Images \cup {"none"}, brand : Brands, push : BOOLEAN, clear : BOOLEAN]
  /\ clicks \in 0..Clicks
  /\ sock \in {"null", "open"} /\ dsock \in {"null", "open"}
  /\ response \in {0, 150, 200, 220, 221, 226, 227, 230, 331, 426, 550}
  /\ Len(bucket) <= 1 /\ file.path \in Images \cup {"kernel", "empty", "none"}

(* A command is sent only when every reply to what went before has been read: *)
(* whatever failed in an upload, and wherever its exception was thrown, the   *)
(* next reply read is the next command's.                                     *)
InSync ==
  At("send") /\ sock = "open" =>
    bucket = <<>> /\ replies = <<>> /\ cmds = <<>> /\ transfer = "none"

(* ReadResponse has no limit of time: while the connection is up the handler  *)
(* waits only for a reply that will come, except for the second greeting that *)
(* DoItAgain waits for after its second Open.                                 *)
ReadIsOwed ==
  (At("read") \/ At("erase") \/ At("finish")) /\ sock = "open" /\ conn
    => \/ bucket # <<>> \/ replies # <<>> \/ cmds # <<>>
       \/ transfer # "none" /\ link = "closed"

AskedFor(p) == IF p = "mtd1" THEN job.image ELSE "empty"
(* An upload that ends with the code 226 has left the whole of the file in    *)
(* the partition: the loop, which stops at the first read of nothing, loses   *)
(* no block.                                                                  *)
AcceptedIsWhole ==
  [][Finish /\ response' = 226 => flash[Part] = Whole(AskedFor(Part))]_vars

(* Whatever is selected while a session runs, the partitions change only as   *)
(* asked at its click: mtd1 to the image shown then, mtd3 and mtd4 to nothing,*)
(* and only those that were asked for.                                        *)
FlashedAsAsked ==
  [][\A p \in Parts : flash'[p] # flash[p] =>
       /\ IF p = "mtd1" THEN job.push ELSE job.clear
       /\ IsPrefix(flash'[p], Whole(AskedFor(p)))]_vars

(* Without faults every session ends, with the whole image and the settings   *)
(* the form showed at its click in the box; except one with clear, which gets *)
(* as far as the second greeting.                                             *)
Delivered ==
  /\ env = [my_ipaddress |-> "192.168.178.1", firmware_version |-> job.brand,
            autoload |-> "yes"]
  /\ job.push /\ job.image # "none" => flash["mtd1"] = Whole(job.image)
SessionEnds == ~Idle ~> \/ Idle /\ Delivered
                        \/ job.clear /\ At("greeting")
                        \/ faults > 0
==============================================================================
