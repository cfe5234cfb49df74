-------------------------- MODULE XsvfPlayerProofs ---------------------------
(* Proofs about XsvfPlayer, for every width of a character and every set of   *)
(* repeats, waits and lengths.                                                *)
(*                                                                            *)
(* The argument: the player is always in one of a few phases of a command,    *)
(* each given by what it has still to do, and in each it is known how its     *)
(* idea of the TAP state relates to the TAP, how many attempts were compared  *)
(* and, in a retry, how long the device has rested.                           *)
EXTENDS XsvfPlayer, TLAPS

-----------------------------------------------------------------------------
(* What is left to do of a command, from its end to its beginning.            *)
Begins(t, o) == t # <<>> /\ Head(t) = o
Pulses(t) == t # <<>> /\ Head(t).op = "pulse"
(* The increments of an XSDRINC, and the count of its data mask before them;  *)
(* a comment.                                                                 *)
LastIncrements(t) == t # <<>> /\ Head(t).op = "inc" /\ Tail(t) = <<>>
Texts == {"comment", "truncated"}
Rest(t) == \/ t = <<>>
           \/ LastIncrements(t)
           \/ t # <<>> /\ Head(t).op = "count" /\ LastIncrements(Tail(t))
           \/ t # <<>> /\ Head(t).op \in Texts /\ Tail(t) = <<>>
(* An attempt of a scan, from its end to its first bit.                       *)
ToAgain(t) == Begins(t, Op("again")) /\ Rest(Tail(t))
ToLeave(t) == Begins(t, Op("leave")) /\ ToAgain(Tail(t))
ToExit(t) == Begins(t, Op("exit")) /\ ToLeave(Tail(t))
ToCompare(t, sc) == /\ Begins(t, Op("compare"))
                /\ IF Exits(sc) THEN ToExit(Tail(t)) ELSE ToAgain(Tail(t))
LastBit(t, sc) == Pulses(t) /\ Head(t).n \in {0, 1} /\ ToCompare(Tail(t), sc)
ToRaise(t, sc) == Begins(t, Op("raise")) /\ LastBit(Tail(t), sc) /\ Head(Tail(t)).n = 1
ToShift(t, sc) == Pulses(t) /\ IF Exits(sc) THEN ToRaise(Tail(t), sc) ELSE ToCompare(Tail(t), sc)
(* The wait behind it, with the detour after a mismatch and without.          *)
ToWait(t, sc) == Begins(t, Pulse(sc.run)) /\ ToAgain(Tail(t))
ToIdle(t, sc) == Begins(t, Goto("RUN_TEST_IDLE")) /\ ToWait(Tail(t), sc)
Detour(t, sc) == Begins(t, Goto("SHIFT_DR")) /\ ToIdle(Tail(t), sc)
Ending(t, sc) == IF sc.run = 0 THEN ToAgain(t) ELSE ToIdle(t, sc)
(* The wait of an empty scan, that of an XWAIT, the end of a reset.           *)
EmptyWait(t) == Pulses(t) /\ Rest(Tail(t))
Waiting(t) == /\ Pulses(t)
              /\ \/ Tail(t) = <<>>
                 \/ /\ Tail(t) # <<>> /\ Tail(Tail(t)) = <<>>
                    /\ \E s \in Stable : Head(Tail(t)) = Goto(s)
ToReset(t) == Begins(t, Op("reset")) /\ (Tail(t) = <<>> \/ Waiting(Tail(t)))

-----------------------------------------------------------------------------
(* The TAP is where the player takes it to be, and stays there while TMS does.*)
Synced == tap = ucTapState /\ (tap \in Stable => NextTap(tap, tms) = tap)
Gotos == {"goto", "walk", "around"}
(* What xsvfGotoTapState walks to. *)
Places == (TapStates \ {"TEST_LOGIC_RESET"}) \cup {NoState}
Going == todo # <<>> /\ Head(todo).op \in Gotos
ExitOf(s) == IF s = "SHIFT_DR" THEN "EXIT1_DR" ELSE "EXIT1_IR"
(* The states k clocks with TMS high reach Test-Logic-Reset from.             *)
Highs == [TEST_LOGIC_RESET |-> 0, SELECT_IR_SCAN |-> 1, SELECT_DR_SCAN |-> 2,
          RUN_TEST_IDLE |-> 3, UPDATE_DR |-> 3, UPDATE_IR |-> 3,
          EXIT1_DR |-> 4, EXIT2_DR |-> 4, EXIT1_IR |-> 4, EXIT2_IR |-> 4,
          CAPTURE_DR |-> 5, SHIFT_DR |-> 5, PAUSE_DR |-> 5,
          CAPTURE_IR |-> 5, SHIFT_IR |-> 5, PAUSE_IR |-> 5]

(* The phases.  First those outside a scan. *)
AtRest == Rest(todo) /\ Synced
Roaming ==
  /\ Going /\ Target \in Places \cup {"TEST_LOGIC_RESET"}
  /\ Tail(todo) = <<>> \/ (Target \in Stable /\ Waiting(Tail(todo)))
  /\ IF Target = "TEST_LOGIC_RESET" THEN At("goto") ELSE Synced
Raising == Begins(todo, Op("raise")) /\ Begins(Tail(todo), Pulse(6)) /\ ToReset(Tail(Tail(todo)))
Resetting == Pulses(todo) /\ ToReset(Tail(todo)) /\ tms = 1 /\ Highs[tap] <= Head(todo).n
WasReset == ToReset(todo) /\ tms = 1 /\ tap = "TEST_LOGIC_RESET"
InWait == Waiting(todo) /\ Synced /\ tap \in Stable
GoingToEmptyWait == Going /\ Target = "RUN_TEST_IDLE" /\ EmptyWait(Tail(todo)) /\ Synced
InEmptyWait == EmptyWait(todo) /\ Synced /\ tap = "RUN_TEST_IDLE"

(* Up to the comparison; a retry comes from a wait that was long enough. *)
Retried == scan.repeat > 0 /\ scan.run > 0
Rested == Retried => heard >= scan.run
GoingToShift ==
  /\ Going /\ ~At("around") /\ Target = scan.start /\ ToShift(Tail(todo), scan) /\ Synced
  /\ Retried => \/ tap \in {"RUN_TEST_IDLE", "SELECT_DR_SCAN", "CAPTURE_DR"} /\ rested >= scan.run
                \/ tap = "SHIFT_DR" /\ heard >= scan.run
Shifting == ToShift(todo, scan) /\ Synced /\ tap = scan.start /\ Rested
RaisingLast == ToRaise(todo, scan) /\ Exits(scan) /\ Synced /\ tap = scan.start /\ Rested
ShiftingLast ==
  /\ LastBit(todo, scan) /\ Exits(scan) /\ tms = 1 /\ ucTapState = scan.start /\ Rested
  /\ tap = IF Head(todo).n = 1 THEN scan.start ELSE ExitOf(scan.start)
Comparing ==
  /\ ToCompare(todo, scan) /\ Rested /\ ucTapState = scan.start
  /\ IF Exits(scan) THEN tap = ExitOf(scan.start) ELSE Synced
BeforeCompare == GoingToShift \/ Shifting \/ RaisingLast \/ ShiftingLast \/ Comparing

(* Behind it. *)
Exiting == ToExit(todo) /\ Exits(scan) /\ tap = ExitOf(scan.start)
Left == ToLeave(todo) /\ Exits(scan) /\ tap = ExitOf(scan.start) /\ ucTapState = tap
GoingOn ==
  /\ Going /\ Exits(scan) /\ Synced
  /\ \/ Target = scan.end /\ Ending(Tail(todo), scan)
     \/ /\ scan.run # 0
        /\ \/ Target = "PAUSE_DR" /\ Detour(Tail(todo), scan)
           \/ Target = "SHIFT_DR" /\ ToIdle(Tail(todo), scan)
           \/ Target = "RUN_TEST_IDLE" /\ ToWait(Tail(todo), scan)
InRunTest ==
  /\ Pulses(todo) /\ ToAgain(Tail(todo)) /\ Exits(scan) /\ scan.run # 0
  /\ Synced /\ tap = "RUN_TEST_IDLE" /\ rested + Head(todo).n >= scan.run
Decided ==
  /\ ToAgain(todo) /\ Synced
  /\ IF Exits(scan) /\ scan.run # 0 THEN tap = "RUN_TEST_IDLE" /\ rested >= scan.run
     ELSE tap = scan.end
AfterCompare == Exiting \/ Left \/ GoingOn \/ InRunTest \/ Decided

Compared(sc, n) == sc.tried = n /\ sc.bits # 0
PhaseInv ==
  \/ AtRest \/ Roaming \/ Raising \/ Resetting \/ WasReset \/ InWait
  \/ GoingToEmptyWait \/ InEmptyWait
  \/ BeforeCompare /\ Compared(scan, scan.repeat)
  \/ AfterCompare /\ Compared(scan, scan.repeat + 1)

(* The arguments of a scan. *)
ScanInv ==
  /\ scan.repeat <= scan.max \/ iErrorCode # "NONE"
  /\ ~Exits(scan) => scan.run = 0
  /\ scan.max > 0 => scan.start = "SHIFT_DR"
  /\ scan.end \in {"RUN_TEST_IDLE", "PAUSE_DR", "PAUSE_IR", "SHIFT_DR"}
ErrorInv ==
  iErrorCode # "NONE" =>
    /\ Idle
    /\ iErrorCode \in {"TDOMISMATCH", "MAXRETRIES"} =>
         /\ scan.tried = scan.max + 1
         /\ iErrorCode = "MAXRETRIES" <=> scan.max \in 1..(UChar - 2)
PlayerInv == TypeOK /\ ScanInv /\ ErrorInv /\ PhaseInv

-----------------------------------------------------------------------------
(* Operations and sequences of them. *)
LEMMA Fields ==
  ASSUME NEW o, NEW s, NEW n, NEW l
  PROVE  /\ Op(o).op = o
         /\ Move(o, s).op = o /\ Move(o, s).to = s
         /\ Goto(s).op = "goto" /\ Goto(s).to = s
         /\ Pulse(n).op = "pulse" /\ Pulse(n).n = n
         /\ Count(n, l).op = "count" /\ Count(n, l).n = n /\ Count(n, l).length = l
         /\ Increments(n).op = "inc" /\ Increments(n).n = n
BY DEF Op, Move, Goto, Pulse, Count, Increments

LEMMA Kinds ==
  /\ \A o \in {"raise", "reset", "compare", "exit", "leave", "again"} : Op(o) \in Operations
  /\ \A o \in Gotos, s \in TapStates \cup {NoState} : Move(o, s) \in Operations
  /\ \A s \in TapStates \cup {NoState} : Goto(s) \in Operations
  /\ \A n \in Nat : Pulse(n) \in Operations /\ Increments(n) \in Operations
  /\ \A n, l \in Nat : Count(n, l) \in Operations
BY DEF Op, Move, Goto, Pulse, Count, Increments, Operations, Gotos

LEMMA Commented ==
  ASSUME NEW n \in Nat, NEW ended \in BOOLEAN
  PROVE  Comment(n, ended) \in Operations /\ Comment(n, ended).op \in Texts
BY DEF Comment, Operations, Texts

LEMMA Consed ==
  ASSUME NEW o \in Operations, NEW r \in Seq(Operations)
  PROVE  /\ <<o>> \o r \in Seq(Operations) /\ <<o>> \o r # <<>>
         /\ Head(<<o>> \o r) = o /\ Tail(<<o>> \o r) = r
<1> DEFINE s == <<o>> \o r
<1>1. <<o>> \in Seq(Operations) /\ Len(<<o>>) = 1 /\ <<o>>[1] = o OBVIOUS
<1>2. s \in Seq(Operations) /\ Len(s) = 1 + Len(r) /\ s[1] = o BY <1>1
<1>3. Len(s) # 0 /\ s # <<>> BY <1>2
<1>4. Tail(s) = r BY <1>1, <1>2, <1>3
<1> QED BY <1>2, <1>3, <1>4

LEMMA Prefixed ==
  ASSUME NEW q \in Seq(Operations), q # <<>>, NEW r \in Seq(Operations)
  PROVE  /\ q \o r \in Seq(Operations) /\ q \o r # <<>>
         /\ Head(q \o r) = Head(q) /\ Tail(q \o r) = Tail(q) \o r
<1> DEFINE s == q \o r
           t == Tail(q) \o r
<1>1. Len(q) \in Nat /\ Len(q) # 0 /\ Len(r) \in Nat OBVIOUS
<1>2. /\ s \in Seq(Operations) /\ Len(s) = Len(q) + Len(r)
      /\ \A k \in 1..Len(s) : s[k] = IF k <= Len(q) THEN q[k] ELSE r[k - Len(q)]
  BY <1>1
<1>3. Len(s) # 0 /\ s # <<>> BY <1>1, <1>2
<1>4. Head(s) = Head(q) BY <1>1, <1>2, <1>3
<1>5. /\ Tail(q) \in Seq(Operations) /\ Len(Tail(q)) = Len(q) - 1
      /\ \A k \in 1..(Len(q) - 1) : Tail(q)[k] = q[k + 1]
  BY <1>1
<1>6. /\ t \in Seq(Operations) /\ Len(t) = Len(q) - 1 + Len(r)
      /\ \A k \in 1..Len(t) : t[k] = IF k <= Len(q) - 1 THEN Tail(q)[k] ELSE r[k - (Len(q) - 1)]
  BY <1>1, <1>5
<1>7. /\ Tail(s) \in Seq(Operations) /\ Len(Tail(s)) = Len(s) - 1
      /\ \A k \in 1..(Len(s) - 1) : Tail(s)[k] = s[k + 1]
  BY <1>2, <1>3
<1>8. Len(t) = Len(Tail(s)) BY <1>1, <1>2, <1>6, <1>7
<1>9. ASSUME NEW k \in 1..Len(t) PROVE t[k] = Tail(s)[k]
  <2>1. k \in 1..(Len(s) - 1) /\ k + 1 \in 1..Len(s) BY <1>1, <1>2, <1>6
  <2>2. Tail(s)[k] = IF k + 1 <= Len(q) THEN q[k + 1] ELSE r[k + 1 - Len(q)] BY <1>2, <1>7, <2>1
  <2>3. CASE k <= Len(q) - 1
    <3>1. k \in 1..(Len(q) - 1) /\ k + 1 <= Len(q) BY <1>1, <1>6, <2>3
    <3> QED BY <1>5, <1>6, <2>2, <2>3, <3>1
  <2>4. CASE ~(k <= Len(q) - 1)
    <3>1. ~(k + 1 <= Len(q)) /\ k - (Len(q) - 1) = k + 1 - Len(q) BY <1>1, <1>6, <2>4
    <3> QED BY <1>6, <2>2, <2>4, <3>1
  <2> QED BY <2>3, <2>4
<1>10. Tail(s) = t
  <2> HIDE DEF s, t
  <2> QED BY <1>6, <1>7, <1>8, <1>9
<1> QED BY <1>2, <1>3, <1>4, <1>10

LEMMA Single ==
  ASSUME NEW o \in Operations
  PROVE  /\ <<o>> \in Seq(Operations) /\ <<o>> # <<>> /\ Head(<<o>>) = o /\ Tail(<<o>>) = <<>>
OBVIOUS

LEMMA Parted ==
  ASSUME NEW t \in Seq(Operations), t # <<>>
  PROVE  Head(t) \in Operations /\ Tail(t) \in Seq(Operations)
<1>1. Len(t) # 0 OBVIOUS
<1> QED BY <1>1

-----------------------------------------------------------------------------
(* The controller of the TAP. *)
LEMMA NextTapType ==
  ASSUME NEW s \in TapStates, NEW t \in {0, 1} PROVE NextTap(s, t) \in TapStates
BY DEF NextTap, TapStates, OnLow, OnHigh

(* One turn of xsvfGotoTapState: the player moves with the TAP, and where it  *)
(* could stay it would stay.                                                  *)
LEMMA Turned ==
  ASSUME NEW s \in TapStates, NEW t
  PROVE  /\ Turn(s, t)[1] \in {0, 1}
         /\ NextTap(s, Turn(s, t)[1]) = Turn(s, t)[2]
         /\ Turn(s, t)[2] \in Stable => NextTap(Turn(s, t)[2], Turn(s, t)[1]) = Turn(s, t)[2]
<1>1. CASE s = "TEST_LOGIC_RESET" BY <1>1 DEF Turn, NextTap, OnLow, OnHigh, Stable
<1>2. CASE s = "RUN_TEST_IDLE" BY <1>2 DEF Turn, NextTap, OnLow, OnHigh, Stable
<1>3. CASE s = "SELECT_DR_SCAN" BY <1>3 DEF Turn, NextTap, OnLow, OnHigh, Stable
<1>4. CASE s = "CAPTURE_DR" BY <1>4 DEF Turn, NextTap, OnLow, OnHigh, Stable
<1>5. CASE s = "SHIFT_DR" BY <1>5 DEF Turn, NextTap, OnLow, OnHigh, Stable
<1>6. CASE s = "EXIT1_DR" BY <1>6 DEF Turn, NextTap, OnLow, OnHigh, Stable
<1>7. CASE s = "PAUSE_DR" BY <1>7 DEF Turn, NextTap, OnLow, OnHigh, Stable
<1>8. CASE s = "EXIT2_DR" BY <1>8 DEF Turn, NextTap, OnLow, OnHigh, Stable
<1>9. CASE s = "UPDATE_DR" BY <1>9 DEF Turn, NextTap, OnLow, OnHigh, Stable
<1>10. CASE s = "SELECT_IR_SCAN" BY <1>10 DEF Turn, NextTap, OnLow, OnHigh, Stable
<1>11. CASE s = "CAPTURE_IR" BY <1>11 DEF Turn, NextTap, OnLow, OnHigh, Stable
<1>12. CASE s = "SHIFT_IR" BY <1>12 DEF Turn, NextTap, OnLow, OnHigh, Stable
<1>13. CASE s = "EXIT1_IR" BY <1>13 DEF Turn, NextTap, OnLow, OnHigh, Stable
<1>14. CASE s = "PAUSE_IR" BY <1>14 DEF Turn, NextTap, OnLow, OnHigh, Stable
<1>15. CASE s = "EXIT2_IR" BY <1>15 DEF Turn, NextTap, OnLow, OnHigh, Stable
<1>16. CASE s = "UPDATE_IR" BY <1>16 DEF Turn, NextTap, OnLow, OnHigh, Stable
<1> QED BY <1>1, <1>2, <1>3, <1>4, <1>5, <1>6, <1>7, <1>8, <1>9, <1>10, <1>11, <1>12, <1>13, <1>14, <1>15, <1>16 DEF TapStates

LEMMA Higher ==
  ASSUME NEW s \in TapStates
  PROVE  /\ Highs[s] \in 0..5 /\ (Highs[s] = 0 => s = "TEST_LOGIC_RESET")
         /\ Highs[NextTap(s, 1)] <= IF Highs[s] = 0 THEN 0 ELSE Highs[s] - 1
BY DEF Highs, NextTap, OnHigh, TapStates

-----------------------------------------------------------------------------
(* A step on the way to a state leaves the rest of the command alone, and     *)
(* ends in that state.                                                        *)
Moved ==
  /\ todo' # <<>> /\ Going' /\ Target' = Target /\ Tail(todo') = Tail(todo)
  /\ At("around")' => Target \in {"PAUSE_DR", "PAUSE_IR"}
Arrived == todo' = Tail(todo) /\ ucTapState = Target /\ UNCHANGED <<portVars, ucTapState>>

LEMMA Redone ==
  ASSUME TypeOK, todo # <<>>, NEW o \in Operations, GoOnWith(o)
  PROVE  todo' \in Seq(Operations) /\ todo' # <<>> /\ Head(todo') = o /\ Tail(todo') = Tail(todo)
<1>1. Tail(todo) \in Seq(Operations) BY Parted DEF TypeOK
<1> QED BY <1>1, Consed DEF GoOnWith

LEMMA Moves ==
  ASSUME TypeOK, Going, Synced, Target \in Places, GotoTapState \/ Walk,
         At("goto") => ~Unreachable(Target)
  PROVE  /\ todo' \in Seq(Operations) /\ UNCHANGED <<info, iErrorCode, ucComplete, scan>>
         /\ ucTapState' \in TapStates /\ Synced'
         /\ \/ Moved /\ UNCHANGED portVars
            \/ /\ Moved /\ (At("around") \/ (At("walk") /\ tap # Target))
               /\ Clock(Turn(tap, Target)[1])
            \/ Arrived
<1>1. /\ Head(todo) \in Operations /\ Tail(todo) \in Seq(Operations)
  <2>1. todo \in Seq(Operations) /\ todo # <<>> BY DEF TypeOK, Going
  <2>2. Head(todo) \in Operations /\ Tail(todo) \in Seq(Operations) BY <2>1, Parted
  <2> QED BY <2>2
<1>4. Target \in TapStates \cup {NoState} /\ Target # "TEST_LOGIC_RESET" BY DEF Places, NoState, TapStates
<1>2. CASE GotoTapState
  <2>1. /\ GoOnWith(Move(IF Target = ucTapState /\ Target \in {"PAUSE_DR", "PAUSE_IR"}
                         THEN "around" ELSE "walk", Target))
        /\ UNCHANGED <<portVars, ucTapState, info, iErrorCode, ucComplete, scan>>
    BY <1>2, <1>4 DEF GotoTapState
  <2>2. PICK o \in {"walk", "around"} :
          /\ GoOnWith(Move(o, Target))
          /\ o = "around" => Target \in {"PAUSE_DR", "PAUSE_IR"}
    BY <2>1
  <2>3. Move(o, Target) \in Operations BY <1>4, Kinds DEF Gotos
  <2>4. /\ todo' \in Seq(Operations) /\ todo' # <<>> /\ Head(todo') = Move(o, Target)
        /\ Tail(todo') = Tail(todo)
    <3>1. todo # <<>> BY DEF Going
    <3> QED BY <2>2, <2>3, <3>1, Redone
  <2>5. Moved
    <3>1. Head(todo').op = o /\ Head(todo').to = Target BY <2>4 DEF Move
    <3>2. Target' = Target BY <3>1 DEF Target
    <3>3. Going' BY <2>4, <3>1 DEF Going, Gotos
    <3>4. At("around")' => o = "around" BY <3>1 DEF At
    <3> QED BY <2>2, <2>4, <3>2, <3>3, <3>4 DEF Moved
  <2>6. Synced' BY <2>1 DEF Synced, portVars
  <2> QED BY <2>1, <2>4, <2>5, <2>6 DEF TypeOK
<1>3. CASE Walk
  <2>1. UNCHANGED <<info, iErrorCode, ucComplete, scan>> BY <1>3 DEF Walk
  <2>2. CASE At("walk") /\ ucTapState = Target
    <3>1. Arrived BY <1>3, <2>2 DEF Walk, Go, Arrived
    <3>2. Synced' BY <3>1 DEF Synced, portVars, Arrived
    <3> QED BY <2>1, <3>1, <3>2, <1>1 DEF TypeOK, Arrived
  <2>3. CASE ~(At("walk") /\ ucTapState = Target)
    <3>1. /\ Clock(Turn(tap, Target)[1]) /\ ucTapState' = Turn(tap, Target)[2]
          /\ GoOnWith(Move("walk", Target))
      BY <1>3, <2>3 DEF Walk, Synced
    <3>2. /\ todo' \in Seq(Operations) /\ todo' # <<>> /\ Head(todo') = Move("walk", Target)
          /\ Tail(todo') = Tail(todo)
      <4>1. Move("walk", Target) \in Operations BY <1>4, Kinds DEF Gotos
      <4> QED BY <3>1, <4>1, Redone DEF Going
    <3>3. Moved
      <4>1. Head(todo').op = "walk" /\ Head(todo').to = Target BY <3>2 DEF Move
      <4>2. Target' = Target BY <4>1 DEF Target
      <4>3. Going' BY <3>2, <4>1 DEF Going, Gotos
      <4>4. ~At("around")' BY <4>1 DEF At
      <4> QED BY <3>2, <4>2, <4>3, <4>4 DEF Moved
    <3>4. /\ Turn(tap, Target)[1] \in {0, 1} /\ tap \in TapStates
          /\ NextTap(tap, Turn(tap, Target)[1]) = Turn(tap, Target)[2]
          /\ Turn(tap, Target)[2] \in Stable =>
               NextTap(Turn(tap, Target)[2], Turn(tap, Target)[1]) = Turn(tap, Target)[2]
      BY Turned DEF TypeOK
    <3>5. tap' = Turn(tap, Target)[2] /\ tms' = Turn(tap, Target)[1] BY <3>1, <3>4 DEF Clock
    <3>6. Synced' BY <3>1, <3>4, <3>5 DEF Synced
    <3>7. ucTapState' \in TapStates BY <3>1, <3>4, NextTapType
    <3>8. At("around") \/ (At("walk") /\ tap # Target) BY <1>3, <2>3 DEF Walk, Synced
    <3> QED BY <2>1, <3>1, <3>2, <3>3, <3>6, <3>7, <3>8
  <2> QED BY <2>2, <2>3
<1> QED BY <1>2, <1>3

-----------------------------------------------------------------------------
(* The operation in hand tells the phase. *)
LEMMA HeadsOutside ==
  /\ AtRest => todo = <<>> \/ Head(todo).op \in {"inc", "count", "comment", "truncated"}
  /\ Roaming \/ GoingToEmptyWait => Head(todo).op \in Gotos
  /\ Raising => Head(todo).op = "raise"
  /\ Resetting \/ InWait \/ InEmptyWait => Head(todo).op = "pulse"
  /\ WasReset => Head(todo).op = "reset"
<1>1. AtRest => todo = <<>> \/ Head(todo).op \in {"inc", "count", "comment", "truncated"}
  BY DEF AtRest, Rest, LastIncrements, Texts
<1>2. Roaming \/ GoingToEmptyWait => Head(todo).op \in Gotos
  BY DEF Roaming, GoingToEmptyWait, Going
<1>3. Raising => Head(todo).op = "raise" BY Fields DEF Raising, Begins
<1>4. Resetting \/ InWait \/ InEmptyWait => Head(todo).op = "pulse"
  BY DEF Resetting, InWait, Waiting, InEmptyWait, EmptyWait, Pulses
<1>5. WasReset => Head(todo).op = "reset" BY Fields DEF WasReset, ToReset, Begins
<1> QED BY <1>1, <1>2, <1>3, <1>4, <1>5

LEMMA HeadsInside ==
  /\ GoingToShift \/ GoingOn => Head(todo).op \in Gotos
  /\ Shifting \/ ShiftingLast \/ InRunTest => Head(todo).op = "pulse"
  /\ RaisingLast => Head(todo).op = "raise"
  /\ Comparing => Head(todo).op = "compare"
  /\ Exiting => Head(todo).op = "exit"
  /\ Left => Head(todo).op = "leave"
  /\ Decided => Head(todo).op = "again"
<1>1. GoingToShift \/ GoingOn => Head(todo).op \in Gotos BY DEF GoingToShift, GoingOn, Going
<1>2. Shifting \/ ShiftingLast \/ InRunTest => Head(todo).op = "pulse"
  BY DEF Shifting, ToShift, ShiftingLast, LastBit, InRunTest, Pulses
<1>3. RaisingLast => Head(todo).op = "raise" BY Fields DEF RaisingLast, ToRaise, Begins
<1>4. Comparing => Head(todo).op = "compare" BY Fields DEF Comparing, ToCompare, Begins
<1>5. Exiting => Head(todo).op = "exit" BY Fields DEF Exiting, ToExit, Begins
<1>6. Left => Head(todo).op = "leave" BY Fields DEF Left, ToLeave, Begins
<1>7. Decided => Head(todo).op = "again" BY Fields DEF Decided, ToAgain, Begins
<1> QED BY <1>1, <1>2, <1>3, <1>4, <1>5, <1>6, <1>7

LEMMA Phases ==
  ASSUME PhaseInv, todo # <<>>
  PROVE  /\ Head(todo).op \in {"inc", "count", "comment", "truncated"} => AtRest
         /\ Head(todo).op \in Gotos =>
              \/ Roaming \/ GoingToEmptyWait
              \/ GoingToShift /\ Compared(scan, scan.repeat)
              \/ GoingOn /\ Compared(scan, scan.repeat + 1)
         /\ Head(todo).op = "raise" => Raising \/ (RaisingLast /\ Compared(scan, scan.repeat))
         /\ Head(todo).op = "pulse" =>
              \/ Resetting \/ InWait \/ InEmptyWait
              \/ (Shifting \/ ShiftingLast) /\ Compared(scan, scan.repeat)
              \/ InRunTest /\ Compared(scan, scan.repeat + 1)
         /\ Head(todo).op = "reset" => WasReset
         /\ Head(todo).op = "compare" => Comparing /\ Compared(scan, scan.repeat)
         /\ Head(todo).op = "exit" => Exiting /\ Compared(scan, scan.repeat + 1)
         /\ Head(todo).op = "leave" => Left /\ Compared(scan, scan.repeat + 1)
         /\ Head(todo).op = "again" => Decided /\ Compared(scan, scan.repeat + 1)
BY HeadsOutside, HeadsInside DEF PhaseInv, BeforeCompare, AfterCompare, Gotos

(* While there is something to do there was no error. *)
LEMMA NoError ==
  ASSUME PlayerInv, todo # <<>>
  PROVE  /\ iErrorCode = "NONE" /\ scan.repeat <= scan.max
         /\ todo \in Seq(Operations) /\ Head(todo) \in Operations /\ Tail(todo) \in Seq(Operations)
<1>1. iErrorCode = "NONE" BY DEF PlayerInv, ErrorInv, Idle
<1>2. todo \in Seq(Operations) BY DEF PlayerInv, TypeOK
<1>3. Head(todo) \in Operations /\ Tail(todo) \in Seq(Operations) BY <1>2, Parted
<1> QED BY <1>1, <1>2, <1>3 DEF PlayerInv, ScanInv

LEMMA StillNoError ==
  ASSUME ScanInv, iErrorCode = "NONE", UNCHANGED <<scan, iErrorCode>>
  PROVE  ScanInv' /\ ErrorInv'
BY DEF ScanInv, ErrorInv

-----------------------------------------------------------------------------
(* Clocks. *)
LEMMA Clocked ==
  ASSUME TypeOK, NEW t \in {0, 1}, Clock(t)
  PROVE  tap' \in TapStates /\ tms' \in {0, 1} /\ rested' \in Nat /\ heard' \in Nat
<1>1. tap' \in TapStates BY NextTapType DEF TypeOK, Clock
<1> QED BY <1>1 DEF TypeOK, Clock

LEMMA Stays ==
  ASSUME TypeOK, Synced, tap \in Stable, Clock(tms), ucTapState' = ucTapState
  PROVE  /\ tap' = tap /\ Synced' /\ heard' = heard
         /\ tap = "RUN_TEST_IDLE" => rested' = rested + 1
<1>1. tap' = tap /\ tms' = tms BY DEF Synced, Clock
<1>2. tap # "CAPTURE_DR" BY DEF Stable
<1>3. tap = "RUN_TEST_IDLE" => tms = 0 BY <1>1 DEF Synced, TypeOK, NextTap, OnHigh, Clock
<1> QED BY <1>1, <1>2, <1>3 DEF Clock, Synced

LEMMA Pulsed ==
  ASSUME PlayerInv, PulseClock
  PROVE  /\ UNCHANGED <<ucTapState, info, iErrorCode, ucComplete, scan>>
         /\ TypeOK' /\ ScanInv' /\ ErrorInv' /\ Pulses(todo) /\ Head(todo).n \in Nat
         /\ \/ Head(todo).n = 0 /\ todo' = Tail(todo) /\ UNCHANGED portVars
            \/ /\ Head(todo).n > 0 /\ Clock(tms) /\ Pulses(todo')
               /\ Head(todo').n = Head(todo).n - 1 /\ Tail(todo') = Tail(todo)
<1>1. todo # <<>> /\ Head(todo).op = "pulse" BY DEF PulseClock, At
<1>2. /\ iErrorCode = "NONE" /\ todo \in Seq(Operations)
      /\ Head(todo) \in Operations /\ Tail(todo) \in Seq(Operations)
  BY <1>1, NoError
<1>3. Head(todo).n \in Nat BY <1>2 DEF Operations
<1>4. UNCHANGED <<ucTapState, info, iErrorCode, ucComplete, scan>> BY DEF PulseClock
<1>5. ScanInv' /\ ErrorInv' BY <1>2, <1>4, StillNoError DEF PlayerInv
<1>6. CASE Head(todo).n = 0
  <2>1. todo' = Tail(todo) /\ UNCHANGED portVars BY <1>6 DEF PulseClock, Go
  <2>2. TypeOK' BY <1>2, <1>4, <2>1 DEF PlayerInv, TypeOK, portVars
  <2> QED BY <1>1, <1>3, <1>4, <1>5, <1>6, <2>1, <2>2 DEF Pulses
<1>7. CASE Head(todo).n # 0
  <2>1. Clock(tms) /\ GoOnWith(Pulse(Head(todo).n - 1)) BY <1>7 DEF PulseClock
  <2>2. Pulse(Head(todo).n - 1) \in Operations BY <1>3, <1>7, Kinds
  <2>3. /\ todo' \in Seq(Operations) /\ todo' # <<>> /\ Head(todo') = Pulse(Head(todo).n - 1)
        /\ Tail(todo') = Tail(todo)
    BY <1>1, <2>1, <2>2, Redone DEF PlayerInv
  <2>4. Pulses(todo') /\ Head(todo').n = Head(todo).n - 1 BY <2>3, Fields DEF Pulses
  <2>5. TypeOK'
    <3>1. tms \in {0, 1} BY DEF PlayerInv, TypeOK
    <3>2. tap' \in TapStates /\ tms' \in {0, 1} /\ rested' \in Nat /\ heard' \in Nat
      BY <2>1, <3>1, Clocked DEF PlayerInv
    <3> QED BY <1>4, <2>3, <3>2 DEF PlayerInv, TypeOK
  <2> QED BY <1>1, <1>3, <1>4, <1>5, <1>7, <2>1, <2>3, <2>4, <2>5 DEF Pulses
<1> QED BY <1>6, <1>7

-----------------------------------------------------------------------------
(* The steps. *)
LEMMA PulseKeeps == ASSUME PlayerInv, PulseClock PROVE PlayerInv'
<1>1. /\ UNCHANGED <<ucTapState, info, iErrorCode, ucComplete, scan>>
      /\ TypeOK' /\ ScanInv' /\ ErrorInv' /\ Pulses(todo) /\ Head(todo).n \in Nat
      /\ \/ Head(todo).n = 0 /\ todo' = Tail(todo) /\ UNCHANGED portVars
         \/ /\ Head(todo).n > 0 /\ Clock(tms) /\ Pulses(todo')
            /\ Head(todo').n = Head(todo).n - 1 /\ Tail(todo') = Tail(todo)
  BY Pulsed
<1>2. \/ Resetting \/ InWait \/ InEmptyWait
      \/ (Shifting \/ ShiftingLast) /\ Compared(scan, scan.repeat)
      \/ InRunTest /\ Compared(scan, scan.repeat + 1)
  BY <1>1, Phases DEF PlayerInv, Pulses
<1>3. TypeOK /\ tap \in TapStates BY DEF PlayerInv, TypeOK
<1>4. CASE Head(todo).n = 0 /\ todo' = Tail(todo) /\ UNCHANGED portVars
  <2>1. UNCHANGED <<tap, tms, rested, heard, ucTapState, scan>> BY <1>1, <1>4 DEF portVars
  <2>2. Synced => Synced' BY <2>1 DEF Synced
  <2>3. CASE Resetting
    <3>1. tap = "TEST_LOGIC_RESET" BY <1>3, <1>4, <2>3, Higher DEF Resetting
    <3>2. WasReset' BY <1>4, <2>1, <2>3, <3>1 DEF Resetting, WasReset
    <3> QED BY <1>1, <3>2 DEF PlayerInv, PhaseInv
  <2>4. CASE InWait
    <3>1. CASE Tail(todo) = <<>>
      <4>1. AtRest' BY <1>4, <2>2, <2>4, <3>1 DEF InWait, AtRest, Rest
      <4> QED BY <1>1, <4>1 DEF PlayerInv, PhaseInv
    <3>2. CASE /\ Tail(todo) # <<>> /\ Tail(Tail(todo)) = <<>>
               /\ \E s \in Stable : Head(Tail(todo)) = Goto(s)
      <4>1. PICK s \in Stable : Head(todo') = Goto(s) BY <1>4, <3>2
      <4>2. Head(todo').op = "goto" /\ Head(todo').to = s BY <4>1, Fields
      <4>3. todo' # <<>> /\ Tail(todo') = <<>> BY <1>4, <3>2
      <4>4. Target' = s /\ Going' /\ At("goto")' BY <4>2, <4>3 DEF Target, Going, Gotos, At
      <4>5. s \in Places \cup {"TEST_LOGIC_RESET"} BY DEF Stable, Places, TapStates
      <4>6. Roaming' BY <2>2, <2>4, <4>3, <4>4, <4>5 DEF Roaming, InWait
      <4> QED BY <1>1, <4>6 DEF PlayerInv, PhaseInv
    <3> QED BY <2>4, <3>1, <3>2 DEF InWait, Waiting
  <2>5. CASE InEmptyWait
    <3>1. AtRest' BY <1>4, <2>2, <2>5 DEF InEmptyWait, EmptyWait, AtRest
    <3> QED BY <1>1, <3>1 DEF PlayerInv, PhaseInv
  <2>6. CASE Shifting /\ Compared(scan, scan.repeat)
    <3>1. Rested' BY <2>1, <2>6 DEF Shifting, Rested, Retried
    <3>2. CASE Exits(scan)
      <4>1. ToRaise(todo', scan') BY <1>4, <2>1, <2>6, <3>2 DEF Shifting, ToShift
      <4>2. RaisingLast' BY <2>1, <2>2, <2>6, <3>1, <3>2, <4>1 DEF Shifting, RaisingLast
      <4> QED BY <1>1, <2>1, <2>6, <4>2 DEF PlayerInv, PhaseInv, BeforeCompare
    <3>3. CASE ~Exits(scan)
      <4>1. ToCompare(todo', scan') BY <1>4, <2>1, <2>6, <3>3 DEF Shifting, ToShift
      <4>2. Comparing' BY <2>1, <2>2, <2>6, <3>1, <3>3, <4>1 DEF Shifting, Comparing, Synced
      <4> QED BY <1>1, <2>1, <2>6, <4>2 DEF PlayerInv, PhaseInv, BeforeCompare
    <3> QED BY <3>2, <3>3
  <2>7. CASE ShiftingLast /\ Compared(scan, scan.repeat)
    <3>1. Rested' BY <2>1, <2>7 DEF ShiftingLast, Rested, Retried
    <3>2. ToCompare(todo', scan') BY <1>4, <2>1, <2>7 DEF ShiftingLast, LastBit
    <3>3. Comparing' BY <1>4, <2>1, <2>7, <3>1, <3>2 DEF ShiftingLast, Comparing
    <3> QED BY <1>1, <2>1, <2>7, <3>3 DEF PlayerInv, PhaseInv, BeforeCompare
  <2>8. CASE InRunTest /\ Compared(scan, scan.repeat + 1)
    <3>1. rested >= scan.run BY <1>3, <1>4, <2>8 DEF InRunTest, TypeOK, Scans
    <3>2. Decided' BY <1>4, <2>1, <2>2, <2>8, <3>1 DEF InRunTest, Decided
    <3> QED BY <1>1, <2>1, <2>8, <3>2 DEF PlayerInv, PhaseInv, AfterCompare
  <2> QED BY <1>2, <2>3, <2>4, <2>5, <2>6, <2>7, <2>8
<1>5. CASE /\ Head(todo).n > 0 /\ Clock(tms) /\ Pulses(todo')
           /\ Head(todo').n = Head(todo).n - 1 /\ Tail(todo') = Tail(todo)
  <2>1. Synced /\ tap \in Stable =>
          /\ tap' = tap /\ Synced' /\ heard' = heard
          /\ tap = "RUN_TEST_IDLE" => rested' = rested + 1
    BY <1>1, <1>3, <1>5, Stays
  <2>2. CASE Resetting
    <3>1. tms = 1 /\ tms' = 1 /\ tap' = NextTap(tap, 1) BY <1>5, <2>2 DEF Resetting, Clock
    <3>2. /\ Highs[tap] \in Nat /\ Highs[tap'] \in Nat /\ Highs[tap] <= Head(todo).n
          /\ Highs[tap'] <= IF Highs[tap] = 0 THEN 0 ELSE Highs[tap] - 1
      <4>1. tap' \in TapStates BY <1>1 DEF TypeOK
      <4> QED BY <1>3, <2>2, <3>1, <4>1, Higher DEF Resetting
    <3>3. Highs[tap'] <= Head(todo').n BY <1>1, <1>5, <3>2
    <3>4. Resetting' BY <1>5, <2>2, <3>1, <3>3 DEF Resetting
    <3> QED BY <1>1, <3>4 DEF PlayerInv, PhaseInv
  <2>3. CASE InWait
    <3>1. Waiting(todo') BY <1>5, <2>3 DEF InWait, Waiting
    <3>2. InWait' BY <2>1, <2>3, <3>1 DEF InWait
    <3> QED BY <1>1, <3>2 DEF PlayerInv, PhaseInv
  <2>4. CASE InEmptyWait
    <3>1. tap \in Stable BY <2>4 DEF InEmptyWait, Stable
    <3>2. EmptyWait(todo') BY <1>5, <2>4 DEF InEmptyWait, EmptyWait
    <3>3. InEmptyWait' BY <2>1, <2>4, <3>1, <3>2 DEF InEmptyWait
    <3> QED BY <1>1, <3>3 DEF PlayerInv, PhaseInv
  <2>5. CASE Shifting /\ Compared(scan, scan.repeat)
    <3>1. tap \in Stable BY <1>3, <2>5 DEF Shifting, Stable, TypeOK, Scans
    <3>2. Rested' BY <1>1, <2>1, <2>5, <3>1 DEF Shifting, Rested, Retried
    <3>3. ToShift(todo', scan') BY <1>1, <1>5, <2>5 DEF Shifting, ToShift
    <3>4. Shifting' BY <1>1, <2>1, <2>5, <3>1, <3>2, <3>3 DEF Shifting
    <3> QED BY <1>1, <2>5, <3>4 DEF PlayerInv, PhaseInv, BeforeCompare
  <2>6. CASE ShiftingLast /\ Compared(scan, scan.repeat)
    <3>1. Head(todo).n = 1 /\ Head(todo').n = 0 BY <1>5, <2>6 DEF ShiftingLast, LastBit
    <3>2. scan.start \in {"SHIFT_DR", "SHIFT_IR"} BY <1>3 DEF TypeOK, Scans
    <3>3. /\ tap = scan.start /\ tap' = NextTap(scan.start, 1) /\ tms' = 1 /\ heard' = heard
      BY <1>5, <2>6, <3>1, <3>2 DEF ShiftingLast, Clock
    <3>4. tap' = ExitOf(scan.start) BY <3>2, <3>3 DEF NextTap, OnHigh, ExitOf
    <3>5. Rested' BY <1>1, <2>6, <3>3 DEF ShiftingLast, Rested, Retried
    <3>6. LastBit(todo', scan') BY <1>1, <1>5, <2>6, <3>1 DEF ShiftingLast, LastBit
    <3>7. ShiftingLast' BY <1>1, <2>6, <3>1, <3>3, <3>4, <3>5, <3>6 DEF ShiftingLast
    <3> QED BY <1>1, <2>6, <3>7 DEF PlayerInv, PhaseInv, BeforeCompare
  <2>7. CASE InRunTest /\ Compared(scan, scan.repeat + 1)
    <3>1. tap \in Stable /\ rested' = rested + 1 BY <2>1, <2>7 DEF InRunTest, Stable
    <3>2. rested' + Head(todo').n >= scan'.run
      <4>1. rested \in Nat /\ Head(todo).n \in Nat /\ scan.run \in Nat
        <5>1. scan.run \in Nat BY <1>3 DEF TypeOK, Scans
        <5>2. Head(todo).n \in Nat BY <1>1
        <5>3. rested \in Nat BY <1>3 DEF TypeOK
        <5> QED BY <5>1, <5>2, <5>3
      <4>2. Head(todo').n = Head(todo).n - 1 /\ rested + Head(todo).n >= scan.run
        BY <1>5, <2>7 DEF InRunTest
      <4> QED BY <1>1, <3>1, <4>1, <4>2
    <3>3. InRunTest' BY <1>1, <1>5, <2>1, <2>7, <3>1, <3>2 DEF InRunTest
    <3> QED BY <1>1, <2>7, <3>3 DEF PlayerInv, PhaseInv, AfterCompare
  <2> QED BY <1>2, <2>2, <2>3, <2>4, <2>5, <2>6, <2>7
<1> QED BY <1>1, <1>4, <1>5

(* A step that takes the operation in hand off and leaves the scan alone.     *)
LEMMA Taken ==
  ASSUME PlayerInv, todo # <<>>, Go, UNCHANGED <<tap, tms, rested, heard, scan>>,
         UNCHANGED <<info, iErrorCode, ucComplete>>, ucTapState' \in TapStates
  PROVE  TypeOK' /\ ScanInv' /\ ErrorInv'
<1>1. todo' = Tail(todo) /\ iErrorCode = "NONE" /\ Tail(todo) \in Seq(Operations)
  BY NoError DEF Go
<1>2. ScanInv' /\ ErrorInv' BY <1>1, StillNoError DEF PlayerInv
<1> QED BY <1>1, <1>2 DEF PlayerInv, TypeOK

LEMMA RaiseKeeps == ASSUME PlayerInv, RaiseTms PROVE PlayerInv'
<1>1. /\ todo # <<>> /\ Head(todo).op = "raise" /\ todo' = Tail(todo) /\ tms' = 1
      /\ UNCHANGED <<tap, rested, heard, ucTapState, info, iErrorCode, ucComplete, scan>>
  BY DEF RaiseTms, At, Go
<1>2. TypeOK' /\ ScanInv' /\ ErrorInv'
  <2>1. iErrorCode = "NONE" /\ Tail(todo) \in Seq(Operations) BY <1>1, NoError
  <2>2. ScanInv' /\ ErrorInv' BY <1>1, <2>1, StillNoError DEF PlayerInv
  <2> QED BY <1>1, <2>1, <2>2 DEF PlayerInv, TypeOK
<1>3. Raising \/ (RaisingLast /\ Compared(scan, scan.repeat)) BY <1>1, Phases DEF PlayerInv
<1>4. CASE Raising
  <2>1. Head(todo').op = "pulse" /\ Head(todo').n = 6 /\ todo' # <<>> /\ ToReset(Tail(todo'))
    BY <1>1, <1>4, Fields DEF Raising, Begins
  <2>2. Highs[tap'] <= 6
    <3>1. tap' \in TapStates BY <1>2 DEF TypeOK
    <3>2. Highs[tap'] \in 0..5 BY <3>1, Higher
    <3> QED BY <3>2
  <2>3. Resetting' BY <1>1, <2>1, <2>2 DEF Resetting, Pulses
  <2> QED BY <1>2, <2>3 DEF PlayerInv, PhaseInv
<1>5. CASE RaisingLast /\ Compared(scan, scan.repeat)
  <2>1. LastBit(todo', scan') /\ Head(todo').n = 1 BY <1>1, <1>5 DEF RaisingLast, ToRaise
  <2>2. Rested' BY <1>1, <1>5 DEF RaisingLast, Rested, Retried
  <2>3. ShiftingLast' BY <1>1, <1>5, <2>1, <2>2 DEF RaisingLast, ShiftingLast, Synced
  <2> QED BY <1>1, <1>2, <1>5, <2>3 DEF PlayerInv, PhaseInv, BeforeCompare
<1> QED BY <1>3, <1>4, <1>5

LEMMA ResetKeeps == ASSUME PlayerInv, Reset PROVE PlayerInv'
<1>1. /\ todo # <<>> /\ Head(todo).op = "reset" /\ todo' = Tail(todo) /\ Go
      /\ UNCHANGED <<tap, tms, rested, heard, info, iErrorCode, ucComplete, scan>>
      /\ ucTapState' = "TEST_LOGIC_RESET"
  BY DEF Reset, At, Go, portVars
<1>2. TypeOK' /\ ScanInv' /\ ErrorInv' BY <1>1, Taken DEF TapStates
<1>3. WasReset BY <1>1, Phases DEF PlayerInv
<1>4. Synced' BY <1>1, <1>3 DEF WasReset, Synced, NextTap, OnHigh
<1>5. CASE Tail(todo) = <<>>
  <2>1. AtRest' BY <1>1, <1>4, <1>5 DEF AtRest, Rest
  <2> QED BY <1>2, <2>1 DEF PlayerInv, PhaseInv
<1>6. CASE Waiting(Tail(todo))
  <2>1. InWait' BY <1>1, <1>3, <1>4, <1>6 DEF InWait, WasReset, Stable
  <2> QED BY <1>2, <2>1 DEF PlayerInv, PhaseInv
<1> QED BY <1>3, <1>5, <1>6 DEF WasReset, ToReset

(* To Test-Logic-Reset, from wherever the TAP is. *)
LEMMA ToResetKeeps ==
  ASSUME PlayerInv, GotoTapState, Roaming, Target = "TEST_LOGIC_RESET"
  PROVE  PlayerInv'
<1>1. /\ todo # <<>> /\ todo' = <<Op("raise"), Pulse(6), Op("reset")>> \o Tail(todo)
      /\ UNCHANGED <<portVars, ucTapState, info, ucComplete, scan, iErrorCode>>
  BY DEF GotoTapState, At, Unreachable
<1>2. /\ iErrorCode = "NONE" /\ Tail(todo) \in Seq(Operations)
      /\ Op("raise") \in Operations /\ Pulse(6) \in Operations /\ Op("reset") \in Operations
  BY <1>1, NoError, Kinds
<1> DEFINE r == Tail(todo)
           a == <<Op("raise"), Pulse(6), Op("reset")>>
           b == <<Pulse(6), Op("reset")>>
           c == <<Op("reset")>>
<1>3. /\ a \in Seq(Operations) /\ a # <<>> /\ Head(a) = Op("raise") /\ Tail(a) = b
      /\ b \in Seq(Operations) /\ b # <<>> /\ Head(b) = Pulse(6) /\ Tail(b) = c
  BY <1>2
<1> HIDE DEF a, b, c
<1>4. c \o r # <<>> /\ Head(c \o r) = Op("reset") /\ Tail(c \o r) = r BY <1>2, Consed DEF c
<1>5. b \o r # <<>> /\ Head(b \o r) = Pulse(6) /\ Tail(b \o r) = c \o r
  BY <1>2, <1>3, Prefixed
<1>6. /\ todo' \in Seq(Operations) /\ todo' # <<>>
      /\ Head(todo') = Op("raise") /\ Tail(todo') = b \o r
  BY <1>1, <1>2, <1>3, Prefixed DEF a
<1>7. TypeOK' BY <1>1, <1>6 DEF PlayerInv, TypeOK, portVars
<1>8. ScanInv' /\ ErrorInv' BY <1>1, <1>2, StillNoError DEF PlayerInv
<1>9. r = <<>> \/ Waiting(r) BY DEF Roaming
<1>10. ToReset(c \o r) BY <1>4, <1>9 DEF ToReset, Begins
<1>11. Raising' BY <1>4, <1>5, <1>6, <1>10 DEF Raising, Begins
<1> QED BY <1>7, <1>8, <1>11 DEF PlayerInv, PhaseInv

(* The walk through the table, in each phase. *)
LEMMA OnTheWay ==
  ASSUME PlayerInv, Going, Synced, Target \in Places, GotoTapState \/ Walk,
         At("goto") => ~Unreachable(Target)
  PROVE  /\ TypeOK' /\ ScanInv' /\ ErrorInv' /\ Synced' /\ scan' = scan
         /\ \/ Moved /\ UNCHANGED portVars
            \/ /\ Moved /\ (At("around") \/ (At("walk") /\ tap # Target))
               /\ Clock(Turn(tap, Target)[1])
            \/ Arrived
<1>1. TypeOK BY DEF PlayerInv
<1>2. /\ todo' \in Seq(Operations) /\ UNCHANGED <<info, iErrorCode, ucComplete, scan>>
      /\ ucTapState' \in TapStates /\ Synced'
      /\ \/ Moved /\ UNCHANGED portVars
         \/ /\ Moved /\ (At("around") \/ (At("walk") /\ tap # Target))
            /\ Clock(Turn(tap, Target)[1])
         \/ Arrived
  <2>1. Target # "TEST_LOGIC_RESET" BY DEF Places, NoState
  <2> QED BY <1>1, <2>1, Moves
<1>3. iErrorCode = "NONE" BY NoError DEF Going
<1>4. ScanInv' /\ ErrorInv' BY <1>2, <1>3, StillNoError DEF PlayerInv
<1>5. tap' \in TapStates /\ tms' \in {0, 1} /\ rested' \in Nat /\ heard' \in Nat
  <2>1. CASE UNCHANGED portVars BY <1>1, <2>1 DEF TypeOK, portVars
  <2>2. CASE Clock(Turn(tap, Target)[1])
    <3>1. tap \in TapStates BY <1>1 DEF TypeOK
    <3>2. Turn(tap, Target)[1] \in {0, 1} BY <3>1, Turned
    <3>3. PICK t \in {0, 1} : t = Turn(tap, Target)[1] BY <3>2
    <3>4. Clock(t) BY <2>2, <3>3
    <3> QED BY <1>1, <3>4, Clocked
  <2> QED BY <1>2, <2>1, <2>2 DEF Arrived
<1>6. TypeOK' BY <1>1, <1>2, <1>5 DEF TypeOK
<1> QED BY <1>2, <1>4, <1>6

LEMMA RoamingKeeps ==
  ASSUME PlayerInv, GotoTapState \/ Walk, Roaming
  PROVE  PlayerInv'
<1>1. Going /\ (Tail(todo) = <<>> \/ (Target \in Stable /\ Waiting(Tail(todo)))) BY DEF Roaming
<1>2. CASE Target = "TEST_LOGIC_RESET"
  <2>1. At("goto") BY <1>2 DEF Roaming
  <2>2. GotoTapState BY <2>1 DEF Walk, At
  <2> QED BY <1>2, <2>2, ToResetKeeps
<1>3. CASE Target # "TEST_LOGIC_RESET" /\ At("goto") /\ Unreachable(Target)
  <2>1. Target \in {"EXIT2_DR", "EXIT2_IR"} BY <1>3 DEF Unreachable
  <2>2. Tail(todo) = <<>> BY <1>1, <2>1 DEF Stable
  <2>3. GotoTapState BY <1>3 DEF Walk, At
  <2>4. /\ todo' = Tail(todo) /\ iErrorCode' = "ILLEGALSTATE"
        /\ UNCHANGED <<portVars, ucTapState, info, ucComplete, scan>>
    BY <1>3, <2>3 DEF GotoTapState, Go
  <2>5. Synced' BY <1>3, <2>4 DEF Roaming, Synced, portVars
  <2>6. AtRest' BY <2>2, <2>4, <2>5 DEF AtRest, Rest
  <2>7. TypeOK'
    <3>1. todo' \in Seq(Operations) BY <1>1, <2>4, NoError DEF Going
    <3> QED BY <2>4, <3>1 DEF PlayerInv, TypeOK, portVars
  <2>8. ScanInv' BY <2>4 DEF PlayerInv, ScanInv
  <2>9. ErrorInv' BY <2>2, <2>4 DEF ErrorInv, Idle
  <2> QED BY <2>6, <2>7, <2>8, <2>9 DEF PlayerInv, PhaseInv
<1>4. CASE Target # "TEST_LOGIC_RESET" /\ ~(At("goto") /\ Unreachable(Target))
  <2>1. Target \in Places /\ Synced BY <1>4 DEF Roaming
  <2>2. /\ TypeOK' /\ ScanInv' /\ ErrorInv' /\ Synced' /\ scan' = scan
        /\ Moved \/ Arrived
    BY <1>1, <1>4, <2>1, OnTheWay
  <2>3. CASE Moved
    <3>1. Roaming' BY <1>1, <1>4, <2>1, <2>2, <2>3 DEF Roaming, Moved
    <3> QED BY <2>2, <3>1 DEF PlayerInv, PhaseInv
  <2>4. CASE Arrived
    <3>1. todo' = Tail(todo) /\ tap' = Target
      BY <2>1, <2>4 DEF Arrived, Synced, portVars
    <3>2. CASE Tail(todo) = <<>>
      <4>1. AtRest' BY <2>2, <3>1, <3>2 DEF AtRest, Rest
      <4> QED BY <2>2, <4>1 DEF PlayerInv, PhaseInv
    <3>3. CASE Target \in Stable /\ Waiting(Tail(todo))
      <4>1. InWait' BY <2>2, <3>1, <3>3 DEF InWait
      <4> QED BY <2>2, <4>1 DEF PlayerInv, PhaseInv
    <3> QED BY <1>1, <3>2, <3>3
  <2> QED BY <2>2, <2>3, <2>4
<1> QED BY <1>2, <1>3, <1>4

LEMMA ToEmptyWaitKeeps ==
  ASSUME PlayerInv, GotoTapState \/ Walk, GoingToEmptyWait
  PROVE  PlayerInv'
<1>1. Going /\ Synced /\ Target = "RUN_TEST_IDLE" /\ EmptyWait(Tail(todo)) BY DEF GoingToEmptyWait
<1>2. Target \in Places /\ ~Unreachable(Target) BY <1>1 DEF Places, TapStates, Unreachable
<1>3. /\ TypeOK' /\ ScanInv' /\ ErrorInv' /\ Synced' /\ scan' = scan
      /\ Moved \/ Arrived
  BY <1>1, <1>2, OnTheWay
<1>4. CASE Moved
  <2>1. GoingToEmptyWait' BY <1>1, <1>3, <1>4 DEF GoingToEmptyWait, Moved
  <2> QED BY <1>3, <2>1 DEF PlayerInv, PhaseInv
<1>5. CASE Arrived
  <2>1. todo' = Tail(todo) /\ tap' = Target BY <1>1, <1>5 DEF Arrived, Synced, portVars
  <2>2. InEmptyWait' BY <1>1, <1>3, <2>1 DEF InEmptyWait
  <2> QED BY <1>3, <2>2 DEF PlayerInv, PhaseInv
<1> QED BY <1>3, <1>4, <1>5

(* In a retry the device is left alone until the next capture. *)
LEMMA ToShiftKeeps ==
  ASSUME PlayerInv, GotoTapState \/ Walk, GoingToShift, Compared(scan, scan.repeat)
  PROVE  PlayerInv'
<1>1. /\ Going /\ Synced /\ Target = scan.start /\ ToShift(Tail(todo), scan) /\ ~At("around")
      /\ Retried => \/ tap \in {"RUN_TEST_IDLE", "SELECT_DR_SCAN", "CAPTURE_DR"} /\ rested >= scan.run
                    \/ tap = "SHIFT_DR" /\ heard >= scan.run
  BY DEF GoingToShift
<1>2. scan.start \in {"SHIFT_DR", "SHIFT_IR"} /\ Target \in {"SHIFT_DR", "SHIFT_IR"}
  BY <1>1 DEF PlayerInv, TypeOK, Scans
<1>3. Target \in Places /\ ~Unreachable(Target) BY <1>2 DEF Places, TapStates, Unreachable
<1>4. /\ TypeOK' /\ ScanInv' /\ ErrorInv' /\ Synced' /\ scan' = scan
      /\ \/ Moved /\ UNCHANGED portVars
         \/ /\ Moved /\ (At("around") \/ (At("walk") /\ tap # Target))
            /\ Clock(Turn(tap, Target)[1])
         \/ Arrived
  BY <1>1, <1>3, OnTheWay
<1>5. Retried' = Retried BY <1>4 DEF Retried
<1>6. Retried => Target = "SHIFT_DR"
  <2>1. scan.repeat <= scan.max BY <1>1, NoError DEF Going
  <2>2. Retried => scan.max > 0 BY <2>1 DEF Retried, PlayerInv, TypeOK, Scans
  <2> QED BY <1>1, <2>2 DEF PlayerInv, ScanInv
<1>7. ASSUME Moved,
             Retried' => \/ tap' \in {"RUN_TEST_IDLE", "SELECT_DR_SCAN", "CAPTURE_DR"} /\ rested' >= scan.run
                         \/ tap' = "SHIFT_DR" /\ heard' >= scan.run
      PROVE  PlayerInv'
  <2>1. ~At("around")' BY <1>2, <1>7 DEF Moved
  <2>2. GoingToShift' BY <1>1, <1>4, <1>7, <2>1 DEF GoingToShift, Moved
  <2> QED BY <1>4, <2>2 DEF PlayerInv, PhaseInv, BeforeCompare
<1>8. CASE Moved /\ UNCHANGED portVars BY <1>1, <1>5, <1>7, <1>8 DEF portVars
<1>9. CASE Moved /\ (At("around") \/ (At("walk") /\ tap # Target)) /\ Clock(Turn(tap, Target)[1])
  <2>1. SUFFICES ASSUME Retried
                 PROVE  \/ /\ tap' \in {"RUN_TEST_IDLE", "SELECT_DR_SCAN", "CAPTURE_DR"}
                           /\ rested' >= scan.run
                        \/ tap' = "SHIFT_DR" /\ heard' >= scan.run
    BY <1>5, <1>7, <1>9
  <2>2. Target = "SHIFT_DR" /\ tap # Target BY <1>1, <1>6, <1>9, <2>1
  <2>3. CASE tap = "RUN_TEST_IDLE"
    <3>1. Turn(tap, Target)[1] = 1 BY <2>3 DEF Turn
    <3>2. tap' = "SELECT_DR_SCAN" /\ rested' = rested BY <1>9, <2>3, <3>1 DEF Clock, NextTap, OnHigh
    <3> QED BY <1>1, <2>1, <2>3, <3>2
  <2>4. CASE tap = "SELECT_DR_SCAN"
    <3>1. Turn(tap, Target)[1] = 0 BY <2>2, <2>4 DEF Turn, IRStates, NoState
    <3>2. tap' = "CAPTURE_DR" /\ rested' = rested BY <1>9, <2>4, <3>1 DEF Clock, NextTap, OnLow
    <3> QED BY <1>1, <2>1, <2>4, <3>2
  <2>5. CASE tap = "CAPTURE_DR"
    <3>1. Turn(tap, Target)[1] = 0 BY <2>2, <2>5 DEF Turn
    <3>2. tap' = "SHIFT_DR" /\ heard' = rested BY <1>9, <2>5, <3>1 DEF Clock, NextTap, OnLow
    <3> QED BY <1>1, <2>1, <2>5, <3>2
  <2> QED BY <1>1, <2>1, <2>2, <2>3, <2>4, <2>5
<1>10. CASE Arrived
  <2>1. /\ todo' = Tail(todo) /\ tap' = Target /\ heard' = heard
    BY <1>1, <1>10 DEF Arrived, Synced, portVars
  <2>2. tap = Target BY <1>1, <1>10 DEF Arrived, Synced
  <2>3. Rested' BY <1>1, <1>4, <1>5, <1>6, <2>1, <2>2 DEF Rested, Retried
  <2>4. Shifting' BY <1>1, <1>4, <2>1, <2>3 DEF Shifting
  <2> QED BY <1>4, <2>4 DEF PlayerInv, PhaseInv, BeforeCompare
<1> QED BY <1>4, <1>8, <1>9, <1>10

LEMMA OnwardKeeps ==
  ASSUME PlayerInv, GotoTapState \/ Walk, GoingOn, Compared(scan, scan.repeat + 1)
  PROVE  PlayerInv'
<1>1. /\ Going /\ Exits(scan) /\ Synced
      /\ \/ Target = scan.end /\ Ending(Tail(todo), scan)
         \/ /\ scan.run # 0
            /\ \/ Target = "PAUSE_DR" /\ Detour(Tail(todo), scan)
               \/ Target = "SHIFT_DR" /\ ToIdle(Tail(todo), scan)
               \/ Target = "RUN_TEST_IDLE" /\ ToWait(Tail(todo), scan)
  BY DEF GoingOn
<1>2. Target \in {"RUN_TEST_IDLE", "PAUSE_DR", "PAUSE_IR", "SHIFT_DR"}
  BY <1>1 DEF PlayerInv, ScanInv
<1>3. Target \in Places /\ ~Unreachable(Target) BY <1>2 DEF Places, TapStates, Unreachable
<1>4. /\ TypeOK' /\ ScanInv' /\ ErrorInv' /\ Synced' /\ scan' = scan
      /\ Moved \/ Arrived
  BY <1>1, <1>3, OnTheWay
<1>5. ASSUME GoingOn' PROVE PlayerInv' BY <1>4, <1>5 DEF PlayerInv, PhaseInv, AfterCompare
<1>6. CASE Moved
  <2>1. GoingOn' BY <1>1, <1>4, <1>6 DEF GoingOn, Moved
  <2> QED BY <1>5, <2>1
<1>7. CASE Arrived
  <2>1. todo' = Tail(todo) /\ tap' = Target /\ rested' = rested
    BY <1>1, <1>7 DEF Arrived, Synced, portVars
  <2>2. ASSUME ToIdle(Tail(todo), scan), scan.run # 0 PROVE GoingOn'
    <3>1. /\ todo' # <<>> /\ Head(todo') = Goto("RUN_TEST_IDLE") /\ ToWait(Tail(todo'), scan')
      BY <1>4, <2>1, <2>2 DEF ToIdle, Begins
    <3>2. Going' /\ Target' = "RUN_TEST_IDLE" BY <3>1, Fields DEF Going, Gotos, Target
    <3> QED BY <1>1, <1>4, <2>2, <3>1, <3>2 DEF GoingOn
  <2>3. CASE Target = scan.end /\ Ending(Tail(todo), scan)
    <3>1. CASE scan.run = 0
      <4>1. ToAgain(todo') BY <2>1, <2>3, <3>1 DEF Ending
      <4>2. Decided' BY <1>1, <1>4, <2>1, <2>3, <3>1, <4>1 DEF Decided
      <4> QED BY <1>4, <4>2 DEF PlayerInv, PhaseInv, AfterCompare
    <3>2. CASE scan.run # 0
      <4>1. ToIdle(Tail(todo), scan) BY <2>3, <3>2 DEF Ending
      <4> QED BY <1>5, <2>2, <3>2, <4>1
    <3> QED BY <3>1, <3>2
  <2>4. CASE scan.run # 0 /\ Target = "PAUSE_DR" /\ Detour(Tail(todo), scan)
    <3>1. /\ todo' # <<>> /\ Head(todo') = Goto("SHIFT_DR") /\ ToIdle(Tail(todo'), scan')
      BY <1>4, <2>1, <2>4 DEF Detour, Begins
    <3>2. Going' /\ Target' = "SHIFT_DR" BY <3>1, Fields DEF Going, Gotos, Target
    <3>3. GoingOn' BY <1>1, <1>4, <2>4, <3>1, <3>2 DEF GoingOn
    <3> QED BY <1>5, <3>3
  <2>5. CASE scan.run # 0 /\ Target = "SHIFT_DR" /\ ToIdle(Tail(todo), scan)
    BY <1>5, <2>2, <2>5
  <2>6. CASE scan.run # 0 /\ Target = "RUN_TEST_IDLE" /\ ToWait(Tail(todo), scan)
    <3>1. /\ todo' # <<>> /\ Head(todo').op = "pulse" /\ Head(todo').n = scan.run
          /\ ToAgain(Tail(todo'))
      <4>1. todo' # <<>> /\ Head(todo') = Pulse(scan.run) /\ ToAgain(Tail(todo'))
        BY <2>1, <2>6 DEF ToWait, Begins
      <4>2. Pulse(scan.run).op = "pulse" /\ Pulse(scan.run).n = scan.run BY Fields
      <4> QED BY <4>1, <4>2
    <3>2. rested' + Head(todo').n >= scan'.run
      BY <1>4, <2>1, <3>1 DEF TypeOK, Scans
    <3>3. InRunTest' BY <1>1, <1>4, <2>1, <2>6, <3>1, <3>2 DEF InRunTest, Pulses
    <3> QED BY <1>4, <3>3 DEF PlayerInv, PhaseInv, AfterCompare
  <2> QED BY <1>1, <2>3, <2>4, <2>5, <2>6
<1> QED BY <1>4, <1>6, <1>7

LEMMA GotoKeeps == ASSUME PlayerInv, GotoTapState \/ Walk PROVE PlayerInv'
<1>1. todo # <<>> /\ Head(todo).op \in Gotos BY DEF GotoTapState, Walk, At, Gotos
<1>2. \/ Roaming \/ GoingToEmptyWait
      \/ GoingToShift /\ Compared(scan, scan.repeat)
      \/ GoingOn /\ Compared(scan, scan.repeat + 1)
  BY <1>1, Phases DEF PlayerInv
<1> QED BY <1>2, RoamingKeeps, ToEmptyWaitKeeps, ToShiftKeeps, OnwardKeeps

(* The comparison, and what follows it. *)
LEMMA CompareKeeps == ASSUME PlayerInv, Compare PROVE PlayerInv'
<1>1. /\ todo # <<>> /\ Head(todo).op = "compare" /\ todo' = Tail(todo)
      /\ UNCHANGED <<tap, tms, rested, ucTapState, info, iErrorCode, ucComplete>> /\ heard' = 0
  BY DEF Compare, At, Go
<1>2. PICK m \in BOOLEAN : scan' = [scan EXCEPT !.mismatch = m, !.tried = @ + 1] BY DEF Compare
<1>3. Comparing /\ Compared(scan, scan.repeat) BY <1>1, Phases DEF PlayerInv
<1>4. /\ iErrorCode = "NONE" /\ scan.repeat <= scan.max /\ Tail(todo) \in Seq(Operations)
  BY <1>1, NoError
<1>5. scan \in Scans /\ UChar \in Nat BY PlayerAssumption DEF PlayerInv, TypeOK
<1>6. /\ scan'.start = scan.start /\ scan'.end = scan.end /\ scan'.run = scan.run
      /\ scan'.max = scan.max /\ scan'.repeat = scan.repeat /\ scan'.tried = scan.tried + 1
      /\ scan'.bits = scan.bits
  BY <1>2, <1>5 DEF Scans
<1>7. scan' \in Scans
  <2> DEFINE a == [scan EXCEPT !.mismatch = m]
  <2>1. a \in Scans /\ a.tried = scan.tried BY <1>5 DEF Scans
  <2>2. scan' = [a EXCEPT !.tried = scan.tried + 1] BY <1>2, <1>5 DEF Scans
  <2>3. scan.tried + 1 \in 0..UChar BY <1>3, <1>4, <1>5 DEF Scans, Compared
  <2> HIDE DEF a
  <2> QED BY <2>1, <2>2, <2>3 DEF Scans
<1>8. TypeOK' BY <1>1, <1>4, <1>7 DEF PlayerInv, TypeOK
<1>9. ScanInv' /\ ErrorInv' BY <1>1, <1>4, <1>6 DEF PlayerInv, ScanInv, ErrorInv, Exits
<1>10. CASE Exits(scan)
  <2>1. Exiting' BY <1>1, <1>3, <1>6, <1>10 DEF Comparing, ToCompare, Exiting, Exits
  <2> QED BY <1>3, <1>6, <1>8, <1>9, <2>1 DEF PlayerInv, PhaseInv, AfterCompare, Compared
<1>11. CASE ~Exits(scan)
  <2>1. ToAgain(todo') /\ Synced' BY <1>1, <1>3, <1>11 DEF Comparing, ToCompare, Synced
  <2>2. tap' = scan'.end /\ ~Exits(scan')
    BY <1>1, <1>3, <1>6, <1>11 DEF Comparing, Synced, Exits
  <2>3. Decided' BY <2>1, <2>2 DEF Decided
  <2> QED BY <1>3, <1>6, <1>8, <1>9, <2>3 DEF PlayerInv, PhaseInv, AfterCompare, Compared
<1> QED BY <1>10, <1>11

LEMMA ExitKeeps == ASSUME PlayerInv, Exit PROVE PlayerInv'
<1>1. /\ todo # <<>> /\ Head(todo).op = "exit" /\ todo' = Tail(todo) /\ Go
      /\ UNCHANGED <<tap, tms, rested, heard, info, iErrorCode, ucComplete, scan>>
      /\ ucTapState' = ExitOf(scan.start)
  BY DEF Exit, At, Go, portVars, ExitOf
<1>2. Exiting /\ Compared(scan, scan.repeat + 1) BY <1>1, Phases DEF PlayerInv
<1>3. ucTapState' \in TapStates BY <1>1 DEF ExitOf, TapStates
<1>4. TypeOK' /\ ScanInv' /\ ErrorInv' BY <1>1, <1>3, Taken
<1>5. Left' BY <1>1, <1>2 DEF Exiting, ToExit, Left
<1> QED BY <1>1, <1>2, <1>4, <1>5 DEF PlayerInv, PhaseInv, AfterCompare

-----------------------------------------------------------------------------
(* What a scan sets out to do. *)
LEMMA Joint ==
  ASSUME NEW a \in Seq(Operations), NEW b \in Seq(Operations), NEW c \in Seq(Operations)
  PROVE  (a \o b) \o c = a \o (b \o c)
OBVIOUS
LEMMA EmptyJoint ==
  ASSUME NEW a \in Seq(Operations)
  PROVE  <<>> \o a = a /\ a \o <<>> = a
OBVIOUS

LEMMA Attempts ==
  ASSUME NEW sc \in Scans, sc.bits # 0, NEW r \in Seq(Operations), Rest(r)
  PROVE  /\ Attempt(sc) \o r \in Seq(Operations) /\ Attempt(sc) \o r # <<>>
         /\ Head(Attempt(sc) \o r) = Goto(sc.start)
         /\ ToShift(Tail(Attempt(sc) \o r), sc)
<1>1. sc.bits \in Nat /\ sc.bits - 1 \in Nat /\ sc.start \in TapStates
  BY DEF Scans, TapStates
<1>2. /\ Goto(sc.start) \in Operations /\ Pulse(sc.bits - 1) \in Operations
      /\ Pulse(sc.bits) \in Operations /\ Pulse(1) \in Operations
      /\ Op("raise") \in Operations /\ Op("compare") \in Operations /\ Op("exit") \in Operations
      /\ Op("leave") \in Operations /\ Op("again") \in Operations
  BY <1>1, Kinds
<1> DEFINE g == <<Goto(sc.start)>>
           e == <<Op("again")>>
<1>3. /\ g \in Seq(Operations) /\ g # <<>> /\ Head(g) = Goto(sc.start) /\ Tail(g) = <<>>
  BY <1>2, Single
<1>4. ToAgain(e \o r)
  BY <1>2, Consed DEF ToAgain, Begins
<1> HIDE DEF g, e
<1>5. ASSUME NEW q \in Seq(Operations), q # <<>>, Attempt(sc) = g \o q, ToShift(q \o r, sc)
      PROVE  /\ Attempt(sc) \o r \in Seq(Operations) /\ Attempt(sc) \o r # <<>>
             /\ Head(Attempt(sc) \o r) = Goto(sc.start)
             /\ ToShift(Tail(Attempt(sc) \o r), sc)
  <2>1. q \o r \in Seq(Operations) BY <1>5
  <2>2. Attempt(sc) \o r = g \o (q \o r) 
    <3>1. (g \o q) \o r = g \o (q \o r) BY <1>3, <1>5, Joint
    <3> QED BY <1>5, <3>1
  <2>3. <<>> \o (q \o r) = q \o r BY <2>1, EmptyJoint
  <2>4. /\ g \o (q \o r) \in Seq(Operations) /\ g \o (q \o r) # <<>>
        /\ Head(g \o (q \o r)) = Head(g) /\ Tail(g \o (q \o r)) = Tail(g) \o (q \o r)
    BY <1>3, <2>1, Prefixed
  <2> QED BY <1>3, <1>5, <2>2, <2>3, <2>4
<1>6. CASE Exits(sc)
  <2> DEFINE q1 == <<Pulse(sc.bits - 1), Op("raise"), Pulse(1), Op("compare"), Op("exit"),
                     Op("leave"), Op("again")>>
             q2 == <<Op("raise"), Pulse(1), Op("compare"), Op("exit"), Op("leave"), Op("again")>>
             q3 == <<Pulse(1), Op("compare"), Op("exit"), Op("leave"), Op("again")>>
             q4 == <<Op("compare"), Op("exit"), Op("leave"), Op("again")>>
             q5 == <<Op("exit"), Op("leave"), Op("again")>>
             q6 == <<Op("leave"), Op("again")>>
  <2>1. /\ q1 \in Seq(Operations) /\ q1 # <<>> /\ Head(q1) = Pulse(sc.bits - 1) /\ Tail(q1) = q2
        /\ q2 \in Seq(Operations) /\ q2 # <<>> /\ Head(q2) = Op("raise") /\ Tail(q2) = q3
        /\ q3 \in Seq(Operations) /\ q3 # <<>> /\ Head(q3) = Pulse(1) /\ Tail(q3) = q4
    BY <1>2
  <2>2. /\ q4 \in Seq(Operations) /\ q4 # <<>> /\ Head(q4) = Op("compare") /\ Tail(q4) = q5
        /\ q5 \in Seq(Operations) /\ q5 # <<>> /\ Head(q5) = Op("exit") /\ Tail(q5) = q6
        /\ q6 \in Seq(Operations) /\ q6 # <<>> /\ Head(q6) = Op("leave") /\ Tail(q6) = e
    BY <1>2 DEF e
  <2>3. Attempt(sc) = g \o q1 BY <1>6 DEF Attempt, g
  <2> HIDE DEF q1, q2, q3, q4, q5, q6
  <2>4. ToLeave(q6 \o r) BY <1>4, <2>2, Prefixed DEF ToLeave, Begins
  <2>5. ToExit(q5 \o r) BY <2>2, <2>4, Prefixed DEF ToExit, Begins
  <2>6. ToCompare(q4 \o r, sc) BY <1>6, <2>2, <2>5, Prefixed DEF ToCompare, Begins
  <2>7. LastBit(q3 \o r, sc) /\ Head(q3 \o r).n = 1
    <3>1. q3 \o r # <<>> /\ Head(q3 \o r) = Pulse(1) /\ Tail(q3 \o r) = q4 \o r
      BY <2>1, <2>2, Prefixed
    <3>2. Head(q3 \o r).n = 1 /\ Head(q3 \o r).op = "pulse" BY <3>1, Fields
    <3> QED BY <2>6, <3>1, <3>2 DEF LastBit, Pulses
  <2>8. ToRaise(q2 \o r, sc)
    <3>1. q2 \o r # <<>> /\ Head(q2 \o r) = Op("raise") /\ Tail(q2 \o r) = q3 \o r
      BY <2>1, Prefixed
    <3> QED BY <2>7, <3>1 DEF ToRaise, Begins
  <2>9. ToShift(q1 \o r, sc)
    <3>1. q1 \o r # <<>> /\ Head(q1 \o r) = Pulse(sc.bits - 1) /\ Tail(q1 \o r) = q2 \o r
      BY <2>1, Prefixed
    <3>2. Pulse(sc.bits - 1).op = "pulse" BY Fields
    <3>3. Pulses(q1 \o r) BY <3>1, <3>2 DEF Pulses
    <3> QED BY <1>6, <2>8, <3>1, <3>3 DEF ToShift
  <2> QED BY <1>5, <2>1, <2>3, <2>9
<1>7. CASE ~Exits(sc)
  <2> DEFINE q1 == <<Pulse(sc.bits), Op("compare"), Op("again")>>
             q2 == <<Op("compare"), Op("again")>>
  <2>1. /\ q1 \in Seq(Operations) /\ q1 # <<>> /\ Head(q1) = Pulse(sc.bits) /\ Tail(q1) = q2
        /\ q2 \in Seq(Operations) /\ q2 # <<>> /\ Head(q2) = Op("compare") /\ Tail(q2) = e
    BY <1>2 DEF e
  <2>2. Attempt(sc) = g \o q1 BY <1>7 DEF Attempt, g
  <2> HIDE DEF q1, q2
  <2>3. ToCompare(q2 \o r, sc) BY <1>4, <1>7, <2>1, Prefixed DEF ToCompare, Begins
  <2>4. ToShift(q1 \o r, sc)
    <3>1. q1 \o r # <<>> /\ Head(q1 \o r) = Pulse(sc.bits) /\ Tail(q1 \o r) = q2 \o r
      BY <2>1, Prefixed
    <3>2. Pulse(sc.bits).op = "pulse" BY Fields
    <3>3. Pulses(q1 \o r) BY <3>1, <3>2 DEF Pulses
    <3> QED BY <1>7, <2>3, <3>1, <3>3 DEF ToShift
  <2> QED BY <1>5, <2>1, <2>2, <2>4
<1> QED BY <1>6, <1>7

LEMMA RunTests ==
  ASSUME NEW n \in Nat, n # 0, NEW r \in Seq(Operations)
  PROVE  /\ RunTest(n) \in Seq(Operations)
         /\ RunTest(n) \o r \in Seq(Operations) /\ RunTest(n) \o r # <<>>
         /\ Head(RunTest(n) \o r) = Goto("RUN_TEST_IDLE")
         /\ Tail(RunTest(n) \o r) # <<>> /\ Head(Tail(RunTest(n) \o r)) = Pulse(n)
         /\ Tail(Tail(RunTest(n) \o r)) = r
<1>1. Goto("RUN_TEST_IDLE") \in Operations /\ Pulse(n) \in Operations
  BY Kinds DEF TapStates
<1> DEFINE a == <<Goto("RUN_TEST_IDLE"), Pulse(n)>>
           b == <<Pulse(n)>>
<1>2. /\ a \in Seq(Operations) /\ a # <<>> /\ Head(a) = Goto("RUN_TEST_IDLE") /\ Tail(a) = b
      /\ b \in Seq(Operations)
  BY <1>1
<1>3. RunTest(n) = a BY DEF RunTest
<1>4. b \o r # <<>> /\ Head(b \o r) = Pulse(n) /\ Tail(b \o r) = r BY <1>1, Consed
<1> HIDE DEF a, b
<1> QED BY <1>2, <1>3, <1>4, Prefixed

(* What is to be shifted depends on the scan only by whether it exits. *)
LEMMA SameShift ==
  ASSUME NEW a, NEW b, Exits(a) <=> Exits(b), NEW t, ToShift(t, a)
  PROVE  ToShift(t, b)
BY DEF ToShift, ToRaise, LastBit, ToCompare

LEMMA LeaveKeeps == ASSUME PlayerInv, Leave PROVE PlayerInv'
<1> DEFINE detour == scan.mismatch /\ scan.run # 0 /\ scan.repeat < scan.max
           run == IF detour THEN scan.run + scan.run \div 4 ELSE scan.run
           way == IF detour THEN <<Goto("PAUSE_DR"), Goto("SHIFT_DR")>> ELSE <<Goto(scan.end)>>
           q == RunTest(run) \o Tail(todo)
<1>1. /\ todo # <<>> /\ Head(todo).op = "leave"
      /\ UNCHANGED <<tap, tms, rested, heard, ucTapState, info, iErrorCode, ucComplete>>
      /\ scan' = [scan EXCEPT !.run = run]
      /\ todo' = (way \o RunTest(run)) \o Tail(todo)
  BY DEF Leave, At, portVars
<1>2. Left /\ Compared(scan, scan.repeat + 1) BY <1>1, Phases DEF PlayerInv
<1>3. /\ iErrorCode = "NONE" /\ Tail(todo) \in Seq(Operations) /\ ToAgain(Tail(todo))
  BY <1>1, <1>2, NoError DEF Left, ToLeave
<1>4. scan \in Scans /\ scan.run \in Nat /\ scan.end \in TapStates
  BY DEF PlayerInv, TypeOK, Scans
<1>5. run \in Nat /\ (run = 0 <=> scan.run = 0) BY <1>4
<1>6. scan' \in Scans /\ scan'.run = run /\ scan'.start = scan.start /\ scan'.end = scan.end
      /\ scan'.max = scan.max /\ scan'.repeat = scan.repeat /\ scan'.tried = scan.tried
      /\ scan'.bits = scan.bits
  <2> HIDE DEF run
  <2> QED BY <1>1, <1>4, <1>5 DEF Scans
<1>7. /\ Goto("PAUSE_DR") \in Operations /\ Goto("SHIFT_DR") \in Operations
      /\ Goto(scan.end) \in Operations
  BY <1>4, Kinds DEF TapStates
<1>8. RunTest(run) \in Seq(Operations) /\ q \in Seq(Operations) /\ Ending(q, scan')
  <2> HIDE DEF run
  <2>1. CASE run = 0
    <3>1. RunTest(run) = <<>> BY <2>1 DEF RunTest
    <3>2. <<>> \in Seq(Operations) /\ q = Tail(todo) BY <1>3, <3>1, EmptyJoint
    <3> QED BY <1>3, <1>6, <2>1, <3>1, <3>2 DEF Ending
  <2>2. CASE run # 0
    <3>1. /\ RunTest(run) \in Seq(Operations) /\ q \in Seq(Operations) /\ q # <<>>
          /\ Head(q) = Goto("RUN_TEST_IDLE") /\ Tail(q) # <<>>
          /\ Head(Tail(q)) = Pulse(run) /\ Tail(Tail(q)) = Tail(todo)
      BY <1>3, <1>5, <2>2, RunTests
    <3> HIDE DEF q
    <3> QED BY <1>3, <1>6, <2>2, <3>1 DEF Ending, ToIdle, ToWait, Begins
  <2> QED BY <2>1, <2>2
<1>9. way \in Seq(Operations) /\ todo' = way \o q
  <2>1. way \in Seq(Operations) BY <1>7
  <2> HIDE DEF way, run
  <2> QED BY <1>1, <1>3, <1>8, <2>1, Joint
<1>10. Synced' /\ Exits(scan')
  BY <1>1, <1>2, <1>4, <1>6 DEF Left, Synced, ExitOf, Stable, Exits
<1> HIDE DEF q, run
<1>11. CASE detour
  <2> DEFINE a == <<Goto("PAUSE_DR"), Goto("SHIFT_DR")>>
             b == <<Goto("SHIFT_DR")>>
  <2>1. /\ a \in Seq(Operations) /\ a # <<>> /\ Head(a) = Goto("PAUSE_DR") /\ Tail(a) = b
    BY <1>7
  <2>2. b \o q # <<>> /\ Head(b \o q) = Goto("SHIFT_DR") /\ Tail(b \o q) = q
    BY <1>7, <1>8, Consed
  <2>3. way = a BY <1>11
  <2> HIDE DEF a, b, way
  <2>4. /\ todo' \in Seq(Operations) /\ todo' # <<>>
        /\ Head(todo') = Goto("PAUSE_DR") /\ Tail(todo') = b \o q
    BY <1>8, <1>9, <2>1, <2>3, Prefixed
  <2>5. Going' /\ Target' = "PAUSE_DR" BY <2>4, Fields DEF Going, Gotos, Target
  <2>6. scan'.run # 0 BY <1>5, <1>6, <1>11
  <2>7. Detour(Tail(todo'), scan') BY <1>8, <2>2, <2>4, <2>6 DEF Detour, Begins, Ending
  <2>8. GoingOn' BY <1>10, <2>5, <2>6, <2>7 DEF GoingOn
  <2>9. TypeOK' BY <1>1, <1>6, <2>4 DEF PlayerInv, TypeOK
  <2>10. ScanInv' /\ ErrorInv' BY <1>1, <1>3, <1>6, <1>10 DEF PlayerInv, ScanInv, ErrorInv
  <2> QED BY <1>2, <1>6, <2>8, <2>9, <2>10 DEF PlayerInv, PhaseInv, AfterCompare, Compared
<1>12. CASE ~detour
  <2>1. way = <<Goto(scan.end)>> BY <1>12
  <2> HIDE DEF way
  <2>2. /\ todo' \in Seq(Operations) /\ todo' # <<>>
        /\ Head(todo') = Goto(scan.end) /\ Tail(todo') = q
    BY <1>7, <1>8, <1>9, <2>1, Consed
  <2>3. Going' /\ Target' = scan'.end BY <1>6, <2>2, Fields DEF Going, Gotos, Target
  <2>4. GoingOn' BY <1>8, <1>10, <2>2, <2>3 DEF GoingOn
  <2>5. TypeOK' BY <1>1, <1>6, <2>2 DEF PlayerInv, TypeOK
  <2>6. ScanInv' /\ ErrorInv' BY <1>1, <1>3, <1>6, <1>10 DEF PlayerInv, ScanInv, ErrorInv
  <2> QED BY <1>2, <1>6, <2>4, <2>5, <2>6 DEF PlayerInv, PhaseInv, AfterCompare, Compared
<1> QED BY <1>11, <1>12

(* A mismatch is tried again, or reported. *)
LEMMA AgainKeeps == ASSUME PlayerInv, Again PROVE PlayerInv'
<1> DEFINE repeat == IF scan.mismatch THEN (scan.repeat + 1) % UChar ELSE scan.repeat
           retry == scan.mismatch /\ scan.repeat < scan.max
<1>1. /\ todo # <<>> /\ Head(todo).op = "again"
      /\ UNCHANGED <<tap, tms, rested, heard, ucTapState, info, ucComplete>>
      /\ scan' = [scan EXCEPT !.repeat = repeat]
  BY DEF Again, At, portVars
<1>2. Decided /\ Compared(scan, scan.repeat + 1) BY <1>1, Phases DEF PlayerInv
<1>3. /\ iErrorCode = "NONE" /\ scan.repeat <= scan.max
      /\ Tail(todo) \in Seq(Operations) /\ Rest(Tail(todo))
  BY <1>1, <1>2, NoError DEF Decided, ToAgain
<1>4. /\ scan \in Scans /\ scan.run \in Nat /\ UChar \in Nat /\ UChar > 0
      /\ scan.repeat \in 0..(UChar - 1) /\ scan.max \in 0..(UChar - 1) /\ scan.bits \in Nat
  BY PlayerAssumption DEF PlayerInv, TypeOK, Scans
<1>5. repeat \in 0..(UChar - 1)
  <2>1. \A n \in Nat : n % UChar \in 0..(UChar - 1) BY <1>4
  <2> QED BY <1>4, <2>1
<1>6. scan' \in Scans /\ scan'.run = scan.run /\ scan'.start = scan.start /\ scan'.end = scan.end
      /\ scan'.max = scan.max /\ scan'.repeat = repeat /\ scan'.tried = scan.tried
      /\ scan'.bits = scan.bits
  <2> HIDE DEF repeat
  <2> QED BY <1>1, <1>4, <1>5 DEF Scans
<1>7. Synced' BY <1>1, <1>2 DEF Decided, Synced
<1>8. Exits(scan') <=> Exits(scan) BY <1>6 DEF Exits
<1>9. CASE scan.mismatch /\ ~retry
  <2>1. /\ iErrorCode' = IF scan.max # 0 /\ repeat > scan.max THEN "MAXRETRIES" ELSE "TDOMISMATCH"
        /\ todo' = <<>>
    BY <1>9 DEF Again
  <2>2. AtRest' BY <1>7, <2>1 DEF AtRest, Rest
  <2>3. todo' \in Seq(Operations) BY <2>1
  <2>4. TypeOK'
    <3>1. iErrorCode' \in {"MAXRETRIES", "TDOMISMATCH"} BY <2>1
    <3> QED BY <1>1, <1>6, <2>3, <3>1 DEF PlayerInv, TypeOK
  <2>5. scan.repeat = scan.max BY <1>3, <1>4, <1>9
  <2>6. scan.max # 0 /\ repeat > scan.max <=> scan.max \in 1..(UChar - 2)
    <3>1. CASE scan.max = UChar - 1
      <4>1. (scan.repeat + 1) % UChar = 0 BY <1>4, <2>5, <3>1
      <4>2. ~(repeat > scan.max) BY <1>4, <1>9, <4>1
      <4> QED BY <1>4, <3>1, <4>2
    <3>2. CASE scan.max # UChar - 1
      <4>1. scan.repeat + 1 \in 0..(UChar - 1) BY <1>4, <2>5, <3>2
      <4>2. \A n \in 0..(UChar - 1) : n % UChar = n BY <1>4
      <4>3. repeat = scan.max + 1 BY <1>9, <2>5, <4>1, <4>2
      <4> QED BY <1>4, <3>2, <4>3
    <3> QED BY <3>1, <3>2
  <2>7. scan'.tried = scan'.max + 1 BY <1>2, <1>6, <2>5 DEF Compared
  <2>8. ErrorInv' BY <1>6, <2>1, <2>6, <2>7 DEF ErrorInv, Idle
  <2>9. ScanInv' BY <1>6, <1>8, <2>1 DEF PlayerInv, ScanInv
  <2> QED BY <2>2, <2>4, <2>8, <2>9 DEF PlayerInv, PhaseInv
<1>10. CASE retry
  <2>1. /\ todo' = Attempt(scan) \o Tail(todo) /\ iErrorCode' = iErrorCode
    BY <1>10 DEF Again
  <2>2. /\ todo' \in Seq(Operations) /\ todo' # <<>> /\ Head(todo') = Goto(scan.start)
        /\ ToShift(Tail(todo'), scan)
    BY <1>2, <1>3, <1>4, <2>1, Attempts DEF Compared
  <2>3. ToShift(Tail(todo'), scan') BY <1>8, <2>2, SameShift
  <2>4. Head(todo').op = "goto" /\ Target' = scan'.start BY <1>6, <2>2, Fields DEF Target
  <2>5. Going' /\ ~At("around")' BY <2>2, <2>4 DEF Going, Gotos, At
  <2>6. repeat = scan.repeat + 1
    <3>1. scan.repeat + 1 \in 0..(UChar - 1) BY <1>4, <1>10
    <3>2. \A n \in 0..(UChar - 1) : n % UChar = n BY <1>4
    <3> QED BY <1>10, <3>1, <3>2
  <2>7. Retried' => tap' = "RUN_TEST_IDLE" /\ rested' >= scan'.run
    <3>1. Retried' => scan.run # 0 BY <1>4, <1>6 DEF Retried
    <3>2. scan.run # 0 => Exits(scan) BY DEF PlayerInv, ScanInv
    <3> QED BY <1>1, <1>2, <1>6, <3>1, <3>2 DEF Decided
  <2>8. GoingToShift' BY <1>7, <2>3, <2>4, <2>5, <2>7 DEF GoingToShift
  <2>9. Compared(scan', scan'.repeat) BY <1>2, <1>6, <2>6 DEF Compared
  <2>10. TypeOK' BY <1>1, <1>6, <2>1, <2>2 DEF PlayerInv, TypeOK
  <2>11. scan'.repeat <= scan'.max BY <1>4, <1>6, <1>10, <2>6
  <2>12. ScanInv' /\ ErrorInv' BY <1>3, <1>6, <1>8, <2>1, <2>11 DEF PlayerInv, ScanInv, ErrorInv
  <2> QED BY <2>8, <2>9, <2>10, <2>12 DEF PlayerInv, PhaseInv, BeforeCompare
<1>11. CASE ~scan.mismatch
  <2>1. todo' = <<>> \o Tail(todo) /\ iErrorCode' = iErrorCode BY <1>11 DEF Again
  <2>2. todo' = Tail(todo) BY <1>3, <2>1, EmptyJoint
  <2>3. AtRest' BY <1>3, <1>7, <2>2 DEF AtRest
  <2>4. TypeOK' BY <1>1, <1>3, <1>6, <2>1, <2>2 DEF PlayerInv, TypeOK
  <2>5. scan'.repeat = scan.repeat BY <1>6, <1>11
  <2>6. ScanInv' /\ ErrorInv' BY <1>3, <1>6, <1>8, <2>1, <2>5 DEF PlayerInv, ScanInv, ErrorInv
  <2> QED BY <2>3, <2>4, <2>6 DEF PlayerInv, PhaseInv
<1> QED BY <1>9, <1>10, <1>11

-----------------------------------------------------------------------------
(* The commands.  A scan as a command starts it. *)
Fresh(sc) ==
  /\ sc \in Scans /\ sc.repeat = 0 /\ sc.tried = 0
  /\ ~Exits(sc) => sc.run = 0
  /\ sc.max > 0 => sc.start = "SHIFT_DR"
  /\ sc.end \in {"RUN_TEST_IDLE", "PAUSE_DR", "PAUSE_IR", "SHIFT_DR"}

LEMMA Freshened ==
  ASSUME NEW start \in {"SHIFT_DR", "SHIFT_IR"},
         NEW end \in {"RUN_TEST_IDLE", "PAUSE_DR", "PAUSE_IR", "SHIFT_DR"},
         NEW bits \in Nat, NEW expect \in BOOLEAN, NEW run \in Nat, NEW max \in 0..(UChar - 1),
         start = end => run = 0, max > 0 => start = "SHIFT_DR"
  PROVE  Fresh(Scan(start, end, bits, expect, run, max))
<1> SUFFICES ASSUME NEW sc, sc = Scan(start, end, bits, expect, run, max) PROVE Fresh(sc)
  OBVIOUS
<1>1. /\ sc.start = start /\ sc.end = end /\ sc.run = run /\ sc.max = max
      /\ sc.repeat = 0 /\ sc.tried = 0
  BY DEF Scan
<1>2. UChar \in Nat /\ 0 \in 0..(UChar - 1) /\ 0 \in 0..UChar BY PlayerAssumption
<1>3. end \in TapStates BY DEF TapStates
<1>4. sc \in Scans BY <1>2, <1>3 DEF Scan, Scans
<1>5. Exits(sc) <=> start # end BY <1>1 DEF Exits
<1> QED BY <1>1, <1>4, <1>5 DEF Fresh

LEMMA FreshScans ==
  ASSUME TypeOK
  PROVE  /\ Fresh(NoScan) /\ Fresh(DRScan) /\ \A n \in Lengths : Fresh(IRScan(n))
         /\ \A end \in {"SHIFT_DR", info.ucEndDR}, expect \in BOOLEAN :
              Fresh(PlainScan(end, expect))
<1>1. /\ info.ucMaxRepeat \in 0..(UChar - 1) /\ 0 \in 0..(UChar - 1)
      /\ info.lRunTestTime \in Nat /\ info.lShiftLengthBits \in Nat
      /\ info.ucEndIR \in {"RUN_TEST_IDLE", "PAUSE_IR"}
      /\ info.ucEndDR \in {"RUN_TEST_IDLE", "PAUSE_DR"}
  BY PlayerAssumption DEF TypeOK
<1>2. Fresh(NoScan) BY <1>1, Freshened DEF NoScan
<1>3. Fresh(DRScan) BY <1>1, Freshened DEF DRScan
<1>4. ASSUME NEW n \in Lengths PROVE Fresh(IRScan(n))
  <2>1. n \in Nat /\ FALSE \in BOOLEAN /\ ~(0 > 0) BY PlayerAssumption
  <2>2. "SHIFT_IR" \in {"SHIFT_DR", "SHIFT_IR"} /\ "SHIFT_IR" # info.ucEndIR BY <1>1
  <2>3. info.ucEndIR \in {"RUN_TEST_IDLE", "PAUSE_DR", "PAUSE_IR", "SHIFT_DR"} BY <1>1
  <2>4. Fresh(Scan("SHIFT_IR", info.ucEndIR, n, FALSE, info.lRunTestTime, 0))
    BY <1>1, <2>1, <2>2, <2>3, Freshened
  <2> QED BY <2>4 DEF IRScan
<1>5. ASSUME NEW end \in {"SHIFT_DR", info.ucEndDR}, NEW expect \in BOOLEAN
      PROVE  Fresh(PlainScan(end, expect))
  <2>1. end \in {"RUN_TEST_IDLE", "PAUSE_DR", "PAUSE_IR", "SHIFT_DR"} BY <1>1
  <2> QED BY <1>1, <2>1, Freshened DEF PlainScan
<1> QED BY <1>2, <1>3, <1>4, <1>5

(* A scan begins from a state at rest, and leaves the rest of the command.    *)
Started(sc, ops) ==
  /\ iErrorCode = "NONE" /\ scan' = sc /\ todo' = ops /\ rested' = 0 /\ heard' = 0
  /\ UNCHANGED <<tap, tms, ucTapState, info, iErrorCode, ucComplete>>

LEMMA StartedFacts ==
  ASSUME PlayerInv, Synced, NEW sc, Fresh(sc), NEW ops, Started(sc, ops)
  PROVE  /\ Synced' /\ scan' = sc /\ todo' = ops /\ ScanInv' /\ ErrorInv'
         /\ sc \in Scans /\ sc.bits \in Nat /\ sc.run \in Nat
         /\ ops \in Seq(Operations) => TypeOK'
<1>1. sc \in Scans /\ sc.bits \in Nat /\ sc.run \in Nat BY DEF Fresh, Scans
<1>2. 0 <= sc.max BY <1>1 DEF Scans
<1>3. Synced' /\ scan' = sc /\ todo' = ops BY DEF Started, Synced
<1>4. sc.repeat <= sc.max BY <1>2 DEF Fresh
<1>5. ScanInv' BY <1>3, <1>4 DEF ScanInv, Fresh
<1>6. ErrorInv' BY DEF ErrorInv, Started
<1>7. ops \in Seq(Operations) => TypeOK' BY <1>1, <1>3 DEF PlayerInv, TypeOK, Started
<1> QED BY <1>1, <1>3, <1>5, <1>6, <1>7

LEMMA Begun ==
  ASSUME PlayerInv, Synced, NEW sc, Fresh(sc), NEW r \in Seq(Operations), Rest(r),
         Started(sc, xsvfShift(sc) \o r)
  PROVE  PlayerInv'
<1>1. /\ Synced' /\ scan' = sc /\ todo' = xsvfShift(sc) \o r /\ ScanInv' /\ ErrorInv'
      /\ sc \in Scans /\ sc.bits \in Nat /\ sc.run \in Nat
      /\ todo' \in Seq(Operations) => TypeOK'
  BY StartedFacts
<1>2. CASE sc.bits = 0 /\ sc.run = 0
  <2>1. todo' = <<>> \o r BY <1>1, <1>2 DEF xsvfShift, RunTest
  <2>2. todo' = r BY <2>1, EmptyJoint
  <2>3. AtRest' BY <1>1, <2>2 DEF AtRest
  <2> QED BY <1>1, <2>2, <2>3 DEF PlayerInv, PhaseInv
<1>3. CASE sc.bits = 0 /\ sc.run # 0
  <2>1. todo' = RunTest(sc.run) \o r BY <1>1, <1>3 DEF xsvfShift
  <2>2. /\ todo' \in Seq(Operations) /\ todo' # <<>> /\ Head(todo') = Goto("RUN_TEST_IDLE")
        /\ Tail(todo') # <<>> /\ Head(Tail(todo')) = Pulse(sc.run) /\ Tail(Tail(todo')) = r
    <3>1. sc.run \in Nat /\ sc.run # 0 BY <1>1, <1>3
    <3> QED BY <2>1, <3>1, RunTests
  <2>3. Going' /\ Target' = "RUN_TEST_IDLE" BY <2>2, Fields DEF Going, Gotos, Target
  <2>4. EmptyWait(Tail(todo'))
    <3>1. Pulse(sc.run).op = "pulse" BY Fields
    <3> QED BY <2>2, <3>1 DEF EmptyWait, Pulses
  <2>5. GoingToEmptyWait' BY <1>1, <2>3, <2>4 DEF GoingToEmptyWait
  <2> QED BY <1>1, <2>2, <2>5 DEF PlayerInv, PhaseInv
<1>4. CASE sc.bits # 0
  <2>1. todo' = Attempt(sc) \o r BY <1>1, <1>4 DEF xsvfShift
  <2>2. /\ todo' \in Seq(Operations) /\ todo' # <<>> /\ Head(todo') = Goto(sc.start)
        /\ ToShift(Tail(todo'), sc)
    BY <1>1, <1>4, <2>1, Attempts
  <2>3. Head(todo').op = "goto" /\ Target' = scan'.start
    <3>1. Goto(sc.start).op = "goto" /\ Goto(sc.start).to = sc.start BY Fields
    <3>2. Head(todo').op = "goto" /\ Head(todo').to = sc.start BY <2>2, <3>1
    <3> QED BY <1>1, <3>2 DEF Target
  <2>4. Going' /\ ~At("around")' BY <2>2, <2>3 DEF Going, Gotos, At
  <2>5. ~Retried' BY <1>1 DEF Retried, Fresh
  <2>6. GoingToShift' BY <1>1, <2>2, <2>3, <2>4, <2>5 DEF GoingToShift
  <2>7. Compared(scan', scan'.repeat) BY <1>1, <1>4 DEF Compared, Fresh
  <2> QED BY <1>1, <2>2, <2>6, <2>7 DEF PlayerInv, PhaseInv, BeforeCompare
<1> QED BY <1>2, <1>3, <1>4

LEMMA IdleAtRest == ASSUME PlayerInv, todo = <<>> PROVE Synced
<1>1. AtRest
  BY DEF PlayerInv, PhaseInv, BeforeCompare, AfterCompare, Roaming, Raising, Resetting, WasReset,
         InWait, GoingToEmptyWait, InEmptyWait, GoingToShift, Shifting, RaisingLast, ShiftingLast,
         Comparing, Exiting, Left, GoingOn, InRunTest, Decided, Going, Begins, Pulses, Waiting,
         EmptyWait, ToShift, ToRaise, LastBit, ToCompare, ToExit, ToLeave, ToAgain, ToReset
<1> QED BY <1>1 DEF AtRest

(* The commands that only change a setting, end the file or fail. *)
LEMMA SetKeeps ==
  ASSUME PlayerInv, Idle, UNCHANGED <<portVars, ucTapState, todo, scan>>,
         TypeOK', ErrorInv', scan.repeat <= scan.max
  PROVE  PlayerInv'
<1>1. todo' = <<>> /\ Synced' BY IdleAtRest DEF Idle, Synced, portVars
<1>2. AtRest' BY <1>1 DEF AtRest, Rest
<1>3. ScanInv' BY DEF PlayerInv, ScanInv
<1> QED BY <1>2, <1>3 DEF PlayerInv, PhaseInv

LEMMA SettingKeeps ==
  ASSUME PlayerInv,
         XCOMPLETE \/ XRUNTEST \/ XREPEAT \/ XSDRSIZE \/ XENDXR \/ Refused
  PROVE  PlayerInv'
<1>1. TypeOK /\ xsvfRun /\ Idle /\ scan.repeat <= scan.max
  BY DEF PlayerInv, ScanInv, xsvfRun, XCOMPLETE, XRUNTEST, XREPEAT, XSDRSIZE, XENDXR,
         Refused, Set, Fail
<1>2. CASE XCOMPLETE
  <2>1. TypeOK' BY <1>1, <1>2 DEF XCOMPLETE, TypeOK, portVars
  <2>2. ErrorInv' BY <1>1, <1>2 DEF XCOMPLETE, ErrorInv, xsvfRun
  <2> QED BY <1>1, <1>2, <2>1, <2>2, SetKeeps DEF XCOMPLETE
<1>3. CASE XRUNTEST \/ XREPEAT \/ XSDRSIZE \/ XENDXR
  <2>1. PICK f, p :
          /\ f \in {"lRunTestTime", "ucMaxRepeat", "lShiftLengthBits", "ucEndIR", "ucEndDR"}
          /\ Set(f, p)
          /\ f = "lRunTestTime" => p \in RunTimes
          /\ f = "ucMaxRepeat" => p \in Repeats
          /\ f = "lShiftLengthBits" => p \in Lengths
          /\ f = "ucEndIR" => p \in {"RUN_TEST_IDLE", "PAUSE_IR"}
          /\ f = "ucEndDR" => p \in {"RUN_TEST_IDLE", "PAUSE_DR"}
    BY <1>3 DEF XRUNTEST, XREPEAT, XSDRSIZE, XENDXR
  <2>2. info' \in [ucMaxRepeat : Repeats, ucEndIR : {"RUN_TEST_IDLE", "PAUSE_IR"},
                   ucEndDR : {"RUN_TEST_IDLE", "PAUSE_DR"},
                   lShiftLengthBits : Lengths, lRunTestTime : RunTimes]
    <3>1. info' = [info EXCEPT ![f] = p] BY <2>1 DEF Set
    <3> QED BY <1>1, <2>1, <3>1 DEF TypeOK
  <2>3. UNCHANGED <<portVars, ucTapState, iErrorCode, ucComplete, todo, scan>>
    BY <2>1 DEF Set
  <2>4. TypeOK' BY <1>1, <2>2, <2>3 DEF TypeOK, portVars
  <2>5. ErrorInv' BY <1>1, <2>3 DEF ErrorInv, xsvfRun
  <2> QED BY <1>1, <2>3, <2>4, <2>5, SetKeeps
<1>4. CASE Refused
  <2>1. /\ UNCHANGED <<portVars, ucTapState, info, ucComplete, todo, scan>>
        /\ iErrorCode' \in {"NONE", "DATAOVERFLOW", "ILLEGALSTATE", "ILLEGALCMD"}
    BY <1>4 DEF Refused, Fail
  <2>2. TypeOK' BY <1>1, <2>1 DEF TypeOK, portVars
  <2>3. ErrorInv' BY <1>1, <2>1 DEF ErrorInv, Idle
  <2> QED BY <1>1, <2>1, <2>2, <2>3, SetKeeps
<1> QED BY <1>2, <1>3, <1>4

LEMMA Executed ==
  ASSUME PlayerInv, NEW sc, NEW ops, Execute(sc, ops)
  PROVE  Started(sc, ops) /\ Synced /\ TypeOK
<1>1. Synced BY IdleAtRest DEF Execute, xsvfRun, Idle
<1> QED BY <1>1 DEF Execute, xsvfRun, Started, PlayerInv

LEMMA ShiftType == ASSUME NEW sc \in Scans PROVE xsvfShift(sc) \in Seq(Operations)
<1>1. sc.bits \in Nat /\ sc.run \in Nat /\ <<>> \in Seq(Operations) /\ Rest(<<>>)
  BY DEF Scans, Rest
<1>2. CASE sc.bits # 0
  <2>1. Attempt(sc) \in Seq(Operations)
    <3>1. sc.start \in TapStates /\ sc.bits - 1 \in Nat BY <1>1, <1>2 DEF Scans, TapStates
    <3>2. /\ Goto(sc.start) \in Operations /\ Pulse(sc.bits - 1) \in Operations
          /\ Pulse(sc.bits) \in Operations /\ Pulse(1) \in Operations
          /\ Op("raise") \in Operations /\ Op("compare") \in Operations
          /\ Op("exit") \in Operations /\ Op("leave") \in Operations
          /\ Op("again") \in Operations
      BY <1>1, <3>1, Kinds
    <3>3. <<Goto(sc.start)>> \in Seq(Operations) BY <3>2
    <3>4. <<Pulse(sc.bits - 1), Op("raise"), Pulse(1), Op("compare"), Op("exit"), Op("leave"),
            Op("again")>> \in Seq(Operations)
      BY <3>2
    <3>5. <<Pulse(sc.bits), Op("compare"), Op("again")>> \in Seq(Operations) BY <3>2
    <3> QED BY <3>3, <3>4, <3>5 DEF Attempt
  <2> QED BY <1>2, <2>1 DEF xsvfShift
<1>3. CASE sc.bits = 0
  <2>1. RunTest(sc.run) \in Seq(Operations) BY <1>1, RunTests DEF RunTest
  <2> QED BY <1>3, <2>1 DEF xsvfShift
<1> QED BY <1>2, <1>3

LEMMA TwoRest ==
  ASSUME NEW a \in Operations, NEW b \in Operations, a.op = "count", b.op = "inc"
  PROVE  <<a, b>> \in Seq(Operations) /\ Rest(<<a, b>>)
<1>1. /\ <<a, b>> \in Seq(Operations) /\ <<a, b>> # <<>> /\ Head(<<a, b>>) = a
      /\ Tail(<<a, b>>) = <<b>> /\ <<b>> # <<>> /\ Head(<<b>>) = b /\ Tail(<<b>>) = <<>>
  OBVIOUS
<1> QED BY <1>1 DEF Rest, LastIncrements

LEMMA ScanKeeps ==
  ASSUME PlayerInv, XSIR \/ XSDR \/ XSDRBCE \/ XSDRINC
  PROVE  PlayerInv'
<1>1. CASE XSIR \/ XSDR \/ XSDRBCE
  <2>1. TypeOK BY DEF PlayerInv
  <2>2. PICK sc : Fresh(sc) /\ Execute(sc, xsvfShift(sc))
    BY <1>1, <2>1, FreshScans DEF XSIR, XSDR, XSDRBCE
  <2>3. Started(sc, xsvfShift(sc)) /\ Synced BY <2>2, Executed
  <2>4. xsvfShift(sc) = xsvfShift(sc) \o <<>>
    <3>1. sc \in Scans BY <2>2 DEF Fresh
    <3> QED BY <2>2, <3>1, ShiftType, EmptyJoint
  <2>5. <<>> \in Seq(Operations) /\ Rest(<<>>) BY DEF Rest
  <2> QED BY <2>2, <2>3, <2>4, <2>5, Begun
<1>2. CASE XSDRINC
  <2>1. PICK length \in Nat, times \in Times :
          Execute(DRScan, xsvfShift(DRScan) \o <<Count(0, length), Increments(times)>>)
    <3>1. PICK masks \in Masks, times \in Times :
            Execute(DRScan, xsvfShift(DRScan) \o <<Count(0, Len(masks.data)), Increments(times)>>)
      BY <1>2 DEF XSDRINC
    <3>2. Len(masks.data) \in Nat
      <4>1. masks.data \in Seq(Byte) BY PlayerAssumption
      <4> QED BY <4>1
    <3> QED BY <3>1, <3>2
  <2>2. Started(DRScan, xsvfShift(DRScan) \o <<Count(0, length), Increments(times)>>) /\ Synced
    BY <2>1, Executed
  <2>3. Fresh(DRScan) BY FreshScans DEF PlayerInv
  <2>4. Count(0, length) \in Operations /\ Increments(times) \in Operations
    BY PlayerAssumption, Kinds
  <2>5. /\ <<Count(0, length), Increments(times)>> \in Seq(Operations)
        /\ Rest(<<Count(0, length), Increments(times)>>)
    BY <2>4, Fields, TwoRest
  <2> QED BY <2>2, <2>3, <2>5, Begun
<1> QED BY <1>1, <1>2

LEMMA StateKeeps == ASSUME PlayerInv, XSTATE PROVE PlayerInv'
<1>1. PICK s \in States : Execute(NoScan, <<Goto(s)>>) BY DEF XSTATE
<1>2. Started(NoScan, <<Goto(s)>>) /\ Synced /\ Fresh(NoScan)
  BY <1>1, Executed, FreshScans DEF PlayerInv
<1>3. s \in TapStates \cup {NoState} BY PlayerAssumption
<1>4. Goto(s) \in Operations BY <1>3, Kinds
<1>5. /\ Synced' /\ todo' = <<Goto(s)>> /\ ScanInv' /\ ErrorInv'
      /\ <<Goto(s)>> \in Seq(Operations) => TypeOK'
  BY <1>2, StartedFacts
<1>6. todo' \in Seq(Operations) /\ todo' # <<>> /\ Head(todo') = Goto(s) /\ Tail(todo') = <<>>
  BY <1>4, <1>5, Single
<1>7. Head(todo').op = "goto" /\ Head(todo').to = s
  <2>1. Goto(s).op = "goto" /\ Goto(s).to = s BY Fields
  <2> QED BY <1>6, <2>1
<1>8. Going' /\ Target' = s /\ At("goto")' BY <1>6, <1>7 DEF Going, Gotos, Target, At
<1>9. Target' \in Places \cup {"TEST_LOGIC_RESET"} BY <1>3, <1>8 DEF Places
<1>10. Roaming' BY <1>5, <1>6, <1>8, <1>9 DEF Roaming
<1> QED BY <1>5, <1>6, <1>10 DEF PlayerInv, PhaseInv

LEMMA WaitKeeps == ASSUME PlayerInv, XWAIT PROVE PlayerInv'
<1>1. PICK s \in WaitStates, end \in WaitStates, t \in RunTimes :
        Execute(NoScan, (IF s = ucTapState THEN <<>> ELSE <<Goto(s)>>) \o <<Pulse(t)>>
                        \o (IF end = s THEN <<>> ELSE <<Goto(end)>>))
  BY DEF XWAIT
<1> DEFINE g == IF s = ucTapState THEN <<>> ELSE <<Goto(s)>>
           p == <<Pulse(t)>>
           e == IF end = s THEN <<>> ELSE <<Goto(end)>>
           w == p \o e
<1>2. s \in Stable /\ end \in Stable /\ s \in TapStates /\ end \in TapStates /\ t \in Nat
  BY PlayerAssumption DEF Stable, TapStates
<1>3. Goto(s) \in Operations /\ Goto(end) \in Operations /\ Pulse(t) \in Operations
  BY <1>2, Kinds
<1>4. Started(NoScan, (g \o p) \o e) /\ Synced /\ Fresh(NoScan)
  BY <1>1, Executed, FreshScans DEF PlayerInv
<1>5. g \in Seq(Operations) /\ p \in Seq(Operations) /\ e \in Seq(Operations)
  BY <1>3
<1>6. e = <<>> \/ (e # <<>> /\ Tail(e) = <<>> /\ Head(e) = Goto(end))
  BY <1>3
<1>7. w \in Seq(Operations) /\ w # <<>> /\ Head(w) = Pulse(t) /\ Tail(w) = e
  BY <1>3, <1>5, Consed
<1>8. (g = <<>> /\ s = ucTapState) \/ g = <<Goto(s)>> OBVIOUS
<1> HIDE DEF g, p, e, w
<1>9. Waiting(w)
  <2>1. Pulse(t).op = "pulse" BY Fields
  <2>2. Pulses(w) BY <1>7, <2>1 DEF Pulses
  <2> QED BY <1>2, <1>6, <1>7, <2>2 DEF Waiting
<1>10. (g \o p) \o e = g \o w BY <1>5, Joint DEF w
<1>11. /\ Synced' /\ todo' = g \o w /\ ScanInv' /\ ErrorInv'
       /\ g \o w \in Seq(Operations) => TypeOK'
  BY <1>4, <1>10, StartedFacts
<1>12. tap' = tap /\ ucTapState' = ucTapState BY <1>4 DEF Started
<1>13. CASE g = <<>> /\ s = ucTapState
  <2>1. todo' = w BY <1>7, <1>11, <1>13, EmptyJoint
  <2>2. tap' \in Stable BY <1>2, <1>4, <1>12, <1>13 DEF Synced
  <2>3. InWait' BY <1>9, <1>11, <2>1, <2>2 DEF InWait
  <2> QED BY <1>7, <1>11, <2>1, <2>3 DEF PlayerInv, PhaseInv
<1>14. CASE g = <<Goto(s)>>
  <2>1. todo' \in Seq(Operations) /\ todo' # <<>> /\ Head(todo') = Goto(s) /\ Tail(todo') = w
    BY <1>3, <1>7, <1>11, <1>14, Consed
  <2>2. Goto(s).op = "goto" /\ Goto(s).to = s BY Fields
  <2>3. Head(todo').op = "goto" /\ Head(todo').to = s BY <2>1, <2>2
  <2>4. Going' /\ Target' = s /\ At("goto")' BY <2>1, <2>3 DEF Going, Gotos, Target, At
  <2>5. Target' \in Places \cup {"TEST_LOGIC_RESET"} BY <1>2, <2>4 DEF Places
  <2>6. Roaming' BY <1>2, <1>9, <1>11, <2>1, <2>4, <2>5 DEF Roaming
  <2> QED BY <1>11, <2>1, <2>6 DEF PlayerInv, PhaseInv
<1> QED BY <1>8, <1>13, <1>14

(* The count of the data mask and the increments behind it. *)
LEMMA CountKeeps == ASSUME PlayerInv, CountMask PROVE PlayerInv'
<1>1. /\ todo # <<>> /\ Head(todo).op = "count"
      /\ UNCHANGED <<tap, tms, rested, heard, ucTapState, info, iErrorCode, ucComplete, scan>>
  BY DEF CountMask, At, portVars
<1>2. AtRest BY <1>1, Phases DEF PlayerInv
<1>3. Synced' BY <1>1, <1>2 DEF AtRest, Synced
<1>4. LastIncrements(Tail(todo)) BY <1>1, <1>2 DEF AtRest, Rest, LastIncrements, Texts
<1>5. /\ iErrorCode = "NONE" /\ Head(todo) \in Operations /\ Tail(todo) \in Seq(Operations)
  BY <1>1, NoError
<1>6. ScanInv' /\ ErrorInv' BY <1>1, <1>5, StillNoError DEF PlayerInv
<1>7. todo' \in Seq(Operations) => TypeOK' BY <1>1 DEF PlayerInv, TypeOK
<1>8. CASE todo' = Tail(todo)
  <2>1. AtRest' BY <1>3, <1>4, <1>8 DEF AtRest, Rest
  <2> QED BY <1>5, <1>6, <1>7, <1>8, <2>1 DEF PlayerInv, PhaseInv
<1>9. CASE todo' # Tail(todo)
  <2> DEFINE c == Count((Head(todo).n + 1) % UChar, Head(todo).length)
  <2>1. GoOnWith(c) BY <1>9 DEF CountMask, Go
  <2>2. Head(todo).n < Head(todo).length /\ Head(todo).n \in Nat /\ Head(todo).length \in Nat
    BY <1>5, <1>9 DEF CountMask, Go, Operations
  <2>3. c \in Operations
    <3>1. UChar \in Nat /\ UChar > 0 BY PlayerAssumption
    <3>2. (Head(todo).n + 1) % UChar \in Nat BY <2>2, <3>1
    <3> QED BY <2>2, <3>2, Kinds
  <2>4. c.op = "count" BY Fields
  <2> HIDE DEF c
  <2>5. todo' \in Seq(Operations) /\ todo' # <<>> /\ Head(todo') = c /\ Tail(todo') = Tail(todo)
    BY <1>1, <2>1, <2>3, Redone DEF PlayerInv
  <2>6. AtRest' BY <1>3, <1>4, <2>4, <2>5 DEF AtRest, Rest
  <2> QED BY <1>6, <1>7, <2>5, <2>6 DEF PlayerInv, PhaseInv
<1> QED BY <1>8, <1>9

(* A comment, and the characters of it that are read. *)
LEMMA CommentKeeps == ASSUME PlayerInv, XCOMMENT PROVE PlayerInv'
<1>1. PICK n \in Comments, ended \in BOOLEAN :
        /\ xsvfRun /\ todo' = <<Comment(n, ended)>>
        /\ UNCHANGED <<portVars, ucTapState, info, iErrorCode, ucComplete, scan>>
  BY DEF XCOMMENT
<1>2. Comment(n, ended) \in Operations /\ Comment(n, ended).op \in Texts
  <2>1. n \in Nat BY PlayerAssumption
  <2> QED BY <2>1, Commented
<1>3. /\ todo' \in Seq(Operations) /\ todo' # <<>> /\ Head(todo').op \in Texts
      /\ Tail(todo') = <<>>
  BY <1>1, <1>2, Single
<1>4. Synced /\ iErrorCode = "NONE" BY <1>1, IdleAtRest DEF xsvfRun, Idle
<1>5. Synced' BY <1>1, <1>4 DEF Synced, portVars
<1>6. AtRest' BY <1>3, <1>5 DEF AtRest, Rest
<1>7. ScanInv' /\ ErrorInv' BY <1>1, <1>4, StillNoError DEF PlayerInv
<1>8. TypeOK' BY <1>1, <1>3 DEF PlayerInv, TypeOK, portVars
<1> QED BY <1>6, <1>7, <1>8 DEF PlayerInv, PhaseInv

LEMMA ReadCommentKeeps == ASSUME PlayerInv, ReadComment PROVE PlayerInv'
<1>1. /\ todo # <<>> /\ Head(todo).op \in Texts
      /\ UNCHANGED <<portVars, ucTapState, info, ucComplete, scan>>
  BY DEF ReadComment, At, Texts
<1>2. AtRest BY <1>1, Phases DEF PlayerInv, Texts
<1>3. Synced' BY <1>1, <1>2 DEF AtRest, Synced, portVars
<1>4. Tail(todo) = <<>> BY <1>1, <1>2 DEF AtRest, Rest, LastIncrements, Texts
<1>5. /\ iErrorCode = "NONE" /\ Head(todo) \in Operations /\ Tail(todo) \in Seq(Operations)
  BY <1>1, NoError
<1>6. iErrorCode' = "NONE" BY <1>5 DEF ReadComment
<1>7. ScanInv' /\ ErrorInv' BY <1>1, <1>5, <1>6, StillNoError DEF PlayerInv
<1>8. todo' \in Seq(Operations) => TypeOK' BY <1>1, <1>6 DEF PlayerInv, TypeOK, portVars
<1>9. CASE Head(todo).n = 0
  <2>1. todo' = <<>>
    <3>1. ~(Head(todo).n > 0) BY <1>9
    <3>2. todo' = Tail(todo) BY <3>1 DEF ReadComment, Go
    <3> QED BY <1>4, <3>2
  <2>2. AtRest' BY <1>3, <2>1 DEF AtRest, Rest
  <2> QED BY <1>4, <1>5, <1>7, <1>8, <2>1, <2>2 DEF PlayerInv, PhaseInv
<1>10. CASE Head(todo).n # 0
  <2> DEFINE c == Comment(Head(todo).n - 1, At("comment"))
  <2>1. GoOnWith(c) BY <1>10 DEF ReadComment
  <2>2. c \in Operations /\ c.op \in Texts
    <3>1. Head(todo).n - 1 \in Nat
      <4>1. Head(todo).n \in Nat BY <1>5 DEF Operations
      <4> QED BY <1>10, <4>1
    <3>2. At("comment") \in BOOLEAN BY DEF At
    <3> QED BY <3>1, <3>2, Commented
  <2> HIDE DEF c
  <2>3. todo' \in Seq(Operations) /\ todo' # <<>> /\ Head(todo') = c /\ Tail(todo') = Tail(todo)
    BY <1>1, <2>1, <2>2, Redone DEF PlayerInv
  <2>4. AtRest' BY <1>3, <1>4, <2>2, <2>3 DEF AtRest, Rest
  <2> QED BY <1>7, <1>8, <2>3, <2>4 DEF PlayerInv, PhaseInv
<1> QED BY <1>9, <1>10

LEMMA IncrementKeeps == ASSUME PlayerInv, NextIncrement PROVE PlayerInv'
<1>1. todo # <<>> /\ Head(todo).op = "inc" BY DEF NextIncrement, At
<1>2. AtRest /\ Synced BY <1>1, Phases DEF PlayerInv, AtRest
<1>3. Tail(todo) = <<>> BY <1>1, <1>2 DEF AtRest, Rest, LastIncrements, Texts
<1>4. /\ iErrorCode = "NONE" /\ Head(todo) \in Operations /\ Tail(todo) \in Seq(Operations)
  BY <1>1, NoError
<1>5. CASE Head(todo).n = 0
  <2>1. Go /\ UNCHANGED <<portVars, ucTapState, info, iErrorCode, ucComplete, scan>>
    BY <1>5 DEF NextIncrement
  <2>2. TypeOK' /\ ScanInv' /\ ErrorInv'
    <3>1. ucTapState' \in TapStates BY <2>1 DEF PlayerInv, TypeOK
    <3> QED BY <1>1, <2>1, <3>1, Taken DEF portVars
  <2>3. AtRest' BY <1>2, <1>3, <2>1 DEF AtRest, Rest, Synced, Go, portVars
  <2> QED BY <2>2, <2>3 DEF PlayerInv, PhaseInv
<1>6. CASE Head(todo).n # 0
  <2> DEFINE i == Increments(Head(todo).n - 1)
  <2>1. i \in Operations
    <3>1. Head(todo).n \in Nat BY <1>4 DEF Operations
    <3>2. Head(todo).n - 1 \in Nat BY <1>6, <3>1
    <3> QED BY <3>2, Kinds
  <2>2. i.op = "inc" BY Fields
  <2>3. Started(DRScan, xsvfShift(DRScan) \o <<i>> \o Tail(todo))
    BY <1>4, <1>6 DEF NextIncrement, Started
  <2> HIDE DEF i
  <2>4. <<i>> \in Seq(Operations) /\ <<i>> # <<>> /\ Head(<<i>>) = i /\ Tail(<<i>>) = <<>>
    BY <2>1, Single
  <2>5. Rest(<<i>>) BY <2>2, <2>4 DEF Rest, LastIncrements
  <2>6. Fresh(DRScan) /\ DRScan \in Scans BY FreshScans DEF PlayerInv, Fresh
  <2>7. xsvfShift(DRScan) \o <<i>> \o Tail(todo) = xsvfShift(DRScan) \o <<i>>
    <3>1. xsvfShift(DRScan) \in Seq(Operations) BY <2>6, ShiftType
    <3> HIDE DEF DRScan, xsvfShift
    <3>2. xsvfShift(DRScan) \o <<i>> \in Seq(Operations) BY <2>4, <3>1
    <3> QED BY <1>3, <3>2, EmptyJoint
  <2> QED BY <1>2, <2>3, <2>4, <2>5, <2>6, <2>7, Begun
<1> QED BY <1>5, <1>6

-----------------------------------------------------------------------------
LEMMA InitHolds == Init => PlayerInv
<1> SUFFICES ASSUME Init PROVE PlayerInv OBVIOUS
<1>1. Goto("TEST_LOGIC_RESET") \in Operations BY Kinds DEF TapStates
<1>2. todo \in Seq(Operations) /\ todo # <<>> /\ Head(todo) = Goto("TEST_LOGIC_RESET")
      /\ Tail(todo) = <<>>
  BY <1>1, Single DEF Init
<1>3. Head(todo).op = "goto" /\ Head(todo).to = "TEST_LOGIC_RESET"
  <2>1. /\ Goto("TEST_LOGIC_RESET").op = "goto"
        /\ Goto("TEST_LOGIC_RESET").to = "TEST_LOGIC_RESET"
    BY Fields
  <2> QED BY <1>2, <2>1
<1>4. Roaming BY <1>2, <1>3 DEF Roaming, Going, Gotos, Target, At
<1>5. info \in [ucMaxRepeat : Repeats, ucEndIR : {"RUN_TEST_IDLE", "PAUSE_IR"},
                ucEndDR : {"RUN_TEST_IDLE", "PAUSE_DR"},
                lShiftLengthBits : Lengths, lRunTestTime : RunTimes]
  BY PlayerAssumption DEF Init, xsvfInfoInit
<1>6. Fresh(NoScan)
  <2>1. /\ 0 \in 0..(UChar - 1) /\ 0 \in Nat /\ FALSE \in BOOLEAN /\ ~(0 > 0)
    BY PlayerAssumption
  <2> QED BY <2>1, Freshened DEF NoScan
<1>7. scan \in Scans BY <1>6 DEF Init, Fresh
<1>8. TypeOK BY <1>2, <1>5, <1>7 DEF Init, TypeOK, TapStates
<1>9. ScanInv
  <2>1. scan = NoScan /\ 0 <= NoScan.max BY <1>6 DEF Init, Fresh, Scans
  <2> QED BY <1>6, <2>1 DEF ScanInv, Fresh
<1>10. ErrorInv BY DEF Init, ErrorInv
<1> QED BY <1>4, <1>8, <1>9, <1>10 DEF PlayerInv, PhaseInv

LEMMA StutterKeeps == ASSUME PlayerInv, UNCHANGED vars PROVE PlayerInv'
<1>1. /\ tap' = tap /\ tms' = tms /\ ucTapState' = ucTapState /\ info' = info
      /\ iErrorCode' = iErrorCode /\ ucComplete' = ucComplete /\ todo' = todo /\ scan' = scan
      /\ rested' = rested /\ heard' = heard
  BY DEF vars
<1>2. TypeOK' BY <1>1 DEF PlayerInv, TypeOK
<1>3. ScanInv' /\ ErrorInv' BY <1>1 DEF PlayerInv, ScanInv, ErrorInv, Idle
<1>4. PhaseInv'
  BY <1>1 DEF PlayerInv, PhaseInv, BeforeCompare, AfterCompare, AtRest, Roaming, Raising, Resetting,
     WasReset, InWait, GoingToEmptyWait, InEmptyWait, GoingToShift, Shifting, RaisingLast,
     ShiftingLast, Comparing, Exiting, Left, GoingOn, InRunTest, Decided, Going, Synced,
     Target, At, Rested, Retried
<1> QED BY <1>2, <1>3, <1>4 DEF PlayerInv

LEMMA StepKeeps == ASSUME PlayerInv, [Next]_vars PROVE PlayerInv'
<1>1. CASE Command \/ XSDRINC
  BY <1>1, SettingKeeps, ScanKeeps, StateKeeps, WaitKeeps, CommentKeeps DEF Command
<1>2. CASE Running
  BY <1>2, PulseKeeps, RaiseKeeps, GotoKeeps, ResetKeeps, CompareKeeps, ExitKeeps, LeaveKeeps,
     AgainKeeps, CountKeeps, ReadCommentKeeps, IncrementKeeps DEF Step, Running
<1>3. CASE UNCHANGED vars BY <1>3, StutterKeeps
<1> QED BY <1>1, <1>2, <1>3 DEF Next

-----------------------------------------------------------------------------
(* The player is always in one of the phases of a command. *)
THEOREM PlayerInvariant == Spec => []PlayerInv
<1>1. Init => PlayerInv BY InitHolds
<1>2. PlayerInv /\ [Next]_vars => PlayerInv' BY StepKeeps
<1> QED BY <1>1, <1>2, PTL DEF Spec

(* Wherever micro.c decides by ucTapState the TAP is in that state, and a     *)
(* scan ends in the state asked for.                                          *)
THEOREM PlayerInStep == Spec => []InStep
<1>1. PlayerInv => InStep
  <2> SUFFICES ASSUME PlayerInv PROVE InStep OBVIOUS
  <2>1. Idle => tap = ucTapState BY IdleAtRest DEF Idle, Synced
  <2>2. At("walk") => tap = ucTapState
    <3> SUFFICES ASSUME At("walk") PROVE tap = ucTapState OBVIOUS
    <3>1. todo # <<>> /\ Head(todo).op = "walk" /\ ~At("goto") BY DEF At
    <3>2. Roaming \/ GoingToEmptyWait \/ GoingToShift \/ GoingOn
      BY <3>1, Phases DEF PlayerInv, Gotos
    <3>3. Synced BY <3>1, <3>2 DEF Roaming, GoingToEmptyWait, GoingToShift, GoingOn
    <3> QED BY <3>3 DEF Synced
  <2>3. At("leave") => tap = ucTapState
    <3>1. At("leave") => Left BY Phases DEF PlayerInv, At
    <3> QED BY <3>1 DEF Left
  <2>4. At("again") => Decided BY Phases DEF PlayerInv, At
  <2>5. At("count") \/ At("inc") => AtRest BY Phases DEF PlayerInv, At
  <2> QED BY <2>1, <2>2, <2>3, <2>4, <2>5 DEF InStep, Decided, AtRest, Synced
<1> QED BY <1>1, PlayerInvariant, PTL

(* A retry compares what was captured after the whole, longer, wait; a        *)
(* mismatch is reported after exactly the attempts that XREPEAT asked for,    *)
(* and as MAXRETRIES unless there were none or the counter came round to 0.   *)
THEOREM RetriesCounted == Spec => []RetriesAsAsked
<1>1. PlayerInv => RetriesAsAsked
  <2> SUFFICES ASSUME PlayerInv PROVE RetriesAsAsked OBVIOUS
  <2>1. At("compare") => Rested
    <3>1. At("compare") => Comparing BY Phases DEF PlayerInv, At
    <3> QED BY <3>1 DEF Comparing
  <2>2. At("compare") /\ scan.repeat > 0 /\ scan.run > 0 => heard >= scan.run
    BY <2>1 DEF Rested, Retried
  <2>3. iErrorCode \in {"TDOMISMATCH", "MAXRETRIES"} =>
          /\ scan.tried = scan.max + 1
          /\ iErrorCode = "MAXRETRIES" <=> scan.max \in 1..(UChar - 2)
    BY DEF PlayerInv, ErrorInv
  <2> QED BY <2>2, <2>3 DEF RetriesAsAsked
<1> QED BY <1>1, PlayerInvariant, PTL
=============================================================================
