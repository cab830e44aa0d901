-------------------------- MODULE SessionStoreProofs --------------------------
(***************************************************************************)
(* SessionStore's invariants, and that of Transcripts, for any number of   *)
(* services, replays, rooms and listeners, and any clock.                  *)
(*                                                                         *)
(* A row is not protected by a lock but by the condition in end_session's  *)
(* statement: so the proofs rest on what a statement can do to a row at    *)
(* all (RowsGrow), and on what a program that has not created its session  *)
(* yet, or not settled it yet, leaves untrue of it (Unborn, Cleared,       *)
(* Unsettled).                                                             *)
(***************************************************************************)
EXTENDS Transcripts, TLAPS

USE StoreAssumption DEF StoreAssumption

Started == \A s \in Programs : session[s].started <= now

\* A program that is still listing has no session yet, and what it has found
\* or runs exists.
Unborn ==
  \A p \in Programs :
    /\ program[p] \in {"down", "listing"} => runs[p] = Nobody /\ session[p].status = "none"
    /\ program[p] = "down" => found[p] = {}
    /\ todo[p] \subseteq found[p]
    /\ \A s \in found[p] : session[s].status # "none"
    /\ runs[p] \in Programs => session[runs[p]].status # "none"
    /\ session[p].status = "none" => session[p].ended = Never /\ session[p].reason = "none"

\* What the first loop has looked at is of another room, or over.
Cleared ==
  \A p \in Programs :
    program[p] = "listing" =>
      \A old \in found[p] \ todo[p] :
        RoomOf[old] = RoomOf[p] => p \in Services /\ session[old].ended # Never

\* A session is not over before its program is, unless another ended it.
Unsettled ==
  \A s \in Programs :
    (/\ program[s] \in {"down", "listing", "created", "loading", "running"}
     /\ session[s].ended # Never /\ session[s].reason # "superseded") => Shared(s)

IInv == TypeOK /\ Started /\ Unborn /\ Cleared /\ Unsettled /\ TakesOverItsRoom /\ SettledIsClosed

-----------------------------------------------------------------------------
(* What a statement does to a row.                                         *)

LEMMA SettledRow ==
  ASSUME NEW row \in Row, NEW reason \in {"none", "superseded", "fault"},
         now \in 0..MaxTime, row.started <= now
  PROVE  /\ Settled(row, reason) \in Row
         /\ Settled(row, reason).ended = now /\ Settled(row, reason).reason = reason
         /\ Settled(row, reason).started = row.started
         /\ Settled(row, reason).billed # Never
         /\ Settled(row, reason).status \in {"ended", "failed"}
         /\ Settled(row, reason).status = "failed" => reason # "none"
<1> DEFINE status == IF reason = "none" THEN "ended" ELSE "failed"
<1>1. Settled(row, reason) =
        [status |-> status, started |-> row.started, ended |-> now, reason |-> reason,
         billed |-> now - row.started]
  BY DEF Settled
<1>2. /\ row.started \in 0..MaxTime /\ now - row.started \in Never..MaxTime
      /\ now - row.started # Never /\ now \in Never..MaxTime
  BY DEF Row, Never
<1>3. status \in {"ended", "failed"} /\ (status = "failed" => reason # "none")
  OBVIOUS
<1> HIDE DEF status
<1> QED BY <1>1, <1>2, <1>3 DEF Row

LEMMA LiveRow ==
  ASSUME NEW row \in Row
  PROVE  /\ [row EXCEPT !.status = "live"] \in Row
         /\ [row EXCEPT !.status = "live"].status = "live"
         /\ [row EXCEPT !.status = "live"].started = row.started
         /\ [row EXCEPT !.status = "live"].ended = row.ended
         /\ [row EXCEPT !.status = "live"].reason = row.reason
         /\ [row EXCEPT !.status = "live"].billed = row.billed
BY DEF Row

LEMMA NewRow ==
  ASSUME NEW row \in Row, now \in 0..MaxTime
  PROVE  LET new == [row EXCEPT !.status = "starting", !.started = now]
         IN  /\ new \in Row /\ new.status = "starting" /\ new.started = now
             /\ new.ended = row.ended /\ new.reason = row.reason /\ new.billed = row.billed
BY DEF Row
\* The rows after a statement, row by row.
LEMMA RowsAfterEnd ==
  ASSUME IInv, NEW s \in Programs, NEW reason \in {"none", "superseded", "fault"},
         EndSession(s, reason)
  PROVE  /\ session' \in [Programs -> Row]
         /\ \A t \in Programs : t # s => session'[t] = session[t]
         /\ session'[s].ended = now /\ session'[s].reason = reason
         /\ session'[s].started = session[s].started
         /\ session'[s].billed # Never
         /\ session'[s].status \in {"ended", "failed"}
         /\ session'[s].status = "failed" => reason # "none"
<1>1. session \in [Programs -> Row] /\ session[s].started <= now /\ now \in 0..MaxTime
  BY DEF IInv, TypeOK, Started
<1>2. session' = [session EXCEPT ![s] = Settled(session[s], reason)]
  BY DEF EndSession
<1>3. session[s] \in Row
  BY <1>1
<1>4. session'[s] = Settled(session[s], reason)
  BY <1>1, <1>2
<1>5. Settled(session[s], reason) \in Row
  BY <1>1, <1>3, SettledRow
<1>6. session' \in [Programs -> Row]
  BY <1>1, <1>2, <1>5
<1>7. \A t \in Programs : t # s => session'[t] = session[t]
  BY <1>1, <1>2
<1> QED BY <1>1, <1>3, <1>4, <1>6, <1>7, SettledRow

LEMMA RowsAfterLive ==
  ASSUME IInv, NEW s \in Programs, MarkLive(s)
  PROVE  /\ session' \in [Programs -> Row]
         /\ \A t \in Programs : t # s => session'[t] = session[t]
         /\ session'[s].status = "live" /\ session'[s].started = session[s].started
         /\ session'[s].ended = session[s].ended /\ session'[s].reason = session[s].reason
         /\ session'[s].billed = session[s].billed
<1> DEFINE new == [session[s] EXCEPT !.status = "live"]
<1>1. session \in [Programs -> Row] /\ session[s] \in Row
  BY DEF IInv, TypeOK
<1>2. session' = [session EXCEPT ![s] = new]
  BY DEF MarkLive
<1>3. new \in Row
  BY <1>1, LiveRow
<1>4. new.status = "live" /\ new.started = session[s].started /\ new.ended = session[s].ended
      /\ new.reason = session[s].reason /\ new.billed = session[s].billed
  BY <1>1, LiveRow
<1> HIDE DEF new
<1> QED BY <1>1, <1>2, <1>3, <1>4

LEMMA RowsAfterCreate ==
  ASSUME IInv, NEW p \in Programs, CreateSession(p)
  PROVE  /\ session' \in [Programs -> Row]
         /\ \A t \in Programs : t # p => session'[t] = session[t]
         /\ session'[p].status = "starting" /\ session'[p].started = now
         /\ session'[p].ended = session[p].ended /\ session'[p].reason = session[p].reason
         /\ session'[p].billed = session[p].billed
<1> DEFINE new == [session[p] EXCEPT !.status = "starting", !.started = now]
<1>1. session \in [Programs -> Row] /\ session[p] \in Row /\ now \in 0..MaxTime
  BY DEF IInv, TypeOK
<1>2. session' = [session EXCEPT ![p] = new]
  BY DEF CreateSession, Created
<1>3. new \in Row /\ new.status = "starting" /\ new.started = now
  BY <1>1, NewRow
<1>4. new.ended = session[p].ended /\ new.reason = session[p].reason /\ new.billed = session[p].billed
  BY <1>1, NewRow
<1> HIDE DEF new
<1> QED BY <1>1, <1>2, <1>3, <1>4

-----------------------------------------------------------------------------
(* The steps that leave the rows alone.                                    *)

LEMMA RowsAlone ==
  ASSUME IInv, UNCHANGED session, now' \in Nat, now <= now',
         UNCHANGED <<program, runs, todo, found>>
  PROVE  Started' /\ Unborn' /\ Cleared' /\ Unsettled' /\ TakesOverItsRoom' /\ SettledIsClosed'
<1>1. Started'
  <2>1. \A s \in Programs : session[s].started \in 0..MaxTime /\ now \in 0..MaxTime
    BY DEF IInv, TypeOK, Row
  <2> QED BY <2>1 DEF IInv, Started
<1>2. Unborn' /\ Cleared' /\ Unsettled' /\ TakesOverItsRoom' /\ SettledIsClosed'
  BY DEF IInv, Unborn, Cleared, Unsettled, TakesOverItsRoom, SettledIsClosed, Shared
<1> QED BY <1>1, <1>2

LEMMA TickPreserves ==
  ASSUME IInv, Tick
  PROVE  IInv'
<1>1. now \in 0..MaxTime /\ now' \in 0..MaxTime /\ now <= now'
  BY DEF IInv, TypeOK, Tick
<1>2. TypeOK'
  BY <1>1 DEF IInv, TypeOK, Tick, serving, visiting
<1> QED BY <1>1, <1>2, RowsAlone DEF Tick, serving, IInv

LEMMA VisitPreserves ==
  ASSUME IInv, NEW l \in Listeners, Visit(l)
  PROVE  IInv'
<1>1. UNCHANGED <<now, session, program, runs, todo, found>>
  BY DEF Visit, LookUpRoom, OpenLink, ReadSession, Join, Depart, Leave, serving
<1>2. listener' \in [Listeners -> Visitor] /\ beacons' \in [Listeners -> 0..2]
  <2>1. /\ listener \in [Listeners -> Visitor] /\ listener[l] \in Visitor
        /\ beacons \in [Listeners -> 0..2] /\ now \in 0..MaxTime
    BY DEF IInv, TypeOK
  <2>2. CASE LookUpRoom(l) \/ OpenLink(l)
    <3>1. PICK s \in Programs : listener' = [listener EXCEPT ![l].at = "chosen", ![l].session = s]
      BY <2>2 DEF LookUpRoom, OpenLink, LiveSessions
    <3>2. [listener[l] EXCEPT !.at = "chosen", !.session = s] \in Visitor
      BY <2>1 DEF Visitor
    <3>3. beacons' = beacons
      BY <2>2 DEF LookUpRoom, OpenLink
    <3> QED BY <2>1, <3>1, <3>2, <3>3
  <2>3. CASE ReadSession(l) \/ Join(l)
    <3>1. [listener[l] EXCEPT !.at = "admitted"] \in Visitor
          /\ [listener[l] EXCEPT !.at = "listening"] \in Visitor
          /\ [listener[l] EXCEPT !.at = "away", !.session = Nobody] \in Visitor
      BY <2>1 DEF Visitor
    <3> QED BY <2>1, <2>3, <3>1 DEF ReadSession, Join
  <2>4. CASE Depart(l)
    <3>1. [listener[l] EXCEPT !.at = "gone"] \in Visitor
      BY <2>1 DEF Visitor
    <3> QED BY <2>1, <2>4, <3>1 DEF Depart
  <2>5. CASE Leave(l)
    <3>1. [listener[l] EXCEPT !.left = IF @ = Never THEN now ELSE @] \in Visitor
      BY <2>1 DEF Visitor, Never
    <3>2. beacons[l] > 0 /\ beacons' = [beacons EXCEPT ![l] = @ - 1]
      BY <2>5 DEF Leave
    <3> QED BY <2>1, <2>5, <3>1, <3>2 DEF Leave
  <2> QED BY <2>2, <2>3, <2>4, <2>5 DEF Visit
<1>3. TypeOK'
  BY <1>1, <1>2 DEF IInv, TypeOK
<1>4. now \in Nat
  BY DEF IInv, TypeOK
<1> QED BY <1>1, <1>3, <1>4, RowsAlone DEF IInv

LEMMA StartPreserves ==
  ASSUME IInv, NEW p \in Programs, Start(p)
  PROVE  IInv'
<1>1. TypeOK' /\ Started'
  BY DEF IInv, TypeOK, Started, Start, LiveSessions, visiting
<1>2. \A s \in LiveSessions : s \in Programs /\ session[s].status # "none"
  BY DEF LiveSessions, Offered
<1>3. Unborn'
  BY <1>2 DEF IInv, TypeOK, Unborn, Start
<1>4. Cleared'
  BY DEF IInv, TypeOK, Cleared, Start
<1>5. Unsettled' /\ SettledIsClosed'
  BY DEF IInv, TypeOK, Unsettled, SettledIsClosed, Shared, Start
<1>6. TakesOverItsRoom'
  BY DEF IInv, TypeOK, Unborn, TakesOverItsRoom, Start
<1> QED BY <1>1, <1>3, <1>4, <1>5, <1>6 DEF IInv

LEMMA PassOverPreserves ==
  ASSUME IInv, NEW p \in Programs, PassOver(p)
  PROVE  IInv'
<1>1. PICK old \in todo[p] : NextOf(p, old) /\ RoomOf[old] # RoomOf[p]
  BY DEF PassOver
<1>2. todo' = [todo EXCEPT ![p] = @ \ {old}] /\ UNCHANGED <<now, session, program, runs, found, visiting>>
  BY <1>1 DEF PassOver, NextOf
<1>3. TypeOK' /\ Started'
  BY <1>2 DEF IInv, TypeOK, Started, visiting
<1>4. Unborn' /\ Unsettled' /\ SettledIsClosed' /\ TakesOverItsRoom'
  BY <1>2 DEF IInv, TypeOK, Unborn, Unsettled, SettledIsClosed, TakesOverItsRoom, Shared
<1>5. Cleared'
  BY <1>1, <1>2 DEF IInv, TypeOK, Cleared
<1> QED BY <1>3, <1>4, <1>5 DEF IInv

LEMMA ReusePreserves ==
  ASSUME IInv, NEW p \in Programs, Reuse(p)
  PROVE  IInv'
<1>1. PICK old \in todo[p] : NextOf(p, old) /\ runs' = [runs EXCEPT ![p] = old]
  BY DEF Reuse
<1>2. /\ program[p] = "listing" /\ todo' = [todo EXCEPT ![p] = @ \ {old}]
      /\ program' = [program EXCEPT ![p] = "loading"]
      /\ UNCHANGED <<now, session, found, visiting>>
  BY <1>1 DEF Reuse, NextOf, Facing
<1>3. /\ old \in Programs /\ old \in found[p] /\ session[old].status # "none"
      /\ runs[p] = Nobody /\ session[p].ended = Never
  BY <1>2 DEF IInv, TypeOK, Unborn
<1>4. TypeOK' /\ Started'
  BY <1>1, <1>2, <1>3 DEF IInv, TypeOK, Started, visiting
<1>5. Unborn' /\ Cleared'
  BY <1>1, <1>2, <1>3 DEF IInv, TypeOK, Unborn, Cleared
<1>6. \A s \in Programs : Shared(s) => Shared(s)'
  BY <1>1, <1>3 DEF IInv, TypeOK, Shared
<1>7. Unsettled'
  BY <1>2, <1>3, <1>6 DEF IInv, TypeOK, Unsettled
<1>8. SettledIsClosed' /\ TakesOverItsRoom'
  BY <1>2, <1>6 DEF IInv, SettledIsClosed, TakesOverItsRoom
<1> QED BY <1>4, <1>5, <1>7, <1>8 DEF IInv

LEMMA CrashPreserves ==
  ASSUME IInv, NEW p \in Programs, Crash(p)
  PROVE  IInv'
<1>1. TypeOK' /\ Started'
  BY DEF IInv, TypeOK, Started, Crash, visiting
<1>2. Unborn' /\ Cleared'
  BY DEF IInv, TypeOK, Unborn, Cleared, Crash
<1>3. Unsettled' /\ SettledIsClosed' /\ TakesOverItsRoom'
  BY DEF IInv, TypeOK, Unsettled, SettledIsClosed, TakesOverItsRoom, Shared, Crash
<1> QED BY <1>1, <1>2, <1>3 DEF IInv

-----------------------------------------------------------------------------
(* The steps that write a row.                                             *)

LEMMA SupersedePreserves ==
  ASSUME IInv, NEW p \in Programs, Supersede(p)
  PROVE  IInv'
<1>1. PICK old \in todo[p] :
        /\ NextOf(p, old) /\ RoomOf[old] = RoomOf[p]
        /\ \/ MayEnd(old) /\ EndSession(old, "superseded") /\ UNCHANGED program
           \/ ~MayEnd(old) /\ program' = [program EXCEPT ![p] = "dead"] /\ UNCHANGED session
  BY DEF Supersede
<1>2. /\ p \in Services /\ program[p] = "listing" /\ todo' = [todo EXCEPT ![p] = @ \ {old}]
      /\ UNCHANGED <<now, runs, found, visiting>>
  BY <1>1 DEF Supersede, NextOf, Facing
<1>3. /\ old \in Programs /\ old \in found[p] /\ session[old].status # "none"
      /\ session[p].status = "none"
  BY <1>2 DEF IInv, TypeOK, Unborn
<1>4. CASE ~MayEnd(old) /\ program' = [program EXCEPT ![p] = "dead"] /\ UNCHANGED session
  <2>1. TypeOK' /\ Started'
    BY <1>2, <1>4 DEF IInv, TypeOK, Started, visiting
  <2>2. Unborn' /\ Cleared'
    BY <1>2, <1>4 DEF IInv, TypeOK, Unborn, Cleared
  <2>3. Unsettled' /\ SettledIsClosed' /\ TakesOverItsRoom'
    BY <1>2, <1>4 DEF IInv, TypeOK, Unsettled, SettledIsClosed, TakesOverItsRoom, Shared
  <2> QED BY <2>1, <2>2, <2>3 DEF IInv
<1>5. CASE MayEnd(old) /\ EndSession(old, "superseded") /\ UNCHANGED program
  <2>1. /\ session' \in [Programs -> Row]
        /\ \A t \in Programs : t # old => session'[t] = session[t]
        /\ session'[old].ended = now /\ session'[old].reason = "superseded"
        /\ session'[old].started = session[old].started
        /\ session'[old].billed # Never
        /\ session'[old].status \in {"ended", "failed"}
    BY <1>3, <1>5, RowsAfterEnd
  <2>2. session[old].ended = Never /\ now # Never /\ session[old].started <= now
    BY <1>3, <1>5 DEF MayEnd, IInv, TypeOK, Started, Never
  <2>3. TypeOK' /\ Started'
    <3>1. \A s \in Programs : session'[s].billed = Never <=> session'[s].ended = Never
      BY <2>1, <2>2 DEF IInv, TypeOK
    <3> QED BY <1>2, <1>5, <2>1, <2>2, <3>1 DEF IInv, TypeOK, Started, visiting
  <2>4. Unborn'
    <3>1. \A s \in Programs : session[s].status # "none" => session'[s].status # "none"
      BY <2>1
    <3> QED BY <1>2, <1>3, <1>5, <2>1, <3>1 DEF IInv, TypeOK, Unborn
  <2>5. Cleared'
    <3>1. \A s \in Programs : session[s].ended # Never => session'[s].ended # Never
      BY <2>1, <2>2
    <3> QED BY <1>2, <1>5, <2>1, <2>2, <3>1 DEF IInv, TypeOK, Cleared
  <2>6. Unsettled' /\ SettledIsClosed'
    BY <1>2, <1>5, <2>1, <2>2 DEF IInv, Unsettled, SettledIsClosed, Shared
  <2>7. TakesOverItsRoom'
    <3>1. \A s \in Programs : session[s].ended # Never => session'[s].ended # Never
      BY <2>1, <2>2
    <3>2. p # old /\ \A s \in Programs : session'[s].status # "none" => session[s].status # "none"
      BY <1>3, <2>1
    <3>3. \A s \in Programs : session'[s].status # "none" =>
            \A t \in found[s] : RoomOf[t] = RoomOf[s] => s \in Services /\ session'[t].ended # Never
      <4> SUFFICES ASSUME NEW s \in Programs, session'[s].status # "none", NEW t \in found[s],
                          RoomOf[t] = RoomOf[s]
                   PROVE  s \in Services /\ session'[t].ended # Never
        OBVIOUS
      <4>1. t \in Programs
        BY DEF IInv, TypeOK
      <4> QED BY <3>1, <3>2, <4>1 DEF IInv, TakesOverItsRoom
    <3>4. \A s \in Programs : session'[s].reason = "superseded" =>
            \E new \in Services : new # s /\ RoomOf[new] = RoomOf[s] /\ s \in found[new]
      BY <1>1, <1>2, <1>3, <2>1, <3>2 DEF IInv, TakesOverItsRoom
    <3> QED BY <1>2, <3>3, <3>4 DEF TakesOverItsRoom
  <2> QED BY <2>3, <2>4, <2>5, <2>6, <2>7 DEF IInv
<1> QED BY <1>1, <1>4, <1>5

LEMMA CreateSessionPreserves ==
  ASSUME IInv, NEW p \in Programs, CreateSession(p)
  PROVE  IInv'
<1>1. /\ program[p] = "listing" /\ todo[p] = {}
      /\ runs' = [runs EXCEPT ![p] = p]
      /\ program' = [program EXCEPT ![p] = IF p \in Services THEN "created" ELSE "loading"]
      /\ UNCHANGED <<now, todo, found, visiting>>
  BY DEF CreateSession
<1>2. /\ session' \in [Programs -> Row]
      /\ \A t \in Programs : t # p => session'[t] = session[t]
      /\ session'[p].status = "starting" /\ session'[p].started = now
      /\ session'[p].ended = session[p].ended /\ session'[p].reason = session[p].reason
      /\ session'[p].billed = session[p].billed
  BY RowsAfterCreate
<1>3. session[p].ended = Never /\ session[p].reason = "none" /\ runs[p] = Nobody
  BY <1>1 DEF IInv, Unborn
<1>4. TypeOK' /\ Started'
  <2>1. now \in 0..MaxTime
    BY DEF IInv, TypeOK
  <2>2. \A s \in Programs : session'[s].billed = Never <=> session'[s].ended = Never
    BY <1>2 DEF IInv, TypeOK
  <2>3. Started'
    BY <1>1, <1>2, <2>1 DEF IInv, Started
  <2> QED BY <1>1, <1>2, <2>2, <2>3 DEF IInv, TypeOK, visiting
<1>5. Unborn'
  <2>1. \A s \in Programs : session[s].status # "none" => session'[s].status # "none"
    BY <1>2
  <2>2. /\ program' \in [Programs -> {"down", "listing", "created", "loading", "running", "over", "dead"}]
        /\ program'[p] \in {"created", "loading"} /\ runs'[p] = p
        /\ \A q \in Programs : q # p => program'[q] = program[q] /\ runs'[q] = runs[q]
    BY <1>1 DEF IInv, TypeOK
  <2> SUFFICES ASSUME NEW q \in Programs
               PROVE  /\ program'[q] \in {"down", "listing"} => runs'[q] = Nobody /\ session'[q].status = "none"
                      /\ program'[q] = "down" => found[q] = {}
                      /\ todo[q] \subseteq found[q]
                      /\ \A s \in found[q] : session'[s].status # "none"
                      /\ runs'[q] \in Programs => session'[runs'[q]].status # "none"
                      /\ session'[q].status = "none" => session'[q].ended = Never /\ session'[q].reason = "none"
    BY <1>1 DEF Unborn
  <2>3. todo[q] \subseteq found[q] /\ \A s \in found[q] : session'[s].status # "none"
    BY <2>1 DEF IInv, TypeOK, Unborn
  <2>4. CASE q = p
    BY <1>2, <2>2, <2>3, <2>4
  <2>5. CASE q # p
    <3>1. program'[q] = program[q] /\ runs'[q] = runs[q] /\ session'[q] = session[q]
      BY <1>2, <2>2, <2>5
    <3> QED BY <2>1, <2>3, <3>1 DEF IInv, Unborn
  <2> QED BY <2>4, <2>5
<1>6. \A s \in Programs : session'[s].ended = session[s].ended /\ session'[s].reason = session[s].reason
  BY <1>2
<1>7. Cleared'
  BY <1>1, <1>6 DEF IInv, TypeOK, Cleared
<1>8. \A s \in Programs : Shared(s) => Shared(s)'
  BY <1>1, <1>3 DEF IInv, TypeOK, Shared
<1>9. Unsettled'
  BY <1>1, <1>3, <1>6, <1>8 DEF IInv, TypeOK, Unsettled
<1>10. SettledIsClosed'
  BY <1>2, <1>3, <1>8 DEF IInv, SettledIsClosed
<1>11. TakesOverItsRoom'
  <2>1. \A s \in Programs : session'[s].status # "none" =>
          \A t \in found[s] : RoomOf[t] = RoomOf[s] => s \in Services /\ session'[t].ended # Never
    <3> SUFFICES ASSUME NEW s \in Programs, session'[s].status # "none", NEW t \in found[s],
                        RoomOf[t] = RoomOf[s]
                 PROVE  s \in Services /\ session'[t].ended # Never
      OBVIOUS
    <3>1. t \in Programs
      BY DEF IInv, TypeOK
    <3>2. CASE s = p
      BY <1>1, <1>6, <3>1, <3>2 DEF IInv, Cleared
    <3>3. CASE s # p
      BY <1>2, <1>6, <3>1, <3>3 DEF IInv, TakesOverItsRoom
    <3> QED BY <3>2, <3>3
  <2>2. \A s \in Programs : session'[s].reason = "superseded" =>
          \E new \in Services : new # s /\ RoomOf[new] = RoomOf[s] /\ s \in found[new]
    BY <1>6 DEF IInv, TakesOverItsRoom
  <2> QED BY <1>1, <2>1, <2>2 DEF TakesOverItsRoom
<1> QED BY <1>4, <1>5, <1>7, <1>9, <1>10, <1>11 DEF IInv

LEMMA GoLivePreserves ==
  ASSUME IInv, NEW p \in Programs, GoLive(p)
  PROVE  IInv'
<1>0. PICK s0 : s0 = runs[p]
  OBVIOUS
<1>1. /\ program[p] \in {"created", "loading"} /\ s0 \in Programs /\ MarkLive(s0)
      /\ \/ program' = [program EXCEPT ![p] = "loading"]
         \/ program' = [program EXCEPT ![p] = "running"]
      /\ UNCHANGED <<now, runs, todo, found, visiting>>
  BY <1>0 DEF GoLive, Announced, Loaded, IInv, TypeOK
<1>2. /\ session' \in [Programs -> Row]
      /\ \A t \in Programs : t # s0 => session'[t] = session[t]
      /\ session'[s0].status = "live" /\ session'[s0].started = session[s0].started
      /\ session'[s0].ended = session[s0].ended /\ session'[s0].reason = session[s0].reason
      /\ session'[s0].billed = session[s0].billed
  BY <1>1, RowsAfterLive
<1>3. session[s0].status # "none"
  BY <1>1, <1>0 DEF IInv, Unborn
<1>4. \A s \in Programs :
        /\ session'[s].ended = session[s].ended /\ session'[s].reason = session[s].reason
        /\ session'[s].started = session[s].started /\ session'[s].billed = session[s].billed
        /\ session'[s].status = "none" <=> session[s].status = "none"
  BY <1>2, <1>3
<1>5. /\ program' \in [Programs -> {"down", "listing", "created", "loading", "running", "over", "dead"}]
      /\ program'[p] \in {"loading", "running"}
      /\ \A q \in Programs : q # p => program'[q] = program[q]
  BY <1>1 DEF IInv, TypeOK
<1>6. TypeOK' /\ Started'
  <2>1. \A q \in Programs : program'[q] \in {"created", "loading", "running"} => runs[q] \in Programs
    BY <1>5, <1>1 DEF IInv, TypeOK
  <2>2. \A s \in Programs : session'[s].billed = Never <=> session'[s].ended = Never
    BY <1>4 DEF IInv, TypeOK
  <2>3. Started'
    BY <1>1, <1>4 DEF IInv, Started
  <2> QED BY <1>5, <1>1, <1>2, <2>1, <2>2, <2>3 DEF IInv, TypeOK, visiting
<1>7. Unborn' /\ Cleared'
  <2>1. \A q \in Programs : program'[q] \in {"down", "listing"} => program'[q] = program[q]
    BY <1>5
  <2>2. \A q \in Programs : found[q] \subseteq Programs
    BY DEF IInv, TypeOK
  <2>3. Unborn'
    BY <1>1, <1>4, <2>1, <2>2 DEF IInv, Unborn
  <2>4. Cleared'
    BY <1>1, <1>4, <2>1, <2>2 DEF IInv, Cleared
  <2> QED BY <2>3, <2>4
<1>8. Unsettled'
  <2>1. \A q \in Programs : Shared(q)' <=> Shared(q)
    BY <1>1 DEF Shared
  <2> QED BY <1>5, <1>1, <1>4, <2>1 DEF IInv, Unsettled
<1>9. SettledIsClosed'
  <2>1. (session[s0].ended # Never /\ session[s0].reason # "superseded") => Shared(s0)
    <3>1. CASE s0 = p
      BY <1>1, <3>1 DEF IInv, Unsettled
    <3>2. CASE s0 # p
      BY <1>1, <1>0, <3>2 DEF Shared
    <3> QED BY <3>1, <3>2
  <2>2. \A s \in Programs : Shared(s)' <=> Shared(s)
    BY <1>1 DEF Shared
  <2> QED BY <1>1, <1>2, <1>4, <2>1, <2>2 DEF IInv, SettledIsClosed
<1>10. TakesOverItsRoom'
  <2>1. \A q \in Programs : found[q] \subseteq Programs
    BY DEF IInv, TypeOK
  <2> QED BY <1>1, <1>4, <2>1 DEF IInv, TakesOverItsRoom
<1> QED BY <1>6, <1>7, <1>8, <1>9, <1>10 DEF IInv

LEMMA SettlePreserves ==
  ASSUME IInv, NEW p \in Programs, Settle(p)
  PROVE  IInv'
<1>0. PICK s0 : s0 = runs[p]
  OBVIOUS
<1>1. /\ program[p] = "running" /\ s0 \in Programs
      /\ program' = [program EXCEPT ![p] = "over"]
      /\ UNCHANGED <<now, runs, todo, found, visiting>>
  BY <1>0 DEF Settle, IInv, TypeOK
<1>2. CASE UNCHANGED session
  <2>1. TypeOK' /\ Started'
    BY <1>1, <1>2 DEF IInv, TypeOK, Started, visiting
  <2>2. Unborn' /\ Cleared'
    BY <1>1, <1>2 DEF IInv, TypeOK, Unborn, Cleared
  <2>3. Unsettled' /\ SettledIsClosed' /\ TakesOverItsRoom'
    BY <1>1, <1>2 DEF IInv, TypeOK, Unsettled, SettledIsClosed, TakesOverItsRoom, Shared
  <2> QED BY <2>1, <2>2, <2>3 DEF IInv
<1>3. CASE MayEnd(s0) /\ \E reason \in {"none", "fault"} : EndSession(s0, reason)
  <2>1. PICK reason \in {"none", "fault"} : EndSession(s0, reason)
    BY <1>3
  <2>2. /\ session' \in [Programs -> Row]
        /\ \A t \in Programs : t # s0 => session'[t] = session[t]
        /\ session'[s0].ended = now /\ session'[s0].reason = reason
        /\ session'[s0].started = session[s0].started
        /\ session'[s0].billed # Never
        /\ session'[s0].status \in {"ended", "failed"}
        /\ session'[s0].status = "failed" => reason # "none"
    BY <1>1, <2>1, RowsAfterEnd
  <2>3. /\ session[s0].ended = Never /\ now # Never /\ session[s0].started <= now
        /\ session[s0].status # "none"
    BY <1>0, <1>1, <1>3 DEF MayEnd, IInv, TypeOK, Started, Unborn, Never
  <2>4. TypeOK' /\ Started'
    <3>1. \A s \in Programs : session'[s].billed = Never <=> session'[s].ended = Never
      <4>1. session'[s0].billed # Never /\ session'[s0].ended # Never
        BY <2>2, <2>3
      <4>2. \A s \in Programs : s # s0 => session'[s] = session[s]
        BY <2>2
      <4>3. \A s \in Programs : session[s].billed = Never <=> session[s].ended = Never
        BY DEF IInv, TypeOK
      <4> QED BY <4>1, <4>2, <4>3
    <3> QED BY <1>1, <2>2, <2>3, <3>1 DEF IInv, TypeOK, Started, visiting
  <2>5. \A s \in Programs :
          /\ session[s].ended # Never => session'[s].ended # Never
          /\ session'[s].status = "none" <=> session[s].status = "none"
    BY <2>2, <2>3
  <2>6. Unborn'
    <3>1. /\ \A q \in Programs : program'[q] \in {"down", "listing"} => program'[q] = program[q]
          /\ \A q \in Programs : found[q] \subseteq Programs
      BY <1>1 DEF IInv, TypeOK
    <3>2. \A q \in Programs : session'[q].status = "none" => session'[q] = session[q]
      BY <2>2
    <3> QED BY <1>1, <2>5, <3>1, <3>2 DEF IInv, Unborn
  <2>7. Cleared'
    BY <1>1, <2>5 DEF IInv, TypeOK, Cleared
  <2>8. Unsettled'
    <3>1. s0 # p => Shared(s0)
      BY <1>0 DEF Shared
    <3> QED BY <1>1, <2>2, <3>1 DEF IInv, TypeOK, Unsettled, Shared
  <2>9. SettledIsClosed'
    BY <1>1, <2>2, <2>3 DEF IInv, SettledIsClosed, Shared
  <2>10. TakesOverItsRoom'
    BY <1>1, <2>2, <2>5 DEF IInv, TypeOK, TakesOverItsRoom
  <2> QED BY <2>4, <2>6, <2>7, <2>8, <2>9, <2>10 DEF IInv
<1> QED BY <1>0, <1>2, <1>3 DEF Settle

-----------------------------------------------------------------------------

LEMMA Invariance == Spec => []IInv
<1>1. Init => IInv
  BY DEF Init, IInv, TypeOK, Row, Visitor, Started, Unborn, Cleared, Unsettled, TakesOverItsRoom,
         SettledIsClosed, Never
<1>2. IInv /\ [Next]_vars => IInv'
  <2> SUFFICES ASSUME IInv, [Next]_vars PROVE IInv'
    OBVIOUS
  <2>1. CASE UNCHANGED vars
    <3>1. now \in Nat /\ TypeOK' /\ UNCHANGED <<now, session, program, runs, todo, found>>
      BY <2>1 DEF vars, serving, visiting, IInv, TypeOK
    <3> QED BY <3>1, RowsAlone DEF IInv
  <2>2. ASSUME NEW p \in Programs, Serve(p) PROVE IInv'
    BY <2>2, StartPreserves, PassOverPreserves, SupersedePreserves, ReusePreserves,
       CreateSessionPreserves, GoLivePreserves, SettlePreserves, CrashPreserves DEF Serve
  <2> QED BY <2>1, <2>2, TickPreserves, VisitPreserves DEF Next
<1> QED BY <1>1, <1>2, PTL DEF Spec

\* The rows and the programs keep their types, and what has ended is billed.
THEOREM TypeCorrect == Spec => []TypeOK
BY Invariance, PTL DEF IInv

\* However many services and replays are started, in whatever rooms and however
\* they interleave and crash, a room is taken over whole, and no other is.
THEOREM RoomIsTakenOver == Spec => []TakesOverItsRoom
BY Invariance, PTL DEF IInv

\* A session settled by its own program, and run by no other, stays closed.
THEOREM SettledStaysClosed == Spec => []SettledIsClosed
BY Invariance, PTL DEF IInv

\* A statement that writes rows leaves those that have ended as they are, in
\* all that is billed.
LEMMA ServeKeepsEnded ==
  ASSUME IInv, NEW p \in Programs, Serve(p), NEW s \in Programs, session[s].ended # Never
  PROVE  /\ session'[s].ended = session[s].ended
         /\ session'[s].billed = session[s].billed
         /\ session'[s].reason = session[s].reason
<1>1. CASE Start(p) \/ PassOver(p) \/ Reuse(p) \/ Crash(p)
  BY <1>1 DEF Start, PassOver, Reuse, Crash
<1>2. ASSUME NEW t \in Programs, NEW reason \in {"none", "superseded", "fault"},
             MayEnd(t), EndSession(t, reason)
      PROVE  session'[s] = session[s]
  <2>1. t # s
    BY <1>2 DEF MayEnd
  <2> QED BY <1>2, <2>1, RowsAfterEnd
<1>3. CASE Supersede(p)
  <2>1. todo[p] \subseteq Programs
    BY DEF IInv, TypeOK
  <2> QED BY <1>2, <1>3, <2>1 DEF Supersede
<1>4. CASE CreateSession(p)
  BY <1>4, RowsAfterCreate
<1>5. CASE GoLive(p)
  <2>1. runs[p] \in Programs /\ MarkLive(runs[p])
    BY <1>5 DEF GoLive, Announced, Loaded, IInv, TypeOK
  <2> QED BY <2>1, RowsAfterLive
<1>6. CASE Settle(p)
  <2>1. runs[p] \in Programs
    BY <1>6 DEF Settle, IInv, TypeOK
  <2> QED BY <1>2, <1>6, <2>1 DEF Settle
<1> QED BY <1>1, <1>3, <1>4, <1>5, <1>6 DEF Serve

LEMMA VisitKeepsDeparture ==
  ASSUME IInv, NEW l \in Listeners, Visit(l), NEW m \in Listeners, listener[m].left # Never
  PROVE  listener'[m].left = listener[m].left
<1>1. listener \in [Listeners -> Visitor] /\ listener[l] \in Visitor
  BY DEF IInv, TypeOK
<1>2. CASE m # l
  BY <1>1, <1>2 DEF Visit, LookUpRoom, OpenLink, ReadSession, Join, Depart, Leave
<1>3. CASE m = l
  <2>1. /\ [listener[l] EXCEPT !.at = "admitted"].left = listener[l].left
        /\ [listener[l] EXCEPT !.at = "listening"].left = listener[l].left
        /\ [listener[l] EXCEPT !.at = "gone"].left = listener[l].left
        /\ [listener[l] EXCEPT !.at = "away", !.session = Nobody].left = listener[l].left
    BY <1>1 DEF Visitor
  <2>2. CASE LookUpRoom(l) \/ OpenLink(l)
    <3>1. PICK s \in Programs : listener' = [listener EXCEPT ![l].at = "chosen", ![l].session = s]
      BY <2>2 DEF LookUpRoom, OpenLink, LiveSessions
    <3>2. [listener[l] EXCEPT !.at = "chosen", !.session = s].left = listener[l].left
      BY <1>1 DEF Visitor
    <3> QED BY <1>1, <1>3, <3>1, <3>2
  <2>3. CASE ReadSession(l) \/ Join(l) \/ Depart(l)
    BY <1>1, <1>3, <2>1, <2>3 DEF ReadSession, Join, Depart
  <2>4. CASE Leave(l)
    <3>1. [listener[l] EXCEPT !.left = IF @ = Never THEN now ELSE @].left = listener[l].left
      BY <1>1, <1>3 DEF Visitor
    <3> QED BY <1>1, <1>3, <2>4, <3>1 DEF Leave
  <2> QED BY <2>2, <2>3, <2>4 DEF Visit
<1> QED BY <1>2, <1>3

\* A bill once settled never alters, whoever else runs the session, and the
\* first report of a departure stands.
THEOREM BillsAreFinal == Spec => ClosedRowsAreFinal
<1> DEFINE Final ==
      /\ \A s \in Programs :
           session[s].ended # Never =>
             /\ session'[s].ended = session[s].ended
             /\ session'[s].billed = session[s].billed
             /\ session'[s].reason = session[s].reason
      /\ \A l \in Listeners :
           listener[l].left # Never => listener'[l].left = listener[l].left
<1>1. IInv /\ [Next]_vars => [Final]_vars
  <2> SUFFICES ASSUME IInv, Next PROVE Final
    OBVIOUS
  <2>1. CASE Tick
    BY <2>1 DEF Tick, visiting
  <2>2. ASSUME NEW p \in Programs, Serve(p) PROVE Final
    <3>1. listener' = listener
      BY <2>2 DEF Serve, Start, PassOver, Supersede, Reuse, CreateSession, GoLive, Announced, Loaded, Settle, Crash, visiting
    <3> QED BY <2>2, <3>1, ServeKeepsEnded
  <2>3. ASSUME NEW l \in Listeners, Visit(l) PROVE Final
    <3>1. session' = session
      BY <2>3 DEF Visit, LookUpRoom, OpenLink, ReadSession, Join, Depart, Leave
    <3> QED BY <2>3, <3>1, VisitKeepsDeparture
  <2> QED BY <2>1, <2>2, <2>3 DEF Next
<1> QED BY <1>1, Invariance, PTL DEF Spec, ClosedRowsAreFinal

-----------------------------------------------------------------------------
(* The transcripts, which are written over the same rows of sessions.      *)

\* The programs with transcripts are the programs of SessionStore, and what is
\* proved of those holds of them.
THEOREM ImplementsStore == TSpec => Spec
<1>1. TInit => Init
  BY DEF TInit
<1>2. [TNext]_tvars => [Next]_vars
  BY DEF TNext, tvars, Persist
<1> QED BY <1>1, <1>2, PTL DEF TSpec, Spec

Texts == [source : Programs \union {Nobody}, translated : Programs \union {Nobody}]

RowsType == rows \in [Programs -> [Chunks -> Texts]]

\* A row has texts only of programs that run its session.
RowsOwned ==
  \A s \in Programs, c \in Chunks :
    /\ rows[s][c].source # Nobody => runs[rows[s][c].source] = s
    /\ rows[s][c].translated # Nobody => rows[s][c].source # Nobody /\ runs[rows[s][c].translated] = s

\* What a program runs it runs for good.
LEMMA RunsStay ==
  ASSUME IInv, [Next]_vars, NEW p \in Programs, runs[p] \in Programs
  PROVE  runs'[p] = runs[p]
<1>1. runs \in [Programs -> Programs \union {Nobody}]
  BY DEF IInv, TypeOK
<1>2. CASE UNCHANGED vars
  BY <1>2 DEF vars, serving
<1>3. CASE Tick
  BY <1>3 DEF Tick, serving
<1>4. ASSUME NEW l \in Listeners, Visit(l) PROVE runs'[p] = runs[p]
  BY <1>4 DEF Visit, LookUpRoom, OpenLink, ReadSession, Join, Depart, Leave, serving
<1>5. ASSUME NEW q \in Programs, Serve(q) PROVE runs'[p] = runs[p]
  <2>1. CASE Reuse(q) \/ CreateSession(q)
    <3>1. program[q] = "listing"
      BY <2>1 DEF Reuse, CreateSession, NextOf, Facing
    <3>2. runs[q] = Nobody
      BY <3>1 DEF IInv, Unborn
    <3>3. q # p
      BY <3>2
    <3> QED BY <1>1, <2>1, <3>3 DEF Reuse, CreateSession
  <2>2. CASE ~(Reuse(q) \/ CreateSession(q))
    BY <1>5, <2>2 DEF Serve, Start, PassOver, Supersede, GoLive, Settle, Crash
  <2> QED BY <2>1, <2>2
<1> QED BY <1>2, <1>3, <1>4, <1>5 DEF Next

LEMMA PersistPreserves ==
  ASSUME IInv, RowsType, RowsOwned, NEW p \in Programs, Persist(p)
  PROVE  RowsType' /\ RowsOwned'
<1>0. PICK s0 : s0 = runs[p]
  OBVIOUS
<1>1. s0 \in Programs /\ UNCHANGED runs
  BY <1>0 DEF Persist, IInv, TypeOK, vars, serving
<1>2. PICK c0 \in (chunk[p] + 1)..MaxChunks[p] :
        RecordTranscript(s0, c0, p)
  BY <1>0 DEF Persist, SessionId
<1>3. rows' = [rows EXCEPT ![s0][c0] = Upserted(rows[s0][c0], p)]
  BY <1>2 DEF RecordTranscript
<1>4. ASSUME NEW row \in Texts
      PROVE  /\ Upserted(row, p) \in Texts
             /\ Upserted(row, p).translated = p
             /\ Upserted(row, p).source = IF row.source = Nobody THEN p ELSE row.source
  BY DEF Upserted, Texts
<1>5. RowsType'
  BY <1>1, <1>3, <1>4 DEF RowsType
<1>6. RowsOwned'
  <2> SUFFICES ASSUME NEW s \in Programs, NEW c \in Chunks
               PROVE  /\ rows'[s][c].source # Nobody => runs[rows'[s][c].source] = s
                      /\ rows'[s][c].translated # Nobody =>
                           rows'[s][c].source # Nobody /\ runs[rows'[s][c].translated] = s
    BY <1>1 DEF RowsOwned
  <2>1. CASE s = s0 /\ c = c0
    <3>1. rows[s][c] \in Texts
      BY DEF RowsType
    <3>2. rows'[s][c] = Upserted(rows[s][c], p)
      BY <1>3, <2>1 DEF RowsType
    <3> QED BY <1>0, <1>4, <2>1, <3>1, <3>2 DEF RowsOwned
  <2>2. CASE ~(s = s0 /\ c = c0)
    <3>1. rows'[s][c] = rows[s][c]
      BY <1>3, <2>2 DEF RowsType
    <3> QED BY <3>1 DEF RowsOwned
  <2> QED BY <2>1, <2>2
<1> QED BY <1>5, <1>6

\* However programs interleave, crash and take up each other's sessions, only in a
\* session two of them have run can a translation stand beside another's text.
THEOREM TranscriptsAreWhole == TSpec => []TranscriptsPaired
<1>1. TInit => RowsType /\ RowsOwned
  BY DEF TInit, RowsType, RowsOwned, Texts
<1>2. ASSUME IInv, RowsType, RowsOwned, [TNext]_tvars PROVE RowsType' /\ RowsOwned'
  <2>1. CASE UNCHANGED rows /\ [Next]_vars
    <3>1. RowsType'
      BY <1>2, <2>1 DEF RowsType
    <3>2. ASSUME NEW q \in Programs, runs[q] \in Programs PROVE runs'[q] = runs[q]
      BY <1>2, <2>1, <3>2, RunsStay
    <3>3. \A s \in Programs, c \in Chunks : rows[s][c] \in Texts
      BY <1>2 DEF RowsType
    <3>4. \A s \in Programs, c \in Chunks :
            /\ rows[s][c].source \in Programs \union {Nobody}
            /\ rows[s][c].translated \in Programs \union {Nobody}
      BY <3>3 DEF Texts
    <3> QED BY <1>2, <2>1, <3>1, <3>2, <3>4 DEF RowsOwned
  <2>2. ASSUME NEW p \in Programs, Persist(p) PROVE RowsType' /\ RowsOwned'
    BY <1>2, <2>2, PersistPreserves
  <2> QED BY <1>2, <2>1, <2>2 DEF TNext, tvars, vars
<1>3. RowsType /\ RowsOwned => TranscriptsPaired
  <2> SUFFICES ASSUME RowsType, RowsOwned, NEW s \in Programs, ~Shared(s),
                      NEW c \in Chunks, rows[s][c].translated # Nobody
               PROVE  rows[s][c].source = s /\ rows[s][c].translated = s
    BY DEF TranscriptsPaired, Transcript
  <2>1. rows[s][c].source \in Programs \union {Nobody} /\ rows[s][c].translated \in Programs \union {Nobody}
    <3>1. rows[s][c] \in Texts
      BY DEF RowsType
    <3> QED BY <3>1 DEF Texts
  <2> QED BY <2>1 DEF RowsOwned, Shared
<1>4. Spec => []IInv
  BY Invariance
<1>5. TSpec => []IInv
  BY <1>4, ImplementsStore, PTL
<1> QED BY <1>1, <1>2, <1>3, <1>5, PTL DEF TSpec
=============================================================================
