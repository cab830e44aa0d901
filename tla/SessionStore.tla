----------------------------- MODULE SessionStore -----------------------------
(***************************************************************************)
(* The session and listener tables of one tenant (db/sessions.py), and the *)
(* four kinds of program that share them with nothing but single           *)
(* statements between them: the services started one after another for a   *)
(* room (tools/serve_session.py), each of which supersedes what it finds   *)
(* there, then runs a session of its own and settles it; the replays of a  *)
(* recording (tools/session_live.py), each of which takes up the session   *)
(* it finds in its room and creates one only where there is none; the join *)
(* API (api/join.py), which finds a room's session, reads it and registers *)
(* a listener; and the pages that report their listeners leaving.          *)
(*                                                                         *)
(* A statement is atomic; between two statements anything may happen.  A   *)
(* session is named by the program that creates it.                        *)
(***************************************************************************)
EXTENDS Integers, FiniteSets

CONSTANTS
  Services,   \* runs of serve_session
  Replays,    \* runs of session_live
  RoomOf,     \* the room each is started for
  Listeners,  \* visits of the join page, one listener_id each
  MaxTime     \* bound on the clock

Programs == Services \union Replays
Never == -1
Nobody == "nobody"

ASSUME StoreAssumption ==
  /\ Services \intersect Replays = {} /\ Nobody \notin Programs
  /\ RoomOf \in [Programs -> {RoomOf[p] : p \in Programs}]
  /\ MaxTime \in Nat

VARIABLES
  now,        \* the database's clock
  session,    \* translation_sessions
  program,    \* what each program is doing
  runs,       \* config.session_id: the session it runs
  todo,       \* the sessions its first loop has still to look at
  found,      \* history: the sessions that loop was given
  listener,   \* session_listeners, with what the page behind the row is doing
  beacons     \* departure reports on their way

serving == <<program, runs, todo, found>>
visiting == <<listener, beacons>>
vars == <<now, session, serving, visiting>>

Init ==
  /\ now = 0
  /\ session = [s \in Programs |->
       [status |-> "none", started |-> 0, ended |-> Never, reason |-> "none", billed |-> Never]]
  /\ program = [p \in Programs |-> "down"] /\ runs = [p \in Programs |-> Nobody]
  /\ todo = [p \in Programs |-> {}] /\ found = [p \in Programs |-> {}]
  /\ listener = [l \in Listeners |-> [at |-> "away", session |-> Nobody, left |-> Never]]
  /\ beacons = [l \in Listeners |-> 0]

Tick ==
  /\ now < MaxTime /\ now' = now + 1
  /\ UNCHANGED <<session, serving, visiting>>

-----------------------------------------------------------------------------
(* The statements.                                                         *)

\* get_session: the row there is, whatever its status.
Found(s) == session[s].status # "none"

\* live_sessions, newest first.
Offered(s) == session[s].status \in {"starting", "live"}
LiveSessions == {s \in Programs : Offered(s)}
Newest(s, sessions) == s \in sessions /\ \A t \in sessions : session[t].started <= session[s].started

\* create_session: a new row is 'starting', from now on.
Created(row) == [row EXCEPT !.status = "starting", !.started = now]

\* end_session: the row it would update, and the update, which settles the bill.
MayEndAgain(s) == Found(s)
MayEnd(s) == session[s].ended = Never
SettledInPlace(row, reason) ==
  [row EXCEPT !.ended = now, !.reason = reason, !.billed = now - row.started]
Settled(row, reason) ==
  [status |-> IF reason = "none" THEN "ended" ELSE "failed", started |-> row.started,
   ended |-> now, reason |-> reason, billed |-> now - row.started]
EndSession(s, reason) == session' = [session EXCEPT ![s] = Settled(@, reason)]

\* mark_live.
MarkLive(s) == session' = [session EXCEPT ![s] = [@ EXCEPT !.status = "live"]]

-----------------------------------------------------------------------------
(* serve_session and session_live.                                         *)

\* Both begin with live_sessions.
Start(p) ==
  /\ program[p] = "down"
  /\ program' = [program EXCEPT ![p] = "listing"]
  /\ todo' = [todo EXCEPT ![p] = LiveSessions]
  /\ found' = [found EXCEPT ![p] = LiveSessions]
  /\ UNCHANGED <<now, session, runs, visiting>>

\* A turn of either loop looks at the next session, newest first; its room,
\* which get_session reads, never changes.
Facing(p, old) ==
  /\ program[p] = "listing" /\ todo[p] # {}
  /\ Newest(old, todo[p])
NextOfAny(p, old) == Facing(p, old) /\ todo' = [todo EXCEPT ![p] = {}]
NextOf(p, old) == Facing(p, old) /\ todo' = [todo EXCEPT ![p] = @ \ {old}]

\* A session of another room is passed over.
PassOver(p) ==
  /\ \E old \in todo[p] : NextOf(p, old) /\ RoomOf[old] # RoomOf[p]
  /\ UNCHANGED <<now, session, program, runs, found, visiting>>

\* serve_session ends what it finds in its room.  end_session raises
\* LookupError for a session that has ended already, and nothing catches it.
Supersede(p) ==
  /\ p \in Services
  /\ \E old \in todo[p] :
       /\ NextOf(p, old) /\ RoomOf[old] = RoomOf[p]
       /\ \/ MayEnd(old) /\ EndSession(old, "superseded") /\ UNCHANGED program
          \/ ~MayEnd(old) /\ program' = [program EXCEPT ![p] = "dead"] /\ UNCHANGED session
  /\ UNCHANGED <<now, runs, found, visiting>>

\* session_live joins it instead, and looks no further.
Reuse(p) ==
  /\ p \in Replays
  /\ \E old \in todo[p] :
       /\ NextOf(p, old) /\ RoomOf[old] = RoomOf[p]
       /\ runs' = [runs EXCEPT ![p] = old]
  /\ program' = [program EXCEPT ![p] = "loading"]
  /\ UNCHANGED <<now, session, found, visiting>>

\* create_session, once the loop is through.
CreateSession(p) ==
  /\ program[p] = "listing" /\ todo[p] = {}
  /\ session' = [session EXCEPT ![p] = Created(@)]
  /\ runs' = [runs EXCEPT ![p] = p]
  /\ program' = [program EXCEPT ![p] = IF p \in Services THEN "created" ELSE "loading"]
  /\ UNCHANGED <<now, todo, found, visiting>>

\* serve_session announces its session before it loads its models; either
\* program goes into run() when they are loaded and the room is open.
Announced(p) == program[p] = "created" /\ program' = [program EXCEPT ![p] = "loading"]
Loaded(p) == program[p] = "loading" /\ program' = [program EXCEPT ![p] = "running"]

\* Both times the session is marked live.
GoLive(p) ==
  /\ Announced(p) \/ Loaded(p)
  /\ MarkLive(runs[p])
  /\ UNCHANGED <<now, runs, todo, found, visiting>>

\* _settle; here LookupError is caught.
Settle(p) ==
  /\ program[p] = "running"
  /\ \/ MayEnd(runs[p]) /\ \E reason \in {"none", "fault"} : EndSession(runs[p], reason)
     \/ ~MayEnd(runs[p]) /\ UNCHANGED session
  /\ program' = [program EXCEPT ![p] = "over"]
  /\ UNCHANGED <<now, runs, todo, found, visiting>>

\* The program is killed, or raises while it connects and loads: whatever it
\* had written stays as it is.
Crash(p) ==
  /\ program[p] \notin {"down", "over", "dead"}
  /\ program' = [program EXCEPT ![p] = "dead"]
  /\ todo' = [todo EXCEPT ![p] = {}]
  /\ UNCHANGED <<now, session, runs, found, visiting>>

-----------------------------------------------------------------------------
(* The join API and the page.                                              *)

\* _load_room lists the live sessions and takes the newest of the room.
LookUpRoom(l) ==
  /\ listener[l].at = "away"
  /\ \E s \in LiveSessions :
       /\ Newest(s, {t \in LiveSessions : RoomOf[t] = RoomOf[s]})
       /\ listener' = [listener EXCEPT ![l].at = "chosen", ![l].session = s]
  /\ UNCHANGED <<now, session, serving, beacons>>

\* A session's own link needs no listing.
OpenLink(l) ==
  /\ listener[l].at = "away"
  /\ \E s \in Programs :
       /\ Found(s)
       /\ listener' = [listener EXCEPT ![l].at = "chosen", ![l].session = s]
  /\ UNCHANGED <<now, session, serving, beacons>>

\* get_session, whose row _issue_listener then refuses (410) or registers for.
ReadSession(l) ==
  /\ listener[l].at = "chosen"
  /\ \/ /\ Offered(listener[l].session)
        /\ listener' = [listener EXCEPT ![l].at = "admitted"]
     \/ /\ ~Offered(listener[l].session)
        /\ listener' = [listener EXCEPT ![l].at = "away", ![l].session = Nobody]
  /\ UNCHANGED <<now, session, serving, beacons>>

\* listener_joined.
Join(l) ==
  /\ listener[l].at = "admitted"
  /\ listener' = [listener EXCEPT ![l].at = "listening"]
  /\ UNCHANGED <<now, session, serving, beacons>>

\* The page goes away.  pagehide and beforeunload each send a beacon, a phone
\* without signal sends none; Try again drops the listener without a word.
Depart(l) ==
  /\ listener[l].at = "listening"
  /\ listener' = [listener EXCEPT ![l].at = "gone"]
  /\ \E n \in 0..2 : beacons' = [beacons EXCEPT ![l] = n]
  /\ UNCHANGED <<now, session, serving>>

\* listener_left, for a beacon that arrives.
Leave(l) ==
  /\ beacons[l] > 0
  /\ beacons' = [beacons EXCEPT ![l] = @ - 1]
  /\ listener' = [listener EXCEPT ![l].left = IF @ = Never THEN now ELSE @]
  /\ UNCHANGED <<now, session, serving>>

-----------------------------------------------------------------------------

Serve(p) ==
  \/ Start(p) \/ PassOver(p) \/ Supersede(p) \/ Reuse(p)
  \/ CreateSession(p) \/ GoLive(p) \/ Settle(p) \/ Crash(p)
Visit(l) ==
  \/ LookUpRoom(l) \/ OpenLink(l) \/ ReadSession(l) \/ Join(l) \/ Depart(l) \/ Leave(l)

Next == Tick \/ (\E p \in Programs : Serve(p)) \/ (\E l \in Listeners : Visit(l))

Spec == Init /\ [][Next]_vars

-----------------------------------------------------------------------------

Row == [status : {"none", "starting", "live", "ended", "failed"}, started : 0..MaxTime,
        ended : Never..MaxTime, reason : {"none", "superseded", "fault"}, billed : Never..MaxTime]
Visitor == [at : {"away", "chosen", "admitted", "listening", "gone"},
            session : Programs \union {Nobody}, left : Never..MaxTime]

\* The rows, programs and pages have their types, a program that goes live has
\* a session, and a session is billed exactly when it has ended.
TypeOK ==
  /\ now \in 0..MaxTime
  /\ session \in [Programs -> Row]
  /\ \A s \in Programs : session[s].billed = Never <=> session[s].ended = Never
  /\ program \in [Programs ->
       {"down", "listing", "created", "loading", "running", "over", "dead"}]
  /\ runs \in [Programs -> Programs \union {Nobody}]
  /\ \A p \in Programs : program[p] \in {"created", "loading", "running"} => runs[p] \in Programs
  /\ todo \in [Programs -> SUBSET Programs] /\ found \in [Programs -> SUBSET Programs]
  /\ listener \in [Listeners -> Visitor]
  /\ beacons \in [Listeners -> 0..2]

\* Rows that are closed stay as they are.  Whoever ends a session first settles
\* its bill, its end and its reason for good, though two programs may run it;
\* and of a listener's departure the first report counts.
ClosedRowsAreFinal ==
  [][/\ \A s \in Programs :
          session[s].ended # Never =>
            /\ session'[s].ended = session[s].ended
            /\ session'[s].billed = session[s].billed
            /\ session'[s].reason = session[s].reason
     /\ \A l \in Listeners :
          listener[l].left # Never => listener'[l].left = listener[l].left]_vars

\* A service has a session of its own only once every session it found in its
\* room is over, and a replay has one only where it found none; and only a
\* service that found a session in its own room ends it as superseded.
TakesOverItsRoom ==
  /\ \A p \in Programs :
       session[p].status # "none" =>
         \A old \in found[p] :
           RoomOf[old] = RoomOf[p] => p \in Services /\ session[old].ended # Never
  /\ \A s \in Programs :
       session[s].reason = "superseded" =>
         \E new \in Services : new # s /\ RoomOf[new] = RoomOf[s] /\ s \in found[new]

\* Two programs have run the session.
Shared(s) == \E p \in Programs : p # s /\ runs[p] = s

\* A session that was never taken up by a second program, and that its own
\* settled, is not offered again, and has what the schema asks of it: a failure
\* says why, and nothing ends before it starts.
SettledIsClosed ==
  \A s \in Programs :
    LET row == session[s]
    IN  /\ (row.ended # Never /\ row.reason # "superseded" /\ ~Shared(s)) =>
             row.status \in {"ended", "failed"}
        /\ row.status = "failed" => row.reason # "none"
        /\ row.ended # Never => row.started <= row.ended

\* serve_session promises that the audience cannot land on a dead session: the
\* page offers no session that has ended.
NoDeadSessionOffered == \A s \in LiveSessions : session[s].ended = Never
=============================================================================
