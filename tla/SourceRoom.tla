------------------------------ MODULE SourceRoom ------------------------------
(***************************************************************************)
(* Who speaks in a room: the speaker's page (api/static/speak.js) on one   *)
(* or more phones, the API that lets one of them speak (api/join.py,       *)
(* api/rooms.py, api/tokens.py), the venue's laptop, which needs no        *)
(* leave (tools/session_live.py), and the translation service's end of the *)
(* room, which waits for a source and listens to it (session/room.py).     *)
(*                                                                         *)
(* A page is one thread, and so is the service: an action is one handler,  *)
(* or the stretch of a promise chain between two awaits.  An attempt to    *)
(* speak is begun by a tap on "Start"; it, the microphone stream it is     *)
(* given and the Room it makes have one name.  Attempts of one page share  *)
(* the page's variables.                                                   *)
(*                                                                         *)
(* The room outlives its sessions.  An attempt is granted under one of     *)
(* them, and its phone joins under a name made from that session's id: the *)
(* media server keeps one participant of a name, so phones of one session  *)
(* turn each other out, and phones of different ones do not.  Which        *)
(* session it is the API reads from the store: the latest as a rule, an    *)
(* earlier one when that is still open or was revived (SessionStore).      *)
(***************************************************************************)
EXTENDS Integers, FiniteSets

CONSTANTS
  Phones,      \* pages open on the session
  MaxAttempts, \* taps on "Start", of all of them
  MaxSessions, \* sessions of the room that attempts are granted under
  Venue,       \* the laptop's participant
  None         \* null

ASSUME RoomAssumption == MaxAttempts \in Nat /\ MaxSessions \in Nat /\ Venue \notin Nat /\ None \notin Nat /\ Venue # None

VARIABLES
  page,      \* each page: the section shown, its status line, stream and room
  attempt,   \* each promise chain: how far it is, whose page it runs in, and the
             \*   session it was granted under, 0 for none
  mics,      \* the microphone streams that are open
  conn,      \* each Room: "none", "connecting", "open", "broken", "dropped", "closed"
  source,    \* each participant's source track: "off", or "new", "asked" or "missed"
             \*   as the translation service's Room knows it
  joined,    \* whether that Room is connected
  ready,     \* _source_ready, set with _source_track, which is never unset
  hasty,     \* history: pages put aside while an attempt was pending
  unaware    \* history: an attempt that may speak and a source it was granted without
             \*   sight of, because it came later or the inspection failed

Attempts == 1..MaxAttempts
Participants == Attempts \union {Venue}
Sessions == 1..MaxSessions

phones == <<page, attempt, mics, conn, hasty>>
hearing == <<joined, ready>>
air == <<source, unaware>>
vars == <<phones, air, hearing>>

Init ==
  /\ page = [p \in Phones |-> [view |-> "start", status |-> "other", stream |-> None, room |-> None]]
  /\ attempt = [c \in Attempts |-> [at |-> "unused", on |-> None, under |-> 0]]
  /\ mics = {} /\ conn = [c \in Attempts |-> "none"]
  /\ source = [x \in Participants |-> "off"]
  /\ joined = FALSE /\ ready = FALSE
  /\ hasty = {} /\ unaware = {}

Sources == {x \in Participants : source[x] # "off"}

\* Rooms that publish, or may yet.
MaySpeak == {c \in Attempts : conn[c] \in {"connecting", "open", "broken"}}

Publish(x) ==
  IF source[x] = "off"
  THEN /\ source' = [source EXCEPT ![x] = "new"]
       /\ unaware' = unaware \union {<<c, x>> : c \in MaySpeak \ {x}}
  ELSE UNCHANGED air

\* Participants that leave the room, and their tracks with them.
Silence(X) ==
  /\ source' = [x \in Participants |-> IF x \in X THEN "off" ELSE source[x]]
  /\ unaware' = {u \in unaware : u[1] \notin X /\ u[2] \notin X}

Pending(c) == attempt[c].at \in {"asking", "posting", "connecting", "publishing"}
PendingOn(p) == \E c \in Attempts : attempt[c].on = p /\ Pending(c)

-----------------------------------------------------------------------------
(* The speaker's page.                                                     *)

\* cleanup, of whatever the page's variables hold now; then the page shows v.
KeepsMic(p, v) ==
  /\ conn' = [c \in Attempts |-> IF c = page[p].room /\ conn[c] # "closed" THEN "dropped" ELSE conn[c]]
  /\ Silence({page[p].room})
  /\ mics' = mics
  /\ page' = [page EXCEPT ![p].stream = None, ![p].room = None, ![p].view = v]
Cleanup(p, v) ==
  /\ conn' = [c \in Attempts |-> IF c = page[p].room /\ conn[c] # "closed" THEN "dropped" ELSE conn[c]]
  /\ Silence({page[p].room})
  /\ mics' = mics \ {page[p].stream}
  /\ page' = [page EXCEPT ![p].stream = None, ![p].room = None, ![p].view = v]

\* The tap on "Start", up to the prompt for the microphone.
Go(p, c) ==
  /\ page[p].view = "start"
  /\ attempt[c].at = "unused" /\ \A b \in Attempts : b < c => attempt[b].at # "unused"
  /\ page' = [page EXCEPT ![p].view = "live", ![p].status = "other"]
  /\ attempt' = [attempt EXCEPT ![c] = [at |-> "asking", on |-> p, under |-> 0]]
  /\ UNCHANGED <<mics, conn, hasty, air, hearing>>

\* publish, up to its request.  If the level meter cannot be made, the handler of
\* a refused microphone shows its error, and the microphone stays open.
MicGranted(c) ==
  LET p == attempt[c].on
  IN  /\ attempt[c].at = "asking"
      /\ mics' = mics \union {c}
      /\ \/ /\ page' = [page EXCEPT ![p].stream = c, ![p].status = "other"]
            /\ attempt' = [attempt EXCEPT ![c].at = "posting"]
         \/ /\ page' = [page EXCEPT ![p].stream = c, ![p].view = "error"]
            /\ attempt' = [attempt EXCEPT ![c].at = "over"]
      /\ UNCHANGED <<conn, hasty, air, hearing>>

MicRefused(c) ==
  /\ attempt[c].at = "asking"
  /\ attempt' = [attempt EXCEPT ![c].at = "over"]
  /\ page' = [page EXCEPT ![attempt[c].on].view = "error"]
  /\ UNCHANGED <<mics, conn, hasty, air, hearing>>

\* _issue_speaker, which refuses when the room it inspects has a source (an
\* inspection that fails sees none), and its answer, up to connect.
GrantUnasked(c, s, seen) ==
  LET p == attempt[c].on
  IN  /\ attempt[c].at = "posting"
      /\ page' = [page EXCEPT ![p].room = c]
      /\ conn' = [conn EXCEPT ![c] = "connecting"]
      /\ attempt' = [attempt EXCEPT ![c].at = "connecting", ![c].under = s]
      /\ unaware' = unaware \union {<<c, x>> : x \in Sources \ seen}
      /\ UNCHANGED <<mics, hasty, source, hearing>>
Granted(c, s, seen) ==
  LET p == attempt[c].on
  IN  /\ attempt[c].at = "posting"
      /\ seen = {}
      /\ page' = [page EXCEPT ![p].room = c]
      /\ conn' = [conn EXCEPT ![c] = "connecting"]
      /\ attempt' = [attempt EXCEPT ![c].at = "connecting", ![c].under = s]
      /\ unaware' = unaware \union {<<c, x>> : x \in Sources \ seen}
      /\ UNCHANGED <<mics, hasty, source, hearing>>

\* Sessions are numbered as grants are first given under them.
Known(s) == \E b \in Attempts : attempt[b].under = s
Grant(c) ==
  \E s \in Sessions, seen \in {Sources, {}} :
    (\A t \in 1..(s - 1) : Known(t)) /\ Granted(c, s, seen)

\* The identity is made from the session's id: the media server turns out whoever is
\* there under that name, and nobody else.
SameName(c) ==
  {b \in Attempts : b # c /\ conn[b] \in {"open", "broken"} /\ attempt[b].under = attempt[c].under}
Connected(c) ==
  /\ attempt[c].at = "connecting" /\ conn[c] = "connecting"
  /\ conn' = [b \in Attempts |-> IF b = c THEN "open" ELSE IF b \in SameName(c) THEN "dropped" ELSE conn[b]]
  /\ Silence(SameName(c))
  /\ attempt' = [attempt EXCEPT ![c].at = "publishing"]
  /\ UNCHANGED <<page, mics, hasty, hearing>>

\* publishTrack, of the page's room, and "Live".
Published(c) ==
  LET p == attempt[c].on
      r == page[p].room
  IN  /\ attempt[c].at = "publishing" /\ r # None /\ conn[r] = "open"
      /\ Publish(r)
      /\ page' = [page EXCEPT ![p].status = "live"]
      /\ attempt' = [attempt EXCEPT ![c].at = "over"]
      /\ UNCHANGED <<mics, conn, hasty, hearing>>

\* A refusal, a failed request, a connection or a publication that is not made,
\* or no room left to publish in: the catch of publish.
AttemptFails(c) ==
  LET p == attempt[c].on
  IN  /\ attempt[c].at \in {"posting", "connecting", "publishing"}
      /\ Cleanup(p, "error")
      /\ attempt' = [attempt EXCEPT ![c].at = "over"]
      /\ UNCHANGED <<hasty, hearing>>

\* An interruption, which the media server bears with for a while.
Reconnecting(c) ==
  /\ conn[c] = "open" /\ conn' = [conn EXCEPT ![c] = "broken"]
  /\ page' = [page EXCEPT ![attempt[c].on].status = "other"]
  /\ UNCHANGED <<attempt, mics, hasty, air, hearing>>

Reconnected(c) ==
  /\ conn[c] = "broken" /\ conn' = [conn EXCEPT ![c] = "open"]
  /\ page' = [page EXCEPT ![attempt[c].on].status = "live"]
  /\ UNCHANGED <<attempt, mics, hasty, air, hearing>>

\* The network drops a Room for good, and its track with it.
NetworkDrops(c) ==
  /\ conn[c] \in {"open", "broken"} /\ conn' = [conn EXCEPT ![c] = "dropped"]
  /\ Silence({c})
  /\ UNCHANGED <<page, attempt, mics, hasty, hearing>>

\* Disconnected, whoever ended it.
Mute(p) == page' = page
Told(p) == page' = [page EXCEPT ![p].status = "other"]
Disconnected(c) ==
  /\ conn[c] = "dropped" /\ conn' = [conn EXCEPT ![c] = "closed"]
  /\ Told(attempt[c].on)
  /\ UNCHANGED <<attempt, mics, hasty, air, hearing>>

Hurry(p) == hasty' = IF PendingOn(p) THEN hasty \union {p} ELSE hasty

Stop(p) ==
  /\ page[p].view = "live"
  /\ Cleanup(p, "start") /\ Hurry(p)
  /\ UNCHANGED <<attempt, hearing>>

\* retry, and the load that follows it, which may fail.
Retry(p) ==
  /\ page[p].view = "error"
  /\ \E v \in {"start", "error"} : Cleanup(p, v)
  /\ Hurry(p)
  /\ UNCHANGED <<attempt, hearing>>

\* pagehide.  What cleanup misses goes with the page, which does not come back.
Hide(p) ==
  LET gone == {c \in Attempts : attempt[c].on = p}
  IN  /\ page[p].view # "closed"
      /\ page' = [page EXCEPT ![p] = [view |-> "closed", status |-> "other", stream |-> None, room |-> None]]
      /\ mics' = mics \ gone /\ Silence(gone)
      /\ conn' = [c \in Attempts |-> IF c \in gone THEN "closed" ELSE conn[c]]
      /\ attempt' = [c \in Attempts |-> IF c \in gone THEN [attempt[c] EXCEPT !.at = "over"] ELSE attempt[c]]
      /\ hasty' = hasty \ {p}
      /\ UNCHANGED hearing

Speak(c) ==
  \/ \E p \in Phones : Go(p, c)
  \/ MicGranted(c) \/ MicRefused(c) \/ Grant(c) \/ Connected(c)
  \/ Published(c) \/ AttemptFails(c) \/ NetworkDrops(c) \/ Disconnected(c)
  \/ Reconnecting(c) \/ Reconnected(c)

-----------------------------------------------------------------------------
(* The venue's laptop.                                                     *)

VenuePublishes ==
  /\ source[Venue] = "off"
  /\ Publish(Venue)
  /\ UNCHANGED <<phones, hearing>>

VenueLeaves ==
  /\ source[Venue] # "off"
  /\ Silence({Venue})
  /\ UNCHANGED <<phones, hearing>>

-----------------------------------------------------------------------------
(* The translation service's end, TranslationRoom.                         *)

\* connect: what is there already is swept, what comes later is an event.
SweepNothing(x) == "missed"
Sweep(x) == "asked"
ServiceConnects ==
  /\ ~joined /\ joined' = TRUE
  /\ source' = [x \in Participants |-> IF source[x] = "off" THEN "off" ELSE Sweep(x)]
  /\ UNCHANGED <<phones, unaware, ready>>

TrackPublished(x) ==
  /\ joined /\ source[x] = "new"
  /\ source' = [source EXCEPT ![x] = "asked"]
  /\ UNCHANGED <<phones, unaware, hearing>>

\* What wait_for_source waits for.  Nothing takes _source_ready back when the
\* track goes.
TrackSubscribed(x) ==
  /\ joined /\ source[x] = "asked"
  /\ ready' = TRUE
  /\ UNCHANGED <<phones, unaware, source, joined>>

LeaveRoom ==
  /\ joined' = FALSE /\ ready' = FALSE
  /\ source' = [x \in Participants |-> IF source[x] = "off" THEN "off" ELSE "new"]
  /\ UNCHANGED <<phones, unaware>>

\* The Room is lost, of which the session is not told, or closed; the next
\* session of the room makes another.
RoomEnds == joined /\ LeaveRoom

\* wait_for_source loses patience: the session fails, and closes its Room.
GiveUp == joined /\ ~ready /\ LeaveRoom

Listen ==
  \/ ServiceConnects \/ RoomEnds \/ GiveUp
  \/ \E x \in Participants : TrackPublished(x) \/ TrackSubscribed(x)

-----------------------------------------------------------------------------

Next ==
  \/ \E c \in Attempts : Speak(c)
  \/ \E p \in Phones : Stop(p) \/ Retry(p) \/ Hide(p)
  \/ VenuePublishes \/ VenueLeaves
  \/ Listen

\* The browser and the media server deliver their events, and every request,
\* connection and publication is answered or fails.
Fairness ==
  /\ \A c \in Attempts : WF_vars(Published(c) \/ AttemptFails(c))
  /\ \A c \in Attempts : WF_vars(Disconnected(c))
  /\ \A x \in Participants : WF_vars(TrackPublished(x)) /\ WF_vars(TrackSubscribed(x))

Spec == Init /\ [][Next]_vars /\ Fairness

-----------------------------------------------------------------------------
(* What is promised.                                                       *)

\* Nobody publishes beside a source that could be seen when he was let in, and two
\* phones of one session never publish at once, however they were let in; so a phone
\* is heard beside the laptop, or beside a phone of another session, only when the
\* inspection failed or the other came after the grant (join.py:220-233: "Refuse a
\* second speaker rather than let two people talk over each other", and the identity).
OneSource ==
  \A c \in Sources \ {Venue}, x \in Sources :
    x # c => /\ <<c, x>> \in unaware
             /\ x # Venue => attempt[x].under # attempt[c].under

\* A microphone that is open is the one the page holds and will stop, and the
\* page does not offer to start another, unless its speaker left it while an
\* attempt was pending (speak.js:229-235: "Left open, iOS keeps the recording
\* indicator lit and the page holds the device").
MicReleased ==
  \A m \in mics :
    LET p == attempt[m].on
    IN  p \in hasty \/ (page[p].stream = m /\ page[p].view # "start")

\* A speaker who reads "Live" and is not heard, because the network failed or
\* another phone took the name over, does not stay so: he is told in the end
\* (speak.js:147-149).
SpeakerTold ==
  \A p \in Phones :
    LET misled == page[p].view = "live" /\ page[p].status = "live"
                    /\ page[p].room \notin Sources /\ p \notin hasty
    IN  []<>~misled

\* The service does not go on waiting in a room that has a source: it finds one that
\* stays, whichever of the two came first (room.py:128-162).
SourceFound ==
  \A x \in Participants : []<>(joined /\ x \in Sources => ready)
=============================================================================
