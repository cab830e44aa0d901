----------------------------- MODULE ListenerPage -----------------------------
(***************************************************************************)
(* The listener's page (api/static/join.js), the join API behind it        *)
(* (api/join.py) and its connection to the media server.  The page is one  *)
(* thread: an action is one event handler or the stretch of one promise    *)
(* chain between two awaits.  Several chains, each begun by a tap on a     *)
(* language, may be under way at once, and all of them, and the handlers   *)
(* of every Room object made so far, share the page's few variables: a     *)
(* handler acts on the room and the track that are current when it runs.   *)
(*                                                                         *)
(* A tap, the join it makes, the listener id it is granted and the Room it *)
(* creates have one name, its number.  resolvedSession is set with         *)
(* listenerId and goes with it.  A Room is only ever asked for the track   *)
(* that was wanted when it was made; of its publications only that one is  *)
(* kept.                                                                   *)
(***************************************************************************)
EXTENDS Integers, FiniteSets

CONSTANTS
  MaxTaps,     \* taps on a language, each the start of one join
  Languages,   \* the tracks a session offers
  None,        \* null
  MaxDetours   \* taps on "Try again" and times the page is put into the background

ASSUME PageAssumption ==
  /\ None \notin Nat \union Languages
  /\ MaxTaps \in Nat /\ MaxDetours \in Nat

VARIABLES
  published,   \* the tracks the media server carries
  row,         \* session_listeners: "none", "active", or "left" for each listener
  view,        \* the section of the page that is shown
  status,      \* its status line, "told" for every text but the first two
  room,        \* the page's room, listenerId and wantedTrack
  listenerId,
  wanted,
  timer,       \* whether audioTimer is armed
  loads,       \* requests for the session's description under way
  join,        \* the promise chain of each tap, and its language
  conn,        \* each Room: its connection,
  track,       \*   the wanted track as it knows it: "unknown", "known", "asked", "received"
  heard,       \* the Room whose track is attached to the audio element
  hasty,       \* history: a join was pending when its listener moved on
  retries,     \* history: taps on "Try again",
  lost,        \*   reports the network lost,
  hides,       \*   times the page was hidden,
  early,       \*   whether a track came before the wait for it began,
  alarm        \*   and whether the no-audio error was shown to one who hears

Taps == 1..MaxTaps

screen == <<view, status>>
mine == <<room, listenerId, wanted>>
media == <<conn, track, heard>>
history == <<hasty, retries, lost, hides, early, alarm>>
vars == <<published, row, screen, mine, timer, loads, join, media, history>>

Init ==
  /\ published \in SUBSET Languages
  /\ row = [c \in Taps |-> "none"]
  /\ view = "none" /\ status = "none"
  /\ room = None /\ listenerId = None /\ wanted = None
  /\ timer = FALSE /\ loads = 1
  /\ join = [c \in Taps |-> [at |-> "unused", language |-> None]]
  /\ conn = [c \in Taps |-> "none"] /\ track = [c \in Taps |-> "unknown"]
  /\ heard = None
  /\ hasty = FALSE /\ retries = 0 /\ lost = 0 /\ hides = 0 /\ early = FALSE /\ alarm = FALSE

Pending(c) == join[c].at \in {"posting", "connecting", "starting"}
Open(c) == conn[c] \in {"connecting", "open"}
OpenPage == view # "closed"

\* publish_languages of a service, the speaker's page, or either going away; a
\* track nobody chose may do so unnoticed.
TracksChange ==
  /\ OpenPage
  /\ \E c \in Taps :
       LET l == join[c].language
       IN  l # None /\ published' = IF l \in published THEN published \ {l} ELSE published \union {l}
  /\ UNCHANGED <<row, screen, mine, timer, loads, join, media, history>>

-----------------------------------------------------------------------------
(* What the handlers share.                                                *)

Fail == view' = "error"

\* subscribeToWanted: of the current room, whichever room's event led here.
SubscribeToWanted(known) ==
  track' = IF room # None /\ known[room] = "known" /\ wanted = join[room].language
             THEN [known EXCEPT ![room] = "asked"] ELSE known

\* disconnect: the timer, the room and the two names.  The Room closes later.
DropRoom ==
  /\ timer' = FALSE /\ conn' = conn
  /\ room' = None /\ listenerId' = None /\ wanted' = None
Disconnect ==
  /\ timer' = FALSE
  /\ conn' = IF room # None /\ Open(room) THEN [conn EXCEPT ![room] = "closing"] ELSE conn
  /\ room' = None /\ listenerId' = None /\ wanted' = None

\* The API's own leave, for a report that arrives.
ListenerLeft(id) == row' = [row EXCEPT ![id] = "left"]

\* leave: one beacon, which the API may never receive.
LeaveAfterDisconnect == UNCHANGED <<row, lost>>
Leave ==
  IF listenerId = None THEN UNCHANGED <<row, lost>>
  ELSE \/ ListenerLeft(listenerId) /\ UNCHANGED lost
       \/ lost' = lost + 1 /\ UNCHANGED row

-----------------------------------------------------------------------------
(* Loading.                                                                *)

\* _describe offers every language of a session that has not ended, on air or
\* not, since a failed inspection must not hide any; 410 for one that has.
Described == view' = "picker" \/ Fail

\* room_info or session_info answers, or the request fails for want of a network.
Loaded ==
  /\ OpenPage /\ loads > 0 /\ loads' = loads - 1
  /\ Described
  /\ UNCHANGED <<published, row, status, mine, timer, join, media, history>>

\* retry: it leaves without a word.
Retry ==
  /\ view = "error" /\ retries + hides < MaxDetours
  /\ Disconnect
  /\ view' = "none" /\ loads' = loads + 1
  /\ hasty' = (hasty \/ \E c \in Taps : Pending(c))
  /\ retries' = retries + 1
  /\ UNCHANGED <<published, row, status, join, track, heard, lost, hides, early, alarm>>

-----------------------------------------------------------------------------
(* Joining.                                                                *)

\* choose, up to the request: any language may be tapped, on air or not.
Choose(c, l) ==
  /\ view = "picker" /\ join[c].at = "unused" /\ \A b \in Taps : b < c => join[b].at # "unused"
  /\ view' = "playing" /\ status' = "connecting"
  /\ join' = [join EXCEPT ![c] = [at |-> "posting", language |-> l]]
  /\ UNCHANGED <<published, row, mine, timer, loads, media, history>>

\* _issue_listener registers the listener; its answer may be lost after that.
Register(c) ==
  /\ join[c].at = "posting" /\ row[c] = "none"
  /\ row' = [row EXCEPT ![c] = "active"]
  /\ UNCHANGED <<published, screen, mine, timer, loads, join, media, history>>

\* The grant: the chain takes the page's variables over and makes its Room.
Granted(c) ==
  /\ OpenPage /\ join[c].at = "posting" /\ row[c] # "none"
  /\ listenerId' = c /\ wanted' = join[c].language /\ room' = c
  /\ conn' = [conn EXCEPT ![c] = "connecting"]
  /\ join' = [join EXCEPT ![c].at = "connecting"]
  /\ UNCHANGED <<published, row, screen, timer, loads, track, heard, history>>

\* A refusal, a failed request, or a connection that is not made.
JoinFails(c) ==
  /\ OpenPage /\ join[c].at \in {"posting", "connecting"}
  /\ join' = [join EXCEPT ![c].at = "failed"]
  /\ conn' = [conn EXCEPT ![c] = IF join[c].at = "connecting" THEN "closed" ELSE @]
  /\ Fail
  /\ UNCHANGED <<published, row, status, mine, timer, loads, track, heard, history>>

\* connect resolves.  The page has no room if its listener has moved on since:
\* room.startAudio then throws, and the chain ends in its catch.
Connected(c) ==
  /\ OpenPage /\ join[c].at = "connecting" /\ conn[c] = "connecting"
  /\ conn' = [conn EXCEPT ![c] = "open"]
  /\ track' = [track EXCEPT ![c] = IF join[c].language \in published THEN "known" ELSE "unknown"]
  /\ IF room = None
       THEN join' = [join EXCEPT ![c].at = "failed"] /\ Fail
       ELSE join' = [join EXCEPT ![c].at = "starting"] /\ UNCHANGED view
  /\ UNCHANGED <<published, row, status, mine, timer, loads, heard, history>>

\* startAudio is over, refused by the browser or not: subscribe, say so, wait.
WaitForEver == timer' = FALSE
ArmTimer == timer' = TRUE
Started(c) ==
  /\ OpenPage /\ join[c].at = "starting"
  /\ join' = [join EXCEPT ![c].at = "joined"]
  /\ SubscribeToWanted(track)
  /\ status' = "waiting"
  /\ ArmTimer
  /\ early' = (early \/ heard # None)
  /\ UNCHANGED <<published, row, view, mine, loads, conn, heard, hasty, retries, lost, hides, alarm>>

TimerFires ==
  /\ OpenPage /\ timer /\ timer' = FALSE
  /\ Fail
  /\ alarm' = (alarm \/ heard # None)
  /\ UNCHANGED <<published, row, status, mine, loads, join, media, hasty, retries, lost, hides, early>>

-----------------------------------------------------------------------------
(* The handlers of wireEvents, in the Room of any tap.                     *)

TrackPublished(c) ==
  /\ OpenPage /\ conn[c] = "open" /\ track[c] = "unknown" /\ join[c].language \in published
  /\ SubscribeToWanted([track EXCEPT ![c] = "known"])
  /\ UNCHANGED <<published, row, screen, mine, timer, loads, join, conn, heard, history>>

KeepTimer == timer' = timer
ClearTimer == timer' = FALSE

\* A track the page no longer wants is dropped again.
TrackSubscribed(c) ==
  /\ OpenPage /\ conn[c] = "open" /\ track[c] = "asked" /\ join[c].language \in published
  /\ IF join[c].language # wanted
       THEN /\ track' = [track EXCEPT ![c] = "known"]
            /\ UNCHANGED <<timer, heard, status>>
       ELSE /\ ClearTimer
            /\ track' = [track EXCEPT ![c] = "received"]
            /\ heard' = c
            /\ status' = "told"
  /\ UNCHANGED <<published, row, view, mine, loads, join, conn, history>>

Detached(c) == IF heard = c THEN None ELSE heard

TrackUnsubscribed(c) ==
  /\ OpenPage /\ conn[c] = "open" /\ track[c] # "unknown" /\ join[c].language \notin published
  /\ track' = [track EXCEPT ![c] = "unknown"]
  /\ heard' = Detached(c)
  /\ status' = IF track[c] = "received" THEN "told" ELSE status
  /\ UNCHANGED <<published, row, view, mine, timer, loads, join, conn, history>>

\* The subscription survives, or it does not.
Reconnected(c) ==
  /\ OpenPage /\ conn[c] = "open"
  /\ \/ SubscribeToWanted(track) /\ UNCHANGED heard
     \/ /\ SubscribeToWanted([track EXCEPT ![c] =
                                IF join[c].language \in published THEN "known" ELSE "unknown"])
        /\ heard' = Detached(c)
  /\ status' = "told"
  /\ UNCHANGED <<published, row, view, mine, timer, loads, join, conn, history>>

\* Disconnected: the network's doing, or disconnect taking effect.
Disconnected(c) ==
  /\ OpenPage /\ conn[c] \in {"open", "closing"}
  /\ conn' = [conn EXCEPT ![c] = "closed"]
  /\ track' = [track EXCEPT ![c] = "unknown"]
  /\ heard' = Detached(c)
  /\ status' = "told"
  /\ UNCHANGED <<published, row, view, mine, timer, loads, join, history>>

\* Events that change the status line only: Reconnecting, and, for a page that
\* has a room, AudioPlaybackStatusChanged with its blockedPlayback.
StatusEvent(c) ==
  /\ OpenPage /\ conn[c] = "open"
  /\ status # "told" /\ status' = "told"
  /\ UNCHANGED <<published, row, view, mine, timer, loads, join, media, history>>

-----------------------------------------------------------------------------
(* The listener.                                                           *)

Change ==
  /\ view = "playing"
  /\ Leave /\ Disconnect
  /\ view' = "picker"
  /\ hasty' = (hasty \/ \E c \in Taps : Pending(c))
  /\ UNCHANGED <<published, status, loads, join, track, heard, retries, hides, early, alarm>>

\* pagehide reports the departure.  The page may come back as it was, or not.
Hide ==
  /\ OpenPage /\ retries + hides < MaxDetours /\ hides' = hides + 1
  /\ Leave
  /\ \/ UNCHANGED <<screen, mine, timer, loads, media>>
     \/ /\ view' = "closed" /\ status' = "none"
        /\ room' = None /\ listenerId' = None /\ wanted' = None
        /\ timer' = FALSE /\ loads' = 0
        /\ conn' = [c \in Taps |-> IF conn[c] = "none" THEN "none" ELSE "closed"]
        /\ track' = [c \in Taps |-> "unknown"] /\ heard' = None
  /\ UNCHANGED <<published, join, hasty, retries, early, alarm>>

-----------------------------------------------------------------------------

Answered(c) == Granted(c) \/ JoinFails(c) \/ Connected(c) \/ Started(c)
Joining(c) == Register(c) \/ Answered(c) \/ \E l \in Languages : Choose(c, l)
Events(c) ==
  \/ TrackPublished(c) \/ TrackSubscribed(c) \/ TrackUnsubscribed(c)
  \/ Reconnected(c) \/ Disconnected(c) \/ StatusEvent(c)

Next ==
  \/ TracksChange \/ Loaded \/ Retry \/ Change \/ Hide \/ TimerFires
  \/ \E c \in Taps : Joining(c) \/ Events(c)

\* Requests and connections are answered, well or badly, and timers fire.
\* Nothing obliges the listener, the session, or any track to appear.
Fairness == WF_vars(TimerFires) /\ \A c \in Taps : WF_vars(Answered(c))

Spec == Init /\ [][Next]_vars /\ Fairness

-----------------------------------------------------------------------------

\* "Exactly one track is subscribed": the page holds at most one connection,
\* that of its current room, and none while it offers the languages; what it
\* plays comes from a room it has not closed.  Only a listener who moves on
\* while a join is pending can leave behind a connection that nothing closes.
OneStream ==
  \/ hasty
  \/ /\ \A c \in Taps : Open(c) => c = room /\ wanted = join[c].language
     /\ view = "picker" => room = None
     /\ heard # None => conn[heard] # "closed" /\ (heard = room \/ conn[heard] = "closing")

\* active_listeners: the rows that no departure has closed.
ActiveListeners == {c \in Taps : row[c] = "active"}

Listening(c) == OpenPage /\ (listenerId = c \/ Pending(c))
Ghosts == {c \in ActiveListeners : ~Listening(c)}
Failed == {c \in Taps : join[c].at = "failed"}

\* The listener count: each row still counted although nobody listens is owed to
\* a failed join, a Retry, which reports nothing, a lost report, or a page that
\* closed during a join; and a listener reported gone is not listening, unless
\* the page was hidden and brought back.
CountExplained ==
  /\ hasty \/ Cardinality(Ghosts) <= Cardinality(Failed) + retries + lost + hides
  /\ \A c \in Taps : row[c] = "left" /\ listenerId = c => hides > 0

\* The no-audio error is shown to a listener who hears something only if the
\* track came while the join was still starting, before its timer was armed
\* (join.js:197-207, 220).
FalseAlarmExplained == alarm => early

\* A listener is not left with "Connecting" or "waiting for audio" for the rest
\* of the event, whatever happens to tracks, session and network.
LeftWaiting == view = "playing" /\ status \in {"connecting", "waiting"}
NotLeftWaiting == LeftWaiting ~> ~LeftWaiting
=============================================================================
