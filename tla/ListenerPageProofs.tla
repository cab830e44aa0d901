--------------------------- MODULE ListenerPageProofs ---------------------------
(***************************************************************************)
(* What holds of the listener's page however often its listener taps, in   *)
(* however many languages.                                                 *)
(*                                                                         *)
(* The invariant that carries the rest is Orderly: as long as no listener  *)
(* has moved on during a join, the page has one chain under way at most,   *)
(* none while it offers the languages or a timer is armed, and the chain   *)
(* that has its grant owns the page's room.  From it follow the one        *)
(* connection, and that a page which stops listening leaves at most one    *)
(* listener behind, which is why the counts of OneChain bound the ghosts.  *)
(***************************************************************************)
EXTENDS ListenerPage, FiniteSetTheorems, TLAPS

USE PageAssumption DEF PageAssumption

Stages == {"unused", "posting", "connecting", "starting", "joined", "failed"}

\* What holds of the page's variables whoever taps when.
Types ==
  /\ row \in [Taps -> {"none", "active", "left"}]
  /\ join \in [Taps -> [at : Stages, language : Languages \union {None}]]
  /\ conn \in [Taps -> {"none", "connecting", "open", "closing", "closed"}]
  /\ track \in [Taps -> {"unknown", "known", "asked", "received"}]
  /\ room \in Taps \union {None} /\ heard \in Taps \union {None}
  /\ timer \in BOOLEAN /\ loads \in Nat /\ hasty \in BOOLEAN
  /\ retries \in Nat /\ lost \in Nat /\ hides \in Nat
  /\ view \in {"none", "picker", "playing", "error", "closed"}

\* A tap that has no answer yet has no connection and is not the page's room,
\* and listenerId, room and wantedTrack are of the same tap.
Owned ==
  /\ listenerId = room
  /\ room # None => wanted = join[room].language
  /\ \A c \in Taps : join[c].at \in {"unused", "posting"} => conn[c] = "none" /\ row[c] # "left" /\ room # c
  /\ \A c \in Taps : join[c].at = "unused" => row[c] = "none"
  /\ view = "closed" => heard = None /\ room = None /\ \A c \in Taps : ~Open(c)
  /\ heard # None => conn[heard] \in {"open", "closing"}
  /\ \A c \in Taps : join[c].at = "connecting" => conn[c] # "open" /\ heard # c
  /\ \A c \in Taps : row[c] = "left" /\ listenerId = c => hides > 0

LEMMA TapsAre == /\ \A c \in Taps : c \in Nat /\ c # None
                 /\ IsFiniteSet(Taps)
<1>1. \A c \in Taps : c \in Nat /\ c # None
  BY DEF Taps
<1>2. IsFiniteSet(1..MaxTaps)
  <2>1. 1 \in Int /\ MaxTaps \in Int
    OBVIOUS
  <2> QED BY ONLY <2>1, FS_Interval
<1> QED BY <1>1, <1>2 DEF Taps

LEMMA ConnDisconnect ==
  ASSUME Types, Disconnect
  PROVE /\ conn' \in [Taps -> {"none", "connecting", "open", "closing", "closed"}]
        /\ timer' = FALSE /\ room' = None /\ listenerId' = None /\ wanted' = None
        /\ \A c \in Taps : conn'[c] = IF c = room /\ Open(c) THEN "closing" ELSE conn[c]
        /\ \A c \in Taps : Open(c)' => Open(c) /\ c # room
<1>1. /\ conn \in [Taps -> {"none", "connecting", "open", "closing", "closed"}]
      /\ room \in Taps \union {None} /\ None \notin Taps
  BY TapsAre DEF Types
<1>2. /\ timer' = FALSE /\ room' = None /\ listenerId' = None /\ wanted' = None
      /\ conn' = IF room # None /\ Open(room) THEN [conn EXCEPT ![room] = "closing"] ELSE conn
  BY DEF Disconnect
<1>3. conn' \in [Taps -> {"none", "connecting", "open", "closing", "closed"}]
  BY ONLY <1>1, <1>2
<1>4. \A c \in Taps : conn'[c] = IF c = room /\ Open(c) THEN "closing" ELSE conn[c]
  <2> SUFFICES ASSUME NEW c \in Taps PROVE conn'[c] = IF c = room /\ Open(c) THEN "closing" ELSE conn[c]
    OBVIOUS
  <2>1. CASE room # None /\ Open(room)
    BY ONLY <1>1, <1>2, <2>1, c \in Taps
  <2>2. CASE ~(room # None /\ Open(room))
    BY ONLY <1>1, <1>2, <2>2, c \in Taps
  <2> QED BY <2>1, <2>2
<1>5. \A c \in Taps : Open(c)' => Open(c) /\ c # room
  BY ONLY <1>4 DEF Open
<1> QED BY <1>2, <1>3, <1>4, <1>5

\* Leave closes the current listener's row, or loses the report.
LEMMA RowLeave ==
  ASSUME Types, Owned, Leave
  PROVE /\ row' \in [Taps -> {"none", "active", "left"}] /\ lost' \in Nat
        /\ \/ row' = row /\ lost' = lost /\ listenerId = None
           \/ row' = row /\ lost' = lost + 1 /\ listenerId # None
           \/ /\ listenerId \in Taps /\ lost' = lost /\ row'[listenerId] = "left"
              /\ \A c \in Taps : c # listenerId => row'[c] = row[c]
<1>1. /\ row \in [Taps -> {"none", "active", "left"}] /\ lost \in Nat
      /\ listenerId \in Taps \union {None} /\ None \notin Taps
  BY TapsAre DEF Types, Owned
<1> QED BY <1>1 DEF Leave, ListenerLeft

LEMMA TypesStep == ASSUME Types, Owned, [Next]_vars PROVE Types'
<1>1. CASE TracksChange
  BY <1>1 DEF Types, TracksChange, screen, mine, media, history
<1>2. CASE Loaded
  BY <1>2 DEF Types, Loaded, Described, Fail, mine, media, history
<1>3. CASE Retry
  <2>1. Disconnect /\ UNCHANGED <<row, join, track, heard, lost, hides>>
    BY <1>3 DEF Retry
  <2>2. view' = "none" /\ loads' \in Nat /\ hasty' \in BOOLEAN /\ retries' \in Nat
    BY <1>3 DEF Retry, Types
  <2>3. /\ conn' \in [Taps -> {"none", "connecting", "open", "closing", "closed"}]
        /\ timer' = FALSE /\ room' = None
    BY ONLY <2>1, Types, ConnDisconnect
  <2> QED BY ONLY <2>1, <2>2, <2>3, Types DEF Types
<1>4. CASE Change
  <2>1. Leave /\ Disconnect /\ UNCHANGED <<loads, join, track, heard, retries, hides>>
    BY <1>4 DEF Change
  <2>2. view' = "picker" /\ hasty' \in BOOLEAN
    BY <1>4 DEF Change, Types
  <2>3. /\ conn' \in [Taps -> {"none", "connecting", "open", "closing", "closed"}]
        /\ timer' = FALSE /\ room' = None
    BY ONLY <2>1, Types, ConnDisconnect
  <2>4. row' \in [Taps -> {"none", "active", "left"}] /\ lost' \in Nat
    BY ONLY <2>1, Types, Owned, RowLeave
  <2> QED BY ONLY <2>1, <2>2, <2>3, <2>4, Types DEF Types
<1>5. CASE Hide
  <2>1. Leave /\ UNCHANGED <<join, hasty, retries>> /\ hides' \in Nat
    BY <1>5 DEF Hide, Types
  <2>2. row' \in [Taps -> {"none", "active", "left"}] /\ lost' \in Nat
    BY ONLY <2>1, Types, Owned, RowLeave
  <2>3. CASE UNCHANGED <<screen, mine, timer, loads, media>>
    BY ONLY <2>1, <2>2, <2>3, Types DEF Types, screen, mine, media
  <2>4. CASE ~UNCHANGED <<screen, mine, timer, loads, media>>
    <3>1. /\ view' = "closed" /\ room' = None /\ timer' = FALSE /\ loads' = 0 /\ heard' = None
          /\ conn' = [c \in Taps |-> IF conn[c] = "none" THEN "none" ELSE "closed"]
          /\ track' = [c \in Taps |-> "unknown"]
      BY <1>5, <2>4 DEF Hide
    <3>2. /\ conn' \in [Taps -> {"none", "connecting", "open", "closing", "closed"}]
          /\ track' \in [Taps -> {"unknown", "known", "asked", "received"}]
      BY ONLY <3>1
    <3> QED BY ONLY <2>1, <2>2, <3>1, <3>2, Types DEF Types
  <2> QED BY <2>3, <2>4
<1>6. CASE TimerFires
  BY <1>6 DEF Types, TimerFires, Fail, mine, media
<1>7. ASSUME NEW c \in Taps, Joining(c) PROVE Types'
  <2>1. CASE Register(c)
    BY <2>1 DEF Types, Register, screen, mine, media, history
  <2>2. CASE Granted(c)
    BY <2>2 DEF Types, Granted, screen, history, Stages
  <2>3. CASE JoinFails(c)
    BY <2>3 DEF Types, JoinFails, Fail, mine, history, Stages
  <2>4. CASE Connected(c)
    <3>1. /\ conn' = [conn EXCEPT ![c] = "open"]
          /\ track' = [track EXCEPT ![c] = IF join[c].language \in published THEN "known" ELSE "unknown"]
          /\ UNCHANGED <<published, row, status, mine, timer, loads, heard, history>>
      BY <2>4 DEF Connected
    <3>2. /\ \E stage \in Stages : join' = [join EXCEPT ![c].at = stage]
          /\ view' = "error" \/ view' = view
      BY <2>4 DEF Connected, Fail, Stages
    <3> QED BY ONLY <3>1, <3>2, Types DEF Types, mine, history
  <2>5. CASE Started(c)
    BY <2>5 DEF Types, Started, SubscribeToWanted, ArmTimer, mine, Stages
  <2>6. ASSUME NEW l \in Languages, Choose(c, l) PROVE Types'
    BY <2>6 DEF Types, Choose, mine, media, history, Stages
  <2> QED BY <1>7, <2>1, <2>2, <2>3, <2>4, <2>5, <2>6 DEF Joining, Answered
<1>8. ASSUME NEW c \in Taps, Events(c) PROVE Types'
  <2>1. CASE TrackPublished(c)
    BY <2>1 DEF Types, TrackPublished, SubscribeToWanted, screen, mine, history
  <2>2. CASE TrackSubscribed(c)
    BY <2>2 DEF Types, TrackSubscribed, ClearTimer, mine, history
  <2>3. CASE TrackUnsubscribed(c)
    BY <2>3 DEF Types, TrackUnsubscribed, Detached, mine, history
  <2>4. CASE Reconnected(c)
    BY <2>4 DEF Types, Reconnected, SubscribeToWanted, Detached, mine, history
  <2>5. CASE Disconnected(c)
    BY <2>5 DEF Types, Disconnected, Detached, mine, history
  <2>6. CASE StatusEvent(c)
    BY <2>6 DEF Types, StatusEvent, mine, media, history
  <2> QED BY <1>8, <2>1, <2>2, <2>3, <2>4, <2>5, <2>6 DEF Events
<1>9. CASE UNCHANGED vars
  BY <1>9 DEF Types, vars, screen, mine, media, history
<1> QED BY <1>1, <1>2, <1>3, <1>4, <1>5, <1>6, <1>7, <1>8, <1>9 DEF Next

LEMMA OwnedStep == ASSUME Types, Owned, [Next]_vars PROVE Owned'
<1>1. CASE TracksChange
  BY <1>1 DEF Owned, TracksChange, Open, screen, mine, media, history
<1>2. CASE Loaded
  BY <1>2 DEF Owned, Loaded, Described, Fail, Open, OpenPage, mine, media, history
<1>3. CASE Retry
  BY <1>3, TapsAre DEF Types, Owned, Retry, Disconnect, Open
<1>4. CASE Change
  BY <1>4, TapsAre DEF Types, Owned, Change, Leave, ListenerLeft, Disconnect, Open
<1>5. CASE Hide
  BY <1>5, TapsAre DEF Types, Owned, Hide, Leave, ListenerLeft, Open, screen, mine, media
<1>6. CASE TimerFires
  BY <1>6 DEF Owned, TimerFires, Fail, Open, OpenPage, mine, media
<1>7. ASSUME NEW c \in Taps, Joining(c) PROVE Owned'
  <2>1. CASE Register(c)
    BY <2>1 DEF Types, Owned, Register, Open, screen, mine, media, history
  <2>2. CASE Granted(c)
    BY <2>2, TapsAre DEF Types, Owned, Granted, Open, OpenPage, screen, history
  <2>3. CASE JoinFails(c)
    <3>1. /\ UNCHANGED <<row, room, listenerId, wanted, heard, hides>> /\ OpenPage /\ view' = "error"
          /\ join[c].at \in {"posting", "connecting"}
          /\ join' = [join EXCEPT ![c].at = "failed"]
          /\ conn' = [conn EXCEPT ![c] = IF join[c].at = "connecting" THEN "closed" ELSE @]
      BY <2>3 DEF JoinFails, Fail, mine, history
    <3>2. \A d \in Taps : d # c => join'[d] = join[d] /\ conn'[d] = conn[d]
      BY <3>1 DEF Types
    <3>3. \A d \in Taps : join'[d].language = join[d].language
      BY <3>1 DEF Types
    <3>4. join'[c].at = "failed" /\ (join[c].at = "posting" => conn'[c] = conn[c])
      BY <3>1 DEF Types
    <3>5. heard # c \/ conn'[c] = conn[c]
      BY <3>1, <3>4 DEF Owned
    <3>6. ~Open(c)' \/ conn'[c] = conn[c]
      BY <3>1, <3>4 DEF Types, Owned, Open
    <3>7. /\ listenerId' = room' /\ (room' # None => wanted' = join'[room'].language)
          /\ \A d \in Taps : join'[d].at \in {"unused", "posting"} => conn'[d] = "none" /\ row'[d] # "left" /\ room' # d
          /\ \A d \in Taps : join'[d].at = "unused" => row'[d] = "none"
      BY ONLY <3>1, <3>2, <3>3, <3>4, Types, Owned DEF Types, Owned
    <3>8. /\ heard' # None => conn'[heard'] \in {"open", "closing"}
          /\ \A d \in Taps : join'[d].at = "connecting" => conn'[d] # "open" /\ heard' # d
          /\ \A d \in Taps : row'[d] = "left" /\ listenerId' = d => hides' > 0
      BY ONLY <3>1, <3>2, <3>4, <3>5, Types, Owned DEF Types, Owned
    <3> QED BY ONLY <3>1, <3>7, <3>8 DEF Owned
  <2>4. CASE Connected(c)
    BY <2>4 DEF Types, Owned, Connected, Fail, Open, OpenPage, mine, history
  <2>5. CASE Started(c)
    BY <2>5 DEF Types, Owned, Started, Open, OpenPage, mine
  <2>6. ASSUME NEW l \in Languages, Choose(c, l) PROVE Owned'
    BY <2>6 DEF Types, Owned, Choose, Open, mine, media, history
  <2> QED BY <1>7, <2>1, <2>2, <2>3, <2>4, <2>5, <2>6 DEF Joining, Answered
<1>8. ASSUME NEW c \in Taps, Events(c) PROVE Owned'
  <2>1. CASE TrackPublished(c)
    BY <2>1 DEF Owned, TrackPublished, Open, OpenPage, screen, mine, history
  <2>2. CASE TrackSubscribed(c)
    BY <2>2 DEF Owned, TrackSubscribed, Open, OpenPage, mine, history
  <2>3. CASE TrackUnsubscribed(c)
    <3>1. /\ UNCHANGED <<row, view, room, listenerId, wanted, join, conn, hides>>
          /\ heard' = heard \/ heard' = None
      BY <2>3 DEF TrackUnsubscribed, Detached, mine, history
    <3> QED BY ONLY <3>1, Owned, TapsAre DEF Owned, Open
  <2>4. CASE Reconnected(c)
    <3>1. /\ UNCHANGED <<row, view, room, listenerId, wanted, join, conn, hides>>
          /\ heard' = heard \/ heard' = None
      BY <2>4 DEF Reconnected, Detached, mine, history
    <3> QED BY ONLY <3>1, Owned, TapsAre DEF Owned, Open
  <2>5. CASE Disconnected(c)
    <3>1. /\ UNCHANGED <<row, view, room, listenerId, wanted, join, hides>> /\ OpenPage
          /\ conn[c] \in {"open", "closing"} /\ conn' = [conn EXCEPT ![c] = "closed"]
          /\ heard' = IF heard = c THEN None ELSE heard
      BY <2>5 DEF Disconnected, Detached, mine, history
    <3>2. conn'[c] = "closed" /\ \A d \in Taps : d # c => conn'[d] = conn[d]
      BY <3>1 DEF Types
    <3>3. \A d \in Taps : conn'[d] = "none" <=> conn[d] = "none"
      BY ONLY <3>1, <3>2
    <3>4. heard' # None => heard' = heard /\ heard # c /\ heard # None /\ heard \in Taps
      BY <3>1 DEF Types
    <3>5. heard' # None => conn'[heard'] \in {"open", "closing"}
      BY ONLY <3>2, <3>4, Owned DEF Owned
    <3>6. \A d \in Taps : join'[d].at = "connecting" => conn'[d] # "open" /\ heard' # d
      BY <3>1, <3>2, <3>4, TapsAre DEF Owned
    <3>7. view' = "closed" => heard' = None /\ room' = None /\ \A d \in Taps : ~Open(d)'
      BY ONLY <3>1 DEF OpenPage
    <3>8. /\ listenerId' = room' /\ (room' # None => wanted' = join'[room'].language)
          /\ \A d \in Taps : join'[d].at \in {"unused", "posting"} => conn'[d] = "none" /\ row'[d] # "left" /\ room' # d
          /\ \A d \in Taps : join'[d].at = "unused" => row'[d] = "none"
          /\ \A d \in Taps : row'[d] = "left" /\ listenerId' = d => hides' > 0
      BY ONLY <3>1, <3>3, Owned DEF Owned
    <3> QED BY ONLY <3>5, <3>6, <3>7, <3>8 DEF Owned
  <2>6. CASE StatusEvent(c)
    BY <2>6 DEF Owned, StatusEvent, Open, mine, media, history
  <2> QED BY <1>8, <2>1, <2>2, <2>3, <2>4, <2>5, <2>6 DEF Events
<1>9. CASE UNCHANGED vars
  BY <1>9 DEF Owned, Open, vars, screen, mine, media, history
<1> QED BY <1>1, <1>2, <1>3, <1>4, <1>5, <1>6, <1>7, <1>8, <1>9 DEF Next

-----------------------------------------------------------------------------
(* One chain, one room.                                                    *)

\* One join is pending at most; its page shows nothing else and, once it has
\* its grant, that tap's Room; no timer runs meanwhile; a page that shows the
\* languages, or asks for them, has neither room nor timer.
OneChain ==
  /\ \A c, d \in Taps : Pending(c) /\ Pending(d) => c = d
  /\ \A c \in Taps : Pending(c) => view \in {"playing", "closed"} /\ ~timer
  /\ \A c \in Taps : join[c].at = "posting" => room = None
  /\ \A c \in Taps : join[c].at \in {"connecting", "starting"} /\ OpenPage => room = c
  /\ \A c \in Taps : join[c].at = "connecting" /\ OpenPage => conn[c] = "connecting"
  /\ loads = 0 \/ (loads = 1 /\ view = "none")
  /\ view \in {"none", "picker"} => ~timer /\ room = None

OnlyRoom == \A c \in Taps : Open(c) => c = room

Orderly == OneChain /\ OnlyRoom

\* A step that leaves the joins and the connections alone, and arms no timer.
LEMMA OrderlyQuiet ==
  ASSUME Orderly, UNCHANGED <<join, conn, room, loads, view>>, timer' => timer
  PROVE  Orderly'
BY DEF Orderly, OneChain, OnlyRoom, Pending, Open, OpenPage

LEMMA OrderlyAlone ==
  ASSUME Types, Owned, Orderly, ~hasty',
         TracksChange \/ Loaded \/ Retry \/ Change \/ Hide \/ TimerFires
  PROVE  Orderly'
<1>1. CASE TracksChange
  BY <1>1, OrderlyQuiet DEF TracksChange, screen, mine, media
<1>2. CASE Loaded
  <2>1. /\ loads > 0 /\ loads' = loads - 1 /\ view' \in {"picker", "error"}
        /\ UNCHANGED <<join, conn, room, timer>>
    BY <1>2 DEF Loaded, Described, Fail, mine, media
  <2>2. loads = 1 /\ view = "none"
    BY <2>1 DEF Orderly, OneChain
  <2>3. \A c \in Taps : ~Pending(c)
    BY <2>2 DEF Orderly, OneChain
  <2> QED BY ONLY <2>1, <2>2, <2>3, Orderly DEF Orderly, OneChain, OnlyRoom, Pending, Open, OpenPage
<1>3. CASE Retry
  <2>1. /\ view = "error" /\ view' = "none" /\ loads' = loads + 1 /\ UNCHANGED join
        /\ Disconnect /\ \A c \in Taps : ~Pending(c)
    BY <1>3 DEF Retry
  <2>2. /\ room' = None /\ timer' = FALSE /\ \A c \in Taps : Open(c)' => Open(c) /\ c # room
    BY ONLY <2>1, Types, ConnDisconnect
  <2>3. loads = 0
    BY ONLY <2>1, Orderly DEF Orderly, OneChain
  <2> QED BY ONLY <2>1, <2>2, <2>3, Orderly DEF Orderly, OneChain, OnlyRoom, Pending, OpenPage
<1>4. CASE Change
  <2>1. /\ view = "playing" /\ view' = "picker" /\ UNCHANGED <<join, loads>>
        /\ Disconnect /\ \A c \in Taps : ~Pending(c)
    BY <1>4 DEF Change
  <2>2. /\ room' = None /\ timer' = FALSE /\ \A c \in Taps : Open(c)' => Open(c) /\ c # room
    BY ONLY <2>1, Types, ConnDisconnect
  <2>3. loads = 0
    BY ONLY <2>1, Orderly DEF Orderly, OneChain
  <2> QED BY ONLY <2>1, <2>2, <2>3, Orderly DEF Orderly, OneChain, OnlyRoom, Pending, OpenPage
<1>5. CASE Hide
  <2>1. CASE UNCHANGED <<screen, mine, timer, loads, media>>
    BY <1>5, <2>1, OrderlyQuiet DEF Hide, screen, mine, media
  <2>2. CASE ~UNCHANGED <<screen, mine, timer, loads, media>>
    <3>1. /\ view' = "closed" /\ room' = None /\ timer' = FALSE /\ loads' = 0 /\ UNCHANGED join
          /\ conn' = [c \in Taps |-> IF conn[c] = "none" THEN "none" ELSE "closed"]
      BY <1>5, <2>2 DEF Hide
    <3>2. \A c \in Taps : ~Open(c)'
      BY ONLY <3>1 DEF Open
    <3> QED BY ONLY <3>1, <3>2, Orderly DEF Orderly, OneChain, OnlyRoom, Pending, OpenPage
  <2> QED BY <2>1, <2>2
<1>6. CASE TimerFires
  <2>1. timer /\ timer' = FALSE /\ view' = "error" /\ UNCHANGED <<join, conn, room, loads>>
    BY <1>6 DEF TimerFires, Fail, mine, media
  <2>2. loads = 0 /\ \A c \in Taps : ~Pending(c)
    BY ONLY <2>1, Orderly DEF Orderly, OneChain
  <2> QED BY ONLY <2>1, <2>2, Orderly DEF Orderly, OneChain, OnlyRoom, Pending, Open, OpenPage
<1> QED BY <1>1, <1>2, <1>3, <1>4, <1>5, <1>6

LEMMA OrderlyJoining ==
  ASSUME Types, Owned, Orderly, ~hasty', NEW c \in Taps, Joining(c)
  PROVE  Orderly'
<1>0. /\ join \in [Taps -> [at : Stages, language : Languages \union {None}]]
      /\ conn \in [Taps -> {"none", "connecting", "open", "closing", "closed"}]
  BY DEF Types
<1>1. CASE Register(c)
  BY <1>1, OrderlyQuiet DEF Register, screen, mine, media
<1>2. CASE Granted(c)
  <2>1. /\ OpenPage /\ join[c].at = "posting" /\ room' = c /\ UNCHANGED <<view, timer, loads>>
        /\ conn' = [conn EXCEPT ![c] = "connecting"] /\ join' = [join EXCEPT ![c].at = "connecting"]
    BY <1>2 DEF Granted, screen
  <2>2. /\ conn'[c] = "connecting" /\ join'[c].at = "connecting"
        /\ \A d \in Taps : d # c => conn'[d] = conn[d] /\ join'[d] = join[d]
    BY ONLY <2>1, <1>0, c \in Taps
  <2>3. view = "playing" /\ ~timer /\ room = None /\ loads = 0 /\ \A d \in Taps : Pending(d) => d = c
    BY ONLY <2>1, Orderly, c \in Taps DEF Orderly, OneChain, OpenPage, Pending
  <2>4. \A d \in Taps : ~Open(d)
    BY ONLY <2>3, Orderly, TapsAre DEF Orderly, OnlyRoom
  <2>5. \A d \in Taps : (Pending(d)' => d = c) /\ (Open(d)' => d = c)
    BY ONLY <2>2, <2>3, <2>4 DEF Pending, Open
  <2>6. \A d \in Taps : d # c => join'[d].at \notin {"posting", "connecting", "starting"}
    BY ONLY <2>5 DEF Pending
  <2> QED BY ONLY <2>1, <2>2, <2>3, <2>5, <2>6 DEF Orderly, OneChain, OnlyRoom, OpenPage
<1>3. CASE JoinFails(c)
  <2>1. /\ OpenPage /\ join[c].at \in {"posting", "connecting"} /\ view' = "error"
        /\ join' = [join EXCEPT ![c].at = "failed"]
        /\ conn' = [conn EXCEPT ![c] = IF join[c].at = "connecting" THEN "closed" ELSE @]
        /\ UNCHANGED <<room, timer, loads>>
    BY <1>3 DEF JoinFails, Fail, mine
  <2>2. /\ join'[c].at = "failed" /\ \A d \in Taps : d # c => join'[d] = join[d]
        /\ \A d \in Taps : conn'[d] \in {conn[d], "closed"}
    BY ONLY <2>1, <1>0, c \in Taps
  <2>3. view = "playing" /\ ~timer /\ loads = 0 /\ \A d \in Taps : Pending(d) => d = c
    BY ONLY <2>1, Orderly, c \in Taps DEF Orderly, OneChain, OpenPage, Pending
  <2>4. \A d \in Taps : ~Pending(d)' /\ (Open(d)' => Open(d))
    BY ONLY <2>2, <2>3 DEF Pending, Open
  <2> QED BY ONLY <2>1, <2>3, <2>4, Orderly DEF Orderly, OneChain, OnlyRoom, Pending
<1>4. CASE Connected(c)
  <2>1. /\ OpenPage /\ join[c].at = "connecting" /\ conn' = [conn EXCEPT ![c] = "open"]
        /\ UNCHANGED <<room, timer, loads>>
    BY <1>4 DEF Connected, mine
  <2>2. room = c /\ ~timer /\ view = "playing" /\ loads = 0 /\ \A d \in Taps : Pending(d) => d = c
    BY ONLY <2>1, Orderly, c \in Taps DEF Orderly, OneChain, OpenPage, Pending
  <2>3. join' = [join EXCEPT ![c].at = "starting"] /\ UNCHANGED view
    BY <1>4, <2>2, TapsAre DEF Connected
  <2>4. /\ join'[c].at = "starting" /\ \A d \in Taps : d # c => join'[d] = join[d]
        /\ \A d \in Taps : d # c => conn'[d] = conn[d]
    BY ONLY <2>1, <2>3, <1>0, c \in Taps
  <2>5. \A d \in Taps : (Pending(d)' => d = c) /\ (Open(d)' => d = c)
    BY ONLY <2>2, <2>4, Orderly DEF Pending, Open, Orderly, OnlyRoom
  <2>6. \A d \in Taps : d # c => join'[d].at \notin {"posting", "connecting", "starting"}
    BY ONLY <2>5 DEF Pending
  <2> QED BY ONLY <2>1, <2>2, <2>3, <2>4, <2>5, <2>6 DEF Orderly, OneChain, OnlyRoom, OpenPage
<1>5. CASE Started(c)
  <2>1. /\ OpenPage /\ join[c].at = "starting" /\ join' = [join EXCEPT ![c].at = "joined"]
        /\ UNCHANGED <<room, view, loads, conn>>
    BY <1>5 DEF Started, mine
  <2>2. view = "playing" /\ loads = 0 /\ \A d \in Taps : Pending(d) => d = c
    BY ONLY <2>1, Orderly, c \in Taps DEF Orderly, OneChain, OpenPage, Pending
  <2>3. join'[c].at = "joined" /\ \A d \in Taps : d # c => join'[d] = join[d]
    BY ONLY <2>1, <1>0, c \in Taps
  <2>4. \A d \in Taps : ~Pending(d)'
    BY ONLY <2>2, <2>3 DEF Pending
  <2> QED BY ONLY <2>1, <2>2, <2>4, Orderly DEF Orderly, OneChain, OnlyRoom, Open, Pending
<1>6. ASSUME NEW l \in Languages, Choose(c, l) PROVE Orderly'
  <2>1. /\ view = "picker" /\ view' = "playing" /\ join' = [join EXCEPT ![c] = [at |-> "posting", language |-> l]]
        /\ UNCHANGED <<room, timer, loads, conn>>
    BY <1>6 DEF Choose, mine, media
  <2>2. room = None /\ ~timer /\ loads = 0 /\ \A d \in Taps : ~Pending(d)
    BY ONLY <2>1, Orderly DEF Orderly, OneChain
  <2>3. join'[c].at = "posting" /\ \A d \in Taps : d # c => join'[d] = join[d]
    BY ONLY <2>1, <1>0, c \in Taps
  <2>4. \A d \in Taps : d # c => join'[d].at \notin {"posting", "connecting", "starting"}
    BY ONLY <2>2, <2>3 DEF Pending
  <2> QED BY ONLY <2>1, <2>2, <2>3, <2>4, Orderly DEF Orderly, OneChain, OnlyRoom, Open, Pending
<1> QED BY <1>1, <1>2, <1>3, <1>4, <1>5, <1>6 DEF Joining, Answered

LEMMA OrderlyEvents ==
  ASSUME Types, Owned, Orderly, NEW c \in Taps, Events(c)
  PROVE  Orderly'
<1>1. CASE TrackPublished(c)
  BY <1>1, OrderlyQuiet DEF TrackPublished, screen, mine
<1>2. CASE TrackSubscribed(c)
  BY <1>2, OrderlyQuiet DEF TrackSubscribed, ClearTimer, mine
<1>3. CASE TrackUnsubscribed(c)
  BY <1>3, OrderlyQuiet DEF TrackUnsubscribed, mine
<1>4. CASE Reconnected(c)
  BY <1>4, OrderlyQuiet DEF Reconnected, mine
<1>5. CASE Disconnected(c)
  <2>1. /\ conn[c] \in {"open", "closing"} /\ conn' = [conn EXCEPT ![c] = "closed"]
        /\ UNCHANGED <<join, room, view, loads, timer>>
    BY <1>5 DEF Disconnected, mine
  <2>2. conn'[c] = "closed" /\ \A d \in Taps : d # c => conn'[d] = conn[d]
    BY <2>1 DEF Types
  <2> QED BY ONLY <2>1, <2>2, Orderly DEF Orderly, OneChain, OnlyRoom, Pending, Open, OpenPage
<1>6. CASE StatusEvent(c)
  BY <1>6, OrderlyQuiet DEF StatusEvent, mine, media
<1> QED BY <1>1, <1>2, <1>3, <1>4, <1>5, <1>6 DEF Events

LEMMA OrderlyStep ==
  ASSUME Types, Owned, Orderly, [Next]_vars, ~hasty'
  PROVE  Orderly'
<1>1. CASE UNCHANGED vars
  BY <1>1, OrderlyQuiet DEF vars, screen, mine, media
<1>2. CASE Next
  BY <1>2, OrderlyAlone, OrderlyJoining, OrderlyEvents DEF Next
<1> QED BY <1>1, <1>2

-----------------------------------------------------------------------------
(* The listener count.  Adrift are the taps whose listener may be counted  *)
(* although the page does not listen for them: a ghost, or one whose join  *)
(* has not been registered yet and may still be.                           *)

Adrift == {c \in Taps : join[c].at # "unused" /\ row[c] # "left" /\ ~Listening(c)}
Excused == retries + lost + hides

AdriftExplained == Cardinality(Adrift) <= Cardinality(Failed) + Excused

\* No step sets more than one tap adrift, and one that does is counted for it.
SetsAdrift ==
  /\ Failed \subseteq Failed'
  /\ \/ Adrift' \subseteq Adrift /\ Excused <= Excused'
     \/ \E x \in Taps : Adrift' \subseteq Adrift \union {x} /\ Excused + 1 <= Excused'
     \/ \E x \in Taps : Adrift' \subseteq Adrift \union {x} /\ x \in Failed' \ Failed /\ Excused <= Excused'

LEMMA SubsetsAreSmaller == ASSUME NEW S, NEW T, IsFiniteSet(T), S \subseteq T
                           PROVE /\ IsFiniteSet(S) /\ Cardinality(S) \in Nat /\ Cardinality(T) \in Nat
                                 /\ Cardinality(S) <= Cardinality(T)
<1>1. IsFiniteSet(S)
  BY ONLY FS_Subset, IsFiniteSet(T), S \subseteq T
<1>2. Cardinality(S) <= Cardinality(T)
  BY ONLY FS_Subset, IsFiniteSet(T), S \subseteq T
<1>3. Cardinality(S) \in Nat /\ Cardinality(T) \in Nat
  BY ONLY <1>1, FS_CardinalityType, IsFiniteSet(T)
<1> QED BY ONLY <1>1, <1>2, <1>3

LEMMA OneMore == ASSUME NEW S, NEW T, NEW x, IsFiniteSet(T), S \subseteq T \union {x}
                 PROVE  Cardinality(S) <= Cardinality(T) + 1
<1>1. /\ IsFiniteSet(T \union {x}) /\ Cardinality(T) \in Nat
      /\ Cardinality(T \union {x}) = IF x \in T THEN Cardinality(T) ELSE Cardinality(T) + 1
  BY ONLY FS_AddElement, FS_CardinalityType, IsFiniteSet(T)
<1>2. Cardinality(S) \in Nat /\ Cardinality(S) <= Cardinality(T \union {x})
  BY ONLY <1>1, SubsetsAreSmaller, S \subseteq T \union {x}
<1> QED BY ONLY <1>1, <1>2

LEMMA AdriftCounted ==
  ASSUME Types, Types', AdriftExplained, SetsAdrift
  PROVE  AdriftExplained'
<1> DEFINE A == Adrift
           B == Adrift'
           F == Failed
           G == Failed'
           e == Excused
           f == Excused'
<1>1. e \in Nat /\ f \in Nat
  <2>1. retries \in Nat /\ lost \in Nat /\ hides \in Nat
    BY ONLY Types DEF Types
  <2>2. retries' \in Nat /\ lost' \in Nat /\ hides' \in Nat
    BY ONLY Types' DEF Types
  <2>3. Excused \in Nat
    BY ONLY <2>1 DEF Excused
  <2>4. Excused' = retries' + lost' + hides'
    BY DEF Excused
  <2>5. \A i, j, k \in Nat : i + j + k \in Nat
    OBVIOUS
  <2>6. Excused' \in Nat
    BY ONLY <2>2, <2>4, <2>5
  <2> QED BY ONLY <2>3, <2>6 DEF e, f
<1>2. A \subseteq Taps /\ B \subseteq Taps /\ F \subseteq Taps /\ G \subseteq Taps
  BY DEF Adrift, Failed, Taps
<1>3. IsFiniteSet(A) /\ IsFiniteSet(B) /\ IsFiniteSet(F) /\ IsFiniteSet(G)
  <2> HIDE DEF A, B, F, G
  <2> QED BY ONLY <1>2, TapsAre, SubsetsAreSmaller
<1>4. Cardinality(A) <= Cardinality(F) + e
  BY DEF AdriftExplained
<1>5. F \subseteq G
  BY DEF SetsAdrift
<1>6. \/ B \subseteq A /\ e <= f
      \/ \E x \in Taps : B \subseteq A \union {x} /\ e + 1 <= f
      \/ \E x \in Taps : B \subseteq A \union {x} /\ x \in G \ F /\ e <= f
  BY ONLY SetsAdrift DEF SetsAdrift
<1> SUFFICES Cardinality(B) <= Cardinality(G) + f
  BY DEF AdriftExplained
<1> HIDE DEF A, B, F, G, e, f
<1>7. /\ Cardinality(A) \in Nat /\ Cardinality(B) \in Nat /\ Cardinality(F) \in Nat
      /\ Cardinality(G) \in Nat /\ Cardinality(F) <= Cardinality(G)
  <2>1. /\ Cardinality(F) \in Nat /\ Cardinality(G) \in Nat /\ Cardinality(F) <= Cardinality(G)
    BY ONLY <1>3, <1>5, SubsetsAreSmaller
  <2> QED BY ONLY <1>3, <2>1, FS_CardinalityType
<1>8. CASE B \subseteq A /\ e <= f
  <2>1. Cardinality(B) <= Cardinality(A)
    BY ONLY <1>8, <1>3, SubsetsAreSmaller
  <2> QED BY ONLY <1>1, <1>4, <1>7, <1>8, <2>1
<1>9. ASSUME NEW x \in Taps, B \subseteq A \union {x}, e + 1 <= f PROVE Cardinality(B) <= Cardinality(G) + f
  <2>1. Cardinality(B) <= Cardinality(A) + 1
    BY ONLY <1>9, <1>3, OneMore
  <2> QED BY ONLY <1>1, <1>4, <1>7, <1>9, <2>1
<1>10. ASSUME NEW x \in Taps, B \subseteq A \union {x}, x \in G \ F, e <= f
       PROVE  Cardinality(B) <= Cardinality(G) + f
  <2>1. Cardinality(B) <= Cardinality(A) + 1
    BY ONLY <1>10, <1>3, OneMore
  <2>2. F \union {x} \subseteq G /\ x \notin F
    BY ONLY <1>5, <1>10
  <2>3. IsFiniteSet(F \union {x}) /\ Cardinality(F \union {x}) = Cardinality(F) + 1
    BY ONLY <1>3, <2>2, FS_AddElement
  <2>4. Cardinality(F \union {x}) <= Cardinality(G)
    BY ONLY <1>3, <2>2, SubsetsAreSmaller
  <2> QED BY ONLY <1>1, <1>4, <1>7, <1>10, <2>1, <2>3, <2>4
<1> QED BY ONLY <1>6, <1>8, <1>9, <1>10

\* A step after which the page still listens for every tap it listened for, and
\* no report is unmade.
LEMMA NothingAdrift ==
  ASSUME Types, Failed \subseteq Failed', Excused <= Excused',
         \A c \in Taps : join'[c].at # "unused" /\ row'[c] # "left" /\ ~Listening(c)'
                            => join[c].at # "unused" /\ row[c] # "left" /\ ~Listening(c)
  PROVE  SetsAdrift
BY DEF SetsAdrift, Adrift

LEMMA AdriftAlone ==
  ASSUME Types, Owned, Orderly, ~hasty',
         TracksChange \/ Loaded \/ Retry \/ Change \/ Hide \/ TimerFires
  PROVE  SetsAdrift
<1>0. retries \in Nat /\ lost \in Nat /\ hides \in Nat /\ listenerId = room
  BY DEF Types, Owned
<1>1. CASE TracksChange \/ Loaded \/ TimerFires
  <2>1. UNCHANGED <<join, row, listenerId, retries, lost, hides>> /\ OpenPage /\ OpenPage'
    BY <1>1 DEF TracksChange, Loaded, Described, TimerFires, Fail, screen, mine, history, OpenPage
  <2>2. Failed' = Failed /\ Excused' = Excused
    BY ONLY <2>1 DEF Failed, Excused
  <2> QED BY ONLY <1>0, <2>1, <2>2 DEF Listening, Pending, SetsAdrift, Adrift, Excused
<1>2. CASE Retry
  <2>1. /\ UNCHANGED <<join, row, lost, hides>> /\ retries' = retries + 1 /\ listenerId' = None
        /\ \A c \in Taps : ~Pending(c)
        /\ OpenPage /\ OpenPage'
    BY <1>2 DEF Retry, Disconnect, OpenPage
  <2>2. Failed' = Failed /\ Excused + 1 <= Excused'
    BY ONLY <1>0, <2>1 DEF Failed, Excused
  <2>3. CASE listenerId = None
    <3>1. Adrift' \subseteq Adrift
      BY ONLY <2>1, <2>3 DEF Adrift, Listening, Pending
    <3>2. Excused <= Excused'
      BY ONLY <1>0, <2>1 DEF Excused
    <3> QED BY ONLY <2>2, <3>1, <3>2 DEF SetsAdrift
  <2>4. CASE listenerId # None
    <3>1. listenerId \in Taps
      BY <1>0, <2>4 DEF Types
    <3>2. Adrift' \subseteq Adrift \union {listenerId}
      BY ONLY <2>1 DEF Adrift, Listening, Pending
    <3> QED BY ONLY <2>2, <3>1, <3>2 DEF SetsAdrift
  <2> QED BY <2>3, <2>4
<1>3. CASE Change
  <2>1. /\ UNCHANGED <<join, retries, hides>> /\ Leave /\ listenerId' = None
        /\ \A c \in Taps : ~Pending(c)
        /\ OpenPage /\ OpenPage'
    BY <1>3 DEF Change, Disconnect, OpenPage
  <2>2. Failed' = Failed
    BY ONLY <2>1 DEF Failed
  <2>3. \/ row' = row /\ lost' = lost /\ listenerId = None
        \/ row' = row /\ lost' = lost + 1 /\ listenerId # None
        \/ /\ listenerId \in Taps /\ lost' = lost /\ row'[listenerId] = "left"
           /\ \A c \in Taps : c # listenerId => row'[c] = row[c]
    BY ONLY <2>1, Types, Owned, RowLeave
  <2>4. CASE row' = row /\ lost' = lost /\ listenerId = None
    <3>1. Adrift' \subseteq Adrift /\ Excused <= Excused'
      BY ONLY <1>0, <2>1, <2>4 DEF Adrift, Listening, Pending, Excused
    <3> QED BY ONLY <2>2, <3>1 DEF SetsAdrift
  <2>5. CASE row' = row /\ lost' = lost + 1 /\ listenerId # None
    <3>1. listenerId \in Taps
      BY <1>0, <2>5 DEF Types
    <3>2. Adrift' \subseteq Adrift \union {listenerId}
      BY ONLY <2>1, <2>5 DEF Adrift, Listening, Pending
    <3>3. Excused + 1 <= Excused'
      BY ONLY <1>0, <2>1, <2>5 DEF Excused
    <3> QED BY ONLY <2>2, <3>1, <3>2, <3>3 DEF SetsAdrift
  <2>6. CASE /\ listenerId \in Taps /\ lost' = lost /\ row'[listenerId] = "left"
             /\ \A c \in Taps : c # listenerId => row'[c] = row[c]
    <3>1. Adrift' \subseteq Adrift
      BY ONLY <2>1, <2>6 DEF Adrift, Listening, Pending
    <3>2. Excused <= Excused'
      BY ONLY <1>0, <2>1, <2>6 DEF Excused
    <3> QED BY ONLY <2>2, <3>1, <3>2 DEF SetsAdrift
  <2> QED BY ONLY <2>3, <2>4, <2>5, <2>6
<1>4. CASE Hide
  <2>1. UNCHANGED <<join, retries>> /\ Leave /\ hides' = hides + 1 /\ OpenPage
    BY <1>4 DEF Hide
  <2>2. Failed' = Failed
    BY ONLY <2>1 DEF Failed
  <2>3. \A c \in Taps : row'[c] # "left" => row[c] # "left"
    <3>1. \/ row' = row
          \/ /\ listenerId \in Taps /\ row'[listenerId] = "left"
             /\ \A c \in Taps : c # listenerId => row'[c] = row[c]
      BY ONLY <2>1, Types, Owned, RowLeave
    <3> QED BY ONLY <3>1
  <2>4. Excused + 1 <= Excused' /\ Excused <= Excused'
    <3>1. lost' = lost \/ lost' = lost + 1
      BY ONLY <2>1, Types, Owned, RowLeave
    <3> QED BY ONLY <1>0, <2>1, <3>1 DEF Excused
  <2>5. CASE UNCHANGED <<screen, mine, timer, loads, media>>
    <3>1. UNCHANGED <<view, listenerId>>
      BY ONLY <2>5 DEF screen, mine
    <3>2. Adrift' \subseteq Adrift
      BY ONLY <2>1, <2>3, <3>1 DEF Adrift, Listening, Pending, OpenPage
    <3> QED BY ONLY <2>2, <2>4, <3>2 DEF SetsAdrift
  <2>6. ASSUME NEW x \in Taps, \A c \in Taps : Listening(c) => c = x PROVE SetsAdrift
    <3>1. Adrift' \subseteq Adrift \union {x}
      BY ONLY <2>1, <2>3, <2>6 DEF Adrift
    <3> QED BY ONLY <2>2, <2>4, <3>1, x \in Taps DEF SetsAdrift
  <2>7. \A c, d \in Taps : Listening(c) /\ Listening(d) => c = d
    BY ONLY <1>0, <2>1, Orderly, TapsAre DEF Orderly, OneChain, Listening, Pending
  <2>8. CASE \A c \in Taps : ~Listening(c)
    <3>1. Adrift' \subseteq Adrift
      BY ONLY <2>1, <2>3, <2>8 DEF Adrift
    <3> QED BY ONLY <2>2, <2>4, <3>1 DEF SetsAdrift
  <2> QED BY <2>6, <2>7, <2>8
<1> QED BY <1>1, <1>2, <1>3, <1>4

LEMMA AdriftJoining ==
  ASSUME Types, Owned, Orderly, ~hasty', NEW c \in Taps, Joining(c)
  PROVE  SetsAdrift
<1>0. /\ join \in [Taps -> [at : Stages, language : Languages \union {None}]]
      /\ row \in [Taps -> {"none", "active", "left"}]
      /\ retries \in Nat /\ lost \in Nat /\ hides \in Nat /\ listenerId = room
  BY DEF Types, Owned
<1>1. UNCHANGED <<retries, lost, hides>> /\ Excused <= Excused'
  <2>1. UNCHANGED <<retries, lost, hides>>
    BY DEF Joining, Answered, Register, Granted, JoinFails, Connected, Started, Choose, history
  <2> QED BY ONLY <1>0, <2>1 DEF Excused
<1>2. CASE Register(c)
  <2>1. /\ row[c] = "none" /\ row' = [row EXCEPT ![c] = "active"]
        /\ UNCHANGED <<view, listenerId, join>>
    BY <1>2 DEF Register, screen, mine
  <2>2. Failed' = Failed /\ \A d \in Taps : row'[d] # "left" => row[d] # "left"
    BY ONLY <1>0, <2>1, c \in Taps DEF Failed
  <2>3. Adrift' \subseteq Adrift
    BY ONLY <2>1, <2>2 DEF Adrift, Listening, Pending, OpenPage
  <2> QED BY ONLY <1>1, <2>2, <2>3 DEF SetsAdrift
<1>3. CASE Granted(c)
  <2>1. /\ OpenPage /\ OpenPage' /\ join[c].at = "posting" /\ listenerId' = c /\ UNCHANGED row
        /\ join' = [join EXCEPT ![c].at = "connecting"]
    BY <1>3 DEF Granted, screen, OpenPage
  <2>2. join'[c].at = "connecting" /\ \A d \in Taps : d # c => join'[d] = join[d]
    BY ONLY <2>1, <1>0, c \in Taps
  <2>3. listenerId = None
    BY ONLY <1>0, <2>1, Orderly, c \in Taps DEF Orderly, OneChain
  <2>4. Failed' = Failed
    BY ONLY <2>1, <2>2 DEF Failed
  <2>5. Adrift' \subseteq Adrift
    BY ONLY <2>1, <2>2, <2>3, TapsAre DEF Adrift, Listening, Pending
  <2> QED BY ONLY <1>1, <2>4, <2>5 DEF SetsAdrift
<1>4. CASE JoinFails(c)
  <2>1. /\ OpenPage /\ OpenPage' /\ join[c].at \in {"posting", "connecting"} /\ UNCHANGED <<row, listenerId>>
        /\ join' = [join EXCEPT ![c].at = "failed"]
    BY <1>4 DEF JoinFails, Fail, mine, OpenPage
  <2>2. join'[c].at = "failed" /\ \A d \in Taps : d # c => join'[d] = join[d]
    BY ONLY <2>1, <1>0, c \in Taps
  <2>3. Failed \subseteq Failed' /\ c \in Failed' \ Failed
    BY ONLY <2>1, <2>2, c \in Taps DEF Failed
  <2>4. Adrift' \subseteq Adrift \union {c}
    BY ONLY <2>1, <2>2 DEF Adrift, Listening, Pending
  <2> QED BY ONLY <1>1, <2>3, <2>4, c \in Taps DEF SetsAdrift
<1>5. CASE Connected(c)
  <2>1. /\ OpenPage /\ join[c].at = "connecting" /\ UNCHANGED <<row, listenerId>>
    BY <1>5 DEF Connected, mine
  <2>2. room = c
    BY ONLY <2>1, Orderly, c \in Taps DEF Orderly, OneChain
  <2>3. join' = [join EXCEPT ![c].at = "starting"] /\ UNCHANGED view
    BY <1>5, <2>2, TapsAre DEF Connected
  <2>4. join'[c].at = "starting" /\ \A d \in Taps : d # c => join'[d] = join[d]
    BY ONLY <2>3, <1>0, c \in Taps
  <2>5. Failed' = Failed
    BY ONLY <2>1, <2>4 DEF Failed
  <2>6. Adrift' \subseteq Adrift
    BY ONLY <2>1, <2>3, <2>4 DEF Adrift, Listening, Pending, OpenPage
  <2> QED BY ONLY <1>1, <2>5, <2>6 DEF SetsAdrift
<1>6. CASE Started(c)
  <2>1. /\ OpenPage /\ join[c].at = "starting" /\ UNCHANGED <<row, view, listenerId>>
        /\ join' = [join EXCEPT ![c].at = "joined"]
    BY <1>6 DEF Started, mine
  <2>2. listenerId = c
    BY ONLY <1>0, <2>1, Orderly, c \in Taps DEF Orderly, OneChain
  <2>3. join'[c].at = "joined" /\ \A d \in Taps : d # c => join'[d] = join[d]
    BY ONLY <2>1, <1>0, c \in Taps
  <2>4. Failed' = Failed
    BY ONLY <2>1, <2>3 DEF Failed
  <2>5. Adrift' \subseteq Adrift
    BY ONLY <2>1, <2>2, <2>3 DEF Adrift, Listening, Pending, OpenPage
  <2> QED BY ONLY <1>1, <2>4, <2>5 DEF SetsAdrift
<1>7. ASSUME NEW l \in Languages, Choose(c, l) PROVE SetsAdrift
  <2>1. /\ OpenPage /\ OpenPage' /\ UNCHANGED <<row, listenerId>> /\ join[c].at = "unused"
        /\ join' = [join EXCEPT ![c] = [at |-> "posting", language |-> l]]
    BY <1>7 DEF Choose, mine, OpenPage
  <2>2. join'[c].at = "posting" /\ \A d \in Taps : d # c => join'[d] = join[d]
    BY ONLY <2>1, <1>0, c \in Taps
  <2>3. Failed' = Failed
    BY ONLY <2>1, <2>2 DEF Failed
  <2>4. Adrift' \subseteq Adrift
    BY ONLY <2>1, <2>2 DEF Adrift, Listening, Pending
  <2> QED BY ONLY <1>1, <2>3, <2>4 DEF SetsAdrift
<1> QED BY <1>2, <1>3, <1>4, <1>5, <1>6, <1>7 DEF Joining, Answered

LEMMA AdriftStep ==
  ASSUME Types, Owned, Orderly, [Next]_vars, ~hasty'
  PROVE  SetsAdrift
<1>1. ASSUME UNCHANGED <<row, view, listenerId, join, retries, lost, hides>> PROVE SetsAdrift
  <2>1. Failed' = Failed /\ Adrift' = Adrift /\ Excused' = Excused
    BY ONLY <1>1 DEF Failed, Adrift, Excused, Listening, Pending, OpenPage
  <2>2. Excused <= Excused
    BY ONLY Types DEF Types, Excused
  <2> QED BY ONLY <2>1, <2>2 DEF SetsAdrift
<1>2. CASE UNCHANGED vars
  BY <1>1, <1>2 DEF vars, screen, mine, history
<1>3. ASSUME NEW c \in Taps, Events(c) PROVE SetsAdrift
  BY <1>1, <1>3 DEF Events, TrackPublished, TrackSubscribed, TrackUnsubscribed, Reconnected,
     Disconnected, StatusEvent, screen, mine, history
<1> QED BY <1>2, <1>3, AdriftAlone, AdriftJoining DEF Next

-----------------------------------------------------------------------------
(* The false alarm.                                                        *)

\* A timer that runs while something is heard was armed after it was.
AlarmIsEarly ==
  /\ timer /\ heard # None => early
  /\ alarm => early

LEMMA AlarmStep ==
  ASSUME Types, AlarmIsEarly, [Next]_vars
  PROVE  AlarmIsEarly'
<1>0. heard \in Taps \union {None}
  BY DEF Types
<1>1. ASSUME timer' => timer, heard' # None => heard # None, UNCHANGED <<early, alarm>> PROVE AlarmIsEarly'
  BY ONLY AlarmIsEarly, <1>1 DEF AlarmIsEarly
<1>2. CASE TracksChange \/ Loaded \/ Retry \/ Change \/ Hide
  BY <1>1, <1>2 DEF TracksChange, Loaded, Retry, Change, Hide, Disconnect, mine, media, history
<1>3. CASE TimerFires
  BY <1>3 DEF TimerFires, AlarmIsEarly, media
<1>4. ASSUME NEW c \in Taps, Joining(c) PROVE AlarmIsEarly'
  <2>1. CASE Started(c)
    BY <2>1 DEF Started, AlarmIsEarly
  <2>2. CASE ~Started(c)
    BY <1>1, <1>4, <2>2 DEF Joining, Answered, Register, Granted, JoinFails, Connected, Choose, media, history
  <2> QED BY <2>1, <2>2
<1>5. ASSUME NEW c \in Taps, Events(c) PROVE AlarmIsEarly'
  <2>1. CASE TrackSubscribed(c)
    <3>1. UNCHANGED <<early, alarm>>
      BY <2>1 DEF TrackSubscribed, history
    <3>2. timer' = FALSE \/ UNCHANGED <<timer, heard>>
      BY <2>1 DEF TrackSubscribed, ClearTimer
    <3> QED BY ONLY <3>1, <3>2, AlarmIsEarly DEF AlarmIsEarly
  <2>2. CASE ~TrackSubscribed(c)
    BY <1>1, <1>5, <2>2 DEF Events, TrackPublished, TrackUnsubscribed, Reconnected,
       Disconnected, StatusEvent, Detached, media, history
  <2> QED BY <2>1, <2>2
<1>6. CASE UNCHANGED vars
  BY <1>1, <1>6 DEF vars, media, history
<1> QED BY <1>2, <1>3, <1>4, <1>5, <1>6 DEF Next

-----------------------------------------------------------------------------
(* The theorems.                                                           *)

IInv == Types /\ Owned /\ AlarmIsEarly /\ (hasty \/ (Orderly /\ AdriftExplained))

LEMMA HastyForGood == ASSUME [Next]_vars, ~hasty', hasty \in BOOLEAN PROVE ~hasty
<1>1. ASSUME NEW c \in Taps, Joining(c) PROVE hasty' = hasty
  BY <1>1 DEF Joining, Answered, Register, Granted, JoinFails, Connected, Started, Choose, history
<1>2. ASSUME NEW c \in Taps, Events(c) PROVE hasty' = hasty
  BY <1>2 DEF Events, TrackPublished, TrackSubscribed, TrackUnsubscribed, Reconnected,
     Disconnected, StatusEvent, history
<1>3. ASSUME TracksChange \/ Loaded \/ Hide \/ TimerFires \/ UNCHANGED vars PROVE hasty' = hasty
  BY <1>3 DEF TracksChange, Loaded, Hide, TimerFires, vars, history
<1>4. CASE Retry
  BY <1>4 DEF Retry
<1>5. CASE Change
  BY <1>5 DEF Change
<1> QED BY <1>1, <1>2, <1>3, <1>4, <1>5 DEF Next

LEMMA IInvInit == Init => IInv
<1> SUFFICES ASSUME Init PROVE IInv
  OBVIOUS
<1>1. Types
  BY DEF Init, Types, Stages
<1>2. Owned
  BY TapsAre DEF Init, Owned
<1>3. AlarmIsEarly
  BY DEF Init, AlarmIsEarly
<1>4. Orderly
  BY DEF Init, Orderly, OneChain, OnlyRoom, Pending, Open
<1>5. AdriftExplained
  <2>1. Adrift = {} /\ Excused = 0
    BY DEF Init, Adrift, Excused
  <2>2. Failed = {}
    BY DEF Init, Failed
  <2>3. Cardinality(Adrift) = 0 /\ Cardinality(Failed) = 0
    BY ONLY <2>1, <2>2, FS_EmptySet
  <2> QED BY ONLY <2>1, <2>3 DEF AdriftExplained
<1> QED BY <1>1, <1>2, <1>3, <1>4, <1>5 DEF IInv

LEMMA IInvStep == IInv /\ [Next]_vars => IInv'
<1> SUFFICES ASSUME IInv, [Next]_vars PROVE IInv'
  OBVIOUS
<1>1. Types /\ Owned /\ AlarmIsEarly /\ (hasty \/ (Orderly /\ AdriftExplained))
  BY DEF IInv
<1>2. Types' /\ Owned' /\ AlarmIsEarly'
  BY ONLY <1>1, [Next]_vars, TypesStep, OwnedStep, AlarmStep
<1>3. ASSUME ~hasty' PROVE Orderly' /\ AdriftExplained'
  <2>1. ~hasty
    BY ONLY <1>1, <1>3, [Next]_vars, HastyForGood DEF Types
  <2>2. Orderly'
    BY ONLY <1>1, <1>3, <2>1, [Next]_vars, OrderlyStep
  <2>3. SetsAdrift
    BY ONLY <1>1, <1>3, <2>1, [Next]_vars, AdriftStep
  <2> QED BY ONLY <1>1, <1>2, <2>1, <2>2, <2>3, AdriftCounted
<1> QED BY <1>2, <1>3 DEF IInv

LEMMA AlwaysIInv == Spec => []IInv
BY IInvInit, IInvStep, PTL DEF Spec

\* join.js:3-5, "Exactly one track is subscribed": a listener who never moves on
\* during a join has one connection at most, that of the current room, and hears
\* nothing else, however many languages they try and whatever the network does.
THEOREM OneStreamOnly == Spec => []OneStream
<1>1. IInv => OneStream
  <2> SUFFICES ASSUME IInv, ~hasty PROVE OneStream
    BY DEF OneStream
  <2>1. Types /\ Owned /\ Orderly
    BY DEF IInv
  <2>2. \A c \in Taps : Open(c) => c = room /\ wanted = join[c].language
    BY ONLY <2>1, TapsAre DEF Orderly, OnlyRoom, Owned
  <2>3. view = "picker" => room = None
    BY ONLY <2>1 DEF Orderly, OneChain
  <2>4. heard # None => conn[heard] # "closed" /\ (heard = room \/ conn[heard] = "closing")
    BY ONLY <2>1 DEF Types, Owned, Orderly, OnlyRoom, Open
  <2> QED BY ONLY <2>2, <2>3, <2>4 DEF OneStream
<1> QED BY <1>1, AlwaysIInv, PTL

\* The listener count is never further from the listeners than the joins that
\* failed, the taps on "Try again", the reports lost and the pages hidden explain.
THEOREM TheCountIsExplained == Spec => []CountExplained
<1>1. IInv => CountExplained
  <2> SUFFICES ASSUME IInv PROVE CountExplained
    OBVIOUS
  <2>1. Types /\ Owned
    BY DEF IInv
  <2>2. ASSUME ~hasty PROVE Cardinality(Ghosts) <= Cardinality(Failed) + retries + lost + hides
    <3>1. Ghosts \subseteq Adrift
      BY ONLY <2>1 DEF Ghosts, ActiveListeners, Adrift, Owned
    <3>2. IsFiniteSet(Adrift) /\ IsFiniteSet(Failed)
      <4>1. Adrift \subseteq Taps /\ Failed \subseteq Taps
        BY DEF Adrift, Failed
      <4> QED BY ONLY <4>1, TapsAre, SubsetsAreSmaller
    <3>3. Cardinality(Ghosts) <= Cardinality(Adrift) /\ Cardinality(Ghosts) \in Nat /\ Cardinality(Adrift) \in Nat
      BY ONLY <3>1, <3>2, SubsetsAreSmaller
    <3>4. Cardinality(Failed) \in Nat
      BY ONLY <3>2, FS_CardinalityType
    <3>5. Cardinality(Adrift) <= Cardinality(Failed) + (retries + lost + hides)
      BY <2>2 DEF IInv, AdriftExplained, Excused
    <3>6. retries \in Nat /\ lost \in Nat /\ hides \in Nat
      BY ONLY <2>1 DEF Types
    <3> QED BY ONLY <3>3, <3>4, <3>5, <3>6
  <2>3. \A c \in Taps : row[c] = "left" /\ listenerId = c => hides > 0
    BY ONLY <2>1 DEF Owned
  <2> QED BY ONLY <2>2, <2>3 DEF CountExplained
<1> QED BY <1>1, AlwaysIInv, PTL

\* The error that says no audio arrives is shown to one who hears only if the
\* track came before the timer that waits for it was armed.
THEOREM FalseAlarmsAreExplained == Spec => []FalseAlarmExplained
<1>1. IInv => FalseAlarmExplained
  BY DEF IInv, AlarmIsEarly, FalseAlarmExplained
<1> QED BY <1>1, AlwaysIInv, PTL
=============================================================================
