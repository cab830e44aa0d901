---------------------------- MODULE SourceRoomProofs ----------------------------
(***************************************************************************)
(* Who speaks in a room, and whose microphone is open, however many phones *)
(* there are and however often their speakers tap.                         *)
(*                                                                         *)
(* That one source speaks rests on the media server and the inspection     *)
(* (Sole): whoever has a track is connected, and of one session one phone  *)
(* at most is; a phone that may speak beside a source was granted unaware  *)
(* of it.  That a microphone is let go rests on the page (Held): unless    *)
(* its speaker was hasty, it has one attempt pending at most, only while   *)
(* it shows itself live, and one that still asks for its microphone shares *)
(* the page with no other.                                                 *)
(***************************************************************************)
EXTENDS SourceRoom, TLAPS

USE RoomAssumption DEF RoomAssumption

Stages == {"unused", "asking", "posting", "connecting", "publishing", "over"}
Views == {"start", "live", "error", "closed"}
Pages == [view : Views, status : {"other", "live"}, stream : Attempts \union {None}, room : Attempts \union {None}]

Grants == [at : Stages, on : Phones \union {None}, under : Nat]

Types ==
  /\ page \in [Phones -> Pages]
  /\ attempt \in [Attempts -> Grants]
  /\ conn \in [Attempts -> {"none", "connecting", "open", "broken", "dropped", "closed"}]
  /\ source \in [Participants -> {"off", "new", "asked", "missed"}]
  /\ mics \subseteq Attempts
  /\ \A c \in Attempts : attempt[c].at # "unused" => attempt[c].on \in Phones

\* An attempt without its grant has no Room, and a page's room is one that was made.
Connections ==
  /\ \A c \in Attempts : attempt[c].at \in {"unused", "asking", "posting"} => conn[c] = "none"
  /\ \A p \in Phones : page[p].room # None => conn[page[p].room] # "none"

There(c) == conn[c] \in {"open", "broken"}

Speaks(c) == conn[c] \in {"connecting", "open", "broken"}

Sole ==
  /\ \A c \in Attempts : source[c] # "off" => There(c)
  /\ \A b, c \in Attempts : There(b) /\ There(c) /\ attempt[b].under = attempt[c].under => b = c
  /\ \A c \in Attempts, x \in Participants :
       Speaks(c) /\ source[x] # "off" /\ x # c => <<c, x>> \in unaware

HeldOn(p) ==
  /\ \A b, c \in Attempts : Pending(b) /\ Pending(c) /\ attempt[b].on = p /\ attempt[c].on = p => b = c
  /\ \A c \in Attempts : Pending(c) /\ attempt[c].on = p => page[p].view = "live"
  /\ \A c \in Attempts : attempt[c].at = "asking" /\ attempt[c].on = p => \A m \in mics : attempt[m].on # p
  /\ \A m \in mics : attempt[m].on = p => page[p].stream = m /\ page[p].view # "start"

Held ==
  /\ \A m \in mics : attempt[m].at \notin {"unused", "asking"}
  /\ \A p \in Phones \ hasty : HeldOn(p)

LEMMA Names == /\ \A c \in Attempts : c # None /\ c # Venue
               /\ Attempts \subseteq Participants /\ Venue \in Participants /\ None \notin Participants
BY DEF Attempts, Participants

\* What is left when some have gone.
LEMMA SilenceIs ==
  ASSUME Types, NEW X, Silence(X)
  PROVE  /\ source' \in [Participants -> {"off", "new", "asked", "missed"}]
         /\ \A x \in Participants : source'[x] = IF x \in X THEN "off" ELSE source[x]
         /\ \A c, x : <<c, x>> \in unaware /\ c \notin X /\ x \notin X => <<c, x>> \in unaware'
<1>1. source \in [Participants -> {"off", "new", "asked", "missed"}]
  BY DEF Types
<1>2. /\ source' = [x \in Participants |-> IF x \in X THEN "off" ELSE source[x]]
      /\ unaware' = {u \in unaware : u[1] \notin X /\ u[2] \notin X}
  BY DEF Silence
<1> QED BY ONLY <1>1, <1>2

\* What is new when one publishes.
LEMMA PublishIs ==
  ASSUME Types, NEW x \in Participants, Publish(x)
  PROVE  /\ source' \in [Participants -> {"off", "new", "asked", "missed"}]
         /\ \A y \in Participants : y # x => source'[y] = source[y]
         /\ unaware \subseteq unaware'
         /\ source[x] # "off" \/ \A c \in Attempts : Speaks(c) /\ c # x => <<c, x>> \in unaware'
<1>1. source \in [Participants -> {"off", "new", "asked", "missed"}]
  BY DEF Types
<1>2. CASE source[x] = "off"
  <2>1. /\ source' = [source EXCEPT ![x] = "new"]
        /\ unaware' = unaware \union {<<c, x>> : c \in {b \in Attempts : Speaks(b)} \ {x}}
    BY <1>2 DEF Publish, MaySpeak, Speaks
  <2> QED BY ONLY <1>1, <2>1, x \in Participants
<1>3. CASE source[x] # "off"
  BY ONLY <1>1, <1>3, Publish(x) DEF Publish, air
<1> QED BY ONLY <1>2, <1>3

LEMMA CleanupIs ==
  ASSUME Types, NEW p \in Phones, NEW v \in Views, Cleanup(p, v)
  PROVE  /\ page' \in [Phones -> Pages] /\ mics' = mics \ {page[p].stream}
         /\ conn' \in [Attempts -> {"none", "connecting", "open", "broken", "dropped", "closed"}]
         /\ source' \in [Participants -> {"off", "new", "asked", "missed"}]
         /\ page'[p].view = v /\ page'[p].stream = None /\ page'[p].room = None
         /\ \A q \in Phones : q # p => page'[q] = page[q]
         /\ \A c \in Attempts : /\ conn'[c] = conn[c] \/ conn'[c] = "dropped"
                                /\ c = page[p].room /\ conn[c] # "closed" => conn'[c] = "dropped"
                                /\ c # page[p].room \/ conn[c] = "closed" => conn'[c] = conn[c]
         /\ \A x \in Participants : source'[x] = IF x = page[p].room THEN "off" ELSE source[x]
         /\ \A c, x : <<c, x>> \in unaware /\ c # page[p].room /\ x # page[p].room => <<c, x>> \in unaware'
<1>1. /\ page \in [Phones -> Pages] /\ page[p] \in Pages
      /\ conn \in [Attempts -> {"none", "connecting", "open", "broken", "dropped", "closed"}]
      /\ source \in [Participants -> {"off", "new", "asked", "missed"}]
  BY DEF Types
<1>2. /\ conn' = [c \in Attempts |-> IF c = page[p].room /\ conn[c] # "closed" THEN "dropped" ELSE conn[c]]
      /\ Silence({page[p].room})
      /\ mics' = mics \ {page[p].stream}
      /\ page' = [page EXCEPT ![p].stream = None, ![p].room = None, ![p].view = v]
  BY DEF Cleanup
<1>3. /\ page' \in [Phones -> Pages] /\ page'[p].view = v /\ page'[p].stream = None /\ page'[p].room = None
      /\ \A q \in Phones : q # p => page'[q] = page[q]
  <2> DEFINE new == [page[p] EXCEPT !.stream = None, !.room = None, !.view = v]
  <2>1. new \in Pages /\ new.view = v /\ new.stream = None /\ new.room = None
    BY ONLY <1>1, v \in Views DEF Pages
  <2>2. page' = [page EXCEPT ![p] = new]
    BY ONLY <1>1, <1>2, p \in Phones
  <2> HIDE DEF new
  <2> QED BY ONLY <1>1, <2>1, <2>2, p \in Phones
<1>4. conn' \in [Attempts -> {"none", "connecting", "open", "broken", "dropped", "closed"}]
  BY ONLY <1>1, <1>2
<1>5. /\ source' \in [Participants -> {"off", "new", "asked", "missed"}]
      /\ \A x \in Participants : source'[x] = IF x \in {page[p].room} THEN "off" ELSE source[x]
      /\ \A c, x : <<c, x>> \in unaware /\ c \notin {page[p].room} /\ x \notin {page[p].room} => <<c, x>> \in unaware'
  BY ONLY <1>2, SilenceIs, Types
<1>6. \A c \in Attempts : /\ conn'[c] = conn[c] \/ conn'[c] = "dropped"
                          /\ c = page[p].room /\ conn[c] # "closed" => conn'[c] = "dropped"
                          /\ c # page[p].room \/ conn[c] = "closed" => conn'[c] = conn[c]
  BY ONLY <1>1, <1>2
<1> QED BY ONLY <1>2, <1>3, <1>4, <1>5, <1>6

\* A page with one or two of its fields changed.
PageWith(f, p, view, stream, room) ==
  /\ f \in [Phones -> Pages] /\ \A q \in Phones : q # p => f[q] = page[q]
  /\ f[p].view = view /\ f[p].stream = stream /\ f[p].room = room

LEMMA PageIs ==
  ASSUME Types, NEW p \in Phones, NEW c \in Attempts, NEW v \in Views, NEW s \in {"other", "live"}
  PROVE  /\ PageWith([page EXCEPT ![p].view = v, ![p].status = s], p, v, page[p].stream, page[p].room)
         /\ PageWith([page EXCEPT ![p].stream = c, ![p].status = s], p, page[p].view, c, page[p].room)
         /\ PageWith([page EXCEPT ![p].stream = c, ![p].view = v], p, v, c, page[p].room)
         /\ PageWith([page EXCEPT ![p].view = v], p, v, page[p].stream, page[p].room)
         /\ PageWith([page EXCEPT ![p].status = s], p, page[p].view, page[p].stream, page[p].room)
         /\ PageWith([page EXCEPT ![p].room = c], p, page[p].view, page[p].stream, c)
<1>0. page \in [Phones -> Pages] /\ page[p] \in Pages
  BY DEF Types
<1>1. PageWith([page EXCEPT ![p].view = v, ![p].status = s], p, v, page[p].stream, page[p].room)
  <2> DEFINE new == [page[p] EXCEPT !.view = v, !.status = s]
  <2>1. new \in Pages /\ new.view = v /\ new.stream = page[p].stream /\ new.room = page[p].room
    BY ONLY <1>0, v \in Views, s \in {"other", "live"}, c \in Attempts DEF Pages
  <2>2. [page EXCEPT ![p].view = v, ![p].status = s] = [page EXCEPT ![p] = new]
    BY ONLY <1>0, p \in Phones
  <2> HIDE DEF new
  <2> QED BY ONLY <1>0, <2>1, <2>2, p \in Phones DEF PageWith
<1>2. PageWith([page EXCEPT ![p].stream = c, ![p].status = s], p, page[p].view, c, page[p].room)
  <2> DEFINE new == [page[p] EXCEPT !.stream = c, !.status = s]
  <2>1. new \in Pages /\ new.view = page[p].view /\ new.stream = c /\ new.room = page[p].room
    BY ONLY <1>0, v \in Views, s \in {"other", "live"}, c \in Attempts DEF Pages
  <2>2. [page EXCEPT ![p].stream = c, ![p].status = s] = [page EXCEPT ![p] = new]
    BY ONLY <1>0, p \in Phones
  <2> HIDE DEF new
  <2> QED BY ONLY <1>0, <2>1, <2>2, p \in Phones DEF PageWith
<1>3. PageWith([page EXCEPT ![p].stream = c, ![p].view = v], p, v, c, page[p].room)
  <2> DEFINE new == [page[p] EXCEPT !.stream = c, !.view = v]
  <2>1. new \in Pages /\ new.view = v /\ new.stream = c /\ new.room = page[p].room
    BY ONLY <1>0, v \in Views, s \in {"other", "live"}, c \in Attempts DEF Pages
  <2>2. [page EXCEPT ![p].stream = c, ![p].view = v] = [page EXCEPT ![p] = new]
    BY ONLY <1>0, p \in Phones
  <2> HIDE DEF new
  <2> QED BY ONLY <1>0, <2>1, <2>2, p \in Phones DEF PageWith
<1>4. PageWith([page EXCEPT ![p].view = v], p, v, page[p].stream, page[p].room)
  <2> DEFINE new == [page[p] EXCEPT !.view = v]
  <2>1. new \in Pages /\ new.view = v /\ new.stream = page[p].stream /\ new.room = page[p].room
    BY ONLY <1>0, v \in Views, s \in {"other", "live"}, c \in Attempts DEF Pages
  <2>2. [page EXCEPT ![p].view = v] = [page EXCEPT ![p] = new]
    BY ONLY <1>0, p \in Phones
  <2> HIDE DEF new
  <2> QED BY ONLY <1>0, <2>1, <2>2, p \in Phones DEF PageWith
<1>5. PageWith([page EXCEPT ![p].status = s], p, page[p].view, page[p].stream, page[p].room)
  <2> DEFINE new == [page[p] EXCEPT !.status = s]
  <2>1. new \in Pages /\ new.view = page[p].view /\ new.stream = page[p].stream /\ new.room = page[p].room
    BY ONLY <1>0, v \in Views, s \in {"other", "live"}, c \in Attempts DEF Pages
  <2>2. [page EXCEPT ![p].status = s] = [page EXCEPT ![p] = new]
    BY ONLY <1>0, p \in Phones
  <2> HIDE DEF new
  <2> QED BY ONLY <1>0, <2>1, <2>2, p \in Phones DEF PageWith
<1>6. PageWith([page EXCEPT ![p].room = c], p, page[p].view, page[p].stream, c)
  <2> DEFINE new == [page[p] EXCEPT !.room = c]
  <2>1. new \in Pages /\ new.view = page[p].view /\ new.stream = page[p].stream /\ new.room = c
    BY ONLY <1>0, v \in Views, s \in {"other", "live"}, c \in Attempts DEF Pages
  <2>2. [page EXCEPT ![p].room = c] = [page EXCEPT ![p] = new]
    BY ONLY <1>0, p \in Phones
  <2> HIDE DEF new
  <2> QED BY ONLY <1>0, <2>1, <2>2, p \in Phones DEF PageWith
<1> QED BY ONLY <1>1, <1>2, <1>3, <1>4, <1>5, <1>6

\* An attempt that is taken further, and nothing else.
Moved(c, stage) ==
  /\ attempt'[c].at = stage
  /\ \A b \in Attempts : attempt'[b].on = attempt[b].on /\ (b # c => attempt'[b] = attempt[b])

\* Of one attempt, what has happened to it.
LEMMA AttemptIs ==
  ASSUME Types, NEW c \in Attempts, NEW stage \in Stages, attempt' = [attempt EXCEPT ![c].at = stage]
  PROVE  /\ attempt' \in [Attempts -> Grants] /\ Moved(c, stage)
         /\ \A b \in Attempts : attempt'[b].under = attempt[b].under
<1>1. attempt \in [Attempts -> Grants]
  BY DEF Types
<1> QED BY ONLY <1>1, attempt' = [attempt EXCEPT ![c].at = stage], c \in Attempts, stage \in Stages DEF Grants, Moved

LEMMA GrantIs ==
  ASSUME Types, NEW c \in Attempts, NEW s \in Sessions, NEW seen, Granted(c, s, seen)
  PROVE  attempt' \in [Attempts -> Grants] /\ Moved(c, "connecting")
<1>1. attempt \in [Attempts -> Grants]
  BY DEF Types
<1>2. attempt' = [attempt EXCEPT ![c].at = "connecting", ![c].under = s]
  BY DEF Granted
<1>3. s \in Nat
  BY DEF Sessions
<1> DEFINE new == [attempt[c] EXCEPT !.at = "connecting", !.under = s]
<1>4. new \in Grants /\ new.at = "connecting" /\ new.on = attempt[c].on
  BY ONLY <1>1, <1>3, c \in Attempts DEF Grants, Stages
<1>5. attempt' = [attempt EXCEPT ![c] = new]
  BY ONLY <1>1, <1>2, c \in Attempts
<1> HIDE DEF new
<1> QED BY ONLY <1>1, <1>4, <1>5, c \in Attempts DEF Moved

\* What the steps of an attempt c do to its page.
LEMMA PageAfter ==
  ASSUME Types, Connections, NEW c \in Attempts, NEW p, p = attempt[c].on
  PROVE  /\ \A q \in Phones : Go(q, c) => PageWith(page', q, "live", page[q].stream, page[q].room)
         /\ MicGranted(c) => \/ /\ PageWith(page', p, page[p].view, c, page[p].room)
                               /\ attempt' = [attempt EXCEPT ![c].at = "posting"]
                            \/ /\ PageWith(page', p, "error", c, page[p].room)
                               /\ attempt' = [attempt EXCEPT ![c].at = "over"]
         /\ MicRefused(c) => PageWith(page', p, "error", page[p].stream, page[p].room)
         /\ \A s, seen : Granted(c, s, seen) => PageWith(page', p, page[p].view, page[p].stream, c)
         /\ Published(c) \/ Disconnected(c) \/ Reconnecting(c) \/ Reconnected(c) =>
              PageWith(page', p, page[p].view, page[p].stream, page[p].room)
<1>1. "live" \in Views /\ "error" \in Views
  BY DEF Views
<1>2. ASSUME NEW q \in Phones, Go(q, c) PROVE PageWith(page', q, "live", page[q].stream, page[q].room)
  <2>1. page' = [page EXCEPT ![q].view = "live", ![q].status = "other"]
    BY <1>2 DEF Go
  <2> QED BY ONLY <1>1, <2>1, PageIs, Types, q \in Phones, c \in Attempts
<1>3. attempt[c].at # "unused" => p \in Phones
  BY DEF Types
<1>4. ASSUME MicGranted(c) PROVE \/ /\ PageWith(page', p, page[p].view, c, page[p].room)
                                   /\ attempt' = [attempt EXCEPT ![c].at = "posting"]
                                \/ /\ PageWith(page', p, "error", c, page[p].room)
                                   /\ attempt' = [attempt EXCEPT ![c].at = "over"]
  <2>1. p \in Phones
    BY <1>3, <1>4 DEF MicGranted
  <2>2. \/ page' = [page EXCEPT ![p].stream = c, ![p].status = "other"] /\ attempt' = [attempt EXCEPT ![c].at = "posting"]
        \/ page' = [page EXCEPT ![p].stream = c, ![p].view = "error"] /\ attempt' = [attempt EXCEPT ![c].at = "over"]
    BY <1>4 DEF MicGranted
  <2>3. /\ PageWith([page EXCEPT ![p].stream = c, ![p].status = "other"], p, page[p].view, c, page[p].room)
        /\ PageWith([page EXCEPT ![p].stream = c, ![p].view = "error"], p, "error", c, page[p].room)
    BY ONLY <1>1, <2>1, PageIs, Types, c \in Attempts
  <2> QED BY ONLY <2>2, <2>3
<1>5. ASSUME MicRefused(c) PROVE PageWith(page', p, "error", page[p].stream, page[p].room)
  <2>1. p \in Phones /\ page' = [page EXCEPT ![p].view = "error"]
    BY <1>3, <1>5 DEF MicRefused
  <2> QED BY ONLY <1>1, <2>1, PageIs, Types, c \in Attempts
<1>6. ASSUME NEW s, NEW seen, Granted(c, s, seen) PROVE PageWith(page', p, page[p].view, page[p].stream, c)
  <2>1. p \in Phones /\ page' = [page EXCEPT ![p].room = c]
    BY <1>3, <1>6 DEF Granted
  <2> QED BY ONLY <1>1, <2>1, PageIs, Types, c \in Attempts
<1>7. ASSUME Published(c) \/ Disconnected(c) \/ Reconnecting(c) \/ Reconnected(c)
      PROVE  PageWith(page', p, page[p].view, page[p].stream, page[p].room)
  <2>1. attempt[c].at # "unused"
    BY <1>7 DEF Published, Disconnected, Reconnecting, Reconnected, Connections
  <2>2. page' = [page EXCEPT ![p].status = "other"] \/ page' = [page EXCEPT ![p].status = "live"]
    BY <1>7 DEF Published, Disconnected, Told, Reconnecting, Reconnected
  <2> QED BY ONLY <1>1, <1>3, <2>1, <2>2, PageIs, Types, c \in Attempts
<1> QED BY ONLY <1>2, <1>4, <1>5, <1>6, <1>7

LEMMA TypesStep == ASSUME Types, Connections, [Next]_vars PROVE Types'
<1>0. /\ page \in [Phones -> Pages]
      /\ attempt \in [Attempts -> Grants]
      /\ conn \in [Attempts -> {"none", "connecting", "open", "broken", "dropped", "closed"}]
      /\ source \in [Participants -> {"off", "new", "asked", "missed"}]
      /\ mics \subseteq Attempts
      /\ \A c \in Attempts : attempt[c].at # "unused" => attempt[c].on \in Phones
  BY DEF Types
<1>1. ASSUME NEW c \in Attempts, Speak(c) PROVE Types'
  <2>1. ASSUME NEW p \in Phones, Go(p, c) PROVE Types'
    <3>1. page' \in [Phones -> Pages]
      BY <2>1, PageAfter DEF PageWith
    <3>2. /\ attempt' = [attempt EXCEPT ![c] = [at |-> "asking", on |-> p, under |-> 0]]
          /\ UNCHANGED <<mics, conn, source>>
      BY <2>1 DEF Go, air
    <3>3. /\ attempt' \in [Attempts -> Grants]
          /\ attempt'[c].on = p /\ \A b \in Attempts : b # c => attempt'[b] = attempt[b]
      BY ONLY <1>0, <3>2, c \in Attempts, p \in Phones DEF Stages, Grants
    <3> QED BY ONLY <1>0, <3>1, <3>2, <3>3, p \in Phones DEF Types
  <2>2. ASSUME NEW stage \in Stages, attempt[c].at # "unused", attempt' = [attempt EXCEPT ![c].at = stage]
        PROVE  /\ attempt' \in [Attempts -> Grants]
               /\ \A b \in Attempts : attempt'[b].at # "unused" => attempt'[b].on \in Phones
    BY ONLY <1>0, <2>2, AttemptIs, Types, c \in Attempts DEF Moved
  <2>3. CASE MicGranted(c)
    <3>1. /\ attempt[c].at = "asking" /\ mics' = mics \union {c} /\ UNCHANGED <<conn, source>>
          /\ attempt' = [attempt EXCEPT ![c].at = "posting"] \/ attempt' = [attempt EXCEPT ![c].at = "over"]
      BY <2>3 DEF MicGranted, air
    <3>2. page' \in [Phones -> Pages]
      BY <2>3, PageAfter DEF PageWith
    <3> QED BY <1>0, <2>2, <3>1, <3>2 DEF Types, Stages
  <2>4. CASE MicRefused(c)
    <3>1. page' \in [Phones -> Pages]
      BY <2>4, PageAfter DEF PageWith
    <3> QED BY <1>0, <2>2, <2>4, <3>1 DEF MicRefused, air, Types, Stages
  <2>5. ASSUME NEW s \in Sessions, NEW seen, Granted(c, s, seen) PROVE Types'
    <3>1. page' \in [Phones -> Pages]
      BY <2>5, PageAfter DEF PageWith
    <3>2. attempt' \in [Attempts -> Grants] /\ Moved(c, "connecting")
      BY ONLY <2>5, GrantIs, Types, c \in Attempts
    <3>3. \A b \in Attempts : attempt'[b].at # "unused" => attempt'[b].on \in Phones
      <4>1. attempt[c].at = "posting"
        BY <2>5 DEF Granted
      <4> QED BY ONLY <1>0, <3>2, <4>1, c \in Attempts DEF Moved
    <3>4. /\ conn' = [conn EXCEPT ![c] = "connecting"] /\ UNCHANGED <<mics, source>>
      BY <2>5 DEF Granted
    <3> QED BY ONLY <1>0, <3>1, <3>2, <3>3, <3>4, c \in Attempts DEF Types
  <2>6. CASE Connected(c)
    <3>1. source' \in [Participants -> {"off", "new", "asked", "missed"}]
      BY <2>6, SilenceIs DEF Connected
    <3> QED BY <1>0, <2>2, <2>6, <3>1 DEF Connected, Types, Stages
  <2>7. CASE Published(c)
    <3>1. page' \in [Phones -> Pages]
      BY <2>7, PageAfter DEF PageWith
    <3>2. source' \in [Participants -> {"off", "new", "asked", "missed"}]
      <4>1. attempt[c].on \in Phones /\ page[attempt[c].on].room # None /\ Publish(page[attempt[c].on].room)
        BY <1>0, <2>7 DEF Published
      <4>2. page[attempt[c].on].room \in Participants
        BY ONLY <1>0, <4>1, Names DEF Pages
      <4> QED BY ONLY <4>1, <4>2, PublishIs, Types
    <3> QED BY <1>0, <2>2, <2>7, <3>1, <3>2 DEF Published, Types, Stages
  <2>8. CASE AttemptFails(c)
    <3>1. /\ attempt[c].at # "unused" /\ attempt' = [attempt EXCEPT ![c].at = "over"]
          /\ Cleanup(attempt[c].on, "error") /\ attempt[c].on \in Phones
      BY <1>0, <2>8 DEF AttemptFails
    <3>2. "error" \in Views
      BY DEF Views
    <3>3. /\ page' \in [Phones -> Pages] /\ mics' = mics \ {page[attempt[c].on].stream}
          /\ conn' \in [Attempts -> {"none", "connecting", "open", "broken", "dropped", "closed"}]
          /\ source' \in [Participants -> {"off", "new", "asked", "missed"}]
      BY ONLY <3>1, <3>2, CleanupIs, Types
    <3> QED BY <1>0, <2>2, <3>1, <3>3 DEF Types, Stages
  <2>9. CASE NetworkDrops(c)
    <3>1. source' \in [Participants -> {"off", "new", "asked", "missed"}]
      BY <2>9, SilenceIs DEF NetworkDrops
    <3> QED BY <1>0, <2>9, <3>1 DEF NetworkDrops, Types
  <2>10. CASE Disconnected(c) \/ Reconnecting(c) \/ Reconnected(c)
    <3>1. page' \in [Phones -> Pages]
      BY <2>10, PageAfter DEF PageWith
    <3>2. conn' \in [Attempts -> {"none", "connecting", "open", "broken", "dropped", "closed"}]
      BY <1>0, <2>10 DEF Disconnected, Reconnecting, Reconnected
    <3>3. UNCHANGED <<attempt, mics, source>>
      BY <2>10 DEF Disconnected, Reconnecting, Reconnected, air
    <3> QED BY ONLY <1>0, <3>1, <3>2, <3>3 DEF Types
  <2> QED BY <1>1, <2>1, <2>3, <2>4, <2>5, <2>6, <2>7, <2>8, <2>9, <2>10 DEF Speak, Grant
<1>2. ASSUME NEW p \in Phones, Stop(p) \/ Retry(p) PROVE Types'
  <2>1. PICK v \in Views : Cleanup(p, v)
    BY <1>2 DEF Stop, Retry, Views
  <2>2. /\ page' \in [Phones -> Pages] /\ mics' = mics \ {page[p].stream}
        /\ conn' \in [Attempts -> {"none", "connecting", "open", "broken", "dropped", "closed"}]
        /\ source' \in [Participants -> {"off", "new", "asked", "missed"}]
    BY ONLY <2>1, CleanupIs, Types, p \in Phones
  <2>3. UNCHANGED attempt
    BY <1>2 DEF Stop, Retry
  <2> QED BY ONLY <1>0, <2>2, <2>3 DEF Types
<1>3. ASSUME NEW p \in Phones, Hide(p) PROVE Types'
  <2> DEFINE gone == {c \in Attempts : attempt[c].on = p}
  <2>1. /\ page' = [page EXCEPT ![p] = [view |-> "closed", status |-> "other", stream |-> None, room |-> None]]
        /\ mics' = mics \ gone /\ Silence(gone)
        /\ conn' = [c \in Attempts |-> IF c \in gone THEN "closed" ELSE conn[c]]
        /\ attempt' = [c \in Attempts |-> IF c \in gone THEN [attempt[c] EXCEPT !.at = "over"] ELSE attempt[c]]
    BY <1>3 DEF Hide
  <2>2. page' \in [Phones -> Pages]
    BY ONLY <1>0, <2>1, p \in Phones DEF Pages, Views
  <2> HIDE DEF gone
  <2>3. /\ attempt' \in [Attempts -> Grants]
        /\ \A c \in Attempts : attempt'[c].at # "unused" => attempt'[c].on \in Phones
    <3>0. \A c \in Attempts : c \in gone <=> attempt[c].on = p
      BY DEF gone
    <3>1. \A c \in Attempts : attempt'[c] \in Grants /\ (attempt'[c].at # "unused" => attempt'[c].on \in Phones)
      BY ONLY <1>0, <2>1, <3>0, p \in Phones DEF Stages, Grants
    <3>2. attempt' = [c \in Attempts |-> attempt'[c]]
      BY ONLY <2>1
    <3> QED BY ONLY <3>1, <3>2
  <2>4. source' \in [Participants -> {"off", "new", "asked", "missed"}]
    BY ONLY <2>1, SilenceIs, Types
  <2> QED BY ONLY <1>0, <2>1, <2>2, <2>3, <2>4 DEF Types
<1>4. CASE VenuePublishes
  <2>1. Publish(Venue) /\ UNCHANGED phones
    BY <1>4 DEF VenuePublishes
  <2>2. source' \in [Participants -> {"off", "new", "asked", "missed"}]
    BY ONLY <2>1, PublishIs, Types, Names
  <2> QED BY ONLY <1>0, <2>1, <2>2 DEF phones, Types
<1>5. CASE VenueLeaves
  <2>1. Silence({Venue}) /\ UNCHANGED phones
    BY <1>5 DEF VenueLeaves
  <2>2. source' \in [Participants -> {"off", "new", "asked", "missed"}]
    BY ONLY <2>1, SilenceIs, Types
  <2> QED BY ONLY <1>0, <2>1, <2>2 DEF phones, Types
<1>6. CASE Listen
  <2>1. UNCHANGED phones
    BY <1>6 DEF Listen, ServiceConnects, RoomEnds, GiveUp, LeaveRoom, TrackPublished, TrackSubscribed
  <2>2. source' \in [Participants -> {"off", "new", "asked", "missed"}]
    BY <1>0, <1>6 DEF Listen, ServiceConnects, Sweep, RoomEnds, GiveUp, LeaveRoom, TrackPublished, TrackSubscribed
  <2> QED BY ONLY <1>0, <2>1, <2>2 DEF phones, Types
<1>7. CASE UNCHANGED vars
  BY <1>0, <1>7 DEF vars, phones, air, Types
<1> QED BY <1>1, <1>2, <1>3, <1>4, <1>5, <1>6, <1>7 DEF Next

-----------------------------------------------------------------------------
(* Rooms and their tracks.                                                 *)

LEMMA ConnectionsStep == ASSUME Types, Connections, [Next]_vars PROVE Connections'
<1>0. /\ page \in [Phones -> Pages]
      /\ attempt \in [Attempts -> Grants]
      /\ conn \in [Attempts -> {"none", "connecting", "open", "broken", "dropped", "closed"}]
      /\ \A c \in Attempts : attempt[c].at # "unused" => attempt[c].on \in Phones
      /\ \A c \in Attempts : attempt[c].at \in {"unused", "asking", "posting"} => conn[c] = "none"
      /\ \A p \in Phones : page[p].room # None => conn[page[p].room] # "none"
      /\ \A p \in Phones : page[p].room \in Attempts \union {None}
  <2>1. page \in [Phones -> Pages]
    BY DEF Types
  <2> QED BY <2>1 DEF Types, Connections, Pages
<1>1. ASSUME NEW c \in Attempts, Speak(c) PROVE Connections'
  <2>1. ASSUME NEW p \in Phones, Go(p, c) PROVE Connections'
    <3>1. PageWith(page', p, "live", page[p].stream, page[p].room)
      BY <2>1, PageAfter
    <3>2. /\ attempt[c].at = "unused" /\ attempt' = [attempt EXCEPT ![c] = [at |-> "asking", on |-> p, under |-> 0]]
          /\ conn' = conn
      BY <2>1 DEF Go
    <3> QED BY ONLY <1>0, <3>1, <3>2, p \in Phones DEF PageWith, Connections
  <2>2. CASE MicGranted(c)
    <3>1. attempt[c].at = "asking" /\ conn' = conn /\ attempt[c].on \in Phones
      BY <1>0, <2>2 DEF MicGranted
    <3>2. \E stage \in Stages : attempt' = [attempt EXCEPT ![c].at = stage]
      BY <2>2 DEF MicGranted, Stages
    <3>3. \A q \in Phones : page'[q].room = page[q].room
      BY <2>2, <3>1, PageAfter DEF PageWith
    <3> QED BY ONLY <1>0, <3>1, <3>2, <3>3, AttemptIs, Types, c \in Attempts DEF Connections, Moved
  <2>3. CASE MicRefused(c)
    <3>1. attempt[c].at = "asking" /\ conn' = conn /\ attempt[c].on \in Phones
      BY <1>0, <2>3 DEF MicRefused
    <3>2. \E stage \in Stages : attempt' = [attempt EXCEPT ![c].at = stage]
      BY <2>3 DEF MicRefused, Stages
    <3>3. \A q \in Phones : page'[q].room = page[q].room
      BY <2>3, <3>1, PageAfter DEF PageWith
    <3> QED BY ONLY <1>0, <3>1, <3>2, <3>3, AttemptIs, Types, c \in Attempts DEF Connections, Moved
  <2>4. ASSUME NEW s \in Sessions, NEW seen, Granted(c, s, seen) PROVE Connections'
    <3>1. /\ attempt[c].at = "posting" /\ attempt[c].on \in Phones
          /\ conn' = [conn EXCEPT ![c] = "connecting"]
      BY <1>0, <2>4 DEF Granted
    <3>2. \A q \in Phones : page'[q].room \in {page[q].room, c}
      <4>1. PageWith(page', attempt[c].on, page[attempt[c].on].view, page[attempt[c].on].stream, c)
        BY ONLY <2>4, PageAfter, Types, Connections, c \in Attempts
      <4> QED BY ONLY <3>1, <4>1 DEF PageWith
    <3>3. Moved(c, "connecting")
      BY ONLY <2>4, GrantIs, Types, c \in Attempts
    <3> QED BY ONLY <1>0, <3>1, <3>2, <3>3, c \in Attempts DEF Connections, Moved
  <2>5. CASE Connected(c)
    <3>1. /\ page' = page /\ attempt[c].at = "connecting" /\ attempt' = [attempt EXCEPT ![c].at = "publishing"]
          /\ \A b \in Attempts : conn'[b] = "none" <=> conn[b] = "none"
      BY <1>0, <2>5 DEF Connected, SameName
    <3> QED BY ONLY <1>0, <3>1, c \in Attempts, Names DEF Connections
  <2>6. CASE Published(c)
    <3>1. /\ attempt[c].at = "publishing" /\ attempt[c].on \in Phones
          /\ conn' = conn /\ attempt' = [attempt EXCEPT ![c].at = "over"]
      BY <1>0, <2>6 DEF Published
    <3>2. \A q \in Phones : page'[q].room = page[q].room
      <4>1. PageWith(page', attempt[c].on, page[attempt[c].on].view, page[attempt[c].on].stream, page[attempt[c].on].room)
        BY ONLY <2>6, PageAfter, Types, Connections, c \in Attempts
      <4> QED BY ONLY <3>1, <4>1 DEF PageWith
    <3> QED BY ONLY <1>0, <3>1, <3>2, c \in Attempts DEF Connections
  <2>7. CASE AttemptFails(c)
    <3>1. /\ attempt[c].at # "unused" /\ attempt' = [attempt EXCEPT ![c].at = "over"]
          /\ Cleanup(attempt[c].on, "error") /\ attempt[c].on \in Phones /\ "error" \in Views
          /\ attempt[c].at \notin {"unused", "asking"}
      BY <1>0, <2>7 DEF AttemptFails, Views
    <3>2. /\ \A q \in Phones : page'[q].room \in {page[q].room, None}
          /\ \A b \in Attempts : /\ conn'[b] = "none" <=> conn[b] = "none" /\ b # page[attempt[c].on].room
                                 /\ b = page[attempt[c].on].room => conn[b] # "none"
      <4>1. PICK p \in Phones : p = attempt[c].on
        BY ONLY <3>1
      <4>2. \A q \in Phones : page'[q].room \in {page[q].room, None}
        BY ONLY <3>1, <4>1, CleanupIs, Types
      <4>3. \A b \in Attempts : /\ conn'[b] = "none" <=> conn[b] = "none" /\ b # page[p].room
                                /\ b = page[p].room => conn[b] # "none"
        BY ONLY <1>0, <3>1, <4>1, CleanupIs, Types, Names
      <4> QED BY ONLY <4>1, <4>2, <4>3
    <3> QED BY ONLY <1>0, <3>1, <3>2, c \in Attempts DEF Connections
  <2>8. CASE NetworkDrops(c)
    <3>1. page' = page /\ attempt' = attempt /\ \A b \in Attempts : conn'[b] = "none" <=> conn[b] = "none"
      BY <1>0, <2>8 DEF NetworkDrops
    <3> QED BY ONLY <1>0, <3>1, Names DEF Connections
  <2>9. CASE Disconnected(c) \/ Reconnecting(c) \/ Reconnected(c)
    <3>1. attempt' = attempt /\ \A b \in Attempts : conn'[b] = "none" <=> conn[b] = "none"
      BY <1>0, <2>9 DEF Disconnected, Reconnecting, Reconnected
    <3>2. attempt[c].on \in Phones
      BY <1>0, <2>9 DEF Disconnected, Reconnecting, Reconnected
    <3>3. \A q \in Phones : page'[q].room = page[q].room
      BY <2>9, <3>2, PageAfter DEF PageWith
    <3> QED BY ONLY <1>0, <3>1, <3>3, Names DEF Connections
  <2> QED BY <1>1, <2>1, <2>2, <2>3, <2>4, <2>5, <2>6, <2>7, <2>8, <2>9 DEF Speak, Grant
<1>2. ASSUME NEW p \in Phones, Stop(p) \/ Retry(p) PROVE Connections'
  <2>1. PICK v \in Views : Cleanup(p, v)
    BY <1>2 DEF Stop, Retry, Views
  <2>2. attempt' = attempt
    BY <1>2 DEF Stop, Retry
  <2>3. /\ \A q \in Phones : page'[q].room \in {page[q].room, None}
        /\ \A b \in Attempts : /\ conn'[b] = "none" <=> conn[b] = "none" /\ b # page[p].room
                               /\ b = page[p].room => conn[b] # "none"
    BY ONLY <1>0, <2>1, CleanupIs, Types, Names, p \in Phones
  <2> QED BY ONLY <1>0, <2>2, <2>3 DEF Connections
<1>3. ASSUME NEW p \in Phones, Hide(p) PROVE Connections'
  <2> DEFINE gone == {c \in Attempts : attempt[c].on = p}
  <2>1. /\ page' = [page EXCEPT ![p] = [view |-> "closed", status |-> "other", stream |-> None, room |-> None]]
        /\ conn' = [c \in Attempts |-> IF c \in gone THEN "closed" ELSE conn[c]]
        /\ attempt' = [c \in Attempts |-> IF c \in gone THEN [attempt[c] EXCEPT !.at = "over"] ELSE attempt[c]]
    BY <1>3 DEF Hide
  <2> HIDE DEF gone
  <2> QED BY ONLY <1>0, <2>1, p \in Phones DEF Connections
<1>4. CASE VenuePublishes \/ VenueLeaves \/ Listen \/ UNCHANGED vars
  <2>1. UNCHANGED phones
    BY <1>4 DEF VenuePublishes, VenueLeaves, Listen, ServiceConnects, RoomEnds, GiveUp, LeaveRoom, TrackPublished,
                TrackSubscribed, vars
  <2> QED BY ONLY <1>0, <2>1 DEF phones, Connections
<1> QED BY <1>1, <1>2, <1>3, <1>4 DEF Next

\* Who is on the air, and who may come on it, changes only as far as this.
LEMMA SoleStays ==
  ASSUME Sole,
         \A c \in Attempts : (There(c)' => There(c)) /\ (Speaks(c)' => Speaks(c)),
         \A c \in Attempts : There(c)' => attempt'[c].under = attempt[c].under,
         \A c \in Attempts : source'[c] # "off" => There(c)',
         \A x \in Participants : source'[x] # "off" => source[x] # "off",
         \A c \in Attempts, x \in Participants :
           <<c, x>> \in unaware /\ Speaks(c)' /\ source'[x] # "off" => <<c, x>> \in unaware'
  PROVE  Sole'
BY DEF Sole

LEMMA SoleStep == ASSUME Types, Connections, Sole, [Next]_vars PROVE Sole'
<1>0. /\ page \in [Phones -> Pages] /\ attempt \in [Attempts -> Grants]
      /\ conn \in [Attempts -> {"none", "connecting", "open", "broken", "dropped", "closed"}]
      /\ source \in [Participants -> {"off", "new", "asked", "missed"}]
      /\ \A c \in Attempts : attempt[c].at # "unused" => attempt[c].on \in Phones
      /\ \A c \in Attempts : attempt[c].at \in {"unused", "asking", "posting"} => conn[c] = "none"
      /\ \A p \in Phones : page[p].room # None => conn[page[p].room] # "none"
      /\ \A p \in Phones : page[p].room \in Attempts \union {None}
  <2>1. page \in [Phones -> Pages]
    BY DEF Types
  <2> QED BY <2>1 DEF Types, Connections, Pages
\* A page is cleaned up: its Room, and its track, are gone.
<1>1. ASSUME NEW p \in Phones, NEW v \in Views, Cleanup(p, v), \A b \in Attempts : attempt'[b].under = attempt[b].under
      PROVE  Sole'
  <2>1. \A c \in Attempts : /\ There(c)' => There(c) /\ c # page[p].room
                            /\ Speaks(c)' => Speaks(c) /\ c # page[p].room
                            /\ There(c) /\ c # page[p].room => There(c)'
    BY ONLY <1>0, <1>1, CleanupIs, Types DEF There, Speaks
  <2>2. \A x \in Participants : source'[x] # "off" => source[x] # "off" /\ x # page[p].room
    BY ONLY <1>0, <1>1, CleanupIs, Types
  <2>3. \A c \in Attempts : source'[c] # "off" => There(c)'
    BY ONLY <2>1, <2>2, Names, Sole DEF Sole
  <2>4. \A c \in Attempts, x \in Participants :
          <<c, x>> \in unaware /\ Speaks(c)' /\ source'[x] # "off" => <<c, x>> \in unaware'
    BY ONLY <1>1, <2>1, <2>2, CleanupIs, Types
  <2> QED BY ONLY <1>1, <2>1, <2>2, <2>3, <2>4, Sole, SoleStays
\* An attempt that may yet speak is not one without its grant.
<1>2. ASSUME NEW c \in Attempts, NEW stage \in Stages, attempt' = [attempt EXCEPT ![c].at = stage]
      PROVE  \A b \in Attempts : attempt'[b].under = attempt[b].under
  BY ONLY <1>2, AttemptIs, Types
<1>3. ASSUME NEW c \in Attempts, Speak(c) PROVE Sole'
  <2>1. ASSUME NEW p \in Phones, Go(p, c) PROVE Sole'
    <3>1. /\ attempt[c].at = "unused" /\ UNCHANGED <<conn, source, unaware>>
          /\ attempt' = [attempt EXCEPT ![c] = [at |-> "asking", on |-> p, under |-> 0]]
      BY <2>1 DEF Go, air
    <3>2. /\ conn[c] = "none" /\ \A b \in Attempts : b # c => attempt'[b] = attempt[b]
      BY ONLY <1>0, <3>1, c \in Attempts
    <3>3. \A b \in Attempts : There(b)' => attempt'[b].under = attempt[b].under
      BY ONLY <3>1, <3>2 DEF There
    <3> QED BY ONLY <3>1, <3>3, Sole DEF Sole, There, Speaks
  <2>2. CASE MicGranted(c) \/ MicRefused(c)
    <3>1. /\ \E stage \in Stages : attempt' = [attempt EXCEPT ![c].at = stage]
          /\ UNCHANGED <<conn, source, unaware>>
      BY <2>2 DEF MicGranted, MicRefused, air, Stages
    <3>2. \A b \in Attempts : attempt'[b].under = attempt[b].under
      BY ONLY <1>2, <3>1, c \in Attempts
    <3> QED BY ONLY <3>1, <3>2, Sole DEF Sole, There, Speaks
  <2>3. ASSUME NEW s \in Sessions, NEW seen, Granted(c, s, seen) PROVE Sole'
    <3>1. /\ unaware' = unaware \union {<<c, x>> : x \in Sources}
          /\ conn' = [conn EXCEPT ![c] = "connecting"] /\ source' = source /\ conn[c] = "none"
      <4>1. Sources \ {} = Sources
        OBVIOUS
      <4> QED BY <1>0, <2>3, <4>1 DEF Granted
    <3>2. \A x \in Participants : x \in Sources <=> source[x] # "off"
      BY DEF Sources
    <3>3. \A b \in Attempts : /\ There(b)' <=> There(b)
                              /\ Speaks(b)' <=> Speaks(b) \/ b = c
                              /\ There(b) => b # c
      BY ONLY <1>0, <3>1, c \in Attempts DEF There, Speaks
    <3>4. Moved(c, "connecting")
      BY ONLY <2>3, GrantIs, Types, c \in Attempts
    <3>5. \A b \in Attempts : b # c => attempt'[b] = attempt[b]
      BY ONLY <3>4 DEF Moved
    <3>6. \A x \in Participants : source[x] # "off" => <<c, x>> \in unaware'
      BY ONLY <3>1, <3>2
    <3> QED BY ONLY <3>1, <3>3, <3>5, <3>6, Sole DEF Sole
  <2>4. CASE Connected(c)
    <3> DEFINE out == SameName(c)
    <3>1. /\ conn[c] = "connecting" /\ Silence(out) /\ attempt' = [attempt EXCEPT ![c].at = "publishing"]
          /\ \A b \in Attempts : conn'[b] = IF b = c THEN "open" ELSE IF b \in out THEN "dropped" ELSE conn[b]
      BY <1>0, <2>4 DEF Connected
    <3>2. \A b \in Attempts : b \in out <=> b # c /\ There(b) /\ attempt[b].under = attempt[c].under
      BY DEF SameName, There
    <3> HIDE DEF out
    <3>3. \A b \in Attempts : attempt'[b].under = attempt[b].under
      BY ONLY <1>2, <3>1, c \in Attempts DEF Stages
    <3>4. \A b \in Attempts : /\ There(b)' <=> b = c \/ (There(b) /\ b \notin out)
                              /\ Speaks(b)' => Speaks(b) /\ b \notin out
                              /\ There(b) => b # c
      BY ONLY <1>0, <3>1, <3>2, c \in Attempts DEF There, Speaks
    <3>5. /\ \A x \in Participants : source'[x] = IF x \in out THEN "off" ELSE source[x]
          /\ \A b, x : <<b, x>> \in unaware /\ b \notin out /\ x \notin out => <<b, x>> \in unaware'
      BY ONLY <3>1, SilenceIs, Types
    <3>6. \A b \in Attempts : source'[b] # "off" => There(b)'
      BY ONLY <3>4, <3>5, Names, Sole DEF Sole
    <3>7. \A a, b \in Attempts : There(a)' /\ There(b)' /\ attempt'[a].under = attempt'[b].under => a = b
      BY ONLY <3>2, <3>3, <3>4, Sole DEF Sole
    <3>8. \A b \in Attempts, x \in Participants : Speaks(b)' /\ source'[x] # "off" /\ x # b => <<b, x>> \in unaware'
      BY ONLY <3>4, <3>5, Sole DEF Sole
    <3> QED BY ONLY <3>6, <3>7, <3>8 DEF Sole
  <2>5. CASE Published(c)
    <3> DEFINE r == page[attempt[c].on].room
    <3>1. /\ r # None /\ conn[r] = "open" /\ Publish(r) /\ conn' = conn /\ attempt[c].on \in Phones
          /\ attempt' = [attempt EXCEPT ![c].at = "over"]
      BY <1>0, <2>5 DEF Published
    <3>2. r \in Attempts
      BY ONLY <1>0, <3>1
    <3> HIDE DEF r
    <3>3. \A b \in Attempts : attempt'[b].under = attempt[b].under
      BY ONLY <1>2, <3>1, c \in Attempts DEF Stages
    <3>4. /\ \A x \in Participants : x # r => source'[x] = source[x]
          /\ unaware \subseteq unaware'
          /\ source[r] # "off" \/ \A b \in Attempts : Speaks(b) /\ b # r => <<b, r>> \in unaware'
      BY ONLY <3>1, <3>2, Names, PublishIs, Types
    <3>5. There(r) /\ \A b \in Attempts : (There(b)' <=> There(b)) /\ (Speaks(b)' <=> Speaks(b))
      BY ONLY <3>1, <3>2 DEF There, Speaks
    <3>6. \A b \in Attempts : source'[b] # "off" => There(b)'
      BY ONLY <3>4, <3>5, Names, Sole DEF Sole
    <3>7. \A b \in Attempts, x \in Participants : Speaks(b)' /\ source'[x] # "off" /\ x # b => <<b, x>> \in unaware'
      BY ONLY <3>4, <3>5, Sole DEF Sole
    <3> QED BY ONLY <3>3, <3>5, <3>6, <3>7, Sole DEF Sole
  <2>6. CASE AttemptFails(c)
    <3>1. /\ attempt[c].on \in Phones /\ Cleanup(attempt[c].on, "error") /\ "error" \in Views /\ "over" \in Stages
          /\ attempt' = [attempt EXCEPT ![c].at = "over"]
      BY <1>0, <2>6 DEF AttemptFails, Views, Stages
    <3>2. \A b \in Attempts : attempt'[b].under = attempt[b].under
      BY ONLY <1>2, <3>1, c \in Attempts
    <3> QED BY ONLY <1>1, <3>1, <3>2
  <2>7. CASE Reconnecting(c) \/ Reconnected(c)
    <3>1. /\ UNCHANGED <<source, unaware, attempt>>
          /\ \A b \in Attempts : (There(b)' <=> There(b)) /\ (Speaks(b)' <=> Speaks(b))
      BY <1>0, <2>7 DEF Reconnecting, Reconnected, air, There, Speaks
    <3> QED BY ONLY <3>1, Sole DEF Sole
  <2>8. CASE NetworkDrops(c)
    <3>1. /\ Silence({c}) /\ attempt' = attempt
          /\ \A b \in Attempts : conn'[b] = IF b = c THEN "dropped" ELSE conn[b]
      BY <1>0, <2>8 DEF NetworkDrops
    <3>2. /\ \A x \in Participants : source'[x] = IF x \in {c} THEN "off" ELSE source[x]
          /\ \A b, x : <<b, x>> \in unaware /\ b \notin {c} /\ x \notin {c} => <<b, x>> \in unaware'
      BY ONLY <3>1, SilenceIs, Types
    <3>3. \A b \in Attempts : /\ There(b)' <=> There(b) /\ b # c
                              /\ Speaks(b)' <=> Speaks(b) /\ b # c
      BY ONLY <3>1 DEF There, Speaks
    <3>4. \A x \in Participants : source'[x] # "off" => source[x] # "off" /\ x # c
      BY ONLY <3>2
    <3>5. \A b \in Attempts : source'[b] # "off" => There(b)'
      BY ONLY <3>3, <3>4, Names, Sole DEF Sole
    <3> QED BY ONLY <3>1, <3>2, <3>3, <3>4, <3>5, Sole, SoleStays
  <2>9. CASE Disconnected(c)
    <3>1. /\ conn[c] = "dropped" /\ UNCHANGED <<attempt, source, unaware>>
          /\ \A b \in Attempts : conn'[b] = IF b = c THEN "closed" ELSE conn[b]
      BY <1>0, <2>9 DEF Disconnected, air
    <3>2. \A b \in Attempts : (There(b)' <=> There(b)) /\ (Speaks(b)' <=> Speaks(b))
      BY ONLY <3>1 DEF There, Speaks
    <3> QED BY ONLY <3>1, <3>2, Sole DEF Sole
  <2> QED BY <1>3, <2>1, <2>2, <2>3, <2>4, <2>5, <2>6, <2>7, <2>8, <2>9 DEF Speak, Grant
<1>4. ASSUME NEW p \in Phones, Stop(p) \/ Retry(p) PROVE Sole'
  <2>1. PICK v \in Views : Cleanup(p, v)
    BY <1>4 DEF Stop, Retry, Views
  <2>2. attempt' = attempt
    BY <1>4 DEF Stop, Retry
  <2> QED BY ONLY <1>1, <2>1, <2>2, p \in Phones
<1>5. ASSUME NEW p \in Phones, Hide(p) PROVE Sole'
  <2> DEFINE gone == {c \in Attempts : attempt[c].on = p}
  <2>1. /\ Silence(gone)
        /\ conn' = [c \in Attempts |-> IF c \in gone THEN "closed" ELSE conn[c]]
        /\ attempt' = [c \in Attempts |-> IF c \in gone THEN [attempt[c] EXCEPT !.at = "over"] ELSE attempt[c]]
    BY <1>5 DEF Hide
  <2> HIDE DEF gone
  <2>2. /\ \A x \in Participants : source'[x] = IF x \in gone THEN "off" ELSE source[x]
        /\ \A b, x : <<b, x>> \in unaware /\ b \notin gone /\ x \notin gone => <<b, x>> \in unaware'
    BY ONLY <2>1, SilenceIs, Types
  <2>3. \A b \in Attempts : /\ There(b)' <=> There(b) /\ b \notin gone
                            /\ Speaks(b)' <=> Speaks(b) /\ b \notin gone
                            /\ There(b)' => attempt'[b].under = attempt[b].under
    BY ONLY <2>1 DEF There, Speaks
  <2>4. \A x \in Participants : source'[x] # "off" => source[x] # "off" /\ x \notin gone
    BY ONLY <2>2
  <2>5. \A b \in Attempts : source'[b] # "off" => There(b)'
    BY ONLY <2>3, <2>4, Names, Sole DEF Sole
  <2> QED BY ONLY <2>2, <2>3, <2>4, <2>5, Sole, SoleStays
<1>6. CASE VenuePublishes
  <2>1. Publish(Venue) /\ UNCHANGED <<conn, attempt>>
    BY <1>6 DEF VenuePublishes, phones
  <2>2. /\ \A x \in Participants : x # Venue => source'[x] = source[x]
        /\ unaware \subseteq unaware'
        /\ source[Venue] # "off" \/ \A b \in Attempts : Speaks(b) /\ b # Venue => <<b, Venue>> \in unaware'
    BY ONLY <2>1, Names, PublishIs, Types
  <2>3. \A b \in Attempts : (There(b)' <=> There(b)) /\ (Speaks(b)' <=> Speaks(b)) /\ source'[b] = source[b]
    BY ONLY <2>1, <2>2, Names DEF There, Speaks
  <2>4. \A b \in Attempts, x \in Participants : Speaks(b)' /\ source'[x] # "off" /\ x # b => <<b, x>> \in unaware'
    BY ONLY <2>2, <2>3, Names, Sole DEF Sole
  <2> QED BY ONLY <2>1, <2>3, <2>4, Sole DEF Sole
<1>7. CASE VenueLeaves
  <2>1. Silence({Venue}) /\ UNCHANGED <<conn, attempt>>
    BY <1>7 DEF VenueLeaves, phones
  <2>2. /\ \A x \in Participants : source'[x] = IF x \in {Venue} THEN "off" ELSE source[x]
        /\ \A b, x : <<b, x>> \in unaware /\ b \notin {Venue} /\ x \notin {Venue} => <<b, x>> \in unaware'
    BY ONLY <2>1, SilenceIs, Types
  <2>3. \A b \in Attempts : (There(b)' <=> There(b)) /\ (Speaks(b)' <=> Speaks(b)) /\ source'[b] = source[b]
    BY ONLY <2>1, <2>2, Names DEF There, Speaks
  <2>4. \A x \in Participants : source'[x] # "off" => source[x] # "off" /\ x # Venue
    BY ONLY <2>2
  <2> QED BY ONLY <2>1, <2>2, <2>3, <2>4, Names, Sole DEF Sole
<1>8. CASE Listen \/ UNCHANGED vars
  <2>1. UNCHANGED <<conn, attempt, unaware>>
    BY <1>8 DEF Listen, ServiceConnects, RoomEnds, GiveUp, LeaveRoom, TrackPublished, TrackSubscribed,
                vars, phones, air
  <2>2. \A x \in Participants : source[x] = "off" => source'[x] = "off"
    BY <1>0, <1>8, Names DEF Listen, ServiceConnects, Sweep, RoomEnds, GiveUp, LeaveRoom,
                             TrackPublished, TrackSubscribed, vars, air
  <2> QED BY ONLY <2>1, <2>2, Names, Sole DEF Sole, There, Speaks
<1> QED BY <1>3, <1>4, <1>5, <1>6, <1>7, <1>8 DEF Next

-----------------------------------------------------------------------------
(* Microphones.                                                            *)

\* A page to which an attempt or a microphone is only ever taken off keeps its promise.
Lessened(q) ==
  \A b \in Attempts :
    attempt'[b].on = q =>
      /\ attempt[b].on = q
      /\ Pending(b)' => Pending(b)
      /\ attempt'[b].at = "asking" => attempt[b].at = "asking"
      /\ b \in mics' => b \in mics

LEMMA HeldKept ==
  ASSUME Types', NEW q \in Phones, HeldOn(q), Lessened(q),
         page'[q].view = page[q].view, page'[q].stream = page[q].stream
  PROVE  HeldOn(q)'
BY mics' \subseteq Attempts DEF HeldOn, Lessened, Types

\* What has neither an attempt pending nor a microphone is left alone.
LEMMA HeldEmpty ==
  ASSUME NEW q, \A b \in Attempts : attempt'[b].on = q => ~Pending(b)' /\ b \notin mics', mics' \subseteq Attempts
  PROVE  HeldOn(q)'
BY DEF HeldOn, Pending

\* One attempt is taken further, which asks no more.
LEMMA Further ==
  ASSUME Types, Types', NEW c \in Attempts, Pending(c), NEW stage \in Stages \ {"unused", "asking"},
         Moved(c, stage), mics' \subseteq mics
  PROVE  \A q \in Phones : Lessened(q)
BY ONLY Moved(c, stage), Pending(c), mics' \subseteq mics, stage \in Stages \ {"unused", "asking"} DEF Moved, Lessened, Pending

LEMMA HeldStep == ASSUME Types, Types', Connections, Held, [Next]_vars PROVE Held'
<1>0. /\ page \in [Phones -> Pages]
      /\ attempt \in [Attempts -> Grants]
      /\ mics \subseteq Attempts /\ mics' \subseteq Attempts
      /\ \A c \in Attempts : attempt[c].at # "unused" => attempt[c].on \in Phones
      /\ \A c \in Attempts : Pending(c) => attempt[c].on \in Phones
  BY DEF Types, Pending
<1>1. /\ \A m \in mics : attempt[m].at \notin {"unused", "asking"}
      /\ \A p \in Phones \ hasty : HeldOn(p)
  BY DEF Held
\* An attempt that has its microphone goes on, or ends, and its page shows the same.
<1>2. ASSUME NEW c \in Attempts, Pending(c), NEW stage \in Stages \ {"unused", "asking"},
             Moved(c, stage), UNCHANGED <<mics, hasty>>,
             \A q \in Phones : page'[q].view = page[q].view /\ page'[q].stream = page[q].stream
      PROVE  Held'
  <2>1. \A q \in Phones : Lessened(q)
    BY ONLY <1>2, Further, Types, Types', mics' = mics
  <2>2. /\ attempt'[c].at = stage
        /\ \A b \in Attempts : b # c => attempt'[b] = attempt[b]
    BY ONLY <1>2 DEF Moved
  <2>3. \A m \in mics' : attempt'[m].at \notin {"unused", "asking"}
    BY ONLY <1>0, <1>1, <1>2, <2>2
  <2>4. \A p \in Phones \ hasty : HeldOn(p)'
    BY ONLY <1>1, <1>2, <2>1, HeldKept, Types'
  <2> QED BY ONLY <1>2, <2>3, <2>4 DEF Held
\* Nothing that matters here is touched.
<1>3. ASSUME UNCHANGED <<attempt, mics, hasty>>,
             \A q \in Phones : page'[q].view = page[q].view /\ page'[q].stream = page[q].stream
      PROVE  Held'
  <2>1. \A q \in Phones : Lessened(q)
    BY ONLY <1>3 DEF Lessened, Pending
  <2>2. \A p \in Phones \ hasty : HeldOn(p)'
    BY ONLY <1>1, <1>3, <2>1, HeldKept, Types'
  <2> QED BY ONLY <1>1, <1>3, <2>2 DEF Held
\* A page is cleaned up with nothing pending on it any more.
<1>4. ASSUME NEW p \in Phones, NEW v \in Views, Cleanup(p, v), \A q \in Phones : Lessened(q),
             p \notin hasty' => p \notin hasty /\ \A b \in Attempts : attempt'[b].on = p => ~Pending(b)',
             \A q \in Phones : q # p /\ q \in hasty => q \in hasty',
             \A m \in mics : attempt[m].at \notin {"unused", "asking"} => attempt'[m].at \notin {"unused", "asking"}
      PROVE  Held'
  <2>1. mics' = mics \ {page[p].stream} /\ \A q \in Phones : q # p => page'[q] = page[q]
    BY ONLY <1>4, CleanupIs, Types
  <2>2. ASSUME NEW q \in Phones \ hasty' PROVE HeldOn(q)'
    <3>1. CASE q = p
      <4>1. HeldOn(p)
        BY ONLY <1>1, <1>4, <2>2, <3>1
      <4>2. \A b \in Attempts : attempt'[b].on = p => b \notin mics'
        BY ONLY <1>4, <2>1, <4>1 DEF HeldOn, Lessened
      <4> QED BY ONLY <1>0, <1>4, <2>2, <3>1, <4>2, HeldEmpty
    <3>2. CASE q # p
      BY ONLY <1>1, <1>4, <2>1, <2>2, <3>2, HeldKept, Types'
    <3> QED BY ONLY <3>1, <3>2
  <2> QED BY ONLY <1>1, <1>4, <2>1, <2>2 DEF Held
<1>5. ASSUME NEW c \in Attempts, Speak(c) PROVE Held'
  <2> DEFINE p == attempt[c].on
  <2>1. ASSUME NEW q \in Phones, Go(q, c) PROVE Held'
    <3>1. PageWith(page', q, "live", page[q].stream, page[q].room)
      BY <2>1, PageAfter
    <3>2. /\ attempt[c].at = "unused" /\ page[q].view = "start"
          /\ attempt' = [attempt EXCEPT ![c] = [at |-> "asking", on |-> q, under |-> 0]] /\ UNCHANGED <<mics, hasty>>
      BY <2>1 DEF Go
    <3>3. attempt'[c] = [at |-> "asking", on |-> q, under |-> 0] /\ \A b \in Attempts : b # c => attempt'[b] = attempt[b]
      BY ONLY <1>0, <3>2
    <3>4. c \notin mics
      BY ONLY <1>1, <3>2
    <3>5. ASSUME NEW x \in Phones \ hasty' PROVE HeldOn(x)'
      <4>0. HeldOn(x)
        BY ONLY <1>1, <3>2, <3>5
      <4>1. CASE x # q
        <5>1. Lessened(x)
          BY ONLY <3>2, <3>3, <4>1 DEF Lessened, Pending
        <5>2. page'[x] = page[x]
          BY ONLY <3>1, <3>5, <4>1 DEF PageWith
        <5> QED BY ONLY <4>0, <5>1, <5>2, <3>5, HeldKept, Types'
      <4>2. CASE x = q
        <5>1. \A b \in Attempts : attempt[b].on = q => ~Pending(b) /\ b \notin mics
          BY ONLY <3>2, <4>0, <4>2 DEF HeldOn
        <5>2. \A b \in Attempts : b # c /\ attempt'[b].on = q => ~Pending(b)' /\ b \notin mics'
          BY ONLY <3>2, <3>3, <5>1 DEF Pending
        <5>3. page'[q].view = "live"
          BY ONLY <3>1 DEF PageWith
        <5> QED BY ONLY <1>0, <3>2, <3>4, <4>2, <5>2, <5>3 DEF HeldOn, Pending
      <4> QED BY ONLY <4>1, <4>2
    <3> QED BY ONLY <1>1, <3>2, <3>3, <3>4, <3>5, <1>0 DEF Held
  <2>2. CASE MicGranted(c)
    <3>1. /\ attempt[c].at = "asking" /\ Pending(c) /\ p \in Phones /\ mics' = mics \union {c} /\ hasty' = hasty
      BY <1>0, <2>2 DEF MicGranted, Pending
    <3>2. \/ PageWith(page', p, page[p].view, c, page[p].room) /\ attempt' = [attempt EXCEPT ![c].at = "posting"]
          \/ PageWith(page', p, "error", c, page[p].room) /\ attempt' = [attempt EXCEPT ![c].at = "over"]
      BY ONLY <2>2, PageAfter, Types, Connections, c \in Attempts
    <3>3. /\ attempt'[c].at \in {"posting", "over"} /\ page'[p].stream = c
          /\ attempt'[c].at = "over" \/ page'[p].view = page[p].view
          /\ page'[p].view \in {page[p].view, "error"}
          /\ \A b \in Attempts : attempt'[b].on = attempt[b].on /\ (b # c => attempt'[b] = attempt[b])
          /\ \A q \in Phones : q # p => page'[q] = page[q]
      BY ONLY <1>0, <3>1, <3>2, c \in Attempts DEF PageWith, Grants
    <3> HIDE DEF p
    <3>4. p = attempt[c].on
      BY DEF p
    <3>5. ASSUME NEW x \in Phones \ hasty' PROVE HeldOn(x)'
      <4>0. HeldOn(x)
        BY ONLY <1>1, <3>1, <3>5
      <4>1. CASE x # p
        <5>1. Lessened(x)
          BY ONLY <3>1, <3>3, <3>4, <4>1 DEF Lessened, Pending
        <5> QED BY ONLY <3>3, <4>0, <4>1, <5>1, <3>5, HeldKept, Types'
      <4>2. CASE x = p
        <5>1. /\ page[p].view = "live" /\ \A m \in mics : attempt[m].on # p
              /\ \A b \in Attempts : Pending(b) /\ attempt[b].on = p => b = c
          BY ONLY <3>1, <3>4, <4>0, <4>2, c \in Attempts DEF HeldOn
        <5>2. \A b \in Attempts : Pending(b)' /\ attempt'[b].on = p => b = c /\ attempt'[c].at = "posting"
          BY ONLY <3>3, <5>1 DEF Pending
        <5>3. \A m \in mics' : attempt'[m].on = p => m = c
          BY ONLY <1>0, <3>1, <3>3, <5>1
        <5> QED BY ONLY <3>3, <4>2, <5>1, <5>2, <5>3 DEF HeldOn, Pending
      <4> QED BY ONLY <4>1, <4>2
    <3>6. \A m \in mics' : attempt'[m].at \notin {"unused", "asking"}
      BY ONLY <1>0, <1>1, <3>1, <3>3
    <3> QED BY ONLY <3>5, <3>6 DEF Held
  <2>3. CASE MicRefused(c)
    <3>1. /\ attempt[c].at = "asking" /\ Pending(c) /\ p \in Phones /\ UNCHANGED <<mics, hasty>>
          /\ attempt' = [attempt EXCEPT ![c].at = "over"] /\ "over" \in Stages \ {"unused", "asking"}
      BY <1>0, <2>3 DEF MicRefused, Pending, Stages
    <3>2. PageWith(page', p, "error", page[p].stream, page[p].room)
      BY ONLY <2>3, PageAfter, Types, Connections, c \in Attempts
    <3>4. /\ attempt'[c].at = "over" /\ Moved(c, "over")
          /\ \A b \in Attempts : attempt'[b].on = attempt[b].on /\ (b # c => attempt'[b] = attempt[b])
      BY ONLY <3>1, AttemptIs, Types, c \in Attempts DEF Moved
    <3>3. \A q \in Phones : Lessened(q)
      BY ONLY <3>1, <3>4, Further, Types, Types', c \in Attempts
    <3> HIDE DEF p
    <3>5. p = attempt[c].on
      BY DEF p
    <3>6. ASSUME NEW x \in Phones \ hasty' PROVE HeldOn(x)'
      <4>0. HeldOn(x)
        BY ONLY <1>1, <3>1, <3>6
      <4>1. CASE x # p
        <5>1. page'[x] = page[x]
          BY ONLY <3>2, <3>6, <4>1 DEF PageWith
        <5> QED BY ONLY <3>3, <4>0, <5>1, <3>6, HeldKept, Types'
      <4>2. CASE x = p
        <5>1. \A b \in Attempts : attempt'[b].on = p => ~Pending(b)' /\ b \notin mics'
          BY ONLY <3>1, <3>4, <3>5, <4>0, <4>2, c \in Attempts DEF HeldOn, Pending
        <5> QED BY ONLY <1>0, <4>2, <5>1, HeldEmpty
      <4> QED BY ONLY <4>1, <4>2
    <3>7. \A m \in mics' : attempt'[m].at \notin {"unused", "asking"}
      BY ONLY <1>0, <1>1, <3>1, <3>4
    <3> QED BY ONLY <3>6, <3>7 DEF Held
  <2>4. ASSUME NEW s \in Sessions, NEW seen, Granted(c, s, seen) PROVE Held'
    <3>0. Moved(c, "connecting")
      BY ONLY <2>4, GrantIs, Types, c \in Attempts
    <3>1. /\ Pending(c) /\ p \in Phones
          /\ UNCHANGED <<mics, hasty>> /\ "connecting" \in Stages \ {"unused", "asking"}
      BY <1>0, <2>4 DEF Granted, Pending, Stages
    <3>2. PageWith(page', p, page[p].view, page[p].stream, c)
      BY ONLY <2>4, PageAfter, Types, Connections, c \in Attempts
    <3>3. \A q \in Phones : page'[q].view = page[q].view /\ page'[q].stream = page[q].stream
      BY ONLY <3>1, <3>2 DEF PageWith
    <3> QED BY ONLY <1>2, <3>0, <3>1, <3>3, c \in Attempts
  <2>5. CASE Connected(c)
    <3>1. /\ Pending(c) /\ attempt' = [attempt EXCEPT ![c].at = "publishing"] /\ page' = page
          /\ UNCHANGED <<mics, hasty>> /\ "publishing" \in Stages \ {"unused", "asking"}
      BY <2>5 DEF Connected, Pending, Stages
    <3>2. Moved(c, "publishing")
      BY ONLY <3>1, AttemptIs, Types, c \in Attempts
    <3> QED BY ONLY <1>2, <3>1, <3>2, c \in Attempts
  <2>6. CASE Published(c)
    <3>1. /\ Pending(c) /\ p \in Phones /\ attempt' = [attempt EXCEPT ![c].at = "over"]
          /\ UNCHANGED <<mics, hasty>> /\ "over" \in Stages \ {"unused", "asking"}
      BY <1>0, <2>6 DEF Published, Pending, Stages
    <3>2. PageWith(page', p, page[p].view, page[p].stream, page[p].room)
      BY ONLY <2>6, PageAfter, Types, Connections, c \in Attempts
    <3>3. \A q \in Phones : page'[q].view = page[q].view /\ page'[q].stream = page[q].stream
      BY ONLY <3>1, <3>2 DEF PageWith
    <3>4. Moved(c, "over")
      BY ONLY <3>1, AttemptIs, Types, c \in Attempts
    <3> QED BY ONLY <1>2, <3>1, <3>3, <3>4, c \in Attempts
  <2>7. CASE AttemptFails(c)
    <3>1. /\ Pending(c) /\ p \in Phones /\ attempt' = [attempt EXCEPT ![c].at = "over"] /\ hasty' = hasty
          /\ Cleanup(p, "error") /\ "error" \in Views /\ "over" \in Stages \ {"unused", "asking"}
      BY <1>0, <2>7 DEF AttemptFails, Pending, Views, Stages
    <3>2. mics' \subseteq mics
      BY ONLY <3>1, CleanupIs, Types
    <3>4. /\ attempt'[c].at = "over" /\ Moved(c, "over")
          /\ \A b \in Attempts : attempt'[b].on = attempt[b].on /\ (b # c => attempt'[b] = attempt[b])
      BY ONLY <3>1, AttemptIs, Types, c \in Attempts DEF Moved
    <3>3. \A q \in Phones : Lessened(q)
      BY ONLY <3>1, <3>2, <3>4, Further, Types, Types', c \in Attempts
    <3> HIDE DEF p
    <3>5. p = attempt[c].on
      BY DEF p
    <3>6. p \notin hasty' => p \notin hasty /\ \A b \in Attempts : attempt'[b].on = p => ~Pending(b)'
      BY ONLY <1>1, <3>1, <3>4, <3>5, c \in Attempts DEF HeldOn, Pending
    <3>7. \A m \in mics : attempt[m].at \notin {"unused", "asking"} => attempt'[m].at \notin {"unused", "asking"}
      BY ONLY <1>0, <3>4
    <3> QED BY ONLY <1>4, <3>1, <3>3, <3>6, <3>7
  <2>8. CASE NetworkDrops(c)
    BY ONLY <1>3, <2>8 DEF NetworkDrops
  <2>9. CASE Disconnected(c) \/ Reconnecting(c) \/ Reconnected(c)
    <3>1. UNCHANGED <<attempt, mics, hasty>>
      BY <2>9 DEF Disconnected, Reconnecting, Reconnected
    <3>2. PageWith(page', p, page[p].view, page[p].stream, page[p].room)
      BY ONLY <2>9, PageAfter, Types, Connections, c \in Attempts
    <3>3. \A q \in Phones : page'[q].view = page[q].view /\ page'[q].stream = page[q].stream
      BY ONLY <3>2 DEF PageWith
    <3> QED BY ONLY <1>3, <3>1, <3>3
  <2> QED BY <1>5, <2>1, <2>2, <2>3, <2>4, <2>5, <2>6, <2>7, <2>8, <2>9 DEF Speak, Grant
<1>6. ASSUME NEW p \in Phones, Stop(p) \/ Retry(p) PROVE Held'
  <2>1. PICK v \in Views : Cleanup(p, v)
    BY <1>6 DEF Stop, Retry, Views
  <2>2. attempt' = attempt /\ hasty' = IF PendingOn(p) THEN hasty \union {p} ELSE hasty
    BY <1>6 DEF Stop, Retry, Hurry
  <2>3. mics' \subseteq mics
    BY ONLY <2>1, CleanupIs, Types, p \in Phones
  <2>4. \A q \in Phones : Lessened(q)
    BY ONLY <2>2, <2>3 DEF Lessened, Pending
  <2>5. p \notin hasty' => p \notin hasty /\ \A b \in Attempts : attempt'[b].on = p => ~Pending(b)'
    BY ONLY <2>2 DEF PendingOn, Pending
  <2>6. \A q \in Phones : q # p /\ q \in hasty => q \in hasty'
    BY ONLY <2>2
  <2> QED BY ONLY <1>4, <2>1, <2>2, <2>4, <2>5, <2>6, p \in Phones
<1>7. ASSUME NEW p \in Phones, Hide(p) PROVE Held'
  <2> DEFINE gone == {c \in Attempts : attempt[c].on = p}
  <2>1. /\ page' = [page EXCEPT ![p] = [view |-> "closed", status |-> "other", stream |-> None, room |-> None]]
        /\ mics' = mics \ gone /\ hasty' = hasty \ {p}
        /\ attempt' = [c \in Attempts |-> IF c \in gone THEN [attempt[c] EXCEPT !.at = "over"] ELSE attempt[c]]
    BY <1>7 DEF Hide
  <2>2. \A b \in Attempts : b \in gone <=> attempt[b].on = p
    OBVIOUS
  <2> HIDE DEF gone
  <2>3. \A b \in Attempts : /\ attempt[b].on = p => attempt'[b].at = "over" /\ attempt'[b].on = p /\ b \notin mics'
                            /\ attempt[b].on # p => attempt'[b] = attempt[b] /\ (b \in mics' => b \in mics)
    BY ONLY <1>0, <2>1, <2>2 DEF Grants
  <2>4. \A q \in Phones : q # p => page'[q] = page[q]
    BY ONLY <1>0, <2>1
  <2>5. ASSUME NEW x \in Phones \ hasty' PROVE HeldOn(x)'
    <3>1. CASE x = p
      <4>1. \A b \in Attempts : attempt'[b].on = p => ~Pending(b)' /\ b \notin mics'
        BY ONLY <2>3 DEF Pending
      <4> QED BY ONLY <1>0, <3>1, <4>1, HeldEmpty
    <3>2. CASE x # p
      <4>1. HeldOn(x)
        BY ONLY <1>1, <2>1, <2>5, <3>2
      <4>2. Lessened(x)
        BY ONLY <2>3, <3>2 DEF Lessened, Pending
      <4> QED BY ONLY <2>4, <2>5, <3>2, <4>1, <4>2, HeldKept, Types'
    <3> QED BY ONLY <3>1, <3>2
  <2>6. \A m \in mics' : attempt'[m].at \notin {"unused", "asking"}
    BY ONLY <1>0, <1>1, <2>1, <2>3
  <2> QED BY ONLY <2>5, <2>6 DEF Held
<1>8. CASE VenuePublishes \/ VenueLeaves \/ Listen \/ UNCHANGED vars
  <2>1. UNCHANGED phones
    BY <1>8 DEF VenuePublishes, VenueLeaves, Listen, ServiceConnects, RoomEnds, GiveUp, LeaveRoom, TrackPublished,
                TrackSubscribed, vars
  <2> QED BY ONLY <1>3, <2>1 DEF phones
<1> QED BY <1>5, <1>6, <1>7, <1>8 DEF Next

-----------------------------------------------------------------------------

LEMMA Start == ASSUME Init PROVE Types /\ Connections /\ Sole /\ Held
<1>1. Types
  BY DEF Init, Types, Pages, Views, Stages, Grants
<1>2. Connections /\ Sole /\ Held
  BY Names DEF Init, Connections, Sole, There, Speaks, Held, HeldOn, Pending
<1> QED BY <1>1, <1>2

LEMMA Kept == Spec => [](Types /\ Connections /\ Sole /\ Held)
<1>1. ASSUME Types /\ Connections /\ Sole /\ Held, [Next]_vars PROVE (Types /\ Connections /\ Sole /\ Held)'
  BY <1>1, TypesStep, ConnectionsStep, SoleStep, HeldStep
<1> QED BY <1>1, Start, PTL DEF Spec

\* However many phones and sessions share the room, and whatever the network, the laptop
\* and their speakers do: nobody publishes beside a source that could be seen when he was
\* let in, and two phones of one session never publish at once (join.py:220-233).
THEOREM OneSourceOnly == Spec => []OneSource
<1>1. Types /\ Sole => OneSource
  <2> SUFFICES ASSUME Types, Sole, NEW c \in Sources \ {Venue}, NEW x \in Sources, x # c
               PROVE  <<c, x>> \in unaware /\ (x # Venue => attempt[x].under # attempt[c].under)
    BY DEF OneSource
  <2>1. c \in Attempts /\ There(c) /\ Speaks(c)
    BY DEF Sources, Participants, Sole, There, Speaks
  <2>2. <<c, x>> \in unaware
    BY <2>1 DEF Sources, Sole
  <2>3. x # Venue => x \in Attempts /\ There(x)
    BY DEF Sources, Participants, Sole
  <2>4. x # Venue => attempt[x].under # attempt[c].under
    BY ONLY <2>1, <2>3, Sole, x # c DEF Sole
  <2> QED BY ONLY <2>2, <2>4
<1> QED BY <1>1, Kept, PTL

\* An open microphone is the one its page holds and will stop, and the page does not
\* offer another start, unless its speaker left an attempt pending (speak.js:229-235).
THEOREM MicsAreReleased == Spec => []MicReleased
<1>1. Types /\ Held => MicReleased
  <2> SUFFICES ASSUME Types, Held, NEW m \in mics, attempt[m].on \notin hasty
               PROVE  page[attempt[m].on].stream = m /\ page[attempt[m].on].view # "start"
    BY DEF MicReleased
  <2>1. attempt[m].on \in Phones
    BY DEF Types, Held
  <2> QED BY <2>1 DEF Held, HeldOn
<1> QED BY <1>1, Kept, PTL
=============================================================================
