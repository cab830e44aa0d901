---------------------------- MODULE BacklogGuard ----------------------------
(***************************************************************************)
(* The bounded buffer between the room and the speech recogniser           *)
(* (session/backpressure.py).  Three asyncio activities meet here: the     *)
(* feeder task, which reads the source stream and pushes frames; the drain *)
(* generator, which hands frames to the recogniser; and the recogniser     *)
(* itself, which takes as long as it likes between two frames and may      *)
(* abandon the stream.  Code between two awaits runs without interruption, *)
(* so each action below is the code from one await to the next.            *)
(*                                                                         *)
(* A frame is [id, t, d]: its number, t_audio and duration.  Times are     *)
(* whole ticks.  TranslationRoom.source_frames accumulates t_audio from    *)
(* the frames themselves, so the next frame starts where the last ended.   *)
(***************************************************************************)
EXTENDS Integers, Sequences, SequencesExt

CONSTANTS
  MaxLag,        \* max_lag_s: the lag at which audio starts being discarded
  RecoverTo,     \* recover_to_s: the lag a shed trims down to
  LongestFrame,  \* the longest frame the source sends
  MaxFrames      \* bound on the frames one session receives

\* BacklogGuard.__init__ refuses recover_to_s >= max_lag_s.
ASSUME BacklogAssumption ==
  /\ MaxLag \in Nat
  /\ RecoverTo \in Nat
  /\ RecoverTo < MaxLag
  /\ LongestFrame \in Nat \ {0}
  /\ MaxFrames \in Nat

VARIABLES
  buffer,          \* _buffer: frames received and not yet handed on, oldest first
  newest,          \* _newest_audio
  arrived,         \* _arrived: the asyncio event the drain waits on
  closed,          \* _closed
  framesIn,        \* stats.frames_in
  framesOut,       \* stats.frames_out
  framesDropped,   \* stats.frames_dropped
  secondsDropped,  \* stats.seconds_dropped
  shedEvents,      \* stats.shed_events
  peakLag,         \* stats.peak_lag_s
  feeder,          \* the task running feed()
  consumer,        \* the recogniser, as drain() and guarded() see it
  delivered,       \* history: the frames handed to the recogniser
  shedAt           \* history: newest at the last shed

stats == <<framesIn, framesOut, framesDropped, secondsDropped, shedEvents, peakLag>>
vars == <<buffer, newest, arrived, closed, stats, feeder, consumer, delivered, shedAt>>

Durations == 1..LongestFrame
Frame == [id : 1..MaxFrames, t : Nat, d : Durations]

\* "cancelling": guarded's finally has called feeder.cancel(), and the task has
\* not run since.
FeederStates == {"running", "cancelling", "done", "failed", "cancelled"}

\* "busy": the recogniser works and has not asked for the next frame.
\* "waiting": drain is suspended at _arrived.wait().
\* The other three: guarded has returned, raised the feeder's error, or been
\* closed by a recogniser that stopped early.
ConsumerEnds == {"returned", "raised", "stopped"}
ConsumerStates == {"busy", "waiting"} \union ConsumerEnds

LagOf(buf, now) ==
  IF buf = <<>> \/ now <= buf[1].t THEN 0 ELSE now - buf[1].t

ShedsOneFrame(buf, now, k) == k = IF Len(buf) > 1 THEN 2 ELSE 1
TrimsToThreshold(buf, now, k) ==
  /\ k = Len(buf) \/ now - buf[k].t < MaxLag
  /\ \A j \in 1..(k - 1) : now - buf[j].t >= MaxLag

\* The frame a shed stops at: the oldest one within RecoverTo of the newest
\* audio, or the newest frame when none is that close.
FirstKept(buf, now, k) ==
  /\ k = Len(buf) \/ now - buf[k].t <= RecoverTo
  /\ \A j \in 1..(k - 1) : now - buf[j].t > RecoverTo

KeepsOneFewer(buf, k) == SubSeq(buf, k + 1, Len(buf))
KeepsOldest(buf, k) == SubSeq(buf, 1, Len(buf) + 1 - k)
KeptFrom(buf, k) == SubSeq(buf, k, Len(buf))

SecondsOf(frames) == FoldLeft(LAMBDA total, f : total + f.d, 0, frames)

-----------------------------------------------------------------------------
Init ==
  /\ buffer = <<>> /\ newest = 0
  /\ arrived = FALSE /\ closed = FALSE
  /\ framesIn = 0 /\ framesOut = 0 /\ framesDropped = 0
  /\ secondsDropped = 0 /\ shedEvents = 0 /\ peakLag = 0
  /\ feeder = "running" /\ consumer = "busy"
  /\ delivered = <<>> /\ shedAt = 0
-----------------------------------------------------------------------------
(* The feeder task: feed() around push() and close().                      *)

NextFrame(d) == [id |-> framesIn + 1, t |-> newest, d |-> d]

PeakWith(buf, now) == IF LagOf(buf, now) > peakLag THEN LagOf(buf, now) ELSE peakLag

\* What a push leaves of buf: all of it below MaxLag, a suffix from there on.
ShedIfBehind(buf, now) ==
  /\ peakLag' = PeakWith(buf, now)
  /\ \/ /\ LagOf(buf, now) < MaxLag
        /\ buffer' = buf
        /\ UNCHANGED <<framesDropped, secondsDropped, shedEvents, shedAt>>
     \/ /\ LagOf(buf, now) >= MaxLag
        /\ \E k \in 1..Len(buf) :
             /\ FirstKept(buf, now, k)
             /\ buffer' = KeptFrom(buf, k)
             /\ framesDropped' = framesDropped + (k - 1)
             /\ secondsDropped' = secondsDropped + SecondsOf(SubSeq(buf, 1, k - 1))
             /\ shedEvents' = IF k > 1 THEN shedEvents + 1 ELSE shedEvents
             /\ shedAt' = IF k > 1 THEN now ELSE shedAt

NoWake == UNCHANGED arrived
WakeDrain == arrived' = TRUE

Push(d) ==
  LET f == NextFrame(d) IN
  /\ feeder = "running"
  /\ framesIn < MaxFrames
  /\ framesIn' = framesIn + 1
  /\ newest' = f.t + f.d
  /\ ShedIfBehind(Append(buffer, f), f.t + f.d)
  /\ WakeDrain
  /\ UNCHANGED <<closed, framesOut, feeder, consumer, delivered>>

Close == closed' = TRUE /\ WakeDrain

\* feed() leaves its loop: the source is exhausted, raises, or the task is
\* cancelled.  Its finally closes the guard on every one of these paths.
FeedEnds(from, to) ==
  /\ feeder = from
  /\ feeder' = to
  /\ Close
  /\ UNCHANGED <<buffer, newest, stats, consumer, delivered, shedAt>>

SourceEnds == FeedEnds("running", "done")
SourceFails == FeedEnds("running", "failed")
FeederCancelled == FeedEnds("cancelling", "cancelled")

-----------------------------------------------------------------------------
(* The recogniser, through drain() and guarded().                          *)

\* drain runs when it is asked for a frame, or when the event it waits on is set.
DrainRuns == consumer = "busy" \/ (consumer = "waiting" /\ arrived)

DrainYields ==
  /\ DrainRuns
  /\ buffer # <<>>
  /\ framesOut' = framesOut + 1
  /\ buffer' = Tail(buffer)
  /\ delivered' = Append(delivered, Head(buffer))
  /\ consumer' = "busy"
  /\ UNCHANGED <<newest, arrived, closed, framesIn, framesDropped, secondsDropped,
                 shedEvents, peakLag, feeder, shedAt>>

Drained == buffer = <<>> /\ closed

\* drain returns; guarded awaits the feeder, which has finished by then, and so
\* raises whatever it failed with.
DrainReturns ==
  /\ DrainRuns
  /\ Drained
  /\ consumer' = IF feeder = "failed" THEN "raised" ELSE "returned"
  /\ UNCHANGED <<buffer, newest, arrived, closed, stats, feeder, delivered, shedAt>>

DrainWaits ==
  /\ DrainRuns
  /\ buffer = <<>>
  /\ ~closed
  /\ arrived' = FALSE
  /\ consumer' = "waiting"
  /\ UNCHANGED <<buffer, newest, closed, stats, feeder, delivered, shedAt>>

Drain == DrainYields \/ DrainReturns \/ DrainWaits

\* The recogniser fails or is cancelled: guarded's finally cancels the feeder.
Abandon ==
  /\ consumer \in {"busy", "waiting"}
  /\ consumer' = "stopped"
  /\ feeder' = IF feeder = "running" THEN "cancelling" ELSE feeder
  /\ UNCHANGED <<buffer, newest, arrived, closed, stats, delivered, shedAt>>

-----------------------------------------------------------------------------
Next ==
  \/ \E d \in Durations : Push(d)
  \/ SourceEnds \/ SourceFails \/ FeederCancelled
  \/ DrainYields \/ DrainReturns \/ DrainWaits
  \/ Abandon

\* The event loop runs every task that is ready, and the recogniser keeps asking
\* for frames until it abandons the stream.  Nothing makes a source end.
Fairness ==
  /\ WF_vars(Drain)
  /\ WF_vars(FeederCancelled)

Spec == Init /\ [][Next]_vars /\ Fairness

-----------------------------------------------------------------------------
\* The variables have their types, and no more frames came than the bound.
TypeOK ==
  /\ buffer \in Seq(Frame) /\ delivered \in Seq(Frame)
  /\ newest \in Nat /\ shedAt \in Nat
  /\ arrived \in BOOLEAN /\ closed \in BOOLEAN
  /\ framesIn \in 0..MaxFrames
  /\ framesOut \in Nat /\ framesDropped \in Nat
  /\ shedEvents \in Nat /\ peakLag \in Nat
  /\ feeder \in FeederStates
  /\ consumer \in ConsumerStates

\* Every frame received is delivered, reported as dropped, or still buffered:
\* nothing a speaker said disappears uncounted.
FramesAccounted ==
  /\ framesIn = framesOut + framesDropped + Len(buffer)
  /\ framesOut = Len(delivered)

\* The recogniser is never MaxLag behind, unless all that is left is the newest
\* frame, which a shed must not take (backpressure.py:161).
LagBounded == LagOf(buffer, newest) < MaxLag \/ Len(buffer) = 1

\* The recorded peak explains every drop: audio is discarded only in a session
\* that really fell MaxLag behind, and each shed dropped at least one frame.
DropsExplained ==
  /\ framesDropped > 0 => peakLag >= MaxLag
  /\ shedEvents <= framesDropped
  /\ (framesDropped > 0) = (shedEvents > 0)

\* guarded ends normally only after a complete source was handed on completely,
\* with the feeder's own error when the source failed, and never leaves the
\* feeder reading a source nobody consumes.
EndsExplained ==
  /\ consumer = "returned" => feeder = "done" /\ buffer = <<>>
  /\ consumer = "raised" => feeder = "failed" /\ buffer = <<>>
  /\ consumer \in ConsumerEnds => feeder # "running"

\* The lag a shed can leave behind: the newest frame stays, however long it is.
LagAfterShed == IF LongestFrame > RecoverTo THEN LongestFrame ELSE RecoverTo

\* One clean cut instead of a shed on every frame (backpressure.py:85-89):
\* between two sheds the source sends at least MaxLag - RecoverTo of audio (less
\* only where a single frame is longer than the recovery target).
ShedSpacing ==
  [][shedEvents' > shedEvents => newest' - shedAt >= MaxLag - LagAfterShed]_vars

\* No wake-up is lost between drain's test of the buffer and its wait: a source
\* that is over, or failed, ends the recogniser's stream, and every frame pushed
\* leaves the buffer while the recogniser keeps asking.
NoWakeUpLost ==
  /\ (feeder \in {"done", "failed"}) ~> (consumer \in ConsumerEnds)
  /\ \A n \in 1..MaxFrames :
       (framesIn >= n) ~> (framesOut + framesDropped >= n \/ consumer \in ConsumerEnds)

\* What the guard promises, as an abstract queue: oldest first, each frame at
\* most once, losing only the oldest and never the newest.
Fifo == INSTANCE LossyFifo WITH
  Items <- Frame, queue <- buffer, taken <- delivered, ended <- closed
ImplementsLossyFifo == Fifo!Spec
=============================================================================
