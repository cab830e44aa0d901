------------------------------- MODULE Session -------------------------------
(***************************************************************************)
(* One translation session (session/pipeline.py): the task in run(), the   *)
(* pump that drives audio through recogniser, chunker and translator, one  *)
(* worker per language that synthesises and publishes its phrases, and the *)
(* watchdog that enforces the limits.  All are asyncio tasks of one loop:  *)
(* code between two awaits runs alone, so an action is the code from one   *)
(* await to the next.  The chunker appears as the phrases a hypothesis     *)
(* yields (PhraseChunker models it), the drift controller as its decision  *)
(* to skip, and the store as calls that succeed or fail.  The recogniser,  *)
(* the translator, the synthesiser and the room may be slow, fail, or      *)
(* never answer.                                                           *)
(***************************************************************************)
EXTENDS Integers, Sequences, SequencesExt

CONSTANTS
  Targets,     \* config.target_codes, in order
  MayHang,     \* languages whose synthesiser or track may stop answering
  MaxPhrases,  \* bound on the phrases of a session
  MaxBatch,    \* bound on the phrases the chunker commits at once
  MaxPieces    \* bound on the blocks of audio a phrase is synthesised in

Languages == Range(Targets)
Phrases == 1..MaxPhrases

ASSUME SessionAssumption ==
  /\ Targets \in Seq(Languages) /\ IsInjective(Targets)
  /\ MayHang \subseteq Languages
  /\ {MaxPhrases, MaxBatch, MaxPieces} \subseteq Nat

VARIABLES
  run,        \* where run() is
  told,       \* how many workers _shutdown has told to stop
  pump,       \* the pump task
  batch,      \* phrases the pump's for loop has still to dispatch
  phrases,    \* _chunks, and the number of the phrase dispatched last
  watchdog,   \* the watchdog task
  stopSet,    \* the _stop event
  endReason,  \* whether _end_reason is set
  failure,    \* whether _failure is set
  outcome,    \* the status run() returns
  roomOpen,   \* the room's tracks take audio
  queue,      \* _queue of each language's worker
  worker,     \* the task of each worker: what it is doing, and on which phrase
  fate,       \* history: whether a language was given a phrase and is done with it
  published,  \* history: the phrases a language has sent audio of, in order
  hung        \* the languages whose synthesiser or track stops answering

pumping == <<pump, batch, phrases>>
limits == <<watchdog, stopSet, endReason>>
result == <<failure, outcome>>
speech == <<queue, worker, fate, published>>
vars == <<run, told, pumping, limits, result, roomOpen, speech, hung>>

Stop == [id |-> 0, blank |-> FALSE]     \* the None that ends a worker
Idle == [at |-> "idle", id |-> 0, pieces |-> 0]

RunEnds == {"returned", "raised"}       \* an outcome, or an exception
PumpEnds == {"done", "failed", "cancelled"}

Init ==
  /\ run = "publishing" /\ told = 0
  /\ pump = "unstarted" /\ batch = 0 /\ phrases = 0
  /\ watchdog = "unstarted" /\ stopSet = FALSE /\ endReason = FALSE
  /\ failure = FALSE /\ outcome = "none"
  /\ roomOpen = TRUE
  /\ queue = [l \in Languages |-> <<>>]
  /\ worker = [l \in Languages |-> [Idle EXCEPT !.at = "unstarted"]]
  /\ fate = [l \in Languages |-> [p \in Phrases |-> "none"]]
  /\ published = [l \in Languages |-> <<>>]
  /\ hung \in SUBSET MayHang

-----------------------------------------------------------------------------
(* run().                                                                  *)

\* publish_languages, after which the workers are created.  It and mark_live
\* are awaited before the try: if one raises, nothing is stopped or settled.
Publish ==
  /\ run = "publishing"
  /\ \/ run' = "marking" /\ worker' = [l \in Languages |-> Idle]
     \/ run' = "raised" /\ UNCHANGED worker
  /\ UNCHANGED <<told, pumping, limits, result, roomOpen, queue, fate, published, hung>>

MarkLive ==
  /\ run = "marking"
  /\ \/ run' = "racing" /\ pump' = "listening" /\ watchdog' = "running"
     \/ run' = "raised" /\ UNCHANGED <<pump, watchdog>>
  /\ UNCHANGED <<told, batch, phrases, stopSet, endReason, result, roomOpen, speech, hung>>

\* The finally of run(): the watchdog is cancelled, and _shutdown begins.
GoToShutdown == run' = "stopping" /\ watchdog' = "over"

\* asyncio.wait returns because the pump is over, whether or not the stop
\* event is set as well; pump.result() raises what the pump failed with.
PumpWins ==
  /\ run = "racing" /\ pump \in PumpEnds
  /\ failure' = (pump = "failed")
  /\ GoToShutdown
  /\ UNCHANGED <<told, pumping, stopSet, endReason, outcome, roomOpen, speech, hung>>

\* It returns because of the stop event: run() cancels the pump and awaits it.
LimitWinsAtOnce ==
  /\ run = "racing" /\ stopSet /\ pump \notin PumpEnds
  /\ GoToShutdown
  /\ UNCHANGED <<told, pumping, stopSet, endReason, result, roomOpen, speech, hung>>
LimitWins ==
  /\ run = "racing" /\ stopSet /\ pump \notin PumpEnds
  /\ run' = "cancelling"
  /\ UNCHANGED <<told, pumping, limits, result, roomOpen, speech, hung>>

\* The cancelled pump is over.  Its CancelledError is suppressed; anything else
\* it raises while it unwinds is the session's failure.
PumpGoneQuietly ==
  /\ run = "cancelling" /\ pump \in PumpEnds
  /\ GoToShutdown
  /\ UNCHANGED <<told, pumping, stopSet, endReason, result, roomOpen, speech, hung>>
PumpGone ==
  /\ run = "cancelling" /\ pump \in PumpEnds
  /\ failure' = (pump = "failed")
  /\ GoToShutdown
  /\ UNCHANGED <<told, pumping, stopSet, endReason, outcome, roomOpen, speech, hung>>

\* The operator interrupts the program: run()'s own task is cancelled in
\* asyncio.wait, which does not cancel what it waits for.  (While it waits for the
\* pump it cancelled, the interrupt is suppressed together with the pump's end.)
Interrupt ==
  /\ run = "racing"
  /\ outcome' = "interrupted"
  /\ GoToShutdown
  /\ UNCHANGED <<told, pumping, stopSet, endReason, failure, roomOpen, speech, hung>>

\* _shutdown: the workers in turn.  Each gets its None behind whatever is
\* queued, and is awaited before the next is told.
ToldAreDone == \A i \in 1..told : worker[Targets[i]].at = "stopped"
NotAwaited == TRUE
ToldAwaited == ToldAreDone

StopWorker ==
  /\ run = "stopping" /\ told < Len(Targets) /\ ToldAwaited
  /\ told' = told + 1
  /\ queue' = [queue EXCEPT ![Targets[told']] = Append(@, Stop)]
  /\ UNCHANGED <<run, pumping, limits, result, roomOpen, worker, fate, published, hung>>

\* Interrupted while it waits for a worker, _shutdown cancels that worker, whatever
\* it is saying, and leaves the others and the room as they are.
InterruptShutdown ==
  LET l == Targets[told]
  IN  /\ run = "stopping" /\ ~ToldAreDone
      /\ run' = "raised" /\ outcome' = "interrupted"
      /\ worker' = [worker EXCEPT ![l].at = "stopped"]
      /\ fate' = IF worker[l].at = "speaking" THEN [fate EXCEPT ![l][worker[l].id] = "settled"] ELSE fate
      /\ UNCHANGED <<told, pumping, limits, failure, roomOpen, queue, published, hung>>

\* room.close.  If it raises, or run() was interrupted, run() ends here.
CloseRoom ==
  /\ run = "stopping" /\ told = Len(Targets) /\ ToldAwaited
  /\ roomOpen' = FALSE
  /\ \/ run' = "settling" /\ outcome # "interrupted"
     \/ run' = "raised"
  /\ UNCHANGED <<told, pumping, limits, result, speech, hung>>

\* _settle: end_session ends the row, or finds it ended already (LookupError);
\* any other error leaves run() without an outcome.
Settle ==
  /\ run = "settling"
  /\ \/ run' = "returned" /\ outcome' = IF failure THEN "failed" ELSE "ended"
     \/ run' = "raised" /\ UNCHANGED outcome
  /\ UNCHANGED <<told, pumping, limits, failure, roomOpen, speech, hung>>

-----------------------------------------------------------------------------
(* The watchdog: the duration cap is reached at some time, the idle cap may *)
(* be.                                                                      *)

LimitNoted ==
  /\ watchdog = "running"
  /\ watchdog' = "over" /\ endReason' = TRUE
  /\ UNCHANGED <<run, told, pumping, stopSet, result, roomOpen, speech, hung>>
LimitReached ==
  /\ watchdog = "running"
  /\ watchdog' = "over" /\ stopSet' = TRUE /\ endReason' = TRUE
  /\ UNCHANGED <<run, told, pumping, result, roomOpen, speech, hung>>

-----------------------------------------------------------------------------
(* The pump.                                                               *)

\* Cancelled and not yet resumed: its next step is to end.
Cancelled == run = "cancelling"

\* The pump has n phrases to dispatch, in the loop over the hypotheses or, last,
\* after it: up to the await of the next translation or hypothesis.
GoOn(n, last) ==
  IF n > 0
  THEN /\ pump' = IF last THEN "flushing" ELSE "translating"
       /\ batch' = n - 1 /\ phrases' = phrases + 1
  ELSE /\ pump' = IF last THEN "done" ELSE "listening"
       /\ UNCHANGED <<batch, phrases>>

\* A hypothesis, and the phrases feed and tick commit; once the stop event is
\* set, the loop breaks and flush commits them.
Hypothesis ==
  /\ pump = "listening" /\ ~Cancelled
  /\ \E n \in 0..MaxBatch : phrases + n <= MaxPhrases /\ GoOn(n, stopSet)
  /\ UNCHANGED <<run, told, limits, result, roomOpen, speech, hung>>

\* The recogniser's stream ends: flush.
StreamEnds ==
  /\ pump = "listening" /\ ~Cancelled
  /\ \E n \in 0..MaxBatch : phrases + n <= MaxPhrases /\ GoOn(n, TRUE)
  /\ UNCHANGED <<run, told, limits, result, roomOpen, speech, hung>>

Translating == pump \in {"translating", "flushing"}

\* translate_many returns a text for some of the languages, perhaps a blank
\* one, and submit hands it to their workers.
Translated(texts) ==
  /\ Translating /\ ~Cancelled
  /\ queue' = [l \in Languages |->
       IF texts[l] = "absent" THEN queue[l]
       ELSE Append(queue[l], [id |-> phrases, blank |-> texts[l] = "blank"])]
  /\ fate' = [l \in Languages |->
       [fate[l] EXCEPT ![phrases] = IF texts[l] = "absent" THEN "settled" ELSE "given"]]
  /\ GoOn(batch, pump = "flushing")
  /\ UNCHANGED <<run, told, limits, result, roomOpen, worker, published, hung>>

Translate == \E texts \in [Languages -> {"text", "blank", "absent"}] : Translated(texts)

\* The source, the recogniser or the translator raises.
PumpFails ==
  /\ Translating \/ pump = "listening"
  /\ pump' = "failed"
  /\ UNCHANGED <<run, told, batch, phrases, limits, result, roomOpen, speech, hung>>

PumpCancelled ==
  /\ Cancelled /\ pump \notin PumpEnds
  /\ pump' = "cancelled"
  /\ UNCHANGED <<run, told, batch, phrases, limits, result, roomOpen, speech, hung>>

-----------------------------------------------------------------------------
(* The worker of one language.                                             *)

\* _run takes an item.  A blank text is passed over; a drifting language skips
\* the phrase and only records it; otherwise synthesis begins.
Take(l) ==
  /\ worker[l].at = "idle" /\ queue[l] # <<>>
  /\ queue' = [queue EXCEPT ![l] = Tail(@)]
  /\ LET item == Head(queue[l])
     IN  \/ /\ item = Stop
            /\ worker' = [worker EXCEPT ![l].at = "stopped"]
            /\ UNCHANGED fate
         \/ /\ item # Stop /\ item.blank
            /\ fate' = [fate EXCEPT ![l][item.id] = "settled"]
            /\ UNCHANGED worker
         \/ /\ item # Stop /\ ~item.blank
            /\ \/ /\ worker' = [worker EXCEPT ![l] = [at |-> "recording", id |-> item.id, pieces |-> 0]]
                  /\ fate' = [fate EXCEPT ![l][item.id] = "settled"]
               \/ /\ worker' = [worker EXCEPT ![l] = [at |-> "speaking", id |-> item.id, pieces |-> 0]]
                  /\ UNCHANGED fate
  /\ UNCHANGED <<run, told, pumping, limits, result, roomOpen, published, hung>>

\* room.push of one more block of the phrase.
Push(l) ==
  /\ worker[l].at = "speaking" /\ worker[l].pieces < MaxPieces
  /\ worker' = [worker EXCEPT ![l].pieces = @ + 1]
  /\ published' = IF worker[l].pieces = 0
                  THEN [published EXCEPT ![l] = Append(@, worker[l].id)] ELSE published
  /\ UNCHANGED <<run, told, pumping, limits, result, roomOpen, queue, fate, hung>>

\* The synthesiser has no more blocks.
Spoken(l) ==
  /\ worker[l].at = "speaking"
  /\ worker' = [worker EXCEPT ![l].at = "recording"]
  /\ fate' = [fate EXCEPT ![l][worker[l].id] = "settled"]
  /\ UNCHANGED <<run, told, pumping, limits, result, roomOpen, queue, published, hung>>

\* The synthesiser or the track raises: the phrase is dropped, unrecorded, and
\* the worker carries on.
SpeakFailsForGood(l) ==
  /\ worker[l].at = "speaking"
  /\ worker' = [worker EXCEPT ![l].at = "stopped"]
  /\ fate' = [fate EXCEPT ![l][worker[l].id] = "settled"]
  /\ UNCHANGED <<run, told, pumping, limits, result, roomOpen, queue, published, hung>>
SpeakFailsAndRetries(l) ==
  /\ worker[l].at = "speaking"
  /\ worker' = [worker EXCEPT ![l] = Idle]
  /\ queue' = [queue EXCEPT ![l] = Append(@, [id |-> worker[l].id, blank |-> FALSE])]
  /\ UNCHANGED <<run, told, pumping, limits, result, roomOpen, fate, published, hung>>
SpeakFails(l) ==
  /\ worker[l].at = "speaking"
  /\ worker' = [worker EXCEPT ![l] = Idle]
  /\ fate' = [fate EXCEPT ![l][worker[l].id] = "settled"]
  /\ UNCHANGED <<run, told, pumping, limits, result, roomOpen, queue, published, hung>>
\* persist returns, for it swallows a failure of the store.
Persist(l) ==
  /\ worker[l].at = "recording"
  /\ worker' = [worker EXCEPT ![l] = Idle]
  /\ UNCHANGED <<run, told, pumping, limits, result, roomOpen, queue, fate, published, hung>>

Speak(l) == Push(l) \/ Spoken(l) \/ SpeakFails(l)

-----------------------------------------------------------------------------

Run ==
  \/ Publish \/ MarkLive \/ PumpWins \/ LimitWins \/ PumpGone
  \/ StopWorker \/ CloseRoom \/ Settle
Pump == Hypothesis \/ StreamEnds \/ Translate \/ PumpFails \/ PumpCancelled
Worker(l) == Take(l) \/ Speak(l) \/ Persist(l)

Next == Run \/ Interrupt \/ InterruptShutdown \/ LimitReached \/ Pump \/ \E l \in Languages : Worker(l)

\* The event loop runs every task that is ready, timers fire, a cancelled task
\* is resumed, and database and room calls of run() return.  The synthesiser
\* and the track answer for the languages that are not hung.  Nothing makes the
\* recogniser, the translator or the operator act.
Fairness ==
  /\ WF_vars(Run) /\ WF_vars(LimitReached) /\ WF_vars(PumpCancelled)
  /\ \A l \in Languages :
       /\ WF_vars(Take(l)) /\ WF_vars(Persist(l))
       /\ WF_vars(l \notin hung /\ Speak(l))

Spec == Init /\ [][Next]_vars /\ Fairness

-----------------------------------------------------------------------------

InHand(l) == IF worker[l].at = "speaking" /\ worker[l].pieces = 0 THEN <<worker[l].id>> ELSE <<>>
Queued(l) == [i \in DOMAIN queue[l] |-> queue[l][i].id]

\* A language speaks its phrases in the order they were committed and none of
\* them twice, whatever fails, is skipped or waits in between.  (The 0 of a Stop
\* is no phrase.)
SpokenInOrder ==
  \A l \in Languages :
    LET line == published[l] \o InHand(l) \o Queued(l)
    IN  \A i, j \in DOMAIN line : i < j /\ line[i] # 0 /\ line[j] # 0 => line[i] < line[j]

\* When run() returns, every worker has finished everything it was given, and
\* each phrase met its fate in each language.  One phrase may have none, the
\* last, whose translation a limit or a failure cut short for all of them.
NothingAbandoned ==
  run = "returned" =>
    /\ \A l \in Languages : worker[l].at = "stopped" /\ queue[l] = <<>>
    /\ \A p \in 1..phrases :
         \/ \A l \in Languages : fate[l][p] = "settled"
         \/ /\ p = phrases /\ (failure \/ endReason)
            /\ \A l \in Languages : fate[l][p] = "none"

\* No worker speaks into a room that is closed.
RoomOutlivesSpeech ==
  \A l \in Languages : worker[l].at = "speaking" => roomOpen

\* The outcome says why: "failed" for a pump that raised, even while it was
\* being cancelled; "ended" for a source that finished or a limit.
OutcomeTrue ==
  run = "returned" =>
    /\ (outcome = "failed") <=> (pump = "failed")
    /\ outcome = "ended" => pump = "done" \/ (pump = "cancelled" /\ endReason)

\* A language that stops answering holds up no other.
OthersFinish ==
  \A l \in Languages, p \in Phrases :
    (l \notin hung /\ fate[l][p] = "given") ~> (fate[l][p] = "settled" \/ outcome = "interrupted")

Over == run \in RunEnds

\* While synthesisers and tracks answer, the session ends, even if recogniser
\* or translator never does.
SessionEnds == (hung = {}) ~> Over

\* SessionLimits says of max_duration_s that sessions end at this point
\* regardless of state.
CapEndsSession == (stopSet /\ outcome # "interrupted") ~> Over
=============================================================================
