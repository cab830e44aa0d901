------------------------------- MODULE Playout -------------------------------
(***************************************************************************)
(* The way out of one language: from the phrase _dispatch opens a trace    *)
(* for, through translation, the language's worker (_LanguageWorker._speak *)
(* in session/pipeline.py), the drift controller that decides whether to   *)
(* speak it (session/drift.py), the synthesiser and its thread, which hand *)
(* over a phrase block by block (adapters/tts_piper.py) or whole           *)
(* (adapters/tts_chatterbox.py), to the playout queue of the language's    *)
(* track (session/room.py), and the latency traces kept on the way         *)
(* (obs/latency.py).  Languages share none of this state, so one is        *)
(* modelled.  Audio is counted in ticks of the time it plays for.          *)
(***************************************************************************)
EXTENDS Integers, FiniteSets, Sequences, SequencesExt

CONSTANTS
  SpeedupAt,     \* speedup_at_s
  SkipAt,        \* skip_at_s
  PlayoutQueue,  \* PLAYOUT_QUEUE_MS
  LongestBlock,  \* the longest block the synthesiser hands over
  SampleCap,     \* sample_cap
  MaxPhrases,    \* bound on the phrases of a session
  MaxAudio       \* bound on the audio of a phrase

\* DriftPolicy refuses thresholds that do not increase; room.py says that the
\* playout queue must exceed skip_at_s.
ASSUME PlayoutAssumption ==
  /\ SpeedupAt \in Nat /\ SkipAt \in Nat /\ SpeedupAt < SkipAt
  /\ PlayoutQueue \in Nat /\ SkipAt < PlayoutQueue
  /\ LongestBlock \in 1..PlayoutQueue
  /\ SampleCap \in Nat \ {0} /\ MaxPhrases \in Nat /\ MaxAudio \in Nat

VARIABLES
  dispatched,   \* phrases _dispatch was called for
  translating,  \* it awaits the translation of the last of them
  queue,        \* _queue of the worker
  worker,       \* what it is doing, its phrase, the block it holds and the one after
  drift,        \* LanguageDrift: depth, peak, and how many phrases skipped or sped up
  streams,      \* the synthesiser hands over blocks (Piper), not phrases (Chatterbox)
  thread,       \* its function in an executor, and how much audio that has made
  pipe,         \* the queue it feeds; 0 is its None
  queued,       \* queued_duration of the track's source
  open,         \* _open: the phrases with an open trace
  marks,        \* the stages marked in each phrase's trace
  samples,      \* _g2g: the phrases whose latency is kept
  fate,         \* history: what became of each phrase
  heard,        \* history: the phrases of which audio was published, in order
  since         \* history: audio published since the last decision to speak

recorder == <<open, marks, samples>>
phrase == <<dispatched, translating>>
synthesis == <<streams, thread, pipe>>
vars == <<phrase, queue, worker, drift, synthesis, queued, recorder, fate, heard, since>>

Phrases == 1..MaxPhrases
Stages == {"committed", "translated", "first_audio", "published"}
At(where, p) == [at |-> where, id |-> p, block |-> 0, next |-> 0]
Idle == At("idle", 0)
NoThread == [at |-> "off", made |-> 0]

Greater(a, b) == IF a >= b THEN a ELSE b

Init ==
  /\ dispatched = 0 /\ translating = FALSE
  /\ queue = <<>> /\ worker = Idle
  /\ drift = [depth |-> 0, peak |-> 0, skipped |-> 0, spedUp |-> 0]
  /\ streams \in BOOLEAN /\ thread = NoThread /\ pipe = <<>>
  /\ queued = 0
  /\ open = {} /\ marks = [p \in Phrases |-> {}] /\ samples = <<>>
  /\ fate = [p \in Phrases |-> "none"] /\ heard = <<>> /\ since = 0

-----------------------------------------------------------------------------
(* The recorder.                                                           *)

\* open_chunk and the COMMITTED mark.
OpenChunk(p) ==
  /\ open' = open \union {p}
  /\ marks' = [marks EXCEPT ![p] = {"committed"}]
  /\ UNCHANGED samples

Mark(p, stage) ==
  /\ marks' = IF p \in open THEN [marks EXCEPT ![p] = @ \union {stage}] ELSE marks
  /\ UNCHANGED <<open, samples>>

\* _append, which keeps the newest SampleCap.
Capped(kept, p) ==
  LET all == Append(kept, p)
  IN  SubSeq(all, 1 + Greater(0, Len(all) - SampleCap), Len(all))

\* The PUBLISHED mark closes the trace.
Close(p) ==
  /\ marks' = [marks EXCEPT ![p] = @ \union {"published"}]
  /\ samples' = Capped(samples, p)
  /\ open' = open \ {p}

-----------------------------------------------------------------------------
(* _dispatch, which translates one phrase at a time.                       *)

Dispatch ==
  /\ ~translating /\ dispatched < MaxPhrases
  /\ dispatched' = dispatched + 1 /\ translating' = TRUE
  /\ OpenChunk(dispatched')
  /\ UNCHANGED <<queue, worker, drift, synthesis, queued, fate, heard, since>>

\* The language is missing from the translation, or has a text, which is blank
\* when its backend failed.
Translated ==
  /\ translating /\ translating' = FALSE
  /\ \/ /\ fate' = [fate EXCEPT ![dispatched] = "untranslated"]
        /\ UNCHANGED <<queue, recorder>>
     \/ /\ fate' = [fate EXCEPT ![dispatched] = "given"]
        /\ \E blank \in BOOLEAN : queue' = Append(queue, [id |-> dispatched, blank |-> blank])
        /\ Mark(dispatched, "translated")
  /\ UNCHANGED <<dispatched, worker, drift, synthesis, queued, heard, since>>

-----------------------------------------------------------------------------
(* _speak.                                                                 *)

\* queue_depth, of a language that has its track.
QueueDepth == queued

\* observe, of the track's queue as it is now.
NotObserved == drift
Observed == [drift EXCEPT !.depth = QueueDepth, !.peak = Greater(@, QueueDepth)]

ShouldSkip(state) == state.depth >= SkipAt

\* speed_for: anything above speedup_at_s is spoken faster.
WithSpeed(state) == [state EXCEPT !.spedUp = IF state.depth > SpeedupAt THEN @ + 1 ELSE @]

SkipBlank ==
  /\ worker.at = "idle" /\ queue # <<>> /\ Head(queue).blank
  /\ queue' = Tail(queue)
  /\ fate' = [fate EXCEPT ![Head(queue).id] = "blank"]
  /\ UNCHANGED <<phrase, worker, drift, synthesis, queued, recorder, heard, since>>

SkipPhrase ==
  /\ worker.at = "idle" /\ queue # <<>> /\ ~Head(queue).blank
  /\ ShouldSkip(Observed)
  /\ queue' = Tail(queue)
  /\ drift' = [Observed EXCEPT !.skipped = @ + 1]
  /\ fate' = [fate EXCEPT ![Head(queue).id] = "skipped"]
  /\ worker' = At("recording", Head(queue).id)
  /\ UNCHANGED <<phrase, synthesis, queued, recorder, heard, since>>

\* synthesise starts its thread and awaits the first block, or the phrase.
Speak ==
  /\ worker.at = "idle" /\ queue # <<>> /\ ~Head(queue).blank
  /\ ~ShouldSkip(Observed)
  /\ queue' = Tail(queue)
  /\ drift' = WithSpeed(Observed)
  /\ worker' = At(IF streams THEN "first" ELSE "whole", Head(queue).id)
  /\ thread' = [at |-> "working", made |-> 0] /\ pipe' = <<>>
  /\ since' = 0
  /\ UNCHANGED <<phrase, streams, queued, recorder, fate, heard>>

\* Piper's synthesise holds one block back until it knows whether another
\* follows.
GetFirst ==
  /\ worker.at = "first" /\ pipe # <<>>
  /\ worker' = IF Head(pipe) = 0 THEN [worker EXCEPT !.at = "joining"]
               ELSE [worker EXCEPT !.at = "ahead", !.block = Head(pipe)]
  /\ pipe' = Tail(pipe)
  /\ UNCHANGED <<phrase, queue, drift, streams, thread, queued, recorder, fate, heard, since>>

Heard(p) == \E i \in DOMAIN heard : heard[i] = p

\* It yields the block; _speak marks the first and begins to push it.
GetNext ==
  /\ worker.at = "ahead" /\ pipe # <<>>
  /\ worker' = [worker EXCEPT !.at = "pushing", !.next = Head(pipe)]
  /\ pipe' = Tail(pipe)
  /\ IF Heard(worker.id) THEN UNCHANGED recorder ELSE Mark(worker.id, "first_audio")
  /\ UNCHANGED <<phrase, queue, drift, streams, thread, queued, fate, heard, since>>

\* Chatterbox's synthesise yields the phrase as one block.
GetWhole ==
  /\ worker.at = "whole" /\ thread.at = "done" /\ thread.made > 0
  /\ worker' = [worker EXCEPT !.at = "pushing", !.block = thread.made]
  /\ Mark(worker.id, "first_audio")
  /\ UNCHANGED <<phrase, queue, drift, synthesis, queued, fate, heard, since>>

\* push returns once the track's queue has room for the block.
Push ==
  /\ worker.at = "pushing" /\ queued + worker.block <= PlayoutQueue
  /\ queued' = queued + worker.block /\ since' = since + worker.block
  /\ IF Heard(worker.id) THEN UNCHANGED <<recorder, heard>>
     ELSE Close(worker.id) /\ heard' = Append(heard, worker.id)
  /\ worker' = [worker EXCEPT !.at = IF worker.next = 0 THEN "joining" ELSE "ahead",
                              !.block = worker.next, !.next = 0]
  /\ UNCHANGED <<phrase, queue, drift, synthesis, fate>>

\* push raises: the phrase is dropped, and nobody reads its thread's queue again.
PushFails ==
  /\ worker.at = "pushing"
  /\ worker' = Idle
  /\ thread' = NoThread /\ pipe' = <<>>
  /\ fate' = [fate EXCEPT ![worker.id] = "failed"]
  /\ UNCHANGED <<phrase, queue, drift, streams, queued, recorder, heard, since>>

\* synthesise has no block left, or the phrase came out empty; an error of the
\* thread surfaces here.
NoneLeft == worker.at = "joining" \/ (worker.at = "whole" /\ thread.made = 0)

EndsQuietly ==
  /\ NoneLeft
  /\ worker' = [worker EXCEPT !.at = "recording"]
  /\ fate' = [fate EXCEPT ![worker.id] = "spoken"]
  /\ UNCHANGED <<phrase, queue, drift, synthesis, queued, recorder, heard, since>>
Join ==
  /\ NoneLeft
  /\ \/ /\ thread.at = "done"
        /\ worker' = [worker EXCEPT !.at = "recording"]
        /\ fate' = [fate EXCEPT ![worker.id] = "spoken"]
     \/ /\ thread.at = "failed"
        /\ worker' = Idle
        /\ fate' = [fate EXCEPT ![worker.id] = "failed"]
  /\ UNCHANGED <<phrase, queue, drift, synthesis, queued, recorder, heard, since>>

\* persist, which swallows a failure.
Persist ==
  /\ worker.at = "recording"
  /\ worker' = Idle /\ thread' = NoThread
  /\ UNCHANGED <<phrase, queue, drift, streams, pipe, queued, recorder, fate, heard, since>>

-----------------------------------------------------------------------------
(* The synthesiser's thread, and the track that plays.                     *)

Produce ==
  /\ streams /\ thread.at = "working"
  /\ \E n \in 1..LongestBlock :
       /\ thread.made + n <= MaxAudio
       /\ thread' = [thread EXCEPT !.made = @ + n]
       /\ pipe' = Append(pipe, n)
  /\ UNCHANGED <<phrase, queue, worker, drift, streams, queued, recorder, fate, heard, since>>

\* produce's finally puts the None on every way out.
ProducedOnSuccess ==
  /\ streams /\ thread.at = "working"
  /\ \/ thread' = [thread EXCEPT !.at = "done"] /\ pipe' = Append(pipe, 0)
     \/ thread' = [thread EXCEPT !.at = "failed"] /\ UNCHANGED pipe
  /\ UNCHANGED <<phrase, queue, worker, drift, streams, queued, recorder, fate, heard, since>>
Produced ==
  /\ streams /\ thread.at = "working"
  /\ \E end \in {"done", "failed"} : thread' = [thread EXCEPT !.at = end]
  /\ pipe' = Append(pipe, 0)
  /\ UNCHANGED <<phrase, queue, worker, drift, streams, queued, recorder, fate, heard, since>>

\* Chatterbox's render: the model makes the whole phrase, or raises.
Render ==
  /\ ~streams /\ thread.at = "working"
  /\ \/ \E n \in 0..LongestBlock : n <= MaxAudio /\ thread' = [at |-> "done", made |-> n]
     \/ thread' = [thread EXCEPT !.at = "failed"]
  /\ UNCHANGED <<phrase, queue, worker, drift, streams, pipe, queued, recorder, fate, heard, since>>

Play ==
  /\ queued > 0 /\ queued' = queued - 1
  /\ UNCHANGED <<phrase, queue, worker, drift, synthesis, recorder, fate, heard, since>>

-----------------------------------------------------------------------------

Work ==
  \/ SkipBlank \/ SkipPhrase \/ Speak \/ GetFirst \/ GetNext \/ GetWhole \/ Push \/ Join \/ Persist

Next ==
  \/ Dispatch \/ Translated \/ Work \/ PushFails \/ Produce \/ Produced \/ Render \/ Play

\* The loop runs a worker that can go on, the thread comes to an end, and what
\* is queued is played.  Nothing makes the speaker or the translator act.
Spec == Init /\ [][Next]_vars /\ WF_vars(Work) /\ WF_vars(Produced) /\ WF_vars(Render) /\ WF_vars(Play)

-----------------------------------------------------------------------------

Settled == {"untranslated", "blank", "skipped", "spoken", "failed"}
Items == [id : Phrases, blank : BOOLEAN]
WorkerStates ==
  [at : {"idle", "first", "ahead", "whole", "pushing", "joining", "recording"},
   id : 0..MaxPhrases, block : 0..LongestBlock, next : 0..LongestBlock]
DriftStates == [depth : 0..PlayoutQueue, peak : 0..PlayoutQueue, skipped : Nat, spedUp : Nat]
ThreadStates == [at : {"off", "working", "done", "failed"}, made : 0..MaxAudio]

\* The worker, its queues and the records have their types; no more samples are
\* kept than the cap allows, and no more audio than the playout queue holds.
TypeOK ==
  /\ dispatched \in 0..MaxPhrases /\ translating \in BOOLEAN
  /\ translating => dispatched \in Phrases
  /\ queue \in Seq(Items)
  /\ worker \in WorkerStates
  /\ worker.at # "idle" => worker.id \in Phrases
  /\ drift \in DriftStates
  /\ streams \in BOOLEAN /\ (worker.at = "whole" => ~streams)
  /\ thread \in ThreadStates /\ (thread.made > LongestBlock => streams)
  /\ pipe \in Seq(0..LongestBlock)
  /\ queued \in 0..PlayoutQueue /\ since \in Nat
  /\ open \subseteq Phrases /\ marks \in [Phrases -> SUBSET Stages]
  /\ samples \in Seq(Phrases) /\ Len(samples) <= SampleCap
  /\ fate \in [Phrases -> {"none", "given"} \union Settled]
  /\ heard \in Seq(Phrases)

\* A language is never further behind its speaker than skip_at_s and the phrase
\* it is saying: the depth a decision was made on is not exceeded by anything
\* but that phrase, however late its audio comes.  Phrases are skipped exactly
\* when the recorded peak reached the threshold.
DriftBounded ==
  /\ queued < SkipAt + since
  /\ (drift.skipped > 0) <=> (drift.peak >= SkipAt)

\* What is recorded is what the audience heard.  A trace is open exactly as long
\* as none of its phrase was published; the samples are those of the phrases
\* heard last, with every stage marked; every skip is counted; and a phrase is
\* recorded as spoken only when all its audio went out and none is missing.
RecordsTrue ==
  /\ open = {p \in 1..dispatched : ~Heard(p)}
  /\ samples = SubSeq(heard, 1 + Greater(0, Len(heard) - SampleCap), Len(heard))
  /\ \A i \in DOMAIN samples : marks[samples[i]] = Stages
  /\ drift.skipped = Cardinality({p \in Phrases : fate[p] = "skipped"})
  /\ (worker.at = "recording" /\ fate[worker.id] = "spoken") =>
       thread.at = "done" /\ since = thread.made

\* Each phrase a worker was given is dealt with, whether it is synthesised,
\* fails halfway or has to wait for the track.
PhraseEnds == \A p \in Phrases : (fate[p] = "given") ~> (fate[p] \in Settled)
=============================================================================
