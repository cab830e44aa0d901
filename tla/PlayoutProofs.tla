---------------------------- MODULE PlayoutProofs ----------------------------
(***************************************************************************)
(* How far a language falls behind its speaker, for every threshold, every *)
(* playout queue and every length of phrase.                               *)
(*                                                                         *)
(* DriftBounded is inductive over TypeOK: a decision to speak is made on a *)
(* queue below SkipAt and starts a new count of published audio; from then *)
(* on a push adds as much to the count as to the queue, and playing only   *)
(* takes from the queue.                                                   *)
(*                                                                         *)
(* That the records are true takes more.  A phrase is in one place, the    *)
(* queue or the worker's mouth, until it is settled (GivenOnce), so it is  *)
(* counted once; a trace has the marks of the place its phrase is at       *)
(* (Marked); and what the thread made is what was published, what the      *)
(* worker holds and what is still in the pipe (AllAccounted), so a phrase  *)
(* whose None was read from a thread that is done was heard to its end.    *)
(***************************************************************************)
EXTENDS Playout, SequenceTheorems, FiniteSetTheorems, TLAPS

USE PlayoutAssumption DEF PlayoutAssumption

IInv == TypeOK /\ DriftBounded

\* The sample cap holds after every sample.
LEMMA CapHolds ==
  ASSUME NEW kept \in Seq(Phrases), NEW p \in Phrases
  PROVE  Capped(kept, p) \in Seq(Phrases) /\ Len(Capped(kept, p)) <= SampleCap
<1> DEFINE all == Append(kept, p)
           from == 1 + Greater(0, Len(all) - SampleCap)
<1>1. all \in Seq(Phrases) /\ Len(all) \in Nat \ {0}
  OBVIOUS
<1>2. from \in 1..Len(all) /\ Len(all) - from + 1 <= SampleCap
  BY <1>1 DEF Greater
<1>3. Capped(kept, p) = SubSeq(all, from, Len(all))
  BY DEF Capped
<1> HIDE DEF all, from
<1>4. SubSeq(all, from, Len(all)) \in Seq(Phrases) /\ Len(SubSeq(all, from, Len(all))) = Len(all) - from + 1
  BY <1>1, <1>2
<1> QED BY <1>2, <1>3, <1>4

\* What the recorder's operations leave has the recorder's types.
LEMMA RecorderTyped ==
  ASSUME TypeOK, NEW p \in Phrases, NEW stage \in Stages,
         OpenChunk(p) \/ Mark(p, stage) \/ Close(p) \/ UNCHANGED recorder
  PROVE  /\ open' \subseteq Phrases /\ marks' \in [Phrases -> SUBSET Stages]
         /\ samples' \in Seq(Phrases) /\ Len(samples') <= SampleCap
<1> USE DEF TypeOK, Stages
<1>1. CASE OpenChunk(p) BY <1>1 DEF OpenChunk
<1>2. CASE Mark(p, stage) BY <1>2 DEF Mark
<1>3. CASE Close(p) BY <1>3, CapHolds DEF Close
<1>4. CASE UNCHANGED recorder BY <1>4 DEF recorder
<1> QED BY <1>1, <1>2, <1>3, <1>4

\* An idle worker has its type.
LEMMA IdleTyped == Idle \in WorkerStates /\ Idle.at = "idle"
<1>1. 0 \in 0..MaxPhrases /\ 0 \in 0..LongestBlock
  OBVIOUS
<1> QED BY <1>1 DEF Idle, At, WorkerStates

LEMMA InitEstablishes == Init => IInv
<1> SUFFICES ASSUME Init PROVE IInv
  OBVIOUS
<1>1. /\ dispatched \in 0..MaxPhrases /\ translating \in BOOLEAN
      /\ translating => dispatched \in Phrases
      /\ queued \in 0..PlayoutQueue /\ since \in Nat
  <2>1. dispatched = 0 /\ translating = FALSE /\ queued = 0 /\ since = 0
    BY DEF Init
  <2>2. 0 \in 0..MaxPhrases /\ 0 \in 0..PlayoutQueue /\ 0 \in Nat
    OBVIOUS
  <2>3. translating \in BOOLEAN /\ (translating => dispatched \in Phrases)
    BY <2>1
  <2> QED BY <2>1, <2>2, <2>3
<1>2. /\ queue \in Seq(Items) /\ pipe \in Seq(0..LongestBlock)
      /\ samples \in Seq(Phrases) /\ heard \in Seq(Phrases)
      /\ Len(samples) <= SampleCap
  BY DEF Init
<1>3. /\ worker \in WorkerStates /\ (worker.at # "idle" => worker.id \in Phrases)
      /\ streams \in BOOLEAN /\ (worker.at = "whole" => ~streams)
  BY IdleTyped DEF Init
<1>4. drift \in DriftStates /\ DriftBounded
  BY DEF Init, DriftBounded, DriftStates
<1>5. thread \in ThreadStates /\ (thread.made > LongestBlock => streams)
  BY DEF Init, NoThread, ThreadStates
<1>6. /\ open \subseteq Phrases /\ marks \in [Phrases -> SUBSET Stages]
      /\ fate \in [Phrases -> {"none", "given"} \union Settled]
  BY DEF Init
<1> QED BY <1>1, <1>2, <1>3, <1>4, <1>5, <1>6 DEF IInv, TypeOK

-----------------------------------------------------------------------------
(* One lemma per action.                                                   *)

LEMMA DispatchPreserves ==
  ASSUME TypeOK, DriftBounded, Dispatch PROVE TypeOK' /\ DriftBounded'
<1>1. dispatched' \in Phrases /\ dispatched' \in 0..MaxPhrases
  BY DEF TypeOK, Dispatch, Phrases
<1>2. /\ open' \subseteq Phrases /\ marks' \in [Phrases -> SUBSET Stages]
      /\ samples' \in Seq(Phrases) /\ Len(samples') <= SampleCap
  BY <1>1, RecorderTyped DEF Dispatch, Stages
<1> QED BY <1>1, <1>2 DEF TypeOK, DriftBounded, Dispatch, synthesis

LEMMA TranslatedPreserves ==
  ASSUME TypeOK, DriftBounded, Translated PROVE TypeOK' /\ DriftBounded'
<1>1. dispatched \in Phrases
  BY DEF TypeOK, Translated
<1>2. /\ open' \subseteq Phrases /\ marks' \in [Phrases -> SUBSET Stages]
      /\ samples' \in Seq(Phrases) /\ Len(samples') <= SampleCap
  BY <1>1, RecorderTyped DEF Translated, Stages
<1>3. queue' \in Seq(Items)
  <2>1. queue \in Seq(Items)
    BY DEF TypeOK
  <2>2. \A blank \in BOOLEAN : [id |-> dispatched, blank |-> blank] \in Items
    BY <1>1 DEF Items
  <2>3. \A blank \in BOOLEAN : Append(queue, [id |-> dispatched, blank |-> blank]) \in Seq(Items)
    BY <2>1, <2>2
  <2> QED BY <2>1, <2>3 DEF Translated
<1>4. fate' \in [Phrases -> {"none", "given"} \union Settled]
  BY <1>1 DEF TypeOK, Translated, Settled
<1> QED BY <1>2, <1>3, <1>4 DEF TypeOK, DriftBounded, Translated, synthesis

\* The head of the worker's queue is a phrase.
LEMMA HeadIsPhrase ==
  ASSUME TypeOK, queue # <<>>
  PROVE  Head(queue).id \in Phrases /\ Tail(queue) \in Seq(Items)
<1>1. queue \in Seq(Items)
  BY DEF TypeOK
<1>2. Head(queue) \in Items /\ Tail(queue) \in Seq(Items)
  BY <1>1
<1> QED BY <1>2 DEF Items

LEMMA SkipBlankPreserves ==
  ASSUME TypeOK, DriftBounded, SkipBlank PROVE TypeOK' /\ DriftBounded'
<1>1. Head(queue).id \in Phrases /\ Tail(queue) \in Seq(Items)
  BY HeadIsPhrase DEF SkipBlank
<1>2. fate' \in [Phrases -> {"none", "given"} \union Settled]
  BY <1>1 DEF TypeOK, SkipBlank, Settled
<1> QED BY <1>1, <1>2 DEF TypeOK, DriftBounded, SkipBlank, phrase, synthesis, recorder

\* observe records the queue as it is, and the peak never falls.
LEMMA ObservedTyped ==
  ASSUME TypeOK
  PROVE  /\ Observed \in DriftStates
         /\ Observed.depth = queued /\ Observed.skipped = drift.skipped
         /\ Observed.peak >= drift.peak /\ Observed.peak >= queued
         /\ Observed.peak = drift.peak \/ Observed.peak = queued
<1>1. /\ drift \in DriftStates /\ queued \in 0..PlayoutQueue
      /\ drift.peak \in 0..PlayoutQueue
  BY DEF TypeOK, DriftStates
<1>2. Greater(drift.peak, queued) \in 0..PlayoutQueue
  BY <1>1 DEF Greater
<1>3. Observed \in DriftStates
  BY <1>1, <1>2 DEF DriftStates, Observed, QueueDepth
<1>4. Observed.depth = queued /\ Observed.skipped = drift.skipped
      /\ Observed.peak = Greater(drift.peak, queued)
  BY <1>1 DEF DriftStates, Observed, QueueDepth
<1> QED BY <1>1, <1>3, <1>4 DEF Greater

\* A worker that has taken a phrase has its type.
LEMMA WorkerWith ==
  ASSUME NEW p \in Phrases, NEW where \in {"first", "whole", "recording"}
  PROVE  /\ At(where, p) \in WorkerStates /\ At(where, p).id = p
         /\ At(where, p).at = where
<1>1. p \in 0..MaxPhrases /\ 0 \in 0..LongestBlock
  BY DEF Phrases
<1> QED BY <1>1 DEF At, WorkerStates

LEMMA SkipPhrasePreserves ==
  ASSUME TypeOK, DriftBounded, SkipPhrase PROVE TypeOK' /\ DriftBounded'
<1>1. Head(queue).id \in Phrases /\ Tail(queue) \in Seq(Items)
  BY HeadIsPhrase DEF SkipPhrase
<1>2. fate' \in [Phrases -> {"none", "given"} \union Settled]
  BY <1>1 DEF TypeOK, SkipPhrase, Settled
<1>3. worker' \in WorkerStates /\ worker'.id \in Phrases /\ worker'.at = "recording"
  BY <1>1, WorkerWith DEF SkipPhrase
<1>4. /\ drift' \in DriftStates
      /\ drift'.skipped > 0 /\ drift'.peak >= SkipAt
  <2> DEFINE seen == Observed
  <2>1. seen \in DriftStates /\ seen.depth = queued /\ seen.peak >= queued /\ queued \in Nat
    BY ObservedTyped DEF TypeOK
  <2>2. seen.depth >= SkipAt /\ drift' = [seen EXCEPT !.skipped = @ + 1]
    BY DEF SkipPhrase, ShouldSkip
  <2> HIDE DEF seen
  <2>3. seen.peak \in Nat /\ seen.skipped \in Nat
    BY <2>1 DEF DriftStates
  <2>4. drift' \in DriftStates /\ drift'.skipped = seen.skipped + 1 /\ drift'.peak = seen.peak
    BY <2>1, <2>2, <2>3 DEF DriftStates
  <2> QED BY <2>1, <2>2, <2>3, <2>4
<1>5. TypeOK'
  BY <1>1, <1>2, <1>3, <1>4 DEF TypeOK, SkipPhrase, phrase, synthesis, recorder
<1>6. DriftBounded'
  BY <1>4 DEF DriftBounded, SkipPhrase
<1> QED BY <1>5, <1>6

LEMMA SpeakPreserves ==
  ASSUME TypeOK, DriftBounded, Speak PROVE TypeOK' /\ DriftBounded'
<1>1. Head(queue).id \in Phrases /\ Tail(queue) \in Seq(Items)
  BY HeadIsPhrase DEF Speak
<1>2. worker' \in WorkerStates /\ worker'.id \in Phrases /\ (worker'.at = "whole" => ~streams)
  <2>1. (IF streams THEN "first" ELSE "whole") \in {"first", "whole"}
    BY DEF TypeOK
  <2>2. worker' = At(IF streams THEN "first" ELSE "whole", Head(queue).id)
    BY DEF Speak
  <2> QED BY <1>1, <2>1, <2>2, WorkerWith
<1> DEFINE seen == Observed
<1>3. /\ seen \in DriftStates /\ seen.depth = queued /\ seen.skipped = drift.skipped
      /\ seen.peak = drift.peak \/ seen.peak = queued
      /\ seen.peak >= drift.peak /\ queued \in Nat
  BY ObservedTyped DEF TypeOK
<1>4. ~(seen.depth >= SkipAt) /\ drift' = WithSpeed(seen)
  BY DEF Speak, ShouldSkip
<1> HIDE DEF seen
<1>5. /\ drift' \in DriftStates
      /\ drift'.skipped = seen.skipped /\ drift'.peak = seen.peak
  BY <1>3, <1>4 DEF WithSpeed, DriftStates
<1>6. drift.peak \in Nat /\ seen.peak \in Nat
  BY <1>3 DEF TypeOK, DriftStates
<1>7. DriftBounded'
  <2>1. queued' < SkipAt + since'
    BY <1>3, <1>4 DEF Speak
  <2>2. (drift'.peak >= SkipAt) <=> (drift.peak >= SkipAt)
    BY <1>3, <1>4, <1>5, <1>6
  <2> QED BY <1>3, <1>5, <2>1, <2>2 DEF DriftBounded
<1>8. /\ thread' \in ThreadStates /\ ~(thread'.made > LongestBlock)
      /\ pipe' \in Seq(0..LongestBlock) /\ since' \in Nat
  BY DEF Speak, ThreadStates
<1>9. TypeOK'
  BY <1>1, <1>2, <1>5, <1>8 DEF TypeOK, Speak, phrase, recorder
<1> QED BY <1>7, <1>9

\* The queue between the thread and the worker, read and written one at a time.
LEMMA PipeTyped ==
  ASSUME TypeOK
  PROVE  /\ pipe # <<>> => Head(pipe) \in 0..LongestBlock /\ Tail(pipe) \in Seq(0..LongestBlock)
         /\ \A n \in 0..LongestBlock : Append(pipe, n) \in Seq(0..LongestBlock)
<1>1. pipe \in Seq(0..LongestBlock)
  BY DEF TypeOK
<1> QED BY <1>1

\* The phrase of a worker that is not idle; block and next are lengths of audio.
LEMMA WorkerTyped ==
  ASSUME TypeOK, worker.at # "idle"
  PROVE  /\ worker.id \in Phrases /\ worker \in WorkerStates
         /\ worker.block \in 0..LongestBlock /\ worker.next \in 0..LongestBlock
<1>1. worker \in WorkerStates /\ worker.id \in Phrases
  BY DEF TypeOK
<1>2. worker.block \in 0..LongestBlock /\ worker.next \in 0..LongestBlock
  BY <1>1 DEF WorkerStates
<1> QED BY <1>1, <1>2

LEMMA GetFirstPreserves ==
  ASSUME TypeOK, DriftBounded, GetFirst PROVE TypeOK' /\ DriftBounded'
<1>1. pipe' \in Seq(0..LongestBlock) /\ Head(pipe) \in 0..LongestBlock
  BY PipeTyped DEF GetFirst
<1>2. worker.at # "idle" /\ worker.id \in Phrases /\ worker \in WorkerStates
  BY WorkerTyped DEF GetFirst
<1>3. worker' \in WorkerStates /\ worker'.id \in Phrases
  BY <1>1, <1>2 DEF GetFirst, WorkerStates
<1>4. TypeOK'
  BY <1>1, <1>3 DEF TypeOK, GetFirst, phrase, recorder
<1>5. DriftBounded'
  BY DEF DriftBounded, GetFirst
<1> QED BY <1>4, <1>5

LEMMA GetNextPreserves ==
  ASSUME TypeOK, DriftBounded, GetNext PROVE TypeOK' /\ DriftBounded'
<1>1. pipe' \in Seq(0..LongestBlock) /\ Head(pipe) \in 0..LongestBlock
  BY PipeTyped DEF GetNext
<1>2. worker.at # "idle" /\ worker.id \in Phrases /\ worker \in WorkerStates
  BY WorkerTyped DEF GetNext
<1>3. worker' \in WorkerStates /\ worker'.id \in Phrases
  BY <1>1, <1>2 DEF GetNext, WorkerStates
<1>4. /\ open' \subseteq Phrases /\ marks' \in [Phrases -> SUBSET Stages]
      /\ samples' \in Seq(Phrases) /\ Len(samples') <= SampleCap
  BY <1>2, RecorderTyped DEF GetNext, Stages
<1>5. TypeOK'
  BY <1>1, <1>3, <1>4 DEF TypeOK, GetNext, phrase
<1>6. DriftBounded'
  BY DEF DriftBounded, GetNext
<1> QED BY <1>5, <1>6

LEMMA GetWholePreserves ==
  ASSUME TypeOK, DriftBounded, GetWhole PROVE TypeOK' /\ DriftBounded'
<1>1. worker.at # "idle" /\ worker.id \in Phrases /\ worker \in WorkerStates
  BY WorkerTyped DEF GetWhole
<1>2. thread.made \in 0..LongestBlock
  BY DEF TypeOK, GetWhole, ThreadStates
<1>3. worker' \in WorkerStates /\ worker'.id \in Phrases /\ worker'.at = "pushing"
  BY <1>1, <1>2 DEF GetWhole, WorkerStates
<1>4. /\ open' \subseteq Phrases /\ marks' \in [Phrases -> SUBSET Stages]
      /\ samples' \in Seq(Phrases) /\ Len(samples') <= SampleCap
  BY <1>1, RecorderTyped DEF GetWhole, Stages
<1>5. TypeOK'
  BY <1>3, <1>4 DEF TypeOK, GetWhole, phrase, synthesis
<1>6. DriftBounded'
  BY DEF DriftBounded, GetWhole
<1> QED BY <1>5, <1>6

\* A push adds as much to the audio since the decision as to the queue.
LEMMA PushPreserves ==
  ASSUME TypeOK, DriftBounded, Push PROVE TypeOK' /\ DriftBounded'
<1>1. /\ worker.id \in Phrases /\ worker \in WorkerStates
      /\ worker.block \in 0..LongestBlock /\ worker.next \in 0..LongestBlock
  BY WorkerTyped DEF Push
<1>2. worker' \in WorkerStates /\ worker'.id \in Phrases
  <2> DEFINE where == IF worker.next = 0 THEN "joining" ELSE "ahead"
  <2>1. worker' = [[[worker EXCEPT !.at = where] EXCEPT !.block = worker.next] EXCEPT !.next = 0]
    BY <1>1 DEF Push, WorkerStates
  <2>2. where \in {"joining", "ahead"}
    OBVIOUS
  <2> HIDE DEF where
  <2>3. [worker EXCEPT !.at = where] \in WorkerStates /\ [worker EXCEPT !.at = where].id = worker.id
    BY <1>1, <2>2 DEF WorkerStates
  <2> DEFINE moved == [worker EXCEPT !.at = where]
  <2> HIDE DEF moved
  <2>4. moved \in WorkerStates /\ moved.id = worker.id
        /\ worker' = [[moved EXCEPT !.block = worker.next] EXCEPT !.next = 0]
    BY <2>1, <2>3 DEF moved
  <2>5. 0 \in 0..LongestBlock
    OBVIOUS
  <2> QED BY <1>1, <2>4, <2>5 DEF WorkerStates
<1>3. /\ open' \subseteq Phrases /\ marks' \in [Phrases -> SUBSET Stages]
      /\ samples' \in Seq(Phrases) /\ Len(samples') <= SampleCap
  BY <1>1, RecorderTyped DEF Push, Stages
<1>4. heard' \in Seq(Phrases)
  <2>1. heard \in Seq(Phrases)
    BY DEF TypeOK
  <2>2. heard' = heard \/ heard' = Append(heard, worker.id)
    BY DEF Push
  <2> QED BY <1>1, <2>1, <2>2
<1>5. /\ queued \in Nat /\ since \in Nat /\ queued < SkipAt + since
      /\ queued' = queued + worker.block /\ since' = since + worker.block
      /\ queued' <= PlayoutQueue
  BY DEF TypeOK, DriftBounded, Push
<1>6. queued' \in 0..PlayoutQueue /\ since' \in Nat /\ queued' < SkipAt + since'
  BY <1>1, <1>5
<1>7. TypeOK'
  BY <1>2, <1>3, <1>4, <1>6 DEF TypeOK, Push, phrase, synthesis
<1>8. DriftBounded'
  BY <1>6 DEF DriftBounded, Push
<1> QED BY <1>7, <1>8

LEMMA PushFailsPreserves ==
  ASSUME TypeOK, DriftBounded, PushFails PROVE TypeOK' /\ DriftBounded'
<1>1. worker.id \in Phrases
  BY WorkerTyped DEF PushFails
<1>2. worker' \in WorkerStates /\ worker'.at = "idle"
  BY IdleTyped DEF PushFails
<1>3. thread' \in ThreadStates /\ ~(thread'.made > LongestBlock) /\ pipe' \in Seq(0..LongestBlock)
  BY DEF PushFails, NoThread, ThreadStates
<1>4. fate' \in [Phrases -> {"none", "given"} \union Settled]
  BY <1>1 DEF TypeOK, PushFails, Settled
<1>5. TypeOK'
  BY <1>2, <1>3, <1>4 DEF TypeOK, PushFails, phrase, recorder
<1>6. DriftBounded'
  BY DEF DriftBounded, PushFails
<1> QED BY <1>5, <1>6

LEMMA JoinPreserves ==
  ASSUME TypeOK, DriftBounded, Join PROVE TypeOK' /\ DriftBounded'
<1>1. worker.id \in Phrases /\ worker \in WorkerStates
  BY WorkerTyped DEF Join, NoneLeft
<1>2. [worker EXCEPT !.at = "recording"] \in WorkerStates
      /\ [worker EXCEPT !.at = "recording"].id = worker.id
  BY <1>1 DEF WorkerStates
<1>3. /\ worker' \in WorkerStates /\ (worker'.at # "idle" => worker'.id \in Phrases)
      /\ worker'.at # "whole"
  <2>1. [worker EXCEPT !.at = "recording"].at = "recording"
    BY <1>1 DEF WorkerStates
  <2> QED BY <1>1, <1>2, <2>1, IdleTyped DEF Join
<1>4. fate' \in [Phrases -> {"none", "given"} \union Settled]
  BY <1>1 DEF TypeOK, Join, Settled
<1>5. TypeOK'
  BY <1>3, <1>4 DEF TypeOK, Join, phrase, recorder, synthesis
<1>6. DriftBounded'
  BY DEF DriftBounded, Join
<1> QED BY <1>5, <1>6

LEMMA PersistPreserves ==
  ASSUME TypeOK, DriftBounded, Persist PROVE TypeOK' /\ DriftBounded'
<1>1. /\ worker' \in WorkerStates /\ worker'.at = "idle"
      /\ thread' \in ThreadStates /\ ~(thread'.made > LongestBlock)
  BY IdleTyped DEF Persist, NoThread, ThreadStates
<1>2. TypeOK'
  BY <1>1 DEF TypeOK, Persist, phrase, recorder
<1>3. DriftBounded'
  BY DEF DriftBounded, Persist
<1> QED BY <1>2, <1>3

LEMMA ProducePreserves ==
  ASSUME TypeOK, DriftBounded, Produce \/ Produced \/ Render PROVE TypeOK' /\ DriftBounded'
<1>1. thread' \in ThreadStates /\ (thread'.made > LongestBlock => streams)
  <2>1. thread \in ThreadStates /\ (thread.made > LongestBlock => streams)
    BY DEF TypeOK
  <2>2. CASE Produce BY <2>1, <2>2 DEF Produce, ThreadStates
  <2>3. CASE Produced BY <2>1, <2>3 DEF Produced, ThreadStates
  <2>4. CASE Render BY <2>1, <2>4 DEF Render, ThreadStates
  <2> QED BY <2>2, <2>3, <2>4
<1>2. pipe' \in Seq(0..LongestBlock)
  <2>1. 1..LongestBlock \subseteq 0..LongestBlock /\ 0 \in 0..LongestBlock
    OBVIOUS
  <2> QED BY <2>1, PipeTyped DEF Produce, Produced, Render, TypeOK
<1>3. UNCHANGED <<phrase, queue, worker, drift, streams, queued, recorder, fate, heard, since>>
  BY DEF Produce, Produced, Render
<1>4. TypeOK'
  BY <1>1, <1>2, <1>3 DEF TypeOK, phrase, recorder
<1>5. DriftBounded'
  BY <1>3 DEF DriftBounded
<1> QED BY <1>4, <1>5

\* Playing only takes from the queue.
LEMMA PlayPreserves ==
  ASSUME TypeOK, DriftBounded, Play PROVE TypeOK' /\ DriftBounded'
<1>1. queued' \in 0..PlayoutQueue /\ queued' < SkipAt + since' /\ since' \in Nat
  BY DEF TypeOK, DriftBounded, Play
<1>2. TypeOK'
  BY <1>1 DEF TypeOK, Play, phrase, recorder, synthesis
<1>3. DriftBounded'
  BY <1>1 DEF DriftBounded, Play
<1> QED BY <1>2, <1>3

LEMMA StutterPreserves ==
  ASSUME TypeOK, DriftBounded, UNCHANGED vars PROVE TypeOK' /\ DriftBounded'
<1>1. TypeOK'
  BY DEF TypeOK, vars, phrase, recorder, synthesis
<1> QED BY <1>1 DEF DriftBounded, vars

-----------------------------------------------------------------------------

LEMMA StepPreserves == IInv /\ [Next]_vars => IInv'
<1> SUFFICES ASSUME TypeOK, DriftBounded, [Next]_vars PROVE TypeOK' /\ DriftBounded'
  BY DEF IInv
<1>1. CASE Dispatch BY <1>1, DispatchPreserves
<1>2. CASE Translated BY <1>2, TranslatedPreserves
<1>3. CASE Work
  <2>1. CASE SkipBlank BY <2>1, SkipBlankPreserves
  <2>2. CASE SkipPhrase BY <2>2, SkipPhrasePreserves
  <2>3. CASE Speak BY <2>3, SpeakPreserves
  <2>4. CASE GetFirst BY <2>4, GetFirstPreserves
  <2>5. CASE GetNext BY <2>5, GetNextPreserves
  <2>6. CASE Push BY <2>6, PushPreserves
  <2>7. CASE Join BY <2>7, JoinPreserves
  <2>8. CASE Persist BY <2>8, PersistPreserves
  <2>9. CASE GetWhole BY <2>9, GetWholePreserves
  <2> QED BY <1>3, <2>1, <2>2, <2>3, <2>4, <2>5, <2>6, <2>7, <2>8, <2>9 DEF Work
<1>4. CASE PushFails BY <1>4, PushFailsPreserves
<1>5. CASE Produce \/ Produced \/ Render BY <1>5, ProducePreserves
<1>6. CASE Play BY <1>6, PlayPreserves
<1>7. CASE UNCHANGED vars BY <1>7, StutterPreserves
<1> QED BY <1>1, <1>2, <1>3, <1>4, <1>5, <1>6, <1>7 DEF Next

LEMMA Invariance == Spec => []IInv
<1> QED BY InitEstablishes, StepPreserves, PTL DEF Spec

\* The worker, the synthesiser's thread and the recorder keep their types: no
\* more samples than the cap and no more queued audio than the track's queue
\* takes, for every cap, queue and length of phrase.
THEOREM TypeCorrect == Spec => []TypeOK
<1>1. IInv => TypeOK
  BY DEF IInv
<1> QED BY <1>1, Invariance, PTL

\* For every pair of thresholds a language is at most skip_at_s and the phrase
\* it is saying behind, and phrases are skipped only where the recorded peak
\* shows that it was.
THEOREM DriftIsBounded == Spec => []DriftBounded
<1>1. IInv => DriftBounded
  BY DEF IInv
<1> QED BY <1>1, Invariance, PTL

-----------------------------------------------------------------------------
(* What is recorded.  RecordsTrue speaks of the end of a phrase; the        *)
(* invariant follows it there.                                              *)

Speaking == worker.at \in {"first", "ahead", "whole", "pushing", "joining"}

\* A phrase is given once: it is in the queue in one place, or with the worker,
\* and not yet settled.
GivenOnce ==
  /\ \A i \in DOMAIN queue : fate[queue[i].id] = "given"
  /\ \A i, j \in DOMAIN queue : i # j => queue[i].id # queue[j].id
  /\ Speaking => fate[worker.id] = "given" /\ \A i \in DOMAIN queue : queue[i].id # worker.id
  /\ \A p \in Phrases : p > dispatched \/ (p = dispatched /\ translating) => fate[p] = "none"

\* Only the phrase that is being spoken and those that were have been heard.
HeardSpoken ==
  \A p \in Phrases :
    Heard(p) => fate[p] \in {"spoken", "failed"} \/ (Speaking /\ worker.id = p)

\* A trace gathers its marks as its phrase goes along.
Marked ==
  /\ open = {p \in 1..dispatched : ~Heard(p)}
  /\ translating => "committed" \in marks[dispatched]
  /\ \A p \in Phrases : fate[p] = "given" => {"committed", "translated"} \subseteq marks[p]
  /\ worker.at = "pushing" /\ ~Heard(worker.id) => "first_audio" \in marks[worker.id]
  /\ \A p \in Phrases : Heard(p) => marks[p] = Stages

\* The newest of s, as many as are kept.
Newest(s) == SubSeq(s, 1 + Greater(0, Len(s) - SampleCap), Len(s))

SkippedPhrases == {p \in Phrases : fate[p] = "skipped"}
Counted == drift.skipped = Cardinality(SkippedPhrases)

\* Up to its None, which comes when the thread is over, the pipe holds audio.
\* Once the None was taken nothing is left in it.
Expecting == worker.at \in {"first", "ahead"} \/ (worker.at = "pushing" /\ worker.next # 0)
Ended == worker.at = "joining" \/ (worker.at = "pushing" /\ worker.next = 0)
Piped ==
  /\ Expecting => /\ \A i \in DOMAIN pipe : pipe[i] = 0 <=> (thread.at # "working" /\ i = Len(pipe))
                  /\ thread.at # "working" => pipe # <<>>
                  /\ streams
  /\ Ended => pipe = <<>> /\ thread.at \in {"done", "failed"}
  /\ worker.at = "whole" => pipe = <<>> /\ since = 0 /\ worker.block = 0 /\ worker.next = 0
  /\ worker.at = "first" => worker.block = 0 /\ since = 0
  /\ worker.at \in {"first", "ahead", "joining"} => worker.next = 0
  /\ worker.at = "joining" => worker.block = 0
  /\ Speaking => thread.at # "off"

\* What the thread made is what was published, what the worker holds, and what
\* is in the pipe: total adds the pipe up from its front.
Adds(total) ==
  /\ total[0] = since + worker.block + worker.next
  /\ \A i \in 1..Len(pipe) : total[i] = total[i - 1] + pipe[i]
  /\ total[Len(pipe)] = thread.made
AllAccounted ==
  Speaking /\ worker.at # "whole" => \E total \in [0..Len(pipe) -> Nat] : Adds(total)

\* A phrase recorded as spoken was published to its end.
SpokenWhole ==
  worker.at = "recording" /\ fate[worker.id] = "spoken" => thread.at = "done" /\ since = thread.made

Records == GivenOnce /\ HeardSpoken /\ Marked /\ samples = Newest(heard) /\ Counted
Sound == Piped /\ AllAccounted /\ SpokenWhole

\* The places of the worker's queue after a phrase is added or taken.
LEMMA QueuePlaces ==
  ASSUME NEW q \in Seq(Items)
  PROVE  /\ Len(q) \in Nat /\ DOMAIN q = 1..Len(q) /\ \A i \in DOMAIN q : q[i] \in Items /\ q[i].id \in Phrases
         /\ \A x \in Items : DOMAIN Append(q, x) = 1..(Len(q) + 1)
                             /\ Append(q, x)[Len(q) + 1] = x
                             /\ \A i \in 1..Len(q) : Append(q, x)[i] = q[i]
         /\ q # <<>> => /\ 1 \in DOMAIN q /\ Head(q) = q[1]
                        /\ DOMAIN Tail(q) = 1..(Len(q) - 1)
                        /\ \A i \in 1..(Len(q) - 1) : Tail(q)[i] = q[i + 1]
<1>1. Len(q) \in Nat /\ DOMAIN q = 1..Len(q) /\ \A i \in DOMAIN q : q[i] \in Items
  OBVIOUS
<1>2. \A i \in DOMAIN q : q[i].id \in Phrases
  BY <1>1 DEF Items
<1>3. \A x \in Items : DOMAIN Append(q, x) = 1..(Len(q) + 1)
                       /\ Append(q, x)[Len(q) + 1] = x
                       /\ \A i \in 1..Len(q) : Append(q, x)[i] = q[i]
  OBVIOUS
<1>4. ASSUME q # <<>>
      PROVE  /\ 1 \in DOMAIN q /\ Head(q) = q[1]
             /\ DOMAIN Tail(q) = 1..(Len(q) - 1)
             /\ \A i \in 1..(Len(q) - 1) : Tail(q)[i] = q[i + 1]
  BY <1>4
<1> QED BY <1>1, <1>2, <1>3, <1>4

\* What taking the first phrase of the queue leaves: the others, of other
\* numbers.
LEMMA Taken ==
  ASSUME TypeOK, GivenOnce, queue # <<>>, queue' = Tail(queue)
  PROVE  /\ Head(queue).id \in Phrases /\ fate[Head(queue).id] = "given"
         /\ \A i \in DOMAIN queue' :
              /\ queue'[i].id # Head(queue).id /\ fate[queue'[i].id] = "given" /\ queue'[i].id \in Phrases
              /\ Speaking => queue'[i].id # worker.id
         /\ \A i, j \in DOMAIN queue' : i # j => queue'[i].id # queue'[j].id
<1>1. queue \in Seq(Items)
  BY DEF TypeOK
<1>2. /\ Len(queue) \in Nat /\ DOMAIN queue = 1..Len(queue) /\ 1 \in DOMAIN queue /\ Head(queue) = queue[1]
      /\ \A i \in DOMAIN queue : queue[i].id \in Phrases
      /\ \A i \in DOMAIN queue' : i \in Nat /\ i # 0 /\ i + 1 \in DOMAIN queue /\ queue'[i] = queue[i + 1]
  BY <1>1, QueuePlaces
<1>3. \A i, j \in DOMAIN queue' : i # j => queue'[i].id # queue'[j].id
  <2>1. ASSUME NEW i \in DOMAIN queue', NEW j \in DOMAIN queue', i # j PROVE i + 1 # j + 1
    BY <1>2, <2>1
  <2> QED BY <1>2, <2>1 DEF GivenOnce
<1>4. \A i \in DOMAIN queue' : i + 1 # 1
  BY <1>2
<1> QED BY <1>2, <1>3, <1>4 DEF GivenOnce

LEMMA GivenOnceStep == TypeOK /\ GivenOnce /\ [Next]_vars => GivenOnce'
<1> SUFFICES ASSUME TypeOK, GivenOnce, [Next]_vars PROVE GivenOnce'
  OBVIOUS
<1>t. /\ queue \in Seq(Items) /\ dispatched \in Nat /\ fate \in [Phrases -> {"none", "given"} \union Settled]
      /\ \A i \in DOMAIN queue : queue[i].id \in Phrases
      /\ Speaking => worker.id \in Phrases /\ worker.at # "idle"
      /\ Phrases \subseteq Nat
  <2>1. queue \in Seq(Items)
    BY DEF TypeOK
  <2> QED BY <2>1, QueuePlaces DEF TypeOK, Speaking, Phrases
<1>1. CASE Dispatch
  BY <1>1, <1>t DEF Dispatch, GivenOnce, Speaking
<1>2. CASE Translated
  <2>1. dispatched \in Phrases /\ fate[dispatched] = "none"
    BY <1>2 DEF Translated, GivenOnce, TypeOK
  <2>2. PICK v \in {"untranslated", "given"} : fate' = [fate EXCEPT ![dispatched] = v]
    BY <1>2 DEF Translated
  <2>3. \A p \in Phrases : p # dispatched => fate'[p] = fate[p]
    BY <1>t, <2>2
  <2>4. UNCHANGED <<worker, dispatched>> /\ ~translating'
    BY <1>2 DEF Translated
  <2>5. \A i \in DOMAIN queue : queue[i].id # dispatched
    BY <2>1 DEF GivenOnce
  <2>6. Speaking => worker.id # dispatched
    BY <2>1 DEF GivenOnce
  <2>a. \A i \in DOMAIN queue : fate'[queue[i].id] = "given"
    <3>1. ASSUME NEW i \in DOMAIN queue PROVE fate'[queue[i].id] = "given"
      <4>1. fate[queue[i].id] = "given" /\ queue[i].id # dispatched /\ queue[i].id \in Phrases
        BY <1>t, <2>5 DEF GivenOnce
      <4> QED BY <2>3, <4>1
    <3> QED BY <3>1
  <2>b. ASSUME NEW p \in Phrases, p > dispatched' \/ (p = dispatched' /\ translating') PROVE fate'[p] = "none"
    <3>1. p > dispatched /\ p # dispatched
      BY <1>t, <2>4, <2>b
    <3> QED BY <2>3, <3>1 DEF GivenOnce
  <2>7. CASE queue' = queue
    <3>1. Speaking' => fate'[worker'.id] = "given" /\ \A i \in DOMAIN queue' : queue'[i].id # worker'.id
      BY <1>t, <2>3, <2>4, <2>6, <2>7 DEF GivenOnce, Speaking
    <3> QED BY <2>a, <2>b, <2>7, <3>1 DEF GivenOnce
  <2>8. ASSUME NEW x \in Items, x.id = dispatched, v = "given", queue' = Append(queue, x) PROVE GivenOnce'
    <3>1. \A i \in DOMAIN queue' : (i \in DOMAIN queue /\ queue'[i] = queue[i]) \/ (i = Len(queue) + 1 /\ queue'[i].id = dispatched)
      BY <1>t, <2>8, QueuePlaces
    <3>2. fate'[dispatched] = "given"
      BY <1>t, <2>1, <2>2, <2>8
    <3>3. \A i \in DOMAIN queue' : fate'[queue'[i].id] = "given"
      BY <2>a, <3>1, <3>2
    <3>4. \A i, j \in DOMAIN queue' : i # j => queue'[i].id # queue'[j].id
      BY <2>5, <3>1 DEF GivenOnce
    <3>5. Speaking' => fate'[worker'.id] = "given" /\ \A i \in DOMAIN queue' : queue'[i].id # worker'.id
      BY <1>t, <2>3, <2>4, <2>6, <3>1 DEF GivenOnce, Speaking
    <3> QED BY <2>b, <3>3, <3>4, <3>5 DEF GivenOnce
  <2>9. \A b \in BOOLEAN : [id |-> dispatched, blank |-> b] \in Items /\ [id |-> dispatched, blank |-> b].id = dispatched
    BY <2>1 DEF Items
  <2>10. queue' = queue \/ (v = "given" /\ \E b \in BOOLEAN : queue' = Append(queue, [id |-> dispatched, blank |-> b]))
    <3>1. fate'[dispatched] = v
      BY <1>t, <2>1, <2>2
    <3>2. CASE fate' = [fate EXCEPT ![dispatched] = "untranslated"] /\ UNCHANGED queue
      BY <3>2
    <3>3. CASE fate' = [fate EXCEPT ![dispatched] = "given"]
               /\ \E b \in BOOLEAN : queue' = Append(queue, [id |-> dispatched, blank |-> b])
      BY <1>t, <2>1, <3>1, <3>3
    <3> QED BY <1>2, <3>2, <3>3 DEF Translated
  <2> QED BY <2>7, <2>8, <2>9, <2>10
<1>3. ASSUME NEW p \in Phrases, fate[p] = "given", NEW v \in Settled, fate' = [fate EXCEPT ![p] = v],
             ~Speaking', UNCHANGED phrase,
             \A i \in DOMAIN queue' : queue'[i].id # p /\ fate[queue'[i].id] = "given" /\ queue'[i].id \in Phrases,
             \A i, j \in DOMAIN queue' : i # j => queue'[i].id # queue'[j].id
      PROVE  GivenOnce'
  BY <1>3, <1>t DEF GivenOnce, phrase
<1>4. CASE SkipBlank
  <2>1. ~Speaking' /\ queue # <<>> /\ queue' = Tail(queue)
    BY <1>4 DEF SkipBlank, Speaking
  <2> QED BY <1>3, <1>4, <2>1, Taken DEF SkipBlank, Settled
<1>5. CASE SkipPhrase
  <2>1. ~Speaking' /\ queue # <<>> /\ queue' = Tail(queue)
    BY <1>5 DEF SkipPhrase, Speaking, At
  <2> QED BY <1>3, <1>5, <2>1, Taken DEF SkipPhrase, Settled
<1>6. CASE Speak
  <2>1. queue # <<>> /\ queue' = Tail(queue) /\ worker'.id = Head(queue).id /\ UNCHANGED <<fate, phrase>>
    BY <1>6 DEF Speak, At
  <2> QED BY <2>1, Taken DEF GivenOnce, phrase
<1>7. CASE PushFails \/ Join
  <2>1. Speaking /\ ~Speaking' /\ queue' = queue /\ UNCHANGED phrase
    BY <1>7 DEF PushFails, Join, NoneLeft, Speaking, Idle, At, TypeOK, WorkerStates
  <2>2. PICK v \in Settled : fate' = [fate EXCEPT ![worker.id] = v]
    BY <1>7 DEF PushFails, Join, Settled
  <2>3. worker.id \in Phrases /\ fate[worker.id] = "given"
    BY <1>t, <2>1 DEF GivenOnce
  <2>4. \A i \in DOMAIN queue' : queue'[i].id # worker.id /\ fate[queue'[i].id] = "given" /\ queue'[i].id \in Phrases
    BY <1>t, <2>1 DEF GivenOnce
  <2>5. \A i, j \in DOMAIN queue' : i # j => queue'[i].id # queue'[j].id
    BY <2>1 DEF GivenOnce
  <2> QED BY <1>3, <2>1, <2>2, <2>3, <2>4, <2>5
<1>8. CASE GetFirst \/ GetNext \/ GetWhole \/ Push
  <2>1. worker'.id = worker.id /\ Speaking /\ UNCHANGED <<queue, fate, phrase>>
    BY <1>8 DEF GetFirst, GetNext, GetWhole, Push, Speaking, TypeOK, WorkerStates
  <2> QED BY <2>1 DEF GivenOnce, phrase
<1>9. CASE Persist
  <2>1. ~Speaking' /\ UNCHANGED <<queue, fate, phrase>>
    BY <1>9 DEF Persist, Speaking, Idle, At
  <2> QED BY <2>1 DEF GivenOnce, phrase
<1>10. CASE Produce \/ Produced \/ Render \/ Play \/ UNCHANGED vars
  <2>1. UNCHANGED <<queue, worker, fate, phrase>>
    BY <1>10 DEF Produce, Produced, Render, Play, vars
  <2> QED BY <2>1 DEF GivenOnce, Speaking, phrase
<1> QED BY <1>1, <1>2, <1>4, <1>5, <1>6, <1>7, <1>8, <1>9, <1>10 DEF Next, Work

\* What each step does to what was heard: only a push adds to it, the phrase of
\* the worker that has not been heard yet.
LEMMA HeardGrows ==
  ASSUME TypeOK, [Next]_vars
  PROVE  \/ heard' = heard
         \/ /\ Push /\ ~Heard(worker.id) /\ worker.id \in Phrases
            /\ heard' = Append(heard, worker.id) /\ Close(worker.id)
            /\ \A p \in Phrases : Heard(p)' <=> Heard(p) \/ p = worker.id
<1>1. CASE Push /\ ~Heard(worker.id)
  <2>1. worker.id \in Phrases /\ heard \in Seq(Phrases) /\ heard' = Append(heard, worker.id) /\ Close(worker.id)
    BY <1>1, WorkerTyped DEF Push, TypeOK
  <2>2. /\ Len(heard) \in Nat /\ DOMAIN heard = 1..Len(heard) /\ DOMAIN heard' = 1..(Len(heard) + 1)
        /\ heard'[Len(heard) + 1] = worker.id /\ \A i \in 1..Len(heard) : heard'[i] = heard[i]
    BY <2>1
  <2>3. ASSUME NEW p \in Phrases PROVE Heard(p)' <=> Heard(p) \/ p = worker.id
    <3>1. ASSUME Heard(p)' PROVE Heard(p) \/ p = worker.id
      BY <2>2, <3>1 DEF Heard
    <3>2. ASSUME Heard(p) \/ p = worker.id PROVE Heard(p)'
      BY <2>2, <3>2 DEF Heard
    <3> QED BY <3>1, <3>2
  <2> QED BY <1>1, <2>1, <2>3
<1>2. CASE Push /\ Heard(worker.id)
  BY <1>2 DEF Push
<1>3. CASE Dispatch \/ Translated \/ SkipBlank \/ SkipPhrase \/ Speak \/ GetFirst \/ GetNext \/ GetWhole
  BY <1>3 DEF Dispatch, Translated, SkipBlank, SkipPhrase, Speak, GetFirst, GetNext, GetWhole
<1>4. CASE Join \/ Persist \/ PushFails \/ Produce \/ Produced \/ Render \/ Play \/ UNCHANGED vars
  BY <1>4 DEF Join, Persist, PushFails, Produce, Produced, Render, Play, vars
<1> QED BY <1>1, <1>2, <1>3, <1>4 DEF Next, Work

\* Only the worker's phrase is heard, and it is settled as spoken or failed.
LEMMA HeardSpokenStep == TypeOK /\ GivenOnce /\ HeardSpoken /\ [Next]_vars => HeardSpoken'
<1> SUFFICES ASSUME TypeOK, GivenOnce, HeardSpoken, [Next]_vars PROVE HeardSpoken'
  OBVIOUS
<1>t. fate \in [Phrases -> {"none", "given"} \union Settled]
  BY DEF TypeOK
<1>f. \A p \in Phrases : Heard(p) /\ fate[p] \in {"none", "given"} => Speaking /\ worker.id = p
  BY DEF HeardSpoken
<1>1. ASSUME heard' = heard, UNCHANGED <<fate, worker>> PROVE HeardSpoken'
  BY <1>1 DEF HeardSpoken, Heard, Speaking
<1>2. CASE Dispatch \/ Produce \/ Produced \/ Render \/ Play \/ UNCHANGED vars
  BY <1>1, <1>2 DEF Dispatch, Produce, Produced, Render, Play, vars
<1>3. CASE Translated
  <2>1. dispatched \in Phrases /\ fate[dispatched] = "none" /\ UNCHANGED <<heard, worker>>
    BY <1>3 DEF Translated, GivenOnce, TypeOK
  <2>2. \A p \in Phrases : p # dispatched => fate'[p] = fate[p]
    BY <1>3, <1>t DEF Translated
  <2>3. ~Heard(dispatched)
    BY <1>f, <2>1 DEF GivenOnce
  <2> QED BY <2>1, <2>2, <2>3 DEF HeardSpoken, Heard, Speaking
<1>4. CASE SkipBlank \/ SkipPhrase
  <2>1. worker.at = "idle" /\ queue # <<>> /\ queue' = Tail(queue) /\ heard' = heard
    BY <1>4 DEF SkipBlank, SkipPhrase
  <2>2. Head(queue).id \in Phrases /\ fate[Head(queue).id] = "given"
    BY <2>1, Taken
  <2>3. \A p \in Phrases : p # Head(queue).id => fate'[p] = fate[p]
    BY <1>4, <1>t, <2>2 DEF SkipBlank, SkipPhrase
  <2>4. ~Heard(Head(queue).id) /\ ~Speaking
    BY <1>f, <2>1, <2>2 DEF Speaking
  <2> QED BY <2>1, <2>3, <2>4 DEF HeardSpoken, Heard
<1>5. CASE Speak
  <2>1. ~Speaking /\ UNCHANGED <<heard, fate>>
    BY <1>5 DEF Speak, Speaking
  <2> QED BY <2>1 DEF HeardSpoken, Heard
<1>6. CASE PushFails \/ Join
  <2>1. Speaking /\ worker.id \in Phrases /\ heard' = heard
    BY <1>6, WorkerTyped DEF PushFails, Join, NoneLeft, Speaking
  <2>2. PICK v \in {"spoken", "failed"} : fate' = [fate EXCEPT ![worker.id] = v]
    BY <1>6 DEF PushFails, Join
  <2>3. fate'[worker.id] \in {"spoken", "failed"} /\ \A p \in Phrases : p # worker.id => fate'[p] = fate[p]
    BY <1>t, <2>1, <2>2
  <2> QED BY <2>1, <2>3 DEF HeardSpoken, Heard
<1>7. CASE Persist
  <2>1. ~Speaking /\ UNCHANGED <<heard, fate>>
    BY <1>7 DEF Persist, Speaking
  <2> QED BY <2>1 DEF HeardSpoken, Heard
<1>8. CASE GetFirst \/ GetNext \/ GetWhole \/ Push
  <2>1. worker'.id = worker.id /\ Speaking' /\ fate' = fate
    <3>1. worker \in WorkerStates
      BY DEF TypeOK
    <3> QED BY <1>8, <3>1 DEF GetFirst, GetNext, GetWhole, Push, Speaking, WorkerStates
  <2>2. \A p \in Phrases : Heard(p)' => Heard(p) \/ p = worker.id
    BY <1>8, HeardGrows DEF Heard, Next, Work
  <2> QED BY <2>1, <2>2 DEF HeardSpoken
<1> QED BY <1>2, <1>3, <1>4, <1>5, <1>6, <1>7, <1>8 DEF Next, Work

\* A trace is open until its phrase is heard, and by then it has every mark.
LEMMA MarkedStep == TypeOK /\ GivenOnce /\ HeardSpoken /\ Marked /\ [Next]_vars => Marked'
<1> SUFFICES ASSUME TypeOK, GivenOnce, HeardSpoken, Marked, [Next]_vars PROVE Marked'
  OBVIOUS
<1>t. /\ dispatched \in Nat /\ dispatched <= MaxPhrases /\ translating \in BOOLEAN
      /\ fate \in [Phrases -> {"none", "given"} \union Settled]
      /\ marks \in [Phrases -> SUBSET Stages]
      /\ worker \in WorkerStates
  BY DEF TypeOK
<1>n. \A p \in Phrases : Heard(p) => fate[p] # "none" /\ p <= dispatched
  <2>1. ASSUME NEW p \in Phrases, Heard(p) PROVE fate[p] # "none"
    BY <2>1 DEF HeardSpoken, GivenOnce
  <2>2. \A p \in Phrases : p \in Nat
    BY DEF Phrases
  <2> QED BY <1>t, <2>1, <2>2 DEF GivenOnce
<1>1. CASE Dispatch
  <2>1. /\ dispatched' = dispatched + 1 /\ dispatched' \in Phrases /\ OpenChunk(dispatched')
        /\ UNCHANGED <<worker, fate, heard>> /\ translating' = TRUE
    BY <1>1, <1>t DEF Dispatch, Phrases
  <2>2. open' = open \union {dispatched'} /\ marks' = [marks EXCEPT ![dispatched'] = {"committed"}]
    BY <2>1 DEF OpenChunk
  <2>3. fate[dispatched'] = "none" /\ ~Heard(dispatched')
    BY <1>t, <1>n, <2>1 DEF GivenOnce
  <2>4. \A p \in Phrases : Heard(p)' <=> Heard(p)
    BY <2>1 DEF Heard
  <2>5. open' = {p \in 1..dispatched' : ~Heard(p)'}
    <3>1. 1..dispatched' = 1..dispatched \union {dispatched'}
      BY <1>t, <2>1
    <3> QED BY <2>1, <2>2, <2>3, <3>1 DEF Marked, Heard
  <2>6. marks'[dispatched'] = {"committed"} /\ \A p \in Phrases : p # dispatched' => marks'[p] = marks[p]
    BY <1>t, <2>1, <2>2
  <2>7. \A p \in Phrases : fate'[p] = "given" => {"committed", "translated"} \subseteq marks'[p]
    BY <2>1, <2>3, <2>6 DEF Marked
  <2>8. (worker.at = "pushing" /\ ~Heard(worker.id) => "first_audio" \in marks[worker.id])'
    <3>1. worker.at = "pushing" => worker.id \in Phrases /\ worker.id # dispatched'
      BY <2>3 DEF GivenOnce, Speaking, TypeOK
    <3>2. Heard(worker.id)' <=> Heard(worker.id)
      BY <2>1 DEF Heard
    <3> QED BY <2>1, <2>6, <3>1, <3>2 DEF Marked
  <2>9. \A p \in Phrases : Heard(p)' => marks'[p] = Stages
    BY <2>3, <2>4, <2>6 DEF Marked
  <2>10. translating' => "committed" \in marks'[dispatched']
    BY <2>6
  <2> QED BY <2>5, <2>7, <2>8, <2>9, <2>10 DEF Marked
<1>2. CASE Translated
  <2>1. /\ dispatched \in Phrases /\ fate[dispatched] = "none" /\ translating /\ ~translating'
        /\ UNCHANGED <<dispatched, worker, heard>>
    BY <1>2 DEF Translated, GivenOnce, TypeOK
  <2>2. ~Heard(dispatched) /\ dispatched \in open
    BY <1>n, <2>1 DEF Marked, Phrases
  <2>3. \A p \in Phrases : p # dispatched => fate'[p] = fate[p]
    BY <1>2, <1>t, <2>1 DEF Translated
  <2>4. \A p \in Phrases : Heard(p)' <=> Heard(p)
    BY <2>1 DEF Heard
  <2>5. CASE fate' = [fate EXCEPT ![dispatched] = "untranslated"] /\ UNCHANGED recorder
    <3>1. fate'[dispatched] # "given"
      BY <1>t, <2>1, <2>5
    <3> QED BY <2>1, <2>3, <2>4, <2>5, <3>1 DEF Marked, recorder, Heard
  <2>6. CASE Mark(dispatched, "translated")
    <3>1. marks' = [marks EXCEPT ![dispatched] = @ \union {"translated"}] /\ open' = open
      BY <2>2, <2>6 DEF Mark
    <3>2. marks'[dispatched] = marks[dispatched] \union {"translated"} /\ \A p \in Phrases : p # dispatched => marks'[p] = marks[p]
      BY <1>t, <2>1, <3>1
    <3>3. \A p \in Phrases : fate'[p] = "given" => {"committed", "translated"} \subseteq marks'[p]
      BY <2>1, <2>3, <3>2 DEF Marked
    <3>4. worker.at = "pushing" => worker.id \in Phrases /\ worker.id # dispatched
      BY <2>1 DEF GivenOnce, Speaking, TypeOK
    <3>5. (worker.at = "pushing" /\ ~Heard(worker.id) => "first_audio" \in marks[worker.id])'
      <4>1. Heard(worker.id)' <=> Heard(worker.id)
        BY <2>1 DEF Heard
      <4> QED BY <2>1, <3>2, <3>4, <4>1 DEF Marked
    <3>6. \A p \in Phrases : Heard(p)' => marks'[p] = Stages
      BY <2>2, <2>4, <3>2 DEF Marked
    <3>7. open' = {p \in 1..dispatched' : ~Heard(p)'}
      BY <2>1, <3>1 DEF Marked, Heard
    <3> QED BY <2>1, <3>3, <3>5, <3>6, <3>7 DEF Marked
  <2> QED BY <1>2, <2>5, <2>6 DEF Translated
<1>3. ASSUME UNCHANGED <<recorder, phrase, heard>>,
             \A p \in Phrases : fate'[p] = "given" => fate[p] = "given",
             worker'.at = "pushing" => worker' = worker
      PROVE  Marked'
  BY <1>3 DEF Marked, recorder, phrase, Heard
<1>4. CASE SkipBlank \/ SkipPhrase
  <2>1. UNCHANGED <<recorder, phrase, heard>> /\ (worker'.at = "pushing" => worker' = worker)
    BY <1>4 DEF SkipBlank, SkipPhrase, At
  <2>2. Head(queue).id \in Phrases
    BY <1>4, HeadIsPhrase DEF SkipBlank, SkipPhrase
  <2>3. \A p \in Phrases : fate'[p] = "given" => fate[p] = "given"
    BY <1>4, <1>t, <2>2 DEF SkipBlank, SkipPhrase
  <2> QED BY <1>3, <2>1, <2>3
<1>5. CASE Speak \/ GetFirst \/ Persist
  <2>1. UNCHANGED <<recorder, phrase, heard, fate>> /\ worker'.at # "pushing"
    <3>1. CASE Speak
      BY <3>1 DEF Speak, At
    <3>2. CASE GetFirst
      <4>1. worker'.at \in {"joining", "ahead"}
        BY <1>t, <3>2 DEF GetFirst, WorkerStates
      <4> QED BY <3>2, <4>1 DEF GetFirst
    <3>3. CASE Persist
      BY <3>3 DEF Persist, Idle, At
    <3> QED BY <1>5, <3>1, <3>2, <3>3
  <2> QED BY <1>3, <2>1
<1>6. CASE PushFails \/ Join
  <2>1. UNCHANGED <<recorder, phrase, heard>> /\ worker'.at # "pushing"
    BY <1>6, <1>t DEF PushFails, Join, Idle, At, WorkerStates
  <2>2. worker.id \in Phrases
    BY <1>6, WorkerTyped DEF PushFails, Join, NoneLeft
  <2>3. \A p \in Phrases : fate'[p] = "given" => fate[p] = "given"
    BY <1>6, <1>t, <2>2 DEF PushFails, Join
  <2> QED BY <1>3, <2>1, <2>3
<1>7. CASE GetNext \/ GetWhole
  <2>1. /\ Speaking /\ worker.id \in Phrases /\ worker'.id = worker.id /\ worker'.at = "pushing"
        /\ UNCHANGED <<phrase, heard, fate>>
    BY <1>7, <1>t, WorkerTyped DEF GetNext, GetWhole, Speaking, WorkerStates
  <2>2. \A p \in Phrases : Heard(p)' <=> Heard(p)
    BY <2>1 DEF Heard
  <2>3. CASE Heard(worker.id) /\ UNCHANGED recorder
    BY <2>1, <2>2, <2>3 DEF Marked, recorder, phrase, Heard
  <2>4. CASE Mark(worker.id, "first_audio")
    <3>1. fate[worker.id] = "given" /\ worker.id \in Nat /\ worker.id # 0
      BY <2>1 DEF GivenOnce, Phrases
    <3>2. worker.id \in 1..dispatched
      BY <1>t, <2>1, <3>1 DEF GivenOnce
    <3>3. ~Heard(worker.id) => worker.id \in open
      BY <3>2 DEF Marked
    <3>4. open' = open /\ \A p \in Phrases : marks[p] \subseteq marks'[p] /\ marks'[p] \subseteq Stages
      BY <1>t, <2>1, <2>4 DEF Mark, Stages
    <3>5. ~Heard(worker.id) => "first_audio" \in marks'[worker.id]
      BY <1>t, <2>1, <2>4, <3>3 DEF Mark
    <3>6. \A p \in Phrases : fate'[p] = "given" => {"committed", "translated"} \subseteq marks'[p]
      BY <2>1, <3>4 DEF Marked
    <3>7. \A p \in Phrases : Heard(p)' => marks'[p] = Stages
      BY <2>2, <3>4 DEF Marked
    <3>8. open' = {p \in 1..dispatched' : ~Heard(p)'}
      BY <2>1, <3>4 DEF Marked, Heard, phrase
    <3>9. translating' => "committed" \in marks'[dispatched']
      BY <2>1, <3>4 DEF Marked, phrase, TypeOK
    <3> QED BY <2>1, <2>2, <3>5, <3>6, <3>7, <3>8, <3>9 DEF Marked
  <2> QED BY <1>7, <2>3, <2>4 DEF GetNext, GetWhole
<1>8. CASE Push
  <2>1. worker.id \in Phrases /\ worker'.at # "pushing" /\ UNCHANGED <<phrase, fate>>
    BY <1>8, <1>t, WorkerTyped DEF Push, WorkerStates
  <2>2. CASE Heard(worker.id)
    BY <1>3, <1>8, <2>1, <2>2 DEF Push
  <2>3. CASE ~Heard(worker.id)
    <3>1. Close(worker.id) /\ \A p \in Phrases : Heard(p)' <=> Heard(p) \/ p = worker.id
      BY <1>8, <2>3, HeardGrows DEF Push, Next, Work, Heard
    <3>2. /\ marks'[worker.id] = marks[worker.id] \union {"published"} /\ open' = open \ {worker.id}
          /\ \A p \in Phrases : p # worker.id => marks'[p] = marks[p]
      BY <1>t, <2>1, <3>1 DEF Close
    <3>3. fate[worker.id] = "given"
      BY <1>8 DEF GivenOnce, Push, Speaking
    <3>4. marks'[worker.id] = Stages
      <4>1. {"committed", "translated", "first_audio"} \subseteq marks[worker.id] /\ marks[worker.id] \subseteq Stages
        BY <1>8, <1>t, <2>1, <2>3, <3>3 DEF Marked, Push
      <4> QED BY <3>2, <4>1 DEF Stages
    <3>5. \A p \in Phrases : Heard(p)' => marks'[p] = Stages
      BY <3>1, <3>2, <3>4 DEF Marked
    <3>6. \A p \in Phrases : fate'[p] = "given" => {"committed", "translated"} \subseteq marks'[p]
      BY <2>1, <3>2 DEF Marked
    <3>7. \A p \in 1..dispatched : p \in Phrases
      BY <1>t DEF Phrases
    <3>8. open' = {p \in 1..dispatched' : ~Heard(p)'}
      <4>1. \A p \in 1..dispatched : ~Heard(p)' <=> ~Heard(p) /\ p # worker.id
        BY <3>1, <3>7
      <4> QED BY <2>1, <3>2, <4>1 DEF Marked, phrase
    <3>9. translating' => "committed" \in marks'[dispatched']
      <4>1. translating => dispatched \in Phrases
        BY DEF TypeOK
      <4> QED BY <2>1, <3>2, <4>1 DEF Marked, phrase
    <3> QED BY <2>1, <3>5, <3>6, <3>8, <3>9 DEF Marked
  <2> QED BY <2>2, <2>3
<1>9. CASE Produce \/ Produced \/ Render \/ Play \/ UNCHANGED vars
  <2>1. UNCHANGED <<recorder, phrase, heard, fate, worker>>
    BY <1>9 DEF Produce, Produced, Render, Play, vars
  <2> QED BY <1>3, <2>1
<1> QED BY <1>1, <1>2, <1>4, <1>5, <1>6, <1>7, <1>8, <1>9 DEF Next, Work

\* The newest of a longer history are the newest of those kept and the new one.
LEMMA NewestOfAppend ==
  ASSUME NEW s \in Seq(Phrases), NEW p \in Phrases
  PROVE  Capped(Newest(s), p) = Newest(Append(s, p))
<1> DEFINE n == Len(s)
           from == 1 + Greater(0, n - SampleCap)
           kept == Newest(s)
           all == Append(kept, p)
           hist == Append(s, p)
<1>1. n \in Nat /\ from \in 1..(n + 1) /\ s \in [1..n -> Phrases]
  BY DEF Greater
<1>2. /\ kept \in Seq(Phrases) /\ Len(kept) = n - from + 1
      /\ \A i \in 1..Len(kept) : kept[i] = s[from + i - 1]
  <2>1. \A i \in from..n : s[i] \in Phrases
    BY <1>1
  <2>2. kept = SubSeq(s, from, n) /\ from \in Int /\ n \in Int
    BY <1>1 DEF Newest
  <2> HIDE DEF kept, from, n
  <2> QED BY <1>1, <2>1, <2>2, SubSeqProperties
<1> HIDE DEF kept
<1>3. /\ all \in Seq(Phrases) /\ Len(all) = n - from + 2
      /\ all[n - from + 2] = p
      /\ \A i \in 1..(n - from + 1) : all[i] = s[from + i - 1]
  <2>1. /\ all \in Seq(Phrases) /\ Len(all) = Len(kept) + 1 /\ all[Len(kept) + 1] = p
        /\ \A i \in 1..Len(kept) : all[i] = kept[i]
    BY <1>2
  <2>2. Len(kept) = n - from + 1 /\ Len(kept) + 1 = n - from + 2
    BY <1>1, <1>2
  <2> QED BY <1>2, <2>1, <2>2
<1>4. /\ hist \in Seq(Phrases) /\ Len(hist) = n + 1 /\ hist[n + 1] = p
      /\ \A i \in 1..n : hist[i] = s[i]
  OBVIOUS
<1> DEFINE a == 1 + Greater(0, Len(all) - SampleCap)
           b == 1 + Greater(0, Len(hist) - SampleCap)
<1>5. a \in Nat /\ b \in Nat /\ a >= 1 /\ b = from + a - 1 /\ a <= n - from + 2
  <2>1. n \in Nat /\ SampleCap \in Nat \ {0}
    BY <1>1
  <2>2. a = 1 + Greater(0, (n - from + 2) - SampleCap) /\ b = 1 + Greater(0, (n + 1) - SampleCap)
    BY <1>3, <1>4
  <2> HIDE DEF n, a, b
  <2>3. CASE n >= SampleCap
    <3>1. from = 1 + n - SampleCap
      BY <2>1, <2>3 DEF Greater
    <3> HIDE DEF from
    <3>2. a = 2 /\ b = n + 2 - SampleCap
      BY <2>1, <2>2, <2>3, <3>1 DEF Greater
    <3> QED BY <2>1, <2>3, <3>1, <3>2
  <2>4. CASE n < SampleCap
    <3>1. from = 1
      BY <2>1, <2>4 DEF Greater
    <3> HIDE DEF from
    <3>2. a = 1 /\ b = 1
      BY <2>1, <2>2, <2>4, <3>1 DEF Greater
    <3> QED BY <2>1, <2>4, <3>1, <3>2
  <2> QED BY <2>1, <2>3, <2>4
<1>6. \A i \in 1..(n - from + 2) : all[i] = hist[from + i - 1]
  <2>1. ASSUME NEW i \in 1..(n - from + 2) PROVE all[i] = hist[from + i - 1]
    <3>1. CASE i = n - from + 2
      <4>1. from + i - 1 = n + 1
        BY <1>1, <3>1
      <4> QED BY <1>3, <1>4, <3>1, <4>1
    <3>2. CASE i # n - from + 2
      <4>1. i \in 1..(n - from + 1) /\ from + i - 1 \in 1..n
        BY <1>1, <2>1, <3>2
      <4> QED BY <1>3, <1>4, <4>1
    <3> QED BY <3>1, <3>2
  <2> QED BY <2>1
<1>7. Capped(Newest(s), p) = SubSeq(all, a, Len(all)) /\ Newest(hist) = SubSeq(hist, b, Len(hist))
  BY DEF Capped, Newest, kept
<1> HIDE DEF all, hist, a, b, from, n
<1> DEFINE l == SubSeq(all, a, Len(all))
           r == SubSeq(hist, b, Len(hist))
<1>8. /\ l \in Seq(Phrases) /\ Len(l) = n - from + 3 - a
      /\ \A i \in 1..Len(l) : l[i] = all[a + i - 1]
  <2>1. Len(all) \in Int /\ a \in Int /\ a <= Len(all) /\ \A i \in a..Len(all) : all[i] \in Phrases
    BY <1>1, <1>3, <1>5
  <2>2. /\ l \in Seq(Phrases) /\ Len(l) = Len(all) - a + 1
        /\ \A i \in 1..(Len(all) - a + 1) : l[i] = all[a + i - 1]
    BY <2>1, SubSeqProperties
  <2>3. Len(all) - a + 1 = n - from + 3 - a
    BY <1>1, <1>3, <1>5
  <2> QED BY <2>2, <2>3
<1>9. /\ r \in Seq(Phrases) /\ Len(r) = n - from + 3 - a
      /\ \A i \in 1..Len(r) : r[i] = hist[b + i - 1]
  <2>1. Len(hist) \in Int /\ b \in Int /\ b <= Len(hist) /\ \A i \in b..Len(hist) : hist[i] \in Phrases
    BY <1>1, <1>4, <1>5
  <2>2. /\ r \in Seq(Phrases) /\ Len(r) = Len(hist) - b + 1
        /\ \A i \in 1..(Len(hist) - b + 1) : r[i] = hist[b + i - 1]
    BY <2>1, SubSeqProperties
  <2>3. Len(hist) - b + 1 = n - from + 3 - a
    BY <1>1, <1>4, <1>5
  <2> QED BY <2>2, <2>3
<1> HIDE DEF l, r
<1>10. \A i \in 1..Len(l) : l[i] = r[i]
  <2>1. ASSUME NEW i \in 1..Len(l) PROVE l[i] = r[i]
    <3>1. a + i - 1 \in 1..(n - from + 2) /\ from + (a + i - 1) - 1 = b + i - 1 /\ i \in 1..Len(r)
      BY <1>1, <1>5, <1>8, <1>9, <2>1
    <3>2. all[a + i - 1] = hist[b + i - 1]
      BY <1>6, <3>1
    <3> QED BY <1>8, <1>9, <2>1, <3>1, <3>2
  <2> QED BY <2>1
<1>11. l = r
  BY <1>8, <1>9, <1>10, SeqEqual
<1> QED BY <1>7, <1>11 DEF l, r, hist, n

LEMMA NewestStep == TypeOK /\ samples = Newest(heard) /\ [Next]_vars => samples' = Newest(heard')
<1> SUFFICES ASSUME TypeOK, samples = Newest(heard), [Next]_vars PROVE samples' = Newest(heard')
  OBVIOUS
<1>1. CASE Push /\ ~Heard(worker.id)
  <2>1. worker.id \in Phrases /\ heard' = Append(heard, worker.id) /\ samples' = Capped(samples, worker.id)
    BY <1>1, WorkerTyped DEF Push, Close
  <2> QED BY <2>1, NewestOfAppend DEF TypeOK
<1>2. CASE UNCHANGED <<samples, heard>>
  BY <1>2
<1>3. CASE Dispatch \/ Translated \/ SkipBlank \/ SkipPhrase \/ Speak \/ GetFirst \/ GetNext \/ GetWhole
  BY <1>2, <1>3 DEF Dispatch, Translated, SkipBlank, SkipPhrase, Speak, GetFirst, GetNext, GetWhole, OpenChunk, Mark, recorder
<1>4. CASE Join \/ Persist \/ PushFails \/ Produce \/ Produced \/ Render \/ Play \/ UNCHANGED vars \/ (Push /\ Heard(worker.id))
  BY <1>2, <1>4 DEF Join, Persist, PushFails, Produce, Produced, Render, Play, Push, vars, recorder
<1> QED BY <1>1, <1>3, <1>4 DEF Next, Work

\* A skipped phrase was given until then, so the count grows with the set.
LEMMA CountedStep == TypeOK /\ GivenOnce /\ Counted /\ [Next]_vars => Counted'
<1> SUFFICES ASSUME TypeOK, GivenOnce, Counted, [Next]_vars PROVE Counted'
  OBVIOUS
<1>t. fate \in [Phrases -> {"none", "given"} \union Settled] /\ drift \in DriftStates
  BY DEF TypeOK
<1>f. IsFiniteSet(SkippedPhrases)
  <2>1. IsFiniteSet(Phrases)
    BY FS_Interval DEF Phrases
  <2> QED BY <2>1, FS_Subset DEF SkippedPhrases
<1>1. CASE SkipPhrase
  <2>1. Head(queue).id \in Phrases /\ fate[Head(queue).id] = "given"
    BY <1>1, Taken DEF SkipPhrase
  <2>2. SkippedPhrases' = SkippedPhrases \union {Head(queue).id} /\ Head(queue).id \notin SkippedPhrases
    BY <1>1, <1>t, <2>1 DEF SkipPhrase, SkippedPhrases
  <2>3. Cardinality(SkippedPhrases') = Cardinality(SkippedPhrases) + 1
    BY <1>f, <2>2, FS_AddElement
  <2>4. drift'.skipped = drift.skipped + 1
    <3>1. Observed \in DriftStates /\ Observed.skipped = drift.skipped
      BY ObservedTyped
    <3> QED BY <1>1, <3>1 DEF SkipPhrase, DriftStates
  <2> QED BY <2>3, <2>4 DEF Counted
<1>2. ASSUME drift'.skipped = drift.skipped, \A p \in Phrases : fate'[p] = "skipped" <=> fate[p] = "skipped"
      PROVE  Counted'
  <2>1. SkippedPhrases' = SkippedPhrases
    BY <1>2 DEF SkippedPhrases
  <2> QED BY <1>2, <2>1 DEF Counted
<1>3. ASSUME drift' = drift, NEW p \in Phrases, fate[p] # "skipped", NEW v, v # "skipped", fate' = [fate EXCEPT ![p] = v]
      PROVE  Counted'
  <2>1. \A q \in Phrases : fate'[q] = "skipped" <=> fate[q] = "skipped"
    BY <1>3, <1>t
  <2> QED BY <1>2, <1>3, <2>1
<1>4. CASE Translated
  <2>1. dispatched \in Phrases /\ fate[dispatched] # "skipped"
    BY <1>4 DEF Translated, GivenOnce, TypeOK
  <2> QED BY <1>3, <1>4, <2>1 DEF Translated
<1>5. CASE SkipBlank
  <2>1. Head(queue).id \in Phrases /\ fate[Head(queue).id] = "given"
    BY <1>5, Taken DEF SkipBlank
  <2> QED BY <1>3, <1>5, <2>1 DEF SkipBlank
<1>6. CASE Speak
  <2>1. Observed \in DriftStates /\ Observed.skipped = drift.skipped /\ drift' = WithSpeed(Observed)
    BY <1>6, ObservedTyped DEF Speak
  <2>2. drift'.skipped = drift.skipped
    BY <2>1 DEF WithSpeed, DriftStates
  <2> QED BY <1>2, <1>6, <2>2 DEF Speak
<1>7. CASE PushFails \/ Join
  <2>1. worker.id \in Phrases /\ fate[worker.id] = "given"
    BY <1>7, WorkerTyped DEF PushFails, Join, NoneLeft, GivenOnce, Speaking
  <2> QED BY <1>3, <1>7, <2>1 DEF PushFails, Join
<1>8. CASE UNCHANGED <<drift, fate>>
  BY <1>2, <1>8
<1> QED
  <2>1. CASE Dispatch \/ GetFirst \/ GetNext \/ GetWhole \/ Push \/ Persist
    BY <1>8, <2>1 DEF Dispatch, GetFirst, GetNext, GetWhole, Push, Persist
  <2>2. CASE Produce \/ Produced \/ Render \/ Play \/ UNCHANGED vars
    BY <1>8, <2>2 DEF Produce, Produced, Render, Play, vars
  <2> QED BY <1>1, <1>4, <1>5, <1>6, <1>7, <2>1, <2>2 DEF Next, Work

\* The places of the pipe after a block is put or taken.
LEMMA PipePlaces ==
  ASSUME NEW q \in Seq(0..LongestBlock)
  PROVE  /\ Len(q) \in Nat /\ DOMAIN q = 1..Len(q) /\ \A i \in DOMAIN q : q[i] \in 0..LongestBlock
         /\ \A x \in 0..LongestBlock :
              /\ Append(q, x) \in Seq(0..LongestBlock) /\ Append(q, x) # <<>>
              /\ Len(Append(q, x)) = Len(q) + 1 /\ DOMAIN Append(q, x) = 1..(Len(q) + 1)
              /\ Append(q, x)[Len(q) + 1] = x
              /\ \A i \in 1..Len(q) : Append(q, x)[i] = q[i]
         /\ q = <<>> <=> Len(q) = 0
         /\ q # <<>> => /\ Len(q) > 0 /\ Head(q) = q[1]
                        /\ Tail(q) \in Seq(0..LongestBlock)
                        /\ Len(Tail(q)) = Len(q) - 1 /\ DOMAIN Tail(q) = 1..(Len(q) - 1)
                        /\ \A i \in 1..(Len(q) - 1) : Tail(q)[i] = q[i + 1]
                        /\ Tail(q) = <<>> <=> Len(q) = 1
<1>1. /\ Len(q) \in Nat /\ DOMAIN q = 1..Len(q) /\ \A i \in DOMAIN q : q[i] \in 0..LongestBlock
  OBVIOUS
<1>2. ASSUME NEW x \in 0..LongestBlock
      PROVE  /\ Append(q, x) \in Seq(0..LongestBlock)
             /\ Len(Append(q, x)) = Len(q) + 1 /\ DOMAIN Append(q, x) = 1..(Len(q) + 1)
             /\ Append(q, x)[Len(q) + 1] = x
             /\ \A i \in 1..Len(q) : Append(q, x)[i] = q[i]
  OBVIOUS
<1>3. \A r \in Seq(0..LongestBlock) : r = <<>> <=> Len(r) = 0
  BY EmptySeq
<1>4. \A x \in 0..LongestBlock : Append(q, x) # <<>>
  BY <1>1, <1>2, <1>3
<1>5. ASSUME q # <<>>
      PROVE  /\ Len(q) > 0 /\ Head(q) = q[1]
             /\ Tail(q) \in Seq(0..LongestBlock)
             /\ Len(Tail(q)) = Len(q) - 1 /\ DOMAIN Tail(q) = 1..(Len(q) - 1)
             /\ \A i \in 1..(Len(q) - 1) : Tail(q)[i] = q[i + 1]
  BY <1>5
<1>6. q # <<>> => (Tail(q) = <<>> <=> Len(q) = 1)
  BY <1>1, <1>3, <1>5
<1> QED BY <1>1, <1>2, <1>3, <1>4, <1>5, <1>6

\* The None is the last of the pipe, and nothing is left once it was taken.
LEMMA PipedStep == TypeOK /\ Piped /\ [Next]_vars => Piped'
<1> SUFFICES ASSUME TypeOK, Piped, [Next]_vars PROVE Piped'
  OBVIOUS
<1>t. /\ pipe \in Seq(0..LongestBlock) /\ Len(pipe) \in Nat /\ DOMAIN pipe = 1..Len(pipe)
      /\ worker \in WorkerStates /\ thread \in ThreadStates /\ streams \in BOOLEAN
      /\ thread.at \in {"off", "working", "done", "failed"}
  BY PipePlaces DEF TypeOK, ThreadStates
<1> USE DEF Expecting, Ended, Speaking
<1>1. CASE UNCHANGED <<worker, thread, pipe, since, streams>>
  BY <1>1 DEF Piped
<1>2. CASE SkipPhrase \/ PushFails \/ Join \/ Persist
  <2>1. worker'.at \in {"idle", "recording"}
    BY <1>2, <1>t DEF SkipPhrase, PushFails, Join, Persist, Idle, At, WorkerStates
  <2> QED BY <2>1 DEF Piped
<1>3. CASE Speak
  <2>1. /\ worker' = At(IF streams THEN "first" ELSE "whole", Head(queue).id)
        /\ thread'.at = "working" /\ pipe' = <<>> /\ since' = 0 /\ streams' = streams
    BY <1>3 DEF Speak
  <2>2. worker'.at = (IF streams THEN "first" ELSE "whole") /\ worker'.block = 0 /\ worker'.next = 0
    BY <2>1 DEF At
  <2>3. DOMAIN pipe' = {}
    BY <2>1
  <2> QED BY <1>t, <2>1, <2>2, <2>3 DEF Piped
<1>4. CASE GetFirst
  <2>1. /\ worker.at = "first" /\ pipe # <<>> /\ pipe' = Tail(pipe)
        /\ UNCHANGED <<thread, since, streams>>
        /\ worker' = IF Head(pipe) = 0 THEN [worker EXCEPT !.at = "joining"]
                     ELSE [worker EXCEPT !.at = "ahead", !.block = Head(pipe)]
    BY <1>4 DEF GetFirst
  <2>2. worker.block = 0 /\ worker.next = 0 /\ streams
        /\ (\A i \in DOMAIN pipe : pipe[i] = 0 <=> (thread.at # "working" /\ i = Len(pipe)))
    BY <2>1 DEF Piped
  <2>3. /\ Len(pipe) > 0 /\ Head(pipe) = pipe[1] /\ DOMAIN pipe' = 1..(Len(pipe) - 1) /\ Len(pipe') = Len(pipe) - 1
        /\ (\A i \in 1..(Len(pipe) - 1) : pipe'[i] = pipe[i + 1]) /\ (pipe' = <<>> <=> Len(pipe) = 1)
    BY <1>t, <2>1, PipePlaces
  <2>4. CASE Head(pipe) = 0
    <3>1. Len(pipe) = 1 /\ thread.at # "working"
      BY <1>t, <2>2, <2>3, <2>4
    <3>2. worker'.at = "joining" /\ worker'.block = 0 /\ worker'.next = 0
      BY <1>t, <2>1, <2>2, <2>4 DEF WorkerStates
    <3>3. thread.at \in {"done", "failed"}
      BY <1>4, <1>t, <3>1 DEF GetFirst, Piped
    <3> QED BY <2>1, <2>3, <3>1, <3>2, <3>3 DEF Piped
  <2>5. CASE Head(pipe) # 0
    <3>1. worker'.at = "ahead" /\ worker'.next = 0
      BY <1>t, <2>1, <2>2, <2>5 DEF WorkerStates
    <3>2. thread.at # "working" => Len(pipe) # 1
      BY <1>t, <2>2, <2>3, <2>5
    <3>3. ASSUME NEW i \in DOMAIN pipe' PROVE pipe'[i] = 0 <=> (thread.at # "working" /\ i = Len(pipe'))
      <4>1. i \in Nat /\ i + 1 \in DOMAIN pipe /\ pipe'[i] = pipe[i + 1] /\ (i + 1 = Len(pipe) <=> i = Len(pipe'))
        BY <1>t, <2>3, <3>3
      <4> QED BY <2>2, <4>1
    <3> QED BY <2>1, <2>2, <2>3, <3>1, <3>2, <3>3 DEF Piped
  <2> QED BY <2>4, <2>5
<1>5. CASE GetNext
  <2>1. /\ worker.at = "ahead" /\ pipe # <<>> /\ pipe' = Tail(pipe)
        /\ UNCHANGED <<thread, since, streams>>
        /\ worker' = [worker EXCEPT !.at = "pushing", !.next = Head(pipe)]
    BY <1>5 DEF GetNext
  <2>2. worker.next = 0 /\ streams
        /\ (\A i \in DOMAIN pipe : pipe[i] = 0 <=> (thread.at # "working" /\ i = Len(pipe)))
    BY <2>1 DEF Piped
  <2>3. /\ Len(pipe) > 0 /\ Head(pipe) = pipe[1] /\ DOMAIN pipe' = 1..(Len(pipe) - 1) /\ Len(pipe') = Len(pipe) - 1
        /\ (\A i \in 1..(Len(pipe) - 1) : pipe'[i] = pipe[i + 1]) /\ (pipe' = <<>> <=> Len(pipe) = 1)
    BY <1>t, <2>1, PipePlaces
  <2>4. worker'.at = "pushing" /\ worker'.next = Head(pipe)
    BY <1>t, <2>1 DEF WorkerStates
  <2>5. CASE Head(pipe) = 0
    <3>1. Len(pipe) = 1 /\ thread.at # "working"
      BY <1>t, <2>2, <2>3, <2>5
    <3>2. thread.at \in {"done", "failed"}
      BY <1>5, <1>t, <3>1 DEF GetNext, Piped
    <3> QED BY <2>1, <2>3, <2>4, <2>5, <3>1, <3>2 DEF Piped
  <2>6. CASE Head(pipe) # 0
    <3>1. thread.at # "working" => Len(pipe) # 1
      BY <1>t, <2>2, <2>3, <2>6
    <3>2. ASSUME NEW i \in DOMAIN pipe' PROVE pipe'[i] = 0 <=> (thread.at # "working" /\ i = Len(pipe'))
      <4>1. i \in Nat /\ i + 1 \in DOMAIN pipe /\ pipe'[i] = pipe[i + 1] /\ (i + 1 = Len(pipe) <=> i = Len(pipe'))
        BY <1>t, <2>3, <3>2
      <4> QED BY <2>2, <4>1
    <3> QED BY <2>1, <2>2, <2>3, <2>4, <2>6, <3>1, <3>2 DEF Piped
  <2> QED BY <2>5, <2>6
<1>6. CASE GetWhole
  <2>1. worker.at = "whole" /\ thread.at = "done" /\ UNCHANGED <<thread, pipe, since, streams>>
        /\ worker' = [worker EXCEPT !.at = "pushing", !.block = thread.made]
    BY <1>6 DEF GetWhole, synthesis
  <2>2. worker'.at = "pushing" /\ worker'.next = 0
    BY <1>t, <2>1 DEF Piped, WorkerStates
  <2> QED BY <2>1, <2>2 DEF Piped
<1>7. CASE Push
  <2>1. worker.at = "pushing" /\ UNCHANGED <<thread, pipe, streams>>
        /\ worker' = [worker EXCEPT !.at = IF worker.next = 0 THEN "joining" ELSE "ahead", !.block = worker.next, !.next = 0]
    BY <1>7 DEF Push, synthesis
  <2>2. worker'.at = (IF worker.next = 0 THEN "joining" ELSE "ahead") /\ worker'.block = worker.next /\ worker'.next = 0
    BY <1>t, <2>1 DEF WorkerStates
  <2> QED BY <2>1, <2>2 DEF Piped
<1>8. CASE Produce
  <2>1. PICK n \in 1..LongestBlock : pipe' = Append(pipe, n)
    BY <1>8 DEF Produce
  <2>2. thread.at = "working" /\ thread'.at = "working" /\ streams /\ UNCHANGED <<worker, since, streams>>
    BY <1>8, <1>t DEF Produce, ThreadStates
  <2>3. n \in 0..LongestBlock /\ n # 0
    BY <2>1
  <2>4. /\ DOMAIN pipe' = 1..(Len(pipe) + 1) /\ pipe'[Len(pipe) + 1] = n
        /\ \A i \in 1..Len(pipe) : pipe'[i] = pipe[i]
    BY <1>t, <2>1, <2>3, PipePlaces
  <2>5. Expecting => \A i \in DOMAIN pipe' : pipe'[i] # 0
    <3>1. ASSUME Expecting, NEW i \in DOMAIN pipe' PROVE pipe'[i] # 0
      <4>1. CASE i = Len(pipe) + 1
        BY <2>3, <2>4, <4>1
      <4>2. CASE i \in 1..Len(pipe)
        BY <1>t, <2>2, <2>4, <3>1, <4>2 DEF Piped
      <4> QED BY <1>t, <2>4, <4>1, <4>2
    <3> QED BY <3>1
  <2> QED BY <1>t, <2>2, <2>5 DEF Piped, TypeOK
<1>9. CASE Produced
  <2>1. /\ pipe' = Append(pipe, 0) /\ thread.at = "working" /\ thread'.at \in {"done", "failed"} /\ streams
        /\ UNCHANGED <<worker, since, streams>>
    BY <1>9, <1>t DEF Produced, ThreadStates
  <2>2. /\ DOMAIN pipe' = 1..(Len(pipe) + 1) /\ pipe'[Len(pipe) + 1] = 0 /\ Len(pipe') = Len(pipe) + 1 /\ pipe' # <<>>
        /\ \A i \in 1..Len(pipe) : pipe'[i] = pipe[i]
    BY <1>t, <2>1, PipePlaces
  <2>3. Expecting => \A i \in DOMAIN pipe' : pipe'[i] = 0 <=> i = Len(pipe')
    <3>1. ASSUME Expecting, NEW i \in DOMAIN pipe' PROVE pipe'[i] = 0 <=> i = Len(pipe')
      <4>1. CASE i = Len(pipe) + 1
        BY <2>2, <4>1
      <4>2. CASE i \in 1..Len(pipe)
        BY <1>t, <2>1, <2>2, <3>1, <4>2 DEF Piped
      <4> QED BY <1>t, <2>2, <4>1, <4>2
    <3> QED BY <3>1
  <2> QED BY <1>t, <2>1, <2>2, <2>3 DEF Piped, TypeOK
<1>10. CASE Render
  <2>1. thread.at = "working" /\ thread'.at \in {"done", "failed"} /\ ~streams /\ UNCHANGED <<worker, pipe, since, streams>>
    BY <1>10, <1>t DEF Render, ThreadStates
  <2> QED BY <2>1 DEF Piped
<1> QED
  <2>1. CASE Dispatch \/ Translated \/ SkipBlank \/ Play \/ UNCHANGED vars
    BY <1>1, <2>1 DEF Dispatch, Translated, SkipBlank, Play, vars, synthesis
  <2> QED BY <1>2, <1>3, <1>4, <1>5, <1>6, <1>7, <1>8, <1>9, <1>10, <2>1 DEF Next, Work

\* Every step moves audio along and loses none: what the pipe loses the worker
\* gets, and what it loses is published.
LEMMA AllAccountedStep == TypeOK /\ Piped /\ AllAccounted /\ [Next]_vars => AllAccounted'
<1> SUFFICES ASSUME TypeOK, Piped, AllAccounted, [Next]_vars PROVE AllAccounted'
  OBVIOUS
<1>t. /\ pipe \in Seq(0..LongestBlock) /\ Len(pipe) \in Nat /\ DOMAIN pipe = 1..Len(pipe)
      /\ \A i \in DOMAIN pipe : pipe[i] \in Nat
      /\ worker \in WorkerStates /\ thread \in ThreadStates /\ since \in Nat
      /\ worker.block \in Nat /\ worker.next \in Nat /\ thread.made \in Nat
  <2>1. pipe \in Seq(0..LongestBlock) /\ worker \in WorkerStates /\ thread \in ThreadStates /\ since \in Nat
    BY DEF TypeOK
  <2>2. worker.block \in Nat /\ worker.next \in Nat /\ thread.made \in Nat
    BY <2>1 DEF WorkerStates, ThreadStates
  <2> QED BY <2>1, <2>2, PipePlaces
<1> USE DEF Speaking
<1>1. CASE UNCHANGED <<worker, thread, pipe, since>>
  BY <1>1 DEF AllAccounted, Adds
<1>2. CASE SkipPhrase \/ PushFails \/ Join \/ Persist
  <2>1. worker'.at \in {"idle", "recording"}
    BY <1>2, <1>t DEF SkipPhrase, PushFails, Join, Persist, Idle, At, WorkerStates
  <2> QED BY <2>1 DEF AllAccounted
<1>3. CASE Speak
  <2>1. thread'.made = 0 /\ pipe' = <<>> /\ since' = 0 /\ worker'.block = 0 /\ worker'.next = 0
    BY <1>3 DEF Speak, At
  <2>2. Len(pipe') = 0
    BY <2>1
  <2> DEFINE t == [i \in 0..0 |-> 0]
  <2>3. t \in [0..Len(pipe') -> Nat] /\ Adds(t)'
    BY <2>1, <2>2 DEF Adds
  <2> QED BY <2>3 DEF AllAccounted
\* A function that adds up in the next state is all it takes.
<1>a. ASSUME NEW u \in [0..Len(pipe') -> Nat], u[0] = since' + worker'.block + worker'.next,
             \A i \in 1..Len(pipe') : u[i] = u[i - 1] + pipe'[i], u[Len(pipe')] = thread'.made
      PROVE  AllAccounted'
  BY <1>a DEF AllAccounted, Adds
\* The front of the pipe goes to the worker.
<1>4. ASSUME worker.at \in {"first", "ahead"}, pipe # <<>>, pipe' = Tail(pipe), UNCHANGED <<thread, since>>,
             worker'.block + worker'.next = worker.block + worker.next + Head(pipe),
             worker'.block \in Nat, worker'.next \in Nat
      PROVE  AllAccounted'
  <2>1. PICK total \in [0..Len(pipe) -> Nat] : Adds(total)
    BY <1>4 DEF AllAccounted
  <2>2. /\ Len(pipe) > 0 /\ Head(pipe) = pipe[1] /\ Len(pipe') = Len(pipe) - 1
        /\ \A i \in 1..(Len(pipe) - 1) : pipe'[i] = pipe[i + 1]
    BY <1>t, <1>4, PipePlaces
  <2> DEFINE t == [i \in 0..Len(pipe') |-> total[i + 1]]
  <2>3. \A i \in 0..Len(pipe') : i + 1 \in 0..Len(pipe) /\ t[i] = total[i + 1]
    BY <1>t, <2>2
  <2>4. t \in [0..Len(pipe') -> Nat]
    BY <1>t, <2>2
  <2>5. t[0] = since' + worker'.block + worker'.next
    <3>1. total[1] = total[0] + pipe[1] /\ total[0] = since + worker.block + worker.next /\ t[0] = total[1]
      BY <1>t, <2>1, <2>2, <2>3 DEF Adds
    <3>2. pipe[1] \in Nat
      BY <1>t, <2>2
    <3>3. t[0] = since + worker.block + worker.next + Head(pipe)
      BY <2>2, <3>1
    <3> HIDE DEF t
    <3>4. since' = since /\ worker.block \in Nat /\ worker.next \in Nat /\ since \in Nat /\ Head(pipe) \in Nat
      BY <1>t, <1>4, <2>2, <3>2 DEF WorkerStates
    <3>5. since' + worker'.block + worker'.next = since + (worker.block + worker.next + Head(pipe))
      BY <1>4, <3>4
    <3> QED BY <3>3, <3>4, <3>5
  <2>6. ASSUME NEW i \in 1..Len(pipe') PROVE t[i] = t[i - 1] + pipe'[i]
    <3>1. i + 1 \in 1..Len(pipe) /\ i \in 0..Len(pipe') /\ i - 1 \in 0..Len(pipe') /\ (i + 1) - 1 = (i - 1) + 1
          /\ i \in 1..(Len(pipe) - 1)
      BY <1>t, <2>2, <2>6
    <3>2. total[i + 1] = total[(i + 1) - 1] + pipe[i + 1]
      BY <2>1, <3>1 DEF Adds
    <3>3. t[i] = total[i + 1] /\ t[i - 1] = total[(i - 1) + 1] /\ pipe'[i] = pipe[i + 1]
      BY <2>2, <2>3, <3>1
    <3> HIDE DEF t
    <3> QED BY <3>1, <3>2, <3>3
  <2>7. t[Len(pipe')] = thread'.made
    <3>1. Len(pipe') \in 0..Len(pipe') /\ Len(pipe') + 1 = Len(pipe)
      BY <1>t, <2>2
    <3> QED BY <1>4, <2>1, <2>3, <3>1 DEF Adds
  <2> HIDE DEF t
  <2>8. \A i \in 1..Len(pipe') : t[i] = t[i - 1] + pipe'[i]
    BY <2>6
  <2> QED BY <1>a, <2>4, <2>5, <2>7, <2>8
<1>5. CASE GetFirst
  <2>1. /\ worker.at = "first" /\ pipe # <<>> /\ pipe' = Tail(pipe) /\ UNCHANGED <<thread, since>>
        /\ worker' = IF Head(pipe) = 0 THEN [worker EXCEPT !.at = "joining"]
                     ELSE [worker EXCEPT !.at = "ahead", !.block = Head(pipe)]
    BY <1>5 DEF GetFirst
  <2>2. Head(pipe) \in Nat /\ worker.block = 0
    BY <1>t, <2>1, PipePlaces DEF Piped
  <2>3. worker'.block = Head(pipe) /\ worker'.next = worker.next
    BY <1>t, <2>1, <2>2 DEF WorkerStates
  <2>4. worker'.block + worker'.next = worker.block + worker.next + Head(pipe)
    BY <1>t, <2>2, <2>3
  <2> QED BY <1>4, <1>t, <2>1, <2>2, <2>3, <2>4
<1>6. CASE GetNext
  <2>1. /\ worker.at = "ahead" /\ pipe # <<>> /\ pipe' = Tail(pipe) /\ UNCHANGED <<thread, since>>
        /\ worker' = [worker EXCEPT !.at = "pushing", !.next = Head(pipe)]
    BY <1>6 DEF GetNext
  <2>2. Head(pipe) \in Nat /\ worker.next = 0
    BY <1>t, <2>1, PipePlaces DEF Piped
  <2>3. worker'.block = worker.block /\ worker'.next = Head(pipe)
    BY <1>t, <2>1 DEF WorkerStates
  <2>4. worker'.block + worker'.next = worker.block + worker.next + Head(pipe)
    BY <1>t, <2>2, <2>3
  <2> QED BY <1>4, <1>t, <2>1, <2>2, <2>3, <2>4
<1>7. CASE GetWhole
  <2>1. /\ worker.at = "whole" /\ UNCHANGED <<thread, pipe, since>>
        /\ worker' = [worker EXCEPT !.at = "pushing", !.block = thread.made]
    BY <1>7 DEF GetWhole, synthesis
  <2>2. pipe = <<>> /\ since = 0 /\ worker.next = 0
    BY <2>1 DEF Piped
  <2>3. worker'.block = thread.made /\ worker'.next = 0 /\ Len(pipe') = 0
    BY <1>t, <2>1, <2>2 DEF WorkerStates
  <2> DEFINE t == [i \in 0..0 |-> thread.made]
  <2>4. t \in [0..Len(pipe') -> Nat] /\ t[0] = thread.made
    BY <1>t, <2>3
  <2>5. 1..Len(pipe') = {}
    BY <2>3
  <2>6. t[0] = since' + worker'.block + worker'.next /\ thread'.made = thread.made
    BY <1>t, <2>1, <2>2, <2>3, <2>4
  <2> HIDE DEF t
  <2> QED BY <1>a, <2>3, <2>4, <2>5, <2>6
<1>8. CASE Push
  <2>1. /\ worker.at = "pushing" /\ UNCHANGED <<thread, pipe>> /\ since' = since + worker.block
        /\ worker' = [worker EXCEPT !.at = IF worker.next = 0 THEN "joining" ELSE "ahead", !.block = worker.next, !.next = 0]
    BY <1>8 DEF Push, synthesis
  <2>2. worker'.block = worker.next /\ worker'.next = 0
    BY <1>t, <2>1 DEF WorkerStates
  <2>3. since' + worker'.block + worker'.next = since + worker.block + worker.next
    BY <1>t, <2>1, <2>2
  <2> QED BY <2>1, <2>3 DEF AllAccounted, Adds
\* The thread's block goes to the end of the pipe.
<1>9. ASSUME NEW n \in 0..LongestBlock, pipe' = Append(pipe, n), thread'.made = thread.made + n, UNCHANGED <<worker, since>>
      PROVE  AllAccounted'
  <2> SUFFICES ASSUME Speaking /\ worker.at # "whole" PROVE AllAccounted'
    BY <1>9 DEF AllAccounted, Speaking
  <2>1. PICK total \in [0..Len(pipe) -> Nat] : Adds(total)
    BY DEF AllAccounted
  <2>2. /\ Len(pipe') = Len(pipe) + 1 /\ pipe'[Len(pipe) + 1] = n
        /\ \A i \in 1..Len(pipe) : pipe'[i] = pipe[i]
    BY <1>t, <1>9, PipePlaces
  <2> DEFINE t == [i \in 0..Len(pipe') |-> IF i = Len(pipe) + 1 THEN thread.made + n ELSE total[i]]
  <2>3. t[Len(pipe) + 1] = thread.made + n /\ \A i \in 0..Len(pipe) : t[i] = total[i]
    BY <1>t, <2>2
  <2>4. t \in [0..Len(pipe') -> Nat]
    <3>1. \A i \in 0..Len(pipe') : i # Len(pipe) + 1 => i \in 0..Len(pipe)
      BY <1>t, <2>2
    <3>2. n \in Nat /\ thread.made + n \in Nat
      BY <1>t
    <3> QED BY <3>1, <3>2
  <2> HIDE DEF t
  <2>5. t[0] = since' + worker'.block + worker'.next
    BY <1>t, <1>9, <2>1, <2>3 DEF Adds
  <2>6. ASSUME NEW i \in 1..Len(pipe') PROVE t[i] = t[i - 1] + pipe'[i]
    <3>1. CASE i = Len(pipe) + 1
      <4>1. i - 1 = Len(pipe) /\ Len(pipe) \in 0..Len(pipe)
        BY <1>t, <3>1
      <4> QED BY <2>1, <2>2, <2>3, <3>1, <4>1 DEF Adds
    <3>2. CASE i # Len(pipe) + 1
      <4>1. i \in 1..Len(pipe) /\ i \in 0..Len(pipe) /\ i - 1 \in 0..Len(pipe)
        BY <1>t, <2>2, <2>6, <3>2
      <4> QED BY <2>1, <2>2, <2>3, <4>1 DEF Adds
    <3> QED BY <3>1, <3>2
  <2>7. t[Len(pipe')] = thread'.made
    BY <1>9, <2>2, <2>3
  <2>8. \A i \in 1..Len(pipe') : t[i] = t[i - 1] + pipe'[i]
    BY <2>6
  <2> QED BY <1>a, <2>4, <2>5, <2>7, <2>8
<1>10. CASE Produce
  <2>1. PICK n \in 1..LongestBlock : thread' = [thread EXCEPT !.made = @ + n] /\ pipe' = Append(pipe, n)
    BY <1>10 DEF Produce
  <2>2. n \in 0..LongestBlock /\ thread'.made = thread.made + n
    BY <1>t, <2>1 DEF ThreadStates
  <2> QED BY <1>9, <1>10, <2>1, <2>2 DEF Produce
<1>11. CASE Produced
  <2>1. pipe' = Append(pipe, 0) /\ thread'.made = thread.made /\ 0 \in 0..LongestBlock
    BY <1>11, <1>t DEF Produced, ThreadStates
  <2>2. thread'.made = thread.made + 0
    BY <1>t, <2>1
  <2> QED BY <1>9, <1>11, <2>1, <2>2 DEF Produced
<1>12. CASE Render
  <2>1. ~streams /\ worker' = worker /\ thread.at = "working"
    BY <1>12 DEF Render
  <2>2. Speaking => worker.at = "whole"
    BY <2>1 DEF Piped, Expecting, Ended
  <2> QED BY <2>1, <2>2 DEF AllAccounted
<1> QED
  <2>1. CASE Dispatch \/ Translated \/ SkipBlank \/ Play \/ UNCHANGED vars
    BY <1>1, <2>1 DEF Dispatch, Translated, SkipBlank, Play, vars, synthesis
  <2> QED BY <1>2, <1>3, <1>5, <1>6, <1>7, <1>8, <1>10, <1>11, <1>12, <2>1 DEF Next, Work

\* A worker that has joined a thread that is done has published all it made.
LEMMA SpokenWholeStep ==
  TypeOK /\ GivenOnce /\ Piped /\ AllAccounted /\ SpokenWhole /\ [Next]_vars => SpokenWhole'
<1> SUFFICES ASSUME TypeOK, GivenOnce, Piped, AllAccounted, SpokenWhole, [Next]_vars PROVE SpokenWhole'
  OBVIOUS
<1>t. /\ worker \in WorkerStates /\ thread \in ThreadStates
      /\ fate \in [Phrases -> {"none", "given"} \union Settled]
      /\ since \in Nat /\ worker.block \in Nat /\ worker.next \in Nat
  <2>1. worker \in WorkerStates /\ thread \in ThreadStates /\ since \in Nat
    BY DEF TypeOK
  <2> QED BY <2>1 DEF TypeOK, WorkerStates
<1>1. CASE Join
  <2>1. NoneLeft /\ worker.id \in Phrases
    BY <1>1, WorkerTyped DEF Join, NoneLeft
  <2>2. CASE thread.at = "done" /\ thread' = thread /\ since' = since
    <3>1. CASE worker.at = "joining"
      <4>1. pipe = <<>> /\ Len(pipe) = 0 /\ worker.block = 0 /\ worker.next = 0
        BY <3>1 DEF Piped, Ended
      <4>2. PICK total \in [0..Len(pipe) -> Nat] : Adds(total)
        BY <3>1 DEF AllAccounted, Speaking
      <4>3. total[0] = since + 0 + 0 /\ total[0] = thread.made
        BY <4>1, <4>2 DEF Adds
      <4> QED BY <1>t, <2>2, <4>3 DEF SpokenWhole
    <3>2. CASE worker.at = "whole" /\ thread.made = 0
      BY <2>2, <3>2 DEF SpokenWhole, Piped
    <3> QED BY <2>1, <3>1, <3>2 DEF NoneLeft
  <2>3. CASE worker' = Idle
    BY <2>3 DEF SpokenWhole, Idle, At
  <2> QED BY <1>1, <2>2, <2>3 DEF Join, synthesis
<1>2. CASE SkipPhrase
  <2>1. Head(queue).id \in Phrases
    BY <1>2, HeadIsPhrase DEF SkipPhrase
  <2>2. worker'.id = Head(queue).id /\ fate' = [fate EXCEPT ![Head(queue).id] = "skipped"]
    BY <1>2 DEF SkipPhrase, At
  <2>3. fate'[worker'.id] = "skipped"
    BY <1>t, <2>1, <2>2
  <2> QED BY <2>3 DEF SpokenWhole
<1>3. CASE Translated
  <2>1. worker.at = "recording" => worker.id \in Phrases
    BY DEF TypeOK
  <2>2. dispatched \in Phrases /\ \E v \in {"untranslated", "given"} : fate' = [fate EXCEPT ![dispatched] = v]
    BY <1>3 DEF Translated, TypeOK
  <2>3. \A p \in Phrases : fate'[p] = "spoken" => fate[p] = "spoken"
    BY <1>t, <2>2
  <2> QED BY <1>3, <2>1, <2>3 DEF Translated, SpokenWhole, synthesis
<1>4. CASE SkipBlank \/ Speak \/ PushFails \/ Persist
  <2>1. worker'.at # "recording"
    <3>1. CASE SkipBlank
      BY <3>1 DEF SkipBlank
    <3>2. CASE Speak
      BY <3>2 DEF Speak, At
    <3>3. CASE PushFails \/ Persist
      BY <3>3 DEF PushFails, Persist, Idle, At
    <3> QED BY <1>4, <3>1, <3>2, <3>3
  <2> QED BY <2>1 DEF SpokenWhole
<1>5. CASE GetFirst \/ GetNext \/ GetWhole \/ Push
  <2>1. worker'.at # "recording"
    <3>1. CASE GetFirst
      BY <1>t, <3>1 DEF GetFirst, WorkerStates
    <3>2. CASE GetNext \/ GetWhole
      BY <1>t, <3>2 DEF GetNext, GetWhole, WorkerStates
    <3>3. CASE Push
      BY <1>t, <3>3 DEF Push, WorkerStates
    <3> QED BY <1>5, <3>1, <3>2, <3>3
  <2> QED BY <2>1 DEF SpokenWhole
<1>6. CASE Produce \/ Produced \/ Render
  <2>1. thread.at # "done" /\ UNCHANGED <<worker, fate>>
    BY <1>6 DEF Produce, Produced, Render
  <2> QED BY <2>1 DEF SpokenWhole
<1>7. CASE Dispatch \/ Play \/ UNCHANGED vars
  BY <1>7 DEF Dispatch, Play, vars, synthesis, SpokenWhole
<1> QED BY <1>1, <1>2, <1>3, <1>4, <1>5, <1>6, <1>7 DEF Next, Work

\* The records at the start: there are none.
LEMMA RecordsInit == Init => Records /\ Sound
<1> SUFFICES ASSUME Init PROVE Records /\ Sound
  OBVIOUS
<1>1. \A p \in Phrases : ~Heard(p)
  BY DEF Init, Heard
<1>2. ~Speaking /\ worker.at = "idle"
  BY DEF Init, Idle, At, Speaking
<1>3. GivenOnce /\ HeardSpoken
  BY <1>1, <1>2 DEF Init, GivenOnce, HeardSpoken
<1>4. Marked
  BY <1>1, <1>2 DEF Init, Marked
<1>5. samples = Newest(heard)
  <2>1. samples = <<>> /\ heard = <<>> /\ Len(heard) = 0
    BY DEF Init
  <2>2. 1 + Greater(0, Len(heard) - SampleCap) = 1
    BY <2>1 DEF Greater
  <2>3. Newest(heard) = SubSeq(heard, 1, 0)
    BY <2>1, <2>2 DEF Newest
  <2>4. SubSeq(heard, 1, 0) = <<>>
    BY SubSeqEmpty
  <2> QED BY <2>1, <2>3, <2>4
<1>6. Counted
  <2>1. SkippedPhrases = {} /\ drift.skipped = 0
    BY DEF Init, SkippedPhrases
  <2> QED BY <2>1, FS_EmptySet DEF Counted
<1>7. Sound
  BY <1>2 DEF Sound, Piped, Expecting, Ended, AllAccounted, SpokenWhole
<1> QED BY <1>3, <1>4, <1>5, <1>6, <1>7 DEF Records

LEMMA RecordsStep == TypeOK /\ Records /\ Sound /\ [Next]_vars => Records' /\ Sound'
BY GivenOnceStep, HeardSpokenStep, MarkedStep, NewestStep, CountedStep, PipedStep, AllAccountedStep, SpokenWholeStep
DEF Records, Sound

\* For every cap, threshold and length of phrase, what the recorder keeps is
\* what the audience heard: open traces, samples with every mark, the count of
\* what was skipped, and phrases recorded as spoken only when all of their audio
\* went out.
THEOREM RecordsAreTrue == Spec => []RecordsTrue
<1>1. TypeOK /\ Records /\ Sound => RecordsTrue
  <2> SUFFICES ASSUME TypeOK, Records, Sound PROVE RecordsTrue
    OBVIOUS
  <2>1. \A i \in DOMAIN samples : marks[samples[i]] = Stages
    <3>1. heard \in Seq(Phrases) /\ samples = Newest(heard)
      BY DEF TypeOK, Records
    <3>2. ASSUME NEW i \in DOMAIN samples PROVE Heard(samples[i]) /\ samples[i] \in Phrases
      <4> DEFINE from == 1 + Greater(0, Len(heard) - SampleCap)
      <4>1. Len(heard) \in Nat /\ from \in Nat /\ from >= 1 /\ (Len(heard) = 0 \/ from <= Len(heard))
            /\ DOMAIN heard = 1..Len(heard) /\ (\A j \in 1..Len(heard) : heard[j] \in Phrases)
        BY <3>1 DEF Greater
      <4>2. samples = SubSeq(heard, from, Len(heard))
        BY <3>1 DEF Newest
      <4> HIDE DEF from
      <4>3. /\ Len(samples) = (IF from <= Len(heard) THEN Len(heard) - from + 1 ELSE 0) /\ DOMAIN samples = 1..Len(samples)
            /\ \A j \in 1..(Len(heard) - from + 1) : samples[j] = heard[from + j - 1]
        <5>1. from \in Int /\ Len(heard) \in Int /\ \A j \in from..Len(heard) : heard[j] \in Phrases
          BY <4>1
        <5> QED BY <4>2, <5>1, SubSeqProperties, LenProperties
      <4>4. from + i - 1 \in DOMAIN heard /\ samples[i] = heard[from + i - 1]
        BY <3>2, <4>1, <4>3
      <4> QED BY <4>1, <4>4 DEF Heard
    <3> QED BY <3>2 DEF Records, Marked
  <2> QED BY <2>1 DEF Records, Sound, RecordsTrue, Marked, Newest, Counted, SkippedPhrases, SpokenWhole
<1> QED BY <1>1, RecordsInit, RecordsStep, TypeCorrect, PTL DEF Spec
=============================================================================
