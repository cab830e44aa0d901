----------------------------- MODULE SessionProofs -----------------------------
(***************************************************************************)
(* What a session promises about its phrases, its room and its outcome,    *)
(* for any languages, any number of phrases and any of the ways in which   *)
(* pump, workers, limits and an interrupt can meet.                        *)
(*                                                                         *)
(* No two tasks share a lock; what keeps them apart is the order of        *)
(* _shutdown.  So the invariant says what is over at each stage of run():  *)
(* the pump before the first worker is told (Staged), a worker told before *)
(* its queue ends (Stops), all of them before the room is closed.  Decided *)
(* and Kept follow each phrase through pump, queue and worker, and InOrder *)
(* each language's line.                                                   *)
(***************************************************************************)
EXTENDS Session, SequenceTheorems, TLAPS

USE SessionAssumption DEF SessionAssumption

Items == {Stop} \union [id : Phrases, blank : BOOLEAN]
WorkerStates ==
  [at : {"unstarted", "idle", "speaking", "recording", "stopped"}, id : 0..MaxPhrases, pieces : Nat]
Stopping == {"stopping", "settling", "returned", "raised"}

\* The tasks and the flags have their types, and the pump has no more phrases
\* in hand than may come.
ControlTypes ==
  /\ run \in {"publishing", "marking", "racing", "cancelling"} \union Stopping
  /\ told \in 0..Len(Targets)
  /\ pump \in {"unstarted", "listening", "translating", "flushing"} \union PumpEnds
  /\ batch \in Nat /\ phrases \in Nat /\ phrases + batch <= MaxPhrases
  /\ Translating => phrases > 0
  /\ watchdog \in {"unstarted", "running", "over"}
  /\ stopSet \in BOOLEAN /\ endReason \in BOOLEAN /\ failure \in BOOLEAN /\ roomOpen \in BOOLEAN
  /\ outcome \in {"none", "interrupted", "ended", "failed"}

\* The queues, the workers and the histories have theirs.
SpeechTypes ==
  /\ queue \in [Languages -> Seq(Items)]
  /\ worker \in [Languages -> WorkerStates]
  /\ \A l \in Languages : worker[l].at = "speaking" => worker[l].id \in Phrases
  /\ fate \in [Languages -> [Phrases -> {"none", "given", "settled"}]]
  /\ published \in [Languages -> Seq(Phrases)]

TypeOK == ControlTypes /\ SpeechTypes

\* run() in its stages: what the pump, the limits and the workers have done by
\* then.  An interrupted session leaves its pump running, so it is excepted.
Staged ==
  /\ run \in {"publishing", "marking"} => pump = "unstarted"
  /\ run = "cancelling" => stopSet
  /\ stopSet \/ pump = "cancelled" => endReason
  /\ outcome = "interrupted" => run \in {"stopping", "raised"}
  /\ outcome \in {"ended", "failed"} => run = "returned"
  /\ told > 0 => run \in Stopping
  /\ (told > 0 \/ run \in {"stopping", "settling", "returned"}) /\ outcome # "interrupted" =>
       pump \in PumpEnds
  /\ run \in {"stopping", "settling", "returned"} /\ outcome # "interrupted" =>
       failure = (pump = "failed")
  /\ run = "returned" => outcome = IF failure THEN "failed" ELSE "ended"
  /\ run \in {"settling", "returned"} => ~roomOpen /\ outcome # "interrupted" /\ told = Len(Targets)
  /\ ~roomOpen => run \in {"settling", "returned", "raised"} /\ \A l \in Languages : worker[l].at = "stopped"

\* A worker's Stop is the last of its queue, is there once it was told, and
\* nothing is left behind it.
StopLast(i) ==
  LET l == Targets[i]
  IN  /\ \A k \in DOMAIN queue[l] : queue[l][k] = Stop => i <= told /\ k = Len(queue[l])
      /\ worker[l].at = "stopped" => i <= told /\ queue[l] = <<>>
      /\ i <= told /\ worker[l].at # "stopped" => queue[l] # <<>> /\ queue[l][Len(queue[l])] = Stop

Stops == outcome # "interrupted" => \A i \in DOMAIN Targets : StopLast(i)

\* Where each phrase is: every one before the last was decided on for every
\* language, the last for all languages or for none, and for none only while it
\* is translated or after its translation was cut short.
Decided ==
  /\ pump = "unstarted" => phrases = 0
  /\ Translating => \A l \in Languages : fate[l][phrases] = "none"
  /\ pump \in {"unstarted", "listening", "done"} =>
       \A l \in Languages, p \in 1..phrases : fate[l][p] # "none"
  /\ \A l \in Languages, p \in Phrases : p < phrases => fate[l][p] # "none"
  /\ \A l \in Languages, p \in Phrases : p > phrases => fate[l][p] = "none"
  /\ \A l, m \in Languages : phrases > 0 /\ fate[l][phrases] = "none" => fate[m][phrases] = "none"

\* A phrase a language was given and has not settled is in its queue or in its
\* mouth.
Kept(l) ==
  \A p \in Phrases :
    fate[l][p] = "given" =>
      \/ worker[l].at = "speaking" /\ worker[l].id = p
      \/ \E k \in DOMAIN queue[l] : queue[l][k].id = p

\* The line of one language goes up, and only what was decided on is in it.
InOrder(l) ==
  /\ \A k \in DOMAIN queue[l] : queue[l][k].id # 0 => fate[l][queue[l][k].id] # "none"
  /\ worker[l].at = "speaking" => fate[l][worker[l].id] # "none"
  /\ \A i \in DOMAIN published[l] : fate[l][published[l][i]] # "none"
  /\ \A i, j \in DOMAIN queue[l] :
       i < j /\ queue[l][i].id # 0 /\ queue[l][j].id # 0 => queue[l][i].id < queue[l][j].id
  /\ \A i, j \in DOMAIN published[l] : i < j => published[l][i] < published[l][j]
  /\ \A i \in DOMAIN published[l], j \in DOMAIN queue[l] :
       queue[l][j].id # 0 => published[l][i] < queue[l][j].id
  /\ worker[l].at = "speaking" =>
       /\ \A j \in DOMAIN queue[l] : queue[l][j].id # 0 => worker[l].id < queue[l][j].id
       /\ worker[l].pieces = 0 => \A i \in DOMAIN published[l] : published[l][i] < worker[l].id

IInv == TypeOK /\ Staged /\ Stops /\ Decided /\ \A l \in Languages : Kept(l) /\ InOrder(l)

-----------------------------------------------------------------------------
(* Facts every proof below uses.                                           *)

\* The workers are told in the order of the targets, each of which is one
\* language's.
LEMMA TargetsAreLanguages ==
  /\ MaxPhrases \in Nat
  /\ Len(Targets) \in Nat /\ DOMAIN Targets = 1..Len(Targets)
  /\ \A i \in 1..Len(Targets) : Targets[i] \in Languages
  /\ \A l \in Languages : \E i \in 1..Len(Targets) : Targets[i] = l
  /\ \A i, j \in 1..Len(Targets) : Targets[i] = Targets[j] => i = j
BY DEF Languages, Range, IsInjective

\* A phrase is no Stop: it has a number.
LEMMA ItemFacts ==
  /\ Stop \in Items /\ Stop.id = 0 /\ Stop.blank = FALSE
  /\ \A x \in Items : x # Stop => x.id \in Phrases /\ x.blank \in BOOLEAN
  /\ \A x \in Items : x.id \in 0..MaxPhrases /\ (x.id = 0 => x = Stop)
  /\ \A p \in Phrases : p \in Nat /\ p # 0 /\ p <= MaxPhrases
BY DEF Items, Stop, Phrases

\* An interrupt of _shutdown stops the worker that is awaited, whose phrase it
\* settles, and touches nothing else that is spoken.
LEMMA CutEffect ==
  ASSUME SpeechTypes, told \in 0..Len(Targets), InterruptShutdown
  PROVE  /\ UNCHANGED <<queue, published, told, pump, batch, phrases, watchdog, stopSet, endReason, failure, roomOpen>>
         /\ run' = "raised" /\ outcome' = "interrupted"
         /\ \E l \in Languages :
              \E w \in WorkerStates, f \in [Phrases -> {"none", "given", "settled"}] :
                /\ worker' = [worker EXCEPT ![l] = w] /\ w.at = "stopped"
                /\ fate' = [fate EXCEPT ![l] = f]
                /\ \/ worker[l].at # "speaking" /\ f = fate[l]
                   \/ worker[l].at = "speaking" /\ f = [fate[l] EXCEPT ![worker[l].id] = "settled"]
<1>1. told \in 1..Len(Targets)
  BY TargetsAreLanguages DEF InterruptShutdown, ToldAreDone
<1> DEFINE l == Targets[told]
<1>2. l \in Languages
  BY <1>1, TargetsAreLanguages
<1> DEFINE w == [worker[l] EXCEPT !.at = "stopped"]
           f == IF worker[l].at = "speaking" THEN [fate[l] EXCEPT ![worker[l].id] = "settled"] ELSE fate[l]
<1>3. w \in WorkerStates /\ w.at = "stopped"
  BY <1>2 DEF SpeechTypes, WorkerStates
<1>4. f \in [Phrases -> {"none", "given", "settled"}]
  BY <1>2 DEF SpeechTypes
<1>5. worker' = [worker EXCEPT ![l] = w]
  BY <1>2 DEF InterruptShutdown, SpeechTypes
<1>6. fate' = [fate EXCEPT ![l] = f]
  BY <1>2 DEF InterruptShutdown, SpeechTypes
<1>7. UNCHANGED <<queue, published, told, pump, batch, phrases, watchdog, stopSet, endReason, failure, roomOpen>>
      /\ run' = "raised" /\ outcome' = "interrupted"
  BY DEF InterruptShutdown, pumping, limits
<1> QED
  BY <1>2, <1>3, <1>4, <1>5, <1>6, <1>7

-----------------------------------------------------------------------------
(* The types.                                                              *)

\* The program starts in a state of the invariant.
LEMMA InitEstablishes == Init => IInv
<1> SUFFICES ASSUME Init PROVE IInv
  OBVIOUS
<1> USE TargetsAreLanguages
<1>1. ControlTypes
  <2>1. run = "publishing" /\ told = 0 /\ pump = "unstarted" /\ batch = 0 /\ phrases = 0
    BY DEF Init
  <2>2. watchdog = "unstarted" /\ ~stopSet /\ ~endReason /\ ~failure /\ roomOpen /\ outcome = "none"
    BY DEF Init
  <2>3. stopSet \in BOOLEAN /\ endReason \in BOOLEAN /\ failure \in BOOLEAN /\ roomOpen \in BOOLEAN
    BY DEF Init
  <2> QED
    BY <2>1, <2>2, <2>3 DEF ControlTypes, Translating
<1>2. SpeechTypes
  <2>1. queue \in [Languages -> Seq(Items)] /\ published \in [Languages -> Seq(Phrases)]
    BY DEF Init
  <2>2. [Idle EXCEPT !.at = "unstarted"] \in WorkerStates
    BY DEF Idle, WorkerStates
  <2>3. worker \in [Languages -> WorkerStates] /\ \A l \in Languages : worker[l].at = "unstarted"
    BY <2>2 DEF Init, Idle
  <2>4. fate \in [Languages -> [Phrases -> {"none", "given", "settled"}]]
    BY DEF Init
  <2> QED
    BY <2>1, <2>3, <2>4 DEF SpeechTypes
<1>3. Staged
  BY DEF Init, Staged, Stopping, PumpEnds
<1>4. Stops
  BY DEF Init, Stops, StopLast, Idle
<1>5. Decided /\ \A l \in Languages : Kept(l)
  BY DEF Init, Decided, Kept, Translating, Phrases
<1>6. ASSUME NEW l \in Languages PROVE InOrder(l)
  BY DEF Init, InOrder, Idle
<1> QED
  BY <1>1, <1>2, <1>3, <1>4, <1>5, <1>6 DEF IInv, TypeOK

\* What happens to a phrase leaves the tasks' own state typed.
LEMMA ControlTypesStep == TypeOK /\ [Next]_vars => ControlTypes'
<1> SUFFICES ASSUME ControlTypes, [Next]_vars PROVE ControlTypes'
  BY DEF TypeOK
<1> USE TargetsAreLanguages DEF ControlTypes, Translating
<1>1. CASE Publish \/ MarkLive
  BY <1>1 DEF Publish, MarkLive, Stopping, PumpEnds, pumping, limits, result
<1>2. CASE PumpWins \/ LimitWins \/ PumpGone
  BY <1>2 DEF PumpWins, LimitWins, PumpGone, GoToShutdown, Stopping, pumping, limits, result
<1>3. CASE Settle \/ Interrupt \/ LimitReached
  BY <1>3 DEF Settle, Interrupt, GoToShutdown, LimitReached, Stopping, pumping, limits, result
<1>4. CASE StopWorker \/ CloseRoom
  <2>1. told' = told \/ (told < Len(Targets) /\ told' = told + 1)
    BY <1>4 DEF StopWorker, CloseRoom
  <2>2. run' \in {run, "settling", "raised"} /\ roomOpen' \in {roomOpen, FALSE}
    BY <1>4 DEF StopWorker, CloseRoom
  <2>3. UNCHANGED <<pumping, limits, result>>
    BY <1>4 DEF StopWorker, CloseRoom
  <2>4. told' \in 0..Len(Targets)
    BY <2>1
  <2>5. run' \in {"publishing", "marking", "racing", "cancelling"} \union Stopping /\ roomOpen' \in BOOLEAN
    BY <2>2 DEF Stopping
  <2> HIDE TargetsAreLanguages
  <2> QED
    BY <2>3, <2>4, <2>5 DEF pumping, limits, result
<1>5. CASE Hypothesis \/ StreamEnds
  BY <1>5 DEF Hypothesis, StreamEnds, GoOn, PumpEnds, limits, result
<1>6. CASE PumpFails \/ PumpCancelled
  BY <1>6 DEF PumpFails, PumpCancelled, PumpEnds, limits, result
<1>7. ASSUME NEW texts \in [Languages -> {"text", "blank", "absent"}], Translated(texts) PROVE ControlTypes'
  BY <1>7 DEF Translated, GoOn, PumpEnds, limits, result
<1>8. CASE \E l \in Languages : Worker(l)
  BY <1>8 DEF Worker, Take, Speak, Push, Spoken, SpeakFails, Persist, pumping, limits, result
<1>9. CASE UNCHANGED vars
  BY <1>9 DEF vars, pumping, limits, result
<1>10. CASE InterruptShutdown
  BY <1>10 DEF InterruptShutdown, Stopping, pumping, limits
<1> QED
  BY <1>1, <1>2, <1>3, <1>4, <1>5, <1>6, <1>7, <1>8, <1>9, <1>10 DEF Next, Run, Pump, Translate

\* Every queue keeps items, every worker its states, every phrase a fate.
LEMMA SpeechTypesStep == TypeOK /\ [Next]_vars => SpeechTypes'
<1> SUFFICES ASSUME TypeOK, [Next]_vars PROVE SpeechTypes'
  OBVIOUS
<1> USE TargetsAreLanguages
<1>0. SpeechTypes
  BY DEF TypeOK
<1>1. CASE Publish
  <2>1. Idle \in WorkerStates /\ Idle.at = "idle"
    BY DEF Idle, WorkerStates
  <2> QED
    BY <1>0, <1>1, <2>1 DEF Publish, SpeechTypes
<1>2. CASE UNCHANGED speech
  BY <1>0, <1>2 DEF speech, SpeechTypes
<1>3. CASE StopWorker
  <2>1. told' \in 1..Len(Targets) /\ Targets[told'] \in Languages
    BY <1>3 DEF StopWorker, TypeOK, ControlTypes
  <2>2. Append(queue[Targets[told']], Stop) \in Seq(Items)
    BY <1>0, <2>1, ItemFacts DEF SpeechTypes
  <2>3. queue' \in [Languages -> Seq(Items)]
    BY <1>0, <1>3, <2>1, <2>2 DEF StopWorker, SpeechTypes
  <2> QED
    BY <1>0, <1>3, <2>3 DEF StopWorker, SpeechTypes
<1>4. ASSUME NEW texts \in [Languages -> {"text", "blank", "absent"}], Translated(texts) PROVE SpeechTypes'
  <2>1. phrases \in Phrases
    BY <1>4 DEF Translated, TypeOK, ControlTypes, Phrases
  <2>2. ASSUME NEW l \in Languages
        PROVE  Append(queue[l], [id |-> phrases, blank |-> texts[l] = "blank"]) \in Seq(Items)
    <3>1. [id |-> phrases, blank |-> texts[l] = "blank"] \in Items
      BY <2>1 DEF Items
    <3> QED
      BY <1>0, <3>1 DEF SpeechTypes
  <2>3. queue' \in [Languages -> Seq(Items)]
    BY <1>0, <1>4, <2>2 DEF Translated, SpeechTypes
  <2>4. fate' \in [Languages -> [Phrases -> {"none", "given", "settled"}]]
    BY <1>0, <1>4 DEF Translated, SpeechTypes
  <2> QED
    BY <1>0, <1>4, <2>3, <2>4 DEF Translated, SpeechTypes
<1>5. ASSUME NEW l \in Languages, Take(l) PROVE SpeechTypes'
  <2>1. queue[l] \in Seq(Items) /\ queue[l] # <<>> /\ Head(queue[l]) \in Items /\ Tail(queue[l]) \in Seq(Items)
    BY <1>0, <1>5 DEF Take, SpeechTypes
  <2>2. queue' \in [Languages -> Seq(Items)]
    BY <1>0, <1>5, <2>1 DEF Take, SpeechTypes
  <2>3. PICK w \in WorkerStates : worker' = [worker EXCEPT ![l] = w] /\ (w.at = "speaking" => w.id \in Phrases)
    <3>1. worker[l] \in WorkerStates /\ worker = [worker EXCEPT ![l] = worker[l]]
      BY <1>0 DEF SpeechTypes
    <3>2. [worker[l] EXCEPT !.at = "stopped"] \in WorkerStates
      BY <3>1 DEF WorkerStates
    <3>3. CASE worker' = [worker EXCEPT ![l].at = "stopped"]
      BY <3>1, <3>2, <3>3 DEF WorkerStates
    <3>4. CASE worker' = worker
      BY <1>0, <3>1, <3>4 DEF SpeechTypes
    <3>5. CASE Head(queue[l]) # Stop
      <4>1. Head(queue[l]).id \in Phrases
        BY <2>1, <3>5, ItemFacts
      <4>2. \A a \in {"recording", "speaking"} : [at |-> a, id |-> Head(queue[l]).id, pieces |-> 0] \in WorkerStates
        BY <4>1 DEF WorkerStates, Phrases
      <4> QED
        BY <1>5, <3>4, <3>5, <4>1, <4>2 DEF Take
    <3> QED
      BY <1>5, <3>3, <3>5 DEF Take
  <2>4. PICK f \in [Phrases -> {"none", "given", "settled"}] : fate' = [fate EXCEPT ![l] = f]
    <3>1. fate[l] \in [Phrases -> {"none", "given", "settled"}] /\ fate = [fate EXCEPT ![l] = fate[l]]
      BY <1>0 DEF SpeechTypes
    <3>2. [fate[l] EXCEPT ![Head(queue[l]).id] = "settled"] \in [Phrases -> {"none", "given", "settled"}]
      BY <3>1
    <3>3. fate' = fate \/ fate' = [fate EXCEPT ![l][Head(queue[l]).id] = "settled"]
      BY <1>5 DEF Take
    <3> QED
      BY <3>1, <3>2, <3>3
  <2> QED
    BY <1>0, <1>5, <2>2, <2>3, <2>4 DEF Take, SpeechTypes
<1>6. ASSUME NEW l \in Languages, Speak(l) \/ Persist(l) PROVE SpeechTypes'
  <2>1. PICK w \in WorkerStates : worker' = [worker EXCEPT ![l] = w] /\ (w.at = "speaking" => w.id \in Phrases)
    <3>1. Idle \in WorkerStates /\ Idle.at = "idle"
      BY DEF Idle, WorkerStates
    <3>2. worker[l] \in WorkerStates
      BY <1>0 DEF SpeechTypes
    <3>3. /\ [worker[l] EXCEPT !.at = "recording"] \in WorkerStates
          /\ [worker[l] EXCEPT !.pieces = @ + 1] \in WorkerStates
      <4>1. worker[l].pieces \in Nat /\ worker[l].pieces + 1 \in Nat
        BY <3>2 DEF WorkerStates
      <4>2. [worker[l] EXCEPT !.pieces = @ + 1] \in WorkerStates
        BY <3>2, <4>1 DEF WorkerStates
      <4>3. [worker[l] EXCEPT !.at = "recording"] \in WorkerStates
        BY <3>2 DEF WorkerStates
      <4> QED
        BY <4>2, <4>3
    <3>4. CASE Push(l)
      BY <1>0, <3>3, <3>4 DEF Push, SpeechTypes, WorkerStates
    <3>5. CASE Spoken(l)
      BY <1>0, <3>3, <3>5 DEF Spoken, SpeechTypes, WorkerStates
    <3> QED
      BY <1>6, <3>1, <3>4, <3>5 DEF Speak, SpeakFails, Persist
  <2>2. worker' \in [Languages -> WorkerStates] /\ \A m \in Languages : worker'[m].at = "speaking" => worker'[m].id \in Phrases
    BY <1>0, <2>1 DEF SpeechTypes
  <2>3. published' \in [Languages -> Seq(Phrases)]
    <3>1. Push(l) => Append(published[l], worker[l].id) \in Seq(Phrases)
      BY <1>0 DEF Push, SpeechTypes
    <3> QED
      BY <1>0, <1>6, <3>1 DEF Speak, Push, Spoken, SpeakFails, Persist, SpeechTypes
  <2>4. PICK f \in [Phrases -> {"none", "given", "settled"}] : fate' = [fate EXCEPT ![l] = f]
    <3>1. fate[l] \in [Phrases -> {"none", "given", "settled"}] /\ fate = [fate EXCEPT ![l] = fate[l]]
      BY <1>0 DEF SpeechTypes
    <3>2. [fate[l] EXCEPT ![worker[l].id] = "settled"] \in [Phrases -> {"none", "given", "settled"}]
      BY <3>1
    <3>3. fate' = fate \/ fate' = [fate EXCEPT ![l][worker[l].id] = "settled"]
      BY <1>6 DEF Speak, Push, Spoken, SpeakFails, Persist
    <3> QED
      BY <3>1, <3>2, <3>3
  <2>5. queue' = queue
    BY <1>6 DEF Speak, Push, Spoken, SpeakFails, Persist
  <2> QED
    BY <1>0, <2>2, <2>3, <2>4, <2>5 DEF SpeechTypes
<1>7. CASE InterruptShutdown
  <2>1. PICK l \in Languages, w \in WorkerStates, f \in [Phrases -> {"none", "given", "settled"}] :
          worker' = [worker EXCEPT ![l] = w] /\ w.at = "stopped" /\ fate' = [fate EXCEPT ![l] = f]
    BY <1>0, <1>7, CutEffect DEF TypeOK, ControlTypes
  <2>2. worker' \in [Languages -> WorkerStates] /\ \A m \in Languages : worker'[m].at = "speaking" => worker'[m].id \in Phrases
    BY <1>0, <2>1 DEF SpeechTypes
  <2>3. fate' \in [Languages -> [Phrases -> {"none", "given", "settled"}]]
    BY <1>0, <2>1 DEF SpeechTypes
  <2>4. queue' = queue /\ published' = published
    BY <1>7 DEF InterruptShutdown
  <2> QED
    BY <1>0, <2>2, <2>3, <2>4 DEF SpeechTypes
<1> QED
  <2>1. CASE MarkLive \/ PumpWins \/ LimitWins \/ PumpGone \/ CloseRoom \/ Settle
    BY <1>2, <2>1 DEF MarkLive, PumpWins, LimitWins, PumpGone, CloseRoom, Settle, speech
  <2>2. CASE Interrupt \/ LimitReached \/ Hypothesis \/ StreamEnds \/ PumpFails \/ PumpCancelled \/ UNCHANGED vars
    BY <1>2, <2>2 DEF Interrupt, LimitReached, Hypothesis, StreamEnds, PumpFails, PumpCancelled, speech, vars
  <2> QED
    BY <1>1, <1>3, <1>4, <1>5, <1>6, <1>7, <2>1, <2>2 DEF Next, Run, Pump, Translate, Worker

LEMMA TypeStep == TypeOK /\ [Next]_vars => TypeOK'
BY ControlTypesStep, SpeechTypesStep DEF TypeOK

-----------------------------------------------------------------------------
(* What the steps of a worker do, read off the actions once.               *)

\* A worker touches its own language only, and neither run() nor the pump.  One
\* that has not begun or has stopped does nothing.
LEMMA WorkerMinds ==
  ASSUME SpeechTypes, NEW l \in Languages, Worker(l)
  PROVE  /\ UNCHANGED <<run, told, pump, batch, phrases, watchdog, stopSet, endReason, failure, outcome, roomOpen>>
         /\ worker[l].at \in {"idle", "speaking", "recording"}
         /\ \A m \in Languages \ {l} :
              /\ queue'[m] = queue[m] /\ worker'[m] = worker[m]
              /\ fate'[m] = fate[m] /\ published'[m] = published[m]
<1>1. CASE Take(l)
  BY <1>1 DEF Take, SpeechTypes, pumping, limits, result
<1>2. CASE Speak(l)
  BY <1>2 DEF Speak, Push, Spoken, SpeakFails, SpeechTypes, pumping, limits, result
<1>3. CASE Persist(l)
  BY <1>3 DEF Persist, SpeechTypes, pumping, limits, result
<1> QED
  BY <1>1, <1>2, <1>3 DEF Worker

\* Taking an item: the Stop, a phrase that is passed over or skipped, or one
\* that is going to be spoken.
LEMMA TakeEffect ==
  ASSUME SpeechTypes, NEW l \in Languages, Take(l)
  PROVE  /\ worker[l].at = "idle" /\ queue[l] # <<>>
         /\ queue'[l] = Tail(queue[l]) /\ published'[l] = published[l]
         /\ \/ /\ queue[l][1] = Stop
               /\ worker'[l].at = "stopped" /\ fate'[l] = fate[l]
            \/ /\ queue[l][1] # Stop
               /\ worker'[l].at \in {"idle", "recording"}
               /\ fate'[l] = [fate[l] EXCEPT ![queue[l][1].id] = "settled"]
            \/ /\ queue[l][1] # Stop
               /\ worker'[l].at = "speaking" /\ worker'[l].id = queue[l][1].id /\ worker'[l].pieces = 0
               /\ fate'[l] = fate[l]
<1>1. Head(queue[l]) = queue[l][1]
  BY DEF Take, SpeechTypes
<1>2. worker[l] \in WorkerStates
  BY DEF SpeechTypes
<1>3. worker[l].at = "idle" /\ queue[l] # <<>> /\ queue'[l] = Tail(queue[l]) /\ published'[l] = published[l]
  BY DEF Take, SpeechTypes
<1>4. CASE queue[l][1] = Stop
  <2>1. worker' = [worker EXCEPT ![l].at = "stopped"] /\ fate' = fate
    BY <1>1, <1>4 DEF Take
  <2>2. worker'[l].at = "stopped"
    BY <1>2, <2>1 DEF SpeechTypes, WorkerStates
  <2> QED
    BY <1>3, <1>4, <2>1, <2>2
<1>5. CASE queue[l][1] # Stop
  <2>1. CASE fate' = [fate EXCEPT ![l][queue[l][1].id] = "settled"]
             /\ (worker' = worker \/ worker' = [worker EXCEPT ![l] = [at |-> "recording", id |-> queue[l][1].id, pieces |-> 0]])
    BY <1>3, <1>5, <2>1 DEF SpeechTypes
  <2>2. CASE fate' = fate /\ worker' = [worker EXCEPT ![l] = [at |-> "speaking", id |-> queue[l][1].id, pieces |-> 0]]
    BY <1>3, <1>5, <2>2 DEF SpeechTypes
  <2> QED
    BY <1>1, <1>5, <2>1, <2>2 DEF Take
<1> QED
  BY <1>4, <1>5

\* Speaking and recording: a block goes out, the phrase is over, or its record
\* is.
LEMMA TalkEffect ==
  ASSUME SpeechTypes, NEW l \in Languages, Speak(l) \/ Persist(l)
  PROVE  /\ queue'[l] = queue[l]
         /\ \/ /\ worker[l].at = "speaking" /\ worker'[l].at = "speaking"
               /\ worker'[l].id = worker[l].id /\ worker'[l].pieces > 0
               /\ fate'[l] = fate[l]
               /\ published'[l] = IF worker[l].pieces = 0 THEN Append(published[l], worker[l].id) ELSE published[l]
            \/ /\ worker[l].at = "speaking" /\ worker'[l].at \in {"idle", "recording"}
               /\ fate'[l] = [fate[l] EXCEPT ![worker[l].id] = "settled"]
               /\ published'[l] = published[l]
            \/ /\ worker[l].at = "recording" /\ worker'[l].at = "idle"
               /\ fate'[l] = fate[l] /\ published'[l] = published[l]
<1>1. worker[l] \in WorkerStates
  BY DEF SpeechTypes
<1>2. CASE Push(l)
  <2>1. worker'[l] = [worker[l] EXCEPT !.pieces = @ + 1]
    BY <1>2 DEF Push, SpeechTypes
  <2>2. worker'[l].at = worker[l].at /\ worker'[l].id = worker[l].id /\ worker'[l].pieces > 0
    BY <1>1, <2>1 DEF WorkerStates
  <2> QED
    BY <1>2, <2>2 DEF Push, SpeechTypes
<1>3. CASE Spoken(l)
  BY <1>1, <1>3 DEF Spoken, SpeechTypes, WorkerStates
<1>4. CASE SpeakFails(l)
  BY <1>4 DEF SpeakFails, SpeechTypes, Idle
<1>5. CASE Persist(l)
  BY <1>5 DEF Persist, SpeechTypes, Idle
<1> QED
  BY <1>2, <1>3, <1>4, <1>5 DEF Speak

-----------------------------------------------------------------------------
(* run() and what is over at each of its stages.                           *)

\* Each step of run(), the watchdog, the pump and the workers keeps the stages
\* in order.
LEMMA StagedStep == TypeOK /\ Staged /\ [Next]_vars => Staged'
<1> SUFFICES ASSUME TypeOK, Staged, [Next]_vars PROVE Staged'
  OBVIOUS
<1> USE DEF Staged, Stopping, PumpEnds
<1>1. CASE Publish
  BY <1>1 DEF Publish, pumping, limits, result
<1>2. CASE MarkLive
  BY <1>2 DEF MarkLive, result, speech
<1>3. CASE PumpWins
  BY <1>3 DEF PumpWins, GoToShutdown, pumping, speech
<1>4. CASE LimitWins
  BY <1>4 DEF LimitWins, pumping, limits, result, speech
<1>5. CASE PumpGone
  BY <1>5 DEF PumpGone, GoToShutdown, pumping, speech
<1>6. CASE Interrupt
  BY <1>6 DEF Interrupt, GoToShutdown, pumping, speech
<1>7. CASE StopWorker
  BY <1>7 DEF StopWorker, pumping, limits, result
<1>8. CASE CloseRoom
  <2>1. \A l \in Languages : worker[l].at = "stopped"
    BY <1>8, TargetsAreLanguages DEF CloseRoom, ToldAwaited, ToldAreDone
  <2> QED
    BY <1>8, <2>1 DEF CloseRoom, pumping, limits, result, speech
<1>9. CASE Settle
  BY <1>9 DEF Settle, pumping, limits, speech
<1>10. CASE LimitReached
  BY <1>10 DEF LimitReached, pumping, result, speech
<1>11. CASE Hypothesis \/ StreamEnds
  BY <1>11 DEF Hypothesis, StreamEnds, GoOn, limits, result, speech
<1>12. ASSUME NEW texts \in [Languages -> {"text", "blank", "absent"}], Translated(texts) PROVE Staged'
  BY <1>12 DEF Translated, Translating, GoOn, limits, result
<1>13. CASE PumpFails \/ PumpCancelled
  BY <1>13 DEF PumpFails, Translating, PumpCancelled, Cancelled, limits, result, speech
<1>14. ASSUME NEW l \in Languages, Worker(l) PROVE Staged'
  <2>1. UNCHANGED <<run, told, pump, batch, phrases, watchdog, stopSet, endReason, failure, outcome, roomOpen>>
    BY <1>14, WorkerMinds DEF TypeOK
  <2>2. ~roomOpen => FALSE
    BY <1>14, WorkerMinds DEF TypeOK
  <2> QED
    BY <2>1, <2>2
<1>15. CASE UNCHANGED vars
  BY <1>15 DEF vars, pumping, limits, result, speech
<1>16. CASE InterruptShutdown
  BY <1>16 DEF InterruptShutdown, pumping, limits
<1> QED
  BY <1>1, <1>2, <1>3, <1>4, <1>5, <1>6, <1>7, <1>8, <1>9, <1>10, <1>11, <1>12, <1>13, <1>14, <1>15, <1>16
  DEF Next, Run, Pump, Translate

-----------------------------------------------------------------------------
(* The Stop of each worker.                                                *)

\* What Append and Tail do to the places of a sequence of items.
LEMMA AppendPlaces ==
  ASSUME NEW q \in Seq(Items), NEW x \in Items
  PROVE  /\ Len(q) \in Nat /\ DOMAIN q = 1..Len(q)
         /\ Len(Append(q, x)) = Len(q) + 1 /\ DOMAIN Append(q, x) = 1..(Len(q) + 1)
         /\ \A k \in 1..Len(q) : Append(q, x)[k] = q[k]
         /\ Append(q, x)[Len(q) + 1] = x
OBVIOUS

LEMMA TailPlaces ==
  ASSUME NEW q \in Seq(Items), q # <<>>
  PROVE  /\ Len(q) \in Nat \ {0} /\ DOMAIN q = 1..Len(q) /\ q[1] \in Items
         /\ Len(Tail(q)) = Len(q) - 1 /\ DOMAIN Tail(q) = 1..(Len(q) - 1)
         /\ \A k \in 1..(Len(q) - 1) : Tail(q)[k] = q[k + 1]
         /\ Tail(q) = <<>> <=> Len(q) = 1
<1>1. Len(q) \in Nat \ {0} /\ Tail(q) \in Seq(Items) /\ Len(Tail(q)) = Len(q) - 1
  OBVIOUS
<1>2. Tail(q) = <<>> <=> Len(Tail(q)) = 0
  BY <1>1, EmptySeq
<1> QED
  BY <1>1, <1>2

\* A step of run(), the pump or a worker leaves every Stop last, and a worker
\* that was told with its Stop.
LEMMA StopsStep == TypeOK /\ Staged /\ Stops /\ [Next]_vars => Stops'
<1> SUFFICES ASSUME TypeOK, Staged, Stops, [Next]_vars, outcome' # "interrupted",
                    NEW i \in DOMAIN Targets
             PROVE  StopLast(i)'
  BY DEF Stops
<1> DEFINE l == Targets[i]
<1>t. /\ l \in Languages /\ i \in 1..Len(Targets)
      /\ told \in Nat /\ Len(Targets) \in Nat
      /\ \A j \in 1..Len(Targets) : Targets[j] = l => j = i
  BY TargetsAreLanguages DEF TypeOK, ControlTypes
<1>q. SpeechTypes /\ queue[l] \in Seq(Items)
  BY <1>t DEF TypeOK, SpeechTypes
<1>o. outcome # "interrupted"
  <2>1. CASE Settle
    BY <2>1 DEF Settle, Staged
  <2>2. CASE Interrupt \/ InterruptShutdown
    BY <2>2 DEF Interrupt, InterruptShutdown
  <2>3. CASE Publish \/ MarkLive \/ PumpWins \/ LimitWins \/ PumpGone \/ StopWorker \/ CloseRoom
    BY <2>3 DEF Publish, MarkLive, PumpWins, LimitWins, PumpGone, StopWorker, CloseRoom, result
  <2>4. CASE LimitReached \/ Pump \/ UNCHANGED vars
    BY <2>4 DEF LimitReached, Pump, Hypothesis, StreamEnds, Translate, Translated, PumpFails, PumpCancelled, vars, result
  <2>5. ASSUME NEW m \in Languages, Worker(m) PROVE outcome' = outcome
    BY <1>q, <2>5, WorkerMinds
  <2> QED
    BY <2>1, <2>2, <2>3, <2>4, <2>5 DEF Next, Run
<1>i. StopLast(i)
  BY <1>o DEF Stops
<1>u. queue'[l] = queue[l] /\ worker'[l] = worker[l] /\ told' = told => StopLast(i)'
  BY <1>i DEF StopLast
<1>1. CASE Publish
  <2>1. told = 0
    BY <1>1, <1>t DEF Publish, Staged, Stopping
  <2>2. told' = told /\ queue' = queue /\ worker'[l].at # "stopped"
    BY <1>1, <1>t, <1>u, <1>i, <2>1, <1>q DEF Publish, Idle, StopLast
  <2> QED
    BY <1>i, <1>t, <2>1, <2>2 DEF StopLast
<1>2. CASE UNCHANGED <<told, queue, worker>>
  BY <1>2, <1>u
<1>3. CASE StopWorker
  <2>1. told' = told + 1 /\ told + 1 \in 1..Len(Targets) /\ worker' = worker
    BY <1>3, <1>t DEF StopWorker
  <2>2. CASE i = told + 1
    <3>1. queue'[l] = Append(queue[l], Stop)
      BY <1>3, <1>t, <1>q, <2>1, <2>2 DEF StopWorker, SpeechTypes
    <3>2. \A k \in DOMAIN queue[l] : queue[l][k] # Stop
      BY <1>i, <1>t, <2>2 DEF StopLast
    <3>3. worker[l].at # "stopped"
      BY <1>i, <1>t, <2>2 DEF StopLast
    <3>4. Stop \in Items
      BY ItemFacts
    <3> QED
      BY <1>q, <2>1, <2>2, <3>1, <3>2, <3>3, <3>4, AppendPlaces DEF StopLast
  <2>3. CASE i # told + 1
    <3>1. Targets[told + 1] # l
      BY <1>t, <2>1, <2>3
    <3>2. queue'[l] = queue[l]
      BY <1>3, <1>q, <1>t, <2>1, <3>1 DEF StopWorker, SpeechTypes
    <3>3. i <= told' <=> i <= told
      BY <1>t, <2>1, <2>3
    <3> QED
      BY <1>i, <2>1, <3>2, <3>3 DEF StopLast
  <2> QED
    BY <2>2, <2>3
<1>4. ASSUME NEW texts \in [Languages -> {"text", "blank", "absent"}], Translated(texts) PROVE StopLast(i)'
  <2>1. told = 0
    BY <1>4, <1>o, <1>t DEF Translated, Translating, Staged, PumpEnds
  <2>2. told' = told /\ worker' = worker
    BY <1>4 DEF Translated
  <2>3. phrases \in Phrases
    BY <1>4 DEF Translated, TypeOK, ControlTypes, Phrases
  <2>4. PICK x \in Items : x # Stop /\ queue'[l] \in {queue[l], Append(queue[l], x)}
    <3>1. [id |-> phrases, blank |-> texts[l] = "blank"] \in Items
      BY <2>3 DEF Items
    <3>2. [id |-> phrases, blank |-> texts[l] = "blank"].id # 0
      BY <2>3, ItemFacts
    <3> QED
      BY <1>4, <1>t, <3>1, <3>2, ItemFacts DEF Translated
  <2>5. \A k \in DOMAIN queue[l] : queue[l][k] # Stop
    BY <1>i, <1>t, <2>1 DEF StopLast
  <2>6. \A k \in DOMAIN queue'[l] : queue'[l][k] # Stop
    <3>1. \A k \in DOMAIN Append(queue[l], x) : Append(queue[l], x)[k] # Stop
      BY <1>q, <2>4, <2>5, AppendPlaces
    <3> QED
      BY <2>4, <2>5, <3>1, Zenon
  <2> QED
    BY <1>i, <1>t, <2>1, <2>2, <2>6 DEF StopLast
<1>5. ASSUME NEW m \in Languages, Worker(m) PROVE StopLast(i)'
  <2>1. told' = told
    BY <1>5, <1>q, WorkerMinds
  <2>2. CASE m # l
    BY <1>5, <1>q, <1>t, <1>u, <2>1, <2>2, WorkerMinds
  <2>3. CASE m = l /\ Take(l)
    <3>1. queue[l] # <<>> /\ queue'[l] = Tail(queue[l]) /\ worker[l].at = "idle"
      BY <1>q, <1>t, <2>3, TakeEffect
    <3>2. worker'[l].at = "stopped" <=> queue[l][1] = Stop
      <4>1. \/ queue[l][1] = Stop /\ worker'[l].at = "stopped"
            \/ queue[l][1] # Stop /\ worker'[l].at \in {"idle", "recording"}
            \/ queue[l][1] # Stop /\ worker'[l].at = "speaking"
        BY <1>q, <1>t, <2>3, TakeEffect, Zenon
      <4> QED
        BY <4>1
    <3>3. queue'[l] = <<>> <=> Len(queue[l]) = 1
      BY <1>q, <3>1, TailPlaces
    <3>4. /\ Len(queue[l]) \in Nat \ {0} /\ DOMAIN queue[l] = 1..Len(queue[l])
          /\ Len(queue'[l]) = Len(queue[l]) - 1 /\ DOMAIN queue'[l] = 1..(Len(queue[l]) - 1)
          /\ \A k \in DOMAIN queue'[l] : queue'[l][k] = queue[l][k + 1]
      BY <1>q, <3>1, TailPlaces
    <3>5. ASSUME NEW k \in DOMAIN queue'[l], queue'[l][k] = Stop PROVE i <= told /\ k = Len(queue'[l])
      <4>1. k \in Nat /\ k + 1 \in DOMAIN queue[l] /\ queue[l][k + 1] = Stop
        BY <3>4, <3>5
      <4> QED
        BY <1>i, <3>4, <4>1 DEF StopLast
    <3>6. worker'[l].at = "stopped" => i <= told /\ queue'[l] = <<>>
      BY <1>i, <3>2, <3>3, <3>4 DEF StopLast
    <3>7. i <= told /\ worker'[l].at # "stopped" => queue'[l] # <<>> /\ queue'[l][Len(queue'[l])] = Stop
      BY <1>i, <3>1, <3>2, <3>3, <3>4 DEF StopLast
    <3> QED
      BY <2>1, <3>5, <3>6, <3>7 DEF StopLast
  <2>4. CASE m = l /\ (Speak(l) \/ Persist(l))
    <3>1. queue'[l] = queue[l] /\ worker[l].at # "stopped" /\ worker'[l].at # "stopped"
      BY <1>q, <1>t, <2>4, TalkEffect
    <3> QED
      BY <1>i, <2>1, <3>1 DEF StopLast
  <2> QED
    BY <1>5, <2>2, <2>3, <2>4 DEF Worker
<1> QED
  <2>1. CASE MarkLive \/ PumpWins \/ LimitWins \/ PumpGone \/ CloseRoom \/ Settle
    BY <1>2, <2>1 DEF MarkLive, PumpWins, LimitWins, PumpGone, CloseRoom, Settle, speech
  <2>2. CASE Interrupt \/ LimitReached \/ Hypothesis \/ StreamEnds \/ PumpFails \/ PumpCancelled \/ UNCHANGED vars
    BY <1>2, <2>2 DEF Interrupt, LimitReached, Hypothesis, StreamEnds, PumpFails, PumpCancelled, speech, vars
  <2>3. ~InterruptShutdown
    BY DEF InterruptShutdown
  <2> QED
    BY <1>1, <1>3, <1>4, <1>5, <2>1, <2>2, <2>3 DEF Next, Run, Pump, Translate

-----------------------------------------------------------------------------
(* Where each phrase is.                                                   *)

\* A worker settles only phrases it was given, so which phrases are undecided
\* is not its doing.
LEMMA WorkerDecidesNothing ==
  ASSUME SpeechTypes, NEW l \in Languages, InOrder(l), Worker(l)
  PROVE  \A m \in Languages, p \in Phrases : fate'[m][p] = "none" <=> fate[m][p] = "none"
<1>1. \A m \in Languages \ {l} : fate'[m] = fate[m]
  BY WorkerMinds
<1>2. CASE fate'[l] = fate[l]
  BY <1>1, <1>2
<1>3. ASSUME NEW q \in Phrases, fate[l][q] # "none", fate'[l] = [fate[l] EXCEPT ![q] = "settled"]
      PROVE  \A p \in Phrases : fate'[l][p] = "none" <=> fate[l][p] = "none"
  BY <1>3 DEF SpeechTypes
<1>4. CASE Take(l)
  <2>1. /\ queue[l] # <<>>
        /\ \/ fate'[l] = fate[l]
           \/ queue[l][1] # Stop /\ fate'[l] = [fate[l] EXCEPT ![queue[l][1].id] = "settled"]
    BY <1>4, TakeEffect
  <2>2. CASE queue[l][1] # Stop
    <3>1. queue[l][1].id \in Phrases /\ 1 \in DOMAIN queue[l]
      BY <2>1, <2>2, ItemFacts, TailPlaces DEF SpeechTypes
    <3>2. fate[l][queue[l][1].id] # "none"
      BY <3>1, ItemFacts DEF InOrder
    <3> QED
      BY <1>1, <1>2, <1>3, <2>1, <3>1, <3>2
  <2> QED
    BY <1>2, <2>1, <2>2
<1>5. CASE Speak(l) \/ Persist(l)
  <2>1. \/ fate'[l] = fate[l]
        \/ worker[l].at = "speaking" /\ fate'[l] = [fate[l] EXCEPT ![worker[l].id] = "settled"]
    BY <1>5, TalkEffect
  <2>2. worker[l].at = "speaking" => worker[l].id \in Phrases /\ fate[l][worker[l].id] # "none"
    BY DEF SpeechTypes, InOrder
  <2> QED
    BY <1>1, <1>2, <1>3, <2>1, <2>2
<1> QED
  BY <1>4, <1>5 DEF Worker

\* Nor is it that of an interrupt, which settles what the worker was saying.
LEMMA CutDecidesNothing ==
  ASSUME TypeOK, \A l \in Languages : InOrder(l), InterruptShutdown
  PROVE  \A m \in Languages, p \in Phrases : fate'[m][p] = "none" <=> fate[m][p] = "none"
<1>1. SpeechTypes /\ told \in 0..Len(Targets)
  BY DEF TypeOK, ControlTypes
<1>2. PICK l \in Languages, f \in [Phrases -> {"none", "given", "settled"}] :
        /\ fate' = [fate EXCEPT ![l] = f]
        /\ \/ f = fate[l]
           \/ worker[l].at = "speaking" /\ f = [fate[l] EXCEPT ![worker[l].id] = "settled"]
  BY <1>1, CutEffect
<1>3. worker[l].at = "speaking" => worker[l].id \in Phrases /\ fate[l][worker[l].id] # "none"
  BY <1>1 DEF SpeechTypes, InOrder
<1>4. \A p \in Phrases : f[p] = "none" <=> fate[l][p] = "none"
  BY <1>1, <1>2, <1>3 DEF SpeechTypes
<1> QED
  BY <1>1, <1>2, <1>4 DEF SpeechTypes

\* Phrases are decided on in the order they are committed, for all languages at
\* once.
LEMMA DecidedStep ==
  TypeOK /\ Staged /\ Decided /\ (\A l \in Languages : InOrder(l)) /\ [Next]_vars => Decided'
<1> SUFFICES ASSUME TypeOK, Staged, Decided, \A l \in Languages : InOrder(l), [Next]_vars PROVE Decided'
  OBVIOUS
<1>n. phrases \in Nat /\ batch \in Nat /\ MaxPhrases \in Nat /\ phrases + batch <= MaxPhrases
  BY TargetsAreLanguages DEF TypeOK, ControlTypes
<1>p. Translating => phrases \in Phrases
  BY <1>n DEF TypeOK, ControlTypes, Phrases
<1>1. CASE UNCHANGED <<pump, phrases, fate>>
  BY <1>1 DEF Decided, Translating
<1>2. CASE MarkLive
  BY <1>2 DEF MarkLive, Staged, Decided, Translating, speech
<1>3. ASSUME NEW last \in BOOLEAN, NEW n \in 0..MaxBatch,
             pump = "listening", GoOn(n, last), phrases + n <= MaxPhrases, fate' = fate
      PROVE  Decided'
  <2>1. CASE n > 0
    <3>1. phrases' = phrases + 1 /\ phrases' \in Phrases
      BY <1>3, <1>n, <2>1 DEF GoOn, Phrases
    <3>2. pump' \in {"translating", "flushing"}
      BY <1>3, <2>1 DEF GoOn
    <3>3. \A l \in Languages : fate'[l][phrases'] = "none"
      BY <1>3, <1>n, <3>1 DEF Decided
    <3>4. \A l \in Languages, p \in Phrases : p < phrases' => fate'[l][p] # "none"
      BY <1>3, <1>n, <3>1 DEF Decided, Phrases
    <3>5. \A l \in Languages, p \in Phrases : p > phrases' => fate'[l][p] = "none"
      BY <1>3, <1>n, <3>1 DEF Decided, Phrases
    <3> QED
      BY <3>2, <3>3, <3>4, <3>5 DEF Decided
  <2>2. CASE ~(n > 0)
    BY <1>3, <2>2 DEF GoOn, Decided, Translating
  <2> QED
    BY <2>1, <2>2
<1>4. CASE Hypothesis
  <2>1. PICK n \in 0..MaxBatch : phrases + n <= MaxPhrases /\ GoOn(n, stopSet)
    BY <1>4 DEF Hypothesis
  <2> QED
    BY <1>3, <1>4, <2>1 DEF Hypothesis, speech, TypeOK, ControlTypes
<1>5. CASE StreamEnds
  <2>1. PICK n \in 0..MaxBatch : phrases + n <= MaxPhrases /\ GoOn(n, TRUE)
    BY <1>5 DEF StreamEnds
  <2> QED
    BY <1>3, <1>5, <2>1 DEF StreamEnds, speech
<1>6. CASE PumpFails \/ PumpCancelled
  <2>1. pump' \in {"failed", "cancelled"} /\ phrases' = phrases /\ fate' = fate
    BY <1>6 DEF PumpFails, PumpCancelled, speech
  <2> QED
    BY <2>1 DEF Decided, Translating
<1>7. ASSUME NEW texts \in [Languages -> {"text", "blank", "absent"}], Translated(texts) PROVE Decided'
  <2>1. Translating /\ phrases \in Phrases /\ GoOn(batch, pump = "flushing")
    BY <1>7, <1>p DEF Translated
  <2>2. \A l \in Languages : fate'[l][phrases] # "none"
    BY <1>7, <2>1 DEF Translated, TypeOK, SpeechTypes
  <2>3. \A l \in Languages, p \in Phrases : p # phrases => fate'[l][p] = fate[l][p]
    BY <1>7, <2>1 DEF Translated, TypeOK, SpeechTypes
  <2>4. \A l \in Languages, p \in Phrases : p <= phrases => fate'[l][p] # "none"
    BY <1>n, <2>1, <2>2, <2>3 DEF Decided, Phrases
  <2>5. \A l \in Languages, p \in Phrases : p > phrases => fate'[l][p] = "none"
    BY <1>n, <2>1, <2>3 DEF Decided, Phrases
  <2>6. CASE batch > 0
    <3>1. phrases' = phrases + 1 /\ phrases' \in Phrases /\ pump' \in {"translating", "flushing"}
      BY <1>n, <2>1, <2>6 DEF GoOn, Phrases
    <3>2. \A l \in Languages : fate'[l][phrases'] = "none"
      BY <1>n, <2>5, <3>1
    <3>3. \A l \in Languages, p \in Phrases : p < phrases' => fate'[l][p] # "none"
      BY <1>n, <2>4, <3>1 DEF Phrases
    <3>4. \A l \in Languages, p \in Phrases : p > phrases' => fate'[l][p] = "none"
      BY <1>n, <2>5, <3>1 DEF Phrases
    <3> QED
      BY <3>1, <3>2, <3>3, <3>4 DEF Decided
  <2>7. CASE ~(batch > 0)
    <3>1. phrases' = phrases /\ pump' \in {"done", "listening"}
      BY <2>1, <2>7 DEF GoOn
    <3>2. \A l \in Languages, p \in 1..phrases : fate'[l][p] # "none"
      BY <1>n, <2>4, <2>1 DEF Phrases
    <3>3. \A l \in Languages, p \in Phrases : p < phrases => fate'[l][p] # "none"
      BY <1>n, <2>4 DEF Phrases
    <3> QED
      BY <2>2, <2>5, <3>1, <3>2, <3>3 DEF Decided, Translating
  <2> QED
    BY <2>6, <2>7
<1>8. ASSUME NEW l \in Languages, Worker(l) PROVE Decided'
  <2>1. UNCHANGED <<pump, phrases>>
    BY <1>8, WorkerMinds DEF TypeOK
  <2>2. \A m \in Languages, p \in Phrases : fate'[m][p] = "none" <=> fate[m][p] = "none"
    BY <1>8, WorkerDecidesNothing DEF TypeOK
  <2>3. phrases > 0 => phrases \in Phrases
    BY <1>n DEF Phrases
  <2>4. 1..phrases \subseteq Phrases
    BY <1>n DEF Phrases
  <2> QED
    BY <1>p, <2>1, <2>2, <2>3, <2>4 DEF Decided, Translating
<1>9. CASE InterruptShutdown
  <2>1. UNCHANGED <<pump, phrases>>
    BY <1>9 DEF InterruptShutdown, pumping
  <2>2. \A m \in Languages, p \in Phrases : fate'[m][p] = "none" <=> fate[m][p] = "none"
    BY <1>9, CutDecidesNothing
  <2>3. (phrases > 0 => phrases \in Phrases) /\ 1..phrases \subseteq Phrases
    BY <1>n DEF Phrases
  <2> QED
    BY <1>p, <2>1, <2>2, <2>3 DEF Decided, Translating
<1> QED
  <2>1. CASE Publish \/ PumpWins \/ LimitWins \/ PumpGone \/ StopWorker \/ CloseRoom \/ Settle
    BY <1>1, <2>1 DEF Publish, PumpWins, LimitWins, PumpGone, StopWorker, CloseRoom, Settle, speech, pumping
  <2>2. CASE Interrupt \/ LimitReached \/ UNCHANGED vars
    BY <1>1, <2>2 DEF Interrupt, LimitReached, speech, pumping, vars
  <2> QED
    BY <1>2, <1>4, <1>5, <1>6, <1>7, <1>8, <1>9, <2>1, <2>2 DEF Next, Run, Pump, Translate

\* A phrase leaves a queue for the mouth, and the mouth when it is settled.
LEMMA KeptStep ==
  TypeOK /\ Staged /\ Decided /\ (\A l \in Languages : Kept(l)) /\ [Next]_vars => \A l \in Languages : Kept(l)'
<1> SUFFICES ASSUME TypeOK, Staged, Decided, NEW l \in Languages, Kept(l), [Next]_vars PROVE Kept(l)'
  OBVIOUS
<1>q. SpeechTypes /\ queue[l] \in Seq(Items)
  BY DEF TypeOK, SpeechTypes
<1>1. CASE UNCHANGED <<queue, worker, fate>>
  BY <1>1 DEF Kept
<1>2. CASE Publish
  <2>1. phrases = 0 /\ fate' = fate
    BY <1>2 DEF Publish, Staged, Decided
  <2>2. \A p \in Phrases : fate[l][p] = "none"
    BY <2>1 DEF Decided, Phrases
  <2> QED
    BY <2>1, <2>2 DEF Kept
<1>3. CASE StopWorker
  <2>1. queue'[l] \in {queue[l], Append(queue[l], Stop)}
    BY <1>3, <1>q DEF StopWorker, SpeechTypes
  <2>2. \A k \in DOMAIN queue[l] : k \in DOMAIN queue'[l] /\ queue'[l][k] = queue[l][k]
    <3>1. \A k \in DOMAIN queue[l] : k \in DOMAIN Append(queue[l], Stop) /\ Append(queue[l], Stop)[k] = queue[l][k]
      BY <1>q, ItemFacts, AppendPlaces
    <3> QED
      BY <2>1, <3>1
  <2> QED
    BY <1>3, <2>2 DEF StopWorker, Kept
<1>4. ASSUME NEW texts \in [Languages -> {"text", "blank", "absent"}], Translated(texts) PROVE Kept(l)'
  <2>1. phrases \in Phrases /\ worker' = worker
    BY <1>4, TargetsAreLanguages DEF Translated, TypeOK, ControlTypes, Phrases
  <2> DEFINE x == [id |-> phrases, blank |-> texts[l] = "blank"]
  <2>2. x \in Items /\ x.id = phrases
    BY <2>1 DEF Items
  <2>3. queue'[l] = IF texts[l] = "absent" THEN queue[l] ELSE Append(queue[l], x)
    BY <1>4 DEF Translated
  <2>4. fate'[l] = [fate[l] EXCEPT ![phrases] = IF texts[l] = "absent" THEN "settled" ELSE "given"]
    BY <1>4 DEF Translated
  <2>5. \A k \in DOMAIN queue[l] : k \in DOMAIN queue'[l] /\ queue'[l][k] = queue[l][k]
    BY <1>q, <2>2, <2>3, AppendPlaces
  <2>6. ASSUME NEW p \in Phrases, fate'[l][p] = "given", p # phrases
        PROVE  \/ worker'[l].at = "speaking" /\ worker'[l].id = p
               \/ \E k \in DOMAIN queue'[l] : queue'[l][k].id = p
    <3>1. fate[l][p] = "given"
      BY <1>q, <2>4, <2>6 DEF SpeechTypes
    <3> QED
      BY <2>1, <2>5, <3>1 DEF Kept
  <2>7. ASSUME fate'[l][phrases] = "given"
        PROVE  \E k \in DOMAIN queue'[l] : queue'[l][k].id = phrases
    <3>1. texts[l] # "absent"
      BY <1>q, <2>1, <2>4, <2>7 DEF SpeechTypes
    <3> HIDE DEF x
    <3>2. queue'[l] = Append(queue[l], x)
      BY <2>3, <3>1
    <3>3. Len(queue[l]) + 1 \in DOMAIN queue'[l] /\ queue'[l][Len(queue[l]) + 1] = x
      BY <1>q, <2>2, <3>2, AppendPlaces
    <3> QED
      BY <2>2, <3>3
  <2> QED
    BY <2>6, <2>7 DEF Kept
<1>5. ASSUME NEW m \in Languages, Worker(m), m # l PROVE Kept(l)'
  BY <1>5, <1>q, WorkerMinds DEF Kept
<1>6. CASE Take(l)
  <2>1. /\ queue[l] # <<>> /\ queue'[l] = Tail(queue[l]) /\ worker[l].at = "idle"
        /\ \/ queue[l][1] = Stop /\ fate'[l] = fate[l]
           \/ fate'[l] = [fate[l] EXCEPT ![queue[l][1].id] = "settled"]
           \/ worker'[l].at = "speaking" /\ worker'[l].id = queue[l][1].id /\ fate'[l] = fate[l]
    BY <1>6, <1>q, TakeEffect
  <2>2. ASSUME NEW p \in Phrases, fate'[l][p] = "given"
        PROVE  \/ worker'[l].at = "speaking" /\ worker'[l].id = p
               \/ \E k \in DOMAIN queue'[l] : queue'[l][k].id = p
    <3>1. fate[l][p] = "given" /\ p # 0
      <4>1. p # 0 /\ fate[l] \in [Phrases -> {"none", "given", "settled"}]
        BY <1>q, ItemFacts DEF SpeechTypes
      <4> QED
        BY <2>1, <2>2, <4>1
    <3>2. PICK k \in DOMAIN queue[l] : queue[l][k].id = p
      BY <2>1, <3>1 DEF Kept
    <3>3. CASE k = 1
      <4>1. queue[l][1] # Stop
        BY <3>1, <3>2, <3>3, ItemFacts
      <4>2. ~ (fate'[l] = [fate[l] EXCEPT ![queue[l][1].id] = "settled"])
        BY <1>q, <2>2, <3>2, <3>3 DEF SpeechTypes
      <4> QED
        BY <2>1, <3>2, <3>3, <4>1, <4>2
    <3>4. CASE k # 1
      <4>1. k - 1 \in DOMAIN queue'[l] /\ queue'[l][k - 1] = queue[l][k]
        BY <1>q, <2>1, <3>4, TailPlaces
      <4> QED
        BY <3>2, <4>1
    <3> QED
      BY <3>3, <3>4
  <2> QED
    BY <2>2 DEF Kept
<1>7. CASE Speak(l) \/ Persist(l)
  <2>1. queue'[l] = queue[l]
    BY <1>7, <1>q, TalkEffect
  <2>2. \/ worker[l].at = "speaking" /\ worker'[l].at = "speaking" /\ worker'[l].id = worker[l].id /\ fate'[l] = fate[l]
        \/ worker[l].at = "speaking" /\ fate'[l] = [fate[l] EXCEPT ![worker[l].id] = "settled"]
        \/ worker[l].at # "speaking" /\ fate'[l] = fate[l]
    BY <1>7, <1>q, TalkEffect
  <2>3. fate[l] \in [Phrases -> {"none", "given", "settled"}]
    BY <1>q DEF SpeechTypes
  <2> QED
    BY <2>1, <2>2, <2>3 DEF Kept
<1>8. CASE InterruptShutdown
  <2>1. queue' = queue
    BY <1>8 DEF InterruptShutdown
  <2>2. PICK m \in Languages, w \in WorkerStates, f \in [Phrases -> {"none", "given", "settled"}] :
          /\ worker' = [worker EXCEPT ![m] = w] /\ fate' = [fate EXCEPT ![m] = f]
          /\ \/ worker[m].at # "speaking" /\ f = fate[m]
             \/ worker[m].at = "speaking" /\ f = [fate[m] EXCEPT ![worker[m].id] = "settled"]
    BY <1>8, <1>q, CutEffect DEF TypeOK, ControlTypes
  <2>3. CASE m # l
    BY <1>q, <2>1, <2>2, <2>3 DEF Kept, SpeechTypes
  <2>4. CASE m = l
    <3>1. fate'[l] = f /\ fate[l] \in [Phrases -> {"none", "given", "settled"}]
      BY <1>q, <2>2, <2>4 DEF SpeechTypes
    <3> QED
      BY <2>1, <2>2, <2>4, <3>1 DEF Kept
  <2> QED
    BY <2>3, <2>4
<1> QED
  <2>1. CASE MarkLive \/ PumpWins \/ LimitWins \/ PumpGone \/ CloseRoom \/ Settle
    BY <1>1, <2>1 DEF MarkLive, PumpWins, LimitWins, PumpGone, CloseRoom, Settle, speech
  <2>2. CASE Interrupt \/ LimitReached \/ Hypothesis \/ StreamEnds \/ PumpFails \/ PumpCancelled \/ UNCHANGED vars
    BY <1>1, <2>2 DEF Interrupt, LimitReached, Hypothesis, StreamEnds, PumpFails, PumpCancelled, speech, vars
  <2>3. ASSUME NEW m \in Languages, Worker(m) PROVE Kept(l)'
    BY <1>5, <1>6, <1>7, <2>3 DEF Worker
  <2> QED
    BY <1>2, <1>3, <1>4, <1>8, <2>1, <2>2, <2>3 DEF Next, Run, Pump, Translate

-----------------------------------------------------------------------------
(* The line of each language.                                              *)

\* Where a phrase is in a queue, in a mouth or published, it was decided on, so
\* it is none that is yet to come.
LEMMA InLineIsPast ==
  ASSUME TypeOK, Decided, NEW l \in Languages, NEW p \in Phrases, fate[l][p] # "none"
  PROVE  p <= phrases
BY DEF TypeOK, ControlTypes, Decided, Phrases

\* Each step keeps every language's line in order: the pump adds to its end what
\* is newer than all of it, and the worker moves its parts along.
LEMMA InOrderStep ==
  TypeOK /\ Staged /\ Decided /\ (\A l \in Languages : InOrder(l)) /\ [Next]_vars => \A l \in Languages : InOrder(l)'
<1> SUFFICES ASSUME TypeOK, Staged, Decided, NEW l \in Languages, InOrder(l), [Next]_vars,
                    InterruptShutdown => \A p \in Phrases : fate'[l][p] = "none" <=> fate[l][p] = "none"
             PROVE  InOrder(l)'
  BY CutDecidesNothing
<1>q. SpeechTypes /\ queue[l] \in Seq(Items) /\ published[l] \in Seq(Phrases)
  BY DEF TypeOK, SpeechTypes
<1>w. worker[l].at = "speaking" => worker[l].id \in Phrases
  BY <1>q DEF SpeechTypes
<1>i. \A x \in Items : x.id # 0 => x.id \in Phrases /\ x.id \in Nat
  BY ItemFacts
<1>1. CASE UNCHANGED <<queue, worker, fate, published>>
  BY <1>1 DEF InOrder
<1>2. CASE Publish
  <2>1. UNCHANGED <<queue, fate, published>>
    BY <1>2 DEF Publish
  <2>2. CASE worker' = [m \in Languages |-> Idle]
    <3>1. worker'[l].at = "idle"
      BY <2>2 DEF Idle
    <3> QED
      BY <2>1, <3>1 DEF InOrder
  <2> QED
    BY <1>1, <1>2, <2>1, <2>2 DEF Publish
<1>3. CASE StopWorker
  <2>1. queue'[l] \in {queue[l], Append(queue[l], Stop)} /\ UNCHANGED <<worker, fate, published>>
    BY <1>3, <1>q DEF StopWorker, SpeechTypes
  <2>2. CASE queue'[l] = queue[l]
    BY <2>1, <2>2 DEF InOrder
  <2>3. CASE queue'[l] = Append(queue[l], Stop)
    <3>1. \A k \in DOMAIN queue'[l] : queue'[l][k].id # 0 => k \in DOMAIN queue[l] /\ queue'[l][k] = queue[l][k]
      BY <1>q, <2>3, ItemFacts, AppendPlaces
    <3> QED
      BY <2>1, <3>1 DEF InOrder
  <2> QED
    BY <2>1, <2>2, <2>3
<1>4. ASSUME NEW texts \in [Languages -> {"text", "blank", "absent"}], Translated(texts) PROVE InOrder(l)'
  <2>1. phrases \in Phrases /\ phrases \in Nat /\ UNCHANGED <<worker, published>>
    BY <1>4, TargetsAreLanguages DEF Translated, TypeOK, ControlTypes, Phrases
  <2> DEFINE x == [id |-> phrases, blank |-> texts[l] = "blank"]
  <2>2. x \in Items /\ x.id = phrases
    BY <2>1 DEF Items
  <2>3. queue'[l] \in {queue[l], Append(queue[l], x)}
    BY <1>4 DEF Translated
  <2>4. fate[l][phrases] = "none"
    BY <1>4 DEF Translated, Decided
  <2>5. \A p \in Phrases : fate[l][p] # "none" => p < phrases /\ fate'[l][p] # "none"
    <3>1. \A p \in Phrases : fate[l][p] # "none" => p < phrases
      BY <2>1, <2>4, InLineIsPast DEF Phrases
    <3> QED
      BY <1>4, <1>q, <2>4, <3>1 DEF Translated, SpeechTypes
  <2>6. fate'[l][phrases] # "none"
    BY <1>4, <1>q, <2>1 DEF Translated, SpeechTypes
  <2>7. \A k \in DOMAIN queue'[l] :
          \/ k \in DOMAIN queue[l] /\ queue'[l][k] = queue[l][k]
          \/ queue'[l][k].id = phrases /\ k = Len(queue[l]) + 1
    <3> HIDE DEF x
    <3>1. \A k \in DOMAIN Append(queue[l], x) :
            \/ k \in DOMAIN queue[l] /\ Append(queue[l], x)[k] = queue[l][k]
            \/ Append(queue[l], x)[k] = x /\ k = Len(queue[l]) + 1
      BY <1>q, <2>2, AppendPlaces
    <3> QED
      BY <2>2, <2>3, <3>1
  <2>8. \A k \in DOMAIN queue[l] : queue[l][k].id # 0 => queue[l][k].id \in Phrases /\ queue[l][k].id < phrases
    BY <1>i, <1>q, <2>5 DEF InOrder
  <2>9. \A i \in DOMAIN published[l] : published[l][i] \in Phrases /\ published[l][i] < phrases
    BY <1>q, <2>5 DEF InOrder
  <2>10. worker[l].at = "speaking" => worker[l].id < phrases
    BY <1>w, <2>5 DEF InOrder
  <2>11. \A k \in DOMAIN queue'[l] : queue'[l][k].id # 0 => fate'[l][queue'[l][k].id] # "none"
    BY <2>5, <2>6, <2>7, <2>8 DEF InOrder
  <2>12. \A i, j \in DOMAIN queue'[l] :
           i < j /\ queue'[l][i].id # 0 /\ queue'[l][j].id # 0 => queue'[l][i].id < queue'[l][j].id
    <3>1. \A k \in DOMAIN queue[l] : k \in Nat /\ k < Len(queue[l]) + 1
      BY <1>q
    <3>2. ASSUME NEW i \in DOMAIN queue'[l], NEW j \in DOMAIN queue'[l],
                 i < j, queue'[l][i].id # 0, queue'[l][j].id # 0
          PROVE  queue'[l][i].id < queue'[l][j].id
      <4>1. i \in DOMAIN queue[l] /\ queue'[l][i] = queue[l][i]
        <5>1. Len(queue[l]) \in Nat
          BY <1>q
        <5> QED
          BY <2>7, <3>1, <3>2, <5>1
      <4>2. CASE j \in DOMAIN queue[l] /\ queue'[l][j] = queue[l][j]
        BY <3>2, <4>1, <4>2 DEF InOrder
      <4>3. CASE queue'[l][j].id = phrases
        BY <2>8, <3>2, <4>1, <4>3
      <4> QED
        BY <2>7, <4>2, <4>3
    <3> QED
      BY <3>2
  <2>13. \A i \in DOMAIN published'[l], j \in DOMAIN queue'[l] :
           queue'[l][j].id # 0 => published'[l][i] < queue'[l][j].id
    BY <2>1, <2>7, <2>9 DEF InOrder
  <2>14. worker'[l].at = "speaking" =>
           \A j \in DOMAIN queue'[l] : queue'[l][j].id # 0 => worker'[l].id < queue'[l][j].id
    BY <2>1, <2>7, <2>10 DEF InOrder
  <2>15. /\ worker'[l].at = "speaking" => fate'[l][worker'[l].id] # "none"
         /\ \A i \in DOMAIN published'[l] : fate'[l][published'[l][i]] # "none"
    BY <1>w, <2>1, <2>5, <2>9 DEF InOrder
  <2> QED
    BY <2>1, <2>11, <2>12, <2>13, <2>14, <2>15 DEF InOrder
<1>5. ASSUME NEW m \in Languages, Worker(m), m # l PROVE InOrder(l)'
  <2>1. queue'[l] = queue[l] /\ worker'[l] = worker[l] /\ fate'[l] = fate[l] /\ published'[l] = published[l]
    BY <1>5, <1>q, WorkerMinds
  <2> QED
    BY <2>1 DEF InOrder
<1>6. CASE Take(l)
  <2>1. /\ queue[l] # <<>> /\ queue'[l] = Tail(queue[l]) /\ published'[l] = published[l]
        /\ \/ worker'[l].at # "speaking"
           \/ worker'[l].at = "speaking" /\ worker'[l].id = queue[l][1].id /\ queue[l][1] # Stop
    BY <1>6, <1>q, TakeEffect
  <2>2. \A p \in Phrases : fate'[l][p] = "none" <=> fate[l][p] = "none"
    BY <1>6, <1>q, WorkerDecidesNothing DEF Worker
  <2>3. /\ 1 \in DOMAIN queue[l] /\ queue[l][1] \in Items
        /\ \A k \in DOMAIN queue'[l] : k \in Nat \ {0} /\ k + 1 \in DOMAIN queue[l] /\ queue'[l][k] = queue[l][k + 1]
    BY <1>q, <2>1, TailPlaces
  <2>4. \A k \in DOMAIN queue[l] : queue[l][k].id # 0 => queue[l][k].id \in Phrases
    BY <1>i, <1>q
  <2>5. /\ \A k \in DOMAIN queue'[l] : queue'[l][k].id # 0 => fate'[l][queue'[l][k].id] # "none"
        /\ \A i \in DOMAIN published'[l] : fate'[l][published'[l][i]] # "none"
    <3>1. \A k \in DOMAIN queue'[l] : queue'[l][k].id # 0 => fate'[l][queue'[l][k].id] # "none"
      BY <2>2, <2>3, <2>4 DEF InOrder
    <3>2. \A i \in DOMAIN published[l] : published[l][i] \in Phrases
      BY <1>q
    <3>3. \A i \in DOMAIN published'[l] : fate'[l][published'[l][i]] # "none"
      BY <2>1, <2>2, <3>2 DEF InOrder
    <3> QED
      BY <3>1, <3>3
  <2>6. \A i, j \in DOMAIN queue'[l] :
          i < j /\ queue'[l][i].id # 0 /\ queue'[l][j].id # 0 => queue'[l][i].id < queue'[l][j].id
    <3>1. ASSUME NEW i \in DOMAIN queue'[l], NEW j \in DOMAIN queue'[l], i < j PROVE i + 1 < j + 1
      BY <2>3, <3>1
    <3> QED
      BY <2>3, <3>1 DEF InOrder
  <2>7. \A i, j \in DOMAIN published'[l] : i < j => published'[l][i] < published'[l][j]
    BY <2>1 DEF InOrder
  <2>8. \A i \in DOMAIN published'[l], j \in DOMAIN queue'[l] :
          queue'[l][j].id # 0 => published'[l][i] < queue'[l][j].id
    BY <2>1, <2>3 DEF InOrder
  <2>9. ASSUME worker'[l].at = "speaking"
        PROVE  /\ fate'[l][worker'[l].id] # "none"
               /\ \A j \in DOMAIN queue'[l] : queue'[l][j].id # 0 => worker'[l].id < queue'[l][j].id
               /\ \A i \in DOMAIN published'[l] : published'[l][i] < worker'[l].id
    <3>1. worker'[l].id = queue[l][1].id /\ queue[l][1].id \in Phrases /\ queue[l][1].id # 0
      BY <2>1, <2>3, <2>9, ItemFacts
    <3>2. fate'[l][worker'[l].id] # "none"
      BY <2>2, <2>3, <3>1 DEF InOrder
    <3>3. \A j \in DOMAIN queue'[l] : queue'[l][j].id # 0 => worker'[l].id < queue'[l][j].id
      <4>1. \A j \in DOMAIN queue'[l] : 1 < j + 1
        BY <2>3
      <4> QED
        BY <2>3, <3>1, <4>1 DEF InOrder
    <3>4. \A i \in DOMAIN published'[l] : published'[l][i] < worker'[l].id
      BY <2>1, <2>3, <3>1 DEF InOrder
    <3> QED
      BY <3>2, <3>3, <3>4
  <2> QED
    BY <2>5, <2>6, <2>7, <2>8, <2>9 DEF InOrder
<1>7. CASE Speak(l) \/ Persist(l)
  <2>1. \A p \in Phrases : fate'[l][p] = "none" <=> fate[l][p] = "none"
    BY <1>7, <1>q, WorkerDecidesNothing DEF Worker
  <2>2. queue'[l] = queue[l] /\ \A k \in DOMAIN queue[l] : queue[l][k].id # 0 => queue[l][k].id \in Phrases
    <3>1. queue'[l] = queue[l]
      BY <1>7, <1>q, TalkEffect
    <3>2. \A k \in DOMAIN queue[l] : queue[l][k] \in Items
      BY <1>q
    <3> QED
      BY <1>i, <3>1, <3>2
  <2>3. CASE published'[l] = published[l] /\ (worker'[l].at = "speaking" =>
               worker[l].at = "speaking" /\ worker'[l].id = worker[l].id /\ worker'[l].pieces > 0)
    <3>1. worker'[l].at = "speaking" => worker'[l].pieces # 0
      BY <2>3
    <3>2. \A i \in DOMAIN published[l] : published[l][i] \in Phrases
      BY <1>q
    <3>3. /\ \A k \in DOMAIN queue'[l] : queue'[l][k].id # 0 => fate'[l][queue'[l][k].id] # "none"
          /\ \A i \in DOMAIN published'[l] : fate'[l][published'[l][i]] # "none"
      BY <2>1, <2>2, <2>3, <3>2 DEF InOrder
    <3>4. worker'[l].at = "speaking" => fate'[l][worker'[l].id] # "none"
      BY <1>w, <2>1, <2>3 DEF InOrder
    <3> QED
      BY <2>2, <2>3, <3>1, <3>3, <3>4 DEF InOrder
  <2>4. CASE /\ worker[l].at = "speaking" /\ worker'[l].at = "speaking" /\ worker'[l].id = worker[l].id
             /\ worker[l].pieces = 0 /\ worker'[l].pieces > 0 /\ published'[l] = Append(published[l], worker[l].id)
    <3>1. /\ DOMAIN published[l] = 1..Len(published[l]) /\ Len(published[l]) \in Nat
          /\ DOMAIN published'[l] = 1..(Len(published[l]) + 1)
          /\ \A i \in 1..Len(published[l]) : published'[l][i] = published[l][i] /\ published[l][i] \in Phrases
          /\ published'[l][Len(published[l]) + 1] = worker[l].id
      BY <1>q, <1>w, <2>4
    <3>2. \A i \in DOMAIN published'[l] : fate'[l][published'[l][i]] # "none"
      BY <1>w, <2>1, <2>4, <3>1 DEF InOrder
    <3>3. \A i, j \in DOMAIN published'[l] : i < j => published'[l][i] < published'[l][j]
      BY <2>4, <3>1 DEF InOrder
    <3>4. \A i \in DOMAIN published'[l], j \in DOMAIN queue'[l] :
            queue'[l][j].id # 0 => published'[l][i] < queue'[l][j].id
      BY <2>2, <2>4, <3>1 DEF InOrder
    <3>5. worker'[l].pieces # 0
      BY <2>4
    <3> QED
      BY <1>w, <2>1, <2>2, <2>4, <3>2, <3>3, <3>4, <3>5 DEF InOrder
  <2>5. \/ /\ worker[l].at = "speaking" /\ worker'[l].at = "speaking"
           /\ worker'[l].id = worker[l].id /\ worker'[l].pieces > 0
           /\ published'[l] = IF worker[l].pieces = 0 THEN Append(published[l], worker[l].id) ELSE published[l]
        \/ worker'[l].at # "speaking" /\ published'[l] = published[l]
    BY <1>7, <1>q, TalkEffect
  <2> QED
    BY <2>3, <2>4, <2>5
<1>8. CASE InterruptShutdown
  <2>1. queue' = queue /\ published' = published
    BY <1>8 DEF InterruptShutdown
  <2>2. \A p \in Phrases : fate'[l][p] = "none" <=> fate[l][p] = "none"
    BY <1>8
  <2>3. worker'[l] = worker[l] \/ worker'[l].at = "stopped"
    <3>1. PICK m \in Languages, w \in WorkerStates : worker' = [worker EXCEPT ![m] = w] /\ w.at = "stopped"
      BY <1>8, <1>q, CutEffect DEF TypeOK, ControlTypes
    <3> QED
      BY <1>q, <3>1 DEF SpeechTypes
  <2>4. \A k \in DOMAIN queue[l] : queue[l][k].id # 0 => queue[l][k].id \in Phrases
    BY <1>i, <1>q
  <2>5. \A i \in DOMAIN published[l] : published[l][i] \in Phrases
    BY <1>q
  <2> QED
    BY <1>w, <2>1, <2>2, <2>3, <2>4, <2>5 DEF InOrder
<1> QED
  <2>1. CASE MarkLive \/ PumpWins \/ LimitWins \/ PumpGone \/ CloseRoom \/ Settle
    BY <1>1, <2>1 DEF MarkLive, PumpWins, LimitWins, PumpGone, CloseRoom, Settle, speech
  <2>2. CASE Interrupt \/ LimitReached \/ Hypothesis \/ StreamEnds \/ PumpFails \/ PumpCancelled \/ UNCHANGED vars
    BY <1>1, <2>2 DEF Interrupt, LimitReached, Hypothesis, StreamEnds, PumpFails, PumpCancelled, speech, vars
  <2>3. ASSUME NEW m \in Languages, Worker(m) PROVE InOrder(l)'
    BY <1>5, <1>6, <1>7, <2>3 DEF Worker
  <2> QED
    BY <1>2, <1>3, <1>4, <1>8, <2>1, <2>2, <2>3 DEF Next, Run, Pump, Translate

-----------------------------------------------------------------------------
(* The invariant, and what it is for.                                      *)

\* Every step of any task keeps the invariant.
LEMMA StepPreserves == IInv /\ [Next]_vars => IInv'
BY TypeStep, StagedStep, StopsStep, DecidedStep, KeptStep, InOrderStep DEF IInv

LEMMA Invariance == Spec => []IInv
<1>1. Init => IInv
  BY InitEstablishes
<1>2. IInv /\ [Next]_vars => IInv'
  BY StepPreserves
<1> QED
  BY <1>1, <1>2, PTL DEF Spec

\* The tasks, the queues and the histories keep their types, for any languages
\* and any number of phrases.
THEOREM TypeCorrect == Spec => []TypeOK
<1>1. IInv => TypeOK
  BY DEF IInv
<1> QED
  BY <1>1, Invariance, PTL

\* A worker speaks only into an open room: run() closes it after the last worker
\* has stopped, whether it ends, is limited or is interrupted.
THEOREM RoomIsOpen == Spec => []RoomOutlivesSpeech
<1>1. IInv => RoomOutlivesSpeech
  <2>1. TypeOK /\ Staged => (roomOpen \/ \A l \in Languages : worker[l].at = "stopped")
    BY DEF TypeOK, ControlTypes, Staged
  <2> QED
    BY <2>1 DEF IInv, RoomOutlivesSpeech
<1> QED
  BY <1>1, Invariance, PTL

\* run() returns "failed" exactly when the pump raised, however it ended, and
\* "ended" for a source that finished or a limit.
THEOREM OutcomeIsTrue == Spec => []OutcomeTrue
<1>1. IInv => OutcomeTrue
  BY DEF IInv, TypeOK, ControlTypes, Staged, OutcomeTrue, PumpEnds
<1> QED
  BY <1>1, Invariance, PTL

\* When run() returns, every phrase met its fate in every language and no worker
\* has anything left; one may be undecided, the last, in all of them.
THEOREM NothingIsAbandoned == Spec => []NothingAbandoned
<1>1. IInv => NothingAbandoned
  <2> SUFFICES ASSUME IInv, run = "returned" PROVE NothingAbandoned
    BY DEF NothingAbandoned
  <2> USE DEF IInv
  <2>1. told = Len(Targets) /\ outcome # "interrupted" /\ ~roomOpen
    BY DEF Staged
  <2>2. \A l \in Languages : worker[l].at = "stopped"
    BY <2>1 DEF Staged
  <2>3. \A l \in Languages : queue[l] = <<>>
    BY <2>1, <2>2, TargetsAreLanguages DEF Stops, StopLast
  <2>4. \A l \in Languages, p \in Phrases : fate[l][p] # "given"
    BY <2>2, <2>3 DEF Kept
  <2>5. phrases \in Nat /\ 1..phrases \subseteq Phrases
    BY TargetsAreLanguages DEF TypeOK, ControlTypes, Phrases
  <2>6. \A l \in Languages, p \in 1..phrases : fate[l][p] \in {"none", "settled"}
    BY <2>4, <2>5 DEF TypeOK, SpeechTypes
  <2>7. pump \in PumpEnds /\ failure = (pump = "failed")
    BY <2>1 DEF Staged
  <2>8. ASSUME NEW p \in 1..phrases
        PROVE  \/ \A l \in Languages : fate[l][p] = "settled"
               \/ /\ p = phrases /\ (failure \/ endReason)
                  /\ \A l \in Languages : fate[l][p] = "none"
    <3>1. CASE p # phrases
      <4>1. p < phrases /\ p \in Phrases
        BY <2>5, <3>1
      <4> QED
        BY <2>6, <4>1 DEF Decided
    <3>2. CASE p = phrases
      <4>1. CASE \E l \in Languages : fate[l][p] = "none"
        <5>1. \A l \in Languages : fate[l][p] = "none"
          BY <2>5, <3>2, <4>1 DEF Decided
        <5>2. pump # "done"
          BY <4>1 DEF Decided
        <5>3. failure \/ endReason
          BY <2>7, <5>2 DEF Staged, PumpEnds
        <5> QED
          BY <3>2, <5>1, <5>3
      <4>2. CASE ~ \E l \in Languages : fate[l][p] = "none"
        BY <2>6, <4>2
      <4> QED
        BY <4>1, <4>2
    <3> QED
      BY <3>1, <3>2
  <2> QED
    BY <2>2, <2>3, <2>8 DEF NothingAbandoned
<1> QED
  BY <1>1, Invariance, PTL

\* A language speaks its phrases in the order they were committed and none of
\* them twice, for any number of phrases and languages.
THEOREM OrderIsKept == Spec => []SpokenInOrder
<1>1. IInv => SpokenInOrder
  <2> SUFFICES ASSUME IInv, NEW l \in Languages
               PROVE  LET line == published[l] \o InHand(l) \o Queued(l)
                      IN  \A i, j \in DOMAIN line : i < j /\ line[i] # 0 /\ line[j] # 0 => line[i] < line[j]
    BY DEF SpokenInOrder
  <2> DEFINE a == published[l]
             h == InHand(l)
             q == Queued(l)
             line == a \o h \o q
  <2>1. InOrder(l) /\ SpeechTypes /\ queue[l] \in Seq(Items) /\ published[l] \in Seq(Phrases)
    BY DEF IInv, TypeOK, SpeechTypes
  <2>2. a \in Seq(Nat) /\ Len(a) \in Nat
    BY <2>1 DEF Phrases
  <2>3. h \in Seq(Nat) /\ (Len(h) = 0 \/ (Len(h) = 1 /\ h[1] = worker[l].id /\ worker[l].at = "speaking" /\ worker[l].pieces = 0))
    BY <2>1 DEF InHand, SpeechTypes, Phrases
  <2>4. q \in Seq(Nat) /\ Len(q) = Len(queue[l]) /\ DOMAIN q = DOMAIN queue[l]
        /\ \A k \in DOMAIN q : q[k] = queue[l][k].id
    <3>1. DOMAIN queue[l] = 1..Len(queue[l]) /\ Len(queue[l]) \in Nat /\ \A k \in 1..Len(queue[l]) : queue[l][k].id \in Nat
      <4>1. \A k \in 1..Len(queue[l]) : queue[l][k] \in Items
        BY <2>1
      <4> QED
        BY <2>1, <4>1, ItemFacts, TargetsAreLanguages
    <3>2. q \in [1..Len(queue[l]) -> Nat] /\ \A k \in 1..Len(queue[l]) : q[k] = queue[l][k].id
      BY <3>1 DEF Queued
    <3>3. q \in Seq(Nat) /\ Len(q) = Len(queue[l])
      BY <3>1, <3>2
    <3> QED
      BY <3>1, <3>2, <3>3
  <2> HIDE DEF a, h, q
  <2>5. /\ a \o h \in Seq(Nat) /\ Len(a \o h) = Len(a) + Len(h)
        /\ \A i \in 1..Len(a) : (a \o h)[i] = a[i]
        /\ \A i \in 1..Len(h) : (a \o h)[Len(a) + i] = h[i]
    BY <2>2, <2>3
  <2>6. /\ DOMAIN line = 1..(Len(a) + Len(h) + Len(q))
        /\ \A i \in 1..(Len(a) + Len(h)) : line[i] = (a \o h)[i]
        /\ \A i \in 1..Len(q) : line[Len(a) + Len(h) + i] = q[i]
    <3> DEFINE b == a \o h
    <3>1. b \in Seq(Nat) /\ Len(b) = Len(a) + Len(h)
      BY <2>5
    <3> HIDE DEF b
    <3>2. /\ DOMAIN (b \o q) = 1..(Len(b) + Len(q))
          /\ \A i \in 1..Len(b) : (b \o q)[i] = b[i]
          /\ \A i \in 1..Len(q) : (b \o q)[Len(b) + i] = q[i]
      <4>1. /\ b \o q \in Seq(Nat) /\ Len(b \o q) = Len(b) + Len(q)
            /\ \A i \in 1..Len(b) : (b \o q)[i] = b[i]
            /\ \A i \in 1..Len(q) : (b \o q)[Len(b) + i] = q[i]
        <5>1. q \in Seq(Nat) /\ Len(q) \in Nat
          BY <2>4
        <5>2. b \in Seq(Nat) /\ Len(b) \in Nat
          BY <3>1
        <5> QED
          BY <5>1, <5>2
      <4> QED
        BY <2>4, <3>1, <4>1, LenProperties
    <3> QED
      BY <3>1, <3>2 DEF b
  <2>n. Len(a) \in Nat /\ Len(h) \in Nat /\ Len(q) \in Nat
    BY <2>2, <2>3, <2>4
  <2>7. ASSUME NEW i \in DOMAIN line
        PROVE  \/ i \in 1..Len(a) /\ line[i] = a[i]
               \/ i = Len(a) + 1 /\ Len(h) = 1 /\ line[i] = h[1]
               \/ i - Len(a) - Len(h) \in 1..Len(q) /\ line[i] = q[i - Len(a) - Len(h)]
    <3>1. CASE i \in 1..Len(a)
      BY <2>n, <2>5, <2>6, <3>1
    <3>2. CASE i > Len(a) /\ i <= Len(a) + Len(h)
      <4>1. Len(h) = 1 /\ i = Len(a) + 1 /\ 1 \in 1..Len(h) /\ i \in 1..(Len(a) + Len(h))
        <5>1. i \in Nat /\ Len(h) = 1
          BY <2>3, <2>n, <2>6, <3>2
        <5> QED
          BY <2>n, <3>2, <5>1
      <4> QED
        BY <2>5, <2>6, <4>1
    <3>3. CASE i > Len(a) + Len(h)
      <4>1. i - Len(a) - Len(h) \in 1..Len(q) /\ i = Len(a) + Len(h) + (i - Len(a) - Len(h))
        BY <2>n, <2>6, <3>3
      <4> QED
        BY <2>6, <4>1
    <3> QED
      BY <2>n, <2>6, <3>1, <3>2, <3>3
  <2>a. /\ DOMAIN a = 1..Len(a) /\ DOMAIN q = 1..Len(q)
        /\ \A i, j \in 1..Len(a) : i < j => a[i] < a[j]
        /\ \A i, j \in 1..Len(q) : i < j /\ q[i] # 0 /\ q[j] # 0 => q[i] < q[j]
        /\ \A i \in 1..Len(a), j \in 1..Len(q) : q[j] # 0 => a[i] < q[j]
    <3>1. DOMAIN a = 1..Len(a) /\ DOMAIN q = 1..Len(q)
      BY <2>2, <2>4
    <3> QED
      BY <2>1, <2>4, <3>1 DEF InOrder, a
  <2>h. Len(h) = 1 =>
          /\ \A i \in 1..Len(a) : a[i] < h[1]
          /\ \A j \in 1..Len(q) : q[j] # 0 => h[1] < q[j]
    <3> SUFFICES ASSUME Len(h) = 1
                 PROVE  /\ \A i \in 1..Len(a) : a[i] < h[1]
                        /\ \A j \in 1..Len(q) : q[j] # 0 => h[1] < q[j]
      OBVIOUS
    <3>1. h[1] = worker[l].id /\ worker[l].at = "speaking" /\ worker[l].pieces = 0
      BY <2>3
    <3>2. \A i \in 1..Len(a) : a[i] < h[1]
      BY <2>1, <2>a, <3>1 DEF InOrder, a
    <3>3. \A j \in 1..Len(q) : q[j] # 0 => h[1] < q[j]
      BY <2>1, <2>4, <2>a, <3>1 DEF InOrder
    <3> QED
      BY <3>2, <3>3
  <2>8. ASSUME NEW i \in DOMAIN line, NEW j \in DOMAIN line, i < j, line[i] # 0, line[j] # 0
        PROVE  line[i] < line[j]
    <3>1. i \in Nat /\ j \in Nat
      BY <2>n, <2>6
    <3>2. CASE i \in 1..Len(a) /\ line[i] = a[i]
      BY <2>7, <2>8, <2>a, <2>h, <3>1, <3>2
    <3>3. CASE i = Len(a) + 1 /\ Len(h) = 1 /\ line[i] = h[1]
      <4>1. /\ j - Len(a) - Len(h) \in 1..Len(q) /\ line[j] = q[j - Len(a) - Len(h)]
        <5>1. j > Len(a) + 1
          BY <2>8, <2>n, <3>1, <3>3
        <5>2. ~(j \in 1..Len(a)) /\ j # Len(a) + 1
          BY <2>n, <3>1, <5>1
        <5> QED
          BY <2>7, <5>2
      <4> QED
        BY <2>8, <2>h, <3>3, <4>1
    <3>4. CASE i - Len(a) - Len(h) \in 1..Len(q) /\ line[i] = q[i - Len(a) - Len(h)]
      <4>1. /\ j - Len(a) - Len(h) \in 1..Len(q) /\ line[j] = q[j - Len(a) - Len(h)]
            /\ i - Len(a) - Len(h) < j - Len(a) - Len(h)
        BY <2>3, <2>7, <2>8, <2>n, <3>1, <3>4
      <4> QED
        BY <2>8, <2>a, <3>4, <4>1
    <3> QED
      BY <2>7, <3>2, <3>3, <3>4
  <2> HIDE DEF line
  <2>9. \A i, j \in DOMAIN line : i < j /\ line[i] # 0 /\ line[j] # 0 => line[i] < line[j]
    BY <2>8
  <2> QED
    BY <2>9 DEF a, h, q, line
<1> QED
  BY <1>1, Invariance, PTL
=============================================================================
