------------------------------ MODULE Translation ------------------------------
(***************************************************************************)
(* One phrase into several languages: the routing adapter                  *)
(* (adapters/mt_routing.py) over Opus-MT (adapters/mt_opus.py), one thread *)
(* and one decoding job for each language, and NLLB (adapters/mt_nllb.py), *)
(* one thread and one job for all of its languages; and the session's      *)
(* _dispatch above them (session/pipeline.py), which awaits the answer and *)
(* hands it to the language workers.                                       *)
(*                                                                         *)
(* The event loop submits and merges; the jobs run in threads, each with a *)
(* worker of its model while it decodes, and raise or return.  A session   *)
(* that stops abandons the phrase it waits for, not the jobs.  A model is  *)
(* its directory; a pair model is named for its language.  A text is the   *)
(* language it is in, with the number of its phrase.                       *)
(***************************************************************************)
EXTENDS Integers, Sequences, FiniteSets

CONSTANTS
  Targets,     \* the session's target languages
  Multi,       \* MULTILINGUAL: those the family model knows by a token
  Flores,      \* FLORES: those NLLB has a code for
  Family,      \* the family model's directory
  Nllb,        \* NLLB's directory, and the name of its one job
  MaxPhrases,
  None         \* no token, no text

ASSUME TranslationAssumption ==
  /\ Multi \subseteq Targets /\ Flores \subseteq Targets
  /\ Family \notin Targets /\ Nllb \notin Targets \union {Family} /\ None \notin Targets
  /\ MaxPhrases \in Nat /\ IsFiniteSet(Targets)

VARIABLES
  route,       \* _assignment
  disk,        \* the model directories that have been fetched
  service,     \* "new", "failed", "ready" or "closed"
  pairs,       \* _pairs: the model and the token of each of Opus-MT's languages
  call,        \* the phrase _dispatch waits for, or 0
  phrase,      \* the last phrase dispatched
  job,         \* each phrase's jobs: how far they are, and what they decoded
  submitted    \* what each language's worker was given

tvars == <<route, disk, service, pairs, call, phrase, job, submitted>>

Phrases == 1..MaxPhrases
Units == Targets \union {Nllb}

OpusTargets == {t \in Targets : route[t] = "opus"}
NllbTargets == {t \in Targets : route[t] = "nllb"}

TInit ==
  /\ route \in [Targets -> {"opus", "nllb", "other"}]
  /\ disk \in SUBSET (Targets \union {Family, Nllb})
  /\ service = "new"
  /\ pairs = <<>>
  /\ call = 0 /\ phrase = 0
  /\ job = [p \in Phrases |-> [u \in Units |-> [at |-> "none", said |-> None]]]
  /\ submitted = [t \in Targets |-> <<>>]

-----------------------------------------------------------------------------
(* Loading.                                                                *)

\* _resolve: a model of the pair before the family's, which needs its token.
NoSelector(t) == None
Selector(t) == t
Resolve(t) ==
  IF t \in Multi \ disk THEN [model |-> Family, token |-> Selector(t)]
                        ELSE [model |-> t, token |-> None]

\* The session checks supports only through translate_many.
Loadable ==
  /\ \A t \in Targets : route[t] \in {"opus", "nllb"}
  /\ \A t \in OpusTargets : Resolve(t).model \in disk
  /\ NllbTargets # {} => Nllb \in disk /\ NllbTargets \subseteq Flores

Load ==
  /\ service = "new"
  /\ IF Loadable
       THEN service' = "ready" /\ pairs' = [t \in OpusTargets |-> Resolve(t)]
       ELSE service' = "failed" /\ UNCHANGED pairs
  /\ UNCHANGED <<route, disk, call, phrase, job, submitted>>

Supports(t) == t \in NllbTargets \/ (t \in OpusTargets /\ t \in DOMAIN pairs)

\* The job that answers for a language, and the model it runs in.
UnitOf(t) == IF t \in NllbTargets THEN Nllb ELSE t
ModelOf(u) == IF u = Nllb THEN Nllb ELSE pairs[u].model

\* inter_threads: NLLB's one, and one for each language that shares a model.
InterThreads(m) == IF m = Nllb THEN 1 ELSE Cardinality({t \in OpusTargets : pairs[t].model = m})

\* max_workers of the two executors.
Threads(u) == IF u = Nllb THEN 1 ELSE Cardinality(OpusTargets)

-----------------------------------------------------------------------------
(* A phrase.                                                               *)

\* _dispatch, up to its await: one job for each of Opus-MT's languages, and one
\* for all of NLLB's.
TranslateMany ==
  /\ service = "ready" /\ call = 0 /\ phrase < MaxPhrases
  /\ phrase' = phrase + 1 /\ call' = phrase'
  /\ job' = [job EXCEPT ![phrase'] =
       [u \in Units |-> IF \E t \in Targets : Supports(t) /\ UnitOf(t) = u
                          THEN [at |-> "queued", said |-> None] ELSE @[u]]]
  /\ UNCHANGED <<route, disk, service, pairs, submitted>>

Busy == {pu \in Phrases \X Units : job[pu[1]][pu[2]].at \in {"waiting", "decoding"}}
Decoding(m) == {pu \in Busy : job[pu[1]][pu[2]].at = "decoding" /\ ModelOf(pu[2]) = m}
SamePool(u) == {pu \in Busy : pu[2] = Nllb <=> u = Nllb}

\* A thread of the pool takes the job.
TakeThread(p, u) ==
  /\ job[p][u].at = "queued" /\ Cardinality(SamePool(u)) < Threads(u)
  /\ job' = [job EXCEPT ![p][u].at = "waiting"]
  /\ UNCHANGED <<route, disk, service, pairs, call, phrase, submitted>>

\* translate_batch, once a worker of the model is free.
TakeModel(p, u) ==
  /\ job[p][u].at = "waiting" /\ Cardinality(Decoding(ModelOf(u))) < InterThreads(ModelOf(u))
  /\ job' = [job EXCEPT ![p][u].at = "decoding"]
  /\ UNCHANGED <<route, disk, service, pairs, call, phrase, submitted>>

\* A family model without its token speaks any language of the family; NLLB is
\* given the target's code, for each.
Spoken(u) ==
  IF u = Nllb THEN {Nllb}
  ELSE IF pairs[u].model # Family THEN {u}
  ELSE IF pairs[u].token # None THEN {pairs[u].token} ELSE Multi

Decoded(p, u) ==
  /\ job[p][u].at = "decoding"
  /\ \E l \in Spoken(u) : job' = [job EXCEPT ![p][u] = [at |-> "done", said |-> l]]
  /\ UNCHANGED <<route, disk, service, pairs, call, phrase, submitted>>

DecodingFails(p, u) ==
  /\ job[p][u].at = "decoding"
  /\ job' = [job EXCEPT ![p][u].at = "failed"]
  /\ UNCHANGED <<route, disk, service, pairs, call, phrase, submitted>>

\* A failed job is an empty text: for its language, or for every one of NLLB's.
Answer(p, t) ==
  LET u == UnitOf(t)
  IN  IF job[p][u].at # "done" THEN None ELSE IF u = Nllb THEN t ELSE job[p][u].said

\* The awaits, one job after the other, until all are over, well or badly.
FirstFailure(p) ==
  \/ \E u \in Units : job[p][u].at = "failed"
  \/ \A u \in Units : job[p][u].at \in {"none", "done"}
Gathered(p) == \A u \in Units : job[p][u].at \in {"none", "done", "failed"}

\* The merge, and the rest of _dispatch.
Deliver ==
  /\ call # 0 /\ Gathered(call)
  /\ submitted' = [t \in Targets |-> IF Supports(t) THEN Append(submitted[t], <<call, Answer(call, t)>>)
                                                    ELSE submitted[t]]
  /\ call' = 0
  /\ UNCHANGED <<route, disk, service, pairs, phrase, job>>

-----------------------------------------------------------------------------

\* The session is over, at any point of a phrase, and the adapter is closed,
\* which waits for nothing.
Close ==
  /\ service = "ready" /\ service' = "closed"
  /\ call' = 0
  /\ UNCHANGED <<route, disk, pairs, phrase, job, submitted>>

Works(p, u) == TakeThread(p, u) \/ TakeModel(p, u) \/ Decoded(p, u) \/ DecodingFails(p, u)

TNext ==
  \/ Load \/ TranslateMany \/ Deliver \/ Close
  \/ \E p \in Phrases, u \in Units : Works(p, u)

TSpec == TInit /\ [][TNext]_tvars

-----------------------------------------------------------------------------

\* Every language's worker is given every phrase once and in order, in its own
\* language, or empty when the job that answers for it failed and not when another
\* language's did (mt_opus.py:34-46, 254-277; mt_routing.py:150-189).
EveryLanguageAnswered ==
  \A t \in Targets :
    /\ service = "ready" /\ call = 0 => Len(submitted[t]) = phrase
    /\ \A i \in DOMAIN submitted[t] :
         \/ submitted[t][i] = <<i, t>>
         \/ submitted[t][i] = <<i, None>> /\ job[i][UnitOf(t)].at = "failed"

\* No job waits for another, in its pool or in a model that it shares
\* (mt_opus.py:69-71: "One worker per sharer so concurrent calls into a shared
\* model do not serialise behind each other").
NothingQueues ==
  \A p \in Phrases, u \in Units :
    /\ job[p][u].at = "queued" => Cardinality(SamePool(u)) < Threads(u)
    /\ job[p][u].at = "waiting" => Cardinality(Decoding(ModelOf(u))) < InterThreads(ModelOf(u))
=============================================================================
