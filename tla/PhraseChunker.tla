---------------------------- MODULE PhraseChunker ----------------------------
(***************************************************************************)
(* The phrase chunker (chunker/chunker.py, stability.py, clause.py) and    *)
(* the loop that drives it, TranslationSession._pump (session/pipeline.py).*)
(* A recogniser yields transcripts of everything said so far and may       *)
(* revise them; the chunker commits the prefix on which the last           *)
(* AgreementN of them agree, a phrase at a time, and can never take a      *)
(* phrase back.                                                            *)
(*                                                                         *)
(* A surface token is [word, closes]: what normalise_token leaves of it,   *)
(* and whether it ends in punctuation that closes a clause or a sentence   *)
(* (find_boundary treats the two alike).  Wall clock time is in ticks.     *)
(* Audio positions are in twelfths of a tick, so that interpolating over   *)
(* at most four, or six, words is exact; the audio is live, so a           *)
(* hypothesis heard at tick t ends at audio position 12 * t.               *)
(***************************************************************************)
EXTENDS Integers, Sequences, FiniteSetsExt, SequencesExt

CONSTANTS
  Tokens,          \* surface tokens
  Conjunctions,    \* the words in clause._CONJUNCTIONS
  AgreementN,      \* agreement_n
  MinWords,        \* min_words
  MaxWords,        \* max_words
  WeakFrom,        \* conjunction_threshold * max_words
  MaxWait,         \* max_wait_s
  SilenceCommit,   \* silence_commit_s
  MaxText,         \* bound on the words of a transcript
  MaxDrop,         \* bound on the words a hypothesis drops from the one before
  MaxAdd,          \* bound on the words it then adds
  MaxHyps,         \* bound on the hypotheses of one session
  MaxClock         \* bound on the clock

ASSUME ChunkerAssumption ==
  /\ \A token \in Tokens : token.closes \in BOOLEAN
  /\ AgreementN \in Nat \ {0}      \* StabilityTracker.__init__ refuses less
  /\ MinWords \in Nat \ {0}
  /\ MaxWords \in Nat /\ MinWords <= MaxWords
  /\ {WeakFrom, MaxWait, SilenceCommit, MaxText, MaxDrop, MaxAdd, MaxHyps, MaxClock} \subseteq Nat

VARIABLES
  timed,         \* whether the backend supplies word timings
  window,        \* _window: the last AgreementN transcripts, normalised
  firstSeen,     \* _prefix_first_seen
  committed,     \* _committed
  contradicted,  \* _contradicted
  nextId,        \* _next_id
  lastHyp,       \* _last_hyp
  cursor,        \* _audio_cursor
  ends,          \* WordClock._ends, for a timed backend
  locked,        \* words of Whisper's _locked_text: never revised again
  phase,         \* the call whose phrases _pump is dispatching, or last did
  batch,         \* the phrases of that call still to dispatch
  now,           \* time.monotonic()
  heard,         \* how many hypotheses arrived
  spoken         \* history: the normalised transcript prefix committed last

tracker == <<window, firstSeen, committed, contradicted>>
vars == <<timed, tracker, nextId, lastHyp, cursor, ends, locked, phase, batch, now, heard, spoken>>

Unseen == -1
NoHyp == [text |-> <<>>, final |-> FALSE, wall |-> Unseen, audioEnd |-> 0]

-----------------------------------------------------------------------------
(* Stability: LocalAgreement-n over the window.                            *)

Normalised(text) == [i \in DOMAIN text |-> text[i].word]

KeepLast(seq, n) == SubSeq(seq, 1 + Max({0, Len(seq) - n}), Len(seq))

CommonPrefix(hyps) == LongestCommonPrefix({hyps[i] : i \in DOMAIN hyps})
AgreesWithOne(win) == IF win = <<>> THEN 0 ELSE Len(CommonPrefix(KeepLast(win, 1)))
AgreedLength(win) == IF Len(win) < AgreementN THEN 0 ELSE Len(CommonPrefix(win))

OverlookShorter(win, done, words) ==
  /\ done > 0
  /\ Len(words) >= done
  /\ win # <<>> /\ Len(Last(win)) >= done
  /\ SubSeq(words, 1, done) # SubSeq(Last(win), 1, done)
Contradicts(win, done, words) ==
  /\ done > 0
  /\ \/ Len(words) < done
     \/ /\ win # <<>> /\ Len(Last(win)) >= done
        /\ SubSeq(words, 1, done) # SubSeq(Last(win), 1, done)

WindowWith(win, words, final) ==
  KeepLast(win \o [i \in 1..(IF final THEN AgreementN ELSE 1) |-> words], AgreementN)

\* The end of stable_prefix: nothing new is stable when it is not past done.
StableEnd(win, surface) == Min({AgreedLength(win), Len(surface)})

-----------------------------------------------------------------------------
(* Clause boundaries in the stable tokens.                                 *)

CutsOneEarly(tokens) == {i \in (MinWords - 1)..Len(tokens) : i > 0 /\ tokens[i].closes}
StrongCuts(tokens) == {i \in MinWords..Len(tokens) : tokens[i].closes}
WeakCuts(tokens) == {i \in MinWords..(Len(tokens) - 1) : tokens[i + 1].word \in Conjunctions}

\* find_boundary: the latest cut, clause ends before conjunctions; 0 for none.
FindBoundary(tokens, allowWeak) ==
  LET strong == StrongCuts(tokens)
      weak == IF allowWeak THEN WeakCuts(tokens) ELSE {}
  IN  IF strong # {} THEN Max(strong) ELSE Max({0} \union weak)

\* _try_emit: how many stable tokens to commit and why; 0 to hold.
Cut(tokens, lag) ==
  LET boundary == FindBoundary(tokens, Len(tokens) >= WeakFrom)
  IN  IF Len(tokens) >= MaxWords THEN [take |-> MaxWords, reason |-> "max_words"]
      ELSE IF boundary > 0 THEN [take |-> boundary, reason |-> "clause"]
      ELSE IF lag >= MaxWait /\ Len(tokens) >= MinWords
           THEN [take |-> Len(tokens), reason |-> "stability_timeout"]
      ELSE [take |-> 0, reason |-> "held"]

-----------------------------------------------------------------------------
(* Committing.                                                             *)

\* WordClock.stamp: words unchanged since the last transcript keep their
\* stamp, the rest are stamped with the audio that produced them.
Stamps(text, audioEnd) ==
  LET shared == Len(LongestCommonPrefix({text, lastHyp.text}))
  IN  [i \in DOMAIN text |-> IF i <= shared THEN ends[i] ELSE audioEnd]

\* _word_end_time: a transcript starts at audio position 0.
CountsFromPhrase(hyp, stamps, before, take) ==
  IF timed /\ take <= Len(stamps) THEN stamps[take] ELSE hyp.audioEnd
WordEnd(hyp, stamps, before, take) ==
  LET index == before + take
      total == Len(hyp.text)
  IN  IF timed /\ hyp.text # <<>> /\ index <= Len(stamps) THEN stamps[index]
      ELSE IF total = 0 \/ hyp.audioEnd = 0 THEN hyp.audioEnd
      ELSE (hyp.audioEnd * Min({index, total})) \div total

\* One _commit: "from" words are committed already and "take" more leave.
Phrase(id, hyp, stamps, from, take, start, reason, wall, seen, revised) ==
  [id |-> id, from |-> from, take |-> take, reason |-> reason, start |-> start,
   end |-> WordEnd(hyp, stamps, from, take), lag |-> Max({0, wall - seen}), revised |-> revised]

\* _try_emit: at most one phrase, in the words the window agrees on.
TryEmit(win, seen, flag, hyp, stamps) ==
  LET stable == StableEnd(win, hyp.text)
      since == seen[AgreedLength(win)]
      cut == Cut(SubSeq(hyp.text, committed + 1, stable), hyp.wall - since)
  IN  IF stable <= committed \/ cut.take = 0 THEN <<>>
      ELSE <<Phrase(nextId, hyp, stamps, committed, cut.take, cursor, cut.reason, hyp.wall, since, flag)>>

\* _emit_all: everything stable, MaxWords at a time.  The first phrase takes
\* the contradiction flag with it.
EmitFirst(win, seen, flag, hyp, stamps, reason, wall) ==
  LET outstanding == StableEnd(win, hyp.text) - committed
  IN  IF outstanding <= 0 THEN <<>>
      ELSE <<Phrase(nextId, hyp, stamps, committed, Min({MaxWords, outstanding}), cursor, reason, wall,
                    seen[AgreedLength(win)], flag)>>
EmitAll(win, seen, flag, hyp, stamps, reason, wall) ==
  LET outstanding == Max({0, StableEnd(win, hyp.text) - committed})
      from(i) == committed + (i - 1) * MaxWords
      start(i) == IF i = 1 THEN cursor ELSE WordEnd(hyp, stamps, from(i - 1), MaxWords)
  IN  [i \in 1..((outstanding + MaxWords - 1) \div MaxWords) |->
         Phrase(nextId + i - 1, hyp, stamps, from(i),
                Min({MaxWords, outstanding - (i - 1) * MaxWords}), start(i), reason, wall,
                seen[AgreedLength(win)], flag /\ i = 1)]

\* What committing those phrases, in the words of hyp, does to the chunker.
Commit(phrases, flag, hyp) ==
  /\ batch' = phrases
  /\ nextId' = nextId + Len(phrases)
  /\ contradicted' = (flag /\ phrases = <<>>)
  /\ IF phrases = <<>> THEN UNCHANGED <<committed, cursor, spoken>>
     ELSE /\ committed' = Last(phrases).from + Last(phrases).take
          /\ cursor' = Last(phrases).end
          /\ spoken' = SubSeq(Normalised(hyp.text), 1, committed')

-----------------------------------------------------------------------------

Init ==
  /\ timed \in BOOLEAN
  /\ window = <<>>
  /\ firstSeen = [n \in 0..MaxText |-> Unseen]
  /\ committed = 0 /\ contradicted = FALSE
  /\ nextId = 0 /\ lastHyp = NoHyp /\ cursor = 0
  /\ ends = <<>> /\ locked = 0
  /\ phase = "tick" /\ batch = <<>>
  /\ now = 0 /\ heard = 0 /\ spoken = <<>>

\* _pump is waiting for the recogniser.
Listening == phase = "tick" /\ batch = <<>>

\* The transcripts that may follow the last one: a tail revised, words added.
NextTexts ==
  LET text == lastHyp.text
  IN  UNION {{SubSeq(text, 1, kept) \o more : more \in UNION {[1..n -> Tokens] : n \in 0..MaxAdd}} :
               kept \in Max({locked, Len(text) - MaxDrop})..Len(text)}

\* feed, on the next hypothesis.  The timed backend sends a final last;
\* Whisper, untimed, sends one at each pause and locks what it said.  Only a
\* final may be empty.
Feed(text, final) ==
  LET hyp == [text |-> text, final |-> final, wall |-> now, audioEnd |-> 12 * now]
      words == Normalised(text)
      win == WindowWith(window, words, final)
      flag == contradicted \/ Contradicts(window, committed, words)
      agreed == AgreedLength(win)
      seen == IF firstSeen[agreed] = Unseen THEN [firstSeen EXCEPT ![agreed] = now] ELSE firstSeen
      stamps == IF timed THEN Stamps(text, hyp.audioEnd) ELSE <<>>
  IN  /\ lastHyp' = hyp
      /\ window' = win
      /\ firstSeen' = seen
      /\ ends' = stamps
      /\ Commit(IF final THEN EmitAll(win, seen, flag, hyp, stamps, "final", now)
                ELSE TryEmit(win, seen, flag, hyp, stamps), flag, hyp)

Hear ==
  /\ Listening
  /\ heard < MaxHyps
  /\ ~(timed /\ lastHyp.final)
  /\ \E text \in NextTexts, final \in BOOLEAN :
       /\ Len(text) <= MaxText
       /\ text # <<>> \/ final
       /\ Feed(text, final)
       /\ locked' = IF final THEN Len(text) ELSE locked
  /\ phase' = "feed"
  /\ heard' = heard + 1
  /\ UNCHANGED <<timed, now>>

\* One turn of _pump's loops over the phrases: _dispatch, which awaits the
\* translation.
Dispatch ==
  /\ batch # <<>>
  /\ batch' = Tail(batch)
  /\ UNCHANGED <<timed, tracker, nextId, lastHyp, cursor, ends, locked, phase, now, heard, spoken>>

\* tick, which _pump calls once the phrases of feed are dispatched.
Tick ==
  /\ phase = "feed" /\ batch = <<>>
  /\ phase' = "tick"
  /\ IF now - lastHyp.wall < SilenceCommit
     THEN UNCHANGED <<contradicted, committed, cursor, nextId, spoken, batch>>
     ELSE Commit(EmitAll(window, firstSeen, contradicted, lastHyp, ends, "silence", now), contradicted, lastHyp)
  /\ UNCHANGED <<timed, window, firstSeen, lastHyp, ends, locked, now, heard>>

\* flush, when the recogniser's stream ends.
Flush ==
  /\ Listening
  /\ phase' = "flush"
  /\ IF lastHyp = NoHyp
     THEN UNCHANGED <<contradicted, committed, cursor, nextId, spoken, batch>>
     ELSE Commit(EmitAll(window, firstSeen, contradicted, lastHyp, ends, "final", lastHyp.wall),
                 contradicted, lastHyp)
  /\ UNCHANGED <<timed, window, firstSeen, lastHyp, ends, locked, now, heard>>

\* Time passes while _pump is suspended: in _dispatch, or for the recogniser.
Pass ==
  /\ batch # <<>> \/ Listening
  /\ now < MaxClock
  /\ now' = now + 1
  /\ UNCHANGED <<timed, tracker, nextId, lastHyp, cursor, ends, locked, phase, batch, heard, spoken>>

Next == Hear \/ Dispatch \/ Tick \/ Flush \/ Pass

Spec == Init /\ [][Next]_vars

-----------------------------------------------------------------------------

Words == {token.word : token \in Tokens}
CommitReasons == {"clause", "max_words", "stability_timeout", "silence", "final"}
PhraseChunks ==
  [id : Nat, from : Nat, take : Nat, reason : CommitReasons, start : Nat, end : Nat, lag : Nat,
   revised : BOOLEAN]
Hypotheses == [text : Seq(Tokens), final : BOOLEAN, wall : Nat \union {Unseen}, audioEnd : Nat]

\* The chunker's variables have their types; the window is never longer than
\* AgreementN, and as many words are committed as were spoken.
TypeOK ==
  /\ timed \in BOOLEAN
  /\ window \in Seq(Seq(Words)) /\ Len(window) <= AgreementN
  /\ firstSeen \in [0..MaxText -> Nat \union {Unseen}]
  /\ contradicted \in BOOLEAN
  /\ nextId \in Nat /\ cursor \in Nat /\ now \in Nat /\ heard \in Nat
  /\ lastHyp \in Hypotheses /\ Len(lastHyp.text) <= MaxText /\ lastHyp.wall <= now
  /\ ends \in Seq(Nat)
  /\ locked \in 0..Len(lastHyp.text)
  /\ phase \in {"feed", "tick", "flush"} /\ batch \in Seq(PhraseChunks)
  /\ spoken \in Seq(Words) /\ committed = Len(spoken)

\* A phrase is spoken only in words that each of the last AgreementN
\* transcripts has in the same place (or a final one), every word leaves in
\* exactly one phrase, and the phrases are in the order of the words and ids.
OnlyAgreedWords ==
  batch # <<>> =>
    /\ \A i \in DOMAIN window : IsPrefix(spoken, window[i])
    /\ Len(window) = AgreementN
    /\ Last(batch).from + Last(batch).take = committed
    /\ Last(batch).id = nextId - 1
    /\ \A i \in 1..(Len(batch) - 1) :
         /\ batch[i + 1].from = batch[i].from + batch[i].take
         /\ batch[i + 1].id = batch[i].id + 1

\* No phrase is empty or above max_words; while the speaker goes on, none is
\* below min_words; a clause phrase ends at a clause end or before a
\* conjunction, and a timed-out one has no clause end it could have stopped at.
PhraseShape ==
  \A i \in DOMAIN batch :
    LET p == batch[i]
        token(n) == lastHyp.text[p.from + n]
    IN  /\ p.take \in 1..MaxWords
        /\ p.reason \in {"clause", "max_words", "stability_timeout"} => p.take >= MinWords
        /\ p.reason = "clause" =>
             \/ token(p.take).closes
             \/ p.from + p.take < Len(lastHyp.text) /\ token(p.take + 1).word \in Conjunctions
        /\ p.reason = "stability_timeout" => \A n \in MinWords..p.take : ~token(n).closes

\* A transcript that takes back words already spoken is reported: the flag is
\* up as long as the current words differ from the spoken ones, until a phrase
\* carries it out, however the transcript shrank and grew in between.
RevisionsReported ==
  ~IsPrefix(spoken, Normalised(lastHyp.text)) => contradicted

\* After a final, a silence or the flush, no agreed word is left behind; after
\* a final, no word at all.
NothingLeftStable ==
  (phase = "flush" \/ (phase = "feed" /\ lastHyp.final)
     \/ \E i \in DOMAIN batch : batch[i].reason = "silence")
  => /\ StableEnd(window, lastHyp.text) <= committed
     /\ lastHyp.final => Len(lastHyp.text) <= committed

\* With word timings, phrases cover audio in order: none ends before it
\* starts, and each starts where the one before it ended.
SpansForward ==
  timed => /\ \A i \in DOMAIN batch : batch[i].start <= batch[i].end
           /\ \A i \in 1..(Len(batch) - 1) : batch[i + 1].start = batch[i].end
           /\ batch # <<>> => Last(batch).end = cursor
=============================================================================
