------------------------------ MODULE Recogniser ------------------------------
(***************************************************************************)
(* The streaming recogniser as its caller sees it                          *)
(* (adapters/stt_fastconformer.py, transcribe): the steps of FrameSchedule,*)
(* each of which decodes a transcript of everything heard so far, the      *)
(* hypotheses emitted on the way and at the end, and the WordClock that    *)
(* tells the chunker how much audio each word is known to have needed.     *)
(* What the encoder decodes is not modelled: a step yields any transcript  *)
(* of a small set, extending the last one (RNNT) or not (CTC).             *)
(***************************************************************************)
EXTENDS FrameSchedule, SequencesExt

CONSTANTS
  Vocabulary,    \* the words of the speaker's language
  Transcripts,   \* what a step can decode: sequences of words, <<>> among them
  Decoder        \* "rnnt" or "ctc"

ASSUME TranscriptAssumption ==
  /\ Transcripts \subseteq Seq(Vocabulary) /\ <<>> \in Transcripts
  /\ Decoder \in {"rnnt", "ctc"}

VARIABLES
  text,         \* the transcript of the last step
  lastPlanEnd,  \* last_plan.end, 0 before the first step
  lastEmitted,  \* state.last_emitted
  clock,        \* WordClock: the words stamped last, each with its audio end
  emitted,      \* the last hypothesis, and after how many steps it came
  closed,       \* transcribe has returned
  heard         \* history: the transcript and the end of every step so far

hypothesisVars == <<text, lastPlanEnd, lastEmitted, clock, emitted, closed, heard>>
rvars == <<vars, hypothesisVars>>

NoHypothesis == [words |-> <<>>, audioEnd |-> 0, final |-> FALSE, after |-> 0]

Words(stamped) == [i \in DOMAIN stamped |-> stamped[i].word]

-----------------------------------------------------------------------------

\* A CTC decoder decodes its whole prefix again; RNNT only adds to its own.
RevisesHypotheses == Decoder = "ctc"

\* The transcript a step may return after the one before it.
Decoded == {t \in Transcripts : RevisesHypotheses \/ IsPrefix(text, t)}

\* How many words the new transcript shares with the ones stamped last.
SharedAnywhere(words) == Cardinality({i \in DOMAIN words \cap DOMAIN clock : clock[i].word = words[i]})
Shared(words) == Len(LongestCommonPrefix({words, Words(clock)}))

\* WordClock.stamp: shared words keep their time, the rest have the step's.
Stamp(words, audioEnd) ==
  [i \in DOMAIN words |->
     [word |-> words[i], end |-> IF i <= Shared(words) THEN clock[i].end ELSE audioEnd]]

Emit(words, planEnd, final) ==
  /\ clock' = Stamp(words, planEnd)
  /\ emitted' = [words |-> clock', audioEnd |-> planEnd, final |-> final, after |-> Len(heard')]

FreshState == lastEmitted = <<>> /\ heard = <<>>

RInit ==
  /\ Init /\ FreshState
  /\ text = <<>> /\ lastPlanEnd = 0 /\ clock = <<>> /\ emitted = NoHypothesis
  /\ closed = FALSE

\* Audio, planning and discarding touch no transcript.
Schedule ==
  /\ Receive \/ Plan \/ Planned \/ Discard \/ EndStream
  /\ UNCHANGED hypothesisVars

\* _run_step: the encoder takes the next plan's frames.
DecodeForgetsThePlan ==
  /\ RunStep
  /\ text' \in Decoded
  /\ lastPlanEnd' = IF phase = "ending" THEN lastPlanEnd ELSE Head(plans).end
  /\ heard' = Append(heard, [text |-> text', end |-> Head(plans).end])
  /\ closed' = closed
Decode ==
  /\ RunStep
  /\ text' \in Decoded
  /\ lastPlanEnd' = Head(plans).end
  /\ heard' = Append(heard, [text |-> text', end |-> Head(plans).end])
  /\ closed' = closed

\* A step during the talk: a transcript that is new is emitted.
Interim ==
  /\ phase = "running" /\ Decode
  /\ IF text' # <<>> /\ text' # lastEmitted
     THEN Emit(text', lastPlanEnd', FALSE) /\ lastEmitted' = text'
     ELSE UNCHANGED <<clock, emitted, lastEmitted>>

\* The step flush planned.
LastStep ==
  /\ phase = "ending" /\ Decode
  /\ UNCHANGED <<clock, emitted, lastEmitted>>

\* The final hypothesis, stamped with the last step there was.
Finish ==
  /\ phase = "ending" /\ plans = <<>> /\ ~closed
  /\ closed' = TRUE
  /\ UNCHANGED <<vars, text, lastPlanEnd, lastEmitted, heard>>
  /\ IF text # <<>> THEN Emit(text, lastPlanEnd, TRUE) ELSE UNCHANGED <<clock, emitted>>

RNext == Schedule \/ Interim \/ LastStep \/ Finish

RSpec == RInit /\ [][RNext]_rvars

-----------------------------------------------------------------------------

\* Every transcript of steps n to m that is not empty begins with those words.
StoodFrom(n, m, words) ==
  \A k \in n..m : heard[k].text = <<>> \/ IsPrefix(words, heard[k].text)

\* A word of a hypothesis is stamped with the end of the step that first had
\* it where it is: of the first step since which every transcript has begun
\* with the words up to it.  A word that was withdrawn and came back is not
\* stamped with the time it was first heard, and one that only moved behind a
\* revised word is not either (WordClock.stamp, which is called for emitted
\* transcripts only).
StampsTrue ==
  LET said == Words(emitted.words)
  IN  \A i \in DOMAIN said :
        LET prefix == SubSeq(said, 1, i)
            since  == {n \in 1..emitted.after : /\ heard[n].text # <<>>
                                                /\ StoodFrom(n, emitted.after, prefix)}
        IN  since # {} /\ emitted.words[i].end = heard[Min(since)].end

\* When the stream has ended with words, its last hypothesis is final, has
\* the words of the last step and reaches to the end of the audio: whether or
\* not flush found a last step to run (the tail of transcribe).
FinalIsWhole ==
  (closed /\ text # <<>>) =>
    /\ emitted.final
    /\ Words(emitted.words) = text
    /\ emitted.audioEnd = total
=============================================================================
