---------------------------- MODULE WhisperWindow ----------------------------
(***************************************************************************)
(* The sliding window of the development recogniser                        *)
(* (adapters/stt_whisper.py).  Audio gathers in a window that is           *)
(* transcribed whole, again and again; a pause or a full window closes the *)
(* utterance, whose text is locked, and hypotheses are cumulative, as the  *)
(* chunker expects.  The generator is alone in touching this state, so a   *)
(* frame is handled in one action, the pass it may need included.          *)
(*                                                                         *)
(* Audio is counted in frames, all of one length, and a frame is known by  *)
(* its level, the mean of its samples' squares: what both thresholds, the  *)
(* one of a frame and the one of a whole window, are about.  A text stands *)
(* for the stretch of audio it was heard in; whether the model hears one   *)
(* when it is asked, and keeps it, is its own affair.                      *)
(***************************************************************************)
EXTENDS Integers, Sequences, SequencesExt, FiniteSets

CONSTANTS
  MaxWindow,  \* max_window_s
  Silence,    \* silence_duration_s
  SilenceLevel,  \* silence_rms, squared: a frame under it is quiet
  SpeechLevel,   \* speech_rms, squared: a window under it is not asked about
  Levels,     \* the levels a frame may have
  MaxGap,     \* bound on the audio shed between two frames
  MaxAudio    \* bound on the audio of a session

ASSUME WindowAssumption ==
  /\ {MaxWindow, Silence} \subseteq Nat \ {0} /\ {MaxGap, MaxAudio} \subseteq Nat
  /\ {SilenceLevel, SpeechLevel} \cup Levels \subseteq Nat

VARIABLES
  audio,     \* where the next frame begins at the earliest
  window,    \* _buffer: where it starts, and the sum of the levels up to each frame
  quietFor,  \* _quiet_for
  locked,    \* _locked_text
  hyp,       \* the hypothesis yielded last
  ended,     \* the stream is over
  overruns,  \* _over_budget_passes, no further than the two that matter
  warned,    \* _warned_unsustainable
  settled,   \* history: the text of the last hypothesis declared final
  vain,      \* history: passes since the last hypothesis that asked, and heard nothing
  slow       \* history: whether each pass that asked the model was over budget

cost == <<overruns, warned, slow>>
yielded == <<hyp, settled, vain>>
wvars == <<audio, window, quietFor, locked, yielded, ended, cost>>

Empty(start) == [start |-> start, sums |-> <<>>]

WInit ==
  /\ audio = 0 /\ window = Empty(0) /\ quietFor = 0 /\ locked = <<>>
  /\ hyp = [text |-> <<>>, final |-> FALSE, end |-> 0]
  /\ ended = FALSE /\ settled = <<>> /\ vain = 0
  /\ overruns = 0 /\ warned = FALSE /\ slow = <<>>

Frames(w) == Len(w.sums)

\* The window with one more frame; an empty one starts at that frame.
Widened(at, level) ==
  [start |-> IF window.sums = <<>> THEN at ELSE window.start,
   sums |-> Append(window.sums, level + IF window.sums = <<>> THEN 0 ELSE Last(window.sums))]

\* _track_silence: how long it has been quiet, after a frame of that level.
QuietAfter(level) == IF level < SilenceLevel THEN quietFor + 1 ELSE 0

Quiet(quiet) == quiet >= Silence
Overlong(w) == Frames(w) >= MaxWindow

\* Whether the first frames of a window are, taken together, loud enough to ask
\* the model about.  That is another test than the one a frame is quiet by: a
\* window may be neither quiet nor loud enough.
Audible(sums, frames) == sums[frames] >= SpeechLevel * frames
Asked(w) == w.sums # <<>> /\ Audible(w.sums, Frames(w))

\* What _transcribe_buffer may return: nothing for a window the model is not asked
\* about, and nothing as well where the voice gate, the model's own doubts or
\* the hallucination filter leave nothing.
PassTexts(w) == {<<>>} \cup IF Asked(w) THEN {<<[from |-> w.start, frames |-> Frames(w)]>>} ELSE {}

\* _current_audio_end.
AudioEnd(w) == w.start + Frames(w)

Final(w, quiet) == Quiet(quiet) \/ Overlong(w)

\* _note_pass_cost, of a pass that took longer than emit_interval or did not; a
\* pass that does not ask the model costs nothing and is not judged.
NotePassCostAfterAsking(w, over) ==
  /\ slow' = IF Asked(w) THEN Append(slow, over) ELSE slow
  /\ overruns' = IF over THEN (IF overruns < 2 THEN overruns + 1 ELSE 2) ELSE 0
  /\ warned' = (warned \/ overruns' = 2)
NotePassCost(w, over) ==
  IF Asked(w)
  THEN /\ slow' = Append(slow, over)
       /\ overruns' = IF over THEN (IF overruns < 2 THEN overruns + 1 ELSE 2) ELSE 0
       /\ warned' = (warned \/ overruns' = 2)
  ELSE ~over /\ UNCHANGED cost

Yield(text, w, final) ==
  /\ hyp' = [text |-> locked \o text, final |-> final, end |-> AudioEnd(w)]
  /\ settled' = IF final THEN hyp'.text ELSE settled
  /\ vain' = 0

\* The utterance is closed, or goes on.
CloseAndForget(text, w, quiet, final) ==
  /\ locked' = IF final THEN text ELSE locked
  /\ window' = IF final THEN Empty(w.start) ELSE w
  /\ quietFor' = IF final THEN 0 ELSE quiet
Close(text, w, quiet, final) ==
  /\ locked' = IF final THEN locked \o text ELSE locked
  /\ window' = IF final THEN Empty(w.start) ELSE w
  /\ quietFor' = IF final THEN 0 ELSE quiet

\* A frame that falls between two passes only widens the window.  When the next
\* pass is due by the clock (emit_interval) is left open.
Gather(w, quiet) ==
  /\ ~Quiet(quiet) /\ ~Overlong(w)
  /\ window' = w /\ quietFor' = quiet
  /\ UNCHANGED <<locked, yielded, cost>>

\* A pass, because one is due, the speaker pauses or the window is full.
HearNothing(w, quiet, over) ==
  /\ NotePassCost(w, over)
  /\ ~Quiet(quiet)
  /\ window' = w /\ quietFor' = quiet
  /\ vain' = IF Asked(w) THEN vain + 1 ELSE vain
  /\ UNCHANGED <<locked, hyp, settled>>
Hear(w, quiet, over) ==
  /\ NotePassCost(w, over)
  /\ \E text \in PassTexts(w) :
       /\ text # <<>> \/ Quiet(quiet)
       /\ Yield(text, w, Final(w, quiet))
       /\ Close(text, w, quiet, Final(w, quiet))

Frame ==
  /\ ~ended
  /\ \E at \in audio..(audio + MaxGap), level \in Levels, over \in BOOLEAN :
       LET w == Widened(at, level)
           quiet == QuietAfter(level)
       IN  /\ at < MaxAudio /\ audio' = at + 1
           /\ Gather(w, quiet) \/ HearNothing(w, quiet, over) \/ Hear(w, quiet, over)
  /\ UNCHANGED ended

\* The stream is over: one more pass over what is left.
EndOfStream ==
  /\ ~ended /\ ended' = TRUE
  /\ \E over \in BOOLEAN : NotePassCost(window, over)
  /\ \/ \E text \in PassTexts(window) \ {<<>>} : Yield(text, window, TRUE)
     \/ UNCHANGED yielded
  /\ UNCHANGED <<audio, window, quietFor, locked>>

WNext == Frame \/ EndOfStream

WSpec == WInit /\ [][WNext]_wvars

-----------------------------------------------------------------------------

\* Hypotheses are cumulative, as the chunker counts on: what was once declared
\* final heads every one after it, and the audio they cover never goes back,
\* whatever was shed on the way, nor runs ahead of what has arrived.
HypothesesGrow ==
  [][IsPrefix(settled, hyp'.text) /\ hyp.end <= hyp'.end /\ hyp'.end <= audio']_wvars

\* What the recogniser costs is accounted for: of the frames a window has over its
\* cap, each at which it was loud enough for the model to be asked has cost a
\* pass, in vain (one word heard would have emptied it); those at which it was too
\* low to ask about, though not quiet for long enough to close, were free.  And
\* once two passes in a row that asked the model took longer than the interval,
\* whatever came between them, it has been said (stt_whisper.py:314-319), and not
\* before.
CostIsKnown ==
  /\ ~ended => Cardinality({n \in MaxWindow..Frames(window) : Audible(window.sums, n)}) <= vain
  /\ warned <=> \E i \in 2..Len(slow) : slow[i - 1] /\ slow[i]
=============================================================================
