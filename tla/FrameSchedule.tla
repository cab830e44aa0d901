---------------------------- MODULE FrameSchedule ----------------------------
(***************************************************************************)
(* How the streaming recogniser chooses the audio of each encoder step     *)
(* (adapters/stt_fastconformer.py): ChunkSchedule plans steps in absolute  *)
(* feature frames, FrameWindow remembers which frames are still held, and  *)
(* transcribe drives both.  An off-by-one here does not fail, it feeds the *)
(* encoder the wrong audio; so the plan, the window and the order in which *)
(* transcribe uses them are modelled exactly, for any streaming geometry   *)
(* whose shift is no longer than its chunk.                                *)
(*                                                                         *)
(* The generator runs alone, so the loop that plans a batch of steps is    *)
(* one action per turn.                                                    *)
(***************************************************************************)
EXTENDS Integers, Sequences

CONSTANTS
  ChunkFirst, ChunkNext,   \* chunk_size_first, chunk_size
  ShiftFirst, ShiftNext,   \* shift_size_first, shift_size
  CacheFirst, CacheNext,   \* pre_encode_cache_first, pre_encode_cache
  MaxBlock,                \* bound on the feature frames of one preprocessor block
  MaxFrames                \* bound on the feature frames of a session

ASSUME GeometryAssumption ==
  /\ ChunkFirst \in Nat \ {0} /\ ChunkNext \in Nat \ {0}
  /\ ShiftFirst \in 1..ChunkFirst /\ ShiftNext \in 1..ChunkNext
  /\ CacheFirst \in Nat /\ CacheNext \in Nat
  /\ MaxBlock \in Nat /\ MaxFrames \in Nat

VARIABLES
  step,     \* schedule.step
  cursor,   \* schedule.cursor: where the next chunk begins
  origin,   \* window.origin: the oldest frame held
  total,    \* window.total: frames ever appended
  plans,    \* the planned steps still to run
  phase,    \* where transcribe is
  covered   \* history: frames of chunks already run, from the first

vars == <<step, cursor, origin, total, plans, phase, covered>>

Lesser(a, b) == IF a <= b THEN a ELSE b
Greater(a, b) == IF a >= b THEN a ELSE b

\* _sizes, for the step about to be planned.
Chunk == IF step = 0 THEN ChunkFirst ELSE ChunkNext
ShiftAlways == ShiftNext
Shift == IF step = 0 THEN ShiftFirst ELSE ShiftNext
CacheLeft == Lesser(IF step = 0 THEN CacheFirst ELSE CacheNext, cursor)
Cache == IF step = 0 THEN CacheFirst ELSE CacheNext

\* A ChunkPlan for the frames from the cursor to end, with the history that
\* exists in front of it and zeros for the history that does not.
PlanTo(end) ==
  LET history == Lesser(Cache, cursor)
  IN  [step |-> step, start |-> cursor, end |-> end,
       cacheStart |-> cursor - history, zeroPad |-> Cache - history]

CacheOfStep(n) == IF n = 0 THEN CacheFirst ELSE CacheNext

RetainFrom == Greater(0, cursor - Cache)

\* FrameWindow.__init__, extend and drop_before, the last clamped to what is held.
EmptyWindow == origin = 0 /\ total = 0
Extend(n) == total + n <= MaxFrames /\ total' = total + n
DropBefore(frame) == origin' = Lesser(Greater(frame, origin), total)

Init ==
  /\ step = 0 /\ cursor = 0
  /\ EmptyWindow
  /\ plans = <<>> /\ phase = "receiving" /\ covered = 0

\* Audio arrives; the blocks it completes are turned into features.
Receive ==
  /\ phase = "receiving"
  /\ \E n \in 0..MaxBlock : Extend(n)
  /\ phase' = "planning"
  /\ UNCHANGED <<step, cursor, origin, plans, covered>>

\* One turn of offer's loop: a whole chunk is there.
Plan ==
  /\ phase = "planning"
  /\ cursor + Chunk <= total
  /\ plans' = Append(plans, PlanTo(cursor + Chunk))
  /\ cursor' = cursor + Shift
  /\ step' = step + 1
  /\ UNCHANGED <<origin, total, phase, covered>>

Planned ==
  /\ phase = "planning"
  /\ cursor + Chunk > total
  /\ phase' = IF plans = <<>> THEN "receiving" ELSE "running"
  /\ UNCHANGED <<step, cursor, origin, total, plans, covered>>

\* _run_step of the next plan, which slices its frames from the buffer.
RunStepAndDiscard ==
  /\ phase \in {"running", "ending"} /\ plans # <<>>
  /\ covered' = Head(plans).end
  /\ plans' = Tail(plans)
  /\ DropBefore(RetainFrom)
  /\ UNCHANGED <<step, cursor, total, phase>>
RunStep ==
  /\ phase \in {"running", "ending"} /\ plans # <<>>
  /\ covered' = Head(plans).end
  /\ plans' = Tail(plans)
  /\ UNCHANGED <<step, cursor, origin, total, phase>>

\* The batch is finished: consumed frames are discarded.
Discard ==
  /\ phase = "running" /\ plans = <<>>
  /\ DropBefore(RetainFrom)
  /\ phase' = "receiving"
  /\ UNCHANGED <<step, cursor, total, plans, covered>>

\* The stream ends: the samples short of a block are turned into features too,
\* and flush plans one last step over whatever is left.
EndStream ==
  /\ phase = "receiving"
  /\ \E n \in 0..MaxBlock :
       /\ Extend(n)
       /\ IF total' <= cursor
          THEN UNCHANGED <<plans, cursor, step>>
          ELSE plans' = <<PlanTo(total')>> /\ cursor' = total' /\ step' = step + 1
  /\ phase' = "ending"
  /\ UNCHANGED <<origin, covered>>

Next == Receive \/ Plan \/ Planned \/ RunStep \/ Discard \/ EndStream

Spec == Init /\ [][Next]_vars

-----------------------------------------------------------------------------

PlanType == [step : Nat, start : Nat, end : Nat, cacheStart : Nat, zeroPad : Nat]

\* The schedule and the window have their types, and none of the cursor, the
\* origin and the audio already run passes what has arrived.
TypeOK ==
  /\ step \in Nat /\ cursor \in Nat /\ origin \in Nat /\ total \in Nat /\ covered \in Nat
  /\ plans \in Seq(PlanType)
  /\ phase \in {"receiving", "planning", "running", "ending"}
  /\ origin <= total /\ cursor <= total /\ covered <= total

\* FrameWindow.local finds what a step slices: history and chunk.
Held(plan) == origin <= plan.cacheStart /\ plan.end <= total

\* No step needs a frame that was discarded, or one that has not arrived:
\* FrameWindow.local never raises.
NeverDiverges == \A i \in DOMAIN plans : Held(plans[i])

\* No frame is passed over: each step starts within, or right after, the audio
\* the one before it covered, and so does the step after the last one planned;
\* and at the end of the stream the encoder has had every frame.
EveryFrameHeard ==
  /\ \A i \in DOMAIN plans : plans[i].start <= IF i = 1 THEN covered ELSE plans[i - 1].end
  /\ cursor <= IF plans = <<>> THEN covered ELSE plans[Len(plans)].end
  /\ (phase = "ending" /\ plans = <<>>) => covered = total

\* Every step has audio of its own, and as many frames in front of its chunk
\* as its pre-encode cache is long, zeros only for history from before the
\* session (ChunkSchedule.offer and flush).
HistoryComplete ==
  \A i \in DOMAIN plans :
    /\ plans[i].start < plans[i].end
    /\ plans[i].zeroPad + (plans[i].start - plans[i].cacheStart) = CacheOfStep(plans[i].step)
    /\ plans[i].zeroPad > 0 => plans[i].cacheStart = 0

\* The frames held between two frames of audio are fewer than one chunk and
\* one pre-encode cache, however long the session.
MemoryBounded ==
  phase = "receiving" => total - origin < Greater(ChunkFirst, CacheNext + ChunkNext)

\* The window holds what the steps planned will slice, and between two frames
\* of audio no more than the next step can need (retain_from, and the discard
\* after the whole batch of steps in transcribe).
WindowFits == NeverDiverges /\ MemoryBounded
=============================================================================
