--------------------------- MODULE RecogniserProofs ---------------------------
(***************************************************************************)
(* The streaming recogniser's invariants, for every streaming geometry,    *)
(* every way the audio arrives and whatever is decoded.                    *)
(*                                                                         *)
(* First its schedule, FrameSchedule.  The invariant that carries the rest *)
(* there is Retained: what the window has discarded lies before everything *)
(* the next step could still need, and between two batches exactly that    *)
(* much is kept.  A step planned inside a batch needs no more than the     *)
(* first one did, because the cursor only moves on, and nothing is         *)
(* discarded until the batch has run.                                      *)
(*                                                                         *)
(* Next the recogniser, which is a frame schedule to which transcripts are *)
(* added: every step of it is a step of FrameSchedule or leaves the        *)
(* schedule alone.  So what is shown of the schedule holds of the          *)
(* recogniser, and with it that the final hypothesis covers all of the     *)
(* audio: the last plan is the last one run (LastPlanKept), and at the end *)
(* of the stream that one ends where the audio does (EveryFrameHeard).     *)
(*                                                                         *)
(* Then the stamps.  Since the last hypothesis every step has decoded      *)
(* nothing or that hypothesis again (ClockFits), so a word the clock       *)
(* shares with the next one has stood since the step it was stamped with,  *)
(* and one it does not share has stood since the step just made.           *)
(*                                                                         *)
(* The recogniser used for development needs none of this: WhisperWindow   *)
(* is a window of its own.  Its hypotheses begin with what was locked      *)
(* (Cumulative) and end within its window (Forward).                       *)
(***************************************************************************)
EXTENDS Recogniser, WhisperWindow, SequenceTheorems, FiniteSetTheorems, WellFoundedInduction, TLAPS

USE GeometryAssumption DEF GeometryAssumption

Retained ==
  /\ step = 0 => cursor = 0
  /\ origin <= RetainFrom
  /\ (phase = "receiving" \/ (phase = "planning" /\ plans = <<>>)) => origin = RetainFrom

\* A batch is run once no further step can be planned; at the end of the
\* stream nothing is left to plan.
BatchComplete ==
  /\ phase = "receiving" => plans = <<>>
  /\ phase \in {"receiving", "running"} => total < cursor + Chunk
  /\ phase = "ending" => cursor = total

IInv ==
  /\ TypeOK
  /\ NeverDiverges
  /\ EveryFrameHeard
  /\ HistoryComplete
  /\ Retained
  /\ BatchComplete

\* A plan made now, for a whole chunk or for the tail, has its history and its
\* frames in the window.
LEMMA PlanFits ==
  ASSUME NEW STATE end, end \in Nat, TypeOK, Retained, cursor < end, end <= total
  PROVE  /\ PlanTo(end) \in PlanType
         /\ Held(PlanTo(end))
         /\ PlanTo(end).start = cursor /\ PlanTo(end).end = end
         /\ PlanTo(end).zeroPad + (PlanTo(end).start - PlanTo(end).cacheStart) = CacheOfStep(PlanTo(end).step)
         /\ PlanTo(end).zeroPad > 0 => PlanTo(end).cacheStart = 0
<1> DEFINE history == Lesser(Cache, cursor)
<1>1. /\ step \in Nat /\ cursor \in Nat /\ origin \in Nat /\ total \in Nat
      /\ Cache \in Nat /\ Cache = CacheOfStep(step)
      /\ origin <= RetainFrom
  BY DEF TypeOK, Retained, Cache, CacheOfStep
<1>2. /\ history \in Nat /\ history <= Cache /\ history <= cursor
      /\ Cache - history > 0 => cursor - history = 0
      /\ RetainFrom = cursor - history
  BY <1>1 DEF Lesser, Greater, RetainFrom
<1>3. PlanTo(end) = [step |-> step, start |-> cursor, end |-> end,
                     cacheStart |-> cursor - history, zeroPad |-> Cache - history]
  BY DEF PlanTo
<1> HIDE DEF history
<1>4. cursor - history \in Nat /\ Cache - history \in Nat
  BY <1>1, <1>2
<1>5. PlanTo(end) \in PlanType
  BY <1>1, <1>3, <1>4 DEF PlanType
<1>6. /\ PlanTo(end).step = step /\ PlanTo(end).start = cursor /\ PlanTo(end).end = end
      /\ PlanTo(end).cacheStart = cursor - history /\ PlanTo(end).zeroPad = Cache - history
  BY <1>3
<1>7. Held(PlanTo(end))
  BY <1>1, <1>2, <1>6 DEF Held
<1>8. (Cache - history) + (cursor - (cursor - history)) = Cache
  BY <1>1, <1>2
<1> QED BY <1>1, <1>2, <1>5, <1>6, <1>7, <1>8

LEMMA GreaterMonotone ==
  ASSUME NEW a \in Int, NEW b \in Int, a <= 0 \/ a <= b
  PROVE  Greater(0, a) <= Greater(0, b)
BY DEF Greater

LEMMA InitEstablishes == Init => IInv
BY DEF Init, EmptyWindow, IInv, TypeOK, NeverDiverges, EveryFrameHeard, HistoryComplete, Retained, BatchComplete,
       RetainFrom, Greater, Cache, Chunk

\* Frames arrive.
LEMMA ReceivePreserves == IInv /\ Receive => IInv'
<1> SUFFICES ASSUME IInv, Receive PROVE IInv'
  OBVIOUS
<1>1. PICK n \in 0..MaxBlock : total' = total + n
  BY DEF Receive, Extend
<1>2. plans = <<>> /\ plans' = <<>> /\ phase = "receiving" /\ phase' = "planning"
  BY DEF IInv, BatchComplete, Receive, Extend
<1>3. TypeOK'
  BY <1>1, <1>2 DEF IInv, TypeOK, Receive, Extend
<1>4. NeverDiverges' /\ EveryFrameHeard' /\ HistoryComplete'
  BY <1>2 DEF IInv, NeverDiverges, EveryFrameHeard, HistoryComplete, Receive, Extend
<1>5. Retained' /\ BatchComplete'
  BY <1>2 DEF IInv, Retained, BatchComplete, RetainFrom, Cache, Receive, Extend
<1> QED BY <1>3, <1>4, <1>5 DEF IInv

\* One turn of the planning loop.
LEMMA PlanPreserves == IInv /\ Plan => IInv'
<1> SUFFICES ASSUME IInv, Plan PROVE IInv'
  OBVIOUS
<1> DEFINE end == cursor + Chunk
           new == PlanTo(end)
<1>1. /\ TypeOK /\ Retained
      /\ Chunk \in Nat \ {0} /\ Shift \in 1..Chunk
      /\ end \in Nat /\ cursor < end /\ end <= total
  BY DEF IInv, TypeOK, Plan, Chunk, Shift
<1>2. /\ new \in PlanType /\ Held(new) /\ new.start = cursor /\ new.end = end
      /\ new.zeroPad + (new.start - new.cacheStart) = CacheOfStep(new.step)
      /\ new.zeroPad > 0 => new.cacheStart = 0
  BY <1>1, PlanFits
<1> HIDE DEF new
<1>3. /\ plans' = Append(plans, new) /\ cursor' = cursor + Shift /\ step' = step + 1
      /\ origin' = origin /\ total' = total /\ phase' = phase /\ covered' = covered
      /\ phase = "planning"
  BY DEF Plan, new
<1>4. plans \in Seq(PlanType)
  BY <1>1 DEF TypeOK
<1>5. /\ Len(plans') = Len(plans) + 1
      /\ plans'[Len(plans')] = new
      /\ \A i \in 1..Len(plans) : plans'[i] = plans[i]
      /\ plans' # <<>>
      /\ plans' \in Seq(PlanType)
  BY <1>2, <1>3, <1>4
<1>6. DOMAIN plans = 1..Len(plans) /\ DOMAIN plans' = 1..(Len(plans) + 1)
  BY <1>4, <1>5
<1>7. TypeOK'
  BY <1>1, <1>3, <1>5 DEF TypeOK
<1>8. NeverDiverges'
  <2> SUFFICES ASSUME NEW i \in DOMAIN plans' PROVE origin' <= plans'[i].cacheStart /\ plans'[i].end <= total'
    BY DEF NeverDiverges, Held
  <2>1. Held(plans'[i])
    BY <1>2, <1>4, <1>5, <1>6 DEF IInv, NeverDiverges
  <2> QED BY <2>1, <1>3 DEF Held
<1>9. EveryFrameHeard'
  <2>1. \A i \in DOMAIN plans' : plans'[i].start <= IF i = 1 THEN covered' ELSE plans'[i - 1].end
    <3> SUFFICES ASSUME NEW i \in DOMAIN plans'
                 PROVE  plans'[i].start <= IF i = 1 THEN covered' ELSE plans'[i - 1].end
      OBVIOUS
    <3>1. CASE i \in 1..Len(plans)
      BY <3>1, <1>3, <1>4, <1>5, <1>6 DEF IInv, EveryFrameHeard
    <3>2. CASE i = Len(plans) + 1
      <4>1. plans'[i].start = cursor
        BY <3>2, <1>2, <1>5
      <4>2. CASE plans = <<>>
        BY <4>1, <4>2, <3>2, <1>3 DEF IInv, EveryFrameHeard
      <4>3. CASE plans # <<>>
        <5>1. Len(plans) \in Nat \ {0} /\ plans'[i - 1] = plans[Len(plans)] /\ i # 1
          BY <4>3, <3>2, <1>4, <1>5
        <5> QED BY <5>1, <4>1, <4>3 DEF IInv, EveryFrameHeard
      <4> QED BY <4>2, <4>3
    <3> QED BY <3>1, <3>2, <1>4, <1>6
  <2>2. cursor' <= plans'[Len(plans')].end
    BY <1>1, <1>2, <1>3, <1>5 DEF TypeOK
  <2> QED BY <2>1, <2>2, <1>3, <1>5 DEF EveryFrameHeard
<1>10. HistoryComplete'
  <2> SUFFICES ASSUME NEW i \in DOMAIN plans'
               PROVE  /\ plans'[i].start < plans'[i].end
                      /\ plans'[i].zeroPad + (plans'[i].start - plans'[i].cacheStart) = CacheOfStep(plans'[i].step)
                      /\ plans'[i].zeroPad > 0 => plans'[i].cacheStart = 0
    BY DEF HistoryComplete, CacheOfStep
  <2>1. CASE i \in 1..Len(plans)
    BY <2>1, <1>5, <1>6 DEF IInv, HistoryComplete
  <2>2. CASE i = Len(plans) + 1
    BY <2>2, <1>1, <1>2, <1>5
  <2> QED BY <2>1, <2>2, <1>4, <1>6
<1>11. Retained'
  BY <1>1, <1>3, <1>5 DEF TypeOK, Retained, RetainFrom, Greater, Cache
<1>12. BatchComplete'
  BY <1>3 DEF IInv, BatchComplete
<1> QED BY <1>7, <1>8, <1>9, <1>10, <1>11, <1>12 DEF IInv

\* The batch is planned: it runs, or there is nothing to run.
LEMMA PlannedPreserves == IInv /\ Planned => IInv'
<1> SUFFICES ASSUME IInv, Planned PROVE IInv'
  OBVIOUS
<1>1. /\ step' = step /\ cursor' = cursor /\ origin' = origin /\ total' = total
      /\ plans' = plans /\ covered' = covered
      /\ phase = "planning" /\ cursor + Chunk > total
      /\ phase' = IF plans = <<>> THEN "receiving" ELSE "running"
  BY DEF Planned
<1>2. TypeOK'
  BY <1>1 DEF IInv, TypeOK
<1>3. NeverDiverges' /\ HistoryComplete'
  BY <1>1 DEF IInv, NeverDiverges, HistoryComplete, Held
<1>4. EveryFrameHeard'
  BY <1>1 DEF IInv, EveryFrameHeard
<1>5. Retained'
  BY <1>1 DEF IInv, Retained, RetainFrom, Cache
<1>6. BatchComplete'
  BY <1>1 DEF IInv, TypeOK, BatchComplete, Chunk
<1> QED BY <1>2, <1>3, <1>4, <1>5, <1>6 DEF IInv

\* A step runs: the plans behind it move up by one.
LEMMA RunStepPreserves == IInv /\ RunStep => IInv'
<1> SUFFICES ASSUME IInv, RunStep PROVE IInv'
  OBVIOUS
<1>1. /\ step' = step /\ cursor' = cursor /\ origin' = origin /\ total' = total
      /\ phase' = phase /\ phase \in {"running", "ending"}
      /\ plans # <<>> /\ plans' = Tail(plans) /\ covered' = Head(plans).end
  BY DEF RunStep
<1>2. plans \in Seq(PlanType) /\ Len(plans) \in Nat \ {0} /\ DOMAIN plans = 1..Len(plans)
  <2>1. plans \in Seq(PlanType)
    BY DEF IInv, TypeOK
  <2> QED BY <2>1, <1>1
<1>3. /\ plans' \in Seq(PlanType)
      /\ Len(plans') = Len(plans) - 1
      /\ DOMAIN plans' = 1..(Len(plans) - 1)
      /\ \A i \in 1..(Len(plans) - 1) : plans'[i] = plans[i + 1]
      /\ Head(plans) = plans[1] /\ plans[1] \in PlanType
  <2>1. plans' = Tail(plans) /\ plans # <<>> /\ plans \in Seq(PlanType) /\ Len(plans) \in Nat \ {0}
    BY <1>1, <1>2
  <2>2. plans' \in Seq(PlanType) /\ Len(plans') = Len(plans) - 1
    BY <2>1
  <2>3. DOMAIN plans' = 1..(Len(plans) - 1)
    BY <2>2
  <2>4. \A i \in 1..(Len(plans) - 1) : plans'[i] = plans[i + 1]
    BY <2>1
  <2>5. Head(plans) = plans[1] /\ plans[1] \in PlanType
    BY <2>1, <1>2
  <2> QED BY <2>2, <2>3, <2>4, <2>5
<1>4. TypeOK'
  <2>1. covered' \in Nat /\ covered' <= total
    <3>1. covered' = plans[1].end /\ 1 \in DOMAIN plans
      BY <1>1, <1>2, <1>3
    <3>2. plans[1].end \in Nat
      BY <1>3 DEF PlanType
    <3>3. plans[1].end <= total
      BY <3>1 DEF IInv, NeverDiverges, Held
    <3> QED BY <3>1, <3>2, <3>3
  <2> QED BY <2>1, <1>1, <1>3 DEF IInv, TypeOK
<1>5. NeverDiverges'
  BY <1>1, <1>2, <1>3 DEF IInv, NeverDiverges, Held
<1>6. EveryFrameHeard'
  <2>1. ASSUME NEW i \in DOMAIN plans'
        PROVE  plans'[i].start <= IF i = 1 THEN covered' ELSE plans'[i - 1].end
    <3>1. plans'[i] = plans[i + 1] /\ i + 1 \in DOMAIN plans /\ i + 1 # 1
      BY <1>2, <1>3
    <3>2. plans[i + 1].start <= plans[i].end
      <4> DEFINE j == i + 1
      <4>1. j \in DOMAIN plans /\ j # 1 /\ j - 1 = i
        BY <3>1, <1>2, <1>3
      <4>2. plans[j].start <= IF j = 1 THEN covered ELSE plans[j - 1].end
        BY <4>1 DEF IInv, EveryFrameHeard
      <4> HIDE DEF j
      <4>3. plans[j].start <= plans[i].end
        BY <4>1, <4>2
      <4> QED BY <4>3 DEF j
    <3>3. plans[i].end = IF i = 1 THEN covered' ELSE plans'[i - 1].end
      BY <1>1, <1>2, <1>3
    <3> QED BY <3>1, <3>2, <3>3
  <2>2. cursor' <= IF plans' = <<>> THEN covered' ELSE plans'[Len(plans')].end
    <3>1. cursor <= plans[Len(plans)].end
      BY <1>1 DEF IInv, EveryFrameHeard
    <3>2. CASE Len(plans) = 1
      BY <3>1, <3>2, <1>1, <1>2, <1>3
    <3>3. CASE Len(plans) # 1
      <4>1. Len(plans') \in 1..(Len(plans) - 1) /\ Len(plans') + 1 = Len(plans) /\ plans' # <<>>
        BY <3>3, <1>2, <1>3
      <4>2. plans'[Len(plans')] = plans[Len(plans)]
        BY <4>1, <1>3
      <4> QED BY <3>1, <4>1, <4>2, <1>1
    <3> QED BY <3>2, <3>3
  <2>3. (phase' = "ending" /\ plans' = <<>>) => covered' = total'
    BY <2>2, <1>1, <1>4 DEF IInv, TypeOK, BatchComplete
  <2> QED BY <2>1, <2>2, <2>3 DEF EveryFrameHeard
<1>7. HistoryComplete'
  BY <1>1, <1>2, <1>3 DEF IInv, HistoryComplete, CacheOfStep
<1>8. Retained'
  BY <1>1 DEF IInv, Retained, RetainFrom, Cache
<1>9. BatchComplete'
  BY <1>1 DEF IInv, BatchComplete, Chunk
<1> QED BY <1>4, <1>5, <1>6, <1>7, <1>8, <1>9 DEF IInv

\* What the batch no longer needs is discarded.
LEMMA DiscardPreserves == IInv /\ Discard => IInv'
<1> SUFFICES ASSUME IInv, Discard PROVE IInv'
  OBVIOUS
<1>1. /\ step' = step /\ cursor' = cursor /\ total' = total /\ covered' = covered
      /\ plans = <<>> /\ plans' = <<>> /\ phase = "running" /\ phase' = "receiving"
      /\ origin' = Lesser(Greater(RetainFrom, origin), total)
  BY DEF Discard, DropBefore
<1>2. origin' = RetainFrom /\ origin' \in Nat /\ origin' <= total
  BY <1>1 DEF IInv, TypeOK, Retained, RetainFrom, Greater, Lesser, Cache
<1>3. TypeOK'
  BY <1>1, <1>2 DEF IInv, TypeOK
<1>4. NeverDiverges' /\ HistoryComplete' /\ EveryFrameHeard'
  BY <1>1 DEF IInv, NeverDiverges, HistoryComplete, EveryFrameHeard
<1>5. Retained' /\ BatchComplete'
  <2>1. RetainFrom' = RetainFrom /\ Chunk' = Chunk
    BY <1>1 DEF RetainFrom, Cache, Chunk, Greater
  <2>2. RetainFrom \in Int
    BY DEF IInv, TypeOK, RetainFrom, Greater, Cache
  <2> QED BY <2>1, <2>2, <1>1, <1>2 DEF IInv, Retained, BatchComplete
<1> QED BY <1>3, <1>4, <1>5 DEF IInv

\* The stream ends, with or without a tail.
LEMMA EndStreamPreserves == IInv /\ EndStream => IInv'
<1> SUFFICES ASSUME IInv, EndStream PROVE IInv'
  OBVIOUS
<1>1. PICK n \in 0..MaxBlock :
        /\ total' = total + n
        /\ IF total' <= cursor
           THEN plans' = plans /\ cursor' = cursor /\ step' = step
           ELSE plans' = <<PlanTo(total')>> /\ cursor' = total' /\ step' = step + 1
  BY DEF EndStream, Extend
<1>2. /\ phase' = "ending" /\ origin' = origin /\ covered' = covered
      /\ plans = <<>> /\ cursor <= covered
  BY DEF IInv, BatchComplete, EveryFrameHeard, EndStream, Extend
<1>3. /\ step \in Nat /\ cursor \in Nat /\ total \in Nat /\ origin \in Nat /\ covered \in Nat
      /\ cursor <= total /\ covered <= total /\ origin <= total
      /\ total' \in Nat /\ total <= total'
  BY <1>1 DEF IInv, TypeOK
<1>4. CASE total' <= cursor
  <2>1. /\ total' = total /\ cursor = total /\ covered = total
        /\ plans' = plans /\ cursor' = cursor /\ step' = step
    BY <1>1, <1>2, <1>3, <1>4
  <2>2. TypeOK' /\ NeverDiverges' /\ EveryFrameHeard' /\ HistoryComplete' /\ BatchComplete'
    BY <2>1, <1>2, <1>3 DEF IInv, TypeOK, NeverDiverges, EveryFrameHeard, HistoryComplete, BatchComplete
  <2>3. Retained'
    BY <2>1, <1>2 DEF IInv, Retained, RetainFrom, Cache
  <2> QED BY <2>2, <2>3 DEF IInv
<1>5. CASE total' > cursor
  <2> DEFINE new == PlanTo(total')
  <2>1. plans' = <<new>> /\ cursor' = total' /\ step' = step + 1
    BY <1>1, <1>3, <1>5
  <2>2. /\ new \in PlanType /\ new.start = cursor /\ new.end = total'
        /\ origin <= new.cacheStart
        /\ new.zeroPad + (new.start - new.cacheStart) = CacheOfStep(new.step)
        /\ new.zeroPad > 0 => new.cacheStart = 0
    <3>1. /\ Cache \in Nat /\ Cache = CacheOfStep(step) /\ origin <= RetainFrom
      BY <1>3 DEF IInv, Retained, Cache, CacheOfStep
    <3> DEFINE history == Lesser(Cache, cursor)
    <3>2. /\ history \in Nat /\ history <= Cache /\ history <= cursor
          /\ Cache - history > 0 => cursor - history = 0
          /\ RetainFrom = cursor - history
      BY <3>1, <1>3 DEF Lesser, Greater, RetainFrom
    <3>3. new = [step |-> step, start |-> cursor, end |-> total',
                 cacheStart |-> cursor - history, zeroPad |-> Cache - history]
      BY DEF PlanTo
    <3> HIDE DEF history, new
    <3>4. cursor - history \in Nat /\ Cache - history \in Nat
          /\ (Cache - history) + (cursor - (cursor - history)) = Cache
      BY <3>1, <3>2, <1>3
    <3>5. new \in PlanType
      BY <1>3, <3>3, <3>4 DEF PlanType
    <3> QED BY <3>1, <3>2, <3>3, <3>4, <3>5
  <2> HIDE DEF new
  <2>3. /\ plans' \in Seq(PlanType) /\ DOMAIN plans' = {1} /\ plans'[1] = new
        /\ Len(plans') = 1 /\ plans' # <<>>
    BY <2>1, <2>2
  <2>4. TypeOK'
    BY <2>1, <2>3, <1>2, <1>3 DEF TypeOK
  <2>5. NeverDiverges' /\ HistoryComplete'
    BY <2>2, <2>3, <1>2, <1>3, <1>5 DEF NeverDiverges, Held, HistoryComplete, CacheOfStep
  <2>6. EveryFrameHeard'
    BY <2>1, <2>2, <2>3, <1>2, <1>3 DEF EveryFrameHeard
  <2>7. Retained'
    <3>1. step' # 0 /\ ~(phase' = "receiving" \/ (phase' = "planning" /\ plans' = <<>>))
      BY <2>1, <1>2, <1>3
    <3>2. origin = Greater(0, cursor - Cache)
      BY DEF IInv, Retained, RetainFrom, EndStream, Extend
    <3>3. /\ Cache \in Nat /\ Cache' \in Nat /\ Cache' = CacheNext
          /\ step = 0 => cursor = 0
          /\ step # 0 => Cache = CacheNext
      BY <3>1 DEF IInv, Retained, Cache
    <3>4. origin' <= Greater(0, cursor' - Cache')
      <4>1. origin' = Greater(0, cursor - Cache) /\ cursor' = total' /\ cursor < total'
        BY <3>2, <2>1, <1>2, <1>3, <1>5
      <4>2. Greater(0, cursor - Cache) <= Greater(0, total' - CacheNext)
        <5>1. cursor - Cache \in Int /\ total' - CacheNext \in Int
          BY <1>3, <3>3
        <5>2. cursor - Cache <= 0 \/ cursor - Cache <= total' - CacheNext
          <6>1. CASE step = 0
            <7>1. cursor = 0 /\ Cache \in Nat
              BY <6>1, <3>3
            <7> QED BY <7>1
          <6>2. CASE step # 0
            <7>1. Cache = CacheNext /\ CacheNext \in Nat /\ cursor < total' /\ cursor \in Nat /\ total' \in Nat
              BY <6>2, <3>3, <4>1, <1>3
            <7>2. cursor - CacheNext <= total' - CacheNext
              <8> DEFINE c == cursor
                         t == total'
              <8>1. c \in Nat /\ t \in Nat /\ c < t /\ CacheNext \in Nat
                BY <7>1
              <8> HIDE DEF c, t
              <8>2. c - CacheNext <= t - CacheNext
                BY <8>1
              <8> QED BY <8>2 DEF c, t
            <7> QED BY <7>1, <7>2
          <6> QED BY <6>1, <6>2
        <5> QED BY <5>1, <5>2, GreaterMonotone
      <4> QED BY <4>1, <4>2, <3>3
    <3> QED BY <3>1, <3>4 DEF Retained, RetainFrom
  <2>8. BatchComplete'
    BY <2>1, <1>2 DEF BatchComplete
  <2> QED BY <2>4, <2>5, <2>6, <2>7, <2>8 DEF IInv
<1> QED BY <1>3, <1>4, <1>5

LEMMA Invariance == Spec => []IInv
<1>1. Init => IInv
  BY InitEstablishes
<1>2. IInv /\ [Next]_vars => IInv'
  <2> SUFFICES ASSUME IInv, [Next]_vars PROVE IInv'
    OBVIOUS
  <2>1. CASE UNCHANGED vars
    BY <2>1 DEF vars, IInv, TypeOK, NeverDiverges, Held, EveryFrameHeard, HistoryComplete, Retained,
                BatchComplete, RetainFrom, Cache, Chunk
  <2> QED BY <2>1, ReceivePreserves, PlanPreserves, PlannedPreserves, RunStepPreserves,
             DiscardPreserves, EndStreamPreserves DEF Next
<1> QED BY <1>1, <1>2, PTL DEF Spec

\* Every variable keeps its type, the window's origin and the cursor never
\* pass the end of what has arrived.
THEOREM TypeCorrect == Spec => []TypeOK
BY Invariance, PTL DEF IInv

\* FrameWindow.local never raises: the schedule and the buffer do not diverge.
THEOREM ScheduleFitsWindow == Spec => []NeverDiverges
BY Invariance, PTL DEF IInv

\* No frame of the speaker's audio is kept from the encoder, the tail included.
THEOREM NothingPassedOver == Spec => []EveryFrameHeard
BY Invariance, PTL DEF IInv

\* Each step has its whole pre-encode cache, zeros only before the session.
THEOREM HistoryAlwaysComplete == Spec => []HistoryComplete
BY Invariance, PTL DEF IInv

\* Memory holds less than one chunk and one pre-encode cache between frames.
THEOREM MemoryIsBounded == Spec => []MemoryBounded
<1>1. IInv => MemoryBounded
  BY DEF IInv, TypeOK, Retained, BatchComplete, MemoryBounded, RetainFrom, Greater, Chunk, Cache
<1> QED BY <1>1, Invariance, PTL

\* The window always holds the frames the planned steps will slice, and never
\* more than one chunk and one pre-encode cache between two frames of audio.
THEOREM WindowAlwaysFits == Spec => []WindowFits
BY ScheduleFitsWindow, MemoryIsBounded, PTL DEF WindowFits

-----------------------------------------------------------------------------
(* The recogniser.                                                         *)

\* A closed stream has run every plan, and its final hypothesis has the last
\* step's words.
LastPlanKept ==
  /\ lastPlanEnd = covered
  /\ text \in Transcripts
  /\ closed => phase = "ending" /\ plans = <<>>
  /\ (closed /\ text # <<>>) =>
       emitted.final /\ Words(emitted.words) = text /\ emitted.audioEnd = lastPlanEnd

LEMMA StepRefines == [RNext]_rvars => [Next]_vars
<1> SUFFICES ASSUME [RNext]_rvars PROVE [Next]_vars
  OBVIOUS
<1>1. CASE Schedule
  BY <1>1 DEF Schedule, Next
<1>2. CASE Interim \/ LastStep
  BY <1>2 DEF Interim, LastStep, Decode, Next
<1>3. CASE Finish \/ UNCHANGED rvars
  BY <1>3 DEF Finish, rvars
<1> QED BY <1>1, <1>2, <1>3 DEF RNext

LEMMA StampedWords ==
  ASSUME NEW words \in Transcripts, NEW audioEnd
  PROVE  Words(Stamp(words, audioEnd)) = words
<1>1. words \in Seq(Vocabulary)
  BY TranscriptAssumption DEF TranscriptAssumption
<1>2. words = [i \in DOMAIN words |-> words[i]]
  BY <1>1
<1> QED BY <1>2 DEF Words, Stamp

LEMMA LastPlanKeptInit == RInit => LastPlanKept
BY TranscriptAssumption DEF TranscriptAssumption, RInit, Init, LastPlanKept

\* The schedule's own steps, none of which a closed stream takes.
LEMMA SchedulePreserves == LastPlanKept /\ Schedule => LastPlanKept'
BY DEF LastPlanKept, Schedule, hypothesisVars, Receive, Plan, Planned, Discard, EndStream

LEMMA DecodePreserves ==
  ASSUME LastPlanKept, Decode
  PROVE  LastPlanKept'
<1>1. plans # <<>> /\ covered' = Head(plans).end /\ lastPlanEnd' = Head(plans).end /\ closed' = closed
  BY DEF Decode, RunStep
<1>2. text' \in Transcripts
  BY DEF Decode, Decoded
<1>3. ~closed
  BY <1>1 DEF LastPlanKept
<1> QED BY <1>1, <1>2, <1>3 DEF LastPlanKept

LEMMA FinishPreserves ==
  ASSUME LastPlanKept, Finish
  PROVE  LastPlanKept'
<1>1. /\ lastPlanEnd' = lastPlanEnd /\ covered' = covered /\ text' = text
      /\ phase' = "ending" /\ plans' = <<>>
  BY DEF Finish, vars
<1>2. text # <<>> => emitted'.final /\ Words(emitted'.words) = text /\ emitted'.audioEnd = lastPlanEnd
  <2> SUFFICES ASSUME text # <<>> 
               PROVE  emitted'.final /\ Words(emitted'.words) = text /\ emitted'.audioEnd = lastPlanEnd
    OBVIOUS
  <2>1. Emit(text, lastPlanEnd, TRUE)
    BY DEF Finish
  <2>2. clock' = Stamp(text, lastPlanEnd)
    BY <2>1 DEF Emit
  <2>3. emitted'.words = Stamp(text, lastPlanEnd) /\ emitted'.final /\ emitted'.audioEnd = lastPlanEnd
    BY <2>1, <2>2 DEF Emit
  <2>4. Words(Stamp(text, lastPlanEnd)) = text
    BY StampedWords DEF LastPlanKept
  <2> QED BY <2>3, <2>4
<1> QED BY <1>1, <1>2 DEF LastPlanKept

LEMMA LastPlanKeptAlways == RSpec => []LastPlanKept
<1>1. LastPlanKept /\ [RNext]_rvars => LastPlanKept'
  <2> SUFFICES ASSUME LastPlanKept, [RNext]_rvars PROVE LastPlanKept'
    OBVIOUS
  <2>1. CASE UNCHANGED rvars
    BY <2>1 DEF LastPlanKept, rvars, vars, hypothesisVars
  <2>2. CASE Interim \/ LastStep
    BY <2>2, DecodePreserves DEF Interim, LastStep
  <2> QED BY <2>1, <2>2, SchedulePreserves, FinishPreserves DEF RNext
<1> QED BY <1>1, LastPlanKeptInit, PTL DEF RSpec

\* The recogniser implements the frame schedule: what it adds, transcripts and
\* hypotheses, neither plans a step nor discards a frame.
THEOREM ImplementsSchedule == RSpec => Spec
<1>1. RInit => Init
  BY DEF RInit
<1> QED BY <1>1, StepRefines, PTL DEF RSpec, Spec

\* Inside the recogniser too, every step finds its frames in a window that
\* stays small, no frame of the audio is passed over, and each step has its
\* history.
THEOREM EncoderIsFedRight == RSpec => [](WindowFits /\ EveryFrameHeard /\ HistoryComplete)
BY ImplementsSchedule, WindowAlwaysFits, NothingPassedOver, HistoryAlwaysComplete, PTL

\* A stream that ends with words ends with a final hypothesis that has all of
\* them and reaches to the end of the audio.
THEOREM FinalHypothesisWhole == RSpec => []FinalIsWhole
<1>1. LastPlanKept /\ EveryFrameHeard => FinalIsWhole
  BY DEF LastPlanKept, EveryFrameHeard, FinalIsWhole
<1> QED BY <1>1, LastPlanKeptAlways, EncoderIsFedRight, PTL

-----------------------------------------------------------------------------
(* The stamps: first, what the clock shares with a transcript, and where a *)
(* set of steps begins.                                                    *)

\* A bounded set of natural numbers has a greatest element: of the sets of those
\* above one of them, a smallest is empty.
LEMMA Highest ==
  ASSUME NEW S \in SUBSET Nat, S # {}, NEW bound \in Nat, \A x \in S : x <= bound
  PROVE  \E m \in S : \A x \in S : m >= x
<1> DEFINE Above(x) == {y \in S : y > x}
           Tails == {Above(x) : x \in S}
<1>1. IsFiniteSet(S)
  BY FS_BoundedSetOfNaturals
<1>2. Tails \subseteq FiniteSubsetsOf(S) /\ Tails # {}
  <2>1. ASSUME NEW x \in S PROVE Above(x) \in SUBSET S /\ IsFiniteSet(Above(x))
    <3>1. Above(x) \in SUBSET S
      OBVIOUS
    <3> HIDE DEF Above
    <3> QED BY <1>1, <3>1, FS_Subset
  <2> HIDE DEF Above
  <2> QED BY <2>1 DEF FiniteSubsetsOf
<1>3. PICK U \in Tails : \A V \in Tails : <<V, U>> \notin StrictSubsetOrdering(S)
  <2>1. IsWellFoundedOn(StrictSubsetOrdering(S), FiniteSubsetsOf(S))
    BY FS_StrictSubsetOrderingWellFounded
  <2> HIDE DEF Tails
  <2> QED BY <1>2, <2>1, WFMin
<1>4. PICK m \in S : U = Above(m)
  OBVIOUS
<1>5. ASSUME NEW x \in S, ~(m >= x) PROVE FALSE
  <2>1. x \in Above(m) /\ x \notin Above(x) /\ Above(x) \subseteq Above(m) /\ Above(x) \subseteq S
        /\ Above(m) \subseteq S
    <3>1. m \in Nat /\ x \in Nat /\ x > m /\ ~(x > x)
      BY <1>5
    <3>2. ASSUME NEW y \in S, y > x PROVE y > m
      BY <3>1, <3>2
    <3> QED BY <3>1, <3>2
  <2>2. <<Above(x), U>> \in StrictSubsetOrdering(S)
    <3> HIDE DEF Above
    <3> QED BY <1>4, <2>1 DEF StrictSubsetOrdering
  <2>3. Above(x) \in Tails
    OBVIOUS
  <2> HIDE DEF Above, Tails
  <2> QED BY <1>3, <2>2, <2>3
<1> QED BY <1>5

\* Min, of a set of natural numbers that is not empty: the greatest of those that
\* none of its elements is below.
LEMMA MinIsLowest ==
  ASSUME NEW S \in SUBSET Nat, S # {}
  PROVE  Min(S) \in S /\ \A x \in S : Min(S) <= x
<1> DEFINE Below == {x \in Nat : \A y \in S : x <= y}
<1>1. PICK b \in S : TRUE
  OBVIOUS
<1>2. Below \in SUBSET Nat /\ 0 \in Below /\ b \in Nat /\ \A x \in Below : x <= b
  BY <1>1
<1>3. PICK m \in Below : \A x \in Below : m >= x
  <2> HIDE DEF Below
  <2>1. Below # {}
    BY <1>2
  <2> QED BY ONLY <1>2, <2>1, Highest
<1>4. m \in S
  <2> SUFFICES ASSUME m \notin S PROVE FALSE
    OBVIOUS
  <2>1. ASSUME NEW y \in S PROVE m + 1 <= y
    BY <1>3, <2>1
  <2>2. m + 1 \in Below
    BY <1>3, <2>1
  <2>3. m >= m + 1 /\ m \in Nat
    BY <1>3, <2>2
  <2> QED BY ONLY <2>3
<1>5. \A y \in S : m <= y
  BY <1>3
<1>6. ASSUME NEW n \in S, \A y \in S : n <= y PROVE n = m
  <2>1. n <= m /\ m <= n /\ n \in Nat /\ m \in Nat
    BY <1>4, <1>5, <1>6
  <2> QED BY ONLY <2>1
<1> HIDE DEF Below
<1>7. Min(S) = m
  BY <1>4, <1>5, <1>6 DEF Min
<1> QED BY <1>4, <1>5, <1>7

LEMMA PrefixPlaces ==
  ASSUME NEW T, NEW s \in Seq(T), NEW t \in Seq(T)
  PROVE  IsPrefix(s, t) <=> Len(s) <= Len(t) /\ \A i \in 1..Len(s) : s[i] = t[i]
<1>1. Len(s) \in Nat /\ Len(t) \in Nat /\ SubSeq(s, 1, Len(s)) = s
  BY SubSeqFull
<1>2. ASSUME Len(s) <= Len(t)
      PROVE  SubSeq(t, 1, Len(s)) \in Seq(T) /\ Len(SubSeq(t, 1, Len(s))) = Len(s)
             /\ \A i \in 1..Len(s) : SubSeq(t, 1, Len(s))[i] = t[i]
  BY <1>1, <1>2
<1>3. ASSUME Len(s) <= Len(t), \A i \in 1..Len(s) : s[i] = t[i]
      PROVE  s = SubSeq(t, 1, Len(s))
  BY <1>1, <1>2, <1>3, SeqEqual
<1> QED BY <1>1, <1>2, <1>3 DEF IsPrefix

\* The longest common prefix of two sequences, by its length.
LEMMA LongestOfTwo ==
  ASSUME NEW T, NEW s \in Seq(T), NEW t \in Seq(T),
         NEW n, n = Len(LongestCommonPrefix({s, t}))
  PROVE  /\ n \in 0..Len(s) /\ n \in 0..Len(t)
         /\ \A i \in 1..n : s[i] = t[i]
         /\ \A m \in 0..Len(s) : m <= Len(t) /\ (\A i \in 1..m : s[i] = t[i]) => m <= n
<1> DEFINE Common == {p \in Seq(T) : IsPrefix(p, s) /\ IsPrefix(p, t)}
           Lengths == {Len(p) : p \in Common}
           l == LongestCommonPrefix({s, t})
<1>0. Len(s) \in Nat /\ Len(t) \in Nat
  OBVIOUS
<1>1. CommonPrefixes({s, t}) = Common
  <2>1. Prefixes(s) \subseteq Seq(T) /\ Prefixes(t) \subseteq Seq(T)
    <3>1. ASSUME NEW h \in {s, t}, NEW k \in 0..Len(h) PROVE SubSeq(h, 1, k) \in Seq(T)
      OBVIOUS
    <3> QED BY <3>1 DEF Prefixes
  <2>2. ASSUME NEW p \in Common PROVE p \in Prefixes(s)
    <3>1. p \in Seq(T) /\ IsPrefix(p, s)
      OBVIOUS
    <3>2. SubSeq(p, 1, Len(p)) = p /\ Len(p) \in 0..Len(s)
      BY ONLY <3>1, <1>0, SubSeqFull DEF IsPrefix
    <3>3. p = SubSeq(s, 1, Len(p))
      BY ONLY <3>1, <3>2 DEF IsPrefix
    <3> QED BY ONLY <3>2, <3>3 DEF Prefixes
  <2> QED BY <2>1, <2>2 DEF CommonPrefixes
<1>2. <<>> \in Common
  <2>1. <<>> \in Seq(T) /\ Len(<<>>) = 0
    OBVIOUS
  <2>2. ASSUME NEW h \in Seq(T) PROVE IsPrefix(<<>>, h)
    <3>1. Len(h) >= 0
      OBVIOUS
    <3>2. SubSeq(<<>>, 1, 0) = <<>> /\ SubSeq(h, 1, 0) = <<>>
      BY SubSeqEmpty
    <3> QED BY ONLY <2>1, <3>1, <3>2 DEF IsPrefix
  <2> QED BY <2>1, <2>2
<1>3. Lengths \in SUBSET Nat /\ Lengths # {} /\ \A x \in Lengths : x <= Len(s)
  <2>1. ASSUME NEW p \in Common PROVE Len(p) \in Nat /\ Len(p) <= Len(s)
    BY DEF IsPrefix
  <2> HIDE DEF Common
  <2> QED BY <1>2, <2>1
<1>4. PICK most \in Lengths : \A x \in Lengths : most >= x
  <2> HIDE DEF Lengths
  <2> QED BY ONLY <1>0, <1>3, Highest
<1>5. PICK longest \in Common : \A other \in Common : Len(other) <= Len(longest)
  BY <1>3, <1>4
<1> HIDE DEF Common
<1>6. l \in Common /\ \A other \in Common : Len(other) <= Len(l)
  BY <1>1, <1>5 DEF LongestCommonPrefix
<1> HIDE DEF l
<1>7. l \in Seq(T) /\ IsPrefix(l, s) /\ IsPrefix(l, t) /\ n = Len(l) /\ n \in Nat
  <2>1. n = Len(l)
    BY DEF l
  <2> QED BY <1>6, <2>1 DEF Common
<1>8. n <= Len(s) /\ n <= Len(t) /\ \A i \in 1..n : l[i] = s[i] /\ l[i] = t[i]
  BY ONLY <1>7, PrefixPlaces, s \in Seq(T), t \in Seq(T)
<1>9. ASSUME NEW m \in 0..Len(s), m <= Len(t), \A i \in 1..m : s[i] = t[i] PROVE m <= n
  <2> DEFINE q == SubSeq(s, 1, m)
  <2>1. q \in Seq(T) /\ Len(q) = m /\ \A i \in 1..m : q[i] = s[i]
    BY <1>0
  <2> HIDE DEF q
  <2>2. IsPrefix(q, s) /\ IsPrefix(q, t)
    BY <1>0, <1>9, <2>1, PrefixPlaces, SMTT(30)
  <2>3. q \in Common
    BY ONLY <2>1, <2>2 DEF Common
  <2> QED BY ONLY <1>6, <1>7, <2>1, <2>3
<1>10. n \in 0..Len(s) /\ n \in 0..Len(t)
  BY ONLY <1>0, <1>7, <1>8
<1>11. \A i \in 1..n : s[i] = t[i]
  BY ONLY <1>8
<1> QED BY ONLY <1>9, <1>10, <1>11

StampedWord == [word : Vocabulary, end : Nat]
StepRecord == [text : Seq(Vocabulary), end : Nat]

LEMMA WordsAre ==
  ASSUME NEW ws \in Seq(StampedWord)
  PROVE  /\ Words(ws) \in Seq(Vocabulary) /\ Len(Words(ws)) = Len(ws)
         /\ \A i \in 1..Len(ws) : Words(ws)[i] = ws[i].word
<1>1. Len(ws) \in Nat /\ DOMAIN ws = 1..Len(ws) /\ \A i \in 1..Len(ws) : ws[i] \in StampedWord
  OBVIOUS
<1>2. Words(ws) = [i \in 1..Len(ws) |-> ws[i].word]
  BY ONLY <1>1 DEF Words
<1>3. \A i \in 1..Len(ws) : ws[i].word \in Vocabulary
  BY <1>1 DEF StampedWord
<1>4. [i \in 1..Len(ws) |-> ws[i].word] \in [1..Len(ws) -> Vocabulary]
  BY ONLY <1>3
<1> DEFINE f == [i \in 1..Len(ws) |-> ws[i].word]
<1>5. f \in Seq(Vocabulary) /\ Len(f) = Len(ws) /\ \A i \in 1..Len(ws) : f[i] = ws[i].word
  BY <1>1, <1>4
<1> QED BY <1>2, <1>5

LEMMA StampIs ==
  ASSUME clock \in Seq(StampedWord), NEW words \in Seq(Vocabulary), NEW audioEnd \in Nat
  PROVE  /\ Stamp(words, audioEnd) \in Seq(StampedWord)
         /\ Len(Stamp(words, audioEnd)) = Len(words)
         /\ Words(Stamp(words, audioEnd)) = words
         /\ \E n \in 0..Len(words) :
              /\ n <= Len(clock)
              /\ \A i \in 1..n : words[i] = clock[i].word
              /\ \A m \in 0..Len(words) : m <= Len(clock) /\ (\A i \in 1..m : words[i] = clock[i].word) => m <= n
              /\ \A i \in 1..Len(words) :
                   Stamp(words, audioEnd)[i].end = IF i <= n THEN clock[i].end ELSE audioEnd
<1> DEFINE n == Shared(words)
           old == Words(clock)
           new == Stamp(words, audioEnd)
<1>1. /\ Len(words) \in Nat /\ Len(clock) \in Nat /\ DOMAIN words = 1..Len(words)
      /\ \A i \in 1..Len(clock) : clock[i].end \in Nat
  <2>1. \A i \in 1..Len(clock) : clock[i] \in StampedWord
    OBVIOUS
  <2>2. \A i \in 1..Len(clock) : clock[i].end \in Nat
    BY ONLY <2>1 DEF StampedWord
  <2>3. Len(words) \in Nat /\ Len(clock) \in Nat /\ DOMAIN words = 1..Len(words)
    OBVIOUS
  <2> QED BY ONLY <2>2, <2>3
<1>2. old \in Seq(Vocabulary) /\ Len(old) = Len(clock) /\ \A i \in 1..Len(clock) : old[i] = clock[i].word
  BY WordsAre
<1>3. n = Len(LongestCommonPrefix({words, old}))
  BY DEF Shared
<1>4. new = [i \in 1..Len(words) |-> [word |-> words[i], end |-> IF i <= n THEN clock[i].end ELSE audioEnd]]
  BY <1>1 DEF Stamp
<1> HIDE DEF n, old, new
<1>5. /\ n \in 0..Len(words) /\ n \in 0..Len(old)
      /\ \A i \in 1..n : words[i] = old[i]
      /\ \A m \in 0..Len(words) : m <= Len(old) /\ (\A i \in 1..m : words[i] = old[i]) => m <= n
  <2>1. words \in Seq(Vocabulary) /\ old \in Seq(Vocabulary)
    BY <1>2
  <2>2. /\ n \in 0..Len(words) /\ n \in 0..Len(old)
        /\ \A i \in 1..n : words[i] = old[i]
    BY ONLY <1>3, <2>1, LongestOfTwo
  <2>3. \A m \in 0..Len(words) : m <= Len(old) /\ (\A i \in 1..m : words[i] = old[i]) => m <= n
    BY ONLY <1>3, <2>1, LongestOfTwo
  <2> QED BY ONLY <2>2, <2>3
<1>6. ASSUME NEW i \in 1..Len(words)
      PROVE  [word |-> words[i], end |-> IF i <= n THEN clock[i].end ELSE audioEnd] \in StampedWord
  <2>1. words[i] \in Vocabulary
    OBVIOUS
  <2>2. (IF i <= n THEN clock[i].end ELSE audioEnd) \in Nat
    BY <1>1, <1>2, <1>5
  <2> QED BY ONLY <2>1, <2>2 DEF StampedWord
<1>7. new \in [1..Len(words) -> StampedWord]
  BY ONLY <1>4, <1>6
<1>8. new \in Seq(StampedWord) /\ Len(new) = Len(words)
  BY ONLY <1>1, <1>7
<1>9. \A i \in 1..Len(words) : new[i].word = words[i] /\ new[i].end = IF i <= n THEN clock[i].end ELSE audioEnd
  BY ONLY <1>4
<1>10. Words(new) = words
  <2>1. Words(new) \in Seq(Vocabulary) /\ Len(Words(new)) = Len(words) /\ \A i \in 1..Len(words) : Words(new)[i] = words[i]
    BY ONLY <1>8, <1>9, WordsAre
  <2> QED BY ONLY <2>1, SeqEqual, words \in Seq(Vocabulary)
<1>11. \A i \in 1..n : words[i] = clock[i].word
  BY <1>1, <1>2, <1>5
<1>12. ASSUME NEW m \in 0..Len(words), m <= Len(clock), \A i \in 1..m : words[i] = clock[i].word PROVE m <= n
  <2>1. \A i \in 1..m : words[i] = old[i]
    BY <1>1, <1>2, <1>12
  <2> QED BY ONLY <1>2, <1>5, <1>12, <2>1
<1>13. n \in 0..Len(words) /\ n <= Len(clock)
  BY ONLY <1>2, <1>5, <1>1
<1>14. \E k \in 0..Len(words) :
         /\ k <= Len(clock)
         /\ \A i \in 1..k : words[i] = clock[i].word
         /\ \A m \in 0..Len(words) : m <= Len(clock) /\ (\A i \in 1..m : words[i] = clock[i].word) => m <= k
         /\ \A i \in 1..Len(words) : new[i].end = IF i <= k THEN clock[i].end ELSE audioEnd
  BY ONLY <1>9, <1>11, <1>12, <1>13
<1> QED BY ONLY <1>8, <1>10, <1>14 DEF new

\* The steps since which every transcript that is not empty has begun with the
\* first i words.
Heads(words, i, t) == i <= Len(t) /\ \A j \in 1..i : t[j] = words[j]
Begin(h, n, words, i) ==
  {k \in 1..n : h[k].text # <<>> /\ \A j \in k..n : h[j].text = <<>> \/ Heads(words, i, h[j].text)}

StampedRight(h, n, ws) ==
  \A i \in 1..Len(ws) : /\ Begin(h, n, Words(ws), i) # {}
                        /\ ws[i].end = h[Min(Begin(h, n, Words(ws), i))].end

\* The stamps of a transcript made now, and the n words it shares with the last.
Stamping(h, a, old, words, n, new) ==
  /\ h \in Seq(StepRecord) /\ old \in Seq(StampedWord) /\ new \in Seq(StampedWord)
  /\ words \in Seq(Vocabulary) /\ words # <<>>
  /\ a \in 0..Len(h) /\ Len(h) > 0 /\ h[Len(h)].text = words
  /\ a = 0 => old = <<>>
  /\ a > 0 => h[a].text = Words(old) /\ old # <<>>
  /\ \A k \in 1..Len(h) : a < k /\ k < Len(h) => h[k].text \in {<<>>, Words(old)}
  /\ StampedRight(h, a, old)
  /\ n \in 0..Len(words) /\ n <= Len(old)
  /\ \A i \in 1..n : words[i] = old[i].word
  /\ \A m \in 0..Len(words) : m <= Len(old) /\ (\A i \in 1..m : words[i] = old[i].word) => m <= n
  /\ Words(new) = words /\ Len(new) = Len(words)
  /\ \A i \in 1..Len(words) : new[i].end = IF i <= n THEN old[i].end ELSE h[Len(h)].end

\* A word that is shared has stood as long as before, one that is not since now.
LEMMA StampsStay ==
  ASSUME NEW h, NEW a, NEW old, NEW words, NEW n, NEW new, Stamping(h, a, old, words, n, new)
  PROVE  StampedRight(h, Len(h), new)
<1> SUFFICES ASSUME
      h \in Seq(StepRecord), old \in Seq(StampedWord), new \in Seq(StampedWord),
      words \in Seq(Vocabulary), words # <<>>,
      a \in 0..Len(h), Len(h) > 0, h[Len(h)].text = words,
      a = 0 => old = <<>>,
      a > 0 => h[a].text = Words(old) /\ old # <<>>,
      \A k \in 1..Len(h) : a < k /\ k < Len(h) => h[k].text \in {<<>>, Words(old)},
      StampedRight(h, a, old),
      n \in 0..Len(words), n <= Len(old),
      \A i \in 1..n : words[i] = old[i].word,
      \A m \in 0..Len(words) : m <= Len(old) /\ (\A i \in 1..m : words[i] = old[i].word) => m <= n,
      Words(new) = words, Len(new) = Len(words),
      \A i \in 1..Len(words) : new[i].end = IF i <= n THEN old[i].end ELSE h[Len(h)].end
    PROVE StampedRight(h, Len(h), new)
  BY DEF Stamping
<1> DEFINE w == Words(old)
           last == Len(h)
<1>1. w \in Seq(Vocabulary) /\ Len(w) = Len(old) /\ \A i \in 1..Len(old) : w[i] = old[i].word
  BY ONLY WordsAre, old \in Seq(StampedWord)
<1>2. Len(words) \in Nat /\ Len(old) \in Nat /\ last \in Nat /\ a \in Nat /\ a <= last /\ last > 0
  OBVIOUS
<1> SUFFICES ASSUME NEW i \in 1..Len(words)
             PROVE  Begin(h, last, words, i) # {} /\ new[i].end = h[Min(Begin(h, last, words, i))].end
  BY DEF StampedRight
<1> DEFINE since == Begin(h, last, words, i)
<1>3. since \in SUBSET Nat /\ since \subseteq 1..last
  BY <1>2 DEF Begin
<1>4. last \in since
  <2>1. Heads(words, i, h[last].text)
    BY <1>2 DEF Heads
  <2>2. \A j \in last..last : j = last
    BY <1>2
  <2> QED BY <1>2, <2>1, <2>2 DEF Begin
<1>5. Min(since) \in since /\ \A x \in since : Min(since) <= x
  <2> HIDE DEF since
  <2> QED BY <1>3, <1>4, MinIsLowest
<1>6. CASE i <= n
  <2> DEFINE before == Begin(h, a, w, i)
  <2>1. i \in 1..Len(old) /\ \A j \in 1..i : words[j] = w[j]
    BY <1>1, <1>2, <1>6
  <2>2. before # {} /\ old[i].end = h[Min(before)].end
    BY <2>1 DEF StampedRight
  <2>3. before \in SUBSET Nat /\ before \subseteq 1..a
    BY <1>2 DEF Begin
  <2>4. Min(before) \in before /\ \A x \in before : Min(before) <= x
    <3> HIDE DEF before
    <3> QED BY ONLY <2>2, <2>3, MinIsLowest
  <2>5. \A t : Heads(words, i, t) <=> Heads(w, i, t)
    BY ONLY <2>1 DEF Heads
  <2>6. \A j \in 1..last : a < j => h[j].text = <<>> \/ Heads(words, i, h[j].text)
    <3> SUFFICES ASSUME NEW j \in 1..last, a < j PROVE h[j].text = <<>> \/ Heads(words, i, h[j].text)
      OBVIOUS
    <3>1. CASE j = last
      BY <3>1, <1>2 DEF Heads
    <3>2. CASE j < last
      <4>1. h[j].text \in {<<>>, w}
        BY <3>2
      <4>2. Heads(w, i, w)
        BY ONLY <1>1, <2>1 DEF Heads
      <4> QED BY ONLY <4>1, <4>2, <2>5
    <3> QED BY <3>1, <3>2, <1>2
  <2>7. \A k \in 1..a : k \in since <=> k \in before
    <3> SUFFICES ASSUME NEW k \in 1..a PROVE k \in since <=> k \in before
      OBVIOUS
    <3>1. k \in 1..last /\ \A j \in k..last : (j \in k..a \/ (j \in 1..last /\ a < j))
      BY <1>2
    <3>2. \A j \in k..a : j \in k..last
      BY <1>2
    <3> QED BY ONLY <3>1, <3>2, <2>5, <2>6, k \in 1..a DEF Begin
  <2> HIDE DEF since, before
  <2>8. Min(since) = Min(before)
    <3>1. Min(before) \in 1..a /\ Min(before) \in since
      BY ONLY <2>3, <2>4, <2>7
    <3>2. Min(since) <= Min(before)
      BY ONLY <1>5, <3>1
    <3>3. Min(since) \in 1..a /\ Min(since) \in before
      <4>1. Min(since) \in Nat /\ Min(since) >= 1
        <5>1. Min(since) \in 1..last
          BY ONLY <1>3, <1>5
        <5> QED BY ONLY <5>1, <1>2
      <4>2. Min(since) \in 1..a
        BY ONLY <4>1, <3>1, <3>2, <1>2
      <4> QED BY ONLY <4>2, <1>5, <2>7
    <3>4. Min(before) <= Min(since)
      BY ONLY <2>4, <3>3
    <3> QED BY ONLY <3>1, <3>2, <3>3, <3>4, <1>2
  <2>9. new[i].end = old[i].end
    BY <1>6
  <2> QED BY <1>4, <2>2, <2>8, <2>9 DEF since
<1>7. CASE ~(i <= n)
  <2>1. ~Heads(words, i, w)
    <3> SUFFICES ASSUME Heads(words, i, w) PROVE FALSE
      OBVIOUS
    <3>1. i <= Len(old) /\ \A j \in 1..i : words[j] = old[j].word
      BY <1>1, <1>2 DEF Heads
    <3>2. i \in 0..Len(words)
      BY <1>2
    <3>3. i <= n
      BY <3>1, <3>2
    <3> QED BY <3>3, <1>7
  <2>2. ASSUME NEW k \in since PROVE k = last
    <3> SUFFICES ASSUME k # last PROVE FALSE
      OBVIOUS
    <3>1. k \in 1..last /\ h[k].text # <<>> /\ \A j \in k..last : h[j].text = <<>> \/ Heads(words, i, h[j].text)
      BY <2>2 DEF Begin
    <3>2. CASE k <= a
      <4>1. a \in k..last /\ a > 0
        BY <3>1, <3>2, <1>2
      <4>2. h[a].text = w /\ old # <<>>
        BY <4>1
      <4>3. w # <<>>
        BY <4>2, <1>1, <1>2
      <4> QED BY <3>1, <4>1, <4>2, <4>3, <2>1
    <3>3. CASE ~(k <= a)
      <4>1. a < k /\ k < last /\ k \in 1..Len(h) /\ k \in k..last
        BY <3>1, <3>3, <1>2
      <4>2. h[k].text \in {<<>>, w}
        BY <4>1
      <4> QED BY <3>1, <4>1, <4>2, <2>1
    <3> QED BY <3>2, <3>3
  <2>3. Min(since) = last
    <3> HIDE DEF since
    <3> QED BY ONLY <1>5, <2>2
  <2>4. new[i].end = h[last].end
    BY <1>7
  <2> QED BY <1>4, <2>3, <2>4
<1> QED BY <1>6, <1>7

\* A further step changes nothing about the steps up to the n-th.
LEMMA StampedRightAppends ==
  ASSUME NEW h \in Seq(StepRecord), NEW r \in StepRecord, NEW n \in 0..Len(h), NEW ws \in Seq(StampedWord),
         StampedRight(h, n, ws)
  PROVE  StampedRight(Append(h, r), n, ws)
<1>1. Len(h) \in Nat /\ \A k \in 1..n : Append(h, r)[k] = h[k]
  OBVIOUS
<1> SUFFICES ASSUME NEW i \in 1..Len(ws)
             PROVE  /\ Begin(Append(h, r), n, Words(ws), i) # {}
                    /\ ws[i].end = Append(h, r)[Min(Begin(Append(h, r), n, Words(ws), i))].end
  BY DEF StampedRight
<1> DEFINE since == Begin(h, n, Words(ws), i)
<1>2. Begin(Append(h, r), n, Words(ws), i) = since
  <2>1. \A k \in 1..n : \A j \in k..n : j \in 1..n
    BY <1>1
  <2> QED BY ONLY <1>1, <2>1 DEF Begin
<1>3. since # {} /\ ws[i].end = h[Min(since)].end
  BY DEF StampedRight
<1>4. Min(since) \in 1..n
  <2>1. since \subseteq 1..n /\ since \in SUBSET Nat
    BY <1>1 DEF Begin
  <2> HIDE DEF since
  <2>2. Min(since) \in since
    BY ONLY <1>3, <2>1, MinIsLowest
  <2> QED BY ONLY <2>1, <2>2
<1> HIDE DEF since
<1> QED BY ONLY <1>1, <1>2, <1>3, <1>4

\* What the clock and the last hypothesis are of: the last step but those since
\* that decoded nothing, or nothing new, and the one that flush planned.
ClockFits ==
  /\ heard \in Seq(StepRecord)
  /\ Len(heard) > 0 => heard[Len(heard)] = [text |-> text, end |-> lastPlanEnd]
  /\ heard = <<>> => text = <<>>
  /\ clock \in Seq(StampedWord) /\ emitted.words = clock /\ emitted.after \in 0..Len(heard)
  /\ emitted.after = 0 => clock = <<>>
  /\ emitted.after > 0 => heard[emitted.after].text = Words(clock) /\ clock # <<>>
  /\ \A k \in 1..Len(heard) :
       emitted.after < k => \/ heard[k].text \in {<<>>, Words(clock)}
                            \/ k = Len(heard) /\ phase = "ending" /\ plans = <<>>
  /\ ~closed => lastEmitted = Words(clock)
  /\ phase = "ending" => Len(plans) <= 1

StampsFit == StampedRight(heard, emitted.after, clock)

LEMMA TranscriptsAre == Transcripts \subseteq Seq(Vocabulary)
BY TranscriptAssumption DEF TranscriptAssumption

\* A hypothesis of the last step.
LEMMA EmitIs ==
  ASSUME NEW words \in Seq(Vocabulary), words # <<>>, NEW planEnd \in Nat, NEW final, Emit(words, planEnd, final),
         heard' \in Seq(StepRecord), Len(heard') > 0, heard'[Len(heard')] = [text |-> words, end |-> planEnd],
         clock \in Seq(StampedWord), NEW a \in 0..Len(heard'),
         a = 0 => clock = <<>>,
         a > 0 => heard'[a].text = Words(clock) /\ clock # <<>>,
         \A k \in 1..Len(heard') : a < k /\ k < Len(heard') => heard'[k].text \in {<<>>, Words(clock)},
         StampedRight(heard', a, clock)
  PROVE  /\ clock' \in Seq(StampedWord) /\ Words(clock') = words /\ clock' # <<>>
         /\ emitted'.words = clock' /\ emitted'.after = Len(heard')
         /\ StampedRight(heard', Len(heard'), clock')
<1> DEFINE new == Stamp(words, planEnd)
           h == heard'
<1>1. clock' = new /\ emitted'.words = clock' /\ emitted'.after = Len(heard')
  <2>1. /\ clock' = Stamp(words, planEnd)
        /\ emitted' = [words |-> clock', audioEnd |-> planEnd, final |-> final, after |-> Len(heard')]
    BY ONLY Emit(words, planEnd, final) DEF Emit
  <2> QED BY ONLY <2>1 DEF new
<1>2. /\ new \in Seq(StampedWord) /\ Len(new) = Len(words) /\ Words(new) = words
      /\ \E n \in 0..Len(words) :
           /\ n <= Len(clock)
           /\ \A i \in 1..n : words[i] = clock[i].word
           /\ \A m \in 0..Len(words) : m <= Len(clock) /\ (\A i \in 1..m : words[i] = clock[i].word) => m <= n
           /\ \A i \in 1..Len(words) : new[i].end = IF i <= n THEN clock[i].end ELSE planEnd
  BY ONLY StampIs, clock \in Seq(StampedWord), words \in Seq(Vocabulary), planEnd \in Nat DEF new
<1> HIDE DEF new
<1>3. PICK n \in 0..Len(words) :
           /\ n <= Len(clock)
           /\ \A i \in 1..n : words[i] = clock[i].word
           /\ \A m \in 0..Len(words) : m <= Len(clock) /\ (\A i \in 1..m : words[i] = clock[i].word) => m <= n
           /\ \A i \in 1..Len(words) : new[i].end = IF i <= n THEN clock[i].end ELSE planEnd
  BY ONLY <1>2
<1>4. /\ h \in Seq(StepRecord) /\ Len(h) > 0 /\ h[Len(h)].text = words /\ h[Len(h)].end = planEnd
      /\ a \in 0..Len(h) /\ (a = 0 => clock = <<>>) /\ (a > 0 => h[a].text = Words(clock) /\ clock # <<>>)
      /\ \A k \in 1..Len(h) : a < k /\ k < Len(h) => h[k].text \in {<<>>, Words(clock)}
      /\ StampedRight(h, a, clock)
  OBVIOUS
<1> HIDE DEF h
<1>5. StampedRight(h, Len(h), new)
  <2>1. \A i \in 1..Len(words) : new[i].end = IF i <= n THEN clock[i].end ELSE h[Len(h)].end
    BY ONLY <1>3, <1>4
  <2>2. new \in Seq(StampedWord) /\ Words(new) = words /\ Len(new) = Len(words)
    BY ONLY <1>2
  <2>3. /\ n \in 0..Len(words) /\ n <= Len(clock) /\ \A i \in 1..n : words[i] = clock[i].word
        /\ \A m \in 0..Len(words) : m <= Len(clock) /\ (\A i \in 1..m : words[i] = clock[i].word) => m <= n
    BY ONLY <1>3
  <2>4. h \in Seq(StepRecord) /\ Len(h) > 0 /\ h[Len(h)].text = words /\ a \in 0..Len(h)
    BY ONLY <1>4
  <2>5. /\ a = 0 => clock = <<>>
        /\ a > 0 => h[a].text = Words(clock) /\ clock # <<>>
        /\ \A k \in 1..Len(h) : a < k /\ k < Len(h) => h[k].text \in {<<>>, Words(clock)}
        /\ StampedRight(h, a, clock)
    BY ONLY <1>4
  <2>6. Stamping(h, a, clock, words, n, new)
    BY ONLY <2>1, <2>2, <2>3, <2>4, <2>5,
            words \in Seq(Vocabulary), words # <<>>, clock \in Seq(StampedWord) DEF Stamping
  <2> QED BY ONLY <2>6, StampsStay
<1>6. new # <<>>
  BY ONLY <1>2, words \in Seq(Vocabulary), words # <<>>
<1> QED BY ONLY <1>1, <1>2, <1>5, <1>6 DEF h

LEMMA ClockFitsInit == RInit => ClockFits /\ StampsFit
<1> SUFFICES ASSUME RInit PROVE ClockFits /\ StampsFit
  OBVIOUS
<1>1. /\ heard = <<>> /\ text = <<>> /\ clock = <<>> /\ lastEmitted = <<>> /\ emitted = NoHypothesis
      /\ plans = <<>> /\ phase = "receiving"
  BY DEF RInit, FreshState, Init
<1>2. emitted.words = <<>> /\ emitted.after = 0
  BY <1>1 DEF NoHypothesis
<1>3. <<>> \in Seq(StampedWord) /\ <<>> \in Seq(StepRecord) /\ Len(<<>>) = 0 /\ 0 \in 0..0
  OBVIOUS
<1>4. Words(<<>>) = <<>>
  <2>1. Words(<<>>) \in Seq(Vocabulary) /\ Len(Words(<<>>)) = 0
    BY ONLY <1>3, WordsAre
  <2> QED BY ONLY <2>1
<1>5. ClockFits
  BY ONLY <1>1, <1>2, <1>3, <1>4 DEF ClockFits
<1>6. StampsFit
  BY ONLY <1>1, <1>2, <1>3 DEF StampsFit, StampedRight
<1> QED BY <1>5, <1>6

LEMMA ScheduleKeepsClock ==
  ASSUME IInv, ClockFits, StampsFit, Schedule
  PROVE  ClockFits' /\ StampsFit'
<1>1. UNCHANGED <<text, lastPlanEnd, lastEmitted, clock, emitted, closed, heard>>
  BY DEF Schedule, hypothesisVars
<1>2. StampsFit'
  BY ONLY <1>1, StampsFit DEF StampsFit
<1>3. /\ phase = "ending" => FALSE
      /\ phase' = "ending" => Len(plans') <= 1
  <2>1. CASE Receive \/ Plan \/ Planned \/ Discard
    BY <2>1 DEF Receive, Plan, Planned, Discard
  <2>2. CASE EndStream
    <3>1. phase = "receiving" /\ plans = <<>>
      BY <2>2 DEF EndStream, IInv, BatchComplete
    <3>2. plans' = plans \/ \E p : plans' = <<p>>
      BY <2>2 DEF EndStream
    <3>3. Len(<<>>) = 0 /\ \A p : Len(<<p>>) = 1
      OBVIOUS
    <3> QED BY ONLY <3>1, <3>2, <3>3
  <2> QED BY <2>1, <2>2 DEF Schedule
<1>4. ClockFits'
  BY ONLY <1>1, <1>3, ClockFits DEF ClockFits
<1> QED BY <1>2, <1>4

LEMMA DecodeKeepsClock ==
  ASSUME IInv, LastPlanKept, ClockFits, StampsFit, Interim \/ LastStep
  PROVE  ClockFits' /\ StampsFit'
<1> DEFINE r == [text |-> text', end |-> lastPlanEnd']
           a == emitted.after
<1>1. /\ plans # <<>> /\ plans' = Tail(plans) /\ phase' = phase /\ closed' = closed
      /\ text' \in Transcripts /\ lastPlanEnd' = Head(plans).end /\ heard' = Append(heard, r)
  BY DEF Interim, LastStep, Decode, RunStep, Decoded
<1>2. ~closed
  BY <1>1 DEF LastPlanKept
<1>3. r \in StepRecord /\ text' \in Seq(Vocabulary) /\ lastPlanEnd' \in Nat
  <2>1. plans \in Seq(PlanType)
    BY DEF IInv, TypeOK
  <2>2. Head(plans) \in PlanType
    BY ONLY <1>1, <2>1
  <2>3. lastPlanEnd' \in Nat
    BY ONLY <1>1, <2>2 DEF PlanType
  <2>4. text' \in Seq(Vocabulary)
    BY ONLY <1>1, TranscriptsAre
  <2> QED BY ONLY <2>3, <2>4 DEF StepRecord
<1>4. /\ heard \in Seq(StepRecord) /\ Len(heard) \in Nat
      /\ clock \in Seq(StampedWord) /\ emitted.words = clock /\ a \in 0..Len(heard)
      /\ a = 0 => clock = <<>>
      /\ a > 0 => heard[a].text = Words(clock) /\ clock # <<>>
      /\ lastEmitted = Words(clock)
      /\ \A k \in 1..Len(heard) : a < k => heard[k].text \in {<<>>, Words(clock)}
      /\ phase = "ending" => Len(plans) <= 1
  BY <1>1, <1>2 DEF ClockFits
<1> HIDE DEF a
<1>5. /\ heard' \in Seq(StepRecord) /\ Len(heard') = Len(heard) + 1 /\ Len(heard') > 0
      /\ heard'[Len(heard')] = r /\ \A k \in 1..Len(heard) : heard'[k] = heard[k]
      /\ heard' # <<>>
  <2> HIDE DEF r
  <2>1. heard' = Append(heard, r) /\ r \in StepRecord /\ heard \in Seq(StepRecord) /\ Len(heard) \in Nat
    BY ONLY <1>1, <1>3, <1>4
  <2>2. Len(heard') = Len(heard) + 1 /\ Len(heard') > 0 /\ heard' \in Seq(StepRecord)
    BY ONLY <2>1
  <2>3. heard'[Len(heard')] = r
    BY ONLY <2>1, <2>2
  <2>4. \A k \in 1..Len(heard) : heard'[k] = heard[k]
    BY ONLY <2>1
  <2>5. heard' # <<>>
    BY ONLY <2>2
  <2> QED BY ONLY <2>2, <2>3, <2>4, <2>5
<1>6. StampedRight(heard', a, clock)
  <2>1. StampedRight(heard, a, clock)
    BY DEF StampsFit, a
  <2> HIDE DEF r
  <2> QED BY ONLY <1>1, <1>3, <1>4, <2>1, StampedRightAppends
<1>7. phase' = "ending" => plans' = <<>> /\ Len(plans') <= 1
  <2>1. plans \in Seq(PlanType)
    BY DEF IInv, TypeOK
  <2> QED BY ONLY <1>1, <1>4, <2>1
<1>8. ASSUME UNCHANGED <<clock, emitted, lastEmitted>>, text' \in {<<>>, Words(clock)} \/ phase = "ending"
      PROVE  ClockFits' /\ StampsFit'
  <2>1. StampsFit'
    BY ONLY <1>6, <1>8 DEF StampsFit, a
  <2>2. emitted'.after = a /\ emitted'.words = clock' /\ a \in 0..Len(heard') /\ clock' \in Seq(StampedWord)
    BY ONLY <1>4, <1>5, <1>8 DEF a
  <2>3. a > 0 => heard'[a].text = Words(clock')
    BY ONLY <1>4, <1>5, <1>8
  <2>4. \A k \in 1..Len(heard') :
          a < k => \/ heard'[k].text \in {<<>>, Words(clock')}
                   \/ k = Len(heard') /\ phase' = "ending" /\ plans' = <<>>
    <3> SUFFICES ASSUME NEW k \in 1..Len(heard'), a < k
                 PROVE  \/ heard'[k].text \in {<<>>, Words(clock')}
                        \/ k = Len(heard') /\ phase' = "ending" /\ plans' = <<>>
      OBVIOUS
    <3>1. CASE k \in 1..Len(heard)
      BY ONLY <1>4, <1>5, <1>8, <3>1, a < k
    <3>2. CASE k = Len(heard')
      <4>1. heard'[k].text = text'
        BY ONLY <1>5, <3>2
      <4> QED BY ONLY <1>1, <1>7, <1>8, <3>2, <4>1
    <3>3. k \in 1..Len(heard) \/ k = Len(heard')
      BY ONLY <1>4, <1>5, k \in 1..Len(heard')
    <3> QED BY ONLY <3>1, <3>2, <3>3
  <2>5. lastEmitted' = Words(clock')
    BY ONLY <1>4, <1>8
  <2>6. heard'[Len(heard')] = [text |-> text', end |-> lastPlanEnd']
    BY ONLY <1>5 DEF r
  <2>7. ClockFits'
    BY ONLY <1>4, <1>5, <1>7, <1>8, <2>2, <2>3, <2>4, <2>5, <2>6 DEF ClockFits
  <2> QED BY <2>1, <2>7
<1>9. ASSUME Emit(text', lastPlanEnd', FALSE), text' # <<>>, lastEmitted' = text'
      PROVE  ClockFits' /\ StampsFit'
  <2>1. heard'[Len(heard')] = [text |-> text', end |-> lastPlanEnd']
    BY ONLY <1>5 DEF r
  <2>2. a \in 0..Len(heard') /\ (a > 0 => heard'[a].text = Words(clock) /\ clock # <<>>)
    BY ONLY <1>4, <1>5
  <2>3. \A k \in 1..Len(heard') : a < k /\ k < Len(heard') => heard'[k].text \in {<<>>, Words(clock)}
    BY ONLY <1>4, <1>5
  <2>4. /\ clock' \in Seq(StampedWord) /\ Words(clock') = text' /\ clock' # <<>>
        /\ emitted'.words = clock' /\ emitted'.after = Len(heard')
        /\ StampedRight(heard', Len(heard'), clock')
    BY ONLY <1>3, <1>4, <1>5, <1>6, <1>9, <2>1, <2>2, <2>3, EmitIs
  <2>5. ClockFits'
    BY ONLY <1>4, <1>5, <1>7, <1>9, <2>1, <2>4 DEF ClockFits
  <2>6. StampsFit'
    BY ONLY <2>4 DEF StampsFit
  <2> QED BY <2>5, <2>6
<1>10. CASE Interim
  <2>1. CASE text' # <<>> /\ text' # lastEmitted
    BY <1>9, <1>10, <2>1 DEF Interim
  <2>2. CASE ~(text' # <<>> /\ text' # lastEmitted)
    <3>1. UNCHANGED <<clock, emitted, lastEmitted>>
      BY <1>10, <2>2 DEF Interim
    <3>2. text' \in {<<>>, Words(clock)}
      BY ONLY <1>4, <2>2
    <3> QED BY ONLY <1>8, <3>1, <3>2
  <2> QED BY <2>1, <2>2
<1>11. CASE LastStep
  <2>1. UNCHANGED <<clock, emitted, lastEmitted>> /\ phase = "ending"
    BY <1>11 DEF LastStep
  <2> QED BY ONLY <1>8, <2>1
<1> QED BY <1>10, <1>11

LEMMA FinishKeepsClock ==
  ASSUME LastPlanKept, ClockFits, StampsFit, Finish
  PROVE  ClockFits' /\ StampsFit'
<1> DEFINE a == emitted.after
<1>1. /\ phase = "ending" /\ plans = <<>> /\ ~closed /\ closed'
      /\ UNCHANGED <<plans, phase, text, lastPlanEnd, lastEmitted, heard>>
  BY DEF Finish, vars
<1>2. CASE text = <<>>
  <2>1. UNCHANGED <<clock, emitted>>
    BY <1>2 DEF Finish
  <2>2. ClockFits'
    BY ONLY <1>1, <2>1, ClockFits DEF ClockFits
  <2>3. StampsFit'
    BY ONLY <1>1, <2>1, StampsFit DEF StampsFit
  <2> QED BY <2>2, <2>3
<1>3. CASE text # <<>>
  <2>1. Emit(text, lastPlanEnd, TRUE)
    BY <1>3 DEF Finish
  <2>2. /\ heard \in Seq(StepRecord) /\ heard # <<>> /\ clock \in Seq(StampedWord)
        /\ a \in 0..Len(heard) /\ (a = 0 => clock = <<>>)
        /\ a > 0 => heard[a].text = Words(clock) /\ clock # <<>>
        /\ \A k \in 1..Len(heard) : a < k /\ k < Len(heard) => heard[k].text \in {<<>>, Words(clock)}
        /\ Len(heard) > 0 => heard[Len(heard)] = [text |-> text, end |-> lastPlanEnd]
    BY <1>3 DEF ClockFits
  <2> HIDE DEF a
  <2>3. Len(heard) > 0 /\ Len(heard) \in Nat
    BY ONLY <2>2
  <2>4. text \in Seq(Vocabulary) /\ lastPlanEnd \in Nat
    <3>1. heard[Len(heard)] \in StepRecord
      BY ONLY <2>2, <2>3
    <3> QED BY ONLY <2>2, <2>3, <3>1 DEF StepRecord
  <2>5. StampedRight(heard', a, clock)
    BY ONLY <1>1, StampsFit DEF StampsFit, a
  <2>6. /\ heard' \in Seq(StepRecord) /\ Len(heard') > 0 /\ a \in 0..Len(heard')
        /\ heard'[Len(heard')] = [text |-> text, end |-> lastPlanEnd]
        /\ a > 0 => heard'[a].text = Words(clock) /\ clock # <<>>
        /\ \A k \in 1..Len(heard') : a < k /\ k < Len(heard') => heard'[k].text \in {<<>>, Words(clock)}
    BY ONLY <1>1, <2>2, <2>3
  <2>7. /\ clock' \in Seq(StampedWord) /\ Words(clock') = text /\ clock' # <<>>
        /\ emitted'.words = clock' /\ emitted'.after = Len(heard')
        /\ StampedRight(heard', Len(heard'), clock')
    BY ONLY <1>3, <2>1, <2>2, <2>4, <2>5, <2>6, EmitIs
  <2>8. ClockFits'
    <3>1. Len(heard') \in Nat /\ Len(plans') = 0 /\ heard' # <<>>
      BY ONLY <1>1, <2>2, <2>3
    <3> QED BY ONLY <1>1, <2>6, <2>7, <3>1 DEF ClockFits
  <2>9. StampsFit'
    BY ONLY <2>7 DEF StampsFit
  <2> QED BY <2>8, <2>9
<1> QED BY <1>2, <1>3

LEMMA ClockFitsAlways == RSpec => [](ClockFits /\ StampsFit)
<1>1. IInv /\ LastPlanKept /\ ClockFits /\ StampsFit /\ [RNext]_rvars => (ClockFits /\ StampsFit)'
  <2> SUFFICES ASSUME IInv, LastPlanKept, ClockFits, StampsFit, [RNext]_rvars PROVE ClockFits' /\ StampsFit'
    OBVIOUS
  <2>1. CASE UNCHANGED rvars
    <3>1. UNCHANGED <<text, lastPlanEnd, lastEmitted, clock, emitted, closed, heard, phase, plans>>
      BY <2>1 DEF rvars, vars, hypothesisVars
    <3> QED BY ONLY <3>1, ClockFits, StampsFit DEF ClockFits, StampsFit
  <2> QED BY <2>1, ScheduleKeepsClock, DecodeKeepsClock, FinishKeepsClock DEF RNext
<1>2. RSpec => []IInv
  BY ImplementsSchedule, Invariance, PTL
<1> QED BY <1>1, <1>2, ClockFitsInit, LastPlanKeptAlways, PTL DEF RSpec

\* Every word of a hypothesis is stamped with the end of the first step since
\* which every transcript has begun with the words up to it, whatever was
\* decoded and withdrawn in between: the audio it is known to have needed.
THEOREM StampsAreTrue == RSpec => []StampsTrue
<1>1. ClockFits /\ StampsFit => StampsTrue
  <2> SUFFICES ASSUME ClockFits, StampsFit PROVE StampsTrue
    OBVIOUS
  <2> DEFINE said == Words(clock)
             a == emitted.after
  <2>1. /\ heard \in Seq(StepRecord) /\ clock \in Seq(StampedWord) /\ emitted.words = clock
        /\ a \in 0..Len(heard) /\ Len(heard) \in Nat
    BY DEF ClockFits
  <2>2. said \in Seq(Vocabulary) /\ Len(said) = Len(clock) /\ DOMAIN said = 1..Len(clock)
    <3>1. said \in Seq(Vocabulary) /\ Len(said) = Len(clock)
      BY ONLY <2>1, WordsAre
    <3> HIDE DEF said
    <3> QED BY ONLY <3>1
  <2>3. ASSUME NEW i \in 1..Len(clock)
        PROVE  LET prefix == SubSeq(said, 1, i)
                   since  == {n \in 1..a : /\ heard[n].text # <<>>
                                           /\ StoodFrom(n, a, prefix)}
               IN  since # {} /\ clock[i].end = heard[Min(since)].end
    <3> DEFINE prefix == SubSeq(said, 1, i)
               since  == {n \in 1..a : heard[n].text # <<>> /\ StoodFrom(n, a, prefix)}
    <3>1. Begin(heard, a, said, i) # {} /\ clock[i].end = heard[Min(Begin(heard, a, said, i))].end
      BY ONLY StampsFit, i \in 1..Len(clock) DEF StampsFit, StampedRight
    <3>2. prefix \in Seq(Vocabulary) /\ Len(prefix) = i /\ \A j \in 1..i : prefix[j] = said[j]
      <4> HIDE DEF said
      <4> QED BY ONLY <2>2, i \in 1..Len(clock)
    <3>3. ASSUME NEW j \in 1..a PROVE IsPrefix(prefix, heard[j].text) <=> Heads(said, i, heard[j].text)
      <4>1. heard[j] \in StepRecord
        BY ONLY <2>1, j \in 1..a
      <4>2. heard[j].text \in Seq(Vocabulary)
        BY ONLY <4>1 DEF StepRecord
      <4> DEFINE t == heard[j].text
      <4>3. t \in Seq(Vocabulary) /\ prefix \in Seq(Vocabulary)
        BY ONLY <3>2, <4>2
      <4> HIDE DEF prefix, t, said
      <4>4. IsPrefix(prefix, t) <=> Len(prefix) <= Len(t) /\ \A k \in 1..Len(prefix) : prefix[k] = t[k]
        BY ONLY <4>3, PrefixPlaces
      <4>5. IsPrefix(prefix, t) <=> Heads(said, i, t)
        BY ONLY <3>2, <4>4 DEF Heads
      <4> QED BY ONLY <4>5 DEF t
    <3>4. since = Begin(heard, a, said, i)
      <4> HIDE DEF prefix, said, a
      <4>1. \A n \in 1..a : \A j \in n..a : j \in 1..a
        BY ONLY <2>1
      <4> QED BY ONLY <3>3, <4>1 DEF Begin, StoodFrom, since
    <3> QED BY ONLY <3>1, <3>4
  <2>4. /\ said = Words(emitted.words) /\ DOMAIN said = 1..Len(clock) /\ emitted.words = clock
    BY ONLY <2>1, <2>2
  <2> HIDE DEF said
  <2> QED BY ONLY <2>3, <2>4 DEF StampsTrue
<1> QED BY <1>1, ClockFitsAlways, PTL

-----------------------------------------------------------------------------
(* The development recogniser, WhisperWindow.                              *)

Texts == [from : Nat, frames : Nat]
Windows == [start : Nat, sums : Seq(Nat)]

WTypes ==
  /\ audio \in Nat /\ quietFor \in Nat /\ ended \in BOOLEAN
  /\ window \in Windows
  /\ locked \in Seq(Texts) /\ settled \in Seq(Texts)
  /\ hyp \in [text : Seq(Texts), final : BOOLEAN, end : Nat]

\* The audio covered so far lies before the window's end, and an empty window will
\* start no earlier than the next frame.
Forward ==
  /\ hyp.end <= audio /\ window.start + Frames(window) <= audio
  /\ Frames(window) > 0 => hyp.end <= AudioEnd(window)

\* What was declared final is what is locked, and heads the hypothesis.
Cumulative ==
  /\ ~ended => locked = settled
  /\ IsPrefix(settled, hyp.text)

\* Passes over budget, in a row and no further back than two, are what is counted.
Judged(count, said, passes) ==
  /\ passes \in Seq(BOOLEAN) /\ count \in 0..2 /\ said \in BOOLEAN
  /\ count > 0 <=> Len(passes) > 0 /\ passes[Len(passes)] = TRUE
  /\ count > 1 <=> Len(passes) > 1 /\ passes[Len(passes)] = TRUE /\ passes[Len(passes) - 1] = TRUE
  /\ said = TRUE <=> \E i \in 2..Len(passes) : passes[i - 1] = TRUE /\ passes[i] = TRUE

\* The frames over the cap at which a window was loud enough to be asked about.
Dear(sums) == {n \in MaxWindow..Len(sums) : Audible(sums, n)}

\* Each of them cost a pass in vain.
Capped ==
  /\ vain \in Nat
  /\ ~ended => Cardinality(Dear(window.sums)) <= vain

WInv == WTypes /\ Forward /\ Cumulative /\ Judged(overruns, warned, slow) /\ Capped

LEMMA Grown ==
  ASSUME NEW T, NEW s \in Seq(T), NEW t \in Seq(T)
  PROVE  s \o t \in Seq(T) /\ IsPrefix(s, s \o t) /\ IsPrefix(s, s)
<1>1. /\ s \o t \in Seq(T) /\ Len(s \o t) = Len(s) + Len(t) /\ Len(s) \in Nat /\ Len(t) \in Nat
      /\ \A i \in 1..Len(s) : (s \o t)[i] = s[i]
  OBVIOUS
<1> DEFINE u == s \o t
<1>2. u \in Seq(T) /\ Len(s) <= Len(u) /\ \A i \in 1..Len(s) : u[i] = s[i]
  BY <1>1
<1> HIDE DEF u
<1>3. IsPrefix(s, u) /\ IsPrefix(s, s)
  BY ONLY <1>1, <1>2, PrefixPlaces, s \in Seq(T)
<1> QED BY ONLY <1>2, <1>3 DEF u

\* One more pass judged.
LEMMA JudgedOneMore ==
  ASSUME NEW count, NEW said, NEW passes, Judged(count, said, passes), NEW over \in BOOLEAN
  PROVE  LET more == IF over THEN (IF count < 2 THEN count + 1 ELSE 2) ELSE 0
         IN  Judged(more, said \/ more = 2, Append(passes, over))
<1> DEFINE more == IF over THEN (IF count < 2 THEN count + 1 ELSE 2) ELSE 0
           grown == Append(passes, over)
           n == Len(passes)
<1>1. /\ passes \in Seq(BOOLEAN) /\ count \in 0..2 /\ said \in BOOLEAN /\ n \in Nat
      /\ count > 0 <=> n > 0 /\ passes[n] = TRUE
      /\ count > 1 <=> n > 1 /\ passes[n] = TRUE /\ passes[n - 1] = TRUE
      /\ said = TRUE <=> \E i \in 2..n : passes[i - 1] = TRUE /\ passes[i] = TRUE
  BY DEF Judged
<1>2. /\ grown \in Seq(BOOLEAN) /\ Len(grown) = n + 1
      /\ \A i \in 1..n : grown[i] = passes[i]
      /\ grown[n + 1] = over
  BY ONLY <1>1, over \in BOOLEAN, AppendProperties
<1>3. /\ more \in 0..2
      /\ more > 0 <=> over = TRUE
      /\ more > 1 <=> over = TRUE /\ count > 0
  BY ONLY <1>1, over \in BOOLEAN
<1> HIDE DEF more, grown, n
<1>4. more > 0 <=> n + 1 > 0 /\ grown[n + 1] = TRUE
  BY ONLY <1>1, <1>2, <1>3
<1>5. more > 1 <=> n + 1 > 1 /\ grown[n + 1] = TRUE /\ grown[n + 1 - 1] = TRUE
  BY ONLY <1>1, <1>2, <1>3
<1>6. (said \/ more = 2) = TRUE <=> \E i \in 2..(n + 1) : grown[i - 1] = TRUE /\ grown[i] = TRUE
  <2>1. more = 2 <=> more > 1
    BY ONLY <1>3
  <2>2. ASSUME NEW i \in 2..n PROVE grown[i] = passes[i] /\ grown[i - 1] = passes[i - 1]
    BY ONLY <1>1, <1>2, i \in 2..n
  <2>3. ASSUME said = TRUE PROVE \E i \in 2..(n + 1) : grown[i - 1] = TRUE /\ grown[i] = TRUE
    <3>1. PICK i \in 2..n : passes[i - 1] = TRUE /\ passes[i] = TRUE
      BY ONLY <1>1, <2>3
    <3>2. i \in 2..(n + 1) /\ grown[i - 1] = TRUE /\ grown[i] = TRUE
      BY ONLY <1>1, <2>2, <3>1
    <3> QED BY ONLY <3>2
  <2>4. ASSUME more > 1 PROVE \E i \in 2..(n + 1) : grown[i - 1] = TRUE /\ grown[i] = TRUE
    BY ONLY <1>1, <1>5, <2>4
  <2>5. ASSUME NEW i \in 2..(n + 1), grown[i - 1] = TRUE, grown[i] = TRUE PROVE said = TRUE \/ more > 1
    <3>1. CASE i = n + 1
      BY ONLY <1>1, <1>5, <2>5, <3>1
    <3>2. CASE i # n + 1
      BY ONLY <1>1, <2>2, <2>5, <3>2
    <3> QED BY ONLY <3>1, <3>2
  <2> QED BY ONLY <1>1, <2>1, <2>3, <2>4, <2>5
<1> DEFINE now == said \/ more = 2
<1>7. now \in BOOLEAN /\ (now = TRUE <=> \E i \in 2..(n + 1) : grown[i - 1] = TRUE /\ grown[i] = TRUE)
  BY ONLY <1>6
<1> HIDE DEF now
<1>8. Judged(more, now, grown)
  BY ONLY <1>1, <1>2, <1>3, <1>4, <1>5, <1>7 DEF Judged
<1> QED BY ONLY <1>8 DEF more, grown, now

LEMMA PassIsJudged ==
  ASSUME Judged(overruns, warned, slow), NEW w, NEW over \in BOOLEAN, NotePassCost(w, over)
  PROVE  Judged(overruns', warned', slow')
<1>1. CASE Asked(w)
  <2>1. /\ slow' = Append(slow, over)
        /\ overruns' = IF over THEN (IF overruns < 2 THEN overruns + 1 ELSE 2) ELSE 0
        /\ warned' = (warned \/ overruns' = 2)
    BY ONLY <1>1, NotePassCost(w, over) DEF NotePassCost
  <2> QED BY ONLY <2>1, JudgedOneMore, Judged(overruns, warned, slow), over \in BOOLEAN
<1>2. CASE ~Asked(w)
  BY ONLY <1>2, NotePassCost(w, over), Judged(overruns, warned, slow) DEF NotePassCost, cost
<1> QED BY <1>1, <1>2

\* A window with one more frame: nothing changes for the frames it had, so at most
\* the new one is dear, and none is if the window is not asked about.
LEMMA OneMoreFrame ==
  ASSUME NEW W \in Windows, NEW e \in Nat,
         NEW w, w.start \in Nat, w.sums = Append(W.sums, e)
  PROVE  /\ w.sums \in Seq(Nat) /\ Frames(w) = Frames(W) + 1 /\ Frames(W) \in Nat
         /\ Cardinality(Dear(W.sums)) \in Nat /\ Cardinality(Dear(w.sums)) \in Nat
         /\ Cardinality(Dear(w.sums)) <= Cardinality(Dear(W.sums)) + 1
         /\ ~Asked(w) => Cardinality(Dear(w.sums)) <= Cardinality(Dear(W.sums))
<1> DEFINE s == W.sums
           t == w.sums
           m == Len(s)
<1>1. /\ t \in Seq(Nat) /\ m \in Nat /\ Len(t) = m + 1 /\ MaxWindow \in Nat /\ t # <<>>
      /\ \A n \in 1..m : t[n] = s[n]
      /\ MaxWindow > 0
  <2>1. s \in Seq(Nat) /\ t = Append(s, e)
    BY DEF Windows
  <2> HIDE DEF s, t
  <2> QED BY ONLY <2>1, e \in Nat, AppendProperties, WindowAssumption DEF m, WindowAssumption
<1>2. Frames(w) = m + 1 /\ Frames(W) = m /\ Asked(w) = (t # <<>> /\ Audible(t, Len(t)))
  BY <1>1 DEF Frames, Asked
<1> HIDE DEF s, t, m
<1>3. \A n \in 1..m : Audible(t, n) <=> Audible(s, n)
  BY ONLY <1>1 DEF Audible
<1>4. Dear(t) \subseteq Dear(s) \cup {m + 1}
  BY ONLY <1>1, <1>3 DEF Dear, m
<1>5. ~Audible(t, m + 1) => Dear(t) \subseteq Dear(s)
  BY ONLY <1>1, <1>4 DEF Dear
<1>6. IsFiniteSet(Dear(s))
  <2>1. IsFiniteSet(MaxWindow..m)
    BY ONLY <1>1, FS_Interval
  <2>2. Dear(s) \subseteq MaxWindow..m
    BY DEF Dear, m
  <2> QED BY ONLY <2>1, <2>2, FS_Subset
<1>7. IsFiniteSet(Dear(s) \cup {m + 1}) /\ Cardinality(Dear(s)) \in Nat
      /\ Cardinality(Dear(s) \cup {m + 1}) <= Cardinality(Dear(s)) + 1
  BY ONLY <1>6, FS_AddElement, FS_CardinalityType
<1>8. IsFiniteSet(Dear(t)) /\ Cardinality(Dear(t)) <= Cardinality(Dear(s) \cup {m + 1})
  BY ONLY <1>4, <1>7, FS_Subset
<1>9. Cardinality(Dear(t)) \in Nat /\ Cardinality(Dear(s) \cup {m + 1}) \in Nat
  BY ONLY <1>7, <1>8, FS_CardinalityType
<1>10. ~Audible(t, m + 1) => Cardinality(Dear(t)) <= Cardinality(Dear(s))
  BY ONLY <1>5, <1>6, FS_Subset
<1>11. Cardinality(Dear(t)) <= Cardinality(Dear(s)) + 1
  BY ONLY <1>7, <1>8, <1>9
<1> QED BY ONLY <1>1, <1>2, <1>7, <1>9, <1>10, <1>11 DEF s, t

LEMMA NothingIsDear == Cardinality(Dear(<<>>)) = 0
<1>1. MaxWindow \in Nat /\ MaxWindow > 0
  BY WindowAssumption DEF WindowAssumption
<1>2. Dear(<<>>) = {}
  <2>1. Len(<<>>) = 0
    OBVIOUS
  <2> QED BY ONLY <1>1, <2>1 DEF Dear
<1> QED BY ONLY <1>2, FS_EmptySet

\* No frame of a window under the cap is dear.
LEMMA UnderCap ==
  ASSUME NEW s \in Seq(Nat), Len(s) < MaxWindow
  PROVE  Cardinality(Dear(s)) = 0
<1>1. Dear(s) = {}
  BY WindowAssumption DEF WindowAssumption, Dear
<1> QED BY ONLY <1>1, FS_EmptySet

\* A pass that yields a hypothesis of a window keeps what was said.
LEMMA YieldKeeps ==
  ASSUME WTypes, locked = settled, NEW fresh \in Seq(Texts), NEW final \in BOOLEAN,
         NEW w \in Windows, Yield(fresh, w, final)
  PROVE  /\ hyp' \in [text : Seq(Texts), final : BOOLEAN, end : Nat] /\ hyp'.end = AudioEnd(w)
         /\ hyp'.text = locked \o fresh /\ settled' \in Seq(Texts) /\ vain' = 0
         /\ settled' = IF final THEN locked \o fresh ELSE locked
         /\ IsPrefix(settled, hyp'.text) /\ IsPrefix(settled', hyp'.text)
<1>1. locked \in Seq(Texts)
  BY DEF WTypes
<1> DEFINE said == locked \o fresh
<1>2. said \in Seq(Texts) /\ IsPrefix(locked, said)
  BY ONLY <1>1, Grown, fresh \in Seq(Texts)
<1>3. IsPrefix(said, said)
  BY ONLY <1>2, Grown
<1>4. /\ hyp' = [text |-> said, final |-> final, end |-> AudioEnd(w)]
      /\ settled' = (IF final THEN hyp'.text ELSE settled) /\ vain' = 0
  BY DEF Yield
<1>5. AudioEnd(w) \in Nat
  BY DEF AudioEnd, Frames, Windows
<1> HIDE DEF said
<1>6. /\ hyp' \in [text : Seq(Texts), final : BOOLEAN, end : Nat] /\ hyp'.end = AudioEnd(w) /\ hyp'.text = said
      /\ settled' = IF final THEN said ELSE locked
  BY ONLY <1>2, <1>4, <1>5, final \in BOOLEAN, locked = settled
<1>7. /\ settled' \in Seq(Texts) /\ IsPrefix(settled, said) /\ IsPrefix(settled', said)
  BY ONLY <1>1, <1>2, <1>3, <1>6, locked = settled, final \in BOOLEAN
<1> QED BY ONLY <1>4, <1>6, <1>7 DEF said

\* What a step must not do to a hypothesis.
Grows == IsPrefix(settled, hyp'.text) /\ hyp.end <= hyp'.end /\ hyp'.end <= audio'

LEMMA FrameKeeps == ASSUME WInv, Frame PROVE WInv' /\ Grows
<1>0. /\ audio \in Nat /\ quietFor \in Nat /\ locked \in Seq(Texts) /\ settled \in Seq(Texts)
      /\ window \in Windows /\ window.start \in Nat /\ window.sums \in Seq(Nat) /\ Frames(window) \in Nat
      /\ hyp \in [text : Seq(Texts), final : BOOLEAN, end : Nat] /\ hyp.end \in Nat
      /\ hyp.end <= audio /\ window.start + Frames(window) <= audio
      /\ Frames(window) > 0 => hyp.end <= window.start + Frames(window)
      /\ ~ended /\ locked = settled /\ IsPrefix(settled, hyp.text)
      /\ vain \in Nat /\ Cardinality(Dear(window.sums)) <= vain
      /\ Judged(overruns, warned, slow) /\ MaxWindow \in Nat \ {0} /\ WTypes
  BY WindowAssumption DEF WindowAssumption, Frame, WInv, WTypes, Windows, Forward, Cumulative, Capped, AudioEnd, Frames
<1>1. PICK at \in audio..(audio + MaxGap), level \in Levels, over \in BOOLEAN :
        LET w == Widened(at, level)
            quiet == QuietAfter(level)
        IN  /\ at < MaxAudio /\ audio' = at + 1
            /\ Gather(w, quiet) \/ HearNothing(w, quiet, over) \/ Hear(w, quiet, over)
  BY DEF Frame
<1> DEFINE w == Widened(at, level)
           quiet == QuietAfter(level)
<1>2. /\ audio' = at + 1 /\ UNCHANGED ended
      /\ Gather(w, quiet) \/ HearNothing(w, quiet, over) \/ Hear(w, quiet, over)
  BY <1>1 DEF Frame
<1>3. at \in Nat /\ at >= audio /\ quiet \in Nat /\ level \in Nat
  BY <1>0, WindowAssumption DEF WindowAssumption, QuietAfter
<1>4. /\ w \in Windows /\ w.sums \in Seq(Nat)
      /\ w.start \in Nat /\ Frames(w) = Frames(window) + 1 /\ Frames(w) \in Nat
      /\ hyp.end <= w.start + Frames(w) /\ w.start + Frames(w) <= at + 1 /\ w.start <= at
      /\ Cardinality(Dear(window.sums)) \in Nat /\ Cardinality(Dear(w.sums)) \in Nat
      /\ Cardinality(Dear(w.sums)) <= Cardinality(Dear(window.sums)) + 1
      /\ ~Asked(w) => Cardinality(Dear(w.sums)) <= Cardinality(Dear(window.sums))
  <2> DEFINE e == level + IF window.sums = <<>> THEN 0 ELSE Last(window.sums)
  <2>1. e \in Nat
    <3>1. window.sums # <<>> => Last(window.sums) \in Nat
      BY <1>0 DEF Last
    <3> QED BY ONLY <1>3, <3>1
  <2>2. /\ w = [start |-> IF window.sums = <<>> THEN at ELSE window.start, sums |-> Append(window.sums, e)]
    BY DEF Widened
  <2> HIDE DEF e, w
  <2>3. w.start \in Nat /\ w.sums = Append(window.sums, e)
        /\ w.start = IF window.sums = <<>> THEN at ELSE window.start
    BY ONLY <1>0, <1>3, <2>2
  <2>4. /\ w.sums \in Seq(Nat) /\ Frames(w) = Frames(window) + 1
        /\ Cardinality(Dear(window.sums)) \in Nat /\ Cardinality(Dear(w.sums)) \in Nat
        /\ Cardinality(Dear(w.sums)) <= Cardinality(Dear(window.sums)) + 1
        /\ ~Asked(w) => Cardinality(Dear(w.sums)) <= Cardinality(Dear(window.sums))
    BY ONLY <1>0, <2>1, <2>3, OneMoreFrame
  <2>5. w \in Windows
    BY ONLY <2>2, <2>3, <2>4 DEF Windows
  <2>6. window.sums = <<>> <=> Frames(window) = 0
    BY ONLY <1>0 DEF Frames
  <2>7. hyp.end <= w.start + Frames(w) /\ w.start + Frames(w) <= at + 1 /\ w.start <= at
    <3>1. CASE window.sums = <<>>
      BY ONLY <1>0, <1>3, <2>3, <2>4, <2>6, <3>1
    <3>2. CASE window.sums # <<>>
      <4>1. w.start = window.start /\ Frames(window) > 0
        BY ONLY <1>0, <2>3, <2>6, <3>2
      <4>2. hyp.end <= window.start + Frames(window)
        BY ONLY <1>0, <4>1
      <4>3. window.start + Frames(window) <= audio
        BY ONLY <1>0
      <4> DEFINE f == Frames(window)
      <4>4. f \in Nat /\ window.start \in Nat /\ audio \in Nat /\ hyp.end \in Nat
        BY ONLY <1>0
      <4>5. Frames(w) = f + 1
        BY ONLY <2>4
      <4> HIDE DEF f
      <4>6. hyp.end <= window.start + f /\ window.start + f <= audio /\ f > 0
        BY ONLY <4>1, <4>2, <4>3 DEF f
      <4> QED BY ONLY <1>3, <4>1, <4>4, <4>5, <4>6
    <3> QED BY ONLY <3>1, <3>2
  <2> QED BY ONLY <1>0, <2>3, <2>4, <2>5, <2>7
<1> HIDE DEF w, quiet
<1>5. AudioEnd(w) = w.start + Frames(w)
  BY DEF AudioEnd
<1>6. CASE Gather(w, quiet)
  <2>1. /\ Frames(w) < MaxWindow /\ window' = w /\ quietFor' = quiet
        /\ UNCHANGED <<locked, hyp, settled, vain, overruns, warned, slow>>
    BY <1>0, <1>4, <1>6 DEF Gather, Overlong, yielded, cost
  <2>2. WTypes' /\ Forward' /\ Cumulative' /\ Grows
    BY ONLY <1>0, <1>2, <1>3, <1>4, <1>5, <2>1 DEF WTypes, Forward, Cumulative, Grows, Frames, AudioEnd
  <2>3. Cardinality(Dear(w.sums)) = 0
    BY ONLY <1>4, <2>1, UnderCap DEF Frames
  <2>4. Judged(overruns', warned', slow') /\ Capped'
    BY ONLY <1>0, <1>4, <2>1, <2>3 DEF Capped, Dear, Audible
  <2> QED BY ONLY <2>2, <2>4 DEF WInv
<1>7. CASE HearNothing(w, quiet, over)
  <2>0. NotePassCost(w, over)
    BY <1>7 DEF HearNothing
  <2>1. /\ window' = w /\ quietFor' = quiet /\ vain' = (IF Asked(w) THEN vain + 1 ELSE vain)
        /\ UNCHANGED <<locked, hyp, settled>>
    BY <1>7 DEF HearNothing
  <2>2. WTypes' /\ Forward' /\ Cumulative' /\ Grows
    BY ONLY <1>0, <1>2, <1>3, <1>4, <1>5, <2>1, SMTT(30) DEF WTypes, Forward, Cumulative, Grows, Frames, AudioEnd
  <2>3. Judged(overruns', warned', slow')
    BY ONLY <1>0, <1>4, <2>0, PassIsJudged, over \in BOOLEAN
  <2>4. Capped'
    <3>1. /\ vain \in Nat /\ vain' \in Nat /\ Cardinality(Dear(w.sums)) <= vain'
      BY ONLY <1>0, <1>4, <2>1
    <3> QED BY ONLY <2>1, <3>1 DEF Capped, Dear, Audible
  <2> QED BY ONLY <2>2, <2>3, <2>4 DEF WInv
<1>8. CASE Hear(w, quiet, over)
  <2> DEFINE final == Final(w, quiet)
  <2>1. PICK fresh \in PassTexts(w) : Yield(fresh, w, final) /\ Close(fresh, w, quiet, final)
    BY <1>8 DEF Hear
  <2>2. fresh \in Seq(Texts) /\ final \in BOOLEAN /\ (~final => Frames(w) < MaxWindow)
    <3>1. <<>> \in Seq(Texts) /\ <<[from |-> w.start, frames |-> Frames(w)]>> \in Seq(Texts)
      BY <1>0, <1>4 DEF Texts
    <3>2. fresh \in {<<>>, <<[from |-> w.start, frames |-> Frames(w)]>>}
      BY <2>1 DEF PassTexts
    <3>3. final \in BOOLEAN
      BY DEF Final, Quiet, Overlong
    <3>4. ~final => Frames(w) < MaxWindow
      BY <1>0, <1>4 DEF Final, Overlong
    <3> HIDE DEF final
    <3> QED BY ONLY <3>1, <3>2, <3>3, <3>4
  <2>3. NotePassCost(w, over)
    BY <1>8 DEF Hear
  <2> HIDE DEF final
  <2>4. /\ hyp' \in [text : Seq(Texts), final : BOOLEAN, end : Nat] /\ hyp'.end = w.start + Frames(w)
        /\ settled' \in Seq(Texts) /\ vain' = 0 /\ settled' = IF final THEN locked \o fresh ELSE locked
        /\ IsPrefix(settled, hyp'.text) /\ IsPrefix(settled', hyp'.text)
    BY ONLY <1>0, <1>4, <1>5, <2>1, <2>2, YieldKeeps
  <2>5. /\ locked' = (IF final THEN locked \o fresh ELSE locked)
        /\ window' = (IF final THEN [start |-> w.start, sums |-> <<>>] ELSE w)
        /\ quietFor' = IF final THEN 0 ELSE quiet
    BY ONLY <2>1 DEF Close, Empty
  <2>6. Grows
    BY ONLY <1>0, <1>2, <1>3, <1>4, <2>4 DEF Grows
  <2>7. /\ window' \in Windows /\ window'.start = w.start
        /\ final => window'.sums = <<>> /\ Frames(window') = 0
        /\ ~final => window' = w
    BY ONLY <1>4, <2>2, <2>5 DEF Windows, Frames
  <2>8. WTypes'
    BY ONLY <1>0, <1>2, <1>3, <2>2, <2>4, <2>5, <2>7, SMTT(30) DEF WTypes
  <2>9. Forward'
    <3>1. hyp'.end <= audio'
      BY ONLY <1>2, <1>3, <1>4, <2>4
    <3>2. CASE final
      BY ONLY <1>2, <1>3, <1>4, <2>7, <3>1, <3>2 DEF Forward, AudioEnd, Frames
    <3>3. CASE ~final
      BY ONLY <1>0, <1>2, <1>3, <1>4, <2>4, <2>7, <3>1, <3>3, SMTT(30) DEF Forward, AudioEnd, Frames
    <3> QED BY ONLY <3>2, <3>3
  <2>10. Cumulative'
    BY ONLY <2>2, <2>4, <2>5 DEF Cumulative
  <2>11. Judged(overruns', warned', slow')
    BY ONLY <1>0, <1>4, <2>3, PassIsJudged, over \in BOOLEAN
  <2>12. Capped'
    <3>1. Cardinality(Dear(window'.sums)) = 0
      <4>1. CASE final
        BY ONLY <2>7, <4>1, NothingIsDear
      <4>2. CASE ~final
        BY ONLY <1>4, <2>2, <2>7, <4>2, UnderCap DEF Frames
      <4> QED BY ONLY <2>2, <4>1, <4>2
    <3> QED BY ONLY <2>4, <3>1 DEF Capped, Dear, Audible
  <2> QED BY ONLY <2>6, <2>8, <2>9, <2>10, <2>11, <2>12 DEF WInv
<1> QED BY <1>2, <1>6, <1>7, <1>8

LEMMA EndKeeps == ASSUME WInv, EndOfStream PROVE WInv' /\ Grows
<1>0. /\ audio \in Nat /\ window \in Windows /\ locked = settled
      /\ window.start \in Nat /\ Frames(window) \in Nat /\ hyp.end \in Nat
      /\ hyp.end <= audio /\ window.start + Frames(window) <= audio
      /\ Frames(window) > 0 => hyp.end <= window.start + Frames(window)
      /\ Asked(window) => Frames(window) > 0
      /\ IsPrefix(settled, hyp.text) /\ Judged(overruns, warned, slow) /\ WTypes /\ vain \in Nat
  BY DEF EndOfStream, WInv, WTypes, Windows, Forward, Cumulative, Capped, AudioEnd, Frames, Asked
<1>1. ended' = TRUE /\ UNCHANGED <<audio, window, quietFor, locked>>
  BY DEF EndOfStream
<1>2. Judged(overruns', warned', slow')
  <2>1. PICK over \in BOOLEAN : NotePassCost(window, over)
    BY DEF EndOfStream
  <2> QED BY ONLY <1>0, <2>1, PassIsJudged
<1>3. CASE UNCHANGED yielded
  BY ONLY <1>0, <1>1, <1>2, <1>3 DEF yielded, WInv, WTypes, Forward, AudioEnd, Frames, Cumulative, Capped, Grows
<1>4. ASSUME NEW fresh \in PassTexts(window) \ {<<>>}, Yield(fresh, window, TRUE) PROVE WInv' /\ Grows
  <2>1. Asked(window) /\ fresh = <<[from |-> window.start, frames |-> Frames(window)]>>
    BY <1>4 DEF PassTexts
  <2>2. fresh \in Seq(Texts)
    BY <1>0, <2>1 DEF Texts
  <2>3. /\ hyp' \in [text : Seq(Texts), final : BOOLEAN, end : Nat] /\ hyp'.end = AudioEnd(window)
        /\ settled' \in Seq(Texts) /\ vain' = 0
        /\ IsPrefix(settled, hyp'.text) /\ IsPrefix(settled', hyp'.text)
    BY ONLY <1>0, <1>4, <2>2, YieldKeeps
  <2> QED BY ONLY <1>0, <1>1, <1>2, <2>1, <2>3 DEF WInv, WTypes, Forward, AudioEnd, Frames, Cumulative, Capped, Grows
<1> QED BY <1>3, <1>4 DEF EndOfStream

LEMMA WStart == ASSUME WInit PROVE WInv
<1>1. <<>> \in Seq(Texts) /\ <<>> \in Seq(BOOLEAN) /\ Len(<<>>) = 0
  OBVIOUS
<1>2. IsPrefix(<<>>, <<>>)
  BY ONLY <1>1, Grown
<1>3. /\ audio = 0 /\ window = Empty(0) /\ quietFor = 0 /\ locked = <<>> /\ ended = FALSE
      /\ hyp = [text |-> <<>>, final |-> FALSE, end |-> 0] /\ settled = <<>> /\ vain = 0
      /\ overruns = 0 /\ warned = FALSE /\ slow = <<>>
  BY DEF WInit
<1>4. WTypes
  <2>1. window \in Windows
    BY ONLY <1>3 DEF Windows, Empty
  <2> QED BY ONLY <1>1, <1>3, <2>1 DEF WTypes
<1>5. Forward /\ Cumulative
  BY ONLY <1>2, <1>3 DEF Forward, Cumulative, Empty, AudioEnd, Frames
<1>6. Capped
  BY ONLY <1>3, NothingIsDear DEF Capped, Empty
<1>7. Judged(overruns, warned, slow)
  <2>1. slow \in Seq(BOOLEAN) /\ Len(slow) = 0 /\ overruns = 0 /\ warned = FALSE
    BY ONLY <1>1, <1>3
  <2>2. /\ ~(warned = TRUE) /\ ~(Len(slow) > 0) /\ ~(Len(slow) > 1) /\ ~(overruns > 0) /\ ~(overruns > 1)
        /\ \A i \in 2..Len(slow) : FALSE
    BY ONLY <2>1
  <2>3. overruns \in 0..2 /\ warned \in BOOLEAN
    <3>1. overruns = 0 /\ warned = FALSE
      BY <2>1
    <3>2. overruns \in 0..2
      BY ONLY <3>1
    <3>3. warned \in BOOLEAN
      BY ONLY <3>1
    <3> QED BY ONLY <3>2, <3>3
  <2>4. overruns > 0 <=> Len(slow) > 0 /\ slow[Len(slow)] = TRUE
    BY ONLY <2>2
  <2>5. overruns > 1 <=> Len(slow) > 1 /\ slow[Len(slow)] = TRUE /\ slow[Len(slow) - 1] = TRUE
    BY ONLY <2>2
  <2>6. warned = TRUE <=> \E i \in 2..Len(slow) : slow[i - 1] = TRUE /\ slow[i] = TRUE
    BY ONLY <2>2
  <2> QED BY ONLY <2>1, <2>3, <2>4, <2>5, <2>6, Zenon DEF Judged
<1> QED BY ONLY <1>4, <1>5, <1>6, <1>7 DEF WInv

LEMMA WKept == WSpec => []WInv
<1>1. ASSUME WInv, [WNext]_wvars PROVE WInv'
  <2>1. CASE UNCHANGED wvars
    <3>1. UNCHANGED <<audio, window, quietFor, locked, hyp, settled, vain, ended, overruns, warned, slow>>
      BY <2>1 DEF wvars, yielded, cost
    <3> QED BY ONLY <3>1, WInv DEF WInv, WTypes, Forward, AudioEnd, Frames, Cumulative, Capped, Dear, Audible
  <2> QED BY <1>1, <2>1, FrameKeeps, EndKeeps DEF WNext
<1> QED BY <1>1, WStart, PTL DEF WSpec

\* However the audio comes and whatever is heard in it: what was declared final heads
\* every later hypothesis, and the audio covered never goes back nor runs ahead.
THEOREM TextIsNeverTakenBack == WSpec => HypothesesGrow
<1>1. ASSUME WInv, [WNext]_wvars PROVE [Grows]_wvars
  BY <1>1, FrameKeeps, EndKeeps DEF WNext
<1>2. HypothesesGrow <=> [][Grows]_wvars
  BY DEF HypothesesGrow, Grows
<1> QED BY <1>1, <1>2, WKept, PTL DEF WSpec

\* For any cap, any two thresholds and any levels and costs: each frame a window has
\* over its cap, and was loud enough at to be asked about, has cost a pass in vain, and
\* it is said of two costly passes in a row, and only then.
THEOREM CostIsAlwaysKnown == WSpec => []CostIsKnown
<1>1. WInv => CostIsKnown
  <2> SUFFICES ASSUME WInv PROVE CostIsKnown
    OBVIOUS
  <2>1. /\ slow \in Seq(BOOLEAN) /\ warned \in BOOLEAN
        /\ warned = TRUE <=> \E i \in 2..Len(slow) : slow[i - 1] = TRUE /\ slow[i] = TRUE
    BY DEF WInv, Judged
  <2>2. \A i \in 2..Len(slow) : slow[i - 1] \in BOOLEAN /\ slow[i] \in BOOLEAN
    BY ONLY <2>1
  <2>3. warned <=> \E i \in 2..Len(slow) : slow[i - 1] /\ slow[i]
    BY ONLY <2>1, <2>2
  <2> QED BY ONLY <2>3, WInv DEF WInv, Capped, Dear, Frames, CostIsKnown
<1> QED BY <1>1, WKept, PTL
=============================================================================
