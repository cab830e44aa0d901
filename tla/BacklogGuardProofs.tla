------------------------- MODULE BacklogGuardProofs -------------------------
(***************************************************************************)
(* Proofs about BacklogGuard, for every threshold, frame length and number *)
(* of frames.  IInv strengthens the checked invariants with the order of   *)
(* the buffered frames and with what the last shed left behind.            *)
(***************************************************************************)
EXTENDS BacklogGuard, TLAPS

USE DEF BacklogAssumption
USE BacklogAssumption

\* Buffered frames lie in the past and in the order they were received.
Ordered ==
  /\ \A i \in 1..Len(buffer) : buffer[i].t <= newest
  /\ \A i \in 1..(Len(buffer) - 1) : buffer[i].t <= buffer[i + 1].t

\* The oldest buffered frame is at most LagAfterShed older than the last shed.
SettledSince ==
  /\ shedAt <= newest
  /\ buffer # <<>> => shedAt <= buffer[1].t + LagAfterShed

\* Closing is exactly the feeder's end, and only an abandoned stream cancels it.
FeederTracked ==
  /\ closed <=> (feeder \in {"done", "failed", "cancelled"})
  /\ feeder \in {"cancelling", "cancelled"} => consumer = "stopped"

IInv ==
  /\ TypeOK /\ FramesAccounted /\ LagBounded /\ DropsExplained /\ EndsExplained
  /\ Ordered /\ SettledSince /\ FeederTracked

-----------------------------------------------------------------------------
\* Appending a frame at the end of the received audio keeps the order.
LEMMA AppendOrdered ==
  ASSUME TypeOK, Ordered, NEW d \in Durations, framesIn < MaxFrames,
         NEW STATE buf, buf = Append(buffer, NextFrame(d))
  PROVE  /\ NextFrame(d) \in Frame
         /\ buf \in Seq(Frame)
         /\ Len(buf) = Len(buffer) + 1
         /\ buf[Len(buf)] = NextFrame(d)
         /\ buffer # <<>> => buf[1] = buffer[1]
         /\ \A i \in 1..Len(buf) : buf[i].t \in Nat /\ buf[i].t <= newest
         /\ \A i \in 1..(Len(buf) - 1) : buf[i].t <= buf[i + 1].t
<1>1. NextFrame(d) \in Frame /\ NextFrame(d).t = newest
  BY DEF NextFrame, Frame, TypeOK, Durations
<1>2. buf \in Seq(Frame) /\ Len(buf) = Len(buffer) + 1
  BY <1>1 DEF TypeOK
<1>3. \A i \in 1..Len(buffer) : buf[i] = buffer[i]
  BY <1>1 DEF TypeOK
<1>4. buf[Len(buf)] = NextFrame(d)
  BY <1>1, <1>2 DEF TypeOK
<1>5. \A i \in 1..Len(buf) : buf[i].t \in Nat
  <2> SUFFICES ASSUME NEW i \in 1..Len(buf) PROVE buf[i].t \in Nat
    OBVIOUS
  <2>1. buf[i] \in Frame
    BY <1>2
  <2>2. QED BY <2>1 DEF Frame
<1>6. \A i \in 1..Len(buf) : buf[i].t <= newest
  BY <1>1, <1>2, <1>3, <1>4 DEF Ordered, TypeOK
<1>7. \A i \in 1..(Len(buf) - 1) : buf[i].t <= buf[i + 1].t
  <2> SUFFICES ASSUME NEW i \in 1..(Len(buf) - 1) PROVE buf[i].t <= buf[i + 1].t
    OBVIOUS
  <2>1. CASE i = Len(buffer)
    BY <2>1, <1>1, <1>2, <1>4, <1>6 DEF TypeOK
  <2>2. CASE i < Len(buffer)
    <3>1. i \in 1..(Len(buffer) - 1) /\ i + 1 \in 1..Len(buffer)
      BY <2>2, <1>2 DEF TypeOK
    <3>2. QED BY <3>1, <1>3 DEF Ordered
  <2>3. QED BY <2>1, <2>2, <1>2 DEF TypeOK
<1>8. buffer # <<>> => buf[1] = buffer[1]
  BY <1>3 DEF TypeOK
<1>9. QED BY <1>1, <1>2, <1>4, <1>5, <1>6, <1>7, <1>8

\* What a shed leaves is the tail of the buffer from the frame it stopped at.
LEMMA KeptFromSuffix ==
  ASSUME NEW STATE buf, buf \in Seq(Frame), NEW k \in 1..Len(buf)
  PROVE  /\ KeptFrom(buf, k) \in Seq(Frame)
         /\ Len(KeptFrom(buf, k)) = Len(buf) - k + 1
         /\ Len(KeptFrom(buf, k)) \in Nat \ {0}
         /\ \A i \in 1..Len(KeptFrom(buf, k)) : KeptFrom(buf, k)[i] = buf[i + k - 1]
<1>1. /\ SubSeq(buf, k, Len(buf)) \in Seq(Frame)
      /\ Len(SubSeq(buf, k, Len(buf))) = Len(buf) - k + 1
  OBVIOUS
<1>2. \A i \in 1..(Len(buf) - k + 1) : SubSeq(buf, k, Len(buf))[i] = buf[k + i - 1]
  OBVIOUS
<1>3. QED BY <1>1, <1>2 DEF KeptFrom

\* The shape of the buffer after a push, whether or not it shed: a non-empty
\* suffix of what was there, ending in the new frame.
LEMMA PushShape ==
  ASSUME TypeOK, Ordered, NEW d \in Durations, Push(d)
  PROVE  \E k \in 1..(Len(buffer) + 1) :
           /\ buffer' = KeptFrom(Append(buffer, NextFrame(d)), k)
           /\ framesDropped' = framesDropped + (k - 1)
           /\ shedEvents' = IF k > 1 THEN shedEvents + 1 ELSE shedEvents
           /\ shedAt' = IF k > 1 THEN newest' ELSE shedAt
           /\ k > 1 => newest' - buffer[1].t >= MaxLag /\ buffer # <<>>
           /\ k > 1 => peakLag' >= MaxLag
           /\ k > 1 => newest' - buffer'[1].t <= LagAfterShed
           /\ LagBounded'
<1> DEFINE f == NextFrame(d)
           buf == Append(buffer, f)
<1>1. /\ f \in Frame /\ f.t = newest /\ f.d = d
      /\ newest' = newest + d /\ newest \in Nat /\ d \in Nat \ {0} /\ d <= LongestFrame
  BY DEF Push, NextFrame, Frame, TypeOK, Durations
<1>2. /\ buf \in Seq(Frame) /\ Len(buf) = Len(buffer) + 1 /\ buf[Len(buf)] = f
      /\ buffer # <<>> => buf[1] = buffer[1]
      /\ \A i \in 1..Len(buf) : buf[i].t \in Nat /\ buf[i].t <= newest
  BY AppendOrdered DEF Push
<1>3. ShedIfBehind(buf, newest')
  BY <1>1 DEF Push
<1>4. LagOf(buf, newest') = newest' - buf[1].t /\ Len(buffer) \in Nat
  <2>1. Len(buffer) \in Nat
    BY DEF TypeOK
  <2>2. buf # <<>> /\ buf[1].t \in Nat /\ buf[1].t <= newest
    BY <2>1, <1>2
  <2> HIDE DEF buf
  <2>3. QED BY <1>1, <2>1, <2>2 DEF LagOf
<1> HIDE DEF buf, f
<1>5. CASE LagOf(buf, newest') < MaxLag
  <2>1. buffer' = buf /\ UNCHANGED <<framesDropped, secondsDropped, shedEvents, shedAt>>
    BY <1>3, <1>5, <1>4, <1>1, <1>2 DEF ShedIfBehind
  <2>2. buf = KeptFrom(buf, 1)
    BY <1>2 DEF KeptFrom
  <2>3. LagBounded'
    BY <2>1, <1>5 DEF LagBounded, LagOf
  <2>4. framesDropped' = framesDropped + (1 - 1)
    BY <2>1 DEF TypeOK
  <2>5. QED BY <2>1, <2>2, <2>3, <2>4, <1>4, <1>2 DEF buf, f
<1>6. CASE LagOf(buf, newest') >= MaxLag
  <2>1. PICK k \in 1..Len(buf) :
          /\ FirstKept(buf, newest', k)
          /\ buffer' = KeptFrom(buf, k)
          /\ framesDropped' = framesDropped + (k - 1)
          /\ shedEvents' = IF k > 1 THEN shedEvents + 1 ELSE shedEvents
          /\ shedAt' = IF k > 1 THEN newest' ELSE shedAt
    BY <1>3, <1>6, <1>4, <1>1, <1>2 DEF ShedIfBehind
  <2>2. /\ buffer'[1] = buf[k] /\ Len(buffer') = Len(buf) - k + 1 /\ buffer' # <<>>
    <3>1. /\ Len(KeptFrom(buf, k)) = Len(buf) - k + 1
          /\ Len(KeptFrom(buf, k)) \in Nat \ {0}
          /\ \A i \in 1..Len(KeptFrom(buf, k)) : KeptFrom(buf, k)[i] = buf[i + k - 1]
          /\ KeptFrom(buf, k) \in Seq(Frame)
      BY <1>2, KeptFromSuffix
    <3>2. KeptFrom(buf, k)[1] = buf[k]
      BY <3>1
    <3>3. QED BY <2>1, <3>1, <3>2
  <2>3. buf[k].t \in Nat /\ buf[k].t <= newest
    BY <1>2
  <2>4. k > 1 => buffer # <<>>
    BY <1>2 DEF TypeOK
  <2>5. newest' - buf[k].t <= LagAfterShed
    BY <2>1, <2>3, <1>1, <1>2 DEF FirstKept, LagAfterShed
  <2>6. LagBounded'
    BY <2>1, <2>2, <2>3, <1>1, <1>2 DEF FirstKept, LagBounded, LagOf
  <2>7. peakLag' >= MaxLag
    BY <1>3, <1>6, <1>4, <1>1, <1>2 DEF ShedIfBehind, PeakWith, TypeOK
  <2>8. QED BY <2>1, <2>2, <2>4, <2>5, <2>6, <2>7, <1>2, <1>4, <1>6 DEF buf, f
<1>7. QED BY <1>5, <1>6, <1>4, <1>1, <1>2

-----------------------------------------------------------------------------
LEMMA InitEstablishes == Init => IInv
<1> SUFFICES ASSUME Init PROVE IInv
  OBVIOUS
<1>1. TypeOK
  <2>1. <<>> \in Seq(Frame)
    OBVIOUS
  <2>2. feeder \in FeederStates /\ consumer \in ConsumerStates
    BY DEF Init, FeederStates, ConsumerStates
  <2>3. arrived \in BOOLEAN /\ closed \in BOOLEAN
    BY DEF Init
  <2>4. QED BY <2>1, <2>2, <2>3 DEF Init, TypeOK
<1>2. FramesAccounted /\ Ordered
  BY DEF Init, FramesAccounted, Ordered
<1>3. LagBounded /\ DropsExplained /\ SettledSince
  BY DEF Init, LagBounded, LagOf, DropsExplained, SettledSince
<1>4. EndsExplained
  BY DEF Init, EndsExplained, ConsumerEnds
<1>5. FeederTracked
  BY DEF Init, FeederTracked
<1>6. QED BY <1>1, <1>2, <1>3, <1>4, <1>5 DEF IInv

\* One frame in, k - 1 frames out: the counters still balance.
LEMMA CountersBalance ==
  ASSUME NEW in \in Int, NEW out \in Int, NEW dropped \in Int, NEW held \in Int, NEW k \in Int,
         in = out + dropped + held
  PROVE  in + 1 = out + (dropped + (k - 1)) + (held + 2 - k)
OBVIOUS

LEMMA PushPreserves ==
  ASSUME IInv, NEW d \in Durations, Push(d)
  PROVE  IInv'
<1> DEFINE buf == Append(buffer, NextFrame(d))
<1> USE DEF IInv
<1>1. PICK k \in 1..(Len(buffer) + 1) :
        /\ buffer' = KeptFrom(buf, k)
        /\ framesDropped' = framesDropped + (k - 1)
        /\ shedEvents' = IF k > 1 THEN shedEvents + 1 ELSE shedEvents
        /\ shedAt' = IF k > 1 THEN newest' ELSE shedAt
        /\ k > 1 => newest' - buffer[1].t >= MaxLag /\ buffer # <<>>
        /\ k > 1 => peakLag' >= MaxLag
        /\ k > 1 => newest' - buffer'[1].t <= LagAfterShed
        /\ LagBounded'
  BY PushShape
<1>2. /\ buf \in Seq(Frame) /\ Len(buf) = Len(buffer) + 1 /\ buf[Len(buf)] = NextFrame(d)
      /\ buffer # <<>> => buf[1] = buffer[1]
      /\ \A i \in 1..Len(buf) : buf[i].t \in Nat /\ buf[i].t <= newest
      /\ \A i \in 1..(Len(buf) - 1) : buf[i].t <= buf[i + 1].t
  BY AppendOrdered DEF Push
<1> HIDE DEF buf
<1>3. /\ buffer' \in Seq(Frame) /\ Len(buffer') = Len(buf) - k + 1
      /\ Len(buffer') \in Nat \ {0}
      /\ \A i \in 1..Len(buffer') : buffer'[i] = buf[i + k - 1]
  BY <1>1, <1>2, KeptFromSuffix
<1>4. /\ newest' = newest + d /\ newest \in Nat /\ d \in Nat \ {0} /\ Len(buffer) \in Nat
      /\ NextFrame(d).t = newest
  BY DEF Push, NextFrame, TypeOK, Durations
<1>5. /\ framesIn' = framesIn + 1 /\ framesIn' \in 0..MaxFrames
      /\ framesOut' = framesOut /\ delivered' = delivered
      /\ closed' = closed /\ feeder' = feeder /\ consumer' = consumer
      /\ feeder = "running" /\ arrived' \in BOOLEAN
  BY DEF Push, WakeDrain, TypeOK
<1>6. peakLag' \in Nat /\ peakLag' >= peakLag
  <2>1. peakLag' = PeakWith(buf, newest')
    BY <1>4 DEF Push, ShedIfBehind, NextFrame, buf
  <2>2. LagOf(buf, newest') \in Nat
    <3>1. buf = <<>> \/ buf[1].t \in Nat
      BY <1>2
    <3>2. QED BY <3>1, <1>4 DEF LagOf
  <2>3. QED BY <2>1, <2>2 DEF PeakWith, TypeOK
<1>7. TypeOK'
  BY <1>1, <1>3, <1>4, <1>5, <1>6 DEF TypeOK
<1>8. FramesAccounted'
  <2>1. Len(buffer') = Len(buffer) + 2 - k
    BY <1>2, <1>3, <1>4
  <2>2. framesIn = framesOut + framesDropped + Len(buffer) /\ framesOut = Len(delivered)
    BY DEF FramesAccounted
  <2>3. framesIn \in Nat /\ framesOut \in Nat /\ framesDropped \in Nat
    BY DEF TypeOK
  <2>4. framesDropped' = framesDropped + (k - 1)
    BY <1>1
  <2> HIDE DEF IInv
  <2>5. framesIn + 1 = framesOut + (framesDropped + (k - 1)) + (Len(buffer) + 2 - k)
    BY <2>2, <2>3, <1>4, CountersBalance
  <2>6. framesIn' = framesOut' + framesDropped' + Len(buffer')
    BY ONLY <2>1, <2>4, <2>5, <1>5
  <2>7. QED BY <2>6, <2>2, <1>5 DEF FramesAccounted
<1>9. DropsExplained'
  BY <1>1, <1>6, <1>4 DEF DropsExplained, TypeOK
<1>10. EndsExplained' /\ FeederTracked'
  BY <1>5 DEF EndsExplained, FeederTracked
<1>11. Ordered'
  <2>1. \A i \in 1..Len(buffer') : buffer'[i].t <= newest'
    <3> SUFFICES ASSUME NEW i \in 1..Len(buffer') PROVE buffer'[i].t <= newest'
      OBVIOUS
    <3>1. i + k - 1 \in 1..Len(buf) /\ buffer'[i] = buf[i + k - 1]
      BY <1>3, <1>2
    <3>2. QED BY <3>1, <1>2, <1>4
  <2>2. \A i \in 1..(Len(buffer') - 1) : buffer'[i].t <= buffer'[i + 1].t
    <3> SUFFICES ASSUME NEW i \in 1..(Len(buffer') - 1)
                 PROVE  buffer'[i].t <= buffer'[i + 1].t
      OBVIOUS
    <3>1. /\ i + k - 1 \in 1..(Len(buf) - 1)
          /\ buffer'[i] = buf[i + k - 1]
          /\ buffer'[i + 1] = buf[(i + k - 1) + 1]
      BY <1>3, <1>2
    <3>2. QED BY <3>1, <1>2
  <2>3. QED BY <2>1, <2>2 DEF Ordered
<1>12. SettledSince'
  <2>1. buffer'[1] = buf[k]
    BY <1>3
  <2>2. buf[k].t \in Nat /\ buf[k].t <= newest
    BY <1>2
  <2>3. LagAfterShed \in Nat /\ LagAfterShed > 0
    BY DEF LagAfterShed
  <2>4. CASE k > 1
    <3>1. shedAt' = newest' /\ newest' - buffer'[1].t <= LagAfterShed
      BY <2>4, <1>1
    <3>2. shedAt' <= newest' /\ shedAt' <= buffer'[1].t + LagAfterShed
      BY <3>1, <2>1, <2>2, <2>3, <1>4
    <3>3. QED BY <3>2 DEF SettledSince
  <2>5. CASE k = 1
    <3>1. CASE buffer = <<>>
      BY <3>1, <2>5, <2>1, <2>3, <1>1, <1>2, <1>4 DEF SettledSince, TypeOK
    <3>2. CASE buffer # <<>>
      BY <3>2, <2>5, <2>1, <2>2, <2>3, <1>1, <1>2, <1>4 DEF SettledSince, TypeOK
    <3>3. QED BY <3>1, <3>2
  <2>6. QED BY <2>4, <2>5, <1>1
<1>13. QED BY <1>1, <1>7, <1>8, <1>9, <1>10, <1>11, <1>12

LEMMA YieldPreserves ==
  ASSUME IInv, DrainYields
  PROVE  IInv'
<1> USE DEF IInv
<1>1. /\ buffer' \in Seq(Frame) /\ Len(buffer) \in Nat \ {0} /\ Len(buffer') = Len(buffer) - 1
      /\ \A i \in 1..Len(buffer') : buffer'[i] = buffer[i + 1]
      /\ \A i \in 1..Len(buffer) : buffer[i] \in Frame
      /\ Head(buffer) \in Frame
  BY DEF DrainYields, TypeOK
<1>2. /\ newest' = newest /\ framesIn' = framesIn /\ framesDropped' = framesDropped
      /\ shedEvents' = shedEvents /\ peakLag' = peakLag /\ shedAt' = shedAt
      /\ closed' = closed /\ feeder' = feeder /\ arrived' = arrived
      /\ consumer' = "busy" /\ framesOut' = framesOut + 1
      /\ delivered' = Append(delivered, Head(buffer))
      /\ consumer \in {"busy", "waiting"}
  BY DEF DrainYields, DrainRuns
<1>3. \A i \in 1..Len(buffer) : buffer[i].t \in Nat
  BY <1>1 DEF Frame
<1>4. TypeOK'
  BY <1>1, <1>2 DEF TypeOK, ConsumerStates
<1>5. FramesAccounted'
  BY <1>1, <1>2 DEF FramesAccounted, TypeOK
<1>6. DropsExplained'
  BY <1>2 DEF DropsExplained
<1>7. EndsExplained'
  BY <1>2 DEF EndsExplained, ConsumerEnds
<1>8. FeederTracked'
  BY <1>2 DEF FeederTracked
<1>9. Ordered'
  <2>1. \A i \in 1..Len(buffer') : i + 1 \in 1..Len(buffer) /\ buffer'[i] = buffer[i + 1]
    BY <1>1
  <2>2. \A i \in 1..(Len(buffer') - 1) :
          /\ i \in 1..Len(buffer') /\ i + 1 \in 1..Len(buffer')
          /\ i + 1 \in 1..(Len(buffer) - 1)
    BY <1>1
  <2>3. \A i \in 1..Len(buffer') : buffer'[i].t <= newest'
    BY <2>1, <1>2 DEF Ordered
  <2>4. \A i \in 1..(Len(buffer') - 1) : buffer'[i].t <= buffer'[i + 1].t
    BY <2>1, <2>2 DEF Ordered
  <2>5. QED BY <2>3, <2>4 DEF Ordered
<1>10. buffer' # <<>> => buffer'[1].t \in Nat /\ buffer'[1].t >= buffer[1].t /\ buffer[1].t \in Nat
  <2> SUFFICES ASSUME buffer' # <<>>
               PROVE  buffer'[1].t \in Nat /\ buffer'[1].t >= buffer[1].t /\ buffer[1].t \in Nat
    OBVIOUS
  <2>1. 1 \in 1..(Len(buffer) - 1) /\ 2 \in 1..Len(buffer) /\ 1 \in 1..Len(buffer)
    BY <1>1
  <2>2. buffer'[1] = buffer[2] /\ buffer[1].t <= buffer[2].t
    BY <2>1, <1>1 DEF Ordered
  <2>3. QED BY <2>1, <2>2, <1>3
<1>11. SettledSince'
  BY <1>2, <1>10 DEF SettledSince, TypeOK, LagAfterShed, DrainYields
<1>12. LagBounded'
  <2>1. CASE LagOf(buffer, newest) < MaxLag
    BY <2>1, <1>2, <1>10 DEF LagBounded, LagOf, TypeOK, DrainYields
  <2>2. CASE Len(buffer) = 1
    BY <2>2, <1>1 DEF LagBounded, LagOf
  <2>3. QED BY <2>1, <2>2 DEF LagBounded
<1>13. QED BY <1>4, <1>5, <1>6, <1>7, <1>8, <1>9, <1>11, <1>12

\* The steps that only move the feeder or the consumer on.
LEMMA ControlPreserves ==
  ASSUME IInv,
         SourceEnds \/ SourceFails \/ FeederCancelled \/ DrainReturns \/ DrainWaits \/ Abandon
  PROVE  IInv'
<1> USE DEF IInv
<1>1. /\ buffer' = buffer /\ newest' = newest /\ delivered' = delivered /\ shedAt' = shedAt
      /\ framesIn' = framesIn /\ framesOut' = framesOut /\ framesDropped' = framesDropped
      /\ shedEvents' = shedEvents /\ peakLag' = peakLag
  BY DEF SourceEnds, SourceFails, FeederCancelled, FeedEnds, DrainReturns, DrainWaits,
         Abandon, stats
<1>2. FramesAccounted' /\ LagBounded' /\ DropsExplained' /\ Ordered' /\ SettledSince'
  BY <1>1 DEF FramesAccounted, LagBounded, DropsExplained, Ordered, SettledSince
<1>3. CASE SourceEnds \/ SourceFails \/ FeederCancelled
  <2> USE DEF SourceEnds, SourceFails, FeederCancelled, FeedEnds, Close, WakeDrain
  <2>1. TypeOK'
    BY <1>1, <1>3 DEF TypeOK, FeederStates
  <2>2. EndsExplained'
    BY <1>1, <1>3 DEF EndsExplained
  <2>3. FeederTracked'
    BY <1>3 DEF FeederTracked
  <2>4. QED BY <1>2, <2>1, <2>2, <2>3
<1>4. CASE DrainReturns
  <2> USE DEF DrainReturns, DrainRuns, Drained
  <2>1. TypeOK'
    BY <1>1, <1>4 DEF TypeOK, ConsumerStates, ConsumerEnds
  <2>2. feeder \in {"done", "failed"}
    BY <1>4 DEF FeederTracked
  <2>3. EndsExplained'
    BY <1>1, <1>4, <2>2 DEF EndsExplained, ConsumerEnds
  <2>4. FeederTracked'
    BY <1>4, <2>2 DEF FeederTracked
  <2>5. QED BY <1>2, <2>1, <2>3, <2>4
<1>5. CASE DrainWaits
  <2> USE DEF DrainWaits, DrainRuns
  <2>1. TypeOK'
    BY <1>1, <1>5 DEF TypeOK, ConsumerStates
  <2>2. EndsExplained'
    BY <1>1, <1>5 DEF EndsExplained, ConsumerEnds
  <2>3. FeederTracked'
    BY <1>5 DEF FeederTracked
  <2>4. QED BY <1>2, <2>1, <2>2, <2>3
<1>6. CASE Abandon
  <2> USE DEF Abandon
  <2>1. TypeOK'
    BY <1>1, <1>6 DEF TypeOK, ConsumerStates, ConsumerEnds, FeederStates
  <2>2. EndsExplained'
    BY <1>1, <1>6 DEF EndsExplained, ConsumerEnds
  <2>3. FeederTracked'
    BY <1>6 DEF FeederTracked
  <2>4. QED BY <1>2, <2>1, <2>2, <2>3
<1>7. QED BY <1>3, <1>4, <1>5, <1>6

LEMMA StepPreserves == IInv /\ [Next]_vars => IInv'
<1> SUFFICES ASSUME IInv, [Next]_vars PROVE IInv'
  OBVIOUS
<1>1. ASSUME NEW d \in Durations, Push(d) PROVE IInv'
  BY <1>1, PushPreserves
<1>2. CASE DrainYields
  BY <1>2, YieldPreserves
<1>3. CASE SourceEnds \/ SourceFails \/ FeederCancelled \/ DrainReturns \/ DrainWaits \/ Abandon
  BY <1>3, ControlPreserves
<1>4. CASE UNCHANGED vars
  BY <1>4 DEF vars, stats, IInv, TypeOK, FramesAccounted, LagBounded, DropsExplained,
              EndsExplained, Ordered, SettledSince, FeederTracked
<1>5. QED BY <1>1, <1>2, <1>3, <1>4 DEF Next

LEMMA Invariance == Spec => []IInv
BY InitEstablishes, StepPreserves, PTL DEF Spec

-----------------------------------------------------------------------------
\* The variables keep their types.
THEOREM TypeCorrect == Spec => []TypeOK
BY Invariance, PTL DEF IInv

\* No frame disappears: received = handed on + counted as dropped + buffered
\* (the counters of BacklogStats, for every interleaving of feed and drain).
THEOREM NothingUncounted == Spec => []FramesAccounted
BY Invariance, PTL DEF IInv

\* The recogniser is never max_lag_s behind unless only one frame is left.
THEOREM LagIsBounded == Spec => []LagBounded
BY Invariance, PTL DEF IInv

\* Audio is dropped only once the recorded peak reached max_lag_s.
THEOREM DropsAreExplained == Spec => []DropsExplained
BY Invariance, PTL DEF IInv

\* How guarded ends says what happened to the source, and no feeder is orphaned.
THEOREM EndsAreExplained == Spec => []EndsExplained
BY Invariance, PTL DEF IInv

\* A whole MaxLag - LagAfterShed of audio separates two sheds.
THEOREM ShedsAreSpaced == Spec => ShedSpacing
<1>1. IInv /\ [Next]_vars
        => [shedEvents' > shedEvents => newest' - shedAt >= MaxLag - LagAfterShed]_vars
  <2> SUFFICES ASSUME IInv, [Next]_vars, shedEvents' > shedEvents
               PROVE  newest' - shedAt >= MaxLag - LagAfterShed
    OBVIOUS
  <2>1. shedEvents \in Nat /\ newest \in Nat /\ shedAt \in Nat
    BY DEF IInv, TypeOK
  <2>2. ASSUME NEW d \in Durations, Push(d)
        PROVE  newest' - shedAt >= MaxLag - LagAfterShed
    <3>1. newest' - buffer[1].t >= MaxLag /\ buffer # <<>>
      <4>1. PICK k \in 1..(Len(buffer) + 1) :
              /\ shedEvents' = IF k > 1 THEN shedEvents + 1 ELSE shedEvents
              /\ k > 1 => newest' - buffer[1].t >= MaxLag /\ buffer # <<>>
        BY <2>2, PushShape DEF IInv
      <4>2. QED BY <4>1, <2>1
    <3>2. buffer[1].t \in Nat /\ shedAt <= buffer[1].t + LagAfterShed
      <4>1. buffer[1] \in Frame
        BY <3>1 DEF IInv, TypeOK
      <4>2. QED BY <4>1, <3>1 DEF IInv, SettledSince, Frame
    <3>3. newest' \in Nat
      BY <2>1, <2>2 DEF Push, NextFrame, Durations
    <3>4. LagAfterShed \in Nat
      BY DEF LagAfterShed
    <3>5. \A n, t, s, l \in Nat : n - t >= MaxLag /\ s <= t + l => n - s >= MaxLag - l
      OBVIOUS
    <3>6. QED BY <3>1, <3>2, <3>3, <3>4, <3>5, <2>1
  <2>3. CASE DrainYields
    BY <2>3, <2>1 DEF DrainYields
  <2>4. CASE SourceEnds \/ SourceFails \/ FeederCancelled \/ DrainReturns \/ DrainWaits \/ Abandon
    BY <2>4, <2>1 DEF SourceEnds, SourceFails, FeederCancelled, FeedEnds, DrainReturns,
                      DrainWaits, Abandon, stats
  <2>5. CASE UNCHANGED vars
    BY <2>5, <2>1 DEF vars, stats
  <2>6. QED BY <2>2, <2>3, <2>4, <2>5 DEF Next
<1>2. QED BY <1>1, Invariance, PTL DEF Spec, ShedSpacing

\* A push is an Offer: it drops some of the oldest items and keeps the new one.
LEMMA PushOffers ==
  ASSUME IInv, NEW d \in Durations, Push(d)
  PROVE  Fifo!Offer
<1> DEFINE all == Append(buffer, NextFrame(d))
<1>1. PICK k \in 1..(Len(buffer) + 1) : buffer' = KeptFrom(all, k)
  BY PushShape DEF IInv
<1>2. /\ NextFrame(d) \in Frame /\ all \in Seq(Frame)
      /\ Len(all) = Len(buffer) + 1 /\ all[Len(all)] = NextFrame(d)
  BY AppendOrdered DEF IInv, Push
<1>3. ~closed /\ delivered' = delivered /\ closed' = closed
  BY DEF Push, IInv, FeederTracked
<1> HIDE DEF all
<1>4. /\ Len(buffer') = Len(all) - k + 1 /\ Len(buffer') \in Nat \ {0}
      /\ \A i \in 1..Len(buffer') : buffer'[i] = all[i + k - 1]
  BY <1>1, <1>2, KeptFromSuffix
<1>5. buffer' # <<>> /\ buffer'[Len(buffer')] = NextFrame(d)
  BY <1>2, <1>4
<1>6. buffer' = SubSeq(Append(buffer, NextFrame(d)), k, Len(buffer) + 1)
  BY <1>1, <1>2 DEF KeptFrom, all
<1> QED BY <1>2, <1>3, <1>5, <1>6 DEF Fifo!Offer

\* Every step of the guard is one of the queue's, or leaves the queue alone.
LEMMA StepMapsToFifo == ASSUME IInv, [Next]_vars PROVE [Fifo!Next]_(Fifo!vars)
<1> USE DEF Fifo!Next, Fifo!vars
<1>1. ASSUME NEW d \in Durations, Push(d) PROVE Fifo!Next
  BY <1>1, PushOffers
<1>2. DrainYields => Fifo!Next
  BY DEF DrainYields, Fifo!Take
<1>3. SourceEnds \/ SourceFails \/ FeederCancelled => Fifo!Next
  BY DEF SourceEnds, SourceFails, FeederCancelled, FeedEnds, Close, Fifo!End
<1>4. DrainReturns \/ DrainWaits \/ Abandon \/ UNCHANGED vars => UNCHANGED Fifo!vars
  BY DEF DrainReturns, DrainWaits, Abandon, vars
<1> QED BY <1>1, <1>2, <1>3, <1>4 DEF Next

\* The guard implements the abstract lossy FIFO: every push is an Offer that
\* drops some of the oldest items and keeps the new one, every frame handed on
\* is a Take, the feeder's end is End, and everything else stutters.
THEOREM RefinesLossyFifo == Spec => ImplementsLossyFifo
<1>1. Init => Fifo!Init
  BY DEF Init, Fifo!Init
<1>2. IInv /\ [Next]_vars => [Fifo!Next]_(Fifo!vars)
  BY StepMapsToFifo
<1> QED BY <1>1, <1>2, Invariance, PTL DEF Spec, ImplementsLossyFifo, Fifo!Spec
=============================================================================
