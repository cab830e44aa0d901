------------------------------ MODULE LossyFifo ------------------------------
(***************************************************************************)
(* What a consumer may rely on from a queue that sheds under load: items   *)
(* come out oldest first and at most once; items may be lost, only from    *)
(* the old end and only when a newer one arrives; the newest is never      *)
(* lost.  session/backpressure.py promises this of the audio stream.       *)
(***************************************************************************)
EXTENDS Naturals, Sequences

CONSTANT Items

VARIABLES
  queue,  \* items waiting, oldest first
  taken,  \* items handed over so far
  ended   \* no more items will be offered

vars == <<queue, taken, ended>>

Init == queue = <<>> /\ taken = <<>> /\ ended = FALSE

\* A new item arrives and any number of the older ones go.  The item is the last
\* of the queue it leaves behind, since a newest item is never dropped.
Offer ==
  /\ ~ended
  /\ queue' # <<>>
  /\ LET item == queue'[Len(queue')] IN
       /\ item \in Items
       /\ \E k \in 1..(Len(queue) + 1) :
            queue' = SubSeq(Append(queue, item), k, Len(queue) + 1)
  /\ UNCHANGED <<taken, ended>>

Take ==
  /\ queue # <<>>
  /\ taken' = Append(taken, Head(queue))
  /\ queue' = Tail(queue)
  /\ UNCHANGED ended

End ==
  /\ ended' = TRUE
  /\ UNCHANGED <<queue, taken>>

Next == Offer \/ Take \/ End

Spec == Init /\ [][Next]_vars
=============================================================================
