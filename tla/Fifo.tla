-------------------------------- MODULE Fifo --------------------------------
(***************************************************************************)
(* What a single-producer single-consumer buffer promises: a bounded queue *)
(* of bytes.  The producer commits runs of bytes at the tail; the consumer *)
(* looks at the bytes from the head, one after another, and then either    *)
(* removes exactly the ones it has looked at or leaves all of them.        *)
(***************************************************************************)
EXTENDS Naturals, Sequences

CONSTANTS Byte,      \* the values a buffer element can have
          Capacity   \* the most bytes the queue can hold

VARIABLES queue,     \* the committed bytes not yet removed
          got        \* the bytes the consumer has looked at so far

fifoVars == <<queue, got>>

Init == queue = <<>> /\ got = <<>>

Put(s) == /\ Len(queue) + Len(s) <= Capacity
          /\ queue' = queue \o s
          /\ UNCHANGED got

Look == /\ Len(got) < Len(queue)
        /\ got' = Append(got, queue[Len(got) + 1])
        /\ UNCHANGED queue

Remove == /\ queue' = SubSeq(queue, Len(got) + 1, Len(queue))
          /\ got' = <<>>

Leave == got' = <<>> /\ UNCHANGED queue

Next == \/ \E n \in 1 .. Capacity : \E s \in [1 .. n -> Byte] : Put(s)
        \/ Look
        \/ Remove
        \/ Leave

Spec == Init /\ [][Next]_fifoVars
=============================================================================
