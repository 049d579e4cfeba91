------------------------------ MODULE ByteQueue ------------------------------
(***************************************************************************)
(* What a buffer is for: bytes come out in the order in which they went    *)
(* in, the last ones can be taken back, and two buffers can be exchanged.  *)
(***************************************************************************)
EXTENDS Integers, Sequences

CONSTANTS Buffers, Chunks

VARIABLES queue,   \* per buffer
          taken    \* the bytes the last call returned

vars == <<queue, taken>>

Init == /\ queue = [b \in Buffers |-> <<>>]
        /\ taken = <<>>

Put(b, data) == /\ queue' = [queue EXCEPT ![b] = @ \o data]
                /\ UNCHANGED taken

Skip(b) == \E len \in 0..Len(queue[b]) :
  /\ queue' = [queue EXCEPT ![b] = SubSeq(@, len + 1, Len(@))]
  /\ UNCHANGED taken

Take(b) == \E len \in 0..Len(queue[b]) :
  /\ queue' = [queue EXCEPT ![b] = SubSeq(@, len + 1, Len(@))]
  /\ taken' = SubSeq(queue[b], 1, len)

TakeBack(b) == \E len \in 0..Len(queue[b]) :
  /\ queue' = [queue EXCEPT ![b] = SubSeq(@, 1, len)]
  /\ UNCHANGED taken

Exchange(b, c) == /\ queue' = [queue EXCEPT ![b] = queue[c], ![c] = queue[b]]
                  /\ UNCHANGED taken

Next == \E b \in Buffers : \/ \E data \in Chunks : Put(b, data)
                           \/ Skip(b) \/ Take(b) \/ TakeBack(b)
                           \/ \E c \in Buffers : Exchange(b, c)

Spec == Init /\ [][Next]_vars
==============================================================================
