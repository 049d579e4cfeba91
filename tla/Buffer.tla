------------------------------- MODULE Buffer --------------------------------
(***************************************************************************)
(* util/buffer.h: an array of bytes of which those between readerIndex_    *)
(* and writerIndex_ are readable.  makeSpace has no body yet, so append is *)
(* modelled up to the room there is.  Position p of the array is element   *)
(* p + 1 of the sequence.                                                  *)
(***************************************************************************)
EXTENDS Integers, Sequences, FiniteSets

CONSTANTS Buffers,
          Bytes, CR, LF,   \* the bytes, two of which end lines
          Chunks,          \* what is appended at once
          kCheapPrepend,
          initialSize      \* per buffer

ASSUME BufferAssumption == /\ {CR, LF} \subseteq Bytes
                           /\ Chunks \subseteq Seq(Bytes)
                           /\ kCheapPrepend \in Nat
                           /\ initialSize \in [Buffers -> Nat]

VARIABLES buffer_, readerIndex_, writerIndex_,   \* the members, per buffer
          taken   \* the string the last call returned

bufVars == <<buffer_, readerIndex_, writerIndex_, taken>>

BufInit == /\ buffer_ = [b \in Buffers |->
                           [p \in 1..(kCheapPrepend + initialSize[b]) |-> CHOOSE x \in Bytes : TRUE]]
           /\ readerIndex_ = [b \in Buffers |-> kCheapPrepend]
           /\ writerIndex_ = [b \in Buffers |-> kCheapPrepend]
           /\ taken = <<>>

readableBytes(b) == writerIndex_[b] - readerIndex_[b]

writableBytes(b) == Len(buffer_[b]) - writerIndex_[b]

Readable(b) == SubSeq(buffer_[b], readerIndex_[b] + 1, writerIndex_[b])

BufferAppend(b, data) ==
  /\ Len(data) <= writableBytes(b)
  /\ buffer_' = [buffer_ EXCEPT ![b] = [p \in DOMAIN @ |->
                   IF p - writerIndex_[b] \in 1..Len(data) THEN data[p - writerIndex_[b]] ELSE @[p]]]
  /\ writerIndex_' = [writerIndex_ EXCEPT ![b] = @ + Len(data)]
  /\ UNCHANGED <<readerIndex_, taken>>

ReaderKept(b) ==   \* mutant of retrieveAll: only the writer is reset
  /\ writerIndex_' = [writerIndex_ EXCEPT ![b] = kCheapPrepend]
  /\ UNCHANGED <<buffer_, readerIndex_>>

WriterKept(b) ==   \* mutant of retrieveAll: only the reader is reset
  /\ readerIndex_' = [readerIndex_ EXCEPT ![b] = kCheapPrepend]
  /\ UNCHANGED <<buffer_, writerIndex_>>

retrieveAll(b) ==
  /\ readerIndex_' = [readerIndex_ EXCEPT ![b] = kCheapPrepend]
  /\ writerIndex_' = [writerIndex_ EXCEPT ![b] = kCheapPrepend]
  /\ UNCHANGED buffer_

Retrieved(b, len) ==
  \/ /\ len < readableBytes(b)
     /\ readerIndex_' = [readerIndex_ EXCEPT ![b] = @ + len]
     /\ UNCHANGED <<buffer_, writerIndex_>>
  \/ /\ len = readableBytes(b)
     /\ retrieveAll(b)

Retrieve(b) == /\ \E len \in 0..readableBytes(b) : Retrieved(b, len)
               /\ UNCHANGED taken

RetrieveAll(b) == retrieveAll(b) /\ UNCHANGED taken

RetrieveAsString(b) == \E len \in 0..readableBytes(b) :
  /\ taken' = SubSeq(Readable(b), 1, len)
  /\ Retrieved(b, len)

RetrieveAllAsString(b) == /\ taken' = Readable(b)
                          /\ Retrieved(b, readableBytes(b))

(* Where CR LF, or LF, is found first from start on; none if it is not     *)
(* found.  A position is a byte's distance from the beginning of buffer_.  *)
FirstOf(found) == {p \in found : \A q \in found : p <= q}

findCRLF(b, start) ==
  FirstOf({p \in start..(writerIndex_[b] - 2) : buffer_[b][p + 1] = CR /\ buffer_[b][p + 2] = LF})

findEOL(b, start) == FirstOf({p \in start..(writerIndex_[b] - 1) : buffer_[b][p + 1] = LF})

RetrieveUntil(b) ==
  /\ \E start \in readerIndex_[b]..writerIndex_[b] :
       \E end \in findCRLF(b, start) \cup findEOL(b, start) : Retrieved(b, end - readerIndex_[b])
  /\ UNCHANGED taken

Unwrite(b) == /\ \E len \in 0..readableBytes(b) : writerIndex_' = [writerIndex_ EXCEPT ![b] = @ - len]
              /\ UNCHANGED <<buffer_, readerIndex_, taken>>

Swapped(f, b, c) == [f EXCEPT ![b] = f[c], ![c] = f[b]]

Swap(b, c) == /\ buffer_' = Swapped(buffer_, b, c)
              /\ readerIndex_' = Swapped(readerIndex_, b, c)
              /\ writerIndex_' = Swapped(writerIndex_, b, c)
              /\ UNCHANGED taken

BufNext == \E b \in Buffers :
  \/ \E data \in Chunks : BufferAppend(b, data)
  \/ Retrieve(b) \/ RetrieveAll(b) \/ RetrieveUntil(b)
  \/ RetrieveAsString(b) \/ RetrieveAllAsString(b)
  \/ Unwrite(b)
  \/ \E c \in Buffers : Swap(b, c)

BufSpec == BufInit /\ [][BufNext]_bufVars

------------------------------------------------------------------------------

Queue == INSTANCE ByteQueue WITH queue <- [b \in Buffers |-> Readable(b)]

(* A buffer is a queue of bytes: resetting the indices when it runs empty, *)
(* writing over what was taken back and swapping lose, repeat and reorder  *)
(* nothing.                                                                *)
ImplementsByteQueue == Queue!Spec
==============================================================================
