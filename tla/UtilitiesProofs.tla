--------------------------- MODULE UtilitiesProofs ---------------------------
(***************************************************************************)
(* What is proved of the utilities: that a Buffer is a queue of bytes and  *)
(* the cache a list in order of use, whatever is put in; that a subject    *)
(* shows each observer once; that config.ini is somewhere while it is      *)
(* replaced, no host is added twice, and the edits change what they mean   *)
(* to; that main prints the number of threads it created; that base64 text *)
(* is decoded to what was encoded, a number written in decimal notation, a *)
(* name checked against its pattern, and a format replaced by its meaning. *)
(***************************************************************************)
EXTENDS Buffer, LruCache, Observers, ConfigFile, WorkerThreads, Conversions,
        FiniteSetTheorems, SequenceTheorems, WellFoundedInduction, TLAPS

------------------------------------------------------------------------------
(* Numbers and sequences                                                   *)

(* A set of natural numbers that is not empty has a least element.         *)
LEMMA LeastExists ==
  ASSUME NEW S \in SUBSET Nat, S # {}
  PROVE  \E x \in S : \A y \in S : x =< y
<1>1. IsWellFoundedOn(OpToRel(<, Nat), Nat)
  BY NatLessThanWellFounded
<1>2. PICK x \in S : \A y \in S : ~(<<y, x>> \in OpToRel(<, Nat))
  BY <1>1, WFMin
<1>3. \A y \in S : ~(y < x)
  BY <1>2 DEF OpToRel
<1> QED BY <1>3

(* Induction up to a number: what holds of 0, and of a number whenever it  *)
(* holds of the one before.                                                *)
LEMMA UpTo ==
  ASSUME NEW k \in Nat, NEW Q, 0 \in Q, \A n \in 1..k : n - 1 \in Q => n \in Q
  PROVE  \A n \in 0..k : n \in Q
<1> DEFINE Wrong == {n \in 0..k : n \notin Q}
<1> SUFFICES ASSUME Wrong # {} PROVE FALSE
  OBVIOUS
<1>1. PICK n \in Wrong : \A m \in Wrong : n <= m
  <2>1. Wrong \in SUBSET Nat
    OBVIOUS
  <2> QED BY <2>1, LeastExists
<1>2. n \in 1..k /\ n - 1 \in 0..k
  OBVIOUS
<1>3. n - 1 \in Q
  <2>1. ~(n <= n - 1)
    BY <1>2
  <2> QED BY <1>1, <1>2, <2>1
<1> QED BY <1>1, <1>2, <1>3

(* A set of numbers up to a bound has a greatest element.                  *)
LEMMA GreatestExists ==
  ASSUME NEW k \in Nat, NEW S \in SUBSET (0..k), S # {}
  PROVE  \E x \in S : \A y \in S : y <= x
<1> DEFINE R == {k - x : x \in S}
<1>1. R \in SUBSET Nat /\ R # {}
  <2>1. \A x \in S : k - x \in Nat
    OBVIOUS
  <2> QED BY <2>1
<1>2. PICK r \in R : \A y \in R : r =< y
  BY <1>1, LeastExists
<1>3. PICK x \in S : r = k - x
  OBVIOUS
<1>4. \A y \in S : y <= x
  <2> SUFFICES ASSUME NEW y \in S PROVE y <= x
    OBVIOUS
  <2>1. k - y \in R
    OBVIOUS
  <2>2. k - x =< k - y
    BY <1>2, <1>3, <2>1
  <2>3. x \in Int /\ y \in Int
    OBVIOUS
  <2> HIDE DEF R
  <2> QED BY <2>2, <2>3
<1> QED BY <1>4

(* The greatest element is one of the set.                                 *)
LEMMA MaxIs ==
  ASSUME NEW k \in Nat, NEW S \in SUBSET (0..k), S # {}
  PROVE  Max(S) \in S
BY GreatestExists DEF Max

(* Max is the greatest.                                                    *)
LEMMA MaxBounds ==
  ASSUME NEW k \in Nat, NEW S \in SUBSET (0..k), S # {}
  PROVE  Max(S) \in S /\ \A y \in S : y <= Max(S)
BY GreatestExists DEF Max

(* A least element is what it says.                                        *)
LEMMA MinIs ==
  ASSUME NEW S \in SUBSET Nat, S # {}
  PROVE  Min(S) \in S /\ \A y \in S : Min(S) =< y
  BY LeastExists DEF Min

(* What RemoveAt leaves of a sequence.                                     *)
LEMMA RemoveAtIs ==
  ASSUME NEW S, NEW s \in Seq(S), NEW i \in 1..Len(s)
  PROVE  /\ RemoveAt(s, i) \in Seq(S) /\ Len(RemoveAt(s, i)) = Len(s) - 1
         /\ \A j \in 1..(Len(s) - 1) : RemoveAt(s, i)[j] = IF j < i THEN s[j] ELSE s[j + 1]
<1> DEFINE u == SubSeq(s, 1, i - 1)
           v == SubSeq(s, i + 1, Len(s))
<1>0. Len(s) \in Nat /\ i \in Nat /\ i >= 1 /\ i <= Len(s) /\ \A j \in 1..Len(s) : s[j] \in S
  BY ElementOfSeq, LenProperties
<1>1. u \in Seq(S) /\ Len(u) = i - 1 /\ \A j \in 1..(i - 1) : u[j] = s[j]
  <2>1. 1 \in Int /\ i - 1 \in Int /\ \A j \in 1..(i - 1) : s[j] \in S
    BY <1>0
  <2>2. /\ u \in Seq(S) /\ Len(u) = IF 1 <= i - 1 THEN (i - 1) - 1 + 1 ELSE 0
        /\ \A j \in 1..((i - 1) - 1 + 1) : u[j] = s[1 + j - 1]
    BY <2>1, SubSeqProperties
  <2> HIDE DEF u
  <2> QED BY <1>0, <2>2
<1>2. v \in Seq(S) /\ Len(v) = Len(s) - i /\ \A j \in 1..(Len(s) - i) : v[j] = s[i + j]
  <2>1. i + 1 \in Int /\ Len(s) \in Int /\ \A j \in (i + 1)..Len(s) : s[j] \in S
    BY <1>0
  <2>2. /\ v \in Seq(S) /\ Len(v) = IF i + 1 <= Len(s) THEN Len(s) - (i + 1) + 1 ELSE 0
        /\ \A j \in 1..(Len(s) - (i + 1) + 1) : v[j] = s[i + 1 + j - 1]
    BY <2>1, SubSeqProperties
  <2> HIDE DEF v
  <2> QED BY <1>0, <2>2
<1> HIDE DEF u, v
<1>3. /\ u \o v \in Seq(S) /\ Len(u \o v) = Len(u) + Len(v)
      /\ \A j \in 1..(Len(u) + Len(v)) : (u \o v)[j] = IF j <= Len(u) THEN u[j] ELSE v[j - Len(u)]
  BY <1>1, <1>2, ConcatProperties
<1>4. RemoveAt(s, i) = u \o v
  BY DEF RemoveAt, u, v
<1>5. Len(u) + Len(v) = Len(s) - 1
  BY <1>0, <1>1, <1>2
<1>6. ASSUME NEW j \in 1..(Len(s) - 1) PROVE (u \o v)[j] = IF j < i THEN s[j] ELSE s[j + 1]
  <2>1. CASE j < i
    <3>1. j <= Len(u) /\ j \in 1..(i - 1)
      BY <1>0, <1>1, <2>1
    <3> QED BY <1>1, <1>3, <1>5, <2>1, <3>1
  <2>2. CASE ~(j < i)
    <3>1. ~(j <= Len(u)) /\ j - Len(u) \in 1..(Len(s) - i) /\ i + (j - Len(u)) = j + 1
      BY <1>0, <1>1, <2>2
    <3>2. (u \o v)[j] = v[j - Len(u)]
      BY <1>3, <1>5, <3>1
    <3>3. v[j - Len(u)] = s[i + (j - Len(u))]
      BY <1>2, <3>1
    <3> QED BY <2>2, <3>1, <3>2, <3>3
  <2> QED BY <2>1, <2>2
<1> QED BY <1>3, <1>4, <1>5, <1>6

(* An element pushed to the front.                                         *)
LEMMA PushIs ==
  ASSUME NEW S, NEW s \in Seq(S), NEW x \in S
  PROVE  /\ <<x>> \o s \in Seq(S) /\ Len(<<x>> \o s) = Len(s) + 1 /\ (<<x>> \o s)[1] = x
         /\ \A j \in 1..Len(s) : (<<x>> \o s)[j + 1] = s[j]
<1>0. Len(s) \in Nat
  BY LenProperties
<1>1. <<x>> \in Seq(S) /\ Len(<<x>>) = 1 /\ <<x>>[1] = x
  OBVIOUS
<1>2. PICK t : t = <<x>>
  OBVIOUS
<1>3. /\ t \o s \in Seq(S) /\ Len(t \o s) = Len(t) + Len(s)
      /\ \A i \in 1..(Len(t) + Len(s)) : (t \o s)[i] = IF i <= Len(t) THEN t[i] ELSE s[i - Len(t)]
  BY <1>1, <1>2, ConcatProperties
<1>4. Len(t) = 1 /\ t[1] = x
  BY <1>1, <1>2
<1>5. (t \o s)[1] = x
  <2>1. 1 \in 1..(1 + Len(s)) /\ 1 <= 1
    BY <1>0
  <2> QED BY <1>3, <1>4, <2>1
<1>6. ASSUME NEW j \in 1..Len(s) PROVE (t \o s)[j + 1] = s[j]
  <2>1. j + 1 \in 1..(1 + Len(s)) /\ ~(j + 1 <= 1) /\ (j + 1) - 1 = j
    BY <1>0
  <2> QED BY <1>3, <1>4, <2>1
<1> QED BY <1>0, <1>2, <1>3, <1>4, <1>5, <1>6

(* All but the last element of a sequence.                                 *)
LEMMA PopIs ==
  ASSUME NEW S, NEW s \in Seq(S), s # <<>>
  PROVE  /\ SubSeq(s, 1, Len(s) - 1) \in Seq(S) /\ Len(SubSeq(s, 1, Len(s) - 1)) = Len(s) - 1
         /\ \A j \in 1..(Len(s) - 1) : SubSeq(s, 1, Len(s) - 1)[j] = s[j]
<1>0. Len(s) \in Nat /\ Len(s) # 0 /\ \A j \in 1..Len(s) : s[j] \in S
  BY ElementOfSeq, LenProperties, EmptySeq
<1>1. PICK n : n = Len(s) - 1
  OBVIOUS
<1>2. 1 \in Int /\ n \in Nat /\ n \in Int /\ \A j \in 1..n : s[j] \in S
  BY <1>0, <1>1
<1>3. /\ SubSeq(s, 1, n) \in Seq(S) /\ Len(SubSeq(s, 1, n)) = IF 1 <= n THEN n - 1 + 1 ELSE 0
      /\ \A j \in 1..(n - 1 + 1) : SubSeq(s, 1, n)[j] = s[1 + j - 1]
  BY <1>2, SubSeqProperties
<1>4. Len(SubSeq(s, 1, n)) = n /\ \A j \in 1..n : SubSeq(s, 1, n)[j] = s[j]
  BY <1>2, <1>3
<1> QED BY <1>1, <1>3, <1>4

------------------------------------------------------------------------------
(* util/buffer.h                                                           *)

(* The indices of a buffer are in order and within it, and those that an   *)
(* empty buffer gets are too.                                              *)
BufTypes ==
  /\ buffer_ \in [Buffers -> Seq(Bytes)]
  /\ readerIndex_ \in [Buffers -> Nat]
  /\ writerIndex_ \in [Buffers -> Nat]
  /\ \A b \in Buffers : /\ readerIndex_[b] <= writerIndex_[b]
                        /\ writerIndex_[b] <= Len(buffer_[b])
                        /\ kCheapPrepend <= Len(buffer_[b])

(* The bytes between the two indices.                                      *)
LEMMA Between ==
  ASSUME NEW s \in Seq(Bytes), NEW r \in Nat, NEW w \in Nat, r <= w, w <= Len(s)
  PROVE  /\ SubSeq(s, r + 1, w) \in Seq(Bytes)
         /\ Len(SubSeq(s, r + 1, w)) = w - r
         /\ \A i \in 1..(w - r) : SubSeq(s, r + 1, w)[i] = s[r + i]
<1>1. \A i \in (r + 1)..w : s[i] \in Bytes
  BY ElementOfSeq
<1>2. /\ SubSeq(s, r + 1, w) \in Seq(Bytes)
      /\ Len(SubSeq(s, r + 1, w)) = IF r + 1 <= w THEN w - (r + 1) + 1 ELSE 0
      /\ \A i \in 1..(w - (r + 1) + 1) : SubSeq(s, r + 1, w)[i] = s[r + 1 + i - 1]
  BY <1>1, SubSeqProperties
<1>3. w - (r + 1) + 1 = w - r /\ \A i \in 1..(w - r) : r + 1 + i - 1 = r + i
  OBVIOUS
<1>4. \A i \in 1..(w - r) : SubSeq(s, r + 1, w)[i] = s[r + i]
  BY <1>2, <1>3
<1> QED BY <1>2, <1>4

(* A part of what is readable is what lies between indices closer together.*)
LEMMA PartOfReadable ==
  ASSUME NEW s \in Seq(Bytes), NEW r \in Nat, NEW w \in Nat, r <= w, w <= Len(s),
         NEW m \in Nat, NEW n \in Nat, m <= n, n <= w - r
  PROVE  SubSeq(SubSeq(s, r + 1, w), m + 1, n) = SubSeq(s, r + m + 1, r + n)
<1> DEFINE t == SubSeq(s, r + 1, w)
           u == SubSeq(s, r + m + 1, r + n)
<1>1. t \in Seq(Bytes) /\ Len(t) = w - r /\ \A i \in 1..(w - r) : t[i] = s[r + i]
  BY Between
<1>2. /\ SubSeq(t, m + 1, n) \in Seq(Bytes) /\ Len(SubSeq(t, m + 1, n)) = n - m
      /\ \A i \in 1..(n - m) : SubSeq(t, m + 1, n)[i] = t[m + i]
  <2> HIDE DEF t
  <2> QED BY <1>1, Between
<1>3. /\ u \in Seq(Bytes) /\ Len(u) = n - m
      /\ \A i \in 1..(n - m) : u[i] = s[r + m + i]
  <2>1. PICK a, b : a = r + m /\ b = r + n
    OBVIOUS
  <2>2. a \in Nat /\ b \in Nat /\ a <= b /\ b <= Len(s) /\ b - a = n - m
    BY <2>1, LenProperties
  <2>3. /\ SubSeq(s, a + 1, b) \in Seq(Bytes) /\ Len(SubSeq(s, a + 1, b)) = b - a
        /\ \A i \in 1..(b - a) : SubSeq(s, a + 1, b)[i] = s[a + i]
    BY <2>2, Between
  <2>4. u = SubSeq(s, a + 1, b)
    BY <2>1
  <2> HIDE DEF u
  <2> QED BY <2>1, <2>2, <2>3, <2>4
<1>4. \A i \in 1..(n - m) : SubSeq(t, m + 1, n)[i] = u[i]
  <2> HIDE DEF t, u
  <2>1. \A i \in 1..(n - m) : m + i \in 1..(w - r) /\ r + (m + i) = r + m + i
    OBVIOUS
  <2>2. ASSUME NEW i \in 1..(n - m) PROVE SubSeq(t, m + 1, n)[i] = u[i]
    <3>1. t[m + i] = s[r + (m + i)]
      BY <1>1, <2>1
    <3> QED BY <1>2, <1>3, <2>1, <3>1
  <2> QED BY <2>2
<1> HIDE DEF t, u
<1> QED BY <1>2, <1>3, <1>4, SeqEqual DEF t, u

(* An array s after d was written into it from position w on.              *)
Written(s, w, d) == [p \in DOMAIN s |-> IF p - w \in 1..Len(d) THEN d[p - w] ELSE s[p]]

(* It is an array as long, with d from w on and s elsewhere.               *)
LEMMA WrittenInto ==
  ASSUME NEW s \in Seq(Bytes), NEW w \in Nat, NEW d \in Seq(Bytes)
  PROVE  /\ Written(s, w, d) \in Seq(Bytes) /\ Len(Written(s, w, d)) = Len(s)
         /\ \A p \in 1..Len(s) :
              Written(s, w, d)[p] = IF p - w \in 1..Len(d) THEN d[p - w] ELSE s[p]
<1>1. DOMAIN s = 1..Len(s) /\ Len(s) \in Nat
  BY LenProperties
<1>2. \A p \in 1..Len(s) : s[p] \in Bytes
  BY ElementOfSeq
<1>3. \A q \in 1..Len(d) : d[q] \in Bytes
  BY ElementOfSeq
<1>4. Written(s, w, d) = [p \in 1..Len(s) |-> IF p - w \in 1..Len(d) THEN d[p - w] ELSE s[p]]
  BY <1>1 DEF Written
<1>5. Written(s, w, d) \in [1..Len(s) -> Bytes]
  BY <1>2, <1>3, <1>4
<1>6. Written(s, w, d) \in Seq(Bytes) /\ Len(Written(s, w, d)) = Len(s)
  BY <1>1, <1>5
<1> QED BY <1>4, <1>6

(* What is written behind the readable bytes is readable after them.       *)
LEMMA ReadableAppended ==
  ASSUME NEW s \in Seq(Bytes), NEW r \in Nat, NEW w \in Nat, r <= w, NEW d \in Seq(Bytes),
         w + Len(d) <= Len(s)
  PROVE  SubSeq(Written(s, w, d), r + 1, w + Len(d)) = SubSeq(s, r + 1, w) \o d
<1>0. Len(d) \in Nat /\ Len(s) \in Nat /\ w <= Len(s)
  OBVIOUS
<1> DEFINE t == Written(s, w, d)
           u == SubSeq(s, r + 1, w)
           v == SubSeq(t, r + 1, w + Len(d))
<1>1. u \in Seq(Bytes) /\ Len(u) = w - r /\ \A i \in 1..(w - r) : u[i] = s[r + i]
  BY <1>0, Between
<1>2. /\ t \in Seq(Bytes) /\ Len(t) = Len(s)
      /\ \A p \in 1..Len(s) : t[p] = IF p - w \in 1..Len(d) THEN d[p - w] ELSE s[p]
  BY WrittenInto
<1> HIDE DEF t, u
<1>3. /\ v \in Seq(Bytes) /\ Len(v) = w + Len(d) - r
      /\ \A i \in 1..(w + Len(d) - r) : v[i] = t[r + i]
  <2>1. w + Len(d) \in Nat /\ r <= w + Len(d) /\ w + Len(d) <= Len(t)
    BY <1>0, <1>2
  <2> HIDE DEF v
  <2> QED BY <1>2, <2>1, Between DEF v
<1> HIDE DEF v
<1>4. /\ u \o d \in Seq(Bytes) /\ Len(u \o d) = w - r + Len(d)
      /\ \A i \in 1..(w - r + Len(d)) : (u \o d)[i] = IF i <= w - r THEN u[i] ELSE d[i - (w - r)]
  <2>1. /\ u \o d \in Seq(Bytes) /\ Len(u \o d) = Len(u) + Len(d)
        /\ \A i \in 1..(Len(u) + Len(d)) : (u \o d)[i] = IF i <= Len(u) THEN u[i] ELSE d[i - Len(u)]
    BY <1>1, ConcatProperties
  <2> QED BY <1>1, <2>1
<1>5. \A i \in 1..(w - r + Len(d)) : v[i] = (u \o d)[i]
  <2> SUFFICES ASSUME NEW i \in 1..(w - r + Len(d)) PROVE v[i] = (u \o d)[i]
    OBVIOUS
  <2>1. PICK p : p = r + i
    OBVIOUS
  <2>2. v[i] = t[p] /\ p \in 1..Len(s) /\ i \in Nat
    BY <1>0, <1>3, <2>1
  <2>3. CASE i <= w - r
    <3>1. p - w \notin 1..Len(d) /\ i \in 1..(w - r)
      BY <1>0, <2>1, <2>2, <2>3
    <3>2. t[p] = s[p] /\ u[i] = s[p]
      BY <1>1, <1>2, <2>1, <2>2, <3>1
    <3> QED BY <1>4, <2>2, <2>3, <3>2
  <2>4. CASE ~(i <= w - r)
    <3>1. p - w \in 1..Len(d) /\ i - (w - r) = p - w
      BY <1>0, <2>1, <2>2, <2>4
    <3>2. (u \o d)[i] = d[i - (w - r)]
      BY <1>4, <2>4
    <3>3. t[p] = d[p - w]
      BY <1>2, <2>2, <3>1
    <3> QED BY <2>2, <3>1, <3>2, <3>3
  <2> QED BY <2>3, <2>4
<1>6. w + Len(d) - r = w - r + Len(d)
  BY <1>0
<1>7. v = u \o d
  BY <1>3, <1>4, <1>5, <1>6, SeqEqual
<1> QED BY <1>7 DEF t, u, v

(* The queues that the buffers are, before a step and after it.            *)
Queues == [b \in Buffers |-> Readable(b)]

(* The queue of a buffer is the sequence between its indices.              *)
LEMMA QueuesAre ==
  ASSUME BufTypes, NEW b \in Buffers
  PROVE  /\ Queues[b] = SubSeq(buffer_[b], readerIndex_[b] + 1, writerIndex_[b])
         /\ Queues[b] \in Seq(Bytes) /\ Len(Queues[b]) = readableBytes(b) /\ readableBytes(b) \in Nat
<1>1. Queues[b] = SubSeq(buffer_[b], readerIndex_[b] + 1, writerIndex_[b])
  BY DEF Queues, Readable
<1>2. /\ buffer_[b] \in Seq(Bytes) /\ readerIndex_[b] \in Nat /\ writerIndex_[b] \in Nat
      /\ readerIndex_[b] <= writerIndex_[b] /\ writerIndex_[b] <= Len(buffer_[b])
  BY DEF BufTypes
<1>3. PICK s, r, w : s = buffer_[b] /\ r = readerIndex_[b] /\ w = writerIndex_[b]
  OBVIOUS
<1>4. SubSeq(s, r + 1, w) \in Seq(Bytes) /\ Len(SubSeq(s, r + 1, w)) = w - r /\ w - r \in Nat
  <2>1. s \in Seq(Bytes) /\ r \in Nat /\ w \in Nat /\ r <= w /\ w <= Len(s)
    BY <1>2, <1>3
  <2> QED BY <2>1, Between
<1> QED BY <1>1, <1>3, <1>4 DEF readableBytes

(* Retrieving takes bytes off the front, resetting the indices included.   *)
LEMMA RetrievedTakes ==
  ASSUME BufTypes, NEW b \in Buffers, NEW len \in 0..readableBytes(b), Retrieved(b, len)
  PROVE  /\ BufTypes'
         /\ Queues' = [Queues EXCEPT ![b] = SubSeq(Queues[b], len + 1, Len(Queues[b]))]
<1> DEFINE s == buffer_[b]
           r == readerIndex_[b]
           w == writerIndex_[b]
<1>0. /\ s \in Seq(Bytes) /\ r \in Nat /\ w \in Nat /\ r <= w /\ w <= Len(s)
      /\ Len(s) \in Nat /\ kCheapPrepend <= Len(s) /\ kCheapPrepend \in Nat
      /\ readableBytes(b) = w - r /\ len \in Nat /\ len <= w - r
  BY BufferAssumption DEF BufTypes, readableBytes
<1>1. Queues[b] = SubSeq(s, r + 1, w) /\ Len(Queues[b]) = w - r
  BY <1>0, QueuesAre
<1>2. CASE len < readableBytes(b)
  <2>1. /\ readerIndex_' = [readerIndex_ EXCEPT ![b] = r + len]
        /\ UNCHANGED <<buffer_, writerIndex_>>
    BY <1>2 DEF Retrieved, retrieveAll
  <2>2. r + len \in Nat /\ r + len <= w
    BY <1>0
  <2>3. BufTypes'
    BY <2>1, <2>2 DEF BufTypes
  <2>4. SubSeq(s, r + len + 1, w) = SubSeq(SubSeq(s, r + 1, w), len + 1, w - r)
    <3>1. w - r \in Nat /\ r + (w - r) = w
      BY <1>0
    <3> HIDE DEF s, r, w
    <3> QED BY <1>0, <3>1, PartOfReadable
  <2>5. Queues'[b] = SubSeq(s, r + len + 1, w)
    BY <2>1 DEF Queues, Readable, BufTypes
  <2>6. \A c \in Buffers \ {b} : Queues'[c] = Queues[c]
    BY <2>1 DEF Queues, Readable, BufTypes
  <2>7. Queues' = [c \in Buffers |-> Queues'[c]] /\ Queues = [c \in Buffers |-> Queues[c]]
    BY DEF Queues
  <2> HIDE DEF s, r, w
  <2> QED BY <1>1, <2>3, <2>4, <2>5, <2>6, <2>7
<1>3. CASE len = readableBytes(b) /\ retrieveAll(b)
  <2>1. /\ readerIndex_' = [readerIndex_ EXCEPT ![b] = kCheapPrepend]
        /\ writerIndex_' = [writerIndex_ EXCEPT ![b] = kCheapPrepend]
        /\ UNCHANGED buffer_
    BY <1>3 DEF retrieveAll
  <2>2. BufTypes'
    BY <1>0, <2>1 DEF BufTypes
  <2>3. SubSeq(s, kCheapPrepend + 1, kCheapPrepend) = <<>> /\ SubSeq(Queues[b], len + 1, w - r) = <<>>
    BY <1>0, <1>3, SubSeqEmpty
  <2>4. Queues'[b] = SubSeq(s, kCheapPrepend + 1, kCheapPrepend)
    BY <2>1 DEF Queues, Readable, BufTypes
  <2>5. \A c \in Buffers \ {b} : Queues'[c] = Queues[c]
    BY <2>1 DEF Queues, Readable, BufTypes
  <2>6. Queues' = [c \in Buffers |-> Queues'[c]] /\ Queues = [c \in Buffers |-> Queues[c]]
    BY DEF Queues
  <2> HIDE DEF s, r, w
  <2> QED BY <1>1, <2>2, <2>3, <2>4, <2>5, <2>6
<1> QED BY <1>2, <1>3 DEF Retrieved

(* Appending puts bytes at the end, over what was there in the array.      *)
LEMMA AppendPuts ==
  ASSUME BufTypes, NEW b \in Buffers, NEW data \in Chunks, BufferAppend(b, data)
  PROVE  BufTypes' /\ Queue!Put(b, data)
<1> DEFINE s == buffer_[b]
           r == readerIndex_[b]
           w == writerIndex_[b]
           t == Written(s, w, data)
<1>0. /\ s \in Seq(Bytes) /\ r \in Nat /\ w \in Nat /\ r <= w
      /\ data \in Seq(Bytes) /\ w + Len(data) <= Len(s)
  BY BufferAssumption DEF BufTypes, BufferAppend, writableBytes
<1>1. /\ buffer_' = [buffer_ EXCEPT ![b] = t]
      /\ writerIndex_' = [writerIndex_ EXCEPT ![b] = w + Len(data)]
      /\ UNCHANGED <<readerIndex_, taken>>
  BY DEF BufferAppend, Written
<1>2. t \in Seq(Bytes) /\ Len(t) = Len(s)
  <2> HIDE DEF s, w
  <2> QED BY <1>0, WrittenInto
<1>3. PICK n : n = w + Len(data)
  OBVIOUS
<1> HIDE DEF t
<1>4. BufTypes'
  <2>1. /\ buffer_' \in [Buffers -> Seq(Bytes)]
        /\ \A c \in Buffers : Len(buffer_'[c]) = Len(buffer_[c])
    BY <1>1, <1>2 DEF BufTypes
  <2>2. n \in Nat /\ r <= n /\ n <= Len(s)
    <3>1. Len(data) \in Nat
      BY <1>0
    <3> QED BY <1>0, <1>3, <3>1
  <2>3. /\ writerIndex_' \in [Buffers -> Nat]
        /\ \A c \in Buffers : readerIndex_[c] <= writerIndex_'[c] /\ writerIndex_'[c] <= Len(buffer_[c])
    BY <1>1, <1>3, <2>2 DEF BufTypes
  <2> QED BY <1>1, <2>1, <2>3 DEF BufTypes
<1>5. Queues'[b] = SubSeq(s, r + 1, w) \o data /\ Queues[b] = SubSeq(s, r + 1, w)
  <2>1. buffer_'[b] = t /\ readerIndex_'[b] = r /\ writerIndex_'[b] = w + Len(data)
    BY <1>1 DEF BufTypes
  <2>2. SubSeq(t, r + 1, w + Len(data)) = SubSeq(s, r + 1, w) \o data
    <3> HIDE DEF s, r, w
    <3> QED BY <1>0, ReadableAppended DEF t
  <2> QED BY <2>1, <2>2 DEF Queues, Readable
<1>6. \A c \in Buffers \ {b} : Queues'[c] = Queues[c]
  BY <1>1 DEF Queues, Readable, BufTypes
<1>7. Queues' = [c \in Buffers |-> Queues'[c]] /\ Queues = [c \in Buffers |-> Queues[c]]
  BY DEF Queues
<1>8. Queues' = [Queues EXCEPT ![b] = Queues[b] \o data]
  <2> HIDE DEF s, r, w, t
  <2> QED BY <1>5, <1>6, <1>7
<1> QED BY <1>1, <1>4, <1>8 DEF Queues, Queue!Put

(* Unwriting takes bytes back from the end.                                *)
LEMMA UnwriteTakesBack ==
  ASSUME BufTypes, NEW b \in Buffers, Unwrite(b)
  PROVE  BufTypes' /\ Queue!TakeBack(b)
<1> DEFINE s == buffer_[b]
           r == readerIndex_[b]
           w == writerIndex_[b]
<1>0. /\ s \in Seq(Bytes) /\ r \in Nat /\ w \in Nat /\ r <= w /\ w <= Len(s)
      /\ Len(s) \in Nat /\ readableBytes(b) = w - r
  BY DEF BufTypes, readableBytes
<1>1. PICK len \in 0..readableBytes(b) : writerIndex_' = [writerIndex_ EXCEPT ![b] = w - len]
  BY DEF Unwrite
<1>2. UNCHANGED <<buffer_, readerIndex_, taken>>
  BY DEF Unwrite
<1>3. /\ w - len \in Nat /\ r <= w - len /\ w - len <= Len(s)
      /\ w - r - len \in Nat /\ w - r - len \in 0..(w - r) /\ r + (w - r - len) = w - len
      /\ w - r - len <= w - r
  BY <1>0, <1>1
<1>4. BufTypes'
  BY <1>1, <1>2, <1>3 DEF BufTypes
<1>5. Queues[b] = SubSeq(s, r + 1, w) /\ Len(Queues[b]) = w - r
  BY <1>0, QueuesAre
<1>6. SubSeq(s, r + 1, w - len) = SubSeq(SubSeq(s, r + 1, w), 1, w - r - len)
  <2> HIDE DEF s, r, w
  <2>1. 0 \in Nat /\ 0 <= w - r - len /\ r + 0 + 1 = r + 1 /\ 0 + 1 = 1
    BY <1>0, <1>3
  <2>2. SubSeq(SubSeq(s, r + 1, w), 0 + 1, w - r - len) = SubSeq(s, r + 0 + 1, r + (w - r - len))
    BY <1>0, <1>3, <2>1, PartOfReadable
  <2> QED BY <1>3, <2>1, <2>2
<1>7. Queues'[b] = SubSeq(s, r + 1, w - len)
  BY <1>1, <1>2 DEF Queues, Readable, BufTypes
<1>8. \A c \in Buffers \ {b} : Queues'[c] = Queues[c]
  BY <1>1, <1>2 DEF Queues, Readable, BufTypes
<1>9. Queues' = [c \in Buffers |-> Queues'[c]] /\ Queues = [c \in Buffers |-> Queues[c]]
  BY DEF Queues
<1>10. Queues' = [Queues EXCEPT ![b] = SubSeq(Queues[b], 1, w - r - len)]
  <2> HIDE DEF s, r, w
  <2> QED BY <1>5, <1>6, <1>7, <1>8, <1>9
<1>11. w - r - len \in 0..Len(Queues[b])
  BY <1>3, <1>5
<1> QED BY <1>2, <1>4, <1>10, <1>11 DEF Queues, Queue!TakeBack

(* Swapping exchanges two queues, or one with itself.                      *)
LEMMA SwapExchanges ==
  ASSUME BufTypes, NEW b \in Buffers, NEW c \in Buffers, Swap(b, c)
  PROVE  BufTypes' /\ Queue!Exchange(b, c)
<1>1. /\ buffer_' = [buffer_ EXCEPT ![b] = buffer_[c], ![c] = buffer_[b]]
      /\ readerIndex_' = [readerIndex_ EXCEPT ![b] = readerIndex_[c], ![c] = readerIndex_[b]]
      /\ writerIndex_' = [writerIndex_ EXCEPT ![b] = writerIndex_[c], ![c] = writerIndex_[b]]
      /\ UNCHANGED taken
  BY DEF Swap, Swapped
<1> DEFINE other(a) == IF a = c THEN b ELSE IF a = b THEN c ELSE a
<1>2. \A a \in Buffers :
        /\ other(a) \in Buffers /\ buffer_'[a] = buffer_[other(a)]
        /\ readerIndex_'[a] = readerIndex_[other(a)] /\ writerIndex_'[a] = writerIndex_[other(a)]
  BY <1>1 DEF BufTypes
<1>3. BufTypes'
  <2>1. /\ buffer_' \in [Buffers -> Seq(Bytes)]
        /\ readerIndex_' \in [Buffers -> Nat]
        /\ writerIndex_' \in [Buffers -> Nat]
    BY <1>1 DEF BufTypes
  <2> HIDE DEF other
  <2> QED BY <1>2, <2>1 DEF BufTypes
<1>4. \A a \in Buffers : Queues'[a] = Queues[other(a)]
  <2> HIDE DEF other
  <2> QED BY <1>2 DEF Queues, Readable
<1>5. Queues' = [a \in Buffers |-> Queues'[a]] /\ Queues = [a \in Buffers |-> Queues[a]]
  BY DEF Queues
<1>6. Queues' = [Queues EXCEPT ![b] = Queues[c], ![c] = Queues[b]]
  BY <1>4, <1>5
<1> QED BY <1>1, <1>3, <1>6 DEF Queues, Queue!Exchange

(* Every operation keeps the indices in order, and takes from the queues   *)
(* and puts into them what it should.                                      *)
LEMMA BufferStep ==
  ASSUME BufTypes, [BufNext]_bufVars
  PROVE  BufTypes' /\ [Queue!Next]_(Queue!vars)
<1>1. ASSUME NEW b \in Buffers, NEW len \in 0..readableBytes(b), Retrieved(b, len), UNCHANGED taken
      PROVE  BufTypes' /\ Queue!Skip(b)
  BY <1>1, RetrievedTakes, QueuesAre DEF Queues, Queue!Skip
<1>2. ASSUME NEW b \in Buffers, NEW len \in 0..readableBytes(b), Retrieved(b, len),
             taken' = SubSeq(Readable(b), 1, len)
      PROVE  BufTypes' /\ Queue!Take(b)
  BY <1>2, RetrievedTakes, QueuesAre DEF Queues, Queue!Take
<1>3. ASSUME NEW b \in Buffers, RetrieveAll(b)
      PROVE  BufTypes' /\ Queue!Skip(b)
  <2>1. readableBytes(b) \in 0..readableBytes(b)
    BY QueuesAre
  <2>2. Retrieved(b, readableBytes(b)) /\ UNCHANGED taken
    BY <1>3 DEF RetrieveAll, Retrieved
  <2> QED BY <1>1, <2>1, <2>2
<1>4. ASSUME NEW b \in Buffers, RetrieveAllAsString(b)
      PROVE  BufTypes' /\ Queue!Take(b)
  <2>1. readableBytes(b) \in 0..readableBytes(b)
    BY QueuesAre
  <2>2. Readable(b) = SubSeq(Readable(b), 1, readableBytes(b))
    <3>1. Queues[b] = Readable(b)
      BY DEF Queues
    <3> QED BY <3>1, QueuesAre, SubSeqFull
  <2> QED BY <1>2, <1>4, <2>1, <2>2 DEF RetrieveAllAsString
<1>5. ASSUME NEW b \in Buffers, RetrieveUntil(b)
      PROVE  BufTypes' /\ Queue!Skip(b)
  <2>1. PICK start \in readerIndex_[b]..writerIndex_[b] :
               \E end \in findCRLF(b, start) \cup findEOL(b, start) : Retrieved(b, end - readerIndex_[b])
    BY <1>5 DEF RetrieveUntil
  <2>2. PICK end \in findCRLF(b, start) \cup findEOL(b, start) : Retrieved(b, end - readerIndex_[b])
    BY <2>1
  <2>3. end \in start..(writerIndex_[b] - 1)
    BY <2>2 DEF findCRLF, findEOL, FirstOf, BufTypes
  <2>4. end - readerIndex_[b] \in 0..readableBytes(b)
    BY <2>1, <2>3 DEF BufTypes, readableBytes
  <2> QED BY <1>1, <1>5, <2>2, <2>4 DEF RetrieveUntil
<1>6. CASE UNCHANGED bufVars
  <2>1. BufTypes'
    BY <1>6 DEF BufTypes, bufVars
  <2>2. UNCHANGED Queue!vars
    BY <1>6 DEF bufVars, Queue!vars, Readable
  <2> QED BY <2>1, <2>2
<1>7. ASSUME NEW b \in Buffers, Retrieve(b) PROVE BufTypes' /\ Queue!Skip(b)
  BY <1>1, <1>7 DEF Retrieve
<1>8. ASSUME NEW b \in Buffers, RetrieveAsString(b) PROVE BufTypes' /\ Queue!Take(b)
  BY <1>2, <1>8 DEF RetrieveAsString
<1> QED BY <1>3, <1>4, <1>5, <1>6, <1>7, <1>8, AppendPuts, UnwriteTakesBack, SwapExchanges
        DEF BufNext, Queue!Next

(* A buffer is a queue of bytes, for any sizes, chunks and number of       *)
(* buffers: resetting the indices when it runs empty, writing over what    *)
(* was taken back and swapping lose, repeat and reorder nothing.           *)
THEOREM BufferIsByteQueue == BufSpec => ImplementsByteQueue
<1>1. BufInit => BufTypes /\ Queue!Init
  <2> SUFFICES ASSUME BufInit PROVE BufTypes /\ Queue!Init
    OBVIOUS
  <2> DEFINE x == CHOOSE y \in Bytes : TRUE
  <2>0. x \in Bytes
    BY BufferAssumption
  <2>1. \A b \in Buffers : kCheapPrepend + initialSize[b] \in Nat /\ kCheapPrepend <= kCheapPrepend + initialSize[b]
    BY BufferAssumption
  <2>2. ASSUME NEW n \in Nat PROVE [p \in 1..n |-> x] \in Seq(Bytes) /\ Len([p \in 1..n |-> x]) = n
    <3> HIDE DEF x
    <3> QED BY <2>0
  <2>3. buffer_ = [b \in Buffers |-> [p \in 1..(kCheapPrepend + initialSize[b]) |-> x]]
    BY DEF BufInit
  <2>4. \A b \in Buffers : buffer_[b] \in Seq(Bytes) /\ Len(buffer_[b]) = kCheapPrepend + initialSize[b]
    <3> HIDE DEF x
    <3> QED BY <2>1, <2>2, <2>3
  <2>5. buffer_ \in [Buffers -> Seq(Bytes)]
    <3> HIDE DEF x
    <3> QED BY <2>3, <2>4
  <2>6. BufTypes
    BY <2>1, <2>4, <2>5, BufferAssumption DEF BufInit, BufTypes
  <2>7. \A b \in Buffers : Readable(b) = <<>>
    BY BufferAssumption, SubSeqEmpty DEF BufInit, Readable
  <2>8. taken = <<>>
    BY DEF BufInit
  <2> QED BY <2>6, <2>7, <2>8 DEF Queue!Init
<1>2. BufTypes /\ [BufNext]_bufVars => BufTypes' /\ [Queue!Next]_(Queue!vars)
  BY BufferStep
<1> QED BY <1>1, <1>2, PTL DEF BufSpec, ImplementsByteQueue, Queue!Spec

------------------------------------------------------------------------------
(* util/lru_cache.h                                                        *)

(* What a node holds.                                                      *)
Entries == [key : Keys, value : Values]

(* What the list, the nodes and the map of a cache are to each other: the  *)
(* list names each of its nodes once, and the map leads from a key to the  *)
(* node of its entry and to no other.                                      *)
Fits(l, e, m) ==
  /\ l \in Seq(Nodes)
  /\ \A i, j \in 1..Len(l) : l[i] = l[j] => i = j
  /\ \A i \in 1..Len(l) : e[l[i]] \in Entries /\ m[e[l[i]].key] = l[i]
  /\ m \in [Keys -> Nodes \cup {NoNode}]
  /\ \A k \in Keys : m[k] # NoNode => \E i \in 1..Len(l) : l[i] = m[k] /\ e[l[i]].key = k

(* The entries in the order of the list.                                   *)
Order(l, e) == [i \in 1..Len(l) |-> e[l[i]]]

(* In that order there is an entry per node, and one per key.              *)
LEMMA OrderIs ==
  ASSUME NEW l, NEW e, NEW m, Fits(l, e, m)
  PROVE  /\ Len(l) \in Nat /\ Order(l, e) \in Seq(Entries) /\ Len(Order(l, e)) = Len(l)
         /\ \A i \in 1..Len(l) : Order(l, e)[i] = e[l[i]] /\ l[i] \in Nodes /\ e[l[i]] \in Entries
         /\ \A i, j \in 1..Len(l) : e[l[i]].key = e[l[j]].key => i = j
<1>1. Len(l) \in Nat /\ \A i \in 1..Len(l) : l[i] \in Nodes
  BY ElementOfSeq, LenProperties DEF Fits
<1>2. Order(l, e) \in [1..Len(l) -> Entries] /\ \A i \in 1..Len(l) : Order(l, e)[i] = e[l[i]]
  BY DEF Fits, Order
<1>3. Order(l, e) \in Seq(Entries) /\ Len(Order(l, e)) = Len(l)
  BY <1>1, <1>2
<1>4. \A i, j \in 1..Len(l) : e[l[i]].key = e[l[j]].key => i = j
  BY DEF Fits
<1> QED BY <1>1, <1>2, <1>3, <1>4 DEF Fits

(* There are as many keys in the map as nodes in the list.                 *)
LEMMA MapSize ==
  ASSUME NEW l, NEW e, NEW m, Fits(l, e, m)
  PROVE  Cardinality(Present(m)) = Len(l)
<1> DEFINE f == [i \in 1..Len(l) |-> e[l[i]].key]
<1>1. Len(l) \in Nat
  BY OrderIs
<1>2. \A i \in 1..Len(l) : f[i] \in Present(m)
  <2> SUFFICES ASSUME NEW i \in 1..Len(l) PROVE f[i] \in Present(m)
    OBVIOUS
  <2>1. l[i] \in Nodes /\ e[l[i]].key \in Keys /\ m[e[l[i]].key] = l[i]
    BY OrderIs DEF Fits, Entries
  <2> QED BY <2>1, LruAssumption DEF Present
<1>3. f \in Injection(1..Len(l), Present(m))
  <2>1. \A i, j \in 1..Len(l) : f[i] = f[j] => i = j
    BY OrderIs
  <2> QED BY <1>2, <2>1 DEF Injection, IsInjective
<1>4. f \in Surjection(1..Len(l), Present(m))
  <2>1. \A k \in Present(m) : \E i \in 1..Len(l) : f[i] = k
    BY DEF Fits, Present
  <2> QED BY <1>2, <2>1 DEF Surjection
<1>5. ExistsBijection(1..Len(l), Present(m))
  BY <1>3, <1>4 DEF ExistsBijection, Bijection
<1> QED BY <1>1, <1>5, FS_CountingElements

(* Erasing the node of a key's entry removes that entry.                   *)
Unlisted(l, e, m, key) ==
  /\ Fits(Erased(l, m[key]), e, [m EXCEPT ![key] = NoNode])
  /\ \E i \in 1..Len(l) :
       /\ e[l[i]].key = key /\ l[i] = m[key]
       /\ Order(Erased(l, m[key]), e) = RemoveAt(Order(l, e), i)
       /\ \A j \in 1..Len(Erased(l, m[key])) : e[Erased(l, m[key])[j]].key # key

(* It leaves the cache consistent.                                         *)
LEMMA ErasedFits ==
  ASSUME NEW l, NEW e, NEW m, Fits(l, e, m), NEW key \in Keys, m[key] # NoNode
  PROVE  Unlisted(l, e, m, key)
<1>0. Len(l) \in Nat /\ l \in Seq(Nodes) /\ \A i, j \in 1..Len(l) : l[i] = l[j] => i = j
  BY OrderIs DEF Fits
<1>1. PICK i \in 1..Len(l) : l[i] = m[key] /\ e[l[i]].key = key
  BY DEF Fits
<1>2. (CHOOSE j \in 1..Len(l) : l[j] = m[key]) = i
  BY <1>0, <1>1
<1>3. PICK r : r = RemoveAt(l, i)
  OBVIOUS
<1>4. Erased(l, m[key]) = r
  BY <1>2, <1>3 DEF Erased
<1>5. /\ r \in Seq(Nodes) /\ Len(r) = Len(l) - 1
      /\ \A j \in 1..(Len(l) - 1) : r[j] = IF j < i THEN l[j] ELSE l[j + 1]
  BY <1>0, <1>3, RemoveAtIs
<1> DEFINE from(j) == IF j < i THEN j ELSE j + 1
           m2 == [m EXCEPT ![key] = NoNode]
<1>6. \A j \in 1..(Len(l) - 1) : from(j) \in 1..Len(l) /\ from(j) # i /\ r[j] = l[from(j)]
  BY <1>0, <1>5
<1>7. \A j \in 1..Len(l) : j # i => \E k \in 1..(Len(l) - 1) : from(k) = j
  <2> SUFFICES ASSUME NEW j \in 1..Len(l), j # i PROVE \E k \in 1..(Len(l) - 1) : from(k) = j
    OBVIOUS
  <2>1. CASE j < i
    <3>1. j \in 1..(Len(l) - 1) /\ from(j) = j
      BY <1>0, <2>1
    <3> QED BY <3>1
  <2>2. CASE ~(j < i)
    <3>1. j - 1 \in 1..(Len(l) - 1) /\ ~(j - 1 < i) /\ (j - 1) + 1 = j
      BY <1>0, <2>2
    <3>2. from(j - 1) = j
      BY <3>1
    <3> QED BY <3>1, <3>2
  <2> QED BY <2>1, <2>2
<1>8. \A j, k \in 1..(Len(l) - 1) : from(j) = from(k) => j = k
  BY <1>0
<1>9. \A j \in 1..Len(l) : l[j] \in Nodes /\ e[l[j]] \in Entries /\ m[e[l[j]].key] = l[j]
  BY OrderIs DEF Fits
<1>10. \A j \in 1..Len(l) : j # i => e[l[j]].key # key
  BY <1>1, OrderIs
<1>11. Fits(r, e, m2)
  <2>1. \A j, k \in 1..Len(r) : r[j] = r[k] => j = k
    <3> HIDE DEF from
    <3> QED BY <1>0, <1>5, <1>6, <1>8
  <2>2. \A j \in 1..Len(r) : e[r[j]] \in Entries /\ m2[e[r[j]].key] = r[j]
    <3> SUFFICES ASSUME NEW j \in 1..Len(r) PROVE e[r[j]] \in Entries /\ m2[e[r[j]].key] = r[j]
      OBVIOUS
    <3>1. PICK k \in 1..Len(l) : k # i /\ r[j] = l[k]
      <4> HIDE DEF from
      <4> QED BY <1>5, <1>6
    <3>2. e[l[k]].key # key /\ e[l[k]].key \in Keys /\ e[l[k]] \in Entries /\ m[e[l[k]].key] = l[k]
      BY <1>9, <1>10, <3>1 DEF Entries
    <3> QED BY <3>1, <3>2 DEF Fits
  <2>3. m2 \in [Keys -> Nodes \cup {NoNode}]
    BY DEF Fits
  <2>4. \A k \in Keys : m2[k] # NoNode => \E j \in 1..Len(r) : r[j] = m2[k] /\ e[r[j]].key = k
    <3> SUFFICES ASSUME NEW k \in Keys, m2[k] # NoNode
                 PROVE  \E j \in 1..Len(r) : r[j] = m2[k] /\ e[r[j]].key = k
      OBVIOUS
    <3>1. k # key /\ m2[k] = m[k]
      BY DEF Fits
    <3>2. PICK h \in 1..Len(l) : l[h] = m[k] /\ e[l[h]].key = k
      BY <3>1 DEF Fits
    <3>3. h # i
      BY <1>1, <3>1, <3>2
    <3> HIDE DEF from, m2
    <3>4. PICK j \in 1..(Len(l) - 1) : from(j) = h
      BY <1>7, <3>3
    <3>5. r[j] = l[h] /\ j \in 1..Len(r)
      BY <1>5, <1>6, <3>4
    <3> QED BY <3>1, <3>2, <3>5
  <2> HIDE DEF m2
  <2> QED BY <1>5, <2>1, <2>2, <2>3, <2>4 DEF Fits
<1>12. Order(r, e) = RemoveAt(Order(l, e), i)
  <2>1. /\ Order(l, e) \in Seq(Entries) /\ Len(Order(l, e)) = Len(l)
        /\ \A j \in 1..Len(l) : Order(l, e)[j] = e[l[j]]
    BY OrderIs
  <2>2. /\ RemoveAt(Order(l, e), i) \in Seq(Entries) /\ Len(RemoveAt(Order(l, e), i)) = Len(l) - 1
        /\ \A j \in 1..(Len(l) - 1) :
             RemoveAt(Order(l, e), i)[j] = IF j < i THEN Order(l, e)[j] ELSE Order(l, e)[j + 1]
    <3>1. i \in 1..Len(Order(l, e))
      BY <2>1
    <3> QED BY <2>1, <3>1, RemoveAtIs
  <2>3. \A j \in 1..(Len(l) - 1) : RemoveAt(Order(l, e), i)[j] = e[l[from(j)]]
    BY <1>0, <1>6, <2>1, <2>2
  <2>4. /\ Order(r, e) \in Seq(Entries) /\ Len(Order(r, e)) = Len(r)
        /\ \A j \in 1..Len(r) : Order(r, e)[j] = e[r[j]]
    BY <1>11, OrderIs
  <2>5. \A j \in 1..(Len(l) - 1) : RemoveAt(Order(l, e), i)[j] = Order(r, e)[j]
    <3> HIDE DEF from
    <3> QED BY <1>5, <1>6, <2>3, <2>4
  <2> QED BY <1>5, <2>2, <2>4, <2>5, SeqEqual
<1>13. \A j \in 1..Len(r) : e[r[j]].key # key
  <2> HIDE DEF from
  <2> QED BY <1>5, <1>6, <1>10
<1> QED BY <1>1, <1>4, <1>11, <1>12, <1>13 DEF Unlisted

(* Pushing a new entry to the front and entering it into the map.          *)
Listed(l, e, m, key, value, n) ==
  LET x == [key |-> key, value |-> value]
      e2 == [e EXCEPT ![n] = x]
  IN  /\ Fits(<<n>> \o l, e2, [m EXCEPT ![key] = n])
      /\ Order(<<n>> \o l, e2) = <<x>> \o Order(l, e)

(* It leaves the cache consistent if the key was not in the map and the    *)
(* node is not in the list.                                                *)
LEMMA PushedFits ==
  ASSUME NEW l, NEW e, NEW m, Fits(l, e, m), NEW key \in Keys, NEW value \in Values,
         m[key] = NoNode, e = [n \in Nodes |-> e[n]], NEW n \in Nodes \ NodesIn(l)
  PROVE  Listed(l, e, m, key, value, n)
<1> DEFINE x == [key |-> key, value |-> value]
           e2 == [e EXCEPT ![n] = x]
           m2 == [m EXCEPT ![key] = n]
<1>0. /\ Len(l) \in Nat /\ l \in Seq(Nodes) /\ x \in Entries /\ x.key = key
      /\ \A i \in 1..Len(l) : l[i] # n /\ l[i] \in Nodes
  BY OrderIs DEF Fits, Entries, NodesIn
<1>1. PICK p : p = <<n>> \o l
  OBVIOUS
<1>2. /\ p \in Seq(Nodes) /\ Len(p) = Len(l) + 1 /\ p[1] = n
      /\ \A j \in 1..Len(l) : p[j + 1] = l[j]
  BY <1>0, <1>1, PushIs
<1>3. e2[n] = x /\ \A i \in 1..Len(l) : e2[l[i]] = e[l[i]]
  BY <1>0
<1>4. m2[key] = n /\ (\A k \in Keys : k # key => m2[k] = m[k]) /\ m2 \in [Keys -> Nodes \cup {NoNode}]
  BY DEF Fits
<1>5. \A j \in 1..Len(p) : j = 1 \/ \E i \in 1..Len(l) : j = i + 1 /\ p[j] = l[i]
  <2> SUFFICES ASSUME NEW j \in 1..Len(p), j # 1 PROVE \E i \in 1..Len(l) : j = i + 1 /\ p[j] = l[i]
    OBVIOUS
  <2>1. j - 1 \in 1..Len(l) /\ (j - 1) + 1 = j
    BY <1>0, <1>2
  <2> QED BY <1>2, <2>1
<1>6. \A i \in 1..Len(l) : /\ e[l[i]] \in Entries /\ e[l[i]].key \in Keys /\ m[e[l[i]].key] = l[i]
                            /\ e[l[i]].key # key
  <2> SUFFICES ASSUME NEW i \in 1..Len(l)
               PROVE  /\ e[l[i]] \in Entries /\ e[l[i]].key \in Keys /\ m[e[l[i]].key] = l[i]
                      /\ e[l[i]].key # key
    OBVIOUS
  <2>1. e[l[i]] \in Entries /\ m[e[l[i]].key] = l[i]
    BY DEF Fits
  <2> QED BY <1>0, <2>1, LruAssumption DEF Entries
<1>7. 1 \in 1..Len(p) /\ \A i \in 1..Len(l) : i + 1 \in 1..Len(p)
  BY <1>0, <1>2
<1> HIDE DEF x, e2, m2
<1>8. Fits(p, e2, m2)
  <2>1. \A i, j \in 1..Len(p) : p[i] = p[j] => i = j
    <3>1. \A i, j \in 1..Len(l) : l[i] = l[j] => i = j
      BY DEF Fits
    <3> QED BY <1>0, <1>2, <1>5, <3>1
  <2>2. \A i \in 1..Len(p) : e2[p[i]] \in Entries /\ m2[e2[p[i]].key] = p[i]
    <3> SUFFICES ASSUME NEW i \in 1..Len(p) PROVE e2[p[i]] \in Entries /\ m2[e2[p[i]].key] = p[i]
      OBVIOUS
    <3>1. CASE i = 1
      BY <1>0, <1>2, <1>3, <1>4, <3>1
    <3>2. CASE i # 1
      <4>1. PICK j \in 1..Len(l) : p[i] = l[j]
        BY <1>5, <3>2
      <4> QED BY <1>3, <1>4, <1>6, <4>1
    <3> QED BY <3>1, <3>2
  <2>3. \A k \in Keys : m2[k] # NoNode => \E i \in 1..Len(p) : p[i] = m2[k] /\ e2[p[i]].key = k
    <3> SUFFICES ASSUME NEW k \in Keys, m2[k] # NoNode
                 PROVE  \E i \in 1..Len(p) : p[i] = m2[k] /\ e2[p[i]].key = k
      OBVIOUS
    <3>1. CASE k = key
      BY <1>0, <1>2, <1>3, <1>4, <1>7, <3>1
    <3>2. CASE k # key
      <4>1. PICK i \in 1..Len(l) : l[i] = m[k] /\ e[l[i]].key = k
        BY <1>4, <3>2 DEF Fits
      <4>2. p[i + 1] = l[i] /\ i + 1 \in 1..Len(p)
        BY <1>2, <1>7
      <4> QED BY <1>3, <1>4, <3>2, <4>1, <4>2
    <3> QED BY <3>1, <3>2
  <2> QED BY <1>2, <1>4, <2>1, <2>2, <2>3 DEF Fits
<1>9. Order(p, e2) = <<x>> \o Order(l, e)
  <2>1. /\ Order(p, e2) \in Seq(Entries) /\ Len(Order(p, e2)) = Len(p)
        /\ \A i \in 1..Len(p) : Order(p, e2)[i] = e2[p[i]]
    BY <1>8, OrderIs
  <2>2. /\ Order(l, e) \in Seq(Entries) /\ Len(Order(l, e)) = Len(l)
        /\ \A i \in 1..Len(l) : Order(l, e)[i] = e[l[i]]
    BY OrderIs
  <2>3. PICK q : q = <<x>> \o Order(l, e)
    OBVIOUS
  <2>4. /\ q \in Seq(Entries) /\ Len(q) = Len(l) + 1 /\ q[1] = x
        /\ \A j \in 1..Len(l) : q[j + 1] = Order(l, e)[j]
    <3>1. PICK s : s = Order(l, e)
      OBVIOUS
    <3>2. /\ <<x>> \o s \in Seq(Entries) /\ Len(<<x>> \o s) = Len(s) + 1 /\ (<<x>> \o s)[1] = x
          /\ \A j \in 1..Len(s) : (<<x>> \o s)[j + 1] = s[j]
      BY <1>0, <2>2, <3>1, PushIs
    <3> QED BY <2>2, <2>3, <3>1, <3>2
  <2>5. \A i \in 1..Len(p) : Order(p, e2)[i] = q[i]
    <3> SUFFICES ASSUME NEW i \in 1..Len(p) PROVE e2[p[i]] = q[i]
      BY <2>1
    <3>1. CASE i = 1
      BY <1>2, <1>3, <2>4, <3>1
    <3>2. CASE i # 1
      <4>1. PICK j \in 1..Len(l) : i = j + 1 /\ p[i] = l[j]
        BY <1>5, <3>2
      <4> QED BY <1>3, <2>2, <2>4, <4>1
    <3> QED BY <3>1, <3>2
  <2> QED BY <1>2, <2>1, <2>3, <2>4, <2>5, SeqEqual
<1> QED BY <1>1, <1>8, <1>9 DEF Listed, x, e2, m2

(* Popping the last entry and taking it out of the map.                    *)
LEMMA PoppedFits ==
  ASSUME NEW l, NEW e, NEW m, Fits(l, e, m), l # <<>>
  PROVE  LET n == Len(l)
         IN  /\ Fits(SubSeq(l, 1, n - 1), e, [m EXCEPT ![e[l[n]].key] = NoNode])
             /\ Order(SubSeq(l, 1, n - 1), e) = SubSeq(Order(l, e), 1, n - 1)
<1>0. Len(l) \in Nat \ {0} /\ l \in Seq(Nodes)
  BY OrderIs, EmptySeq DEF Fits
<1>1. PICK n : n = Len(l)
  OBVIOUS
<1>2. PICK p : p = SubSeq(l, 1, n - 1)
  OBVIOUS
<1>3. p \in Seq(Nodes) /\ Len(p) = n - 1 /\ \A j \in 1..(n - 1) : p[j] = l[j]
  BY <1>0, <1>1, <1>2, PopIs
<1>4. n \in 1..Len(l) /\ \A j \in 1..(n - 1) : j \in 1..Len(l) /\ j # n
  BY <1>0, <1>1
<1>5. \A j \in 1..Len(l) : j = n \/ j \in 1..(n - 1)
  BY <1>0, <1>1
<1>6. PICK key : key = e[l[n]].key
  OBVIOUS
<1> DEFINE m2 == [m EXCEPT ![key] = NoNode]
<1>7. key \in Keys /\ e[l[n]] \in Entries
  BY <1>4, <1>6, OrderIs DEF Entries
<1>8. m2[key] = NoNode /\ (\A k \in Keys : k # key => m2[k] = m[k]) /\ m2 \in [Keys -> Nodes \cup {NoNode}]
  BY <1>7 DEF Fits
<1> HIDE DEF m2
<1>9. \A j \in 1..(n - 1) : e[l[j]].key # key /\ e[l[j]].key \in Keys /\ e[l[j]] \in Entries
                              /\ m[e[l[j]].key] = l[j]
  <2> SUFFICES ASSUME NEW j \in 1..(n - 1)
               PROVE  e[l[j]].key # key /\ e[l[j]].key \in Keys /\ e[l[j]] \in Entries /\ m[e[l[j]].key] = l[j]
    OBVIOUS
  <2>1. j \in 1..Len(l) /\ j # n
    BY <1>4
  <2>2. e[l[j]] \in Entries /\ m[e[l[j]].key] = l[j] /\ e[l[j]].key # e[l[n]].key
    BY <1>4, <2>1, OrderIs DEF Fits
  <2> QED BY <1>6, <2>2 DEF Entries
<1>10. Fits(p, e, m2)
  <2>1. \A i, j \in 1..Len(p) : p[i] = p[j] => i = j
    BY <1>3, <1>4 DEF Fits
  <2>2. \A i \in 1..Len(p) : e[p[i]] \in Entries /\ m2[e[p[i]].key] = p[i]
    BY <1>3, <1>8, <1>9
  <2>3. \A k \in Keys : m2[k] # NoNode => \E i \in 1..Len(p) : p[i] = m2[k] /\ e[p[i]].key = k
    <3> SUFFICES ASSUME NEW k \in Keys, m2[k] # NoNode
                 PROVE  \E i \in 1..Len(p) : p[i] = m2[k] /\ e[p[i]].key = k
      OBVIOUS
    <3>1. k # key /\ m2[k] = m[k]
      BY <1>8
    <3>2. PICK i \in 1..Len(l) : l[i] = m[k] /\ e[l[i]].key = k
      BY <3>1 DEF Fits
    <3>3. i # n
      BY <1>6, <3>1, <3>2
    <3>4. i \in 1..(n - 1)
      BY <1>5, <3>3
    <3> QED BY <1>3, <3>1, <3>2, <3>4
  <2> QED BY <1>3, <1>8, <2>1, <2>2, <2>3 DEF Fits
<1>11. Order(p, e) = SubSeq(Order(l, e), 1, n - 1)
  <2>1. PICK s : s = Order(l, e)
    OBVIOUS
  <2>2. s \in Seq(Entries) /\ Len(s) = n /\ \A i \in 1..n : s[i] = e[l[i]]
    BY <1>1, <2>1, OrderIs
  <2>3. s # <<>>
    BY <1>0, <1>1, <2>2, EmptySeq
  <2>4. /\ SubSeq(s, 1, n - 1) \in Seq(Entries) /\ Len(SubSeq(s, 1, n - 1)) = n - 1
        /\ \A j \in 1..(n - 1) : SubSeq(s, 1, n - 1)[j] = s[j]
    BY <2>2, <2>3, PopIs
  <2>5. /\ Order(p, e) \in Seq(Entries) /\ Len(Order(p, e)) = n - 1
        /\ \A i \in 1..(n - 1) : Order(p, e)[i] = e[p[i]]
    BY <1>3, <1>10, OrderIs
  <2>6. \A i \in 1..(n - 1) : Order(p, e)[i] = SubSeq(s, 1, n - 1)[i]
    <3>1. \A i \in 1..(n - 1) : i \in 1..n
      BY <1>1, <1>4
    <3> QED BY <1>3, <2>2, <2>4, <2>5, <3>1
  <2> QED BY <2>1, <2>4, <2>5, <2>6, SeqEqual
<1> QED BY <1>1, <1>2, <1>6, <1>10, <1>11 DEF m2

------------------------------------------------------------------------------

(* What carries the refinement: the cache is consistent and within bounds. *)
LruInv == /\ Fits(list, entry, map)
          /\ Len(list) <= max_size
          /\ entry = [n \in Nodes |-> entry[n]]

(* A key is in the map when it has an entry.                               *)
LEMMA KeyThere ==
  ASSUME NEW l, NEW e, NEW m, Fits(l, e, m), NEW key \in Keys
  PROVE  (m[key] # NoNode) <=> (\E i \in 1..Len(l) : e[l[i]].key = key)
<1>1. ASSUME m[key] # NoNode PROVE \E i \in 1..Len(l) : e[l[i]].key = key
  BY <1>1 DEF Fits
<1>2. ASSUME NEW i \in 1..Len(l), e[l[i]].key = key PROVE m[key] # NoNode
  <2>1. m[key] = l[i] /\ l[i] \in Nodes
    BY <1>2, OrderIs DEF Fits
  <2> QED BY <2>1, LruAssumption
<1> QED BY <1>1, <1>2

(* The entries that a key's erasure leaves are those of the other keys.    *)
LEMMA OthersAre ==
  ASSUME Fits(list, entry, map), NEW key \in Keys
  PROVE  /\ Recency!Others(key) = Order(WithoutKey(key), entry)
         /\ Fits(WithoutKey(key), entry, [map EXCEPT ![key] = NoNode])
         /\ Len(WithoutKey(key)) <= Len(list)
<1> DEFINE o == Order(list, entry)
<1>0. /\ Len(list) \in Nat /\ Len(o) = Len(list) /\ o \in Seq(Entries)
      /\ \A i \in 1..Len(list) : o[i] = entry[list[i]]
  BY OrderIs
<1>1. Recency!Places(key) = {i \in 1..Len(o) : o[i].key = key}
  BY DEF Recency!Places, Order
<1>2. Recency!Others(key) = IF Recency!Places(key) = {} THEN o
                            ELSE RemoveAt(o, CHOOSE i \in Recency!Places(key) : TRUE)
  BY DEF Recency!Others, Order, Recency!RemoveAt, RemoveAt
<1> HIDE DEF o
<1>3. Recency!Places(key) = {i \in 1..Len(list) : entry[list[i]].key = key}
  BY <1>0, <1>1
<1>4. CASE map[key] = NoNode
  <2>1. (map[key] # NoNode) <=> (\E i \in 1..Len(list) : entry[list[i]].key = key)
    BY KeyThere
  <2>2a. Recency!Places(key) = {}
    BY <1>3, <1>4, <2>1
  <2>2. WithoutKey(key) = list
    BY <1>4 DEF WithoutKey
  <2>3. [map EXCEPT ![key] = NoNode] = map
    BY <1>4 DEF Fits
  <2> QED BY <1>0, <1>2, <2>2a, <2>2, <2>3 DEF o
<1>5. CASE map[key] # NoNode
  <2>1. PICK w : w = Erased(list, map[key])
    OBVIOUS
  <2>2. WithoutKey(key) = w
    BY <1>5, <2>1 DEF WithoutKey
  <2>2a. Unlisted(list, entry, map, key)
    BY <1>5, ErasedFits
  <2>3. PICK i \in 1..Len(list) : entry[list[i]].key = key /\ Order(w, entry) = RemoveAt(o, i)
    BY <2>1, <2>2a DEF o, Unlisted
  <2>4. Fits(w, entry, [map EXCEPT ![key] = NoNode])
    BY <2>1, <2>2a DEF Unlisted
  <2>5. Recency!Places(key) = {i}
    <3>1. \A j, k \in 1..Len(list) : entry[list[j]].key = entry[list[k]].key => j = k
      BY OrderIs
    <3> QED BY <1>3, <2>3, <3>1
  <2>6. (CHOOSE j \in Recency!Places(key) : TRUE) = i
    BY <2>5
  <2>7. Len(w) <= Len(list)
    <3>1. Len(Order(w, entry)) = Len(w)
      BY <2>4, OrderIs
    <3>2. i \in 1..Len(o)
      BY <1>0
    <3>3. Len(RemoveAt(o, i)) = Len(o) - 1
      BY <1>0, <3>2, RemoveAtIs
    <3> QED BY <1>0, <2>3, <3>1, <3>3
  <2> QED BY <1>2, <2>2, <2>3, <2>4, <2>5, <2>6, <2>7
<1> QED BY <1>4, <1>5

(* The smaller of two numbers.                                             *)
LEMMA SmallerOf ==
  ASSUME NEW a \in Nat, NEW b \in Nat
  PROVE  Recency!Min({a, b}) = IF a <= b THEN a ELSE b
  BY DEF Recency!Min

(* Putting an entry in: the least recently used one goes if need be.       *)
LEMMA PutStep ==
  ASSUME LruInv, NEW key \in Keys, NEW value \in Values, Put(key, value)
  PROVE  LruInv' /\ Recency!Put(key, value)
<1> DEFINE x == [key |-> key, value |-> value]
           w == WithoutKey(key)
           m1 == [map EXCEPT ![key] = NoNode]
<1>0. Fits(list, entry, map) /\ Len(list) <= max_size /\ entry = [n \in Nodes |-> entry[n]]
      /\ max_size \in Nat
  BY LruAssumption DEF LruInv
<1>1. /\ Recency!Others(key) = Order(w, entry)
      /\ Fits(w, entry, m1)
      /\ Len(w) <= Len(list)
  BY <1>0, OthersAre
<1>2. PICK n \in Nodes \ NodesIn(w) :
        LET pushed  == <<n>> \o w
            entered == [map EXCEPT ![key] = n]
            last    == pushed[Len(pushed)]
        IN  /\ entry' = [entry EXCEPT ![n] = x]
            /\ \/ /\ TooMany(entered)
                  /\ list' = SubSeq(pushed, 1, Len(pushed) - 1)
                  /\ map' = [entered EXCEPT ![entry'[last].key] = NoNode]
               \/ /\ ~TooMany(entered)
                  /\ list' = pushed
                  /\ map' = entered
            /\ UNCHANGED answer
  BY DEF Put
<1>3. PICK p, m2 : p = <<n>> \o w /\ m2 = [map EXCEPT ![key] = n]
  OBVIOUS
<1>4. /\ entry' = [entry EXCEPT ![n] = x]
      /\ \/ /\ TooMany(m2)
            /\ list' = SubSeq(p, 1, Len(p) - 1)
            /\ map' = [m2 EXCEPT ![entry'[p[Len(p)]].key] = NoNode]
         \/ /\ ~TooMany(m2)
            /\ list' = p
            /\ map' = m2
      /\ UNCHANGED answer
  BY <1>2, <1>3
<1>5. Fits(p, entry', m2) /\ Order(p, entry') = <<x>> \o Order(w, entry)
  <2>1. m2 = [m1 EXCEPT ![key] = n] /\ m1[key] = NoNode
    BY <1>0, <1>3 DEF Fits
  <2>2. PICK l, e, m : l = w /\ e = entry /\ m = m1
    OBVIOUS
  <2>3. Fits(l, e, m) /\ m[key] = NoNode /\ e = [k \in Nodes |-> e[k]] /\ n \in Nodes \ NodesIn(l)
    BY <1>0, <1>1, <2>1, <2>2
  <2>3a. Listed(l, e, m, key, value, n)
    BY <2>3, PushedFits
  <2>4. /\ Fits(<<n>> \o l, [e EXCEPT ![n] = [key |-> key, value |-> value]], [m EXCEPT ![key] = n])
        /\ Order(<<n>> \o l, [e EXCEPT ![n] = [key |-> key, value |-> value]])
             = <<[key |-> key, value |-> value]>> \o Order(l, e)
    BY <2>3a DEF Listed
  <2>5. entry' = [e EXCEPT ![n] = x] /\ p = <<n>> \o l /\ m2 = [m EXCEPT ![key] = n]
    BY <1>3, <1>4, <2>1, <2>2
  <2>6. Order(l, e) = Order(w, entry)
    BY <2>2
  <2> HIDE DEF w, m1
  <2> QED BY <2>4, <2>5, <2>6
<1>6. PICK used : used = <<x>> \o Order(w, entry)
  OBVIOUS
<1>7. Recency!Use(key, value) = used
  BY <1>1, <1>6 DEF Recency!Use
<1> HIDE DEF x
<1>8. /\ used = Order(p, entry') /\ used \in Seq(Entries) /\ Len(used) = Len(p) /\ Len(p) \in Nat
      /\ TooMany(m2) <=> Len(p) > max_size
  <2>1. Cardinality(Present(m2)) = Len(p)
    BY <1>5, MapSize
  <2>2. PICK e2 : e2 = entry'
    OBVIOUS
  <2>3. Fits(p, e2, m2) /\ used = Order(p, e2)
    BY <1>5, <1>6, <2>2
  <2>4. Len(p) \in Nat /\ Order(p, e2) \in Seq(Entries) /\ Len(Order(p, e2)) = Len(p)
    BY <2>3, OrderIs
  <2>5. TooMany(m2) <=> Len(p) > max_size
    BY <2>1 DEF TooMany
  <2> QED BY <2>2, <2>3, <2>4, <2>5
<1>9. Len(p) = Len(w) + 1 /\ Len(w) \in Nat /\ Len(list) \in Nat
  <2>1. w \in Seq(Nodes) /\ Len(w) \in Nat
    BY <1>1, OrderIs DEF Fits
  <2>2. Len(list) \in Nat
    BY <1>0, OrderIs
  <2> HIDE DEF w
  <2> QED BY <1>3, <2>1, <2>2, PushIs
<1> HIDE DEF w, m1
<1>10. entry' = [k \in Nodes |-> entry'[k]]
  BY <1>0, <1>4
<1>11. CASE TooMany(m2)
  <2>1. Len(p) = max_size + 1
    BY <1>0, <1>1, <1>8, <1>9, <1>11
  <2>2. p # <<>>
    BY <1>0, <2>1
  <2>3. /\ list' = SubSeq(p, 1, Len(p) - 1)
        /\ map' = [m2 EXCEPT ![entry'[p[Len(p)]].key] = NoNode]
    BY <1>4, <1>11
  <2>4. PICK e2 : e2 = entry'
    OBVIOUS
  <2>5. /\ Fits(SubSeq(p, 1, Len(p) - 1), e2, [m2 EXCEPT ![e2[p[Len(p)]].key] = NoNode])
        /\ Order(SubSeq(p, 1, Len(p) - 1), e2) = SubSeq(Order(p, e2), 1, Len(p) - 1)
    BY <1>5, <2>2, <2>4, PoppedFits
  <2>6. Fits(list', entry', map') /\ Order(list', entry') = SubSeq(used, 1, Len(p) - 1)
    BY <1>8, <2>3, <2>4, <2>5
  <2>7. Len(list') = max_size
    <3>1. p \in Seq(Nodes)
      BY <1>5 DEF Fits
    <3> QED BY <1>0, <2>1, <2>2, <2>3, <3>1, PopIs
  <2>8. Recency!Min({max_size, Len(used)}) = Len(p) - 1
    <3>1. Len(used) = max_size + 1
      BY <1>8, <2>1
    <3>2. Recency!Min({max_size, Len(used)}) = IF max_size <= Len(used) THEN max_size ELSE Len(used)
      BY <1>0, <1>8, SmallerOf
    <3> QED BY <1>0, <2>1, <3>1, <3>2
  <2>9. LruInv'
    BY <1>0, <1>10, <2>6, <2>7 DEF LruInv, Fits
  <2>10. Recency!Put(key, value)
    <3>1. SubSeq(used, 1, Recency!Min({max_size, Len(used)})) = Order(list', entry')
      BY <2>6, <2>8
    <3> QED BY <1>4, <1>7, <3>1 DEF Recency!Put, Order
  <2> QED BY <2>9, <2>10
<1>12. CASE ~TooMany(m2)
  <2>1. list' = p /\ map' = m2
    BY <1>4, <1>12
  <2>2. Len(p) <= max_size
    BY <1>0, <1>8, <1>12
  <2>3. Recency!Min({max_size, Len(used)}) = Len(used)
    <3>1. Recency!Min({max_size, Len(used)}) = IF max_size <= Len(used) THEN max_size ELSE Len(used)
      BY <1>0, <1>8, SmallerOf
    <3> QED BY <1>0, <1>8, <2>2, <3>1
  <2>4. SubSeq(used, 1, Len(used)) = used
    BY <1>8, SubSeqFull
  <2>5. LruInv'
    BY <1>5, <1>10, <2>1, <2>2 DEF LruInv, Fits
  <2>6. Recency!Put(key, value)
    <3>1. SubSeq(used, 1, Recency!Min({max_size, Len(used)})) = Order(list', entry')
      BY <1>8, <2>1, <2>3, <2>4
    <3> QED BY <1>4, <1>7, <3>1 DEF Recency!Put, Order
  <2> QED BY <2>5, <2>6
<1> QED BY <1>11, <1>12

(* Getting a value moves its node, and so its entry, to the front.         *)
LEMMA GetStep ==
  ASSUME LruInv, NEW key \in Keys, Get(key)
  PROVE  LruInv' /\ Recency!Get(key)
<1>0. Fits(list, entry, map) /\ Len(list) <= max_size /\ entry = [n \in Nodes |-> entry[n]]
  BY DEF LruInv
<1>1. PICK w, n : w = WithoutKey(key) /\ n = map[key]
  OBVIOUS
<1>2. /\ n # NoNode /\ list' = <<n>> \o w /\ answer' = <<"value", entry[n].value>>
      /\ UNCHANGED <<entry, map>>
  BY <1>1 DEF Get, Splice, WithoutKey
<1>3. PICK i \in 1..Len(list) : list[i] = n /\ entry[list[i]].key = key
  BY <1>0, <1>1, <1>2 DEF Fits
<1>4. n \in Nodes /\ entry[n] \in Entries /\ entry[n].value \in Values
      /\ entry[n] = [key |-> key, value |-> entry[n].value]
  BY <1>0, <1>3, OrderIs DEF Entries
<1>5. PICK v : v = entry[n].value
  OBVIOUS
<1>6. /\ Recency!Others(key) = Order(w, entry)
      /\ Fits(w, entry, [map EXCEPT ![key] = NoNode])
      /\ Len(w) <= Len(list)
  BY <1>0, <1>1, OthersAre
<1>7. \A j \in 1..Len(w) : w[j] # n
  <2>0. w = Erased(list, map[key]) /\ map[key] # NoNode
    BY <1>1, <1>2 DEF WithoutKey
  <2>0a. Unlisted(list, entry, map, key)
    BY <1>0, <2>0, ErasedFits
  <2>1. \A j \in 1..Len(w) : entry[w[j]].key # key
    BY <2>0, <2>0a DEF Unlisted
  <2> QED BY <1>3, <2>1
<1>8. /\ [entry EXCEPT ![n] = [key |-> key, value |-> v]] = entry
      /\ [[map EXCEPT ![key] = NoNode] EXCEPT ![key] = n] = map
  <2>1. PICK x : x = [key |-> key, value |-> v]
    OBVIOUS
  <2>2. x = entry[n] /\ n \in Nodes
    BY <1>4, <1>5, <2>1
  <2>3. PICK e : e = entry
    OBVIOUS
  <2>4. e = [k \in Nodes |-> e[k]]
    BY <1>0, <2>3
  <2>5. [e EXCEPT ![n] = x] = e
    BY <2>2, <2>3, <2>4
  <2>6. map \in [Keys -> Nodes \cup {NoNode}]
    BY <1>0 DEF Fits
  <2>7. [[map EXCEPT ![key] = NoNode] EXCEPT ![key] = n] = map
    BY <1>1, <2>6
  <2> QED BY <2>1, <2>3, <2>5, <2>7
<1>9. /\ Fits(<<n>> \o w, entry, map)
      /\ Order(<<n>> \o w, entry) = <<[key |-> key, value |-> v]>> \o Order(w, entry)
  <2>1. n \in Nodes \ NodesIn(w) /\ v \in Values
    BY <1>4, <1>5, <1>7 DEF NodesIn
  <2>2. PICK m1 : m1 = [map EXCEPT ![key] = NoNode]
    OBVIOUS
  <2>3. m1[key] = NoNode /\ [m1 EXCEPT ![key] = n] = map
    BY <1>0, <1>8, <2>2 DEF Fits
  <2>4. PICK e : e = entry
    OBVIOUS
  <2>5. Fits(w, e, m1) /\ e = [k \in Nodes |-> e[k]]
    BY <1>0, <1>6, <2>2, <2>4
  <2>5a. Listed(w, e, m1, key, v, n)
    BY <2>1, <2>3, <2>5, PushedFits
  <2>6. /\ Fits(<<n>> \o w, [e EXCEPT ![n] = [key |-> key, value |-> v]], [m1 EXCEPT ![key] = n])
        /\ Order(<<n>> \o w, [e EXCEPT ![n] = [key |-> key, value |-> v]])
             = <<[key |-> key, value |-> v]>> \o Order(w, e)
    BY <2>5a DEF Listed
  <2>7. [e EXCEPT ![n] = [key |-> key, value |-> v]] = e
    BY <1>8, <2>4
  <2>8. Fits(<<n>> \o w, e, map) /\ Order(<<n>> \o w, e) = <<[key |-> key, value |-> v]>> \o Order(w, e)
    BY <2>3, <2>6, <2>7
  <2> QED BY <2>4, <2>8
<1>10. Len(list') <= max_size
  <2>1. \A l : Fits(l, entry, map) => Len(l) = Cardinality(Present(map))
    BY MapSize
  <2> QED BY <1>0, <1>2, <1>9, <2>1
<1>11. LruInv'
  BY <1>0, <1>2, <1>9, <1>10 DEF LruInv, Fits
<1>12. Recency!Get(key)
  <2>1. PICK o : o = Order(list, entry)
    OBVIOUS
  <2>2. i \in 1..Len(o) /\ o[i] = entry[n]
    BY <1>0, <1>3, <2>1, OrderIs
  <2>3. Order(list', entry') = Recency!Use(key, v)
    BY <1>2, <1>6, <1>9 DEF Recency!Use
  <2>4. \E j \in 1..Len(o) : /\ o[j].key = key
                              /\ Order(list', entry') = Recency!Use(key, o[j].value)
                              /\ answer' = <<"value", o[j].value>>
    <3>1. o[i].key = key /\ o[i].value = v
      BY <1>3, <1>5, <2>2
    <3>2. answer' = <<"value", o[i].value>>
      BY <1>2, <2>2
    <3> QED BY <2>2, <2>3, <3>1, <3>2
  <2> QED BY <2>1, <2>4 DEF Recency!Get, Order
<1> QED BY <1>11, <1>12

(* Every operation keeps the cache consistent and does what the abstract   *)
(* cache would.                                                            *)
LEMMA LruStep ==
  ASSUME LruInv, [LruNext]_lruVars
  PROVE  LruInv' /\ [Recency!Next]_(Recency!vars)
<1>0. Fits(list, entry, map)
  BY DEF LruInv
<1>1. ASSUME UNCHANGED <<list, entry, map>>
      PROVE  LruInv' /\ Order(list, entry)' = Order(list, entry)
  BY <1>1 DEF LruInv, Fits, Order
<1>2. ASSUME NEW key \in Keys, GetThrows(key)
      PROVE  LruInv' /\ Recency!GetThrows(key)
  <2>1. map[key] = NoNode /\ answer' = RangeError /\ UNCHANGED <<list, entry, map>>
    BY <1>2 DEF GetThrows
  <2>2. PICK o : o = Order(list, entry)
    OBVIOUS
  <2>3. \A i \in 1..Len(o) : o[i].key # key
    <3>1. (map[key] # NoNode) <=> (\E i \in 1..Len(list) : entry[list[i]].key = key)
      BY <1>0, KeyThere
    <3>2. Len(o) = Len(list) /\ \A i \in 1..Len(list) : o[i] = entry[list[i]]
      BY <1>0, <2>2, OrderIs
    <3> QED BY <2>1, <3>1, <3>2
  <2> QED BY <1>1, <2>1, <2>2, <2>3 DEF Recency!GetThrows, Order
<1>3. ASSUME NEW key \in Keys, Exists(key)
      PROVE  LruInv' /\ Recency!Exists(key)
  <2>1. answer' = <<"exists", map[key] # NoNode>> /\ UNCHANGED <<list, entry, map>>
    BY <1>3 DEF Exists
  <2>2. PICK o : o = Order(list, entry)
    OBVIOUS
  <2>3. (map[key] # NoNode) <=> (\E i \in 1..Len(o) : o[i].key = key)
    <3>1. (map[key] # NoNode) <=> (\E i \in 1..Len(list) : entry[list[i]].key = key)
      BY <1>0, KeyThere
    <3>2. Len(o) = Len(list) /\ \A i \in 1..Len(list) : o[i] = entry[list[i]]
      BY <1>0, <2>2, OrderIs
    <3> QED BY <3>1, <3>2
  <2> QED BY <1>1, <2>1, <2>2, <2>3 DEF Recency!Exists, Order
<1>4. ASSUME Size
      PROVE  LruInv' /\ Recency!Size
  <2>1. answer' = <<"size", Len(list)>> /\ UNCHANGED <<list, entry, map>>
    BY <1>0, <1>4, MapSize DEF Size
  <2>2. Len(Order(list, entry)) = Len(list)
    BY <1>0, OrderIs
  <2> QED BY <1>1, <2>1, <2>2 DEF Recency!Size, Order
<1>5. CASE UNCHANGED lruVars
  BY <1>1, <1>5 DEF lruVars, Recency!vars, Order
<1> QED BY <1>2, <1>3, <1>4, <1>5, PutStep, GetStep DEF LruNext, Recency!Next

(* For any keys, values and max_size: what put, get, exists and size do    *)
(* and answer is what a list of entries in order of use, cut off at        *)
(* max_size, would.                                                        *)
THEOREM LruIsRecencyOrder == LruSpec => ImplementsRecencyOrder
<1>1. LruInit => LruInv /\ Recency!Init
  <2> SUFFICES ASSUME LruInit PROVE LruInv /\ Recency!Init
    OBVIOUS
  <2>1. list = <<>> /\ map = [k \in Keys |-> NoNode] /\ answer = RangeError
    BY DEF LruInit
  <2>2. Len(list) = 0 /\ list \in Seq(Nodes)
    BY <2>1
  <2>3. entry = [n \in Nodes |-> entry[n]]
    BY DEF LruInit
  <2>4. Fits(list, entry, map)
    BY <2>1, <2>2 DEF Fits
  <2>5. Order(list, entry) = <<>>
    <3>1. Len(Order(list, entry)) = 0 /\ Order(list, entry) \in Seq(Entries)
      BY <2>2, <2>4, OrderIs
    <3> QED BY <3>1, EmptySeq
  <2> QED BY <2>1, <2>2, <2>3, <2>4, <2>5, LruAssumption DEF LruInv, Recency!Init, Order
<1>2. LruInv /\ [LruNext]_lruVars => LruInv' /\ [Recency!Next]_(Recency!vars)
  BY LruStep
<1> QED BY <1>1, <1>2, PTL DEF LruSpec, ImplementsRecencyOrder, Recency!Spec

------------------------------------------------------------------------------
(* pattern/observer.h and .cc                                              *)

(* What remains of the first n of a list's observers without o.            *)
KeepsOf(obs, o, f, n) ==
  f[n] = IF n = 0 THEN <<>>
         ELSE IF obs[n] = o THEN f[n - 1] ELSE Append(f[n - 1], obs[n])

(* The function that Removed computes exists.                              *)
LEMMA KeptExists ==
  ASSUME NEW obs \in Seq(Observers), NEW o
  PROVE  \E f \in [0..Len(obs) -> Seq(Observers)] : \A n \in 0..Len(obs) : KeepsOf(obs, o, f, n)
<1> DEFINE Has(k) == \E f \in [0..k -> Seq(Observers)] : \A n \in 0..k : KeepsOf(obs, o, f, n)
           Q == {k \in Nat : Has(k)}
<1>0. Len(obs) \in Nat
  BY LenProperties
<1>1. Has(0)
  <2> DEFINE f == [n \in 0..0 |-> <<>>]
  <2>1. f \in [0..0 -> Seq(Observers)] /\ \A n \in 0..0 : KeepsOf(obs, o, f, n)
    BY EmptySeq DEF KeepsOf
  <2> QED BY <2>1
<1>2. ASSUME NEW k \in 1..Len(obs), Has(k - 1) PROVE Has(k)
  <2>1. PICK f \in [0..(k - 1) -> Seq(Observers)] : \A n \in 0..(k - 1) : KeepsOf(obs, o, f, n)
    BY <1>2
  <2> DEFINE e == IF obs[k] = o THEN f[k - 1] ELSE Append(f[k - 1], obs[k])
             g == [n \in 0..k |-> IF n = k THEN e ELSE f[n]]
  <2>2. k \in Nat /\ k # 0 /\ k - 1 \in 0..(k - 1) /\ \A n \in 0..k : n # k => n \in 0..(k - 1)
    BY <1>0
  <2>3. e \in Seq(Observers)
    <3>1. obs[k] \in Observers /\ f[k - 1] \in Seq(Observers)
      BY <2>2, ElementOfSeq
    <3> QED BY <3>1, AppendProperties
  <2> HIDE DEF e
  <2>4. g \in [0..k -> Seq(Observers)]
    BY <2>2, <2>3
  <2>5. \A n \in 0..(k - 1) : g[n] = f[n] /\ (n # 0 => n - 1 \in 0..(k - 1) /\ g[n - 1] = f[n - 1])
    BY <2>2
  <2>6. g[k] = e /\ g[k - 1] = f[k - 1]
    BY <2>2
  <2>7. KeepsOf(obs, o, g, k)
    <3> HIDE DEF g
    <3> QED BY <2>2, <2>6 DEF KeepsOf, e
  <2>8. ASSUME NEW n \in 0..(k - 1) PROVE KeepsOf(obs, o, g, n)
    <3> HIDE DEF g
    <3> QED BY <2>1, <2>5, <2>8 DEF KeepsOf
  <2>9. \A n \in 0..k : KeepsOf(obs, o, g, n)
    <3> HIDE DEF g
    <3> QED BY <2>2, <2>7, <2>8
  <2> HIDE DEF g
  <2> QED BY <2>4, <2>9
<1>3. \A k \in 1..Len(obs) : k - 1 \in Q => k \in Q
  <2> HIDE DEF Has
  <2> QED BY <1>0, <1>2
<1>4. 0 \in Q
  <2> HIDE DEF Has
  <2> QED BY <1>1
<1>5. \A k \in 0..Len(obs) : k \in Q
  <2> HIDE DEF Q
  <2> QED BY <1>0, <1>3, <1>4, UpTo
<1>6. Has(Len(obs))
  <2> HIDE DEF Has
  <2> QED BY <1>0, <1>5
<1> QED BY <1>6

(* No element is in s twice.                                               *)
Once(s) == \A i, j \in 1..Len(s) : s[i] = s[j] => i = j

(* Removed keeps the other observers, each as often as before.             *)
LEMMA RemovedIs ==
  ASSUME NEW obs \in Seq(Observers), NEW o, Once(obs)
  PROVE  /\ Removed(obs, o) \in Seq(Observers)
         /\ Once(Removed(obs, o))
         /\ \A p : (\E i \in 1..Len(Removed(obs, o)) : Removed(obs, o)[i] = p)
                      <=> (p # o /\ \E i \in 1..Len(obs) : obs[i] = p)
<1>0. Len(obs) \in Nat
  BY LenProperties
<1> DEFINE Kept == CHOOSE f : f = [n \in 0..Len(obs) |->
                     IF n = 0 THEN <<>> ELSE IF obs[n] = o THEN f[n - 1] ELSE Append(f[n - 1], obs[n])]
<1>1. Removed(obs, o) = Kept[Len(obs)]
  BY DEF Removed
<1>2. PICK f \in [0..Len(obs) -> Seq(Observers)] : \A n \in 0..Len(obs) : KeepsOf(obs, o, f, n)
  BY KeptExists
<1>3. f = [n \in 0..Len(obs) |->
             IF n = 0 THEN <<>> ELSE IF obs[n] = o THEN f[n - 1] ELSE Append(f[n - 1], obs[n])]
  BY <1>2 DEF KeepsOf
<1>4. Kept = [n \in 0..Len(obs) |->
               IF n = 0 THEN <<>> ELSE IF obs[n] = o THEN Kept[n - 1] ELSE Append(Kept[n - 1], obs[n])]
  BY <1>3
<1> HIDE DEF Kept
<1> DEFINE Fine(n) == /\ Kept[n] \in Seq(Observers)
                      /\ Once(Kept[n])
                      /\ \A p : (\E i \in 1..Len(Kept[n]) : Kept[n][i] = p)
                                   <=> (p # o /\ \E i \in 1..n : obs[i] = p)
           Q == {n \in Nat : Fine(n)}
<1>5. Fine(0)
  <2>1. Kept[0] = <<>>
    BY <1>0, <1>4
  <2> QED BY <2>1 DEF Once
<1>6. ASSUME NEW n \in 1..Len(obs), Fine(n - 1) PROVE Fine(n)
  <2>1. n \in Nat /\ n \in 0..Len(obs) /\ n # 0 /\ n - 1 \in Nat /\ 1..n = 1..(n - 1) \cup {n}
    BY <1>0
  <2>2. Kept[n] = IF obs[n] = o THEN Kept[n - 1] ELSE Append(Kept[n - 1], obs[n])
    BY <1>4, <2>1
  <2>3. CASE obs[n] = o
    <3>1. Kept[n] = Kept[n - 1]
      BY <2>2, <2>3
    <3> QED BY <1>6, <2>1, <2>3, <3>1
  <2>4. CASE obs[n] # o
    <3> DEFINE s == Kept[n - 1]
               x == obs[n]
    <3>1. /\ Kept[n] = Append(s, x) /\ s \in Seq(Observers) /\ x \in Observers /\ Len(s) \in Nat
          /\ Kept[n] \in Seq(Observers) /\ Len(Kept[n]) = Len(s) + 1
          /\ (\A i \in 1..Len(s) : Kept[n][i] = s[i]) /\ Kept[n][Len(s) + 1] = x
      <4>1. Kept[n] = Append(s, x) /\ s \in Seq(Observers) /\ x \in Observers
        BY <1>6, <2>2, <2>4, ElementOfSeq
      <4> HIDE DEF s, x
      <4> QED BY <4>1, AppendProperties, LenProperties
    <3>2. \A i \in 1..Len(s) : s[i] # x
      <4> SUFFICES ASSUME NEW i \in 1..Len(s), s[i] = x PROVE FALSE
        OBVIOUS
      <4>1. PICK j \in 1..(n - 1) : obs[j] = x
        BY <1>6
      <4>2. j \in 1..Len(obs) /\ j # n
        BY <1>0, <2>1
      <4> QED BY <4>1, <4>2 DEF Once
    <3>3. 1..Len(Kept[n]) = 1..Len(s) \cup {Len(s) + 1}
      BY <3>1
    <3>4. Once(Kept[n])
      <4> SUFFICES ASSUME NEW i \in 1..Len(Kept[n]), NEW j \in 1..Len(Kept[n]), Kept[n][i] = Kept[n][j]
                   PROVE  i = j
        BY DEF Once
      <4>1. Once(s)
        BY <1>6
      <4> HIDE DEF s, x
      <4> QED BY <3>1, <3>2, <3>3, <4>1 DEF Once
    <3>5. ASSUME NEW p
          PROVE  (\E i \in 1..Len(Kept[n]) : Kept[n][i] = p) <=> (p # o /\ \E i \in 1..n : obs[i] = p)
      <4>1. (\E i \in 1..Len(s) : s[i] = p) <=> (p # o /\ \E i \in 1..(n - 1) : obs[i] = p)
        BY <1>6
      <4>2. (\E i \in 1..Len(Kept[n]) : Kept[n][i] = p) <=> (p = x \/ \E i \in 1..Len(s) : s[i] = p)
        <5> HIDE DEF s, x
        <5> QED BY <3>1, <3>3
      <4>3. (\E i \in 1..n : obs[i] = p) <=> (p = x \/ \E i \in 1..(n - 1) : obs[i] = p)
        BY <2>1
      <4> HIDE DEF s
      <4> QED BY <2>4, <4>1, <4>2, <4>3
    <3> QED BY <3>1, <3>4, <3>5
  <2> QED BY <2>3, <2>4
<1>7. \A n \in 1..Len(obs) : n - 1 \in Q => n \in Q
  <2> HIDE DEF Fine
  <2> QED BY <1>0, <1>6
<1>8. 0 \in Q
  <2> HIDE DEF Fine
  <2> QED BY <1>5
<1>9. \A n \in 0..Len(obs) : n \in Q
  <2> HIDE DEF Q
  <2> QED BY <1>0, <1>7, <1>8, UpTo
<1>10. Fine(Len(obs))
  <2> HIDE DEF Fine
  <2> QED BY <1>0, <1>9
<1> QED BY <1>1, <1>10

(* The list holds each attached observer once, and those that Notify has   *)
(* come by have shown the subject's state.                                 *)
OInv == /\ m_pObserver_list \in Seq(Observers)
        /\ Once(m_pObserver_list)
        /\ next \in Nat
        /\ \A o : o \in attached <=> \E i \in 1..Len(m_pObserver_list) : m_pObserver_list[i] = o
        /\ next # 0 =>
             /\ next <= Len(m_pObserver_list) + 1
             /\ shown = [o \in Observers |->
                  IF \E i \in 1..(next - 1) : m_pObserver_list[i] = o THEN <<m_nState>> ELSE <<>>]

(* Every operation keeps it.                                               *)
LEMMA ObserverStep == ASSUME OInv, [ObsNext]_obsVars PROVE OInv'
<1> DEFINE obs == m_pObserver_list
<1>0. obs \in Seq(Observers) /\ Len(obs) \in Nat
  BY LenProperties DEF OInv
<1>1. ASSUME NEW o \in Observers, Attach(o) PROVE OInv'
  <2>1. next = 0 /\ next' = 0 /\ obs' = Emplaced(obs, o) /\ attached' = attached \cup {o}
    BY <1>1 DEF Attach
  <2>2. CASE \E i \in 1..Len(obs) : obs[i] = o
    <3>1. obs' = obs
      BY <2>1, <2>2 DEF Emplaced
    <3> QED BY <2>1, <2>2, <3>1 DEF OInv
  <2>3. CASE ~(\E i \in 1..Len(obs) : obs[i] = o)
    <3>1. obs' = Append(obs, o)
      BY <2>1, <2>3 DEF Emplaced
    <3>2. /\ obs' \in Seq(Observers) /\ Len(obs') = Len(obs) + 1
          /\ (\A i \in 1..Len(obs) : obs'[i] = obs[i]) /\ obs'[Len(obs) + 1] = o
      BY <1>0, <3>1, AppendProperties
    <3>3. 1..Len(obs') = 1..Len(obs) \cup {Len(obs) + 1}
      BY <1>0, <3>2
    <3>4. Once(obs')
      <4>1. Once(obs)
        BY DEF OInv
      <4> HIDE DEF obs
      <4> QED BY <2>3, <3>2, <3>3, <4>1 DEF Once
    <3>5. \A p : p \in attached' <=> \E i \in 1..Len(obs') : obs'[i] = p
      <4>1. \A p : p \in attached <=> \E i \in 1..Len(obs) : obs[i] = p
        BY DEF OInv
      <4> HIDE DEF obs
      <4> QED BY <2>1, <3>2, <3>3, <4>1
    <3> QED BY <2>1, <3>2, <3>4, <3>5 DEF OInv
  <2> QED BY <2>2, <2>3
<1>2. ASSUME NEW o \in Observers, Detach(o) PROVE OInv'
  <2>1. next = 0 /\ next' = 0 /\ obs' = Removed(obs, o) /\ attached' = attached \ {o}
    BY <1>2 DEF Detach
  <2>2. PICK s : s = Removed(obs, o)
    OBVIOUS
  <2>3. /\ s \in Seq(Observers) /\ Once(s)
        /\ \A p : (\E i \in 1..Len(s) : s[i] = p) <=> (p # o /\ \E i \in 1..Len(obs) : obs[i] = p)
    <3>1. Once(obs)
      BY DEF OInv
    <3> HIDE DEF obs
    <3>2. /\ Removed(obs, o) \in Seq(Observers)
          /\ Once(Removed(obs, o))
          /\ \A p : (\E i \in 1..Len(Removed(obs, o)) : Removed(obs, o)[i] = p)
                       <=> (p # o /\ \E i \in 1..Len(obs) : obs[i] = p)
      BY <1>0, <3>1, RemovedIs
    <3> QED BY <2>2, <3>2
  <2>4. Once(s)' = Once(obs')
    BY <2>1, <2>2 DEF Once
  <2>5. obs' = s
    BY <2>1, <2>2
  <2>6. Once(obs')
    BY <2>3, <2>5
  <2>7. \A p : p \in attached' <=> \E i \in 1..Len(obs') : obs'[i] = p
    <3>1. \A p : p \in attached <=> \E i \in 1..Len(obs) : obs[i] = p
      BY DEF OInv
    <3> HIDE DEF obs
    <3> QED BY <2>1, <2>3, <2>5, <3>1
  <2> QED BY <2>1, <2>3, <2>5, <2>6, <2>7 DEF OInv
<1>3. ASSUME NEW state \in States, SetState(state) PROVE OInv'
  BY <1>3 DEF SetState, OInv
<1>4. CASE Notify
  <2>1. /\ next' = 1 /\ shown' = [o \in Observers |-> <<>>]
        /\ UNCHANGED <<m_pObserver_list, m_nState, attached>>
    BY <1>4 DEF Notify
  <2>2. 1 <= Len(obs) + 1 /\ 1..(1 - 1) = {}
    BY <1>0
  <2> QED BY <2>1, <2>2 DEF OInv
<1>5. CASE Update
  <2> DEFINE x == obs[next]
  <2>1. /\ next \in 1..Len(obs) /\ next' = next + 1
        /\ shown' = [shown EXCEPT ![x] = Append(shown[x], m_nState)]
        /\ UNCHANGED <<m_pObserver_list, m_nState, attached>>
    BY <1>5 DEF Update
  <2>2. x \in Observers
    BY <1>0, <2>1, ElementOfSeq
  <2>3. /\ \A o \in Observers :
             shown[o] = IF \E i \in 1..(next - 1) : obs[i] = o THEN <<m_nState>> ELSE <<>>
        /\ shown = [o \in Observers |-> shown[o]]
    <3>1. next # 0
      BY <2>1
    <3>2. shown = [o \in Observers |->
                     IF \E i \in 1..(next - 1) : obs[i] = o THEN <<m_nState>> ELSE <<>>]
      BY <3>1 DEF OInv
    <3> QED BY <3>2
  <2>4. ~(\E i \in 1..(next - 1) : obs[i] = x)
    <3>1. \A i \in 1..(next - 1) : i \in 1..Len(obs) /\ i # next
      BY <1>0, <2>1
    <3>2. Once(obs)
      BY DEF OInv
    <3> QED BY <2>1, <3>1, <3>2 DEF Once
  <2>5. 1..(next + 1 - 1) = 1..(next - 1) \cup {next} /\ next + 1 <= Len(obs) + 1 /\ next + 1 \in Nat
    BY <1>0, <2>1
  <2>6. Append(<<>>, m_nState) = <<m_nState>>
    OBVIOUS
  <2>7. \A o \in Observers :
          shown'[o] = IF \E i \in 1..(next' - 1) : obs'[i] = o THEN <<m_nState'>> ELSE <<>>
    <3>1. \A o \in Observers : (\E i \in 1..(next' - 1) : obs'[i] = o)
                                  <=> (o = x \/ \E i \in 1..(next - 1) : obs[i] = o)
      BY <2>1, <2>5
    <3>2. shown[x] = <<>> /\ shown'[x] = <<m_nState>>
      BY <2>1, <2>2, <2>3, <2>4, <2>6
    <3>3. \A o \in Observers : o # x => shown'[o] = shown[o]
      BY <2>1, <2>3
    <3>4. m_nState' = m_nState
      BY <2>1
    <3> HIDE DEF obs, x
    <3> QED BY <2>3, <3>1, <3>2, <3>3, <3>4
  <2>8. shown' = [o \in Observers |-> shown'[o]]
    BY <2>1, <2>3
  <2>9. shown' = [o \in Observers |->
                    IF \E i \in 1..(next' - 1) : obs'[i] = o THEN <<m_nState'>> ELSE <<>>]
    BY <2>7, <2>8
  <2>10. /\ m_pObserver_list' \in Seq(Observers) /\ Once(m_pObserver_list)'
         /\ \A o : o \in attached' <=> \E i \in 1..Len(m_pObserver_list') : m_pObserver_list'[i] = o
    BY <2>1 DEF OInv, Once
  <2>11. next' \in Nat /\ next' <= Len(m_pObserver_list') + 1
    BY <2>1, <2>5
  <2> HIDE DEF obs
  <2> QED BY <2>9, <2>10, <2>11 DEF OInv, obs
<1>6. CASE NotifyReturns
  BY <1>6 DEF NotifyReturns, OInv
<1>7. CASE UNCHANGED obsVars
  BY <1>7 DEF obsVars, OInv
<1> QED BY <1>1, <1>2, <1>3, <1>4, <1>5, <1>6, <1>7 DEF ObsNext

(* For any observers, attached and detached in any order: when Notify comes*)
(* to the end of the list, each that is attached has shown the subject's   *)
(* state, once although it may have been attached several times.           *)
THEOREM ObserversNotifyShowsAttachedOnce == ObsSpec => []NotifyShowsAttachedOnce
<1>1. ObsInit => OInv
  BY DEF ObsInit, OInv, Once
<1>2. OInv /\ [ObsNext]_obsVars => OInv'
  BY ObserverStep
<1>3. OInv => NotifyShowsAttachedOnce
  <2> SUFFICES ASSUME OInv, next > Len(m_pObserver_list)
               PROVE  shown = [o \in Observers |-> IF o \in attached THEN <<m_nState>> ELSE <<>>]
    BY DEF NotifyShowsAttachedOnce
  <2>1. Len(m_pObserver_list) \in Nat
    BY LenProperties DEF OInv
  <2>2. next # 0 /\ next - 1 = Len(m_pObserver_list)
    BY <2>1 DEF OInv
  <2> QED BY <2>2 DEF OInv
<1> QED BY <1>1, <1>2, <1>3, PTL DEF ObsSpec

------------------------------------------------------------------------------
(* The edits of config.ini in main.cpp                                     *)

(* The line after the first n letters, and where the next one begins.      *)
LEMMA LineIs ==
  ASSUME NEW file \in Seq(Alphabet), NEW n \in 0..Len(file)
  PROVE  /\ Len(file) \in Nat
         /\ LineAt(file, n) \in Seq(Alphabet) /\ Len(LineAt(file, n)) \in Nat
         /\ After(file, n) \in (n + 1)..(Len(file) + 1)
         /\ n < Len(file) /\ file[n + 1] # Newline =>
              Len(LineAt(file, n)) >= 1 /\ LineAt(file, n)[1] = file[n + 1]
<1> DEFINE ends == {k \in (n + 1)..Len(file) : file[k] = Newline}
           S == ends \cup {Len(file) + 1}
<1>0. Len(file) \in Nat /\ \A i \in 1..Len(file) : file[i] \in Alphabet
  BY LenProperties, ElementOfSeq
<1>1. PICK m : m = Min(S)
  OBVIOUS
<1>2. S \in SUBSET Nat /\ S # {} /\ \A x \in S : x \in (n + 1)..(Len(file) + 1)
  BY <1>0
<1>3. m \in S
  <2> HIDE DEF S
  <2> QED BY <1>1, <1>2, MinIs
<1>4. m \in (n + 1)..(Len(file) + 1)
  BY <1>2, <1>3
<1>5. PICK line : line = SubSeq(file, n + 1, m - 1)
  OBVIOUS
<1>6. LineAt(file, n) = line
  BY <1>1, <1>5 DEF LineAt
<1>7. /\ line \in Seq(Alphabet) /\ Len(line) = m - 1 - n
      /\ \A i \in 1..(m - 1 - n) : line[i] = file[n + i]
  <2>1. PICK a, b : a = n + 1 /\ b = m - 1
    OBVIOUS
  <2>2. a \in Int /\ b \in Int /\ \A i \in a..b : file[i] \in Alphabet
    BY <1>0, <1>4, <2>1
  <2>3. /\ SubSeq(file, a, b) \in Seq(Alphabet)
        /\ Len(SubSeq(file, a, b)) = IF a <= b THEN b - a + 1 ELSE 0
        /\ \A i \in 1..(b - a + 1) : SubSeq(file, a, b)[i] = file[a + i - 1]
    BY <2>2, SubSeqProperties
  <2>4. line = SubSeq(file, a, b)
    BY <1>5, <2>1
  <2>5. b - a + 1 = m - 1 - n /\ Len(line) = m - 1 - n
    BY <1>4, <2>1, <2>3, <2>4
  <2>6. ASSUME NEW i \in 1..(m - 1 - n) PROVE line[i] = file[n + i]
    <3>1. a + i - 1 = n + i
      BY <1>4, <2>1
    <3> QED BY <2>3, <2>4, <2>5, <3>1
  <2> QED BY <2>3, <2>4, <2>5, <2>6
<1>8. After(file, n) = m
  BY <1>4, <1>6, <1>7 DEF After
<1>9. ASSUME n < Len(file), file[n + 1] # Newline
      PROVE  Len(line) >= 1 /\ line[1] = file[n + 1]
  <2>1. m # n + 1
    BY <1>0, <1>3, <1>9
  <2>2. m - 1 - n >= 1 /\ 1 \in 1..(m - 1 - n)
    BY <1>4, <2>1
  <2> QED BY <1>7, <2>2
<1>10. Len(line) \in Nat
  BY <1>4, <1>7
<1> HIDE DEF S
<1> QED BY <1>0, <1>4, <1>6, <1>7, <1>8, <1>9, <1>10

(* Where deal_skv_config truncates the file.                               *)
LEMMA CutIs ==
  ASSUME NEW file \in Seq(Alphabet)
  PROVE  CutAt(file) \in Int /\ CutAt(file) <= Len(file)
<1>0. Len(file) \in Nat
  BY LenProperties
<1>1. FileLen(file) \in Nat /\ FileLen(file) <= Len(file)
  BY <1>0 DEF FileLen
<1>2. Len(LastLine(file)) \in Nat
  <2>1. CASE Len(file) < 2
    BY <2>1 DEF LastLine
  <2>2. CASE ~(Len(file) < 2)
    <3>1. PICK n : n = ScanFromEnd(file)
      OBVIOUS
    <3>2. n \in 0..Len(file)
      <4> DEFINE S == {0} \cup {k \in 2..(Len(file) - 1) : file[k] = Newline}
      <4>1. S \in SUBSET (0..Len(file)) /\ S # {}
        BY <1>0
      <4>2. n = Max(S)
        BY <3>1 DEF ScanFromEnd
      <4> HIDE DEF S
      <4> QED BY <1>0, <4>1, <4>2, MaxIs
    <3>3. Len(LineAt(file, n)) \in Nat
      BY <3>2, LineIs
    <3> QED BY <2>2, <3>1, <3>3 DEF LastLine
  <2> QED BY <2>1, <2>2
<1> QED BY <1>0, <1>1, <1>2 DEF CutAt

(* What is appended to a sequence is a suffix of the result.               *)
LEMMA AppendedSuffix ==
  ASSUME NEW S, NEW b \in Seq(S), NEW c \in Seq(S)
  PROVE  b \o c \in Seq(S) /\ IsSuffix(c, b \o c)
<1>0. Len(b) \in Nat /\ Len(c) \in Nat /\ \A i \in 1..Len(c) : c[i] \in S
  BY LenProperties, ElementOfSeq
<1>1. PICK d : d = b \o c
  OBVIOUS
<1>2. /\ d \in Seq(S) /\ Len(d) = Len(b) + Len(c)
      /\ \A i \in 1..(Len(b) + Len(c)) : d[i] = IF i <= Len(b) THEN b[i] ELSE c[i - Len(b)]
  BY <1>1, ConcatProperties
<1>3. PICK x, y : x = Reverse(c) /\ y = Reverse(d)
  OBVIOUS
<1>4. /\ x \in Seq(S) /\ Len(x) = Len(c) /\ \A i \in 1..Len(c) : x[i] = c[(Len(c) - i) + 1]
  <2>1. \A i \in 1..Len(c) : (Len(c) - i) + 1 \in 1..Len(c)
    BY <1>0
  <2>2. x \in [1..Len(c) -> S] /\ \A i \in 1..Len(c) : x[i] = c[(Len(c) - i) + 1]
    BY <1>0, <1>3, <2>1 DEF Reverse
  <2> QED BY <1>0, <2>2
<1>5. /\ y \in Seq(S) /\ Len(y) = Len(d) /\ \A i \in 1..Len(d) : y[i] = d[(Len(d) - i) + 1]
  <2>0. Len(d) \in Nat /\ \A i \in 1..Len(d) : d[i] \in S
    BY <1>2, LenProperties, ElementOfSeq
  <2>1. \A i \in 1..Len(d) : (Len(d) - i) + 1 \in 1..Len(d)
    BY <2>0
  <2>2. y \in [1..Len(d) -> S] /\ \A i \in 1..Len(d) : y[i] = d[(Len(d) - i) + 1]
    BY <2>0, <1>3, <2>1 DEF Reverse
  <2> QED BY <2>0, <2>2
<1>6. ASSUME NEW i \in 1..Len(c) PROVE x[i] = y[i]
  <2>1. /\ i \in 1..Len(d) /\ (Len(d) - i) + 1 \in 1..(Len(b) + Len(c))
        /\ ~((Len(d) - i) + 1 <= Len(b)) /\ (Len(d) - i) + 1 - Len(b) = (Len(c) - i) + 1
    BY <1>0, <1>2
  <2>2. y[i] = c[(Len(d) - i) + 1 - Len(b)]
    BY <1>2, <1>5, <2>1
  <2> QED BY <1>4, <2>1, <2>2
<1>7. SubSeq(x, 1, Len(x)) = SubSeq(y, 1, Len(x))
  <2>1. PICK n : n = Len(x)
    OBVIOUS
  <2>2. n \in Nat /\ n = Len(c) /\ \A i \in 1..n : x[i] \in S /\ y[i] \in S /\ x[i] = y[i]
    <3>1. \A i \in 1..Len(x) : x[i] \in S
      BY <1>4, ElementOfSeq
    <3> QED BY <1>0, <1>4, <1>6, <2>1, <3>1
  <2>3. 1 \in Int /\ n \in Int
    BY <2>2
  <2>4. /\ SubSeq(x, 1, n) \in Seq(S) /\ Len(SubSeq(x, 1, n)) = IF 1 <= n THEN n - 1 + 1 ELSE 0
        /\ \A i \in 1..(n - 1 + 1) : SubSeq(x, 1, n)[i] = x[1 + i - 1]
    BY <2>2, <2>3, SubSeqProperties
  <2>5. /\ SubSeq(y, 1, n) \in Seq(S) /\ Len(SubSeq(y, 1, n)) = IF 1 <= n THEN n - 1 + 1 ELSE 0
        /\ \A i \in 1..(n - 1 + 1) : SubSeq(y, 1, n)[i] = y[1 + i - 1]
    BY <2>2, <2>3, SubSeqProperties
  <2>6. ASSUME NEW i \in 1..n PROVE SubSeq(x, 1, n)[i] = SubSeq(y, 1, n)[i]
    <3>1. 1 + i - 1 = i /\ i \in 1..(n - 1 + 1)
      BY <2>2
    <3> QED BY <2>2, <2>4, <2>5, <3>1
  <2>7. Len(SubSeq(x, 1, n)) = n /\ Len(SubSeq(y, 1, n)) = n
    BY <2>2, <2>4, <2>5
  <2>8. SubSeq(x, 1, n) = SubSeq(y, 1, n)
    BY <2>4, <2>5, <2>6, <2>7, SeqEqual
  <2> QED BY <2>1, <2>8
<1>8. IsSuffix(c, d)
  <2>1. Len(x) <= Len(y)
    BY <1>0, <1>2, <1>4, <1>5
  <2> QED BY <1>3, <1>7, <2>1 DEF IsSuffix, IsPrefix
<1> QED BY <1>1, <1>2, <1>8

(* What the copying loop writes from the line after the first n letters    *)
(* on, f being what it writes from later lines on.                         *)
Piece(file, h, withDataDir, f, n) ==
  CASE n > Len(file) -> <<>>
    [] n <= Len(file) /\ Holds(LineAt(file, n), Clusters) ->
         LineAt(file, n) \o <<Newline>> \o SkvLine(h) \o <<Newline>>
         \o (IF After(file, n) > Len(file) THEN <<>> ELSE f[BehindClusters(file, n)])
    [] OTHER ->
         (IF withDataDir /\ Holds(LineAt(file, n), DataDir) THEN <<NewDataDir, Newline>>
          ELSE LineAt(file, n) \o (IF After(file, n) > Len(file) THEN <<>> ELSE <<Newline>>))
         \o f[After(file, n)]

(* It depends on later lines only, and is text if what they yield is.      *)
LEMMA PieceIs ==
  ASSUME NEW file \in Seq(Alphabet), NEW h \in Hosts, NEW d, NEW f, NEW g, NEW n \in 0..(Len(file) + 1),
         \A m \in (n + 1)..(Len(file) + 1) : f[m] \in Seq(Alphabet) /\ f[m] = g[m]
  PROVE  /\ Piece(file, h, d, f, n) \in Seq(Alphabet)
         /\ Piece(file, h, d, f, n) = Piece(file, h, d, g, n)
<1>0. Len(file) \in Nat
  BY LenProperties
<1>1. CASE n > Len(file)
  BY <1>1 DEF Piece
<1>2. CASE n <= Len(file)
  <2>0. n \in 0..Len(file) /\ ~(n > Len(file))
    BY <1>0, <1>2
  <2>1. PICK line, m : line = LineAt(file, n) /\ m = After(file, n)
    OBVIOUS
  <2>2. line \in Seq(Alphabet) /\ m \in (n + 1)..(Len(file) + 1)
    BY <2>0, <2>1, LineIs
  <2>3. f[m] \in Seq(Alphabet) /\ f[m] = g[m]
    BY <2>2
  <2>4. PICK b : b = BehindClusters(file, n)
    OBVIOUS
  <2>5. ~(m > Len(file)) => f[b] \in Seq(Alphabet) /\ f[b] = g[b]
    <3> SUFFICES ASSUME ~(m > Len(file)) PROVE b \in (n + 1)..(Len(file) + 1)
      OBVIOUS
    <3>1. m \in 0..Len(file) /\ b = After(file, m)
      BY <1>0, <2>1, <2>2, <2>4 DEF BehindClusters
    <3>2. b \in (m + 1)..(Len(file) + 1)
      BY <3>1, LineIs
    <3> QED BY <1>0, <2>2, <3>2
  <2>6. /\ <<Newline>> \in Seq(Alphabet) /\ <<NewDataDir, Newline>> \in Seq(Alphabet)
        /\ SkvLine(h) \in Seq(Alphabet) /\ <<>> \in Seq(Alphabet)
    <3>1. Newline \in Alphabet /\ NewDataDir \in Alphabet /\ Key \in Alphabet /\ h \in Alphabet
      BY DEF Alphabet
    <3> QED BY <3>1 DEF SkvLine
  <2>7. CASE Holds(line, Clusters)
    <3>1. PICK nl, skv, u, v : /\ nl = <<Newline>> /\ skv = SkvLine(h)
                                /\ u = (IF m > Len(file) THEN <<>> ELSE f[b])
                                /\ v = (IF m > Len(file) THEN <<>> ELSE g[b])
      OBVIOUS
    <3>2. u \in Seq(Alphabet) /\ u = v
      BY <2>5, <2>6, <3>1
    <3>3. /\ Piece(file, h, d, f, n) = line \o nl \o skv \o nl \o u
          /\ Piece(file, h, d, g, n) = line \o nl \o skv \o nl \o v
      <4>1. n <= Len(file)
        BY <1>2
      <4>2. /\ Piece(file, h, d, f, n) =
                  LineAt(file, n) \o <<Newline>> \o SkvLine(h) \o <<Newline>>
                  \o (IF After(file, n) > Len(file) THEN <<>> ELSE f[BehindClusters(file, n)])
            /\ Piece(file, h, d, g, n) =
                  LineAt(file, n) \o <<Newline>> \o SkvLine(h) \o <<Newline>>
                  \o (IF After(file, n) > Len(file) THEN <<>> ELSE g[BehindClusters(file, n)])
        <5> HIDE <3>1
        <5> QED BY <2>0, <2>1, <2>7, <4>1, Zenon DEF Piece
      <4> QED BY <2>1, <2>4, <3>1, <4>2, Zenon
    <3>4. line \o nl \in Seq(Alphabet)
      BY <2>2, <2>6, <3>1, ConcatProperties
    <3>5. line \o nl \o skv \in Seq(Alphabet)
      BY <2>6, <3>1, <3>4, ConcatProperties
    <3>6. line \o nl \o skv \o nl \in Seq(Alphabet)
      BY <2>6, <3>1, <3>5, ConcatProperties
    <3>7. line \o nl \o skv \o nl \o u \in Seq(Alphabet)
      BY <3>2, <3>6, ConcatProperties
    <3> QED BY <3>2, <3>3, <3>7
  <2>8. CASE ~Holds(line, Clusters)
    <3>1. PICK end, u : /\ end = (IF m > Len(file) THEN <<>> ELSE <<Newline>>)
                        /\ u = (IF d /\ Holds(line, DataDir) THEN <<NewDataDir, Newline>> ELSE line \o end)
      OBVIOUS
    <3>2. end \in Seq(Alphabet)
      BY <2>6, <3>1
    <3>3. line \o end \in Seq(Alphabet)
      BY <2>2, <3>2, ConcatProperties
    <3>4. u \in Seq(Alphabet)
      BY <2>6, <3>1, <3>3
    <3>5. Piece(file, h, d, f, n) = u \o f[m] /\ Piece(file, h, d, g, n) = u \o g[m]
      BY <2>0, <2>1, <2>8, <3>1 DEF Piece
    <3>6. u \o f[m] \in Seq(Alphabet)
      BY <2>3, <3>4, ConcatProperties
    <3> QED BY <2>3, <3>5, <3>6
  <2> QED BY <2>7, <2>8
<1> QED BY <1>0, <1>1, <1>2

(* The copying loop, as what it writes from each line on.                  *)
LEMMA CopyExists ==
  ASSUME NEW file \in Seq(Alphabet), NEW h \in Hosts, NEW d
  PROVE  \E Copy : /\ CopyOf(file, h, d) = Copy[0]
                   /\ \A n \in 0..(Len(file) + 1) :
                        Copy[n] \in Seq(Alphabet) /\ Copy[n] = Piece(file, h, d, Copy, n)
<1>0. Len(file) \in Nat
  BY LenProperties
<1>1. PICK N : N = Len(file) + 1
  OBVIOUS
<1>2. N \in Nat /\ N # 0
  BY <1>0, <1>1
<1> DEFINE P(f, n) == Piece(file, h, d, f, n)
           Has(k) == \E f \in [(N - k)..N -> Seq(Alphabet)] : \A n \in (N - k)..N : f[n] = P(f, n)
           Q == {k \in Nat : Has(k)}
<1> DEFINE Agree(f, g, n) == \A m \in (n + 1)..N : f[m] \in Seq(Alphabet) /\ f[m] = g[m]
<1>3. ASSUME NEW f, NEW g, NEW n \in 0..N, Agree(f, g, n)
      PROVE  P(f, n) \in Seq(Alphabet) /\ P(f, n) = P(g, n)
  BY <1>1, <1>3, PieceIs
<1> HIDE DEF P, Agree
<1>4. Has(0)
  <2>1. PICK e : e = P(<<>>, N)
    OBVIOUS
  <2>3. N \in 0..N /\ (N - 0)..N = {N}
    BY <1>2
  <2> DEFINE f == [n \in {N} |-> e]
  <2>4. e \in Seq(Alphabet) /\ \A g : P(<<>>, N) = P(g, N)
    <3> SUFFICES ASSUME NEW g PROVE e \in Seq(Alphabet) /\ P(<<>>, N) = P(g, N)
      OBVIOUS
    <3>1. \A m \in (N + 1)..N : <<>>[m] \in Seq(Alphabet) /\ <<>>[m] = g[m]
      BY <1>2
    <3>2. Agree(<<>>, g, N)
      BY <3>1 DEF Agree
    <3> QED BY <1>3, <2>1, <2>3, <3>2
  <2>5. f \in [{N} -> Seq(Alphabet)] /\ \A n \in {N} : f[n] = P(f, n)
    BY <2>1, <2>4
  <2> QED BY <2>3, <2>5
<1>5. ASSUME NEW k \in 1..N, Has(k - 1) PROVE Has(k)
  <2>1. PICK a : a = N - k
    OBVIOUS
  <2>2. a \in 0..N /\ a \in Nat /\ N - (k - 1) = a + 1 /\ a..N = (a + 1)..N \cup {a} /\ a \notin (a + 1)..N
    BY <1>2, <2>1
  <2>3. PICK f \in [(a + 1)..N -> Seq(Alphabet)] : \A n \in (a + 1)..N : f[n] = P(f, n)
    BY <1>5, <2>2
  <2>4. PICK e : e = P(f, a)
    OBVIOUS
  <2> DEFINE g == [n \in a..N |-> IF n = a THEN e ELSE f[n]]
  <2>5. \A n \in (a + 1)..N : n # a /\ g[n] = f[n] /\ f[n] \in Seq(Alphabet)
    BY <2>2
  <2>6. g[a] = e /\ DOMAIN g = a..N
    BY <2>2
  <2>7. P(f, a) \in Seq(Alphabet) /\ P(f, a) = P(g, a)
    <3> HIDE DEF g
    <3>1. Agree(f, g, a)
      BY <2>5 DEF Agree
    <3> QED BY <1>3, <2>2, <3>1
  <2>8. ASSUME NEW n \in (a + 1)..N PROVE P(f, n) = P(g, n)
    <3>1. n \in 0..N /\ \A m \in (n + 1)..N : m \in (a + 1)..N
      BY <2>2
    <3> HIDE DEF g
    <3>2. \A m \in (n + 1)..N : f[m] \in Seq(Alphabet) /\ f[m] = g[m]
      BY <2>5, <3>1
    <3>3. Agree(f, g, n)
      BY <3>2 DEF Agree
    <3> QED BY <1>3, <3>1, <3>3
  <2>9. g \in [a..N -> Seq(Alphabet)]
    BY <2>2, <2>4, <2>5, <2>7
  <2>10. \A n \in a..N : g[n] = P(g, n)
    <3> HIDE DEF g
    <3> QED BY <2>2, <2>3, <2>4, <2>5, <2>6, <2>7, <2>8
  <2> HIDE DEF g
  <2> QED BY <2>1, <2>9, <2>10
<1> HIDE DEF Has
<1>6. \A k \in 1..N : k - 1 \in Q => k \in Q
  BY <1>2, <1>5
<1>7. 0 \in Q
  BY <1>4
<1>8. Has(N)
  <2> HIDE DEF Q
  <2>1. \A k \in 0..N : k \in Q
    BY <1>2, <1>6, <1>7, UpTo
  <2>2. N \in Q
    BY <1>2, <2>1
  <2> QED BY <2>2 DEF Q
<1>9. PICK f \in [0..N -> Seq(Alphabet)] : \A n \in 0..N : f[n] = P(f, n)
  <2>1. N - N = 0
    BY <1>2
  <2> QED BY <1>8, <2>1 DEF Has
<1>10. f = [n \in 0..N |-> P(f, n)]
  BY <1>9
<1>11. PICK Copy : Copy = CHOOSE c : c = [n \in 0..N |-> P(c, n)]
  OBVIOUS
<1>12. Copy = [n \in 0..N |-> P(Copy, n)]
  BY <1>10, <1>11
<1>13. CopyOf(file, h, d) = Copy[0]
  BY <1>1, <1>11 DEF CopyOf, P, Piece
<1> DEFINE R == {k \in Nat : \A n \in (N - k)..N : Copy[n] \in Seq(Alphabet)}
<1>14. ASSUME NEW n \in 0..N, \A m \in (n + 1)..N : Copy[m] \in Seq(Alphabet)
       PROVE  Copy[n] \in Seq(Alphabet)
  <2>1. Copy[n] = P(Copy, n)
    BY <1>12
  <2>2. Agree(Copy, Copy, n)
    BY <1>14 DEF Agree
  <2> QED BY <1>3, <2>1, <2>2
<1>15. 0 \in R
  <2>1. (N - 0)..N = {N} /\ N \in 0..N /\ (N + 1)..N = {}
    BY <1>2
  <2>2. Copy[N] \in Seq(Alphabet)
    BY <1>14, <2>1
  <2> QED BY <2>1, <2>2
<1>16. ASSUME NEW k \in 1..N, k - 1 \in R PROVE k \in R
  <2>1. PICK a : a = N - k
    OBVIOUS
  <2>2. a \in 0..N /\ N - (k - 1) = a + 1 /\ a..N = (a + 1)..N \cup {a} /\ k \in Nat
    BY <1>2, <2>1
  <2>3. \A m \in (a + 1)..N : Copy[m] \in Seq(Alphabet)
    BY <1>16, <2>2
  <2>4. Copy[a] \in Seq(Alphabet)
    BY <1>14, <2>2, <2>3
  <2> QED BY <2>1, <2>2, <2>3, <2>4
<1>17. N \in R
  <2>1. \A k \in 1..N : k - 1 \in R => k \in R
    BY <1>16
  <2> HIDE DEF R
  <2>2. \A k \in 0..N : k \in R
    BY <1>2, <1>15, <2>1, UpTo
  <2> QED BY <1>2, <2>2
<1>18. ASSUME NEW n \in 0..N PROVE Copy[n] \in Seq(Alphabet) /\ Copy[n] = P(Copy, n)
  <2>1. n \in (N - N)..N /\ Copy[n] \in Seq(Alphabet)
    BY <1>2, <1>17
  <2> QED BY <1>12, <2>1
<1> QED BY <1>1, <1>13, <1>18 DEF P

(* The copy of a file is a file.                                           *)
LEMMA CopyIs ==
  ASSUME NEW file \in Seq(Alphabet), NEW h \in Hosts, NEW d
  PROVE  CopyOf(file, h, d) \in Seq(Alphabet)
<1>1. 0 \in 0..(Len(file) + 1)
  BY LenProperties
<1> QED BY <1>1, CopyExists

(* A line ends before the next newline, or with the file.                  *)
LEMMA LineEnds ==
  ASSUME NEW file \in Seq(Alphabet), NEW n \in 0..Len(file)
  PROVE  /\ Len(file) \in Nat
         /\ LineAt(file, n) \in Seq(Alphabet) /\ Len(LineAt(file, n)) \in Nat
         /\ n + Len(LineAt(file, n)) <= Len(file)
         /\ \A i \in 1..Len(LineAt(file, n)) :
              LineAt(file, n)[i] = file[n + i] /\ LineAt(file, n)[i] # Newline
         /\ n + Len(LineAt(file, n)) < Len(file) => file[n + Len(LineAt(file, n)) + 1] = Newline
<1> DEFINE ends == {k \in (n + 1)..Len(file) : file[k] = Newline}
           S == ends \cup {Len(file) + 1}
<1>0. Len(file) \in Nat /\ \A i \in 1..Len(file) : file[i] \in Alphabet
  BY LenProperties, ElementOfSeq
<1>1. PICK m : m = Min(S)
  OBVIOUS
<1>2. S \in SUBSET Nat /\ S # {} /\ \A x \in S : x \in (n + 1)..(Len(file) + 1)
  BY <1>0
<1>3. m \in S /\ \A y \in S : m <= y
  <2> HIDE DEF S
  <2> QED BY <1>1, <1>2, MinIs
<1>4. m \in (n + 1)..(Len(file) + 1)
  BY <1>2, <1>3
<1>5. PICK line : line = SubSeq(file, n + 1, m - 1)
  OBVIOUS
<1>6. LineAt(file, n) = line
  BY <1>1, <1>5 DEF LineAt
<1>7. /\ line \in Seq(Alphabet) /\ Len(line) = m - 1 - n
      /\ \A i \in 1..(m - 1 - n) : line[i] = file[n + i]
  <2>1. PICK a, b : a = n + 1 /\ b = m - 1
    OBVIOUS
  <2>2. a \in Int /\ b \in Int /\ \A i \in a..b : file[i] \in Alphabet
    BY <1>0, <1>4, <2>1
  <2>3. /\ SubSeq(file, a, b) \in Seq(Alphabet)
        /\ Len(SubSeq(file, a, b)) = IF a <= b THEN b - a + 1 ELSE 0
        /\ \A i \in 1..(b - a + 1) : SubSeq(file, a, b)[i] = file[a + i - 1]
    BY <2>2, SubSeqProperties
  <2>4. line = SubSeq(file, a, b)
    BY <1>5, <2>1
  <2>5. b - a + 1 = m - 1 - n /\ Len(line) = m - 1 - n
    BY <1>4, <2>1, <2>3, <2>4
  <2>6. ASSUME NEW i \in 1..(m - 1 - n) PROVE line[i] = file[n + i]
    <3>1. a + i - 1 = n + i
      BY <1>4, <2>1
    <3> QED BY <2>3, <2>4, <2>5, <3>1
  <2> QED BY <2>3, <2>4, <2>5, <2>6
<1>8. ASSUME NEW i \in 1..(m - 1 - n) PROVE line[i] # Newline
  <2>1. n + i \in (n + 1)..Len(file) /\ ~(m <= n + i)
    BY <1>0, <1>4
  <2>2. n + i \notin S
    BY <1>3, <2>1
  <2>3. file[n + i] # Newline
    BY <2>1, <2>2
  <2> QED BY <1>7, <2>3
<1>9. ASSUME n + Len(line) < Len(file) PROVE file[n + Len(line) + 1] = Newline
  <2>1. n + Len(line) + 1 = m /\ m # Len(file) + 1
    BY <1>0, <1>4, <1>7, <1>9
  <2> QED BY <1>3, <2>1
<1>10. Len(line) \in Nat /\ n + Len(line) <= Len(file)
  BY <1>0, <1>4, <1>7
<1> HIDE DEF S
<1> QED BY <1>0, <1>6, <1>7, <1>8, <1>9, <1>10

(* What a file holds, and one text behind the other.                       *)
Text == Seq(Alphabet)

Cat(a, b) == a \o b

(* A text of one line.                                                     *)
OneLine(L) == \A i \in 1..Len(L) : L[i] # Newline

(* A line is found where it was put.                                       *)
LEMMA LineThere ==
  ASSUME NEW P \in Text, NEW L \in Text, NEW R \in Text,
         OneLine(L), R = <<>> \/ R[1] = Newline,
         NEW file, file = Cat(P, Cat(L, R))
  PROVE  /\ file \in Text /\ Len(P) \in 0..Len(file) /\ LineAt(file, Len(P)) = L
         /\ Len(file) = Len(P) + Len(L) + Len(R) /\ After(file, Len(P)) = Len(P) + Len(L) + 1
<1> USE DEF Text
<1>0. Len(P) \in Nat /\ Len(L) \in Nat /\ Len(R) \in Nat /\ \A i \in 1..Len(L) : L[i] # Newline
  BY LenProperties DEF OneLine
<1>1. /\ L \o R \in Seq(Alphabet) /\ Len(L \o R) = Len(L) + Len(R)
      /\ \A i \in 1..(Len(L) + Len(R)) : (L \o R)[i] = IF i <= Len(L) THEN L[i] ELSE R[i - Len(L)]
  BY ConcatProperties
<1>2. PICK Q : Q = Cat(L, R)
  OBVIOUS
<1>3. /\ Q \in Seq(Alphabet) /\ Len(Q) = Len(L) + Len(R)
      /\ \A i \in 1..(Len(L) + Len(R)) : Q[i] = IF i <= Len(L) THEN L[i] ELSE R[i - Len(L)]
  BY <1>1, <1>2 DEF Cat
<1>4. /\ file \in Seq(Alphabet) /\ Len(file) = Len(P) + Len(Q)
      /\ \A i \in 1..(Len(P) + Len(Q)) : file[i] = IF i <= Len(P) THEN P[i] ELSE Q[i - Len(P)]
  <2>1. /\ P \o Q \in Seq(Alphabet) /\ Len(P \o Q) = Len(P) + Len(Q)
        /\ \A i \in 1..(Len(P) + Len(Q)) : (P \o Q)[i] = IF i <= Len(P) THEN P[i] ELSE Q[i - Len(P)]
    <3>1. Q \in Seq(Alphabet)
      BY <1>3
    <3> QED BY <3>1, ConcatProperties
  <2>2. file = Cat(P, Q)
    BY <1>2
  <2> QED BY <2>1, <2>2 DEF Cat
<1>5. PICK n : n = Len(P)
  OBVIOUS
<1>6. n \in 0..Len(file) /\ Len(file) = n + Len(L) + Len(R)
  BY <1>0, <1>3, <1>4, <1>5
<1>7. ASSUME NEW i \in 1..(Len(L) + Len(R)) PROVE file[n + i] = IF i <= Len(L) THEN L[i] ELSE R[i - Len(L)]
  <2>1. n + i \in 1..(Len(P) + Len(Q)) /\ ~(n + i <= Len(P)) /\ (n + i) - Len(P) = i
    BY <1>0, <1>3, <1>5
  <2>2. file[n + i] = Q[i]
    BY <1>4, <2>1
  <2> QED BY <1>3, <2>2
<1>8. PICK line : line = LineAt(file, n)
  OBVIOUS
<1>9. /\ line \in Seq(Alphabet) /\ Len(line) \in Nat /\ n + Len(line) <= Len(file)
      /\ \A i \in 1..Len(line) : line[i] = file[n + i] /\ line[i] # Newline
      /\ n + Len(line) < Len(file) => file[n + Len(line) + 1] = Newline
  BY <1>4, <1>6, <1>8, LineEnds
<1>10. Len(line) = Len(L)
  <2>1. CASE Len(line) < Len(L)
    <3>1. Len(line) + 1 \in 1..Len(L) /\ Len(line) + 1 \in 1..(Len(L) + Len(R)) /\ n + Len(line) < Len(file)
      BY <1>0, <1>5, <1>6, <1>9, <2>1
    <3>2. file[n + (Len(line) + 1)] = L[Len(line) + 1]
      <4>1. Len(line) + 1 <= Len(L)
        BY <1>0, <3>1
      <4> QED BY <1>7, <3>1, <4>1
    <3>3. n + (Len(line) + 1) = n + Len(line) + 1
      BY <1>0, <1>5, <1>9
    <3>4. L[Len(line) + 1] # Newline
      BY <1>0, <3>1
    <3> QED BY <1>9, <3>1, <3>2, <3>3, <3>4
  <2>2. CASE Len(line) > Len(L)
    <3>1. Len(L) + 1 \in 1..Len(line) /\ Len(L) + 1 \in 1..(Len(L) + Len(R)) /\ Len(R) > 0 /\ ~(Len(L) + 1 <= Len(L))
      BY <1>0, <1>5, <1>6, <1>9, <2>2
    <3>2. R[1] = Newline
      <4>1. R # <<>>
        <5>1. Len(<<>>) = 0
          OBVIOUS
        <5> QED BY <1>0, <3>1, <5>1
      <4> QED BY <4>1
    <3>3. file[n + (Len(L) + 1)] = R[(Len(L) + 1) - Len(L)]
      BY <1>7, <3>1
    <3>4. (Len(L) + 1) - Len(L) = 1
      BY <1>0
    <3> QED BY <1>9, <3>1, <3>2, <3>3, <3>4
  <2> QED BY <1>0, <1>9, <2>1, <2>2
<1>11. ASSUME NEW i \in 1..Len(line) PROVE line[i] = L[i]
  <2>1. i \in 1..(Len(L) + Len(R)) /\ i <= Len(L)
    BY <1>0, <1>10
  <2> QED BY <1>7, <1>9, <2>1
<1>12. line = L
  BY <1>9, <1>10, <1>11, SeqEqual
<1> QED BY <1>4, <1>5, <1>6, <1>8, <1>12 DEF After, Text

(* What the loop of replace_skv_config writes from each line on.           *)
Copying(file, h, f) == \A n \in 0..(Len(file) + 1) :
  f[n] \in Text /\ f[n] = Piece(file, h, FALSE, f, n)

(* The newline by itself.                                                  *)
NL == <<Newline>>

(* Texts put together.                                                     *)
LEMMA Joined ==
  ASSUME NEW a \in Text, NEW b \in Text
  PROVE  /\ Cat(a, b) \in Text /\ Len(Cat(a, b)) = Len(a) + Len(b)
         /\ \A i \in 1..(Len(a) + Len(b)) : Cat(a, b)[i] = IF i <= Len(a) THEN a[i] ELSE b[i - Len(a)]
BY ConcatProperties DEF Cat, Text

LEMMA JoinedInAnyOrder ==
  ASSUME NEW a \in Text, NEW b \in Text, NEW c \in Text
  PROVE  Cat(Cat(a, b), c) = Cat(a, Cat(b, c))
<1> DEFINE V == Alphabet
<1>1. a \in Seq(V) /\ b \in Seq(V) /\ c \in Seq(V)
  BY DEF Text
<1> HIDE DEF V
<1>2. (a \o b) \o c = a \o (b \o c)
  BY <1>1, ConcatAssociative
<1> QED BY <1>2 DEF Cat

LEMMA NothingJoined ==
  ASSUME NEW a \in Text
  PROVE  Cat(a, <<>>) = a /\ Cat(<<>>, a) = a
BY ConcatEmptySeq DEF Cat, Text

(* The parts of what is written are text, and the new line is one line.    *)
LEMMA PartsAre ==
  ASSUME NEW h \in Hosts
  PROVE  /\ NL \in Text /\ Len(NL) = 1 /\ NL[1] = Newline
         /\ SkvLine(h) \in Text /\ Len(SkvLine(h)) = 2
         /\ OneLine(SkvLine(h))
         /\ <<>> \in Text /\ Len(<<>>) = 0 /\ OneLine(<<>>)
<1>1. Newline \in Alphabet /\ Key \in Alphabet /\ h \in Alphabet
  BY DEF Alphabet
<1>2. NL \in Text /\ Len(NL) = 1 /\ NL[1] = Newline
  BY <1>1 DEF NL, Text
<1>3. SkvLine(h) \in Text /\ Len(SkvLine(h)) = 2 /\ SkvLine(h)[1] = Key /\ SkvLine(h)[2] = h
  BY <1>1 DEF SkvLine, Text
<1>4. Key # Newline /\ h # Newline
  BY ConfigAssumption
<1>5. ASSUME NEW i \in 1..Len(SkvLine(h)) PROVE SkvLine(h)[i] # Newline
  <2>1. i = 1 \/ i = 2
    BY <1>3
  <2> QED BY <1>3, <1>4, <2>1
<1>6. OneLine(SkvLine(h))
  BY <1>5 DEF OneLine
<1>7. <<>> \in Text /\ Len(<<>>) = 0
  BY EmptySeq DEF Text
<1>8. OneLine(<<>>)
  BY <1>7 DEF OneLine
<1> QED BY <1>2, <1>3, <1>6, <1>7, <1>8

(* The newline at the head of a text.                                      *)
LEMMA NewlineFirst ==
  ASSUME NEW T \in Text
  PROVE  Cat(NL, T) \in Text /\ Len(Cat(NL, T)) = 1 + Len(T) /\ Cat(NL, T)[1] = Newline
<1>0. Len(T) \in Nat /\ NL \in Text /\ Len(NL) = 1 /\ NL[1] = Newline
  <2>1. Newline \in Alphabet
    BY DEF Alphabet
  <2> QED BY <2>1, LenProperties DEF NL, Text
<1>1. PICK q : q = Cat(NL, T)
  OBVIOUS
<1>2. /\ q \in Text /\ Len(q) = Len(NL) + Len(T)
      /\ \A i \in 1..(Len(NL) + Len(T)) : q[i] = IF i <= Len(NL) THEN NL[i] ELSE T[i - Len(NL)]
  BY <1>0, <1>1, Joined
<1>3. 1 \in 1..(Len(NL) + Len(T)) /\ 1 <= Len(NL)
  BY <1>0
<1> QED BY <1>0, <1>1, <1>2, <1>3

(* The last line, and a line that is followed by another.                  *)
LEMMA LineLast ==
  ASSUME NEW P \in Text, NEW L \in Text, OneLine(L),
         NEW file, file = Cat(P, L)
  PROVE  /\ Len(P) \in 0..Len(file) /\ LineAt(file, Len(P)) = L
         /\ Len(file) = Len(P) + Len(L) /\ After(file, Len(P)) = Len(P) + Len(L) + 1
<1>1. PICK R : R = <<>>
  OBVIOUS
<1>2. R \in Text /\ (R = <<>> \/ R[1] = Newline)
  BY <1>1, EmptySeq DEF Text
<1>7. Len(R) = 0
  BY <1>1
<1>3. Cat(L, R) = L
  BY <1>1, NothingJoined
<1>4. file = Cat(P, Cat(L, R))
  BY <1>3
<1>5. Len(P) \in Nat /\ Len(L) \in Nat
  BY LenProperties DEF Text
<1>6. /\ Len(P) \in 0..Len(file) /\ LineAt(file, Len(P)) = L
      /\ Len(file) = Len(P) + Len(L) + Len(R) /\ After(file, Len(P)) = Len(P) + Len(L) + 1
  BY <1>2, <1>4, LineThere
<1> QED BY <1>5, <1>6, <1>7

LEMMA LineFollowed ==
  ASSUME NEW P \in Text, NEW L \in Text, OneLine(L),
         NEW T \in Text, NEW file, file = Cat(P, Cat(L, Cat(NL, T)))
  PROVE  /\ Len(P) \in 0..Len(file) /\ LineAt(file, Len(P)) = L
         /\ Len(file) = Len(P) + Len(L) + (1 + Len(T)) /\ After(file, Len(P)) = Len(P) + Len(L) + 1
<1>1. PICK R : R = Cat(NL, T)
  OBVIOUS
<1>2. R \in Text /\ (R = <<>> \/ R[1] = Newline)
  BY <1>1, NewlineFirst
<1>5. Len(R) = 1 + Len(T)
  BY <1>1, NewlineFirst
<1>3. file = Cat(P, Cat(L, R))
  BY <1>1
<1>4. /\ Len(P) \in 0..Len(file) /\ LineAt(file, Len(P)) = L
      /\ Len(file) = Len(P) + Len(L) + Len(R) /\ After(file, Len(P)) = Len(P) + Len(L) + 1
  BY <1>2, <1>3, LineThere
<1> QED BY <1>4, <1>5

(* What is written for a last line, of a line that is followed by another, *)
(* and of the clusters' header with the line of the host.                  *)
LEMMA LastWritten ==
  ASSUME NEW g \in Text, NEW h \in Hosts, NEW G, Copying(g, h, G),
         NEW P \in Text, NEW L \in Text, OneLine(L),
         ~Holds(L, Clusters), g = Cat(P, L)
  PROVE  G[Len(P)] = L
<1>3. PICK n, r : n = Len(P) /\ r = Len(g) + 1
  OBVIOUS
<1>4. /\ n \in 0..Len(g) /\ LineAt(g, n) = L
      /\ Len(g) = n + Len(L) /\ After(g, n) = n + Len(L) + 1
  BY <1>3, LineLast
<1>5. Len(L) \in Nat /\ Len(g) \in Nat
  BY LenProperties DEF Text
<1>6. After(g, n) = r /\ r > Len(g) /\ n <= Len(g) /\ n \in 0..(Len(g) + 1) /\ r \in 0..(Len(g) + 1)
  BY <1>3, <1>4, <1>5
<1>7. G[r] = <<>>
  BY <1>6 DEF Copying, Piece
<1>8. G[n] = Cat(Cat(L, <<>>), <<>>)
  <2>1. G[n] = Piece(g, h, FALSE, G, n)
    BY <1>6 DEF Copying
  <2>2. ~(n > Len(g))
    BY <1>5, <1>6
  <2>3. G[n] = Cat(Cat(L, <<>>), G[r])
    BY <1>4, <1>6, <2>1, <2>2 DEF Piece, Cat
  <2> QED BY <1>7, <2>3
<1> QED BY <1>3, <1>8, NothingJoined

LEMMA LineWritten ==
  ASSUME NEW g \in Text, NEW h \in Hosts, NEW G, Copying(g, h, G),
         NEW P \in Text, NEW L \in Text, OneLine(L),
         NEW T \in Text, ~Holds(L, Clusters), g = Cat(P, Cat(L, Cat(NL, T)))
  PROVE  G[Len(P)] = Cat(Cat(L, NL), G[Len(P) + Len(L) + 1])
<1>3. PICK n, m : n = Len(P) /\ m = n + Len(L) + 1
  OBVIOUS
<1>4. /\ n \in 0..Len(g) /\ LineAt(g, n) = L
      /\ Len(g) = n + Len(L) + (1 + Len(T)) /\ After(g, n) = m
  BY <1>3, LineFollowed
<1>5. Len(L) \in Nat /\ Len(g) \in Nat /\ Len(T) \in Nat
  BY LenProperties DEF Text
<1>6. ~(m > Len(g)) /\ ~(n > Len(g)) /\ n <= Len(g) /\ n \in 0..(Len(g) + 1)
  BY <1>3, <1>4, <1>5
<1>7. G[n] = Piece(g, h, FALSE, G, n)
  BY <1>6 DEF Copying
<1>8. G[n] = Cat(Cat(L, NL), G[m])
  BY <1>4, <1>6, <1>7 DEF Piece, NL, Cat
<1> QED BY <1>3, <1>8

LEMMA HeaderWritten ==
  ASSUME NEW g \in Text, NEW h \in Hosts, NEW G, Copying(g, h, G),
         NEW P \in Text, NEW L \in Text, OneLine(L),
         NEW T \in Text, Holds(L, Clusters),
         g = Cat(P, Cat(L, Cat(NL, Cat(SkvLine(h), Cat(NL, T)))))
  PROVE  G[Len(P)] = Cat(Cat(Cat(Cat(L, NL), SkvLine(h)), NL), G[Len(P) + Len(L) + 4])
<1>0. PICK skv, nl : skv = SkvLine(h) /\ nl = NL
  OBVIOUS
<1>1. nl \in Text /\ skv \in Text /\ OneLine(skv)
  BY <1>0, PartsAre
<1>a. Len(nl) = 1 /\ Len(skv) = 2
  BY <1>0, PartsAre
<1>2. PICK w : w = Cat(nl, T)
  OBVIOUS
<1>3. w \in Text
  BY <1>0, <1>2, NewlineFirst
<1>b. Len(w) = 1 + Len(T)
  BY <1>0, <1>2, NewlineFirst
<1>4. PICK u : u = Cat(skv, w)
  OBVIOUS
<1>5. u \in Text
  BY <1>1, <1>3, <1>4, Joined
<1>c. Len(u) = 2 + (1 + Len(T))
  <2>1. Len(u) = Len(skv) + Len(w)
    BY <1>1, <1>3, <1>4, Joined
  <2> QED BY <1>a, <1>b, <2>1
<1>6. PICK n, m, b : n = Len(P) /\ m = n + Len(L) + 1 /\ b = n + Len(L) + 4
  OBVIOUS
<1>7. Len(L) \in Nat /\ Len(g) \in Nat /\ Len(T) \in Nat /\ n \in Nat
  BY <1>6, LenProperties DEF Text
<1>8. /\ n \in 0..Len(g) /\ LineAt(g, n) = L
      /\ Len(g) = n + Len(L) + (1 + Len(u)) /\ After(g, n) = m
  <2>1. g = Cat(P, Cat(L, Cat(NL, u)))
    BY <1>0, <1>2, <1>4
  <2> QED BY <1>5, <1>6, <2>1, LineFollowed
<1>9. PICK K : K = Cat(L, nl)
  OBVIOUS
<1>10. K \in Text
  BY <1>1, <1>9, Joined
<1>d. Len(K) = Len(L) + 1
  <2>1. Len(K) = Len(L) + Len(nl)
    BY <1>1, <1>9, Joined
  <2> QED BY <1>a, <2>1
<1>11. PICK Q : Q = Cat(P, K)
  OBVIOUS
<1>12. Q \in Text
  BY <1>10, <1>11, Joined
<1>e. Len(Q) = m
  <2>1. Len(Q) = Len(P) + Len(K)
    BY <1>10, <1>11, Joined
  <2> QED BY <1>6, <1>7, <1>d, <2>1
<1>13. g = Cat(Q, u)
  <2>1. Cat(L, Cat(nl, u)) = Cat(K, u)
    BY <1>1, <1>5, <1>9, JoinedInAnyOrder
  <2>2. Cat(P, Cat(K, u)) = Cat(Q, u)
    BY <1>5, <1>10, <1>11, JoinedInAnyOrder
  <2>3. g = Cat(P, Cat(L, Cat(nl, u)))
    BY <1>0, <1>2, <1>4
  <2> QED BY <2>1, <2>2, <2>3
<1>14. After(g, m) = b
  <2>0. g = Cat(Q, Cat(skv, Cat(NL, T)))
    BY <1>0, <1>2, <1>4, <1>13
  <2>1. After(g, Len(Q)) = Len(Q) + Len(skv) + 1
    BY <1>1, <1>12, <2>0, LineFollowed
  <2>2. m + 2 + 1 = b
    BY <1>6, <1>7
  <2> QED BY <1>a, <1>e, <2>1, <2>2
<1>15. ~(m > Len(g)) /\ ~(n > Len(g)) /\ n <= Len(g) /\ n \in 0..(Len(g) + 1)
  BY <1>6, <1>7, <1>8
<1>16. G[n] = Piece(g, h, FALSE, G, n)
  BY <1>15 DEF Copying
<1>17. BehindClusters(g, n) = b
  BY <1>8, <1>14 DEF BehindClusters
<1>18. G[n] = Cat(Cat(Cat(Cat(L, NL), SkvLine(h)), NL), G[b])
  BY <1>8, <1>15, <1>16, <1>17 DEF Piece, NL, Cat
<1> QED BY <1>6, <1>18

LEMMA NothingWritten ==
  ASSUME NEW g \in Text, NEW h \in Hosts, NEW G, Copying(g, h, G),
         NEW P \in Text, g = Cat(P, <<>>)
  PROVE  G[Len(P)] = <<>>
<1>1. PICK L : L = <<>>
  OBVIOUS
<1>2. L \in Text /\ OneLine(L) /\ g = Cat(P, L)
  BY <1>1, EmptySeq DEF Text, OneLine
<1>3. ~Holds(L, Clusters)
  <2>1. Len(L) = 0
    BY <1>1
  <2> QED BY <2>1 DEF Holds
<1>4. G[Len(P)] = L
  BY <1>2, <1>3, LastWritten
<1> QED BY <1>1, <1>4

(* The next line begins behind the line and its newline.                   *)
LEMMA NextBegins ==
  ASSUME NEW file \in Text, NEW n \in 0..Len(file)
  PROVE  /\ LineAt(file, n) \in Text /\ OneLine(LineAt(file, n))
         /\ n < After(file, n) /\ After(file, n) \in 0..(Len(file) + 1)
<1>1. /\ LineAt(file, n) \in Seq(Alphabet) /\ Len(LineAt(file, n)) \in Nat
      /\ n + Len(LineAt(file, n)) <= Len(file)
      /\ \A i \in 1..Len(LineAt(file, n)) : LineAt(file, n)[i] # Newline
      /\ Len(file) \in Nat
  BY LineEnds DEF Text
<1>2. n < After(file, n) /\ After(file, n) \in 0..(Len(file) + 1)
  BY <1>1 DEF After
<1> QED BY <1>1, <1>2 DEF Text, OneLine

(* The copy of a copy from one line on, where the rest is copied as it is. *)
KeptOn(g, F, G, n) == \A Q \in Text : g = Cat(Q, F[n]) => G[Len(Q)] = F[n]

LEMMA KeptFrom ==
  ASSUME NEW file \in Text, NEW h \in Hosts, NEW F, Copying(file, h, F),
         NEW g \in Text, NEW G, Copying(g, h, G),
         NEW n \in 0..(Len(file) + 1),
         \A k \in 0..(Len(file) + 1) : n < k => KeptOn(g, F, G, k)
  PROVE  KeptOn(g, F, G, n)
<1> SUFFICES ASSUME NEW P \in Text, g = Cat(P, F[n])
             PROVE  G[Len(P)] = F[n]
  BY DEF KeptOn
<1>0. PICK nl, skv : nl = NL /\ skv = SkvLine(h)
  OBVIOUS
<1>1. nl \in Text /\ skv \in Text
  BY <1>0, PartsAre
<1>2. Len(nl) = 1 /\ Len(skv) = 2
  BY <1>0, PartsAre
<1>3. Len(file) \in Nat /\ Len(P) \in Nat
  BY LenProperties DEF Text
<1>4. F[n] = Piece(file, h, FALSE, F, n)
  BY DEF Copying
<1>5. CASE n > Len(file)
  <2>1. F[n] = <<>>
    BY <1>4, <1>5 DEF Piece
  <2> QED BY <2>1, NothingWritten
<1>6. CASE ~(n > Len(file))
  <2>0. n \in 0..Len(file)
    BY <1>3, <1>6
  <2>1. PICK L, a : L = LineAt(file, n) /\ a = After(file, n)
    OBVIOUS
  <2>2. L \in Text /\ OneLine(L)
    BY <2>0, <2>1, NextBegins
  <2>3. n < a /\ a \in 0..(Len(file) + 1)
    BY <2>0, <2>1, NextBegins
  <2>4. Len(L) \in Nat
    BY <2>2, LenProperties DEF Text
  <2>5. CASE Holds(L, Clusters)
    <3>1. PICK T : T = IF a > Len(file) THEN <<>> ELSE F[BehindClusters(file, n)]
      OBVIOUS
    <3>2. F[n] = Cat(Cat(Cat(Cat(L, nl), skv), nl), T)
      <4>1. n <= Len(file)
        BY <1>3, <1>6
      <4> QED BY <1>0, <1>4, <1>6, <2>1, <2>5, <3>1, <4>1 DEF Piece, Cat, NL
    <3>3. ~(a > Len(file)) => /\ BehindClusters(file, n) \in 0..(Len(file) + 1)
                              /\ n < BehindClusters(file, n)
      <4>1. SUFFICES ASSUME ~(a > Len(file))
                     PROVE  BehindClusters(file, n) \in 0..(Len(file) + 1) /\ n < BehindClusters(file, n)
        OBVIOUS
      <4>2. a \in 0..Len(file)
        BY <1>3, <2>3, <4>1
      <4>3. a < After(file, a) /\ After(file, a) \in 0..(Len(file) + 1)
        BY <4>2, NextBegins
      <4> QED BY <1>3, <2>1, <2>3, <4>3 DEF BehindClusters
    <3>4. T \in Text
      <4>1. CASE a > Len(file)
        BY <3>1, <4>1, EmptySeq DEF Text
      <4>2. CASE ~(a > Len(file))
        <5>1. T = F[BehindClusters(file, n)]
          BY <3>1, <4>2
        <5> QED BY <3>3, <4>2, <5>1 DEF Copying
      <4> QED BY <4>1, <4>2
    <3>5. PICK K, M, H : K = Cat(L, nl) /\ M = Cat(K, skv) /\ H = Cat(M, nl)
      OBVIOUS
    <3>6. K \in Text /\ M \in Text /\ H \in Text
      BY <1>1, <2>2, <3>5, Joined
    <3>7. Len(H) = Len(L) + 4
      <4>1. Len(K) = Len(L) + Len(nl) /\ Len(M) = Len(K) + Len(skv) /\ Len(H) = Len(M) + Len(nl)
        BY <1>1, <2>2, <3>5, <3>6, Joined
      <4> QED BY <1>2, <2>4, <4>1
    <3>8. PICK v, w, x : v = Cat(nl, T) /\ w = Cat(skv, v) /\ x = Cat(nl, w)
      OBVIOUS
    <3>9. v \in Text /\ w \in Text /\ x \in Text
      BY <1>1, <3>4, <3>8, Joined
    <3>10. Cat(H, T) = Cat(L, x)
      <4>1. Cat(H, T) = Cat(M, v)
        BY <1>1, <3>4, <3>5, <3>6, <3>8, JoinedInAnyOrder
      <4>2. Cat(M, v) = Cat(K, w)
        BY <1>1, <3>5, <3>6, <3>8, <3>9, JoinedInAnyOrder
      <4>3. Cat(K, w) = Cat(L, x)
        BY <1>1, <2>2, <3>5, <3>8, <3>9, JoinedInAnyOrder
      <4> QED BY <4>1, <4>2, <4>3
    <3>11. F[n] = Cat(H, T)
      BY <3>2, <3>5
    <3>12. G[Len(P)] = Cat(H, G[Len(P) + Len(L) + 4])
      <4>1. g = Cat(P, Cat(L, Cat(NL, Cat(SkvLine(h), Cat(NL, T)))))
        BY <1>0, <3>8, <3>10, <3>11
      <4>2. G[Len(P)] = Cat(Cat(Cat(Cat(L, NL), SkvLine(h)), NL), G[Len(P) + Len(L) + 4])
        BY <2>2, <2>5, <3>4, <4>1, HeaderWritten
      <4> QED BY <1>0, <3>5, <4>2
    <3>13. PICK Q : Q = Cat(P, H)
      OBVIOUS
    <3>14. Q \in Text /\ g = Cat(Q, T)
      <4>1. Q \in Text
        BY <3>6, <3>13, Joined
      <4>2. Cat(Q, T) = Cat(P, Cat(H, T))
        BY <3>4, <3>6, <3>13, JoinedInAnyOrder
      <4> QED BY <3>11, <4>1, <4>2
    <3>15. Len(Q) = Len(P) + Len(L) + 4
      <4>1. Len(Q) = Len(P) + Len(H)
        BY <3>6, <3>13, Joined
      <4> QED BY <1>3, <2>4, <3>7, <4>1
    <3>16. G[Len(Q)] = T
      <4>1. CASE a > Len(file)
        <5>1. T = <<>>
          BY <3>1, <4>1
        <5> QED BY <3>14, <5>1, NothingWritten
      <4>2. CASE ~(a > Len(file))
        <5>1. T = F[BehindClusters(file, n)]
          BY <3>1, <4>2
        <5> QED BY <3>3, <3>14, <4>2, <5>1 DEF KeptOn
      <4> QED BY <4>1, <4>2
    <3> QED BY <3>11, <3>12, <3>15, <3>16
  <2>6. CASE ~Holds(L, Clusters) /\ a > Len(file)
    <3>1. F[a] = <<>>
      BY <2>3, <2>6 DEF Copying, Piece
    <3>2. F[n] = Cat(Cat(L, <<>>), F[a])
      BY <1>4, <1>6, <2>1, <2>6 DEF Piece, Cat
    <3>3. F[n] = L
      BY <2>2, <3>1, <3>2, NothingJoined
    <3> QED BY <2>2, <2>6, <3>3, LastWritten
  <2>7. CASE ~Holds(L, Clusters) /\ ~(a > Len(file))
    <3>1. PICK T : T = F[a]
      OBVIOUS
    <3>2. T \in Text
      BY <2>3, <3>1 DEF Copying
    <3>3. PICK K, x : K = Cat(L, nl) /\ x = Cat(nl, T)
      OBVIOUS
    <3>4. K \in Text /\ x \in Text
      BY <1>1, <2>2, <3>2, <3>3, Joined
    <3>5. Len(K) = Len(L) + 1
      <4>1. Len(K) = Len(L) + Len(nl)
        BY <1>1, <2>2, <3>3, Joined
      <4> QED BY <1>2, <2>4, <4>1
    <3>6. F[n] = Cat(K, T)
      BY <1>0, <1>4, <1>6, <2>1, <2>7, <3>1, <3>3 DEF Piece, Cat, NL
    <3>7. Cat(K, T) = Cat(L, x)
      BY <1>1, <2>2, <3>2, <3>3, JoinedInAnyOrder
    <3>8. G[Len(P)] = Cat(K, G[Len(P) + Len(L) + 1])
      <4>1. g = Cat(P, Cat(L, Cat(NL, T)))
        BY <1>0, <3>3, <3>6, <3>7
      <4>2. G[Len(P)] = Cat(Cat(L, NL), G[Len(P) + Len(L) + 1])
        BY <2>2, <2>7, <3>2, <4>1, LineWritten
      <4> QED BY <1>0, <3>3, <4>2
    <3>9. PICK Q : Q = Cat(P, K)
      OBVIOUS
    <3>10. Q \in Text /\ g = Cat(Q, T)
      <4>1. Q \in Text
        BY <3>4, <3>9, Joined
      <4>2. Cat(Q, T) = Cat(P, Cat(K, T))
        BY <3>2, <3>4, <3>9, JoinedInAnyOrder
      <4> QED BY <3>6, <4>1, <4>2
    <3>11. Len(Q) = Len(P) + Len(L) + 1
      <4>1. Len(Q) = Len(P) + Len(K)
        BY <3>4, <3>9, Joined
      <4> QED BY <1>3, <2>4, <3>5, <4>1
    <3>12. G[Len(Q)] = T
      BY <2>3, <3>1, <3>10 DEF KeptOn
    <3> QED BY <3>6, <3>8, <3>11, <3>12
  <2> QED BY <2>5, <2>6, <2>7
<1> QED BY <1>5, <1>6

(* To copy a copy changes nothing.                                         *)
LEMMA CopyAgain ==
  ASSUME NEW file \in Text, NEW h \in Hosts
  PROVE  CopyOf(file, h, FALSE) \in Text
         /\ CopyOf(CopyOf(file, h, FALSE), h, FALSE) = CopyOf(file, h, FALSE)
<1>0. file \in Seq(Alphabet) /\ Len(file) \in Nat
  BY LenProperties DEF Text
<1>1. PICK F : CopyOf(file, h, FALSE) = F[0] /\ Copying(file, h, F)
  BY <1>0, CopyExists DEF Copying, Text
<1>2. PICK g : g = CopyOf(file, h, FALSE)
  OBVIOUS
<1>3. g \in Text
  <2>1. 0 \in 0..(Len(file) + 1)
    BY <1>0
  <2> QED BY <1>1, <1>2, <2>1 DEF Copying
<1>4. PICK G : CopyOf(g, h, FALSE) = G[0] /\ Copying(g, h, G)
  <2>1. g \in Seq(Alphabet)
    BY <1>3 DEF Text
  <2> QED BY <2>1, CopyExists DEF Copying, Text
<1>5. PICK N : N = Len(file) + 1
  OBVIOUS
<1>6. N \in Nat
  BY <1>0, <1>5
<1> DEFINE D == {k \in 0..N : \A j \in 0..k : KeptOn(g, F, G, N - j)}
<1>7. 0 \in D
  <2>1. N \in 0..(Len(file) + 1) /\ \A k \in 0..(Len(file) + 1) : ~(N < k)
    BY <1>0, <1>5
  <2>2. KeptOn(g, F, G, N)
    BY <1>1, <1>3, <1>4, <2>1, KeptFrom
  <2>3. \A j \in 0..0 : N - j = N
    BY <1>6
  <2> QED BY <1>6, <2>2, <2>3
<1>8. ASSUME NEW k \in 1..N, k - 1 \in D PROVE k \in D
  <2>1. N - k \in 0..(Len(file) + 1)
    BY <1>0, <1>5
  <2>2. ASSUME NEW m \in 0..(Len(file) + 1), N - k < m PROVE KeptOn(g, F, G, m)
    <3>1. N - m \in 0..(k - 1) /\ N - (N - m) = m
      BY <1>0, <1>5, <2>2
    <3>2. KeptOn(g, F, G, N - (N - m))
      BY <1>8, <3>1
    <3> QED BY <3>1, <3>2
  <2>3. KeptOn(g, F, G, N - k)
    BY <1>1, <1>3, <1>4, <2>1, <2>2, KeptFrom
  <2>4. ASSUME NEW j \in 0..k PROVE KeptOn(g, F, G, N - j)
    <3>1. CASE j = k
      BY <2>3, <3>1
    <3>2. CASE j # k
      <4>1. j \in 0..(k - 1)
        BY <3>2
      <4> QED BY <1>8, <4>1
    <3> QED BY <3>1, <3>2
  <2>5. k \in 0..N
    BY <1>6
  <2> QED BY <2>4, <2>5
<1>9. N \in D
  <2> HIDE DEF D
  <2>1. \A k \in 0..N : k \in D
    BY <1>6, <1>7, <1>8, UpTo
  <2> QED BY <1>6, <2>1
<1>10. KeptOn(g, F, G, 0)
  <2>1. N \in 0..N /\ N - N = 0
    BY <1>6
  <2> QED BY <1>9, <2>1
<1>11. PICK e : e = <<>>
  OBVIOUS
<1>12. e \in Text /\ g = Cat(e, F[0])
  BY <1>1, <1>2, <1>3, <1>11, EmptySeq, NothingJoined DEF Text
<1>13. G[Len(e)] = F[0]
  BY <1>10, <1>12 DEF KeptOn
<1>14. Len(e) = 0
  BY <1>11
<1> QED BY <1>1, <1>2, <1>3, <1>4, <1>13, <1>14

(* Of a file whose last line is complete deal_skv_config keeps the lines   *)
(* before the last.                                                        *)
LEMMA CutExact ==
  ASSUME NEW file \in Seq(Alphabet), file # <<>>, Last(file) = Newline, Head(file) # Newline
  PROVE  SubSeq(file, 1, CutAt(file)) = LinesBeforeLast(file)
<1>1. PICK N : N = Len(file)
  OBVIOUS
<1>2. N \in Nat /\ N # 0 /\ file[N] = Newline /\ file[1] # Newline
  <2>1. Len(file) \in Nat /\ Len(file) # 0
    BY LenProperties, EmptySeq
  <2> QED BY <1>1, <2>1, HeadTailProperties DEF Last
<1>3. N >= 2
  BY <1>2
<1> DEFINE S == {0} \cup {k \in 1..(N - 1) : file[k] = Newline}
<1>4. LineStarts(Front(file)) = S
  <2>1. PICK f : f = Front(file)
    OBVIOUS
  <2>2. f \in Seq(Alphabet) /\ Len(f) = N - 1 /\ \A i \in 1..(N - 1) : f[i] = file[i]
    <3>1. PICK b : b = N - 1
      OBVIOUS
    <3>2. b \in Int /\ 1 \in Int /\ \A i \in 1..b : file[i] \in Alphabet
      BY <1>1, <1>2, <3>1, ElementOfSeq
    <3>3. /\ SubSeq(file, 1, b) \in Seq(Alphabet)
          /\ Len(SubSeq(file, 1, b)) = IF 1 <= b THEN b - 1 + 1 ELSE 0
          /\ \A i \in 1..(b - 1 + 1) : SubSeq(file, 1, b)[i] = file[1 + i - 1]
      BY <3>2, SubSeqProperties
    <3>4. f = SubSeq(file, 1, b)
      BY <1>1, <2>1, <3>1 DEF Front
    <3>5. b - 1 + 1 = b /\ 1 <= b
      BY <1>2, <1>3, <3>1
    <3>6. f \in Seq(Alphabet) /\ Len(f) = b /\ \A i \in 1..b : f[i] = file[1 + i - 1]
      BY <3>3, <3>4, <3>5
    <3>7. \A i \in 1..b : f[i] = file[i]
      <4>1. ASSUME NEW i \in 1..b PROVE f[i] = file[i]
        <5>1. 1 + i - 1 = i
          BY <3>2
        <5> QED BY <3>6, <5>1
      <4> QED BY <4>1
    <3> QED BY <3>1, <3>6, <3>7
  <2> QED BY <2>1, <2>2 DEF LineStarts
<1>5. {0} \cup {k \in 2..(N - 1) : file[k] = Newline} = S
  <2>1. \A k \in 1..(N - 1) : file[k] = Newline => k \in 2..(N - 1)
    BY <1>2
  <2>2. \A k \in 2..(N - 1) : k \in 1..(N - 1)
    BY <1>2
  <2> QED BY <2>1, <2>2
<1>6. PICK s : s = Max(S)
  OBVIOUS
<1>7. s \in S /\ \A y \in S : y <= s
  <2>1. N - 1 \in Nat /\ S # {}
    BY <1>2, <1>3
  <2>2. \A x \in S : x \in 0..(N - 1)
    BY <1>2, <1>3
  <2> HIDE DEF S
  <2> QED BY <1>6, <2>1, <2>2, MaxBounds
<1>8. s \in 0..(N - 1)
  BY <1>2, <1>7
<1>9. ScanFromEnd(file) = s /\ LinesBeforeLast(file) = SubSeq(file, 1, s)
  <2> HIDE DEF S
  <2> QED BY <1>1, <1>4, <1>5, <1>6 DEF ScanFromEnd, LinesBeforeLast
<1>10. PICK line : line = LineAt(file, s)
  OBVIOUS
<1>11. /\ Len(line) \in Nat /\ s + Len(line) <= N
       /\ \A i \in 1..Len(line) : line[i] = file[s + i] /\ line[i] # Newline
       /\ s + Len(line) < N => file[s + Len(line) + 1] = Newline
  <2>1. s \in 0..Len(file)
    BY <1>1, <1>2, <1>8
  <2> QED BY <1>1, <1>10, <2>1, LineEnds
<1>12. s + Len(line) < N
  <2>1. SUFFICES ASSUME s + Len(line) = N PROVE FALSE
    BY <1>2, <1>8, <1>11
  <2>2. Len(line) \in 1..Len(line)
    BY <1>2, <1>8, <1>11, <2>1
  <2> QED BY <1>2, <1>11, <2>1, <2>2
<1>13. s + Len(line) + 1 = N
  <2>1. SUFFICES ASSUME s + Len(line) + 1 < N PROVE FALSE
    BY <1>2, <1>8, <1>11, <1>12
  <2>2. s + Len(line) + 1 \in 1..(N - 1) /\ ~(s + Len(line) + 1 <= s)
    BY <1>2, <1>8, <1>11, <2>1
  <2>3. s + Len(line) + 1 \in S
    BY <1>11, <1>12, <2>2
  <2> QED BY <1>7, <2>2, <2>3
<1>14. CutAt(file) = s
  <2>1. LastLine(file) = line /\ FileLen(file) = N - 1
    BY <1>1, <1>2, <1>3, <1>9, <1>10 DEF LastLine, FileLen
  <2> QED BY <1>2, <1>8, <1>11, <1>13, <2>1 DEF CutAt
<1> QED BY <1>9, <1>14

(* What input_skv_config and deal_skv_config append: a line with the key   *)
(* and the host.                                                           *)
LEMMA LineAppended ==
  ASSUME NEW s \in Seq(Alphabet), NEW h \in Hosts
  PROVE  LET r == s \o SkvLine(h) \o <<Newline>>
         IN  /\ r \in Seq(Alphabet) /\ Len(r) = Len(s) + 3 /\ r[Len(s) + 1] = Key
             /\ \A i \in 1..Len(s) : r[i] = s[i]
<1>0. Len(s) \in Nat
  BY LenProperties
<1>1. PICK u, v : u = SkvLine(h) /\ v = <<Newline>>
  OBVIOUS
<1>2. u \in Seq(Alphabet) /\ Len(u) = 2 /\ u[1] = Key /\ v \in Seq(Alphabet) /\ Len(v) = 1
  <2>1. Newline \in Alphabet /\ Key \in Alphabet /\ h \in Alphabet
    BY DEF Alphabet
  <2> QED BY <1>1, <2>1 DEF SkvLine
<1>3. PICK q : q = s \o u
  OBVIOUS
<1>4. /\ q \in Seq(Alphabet) /\ Len(q) = Len(s) + 2
      /\ \A i \in 1..(Len(s) + 2) : q[i] = IF i <= Len(s) THEN s[i] ELSE u[i - Len(s)]
  <2>1. /\ s \o u \in Seq(Alphabet) /\ Len(s \o u) = Len(s) + Len(u)
        /\ \A i \in 1..(Len(s) + Len(u)) : (s \o u)[i] = IF i <= Len(s) THEN s[i] ELSE u[i - Len(s)]
    BY <1>2, ConcatProperties
  <2>2. Len(u) = 2
    BY <1>2
  <2> QED BY <1>3, <2>1, <2>2, Zenon
<1>5. /\ q \o v \in Seq(Alphabet) /\ Len(q \o v) = Len(s) + 2 + 1
      /\ \A i \in 1..(Len(s) + 2 + 1) : (q \o v)[i] = IF i <= Len(s) + 2 THEN q[i] ELSE v[i - (Len(s) + 2)]
  <2>1. /\ q \o v \in Seq(Alphabet) /\ Len(q \o v) = Len(q) + Len(v)
        /\ \A i \in 1..(Len(q) + Len(v)) : (q \o v)[i] = IF i <= Len(q) THEN q[i] ELSE v[i - Len(q)]
    <3>1. q \in Seq(Alphabet) /\ v \in Seq(Alphabet)
      BY <1>2, <1>4
    <3> QED BY <3>1, ConcatProperties
  <2>2. Len(q) = Len(s) + 2 /\ Len(v) = 1
    BY <1>2, <1>4
  <2> QED BY <2>1, <2>2, Zenon
<1>6. (q \o v)[Len(s) + 1] = Key
  <2>1. /\ Len(s) + 1 \in 1..(Len(s) + 2) /\ Len(s) + 1 \in 1..(Len(s) + 2 + 1) /\ Len(s) + 1 <= Len(s) + 2
        /\ ~(Len(s) + 1 <= Len(s)) /\ (Len(s) + 1) - Len(s) = 1
    BY <1>0
  <2> QED BY <1>2, <1>4, <1>5, <2>1
<1>7. \A i \in 1..Len(s) : (q \o v)[i] = s[i]
  <2>1. \A i \in 1..Len(s) : /\ i \in 1..(Len(s) + 2) /\ i \in 1..(Len(s) + 2 + 1)
                              /\ i <= Len(s) + 2 /\ i <= Len(s)
    BY <1>0
  <2> QED BY <1>4, <1>5, <2>1
<1>8. s \o SkvLine(h) \o <<Newline>> = q \o v
  BY <1>1, <1>3
<1>9. PICK r : r = q \o v
  OBVIOUS
<1>10. r \in Seq(Alphabet) /\ Len(r) = Len(s) + 3 /\ r[Len(s) + 1] = Key /\ \A i \in 1..Len(s) : r[i] = s[i]
  BY <1>0, <1>5, <1>6, <1>7, <1>9
<1> QED BY <1>8, <1>9, <1>10

------------------------------------------------------------------------------

(* Where the thread that deals and replaces may be.                        *)
EditorPlaces == {"idle", "truncate", "append", "copy", "remove", "rename", "ini"}

(* The files are text or gone, and who is in a call was given a host.      *)
ConfigTypes ==
  /\ src \in Seq(Alphabet) \cup {NoFile}
  /\ bak \in Seq(Alphabet) \cup {NoFile}
  /\ opened \in Seq(Alphabet)
  /\ at = [t \in All |-> at[t]] /\ host = [t \in All |-> host[t]]
  /\ at[Editor] \in EditorPlaces
  /\ \A t \in Threads : at[t] \in {"idle", "lock", "look", "input"}
  /\ \A t \in All : at[t] # "idle" => host[t] \in Hosts

(* The other edits are made while no thread inputs, and from its look at   *)
(* the file to its append a thread has the mutex.                          *)
InputAlone ==
  /\ at[Editor] # "idle" => \A t \in Threads : at[t] = "idle"
  /\ \A t \in Threads : at[t] \in {"look", "input"} => config_mutex_ = t
  /\ \A t \in Threads : at[t] = "input" => src # NoFile /\ SkvLines(src) = {}

(* The backup file ends with the copy of what was opened.                  *)
Copied == bak # NoFile /\ IsSuffix(CopyOf(opened, host[Editor], FALSE), bak)

(* Before config.ini is removed it is copied as it was opened, unless the  *)
(* copy failed.                                                            *)
EditorHas ==
  /\ src = NoFile => at[Editor] \in {"idle", "rename"} /\ (failed \/ Copied)
  /\ at[Editor] = "truncate" => cut \in Int /\ cut <= Len(src)
  /\ at[Editor] \in {"copy", "ini"} => bak # NoFile
  /\ at[Editor] = "copy" => src = opened
  /\ at[Editor] = "remove" => failed \/ Copied

(* What carries the proofs.                                                *)
CInv == ConfigTypes /\ InputAlone /\ EditorHas

(* The threads that input keep it.                                         *)
LEMMA InputKeeps ==
  ASSUME CInv, NEW t \in Threads,
         (\E h \in Hosts : InputBegin(t, h)) \/ InputLock(t) \/ InputReturns(t) \/ InputLook(t)
         \/ InputAppend(t) \/ InputFails(t)
  PROVE  CInv'
<1> USE ConfigAssumption
<1>0. t \in All /\ Editor \in All /\ t # Editor
  BY DEF All
<1>1. \A to : at' = [at EXCEPT ![t] = to] =>
        /\ at' = [u \in All |-> at'[u]] /\ at'[t] = to /\ \A u \in All : u # t => at'[u] = at[u]
  BY <1>0 DEF CInv, ConfigTypes
<1>2. Copied' = Copied \/ bak' # bak \/ opened' # opened \/ host'[Editor] # host[Editor]
  BY DEF Copied
<1>3. ASSUME NEW h \in Hosts, InputBegin(t, h) PROVE CInv'
  <2> USE <1>3 DEF InputBegin, Begin, history
  <2>1. /\ host' = [u \in All |-> host'[u]] /\ host'[t] = h /\ \A u \in All : u # t => host'[u] = host[u]
    BY <1>0 DEF CInv, ConfigTypes
  <2>2. /\ at' = [u \in All |-> at'[u]] /\ at'[t] = "lock" /\ \A u \in All : u # t => at'[u] = at[u]
    BY <1>1
  <2>3. ConfigTypes'
    BY <1>0, <2>1, <2>2 DEF CInv, ConfigTypes, All
  <2>4. InputAlone'
    BY <1>0, <2>2 DEF CInv, InputAlone, All
  <2>5. EditorHas'
    BY <1>0, <1>2, <2>1, <2>2 DEF CInv, EditorHas
  <2> QED BY <2>3, <2>4, <2>5 DEF CInv
<1>4. CASE InputLock(t)
  <2> USE <1>4 DEF InputLock, GoOn, history
  <2>1. /\ at' = [u \in All |-> at'[u]] /\ at'[t] = "look" /\ \A u \in All : u # t => at'[u] = at[u]
    BY <1>1
  <2>2. ConfigTypes'
    BY <1>0, <2>1 DEF CInv, ConfigTypes, All
  <2>3. config_mutex_ = Unlocked /\ config_mutex_' = t
    BY DEF MutexTaken
  <2>4. InputAlone'
    <3>1. at[Editor] = "idle"
      BY DEF CInv, InputAlone
    <3>2. \A u \in Threads : at[u] \notin {"look", "input"}
      BY <2>3 DEF CInv, InputAlone
    <3>3. \A u \in Threads : u # t => at'[u] \notin {"look", "input"}
      BY <2>1, <3>2 DEF All
    <3> QED BY <1>0, <2>1, <2>3, <3>1, <3>3 DEF InputAlone
  <2>5. EditorHas'
    BY <1>0, <1>2, <2>1 DEF CInv, EditorHas
  <2> QED BY <2>2, <2>4, <2>5 DEF CInv
<1>5. CASE InputReturns(t)
  <2> USE <1>5 DEF InputReturns, GoOn, history
  <2>1. /\ at' = [u \in All |-> at'[u]] /\ at'[t] = "idle" /\ \A u \in All : u # t => at'[u] = at[u]
    BY <1>1
  <2>2. ConfigTypes'
    BY <1>0, <2>1 DEF CInv, ConfigTypes, All
  <2>3. InputAlone'
    BY <1>0, <2>1 DEF CInv, InputAlone, All
  <2>4. EditorHas'
    BY <1>0, <1>2, <2>1 DEF CInv, EditorHas
  <2> QED BY <2>2, <2>3, <2>4 DEF CInv
<1>6. CASE InputLook(t)
  <2> USE <1>6 DEF InputLook, GoOn, history
  <2>1. /\ at' = [u \in All |-> at'[u]] /\ at'[t] = "input" /\ \A u \in All : u # t => at'[u] = at[u]
    BY <1>1
  <2>2. ConfigTypes'
    BY <1>0, <2>1 DEF CInv, ConfigTypes, All
  <2>3. InputAlone'
    BY <1>0, <2>1 DEF CInv, InputAlone, All
  <2>4. EditorHas'
    BY <1>0, <1>2, <2>1 DEF CInv, EditorHas
  <2> QED BY <2>2, <2>3, <2>4 DEF CInv
<1>7. CASE InputAppend(t)
  <2> USE <1>7 DEF InputAppend, GoOn, history
  <2>1. /\ at' = [u \in All |-> at'[u]] /\ at'[t] = "idle" /\ \A u \in All : u # t => at'[u] = at[u]
    BY <1>1
  <2>2. src \in Seq(Alphabet) /\ host[t] \in Hosts /\ at[Editor] = "idle" /\ config_mutex_ = t
    BY <1>0 DEF CInv, ConfigTypes, InputAlone
  <2>3. src' \in Seq(Alphabet) /\ src' # NoFile
    BY <2>2, LineAppended
  <2>4. ConfigTypes'
    BY <1>0, <2>1, <2>3 DEF CInv, ConfigTypes, All
  <2>5. \A u \in Threads : at'[u] \notin {"look", "input"}
    BY <2>1, <2>2 DEF CInv, InputAlone, All
  <2>6. InputAlone'
    BY <1>0, <2>1, <2>2, <2>5 DEF CInv, InputAlone, All
  <2>7. EditorHas'
    BY <1>0, <1>2, <2>1, <2>2, <2>3 DEF CInv, EditorHas
  <2> QED BY <2>4, <2>6, <2>7 DEF CInv
<1>8. CASE InputFails(t)
  <2> USE <1>8 DEF InputFails, GoOn, history
  <2>1. /\ at' = [u \in All |-> at'[u]] /\ at'[t] = "idle" /\ \A u \in All : u # t => at'[u] = at[u]
    BY <1>1
  <2>2. ConfigTypes'
    BY <1>0, <2>1 DEF CInv, ConfigTypes, All
  <2>3. at[Editor] = "idle" /\ config_mutex_ = t
    BY DEF CInv, InputAlone
  <2>4. \A u \in Threads : at'[u] \notin {"look", "input"}
    BY <2>1, <2>3 DEF CInv, InputAlone, All
  <2>5. InputAlone'
    BY <1>0, <2>1, <2>3, <2>4 DEF InputAlone
  <2>6. EditorHas'
    BY <1>0, <1>2, <2>1 DEF CInv, EditorHas
  <2> QED BY <2>2, <2>5, <2>6 DEF CInv
<1> QED BY <1>3, <1>4, <1>5, <1>6, <1>7, <1>8

(* What was written before a failure is text.                              *)
LEMMA BeginningIs ==
  ASSUME NEW s \in Seq(Alphabet), NEW w \in BeginningsOf(s)
  PROVE  w \in Seq(Alphabet)
<1>1. PICK n : n \in LineStarts(s) /\ w = SubSeq(s, 1, n)
  BY DEF BeginningsOf
<1>2. n \in Int /\ n <= Len(s)
  BY <1>1, LenProperties DEF LineStarts
<1>3. 1 \in Int /\ \A i \in 1..n : s[i] \in Alphabet
  BY <1>2, ElementOfSeq, LenProperties
<1> QED BY <1>1, <1>2, <1>3, SubSeqProperties

(* The thread that deals and replaces keeps it.                            *)
LEMMA EditorKeeps ==
  ASSUME CInv,
         \/ \E h \in Hosts : DealReturns(h) \/ DealBegin(h) \/ ReplaceBegin(h) \/ DealIni(h)
                            \/ ReplaceBeginFails(h) \/ DealIniFails(h)
         \/ DealTruncate \/ DealAppend \/ DealTruncateFails \/ DealAppendFails
         \/ ReplaceCopy \/ ReplaceRemove \/ ReplaceRename \/ DealIniCopy
         \/ ReplaceCopyFails \/ ReplaceRemoveFails \/ ReplaceRenameFails \/ DealIniCopyFails
  PROVE  CInv'
<1> USE ConfigAssumption
<1>0. Editor \in All /\ \A t \in Threads : t \in All /\ t # Editor
  BY DEF All
<1>1. \A to : at' = [at EXCEPT ![Editor] = to] =>
        /\ at' = [u \in All |-> at'[u]] /\ at'[Editor] = to /\ \A t \in Threads : at'[t] = at[t]
  BY <1>0 DEF CInv, ConfigTypes
<1>2. Copied' = Copied \/ bak' # bak \/ opened' # opened \/ host'[Editor] # host[Editor]
  BY DEF Copied
<1>3. \A u \in All : u = Editor \/ u \in Threads
  BY DEF All
<1>4. ASSUME NEW h \in Hosts, NEW first, EditBegin(h, first)
      PROVE  /\ src \in Seq(Alphabet) /\ opened' = src /\ \A t \in All : at[t] = "idle"
             /\ at' = [u \in All |-> at'[u]] /\ at'[Editor] = first
             /\ host' = [u \in All |-> host'[u]] /\ host'[Editor] = h
             /\ \A t \in Threads : at'[t] = "idle"
  <2> USE <1>4 DEF EditBegin, Begin
  <2>1. /\ src \in Seq(Alphabet) /\ opened' = src /\ \A t \in All : at[t] = "idle"
        /\ host' = [u \in All |-> host'[u]] /\ host'[Editor] = h
    BY <1>0 DEF CInv, ConfigTypes
  <2>2. /\ at' = [u \in All |-> at'[u]] /\ at'[Editor] = first /\ \A t \in Threads : at'[t] = at[t]
    BY <1>1
  <2> QED BY <1>0, <2>1, <2>2
<1>5. ASSUME NEW h \in Hosts, NEW first \in EditorPlaces, EditBegin(h, first),
             src' = src, bak' \in {bak, OpenedToAppend(bak)}
      PROVE  ConfigTypes' /\ InputAlone' /\ src' # NoFile /\ src' = opened'
  <2>1. /\ src \in Seq(Alphabet) /\ opened' = src /\ \A t \in All : at[t] = "idle"
        /\ at' = [u \in All |-> at'[u]] /\ at'[Editor] = first
        /\ host' = [u \in All |-> host'[u]] /\ host'[Editor] = h
        /\ \A t \in Threads : at'[t] = "idle"
    BY <1>4, <1>5
  <2>2. bak' \in Seq(Alphabet) \cup {NoFile}
    BY <1>5, EmptySeq DEF OpenedToAppend, CInv, ConfigTypes
  <2>3. ConfigTypes'
    BY <1>3, <1>5, <2>1, <2>2 DEF ConfigTypes
  <2>4. InputAlone'
    BY <2>1 DEF InputAlone
  <2> QED BY <1>5, <2>1, <2>3, <2>4
<1>6. ASSUME NEW h \in Hosts, DealReturns(h) PROVE CInv'
  <2>1. EditBegin(h, "idle") /\ src' = src /\ bak' = bak /\ "idle" \in EditorPlaces
    BY <1>6 DEF DealReturns, EditorPlaces
  <2>2. ConfigTypes' /\ InputAlone' /\ src' # NoFile /\ src' = opened' /\ at'[Editor] = "idle"
    BY <1>4, <1>5, <2>1
  <2>3. EditorHas'
    BY <2>2 DEF EditorHas
  <2> QED BY <2>2, <2>3 DEF CInv
<1>7. ASSUME NEW h \in Hosts, DealBegin(h) PROVE CInv'
  <2>1. /\ EditBegin(h, "truncate") /\ src' = src /\ bak' = bak /\ "truncate" \in EditorPlaces
        /\ cut' = CutAt(src)
    BY <1>7 DEF DealBegin, EditorPlaces
  <2>2. /\ ConfigTypes' /\ InputAlone' /\ src' # NoFile /\ src' = opened' /\ at'[Editor] = "truncate"
        /\ src \in Seq(Alphabet)
    BY <1>4, <1>5, <2>1
  <2>3. cut' \in Int /\ cut' <= Len(src')
    BY <2>1, <2>2, CutIs
  <2>4. EditorHas'
    BY <2>2, <2>3 DEF EditorHas
  <2> QED BY <2>2, <2>4 DEF CInv
<1>8. OpenedToAppend(bak) \in Seq(Alphabet) /\ OpenedToAppend(bak) # NoFile
  BY EmptySeq DEF OpenedToAppend, CInv, ConfigTypes
<1>9. ASSUME NEW h \in Hosts, ReplaceBegin(h) PROVE CInv'
  <2>1. EditBegin(h, "copy") /\ src' = src /\ bak' = OpenedToAppend(bak) /\ "copy" \in EditorPlaces
    BY <1>9 DEF ReplaceBegin, EditorPlaces
  <2>2. ConfigTypes' /\ InputAlone' /\ src' # NoFile /\ src' = opened' /\ at'[Editor] = "copy"
    BY <1>4, <1>5, <2>1
  <2>3. EditorHas'
    BY <1>8, <2>1, <2>2 DEF EditorHas
  <2> QED BY <2>2, <2>3 DEF CInv
<1>10. ASSUME NEW h \in Hosts, DealIni(h) PROVE CInv'
  <2>1. EditBegin(h, "ini") /\ src' = src /\ bak' = OpenedToAppend(bak) /\ "ini" \in EditorPlaces
    BY <1>10 DEF DealIni, EditorPlaces
  <2>2. ConfigTypes' /\ InputAlone' /\ src' # NoFile /\ src' = opened' /\ at'[Editor] = "ini"
    BY <1>4, <1>5, <2>1
  <2>3. EditorHas'
    BY <1>8, <2>1, <2>2 DEF EditorHas
  <2> QED BY <2>2, <2>3 DEF CInv
<1>11. ASSUME at[Editor] # "idle", NEW to \in EditorPlaces, GoOn(Editor, to), UNCHANGED <<host, opened>>,
              src' \in Seq(Alphabet) \cup {NoFile}, bak' \in Seq(Alphabet) \cup {NoFile}
       PROVE  ConfigTypes' /\ InputAlone' /\ at'[Editor] = to /\ host[Editor] \in Hosts
  <2>1. /\ at' = [u \in All |-> at'[u]] /\ at'[Editor] = to /\ \A t \in Threads : at'[t] = at[t]
    BY <1>1, <1>11 DEF GoOn
  <2>2. \A t \in Threads : at'[t] = "idle"
    BY <1>11, <2>1 DEF CInv, InputAlone
  <2>3. host[Editor] \in Hosts
    BY <1>0, <1>11 DEF CInv, ConfigTypes
  <2>4. ConfigTypes'
    BY <1>3, <1>11, <2>1, <2>2, <2>3 DEF CInv, ConfigTypes
  <2>5. InputAlone'
    BY <2>2 DEF InputAlone
  <2> QED BY <2>1, <2>3, <2>4, <2>5
<1>12. CASE DealTruncate
  <2>1. at[Editor] = "truncate" /\ src' = SubSeq(src, 1, cut) /\ GoOn(Editor, "append")
        /\ UNCHANGED <<bak, host, opened>> /\ "append" \in EditorPlaces
    BY <1>12 DEF DealTruncate, EditorPlaces, history
  <2>2. src \in Seq(Alphabet) /\ cut \in Int /\ cut <= Len(src) /\ bak \in Seq(Alphabet) \cup {NoFile}
    BY <2>1 DEF CInv, ConfigTypes, EditorHas
  <2>3. src' \in Seq(Alphabet)
    <3>1. 1 \in Int /\ \A i \in 1..cut : src[i] \in Alphabet
      BY <2>2, ElementOfSeq, LenProperties
    <3> QED BY <2>1, <2>2, <3>1, SubSeqProperties
  <2>4. ConfigTypes' /\ InputAlone' /\ at'[Editor] = "append"
    BY <1>11, <2>1, <2>2, <2>3
  <2>5. EditorHas'
    BY <2>3, <2>4 DEF EditorHas
  <2> QED BY <2>4, <2>5 DEF CInv
<1>13. CASE DealAppend
  <2>1. at[Editor] = "append" /\ src' = src \o SkvLine(host[Editor]) \o <<Newline>> /\ GoOn(Editor, "idle")
        /\ UNCHANGED <<bak, host, opened>> /\ "idle" \in EditorPlaces
    BY <1>13 DEF DealAppend, EditorPlaces, history
  <2>2. src \in Seq(Alphabet) /\ host[Editor] \in Hosts /\ bak \in Seq(Alphabet) \cup {NoFile}
    BY <1>0, <2>1 DEF CInv, ConfigTypes, EditorHas
  <2>3. src' \in Seq(Alphabet)
    BY <2>1, <2>2, LineAppended
  <2>4. ConfigTypes' /\ InputAlone' /\ at'[Editor] = "idle"
    BY <1>11, <2>1, <2>2, <2>3
  <2>5. EditorHas'
    BY <2>3, <2>4 DEF EditorHas
  <2> QED BY <2>4, <2>5 DEF CInv
<1>14. CASE ReplaceCopy
  <2>1. at[Editor] = "copy" /\ bak' = bak \o CopyOf(src, host[Editor], FALSE) /\ GoOn(Editor, "remove")
        /\ UNCHANGED <<src, host, opened>> /\ "remove" \in EditorPlaces
    BY <1>14 DEF ReplaceCopy, EditorPlaces, history
  <2>2. src = opened /\ src \in Seq(Alphabet) /\ bak \in Seq(Alphabet) /\ host[Editor] \in Hosts
    BY <1>0, <2>1 DEF CInv, ConfigTypes, EditorHas
  <2>3. PICK c : c = CopyOf(src, host[Editor], FALSE)
    OBVIOUS
  <2>4. bak' \in Seq(Alphabet) /\ IsSuffix(c, bak')
    <3>1. c \in Seq(Alphabet)
      BY <2>2, <2>3, CopyIs
    <3> QED BY <2>1, <2>2, <2>3, <3>1, AppendedSuffix
  <2>5. ConfigTypes' /\ InputAlone' /\ at'[Editor] = "remove"
    BY <1>11, <2>1, <2>2, <2>4
  <2>6. Copied'
    BY <2>1, <2>2, <2>3, <2>4 DEF Copied
  <2>7. EditorHas'
    BY <2>1, <2>2, <2>5, <2>6 DEF EditorHas
  <2> QED BY <2>5, <2>7 DEF CInv
<1>15. CASE ReplaceRemove
  <2>1. at[Editor] = "remove" /\ src' = NoFile /\ GoOn(Editor, "rename")
        /\ UNCHANGED <<bak, host, opened, failed>> /\ "rename" \in EditorPlaces
    BY <1>15 DEF ReplaceRemove, EditorPlaces, history
  <2>2. bak \in Seq(Alphabet) \cup {NoFile} /\ (failed \/ Copied)
    BY <2>1 DEF CInv, ConfigTypes, EditorHas
  <2>3. ConfigTypes' /\ InputAlone' /\ at'[Editor] = "rename"
    BY <1>11, <2>1, <2>2
  <2>4. EditorHas'
    BY <1>2, <2>1, <2>2, <2>3 DEF EditorHas
  <2> QED BY <2>3, <2>4 DEF CInv
<1>16. CASE ReplaceRename
  <2>1. at[Editor] = "rename" /\ src' = bak /\ bak # NoFile /\ bak' = NoFile /\ GoOn(Editor, "idle")
        /\ UNCHANGED <<host, opened>> /\ "idle" \in EditorPlaces
    BY <1>16 DEF ReplaceRename, EditorPlaces, history
  <2>2. bak \in Seq(Alphabet)
    BY <2>1 DEF CInv, ConfigTypes
  <2>3. ConfigTypes' /\ InputAlone' /\ at'[Editor] = "idle"
    BY <1>11, <2>1, <2>2
  <2>4. EditorHas'
    BY <2>1, <2>2, <2>3 DEF EditorHas
  <2> QED BY <2>3, <2>4 DEF CInv
<1>17. CASE DealIniCopy
  <2>1. at[Editor] = "ini" /\ bak' = bak \o CopyOf(src, host[Editor], TRUE) /\ GoOn(Editor, "idle")
        /\ UNCHANGED <<src, host, opened>> /\ "idle" \in EditorPlaces
    BY <1>17 DEF DealIniCopy, EditorPlaces
  <2>2. src \in Seq(Alphabet) /\ bak \in Seq(Alphabet) /\ host[Editor] \in Hosts
    BY <1>0, <2>1 DEF CInv, ConfigTypes, EditorHas
  <2>3. bak' \in Seq(Alphabet)
    <3>1. PICK c : c = CopyOf(src, host[Editor], TRUE)
      OBVIOUS
    <3>2. c \in Seq(Alphabet)
      BY <2>2, <3>1, CopyIs
    <3> QED BY <2>1, <2>2, <3>1, <3>2, AppendedSuffix
  <2>4. ConfigTypes' /\ InputAlone' /\ at'[Editor] = "idle"
    BY <1>11, <2>1, <2>2, <2>3
  <2>5. EditorHas'
    BY <2>1, <2>2, <2>4 DEF EditorHas
  <2> QED BY <2>4, <2>5 DEF CInv
<1>18. ASSUME NEW h \in Hosts, ReplaceBeginFails(h) PROVE CInv'
  <2>1. EditBegin(h, "remove") /\ src' = src /\ bak' = bak /\ failed' = TRUE /\ "remove" \in EditorPlaces
    BY <1>18 DEF ReplaceBeginFails, EditorPlaces
  <2>2. ConfigTypes' /\ InputAlone' /\ src' # NoFile /\ src' = opened' /\ at'[Editor] = "remove"
    BY <1>4, <1>5, <2>1
  <2>3. EditorHas'
    BY <2>1, <2>2 DEF EditorHas
  <2> QED BY <2>2, <2>3 DEF CInv
<1>19. ASSUME NEW h \in Hosts, DealIniFails(h) PROVE CInv'
  <2>1. EditBegin(h, "idle") /\ src' = src /\ bak' = bak /\ "idle" \in EditorPlaces
    BY <1>19 DEF DealIniFails, EditorPlaces
  <2>2. ConfigTypes' /\ InputAlone' /\ src' # NoFile /\ src' = opened' /\ at'[Editor] = "idle"
    BY <1>4, <1>5, <2>1
  <2>3. EditorHas'
    BY <2>2 DEF EditorHas
  <2> QED BY <2>2, <2>3 DEF CInv
<1>20. ASSUME NEW from \in EditorPlaces, NEW to \in EditorPlaces, at[Editor] = from, from # "idle", GoOn(Editor, to),
              UNCHANGED <<src, bak, host, opened>>
       PROVE  ConfigTypes' /\ InputAlone' /\ at'[Editor] = to
  <2>1. src \in Seq(Alphabet) \cup {NoFile} /\ bak \in Seq(Alphabet) \cup {NoFile}
    BY DEF CInv, ConfigTypes
  <2> QED BY <1>11, <1>20, <2>1
<1>21. CASE DealTruncateFails
  <2>1. at[Editor] = "truncate" /\ GoOn(Editor, "append") /\ UNCHANGED <<src, bak, host, opened>>
        /\ "truncate" \in EditorPlaces /\ "append" \in EditorPlaces
    BY <1>21 DEF DealTruncateFails, EditorPlaces
  <2>2. ConfigTypes' /\ InputAlone' /\ at'[Editor] = "append"
    BY <1>20, <2>1
  <2>3. src' # NoFile
    BY <2>1 DEF CInv, EditorHas
  <2>4. EditorHas'
    BY <2>2, <2>3 DEF EditorHas
  <2> QED BY <2>2, <2>4 DEF CInv
<1>22. CASE DealAppendFails
  <2>1. at[Editor] = "append" /\ GoOn(Editor, "idle") /\ UNCHANGED <<src, bak, host, opened>>
        /\ "append" \in EditorPlaces /\ "idle" \in EditorPlaces
    BY <1>22 DEF DealAppendFails, EditorPlaces, history
  <2>2. ConfigTypes' /\ InputAlone' /\ at'[Editor] = "idle"
    BY <1>20, <2>1
  <2>3. src' # NoFile
    BY <2>1 DEF CInv, EditorHas
  <2>4. EditorHas'
    BY <2>2, <2>3 DEF EditorHas
  <2> QED BY <2>2, <2>4 DEF CInv
<1>23. ASSUME NEW withDataDir \in BOOLEAN, at[Editor] \in {"copy", "ini"},
              NEW written \in BeginningsOf(CopyOf(src, host[Editor], withDataDir)), bak' = bak \o written
       PROVE  bak' \in Seq(Alphabet) /\ src \in Seq(Alphabet)
  <2>1. src \in Seq(Alphabet) /\ bak \in Seq(Alphabet) /\ host[Editor] \in Hosts
    BY <1>0, <1>23 DEF CInv, ConfigTypes, EditorHas
  <2>2. PICK c : c = CopyOf(src, host[Editor], withDataDir)
    OBVIOUS
  <2>3. c \in Seq(Alphabet)
    BY <2>1, <2>2, CopyIs
  <2>4. written \in Seq(Alphabet)
    BY <1>23, <2>2, <2>3, BeginningIs
  <2> QED BY <1>23, <2>1, <2>4, AppendedSuffix
<1>24. CASE ReplaceCopyFails
  <2>1. PICK written \in BeginningsOf(CopyOf(src, host[Editor], FALSE)) : bak' = bak \o written
    BY <1>24 DEF ReplaceCopyFails
  <2>2. at[Editor] = "copy" /\ failed' = TRUE /\ GoOn(Editor, "remove") /\ UNCHANGED <<src, host, opened>>
        /\ "remove" \in EditorPlaces
    BY <1>24 DEF ReplaceCopyFails, EditorPlaces
  <2>3. bak' \in Seq(Alphabet) /\ src \in Seq(Alphabet)
    BY <1>23, <2>1, <2>2
  <2>4. ConfigTypes' /\ InputAlone' /\ at'[Editor] = "remove"
    BY <1>11, <2>2, <2>3
  <2>5. EditorHas'
    BY <2>2, <2>3, <2>4 DEF EditorHas
  <2> QED BY <2>4, <2>5 DEF CInv
<1>25. CASE DealIniCopyFails
  <2>1. PICK written \in BeginningsOf(CopyOf(src, host[Editor], TRUE)) : bak' = bak \o written
    BY <1>25 DEF DealIniCopyFails
  <2>2. at[Editor] = "ini" /\ GoOn(Editor, "idle") /\ UNCHANGED <<src, host, opened>> /\ "idle" \in EditorPlaces
    BY <1>25 DEF DealIniCopyFails, EditorPlaces
  <2>3. bak' \in Seq(Alphabet) /\ src \in Seq(Alphabet)
    BY <1>23, <2>1, <2>2
  <2>4. ConfigTypes' /\ InputAlone' /\ at'[Editor] = "idle"
    BY <1>11, <2>2, <2>3
  <2>5. EditorHas'
    BY <2>2, <2>3, <2>4 DEF EditorHas
  <2> QED BY <2>4, <2>5 DEF CInv
<1>26. CASE ReplaceRemoveFails
  <2>1. at[Editor] = "remove" /\ GoOn(Editor, "rename") /\ UNCHANGED <<src, bak, host, opened>>
        /\ "remove" \in EditorPlaces /\ "rename" \in EditorPlaces
    BY <1>26 DEF ReplaceRemoveFails, EditorPlaces, history
  <2>2. ConfigTypes' /\ InputAlone' /\ at'[Editor] = "rename"
    BY <1>20, <2>1
  <2>3. src' # NoFile
    BY <2>1 DEF CInv, EditorHas
  <2>4. EditorHas'
    BY <2>2, <2>3 DEF EditorHas
  <2> QED BY <2>2, <2>4 DEF CInv
<1>27. CASE ReplaceRenameFails
  <2>1. at[Editor] = "rename" /\ GoOn(Editor, "idle") /\ UNCHANGED <<src, bak, host, opened, failed>>
        /\ "rename" \in EditorPlaces /\ "idle" \in EditorPlaces
    BY <1>27 DEF ReplaceRenameFails, EditorPlaces
  <2>2. ConfigTypes' /\ InputAlone' /\ at'[Editor] = "idle"
    BY <1>20, <2>1
  <2>3. src = NoFile => failed \/ Copied
    BY DEF CInv, EditorHas
  <2>4. EditorHas'
    BY <1>2, <2>1, <2>2, <2>3 DEF EditorHas
  <2> QED BY <2>2, <2>4 DEF CInv
<1> QED BY <1>6, <1>7, <1>9, <1>10, <1>12, <1>13, <1>14, <1>15, <1>16, <1>17, <1>18, <1>19, <1>21, <1>22, <1>24,
           <1>25, <1>26, <1>27

(* A crash leaves the files as they are.                                   *)
LEMMA CrashKeeps == ASSUME CInv, Crash PROVE CInv'
<1>1. /\ at' = [t \in All |-> "idle"] /\ UNCHANGED <<src, bak, host, cut, opened, failed>>
  BY DEF Crash
<1>2. at'[Editor] = "idle" /\ \A t \in Threads : at'[t] = "idle"
  BY <1>1 DEF All
<1>3. Copied' = Copied
  BY <1>1 DEF Copied
<1>4. ConfigTypes'
  BY <1>1, <1>2 DEF CInv, ConfigTypes, EditorPlaces
<1>5. InputAlone'
  BY <1>2 DEF InputAlone
<1>6. EditorHas'
  BY <1>1, <1>2, <1>3 DEF CInv, EditorHas
<1> QED BY <1>4, <1>5, <1>6 DEF CInv

(* It holds throughout.                                                    *)
LEMMA ConfigInvariant == CfgSpec => []CInv
<1>1. CfgInit => CInv
  <2> SUFFICES ASSUME CfgInit PROVE CInv
    OBVIOUS
  <2> USE ConfigAssumption DEF CfgInit
  <2>1. src \in Seq(Alphabet) /\ opened = src /\ src # NoFile /\ Editor \in All /\ Threads \subseteq All
    BY DEF All
  <2>2. \A t \in All : at[t] = "idle"
    OBVIOUS
  <2>3. ConfigTypes
    BY <2>1, <2>2 DEF ConfigTypes, EditorPlaces
  <2>4. InputAlone /\ EditorHas
    BY <2>1, <2>2 DEF InputAlone, EditorHas
  <2> QED BY <2>3, <2>4 DEF CInv
<1>2. CInv /\ [CfgNext]_cfgVars => CInv'
  <2> SUFFICES ASSUME CInv, [CfgNext]_cfgVars PROVE CInv'
    OBVIOUS
  <2>1. CASE UNCHANGED cfgVars
    BY <2>1 DEF cfgVars, history, CInv, ConfigTypes, InputAlone, EditorHas, Copied
  <2> QED BY <2>1, InputKeeps, EditorKeeps, CrashKeeps DEF CfgNext
<1> QED BY <1>1, <1>2, PTL DEF CfgSpec

(* For any threads, hosts and files, and any number of edits and crashes:  *)
(* when config.ini is gone the backup file ends with a complete copy of it,*)
(* unless the last replace_skv_config could not open or not write the copy:*)
(* no crash and no other operation that fails loses the contents.          *)
THEOREM ConfigKeptSomewhere == CfgSpec => []KeptSomewhere
<1>1. CInv => KeptSomewhere
  BY DEF CInv, EditorHas, Copied, KeptSomewhere
<1> QED BY <1>1, ConfigInvariant, PTL

(* For any threads that race to add a host: nothing input_skv_config adds  *)
(* was there already, and where the last line was complete the next call   *)
(* finds what this one added.                                              *)
THEOREM ConfigInputOnce == CfgSpec => InputOnce
<1>1. ASSUME CInv, NEW t \in Threads, InputAppend(t)
      PROVE  /\ SkvLines(src) = {}
             /\ Len(src) = 0 \/ Last(src) = Newline => SkvLines(src') # {}
  <2>1. /\ at[t] = "input" /\ src' = src \o SkvLine(host[t]) \o <<Newline>>
    BY <1>1 DEF InputAppend
  <2>2. SkvLines(src) = {} /\ src \in Seq(Alphabet) /\ host[t] \in Hosts
    BY <1>1, <2>1 DEF CInv, InputAlone, ConfigTypes, All
  <2>3. ASSUME Len(src) = 0 \/ Last(src) = Newline PROVE SkvLines(src') # {}
    <3>1. PICK file, n : file = src' /\ n = Len(src)
      OBVIOUS
    <3>2. /\ file \in Seq(Alphabet) /\ Len(file) = n + 3 /\ file[n + 1] = Key
          /\ \A i \in 1..n : file[i] = src[i]
      BY <2>1, <2>2, <3>1, LineAppended
    <3>3. n \in Nat
      BY <2>2, <3>1, LenProperties
    <3>4. n \in LineStarts(file)
      BY <2>3, <3>1, <3>2, <3>3 DEF LineStarts, Last
    <3>5. PICK line : line = LineAt(file, n)
      OBVIOUS
    <3>6. line \in Seq(Alphabet) /\ Len(line) >= 1 /\ line[1] = Key
      <4>1. n \in 0..Len(file) /\ n < Len(file) /\ file[n + 1] # Newline
        BY <3>2, <3>3, ConfigAssumption
      <4> QED BY <3>2, <3>5, <4>1, LineIs
    <3>7. Head(line \o <<Other>>) = Key
      <4>1. PICK o : o = <<Other>>
        OBVIOUS
      <4>2. o \in Seq(Alphabet) /\ Len(o) = 1
        BY <4>1 DEF Alphabet
      <4>3. Len(line) \in Nat
        BY <3>6, LenProperties
      <4>4. /\ line \o o \in Seq(Alphabet) /\ Len(line \o o) = Len(line) + 1 /\ (line \o o)[1] = line[1]
        <5>1. /\ line \o o \in Seq(Alphabet) /\ Len(line \o o) = Len(line) + Len(o)
              /\ \A i \in 1..(Len(line) + Len(o)) :
                   (line \o o)[i] = IF i <= Len(line) THEN line[i] ELSE o[i - Len(line)]
          BY <3>6, <4>2, ConcatProperties
        <5>2. 1 \in 1..(Len(line) + Len(o)) /\ 1 <= Len(line)
          BY <3>6, <4>2, <4>3
        <5> QED BY <4>2, <5>1, <5>2
      <4>5. line \o o # <<>>
        BY <3>6, <4>3, <4>4
      <4>6. Head(line \o o) = (line \o o)[1]
        BY <4>4, <4>5, HeadTailProperties
      <4> QED BY <3>6, <4>1, <4>4, <4>6
    <3> QED BY <3>1, <3>4, <3>5, <3>7 DEF SkvLines
  <2> QED BY <2>2, <2>3
<1>2. CInv => [\A t \in Threads : InputAppend(t) =>
                 /\ SkvLines(src) = {}
                 /\ Len(src) = 0 \/ Last(src) = Newline => SkvLines(src') # {}]_cfgVars
  BY <1>1
<1> QED BY <1>2, ConfigInvariant, PTL DEF InputOnce

(* What the edits work on: deal_skv_config cuts what it opened where it    *)
(* found the last line, and as long as no backup file was left behind,     *)
(* there is none but that of replace_skv_config, which is the copy; each   *)
(* unless what the code does not check has failed.                         *)
EditorExact ==
  /\ at[Editor] = "truncate" => src = opened /\ cut = CutAt(opened)
  /\ at[Editor] = "append" => failed \/ src = SubSeq(opened, 1, CutAt(opened))
  /\ whole => /\ at[Editor] \in {"idle", "truncate", "append"} => bak = NoFile
              /\ at[Editor] = "copy" => bak = <<>>
              /\ at[Editor] \in {"remove", "rename"} => failed \/ bak = CopyOf(opened, host[Editor], FALSE)

LEMMA InputLeavesExact ==
  ASSUME CInv, EditorExact, NEW t \in Threads,
         (\E h \in Hosts : InputBegin(t, h)) \/ InputLock(t) \/ InputReturns(t) \/ InputLook(t)
         \/ InputAppend(t) \/ InputFails(t)
  PROVE  EditorExact'
<1>0. Editor \in All /\ t \in All /\ t # Editor
  BY ConfigAssumption DEF All
<1>1. at'[Editor] = at[Editor] /\ host'[Editor] = host[Editor] /\ UNCHANGED <<bak, cut, history>>
  <2>1. ASSUME NEW to, at' = [at EXCEPT ![t] = to] PROVE at'[Editor] = at[Editor]
    BY <1>0, <2>1 DEF CInv, ConfigTypes
  <2>2. ASSUME NEW h, host' = [host EXCEPT ![t] = h] PROVE host'[Editor] = host[Editor]
    BY <1>0, <2>2 DEF CInv, ConfigTypes
  <2> QED BY <2>1, <2>2 DEF InputBegin, Begin, InputLock, InputReturns, InputLook, InputAppend,
                              InputFails, GoOn
<1>2. at[Editor] # "idle" => src' = src
  <2>1. at[t] # "idle" => at[Editor] = "idle"
    BY <1>0 DEF CInv, InputAlone
  <2> QED BY <2>1 DEF InputBegin, InputLock, InputReturns, InputLook, InputAppend, InputFails
<1> QED BY <1>1, <1>2 DEF EditorExact, history

LEMMA EditorKeepsExact ==
  ASSUME CInv, EditorExact,
         \/ \E h \in Hosts : DealReturns(h) \/ DealBegin(h) \/ ReplaceBegin(h) \/ DealIni(h)
                            \/ ReplaceBeginFails(h) \/ DealIniFails(h)
         \/ DealTruncate \/ DealAppend \/ DealTruncateFails \/ DealAppendFails
         \/ ReplaceCopy \/ ReplaceRemove \/ ReplaceRename \/ DealIniCopy
         \/ ReplaceCopyFails \/ ReplaceRemoveFails \/ ReplaceRenameFails \/ DealIniCopyFails
  PROVE  EditorExact'
<1>0. Editor \in All
  BY DEF All
<1>1. ASSUME NEW to, at' = [at EXCEPT ![Editor] = to] PROVE at'[Editor] = to
  BY <1>0, <1>1 DEF CInv, ConfigTypes
<1>2. ASSUME NEW h, NEW first, EditBegin(h, first)
      PROVE  opened' = src /\ at[Editor] = "idle" /\ at'[Editor] = first
  BY <1>0, <1>1, <1>2 DEF EditBegin, Begin
<1>3. ASSUME NEW h \in Hosts, DealReturns(h) PROVE EditorExact'
  <2>1. at[Editor] = "idle" /\ at'[Editor] = "idle" /\ UNCHANGED <<bak, whole>>
    BY <1>2, <1>3 DEF DealReturns
  <2> QED BY <2>1 DEF EditorExact
<1>4. ASSUME NEW h \in Hosts, DealBegin(h) PROVE EditorExact'
  <2>1. at[Editor] = "idle" /\ at'[Editor] = "truncate" /\ opened' = src
    BY <1>2, <1>4 DEF DealBegin
  <2>2. UNCHANGED <<src, bak, whole>> /\ cut' = CutAt(src)
    BY <1>4 DEF DealBegin
  <2>3. src' = opened' /\ cut' = CutAt(opened')
    BY <2>1, <2>2
  <2>4. whole' => bak' = NoFile
    BY <2>1, <2>2 DEF EditorExact
  <2> QED BY <2>1, <2>3, <2>4 DEF EditorExact
<1>5. ASSUME NEW h \in Hosts, ReplaceBegin(h) PROVE EditorExact'
  <2>1. at[Editor] = "idle" /\ at'[Editor] = "copy" /\ bak' = OpenedToAppend(bak) /\ UNCHANGED whole
    BY <1>2, <1>5 DEF ReplaceBegin
  <2> QED BY <2>1 DEF EditorExact, OpenedToAppend
<1>6. ASSUME NEW h \in Hosts, DealIni(h) PROVE EditorExact'
  <2>1. at'[Editor] = "ini"
    BY <1>2, <1>6 DEF DealIni
  <2> QED BY <2>1 DEF EditorExact
<1>7. CASE DealTruncate
  <2>1. /\ at[Editor] = "truncate" /\ at'[Editor] = "append" /\ src' = SubSeq(src, 1, cut)
        /\ UNCHANGED <<bak, opened, whole>>
    BY <1>1, <1>7 DEF DealTruncate, GoOn, history
  <2>2. src' = SubSeq(opened', 1, CutAt(opened'))
    BY <2>1 DEF EditorExact
  <2>3. whole' => bak' = NoFile
    BY <2>1 DEF EditorExact
  <2> QED BY <2>1, <2>2, <2>3 DEF EditorExact
<1>8. CASE DealAppend
  <2>1. at[Editor] = "append" /\ at'[Editor] = "idle" /\ UNCHANGED <<bak, whole>>
    BY <1>1, <1>8 DEF DealAppend, GoOn, history
  <2> QED BY <2>1 DEF EditorExact
<1>9. CASE ReplaceCopy
  <2>1. /\ at[Editor] = "copy" /\ at'[Editor] = "remove" /\ bak' = Cat(bak, CopyOf(src, host[Editor], FALSE))
        /\ UNCHANGED <<host, opened, whole>>
    BY <1>1, <1>9 DEF ReplaceCopy, GoOn, Cat, history
  <2>2. src = opened /\ opened \in Seq(Alphabet) /\ host[Editor] \in Hosts
    BY <1>0, <2>1 DEF CInv, ConfigTypes, EditorHas
  <2>3. PICK c : c = CopyOf(opened, host[Editor], FALSE)
    OBVIOUS
  <2>4. c \in Text
    BY <2>2, <2>3, CopyIs DEF Text
  <2>5. whole => bak' = c
    <3>1. whole => bak = <<>>
      BY <2>1 DEF EditorExact
    <3> QED BY <2>1, <2>2, <2>3, <2>4, <3>1, NothingJoined
  <2>6. c = CopyOf(opened', host'[Editor], FALSE)
    BY <2>1, <2>3
  <2> QED BY <2>1, <2>5, <2>6 DEF EditorExact
<1>10. CASE ReplaceRemove
  <2>1. at[Editor] = "remove" /\ at'[Editor] = "rename" /\ UNCHANGED <<bak, host, opened, whole, failed>>
    BY <1>1, <1>10 DEF ReplaceRemove, GoOn, history
  <2> QED BY <2>1 DEF EditorExact
<1>11. CASE ReplaceRename
  <2>1. at'[Editor] = "idle" /\ bak' = NoFile
    BY <1>1, <1>11 DEF ReplaceRename, GoOn, history
  <2> QED BY <2>1 DEF EditorExact
<1>12. CASE DealIniCopy
  <2>1. at'[Editor] = "idle" /\ whole' = FALSE
    BY <1>1, <1>12 DEF DealIniCopy, GoOn
  <2> QED BY <2>1 DEF EditorExact
<1>13. ASSUME NEW h \in Hosts, ReplaceBeginFails(h) PROVE EditorExact'
  <2>1. at'[Editor] = "remove" /\ failed' = TRUE
    BY <1>2, <1>13 DEF ReplaceBeginFails
  <2> QED BY <2>1 DEF EditorExact
<1>14. ASSUME NEW h \in Hosts, DealIniFails(h) PROVE EditorExact'
  <2>1. at[Editor] = "idle" /\ at'[Editor] = "idle" /\ UNCHANGED <<bak, whole>>
    BY <1>2, <1>14 DEF DealIniFails
  <2> QED BY <2>1 DEF EditorExact
<1>15. CASE DealTruncateFails
  <2>1. /\ at[Editor] = "truncate" /\ at'[Editor] = "append" /\ failed' = TRUE /\ UNCHANGED <<bak, whole>>
    BY <1>1, <1>15 DEF DealTruncateFails, GoOn
  <2> QED BY <2>1 DEF EditorExact
<1>16. CASE DealAppendFails
  <2>1. at[Editor] = "append" /\ at'[Editor] = "idle" /\ UNCHANGED <<bak, whole>>
    BY <1>1, <1>16 DEF DealAppendFails, GoOn, history
  <2> QED BY <2>1 DEF EditorExact
<1>17. CASE ReplaceCopyFails
  <2>1. at'[Editor] = "remove" /\ failed' = TRUE
    BY <1>1, <1>17 DEF ReplaceCopyFails, GoOn
  <2> QED BY <2>1 DEF EditorExact
<1>18. CASE ReplaceRemoveFails
  <2>1. at[Editor] = "remove" /\ at'[Editor] = "rename" /\ UNCHANGED <<bak, host, opened, whole, failed>>
    BY <1>1, <1>18 DEF ReplaceRemoveFails, GoOn, history
  <2> QED BY <2>1 DEF EditorExact
<1>19. CASE ReplaceRenameFails
  <2>1. at'[Editor] = "idle" /\ bak' = bak /\ (whole' => bak = NoFile)
    BY <1>1, <1>19 DEF ReplaceRenameFails, GoOn
  <2> QED BY <2>1 DEF EditorExact
<1>20. CASE DealIniCopyFails
  <2>1. at'[Editor] = "idle" /\ whole' = FALSE
    BY <1>1, <1>20 DEF DealIniCopyFails, GoOn
  <2> QED BY <2>1 DEF EditorExact
<1> QED BY <1>3, <1>4, <1>5, <1>6, <1>7, <1>8, <1>9, <1>10, <1>11, <1>12, <1>13, <1>14, <1>15, <1>16, <1>17, <1>18,
           <1>19, <1>20

LEMMA CrashLeavesExact == ASSUME CInv, EditorExact, Crash PROVE EditorExact'
<1>1. /\ at' = [t \in All |-> "idle"] /\ bak' = bak
      /\ whole' => whole /\ at[Editor] \notin {"copy", "remove", "rename", "ini"}
  BY DEF Crash
<1>2. at'[Editor] = "idle" /\ at[Editor] \in EditorPlaces
  BY <1>1 DEF All, CInv, ConfigTypes
<1>3. whole' => bak' = NoFile
  BY <1>1, <1>2 DEF EditorExact, EditorPlaces
<1> QED BY <1>2, <1>3 DEF EditorExact

LEMMA ConfigExactInvariant == CfgSpec => []EditorExact
<1>1. CfgInit => EditorExact
  BY DEF CfgInit, EditorExact, All
<1>2. CInv /\ EditorExact /\ [CfgNext]_cfgVars => EditorExact'
  <2> SUFFICES ASSUME CInv, EditorExact, [CfgNext]_cfgVars PROVE EditorExact'
    OBVIOUS
  <2>1. CASE UNCHANGED cfgVars
    BY <2>1 DEF cfgVars, history, EditorExact
  <2> QED BY <2>1, InputLeavesExact, EditorKeepsExact, CrashLeavesExact DEF CfgNext
<1> QED BY <1>1, <1>2, ConfigInvariant, PTL DEF CfgSpec

(* For any threads, hosts and files, and any number of edits and crashes:  *)
(* deal_skv_config replaces exactly a last line that is complete, and      *)
(* replace_skv_config leaves a copy and nothing else, of which to replace  *)
(* the host once more would change nothing, unless what the code does not  *)
(* check has failed.                                                       *)
THEOREM ConfigEditsExact == CfgSpec => EditsExact
<1>1. ASSUME CInv, EditorExact, DealAppend PROVE DealtExactly
  <2>1. at[Editor] = "append" /\ src' = src \o SkvLine(host[Editor]) \o <<Newline>>
    BY <1>1 DEF DealAppend
  <2>2. (failed \/ src = SubSeq(opened, 1, CutAt(opened))) /\ opened \in Seq(Alphabet)
    BY <1>1, <2>1 DEF EditorExact, CInv, ConfigTypes
  <2>3. ASSUME ~failed, opened # <<>>, Last(opened) = Newline, Head(opened) # Newline
        PROVE  src = LinesBeforeLast(opened)
    BY <2>2, <2>3, CutExact
  <2> QED BY <2>1, <2>3 DEF DealtExactly
<1>2. ASSUME CInv, EditorExact, ReplaceRename PROVE ReplacedExactly
  <2>1. at[Editor] = "rename" /\ src' = bak
    BY <1>2 DEF ReplaceRename
  <2>2. opened \in Text /\ host[Editor] \in Hosts /\ (whole /\ ~failed => bak = CopyOf(opened, host[Editor], FALSE))
    BY <1>2, <2>1 DEF EditorExact, CInv, ConfigTypes, All, Text
  <2>3. PICK h, c : h = host[Editor] /\ c = CopyOf(opened, h, FALSE)
    OBVIOUS
  <2>4. CopyOf(c, h, FALSE) = c
    BY <2>2, <2>3, CopyAgain
  <2> QED BY <2>1, <2>2, <2>3, <2>4 DEF ReplacedExactly
<1>3. CInv /\ EditorExact => [/\ DealAppend => DealtExactly
                              /\ ReplaceRename => ReplacedExactly]_cfgVars
  BY <1>1, <1>2
<1> QED BY <1>3, ConfigInvariant, ConfigExactInvariant, PTL DEF EditsExact

------------------------------------------------------------------------------
(* testMutex in main.cpp                                                   *)

(* The count that carries the proof is that of the threads past their      *)
(* write; a thread between its read and its write has read the present     *)
(* number, since nobody else is between lock and unlock.                   *)
(* Where main and the threads may be.                                      *)
WorkerTypes == /\ mu \in Workers \cup {NoThread}
         /\ mu_num \in Nat
         /\ place \in [Workers -> {"none", "lock", "read", "write", "unlock", "exited"}]
         /\ seen \in [Workers -> Nat]
         /\ main \in {"create", "join", "printed", "stuck", "crashed"}
         /\ index \in 1..(NUM_THREADS + 1)
         /\ printed \in Nat

(* From its read to its unlock a thread has the lock.                      *)
LockHeld == \A t \in Workers : place[t] \in {"read", "write", "unlock"} => mu = t

(* What it has read is the present number.                                 *)
SeenIsPresent == \A t \in Workers : place[t] = "write" => seen[t] = mu_num

(* The threads that have written.                                          *)
Counted == {t \in Workers : place[t] \in {"unlock", "exited"}}

(* A thread that main has joined is over, and one it has yet to create has *)
(* not begun.                                                              *)
JoinedOver ==
  /\ main = "create" => index <= NUM_THREADS /\ \A t \in Workers : t >= index => place[t] = "none"
  /\ main = "join" => \A t \in Workers : t < index => place[t] \in {"none", "exited"}
  /\ main = "printed" => printed = mu_num /\ \A t \in Workers : place[t] \in {"none", "exited"}

(* What carries the proof: the number counts the threads that have written.*)
WorkerInv == WorkerTypes /\ LockHeld /\ SeenIsPresent /\ mu_num = Cardinality(Counted) /\ JoinedOver

(* The counting: a write adds one thread, any other step none.             *)
LEMMA WorkersFinite == IsFiniteSet(Workers) /\ \A S \in SUBSET Workers : Cardinality(S) \in Nat
<1>1. IsFiniteSet(Workers)
  BY WorkerAssumption, FS_Interval DEF Workers
<1> QED BY <1>1, FS_Subset, FS_CardinalityType

(* A thread that has written is counted once.                              *)
LEMMA OneMoreWritten ==
  ASSUME NEW S \in SUBSET Workers, NEW t \in Workers \ S
  PROVE  Cardinality(S \cup {t}) = Cardinality(S) + 1
  BY WorkersFinite, FS_Subset, FS_AddElement

(* Everything but the count is kept by every step.                         *)
WorkersPlaced == WorkerTypes /\ LockHeld /\ SeenIsPresent /\ JoinedOver

(* The main thread neither counts nor writes.                              *)
LEMMA MainKeeps == ASSUME WorkersPlaced, MainStep PROVE WorkersPlaced' /\ UNCHANGED <<Counted, mu_num>>
<1> USE WorkerAssumption DEF WorkersPlaced, WorkerTypes, Workers
<1>1. CASE Create
  <2> USE <1>1 DEF Create, Move, NextLoop
  <2>1. index \in Workers /\ place[index] = "none"
    BY DEF JoinedOver
  <2>2. place' = [place EXCEPT ![index] = "lock"]
    OBVIOUS
  <2>3. WorkerTypes'
    BY <2>1
  <2>4. LockHeld' /\ SeenIsPresent'
    BY <2>1 DEF LockHeld, SeenIsPresent
  <2>5. JoinedOver'
    BY <2>1 DEF JoinedOver
  <2>6. Counted' = Counted
    BY <2>1 DEF Counted
  <2> QED BY <2>3, <2>4, <2>5, <2>6
<1>2. CASE CreateFails
  <2> USE <1>2 DEF CreateFails, NextLoop
  <2>1. WorkerTypes' /\ LockHeld' /\ SeenIsPresent' /\ Counted' = Counted
    BY DEF LockHeld, SeenIsPresent, Counted
  <2>2. JoinedOver'
    BY DEF JoinedOver
  <2> QED BY <2>1, <2>2
<1>3. CASE Join
  <2> USE <1>3 DEF Join
  <2>1. WorkerTypes' /\ LockHeld' /\ SeenIsPresent' /\ Counted' = Counted
    BY DEF LockHeld, SeenIsPresent, Counted
  <2>2. JoinedOver'
    BY DEF JoinedOver
  <2> QED BY <2>1, <2>2
<1>4. CASE JoinUnknown
  <2> USE <1>4 DEF JoinUnknown
  <2>1. WorkerTypes' /\ LockHeld' /\ SeenIsPresent' /\ Counted' = Counted
    BY DEF LockHeld, SeenIsPresent, Counted
  <2>2. JoinedOver'
    BY DEF JoinedOver
  <2> QED BY <2>1, <2>2
<1>5. CASE PrintTotal
  <2> USE <1>5 DEF PrintTotal
  <2>1. WorkerTypes' /\ LockHeld' /\ SeenIsPresent' /\ Counted' = Counted
    BY DEF LockHeld, SeenIsPresent, Counted
  <2>2. JoinedOver'
    BY DEF JoinedOver
  <2> QED BY <2>1, <2>2
<1> QED BY <1>1, <1>2, <1>3, <1>4, <1>5 DEF MainStep

(* A worker has the lock from its read to its write.                       *)
LEMMA WorkerKeeps ==
  ASSUME WorkersPlaced, NEW t \in Workers, Worker(t)
  PROVE  /\ WorkersPlaced'
         /\ \/ UNCHANGED <<Counted, mu_num>>
            \/ t \notin Counted /\ Counted' = Counted \cup {t} /\ mu_num' = mu_num + 1
<1> USE WorkerAssumption DEF WorkersPlaced, WorkerTypes, Move
<1>0. NoThread \notin Workers
  BY DEF Workers
<1>1. CASE Lock(t)
  <2> USE <1>1 DEF Lock, Acquired
  <2>1. WorkerTypes' /\ LockHeld' /\ SeenIsPresent' /\ Counted' = Counted
    BY <1>0 DEF LockHeld, SeenIsPresent, Counted
  <2>2. JoinedOver'
    BY DEF JoinedOver
  <2> QED BY <2>1, <2>2
<1>2. CASE Read(t)
  <2> USE <1>2 DEF Read
  <2>1. WorkerTypes' /\ LockHeld' /\ SeenIsPresent' /\ Counted' = Counted
    BY DEF LockHeld, SeenIsPresent, Counted
  <2>2. JoinedOver'
    BY DEF JoinedOver
  <2> QED BY <2>1, <2>2
<1>3. CASE Write(t)
  <2> USE <1>3 DEF Write
  <2>1. mu_num' = mu_num + 1
    BY DEF SeenIsPresent
  <2>2. WorkerTypes' /\ LockHeld'
    BY DEF LockHeld
  <2>3. SeenIsPresent'
    BY DEF LockHeld, SeenIsPresent
  <2>4. t \notin Counted /\ Counted' = Counted \cup {t}
    BY DEF Counted
  <2>5. JoinedOver'
    BY DEF JoinedOver
  <2> QED BY <2>1, <2>2, <2>3, <2>4, <2>5
<1>4. CASE UnLock(t)
  <2> USE <1>4 DEF UnLock, Released
  <2>1. WorkerTypes' /\ LockHeld' /\ SeenIsPresent'
    BY DEF LockHeld, SeenIsPresent
  <2>2. Counted' = Counted
    BY DEF Counted
  <2>3. JoinedOver'
    BY DEF JoinedOver
  <2> QED BY <2>1, <2>2, <2>3
<1> QED BY <1>1, <1>2, <1>3, <1>4 DEF Worker

(* What is printed counts every thread that was created.                   *)
THEOREM WorkerPrintedAll == WorkSpec => []PrintedAll
<1>1. WorkInit => WorkerInv
  <2> SUFFICES ASSUME WorkInit PROVE WorkerInv
    OBVIOUS
  <2> USE WorkerAssumption DEF WorkInit
  <2>1. WorkerTypes /\ LockHeld /\ SeenIsPresent /\ JoinedOver
    BY DEF WorkerTypes, LockHeld, SeenIsPresent, JoinedOver
  <2>2. Counted = {}
    BY DEF Counted
  <2> QED BY <2>1, <2>2, FS_EmptySet DEF WorkerInv
<1>2. WorkerInv /\ [WorkNext]_workVars => WorkerInv'
  <2> SUFFICES ASSUME WorkerInv, [WorkNext]_workVars PROVE WorkerInv'
    OBVIOUS
  <2>0. WorkersPlaced /\ mu_num = Cardinality(Counted) /\ Counted \in SUBSET Workers
    BY DEF WorkerInv, WorkersPlaced, Counted
  <2>1. CASE MainStep
    BY <2>0, <2>1, MainKeeps DEF WorkerInv, WorkersPlaced
  <2>2. ASSUME NEW t \in Workers, Worker(t) PROVE WorkerInv'
    BY <2>0, <2>2, WorkerKeeps, OneMoreWritten DEF WorkerInv, WorkersPlaced
  <2>3. CASE UNCHANGED workVars
    BY <2>3 DEF workVars, WorkerInv, WorkerTypes, LockHeld, SeenIsPresent, JoinedOver, Counted
  <2> QED BY <2>1, <2>2, <2>3 DEF WorkNext
<1>3. WorkerInv => PrintedAll
  <2> SUFFICES ASSUME WorkerInv, main = "printed" PROVE printed = Cardinality(Created)
    BY DEF PrintedAll
  <2>1. Created = Counted
    BY DEF WorkerInv, JoinedOver, Created, Counted
  <2> QED BY <2>1 DEF WorkerInv, JoinedOver
<1> QED BY <1>1, <1>2, <1>3, PTL DEF WorkSpec

------------------------------------------------------------------------------
(* tuple/base64.h: what is encoded is decoded again                        *)

(* The characters of the alphabet are not the padding, and are looked up   *)
(* to what they stand for.                                                 *)
LEMMA LookedUp ==
  ASSUME NEW v \in 0..63
  PROVE  /\ kBase64Alphabet[v] # Pad /\ kBase64Alphabet[v] \in Byte
         /\ b64_lookup(kBase64Alphabet[v]) = v
<1>1. CASE v \in 0..25
  <2>1. kBase64Alphabet[v] = v + 65
    BY <1>1 DEF kBase64Alphabet
  <2>2. b64_lookup(v + 65) = v
    BY <1>1 DEF b64_lookup
  <2> QED BY <1>1, <2>1, <2>2 DEF Pad, Byte
<1>2. CASE v \in 26..51
  <2>1. kBase64Alphabet[v] = v + 71
    BY <1>2 DEF kBase64Alphabet
  <2>2. b64_lookup(v + 71) = v
    BY <1>2 DEF b64_lookup
  <2> QED BY <1>2, <2>1, <2>2 DEF Pad, Byte
<1>3. CASE v \in 52..61
  <2>1. kBase64Alphabet[v] = v - 4
    BY <1>3 DEF kBase64Alphabet
  <2>2. b64_lookup(v - 4) = v
    BY <1>3 DEF b64_lookup
  <2> QED BY <1>3, <2>1, <2>2 DEF Pad, Byte
<1>4. CASE v \in {62, 63}
  <2>1. kBase64Alphabet[62] = 43 /\ kBase64Alphabet[63] = 47
    BY DEF kBase64Alphabet
  <2>2. b64_lookup(43) = 62 /\ b64_lookup(47) = 63
    BY DEF b64_lookup
  <2> QED BY <1>4, <2>1, <2>2 DEF Pad, Byte
<1> QED BY <1>1, <1>2, <1>3, <1>4

(* Four groups of six bits hold three bytes.                               *)
LEMMA SixBits ==
  ASSUME NEW a \in Byte, NEW b \in Byte, NEW c \in Byte
  PROVE  /\ a \div 4 \in 0..63
         /\ (a % 4) * 16 + b \div 16 \in 0..63
         /\ (b % 16) * 4 + c \div 64 \in 0..63
         /\ c % 64 \in 0..63
BY DEF Byte

(* The first byte is in the first two groups, ...                          *)
LEMMA FirstByte ==
  ASSUME NEW a \in Byte, NEW b \in Byte
  PROVE  ((a \div 4) * 4 + ((((a % 4) * 16 + b \div 16) \div 16) % 4)) % 256 = a
BY DEF Byte

(* ... the second in the next two, ...                                     *)
LEMMA SecondByte ==
  ASSUME NEW a \in Byte, NEW b \in Byte, NEW c \in Byte
  PROVE  ((((a % 4) * 16 + b \div 16) % 16) * 16 + ((((b % 16) * 4 + c \div 64) \div 4) % 16)) % 256 = b
BY DEF Byte

(* ... and the third in the last two.                                      *)
LEMMA ThirdByte ==
  ASSUME NEW b \in Byte, NEW c \in Byte
  PROVE  ((((b % 16) * 4 + c \div 64) % 4) * 64 + (c % 64)) % 256 = c
BY DEF Byte

(* The characters of a text up to the first padding, and the padding that  *)
(* is all of the rest.                                                     *)
LEMMA PaddingIs ==
  ASSUME NEW S, NEW s \in Seq(S), NEW n \in 1..Len(s), NEW before \in Nat,
         \A j \in 1..n : s[j] # Pad, \A j \in (n + 1)..Len(s) : s[j] = Pad
  PROVE  Symbols(s) = n /\ Trailing(s, before) = Len(s) - n
<1>0. Len(s) \in Nat /\ n \in Nat
  BY LenProperties
<1>1. Symbols(s) = n
  <2> DEFINE P(k) == (\A j \in 1..k : s[j] # Pad) /\ (k < Len(s) => s[k + 1] = Pad)
  <2>1. n \in 0..Len(s) /\ P(n)
    BY <1>0
  <2>2. ASSUME NEW k \in 0..Len(s), P(k) PROVE k = n
    <3>1. ~(k < n)
      <4>1. k < n => k + 1 \in 1..n /\ k < Len(s)
        BY <1>0
      <4> QED BY <2>2, <4>1
    <3>2. ~(n < k)
      <4>1. n < k => n + 1 \in 1..k /\ n + 1 \in (n + 1)..Len(s)
        BY <1>0
      <4> QED BY <2>2, <4>1
    <3> QED BY <1>0, <3>1, <3>2
  <2> HIDE DEF P
  <2>3. (CHOOSE k \in 0..Len(s) : P(k)) = n
    BY <2>1, <2>2
  <2> QED BY <2>3 DEF Symbols, P
<1>2. Trailing(s, before) = Len(s) - n
  <2> DEFINE P(k) == (\A j \in (Len(s) - k + 1)..Len(s) : s[j] = Pad) /\ (k < Len(s) => s[Len(s) - k] # Pad)
             m == Len(s) - n
  <2>1. m \in 0..Len(s) /\ P(m) /\ m # Len(s)
    <3>1. Len(s) - m = n /\ m \in 0..Len(s) /\ m # Len(s)
      BY <1>0
    <3> HIDE DEF m
    <3> QED BY <1>0, <3>1
  <2>2. ASSUME NEW k \in 0..Len(s), P(k) PROVE k = m
    <3>1. ~(k < m)
      <4>1. k < m => Len(s) - k \in (n + 1)..Len(s) /\ k < Len(s)
        BY <1>0
      <4> QED BY <2>2, <4>1
    <3>2. ~(m < k)
      <4>1. m < k => n \in (Len(s) - k + 1)..Len(s)
        BY <1>0
      <4> QED BY <1>0, <2>2, <4>1
    <3> QED BY <1>0, <3>1, <3>2
  <2> HIDE DEF P, m
  <2>3. (CHOOSE k \in 0..Len(s) : P(k)) = m
    BY <2>1, <2>2
  <2> QED BY <2>1, <2>3 DEF Trailing, P, m
<1> QED BY <1>1, <1>2

(* How many characters encode the bytes of a text, without the padding.    *)
Needed(length) == 4 * (length \div 3) + (IF length % 3 = 0 THEN 0 ELSE (length % 3) + 1)

(* Lengths: in full groups, and without the padding.                       *)
LEMMA LengthsFit ==
  ASSUME NEW m \in Nat \ {0}
  PROVE  /\ EncodedLength(m) = 4 * (m \div 3) + (IF m % 3 = 0 THEN 0 ELSE 4)
         /\ EncodedLength(m) \in Nat /\ Needed(m) \in 1..EncodedLength(m)
         /\ EncodedLength(m) - Needed(m) = IF m % 3 = 0 THEN 0 ELSE 3 - (m % 3)
         /\ (6 * EncodedLength(m)) \div 8 - (EncodedLength(m) - Needed(m)) = m
         /\ (6 * Needed(m)) \div 8 = m
         /\ 3 * (Needed(m) \div 4) + (IF Needed(m) % 4 = 0 THEN 0 ELSE (Needed(m) % 4) - 1) = m
<1>1. PICK q \in Nat, r \in 0..2 : m = 3 * q + r
  <2>1. m \div 3 \in Nat /\ m % 3 \in 0..2 /\ m = 3 * (m \div 3) + (m % 3)
    OBVIOUS
  <2> QED BY <2>1
<1>2. m \div 3 = q /\ m % 3 = r
  BY <1>1
<1>3. EncodedLength(m) = 4 * q + (IF r = 0 THEN 0 ELSE 4)
  BY <1>1 DEF EncodedLength
<1>4. Needed(m) = 4 * q + (IF r = 0 THEN 0 ELSE r + 1)
  BY <1>2 DEF Needed
<1>5. CASE r = 0
  BY <1>1, <1>2, <1>3, <1>4, <1>5
<1>6. CASE r = 1
  <2>1. m = 3 * q + 1 /\ EncodedLength(m) = 4 * q + 4 /\ Needed(m) = 4 * q + 2
    BY <1>1, <1>3, <1>4, <1>6
  <2>2. /\ (6 * (4 * q + 4)) \div 8 = 3 * q + 3 /\ (6 * (4 * q + 2)) \div 8 = 3 * q + 1
        /\ (4 * q + 2) \div 4 = q /\ (4 * q + 2) % 4 = 2
    OBVIOUS
  <2> QED BY <1>2, <1>6, <2>1, <2>2
<1>7. CASE r = 2
  <2>1. m = 3 * q + 2 /\ EncodedLength(m) = 4 * q + 4 /\ Needed(m) = 4 * q + 3
    BY <1>1, <1>3, <1>4, <1>7
  <2>2. /\ (6 * (4 * q + 4)) \div 8 = 3 * q + 3 /\ (6 * (4 * q + 3)) \div 8 = 3 * q + 2
        /\ (4 * q + 3) \div 4 = q /\ (4 * q + 3) % 4 = 3
    OBVIOUS
  <2> QED BY <1>2, <1>7, <2>1, <2>2
<1> QED BY <1>5, <1>6, <1>7

(* The six bits that the p-th character of the encoding stands for.        *)
Sextet(in, p) == a3_to_a4(Block(in, 3, (p - 1) \div 4))[((p - 1) % 4) + 1]

(* A block is of bytes.                                                    *)
LEMMA BlockOfBytes ==
  ASSUME NEW in \in Seq(Byte), NEW g \in Nat, NEW j \in 1..3
  PROVE  /\ Block(in, 3, g)[j] \in Byte
         /\ 3 * g + j <= Len(in) => Block(in, 3, g)[j] = in[3 * g + j]
<1>1. Block(in, 3, g)[j] = IF g * 3 + j <= Len(in) THEN in[g * 3 + j] ELSE 0
  BY DEF Block
<1>2. Len(in) \in Nat /\ \A k \in 1..Len(in) : in[k] \in Byte
  BY LenProperties, ElementOfSeq
<1>3. g * 3 + j = 3 * g + j /\ 3 * g + j \in Nat /\ 3 * g + j >= 1 /\ 0 \in Byte
  BY DEF Byte
<1> QED BY <1>1, <1>2, <1>3

(* The four groups of six bits of a block.                                 *)
LEMMA SextetsAre ==
  ASSUME NEW in \in Seq(Byte), NEW g \in Nat, NEW a, NEW b, NEW c,
         a = Block(in, 3, g)[1], b = Block(in, 3, g)[2], c = Block(in, 3, g)[3]
  PROVE  /\ a \in Byte /\ b \in Byte /\ c \in Byte
         /\ Sextet(in, 4 * g + 1) = a \div 4
         /\ Sextet(in, 4 * g + 2) = (a % 4) * 16 + b \div 16
         /\ Sextet(in, 4 * g + 3) = (b % 16) * 4 + c \div 64
         /\ Sextet(in, 4 * g + 4) = c % 64
         /\ \A j \in 1..4 : Sextet(in, 4 * g + j) \in 0..63
<1>1. a \in Byte /\ b \in Byte /\ c \in Byte
  BY BlockOfBytes
<1>2. ASSUME NEW j \in 1..4 PROVE Sextet(in, 4 * g + j) = a3_to_a4(Block(in, 3, g))[j]
  <2>1. (4 * g + j - 1) \div 4 = g /\ ((4 * g + j - 1) % 4) + 1 = j
    OBVIOUS
  <2> QED BY <2>1 DEF Sextet
<1>3. /\ a3_to_a4(Block(in, 3, g))[1] = a \div 4
      /\ a3_to_a4(Block(in, 3, g))[2] = (a % 4) * 16 + b \div 16
      /\ a3_to_a4(Block(in, 3, g))[3] = (b % 16) * 4 + c \div 64
      /\ a3_to_a4(Block(in, 3, g))[4] = c % 64
  BY DEF a3_to_a4
<1>4. /\ Sextet(in, 4 * g + 1) = a \div 4
      /\ Sextet(in, 4 * g + 2) = (a % 4) * 16 + b \div 16
      /\ Sextet(in, 4 * g + 3) = (b % 16) * 4 + c \div 64
      /\ Sextet(in, 4 * g + 4) = c % 64
  BY <1>2, <1>3
<1>5. \A j \in 1..4 : Sextet(in, 4 * g + j) \in 0..63
  <2>1. \A j \in 1..4 : j = 1 \/ j = 2 \/ j = 3 \/ j = 4
    OBVIOUS
  <2>2. /\ a \div 4 \in 0..63 /\ (a % 4) * 16 + b \div 16 \in 0..63
        /\ (b % 16) * 4 + c \div 64 \in 0..63 /\ c % 64 \in 0..63
    BY <1>1, SixBits
  <2>3. /\ Sextet(in, 4 * g + 1) \in 0..63 /\ Sextet(in, 4 * g + 2) \in 0..63
        /\ Sextet(in, 4 * g + 3) \in 0..63 /\ Sextet(in, 4 * g + 4) \in 0..63
    BY <1>4, <2>2
  <2> QED BY <2>1, <2>3
<1> QED BY <1>1, <1>4, <1>5

(* The encoding of a text: the characters of its groups of six bits, and   *)
(* the padding after them.                                                 *)
LEMMA EncodedIs ==
  ASSUME NEW in \in Seq(Byte), in # <<>>, NEW L, L = Len(in), NEW e, e = Encode(in, EncodedLength(L))
  PROVE  /\ e.ok /\ e.text \in Seq(Byte) /\ Len(e.text) = EncodedLength(L)
         /\ \A p \in 1..Needed(L) : e.text[p] = kBase64Alphabet[Sextet(in, p)] /\ e.text[p] # Pad
         /\ \A p \in (Needed(L) + 1)..EncodedLength(L) : e.text[p] = Pad
<1>0. L \in Nat \ {0}
  BY EmptySeq, LenProperties
<1> DEFINE E == EncodedLength(L)
           n == Needed(L)
           Char(p) == kBase64Alphabet[Sextet(in, p)]
           t == [p \in 1..E |-> IF p <= n THEN Char(p) ELSE Pad]
<1>1. e = [ok |-> TRUE, text |-> t]
  <2> DEFINE w == 4 * (Len(in) \div 3) + (IF Len(in) % 3 = 0 THEN 0 ELSE 4)
             pad == IF Len(in) % 3 = 0 THEN 0 ELSE 3 - (Len(in) % 3)
  <2>1. E = w /\ E \in Nat /\ n \in Nat /\ E - n = pad
    <3>1. /\ E = 4 * (L \div 3) + (IF L % 3 = 0 THEN 0 ELSE 4)
          /\ E \in Nat /\ n \in 1..E /\ E - n = IF L % 3 = 0 THEN 0 ELSE 3 - (L % 3)
      BY <1>0, LengthsFit
    <3> HIDE DEF E, n
    <3> QED BY <3>1
  <2>2. ~(EncodedLength(Len(in)) < EncodedLength(Len(in)))
    BY <2>1
  <2>3. e = Encode(in, EncodedLength(Len(in)))
    OBVIOUS
  <2>4. e = [ok   |-> w = EncodedLength(Len(in)),
             text |-> [p \in 1..w |-> IF p <= w - pad THEN kBase64Alphabet[a3_to_a4(Block(in, 3, (p - 1) \div 4))[((p - 1) % 4) + 1]]
                                      ELSE Pad]]
    BY <2>2, <2>3 DEF Encode
  <2>5. w - pad = n
    <3> HIDE DEF E, n, w, pad
    <3> QED BY <2>1
  <2> HIDE DEF w, pad, n
  <2>6. e = [ok   |-> w = w,
             text |-> [p \in 1..w |-> IF p <= n THEN kBase64Alphabet[a3_to_a4(Block(in, 3, (p - 1) \div 4))[((p - 1) % 4) + 1]]
                                      ELSE Pad]]
    BY <2>1, <2>4, <2>5
  <2> HIDE DEF E
  <2> QED BY <2>1, <2>6 DEF Sextet
<1>2. E \in Nat /\ n \in 1..E
  BY <1>0, LengthsFit
<1> HIDE DEF E, n
<1>3. \A p \in 1..n : t[p] = Char(p)
  BY <1>2
<1>4. \A p \in (n + 1)..E : t[p] = Pad
  BY <1>2
<1> HIDE DEF t
<1>5. ASSUME NEW p \in 1..n PROVE Sextet(in, p) \in 0..63
  <2>1. PICK g \in Nat, j \in 1..4 : p = 4 * g + j
    <3>1. (p - 1) \div 4 \in Nat /\ ((p - 1) % 4) + 1 \in 1..4 /\ p = 4 * ((p - 1) \div 4) + (((p - 1) % 4) + 1)
      BY <1>2
    <3> QED BY <3>1
  <2> QED BY <2>1, SextetsAre
<1>6. \A p \in 1..n : t[p] # Pad /\ t[p] \in Byte
  <2> TAKE p \in 1..n
  <2>1. Sextet(in, p) \in 0..63
    BY <1>5
  <2>2. PICK v \in 0..63 : v = Sextet(in, p)
    BY <2>1
  <2>3. kBase64Alphabet[v] # Pad /\ kBase64Alphabet[v] \in Byte
    BY LookedUp
  <2> QED BY <1>3, <2>2, <2>3
<1>7. t \in Seq(Byte) /\ Len(t) = E
  <2>1. \A p \in 1..E : t[p] \in Byte
    <3>1. \A p \in 1..E : p \in 1..n \/ p \in (n + 1)..E
      BY <1>2
    <3>2. Pad \in Byte
      BY DEF Pad, Byte
    <3> QED BY <1>4, <1>6, <3>1, <3>2
  <2>2. t = [p \in 1..E |-> t[p]]
    BY DEF t
  <2> QED BY <1>2, <2>1, <2>2
<1>8. e.ok /\ e.text = t
  BY <1>1
<1>9. /\ e.ok /\ e.text \in Seq(Byte) /\ Len(e.text) = E
      /\ \A p \in 1..n : e.text[p] = Char(p) /\ e.text[p] # Pad
      /\ \A p \in (n + 1)..E : e.text[p] = Pad
  BY <1>3, <1>4, <1>6, <1>7, <1>8
<1> QED BY <1>9 DEF E, n

(* The characters that a byte is in are among those of the text.           *)
LEMMA CharactersSuffice ==
  ASSUME NEW m \in Nat \ {0}, NEW g \in Nat, NEW r \in 1..3, 3 * g + r <= m
  PROVE  4 * g + r + 1 <= Needed(m)
<1>1. PICK q \in Nat, s \in 0..2 : m = 3 * q + s
  <2>1. m \div 3 \in Nat /\ m % 3 \in 0..2 /\ m = 3 * (m \div 3) + (m % 3)
    OBVIOUS
  <2> QED BY <2>1
<1>2. m \div 3 = q /\ m % 3 = s
  BY <1>1
<1>3. Needed(m) = 4 * q + (IF s = 0 THEN 0 ELSE s + 1)
  BY <1>2 DEF Needed
<1>4. CASE g < q
  <2>1. 4 * g + 4 <= 4 * q
    BY <1>4
  <2> QED BY <1>3, <2>1
<1>5. CASE ~(g < q)
  <2>1. g = q /\ r <= s
    BY <1>1, <1>5
  <2> QED BY <1>3, <2>1
<1> QED BY <1>4, <1>5

(* A group of characters that stand for the first groups of six bits of a  *)
(* block makes the bytes of the block that those hold.                     *)
LEMMA ByteBack ==
  ASSUME NEW in \in Seq(Byte), NEW g \in Nat, NEW r \in 1..3, NEW Q,
         \A j \in 1..(r + 1) : Q[j] = Sextet(in, 4 * g + j)
  PROVE  a4_to_a3(Q)[r] = Block(in, 3, g)[r]
<1>1. PICK a, b, c : a = Block(in, 3, g)[1] /\ b = Block(in, 3, g)[2] /\ c = Block(in, 3, g)[3]
  OBVIOUS
<1>2. /\ a \in Byte /\ b \in Byte /\ c \in Byte
      /\ Sextet(in, 4 * g + 1) = a \div 4
      /\ Sextet(in, 4 * g + 2) = (a % 4) * 16 + b \div 16
      /\ Sextet(in, 4 * g + 3) = (b % 16) * 4 + c \div 64
      /\ Sextet(in, 4 * g + 4) = c % 64
  BY <1>1, SextetsAre
<1>3. CASE r = 1
  <2>1. Q[1] = a \div 4 /\ Q[2] = (a % 4) * 16 + b \div 16
    BY <1>2, <1>3
  <2>2. a4_to_a3(Q)[1] = (Q[1] * 4 + ((Q[2] \div 16) % 4)) % 256
    BY DEF a4_to_a3
  <2>3. ((a \div 4) * 4 + ((((a % 4) * 16 + b \div 16) \div 16) % 4)) % 256 = a
    BY <1>2, FirstByte
  <2> QED BY <1>1, <1>3, <2>1, <2>2, <2>3
<1>4. CASE r = 2
  <2>1. Q[2] = (a % 4) * 16 + b \div 16 /\ Q[3] = (b % 16) * 4 + c \div 64
    BY <1>2, <1>4
  <2>2. a4_to_a3(Q)[2] = ((Q[2] % 16) * 16 + ((Q[3] \div 4) % 16)) % 256
    BY DEF a4_to_a3
  <2>3. ((((a % 4) * 16 + b \div 16) % 16) * 16 + ((((b % 16) * 4 + c \div 64) \div 4) % 16)) % 256 = b
    BY <1>2, SecondByte
  <2> QED BY <1>1, <1>4, <2>1, <2>2, <2>3
<1>5. CASE r = 3
  <2>1. Q[3] = (b % 16) * 4 + c \div 64 /\ Q[4] = c % 64
    BY <1>2, <1>5
  <2>2. a4_to_a3(Q)[3] = ((Q[3] % 4) * 64 + Q[4]) % 256
    BY DEF a4_to_a3
  <2>3. ((((b % 16) * 4 + c \div 64) % 4) * 64 + (c % 64)) % 256 = c
    BY <1>2, ThirdByte
  <2> QED BY <1>1, <1>5, <2>1, <2>2, <2>3
<1> QED BY <1>3, <1>4, <1>5

(* Decoding gives back a text from the characters of its encoding, with    *)
(* any padding after them.                                                 *)
LEMMA DecodesTo ==
  ASSUME NEW in \in Seq(Byte), in # <<>>, NEW L, L = Len(in), NEW before \in Nat,
         NEW text \in Seq(Byte), NEW n, n = Needed(L), n <= Len(text),
         \A p \in 1..n : text[p] = kBase64Alphabet[Sextet(in, p)] /\ text[p] # Pad,
         \A p \in (n + 1)..Len(text) : text[p] = Pad,
         DecodedLength(text, before) = L
  PROVE  Decode(text, L, before) = [ok |-> TRUE, text |-> in]
<1>0. /\ L \in Nat \ {0} /\ \A p \in 1..L : in[p] \in Byte
      /\ in = [p \in 1..L |-> in[p]]
  BY EmptySeq, LenProperties, ElementOfSeq
<1>1. /\ n \in Nat /\ n >= 1
      /\ 3 * (n \div 4) + (IF n % 4 = 0 THEN 0 ELSE (n % 4) - 1) = L
  <2>1. /\ EncodedLength(L) \in Nat /\ Needed(L) \in 1..EncodedLength(L)
        /\ 3 * (Needed(L) \div 4) + (IF Needed(L) % 4 = 0 THEN 0 ELSE (Needed(L) % 4) - 1) = L
    BY <1>0, LengthsFit
  <2> QED BY <2>1
<1>2. Symbols(text) = n
  <2>1. n \in 1..Len(text)
    BY <1>1, LenProperties
  <2> QED BY <2>1, PaddingIs
<1> DEFINE w == 3 * (n \div 4) + (IF n % 4 = 0 THEN 0 ELSE (n % 4) - 1)
           u == SubSeq(text, 1, n)
           Group(g) == [j \in 1..4 |-> b64_lookup(Block(u, 4, g)[j])]
           t == [p \in 1..L |-> a4_to_a3(Group((p - 1) \div 3))[((p - 1) % 3) + 1]]
<1>3. Decode(text, L, before) = [ok |-> w = L, text |-> [p \in 1..w |-> a4_to_a3(Group((p - 1) \div 3))[((p - 1) % 3) + 1]]]
  <2>1. ~(L < 0 \/ L < L)
    BY <1>0
  <2>2. ~(DecodedLength(text, before) < 0 \/ L < DecodedLength(text, before))
    BY <2>1
  <2> QED BY <1>2, <2>2 DEF Decode
<1>4. Decode(text, L, before) = [ok |-> TRUE, text |-> t]
  <2>1. w = L
    BY <1>1
  <2> HIDE DEF w
  <2> QED BY <1>3, <2>1
<1> HIDE DEF w
<1>5. Len(u) = n /\ \A p \in 1..n : u[p] = text[p]
  <2>1. /\ 1 \in Int /\ n \in Int /\ Len(text) \in Nat /\ \A j \in 1..n : text[j] \in Byte
    BY <1>1, LenProperties, ElementOfSeq
  <2>2. /\ Len(u) = IF 1 <= n THEN n - 1 + 1 ELSE 0
        /\ \A j \in 1..(n - 1 + 1) : u[j] = text[1 + j - 1]
    BY <2>1, SubSeqProperties
  <2> HIDE DEF u
  <2> QED BY <1>1, <2>2
<1> HIDE DEF u
<1>6. ASSUME NEW g \in Nat, NEW j \in 1..4, 4 * g + j <= n
      PROVE  Group(g)[j] = Sextet(in, 4 * g + j)
  <2>1. g * 4 + j = 4 * g + j /\ 4 * g + j \in 1..n
    BY <1>1, <1>6
  <2>2. Block(u, 4, g)[j] = u[4 * g + j]
    <3>1. Block(u, 4, g)[j] = IF g * 4 + j <= Len(u) THEN u[g * 4 + j] ELSE 0
      BY DEF Block
    <3> QED BY <1>5, <1>6, <2>1, <3>1
  <2>3. PICK v \in 0..63 : v = Sextet(in, 4 * g + j)
    BY SextetsAre
  <2>4. u[4 * g + j] = kBase64Alphabet[v]
    BY <1>5, <2>1, <2>3
  <2> QED BY <2>2, <2>3, <2>4, LookedUp
<1> HIDE DEF Group
<1>7. ASSUME NEW p \in 1..L PROVE t[p] = in[p]
  <2>1. PICK g \in Nat, r \in 1..3 : p = 3 * g + r /\ g = (p - 1) \div 3 /\ r = ((p - 1) % 3) + 1
    <3>1. /\ (p - 1) \div 3 \in Nat /\ ((p - 1) % 3) + 1 \in 1..3
          /\ p = 3 * ((p - 1) \div 3) + (((p - 1) % 3) + 1)
      <4>1. PICK k \in Nat : k = p - 1 /\ p = k + 1
        BY <1>0
      <4>2. k \div 3 \in Nat /\ k % 3 \in 0..2 /\ k = 3 * (k \div 3) + (k % 3)
        BY <4>1
      <4>3. k + 1 = 3 * (k \div 3) + ((k % 3) + 1) /\ (k % 3) + 1 \in 1..3
        BY <4>2
      <4> QED BY <4>1, <4>2, <4>3
    <3> QED BY <3>1
  <2>2. t[p] = a4_to_a3(Group(g))[r]
    BY <2>1
  <2>3. 4 * g + r + 1 <= n
    <3>1. 3 * g + r <= L
      BY <1>0, <2>1
    <3> QED BY <1>0, <3>1, CharactersSuffice
  <2>4. \A j \in 1..(r + 1) : Group(g)[j] = Sextet(in, 4 * g + j)
    <3> TAKE j \in 1..(r + 1)
    <3>1. j \in 1..4 /\ 4 * g + j <= n
      BY <1>1, <2>3
    <3> QED BY <1>6, <3>1
  <2>5. a4_to_a3(Group(g))[r] = Block(in, 3, g)[r]
    BY <2>4, ByteBack
  <2>6. Block(in, 3, g)[r] = in[p]
    <3>1. 3 * g + r <= Len(in)
      BY <1>0, <2>1
    <3> QED BY <2>1, <3>1, BlockOfBytes
  <2> QED BY <2>2, <2>5, <2>6
<1>8. t = in
  <2>1. t = [p \in 1..L |-> t[p]]
    OBVIOUS
  <2> HIDE DEF t
  <2> QED BY <1>0, <1>7, <2>1
<1> QED BY <1>4, <1>8

(* The encoding of a text decodes to the text.                             *)
LEMMA RoundTripHolds ==
  ASSUME NEW in \in Seq(Byte), in # <<>>, NEW before \in Nat
  PROVE  RoundTrip(in, before)
<1> DEFINE L == Len(in)
           n == Needed(L)
           e == Encode(in, EncodedLength(L))
           stripped == StripPadding(e.text)
<1>1. /\ L \in Nat \ {0} /\ EncodedLength(L) \in Nat /\ n \in 1..EncodedLength(L)
      /\ (6 * EncodedLength(L)) \div 8 - (EncodedLength(L) - n) = L
      /\ (6 * n) \div 8 = L
  <2>1. L \in Nat \ {0}
    BY EmptySeq, LenProperties
  <2> HIDE DEF L
  <2> QED BY <2>1, LengthsFit
<1>2. /\ e.ok /\ e.text \in Seq(Byte) /\ Len(e.text) = EncodedLength(L)
      /\ \A p \in 1..n : e.text[p] = kBase64Alphabet[Sextet(in, p)] /\ e.text[p] # Pad
      /\ \A p \in (n + 1)..EncodedLength(L) : e.text[p] = Pad
  BY EncodedIs
<1> HIDE DEF e
<1>3. Decode(e.text, DecodedLength(e.text, before), before) = [ok |-> TRUE, text |-> in]
  <2>1. Trailing(e.text, before) = EncodedLength(L) - n
    BY <1>1, <1>2, PaddingIs
  <2>2. DecodedLength(e.text, before) = L
    BY <1>1, <1>2, <2>1 DEF DecodedLength
  <2>3. n <= Len(e.text)
    BY <1>1, <1>2
  <2>4. /\ e.text \in Seq(Byte)
        /\ \A p \in 1..n : e.text[p] = kBase64Alphabet[Sextet(in, p)] /\ e.text[p] # Pad
        /\ \A p \in (n + 1)..Len(e.text) : e.text[p] = Pad
    BY <1>2
  <2> QED BY <2>2, <2>3, <2>4, DecodesTo
<1>4. Decode(stripped, DecodedLength(stripped, before), before) = [ok |-> TRUE, text |-> in]
  <2>1. Trailing(e.text, 0) = EncodedLength(L) - n
    BY <1>1, <1>2, PaddingIs
  <2>2. stripped = SubSeq(e.text, 1, n)
    <3>1. Len(e.text) - Trailing(e.text, 0) = n
      BY <1>1, <1>2, <2>1
    <3> QED BY <3>1 DEF StripPadding
  <2>3. stripped \in Seq(Byte) /\ Len(stripped) = n /\ \A p \in 1..n : stripped[p] = e.text[p]
    <3>1. 1 \in Int /\ n \in Int /\ n \in Nat /\ n >= 1 /\ \A j \in 1..n : e.text[j] \in Byte
      BY <1>1, <1>2, ElementOfSeq
    <3>2. /\ SubSeq(e.text, 1, n) \in Seq(Byte) /\ Len(SubSeq(e.text, 1, n)) = IF 1 <= n THEN n - 1 + 1 ELSE 0
          /\ \A j \in 1..(n - 1 + 1) : SubSeq(e.text, 1, n)[j] = e.text[1 + j - 1]
      BY <1>2, <3>1, SubSeqProperties
    <3> HIDE DEF n, stripped
    <3> QED BY <2>2, <3>1, <3>2
  <2> HIDE DEF stripped
  <2>4. \A p \in 1..n : stripped[p] = kBase64Alphabet[Sextet(in, p)] /\ stripped[p] # Pad
    BY <1>2, <2>3
  <2>5. \A p \in (n + 1)..Len(stripped) : stripped[p] = Pad
    BY <1>1, <2>3
  <2>6. DecodedLength(stripped, before) = L
    <3>1. n \in 1..Len(stripped)
      BY <1>1, <2>3
    <3>2. Trailing(stripped, before) = Len(stripped) - n
      BY <2>3, <2>4, <2>5, <3>1, PaddingIs
    <3> QED BY <1>1, <2>3, <3>2 DEF DecodedLength
  <2>7. n <= Len(stripped)
    BY <1>1, <2>3
  <2> QED BY <2>3, <2>4, <2>5, <2>6, <2>7, DecodesTo
<1> QED BY <1>2, <1>3, <1>4 DEF RoundTrip, e, stripped, L

(* The bytes that any characters make are as many as there is room for.    *)
LEMMA RoomIsFilled ==
  ASSUME NEW symbols \in Seq((0..255) \ {Pad}), symbols # <<>>, NEW before \in Nat
  PROVE  FillsTheRoom(symbols, before)
<1> DEFINE n == Len(symbols)
<1>1. n \in Nat \ {0} /\ \A j \in 1..n : symbols[j] \in Byte /\ symbols[j] # Pad
  BY EmptySeq, LenProperties, ElementOfSeq DEF Byte
<1> SUFFICES ASSUME NEW pads \in {0, 3 - ((n - 1) % 4)}, NEW padding, padding = [j \in 1..pads |-> Pad],
                    NEW text, text = symbols \o padding
             PROVE  Decode(text, DecodedLength(text, before), before).ok
  BY DEF FillsTheRoom
<1>2. PICK q \in Nat, r \in 0..3 : n = 4 * q + r /\ n \div 4 = q /\ n % 4 = r
  <2>1. n \div 4 \in Nat /\ n % 4 \in 0..3 /\ n = 4 * (n \div 4) + (n % 4)
    BY <1>1
  <2> QED BY <2>1
<1>3. pads \in Nat /\ (pads = 0 \/ (r # 0 /\ pads = 4 - r) \/ (r = 0 /\ pads = 0))
  <2>1. CASE r = 0
    <3>1. (n - 1) % 4 = 3
      BY <1>1, <1>2, <2>1
    <3> QED BY <2>1, <3>1
  <2>2. CASE r # 0
    <3>1. (n - 1) % 4 = r - 1
      <4>1. (4 * q) % 4 = 0 /\ (4 * q + 1) % 4 = 1 /\ (4 * q + 2) % 4 = 2
        OBVIOUS
      <4> HIDE DEF n
      <4>2. (r = 1 => n - 1 = 4 * q) /\ (r = 2 => n - 1 = 4 * q + 1) /\ (r = 3 => n - 1 = 4 * q + 2)
        BY <1>2
      <4>3. CASE r = 1
        BY <4>1, <4>2, <4>3
      <4>4. CASE r = 2
        BY <4>1, <4>2, <4>4
      <4>5. CASE r = 3
        BY <4>1, <4>2, <4>5
      <4> QED BY <2>2, <4>3, <4>4, <4>5
    <3> QED BY <2>2, <3>1
  <2> QED BY <2>1, <2>2
<1>4. text \in Seq(Byte) /\ Len(text) = n + pads
      /\ (\A p \in 1..n : text[p] = symbols[p]) /\ \A p \in (n + 1)..Len(text) : text[p] = Pad
  <2>1. pads \in Nat
    BY <1>2, <1>3
  <2>2. Pad \in Byte
    BY DEF Pad, Byte
  <2>3. padding \in Seq(Byte) /\ Len(padding) = pads /\ \A j \in 1..pads : padding[j] = Pad
    BY <2>1, <2>2
  <2>4. symbols \in Seq(Byte)
    <3>1. symbols = [j \in 1..n |-> symbols[j]]
      BY LenProperties
    <3> QED BY <1>1, <3>1
  <2>5. /\ text \in Seq(Byte) /\ Len(text) = Len(symbols) + Len(padding)
        /\ \A i \in 1..(Len(symbols) + Len(padding)) :
             text[i] = IF i <= Len(symbols) THEN symbols[i] ELSE padding[i - Len(symbols)]
    BY <2>3, <2>4, ConcatProperties
  <2>6. \A p \in 1..n : text[p] = symbols[p]
    BY <1>1, <2>1, <2>3, <2>5
  <2>7. ASSUME NEW p \in (n + 1)..Len(text) PROVE text[p] = Pad
    <3>1. p \in 1..(n + pads) /\ ~(p <= n) /\ p - n \in 1..pads
      BY <1>1, <2>1, <2>3, <2>5
    <3> QED BY <2>3, <2>5, <3>1
  <2> QED BY <2>3, <2>5, <2>6, <2>7
<1>5. Symbols(text) = n /\ Trailing(text, before) = pads
  <2>0. text \in Seq(Byte)
    BY <1>4
  <2>1. n \in 1..Len(text)
    BY <1>1, <1>2, <1>3, <1>4
  <2>2. \A p \in 1..n : text[p] # Pad
    BY <1>1, <1>4
  <2>3. \A p \in (n + 1)..Len(text) : text[p] = Pad
    BY <1>4
  <2>4. Symbols(text) = n /\ Trailing(text, before) = Len(text) - n
    BY <2>0, <2>1, <2>2, <2>3, PaddingIs
  <2> HIDE DEF n
  <2> QED BY <1>1, <1>2, <1>3, <1>4, <2>4
<1> HIDE DEF n
<1>6. DecodedLength(text, before) = 3 * q + (IF r = 0 THEN 0 ELSE r - 1)
  <2>1. DecodedLength(text, before) = (6 * (n + pads)) \div 8 - pads
    BY <1>4, <1>5 DEF DecodedLength
  <2>2. CASE pads = 0
    <3>1. (6 * (4 * q + r)) \div 8 = 3 * q + (IF r = 0 THEN 0 ELSE r - 1)
      <4>1. CASE r = 0
        BY <4>1
      <4>2. CASE r = 1
        BY <4>2
      <4>3. CASE r = 2
        BY <4>3
      <4>4. CASE r = 3
        BY <4>4
      <4> QED BY <4>1, <4>2, <4>3, <4>4
    <3> QED BY <1>2, <2>1, <2>2, <3>1
  <2>3. CASE r # 0 /\ pads = 4 - r
    <3>1. n + pads = 4 * q + 4 /\ (6 * (4 * q + 4)) \div 8 = 3 * q + 3
      BY <1>2, <2>3
    <3> QED BY <1>2, <2>1, <2>3, <3>1
  <2> QED BY <1>3, <2>2, <2>3
<1>7. PICK d \in Nat : d = DecodedLength(text, before) /\ d = 3 * q + (IF r = 0 THEN 0 ELSE r - 1)
  BY <1>2, <1>6
<1>8. ~(d < 0 \/ d < d)
  OBVIOUS
<1>9. Decode(text, d, before).ok = (3 * (n \div 4) + (IF n % 4 = 0 THEN 0 ELSE (n % 4) - 1) = d)
  <2>1. ~(DecodedLength(text, before) < 0 \/ d < DecodedLength(text, before))
    BY <1>7, <1>8
  <2>2. Decode(text, d, before).ok =
          (3 * (n \div 4) + (IF n % 4 = 0 THEN 0 ELSE (n % 4) - 1) = DecodedLength(text, before))
    BY <1>5, <2>1 DEF Decode
  <2> QED BY <1>7, <2>2
<1>10. 3 * (n \div 4) + (IF n % 4 = 0 THEN 0 ELSE (n % 4) - 1) = d
  BY <1>2, <1>7
<1> QED BY <1>7, <1>9, <1>10

------------------------------------------------------------------------------
(* util/number.cc: what is written is the decimal notation                 *)

(* The last eight digits of a number, the last one first.                  *)
Digits8 == [1..8 -> 0..9]

DigitsOf(lo) == [k \in 1..8 |-> (lo \div Unit[k]) % 10]

(* What the digits stand for.                                              *)
NumberOf(d) == d[1] + 10 * d[2] + 100 * d[3] + 1000 * d[4] + 10000 * d[5] + 100000 * d[6] + 1000000 * d[7] + 10000000 * d[8]

(* The last eight digits of a number below 10^8 are all there are.         *)
LEMMA DigitsAdd ==
  ASSUME NEW lo \in Nat, lo < Split
  PROVE  DigitsOf(lo) \in Digits8 /\ lo = NumberOf(DigitsOf(lo))
<1>1. ASSUME NEW n \in Nat PROVE \E q \in Nat, d \in 0..9 : n = 10 * q + d
  <2>1. n \div 10 \in Nat /\ n % 10 \in 0..9 /\ n = 10 * (n \div 10) + (n % 10)
    OBVIOUS
  <2> QED BY <2>1
<1>2. PICK q1 \in Nat, d1 \in 0..9 : lo = 10 * q1 + d1
  BY <1>1
<1>3. lo = 10 * q1 + d1 /\ (lo \div 1) % 10 = d1
  BY <1>2
<1>4. PICK q2 \in Nat, d2 \in 0..9 : q1 = 10 * q2 + d2
  BY <1>1
<1>5. lo = 100 * q2 + d1 + 10 * d2 /\ (lo \div 10) % 10 = d2
  <2>1. lo = 100 * q2 + d1 + 10 * d2
    BY <1>4, <1>3
  <2>2. lo \div 10 = 10 * q2 + d2
    BY <2>1
  <2> QED BY <2>1, <2>2
<1>6. PICK q3 \in Nat, d3 \in 0..9 : q2 = 10 * q3 + d3
  BY <1>1
<1>7. lo = 1000 * q3 + d1 + 10 * d2 + 100 * d3 /\ (lo \div 100) % 10 = d3
  <2>1. lo = 1000 * q3 + d1 + 10 * d2 + 100 * d3
    BY <1>6, <1>5
  <2>2. lo \div 100 = 10 * q3 + d3
    BY <2>1
  <2> QED BY <2>1, <2>2
<1>8. PICK q4 \in Nat, d4 \in 0..9 : q3 = 10 * q4 + d4
  BY <1>1
<1>9. lo = 10000 * q4 + d1 + 10 * d2 + 100 * d3 + 1000 * d4 /\ (lo \div 1000) % 10 = d4
  <2>1. lo = 10000 * q4 + d1 + 10 * d2 + 100 * d3 + 1000 * d4
    BY <1>8, <1>7
  <2>2. lo \div 1000 = 10 * q4 + d4
    BY <2>1
  <2> QED BY <2>1, <2>2
<1>10. PICK q5 \in Nat, d5 \in 0..9 : q4 = 10 * q5 + d5
  BY <1>1
<1>11. lo = 100000 * q5 + d1 + 10 * d2 + 100 * d3 + 1000 * d4 + 10000 * d5 /\ (lo \div 10000) % 10 = d5
  <2>1. lo = 100000 * q5 + d1 + 10 * d2 + 100 * d3 + 1000 * d4 + 10000 * d5
    BY <1>10, <1>9
  <2>2. lo \div 10000 = 10 * q5 + d5
    BY <2>1
  <2> QED BY <2>1, <2>2
<1>12. PICK q6 \in Nat, d6 \in 0..9 : q5 = 10 * q6 + d6
  BY <1>1
<1>13. lo = 1000000 * q6 + d1 + 10 * d2 + 100 * d3 + 1000 * d4 + 10000 * d5 + 100000 * d6 /\ (lo \div 100000) % 10 = d6
  <2>1. lo = 1000000 * q6 + d1 + 10 * d2 + 100 * d3 + 1000 * d4 + 10000 * d5 + 100000 * d6
    BY <1>12, <1>11
  <2>2. lo \div 100000 = 10 * q6 + d6
    BY <2>1
  <2> QED BY <2>1, <2>2
<1>14. PICK q7 \in Nat, d7 \in 0..9 : q6 = 10 * q7 + d7
  BY <1>1
<1>15. lo = 10000000 * q7 + d1 + 10 * d2 + 100 * d3 + 1000 * d4 + 10000 * d5 + 100000 * d6 + 1000000 * d7 /\ (lo \div 1000000) % 10 = d7
  <2>1. lo = 10000000 * q7 + d1 + 10 * d2 + 100 * d3 + 1000 * d4 + 10000 * d5 + 100000 * d6 + 1000000 * d7
    BY <1>14, <1>13
  <2>2. lo \div 1000000 = 10 * q7 + d7
    BY <2>1
  <2> QED BY <2>1, <2>2
<1>16. PICK q8 \in Nat, d8 \in 0..9 : q7 = 10 * q8 + d8
  BY <1>1
<1>17. lo = 100000000 * q8 + d1 + 10 * d2 + 100 * d3 + 1000 * d4 + 10000 * d5 + 100000 * d6 + 1000000 * d7 + 10000000 * d8 /\ (lo \div 10000000) % 10 = d8
  <2>1. lo = 100000000 * q8 + d1 + 10 * d2 + 100 * d3 + 1000 * d4 + 10000 * d5 + 100000 * d6 + 1000000 * d7 + 10000000 * d8
    BY <1>16, <1>15
  <2>2. lo \div 10000000 = 10 * q8 + d8
    BY <2>1
  <2> QED BY <2>1, <2>2
<1>18. q8 = 0
  BY <1>17 DEF Split
<1>19. lo = d1 + 10 * d2 + 100 * d3 + 1000 * d4 + 10000 * d5 + 100000 * d6 + 1000000 * d7 + 10000000 * d8
  BY <1>17, <1>18
<1>20. lo \div 1 = lo
  OBVIOUS
<1>21. \A k \in 1..8 : (lo \div Unit[k]) % 10 \in 0..9
  <2> TAKE k \in 1..8
  <2>1. Unit[k] \in Nat \ {0}
    BY DEF Unit
  <2> QED BY <2>1
<1>22. DigitsOf(lo) \in Digits8
  BY <1>21 DEF Digits8, DigitsOf
<1> DEFINE d == DigitsOf(lo)
<1>23. d[1] = d1 /\ d[2] = d2 /\ d[3] = d3 /\ d[4] = d4 /\ d[5] = d5 /\ d[6] = d6 /\ d[7] = d7 /\ d[8] = d8
  BY <1>3, <1>5, <1>7, <1>9, <1>11, <1>13, <1>15, <1>17, <1>20 DEF Unit, DigitsOf
<1> HIDE DEF d
<1>24. NumberOf(d) = lo
  BY <1>19, <1>23 DEF NumberOf
<1> QED BY <1>22, <1>24, Zenon DEF d

(* What is written of a number below 10^8 from a label on: its digits.     *)
LEMMA DigitsWritten ==
  ASSUME NEW d \in Digits8
  PROVE  /\ lt100(d[1] + 10 * d[2]) =
              <<d[2], d[1]>>
         /\ lt10_000(d[1] + 10 * d[2] + 100 * d[3] + 1000 * d[4]) =
              <<d[4], d[3], d[2], d[1]>>
         /\ lt1_000_000(d[1] + 10 * d[2] + 100 * d[3] + 1000 * d[4] + 10000 * d[5] + 100000 * d[6]) =
              <<d[6], d[5], d[4], d[3], d[2], d[1]>>
         /\ lt100_000_000(d[1] + 10 * d[2] + 100 * d[3] + 1000 * d[4] + 10000 * d[5] + 100000 * d[6] + 1000000 * d[7] + 10000000 * d[8]) =
              <<d[8], d[7], d[6], d[5], d[4], d[3], d[2], d[1]>>
<1> DEFINE d1 == d[1]
           d2 == d[2]
           d3 == d[3]
           d4 == d[4]
           d5 == d[5]
           d6 == d[6]
           d7 == d[7]
           d8 == d[8]
<1>0. d1 \in 0..9 /\ d2 \in 0..9 /\ d3 \in 0..9 /\ d4 \in 0..9 /\ d5 \in 0..9 /\ d6 \in 0..9 /\ d7 \in 0..9 /\ d8 \in 0..9
  BY DEF Digits8
<1> HIDE DEF d1, d2, d3, d4, d5, d6, d7, d8
<1>1. ASSUME NEW a \in 0..9, NEW b \in 0..9
      PROVE  two_ASCII_digits(a + 10 * b) = <<b, a>>
  <2>1. (a + 10 * b) \div 10 = b /\ (a + 10 * b) % 10 = a
    OBVIOUS
  <2> QED BY <2>1 DEF two_ASCII_digits
<1>2. lt100(d1 + 10 * d2) = <<d2, d1>>
  BY <1>0, <1>1 DEF lt100
<1> DEFINE u4 == d1 + 10 * d2 + 100 * d3 + 1000 * d4
           u6 == u4 + 10000 * d5 + 100000 * d6
           u8 == u6 + 1000000 * d7 + 10000000 * d8
<1>3. lt10_000(u4) = <<d4, d3, d2, d1>>
  <2>1. u4 \div 100 = d3 + 10 * d4
    BY <1>0
  <2>2. u4 - (d3 + 10 * d4) * 100 = d1 + 10 * d2
    BY <1>0
  <2>3. lt10_000(u4) = two_ASCII_digits(d3 + 10 * d4) \o lt100(d1 + 10 * d2)
    BY <2>1, <2>2 DEF lt10_000, sublt100
  <2>4. lt10_000(u4) = <<d4, d3>> \o <<d2, d1>>
    BY <1>0, <1>1, <1>2, <2>3
  <2> QED BY <2>4
<1>4. lt1_000_000(u6) = <<d6, d5, d4, d3, d2, d1>>
  <2>1. u6 \div 10000 = d5 + 10 * d6
    BY <1>0
  <2>2. u6 - (d5 + 10 * d6) * 10000 = u4
    BY <1>0
  <2>3. lt1_000_000(u6) = two_ASCII_digits(d5 + 10 * d6) \o lt10_000(u4)
    BY <2>1, <2>2 DEF lt1_000_000, sublt10_000
  <2>4. lt1_000_000(u6) = <<d6, d5>> \o <<d4, d3, d2, d1>>
    <3>1. two_ASCII_digits(d5 + 10 * d6) = <<d6, d5>>
      BY <1>0, <1>1
    <3> HIDE DEF u4, u6
    <3> QED BY <1>3, <2>3, <3>1
  <2> QED BY <2>4
<1>5. lt100_000_000(u8) = <<d8, d7, d6, d5, d4, d3, d2, d1>>
  <2>1. u8 \div 1000000 = d7 + 10 * d8
    BY <1>0
  <2>2. u8 - (d7 + 10 * d8) * 1000000 = u6
    BY <1>0
  <2>3. lt100_000_000(u8) = two_ASCII_digits(d7 + 10 * d8) \o lt1_000_000(u6)
    BY <2>1, <2>2 DEF lt100_000_000, sublt1_000_000
  <2>4. lt100_000_000(u8) = <<d8, d7>> \o <<d6, d5, d4, d3, d2, d1>>
    <3>1. two_ASCII_digits(d7 + 10 * d8) = <<d8, d7>>
      BY <1>0, <1>1
    <3> HIDE DEF u4, u6, u8
    <3> QED BY <1>4, <2>3, <3>1
  <2> QED BY <2>4
<1> QED BY <1>2, <1>3, <1>4, <1>5 DEF d1, d2, d3, d4, d5, d6, d7, d8

(* The first digit of a number is at a place.                              *)
LeadsAt(u, n) == /\ n = 1 \/ Digit(u, n) # 0
                 /\ \A spot \in 1..10 : spot > n => Digit(u, spot) = 0

(* A text is that of the digits up to a place.                             *)
Spells(u, n, text) == Len(text) = n /\ \A p \in 1..n : text[p] = Digit(u, n + 1 - p)

(* A text is the decimal notation of a number if it has its digits from    *)
(* the first on.                                                           *)
LEMMA DecimalIs ==
  ASSUME NEW u, NEW n \in 1..10, LeadsAt(u, n), NEW text \in Seq(Int), Spells(u, n, text)
  PROVE  Decimal(u) = text
<1> DEFINE P(m) == \A spot \in Places(u) : spot <= m
<1>1. n \in Places(u)
  BY DEF Places, LeadsAt
<1>2. P(n)
  <2> SUFFICES ASSUME NEW spot \in Places(u), ~(spot <= n) PROVE FALSE
    OBVIOUS
  <2>1. spot \in 1..10 /\ spot > n /\ spot # 1
    BY DEF Places
  <2>2. Digit(u, spot) # 0
    BY <2>1 DEF Places
  <2> QED BY <2>1, <2>2 DEF LeadsAt
<1>3. ASSUME NEW m \in Places(u), P(m) PROVE m = n
  <2>1. m \in 1..10 /\ n <= m /\ m <= n
    BY <1>1, <1>2, <1>3 DEF Places
  <2> QED BY <2>1
<1> HIDE DEF P
<1>4. (CHOOSE m \in Places(u) : P(m)) = n
  BY <1>1, <1>2, <1>3
<1>5. Decimal(u) = LET m == CHOOSE m \in Places(u) : P(m) IN [p \in 1..m |-> Digit(u, m + 1 - p)]
  BY DEF Decimal, P
<1>6. Decimal(u) = [p \in 1..n |-> Digit(u, n + 1 - p)]
  BY <1>4, <1>5
<1>7. \A s \in Seq(Int) : [p \in 1..Len(s) |-> s[p]] = s
  OBVIOUS
<1>8. [p \in 1..n |-> text[p]] = [p \in 1..n |-> Digit(u, n + 1 - p)]
  BY DEF Spells
<1>9. [p \in 1..n |-> text[p]] = text
  BY <1>7, Zenon DEF Spells
<1> QED BY <1>6, <1>8, <1>9, Zenon

(* A digit before others.                                                  *)
LEMMA DigitFirst ==
  ASSUME NEW a \in Int, NEW s \in Seq(Int), NEW y \in Seq(Int), Len(y) = Len(s) + 1,
         y[1] = a, \A i \in 1..Len(s) : y[i + 1] = s[i]
  PROVE  <<a>> \o s = y
<1>1. PICK x : x = <<a>> \o s
  OBVIOUS
<1>2. /\ x \in Seq(Int) /\ Len(x) = Len(s) + 1 /\ x[1] = a
      /\ \A i \in 1..Len(s) : x[i + 1] = s[i]
  BY <1>1, PushIs
<1>3. Len(s) \in Nat
  BY LenProperties
<1>4. ASSUME NEW i \in 1..Len(x) PROVE x[i] = y[i]
  <2>1. CASE i = 1
    BY <1>2, <2>1
  <2>2. CASE i # 1
    <3>1. i - 1 \in 1..Len(s) /\ (i - 1) + 1 = i
      BY <1>2, <1>3, <2>2
    <3> QED BY <1>2, <3>1
  <2> QED BY <2>1, <2>2
<1> QED BY <1>1, <1>2, <1>4, SeqEqual

(* What each branch writes of a number with as many digits as it is for.   *)
LEMMA BranchesWrite ==
  ASSUME NEW d \in Digits8
  PROVE  /\ Below100(d[1]) = <<d[1]>>
         /\ d[2] # 0 => Below100(d[1] + 10 * d[2]) =
              <<d[2], d[1]>>
         /\ d[3] # 0 => Below10_000(d[1] + 10 * d[2] + 100 * d[3]) =
              <<d[3], d[2], d[1]>>
         /\ d[4] # 0 => Below10_000(d[1] + 10 * d[2] + 100 * d[3] + 1000 * d[4]) =
              <<d[4], d[3], d[2], d[1]>>
         /\ d[5] # 0 => Below1_000_000(d[1] + 10 * d[2] + 100 * d[3] + 1000 * d[4] + 10000 * d[5]) =
              <<d[5], d[4], d[3], d[2], d[1]>>
         /\ d[6] # 0 => Below1_000_000(d[1] + 10 * d[2] + 100 * d[3] + 1000 * d[4] + 10000 * d[5] + 100000 * d[6]) =
              <<d[6], d[5], d[4], d[3], d[2], d[1]>>
         /\ d[7] # 0 => Below100_000_000(d[1] + 10 * d[2] + 100 * d[3] + 1000 * d[4] + 10000 * d[5] + 100000 * d[6] + 1000000 * d[7]) =
              <<d[7], d[6], d[5], d[4], d[3], d[2], d[1]>>
         /\ d[8] # 0 => Below100_000_000(d[1] + 10 * d[2] + 100 * d[3] + 1000 * d[4] + 10000 * d[5] + 100000 * d[6] + 1000000 * d[7] + 10000000 * d[8]) =
              <<d[8], d[7], d[6], d[5], d[4], d[3], d[2], d[1]>>
<1> DEFINE d1 == d[1]
           d2 == d[2]
           d3 == d[3]
           d4 == d[4]
           d5 == d[5]
           d6 == d[6]
           d7 == d[7]
           d8 == d[8]
<1>0. d1 \in 0..9 /\ d2 \in 0..9 /\ d3 \in 0..9 /\ d4 \in 0..9 /\ d5 \in 0..9 /\ d6 \in 0..9 /\ d7 \in 0..9 /\ d8 \in 0..9
  BY DEF Digits8
<1> HIDE DEF d1, d2, d3, d4, d5, d6, d7, d8
<1>w. /\ lt100(d1 + 10 * d2) = <<d2, d1>>
      /\ lt10_000(d1 + 10 * d2 + 100 * d3 + 1000 * d4) = <<d4, d3, d2, d1>>
      /\ lt1_000_000(d1 + 10 * d2 + 100 * d3 + 1000 * d4 + 10000 * d5 + 100000 * d6) = <<d6, d5, d4, d3, d2, d1>>
      /\ lt100_000_000(d1 + 10 * d2 + 100 * d3 + 1000 * d4 + 10000 * d5 + 100000 * d6 + 1000000 * d7 + 10000000 * d8) = <<d8, d7, d6, d5, d4, d3, d2, d1>>
  BY DigitsWritten DEF d1, d2, d3, d4, d5, d6, d7, d8
<1>1. Below100(d1) = <<d1>>
  BY <1>0 DEF Below100
<1>2. ASSUME d2 # 0 PROVE Below100(d1 + 10 * d2) = <<d2, d1>>
  <2> DEFINE u == d1 + 10 * d2
  <2>1. u >= 10
    BY <1>0, <1>2
  <2>2. lt100(u) = <<d2, d1>>
    BY <1>w
  <2> HIDE DEF u
  <2>3. Below100(u) = <<d2, d1>>
    BY <2>1, <2>2 DEF Below100
  <2> QED BY <2>3 DEF u
<1>3. ASSUME d3 # 0 PROVE Below10_000(d1 + 10 * d2 + 100 * d3) = <<d3, d2, d1>>
  <2> DEFINE u == d1 + 10 * d2 + 100 * d3
  <2> DEFINE v == d1 + 10 * d2
  <2>1. ~(u >= 1000) /\ u \div 100 = d3 /\ u - d3 * 100 = v
    BY <1>0
  <2>2. lt100(v) = <<d2, d1>>
    BY <1>w
  <2> HIDE DEF u, v
  <2>3. Below10_000(u) = <<d3>> \o lt100(v)
    BY <2>1 DEF Below10_000, sublt100
  <2>4. <<d3>> \o <<d2, d1>> = <<d3, d2, d1>>
    <3>1. PICK s : s = <<d2, d1>>
      OBVIOUS
    <3>2. PICK y : y = <<d3, d2, d1>>
      OBVIOUS
    <3>3. d3 \in Int /\ s \in Seq(Int) /\ Len(s) = 2
      BY <1>0, <3>1
    <3>4. y \in Seq(Int) /\ Len(y) = 3 /\ y[1] = d3 /\ \A i \in 1..2 : y[i + 1] = s[i]
      BY <1>0, <3>1, <3>2
    <3>5. Len(y) = Len(s) + 1 /\ \A i \in 1..Len(s) : y[i + 1] = s[i]
      BY <3>3, <3>4
    <3>6. <<d3>> \o s = y
      BY <3>3, <3>4, <3>5, DigitFirst
    <3> QED BY <3>1, <3>2, <3>6
  <2>5. Below10_000(u) = <<d3, d2, d1>>
    BY <2>2, <2>3, <2>4
  <2> QED BY <2>5 DEF u
<1>4. ASSUME d4 # 0 PROVE Below10_000(d1 + 10 * d2 + 100 * d3 + 1000 * d4) = <<d4, d3, d2, d1>>
  <2> DEFINE u == d1 + 10 * d2 + 100 * d3 + 1000 * d4
  <2>1. u >= 1000
    BY <1>0, <1>4
  <2>2. lt10_000(u) = <<d4, d3, d2, d1>>
    BY <1>w
  <2> HIDE DEF u
  <2>3. Below10_000(u) = <<d4, d3, d2, d1>>
    BY <2>1, <2>2 DEF Below10_000
  <2> QED BY <2>3 DEF u
<1>5. ASSUME d5 # 0 PROVE Below1_000_000(d1 + 10 * d2 + 100 * d3 + 1000 * d4 + 10000 * d5) = <<d5, d4, d3, d2, d1>>
  <2> DEFINE u == d1 + 10 * d2 + 100 * d3 + 1000 * d4 + 10000 * d5
  <2> DEFINE v == d1 + 10 * d2 + 100 * d3 + 1000 * d4
  <2>1. ~(u >= 100000) /\ u \div 10000 = d5 /\ u - d5 * 10000 = v
    BY <1>0
  <2>2. lt10_000(v) = <<d4, d3, d2, d1>>
    BY <1>w
  <2> HIDE DEF u, v
  <2>3. Below1_000_000(u) = <<d5>> \o lt10_000(v)
    BY <2>1 DEF Below1_000_000, sublt10_000
  <2>4. <<d5>> \o <<d4, d3, d2, d1>> = <<d5, d4, d3, d2, d1>>
    <3>1. PICK s : s = <<d4, d3, d2, d1>>
      OBVIOUS
    <3>2. PICK y : y = <<d5, d4, d3, d2, d1>>
      OBVIOUS
    <3>3. d5 \in Int /\ s \in Seq(Int) /\ Len(s) = 4
      BY <1>0, <3>1
    <3>4. y \in Seq(Int) /\ Len(y) = 5 /\ y[1] = d5 /\ \A i \in 1..4 : y[i + 1] = s[i]
      BY <1>0, <3>1, <3>2
    <3>5. Len(y) = Len(s) + 1 /\ \A i \in 1..Len(s) : y[i + 1] = s[i]
      BY <3>3, <3>4
    <3>6. <<d5>> \o s = y
      BY <3>3, <3>4, <3>5, DigitFirst
    <3> QED BY <3>1, <3>2, <3>6
  <2>5. Below1_000_000(u) = <<d5, d4, d3, d2, d1>>
    BY <2>2, <2>3, <2>4
  <2> QED BY <2>5 DEF u
<1>6. ASSUME d6 # 0 PROVE Below1_000_000(d1 + 10 * d2 + 100 * d3 + 1000 * d4 + 10000 * d5 + 100000 * d6) = <<d6, d5, d4, d3, d2, d1>>
  <2> DEFINE u == d1 + 10 * d2 + 100 * d3 + 1000 * d4 + 10000 * d5 + 100000 * d6
  <2>1. u >= 100000
    BY <1>0, <1>6
  <2>2. lt1_000_000(u) = <<d6, d5, d4, d3, d2, d1>>
    BY <1>w
  <2> HIDE DEF u
  <2>3. Below1_000_000(u) = <<d6, d5, d4, d3, d2, d1>>
    BY <2>1, <2>2 DEF Below1_000_000
  <2> QED BY <2>3 DEF u
<1>7. ASSUME d7 # 0 PROVE Below100_000_000(d1 + 10 * d2 + 100 * d3 + 1000 * d4 + 10000 * d5 + 100000 * d6 + 1000000 * d7) = <<d7, d6, d5, d4, d3, d2, d1>>
  <2> DEFINE u == d1 + 10 * d2 + 100 * d3 + 1000 * d4 + 10000 * d5 + 100000 * d6 + 1000000 * d7
  <2> DEFINE v == d1 + 10 * d2 + 100 * d3 + 1000 * d4 + 10000 * d5 + 100000 * d6
  <2>1. ~(u >= 10000000) /\ u \div 1000000 = d7 /\ u - d7 * 1000000 = v
    BY <1>0
  <2>2. lt1_000_000(v) = <<d6, d5, d4, d3, d2, d1>>
    BY <1>w
  <2> HIDE DEF u, v
  <2>3. Below100_000_000(u) = <<d7>> \o lt1_000_000(v)
    BY <2>1 DEF Below100_000_000, sublt1_000_000
  <2>4. <<d7>> \o <<d6, d5, d4, d3, d2, d1>> = <<d7, d6, d5, d4, d3, d2, d1>>
    <3>1. PICK s : s = <<d6, d5, d4, d3, d2, d1>>
      OBVIOUS
    <3>2. PICK y : y = <<d7, d6, d5, d4, d3, d2, d1>>
      OBVIOUS
    <3>3. d7 \in Int /\ s \in Seq(Int) /\ Len(s) = 6
      BY <1>0, <3>1
    <3>4. y \in Seq(Int) /\ Len(y) = 7 /\ y[1] = d7 /\ \A i \in 1..6 : y[i + 1] = s[i]
      BY <1>0, <3>1, <3>2
    <3>5. Len(y) = Len(s) + 1 /\ \A i \in 1..Len(s) : y[i + 1] = s[i]
      BY <3>3, <3>4
    <3>6. <<d7>> \o s = y
      BY <3>3, <3>4, <3>5, DigitFirst
    <3> QED BY <3>1, <3>2, <3>6
  <2>5. Below100_000_000(u) = <<d7, d6, d5, d4, d3, d2, d1>>
    BY <2>2, <2>3, <2>4
  <2> QED BY <2>5 DEF u
<1>8. ASSUME d8 # 0 PROVE Below100_000_000(d1 + 10 * d2 + 100 * d3 + 1000 * d4 + 10000 * d5 + 100000 * d6 + 1000000 * d7 + 10000000 * d8) = <<d8, d7, d6, d5, d4, d3, d2, d1>>
  <2> DEFINE u == d1 + 10 * d2 + 100 * d3 + 1000 * d4 + 10000 * d5 + 100000 * d6 + 1000000 * d7 + 10000000 * d8
  <2>1. u >= 10000000
    BY <1>0, <1>8
  <2>2. lt100_000_000(u) = <<d8, d7, d6, d5, d4, d3, d2, d1>>
    BY <1>w
  <2> HIDE DEF u
  <2>3. Below100_000_000(u) = <<d8, d7, d6, d5, d4, d3, d2, d1>>
    BY <2>1, <2>2 DEF Below100_000_000
  <2> QED BY <2>3 DEF u
<1> QED BY <1>1, <1>2, <1>3, <1>4, <1>5, <1>6, <1>7, <1>8 DEF d1, d2, d3, d4, d5, d6, d7, d8

(* The numbers below 10^8 are written in decimal notation.                 *)
LEMMA SmallWritten ==
  ASSUME NEW u, u.hi = 0, NEW d \in Digits8, \A k \in 1..8 : Digit(u, k) = d[k],
         Digit(u, 9) = 0, Digit(u, 10) = 0, u.lo = d[1] + 10 * d[2] + 100 * d[3] + 1000 * d[4] + 10000 * d[5] + 100000 * d[6] + 1000000 * d[7] + 10000000 * d[8]
  PROVE  FastUInt32ToBufferLeft(u) = Decimal(u)
<1> DEFINE d1 == d[1]
           d2 == d[2]
           d3 == d[3]
           d4 == d[4]
           d5 == d[5]
           d6 == d[6]
           d7 == d[7]
           d8 == d[8]
<1>0. /\ d1 \in Nat /\ d1 <= 9
      /\ d2 \in Nat /\ d2 <= 9
      /\ d3 \in Nat /\ d3 <= 9
      /\ d4 \in Nat /\ d4 <= 9
      /\ d5 \in Nat /\ d5 <= 9
      /\ d6 \in Nat /\ d6 <= 9
      /\ d7 \in Nat /\ d7 <= 9
      /\ d8 \in Nat /\ d8 <= 9
  BY DEF Digits8
<1>1. u.lo = d1 + 10 * d2 + 100 * d3 + 1000 * d4 + 10000 * d5 + 100000 * d6 + 1000000 * d7 + 10000000 * d8
  OBVIOUS
<1>2. /\ Digit(u, 1) = d1
      /\ Digit(u, 2) = d2
      /\ Digit(u, 3) = d3
      /\ Digit(u, 4) = d4
      /\ Digit(u, 5) = d5
      /\ Digit(u, 6) = d6
      /\ Digit(u, 7) = d7
      /\ Digit(u, 8) = d8
  OBVIOUS
<1>3. /\ Below100(d1) = <<d1>>
      /\ d2 # 0 => Below100(d1 + 10 * d2) =
            <<d2, d1>>
      /\ d3 # 0 => Below10_000(d1 + 10 * d2 + 100 * d3) =
            <<d3, d2, d1>>
      /\ d4 # 0 => Below10_000(d1 + 10 * d2 + 100 * d3 + 1000 * d4) =
            <<d4, d3, d2, d1>>
      /\ d5 # 0 => Below1_000_000(d1 + 10 * d2 + 100 * d3 + 1000 * d4 + 10000 * d5) =
            <<d5, d4, d3, d2, d1>>
      /\ d6 # 0 => Below1_000_000(d1 + 10 * d2 + 100 * d3 + 1000 * d4 + 10000 * d5 + 100000 * d6) =
            <<d6, d5, d4, d3, d2, d1>>
      /\ d7 # 0 => Below100_000_000(d1 + 10 * d2 + 100 * d3 + 1000 * d4 + 10000 * d5 + 100000 * d6 + 1000000 * d7) =
            <<d7, d6, d5, d4, d3, d2, d1>>
      /\ d8 # 0 => Below100_000_000(d1 + 10 * d2 + 100 * d3 + 1000 * d4 + 10000 * d5 + 100000 * d6 + 1000000 * d7 + 10000000 * d8) =
            <<d8, d7, d6, d5, d4, d3, d2, d1>>
  BY BranchesWrite
<1> HIDE DEF d1, d2, d3, d4, d5, d6, d7, d8
<1>4. ASSUME d8 # 0 PROVE FastUInt32ToBufferLeft(u) = Decimal(u)
  <2> DEFINE x == d1 + 10 * d2 + 100 * d3 + 1000 * d4 + 10000 * d5 + 100000 * d6 + 1000000 * d7 + 10000000 * d8
             y == <<d8, d7, d6, d5, d4, d3, d2, d1>>
  <2>1. x \in Nat /\ x >= 1000000 /\ u.lo = x
    BY <1>0, <1>1, <1>4
  <2>2. Below100_000_000(x) = y
    BY <1>3, <1>4
  <2>3. y \in Seq(Int) /\ Len(y) = 8
    BY <1>0
  <2>4. Spells(u, 8, y)
    BY <1>2, <2>3 DEF Spells
  <2>5. LeadsAt(u, 8)
    BY <1>2, <1>4 DEF LeadsAt
  <2> HIDE DEF x, y
  <2>6. Decimal(u) = y
    BY <2>3, <2>4, <2>5, DecimalIs
  <2>7. FastUInt32ToBufferLeft(u) = Below100_000_000(x)
    BY <2>1 DEF FastUInt32ToBufferLeft
  <2> QED BY <2>2, <2>6, <2>7
<1>5. ASSUME d7 # 0, d8 = 0 PROVE FastUInt32ToBufferLeft(u) = Decimal(u)
  <2> DEFINE x == d1 + 10 * d2 + 100 * d3 + 1000 * d4 + 10000 * d5 + 100000 * d6 + 1000000 * d7
             y == <<d7, d6, d5, d4, d3, d2, d1>>
  <2>1. x \in Nat /\ x >= 1000000 /\ u.lo = x
    BY <1>0, <1>1, <1>5
  <2>2. Below100_000_000(x) = y
    BY <1>3, <1>5
  <2>3. y \in Seq(Int) /\ Len(y) = 7
    BY <1>0
  <2>4. Spells(u, 7, y)
    BY <1>2, <2>3 DEF Spells
  <2>5. LeadsAt(u, 7)
    BY <1>2, <1>5 DEF LeadsAt
  <2> HIDE DEF x, y
  <2>6. Decimal(u) = y
    BY <2>3, <2>4, <2>5, DecimalIs
  <2>7. FastUInt32ToBufferLeft(u) = Below100_000_000(x)
    BY <2>1 DEF FastUInt32ToBufferLeft
  <2> QED BY <2>2, <2>6, <2>7
<1>6. ASSUME d6 # 0, d7 = 0, d8 = 0 PROVE FastUInt32ToBufferLeft(u) = Decimal(u)
  <2> DEFINE x == d1 + 10 * d2 + 100 * d3 + 1000 * d4 + 10000 * d5 + 100000 * d6
             y == <<d6, d5, d4, d3, d2, d1>>
  <2>1. x \in Nat /\ x >= 10000 /\ x < 1000000 /\ u.lo = x
    BY <1>0, <1>1, <1>6
  <2>2. Below1_000_000(x) = y
    BY <1>3, <1>6
  <2>3. y \in Seq(Int) /\ Len(y) = 6
    BY <1>0
  <2>4. Spells(u, 6, y)
    BY <1>2, <2>3 DEF Spells
  <2>5. LeadsAt(u, 6)
    BY <1>2, <1>6 DEF LeadsAt
  <2> HIDE DEF x, y
  <2>6. Decimal(u) = y
    BY <2>3, <2>4, <2>5, DecimalIs
  <2>7. FastUInt32ToBufferLeft(u) = Below1_000_000(x)
    BY <2>1 DEF FastUInt32ToBufferLeft
  <2> QED BY <2>2, <2>6, <2>7
<1>7. ASSUME d5 # 0, d6 = 0, d7 = 0, d8 = 0 PROVE FastUInt32ToBufferLeft(u) = Decimal(u)
  <2> DEFINE x == d1 + 10 * d2 + 100 * d3 + 1000 * d4 + 10000 * d5
             y == <<d5, d4, d3, d2, d1>>
  <2>1. x \in Nat /\ x >= 10000 /\ x < 1000000 /\ u.lo = x
    BY <1>0, <1>1, <1>7
  <2>2. Below1_000_000(x) = y
    BY <1>3, <1>7
  <2>3. y \in Seq(Int) /\ Len(y) = 5
    BY <1>0
  <2>4. Spells(u, 5, y)
    BY <1>2, <2>3 DEF Spells
  <2>5. LeadsAt(u, 5)
    BY <1>2, <1>7 DEF LeadsAt
  <2> HIDE DEF x, y
  <2>6. Decimal(u) = y
    BY <2>3, <2>4, <2>5, DecimalIs
  <2>7. FastUInt32ToBufferLeft(u) = Below1_000_000(x)
    BY <2>1 DEF FastUInt32ToBufferLeft
  <2> QED BY <2>2, <2>6, <2>7
<1>8. ASSUME d4 # 0, d5 = 0, d6 = 0, d7 = 0, d8 = 0 PROVE FastUInt32ToBufferLeft(u) = Decimal(u)
  <2> DEFINE x == d1 + 10 * d2 + 100 * d3 + 1000 * d4
             y == <<d4, d3, d2, d1>>
  <2>1. x \in Nat /\ x >= 100 /\ x < 10000 /\ u.lo = x
    BY <1>0, <1>1, <1>8
  <2>2. Below10_000(x) = y
    BY <1>3, <1>8
  <2>3. y \in Seq(Int) /\ Len(y) = 4
    BY <1>0
  <2>4. Spells(u, 4, y)
    BY <1>2, <2>3 DEF Spells
  <2>5. LeadsAt(u, 4)
    BY <1>2, <1>8 DEF LeadsAt
  <2> HIDE DEF x, y
  <2>6. Decimal(u) = y
    BY <2>3, <2>4, <2>5, DecimalIs
  <2>7. FastUInt32ToBufferLeft(u) = Below10_000(x)
    BY <2>1 DEF FastUInt32ToBufferLeft
  <2> QED BY <2>2, <2>6, <2>7
<1>9. ASSUME d3 # 0, d4 = 0, d5 = 0, d6 = 0, d7 = 0, d8 = 0 PROVE FastUInt32ToBufferLeft(u) = Decimal(u)
  <2> DEFINE x == d1 + 10 * d2 + 100 * d3
             y == <<d3, d2, d1>>
  <2>1. x \in Nat /\ x >= 100 /\ x < 10000 /\ u.lo = x
    BY <1>0, <1>1, <1>9
  <2>2. Below10_000(x) = y
    BY <1>3, <1>9
  <2>3. y \in Seq(Int) /\ Len(y) = 3
    BY <1>0
  <2>4. Spells(u, 3, y)
    BY <1>2, <2>3 DEF Spells
  <2>5. LeadsAt(u, 3)
    BY <1>2, <1>9 DEF LeadsAt
  <2> HIDE DEF x, y
  <2>6. Decimal(u) = y
    BY <2>3, <2>4, <2>5, DecimalIs
  <2>7. FastUInt32ToBufferLeft(u) = Below10_000(x)
    BY <2>1 DEF FastUInt32ToBufferLeft
  <2> QED BY <2>2, <2>6, <2>7
<1>10. ASSUME d2 # 0, d3 = 0, d4 = 0, d5 = 0, d6 = 0, d7 = 0, d8 = 0 PROVE FastUInt32ToBufferLeft(u) = Decimal(u)
  <2> DEFINE x == d1 + 10 * d2
             y == <<d2, d1>>
  <2>1. x \in Nat /\ x < 100 /\ u.lo = x
    BY <1>0, <1>1, <1>10
  <2>2. Below100(x) = y
    BY <1>3, <1>10
  <2>3. y \in Seq(Int) /\ Len(y) = 2
    BY <1>0
  <2>4. Spells(u, 2, y)
    BY <1>2, <2>3 DEF Spells
  <2>5. LeadsAt(u, 2)
    BY <1>2, <1>10 DEF LeadsAt
  <2> HIDE DEF x, y
  <2>6. Decimal(u) = y
    BY <2>3, <2>4, <2>5, DecimalIs
  <2>7. FastUInt32ToBufferLeft(u) = Below100(x)
    BY <2>1 DEF FastUInt32ToBufferLeft
  <2> QED BY <2>2, <2>6, <2>7
<1>11. ASSUME d2 = 0, d3 = 0, d4 = 0, d5 = 0, d6 = 0, d7 = 0, d8 = 0 PROVE FastUInt32ToBufferLeft(u) = Decimal(u)
  <2> DEFINE x == d1
             y == <<d1>>
  <2>1. x \in Nat /\ x < 100 /\ u.lo = x
    BY <1>0, <1>1, <1>11
  <2>2. Below100(x) = y
    BY <1>3
  <2>3. y \in Seq(Int) /\ Len(y) = 1
    BY <1>0
  <2>4. Spells(u, 1, y)
    BY <1>2, <2>3 DEF Spells
  <2>5. LeadsAt(u, 1)
    BY <1>2, <1>11 DEF LeadsAt
  <2> HIDE DEF x, y
  <2>6. Decimal(u) = y
    BY <2>3, <2>4, <2>5, DecimalIs
  <2>7. FastUInt32ToBufferLeft(u) = Below100(x)
    BY <2>1 DEF FastUInt32ToBufferLeft
  <2> QED BY <2>2, <2>6, <2>7
<1> QED BY <1>4, <1>5, <1>6, <1>7, <1>8, <1>9, <1>10, <1>11

(* A digit is a number.                                                    *)
LEMMA DigitIs ==
  ASSUME NEW u, u.hi \in Nat, u.lo \in Nat, NEW spot \in 1..10
  PROVE  Digit(u, spot) \in 0..9
<1>1. \A x \in Nat, y \in Nat \ {0} : (x \div y) % 10 \in 0..9
  OBVIOUS
<1>2. \A i \in 1..8 : Unit[i] \in Nat \ {0}
  BY DEF Unit
<1>3. CASE spot > 8
  <2>1. spot - 8 \in 1..8
    BY <1>3
  <2>2. Unit[spot - 8] \in Nat \ {0}
    BY <1>2, <2>1
  <2> QED BY <1>1, <1>3, <2>2 DEF Digit
<1>4. CASE ~(spot > 8)
  <2>1. spot \in 1..8
    BY <1>4
  <2>2. Unit[spot] \in Nat \ {0}
    BY <1>2, <2>1
  <2> QED BY <1>1, <1>4, <2>2 DEF Digit
<1> QED BY <1>3, <1>4

(* Two digits before others.                                               *)
LEMMA TwoFirst ==
  ASSUME NEW t \in Seq(Int), NEW s \in Seq(Int), NEW y \in Seq(Int), Len(t) = 2,
         Len(y) = Len(s) + 2, y[1] = t[1], y[2] = t[2],
         \A i \in 1..Len(s) : y[i + 2] = s[i]
  PROVE  t \o s = y
<1>0. Len(s) \in Nat
  BY LenProperties
<1>1. /\ t \o s \in Seq(Int) /\ Len(t \o s) = Len(t) + Len(s)
      /\ \A i \in 1..(Len(t) + Len(s)) : (t \o s)[i] = IF i <= Len(t) THEN t[i] ELSE s[i - Len(t)]
  BY ConcatProperties
<1>2. ASSUME NEW i \in 1..(2 + Len(s)) PROVE (t \o s)[i] = y[i]
  <2>1. CASE i = 1
    BY <1>0, <1>1, <2>1
  <2>2. CASE i = 2
    BY <1>0, <1>1, <2>2
  <2>3. CASE i >= 3
    <3>1. i - 2 \in 1..Len(s) /\ (i - 2) + 2 = i /\ ~(i <= 2)
      BY <1>0, <2>3
    <3>2. y[(i - 2) + 2] = s[i - 2]
      BY <3>1
    <3>3. (t \o s)[i] = s[i - 2]
      BY <1>1, <3>1
    <3> QED BY <3>1, <3>2, <3>3
  <2>4. i = 1 \/ i = 2 \/ i >= 3
    BY <1>0
  <2> QED BY <2>1, <2>2, <2>3, <2>4
<1>3. Len(t \o s) = Len(y) /\ \A i \in 1..Len(t \o s) : (t \o s)[i] = y[i]
  BY <1>0, <1>1, <1>2
<1> QED BY <1>1, <1>3, SeqEqual

(* What is written of a number is its decimal notation, in the ranges of   *)
(* uint32_t and beyond.                                                    *)
LEMMA WritesDecimal ==
  ASSUME NEW u, u.hi \in Nat, u.lo \in Nat, u.hi <= 99, u.lo < Split
  PROVE  FastUInt32ToBufferLeft(u) = Decimal(u)
<1>0. PICK d \in Digits8 : d = DigitsOf(u.lo) /\ u.lo = NumberOf(d)
  BY DigitsAdd
<1>1. u.lo = d[1] + 10 * d[2] + 100 * d[3] + 1000 * d[4] + 10000 * d[5] + 100000 * d[6] + 1000000 * d[7] + 10000000 * d[8]
  <2>1. u.lo = NumberOf(d)
    BY <1>0
  <2> QED BY <2>1 DEF NumberOf
<1>2. \A k \in 1..8 : Digit(u, k) = d[k]
  BY <1>0 DEF Digit, DigitsOf
<1>3. Digit(u, 9) = u.hi % 10 /\ Digit(u, 10) = u.hi \div 10
  <2>1. Digit(u, 9) = (u.hi \div 1) % 10 /\ Digit(u, 10) = (u.hi \div 10) % 10
    BY DEF Digit, Unit
  <2>2. u.hi \div 1 = u.hi /\ (u.hi \div 10) % 10 = u.hi \div 10
    OBVIOUS
  <2> QED BY <2>1, <2>2
<1> DEFINE d1 == d[1]
           d2 == d[2]
           d3 == d[3]
           d4 == d[4]
           d5 == d[5]
           d6 == d[6]
           d7 == d[7]
           d8 == d[8]
<1>4. /\ d1 \in Nat /\ d1 <= 9 /\ Digit(u, 1) = d1
      /\ d2 \in Nat /\ d2 <= 9 /\ Digit(u, 2) = d2
      /\ d3 \in Nat /\ d3 <= 9 /\ Digit(u, 3) = d3
      /\ d4 \in Nat /\ d4 <= 9 /\ Digit(u, 4) = d4
      /\ d5 \in Nat /\ d5 <= 9 /\ Digit(u, 5) = d5
      /\ d6 \in Nat /\ d6 <= 9 /\ Digit(u, 6) = d6
      /\ d7 \in Nat /\ d7 <= 9 /\ Digit(u, 7) = d7
      /\ d8 \in Nat /\ d8 <= 9 /\ Digit(u, 8) = d8
  BY <1>2 DEF Digits8
<1>5. lt100_000_000(u.lo) = <<d8, d7, d6, d5, d4, d3, d2, d1>>
  BY <1>1, DigitsWritten
<1> HIDE DEF d1, d2, d3, d4, d5, d6, d7, d8
<1>6. CASE u.hi = 0
  <2>1. Digit(u, 9) = 0 /\ Digit(u, 10) = 0
    BY <1>3, <1>6
  <2>2. u.lo = d[1] + 10 * d[2] + 100 * d[3] + 1000 * d[4] + 10000 * d[5] + 100000 * d[6] + 1000000 * d[7] + 10000000 * d[8]
    BY <1>1
  <2> QED BY <1>2, <1>6, <2>1, <2>2, SmallWritten
<1>7. CASE u.hi >= 1 /\ u.hi <= 9
  <2> DEFINE s == <<d8, d7, d6, d5, d4, d3, d2, d1>>
             y == <<u.hi, d8, d7, d6, d5, d4, d3, d2, d1>>
  <2>1. FastUInt32ToBufferLeft(u) = <<u.hi>> \o s
    BY <1>5, <1>7 DEF FastUInt32ToBufferLeft
  <2>2. s \in Seq(Int) /\ Len(s) = 8 /\ y \in Seq(Int) /\ Len(y) = 9 /\ y[1] = u.hi
    BY <1>4
  <2>3. \A i \in 1..8 : y[i + 1] = s[i]
    OBVIOUS
  <2>4. Digit(u, 9) = u.hi /\ Digit(u, 10) = 0
    BY <1>3, <1>7
  <2>5. Spells(u, 9, y)
    BY <1>4, <2>2, <2>4 DEF Spells
  <2>6. LeadsAt(u, 9)
    BY <1>7, <2>4 DEF LeadsAt
  <2> HIDE DEF s, y
  <2>7. <<u.hi>> \o s = y
    <3>1. Len(y) = Len(s) + 1 /\ \A i \in 1..Len(s) : y[i + 1] = s[i]
      BY <2>2, <2>3
    <3>2. u.hi \in Int
      OBVIOUS
    <3> QED BY <2>2, <3>1, <3>2, DigitFirst
  <2>8. Decimal(u) = y
    BY <2>2, <2>5, <2>6, DecimalIs
  <2> QED BY <2>1, <2>7, <2>8
<1>8. CASE u.hi >= 10
  <2> DEFINE a == u.hi \div 10
             b == u.hi % 10
             s == <<d8, d7, d6, d5, d4, d3, d2, d1>>
             y == <<a, b, d8, d7, d6, d5, d4, d3, d2, d1>>
  <2>1. FastUInt32ToBufferLeft(u) = <<a, b>> \o s
    BY <1>5, <1>8 DEF FastUInt32ToBufferLeft, two_ASCII_digits
  <2>2. a \in Nat /\ a # 0 /\ b \in Nat /\ Digit(u, 9) = b /\ Digit(u, 10) = a
    BY <1>3, <1>8
  <2> HIDE DEF a, b
  <2>3. y \in Seq(Int) /\ Len(y) = 10
    BY <1>4, <2>2
  <2>4. Spells(u, 10, y)
    BY <1>4, <2>2, <2>3 DEF Spells
  <2>5. LeadsAt(u, 10)
    BY <2>2 DEF LeadsAt
  <2>6. <<a, b>> \o s = y
    <3>1. <<a, b>> \in Seq(Int) /\ Len(<<a, b>>) = 2 /\ <<a, b>>[1] = a /\ <<a, b>>[2] = b
      BY <2>2
    <3>2. s \in Seq(Int) /\ Len(s) = 8 /\ \A i \in 1..8 : y[i + 2] = s[i]
      BY <1>4
    <3>3. y[1] = a /\ y[2] = b
      OBVIOUS
    <3> DEFINE t == <<a, b>>
    <3>4. t \in Seq(Int) /\ Len(t) = 2 /\ t[1] = a /\ t[2] = b
      BY <3>1
    <3> HIDE DEF s, y, t
    <3>5. \A i \in 1..Len(s) : y[i + 2] = s[i]
      BY <3>2
    <3>6. Len(y) = Len(s) + 2
      BY <2>3, <3>2
    <3>7. t \o s = y
      BY <2>3, <3>2, <3>3, <3>4, <3>5, <3>6, TwoFirst
    <3> QED BY <3>7 DEF t
  <2> HIDE DEF s, y
  <2>7. Decimal(u) = y
    BY <2>3, <2>4, <2>5, DecimalIs
  <2> QED BY <2>1, <2>6, <2>7
<1> QED BY <1>6, <1>7, <1>8

(* Sizes of 32 bits: an int32_t is written like its magnitude, after a     *)
(* Decimal notation consists of digits.                                    *)
LEMMA DecimalDigits ==
  ASSUME NEW u, u.hi \in Nat, u.lo \in Nat
  PROVE  Decimal(u) \in Seq(0..9)
<1> DEFINE n == CHOOSE n \in Places(u) : \A spot \in Places(u) : spot <= n
<1>1. Decimal(u) = [p \in 1..n |-> Digit(u, n + 1 - p)]
  BY DEF Decimal
<1>2. n \in Places(u)
  <2>1. Places(u) \in SUBSET (0..10) /\ Places(u) # {}
    BY DEF Places
  <2>2. \E m \in Places(u) : \A spot \in Places(u) : spot <= m
    BY <2>1, GreatestExists
  <2> QED BY <2>2
<1> HIDE DEF n
<1>3. n \in Nat /\ n <= 10
  BY <1>2 DEF Places
<1>4. \A p \in 1..n : Digit(u, n + 1 - p) \in 0..9
  <2> TAKE p \in 1..n
  <2>1. n + 1 - p \in 1..10
    BY <1>3
  <2> QED BY <2>1, DigitIs
<1>5. [p \in 1..n |-> Digit(u, n + 1 - p)] \in [1..n -> 0..9]
  BY <1>4
<1> DEFINE f == [p \in 1..n |-> Digit(u, n + 1 - p)]
<1>6. f \in [1..n -> 0..9]
  BY <1>5
<1> HIDE DEF f
<1>7. f \in Seq(0..9)
  BY <1>3, <1>6, SeqDef
<1> QED BY <1>1, <1>7 DEF f

(* sign if it has one.                                                     *)
LEMMA IsDecimalHolds ==
  ASSUME NEW u, u.hi \in Nat, u.lo \in Nat, u.hi <= 99, u.lo < Split
  PROVE  IsDecimal(u)
<1>1. FastUInt32ToBufferLeft(u) = Decimal(u)
  BY WritesDecimal
<1>2. Decimal(u) \in Seq(0..9)
  BY DecimalDigits
<1>3. <<>> \o Decimal(u) = Decimal(u)
  BY <1>2
<1>4. FastInt32ToBufferLeft(FALSE, u) = Decimal(u) /\ FastInt32ToBufferLeft(TRUE, u) = <<Minus>> \o Decimal(u)
  BY <1>1, <1>3 DEF FastInt32ToBufferLeft
<1> QED BY <1>1, <1>4 DEF IsDecimal

------------------------------------------------------------------------------
(* The name checks                                                         *)

(* A name begins with two underscores if its first two characters are.     *)
LEMMA TwoUnderscores ==
  ASSUME NEW name \in Seq(STRING), Len(name) >= 2
  PROVE  SubSeq(name, 1, 2) = <<"_", "_">> <=> name[1] = "_" /\ name[2] = "_"
<1>1. SubSeq(name, 1, 2) = <<name[1], name[2]>>
  <2>1. Len(name) \in Nat
    BY LenProperties
  <2>2. /\ SubSeq(name, 1, 2) \in Seq(STRING) /\ Len(SubSeq(name, 1, 2)) = 2
        /\ \A i \in 1..2 : SubSeq(name, 1, 2)[i] = name[i]
    <3>1. 1 \in 1..(Len(name) + 1) /\ 2 \in 0..Len(name)
      BY <2>1
    <3> QED BY <3>1, SubSeqProperties
  <2>3. name[1] \in STRING /\ name[2] \in STRING
    BY <2>1, ElementOfSeq
  <2> DEFINE two == <<name[1], name[2]>>
  <2>4. two \in Seq(STRING) /\ Len(two) = 2 /\ \A i \in 1..2 : two[i] = name[i]
    BY <2>3
  <2> HIDE DEF two
  <2>5. SubSeq(name, 1, 2) = two
    BY <2>2, <2>4, SeqEqual
  <2> QED BY <2>5 DEF two
<1>2. ASSUME NEW c, NEW d PROVE <<c, d>> = <<"_", "_">> <=> c = "_" /\ d = "_"
  <2>1. <<c, d>>[1] = c /\ <<c, d>>[2] = d /\ <<"_", "_">>[1] = "_" /\ <<"_", "_">>[2] = "_"
    OBVIOUS
  <2> QED BY <2>1
<1> QED BY <1>1, <1>2

(* A name that may not start with a digit is a word of the expression with *)
(* the digits in what follows the first character only.                    *)
LEMMA FirstAndRest ==
  ASSUME NEW name \in Seq(STRING), NEW others, NumberSigns \cap (Letters \cup others) = {}
  PROVE  /\ Len(name) >= 1 /\ name[1] \notin NumberSigns
         /\ \A i \in 1..Len(name) : name[i] \in Letters \cup NumberSigns \/ name[i] \in others
         <=> Matches(name, Letters \cup others, (Letters \cup others) \cup NumberSigns)
<1>1. Len(name) \in Nat
  BY LenProperties
<1> DEFINE Allowed == \A i \in 1..Len(name) : name[i] \in Letters \cup NumberSigns \/ name[i] \in others
<1>2. ASSUME Len(name) >= 1, name[1] \notin NumberSigns, Allowed
      PROVE  Matches(name, Letters \cup others, (Letters \cup others) \cup NumberSigns)
  <2>1. 1 \in 1..Len(name) /\ \A i \in 2..Len(name) : i \in 1..Len(name)
    BY <1>1, <1>2
  <2> QED BY <1>2, <2>1 DEF Matches
<1>3. ASSUME Matches(name, Letters \cup others, (Letters \cup others) \cup NumberSigns)
      PROVE  Len(name) >= 1 /\ name[1] \notin NumberSigns /\ Allowed
  <2>1. Len(name) >= 1 /\ name[1] \in Letters \cup others
    BY <1>3 DEF Matches
  <2>2. ASSUME NEW i \in 1..Len(name) PROVE name[i] \in Letters \cup NumberSigns \/ name[i] \in others
    <3>1. i = 1 \/ i \in 2..Len(name)
      BY <1>1
    <3> QED BY <1>3, <2>1, <3>1 DEF Matches
  <2> QED BY <2>1, <2>2
<1> QED BY <1>2, <1>3

(* The checks accept the names of their patterns that are not reserved.    *)
LEMMA NamesMatch ==
  ASSUME NEW name \in Seq(STRING)
  PROVE  PatternsButReserved(name)
<1> DEFINE Reserved == Len(name) >= 2 /\ name[1] = "_" /\ name[2] = "_"
           metric == Letters \cup {"_", ":"}
           label == Letters \cup {"_"}
<1>1. nameStartsValid(name) <=> Len(name) >= 1 /\ name[1] \notin NumberSigns /\ ~Reserved
  <2>1. Len(name) \in Nat /\ (name # <<>> <=> Len(name) >= 1)
    BY LenProperties, EmptySeq
  <2>2. Len(name) >= 2 => (SubSeq(name, 1, 2) = <<"_", "_">> <=> name[1] = "_" /\ name[2] = "_")
    BY TwoUnderscores
  <2> QED BY <2>1, <2>2 DEF nameStartsValid, isLocaleIndependentDigit
<1> HIDE DEF Reserved
<1>2. CheckMetricName(name) <=> Matches(name, metric, metric \cup NumberSigns) /\ ~Reserved
  <2>1. NumberSigns \cap (Letters \cup {"_", ":"}) = {}
    BY CharactersAssumption
  <2>2. /\ Len(name) >= 1 /\ name[1] \notin NumberSigns
        /\ \A i \in 1..Len(name) : name[i] \in Letters \cup NumberSigns \/ name[i] \in {"_", ":"}
        <=> Matches(name, metric, metric \cup NumberSigns)
    BY <2>1, FirstAndRest
  <2> HIDE DEF metric
  <2> QED BY <1>1, <2>2 DEF CheckMetricName, isLocaleIndependentAlphaNumeric
<1>3. CheckLabelName(name) <=> Matches(name, label, label \cup NumberSigns) /\ ~Reserved
  <2>1. NumberSigns \cap (Letters \cup {"_"}) = {}
    BY CharactersAssumption
  <2>2. /\ Len(name) >= 1 /\ name[1] \notin NumberSigns
        /\ \A i \in 1..Len(name) : name[i] \in Letters \cup NumberSigns \/ name[i] \in {"_"}
        <=> Matches(name, label, label \cup NumberSigns)
    BY <2>1, FirstAndRest
  <2>3. \A i \in 1..Len(name) : name[i] \in {"_"} <=> name[i] = "_"
    OBVIOUS
  <2> HIDE DEF label
  <2> QED BY <1>1, <2>2, <2>3 DEF CheckLabelName, isLocaleIndependentAlphaNumeric
<1> QED BY <1>2, <1>3 DEF PatternsButReserved, Reserved

------------------------------------------------------------------------------
(* The two passes of Substitute                                            *)

(* What each pass does from position i on, f being what it does from later *)
(* positions on.                                                           *)
SizeAt(format, args, f, i) ==
  CASE i > Len(format) -> 0
    [] i <= Len(format) /\ Reference(format, i) ->
         IF args[Number(format[i + 1])] = NoArg THEN -1
         ELSE Plus(Len(args[Number(format[i + 1])]), f[i + 2])
    [] i <= Len(format) /\ Escape(format, i) -> Plus(1, f[i + 2])
    [] i <= Len(format) /\ Stray(format, i) -> f[i + 1]
    [] i = Len(format) /\ ~Literal(format, i) -> -1
    [] OTHER -> Plus(1, f[i + 1])

RestAt(format, args, f, i) ==
  CASE i > Len(format) -> <<>>
    [] i <= Len(format) /\ Reference(format, i) -> args[Number(format[i + 1])] \o f[i + 2]
    [] i <= Len(format) /\ Escape(format, i) -> <<Dollar>> \o f[AfterEscape(format, i)]
    [] i <= Len(format) /\ Stray(format, i) -> OfStray(format, i) \o f[i + 1]
    [] i = Len(format) /\ ~Literal(format, i) -> <<>>
    [] OTHER -> <<format[i]>> \o f[i + 1]

(* What stands at a position is one of five things.                        *)
LEMMA FiveKinds ==
  ASSUME NEW format \in Seq(STRING), NEW i \in 1..Len(format)
  PROVE  /\ \/ Literal(format, i) /\ ~Reference(format, i) /\ ~Escape(format, i) /\ ~Stray(format, i)
               /\ format[i] # Dollar
            \/ Reference(format, i) /\ ~Literal(format, i) /\ ~Escape(format, i) /\ ~Stray(format, i)
               /\ i < Len(format)
            \/ Escape(format, i) /\ ~Literal(format, i) /\ ~Reference(format, i) /\ ~Stray(format, i)
               /\ i < Len(format)
            \/ Stray(format, i) /\ ~Literal(format, i) /\ ~Reference(format, i) /\ ~Escape(format, i)
               /\ i < Len(format)
            \/ ~Literal(format, i) /\ ~Reference(format, i) /\ ~Escape(format, i) /\ ~Stray(format, i)
               /\ i = Len(format) /\ format[i] = Dollar
<1>1. Len(format) \in Nat
  BY LenProperties
<1>2. i < Len(format) \/ i = Len(format)
  BY <1>1
<1>3. Reference(format, i) => ~Escape(format, i)
  BY SubstitutionAssumption DEF Reference, Escape
<1> QED BY <1>1, <1>2, <1>3 DEF Literal, Reference, Escape, Stray, Followed

(* What the first pass does at each of them.                               *)
LEMMA SizeOfEach ==
  ASSUME NEW format \in Seq(STRING), NEW args, NEW f, NEW i \in 1..Len(format)
  PROVE  /\ Literal(format, i) => SizeAt(format, args, f, i) = Plus(1, f[i + 1])
         /\ Reference(format, i) =>
              SizeAt(format, args, f, i) =
                IF args[Number(format[i + 1])] = NoArg THEN -1
                ELSE Plus(Len(args[Number(format[i + 1])]), f[i + 2])
         /\ Escape(format, i) => SizeAt(format, args, f, i) = Plus(1, f[i + 2])
         /\ Stray(format, i) => SizeAt(format, args, f, i) = f[i + 1]
         /\ i = Len(format) /\ format[i] = Dollar => SizeAt(format, args, f, i) = -1
<1>1. Len(format) \in Nat /\ ~(i > Len(format)) /\ i <= Len(format)
  BY LenProperties
<1> DEFINE a == args[Number(format[i + 1])]
           none == a = NoArg
           given == Plus(Len(a), f[i + 2])
<1>2. SizeAt(format, args, f, i) =
        CASE i > Len(format) -> 0
          [] i <= Len(format) /\ Reference(format, i) -> IF none THEN -1 ELSE given
          [] i <= Len(format) /\ Escape(format, i) -> Plus(1, f[i + 2])
          [] i <= Len(format) /\ Stray(format, i) -> f[i + 1]
          [] i = Len(format) /\ ~Literal(format, i) -> -1
    [] OTHER -> Plus(1, f[i + 1])
  BY DEF SizeAt
<1>3. Reference(format, i) \/ Escape(format, i) \/ Stray(format, i) => i < Len(format)
  BY DEF Reference, Escape, Stray, Followed
<1>4. Literal(format, i) => format[i] # Dollar
  BY DEF Literal
<1> HIDE DEF none, given
<1>5. /\ Literal(format, i) => SizeAt(format, args, f, i) = Plus(1, f[i + 1])
      /\ Reference(format, i) => SizeAt(format, args, f, i) = IF none THEN -1 ELSE given
      /\ Escape(format, i) => SizeAt(format, args, f, i) = Plus(1, f[i + 2])
      /\ Stray(format, i) => SizeAt(format, args, f, i) = f[i + 1]
      /\ i = Len(format) /\ format[i] = Dollar => SizeAt(format, args, f, i) = -1
  BY <1>1, <1>2, <1>3, <1>4, FiveKinds
<1> QED BY <1>5 DEF none, given

(* What the second pass does at each of them.                              *)
LEMMA RestOfEach ==
  ASSUME NEW format \in Seq(STRING), NEW args, NEW f, NEW i \in 1..Len(format)
  PROVE  /\ Literal(format, i) => RestAt(format, args, f, i) = Cat(<<format[i]>>, f[i + 1])
         /\ Reference(format, i) => RestAt(format, args, f, i) = Cat(args[Number(format[i + 1])], f[i + 2])
         /\ Escape(format, i) => RestAt(format, args, f, i) = Cat(<<Dollar>>, f[i + 2])
         /\ Stray(format, i) => RestAt(format, args, f, i) = Cat(<<>>, f[i + 1])
         /\ i = Len(format) /\ format[i] = Dollar => RestAt(format, args, f, i) = <<>>
<1>1. Len(format) \in Nat /\ ~(i > Len(format)) /\ i <= Len(format)
  BY LenProperties
<1>2. RestAt(format, args, f, i) =
        CASE i > Len(format) -> <<>>
          [] i <= Len(format) /\ Reference(format, i) -> Cat(args[Number(format[i + 1])], f[i + 2])
          [] i <= Len(format) /\ Escape(format, i) -> Cat(<<Dollar>>, f[i + 2])
          [] i <= Len(format) /\ Stray(format, i) -> Cat(<<>>, f[i + 1])
          [] i = Len(format) /\ ~Literal(format, i) -> <<>>
          [] OTHER -> Cat(<<format[i]>>, f[i + 1])
  BY DEF RestAt, Cat, AfterEscape, OfStray
<1>3. Reference(format, i) \/ Escape(format, i) \/ Stray(format, i) => i < Len(format)
  BY DEF Reference, Escape, Stray, Followed
<1>4. Literal(format, i) => format[i] # Dollar
  BY DEF Literal
<1> QED BY <1>1, <1>2, <1>3, <1>4, FiveKinds

(* The first pass, as what it does from each position on.                  *)
LEMMA SizesExist ==
  ASSUME NEW format \in Seq(STRING), NEW args
  PROVE  \E f : /\ SubstitutedSize(format, args) = f[1]
                /\ \A i \in 1..(Len(format) + 1) : f[i] = SizeAt(format, args, f, i)
<1>0. Len(format) \in Nat
  BY LenProperties
<1>1. PICK N : N = Len(format) + 1
  OBVIOUS
<1>2. N \in Nat /\ N # 0
  BY <1>0, <1>1
<1> DEFINE At(f, i) == SizeAt(format, args, f, i)
<1>3. ASSUME NEW i \in 1..N, NEW f, NEW g, \A m \in (i + 1)..N : f[m] = g[m]
      PROVE  At(f, i) = At(g, i)
  <2>1. CASE i = N
    <3>1. i > Len(format)
      BY <1>0, <1>1, <2>1
    <3>2. At(f, i) = 0 /\ At(g, i) = 0
      BY <3>1 DEF SizeAt
    <3> QED BY <3>2
  <2>2. CASE i # N
    <3>1. i \in 1..Len(format) /\ i + 1 \in (i + 1)..N
      BY <1>0, <1>1, <2>2
    <3>2. i < Len(format) => i + 2 \in (i + 1)..N
      BY <1>0, <1>1, <3>1
    <3>3. f[i + 1] = g[i + 1] /\ (i < Len(format) => f[i + 2] = g[i + 2])
      BY <1>3, <3>1, <3>2
    <3>each. ASSUME NEW h
          PROVE  /\ Literal(format, i) => At(h, i) = Plus(1, h[i + 1])
                 /\ Reference(format, i) => At(h, i) = (IF args[Number(format[i + 1])] = NoArg THEN -1 ELSE Plus(Len(args[Number(format[i + 1])]), h[i + 2]))
                 /\ Escape(format, i) => At(h, i) = Plus(1, h[i + 2])
                 /\ Stray(format, i) => At(h, i) = h[i + 1]
      BY <3>1, SizeOfEach
    <3>4. CASE Literal(format, i)
      <4>1. At(f, i) = Plus(1, f[i + 1]) /\ At(g, i) = Plus(1, g[i + 1])
        BY <3>each, <3>4
      <4> QED BY <3>3, <4>1
    <3>5. CASE Reference(format, i)
      <4>1. i < Len(format)
        BY <3>5 DEF Reference, Followed
      <4>2. At(f, i) = (IF args[Number(format[i + 1])] = NoArg THEN -1 ELSE Plus(Len(args[Number(format[i + 1])]), f[i + 2])) /\ At(g, i) = (IF args[Number(format[i + 1])] = NoArg THEN -1 ELSE Plus(Len(args[Number(format[i + 1])]), g[i + 2]))
        BY <3>each, <3>5
      <4> QED BY <3>3, <4>1, <4>2
    <3>6. CASE Escape(format, i)
      <4>1. i < Len(format)
        BY <3>6 DEF Escape, Followed
      <4>2. At(f, i) = Plus(1, f[i + 2]) /\ At(g, i) = Plus(1, g[i + 2])
        BY <3>each, <3>6
      <4> QED BY <3>3, <4>1, <4>2
    <3>7. CASE Stray(format, i)
      <4>1. At(f, i) = f[i + 1] /\ At(g, i) = g[i + 1]
        BY <3>each, <3>7
      <4> QED BY <3>3, <4>1
    <3>8. CASE i = Len(format) /\ format[i] = Dollar
      <4>1. At(f, i) = -1 /\ At(g, i) = -1
        BY <3>1, <3>8, SizeOfEach
      <4> QED BY <4>1
    <3> QED BY <3>1, <3>4, <3>5, <3>6, <3>7, <3>8, FiveKinds
  <2> QED BY <2>1, <2>2
<1> HIDE DEF At
<1> DEFINE Has(k) == \E f : f = [i \in (N - k)..N |-> At(f, i)]
           Q == {k \in 0..(N - 1) : Has(k)}
<1>4. Has(0)
  <2>1. (N - 0)..N = {N} /\ N \in 1..N /\ (N + 1)..N = {}
    BY <1>2
  <2>2. PICK e : e = At(<<>>, N)
    OBVIOUS
  <2>3. PICK f : f = [i \in {N} |-> e]
    OBVIOUS
  <2>4. At(f, N) = e
    BY <1>3, <2>1, <2>2
  <2>5. f = [i \in {N} |-> At(f, i)]
    BY <2>3, <2>4
  <2> QED BY <2>1, <2>5
<1>5. ASSUME NEW k \in 1..(N - 1), Has(k - 1) PROVE Has(k)
  <2>1. PICK a : a = N - k
    OBVIOUS
  <2>2. a \in 1..N /\ N - (k - 1) = a + 1 /\ a..N = (a + 1)..N \cup {a} /\ a \notin (a + 1)..N
    BY <1>2, <2>1
  <2>3. PICK f : f = [i \in (a + 1)..N |-> At(f, i)]
    BY <1>5, <2>2
  <2>4. PICK e : e = At(f, a)
    OBVIOUS
  <2>5. PICK g : g = [i \in a..N |-> IF i = a THEN e ELSE f[i]]
    OBVIOUS
  <2>6. g[a] = e /\ \A i \in (a + 1)..N : g[i] = f[i]
    BY <2>2, <2>5
  <2>7. At(g, a) = e
    <3>1. \A m \in (a + 1)..N : f[m] = g[m]
      BY <2>6
    <3> QED BY <1>3, <2>2, <2>4, <3>1
  <2>8. ASSUME NEW i \in (a + 1)..N PROVE f[i] = At(g, i)
    <3>1. i \in 1..N /\ \A m \in (i + 1)..N : m \in (a + 1)..N
      BY <2>2
    <3>2. \A m \in (i + 1)..N : f[m] = g[m]
      BY <2>6, <3>1
    <3>3. At(f, i) = At(g, i)
      BY <1>3, <3>1, <3>2
    <3>4. f[i] = At(f, i)
      BY <2>3
    <3> QED BY <3>3, <3>4
  <2>9. \A i \in a..N : (IF i = a THEN e ELSE f[i]) = At(g, i)
    BY <2>2, <2>7, <2>8
  <2>10. g = [i \in a..N |-> At(g, i)]
    BY <2>5, <2>9
  <2> QED BY <2>1, <2>10
<1>6. PICK f : f = [i \in 1..N |-> At(f, i)]
  <2>1. 0 \in Q
    BY <1>2, <1>4
  <2>2. ASSUME NEW k \in 1..(N - 1), k - 1 \in Q PROVE k \in Q
    <3>1. k \in 0..(N - 1)
      BY <1>2
    <3> QED BY <1>5, <2>2, <3>1
  <2>3. N - 1 \in Q
    <3> HIDE DEF Q
    <3>1. N - 1 \in Nat
      BY <1>2
    <3>2. \A k \in 0..(N - 1) : k \in Q
      BY <2>1, <2>2, <3>1, UpTo
    <3> QED BY <3>1, <3>2
  <2>4. N - (N - 1) = 1
    BY <1>2
  <2> QED BY <2>3, <2>4
<1>7. PICK s : s = CHOOSE c : c = [i \in 1..N |-> At(c, i)]
  OBVIOUS
<1>8. s = [i \in 1..N |-> At(s, i)]
  BY <1>6, <1>7
<1>9. SubstitutedSize(format, args) = s[1]
  BY <1>1, <1>7 DEF SubstitutedSize, At, SizeAt
<1>10. \A i \in 1..N : s[i] = At(s, i)
  BY <1>8
<1> QED BY <1>1, <1>9, <1>10 DEF At

(* The second pass, as what it does from each position on.                 *)
LEMMA RestsExist ==
  ASSUME NEW format \in Seq(STRING), NEW args
  PROVE  \E f : /\ SubstituteToBuffer(format, args) = f[1]
                /\ \A i \in 1..(Len(format) + 1) : f[i] = RestAt(format, args, f, i)
<1>0. Len(format) \in Nat
  BY LenProperties
<1>1. PICK N : N = Len(format) + 1
  OBVIOUS
<1>2. N \in Nat /\ N # 0
  BY <1>0, <1>1
<1> DEFINE At(f, i) == RestAt(format, args, f, i)
<1>3. ASSUME NEW i \in 1..N, NEW f, NEW g, \A m \in (i + 1)..N : f[m] = g[m]
      PROVE  At(f, i) = At(g, i)
  <2>1. CASE i = N
    <3>1. i > Len(format)
      BY <1>0, <1>1, <2>1
    <3>2. At(f, i) = <<>> /\ At(g, i) = <<>>
      BY <3>1 DEF RestAt
    <3> QED BY <3>2
  <2>2. CASE i # N
    <3>1. i \in 1..Len(format) /\ i + 1 \in (i + 1)..N
      BY <1>0, <1>1, <2>2
    <3>2. i < Len(format) => i + 2 \in (i + 1)..N
      BY <1>0, <1>1, <3>1
    <3>3. f[i + 1] = g[i + 1] /\ (i < Len(format) => f[i + 2] = g[i + 2])
      BY <1>3, <3>1, <3>2
    <3>each. ASSUME NEW h
          PROVE  /\ Literal(format, i) => At(h, i) = Cat(<<format[i]>>, h[i + 1])
                 /\ Reference(format, i) => At(h, i) = Cat(args[Number(format[i + 1])], h[i + 2])
                 /\ Escape(format, i) => At(h, i) = Cat(<<Dollar>>, h[i + 2])
                 /\ Stray(format, i) => At(h, i) = Cat(<<>>, h[i + 1])
      BY <3>1, RestOfEach
    <3>4. CASE Literal(format, i)
      <4>1. At(f, i) = Cat(<<format[i]>>, f[i + 1]) /\ At(g, i) = Cat(<<format[i]>>, g[i + 1])
        BY <3>each, <3>4
      <4> QED BY <3>3, <4>1
    <3>5. CASE Reference(format, i)
      <4>1. i < Len(format)
        BY <3>5 DEF Reference, Followed
      <4>2. At(f, i) = Cat(args[Number(format[i + 1])], f[i + 2]) /\ At(g, i) = Cat(args[Number(format[i + 1])], g[i + 2])
        BY <3>each, <3>5
      <4> QED BY <3>3, <4>1, <4>2
    <3>6. CASE Escape(format, i)
      <4>1. i < Len(format)
        BY <3>6 DEF Escape, Followed
      <4>2. At(f, i) = Cat(<<Dollar>>, f[i + 2]) /\ At(g, i) = Cat(<<Dollar>>, g[i + 2])
        BY <3>each, <3>6
      <4> QED BY <3>3, <4>1, <4>2
    <3>7. CASE Stray(format, i)
      <4>1. At(f, i) = Cat(<<>>, f[i + 1]) /\ At(g, i) = Cat(<<>>, g[i + 1])
        BY <3>each, <3>7
      <4> QED BY <3>3, <4>1
    <3>8. CASE i = Len(format) /\ format[i] = Dollar
      <4>1. At(f, i) = <<>> /\ At(g, i) = <<>>
        BY <3>1, <3>8, RestOfEach
      <4> QED BY <4>1
    <3> QED BY <3>1, <3>4, <3>5, <3>6, <3>7, <3>8, FiveKinds
  <2> QED BY <2>1, <2>2
<1> HIDE DEF At
<1> DEFINE Has(k) == \E f : f = [i \in (N - k)..N |-> At(f, i)]
           Q == {k \in 0..(N - 1) : Has(k)}
<1>4. Has(0)
  <2>1. (N - 0)..N = {N} /\ N \in 1..N /\ (N + 1)..N = {}
    BY <1>2
  <2>2. PICK e : e = At(<<>>, N)
    OBVIOUS
  <2>3. PICK f : f = [i \in {N} |-> e]
    OBVIOUS
  <2>4. At(f, N) = e
    BY <1>3, <2>1, <2>2
  <2>5. f = [i \in {N} |-> At(f, i)]
    BY <2>3, <2>4
  <2> QED BY <2>1, <2>5
<1>5. ASSUME NEW k \in 1..(N - 1), Has(k - 1) PROVE Has(k)
  <2>1. PICK a : a = N - k
    OBVIOUS
  <2>2. a \in 1..N /\ N - (k - 1) = a + 1 /\ a..N = (a + 1)..N \cup {a} /\ a \notin (a + 1)..N
    BY <1>2, <2>1
  <2>3. PICK f : f = [i \in (a + 1)..N |-> At(f, i)]
    BY <1>5, <2>2
  <2>4. PICK e : e = At(f, a)
    OBVIOUS
  <2>5. PICK g : g = [i \in a..N |-> IF i = a THEN e ELSE f[i]]
    OBVIOUS
  <2>6. g[a] = e /\ \A i \in (a + 1)..N : g[i] = f[i]
    BY <2>2, <2>5
  <2>7. At(g, a) = e
    <3>1. \A m \in (a + 1)..N : f[m] = g[m]
      BY <2>6
    <3> QED BY <1>3, <2>2, <2>4, <3>1
  <2>8. ASSUME NEW i \in (a + 1)..N PROVE f[i] = At(g, i)
    <3>1. i \in 1..N /\ \A m \in (i + 1)..N : m \in (a + 1)..N
      BY <2>2
    <3>2. \A m \in (i + 1)..N : f[m] = g[m]
      BY <2>6, <3>1
    <3>3. At(f, i) = At(g, i)
      BY <1>3, <3>1, <3>2
    <3>4. f[i] = At(f, i)
      BY <2>3
    <3> QED BY <3>3, <3>4
  <2>9. \A i \in a..N : (IF i = a THEN e ELSE f[i]) = At(g, i)
    BY <2>2, <2>7, <2>8
  <2>10. g = [i \in a..N |-> At(g, i)]
    BY <2>5, <2>9
  <2> QED BY <2>1, <2>10
<1>6. PICK f : f = [i \in 1..N |-> At(f, i)]
  <2>1. 0 \in Q
    BY <1>2, <1>4
  <2>2. ASSUME NEW k \in 1..(N - 1), k - 1 \in Q PROVE k \in Q
    <3>1. k \in 0..(N - 1)
      BY <1>2
    <3> QED BY <1>5, <2>2, <3>1
  <2>3. N - 1 \in Q
    <3> HIDE DEF Q
    <3>1. N - 1 \in Nat
      BY <1>2
    <3>2. \A k \in 0..(N - 1) : k \in Q
      BY <2>1, <2>2, <3>1, UpTo
    <3> QED BY <3>1, <3>2
  <2>4. N - (N - 1) = 1
    BY <1>2
  <2> QED BY <2>3, <2>4
<1>7. PICK s : s = CHOOSE c : c = [i \in 1..N |-> At(c, i)]
  OBVIOUS
<1>8. s = [i \in 1..N |-> At(s, i)]
  BY <1>6, <1>7
<1>9. SubstituteToBuffer(format, args) = s[1]
  BY <1>1, <1>7 DEF SubstituteToBuffer, At, RestAt
<1>10. \A i \in 1..N : s[i] = At(s, i)
  BY <1>8
<1> QED BY <1>1, <1>9, <1>10 DEF At

Chars == Seq(STRING)

(* f is what there is after each of the texts that are joined.             *)
Joins(f, seqs) == /\ f[0] = <<>>
                  /\ \A j \in 1..Len(seqs) : f[j] = Cat(f[j - 1], seqs[j])
                  /\ \A j \in 0..Len(seqs) : f[j] \in Chars

(* What FlattenSeq makes of texts: it joins one after another.             *)
LEMMA FlattenedIs ==
  ASSUME NEW seqs \in Seq(Chars)
  PROVE  \E f : FlattenSeq(seqs) = f[Len(seqs)] /\ Joins(f, seqs)
<1>0. PICK N \in Nat : N = Len(seqs)
  BY LenProperties
<1>1. \A j \in 1..N : seqs[j] \in Chars
  BY <1>0, ElementOfSeq
<1>2. /\ <<>> \in Chars
      /\ \A a, b \in Chars : Cat(a, b) \in Chars
      /\ \A a \in Chars : Cat(<<>>, a) = a
  BY DEF Chars, Cat
<1>3. CASE N = 0
  <2>1. seqs = <<>>
    BY <1>0, <1>3, EmptySeq
  <2>2. FlattenSeq(seqs) = <<>>
    BY <1>0, <1>3, <2>1 DEF FlattenSeq
  <2>3. PICK f : f = [j \in {0} |-> <<>>]
    OBVIOUS
  <2>4. f[0] = <<>>
    BY <2>3
  <2>5. 0..N = {0} /\ 1..N = {}
    BY <1>3
  <2> QED BY <1>0, <1>2, <1>3, <2>2, <2>4, <2>5 DEF Joins
<1>4. CASE N # 0
  <2> DEFINE At(g, i) == IF i = 1 THEN seqs[i] ELSE g[i - 1] \o seqs[i]
             Has(k) == \E g : g = [i \in 1..k |-> At(g, i)]
             Q == {k \in 0..N : Has(k)}
  <2>1. Has(0)
    <3> HIDE DEF At
    <3>1. 1..0 = {}
      OBVIOUS
    <3>2. PICK g : g = [i \in {} |-> 0]
      OBVIOUS
    <3>3. g = [i \in {} |-> At(g, i)]
      BY <3>2
    <3> QED BY <3>1, <3>3
  <2>2. ASSUME NEW k \in 1..N, Has(k - 1) PROVE Has(k)
    <3>1. PICK g : g = [i \in 1..(k - 1) |-> At(g, i)]
      BY <2>2
    <3>2. PICK e : e = At(g, k)
      OBVIOUS
    <3>3. PICK h : h = [i \in 1..k |-> IF i = k THEN e ELSE g[i]]
      OBVIOUS
    <3>4. \A i \in 1..(k - 1) : h[i] = g[i] /\ g[i] = At(g, i)
      <4> HIDE DEF At
      <4> TAKE i \in 1..(k - 1)
      <4>1. i \in 1..k /\ i # k
        OBVIOUS
      <4>2. h[i] = g[i]
        BY <3>3, <4>1
      <4>3. g[i] = At(g, i)
        BY <3>1
      <4> QED BY <4>2, <4>3
    <3>5. \A i \in 1..k : h[i] = At(h, i)
      <4> TAKE i \in 1..k
      <4>1. i # 1 => h[i - 1] = g[i - 1]
        <5>1. i # 1 => i - 1 \in 1..(k - 1)
          OBVIOUS
        <5> QED BY <3>4, <5>1
      <4>2. At(h, i) = At(g, i)
        BY <4>1
      <4>3. CASE i = k
        BY <3>2, <3>3, <4>2, <4>3
      <4>4. CASE i # k
        <5>1. i \in 1..(k - 1)
          BY <4>4
        <5> QED BY <3>4, <4>2, <5>1
      <4> QED BY <4>3, <4>4
    <3>6. h = [i \in 1..k |-> At(h, i)]
      <4> HIDE DEF At
      <4>1. h = [i \in 1..k |-> h[i]]
        BY <3>3
      <4> QED BY <3>5, <4>1
    <3> HIDE DEF At
    <3> QED BY <3>6
  <2>3. Has(N)
    <3> HIDE DEF Has
    <3>1. 0 \in Q
      BY <2>1
    <3>2. ASSUME NEW k \in 1..N, k - 1 \in Q PROVE k \in Q
      BY <2>2, <3>2
    <3> HIDE DEF Q
    <3>3. \A k \in 0..N : k \in Q
      BY <3>1, <3>2, UpTo
    <3>4. N \in Q
      BY <3>3
    <3> QED BY <3>4 DEF Q
  <2>4. PICK g : g = CHOOSE c : c = [i \in 1..N |-> At(c, i)]
    OBVIOUS
  <2>5. g = [i \in 1..N |-> At(g, i)]
    BY <2>3, <2>4
  <2>6. FlattenSeq(seqs) = g[N]
    BY <1>0, <1>4, <2>4 DEF FlattenSeq
  <2>7. PICK f : f = [j \in 0..N |-> IF j = 0 THEN <<>> ELSE g[j]]
    OBVIOUS
  <2>8. f[0] = <<>> /\ f[N] = FlattenSeq(seqs) /\ \A j \in 1..N : f[j] = g[j]
    BY <1>4, <2>6, <2>7
  <2>9. \A j \in 1..N : f[j] = Cat(f[j - 1], seqs[j])
    <3> TAKE j \in 1..N
    <3>1. g[j] = At(g, j)
      BY <2>5
    <3>2. CASE j = 1
      <4>1. f[j] = seqs[j] /\ f[j - 1] = <<>>
        BY <2>8, <3>1, <3>2
      <4> QED BY <1>1, <1>2, <4>1
    <3>3. CASE j # 1
      <4>1. j - 1 \in 1..N
        BY <3>3
      <4>2. f[j] = f[j - 1] \o seqs[j]
        BY <2>8, <3>1, <3>3, <4>1
      <4> QED BY <4>2 DEF Cat
    <3> QED BY <3>2, <3>3
  <2>10. \A j \in 0..N : f[j] \in Chars
    <3> DEFINE P == {j \in 0..N : f[j] \in Chars}
    <3>1. 0 \in P
      BY <1>2, <2>8
    <3>2. ASSUME NEW j \in 1..N, j - 1 \in P PROVE j \in P
      <4>1. f[j - 1] \in Chars /\ seqs[j] \in Chars
        BY <1>1, <3>2
      <4>2. f[j] \in Chars
        BY <1>2, <2>9, <4>1
      <4> QED BY <4>2
    <3> HIDE DEF P
    <3>3. \A j \in 0..N : j \in P
      BY <3>1, <3>2, UpTo
    <3> QED BY <3>3 DEF P
  <2> QED BY <1>0, <2>8, <2>9, <2>10 DEF Joins
<1> QED BY <1>3, <1>4

(* A character is a text of length 1.                                      *)
LEMMA OneCharacter ==
  ASSUME NEW c \in STRING
  PROVE  <<c>> \in Chars /\ Len(<<c>>) = 1
<1>1. PICK S : S = STRING
  OBVIOUS
<1>2. ASSUME NEW d \in S PROVE <<d>> \in Seq(S) /\ Len(<<d>>) = 1
  OBVIOUS
<1> QED BY <1>1, <1>2 DEF Chars

(* The number of a digit's character.                                      *)
LEMMA NumberIs ==
  ASSUME NEW k \in 0..9
  PROVE  Number(Digits[k + 1]) = k
<1>1. \A m \in 0..9 : Digits[m + 1] = Digits[k + 1] => m = k
  <2> TAKE m \in 0..9
  <2>1. m + 1 \in 1..10 /\ k + 1 \in 1..10
    OBVIOUS
  <2>2. Digits[m + 1] = Digits[k + 1] => m + 1 = k + 1
    BY <2>1, SubstitutionAssumption
  <2> QED BY <2>2
<1> QED BY <1>1 DEF Number

(* A reference is to one of the ten arguments.                             *)
LEMMA NumberOfReference ==
  ASSUME NEW format, NEW i, Reference(format, i)
  PROVE  Number(format[i + 1]) \in 0..9
<1>1. PICK k \in 1..10 : format[i + 1] = Digits[k]
  BY DEF Reference
<1>2. k - 1 \in 0..9 /\ (k - 1) + 1 = k
  OBVIOUS
<1>3. Number(Digits[(k - 1) + 1]) = k - 1
  BY <1>2, NumberIs
<1> QED BY <1>1, <1>2, <1>3

(* What is written is as long as its size says, unless that is -1.         *)
Fill(size, text) == size = -1 \/ (size \in Nat /\ text \in Chars /\ Len(text) = size)

(* A text before one that fills its size.                                  *)
LEMMA FilledBefore ==
  ASSUME NEW a \in Chars, NEW size, NEW text, Fill(size, text)
  PROVE  Fill(Plus(Len(a), size), Cat(a, text))
<1>1. CASE size = -1
  BY <1>1 DEF Fill, Plus
<1>2. CASE size # -1
  <2>1. size \in Nat /\ text \in Chars /\ Len(text) = size
    BY <1>2 DEF Fill
  <2>2. Len(a) \in Nat
    BY LenProperties DEF Chars
  <2>3. Cat(a, text) \in Chars /\ Len(Cat(a, text)) = Len(a) + size
    BY <2>1, ConcatProperties DEF Chars, Cat
  <2>4. Plus(Len(a), size) = Len(a) + size
    BY <1>2 DEF Plus
  <2> QED BY <2>1, <2>2, <2>3, <2>4 DEF Fill
<1> QED BY <1>1, <1>2

GivenArguments == [0..9 -> Chars \cup {NoArg}]

(* Both passes, from every position on.                                    *)
LEMMA BothFit ==
  ASSUME NEW format \in Seq(STRING), NEW args \in GivenArguments, NEW S, NEW W,
         \A i \in 1..(Len(format) + 1) : S[i] = SizeAt(format, args, S, i),
         \A i \in 1..(Len(format) + 1) : W[i] = RestAt(format, args, W, i)
  PROVE  \A i \in 1..(Len(format) + 1) : Fill(S[i], W[i])
<1>0. PICK N \in Nat : N = Len(format)
  BY LenProperties
<1>1. Fill(S[N + 1], W[N + 1])
  <2>1. N + 1 > Len(format) /\ N + 1 \in 1..(Len(format) + 1)
    BY <1>0
  <2>2. SizeAt(format, args, S, N + 1) = 0 /\ RestAt(format, args, W, N + 1) = <<>>
    BY <2>1 DEF SizeAt, RestAt
  <2>3. S[N + 1] = 0 /\ W[N + 1] = <<>>
    BY <2>1, <2>2
  <2> QED BY <2>3 DEF Fill, Chars
<1>2. ASSUME NEW i \in 1..N, Fill(S[i + 1], W[i + 1]), i + 1 <= N => Fill(S[i + 2], W[i + 2])
      PROVE  Fill(S[i], W[i])
  <2>0. i \in 1..Len(format) /\ i \in 1..(Len(format) + 1)
    BY <1>0
  <2>1. S[i] = SizeAt(format, args, S, i) /\ W[i] = RestAt(format, args, W, i)
    BY <2>0
  <2>2. format[i] \in STRING
    BY <2>0, ElementOfSeq
  <2>3. <<format[i]>> \in Chars /\ Len(<<format[i]>>) = 1 /\ <<Dollar>> \in Chars /\ Len(<<Dollar>>) = 1
    BY <2>2, OneCharacter, SubstitutionAssumption
  <2>4. i < Len(format) => Fill(S[i + 2], W[i + 2])
    BY <1>0, <1>2
  <2>5. CASE Literal(format, i)
    <3>1. S[i] = Plus(1, S[i + 1]) /\ W[i] = Cat(<<format[i]>>, W[i + 1])
      <4>1. SizeAt(format, args, S, i) = Plus(1, S[i + 1])
        BY <2>0, <2>5, SizeOfEach
      <4>2. RestAt(format, args, W, i) = Cat(<<format[i]>>, W[i + 1])
        BY <2>0, <2>5, RestOfEach
      <4> QED BY <2>1, <4>1, <4>2
    <3>2. Fill(Plus(Len(<<format[i]>>), S[i + 1]), Cat(<<format[i]>>, W[i + 1]))
      BY <1>2, <2>3, FilledBefore
    <3> QED BY <2>3, <3>1, <3>2
  <2>6. CASE Reference(format, i)
    <3>1. PICK a : a = args[Number(format[i + 1])]
      OBVIOUS
    <3>2. a \in Chars \cup {NoArg}
      BY <2>6, <3>1, NumberOfReference DEF GivenArguments
    <3>3. S[i] = IF a = NoArg THEN -1 ELSE Plus(Len(a), S[i + 2])
      <4>1. SizeAt(format, args, S, i) =
              IF args[Number(format[i + 1])] = NoArg THEN -1
              ELSE Plus(Len(args[Number(format[i + 1])]), S[i + 2])
        BY <2>0, <2>6, SizeOfEach
      <4> QED BY <2>1, <3>1, <4>1
    <3>4. W[i] = Cat(a, W[i + 2])
      <4>1. RestAt(format, args, W, i) = Cat(args[Number(format[i + 1])], W[i + 2])
        BY <2>0, <2>6, RestOfEach
      <4> QED BY <2>1, <3>1, <4>1
    <3>5. CASE a = NoArg
      BY <3>3, <3>5 DEF Fill
    <3>6. CASE a # NoArg
      <4>1. a \in Chars
        BY <3>2, <3>6
      <4>2. Fill(S[i + 2], W[i + 2])
        BY <2>4, <2>6 DEF Reference, Followed
      <4>3. Fill(Plus(Len(a), S[i + 2]), Cat(a, W[i + 2]))
        BY <4>1, <4>2, FilledBefore
      <4> QED BY <3>3, <3>4, <3>6, <4>3
    <3> QED BY <3>5, <3>6
  <2>7. CASE Escape(format, i)
    <3>1. S[i] = Plus(1, S[i + 2]) /\ W[i] = Cat(<<Dollar>>, W[i + 2])
      <4>1. SizeAt(format, args, S, i) = Plus(1, S[i + 2])
        BY <2>0, <2>7, SizeOfEach
      <4>2. RestAt(format, args, W, i) = Cat(<<Dollar>>, W[i + 2])
        BY <2>0, <2>7, RestOfEach
      <4> QED BY <2>1, <4>1, <4>2
    <3>2. Fill(S[i + 2], W[i + 2])
      BY <2>4, <2>7 DEF Escape, Followed
    <3>3. Fill(Plus(Len(<<Dollar>>), S[i + 2]), Cat(<<Dollar>>, W[i + 2]))
      BY <2>3, <3>2, FilledBefore
    <3> QED BY <2>3, <3>1, <3>3
  <2>8. CASE Stray(format, i)
    <3>1. S[i] = S[i + 1] /\ W[i] = Cat(<<>>, W[i + 1])
      <4>1. SizeAt(format, args, S, i) = S[i + 1]
        <5>1. Stray(format, i) => SizeAt(format, args, S, i) = S[i + 1]
          BY <2>0, SizeOfEach
        <5> QED BY <2>8, <5>1
      <4>2. RestAt(format, args, W, i) = Cat(<<>>, W[i + 1])
        <5>1. /\ Literal(format, i) => RestAt(format, args, W, i) = Cat(<<format[i]>>, W[i + 1])
              /\ Reference(format, i) => RestAt(format, args, W, i) = Cat(args[Number(format[i + 1])], W[i + 2])
              /\ Escape(format, i) => RestAt(format, args, W, i) = Cat(<<Dollar>>, W[i + 2])
              /\ Stray(format, i) => RestAt(format, args, W, i) = Cat(<<>>, W[i + 1])
          BY <2>0, RestOfEach
        <5> QED BY <2>8, <5>1
      <4> QED BY <2>1, <4>1, <4>2
    <3>2. S[i + 1] # -1 => Cat(<<>>, W[i + 1]) = W[i + 1]
      BY <1>2 DEF Fill, Cat, Chars
    <3> QED BY <1>2, <3>1, <3>2 DEF Fill
  <2>9. CASE i = Len(format) /\ format[i] = Dollar
    <3>1. S[i] = -1
      BY <2>0, <2>1, <2>9, SizeOfEach
    <3> QED BY <3>1 DEF Fill
  <2> QED BY <2>0, <2>5, <2>6, <2>7, <2>8, <2>9, FiveKinds
<1> DEFINE Q == {k \in 0..N : \A i \in (N + 1 - k)..(N + 1) : Fill(S[i], W[i])}
<1>3. 0 \in Q
  <2>1. (N + 1 - 0)..(N + 1) = {N + 1}
    OBVIOUS
  <2> QED BY <1>1, <2>1
<1>4. ASSUME NEW k \in 1..N, k - 1 \in Q PROVE k \in Q
  <2>1. PICK i \in 1..N : i = N + 1 - k
    OBVIOUS
  <2>2. N + 1 - (k - 1) = i + 1 /\ i..(N + 1) = (i + 1)..(N + 1) \cup {i}
    BY <2>1
  <2>3. \A m \in (i + 1)..(N + 1) : Fill(S[m], W[m])
    BY <1>4, <2>2
  <2>4. i + 1 \in (i + 1)..(N + 1) /\ (i + 1 <= N => i + 2 \in (i + 1)..(N + 1))
    OBVIOUS
  <2>5. Fill(S[i + 1], W[i + 1]) /\ (i + 1 <= N => Fill(S[i + 2], W[i + 2]))
    BY <2>3, <2>4
  <2>6. Fill(S[i], W[i])
    BY <1>2, <2>5
  <2>7. \A m \in i..(N + 1) : Fill(S[m], W[m])
    BY <2>2, <2>3, <2>6
  <2> QED BY <2>1, <2>7
<1> HIDE DEF Q
<1>5. \A k \in 0..N : k \in Q
  BY <1>3, <1>4, UpTo
<1>6. N \in Q
  BY <1>5
<1>7. \A i \in (N + 1 - N)..(N + 1) : Fill(S[i], W[i])
  BY <1>6 DEF Q
<1>8. N + 1 - N = 1
  OBVIOUS
<1> QED BY <1>0, <1>7, <1>8

(* substitute.cc, for any format and any arguments: the second pass fills  *)
(* the room of the first.                                                  *)
LEMMA PassesAlwaysAgree ==
  ASSUME NEW format \in Seq(STRING), NEW args \in GivenArguments
  PROVE  PassesAgree(format, args)
<1>1. PICK S : /\ SubstitutedSize(format, args) = S[1]
               /\ \A i \in 1..(Len(format) + 1) : S[i] = SizeAt(format, args, S, i)
  BY SizesExist
<1>2. PICK W : /\ SubstituteToBuffer(format, args) = W[1]
               /\ \A i \in 1..(Len(format) + 1) : W[i] = RestAt(format, args, W, i)
  BY RestsExist
<1>3. \A i \in 1..(Len(format) + 1) : Fill(S[i], W[i])
  BY <1>1, <1>2, BothFit
<1>4. 1 \in 1..(Len(format) + 1)
  BY LenProperties
<1>5. Fill(S[1], W[1])
  BY <1>3, <1>4
<1> QED BY <1>1, <1>2, <1>5 DEF PassesAgree, Fill

(* What stands where when two texts are joined.                            *)
LEMMA CatAt ==
  ASSUME NEW a \in Chars, NEW b \in Chars
  PROVE  /\ Cat(a, b) \in Chars
         /\ Len(a) \in Nat /\ Len(b) \in Nat /\ Len(Cat(a, b)) = Len(a) + Len(b)
         /\ \A p \in 1..Len(a) : Cat(a, b)[p] = a[p]
         /\ \A m \in 1..Len(b) : Cat(a, b)[Len(a) + m] = b[m]
<1>1. Len(a) \in Nat /\ Len(b) \in Nat
  BY LenProperties DEF Chars
<1>2. Cat(a, b) \in Chars /\ Len(Cat(a, b)) = Len(a) + Len(b)
  BY ConcatProperties DEF Chars, Cat
<1>3. \A i \in 1..(Len(a) + Len(b)) : Cat(a, b)[i] = IF i <= Len(a) THEN a[i] ELSE b[i - Len(a)]
  BY ConcatProperties DEF Chars, Cat
<1>4. \A p \in 1..Len(a) : Cat(a, b)[p] = a[p]
  BY <1>1, <1>3
<1>5. \A m \in 1..Len(b) : Cat(a, b)[Len(a) + m] = b[m]
  <2> TAKE m \in 1..Len(b)
  <2>1. Len(a) + m \in 1..(Len(a) + Len(b)) /\ ~(Len(a) + m <= Len(a)) /\ Len(a) + m - Len(a) = m
    BY <1>1
  <2> QED BY <1>3, <2>1
<1> QED BY <1>1, <1>2, <1>4, <1>5

StandsAt(text, all, q) == /\ Len(text) \in Nat /\ q + Len(text) <= Len(all)
                          /\ \A m \in 1..Len(text) : all[q + m] = text[m]

(* Where each of the texts that are joined stands in what comes out.       *)
LEMMA PieceStands ==
  ASSUME NEW seqs \in Seq(Chars), NEW f, Joins(f, seqs), NEW all, all = f[Len(seqs)]
  PROVE  \A j \in 1..Len(seqs) :
           /\ Len(f[j - 1]) \in Nat /\ Len(f[j]) = Len(f[j - 1]) + Len(seqs[j])
           /\ StandsAt(seqs[j], all, Len(f[j - 1]))
<1>0. PICK N \in Nat : N = Len(seqs)
  BY LenProperties
<1>1. \A j \in 1..N : seqs[j] \in Chars /\ f[j - 1] \in Chars /\ f[j] \in Chars /\ f[j] = Cat(f[j - 1], seqs[j])
  <2> TAKE j \in 1..N
  <2>1. j \in 1..Len(seqs) /\ j - 1 \in 0..Len(seqs) /\ j \in 0..Len(seqs)
    BY <1>0
  <2> QED BY <2>1, ElementOfSeq DEF Joins
<1> DEFINE Begins(j) == /\ Len(f[j]) \in Nat /\ Len(f[j]) <= Len(all)
                        /\ \A p \in 1..Len(f[j]) : all[p] = f[j][p]
           Q == {k \in 0..N : Begins(N - k)}
<1>2. Begins(N)
  <2>1. N \in 0..Len(seqs) /\ f[N] = all
    BY <1>0
  <2>2. f[N] \in Chars
    BY <1>0, <2>1 DEF Joins
  <2>3. Len(f[N]) \in Nat
    BY <2>2, LenProperties DEF Chars
  <2> QED BY <2>1, <2>3
<1>3. ASSUME NEW j \in 1..N, Begins(j) PROVE Begins(j - 1)
  <2>1. PICK a \in Chars : a = f[j - 1]
    BY <1>1
  <2>2. PICK b \in Chars : b = seqs[j]
    BY <1>1
  <2>3. PICK c : c = f[j]
    OBVIOUS
  <2>4. c = Cat(a, b)
    BY <1>1, <2>1, <2>2, <2>3
  <2>5. Len(a) \in Nat /\ Len(b) \in Nat /\ Len(c) = Len(a) + Len(b) /\ \A p \in 1..Len(a) : c[p] = a[p]
    BY <2>4, CatAt
  <2>6. Len(c) <= Len(all) /\ \A p \in 1..Len(c) : all[p] = c[p]
    BY <1>3, <2>3
  <2>7. Len(all) \in Int
    <3>1. all \in Chars
      BY <1>0 DEF Joins
    <3> QED BY <3>1, LenProperties DEF Chars
  <2>8. Len(a) <= Len(all) /\ \A p \in 1..Len(a) : all[p] = a[p]
    BY <2>5, <2>6, <2>7
  <2> QED BY <2>1, <2>5, <2>8
<1>4. \A j \in 0..N : Begins(j)
  <2> HIDE DEF Begins
  <2>1. 0 \in Q
    BY <1>2
  <2>2. ASSUME NEW k \in 1..N, k - 1 \in Q PROVE k \in Q
    <3>1. N - (k - 1) \in 1..N /\ N - (k - 1) - 1 = N - k
      OBVIOUS
    <3>2. Begins(N - (k - 1))
      BY <2>2
    <3>3. Begins(N - (k - 1) - 1)
      BY <1>3, <3>1, <3>2
    <3> QED BY <3>1, <3>3
  <2> HIDE DEF Q
  <2>3. \A k \in 0..N : k \in Q
    BY <2>1, <2>2, UpTo
  <2>4. \A j \in 0..N : N - j \in Q /\ N - (N - j) = j
    BY <2>3
  <2> QED BY <2>4 DEF Q
<1>5. ASSUME NEW j \in 1..N
      PROVE  /\ Len(f[j - 1]) \in Nat /\ Len(f[j]) = Len(f[j - 1]) + Len(seqs[j])
             /\ StandsAt(seqs[j], all, Len(f[j - 1]))
  <2>1. PICK a \in Chars : a = f[j - 1]
    BY <1>1
  <2>2. PICK b \in Chars : b = seqs[j]
    BY <1>1
  <2>3. PICK c : c = f[j]
    OBVIOUS
  <2>4. c = Cat(a, b)
    BY <1>1, <2>1, <2>2, <2>3
  <2>5. Len(a) \in Nat /\ Len(b) \in Nat /\ Len(c) = Len(a) + Len(b)
    BY <2>4, CatAt
  <2>6. \A m \in 1..Len(b) : c[Len(a) + m] = b[m]
    BY <2>4, CatAt
  <2>7. Len(c) <= Len(all) /\ \A p \in 1..Len(c) : all[p] = c[p]
    <3>1. Begins(j)
      BY <1>4
    <3> QED BY <2>3, <3>1
  <2>8. \A m \in 1..Len(b) : all[Len(a) + m] = b[m]
    <3> TAKE m \in 1..Len(b)
    <3>1. Len(a) + m \in 1..Len(c)
      BY <2>5
    <3> QED BY <2>6, <2>7, <3>1
  <2>9. StandsAt(b, all, Len(a))
    BY <2>5, <2>7, <2>8 DEF StandsAt
  <2> QED BY <2>1, <2>2, <2>3, <2>5, <2>9
<1> QED BY <1>0, <1>5

(* What a token puts into the text, given the arguments.                   *)
ValueIn(token, args) == IF token[1] = "argument" THEN args[token[2]] ELSE <<token[2]>>

(* A token is a character or the number of an argument.                    *)
LEMMA TokenIs ==
  ASSUME NEW token \in Token
  PROVE  \/ token[1] = "literal" /\ token[2] \in STRING
         \/ token[1] = "argument" /\ token[1] # "literal" /\ token[2] \in 0..9
BY DEF Token

(* A missing argument is no text.                                          *)
LEMMA NoneGiven == NoArg \notin Chars
BY SubstitutionAssumption DEF Chars

(* Two characters are a text of length 2.                                  *)
LEMMA TwoCharacters ==
  ASSUME NEW c \in STRING, NEW d \in STRING
  PROVE  <<c, d>> \in Chars /\ Len(<<c, d>>) = 2 /\ <<c, d>>[1] = c /\ <<c, d>>[2] = d
<1>1. PICK S : S = STRING
  OBVIOUS
<1>2. ASSUME NEW a \in S, NEW b \in S
      PROVE  <<a, b>> \in Seq(S) /\ Len(<<a, b>>) = 2 /\ <<a, b>>[1] = a /\ <<a, b>>[2] = b
  OBVIOUS
<1> QED BY <1>1, <1>2 DEF Chars

(* A digit is written as another character than the sign.                  *)
LEMMA DigitCharacter ==
  ASSUME NEW k \in 0..9
  PROVE  Digits[k + 1] \in STRING /\ Digits[k + 1] # Dollar /\ k + 1 \in 1..10
<1>1. k + 1 \in 1..10
  OBVIOUS
<1> QED BY <1>1, SubstitutionAssumption, ElementOfSeq

Passing(format, args, S, W) ==
  /\ \A i \in 1..(Len(format) + 1) : S[i] = SizeAt(format, args, S, i)
  /\ \A i \in 1..(Len(format) + 1) : W[i] = RestAt(format, args, W, i)

(* From where a token stands, the passes take its value and go on behind.  *)
LEMMA TokenScanned ==
  ASSUME NEW format \in Seq(STRING), NEW args \in GivenArguments, NEW S, NEW W,
         Passing(format, args, S, W),
         NEW token \in Token, NEW q \in Nat, NEW r \in Nat, NEW text, text = AsWritten(token),
         StandsAt(text, format, q), r = q + Len(text),
         NEW v, v = ValueIn(token, args)
  PROVE  /\ text \in Chars
         /\ S[q + 1] = IF v = NoArg THEN -1 ELSE Plus(Len(v), S[r + 1])
         /\ W[q + 1] = Cat(v, W[r + 1])
<1>0. /\ Len(format) \in Nat /\ r <= Len(format)
      /\ \A m \in 1..Len(text) : format[q + m] = text[m]
      /\ \A i \in 1..(Len(format) + 1) : S[i] = SizeAt(format, args, S, i) /\ W[i] = RestAt(format, args, W, i)
  BY LenProperties DEF StandsAt, Passing
<1>10. ASSUME NEW i \in 1..Len(format)
       PROVE  /\ Literal(format, i) => RestAt(format, args, W, i) = Cat(<<format[i]>>, W[i + 1])
              /\ Reference(format, i) => RestAt(format, args, W, i) = Cat(args[Number(format[i + 1])], W[i + 2])
              /\ Escape(format, i) => RestAt(format, args, W, i) = Cat(<<Dollar>>, W[i + 2])
              /\ Stray(format, i) => RestAt(format, args, W, i) = Cat(<<>>, W[i + 1])
  BY RestOfEach
<1>1. CASE token[1] = "literal" /\ token[2] # Dollar
  <2>1. PICK c \in STRING : c = token[2]
    BY <1>1, TokenIs
  <2>2. text = <<c>> /\ v = <<c>>
    BY <1>1, <2>1 DEF AsWritten, ValueIn
  <2>3. text \in Chars /\ Len(text) = 1 /\ v # NoArg
    <3>1. <<c>> \in Chars /\ Len(<<c>>) = 1
      BY OneCharacter
    <3> QED BY <2>2, <3>1, NoneGiven
  <2>4. r = q + 1 /\ q + 1 \in 1..Len(format) /\ q + 1 \in 1..(Len(format) + 1) /\ q + 1 + 1 = r + 1
    BY <1>0, <2>3
  <2>5. format[q + 1] = c
    <3>1. format[q + 1] = text[1]
      BY <1>0, <2>3
    <3> QED BY <2>2, <3>1
  <2>6. Literal(format, q + 1)
    BY <1>1, <2>1, <2>5 DEF Literal
  <2>7. SizeAt(format, args, S, q + 1) = Plus(1, S[q + 1 + 1])
    BY <2>4, <2>6, SizeOfEach
  <2>8. RestAt(format, args, W, q + 1) = Cat(<<format[q + 1]>>, W[q + 1 + 1])
    BY <2>4, <2>6, <1>10
  <2>9. S[q + 1] = SizeAt(format, args, S, q + 1) /\ W[q + 1] = RestAt(format, args, W, q + 1)
    BY <1>0, <2>4
  <2>10. Len(v) = 1
    BY <2>2, <2>3
  <2> QED BY <2>2, <2>3, <2>4, <2>5, <2>7, <2>8, <2>9, <2>10
<1>2. CASE token[1] = "literal" /\ token[2] = Dollar
  <2>0. Dollar \in STRING
    BY SubstitutionAssumption
  <2>1. text = <<Dollar, Dollar>> /\ v = <<Dollar>>
    BY <1>2 DEF AsWritten, ValueIn
  <2>2. text \in Chars /\ Len(text) = 2 /\ text[1] = Dollar /\ text[2] = Dollar
    <3>1. /\ <<Dollar, Dollar>> \in Chars /\ Len(<<Dollar, Dollar>>) = 2
          /\ <<Dollar, Dollar>>[1] = Dollar /\ <<Dollar, Dollar>>[2] = Dollar
      BY <2>0, TwoCharacters
    <3> QED BY <2>1, <3>1
  <2>3. v \in Chars /\ Len(v) = 1 /\ v # NoArg
    <3>1. <<Dollar>> \in Chars /\ Len(<<Dollar>>) = 1
      BY <2>0, OneCharacter
    <3> QED BY <2>1, <3>1, NoneGiven
  <2>4. /\ r = q + 2 /\ q + 1 \in 1..Len(format) /\ q + 1 \in 1..(Len(format) + 1)
        /\ q + 1 + 2 = r + 1 /\ q + 1 < Len(format) /\ q + 1 + 1 = q + 2
    BY <1>0, <2>2
  <2>5. format[q + 1] = Dollar /\ format[q + 2] = Dollar
    <3>1. format[q + 1] = text[1] /\ format[q + 2] = text[2]
      BY <1>0, <2>2
    <3> QED BY <2>2, <3>1
  <2>6. Escape(format, q + 1)
    BY <2>4, <2>5 DEF Escape, Followed
  <2>7. SizeAt(format, args, S, q + 1) = Plus(1, S[q + 1 + 2])
    BY <2>4, <2>6, SizeOfEach
  <2>8. RestAt(format, args, W, q + 1) = Cat(<<Dollar>>, W[q + 1 + 2])
    BY <2>4, <2>6, <1>10
  <2>9. S[q + 1] = SizeAt(format, args, S, q + 1) /\ W[q + 1] = RestAt(format, args, W, q + 1)
    BY <1>0, <2>4
  <2> QED BY <2>1, <2>2, <2>3, <2>4, <2>7, <2>8, <2>9
<1>3. CASE token[1] = "argument" /\ token[1] # "literal"
  <2>1. PICK k \in 0..9 : k = token[2]
    BY <1>3, TokenIs
  <2>2. PICK c : c = Digits[k + 1]
    OBVIOUS
  <2>3. c \in STRING /\ c # Dollar /\ Number(c) = k /\ k + 1 \in 1..10 /\ Dollar \in STRING
    BY <2>2, DigitCharacter, NumberIs, SubstitutionAssumption
  <2>4. text = <<Dollar, c>> /\ v = args[k]
    BY <1>3, <2>1, <2>2 DEF AsWritten, ValueIn
  <2>5. text \in Chars /\ Len(text) = 2 /\ text[1] = Dollar /\ text[2] = c
    <3>1. /\ <<Dollar, c>> \in Chars /\ Len(<<Dollar, c>>) = 2
          /\ <<Dollar, c>>[1] = Dollar /\ <<Dollar, c>>[2] = c
      BY <2>3, TwoCharacters
    <3> QED BY <2>4, <3>1
  <2>6. /\ r = q + 2 /\ q + 1 \in 1..Len(format) /\ q + 1 \in 1..(Len(format) + 1)
        /\ q + 1 + 2 = r + 1 /\ q + 1 < Len(format) /\ q + 1 + 1 = q + 2
    BY <1>0, <2>5
  <2>7. format[q + 1] = Dollar /\ format[q + 1 + 1] = c
    <3>1. format[q + 1] = text[1] /\ format[q + 2] = text[2]
      BY <1>0, <2>5
    <3> QED BY <2>5, <2>6, <3>1
  <2>8. Reference(format, q + 1)
    BY <2>2, <2>3, <2>6, <2>7 DEF Reference, Followed
  <2>9. SizeAt(format, args, S, q + 1) =
          IF args[Number(format[q + 1 + 1])] = NoArg THEN -1
          ELSE Plus(Len(args[Number(format[q + 1 + 1])]), S[q + 1 + 2])
    BY <2>6, <2>8, SizeOfEach
  <2>10. RestAt(format, args, W, q + 1) = Cat(args[Number(format[q + 1 + 1])], W[q + 1 + 2])
    BY <2>6, <2>8, <1>10
  <2>11. S[q + 1] = SizeAt(format, args, S, q + 1) /\ W[q + 1] = RestAt(format, args, W, q + 1)
    BY <1>0, <2>6
  <2>12. args[Number(format[q + 1 + 1])] = v
    BY <2>3, <2>4, <2>7
  <2> QED BY <2>5, <2>6, <2>9, <2>10, <2>11, <2>12
<1> QED BY <1>1, <1>2, <1>3, TokenIs

(* A token is written as a text.                                           *)
LEMMA WrittenIs ==
  ASSUME NEW token \in Token
  PROVE  AsWritten(token) \in Chars
<1>1. CASE token[1] = "literal" /\ token[2] # Dollar /\ token[2] \in STRING
  <2>1. PICK c \in STRING : c = token[2]
    BY <1>1
  <2>2. AsWritten(token) = <<c>>
    BY <1>1, <2>1 DEF AsWritten
  <2> QED BY <2>2, OneCharacter
<1>2. CASE token[1] = "literal" /\ token[2] = Dollar
  <2>1. Dollar \in STRING
    BY SubstitutionAssumption
  <2>2. AsWritten(token) = <<Dollar, Dollar>>
    BY <1>2 DEF AsWritten
  <2>3. <<Dollar, Dollar>> \in Chars
    BY <2>1, TwoCharacters
  <2> QED BY <2>2, <2>3
<1>3. CASE token[1] = "argument" /\ token[1] # "literal" /\ token[2] \in 0..9
  <2>1. PICK k \in 0..9 : k = token[2]
    BY <1>3
  <2>2. PICK c \in STRING : c = Digits[k + 1]
    BY DigitCharacter
  <2>3. Dollar \in STRING
    BY SubstitutionAssumption
  <2>4. AsWritten(token) = <<Dollar, c>>
    BY <1>3, <2>1, <2>2 DEF AsWritten
  <2>5. <<Dollar, c>> \in Chars
    BY <2>3, TwoCharacters
  <2> QED BY <2>4, <2>5
<1> QED BY <1>1, <1>2, <1>3, TokenIs

(* What is left of the sizes and the texts is built up from the end: it    *)
(* all is the values one after another, unless one of them is missing.     *)
LEMMA ChainedAll ==
  ASSUME NEW n \in Nat, NEW v \in Seq(Chars), Len(v) = n, NEW a, NEW b,
         a[n] = 0, b[n] = <<>>,
         \A j \in 1..n : a[j - 1] = Plus(Len(v[j]), a[j]),
         \A j \in 1..n : b[j - 1] = Cat(v[j], b[j])
  PROVE  a[0] \in Nat /\ b[0] = FlattenSeq(v)
<1>1. PICK f : /\ FlattenSeq(v) = f[Len(v)]
               /\ f[0] = <<>>
               /\ \A j \in 1..Len(v) : f[j] = Cat(f[j - 1], v[j])
               /\ \A j \in 0..Len(v) : f[j] \in Chars
  BY FlattenedIs DEF Joins
<1>2. \A j \in 1..n : v[j] \in Chars
  BY ElementOfSeq
<1>3. /\ <<>> \in Chars
      /\ \A c, d \in Chars : Cat(c, d) \in Chars
      /\ \A c \in Chars : Cat(<<>>, c) = c /\ Cat(c, <<>>) = c
      /\ \A c, d, e \in Chars : Cat(Cat(c, d), e) = Cat(c, Cat(d, e))
  BY DEF Chars, Cat
<1>4. \A j \in 0..n : a[j] \in Nat /\ b[j] \in Chars
  <2> DEFINE Q == {k \in 0..n : a[n - k] \in Nat /\ b[n - k] \in Chars}
  <2>1. 0 \in Q
    BY <1>3
  <2>2. ASSUME NEW k \in 1..n, k - 1 \in Q PROVE k \in Q
    <3>1. PICK j \in 1..n : j = n - (k - 1)
      OBVIOUS
    <3>2. a[j] \in Nat /\ b[j] \in Chars
      BY <2>2, <3>1
    <3>3. v[j] \in Chars
      BY <1>2
    <3>4. Len(v[j]) \in Nat
      BY <3>3, LenProperties DEF Chars
    <3>5. a[j - 1] \in Nat
      BY <3>2, <3>4 DEF Plus
    <3>6. b[j - 1] \in Chars
      BY <1>3, <3>2, <3>3
    <3>7. j - 1 = n - k
      BY <3>1
    <3> QED BY <3>5, <3>6, <3>7
  <2> HIDE DEF Q
  <2>3. \A k \in 0..n : k \in Q
    BY <2>1, <2>2, UpTo
  <2>4. \A j \in 0..n : n - j \in Q /\ n - (n - j) = j
    BY <2>3
  <2> QED BY <2>4 DEF Q
<1>5. \A j \in 0..n : b[0] = Cat(f[j], b[j])
  <2> DEFINE Q == {j \in 0..n : b[0] = Cat(f[j], b[j])}
  <2>1. 0 \in Q
    <3>1. b[0] \in Chars
      BY <1>4
    <3> QED BY <1>1, <1>3, <3>1
  <2>2. ASSUME NEW j \in 1..n, j - 1 \in Q PROVE j \in Q
    <3>1. b[0] = Cat(f[j - 1], b[j - 1])
      BY <2>2
    <3>2. b[j - 1] = Cat(v[j], b[j]) /\ f[j] = Cat(f[j - 1], v[j])
      BY <1>1
    <3>3. f[j - 1] \in Chars /\ v[j] \in Chars /\ b[j] \in Chars
      <4>1. j - 1 \in 0..n /\ j \in 0..n
        OBVIOUS
      <4> QED BY <1>1, <1>2, <1>4, <4>1
    <3>4. Cat(Cat(f[j - 1], v[j]), b[j]) = Cat(f[j - 1], Cat(v[j], b[j]))
      <4>1. PICK c \in Chars : c = f[j - 1]
        BY <3>3
      <4>2. PICK d \in Chars : d = v[j]
        BY <3>3
      <4>3. PICK e \in Chars : e = b[j]
        BY <3>3
      <4>4. Cat(Cat(c, d), e) = Cat(c, Cat(d, e))
        BY <1>3
      <4> QED BY <4>1, <4>2, <4>3, <4>4
    <3>5. b[0] = Cat(f[j], b[j])
      BY <3>1, <3>2, <3>4
    <3> QED BY <3>5
  <2> HIDE DEF Q
  <2>3. \A j \in 0..n : j \in Q
    BY <2>1, <2>2, UpTo
  <2> QED BY <2>3 DEF Q
<1>6. b[0] = Cat(f[n], <<>>)
  <2>1. n \in 0..n
    OBVIOUS
  <2> QED BY <1>5, <2>1
<1>7. f[n] \in Chars
  BY <1>1
<1> QED BY <1>1, <1>3, <1>4, <1>6, <1>7

(* One that is missing makes the whole size -1.                            *)
LEMMA ChainedMissing ==
  ASSUME NEW n \in Nat, NEW v, NEW a,
         \A j \in 1..n : a[j - 1] = IF v[j] = NoArg THEN -1 ELSE Plus(Len(v[j]), a[j]),
         NEW i \in 1..n, v[i] = NoArg
  PROVE  a[0] = -1
<1> DEFINE Q == {k \in 0..(i - 1) : a[i - 1 - k] = -1}
<1>1. 0 \in Q
  <2>1. a[i - 1] = -1
    OBVIOUS
  <2> QED BY <2>1
<1>2. ASSUME NEW k \in 1..(i - 1), k - 1 \in Q PROVE k \in Q
  <2>1. PICK j \in 1..n : j = i - 1 - (k - 1)
    OBVIOUS
  <2>2. a[j] = -1
    BY <1>2, <2>1
  <2>3. a[j - 1] = -1
    BY <2>2 DEF Plus
  <2>4. j - 1 = i - 1 - k
    BY <2>1
  <2> QED BY <2>3, <2>4
<1> HIDE DEF Q
<1>3. i - 1 \in Nat
  OBVIOUS
<1>4. \A k \in 0..(i - 1) : k \in Q
  BY <1>1, <1>2, <1>3, UpTo
<1>5. i - 1 \in Q /\ i - 1 - (i - 1) = 0
  BY <1>3, <1>4
<1> QED BY <1>5 DEF Q

(* A format that is written by its rules, and what the passes make of it.  *)
LEMMA TokensScanned ==
  ASSUME NEW tokens \in Seq(Token), NEW args \in GivenArguments, NEW v,
         v = [i \in 1..Len(tokens) |-> ValueIn(tokens[i], args)]
  PROVE  /\ Format(tokens) \in Seq(STRING)
         /\ v \in Seq(Chars) =>
              /\ SubstitutedSize(Format(tokens), args) \in Nat
              /\ SubstituteToBuffer(Format(tokens), args) = FlattenSeq(v)
         /\ (\E i \in 1..Len(tokens) : v[i] = NoArg) => SubstitutedSize(Format(tokens), args) = -1
<1>0. PICK n \in Nat : n = Len(tokens)
  BY LenProperties
<1>1. \A j \in 1..n : tokens[j] \in Token
  BY <1>0, ElementOfSeq
<1>2. PICK seqs : seqs = [i \in 1..Len(tokens) |-> AsWritten(tokens[i])]
  OBVIOUS
<1>3. \A j \in 1..n : seqs[j] = AsWritten(tokens[j]) /\ seqs[j] \in Chars
  BY <1>0, <1>1, <1>2, WrittenIs
<1>4. seqs \in Seq(Chars) /\ Len(seqs) = n
  <2>1. seqs \in [1..n -> Chars]
    BY <1>0, <1>2, <1>3
  <2>2. PICK C : C = Chars
    OBVIOUS
  <2>3. seqs \in [1..n -> C]
    BY <2>1, <2>2
  <2>4. seqs \in Seq(C) /\ Len(seqs) = n
    BY <2>3, <1>0
  <2> QED BY <2>2, <2>4
<1>5. PICK f : FlattenSeq(seqs) = f[Len(seqs)] /\ Joins(f, seqs)
  BY <1>4, FlattenedIs
<1>6. PICK format : format = Format(tokens)
  OBVIOUS
<1>7. format = f[Len(seqs)] /\ format = f[n]
  BY <1>2, <1>4, <1>5, <1>6 DEF Format
<1>8. format \in Chars /\ format \in Seq(STRING)
  BY <1>4, <1>5, <1>7 DEF Chars, Joins
<1>9. \A j \in 1..n :
        /\ Len(f[j - 1]) \in Nat /\ Len(f[j]) = Len(f[j - 1]) + Len(seqs[j])
        /\ StandsAt(seqs[j], format, Len(f[j - 1]))
  <2>1. seqs \in Seq(Chars)
    BY <1>4
  <2>2. Joins(f, seqs)
    BY <1>5
  <2>3. format = f[Len(seqs)]
    BY <1>7
  <2>4. \A j \in 1..Len(seqs) :
          /\ Len(f[j - 1]) \in Nat /\ Len(f[j]) = Len(f[j - 1]) + Len(seqs[j])
          /\ StandsAt(seqs[j], format, Len(f[j - 1]))
    BY <2>1, <2>2, <2>3, PieceStands
  <2> QED BY <1>4, <2>4
<1>10. PICK S : /\ SubstitutedSize(format, args) = S[1]
                /\ \A i \in 1..(Len(format) + 1) : S[i] = SizeAt(format, args, S, i)
  BY <1>8, SizesExist
<1>11. PICK W : /\ SubstituteToBuffer(format, args) = W[1]
                /\ \A i \in 1..(Len(format) + 1) : W[i] = RestAt(format, args, W, i)
  BY <1>8, RestsExist
<1>12. ASSUME NEW j \in 1..n
       PROVE  /\ S[Len(f[j - 1]) + 1] = IF v[j] = NoArg THEN -1 ELSE Plus(Len(v[j]), S[Len(f[j]) + 1])
              /\ W[Len(f[j - 1]) + 1] = Cat(v[j], W[Len(f[j]) + 1])
  <2>1. PICK token \in Token : token = tokens[j]
    BY <1>1
  <2>2. PICK text : text = seqs[j]
    OBVIOUS
  <2>3. text = AsWritten(token)
    BY <1>3, <2>1, <2>2
  <2>4. Len(f[j - 1]) \in Nat /\ Len(f[j]) = Len(f[j - 1]) + Len(text) /\ StandsAt(text, format, Len(f[j - 1]))
    BY <1>9, <2>2
  <2>5. PICK q \in Nat : q = Len(f[j - 1])
    BY <2>4
  <2>6. Len(text) \in Nat
    BY <2>4 DEF StandsAt
  <2>7. PICK r \in Nat : r = q + Len(text)
    BY <2>6
  <2>8. StandsAt(text, format, q) /\ r = Len(f[j])
    BY <2>4, <2>5, <2>7
  <2>9. PICK x : x = ValueIn(token, args)
    OBVIOUS
  <2>10. x = v[j]
    BY <1>0, <2>1, <2>9
  <2>11. /\ S[q + 1] = IF x = NoArg THEN -1 ELSE Plus(Len(x), S[r + 1])
         /\ W[q + 1] = Cat(x, W[r + 1])
    <3>1. format \in Seq(STRING)
      BY <1>8
    <3>2. Passing(format, args, S, W)
      BY <1>10, <1>11 DEF Passing
    <3>3. StandsAt(text, format, q)
      BY <2>8
    <3> QED BY <2>3, <2>7, <2>9, <3>1, <3>2, <3>3, TokenScanned
  <2> QED BY <2>5, <2>8, <2>10, <2>11
<1>13. PICK a : a = [j \in 0..n |-> S[Len(f[j]) + 1]]
  OBVIOUS
<1>14. PICK b : b = [j \in 0..n |-> W[Len(f[j]) + 1]]
  OBVIOUS
<1>15. \A j \in 0..n : a[j] = S[Len(f[j]) + 1] /\ b[j] = W[Len(f[j]) + 1]
  BY <1>13, <1>14
<1>16. \A j \in 1..n : /\ a[j - 1] = IF v[j] = NoArg THEN -1 ELSE Plus(Len(v[j]), a[j])
                       /\ b[j - 1] = Cat(v[j], b[j])
  <2> TAKE j \in 1..n
  <2>1. j - 1 \in 0..n /\ j \in 0..n
    OBVIOUS
  <2> QED BY <1>12, <1>15, <2>1
<1>17. SubstitutedSize(format, args) = a[0] /\ SubstituteToBuffer(format, args) = b[0]
  <2>1. Len(f[0]) = 0 /\ 0 \in 0..n
    BY <1>5 DEF Joins
  <2>2. a[0] = S[0 + 1] /\ b[0] = W[0 + 1]
    BY <1>15, <2>1
  <2> QED BY <1>10, <1>11, <2>2
<1>18. a[n] = 0 /\ b[n] = <<>>
  <2>1. PICK l \in Nat : l = Len(format)
    BY <1>8, LenProperties
  <2>2. l + 1 \in 1..(Len(format) + 1) /\ l + 1 > Len(format)
    BY <2>1
  <2>3. SizeAt(format, args, S, l + 1) = 0 /\ RestAt(format, args, W, l + 1) = <<>>
    BY <2>2 DEF SizeAt, RestAt
  <2>4. S[l + 1] = 0 /\ W[l + 1] = <<>>
    BY <1>10, <1>11, <2>2, <2>3
  <2>5. n \in 0..n
    OBVIOUS
  <2> QED BY <1>7, <1>15, <2>1, <2>4, <2>5
<1>19. ASSUME v \in Seq(Chars) PROVE a[0] \in Nat /\ b[0] = FlattenSeq(v)
  <2>1. Len(v) = n
    BY <1>0, <1>19, LenProperties
  <2>2. \A j \in 1..n : v[j] # NoArg
    <3>1. \A j \in 1..n : v[j] \in Chars
      BY <1>19, <2>1, ElementOfSeq
    <3> QED BY <3>1, NoneGiven
  <2>3. \A j \in 1..n : a[j - 1] = Plus(Len(v[j]), a[j])
    BY <1>16, <2>2
  <2>4. \A j \in 1..n : b[j - 1] = Cat(v[j], b[j])
    BY <1>16
  <2>5. a[n] = 0
    BY <1>18
  <2>6. b[n] = <<>>
    BY <1>18
  <2>7. v \in Seq(Chars)
    BY <1>19
  <2> QED BY <2>1, <2>3, <2>4, <2>5, <2>6, <2>7, ChainedAll
<1>20. ASSUME NEW i \in 1..n, v[i] = NoArg PROVE a[0] = -1
  <2>1. \A j \in 1..n : a[j - 1] = IF v[j] = NoArg THEN -1 ELSE Plus(Len(v[j]), a[j])
    BY <1>16
  <2> QED BY <1>20, <2>1, ChainedMissing
<1> QED BY <1>0, <1>6, <1>8, <1>17, <1>19, <1>20

(* kHexDigits and the digits to the base 16.                               *)
HexDigit(m, spot) == (m \div Unit16[spot]) % 16

(* m has n digits.                                                         *)
HexPlaces(m, n) == m \div Unit16[n] \in 1..15

Spelled(m, n) == [p \in 1..n |-> kHexDigits[HexDigit(m, n + 1 - p) + 1]]

(* The powers of 16, one by one.                                           *)
LEMMA UnitsOf16 ==
  /\ Unit16[1] = 1 /\ Unit16[2] = 16 /\ Unit16[3] = 256 /\ Unit16[4] = 4096 /\ Unit16[5] = 65536
  /\ Unit16[6] = 1048576 /\ Unit16[7] = 16777216 /\ Unit16[8] = 268435456
BY DEF Unit16

(* Each unit is 16 times the one before.                                   *)
LEMMA UnitIs ==
  ASSUME NEW n \in 1..8
  PROVE  /\ Unit16[n] \in Nat /\ Unit16[n] > 0
         /\ n < 8 => Unit16[n + 1] = 16 * Unit16[n]
<1>1. n = 1 \/ n = 2 \/ n = 3 \/ n = 4 \/ n = 5 \/ n = 6 \/ n = 7 \/ n = 8
  OBVIOUS
<1>2. n \in 1..7 => Unit16[n] \in Nat /\ Unit16[n] > 0 /\ Unit16[n + 1] = 16 * Unit16[n]
  BY <1>1, UnitsOf16
<1>3. n = 8 => Unit16[n] \in Nat /\ Unit16[n] > 0
  BY UnitsOf16
<1> QED BY <1>2, <1>3

(* kHexDigits has a character for each digit.                              *)
LEMMA HexCharacter ==
  ASSUME NEW d \in 0..15
  PROVE  kHexDigits[d + 1] \in STRING
<1>1. PICK S : S = STRING
  OBVIOUS
<1>2. Digits \in Seq(S) /\ Len(Digits) = 10
  BY <1>1, SubstitutionAssumption
<1>3. PICK more : more = <<"a", "b", "c", "d", "e", "f">>
  OBVIOUS
<1>4. "a" \in S /\ "b" \in S /\ "c" \in S /\ "d" \in S /\ "e" \in S /\ "f" \in S
  <2>1. OwnCharacters \subseteq S
    BY <1>1, SubstitutionAssumption
  <2> QED BY <2>1 DEF OwnCharacters
<1>5. more \in Seq(S) /\ Len(more) = 6
  BY <1>3, <1>4
<1>6. Digits \o more \in Seq(S) /\ Len(Digits \o more) = 16
  <2>1. Digits \o more \in Seq(S) /\ Len(Digits \o more) = Len(Digits) + Len(more)
    <3>1. Digits \in Seq(S) /\ more \in Seq(S)
      BY <1>2, <1>5
    <3> QED BY <3>1, ConcatProperties
  <2> QED BY <1>2, <1>5, <2>1
<1>7. d + 1 \in 1..16
  OBVIOUS
<1>8. (Digits \o more)[d + 1] \in S
  BY <1>6, <1>7, ElementOfSeq
<1> QED BY <1>1, <1>3, <1>8 DEF kHexDigits

(* Dividing by 16 shifts the digits by one place.                          *)
LEMMA DigitShifted ==
  ASSUME NEW m \in Nat, NEW p \in 1..7
  PROVE  (m \div 16) \div Unit16[p] = m \div Unit16[p + 1]
<1>0. p = 1 \/ p = 2 \/ p = 3 \/ p = 4 \/ p = 5 \/ p = 6 \/ p = 7
  OBVIOUS
<1>1. (m \div 16) \div 1 = m \div 16
  OBVIOUS
<1>2. (m \div 16) \div 16 = m \div 256
  OBVIOUS
<1>3. (m \div 16) \div 256 = m \div 4096
  OBVIOUS
<1>4. (m \div 16) \div 4096 = m \div 65536
  OBVIOUS
<1>5. (m \div 16) \div 65536 = m \div 1048576
  OBVIOUS
<1>6. (m \div 16) \div 1048576 = m \div 16777216
  OBVIOUS
<1>7. (m \div 16) \div 16777216 = m \div 268435456
  OBVIOUS
<1> QED BY <1>0, <1>1, <1>2, <1>3, <1>4, <1>5, <1>6, <1>7, UnitsOf16

(* Digits are below 16.                                                    *)
LEMMA DigitOf16 ==
  ASSUME NEW m \in Nat, NEW p \in 1..8
  PROVE  HexDigit(m, p) \in 0..15
<1>1. Unit16[p] \in Nat /\ Unit16[p] > 0
  BY UnitIs
<1>2. m \div Unit16[p] \in Nat
  BY <1>1
<1> QED BY <1>2 DEF HexDigit

(* An address has a first digit, and after it come zeros.                  *)
LEMMA SomePlaces ==
  ASSUME NEW m \in Nat, m # 0, m \div Unit16[8] < 16
  PROVE  \E n \in 1..8 : HexPlaces(m, n)
<1>1. m \div 268435456 < 16
  BY UnitsOf16
<1>2. \/ m \div 1 \in 1..15 \/ m \div 16 \in 1..15 \/ m \div 256 \in 1..15 \/ m \div 4096 \in 1..15
      \/ m \div 65536 \in 1..15 \/ m \div 1048576 \in 1..15 \/ m \div 16777216 \in 1..15
      \/ m \div 268435456 \in 1..15
  BY <1>1
<1>3. 1 \in 1..8 /\ 2 \in 1..8 /\ 3 \in 1..8 /\ 4 \in 1..8 /\ 5 \in 1..8 /\ 6 \in 1..8 /\ 7 \in 1..8 /\ 8 \in 1..8
  OBVIOUS
<1> QED BY <1>2, <1>3, UnitsOf16 DEF HexPlaces

(* The digit at the last place of a number is not 0, and behind it come    *)
(* zeros.                                                                  *)
LEMMA FirstDigit ==
  ASSUME NEW m \in Nat, NEW n \in 1..8, HexPlaces(m, n)
  PROVE  HexDigit(m, n) # 0 /\ \A spot \in (n + 1)..8 : HexDigit(m, spot) = 0
<1>1. HexDigit(m, n) # 0
  BY DEF HexDigit, HexPlaces
<1> DEFINE Q == {k \in 0..(8 - n) : m \div Unit16[n + k] < 16 /\ (k # 0 => m \div Unit16[n + k] = 0)}
<1>2. 0 \in Q
  BY DEF HexPlaces
<1>3. ASSUME NEW k \in 1..(8 - n), k - 1 \in Q PROVE k \in Q
  <2>1. PICK p \in 1..7 : p = n + (k - 1)
    OBVIOUS
  <2>2. m \div Unit16[p] < 16
    BY <1>3, <2>1
  <2>3. PICK u \in Nat : u = Unit16[p] /\ u > 0
    BY UnitIs
  <2>4. Unit16[p + 1] = 16 * u
    BY <2>3, UnitIs
  <2>5. m < 16 * u
    <3>1. PICK c \in Nat : c = m \div u
      BY <2>3
    <3>2. m < (c + 1) * u
      BY <2>3, <3>1
    <3>3. c + 1 <= 16
      BY <2>2, <2>3, <3>1
    <3>4. (c + 1) * u <= 16 * u
      BY <2>3, <3>3
    <3> QED BY <2>3, <3>2, <3>4
  <2>6. m \div (16 * u) = 0
    BY <2>3, <2>5
  <2>7. n + k = p + 1
    BY <2>1
  <2> QED BY <2>4, <2>6, <2>7
<1> HIDE DEF Q
<1>4. 8 - n \in Nat
  OBVIOUS
<1>5. \A k \in 0..(8 - n) : k \in Q
  BY <1>2, <1>3, <1>4, UpTo
<1>6. ASSUME NEW spot \in (n + 1)..8 PROVE HexDigit(m, spot) = 0
  <2>1. spot - n \in 0..(8 - n) /\ spot - n # 0 /\ n + (spot - n) = spot
    OBVIOUS
  <2>2. m \div Unit16[spot] = 0
    BY <1>5, <2>1 DEF Q
  <2> QED BY <2>2 DEF HexDigit
<1> QED BY <1>1, <1>6

(* The loop of HexText, as what it writes of each number on its way.       *)
LEMMA HexTexts ==
  ASSUME NEW num \in Nat
  PROVE  \E g : /\ HexText(num) = g[num]
                /\ \A m \in 0..num : g[m] = Cat(IF m \div 16 = 0 THEN <<>> ELSE g[m \div 16],
                                                <<kHexDigits[(m % 16) + 1]>>)
<1> DEFINE At(g, m) == (IF m \div 16 = 0 THEN <<>> ELSE g[m \div 16]) \o <<kHexDigits[(m % 16) + 1]>>
           Has(k) == \E g : g = [m \in 0..k |-> At(g, m)]
           Q == {k \in 0..num : Has(k)}
<1>1. ASSUME NEW k \in Nat, NEW m \in 0..k
      PROVE  m \div 16 # 0 => m \div 16 \in 0..(k - 1) /\ m \div 16 < m
  OBVIOUS
<1>2. Has(0)
  <2>1. 0..0 = {0} /\ 0 \div 16 = 0
    OBVIOUS
  <2>2. PICK e : e = <<>> \o <<kHexDigits[(0 % 16) + 1]>>
    OBVIOUS
  <2>3. PICK g : g = [m \in {0} |-> e]
    OBVIOUS
  <2>4. At(g, 0) = e
    BY <2>1, <2>2
  <2> HIDE DEF At
  <2>5. g = [m \in {0} |-> At(g, m)]
    BY <2>3, <2>4
  <2> QED BY <2>1, <2>5
<1>3. ASSUME NEW k \in 1..num, Has(k - 1) PROVE Has(k)
  <2>1. PICK g : g = [m \in 0..(k - 1) |-> At(g, m)]
    BY <1>3
  <2>2. PICK e : e = At(g, k)
    OBVIOUS
  <2>3. PICK h : h = [m \in 0..k |-> IF m = k THEN e ELSE g[m]]
    OBVIOUS
  <2>4. \A m \in 0..(k - 1) : h[m] = g[m]
    BY <2>3
  <2>5. ASSUME NEW m \in 0..k PROVE At(h, m) = At(g, m)
    <3>1. m \div 16 # 0 => h[m \div 16] = g[m \div 16]
      BY <1>1, <2>4
    <3> QED BY <3>1
  <2>6. ASSUME NEW m \in 0..k PROVE h[m] = At(h, m)
    <3> HIDE DEF At
    <3>1. CASE m = k
      BY <2>2, <2>3, <2>5, <3>1
    <3>2. CASE m # k
      <4>1. m \in 0..(k - 1)
        BY <3>2
      <4>2. g[m] = At(g, m)
        BY <2>1, <4>1
      <4> QED BY <2>4, <2>5, <4>1, <4>2
    <3> QED BY <3>1, <3>2
  <2> HIDE DEF At
  <2>7. h = [m \in 0..k |-> At(h, m)]
    <3>1. h = [m \in 0..k |-> h[m]]
      BY <2>3
    <3> QED BY <2>6, <3>1
  <2> QED BY <2>7
<1>4. Has(num)
  <2> HIDE DEF Has
  <2>1. 0 \in Q
    BY <1>2
  <2>2. ASSUME NEW k \in 1..num, k - 1 \in Q PROVE k \in Q
    BY <1>3, <2>2
  <2> HIDE DEF Q
  <2>3. \A k \in 0..num : k \in Q
    BY <2>1, <2>2, UpTo
  <2>4. num \in Q
    BY <2>3
  <2> QED BY <2>4 DEF Q
<1>5. PICK g : g = CHOOSE c : c = [m \in 0..num |-> At(c, m)]
  OBVIOUS
<1>6. g = [m \in 0..num |-> At(g, m)]
  BY <1>4, <1>5
<1>7. HexText(num) = g[num]
  BY <1>5 DEF HexText
<1>8. \A m \in 0..num : g[m] = At(g, m)
  <2> HIDE DEF At
  <2> QED BY <1>6
<1> QED BY <1>7, <1>8 DEF Cat

(* One digit less, and what the last adds.                                 *)
LEMMA SpelledOn ==
  ASSUME NEW m \in Nat, NEW n \in 1..7
  PROVE  /\ Spelled(m \div 16, n) \in Chars
         /\ Cat(Spelled(m \div 16, n), <<kHexDigits[(m % 16) + 1]>>) = Spelled(m, n + 1)
<1>1. m \div 16 \in Nat /\ m % 16 \in 0..15
  OBVIOUS
<1>2. PICK S : S = STRING
  OBVIOUS
<1>3. PICK c : c = kHexDigits[(m % 16) + 1]
  OBVIOUS
<1>4. c \in S
  BY <1>1, <1>2, <1>3, HexCharacter
<1>5. PICK s : s = Spelled(m \div 16, n)
  OBVIOUS
<1>6. ASSUME NEW p \in 1..n PROVE s[p] = kHexDigits[HexDigit(m, (n + 1) + 1 - p) + 1] /\ s[p] \in S
  <2>1. n + 1 - p \in 1..7 /\ n + 1 - p \in 1..8 /\ (n + 1) + 1 - p = (n + 1 - p) + 1
    OBVIOUS
  <2>2. PICK q \in 1..7 : q = n + 1 - p /\ q \in 1..8 /\ (n + 1) + 1 - p = q + 1
    BY <2>1
  <2>3. HexDigit(m \div 16, q) = HexDigit(m, q + 1)
    BY DigitShifted DEF HexDigit
  <2>4. s[p] = kHexDigits[HexDigit(m \div 16, q) + 1]
    BY <1>5, <2>2 DEF Spelled
  <2>5. HexDigit(m \div 16, q) \in 0..15
    BY <1>1, <2>2, DigitOf16
  <2>6. s[p] \in S
    BY <1>2, <2>4, <2>5, HexCharacter
  <2> QED BY <2>2, <2>3, <2>4, <2>6
<1>7. s \in Seq(S) /\ Len(s) = n /\ s = [p \in 1..n |-> s[p]]
  <2>1. s = [p \in 1..n |-> s[p]]
    BY <1>5 DEF Spelled
  <2>2. s \in [1..n -> S]
    BY <1>6, <2>1
  <2> QED BY <2>1, <2>2
<1>8. <<c>> \in Seq(S) /\ Len(<<c>>) = 1 /\ <<c>>[1] = c
  BY <1>4
<1>9. PICK t : t = Cat(s, <<c>>)
  OBVIOUS
<1>10. t \in Seq(S) /\ Len(t) = n + 1
  <2>1. Len(s \o <<c>>) = Len(s) + Len(<<c>>) /\ s \o <<c>> \in Seq(S)
    <3>1. s \in Seq(S) /\ <<c>> \in Seq(S)
      BY <1>7, <1>8
    <3> QED BY <3>1, ConcatProperties
  <2> QED BY <1>7, <1>8, <1>9, <2>1 DEF Cat
<1>11. \A p \in 1..(n + 1) : t[p] = IF p <= n THEN s[p] ELSE c
  <2>1. \A i \in 1..(Len(s) + Len(<<c>>)) : (s \o <<c>>)[i] = IF i <= Len(s) THEN s[i] ELSE <<c>>[i - Len(s)]
    <3>1. s \in Seq(S) /\ <<c>> \in Seq(S)
      BY <1>7, <1>8
    <3> QED BY <3>1, ConcatProperties
  <2>2. \A i \in 1..(n + 1) : t[i] = IF i <= n THEN s[i] ELSE <<c>>[i - n]
    BY <1>7, <1>8, <1>9, <2>1 DEF Cat
  <2>3. \A i \in 1..(n + 1) : ~(i <= n) => i - n = 1
    OBVIOUS
  <2> QED BY <1>8, <2>2, <2>3
<1>12. t = [p \in 1..(n + 1) |-> t[p]]
  <2>1. t \in [1..Len(t) -> S]
    BY <1>10, LenProperties
  <2> QED BY <1>10, <2>1
<1>13. \A p \in 1..(n + 1) : t[p] = kHexDigits[HexDigit(m, (n + 1) + 1 - p) + 1]
  <2> TAKE p \in 1..(n + 1)
  <2>1. CASE p <= n
    <3>1. p \in 1..n
      BY <2>1
    <3> QED BY <1>6, <1>11, <2>1, <3>1
  <2>2. CASE ~(p <= n)
    <3>1. (n + 1) + 1 - p = 1
      BY <2>2
    <3>2. HexDigit(m, 1) = m % 16
      <4>1. m \div 1 = m
        OBVIOUS
      <4> QED BY <4>1, UnitsOf16 DEF HexDigit
    <3>3. t[p] = c
      BY <1>11, <2>2
    <3> QED BY <1>3, <3>1, <3>2, <3>3
  <2> QED BY <2>1, <2>2
<1>14. t = Spelled(m, n + 1)
  BY <1>12, <1>13 DEF Spelled
<1>15. s \in Chars
  BY <1>2, <1>7 DEF Chars
<1> QED BY <1>3, <1>5, <1>9, <1>14, <1>15

(* A number of one digit is written as this digit.                         *)
LEMMA OnePlace ==
  ASSUME NEW m \in Nat, HexPlaces(m, 1)
  PROVE  m \div 16 = 0 /\ <<kHexDigits[(m % 16) + 1]>> = Spelled(m, 1) /\ Spelled(m, 1) \in Chars
<1>1. m \in 1..15
  <2>1. m \div 1 = m
    OBVIOUS
  <2> QED BY <2>1, UnitsOf16 DEF HexPlaces
<1>2. m \div 16 = 0 /\ m % 16 = m
  BY <1>1
<1>3. HexDigit(m, 1) = m
  <2>1. m \div 1 = m
    OBVIOUS
  <2> QED BY <1>2, <2>1, UnitsOf16 DEF HexDigit
<1>4. PICK c : c = kHexDigits[m + 1]
  OBVIOUS
<1>5. c \in STRING
  BY <1>1, <1>4, HexCharacter
<1>6. Spelled(m, 1) = <<c>>
  <2>1. Spelled(m, 1) = [p \in 1..1 |-> kHexDigits[HexDigit(m, 1 + 1 - p) + 1]]
    BY DEF Spelled
  <2>2. \A p \in 1..1 : p = 1 /\ 1 + 1 - p = 1
    OBVIOUS
  <2>3. \A p \in 1..1 : kHexDigits[HexDigit(m, 1 + 1 - p) + 1] = c
    BY <1>3, <1>4, <2>2
  <2>4. Spelled(m, 1) = [p \in 1..1 |-> c]
    BY <2>1, <2>3
  <2>5. [p \in 1..1 |-> c] = <<c>>
    OBVIOUS
  <2> QED BY <2>4, <2>5
<1>7. <<c>> \in Chars
  BY <1>5, OneCharacter
<1> QED BY <1>2, <1>4, <1>6, <1>7

(* Dividing by 16 takes a digit off.                                       *)
LEMMA FewerPlaces ==
  ASSUME NEW m \in Nat, NEW n \in 1..7, HexPlaces(m, n + 1)
  PROVE  m \div 16 \in Nat /\ m \div 16 # 0 /\ m \div 16 < m /\ HexPlaces(m \div 16, n)
<1>1. m \div Unit16[n + 1] \in 1..15 /\ (m \div 16) \div Unit16[n] = m \div Unit16[n + 1]
  BY DigitShifted DEF HexPlaces
<1>2. PICK u \in Nat : u = Unit16[n] /\ u > 0
  BY UnitIs
<1>3. 0 \div u = 0
  BY <1>2
<1>4. m \div 16 # 0
  BY <1>1, <1>2, <1>3
<1>5. m \div 16 < m
  BY <1>4
<1> QED BY <1>1, <1>4, <1>5 DEF HexPlaces

(* HexText writes the digits to the base 16, from the first that is not 0. *)
LEMMA HexIs ==
  ASSUME NEW num \in Nat, num # 0, num \div Unit16[8] < 16
  PROVE  HexText(num) = HexNotation(num) /\ HexText(num) \in Chars
<1>1. PICK g : /\ HexText(num) = g[num]
               /\ \A m \in 0..num : g[m] = Cat(IF m \div 16 = 0 THEN <<>> ELSE g[m \div 16],
                                               <<kHexDigits[(m % 16) + 1]>>)
  BY HexTexts
<1>2. PICK n \in 1..8 : HexPlaces(num, n)
  BY SomePlaces
<1> DEFINE Right(k) == \A m \in 0..num : HexPlaces(m, k + 1) => g[m] = Spelled(m, k + 1) /\ g[m] \in Chars
           Q == {k \in 0..7 : Right(k)}
<1>3. Right(0)
  <2> SUFFICES ASSUME NEW m \in 0..num, HexPlaces(m, 0 + 1) PROVE g[m] = Spelled(m, 1) /\ g[m] \in Chars
    OBVIOUS
  <2>1. m \div 16 = 0 /\ <<kHexDigits[(m % 16) + 1]>> = Spelled(m, 1) /\ Spelled(m, 1) \in Chars
    BY OnePlace
  <2>2. g[m] = Cat(<<>>, Spelled(m, 1))
    BY <1>1, <2>1
  <2>3. \A s \in Chars : Cat(<<>>, s) = s
    BY DEF Cat, Chars
  <2> QED BY <2>1, <2>2, <2>3
<1>4. ASSUME NEW k \in 1..7, Right(k - 1) PROVE Right(k)
  <2> SUFFICES ASSUME NEW m \in 0..num, HexPlaces(m, k + 1) PROVE g[m] = Spelled(m, k + 1) /\ g[m] \in Chars
    OBVIOUS
  <2>1. m \div 16 \in Nat /\ m \div 16 # 0 /\ m \div 16 < m /\ HexPlaces(m \div 16, k)
    BY FewerPlaces
  <2>2. m \div 16 \in 0..num /\ (k - 1) + 1 = k
    BY <2>1
  <2>3. g[m \div 16] = Spelled(m \div 16, k) /\ g[m \div 16] \in Chars
    BY <1>4, <2>1, <2>2
  <2>4. g[m] = Cat(g[m \div 16], <<kHexDigits[(m % 16) + 1]>>)
    BY <1>1, <2>1
  <2>5. Cat(Spelled(m \div 16, k), <<kHexDigits[(m % 16) + 1]>>) = Spelled(m, k + 1)
    BY SpelledOn
  <2>6. g[m] = Spelled(m, k + 1)
    BY <2>3, <2>4, <2>5
  <2>7. g[m] \in Chars
    <3>1. m % 16 \in 0..15
      OBVIOUS
    <3>2. <<kHexDigits[(m % 16) + 1]>> \in Chars
      BY <3>1, HexCharacter, OneCharacter
    <3> QED BY <2>3, <2>4, <3>2, CatAt
  <2> QED BY <2>6, <2>7
<1>5. \A k \in 0..7 : Right(k)
  <2> HIDE DEF Right
  <2>1. 0 \in Q
    BY <1>3
  <2>2. ASSUME NEW k \in 1..7, k - 1 \in Q PROVE k \in Q
    BY <1>4, <2>2
  <2> HIDE DEF Q
  <2>3. 7 \in Nat
    OBVIOUS
  <2>4. \A k \in 0..7 : k \in Q
    BY <2>1, <2>2, <2>3, UpTo
  <2> QED BY <2>4 DEF Q
<1>6. g[num] = Spelled(num, n) /\ g[num] \in Chars
  <2>1. n - 1 \in 0..7 /\ (n - 1) + 1 = n /\ num \in 0..num
    OBVIOUS
  <2>2. Right(n - 1)
    BY <1>5, <2>1
  <2> QED BY <1>2, <2>1, <2>2
<1>7. HexNotation(num) = Spelled(num, n)
  <2>1. PICK digit : digit = [spot \in 1..8 |-> (num \div Unit16[spot]) % 16]
    OBVIOUS
  <2>2. \A spot \in 1..8 : digit[spot] = HexDigit(num, spot)
    BY <2>1 DEF HexDigit
  <2>3. HexDigit(num, n) # 0 /\ \A spot \in (n + 1)..8 : HexDigit(num, spot) = 0
    BY <1>2, FirstDigit
  <2>4. digit[n] # 0 /\ \A spot \in (n + 1)..8 : digit[spot] = 0
    <3>1. \A spot \in (n + 1)..8 : spot \in 1..8
      OBVIOUS
    <3> QED BY <2>2, <2>3, <3>1
  <2>5. ASSUME NEW c \in 1..8, digit[c] # 0, \A spot \in (c + 1)..8 : digit[spot] = 0 PROVE c = n
    <3>1. ~(c < n)
      <4>1. c < n => n \in (c + 1)..8
        OBVIOUS
      <4> QED BY <2>4, <2>5, <4>1
    <3>2. ~(n < c)
      <4>1. n < c => c \in (n + 1)..8
        OBVIOUS
      <4> QED BY <2>4, <2>5, <4>1
    <3> QED BY <3>1, <3>2
  <2>6. PICK x : x = CHOOSE c \in 1..8 : digit[c] # 0 /\ \A spot \in (c + 1)..8 : digit[spot] = 0
    OBVIOUS
  <2>7. x = n
    BY <2>4, <2>5, <2>6
  <2>8. HexNotation(num) = [p \in 1..x |-> kHexDigits[digit[x + 1 - p] + 1]]
    BY <2>1, <2>6 DEF HexNotation
  <2>9. \A p \in 1..n : digit[n + 1 - p] = HexDigit(num, n + 1 - p)
    <3> TAKE p \in 1..n
    <3>1. n + 1 - p \in 1..8
      OBVIOUS
    <3> QED BY <2>2, <3>1
  <2> QED BY <2>7, <2>8, <2>9 DEF Spelled
<1> QED BY <1>1, <1>6, <1>7

(* A number in decimal notation, with or without its sign.                 *)
LEMMA CharactersOf ==
  ASSUME NEW d \in Seq(0..9)
  PROVE  /\ Characters(d) \in Chars
         /\ Characters(<<Minus>> \o d) = <<"-">> \o Characters(d)
         /\ <<"-">> \o Characters(d) \in Chars
<1>0. PICK n \in Nat : n = Len(d)
  BY LenProperties
<1>1. PICK S : S = STRING
  OBVIOUS
<1>2. \A p \in 1..n : d[p] \in 0..9 /\ d[p] # Minus
  <2>1. \A p \in 1..n : d[p] \in 0..9
    BY <1>0, ElementOfSeq
  <2> QED BY <2>1 DEF Minus
<1>3. PICK c : c = [p \in 1..n |-> Digits[d[p] + 1]]
  OBVIOUS
<1>4. Characters(d) = c
  BY <1>0, <1>2, <1>3 DEF Characters
<1>5. \A p \in 1..n : Digits[d[p] + 1] \in S
  BY <1>1, <1>2, DigitCharacter
<1>6. c \in Seq(S) /\ Len(c) = n /\ \A p \in 1..n : c[p] = Digits[d[p] + 1]
  BY <1>3, <1>5
<1>7. PICK e : e = <<Minus>> \o d
  OBVIOUS
<1>8. /\ Len(e) = n + 1 /\ e[1] = Minus
      /\ \A p \in 2..(n + 1) : e[p] = d[p - 1]
  <2>1. <<Minus>> \in Seq(0..10) /\ Len(<<Minus>>) = 1 /\ <<Minus>>[1] = Minus
    BY DEF Minus
  <2>2. d \in Seq(0..10)
    OBVIOUS
  <2>3. PICK one \in Seq(0..10) : one = <<Minus>>
    BY <2>1
  <2>4. /\ Len(one \o d) = Len(one) + Len(d)
        /\ \A i \in 1..(Len(one) + Len(d)) : (one \o d)[i] = IF i <= Len(one) THEN one[i] ELSE d[i - Len(one)]
    BY <2>2, ConcatProperties
  <2>5. Len(e) = 1 + n /\ \A i \in 1..(1 + n) : e[i] = IF i <= 1 THEN one[i] ELSE d[i - 1]
    BY <1>0, <1>7, <2>1, <2>3, <2>4
  <2> QED BY <2>1, <2>3, <2>5
<1>9. PICK g : g = <<"-">> \o c
  OBVIOUS
<1>10. /\ g \in Seq(S) /\ Len(g) = n + 1 /\ g[1] = "-"
       /\ \A p \in 2..(n + 1) : g[p] = c[p - 1]
  <2>1. "-" \in S
    BY <1>1, SubstitutionAssumption DEF OwnCharacters
  <2>2. PICK s \in S : s = "-"
    BY <2>1
  <2>3. <<s>> \in Seq(S) /\ Len(<<s>>) = 1 /\ <<s>>[1] = s
    OBVIOUS
  <2>4. PICK one \in Seq(S) : one = <<s>>
    BY <2>3
  <2>5. c \in Seq(S)
    BY <1>6
  <2>6. /\ one \o c \in Seq(S) /\ Len(one \o c) = Len(one) + Len(c)
        /\ \A i \in 1..(Len(one) + Len(c)) : (one \o c)[i] = IF i <= Len(one) THEN one[i] ELSE c[i - Len(one)]
    BY <2>5, ConcatProperties
  <2>7. g = one \o c
    BY <1>9, <2>2, <2>4
  <2>8. g \in Seq(S) /\ Len(g) = 1 + n /\ \A i \in 1..(1 + n) : g[i] = IF i <= 1 THEN one[i] ELSE c[i - 1]
    BY <1>6, <2>3, <2>4, <2>6, <2>7
  <2> QED BY <2>2, <2>3, <2>4, <2>8
<1>11. Characters(e) = g
  <2>1. Characters(e) = [p \in 1..(n + 1) |-> IF e[p] = Minus THEN "-" ELSE Digits[e[p] + 1]]
    BY <1>8 DEF Characters
  <2>2. ASSUME NEW p \in 1..(n + 1) PROVE (IF e[p] = Minus THEN "-" ELSE Digits[e[p] + 1]) = g[p]
    <3>1. CASE p = 1
      BY <1>8, <1>10, <3>1
    <3>2. CASE p # 1
      <4>1. p \in 2..(n + 1) /\ p - 1 \in 1..n
        BY <3>2
      <4>2. e[p] = d[p - 1] /\ g[p] = c[p - 1]
        BY <1>8, <1>10, <4>1
      <4> QED BY <1>2, <1>6, <4>1, <4>2
    <3> QED BY <3>1, <3>2
  <2>3. g = [p \in 1..(n + 1) |-> g[p]]
    BY <1>10
  <2> QED BY <2>1, <2>2, <2>3
<1>12. c \in Chars /\ g \in Chars
  BY <1>1, <1>6, <1>10 DEF Chars
<1> QED BY <1>4, <1>7, <1>9, <1>11, <1>12

(* The characters that pointers are written with are texts.                *)
LEMMA TextsOfPointers ==
  /\ <<"N", "U", "L", "L">> \in Chars
  /\ <<"0", "x">> \in Chars
<1>1. PICK S : S = STRING
  OBVIOUS
<1>2. "N" \in S /\ "U" \in S /\ "L" \in S /\ "0" \in S /\ "x" \in S
  BY <1>1, SubstitutionAssumption DEF OwnCharacters
<1>3. PICK a \in S, b \in S, c \in S, d \in S, e \in S : a = "N" /\ b = "U" /\ c = "L" /\ d = "0" /\ e = "x"
  BY <1>2
<1>4. <<a, b, c, c>> \in Seq(S) /\ <<d, e>> \in Seq(S)
  OBVIOUS
<1> QED BY <1>1, <1>3, <1>4 DEF Chars

(* The text that SubstituteArg makes of a value is its notation.           *)
LEMMA ArgumentIs ==
  ASSUME NEW value, ArgumentValue(value)
  PROVE  SubstituteArg(value) = Notation(value) /\ SubstituteArg(value) \in Chars
<1>1. CASE value \in [type : {"text"}, text : Seq(STRING)]
  <2>1. value.type = "text" /\ value.text \in Chars
    BY <1>1 DEF Chars
  <2>2. SubstituteArg(value) = value.text /\ Notation(value) = SubstituteArg(value)
    BY <2>1 DEF SubstituteArg, Notation
  <2> QED BY <2>1, <2>2
<1>2. CASE value \in [type : {"null"}]
  <2>1. value.type = "null"
    BY <1>2
  <2>2. SubstituteArg(value) = <<>> /\ Notation(value) = SubstituteArg(value)
    BY <2>1 DEF SubstituteArg, Notation
  <2> QED BY <2>2 DEF Chars
<1>3. CASE value \in [type : {"char"}, char : STRING]
  <2>1. value.type = "char" /\ value.char \in STRING
    BY <1>3
  <2>2. SubstituteArg(value) = <<value.char>> /\ Notation(value) = SubstituteArg(value)
    BY <2>1 DEF SubstituteArg, Notation
  <2> QED BY <2>1, <2>2, OneCharacter
<1>4. CASE /\ value \in [type : {"int", "uint"}, negative : BOOLEAN, magnitude : [hi : Nat, lo : Nat]]
           /\ UInt32(value.magnitude)
           /\ value.type = "uint" => ~value.negative
  <2>1. PICK u : u = value.magnitude
    OBVIOUS
  <2>2. u.hi \in Nat /\ u.lo \in Nat /\ u.lo < Split /\ u.hi <= 99
    <3>1. UInt32(u)
      BY <1>4, <2>1
    <3>2. UINT32_MAX.hi = 42
      BY DEF UINT32_MAX
    <3>3. u.hi \in Nat /\ u.lo \in Nat /\ u.lo < Split
      BY <3>1 DEF UInt32
    <3>4. u.hi < UINT32_MAX.hi \/ u.hi = UINT32_MAX.hi
      BY <3>1 DEF UInt32
    <3> QED BY <3>2, <3>3, <3>4
  <2>3. PICK d \in Seq(0..9) : d = Decimal(u)
    BY <2>2, DecimalDigits
  <2>4. FastUInt32ToBufferLeft(u) = d
    BY <2>2, <2>3, WritesDecimal
  <2>5. /\ Characters(d) \in Chars
        /\ Characters(<<Minus>> \o d) = <<"-">> \o Characters(d)
        /\ <<"-">> \o Characters(d) \in Chars
    BY CharactersOf
  <2>6. <<>> \o d = d /\ <<>> \o Characters(d) = Characters(d)
    <3>1. \A s \in Chars : <<>> \o s = s
      BY DEF Chars
    <3> QED BY <2>5, <3>1
  <2>7. PICK negative \in BOOLEAN : negative = value.negative
    BY <1>4
  <2>8. FastInt32ToBufferLeft(negative, u) = IF negative THEN <<Minus>> \o d ELSE d
    BY <2>4, <2>6 DEF FastInt32ToBufferLeft
  <2>9. value.type \in {"int", "uint"}
    BY <1>4
  <2>10. Notation(value) = (IF negative THEN <<"-">> ELSE <<>>) \o Characters(d)
    BY <2>1, <2>3, <2>7, <2>9 DEF Notation
  <2>11. Notation(value) = IF negative THEN <<"-">> \o Characters(d) ELSE Characters(d)
    BY <2>6, <2>10
  <2>12. CASE value.type = "int"
    <3>1. SubstituteArg(value) = Characters(FastInt32ToBufferLeft(negative, u))
      BY <2>1, <2>7, <2>12 DEF SubstituteArg
    <3>2. CASE negative
      <4>1. SubstituteArg(value) = <<"-">> \o Characters(d)
        BY <2>5, <2>8, <3>1, <3>2
      <4> QED BY <2>5, <2>11, <3>2, <4>1
    <3>3. CASE ~negative
      BY <2>5, <2>8, <2>11, <3>1, <3>3
    <3> QED BY <3>2, <3>3
  <2>13. CASE value.type = "uint"
    <3>1. SubstituteArg(value) = Characters(d)
      BY <2>1, <2>4, <2>13 DEF SubstituteArg
    <3>2. ~negative
      BY <1>4, <2>7, <2>13
    <3> QED BY <2>5, <2>11, <3>1, <3>2
  <2> QED BY <2>9, <2>12, <2>13
<1>5. CASE value \in [type : {"pointer"}, address : Nat] /\ value.address \div Unit16[8] < 16
  <2>1. PICK a \in Nat : a = value.address
    BY <1>5
  <2>2. value.type = "pointer" /\ a \div Unit16[8] < 16
    BY <1>5, <2>1
  <2>3. CASE a = 0
    <3>1. SubstituteArg(value) = <<"N", "U", "L", "L">> /\ Notation(value) = <<"N", "U", "L", "L">>
      BY <2>1, <2>2, <2>3 DEF SubstituteArg, Notation
    <3> QED BY <3>1, TextsOfPointers
  <2>4. CASE a # 0
    <3>1. PICK h \in Chars : h = HexText(a) /\ h = HexNotation(a)
      BY <2>2, <2>4, HexIs
    <3>2. SubstituteArg(value) = Cat(<<"0", "x">>, h) /\ Notation(value) = Cat(<<"0", "x">>, h)
      BY <2>1, <2>2, <2>4, <3>1 DEF SubstituteArg, Notation, Cat
    <3> QED BY <3>2, TextsOfPointers, CatAt
  <2> QED BY <2>3, <2>4
<1> QED BY <1>1, <1>2, <1>3, <1>4, <1>5 DEF ArgumentValue

(* What comes of a format, given some of the values and of no other.       *)
LEMMA Substituted ==
  ASSUME NEW tokens \in Seq(Token), NEW values, NEW given \in GivenArguments,
         \A k \in 0..9 : given[k] # NoArg => k \in DOMAIN values /\ given[k] = SubstituteArg(values[k]),
         \A k \in DOMAIN values : ArgumentValue(values[k])
  PROVE  /\ (\A k \in Uses(tokens) : given[k] # NoArg) =>
              /\ Meaning(tokens, values) \in Chars
              /\ \A output \in Chars :
                   SubstituteAndAppend(output, Format(tokens), given) = output \o Meaning(tokens, values)
         /\ (\E k \in Uses(tokens) : given[k] = NoArg) =>
              SubstituteAndAppend(<<>>, Format(tokens), given) = LengthError
<1>0. PICK n \in Nat : n = Len(tokens)
  BY LenProperties
<1>1. PICK v : v = [i \in 1..Len(tokens) |-> ValueIn(tokens[i], given)]
  OBVIOUS
<1>2. PICK m : m = [i \in 1..Len(tokens) |->
                      IF tokens[i][1] = "argument" THEN Notation(values[tokens[i][2]]) ELSE <<tokens[i][2]>>]
  OBVIOUS
<1>3. PICK size, text : size = SubstitutedSize(Format(tokens), given) /\ text = SubstituteToBuffer(Format(tokens), given)
  OBVIOUS
<1>4. /\ v \in Seq(Chars) => size \in Nat /\ text = FlattenSeq(v)
      /\ (\E i \in 1..Len(tokens) : v[i] = NoArg) => size = -1
  BY <1>1, <1>3, TokensScanned
<1>5. Meaning(tokens, values) = FlattenSeq(m)
  BY <1>2 DEF Meaning
<1>6. \A i \in 1..n : tokens[i] \in Token
  BY <1>0, ElementOfSeq
<1>7. ASSUME NEW k, k \in Uses(tokens)
      PROVE  \E i \in 1..n : tokens[i][1] = "argument" /\ tokens[i][2] = k
  BY <1>0, <1>7 DEF Uses
<1>8. ASSUME NEW i \in 1..n, tokens[i][1] = "argument"
      PROVE  tokens[i][2] \in Uses(tokens) /\ tokens[i][2] \in 0..9
  <2>1. tokens[i][2] \in Uses(tokens)
    BY <1>0, <1>8 DEF Uses
  <2>2. PICK token \in Token : token = tokens[i]
    BY <1>6
  <2>3. token[2] \in 0..9
    BY <1>8, <2>2, TokenIs
  <2> QED BY <2>1, <2>2, <2>3
<1>9. ASSUME \A k \in Uses(tokens) : given[k] # NoArg
      PROVE  /\ Meaning(tokens, values) \in Chars
             /\ \A output \in Chars :
                  SubstituteAndAppend(output, Format(tokens), given) = output \o Meaning(tokens, values)
  <2>1. ASSUME NEW i \in 1..n PROVE v[i] = m[i] /\ v[i] \in Chars
    <3>1. PICK token \in Token : token = tokens[i]
      BY <1>6
    <3>2. v[i] = ValueIn(token, given)
      BY <1>0, <1>1, <3>1
    <3>3. m[i] = IF token[1] = "argument" THEN Notation(values[token[2]]) ELSE <<token[2]>>
      BY <1>0, <1>2, <3>1
    <3>4. CASE token[1] = "argument"
      <4>1. PICK k \in 0..9 : k = token[2] /\ k \in Uses(tokens)
        BY <1>8, <3>1, <3>4
      <4>2. given[k] # NoArg
        BY <1>9, <4>1
      <4>3. k \in DOMAIN values /\ given[k] = SubstituteArg(values[k])
        BY <4>2
      <4>4. PICK value : value = values[k]
        OBVIOUS
      <4>5. ArgumentValue(value)
        BY <4>3, <4>4
      <4>6. SubstituteArg(value) = Notation(value) /\ SubstituteArg(value) \in Chars
        BY <4>5, ArgumentIs
      <4>7. v[i] = given[k] /\ m[i] = Notation(value)
        BY <3>2, <3>3, <3>4, <4>1, <4>4 DEF ValueIn
      <4> QED BY <4>3, <4>4, <4>6, <4>7
    <3>5. CASE token[1] # "argument"
      <4>1. PICK c \in STRING : c = token[2]
        BY <3>5, TokenIs
      <4>2. v[i] = <<c>> /\ m[i] = <<c>>
        BY <3>2, <3>3, <3>5, <4>1 DEF ValueIn
      <4>3. <<c>> \in Chars
        BY OneCharacter
      <4> QED BY <4>2, <4>3
    <3> QED BY <3>4, <3>5
  <2>2. v = [i \in 1..n |-> v[i]] /\ m = [i \in 1..n |-> m[i]]
    <3>1. v = [i \in 1..n |-> v[i]]
      BY <1>0, <1>1
    <3>2. m = [i \in 1..n |-> m[i]]
      BY <1>0, <1>2
    <3> QED BY <3>1, <3>2
  <2>3. v = m
    BY <2>1, <2>2
  <2>4. v \in Seq(Chars)
    <3>1. PICK C : C = Chars
      OBVIOUS
    <3>2. v \in [1..n -> C]
      BY <2>1, <2>2, <3>1
    <3>3. v \in Seq(C)
      BY <3>2
    <3> QED BY <3>1, <3>3
  <2>5. size \in Nat /\ text = Meaning(tokens, values)
    BY <1>4, <1>5, <2>3, <2>4
  <2>6. Meaning(tokens, values) \in Chars
    <3>1. PICK f : FlattenSeq(v) = f[Len(v)] /\ Joins(f, v)
      BY <2>4, FlattenedIs
    <3>2. Len(v) \in Nat
      BY <2>4, LenProperties
    <3>3. f[Len(v)] \in Chars
      BY <3>1, <3>2 DEF Joins
    <3> QED BY <1>5, <2>3, <3>1, <3>3
  <2>7. ASSUME NEW output \in Chars
        PROVE  SubstituteAndAppend(output, Format(tokens), given) = output \o Meaning(tokens, values)
    <3>1. size >= 0 /\ size # -1
      BY <2>5
    <3>2. SubstituteAndAppend(output, Format(tokens), given) = output \o text
      BY <1>3, <3>1 DEF SubstituteAndAppend
    <3> QED BY <2>5, <3>2
  <2> QED BY <2>6, <2>7
<1>10. ASSUME NEW k \in Uses(tokens), given[k] = NoArg
       PROVE  SubstituteAndAppend(<<>>, Format(tokens), given) = LengthError
  <2>1. PICK i \in 1..n : tokens[i][1] = "argument" /\ tokens[i][2] = k
    BY <1>7
  <2>2. v[i] = NoArg
    BY <1>0, <1>1, <1>10, <2>1 DEF ValueIn
  <2>3. size = -1
    BY <1>0, <1>4, <2>2
  <2> QED BY <1>3, <2>3 DEF SubstituteAndAppend
<1> QED BY <1>9, <1>10

(* substitute.cc and .h, for any format written by its rules and any       *)
(* values: the result is what is meant.                                    *)
LEMMA FormatsMean ==
  ASSUME NEW tokens \in Seq(Token), NEW values, DOMAIN values \subseteq 0..9,
         \A k \in DOMAIN values : ArgumentValue(values[k])
  PROVE  MeansWhatItSays(tokens, values)
<1>1. PICK args : args = [k \in 0..9 |-> IF k \in DOMAIN values THEN SubstituteArg(values[k]) ELSE NoArg]
  OBVIOUS
<1>2. ASSUME NEW k \in DOMAIN values PROVE SubstituteArg(values[k]) \in Chars /\ SubstituteArg(values[k]) # NoArg
  <2>1. PICK value : value = values[k]
    OBVIOUS
  <2>2. ArgumentValue(value)
    BY <2>1
  <2>3. SubstituteArg(value) \in Chars
    BY <2>2, ArgumentIs
  <2> QED BY <2>1, <2>3, NoneGiven
<1>3. \A k \in 0..9 : args[k] = IF k \in DOMAIN values THEN SubstituteArg(values[k]) ELSE NoArg
  BY <1>1
<1>4. args \in GivenArguments
  <2>1. \A k \in 0..9 : (IF k \in DOMAIN values THEN SubstituteArg(values[k]) ELSE NoArg) \in Chars \cup {NoArg}
    BY <1>2
  <2> QED BY <1>1, <2>1 DEF GivenArguments
<1>5. PICK passed : passed = Passed(args)
  OBVIOUS
<1>6. \A k \in 0..9 : passed[k] = IF k < 4 THEN args[k] ELSE NoArg
  BY <1>5 DEF Passed
<1>7. passed \in GivenArguments
  <2>1. \A k \in 0..9 : (IF k < 4 THEN args[k] ELSE NoArg) \in Chars \cup {NoArg}
    BY <1>4 DEF GivenArguments
  <2> QED BY <1>5, <2>1 DEF GivenArguments, Passed
<1>8. Uses(tokens) \subseteq 0..9
  <2> SUFFICES ASSUME NEW k \in Uses(tokens) PROVE k \in 0..9
    OBVIOUS
  <2>1. PICK i \in 1..Len(tokens) : tokens[i][1] = "argument" /\ k = tokens[i][2]
    BY DEF Uses
  <2>2. PICK token \in Token : token = tokens[i]
    BY ElementOfSeq
  <2>3. token[2] \in 0..9
    BY <2>1, <2>2, TokenIs
  <2> QED BY <2>1, <2>2, <2>3
<1>9. ASSUME Uses(tokens) \subseteq DOMAIN values, NEW output \in {<<>>, <<Dollar>>}
      PROVE  SubstituteAndAppend(output, Format(tokens), args) = output \o Meaning(tokens, values)
  <2>1. \A k \in Uses(tokens) : args[k] # NoArg
    BY <1>2, <1>3, <1>8, <1>9
  <2>2. output \in Chars
    <3>1. <<>> \in Chars
      BY DEF Chars
    <3>2. Dollar \in STRING
      BY SubstitutionAssumption
    <3>3. <<Dollar>> \in Chars
      BY <3>2, OneCharacter
    <3> QED BY <3>1, <3>3
  <2>3. \A k \in 0..9 : args[k] # NoArg => k \in DOMAIN values /\ args[k] = SubstituteArg(values[k])
    BY <1>3
  <2>4. \A o \in Chars : SubstituteAndAppend(o, Format(tokens), args) = o \o Meaning(tokens, values)
    BY <1>4, <2>1, <2>3, Substituted
  <2> QED BY <2>2, <2>4
<1>10. Substitute(Format(tokens), args) =
         IF Uses(tokens) \subseteq (0..3) \cap DOMAIN values THEN Meaning(tokens, values) ELSE LengthError
  <2>1. Substitute(Format(tokens), args) = SubstituteAndAppend(<<>>, Format(tokens), passed)
    BY <1>5 DEF Substitute
  <2>2. \A k \in 0..9 : passed[k] # NoArg => k \in DOMAIN values /\ passed[k] = SubstituteArg(values[k])
    BY <1>3, <1>6
  <2>3. CASE Uses(tokens) \subseteq (0..3) \cap DOMAIN values
    <3>1. \A k \in Uses(tokens) : passed[k] # NoArg
      BY <1>2, <1>3, <1>6, <1>8, <2>3
    <3>2. /\ Meaning(tokens, values) \in Chars
          /\ \A o \in Chars : SubstituteAndAppend(o, Format(tokens), passed) = o \o Meaning(tokens, values)
      BY <1>7, <2>2, <3>1, Substituted
    <3>3. <<>> \in Chars /\ \A s \in Chars : <<>> \o s = s
      BY DEF Chars
    <3> QED BY <2>1, <2>3, <3>2, <3>3
  <2>4. CASE ~(Uses(tokens) \subseteq (0..3) \cap DOMAIN values)
    <3>1. PICK k \in Uses(tokens) : ~(k \in 0..3 /\ k \in DOMAIN values)
      BY <2>4
    <3>2. k \in 0..9
      BY <1>8
    <3>3. passed[k] = NoArg
      BY <1>3, <1>6, <3>1, <3>2
    <3>4. \E l \in Uses(tokens) : passed[l] = NoArg
      BY <3>3
    <3>5. SubstituteAndAppend(<<>>, Format(tokens), passed) = LengthError
      BY <1>7, <2>2, <3>4, Substituted
    <3> QED BY <2>1, <2>4, <3>5
  <2> QED BY <2>3, <2>4
<1> QED BY <1>1, <1>9, <1>10 DEF MeansWhatItSays

------------------------------------------------------------------------------
(* One call of a conversion                                                *)

(* What is called is called with one of the inputs.                        *)
CallOK ==
  \/ call = <<"nothing">>
  \/ \E in \in Texts, before \in Befores : call = <<"encode", in, before>>
  \/ \E in \in Symbols64, before \in Befores : call = <<"decode", in, before>>
  \/ \E u \in Numbers32 : call = <<"number", u>>
  \/ \E name \in NameInputs : call = <<"name", name>>
  \/ \E format \in Formats, args \in ArgumentLists : call = <<"format", format, args>>
  \/ \E tokens \in TokenLists, values \in ValueLists : call = <<"tokens", tokens, values>>

(* Calls are made with the inputs only.                                    *)
LEMMA CallStays == ConvSpec => []CallOK
<1>1. ConvInit => CallOK
  BY DEF ConvInit, CallOK
<1>2. CallOK /\ [ConvNext]_call => CallOK'
  <2>1. CASE UNCHANGED call
    BY <2>1 DEF CallOK
  <2>2. CASE ConvNext
    BY <2>2 DEF ConvNext, Encoding, Decoding, Numbering, Checking, Scanning, Substituting, CallOK
  <2> QED BY <2>1, <2>2
<1> QED BY <1>1, <1>2, PTL DEF ConvSpec

(* tuple/base64.h, for any inputs: every text of bytes that is not empty   *)
(* comes back from its encoding, padded or stripped, and Decode fills just *)
(* the room DecodedLength asks for.                                        *)
THEOREM ConversionsRoundTrip == ConvSpec => []RoundTrips
<1>1. CallOK => RoundTrips
  <2> SUFFICES ASSUME CallOK PROVE RoundTrips
    OBVIOUS
  <2>1. ASSUME Is("encode") PROVE RoundTrip(call[2], call[3])
    <3>1. PICK in \in Texts, before \in Befores : call = <<"encode", in, before>>
      BY <2>1 DEF CallOK, Is
    <3>2. in \in Seq(Byte) /\ in # <<>> /\ before \in Nat
      BY InputsAssumption
    <3>3. RoundTrip(in, before)
      BY <3>2, RoundTripHolds
    <3> QED BY <3>1, <3>3
  <2>2. ASSUME Is("decode") PROVE FillsTheRoom(call[2], call[3])
    <3>1. PICK in \in Symbols64, before \in Befores : call = <<"decode", in, before>>
      BY <2>2 DEF CallOK, Is
    <3>2. in \in Seq((0..255) \ {Pad}) /\ in # <<>> /\ before \in Nat
      BY InputsAssumption DEF Byte
    <3>3. FillsTheRoom(in, before)
      BY <3>2, RoomIsFilled
    <3> QED BY <3>1, <3>3
  <2> QED BY <2>1, <2>2 DEF RoundTrips
<1> QED BY <1>1, CallStays, PTL

(* util/number.cc, for every number of 32 bits, signed or not: what is     *)
(* written is its decimal notation.                                        *)
THEOREM ConversionsWrittenInDecimal == ConvSpec => []WrittenInDecimal
<1>1. CallOK => WrittenInDecimal
  <2> SUFFICES ASSUME CallOK, Is("number") PROVE IsDecimal(call[2])
    BY DEF WrittenInDecimal
  <2>1. PICK u \in Numbers32 : call = <<"number", u>>
    BY DEF CallOK, Is
  <2>2. UInt32(u)
    BY InputsAssumption
  <2>3. UINT32_MAX.hi = 42
    BY DEF UINT32_MAX
  <2>4. u.hi \in Nat /\ u.lo \in Nat /\ u.lo < Split
    BY <2>2 DEF UInt32
  <2>5. u.hi <= 99
    <3>1. u.hi < UINT32_MAX.hi \/ u.hi = UINT32_MAX.hi
      BY <2>2 DEF UInt32
    <3> QED BY <2>3, <2>4, <3>1
  <2>6. IsDecimal(u)
    BY <2>4, <2>5, IsDecimalHolds
  <2> QED BY <2>1, <2>6
<1> QED BY <1>1, CallStays, PTL

(* prometheus/check_names.cc, for names of any length over any characters: *)
(* the checks accept what the patterns in their comments do, but for the   *)
(* names that begin with two underscores.                                  *)
THEOREM ConversionsNamesChecked == ConvSpec => []NamesChecked
<1>1. CallOK => NamesChecked
  <2> SUFFICES ASSUME CallOK, Is("name") PROVE PatternsButReserved(call[2])
    BY DEF NamesChecked
  <2>1. PICK name \in NameInputs : call = <<"name", name>>
    BY DEF CallOK, Is
  <2>2. name \in Seq(STRING)
    BY InputsAssumption
  <2>3. PatternsButReserved(name)
    BY <2>2, NamesMatch
  <2> QED BY <2>1, <2>3
<1> QED BY <1>1, CallStays, PTL

(* util/substitute.cc, for formats of any length and any arguments: the    *)
(* second pass fills just the room that the first asked for, and a format  *)
(* that is written by its rules stands for what is meant, any argument     *)
(* that is missing or not passed on for an error.                          *)
THEOREM ConversionsSubstituteMeansIt == ConvSpec => []SubstituteMeansIt
<1>1. CallOK => SubstituteMeansIt
  <2> SUFFICES ASSUME CallOK PROVE SubstituteMeansIt
    OBVIOUS
  <2>1. ASSUME Is("format") PROVE PassesAgree(call[2], call[3])
    <3>1. PICK format \in Formats, args \in ArgumentLists : call = <<"format", format, args>>
      BY <2>1 DEF CallOK, Is
    <3>2. format \in Seq(STRING) /\ args \in GivenArguments
      BY FormatsAssumption DEF GivenArguments, Chars
    <3>3. PassesAgree(format, args)
      BY <3>2, PassesAlwaysAgree
    <3> QED BY <3>1, <3>3
  <2>2. ASSUME Is("tokens") PROVE MeansWhatItSays(call[2], call[3])
    <3>1. PICK tokens \in TokenLists, values \in ValueLists : call = <<"tokens", tokens, values>>
      BY <2>2 DEF CallOK, Is
    <3>2. tokens \in Seq(Token)
      BY FormatsAssumption
    <3>3. DOMAIN values \subseteq 0..9 /\ \A k \in DOMAIN values : ArgumentValue(values[k])
      BY FormatsAssumption
    <3>4. MeansWhatItSays(tokens, values)
      BY <3>2, <3>3, FormatsMean
    <3> QED BY <3>1, <3>4
  <2> QED BY <2>1, <2>2 DEF SubstituteMeansIt
<1> QED BY <1>1, CallStays, PTL
==============================================================================
