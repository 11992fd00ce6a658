--------------------------- MODULE WsSenderProofs ---------------------------
(***************************************************************************)
(* Facts about the queues of WsSender that the proofs about TcpDownFlow    *)
(* and TcpUpFlow share: what a write and the end of a batch do to a        *)
(* sender, how its data frames are counted, and what it means that the     *)
(* chunks of a stream are in order in a queue of frames.                   *)
(***************************************************************************)
EXTENDS WsSender, FiniteSetTheorems, SequenceTheorems, WellFoundedInduction, TLAPS

SenderOf(F) == [sending : Seq(F), waiting : Seq(F)]

\* nothing waits behind an empty batch
NoIdleWaiting(out) == out.sending = <<>> => out.waiting = <<>>

\* all that is written and not yet in the kernel, in order
Held(out) == out.sending \o out.waiting

Places(q, M) == {i \in 1..Len(q) : q[i] \in M}

-----------------------------------------------------------------------------
(* Induction on the natural numbers, by the least counterexample.          *)

\* A well-founded relation has a minimal element in every non-empty set.
LEMMA MinOf ==
  ASSUME NEW R, IsWellFoundedOn(R, Nat), NEW T \in SUBSET Nat, T # {}
  PROVE  \E x \in T : \A y \in T : ~ (<<y, x>> \in R)
BY WFMin

\* A non-empty set of natural numbers has a least one.
LEMMA LeastNat ==
  ASSUME NEW T \in SUBSET Nat, T # {}
  PROVE  \E x \in T : \A y \in T : x <= y
<1> DEFINE R == OpToRel(<, Nat)
<1>1. IsWellFoundedOn(R, Nat)
  BY NatLessThanWellFounded
<1>2. \A x, y \in Nat : y < x => <<y, x>> \in R
  BY DEF OpToRel
<1> HIDE DEF R
<1>3. PICK x \in T : \A y \in T : ~ (<<y, x>> \in R)
  BY <1>1, MinOf
<1>4. \A y \in T : ~ (y < x)
  BY <1>2, <1>3
<1> QED
  BY <1>4

\* A set of natural numbers that holds 0, and k + 1 with every k < n it holds,
\* holds every number up to n.
LEMMA InductionUpTo ==
  ASSUME NEW n \in Nat, NEW S, 0 \in S,
         \A k \in 0..n : k < n /\ k \in S => k + 1 \in S
  PROVE  0..n \subseteq S
<1> SUFFICES ASSUME NEW m \in 0..n, m \notin S PROVE FALSE
  OBVIOUS
<1> DEFINE T == {k \in 0..n : k \notin S}
<1>1. T \in SUBSET Nat /\ T # {}
  OBVIOUS
<1>2. PICK x \in T : \A y \in T : x <= y
  <2> HIDE DEF T
  <2> QED BY <1>1, LeastNat
<1>3. x \in 0..n /\ x # 0
  OBVIOUS
<1>4. x - 1 \in 0..n /\ x - 1 < n /\ x - 1 \in S
  BY <1>2, <1>3
<1>5. (x - 1) + 1 \in S
  BY <1>4
<1> QED
  BY <1>5, <1>3

-----------------------------------------------------------------------------
(* The places of a kind of frames in a queue.                              *)

\* There are finitely many.
LEMMA PlacesFinite ==
  ASSUME NEW F, NEW q \in Seq(F), NEW M
  PROVE  IsFiniteSet(Places(q, M)) /\ Cardinality(Places(q, M)) \in Nat
<1>1. IsFiniteSet(1..Len(q))
  BY FS_Interval
<1>2. Places(q, M) \subseteq 1..Len(q)
  BY DEF Places
<1> QED
  BY <1>1, <1>2, FS_Subset, FS_CardinalityType

LEMMA PlacesEmpty ==
  ASSUME NEW M
  PROVE  Places(<<>>, M) = {} /\ Cardinality(Places(<<>>, M)) = 0
BY FS_EmptySet DEF Places

\* Appending a frame adds a place if the frame is of the kind.
LEMMA PlacesAppend ==
  ASSUME NEW F, NEW q \in Seq(F), NEW f \in F, NEW M
  PROVE  Cardinality(Places(Append(q, f), M)) =
            Cardinality(Places(q, M)) + (IF f \in M THEN 1 ELSE 0)
<1>1. Len(Append(q, f)) = Len(q) + 1 /\ Append(q, f)[Len(q) + 1] = f
      /\ \A i \in 1..Len(q) : Append(q, f)[i] = q[i]
  OBVIOUS
<1>2. IsFiniteSet(Places(q, M)) /\ Cardinality(Places(q, M)) \in Nat
  BY PlacesFinite
<1>5. Len(q) + 1 \notin Places(q, M)
  BY DEF Places
<1>3. CASE f \in M
  <2>1. Places(Append(q, f), M) = Places(q, M) \cup {Len(q) + 1}
    BY <1>1, <1>3 DEF Places
  <2> QED
    BY <2>1, <1>2, <1>3, <1>5, FS_AddElement
<1>4. CASE f \notin M
  <2>1. Places(Append(q, f), M) = Places(q, M)
    BY <1>1, <1>4 DEF Places
  <2> QED
    BY <2>1, <1>2, <1>4
<1> QED
  BY <1>3, <1>4

\* The data frames are a kind,
LEMMA DataInPlaces ==
  ASSUME NEW F, NEW q \in Seq(F)
  PROVE  DataIn(q) = Places(q, {f \in F : IsData(f)})
<1>1. \A i \in 1..Len(q) : q[i] \in F
  OBVIOUS
<1> QED
  BY <1>1 DEF DataIn, Places

\* and those of one stream are another.
LEMMA DataOfPlaces ==
  ASSUME NEW F, NEW q \in Seq(F), NEW s
  PROVE  DataOf(q, s) = Places(q, {f \in F : IsData(f) /\ f.stream = s})
<1>1. \A i \in 1..Len(q) : q[i] \in F
  OBVIOUS
<1> QED
  BY <1>1 DEF DataIn, DataOf, Places

-----------------------------------------------------------------------------
(* Concatenation.                                                          *)

LEMMA Associative ==
  ASSUME NEW F
  PROVE  \A a, b, c \in Seq(F) : (a \o b) \o c = a \o (b \o c)
BY ConcatAssociative

LEMMA AppendToConcat ==
  ASSUME NEW F
  PROVE  \A a, b \in Seq(F) : \A f \in F : a \o Append(b, f) = Append(a \o b, f)
<1> TAKE a, b \in Seq(F)
<1> TAKE f \in F
<1>1. Append(b, f) = b \o <<f>>
  BY AppendIsConcat
<1>2. a \o b \in Seq(F) /\ <<f>> \in Seq(F)
  OBVIOUS
<1>3. Append(a \o b, f) = (a \o b) \o <<f>>
  BY <1>2, AppendIsConcat
<1>4. (a \o b) \o <<f>> = a \o (b \o <<f>>)
  BY <1>2, Associative
<1> QED
  BY <1>1, <1>2, <1>3, <1>4

-----------------------------------------------------------------------------
(* A sender.                                                               *)

\* A write appends to what is held.
LEMMA WriteAppends ==
  ASSUME NEW F, NEW out \in SenderOf(F), NEW f \in F, NoIdleWaiting(out)
  PROVE  /\ Write(out, f) \in SenderOf(F)
         /\ NoIdleWaiting(Write(out, f))
         /\ Held(Write(out, f)) = Append(Held(out), f)
<1>1. out.sending \in Seq(F) /\ out.waiting \in Seq(F)
  BY DEF SenderOf
<1>2. CASE out.sending = <<>>
  <2>1. out.waiting = <<>>
    BY <1>2 DEF NoIdleWaiting
  <2>2. Write(out, f) = [sending |-> <<f>>, waiting |-> <<>>]
    BY <1>2, <2>1 DEF Write, SenderOf
  <2> QED
    BY <2>1, <2>2, <1>2 DEF SenderOf, NoIdleWaiting, Held
<1>3. CASE out.sending # <<>>
  <2>1. Write(out, f) = [sending |-> out.sending, waiting |-> Append(out.waiting, f)]
    BY <1>3 DEF Write, SenderOf
  <2>2. out.sending \o Append(out.waiting, f) = Append(out.sending \o out.waiting, f)
    <3>1. \A a, b \in Seq(F) : \A g \in F : a \o Append(b, g) = Append(a \o b, g)
      BY AppendToConcat
    <3> QED
      BY <1>1, <3>1
  <2> QED
    BY <1>1, <1>3, <2>1, <2>2 DEF SenderOf, NoIdleWaiting, Held
<1> QED
  BY <1>2, <1>3

\* The end of a batch takes the batch from what is held.
LEMMA WrittenMoves ==
  ASSUME NEW F, NEW out \in SenderOf(F)
  PROVE  /\ Written(out) \in SenderOf(F)
         /\ NoIdleWaiting(Written(out))
         /\ out.sending \o Held(Written(out)) = Held(out)
<1>1. out.sending \in Seq(F) /\ out.waiting \in Seq(F)
  BY DEF SenderOf
<1>2. out.waiting \o <<>> = out.waiting
  BY <1>1
<1> QED
  BY <1>1, <1>2 DEF SenderOf, NoIdleWaiting, Held, Written

\* What bufferedAmount is after a write.
LEMMA WriteBuffers ==
  ASSUME NEW F, NEW out \in SenderOf(F), NEW f \in F, NoIdleWaiting(out)
  PROVE  /\ BufferedAmount(out) \in Nat
         /\ BufferedAmount(Write(out, f)) = BufferedAmount(out) + (IF IsData(f) THEN 1 ELSE 0)
<1> DEFINE M == {g \in F : IsData(g)}
           Count(q) == Cardinality(Places(q, M))
<1>1. out.sending \in Seq(F) /\ out.waiting \in Seq(F) /\ Write(out, f) \in SenderOf(F)
  BY WriteAppends DEF SenderOf
<1>2. Write(out, f).sending \in Seq(F) /\ Write(out, f).waiting \in Seq(F)
  BY <1>1 DEF SenderOf
<1>3. /\ BufferedAmount(out) = Count(out.sending) + Count(out.waiting)
      /\ BufferedAmount(Write(out, f)) = Count(Write(out, f).sending) + Count(Write(out, f).waiting)
  BY <1>1, <1>2, DataInPlaces DEF BufferedAmount
<1>4. Count(out.sending) \in Nat /\ Count(out.waiting) \in Nat
  BY <1>1, PlacesFinite
<1>5. f \in M <=> IsData(f)
  OBVIOUS
<1> HIDE DEF M
<1>6. CASE out.sending = <<>>
  <2>1. Write(out, f).sending = Append(<<>>, f) /\ Write(out, f).waiting = <<>> /\ out.waiting = <<>>
    BY <1>6 DEF Write, SenderOf, NoIdleWaiting
  <2>2. Count(Append(out.sending, f)) = Count(out.sending) + (IF f \in M THEN 1 ELSE 0)
    BY <1>1, PlacesAppend
  <2> QED
    BY <1>3, <1>4, <1>5, <1>6, <2>1, <2>2
<1>7. CASE out.sending # <<>>
  <2>1. Write(out, f).sending = out.sending /\ Write(out, f).waiting = Append(out.waiting, f)
    BY <1>7 DEF Write, SenderOf
  <2>2. Count(Append(out.waiting, f)) = Count(out.waiting) + (IF f \in M THEN 1 ELSE 0)
    BY <1>1, PlacesAppend
  <2> QED
    BY <1>3, <1>4, <1>5, <2>1, <2>2
<1> QED
  BY <1>6, <1>7

\* What bufferedAmount is after the end of a batch.
LEMMA WrittenBuffers ==
  ASSUME NEW F, NEW out \in SenderOf(F)
  PROVE  /\ BufferedAmount(Written(out)) \in Nat
         /\ BufferedAmount(Written(out)) <= BufferedAmount(out)
<1>1. out.sending \in Seq(F) /\ out.waiting \in Seq(F)
  BY DEF SenderOf
<1>3. \A q \in Seq(F) : Cardinality(DataIn(q)) \in Nat
  BY DataInPlaces, PlacesFinite
<1>4. DataIn(<<>>) = {}
  BY DEF DataIn
<1>2. /\ Cardinality(DataIn(out.sending)) \in Nat
      /\ Cardinality(DataIn(out.waiting)) \in Nat
      /\ Cardinality(DataIn(<<>>)) = 0
  BY <1>1, <1>3, <1>4, FS_EmptySet
<1> QED
  BY <1>2 DEF BufferedAmount, Written

\* The data frames of one stream that a sender holds.
HeldOf(out, s) == Cardinality(DataOf(out.sending, s)) + Cardinality(DataOf(out.waiting, s))

\* How many there are after a write and after the end of a batch.
LEMMA HeldOfWrite ==
  ASSUME NEW F, NEW out \in SenderOf(F), NEW f \in F, NoIdleWaiting(out), NEW s
  PROVE  HeldOf(Write(out, f), s) = HeldOf(out, s) + (IF IsData(f) /\ f.stream = s THEN 1 ELSE 0)
<1> DEFINE M == {g \in F : IsData(g) /\ g.stream = s}
           Count(q) == Cardinality(Places(q, M))
<1>1. out.sending \in Seq(F) /\ out.waiting \in Seq(F) /\ Write(out, f) \in SenderOf(F)
  BY WriteAppends DEF SenderOf
<1>2. Write(out, f).sending \in Seq(F) /\ Write(out, f).waiting \in Seq(F)
  BY <1>1 DEF SenderOf
<1>8. \A q \in Seq(F) : DataOf(q, s) = Places(q, M)
  BY DataOfPlaces
<1>3. /\ HeldOf(out, s) = Count(out.sending) + Count(out.waiting)
      /\ HeldOf(Write(out, f), s) = Count(Write(out, f).sending) + Count(Write(out, f).waiting)
  BY <1>1, <1>2, <1>8 DEF HeldOf
<1>4. Count(out.sending) \in Nat /\ Count(out.waiting) \in Nat
  BY <1>1, PlacesFinite
<1>5. f \in M <=> IsData(f) /\ f.stream = s
  OBVIOUS
<1> HIDE DEF M
<1>6. CASE out.sending = <<>>
  <2>1. Write(out, f).sending = Append(<<>>, f) /\ Write(out, f).waiting = <<>> /\ out.waiting = <<>>
    BY <1>6 DEF Write, SenderOf, NoIdleWaiting
  <2>2. Count(Append(out.sending, f)) = Count(out.sending) + (IF f \in M THEN 1 ELSE 0)
    BY <1>1, PlacesAppend
  <2> QED
    BY <1>3, <1>4, <1>5, <1>6, <2>1, <2>2
<1>7. CASE out.sending # <<>>
  <2>1. Write(out, f).sending = out.sending /\ Write(out, f).waiting = Append(out.waiting, f)
    BY <1>7 DEF Write, SenderOf
  <2>2. Count(Append(out.waiting, f)) = Count(out.waiting) + (IF f \in M THEN 1 ELSE 0)
    BY <1>1, PlacesAppend
  <2> QED
    BY <1>3, <1>4, <1>5, <2>1, <2>2
<1> QED
  BY <1>6, <1>7

LEMMA HeldOfWritten ==
  ASSUME NEW F, NEW out \in SenderOf(F), NEW s
  PROVE  /\ HeldOf(Written(out), s) = HeldOf(out, s) - Cardinality(DataOf(out.sending, s))
         /\ HeldOf(Written(out), s) \in Nat
         /\ HeldOf(out, s) \in Nat
         /\ Cardinality(DataOf(out.sending, s)) \in Nat
<1>1. out.sending \in Seq(F) /\ out.waiting \in Seq(F)
  BY DEF SenderOf
<1>3. ASSUME NEW q \in Seq(F) PROVE Cardinality(DataOf(q, s)) \in Nat
  <2>1. DataOf(q, s) = Places(q, {f \in F : IsData(f) /\ f.stream = s})
    BY DataOfPlaces
  <2> QED
    BY <2>1, PlacesFinite
<1>4. DataOf(<<>>, s) = {}
  BY DEF DataIn, DataOf
<1>2. /\ Cardinality(DataOf(out.sending, s)) \in Nat
      /\ Cardinality(DataOf(out.waiting, s)) \in Nat
      /\ Cardinality(DataOf(<<>>, s)) = 0
  BY <1>1, <1>3, <1>4, FS_EmptySet
<1> QED
  BY <1>2 DEF HeldOf, Written

-----------------------------------------------------------------------------
(* The chunks of a stream in a queue of frames.                            *)

\* they are lo + 1 to hi, in order
Carries(q, s, lo, hi) ==
    /\ lo <= hi
    /\ \A i \in DataOf(q, s) : lo < q[i].chunk /\ q[i].chunk <= hi
    /\ \A i, j \in DataOf(q, s) : i < j => q[i].chunk < q[j].chunk
    /\ \A n \in (lo + 1)..hi : \E i \in DataOf(q, s) : q[i].chunk = n

ChunksAreNumbers(F) == \A f \in F : IsData(f) => f.chunk \in Nat

\* A queue without data of a stream carries nothing of it.
LEMMA CarriesNone ==
  ASSUME NEW q, NEW s, NEW lo \in Nat, NEW hi \in Nat, DataOf(q, s) = {}
  PROVE  Carries(q, s, lo, hi) <=> lo = hi
<1>1. ASSUME Carries(q, s, lo, hi) PROVE lo = hi
  <2> SUFFICES ASSUME lo # hi PROVE FALSE
    OBVIOUS
  <2>1. hi \in (lo + 1)..hi
    BY <1>1 DEF Carries
  <2> QED
    BY <2>1, <1>1 DEF Carries
<1>2. ASSUME lo = hi PROVE Carries(q, s, lo, hi)
  BY <1>2 DEF Carries
<1> QED
  BY <1>1, <1>2

\* The places of data after a frame is appended, and after the first is taken.
AppendPlaces(q, f, s) ==
    /\ \A i \in DataOf(q, s) :
          i \in Nat /\ i <= Len(q) /\ i \in DataOf(Append(q, f), s) /\ Append(q, f)[i] = q[i]
    /\ \A i \in DataOf(Append(q, f), s) :
          \/ i \in DataOf(q, s)
          \/ i = Len(q) + 1 /\ IsData(f) /\ f.stream = s /\ Append(q, f)[i] = f
    /\ IsData(f) /\ f.stream = s =>
          Len(q) + 1 \in DataOf(Append(q, f), s) /\ Append(q, f)[Len(q) + 1] = f

LEMMA DataOfAppend ==
  ASSUME NEW F, NEW q \in Seq(F), NEW f \in F, NEW s
  PROVE  AppendPlaces(q, f, s)
<1>1. /\ Len(Append(q, f)) = Len(q) + 1 /\ Append(q, f)[Len(q) + 1] = f /\ Len(q) \in Nat
      /\ \A i \in 1..Len(q) : Append(q, f)[i] = q[i]
  OBVIOUS
<1> HIDE DEF IsData
<1> QED
  BY <1>1 DEF DataOf, DataIn, AppendPlaces

TailPlaces(q, s) ==
    /\ \A i \in DataOf(Tail(q), s) :
          i \in Nat \ {0} /\ i + 1 \in DataOf(q, s) /\ Tail(q)[i] = q[i + 1]
    /\ \A i \in DataOf(q, s) :
          i # 1 => i - 1 \in DataOf(Tail(q), s) /\ Tail(q)[i - 1] = q[i]
    /\ 1 \in DataOf(q, s) <=> IsData(Head(q)) /\ Head(q).stream = s

LEMMA DataOfTail ==
  ASSUME NEW F, NEW q \in Seq(F), q # <<>>, NEW s
  PROVE  TailPlaces(q, s)
<1>1. /\ Len(Tail(q)) = Len(q) - 1 /\ Head(q) = q[1] /\ Len(q) \in Nat \ {0}
      /\ \A i \in 1..(Len(q) - 1) : Tail(q)[i] = q[i + 1]
  OBVIOUS
<1>2. ASSUME NEW i \in DataOf(Tail(q), s)
      PROVE  i \in Nat \ {0} /\ i + 1 \in DataOf(q, s) /\ Tail(q)[i] = q[i + 1]
  BY <1>1 DEF DataOf, DataIn
<1>3. ASSUME NEW i \in DataOf(q, s), i # 1
      PROVE  i - 1 \in DataOf(Tail(q), s) /\ Tail(q)[i - 1] = q[i]
  <2>1. i \in 2..Len(q) /\ i - 1 \in 1..(Len(q) - 1) /\ (i - 1) + 1 = i
    BY <1>1, <1>3 DEF DataOf, DataIn
  <2>2. Tail(q)[i - 1] = q[i]
    BY <2>1, <1>1
  <2> QED
    BY <2>1, <2>2, <1>1 DEF DataOf, DataIn
<1>4. 1 \in DataOf(q, s) <=> IsData(Head(q)) /\ Head(q).stream = s
  BY <1>1 DEF DataOf, DataIn
<1> QED
  BY <1>2, <1>3, <1>4 DEF TailPlaces

\* The next chunk of the stream may be appended,
LEMMA CarriesAppend ==
  ASSUME NEW F, NEW q \in Seq(F), NEW f \in F, NEW s, NEW lo \in Nat, NEW hi \in Nat,
         ChunksAreNumbers(F), Carries(q, s, lo, hi), IsData(f), f.stream = s, f.chunk = hi + 1
  PROVE  Carries(Append(q, f), s, lo, hi + 1)
<1> DEFINE v == Append(q, f)
<1>0. AppendPlaces(q, f, s)
  BY DataOfAppend
<1>1. /\ \A i \in DataOf(q, s) : i \in Nat /\ i <= Len(q) /\ i \in DataOf(v, s) /\ v[i] = q[i]
      /\ \A i \in DataOf(v, s) : i \in DataOf(q, s) \/ (i = Len(q) + 1 /\ v[i] = f)
      /\ Len(q) + 1 \in DataOf(v, s) /\ v[Len(q) + 1] = f
  BY <1>0 DEF AppendPlaces
<1>7. Len(q) \in Nat
  OBVIOUS
<1>2. \A i \in DataOf(q, s) : q[i].chunk \in Nat
  BY DEF DataOf, DataIn, ChunksAreNumbers
<1> HIDE DEF v
<1>3. \A i \in DataOf(v, s) : lo < v[i].chunk /\ v[i].chunk <= hi + 1
  BY <1>1, <1>2 DEF Carries
<1>4. ASSUME NEW i \in DataOf(v, s), NEW j \in DataOf(v, s), i < j
      PROVE  v[i].chunk < v[j].chunk
  <2>1. i \in DataOf(q, s)
    BY <1>1, <1>4, <1>7
  <2>2. q[i].chunk <= hi /\ q[i].chunk \in Nat
    BY <2>1, <1>2 DEF Carries
  <2>3. CASE j \in DataOf(q, s)
    BY <2>1, <2>3, <1>1, <1>4 DEF Carries
  <2>4. CASE v[j] = f
    BY <2>1, <2>2, <2>4, <1>1
  <2> QED
    BY <2>3, <2>4, <1>1
<1>5. ASSUME NEW n \in (lo + 1)..(hi + 1)
      PROVE  \E i \in DataOf(v, s) : v[i].chunk = n
  <2>1. CASE n = hi + 1
    BY <2>1, <1>1
  <2>2. CASE n # hi + 1
    <3>1. n \in (lo + 1)..hi
      BY <2>2
    <3>2. PICK i \in DataOf(q, s) : q[i].chunk = n
      BY <3>1 DEF Carries
    <3> QED
      BY <3>2, <1>1
  <2> QED
    BY <2>1, <2>2
<1>6. lo <= hi + 1
  BY DEF Carries
<1> QED
  BY <1>3, <1>4, <1>5, <1>6 DEF Carries, v

\* and anything else that is not data of the stream.
LEMMA CarriesAppendOther ==
  ASSUME NEW F, NEW q \in Seq(F), NEW f \in F, NEW s, NEW lo, NEW hi,
         Carries(q, s, lo, hi), ~(IsData(f) /\ f.stream = s)
  PROVE  Carries(Append(q, f), s, lo, hi)
<1> DEFINE v == Append(q, f)
<1>0. AppendPlaces(q, f, s)
  BY DataOfAppend
<1>1. /\ \A i \in DataOf(q, s) : i \in DataOf(v, s) /\ v[i] = q[i]
      /\ \A i \in DataOf(v, s) : i \in DataOf(q, s)
  BY <1>0 DEF AppendPlaces
<1>2. DataOf(v, s) = DataOf(q, s) /\ \A i \in DataOf(q, s) : v[i] = q[i]
  BY <1>1
<1> HIDE DEF v
<1> QED
  BY <1>2 DEF Carries, v

\* The chunk a queue begins with is the next of its stream.
LEMMA CarriesTail ==
  ASSUME NEW F, NEW q \in Seq(F), q # <<>>, NEW s, NEW lo \in Nat, NEW hi \in Nat,
         ChunksAreNumbers(F), Carries(q, s, lo, hi), IsData(Head(q)), Head(q).stream = s
  PROVE  Head(q).chunk = lo + 1 /\ lo + 1 <= hi /\ Carries(Tail(q), s, lo + 1, hi)
<1> DEFINE v == Tail(q)
<1>0. TailPlaces(q, s)
  BY DataOfTail
<1>1. /\ \A i \in DataOf(v, s) : i \in Nat \ {0} /\ i + 1 \in DataOf(q, s) /\ v[i] = q[i + 1]
      /\ \A i \in DataOf(q, s) : i # 1 => i - 1 \in DataOf(v, s) /\ v[i - 1] = q[i]
      /\ 1 \in DataOf(q, s) <=> IsData(Head(q)) /\ Head(q).stream = s
  BY <1>0 DEF TailPlaces
<1>2. Head(q) = q[1]
  OBVIOUS
<1>3. \A i \in DataOf(q, s) : q[i].chunk \in Nat /\ i \in Nat \ {0}
  BY DEF DataOf, DataIn, ChunksAreNumbers
<1> HIDE DEF v
<1>4. q[1].chunk \in Nat /\ lo < q[1].chunk /\ q[1].chunk <= hi
  BY <1>1, <1>3 DEF Carries
<1>5. q[1].chunk = lo + 1
  <2>1. lo + 1 \in (lo + 1)..hi
    BY <1>4
  <2>2. PICK i \in DataOf(q, s) : q[i].chunk = lo + 1
    BY <2>1 DEF Carries
  <2>3. i # 1 => q[1].chunk < q[i].chunk
    BY <1>1, <1>3, <2>2 DEF Carries
  <2> QED
    BY <2>2, <2>3, <1>4
<1>6. ASSUME NEW i \in DataOf(v, s)
      PROVE  lo + 1 < v[i].chunk /\ v[i].chunk <= hi
  <2>1. i + 1 \in DataOf(q, s) /\ 1 < i + 1 /\ v[i] = q[i + 1]
    BY <1>1
  <2>2. q[1].chunk < q[i + 1].chunk /\ q[i + 1].chunk <= hi
    BY <2>1, <1>1 DEF Carries
  <2> QED
    BY <2>1, <2>2, <1>5
<1>7. ASSUME NEW i \in DataOf(v, s), NEW j \in DataOf(v, s), i < j
      PROVE  v[i].chunk < v[j].chunk
  <2>1. /\ i + 1 \in DataOf(q, s) /\ j + 1 \in DataOf(q, s) /\ i + 1 < j + 1
        /\ v[i] = q[i + 1] /\ v[j] = q[j + 1]
    BY <1>1, <1>7
  <2> QED
    BY <2>1 DEF Carries
<1>8. ASSUME NEW n \in ((lo + 1) + 1)..hi
      PROVE  \E i \in DataOf(v, s) : v[i].chunk = n
  <2>1. n \in (lo + 1)..hi /\ n # lo + 1
    OBVIOUS
  <2>2. PICK i \in DataOf(q, s) : q[i].chunk = n
    BY <2>1 DEF Carries
  <2>3. i # 1
    BY <2>1, <2>2, <1>5
  <2> QED
    BY <2>2, <2>3, <1>1
<1> QED
  BY <1>2, <1>4, <1>5, <1>6, <1>7, <1>8 DEF Carries, v

\* What is not data of the stream may be taken.
LEMMA CarriesTailOther ==
  ASSUME NEW F, NEW q \in Seq(F), q # <<>>, NEW s, NEW lo, NEW hi,
         Carries(q, s, lo, hi), ~(IsData(Head(q)) /\ Head(q).stream = s)
  PROVE  Carries(Tail(q), s, lo, hi)
<1> DEFINE v == Tail(q)
<1>0. TailPlaces(q, s)
  BY DataOfTail
<1>1. /\ \A i \in DataOf(v, s) : i \in Nat \ {0} /\ i + 1 \in DataOf(q, s) /\ v[i] = q[i + 1]
      /\ \A i \in DataOf(q, s) : i # 1 => i - 1 \in DataOf(v, s) /\ v[i - 1] = q[i]
      /\ 1 \notin DataOf(q, s)
  BY <1>0 DEF TailPlaces
<1> HIDE DEF v
<1>2. \A i \in DataOf(v, s) : lo < v[i].chunk /\ v[i].chunk <= hi
  BY <1>1 DEF Carries
<1>3. ASSUME NEW i \in DataOf(v, s), NEW j \in DataOf(v, s), i < j
      PROVE  v[i].chunk < v[j].chunk
  <2>1. /\ i + 1 \in DataOf(q, s) /\ j + 1 \in DataOf(q, s) /\ i + 1 < j + 1
        /\ v[i] = q[i + 1] /\ v[j] = q[j + 1]
    BY <1>1, <1>3
  <2> QED
    BY <2>1 DEF Carries
<1>4. \A n \in (lo + 1)..hi : \E i \in DataOf(v, s) : v[i].chunk = n
  BY <1>1 DEF Carries
<1>5. lo <= hi
  BY DEF Carries
<1> QED
  BY <1>2, <1>3, <1>4, <1>5 DEF Carries, v

-----------------------------------------------------------------------------
(* The end of a stream in a queue of frames.                               *)

NoneOf(q, s) == \A i \in 1..Len(q) : q[i].stream # s

\* whoever is not data of the stream ends it: it is the last of its frames, and
\* stands between a writer that is done and a reader that is not
EndsOnce(q, s, writing, reading) ==
    /\ writing => reading
    /\ writing => \A i \in 1..Len(q) : q[i].stream = s => IsData(q[i])
    /\ ~reading => NoneOf(q, s)
    /\ \A i, j \in 1..Len(q) : i < j /\ q[i].stream = s /\ q[j].stream = s => IsData(q[i])

\* A frame is appended while the writer writes; one that is not data ends it.
LEMMA EndsAppend ==
  ASSUME NEW F, NEW q \in Seq(F), NEW f \in F, NEW s, NEW r \in BOOLEAN, NEW w \in BOOLEAN,
         EndsOnce(q, s, TRUE, r), f.stream = s, w => IsData(f)
  PROVE  EndsOnce(Append(q, f), s, w, r)
<1> DEFINE v == Append(q, f)
<1>1. /\ Len(v) = Len(q) + 1 /\ v[Len(q) + 1] = f /\ Len(q) \in Nat
      /\ \A i \in 1..Len(q) : v[i] = q[i]
  OBVIOUS
<1> HIDE DEF v
<1>2. r /\ \A i \in 1..Len(q) : v[i].stream = s => IsData(v[i])
  BY <1>1 DEF EndsOnce
<1>3. \A i \in 1..Len(v) : i \in 1..Len(q) \/ i = Len(q) + 1
  BY <1>1
<1>4. w => \A i \in 1..Len(v) : v[i].stream = s => IsData(v[i])
  BY <1>1, <1>2, <1>3
<1>5. \A i, j \in 1..Len(v) : i < j /\ v[i].stream = s /\ v[j].stream = s => IsData(v[i])
  BY <1>1, <1>2, <1>3
<1> QED
  BY <1>2, <1>4, <1>5 DEF EndsOnce, v

\* Frames of other streams do not matter.
LEMMA EndsAppendOther ==
  ASSUME NEW F, NEW q \in Seq(F), NEW f \in F, NEW s, NEW r, NEW w,
         EndsOnce(q, s, w, r), f.stream # s
  PROVE  EndsOnce(Append(q, f), s, w, r)
<1> DEFINE v == Append(q, f)
<1>1. /\ Len(v) = Len(q) + 1 /\ v[Len(q) + 1] = f /\ Len(q) \in Nat
      /\ \A i \in 1..Len(q) : v[i] = q[i]
  OBVIOUS
<1> HIDE DEF v
<1>2. \A i \in 1..Len(v) : v[i].stream = s => i \in 1..Len(q) /\ v[i] = q[i]
  BY <1>1
<1>3. w => \A i \in 1..Len(v) : v[i].stream = s => IsData(v[i])
  BY <1>2 DEF EndsOnce
<1>4. ~r => NoneOf(v, s)
  BY <1>2 DEF EndsOnce, NoneOf
<1>5. \A i, j \in 1..Len(v) : i < j /\ v[i].stream = s /\ v[j].stream = s => IsData(v[i])
  BY <1>2 DEF EndsOnce
<1> QED
  BY <1>3, <1>4, <1>5 DEF EndsOnce, v

\* The reader takes a frame, and is done when it is not data of the stream.
TailEnds(q, s, w, r) ==
    /\ Head(q).stream = s => r
    /\ Head(q).stream = s /\ ~IsData(Head(q)) => ~w /\ NoneOf(Tail(q), s)
                                              /\ EndsOnce(Tail(q), s, w, FALSE)
    /\ EndsOnce(Tail(q), s, w, r)

LEMMA EndsTail ==
  ASSUME NEW F, NEW q \in Seq(F), q # <<>>, NEW s, NEW r \in BOOLEAN, NEW w \in BOOLEAN,
         EndsOnce(q, s, w, r)
  PROVE  TailEnds(q, s, w, r)
<1> DEFINE v == Tail(q)
<1>1. /\ Len(v) = Len(q) - 1 /\ Head(q) = q[1] /\ Len(q) \in Nat \ {0}
      /\ \A i \in 1..(Len(q) - 1) : v[i] = q[i + 1]
  OBVIOUS
<1> HIDE DEF v
<1>2. \A i \in 1..Len(v) : i \in Nat \ {0} /\ i + 1 \in 1..Len(q) /\ v[i] = q[i + 1]
  BY <1>1
<1>3. 1 \in 1..Len(q)
  BY <1>1
<1>4. Head(q).stream = s => r
  BY <1>1, <1>3 DEF EndsOnce, NoneOf
<1>5. Head(q).stream = s /\ ~IsData(Head(q)) => ~w
  BY <1>1, <1>3 DEF EndsOnce
<1>6. Head(q).stream = s /\ ~IsData(Head(q)) => NoneOf(v, s)
  <2> SUFFICES ASSUME Head(q).stream = s, ~IsData(Head(q)), NEW i \in 1..Len(v), v[i].stream = s
               PROVE  FALSE
    BY DEF NoneOf
  <2>1. 1 < i + 1 /\ i + 1 \in 1..Len(q) /\ q[i + 1].stream = s
    BY <1>2
  <2> QED
    BY <2>1, <1>1, <1>3 DEF EndsOnce
<1>7. \A i, j \in 1..Len(v) : i < j /\ v[i].stream = s /\ v[j].stream = s => IsData(v[i])
  <2> SUFFICES ASSUME NEW i \in 1..Len(v), NEW j \in 1..Len(v), i < j, v[i].stream = s,
                      v[j].stream = s
               PROVE  IsData(v[i])
    OBVIOUS
  <2>1. i + 1 < j + 1 /\ i + 1 \in 1..Len(q) /\ j + 1 \in 1..Len(q)
        /\ q[i + 1] = v[i] /\ q[j + 1] = v[j]
    BY <1>2
  <2> QED
    BY <2>1 DEF EndsOnce
<1>8. w => \A i \in 1..Len(v) : v[i].stream = s => IsData(v[i])
  BY <1>2 DEF EndsOnce
<1>9. ~r => NoneOf(v, s)
  BY <1>2 DEF EndsOnce, NoneOf
<1>10. w => r
  BY DEF EndsOnce
<1>11. EndsOnce(v, s, w, r)
  BY <1>7, <1>8, <1>9, <1>10 DEF EndsOnce
<1>12. Head(q).stream = s /\ ~IsData(Head(q)) => EndsOnce(v, s, w, FALSE)
  BY <1>5, <1>6, <1>7 DEF EndsOnce
<1> QED
  BY <1>4, <1>5, <1>6, <1>11, <1>12 DEF TailEnds, v

-----------------------------------------------------------------------------
(* The last PAUSE or RESUME of a stream in a queue of frames.              *)

\* a reader whose flag is `was` has `is` once it has read the queue
LastWord(q, s, was, is) ==
    /\ NoneOf(q, s) => was = is
    /\ \A i \in 1..Len(q) :
          q[i].stream = s /\ (\A j \in 1..Len(q) : i < j => q[j].stream # s) =>
             (q[i].type = "PAUSE") = is

\* An empty queue changes nothing.
LEMMA LastWordNone ==
  ASSUME NEW s, NEW was, NEW is, LastWord(<<>>, s, was, is)
  PROVE  was = is
BY DEF LastWord, NoneOf

LEMMA LastWordEmpty ==
  ASSUME NEW s, NEW is
  PROVE  LastWord(<<>>, s, is, is)
BY DEF LastWord, NoneOf

\* Frames that agree with the new value are added, or none if it is the old one.
LEMMA LastWordConcat ==
  ASSUME NEW F, NEW q \in Seq(F), NEW g \in Seq(F), NEW s, NEW was, NEW is, NEW new,
         LastWord(q, s, was, is),
         \A i \in 1..Len(g) : g[i].stream = s => (g[i].type = "PAUSE") = new,
         NoneOf(g, s) => new = is
  PROVE  LastWord(q \o g, s, was, new)
<1> DEFINE v == q \o g
<1>1. /\ Len(v) = Len(q) + Len(g) /\ Len(q) \in Nat /\ Len(g) \in Nat
      /\ \A i \in 1..Len(q) : v[i] = q[i]
      /\ \A i \in 1..Len(g) : v[Len(q) + i] = g[i]
  OBVIOUS
<1>2. \A i \in 1..Len(v) :
        \/ i \in 1..Len(q) /\ v[i] = q[i]
        \/ i - Len(q) \in 1..Len(g) /\ v[i] = g[i - Len(q)]
  OBVIOUS
<1>3. \A i \in 1..Len(q) : i \in 1..Len(v)
  BY <1>1
<1>4. \A i \in 1..Len(g) : Len(q) + i \in 1..Len(v)
  BY <1>1
<1> HIDE DEF v
<1>5. NoneOf(v, s) => was = new
  BY <1>1, <1>3, <1>4 DEF LastWord, NoneOf
<1>6. ASSUME NEW i \in 1..Len(v), v[i].stream = s, \A j \in 1..Len(v) : i < j => v[j].stream # s
      PROVE  (v[i].type = "PAUSE") = new
  <2>1. CASE i - Len(q) \in 1..Len(g) /\ v[i] = g[i - Len(q)]
    BY <2>1, <1>6
  <2>2. CASE i \in 1..Len(q) /\ v[i] = q[i]
    <3>1. NoneOf(g, s)
      <4> SUFFICES ASSUME NEW k \in 1..Len(g), g[k].stream = s PROVE FALSE
        BY DEF NoneOf
      <4>1. Len(q) + k \in 1..Len(v) /\ i < Len(q) + k /\ v[Len(q) + k].stream = s
        BY <1>1, <1>4, <2>2
      <4> QED
        BY <4>1, <1>6
    <3>2. \A j \in 1..Len(q) : i < j => q[j].stream # s
      BY <1>1, <1>3, <1>6
    <3> QED
      BY <3>1, <3>2, <2>2, <1>6 DEF LastWord
  <2> QED
    BY <2>1, <2>2, <1>2
<1> QED
  BY <1>5, <1>6 DEF LastWord, v

\* The reader takes a frame.
LEMMA LastWordTail ==
  ASSUME NEW F, NEW q \in Seq(F), q # <<>>, NEW s, NEW was, NEW is, LastWord(q, s, was, is)
  PROVE  LastWord(Tail(q), s, IF Head(q).stream = s THEN Head(q).type = "PAUSE" ELSE was, is)
<1> DEFINE v == Tail(q)
           now == IF Head(q).stream = s THEN Head(q).type = "PAUSE" ELSE was
<1>1. /\ Len(v) = Len(q) - 1 /\ Head(q) = q[1] /\ Len(q) \in Nat \ {0}
      /\ \A i \in 1..(Len(q) - 1) : v[i] = q[i + 1]
  OBVIOUS
<1> HIDE DEF v
<1>2. \A i \in 1..Len(v) : i \in Nat \ {0} /\ i + 1 \in 1..Len(q) /\ v[i] = q[i + 1]
  BY <1>1
<1>3. ASSUME NEW i \in 2..Len(q) PROVE i - 1 \in 1..Len(v) /\ v[i - 1] = q[i]
  BY <1>1
<1>4. ASSUME NoneOf(v, s) PROVE now = is
  <2>1. \A i \in 2..Len(q) : q[i].stream # s
    BY <1>3, <1>4 DEF NoneOf
  <2>2. CASE Head(q).stream = s
    <3>1. 1 \in 1..Len(q) /\ q[1].stream = s /\ \A j \in 1..Len(q) : 1 < j => q[j].stream # s
      BY <2>1, <2>2, <1>1
    <3> QED
      BY <3>1, <2>2, <1>1 DEF LastWord
  <2>3. CASE Head(q).stream # s
    <3>1. NoneOf(q, s)
      BY <2>1, <2>3, <1>1 DEF NoneOf
    <3> QED
      BY <3>1, <2>3 DEF LastWord
  <2> QED
    BY <2>2, <2>3
<1>5. ASSUME NEW i \in 1..Len(v), v[i].stream = s, \A j \in 1..Len(v) : i < j => v[j].stream # s
      PROVE  (v[i].type = "PAUSE") = is
  <2>1. i + 1 \in 1..Len(q) /\ q[i + 1] = v[i]
    BY <1>2
  <2>2. ASSUME NEW j \in 1..Len(q), i + 1 < j PROVE q[j].stream # s
    <3>1. j \in 2..Len(q) /\ i < j - 1
      BY <2>2, <1>2
    <3> QED
      BY <3>1, <1>3, <1>5
  <2> QED
    BY <2>1, <2>2, <1>5 DEF LastWord
<1> HIDE DEF now
<1>6. LastWord(v, s, now, is)
  BY <1>4, <1>5 DEF LastWord
<1> QED
  BY <1>6 DEF now, v

-----------------------------------------------------------------------------
(* What a step does to a path.                                             *)

\* A path is a wire and what its sender holds.
PathOf(wire, out) == wire \o Held(out)

\* A write appends to it,
LEMMA PathWrite ==
  ASSUME NEW F, NEW wire \in Seq(F), NEW out \in SenderOf(F), NEW f \in F,
         NoIdleWaiting(out)
  PROVE  PathOf(wire, Write(out, f)) = Append(PathOf(wire, out), f)
<1>1. Held(Write(out, f)) = Append(Held(out), f)
  BY WriteAppends
<1>2. Held(out) \in Seq(F)
  BY DEF SenderOf, Held
<1>3. wire \o Append(Held(out), f) = Append(wire \o Held(out), f)
  BY <1>2, AppendToConcat
<1> QED
  BY <1>1, <1>2, <1>3 DEF PathOf

\* the end of a batch does not change it,
LEMMA PathWritten ==
  ASSUME NEW F, NEW wire \in Seq(F), NEW out \in SenderOf(F)
  PROVE  PathOf(wire \o out.sending, Written(out)) = PathOf(wire, out)
<1>1. out.sending \o Held(Written(out)) = Held(out) /\ Written(out) \in SenderOf(F)
  BY WrittenMoves
<1>2. Held(Written(out)) \in Seq(F) /\ out.sending \in Seq(F)
  BY <1>1 DEF SenderOf, Held
<1>4. \A a, b, c \in Seq(F) : (a \o b) \o c = a \o (b \o c)
  BY Associative
<1>3. (wire \o out.sending) \o Held(Written(out)) = wire \o (out.sending \o Held(Written(out)))
  BY <1>2, <1>4
<1> QED
  BY <1>1, <1>3 DEF PathOf

\* and its first frame is the wire's.
LEMMA PathTail ==
  ASSUME NEW F, NEW wire \in Seq(F), NEW out \in SenderOf(F), wire # <<>>
  PROVE  /\ PathOf(wire, out) # <<>>
         /\ Head(PathOf(wire, out)) = Head(wire)
         /\ PathOf(Tail(wire), out) = Tail(PathOf(wire, out))
         /\ Head(wire) \in F
         /\ Tail(wire) \in Seq(F)
<1>1. Held(out) \in Seq(F)
  BY DEF SenderOf, Held
<1>2. \A a, b \in Seq(F) : a # <<>> => /\ a \o b # <<>> /\ Head(a \o b) = Head(a)
                                          /\ Tail(a) \o b = Tail(a \o b)
                                          /\ Head(a) \in F /\ Tail(a) \in Seq(F)
  OBVIOUS
<1> QED
  BY <1>1, <1>2 DEF PathOf

-----------------------------------------------------------------------------
(* A socket's queue.                                                       *)

\* it holds the chunks after the first `base`
NumberedFrom(queue, base) == \A i \in 1..Len(queue) : queue[i] = base + i

LEMMA NumberedAppend ==
  ASSUME NEW F, NEW queue \in Seq(F), NEW base \in Nat, NEW n \in F,
         NumberedFrom(queue, base), n = (base + Len(queue)) + 1
  PROVE  NumberedFrom(Append(queue, n), base)
<1> DEFINE v == Append(queue, n)
<1>1. /\ Len(v) = Len(queue) + 1 /\ v[Len(queue) + 1] = n /\ Len(queue) \in Nat
      /\ \A i \in 1..Len(queue) : v[i] = queue[i]
  OBVIOUS
<1> HIDE DEF v
<1>2. ASSUME NEW i \in 1..Len(v) PROVE v[i] = base + i
  <2>1. CASE i = Len(queue) + 1
    BY <2>1, <1>1
  <2>2. CASE i \in 1..Len(queue)
    BY <2>2, <1>1 DEF NumberedFrom
  <2> QED
    BY <2>1, <2>2, <1>1
<1> QED
  BY <1>2 DEF NumberedFrom, v

LEMMA NumberedTail ==
  ASSUME NEW F, NEW queue \in Seq(F), NEW base \in Nat, queue # <<>>,
         NumberedFrom(queue, base)
  PROVE  Head(queue) = base + 1 /\ NumberedFrom(Tail(queue), base + 1)
<1> DEFINE v == Tail(queue)
<1>1. /\ Len(v) = Len(queue) - 1 /\ Head(queue) = queue[1] /\ Len(queue) \in Nat \ {0}
      /\ \A i \in 1..(Len(queue) - 1) : v[i] = queue[i + 1]
  OBVIOUS
<1> HIDE DEF v
<1>2. Head(queue) = base + 1
  BY <1>1 DEF NumberedFrom
<1>3. ASSUME NEW i \in 1..Len(v) PROVE v[i] = (base + 1) + i
  <2>1. i + 1 \in 1..Len(queue) /\ v[i] = queue[i + 1]
    BY <1>1
  <2>2. queue[i + 1] = base + (i + 1)
    BY <2>1 DEF NumberedFrom
  <2> QED
    BY <2>1, <2>2
<1> QED
  BY <1>2, <1>3 DEF NumberedFrom, v

\* What is left when one is taken.
LEMMA TakenFrom ==
  ASSUME NEW F, NEW q \in Seq(F), q # <<>>
  PROVE  /\ Len(q) \in Nat \ {0} /\ Head(q) \in F /\ Tail(q) \in Seq(F)
         /\ ~(Len(q) > 1) => Tail(q) = <<>>
<1>1. Len(q) \in Nat \ {0} /\ Head(q) \in F /\ Tail(q) \in Seq(F)
  OBVIOUS
<1>2. Len(Tail(q)) = Len(q) - 1
  OBVIOUS
<1>3. ASSUME ~(Len(q) > 1) PROVE Tail(q) = <<>>
  <2>1. Len(Tail(q)) = 0
    BY <1>1, <1>2, <1>3
  <2> QED
    BY <2>1, <1>1, EmptySeq
<1> QED
  BY <1>1, <1>3
=============================================================================
