-------------------------- MODULE HttpStreamProofs ---------------------------
(***************************************************************************)
(* Proofs about HttpStream, for every number of requests, every length of  *)
(* the bodies and every limit.                                             *)
(***************************************************************************)
EXTENDS HttpStream, SequenceTheorems, TLAPS

-----------------------------------------------------------------------------
(* The invariant, request by request: u, s and c are the records of r at   *)
(* its user, at the relay and at the client.                               *)

\* how much of the local server's body the relay has taken for the user
Taken(u, s) == Len(u.got) + Len(s.queue)

\* the relay still takes slices for a user who can have them
Expects(u, s) == s.phase = "live" /\ u.end = "open" /\ ~s.responseEnded

RelayInv(u, s) ==
    /\ s.phase = "live" => u.end \notin {"none", "complete"}
    /\ s.phase = "live" => s.head = IF s.responseStarted THEN "local" ELSE "none"
    /\ s.phase = "live" /\ s.resEnded => s.responseEnded
    /\ s.queue # <<>> => s.head = "local"
    /\ s.resEnded => s.head # "none"
    /\ u.end = "open" => /\ Taken(u, s) <= Slices
                         /\ \A i \in 1..Len(s.queue) : s.queue[i] = Len(u.got) + i
                         /\ s.phase # "done"
    /\ s.phase = "live" /\ u.end = "open" /\ s.responseEnded => Taken(u, s) = Slices
    /\ u.end = "complete" /\ s.phase = "done" => Len(u.got) = Slices

ClientInv(c) ==
    /\ c.phase = "open" => c.localEnded
    /\ c.phase = "none" => c.read = 0 /\ c.writer.queue = <<>>
    /\ c.phase \in {"none", "open"} =>
          /\ Len(c.writer.queue) <= c.read
          /\ \A i \in 1..Len(c.writer.queue) : c.writer.queue[i] = c.read - Len(c.writer.queue) + i
          /\ c.writer.ended => c.read = Slices

\* before the request, nothing of it is anywhere
FreshInv(r, u, s, c, tr) ==
    u.end = "none" => /\ s.phase = "none" /\ s.head = "none" /\ s.queue = <<>>
                      /\ ~s.responseStarted /\ ~s.responseEnded /\ ~s.resEnded /\ ~s.broken
                      /\ u.got = <<>> /\ c.phase = "none"
                      /\ \A i \in 1..Len(tr) : tr[i].stream # r

IsMeta(f, r) == f.type = "REQ_META" /\ f.stream = r

\* REQ_META is sent once, and reaches a client that has not heard of the request
MetaInv(r, u, c, tc) ==
    \A i \in 1..Len(tc) : IsMeta(tc[i], r) =>
        /\ u.end # "none" /\ c.phase = "none"
        /\ \A j \in 1..Len(tc) : IsMeta(tc[j], r) => i = j

DataOf(w, r) == {i \in 1..Len(w) : w[i].type = "RES_DATA" /\ w[i].stream = r}

\* the wire w carries the slices of r from L + 1 to S, in order, and RES_END after the last
Carries(w, r, L, S) ==
    /\ L <= S /\ S <= Slices
    /\ \A i \in DataOf(w, r) : L < w[i].slice /\ w[i].slice <= S
    /\ \A i, j \in DataOf(w, r) : i < j => w[i].slice < w[j].slice
    /\ \A n \in (L + 1)..S : \E i \in DataOf(w, r) : w[i].slice = n
    /\ \A k \in 1..Len(w) : w[k].type = "RES_END" /\ w[k].stream = r =>
           S = Slices /\ \A i \in DataOf(w, r) : i < k

\* S slices is what the client has sent, as far as that matters still
HasSent(c, S) ==
    /\ c.phase = "none" => S = 0
    /\ c.phase = "open" => S = c.read - Len(c.writer.queue)

WireInv(r, u, s, c, wr, tr) ==
    wr # "closed" /\ Expects(u, s) =>
        \E S \in 0..Slices : HasSent(c, S) /\ Carries(tr, r, Taken(u, s), S)

StreamInv(r, u, s, c, wr, tc, tr) ==
    /\ RelayInv(u, s)
    /\ ClientInv(c)
    /\ FreshInv(r, u, s, c, tr)
    /\ MetaInv(r, u, c, tc)
    /\ WireInv(r, u, s, c, wr, tr)

Inv(r) == StreamInv(r, user[r], relay[r], client[r], wsRelay, toClient, toRelay)

HttpInv ==
    /\ TypeOK
    /\ wsClient # "open" => \A r \in Requests : ~Open(r)
    /\ \A r \in Requests : Inv(r)

-----------------------------------------------------------------------------
(* The wire to the relay.                                                  *)

\* Slices are numbers, and frames have streams.
LEMMA WireTypes ==
    ASSUME NEW w \in Seq(ToRelay), NEW r
    PROVE  /\ Len(w) \in Nat
           /\ \A i \in 1..Len(w) : w[i] \in ToRelay
           /\ \A i \in DataOf(w, r) : i \in 1..Len(w) /\ w[i].slice \in 1..Slices
<1>1. Len(w) \in Nat /\ \A i \in 1..Len(w) : w[i] \in ToRelay
  BY LenProperties, ElementOfSeq
<1>2. \A f \in ToRelay : f.type = "RES_DATA" => f.slice \in 1..Slices
  BY DEF ToRelay, ResData, Signals
<1> QED
  BY <1>1, <1>2 DEF DataOf

\* Frames of other streams, and frames that are neither data nor an end, change nothing.
LEMMA CarriesMore ==
    ASSUME NEW w \in Seq(ToRelay), NEW g \in Seq(ToRelay), NEW r, NEW L \in Nat, NEW S \in Nat,
           \A i \in 1..Len(g) : g[i].stream = r => g[i].type \notin {"RES_DATA", "RES_END"},
           Carries(w, r, L, S)
    PROVE  Carries(w \o g, r, L, S)
<1>1. /\ Len(w) \in Nat /\ Len(g) \in Nat
      /\ Len(w \o g) = Len(w) + Len(g)
      /\ \A i \in 1..(Len(w) + Len(g)) : (w \o g)[i] = IF i <= Len(w) THEN w[i] ELSE g[i - Len(w)]
  BY ConcatProperties, LenProperties
<1>2. \A i \in 1..(Len(w) + Len(g)) : ~(i <= Len(w)) => i - Len(w) \in 1..Len(g)
  BY <1>1
<1>3. DataOf(w \o g, r) = DataOf(w, r) /\ \A i \in DataOf(w, r) : i \in 1..Len(w) /\ (w \o g)[i] = w[i]
  BY <1>1, <1>2 DEF DataOf
<1>4. \A k \in 1..Len(w \o g) : (w \o g)[k].type = "RES_END" /\ (w \o g)[k].stream = r =>
          k \in 1..Len(w) /\ w[k].type = "RES_END" /\ w[k].stream = r
  BY <1>1, <1>2
<1> QED
  BY <1>3, <1>4 DEF Carries

\* The first frame is read, and is of another stream or neither data nor an end.
LEMMA CarriesTail ==
    ASSUME NEW w \in Seq(ToRelay), w # <<>>, NEW r, NEW L \in Nat, NEW S \in Nat,
           ~(Head(w).type = "RES_DATA" /\ Head(w).stream = r),
           Carries(w, r, L, S)
    PROVE  Carries(Tail(w), r, L, S)
<1>1. /\ Len(w) \in Nat /\ Len(Tail(w)) = Len(w) - 1 /\ Head(w) = w[1]
      /\ \A i \in 1..Len(Tail(w)) : Tail(w)[i] = w[i + 1]
  BY HeadTailProperties, LenProperties
<1>2. \A i \in DataOf(Tail(w), r) : i \in Nat /\ i + 1 \in DataOf(w, r) /\ Tail(w)[i] = w[i + 1]
  BY <1>1 DEF DataOf
<1>3. \A i \in DataOf(w, r) : i \in Nat /\ i - 1 \in DataOf(Tail(w), r) /\ Tail(w)[i - 1] = w[i]
  <2> SUFFICES ASSUME NEW i \in DataOf(w, r)
               PROVE  i \in Nat /\ i - 1 \in DataOf(Tail(w), r) /\ Tail(w)[i - 1] = w[i]
    OBVIOUS
  <2>1. i \in 1..Len(w) /\ w[i].type = "RES_DATA" /\ w[i].stream = r /\ i # 1
    BY <1>1 DEF DataOf
  <2>2. i - 1 \in 1..Len(Tail(w)) /\ (i - 1) + 1 = i
    BY <2>1, <1>1
  <2> QED
    BY <2>1, <2>2, <1>1 DEF DataOf
<1>4. \A n \in (L + 1)..S : \E i \in DataOf(Tail(w), r) : Tail(w)[i].slice = n
  BY <1>3, ZenonT(40) DEF Carries
<1>5. \A i, j \in DataOf(Tail(w), r) : i < j => Tail(w)[i].slice < Tail(w)[j].slice
  <2> TAKE i, j \in DataOf(Tail(w), r)
  <2> HAVE i < j
  <2>1. i + 1 \in DataOf(w, r) /\ j + 1 \in DataOf(w, r) /\ i + 1 < j + 1
    BY <1>2
  <2>2. w[i + 1].slice < w[j + 1].slice
    BY <2>1 DEF Carries
  <2> QED
    BY <2>2, <1>2
<1>6. \A k \in 1..Len(Tail(w)) : Tail(w)[k].type = "RES_END" /\ Tail(w)[k].stream = r =>
          S = Slices /\ \A i \in DataOf(Tail(w), r) : i < k
  BY <1>1, <1>2 DEF Carries
<1> QED
  BY <1>2, <1>4, <1>5, <1>6 DEF Carries

\* The first frame is data: it is the next slice.
LEMMA CarriesNext ==
    ASSUME NEW w \in Seq(ToRelay), w # <<>>, NEW r, NEW L \in Nat, NEW S \in Nat,
           Head(w).type = "RES_DATA", Head(w).stream = r,
           Carries(w, r, L, S)
    PROVE  Head(w).slice = L + 1 /\ Carries(Tail(w), r, L + 1, S)
<1>1. /\ Len(w) \in Nat \ {0} /\ Len(Tail(w)) = Len(w) - 1 /\ Head(w) = w[1]
      /\ \A i \in 1..Len(Tail(w)) : Tail(w)[i] = w[i + 1]
  BY HeadTailProperties, LenProperties, EmptySeq
<1>2. \A i \in DataOf(w, r) : i \in 1..Len(w) /\ w[i].slice \in 1..Slices
  BY WireTypes
<1>3. 1 \in DataOf(w, r)
  BY <1>1 DEF DataOf
<1>4. Head(w).slice = L + 1
  <2>1. L < w[1].slice /\ w[1].slice <= S
    BY <1>3 DEF Carries
  <2>2. PICK i \in DataOf(w, r) : w[i].slice = L + 1
    BY <1>2, <1>3, <2>1 DEF Carries
  <2>3. i = 1
    BY <1>2, <1>3, <2>1, <2>2 DEF Carries
  <2> QED
    BY <1>1, <2>2, <2>3
<1>5. \A i \in DataOf(Tail(w), r) : i \in Nat \ {0} /\ i + 1 \in DataOf(w, r) /\ Tail(w)[i] = w[i + 1]
  BY <1>1 DEF DataOf
<1>6. \A i \in DataOf(w, r) : i # 1 => i - 1 \in DataOf(Tail(w), r) /\ Tail(w)[i - 1] = w[i]
  <2> SUFFICES ASSUME NEW i \in DataOf(w, r), i # 1
               PROVE  i - 1 \in DataOf(Tail(w), r) /\ Tail(w)[i - 1] = w[i]
    OBVIOUS
  <2>1. i \in 1..Len(w) /\ w[i].type = "RES_DATA" /\ w[i].stream = r
    BY DEF DataOf
  <2>2. i - 1 \in 1..Len(Tail(w)) /\ (i - 1) + 1 = i
    BY <2>1, <1>1
  <2> QED
    BY <2>1, <2>2, <1>1 DEF DataOf
<1>7. \A i \in DataOf(Tail(w), r) : L + 1 < Tail(w)[i].slice /\ Tail(w)[i].slice <= S
  <2> TAKE i \in DataOf(Tail(w), r)
  <2>1. w[1].slice < w[i + 1].slice /\ w[i + 1].slice <= S
    BY <1>3, <1>5 DEF Carries
  <2> QED
    BY <2>1, <1>1, <1>4, <1>5
<1>8. \A n \in ((L + 1) + 1)..S : \E i \in DataOf(Tail(w), r) : Tail(w)[i].slice = n
  <2> TAKE n \in ((L + 1) + 1)..S
  <2>0. n \in (L + 1)..S
    OBVIOUS
  <2>1. PICK i \in DataOf(w, r) : w[i].slice = n
    BY <2>0 DEF Carries
  <2>2. i # 1
    BY <2>1, <1>1, <1>4
  <2> QED
    BY <2>1, <2>2, <1>6
<1>9. \A i, j \in DataOf(Tail(w), r) : i < j => Tail(w)[i].slice < Tail(w)[j].slice
  <2> TAKE i, j \in DataOf(Tail(w), r)
  <2> HAVE i < j
  <2>1. i + 1 \in DataOf(w, r) /\ j + 1 \in DataOf(w, r) /\ i + 1 < j + 1
    BY <1>5
  <2>2. w[i + 1].slice < w[j + 1].slice
    BY <2>1 DEF Carries
  <2> QED
    BY <2>2, <1>5
<1>10. \A k \in 1..Len(Tail(w)) : Tail(w)[k].type = "RES_END" /\ Tail(w)[k].stream = r =>
           S = Slices /\ \A i \in DataOf(Tail(w), r) : i < k
  BY <1>1, <1>5 DEF Carries
<1>11. L + 1 <= S /\ S <= Slices
  BY <1>2, <1>3, <1>4, <1>1 DEF Carries
<1> QED
  BY <1>4, <1>7, <1>8, <1>9, <1>10, <1>11 DEF Carries

\* The first frame is the end: everything was taken.
LEMMA CarriesEnd ==
    ASSUME NEW w \in Seq(ToRelay), w # <<>>, NEW r, NEW L \in Nat, NEW S \in Nat,
           Head(w).type = "RES_END", Head(w).stream = r,
           Carries(w, r, L, S)
    PROVE  L = Slices
<1>1. Len(w) \in Nat \ {0} /\ Head(w) = w[1]
  BY LenProperties, EmptySeq
<1>2. DataOf(w, r) = {} /\ S = Slices
  BY <1>1, WireTypes DEF Carries
<1> QED
  BY <1>2, HttpAssumption DEF Carries

\* The client sends the next n slices.
LEMMA CarriesSent ==
    ASSUME NEW w \in Seq(ToRelay), NEW g \in Seq(ToRelay), NEW r, NEW L \in Nat, NEW S \in Nat,
           S + Len(g) <= Slices,
           \A i \in 1..Len(g) : g[i].type = "RES_DATA" /\ g[i].stream = r /\ g[i].slice = S + i,
           Carries(w, r, L, S)
    PROVE  Carries(w \o g, r, L, S + Len(g))
<1> DEFINE v == w \o g
<1>1. /\ Len(w) \in Nat /\ Len(g) \in Nat
      /\ Len(v) = Len(w) + Len(g)
      /\ \A i \in 1..(Len(w) + Len(g)) : v[i] = IF i <= Len(w) THEN w[i] ELSE g[i - Len(w)]
  BY ConcatProperties, LenProperties
<1> HIDE DEF v
<1>2. \A i \in 1..(Len(w) + Len(g)) : ~(i <= Len(w)) => i - Len(w) \in 1..Len(g)
  BY <1>1
<1>3. \A i \in DataOf(w, r) : i \in 1..Len(w) /\ i \in DataOf(v, r) /\ v[i] = w[i]
                              /\ w[i].slice \in 1..Slices
  <2>1. \A i \in DataOf(w, r) : i \in 1..Len(w) /\ w[i].slice \in 1..Slices
    BY WireTypes
  <2> QED
    BY <2>1, <1>1 DEF DataOf
<1>4. \A i \in DataOf(v, r) :
          \/ i \in DataOf(w, r)
          \/ i \in Int /\ i > Len(w) /\ i - Len(w) \in 1..Len(g) /\ v[i].slice = S + (i - Len(w))
  BY <1>1, <1>2, SMTT(20) DEF DataOf
<1>5. \A i \in DataOf(v, r) : L < v[i].slice /\ v[i].slice <= S + Len(g)
  <2> TAKE i \in DataOf(v, r)
  <2>1. CASE i \in DataOf(w, r)
    BY <2>1, <1>1, <1>3 DEF Carries
  <2>2. CASE i \notin DataOf(w, r)
    BY <2>2, <1>1, <1>4 DEF Carries
  <2> QED
    BY <2>1, <2>2
<1>6. \A i, j \in DataOf(v, r) : i < j => v[i].slice < v[j].slice
  <2> TAKE i, j \in DataOf(v, r)
  <2> HAVE i < j
  <2>1. CASE i \in DataOf(w, r) /\ j \in DataOf(w, r)
    BY <2>1, <1>3 DEF Carries
  <2>2. CASE i \in DataOf(w, r) /\ j \notin DataOf(w, r)
    <3>1. v[i].slice <= S /\ v[i].slice \in Nat
      BY <2>2, <1>3 DEF Carries
    <3>2. v[j].slice = S + (j - Len(w)) /\ j - Len(w) \in 1..Len(g)
      BY <2>2, <1>4
    <3>3. S < v[j].slice /\ v[j].slice \in Nat
      BY <3>2, <1>1
    <3> QED
      BY <3>1, <3>3
  <2>3. CASE i \notin DataOf(w, r)
    <3>1. i \in Int /\ i > Len(w) /\ v[i].slice = S + (i - Len(w))
      BY <2>3, <1>4
    <3>2. j \notin DataOf(w, r)
      BY <3>1, <1>1, <1>3
    <3>3. j \in Int /\ v[j].slice = S + (j - Len(w))
      BY <3>2, <1>4
    <3>4. S + (i - Len(w)) < S + (j - Len(w))
      BY <3>1, <3>3, <1>1
    <3> QED
      BY <3>1, <3>3, <3>4
  <2> QED
    BY <2>1, <2>2, <2>3
<1>7. \A n \in (L + 1)..(S + Len(g)) : \E i \in DataOf(v, r) : v[i].slice = n
  <2> TAKE n \in (L + 1)..(S + Len(g))
  <2>1. CASE n <= S
    <3>1. n \in (L + 1)..S
      BY <2>1
    <3>2. PICK i \in DataOf(w, r) : w[i].slice = n
      BY <3>1 DEF Carries
    <3> QED
      BY <3>2, <1>3
  <2>2. CASE n > S
    <3> DEFINE i == Len(w) + (n - S)
    <3>1. n - S \in 1..Len(g) /\ i \in 1..(Len(w) + Len(g)) /\ ~(i <= Len(w)) /\ i - Len(w) = n - S
      BY <2>2, <1>1
    <3>2. v[i] = g[n - S]
      BY <3>1, <1>1
    <3>3. g[n - S].type = "RES_DATA" /\ g[n - S].stream = r /\ g[n - S].slice = S + (n - S)
      BY <3>1
    <3>4. i \in DataOf(v, r) /\ v[i].slice = n
      BY <3>1, <3>2, <3>3, <1>1 DEF DataOf
    <3> HIDE DEF i
    <3> QED
      BY <3>4
  <2> QED
    BY <2>1, <2>2
<1>8. \A k \in 1..Len(v) : v[k].type = "RES_END" /\ v[k].stream = r =>
          S + Len(g) = Slices /\ \A i \in DataOf(v, r) : i < k
  <2> TAKE k \in 1..Len(v)
  <2> HAVE v[k].type = "RES_END" /\ v[k].stream = r
  <2>1. k \in 1..Len(w) /\ w[k].type = "RES_END" /\ w[k].stream = r
    <3>1. CASE ~(k <= Len(w))
      <4>1. k - Len(w) \in 1..Len(g) /\ v[k] = g[k - Len(w)]
        BY <3>1, <1>1, <1>2
      <4>2. g[k - Len(w)].type = "RES_DATA"
        BY <4>1
      <4> QED
        BY <4>1, <4>2
    <3>2. CASE k <= Len(w)
      BY <3>2, <1>1
    <3> QED
      BY <3>1, <3>2
  <2>2. S = Slices /\ \A i \in DataOf(w, r) : i < k
    BY <2>1 DEF Carries
  <2>3. Len(g) = 0
    BY <2>2, <1>1, HttpAssumption
  <2>4. \A i \in DataOf(v, r) : i \in DataOf(w, r)
    BY <2>3, <1>4
  <2> QED
    BY <2>2, <2>3, <2>4, HttpAssumption
<1>9. L <= S + Len(g) /\ S + Len(g) <= Slices
  BY <1>1, HttpAssumption DEF Carries
<1> QED
  BY <1>5, <1>6, <1>7, <1>8, <1>9 DEF Carries, v

\* The client sends the end, after everything else.
LEMMA CarriesLast ==
    ASSUME NEW w \in Seq(ToRelay), NEW r \in Requests, NEW L \in Nat,
           Carries(w, r, L, Slices)
    PROVE  Carries(Append(w, Signal("RES_END", r)), r, L, Slices)
<1> DEFINE v == Append(w, Signal("RES_END", r))
<1>1. Signal("RES_END", r) \in ToRelay
  BY DEF Signal, ToRelay, Signals
<1>2. /\ Len(w) \in Nat /\ Len(v) = Len(w) + 1
      /\ \A i \in 1..Len(w) : v[i] = w[i]
      /\ v[Len(w) + 1] = Signal("RES_END", r)
  BY <1>1, AppendProperties, LenProperties
<1>3. v[Len(w) + 1].type # "RES_DATA"
  BY <1>2 DEF Signal
<1>4. DataOf(v, r) = DataOf(w, r) /\ \A i \in DataOf(w, r) : i \in 1..Len(w) /\ v[i] = w[i]
  BY <1>2, <1>3 DEF DataOf
<1>5. \A k \in 1..Len(v) : v[k].type = "RES_END" /\ v[k].stream = r => \A i \in DataOf(w, r) : i < k
  <2> TAKE k \in 1..Len(v)
  <2>1. CASE k = Len(w) + 1
    BY <2>1, <1>2, <1>4
  <2>2. CASE k \in 1..Len(w)
    BY <2>2, <1>2 DEF Carries
  <2> QED
    BY <2>1, <2>2, <1>2
<1> QED
  BY <1>4, <1>5 DEF Carries

-----------------------------------------------------------------------------
(* A turn of a frame writer.                                               *)

\* o is what a turn of v leads to: it fails, or the first n slices are sent
IsTurn(Slice, v, o) ==
    /\ o.writer \in Writers(Slice) /\ o.sent \in Seq(Slice)
    /\ o.writer.ended = v.ended
    /\ o.writer.at = "failed" => o.sent = <<>>
    /\ o.writer.at # "failed" =>
          \E n \in 0..Len(v.queue) :
              /\ Len(o.sent) = n /\ Len(o.writer.queue) = Len(v.queue) - n
              /\ \A i \in 1..n : o.sent[i] = v.queue[i]
              /\ \A i \in 1..(Len(v.queue) - n) : o.writer.queue[i] = v.queue[n + i]

\* Nothing is sent.
LEMMA IdleTurn ==
    ASSUME NEW Slice, NEW v \in Writers(Slice), NEW w \in Writers(Slice), NEW o,
           o = Outcome(w, <<>>), w.queue = v.queue, w.ended = v.ended
    PROVE  IsTurn(Slice, v, o)
<1>1. o.writer = w /\ o.sent = <<>>
  BY DEF Outcome
<1>2. v.queue \in Seq(Slice) /\ Len(v.queue) \in Nat
  BY LenProperties DEF Writers
<1>3. \E n \in 0..Len(v.queue) :
          /\ Len(o.sent) = n /\ Len(o.writer.queue) = Len(v.queue) - n
          /\ \A i \in 1..n : o.sent[i] = v.queue[i]
          /\ \A i \in 1..(Len(v.queue) - n) : o.writer.queue[i] = v.queue[n + i]
  <2>1. 0 \in 0..Len(v.queue) /\ Len(o.sent) = 0 /\ Len(o.writer.queue) = Len(v.queue) - 0
    BY <1>1, <1>2, EmptySeq
  <2>2. \A i \in 1..(Len(v.queue) - 0) : o.writer.queue[i] = v.queue[0 + i]
    BY <1>1, <1>2
  <2> QED
    BY <2>1, <2>2
<1>4. o.sent \in Seq(Slice) /\ o.writer \in Writers(Slice) /\ o.writer.ended = v.ended
  BY <1>1, EmptySeq
<1> QED
  BY <1>1, <1>3, <1>4 DEF IsTurn

\* The writer fails.
LEMMA FailedTurn ==
    ASSUME NEW Slice, NEW v \in Writers(Slice), NEW o, o = Outcome(Failed(v), <<>>)
    PROVE  IsTurn(Slice, v, o)
<1>1. Failed(v) \in Writers(Slice) /\ Failed(v).at = "failed" /\ Failed(v).ended = v.ended
  BY EmptySeq DEF Failed, Writers
<1> QED
  BY <1>1, EmptySeq DEF IsTurn, Outcome

\* _write and _sendChunk
LEMMA PumpTurn ==
    ASSUME NEW Slice, NEW v \in Writers(Slice), NEW least \in {0, 1}, NEW open \in BOOLEAN,
           NEW o \in Pump(v, least, open)
    PROVE  IsTurn(Slice, v, o)
<1>1. v.queue \in Seq(Slice) /\ Len(v.queue) \in Nat /\ \A i \in 1..Len(v.queue) : v.queue[i] \in Slice
  BY LenProperties, ElementOfSeq DEF Writers
<1>2. CASE v.queue = <<>>
  <2>1. [v EXCEPT !.at = "idle"] \in Writers(Slice)
    BY DEF Writers
  <2> QED
    BY <2>1, <1>2, IdleTurn DEF Pump, Writers
<1>3. CASE v.queue # <<>> /\ v.paused
  <2>1. [v EXCEPT !.at = "held"] \in Writers(Slice)
    BY DEF Writers
  <2> QED
    BY <2>1, <1>3, IdleTurn DEF Pump, Writers
<1>4. CASE v.queue # <<>> /\ ~v.paused /\ ~open
  BY <1>4, FailedTurn DEF Pump
<1>5. CASE v.queue # <<>> /\ ~v.paused /\ open
  <2>1. PICK n \in least..Len(v.queue) :
            o = Outcome([v EXCEPT !.queue = SubSeq(@, n + 1, Len(@)),
                                  !.at = IF n = Len(v.queue) THEN "idle" ELSE "drain"],
                        SubSeq(v.queue, 1, n))
    BY <1>5 DEF Pump
  <2> DEFINE rest == SubSeq(v.queue, n + 1, Len(v.queue))
             gone == SubSeq(v.queue, 1, n)
  <2>2. n \in 0..Len(v.queue)
    BY <1>1
  <2>3. /\ rest \in Seq(Slice) /\ Len(rest) = Len(v.queue) - n
        /\ \A i \in 1..(Len(v.queue) - n) : rest[i] = v.queue[n + i]
    <3>1. \A i \in (n + 1)..Len(v.queue) : v.queue[i] \in Slice
      BY <1>1, <2>2
    <3>2. /\ rest \in Seq(Slice)
          /\ Len(rest) = IF n + 1 <= Len(v.queue) THEN Len(v.queue) - (n + 1) + 1 ELSE 0
          /\ \A i \in 1..(Len(v.queue) - (n + 1) + 1) : rest[i] = v.queue[(n + 1) + i - 1]
      BY <3>1, <2>2, <1>1, SubSeqProperties
    <3> QED
      BY <3>2, <2>2, <1>1
  <2>4. gone \in Seq(Slice) /\ Len(gone) = n /\ \A i \in 1..n : gone[i] = v.queue[i]
    <3>1. \A i \in 1..n : v.queue[i] \in Slice
      BY <1>1, <2>2
    <3>2. /\ gone \in Seq(Slice)
          /\ Len(gone) = IF 1 <= n THEN n - 1 + 1 ELSE 0
          /\ \A i \in 1..(n - 1 + 1) : gone[i] = v.queue[1 + i - 1]
      BY <3>1, <2>2, <1>1, SubSeqProperties
    <3> QED
      BY <3>2, <2>2, <1>1
  <2> HIDE DEF rest, gone
  <2>5. PICK at \in {"idle", "drain"} : o = Outcome([v EXCEPT !.queue = rest, !.at = at], gone)
    <3>1. CASE n = Len(v.queue)
      BY <3>1, <2>1 DEF rest, gone
    <3>2. CASE n # Len(v.queue)
      BY <3>2, <2>1 DEF rest, gone
    <3> QED
      BY <3>1, <3>2
  <2>6. /\ o.sent = gone /\ o.writer \in Writers(Slice) /\ o.writer.queue = rest
        /\ o.writer.ended = v.ended /\ o.writer.at # "failed"
    BY <2>3, <2>5 DEF Outcome, Writers
  <2> QED
    BY <2>2, <2>3, <2>4, <2>6 DEF IsTurn
<1> QED
  BY <1>2, <1>3, <1>4, <1>5

\* write()
LEMMA WriteTurn ==
    ASSUME NEW Slice, NEW w \in Writers(Slice), NEW slice \in Slice, NEW open \in BOOLEAN,
           NEW o \in Write(w, slice, open)
    PROVE  /\ [w EXCEPT !.queue = Append(@, slice)] \in Writers(Slice)
           /\ IsTurn(Slice, [w EXCEPT !.queue = Append(@, slice)], o)
<1> DEFINE v == [w EXCEPT !.queue = Append(@, slice)]
<1>1. v \in Writers(Slice)
  BY AppendProperties DEF Writers
<1>2. CASE w.at = "idle"
  BY <1>1, <1>2, PumpTurn DEF Write
<1>3. CASE w.at # "idle"
  BY <1>1, <1>3, IdleTurn DEF Write
<1> QED
  BY <1>1, <1>2, <1>3

\* setPeerPaused
LEMMA PauseTurn ==
    ASSUME NEW Slice, NEW w \in Writers(Slice), NEW paused \in BOOLEAN, NEW open \in BOOLEAN,
           NEW o \in SetPeerPaused(w, paused, open)
    PROVE  IsTurn(Slice, w, o)
<1> DEFINE v == [w EXCEPT !.paused = paused]
<1>1. v \in Writers(Slice) /\ v.queue = w.queue /\ v.ended = w.ended
  BY DEF Writers
<1>2. CASE ~paused /\ w.at = "held"
  <2>1. IsTurn(Slice, v, o)
    BY <1>1, <1>2, PumpTurn DEF SetPeerPaused
  <2> QED
    BY <1>1, <2>1 DEF IsTurn
<1>3. CASE ~(~paused /\ w.at = "held")
  BY <1>1, <1>3, IdleTurn DEF SetPeerPaused
<1> QED
  BY <1>2, <1>3

\* end()
LEMMA EndTurn ==
    ASSUME NEW Slice, NEW w \in Writers(Slice)
    PROVE  End(w) \in Writers(Slice) /\ IsTurn(Slice, End(w), Outcome(End(w), <<>>))
<1>1. End(w) \in Writers(Slice)
  BY DEF End, Writers
<1> QED
  BY <1>1, IdleTurn

-----------------------------------------------------------------------------
(* What a step at the relay has to show of its request.                    *)

\* a step of HttpPromise: the request is made, answered, gets a slice, ends, is refused,
\* or its user sees nothing
PromiseStep(u, s, u2, s2) ==
    \/ u.end = "none" /\ u2.end = "open" /\ s2.head = s.head /\ u2.got = u.got
    \/ /\ s.head = "none" /\ u.end # "none" /\ s2.head \in {"local", "error"}
       /\ u2.got = u.got /\ u2.end = u.end
    \/ /\ s.head = "local" /\ u.end = "open" /\ Len(u.got) < Slices
       /\ u2.got = Append(u.got, Len(u.got) + 1)
       /\ s2.head = s.head /\ u2.end = u.end
    \/ /\ u.end = "open" /\ u2.end \in {"complete", "cut", "left"}
       /\ u2.end = "complete" => s.head # "none"
       /\ s2.head = s.head /\ u2.got = u.got
    \/ /\ u.end = "none" /\ s.head = "none" /\ s2.head = "error" /\ u2.end = "complete"
       /\ u2.got = u.got
    \/ s2.head = s.head /\ u2.got = u.got /\ u2.end = u.end

PromiseKept ==
    \A r \in Requests : PromiseStep(user[r], relay[r], user'[r], relay'[r])

RelayMoves(u, s, u2, s2) ==
    /\ u2 \in UserView /\ s2 \in RelayStream
    /\ RelayInv(u2, s2) /\ u2.end # "none"
    /\ PromiseStep(u, s, u2, s2)

\* k slices of the wire were taken, if that matters still
Takes(u, s, u2, s2, k) ==
    Expects(u2, s2) => Expects(u, s) /\ Taken(u2, s2) = Taken(u, s) + k

LEMMA TakenNat ==
    ASSUME NEW u \in UserView, NEW s \in RelayStream
    PROVE  /\ Len(u.got) \in Nat /\ Len(s.queue) \in Nat /\ Taken(u, s) \in Nat
           /\ u.got \in Seq(1..Slices) /\ s.queue \in Seq(1..Slices)
<1>1. u.got \in Seq(1..Slices) /\ s.queue \in Seq(1..Slices)
  BY DEF UserView, RelayStream
<1>2. Len(u.got) \in Nat /\ Len(s.queue) \in Nat
  BY <1>1, LenProperties
<1>3. \A a, b \in Nat : a + b \in Nat
  OBVIOUS
<1>4. Taken(u, s) \in Nat
  BY <1>2, <1>3, Zenon DEF Taken
<1> QED
  BY <1>1, <1>2, <1>4

\* Other frames than REQ_META do not disturb MetaInv, and reading one does not either.
LEMMA MetaMore ==
    ASSUME NEW tc \in Seq(ToClient), NEW g \in Seq(ToClient), NEW r, NEW u, NEW c,
           \A i \in 1..Len(g) : ~IsMeta(g[i], r), MetaInv(r, u, c, tc)
    PROVE  MetaInv(r, u, c, tc \o g)
<1> DEFINE v == tc \o g
<1>1. /\ Len(tc) \in Nat /\ Len(g) \in Nat
      /\ Len(v) = Len(tc) + Len(g)
      /\ \A i \in 1..(Len(tc) + Len(g)) : v[i] = IF i <= Len(tc) THEN tc[i] ELSE g[i - Len(tc)]
  BY ConcatProperties, LenProperties
<1> HIDE DEF v
<1>2. \A i \in 1..(Len(tc) + Len(g)) : ~(i <= Len(tc)) => i - Len(tc) \in 1..Len(g)
  BY <1>1
<1>3. \A i \in 1..Len(v) : IsMeta(v[i], r) => i \in 1..Len(tc) /\ IsMeta(tc[i], r)
  BY <1>1, <1>2
<1> QED
  BY <1>3 DEF MetaInv, v

LEMMA MetaTail ==
    ASSUME NEW tc \in Seq(ToClient), tc # <<>>, NEW r, NEW u, NEW c, MetaInv(r, u, c, tc)
    PROVE  /\ MetaInv(r, u, c, Tail(tc))
           /\ IsMeta(Head(tc), r) => \A i \in 1..Len(Tail(tc)) : ~IsMeta(Tail(tc)[i], r)
<1>1. /\ Len(tc) \in Nat \ {0} /\ Len(Tail(tc)) = Len(tc) - 1 /\ Head(tc) = tc[1]
      /\ \A i \in 1..Len(Tail(tc)) : Tail(tc)[i] = tc[i + 1]
  BY HeadTailProperties, LenProperties, EmptySeq
<1>2. \A i \in 1..Len(Tail(tc)) : i + 1 \in 1..Len(tc) /\ i + 1 # 1 /\ i \in Nat
  BY <1>1
<1>3. \A i, j \in Nat : i + 1 = j + 1 => i = j
  OBVIOUS
<1>4. 1 \in 1..Len(tc)
  BY <1>1
<1> QED
  BY <1>1, <1>2, <1>3, <1>4 DEF MetaInv

\* what a step at another request may do to the frames on their way
OtherToClient(r, tc, tc2) ==
    \/ tc2 = tc
    \/ tc # <<>> /\ tc2 = Tail(tc)
    \/ \E g \in Seq(ToClient) : tc2 = tc \o g /\ \A i \in 1..Len(g) : ~IsMeta(g[i], r)

OtherToRelay(r, tr, tr2) ==
    \/ tr2 = tr
    \/ tr # <<>> /\ tr2 = Tail(tr) /\ Head(tr).stream # r
    \/ \E g \in Seq(ToRelay) : tr2 = tr \o g /\ \A i \in 1..Len(g) : g[i].stream # r

\* A step at another request leaves r alone.
LEMMA OthersKeep ==
    ASSUME NEW r, NEW u \in UserView, NEW s \in RelayStream, NEW c, NEW wr,
           NEW tc \in Seq(ToClient), NEW tr \in Seq(ToRelay),
           NEW tc2, NEW tr2,
           StreamInv(r, u, s, c, wr, tc, tr),
           OtherToClient(r, tc, tc2), OtherToRelay(r, tr, tr2)
    PROVE  StreamInv(r, u, s, c, wr, tc2, tr2)
<1>1. MetaInv(r, u, c, tc2)
  BY MetaMore, MetaTail DEF StreamInv, OtherToClient
<1>2. FreshInv(r, u, s, c, tr2) /\ WireInv(r, u, s, c, wr, tr2)
  <2>1. CASE tr2 = tr
    BY <2>1 DEF StreamInv
  <2>2. CASE tr # <<>> /\ tr2 = Tail(tr) /\ Head(tr).stream # r
    <3>1. \A S \in 0..Slices : Carries(tr, r, Taken(u, s), S) => Carries(tr2, r, Taken(u, s), S)
      BY <2>2, CarriesTail, TakenNat
    <3>2. /\ Len(tr) \in Nat \ {0} /\ Len(tr2) = Len(tr) - 1
          /\ \A i \in 1..Len(tr2) : tr2[i] = tr[i + 1]
      BY <2>2, HeadTailProperties, LenProperties, EmptySeq
    <3>3. \A i \in 1..Len(tr2) : i + 1 \in 1..Len(tr)
      BY <3>2
    <3> QED
      BY <3>1, <3>2, <3>3 DEF StreamInv, FreshInv, WireInv
  <2>3. CASE \E g \in Seq(ToRelay) : tr2 = tr \o g /\ \A i \in 1..Len(g) : g[i].stream # r
    <3>1. PICK g \in Seq(ToRelay) : tr2 = tr \o g /\ \A i \in 1..Len(g) : g[i].stream # r
      BY <2>3
    <3>0. \A i \in 1..Len(g) : g[i].stream = r => g[i].type \notin {"RES_DATA", "RES_END"}
      BY <3>1
    <3>2. \A S \in 0..Slices : Carries(tr, r, Taken(u, s), S) => Carries(tr2, r, Taken(u, s), S)
      <4> TAKE S \in 0..Slices
      <4>1. S \in Nat /\ Taken(u, s) \in Nat
        BY TakenNat
      <4> QED
        BY <3>0, <3>1, <4>1, CarriesMore
    <3>3. /\ Len(tr) \in Nat /\ Len(g) \in Nat
          /\ Len(tr2) = Len(tr) + Len(g)
          /\ \A i \in 1..(Len(tr) + Len(g)) : tr2[i] = IF i <= Len(tr) THEN tr[i] ELSE g[i - Len(tr)]
      BY <3>1, ConcatProperties, LenProperties
    <3>4. \A i \in 1..(Len(tr) + Len(g)) : ~(i <= Len(tr)) => i - Len(tr) \in 1..Len(g)
      BY <3>3
    <3> QED
      BY <3>1, <3>2, <3>3, <3>4 DEF StreamInv, FreshInv, WireInv
  <2> QED
    BY <2>1, <2>2, <2>3 DEF OtherToRelay
<1> QED
  BY <1>1, <1>2 DEF StreamInv

\* What reading a frame of r takes, if a frame is read.
Reads(r, tr, tr2, u, s, u2, s2) ==
    \/ tr2 = tr /\ Takes(u, s, u2, s2, 0)
    \/ /\ tr # <<>> /\ tr2 = Tail(tr) /\ Head(tr).stream = r
       /\ Takes(u, s, u2, s2, IF Head(tr).type = "RES_DATA" THEN 1 ELSE 0)

\* The wire goes on from where the relay has come.
LEMMA WireAfterRead ==
    ASSUME NEW r, NEW u \in UserView, NEW s \in RelayStream, NEW c, NEW wr, NEW tr \in Seq(ToRelay),
           NEW u2 \in UserView, NEW s2 \in RelayStream, NEW tr2,
           WireInv(r, u, s, c, wr, tr), Reads(r, tr, tr2, u, s, u2, s2)
    PROVE  WireInv(r, u2, s2, c, wr, tr2)
<1> SUFFICES ASSUME wr # "closed", Expects(u2, s2)
             PROVE  \E S \in 0..Slices : HasSent(c, S) /\ Carries(tr2, r, Taken(u2, s2), S)
  BY DEF WireInv
<1>1. Expects(u, s)
  BY DEF Reads, Takes
<1>2. PICK S \in 0..Slices : HasSent(c, S) /\ Carries(tr, r, Taken(u, s), S)
  BY <1>1 DEF WireInv
<1>3. Taken(u, s) \in Nat /\ Taken(u2, s2) \in Nat /\ S \in Nat
  BY TakenNat
<1>4. CASE tr2 = tr /\ Takes(u, s, u2, s2, 0)
  BY <1>2, <1>3, <1>4 DEF Takes
<1>5. CASE /\ tr # <<>> /\ tr2 = Tail(tr) /\ Head(tr).stream = r
           /\ Takes(u, s, u2, s2, IF Head(tr).type = "RES_DATA" THEN 1 ELSE 0)
  <2>1. CASE Head(tr).type = "RES_DATA"
    <3>1. Taken(u2, s2) = Taken(u, s) + 1
      BY <1>5, <2>1 DEF Takes
    <3> QED
      BY <1>2, <1>3, <1>5, <2>1, <3>1, CarriesNext
  <2>2. CASE Head(tr).type # "RES_DATA"
    <3>1. Taken(u2, s2) = Taken(u, s)
      BY <1>3, <1>5, <2>2 DEF Takes
    <3> QED
      BY <1>2, <1>3, <1>5, <2>2, <3>1, CarriesTail
  <2> QED
    BY <2>1, <2>2
<1> QED
  BY <1>4, <1>5 DEF Reads

\* A step of the relay, or of the user, at one request keeps the invariant.
LEMMA RelayStep ==
    ASSUME HttpInv, NEW r \in Requests, NEW u2, NEW s2,
           RelayMoves(user[r], relay[r], u2, s2),
           user' = [user EXCEPT ![r] = u2], relay' = [relay EXCEPT ![r] = s2],
           \/ toClient' = toClient
           \/ \E g \in Seq(ToClient) : /\ toClient' = toClient \o g
                                      /\ \A i \in 1..Len(g) : g[i].type # "REQ_META",
           Reads(r, toRelay, toRelay', user[r], relay[r], u2, s2),
           UNCHANGED <<client, wsRelay, wsClient>>
    PROVE  HttpInv' /\ PromiseKept
<1>1. /\ user \in [Requests -> UserView] /\ relay \in [Requests -> RelayStream]
      /\ toClient \in Seq(ToClient) /\ toRelay \in Seq(ToRelay)
      /\ u2 \in UserView /\ s2 \in RelayStream
  BY DEF HttpInv, TypeOK, RelayMoves
<1>2. toClient' \in Seq(ToClient) /\ toRelay' \in Seq(ToRelay)
  BY <1>1, ConcatProperties, HeadTailProperties DEF Reads
<1>3. TypeOK'
  BY <1>1, <1>2 DEF HttpInv, TypeOK
<1>4. /\ user'[r] = u2 /\ relay'[r] = s2
      /\ \A q \in Requests \ {r} : user'[q] = user[q] /\ relay'[q] = relay[q]
  BY <1>1
<1>5. \A q \in Requests :
          \/ toClient' = toClient
          \/ \E g \in Seq(ToClient) :
                toClient' = toClient \o g /\ \A i \in 1..Len(g) : ~IsMeta(g[i], q)
  BY DEF IsMeta
<1>6. ASSUME NEW q \in Requests
      PROVE  StreamInv(q, user[q], relay[q], client[q], wsRelay, toClient, toRelay)
  BY DEF HttpInv, Inv
<1>7. Inv(r)'
  <2>1. RelayInv(u2, s2) /\ ClientInv(client[r]) /\ u2.end # "none"
    BY <1>6 DEF RelayMoves, StreamInv
  <2>2. FreshInv(r, u2, s2, client[r], toRelay')
    BY <2>1 DEF FreshInv
  <2>3. MetaInv(r, u2, client[r], toClient')
    <3>1. MetaInv(r, u2, client[r], toClient)
      BY <2>1, <1>6 DEF StreamInv, MetaInv
    <3> QED
      BY <3>1, <1>1, <1>5, MetaMore
  <2>4. WireInv(r, u2, s2, client[r], wsRelay, toRelay')
    BY <1>1, <1>6, WireAfterRead DEF StreamInv
  <2> QED
    BY <1>4, <2>1, <2>2, <2>3, <2>4 DEF Inv, StreamInv
<1>8. ASSUME NEW q \in Requests, q # r
      PROVE  Inv(q)'
  <2>1. OtherToRelay(q, toRelay, toRelay')
    BY <1>8 DEF Reads, OtherToRelay
  <2>2. OtherToClient(q, toClient, toClient')
    BY <1>5 DEF OtherToClient
  <2>3. StreamInv(q, user[q], relay[q], client[q], wsRelay, toClient', toRelay')
    <3>1. user[q] \in UserView /\ relay[q] \in RelayStream
      BY <1>1
    <3> QED
      BY <1>1, <1>6, <2>1, <2>2, <3>1, OthersKeep
  <2> QED
    BY <1>4, <1>8, <2>3 DEF Inv
<1>9. wsClient' # "open" => \A q \in Requests : ~Open(q)'
  BY DEF HttpInv, Open
<1>10. PromiseKept
  BY <1>4 DEF PromiseKept, RelayMoves, PromiseStep
<1> QED
  BY <1>3, <1>7, <1>8, <1>9, <1>10 DEF HttpInv

-----------------------------------------------------------------------------
(* The handlers of the relay.                                              *)

LEMMA SignalToClient ==
    ASSUME NEW r \in Requests,
           NEW t \in {"REQ_META", "REQ_DATA", "REQ_END", "REQ_ABORT", "PAUSE", "RESUME"}
    PROVE  /\ Signal(t, r) \in ToClient /\ Signal(t, r).type = t /\ Signal(t, r).stream = r
           /\ <<Signal(t, r)>> \in Seq(ToClient) /\ Len(<<Signal(t, r)>>) = 1
           /\ <<Signal(t, r)>>[1] = Signal(t, r)
BY DEF Signal, ToClient, Signals

\* RelayStep for what the code does through RelayBecomes
LEMMA RelayBecomesStep ==
    ASSUME HttpInv, NEW r \in Requests, NEW u2, NEW s2, NEW g \in Seq(ToClient),
           \A i \in 1..Len(g) : g[i].type # "REQ_META",
           RelayMoves(user[r], relay[r], u2, s2), RelayBecomes(r, s2, g),
           user' = [user EXCEPT ![r] = u2],
           Reads(r, toRelay, toRelay', user[r], relay[r], u2, s2),
           UNCHANGED <<client, wsRelay, wsClient>>
    PROVE  HttpInv' /\ PromiseKept
BY RelayStep DEF RelayBecomes, SendFrames

\* the same, with nothing or a single signal sent
LEMMA RelaySignals ==
    ASSUME HttpInv, NEW r \in Requests, NEW u2, NEW s2,
           \/ RelayBecomes(r, s2, <<>>)
           \/ \E t \in {"REQ_DATA", "REQ_END", "REQ_ABORT", "PAUSE", "RESUME"} :
                 RelayBecomes(r, s2, <<Signal(t, r)>>),
           RelayMoves(user[r], relay[r], u2, s2),
           user' = [user EXCEPT ![r] = u2],
           Reads(r, toRelay, toRelay', user[r], relay[r], u2, s2),
           UNCHANGED <<client, wsRelay, wsClient>>
    PROVE  HttpInv' /\ PromiseKept
<1>1. CASE RelayBecomes(r, s2, <<>>)
  <2>1. <<>> \in Seq(ToClient) /\ Len(<<>>) = 0
    BY EmptySeq
  <2>2. \A i \in 1..Len(<<>>) : <<>>[i].type # "REQ_META"
    BY <2>1
  <2> QED
    BY <1>1, <2>1, <2>2, RelayBecomesStep
<1>2. ASSUME NEW t \in {"REQ_DATA", "REQ_END", "REQ_ABORT", "PAUSE", "RESUME"},
             RelayBecomes(r, s2, <<Signal(t, r)>>)
      PROVE  HttpInv' /\ PromiseKept
  <2>1. <<Signal(t, r)>> \in Seq(ToClient)
        /\ \A i \in 1..Len(<<Signal(t, r)>>) : <<Signal(t, r)>>[i].type # "REQ_META"
    BY SignalToClient
  <2> QED
    BY <1>2, <2>1, RelayBecomesStep
<1> QED
  BY <1>1, <1>2

\* what the request writer and the user's request leave alone
SameResponse(s, s2) ==
    /\ s2.phase = s.phase /\ s2.head = s.head /\ s2.queue = s.queue
    /\ s2.responseStarted = s.responseStarted /\ s2.responseEnded = s.responseEnded
    /\ s2.resEnded = s.resEnded

SameUser(u, u2) == u2.end = u.end /\ u2.got = u.got

\* A step that leaves user and response alone moves nothing.
LEMMA SameMoves ==
    ASSUME NEW u, NEW s, NEW u2 \in UserView, NEW s2 \in RelayStream,
           RelayInv(u, s), u.end # "none", SameUser(u, u2), SameResponse(s, s2)
    PROVE  RelayMoves(u, s, u2, s2) /\ Takes(u, s, u2, s2, 0)
<1>1. RelayInv(u2, s2)
  BY DEF RelayInv, SameUser, SameResponse, Taken
<1>2. PromiseStep(u, s, u2, s2)
  BY DEF PromiseStep, SameUser, SameResponse
<1>3. Taken(u2, s2) = Taken(u, s) /\ Taken(u2, s2) \in Nat
  BY TakenNat DEF Taken, SameUser, SameResponse
<1> QED
  BY <1>1, <1>2, <1>3 DEF RelayMoves, Takes, Expects, SameUser, SameResponse

\* cleanupStream
LEMMA CleanedUp ==
    ASSUME NEW s \in RelayStream, s.phase = "live", NEW how \in {"done", "aborted", "silent"}
    PROVE  /\ CleanupStream(s, how) \in RelayStream
           /\ CleanupStream(s, how).phase = how
           /\ CleanupStream(s, how).head = s.head
           /\ CleanupStream(s, how).queue = s.queue
           /\ CleanupStream(s, how).resEnded = s.resEnded
<1>1. PICK b \in BOOLEAN : b = (s.broken \/ ~s.resEnded \/ ~s.reqRead)
  OBVIOUS
<1>2. CleanupStream(s, how) =
          [NewStream EXCEPT !.phase = how, !.head = s.head, !.queue = s.queue,
                            !.resEnded = s.resEnded, !.closed = s.closed, !.broken = b]
  BY <1>1 DEF CleanupStream
<1>3. NewWriter \in Writers({"chunk"})
  BY EmptySeq DEF NewWriter, Writers
<1>4. NewStream \in RelayStream
  BY <1>3, EmptySeq DEF NewStream, RelayStream
<1> QED
  BY <1>2, <1>4, ZenonT(40) DEF NewStream, RelayStream

\* abortStream: t is the response before it, (u0, s0) what the handler found
LEMMA AbortMoves ==
    ASSUME NEW u0, NEW s0, NEW u \in UserView, NEW t \in RelayStream,
           NEW how \in {"aborted", "silent"},
           t.phase = "live", RelayInv(u, t), SameUser(u0, u), s0.head = t.head, s0.phase = "live"
    PROVE  RelayMoves(u0, s0, u, AbortStream(t, how)) /\ ~Expects(u, AbortStream(t, how))
<1> DEFINE v == AbortStream(t, how)
<1>1. u.end # "none" /\ u0.end # "none" /\ u0.end = u.end /\ u0.got = u.got
  BY DEF RelayInv, SameUser
<1>2. CASE ~t.responseStarted
  <2> DEFINE x == [t EXCEPT !.head = "error", !.resEnded = TRUE]
  <2>1. x \in RelayStream /\ x.phase = "live"
    BY DEF RelayStream
  <2>2. v = CleanupStream(x, how)
    BY <1>2 DEF AbortStream
  <2>3. x.head = "error" /\ x.queue = t.queue
    BY DEF RelayStream
  <2> HIDE DEF x, v
  <2>4. v \in RelayStream /\ v.phase = how /\ v.head = "error" /\ v.queue = t.queue
    BY <2>1, <2>2, <2>3, CleanedUp
  <2>5. t.head = "none" /\ t.queue = <<>>
    BY <1>2 DEF RelayInv
  <2>6. RelayInv(u, v)
    BY <2>4, <2>5 DEF RelayInv, Taken
  <2>7. PromiseStep(u0, s0, u, v)
    BY <2>4, <2>5, <1>1 DEF PromiseStep
  <2> QED
    BY <1>1, <2>4, <2>6, <2>7 DEF RelayMoves, Expects, v
<1>3. CASE t.responseStarted
  <2>1. PICK x \in RelayStream : /\ v = CleanupStream(x, how) /\ x.phase = "live"
                                /\ x.head = t.head /\ x.queue = t.queue
    <3>1. CASE t.responseEnded
      BY <1>3, <3>1 DEF AbortStream
    <3>2. CASE ~t.responseEnded
      <4> DEFINE y == [t EXCEPT !.resEnded = TRUE, !.broken = TRUE]
      <4>1. y \in RelayStream /\ y.phase = "live" /\ y.head = t.head /\ y.queue = t.queue
        BY DEF RelayStream
      <4>2. v = CleanupStream(y, how)
        BY <1>3, <3>2 DEF AbortStream
      <4> QED
        BY <4>1, <4>2
    <3> QED
      BY <3>1, <3>2
  <2> HIDE DEF v
  <2>2. v \in RelayStream /\ v.phase = how /\ v.head = t.head /\ v.queue = t.queue
    BY <2>1, CleanedUp
  <2>3. t.head # "none"
    BY <1>3 DEF RelayInv
  <2>4. RelayInv(u, v)
    BY <2>2, <2>3 DEF RelayInv, Taken
  <2>5. PromiseStep(u0, s0, u, v)
    BY <2>2, <1>1 DEF PromiseStep
  <2> QED
    BY <1>1, <2>2, <2>4, <2>5 DEF RelayMoves, Expects, v
<1> QED
  BY <1>2, <1>3

\* HttpInv, spelled out for the records of one request
LEMMA RequestFacts ==
    ASSUME HttpInv, NEW r \in Requests
    PROVE  /\ user[r] \in UserView /\ relay[r] \in RelayStream /\ client[r] \in LocalRequest
           /\ toClient \in Seq(ToClient) /\ toRelay \in Seq(ToRelay)
           /\ RelayInv(user[r], relay[r]) /\ ClientInv(client[r])
           /\ FreshInv(r, user[r], relay[r], client[r], toRelay)
           /\ MetaInv(r, user[r], client[r], toClient)
           /\ WireInv(r, user[r], relay[r], client[r], wsRelay, toRelay)
           /\ user = [user EXCEPT ![r] = user[r]]
<1>1. TypeOK /\ Inv(r)
  BY DEF HttpInv
<1> QED
  BY <1>1 DEF TypeOK, Inv, StreamInv

LEMMA ReqDataFrames ==
    ASSUME NEW r \in Requests, NEW n \in Nat
    PROVE  LET data == [i \in 1..n |-> Signal("REQ_DATA", r)]
           IN  /\ data \in Seq(ToClient)
               /\ \A i \in 1..Len(data) : data[i].type # "REQ_META"
               /\ Append(data, Signal("REQ_END", r)) \in Seq(ToClient)
               /\ \A i \in 1..Len(Append(data, Signal("REQ_END", r))) :
                      Append(data, Signal("REQ_END", r))[i].type # "REQ_META"
<1> DEFINE data == [i \in 1..n |-> Signal("REQ_DATA", r)]
           more == Append(data, Signal("REQ_END", r))
<1>1. data \in [1..n -> ToClient] /\ \A i \in 1..n : data[i].type # "REQ_META"
  BY SignalToClient
<1>2. data \in Seq(ToClient)
  BY <1>1, SeqDef
<1>3. Len(data) = n
  BY <1>1, <1>2, LenProperties
<1>4. /\ more \in Seq(ToClient) /\ Len(more) = n + 1
      /\ \A i \in 1..n : more[i] = data[i]
      /\ more[n + 1] = Signal("REQ_END", r)
  BY <1>2, <1>3, SignalToClient, AppendProperties
<1>5. \A i \in 1..Len(more) : more[i].type # "REQ_META"
  <2> HIDE DEF more, data
  <2> TAKE i \in 1..Len(more)
  <2>1. CASE i = n + 1
    BY <2>1, <1>4, SignalToClient
  <2>2. CASE i \in 1..n
    BY <2>2, <1>1, <1>4
  <2> QED
    BY <2>1, <2>2, <1>4
<1> QED
  BY <1>1, <1>2, <1>3, <1>4, <1>5

\* the body of the request: whatever its writer does, the response is what it was, or
\* the stream is aborted
LEMMA RequestWriterStep ==
    ASSUME HttpInv, NEW r \in Requests, Live(r), NEW u2 \in UserView, NEW s \in RelayStream, NEW o,
           SameUser(user[r], u2), SameResponse(relay[r], s),
           o.writer \in Writers({"chunk"}), o.sent \in Seq({"chunk"}),
           RequestWriterBecomes(r, s, o), user' = [user EXCEPT ![r] = u2],
           UNCHANGED <<client, wsRelay, wsClient, toRelay>>
    PROVE  HttpInv' /\ PromiseKept
<1> DEFINE t == [s EXCEPT !.writer = o.writer]
           data == [i \in 1..Len(o.sent) |-> Signal("REQ_DATA", r)]
<1>1. t \in RelayStream /\ SameResponse(relay[r], t)
  BY DEF RelayStream, SameResponse
<1>2. /\ user[r].end # "none" /\ RelayInv(user[r], relay[r]) /\ relay[r].phase = "live"
  BY RequestFacts DEF RelayInv, Live
<1>3. RelayMoves(user[r], relay[r], u2, t) /\ Takes(user[r], relay[r], u2, t, 0)
  BY <1>1, <1>2, SameMoves
<1>4. RelayMoves(user[r], relay[r], u2, AbortStream(t, "silent"))
      /\ Takes(user[r], relay[r], u2, AbortStream(t, "silent"), 0)
  <2>1. RelayInv(u2, t) /\ t.phase = "live" /\ relay[r].head = t.head
    BY <1>1, <1>2, <1>3 DEF RelayMoves, SameResponse
  <2> HIDE DEF t
  <2> QED
    BY <1>1, <1>2, <2>1, AbortMoves DEF Takes
<1>5. Len(o.sent) \in Nat
  BY LenProperties
<1>6. /\ data \in Seq(ToClient) /\ \A i \in 1..Len(data) : data[i].type # "REQ_META"
      /\ Append(data, Signal("REQ_END", r)) \in Seq(ToClient)
      /\ \A i \in 1..Len(Append(data, Signal("REQ_END", r))) :
             Append(data, Signal("REQ_END", r))[i].type # "REQ_META"
  BY <1>5, ReqDataFrames
<1>7. \/ RelayBecomes(r, AbortStream(t, "silent"), data)
      \/ RelayBecomes(r, t, Append(data, Signal("REQ_END", r)))
      \/ RelayBecomes(r, t, data)
  BY DEF RequestWriterBecomes
<1> HIDE DEF t, data
<1>8. \A s2 : Takes(user[r], relay[r], u2, s2, 0)
             => Reads(r, toRelay, toRelay', user[r], relay[r], u2, s2)
  BY DEF Reads
<1> QED
  BY <1>3, <1>4, <1>6, <1>7, <1>8, RelayBecomesStep

LEMMA BodyChunkStep ==
    ASSUME HttpInv, NEW r \in Requests, BodyChunk(r)
    PROVE  HttpInv' /\ PromiseKept
<1> DEFINE u2 == [user[r] EXCEPT !.body = @ - 1]
           w == relay[r].writer
<1>1. u2 \in UserView /\ SameUser(user[r], u2) /\ user' = [user EXCEPT ![r] = u2]
  <2>1. user[r] \in UserView /\ user[r].body \in 0..BodyChunks /\ user[r].body > 0
    BY RequestFacts DEF BodyChunk, UserView
  <2>2. user[r].body - 1 \in 0..BodyChunks
    BY <2>1, HttpAssumption
  <2>3. u2 \in UserView /\ SameUser(user[r], u2)
    BY <2>1, <2>2 DEF UserView, SameUser
  <2>4. user' = [user EXCEPT ![r] = u2]
    BY DEF BodyChunk
  <2> QED
    BY <2>3, <2>4
<1>2. PICK o \in Write(w, "chunk", wsRelay = "open") : RequestWriterBecomes(r, relay[r], o)
  BY DEF BodyChunk
<1>3. w \in Writers({"chunk"})
  BY RequestFacts DEF RelayStream
<1>4. o.writer \in Writers({"chunk"}) /\ o.sent \in Seq({"chunk"})
  BY <1>3, WriteTurn DEF IsTurn
<1> HIDE DEF u2
<1> QED
  BY <1>1, <1>2, <1>4, RequestFacts, RequestWriterStep DEF BodyChunk, SameResponse

LEMMA BodyEndStep ==
    ASSUME HttpInv, NEW r \in Requests, BodyEnd(r)
    PROVE  HttpInv' /\ PromiseKept
<1> DEFINE s == [relay[r] EXCEPT !.reqRead = TRUE]
           o == Outcome(End(relay[r].writer), <<>>)
<1>1. relay[r].writer \in Writers({"chunk"})
  BY RequestFacts DEF RelayStream
<1>2. o.writer \in Writers({"chunk"}) /\ o.sent \in Seq({"chunk"})
  BY <1>1, EndTurn DEF IsTurn
<1>3. s \in RelayStream /\ SameResponse(relay[r], s)
  BY RequestFacts DEF RelayStream, SameResponse
<1>4. RequestWriterBecomes(r, s, o)
  BY DEF BodyEnd
<1> HIDE DEF s, o
<1> QED
  BY <1>2, <1>3, <1>4, RequestFacts, RequestWriterStep DEF BodyEnd, SameUser

LEMMA RequestDrainedStep ==
    ASSUME HttpInv, NEW r \in Requests, RequestDrained(r)
    PROVE  HttpInv' /\ PromiseKept
<1> DEFINE w == relay[r].writer
<1>1. PICK o \in Drained(w, wsRelay = "open") \cup {Outcome(Failed(w), <<>>)} :
          RequestWriterBecomes(r, relay[r], o)
  BY DEF RequestDrained
<1>2. w \in Writers({"chunk"})
  BY RequestFacts DEF RelayStream
<1>3. IsTurn({"chunk"}, w, o)
  BY <1>2, PumpTurn, FailedTurn DEF Drained
<1>4. o.writer \in Writers({"chunk"}) /\ o.sent \in Seq({"chunk"})
  BY <1>3 DEF IsTurn
<1> QED
  BY <1>1, <1>4, RequestFacts, RequestWriterStep DEF RequestDrained, SameUser, SameResponse

\* The kernel takes the next slice of the response: its user gets just that.
LEMMA FlushMoves ==
    ASSUME NEW u \in UserView, NEW s \in RelayStream, NEW p \in BOOLEAN, NEW u2,
           RelayInv(u, s), s.queue # <<>>, u.end # "none",
           u2 = IF u.end = "open" THEN [u EXCEPT !.got = Append(@, Head(s.queue))] ELSE u
    PROVE  LET s2 == [s EXCEPT !.queue = Tail(@), !.responsePaused = p]
           IN  RelayMoves(u, s, u2, s2) /\ Takes(u, s, u2, s2, 0)
<1> DEFINE s2 == [s EXCEPT !.queue = Tail(@), !.responsePaused = p]
           l == Len(u.got)
           k == Len(s.queue)
<1>1. /\ u.got \in Seq(1..Slices) /\ l \in Nat
      /\ s.queue \in Seq(1..Slices) /\ k \in Nat
      /\ Taken(u, s) = l + k
  BY TakenNat DEF Taken
<1>2. /\ Tail(s.queue) \in Seq(1..Slices) /\ Len(Tail(s.queue)) = k - 1
      /\ Head(s.queue) \in 1..Slices
      /\ \A i \in 1..Len(Tail(s.queue)) : Tail(s.queue)[i] = s.queue[i + 1]
  BY <1>1, HeadTailProperties
<1>3. k \in Nat \ {0} /\ Head(s.queue) = s.queue[1]
  BY <1>1, EmptySeq
<1>4. /\ s2 \in RelayStream /\ s2.phase = s.phase /\ s2.head = s.head
      /\ s2.queue = Tail(s.queue) /\ s2.responseStarted = s.responseStarted
      /\ s2.responseEnded = s.responseEnded /\ s2.resEnded = s.resEnded
  BY <1>2 DEF RelayStream
<1>5. s.head = "local"
  BY DEF RelayInv
<1> HIDE DEF s2, l, k
<1>6. CASE u.end = "open"
  <2>1. /\ u2 \in UserView /\ u2.end = u.end /\ u2.got = Append(u.got, Head(s.queue))
    <3>1. Append(u.got, Head(s.queue)) \in Seq(1..Slices)
      BY <1>1, <1>2, AppendProperties
    <3> QED
      BY <1>6, <3>1 DEF UserView
  <2>2. Len(u2.got) = l + 1
    BY <1>1, <1>2, <2>1, AppendProperties DEF l
  <2>3. /\ Taken(u, s) <= Slices /\ s.phase # "done"
        /\ \A i \in 1..k : s.queue[i] = l + i
    BY <1>6 DEF RelayInv, l, k
  <2>4. Head(s.queue) = l + 1 /\ l < Slices
    <3>1. 1 \in 1..k /\ k \in Nat \ {0} /\ l \in Nat /\ Slices \in Nat
      BY <1>1, <1>3, HttpAssumption
    <3>2. Head(s.queue) = l + 1
      BY <1>3, <2>3, <3>1
    <3>3. l + k <= Slices
      BY <1>1, <2>3
    <3>4. l < Slices
      BY <3>1, <3>3
    <3> QED
      BY <3>2, <3>4
  <2>5. Taken(u2, s2) = Taken(u, s) /\ Taken(u2, s2) \in Nat
    <3>1. Taken(u2, s2) = Len(u2.got) + Len(s2.queue)
      BY DEF Taken
    <3>2. Taken(u2, s2) = (l + 1) + (k - 1)
      BY <3>1, <1>2, <1>4, <2>2
    <3>3. k \in Nat \ {0} /\ l \in Nat
      BY <1>1, <1>3
    <3>4. (l + 1) + (k - 1) = l + k /\ l + k \in Nat
      BY <3>3
    <3> QED
      BY <1>1, <3>2, <3>4
  <2>6. \A i \in 1..Len(s2.queue) : s2.queue[i] = Len(u2.got) + i
    <3> TAKE i \in 1..Len(s2.queue)
    <3>1. i \in Nat /\ i + 1 \in 1..k /\ s2.queue[i] = s.queue[i + 1]
      BY <1>2, <1>3, <1>4
    <3>2. s.queue[i + 1] = l + (i + 1)
      BY <3>1, <2>3
    <3>3. l + (i + 1) = (l + 1) + i
      BY <3>1, <1>1
    <3> QED
      BY <3>1, <3>2, <3>3, <2>2
  <2>7. RelayInv(u2, s2)
    BY <1>4, <1>5, <1>6, <2>1, <2>3, <2>5, <2>6 DEF RelayInv
  <2>8. PromiseStep(u, s, u2, s2)
    BY <1>4, <1>5, <1>6, <2>1, <2>4 DEF PromiseStep, l
  <2> QED
    BY <1>4, <1>6, <2>1, <2>5, <2>7, <2>8 DEF RelayMoves, Takes, Expects, s2
<1>7. CASE u.end # "open"
  <2>1. u2 = u
    BY <1>7
  <2>2. RelayInv(u, s2)
    BY <1>4, <1>5, <1>7 DEF RelayInv
  <2>3. PromiseStep(u, s, u, s2)
    BY <1>4 DEF PromiseStep
  <2> QED
    BY <1>4, <1>7, <2>1, <2>2, <2>3 DEF RelayMoves, Takes, Expects, s2
<1> QED
  BY <1>6, <1>7

LEMMA FlushStep ==
    ASSUME HttpInv, NEW r \in Requests, Flush(r)
    PROVE  HttpInv' /\ PromiseKept
<1>1. PICK p \in BOOLEAN :
          \/ RelayBecomes(r, [relay[r] EXCEPT !.queue = Tail(@), !.responsePaused = p], <<>>)
          \/ RelayBecomes(r, [relay[r] EXCEPT !.queue = Tail(@), !.responsePaused = p],
                          <<Signal("RESUME", r)>>)
  <2>1. PICK p \in BOOLEAN :
            p = (relay[r].responsePaused
                 /\ ~(Len(relay[r].queue) = 1 /\ relay[r].responsePaused /\ ~relay[r].resEnded
                      /\ relay[r].phase = "live"))
    OBVIOUS
  <2> QED
    BY <2>1 DEF Flush
<1> DEFINE u2 == IF user[r].end = "open"
                   THEN [user[r] EXCEPT !.got = Append(@, Head(relay[r].queue))] ELSE user[r]
           s2 == [relay[r] EXCEPT !.queue = Tail(@), !.responsePaused = p]
<1>2. relay[r].queue # <<>> /\ user[r].end # "none"
  BY RequestFacts DEF Flush, FreshInv
<1>3. RelayMoves(user[r], relay[r], u2, s2) /\ Takes(user[r], relay[r], u2, s2, 0)
  BY <1>2, RequestFacts, FlushMoves
<1>4. user' = [user EXCEPT ![r] = u2]
  BY RequestFacts DEF Flush
<1> HIDE DEF u2
<1>5. Reads(r, toRelay, toRelay', user[r], relay[r], u2, s2)
  BY <1>3 DEF Reads, Flush
<1> QED
  BY <1>1, <1>3, <1>4, <1>5, RelaySignals DEF Flush

\* a step that aborts the stream when its record is t; nothing or a frame of it is read
LEMMA AbortStep ==
    ASSUME HttpInv, NEW r \in Requests, NEW t \in RelayStream, Live(r),
           t.phase = "live", t.head = relay[r].head, RelayInv(user[r], t),
           \/ RelayBecomes(r, AbortStream(t, "silent"), <<>>)
           \/ AbortAndNotify(r, t),
           \/ toRelay' = toRelay
           \/ toRelay # <<>> /\ toRelay' = Tail(toRelay) /\ Head(toRelay).stream = r,
           UNCHANGED <<user, client, wsRelay, wsClient>>
    PROVE  HttpInv' /\ PromiseKept
<1>1. user' = [user EXCEPT ![r] = user[r]] /\ user[r] \in UserView /\ relay[r].phase = "live"
  BY RequestFacts DEF Live
<1>2. ASSUME NEW how \in {"aborted", "silent"}
      PROVE  /\ RelayMoves(user[r], relay[r], user[r], AbortStream(t, how))
             /\ Reads(r, toRelay, toRelay', user[r], relay[r], user[r], AbortStream(t, how))
  <2>1. RelayMoves(user[r], relay[r], user[r], AbortStream(t, how))
        /\ ~Expects(user[r], AbortStream(t, how))
    BY <1>1, AbortMoves DEF SameUser
  <2> QED
    BY <2>1 DEF Reads, Takes
<1>3. CASE RelayBecomes(r, AbortStream(t, "silent"), <<>>)
  BY <1>1, <1>2, <1>3, RelaySignals
<1>4. CASE AbortAndNotify(r, t)
  BY <1>1, <1>2, <1>4, RelaySignals DEF AbortAndNotify
<1> QED
  BY <1>3, <1>4

LEMMA RelayIdleStep ==
    ASSUME HttpInv, NEW r \in Requests, RelayIdle(r)
    PROVE  HttpInv' /\ PromiseKept
BY RequestFacts, AbortStep DEF RelayIdle, Live

\* 'finish': a response that is complete was ended by RES_END, or by an abort.
LEMMA FinishMoves ==
    ASSUME NEW u \in UserView, NEW s \in RelayStream, NEW u2, NEW s2, RelayInv(u, s), u.end # "none",
           s.resEnded, s.queue = <<>>, s.phase = "live" \/ u.end = "open",
           s2 = CleanupStream([s EXCEPT !.responseEnded = TRUE], "done"),
           u2 = IF u.end = "open" THEN [u EXCEPT !.end = "complete"] ELSE u
    PROVE  RelayMoves(u, s, u2, s2) /\ Takes(u, s, u2, s2, 0)
<1> DEFINE t == [s EXCEPT !.responseEnded = TRUE]
<1>1. /\ t \in RelayStream /\ t.phase = s.phase /\ t.head = s.head /\ t.queue = <<>>
      /\ t.resEnded = s.resEnded /\ t.responseStarted = s.responseStarted
  BY DEF RelayStream
<1>2. /\ u2 \in UserView /\ u2.got = u.got /\ u2.end # "open"
      /\ u2.end = IF u.end = "open" THEN "complete" ELSE u.end
  BY DEF UserView
<1>3. s2 = CleanupStream(t, "done")
  OBVIOUS
<1> HIDE DEF t
<1>4. /\ s2 \in RelayStream /\ s2.head = s.head /\ s2.queue = <<>> /\ s2.resEnded
      /\ s2.phase = IF s.phase = "live" THEN "done" ELSE s.phase
  <2>1. CASE s.phase = "live"
    <3>0. t \in RelayStream /\ t.phase = "live" /\ "done" \in {"done", "aborted", "silent"}
      BY <1>1, <2>1
    <3>1. /\ s2 \in RelayStream /\ s2.phase = "done" /\ s2.head = t.head /\ s2.queue = t.queue
          /\ s2.resEnded = t.resEnded
      <4> DEFINE v == CleanupStream(t, "done")
      <4>1. /\ v \in RelayStream /\ v.phase = "done" /\ v.head = t.head /\ v.queue = t.queue
            /\ v.resEnded = t.resEnded
        BY <3>0, CleanedUp
      <4>2. s2 = v
        BY <1>3
      <4> HIDE DEF v
      <4> QED
        BY <4>1, <4>2
    <3>2. s2.resEnded
      BY <1>1, <3>1
    <3> QED
      BY <1>1, <2>1, <3>1, <3>2
  <2>2. CASE s.phase # "live"
    BY <1>1, <1>3, <2>2 DEF CleanupStream
  <2> QED
    BY <2>1, <2>2
<1>5. s.head # "none"
  BY DEF RelayInv
<1>6. u2.end = "complete" /\ s2.phase = "done" => Len(u2.got) = Slices
  <2>1. CASE s.phase = "live" /\ u.end = "open"
    <3>1. Taken(u, s) = Slices
      BY <2>1 DEF RelayInv
    <3>2. Len(u.got) \in Nat /\ Len(s.queue) = 0
      BY TakenNat, EmptySeq
    <3> QED
      BY <1>2, <3>1, <3>2 DEF Taken
  <2>2. CASE s.phase = "live" /\ u.end # "open"
    BY <1>2, <2>2 DEF RelayInv
  <2>3. CASE s.phase # "live"
    BY <1>4, <2>3 DEF RelayInv
  <2> QED
    BY <2>1, <2>2, <2>3
<1>7. RelayInv(u2, s2)
  BY <1>2, <1>4, <1>5, <1>6 DEF RelayInv
<1>8. PromiseStep(u, s, u2, s2)
  BY <1>2, <1>4, <1>5 DEF PromiseStep
<1> QED
  BY <1>2, <1>4, <1>7, <1>8 DEF RelayMoves, Takes, Expects

LEMMA FinishStep ==
    ASSUME HttpInv, NEW r \in Requests, Finish(r)
    PROVE  HttpInv' /\ PromiseKept
<1> DEFINE u2 == IF user[r].end = "open" THEN [user[r] EXCEPT !.end = "complete"] ELSE user[r]
           s2 == CleanupStream([relay[r] EXCEPT !.responseEnded = TRUE], "done")
<1>1. /\ relay[r].resEnded /\ relay[r].queue = <<>>
      /\ relay[r].phase = "live" \/ user[r].end = "open"
      /\ user[r].end # "none"
  BY RequestFacts DEF Finish, Live, FreshInv
<1>2. RelayMoves(user[r], relay[r], u2, s2) /\ Takes(user[r], relay[r], u2, s2, 0)
  BY <1>1, RequestFacts, FinishMoves
<1>3. user' = [user EXCEPT ![r] = u2] /\ RelayBecomes(r, s2, <<>>)
  BY RequestFacts DEF Finish
<1> HIDE DEF u2, s2
<1> QED
  BY <1>2, <1>3, RelaySignals DEF Finish, Reads

\* The user's connection was destroyed, or the user leaves.
LEMMA CutOrLeaveStep ==
    ASSUME HttpInv, NEW r \in Requests, Cut(r) \/ Leave(r)
    PROVE  HttpInv' /\ PromiseKept
<1> DEFINE cut == [relay[r] EXCEPT !.queue = <<>>, !.closed = TRUE]
<1>1. PICK e \in {"cut", "left"}, s2 \in {relay[r], cut} :
          user' = [user EXCEPT ![r] = [user[r] EXCEPT !.end = e]] /\ relay' = [relay EXCEPT ![r] = s2]
  <2>1. relay = [relay EXCEPT ![r] = relay[r]]
    BY DEF HttpInv, TypeOK
  <2> QED
    BY <2>1 DEF Cut, Leave, HttpInv, TypeOK
<1> DEFINE u2 == [user[r] EXCEPT !.end = e]
<1>2. u2 \in UserView /\ u2.end = e /\ u2.got = user[r].got
  BY RequestFacts DEF UserView
<1>3. /\ cut \in RelayStream /\ cut.phase = relay[r].phase /\ cut.head = relay[r].head
      /\ cut.queue = <<>> /\ cut.resEnded = relay[r].resEnded
      /\ cut.responseStarted = relay[r].responseStarted /\ cut.responseEnded = relay[r].responseEnded
  BY RequestFacts, EmptySeq DEF RelayStream
<1>4. user[r].end = "open"
  BY DEF Cut, Leave
<1> HIDE DEF cut, u2
<1>5. RelayInv(u2, s2) /\ s2 \in RelayStream /\ s2.head = relay[r].head
  BY <1>2, <1>3, RequestFacts DEF RelayInv
<1>6. PromiseStep(user[r], relay[r], u2, s2)
  BY <1>2, <1>4, <1>5 DEF PromiseStep
<1>7. RelayMoves(user[r], relay[r], u2, s2) /\ Takes(user[r], relay[r], u2, s2, 0)
  BY <1>2, <1>5, <1>6 DEF RelayMoves, Takes, Expects
<1>8. user' = [user EXCEPT ![r] = u2]
  BY <1>1 DEF u2
<1>9. UNCHANGED <<client, wsRelay, wsClient, toClient, toRelay>>
  BY DEF Cut, Leave
<1> QED
  BY <1>1, <1>7, <1>8, <1>9, RelayStep DEF Reads

\* 'close' of the user's socket
LEMMA UserClosedStep ==
    ASSUME HttpInv, NEW r \in Requests, UserClosed(r)
    PROVE  HttpInv' /\ PromiseKept
<1> DEFINE t == [relay[r] EXCEPT !.closed = TRUE, !.queue = <<>>, !.broken = TRUE]
<1>1. user[r].end = "left" /\ relay[r].phase = "live" /\ Live(r)
  BY DEF UserClosed, Live
<1>2. /\ t \in RelayStream /\ t.phase = relay[r].phase /\ t.head = relay[r].head
      /\ t.queue = <<>> /\ t.resEnded = relay[r].resEnded
      /\ t.responseStarted = relay[r].responseStarted /\ t.responseEnded = relay[r].responseEnded
  BY RequestFacts, EmptySeq DEF RelayStream
<1>3. \/ AbortAndNotify(r, t)
      \/ RelayBecomes(r, CleanupStream(t, "done"), <<>>)
      \/ RelayBecomes(r, t, <<>>)
  BY DEF UserClosed
<1> HIDE DEF t
<1>4. RelayInv(user[r], t)
  BY <1>1, <1>2, RequestFacts DEF RelayInv
<1>5. UNCHANGED <<user, client, wsRelay, wsClient, toRelay>>
  BY DEF UserClosed
<1>6. CASE AbortAndNotify(r, t)
  BY <1>1, <1>2, <1>4, <1>5, <1>6, AbortStep
<1>7. CASE \/ RelayBecomes(r, CleanupStream(t, "done"), <<>>)
           \/ RelayBecomes(r, t, <<>>)
  <2>1. PICK s2 \in {CleanupStream(t, "done"), t} : RelayBecomes(r, s2, <<>>)
    BY <1>7
  <2>2. /\ s2 \in RelayStream /\ s2.phase \in {"live", "done"} /\ s2.head = relay[r].head
        /\ s2.queue = <<>> /\ s2.resEnded = relay[r].resEnded
        /\ s2.phase = "live" => s2 = t
    BY <1>1, <1>2, <2>1, CleanedUp
  <2>3. RelayInv(user[r], s2)
    BY <1>1, <1>4, <2>2, RequestFacts DEF RelayInv
  <2>4. RelayMoves(user[r], relay[r], user[r], s2) /\ Takes(user[r], relay[r], user[r], s2, 0)
    BY <1>1, <2>2, <2>3, RequestFacts DEF RelayMoves, Takes, Expects, PromiseStep
  <2>5. user' = [user EXCEPT ![r] = user[r]]
    BY <1>5, RequestFacts
  <2> QED
    BY <1>5, <2>1, <2>4, <2>5, RelaySignals DEF Reads
<1> QED
  BY <1>3, <1>6, <1>7

\* A request that is refused at once.
LEMMA RefuseStep ==
    ASSUME HttpInv, NEW r \in Requests, Refuse(r)
    PROVE  HttpInv' /\ PromiseKept
<1> DEFINE u2 == [user[r] EXCEPT !.end = "complete"]
           s2 == [relay[r] EXCEPT !.head = "error"]
<1>1. /\ user[r].end = "none" /\ relay[r].head = "none" /\ relay[r].phase = "none"
      /\ relay[r].queue = <<>> /\ ~relay[r].resEnded
  BY RequestFacts DEF Refuse, FreshInv
<1>2. u2 \in UserView /\ u2.end = "complete" /\ u2.got = user[r].got
  BY RequestFacts DEF UserView
<1>3. /\ s2 \in RelayStream /\ s2.head = "error" /\ s2.phase = "none" /\ s2.queue = <<>>
      /\ ~s2.resEnded
  BY <1>1, RequestFacts DEF RelayStream
<1>4. user' = [user EXCEPT ![r] = u2] /\ relay' = [relay EXCEPT ![r] = s2]
  BY DEF Refuse, HttpInv, TypeOK
<1> HIDE DEF u2, s2
<1>5. RelayInv(u2, s2) /\ PromiseStep(user[r], relay[r], u2, s2)
  BY <1>1, <1>2, <1>3 DEF RelayInv, PromiseStep
<1>6. RelayMoves(user[r], relay[r], u2, s2) /\ Takes(user[r], relay[r], u2, s2, 0)
  BY <1>2, <1>3, <1>5 DEF RelayMoves, Takes, Expects
<1> QED
  BY <1>4, <1>6, RelayStep DEF Refuse, Reads

\* A new request: nothing of it is on the wires yet but its REQ_META.
LEMMA AskStep ==
    ASSUME HttpInv, NEW r \in Requests, Ask(r)
    PROVE  HttpInv' /\ PromiseKept
<1> DEFINE s2 == [relay[r] EXCEPT !.phase = "live"]
           g == <<Signal("REQ_META", r)>>
<1>1. PICK size \in 0..BodyChunks :
          user' = [user EXCEPT ![r].end = "open", ![r].body = size, ![r].size = size]
  BY DEF Ask
<1> DEFINE u2 == [user[r] EXCEPT !.end = "open", !.body = size, !.size = size]
<1>2. /\ user[r] \in UserView /\ relay[r] \in RelayStream /\ client[r] \in LocalRequest
      /\ user[r].end = "none" /\ relay[r].phase = "none" /\ relay[r].head = "none"
      /\ relay[r].queue = <<>> /\ ~relay[r].responseStarted /\ ~relay[r].responseEnded
      /\ ~relay[r].resEnded /\ user[r].got = <<>> /\ client[r].phase = "none"
      /\ \A i \in 1..Len(toRelay) : toRelay[i].stream # r
  BY RequestFacts DEF Ask, FreshInv
<1>3. u2 \in UserView /\ u2.end = "open" /\ u2.got = <<>>
  BY <1>2 DEF UserView
<1>4. /\ s2 \in RelayStream /\ s2.head = "none" /\ s2.phase = "live" /\ s2.queue = <<>>
      /\ ~s2.responseStarted /\ ~s2.responseEnded /\ ~s2.resEnded
  BY <1>2 DEF RelayStream
<1>5. g \in Seq(ToClient) /\ Len(g) = 1 /\ g[1].stream = r /\ IsMeta(g[1], r)
  BY SignalToClient DEF IsMeta
<1>6. /\ user' = [user EXCEPT ![r] = u2] /\ relay' = [relay EXCEPT ![r] = s2]
      /\ toClient' = toClient \o g
      /\ UNCHANGED <<client, wsRelay, wsClient, toRelay>>
  BY <1>1 DEF Ask, RelayBecomes, SendFrames, HttpInv, TypeOK
<1> HIDE DEF u2, s2, g
<1>7. TypeOK'
  BY <1>3, <1>4, <1>5, <1>6, ConcatProperties DEF HttpInv, TypeOK
<1>8. /\ user'[r] = u2 /\ relay'[r] = s2
      /\ \A q \in Requests \ {r} : user'[q] = user[q] /\ relay'[q] = relay[q]
  BY <1>6 DEF HttpInv, TypeOK
<1>9. Inv(r)'
  <2>1. RelayInv(u2, s2) /\ FreshInv(r, u2, s2, client[r], toRelay)
    BY <1>3, <1>4, HttpAssumption, EmptySeq DEF RelayInv, FreshInv, Taken
  <2>2. MetaInv(r, u2, client[r], toClient \o g)
    <3>1. \A i \in 1..Len(toClient) : ~IsMeta(toClient[i], r)
      BY <1>2, RequestFacts DEF MetaInv
    <3>0. toClient \in Seq(ToClient) /\ g \in Seq(ToClient) /\ Len(g) = 1 /\ Len(toClient) \in Nat
      BY <1>5, RequestFacts, LenProperties
    <3>2. /\ Len(toClient) \in Nat /\ Len(toClient \o g) = Len(toClient) + 1
          /\ \A i \in 1..(Len(toClient) + 1) :
                 (toClient \o g)[i] = IF i <= Len(toClient) THEN toClient[i] ELSE g[i - Len(toClient)]
      BY <3>0, ConcatProperties, SMTT(20)
    <3>3. \A i \in 1..Len(toClient \o g) : IsMeta((toClient \o g)[i], r) => i = Len(toClient) + 1
      BY <3>1, <3>2
    <3> QED
      BY <1>2, <1>3, <3>3 DEF MetaInv
  <2>3. WireInv(r, u2, s2, client[r], wsRelay, toRelay)
    <3>1. 0 \in 0..Slices /\ HasSent(client[r], 0) /\ Taken(u2, s2) = 0
      BY <1>2, <1>3, <1>4, HttpAssumption, EmptySeq DEF HasSent, Taken
    <3>2. DataOf(toRelay, r) = {}
      BY <1>2 DEF DataOf
    <3>3. Carries(toRelay, r, 0, 0)
      BY <1>2, <3>2, HttpAssumption DEF Carries
    <3> QED
      BY <3>1, <3>3 DEF WireInv
  <2> QED
    BY <1>6, <1>8, <2>1, <2>2, <2>3, RequestFacts DEF Inv, StreamInv
<1>10. ASSUME NEW q \in Requests, q # r
       PROVE  Inv(q)'
  <2>1. OtherToClient(q, toClient, toClient') /\ OtherToRelay(q, toRelay, toRelay')
    <3>1. \A i \in 1..Len(g) : ~IsMeta(g[i], q)
      <4>1. \A i \in 1..1 : i = 1
        OBVIOUS
      <4>2. Len(g) = 1 /\ ~IsMeta(g[1], q)
        BY <1>5, <1>10 DEF IsMeta
      <4> QED
        BY <4>1, <4>2
    <3>2. g \in Seq(ToClient) /\ toClient' = toClient \o g /\ toRelay' = toRelay
      BY <1>5, <1>6
    <3> QED
      BY <3>1, <3>2 DEF OtherToClient, OtherToRelay
  <2>2. StreamInv(q, user[q], relay[q], client[q], wsRelay, toClient, toRelay)
    BY DEF HttpInv, Inv
  <2>3. StreamInv(q, user[q], relay[q], client[q], wsRelay, toClient', toRelay')
    BY <2>1, <2>2, RequestFacts, OthersKeep
  <2> QED
    BY <1>6, <1>8, <1>10, <2>3 DEF Inv
<1>11. wsClient' # "open" => \A q \in Requests : ~Open(q)'
  BY <1>6 DEF HttpInv, Open
<1>12. PromiseKept
  BY <1>2, <1>3, <1>4, <1>8 DEF PromiseKept, PromiseStep
<1> QED
  BY <1>7, <1>9, <1>10, <1>11, <1>12 DEF HttpInv

-----------------------------------------------------------------------------
(* Frames that the relay reads.                                            *)

\* a frame of r is read, and the record of r becomes s2
LEMMA ReadStep ==
    ASSUME HttpInv, NEW r \in Requests, NEW s2,
           toRelay # <<>>, toRelay' = Tail(toRelay), Head(toRelay).stream = r,
           UNCHANGED <<user, client, wsRelay, wsClient>>,
           RelayBecomes(r, s2, <<>>) \/ RelayBecomes(r, s2, <<Signal("PAUSE", r)>>),
           RelayMoves(user[r], relay[r], user[r], s2),
           Takes(user[r], relay[r], user[r], s2, IF Head(toRelay).type = "RES_DATA" THEN 1 ELSE 0)
    PROVE  HttpInv' /\ PromiseKept
<1>1. user' = [user EXCEPT ![r] = user[r]]
  BY RequestFacts
<1>2. Reads(r, toRelay, toRelay', user[r], relay[r], user[r], s2)
  BY DEF Reads
<1> QED
  BY <1>1, <1>2, RelaySignals

\* RES_META: the answer
LEMMA ResMetaMoves ==
    ASSUME NEW u \in UserView, NEW s \in RelayStream, NEW s2,
           RelayInv(u, s), s.phase = "live", ~s.responseStarted,
           s2 = [s EXCEPT !.responseStarted = TRUE, !.head = "local"]
    PROVE  RelayMoves(u, s, u, s2) /\ Takes(u, s, u, s2, 0)
<1>1. /\ s2 \in RelayStream /\ s2.phase = "live" /\ s2.head = "local" /\ s2.queue = s.queue
      /\ s2.responseStarted /\ s2.responseEnded = s.responseEnded /\ s2.resEnded = s.resEnded
  BY DEF RelayStream
<1>2. s.head = "none" /\ u.end # "none"
  BY DEF RelayInv
<1>3. Taken(u, s2) = Taken(u, s) /\ Taken(u, s) \in Nat
  BY <1>1, TakenNat DEF Taken
<1>4. RelayInv(u, s2)
  BY <1>1, <1>2, <1>3 DEF RelayInv
<1>5. PromiseStep(u, s, u, s2)
  BY <1>1, <1>2 DEF PromiseStep
<1>6. Takes(u, s, u, s2, 0)
  BY <1>1, <1>3 DEF Takes, Expects
<1> QED
  BY <1>1, <1>2, <1>4, <1>5, <1>6 DEF RelayMoves

\* RES_DATA: the next slice joins the queue
LEMMA ResDataMoves ==
    ASSUME NEW u \in UserView, NEW s \in RelayStream, NEW s2, NEW slice \in 1..Slices, NEW p \in BOOLEAN,
           RelayInv(u, s), s.phase = "live", s.responseStarted, ~s.responseEnded,
           u.end = "open" => slice = Taken(u, s) + 1,
           s2 = [s EXCEPT !.queue = Append(@, slice), !.responsePaused = p]
    PROVE  RelayMoves(u, s, u, s2) /\ Takes(u, s, u, s2, 1)
<1> DEFINE q2 == Append(s.queue, slice)
           l == Len(u.got)
           k == Len(s.queue)
<1>1. l \in Nat /\ k \in Nat /\ s.queue \in Seq(1..Slices) /\ Taken(u, s) = l + k
  BY TakenNat DEF Taken
<1>2. /\ q2 \in Seq(1..Slices) /\ Len(q2) = k + 1 /\ q2[k + 1] = slice
      /\ \A i \in 1..k : q2[i] = s.queue[i]
  BY <1>1, AppendProperties
<1>3. /\ s2 \in RelayStream /\ s2.phase = "live" /\ s2.head = s.head /\ s2.queue = q2
      /\ s2.responseStarted /\ ~s2.responseEnded /\ s2.resEnded = s.resEnded
  BY <1>2 DEF RelayStream
<1> HIDE DEF q2, l, k
<1>4. s.head = "local" /\ u.end # "none" /\ ~s.resEnded /\ u.end # "complete"
  BY DEF RelayInv
<1>5. Taken(u, s2) = Taken(u, s) + 1
  <2>1. Taken(u, s2) = l + (k + 1)
    BY <1>2, <1>3 DEF Taken, l
  <2> QED
    BY <1>1, <2>1
<1>6. u.end = "open" => /\ Taken(u, s2) <= Slices
                        /\ \A i \in 1..Len(s2.queue) : s2.queue[i] = Len(u.got) + i
  <2> HAVE u.end = "open"
  <2>1. slice = l + k + 1
    BY <1>1
  <2>2. \A i \in 1..k : s.queue[i] = l + i
    BY DEF RelayInv, l, k
  <2>3. \A i \in 1..(k + 1) : q2[i] = l + i
    <3> TAKE i \in 1..(k + 1)
    <3>1. CASE i = k + 1
      BY <3>1, <1>1, <1>2, <2>1
    <3>2. CASE i \in 1..k
      BY <3>2, <1>2, <2>2
    <3> QED
      BY <3>1, <3>2, <1>1
  <2>4. Taken(u, s2) = slice /\ slice <= Slices
    BY <1>5, HttpAssumption
  <2> QED
    BY <1>2, <1>3, <2>3, <2>4 DEF l
<1>7. RelayInv(u, s2)
  BY <1>3, <1>4, <1>6 DEF RelayInv
<1>8. PromiseStep(u, s, u, s2)
  BY <1>3 DEF PromiseStep
<1>9. Takes(u, s, u, s2, 1)
  BY <1>3, <1>5 DEF Takes, Expects
<1> QED
  BY <1>3, <1>4, <1>7, <1>8, <1>9 DEF RelayMoves

\* RES_END: the relay has taken the whole body
LEMMA ResEndMoves ==
    ASSUME NEW u \in UserView, NEW s \in RelayStream, NEW s2,
           RelayInv(u, s), s.phase = "live", s.responseStarted,
           u.end = "open" => Taken(u, s) = Slices,
           s2 = [s EXCEPT !.responseEnded = TRUE, !.resEnded = TRUE]
    PROVE  RelayMoves(u, s, u, s2) /\ Takes(u, s, u, s2, 0)
<1>1. /\ s2 \in RelayStream /\ s2.phase = "live" /\ s2.head = s.head /\ s2.queue = s.queue
      /\ s2.responseStarted /\ s2.responseEnded /\ s2.resEnded
  BY DEF RelayStream
<1>2. s.head = "local" /\ u.end # "none"
  BY DEF RelayInv
<1>3. Taken(u, s2) = Taken(u, s)
  BY <1>1 DEF Taken
<1>4. RelayInv(u, s2)
  BY <1>1, <1>2, <1>3 DEF RelayInv
<1>5. PromiseStep(u, s, u, s2)
  BY <1>1 DEF PromiseStep
<1> QED
  BY <1>1, <1>2, <1>4, <1>5 DEF RelayMoves, Takes, Expects

\* RES_ABORT: a 502, or the response is ended where it is
LEMMA ResAbortMoves ==
    ASSUME NEW u \in UserView, NEW s \in RelayStream, NEW t, NEW s2,
           RelayInv(u, s), s.phase = "live",
           t = IF ~s.responseStarted
                 THEN [s EXCEPT !.head = "error", !.responseEnded = TRUE, !.resEnded = TRUE]
                 ELSE [s EXCEPT !.resEnded = TRUE],
           s2 = CleanupStream(t, "aborted")
    PROVE  RelayMoves(u, s, u, s2) /\ Takes(u, s, u, s2, 0)
<1>1. /\ t \in RelayStream /\ t.phase = "live" /\ t.queue = s.queue /\ t.resEnded
      /\ t.head = IF s.responseStarted THEN s.head ELSE "error"
  BY DEF RelayStream
<1>2. /\ s2 \in RelayStream /\ s2.phase = "aborted" /\ s2.head = t.head /\ s2.queue = s.queue
      /\ s2.resEnded = t.resEnded
  <2> DEFINE v == CleanupStream(t, "aborted")
  <2>0. "aborted" \in {"done", "aborted", "silent"}
    OBVIOUS
  <2>1. /\ v \in RelayStream /\ v.phase = "aborted" /\ v.head = t.head /\ v.queue = t.queue
        /\ v.resEnded = t.resEnded
    BY <1>1, <2>0, CleanedUp
  <2>2. s2 = v
    OBVIOUS
  <2> HIDE DEF v
  <2> QED
    BY <1>1, <2>1, <2>2
<1>3. /\ u.end # "none" /\ u.end # "complete"
      /\ s.head = IF s.responseStarted THEN "local" ELSE "none"
      /\ s.queue # <<>> => s.head = "local"
  BY DEF RelayInv
<1>4. s2.head # "none" /\ (s2.queue # <<>> => s2.head = "local")
  BY <1>1, <1>2, <1>3
<1>5. u.end = "open" => /\ Taken(u, s2) <= Slices
                        /\ \A i \in 1..Len(s2.queue) : s2.queue[i] = Len(u.got) + i
  BY <1>2, ZenonT(40) DEF RelayInv, Taken
<1>6. RelayInv(u, s2)
  BY <1>2, <1>3, <1>4, <1>5 DEF RelayInv
<1>7. PromiseStep(u, s, u, s2)
  BY <1>1, <1>2, <1>3 DEF PromiseStep
<1> QED
  BY <1>2, <1>3, <1>6, <1>7 DEF RelayMoves, Takes, Expects

\* The relay reads what is next on the wire.
LEMMA NextSlice ==
    ASSUME HttpInv, NEW r \in Requests, wsRelay # "closed", Expects(user[r], relay[r]),
           toRelay # <<>>, Head(toRelay).stream = r
    PROVE  /\ Head(toRelay).type = "RES_DATA" =>
                  Head(toRelay).slice = Taken(user[r], relay[r]) + 1
           /\ Head(toRelay).type = "RES_END" => Taken(user[r], relay[r]) = Slices
<1>1. PICK S \in 0..Slices : Carries(toRelay, r, Taken(user[r], relay[r]), S)
  BY RequestFacts DEF WireInv
<1>2. Taken(user[r], relay[r]) \in Nat /\ S \in Nat /\ toRelay \in Seq(ToRelay)
  BY RequestFacts, TakenNat
<1> QED
  BY <1>1, <1>2, CarriesNext, CarriesEnd

LEMMA RelayFrameStep ==
    ASSUME HttpInv, RelayFrame
    PROVE  HttpInv' /\ PromiseKept
<1> DEFINE f == Head(toRelay)
           r == f.stream
           s == relay[r]
           u == user[r]
<1>1. /\ toRelay # <<>> /\ wsRelay # "closed" /\ toRelay' = Tail(toRelay)
      /\ UNCHANGED <<user, client, wsRelay, wsClient>>
  BY DEF RelayFrame
<1>2. /\ toRelay \in Seq(ToRelay) /\ f \in ToRelay /\ f = toRelay[1] /\ 1 \in 1..Len(toRelay)
  <2>1. toRelay \in Seq(ToRelay) /\ Len(toRelay) \in Nat \ {0}
    BY <1>1, LenProperties, EmptySeq DEF HttpInv, TypeOK
  <2> QED
    BY <1>1, <2>1, ElementOfSeq
<1>3. r \in Requests /\ (f.type = "RES_DATA" => f.slice \in 1..Slices)
  BY <1>2 DEF ToRelay, ResData, Signals
<1>4. /\ u \in UserView /\ s \in RelayStream /\ RelayInv(u, s)
      /\ u.end # "none"
  BY <1>2, <1>3, RequestFacts DEF FreshInv
<1>5. Expects(u, s) => /\ f.type = "RES_DATA" => f.slice = Taken(u, s) + 1
                       /\ f.type = "RES_END" => Taken(u, s) = Slices
  BY <1>1, <1>3, NextSlice
<1>6. \/ ~Live(r) /\ UNCHANGED <<relay, toClient>>
      \/ Live(r) /\ f.type = "RES_META" /\ ResMeta(r, s)
      \/ Live(r) /\ f.type = "RES_DATA" /\ ResDataFrame(r, s, f.slice)
      \/ Live(r) /\ f.type = "RES_END" /\ ResEnd(r, s)
      \/ Live(r) /\ f.type = "RES_ABORT" /\ ResAbort(r, s)
  BY DEF RelayFrame
<1>7. \A s2 : Takes(u, s, u, s2, 0) /\ f.type # "RES_DATA"
             => Takes(u, s, u, s2, IF f.type = "RES_DATA" THEN 1 ELSE 0)
  OBVIOUS
<1> HIDE DEF s, u, r
<1>8. CASE ~Live(r) /\ UNCHANGED <<relay, toClient>>
  <2>1. RelayMoves(u, s, u, s)
    BY <1>4 DEF RelayMoves, PromiseStep
  <2>2. Reads(r, toRelay, toRelay', u, s, u, s)
    BY <1>1, <1>8 DEF Reads, Takes, Expects, Live, r, s
  <2>3. user' = [user EXCEPT ![r] = u] /\ relay' = [relay EXCEPT ![r] = s]
    BY <1>1, <1>3, <1>8 DEF HttpInv, TypeOK, u, s
  <2> QED
    BY <1>1, <1>3, <1>8, <2>1, <2>2, <2>3, RelayStep DEF u, s
<1>9. ASSUME Live(r), RelayBecomes(r, AbortStream(s, "silent"), <<>>) \/ AbortAndNotify(r, s)
      PROVE  HttpInv' /\ PromiseKept
  <2>1. s.phase = "live" /\ s.head = relay[r].head /\ RelayInv(user[r], s)
    BY <1>4, <1>9 DEF Live, s, u
  <2> QED
    BY <1>1, <1>3, <1>4, <1>9, <2>1, AbortStep DEF r
<1>10. ASSUME NEW s2, RelayBecomes(r, s2, <<>>) \/ RelayBecomes(r, s2, <<Signal("PAUSE", r)>>),
              RelayMoves(u, s, u, s2),
              Takes(u, s, u, s2, IF f.type = "RES_DATA" THEN 1 ELSE 0)
       PROVE  HttpInv' /\ PromiseKept
  BY <1>1, <1>3, <1>10, ReadStep DEF u, s, r
<1>11. CASE Live(r) /\ f.type = "RES_META" /\ ResMeta(r, s)
  <2> DEFINE s2 == [s EXCEPT !.responseStarted = TRUE, !.head = "local"]
  <2>1. CASE ~s.responseStarted /\ RelayBecomes(r, s2, <<>>)
    <3>1. RelayMoves(u, s, u, s2) /\ Takes(u, s, u, s2, 0)
      BY <1>4, <1>11, <2>1, ResMetaMoves DEF Live, s
    <3> QED
      BY <1>7, <1>10, <1>11, <2>1, <3>1
  <2>2. CASE RelayBecomes(r, AbortStream(s, "silent"), <<>>)
    BY <1>9, <1>11, <2>2
  <2> QED
    BY <1>11, <2>1, <2>2 DEF ResMeta
<1>12. CASE Live(r) /\ f.type = "RES_DATA" /\ ResDataFrame(r, s, f.slice)
  <2>1. CASE ~s.responseStarted \/ (~s.responseEnded /\ Len(s.queue) > MaxDest)
    BY <1>9, <1>12, <2>1 DEF ResDataFrame
  <2>2. CASE s.responseStarted /\ s.responseEnded
    <3>1. RelayBecomes(r, s, <<>>)
      BY <1>12, <2>2 DEF ResDataFrame
    <3>2. RelayMoves(u, s, u, s) /\ ~Expects(u, s)
      BY <1>4, <2>2 DEF RelayMoves, PromiseStep, Expects
    <3> QED
      BY <1>10, <3>1, <3>2 DEF Takes
  <2>3. CASE s.responseStarted /\ ~s.responseEnded /\ ~(Len(s.queue) > MaxDest)
    <3> DEFINE t(p) == [s EXCEPT !.queue = Append(@, f.slice), !.responsePaused = p]
    <3>1. PICK p \in BOOLEAN : RelayBecomes(r, t(p), <<>>)
                               \/ RelayBecomes(r, t(p), <<Signal("PAUSE", r)>>)
      <4>1. CASE Len(Append(s.queue, f.slice)) >= ResHigh /\ ~s.responsePaused
        <5>1. RelayBecomes(r, t(TRUE), <<Signal("PAUSE", r)>>)
          BY <1>4, <1>12, <2>3, <4>1 DEF ResDataFrame, RelayStream
        <5> QED
          BY <5>1
      <4>2. CASE ~(Len(Append(s.queue, f.slice)) >= ResHigh /\ ~s.responsePaused)
        <5>1. RelayBecomes(r, [s EXCEPT !.queue = Append(@, f.slice)], <<>>)
          BY <1>4, <1>12, <2>3, <4>2 DEF ResDataFrame, RelayStream
        <5>2. [s EXCEPT !.queue = Append(@, f.slice)] = t(s.responsePaused) /\ s.responsePaused \in BOOLEAN
          BY <1>4 DEF RelayStream
        <5> QED
          BY <5>1, <5>2
      <4> QED
        BY <4>1, <4>2
    <3>2. s.phase = "live" /\ (u.end = "open" => f.slice = Taken(u, s) + 1)
      BY <1>5, <1>12, <2>3 DEF Live, Expects, s
    <3>3. RelayMoves(u, s, u, t(p)) /\ Takes(u, s, u, t(p), 1)
      BY <1>3, <1>4, <1>12, <2>3, <3>2, ResDataMoves
    <3> HIDE DEF t
    <3> QED
      BY <1>10, <1>12, <3>1, <3>3
  <2> QED
    BY <2>1, <2>2, <2>3
<1>13. CASE Live(r) /\ f.type = "RES_END" /\ ResEnd(r, s)
  <2> DEFINE s2 == [s EXCEPT !.responseEnded = TRUE, !.resEnded = TRUE]
  <2>1. CASE ~s.responseStarted
    BY <1>9, <1>13, <2>1 DEF ResEnd
  <2>2. CASE s.responseStarted
    <3>1. s.phase = "live" /\ (u.end = "open" => Taken(u, s) = Slices)
      BY <1>4, <1>5, <1>13 DEF Live, Expects, RelayInv, s
    <3>2. RelayMoves(u, s, u, s2) /\ Takes(u, s, u, s2, 0)
      BY <1>4, <2>2, <3>1, ResEndMoves
    <3>3. RelayBecomes(r, s2, <<>>)
      BY <1>13, <2>2 DEF ResEnd
    <3> QED
      BY <1>7, <1>10, <1>13, <3>2, <3>3
  <2> QED
    BY <2>1, <2>2
<1>14. CASE Live(r) /\ f.type = "RES_ABORT" /\ ResAbort(r, s)
  <2> DEFINE t == IF ~s.responseStarted
                    THEN [s EXCEPT !.head = "error", !.responseEnded = TRUE, !.resEnded = TRUE]
                    ELSE [s EXCEPT !.resEnded = TRUE]
             s2 == CleanupStream(t, "aborted")
  <2>1. RelayBecomes(r, s2, <<>>)
    BY <1>14 DEF ResAbort
  <2>2. s.phase = "live"
    BY <1>14 DEF Live, s
  <2> HIDE DEF t
  <2>3. t = IF ~s.responseStarted
              THEN [s EXCEPT !.head = "error", !.responseEnded = TRUE, !.resEnded = TRUE]
              ELSE [s EXCEPT !.resEnded = TRUE]
    BY DEF t
  <2> HIDE DEF s2
  <2>4. s2 = CleanupStream(t, "aborted")
    BY DEF s2
  <2>5. RelayMoves(u, s, u, s2) /\ Takes(u, s, u, s2, 0)
    BY <1>4, <2>2, <2>3, <2>4, ResAbortMoves
  <2> QED
    BY <1>7, <1>10, <1>14, <2>1, <2>5
<1> QED
  BY <1>6, <1>8, <1>11, <1>12, <1>13, <1>14

-----------------------------------------------------------------------------
(* The client process.                                                     *)

\* what the client's record c2 and its frames g leave true of what was sent
Sends(r, c, c2, g) ==
    \A w \in Seq(ToRelay), L \in Nat, S \in 0..Slices :
        HasSent(c, S) /\ Carries(w, r, L, S)
        => \E S2 \in 0..Slices : HasSent(c2, S2) /\ Carries(w \o g, r, L, S2)

\* A step of the client at one request keeps the invariant.
LEMMA ClientStep ==
    ASSUME HttpInv, NEW r \in Requests, NEW c2 \in LocalRequest, NEW g \in Seq(ToRelay),
           wsClient = "open", user[r].end # "none",
           client' = [client EXCEPT ![r] = c2],
           toRelay' = toRelay \o g, \A i \in 1..Len(g) : g[i].stream = r,
           toClient' = toClient \/ (toClient # <<>> /\ toClient' = Tail(toClient)),
           ClientInv(c2), MetaInv(r, user[r], c2, toClient'), Sends(r, client[r], c2, g),
           UNCHANGED <<user, relay, wsRelay, wsClient>>
    PROVE  HttpInv' /\ PromiseKept
<1>1. /\ user \in [Requests -> UserView] /\ relay \in [Requests -> RelayStream]
      /\ client \in [Requests -> LocalRequest]
      /\ toClient \in Seq(ToClient) /\ toRelay \in Seq(ToRelay)
  BY DEF HttpInv, TypeOK
<1>2. toClient' \in Seq(ToClient) /\ toRelay' \in Seq(ToRelay)
  BY <1>1, ConcatProperties, HeadTailProperties
<1>3. TypeOK'
  BY <1>1, <1>2 DEF HttpInv, TypeOK
<1>4. client'[r] = c2 /\ \A q \in Requests \ {r} : client'[q] = client[q]
  BY <1>1
<1>5. ASSUME NEW q \in Requests
      PROVE  StreamInv(q, user[q], relay[q], client[q], wsRelay, toClient, toRelay)
  BY DEF HttpInv, Inv
<1>6. Inv(r)'
  <2>1. FreshInv(r, user[r], relay[r], c2, toRelay')
    BY DEF FreshInv
  <2>2. WireInv(r, user[r], relay[r], c2, wsRelay, toRelay')
    <3> SUFFICES ASSUME wsRelay # "closed", Expects(user[r], relay[r])
                 PROVE  \E S \in 0..Slices : HasSent(c2, S)
                            /\ Carries(toRelay', r, Taken(user[r], relay[r]), S)
      BY DEF WireInv
    <3>1. PICK S \in 0..Slices : HasSent(client[r], S)
                                 /\ Carries(toRelay, r, Taken(user[r], relay[r]), S)
      BY RequestFacts DEF WireInv
    <3>2. Taken(user[r], relay[r]) \in Nat
      BY <1>1, TakenNat
    <3> QED
      BY <1>1, <3>1, <3>2 DEF Sends
  <2> QED
    BY <1>4, <1>5, <2>1, <2>2 DEF Inv, StreamInv
<1>7. ASSUME NEW q \in Requests, q # r
      PROVE  Inv(q)'
  <2>1. OtherToRelay(q, toRelay, toRelay') /\ OtherToClient(q, toClient, toClient')
    BY <1>7 DEF OtherToRelay, OtherToClient
  <2>2. StreamInv(q, user[q], relay[q], client[q], wsRelay, toClient', toRelay')
    BY <1>1, <1>5, <2>1, OthersKeep
  <2> QED
    BY <1>4, <1>7, <2>2 DEF Inv
<1>8. PromiseKept
  BY DEF PromiseKept, PromiseStep
<1> QED
  BY <1>3, <1>6, <1>7, <1>8 DEF HttpInv

\* what HasSent, ClientInv and MetaInv see of the client's record
SameLocal(c, c2) ==
    /\ c2.phase = c.phase /\ c2.read = c.read /\ c2.localEnded = c.localEnded
    /\ c2.writer.queue = c.writer.queue /\ c2.writer.ended = c.writer.ended

\* what the code does through ClientBecomes
LEMMA ClientBecomesStep ==
    ASSUME HttpInv, NEW r \in Requests, NEW c2 \in LocalRequest, NEW g \in Seq(ToRelay),
           wsClient = "open", user[r].end # "none",
           ClientBecomes(r, c2, g), \A i \in 1..Len(g) : g[i].stream = r,
           toClient' = toClient \/ (toClient # <<>> /\ toClient' = Tail(toClient)),
           ClientInv(c2), MetaInv(r, user[r], c2, toClient'), Sends(r, client[r], c2, g),
           UNCHANGED <<user, relay, wsRelay, wsClient>>
    PROVE  HttpInv' /\ PromiseKept
<1>1. PICK b \in BOOLEAN : b = (c2.active \/ (c2.half /\ g # <<>> /\ c2.phase = "open"))
  OBVIOUS
<1> DEFINE c3 == [c2 EXCEPT !.active = b]
<1>2. c3 \in LocalRequest /\ SameLocal(c2, c3)
  BY DEF LocalRequest, SameLocal
<1>3. client' = [client EXCEPT ![r] = c3] /\ toRelay' = toRelay \o g
  BY <1>1 DEF ClientBecomes, SendFrames
<1> HIDE DEF c3
<1>4. ClientInv(c3) /\ MetaInv(r, user[r], c3, toClient') /\ Sends(r, client[r], c3, g)
  BY <1>2 DEF SameLocal, ClientInv, MetaInv, Sends, HasSent
<1> QED
  BY <1>2, <1>3, <1>4, ClientStep

\* nothing, or one signal
Few(r, t, g) == g = <<>> \/ g = <<Signal(t, r)>>

LEMMA FewFrames ==
    ASSUME NEW r \in Requests, NEW g, Few(r, "RES_META", g) \/ Few(r, "RES_ABORT", g)
    PROVE  g \in Seq(ToRelay) /\ \A i \in 1..Len(g) : g[i].stream = r
                                                 /\ g[i].type \notin {"RES_DATA", "RES_END"}
<1>1. CASE g = <<>>
  <2>1. g \in Seq(ToRelay) /\ Len(g) = 0
    BY <1>1, EmptySeq
  <2>2. \A i \in 1..0 : FALSE
    OBVIOUS
  <2> QED
    BY <2>1, <2>2
<1>2. CASE g # <<>>
  <2>1. PICK t \in {"RES_META", "RES_ABORT"} : g = <<Signal(t, r)>>
    BY <1>2 DEF Few
  <2> DEFINE e == Signal(t, r)
  <2>2. e \in ToRelay /\ e.stream = r /\ e.type \notin {"RES_DATA", "RES_END"}
    BY DEF Signal, ToRelay, Signals
  <2>3. g = <<e>>
    BY <2>1
  <2> HIDE DEF e
  <2> QED
    BY <2>2, <2>3
<1> QED
  BY <1>1, <1>2

\* Frames that are not the body: what was sent stays what it was.
LEMMA NothingSent ==
    ASSUME NEW r, NEW c, NEW c2, NEW g \in Seq(ToRelay),
           \A i \in 1..Len(g) : g[i].type \notin {"RES_DATA", "RES_END"},
           c2.phase \notin {"none", "open"} \/ \A S : HasSent(c, S) => HasSent(c2, S)
    PROVE  Sends(r, c, c2, g)
<1>1. ASSUME NEW w \in Seq(ToRelay), NEW L \in Nat, NEW S \in 0..Slices,
             HasSent(c, S), Carries(w, r, L, S)
      PROVE  HasSent(c2, S) /\ Carries(w \o g, r, L, S)
  <2>1. S \in Nat
    OBVIOUS
  <2>2. Carries(w \o g, r, L, S)
    BY <1>1, <2>1, CarriesMore
  <2> QED
    BY <1>1, <2>2 DEF HasSent
<1> QED
  BY <1>1 DEF Sends

\* an entry of the client is open
LEMMA OpenFacts ==
    ASSUME HttpInv, NEW r \in Requests, Open(r)
    PROVE  /\ wsClient = "open" /\ user[r].end # "none" /\ client[r].phase = "open"
           /\ client[r] \in LocalRequest /\ ClientInv(client[r])
           /\ \A i \in 1..Len(toClient) : ~IsMeta(toClient[i], r)
BY RequestFacts DEF HttpInv, Open, FreshInv, MetaInv

\* a frame of an open entry is read, or none is: no REQ_META of it is under way
LEMMA NoMeta ==
    ASSUME HttpInv, NEW r \in Requests, Open(r),
           toClient' = toClient \/ (toClient # <<>> /\ toClient' = Tail(toClient))
    PROVE  \A c2 : MetaInv(r, user[r], c2, toClient')
<1>1. \A i \in 1..Len(toClient') : ~IsMeta(toClient'[i], r)
  <2>1. CASE toClient' = toClient
    BY <2>1, OpenFacts
  <2>2. CASE toClient # <<>> /\ toClient' = Tail(toClient)
    <3>1. /\ Len(toClient) \in Nat /\ Len(toClient') = Len(toClient) - 1
          /\ \A i \in 1..Len(toClient') : toClient'[i] = toClient[i + 1]
      BY <2>2, RequestFacts, HeadTailProperties, LenProperties
    <3>2. \A i \in 1..Len(toClient') : i + 1 \in 1..Len(toClient)
      BY <3>1
    <3> QED
      BY <3>1, <3>2, OpenFacts
  <2> QED
    BY <2>1, <2>2
<1> QED
  BY <1>1 DEF MetaInv

\* the entry stays as it is, as far as its body goes, and nothing or a RES_META is sent
LEMMA QuietStep ==
    ASSUME HttpInv, NEW r \in Requests, Open(r), NEW c2 \in LocalRequest, SameLocal(client[r], c2),
           ClientBecomes(r, c2, <<>>) \/ ClientBecomes(r, c2, <<Signal("RES_META", r)>>),
           toClient' = toClient \/ (toClient # <<>> /\ toClient' = Tail(toClient)),
           UNCHANGED <<user, relay, wsRelay, wsClient>>
    PROVE  HttpInv' /\ PromiseKept
<1>1. PICK g : Few(r, "RES_META", g) /\ ClientBecomes(r, c2, g)
  BY DEF Few
<1>2. g \in Seq(ToRelay) /\ \A i \in 1..Len(g) : g[i].stream = r /\ g[i].type \notin {"RES_DATA", "RES_END"}
  BY <1>1, FewFrames
<1>3. ClientInv(c2) /\ \A S : HasSent(client[r], S) => HasSent(c2, S)
  BY OpenFacts DEF SameLocal, ClientInv, HasSent
<1>4. Sends(r, client[r], c2, g)
  BY <1>2, <1>3, NothingSent
<1> QED
  BY <1>1, <1>2, <1>3, <1>4, NoMeta, OpenFacts, ClientBecomesStep

LEMMA DropType ==
    ASSUME NEW how \in {"sent", "dropped", "idle"}
    PROVE  Drop(how) \in LocalRequest /\ Drop(how).phase = how /\ ClientInv(Drop(how))
<1>1. NewWriter \in Writers(1..Slices)
  BY EmptySeq DEF NewWriter, Writers
<1>2. Drop(how) \in LocalRequest /\ Drop(how).phase = how
  <2>1. NewLocal \in LocalRequest
    BY <1>1, HttpAssumption DEF NewLocal, LocalRequest
  <2> HIDE DEF NewLocal
  <2> QED
    BY <2>1 DEF Drop, LocalRequest
<1> QED
  BY <1>2 DEF ClientInv

\* the entry is dropped, and nothing or a RES_ABORT is sent
LEMMA DropStep ==
    ASSUME HttpInv, NEW r \in Requests, Open(r), NEW how \in {"dropped", "idle"},
           ClientBecomes(r, Drop(how), <<>>) \/ ClientBecomes(r, Drop(how), <<Signal("RES_ABORT", r)>>),
           toClient' = toClient \/ (toClient # <<>> /\ toClient' = Tail(toClient)),
           UNCHANGED <<user, relay, wsRelay, wsClient>>
    PROVE  HttpInv' /\ PromiseKept
<1>1. PICK g : Few(r, "RES_ABORT", g) /\ ClientBecomes(r, Drop(how), g)
  BY DEF Few
<1>2. g \in Seq(ToRelay) /\ \A i \in 1..Len(g) : g[i].stream = r /\ g[i].type \notin {"RES_DATA", "RES_END"}
  BY <1>1, FewFrames
<1>3. Drop(how) \in LocalRequest /\ Drop(how).phase = how /\ ClientInv(Drop(how))
  BY DropType
<1>4. Sends(r, client[r], Drop(how), g)
  BY <1>2, <1>3, NothingSent
<1> QED
  BY <1>1, <1>2, <1>3, <1>4, NoMeta, OpenFacts, ClientBecomesStep

LEMMA LocalResponseStep ==
    ASSUME HttpInv, NEW r \in Requests, LocalResponse(r)
    PROVE  HttpInv' /\ PromiseKept
<1> DEFINE c2 == [client[r] EXCEPT !.started = TRUE]
<1>1. c2 \in LocalRequest /\ SameLocal(client[r], c2)
  BY RequestFacts DEF LocalRequest, SameLocal
<1>2. ClientBecomes(r, c2, <<Signal("RES_META", r)>>)
  BY DEF LocalResponse
<1> HIDE DEF c2
<1> QED
  BY <1>1, <1>2, QuietStep DEF LocalResponse

LEMMA LocalFailsStep ==
    ASSUME HttpInv, NEW r \in Requests, LocalFails(r)
    PROVE  HttpInv' /\ PromiseKept
BY DropStep DEF LocalFails, SendResAbort

LEMMA ClientIdleStep ==
    ASSUME HttpInv, NEW r \in Requests, ClientIdle(r)
    PROVE  HttpInv' /\ PromiseKept
BY DropStep DEF ClientIdle

LEMMA HalfIdleStep ==
    ASSUME HttpInv, NEW r \in Requests, HalfIdle(r)
    PROVE  HttpInv' /\ PromiseKept
<1> DEFINE c2 == [client[r] EXCEPT !.half = TRUE]
<1>1. c2 \in LocalRequest /\ SameLocal(client[r], c2)
  BY RequestFacts DEF LocalRequest, SameLocal
<1>2. /\ Open(r) /\ client' = [client EXCEPT ![r] = c2]
      /\ UNCHANGED <<user, relay, wsRelay, wsClient, toClient, toRelay>>
  BY DEF HalfIdle, HttpInv, TypeOK
<1> HIDE DEF c2
<1>3. <<>> \in Seq(ToRelay) /\ \A i \in 1..Len(<<>>) : /\ <<>>[i].stream = r
                                                       /\ <<>>[i].type \notin {"RES_DATA", "RES_END"}
  BY FewFrames DEF Few
<1>4. toRelay' = toRelay \o <<>>
  BY <1>2, RequestFacts, ConcatEmptySeq
<1>5. ClientInv(c2) /\ \A S : HasSent(client[r], S) => HasSent(c2, S)
  BY <1>1, <1>2, OpenFacts DEF SameLocal, ClientInv, HasSent
<1>6. Sends(r, client[r], c2, <<>>)
  BY <1>3, <1>5, NothingSent
<1> QED
  BY <1>1, <1>2, <1>3, <1>4, <1>5, <1>6, NoMeta, OpenFacts, ClientStep

\* the slices of a turn as frames
LEMMA ResDataFrames ==
    ASSUME NEW r \in Requests, NEW sent \in Seq(1..Slices), NEW g, g = DataFrames(r, sent)
    PROVE  /\ g \in Seq(ToRelay) /\ Len(g) = Len(sent)
           /\ \A i \in 1..Len(g) : /\ g[i].type = "RES_DATA" /\ g[i].stream = r
                                   /\ g[i].slice = sent[i]
<1>1. Len(sent) \in Nat /\ \A i \in 1..Len(sent) : sent[i] \in 1..Slices
  BY LenProperties, ElementOfSeq
<1>2. \A i \in 1..Len(sent) : [type |-> "RES_DATA", stream |-> r, slice |-> sent[i]] \in ToRelay
  BY <1>1 DEF ToRelay, ResData
<1>3. g \in [1..Len(sent) -> ToRelay]
  BY <1>2 DEF DataFrames
<1>4. g \in Seq(ToRelay) /\ Len(g) = Len(sent)
  BY <1>1, <1>3, SeqDef, LenProperties
<1> QED
  BY <1>4 DEF DataFrames

\* a signal after the frames g: how the two are seen
Closed(g, t, r) ==
    /\ Append(g, Signal(t, r)) \in Seq(ToRelay)
    /\ \A i \in 1..Len(Append(g, Signal(t, r))) : Append(g, Signal(t, r))[i].stream = r
    /\ \A w \in Seq(ToRelay) : w \o Append(g, Signal(t, r)) = Append(w \o g, Signal(t, r))

LEMMA DataThenSignal ==
    ASSUME NEW r \in Requests, NEW t \in {"RES_END", "RES_ABORT"}, NEW g \in Seq(ToRelay),
           \A i \in 1..Len(g) : g[i].stream = r
    PROVE  Closed(g, t, r)
<1> DEFINE e == Signal(t, r)
           h == Append(g, e)
<1>1. e \in ToRelay /\ e.stream = r
  BY DEF Signal, ToRelay, Signals
<1> HIDE DEF e
<1>2. /\ h \in Seq(ToRelay) /\ Len(g) \in Nat /\ Len(h) = Len(g) + 1
      /\ \A i \in 1..Len(g) : h[i] = g[i]
      /\ h[Len(g) + 1] = e
  BY <1>1, AppendProperties, LenProperties
<1>3. \A i \in 1..Len(h) : h[i].stream = r
  <2> HIDE DEF h
  <2> TAKE i \in 1..Len(h)
  <2>1. CASE i = Len(g) + 1
    BY <2>1, <1>1, <1>2
  <2>2. CASE i \in 1..Len(g)
    BY <2>2, <1>2
  <2> QED
    BY <2>1, <2>2, <1>2
<1>4. ASSUME NEW w \in Seq(ToRelay)
      PROVE  w \o h = Append(w \o g, e)
  <2>1. h = g \o <<e>> /\ <<e>> \in Seq(ToRelay)
    BY <1>1, AppendIsConcat
  <2>2. w \o g \in Seq(ToRelay)
    BY ConcatProperties
  <2>3. Append(w \o g, e) = (w \o g) \o <<e>>
    BY <1>1, <2>2, AppendIsConcat
  <2>4. (w \o g) \o <<e>> = w \o (g \o <<e>>)
    BY <2>1, ConcatAssociative
  <2> QED
    BY <2>1, <2>3, <2>4
<1> QED
  BY <1>2, <1>3, <1>4 DEF e, Closed

\* what the writer v of an entry holds when the client has read so many slices
Holds(v, read) ==
    /\ v \in Writers(1..Slices) /\ read \in 0..Slices /\ Len(v.queue) <= read
    /\ \A i \in 1..Len(v.queue) : v.queue[i] = read - Len(v.queue) + i

\* A turn that does not fail sends the next slices.
LEMMA TurnSends ==
    ASSUME NEW r \in Requests, NEW v, NEW read, Holds(v, read), NEW o,
           IsTurn(1..Slices, v, o), o.writer.at # "failed",
           NEW g, g = DataFrames(r, o.sent)
    PROVE  /\ Holds(o.writer, read)
           /\ \A w \in Seq(ToRelay), L \in Nat :
                 Carries(w, r, L, read - Len(v.queue))
                 => Carries(w \o g, r, L, read - Len(o.writer.queue))
<1> DEFINE k == Len(v.queue)
           a == read - k
           q == o.writer.queue
<1>1. PICK n \in 0..k : /\ Len(o.sent) = n /\ Len(q) = k - n
                        /\ \A i \in 1..n : o.sent[i] = v.queue[i]
                        /\ \A i \in 1..(k - n) : q[i] = v.queue[n + i]
  BY DEF IsTurn
<1>2. /\ o.writer \in Writers(1..Slices) /\ o.sent \in Seq(1..Slices) /\ k \in Nat
  <2>1. v.queue \in Seq(1..Slices)
    BY DEF Holds, Writers
  <2> QED
    BY <2>1, LenProperties DEF IsTurn
<1>3. /\ read \in Nat /\ read <= Slices /\ k <= read /\ n \in Nat /\ n <= k
      /\ \A i \in 1..k : v.queue[i] = a + i
  <2>1. read \in 0..Slices /\ k <= read /\ \A i \in 1..k : v.queue[i] = a + i
    BY DEF Holds
  <2> HIDE DEF a, k
  <2> QED
    BY <1>1, <1>2, <2>1, HttpAssumption
<1>4. /\ g \in Seq(ToRelay) /\ Len(g) = n
      /\ \A i \in 1..Len(g) : /\ g[i].type = "RES_DATA" /\ g[i].stream = r
                              /\ g[i].slice = o.sent[i]
  BY <1>1, <1>2, ResDataFrames
<1> DEFINE m == Len(q)
<1>5. m = k - n /\ \A i \in 1..(k - n) : q[i] = v.queue[n + i]
  BY <1>1
<1> HIDE DEF k, q, m
<1>6. a \in Nat /\ a + n = read - m /\ a + n <= Slices /\ m \in Nat /\ m <= read
  BY <1>2, <1>3, <1>5, HttpAssumption
<1> HIDE DEF a
<1>7. Holds(o.writer, read)
  <2>1. \A i \in 1..m : q[i] = read - m + i
    <3> TAKE i \in 1..m
    <3>1. i \in Nat /\ i \in 1..(k - n) /\ n + i \in 1..k
      BY <1>2, <1>3, <1>5
    <3>2. q[i] = a + (n + i)
      BY <3>1, <1>3, <1>5
    <3>3. a + (n + i) = (a + n) + i
      BY <3>1, <1>3, <1>6
    <3> QED
      BY <3>2, <3>3, <1>6
  <2>2. read \in 0..Slices
    BY DEF Holds
  <2> QED
    BY <2>1, <2>2, <1>2, <1>6 DEF Holds, m, q
<1>8. ASSUME NEW w \in Seq(ToRelay), NEW L \in Nat, Carries(w, r, L, a)
      PROVE  Carries(w \o g, r, L, read - m)
  <2>1. \A i \in 1..Len(g) : g[i].type = "RES_DATA" /\ g[i].stream = r /\ g[i].slice = a + i
    <3> TAKE i \in 1..Len(g)
    <3>1. i \in 1..n /\ i \in 1..k
      BY <1>2, <1>3, <1>4
    <3> QED
      BY <3>1, <1>1, <1>3, <1>4
  <2>2. a + Len(g) <= Slices
    BY <1>4, <1>6
  <2>3. Carries(w \o g, r, L, a + Len(g))
    BY <1>4, <1>6, <1>8, <2>1, <2>2, CarriesSent
  <2> QED
    BY <2>3, <1>4, <1>6
<1> QED
  BY <1>7, <1>8 DEF a, k, m, q

\* the body of the response: its slices are sent as they were read, and RES_END after
\* the last, or the stream is aborted
LEMMA ResponseWriterStep ==
    ASSUME HttpInv, NEW r \in Requests, Open(r), NEW e \in LocalRequest,
           e.phase = "open", e.localEnded, NEW v, Holds(v, e.read), v.ended => e.read = Slices,
           e.read - Len(v.queue) = client[r].read - Len(client[r].writer.queue),
           NEW o, IsTurn(1..Slices, v, o), ResponseWriterBecomes(r, e, o),
           toClient' = toClient \/ (toClient # <<>> /\ toClient' = Tail(toClient)),
           UNCHANGED <<user, relay, wsRelay, wsClient>>
    PROVE  HttpInv' /\ PromiseKept
<1> DEFINE data == DataFrames(r, o.sent)
           d == [e EXCEPT !.writer = o.writer]
<1>1. \/ o.writer.at = "failed" /\ ClientBecomes(r, Drop("dropped"), Append(data, Signal("RES_ABORT", r)))
      \/ /\ o.writer.at # "failed" /\ Finished(o.writer)
         /\ ClientBecomes(r, Drop("sent"), Append(data, Signal("RES_END", r)))
      \/ /\ o.writer.at # "failed" /\ ~Finished(o.writer)
         /\ ClientBecomes(r, d, data)
  BY DEF ResponseWriterBecomes, Finished
<1>2. o.sent \in Seq(1..Slices) /\ o.writer \in Writers(1..Slices) /\ o.writer.ended = v.ended
  BY DEF IsTurn
<1>3. data \in Seq(ToRelay) /\ Len(data) = Len(o.sent) /\ \A i \in 1..Len(data) : data[i].stream = r
  BY <1>2, ResDataFrames
<1>4. o.writer.at # "failed" =>
          /\ Holds(o.writer, e.read)
          /\ \A w \in Seq(ToRelay), L \in Nat :
                Carries(w, r, L, e.read - Len(v.queue))
                => Carries(w \o data, r, L, e.read - Len(o.writer.queue))
  BY TurnSends
<1>5. \A w, L, S : HasSent(client[r], S) /\ Carries(w, r, L, S) => Carries(w, r, L, e.read - Len(v.queue))
  BY OpenFacts DEF HasSent
<1> HIDE DEF data
<1>6. ASSUME NEW t \in {"RES_END", "RES_ABORT"}
      PROVE  /\ Append(data, Signal(t, r)) \in Seq(ToRelay)
             /\ \A i \in 1..Len(Append(data, Signal(t, r))) : Append(data, Signal(t, r))[i].stream = r
             /\ \A w \in Seq(ToRelay) : w \o Append(data, Signal(t, r)) = Append(w \o data, Signal(t, r))
  <2>1. Closed(data, t, r)
    BY <1>3, DataThenSignal
  <2> QED
    BY <2>1 DEF Closed
<1>7. CASE o.writer.at = "failed" /\ ClientBecomes(r, Drop("dropped"), Append(data, Signal("RES_ABORT", r)))
  <2> DEFINE g == Append(data, Signal("RES_ABORT", r))
  <2>1. g \in Seq(ToRelay) /\ \A i \in 1..Len(g) : g[i].stream = r
    BY <1>6
  <2>2. Len(data) = 0
    BY <1>3, <1>7, EmptySeq DEF IsTurn
  <2>3. Signal("RES_ABORT", r) \in ToRelay /\ Signal("RES_ABORT", r).type = "RES_ABORT"
    BY DEF Signal, ToRelay, Signals
  <2>4. Len(g) = 0 + 1 /\ g[0 + 1] = Signal("RES_ABORT", r)
    BY <1>3, <2>2, <2>3, AppendProperties
  <2> HIDE DEF g
  <2>5. \A i \in 1..Len(g) : g[i].type \notin {"RES_DATA", "RES_END"}
    <3>1. \A i \in 1..(0 + 1) : i = 0 + 1
      OBVIOUS
    <3> QED
      BY <2>3, <2>4, <3>1
  <2>6. Drop("dropped") \in LocalRequest /\ Drop("dropped").phase = "dropped" /\ ClientInv(Drop("dropped"))
    BY DropType
  <2>7. Sends(r, client[r], Drop("dropped"), g)
    BY <2>1, <2>5, <2>6, NothingSent
  <2>8. ClientBecomes(r, Drop("dropped"), g)
    BY <1>7 DEF g
  <2> QED
    BY <2>1, <2>6, <2>7, <2>8, NoMeta, OpenFacts, ClientBecomesStep
<1>8. CASE /\ o.writer.at # "failed" /\ Finished(o.writer)
           /\ ClientBecomes(r, Drop("sent"), Append(data, Signal("RES_END", r)))
  <2> DEFINE g == Append(data, Signal("RES_END", r))
  <2>1. g \in Seq(ToRelay) /\ \A i \in 1..Len(g) : g[i].stream = r
    BY <1>6
  <2>2. e.read - Len(o.writer.queue) = Slices
    BY <1>2, <1>8, EmptySeq, HttpAssumption DEF Finished
  <2>3. Drop("sent") \in LocalRequest /\ Drop("sent").phase = "sent" /\ ClientInv(Drop("sent"))
    BY DropType
  <2>4. ASSUME NEW w \in Seq(ToRelay), NEW L \in Nat, NEW S \in 0..Slices,
               HasSent(client[r], S), Carries(w, r, L, S)
        PROVE  HasSent(Drop("sent"), Slices) /\ Carries(w \o g, r, L, Slices)
    <3>1. Carries(w \o data, r, L, Slices)
      BY <1>4, <1>5, <1>8, <2>2, <2>4
    <3>2. w \o data \in Seq(ToRelay)
      BY <1>3, ConcatProperties
    <3>3. Carries(Append(w \o data, Signal("RES_END", r)), r, L, Slices)
      BY <3>1, <3>2, CarriesLast
    <3>4. w \o g = Append(w \o data, Signal("RES_END", r))
      BY <1>6
    <3> QED
      BY <2>3, <3>3, <3>4 DEF HasSent
  <2>5. Slices \in 0..Slices
    BY HttpAssumption
  <2>6. ClientBecomes(r, Drop("sent"), g)
    BY <1>8
  <2> HIDE DEF g
  <2>7. Sends(r, client[r], Drop("sent"), g)
    BY <2>4, <2>5 DEF Sends
  <2> QED
    BY <2>1, <2>3, <2>6, <2>7, NoMeta, OpenFacts, ClientBecomesStep
<1>9. CASE /\ o.writer.at # "failed" /\ ~Finished(o.writer)
           /\ ClientBecomes(r, d, data)
  <2>1. d \in LocalRequest /\ d.phase = "open" /\ d.read = e.read /\ d.writer = o.writer /\ d.localEnded
    BY <1>2 DEF LocalRequest
  <2> HIDE DEF d
  <2>2. ClientInv(d)
    BY <1>2, <1>4, <1>9, <2>1 DEF ClientInv, Holds
  <2>3. ASSUME NEW w \in Seq(ToRelay), NEW L \in Nat, NEW S \in 0..Slices,
               HasSent(client[r], S), Carries(w, r, L, S)
        PROVE  \E S2 \in 0..Slices : HasSent(d, S2) /\ Carries(w \o data, r, L, S2)
    <3> DEFINE S2 == e.read - Len(o.writer.queue)
    <3>1. Carries(w \o data, r, L, S2)
      BY <1>4, <1>5, <1>9, <2>3
    <3>2. HasSent(d, S2)
      BY <2>1 DEF HasSent
    <3>3. S2 \in 0..Slices
      <4>1. o.writer.queue \in Seq(1..Slices) /\ Len(o.writer.queue) <= e.read /\ e.read \in 0..Slices
        BY <1>2, <1>4, <1>9 DEF Holds, Writers
      <4>2. Len(o.writer.queue) \in Nat
        BY <4>1, LenProperties
      <4> QED
        BY <4>1, <4>2, HttpAssumption
    <3> QED
      BY <3>1, <3>2, <3>3
  <2>4. Sends(r, client[r], d, data)
    BY <2>3 DEF Sends
  <2> QED
    BY <1>3, <1>9, <2>1, <2>2, <2>4, NoMeta, OpenFacts, ClientBecomesStep
<1> QED
  BY <1>1, <1>7, <1>8, <1>9

LEMMA LocalDataStep ==
    ASSUME HttpInv, NEW r \in Requests, LocalData(r)
    PROVE  HttpInv' /\ PromiseKept
<1> DEFINE c == client[r]
           e == [c EXCEPT !.read = @ + 1]
           slice == c.read + 1
           v == [c.writer EXCEPT !.queue = Append(@, slice)]
           k == Len(c.writer.queue)
<1>1. Open(r) /\ c.read < Slices /\ UNCHANGED <<user, relay, wsRelay, wsClient, toClient>>
  BY DEF LocalData
<1>2. PICK o \in Write(c.writer, slice, wsClient = "open") : ResponseWriterBecomes(r, e, o)
  BY DEF LocalData
<1>3. /\ c \in LocalRequest /\ c.phase = "open" /\ ClientInv(c) /\ c.localEnded
      /\ c.read \in Nat /\ slice \in 1..Slices
      /\ c.writer \in Writers(1..Slices) /\ c.writer.queue \in Seq(1..Slices) /\ k \in Nat
  <2>1. c \in LocalRequest /\ c.phase = "open" /\ ClientInv(c)
    BY <1>1, OpenFacts
  <2>2. c.read \in 0..Slices /\ c.writer \in Writers(1..Slices)
    BY <2>1 DEF LocalRequest
  <2>3. c.writer.queue \in Seq(1..Slices)
    BY <2>2 DEF Writers
  <2> QED
    BY <1>1, <2>1, <2>2, <2>3, LenProperties, HttpAssumption DEF ClientInv
<1>4. v \in Writers(1..Slices) /\ IsTurn(1..Slices, v, o)
  BY <1>2, <1>3, WriteTurn
<1>5. e \in LocalRequest /\ e.phase = "open" /\ e.localEnded /\ e.read = slice
  BY <1>3 DEF LocalRequest
<1>6. v.queue = Append(c.writer.queue, slice) /\ v.ended = c.writer.ended
  BY <1>3 DEF Writers
<1>7. /\ Len(v.queue) = k + 1 /\ v.queue[k + 1] = slice
      /\ \A i \in 1..k : v.queue[i] = c.writer.queue[i]
  BY <1>3, <1>6, AppendProperties
<1>8. /\ k <= c.read
      /\ \A i \in 1..k : c.writer.queue[i] = c.read - k + i
      /\ c.writer.ended => c.read = Slices
  BY <1>3 DEF ClientInv
<1> DEFINE n == c.read
<1>9. slice = n + 1 /\ n \in Nat
  BY <1>3
<1> HIDE DEF k, v, e, n, slice
<1>10. \A i \in 1..(k + 1) : v.queue[i] = slice - (k + 1) + i
  <2> TAKE i \in 1..(k + 1)
  <2>1. CASE i = k + 1
    <3>1. slice - (k + 1) + (k + 1) = slice
      BY <1>3, <1>9
    <3> QED
      BY <2>1, <3>1, <1>7
  <2>2. CASE i \in 1..k
    <3>1. v.queue[i] = n - k + i
      BY <2>2, <1>7, <1>8 DEF n
    <3>2. slice - (k + 1) = n - k
      BY <1>3, <1>9
    <3> QED
      BY <3>1, <3>2
  <2> QED
    BY <2>1, <2>2, <1>3
<1>11. Holds(v, slice) /\ slice - Len(v.queue) = n - k
  <2>1. k <= n
    BY <1>8 DEF n
  <2>2. k + 1 <= slice /\ slice - (k + 1) = n - k /\ slice \in 0..Slices
    BY <2>1, <1>3, <1>9, HttpAssumption
  <2> QED
    BY <2>2, <1>4, <1>7, <1>10 DEF Holds
<1>12. v.ended => slice = Slices
  BY <1>1, <1>6, <1>8, <1>3, HttpAssumption
<1>13. e.read - Len(v.queue) = client[r].read - Len(client[r].writer.queue)
  BY <1>5, <1>11 DEF n, k
<1>14. Holds(v, e.read) /\ (v.ended => e.read = Slices)
  BY <1>5, <1>11, <1>12
<1> HIDE DEF c
<1> QED
  BY <1>1, <1>2, <1>4, <1>5, <1>13, <1>14, ResponseWriterStep

\* a turn of the writer of an open entry without another slice
LEMMA ResponseTurnStep ==
    ASSUME HttpInv, NEW r \in Requests, Open(r), NEW e \in LocalRequest, SameLocal(client[r], e),
           NEW v \in Writers(1..Slices), v.queue = client[r].writer.queue,
           v.ended => client[r].read = Slices,
           NEW o, IsTurn(1..Slices, v, o), ResponseWriterBecomes(r, e, o),
           toClient' = toClient \/ (toClient # <<>> /\ toClient' = Tail(toClient)),
           UNCHANGED <<user, relay, wsRelay, wsClient>>
    PROVE  HttpInv' /\ PromiseKept
<1>1. /\ client[r].phase = "open" /\ ClientInv(client[r]) /\ client[r] \in LocalRequest
  BY OpenFacts
<1>2. e.phase = "open" /\ e.localEnded /\ e.read = client[r].read
  BY <1>1 DEF SameLocal, ClientInv
<1>3. Holds(v, e.read)
  BY <1>1, <1>2 DEF Holds, ClientInv, LocalRequest
<1> QED
  BY <1>2, <1>3, ResponseWriterStep

LEMMA LocalEndStep ==
    ASSUME HttpInv, NEW r \in Requests, LocalEnd(r)
    PROVE  HttpInv' /\ PromiseKept
<1> DEFINE c == client[r]
           v == End(c.writer)
           o == Outcome(v, <<>>)
<1>1. /\ Open(r) /\ c.read = Slices /\ ResponseWriterBecomes(r, c, o)
      /\ UNCHANGED <<user, relay, wsRelay, wsClient, toClient>>
  BY DEF LocalEnd
<1>2. c \in LocalRequest /\ c.writer \in Writers(1..Slices) /\ SameLocal(c, c)
  BY <1>1, OpenFacts DEF LocalRequest, SameLocal
<1>3. v \in Writers(1..Slices) /\ IsTurn(1..Slices, v, o)
  BY <1>2, EndTurn
<1>4. v.queue = c.writer.queue
  BY <1>2 DEF End, Writers
<1> HIDE DEF v, o
<1> QED
  BY <1>1, <1>2, <1>3, <1>4, ResponseTurnStep

LEMMA ResponseDrainedStep ==
    ASSUME HttpInv, NEW r \in Requests, ResponseDrained(r)
    PROVE  HttpInv' /\ PromiseKept
<1> DEFINE c == client[r]
           w == c.writer
<1>1. Open(r) /\ UNCHANGED <<user, relay, wsRelay, wsClient, toClient>>
  BY DEF ResponseDrained
<1>2. PICK o \in Drained(w, wsClient = "open") \cup {Outcome(Failed(w), <<>>)} :
          ResponseWriterBecomes(r, c, o)
  BY DEF ResponseDrained
<1>3. /\ c \in LocalRequest /\ w \in Writers(1..Slices) /\ SameLocal(c, c)
      /\ w.ended => c.read = Slices
  BY <1>1, OpenFacts DEF LocalRequest, SameLocal, ClientInv
<1>4. IsTurn(1..Slices, w, o)
  BY <1>2, <1>3, PumpTurn, FailedTurn DEF Drained
<1> QED
  BY <1>1, <1>2, <1>3, <1>4, ResponseTurnStep

\* a local request is opened, or refused at the client's limit
LEMMA ReqMetaStep ==
    ASSUME HttpInv, NEW r \in Requests, wsClient = "open", toClient # <<>>,
           toClient' = Tail(toClient), IsMeta(Head(toClient), r), ReqMeta(r),
           UNCHANGED <<user, relay, wsRelay, wsClient>>
    PROVE  HttpInv' /\ PromiseKept
<1> DEFINE c == client[r]
           c2 == [c EXCEPT !.phase = "open", !.localEnded = TRUE]
<1>1. /\ c \in LocalRequest /\ ClientInv(c) /\ MetaInv(r, user[r], c, toClient)
      /\ toClient \in Seq(ToClient)
  BY RequestFacts
<1>2. user[r].end # "none" /\ c.phase = "none"
  <2>1. 1 \in 1..Len(toClient) /\ Head(toClient) = toClient[1]
    BY <1>1, LenProperties, EmptySeq
  <2> QED
    BY <1>1, <2>1 DEF MetaInv
<1>3. \A d : MetaInv(r, user[r], d, toClient')
  BY <1>1, MetaTail DEF MetaInv
<1>4. CASE ClientBecomes(r, c, <<Signal("RES_ABORT", r)>>)
  <2> DEFINE g == <<Signal("RES_ABORT", r)>>
  <2>1. g \in Seq(ToRelay) /\ \A i \in 1..Len(g) : g[i].stream = r
                                                /\ g[i].type \notin {"RES_DATA", "RES_END"}
    BY FewFrames DEF Few
  <2> HIDE DEF g
  <2>2. Sends(r, c, c, g)
    BY <2>1, NothingSent
  <2> QED
    BY <1>1, <1>2, <1>3, <1>4, <2>1, <2>2, ClientBecomesStep DEF g
<1>5. CASE ClientBecomes(r, c2, <<>>)
  <2>1. c2 \in LocalRequest /\ c2.phase = "open" /\ c2.localEnded /\ c2.read = c.read
        /\ c2.writer = c.writer
    BY <1>1 DEF LocalRequest
  <2> HIDE DEF c2
  <2>2. c.read = 0 /\ c.writer.queue = <<>> /\ (c.writer.ended => c.read = Slices)
        /\ Len(c.writer.queue) = 0
    BY <1>1, <1>2, EmptySeq DEF ClientInv
  <2>3. ClientInv(c2)
    BY <1>1, <1>2, <2>1, <2>2 DEF ClientInv
  <2>4. \A S : HasSent(c, S) => HasSent(c2, S)
    <3>1. c2.read = 0 /\ Len(c2.writer.queue) = 0 /\ 0 - 0 = 0
      BY <2>1, <2>2
    <3>2. c2.read - Len(c2.writer.queue) = 0
      BY <3>1
    <3> QED
      BY <1>2, <2>1, <3>2 DEF HasSent
  <2>5. <<>> \in Seq(ToRelay) /\ \A i \in 1..Len(<<>>) : /\ <<>>[i].stream = r
                                                         /\ <<>>[i].type \notin {"RES_DATA", "RES_END"}
    BY FewFrames DEF Few
  <2>6. Sends(r, c, c2, <<>>)
    BY <2>4, <2>5, NothingSent
  <2> QED
    BY <1>2, <1>3, <1>5, <2>1, <2>3, <2>5, <2>6, ClientBecomesStep
<1>6. ClientBecomes(r, c, <<Signal("RES_ABORT", r)>>) \/ ClientBecomes(r, c2, <<>>)
  BY DEF ReqMeta, MetaHasBodyLength
<1> QED
  BY <1>4, <1>5, <1>6

\* a frame of a stream that is gone
LEMMA LateFrameStep ==
    ASSUME HttpInv, wsClient = "open", toClient # <<>>, toClient' = Tail(toClient),
           UNCHANGED <<user, relay, client, wsRelay, wsClient, toRelay>>
    PROVE  HttpInv' /\ PromiseKept
<1>1. TypeOK'
  BY HeadTailProperties DEF HttpInv, TypeOK
<1>2. ASSUME NEW q \in Requests
      PROVE  Inv(q)'
  <2>1. StreamInv(q, user[q], relay[q], client[q], wsRelay, toClient, toRelay)
    BY DEF HttpInv, Inv
  <2>2. OtherToClient(q, toClient, toClient') /\ OtherToRelay(q, toRelay, toRelay)
    BY DEF OtherToClient, OtherToRelay
  <2>3. StreamInv(q, user[q], relay[q], client[q], wsRelay, toClient', toRelay)
    BY <2>1, <2>2, RequestFacts, OthersKeep
  <2> QED
    BY <2>3 DEF Inv
<1>3. PromiseKept
  BY DEF PromiseKept, PromiseStep
<1> QED
  BY <1>1, <1>2, <1>3 DEF HttpInv

LEMMA ClientFrameStep ==
    ASSUME HttpInv, ClientFrame
    PROVE  HttpInv' /\ PromiseKept
<1> DEFINE f == Head(toClient)
           r == f.stream
           c == [client[r] EXCEPT !.half = FALSE, !.active = FALSE]
<1>1. /\ toClient # <<>> /\ wsClient = "open" /\ toClient' = Tail(toClient)
      /\ UNCHANGED <<user, relay, wsRelay, wsClient>>
  BY DEF ClientFrame
<1>2. r \in Requests
  <2>1. toClient \in Seq(ToClient)
    BY DEF HttpInv, TypeOK
  <2>2. f \in ToClient
    BY <1>1, <2>1, HeadTailProperties
  <2> QED
    BY <2>2 DEF ToClient, Signals
<1>3. c \in LocalRequest /\ SameLocal(client[r], c)
  BY <1>2, RequestFacts, ZenonT(40) DEF LocalRequest, SameLocal
<1>4. \/ f.type = "REQ_META" /\ ReqMeta(r)
      \/ UNCHANGED <<client, toRelay>>
      \/ Open(r) /\ ReqData(r, c)
      \/ Open(r) /\ ClientBecomes(r, [c EXCEPT !.localEnded = TRUE], <<>>)
      \/ Open(r) /\ ClientBecomes(r, Drop("dropped"), <<>>)
      \/ Open(r) /\ ClientBecomes(r, c, <<>>)
      \/ /\ Open(r) /\ f.type \in {"PAUSE", "RESUME"}
         /\ \E o \in SetPeerPaused(c.writer, f.type = "PAUSE", TRUE) : ResponseWriterBecomes(r, c, o)
  BY DEF ClientFrame
<1> HIDE DEF c
<1>5. CASE f.type = "REQ_META" /\ ReqMeta(r)
  BY <1>1, <1>2, <1>5, ReqMetaStep DEF IsMeta
<1>6. CASE UNCHANGED <<client, toRelay>>
  BY <1>1, <1>6, LateFrameStep
<1>7. CASE Open(r) /\ ClientBecomes(r, c, <<>>)
  BY <1>1, <1>2, <1>3, <1>7, QuietStep
<1>8. CASE Open(r) /\ ClientBecomes(r, Drop("dropped"), <<>>)
  BY <1>1, <1>2, <1>8, DropStep
<1>9. CASE Open(r) /\ ClientBecomes(r, [c EXCEPT !.localEnded = TRUE], <<>>)
  <2>1. client[r].localEnded
    BY <1>2, <1>9, OpenFacts DEF ClientInv
  <2>2. [c EXCEPT !.localEnded = TRUE] \in LocalRequest /\ SameLocal(client[r], [c EXCEPT !.localEnded = TRUE])
    BY <1>3, <2>1 DEF LocalRequest, SameLocal
  <2> QED
    BY <1>1, <1>2, <1>9, <2>2, QuietStep
<1>10. CASE Open(r) /\ ReqData(r, c)
  <2>1. c.localEnded
    BY <1>2, <1>3, <1>10, OpenFacts DEF ClientInv, SameLocal
  <2>2. ClientBecomes(r, Drop("dropped"), <<Signal("RES_ABORT", r)>>) \/ ClientBecomes(r, c, <<>>)
    BY <1>10, <2>1 DEF ReqData, SendResAbort
  <2> QED
    BY <1>1, <1>2, <1>7, <1>10, <2>2, DropStep
<1>11. CASE /\ Open(r) /\ f.type \in {"PAUSE", "RESUME"}
            /\ \E o \in SetPeerPaused(c.writer, f.type = "PAUSE", TRUE) : ResponseWriterBecomes(r, c, o)
  <2>1. PICK o \in SetPeerPaused(c.writer, f.type = "PAUSE", TRUE) : ResponseWriterBecomes(r, c, o)
    BY <1>11
  <2>2. c.writer \in Writers(1..Slices) /\ (f.type = "PAUSE") \in BOOLEAN /\ TRUE \in BOOLEAN
    BY <1>3 DEF LocalRequest
  <2>3. IsTurn(1..Slices, c.writer, o)
    BY <2>1, <2>2, PauseTurn
  <2>4. /\ c.writer.queue = client[r].writer.queue
        /\ c.writer.ended => client[r].read = Slices
    BY <1>2, <1>3, <1>11, OpenFacts DEF SameLocal, ClientInv
  <2> QED
    BY <1>1, <1>2, <1>3, <1>11, <2>1, <2>2, <2>3, <2>4, ResponseTurnStep
<1> QED
  BY <1>4, <1>5, <1>6, <1>7, <1>8, <1>9, <1>10, <1>11

-----------------------------------------------------------------------------
(* The WebSocket closes.                                                   *)

LEMMA RelayClosingStep ==
    ASSUME HttpInv, RelayClosing
    PROVE  HttpInv' /\ PromiseKept
<1>1. /\ wsRelay = "open" /\ wsRelay' = "closing"
      /\ UNCHANGED <<user, relay, client, wsClient, toClient, toRelay>>
  BY DEF RelayClosing
<1>2. TypeOK'
  BY <1>1 DEF HttpInv, TypeOK
<1>3. \A q \in Requests : Inv(q)'
  BY <1>1 DEF HttpInv, Inv, StreamInv, WireInv
<1>4. PromiseKept
  BY <1>1 DEF PromiseKept, PromiseStep
<1> QED
  BY <1>1, <1>2, <1>3, <1>4 DEF HttpInv, Open

\* cleanupClient
LEMMA RelayClosedStep ==
    ASSUME HttpInv, RelayClosed
    PROVE  HttpInv' /\ PromiseKept
<1>1. /\ wsRelay' = "closed" /\ toRelay' = <<>> /\ UNCHANGED <<user, client, wsClient, toClient>>
      /\ relay' = [r \in Requests |-> AbortStream(relay[r], "aborted")]
  BY DEF RelayClosed
<1>2. ASSUME NEW r \in Requests
      PROVE  /\ relay'[r] \in RelayStream /\ RelayInv(user[r], relay'[r])
             /\ FreshInv(r, user[r], relay'[r], client[r], toRelay')
             /\ PromiseStep(user[r], relay[r], user[r], relay'[r])
  <2> DEFINE v == AbortStream(relay[r], "aborted")
  <2>0. Len(toRelay') = 0
    BY <1>1, EmptySeq
  <2>1. relay'[r] = v
    BY <1>1
  <2>2. CASE relay[r].phase = "live"
    <3>1. "aborted" \in {"aborted", "silent"} /\ SameUser(user[r], user[r])
      BY DEF SameUser
    <3>2. RelayMoves(user[r], relay[r], user[r], v)
      BY <2>2, <3>1, RequestFacts, AbortMoves
    <3> HIDE DEF v
    <3> QED
      BY <2>0, <2>1, <3>2 DEF RelayMoves, FreshInv
  <2>3. CASE relay[r].phase # "live"
    <3>1. v = relay[r]
      BY <2>3 DEF AbortStream, CleanupStream
    <3> HIDE DEF v
    <3> QED
      BY <2>0, <2>1, <3>1, RequestFacts DEF PromiseStep, FreshInv
  <2> QED
    BY <2>2, <2>3
<1>3. TypeOK'
  <2>1. relay' \in [Requests -> RelayStream]
    BY <1>1, <1>2
  <2> QED
    BY <1>1, <2>1, EmptySeq DEF HttpInv, TypeOK
<1>4. \A q \in Requests : Inv(q)'
  BY <1>1, <1>2 DEF HttpInv, Inv, StreamInv, WireInv
<1>5. PromiseKept
  BY <1>1, <1>2 DEF PromiseKept
<1> QED
  BY <1>1, <1>3, <1>4, <1>5 DEF HttpInv, Open

\* cleanupAllStreams
LEMMA ClientClosedStep ==
    ASSUME HttpInv, ClientClosed
    PROVE  HttpInv' /\ PromiseKept
<1>1. /\ wsClient' = "closed" /\ toClient' = <<>> /\ UNCHANGED <<user, relay, wsRelay, toRelay>>
      /\ client' = [r \in Requests |-> IF Open(r) THEN Drop("dropped") ELSE client[r]]
  BY DEF ClientClosed
<1>2. ASSUME NEW r \in Requests
      PROVE  /\ client'[r] \in LocalRequest /\ ClientInv(client'[r]) /\ client'[r].phase # "open"
             /\ FreshInv(r, user[r], relay[r], client'[r], toRelay)
             /\ \A S : HasSent(client[r], S) => HasSent(client'[r], S)
  <2>1. CASE Open(r)
    <3> DEFINE d == Drop("dropped")
    <3>1. d \in LocalRequest /\ d.phase = "dropped" /\ ClientInv(d) /\ client'[r] = d
      BY <1>1, <2>1, DropType
    <3> HIDE DEF d
    <3> QED
      BY <2>1, <3>1, OpenFacts DEF FreshInv, HasSent
  <2>2. CASE ~Open(r)
    BY <1>1, <2>2, RequestFacts DEF Open
  <2> QED
    BY <2>1, <2>2
<1>3. TypeOK'
  <2>1. client' \in [Requests -> LocalRequest]
    BY <1>1, <1>2
  <2> QED
    BY <1>1, <2>1, EmptySeq DEF HttpInv, TypeOK
<1>4. ASSUME NEW q \in Requests
      PROVE  Inv(q)'
  <2>1. MetaInv(q, user[q], client'[q], <<>>)
    BY EmptySeq DEF MetaInv
  <2>2. WireInv(q, user[q], relay[q], client'[q], wsRelay, toRelay)
    BY <1>2, RequestFacts DEF WireInv
  <2> QED
    BY <1>1, <1>2, <2>1, <2>2, RequestFacts DEF Inv, StreamInv
<1>5. PromiseKept
  BY <1>1 DEF PromiseKept, PromiseStep
<1> QED
  BY <1>2, <1>3, <1>4, <1>5 DEF HttpInv, Open

-----------------------------------------------------------------------------
(* The invariant.                                                          *)

LEMMA HttpInit == Init => HttpInv
<1> SUFFICES ASSUME Init PROVE HttpInv
  OBVIOUS
<1> DEFINE u0 == [end |-> "none", got |-> <<>>, body |-> 0, size |-> 0]
<1>1. /\ user = [r \in Requests |-> u0] /\ relay = [r \in Requests |-> NewStream]
      /\ client = [r \in Requests |-> NewLocal]
      /\ wsRelay = "open" /\ wsClient = "open" /\ toClient = <<>> /\ toRelay = <<>>
  BY DEF Init
<1>2. \A Slice : NewWriter \in Writers(Slice)
  BY EmptySeq DEF NewWriter, Writers
<1>3. NewStream \in RelayStream
  BY <1>2, EmptySeq DEF NewStream, RelayStream
<1>4. NewLocal \in LocalRequest
  BY <1>2, HttpAssumption DEF NewLocal, LocalRequest
<1>5. u0 \in UserView
  BY HttpAssumption, EmptySeq DEF UserView
<1>6. TypeOK
  <2> HIDE DEF u0
  <2> QED
    BY <1>1, <1>3, <1>4, <1>5, EmptySeq DEF TypeOK
<1>7. RelayInv(u0, NewStream)
  BY DEF RelayInv, NewStream
<1>8. ClientInv(NewLocal)
  BY EmptySeq, HttpAssumption DEF ClientInv, NewLocal, NewWriter
<1>9. \A r : /\ FreshInv(r, u0, NewStream, NewLocal, <<>>)
             /\ MetaInv(r, u0, NewLocal, <<>>)
             /\ WireInv(r, u0, NewStream, NewLocal, "open", <<>>)
  BY EmptySeq DEF FreshInv, MetaInv, WireInv, Expects, NewStream, NewLocal
<1> HIDE DEF u0
<1>10. ASSUME NEW r \in Requests
       PROVE  Inv(r)
  <2>1. user[r] = u0 /\ relay[r] = NewStream /\ client[r] = NewLocal
    BY <1>1
  <2> QED
    BY <1>1, <1>7, <1>8, <1>9, <2>1 DEF Inv, StreamInv
<1> QED
  BY <1>1, <1>6, <1>10 DEF HttpInv

\* Every step keeps the invariant, and is a step of the promise.
LEMMA HttpStep == HttpInv /\ [Next]_vars => HttpInv' /\ PromiseKept
<1> SUFFICES ASSUME HttpInv, [Next]_vars
             PROVE  HttpInv' /\ PromiseKept
  OBVIOUS
<1>1. ASSUME NEW r \in Requests, RequestStep(r)
      PROVE  HttpInv' /\ PromiseKept
  BY <1>1, AskStep, RefuseStep, BodyChunkStep, BodyEndStep, RequestDrainedStep, FlushStep,
     FinishStep, CutOrLeaveStep, UserClosedStep, RelayIdleStep, LocalResponseStep,
     LocalDataStep, LocalEndStep, LocalFailsStep, ResponseDrainedStep, HalfIdleStep,
     ClientIdleStep, Zenon DEF RequestStep
<1>2. CASE UNCHANGED vars
  <2>1. HttpInv'
    BY <1>2 DEF vars, HttpInv, TypeOK, Open, Inv, StreamInv
  <2>2. PromiseKept
    BY <1>2 DEF vars, PromiseKept, PromiseStep
  <2> QED
    BY <2>1, <2>2
<1> QED
  BY <1>1, <1>2, RelayFrameStep, ClientFrameStep, RelayClosingStep, RelayClosedStep,
     ClientClosedStep, Zenon DEF Next

\* In every state the slices of a response join up, from the client's writer to the user.
THEOREM HttpInvariant == Spec => []HttpInv
<1>1. HttpInv /\ [Next]_vars => HttpInv'
  BY HttpStep
<1> QED
  BY HttpInit, <1>1, PTL DEF Spec

\* The records of users, relay, client and wires keep their types: no count of slices or
\* chunks passes its bound.
THEOREM HttpTypes == Spec => []TypeOK
<1>1. HttpInv => TypeOK
  BY DEF HttpInv
<1> QED
  BY <1>1, HttpInvariant, PTL

\* A response that ended without an abort is whole: however the frames, the queues, the
\* pauses and the timers interleave, RES_END comes after the last slice and 'finish'
\* after the last byte.
THEOREM WholeResponses == Spec => []CompleteIsWhole
<1>1. HttpInv => CompleteIsWhole
  BY DEF HttpInv, Inv, StreamInv, RelayInv, CompleteIsWhole
<1> QED
  BY <1>1, HttpInvariant, PTL

\* HttpStream implements HttpPromise: what a user sees of the tunnel is one status line,
\* the body in order without gaps, one end, and nothing after it.
THEOREM PromiseIsKept == Spec => ImplementsPromise
<1>1. Init => Promise!Init
  <2> SUFFICES ASSUME Init PROVE Promise!Init
    OBVIOUS
  <2>1. \A r \in Requests : relay[r].head = "none" /\ user[r].got = <<>> /\ user[r].end = "none"
    BY DEF Init, NewStream
  <2> QED
    BY <2>1 DEF Promise!Init
<1>2. HttpInv /\ [Next]_vars => [Promise!Next]_<<[r \in Requests |-> relay[r].head],
                                               [r \in Requests |-> user[r].got],
                                               [r \in Requests |-> user[r].end]>>
  <2> SUFFICES ASSUME HttpInv, [Next]_vars PROVE Promise!Next
    OBVIOUS
  <2>1. PromiseKept
    BY HttpStep
  <2> SUFFICES ASSUME NEW r \in Requests PROVE Promise!Step(r)
    BY DEF Promise!Next
  <2>2. PromiseStep(user[r], relay[r], user'[r], relay'[r])
    BY <2>1 DEF PromiseKept
  <2> QED
    BY <2>2 DEF PromiseStep, Promise!Step, Promise!Ask, Promise!Answer, Promise!Receive,
                Promise!End, Promise!Refuse, Promise!Unchanged
<1> QED
  BY <1>1, <1>2, HttpInvariant, PTL DEF Spec, ImplementsPromise, Promise!Spec
-----------------------------------------------------------------------------
(* What the frames on a wire say of a request.                             *)

\* a frame of r, of one of these types, is on its way
Has(w, r, types) == \E i \in 1..Len(w) : w[i].stream = r /\ w[i].type \in types

ClientTypes == {"REQ_META", "REQ_DATA", "REQ_END", "REQ_ABORT", "PAUSE", "RESUME"}

\* the first frame is read, and is one of r of one of these types
Read(w, w2, r, types) ==
    w # <<>> /\ w2 = Tail(w) /\ Head(w).stream = r /\ Head(w).type \in types

LEMMA HasMore ==
    ASSUME NEW F, NEW w \in Seq(F), NEW g \in Seq(F)
    PROVE  \A r, types : Has(w \o g, r, types) <=> (Has(w, r, types) \/ Has(g, r, types))
<1> DEFINE v == w \o g
<1>1. /\ Len(w) \in Nat /\ Len(g) \in Nat
      /\ Len(v) = Len(w) + Len(g)
      /\ \A i \in 1..(Len(w) + Len(g)) : v[i] = IF i <= Len(w) THEN w[i] ELSE g[i - Len(w)]
  BY ConcatProperties, LenProperties
<1> HIDE DEF v
<1>2. ASSUME NEW i \in 1..Len(v)
      PROVE  \/ i \in 1..Len(w) /\ v[i] = w[i]
             \/ i - Len(w) \in 1..Len(g) /\ v[i] = g[i - Len(w)]
  BY <1>1
<1>3. \A i \in 1..Len(w) : i \in 1..Len(v) /\ v[i] = w[i]
  BY <1>1
<1>4. ASSUME NEW i \in 1..Len(g) PROVE Len(w) + i \in 1..Len(v) /\ v[Len(w) + i] = g[i]
  <2>1. Len(w) + i \in 1..(Len(w) + Len(g)) /\ ~(Len(w) + i <= Len(w)) /\ (Len(w) + i) - Len(w) = i
    BY <1>1
  <2> QED
    BY <2>1, <1>1
<1>5. ASSUME NEW r, NEW types
      PROVE  Has(v, r, types) <=> (Has(w, r, types) \/ Has(g, r, types))
  <2>1. Has(v, r, types) => Has(w, r, types) \/ Has(g, r, types)
    BY <1>2 DEF Has
  <2>2. Has(w, r, types) => Has(v, r, types)
    BY <1>3 DEF Has
  <2>3. Has(g, r, types) => Has(v, r, types)
    BY <1>4 DEF Has
  <2> QED
    BY <2>1, <2>2, <2>3 DEF Has
<1> QED
  BY <1>5 DEF v

LEMMA HasLess ==
    ASSUME NEW F, NEW w \in Seq(F), w # <<>>
    PROVE  \A r, types : Has(w, r, types) <=> (\/ Has(Tail(w), r, types)
                                               \/ Head(w).stream = r /\ Head(w).type \in types)
<1> DEFINE v == Tail(w)
<1>1. /\ Len(w) \in Nat \ {0} /\ Len(v) = Len(w) - 1 /\ Head(w) = w[1]
      /\ \A i \in 1..Len(v) : v[i] = w[i + 1]
  BY HeadTailProperties, LenProperties, EmptySeq
<1> HIDE DEF v
<1>2. \A i \in 1..Len(v) : i + 1 \in 1..Len(w) /\ v[i] = w[i + 1]
  BY <1>1
<1>3. ASSUME NEW i \in 1..Len(w) PROVE i = 1 \/ (i - 1 \in 1..Len(v) /\ v[i - 1] = w[i])
  <2>1. CASE i # 1
    <3>1. i - 1 \in 1..Len(v) /\ (i - 1) + 1 = i
      BY <1>1, <2>1
    <3> QED
      BY <3>1, <1>1
  <2> QED
    BY <2>1
<1>4. 1 \in 1..Len(w)
  BY <1>1
<1>5. ASSUME NEW r, NEW types
      PROVE  Has(w, r, types) <=> (\/ Has(v, r, types)
                                   \/ Head(w).stream = r /\ Head(w).type \in types)
  <2>1. Has(w, r, types) => Has(v, r, types) \/ (Head(w).stream = r /\ Head(w).type \in types)
    BY <1>1, <1>3 DEF Has
  <2>2. Has(v, r, types) => Has(w, r, types)
    BY <1>2 DEF Has
  <2>3. Head(w).stream = r /\ Head(w).type \in types => Has(w, r, types)
    BY <1>1, <1>4 DEF Has
  <2> QED
    BY <2>1, <2>2, <2>3 DEF Has
<1> QED
  BY <1>5 DEF v

LEMMA HasNone ==
    \A r, types : ~Has(<<>>, r, types)
BY EmptySeq DEF Has

LEMMA HasSignal ==
    ASSUME NEW t, NEW q
    PROVE  \A r, types : Has(<<Signal(t, q)>>, r, types) <=> (q = r /\ t \in types)
<1> DEFINE e == Signal(t, q)
<1>1. e.type = t /\ e.stream = q
  BY DEF Signal
<1> HIDE DEF e
<1>2. Len(<<e>>) = 1 /\ <<e>>[1] = e
  OBVIOUS
<1>3. \A i \in 1..1 : i = 1
  OBVIOUS
<1>4. 1 \in 1..1
  OBVIOUS
<1>5. ASSUME NEW r, NEW types PROVE Has(<<e>>, r, types) <=> (q = r /\ t \in types)
  BY <1>1, <1>2, <1>3, <1>4 DEF Has
<1> QED
  BY <1>5 DEF e

\* REQ_META is the first frame of its request on the wire
MetaFirst(w, r) ==
    \A i, j \in 1..Len(w) : IsMeta(w[i], r) /\ w[j].stream = r => i <= j

LEMMA MetaFirstMore ==
    ASSUME NEW F, NEW w \in Seq(F), NEW g \in Seq(F), NEW r,
           MetaFirst(w, r), ~Has(g, r, {"REQ_META"})
    PROVE  MetaFirst(w \o g, r)
<1> DEFINE v == w \o g
<1>1. /\ Len(w) \in Nat /\ Len(g) \in Nat
      /\ Len(v) = Len(w) + Len(g)
      /\ \A i \in 1..(Len(w) + Len(g)) : v[i] = IF i <= Len(w) THEN w[i] ELSE g[i - Len(w)]
  BY ConcatProperties, LenProperties
<1> HIDE DEF v
<1>2. ASSUME NEW i \in 1..Len(v)
      PROVE  \/ i \in 1..Len(w) /\ v[i] = w[i]
             \/ i > Len(w) /\ i - Len(w) \in 1..Len(g) /\ v[i] = g[i - Len(w)]
  BY <1>1
<1>3. ASSUME NEW i \in 1..Len(v), IsMeta(v[i], r)
      PROVE  i \in 1..Len(w) /\ v[i] = w[i]
  BY <1>2, <1>3 DEF Has, IsMeta
<1>4. ASSUME NEW i \in 1..Len(v), NEW j \in 1..Len(v), IsMeta(v[i], r), v[j].stream = r
      PROVE  i <= j
  <2>1. i \in 1..Len(w) /\ v[i] = w[i]
    BY <1>3, <1>4
  <2>2. CASE j \in 1..Len(w) /\ v[j] = w[j]
    BY <1>4, <2>1, <2>2 DEF MetaFirst
  <2>3. CASE j > Len(w)
    BY <1>1, <2>1, <2>3
  <2> QED
    BY <1>2, <2>2, <2>3
<1> QED
  BY <1>4 DEF MetaFirst, v

LEMMA MetaFirstLess ==
    ASSUME NEW F, NEW w \in Seq(F), w # <<>>, NEW r, MetaFirst(w, r)
    PROVE  /\ MetaFirst(Tail(w), r)
           /\ Head(w).stream = r => ~Has(Tail(w), r, {"REQ_META"})
<1> DEFINE v == Tail(w)
<1>1. /\ Len(w) \in Nat \ {0} /\ Len(v) = Len(w) - 1 /\ Head(w) = w[1]
      /\ \A i \in 1..Len(v) : v[i] = w[i + 1]
  BY HeadTailProperties, LenProperties, EmptySeq
<1> HIDE DEF v
<1>2. \A i \in 1..Len(v) : i \in Nat /\ i + 1 \in 1..Len(w) /\ v[i] = w[i + 1] /\ ~(i + 1 <= 1)
  BY <1>1
<1>3. ASSUME NEW i \in 1..Len(v), NEW j \in 1..Len(v), IsMeta(v[i], r), v[j].stream = r
      PROVE  i <= j
  <2>1. i + 1 <= j + 1
    BY <1>2, <1>3 DEF MetaFirst
  <2> QED
    BY <2>1, <1>2
<1>4. ASSUME Head(w).stream = r, NEW i \in 1..Len(v), v[i].stream = r, v[i].type = "REQ_META"
      PROVE  FALSE
  <2>1. 1 \in 1..Len(w) /\ w[1].stream = r /\ IsMeta(w[i + 1], r)
    BY <1>1, <1>2, <1>4 DEF IsMeta
  <2>2. i + 1 <= 1
    BY <1>2, <2>1 DEF MetaFirst
  <2> QED
    BY <2>2, <1>2
<1> QED
  BY <1>3, <1>4 DEF MetaFirst, Has, v

\* a wire without a frame of r gets its REQ_META
LEMMA MetaFirstNew ==
    ASSUME NEW w \in Seq(ToClient), NEW r \in Requests, ~Has(w, r, ClientTypes)
    PROVE  MetaFirst(w \o <<Signal("REQ_META", r)>>, r)
<1> DEFINE e == Signal("REQ_META", r)
           g == <<e>>
           v == w \o g
<1>0. g \in Seq(ToClient) /\ Len(g) = 1
  BY SignalToClient
<1> HIDE DEF g
<1>8. Len(w) \in Nat
  BY LenProperties
<1>1. /\ Len(w) \in Nat
      /\ Len(v) = Len(w) + 1
      /\ \A i \in 1..(Len(w) + 1) : v[i] = IF i <= Len(w) THEN w[i] ELSE g[i - Len(w)]
  BY <1>0, <1>8, ConcatProperties
<1>2. \A i \in 1..Len(w) : w[i] \in ToClient
  BY ElementOfSeq
<1>3. \A f \in ToClient : f.type \in ClientTypes
  BY DEF ToClient, Signals, ClientTypes
<1>4. \A i \in 1..Len(w) : w[i].stream # r
  BY <1>2, <1>3 DEF Has
<1> HIDE DEF v
<1>5. ASSUME NEW i \in 1..Len(v), v[i].stream = r PROVE i = Len(w) + 1
  BY <1>1, <1>4, <1>5
<1>6. \A i, j \in 1..Len(v) : IsMeta(v[i], r) /\ v[j].stream = r => i <= j
  BY <1>1, <1>5 DEF IsMeta
<1>7. MetaFirst(v, r)
  BY <1>6 DEF MetaFirst
<1> QED
  BY <1>7 DEF v, g

-----------------------------------------------------------------------------
(* The last PAUSE or RESUME of a request on a wire.                        *)

Words == {"PAUSE", "RESUME"}
WordAt(w, r, i) == w[i].stream = r /\ w[i].type \in Words

\* a writer whose flag is `was` has `is` once it has read the wire
LastWord(w, r, was, is) ==
    /\ ~Has(w, r, Words) => was = is
    /\ \A i \in 1..Len(w) :
          WordAt(w, r, i) /\ (\A j \in 1..Len(w) : WordAt(w, r, j) => j <= i)
          => (w[i].type = "PAUSE") = is

\* frames are added that agree with the new value, or none if it is the old one
LEMMA LastWordMore ==
    ASSUME NEW F, NEW w \in Seq(F), NEW g \in Seq(F), NEW r, NEW was, NEW is, NEW new,
           LastWord(w, r, was, is),
           \A i \in 1..Len(g) : WordAt(g, r, i) => (g[i].type = "PAUSE") = new,
           ~Has(g, r, Words) => new = is
    PROVE  LastWord(w \o g, r, was, new)
<1> DEFINE v == w \o g
<1>1. /\ Len(w) \in Nat /\ Len(g) \in Nat
      /\ Len(v) = Len(w) + Len(g)
      /\ \A i \in 1..(Len(w) + Len(g)) : v[i] = IF i <= Len(w) THEN w[i] ELSE g[i - Len(w)]
  BY ConcatProperties, LenProperties
<1>0. Has(v, r, Words) <=> (Has(w, r, Words) \/ Has(g, r, Words))
  BY HasMore
<1> HIDE DEF v
<1>2. ASSUME NEW i \in 1..Len(v)
      PROVE  \/ i \in 1..Len(w) /\ v[i] = w[i]
             \/ i - Len(w) \in 1..Len(g) /\ v[i] = g[i - Len(w)]
  BY <1>1
<1>3. \A i \in 1..Len(w) : i \in 1..Len(v) /\ v[i] = w[i]
  BY <1>1
<1>4. ASSUME NEW i \in 1..Len(g)
      PROVE  Len(w) + i \in 1..Len(v) /\ v[Len(w) + i] = g[i] /\ ~(Len(w) + i <= Len(w))
  <2>1. Len(w) + i \in 1..(Len(w) + Len(g)) /\ ~(Len(w) + i <= Len(w)) /\ (Len(w) + i) - Len(w) = i
    BY <1>1
  <2> QED
    BY <2>1, <1>1
<1>5. ~Has(v, r, Words) => was = new
  BY <1>0 DEF LastWord
<1>6. ASSUME NEW i \in 1..Len(v), WordAt(v, r, i), \A j \in 1..Len(v) : WordAt(v, r, j) => j <= i
      PROVE  (v[i].type = "PAUSE") = new
  <2>1. CASE i - Len(w) \in 1..Len(g) /\ v[i] = g[i - Len(w)]
    BY <2>1, <1>6 DEF WordAt
  <2>2. CASE i \in 1..Len(w) /\ v[i] = w[i]
    <3>1. ~Has(g, r, Words)
      <4> SUFFICES ASSUME NEW k \in 1..Len(g), WordAt(g, r, k) PROVE FALSE
        BY DEF Has, WordAt
      <4>1. Len(w) + k <= i
        BY <1>4, <1>6 DEF WordAt
      <4> QED
        BY <4>1, <1>1, <2>2
    <3>2. WordAt(w, r, i) /\ \A j \in 1..Len(w) : WordAt(w, r, j) => j <= i
      BY <1>3, <1>6, <2>2 DEF WordAt
    <3> QED
      BY <3>1, <3>2, <2>2 DEF LastWord
  <2> QED
    BY <2>1, <2>2, <1>2
<1> QED
  BY <1>5, <1>6 DEF LastWord, v

\* the writer reads a frame
LEMMA LastWordLess ==
    ASSUME NEW F, NEW w \in Seq(F), w # <<>>, NEW r, NEW was, NEW is, LastWord(w, r, was, is)
    PROVE  LastWord(Tail(w), r, IF WordAt(w, r, 1) THEN Head(w).type = "PAUSE" ELSE was, is)
<1> DEFINE v == Tail(w)
           now == IF WordAt(w, r, 1) THEN Head(w).type = "PAUSE" ELSE was
<1>1. /\ Len(w) \in Nat \ {0} /\ Len(v) = Len(w) - 1 /\ Head(w) = w[1]
      /\ \A i \in 1..Len(v) : v[i] = w[i + 1]
  BY HeadTailProperties, LenProperties, EmptySeq
<1>0. Has(w, r, Words) <=> (Has(v, r, Words) \/ WordAt(w, r, 1))
  <2>1. Has(w, r, Words) <=> (Has(v, r, Words) \/ (Head(w).stream = r /\ Head(w).type \in Words))
    BY HasLess
  <2> QED
    BY <1>1, <2>1 DEF WordAt
<1> HIDE DEF v
<1>2. \A i \in 1..Len(v) : i \in Nat /\ i + 1 \in 1..Len(w) /\ v[i] = w[i + 1]
  BY <1>1
<1>3. ASSUME NEW i \in 1..Len(w) PROVE i = 1 \/ (i - 1 \in 1..Len(v) /\ v[i - 1] = w[i])
  <2>1. CASE i # 1
    <3>1. i - 1 \in 1..Len(v) /\ (i - 1) + 1 = i
      BY <1>1, <2>1
    <3> QED
      BY <3>1, <1>1
  <2> QED
    BY <2>1
<1>4. ASSUME ~Has(v, r, Words) PROVE now = is
  <2>1. \A j \in 1..Len(w) : WordAt(w, r, j) => j = 1
    BY <1>3, <1>4 DEF Has, WordAt
  <2>2. CASE WordAt(w, r, 1)
    <3>1. 1 \in 1..Len(w) /\ \A j \in 1..Len(w) : WordAt(w, r, j) => j <= 1
      BY <2>1, <1>1
    <3> QED
      BY <3>1, <2>2, <1>1 DEF LastWord
  <2>3. CASE ~WordAt(w, r, 1)
    BY <1>0, <1>4, <2>3 DEF LastWord
  <2> QED
    BY <2>2, <2>3
<1>5. ASSUME NEW i \in 1..Len(v), WordAt(v, r, i), \A j \in 1..Len(v) : WordAt(v, r, j) => j <= i
      PROVE  (v[i].type = "PAUSE") = is
  <2>1. i + 1 \in 1..Len(w) /\ WordAt(w, r, i + 1) /\ i \in Nat \ {0}
    BY <1>2, <1>5 DEF WordAt
  <2>2. ASSUME NEW j \in 1..Len(w), WordAt(w, r, j) PROVE j <= i + 1
    <3>1. CASE j = 1
      BY <2>1, <3>1
    <3>2. CASE j # 1
      <4>1. j - 1 <= i
        BY <1>3, <1>5, <2>2, <3>2 DEF WordAt
      <4> QED
        BY <4>1, <2>1
    <3> QED
      BY <3>1, <3>2
  <2>3. (w[i + 1].type = "PAUSE") = is
    BY <2>1, <2>2 DEF LastWord
  <2> QED
    BY <2>3, <1>2
<1> HIDE DEF now
<1>6. LastWord(v, r, now, is)
  BY <1>4, <1>5 DEF LastWord
<1> QED
  BY <1>6 DEF now, v
-----------------------------------------------------------------------------
(* Who still talks to whom about a request, while both ends are open.      *)

\* the response has begun, as far as the relay knows
Answered(s) == s.phase = "live" /\ (s.responseStarted \/ s.responsePaused)

\* What the two records of a request and the frames of it under way say together.
TalkInv(r, u, s, c, tc, tr) ==
    \* nothing is said of a request that was not made, and REQ_META is said first
    /\ u.end = "none" => ~Has(tc, r, ClientTypes) /\ ~s.responsePaused
    /\ MetaFirst(tc, r)
    \* an abort comes from a relay that has dropped the entry
    /\ Has(tc, r, {"REQ_ABORT"}) => s.phase # "live"
    \* an end comes from a client that has dropped its entry
    /\ Has(tr, r, {"RES_END", "RES_ABORT"}) \/ (s.phase = "live" /\ s.responseEnded) =>
          c.phase # "open" /\ ~Has(tc, r, {"REQ_META"})
    \* an answer, a pause and what follows from them come from an entry that has answered
    /\ \/ Has(tr, r, {"RES_META", "RES_DATA", "RES_END"})
       \/ Has(tc, r, Words)
       \/ Answered(s)
       => c.phase # "none" /\ (c.phase = "open" => c.started)
    \* a live request has an entry, or will have, or its end is under way
    /\ s.phase = "live" /\ ~s.responseEnded =>
          \/ c.phase = "open"
          \/ Has(tc, r, {"REQ_META"})
          \/ Has(tr, r, {"RES_END", "RES_ABORT"})
    \* an entry has a request at the relay, or will be aborted, or was forgotten silently
    /\ c.phase = "open" \/ Has(tc, r, {"REQ_META"}) =>
          s.phase \in {"live", "silent"} \/ Has(tc, r, {"REQ_ABORT"})
    \* once the wire is read the writer is paused as the relay has it
    /\ s.phase = "live" /\ c.phase = "open" => LastWord(tc, r, c.writer.paused, s.responsePaused)
    \* an entry that has not answered has not written
    /\ c.phase = "none" => c = NewLocal
    /\ c.phase = "open" /\ ~c.started => c.writer = NewWriter

\* as long as nothing sent is lost
HttpTalk ==
    wsRelay = "open" /\ wsClient = "open" =>
        \A r \in Requests : TalkInv(r, user[r], relay[r], client[r], toClient, toRelay)

\* what a step at another request may do to a wire
OtherWire(F, r, w, w2) ==
    \/ w2 = w
    \/ w # <<>> /\ w2 = Tail(w) /\ Head(w).stream # r
    \/ \E g \in Seq(F) : w2 = w \o g /\ \A i \in 1..Len(g) : g[i].stream # r

SameTalk(r, w, w2) ==
    /\ \A types : Has(w2, r, types) <=> Has(w, r, types)
    /\ MetaFirst(w, r) => MetaFirst(w2, r)
    /\ \A was, is : LastWord(w, r, was, is) => LastWord(w2, r, was, is)

LEMMA OtherWireSame ==
    ASSUME NEW F, NEW r, NEW w \in Seq(F), NEW w2, OtherWire(F, r, w, w2)
    PROVE  SameTalk(r, w, w2)
<1>1. CASE w2 = w
  BY <1>1 DEF SameTalk
<1>2. CASE w # <<>> /\ w2 = Tail(w) /\ Head(w).stream # r
  <2>0. w # <<>> /\ w2 = Tail(w) /\ Head(w).stream # r
    BY <1>2
  <2>1. \A types : Has(w, r, types) <=> Has(w2, r, types)
    BY <2>0, HasLess
  <2>2. MetaFirst(w, r) => MetaFirst(w2, r)
    BY <2>0, MetaFirstLess
  <2>3. ~WordAt(w, r, 1)
    <3>1. Head(w) = w[1]
      BY <2>0, HeadTailProperties
    <3> QED
      BY <2>0, <3>1 DEF WordAt
  <2>4. ASSUME NEW was, NEW is, LastWord(w, r, was, is) PROVE LastWord(w2, r, was, is)
    BY <2>0, <2>3, <2>4, LastWordLess
  <2> QED
    BY <2>1, <2>2, <2>4 DEF SameTalk
<1>3. CASE \E g \in Seq(F) : w2 = w \o g /\ \A i \in 1..Len(g) : g[i].stream # r
  <2>1. PICK g \in Seq(F) : w2 = w \o g /\ \A i \in 1..Len(g) : g[i].stream # r
    BY <1>3
  <2>2. \A types : ~Has(g, r, types)
    BY <2>1 DEF Has
  <2>3. \A types : Has(w2, r, types) <=> Has(w, r, types)
    BY <2>1, <2>2, HasMore
  <2>4. MetaFirst(w, r) => MetaFirst(w2, r)
    BY <2>1, <2>2, MetaFirstMore
  <2>5. ASSUME NEW was, NEW is, LastWord(w, r, was, is) PROVE LastWord(w2, r, was, is)
    <3>1. \A i \in 1..Len(g) : WordAt(g, r, i) => (g[i].type = "PAUSE") = is
      BY <2>1 DEF WordAt
    <3> QED
      BY <2>1, <2>5, <3>1, LastWordMore
  <2> QED
    BY <2>3, <2>4, <2>5 DEF SameTalk
<1> QED
  BY <1>1, <1>2, <1>3 DEF OtherWire

\* A step at another request leaves the talk about r alone.
LEMMA OthersTalk ==
    ASSUME NEW r, NEW u, NEW s, NEW c, NEW tc \in Seq(ToClient), NEW tr \in Seq(ToRelay),
           NEW tc2, NEW tr2, TalkInv(r, u, s, c, tc, tr),
           OtherWire(ToClient, r, tc, tc2), OtherWire(ToRelay, r, tr, tr2)
    PROVE  TalkInv(r, u, s, c, tc2, tr2)
<1>1. SameTalk(r, tc, tc2) /\ SameTalk(r, tr, tr2)
  BY OtherWireSame
<1> QED
  BY <1>1 DEF TalkInv, SameTalk

-----------------------------------------------------------------------------
(* What a step at the relay says.                                          *)

\* the frames g take the reader from `is` to `new`
Agrees(g, r, is, new) ==
    /\ ~Has(g, r, Words) => new = is
    /\ \A i \in 1..Len(g) : WordAt(g, r, i) => (g[i].type = "PAUSE") = new

\* the record s becomes s2, g is sent, and a frame of r is read or none is
RelaySays(r, s, s2, g, tr, tr2) ==
    /\ tr2 = tr \/ Read(tr, tr2, r, {"RES_META", "RES_DATA", "RES_END", "RES_ABORT"})
    /\ ~Has(g, r, {"REQ_META"})
    /\ s2.phase = "live" => s.phase = "live" /\ (s.responseEnded => s2.responseEnded)
    /\ Has(g, r, {"REQ_ABORT"}) => s2.phase # "live"
    /\ s2.phase = "live" /\ s2.responseEnded => s.responseEnded \/ Read(tr, tr2, r, {"RES_END"})
    /\ s2.phase = "live" /\ Read(tr, tr2, r, {"RES_END", "RES_ABORT"}) => s2.responseEnded
    /\ Answered(s2) \/ Has(g, r, Words) => Answered(s) \/ Read(tr, tr2, r, {"RES_META", "RES_DATA"})
    /\ s.phase \in {"live", "silent"} =>
          \/ s2.phase \in {"live", "silent"}
          \/ Has(g, r, {"REQ_ABORT"})
          \/ Read(tr, tr2, r, {"RES_END", "RES_ABORT"})
          \/ s.phase = "live" /\ s.responseEnded
    /\ s2.phase = "live" => Agrees(g, r, s.responsePaused, s2.responsePaused)

\* what a wire that is read has said before
LEMMA ReadHas ==
    ASSUME NEW F, NEW r, NEW w \in Seq(F), NEW w2, NEW types, Read(w, w2, r, types)
    PROVE  /\ \A more : types \subseteq more => Has(w, r, more)
           /\ \A some : Has(w2, r, some) => Has(w, r, some)
           /\ \A some : Has(w, r, some) => Has(w2, r, some) \/ Read(w, w2, r, some)
<1>1. /\ w # <<>> /\ w2 = Tail(w) /\ Head(w).stream = r /\ Head(w).type \in types
  BY DEF Read
<1>2. \A some : Has(w, r, some) <=> (Has(w2, r, some) \/ (Head(w).stream = r /\ Head(w).type \in some))
  BY <1>1, HasLess
<1> QED
  BY <1>1, <1>2 DEF Read

LEMMA ReadMoves ==
    ASSUME NEW F, NEW w \in Seq(F)
    PROVE  \A r, types : ~Read(w, w, r, types)
<1>1. w # <<>> => Tail(w) # w
  <2> SUFFICES ASSUME w # <<>> PROVE Tail(w) # w
    OBVIOUS
  <2>1. Len(Tail(w)) = Len(w) - 1 /\ Len(w) \in Nat
    BY HeadTailProperties, LenProperties
  <2>2. \A n \in Nat : n - 1 # n
    OBVIOUS
  <2>3. Len(Tail(w)) # Len(w)
    BY <2>1, <2>2
  <2> QED
    BY <2>3, Zenon
<1> QED
  BY <1>1 DEF Read

LEMMA RelayTalks ==
    ASSUME NEW r, NEW u, NEW s, NEW c, NEW tc \in Seq(ToClient), NEW tr \in Seq(ToRelay),
           NEW u2, NEW s2, NEW g \in Seq(ToClient), NEW tr2,
           u2.end # "none", TalkInv(r, u, s, c, tc, tr), RelaySays(r, s, s2, g, tr, tr2)
    PROVE  TalkInv(r, u2, s2, c, tc \o g, tr2)
<1> DEFINE tc2 == tc \o g
           ends == {"RES_END", "RES_ABORT"}
           answers == {"RES_META", "RES_DATA", "RES_END"}
<1>1. \A types : Has(tc2, r, types) <=> (Has(tc, r, types) \/ Has(g, r, types))
  BY HasMore
<1>2. /\ \A types : Has(tr2, r, types) => Has(tr, r, types)
      /\ \A types : Has(tr, r, types) => Has(tr2, r, types) \/ Read(tr, tr2, r, types)
      /\ \A types : Read(tr, tr2, r, types) => Has(tr, r, types)
  <2>1. \A types : Read(tr, tr2, r, types) => Has(tr, r, types)
    BY ReadHas
  <2>2. CASE tr2 = tr
    BY <2>1, <2>2
  <2>3. CASE tr2 # tr
    <3>1. Read(tr, tr2, r, {"RES_META", "RES_DATA", "RES_END", "RES_ABORT"})
      BY <2>3 DEF RelaySays
    <3> QED
      BY <2>1, <3>1, ReadHas
  <2> QED
    BY <2>2, <2>3
<1>3. ~Has(g, r, {"REQ_META"}) /\ MetaFirst(tc2, r)
  BY MetaFirstMore DEF RelaySays, TalkInv
<1>4. s2.phase = "live" /\ c.phase = "open" => LastWord(tc2, r, c.writer.paused, s2.responsePaused)
  <2> SUFFICES ASSUME s2.phase = "live", c.phase = "open"
               PROVE  LastWord(tc2, r, c.writer.paused, s2.responsePaused)
    OBVIOUS
  <2>1. LastWord(tc, r, c.writer.paused, s.responsePaused)
    BY DEF TalkInv, RelaySays
  <2>2. Agrees(g, r, s.responsePaused, s2.responsePaused)
    BY DEF RelaySays
  <2> QED
    BY <2>1, <2>2, LastWordMore DEF Agrees
<1> HIDE DEF tc2
<1>5. Read(tr, tr2, r, {"RES_META", "RES_DATA"}) => Has(tr, r, answers)
  <2>1. Read(tr, tr2, r, {"RES_META", "RES_DATA"}) => Read(tr, tr2, r, answers)
    BY DEF Read
  <2> QED
    BY <2>1, <1>2
<1>6. Read(tr, tr2, r, {"RES_END"}) => Has(tr, r, ends)
  <2>1. Read(tr, tr2, r, {"RES_END"}) => Read(tr, tr2, r, ends)
    BY DEF Read
  <2> QED
    BY <2>1, <1>2
<1>7. u2.end = "none" => ~Has(tc2, r, ClientTypes)
  OBVIOUS
<1>8. Has(tc2, r, {"REQ_ABORT"}) => s2.phase # "live"
  BY <1>1 DEF TalkInv, RelaySays
<1>9. Has(tr2, r, ends) \/ (s2.phase = "live" /\ s2.responseEnded) =>
          c.phase # "open" /\ ~Has(tc2, r, {"REQ_META"})
  BY <1>1, <1>2, <1>3, <1>6 DEF TalkInv, RelaySays
<1>10. Has(tr2, r, answers) \/ Has(tc2, r, Words) \/ Answered(s2)
       => c.phase # "none" /\ (c.phase = "open" => c.started)
  BY <1>1, <1>2, <1>5 DEF TalkInv, RelaySays
<1>11. s2.phase = "live" /\ ~s2.responseEnded =>
          \/ c.phase = "open"
          \/ Has(tc2, r, {"REQ_META"})
          \/ Has(tr2, r, ends)
  BY <1>1, <1>2 DEF TalkInv, RelaySays
<1>12. c.phase = "open" \/ Has(tc2, r, {"REQ_META"}) =>
          s2.phase \in {"live", "silent"} \/ Has(tc2, r, {"REQ_ABORT"})
  BY <1>1, <1>2, <1>3 DEF TalkInv, RelaySays
<1>13. /\ c.phase = "none" => c = NewLocal
       /\ c.phase = "open" /\ ~c.started => c.writer = NewWriter
  BY DEF TalkInv
<1>14. TalkInv(r, u2, s2, c, tc2, tr2)
  BY <1>3, <1>4, <1>7, <1>8, <1>9, <1>10, <1>11, <1>12, <1>13 DEF TalkInv
<1> QED
  BY <1>14 DEF tc2

-----------------------------------------------------------------------------
(* What a step at the client says.                                         *)

\* the record c becomes c2, g is sent, and a frame of r is read or none is
ClientSays(r, c, c2, g, tc, tc2) ==
    /\ tc2 = tc \/ Read(tc, tc2, r, ClientTypes)
    /\ c2.phase = "none" => c2 = c
    /\ c2.phase = "open" => c.phase = "open" \/ Read(tc, tc2, r, {"REQ_META"})
    /\ c2.phase = "open" /\ ~c2.started => c2.writer = NewWriter
    /\ Read(tc, tc2, r, {"REQ_META"}) =>
          (c2.phase = "open" /\ c2.writer = NewWriter) \/ Has(g, r, {"RES_ABORT"})
    /\ Read(tc, tc2, r, {"REQ_ABORT"}) => c2.phase # "open"
    /\ Has(g, r, {"RES_END", "RES_ABORT"}) =>
          c2.phase # "open" /\ (c.phase = "open" \/ Read(tc, tc2, r, {"REQ_META"}))
    /\ Has(g, r, {"RES_META", "RES_DATA", "RES_END"}) =>
          c2.phase # "none" /\ (c2.phase = "open" => c2.started)
    /\ c.phase = "open" /\ c.started /\ c2.phase = "open" => c2.started
    /\ c.phase = "open" =>
          \/ c2.phase = "open"
          \/ Has(g, r, {"RES_END", "RES_ABORT"})
          \/ Read(tc, tc2, r, {"REQ_ABORT"})
    /\ c.phase = "open" /\ c2.phase = "open" =>
          c2.writer.paused = IF Read(tc, tc2, r, Words) THEN Head(tc).type = "PAUSE"
                             ELSE c.writer.paused

LEMMA ClientTalks ==
    ASSUME NEW r, NEW u, NEW s \in RelayStream, NEW c, NEW tc \in Seq(ToClient), NEW tr \in Seq(ToRelay),
           NEW c2, NEW g \in Seq(ToRelay), NEW tc2,
           MetaInv(r, u, c, tc), u.end # "none",
           TalkInv(r, u, s, c, tc, tr), ClientSays(r, c, c2, g, tc, tc2)
    PROVE  TalkInv(r, u, s, c2, tc2, tr \o g)
<1> DEFINE tr2 == tr \o g
           ends == {"RES_END", "RES_ABORT"}
           answers == {"RES_META", "RES_DATA", "RES_END"}
<1>1. \A types : Has(tr2, r, types) <=> (Has(tr, r, types) \/ Has(g, r, types))
  BY HasMore
<1>2. /\ \A types : Has(tc2, r, types) => Has(tc, r, types)
      /\ \A types : Has(tc, r, types) => Has(tc2, r, types) \/ Read(tc, tc2, r, types)
      /\ \A types : Read(tc, tc2, r, types) => Has(tc, r, types)
  <2>1. \A types : Read(tc, tc2, r, types) => Has(tc, r, types)
    BY ReadHas
  <2>2. CASE tc2 = tc
    BY <2>1, <2>2
  <2>3. CASE tc2 # tc
    <3>1. Read(tc, tc2, r, ClientTypes)
      BY <2>3 DEF ClientSays
    <3> QED
      BY <2>1, <3>1, ReadHas
  <2> QED
    BY <2>2, <2>3
<1>3. /\ MetaFirst(tc2, r)
      /\ tc2 # tc => ~Has(tc2, r, {"REQ_META"})
  <2>1. CASE tc2 = tc
    BY <2>1 DEF TalkInv
  <2>2. CASE tc2 # tc
    <3>1. tc # <<>> /\ tc2 = Tail(tc) /\ Head(tc).stream = r
      BY <2>2 DEF ClientSays, Read
    <3> QED
      BY <3>1, MetaFirstLess DEF TalkInv
  <2> QED
    BY <2>1, <2>2
<1>4. Has(tc, r, {"REQ_META"}) => c.phase = "none"
  BY DEF Has, MetaInv, IsMeta
<1>5. \A types : Read(tc, tc2, r, types) => tc2 # tc
  BY ReadMoves
<1>6. s.phase = "live" /\ c2.phase = "open" => LastWord(tc2, r, c2.writer.paused, s.responsePaused)
  <2> SUFFICES ASSUME s.phase = "live", c2.phase = "open"
               PROVE  LastWord(tc2, r, c2.writer.paused, s.responsePaused)
    OBVIOUS
  <2>1. CASE c.phase = "open" /\ tc2 = tc
    <3>1. c2.writer.paused = c.writer.paused
      BY <1>5, <2>1 DEF ClientSays
    <3> QED
      BY <2>1, <3>1 DEF TalkInv
  <2>2. CASE c.phase = "open" /\ tc2 # tc
    <3>1. tc # <<>> /\ tc2 = Tail(tc) /\ Head(tc).stream = r /\ Head(tc) = tc[1]
      <4>1. tc # <<>> /\ tc2 = Tail(tc) /\ Head(tc).stream = r
        BY <2>2 DEF ClientSays, Read
      <4> QED
        BY <4>1, HeadTailProperties
    <3>2. Read(tc, tc2, r, Words) <=> WordAt(tc, r, 1)
      BY <3>1 DEF Read, WordAt
    <3>3. c2.writer.paused = IF WordAt(tc, r, 1) THEN Head(tc).type = "PAUSE" ELSE c.writer.paused
      BY <2>2, <3>2 DEF ClientSays
    <3>4. LastWord(tc, r, c.writer.paused, s.responsePaused)
      BY <2>2 DEF TalkInv
    <3> QED
      BY <3>1, <3>3, <3>4, LastWordLess
  <2>3. CASE c.phase # "open"
    <3>1. Read(tc, tc2, r, {"REQ_META"})
      BY <2>3 DEF ClientSays
    <3>2. c.phase = "none"
      BY <1>2, <1>4, <3>1
    <3>3. ~Has(tc, r, Words) /\ ~Answered(s)
      BY <3>2 DEF TalkInv
    <3>4. ~Has(tc2, r, Words) /\ ~s.responsePaused
      BY <1>2, <3>3 DEF Answered
    <3>5. c2.writer = NewWriter
      <4>1. Has(g, r, {"RES_ABORT"}) => Has(g, r, ends)
        BY DEF Has
      <4> QED
        BY <3>1, <4>1 DEF ClientSays
    <3>6. c2.writer.paused = FALSE /\ s.responsePaused = FALSE
      BY <3>4, <3>5 DEF NewWriter, RelayStream
    <3>7. \A i \in 1..Len(tc2) : ~WordAt(tc2, r, i)
      BY <3>4 DEF Has, WordAt
    <3> QED
      BY <3>6, <3>7 DEF LastWord
  <2> QED
    BY <2>1, <2>2, <2>3
<1> HIDE DEF tr2
<1>7. c2.phase = "open" /\ c.phase # "open" => Has(tc, r, {"REQ_META"}) /\ c.phase = "none"
  BY <1>2, <1>4 DEF ClientSays
<1>8. Has(tr2, r, ends) \/ (s.phase = "live" /\ s.responseEnded) =>
          c2.phase # "open" /\ ~Has(tc2, r, {"REQ_META"})
  <2>1. CASE Has(g, r, ends)
    BY <2>1, <1>2, <1>3, <1>4, <1>5 DEF ClientSays
  <2>2. CASE ~Has(g, r, ends)
    BY <2>2, <1>1, <1>2, <1>7 DEF TalkInv
  <2> QED
    BY <2>1, <2>2
<1>9. Has(tr2, r, answers) \/ Has(tc2, r, Words) \/ Answered(s)
      => c2.phase # "none" /\ (c2.phase = "open" => c2.started)
  <2>1. CASE Has(g, r, answers)
    BY <2>1 DEF ClientSays
  <2>2. CASE ~Has(g, r, answers)
    <3>1. Has(tr2, r, answers) \/ Has(tc2, r, Words) \/ Answered(s)
          => c.phase # "none" /\ (c.phase = "open" => c.started)
      BY <2>2, <1>1, <1>2 DEF TalkInv
    <3>2. c.phase # "none" => c2.phase # "none"
      BY DEF ClientSays
    <3>3. c.phase # "none" /\ c2.phase = "open" => c.phase = "open"
      BY <1>7
    <3>4. c.phase = "open" /\ c.started /\ c2.phase = "open" => c2.started
      BY DEF ClientSays
    <3> QED
      BY <3>1, <3>2, <3>3, <3>4
  <2> QED
    BY <2>1, <2>2
<1>10. s.phase = "live" /\ ~s.responseEnded =>
          \/ c2.phase = "open"
          \/ Has(tc2, r, {"REQ_META"})
          \/ Has(tr2, r, ends)
  <2> SUFFICES ASSUME s.phase = "live", ~s.responseEnded
               PROVE  c2.phase = "open" \/ Has(tc2, r, {"REQ_META"}) \/ Has(tr2, r, ends)
    OBVIOUS
  <2>1. c.phase = "open" \/ Has(tc, r, {"REQ_META"}) \/ Has(tr, r, ends)
    BY DEF TalkInv
  <2>2. CASE c.phase = "open"
    <3>1. ~Read(tc, tc2, r, {"REQ_ABORT"})
      BY <1>2 DEF TalkInv
    <3> QED
      BY <1>1, <2>2, <3>1 DEF ClientSays
  <2>3. CASE Has(tc, r, {"REQ_META"})
    <3>1. CASE Read(tc, tc2, r, {"REQ_META"})
      <4>1. Has(g, r, {"RES_ABORT"}) => Has(g, r, ends)
        BY DEF Has
      <4> QED
        BY <1>1, <3>1, <4>1 DEF ClientSays
    <3> QED
      BY <1>2, <2>3, <3>1
  <2> QED
    BY <2>1, <2>2, <2>3, <1>1
<1>11. c2.phase = "open" \/ Has(tc2, r, {"REQ_META"}) =>
          s.phase \in {"live", "silent"} \/ Has(tc2, r, {"REQ_ABORT"})
  <2> SUFFICES ASSUME c2.phase = "open" \/ Has(tc2, r, {"REQ_META"}), s.phase \notin {"live", "silent"}
               PROVE  Has(tc2, r, {"REQ_ABORT"})
    OBVIOUS
  <2>1. c.phase = "open" \/ Has(tc, r, {"REQ_META"})
    BY <1>2, <1>7
  <2>2. Has(tc, r, {"REQ_ABORT"})
    BY <2>1 DEF TalkInv
  <2>3. ~Read(tc, tc2, r, {"REQ_ABORT"})
    BY <1>3, <1>5 DEF ClientSays
  <2> QED
    BY <1>2, <2>2, <2>3
<1>12. c2.phase = "none" => c2 = NewLocal
  BY DEF ClientSays, TalkInv
<1>13. c2.phase = "open" /\ ~c2.started => c2.writer = NewWriter
  BY DEF ClientSays
<1>14. Has(tc2, r, {"REQ_ABORT"}) => s.phase # "live"
  BY <1>2 DEF TalkInv
<1>15. TalkInv(r, u, s, c2, tc2, tr2)
  BY <1>3, <1>6, <1>8, <1>9, <1>10, <1>11, <1>12, <1>13, <1>14 DEF TalkInv
<1> QED
  BY <1>15 DEF tr2
-----------------------------------------------------------------------------
(* The steps of the relay.                                                 *)

\* A step of the relay, or of the user, at one request keeps the talk.
LEMMA RelayTalkStep ==
    ASSUME HttpInv, HttpTalk, NEW r \in Requests, NEW u2, NEW s2, NEW g \in Seq(ToClient),
           \A i \in 1..Len(g) : g[i].stream = r, u2.end # "none",
           user' = [user EXCEPT ![r] = u2], relay' = [relay EXCEPT ![r] = s2],
           toClient' = SendFrames(wsRelay, toClient, g),
           RelaySays(r, relay[r], s2, g, toRelay, toRelay'),
           UNCHANGED <<client, wsRelay, wsClient>>
    PROVE  HttpTalk'
<1> SUFFICES ASSUME wsRelay = "open", wsClient = "open", NEW q \in Requests
             PROVE  TalkInv(q, user[q], relay[q], client[q], toClient, toRelay)'
  BY DEF HttpTalk
<1>1. /\ user'[r] = u2 /\ relay'[r] = s2 /\ toClient' = toClient \o g
      /\ toClient \in Seq(ToClient) /\ toRelay \in Seq(ToRelay)
      /\ q # r => user'[q] = user[q] /\ relay'[q] = relay[q]
  BY DEF HttpInv, TypeOK, SendFrames
<1>2. TalkInv(q, user[q], relay[q], client[q], toClient, toRelay)
  BY DEF HttpTalk
<1>3. CASE q = r
  <2>1. TalkInv(r, u2, s2, client[r], toClient \o g, toRelay')
    BY <1>1, <1>2, <1>3, RelayTalks
  <2> QED
    BY <1>1, <1>3, <2>1
<1>4. CASE q # r
  <2>1. OtherWire(ToClient, q, toClient, toClient')
    BY <1>1, <1>4 DEF OtherWire
  <2>2. OtherWire(ToRelay, q, toRelay, toRelay')
    BY <1>4 DEF OtherWire, RelaySays, Read
  <2>3. TalkInv(q, user[q], relay[q], client[q], toClient', toRelay')
    BY <1>1, <1>2, <2>1, <2>2, OthersTalk
  <2> QED
    BY <1>1, <1>4, <2>3
<1> QED
  BY <1>3, <1>4

\* Nothing that the talk is about changes.
LEMMA QuietSays ==
    ASSUME NEW r, NEW s, NEW s2, NEW g, NEW tr \in Seq(ToRelay),
           s2.phase = s.phase, s2.responseStarted = s.responseStarted,
           s2.responseEnded = s.responseEnded, s2.responsePaused = s.responsePaused,
           \A i \in 1..Len(g) : g[i].type \in {"REQ_DATA", "REQ_END"}
    PROVE  RelaySays(r, s, s2, g, tr, tr)
<1>1. ~Has(g, r, {"REQ_META"}) /\ ~Has(g, r, {"REQ_ABORT"}) /\ ~Has(g, r, Words)
  BY DEF Has, Words
<1>2. \A i \in 1..Len(g) : ~WordAt(g, r, i)
  BY DEF WordAt, Words
<1>3. Answered(s2) <=> Answered(s)
  BY DEF Answered
<1>4. \A types : ~Read(tr, tr, r, types)
  BY ReadMoves
<1>5. Agrees(g, r, s.responsePaused, s2.responsePaused)
  BY <1>1, <1>2 DEF Agrees
<1> QED
  BY <1>1, <1>3, <1>4, <1>5 DEF RelaySays

\* The entry goes, or is gone.
LEMMA GoneSays ==
    ASSUME NEW r, NEW s, NEW s2, NEW g, NEW tr, NEW tr2,
           tr2 = tr \/ Read(tr, tr2, r, {"RES_META", "RES_DATA", "RES_END", "RES_ABORT"}),
           s2.phase # "live", \A i \in 1..Len(g) : g[i].type \in {"REQ_DATA", "REQ_END", "REQ_ABORT"},
           s.phase \in {"live", "silent"} =>
              \/ s2.phase = "silent"
              \/ Has(g, r, {"REQ_ABORT"})
              \/ Read(tr, tr2, r, {"RES_END", "RES_ABORT"})
              \/ s.phase = "live" /\ s.responseEnded
    PROVE  RelaySays(r, s, s2, g, tr, tr2)
<1>1. ~Has(g, r, {"REQ_META"}) /\ ~Has(g, r, Words)
  BY DEF Has, Words
<1> QED
  BY <1>1 DEF RelaySays, Answered

LEMMA AbortedPhase ==
    ASSUME NEW s, s.phase = "live", NEW how \in {"done", "aborted", "silent"}
    PROVE  CleanupStream(s, how).phase = how
BY DEF CleanupStream, NewStream

LEMMA AbortPhase ==
    ASSUME NEW s \in RelayStream, s.phase = "live", NEW how \in {"aborted", "silent"}
    PROVE  AbortStream(s, how).phase = how
<1>1. CASE ~s.responseStarted
  <2> DEFINE t == [s EXCEPT !.head = "error", !.resEnded = TRUE]
  <2>1. t.phase = "live"
    BY DEF RelayStream
  <2>2. AbortStream(s, how) = CleanupStream(t, how)
    BY <1>1 DEF AbortStream
  <2> HIDE DEF t
  <2> QED
    BY <2>1, <2>2, AbortedPhase
<1>2. CASE s.responseStarted /\ ~s.responseEnded
  <2> DEFINE t == [s EXCEPT !.resEnded = TRUE, !.broken = TRUE]
  <2>1. t.phase = "live"
    BY DEF RelayStream
  <2>2. AbortStream(s, how) = CleanupStream(t, how)
    BY <1>2 DEF AbortStream
  <2> HIDE DEF t
  <2> QED
    BY <2>1, <2>2, AbortedPhase
<1>3. CASE s.responseStarted /\ s.responseEnded
  BY <1>3, AbortedPhase DEF AbortStream
<1> QED
  BY <1>1, <1>2, <1>3

\* nothing, or one signal of the relay
LEMMA FewToClient ==
    ASSUME NEW r \in Requests,
           NEW t \in {"REQ_META", "REQ_DATA", "REQ_END", "REQ_ABORT", "PAUSE", "RESUME"},
           NEW g, Few(r, t, g)
    PROVE  /\ g \in Seq(ToClient)
           /\ \A i \in 1..Len(g) : g[i].stream = r /\ g[i].type = t
<1>1. CASE g = <<>>
  <2>1. g \in Seq(ToClient) /\ Len(g) = 0
    BY <1>1, EmptySeq
  <2>2. \A i \in 1..0 : FALSE
    OBVIOUS
  <2> QED
    BY <2>1, <2>2
<1>2. CASE g = <<Signal(t, r)>>
  BY <1>2, SignalToClient
<1> QED
  BY <1>1, <1>2 DEF Few

\* Few frames, of a type that the talk is not about, or the abort that tells the client.
LEMMA AbortTalk ==
    ASSUME HttpInv, HttpTalk, NEW r \in Requests, NEW u2, NEW t \in RelayStream,
           relay[r].phase = "live", t.phase = "live", u2.end # "none",
           AbortAndNotify(r, t) \/ RelayBecomes(r, AbortStream(t, "silent"), <<>>),
           user' = [user EXCEPT ![r] = u2],
           \/ toRelay' = toRelay
           \/ Read(toRelay, toRelay', r, {"RES_META", "RES_DATA", "RES_END", "RES_ABORT"}),
           UNCHANGED <<client, wsRelay, wsClient>>
    PROVE  HttpTalk'
<1>1. CASE AbortAndNotify(r, t)
  <2> DEFINE g == <<Signal("REQ_ABORT", r)>>
             s2 == AbortStream(t, "aborted")
  <2>0. Few(r, "REQ_ABORT", g)
    BY DEF Few
  <2>2. Has(g, r, {"REQ_ABORT"})
    BY HasSignal
  <2>3. s2.phase = "aborted"
    BY AbortPhase
  <2>4. relay' = [relay EXCEPT ![r] = s2] /\ toClient' = SendFrames(wsRelay, toClient, g)
    BY <1>1 DEF AbortAndNotify, RelayBecomes
  <2> HIDE DEF g, s2
  <2>1. g \in Seq(ToClient) /\ \A i \in 1..Len(g) : g[i].stream = r /\ g[i].type = "REQ_ABORT"
    BY <2>0, FewToClient
  <2>5. RelaySays(r, relay[r], s2, g, toRelay, toRelay')
    BY <2>1, <2>2, <2>3, GoneSays
  <2> QED
    BY <2>1, <2>4, <2>5, RelayTalkStep
<1>2. CASE RelayBecomes(r, AbortStream(t, "silent"), <<>>)
  <2> DEFINE s2 == AbortStream(t, "silent")
  <2>1. <<>> \in Seq(ToClient)
        /\ \A i \in 1..Len(<<>>) : <<>>[i].stream = r /\ <<>>[i].type = "REQ_ABORT"
    BY FewToClient DEF Few
  <2>3. s2.phase = "silent"
    BY AbortPhase
  <2>4. relay' = [relay EXCEPT ![r] = s2] /\ toClient' = SendFrames(wsRelay, toClient, <<>>)
    BY <1>2 DEF RelayBecomes
  <2> HIDE DEF s2
  <2>5. RelaySays(r, relay[r], s2, <<>>, toRelay, toRelay')
    BY <2>1, <2>3, GoneSays
  <2> QED
    BY <2>1, <2>4, <2>5, RelayTalkStep
<1> QED
  BY <1>1, <1>2

\* the frames of a turn of the request writer
BodyFrames(r, n) == [i \in 1..n |-> Signal("REQ_DATA", r)]

OnlyBody(r, g) ==
    /\ g \in Seq(ToClient)
    /\ \A i \in 1..Len(g) : g[i].stream = r /\ g[i].type \in {"REQ_DATA", "REQ_END"}

LEMMA ReqFrames ==
    ASSUME NEW r \in Requests, NEW n \in Nat
    PROVE  OnlyBody(r, BodyFrames(r, n)) /\ OnlyBody(r, Append(BodyFrames(r, n), Signal("REQ_END", r)))
<1> DEFINE data == BodyFrames(r, n)
           more == Append(data, Signal("REQ_END", r))
           x == Signal("REQ_DATA", r)
           y == Signal("REQ_END", r)
<1>1. /\ x \in ToClient /\ x.type = "REQ_DATA" /\ x.stream = r
      /\ y \in ToClient /\ y.type = "REQ_END" /\ y.stream = r
  BY SignalToClient
<1>2. data \in [1..n -> ToClient] /\ \A i \in 1..n : data[i] = x
  BY <1>1 DEF BodyFrames
<1> HIDE DEF x, y
<1>3. data \in Seq(ToClient) /\ Len(data) = n
  <2>1. data \in Seq(ToClient)
    BY <1>2, SeqDef
  <2> QED
    BY <2>1, <1>2, LenProperties
<1>4. /\ more \in Seq(ToClient) /\ Len(more) = n + 1
      /\ \A i \in 1..n : more[i] = data[i]
      /\ more[n + 1] = y
  BY <1>1, <1>3, AppendProperties DEF y
<1>5. \A i \in 1..Len(more) : more[i].stream = r /\ more[i].type \in {"REQ_DATA", "REQ_END"}
  <2> HIDE DEF more
  <2> TAKE i \in 1..Len(more)
  <2>1. CASE i = n + 1
    BY <2>1, <1>1, <1>4
  <2>2. CASE i \in 1..n
    BY <2>2, <1>1, <1>2, <1>4
  <2> QED
    BY <2>1, <2>2, <1>4
<1>6. \A i \in 1..Len(data) : data[i].stream = r /\ data[i].type \in {"REQ_DATA", "REQ_END"}
  BY <1>1, <1>2, <1>3
<1> HIDE DEF more, data
<1>7. OnlyBody(r, data) /\ OnlyBody(r, more)
  BY <1>3, <1>4, <1>5, <1>6 DEF OnlyBody
<1> QED
  BY <1>7 DEF more, data

LEMMA RequestWriterTalk ==
    ASSUME HttpInv, HttpTalk, NEW r \in Requests, Live(r), NEW u2, NEW s \in RelayStream, NEW o,
           u2.end # "none", SameResponse(relay[r], s), s.responsePaused = relay[r].responsePaused,
           o.writer \in Writers({"chunk"}), o.sent \in Seq({"chunk"}),
           RequestWriterBecomes(r, s, o), user' = [user EXCEPT ![r] = u2],
           UNCHANGED <<client, wsRelay, wsClient, toRelay>>
    PROVE  HttpTalk'
<1> DEFINE t == [s EXCEPT !.writer = o.writer]
           data == BodyFrames(r, Len(o.sent))
<1>1. t \in RelayStream /\ SameResponse(relay[r], t) /\ t.responsePaused = relay[r].responsePaused
  BY DEF RelayStream, SameResponse
<1>2. Len(o.sent) \in Nat /\ relay[r].phase = "live" /\ toRelay \in Seq(ToRelay)
  BY LenProperties DEF Live, HttpInv, TypeOK
<1>3. OnlyBody(r, data) /\ OnlyBody(r, Append(data, Signal("REQ_END", r)))
  BY <1>2, ReqFrames
<1>4. \/ RelayBecomes(r, AbortStream(t, "silent"), data)
      \/ RelayBecomes(r, t, Append(data, Signal("REQ_END", r)))
      \/ RelayBecomes(r, t, data)
  BY DEF RequestWriterBecomes, BodyFrames
<1> HIDE DEF t, data
<1>5. CASE RelayBecomes(r, AbortStream(t, "silent"), data)
  <2> DEFINE s2 == AbortStream(t, "silent")
  <2>1. s2.phase = "silent"
    BY <1>1, <1>2, AbortPhase DEF SameResponse
  <2>2. relay' = [relay EXCEPT ![r] = s2] /\ toClient' = SendFrames(wsRelay, toClient, data)
    BY <1>5 DEF RelayBecomes
  <2> HIDE DEF s2
  <2>3. data \in Seq(ToClient)
        /\ \A i \in 1..Len(data) : data[i].stream = r /\ data[i].type \in {"REQ_DATA", "REQ_END"}
    BY <1>3 DEF OnlyBody
  <2>4. RelaySays(r, relay[r], s2, data, toRelay, toRelay')
    BY <2>1, <2>3, GoneSays
  <2> QED
    BY <2>2, <2>3, <2>4, RelayTalkStep
<1>6. ASSUME NEW g \in {data, Append(data, Signal("REQ_END", r))}, RelayBecomes(r, t, g)
      PROVE  HttpTalk'
  <2>1. g \in Seq(ToClient)
        /\ \A i \in 1..Len(g) : g[i].stream = r /\ g[i].type \in {"REQ_DATA", "REQ_END"}
    BY <1>3 DEF OnlyBody
  <2>2. RelaySays(r, relay[r], t, g, toRelay, toRelay')
    BY <1>1, <1>2, <2>1, QuietSays DEF SameResponse
  <2> QED
    BY <1>6, <2>1, <2>2, RelayTalkStep DEF RelayBecomes
<1> QED
  BY <1>4, <1>5, <1>6

LEMMA BodyTalk ==
    ASSUME HttpInv, HttpTalk, NEW r \in Requests, BodyChunk(r) \/ BodyEnd(r) \/ RequestDrained(r)
    PROVE  HttpTalk'
<1> DEFINE w == relay[r].writer
<1>1. /\ w \in Writers({"chunk"}) /\ Live(r) /\ user[r].end # "none" /\ user[r] \in UserView
      /\ relay[r] \in RelayStream /\ user = [user EXCEPT ![r] = user[r]]
  <2>1. Live(r)
    BY DEF BodyChunk, BodyEnd, RequestDrained
  <2> QED
    BY <2>1, RequestFacts DEF RelayStream, RelayInv, Live
<1>2. CASE BodyChunk(r)
  <2> DEFINE u2 == [user[r] EXCEPT !.body = @ - 1]
  <2>1. user' = [user EXCEPT ![r] = u2] /\ u2.end = user[r].end
    BY <1>1, <1>2 DEF BodyChunk, UserView
  <2>2. PICK o \in Write(w, "chunk", wsRelay = "open") : RequestWriterBecomes(r, relay[r], o)
    BY <1>2 DEF BodyChunk
  <2>3. o.writer \in Writers({"chunk"}) /\ o.sent \in Seq({"chunk"})
    BY <1>1, WriteTurn DEF IsTurn
  <2> HIDE DEF u2
  <2> QED
    BY <1>1, <1>2, <2>1, <2>2, <2>3, RequestWriterTalk DEF BodyChunk, SameResponse
<1>3. CASE BodyEnd(r)
  <2> DEFINE s == [relay[r] EXCEPT !.reqRead = TRUE]
             o == Outcome(End(relay[r].writer), <<>>)
  <2>1. o.writer \in Writers({"chunk"}) /\ o.sent \in Seq({"chunk"})
    BY <1>1, EndTurn DEF IsTurn
  <2>2. s \in RelayStream /\ SameResponse(relay[r], s) /\ s.responsePaused = relay[r].responsePaused
    BY <1>1 DEF RelayStream, SameResponse
  <2>3. RequestWriterBecomes(r, s, o) /\ UNCHANGED <<user, client, wsRelay, wsClient, toRelay>>
    BY <1>3 DEF BodyEnd
  <2> HIDE DEF s, o
  <2> QED
    BY <1>1, <2>1, <2>2, <2>3, RequestWriterTalk
<1>4. CASE RequestDrained(r)
  <2>1. PICK o \in Drained(w, wsRelay = "open") \cup {Outcome(Failed(w), <<>>)} :
            RequestWriterBecomes(r, relay[r], o)
    BY <1>4 DEF RequestDrained
  <2>2. IsTurn({"chunk"}, w, o)
    BY <1>1, PumpTurn, FailedTurn DEF Drained
  <2>3. o.writer \in Writers({"chunk"}) /\ o.sent \in Seq({"chunk"})
    BY <2>2 DEF IsTurn
  <2> QED
    BY <1>1, <1>4, <2>1, <2>3, RequestWriterTalk DEF RequestDrained, SameResponse
<1> QED
  BY <1>2, <1>3, <1>4
\* the relay's record becomes s2, and nothing is sent
LEMMA SilentTalk ==
    ASSUME HttpInv, HttpTalk, NEW r \in Requests, NEW u2, NEW s2, u2.end # "none",
           user' = [user EXCEPT ![r] = u2],
           \/ RelayBecomes(r, s2, <<>>)
           \/ relay' = [relay EXCEPT ![r] = s2] /\ toClient' = toClient,
           RelaySays(r, relay[r], s2, <<>>, toRelay, toRelay'),
           UNCHANGED <<client, wsRelay, wsClient>>
    PROVE  HttpTalk'
<1>1. <<>> \in Seq(ToClient)
      /\ \A i \in 1..Len(<<>>) : <<>>[i].stream = r /\ <<>>[i].type = "REQ_DATA"
  BY FewToClient DEF Few
<1>2. toClient \o <<>> = toClient
  BY ConcatEmptySeq DEF HttpInv, TypeOK
<1>3. relay' = [relay EXCEPT ![r] = s2] /\ toClient' = SendFrames(wsRelay, toClient, <<>>)
  BY <1>2 DEF RelayBecomes, SendFrames
<1> QED
  BY <1>1, <1>3, RelayTalkStep

\* the talk is about nothing that the record s2 has new
LEMMA SameTalkStep ==
    ASSUME HttpInv, HttpTalk, NEW r \in Requests, NEW u2, NEW s2, u2.end # "none",
           user' = [user EXCEPT ![r] = u2],
           \/ RelayBecomes(r, s2, <<>>)
           \/ relay' = [relay EXCEPT ![r] = s2] /\ toClient' = toClient,
           s2.phase = relay[r].phase, s2.responseStarted = relay[r].responseStarted,
           s2.responseEnded = relay[r].responseEnded, s2.responsePaused = relay[r].responsePaused,
           UNCHANGED <<client, wsRelay, wsClient, toRelay>>
    PROVE  HttpTalk'
<1>1. toRelay \in Seq(ToRelay)
  BY DEF HttpInv, TypeOK
<1>2. \A i \in 1..Len(<<>>) : <<>>[i].type \in {"REQ_DATA", "REQ_END"}
  BY FewToClient DEF Few
<1>3. RelaySays(r, relay[r], s2, <<>>, toRelay, toRelay')
  BY <1>1, <1>2, QuietSays
<1> QED
  BY <1>3, SilentTalk

LEMMA EmptyType ==
    \A types : \A i \in 1..Len(<<>>) : <<>>[i].type \in types
<1>1. Len(<<>>) = 0
  BY EmptySeq
<1>2. \A i \in 1..0 : FALSE
  OBVIOUS
<1> QED
  BY <1>1, <1>2

LEMMA FlushTalk ==
    ASSUME HttpInv, HttpTalk, NEW r \in Requests, Flush(r)
    PROVE  HttpTalk'
<1> DEFINE s == relay[r]
           drain == Len(s.queue) = 1 /\ s.responsePaused /\ ~s.resEnded /\ s.phase = "live"
           u2 == IF user[r].end = "open"
                   THEN [user[r] EXCEPT !.got = Append(@, Head(s.queue))] ELSE user[r]
           s2 == [s EXCEPT !.queue = Tail(@), !.responsePaused = @ /\ ~drain]
<1>1. user[r].end # "none" /\ s \in RelayStream /\ toRelay \in Seq(ToRelay)
  BY RequestFacts DEF Flush, FreshInv
<1>2. user' = [user EXCEPT ![r] = u2] /\ u2.end # "none"
  BY <1>1, RequestFacts DEF Flush, UserView
<1>3. /\ s2.phase = s.phase /\ s2.responseStarted = s.responseStarted
      /\ s2.responseEnded = s.responseEnded
      /\ drain => s.phase = "live" /\ s.responsePaused /\ s2.responsePaused = FALSE
      /\ ~drain => s2.responsePaused = s.responsePaused
  BY <1>1 DEF RelayStream
<1>4. /\ RelayBecomes(r, s2, IF drain THEN <<Signal("RESUME", r)>> ELSE <<>>)
      /\ UNCHANGED <<client, wsRelay, wsClient, toRelay>>
  BY DEF Flush
<1> HIDE DEF u2, s2, drain
<1>5. CASE drain
  <2> DEFINE g == <<Signal("RESUME", r)>>
  <2>1. Few(r, "RESUME", g)
    BY DEF Few
  <2>2. /\ Has(g, r, Words) /\ ~Has(g, r, {"REQ_META"}) /\ ~Has(g, r, {"REQ_ABORT"})
    BY HasSignal DEF Words
  <2>3. relay' = [relay EXCEPT ![r] = s2] /\ toClient' = SendFrames(wsRelay, toClient, g)
    BY <1>4, <1>5 DEF RelayBecomes
  <2> HIDE DEF g
  <2>4. g \in Seq(ToClient) /\ \A i \in 1..Len(g) : g[i].stream = r /\ g[i].type = "RESUME"
    BY <2>1, FewToClient
  <2>5. Agrees(g, r, s.responsePaused, s2.responsePaused)
    BY <1>3, <1>5, <2>2, <2>4 DEF Agrees
  <2>6. Answered(s)
    BY <1>3, <1>5 DEF Answered
  <2>7. \A types : ~Read(toRelay, toRelay, r, types)
    BY <1>1, ReadMoves
  <2>8. RelaySays(r, s, s2, g, toRelay, toRelay)
    BY <1>3, <1>5, <2>2, <2>5, <2>6, <2>7 DEF RelaySays
  <2> QED
    BY <1>2, <1>4, <2>3, <2>4, <2>8, RelayTalkStep
<1>6. CASE ~drain
  BY <1>2, <1>3, <1>4, <1>6, SameTalkStep
<1> QED
  BY <1>5, <1>6

LEMMA FinishTalk ==
    ASSUME HttpInv, HttpTalk, NEW r \in Requests, Finish(r)
    PROVE  HttpTalk'
<1> DEFINE u2 == IF user[r].end = "open" THEN [user[r] EXCEPT !.end = "complete"] ELSE user[r]
           t == [relay[r] EXCEPT !.responseEnded = TRUE]
           s2 == CleanupStream(t, "done")
<1>1. /\ relay[r] \in RelayStream /\ user[r] \in UserView /\ relay[r].resEnded
      /\ user[r].end # "none"
      /\ relay[r].phase = "live" => relay[r].responseEnded
  BY RequestFacts DEF Finish, RelayInv, FreshInv
<1>2. user' = [user EXCEPT ![r] = u2] /\ RelayBecomes(r, s2, <<>>) /\ u2.end # "none"
  BY <1>1, RequestFacts DEF Finish, UserView
<1>3. t.phase = relay[r].phase
  BY <1>1 DEF RelayStream
<1> HIDE DEF u2, t
<1>4. s2.phase = IF relay[r].phase = "live" THEN "done" ELSE relay[r].phase
  BY <1>3, AbortedPhase DEF CleanupStream
<1> HIDE DEF s2
<1>5. toRelay' = toRelay /\ UNCHANGED <<client, wsRelay, wsClient>>
  BY DEF Finish
<1>6. RelaySays(r, relay[r], s2, <<>>, toRelay, toRelay')
  BY <1>1, <1>4, <1>5, EmptyType, GoneSays
<1> QED
  BY <1>2, <1>5, <1>6, SilentTalk

LEMMA CutLeaveRefuseTalk ==
    ASSUME HttpInv, HttpTalk, NEW r \in Requests, Cut(r) \/ Leave(r) \/ Refuse(r)
    PROVE  HttpTalk'
<1> DEFINE cut == [relay[r] EXCEPT !.queue = <<>>, !.closed = TRUE]
           refused == [relay[r] EXCEPT !.head = "error"]
<1>1. PICK e \in {"cut", "left", "complete"}, s2 \in {relay[r], cut, refused} :
          user' = [user EXCEPT ![r] = [user[r] EXCEPT !.end = e]] /\ relay' = [relay EXCEPT ![r] = s2]
  <2>1. relay = [relay EXCEPT ![r] = relay[r]]
    BY DEF HttpInv, TypeOK
  <2> QED
    BY <2>1 DEF Cut, Leave, Refuse, HttpInv, TypeOK
<1> DEFINE u2 == [user[r] EXCEPT !.end = e]
<1>2. u2.end # "none" /\ user' = [user EXCEPT ![r] = u2]
  BY <1>1, RequestFacts DEF UserView
<1>3. /\ s2.phase = relay[r].phase /\ s2.responseStarted = relay[r].responseStarted
      /\ s2.responseEnded = relay[r].responseEnded /\ s2.responsePaused = relay[r].responsePaused
  BY <1>1, RequestFacts DEF RelayStream
<1> HIDE DEF u2, cut, refused
<1>4. UNCHANGED <<client, wsRelay, wsClient, toRelay, toClient>>
  BY DEF Cut, Leave, Refuse
<1> QED
  BY <1>1, <1>2, <1>3, <1>4, SameTalkStep, ZenonT(40)

LEMMA UserClosedTalk ==
    ASSUME HttpInv, HttpTalk, NEW r \in Requests, UserClosed(r)
    PROVE  HttpTalk'
<1> DEFINE t == [relay[r] EXCEPT !.closed = TRUE, !.queue = <<>>, !.broken = TRUE]
<1>1. /\ user[r].end = "left" /\ relay[r].phase = "live" /\ relay[r] \in RelayStream
      /\ user' = [user EXCEPT ![r] = user[r]] /\ toRelay' = toRelay
      /\ UNCHANGED <<client, wsRelay, wsClient, toRelay>>
  BY RequestFacts DEF UserClosed, Live
<1>2. /\ t \in RelayStream /\ t.phase = "live"
      /\ t.responseStarted = relay[r].responseStarted /\ t.responseEnded = relay[r].responseEnded
      /\ t.responsePaused = relay[r].responsePaused
  BY <1>1, EmptySeq DEF RelayStream
<1>3. \/ AbortAndNotify(r, t)
      \/ t.responseEnded /\ RelayBecomes(r, CleanupStream(t, "done"), <<>>)
      \/ RelayBecomes(r, t, <<>>)
  BY <1>1 DEF UserClosed
<1> HIDE DEF t
<1>4. CASE AbortAndNotify(r, t)
  BY <1>1, <1>2, <1>4, AbortTalk
<1>5. CASE RelayBecomes(r, t, <<>>)
  BY <1>1, <1>2, <1>5, SameTalkStep
<1>6. CASE t.responseEnded /\ RelayBecomes(r, CleanupStream(t, "done"), <<>>)
  <2> DEFINE s2 == CleanupStream(t, "done")
  <2>1. s2.phase = "done"
    BY <1>2, AbortedPhase
  <2>2. RelayBecomes(r, s2, <<>>)
    BY <1>6
  <2> HIDE DEF s2
  <2>3. RelaySays(r, relay[r], s2, <<>>, toRelay, toRelay')
    BY <1>1, <1>2, <1>6, <2>1, EmptyType, GoneSays
  <2> QED
    BY <1>1, <2>2, <2>3, SilentTalk
<1> QED
  BY <1>3, <1>4, <1>5, <1>6

LEMMA RelayIdleTalk ==
    ASSUME HttpInv, HttpTalk, NEW r \in Requests, RelayIdle(r)
    PROVE  HttpTalk'
<1>1. /\ relay[r].phase = "live" /\ relay[r] \in RelayStream /\ user[r].end # "none"
      /\ user' = [user EXCEPT ![r] = user[r]] /\ toRelay' = toRelay
      /\ AbortAndNotify(r, relay[r]) /\ UNCHANGED <<client, wsRelay, wsClient>>
  BY RequestFacts DEF RelayIdle, Live, RelayInv
<1> QED
  BY <1>1, AbortTalk

\* A new request: its REQ_META is all that is said of it.
LEMMA AskTalk ==
    ASSUME HttpInv, HttpTalk, NEW r \in Requests, Ask(r)
    PROVE  HttpTalk'
<1> SUFFICES ASSUME wsRelay = "open", wsClient = "open", NEW q \in Requests
             PROVE  TalkInv(q, user[q], relay[q], client[q], toClient, toRelay)'
  BY DEF HttpTalk, Ask
<1> DEFINE s2 == [relay[r] EXCEPT !.phase = "live"]
           g == <<Signal("REQ_META", r)>>
<1>1. PICK size \in 0..BodyChunks :
          user' = [user EXCEPT ![r].end = "open", ![r].body = size, ![r].size = size]
  BY DEF Ask
<1> DEFINE u2 == [user[r] EXCEPT !.end = "open", !.body = size, !.size = size]
<1>2. /\ user[r].end = "none" /\ relay[r].phase = "none"
      /\ ~relay[r].responseStarted /\ ~relay[r].responseEnded
      /\ client[r].phase = "none" /\ \A i \in 1..Len(toRelay) : toRelay[i].stream # r
      /\ user[r] \in UserView /\ relay[r] \in RelayStream
  BY RequestFacts DEF Ask, FreshInv
<1>3. /\ user' = [user EXCEPT ![r] = u2] /\ relay' = [relay EXCEPT ![r] = s2]
      /\ toClient' = toClient \o g /\ toClient \in Seq(ToClient) /\ toRelay \in Seq(ToRelay)
      /\ UNCHANGED <<client, wsRelay, wsClient, toRelay>>
  BY <1>1 DEF Ask, RelayBecomes, SendFrames, HttpInv, TypeOK
<1>4. /\ u2.end = "open" /\ s2.phase = "live" /\ s2.responseStarted = relay[r].responseStarted
      /\ s2.responseEnded = relay[r].responseEnded /\ s2.responsePaused = relay[r].responsePaused
  BY <1>2 DEF UserView, RelayStream
<1>5. /\ Has(g, r, {"REQ_META"}) /\ ~Has(g, r, {"REQ_ABORT"}) /\ ~Has(g, r, Words)
  BY HasSignal DEF Words
<1>6. ~Has(toClient, r, ClientTypes) => MetaFirst(toClient \o g, r)
  BY <1>3, MetaFirstNew
<1>7. Few(r, "REQ_META", g)
  BY DEF Few
<1> HIDE DEF u2, s2, g
<1>8. g \in Seq(ToClient) /\ \A i \in 1..Len(g) : g[i].stream = r
  BY <1>7, FewToClient
<1>9. /\ user'[r] = u2 /\ relay'[r] = s2
      /\ q # r => user'[q] = user[q] /\ relay'[q] = relay[q]
  BY <1>3 DEF HttpInv, TypeOK
<1>10. TalkInv(q, user[q], relay[q], client[q], toClient, toRelay)
  BY DEF HttpTalk
<1>11. CASE q = r
  <2>0. /\ TalkInv(r, user[r], relay[r], client[r], toClient, toRelay)
    BY <1>10, <1>11
  <2>1. ~Has(toClient, r, ClientTypes)
    BY <1>2, <2>0 DEF TalkInv
  <2>2. \A types : ~Has(toRelay, r, types)
    BY <1>2 DEF Has
  <2>3. \A types : types \subseteq ClientTypes => ~Has(toClient, r, types)
    BY <2>1 DEF Has
  <2>4. ~Has(toClient, r, {"REQ_ABORT"}) /\ ~Has(toClient, r, Words)
    BY <2>3 DEF ClientTypes, Words
  <2>5. \A types : Has(toClient \o g, r, types) <=> (Has(toClient, r, types) \/ Has(g, r, types))
    BY <1>3, <1>8, HasMore
  <2>6. /\ Has(toClient \o g, r, {"REQ_META"}) /\ ~Has(toClient \o g, r, {"REQ_ABORT"})
        /\ ~Has(toClient \o g, r, Words)
    BY <1>5, <2>4, <2>5
  <2>7. ~relay[r].responsePaused
    BY <1>2, <2>0 DEF TalkInv
  <2>8. TalkInv(r, u2, s2, client[r], toClient \o g, toRelay)
    BY <1>2, <1>4, <1>6, <2>0, <2>1, <2>2, <2>6, <2>7 DEF TalkInv, Answered
  <2> QED
    BY <1>3, <1>9, <1>11, <2>8
<1>12. CASE q # r
  <2>1. OtherWire(ToClient, q, toClient, toClient') /\ OtherWire(ToRelay, q, toRelay, toRelay')
    <3>1. \A i \in 1..Len(g) : g[i].stream # q
      BY <1>8, <1>12
    <3>2. toClient' = toClient \o g /\ toRelay' = toRelay
      BY <1>3
    <3> QED
      BY <1>8, <3>1, <3>2 DEF OtherWire
  <2>2. TalkInv(q, user[q], relay[q], client[q], toClient', toRelay')
    BY <1>3, <1>10, <2>1, OthersTalk
  <2> QED
    BY <1>3, <1>9, <1>12, <2>2
<1> QED
  BY <1>11, <1>12
\* a response frame of a live stream is read, and the record becomes s2
LEMMA AnswerTalk ==
    ASSUME HttpInv, HttpTalk, NEW r \in Requests, NEW s2, relay[r].phase = "live",
           NEW types, types \subseteq {"RES_META", "RES_DATA", "RES_END", "RES_ABORT"},
           Read(toRelay, toRelay', r, types),
           RelayBecomes(r, s2, <<>>),
           UNCHANGED <<user, client, wsRelay, wsClient>>,
           \/ s2.phase \notin {"live", "silent"} /\ types = {"RES_ABORT"}
           \/ /\ s2.phase = "live" /\ s2.responseEnded /\ types = {"RES_END"}
              /\ s2.responseStarted = relay[r].responseStarted
              /\ s2.responsePaused = relay[r].responsePaused
           \/ /\ s2.phase = "live" /\ types \subseteq {"RES_META", "RES_DATA"}
              /\ s2.responseEnded = relay[r].responseEnded
              /\ s2.responsePaused = relay[r].responsePaused
    PROVE  HttpTalk'
<1> DEFINE s == relay[r]
<1>1. /\ user' = [user EXCEPT ![r] = user[r]] /\ user[r].end # "none"
      /\ relay[r] \in RelayStream
  BY RequestFacts DEF RelayInv
<1>2. ~Has(<<>>, r, {"REQ_META"}) /\ ~Has(<<>>, r, {"REQ_ABORT"}) /\ ~Has(<<>>, r, Words)
  BY HasNone
<1>3. Agrees(<<>>, r, s.responsePaused, s.responsePaused)
  BY <1>2, EmptySeq DEF Agrees
<1>4. \A more : types \subseteq more => Read(toRelay, toRelay', r, more)
  BY DEF Read
<1>5. Read(toRelay, toRelay', r, {"RES_META", "RES_DATA", "RES_END", "RES_ABORT"})
  BY <1>4
<1>6. CASE s2.phase \notin {"live", "silent"} /\ types = {"RES_ABORT"}
  <2>1. Read(toRelay, toRelay', r, {"RES_END", "RES_ABORT"})
    BY <1>4, <1>6
  <2>2. RelaySays(r, s, s2, <<>>, toRelay, toRelay')
    BY <1>2, <1>5, <1>6, <2>1 DEF RelaySays, Answered
  <2> QED
    BY <1>1, <2>2, SilentTalk
<1>7. CASE /\ s2.phase = "live" /\ s2.responseEnded /\ types = {"RES_END"}
           /\ s2.responseStarted = relay[r].responseStarted
           /\ s2.responsePaused = relay[r].responsePaused
  <2>1. Read(toRelay, toRelay', r, {"RES_END"})
    BY <1>7
  <2>2. Answered(s2) <=> Answered(s)
    BY <1>7 DEF Answered
  <2>3. RelaySays(r, s, s2, <<>>, toRelay, toRelay')
    BY <1>2, <1>3, <1>5, <1>7, <2>1, <2>2 DEF RelaySays
  <2> QED
    BY <1>1, <2>3, SilentTalk
<1>8. CASE /\ s2.phase = "live" /\ types \subseteq {"RES_META", "RES_DATA"}
           /\ s2.responseEnded = relay[r].responseEnded
           /\ s2.responsePaused = relay[r].responsePaused
  <2>1. Read(toRelay, toRelay', r, {"RES_META", "RES_DATA"})
    BY <1>4, <1>8
  <2>2. ~Read(toRelay, toRelay', r, {"RES_END", "RES_ABORT"})
    BY <2>1 DEF Read
  <2>3. RelaySays(r, s, s2, <<>>, toRelay, toRelay')
    BY <1>2, <1>3, <1>5, <1>8, <2>1, <2>2 DEF RelaySays
  <2> QED
    BY <1>1, <2>3, SilentTalk
<1> QED
  BY <1>6, <1>7, <1>8

\* RES_DATA fills the user's socket: the client is told to pause
LEMMA PauseTalk ==
    ASSUME HttpInv, HttpTalk, NEW r \in Requests, NEW s2, relay[r].phase = "live",
           Read(toRelay, toRelay', r, {"RES_DATA"}),
           RelayBecomes(r, s2, <<Signal("PAUSE", r)>>),
           UNCHANGED <<user, client, wsRelay, wsClient>>,
           s2.phase = "live", s2.responseEnded = relay[r].responseEnded, s2.responsePaused = TRUE
    PROVE  HttpTalk'
<1> DEFINE s == relay[r]
           g == <<Signal("PAUSE", r)>>
<1>1. user' = [user EXCEPT ![r] = user[r]] /\ user[r].end # "none"
  BY RequestFacts DEF RelayInv
<1>2. Few(r, "PAUSE", g)
  BY DEF Few
<1>3. Has(g, r, Words) /\ ~Has(g, r, {"REQ_META"}) /\ ~Has(g, r, {"REQ_ABORT"})
  BY HasSignal DEF Words
<1>4. relay' = [relay EXCEPT ![r] = s2] /\ toClient' = SendFrames(wsRelay, toClient, g)
  BY DEF RelayBecomes
<1> HIDE DEF g
<1>5. g \in Seq(ToClient) /\ \A i \in 1..Len(g) : g[i].stream = r /\ g[i].type = "PAUSE"
  BY <1>2, FewToClient
<1>6. Agrees(g, r, s.responsePaused, s2.responsePaused)
  BY <1>3, <1>5 DEF Agrees
<1>7. /\ Read(toRelay, toRelay', r, {"RES_META", "RES_DATA", "RES_END", "RES_ABORT"})
      /\ Read(toRelay, toRelay', r, {"RES_META", "RES_DATA"})
      /\ ~Read(toRelay, toRelay', r, {"RES_END", "RES_ABORT"})
  BY DEF Read
<1>8. RelaySays(r, s, s2, g, toRelay, toRelay')
  BY <1>3, <1>6, <1>7 DEF RelaySays
<1> QED
  BY <1>1, <1>4, <1>5, <1>8, RelayTalkStep

LEMMA RelayFrameTalk ==
    ASSUME HttpInv, HttpTalk, RelayFrame
    PROVE  HttpTalk'
<1> DEFINE f == Head(toRelay)
           r == f.stream
           s == relay[r]
<1>1. /\ toRelay # <<>> /\ wsRelay # "closed" /\ toRelay' = Tail(toRelay)
      /\ UNCHANGED <<user, client, wsRelay, wsClient>>
  BY DEF RelayFrame
<1>2. /\ toRelay \in Seq(ToRelay) /\ f \in ToRelay /\ f = toRelay[1] /\ 1 \in 1..Len(toRelay)
  <2>1. toRelay \in Seq(ToRelay) /\ Len(toRelay) \in Nat \ {0}
    BY <1>1, LenProperties, EmptySeq DEF HttpInv, TypeOK
  <2> QED
    BY <1>1, <2>1, ElementOfSeq
<1>3. r \in Requests /\ f.type \in {"RES_META", "RES_DATA", "RES_END", "RES_ABORT"}
  BY <1>2 DEF ToRelay, ResData, Signals
<1>4. /\ s \in RelayStream /\ user[r].end # "none" /\ user' = [user EXCEPT ![r] = user[r]]
  BY <1>1, <1>2, <1>3, RequestFacts DEF FreshInv
<1>5. \/ ~Live(r) /\ UNCHANGED <<relay, toClient>>
      \/ Live(r) /\ f.type = "RES_META" /\ ResMeta(r, s)
      \/ Live(r) /\ f.type = "RES_DATA" /\ ResDataFrame(r, s, f.slice)
      \/ Live(r) /\ f.type = "RES_END" /\ ResEnd(r, s)
      \/ Live(r) /\ f.type = "RES_ABORT" /\ ResAbort(r, s)
  BY DEF RelayFrame
<1>6. \A types : f.type \in types => Read(toRelay, toRelay', r, types)
  BY <1>1 DEF Read
<1>7. Read(toRelay, toRelay', r, {"RES_META", "RES_DATA", "RES_END", "RES_ABORT"})
  BY <1>3, <1>6
<1> HIDE DEF r
<1>8. CASE ~Live(r) /\ UNCHANGED <<relay, toClient>>
  <2>1. RelaySays(r, s, s, <<>>, toRelay, toRelay')
    BY <1>7, <1>8, EmptyType, GoneSays DEF Live
  <2>2. relay' = [relay EXCEPT ![r] = s]
    BY <1>3, <1>8 DEF HttpInv, TypeOK
  <2> QED
    BY <1>1, <1>3, <1>4, <1>8, <2>1, <2>2, SilentTalk
<1>9. ASSUME Live(r), RelayBecomes(r, AbortStream(s, "silent"), <<>>) \/ AbortAndNotify(r, s)
      PROVE  HttpTalk'
  <2>1. s.phase = "live"
    BY <1>9 DEF Live
  <2> QED
    BY <1>1, <1>3, <1>4, <1>7, <1>9, <2>1, AbortTalk
<1>10. CASE Live(r) /\ f.type = "RES_META" /\ ResMeta(r, s)
  <2> DEFINE s2 == [s EXCEPT !.responseStarted = TRUE, !.head = "local"]
  <2>1. CASE RelayBecomes(r, s2, <<>>)
    <3>1. /\ s2.phase = "live" /\ s2.responseEnded = s.responseEnded
          /\ s2.responsePaused = s.responsePaused
      BY <1>4, <1>10 DEF RelayStream, Live
    <3>2. Read(toRelay, toRelay', r, {"RES_META"}) /\ relay[r].phase = "live"
      BY <1>6, <1>10 DEF Live
    <3> HIDE DEF s2
    <3> QED
      BY <1>1, <1>3, <2>1, <3>1, <3>2, AnswerTalk
  <2> QED
    BY <1>9, <1>10, <2>1 DEF ResMeta
<1>11. CASE Live(r) /\ f.type = "RES_DATA" /\ ResDataFrame(r, s, f.slice)
  <2>0. Read(toRelay, toRelay', r, {"RES_DATA"}) /\ relay[r].phase = "live"
    BY <1>6, <1>11 DEF Live
  <2> DEFINE t == [s EXCEPT !.queue = Append(@, f.slice)]
             p == [t EXCEPT !.responsePaused = TRUE]
  <2>1. \/ RelayBecomes(r, AbortStream(s, "silent"), <<>>) \/ AbortAndNotify(r, s)
        \/ RelayBecomes(r, s, <<>>)
        \/ RelayBecomes(r, t, <<>>)
        \/ RelayBecomes(r, p, <<Signal("PAUSE", r)>>)
    BY <1>11 DEF ResDataFrame
  <2>2. /\ t.phase = s.phase /\ t.responseEnded = s.responseEnded
        /\ t.responsePaused = s.responsePaused
        /\ p.phase = s.phase /\ p.responseEnded = s.responseEnded /\ p.responsePaused = TRUE
    BY <1>4 DEF RelayStream
  <2> HIDE DEF t, p
  <2>3. CASE RelayBecomes(r, s, <<>>)
    BY <1>1, <1>3, <2>0, <2>3, AnswerTalk
  <2>4. CASE RelayBecomes(r, t, <<>>)
    BY <1>1, <1>3, <2>0, <2>2, <2>4, AnswerTalk
  <2>5. CASE RelayBecomes(r, p, <<Signal("PAUSE", r)>>)
    BY <1>1, <1>3, <2>0, <2>2, <2>5, PauseTalk
  <2> QED
    BY <1>9, <1>11, <2>1, <2>3, <2>4, <2>5
<1>12. CASE Live(r) /\ f.type = "RES_END" /\ ResEnd(r, s)
  <2> DEFINE s2 == [s EXCEPT !.responseEnded = TRUE, !.resEnded = TRUE]
  <2>1. CASE RelayBecomes(r, s2, <<>>)
    <3>1. /\ s2.phase = "live" /\ s2.responseEnded /\ s2.responseStarted = s.responseStarted
          /\ s2.responsePaused = s.responsePaused
      BY <1>4, <1>12 DEF RelayStream, Live
    <3>2. Read(toRelay, toRelay', r, {"RES_END"}) /\ relay[r].phase = "live"
      BY <1>6, <1>12 DEF Live
    <3> HIDE DEF s2
    <3> QED
      BY <1>1, <1>3, <2>1, <3>1, <3>2, AnswerTalk
  <2> QED
    BY <1>9, <1>12, <2>1 DEF ResEnd
<1>13. CASE Live(r) /\ f.type = "RES_ABORT" /\ ResAbort(r, s)
  <2> DEFINE t == IF ~s.responseStarted
                    THEN [s EXCEPT !.head = "error", !.responseEnded = TRUE, !.resEnded = TRUE]
                    ELSE [s EXCEPT !.resEnded = TRUE]
             s2 == CleanupStream(t, "aborted")
  <2>1. RelayBecomes(r, s2, <<>>)
    BY <1>13 DEF ResAbort
  <2>2. t.phase = "live"
    BY <1>4, <1>13 DEF RelayStream, Live
  <2> HIDE DEF t
  <2>3. s2.phase = "aborted"
    BY <2>2, AbortedPhase
  <2>4. Read(toRelay, toRelay', r, {"RES_ABORT"}) /\ relay[r].phase = "live"
    BY <1>6, <1>13 DEF Live
  <2> HIDE DEF s2
  <2> QED
    BY <1>1, <1>3, <2>1, <2>3, <2>4, AnswerTalk
<1> QED
  BY <1>5, <1>8, <1>10, <1>11, <1>12, <1>13
-----------------------------------------------------------------------------
(* The steps of the client.                                                *)

\* A step of the client at one request keeps the talk.
LEMMA ClientTalkStep ==
    ASSUME HttpInv, HttpTalk, NEW r \in Requests, NEW c2, NEW g \in Seq(ToRelay),
           \A i \in 1..Len(g) : g[i].stream = r, user[r].end # "none",
           client' = [client EXCEPT ![r] = c2], toRelay' = SendFrames(wsClient, toRelay, g),
           ClientSays(r, client[r], c2, g, toClient, toClient'),
           UNCHANGED <<user, relay, wsRelay, wsClient>>
    PROVE  HttpTalk'
<1> SUFFICES ASSUME wsRelay = "open", wsClient = "open", NEW q \in Requests
             PROVE  TalkInv(q, user[q], relay[q], client[q], toClient, toRelay)'
  BY DEF HttpTalk
<1>1. /\ client'[r] = c2 /\ toRelay' = toRelay \o g
      /\ toClient \in Seq(ToClient) /\ toRelay \in Seq(ToRelay)
      /\ q # r => client'[q] = client[q]
  BY DEF HttpInv, TypeOK, SendFrames
<1>2. TalkInv(q, user[q], relay[q], client[q], toClient, toRelay)
  BY DEF HttpTalk
<1>3. CASE q = r
  <2>1. relay[r] \in RelayStream /\ MetaInv(r, user[r], client[r], toClient)
    BY RequestFacts
  <2>2. TalkInv(r, user[r], relay[r], c2, toClient', toRelay \o g)
    BY <1>1, <1>2, <1>3, <2>1, ClientTalks
  <2> QED
    BY <1>1, <1>3, <2>2
<1>4. CASE q # r
  <2>1. OtherWire(ToClient, q, toClient, toClient')
    BY <1>4 DEF OtherWire, ClientSays, Read
  <2>2. OtherWire(ToRelay, q, toRelay, toRelay')
    <3>1. \A i \in 1..Len(g) : g[i].stream # q
      BY <1>4
    <3> QED
      BY <1>1, <3>1 DEF OtherWire
  <2>3. TalkInv(q, user[q], relay[q], client[q], toClient', toRelay')
    BY <1>1, <1>2, <2>1, <2>2, OthersTalk
  <2> QED
    BY <1>1, <1>4, <2>3
<1> QED
  BY <1>3, <1>4

\* the same for what the code does through ClientBecomes
LEMMA ClientBecomesTalk ==
    ASSUME HttpInv, HttpTalk, NEW r \in Requests, NEW c2 \in LocalRequest, NEW g \in Seq(ToRelay),
           \A i \in 1..Len(g) : g[i].stream = r, user[r].end # "none", ClientBecomes(r, c2, g),
           ClientSays(r, client[r], c2, g, toClient, toClient'),
           UNCHANGED <<user, relay, wsRelay, wsClient>>
    PROVE  HttpTalk'
<1>1. PICK b \in BOOLEAN : b = (c2.active \/ (c2.half /\ g # <<>> /\ c2.phase = "open"))
  OBVIOUS
<1> DEFINE c3 == [c2 EXCEPT !.active = b]
<1>2. /\ c3.phase = c2.phase /\ c3.started = c2.started /\ c3.writer = c2.writer
      /\ c2.phase = "none" => c3 = c2
  BY <1>1 DEF LocalRequest
<1>3. client' = [client EXCEPT ![r] = c3] /\ toRelay' = SendFrames(wsClient, toRelay, g)
  BY <1>1 DEF ClientBecomes
<1> HIDE DEF c3
<1>4. ClientSays(r, client[r], c3, g, toClient, toClient')
  BY <1>2 DEF ClientSays
<1> QED
  BY <1>3, <1>4, ClientTalkStep

\* the talk, where it matters
LEMMA TalkFacts ==
    ASSUME HttpTalk, wsRelay = "open", wsClient = "open", NEW r \in Requests
    PROVE  TalkInv(r, user[r], relay[r], client[r], toClient, toRelay)
BY DEF HttpTalk

LEMMA TalkOver ==
    ASSUME wsRelay # "open", UNCHANGED wsRelay
    PROVE  HttpTalk'
BY DEF HttpTalk

\* The entry stays as it is, as far as the talk goes, and nothing is sent.
LEMMA QuietTalk ==
    ASSUME HttpInv, HttpTalk, NEW r \in Requests, NEW c2 \in LocalRequest, user[r].end # "none",
           \/ ClientBecomes(r, c2, <<>>)
           \/ client' = [client EXCEPT ![r] = c2] /\ toRelay' = toRelay,
           c2.phase = client[r].phase, c2.started = client[r].started,
           c2.writer = client[r].writer, c2.phase = "none" => c2 = client[r],
           NEW types, types \subseteq ClientTypes \ {"REQ_META"},
           toClient' = toClient \/ Read(toClient, toClient', r, types),
           Open(r) => types \subseteq {"REQ_DATA", "REQ_END"},
           UNCHANGED <<user, relay, wsRelay, wsClient>>
    PROVE  HttpTalk'
<1> SUFFICES ASSUME wsRelay = "open", wsClient = "open" PROVE HttpTalk'
  BY DEF HttpTalk
<1> DEFINE c == client[r]
<1>1. TalkInv(r, user[r], relay[r], c, toClient, toRelay)
  BY TalkFacts
<1>2. \A some : ~Has(<<>>, r, some)
  BY HasNone
<1>3. <<>> \in Seq(ToRelay) /\ \A i \in 1..Len(<<>>) : <<>>[i].stream = r
  BY FewFrames DEF Few
<1>4. toClient \in Seq(ToClient) /\ toRelay \in Seq(ToRelay)
  BY DEF HttpInv, TypeOK
<1>5. toClient' = toClient \/ Read(toClient, toClient', r, ClientTypes)
  BY DEF Read
<1>6. ~Read(toClient, toClient', r, {"REQ_META"})
  BY <1>4, ReadMoves DEF Read
<1>7. Open(r) => ~Read(toClient, toClient', r, {"REQ_ABORT"}) /\ ~Read(toClient, toClient', r, Words)
  BY <1>4, ReadMoves DEF Read, Words
<1>8. ClientSays(r, c, c2, <<>>, toClient, toClient')
  BY <1>1, <1>2, <1>5, <1>6, <1>7 DEF ClientSays, TalkInv, Open
<1>9. CASE ClientBecomes(r, c2, <<>>)
  BY <1>3, <1>8, <1>9, ClientBecomesTalk
<1>10. CASE client' = [client EXCEPT ![r] = c2] /\ toRelay' = toRelay
  <2>1. toRelay' = SendFrames(wsClient, toRelay, <<>>)
    BY <1>4, <1>10, ConcatEmptySeq DEF SendFrames
  <2> QED
    BY <1>3, <1>8, <1>10, <2>1, ClientTalkStep
<1> QED
  BY <1>9, <1>10

\* The entry is dropped, and the relay is told unless it told the client.
LEMMA DropTalk ==
    ASSUME HttpInv, HttpTalk, NEW r \in Requests, Open(r), NEW how \in {"dropped", "idle"},
           \/ ClientBecomes(r, Drop(how), <<Signal("RES_ABORT", r)>>)
           \/ ClientBecomes(r, Drop(how), <<>>) /\ Read(toClient, toClient', r, {"REQ_ABORT"}),
           toClient' = toClient \/ Read(toClient, toClient', r, ClientTypes),
           UNCHANGED <<user, relay, wsRelay, wsClient>>
    PROVE  HttpTalk'
<1>1. Drop(how) \in LocalRequest /\ Drop(how).phase = how
  BY DropType
<1>2. user[r].end # "none" /\ client[r].phase = "open"
  BY OpenFacts
<1>3. CASE ClientBecomes(r, Drop(how), <<Signal("RES_ABORT", r)>>)
  <2> DEFINE g == <<Signal("RES_ABORT", r)>>
  <2>1. Few(r, "RES_ABORT", g)
    BY DEF Few
  <2>2. /\ Has(g, r, {"RES_ABORT"}) /\ Has(g, r, {"RES_END", "RES_ABORT"})
        /\ ~Has(g, r, {"RES_META", "RES_DATA", "RES_END"})
    BY HasSignal
  <2>3. ClientBecomes(r, Drop(how), g)
    BY <1>3
  <2> HIDE DEF g
  <2>4. g \in Seq(ToRelay) /\ \A i \in 1..Len(g) : g[i].stream = r
    BY <2>1, FewFrames
  <2>5. ClientSays(r, client[r], Drop(how), g, toClient, toClient')
    BY <1>1, <1>2, <2>2 DEF ClientSays
  <2> QED
    BY <1>1, <1>2, <2>3, <2>4, <2>5, ClientBecomesTalk
<1>4. CASE ClientBecomes(r, Drop(how), <<>>) /\ Read(toClient, toClient', r, {"REQ_ABORT"})
  <2>1. \A some : ~Has(<<>>, r, some)
    BY HasNone
  <2>2. <<>> \in Seq(ToRelay) /\ \A i \in 1..Len(<<>>) : <<>>[i].stream = r
    BY FewFrames DEF Few
  <2>3. ~Read(toClient, toClient', r, {"REQ_META"})
    BY <1>4 DEF Read
  <2>4. ClientSays(r, client[r], Drop(how), <<>>, toClient, toClient')
    BY <1>1, <1>2, <1>4, <2>1, <2>3 DEF ClientSays
  <2> QED
    BY <1>1, <1>2, <1>4, <2>2, <2>4, ClientBecomesTalk
<1> QED
  BY <1>3, <1>4

LEMMA HalfIdleTalk ==
    ASSUME HttpInv, HttpTalk, NEW r \in Requests, HalfIdle(r)
    PROVE  HttpTalk'
<1> DEFINE c2 == [client[r] EXCEPT !.half = TRUE]
<1>1. /\ Open(r) /\ client' = [client EXCEPT ![r] = c2]
      /\ UNCHANGED <<user, relay, wsRelay, wsClient, toClient, toRelay>>
  BY DEF HalfIdle, HttpInv, TypeOK
<1>2. /\ c2 \in LocalRequest /\ c2.phase = client[r].phase /\ c2.started = client[r].started
      /\ c2.writer = client[r].writer /\ c2.phase # "none" /\ user[r].end # "none"
  BY <1>1, OpenFacts DEF LocalRequest
<1> HIDE DEF c2
<1>3. PICK some : some = {"REQ_DATA"}
  OBVIOUS
<1>4. some \subseteq ClientTypes \ {"REQ_META"} /\ some \subseteq {"REQ_DATA", "REQ_END"}
  BY <1>3 DEF ClientTypes
<1>5. /\ client' = [client EXCEPT ![r] = c2] /\ toRelay' = toRelay /\ toClient' = toClient
      /\ UNCHANGED <<user, relay, wsRelay, wsClient>>
  BY <1>1
<1> QED
  BY <1>2, <1>4, <1>5, QuietTalk

LEMMA FailsOrIdleTalk ==
    ASSUME HttpInv, HttpTalk, NEW r \in Requests, LocalFails(r) \/ ClientIdle(r)
    PROVE  HttpTalk'
<1>1. /\ Open(r) /\ toClient' = toClient
      /\ UNCHANGED <<user, relay, wsRelay, wsClient>>
  BY DEF LocalFails, ClientIdle
<1>2. \/ ClientBecomes(r, Drop("dropped"), <<Signal("RES_ABORT", r)>>)
      \/ ClientBecomes(r, Drop("idle"), <<Signal("RES_ABORT", r)>>)
  BY DEF LocalFails, ClientIdle, SendResAbort
<1>3. ASSUME NEW how \in {"dropped", "idle"}, ClientBecomes(r, Drop(how), <<Signal("RES_ABORT", r)>>)
      PROVE  HttpTalk'
  <2>1. toClient' = toClient \/ Read(toClient, toClient', r, ClientTypes)
    BY <1>1
  <2>2. \/ ClientBecomes(r, Drop(how), <<Signal("RES_ABORT", r)>>)
        \/ ClientBecomes(r, Drop(how), <<>>) /\ Read(toClient, toClient', r, {"REQ_ABORT"})
    BY <1>3
  <2> QED
    BY <1>1, <2>1, <2>2, DropTalk
<1> QED
  BY <1>2, <1>3

LEMMA LocalResponseTalk ==
    ASSUME HttpInv, HttpTalk, NEW r \in Requests, LocalResponse(r)
    PROVE  HttpTalk'
<1> DEFINE c2 == [client[r] EXCEPT !.started = TRUE]
           g == <<Signal("RES_META", r)>>
<1>1. /\ Open(r) /\ ClientBecomes(r, c2, g)
      /\ UNCHANGED <<user, relay, wsRelay, wsClient, toClient>>
  BY DEF LocalResponse
<1>2. /\ c2 \in LocalRequest /\ c2.phase = "open" /\ c2.started /\ c2.writer = client[r].writer
      /\ user[r].end # "none" /\ client[r].phase = "open" /\ toClient \in Seq(ToClient)
  BY <1>1, OpenFacts DEF LocalRequest, HttpInv, TypeOK
<1>3. Few(r, "RES_META", g)
  BY DEF Few
<1>4. ~Has(g, r, {"RES_END", "RES_ABORT"})
  BY HasSignal
<1> HIDE DEF c2, g
<1>5. g \in Seq(ToRelay) /\ \A i \in 1..Len(g) : g[i].stream = r
  BY <1>3, FewFrames
<1>6. \A types : ~Read(toClient, toClient', r, types)
  BY <1>1, <1>2, ReadMoves
<1>7. ClientSays(r, client[r], c2, g, toClient, toClient')
  BY <1>1, <1>2, <1>4, <1>6 DEF ClientSays
<1> QED
  BY <1>1, <1>2, <1>5, <1>7, ClientBecomesTalk
-----------------------------------------------------------------------------
(* The turns of the response writer.                                       *)

LEMMA PumpPaused ==
    ASSUME NEW Slice, NEW v \in Writers(Slice), NEW least \in {0, 1}, NEW open, NEW o \in Pump(v, least, open)
    PROVE  o.writer.paused = v.paused
<1>1. CASE v.queue = <<>>
  <2>1. o = Outcome([v EXCEPT !.at = "idle"], <<>>)
    BY <1>1 DEF Pump
  <2> QED
    BY <2>1 DEF Outcome, Writers
<1>2. CASE v.queue # <<>> /\ v.paused
  <2>1. o = Outcome([v EXCEPT !.at = "held"], <<>>)
    BY <1>2 DEF Pump
  <2> QED
    BY <2>1 DEF Outcome, Writers
<1>3. CASE v.queue # <<>> /\ ~v.paused /\ ~open
  <2>1. o = Outcome([v EXCEPT !.queue = <<>>, !.at = "failed"], <<>>)
    BY <1>3 DEF Pump, Failed
  <2> QED
    BY <2>1 DEF Outcome, Writers
<1>4. CASE v.queue # <<>> /\ ~v.paused /\ open
  <2>1. PICK n \in least..Len(v.queue) :
            o = Outcome([v EXCEPT !.queue = SubSeq(@, n + 1, Len(@)),
                                  !.at = IF n = Len(v.queue) THEN "idle" ELSE "drain"],
                        SubSeq(v.queue, 1, n))
    BY <1>4 DEF Pump
  <2> QED
    BY <2>1 DEF Outcome, Writers
<1> QED
  BY <1>1, <1>2, <1>3, <1>4

LEMMA WritePaused ==
    ASSUME NEW Slice, NEW w \in Writers(Slice), NEW slice \in Slice, NEW open \in BOOLEAN,
           NEW o \in Write(w, slice, open)
    PROVE  o.writer.paused = w.paused
<1> DEFINE v == [w EXCEPT !.queue = Append(@, slice)]
<1>1. v \in Writers(Slice) /\ v.paused = w.paused
  <2>1. v \in Writers(Slice)
    BY WriteTurn
  <2> QED
    BY <2>1 DEF Writers
<1>2. o \in Pump(v, 0, open) \/ o = Outcome(v, <<>>)
  BY DEF Write
<1> HIDE DEF v
<1> QED
  BY <1>1, <1>2, PumpPaused DEF Outcome

LEMMA PausePaused ==
    ASSUME NEW Slice, NEW w \in Writers(Slice), NEW paused \in BOOLEAN, NEW open \in BOOLEAN,
           NEW o \in SetPeerPaused(w, paused, open)
    PROVE  o.writer.paused = paused
<1> DEFINE v == [w EXCEPT !.paused = paused]
<1>1. v \in Writers(Slice) /\ v.paused = paused
  BY DEF Writers
<1>2. o \in Pump(v, 0, open) \/ o = Outcome(v, <<>>)
  BY DEF SetPeerPaused
<1> HIDE DEF v
<1> QED
  BY <1>1, <1>2, PumpPaused DEF Outcome

\* the frames of a turn: the slices, then the end, or the abort, or nothing
LEMMA AnswerFrames ==
    ASSUME NEW r \in Requests, NEW sent \in Seq(1..Slices), NEW data, data = DataFrames(r, sent)
    PROVE  /\ data \in Seq(ToRelay) /\ \A i \in 1..Len(data) : data[i].stream = r
           /\ ~Has(data, r, {"RES_END", "RES_ABORT"})
<1>1. /\ data \in Seq(ToRelay)
      /\ \A i \in 1..Len(data) : data[i].type = "RES_DATA" /\ data[i].stream = r
  BY ResDataFrames
<1> QED
  BY <1>1 DEF Has

LEMMA AnswerEnds ==
    ASSUME NEW r \in Requests, NEW data \in Seq(ToRelay), NEW t \in {"RES_END", "RES_ABORT"},
           \A i \in 1..Len(data) : data[i].stream = r
    PROVE  /\ Append(data, Signal(t, r)) \in Seq(ToRelay)
           /\ \A i \in 1..Len(Append(data, Signal(t, r))) : Append(data, Signal(t, r))[i].stream = r
           /\ Has(Append(data, Signal(t, r)), r, {"RES_END", "RES_ABORT"})
<1> DEFINE e == Signal(t, r)
           g == Append(data, e)
<1>1. /\ g \in Seq(ToRelay)
      /\ \A i \in 1..Len(g) : g[i].stream = r
  BY DataThenSignal DEF Closed
<1>2. e \in ToRelay /\ e.stream = r /\ e.type = t
  BY DEF Signal, ToRelay, Signals
<1> HIDE DEF e
<1>3. Len(data) \in Nat /\ Len(g) = Len(data) + 1 /\ g[Len(data) + 1] = e
  BY <1>2, AppendProperties, LenProperties
<1> HIDE DEF g
<1>4. Len(data) + 1 \in 1..Len(g)
  BY <1>3
<1>5. Has(g, r, {"RES_END", "RES_ABORT"})
  BY <1>2, <1>3, <1>4 DEF Has
<1> QED
  BY <1>1, <1>5 DEF g, e

\* A turn of the response writer of an entry that has answered.
LEMMA ResponseWriterTalk ==
    ASSUME HttpInv, HttpTalk, NEW r \in Requests, Open(r), client[r].started,
           NEW e \in LocalRequest, e.phase = "open", e.started, NEW o,
           o.writer \in Writers(1..Slices), o.sent \in Seq(1..Slices),
           toClient' = toClient \/ Read(toClient, toClient', r, Words),
           o.writer.paused = IF Read(toClient, toClient', r, Words) THEN Head(toClient).type = "PAUSE"
                             ELSE client[r].writer.paused,
           ResponseWriterBecomes(r, e, o),
           UNCHANGED <<user, relay, wsRelay, wsClient>>
    PROVE  HttpTalk'
<1> DEFINE data == DataFrames(r, o.sent)
           d == [e EXCEPT !.writer = o.writer]
           ends == {"RES_END", "RES_ABORT"}
<1>1. \/ ClientBecomes(r, Drop("dropped"), Append(data, Signal("RES_ABORT", r)))
      \/ ClientBecomes(r, Drop("sent"), Append(data, Signal("RES_END", r)))
      \/ ClientBecomes(r, d, data)
  BY DEF ResponseWriterBecomes
<1>2. /\ client[r].phase = "open" /\ user[r].end # "none"
      /\ toClient \in Seq(ToClient)
  BY OpenFacts, RequestFacts
<1>3. d \in LocalRequest /\ d.phase = "open" /\ d.started /\ d.writer = o.writer
  BY DEF LocalRequest
<1>4. /\ data \in Seq(ToRelay) /\ \A i \in 1..Len(data) : data[i].stream = r
      /\ ~Has(data, r, ends)
  BY AnswerFrames
<1>5. /\ toClient' = toClient \/ Read(toClient, toClient', r, ClientTypes)
      /\ ~Read(toClient, toClient', r, {"REQ_META"})
      /\ ~Read(toClient, toClient', r, {"REQ_ABORT"})
  BY <1>2, ReadMoves DEF Read, Words, ClientTypes
<1> HIDE DEF data, d
<1>6. CASE ClientBecomes(r, d, data)
  <2>1. ClientSays(r, client[r], d, data, toClient, toClient')
    BY <1>2, <1>3, <1>4, <1>5 DEF ClientSays
  <2> QED
    BY <1>2, <1>3, <1>4, <1>6, <2>1, ClientBecomesTalk
<1>7. ASSUME NEW how \in {"sent", "dropped", "idle"}, NEW t \in ends,
             ClientBecomes(r, Drop(how), Append(data, Signal(t, r)))
      PROVE  HttpTalk'
  <2> DEFINE g == Append(data, Signal(t, r))
  <2>1. Drop(how) \in LocalRequest /\ Drop(how).phase = how
    BY DropType
  <2>2. g \in Seq(ToRelay) /\ Has(g, r, ends) /\ \A i \in 1..Len(g) : g[i].stream = r
    BY <1>4, AnswerEnds
  <2>3. ClientBecomes(r, Drop(how), g)
    BY <1>7
  <2> HIDE DEF g
  <2>4. ClientSays(r, client[r], Drop(how), g, toClient, toClient')
    BY <1>2, <1>5, <2>1, <2>2 DEF ClientSays
  <2> QED
    BY <1>2, <2>1, <2>2, <2>3, <2>4, ClientBecomesTalk
<1> QED
  BY <1>1, <1>6, <1>7

LEMMA LocalDataTalk ==
    ASSUME HttpInv, HttpTalk, NEW r \in Requests, LocalData(r)
    PROVE  HttpTalk'
<1> DEFINE c == client[r]
           e == [c EXCEPT !.read = @ + 1]
<1>1. /\ Open(r) /\ c.started /\ c.read < Slices
      /\ toClient' = toClient /\ UNCHANGED <<user, relay, wsRelay, wsClient>>
  BY DEF LocalData
<1>2. PICK o \in Write(c.writer, c.read + 1, wsClient = "open") : ResponseWriterBecomes(r, e, o)
  BY DEF LocalData
<1>3. c \in LocalRequest /\ c.phase = "open" /\ toClient \in Seq(ToClient)
  BY <1>1, OpenFacts, RequestFacts
<1>4. c.read \in 0..Slices /\ c.writer \in Writers(1..Slices)
  BY <1>3 DEF LocalRequest
<1>5. c.read + 1 \in 1..Slices /\ c.read + 1 \in 0..Slices /\ (wsClient = "open") \in BOOLEAN
  BY <1>1, <1>4, HttpAssumption
<1>6. e \in LocalRequest /\ e.phase = "open" /\ e.started
  BY <1>1, <1>3, <1>5 DEF LocalRequest
<1>7. o.writer \in Writers(1..Slices) /\ o.sent \in Seq(1..Slices)
  BY <1>2, <1>4, <1>5, WriteTurn DEF IsTurn
<1>8. o.writer.paused = c.writer.paused
  <2>1. PICK w, n, open : w = c.writer /\ n = c.read + 1 /\ open = (wsClient = "open")
    OBVIOUS
  <2>2. w \in Writers(1..Slices) /\ n \in 1..Slices /\ open \in BOOLEAN /\ o \in Write(w, n, open)
    BY <1>2, <1>4, <1>5, <2>1
  <2>3. o.writer.paused = w.paused
    BY <2>2, WritePaused, ZenonT(40)
  <2> QED
    BY <2>1, <2>3
<1>9. ~Read(toClient, toClient', r, Words)
  BY <1>1, <1>3, ReadMoves
<1> HIDE DEF e
<1> QED
  BY <1>1, <1>2, <1>6, <1>7, <1>8, <1>9, ResponseWriterTalk

LEMMA LocalEndTalk ==
    ASSUME HttpInv, HttpTalk, NEW r \in Requests, LocalEnd(r)
    PROVE  HttpTalk'
<1> DEFINE c == client[r]
           o == Outcome(End(c.writer), <<>>)
<1>1. /\ Open(r) /\ c.started /\ ResponseWriterBecomes(r, c, o)
      /\ toClient' = toClient /\ UNCHANGED <<user, relay, wsRelay, wsClient>>
  BY DEF LocalEnd
<1>2. c \in LocalRequest /\ c.phase = "open" /\ toClient \in Seq(ToClient)
  BY <1>1, OpenFacts, RequestFacts
<1>3. c.writer \in Writers(1..Slices)
  BY <1>2 DEF LocalRequest
<1>4. o.writer \in Writers(1..Slices) /\ o.sent \in Seq(1..Slices)
  BY <1>3, EndTurn DEF IsTurn
<1>5. o.writer.paused = c.writer.paused
  BY <1>3 DEF Outcome, End, Writers
<1>6. ~Read(toClient, toClient', r, Words)
  BY <1>1, <1>2, ReadMoves
<1> HIDE DEF o
<1> QED
  BY <1>1, <1>2, <1>4, <1>5, <1>6, ResponseWriterTalk

LEMMA ResponseDrainedTalk ==
    ASSUME HttpInv, HttpTalk, NEW r \in Requests, ResponseDrained(r)
    PROVE  HttpTalk'
<1> SUFFICES ASSUME wsRelay = "open" PROVE HttpTalk'
  BY TalkOver DEF ResponseDrained
<1> DEFINE c == client[r]
           w == c.writer
<1>1. /\ Open(r) /\ w.at = "drain"
      /\ toClient' = toClient /\ UNCHANGED <<user, relay, wsRelay, wsClient>>
  BY DEF ResponseDrained
<1>2. PICK o \in Drained(w, wsClient = "open") \cup {Outcome(Failed(w), <<>>)} :
          ResponseWriterBecomes(r, c, o)
  BY DEF ResponseDrained
<1>3. c \in LocalRequest /\ c.phase = "open" /\ toClient \in Seq(ToClient) /\ wsClient = "open"
  BY <1>1, OpenFacts, RequestFacts
<1>4. w \in Writers(1..Slices) /\ (wsClient = "open") \in BOOLEAN
  BY <1>3 DEF LocalRequest
<1>5. c.started
  <2>1. TalkInv(r, user[r], relay[r], c, toClient, toRelay)
    BY <1>3, TalkFacts
  <2>2. NewWriter.at = "idle"
    BY DEF NewWriter
  <2> QED
    BY <1>1, <1>3, <2>1, <2>2 DEF TalkInv
<1>6. IsTurn(1..Slices, w, o)
  BY <1>2, <1>4, PumpTurn, FailedTurn DEF Drained
<1>7. o.writer \in Writers(1..Slices) /\ o.sent \in Seq(1..Slices)
  BY <1>6 DEF IsTurn
<1>8. o.writer.paused = w.paused
  <2>1. CASE o \in Drained(w, wsClient = "open")
    BY <1>4, <2>1, PumpPaused DEF Drained
  <2>2. CASE o = Outcome(Failed(w), <<>>)
    BY <1>4, <2>2 DEF Outcome, Failed, Writers
  <2> QED
    BY <1>2, <2>1, <2>2
<1>9. ~Read(toClient, toClient', r, Words)
  BY <1>1, <1>3, ReadMoves
<1> QED
  BY <1>1, <1>2, <1>3, <1>5, <1>7, <1>8, <1>9, ResponseWriterTalk

-----------------------------------------------------------------------------
(* The frames that the client reads.                                       *)

\* REQ_META opens an entry that has said nothing yet, or is refused.
LEMMA ReqMetaTalk ==
    ASSUME HttpInv, HttpTalk, NEW r \in Requests, wsRelay = "open", wsClient = "open",
           Read(toClient, toClient', r, {"REQ_META"}), ReqMeta(r),
           UNCHANGED <<user, relay, wsRelay, wsClient>>
    PROVE  HttpTalk'
<1> DEFINE c == client[r]
           c2 == [c EXCEPT !.phase = "open", !.localEnded = TRUE]
<1>1. /\ c \in LocalRequest /\ MetaInv(r, user[r], c, toClient) /\ toClient \in Seq(ToClient)
      /\ TalkInv(r, user[r], relay[r], c, toClient, toRelay)
  BY RequestFacts, TalkFacts
<1>2. user[r].end # "none" /\ c.phase = "none"
  <2>1. toClient # <<>> /\ IsMeta(Head(toClient), r)
    BY DEF Read, IsMeta
  <2>2. 1 \in 1..Len(toClient) /\ Head(toClient) = toClient[1]
    BY <1>1, <2>1, LenProperties, EmptySeq
  <2> QED
    BY <1>1, <2>1, <2>2 DEF MetaInv
<1>3. /\ Read(toClient, toClient', r, ClientTypes)
      /\ ~Read(toClient, toClient', r, {"REQ_ABORT"}) /\ ~Read(toClient, toClient', r, Words)
  BY DEF Read, ClientTypes, Words
<1>4. CASE ClientBecomes(r, c, <<Signal("RES_ABORT", r)>>)
  <2> DEFINE g == <<Signal("RES_ABORT", r)>>
  <2>1. Few(r, "RES_ABORT", g)
    BY DEF Few
  <2>2. Has(g, r, {"RES_ABORT"}) /\ ~Has(g, r, {"RES_META", "RES_DATA", "RES_END"})
    BY HasSignal
  <2>3. ClientBecomes(r, c, g)
    BY <1>4
  <2> HIDE DEF g
  <2>4. g \in Seq(ToRelay) /\ \A i \in 1..Len(g) : g[i].stream = r
    BY <2>1, FewFrames
  <2>5. ClientSays(r, c, c, g, toClient, toClient')
    BY <1>2, <1>3, <2>2 DEF ClientSays
  <2> QED
    BY <1>1, <1>2, <2>3, <2>4, <2>5, ClientBecomesTalk
<1>5. CASE ClientBecomes(r, c2, <<>>)
  <2>1. c2 \in LocalRequest /\ c2.phase = "open" /\ c2.writer = NewWriter
    <3>1. c = NewLocal
      BY <1>1, <1>2 DEF TalkInv
    <3>2. c.writer = NewWriter
      BY <3>1 DEF NewLocal
    <3> QED
      BY <1>1, <3>2 DEF LocalRequest
  <2> HIDE DEF c2
  <2>2. \A some : ~Has(<<>>, r, some)
    BY HasNone
  <2>3. <<>> \in Seq(ToRelay) /\ \A i \in 1..Len(<<>>) : <<>>[i].stream = r
    BY FewFrames DEF Few
  <2>4. ClientSays(r, c, c2, <<>>, toClient, toClient')
    BY <1>2, <1>3, <2>1, <2>2 DEF ClientSays
  <2> QED
    BY <1>2, <1>5, <2>1, <2>3, <2>4, ClientBecomesTalk
<1> QED
  BY <1>4, <1>5 DEF ReqMeta, MetaHasBodyLength

\* PAUSE and RESUME reach the writer of an entry that has answered: before it has, the
\* relay has nothing to pause.
LEMMA WordsTalk ==
    ASSUME HttpInv, HttpTalk, NEW r \in Requests, wsRelay = "open", wsClient = "open", Open(r),
           Read(toClient, toClient', r, Words),
           NEW c \in LocalRequest, c.phase = "open", c.started = client[r].started,
           c.writer = client[r].writer,
           \/ ~c.started
           \/ \E o \in SetPeerPaused(c.writer, Head(toClient).type = "PAUSE", TRUE) :
                  ResponseWriterBecomes(r, c, o),
           UNCHANGED <<user, relay, wsRelay, wsClient>>
    PROVE  HttpTalk'
<1>1. /\ client[r].phase = "open" /\ toClient \in Seq(ToClient)
      /\ TalkInv(r, user[r], relay[r], client[r], toClient, toRelay)
  BY OpenFacts, RequestFacts, TalkFacts
<1>2. client[r].started
  <2>1. Has(toClient, r, Words)
    BY <1>1, ReadHas
  <2> QED
    BY <1>1, <2>1 DEF TalkInv
<1>3. PICK p : p = (Head(toClient).type = "PAUSE")
  OBVIOUS
<1>4. p \in BOOLEAN /\ TRUE \in BOOLEAN
  BY <1>3
<1>5. PICK o \in SetPeerPaused(c.writer, p, TRUE) : ResponseWriterBecomes(r, c, o)
  BY <1>2, <1>3
<1>6. c.writer \in Writers(1..Slices)
  BY DEF LocalRequest
<1>7. o.writer.paused = p
  BY <1>4, <1>5, <1>6, PausePaused
<1>8. o.writer \in Writers(1..Slices) /\ o.sent \in Seq(1..Slices)
  <2>1. IsTurn(1..Slices, c.writer, o)
    BY <1>4, <1>5, <1>6, PauseTurn
  <2> QED
    BY <2>1 DEF IsTurn
<1> QED
  BY <1>2, <1>3, <1>5, <1>7, <1>8, ResponseWriterTalk

LEMMA ClientFrameTalk ==
    ASSUME HttpInv, HttpTalk, ClientFrame
    PROVE  HttpTalk'
<1> SUFFICES ASSUME wsRelay = "open" PROVE HttpTalk'
  BY TalkOver DEF ClientFrame
<1> DEFINE f == Head(toClient)
           r == f.stream
           c == [client[r] EXCEPT !.half = FALSE, !.active = FALSE]
<1>1. /\ toClient # <<>> /\ wsClient = "open" /\ toClient' = Tail(toClient)
      /\ UNCHANGED <<user, relay, wsRelay, wsClient>>
  BY DEF ClientFrame
<1>2. toClient \in Seq(ToClient) /\ f \in ToClient
  <2>1. toClient \in Seq(ToClient)
    BY DEF HttpInv, TypeOK
  <2> QED
    BY <1>1, <2>1, HeadTailProperties
<1>3. r \in Requests /\ f.type \in ClientTypes
  BY <1>2 DEF ToClient, Signals, ClientTypes
<1>4. \A types : f.type \in types => Read(toClient, toClient', r, types)
  BY <1>1 DEF Read
<1>5. /\ c \in LocalRequest /\ c.phase = client[r].phase /\ c.started = client[r].started
      /\ c.writer = client[r].writer /\ c.localEnded = client[r].localEnded
  BY <1>3, RequestFacts, ZenonT(40) DEF LocalRequest
<1>6. \/ f.type = "REQ_META" /\ ReqMeta(r)
      \/ f.type # "REQ_META" /\ ~Open(r) /\ UNCHANGED <<client, toRelay>>
      \/ f.type = "REQ_DATA" /\ Open(r) /\ ReqData(r, c)
      \/ f.type = "REQ_END" /\ Open(r) /\ ClientBecomes(r, [c EXCEPT !.localEnded = TRUE], <<>>)
      \/ f.type = "REQ_ABORT" /\ Open(r) /\ ClientBecomes(r, Drop("dropped"), <<>>)
      \/ /\ f.type \in Words /\ Open(r)
         /\ \/ ~c.started
            \/ \E o \in SetPeerPaused(c.writer, f.type = "PAUSE", TRUE) : ResponseWriterBecomes(r, c, o)
  BY DEF ClientFrame, Words
<1> HIDE DEF c
<1>7. Open(r) => user[r].end # "none" /\ client[r].phase = "open"
  BY <1>3, OpenFacts
<1>8. CASE f.type = "REQ_META" /\ ReqMeta(r)
  <2>1. Read(toClient, toClient', r, {"REQ_META"})
    BY <1>4, <1>8
  <2> QED
    BY <1>1, <1>3, <1>8, <2>1, ReqMetaTalk
<1>9. CASE f.type # "REQ_META" /\ ~Open(r) /\ UNCHANGED <<client, toRelay>>
  <2>1. PICK types : types = ClientTypes \ {"REQ_META"}
    OBVIOUS
  <2>2. Read(toClient, toClient', r, types) /\ Read(toClient, toClient', r, ClientTypes)
    BY <1>3, <1>4, <1>9, <2>1
  <2>3. /\ client[r] \in LocalRequest /\ client' = [client EXCEPT ![r] = client[r]]
        /\ toRelay' = toRelay
    BY <1>3, <1>9, RequestFacts DEF HttpInv, TypeOK
  <2>4. user[r].end # "none"
    <3>1. TalkInv(r, user[r], relay[r], client[r], toClient, toRelay)
      BY <1>1, <1>3, TalkFacts
    <3>2. Has(toClient, r, ClientTypes)
      BY <1>2, <2>2, ReadHas
    <3> QED
      BY <3>1, <3>2 DEF TalkInv
  <2> QED
    BY <1>1, <1>3, <1>9, <2>1, <2>2, <2>3, <2>4, QuietTalk
<1>10. ASSUME Open(r), f.type \in {"REQ_DATA", "REQ_END"},
              NEW c2 \in LocalRequest, c2.phase = c.phase, c2.started = c.started,
              c2.writer = c.writer, ClientBecomes(r, c2, <<>>)
       PROVE  HttpTalk'
  <2>1. PICK types : types = {"REQ_DATA", "REQ_END"}
    OBVIOUS
  <2>2. Read(toClient, toClient', r, types) /\ types \subseteq ClientTypes \ {"REQ_META"}
    BY <1>4, <1>10, <2>1 DEF ClientTypes
  <2>3. c2.phase # "none" /\ c2.phase = client[r].phase /\ c2.started = client[r].started
        /\ c2.writer = client[r].writer /\ user[r].end # "none"
    BY <1>5, <1>7, <1>10
  <2> QED
    BY <1>1, <1>3, <1>10, <2>1, <2>2, <2>3, QuietTalk
<1>11. ASSUME Open(r), NEW how \in {"dropped", "idle"},
              \/ ClientBecomes(r, Drop(how), <<Signal("RES_ABORT", r)>>)
              \/ ClientBecomes(r, Drop(how), <<>>) /\ f.type = "REQ_ABORT"
       PROVE  HttpTalk'
  <2>1. Read(toClient, toClient', r, ClientTypes)
    BY <1>3, <1>4
  <2>2. \/ ClientBecomes(r, Drop(how), <<Signal("RES_ABORT", r)>>)
        \/ ClientBecomes(r, Drop(how), <<>>) /\ Read(toClient, toClient', r, {"REQ_ABORT"})
    BY <1>4, <1>11
  <2> QED
    BY <1>1, <1>3, <1>11, <2>1, <2>2, DropTalk
<1>12. CASE f.type = "REQ_DATA" /\ Open(r) /\ ReqData(r, c)
  <2>1. c.localEnded
    BY <1>3, <1>5, <1>12, OpenFacts DEF ClientInv
  <2>2. ClientBecomes(r, Drop("dropped"), <<Signal("RES_ABORT", r)>>) \/ ClientBecomes(r, c, <<>>)
    BY <1>12, <2>1 DEF ReqData, SendResAbort
  <2> QED
    BY <1>5, <1>10, <1>11, <1>12, <2>2
<1>13. CASE f.type = "REQ_END" /\ Open(r) /\ ClientBecomes(r, [c EXCEPT !.localEnded = TRUE], <<>>)
  <2> DEFINE c2 == [c EXCEPT !.localEnded = TRUE]
  <2>1. c2 \in LocalRequest /\ c2.phase = c.phase /\ c2.started = c.started /\ c2.writer = c.writer
    BY <1>5 DEF LocalRequest
  <2>2. ClientBecomes(r, c2, <<>>)
    BY <1>13
  <2> HIDE DEF c2
  <2> QED
    BY <1>10, <1>13, <2>1, <2>2
<1>14. CASE f.type = "REQ_ABORT" /\ Open(r) /\ ClientBecomes(r, Drop("dropped"), <<>>)
  BY <1>11, <1>14
<1>15. CASE /\ f.type \in Words /\ Open(r)
            /\ \/ ~c.started
               \/ \E o \in SetPeerPaused(c.writer, f.type = "PAUSE", TRUE) :
                      ResponseWriterBecomes(r, c, o)
  <2>1. Read(toClient, toClient', r, Words)
    BY <1>4, <1>15
  <2>2. c.phase = "open"
    BY <1>5, <1>7, <1>15
  <2> QED
    BY <1>1, <1>3, <1>5, <1>15, <2>1, <2>2, WordsTalk
<1> QED
  BY <1>6, <1>8, <1>9, <1>12, <1>13, <1>14, <1>15

-----------------------------------------------------------------------------
(* Every step, and what follows.                                           *)

LEMMA HttpTalkInit == Init => HttpTalk
<1> SUFFICES ASSUME Init, NEW r \in Requests
             PROVE  TalkInv(r, user[r], relay[r], client[r], toClient, toRelay)
  BY DEF HttpTalk
<1>1. /\ user[r].end = "none" /\ relay[r] = NewStream /\ client[r] = NewLocal
      /\ toClient = <<>> /\ toRelay = <<>>
  BY DEF Init
<1>2. \A types : ~Has(toClient, r, types) /\ ~Has(toRelay, r, types)
  BY <1>1, HasNone
<1>3. MetaFirst(toClient, r)
  <2>1. Len(toClient) = 0 /\ \A i \in 1..0 : FALSE
    BY <1>1, EmptySeq
  <2> QED
    BY <2>1 DEF MetaFirst
<1>4. relay[r].phase = "none" /\ ~relay[r].responsePaused
  BY <1>1 DEF NewStream
<1>5. client[r].phase = "none"
  BY <1>1 DEF NewLocal
<1> QED
  BY <1>1, <1>2, <1>3, <1>4, <1>5 DEF TalkInv, Answered

LEMMA HttpTalkStep == HttpInv /\ HttpTalk /\ [Next]_vars => HttpTalk'
<1> SUFFICES ASSUME HttpInv, HttpTalk, [Next]_vars PROVE HttpTalk'
  OBVIOUS
<1>1. ASSUME NEW r \in Requests, RequestStep(r) PROVE HttpTalk'
  BY <1>1, AskTalk, CutLeaveRefuseTalk, BodyTalk, FlushTalk, FinishTalk, UserClosedTalk,
     RelayIdleTalk, LocalResponseTalk, LocalDataTalk, LocalEndTalk, FailsOrIdleTalk,
     ResponseDrainedTalk, HalfIdleTalk, Zenon DEF RequestStep
<1>2. CASE RelayClosing \/ RelayClosed
  BY <1>2 DEF RelayClosing, RelayClosed, HttpTalk
<1>3. CASE ClientClosed
  BY <1>3 DEF ClientClosed, HttpTalk
<1>4. CASE UNCHANGED vars
  BY <1>4 DEF vars, HttpTalk
<1> QED
  BY <1>1, <1>2, <1>3, <1>4, RelayFrameTalk, ClientFrameTalk, Zenon DEF Next

\* In every state the two records of a request and the frames under way agree on who still
\* waits for whom.
THEOREM HttpTalkInvariant == Spec => [](HttpInv /\ HttpTalk)
BY HttpInit, HttpStep, HttpTalkInit, HttpTalkStep, PTL DEF Spec

\* with no frame of r under way, neither wire has one
LEMMA SettledWires ==
    ASSUME HttpInv, HttpTalk, NEW r \in Requests, Settled(r)
    PROVE  /\ \A types : ~Has(toClient, r, types) /\ ~Has(toRelay, r, types)
           /\ TalkInv(r, user[r], relay[r], client[r], toClient, toRelay)
<1>1. /\ \A i \in 1..Len(toClient) : toClient[i].stream # r
      /\ \A i \in 1..Len(toRelay) : toRelay[i].stream # r
      /\ wsRelay = "open" /\ wsClient = "open"
  BY DEF Settled, InFlight
<1> QED
  BY <1>1, TalkFacts DEF Has

\* No user waits for nobody: whatever the interleaving, once no frame of a stream is
\* under way a request whose response has not ended has an entry at the client.
THEOREM UsersStayServed == Spec => []UsersServed
<1>1. HttpInv /\ HttpTalk => UsersServed
  BY SettledWires DEF UsersServed, TalkInv, Live, Open
<1> QED
  BY <1>1, HttpTalkInvariant, PTL

\* No local request works for nobody: an entry at the client has one at the relay, or an
\* abort of it is under way, or the relay dropped the stream without a word.
THEOREM LocalRequestsStayOwned == Spec => []LocalRequestsOwned
<1>1. HttpInv /\ HttpTalk => LocalRequestsOwned
  BY SettledWires DEF LocalRequestsOwned, TalkInv, Open
<1> QED
  BY <1>1, HttpTalkInvariant, PTL

\* Pause and resume agree: no PAUSE or RESUME is lost on an entry that has not answered
\* yet, and the last one that is read is the last one that was sent.
THEOREM HttpPausesStayAgreed == Spec => []PausesAgree
<1>1. HttpInv /\ HttpTalk => PausesAgree
  BY SettledWires DEF PausesAgree, TalkInv, LastWord, Live, Open
<1> QED
  BY <1>1, HttpTalkInvariant, PTL
=============================================================================
