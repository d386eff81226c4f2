---------------------------- MODULE DlschProofs ----------------------------
(***************************************************************************)
(* What the downlink scheduler keeps for every table of transport block    *)
(* sizes, every grant and every traffic: the types, and that a packet cut  *)
(* at the end of a transport block is remembered.  The loops of the        *)
(* scheduler are recursive functions; what they compute is shown by        *)
(* induction over their index.                                             *)
(***************************************************************************)
EXTENDS Dlsch, WellFoundedInduction, TLAPS

-----------------------------------------------------------------------------
(***************************************************************************)
(* Induction over 0..n, recursive functions over 0..n, largest members.    *)
(***************************************************************************)
\* A set of natural numbers has a smallest member.
LEMMA Least ==
    ASSUME NEW S \in SUBSET Nat, S # {}
    PROVE  \E i \in S : \A j \in S : i <= j
  <1>1. PICK i \in S : \A j \in S : ~ (<<j, i>> \in OpToRel(<, Nat))
    BY WFMin, NatLessThanWellFounded, Zenon
  <1>2. ASSUME NEW j \in S, j < i PROVE FALSE
    <2>1. <<j, i>> \in Nat \X Nat /\ <<j, i>>[1] < <<j, i>>[2]
      BY <1>2
    <2>2. <<j, i>> \in OpToRel(<, Nat)
      BY <2>1, Zenon DEF OpToRel
    <2> QED BY <1>1, <2>2, Zenon
  <1>3. \A j \in S : i <= j
    BY <1>2
  <1> QED BY <1>3, Zenon

\* A set that has 0 and with every number the next one has all of 0..n.
LEMMA Induction ==
    ASSUME NEW n \in Nat, NEW Q, 0 \in Q, \A i \in 1..n : i - 1 \in Q => i \in Q
    PROVE  \A i \in 0..n : i \in Q
  <1> SUFFICES ASSUME NEW k \in 0..n, k \notin Q PROVE FALSE
    OBVIOUS
  <1> DEFINE S == {i \in 0..n : i \notin Q}
  <1>1. S \in SUBSET Nat /\ S # {}
    OBVIOUS
  <1>2. PICK i \in S : \A j \in S : i <= j
    BY <1>1, Least, Zenon
  <1>3. i \in 1..n /\ i - 1 \in 0..n /\ ~ (i <= i - 1)
    BY <1>2
  <1>4. i - 1 \in Q
    BY <1>2, <1>3, Zenon
  <1> QED BY <1>2, <1>3, <1>4, Zenon

\* A set of numbers up to n has a largest member.
LEMMA Largest ==
    ASSUME NEW n \in Nat, NEW S \in SUBSET (0..n), S # {}
    PROVE  Max(S) \in S /\ \A i \in S : i <= Max(S)
  <1> DEFINE R == {i \in 0..n : n - i \in S}
  <1>1. R \in SUBSET Nat /\ R # {}
    <2>1. PICK i : i \in S
      OBVIOUS
    <2>2. n - i \in R
      BY <2>1
    <2>3. R \in SUBSET Nat
      OBVIOUS
    <2> QED BY <2>2, <2>3
  <1>2. PICK r \in R : \A j \in R : r <= j
    BY <1>1, Least, Zenon
  <1>3. n - r \in S /\ \A i \in S : n - r >= i
    BY <1>2
  <1>4. Max(S) \in S /\ \A i \in S : Max(S) >= i
    BY <1>3, Zenon DEF Max
  <1>5. \A i \in S : i \in Int
    OBVIOUS
  <1> QED BY <1>4, <1>5

\* g starts with base and goes on with F.
Computes(g, n, base, F) == g[0] = base /\ \A i \in 1..n : g[i] = F[i][g[i - 1]]

LEMMA Recursion ==
    ASSUME NEW n \in Nat, NEW S, NEW base \in S, NEW F \in [1..n -> [S -> S]]
    PROVE  \E g \in [0..n -> S] : Computes(g, n, base, F)
  <1> DEFINE Q == {k \in 0..n : \E g \in [0..k -> S] :
                      g[0] = base /\ \A i \in 1..k : g[i] = F[i][g[i - 1]]}
  <1>1. 0 \in Q
    <2> DEFINE g == [i \in 0..0 |-> base]
    <2>1. g \in [0..0 -> S] /\ g[0] = base /\ \A i \in 1..0 : g[i] = F[i][g[i - 1]]
      OBVIOUS
    <2>2. 0 \in 0..n
      OBVIOUS
    <2> QED BY <2>1, <2>2, Zenon
  <1>2. ASSUME NEW k \in 1..n, k - 1 \in Q PROVE k \in Q
    <2>1. PICK g \in [0..(k - 1) -> S] : g[0] = base /\ \A i \in 1..(k - 1) : g[i] = F[i][g[i - 1]]
      BY <1>2
    <2> DEFINE h == [i \in 0..k |-> IF i < k THEN g[i] ELSE F[k][g[k - 1]]]
    <2>2. \A i \in 0..(k - 1) : i \in 0..k /\ h[i] = g[i] /\ g[i] \in S
      OBVIOUS
    <2>3. h[k] = F[k][g[k - 1]] /\ h[k] \in S
      <3>1. F[k] \in [S -> S] /\ g[k - 1] \in S
        BY <2>1
      <3> QED BY <3>1
    <2>4. \A i \in 0..k : h[i] \in S
      BY <2>2, <2>3
    <2>5. h \in [0..k -> S]
      BY <2>4
    <2>6. h[0] = base
      BY <2>1, <2>2, SMTT(60)
    <2>7. ASSUME NEW i \in 1..k PROVE h[i] = F[i][h[i - 1]]
      <3>1. h[i - 1] = g[i - 1]
        BY <2>2
      <3>2. CASE i = k
        BY <2>3, <3>1, <3>2, Zenon
      <3>3. CASE i # k
        <4>1. i \in 1..(k - 1) /\ i \in 0..(k - 1)
          BY <3>3
        <4> QED BY <2>1, <2>2, <3>1, <4>1, Zenon
      <3> QED BY <3>2, <3>3
    <2>8. k \in 0..n
      OBVIOUS
    <2> HIDE DEF h
    <2> QED BY <2>5, <2>6, <2>7, <2>8, Zenon
  <1>3. n \in Q
    <2> HIDE DEF Q
    <2>1. \A k \in 0..n : k \in Q
      BY <1>1, <1>2, Induction, Zenon
    <2>2. n \in 0..n
      OBVIOUS
    <2> QED BY <2>1, <2>2, Zenon
  <1> QED BY <1>3, Zenon DEF Computes

-----------------------------------------------------------------------------
(***************************************************************************)
(* Sums of lengths.                                                        *)
(***************************************************************************)
LEMMA SumsFacts ==
    ASSUME NEW lens \in Seq(Int)
    PROVE  /\ Sums(lens) \in [0..Len(lens) -> Int] /\ Sums(lens)[0] = 0
           /\ \A k \in 1..Len(lens) : Sums(lens)[k] = Sums(lens)[k - 1] + lens[k]
  <1>n. PICK n \in Nat : n = Len(lens)
    OBVIOUS
  <1>l. \A k \in 1..n : lens[k] \in Int
    BY <1>n
  <1> DEFINE F == [k \in 1..n |-> [x \in Int |-> x + lens[k]]]
  <1>1. F \in [1..n -> [Int -> Int]]
    BY <1>l
  <1>2. \A k \in 1..n : \A x \in Int : F[k][x] = x + lens[k]
    OBVIOUS
  <1>3. PICK g \in [0..n -> Int] : g[0] = 0 /\ \A k \in 1..n : g[k] = F[k][g[k - 1]]
    <2> HIDE DEF F
    <2>1. 0 \in Int
      OBVIOUS
    <2>2. \E g \in [0..n -> Int] : Computes(g, n, 0, F)
      BY <1>1, <2>1, Recursion, Zenon
    <2> QED BY <2>2, Zenon DEF Computes
  <1>4. \A k \in 1..n : g[k - 1] \in Int /\ g[k] = g[k - 1] + lens[k]
    <2> HIDE DEF F
    <2>1. \A k \in 1..n : k - 1 \in 0..n
      OBVIOUS
    <2> QED BY <1>2, <1>3, <2>1, Zenon
  <1>5. g = [k \in 0..n |-> IF k = 0 THEN 0 ELSE g[k - 1] + lens[k]]
    <2>1. ASSUME NEW k \in 0..n PROVE g[k] = IF k = 0 THEN 0 ELSE g[k - 1] + lens[k]
      <3>1. k # 0 => k \in 1..n
        OBVIOUS
      <3> QED BY <1>3, <1>4, <3>1, Zenon
    <2> QED BY <1>3, <2>1, Zenon
  <1>f. PICK f : f = Sums(lens)
    BY Zenon
  <1>6. f = CHOOSE h : h = [k \in 0..n |-> IF k = 0 THEN 0 ELSE h[k - 1] + lens[k]]
    BY <1>f, <1>n, Zenon DEF Sums
  <1>7. f = [k \in 0..n |-> IF k = 0 THEN 0 ELSE f[k - 1] + lens[k]]
    BY <1>5, <1>6, Zenon
  <1>8. f[0] = 0
    <2>1. 0 \in 0..n
      OBVIOUS
    <2> QED BY <1>7, <2>1, Zenon
  <1>9. ASSUME NEW k \in 1..n PROVE f[k] = f[k - 1] + lens[k]
    <2>1. k \in 0..n /\ k # 0
      OBVIOUS
    <2> QED BY <1>7, <2>1, Zenon
  <1>10. \A k \in 0..n : f[k] \in Int
    <2> DEFINE Q == {k \in 0..n : f[k] \in Int}
    <2>1. 0 \in Q
      BY <1>8
    <2>2. ASSUME NEW k \in 1..n, k - 1 \in Q PROVE k \in Q
      <3>1. f[k] \in Int
        <4>1. f[k] = f[k - 1] + lens[k] /\ f[k - 1] \in Int /\ lens[k] \in Int
          BY <1>9, <1>l, <2>2, Zenon
        <4>2. \A a, c \in Int : a + c \in Int
          OBVIOUS
        <4> QED BY <4>1, <4>2, Zenon
      <3> QED BY <3>1
    <2>3. \A k \in 0..n : k \in Q
      <3> HIDE DEF Q
      <3> QED BY <2>1, <2>2, Induction, Zenon
    <2> QED BY <2>3, Zenon
  <1>11. f \in [0..n -> Int]
    BY <1>7, <1>10, Zenon
  <1> QED BY <1>n, <1>f, <1>8, <1>9, <1>11, Zenon

LEMMA SumsAgree ==
    ASSUME NEW a \in Seq(Int), NEW b \in Seq(Int), NEW n \in Nat, n <= Len(a), n <= Len(b),
           \A i \in 1..n : a[i] = b[i]
    PROVE  Sums(a)[n] = Sums(b)[n]
  <1> DEFINE Q == {k \in 0..n : Sums(a)[k] = Sums(b)[k]}
  <1>1. 0 \in Q
    <2>1. Sums(a)[0] = 0 /\ Sums(b)[0] = 0
      BY SumsFacts, Zenon
    <2> QED BY <2>1
  <1>2. ASSUME NEW k \in 1..n, k - 1 \in Q PROVE k \in Q
    <2>1. k \in 1..Len(a) /\ k \in 1..Len(b) /\ k \in 0..n
      OBVIOUS
    <2>2. Sums(a)[k] = Sums(a)[k - 1] + a[k] /\ Sums(b)[k] = Sums(b)[k - 1] + b[k]
      BY <2>1, SumsFacts, Zenon
    <2>3. Sums(a)[k - 1] = Sums(b)[k - 1] /\ a[k] = b[k]
      BY <1>2, Zenon
    <2>4. Sums(a)[k] = Sums(b)[k]
      BY <2>2, <2>3, Zenon
    <2> QED BY <2>1, <2>4, Zenon
  <1>3. \A k \in 0..n : k \in Q
    <2> HIDE DEF Q
    <2> QED BY <1>1, <1>2, Induction, Zenon
  <1>4. n \in 0..n
    OBVIOUS
  <1> QED BY <1>3, <1>4, Zenon

\* Sums of natural numbers are natural numbers.
LEMMA SumsNat ==
    ASSUME NEW a \in Seq(Nat), NEW n \in 0..Len(a)
    PROVE  Sums(a)[n] \in Nat
  <1>0. a \in Seq(Int) /\ Len(a) \in Nat /\ \A i \in 1..Len(a) : a[i] \in Nat
    OBVIOUS
  <1> DEFINE Q == {k \in 0..Len(a) : Sums(a)[k] \in Nat}
  <1>1. 0 \in Q
    <2>1. Sums(a)[0] = 0
      BY <1>0, SumsFacts, Zenon
    <2> QED BY <1>0, <2>1
  <1>2. ASSUME NEW k \in 1..Len(a), k - 1 \in Q PROVE k \in Q
    <2>1. Sums(a)[k] = Sums(a)[k - 1] + a[k]
      BY <1>0, SumsFacts, Zenon
    <2>2. Sums(a)[k - 1] \in Nat /\ a[k] \in Nat
      BY <1>0, <1>2, Zenon
    <2>3. Sums(a)[k] \in Nat
      BY <2>1, <2>2
    <2>4. k \in 0..Len(a)
      BY <1>0
    <2> QED BY <2>3, <2>4, Zenon
  <1>3. \A k \in 0..Len(a) : k \in Q
    <2> HIDE DEF Q
    <2> QED BY <1>0, <1>1, <1>2, Induction, Zenon
  <1> QED BY <1>3, Zenon
-----------------------------------------------------------------------------
(***************************************************************************)
(* RLC PDUs.                                                               *)
(***************************************************************************)
DataField == [lcid : Bearer, n : Nat, from : Nat, len : Nat, size : Nat]
Pdu == [lcid : Bearer, fi : 0..3, data : Seq(DataField)]

\* What TypeOK says of a bearer's queue.
GoodQueue(q) ==
    \A i \in 1..Len(q) : q[i].sent \in 0..(q[i].size - 1) /\ (i > 1 => q[i].sent = 0)

\* The parts of RlcPdu: the lengths, the packets that fit whole, what is left for
\* a part of the next one, whether there is a next one and a byte of it fits.
Lens(q) == [i \in DOMAIN q |-> Left(q[i])]
Fits(q, room) == {k \in 0..Len(q) : k = 0 \/ Header(k) + Sums(Lens(q))[k] <= room}
Rest(q, room, w) == room - Header(w + 1) - Sums(Lens(q))[w]
IsCut(q, room, w) == w < Len(q) /\ Rest(q, room, w) > 0

PduOf(b, q, room, w) ==
    [lcid |-> b,
     fi |-> (IF Head(q).sent > 0 THEN 2 ELSE 0) + (IF IsCut(q, room, w) THEN 1 ELSE 0),
     data |-> [i \in 1..w |-> Field(b, q[i], Lens(q)[i])]
              \o IF IsCut(q, room, w) THEN <<Field(b, q[w + 1], Rest(q, room, w))>> ELSE <<>>]

LeftOf(q, room, w) ==
    IF IsCut(q, room, w)
    THEN [SubSeq(q, w + 1, Len(q)) EXCEPT ![1].sent = @ + Rest(q, room, w)]
    ELSE SubSeq(q, w + 1, Len(q))

LEMMA RlcPduParts ==
    ASSUME NEW b, NEW q, NEW room, NEW w, w = Max(Fits(q, room))
    PROVE  RlcPdu(b, q, room) = [pdu |-> PduOf(b, q, room, w), left |-> LeftOf(q, room, w)]
  BY Zenon DEF RlcPdu, PduOf, LeftOf, Fits, Rest, IsCut, Lens

LEMMA PacketFacts ==
    ASSUME NEW q \in Seq(RlcPacket), GoodQueue(q), NEW i \in 1..Len(q)
    PROVE  /\ q[i] \in RlcPacket /\ q[i].n \in Nat /\ q[i].size \in Nat /\ q[i].sent \in Nat
           /\ q[i].sent < q[i].size /\ (i > 1 => q[i].sent = 0)
           /\ Left(q[i]) = q[i].size - q[i].sent /\ Left(q[i]) \in Nat
  <1>1. q[i] \in RlcPacket
    OBVIOUS
  <1>2. q[i].n \in Nat /\ q[i].size \in Nat /\ q[i].sent \in Nat
    BY <1>1, Zenon DEF RlcPacket
  <1>3. q[i].sent \in 0..(q[i].size - 1) /\ (i > 1 => q[i].sent = 0)
    BY Zenon DEF GoodQueue
  <1>4. q[i].sent < q[i].size /\ q[i].size - q[i].sent \in Nat
    BY <1>2, <1>3
  <1> QED BY <1>1, <1>2, <1>3, <1>4, Zenon DEF Left

LEMMA LensFacts ==
    ASSUME NEW q \in Seq(RlcPacket), GoodQueue(q)
    PROVE  /\ Lens(q) \in Seq(Nat) /\ Lens(q) \in Seq(Int) /\ Len(Lens(q)) = Len(q)
           /\ \A i \in 1..Len(q) : Lens(q)[i] = Left(q[i]) /\ Left(q[i]) \in Nat
           /\ \A k \in 0..Len(q) : Sums(Lens(q))[k] \in Nat
  <1>1. DOMAIN q = 1..Len(q) /\ Len(q) \in Nat
    OBVIOUS
  <1>2. \A i \in 1..Len(q) : Left(q[i]) \in Nat
    BY PacketFacts, Zenon
  <1>3. Lens(q) = [i \in 1..Len(q) |-> Left(q[i])]
    BY <1>1, Zenon DEF Lens
  <1>4. Lens(q) \in [1..Len(q) -> Nat] /\ \A i \in 1..Len(q) : Lens(q)[i] = Left(q[i])
    BY <1>2, <1>3, Zenon
  <1>5. Lens(q) \in Seq(Nat) /\ Lens(q) \in Seq(Int) /\ Len(Lens(q)) = Len(q)
    BY <1>1, <1>4
  <1> QED BY <1>2, <1>4, <1>5, SumsNat, Zenon

LEMMA HeaderFacts ==
    /\ \A k \in Nat : Header(k) \in Nat
    /\ Header(1) = 2
    /\ \A k \in Nat \ {0} : Header(k + 1) \in Nat /\ Header(k + 1) <= Header(k) + 2
  BY DEF Header

LEMMA FitsFacts ==
    ASSUME NEW q \in Seq(RlcPacket), GoodQueue(q), NEW room \in Int, NEW w, w = Max(Fits(q, room))
    PROVE  w \in 0..Len(q) /\ (w = 0 \/ Header(w) + Sums(Lens(q))[w] <= room)
  <1>1. Len(q) \in Nat /\ 0 \in 0..Len(q)
    OBVIOUS
  <1>2. Fits(q, room) \in SUBSET (0..Len(q)) /\ Fits(q, room) # {}
    BY <1>1, Zenon DEF Fits
  <1>3. w \in Fits(q, room)
    BY <1>1, <1>2, Largest, Zenon
  <1> QED BY <1>3, Zenon DEF Fits

LEMMA FieldFacts ==
    ASSUME NEW b \in Bearer, NEW p \in RlcPacket, NEW len \in Nat
    PROVE  Field(b, p, len) \in DataField /\ Field(b, p, len).len = len
  BY DEF Field, DataField, RlcPacket

\* The data fields of a PDU: as many as whole packets fit, one more for a part.
LEMMA DataFacts ==
    ASSUME NEW b \in Bearer, NEW q \in Seq(RlcPacket), GoodQueue(q), q # <<>>, NEW room \in Int,
           NEW w, w = Max(Fits(q, room)), NEW data, data = PduOf(b, q, room, w).data
    PROVE  /\ data \in Seq(DataField)
           /\ IsCut(q, room, w) => /\ Len(data) = w + 1
                                   /\ data[w + 1].len = Rest(q, room, w) /\ Rest(q, room, w) \in Nat
           /\ ~IsCut(q, room, w) => Len(data) = w
           /\ \A i \in 1..w : data[i].len = Lens(q)[i]
           /\ w \in Nat /\ w <= Len(q)
  <1>1. w \in 0..Len(q) /\ Len(q) \in Nat /\ w \in Nat /\ w <= Len(q)
    <2>1. w \in 0..Len(q) /\ Len(q) \in Nat
      BY FitsFacts
    <2> QED BY <2>1
  <1>f. PICK front : front = [i \in 1..w |-> Field(b, q[i], Lens(q)[i])]
    BY Zenon
  <1>2. ASSUME NEW i \in 1..w
        PROVE  front[i] \in DataField /\ front[i].len = Lens(q)[i]
    <2>1. i \in 1..Len(q)
      BY <1>1
    <2>2. q[i] \in RlcPacket /\ Lens(q)[i] \in Nat
      BY <2>1, PacketFacts, LensFacts, Zenon
    <2> QED BY <1>f, <2>2, FieldFacts, Zenon
  <1>3. front \in [1..w -> DataField]
    BY <1>f, <1>2, Zenon
  <1>4. front \in Seq(DataField) /\ Len(front) = w
    BY <1>1, <1>3
  <1>5. CASE ~IsCut(q, room, w)
    <2>1. data = front \o <<>>
      BY <1>f, <1>5, Zenon DEF PduOf
    <2>2. data = front
      BY <1>4, <2>1
    <2> QED BY <1>1, <1>2, <1>4, <1>5, <2>2, Zenon
  <1>6. CASE IsCut(q, room, w)
    <2>x. PICK x : x = Field(b, q[w + 1], Rest(q, room, w))
      BY Zenon
    <2>1. data = front \o <<x>>
      BY <1>f, <1>6, <2>x, Zenon DEF PduOf
    <2>2. w + 1 \in 1..Len(q) /\ Rest(q, room, w) \in Nat
      <3>1. Sums(Lens(q))[w] \in Nat /\ Header(w + 1) \in Nat
        <4>1. w + 1 \in Nat
          BY <1>1
        <4> QED BY <1>1, <4>1, LensFacts, HeaderFacts, Zenon
      <3>2. Rest(q, room, w) = room - Header(w + 1) - Sums(Lens(q))[w]
            /\ w < Len(q) /\ Rest(q, room, w) > 0
        BY <1>6, Zenon DEF IsCut, Rest
      <3> QED BY <1>1, <3>1, <3>2
    <2>3. x \in DataField /\ x.len = Rest(q, room, w)
      BY <2>2, <2>x, PacketFacts, FieldFacts, Zenon
    <2>4. data \in Seq(DataField) /\ Len(data) = w + 1 /\ data[w + 1] = x
          /\ \A i \in 1..w : data[i] = front[i]
      BY <1>1, <1>4, <2>1, <2>3
    <2> QED BY <1>1, <1>2, <1>6, <2>2, <2>3, <2>4, Zenon
  <1> QED BY <1>5, <1>6

\* A PDU takes no more room than there is, and all of it if a packet is cut.
LEMMA LengthFacts ==
    ASSUME NEW b \in Bearer, NEW q \in Seq(RlcPacket), GoodQueue(q), q # <<>>,
           NEW room \in Int, room > 0, NEW w, w = Max(Fits(q, room)), NEW pdu, pdu = PduOf(b, q, room, w)
    PROVE  /\ Length(pdu) \in Nat /\ Length(pdu) <= room
           /\ IsCut(q, room, w) => Length(pdu) = room
  <1>d. PICK data : data = pdu.data
    BY Zenon
  <1>1. /\ data \in Seq(DataField)
        /\ IsCut(q, room, w) => /\ Len(data) = w + 1
                                /\ data[w + 1].len = Rest(q, room, w) /\ Rest(q, room, w) \in Nat
        /\ ~IsCut(q, room, w) => Len(data) = w
        /\ \A i \in 1..w : data[i].len = Lens(q)[i]
        /\ w \in Nat /\ w <= Len(q)
    <2>1. data = PduOf(b, q, room, w).data
      BY <1>d, Zenon
    <2> QED BY <2>1, DataFacts
  <1>s. PICK s : s = Lengths(data)
    BY Zenon
  <1>2. s \in Seq(Nat) /\ s \in Seq(Int) /\ Len(s) = Len(data) /\ \A i \in 1..Len(data) : s[i] = data[i].len
    <2>1. DOMAIN data = 1..Len(data) /\ Len(data) \in Nat
      BY <1>1
    <2>2. ASSUME NEW i \in 1..Len(data) PROVE data[i].len \in Nat
      <3>1. data[i] \in DataField
        BY <1>1
      <3> QED BY <3>1, Zenon DEF DataField
    <2>3. s = [i \in 1..Len(data) |-> data[i].len]
      BY <1>s, <2>1, Zenon DEF Lengths
    <2>4. s \in [1..Len(data) -> Nat] /\ \A i \in 1..Len(data) : s[i] = data[i].len
      BY <2>2, <2>3, Zenon
    <2> QED BY <2>1, <2>4
  <1>3. /\ Sums(Lens(q))[w] \in Nat /\ w \in 0..Len(q)
        /\ Lens(q) \in Seq(Int) /\ Len(Lens(q)) = Len(q)
    <2>1. w \in 0..Len(q)
      BY FitsFacts, Zenon
    <2> QED BY <2>1, LensFacts, Zenon
  <1>4. w <= Len(s)
    BY <1>1, <1>2
  <1>5. Sums(s)[w] = Sums(Lens(q))[w]
    <2>1. \A i \in 1..w : i \in 1..Len(data)
      BY <1>1, <1>2, <1>4
    <2>2. \A i \in 1..w : s[i] = Lens(q)[i]
      BY <1>1, <1>2, <2>1, Zenon
    <2>3. w <= Len(Lens(q))
      BY <1>1, <1>3, Zenon
    <2> QED BY <1>1, <1>2, <1>3, <1>4, <2>2, <2>3, SumsAgree, Zenon
  <1>6. CASE IsCut(q, room, w)
    <2>1. w + 1 \in 1..Len(s) /\ Len(s) = w + 1 /\ w + 1 \in Nat \ {0} /\ (w + 1) - 1 = w
      BY <1>1, <1>2, <1>6
    <2>2. Sums(s)[w + 1] = Sums(s)[w] + s[w + 1]
      BY <1>2, <2>1, SumsFacts, Zenon
    <2>3. s[w + 1] = Rest(q, room, w) /\ Rest(q, room, w) \in Nat
      BY <1>1, <1>2, <1>6, <2>1, Zenon
    <2>4. data # <<>>
      BY <1>2, <2>1
    <2>5. Length(pdu) = Header(w + 1) + Sums(s)[w + 1]
      BY <1>d, <1>s, <1>2, <2>1, <2>4, Zenon DEF Length, Total
    <2>6. Rest(q, room, w) = room - Header(w + 1) - Sums(Lens(q))[w] /\ Header(w + 1) \in Nat
      BY <2>1, HeaderFacts, Zenon DEF Rest
    <2>7. Length(pdu) = room
      <3>1. Sums(s)[w + 1] = Sums(Lens(q))[w] + Rest(q, room, w)
        BY <1>5, <2>2, <2>3, Zenon
      <3> QED BY <1>3, <2>3, <2>5, <2>6, <3>1
    <2> QED BY <2>7
  <1>7. CASE ~IsCut(q, room, w)
    <2>1. CASE w = 0
      <3>1. data = <<>>
        BY <1>1, <1>7, <2>1
      <3>2. Length(pdu) = 0
        BY <1>d, <3>1, Zenon DEF Length
      <3> QED BY <1>7, <3>2
    <2>2. CASE w # 0
      <3>1. data # <<>> /\ Len(s) = w
        BY <1>1, <1>2, <1>7, <2>2
      <3>2. Length(pdu) = Header(w) + Sums(s)[w]
        BY <1>d, <1>s, <1>2, <3>1, Zenon DEF Length, Total
      <3>3. Length(pdu) = Header(w) + Sums(Lens(q))[w]
        BY <1>5, <3>2, Zenon
      <3>4. Header(w) + Sums(Lens(q))[w] <= room /\ Header(w) \in Nat
        BY <1>1, <2>2, FitsFacts, HeaderFacts, Zenon
      <3> QED BY <1>3, <1>7, <3>3, <3>4
    <2> QED BY <2>1, <2>2
  <1> QED BY <1>6, <1>7

\* The part of a packet that is sent is not all of it: it would have fit whole.
LEMMA RestFacts ==
    ASSUME NEW q \in Seq(RlcPacket), GoodQueue(q), NEW room \in Int, NEW w, w = Max(Fits(q, room)),
           IsCut(q, room, w)
    PROVE  /\ w \in Nat /\ w + 1 \in 1..Len(q)
           /\ Rest(q, room, w) \in Nat /\ Rest(q, room, w) > 0 /\ Rest(q, room, w) < Left(q[w + 1])
  <1>1. w \in 0..Len(q) /\ Len(q) \in Nat
    BY FitsFacts
  <1>2. Rest(q, room, w) = room - Header(w + 1) - Sums(Lens(q))[w] /\ w < Len(q) /\ Rest(q, room, w) > 0
    BY Zenon DEF IsCut, Rest
  <1>3. w \in Nat /\ w + 1 \in 1..Len(q) /\ w + 1 \in 0..Len(q) /\ (w + 1) - 1 = w /\ ~ (w + 1 <= w) /\ w + 1 # 0
        /\ w + 1 \in Nat
    BY <1>1, <1>2
  <1>4. w + 1 \notin Fits(q, room)
    <2>1. Fits(q, room) \in SUBSET (0..Len(q))
      BY Zenon DEF Fits
    <2> QED BY <1>1, <1>3, <2>1, Largest, Zenon
  <1>5. ~ (Header(w + 1) + Sums(Lens(q))[w + 1] <= room)
    BY <1>3, <1>4, Zenon DEF Fits
  <1>6. Sums(Lens(q))[w + 1] = Sums(Lens(q))[w] + Left(q[w + 1])
    <2>1. Lens(q) \in Seq(Int) /\ Len(Lens(q)) = Len(q) /\ Lens(q)[w + 1] = Left(q[w + 1])
      BY <1>3, LensFacts, Zenon
    <2> QED BY <1>3, <2>1, SumsFacts, Zenon
  <1>7. /\ Sums(Lens(q))[w] \in Nat /\ Sums(Lens(q))[w + 1] \in Nat
        /\ Header(w + 1) \in Nat /\ Left(q[w + 1]) \in Nat
    BY <1>1, <1>3, LensFacts, HeaderFacts, Zenon
  <1>8. Rest(q, room, w) \in Nat /\ Rest(q, room, w) < Left(q[w + 1])
    BY <1>2, <1>5, <1>6, <1>7
  <1> QED BY <1>2, <1>3, <1>8, Zenon

\* s is q without its first w elements.
WithoutFirst(q, w, s) ==
    Len(s) = Len(q) - w /\ Len(s) \in Nat /\ \A i \in 1..Len(s) : s[i] = q[w + i]

LEMMA SubSeqFacts ==
    ASSUME NEW S, NEW q \in Seq(S), NEW w \in Nat, w <= Len(q), NEW s, s = SubSeq(q, w + 1, Len(q))
    PROVE  s \in Seq(S) /\ WithoutFirst(q, w, s)
  <1>1. Len(q) \in Nat /\ \A i \in 1..Len(q) : q[i] \in S
    OBVIOUS
  <1>2. s = [i \in 1..(Len(q) - w) |-> q[i + w]]
    BY <1>1
  <1>3. \A i \in 1..(Len(q) - w) : i + w \in 1..Len(q) /\ i + w = w + i
    BY <1>1
  <1>4. s \in [1..(Len(q) - w) -> S] /\ \A i \in 1..(Len(q) - w) : s[i] = q[w + i]
    BY <1>1, <1>2, <1>3, Zenon
  <1>5. Len(q) - w \in Nat
    BY <1>1
  <1>6. s \in Seq(S) /\ Len(s) = Len(q) - w
    BY <1>4, <1>5
  <1> QED BY <1>4, <1>5, <1>6, Zenon DEF WithoutFirst

\* The first packet of a queue was sent in part.
CutIn(q) == q # <<>> /\ Head(q).sent > 0

\* What is left in the RLC entity: only the first packet may be sent in part; it
\* is if it was cut, and if the PDU has data but no packet is cut, it is not.
LEMMA LeftFacts ==
    ASSUME NEW q \in Seq(RlcPacket), GoodQueue(q), q # <<>>, NEW room \in Int, NEW w, w = Max(Fits(q, room)),
           NEW left, left = LeftOf(q, room, w)
    PROVE  /\ left \in Seq(RlcPacket) /\ GoodQueue(left)
           /\ IsCut(q, room, w) => CutIn(left)
           /\ ~IsCut(q, room, w) /\ w # 0 /\ left # <<>> => Head(left).sent = 0
  <1>1. w \in Nat /\ w <= Len(q) /\ Len(q) \in Nat
    <2>1. w \in 0..Len(q) /\ Len(q) \in Nat
      BY FitsFacts
    <2> QED BY <2>1
  <1>s. PICK s : s = SubSeq(q, w + 1, Len(q))
    BY Zenon
  <1>2. s \in Seq(RlcPacket) /\ Len(s) = Len(q) - w /\ Len(s) \in Nat /\ \A i \in 1..Len(s) : s[i] = q[w + i]
    <2>1. s \in Seq(RlcPacket) /\ WithoutFirst(q, w, s)
      BY <1>1, <1>s, SubSeqFacts, Zenon
    <2> QED BY <2>1, Zenon DEF WithoutFirst
  <1>3. ASSUME NEW i \in 1..Len(s)
        PROVE  /\ w + i \in 1..Len(q) /\ q[w + i].sent \in 0..(q[w + i].size - 1)
               /\ (i > 1 \/ w # 0 => q[w + i].sent = 0)
    <2>1. w + i \in 1..Len(q) /\ (i > 1 \/ w # 0 => w + i > 1)
      BY <1>1, <1>2
    <2> QED BY <2>1, Zenon DEF GoodQueue
  <1>4. CASE ~IsCut(q, room, w)
    <2>1. left = s
      BY <1>s, <1>4, Zenon DEF LeftOf
    <2>2. GoodQueue(s)
      BY <1>2, <1>3, Zenon DEF GoodQueue
    <2>3. ASSUME w # 0, s # <<>> PROVE Head(s).sent = 0
      <3>1. 1 \in 1..Len(s) /\ Head(s) = s[1]
        BY <1>2, <2>3
      <3> QED BY <1>2, <1>3, <2>3, <3>1, Zenon
    <2> QED BY <1>2, <1>4, <2>1, <2>2, <2>3, Zenon
  <1>5. CASE IsCut(q, room, w)
    <2>1. w + 1 \in 1..Len(q) /\ Rest(q, room, w) \in Nat /\ Rest(q, room, w) > 0 /\ Rest(q, room, w) < Left(q[w + 1])
      BY <1>5, RestFacts, Zenon
    <2>2. 1 \in 1..Len(s)
      BY <1>1, <1>2, <2>1
    <2>x. PICK x : x = [s[1] EXCEPT !.sent = s[1].sent + Rest(q, room, w)]
      BY Zenon
    <2>3. s[1] = q[w + 1]
      BY <1>2, <2>2, Zenon
    <2>4. s[1] \in RlcPacket /\ s[1].sent \in Nat /\ s[1].size \in Nat /\ Left(q[w + 1]) = s[1].size - s[1].sent
      BY <2>1, <2>3, PacketFacts, Zenon
    <2>5. s[1].sent + Rest(q, room, w) \in Nat /\ s[1].sent + Rest(q, room, w) \in 0..(s[1].size - 1)
      <3>1. \A a, z, v \in Nat : v > 0 /\ v < z - a => a + v \in Nat /\ a + v \in 0..(z - 1)
        OBVIOUS
      <3>2. Rest(q, room, w) < s[1].size - s[1].sent
        BY <2>1, <2>4, Zenon
      <3> QED BY <2>1, <2>4, <3>1, <3>2, Zenon
    <2>6. x \in RlcPacket /\ x.sent \in 0..(x.size - 1)
      <3>1. ASSUME NEW y \in RlcPacket, NEW v \in Nat, NEW z, z = [y EXCEPT !.sent = v]
            PROVE  z \in RlcPacket /\ z.sent = v /\ z.size = y.size
        BY <3>1 DEF RlcPacket
      <3>2. x \in RlcPacket /\ x.sent = s[1].sent + Rest(q, room, w) /\ x.size = s[1].size
        BY <2>x, <2>4, <2>5, <3>1
      <3> QED BY <2>5, <3>2, Zenon
    <2>7. left = [s EXCEPT ![1] = x]
      BY <1>s, <1>5, <2>x, Zenon DEF LeftOf
    <2>8. s \in [1..Len(s) -> RlcPacket]
      BY <1>2
    <2>9. left \in [1..Len(s) -> RlcPacket] /\ left[1] = x /\ \A i \in 1..Len(s) : i # 1 => left[i] = s[i]
      BY <2>2, <2>6, <2>7, <2>8, Zenon
    <2>10. left \in Seq(RlcPacket) /\ Len(left) = Len(s)
      BY <1>2, <2>9
    <2>11. ASSUME NEW i \in 1..Len(left)
           PROVE  left[i].sent \in 0..(left[i].size - 1) /\ (i > 1 => left[i].sent = 0)
      <3>1. CASE i = 1
        <4>1. ~(1 > 1)
          OBVIOUS
        <4> QED BY <2>6, <2>9, <3>1, <4>1, Zenon
      <3>2. CASE i # 1
        <4>1. i \in 1..Len(s) /\ left[i] = q[w + i]
          BY <1>2, <2>9, <2>10, <3>2, Zenon
        <4> QED BY <1>3, <4>1, Zenon
      <3> QED BY <3>1, <3>2
    <2>12. CutIn(left)
      <3>1. left # <<>> /\ Head(left) = left[1]
        BY <2>2, <2>10
      <3>2. \A a, v \in Nat : v > 0 => a + v > 0
        OBVIOUS
      <3>3. x.sent = s[1].sent + Rest(q, room, w)
        BY <2>4, <2>5, <2>x DEF RlcPacket
      <3>4. x.sent > 0
        BY <2>1, <2>4, <3>2, <3>3, Zenon
      <3> QED BY <2>9, <3>1, <3>4, Zenon DEF CutIn
    <2> QED BY <1>5, <2>10, <2>11, <2>12, Zenon DEF GoodQueue
  <1> QED BY <1>4, <1>5

\* What a poll of an RLC entity that has data gives.
PolledOk(b, room, pdu, left) ==
    /\ pdu \in Pdu /\ pdu.lcid = b
    /\ left \in Seq(RlcPacket) /\ GoodQueue(left)
    /\ Length(pdu) \in Nat /\ Length(pdu) <= room
    /\ pdu.data # <<>> => \/ pdu.fi % 2 = 1 /\ Length(pdu) = room /\ CutIn(left)
                          \/ pdu.fi % 2 = 0 /\ (left # <<>> => Head(left).sent = 0)

LEMMA RlcPduFacts ==
    ASSUME NEW b \in Bearer, NEW q \in Seq(RlcPacket), GoodQueue(q), q # <<>>,
           NEW room \in Int, room > 0
    PROVE  PolledOk(b, room, RlcPdu(b, q, room).pdu, RlcPdu(b, q, room).left)
  <1>w. PICK w : w = Max(Fits(q, room))
    BY Zenon
  <1>p. PICK pdu : pdu = PduOf(b, q, room, w)
    BY Zenon
  <1>l. PICK left : left = LeftOf(q, room, w)
    BY Zenon
  <1>1. RlcPdu(b, q, room) = [pdu |-> pdu, left |-> left]
    BY <1>w, <1>p, <1>l, RlcPduParts, Zenon
  <1>2. RlcPdu(b, q, room).pdu = pdu /\ RlcPdu(b, q, room).left = left
    BY <1>1
  <1>3. /\ left \in Seq(RlcPacket) /\ GoodQueue(left)
        /\ IsCut(q, room, w) => CutIn(left)
        /\ ~IsCut(q, room, w) /\ w # 0 /\ left # <<>> => Head(left).sent = 0
    BY <1>w, <1>l, LeftFacts, Zenon
  <1>4. /\ Length(pdu) \in Nat /\ Length(pdu) <= room
        /\ IsCut(q, room, w) => Length(pdu) = room
    BY <1>w, <1>p, LengthFacts
  <1>d. PICK data : data = PduOf(b, q, room, w).data
    BY Zenon
  <1>5. data \in Seq(DataField) /\ (~IsCut(q, room, w) => Len(data) = w)
    BY <1>w, <1>d, DataFacts
  <1>f. PICK x \in {0, 2}, y \in {0, 1} :
           /\ x = IF Head(q).sent > 0 THEN 2 ELSE 0
           /\ y = IF IsCut(q, room, w) THEN 1 ELSE 0
    OBVIOUS
  <1>6. pdu.fi = x + y /\ pdu.lcid = b /\ pdu.data = data /\ pdu = [lcid |-> b, fi |-> x + y, data |-> data]
    BY <1>p, <1>d, <1>f DEF PduOf
  <1>7. pdu \in Pdu
    <2>1. x + y \in 0..3
      BY <1>f
    <2>2. ASSUME NEW v \in 0..3 PROVE [lcid |-> b, fi |-> v, data |-> data] \in Pdu
      BY <1>5, Zenon DEF Pdu
    <2> QED BY <1>6, <2>1, <2>2, Zenon
  <1>8. (IsCut(q, room, w) => pdu.fi % 2 = 1) /\ (~IsCut(q, room, w) => pdu.fi % 2 = 0)
    <2>1. (IsCut(q, room, w) => y = 1) /\ (~IsCut(q, room, w) => y = 0)
      BY <1>f, Zenon
    <2>2. pdu.fi = x + y
      BY <1>6, Zenon
    <2> QED BY <1>f, <2>1, <2>2
  <1>9. ~IsCut(q, room, w) /\ data # <<>> => w # 0
    BY <1>5
  <1>10. PolledOk(b, room, pdu, left)
    BY <1>3, <1>4, <1>6, <1>7, <1>8, <1>9, Zenon DEF PolledOk
  <1> QED BY <1>2, <1>10, Zenon
-----------------------------------------------------------------------------
(***************************************************************************)
(* Polls.                                                                  *)
(***************************************************************************)
Got == [header_length_total : Int, header_length_last : Int, sdu_length_total : Int,
        srb : Seq(Int), pdus : Seq(Pdu), queue : [Bearer -> Seq(RlcPacket)]]

GoodGot == {g \in Got : \A b \in Bearer : GoodQueue(g.queue[b])}

\* g2 is g after an SDU of len bytes.
Counted(g, g2, len) ==
    /\ g2.header_length_total = g.header_length_total + SubheaderLen(len)
    /\ g2.header_length_last = SubheaderLen(len)
    /\ g2.sdu_length_total = g.sdu_length_total + len

WithSdu(g, len, s, pdus, q) ==
    [[[Count(g, len) EXCEPT !.srb = s] EXCEPT !.pdus = pdus] EXCEPT !.queue = q]

GotRecord(total, last, sdus, s, pdus, q) ==
    [header_length_total |-> total, header_length_last |-> last, sdu_length_total |-> sdus,
     srb |-> s, pdus |-> pdus, queue |-> q]

LEMMA RecordFacts ==
    ASSUME NEW total, NEW last, NEW sdus, NEW s, NEW pdus, NEW q,
           NEW g, g = GotRecord(total, last, sdus, s, pdus, q)
    PROVE  /\ g.header_length_total = total /\ g.header_length_last = last
           /\ g.sdu_length_total = sdus /\ g.srb = s /\ g.pdus = pdus /\ g.queue = q
  BY DEF GotRecord

LEMMA CountFacts ==
    ASSUME NEW g \in Got, NEW len \in Int, NEW s \in Seq(Int), NEW pdus \in Seq(Pdu),
           NEW q \in [Bearer -> Seq(RlcPacket)]
    PROVE  LET g2 == WithSdu(g, len, s, pdus, q)
           IN  g2 \in Got /\ Counted(g, g2, len) /\ g2.srb = s /\ g2.pdus = pdus /\ g2.queue = q
  <1>2. PICK g2 : g2 = WithSdu(g, len, s, pdus, q)
    BY Zenon
  <1>l. PICK l \in Int : l = SubheaderLen(len)
    BY DEF SubheaderLen
  <1>a. PICK a : a = g.header_length_total + l
    BY Zenon
  <1>c. PICK c : c = g.sdu_length_total + len
    BY Zenon
  <1>3. WithSdu(g, len, s, pdus, q) = GotRecord(a, l, c, s, pdus, q)
    <2>1. g2 = [header_length_total |-> g.header_length_total + l, header_length_last |-> l,
                sdu_length_total |-> g.sdu_length_total + len, srb |-> s, pdus |-> pdus, queue |-> q]
      BY <1>2, <1>l DEF Got, Count, WithSdu
    <2> QED BY <1>2, <1>a, <1>c, <2>1, Zenon DEF GotRecord
  <1>4. a \in Int /\ c \in Int
    <2>1. g.header_length_total \in Int /\ g.sdu_length_total \in Int
      BY DEF Got
    <2> QED BY <1>a, <1>c, <2>1
  <1>5. GotRecord(a, l, c, s, pdus, q) \in Got
    BY <1>4 DEF Got, GotRecord
  <1>6. /\ g2.header_length_total = a /\ g2.header_length_last = l
        /\ g2.sdu_length_total = c /\ g2.srb = s /\ g2.pdus = pdus /\ g2.queue = q
    <2>1. g2 = GotRecord(a, l, c, s, pdus, q)
      BY <1>2, <1>3, Zenon
    <2> QED BY <2>1, RecordFacts
  <1>7. g2 \in Got /\ Counted(g, g2, len)
    BY <1>2, <1>3, <1>5, <1>6, <1>l, <1>a, <1>c, Zenon DEF Counted
  <1> QED BY <1>2, <1>6, <1>7, Zenon

LEMMA GotFacts ==
    ASSUME NEW g \in GoodGot
    PROVE  /\ g \in Got /\ g.header_length_total \in Int /\ g.header_length_last \in Int
           /\ g.sdu_length_total \in Int
           /\ g.srb \in Seq(Int) /\ g.pdus \in Seq(Pdu) /\ g.queue \in [Bearer -> Seq(RlcPacket)]
           /\ \A b \in Bearer : GoodQueue(g.queue[b])
  BY Zenon DEF GoodGot, Got

\* DCCH and DCCH1: the queues of the other bearers stay.
LEMMA PollSrbFacts ==
    ASSUME NEW g \in GoodGot, NEW len \in Nat, NEW tbs \in Int, NEW ta_len \in Int,
           NEW g2, g2 = PollSrb(g, len, tbs, ta_len)
    PROVE  g2 \in GoodGot /\ g2.pdus = g.pdus /\ g2.queue = g.queue
  <1>1. CASE g2 = g
    BY <1>1, Zenon
  <1>2. CASE g2 # g
    <2>r. PICK room \in Int : room = Room(g, tbs, ta_len)
      <3>1. g.header_length_total \in Int /\ g.sdu_length_total \in Int
        BY GotFacts, Zenon
      <3> QED BY <3>1 DEF Room
    <2>l. PICK l \in Int : l = IF len < room THEN len ELSE room
      OBVIOUS
    <2>1. g2 = [Count(g, l) EXCEPT !.srb = Append(@, l)]
      BY <1>2, <2>r, <2>l, Zenon DEF PollSrb
    <2>2. /\ g \in Got /\ g.srb \in Seq(Int) /\ g.pdus \in Seq(Pdu)
          /\ g.queue \in [Bearer -> Seq(RlcPacket)]
      BY GotFacts, Zenon
    <2>s. PICK s : s = Append(g.srb, l)
      BY Zenon
    <2>3. s \in Seq(Int)
      BY <2>2, <2>s
    <2>4. g2 = WithSdu(g, l, s, g.pdus, g.queue)
      BY <2>1, <2>2, <2>s DEF Got, Count, WithSdu
    <2>5. g2 \in Got /\ g2.pdus = g.pdus /\ g2.queue = g.queue
      BY <2>2, <2>3, <2>4, CountFacts
    <2> QED BY <2>5, GotFacts, Zenon DEF GoodGot
  <1> QED BY <1>1, <1>2

\* A DTCH: nothing happens, or its RLC entity gives a PDU.
NotPolled(g, b, room) == b \notin Bearer \/ ~(room > 0) \/ g.queue[b] = <<>>

Polled(g, g2, b, room, pdu, left) ==
    /\ b \in Bearer /\ room > 0 /\ g.queue[b] # <<>> /\ PolledOk(b, room, pdu, left)
    /\ g2.srb = g.srb /\ g2.pdus = Append(g.pdus, pdu) /\ g2.queue = [g.queue EXCEPT ![b] = left]
    /\ Counted(g, g2, Length(pdu))

LEMMA RoomType ==
    ASSUME NEW g \in GoodGot, NEW tbs \in Int, NEW ta_len \in Int
    PROVE  Room(g, tbs, ta_len) \in Int
  <1>1. g.header_length_total \in Int /\ g.sdu_length_total \in Int
    BY GotFacts, Zenon
  <1> QED BY <1>1 DEF Room

LEMMA PollDtchFacts ==
    ASSUME NEW g \in GoodGot, NEW b, NEW tbs \in Int, NEW ta_len \in Int
    PROVE  LET g2 == PollDtch(g, b, tbs, ta_len)
               room == Room(g, tbs, ta_len)
           IN  /\ g2 \in GoodGot
               /\ \/ NotPolled(g, b, room) /\ g2 = g
                  \/ \E pdu, left : Polled(g, g2, b, room, pdu, left)
  <1>g. PICK g2 : g2 = PollDtch(g, b, tbs, ta_len)
    BY Zenon
  <1>r. PICK room \in Int : room = Room(g, tbs, ta_len)
    BY RoomType
  <1>1. CASE NotPolled(g, b, room)
    <2>1. g2 = g
      BY <1>g, <1>r, <1>1, Zenon DEF PollDtch, NotPolled
    <2> QED BY <1>g, <1>r, <1>1, <2>1, Zenon
  <1>2. CASE ~NotPolled(g, b, room)
    <2>1. b \in Bearer /\ room > 0 /\ g.queue[b] # <<>>
      BY <1>2, Zenon DEF NotPolled
    <2>q. PICK q : q = g.queue[b]
      BY Zenon
    <2>2. /\ g \in Got /\ g.srb \in Seq(Int) /\ g.pdus \in Seq(Pdu)
          /\ g.queue \in [Bearer -> Seq(RlcPacket)]
          /\ q \in Seq(RlcPacket) /\ GoodQueue(q) /\ q # <<>>
      BY <2>1, <2>q, GotFacts, Zenon
    <2>p. PICK pdu, left : pdu = RlcPdu(b, q, room).pdu /\ left = RlcPdu(b, q, room).left
      OBVIOUS
    <2>3. PolledOk(b, room, pdu, left)
      BY <2>1, <2>2, <2>p, RlcPduFacts, Zenon
    <2>4. pdu \in Pdu /\ left \in Seq(RlcPacket) /\ GoodQueue(left) /\ Length(pdu) \in Int
      <3>1. pdu \in Pdu /\ left \in Seq(RlcPacket) /\ GoodQueue(left) /\ Length(pdu) \in Nat
        BY <2>3, Zenon DEF PolledOk
      <3> QED BY <3>1
    <2>5. g2 = [Count(g, Length(pdu)) EXCEPT !.pdus = Append(@, pdu), !.queue[b] = left]
      BY <1>g, <1>r, <2>1, <2>q, <2>p, Zenon DEF PollDtch
    <2>s. PICK pdus : pdus = Append(g.pdus, pdu)
      BY Zenon
    <2>t. PICK qs : qs = [g.queue EXCEPT ![b] = left]
      BY Zenon
    <2>6. pdus \in Seq(Pdu) /\ qs \in [Bearer -> Seq(RlcPacket)]
      <3>1. pdus \in Seq(Pdu)
        BY <2>2, <2>4, <2>s
      <3>2. qs \in [Bearer -> Seq(RlcPacket)]
        BY <2>2, <2>4, <2>t, Zenon
      <3> QED BY <3>1, <3>2
    <2>7. g2 = WithSdu(g, Length(pdu), g.srb, pdus, qs)
      BY <2>2, <2>5, <2>s, <2>t DEF Got, Count, WithSdu
    <2>8. g2 \in Got /\ Counted(g, g2, Length(pdu)) /\ g2.srb = g.srb /\ g2.pdus = pdus /\ g2.queue = qs
      BY <2>2, <2>4, <2>6, <2>7, CountFacts, SMTT(60)
    <2>9. \A c \in Bearer : GoodQueue(qs[c])
      <3>1. \A c \in Bearer : qs[c] = IF c = b THEN left ELSE g.queue[c]
        BY <2>2, <2>t, Zenon
      <3> QED BY <2>4, <3>1, GotFacts, Zenon
    <2>10. g2 \in GoodGot
      BY <2>8, <2>9, Zenon DEF GoodGot
    <2>11. Polled(g, g2, b, room, pdu, left)
      BY <2>1, <2>3, <2>8, <2>s, <2>t, Zenon DEF Polled
    <2> QED BY <1>g, <1>r, <2>10, <2>11, Zenon
  <1> QED BY <1>1, <1>2

(***************************************************************************)
(* The loops.                                                              *)
(***************************************************************************)
LEMMA GrantFacts ==
    ASSUME NEW grant \in Grants
    PROVE  /\ grant.ta_len \in Int /\ grant.srb \in Seq(Nat)
           /\ get_TBS_DL(Mcs1, grant.available) \in Int
  <1>1. grant \in [available : Nat \ {0}, ta_len : {0, 2}, srb : Seq(Nat)]
    BY BoundAssumption, Zenon
  <1>2. grant.ta_len \in {0, 2} /\ grant.srb \in Seq(Nat) /\ get_TBS_DL(Mcs1, grant.available) \in Nat
    BY <1>1, BoundAssumption, Zenon
  <1> QED BY <1>2

LEMMA NoPollsFacts ==
    ASSUME TypeOK
    PROVE  NoPolls \in GoodGot /\ NoPolls.pdus = <<>> /\ NoPolls.queue = queue
  <1>1. queue \in [Bearer -> Seq(RlcPacket)] /\ \A b \in Bearer : GoodQueue(queue[b])
    <2>1. queue \in [Bearer -> Seq(RlcPacket)]
      BY Zenon DEF TypeOK
    <2>2. ASSUME NEW b \in Bearer PROVE DOMAIN queue[b] = 1..Len(queue[b])
      <3>1. queue[b] \in Seq(RlcPacket)
        BY <2>1, Zenon
      <3> QED BY <3>1
    <2> QED BY <2>1, <2>2, Zenon DEF TypeOK, GoodQueue
  <1>g. PICK g : g = NoPolls
    BY Zenon
  <1>2. g = GotRecord(0, 0, 0, <<>>, <<>>, queue)
    BY <1>g, Zenon DEF NoPolls, GotRecord
  <1>3. g.pdus = <<>> /\ g.queue = queue
    BY <1>2, RecordFacts
  <1>4. g \in Got
    BY <1>1, <1>2 DEF Got, GotRecord
  <1> QED BY <1>1, <1>3, <1>4, <1>g, Zenon DEF GoodGot

\* DCCH and DCCH1.
LEMMA PollSrbsFacts ==
    ASSUME TypeOK, NEW grant \in Grants, NEW tbs \in Int
    PROVE  /\ PollSrbs(grant, tbs) \in GoodGot
           /\ PollSrbs(grant, tbs).pdus = <<>> /\ PollSrbs(grant, tbs).queue = queue
  <1>n. PICK n \in Nat : n = Len(grant.srb)
    BY GrantFacts
  <1>0. grant.ta_len \in Int /\ \A i \in 1..n : grant.srb[i] \in Nat
    <2>1. grant.ta_len \in Int /\ grant.srb \in Seq(Nat)
      BY GrantFacts, Zenon
    <2> QED BY <1>n, <2>1
  <1> DEFINE S == {g \in GoodGot : g.pdus = <<>> /\ g.queue = queue}
             Step(i, g) == PollSrb(g, grant.srb[i], tbs, grant.ta_len)
             F == [i \in 1..n |-> [g \in S |-> Step(i, g)]]
  <1>1. \A i \in 1..n : \A g \in S : Step(i, g) \in S
    <2> SUFFICES ASSUME NEW i \in 1..n, NEW g \in S PROVE Step(i, g) \in S
      OBVIOUS
    <2>x. PICK x : x = Step(i, g)
      BY Zenon
    <2>1. x \in GoodGot /\ x.pdus = g.pdus /\ x.queue = g.queue
      <3>1. g \in GoodGot /\ grant.srb[i] \in Nat /\ x = PollSrb(g, grant.srb[i], tbs, grant.ta_len)
        BY <1>0, <2>x, Zenon
      <3> QED BY <1>0, <3>1, PollSrbFacts
    <2> QED BY <2>1, <2>x, Zenon
  <1>2. NoPolls \in S
    BY NoPollsFacts, Zenon
  <1> HIDE DEF S, Step
  <1>3. F \in [1..n -> [S -> S]] /\ \A i \in 1..n : \A g \in S : F[i][g] = Step(i, g)
    BY <1>1, Zenon
  <1> HIDE DEF F
  <1>4. PICK g \in [0..n -> S] : Computes(g, n, NoPolls, F)
    BY <1>2, <1>3, Recursion, Zenon
  <1>5. g[0] = NoPolls /\ \A i \in 1..n : g[i] = Step(i, g[i - 1])
    <2>1. \A i \in 1..n : g[i - 1] \in S
      BY <1>4
    <2> QED BY <1>3, <1>4, <2>1, Zenon DEF Computes
  <1>6. g = [i \in 0..n |-> IF i = 0 THEN NoPolls ELSE Step(i, g[i - 1])]
    <2>1. ASSUME NEW i \in 0..n PROVE g[i] = IF i = 0 THEN NoPolls ELSE Step(i, g[i - 1])
      <3>1. i # 0 => i \in 1..n
        OBVIOUS
      <3> QED BY <1>5, <3>1, Zenon
    <2> QED BY <1>4, <2>1, Zenon
  <1> DEFINE f == CHOOSE h : h = [i \in 0..n |-> IF i = 0 THEN NoPolls ELSE Step(i, h[i - 1])]
  <1>7. PollSrbs(grant, tbs) = f[n]
    BY <1>n, Zenon DEF PollSrbs, Step
  <1>8. f = [i \in 0..n |-> IF i = 0 THEN NoPolls ELSE Step(i, f[i - 1])]
    BY <1>6, Zenon
  <1> HIDE DEF f
  <1>9. f[0] \in S /\ \A i \in 1..n : f[i] = Step(i, f[i - 1])
    <2>1. 0 \in 0..n /\ \A i \in 1..n : i \in 0..n /\ i # 0
      OBVIOUS
    <2> QED BY <1>2, <1>8, <2>1, Zenon
  <1>10. f[n] \in S
    <2> DEFINE Q == {i \in 0..n : f[i] \in S}
    <2>1. 0 \in 0..n /\ n \in 0..n /\ \A i \in 1..n : i \in 0..n
      OBVIOUS
    <2>2. 0 \in Q
      BY <1>9, <2>1, Zenon
    <2>3. ASSUME NEW i \in 1..n, i - 1 \in Q PROVE i \in Q
      BY <1>1, <1>9, <2>1, <2>3, Zenon
    <2>4. \A i \in 0..n : i \in Q
      <3> HIDE DEF Q
      <3> QED BY <2>2, <2>3, Induction, Zenon
    <2> QED BY <2>1, <2>4, Zenon
  <1> QED BY <1>7, <1>10, Zenon DEF S

\* The polls of the DTCHs, one after the other: the results are functions of the
\* index in prio2lcid_array, and the last is the result of the loop.
DtchPolls(f, grant, tbs) ==
    /\ f[0] = PollSrbs(grant, tbs)
    /\ \A i \in 1..11 : f[i] = PollDtch(f[i - 1], prio2lcid_array(t)[i], tbs, grant.ta_len)
    /\ f[11] = PollDtchs(grant, tbs)

LEMMA PollDtchsFacts ==
    ASSUME TypeOK, NEW grant \in Grants, NEW tbs \in Int
    PROVE  \E f : DtchPolls(f, grant, tbs) /\ \A i \in 0..11 : f[i] \in GoodGot
  <1>n. PICK n \in Nat : n = NB_RB_MAX - DTCH /\ n = 11
    BY DEF NB_RB_MAX, DTCH
  <1>0. grant.ta_len \in Int
    BY GrantFacts, Zenon
  <1>b. PICK base : base = PollSrbs(grant, tbs)
    BY Zenon
  <1> DEFINE Step(i, g) == PollDtch(g, prio2lcid_array(t)[i], tbs, grant.ta_len)
             F == [i \in 1..n |-> [g \in GoodGot |-> Step(i, g)]]
  <1>1. \A i \in 1..n : \A g \in GoodGot : Step(i, g) \in GoodGot
    BY <1>0, PollDtchFacts, Zenon
  <1>2. base \in GoodGot
    BY <1>b, PollSrbsFacts, Zenon
  <1> HIDE DEF Step
  <1>3. F \in [1..n -> [GoodGot -> GoodGot]] /\ \A i \in 1..n : \A g \in GoodGot : F[i][g] = Step(i, g)
    BY <1>1, Zenon
  <1> HIDE DEF F
  <1>4. PICK g \in [0..n -> GoodGot] : Computes(g, n, base, F)
    BY <1>2, <1>3, Recursion, Zenon
  <1>5. g[0] = base /\ \A i \in 1..n : g[i] = Step(i, g[i - 1])
    <2>1. \A i \in 1..n : g[i - 1] \in GoodGot
      BY <1>4
    <2> QED BY <1>3, <1>4, <2>1, Zenon DEF Computes
  <1>6. g = [i \in 0..n |-> IF i = 0 THEN base ELSE Step(i, g[i - 1])]
    <2>1. ASSUME NEW i \in 0..n PROVE g[i] = IF i = 0 THEN base ELSE Step(i, g[i - 1])
      <3>1. i # 0 => i \in 1..n
        OBVIOUS
      <3> QED BY <1>5, <3>1, Zenon
    <2> QED BY <1>4, <2>1, Zenon
  <1> DEFINE f == CHOOSE h : h = [i \in 0..n |-> IF i = 0 THEN base ELSE Step(i, h[i - 1])]
  <1>7. PollDtchs(grant, tbs) = f[n]
    BY <1>n, <1>b, Zenon DEF PollDtchs, Step
  <1>8. f = [i \in 0..n |-> IF i = 0 THEN base ELSE Step(i, f[i - 1])]
    BY <1>6, Zenon
  <1> HIDE DEF f
  <1>9. f[0] = base /\ \A i \in 1..n : f[i] = Step(i, f[i - 1])
    <2>1. 0 \in 0..n /\ \A i \in 1..n : i \in 0..n /\ i # 0
      OBVIOUS
    <2> QED BY <1>8, <2>1, Zenon
  <1>10. \A i \in 0..n : f[i] \in GoodGot
    <2> DEFINE Q == {i \in 0..n : f[i] \in GoodGot}
    <2>1. 0 \in 0..n /\ n \in 0..n /\ \A i \in 1..n : i \in 0..n
      OBVIOUS
    <2>2. 0 \in Q
      BY <1>2, <1>9, <2>1, Zenon
    <2>3. ASSUME NEW i \in 1..n, i - 1 \in Q PROVE i \in Q
      BY <1>1, <1>9, <2>1, <2>3, Zenon
    <2>4. \A i \in 0..n : i \in Q
      <3> HIDE DEF Q
      <3> QED BY <2>2, <2>3, Induction, Zenon
    <2> QED BY <2>4, Zenon
  <1>11. DtchPolls(f, grant, tbs)
    BY <1>n, <1>b, <1>7, <1>9, Zenon DEF DtchPolls, Step
  <1> QED BY <1>n, <1>10, <1>11, Zenon
-----------------------------------------------------------------------------
(***************************************************************************)
(* Cut packets.  While the bearers are polled: nothing of a DTCH has been  *)
(* polled yet, or a PDU is empty, or the last PDU ends with a packet, or   *)
(* with a part of one.  In the last case there is no room for any other.   *)
(***************************************************************************)
LastPdu(g) == g.pdus[Len(g.pdus)]

EmptyPdu(g) == \E k \in 1..Len(g.pdus) : g.pdus[k].data = <<>>

NothingPolled(g, i, room) ==
    /\ g.pdus = <<>> /\ g.queue = queue
    /\ i >= 7 /\ (\E b \in Dedicated : CutIn(queue[b])) => ~(room > 0)

EndsWhole(g) ==
    /\ g.pdus # <<>> /\ LastPdu(g).data # <<>> /\ LastPdu(g).fi % 2 = 0
    /\ \A b \in Dedicated : ~CutIn(g.queue[b])

EndsCut(g, room) ==
    /\ g.pdus # <<>> /\ LastPdu(g).data # <<>> /\ LastPdu(g).fi % 2 = 1 /\ ~(room > 0)
    /\ \A b \in Dedicated : CutIn(g.queue[b]) => b = LastPdu(g).lcid

PollInv(g, i, room) ==
    NothingPolled(g, i, room) \/ EmptyPdu(g) \/ EndsWhole(g) \/ EndsCut(g, room)

\* If the last PDU ends with a part of a packet, the rest is first in its queue.
CutIsLeft(g) ==
    IF g.pdus = <<>> THEN g.queue = queue
    ELSE LastPdu(g).data # <<>> /\ LastPdu(g).fi % 2 = 1 => CutIn(g.queue[LastPdu(g).lcid])

Remembered == \A b \in Dedicated : CutIn(queue[b]) => fi_ind = b

\* The order of the polls: the first six are of no bearer, the next of the one
\* whose packet was cut.
LEMMA OrderFacts ==
    ASSUME NEW i \in 1..11
    PROVE  /\ i < 7 => prio2lcid_array(t)[i] \notin Bearer
           /\ i = 7 /\ fi_ind \in Dedicated => prio2lcid_array(t)[i] = fi_ind
           /\ i = 7 /\ fi_ind \notin Dedicated => prio2lcid_array(t)[i] \notin Dedicated
  <1>1. CASE i = 7
    BY <1>1 DEF prio2lcid_array, Bearer, Dedicated, DTCH
  <1>2. CASE i < 7
    <2>1. i = 1 \/ i = 2 \/ i = 3 \/ i = 4 \/ i = 5 \/ i = 6
      BY <1>2
    <2> QED BY <1>2, <2>1 DEF prio2lcid_array, Bearer, Dedicated, DTCH
  <1>3. CASE ~(i < 7) /\ i # 7
    BY <1>3
  <1> QED BY <1>1, <1>2, <1>3

\* A poll that gives a PDU, when no other bearer has a packet that was cut.
LEMMA PolledStep ==
    ASSUME NEW g \in GoodGot, NEW g2, NEW b, NEW tbs \in Int, NEW ta_len \in Int,
           NEW room \in Int, room = Room(g, tbs, ta_len), NEW room2, room2 = Room(g2, tbs, ta_len),
           NEW pdu, NEW left, Polled(g, g2, b, room, pdu, left),
           \A c \in Dedicated : c # b => ~CutIn(g.queue[c])
    PROVE  EmptyPdu(g2) \/ EndsWhole(g2) \/ EndsCut(g2, room2)
  <1>1. /\ b \in Bearer /\ room > 0 /\ PolledOk(b, room, pdu, left)
        /\ g2.pdus = Append(g.pdus, pdu) /\ g2.queue = [g.queue EXCEPT ![b] = left]
        /\ Counted(g, g2, Length(pdu))
    BY Zenon DEF Polled
  <1>2. g.pdus \in Seq(Pdu) /\ g.queue \in [Bearer -> Seq(RlcPacket)]
        /\ g.header_length_total \in Int /\ g.sdu_length_total \in Int
    BY GotFacts, Zenon
  <1>3. /\ pdu \in Pdu /\ pdu.lcid = b /\ Length(pdu) \in Nat
        /\ pdu.data # <<>> => \/ pdu.fi % 2 = 1 /\ Length(pdu) = room
                              \/ pdu.fi % 2 = 0 /\ (left # <<>> => Head(left).sent = 0)
    BY <1>1, Zenon DEF PolledOk
  <1>4. LastPdu(g2) = pdu /\ g2.pdus # <<>> /\ Len(g2.pdus) \in 1..Len(g2.pdus)
    <2>1. PICK s : s = g.pdus
      BY Zenon
    <2>2. s \in Seq(Pdu) /\ g2.pdus = Append(s, pdu)
      BY <1>1, <1>2, <2>1, Zenon
    <2>3. PICK s2 : s2 = Append(s, pdu)
      BY Zenon
    <2>4. s2[Len(s2)] = pdu /\ s2 # <<>> /\ Len(s2) \in 1..Len(s2)
      BY <1>3, <2>2, <2>3
    <2> QED BY <2>2, <2>3, <2>4, Zenon DEF LastPdu
  <1>5. \A c \in Bearer : g2.queue[c] = IF c = b THEN left ELSE g.queue[c]
    BY <1>1, <1>2, Zenon
  <1>6. \A c \in Dedicated : c \in Bearer
    BY Zenon DEF Bearer
  <1>7. CASE pdu.data = <<>>
    BY <1>4, <1>7, Zenon DEF EmptyPdu, LastPdu
  <1>8. CASE pdu.data # <<>> /\ pdu.fi % 2 = 1 /\ Length(pdu) = room
    <2>1. \A c \in Dedicated : CutIn(g2.queue[c]) => c = b
      BY <1>5, <1>6, Zenon
    <2>2. ~(room2 > 0)
      <3>1. g2.header_length_total = g.header_length_total + SubheaderLen(room)
            /\ g2.sdu_length_total = g.sdu_length_total + room
        BY <1>1, <1>8, Zenon DEF Counted
      <3>2. SubheaderLen(room) \in {2, 3}
        BY DEF SubheaderLen
      <3>3. room2 = tbs - ta_len - g2.header_length_total - g2.sdu_length_total - 3
            /\ room = tbs - ta_len - g.header_length_total - g.sdu_length_total - 3
        BY Zenon DEF Room
      <3>4. PICK h \in Int, s \in Int, l \in {2, 3} :
               h = g.header_length_total /\ s = g.sdu_length_total /\ l = SubheaderLen(room)
        BY <1>2, <3>2, Zenon
      <3>5. room2 = tbs - ta_len - (h + l) - (s + room) - 3 /\ room = tbs - ta_len - h - s - 3
        BY <3>1, <3>3, <3>4, Zenon
      <3>6. room > 0 /\ room \in Int
        BY <1>1, Zenon
      <3> QED BY <3>5, <3>6
    <2> QED BY <1>3, <1>4, <1>8, <2>1, <2>2, Zenon DEF EndsCut
  <1>9. CASE pdu.data # <<>> /\ pdu.fi % 2 = 0 /\ (left # <<>> => Head(left).sent = 0)
    <2>1. ~CutIn(left)
      <3>1. ~(0 > 0)
        OBVIOUS
      <3> QED BY <1>9, <3>1, Zenon DEF CutIn
    <2>2. \A c \in Dedicated : ~CutIn(g2.queue[c])
      BY <1>5, <1>6, <2>1, Zenon
    <2> QED BY <1>4, <1>9, <2>2, Zenon DEF EndsWhole
  <1> QED BY <1>3, <1>7, <1>8, <1>9, Zenon

\* A poll that gives a PDU leaves the rest of the packet it cuts.
LEMMA CutIsLeftStep ==
    ASSUME NEW g \in GoodGot, NEW g2, NEW b, NEW room, NEW pdu, NEW left, Polled(g, g2, b, room, pdu, left)
    PROVE  CutIsLeft(g2)
  <1>1. /\ b \in Bearer /\ PolledOk(b, room, pdu, left)
        /\ g2.pdus = Append(g.pdus, pdu) /\ g2.queue = [g.queue EXCEPT ![b] = left]
    BY Zenon DEF Polled
  <1>2. g.pdus \in Seq(Pdu) /\ g.queue \in [Bearer -> Seq(RlcPacket)]
    BY GotFacts, Zenon
  <1>3. /\ pdu \in Pdu /\ pdu.lcid = b
        /\ pdu.data # <<>> => (pdu.fi % 2 = 1 /\ CutIn(left)) \/ pdu.fi % 2 = 0
    BY <1>1, Zenon DEF PolledOk
  <1>4. ASSUME NEW s \in Seq(Pdu), NEW s2, s2 = Append(s, pdu)
        PROVE  s2[Len(s2)] = pdu /\ s2 # <<>>
    BY <1>3, <1>4
  <1>5. LastPdu(g2) = pdu /\ g2.pdus # <<>>
    BY <1>1, <1>2, <1>4, Zenon DEF LastPdu
  <1>6. g2.queue[b] = left
    BY <1>1, <1>2, Zenon
  <1>7. pdu.data # <<>> /\ pdu.fi % 2 = 1 => CutIn(left)
    <2>1. 0 # 1
      OBVIOUS
    <2> QED BY <1>3, <2>1, Zenon
  <1> QED BY <1>3, <1>5, <1>6, <1>7, Zenon DEF CutIsLeft

LEMMA EmptyKept ==
    ASSUME NEW g \in GoodGot, NEW g2, NEW pdu \in Pdu, g2.pdus = Append(g.pdus, pdu), EmptyPdu(g)
    PROVE  EmptyPdu(g2)
  <1>1. g.pdus \in Seq(Pdu)
    BY GotFacts, Zenon
  <1>2. PICK k \in 1..Len(g.pdus) : g.pdus[k].data = <<>>
    BY Zenon DEF EmptyPdu
  <1>s. PICK s : s = g.pdus
    BY Zenon
  <1>3. s \in Seq(Pdu) /\ k \in 1..Len(s)
    BY <1>1, <1>s, Zenon
  <1>4. k \in 1..Len(Append(s, pdu)) /\ Append(s, pdu)[k] = s[k]
    BY <1>3
  <1> QED BY <1>2, <1>4, <1>s, Zenon DEF EmptyPdu

\* One poll keeps the invariant of the loop.
LEMMA PollStep ==
    ASSUME Remembered, NEW g \in GoodGot, NEW i \in 1..11, NEW tbs \in Int, NEW ta_len \in Int,
           PollInv(g, i - 1, Room(g, tbs, ta_len)),
           NEW g2, g2 = PollDtch(g, prio2lcid_array(t)[i], tbs, ta_len)
    PROVE  PollInv(g2, i, Room(g2, tbs, ta_len))
  <1>b. PICK b : b = prio2lcid_array(t)[i]
    BY Zenon
  <1>r. PICK room \in Int : room = Room(g, tbs, ta_len)
    BY RoomType
  <1>s. PICK room2 : room2 = Room(g2, tbs, ta_len)
    BY Zenon
  <1>1. \/ NotPolled(g, b, room) /\ g2 = g
        \/ \E pdu, left : Polled(g, g2, b, room, pdu, left)
    BY <1>b, <1>r, PollDtchFacts, Zenon
  <1>i. /\ i < 7 => b \notin Bearer
        /\ i = 7 /\ fi_ind \in Dedicated => b = fi_ind
        /\ i = 7 /\ fi_ind \notin Dedicated => b \notin Dedicated
    BY <1>b, OrderFacts, Zenon
  <1>2. CASE NotPolled(g, b, room) /\ g2 = g
    <2>1. ASSUME NothingPolled(g, i - 1, room) PROVE NothingPolled(g, i, room)
      <3> SUFFICES ASSUME i >= 7, NEW c \in Dedicated, CutIn(queue[c]) PROVE ~(room > 0)
        BY <2>1, Zenon DEF NothingPolled
      <3>1. i = 7 \/ i - 1 >= 7
        OBVIOUS
      <3>2. CASE i = 7
        <4>1. b = c
          BY <1>i, <3>2, Zenon DEF Remembered
        <4>2. b \in Bearer /\ g.queue[b] # <<>>
          BY <2>1, <4>1, Zenon DEF NothingPolled, CutIn, Bearer
        <4> QED BY <1>2, <4>2, Zenon DEF NotPolled
      <3>3. CASE i - 1 >= 7
        BY <2>1, <3>3, Zenon DEF NothingPolled
      <3> QED BY <3>1, <3>2, <3>3
    <2>2. room2 = room
      BY <1>2, <1>r, <1>s, Zenon
    <2> QED BY <1>2, <1>r, <1>s, <2>1, <2>2, Zenon DEF PollInv
  <1>3. ASSUME NEW pdu, NEW left, Polled(g, g2, b, room, pdu, left)
        PROVE  PollInv(g2, i, room2)
    <2>0. /\ b \in Bearer /\ room > 0 /\ pdu \in Pdu /\ g2.pdus = Append(g.pdus, pdu)
      BY <1>3, Zenon DEF Polled, PolledOk
    <2>1. CASE EmptyPdu(g)
      BY <2>0, <2>1, EmptyKept, Zenon DEF PollInv
    <2>2. CASE EndsCut(g, room)
      BY <2>0, <2>2, Zenon DEF EndsCut
    <2>3. CASE EndsWhole(g) \/ NothingPolled(g, i - 1, room)
      <3>1. ASSUME NEW c \in Dedicated, c # b PROVE ~CutIn(g.queue[c])
        <4>1. CASE EndsWhole(g)
          BY <4>1, Zenon DEF EndsWhole
        <4>2. CASE NothingPolled(g, i - 1, room)
          <5>1. g.queue = queue
            BY <4>2, Zenon DEF NothingPolled
          <5> SUFFICES ASSUME CutIn(queue[c]) PROVE FALSE
            BY <5>1, Zenon
          <5>2. fi_ind = c
            BY Zenon DEF Remembered
          <5>3. ~(i < 7) /\ i # 7
            BY <1>i, <2>0, <3>1, <5>2, Zenon
          <5>4. i - 1 >= 7
            BY <5>3
          <5> QED BY <2>0, <4>2, <5>4, Zenon DEF NothingPolled
        <4> QED BY <2>3, <4>1, <4>2
      <3>2. EmptyPdu(g2) \/ EndsWhole(g2) \/ EndsCut(g2, room2)
        BY <1>3, <1>r, <1>s, <3>1, PolledStep
      <3> QED BY <3>2, Zenon DEF PollInv
    <2> QED BY <1>r, <2>1, <2>2, <2>3, Zenon DEF PollInv
  <1> QED BY <1>1, <1>2, <1>3, <1>s, Zenon

\* After all polls.
LEMMA PollsFacts ==
    ASSUME TypeOK, NEW grant \in Grants, NEW tbs \in Int, NEW all, all = PollDtchs(grant, tbs)
    PROVE  /\ all \in GoodGot /\ CutIsLeft(all)
           /\ Remembered => PollInv(all, 11, Room(all, tbs, grant.ta_len))
  <1>0. grant.ta_len \in Int
    BY GrantFacts, Zenon
  <1>1. PICK f : DtchPolls(f, grant, tbs) /\ \A i \in 0..11 : f[i] \in GoodGot
    BY PollDtchsFacts, Zenon
  <1>2. all = f[11] /\ all \in GoodGot
    <2>1. 11 \in 0..11
      OBVIOUS
    <2> QED BY <1>1, <2>1, Zenon DEF DtchPolls
  <1>3. ASSUME Remembered PROVE PollInv(all, 11, Room(all, tbs, grant.ta_len))
    <2> DEFINE Q == {i \in 0..11 : PollInv(f[i], i, Room(f[i], tbs, grant.ta_len))}
    <2>1. 0 \in 0..11 /\ 11 \in 0..11 /\ 11 \in Nat /\ ~(0 >= 7)
          /\ \A i \in 1..11 : i \in 0..11 /\ i - 1 \in 0..11
      OBVIOUS
    <2>2. 0 \in Q
      <3>1. f[0].pdus = <<>> /\ f[0].queue = queue
        BY <1>1, PollSrbsFacts, Zenon DEF DtchPolls
      <3> QED BY <2>1, <3>1, Zenon DEF PollInv, NothingPolled
    <2>3. ASSUME NEW i \in 1..11, i - 1 \in Q PROVE i \in Q
      <3>1. f[i] = PollDtch(f[i - 1], prio2lcid_array(t)[i], tbs, grant.ta_len) /\ f[i - 1] \in GoodGot
        BY <1>1, <2>1, Zenon DEF DtchPolls
      <3>2. PollInv(f[i - 1], i - 1, Room(f[i - 1], tbs, grant.ta_len))
        BY <2>3, Zenon
      <3>3. PollInv(f[i], i, Room(f[i], tbs, grant.ta_len))
        BY <1>0, <1>3, <3>1, <3>2, PollStep, Zenon
      <3> QED BY <2>1, <3>3, Zenon
    <2>4. \A i \in 0..11 : i \in Q
      <3> HIDE DEF Q
      <3> QED BY <2>1, <2>2, <2>3, Induction, Zenon
    <2> QED BY <1>2, <2>1, <2>4, Zenon
  <1>4. CutIsLeft(all)
    <2> DEFINE Q == {i \in 0..11 : CutIsLeft(f[i])}
    <2>1. 0 \in 0..11 /\ 11 \in 0..11 /\ 11 \in Nat /\ \A i \in 1..11 : i \in 0..11 /\ i - 1 \in 0..11
      OBVIOUS
    <2>2. 0 \in Q
      <3>1. f[0].pdus = <<>> /\ f[0].queue = queue
        BY <1>1, PollSrbsFacts, Zenon DEF DtchPolls
      <3> QED BY <2>1, <3>1, Zenon DEF CutIsLeft
    <2>3. ASSUME NEW i \in 1..11, i - 1 \in Q PROVE i \in Q
      <3>g. PICK g, g2, b : g = f[i - 1] /\ g2 = f[i] /\ b = prio2lcid_array(t)[i]
        OBVIOUS
      <3>1. g2 = PollDtch(g, b, tbs, grant.ta_len) /\ g \in GoodGot
        BY <1>1, <2>1, <3>g, Zenon DEF DtchPolls
      <3>2. g2 = g \/ \E room, pdu, left : Polled(g, g2, b, room, pdu, left)
        BY <1>0, <3>1, PollDtchFacts, Zenon
      <3>3. CutIsLeft(g2)
        BY <2>3, <3>g, <3>1, <3>2, CutIsLeftStep, Zenon
      <3> QED BY <2>1, <3>g, <3>3, Zenon
    <2>4. \A i \in 0..11 : i \in Q
      <3> HIDE DEF Q
      <3> QED BY <2>1, <2>2, <2>3, Induction, Zenon
    <2> QED BY <1>2, <2>1, <2>4, Zenon
  <1> QED BY <1>2, <1>3, <1>4, Zenon

\* Poll() changes one counter of what the loop leaves.
LEMMA PollFacts ==
    ASSUME TypeOK, NEW grant \in Grants, NEW got, got = Poll(grant)
    PROVE  /\ got.pdus \in Seq(Pdu) /\ got.queue \in [Bearer -> Seq(RlcPacket)]
           /\ \A b \in Bearer : GoodQueue(got.queue[b])
           /\ CutIsLeft(got)
           /\ Remembered => \/ got.pdus = <<>> /\ got.queue = queue
                            \/ EmptyPdu(got) \/ EndsWhole(got)
                            \/ \E room : EndsCut(got, room)
  <1>t. PICK tbs \in Int : tbs = get_TBS_DL(Mcs1, grant.available)
    BY GrantFacts
  <1>a. PICK all : all = PollDtchs(grant, tbs)
    BY Zenon
  <1>1. /\ all \in GoodGot /\ CutIsLeft(all)
        /\ Remembered => PollInv(all, 11, Room(all, tbs, grant.ta_len))
    BY <1>a, PollsFacts, Zenon
  <1>2. /\ all \in Got /\ all.pdus \in Seq(Pdu) /\ all.queue \in [Bearer -> Seq(RlcPacket)]
        /\ \A b \in Bearer : GoodQueue(all.queue[b])
    BY <1>1, GotFacts, Zenon
  <1>3. got = all \/ \E x : got = [all EXCEPT !.header_length_total = x]
    BY <1>t, <1>a, Zenon DEF Poll
  <1>4. got.pdus = all.pdus /\ got.queue = all.queue
    <2>1. CASE got = all
      BY <2>1, Zenon
    <2>2. ASSUME NEW x, got = [all EXCEPT !.header_length_total = x]
          PROVE  got.pdus = all.pdus /\ got.queue = all.queue
      BY <1>2, <2>2 DEF Got
    <2> QED BY <1>3, <2>1, <2>2, Zenon
  <1>5. ASSUME Remembered
        PROVE  \/ got.pdus = <<>> /\ got.queue = queue
               \/ EmptyPdu(got) \/ EndsWhole(got)
               \/ \E room : EndsCut(got, room)
    <2>r. PICK room : room = Room(all, tbs, grant.ta_len)
      BY Zenon
    <2>1. NothingPolled(all, 11, room) \/ EmptyPdu(all) \/ EndsWhole(all) \/ EndsCut(all, room)
      BY <1>1, <1>5, <2>r, Zenon DEF PollInv
    <2>2. NothingPolled(all, 11, room) => got.pdus = <<>> /\ got.queue = queue
      BY <1>4, Zenon DEF NothingPolled
    <2>3. EmptyPdu(all) => EmptyPdu(got)
      BY <1>4, Zenon DEF EmptyPdu
    <2>4. EndsWhole(all) => EndsWhole(got)
      BY <1>4, Zenon DEF EndsWhole, LastPdu
    <2>5. EndsCut(all, room) => EndsCut(got, room)
      BY <1>4, Zenon DEF EndsCut, LastPdu
    <2> QED BY <2>1, <2>2, <2>3, <2>4, <2>5, Zenon
  <1>6. CutIsLeft(got)
    BY <1>1, <1>4, Zenon DEF CutIsLeft, LastPdu
  <1> QED BY <1>2, <1>4, <1>5, <1>6, Zenon

\* The fields of a transport block that the scheduler keeps.
BlockOf(got, junk, b) ==
    /\ b.dtch = (got.pdus # <<>>)
    /\ b.fi = IF got.pdus # <<>> THEN MergedFi(got.pdus, junk) ELSE 0
    /\ b.sn = sn + 1

LEMMA BlockFacts ==
    ASSUME NEW got, NEW ta_len, NEW tbs, NEW junk
    PROVE  BlockOf(got, junk, TransportBlock(got, ta_len, tbs, junk))
  BY Zenon DEF TransportBlock, BlockOf

\* FI of the merged PDU and of the last one agree on whether a packet is cut.
LEMMA MergedFiFacts ==
    ASSUME NEW pdus \in Seq(Pdu), pdus # <<>>, NEW junk, NEW last, last = pdus[Len(pdus)], last.data # <<>>
    PROVE  MergedFi(pdus, junk) % 2 = last.fi % 2
  <1>1. last \in Pdu /\ Last(pdus) = last
    BY DEF Last
  <1>2. last.fi \in 0..3
    BY <1>1, Zenon DEF Pdu
  <1>3. MergedFi(pdus, junk) = IF fi_ind # 0 /\ last.fi < 2 THEN last.fi + 2 ELSE last.fi
    BY <1>1, Zenon DEF MergedFi
  <1>4. MergedFi(pdus, junk) = last.fi \/ MergedFi(pdus, junk) = last.fi + 2
    BY <1>3, Zenon
  <1> QED BY <1>2, <1>4
-----------------------------------------------------------------------------
(***************************************************************************)
(* Steps.                                                                  *)
(***************************************************************************)
\* What NewData does to the variables of the invariants.
Scheduled(grant) ==
    \E got, tbs, junk, b, spoilt :
        /\ got = Poll(grant) /\ b = TransportBlock(got, grant.ta_len, tbs, junk)
        /\ Tick /\ queue' = got.queue /\ tb' = Summary(b, spoilt)
        /\ sn' = IF b.dtch THEN b.sn ELSE sn
        /\ fi_ind' = NextFiInd(got, b)
        /\ round' = round \/ round' = [round EXCEPT ![harq_pid] = 0]
        /\ harmed' = harmed \cup Harms(got, b, spoilt)
        /\ (lost' = lost \/ lost' = lost + 1) /\ lost' <= MaxLoss
        /\ UNCHANGED arrived

LEMMA NewDataScheduled ==
    ASSUME NEW grant, NEW outcome, NewData(grant, outcome)
    PROVE  Scheduled(grant)
  <1>1. PICK got \in {Poll(grant)} :
           LET need == grant.ta_len + got.sdu_length_total + got.header_length_total IN
           \E tbs \in {Transport(need, grant.available)}, junk \in Junk(got) :
           \E b \in {TransportBlock(got, grant.ta_len, tbs, junk)} : \E spoilt \in Spoilt(b) :
           /\ Tick /\ queue' = got.queue /\ tb' = Summary(b, spoilt)
           /\ sn' = IF b.dtch THEN b.sn ELSE sn
           /\ fi_ind' = NextFiInd(got, b)
           /\ round' = IF outcome = "infeasible" THEN round ELSE [round EXCEPT ![harq_pid] = 0]
           /\ harmed' = harmed \cup Harms(got, b, spoilt)
    BY Zenon DEF NewData
  <1>2. PICK tbs, junk, b, spoilt :
           /\ got = Poll(grant) /\ b = TransportBlock(got, grant.ta_len, tbs, junk)
           /\ Tick /\ queue' = got.queue /\ tb' = Summary(b, spoilt)
           /\ sn' = IF b.dtch THEN b.sn ELSE sn
           /\ fi_ind' = NextFiInd(got, b)
           /\ round' = round \/ round' = [round EXCEPT ![harq_pid] = 0]
           /\ harmed' = harmed \cup Harms(got, b, spoilt)
    BY <1>1, Zenon
  <1>3. (lost' = lost \/ lost' = lost + 1) /\ lost' <= MaxLoss /\ arrived' = arrived
    BY Zenon DEF NewData
  <1> QED BY <1>2, <1>3, Zenon DEF Scheduled

\* NewData, with got and its transport block named.
LEMMA ScheduledParts ==
    ASSUME NEW grant, Scheduled(grant)
    PROVE  \E got, tbs, junk, b, spoilt :
              /\ got = Poll(grant) /\ b = TransportBlock(got, grant.ta_len, tbs, junk)
              /\ queue' = got.queue /\ tb' = Summary(b, spoilt) /\ harmed' = harmed \cup Harms(got, b, spoilt)
              /\ fi_ind' = IF got.pdus = <<>> THEN fi_ind
                           ELSE IF MergedFi(got.pdus, junk) % 2 = 1 THEN Last(got.pdus).lcid ELSE 0
              /\ sn' = sn \/ sn' = sn + 1
  <1>1. PICK got, tbs, junk, b, spoilt :
           /\ got = Poll(grant) /\ b = TransportBlock(got, grant.ta_len, tbs, junk)
           /\ queue' = got.queue /\ tb' = Summary(b, spoilt)
           /\ sn' = IF b.dtch THEN b.sn ELSE sn
           /\ fi_ind' = NextFiInd(got, b)
           /\ harmed' = harmed \cup Harms(got, b, spoilt)
    BY Zenon DEF Scheduled
  <1>2. /\ b.dtch = (got.pdus # <<>>)
        /\ b.fi = IF got.pdus # <<>> THEN MergedFi(got.pdus, junk) ELSE 0
        /\ b.sn = sn + 1
    <2>1. BlockOf(got, junk, b)
      BY <1>1, BlockFacts, Zenon
    <2> QED BY <2>1, Zenon DEF BlockOf
  <1>3. sn' = sn \/ sn' = sn + 1
    BY <1>1, <1>2, Zenon
  <1>4. fi_ind' = IF got.pdus = <<>> THEN fi_ind
                  ELSE IF MergedFi(got.pdus, junk) % 2 = 1 THEN Last(got.pdus).lcid ELSE 0
    BY <1>1, <1>2, Zenon DEF NextFiInd
  <1> QED BY <1>1, <1>3, <1>4, Zenon

LEMMA PeriodFacts == Period \in Nat \ {0} /\ \A s \in 0..(Period - 1) : (s + 1) % Period \in 0..(Period - 1)
  <1>1. PICK p \in Nat \ {0} : p = Period
    BY BoundAssumption DEF Period, Cycle
  <1>2. \A s \in 0..(p - 1) : (s + 1) % p \in 0..(p - 1)
    OBVIOUS
  <1> QED BY <1>1, <1>2, Zenon

\* A subframe with new data keeps the types and remembers the packet it cuts.
LEMMA ScheduledKept ==
    ASSUME TypeOK, NEW grant \in Grants, Scheduled(grant)
    PROVE  TypeOK' /\ (CutIsRemembered => CutIsRemembered') /\ (GateKept => GateKept')
  <1>1. PICK got, tbs, junk, b, spoilt :
           /\ got = Poll(grant) /\ b = TransportBlock(got, grant.ta_len, tbs, junk)
           /\ queue' = got.queue /\ tb' = Summary(b, spoilt) /\ harmed' = harmed \cup Harms(got, b, spoilt)
           /\ fi_ind' = IF got.pdus = <<>> THEN fi_ind
                        ELSE IF MergedFi(got.pdus, junk) % 2 = 1 THEN Last(got.pdus).lcid ELSE 0
           /\ sn' = sn \/ sn' = sn + 1
    BY ScheduledParts, Zenon
  <1>2. /\ got.pdus \in Seq(Pdu) /\ got.queue \in [Bearer -> Seq(RlcPacket)]
        /\ \A c \in Bearer : GoodQueue(got.queue[c])
        /\ Remembered => \/ got.pdus = <<>> /\ got.queue = queue
                         \/ EmptyPdu(got) \/ EndsWhole(got)
                         \/ \E room : EndsCut(got, room)
        /\ CutIsLeft(got)
    BY <1>1, PollFacts, Zenon
  <1>3. got.pdus # <<>> => Last(got.pdus) = LastPdu(got) /\ LastPdu(got) \in Pdu
    <2>1. \A s \in Seq(Pdu) : s # <<>> => s[Len(s)] \in Pdu
      OBVIOUS
    <2> QED BY <1>2, <2>1, Zenon DEF Last, LastPdu
  <1>4. got.pdus # <<>> => Last(got.pdus).lcid \in Bearer
    BY <1>3, Zenon DEF Pdu
  <1>n. "empty" \notin harmed' /\ got.pdus # <<>> => ~EmptyPdu(got)
    <2> SUFFICES ASSUME "empty" \notin harmed', got.pdus # <<>> PROVE ~EmptyPdu(got)
      OBVIOUS
    <2>1. DOMAIN got.pdus = 1..Len(got.pdus)
      BY <1>2
    <2>2. "empty" \notin Harms(got, b, spoilt)
      BY <1>1, Zenon
    <2> QED BY <2>1, <2>2, Zenon DEF Harms, EmptyPdu
  <1>5. TypeOK'
    <2>1. t' \in 0..(Period - 1)
      <3>1. t \in 0..(Period - 1) /\ t' = (t + 1) % Period
        BY Zenon DEF TypeOK, Scheduled, Tick
      <3> QED BY <3>1, PeriodFacts
    <2>2. queue' \in [Bearer -> Seq(RlcPacket)] /\ \A c \in Bearer : GoodQueue(queue'[c])
      BY <1>1, <1>2, Zenon
    <2>3. \A c \in Bearer : \A i \in DOMAIN queue'[c] :
             queue'[c][i].sent \in 0..(queue'[c][i].size - 1) /\ (i > 1 => queue'[c][i].sent = 0)
      <3> SUFFICES ASSUME NEW c \in Bearer
                   PROVE  \A i \in DOMAIN queue'[c] :
                              queue'[c][i].sent \in 0..(queue'[c][i].size - 1) /\ (i > 1 => queue'[c][i].sent = 0)
        OBVIOUS
      <3>1. PICK q : q = queue'[c]
        BY Zenon
      <3>2. q \in Seq(RlcPacket) /\ GoodQueue(q)
        BY <2>2, <3>1, Zenon
      <3>3. DOMAIN q = 1..Len(q)
        BY <3>2
      <3> QED BY <3>1, <3>2, <3>3, Zenon DEF GoodQueue
    <2>4. fi_ind' \in Bearer \cup {0}
      BY <1>1, <1>4, Zenon DEF TypeOK
    <2>5. sn' \in Nat
      <3>1. sn \in Nat /\ (sn' = sn \/ sn' = sn + 1)
        BY <1>1, Zenon DEF TypeOK
      <3> QED BY <3>1
    <2>6. round' \in [0..(NHarq - 1) -> {0, 8}]
      <3>1. round \in [0..(NHarq - 1) -> {0, 8}] /\ (round' = round \/ round' = [round EXCEPT ![harq_pid] = 0])
        BY Zenon DEF TypeOK, Scheduled
      <3> QED BY <3>1, Zenon
    <2>7. tb' \subseteq {"overfull", "empty", "narrowed", "misread", "malformed", "spoilt"}
      BY <1>1, Zenon DEF Summary
    <2>8. harmed' \subseteq {"length", "default", "srb", "empty", "number", "spoilt"}
      BY <1>1, Zenon DEF TypeOK, Harms
    <2>9. lost' \in 0..MaxLoss
      <3>1. lost \in 0..MaxLoss /\ (lost' = lost \/ lost' = lost + 1) /\ lost' <= MaxLoss
        BY Zenon DEF TypeOK, Scheduled
      <3> QED BY <3>1, BoundAssumption
    <2>10. arrived' \in [Bearer -> Nat]
      BY Zenon DEF TypeOK, Scheduled
    <2> QED BY <2>1, <2>2, <2>3, <2>4, <2>5, <2>6, <2>7, <2>8, <2>9, <2>10, Zenon DEF TypeOK
  <1>6. ASSUME CutIsRemembered PROVE CutIsRemembered'
    <2> SUFFICES ASSUME "empty" \notin harmed', NEW c \in Dedicated, CutIn(queue'[c]) PROVE fi_ind' = c
      BY Zenon DEF CutIsRemembered, Cut, CutIn
    <2>1. Remembered
      BY <1>1, <1>6, Zenon DEF CutIsRemembered, Cut, CutIn, Remembered
    <2>2. got.pdus # <<>> => ~EmptyPdu(got)
      BY <1>n, Zenon
    <2>3. CASE got.pdus = <<>> /\ got.queue = queue
      BY <1>1, <2>1, <2>3, Zenon DEF Remembered
    <2>4. CASE EmptyPdu(got)
      <3>1. got.pdus # <<>>
        BY <2>4 DEF EmptyPdu
      <3> QED BY <2>2, <2>4, <3>1, Zenon
    <2>5. CASE EndsWhole(got)
      BY <1>1, <2>5, Zenon DEF EndsWhole
    <2>6. ASSUME NEW room, EndsCut(got, room) PROVE fi_ind' = c
      <3>1. /\ got.pdus # <<>> /\ LastPdu(got).data # <<>> /\ LastPdu(got).fi % 2 = 1
            /\ c = LastPdu(got).lcid
        BY <1>1, <2>6, Zenon DEF EndsCut
      <3>2. MergedFi(got.pdus, junk) % 2 = 1
        BY <1>2, <3>1, MergedFiFacts, Zenon DEF LastPdu
      <3> QED BY <1>1, <1>3, <3>1, <3>2, Zenon
    <2> QED BY <1>2, <2>1, <2>3, <2>4, <2>5, <2>6, Zenon
  <1>7. ASSUME GateKept PROVE GateKept'
    <2> SUFFICES ASSUME "empty" \notin harmed', fi_ind' # 0 PROVE CutIn(queue'[fi_ind'])
      BY Zenon DEF GateKept, Cut, CutIn
    <2>1. CASE got.pdus = <<>>
      <3>1. queue' = queue /\ fi_ind' = fi_ind
        BY <1>1, <1>2, <2>1, Zenon DEF CutIsLeft
      <3>2. "empty" \notin harmed
        BY <1>1, Zenon
      <3> QED BY <1>7, <3>1, <3>2, Zenon DEF GateKept, Cut, CutIn
    <2>2. CASE got.pdus # <<>>
      <3>1. LastPdu(got).data # <<>>
        <4>1. ASSUME NEW z \in Seq(Pdu), z # <<>> PROVE Len(z) \in 1..Len(z)
          BY <4>1
        <4> QED BY <1>n, <1>2, <2>2, <4>1, Zenon DEF EmptyPdu, LastPdu
      <3>2. MergedFi(got.pdus, junk) % 2 = 1 /\ fi_ind' = LastPdu(got).lcid
        BY <1>1, <1>3, <2>2, Zenon
      <3>3. LastPdu(got).fi % 2 = 1
        BY <1>2, <2>2, <3>1, <3>2, MergedFiFacts, Zenon DEF LastPdu
      <3> QED BY <1>1, <1>2, <2>2, <3>1, <3>2, <3>3, Zenon DEF CutIsLeft
    <2> QED BY <2>1, <2>2
  <1> QED BY <1>5, <1>6, <1>7

\* PDCP hands a packet to a bearer's RLC entity: it goes to the end.
LEMMA ArriveKept ==
    ASSUME TypeOK, NEW b \in Bearer, NEW size \in Sizes[b], Arrive(b, size)
    PROVE  TypeOK' /\ (CutIsRemembered => CutIsRemembered') /\ (GateKept => GateKept')
  <1>p. PICK p : p = [n |-> arrived[b] + 1, size |-> size, sent |-> 0]
    BY Zenon
  <1>q. PICK q : q = queue[b]
    BY Zenon
  <1>s. PICK q2 : q2 = Append(q, p)
    BY Zenon
  <1>1. /\ queue' = [queue EXCEPT ![b] = q2] /\ arrived' = [arrived EXCEPT ![b] = arrived[b] + 1]
        /\ UNCHANGED <<t, fi_ind, sn, round, tb, ue, lost, delivered, harmed>>
    BY <1>p, <1>q, <1>s, Zenon DEF Arrive
  <1>2. /\ queue \in [Bearer -> Seq(RlcPacket)] /\ arrived \in [Bearer -> Nat]
        /\ q \in Seq(RlcPacket) /\ arrived[b] \in Nat
    BY <1>q, Zenon DEF TypeOK
  <1>3. arrived[b] + 1 \in Nat /\ size \in Nat /\ size \in Nat \ {0} /\ 0 \in 0..(size - 1)
    <2>1. size \in Nat \ {0}
      BY BoundAssumption, Zenon
    <2> QED BY <1>2, <2>1
  <1>4. p \in RlcPacket /\ p.sent = 0 /\ p.size = size
    <2>1. ASSUME NEW n \in Nat, NEW x, x = [n |-> n, size |-> size, sent |-> 0]
          PROVE  x \in RlcPacket /\ x.sent = 0 /\ x.size = size
      BY <1>3, <2>1 DEF RlcPacket
    <2> QED BY <1>3, <1>p, <2>1
  <1>5. q2 \in Seq(RlcPacket) /\ Len(q2) = Len(q) + 1 /\ Len(q) \in Nat /\ q2[Len(q) + 1] = p
        /\ \A i \in 1..Len(q) : q2[i] = q[i]
    BY <1>2, <1>4, <1>s
  <1>6. ASSUME NEW i \in 1..Len(q2)
        PROVE  q2[i].sent \in 0..(q2[i].size - 1) /\ (i > 1 => q2[i].sent = 0)
    <2>1. i \in 1..Len(q) \/ i = Len(q) + 1
      BY <1>5
    <2>2. CASE i \in 1..Len(q)
      <3>1. DOMAIN q = 1..Len(q)
        BY <1>2
      <3>2. q[i].sent \in 0..(q[i].size - 1) /\ (i > 1 => q[i].sent = 0)
        BY <1>q, <2>2, <3>1, Zenon DEF TypeOK
      <3> QED BY <1>5, <2>2, <3>2, Zenon
    <2>3. CASE i = Len(q) + 1
      BY <1>3, <1>4, <1>5, <2>3, Zenon
    <2> QED BY <2>1, <2>2, <2>3
  <1>7. \A c \in Bearer : queue'[c] = IF c = b THEN q2 ELSE queue[c]
    BY <1>1, <1>2, Zenon
  <1>8. TypeOK'
    <2>1. queue' \in [Bearer -> Seq(RlcPacket)] /\ arrived' \in [Bearer -> Nat]
      BY <1>1, <1>2, <1>3, <1>5, Zenon
    <2>2. \A c \in Bearer : \A i \in DOMAIN queue'[c] :
             queue'[c][i].sent \in 0..(queue'[c][i].size - 1) /\ (i > 1 => queue'[c][i].sent = 0)
      <3>1. DOMAIN q2 = 1..Len(q2)
        BY <1>5
      <3> QED BY <1>6, <1>7, <3>1, Zenon DEF TypeOK
    <2> QED BY <1>1, <2>1, <2>2, Zenon DEF TypeOK
  <1>9. ASSUME CutIsRemembered PROVE CutIsRemembered'
    <2>1. CutIn(q2) => CutIn(q)
      <3>1. CASE q = <<>>
        <4>1. Head(q2) = p
          BY <1>4, <1>s, <3>1
        <4>2. ~(0 > 0)
          OBVIOUS
        <4> QED BY <1>4, <4>1, <4>2, Zenon DEF CutIn
      <3>2. CASE q # <<>>
        <4>1. Head(q2) = Head(q)
          BY <1>2, <1>4, <1>s, <3>2
        <4> QED BY <3>2, <4>1, Zenon DEF CutIn
      <3> QED BY <3>1, <3>2
    <2>2. \A c \in Dedicated : c \in Bearer
      BY Zenon DEF Bearer
    <2>3. \A c \in Dedicated : CutIn(queue'[c]) => CutIn(queue[c])
      BY <1>7, <1>q, <2>1, <2>2, Zenon
    <2> QED BY <1>1, <1>9, <2>3, Zenon DEF CutIsRemembered, Cut, CutIn
  <1>10. ASSUME GateKept PROVE GateKept'
    <2> SUFFICES ASSUME "empty" \notin harmed, fi_ind # 0, CutIn(queue[fi_ind]) PROVE CutIn(queue'[fi_ind])
      BY <1>1, <1>10, Zenon DEF GateKept, Cut, CutIn
    <2>1. fi_ind \in Bearer
      BY Zenon DEF TypeOK
    <2>2. CutIn(q) => CutIn(q2)
      <3> SUFFICES ASSUME q # <<>>, Head(q).sent > 0 PROVE CutIn(q2)
        BY Zenon DEF CutIn
      <3>1. Head(q2) = Head(q) /\ q2 # <<>>
        BY <1>2, <1>4, <1>s
      <3> QED BY <3>1, Zenon DEF CutIn
    <2> QED BY <1>7, <1>q, <2>1, <2>2, Zenon
  <1> QED BY <1>8, <1>9, <1>10

\* Subframes without new data.
LEMMA OtherSubframe ==
    ASSUME TypeOK, Tick, tb' = NoTb,
           UNCHANGED <<queue, fi_ind, sn, round, ue, arrived, lost, delivered, harmed>>
    PROVE  TypeOK' /\ (CutIsRemembered => CutIsRemembered') /\ (GateKept => GateKept')
  <1>1. t' \in 0..(Period - 1)
    <2>1. t \in 0..(Period - 1) /\ t' = (t + 1) % Period
      BY Zenon DEF TypeOK, Tick
    <2> QED BY <2>1, PeriodFacts
  <1>2. tb' \subseteq {"overfull", "empty", "narrowed", "misread", "malformed", "spoilt"}
    BY Zenon DEF NoTb
  <1>3. TypeOK'
    BY <1>1, <1>2, Zenon DEF TypeOK
  <1> QED BY <1>3, Zenon DEF CutIsRemembered, GateKept, Cut

LEMMA FeedbackKept ==
    ASSUME TypeOK, NEW p, Feedback(p)
    PROVE  TypeOK' /\ (CutIsRemembered => CutIsRemembered') /\ (GateKept => GateKept')
  <1>1. round' \in [0..(NHarq - 1) -> {0, 8}]
    BY Zenon DEF TypeOK, Feedback
  <1>2. UNCHANGED <<t, queue, fi_ind, sn, tb, ue, arrived, lost, delivered, harmed>>
    BY Zenon DEF Feedback
  <1>3. TypeOK'
    BY <1>1, <1>2, Zenon DEF TypeOK
  <1> QED BY <1>2, <1>3, Zenon DEF CutIsRemembered, GateKept, Cut

LEMMA StepKept ==
    ASSUME TypeOK, [Next]_vars
    PROVE  TypeOK' /\ (CutIsRemembered => CutIsRemembered') /\ (GateKept => GateKept')
  <1>1. CASE NotScheduled
    BY <1>1, OtherSubframe, Zenon DEF NotScheduled
  <1>2. CASE Retransmission
    BY <1>2, OtherSubframe, Zenon DEF Retransmission
  <1>3. ASSUME NEW grant \in Grants, NoData(grant)
        PROVE  TypeOK' /\ (CutIsRemembered => CutIsRemembered') /\ (GateKept => GateKept')
    BY <1>3, OtherSubframe, Zenon DEF NoData
  <1>4. ASSUME NEW grant \in Grants, NEW outcome \in Outcome, NewData(grant, outcome)
        PROVE  TypeOK' /\ (CutIsRemembered => CutIsRemembered') /\ (GateKept => GateKept')
    BY <1>4, NewDataScheduled, ScheduledKept, Zenon
  <1>5. ASSUME NEW b \in Bearer, NEW size \in Sizes[b], Arrive(b, size)
        PROVE  TypeOK' /\ (CutIsRemembered => CutIsRemembered') /\ (GateKept => GateKept')
    BY <1>5, ArriveKept, Zenon
  <1>6. ASSUME NEW p \in DOMAIN round, Feedback(p)
        PROVE  TypeOK' /\ (CutIsRemembered => CutIsRemembered') /\ (GateKept => GateKept')
    BY <1>6, FeedbackKept, Zenon
  <1>7. CASE UNCHANGED vars
    <2>1. UNCHANGED <<t, queue, fi_ind, sn, round, tb, arrived, lost, harmed>>
      BY <1>7, Zenon DEF vars
    <2>2. TypeOK'
      BY <2>1, Zenon DEF TypeOK
    <2> QED BY <2>1, <2>2, Zenon DEF CutIsRemembered, GateKept, Cut
  <1> QED BY <1>1, <1>2, <1>3, <1>4, <1>5, <1>6, <1>7, Zenon DEF Next, Subframe

LEMMA InitFacts == Init => TypeOK /\ CutIsRemembered /\ GateKept
  <1> SUFFICES ASSUME Init PROVE TypeOK /\ CutIsRemembered /\ GateKept
    OBVIOUS
  <1>1. PICK q \in Backlog :
           /\ queue = [b \in Bearer |-> [i \in DOMAIN q[b] |-> [n |-> i, size |-> q[b][i], sent |-> 0]]]
           /\ arrived = [b \in Bearer |-> Len(q[b])]
    BY Zenon DEF Init
  <1>2. q \in [Bearer -> Seq(Nat \ {0})]
    BY BoundAssumption, Zenon
  <1>3. ASSUME NEW b \in Bearer
        PROVE  /\ queue[b] \in Seq(RlcPacket) /\ DOMAIN queue[b] = 1..Len(queue[b])
               /\ arrived[b] \in Nat /\ ~CutIn(queue[b])
               /\ \A i \in 1..Len(queue[b]) :
                     queue[b][i].sent \in 0..(queue[b][i].size - 1) /\ (i > 1 => queue[b][i].sent = 0)
    <2>s. PICK s \in Seq(Nat \ {0}) : s = q[b]
      BY <1>2, Zenon
    <2>x. PICK x : x = queue[b]
      BY Zenon
    <2>1. DOMAIN s = 1..Len(s) /\ Len(s) \in Nat /\ \A i \in 1..Len(s) : s[i] \in Nat \ {0}
      OBVIOUS
    <2>2. x = [i \in 1..Len(s) |-> [n |-> i, size |-> s[i], sent |-> 0]] /\ arrived[b] = Len(s)
      BY <1>1, <2>s, <2>x, <2>1, Zenon
    <2>3. ASSUME NEW i \in 1..Len(s)
          PROVE  x[i] \in RlcPacket /\ x[i].sent = 0 /\ 0 \in 0..(x[i].size - 1)
      <3>1. x[i] = [n |-> i, size |-> s[i], sent |-> 0] /\ i \in Nat /\ s[i] \in Nat \ {0}
        BY <2>1, <2>2
      <3>2. x[i] \in RlcPacket /\ x[i].sent = 0 /\ x[i].size = s[i]
        BY <3>1 DEF RlcPacket
      <3>3. \A k \in Nat \ {0} : 0 \in 0..(k - 1)
        OBVIOUS
      <3> QED BY <3>1, <3>2, <3>3, Zenon
    <2>4. x \in [1..Len(s) -> RlcPacket]
      BY <2>2, <2>3, Zenon
    <2>5. x \in Seq(RlcPacket) /\ Len(x) = Len(s)
      BY <2>1, <2>4
    <2>6. ~CutIn(x)
      <3> SUFFICES ASSUME x # <<>>, Head(x).sent > 0 PROVE FALSE
        BY Zenon DEF CutIn
      <3>1. Head(x) = x[1] /\ 1 \in 1..Len(s)
        BY <2>5
      <3>2. ~(0 > 0)
        OBVIOUS
      <3> QED BY <2>3, <3>1, <3>2, Zenon
    <2>7. DOMAIN x = 1..Len(x)
      BY <2>5
    <2>8. ASSUME NEW i \in 1..Len(x)
          PROVE  x[i].sent \in 0..(x[i].size - 1) /\ (i > 1 => x[i].sent = 0)
      <3>1. i \in 1..Len(s)
        BY <2>5, Zenon
      <3>2. x[i].sent = 0 /\ 0 \in 0..(x[i].size - 1)
        BY <2>3, <3>1, Zenon
      <3> QED BY <3>2, Zenon
    <2>9. arrived[b] \in Nat
      BY <2>1, <2>2, Zenon
    <2> QED BY <2>5, <2>6, <2>7, <2>8, <2>9, <2>x, Zenon
  <1>4. queue \in [Bearer -> Seq(RlcPacket)] /\ arrived \in [Bearer -> Nat]
    BY <1>1, <1>3, Zenon
  <1>5. /\ t \in 0..(Period - 1) /\ sn \in Nat /\ lost \in 0..MaxLoss
    BY BoundAssumption, PeriodFacts DEF Init
  <1>6. /\ fi_ind \in Bearer \cup {0} /\ round \in [0..(NHarq - 1) -> {0, 8}]
        /\ tb = {} /\ harmed = {}
    BY Zenon DEF Init, NoTb
  <1>7. TypeOK
    BY <1>3, <1>4, <1>5, <1>6, Zenon DEF TypeOK
  <1>8. CutIsRemembered
    BY <1>3, Zenon DEF CutIsRemembered, Cut, CutIn, Bearer
  <1>9. GateKept
    BY Zenon DEF GateKept, Init
  <1> QED BY <1>7, <1>8, <1>9

\* Every variable keeps its type, whatever the grants, the sizes of blocks and
\* packets, and the losses; in particular no packet is sent beyond its end, and
\* only the first of a bearer is ever sent in part (:953-1433).
THEOREM TypeCorrect == Spec => []TypeOK
  BY InitFacts, StepKept, PTL DEF Spec

\* A packet of a dedicated bearer that was cut at the end of a transport block is
\* remembered in fi_ind until its rest is polled, as long as no RLC entity that
\* was polled gave an empty PDU (:1312-1316, 1684-1695).
THEOREM CutCorrect == Spec => []CutIsRemembered
  BY InitFacts, StepKept, PTL DEF Spec

\* A bearer that fi_ind lets be polled out of its turn has the rest of a packet
\* waiting, with the same exception (:1312-1316, 1691-1695).
THEOREM GateCorrect == Spec => []GateKept
  BY InitFacts, StepKept, PTL DEF Spec
============================================================================
