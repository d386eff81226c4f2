--------------------------- MODULE TeidChainProofs ---------------------------
(***************************************************************************)
(* Proofs about TeidChain, for any number of bearers, of other messages    *)
(* and of user packets, and for any size of the terminal's receive buffer. *)
(*                                                                         *)
(* A TEID on its way is in one of four places: the queue of ICM, the       *)
(* receive buffer of the terminal, the hands of the down thread, the table *)
(* of the terminal.  The argument is about those places as values, so that *)
(* every step of the chain is a lemma about sequences.                     *)
(***************************************************************************)
EXTENDS TeidChain, PacketTerminalProofs

\* The messages of ICM's queue, and the datagrams of the terminal's buffer.
IcmMessage ==
    {Icm!OtherMessage} \cup {Icm!SetupResp(nb, t) : nb \in {0, 1}, t \in Int}
EpcDgram == DownlinkDgram \cup ControlDgram

\* The answer a datagram or a message comes from, zero if it comes from none.
OfDgram(d) == IF d.from = "icm" THEN Ordinal(d.teid) ELSE 0
OfMessage(m) == Ordinal(m.e_rab0)

\* The one of the TEID in the hands of the down thread.
Held == IF pc["down"] = "control" THEN Ordinal(buf["down"].teid) ELSE 0

\* Those of the terminal's table, of its receive buffer and of ICM's queue, in order.
Taken(ts) == [i \in 1..Len(ts) |-> Ordinal(ts[i])]
OnWire(w) == [i \in 1..Len(w) |-> OfDgram(w[i])]
Asked(q) == [k \in 1..Len(q) |-> OfMessage(q[k])]

\* Sequences of answers, in which a zero stands for none: the answers are at
\* most n, each is larger than all numbers before it, and those of t are larger
\* than all numbers of s.
Upto(s, n) == \A i \in 1..Len(s) : s[i] <= n
Rising(s) == \A i, j \in 1..Len(s) : i < j /\ s[j] # 0 => s[i] < s[j]
Below(s, t) == \A i \in 1..Len(s), j \in 1..Len(t) : t[j] # 0 => s[i] < t[j]

\* The same for one number e and a sequence.
Tops(s, e) == \A i \in 1..Len(s) : e # 0 => s[i] < e
Precedes(e, t) == \A j \in 1..Len(t) : t[j] # 0 => e < t[j]

\* TEIDs stay in the order of the n answers: those in the table
\* ts are smaller than the one in hand h, that is smaller than those in the
\* buffer w, and those are smaller than those in the queue q.
Ordered(ts, h, w, q, n) ==
    /\ \A i \in 1..Len(ts) : ts[i] # 0
    /\ Upto(ts, n) /\ h <= n /\ Upto(w, n) /\ Upto(q, n)
    /\ Rising(ts) /\ Rising(w) /\ Rising(q)
    /\ Tops(ts, h) /\ Precedes(h, w) /\ Precedes(h, q)
    /\ Below(ts, w) /\ Below(ts, q) /\ Below(w, q)

\* No TEID is missing: the table holds the first ones, and each of the others
\* is in one of the other places.
Has(s, x) == \E i \in 1..Len(s) : s[i] = x
Counts(ts) == \A i \in 1..Len(ts) : ts[i] = i
Complete(ts, h, w, q, n) ==
    /\ Counts(ts)
    /\ \A x \in 1..n : x <= Len(ts) \/ x = h \/ Has(w, x) \/ Has(q, x)

ChainType ==
    /\ TypeInv
    /\ closed = {}
    /\ pc["down"] = "control" => buf["down"] \in ControlDgram
    /\ teids \in Seq(Int)
    /\ queue \in Seq(IcmMessage)
    /\ nBearer \in 0..MaxBearer
    /\ lost \in BOOLEAN

\* The inductive invariants.
OrderInv == Ordered(Taken(teids), Held, OnWire(rxEpc), Asked(queue), nBearer)
CompleteInv == lost \/ Complete(Taken(teids), Held, OnWire(rxEpc), Asked(queue), nBearer)
-----------------------------------------------------------------------------
(***************************************************************************)
(* What each step does to the four places.                                 *)
(***************************************************************************)
LEMMA OrdinalType == \A t \in Int : Ordinal(t) \in Nat /\ (Ordinal(t) = 0 <=> t = 0)
  BY DEF Ordinal

LEMMA MessageTypes ==
  /\ \A m \in IcmMessage : m.e_rab0 \in Int /\ OfMessage(m) \in Nat
  /\ \A nb \in {0, 1}, t \in Int : /\ Icm!SetupResp(nb, t) \in IcmMessage
                                   /\ OfMessage(Icm!SetupResp(nb, t)) = Ordinal(t)
  /\ Icm!OtherMessage \in IcmMessage /\ OfMessage(Icm!OtherMessage) = 0
  /\ \A m \in IcmMessage : m.id = "OTHER" => OfMessage(m) = 0
  <1>1. ASSUME NEW nb \in {0, 1}, NEW t \in Int
        PROVE  /\ Icm!SetupResp(nb, t) \in IcmMessage
               /\ OfMessage(Icm!SetupResp(nb, t)) = Ordinal(t)
    <2>1. Icm!SetupResp(nb, t) \in IcmMessage
      BY DEF IcmMessage
    <2>2. Icm!SetupResp(nb, t).e_rab0 = t
      BY DEF Icm!SetupResp
    <2> QED
      BY <2>1, <2>2, Zenon DEF OfMessage
  <1>2. Icm!OtherMessage \in IcmMessage /\ OfMessage(Icm!OtherMessage) = 0
    BY DEF Ordinal, IcmMessage, OfMessage, Icm!OtherMessage
  <1>3. ASSUME NEW m \in IcmMessage PROVE m.e_rab0 \in Int /\ OfMessage(m) \in Nat
    <2>1. m.e_rab0 \in Int
      BY DEF IcmMessage, Icm!SetupResp, Icm!OtherMessage
    <2> QED
      BY <2>1, OrdinalType DEF OfMessage
  <1>4. ASSUME NEW m \in IcmMessage, m.id = "OTHER" PROVE OfMessage(m) = 0
    BY <1>4 DEF Ordinal, OfMessage, IcmMessage, Icm!SetupResp, Icm!OtherMessage
  <1> QED
    BY <1>1, <1>2, <1>3, <1>4

LEMMA DgramTypes ==
  /\ \A d \in EpcDgram : OfDgram(d) \in Nat
  /\ \A d \in DownlinkDgram : d \in EpcDgram /\ OfDgram(d) = 0
  /\ \A t \in Int : Icm!Dgram(t) \in EpcDgram /\ OfDgram(Icm!Dgram(t)) = Ordinal(t)
  BY OrdinalType DEF EpcDgram, OfDgram, DownlinkDgram, ControlDgram, Icm!Dgram, OtherPort

LEMMA TakenAll ==
  ASSUME NEW S, \A t \in S : Ordinal(t) \in Nat, NEW ts \in Seq(S)
  PROVE  /\ Taken(ts) \in Seq(Nat) /\ Len(Taken(ts)) = Len(ts)
         /\ \A i \in 1..Len(ts) : Taken(ts)[i] = Ordinal(ts[i])
         /\ \A t \in S : Taken(Append(ts, t)) = Append(Taken(ts), Ordinal(t))
  <1>1. /\ Taken(ts) \in Seq(Nat) /\ Len(Taken(ts)) = Len(ts)
        /\ \A i \in 1..Len(ts) : Taken(ts)[i] = Ordinal(ts[i])
    BY DEF Taken
  <1>2. ASSUME NEW t \in S PROVE Taken(Append(ts, t)) = Append(Taken(ts), Ordinal(t))
    BY DEF Taken
  <1> QED
    BY <1>1, <1>2

LEMMA TakenSteps ==
  ASSUME NEW ts \in Seq(Int)
  PROVE  /\ Taken(ts) \in Seq(Nat) /\ Len(Taken(ts)) = Len(ts)
         /\ \A i \in 1..Len(ts) : Taken(ts)[i] = Ordinal(ts[i])
         /\ \A t \in Int : Taken(Append(ts, t)) = Append(Taken(ts), Ordinal(t))
  BY OrdinalType, TakenAll

\* A sequence of TEIDs that grows at its end ...
LEMMA Grown ==
  ASSUME NEW s \in Seq(Nat), NEW e \in Nat
  PROVE  /\ Append(s, e) \in Seq(Nat)
         /\ Len(Append(s, e)) = Len(s) + 1 /\ Len(s) \in Nat
         /\ Append(s, e)[Len(s) + 1] = e
         /\ \A i \in 1..Len(s) : Append(s, e)[i] = s[i] /\ s[i] \in Nat
         /\ \A n \in Nat : Upto(s, n) /\ e <= n => Upto(Append(s, e), n)
         /\ Rising(s) /\ Tops(s, e) => Rising(Append(s, e))
         /\ \A t : Below(s, t) /\ Precedes(e, t) => Below(Append(s, e), t)
         /\ \A t : Below(t, s) /\ Tops(t, e) => Below(t, Append(s, e))
         /\ \A f \in Nat : Precedes(f, s) /\ (e # 0 => f < e) => Precedes(f, Append(s, e))
         /\ \A x : Has(Append(s, e), x) <=> Has(s, x) \/ x = e
  <1>0. Append(s, e) \in Seq(Nat)
    OBVIOUS
  <1>1. ASSUME NEW r, r = Append(s, e)
        PROVE  /\ Len(r) = Len(s) + 1 /\ Len(s) \in Nat /\ r[Len(s) + 1] = e
               /\ \A i \in 1..Len(s) : r[i] = s[i] /\ s[i] \in Nat
    BY <1>1
  <1>2. ASSUME NEW r, r = Append(s, e)
        PROVE  /\ \A n \in Nat : Upto(s, n) /\ e <= n => Upto(r, n)
               /\ Rising(s) /\ Tops(s, e) => Rising(r)
               /\ \A t : Below(s, t) /\ Precedes(e, t) => Below(r, t)
               /\ \A t : Below(t, s) /\ Tops(t, e) => Below(t, r)
               /\ \A f \in Nat : Precedes(f, s) /\ (e # 0 => f < e) => Precedes(f, r)
               /\ \A x : Has(r, x) <=> Has(s, x) \/ x = e
    <2>1. /\ Len(r) = Len(s) + 1 /\ Len(s) \in Nat /\ r[Len(s) + 1] = e
          /\ \A i \in 1..Len(s) : r[i] = s[i] /\ s[i] \in Nat
      BY <1>1, <1>2
    <2>2. \A n \in Nat : Upto(s, n) /\ e <= n => Upto(r, n)
      BY <2>1, SMTT(60) DEF Upto
    <2>3. Rising(s) /\ Tops(s, e) => Rising(r)
      <3> SUFFICES ASSUME Rising(s), Tops(s, e), NEW i \in 1..Len(r), NEW j \in 1..Len(r),
                          i < j, r[j] # 0
                   PROVE  r[i] < r[j]
        BY DEF Rising
      <3>1. i \in 1..Len(s) /\ (j \in 1..Len(s) \/ j = Len(s) + 1)
        BY <2>1, SMTT(60)
      <3>2. CASE j \in 1..Len(s)
        BY <2>1, <3>1, <3>2 DEF Rising
      <3>3. CASE j = Len(s) + 1
        BY <2>1, <3>1, <3>3 DEF Tops
      <3> QED
        BY <3>1, <3>2, <3>3
    <2>4. \A t : Below(s, t) /\ Precedes(e, t) => Below(r, t)
      BY <2>1, SMTT(60) DEF Below, Precedes
    <2>5. \A t : Below(t, s) /\ Tops(t, e) => Below(t, r)
      <3> SUFFICES ASSUME NEW t, Below(t, s), Tops(t, e),
                          NEW i \in 1..Len(t), NEW j \in 1..Len(r), r[j] # 0
                   PROVE  t[i] < r[j]
        BY Zenon DEF Below
      <3>1. j \in 1..Len(s) \/ j = Len(s) + 1
        BY <2>1
      <3>2. CASE j \in 1..Len(s)
        BY <2>1, <3>2, Zenon DEF Below
      <3>3. CASE j = Len(s) + 1
        BY <2>1, <3>3 DEF Tops
      <3> QED
        BY <3>1, <3>2, <3>3
    <2>6. \A f \in Nat : Precedes(f, s) /\ (e # 0 => f < e) => Precedes(f, r)
      BY <2>1, SMTT(60) DEF Precedes
    <2>7. \A x : Has(r, x) <=> Has(s, x) \/ x = e
      <3>1. \A i : i \in 1..Len(r) <=> i \in 1..Len(s) \/ i = Len(s) + 1
        BY <2>1
      <3> QED
        BY <2>1, <3>1, Zenon DEF Has
    <2> QED
      BY <2>2, <2>3, <2>4, <2>5, <2>6, <2>7
  <1> QED
    BY <1>0, <1>1, <1>2, Zenon

\* ... and one that loses its first number.
LEMMA Shrunk ==
  ASSUME NEW s \in Seq(Nat), s # <<>>
  PROVE  /\ Tail(s) \in Seq(Nat) /\ Head(s) \in Nat
         /\ \A n \in Nat : Upto(s, n) => Upto(Tail(s), n) /\ Head(s) <= n
         /\ Rising(s) => Rising(Tail(s)) /\ Precedes(Head(s), Tail(s))
         /\ \A t : Below(s, t) => Below(Tail(s), t) /\ Precedes(Head(s), t)
         /\ \A t : Below(t, s) => Below(t, Tail(s)) /\ Tops(t, Head(s))
         /\ \A f \in Nat : Precedes(f, s) => Precedes(f, Tail(s)) /\ (Head(s) # 0 => f < Head(s))
         /\ \A x : Has(s, x) => x = Head(s) \/ Has(Tail(s), x)
  <1>1. ASSUME NEW r, r = Tail(s), NEW h, h = Head(s)
        PROVE  /\ r \in Seq(Nat) /\ h \in Nat /\ h = s[1]
               /\ Len(s) \in Nat \ {0} /\ Len(r) = Len(s) - 1
               /\ \A i \in 1..Len(r) : i + 1 \in 1..Len(s) /\ r[i] = s[i + 1]
               /\ \A i \in 1..Len(s) : i = 1 \/ (i - 1 \in 1..Len(r) /\ r[i - 1] = s[i])
               /\ \A i \in 1..Len(s) : s[i] \in Nat
    BY <1>1, SMTT(60)
  <1>2. ASSUME NEW r, r = Tail(s), NEW h, h = Head(s)
        PROVE  /\ \A n \in Nat : Upto(s, n) => Upto(r, n) /\ h <= n
               /\ Rising(s) => Rising(r) /\ Precedes(h, r)
               /\ \A t : Below(s, t) => Below(r, t) /\ Precedes(h, t)
               /\ \A t : Below(t, s) => Below(t, r) /\ Tops(t, h)
               /\ \A x : Has(s, x) => x = h \/ Has(r, x)
    <2>1. /\ r \in Seq(Nat) /\ h \in Nat /\ h = s[1]
          /\ Len(s) \in Nat \ {0} /\ Len(r) = Len(s) - 1
          /\ \A i \in 1..Len(r) : i + 1 \in 1..Len(s) /\ r[i] = s[i + 1]
          /\ \A i \in 1..Len(s) : i = 1 \/ (i - 1 \in 1..Len(r) /\ r[i - 1] = s[i])
          /\ \A i \in 1..Len(s) : s[i] \in Nat
      BY <1>1, <1>2
    <2>2. \A n \in Nat : Upto(s, n) => Upto(r, n) /\ h <= n
      <3>1. 1 \in 1..Len(s)
        BY <2>1
      <3> QED
        BY <2>1, <3>1, Zenon DEF Upto
    <2>3. Rising(s) => Rising(r) /\ Precedes(h, r)
      <3>1. ASSUME Rising(s), NEW i \in 1..Len(r), NEW j \in 1..Len(r), i < j, r[j] # 0
            PROVE  r[i] < r[j]
        <4>1. i + 1 \in 1..Len(s) /\ r[i] = s[i + 1]
          BY <2>1
        <4>2. j + 1 \in 1..Len(s) /\ r[j] = s[j + 1]
          BY <2>1
        <4>3. i + 1 < j + 1
          BY <3>1
        <4> QED
          BY <3>1, <4>1, <4>2, <4>3, Zenon DEF Rising
      <3>2. ASSUME Rising(s), NEW j \in 1..Len(r), r[j] # 0 PROVE h < r[j]
        <4>1. 1 \in 1..Len(s) /\ j + 1 \in 1..Len(s) /\ 1 < j + 1 /\ r[j] = s[j + 1]
          <5>1. j + 1 \in 1..Len(s) /\ r[j] = s[j + 1]
            BY <2>1
          <5> QED
            BY <2>1, <5>1
        <4> QED
          BY <2>1, <3>2, <4>1 DEF Rising
      <3> QED
        BY <3>1, <3>2 DEF Rising, Precedes
    <2>4. \A t : Below(s, t) => Below(r, t) /\ Precedes(h, t)
      <3>1. 1 \in 1..Len(s)
        BY <2>1
      <3>2. \A t : Below(s, t) => Below(r, t)
        BY <2>1, Zenon DEF Below
      <3>3. \A t : Below(s, t) => Precedes(h, t)
        BY <2>1, <3>1, Zenon DEF Below, Precedes
      <3> QED
        BY <3>2, <3>3, Zenon
    <2>5. \A t : Below(t, s) => Below(t, r) /\ Tops(t, h)
      <3>1. 1 \in 1..Len(s)
        BY <2>1
      <3>2. \A t : Below(t, s) => Below(t, r)
        BY <2>1, Zenon DEF Below
      <3>3. \A t : Below(t, s) => Tops(t, h)
        BY <2>1, <3>1, Zenon DEF Below, Tops
      <3> QED
        BY <3>2, <3>3, Zenon
    <2>6. \A x : Has(s, x) => x = h \/ Has(r, x)
      BY <2>1, Zenon DEF Has
    <2> QED
      BY <2>2, <2>3, <2>4, <2>5, <2>6
  <1>3. Tail(s) \in Seq(Nat) /\ Head(s) \in Nat
    BY <1>1
  <1>4. /\ \A n \in Nat : Upto(s, n) => Upto(Tail(s), n) /\ Head(s) <= n
        /\ Rising(s) => Rising(Tail(s)) /\ Precedes(Head(s), Tail(s))
    BY <1>2, Zenon
  <1>5. /\ \A t : Below(s, t) => Below(Tail(s), t) /\ Precedes(Head(s), t)
        /\ \A t : Below(t, s) => Below(t, Tail(s)) /\ Tops(t, Head(s))
    BY <1>2, Zenon
  <1>6. \A x : Has(s, x) => x = Head(s) \/ Has(Tail(s), x)
    BY <1>2, Zenon
  <1>7. \A f \in Nat : Precedes(f, s) => Precedes(f, Tail(s)) /\ (Head(s) # 0 => f < Head(s))
    <2>1. ASSUME NEW f \in Nat, Precedes(f, s)
          PROVE  Precedes(f, Tail(s)) /\ (Head(s) # 0 => f < Head(s))
      <3>1. ASSUME NEW r, r = Tail(s), NEW h, h = Head(s)
            PROVE  Precedes(f, r) /\ (h # 0 => f < h)
        BY <1>1, <2>1, <3>1 DEF Precedes
      <3> QED
        BY <3>1, Zenon
    <2> QED
      BY <2>1
  <1> QED
    BY <1>3, <1>4, <1>5, <1>6, <1>7

LEMMA OnWireSteps ==
  ASSUME NEW w \in Seq(EpcDgram)
  PROVE  /\ OnWire(w) \in Seq(Nat)
         /\ \A d \in EpcDgram : OnWire(Append(w, d)) = Append(OnWire(w), OfDgram(d))
         /\ w # <<>> => /\ OnWire(w) # <<>> /\ OnWire(Tail(w)) = Tail(OnWire(w))
                        /\ OfDgram(Head(w)) = Head(OnWire(w))
  <1>0. \A d \in EpcDgram : OfDgram(d) \in Nat
    BY DgramTypes, Zenon
  <1>1. OnWire(w) \in Seq(Nat) /\ Len(OnWire(w)) = Len(w)
        /\ \A i \in 1..Len(w) : OnWire(w)[i] = OfDgram(w[i])
    BY <1>0 DEF OnWire
  <1>2. ASSUME NEW d \in EpcDgram PROVE OnWire(Append(w, d)) = Append(OnWire(w), OfDgram(d))
    BY <1>0 DEF OnWire
  <1>3. ASSUME w # <<>>
        PROVE  /\ OnWire(w) # <<>> /\ OnWire(Tail(w)) = Tail(OnWire(w))
               /\ OfDgram(Head(w)) = Head(OnWire(w))
    BY <1>3, <1>0 DEF OnWire
  <1> QED
    BY <1>1, <1>2, <1>3

LEMMA AskedSteps ==
  ASSUME NEW q \in Seq(IcmMessage)
  PROVE  /\ Asked(q) \in Seq(Nat)
         /\ \A m \in IcmMessage : Asked(Append(q, m)) = Append(Asked(q), OfMessage(m))
         /\ q # <<>> => /\ Asked(q) # <<>> /\ Asked(Tail(q)) = Tail(Asked(q))
                        /\ OfMessage(Head(q)) = Head(Asked(q))
  <1>0. \A m \in IcmMessage : OfMessage(m) \in Nat
    BY MessageTypes, Zenon
  <1>1. Asked(q) \in Seq(Nat) /\ Len(Asked(q)) = Len(q)
    BY <1>0 DEF Asked
  <1>2. ASSUME NEW m \in IcmMessage PROVE Asked(Append(q, m)) = Append(Asked(q), OfMessage(m))
    BY <1>0 DEF Asked
  <1>3. ASSUME q # <<>>
        PROVE  /\ Asked(q) # <<>> /\ Asked(Tail(q)) = Tail(Asked(q))
               /\ OfMessage(Head(q)) = Head(Asked(q))
    BY <1>3, <1>0, SMTT(60) DEF Asked
  <1> QED
    BY <1>1, <1>2, <1>3
-----------------------------------------------------------------------------
\* A message is queued: the next answer, one with zero in it, or another message.
LEMMA Queued ==
  ASSUME NEW ts \in Seq(Nat), NEW h \in Nat, NEW w \in Seq(Nat), NEW q \in Seq(Nat),
         NEW n \in Nat, Ordered(ts, h, w, q, n)
  PROVE  /\ Ordered(ts, h, w, Append(q, n + 1), n + 1)
         /\ Ordered(ts, h, w, Append(q, 0), n)
         /\ Ordered(ts, h, w, Append(q, 0), n + 1)
         /\ Complete(ts, h, w, q, n) => Complete(ts, h, w, Append(q, n + 1), n + 1)
         /\ Complete(ts, h, w, q, n) => Complete(ts, h, w, Append(q, 0), n)
  <1>1. ASSUME NEW s \in Seq(Nat), Upto(s, n) PROVE Upto(s, n + 1) /\ Tops(s, n + 1)
    BY <1>1, SMTT(60) DEF Upto, Tops
  <1>2. ASSUME NEW s PROVE Tops(s, 0)
    BY DEF Tops
  <1>3. n + 1 \in Nat /\ n + 1 # 0 /\ h <= n + 1 /\ h < n + 1
    BY DEF Ordered
  <1>4. Ordered(ts, h, w, Append(q, n + 1), n + 1)
    BY <1>1, <1>3, Grown DEF Ordered
  <1>5. Ordered(ts, h, w, Append(q, 0), n)
    BY <1>2, Grown DEF Ordered
  <1>9. Ordered(ts, h, w, Append(q, 0), n + 1)
    <2>1. Upto(Append(q, 0), n) /\ Append(q, 0) \in Seq(Nat)
      BY <1>5 DEF Ordered
    <2> QED
      BY <1>1, <1>3, <1>5, <2>1 DEF Ordered
  <1>6. \A x \in 1..n+1 : x \in 1..n \/ x = n + 1
    OBVIOUS
  <1>7. Complete(ts, h, w, q, n) => Complete(ts, h, w, Append(q, n + 1), n + 1)
    <2> SUFFICES ASSUME Complete(ts, h, w, q, n), NEW x \in 1..n+1
                 PROVE  x <= Len(ts) \/ x = h \/ Has(w, x) \/ Has(Append(q, n + 1), x)
      BY DEF Complete
    <2>1. Has(Append(q, n + 1), x) <=> Has(q, x) \/ x = n + 1
      BY <1>3, Grown, Zenon
    <2> QED
      BY <1>6, <2>1 DEF Complete
  <1>8. Complete(ts, h, w, q, n) => Complete(ts, h, w, Append(q, 0), n)
    BY Grown DEF Complete
  <1> QED
    BY <1>4, <1>5, <1>7, <1>8, <1>9

\* ICM takes a message and sends nothing, or the datagram gets lost.
LEMMA Skipped ==
  ASSUME NEW ts \in Seq(Nat), NEW h \in Nat, NEW w \in Seq(Nat), NEW q \in Seq(Nat),
         NEW n \in Nat, q # <<>>, Ordered(ts, h, w, q, n)
  PROVE  /\ Ordered(ts, h, w, Tail(q), n)
         /\ Head(q) = 0 /\ Complete(ts, h, w, q, n) => Complete(ts, h, w, Tail(q), n)
  <1>1. Ordered(ts, h, w, Tail(q), n)
    BY Shrunk DEF Ordered
  <1>2. Head(q) = 0 /\ Complete(ts, h, w, q, n) => Complete(ts, h, w, Tail(q), n)
    <2>1. \A x \in 1..n : x # 0
      OBVIOUS
    <2> QED
      BY <2>1, Shrunk DEF Complete
  <1> QED
    BY <1>1, <1>2

\* ICM takes a message and its datagram arrives.
LEMMA Forwarded ==
  ASSUME NEW ts \in Seq(Nat), NEW h \in Nat, NEW w \in Seq(Nat), NEW q \in Seq(Nat),
         NEW n \in Nat, q # <<>>, Ordered(ts, h, w, q, n)
  PROVE  /\ Ordered(ts, h, Append(w, Head(q)), Tail(q), n)
         /\ Complete(ts, h, w, q, n) => Complete(ts, h, Append(w, Head(q)), Tail(q), n)
  <1>1. Head(q) \in Nat
    BY Shrunk
  <1>2. Ordered(ts, h, Append(w, Head(q)), Tail(q), n)
    BY <1>1, Grown, Shrunk, Zenon DEF Ordered
  <1>3. Complete(ts, h, w, q, n) => Complete(ts, h, Append(w, Head(q)), Tail(q), n)
    BY <1>1, Grown, Shrunk, SMTT(60) DEF Complete
  <1> QED
    BY <1>2, <1>3

\* A user packet arrives.
LEMMA Arrived ==
  ASSUME NEW ts \in Seq(Nat), NEW h \in Nat, NEW w \in Seq(Nat), NEW q \in Seq(Nat),
         NEW n \in Nat, Ordered(ts, h, w, q, n)
  PROVE  /\ Ordered(ts, h, Append(w, 0), q, n)
         /\ Complete(ts, h, w, q, n) => Complete(ts, h, Append(w, 0), q, n)
  <1>1. ASSUME NEW s PROVE Tops(s, 0)
    BY DEF Tops
  <1>2. Precedes(0, q)
    BY DEF Precedes
  <1>3. Ordered(ts, h, Append(w, 0), q, n)
    BY <1>1, <1>2, Grown DEF Ordered
  <1>4. Complete(ts, h, w, q, n) => Complete(ts, h, Append(w, 0), q, n)
    BY Grown DEF Complete
  <1> QED
    BY <1>3, <1>4

\* The down thread takes a datagram, its hands being empty.
LEMMA Received ==
  ASSUME NEW ts \in Seq(Nat), NEW w \in Seq(Nat), NEW q \in Seq(Nat),
         NEW n \in Nat, w # <<>>, Ordered(ts, 0, w, q, n)
  PROVE  /\ Ordered(ts, Head(w), Tail(w), q, n)
         /\ Complete(ts, 0, w, q, n) => Complete(ts, Head(w), Tail(w), q, n)
  <1>1. Ordered(ts, Head(w), Tail(w), q, n)
    BY Shrunk DEF Ordered
  <1>2. Complete(ts, 0, w, q, n) => Complete(ts, Head(w), Tail(w), q, n)
    <2>1. \A x \in 1..n : x # 0
      OBVIOUS
    <2> QED
      BY <2>1, Shrunk DEF Complete
  <1> QED
    BY <1>1, <1>2

\* The down thread stores the TEID in its hands.  If none is missing it is the
\* next one: a smaller one that is not in the table would be nowhere.
LEMMA Stored ==
  ASSUME NEW ts \in Seq(Nat), NEW h \in Nat \ {0}, NEW w \in Seq(Nat), NEW q \in Seq(Nat),
         NEW n \in Nat, Ordered(ts, h, w, q, n)
  PROVE  /\ Ordered(Append(ts, h), 0, w, q, n)
         /\ Complete(ts, h, w, q, n) => Complete(Append(ts, h), 0, w, q, n)
  <1>1. Complete(ts, h, w, q, n) => h = Len(ts) + 1
    <2> SUFFICES ASSUME Counts(ts),
                        \A x \in 1..n : x <= Len(ts) \/ x = h \/ Has(w, x) \/ Has(q, x)
                 PROVE  h = Len(ts) + 1
      BY DEF Complete
    <2>0. Len(ts) \in Nat /\ h <= n
      BY DEF Ordered
    <2>1. h > Len(ts)
      <3>1. CASE Len(ts) = 0
        BY <3>1
      <3>2. CASE Len(ts) # 0
        <4>1. Len(ts) \in 1..Len(ts) /\ ts[Len(ts)] = Len(ts)
          <5>1. Len(ts) \in 1..Len(ts)
            BY <2>0, <3>2
          <5> QED
            BY <5>1, Zenon DEF Counts
        <4> QED
          BY <2>0, <4>1 DEF Ordered, Tops
      <3> QED
        BY <3>1, <3>2
    <2>2. ASSUME NEW x \in Nat \ {0}, x < h, NEW s \in Seq(Nat), Precedes(h, s)
          PROVE  ~Has(s, x)
      <3> SUFFICES ASSUME NEW i \in 1..Len(s), s[i] = x PROVE FALSE
        BY DEF Has
      <3>1. h < s[i]
        BY <2>2, Zenon DEF Precedes
      <3> QED
        BY <2>2, <3>1
    <2>3. ASSUME h > Len(ts) + 1 PROVE FALSE
      <3>1. Len(ts) + 1 \in 1..n /\ Len(ts) + 1 \in Nat \ {0} /\ Len(ts) + 1 < h
            /\ ~(Len(ts) + 1 <= Len(ts))
        BY <2>0, <2>3
      <3>2. ~Has(w, Len(ts) + 1) /\ ~Has(q, Len(ts) + 1)
        BY <2>2, <3>1 DEF Ordered
      <3> QED
        BY <3>1, <3>2
    <2> QED
      BY <2>0, <2>1, <2>3
  <1>2. Ordered(Append(ts, h), 0, w, q, n)
    <2>1. Tops(Append(ts, h), 0)
      BY DEF Tops
    <2>2. Precedes(0, w) /\ Precedes(0, q)
      BY SMTT(60) DEF Precedes
    <2>3. \A i \in 1..Len(Append(ts, h)) : Append(ts, h)[i] # 0
      BY DEF Ordered
    <2>4. 0 <= n /\ h \in Nat
      OBVIOUS
    <2> QED
      BY <2>1, <2>2, <2>3, <2>4, Grown DEF Ordered
  <1>3. Complete(ts, h, w, q, n) => Complete(Append(ts, h), 0, w, q, n)
    <2> SUFFICES ASSUME Complete(ts, h, w, q, n), h = Len(ts) + 1
                 PROVE  Complete(Append(ts, h), 0, w, q, n)
      BY <1>1
    <2>1. Counts(Append(ts, h))
      BY DEF Complete, Counts
    <2>2. \A x \in 1..n : x <= Len(ts) \/ x = h => x <= Len(Append(ts, h))
      BY Grown, SMTT(60)
    <2> QED
      BY <2>1, <2>2 DEF Complete
  <1> QED
    BY <1>2, <1>3
-----------------------------------------------------------------------------
(***************************************************************************)
(* What the steps of ICM and of the down thread do.                        *)
(***************************************************************************)
LEMMA IcmEffect ==
  ASSUME ChainType, IcmSide
  PROVE  \/ /\ queue # <<>> /\ queue' = Tail(queue) /\ rxEpc' = rxEpc
            /\ lost' = TRUE \/ (OfMessage(Head(queue)) = 0 /\ lost' = lost)
         \/ /\ queue # <<>> /\ queue' = Tail(queue) /\ lost' = lost
            /\ \E d \in EpcDgram : /\ OfDgram(d) = OfMessage(Head(queue))
                                   /\ rxEpc' = Append(rxEpc, d)
  <1> DEFINE m == Head(queue)
  <1>0. queue \in Seq(IcmMessage) /\ rxEpc \in Seq(EpcDgram) /\ lost \in BOOLEAN
    BY DEF ChainType, TypeInv, TypeOK, SocketsType, EpcDgram
  <1>1. ASSUME NEW id, Icm!Process(id)
        PROVE  /\ queue # <<>> /\ queue' = Tail(queue) /\ queue' # queue /\ m.id = id
               /\ m \in IcmMessage
    <2>1. queue # <<>> /\ queue' = Tail(queue) /\ m.id = id
      BY <1>1 DEF Icm!Process
    <2>2. Len(Tail(queue)) = Len(queue) - 1 /\ Len(queue) \in Nat /\ m \in IcmMessage
      BY <1>0, <2>1
    <2>3. Len(Tail(queue)) # Len(queue)
      BY <2>2
    <2> QED
      BY <2>1, <2>2, <2>3, Zenon
  <1>2. CASE Icm!ProcessSetupResp
    <2>1. Icm!Process("S1AP_E_RAB_SETUP_RESP") /\ Icm!SendTo(Icm!Dgram(m.e_rab0))
      BY <1>2 DEF Icm!ProcessSetupResp
    <2>2. m.e_rab0 \in Int /\ queue' # queue /\ m.id # "OTHER"
      BY <1>1, <2>1, MessageTypes
    <2>3. lost' = (lost \/ rxEpc' = rxEpc)
      BY <2>2 DEF IcmSide, Sends
    <2>4. Icm!Dgram(m.e_rab0) \in EpcDgram /\ OfDgram(Icm!Dgram(m.e_rab0)) = OfMessage(m)
      BY <2>2, DgramTypes, Zenon DEF OfMessage
    <2>5. CASE rxEpc' = rxEpc
      BY <1>0, <1>1, <2>1, <2>3, <2>5, Zenon
    <2>6. CASE rxEpc' # rxEpc
      <3>1. rxEpc' = Append(rxEpc, Icm!Dgram(m.e_rab0))
        BY <2>1, <2>6 DEF Icm!SendTo, Icm!Deliver
      <3>2. lost' = lost
        BY <1>0, <2>3, <2>6, Zenon
      <3> QED
        BY <1>1, <2>1, <2>4, <3>1, <3>2, Zenon
    <2> QED
      BY <2>5, <2>6, Zenon
  <1>3. CASE Icm!ProcessOther
    <2>1. Icm!Process("OTHER") /\ rxEpc' = rxEpc
      BY <1>3 DEF Icm!ProcessOther
    <2>2. OfMessage(m) = 0 /\ m.id = "OTHER"
      BY <1>1, <2>1, MessageTypes, Zenon
    <2>3. lost' = lost
      BY <1>0, <2>2 DEF IcmSide, Sends
    <2> QED
      BY <1>1, <2>1, <2>2, <2>3
  <1> QED
    BY <1>2, <1>3, Zenon DEF IcmSide, Icm!IcmStep

LEMMA DownEffect ==
  ASSUME ChainType, DownStep
  PROVE  /\ closed' = closed
         /\ pc'["down"] = "control" => buf'["down"] \in ControlDgram
         /\ \/ /\ rxEpc # <<>> /\ rxEpc' = Tail(rxEpc) /\ teids' = teids
               /\ Held = 0 /\ Held' = OfDgram(Head(rxEpc))
            \/ /\ Held \in Nat \ {0} /\ Held' = 0 /\ rxEpc' = rxEpc
               /\ \E t \in Int : Ordinal(t) = Held /\ teids' = Append(teids, t)
            \/ UNCHANGED <<teids, rxEpc>> /\ Held = 0 /\ Held' = 0
  <1>0. /\ pc \in [Thread -> Label \cup MainLabel] /\ DOMAIN buf = Relay
        /\ rxEpc \in Seq(EpcDgram) /\ closed = {}
        /\ pc["down"] = "control" => buf["down"] \in ControlDgram
    BY DEF ChainType, TypeInv, TypeOK, ThreadsType, BufsType, SocketsType, EpcDgram
  <1>1. ASSUME NEW from, NEW to, Step("down", from, to)
        PROVE  pc["down"] = from /\ pc'["down"] = to
    BY <1>0, <1>1, Zenon DEF Step, Thread, Relay
  <1>2. ASSUME NEW from, NEW to, Step("down", from, to), from # "control", to # "control",
               UNCHANGED <<teids, rxEpc, closed>>
        PROVE  /\ closed' = closed
               /\ pc'["down"] = "control" => buf'["down"] \in ControlDgram
               /\ UNCHANGED <<teids, rxEpc>> /\ Held = 0 /\ Held' = 0
    BY <1>1, <1>2 DEF Held
  <1>3. CASE LoopTest("down")
    <2>1. PICK to \in {"done", "recv", "lock"} : Step("down", "loop", to)
      BY <1>3 DEF LoopTest
    <2>2. UNCHANGED <<teids, rxEpc, closed>>
      BY <1>3 DEF LoopTest, sockVars, tableVars
    <2> QED
      BY <1>2, <2>1, <2>2
  <1>4. CASE RecvError("down")
    BY <1>0, <1>4, SMTT(60) DEF RecvError
  <1>5. CASE AddLink("down")
    BY <1>2, <1>5, Zenon DEF AddLink, sockVars, tableVars
  <1>6. CASE AddPublish("down")
    BY <1>2, <1>6, Zenon DEF AddPublish, sockVars, tableVars
  <1>7. CASE SendDown
    BY <1>2, <1>7 DEF SendDown, sockVars, tableVars
  <1>8. CASE RecvDown
    <2> DEFINE d == Head(rxEpc)
    <2>1. /\ rxEpc # <<>> /\ rxEpc' = Tail(rxEpc) /\ teids' = teids /\ closed' = closed
          /\ Step("down", "recv", Branch("down", d)) /\ buf' = [buf EXCEPT !["down"] = d]
      BY <1>8 DEF RecvDown, tableVars
    <2>2. d \in EpcDgram /\ buf'["down"] = d
      BY <1>0, <2>1 DEF Relay
    <2>3. pc["down"] = "recv" /\ pc'["down"] = Branch("down", d)
      BY <1>1, <2>1
    <2>4. Held = 0
      BY <2>3 DEF Held
    <2>5. (pc'["down"] = "control") <=> (d.from = "icm")
      BY <2>3 DEF Branch
    <2>6. d.from = "icm" => d \in ControlDgram
      BY <2>2 DEF EpcDgram, DownlinkDgram
    <2>7. Held' = OfDgram(d)
      BY <2>2, <2>5, Zenon DEF Held, OfDgram
    <2> QED
      BY <2>1, <2>2, <2>4, <2>5, <2>6, <2>7, Zenon
  <1>9. CASE ControlStop
    <2>1. UNCHANGED <<teids, rxEpc, closed>> /\ buf["down"].teid = 0
          /\ Step("down", "control", "loop")
      BY <1>9 DEF ControlStop, sockVars, tableVars
    <2>2. pc["down"] = "control" /\ pc'["down"] = "loop"
      BY <1>1, <2>1, Zenon
    <2>3. Ordinal(0) = 0
      BY DEF Ordinal
    <2> QED
      BY <2>1, <2>2, <2>3, Zenon DEF Held
  <1>10. CASE ControlTeid
    <2>1. UNCHANGED <<rxEpc, closed>> /\ buf["down"].teid # 0
          /\ teids' = Append(teids, buf["down"].teid) /\ Step("down", "control", "loop")
      BY <1>10 DEF ControlTeid, sockVars
    <2>2. pc["down"] = "control" /\ pc'["down"] = "loop"
      BY <1>1, <2>1
    <2>3. Held = Ordinal(buf["down"].teid) /\ Held' = 0
      BY <2>2 DEF Held
    <2>4. buf["down"].teid \in Int
      BY <1>0, <2>2 DEF ControlDgram
    <2>5. Held \in Nat \ {0}
      BY <2>1, <2>3, <2>4, OrdinalType
    <2> QED
      BY <2>1, <2>2, <2>3, <2>4, <2>5, Zenon
  <1> QED
    BY <1>3, <1>4, <1>5, <1>6, <1>7, <1>8, <1>9, <1>10, Zenon DEF DownStep, RelayStep
-----------------------------------------------------------------------------
(***************************************************************************)
(* The invariants.                                                         *)
(***************************************************************************)
LEMMA ChainStart == ChainInit => ChainType /\ OrderInv /\ CompleteInv
  <1> SUFFICES ASSUME ChainInit PROVE ChainType /\ OrderInv /\ CompleteInv
    OBVIOUS
  <1>1. /\ queue = <<>> /\ rxEpc = <<>> /\ teids = <<>> /\ nBearer = 0 /\ lost = FALSE
        /\ closed = {} /\ pc["down"] = "loop"
    BY DEF ChainInit, Init, Icm!IcmInit, Thread, Relay
  <1>2. ChainType
    <2>1. TypeInv
      BY InitTypeInv DEF ChainInit
    <2>2. 0 \in 0..MaxBearer
      BY ChainAssumption
    <2>3. queue \in Seq(IcmMessage) /\ teids \in Seq(Int)
      BY <1>1
    <2>4. pc["down"] # "control" /\ lost \in BOOLEAN
      BY <1>1, Zenon
    <2> QED
      BY <1>1, <2>1, <2>2, <2>3, <2>4, Zenon DEF ChainType
  <1>3. Held = 0 /\ Taken(teids) = <<>> /\ OnWire(rxEpc) = <<>> /\ Asked(queue) = <<>>
    BY <1>1 DEF Held, Taken, OnWire, Asked
  <1>4. Ordered(<<>>, 0, <<>>, <<>>, 0)
    BY DEF Ordered, Upto, Rising, Below, Tops, Precedes
  <1>5. Complete(<<>>, 0, <<>>, <<>>, 0)
    BY DEF Complete, Counts
  <1> QED
    BY <1>1, <1>2, <1>3, <1>4, <1>5 DEF OrderInv, CompleteInv

\* A step that only puts datagrams into the receive buffer keeps the types.
LEMMA IcmTypes ==
  ASSUME TypeInv, rxEpc' \in Seq(EpcDgram),
         UNCHANGED <<run, pc, buf, numb_read, rxEnb, closed, teid_array, index_drb, anchor, next,
                     queue_mutex, arrived, teids, sent, late>>
  PROVE  TypeInv'
  <1>1. SocketsType'
    BY Zenon DEF TypeInv, TypeOK, SocketsType, EpcDgram
  <1>2. ThreadsType' /\ BufferOK'
    BY DEF TypeInv, TypeOK, ThreadsType, BufferOK
  <1> QED
    BY <1>1, <1>2, Frames DEF TypeInv, TypeOK

LEMMA SeqTypes ==
  ASSUME NEW S, NEW s \in Seq(S)
  PROVE  (\A e \in S : Append(s, e) \in Seq(S)) /\ (s # <<>> => Tail(s) \in Seq(S))
  BY SMTT(60)

LEMMA CopiedTypes ==
  ASSUME ChainType, NEW m \in IcmMessage, Copied(m), nBearer' \in 0..MaxBearer,
         lost' \in BOOLEAN
  PROVE  ChainType'
  <1>1. UNCHANGED vars /\ queue' = Append(queue, m)
    BY DEF Copied
  <1>2. TypeInv'
    BY <1>1, StutterType DEF ChainType
  <1> QED
    BY <1>1, <1>2 DEF ChainType, vars

LEMMA ChainTypeStep == ChainType /\ [ChainNext]_chainVars => ChainType'
  <1> SUFFICES ASSUME ChainType, [ChainNext]_chainVars PROVE ChainType'
    OBVIOUS
  <1>0. /\ TypeInv /\ queue \in Seq(IcmMessage) /\ rxEpc \in Seq(EpcDgram)
        /\ nBearer \in 0..MaxBearer /\ teids \in Seq(Int) /\ closed = {} /\ lost \in BOOLEAN
    BY DEF ChainType, TypeInv, TypeOK, SocketsType, EpcDgram
  <1>1. CASE BearerComesUp
    <2>1. nBearer' \in 0..MaxBearer /\ nBearer' \in Int
      BY <1>0, <1>1, ChainAssumption DEF BearerComesUp
    <2>2. Copied(Icm!SetupResp(1, nBearer')) /\ lost' = lost
      BY <1>1, SMTT(60) DEF BearerComesUp
    <2>3. Icm!SetupResp(1, nBearer') \in IcmMessage
      BY <2>1, MessageTypes
    <2> QED
      BY <1>0, <2>1, <2>2, <2>3, CopiedTypes, Zenon
  <1>2. CASE BearerFails
    <2>1. nBearer' \in 0..MaxBearer /\ -nBearer' \in Int /\ 0 \in Int
      BY <1>0, <1>2, ChainAssumption DEF BearerFails
    <2>2. PICK v \in {0, -nBearer'} : Copied(Icm!SetupResp(0, v)) /\ lost' = (lost \/ v = 0)
      BY <1>2, SMTT(60) DEF BearerFails
    <2>3. Icm!SetupResp(0, v) \in IcmMessage
      BY <2>1, MessageTypes
    <2>4. lost' \in BOOLEAN
      BY <2>2, Zenon
    <2> QED
      BY <2>1, <2>2, <2>3, <2>4, CopiedTypes, Zenon
  <1>3. CASE OtherMessageSent
    BY <1>0, <1>3, CopiedTypes, MessageTypes, Zenon DEF OtherMessageSent
  <1>4. CASE IcmSide
    <2>1. rxEpc' \in Seq(EpcDgram) /\ queue' \in Seq(IcmMessage) /\ lost' \in BOOLEAN
      <3>1. PICK d \in EpcDgram : rxEpc' = rxEpc \/ rxEpc' = Append(rxEpc, d)
        <4>1. Icm!Dgram(0) \in EpcDgram
          BY DgramTypes
        <4> QED
          BY <1>4, <4>1, IcmEffect, Zenon
      <3>2. rxEpc' \in Seq(EpcDgram)
        BY <1>0, <3>1, SeqTypes, Zenon
      <3>3. queue' = queue \/ (queue # <<>> /\ queue' = Tail(queue))
        BY <1>4, IcmEffect, Zenon
      <3>4. queue' \in Seq(IcmMessage)
        BY <1>0, <3>3, SeqTypes, ZenonT(60)
      <3>5. lost' \in BOOLEAN
        BY <1>4, Zenon DEF IcmSide
      <3> QED
        BY <3>2, <3>4, <3>5, SMTT(60)
    <2>2. /\ UNCHANGED <<run, pc, buf, numb_read, rxEnb, closed, teid_array, index_drb, anchor,
                         next, queue_mutex, arrived, teids, sent, late>>
          /\ nBearer' = nBearer
      BY <1>4 DEF IcmSide, rrcVars
    <2>3. TypeInv'
      BY <1>0, <2>1, <2>2, IcmTypes, Zenon
    <2> QED
      BY <2>1, <2>2, <2>3 DEF ChainType
  <1>5. CASE TerminalStep
    <2>1. DownStep /\ UNCHANGED <<queue, nBearer, lost>>
      BY <1>5 DEF TerminalStep, rrcVars
    <2>2. TypeInv'
      BY <1>0, <2>1, SystemType, SMTT(60) DEF System
    <2>3. /\ closed' = closed
          /\ pc'["down"] = "control" => buf'["down"] \in ControlDgram
          /\ teids' = teids \/ \E t \in Int : teids' = Append(teids, t)
      BY <2>1, DownEffect
    <2>4. teids' \in Seq(Int)
      BY <1>0, <2>3, SeqTypes, Zenon
    <2> QED
      BY <2>1, <2>2, <2>3, <2>4, SMTT(60) DEF ChainType
  <1>6. CASE EpcSide
    <2>1. Environment /\ UNCHANGED <<queue, nBearer, lost>>
      BY <1>6 DEF EpcSide, Environment, rrcVars
    <2>2. UNCHANGED <<pc, buf, closed, teids>>
      BY <1>6 DEF EpcSide, EpcSends, Arrives, tableVars
    <2>3. TypeInv'
      BY <1>0, <2>1, EnvironmentType
    <2> QED
      BY <2>1, <2>2, <2>3 DEF ChainType
  <1>7. CASE UNCHANGED chainVars
    <2>1. UNCHANGED vars /\ UNCHANGED <<queue, nBearer, lost>>
      BY <1>7, Zenon DEF chainVars, rrcVars
    <2> QED
      BY <1>0, <2>1, StutterType DEF ChainType, vars
  <1> QED
    BY <1>1, <1>2, <1>3, <1>4, <1>5, <1>6, <1>7, Zenon DEF ChainNext

\* A message is copied to ICM: the places of the terminal stay as they are.
LEMMA CopiedPlaces ==
  ASSUME ChainType, NEW m \in IcmMessage, Copied(m)
  PROVE  /\ UNCHANGED <<teids, rxEpc>> /\ Held' = Held
         /\ OnWire(rxEpc)' = OnWire(rxEpc)
         /\ Asked(queue)' = Append(Asked(queue), OfMessage(m))
  <1>1. UNCHANGED <<teids, rxEpc, pc, buf>> /\ queue' = Append(queue, m)
    BY DEF Copied, vars
  <1>2. Asked(queue') = Append(Asked(queue), OfMessage(m))
    BY <1>1, AskedSteps, SMTT(60) DEF ChainType
  <1> QED
    BY <1>1, <1>2 DEF Held, OnWire, Asked

LEMMA OrderStep ==
  ChainType /\ OrderInv /\ CompleteInv /\ [ChainNext]_chainVars => OrderInv' /\ CompleteInv'
  <1> SUFFICES ASSUME ChainType, OrderInv, CompleteInv, [ChainNext]_chainVars
               PROVE  OrderInv' /\ CompleteInv'
    BY SMTT(60)
  <1> DEFINE T == Taken(teids)
             W == OnWire(rxEpc)
             Q == Asked(queue)
  <1>0. /\ rxEpc \in Seq(EpcDgram) /\ queue \in Seq(IcmMessage) /\ teids \in Seq(Int)
        /\ Held \in Nat /\ nBearer \in Nat
        /\ T \in Seq(Nat) /\ W \in Seq(Nat) /\ Q \in Seq(Nat)
    <2>1. /\ rxEpc \in Seq(EpcDgram) /\ queue \in Seq(IcmMessage) /\ teids \in Seq(Int)
          /\ nBearer \in Nat /\ (pc["down"] = "control" => buf["down"] \in ControlDgram)
      BY DEF ChainType, TypeInv, TypeOK, SocketsType, EpcDgram
    <2>2. Held \in Nat
      BY <2>1, OrdinalType, SMTT(60) DEF Held, ControlDgram
    <2> QED
      BY <2>1, <2>2, TakenSteps, OnWireSteps, AskedSteps, SMTT(60)
  <1>q. /\ Ordered(T, Held, W, Q, nBearer)
        /\ lost \/ Complete(T, Held, W, Q, nBearer)
    BY SMTT(60) DEF OrderInv, CompleteInv
  <1>c. ASSUME NEW ts, NEW h, NEW w, NEW q, NEW n, Ordered(ts, h, w, q, n),
               lost' \/ Complete(ts, h, w, q, n),
               Taken(teids)' = ts, Held' = h, OnWire(rxEpc)' = w, Asked(queue)' = q, nBearer' = n
        PROVE  OrderInv' /\ CompleteInv'
    BY <1>c, SMTT(60) DEF OrderInv, CompleteInv
  <1>t. ASSUME teids' = teids PROVE Taken(teids)' = T
    BY <1>t, SMTT(60) DEF Taken
  <1>1. CASE BearerComesUp \/ BearerFails
    <2>1. PICK v \in {nBearer', 0, -nBearer'}, nb \in {0, 1} :
              /\ nBearer' = nBearer + 1
              /\ Copied(Icm!SetupResp(nb, v))
              /\ IF v = 0 THEN lost' ELSE lost' = lost
      <3>1. CASE BearerComesUp
        <4>1. /\ nBearer' = nBearer + 1 /\ nBearer' # 0
              /\ Copied(Icm!SetupResp(1, nBearer')) /\ lost' = lost
          BY <1>0, <3>1 DEF BearerComesUp
        <4> QED
          BY <4>1, Zenon
      <3>2. CASE BearerFails
        <4>1. PICK v \in {0, -nBearer'} : /\ Copied(Icm!SetupResp(0, v))
                                          /\ lost' = (lost \/ v = 0)
          BY <3>2, SMTT(60) DEF BearerFails
        <4>2. nBearer' = nBearer + 1
          BY <3>2 DEF BearerFails
        <4>3. IF v = 0 THEN lost' ELSE lost' = lost
          <5>1. lost \in BOOLEAN
            BY DEF ChainType
          <5> QED
            BY <4>1, <5>1, Zenon
        <4>4. v \in {nBearer', 0, -nBearer'} /\ 0 \in {0, 1}
          OBVIOUS
        <4> QED
          BY <4>1, <4>2, <4>3, <4>4, Zenon
      <3> QED
        BY <1>1, <3>1, <3>2
    <2>2. /\ Icm!SetupResp(nb, v) \in IcmMessage
          /\ OfMessage(Icm!SetupResp(nb, v)) = IF v = 0 THEN 0 ELSE nBearer + 1
      <3>1. v \in Int /\ Ordinal(v) = IF v = 0 THEN 0 ELSE nBearer + 1
        <4>1. nBearer \in Nat /\ nBearer' = nBearer + 1
          BY <1>0, <2>1
        <4>2. v = nBearer' \/ v = 0 \/ v = -nBearer'
          OBVIOUS
        <4>3. v = nBearer + 1 \/ v = 0 \/ v = -(nBearer + 1)
          BY <4>1, <4>2
        <4> QED
          BY <4>1, <4>3 DEF Ordinal
      <3> QED
        BY <3>1, MessageTypes
    <2>3. /\ teids' = teids /\ Held' = Held
          /\ OnWire(rxEpc)' = W
          /\ Asked(queue)' = Append(Q, IF v = 0 THEN 0 ELSE nBearer + 1)
      BY <2>1, <2>2, CopiedPlaces
    <2> HIDE DEF T, W, Q
    <2>4. /\ Ordered(T, Held, W, Append(Q, nBearer + 1), nBearer + 1)
          /\ Ordered(T, Held, W, Append(Q, 0), nBearer + 1)
          /\ lost \/ Complete(T, Held, W, Append(Q, nBearer + 1), nBearer + 1)
      BY <1>0, <1>q, Queued
    <2>5. CASE v = 0
      BY <1>c, <1>t, <2>1, <2>3, <2>4, <2>5, Zenon
    <2>6. CASE v # 0
      BY <1>c, <1>t, <2>1, <2>3, <2>4, <2>6, Zenon
    <2> QED
      BY <2>5, <2>6
  <1>2. CASE OtherMessageSent
    <2>1. PICK m \in IcmMessage : Copied(m) /\ OfMessage(m) = 0 /\ UNCHANGED <<nBearer, lost>>
      BY <1>2, MessageTypes DEF OtherMessageSent
    <2>2. /\ teids' = teids /\ Held' = Held
          /\ OnWire(rxEpc)' = W /\ Asked(queue)' = Append(Q, 0)
      BY <2>1, CopiedPlaces
    <2> HIDE DEF T, W, Q
    <2>3. /\ Ordered(T, Held, W, Append(Q, 0), nBearer)
          /\ lost \/ Complete(T, Held, W, Append(Q, 0), nBearer)
      BY <1>0, <1>q, Queued
    <2> QED
      BY <1>c, <1>t, <2>1, <2>2, <2>3, Zenon
  <1>3. CASE IcmSide
    <2>1. UNCHANGED <<teids, pc, buf, nBearer>>
      BY <1>3 DEF IcmSide, rrcVars
    <2>2. Held' = Held
      BY <2>1 DEF Held
    <2>4. CASE /\ queue # <<>> /\ queue' = Tail(queue) /\ rxEpc' = rxEpc
               /\ lost' = TRUE \/ (OfMessage(Head(queue)) = 0 /\ lost' = lost)
      <3>1. /\ Q # <<>> /\ Asked(queue)' = Tail(Q) /\ OfMessage(Head(queue)) = Head(Q)
            /\ OnWire(rxEpc)' = W
        <4>1. Asked(queue') = Tail(Q) /\ Q # <<>> /\ OfMessage(Head(queue)) = Head(Q)
          BY <1>0, <2>4, AskedSteps
        <4> QED
          BY <2>4, <4>1 DEF Asked, OnWire
      <3> HIDE DEF T, W, Q
      <3>2. /\ Ordered(T, Held, W, Tail(Q), nBearer)
            /\ Head(Q) = 0 /\ Complete(T, Held, W, Q, nBearer) =>
                  Complete(T, Held, W, Tail(Q), nBearer)
        BY <1>0, <1>q, <3>1, Skipped
      <3>3. lost' \/ Complete(T, Held, W, Tail(Q), nBearer)
        BY <1>q, <2>4, <3>1, <3>2, SMTT(60)
      <3> QED
        BY <1>c, <1>t, <2>1, <2>2, <3>1, <3>2, <3>3, ZenonT(60)
    <2>5. CASE /\ queue # <<>> /\ queue' = Tail(queue) /\ lost' = lost
               /\ \E d \in EpcDgram : /\ OfDgram(d) = OfMessage(Head(queue))
                                      /\ rxEpc' = Append(rxEpc, d)
      <3>1. PICK d \in EpcDgram : /\ OfDgram(d) = OfMessage(Head(queue))
                                  /\ rxEpc' = Append(rxEpc, d)
        BY <2>5
      <3>2. /\ Q # <<>> /\ Asked(queue)' = Tail(Q) /\ OnWire(rxEpc)' = Append(W, Head(Q))
        <4>1. Asked(queue') = Tail(Q) /\ Q # <<>> /\ OfMessage(Head(queue)) = Head(Q)
          BY <1>0, <2>5, AskedSteps
        <4>2. OnWire(rxEpc') = Append(W, OfDgram(d))
          BY <1>0, <3>1, OnWireSteps
        <4> QED
          BY <3>1, <4>1, <4>2, ZenonT(60) DEF Asked, OnWire
      <3> HIDE DEF T, W, Q
      <3>3. /\ Ordered(T, Held, Append(W, Head(Q)), Tail(Q), nBearer)
            /\ lost \/ Complete(T, Held, Append(W, Head(Q)), Tail(Q), nBearer)
        BY <1>0, <1>q, <3>2, Forwarded, SMTT(60)
      <3> QED
        BY <1>c, <1>t, <2>1, <2>2, <2>5, <3>2, <3>3, Zenon
    <2> QED
      BY <1>3, <2>4, <2>5, IcmEffect, ZenonT(60)
  <1>4. CASE TerminalStep
    <2>1. DownStep /\ UNCHANGED <<queue, nBearer, lost>>
      BY <1>4 DEF TerminalStep, rrcVars
    <2>2. Asked(queue)' = Q
      BY <2>1, SMTT(60) DEF Asked
    <2>3. CASE /\ rxEpc # <<>> /\ rxEpc' = Tail(rxEpc) /\ teids' = teids
               /\ Held = 0 /\ Held' = OfDgram(Head(rxEpc))
      <3>1. W # <<>> /\ OnWire(rxEpc)' = Tail(W) /\ Held' = Head(W)
        <4>1. W # <<>> /\ OnWire(rxEpc') = Tail(W) /\ OfDgram(Head(rxEpc)) = Head(W)
          BY <1>0, <2>3, OnWireSteps
        <4> QED
          BY <2>3, <4>1 DEF OnWire
      <3> HIDE DEF T, W, Q
      <3>2. /\ Ordered(T, Head(W), Tail(W), Q, nBearer)
            /\ lost \/ Complete(T, Head(W), Tail(W), Q, nBearer)
        BY <1>0, <1>q, <2>3, <3>1, Received, SMTT(60)
      <3> QED
        BY <1>c, <1>t, <2>1, <2>2, <2>3, <3>1, <3>2, Zenon
    <2>4. CASE /\ Held \in Nat \ {0} /\ Held' = 0 /\ rxEpc' = rxEpc
               /\ \E t \in Int : Ordinal(t) = Held /\ teids' = Append(teids, t)
      <3>1. OnWire(rxEpc)' = W
        BY <2>4 DEF OnWire
      <3>2. Taken(teids)' = Append(T, Held)
        <4>1. Taken(teids') = Append(T, Held)
          BY <1>0, <2>4, TakenSteps, Zenon
        <4> QED
          BY <4>1 DEF Taken
      <3> HIDE DEF T, W, Q
      <3>3. /\ Ordered(Append(T, Held), 0, W, Q, nBearer)
            /\ lost \/ Complete(Append(T, Held), 0, W, Q, nBearer)
        BY <1>0, <1>q, <2>4, Stored
      <3> QED
        BY <1>c, <2>1, <2>2, <2>4, <3>1, <3>2, <3>3, ZenonT(60)
    <2>5. CASE UNCHANGED <<teids, rxEpc>> /\ Held = 0 /\ Held' = 0
      BY <1>c, <1>t, <1>q, <2>1, <2>2, <2>5
    <2> QED
      BY <2>1, <2>3, <2>4, <2>5, DownEffect, SMTT(60)
  <1>5. CASE EpcSide
    <2>1. PICK p \in UserPort : EpcSends(p)
      BY <1>5 DEF EpcSide
    <2>2. UNCHANGED <<queue, nBearer, lost, pc, buf, teids>>
      BY <1>5, Zenon DEF EpcSide, EpcSends, Arrives, rrcVars, tableVars
    <2>3. Held' = Held /\ Asked(queue)' = Q
      BY <2>2 DEF Held, Asked
    <2>4. OnWire(rxEpc)' = W \/ OnWire(rxEpc)' = Append(W, 0)
      <3>1. Downlink(p, arrived'["epc"]) \in DownlinkDgram
        <4>1. arrived'["epc"] \in 1..MaxDown
          BY <2>1, ArrivesType, BoundsAssumption DEF EpcSends, ChainType, TypeInv
        <4> QED
          BY <4>1, PortAssumption, Zenon DEF Downlink, DownlinkDgram
      <3>2. PICK d \in EpcDgram : OfDgram(d) = 0 /\ (rxEpc' = rxEpc \/ rxEpc' = Append(rxEpc, d))
        BY <2>1, <3>1, DgramTypes DEF EpcSends, Deliver
      <3>3. OnWire(rxEpc') = W \/ OnWire(rxEpc') = Append(W, 0)
        BY <1>0, <3>2, OnWireSteps, Zenon
      <3> QED
        BY <3>3, ZenonT(60) DEF OnWire
    <2> HIDE DEF T, W, Q
    <2>5. /\ Ordered(T, Held, Append(W, 0), Q, nBearer)
          /\ lost \/ Complete(T, Held, Append(W, 0), Q, nBearer)
      BY <1>0, <1>q, Arrived
    <2> QED
      BY <1>c, <1>t, <1>q, <2>2, <2>3, <2>4, <2>5, Zenon
  <1>6. CASE UNCHANGED chainVars
    BY <1>6, Zenon DEF chainVars, rrcVars, vars, OrderInv, CompleteInv, Held, Taken, OnWire,
                         Asked
  <1> QED
    BY <1>1, <1>2, <1>3, <1>4, <1>5, <1>6, SMTT(60) DEF ChainNext
-----------------------------------------------------------------------------
(***************************************************************************)
(* The theorems.                                                           *)
(***************************************************************************)
\* Behind ICM, too, the terminal's table and what it sends are as they should be.
LEMMA ChainTable ==
  ChainType /\ TableOK /\ SentOK /\ [ChainNext]_chainVars => TableOK' /\ SentOK'
  <1> SUFFICES ASSUME ChainType, TableOK, SentOK, [ChainNext]_chainVars
               PROVE  TableOK' /\ SentOK'
    OBVIOUS
  <1>1. CASE [Next]_vars
    BY <1>1, TableStep, Zenon DEF ChainType
  <1>2. CASE IcmSide
    <2>1. UNCHANGED <<teid_array, index_drb, teids, sent>>
      BY <1>2 DEF IcmSide
    <2> QED
      BY <2>1, SMTT(60) DEF TableOK, LatestAt, SentOK, RewriteUsesFullSet
  <1>3. CASE ChainNext /\ ~IcmSide
    <2>1. CASE BearerComesUp \/ BearerFails \/ OtherMessageSent
      BY <1>1, <2>1 DEF BearerComesUp, BearerFails, OtherMessageSent, Copied
    <2>2. CASE TerminalStep
      BY <1>1, <2>2, SMTT(60) DEF TerminalStep, Next, System
    <2>3. CASE EpcSide
      BY <1>1, <2>3 DEF EpcSide, Next, Environment
    <2> QED
      BY <1>3, <2>1, <2>2, <2>3, SMTT(60) DEF ChainNext
  <1>4. CASE UNCHANGED chainVars
    BY <1>1, <1>4 DEF chainVars
  <1> QED
    BY <1>2, <1>3, <1>4

\* Whatever gets lost between ICM and the terminal and whatever ICM reads from
\* answers without a bearer, each answer leaves at most one entry in the
\* terminal's table, and the entries are in the order of the answers.
THEOREM TeidOrderCorrect == ChainSpec => []TeidsInOrder
  <1> DEFINE Inv == ChainType /\ OrderInv /\ CompleteInv
  <1>1. ChainInit => Inv
    BY ChainStart
  <1>2. Inv /\ [ChainNext]_chainVars => Inv'
    BY ChainTypeStep, OrderStep
  <1>3. Inv => TeidsInOrder
    <2> SUFFICES ASSUME ChainType, OrderInv PROVE TeidsInOrder
      OBVIOUS
    <2>1. teids \in Seq(Int) /\ nBearer \in Nat
      BY SMTT(60) DEF ChainType
    <2> DEFINE T == Taken(teids)
    <2>2. /\ Len(T) = Len(teids) /\ T \in Seq(Nat)
          /\ \A i \in 1..Len(teids) : T[i] = Ordinal(teids[i])
      BY <2>1, TakenSteps
    <2>3. (\A i \in 1..Len(T) : T[i] # 0) /\ Upto(T, nBearer) /\ Rising(T)
      BY DEF OrderInv, Ordered
    <2> HIDE DEF T
    <2>4. ASSUME NEW i \in 1..Len(teids) PROVE Ordinal(teids[i]) \in 1..nBearer
      <3>1. T[i] \in Nat
        BY <2>2
      <3> QED
        BY <2>1, <2>2, <2>3, <3>1 DEF Upto
    <2>5. ASSUME NEW i \in 1..Len(teids), NEW j \in 1..Len(teids), i < j
          PROVE  Ordinal(teids[i]) < Ordinal(teids[j])
      BY <2>2, <2>3, <2>5 DEF Rising
    <2> QED
      BY <2>4, <2>5 DEF TeidsInOrder
  <1> QED
    BY <1>1, <1>2, <1>3, PTL DEF ChainSpec

\* As long as no TEID is lost, a packet the terminal rewrites gets the TEID of
\* the bearer its port is meant for (what the answer held if that bearer
\* failed), however many bearers come up or fail and whatever user packets are
\* in between.
THEOREM MappingCorrect == ChainSpec => []MappedUnlessLost
  <1> DEFINE Inv == ChainType /\ OrderInv /\ CompleteInv /\ TableOK /\ SentOK
  <1>1. ChainInit => Inv
    BY ChainStart, TableInit DEF ChainInit
  <1>2. Inv /\ [ChainNext]_chainVars => Inv'
    BY ChainTypeStep, OrderStep, ChainTable, SMTT(60)
  <1>3. Inv => MappedUnlessLost
    <2> SUFFICES ASSUME Inv, ~lost,
                        NEW o \in sent, o.cfg >= MAX_DRB, o.port \in DrbPort, o.teid # Orig
                 PROVE  \E t \in 1..MaxBearer :
                            /\ o.teid \in {Net(t), Net(-t)}
                            /\ (t - 1) % MAX_DRB = o.port - PORT1
      BY DEF MappedUnlessLost
    <2> DEFINE i == o.port - PORT1
               c == o.cfg
               t == c - MAX_DRB + i + 1
    <2>1. /\ c \in Nat /\ c >= 3 /\ c <= Len(teids) /\ i \in 0..2
          /\ Len(teids) \in Nat /\ nBearer \in 0..MaxBearer
      <3>1. sent \subseteq SentPacket /\ teids \in Seq(Int) /\ nBearer \in 0..MaxBearer
        BY DEF ChainType, TypeInv, TypeOK, OutType
      <3>2. c \in Nat
        BY <3>1 DEF SentPacket
      <3>3. c <= Len(teids)
        BY DEF SentOK
      <3>4. i \in 0..2
        BY SMTT(60) DEF DrbPort, PORT1, PORT2, PORT3
      <3> QED
        BY <3>1, <3>2, <3>3, <3>4, SMTT(60) DEF MAX_DRB
    <2>2. c % 3 = 0 /\ o.teid = Net(teids[t])
      BY SMTT(60) DEF SentOK, RewriteUsesFullSet, MAX_DRB
    <2> HIDE DEF i, c
    <2>3. t \in 1..Len(teids) /\ (t - 1) % 3 = i
      <3>1. t = c - 3 + i + 1
        BY DEF MAX_DRB
      <3> QED
        BY <2>1, <2>2, <3>1, SMTT(60)
    <2> HIDE DEF t
    <2>4. Ordinal(teids[t]) = t /\ t <= nBearer
      <3>1. Taken(teids)[t] = Ordinal(teids[t]) /\ Len(Taken(teids)) = Len(teids)
        BY <2>3, TakenSteps DEF ChainType
      <3> QED
        BY <2>3, <3>1 DEF CompleteInv, Complete, Counts, OrderInv, Ordered, Upto
    <2>6. teids[t] \in {t, -t}
      <3>1. teids[t] \in Int
        BY <2>3 DEF ChainType
      <3> QED
        BY <2>4, <3>1 DEF Ordinal
    <2>5. t \in 1..MaxBearer
      BY <2>1, <2>3, <2>4, ChainAssumption
    <2> QED
      BY <2>2, <2>3, <2>5, <2>6, SMTT(60) DEF i, MAX_DRB
  <1> QED
    BY <1>1, <1>2, <1>3, PTL DEF ChainSpec
=============================================================================
