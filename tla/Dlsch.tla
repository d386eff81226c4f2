-------------------------------- MODULE Dlsch --------------------------------
(***************************************************************************)
(* The downlink scheduler of the eNB's MAC for one UE                      *)
(* (src/openairinterface5g/openair2/LAYER2/MAC/eNB_scheduler_dlsch.c,      *)
(* schedule_ue_spec()).  In every subframe the scheduler polls the RLC     *)
(* entities of the bearers in the order of a gate list of 20 subframes,    *)
(* takes the RLC PDUs of the bearers apart, puts their data fields into    *)
(* one RLC PDU of the default bearer, the only one the UE knows, and       *)
(* sends it in a transport block.                                          *)
(*                                                                         *)
(* RLC PDUs are those of unacknowledged mode with 10-bit numbers: two      *)
(* bytes, an 11-bit length with an extension bit for every data field but  *)
(* the last (Header), then the fields.  FI says whether the first field    *)
(* continues a packet (2) and whether the last one is continued (1).       *)
(*                                                                         *)
(* External, modelled as the scheduler uses it: the RLC entities, which    *)
(* fill what they are asked for; HARQ feedback; the UE, whose RLC joins    *)
(* segments of consecutive PDUs.  The rrc_release flags, statistics, DRX,  *)
(* power control and the contents of the DCI are left out.                 *)
(***************************************************************************)
EXTENDS Integers, Sequences, FiniteSets, FiniteSetsExt

CONSTANTS
    get_TBS_DL(_, _),   \* bytes of a transport block, by MCS and resource blocks
    Mcs1,               \* dlsch_mcs1
    MinRbUnit,          \* min_rb_unit
    Grants,             \* [available, ta_len, srb]: resource blocks the pre-processor
                        \* allots, bytes of a timing advance command, data on the SRBs
    Sizes,              \* lcid -> sizes of the packets that may arrive for it
    dl_pow_off,         \* 0 if the power is shared with another UE
    NHarq,              \* HARQ processes, 8 in FDD
    tdd_sfa,            \* subframeAssignment, or NoTdd
    NoTdd,
    Before,             \* PDUs that may have been sent before the start
    Backlog,            \* bearer -> sizes of the packets that wait at the start, the
                        \* possible ones
    MaxPackets,         \* bound: packets that arrive or wait at the start
    MaxLoss             \* bound: transport blocks that are lost

DTCH == 3               \* the default bearer; 1 and 2 are DCCH and DCCH1
NB_RB_MAX == 14
Dedicated == 4..6
Bearer == {DTCH} \cup Dedicated
Cycle == 20             \* subframes of the gate list
Period == Cycle * NHarq \* after which gate and HARQ process come together again
SnMod == 1024           \* numbers an RLC PDU has

ASSUME BoundAssumption ==
    /\ NHarq \in Nat \ {0} /\ dl_pow_off \in Nat /\ Before \subseteq Nat
    /\ MaxLoss \in 0..(SnMod - 2) /\ MaxPackets \in Nat
    /\ Grants \subseteq [available : Nat \ {0}, ta_len : {0, 2}, srb : Seq(Nat)]
    /\ MinRbUnit \in Nat \ {0} /\ Mcs1 \in 0..28
    /\ \A grant \in Grants : get_TBS_DL(Mcs1, grant.available) \in Nat
    /\ Sizes \in [Bearer -> SUBSET (Nat \ {0})] /\ Backlog \subseteq [Bearer -> Seq(Nat \ {0})]

VARIABLES
    t,          \* frameP*10 + subframeP, modulo Period
    queue,      \* bearer -> its RLC entity's packets: [n, size, sent]
    fi_ind,     \* eNB_UE_stats->fi_ind
    sn,         \* eNB_UE_stats->sn
    round,      \* HARQ process -> 8 when it is free
    tb,         \* what the subframe before this one sent, see Summary
    ue,         \* the UE's RLC: number of its last PDU, unfinished packet
    arrived,    \* history: bearer -> packets that have arrived
    lost,       \* history: transport blocks that were lost
    delivered,  \* history: the packets the UE has put together
    harmed      \* history: circumstances in which the merge goes wrong, see Harms

vars == <<t, queue, fi_ind, sn, round, tb, ue, arrived, lost, delivered, harmed>>

NoTb == {}

Init ==
    /\ t = 0
    /\ \E q \in Backlog :
          /\ queue = [b \in Bearer |-> [i \in DOMAIN q[b] |-> [n |-> i, size |-> q[b][i], sent |-> 0]]]
          /\ arrived = [b \in Bearer |-> Len(q[b])]
    /\ fi_ind = 0 /\ sn \in Before
    /\ round = [p \in 0..(NHarq - 1) |-> 8]
    /\ tb = NoTb
    /\ ue = [sn |-> sn % SnMod, part |-> <<>>]
    /\ lost = 0
    /\ delivered = <<>> /\ harmed = {}
-----------------------------------------------------------------------------
(***************************************************************************)
(* The gate list.                                                          *)
(***************************************************************************)
\* The bearer that has the subframe besides the default one.
Gate(s) ==
    CASE s % Cycle \in {0, 5, 10, 15} -> 4
      [] s % Cycle \in {1, 11}        -> 5
      [] s % Cycle = 2                -> 6
      [] OTHER                        -> DTCH

\* Mutant of prio2lcid_array: the unfinished packet is not looked at.
BugPrio(s) == <<13, 12, 11, 10, 9, 8, 7, Gate(s), Gate(s), Gate(s), DTCH>>

\* The bearer whose packet was cut goes first, unless it is the default one.
prio2lcid_array(s) ==
    <<13, 12, 11, 10, 9, 8, IF fi_ind \notin {0, DTCH} THEN fi_ind ELSE 7,
      Gate(s), Gate(s), Gate(s), DTCH>>

\* Subframes in which TDD configuration tdd_sfa lets the scheduler act.
DlSubframe(s) ==
    LET c == s % 10 IN
    \/ tdd_sfa = NoTdd
    \/ c \in {0, 5}
    \/ c = 3 /\ tdd_sfa \in {2, 5}
    \/ c = 4 /\ tdd_sfa \in {1, 2, 4, 5}
    \/ c \in {6, 7} /\ tdd_sfa \in {3, 4, 5}
    \/ c = 8 /\ tdd_sfa \in {2, 3, 4, 5}
    \/ c = 9 /\ tdd_sfa # 0
-----------------------------------------------------------------------------
(***************************************************************************)
(* RLC PDUs: [lcid, fi, data], where a data field is bytes from+1 ..       *)
(* from+len of packet n of a bearer, which has size bytes.                 *)
(***************************************************************************)
\* Sums and concatenations, as recursive functions.
Sums(lens) ==
    LET f[k \in 0..Len(lens)] == IF k = 0 THEN 0 ELSE f[k - 1] + lens[k] IN f
Total(lens) == Sums(lens)[Len(lens)]
Concat(seqs) ==
    LET f[k \in 0..Len(seqs)] == IF k = 0 THEN <<>> ELSE f[k - 1] \o seqs[k] IN f[Len(seqs)]
Last(s) == s[Len(s)]
Front(s) == SubSeq(s, 1, Len(s) - 1)
Lengths(data) == [i \in DOMAIN data |-> data[i].len]

\* Bytes of the header of an RLC PDU with n data fields.
Header(n) == 2 + (3 * (n - 1) + 1) \div 2

Length(pdu) ==
    IF pdu.data = <<>> THEN 0 ELSE Header(Len(pdu.data)) + Total(Lengths(pdu.data))

Left(p) == p.size - p.sent
Field(b, p, len) ==
    [lcid |-> b, n |-> p.n, from |-> p.sent, len |-> len, size |-> p.size]

\* mac_rlc_data_req(): whole packets while they fit into room bytes, then a
\* part of the next one if a byte of it fits; nothing if no byte fits.
RlcPdu(b, q, room) ==
    LET lens == [i \in DOMAIN q |-> Left(q[i])]
        Used(k) == Sums(lens)[k]
        whole == Max({k \in 0..Len(q) : k = 0 \/ Header(k) + Used(k) <= room})
        rest == room - Header(whole + 1) - Used(whole)
        cut == whole < Len(q) /\ rest > 0
    IN  [pdu |-> [lcid |-> b,
                  fi |-> (IF Head(q).sent > 0 THEN 2 ELSE 0) + (IF cut THEN 1 ELSE 0),
                  data |-> [i \in 1..whole |-> Field(b, q[i], lens[i])]
                           \o IF cut THEN <<Field(b, q[whole + 1], rest)>> ELSE <<>>],
         left |-> LET s == SubSeq(q, whole + 1, Len(q)) IN
                  IF cut THEN [s EXCEPT ![1].sent = @ + rest] ELSE s]
-----------------------------------------------------------------------------
(***************************************************************************)
(* Polling.  got holds the lengths of the SDUs on the SRBs, the PDUs of    *)
(* the DTCHs, and the counters of the code.                                *)
(***************************************************************************)
SubheaderLen(len) == IF len < 128 THEN 2 ELSE 3

Room(got, tbs, ta_len) == tbs - ta_len - got.header_length_total - got.sdu_length_total - 3

Count(got, len) ==
    [got EXCEPT !.header_length_total = @ + SubheaderLen(len),
                !.header_length_last = SubheaderLen(len),
                !.sdu_length_total = @ + len]

\* DCCH or DCCH1 with len bytes in its RLC entity.
PollSrb(got, len, tbs, ta_len) ==
    LET room == Room(got, tbs, ta_len)
        l == IF len < room THEN len ELSE room
    IN  IF room > 0 /\ len > 0
        THEN [Count(got, l) EXCEPT !.srb = Append(@, l)]
        ELSE got

\* Bearers 7 to 13 are not set up and have no data.
PollDtch(got, b, tbs, ta_len) ==
    LET room == Room(got, tbs, ta_len) IN
    IF b \in Bearer /\ room > 0 /\ got.queue[b] # <<>>
    THEN LET r == RlcPdu(b, got.queue[b], room) IN
         [Count(got, Length(r.pdu)) EXCEPT !.pdus = Append(@, r.pdu), !.queue[b] = r.left]
    ELSE got

\* All polls of a subframe: once there is no room there is none for the rest.
NoPolls == [header_length_total |-> 0, header_length_last |-> 0,
            sdu_length_total |-> 0, srb |-> <<>>, pdus |-> <<>>, queue |-> queue]

PollSrbs(grant, tbs) ==
    LET f[i \in 0..Len(grant.srb)] ==
            IF i = 0 THEN NoPolls ELSE PollSrb(f[i - 1], grant.srb[i], tbs, grant.ta_len)
    IN  f[Len(grant.srb)]

PollDtchs(grant, tbs) ==
    LET f[i \in 0..(NB_RB_MAX - DTCH)] ==
            IF i = 0 THEN PollSrbs(grant, tbs)
            ELSE PollDtch(f[i - 1], prio2lcid_array(t)[i], tbs, grant.ta_len)
    IN  f[NB_RB_MAX - DTCH]

Poll(grant) ==
    LET all == PollDtchs(grant, get_TBS_DL(Mcs1, grant.available))
    IN  \* the last header has no length field
        IF all.header_length_total > 0
        THEN [all EXCEPT !.header_length_total = @ - all.header_length_last + 1]
        ELSE all
-----------------------------------------------------------------------------
(***************************************************************************)
(* Resource blocks and MCS for need bytes: add resource blocks until the   *)
(* bytes fit, lower the MCS while they still do, raise it again if they    *)
(* do not, if dl_pow_off = 0 only up to 16.                                *)
(***************************************************************************)
Transport(need, available) ==
    LET first == IF Mcs1 = 0 THEN 4 ELSE MinRbUnit
        tried == {first} \cup {n \in first..available : (n - first) % MinRbUnit = 0}
        enough == {n \in tried : get_TBS_DL(Mcs1, n) >= need}
        nb_rb == IF enough # {} THEN Min(enough) ELSE available
        low == CHOOSE m \in 0..Mcs1 :
                   /\ m = 0 \/ get_TBS_DL(m, nb_rb) <= need
                   /\ \A k \in (m + 1)..Mcs1 : get_TBS_DL(k, nb_rb) > need
        top == IF dl_pow_off = 0 THEN 16 ELSE 28
        mcs == CHOOSE m \in low..28 :
                   /\ m >= top \/ get_TBS_DL(m, nb_rb) >= need
                   /\ \A k \in low..(m - 1) : k < top /\ get_TBS_DL(k, nb_rb) < need
    IN  get_TBS_DL(mcs, nb_rb)

\* The argument short_padding is an unsigned char: a padding of -254, say, is 2.
ShortPadding(padding) == IF padding % 256 \in {1, 2} THEN padding % 256 ELSE 0

\* Mutant of generate_dlsch_header: every subheader has a length.
BugHeader(sdu_lengths, ta_len, padding, post_padding) ==
    ShortPadding(padding) + ta_len
        + Total([i \in DOMAIN sdu_lengths |-> SubheaderLen(sdu_lengths[i])])
        + (IF post_padding THEN 1 ELSE 0)

\* Bytes of the MAC header: padding subheaders in front, the timing advance
\* command, a subheader per SDU.  The last one has a length only if a padding
\* subheader follows it.
generate_dlsch_header(sdu_lengths, ta_len, padding, post_padding) ==
    LET n == Len(sdu_lengths)
        subheaders == Total([i \in 1..n |-> IF i < n \/ post_padding
                                            THEN SubheaderLen(sdu_lengths[i]) ELSE 1])
    IN  ShortPadding(padding) + ta_len + subheaders
            + (IF post_padding THEN 1 ELSE 0)

\* External: the header of an RLC PDU with number num and data fields of the
\* lengths lens, 12 bits for each field but the last.
RlcHeader(fi, num, lens) ==
    LET n == Len(lens)
        Li(k) == lens[k] + IF k < n - 1 THEN 2048 ELSE 0
        Nibble(j) == IF j > 3 * (n - 1) THEN 0
                     ELSE (Li((j + 2) \div 3) \div (16 ^ (2 - ((j - 1) % 3)))) % 16
    IN  <<8 * fi + (IF n > 1 THEN 4 ELSE 0) + num \div 256, num % 256>>
            \o [i \in 1..(Header(n) - 2) |-> 16 * Nibble(2 * i - 1) + Nibble(2 * i)]

\* The lengths of the data fields of an RLC PDU of len bytes whose header is b:
\* odd E/LI fields start with a byte, even ones in the middle of one.
ReadLengths(b, len) ==
    LET NextLi(r, k) ==
            IF r.e = 0 THEN r
            ELSE IF k % 2 = 1
            THEN [pos |-> r.pos + 2, e |-> b[r.pos + 3] \div 128,
                  lens |-> Append(r.lens, 16 * (b[r.pos + 3] % 128) + b[r.pos + 4] \div 16)]
            ELSE [pos |-> r.pos + 1, e |-> (b[r.pos + 2] \div 8) % 2,
                  lens |-> Append(r.lens, 256 * (b[r.pos + 2] % 8) + b[r.pos + 3])]
        read[k \in 0..Len(b)] ==
            IF k = 0 THEN [pos |-> 0, e |-> (b[1] \div 4) % 2, lens |-> <<>>]
            ELSE NextLi(read[k - 1], k)
        all == read[Len(b)]
    IN  Append(all.lens, len - (all.pos + 2) - Total(all.lens))

\* Append an E/LI field to the header under construction h.
WriteLi(h, s_len) ==
    IF h.total % 2 = 0
    THEN [pos |-> h.pos + 1, total |-> h.total + 1,
          b |-> [h.b EXCEPT ![h.pos + 1] = 128 + s_len \div 16, ![h.pos + 2] = 16 * (s_len % 16)]]
    ELSE [pos |-> h.pos + 2, total |-> h.total + 1,
          b |-> [h.b EXCEPT ![h.pos + 1] = @ + 8 + s_len \div 256, ![h.pos + 2] = s_len % 256]]

\* The first byte: two bits of FI, the first E, and the number's upper bits,
\* which are neither counted modulo SnMod nor masked: from 1024 on they are ORed
\* onto E and FI.
Or(a, b) == CASE a = 0 -> b [] b = 0 -> a [] a = b -> a [] OTHER -> 3
FirstByte(fi, e, num) ==
    LET high == num \div 256 IN
    32 * ((high \div 32) % 8) + 8 * Or(fi, (high \div 8) % 4) + 4 * Or(e, (high \div 4) % 2)
        + (high % 4)

\* The header of the merged PDU: an E/LI field for every data field, of which the
\* last is removed again, then FI, SN and the first E. Without data fields the
\* removal writes before the array; one byte is left.
rlc_header(lens, fi, num) ==
    LET written[k \in 0..Len(lens)] ==
            IF k = 0 THEN [pos |-> 2, total |-> 0, b |-> [i \in 1..100 |-> 0]]
            ELSE WriteLi(written[k - 1], lens[k])
        w == written[Len(lens)]
        p == w.pos
        cut == IF w.total % 2 = 0
               THEN [w.b EXCEPT ![p - 2] = @ % 128, ![p - 1] = 16 * (@ \div 16), ![p] = 0]
               ELSE IF w.total > 1
               THEN [w.b EXCEPT ![p - 2] = @ - 8 * ((@ \div 8) % 2), ![p] = 0, ![p + 1] = 0]
               ELSE [w.b EXCEPT ![p] = 0, ![p + 1] = 0]
        first == FirstByte(fi, IF w.total > 1 THEN 1 ELSE 0, num)
    IN  IF lens = <<>> THEN <<first>>
        ELSE SubSeq([cut EXCEPT ![1] = first, ![2] = num % 256], 1, p - 1)

\* Mutant of MergedLengths: what is left of a PDU is taken for its first field.
BugMergedLengths(pdus) ==
    Concat([i \in DOMAIN pdus |->
        IF pdus[i].data = <<>> THEN <<>>
        ELSE LET q == ReadLengths(RlcHeader(pdus[i].fi, 0, Lengths(pdus[i].data)), Length(pdus[i]))
             IN  <<Last(q)>> \o Front(q)])

\* The lengths of the data fields of all PDUs, in the order of the polls, as read
\* from the PDUs' headers.
MergedLengths(pdus) ==
    Concat([i \in DOMAIN pdus |->
        IF pdus[i].data = <<>> THEN <<>>
        ELSE ReadLengths(RlcHeader(pdus[i].fi, 0, Lengths(pdus[i].data)), Length(pdus[i]))])

\* The data fields themselves.
Merged(pdus) == Concat([i \in DOMAIN pdus |-> pdus[i].data])

\* What a read of FI from bytes that were never written may give.
Junk(got) == IF got.pdus # <<>> /\ Last(got.pdus).data = <<>> THEN 0..3 ELSE {0}

\* Mutant of MergedFi: the packet cut last time is not looked at.
BugMergedFi(pdus, junk) == IF Last(pdus).data = <<>> THEN junk ELSE Last(pdus).fi

\* FI of the merged PDU: that of the last PDU polled, read even if that PDU is
\* empty (then from bytes of the buffer that were never written: junk), with
\* the first bit set if a packet was cut last time.
MergedFi(pdus, junk) ==
    LET fi == IF Last(pdus).data = <<>> THEN junk ELSE Last(pdus).fi IN
    IF fi_ind # 0 /\ fi < 2 THEN fi + 2 ELSE fi

\* The transport block of a subframe. header_length_total is that of the polls,
\* whatever became of the PDUs; the length of the merged PDU and the total
\* both count the SRBs' bytes.
TransportBlock(got, ta_len, tbs, junk) ==
    LET srb_len == Total(got.srb)
        data == Merged(got.pdus)
        lens == MergedLengths(got.pdus)
        dtch == got.pdus # <<>>
        fi == IF dtch THEN MergedFi(got.pdus, junk) ELSE 0
        num == sn + 1
        header == rlc_header(lens, fi, num)
        header_pos == Len(header)
        buffer_pos == srb_len + Total(lens)
        sdu_lengths == IF dtch THEN Append(got.srb, buffer_pos + header_pos) ELSE got.srb
        sdu_length_total ==
            IF dtch THEN srb_len + buffer_pos + header_pos ELSE got.sdu_length_total
        rest == tbs - got.header_length_total - sdu_length_total - ta_len
    IN  [tbs |-> tbs,
         offset |-> generate_dlsch_header(sdu_lengths, ta_len,
                                          IF rest <= 2 THEN rest ELSE 0, rest > 2),
         explicit |-> rest > 2,
         narrowed |-> rest < 0 /\ ShortPadding(rest) > 0,
         srb |-> got.srb,
         dtch |-> dtch,
         len |-> IF dtch THEN Last(sdu_lengths) ELSE 0,
         true |-> IF dtch THEN header_pos + Total(Lengths(data)) ELSE 0,
         fi |-> fi,
         sn |-> num,
         wellFormed |-> data # <<>> => header = RlcHeader(fi, num % SnMod, Lengths(data)),
         data |-> data]
-----------------------------------------------------------------------------
(***************************************************************************)
(* The UE (external).  Its MAC takes the length of an SDU from the         *)
(* subheader, or what is left of the transport block if there is none; its *)
(* RLC takes the last field to reach to the end of the PDU, and joins the  *)
(* first field to the unfinished packet if FI says so and no PDU between   *)
(* the two is missing.                                                     *)
(***************************************************************************)
UeLength(b) == IF b.explicit THEN b.len ELSE b.tbs - b.offset - Total(b.srb)

UeData(b) ==
    [i \in DOMAIN b.data |->
        [b.data[i] EXCEPT !.len = IF i = Len(b.data) THEN @ + UeLength(b) - b.true ELSE @]]

Whole(sdu) ==
    /\ \A i \in DOMAIN sdu : sdu[i].lcid = sdu[1].lcid /\ sdu[i].n = sdu[1].n
    /\ sdu[1].from = 0
    /\ \A i \in 1..(Len(sdu) - 1) : sdu[i + 1].from = sdu[i].from + sdu[i].len
    /\ Last(sdu).from + Last(sdu).len = Last(sdu).size

\* A packet the UE has put together from fields: its bearer and number if it is
\* what arrived at the eNB.
Packet(sdu) == IF Whole(sdu) THEN <<sdu[1].lcid, sdu[1].n>> ELSE <<0, 0>>

Receive(b) ==
    LET data == UeData(b)
        joined == b.fi >= 2 /\ b.sn % SnMod = (ue.sn + 1) % SnMod /\ ue.part # <<>>
        \* sequences of fields; the first is dropped if its beginning is missing
        all == [i \in DOMAIN data |-> IF i = 1 /\ joined THEN Append(ue.part, data[1])
                                                         ELSE <<data[i]>>]
        kept == IF b.fi >= 2 /\ ~joined THEN Tail(all) ELSE all
        open == b.fi % 2 = 1 /\ kept # <<>>
        sdus == IF open THEN Front(kept) ELSE kept
    IN  /\ ue' = [sn |-> b.sn % SnMod, part |-> IF open THEN Last(kept) ELSE <<>>]
        /\ delivered' = delivered \o [i \in DOMAIN sdus |-> Packet(sdus[i])]

\* Two calls are undefined when there is data of a DTCH: memcpy() moves the data
\* fields to behind the header within one buffer (:1706), and memset() clears
\* twice the size of what is left of sdu_lcids (:1715). The data is moved as
\* intended and nothing in use is cleared, or the block is spoilt.
Spoilt(b) == IF b.dtch THEN BOOLEAN ELSE {FALSE}

\* What the properties ask of a transport block: whether the SDUs and the header
\* are longer than it, all PDUs merged are empty, a negative padding became
\* padding subheaders, the UE gets the length of the merged PDU wrong, the header
\* of that PDU is not that of its data fields. Of a spoilt block nothing is known.
Summary(b, spoilt) ==
    {x \in {"overfull", "empty", "narrowed", "misread", "malformed", "spoilt"} :
        IF spoilt THEN x = "spoilt"
        ELSE \/ x = "overfull" /\ b.offset + Total(b.srb) + b.true > b.tbs
             \/ x = "empty" /\ b.dtch /\ b.data = <<>>
             \/ x = "narrowed" /\ b.narrowed
             \/ x = "misread" /\ b.dtch /\ UeLength(b) # b.true
             \/ x = "malformed" /\ ~b.wellFormed}

\* The circumstances in which the code does not keep packets intact:
\*   "length"  several PDUs are merged and the last subheader has no length;
\*   "default" the default bearer's cut packet is not continued first;
\*   "srb"     an SRB has data in the same transport block;
\*   "empty"   an RLC entity had data but no room for a byte of it;
\*   "number"  the number has more than ten bits and changes the header;
\*   "spoilt"  see Spoilt.
Harms(got, b, spoilt) ==
    {h \in {"length", "default", "srb", "empty", "number", "spoilt"} :
        /\ got.pdus # <<>>
        /\ \/ h = "length" /\ Len(got.pdus) > 1 /\ ~b.explicit
           \/ h = "default" /\ fi_ind = DTCH /\ Head(got.pdus).lcid # DTCH
           \/ h = "srb" /\ got.srb # <<>>
           \/ h = "empty" /\ \E i \in DOMAIN got.pdus : got.pdus[i].data = <<>>
           \/ h = "number" /\ b.sn >= SnMod /\ ~b.wellFormed
           \/ h = "spoilt" /\ spoilt}

\* Mutant of NextFiInd: a packet that was cut is never forgotten.
BugNextFiInd(got, b) ==
    IF ~b.dtch THEN fi_ind ELSE IF b.fi % 2 = 1 THEN Last(got.pdus).lcid ELSE fi_ind

\* fi_ind after the block: the bearer polled last if its packet was cut.
NextFiInd(got, b) ==
    IF ~b.dtch THEN fi_ind ELSE IF b.fi % 2 = 1 THEN Last(got.pdus).lcid ELSE 0
-----------------------------------------------------------------------------
(***************************************************************************)
(* Actions.                                                                *)
(***************************************************************************)
\* Mutant of Tick: the gate list does not start again.
BugTick == t' = t + 1

Tick == t' = (t + 1) % Period
harq_pid == t % NHarq

Arrive(b, size) ==
    /\ Total([i \in 1..4 |-> arrived[i + 2]]) < MaxPackets
    /\ arrived' = [arrived EXCEPT ![b] = @ + 1]
    /\ queue' = [queue EXCEPT ![b] = Append(@, [n |-> arrived[b] + 1, size |-> size, sent |-> 0])]
    /\ UNCHANGED <<t, fi_ind, sn, round, tb, ue, lost, delivered, harmed>>

\* The UE is not served: PMCH, MBSFN or uplink subframe, no resource blocks, no
\* room for the DCI, or the UE is not in RRC_CONNECTED.
NotScheduled ==
    /\ Tick /\ tb' = NoTb
    /\ UNCHANGED <<queue, fi_ind, sn, round, ue, arrived, lost, delivered, harmed>>

\* The HARQ process of the subframe is not free: its block is sent again, or
\* not if it takes more resource blocks than there are. No new data either way.
Retransmission ==
    /\ DlSubframe(t) /\ round[harq_pid] # 8
    /\ Tick /\ tb' = NoTb
    /\ UNCHANGED <<queue, fi_ind, sn, round, ue, arrived, lost, delivered, harmed>>

\* The process is free: poll, merge, and send the block unless there is no room
\* for its DCI. The polled data are gone either way.
Outcome == {"heard", "missed", "infeasible"}

NewData(grant, outcome) ==
    /\ DlSubframe(t) /\ round[harq_pid] = 8
    /\ \E got \in {Poll(grant)} :
       LET need == grant.ta_len + got.sdu_length_total + got.header_length_total IN
       /\ need > 0
       /\ \E tbs \in {Transport(need, grant.available)}, junk \in Junk(got) :
          \E b \in {TransportBlock(got, grant.ta_len, tbs, junk)} : \E spoilt \in Spoilt(b) :
          /\ Tick
          /\ queue' = got.queue
          /\ tb' = Summary(b, spoilt)
          /\ sn' = IF b.dtch THEN b.sn ELSE sn
          /\ fi_ind' = NextFiInd(got, b)
          /\ round' = IF outcome = "infeasible" THEN round ELSE [round EXCEPT ![harq_pid] = 0]
          /\ harmed' = harmed \cup Harms(got, b, spoilt)
          /\ IF harmed' = {} /\ outcome = "heard" /\ b.dtch
             THEN Receive(b)
             ELSE UNCHANGED <<ue, delivered>>
    /\ lost' = IF outcome = "heard" THEN lost ELSE lost + 1
    /\ lost' <= MaxLoss
    /\ UNCHANGED arrived

\* Nothing to send.
NoData(grant) ==
    /\ DlSubframe(t) /\ round[harq_pid] = 8
    /\ grant.ta_len = 0 /\ Poll(grant).header_length_total = 0
    /\ Tick /\ tb' = NoTb
    /\ UNCHANGED <<queue, fi_ind, sn, round, ue, arrived, lost, delivered, harmed>>

\* External: the process is acknowledged or given up.
Feedback(p) ==
    /\ round[p] # 8
    /\ round' = [round EXCEPT ![p] = 8]
    /\ UNCHANGED <<t, queue, fi_ind, sn, tb, ue, arrived, lost, delivered, harmed>>
-----------------------------------------------------------------------------
Subframe ==
    \/ NotScheduled
    \/ Retransmission
    \/ \E grant \in Grants : NoData(grant) \/ \E outcome \in Outcome : NewData(grant, outcome)

Next ==
    \/ Subframe
    \/ \E b \in Bearer : \E size \in Sizes[b] : Arrive(b, size)
    \/ \E p \in DOMAIN round : Feedback(p)

Spec == Init /\ [][Next]_vars
-----------------------------------------------------------------------------
(***************************************************************************)
(* Properties.                                                             *)
(***************************************************************************)
Cut(b) == queue[b] # <<>> /\ Head(queue[b]).sent > 0

RlcPacket == [n : Nat, size : Nat \ {0}, sent : Nat]

\* Every variable has its type. Only the first packet of a bearer may be sent in
\* part, and never all of it. (ue and delivered are what PacketsIntact is about.)
TypeOK ==
    /\ t \in 0..(Period - 1)
    /\ queue \in [Bearer -> Seq(RlcPacket)] /\ arrived \in [Bearer -> Nat]
    /\ \A b \in Bearer : \A i \in DOMAIN queue[b] :
          LET p == queue[b][i] IN p.sent \in 0..(p.size - 1) /\ (i > 1 => p.sent = 0)
    /\ fi_ind \in Bearer \cup {0} /\ sn \in Nat
    /\ round \in [0..(NHarq - 1) -> {0, 8}]
    /\ tb \subseteq {"overfull", "empty", "narrowed", "misread", "malformed", "spoilt"}
    /\ harmed \subseteq {"length", "default", "srb", "empty", "number", "spoilt"}
    /\ lost \in 0..MaxLoss

\* A packet of a dedicated bearer that was cut at the end of a transport block
\* is remembered in fi_ind until its rest is polled, so that nothing of another
\* bearer comes between its parts (:1312-1316, 1684-1695).
CutIsRemembered ==
    "empty" \notin harmed => \A b \in Dedicated : Cut(b) => fi_ind = b

\* A bearer that is polled out of its turn because of fi_ind really has a packet
\* to continue: whatever blocks were lost, dropped or spoilt, fi_ind is not left
\* behind by a packet that is complete (:1312-1316, 1691-1695).
GateKept ==
    "empty" \notin harmed /\ fi_ind # 0 => Cut(fi_ind)

\* Unless one of the circumstances of Harms occurred, every packet the UE puts
\* together is one that arrived, whole, and packets of one bearer come in their
\* order, whatever transport blocks are lost or dropped (:1539-1738).
PacketsIntact ==
    harmed = {} =>
        /\ \A i \in DOMAIN delivered : delivered[i] # <<0, 0>>
        /\ \A i, j \in DOMAIN delivered :
              i < j /\ delivered[i][1] = delivered[j][1] => delivered[i][2] < delivered[j][2]

\* The transport block has room for the header and every byte of the SDUs,
\* although it was chosen before the merge (:1437-1501, 1719-1743), unless all
\* the RLC entities polled gave nothing, or the bytes of the SRBs, which the
\* padding counts twice, made it so negative that it became padding subheaders.
BlockHolds ==
    (dl_pow_off > 0 \/ Mcs1 <= 16) /\ "overfull" \in tb => "empty" \in tb \/ "narrowed" \in tb

\* While the number has ten bits, the header of the merged RLC PDU, packed from
\* those of the PDUs that were taken apart, is what the UE's RLC expects for the
\* merged data fields: the number, FI, and a length and extension bit for every
\* field but the last (:1573-1703).
HeaderReads == sn < SnMod => "malformed" \notin tb

\* "last SDU subhead is of fixed type (sdu length implicitly to be computed at
\* UE)" (:293): the length the UE computes is that of the merged PDU.
UeFindsTheLength == "misread" \notin tb
==============================================================================
