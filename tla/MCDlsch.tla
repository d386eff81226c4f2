------------------------------- MODULE MCDlsch -------------------------------
(***************************************************************************)
(* Dlsch with a small table of transport block sizes and small packets.    *)
(***************************************************************************)
EXTENDS Dlsch

Grant(available, ta_len, srb) == [available |-> available, ta_len |-> ta_len, srb |-> srb]

MCTbs(mcs, nb_rb) == 2 * (1 + mcs \div 2) * nb_rb
MCSizes == [b \in Bearer |-> IF b = 5 THEN {} ELSE IF b = 6 THEN {4, 10} ELSE {10}]
\* No backlog, or small packets, several of which fit into a block.
MCNoBacklog == [b \in Bearer |-> <<>>]
MCNone == {MCNoBacklog}
MCBacklog == {MCNoBacklog,
              [MCNoBacklog EXCEPT ![4] = <<1, 2>>, ![DTCH] = <<3, 1, 2>>]}
\* With 254 bytes on an SRB the padding of a full block is -254.
MCGrants == {Grant(2, 0, <<>>), Grant(4, 0, <<>>), Grant(4, 2, <<3>>), Grant(50, 0, <<254>>)}
MCDataGrants == {Grant(2, 0, <<>>), Grant(4, 0, <<>>)}

\* The packing of the merged header for lengths of all sizes, and the reading of
\* an RLC header; the first numbers of eleven, twelve and thirteen bits, where
\* the header is right only if E or FI has the bit anyway.
ASSUME HeaderAlgorithm ==
    \A n \in 1..4 : \A lens \in [1..n -> {1, 15, 16, 255, 256, 2047}] :
        /\ rlc_header(lens, 3, 700) = RlcHeader(3, 700, lens)
        /\ (rlc_header(lens, 1, 1024) = RlcHeader(1, 0, lens)) <=> n > 1
        /\ rlc_header(lens, 1, 2048) = RlcHeader(1, 0, lens)
        /\ rlc_header(lens, 1, 4096) # RlcHeader(1, 0, lens)
        /\ ReadLengths(RlcHeader(1, 5, lens), Header(n) + Total(lens)) = lens
==============================================================================
