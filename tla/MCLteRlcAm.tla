----------------------------- MODULE MCLteRlcAm -----------------------------
(* Small instances of LteRlcAm for TLC.                                    *)
EXTENDS LteRlcAm

\* Bounds the PDUs underway at once, not those sent.
FewUnderway ==
  Cardinality({m \in net : m.type # "DATA"}) <= 2 /\ Cardinality(net) <= 3
=============================================================================
