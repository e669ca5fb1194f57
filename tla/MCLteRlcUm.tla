----------------------------- MODULE MCLteRlcUm -----------------------------
(* Three packets of one, two and three fragments; in two of them the last  *)
(* fragment is shorter than the others.                                    *)
EXTENDS LteRlcUm

CONSTANTS s1, s2, s3

MCSdu == {s1, s2, s3}
MCSduSize == [s \in MCSdu |-> CASE s = s1 -> 2 [] s = s2 -> 3 [] s = s3 -> 5]
============================================================================
