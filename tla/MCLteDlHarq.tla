---------------------------- MODULE MCLteDlHarq ----------------------------
(* A small instance of LteDlHarq for TLC: one PDU more than there are      *)
(* processes.                                                              *)
EXTENDS LteDlHarq
============================================================================
