-------------------------- MODULE MCLteEnbDownlink --------------------------
(* Two connections of one UE and one of another, on a carrier of three bands *)
(* of two blocks; retransmissions take nothing, half a band, two bands or    *)
(* everything.                                                               *)
EXTENDS LteEnbDownlink

CONSTANTS c1, c2, c3, u1, u2

MCOwner == (c1 :> u1) @@ (c2 :> u1) @@ (c3 :> u2)
MCTbs == (u1 :> <<2, 4>>) @@ (u2 :> <<1, 3>>)
MCRtxBlocks == {<<0, 0, 0>>, <<1, 0, 0>>, <<2, 1, 2>>, <<2, 2, 2>>}
=============================================================================
