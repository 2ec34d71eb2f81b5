------------------------------- MODULE MCXif -------------------------------
(* Instances of XifResult for TLC. *)
EXTENDS XifResult

(* All lanes at their most negative, mixed signs, and a wrapping sum: 8-bit *)
(* words with lanes of 2 bits.                                              *)
EdgeOperands == {<<170, 170, 0>>, <<170, 85, 255>>, <<136, 136, 127>>}
=============================================================================
