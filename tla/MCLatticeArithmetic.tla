------------------------ MODULE MCLatticeArithmetic ------------------------
(* LatticeArithmetic on integers of three and of four bits. *)
EXTENDS LatticeArithmetic

MCMinInt == -4
MCMinInt4 == -8
=============================================================================
