----------------------- MODULE MCConstantPropagation -----------------------
(* ConstantPropagation on three-bit integers, with functions as            *)
(* src/compiler.h and mem2reg leave them.                                  *)
EXTENDS ConstantPropagation, MCPrograms

MCMinInt == -4

MCSwap == {Swap}

MCZero == {AddToZero}
=============================================================================
