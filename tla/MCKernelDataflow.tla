------------------------- MODULE MCKernelDataflow -------------------------
(* A decode of one row, and a tile of two, on streams that are just deep      *)
(* enough and on streams that are one short: a token has four query heads.    *)
EXTENDS KernelDataflow

MCLaunches == [rows : {1, 2}, fifoAttn : {1, 2}, fifoSc : {1, 2}]
===========================================================================
