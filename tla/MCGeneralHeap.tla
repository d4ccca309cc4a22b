--------------------------- MODULE MCGeneralHeap ----------------------------
(***************************************************************************)
(* Small instances of GeneralHeap.  Sizes keep the proportions of the      *)
(* 64-bit build (a header is two alignment units), in units of two bytes   *)
(* so that rounding up is visible.                                         *)
(***************************************************************************)
EXTENDS GeneralHeap

=============================================================================
