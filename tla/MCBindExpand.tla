---------------------------- MODULE MCBindExpand ----------------------------
(* All queries of up to six tokens with up to three arguments: room for a  *)
(* column list before the values, "( ) ( ? ? )", and for slices of every   *)
(* length up to three next to each other and next to scalars.              *)
EXTENDS BindExpand
=============================================================================
