---------------------------- MODULE MCTrollList -----------------------------
(* Four addresses: a list long enough that the third element is deleted and *)
(* elements before the kept pointer exist.                                  *)
EXTENDS TrollList
=============================================================================
