------------------------------- MODULE MCLinear -------------------------------
(* The linear context on small functions.                                     *)
EXTENDS LinearContext, TLC

NameSymmetry == Permutations(Names)
===============================================================================
