--------------------------------- MODULE MCLsp ---------------------------------
(***************************************************************************)
(* Model-checking instances of the language server.  Texts are only        *)
(* compared: permuting them permutes behaviours.                           *)
(***************************************************************************)
EXTENDS LspProperties, TLC

TextSymmetry == Permutations(Texts)
================================================================================
