------------------------------- MODULE MCSabre -------------------------------
(***************************************************************************)
(* Model-checking instances of the router.  The paw has an edge whose SWAP *)
(* keeps a distance, a slot that is filled last, and a slot of one edge.   *)
(***************************************************************************)
EXTENDS SabreRouting

Paw == {<<0, 3>>, <<1, 3>>, <<1, 2>>, <<2, 3>>}
Rows == <<<<0, 2, 2, 1>>, <<2, 0, 1, 1>>, <<2, 1, 0, 1>>, <<1, 1, 1, 0>>>>
PawDistance == [e \in (0 .. 3) \X (0 .. 3) |-> Rows[e[1] + 1][e[2] + 1]]
================================================================================
