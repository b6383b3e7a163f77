------------------------------ MODULE MCNaReplay ------------------------------
(***************************************************************************)
(* Model-checking instances of the schedule verifier: a two by two grid of *)
(* sites with three atoms, one empty site and a few AOD traps.             *)
(***************************************************************************)
EXTENDS NaReplay

Grid == 1 .. 4
GridX == <<0, 10, 0, 10>>
GridY == <<0, 0, 10, 10>>

TrapAt(aod, row, col) == [aod |-> aod, row |-> row, col |-> col]

\* Two rows that share a column, one of them with a second column, and a trap
\* of a second AOD.
FourTraps == {TrapAt(0, 0, 0), TrapAt(0, 0, 1), TrapAt(0, 1, 0), TrapAt(1, 0, 0)}

Three == 1 .. 3
StartThree == <<1, 2, 3>>
================================================================================
