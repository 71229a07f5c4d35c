------------------------------ MODULE MCQueuer ------------------------------
(* Small instances of Queuer: three calls, with ids of their own or with    *)
(* two of them sharing an id.                                               *)
EXTENDS Queuer, TLC

CONSTANTS c1, c2, c3, j1, j2, j3

OwnIds == [c \in Calls |-> CASE c = c1 -> j1 [] c = c2 -> j2 [] OTHER -> j3]
SharedIds == [c \in Calls |-> IF c = c1 THEN j1 ELSE j2]

PassSymmetry == Permutations(Passes)
=============================================================================
