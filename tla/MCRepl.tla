------------------------------- MODULE MCRepl -------------------------------
(* Two lines; executing the chunk of a line may give outputs with two code  *)
(* nodes in them, the first one inside another node.                        *)
EXTENDS Repl

CONSTANTS l1, j1, j2

MCNodes == 1..4
MCCode == {1, 3, 4}
MCChildren == [n \in MCNodes |-> IF n = 2 THEN <<3>> ELSE <<>>]
MCResults == [n \in MCCode |-> IF n = 1 THEN {<<>>, <<2, 4>>} ELSE {<<>>}]
MCLast == <<4, 3, 3, 4>>
MCRoot == [l \in Walks |-> IF l = l1 THEN 1 ELSE 4]
MCJobOf == [l \in Walks |-> IF l = l1 THEN j1 ELSE j2]
MCJobId == [c \in Walks \X MCNodes |-> MCJobOf[c[1]]]
=============================================================================
