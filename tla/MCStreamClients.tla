-------------------------- MODULE MCStreamClients ---------------------------
(* Two clients in one process and one in another.                           *)
EXTENDS StreamClients

CONSTANTS p1, p2, a, b, c1, r1

MCProc == [c \in Clients |-> IF c = c1 THEN p2 ELSE p1]
MCClientOf == [r \in Requests |-> a]
=============================================================================
