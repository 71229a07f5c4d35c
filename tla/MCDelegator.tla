---------------------------- MODULE MCDelegator -----------------------------
(* Small instances of Delegator: one call that may fall back to a second    *)
(* peer, or two calls with ids of their own to one peer.                    *)
EXTENDS Delegator

CONSTANTS c1, j1, j2, p1

MCJobId == [c \in Calls |-> IF c = c1 THEN j1 ELSE j2]
MCClientTypes == <<"stdio", "tcp">>

(* Capable of everything and reachable by either type of client; capable of *)
(* nothing it has schemas for, reachable by the second; without schemas.    *)
Full == [declares |-> Methods, accepts |-> Methods, addresses |-> Types]
Fussy == [declares |-> Methods, accepts |-> {}, addresses |-> {"tcp"}]
Bare == [declares |-> {}, accepts |-> {}, addresses |-> {}]

(* Capable, but not to be reached.                                          *)
Away == [Full EXCEPT !.addresses = {}]

Two == {Full, Bare}
Three == {Full, Fussy, Away}
MCRemote == [p \in Peers |-> IF p = p1 THEN Full ELSE Away]
=============================================================================
