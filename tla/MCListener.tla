----------------------------- MODULE MCListener -----------------------------
(* Small instances of Listener: each limit alone, both, and none.           *)
EXTENDS Listener

MCLimits ==
    {[timeout |-> o, timelimit |-> l] : o \in {0, 1}, l \in {0, 2}}
=============================================================================
