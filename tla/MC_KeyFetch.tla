---------------------------- MODULE MC_KeyFetch ----------------------------
(* Model-checking instance of KeyFetch: two session slots (the session of *)
(* one attempt may still be alive when the next is made), with a resolver *)
(* that may fail.  Its resolving runs are part of MC_Startup.             *)
EXTENDS KeyFetch, TLC

CONSTANTS a1, a2

MCSlots == {a1, a2}
ResolveMayFail == {TRUE, FALSE}

=============================================================================
