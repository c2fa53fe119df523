----------------------------- MODULE ClientCall -----------------------------
(***************************************************************************)
(* What an outbound HTTP request promises its caller: once asked, the      *)
(* caller's callback eventually runs, exactly once, with one result.       *)
(* HttpClientSession implements it (see MC_HttpClientSession).             *)
(***************************************************************************)
CONSTANTS Calls, Results, NoResult

VARIABLES asked, answer, delivered

cvars == <<asked, answer, delivered>>

Init ==
    /\ asked = [c \in Calls |-> FALSE]
    /\ answer = [c \in Calls |-> NoResult]
    /\ delivered = [c \in Calls |-> FALSE]

Ask(c) ==
    /\ ~asked[c]
    /\ asked' = [asked EXCEPT ![c] = TRUE]
    /\ UNCHANGED <<answer, delivered>>

\* The one result of the call is fixed.
Answer(c, r) ==
    /\ asked[c] /\ answer[c] = NoResult
    /\ answer' = [answer EXCEPT ![c] = r]
    /\ UNCHANGED <<asked, delivered>>

\* The callback runs with that result.
Deliver(c) ==
    /\ answer[c] /= NoResult /\ ~delivered[c]
    /\ delivered' = [delivered EXCEPT ![c] = TRUE]
    /\ UNCHANGED <<asked, answer>>

Next == \E c \in Calls : Ask(c) \/ Deliver(c) \/ \E r \in Results : Answer(c, r)

Spec ==
    /\ Init /\ [][Next]_cvars
    /\ \A c \in Calls : /\ WF_cvars(\E r \in Results : Answer(c, r))
                        /\ WF_cvars(Deliver(c))

=============================================================================
