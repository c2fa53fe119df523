------------------------- MODULE MC_HttpConnection -------------------------
(* Model-checking instance of HttpConnection: abstract ticks in which the *)
(* retry period is shorter than the long-poll timeout, itself shorter     *)
(* than the session deadline, and the 1 min retry bound equals the 60 s   *)
(* session deadline.                                                      *)
EXTENDS HttpConnection, TLC

CONSTANTS c1, c2, pk1, pk2

MCConns == {c1, c2}
MCConnsOne == {c1}
MCPubKeys == {pk1}
MCPubKeysTwo == {pk1, pk2}
MCSessionLimit == 3
MCLongPollTimeout == 2
MCTestRetryPeriod == 1
MCTestRetryLimit == 3
MCMaxMsgs == 2
MCInitialMsgs == 2
MCInitialMsgsOne == 1
MCNoInitialMsgs == 0
MCAcceptBy == 1
MCAcceptAtStart == 0
MCMaxTimeShort == 6
MCMaxTime == 7

\* Connections and recipients are interchangeable: nothing in the model
\* orders them.  Used only by the safety run.
Symmetry == Permutations(MCConns) \cup Permutations(MCPubKeysTwo)

KindsClient == {"store", "push", "retrieve", "simple"}
KindsClientStore == {"store", "retrieve", "simple"}
KindsPeerTests == {"storage_test", "blockchain_test", "simple"}
KindsRelease == {"store", "retrieve", "storage_test", "blockchain_test", "simple"}
KindsLongPoll == {"store", "retrieve"}
KindsStorageTest == {"storage_test"}
KindsUnanswered == {"storage_test", "retrieve"}
KindsBlockchainTest == {"blockchain_test"}

\* The refinement mapping onto LongPoll: the log is db, the registry is
\* ServiceNode's listeners, and a connection's long poll is read off its
\* notification context and long-poll timer: armed is waiting, cancelled
\* (by notify) is woken with the message notify kept, expired is expired,
\* and a context whose timer handler ran has answered with what it sent.
PollOf(c) ==
    LET x == conn[c]
        P(st, msg, reply) == [st |-> st, pk |-> x.req.pk, msg |-> msg, reply |-> reply]
    IN CASE ~x.ctx            -> [st |-> "idle", pk |-> NoPk, msg |-> 0, reply |-> {}]
         [] x.lp = "armed"    -> P("waiting", 0, {})
         [] x.lp = "aborted"  -> P("woken", x.ctxMsg, {})
         [] x.lp = "expired"  -> P("expired", 0, {})
         [] OTHER             -> P("answered", 0, x.sent.msgs)

LP == INSTANCE LongPoll WITH log <- db, registry <- listeners,
                             poll <- [c \in Conns |-> PollOf(c)]

\* poll_db, notify, the long-poll timer's handler, clean_up and
\* ServiceNode's store and remove_listener together implement LongPoll:
\* a waiter is woken only by the first store for its recipient after it
\* registered, with that message, answers once with it (or with nothing
\* after its timer expired), and the registry holds exactly the waiters
\* that have not answered or been cleaned up.
LongPollRefined == LP!LPSpec

=============================================================================
