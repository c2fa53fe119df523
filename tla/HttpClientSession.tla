-------------------------- MODULE HttpClientSession --------------------------
(***************************************************************************)
(* The outbound HTTP client of http_connection.cpp: make_http_request      *)
(* resolves the address and starts an HttpClientSession, which connects,   *)
(* writes the request, reads the answer and arms a SESSION_TIME_LIMIT      *)
(* deadline.  Every outcome goes through trigger_callback, which posts the *)
(* caller's callback to the io_context; the destructor posts ERROR_OTHER   *)
(* if no callback was posted.  Handlers run one at a time on the single   *)
(* io_context thread; each action below is one handler.                   *)
(***************************************************************************)
EXTENDS Naturals, Sequences

CONSTANTS
    Sessions,         \* the requests made
    ResolveOutcomes   \* whether resolver.resolve may succeed / fail

\* SNodeError values a callback may carry.
Results == {"NO_ERROR", "HTTP_ERROR", "ERROR_OTHER", "NO_REACH"}

NoResult == "none"

ASSUME ResolveOutcomes \subseteq BOOLEAN /\ ResolveOutcomes /= {}

VARIABLE sess

TimerStates == {"none", "armed", "expired", "aborted"}

\* A session before make_http_request; needs_cleanup starts true and
\* used_callback_ false (member initialisers).
Idle == [st |-> "idle", op |-> "none", dl |-> "none", open |-> FALSE,
         needsCleanup |-> TRUE, used |-> FALSE, posted |-> <<>>, ran |-> 0,
         destroyed |-> FALSE, closes |-> 0]

\* Each session's socket is closed by clean_up at most once.
TypeOK ==
    \A s \in Sessions :
        LET x == sess[s] IN
        /\ x.st \in {"idle", "started", "dropped"}
        /\ x.op \in {"none", "connect", "write", "read"}
        /\ x.dl \in TimerStates
        /\ {x.open, x.needsCleanup, x.used, x.destroyed} \subseteq BOOLEAN
        /\ x.posted \in Seq(Results) /\ x.ran \in 0..Len(x.posted)
        /\ x.closes \in 0..1

\* steady_timer::cancel(): only a timer still waiting is aborted.
Cancel(t) == IF t = "armed" THEN "aborted" ELSE t

\* The session object lives while a handler holding shared_from_this()
\* is pending: the connect, write or read handler, or the deadline's.
Alive(x) == x.op /= "none" \/ x.dl /= "none"

\* trigger_callback: post the callback, mark it used, cancel the deadline.
Trigger(x, e) ==
    [x EXCEPT !.posted = Append(@, e), !.used = TRUE, !.dl = Cancel(@)]

\* Seeded fault: clean_up without its needs_cleanup and is_open checks.
CleanUpUnguarded(x) ==
    [x EXCEPT !.needsCleanup = FALSE, !.open = FALSE, !.closes = @ + 1]

\* clean_up: once only; shut down and close the socket if it is open.
CleanUp(x) ==
    IF ~x.needsCleanup THEN x
    ELSE IF ~x.open THEN [x EXCEPT !.needsCleanup = FALSE]
    ELSE [x EXCEPT !.needsCleanup = FALSE, !.open = FALSE, !.closes = @ + 1]

\* start(): async_connect (which opens the socket) and the deadline.
Start(x) == [x EXCEPT !.st = "started", !.op = "connect", !.open = TRUE,
                      !.dl = "armed"]

\* make_http_request: a failed resolve logs and returns; otherwise a
\* session is made and started.
MakeRequest(s, resolved) ==
    /\ sess[s].st = "idle"
    /\ sess' = [sess EXCEPT ![s] = IF resolved THEN Start(@)
                                   ELSE [@ EXCEPT !.st = "dropped"]]

\* An operation pending on an open socket completes as the peer makes it;
\* on a closed socket it fails with operation_aborted.
Completes(x, op, ok) == x.op = op /\ (ok => x.open)

\* The connect handler: NO_REACH on error, else on_connect's async_write.
OnConnect(s, ok) ==
    /\ Completes(sess[s], "connect", ok)
    /\ sess' = [sess EXCEPT ![s] = IF ok THEN [@ EXCEPT !.op = "write"]
                                   ELSE Trigger([@ EXCEPT !.op = "none"], "NO_REACH")]

\* on_write: ERROR_OTHER on error, else async_read of the answer.
OnWrite(s, ok) ==
    /\ Completes(sess[s], "write", ok)
    /\ sess' = [sess EXCEPT ![s] = IF ok THEN [@ EXCEPT !.op = "read"]
                                   ELSE Trigger([@ EXCEPT !.op = "none"], "ERROR_OTHER")]

\* on_read: a 2xx answer gives NO_ERROR, another status HTTP_ERROR, a
\* read error ERROR_OTHER.  The answer's status is r.
OnRead(s, ok, r) ==
    /\ Completes(sess[s], "read", ok)
    /\ r \in IF ok THEN {"NO_ERROR", "HTTP_ERROR"} ELSE {"ERROR_OTHER"}
    /\ sess' = [sess EXCEPT ![s] = Trigger([@ EXCEPT !.op = "none"], r)]

\* SESSION_TIME_LIMIT passes: asio queues the deadline handler.
DeadlineExpires(s) ==
    /\ sess[s].dl = "armed"
    /\ sess' = [sess EXCEPT ![s].dl = "expired"]

\* Seeded fault: the deadline handler only logs.
OnDeadlineNoCleanUp(s) ==
    /\ sess[s].dl \in {"expired", "aborted"}
    /\ sess' = [sess EXCEPT ![s].dl = "none"]

\* The deadline handler: nothing when cancelled, clean_up when it fired.
OnDeadline(s) ==
    /\ sess[s].dl \in {"expired", "aborted"}
    /\ sess' = [sess EXCEPT ![s] =
                  LET y == [@ EXCEPT !.dl = "none"] IN
                  IF @.dl = "expired" THEN CleanUp(y) ELSE y]

\* Seeded fault: the destructor posts ERROR_OTHER unconditionally.
DestroyAlwaysPosts(s) ==
    /\ sess[s].st = "started" /\ ~sess[s].destroyed /\ ~Alive(sess[s])
    /\ sess' = [sess EXCEPT ![s] =
                  CleanUp([@ EXCEPT !.destroyed = TRUE,
                                    !.posted = Append(@, "ERROR_OTHER")])]

\* ~HttpClientSession: the last shared_ptr went; post ERROR_OTHER if no
\* callback was posted, then clean_up.
Destroy(s) ==
    /\ sess[s].st = "started" /\ ~sess[s].destroyed /\ ~Alive(sess[s])
    /\ LET x == sess[s] IN
       sess' = [sess EXCEPT ![s] =
                  CleanUp([x EXCEPT !.destroyed = TRUE,
                                    !.posted = IF x.used THEN @
                                               ELSE Append(@, "ERROR_OTHER")])]

\* The io_context runs a posted callback.
RunCallback(s) ==
    /\ sess[s].ran < Len(sess[s].posted)
    /\ sess' = [sess EXCEPT ![s].ran = @ + 1]

Init == sess = [s \in Sessions |-> Idle]

Next ==
    \E s \in Sessions :
        \/ \E ok \in ResolveOutcomes : MakeRequest(s, ok)
        \/ \E ok \in BOOLEAN : OnConnect(s, ok) \/ OnWrite(s, ok)
        \/ \E ok \in BOOLEAN, r \in Results : OnRead(s, ok, r)
        \/ DeadlineExpires(s)
        \/ OnDeadline(s)
        \/ Destroy(s)
        \/ RunCallback(s)

\* The peer and the network are not fair: a connect, write or read on an
\* open socket may never complete.  Time passes, the io_context runs
\* queued handlers, and operations on a closed socket fail.
Fairness ==
    \A s \in Sessions :
        /\ WF_sess(DeadlineExpires(s))
        /\ WF_sess(OnDeadline(s))
        /\ WF_sess(Destroy(s))
        /\ WF_sess(RunCallback(s))
        /\ WF_sess(~sess[s].open /\ OnConnect(s, FALSE))
        /\ WF_sess(~sess[s].open /\ OnWrite(s, FALSE))
        /\ WF_sess(~sess[s].open /\ OnRead(s, FALSE, "ERROR_OTHER"))

Spec == Init /\ [][Next]_sess /\ Fairness

-----------------------------------------------------------------------------
(* Properties.                                                             *)

\* The session implements ClientCall: make_http_request asks, the last
\* posted callback's SNodeError is the answer, and the answer counts as
\* delivered once every posted callback ran.  A second post, or a call
\* whose callback never comes (a peer that never answers, a deadline
\* that does not close the socket), breaks it.
CC == INSTANCE ClientCall WITH
        Calls <- Sessions,
        asked <- [s \in Sessions |-> sess[s].st /= "idle"],
        answer <- [s \in Sessions |->
                     IF sess[s].posted = <<>> THEN NoResult
                     ELSE sess[s].posted[Len(sess[s].posted)]],
        delivered <- [s \in Sessions |->
                        sess[s].posted /= <<>>
                        /\ sess[s].ran = Len(sess[s].posted)]

ClientCallRefined == CC!Spec

\* Every started session is eventually destroyed, even when the peer
\* never answers: the deadline's clean_up fails the pending operation.
SessionReleased ==
    \A s \in Sessions : sess[s].st = "started" ~> sess[s].destroyed

=============================================================================
