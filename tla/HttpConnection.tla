--------------------------- MODULE HttpConnection ---------------------------
(***************************************************************************)
(* The server side of one HTTPS exchange, connection_t in                  *)
(* src/httpserver/http_connection.cpp, for a small set of connections      *)
(* sharing one single-threaded io_context.                                 *)
(*                                                                         *)
(* Every completion handler of the code is one atomic action: handshake,   *)
(* read, write, SSL shutdown, the session deadline, the long-poll          *)
(* notification timer, the storage-test repeat timer and the daemon's      *)
(* answer to a blockchain test.  A timer is "armed", then "expired" (its   *)
(* handler is queued with success) or "aborted" (queued with               *)
(* operation_aborted by cancel()), then "none" once the handler has run;   *)
(* cancel() of an expired timer has no effect, as in asio.                 *)
(*                                                                         *)
(* The ServiceNode side the connection calls (listener registry, store     *)
(* commit and notification, storage-test lookup, blockchain test) is not   *)
(* in the source tree: it is modelled from the spec (sections 4.5, 4.7).   *)
(* Message data is abstracted to its position in the recipient's log.     *)
(***************************************************************************)
EXTENDS Naturals, FiniteSets

CONSTANTS
    Conns,            \* connections the acceptor may create
    PubKeys,          \* recipient public keys
    Kinds,            \* request kinds the clients of this run send
    SessionLimit,     \* SESSION_TIME_LIMIT, in ticks
    LongPollTimeout,  \* LONG_POLL_TIMEOUT (20 s), in ticks
    TestRetryPeriod,  \* TEST_RETRY_PERIOD (50 ms), in ticks
    TestRetryLimit,   \* the 1 min bound of the storage-test retry loop
    MaxMsgs,          \* bound on the messages stored per recipient
    InitialMsgs,      \* most messages a recipient has when the server starts
    AcceptBy,         \* last tick at which a connection is accepted
    MaxTime           \* time horizon of the model

AllKinds == {"store", "push", "retrieve", "storage_test",
             "blockchain_test", "simple"}

ASSUME /\ Kinds \subseteq AllKinds
       /\ {SessionLimit, LongPollTimeout, TestRetryPeriod, TestRetryLimit,
           MaxMsgs, InitialMsgs, AcceptBy, MaxTime} \subseteq Nat
       /\ InitialMsgs <= MaxMsgs
       /\ 0 < TestRetryPeriod /\ TestRetryPeriod < LongPollTimeout
       /\ LongPollTimeout < SessionLimit
       \* the horizon lets every timer of every connection fire
       /\ AcceptBy + 2 * SessionLimit <= MaxTime

VARIABLES
    now,        \* the steady clock, in ticks
    conn,       \* conn[c]: the fields of connection_t and its pending operations
    listeners,  \* ServiceNode listener registry: pubkey -> connections
    db,         \* number of messages committed per recipient
    sn          \* ServiceNode facts a storage test depends on

vars == <<now, conn, listeners, db, sn>>

TimerStates == {"none", "armed", "expired", "aborted"}

NoPk == "no_pk"

\* A request as parsed by process_request.  "simple" stands for every
\* request answered at once without touching shared state: ping, stats,
\* logs, snodes-by-pubkey, an unknown target, "not ready", a failed
\* signature check or rate limit.  valid = FALSE is a request rejected
\* by one of the handler's validation checks.
NoReq == [kind |-> "none", pk |-> NoPk, lp |-> FALSE, valid |-> FALSE, last |-> 0]

\* What the response body carries: a status and the log positions of the
\* messages it returns.
NoBody == [st |-> "none", msgs |-> {}]
Body(st, msgs) == [st |-> st, msgs |-> msgs]

Idle == [acc |-> FALSE, start |-> 0, open |-> FALSE,
         hs |-> FALSE, rd |-> FALSE, wr |-> FALSE, sd |-> 0,
         dl |-> "none",
         lp |-> "none", lpDue |-> 0,
         rt |-> "none", rtDue |-> 0,
         bc |-> FALSE, bcDue |-> 0,
         req |-> NoReq, delay |-> FALSE,
         ctx |-> FALSE, ctxMsg |-> 0,
         stream |-> NoBody, writes |-> 0, sent |-> NoBody, uaf |-> FALSE]

TypeOK ==
    /\ now \in 0..MaxTime
    /\ db \in [PubKeys -> 0..MaxMsgs]
    /\ listeners \in [PubKeys -> SUBSET Conns]
    /\ sn \in [caughtUp : BOOLEAN, replicated : BOOLEAN]
    /\ \A c \in Conns :
         LET x == conn[c] IN
         /\ x.acc \in BOOLEAN /\ x.open \in BOOLEAN
         /\ x.start \in 0..MaxTime
         /\ {x.hs, x.rd, x.wr, x.bc, x.delay, x.ctx, x.uaf} \subseteq BOOLEAN
         /\ x.sd \in 0..2
         /\ {x.dl, x.lp, x.rt} \subseteq TimerStates
         /\ {x.lpDue, x.rtDue, x.bcDue} \subseteq 0..(2 * MaxTime)
         /\ x.req.kind \in AllKinds \cup {"none"}
         /\ x.ctxMsg \in 0..MaxMsgs
         /\ x.writes \in 0..3
         /\ x.sent.msgs \subseteq 1..MaxMsgs

-----------------------------------------------------------------------------
(* Helpers on one connection record.                                       *)

\* asio steady_timer::cancel(): only a timer still waiting is aborted.
Cancel(t) == IF t = "armed" THEN "aborted" ELSE t

\* A connection object lives while a pending handler or the listener
\* registry holds a shared_ptr to it.  The blockchain-test callback
\* captures a raw `this` and does not keep it alive.
Alive(c) ==
    /\ conn[c].acc
    /\ \/ conn[c].hs \/ conn[c].rd \/ conn[c].wr \/ conn[c].sd > 0
       \/ conn[c].dl /= "none" \/ conn[c].lp /= "none" \/ conn[c].rt /= "none"
       \/ \E pk \in PubKeys : c \in listeners[pk]

\* Seeded fault: start() forgets register_deadline.
NewConnectionNoDeadline(t) ==
    [Idle EXCEPT !.acc = TRUE, !.start = t, !.open = TRUE, !.hs = TRUE]

\* connection_t constructor and start(): the deadline is armed
\* (register_deadline) and the TLS handshake begins (do_handshake).
NewConnection(t) ==
    [Idle EXCEPT !.acc = TRUE, !.start = t, !.open = TRUE,
                 !.hs = TRUE, !.dl = "armed"]

\* clean_up(): do_close() starts an async SSL shutdown holding self.
CleanUpConn(x) == [x EXCEPT !.sd = @ + 1]

\* ServiceNode::remove_listener(pk, conn)  (spec 4.5).
RemoveListener(L, pk, c) == [L EXCEPT ![pk] = @ \ {c}]

\* clean_up(): deregisters the connection if it has a notification context.
CleanUpListeners(c) ==
    IF conn[c].ctx THEN RemoveListener(listeners, conn[c].req.pk, c)
                   ELSE listeners

\* write_response(): the body stream is sent by an async_write holding self.
WriteResp(x) ==
    [x EXCEPT !.wr = TRUE, !.writes = @ + 1,
              !.sent = IF @ = NoBody THEN x.stream ELSE @]

\* respond_with_messages(items): an OK body listing the items, then written.
RespondWith(x, items) == WriteResp([x EXCEPT !.stream = Body("ok", items)])

\* Seeded fault: notify keeps the message and does not cancel the timer.
NotifyNoCancel(x, m) ==
    IF ~x.ctx THEN x
    ELSE [x EXCEPT !.ctxMsg = m]

\* connection_t::notify(msg): keep the message in the notification context
\* and cancel the long-poll timer, whose handler then responds.
Notify(x, m) ==
    IF ~x.ctx THEN x
    ELSE [x EXCEPT !.ctxMsg = m, !.lp = Cancel(@)]

-----------------------------------------------------------------------------
(* The ServiceNode calls, modelled from the spec.                          *)

\* Seeded fault: a store notifies the waiters of every recipient.
CommitAnyRecipient(c0, x0, pk) ==
    LET m == db[pk] + 1 IN
    /\ db' = [db EXCEPT ![pk] = m]
    /\ conn' = [x \in Conns |->
                  IF x = c0 THEN x0
                  ELSE IF \E q \in PubKeys : x \in listeners[q]
                       THEN Notify(conn[x], m)
                  ELSE conn[x]]
    /\ listeners' = [q \in PubKeys |-> {}]

\* ServiceNode::process_store / process_push (spec 4.4, 4.5): the message is
\* committed as the next entry of the recipient's log, every waiter on that
\* recipient is notified with it and deregistered.  c0, whose handler made
\* the call, gets the record x0.
Commit(c0, x0, pk) ==
    LET m == db[pk] + 1 IN
    /\ db' = [db EXCEPT ![pk] = m]
    /\ conn' = [x \in Conns |->
                  IF x = c0 THEN x0
                  ELSE IF x \in listeners[pk] THEN Notify(conn[x], m)
                  ELSE conn[x]]
    /\ listeners' = [listeners EXCEPT ![pk] = {}]

\* ServiceNode::process_storage_test_req (spec 4.7): RETRY while our block
\* height is behind the tester's, WRONG_REQ when we are not the testee of
\* that tester, RETRY while the message has not reached us, else SUCCESS.
TestStatus(r) ==
    IF ~sn.caughtUp THEN "RETRY"
    ELSE IF ~r.valid THEN "WRONG_REQ"
    ELSE IF ~sn.replicated THEN "RETRY"
    ELSE "SUCCESS"

\* ServiceNode::perform_blockchain_test (spec 4.7): a request to the daemon
\* whose HttpClientSession answers, at the latest, when its own deadline
\* of SESSION_TIME_LIMIT fires.
BlockchainTestDue == now + SessionLimit

-----------------------------------------------------------------------------
(* Request handlers of connection_t.                                       *)

\* read_request's on_data: the response is written at once unless the
\* handler set delay_response_.
AfterProcess(x) == IF x.delay THEN x ELSE WriteResp(x)

\* Seeded faults: SUCCESS writes without setting delay_response_, so
\* on_data writes again; RETRY without the 1 min limit.
TestAttemptNoDelay(x, st) ==
    CASE st = "SUCCESS" -> WriteResp([x EXCEPT !.stream = Body("OK", {})])
      [] st = "RETRY" /\ now - x.start < TestRetryLimit ->
            [x EXCEPT !.delay = TRUE, !.rt = "armed",
                      !.rtDue = now + TestRetryPeriod]
      [] st = "WRONG_REQ" -> [x EXCEPT !.stream = Body("wrong request", {})]
      [] OTHER -> [x EXCEPT !.stream = Body("other", {})]

TestAttemptUnbounded(x, st) ==
    CASE st = "SUCCESS" ->
            WriteResp([x EXCEPT !.delay = TRUE, !.stream = Body("OK", {})])
      [] st = "RETRY" ->
            [x EXCEPT !.delay = TRUE, !.rt = "armed",
                      !.rtDue = now + TestRetryPeriod]
      [] st = "WRONG_REQ" -> [x EXCEPT !.stream = Body("wrong request", {})]
      [] OTHER -> [x EXCEPT !.stream = Body("other", {})]

\* process_storage_test_req: one attempt of the storage test.  A RETRY is
\* re-attempted every TEST_RETRY_PERIOD while less than 1 min has passed
\* since the connection started; only SUCCESS writes the response itself.
TestAttempt(x, st) ==
    CASE st = "SUCCESS" ->
            WriteResp([x EXCEPT !.delay = TRUE, !.stream = Body("OK", {})])
      [] st = "RETRY" /\ now - x.start < TestRetryLimit ->
            [x EXCEPT !.delay = TRUE, !.rt = "armed",
                      !.rtDue = now + TestRetryPeriod]
      [] st = "WRONG_REQ" -> [x EXCEPT !.stream = Body("wrong request", {})]
      [] OTHER -> [x EXCEPT !.stream = Body("other", {})]

\* poll_db: the recipient's messages after last_hash.  A failed database
\* read sets a 500 status and returns; with no message and the long-poll
\* header the connection registers as a listener and arms the 20 s timer;
\* otherwise the messages are returned.
\* Seeded faults: the range starts at last_hash itself, or one entry
\* past the first unseen one.
PollDbItemsFromLast(x) == x.req.last..db[x.req.pk]

PollDbItems(x) == (x.req.last + 1)..db[x.req.pk]

PollDbWaits(x, dbOk) == dbOk /\ PollDbItems(x) = {} /\ x.req.lp

PollDbConn(x, dbOk) ==
    CASE ~dbOk -> [x EXCEPT !.stream = Body("error", {})]
      [] PollDbWaits(x, dbOk) ->
            [x EXCEPT !.ctx = TRUE, !.ctxMsg = 0, !.lp = "armed",
                      !.lpDue = now + LongPollTimeout]
      [] OTHER -> RespondWith(x, PollDbItems(x))

PollDbListeners(c, x, dbOk) ==
    IF PollDbWaits(x, dbOk)
    THEN [listeners EXCEPT ![x.req.pk] = @ \cup {c}]
    ELSE listeners

\* The request of a handler, and the record after the read completed.
Request(k, pk, lp, valid, last) ==
    [kind |-> k, pk |-> pk, lp |-> lp, valid |-> valid, last |-> last]

Received(c, r) == [conn[c] EXCEPT !.rd = FALSE, !.req = r]

ReadReady(c) == conn[c].rd /\ conn[c].open

\* A request answered at once without touching shared state.
ReadSimple(c) ==
    /\ "simple" \in Kinds
    /\ ReadReady(c)
    /\ conn' = [conn EXCEPT ![c] =
                  AfterProcess([Received(c, Request("simple", NoPk, FALSE, TRUE, 0))
                                  EXCEPT !.stream = Body("simple", {})])]
    /\ UNCHANGED <<now, listeners, db, sn>>

\* process_store (client store) and process_swarm_req's push: a valid
\* message is committed, then the OK response is written.
ReadStore(c, k, pk, valid) ==
    /\ k \in Kinds \cap {"store", "push"}
    /\ ReadReady(c)
    /\ LET x == AfterProcess([Received(c, Request(k, pk, FALSE, valid, 0))
                               EXCEPT !.stream = Body(IF valid THEN "ok"
                                                      ELSE "rejected", {})])
       IN IF valid
          THEN /\ db[pk] < MaxMsgs
               /\ Commit(c, x, pk)
          ELSE /\ conn' = [conn EXCEPT ![c] = x]
               /\ UNCHANGED <<listeners, db>>
    /\ UNCHANGED <<now, sn>>

\* Seeded fault: process_retrieve does not set delay_response_.
ReadRetrieveNoDelay(c, pk, lp, valid, last, dbOk) ==
    /\ "retrieve" \in Kinds
    /\ ReadReady(c)
    /\ last \in 0..db[pk]
    /\ valid \/ dbOk
    /\ LET x == Received(c, Request("retrieve", pk, lp, valid, last)) IN
       IF valid
       THEN /\ conn' = [conn EXCEPT ![c] = AfterProcess(PollDbConn(x, dbOk))]
            /\ listeners' = PollDbListeners(c, x, dbOk)
       ELSE /\ conn' = [conn EXCEPT ![c] =
                          AfterProcess([x EXCEPT !.stream = Body("rejected", {})])]
            /\ UNCHANGED listeners
    /\ UNCHANGED <<now, db, sn>>

\* process_retrieve then poll_db.  The client's last_hash is a position
\* of the recipient's log it has already seen.  process_retrieve sets
\* delay_response_ before poll_db.
ReadRetrieve(c, pk, lp, valid, last, dbOk) ==
    /\ "retrieve" \in Kinds
    /\ ReadReady(c)
    /\ last \in 0..db[pk]
    /\ valid \/ dbOk
    /\ LET x  == Received(c, Request("retrieve", pk, lp, valid, last))
           xd == [x EXCEPT !.delay = TRUE]
       IN IF valid
          THEN /\ conn' = [conn EXCEPT ![c] = AfterProcess(PollDbConn(xd, dbOk))]
               /\ listeners' = PollDbListeners(c, xd, dbOk)
          ELSE /\ conn' = [conn EXCEPT ![c] =
                             AfterProcess([x EXCEPT !.stream = Body("rejected", {})])]
               /\ UNCHANGED listeners
    /\ UNCHANGED <<now, db, sn>>

\* process_swarm_req for /swarms/storage_test/v1: the first attempt.
ReadStorageTest(c, valid) ==
    /\ "storage_test" \in Kinds
    /\ ReadReady(c)
    /\ LET r == Request("storage_test", NoPk, FALSE, valid, 0) IN
       conn' = [conn EXCEPT ![c] =
                  AfterProcess(TestAttempt(Received(c, r), TestStatus(r)))]
    /\ UNCHANGED <<now, listeners, db, sn>>

\* process_swarm_req for /swarms/blockchain_test/v1: the response is
\* delayed until the daemon answers process_blockchain_test_req's callback.
ReadBlockchainTest(c) ==
    /\ "blockchain_test" \in Kinds
    /\ ReadReady(c)
    /\ conn' = [conn EXCEPT ![c] =
                  [Received(c, Request("blockchain_test", NoPk, FALSE, TRUE, 0))
                     EXCEPT !.delay = TRUE, !.bc = TRUE,
                            !.bcDue = BlockchainTestDue]]
    /\ UNCHANGED <<now, listeners, db, sn>>

-----------------------------------------------------------------------------
(* Connection lifecycle.                                                   *)

\* accept_connection: a new connection_t is made and started.
Accept(c) ==
    /\ ~conn[c].acc
    /\ now <= AcceptBy
    /\ conn' = [conn EXCEPT ![c] = NewConnection(now)]
    /\ UNCHANGED <<now, listeners, db, sn>>

\* on_handshake: on error clean up and cancel the deadline, else read.
\* A handshake still pending when the socket is closed fails.
OnHandshake(c, ok) ==
    /\ conn[c].hs
    /\ ok => conn[c].open
    /\ IF ok
       THEN /\ conn' = [conn EXCEPT ![c].hs = FALSE, ![c].rd = TRUE]
            /\ UNCHANGED listeners
       ELSE /\ conn' = [conn EXCEPT ![c] =
                          [CleanUpConn(@) EXCEPT !.hs = FALSE, !.dl = Cancel(@)]]
            /\ listeners' = CleanUpListeners(c)
    /\ UNCHANGED <<now, db, sn>>

\* read_request's on_data with an error: the client went away, or the
\* socket was closed under the pending read.
OnReadError(c) ==
    /\ conn[c].rd
    /\ conn' = [conn EXCEPT ![c] =
                  [CleanUpConn(@) EXCEPT !.rd = FALSE, !.dl = Cancel(@)]]
    /\ listeners' = CleanUpListeners(c)
    /\ UNCHANGED <<now, db, sn>>

\* write_response's completion handler: clean up, cancel the deadline.
OnWrite(c) ==
    /\ conn[c].wr
    /\ conn' = [conn EXCEPT ![c] =
                  [CleanUpConn(@) EXCEPT !.wr = FALSE, !.dl = Cancel(@)]]
    /\ listeners' = CleanUpListeners(c)
    /\ UNCHANGED <<now, db, sn>>

\* on_shutdown: the SSL shutdown finished; the socket is closed.
OnShutdown(c) ==
    /\ conn[c].sd > 0
    /\ conn' = [conn EXCEPT ![c].sd = @ - 1, ![c].open = FALSE]
    /\ UNCHANGED <<now, listeners, db, sn>>

\* register_deadline's handler: nothing when cancelled, else clean up.
OnDeadline(c) ==
    /\ conn[c].dl \in {"expired", "aborted"}
    /\ IF conn[c].dl = "expired"
       THEN /\ conn' = [conn EXCEPT ![c] = [CleanUpConn(@) EXCEPT !.dl = "none"]]
            /\ listeners' = CleanUpListeners(c)
       ELSE /\ conn' = [conn EXCEPT ![c].dl = "none"]
            /\ UNCHANGED listeners
    /\ UNCHANGED <<now, db, sn>>

\* Seeded fault: the timer handler does not remove the listener.
OnLongPollTimerKeepListener(c) ==
    /\ conn[c].lp \in {"expired", "aborted"}
    /\ LET x     == conn[c]
           items == IF x.lp = "aborted" /\ x.ctxMsg > 0 THEN {x.ctxMsg} ELSE {}
       IN /\ conn' = [conn EXCEPT ![c] = RespondWith([x EXCEPT !.lp = "none"], items)]
          /\ UNCHANGED listeners
    /\ UNCHANGED <<now, db, sn>>

\* poll_db's notification timer handler: cancelled means notified, and the
\* message kept by notify() is returned; expired means the 20 s passed and
\* an empty list is returned.  Either way the listener is removed.
OnLongPollTimer(c) ==
    /\ conn[c].lp \in {"expired", "aborted"}
    /\ LET x     == conn[c]
           items == IF x.lp = "aborted" /\ x.ctxMsg > 0 THEN {x.ctxMsg} ELSE {}
       IN /\ conn' = [conn EXCEPT ![c] = RespondWith([x EXCEPT !.lp = "none"], items)]
          /\ listeners' = RemoveListener(listeners, x.req.pk, c)
    /\ UNCHANGED <<now, db, sn>>

\* The storage test's repeat timer handler: attempt the test again.  The
\* timer is never cancelled.
OnRetryTimer(c) ==
    /\ conn[c].rt = "expired"
    /\ conn' = [conn EXCEPT ![c] =
                  TestAttempt([@ EXCEPT !.rt = "none"], TestStatus(@.req))]
    /\ UNCHANGED <<now, listeners, db, sn>>

\* The blockchain test's callback, run when the daemon answers: it writes
\* the response through a raw `this`.  On a connection already destroyed
\* this is a use after free; the model records it and changes nothing else.
OnBlockchainAnswer(c) ==
    /\ conn[c].bc
    /\ conn' = [conn EXCEPT ![c] =
                  IF Alive(c)
                  THEN WriteResp([@ EXCEPT !.bc = FALSE,
                                           !.stream = Body("res_height", {})])
                  ELSE [@ EXCEPT !.bc = FALSE, !.uaf = TRUE]]
    /\ UNCHANGED <<now, listeners, db, sn>>

-----------------------------------------------------------------------------
(* Time and the environment.                                               *)

\* A timer of c, or c's daemon answer, is due.
TimerDue(c) ==
    \/ conn[c].dl = "armed" /\ now >= conn[c].start + SessionLimit
    \/ conn[c].lp = "armed" /\ now >= conn[c].lpDue
    \/ conn[c].rt = "armed" /\ now >= conn[c].rtDue
    \/ conn[c].bc /\ now >= conn[c].bcDue

\* asio moves a due timer's handler to the ready queue.
TimerExpires(c) ==
    /\ \/ /\ conn[c].dl = "armed" /\ now >= conn[c].start + SessionLimit
          /\ conn' = [conn EXCEPT ![c].dl = "expired"]
       \/ /\ conn[c].lp = "armed" /\ now >= conn[c].lpDue
          /\ conn' = [conn EXCEPT ![c].lp = "expired"]
       \/ /\ conn[c].rt = "armed" /\ now >= conn[c].rtDue
          /\ conn' = [conn EXCEPT ![c].rt = "expired"]
    /\ UNCHANGED <<now, listeners, db, sn>>

\* A handler of c that runs without waiting for the network: a queued
\* timer handler, an SSL shutdown, or an operation on a closed socket.
LocalWork(c) ==
    \/ conn[c].dl \in {"expired", "aborted"}
    \/ conn[c].lp \in {"expired", "aborted"}
    \/ conn[c].rt = "expired"
    \/ conn[c].sd > 0
    \/ ~conn[c].open /\ (conn[c].hs \/ conn[c].rd \/ conn[c].wr)

\* The clock advances once no timer is overdue, no daemon answer is later
\* than its session deadline, and the io_context has drained its local
\* work: handlers take far less than a tick.
Tick ==
    /\ now < MaxTime
    /\ \A c \in Conns : ~TimerDue(c) /\ ~LocalWork(c)
    /\ now' = now + 1
    /\ UNCHANGED <<conn, listeners, db, sn>>

\* The node catches up with the tester's block height; the tested message
\* reaches the node by gossip.
CatchUp ==
    /\ ~sn.caughtUp
    /\ sn' = [sn EXCEPT !.caughtUp = TRUE]
    /\ UNCHANGED <<now, conn, listeners, db>>

Replicate ==
    /\ ~sn.replicated
    /\ sn' = [sn EXCEPT !.replicated = TRUE]
    /\ UNCHANGED <<now, conn, listeners, db>>

\* The end of the time horizon: the model stops here.
HorizonReached ==
    /\ now = MaxTime
    /\ \A c \in Conns : ~TimerDue(c) /\ ~LocalWork(c)
    /\ UNCHANGED vars

-----------------------------------------------------------------------------

Init ==
    /\ now = 0
    /\ conn = [c \in Conns |-> Idle]
    /\ listeners = [pk \in PubKeys |-> {}]
    \* The message database persists across restarts: a recipient may
    \* already have messages when the server starts.
    /\ db \in [PubKeys -> 0..InitialMsgs]
    /\ sn \in [caughtUp : BOOLEAN, replicated : BOOLEAN]

\* A client sends its request: the read completes with data.
ClientRequest(c) ==
    \/ ReadSimple(c)
    \/ ReadBlockchainTest(c)
    \/ \E v \in BOOLEAN : ReadStorageTest(c, v)
    \/ \E k \in {"store", "push"}, pk \in PubKeys, v \in BOOLEAN :
         ReadStore(c, k, pk, v)
    \/ \E pk \in PubKeys, lp, v, ok \in BOOLEAN, last \in 0..MaxMsgs :
         ReadRetrieve(c, pk, lp, v, last, ok)

Next ==
    \/ \E c \in Conns :
         \/ Accept(c)
         \/ \E ok \in BOOLEAN : OnHandshake(c, ok)
         \/ ClientRequest(c)
         \/ OnReadError(c)
         \/ OnWrite(c)
         \/ OnShutdown(c)
         \/ OnDeadline(c)
         \/ OnLongPollTimer(c)
         \/ OnRetryTimer(c)
         \/ OnBlockchainAnswer(c)
         \/ TimerExpires(c)
    \/ Tick
    \/ CatchUp
    \/ Replicate
    \/ HorizonReached

\* The io_context runs every ready handler and asio completes every
\* operation on a closed socket; time passes.  Clients, the network and
\* the daemon's timing get no fairness: a client may never send.
Fairness ==
    /\ WF_vars(Tick)
    /\ \A c \in Conns :
         /\ WF_vars(~conn[c].open /\ OnHandshake(c, FALSE))
         /\ WF_vars(~conn[c].open /\ OnReadError(c))
         /\ WF_vars(OnWrite(c))
         /\ WF_vars(OnShutdown(c))
         /\ WF_vars(OnDeadline(c))
         /\ WF_vars(OnLongPollTimer(c))
         /\ WF_vars(OnRetryTimer(c))
         /\ WF_vars(OnBlockchainAnswer(c))
         /\ WF_vars(TimerExpires(c))

Spec == Init /\ [][Next]_vars /\ Fairness

-----------------------------------------------------------------------------
(* Properties.                                                             *)

\* The delay_response_ protocol: every handler path writes the response at
\* most once, whether it is written by on_data, by process_storage_test_req,
\* by a long-poll timer or by the daemon's callback.
AtMostOneResponse == \A c \in Conns : conn[c].writes <= 1

NoStaleListener ==
    \A pk \in PubKeys : \A c \in listeners[pk] :
        /\ conn[c].ctx
        /\ conn[c].req.pk = pk
        /\ conn[c].writes = 0

\* Every accepted connection is eventually released: no pending handler,
\* retry loop or registry entry keeps its shared_ptr forever.
ConnectionReleased == \A c \in Conns : conn[c].acc ~> ~Alive(c)

\* Spec 4.5: a waiter woken by a store responds with the message delivered
\* into its slot.  The code can respond with an empty list instead, when
\* the 20 s timer has already expired as the store notifies.
WokenWaiterGetsMessage ==
    \A c \in Conns :
        conn[c].writes > 0 /\ conn[c].ctxMsg > 0
            => conn[c].ctxMsg \in conn[c].sent.msgs

\* Every request the server has read is eventually answered (spec 4.7 and
\* 7: a storage test answers OK, wrong request or other; a storage
\* failure is answered with 500).
RequestAnswered ==
    \A c \in Conns : conn[c].req.kind /= "none" ~> conn[c].writes > 0

\* The blockchain test's callback never runs on a destroyed connection.
NoUseAfterFree == \A c \in Conns : ~conn[c].uaf

=============================================================================
