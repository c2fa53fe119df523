----------------------------- MODULE Acceptor -----------------------------
(***************************************************************************)
(* The accept loop of http_server (http_connection.cpp, accept_connection *)
(* and run).  run() issues one async_accept; its handler either starts a   *)
(* connection_t and accepts again, or, on an error, aborts the process on  *)
(* EMFILE and otherwise arms the static acceptor_timer for ACCEPT_DELAY    *)
(* (50 ms), whose handler accepts again.  Everything runs on the one       *)
(* io_context thread, so each handler is one step.                         *)
(*                                                                         *)
(* Clients connect into the listen backlog (a FIFO queue); an accepted     *)
(* connection holds a file descriptor until its connection_t is destroyed. *)
(* FdLimit is how many connection descriptors fit under RLIMIT_NOFILE next *)
(* to the descriptors the process already holds.                           *)
(***************************************************************************)
EXTENDS Naturals, Sequences, FiniteSets, Functions

CONSTANTS
    Clients,   \* remote peers that connect to the storage server port
    FdLimit    \* descriptors left for accepted connections

ASSUME FdLimit \in Nat \ {0} /\ FdLimit < Cardinality(Clients)

VARIABLES
    queue,     \* the listen backlog: connected, not yet accepted
    conns,     \* clients whose connection_t holds an open socket
    accepts,   \* async_accept operations outstanding
    timer,     \* acceptor_timer has a wait outstanding
    aborted    \* the process called abort()

avars == <<queue, conns, accepts, timer, aborted>>

Queued == Range(queue)

TypeOK ==
    /\ queue \in Seq(Clients)
    /\ conns \subseteq Clients /\ Cardinality(conns) <= FdLimit
    /\ accepts \in 0..1
    /\ timer \in BOOLEAN
    /\ aborted \in BOOLEAN

-----------------------------------------------------------------------------
(* The handler of async_accept.  The reactor calls accept() only when the *)
(* listening socket is readable, so a handler runs only with a client in  *)
(* the backlog.                                                            *)

AcceptReady == accepts > 0 /\ queue /= <<>> /\ ~aborted

\* !ec: make_shared<connection_t>(...)->start(), then accept_connection
\* again, which issues the next async_accept.
OnAcceptOk ==
    /\ AcceptReady
    /\ Cardinality(conns) < FdLimit
    /\ conns' = conns \cup {Head(queue)}
    /\ queue' = Tail(queue)
    /\ UNCHANGED <<accepts, timer, aborted>>

\* ec == too_many_files_open: log and abort().  The kernel leaves the
\* client in the backlog.
OnAcceptEmfile ==
    /\ AcceptReady
    /\ Cardinality(conns) = FdLimit
    /\ aborted' = TRUE
    /\ accepts' = accepts - 1
    /\ UNCHANGED <<queue, conns, timer>>

\* Seeded fault: the error path keeps the immediate re-accept of the
\* older accept loop and also arms the back-off.
OnAcceptErrorReaccept ==
    /\ AcceptReady
    /\ timer' = TRUE
    /\ UNCHANGED <<queue, conns, accepts, aborted>>

\* Any other error (ENFILE, ENOBUFS, ENOMEM, EPROTO, ...): log,
\* acceptor_timer.expires_after(ACCEPT_DELAY), async_wait; no accept is
\* outstanding until the timer's handler runs.
OnAcceptError ==
    /\ AcceptReady
    /\ accepts' = accepts - 1
    /\ timer' = TRUE
    /\ UNCHANGED <<queue, conns, aborted>>

\* Seeded fault: the timer handler returns without accepting again.
OnAcceptTimerNoReaccept ==
    /\ timer /\ ~aborted
    /\ timer' = FALSE
    /\ UNCHANGED <<queue, conns, accepts, aborted>>

\* The handler of acceptor_timer.async_wait.  Nothing cancels the timer and
\* only one wait is outstanding, so ec is success and the abort() on an
\* error other than operation_aborted is not taken: accept_connection.
OnAcceptTimer ==
    /\ timer /\ ~aborted
    /\ timer' = FALSE
    /\ accepts' = accepts + 1
    /\ UNCHANGED <<queue, conns, aborted>>

\* run(): after the acceptor is bound and the certificate loaded,
\* accept_connection issues the first async_accept.
AcceptorInit ==
    /\ queue = <<>>
    /\ conns = {}
    /\ accepts = 1
    /\ timer = FALSE
    /\ aborted = FALSE

-----------------------------------------------------------------------------
(* The environment.                                                        *)

\* A client connects; the kernel completes the handshake into the backlog.
Connect(c) ==
    /\ ~aborted
    /\ c \notin Queued \cup conns
    /\ queue' = Append(queue, c)
    /\ UNCHANGED <<conns, accepts, timer, aborted>>

\* The connection_t is destroyed (its deadline, a response, an error) and
\* do_close or ~connection_t closes the socket.
Release(c) ==
    /\ ~aborted
    /\ c \in conns
    /\ conns' = conns \ {c}
    /\ UNCHANGED <<queue, accepts, timer, aborted>>

\* After abort() nothing happens any more.
Terminated == aborted /\ UNCHANGED avars

AcceptorNext ==
    \/ OnAcceptOk \/ OnAcceptEmfile \/ OnAcceptError \/ OnAcceptTimer
    \/ \E c \in Clients : Connect(c) \/ Release(c)
    \/ Terminated

\* The io_context runs every ready handler: the timer's after 50 ms, and
\* the accept handler while a client waits.  Errors other than EMFILE are
\* transient, so a client waiting in the backlog is accepted once one is
\* possible often enough (strong fairness on OnAcceptOk).  Every
\* connection_t is destroyed, by its 60 s deadline at the latest.
AcceptorFairness ==
    /\ WF_avars(OnAcceptTimer)
    /\ WF_avars(OnAcceptEmfile)
    /\ SF_avars(OnAcceptOk)
    /\ \A c \in Clients : WF_avars(Release(c))

AcceptorSpec == AcceptorInit /\ [][AcceptorNext]_avars /\ AcceptorFairness

-----------------------------------------------------------------------------
(* Properties.                                                             *)

\* A client waiting in the backlog is eventually served by a connection_t,
\* unless the process aborted: every error path of the accept loop, the
\* 50 ms back-off included, leads back to an async_accept.
ClientAccepted ==
    \A c \in Clients : (c \in Queued) ~> (c \in conns \/ aborted)

=============================================================================
