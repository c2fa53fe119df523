------------------------------ MODULE KeyFetch ------------------------------
(***************************************************************************)
(* ArqmadClient::wait_for_privkey, run by main before anything else: ask   *)
(* the daemon for get_service_node_privkey; on any failure (an SNodeError, *)
(* missing fields, keys that are not hex) retry after 5 s.  ioc_.run()     *)
(* returns once no handler is pending, and main derives the node's public *)
(* keys from whatever was fetched.                                         *)
(*                                                                         *)
(* Each request is an HttpClientSession (module HttpClientSession), whose *)
(* posted callback is key_fetch.  Sessions live in a bounded set of slots; *)
(* a slot is reused once its session is gone and its callback ran.         *)
(***************************************************************************)
EXTENDS Naturals, Sequences

CONSTANTS
    Slots,            \* session objects alive at the same time
    ResolveOutcomes   \* whether resolver.resolve may succeed / fail

VARIABLES
    sess,     \* the HttpClientSession objects
    daemon,   \* "down", "not_ready" (answers without valid keys), "ready"
    delay,    \* the 5 s steady_timer: "none" or "waiting"
    keys,     \* the three private keys: "unset", "invalid" or "valid"
    phase     \* "starting", "fetching", then "returned" when ioc_.run() returned

vars == <<sess, daemon, delay, keys, phase>>

HCS == INSTANCE HttpClientSession WITH Sessions <- Slots

DaemonStates == {"down", "not_ready", "ready"}

\* A slot whose session never existed, was dropped, or is destroyed with
\* its callback run.
Free(x) == x.st \in {"idle", "dropped"} \/ (x.destroyed /\ x.ran = Len(x.posted))

\* make_arqmad_request -> make_http_request in a free slot: a started
\* session, or nothing when the address does not resolve.
Request(s, resolved) ==
    /\ Free(sess[s])
    /\ sess' = [sess EXCEPT ![s] = IF resolved THEN HCS!Start(HCS!Idle)
                                   ELSE [HCS!Idle EXCEPT !.st = "dropped"]]

\* main calls wait_for_privkey, which makes the first request.
Begin ==
    /\ phase = "starting"
    /\ phase' = "fetching"
    /\ \E s \in Slots, ok \in ResolveOutcomes : Request(s, ok)
    /\ UNCHANGED <<daemon, delay, keys>>

\* One handler of a session.  A connect to a daemon that is down fails.
SessionStep(s) ==
    /\ \/ \E ok \in BOOLEAN : HCS!OnConnect(s, ok) /\ (ok => daemon /= "down")
       \/ \E ok \in BOOLEAN : HCS!OnWrite(s, ok)
       \/ \E ok \in BOOLEAN, r \in HCS!Results : HCS!OnRead(s, ok, r)
       \/ HCS!DeadlineExpires(s)
       \/ HCS!OnDeadline(s)
       \/ HCS!Destroy(s)
    /\ UNCHANGED <<daemon, delay, keys, phase>>

\* The result key_fetch gets from a posted callback: the daemon's keys only
\* from a NO_ERROR answer of a ready daemon.
Fetched(r) ==
    IF r /= "NO_ERROR" THEN "error"
    ELSE IF daemon = "ready" THEN "keys" ELSE "bad_body"

\* Seeded fault: key_fetch takes the keys without validateHexKey.
KeyFetchNoValidate(s) ==
    /\ HCS!RunCallback(s)
    /\ LET f == Fetched(sess[s].posted[sess[s].ran + 1]) IN
       IF f = "error"
       THEN /\ delay' = "waiting" /\ UNCHANGED keys
       ELSE /\ keys' = IF f = "keys" THEN "valid" ELSE "invalid"
            /\ UNCHANGED delay
    /\ UNCHANGED <<daemon, phase>>

\* Seeded fault: the success branch falls through to the retry.
KeyFetchAlwaysRetries(s) ==
    /\ HCS!RunCallback(s)
    /\ LET f == Fetched(sess[s].posted[sess[s].ran + 1]) IN
       keys' = IF f = "keys" THEN "valid" ELSE keys
    /\ delay' = "waiting"
    /\ UNCHANGED <<daemon, phase>>

\* key_fetch, run as the session's posted callback: valid keys are kept;
\* anything else throws inside the try, is logged and arms the 5 s delay.
KeyFetch(s) ==
    /\ HCS!RunCallback(s)
    /\ IF Fetched(sess[s].posted[sess[s].ran + 1]) = "keys"
       THEN /\ keys' = "valid" /\ UNCHANGED delay
       ELSE /\ delay' = "waiting" /\ UNCHANGED keys
    /\ UNCHANGED <<daemon, phase>>

\* The delay's handler, whatever its error code: request again.
OnDelay ==
    /\ delay = "waiting"
    /\ delay' = "none"
    /\ \E s \in Slots, ok \in ResolveOutcomes : Request(s, ok)
    /\ UNCHANGED <<daemon, keys, phase>>

\* ioc_.run() returns when no handler is pending: no timer, no live
\* session, no posted callback.  wait_for_privkey returns the keys as
\* they are.
RunReturns ==
    /\ phase = "fetching"
    /\ delay = "none"
    /\ \A s \in Slots : Free(sess[s])
    /\ phase' = "returned"
    /\ UNCHANGED <<sess, daemon, delay, keys>>

\* The daemon starts, stops or finishes syncing at any time.
DaemonChanges ==
    /\ phase /= "returned"
    /\ \E d \in DaemonStates \ {daemon} : daemon' = d
    /\ UNCHANGED <<sess, delay, keys, phase>>

Init ==
    /\ sess = [s \in Slots |-> HCS!Idle]
    /\ daemon \in DaemonStates
    /\ delay = "none"
    /\ keys = "unset"
    /\ phase = "starting"

Next ==
    \/ Begin
    \/ \E s \in Slots : SessionStep(s) \/ KeyFetch(s)
    \/ OnDelay
    \/ RunReturns
    \/ DaemonChanges

\* A successful step of a ready daemon's session.
Answers(s, A) == daemon = "ready" /\ A /\ UNCHANGED <<daemon, delay, keys, phase>>

\* The io_context runs queued handlers, timers fire, and operations on a
\* closed socket fail (weak fairness).  A ready daemon on the configured
\* address answers a request before its deadline whenever it gets the
\* chance infinitely often (strong fairness on its successful steps).
Fairness ==
    /\ WF_vars(Begin) /\ WF_vars(OnDelay) /\ WF_vars(RunReturns)
    /\ \A s \in Slots :
         /\ WF_vars(KeyFetch(s))
         /\ WF_vars(HCS!DeadlineExpires(s) /\ UNCHANGED <<daemon, delay, keys, phase>>)
         /\ WF_vars(HCS!OnDeadline(s) /\ UNCHANGED <<daemon, delay, keys, phase>>)
         /\ WF_vars(HCS!Destroy(s) /\ UNCHANGED <<daemon, delay, keys, phase>>)
         /\ WF_vars(~sess[s].open /\ SessionStep(s))
         /\ SF_vars(Answers(s, HCS!OnConnect(s, TRUE)))
         /\ SF_vars(Answers(s, HCS!OnWrite(s, TRUE)))
         /\ SF_vars(Answers(s, HCS!OnRead(s, TRUE, "NO_ERROR")))

Spec == Init /\ [][Next]_vars /\ Fairness

-----------------------------------------------------------------------------
(* Properties.                                                             *)

\* wait_for_privkey returns only with keys the daemon gave and that passed
\* validateHexKey: main derives the node's identity from them.
KeysValidOnReturn == phase = "returned" => keys = "valid"

=============================================================================
