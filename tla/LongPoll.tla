------------------------------ MODULE LongPoll ------------------------------
(***************************************************************************)
(* What ServiceNode's listener registry and connection_t::poll_db promise *)
(* a long-polling retrieve (spec 4.4, 4.5), as an abstract specification. *)
(* A retrieve that finds nothing after its last_hash waits on its         *)
(* recipient; the next message stored for that recipient wakes every      *)
(* waiter and empties the registry entry; a woken waiter answers with     *)
(* that message, a waiter whose 20 s passed answers with none.            *)
(*                                                                         *)
(* A waiter whose time ran out stays registered until it answers, and a   *)
(* store in between deregisters it without waking it: this is what the   *)
(* code does when the long-poll timer has expired as notify() runs (the   *)
(* longpoll_wake run shows the message missing from that answer).         *)
(***************************************************************************)
EXTENDS Naturals

CONSTANTS
    Conns,     \* connections
    PubKeys,   \* recipients
    MaxMsgs,   \* messages a recipient's log can hold
    NoPk       \* the recipient of a connection that does not wait

VARIABLES
    log,       \* log[pk]: the number of messages stored for pk
    registry,  \* registry[pk]: the connections registered on pk
    poll       \* poll[c]: c's long poll

lpvars == <<log, registry, poll>>

PollStates == {"idle", "waiting", "woken", "expired", "answered"}

NotPolling == [st |-> "idle", pk |-> NoPk, msg |-> 0, reply |-> {}]

LPTypeOK ==
    /\ log \in [PubKeys -> 0..MaxMsgs]
    /\ registry \in [PubKeys -> SUBSET Conns]
    /\ poll \in [Conns -> [st : PollStates, pk : PubKeys \cup {NoPk},
                           msg : 0..MaxMsgs, reply : SUBSET (1..MaxMsgs)]]

LPInit ==
    /\ log \in [PubKeys -> 0..MaxMsgs]
    /\ registry = [pk \in PubKeys |-> {}]
    /\ poll = [c \in Conns |-> NotPolling]

\* A retrieve finds no message after its last_hash and waits on pk.
Register(c, pk) ==
    /\ poll[c].st = "idle"
    /\ poll' = [poll EXCEPT ![c] = [NotPolling EXCEPT !.st = "waiting", !.pk = pk]]
    /\ registry' = [registry EXCEPT ![pk] = @ \cup {c}]
    /\ UNCHANGED log

\* A message is stored for pk: every registered waiter still waiting is
\* woken with it, and pk's registry entry is emptied.
Append(pk) ==
    /\ log[pk] < MaxMsgs
    /\ log' = [log EXCEPT ![pk] = @ + 1]
    /\ poll' = [c \in Conns |->
                  IF c \in registry[pk] /\ poll[c].st = "waiting"
                  THEN [poll[c] EXCEPT !.st = "woken", !.msg = log[pk] + 1]
                  ELSE poll[c]]
    /\ registry' = [registry EXCEPT ![pk] = {}]

\* The waiter's time runs out.
Expire(c) ==
    /\ poll[c].st = "waiting"
    /\ poll' = [poll EXCEPT ![c].st = "expired"]
    /\ UNCHANGED <<log, registry>>

\* The waiter is deregistered without answering (its connection closes).
Deregister(c) ==
    /\ poll[c].st /= "idle"
    /\ c \in registry[poll[c].pk]
    /\ registry' = [registry EXCEPT ![poll[c].pk] = @ \ {c}]
    /\ UNCHANGED <<log, poll>>

\* The waiter answers, with its message if woken, with none if expired,
\* and leaves the registry.
Answer(c) ==
    /\ poll[c].st \in {"woken", "expired"}
    /\ poll' = [poll EXCEPT ![c] =
                  [poll[c] EXCEPT !.st = "answered", !.msg = 0,
                                  !.reply = IF poll[c].st = "woken"
                                            THEN {poll[c].msg} ELSE {}]]
    /\ registry' = [registry EXCEPT ![poll[c].pk] = @ \ {c}]
    /\ UNCHANGED log

LPNext ==
    \/ \E c \in Conns, pk \in PubKeys : Register(c, pk)
    \/ \E pk \in PubKeys : Append(pk)
    \/ \E c \in Conns : Expire(c) \/ Deregister(c) \/ Answer(c)

LPSpec == LPInit /\ [][LPNext]_lpvars

=============================================================================
