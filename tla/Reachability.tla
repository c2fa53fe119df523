---------------------------- MODULE Reachability ----------------------------
(***************************************************************************)
(* The reachability tracker of reachability_testing.cpp and the service    *)
(* node code that drives it.  reachability_records_t keeps one record per *)
(* peer we failed to reach: first_failure, last_tested, reported.          *)
(*                                                                         *)
(* Time is kept as ages: a record's steady_clock time points are stored as *)
(* how many ticks ago they were, capped at AgeCap.  Every comparison the   *)
(* code makes (elapsed > UNREACH_GRACE_PERIOD, the order of last_tested    *)
(* in next_to_test) is preserved, with ages past the cap treated as equal. *)
(*                                                                         *)
(* The caller is ServiceNode, whose code is not in this repository; it is  *)
(* modelled from spec 4.6 and 4.7: a failed contact feeds                  *)
(* record_unreachable, whose true result sends                             *)
(* report_peer_storage_server_down to the daemon, and the daemon's         *)
(* answer calls set_reported; a successful contact calls expire; a         *)
(* periodic retest takes next_to_test.  All of it runs on the one          *)
(* io_context thread.                                                      *)
(***************************************************************************)
EXTENDS Naturals

CONSTANTS
    Peers,        \* service node public keys
    Grace,        \* UNREACH_GRACE_PERIOD, in ticks
    AgeCap,       \* ages at or past AgeCap are equal
    MaxInflight   \* daemon reports pending at once for one peer

ASSUME AgeCap = Grace + 1 /\ MaxInflight \in Nat \ {0}

\* No record in offline_nodes_.
None == [absent |-> TRUE]

VARIABLES
    offline,    \* offline_nodes_: peer -> record, or None
    inflight,   \* reports sent and not answered, per peer: [cur, old]
    retestDue,  \* the periodic retest has fired and not yet run
    okAge,      \* ghost: ticks since the last successful contact, per peer
    accepted    \* ghost: reports the daemon accepted for the current record

vars == <<offline, inflight, retestDue, okAge, accepted>>

Ages == 0..AgeCap

Older(a) == IF a < AgeCap THEN a + 1 ELSE a

\* A record as ages: ff (first_failure), lt (last_tested), reported.  The
\* clock never goes back, so last_tested is never before first_failure.
Record == {r \in [ff : Ages, lt : Ages, reported : BOOLEAN] : r.lt <= r.ff}

TypeOK ==
    /\ offline \in [Peers -> Record \cup {None}]
    /\ inflight \in [Peers -> [cur : 0..MaxInflight, old : 0..MaxInflight]]
    /\ \A p \in Peers : inflight[p].cur + inflight[p].old <= MaxInflight
    /\ retestDue \in BOOLEAN
    /\ okAge \in [Peers -> Ages]
    /\ accepted \in [Peers -> 0..2]

Offline == {p \in Peers : offline[p] /= None}

-----------------------------------------------------------------------------
(* reachability_records_t                                                  *)

\* Seeded fault: the constructor leaves last_tested at the clock's epoch.
NewRecordNoLastTested == [ff |-> 0, lt |-> AgeCap, reported |-> FALSE]

\* reach_record_t(): first_failure = last_tested = now, not reported.
NewRecord == [ff |-> 0, lt |-> 0, reported |-> FALSE]

\* record_unreachable's effect on the map: insert a new record, or set
\* last_tested = now.
RecordUnreachable(p) ==
    [offline EXCEPT ![p] = IF @ = None THEN NewRecord ELSE [@ EXCEPT !.lt = 0]]

\* Seeded fault: elapsed >= UNREACH_GRACE_PERIOD.
ShouldReportAtGrace(p) ==
    offline[p] /= None /\ ~offline[p].reported /\ offline[p].ff >= Grace

\* record_unreachable's result: a known, unreported node whose first
\* failure is more than the grace period before now.
ShouldReport(p) ==
    offline[p] /= None /\ ~offline[p].reported /\ offline[p].ff > Grace

\* Seeded fault: expire only reports whether the node is known.
ExpireKeepsRecord(p) == offline

\* expire: erase the record.
Expire(p) == [offline EXCEPT ![p] = None]

\* set_reported: mark the record, if there is one.
SetReported(p) ==
    IF offline[p] = None THEN offline
    ELSE [offline EXCEPT ![p].reported = TRUE]

\* Seeded fault: std::max_element, the most recently tested node.
NextToTestNewest ==
    {p \in Offline : \A q \in Offline : offline[p].lt <= offline[q].lt}

\* next_to_test: a node with the earliest last_tested (largest age); the
\* unordered_map's iteration order picks among equals.  Empty for none.
NextToTest ==
    {p \in Offline : \A q \in Offline : offline[q].lt <= offline[p].lt}

-----------------------------------------------------------------------------
(* The service node's use of the tracker (spec 4.6, 4.7).                  *)

\* A request to p (storage test, push, blockchain test) completes.  A
\* failure is recorded and, when record_unreachable says so, reported to
\* the daemon; a success expires the record, and reports still pending are
\* now about a record that is gone.
OnContact(p, ok) ==
    IF ok
    THEN /\ offline' = Expire(p)
         /\ inflight' = [inflight EXCEPT ![p] = [cur |-> 0, old |-> @.cur + @.old]]
         /\ okAge' = [okAge EXCEPT ![p] = 0]
         /\ accepted' = [accepted EXCEPT ![p] = 0]
    ELSE /\ offline' = RecordUnreachable(p)
         /\ IF ShouldReport(p)
            THEN /\ inflight[p].cur + inflight[p].old < MaxInflight
                 /\ inflight' = [inflight EXCEPT ![p].cur = @ + 1]
            ELSE UNCHANGED inflight
         /\ UNCHANGED <<okAge, accepted>>

Contact(p) ==
    /\ \E ok \in BOOLEAN : OnContact(p, ok)
    /\ UNCHANGED retestDue

\* The periodic retest: test next_to_test(), if any.
Retest ==
    /\ retestDue
    /\ retestDue' = FALSE
    /\ IF NextToTest = {}
       THEN UNCHANGED <<offline, inflight, okAge, accepted>>
       ELSE \E p \in NextToTest, ok \in BOOLEAN : OnContact(p, ok)

\* The daemon answers a report; on success the node is set_reported.  The
\* answer cannot tell whether the record it was sent for still exists.
ReportAnswered(p) ==
    /\ \E k \in {"cur", "old"}, ok \in BOOLEAN :
         /\ inflight[p][k] > 0
         /\ inflight' = [inflight EXCEPT ![p][k] = @ - 1]
         /\ offline' = IF ok THEN SetReported(p) ELSE offline
         /\ accepted' = IF ok /\ k = "cur"
                        THEN [accepted EXCEPT ![p] = IF @ < 2 THEN @ + 1 ELSE @]
                        ELSE accepted
    /\ UNCHANGED <<retestDue, okAge>>

\* steady_clock advances once the due retest ran; the retest timer fires.
Tick ==
    /\ ~retestDue
    /\ retestDue' = TRUE
    /\ offline' = [p \in Peers |->
                     IF offline[p] = None THEN None
                     ELSE [offline[p] EXCEPT !.ff = Older(@), !.lt = Older(@)]]
    /\ okAge' = [p \in Peers |-> Older(okAge[p])]
    /\ UNCHANGED <<inflight, accepted>>

Init ==
    /\ offline = [p \in Peers |-> None]
    /\ inflight = [p \in Peers |-> [cur |-> 0, old |-> 0]]
    /\ retestDue = FALSE
    /\ okAge = [p \in Peers |-> AgeCap]
    /\ accepted = [p \in Peers |-> 0]

Next ==
    \/ \E p \in Peers : Contact(p) \/ ReportAnswered(p)
    \/ Retest
    \/ Tick

\* Time passes and the io_context runs the retest timer's handler; peers
\* and the daemon answer when they do.
Spec == Init /\ [][Next]_vars /\ WF_vars(Tick) /\ WF_vars(Retest)

-----------------------------------------------------------------------------
(* Properties.                                                             *)

\* A node is reported to the daemon only when no contact with it succeeded
\* for longer than UNREACH_GRACE_PERIOD: record_unreachable measures from
\* first_failure, which expire resets through the erase.
ReportOnlyAfterGrace ==
    [][\A p \in Peers : inflight'[p].cur > inflight[p].cur => okAge[p] > Grace]_vars

\* Every node in offline_nodes_ is tested again (last_tested = now) or
\* removed: next_to_test picks the least recently tested node, so no node
\* is starved by the retest.
RetestedEventually ==
    \A p \in Peers :
        (offline[p] /= None /\ offline[p].lt > 0)
            ~> (offline[p] = None \/ offline[p].lt = 0)

\* Spec 7: a persistently unreachable peer is reported once, then
\* suppressed.  The daemon accepts at most one report about a record, and
\* a record is marked reported only after the daemon accepted one about
\* it.  record_unreachable keeps answering true until set_reported runs,
\* and set_reported marks whatever record exists when the answer comes.
ReportedOncePerOutage ==
    \A p \in Peers :
        /\ accepted[p] <= 1
        /\ (p \in Offline /\ offline[p].reported) => accepted[p] = 1

=============================================================================
