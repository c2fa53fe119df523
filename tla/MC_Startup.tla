----------------------------- MODULE MC_Startup -----------------------------
(* Model-checking instance of Startup: every combination of the options  *)
(* whose values decide main's path, two KeyFetch session slots and three *)
(* clients for two connection descriptors.                               *)
EXTENDS Startup, TLC

CONSTANTS s1, s2, c1, c2, c3

MCIpArgs == {{}, {"127.0.0.1"}, {"ext"}, {"bad"}}
MCConfIpArgs == {{}, {"ext"}}
MCPortArgs == {{}, {MainnetRpcPort}, {StagenetRpcPort}}
MCLogLevelArgs == {{}, {"bogus"}}
MCValidLogLevels == {DefaultLogLevel}
DirMayFail == {TRUE, FALSE}
DirCreated == {TRUE}
MCSlots == {s1, s2}
ResolveAlways == {TRUE}
MCClients == {c1, c2, c3}
MCFdLimit == 2
MCFdLimitOne == 1

\* dns::check_latest_version, against STORAGE_SERVER_VERSION_STRING "1.0.5":
\* numbers below, equal to and above each part, and stoi's negatives.
VC == INSTANCE VersionCheck WITH
        CurrentVersion <- <<1, 0, 5>>,
        Numbers <- {-1, 0, 1, 2, 4, 5, 6},
        MaxFields <- 4

\* The DNS version check warns exactly when the record names a newer
\* version (is_old_version and parse_version against the reference).  A
\* constant formula: it is evaluated in the initial state, before main.
VersionWarning == mphase = "exec" => VC!VersionCheckAsReference

\* process_request and its handlers, over every request failing at most
\* two checks (RequestRouting has no constants).
RR == INSTANCE RequestRouting WITH request <- {}, response <- {}

\* A request reaches a ServiceNode operation (store, retrieve, push, the
\* tests) only when it passed every check on its path in process_request,
\* process_swarm_req, process_client_req and the handler.  A constant
\* formula, evaluated in the initial state like VersionWarning.
RoutingAuthorised == mphase = "exec" => RR!MutationsAuthorised

=============================================================================
