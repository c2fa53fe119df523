--------------------------- MODULE RequestRouting ---------------------------
(***************************************************************************)
(* connection_t::process_request and the handlers it dispatches to        *)
(* (http_connection.cpp): which status a request's response carries, and  *)
(* which ServiceNode operation it reaches.                                 *)
(*                                                                         *)
(* A request is its verb, its target, for /storage_rpc/v1 the JSON-RPC     *)
(* method, for a storage test the answer ServiceNode gives, and the set of *)
(* checks it fails ("defects"), each named after the code's condition.     *)
(* The outcome of a check (signature, decryption, JSON, PoW, rate limiter, *)
(* swarm placement) is all the model keeps of the bytes.  The default      *)
(* build is modelled: encryption, PoW and signatures enabled, no           *)
(* INTEGRATION_TEST targets.                                               *)
(***************************************************************************)
EXTENDS Naturals, FiniteSets

VARIABLES
    request,   \* the request on_data has read, or NoRequest
    response   \* what on_data did with it, or NoResponse

rvars == <<request, response>>

\* process_request starts from response_.result(internal_server_error); a
\* check that leaves the result alone is Unchanged.
Unchanged == 0

\* std::abort (a failed assert) and a segmentation fault, as the shell sees
\* them.
SIGABRT == 134
SIGSEGV == 139

ClientMethods == {"store", "retrieve", "get_snodes_for_pubkey", "unknown"}
PeerTargets == {"push", "push_batch", "storage_test", "blockchain_test"}
TestStatuses == {"SUCCESS", "RETRY", "WRONG_REQ", "OTHER"}

\* The checks of each path, in no particular order.
Envelope == {"not_ready", "client_rate_limited", "no_ephemkey",
             "undecryptable", "invalid_json", "no_method", "no_params"}
KeyChecks == {"missing_field", "wrong_type", "bad_pubkey"}
StoreChecks == {"body_too_long", "wrong_swarm", "bad_ttl", "bad_timestamp",
                "bad_pow", "store_throws", "store_fails"}
PeerAuth == {"not_ready", "no_sig_headers", "unknown_snode",
             "bad_signature", "peer_rate_limited"}
TestBody == {"invalid_json", "missing_fields"}

\* Defects that happen inside the ServiceNode call itself.
CallFailures == {"store_throws", "store_fails", "empty_push"}

\* Requests failing at most two checks.
AtMostTwo(D) == {{}} \cup {{d, e} : d, e \in D}

Req(verb, target, method, test, defects) ==
    [verb |-> verb, target |-> target, method |-> method, test |-> test,
     defects |-> defects]

MethodChecks(m) ==
    CASE m = "store"                 -> Envelope \cup KeyChecks \cup StoreChecks
      [] m = "retrieve"              -> Envelope \cup KeyChecks \cup
                                          {"wrong_swarm", "last_hash_wrong_type"}
      [] m = "get_snodes_for_pubkey" -> Envelope \cup KeyChecks
      [] OTHER                       -> Envelope

TargetChecks(t) ==
    CASE t \in {"storage_test", "blockchain_test"} -> PeerAuth \cup TestBody
      [] t = "push"                                -> PeerAuth \cup {"empty_push"}
      [] OTHER                                     -> PeerAuth

Requests ==
    UNION {{Req("post", "storage_rpc", m, "SUCCESS", d) : d \in AtMostTwo(MethodChecks(m))} :
           m \in ClientMethods}
    \cup UNION {{Req("post", t, "none", "SUCCESS", d) : d \in AtMostTwo(TargetChecks(t))} :
                 t \in PeerTargets \cup {"ping"}}
    \cup {Req("post", "storage_test", "none", s, d) :
          s \in TestStatuses, d \in AtMostTwo(TargetChecks("storage_test"))}
    \cup {Req("post", "unknown", "none", "SUCCESS", d) : d \in AtMostTwo({"not_ready"})}
    \cup {Req("get", t, "none", "SUCCESS", {}) : t \in {"get_stats", "unknown"}}
    \cup {Req("get", "get_logs", "none", "SUCCESS", d) : d \in AtMostTwo({"too_soon"})}
    \cup {Req("delete", "unknown", "none", "SUCCESS", {})}

NoRequest == Req("none", "none", "none", "none", {})

Has(r, d) == d \in r.defects

\* What a handler leaves behind: response_.result(), whether a response is
\* written now, later by another handler (delay_response_), or the process
\* dies; and the ServiceNode operation called.
Out(status, respond, op) == [status |-> status, respond |-> respond, op |-> op]
Now(status) == Out(status, "now", "none")

NoResponse == Out(Unchanged, "none", "none")

-----------------------------------------------------------------------------
(* The handlers.                                                           *)

\* Seeded fault: the signature itself is never verified.
ValidateSnodeRequestNoVerify(r) ==
    CASE Has(r, "no_sig_headers")    -> [ok |-> FALSE, status |-> Unchanged]
      [] Has(r, "unknown_snode")     -> [ok |-> FALSE, status |-> 401]
      [] Has(r, "peer_rate_limited") -> [ok |-> FALSE, status |-> 429]
      [] OTHER                       -> [ok |-> TRUE, status |-> Unchanged]

\* validate_snode_request: parse_header of the two signature headers
\* (which only writes to the body), the known-node check (401), the
\* signature (401), the peer rate limit (429).
ValidateSnodeRequest(r) ==
    CASE Has(r, "no_sig_headers")    -> [ok |-> FALSE, status |-> Unchanged]
      [] Has(r, "unknown_snode")     -> [ok |-> FALSE, status |-> 401]
      [] Has(r, "bad_signature")     -> [ok |-> FALSE, status |-> 401]
      [] Has(r, "peer_rate_limited") -> [ok |-> FALSE, status |-> 429]
      [] OTHER                       -> [ok |-> TRUE, status |-> Unchanged]

\* process_storage_test_req, first attempt, after process_swarm_req set
\* 400: SUCCESS writes 200 itself, RETRY (elapsed < 1 min) arms the repeat
\* timer, any other status is a 200 on_data writes.
StorageTest(r) ==
    CASE r.test = "SUCCESS" -> Out(200, "now", "storage_test")
      [] r.test = "RETRY"   -> Out(400, "later", "storage_test")
      [] OTHER              -> Out(200, "now", "storage_test")

\* /swarms/push/v1: assert(messages.size() == 1), then
\* process_push(messages.front()).  On an empty batch a debug build
\* aborts; a release build reads front() of an empty vector, whose outcome
\* is one of ub.
Push(r, ub) == IF Has(r, "empty_push") THEN ub ELSE Out(200, "now", "push")

UBOutcomes == {Out(SIGABRT, "crash", "none"), Out(SIGSEGV, "crash", "none"),
               Out(200, "now", "push")}

\* process_swarm_req: a request failing validation returns with the status
\* validate_snode_request left, except the ping test, which goes on.
SwarmReq(r, ub) ==
    LET v == ValidateSnodeRequest(r)
        s == IF v.status = Unchanged THEN 500 ELSE v.status
    IN CASE ~v.ok /\ r.target /= "ping" -> Now(s)
         [] r.target = "push_batch"     -> Out(200, "now", "push_batch")
         [] r.target = "push"           -> Push(r, ub)
         [] r.target = "ping"           -> Now(200)
         [] Has(r, "invalid_json") \/ Has(r, "missing_fields") -> Now(400)
         [] r.target = "storage_test"   -> StorageTest(r)
         [] OTHER                       -> Out(500, "later", "blockchain_test")

\* The key checks of process_store, process_retrieve and
\* process_snodes_by_pk: a missing field (400), a field that is not a
\* string (get<std::string> throws; process_request's catch gives 500),
\* user_pubkey_t::create failing (400).
KeyOutcome(r) ==
    CASE Has(r, "missing_field") -> Now(400)
      [] Has(r, "wrong_type")    -> Now(500)
      [] Has(r, "bad_pubkey")    -> Now(400)
      [] OTHER                   -> NoResponse

\* handle_wrong_swarm: the swarm of the recipient as JSON, 421.
HandleWrongSwarm == Now(421)

\* process_store after the key checks: body length, handle_wrong_swarm
\* (421), TTL (403), timestamp (406), PoW (432), then process_store, whose
\* exception gives 500 and whose false gives 503.
ProcessStore(r) ==
    LET k == KeyOutcome(r) IN
    CASE k /= NoResponse            -> k
      [] Has(r, "body_too_long")    -> Now(400)
      [] Has(r, "wrong_swarm")      -> HandleWrongSwarm
      [] Has(r, "bad_ttl")          -> Now(403)
      [] Has(r, "bad_timestamp")    -> Now(406)
      [] Has(r, "bad_pow")          -> Now(432)
      [] Has(r, "store_throws")     -> Out(500, "now", "store")
      [] Has(r, "store_fails")      -> Out(503, "now", "store")
      [] OTHER                      -> Out(200, "now", "store")

\* process_retrieve: the key checks (wrong_type is a pubKey that is not a
\* string), handle_wrong_swarm, lastHash's get<std::string> (throws, 500),
\* then poll_db with delay_response_ set.
ProcessRetrieve(r) ==
    LET k == KeyOutcome(r) IN
    CASE k /= NoResponse                   -> k
      [] Has(r, "wrong_swarm")             -> HandleWrongSwarm
      [] Has(r, "last_hash_wrong_type")    -> Now(500)
      [] OTHER                             -> Out(500, "later", "retrieve")

\* process_snodes_by_pk: the key checks, then the swarm members as JSON.
SnodesByPk(r) ==
    LET k == KeyOutcome(r) IN
    IF k /= NoResponse THEN k ELSE Out(200, "now", "get_snodes")

\* process_client_req: the client rate limit (429), the ephemeral-key
\* header (parse_header only writes to the body), base64 and decryption
\* (400), the JSON body, its method and params (400), the dispatch.
ClientReq(r) ==
    CASE Has(r, "client_rate_limited") -> Now(429)
      [] Has(r, "no_ephemkey")         -> Now(500)
      [] Has(r, "undecryptable")       -> Now(400)
      [] Has(r, "invalid_json")        -> Now(400)
      [] Has(r, "no_method")           -> Now(400)
      [] Has(r, "no_params")           -> Now(400)
      [] r.method = "store"            -> ProcessStore(r)
      [] r.method = "retrieve"         -> ProcessRetrieve(r)
      [] r.method = "get_snodes_for_pubkey" -> SnodesByPk(r)
      [] OTHER                         -> Now(400)

\* on_get_logs: at most one request per PERIOD of wall-clock time.
GetLogs(r) == IF Has(r, "too_soon") THEN Now(429) ELSE Now(200)

\* process_request: the ping test before the readiness check, then 503 for
\* a node that is not ready, the POST targets, the GET targets, and 400
\* for any other verb.
ProcessRequest(r, ub) ==
    CASE r.verb = "post" /\ r.target = "ping"     -> SwarmReq(r, ub)
      [] r.verb = "post" /\ Has(r, "not_ready")   -> Now(503)
      [] r.verb = "post" /\ r.target = "storage_rpc" -> ClientReq(r)
      [] r.verb = "post" /\ r.target \in PeerTargets -> SwarmReq(r, ub)
      [] r.verb = "post"                          -> Now(404)
      [] r.verb = "get" /\ r.target = "get_stats" -> Now(200)
      [] r.verb = "get" /\ r.target = "get_logs"  -> GetLogs(r)
      [] r.verb = "get"                           -> Now(404)
      [] OTHER                                    -> Now(400)

-----------------------------------------------------------------------------
(* One request on one connection.                                         *)

RoutingInit == request = NoRequest /\ response = NoResponse

\* http::async_read completes with a request.
Receive ==
    /\ request = NoRequest
    /\ request' \in Requests
    /\ UNCHANGED response

\* on_data: process_request, then write_response unless delay_response_.
OnData ==
    /\ request /= NoRequest
    /\ response = NoResponse
    /\ \E ub \in UBOutcomes : response' = ProcessRequest(request, ub)
    /\ UNCHANGED request

\* The connection is done; the next request comes on a new connection.
Close ==
    /\ response /= NoResponse
    /\ request' = NoRequest
    /\ response' = NoResponse

RoutingNext == Receive \/ OnData \/ Close

RoutingSpec == RoutingInit /\ [][RoutingNext]_rvars

-----------------------------------------------------------------------------
(* Properties.                                                             *)

Statuses == {Unchanged, 200, 400, 401, 403, 404, 406, 421, 429, 432, 500,
             503, SIGABRT, SIGSEGV}

RoutingTypeOK ==
    /\ request \in Requests \cup {NoRequest}
    /\ response \in [status : Statuses, respond : {"none", "now", "later", "crash"},
                     op : {"none", "store", "retrieve", "get_snodes", "push",
                           "push_batch", "storage_test", "blockchain_test"}]

\* The statuses spec 6 (Responses and errors) and spec 7 (error kinds)
\* give a request failing one check.
SpecStatusOf(d) ==
    CASE d = "not_ready"                                      -> {503}
      [] d \in {"no_sig_headers", "unknown_snode", "bad_signature"} -> {401}
      [] d \in {"client_rate_limited", "peer_rate_limited", "too_soon"} -> {429}
      [] d \in {"no_ephemkey", "undecryptable", "invalid_json", "no_method",
                "no_params", "missing_field", "missing_fields", "bad_pubkey"} -> {400}
      [] d \in {"wrong_type", "last_hash_wrong_type"} -> {400, 500}
      [] d = "body_too_long"  -> 400..499
      [] d = "wrong_swarm"    -> {421}
      [] d = "bad_ttl"        -> {403}
      [] d = "bad_timestamp"  -> {406}
      [] d = "bad_pow"        -> {432}
      [] d = "store_throws"   -> {500}
      [] d = "store_fails"    -> {500, 503, 507}
      [] d = "empty_push"     -> {200, 400}

\* A request failing no check: 200, 404 for an unknown target, 400 for an
\* unknown JSON-RPC method or verb.
SpecStatusOk(r) ==
    CASE r.verb \notin {"post", "get"}                -> {400}
      [] r.target = "unknown"                         -> {404}
      [] r.target = "storage_rpc" /\ r.method = "unknown" -> {400}
      [] OTHER                                        -> {200}

SpecStatus(r) ==
    IF r.target = "ping" \/ r.defects = {} THEN SpecStatusOk(r)
    ELSE UNION {SpecStatusOf(d) : d \in r.defects}

\* Spec 6 and 7: a request failing one check is answered at once with the
\* status the spec gives that check (a missing header is a missing field,
\* 400, or an unsigned peer, 401), and no request handler ends the
\* process.  process_request's default 500 and parse_header, which fills
\* only the body, decide the first; the assert on a push's batch size the
\* second.
StatusAsSpecified ==
    Cardinality(request.defects) <= 1 /\ response /= NoResponse =>
        /\ response.respond /= "crash"
        /\ response.respond = "now" => response.status \in SpecStatus(request)

\* Spec 5 and 6: a request reaches a ServiceNode operation only when it
\* passed every check on its path: a ready node, the rate limiter, the
\* peer signature or the client's encryption, the JSON, the key, the swarm,
\* TTL, timestamp and PoW.  The order of the checks in process_request,
\* process_swarm_req, process_client_req and the handlers decides it.
MutationsAuthorised ==
    \A r \in Requests, ub \in UBOutcomes :
        ProcessRequest(r, ub).op /= "none" => r.defects \subseteq CallFailures

=============================================================================
