------------------------------ MODULE Startup ------------------------------
(***************************************************************************)
(* main (main.cpp): parse the command line and the config file, the early *)
(* exits, wait_for_privkey (module KeyFetch), then http_server::run and    *)
(* its accept loop (module Acceptor), which runs until the process ends.   *)
(*                                                                         *)
(* The operator starts the binary once with some command line and config  *)
(* file (Exec).  Everything main does up to wait_for_privkey is sequential *)
(* code on the one thread: one step (MainChecks).  The environment's       *)
(* answers (create_directories, sodium_init, the bind) are chosen in the   *)
(* step that reads them.                                                   *)
(***************************************************************************)
EXTENDS Integers, CommandLine

CONSTANTS
    IpArgs,           \* values of the ip option: {}, or one address
    ConfIpArgs,       \* values of ip= in the config file
    PortArgs,         \* values of port and arqmad-rpc-port options
    LogLevelArgs,     \* values of --log-level
    ValidLogLevels,   \* the levels parse_log_level accepts
    DirOutcomes,      \* whether create_directories may succeed / throw
    Slots,            \* KeyFetch: session objects alive at once
    ResolveOutcomes,  \* KeyFetch: whether the daemon address resolves
    Clients,          \* Acceptor: peers connecting to the listen port
    FdLimit           \* Acceptor: descriptors left for connections

VARIABLES
    mphase,    \* "exec", "main", "keys", "serving", "exited"
    args,      \* the command line and config file while main reads them
    endpoint,  \* the ip, port and daemon RPC port main went on with
    status,    \* main's return value or exit code; NoStatus while running
    sess, daemon, delay, keys, phase,        \* KeyFetch
    queue, conns, accepts, timer, aborted    \* Acceptor

kfvars == <<sess, daemon, delay, keys, phase>>
acvars == <<queue, conns, accepts, timer, aborted>>
mvars == <<mphase, args, endpoint, status>>
vars == <<mvars, kfvars, acvars>>

KF == INSTANCE KeyFetch
AC == INSTANCE Acceptor

NoArgs == [none |-> TRUE]
NoEndpoint == [none |-> TRUE]
NoStatus == -1

\* abort() and std::terminate end the process by SIGABRT: the shell sees
\* 128 + 6.
SIGABRT == 134

CommandLines ==
    [ip : IpArgs, port : PortArgs, rpcPort : PortArgs, logLevel : LogLevelArgs,
     stagenet : BOOLEAN, version : BOOLEAN, help : BOOLEAN,
     config : {"absent", "given"}, confExists : BOOLEAN]

ConfigFiles ==
    [ip : ConfIpArgs, port : PortArgs, rpcPort : PortArgs, stagenet : BOOLEAN]

\* The process status: SIGABRT once the accept loop aborted.
Status == IF aborted THEN SIGABRT ELSE status

-----------------------------------------------------------------------------

\* The binary is started with a command line and, when one exists where
\* parse_args looks, a config file.
Exec ==
    /\ mphase = "exec"
    /\ args' \in [cl : CommandLines, file : ConfigFiles \cup {NoArgs}]
    /\ args'.cl.confExists = (args'.file /= NoArgs)
    /\ mphase' = "main"
    /\ UNCHANGED <<endpoint, status, kfvars, acvars>>

\* main up to wait_for_privkey, in the order of the code: parse_args (its
\* exceptions print the usage and return 1), --help, the data directory
\* (create_directories throws outside any try), the log level, --version,
\* the loopback and port checks, sodium_init.
MainOutcome(o, thrown, dirOk, sodiumOk) ==
    CASE thrown                              -> 1
      [] o.help                              -> 0
      [] ~dirOk                              -> SIGABRT
      [] o.logLevel \notin ValidLogLevels    -> 1
      [] o.version                           -> 0
      [] Val(o.ip) = "127.0.0.1"             -> 1
      [] Val(o.port) = o.rpcPort             -> 2
      [] ~sodiumOk                           -> 1
      [] OTHER                               -> NoStatus

MainChecks ==
    /\ mphase = "main"
    /\ \E dirOk \in DirOutcomes, sodiumOk \in BOOLEAN :
         LET o == Options(args.cl, args.file)
             code == MainOutcome(o, ParseThrows(args.cl, args.file), dirOk, sodiumOk)
         IN IF code = NoStatus
            THEN /\ mphase' = "keys"
                 /\ endpoint' = [ip |-> Val(o.ip), port |-> Val(o.port), rpcPort |-> o.rpcPort]
                 /\ phase' = "starting"
                 /\ UNCHANGED status
            ELSE /\ mphase' = "exited"
                 /\ status' = code
                 /\ UNCHANGED <<endpoint, phase>>
    /\ args' = NoArgs
    /\ UNCHANGED <<sess, daemon, delay, keys, acvars>>

\* wait_for_privkey: KeyFetch's steps while main waits in ioc_.run().
FetchKeys ==
    /\ mphase = "keys"
    /\ KF!Next
    /\ UNCHANGED <<mvars, acvars>>

\* After wait_for_privkey returned: the key derivations, ServiceNode and
\* Security, then http_server::run: make_address throws on an address it
\* cannot parse, binding the acceptor may throw; main catches and returns 1.
\* Otherwise accept_connection starts the accept loop and ioc.run() runs it.
ServeStart ==
    /\ mphase = "keys"
    /\ phase = "returned"
    /\ \E bound \in BOOLEAN :
         IF endpoint.ip /= "bad" /\ bound
         THEN /\ mphase' = "serving"
              /\ accepts' = 1
              /\ UNCHANGED status
         ELSE /\ mphase' = "exited"
              /\ status' = 1
              /\ UNCHANGED accepts
    /\ UNCHANGED <<args, endpoint, kfvars, queue, conns, timer, aborted>>

Serve ==
    /\ mphase = "serving"
    /\ AC!AcceptorNext
    /\ UNCHANGED <<mvars, kfvars>>

\* The process has ended.
Exited == mphase = "exited" /\ UNCHANGED vars

Init ==
    /\ mphase = "exec"
    /\ args = NoArgs
    /\ endpoint = NoEndpoint
    /\ status = NoStatus
    /\ sess = [s \in Slots |-> KF!HCS!Idle]
    /\ daemon = "down"
    /\ delay = "none"
    /\ keys = "unset"
    /\ phase = "main"
    /\ queue = <<>> /\ conns = {} /\ accepts = 0
    /\ timer = FALSE /\ aborted = FALSE

Next == Exec \/ MainChecks \/ FetchKeys \/ ServeStart \/ Serve \/ Exited

\* main's own steps are sequential code; KeyFetch and the accept loop keep
\* the fairness their modules justify.  The daemon is down when main
\* starts and reaches any state before the first request.
Spec ==
    /\ Init /\ [][Next]_vars
    /\ WF_vars(Exec) /\ WF_vars(MainChecks) /\ WF_vars(ServeStart)
    /\ KF!Fairness
    /\ AC!AcceptorFairness

-----------------------------------------------------------------------------
(* Properties.                                                             *)

\* main starts the accept loop only with the keys wait_for_privkey fetched
\* and validated: the node's identity is derived from them.
ServesOnlyWithKeys == mphase = "serving" => keys = "valid"

\* Once the daemon stays ready, main does not wait forever: it serves or
\* exits.
StartupCompletes ==
    <>[](daemon = "ready") => <>(mphase \in {"serving", "exited"})

\* The accept loop as part of the process: one accept or back-off at a
\* time, and every connecting client is served unless the process aborted.
AcceptorTypeOK == AC!TypeOK
ClientAccepted == AC!ClientAccepted

\* Spec 6 (CLI) and 7 (Fatal): the process ends with exit code 0, 1 or 2;
\* fatal errors log critical and exit.
ExitCodeAsSpecified == Status \in {0, 1, 2, NoStatus}

=============================================================================
