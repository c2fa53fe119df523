---------------------------- MODULE CommandLine ----------------------------
(***************************************************************************)
(* command_line_parser::parse_args (command_line.cpp) and the defaults of *)
(* command_line_options (command_line.h), as a function from what the      *)
(* operator wrote to the options main sees.                                *)
(*                                                                         *)
(* An option with a value is the set of values given for it: {} when it   *)
(* is absent, {v} when given.  A command line is a record of such sets,    *)
(* the bool_switch flags, whether --config-file was given, and whether the *)
(* config file it names (or storage-server.conf under --data-dir, or in    *)
(* the working directory without --data-dir) exists.  A config file sets   *)
(* ip, port, arqmad-rpc-port and stagenet.                                 *)
(***************************************************************************)
EXTENDS Naturals

Given(o) == o /= {}

Val(o) == CHOOSE v \in o : TRUE

\* command_line_options: arqmad_rpc_port = 19994, or 39994 with stagenet;
\* log_level = "info".
MainnetRpcPort == 19994
StagenetRpcPort == 39994
DefaultLogLevel == "info"

\* The config file is stored when it exists; a --config-file that does not
\* exist throws.  An absent config file without --config-file is ignored.
ConfigRead(cl) == cl.confExists

ConfigThrows(cl) == cl.config = "given" /\ ~cl.confExists

\* po::store of the command line, then of the config file: the first store
\* of an option wins, so the config file only fills what the command line
\* left out.
Stored(cl, file, o) ==
    IF Given(cl[o]) \/ ~ConfigRead(cl) THEN cl[o] ELSE file[o]

\* A bool_switch is in the variables_map as defaulted (false) after the
\* command line, and the config file may still set it.
Stagenet(cl, file) == cl.stagenet \/ (ConfigRead(cl) /\ file.stagenet)

\* --version or --help: parse_args returns before the stagenet port and the
\* ip/port checks.
EarlyReturn(cl) == cl.version \/ cl.help

\* options_.arqmad_rpc_port after parse_args: the stored value, else 39994
\* when stagenet and vm has no arqmad-rpc-port, else the default 19994.
RpcPort(cl, file) ==
    LET rpc == Stored(cl, file, "rpcPort") IN
    IF Given(rpc) THEN Val(rpc)
    ELSE IF ~EarlyReturn(cl) /\ Stagenet(cl, file) THEN StagenetRpcPort
    ELSE MainnetRpcPort

\* parse_args throws: a --config-file that does not exist, or, unless it
\* returned early, no ip or no port (positional or from the file).
ParseThrows(cl, file) ==
    \/ ConfigThrows(cl)
    \/ /\ ~EarlyReturn(cl)
       /\ ~(Given(Stored(cl, file, "ip")) /\ Given(Stored(cl, file, "port")))

\* get_options() after a parse_args that did not throw.
Options(cl, file) ==
    [ip       |-> Stored(cl, file, "ip"),
     port     |-> Stored(cl, file, "port"),
     rpcPort  |-> RpcPort(cl, file),
     stagenet |-> Stagenet(cl, file),
     logLevel |-> IF Given(cl.logLevel) THEN Val(cl.logLevel) ELSE DefaultLogLevel,
     version  |-> cl.version,
     help     |-> cl.help]

=============================================================================
