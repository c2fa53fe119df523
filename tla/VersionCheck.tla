---------------------------- MODULE VersionCheck ----------------------------
(***************************************************************************)
(* dns::check_latest_version (dns_text_records.cpp): read the TXT record  *)
(* storage.version.arqma.com, parse it as major.minor.patch and warn when *)
(* this binary is older.  Nothing under src/ calls it; the operators here *)
(* are checked against a reference over every bounded DNS answer.          *)
(*                                                                         *)
(* A DNS answer is the string get_dns_record returns, abstracted to the    *)
(* fields boost::split cuts it into at each '.': each field is what        *)
(* std::stoi makes of it, a number (leading blanks, a sign and trailing    *)
(* characters allowed) or an exception (no leading digit, out of range).  *)
(* The empty sequence is the empty string: a failed query or no record.    *)
(***************************************************************************)
EXTENDS Integers, Sequences

CONSTANTS
    CurrentVersion,  \* <<VERSION_MAJOR, VERSION_MINOR, VERSION_PATCH>>
    Numbers,         \* values std::stoi returns in the model
    MaxFields        \* fields of a DNS answer

\* A field std::stoi parses to n, or one it throws on.
Fields == [ok : {TRUE}, n : Numbers] \cup {[ok |-> FALSE]}

DnsAnswers == UNION {[1..k -> Fields] : k \in 0..MaxFields}

\* Seeded fault: an equal patch counts as outdated.
IsOldVersionPatchGt(latest) ==
    IF CurrentVersion[1] /= latest[1] THEN CurrentVersion[1] < latest[1]
    ELSE IF CurrentVersion[2] /= latest[2] THEN CurrentVersion[2] < latest[2]
    ELSE ~(CurrentVersion[3] > latest[3])

\* is_old_version: major, then minor, decide when they differ; on equal
\* major and minor, old unless VERSION_PATCH >= latest.patch.
IsOldVersion(latest) ==
    IF CurrentVersion[1] /= latest[1] THEN CurrentVersion[1] < latest[1]
    ELSE IF CurrentVersion[2] /= latest[2] THEN CurrentVersion[2] < latest[2]
    ELSE ~(CurrentVersion[3] >= latest[3])

\* parse_version: exactly three fields, each accepted by std::stoi.
ParseVersion(fields) ==
    IF Len(fields) = 3 /\ \A i \in 1..3 : fields[i].ok
    THEN [ok |-> TRUE, v |-> [i \in 1..3 |-> fields[i].n]]
    ELSE [ok |-> FALSE]

\* check_latest_version's outcome: which warning it logs, if any.
CheckLatestVersion(fields) ==
    IF fields = <<>> THEN "no_record"
    ELSE LET p == ParseVersion(fields) IN
         IF ~p.ok THEN "unparsable"
         ELSE IF IsOldVersion(p.v) THEN "outdated" ELSE "latest"

-----------------------------------------------------------------------------
(* Reference.                                                              *)

\* Version a is newer than b: greater at the first position they differ.
Newer(a, b) ==
    \E i \in 1..3 : a[i] > b[i] /\ \A j \in 1..(i - 1) : a[j] = b[j]

\* A DNS answer names a version when it has three numeric fields.
Named(fields) ==
    Len(fields) = 3 /\ \A i \in 1..3 : fields[i].ok

\* The server warns that it is outdated exactly when the record names a
\* version strictly newer than its own, and reports any other record as
\* the latest or unparsable: an equal version, a lower one in any position
\* or one differing only below the first difference never warns.
VersionCheckAsReference ==
    \A f \in DnsAnswers :
        /\ CheckLatestVersion(f) = "outdated"
               <=> Named(f) /\ Newer([i \in 1..3 |-> f[i].n], CurrentVersion)
        /\ CheckLatestVersion(f) = "unparsable" <=> f /= <<>> /\ ~Named(f)

=============================================================================
