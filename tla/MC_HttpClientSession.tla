------------------------ MODULE MC_HttpClientSession ------------------------
(* Model-checking instance of HttpClientSession: two independent requests, *)
(* with a resolver that always succeeds or that may fail.                 *)
EXTENDS HttpClientSession, TLC

CONSTANTS s1, s2

MCSessions == {s1, s2}
ResolveAlways == {TRUE}

=============================================================================
