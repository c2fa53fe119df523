-------------------------- MODULE MC_RequestRouting --------------------------
(* One request at a time on a connection, over every request failing at  *)
(* most two checks.                                                        *)
EXTENDS RequestRouting

=============================================================================
