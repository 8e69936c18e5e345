------------------------------- MODULE MCPing -------------------------------
(* Sequence numbers of a few values, so that they wrap. *)
EXTENDS Ping

BothVersions == {"V4", "V6"}
BothBuilds == {"dev", "release"}
OneForeign == {1}
=============================================================================
