---------------------------- MODULE MCMuxTopology ----------------------------
(***************************************************************************)
(* Two clients of a server that starts with two panes.                     *)
(***************************************************************************)
EXTENDS MuxTopology

CONSTANTS a, b

TwoClients == {a, b}

=============================================================================
