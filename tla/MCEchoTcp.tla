----------------------------- MODULE MCEchoTcp -------------------------------
(* An instance of EchoTcp.tla: two clients, a buffer of four bytes, words   *)
(* that fill a receive and words that do not.                               *)
EXTENDS EchoTcp

CONSTANTS alice, bob
=============================================================================
