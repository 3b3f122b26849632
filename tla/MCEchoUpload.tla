---------------------------- MODULE MCEchoUpload -----------------------------
(* An instance of EchoUpload.tla: two clients.  A file of two bytes can be  *)
(* delivered in two pieces, one of none cannot be delivered at all.         *)
EXTENDS EchoUpload

CONSTANTS alice, bob
=============================================================================
