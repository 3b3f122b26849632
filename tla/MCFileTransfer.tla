--------------------------- MODULE MCFileTransfer ----------------------------
(* An instance of FileTransfer with a buffer of three bytes.  UINT leaves   *)
(* room for a wrapped count above every size.                               *)
EXTENDS FileTransfer
=============================================================================
