---------------------------- MODULE MCModelStream ----------------------------
(* A bounded instance of ModelStream.                                       *)
EXTENDS ModelStream
=============================================================================
