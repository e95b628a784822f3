-------------------------- MODULE MCTranscriptTrace --------------------------
(* A bounded instance of TranscriptTrace.                                   *)
EXTENDS TranscriptTrace
=============================================================================
