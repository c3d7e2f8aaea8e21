----------------------------- MODULE MCShutdown -----------------------------
(* Responses to the end of the process, with everything that can go wrong   *)
(* for one request.                                                         *)
EXTENDS Shutdown, ResponsesInvariant
=============================================================================
