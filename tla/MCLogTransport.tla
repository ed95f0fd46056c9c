--------------------------- MODULE MCLogTransport ---------------------------
(* LogTransport for TLC, with a queue that is soon full. *)
EXTENDS LogTransport

SmallRoom == <<2, 2, 1, 1, 1>>
=============================================================================
