----------------------------- MODULE MCPipeline -----------------------------
(* Instances of Pipeline for TLC. *)
EXTENDS Pipeline

CONSTANTS r1, r2

OneReviewer  == {r1}
TwoReviewers == {r1, r2}
TwoTypes     == {"approved", "declined"}

(* The environments of the runs. *)
Errors      == {"error"}
BadHandlers == {"error", "handler"}
Crashes     == {"error", "handler", "crash"}
Anything    == Fault
=============================================================================
