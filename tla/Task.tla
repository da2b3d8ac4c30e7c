-------------------------------- MODULE Task --------------------------------
(***************************************************************************)
(* What the user of a CSMDoc::OperationHolder sees of an operation, without *)
(* threads, timers, stages or signals in flight: it is started, ends, and   *)
(* its end is reported once, before it can be started again.                *)
(***************************************************************************)
VARIABLES
    status, \* "idle", "running" or "ended"
    failed  \* how it ended

vars == <<status, failed>>

Init == status = "idle" /\ failed = FALSE

Start == status = "idle" /\ status' = "running" /\ failed' = FALSE

End == status = "running" /\ status' = "ended" /\ failed' \in BOOLEAN

Report == status = "ended" /\ status' = "idle" /\ failed' = FALSE

Next == Start \/ End \/ Report

Spec == Init /\ [][Next]_vars

=============================================================================
