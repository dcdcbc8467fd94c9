---------------------------- MODULE MCSliceTrace ----------------------------
(***************************************************************************)
(* Small instances of SliceTrace, from the values of MCSliceRuntime.       *)
(***************************************************************************)
EXTENDS SliceTrace, MCSliceRuntime

TraceRequests == RetryRequests \cup {RequestOf(0, "EXPLICIT_PLAN", "REVIEW")}
=============================================================================
