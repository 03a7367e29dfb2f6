----------------------------- MODULE MCJobPage -----------------------------
(* JobPage, and with it JobLifecycle, on small instances. *)
EXTENDS JobPageProofs

=============================================================================
