-------------------------- MODULE MCBackgroundJobs --------------------------
(* Instances of BackgroundJobs: one job, and its runs. *)
EXTENDS BackgroundJobs
CONSTANTS j1
OneJob == {j1}
AllRunsOfJ1 == [r \in Runs |-> j1]
NoSchedule == {}
=============================================================================
