------------------------- MODULE MCAnalysisWorkflow -------------------------
(* Instances of AnalysisWorkflow: a plan of two views, a request that is   *)
(* not supported (no view, no query), and sometimes a plan of one view.    *)
EXTENDS AnalysisWorkflow, TLC

CONSTANTS t1, t2, t3, s1, s2

\* A session each: neither waits for the other but for a worker slot.
TwoTasks == {t1, t2}
TwoSessions == (t1 :> s1) @@ (t2 :> s2)
TwoPlans == (t1 :> 2) @@ (t2 :> 0)

\* Two of three tasks share a session: one must end before the next starts.
ThreeTasks == {t1, t2, t3}
SharedSession == (t1 :> s1) @@ (t2 :> s2) @@ (t3 :> s1)
ThreePlans == (t1 :> 1) @@ (t2 :> 0) @@ (t3 :> 0)
=============================================================================
