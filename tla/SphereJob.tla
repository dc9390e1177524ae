------------------------------- MODULE SphereJob -------------------------------
(***************************************************************************)
(* What DCClient promises to the program that runs a Sphere job: every     *)
(* segment of the input comes to at most one end, which the program reads  *)
(* at most once, and a job that is over leaves the rest as it is.          *)
(***************************************************************************)
CONSTANTS Segments

VARIABLES
  outcome,   \* segment -> how its processing ended, "none" until then
  taken,     \* the segments whose result has been read
  open       \* the job is running

jobVars == <<outcome, taken, open>>

Init ==
  /\ outcome = [d \in Segments |-> "none"]
  /\ taken = {}
  /\ open = TRUE

Finish(d, r) ==
  /\ open
  /\ outcome[d] = "none"
  /\ outcome' = [outcome EXCEPT ![d] = r]
  /\ UNCHANGED <<taken, open>>

Take(d) ==
  /\ outcome[d] # "none"
  /\ d \notin taken
  /\ taken' = taken \cup {d}
  /\ UNCHANGED <<outcome, open>>

Close ==
  /\ open
  /\ open' = FALSE
  /\ UNCHANGED <<outcome, taken>>

Next ==
  \/ \E d \in Segments, r \in {"data", "nothing", "failure"} : Finish(d, r)
  \/ \E d \in Segments : Take(d)
  \/ Close

Spec == Init /\ [][Next]_jobVars
=============================================================================
