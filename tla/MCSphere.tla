-------------------------------- MODULE MCSphere --------------------------------
(***************************************************************************)
(* Model checking of what runs at a client's node, one part in each        *)
(* behaviour: a Sphere job, with its SPEs and Shufflers, and the files     *)
(* that the threads of FUSE share.                                         *)
(***************************************************************************)
EXTENDS Sphere, SharedHandles

VARIABLE part

fuseVars == <<fs, tracker, handle, fd, at, moved>>

MCInit ==
  /\ part \in {"job", "fuse"}
  /\ Init /\ F!Init
  /\ part = "fuse" => job = (CHOOSE j \in Jobs : TRUE) /\ \A d \in Segments : seg[d].retry = 0

MCNext ==
  /\ UNCHANGED part
  /\ \/ part = "job" /\ Next /\ UNCHANGED fuseVars
     \/ part = "fuse" /\ ~moved /\ F!Next /\ UNCHANGED vars

MCSpec == MCInit /\ [][MCNext]_<<part, vars, fuseVars>>

\* Fairness is for the job: no behaviour of the other part has it.
MCFairSpec == MCSpec /\ Fairness

\* The data may move, or may not and the second slave has the first segment only.
Anywhere == [s \in SPEs |-> Segments]
AtHome == [s \in SPEs |-> IF s = 1 THEN Segments ELSE {1}]

\* The result of the first segment comes in one part or two.
Whole == [d \in Segments |-> 1]
TwoParts == [d \in Segments |-> IF d = 1 THEN 2 ELSE 1]

MCJobs ==
  {[kind |-> "client", near |-> Anywhere, parts |-> Whole, faults |-> 2],
   [kind |-> "client", near |-> AtHome, parts |-> Whole, faults |-> 1],
   [kind |-> "buckets", near |-> AtHome, parts |-> TwoParts, faults |-> 1]}
=============================================================================
