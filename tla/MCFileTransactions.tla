------------------------- MODULE MCFileTransactions -------------------------
(***************************************************************************)
(* Model checking of FileTransactions.  The constants of the .cfg are of   *)
(* the world "single": a file with one copy, that two clients read and     *)
(* write over broken connections.  In the other worlds more is there and   *)
(* more fails; they have variables of their own.                           *)
(***************************************************************************)
EXTENDS FileTransactions, TLC

VARIABLES
  world,
  cMeta, cLocks, cTrans, cNextTrans, cPc, cJob, cHandler, cDisk, cReports, cDeletions

worldVars == <<cMeta, cLocks, cTrans, cNextTrans, cPc, cJob, cHandler, cDisk, cReports, cDeletions>>

World(modes, holders, deletes, faults) ==
  INSTANCE FileTransactions WITH
    Modes <- {modes}, InitialHolders <- {holders}, Stamps <- {1}, Deletes <- deletes, Faults <- faults,
    meta <- cMeta, locks <- cLocks, trans <- cTrans, nextTrans <- cNextTrans, pc <- cPc, job <- cJob,
    handler <- cHandler, disk <- cDisk, reports <- cReports, deletions <- cDeletions

ChainMode == {"READ", "WRITE", "HiRELIABLE"}

MCInit ==
  /\ Init
  /\ \/ world = "single" /\ World(ChainMode, {1, 2}, FALSE, {})!Init
     \/ world = "chain" /\ World(ChainMode, {1, 2}, FALSE, {"connect", "report"})!Init
     \/ world = "broken" /\ World(ChainMode, {1, 2}, FALSE, {"connect", "channel", "report"})!Init
     \/ world = "lifecycle" /\ World({"READ", "WRITE"}, {}, TRUE, {"rpc", "report"})!Init
  /\ world # "single" => \A f \in Files : meta[f].stamp = 1

\* Fewer transactions where more fails (nextTrans is the next one's number).
MCNext ==
  /\ UNCHANGED world
  /\ \/ world = "single" /\ Next /\ UNCHANGED worldVars
     \* A chain of two slaves, some of which cannot be reached and do not report.
     \/ /\ world = "chain" /\ UNCHANGED vars
        /\ World(ChainMode, {1, 2}, FALSE, {"connect", "report"})!Next /\ cNextTrans' <= 3
     \* The same chain when its channels break as well.
     \/ /\ world = "broken" /\ UNCHANGED vars
        /\ World(ChainMode, {1, 2}, FALSE, {"connect", "channel", "report"})!Next /\ cNextTrans' <= 2
     \* Files that are created and deleted while calls and reports fail.
     \/ /\ world = "lifecycle" /\ UNCHANGED vars
        /\ World({"READ", "WRITE"}, {}, TRUE, {"rpc", "report"})!Next /\ cNextTrans' <= 3

MCSpec == MCInit /\ [][MCNext]_<<vars, worldVars, world>>

\* Whatever fails, a key in a lock set has an owner; and while no channel breaks, a slave
\* of a chain stops serving after the one behind it (fileHandler).
FailuresHandled ==
  /\ world = "lifecycle" => World({"READ", "WRITE"}, {}, TRUE, {})!IInv
  /\ world \in {"chain", "broken"} => World(ChainMode, {1, 2}, FALSE, {})!IInv
  /\ world = "chain" => World(ChainMode, {1, 2}, FALSE, {})!ChainInv

UserSymmetry == Permutations(Users) \cup Permutations(Workers)
=============================================================================
