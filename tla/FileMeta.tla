------------------------------ MODULE FileMeta ------------------------------
(***************************************************************************)
(* The master's metadata about one file, without the directory tree that   *)
(* leads to it: the entry kept by common/index.cpp and the lock sets kept  *)
(* by common/meta.cpp.  A stamp stands for the pair (size, modification    *)
(* time) that the code always compares together; stamp 0 is the pair (0,0) *)
(* that create() writes before any slave has reported the file.            *)
(***************************************************************************)
EXTENDS Naturals, FiniteSets

CONSTANTS Slaves,       \* slave node ids
          Users,        \* session keys of the logged-in clients
          Stamps,       \* (size, mtime) pairs a file on a disk can have
          ReplicaNum    \* m_SysConfig.m_iReplicaNum

ASSUME SlavesAssumption == Slaves \subseteq Nat /\ IsFiniteSet(Slaves) /\ Slaves # {}
ASSUME StampsAssumption == Stamps \subseteq Nat \ {0}
ASSUME ReplicaNumAssumption == ReplicaNum \in Nat \ {0}

ModeFlags == {"READ", "WRITE", "HiRELIABLE"}
LockKinds == {"READ", "WRITE"}

-----------------------------------------------------------------------------
(* Entries of the directory. *)

Entry == [exists: BOOLEAN, stamp: Stamps \cup {0}, locs: SUBSET Slaves]

Absent == [exists |-> FALSE, stamp |-> 0, locs |-> {}]

\* Index::create: an entry that is already there is left alone.
Created(e) == IF e.exists THEN e ELSE [exists |-> TRUE, stamp |-> 0, locs |-> {}]

\* Index::update that records every reporting slave but forgets the stamp.
UpdatedNoStamp(e, s, v, change) ==
  IF change \in {1, 2} THEN [e EXCEPT !.locs = @ \cup {s}] ELSE e

\* Index::update that takes any copy for a replica.
UpdatedUnchecked(e, s, v, change) ==
  CASE ~e.exists -> e
    [] e.exists /\ change = 3 -> [e EXCEPT !.locs = @ \cup {s}]
    [] OTHER -> [e EXCEPT !.stamp = v, !.locs = @ \cup {s}]

\* Index::update for a report of slave s about its copy with stamp v.
\* change: 0 nothing written, 1 new file, 2 modified file, 3 new replica.
Updated(e, s, v, change) ==
  CASE ~e.exists /\ change \in {2, 3} -> e
    [] ~e.exists /\ change \in {0, 1} ->
         [exists |-> TRUE, stamp |-> v, locs |-> {s}]
    [] e.exists /\ change \in {1, 2} ->
         IF e.stamp # v THEN [e EXCEPT !.stamp = v, !.locs = @ \cup {s}] ELSE e
    [] e.exists /\ change = 3 ->
         IF s \notin e.locs /\ e.stamp = v
         THEN [e EXCEPT !.locs = @ \cup {s}] ELSE e
    [] OTHER -> e

-----------------------------------------------------------------------------
(* Lock sets: Metadata::m_mLock[path], one set of user keys per kind. *)

LockSet == [LockKinds -> SUBSET Users]

Unlocked == [k \in LockKinds |-> {}]

\* The lock granted to everybody.
LockAlwaysGranted(l, mode) == TRUE

\* Metadata::lock refuses a WRITE when somebody holds the write lock, and
\* nothing else; the caller learns it from the return value.
LockGranted(l, mode) == "WRITE" \in mode => l["WRITE"] = {}

Locked(l, u, mode) ==
  IF LockGranted(l, mode)
  THEN [k \in LockKinds |-> IF k \in mode THEN l[k] \cup {u} ELSE l[k]]
  ELSE l

\* unlock that forgets the write set.
UnlockedReadOnly(l, u, mode) ==
  [k \in LockKinds |-> IF k \in mode /\ k = "READ" THEN l[k] \ {u} ELSE l[k]]

\* Metadata::unlock erases the user's key, whichever of the user's
\* transactions put it there.
UnlockedBy(l, u, mode) ==
  [k \in LockKinds |-> IF k \in mode THEN l[k] \ {u} ELSE l[k]]

-----------------------------------------------------------------------------
(* SlaveManager::chooseIONode, as the set of chains it can return.  Every  *)
(* slave has the 10GB of free disk that a new file needs.                  *)

InjectiveChains(n, S) ==
  {q \in [1 .. n -> S] : \A i, j \in 1 .. n : i # j => q[i] # q[j]}

ChainLength(n) == IF n < ReplicaNum THEN n ELSE ReplicaNum

\* The nearest (or a random) holder first; then, for a write, the other
\* holders in the order of set<int>.
HolderChains(locs, mode) ==
  IF "WRITE" \notin mode
  THEN {<<n>> : n \in locs}
  ELSE {q \in InjectiveChains(Cardinality(locs), locs) :
          \A i, j \in 2 .. Cardinality(locs) : i < j => q[i] < q[j]}

\* A file without a location: no node for a reader, a random node for a
\* writer, and a whole chain of them when the write is to be replicated.
NewFileChains(mode) ==
  CASE "WRITE" \notin mode -> {<<>>}
    [] "WRITE" \in mode /\ "HiRELIABLE" \notin mode -> {<<n>> : n \in Slaves}
    [] OTHER -> InjectiveChains(ChainLength(Cardinality(Slaves)), Slaves)

chooseIONode(locs, mode) ==
  IF locs # {} THEN HolderChains(locs, mode) ELSE NewFileChains(mode)
=============================================================================
