----------------------------- MODULE SharedHandles -----------------------------
(***************************************************************************)
(* The threads of FUSE and the handles that they share (FuseFiles), for    *)
(* use beside other parts of a node: all of its definitions are F's.       *)
(***************************************************************************)
CONSTANTS Procs, FusePaths, MaxHandles, MaxFiles, MaxOffset
VARIABLES fs, tracker, handle, fd, at, moved

F == INSTANCE FuseFiles WITH Paths <- FusePaths

\* What threads may rely on that share a handle, until an open file is renamed: it is open
\* and of their file while they use it, it is at the offset that a lone one has set, and no
\* handle stays open that nobody uses (sectorfs.cpp: open, create, read, write, release,
\* rename); with what makes that inductive.
HandlesShared == F!FuseInv
=============================================================================
