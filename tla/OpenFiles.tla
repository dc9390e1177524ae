------------------------------- MODULE OpenFiles -------------------------------
(***************************************************************************)
(* A client's file handle and its session with a slave (FileClient), for   *)
(* use beside other parts of a node: all of its definitions are C's.       *)
(***************************************************************************)
EXTENDS Naturals

CONSTANTS ClientFiles, LocalFiles, MaxSize, Unit, Ahead, MaxOps, MaxBreaks
VARIABLES file, known, other, found, opened, asked, up, toSlave, toClient, slave, ending, late, cache, stats,
          download, mixed, view, out, skew, did, breaks

C == INSTANCE FileClient WITH Files <- ClientFiles, h <- opened, op <- asked, local <- download, ops <- did

\* A client has files, and blocks are not empty.
ClientAssumption ==
  /\ ClientFiles # {} /\ LocalFiles \subseteq ClientFiles
  /\ {MaxSize, Ahead, MaxOps, MaxBreaks} \subseteq Nat /\ Unit \in Nat \ {0}

\* What a slave sends is what the client asked for: reads and downloads are true, and between
\* two commands nothing is left on the stream (fsclient.cpp, serv_file.cpp: read, write, cases 1
\* to 5); with what makes that inductive.
SlaveSendsTrue == C!ClientInv /\ C!SlaveReadsTrue /\ C!DownloadWhole /\ C!StreamsInStep /\ C!WithinTheFile

\* Who takes the write lock of a file, finds it as the master has it, although the session before
\* broke (meta.cpp: lock; serv_file.cpp: fileHandler reports; master.cpp: the report unlocks).
WriterFindsTheSize == C!WriterFindsTheSize
=============================================================================
