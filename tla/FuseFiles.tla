------------------------------ MODULE FuseFiles -------------------------------
(***************************************************************************)
(* The FUSE file system (fuse/sectorfs.cpp): the files that processes have *)
(* open by their path, one tracker and one handle of the client for all    *)
(* who have the same path open, and the reads and writes that FUSE's       *)
(* threads do with the handle after they have let the lock go.             *)
(*                                                                         *)
(* FUSE calls release when a process closes a file, with none of its reads *)
(* or writes still running; rename does not touch the trackers.            *)
(***************************************************************************)
EXTENDS Naturals, Sequences, FiniteSets, Functions

CONSTANTS Procs, Paths,
          MaxHandles, MaxFiles, MaxOffset   \* bounds

VARIABLES
  fs,       \* path -> the file there, or Nothing
  tracker,  \* m_mOpenFileList: path -> [count, handle], for those that are open
  handle,   \* the SectorFile objects that were created: [file, size, get, put, live]
  fd,       \* process -> what it has open
  at,       \* process -> where its call is
  moved     \* a file was renamed while it was open

vars == <<fs, tracker, handle, fd, at, moved>>

Nothing == 0
Closed == [open |-> FALSE]
Idle == [st |-> "idle"]

Init ==
  /\ fs = [p \in Paths |-> Nothing]
  /\ tracker = << >> /\ handle = << >>
  /\ fd = [c \in Procs |-> Closed] /\ at = [c \in Procs |-> Idle]
  /\ moved = FALSE

AllFiles == {fs[p] : p \in Paths} \cup {handle[h].file : h \in DOMAIN handle} \cup {Nothing}
NewFile == 1 + CHOOSE f \in AllFiles : \A g \in AllFiles : g <= f
Fresh == Len(handle) + 1
OnHandle(h, op) == {c \in Procs : at[c].st \in {"got", "sought"} /\ at[c].h = h /\ at[c].op = op}

-----------------------------------------------------------------------------

\* open: the first one at a path opens the file, for reading and writing, and
\* that creates it; the others are counted.  The master tells what size it is.
Opens(c, p) ==
  /\ fd' = [fd EXCEPT ![c] = [open |-> TRUE, path |-> p]]
  /\ at' = [at EXCEPT ![c] = Idle]
  /\ \/ /\ p \in DOMAIN tracker
        /\ tracker' = [tracker EXCEPT ![p].count = @ + 1]
        /\ UNCHANGED <<fs, handle>>
     \/ /\ p \notin DOMAIN tracker /\ Fresh <= MaxHandles
        /\ fs' = [fs EXCEPT ![p] = IF @ = Nothing THEN NewFile ELSE @]
        /\ \E size \in 0 .. MaxOffset :
             handle' = Append(handle, [file |-> fs'[p], size |-> size, get |-> 0, put |-> 0, live |-> TRUE])
        /\ tracker' = [q \in DOMAIN tracker \cup {p} |-> IF q = p THEN [count |-> 1, handle |-> Fresh] ELSE tracker[q]]
  /\ UNCHANGED moved

Open(c, p) == at[c] = Idle /\ ~fd[c].open /\ fs[p] # Nothing /\ Opens(c, p)

\* create: the file is made with a handle of its own, and then opened.
Create(c, p) ==
  /\ at[c] = Idle /\ ~fd[c].open /\ fs[p] = Nothing /\ NewFile <= MaxFiles
  /\ fs' = [fs EXCEPT ![p] = NewFile]
  /\ at' = [at EXCEPT ![c] = [st |-> "made", path |-> p]]
  /\ UNCHANGED <<tracker, handle, fd, moved>>

OpenMade(c) == at[c].st = "made" /\ Opens(c, at[c].path)

\* read and write: the handle is looked up under the lock, ...
LookUp(c, op, off) ==
  LET t == tracker[fd[c].path] IN
  /\ at[c] = Idle /\ fd[c].open
  /\ fd[c].path \in DOMAIN tracker
  /\ at' = [d \in Procs |->
              IF d = c THEN [st |-> "got", h |-> t.handle, op |-> op, off |-> off,
                                    alone |-> OnHandle(t.handle, op) = {}, past |-> FALSE]
              ELSE IF d \in OnHandle(t.handle, op) THEN [at[d] EXCEPT !.alone = FALSE] ELSE at[d]]
  /\ UNCHANGED <<fs, tracker, handle, fd, moved>>

\* ... set to the position, but not to one beyond the size that the handle knows
\* when it is to be read: that fails, which is not looked at, ...
Seek(c) ==
  LET h == at[c].h
      past == at[c].op = "read" /\ at[c].off > handle[h].size
  IN
  /\ at[c].st = "got"
  /\ at' = [at EXCEPT ![c] = [@ EXCEPT !.st = "sought", !.past = past]]
  /\ handle' = [handle EXCEPT ![h] = CASE past -> @
                                      [] at[c].op = "write" -> [@ EXCEPT !.put = at[c].off]
                                      [] OTHER -> [@ EXCEPT !.get = at[c].off]]
  /\ UNCHANGED <<fs, tracker, fd, moved>>

Written(k) == [k EXCEPT !.put = k.put + 1, !.size = IF k.size > k.put THEN k.size ELSE k.put + 1]

\* ... and read, up to the size, or written from where it is.  (One that fails
\* leaves the handle as the seek left it, and is left out.)
Transfer(c) ==
  LET h == at[c].h IN
  /\ at[c].st = "sought"
  /\ \/ /\ at[c].op = "read"
        /\ handle' = [handle EXCEPT ![h].get = IF @ < handle[h].size THEN @ + 1 ELSE @]
     \/ /\ at[c].op = "write"
        /\ handle' = [handle EXCEPT ![h] = Written(handle[h])]
  /\ at' = [at EXCEPT ![c] = Idle]
  /\ UNCHANGED <<fs, tracker, fd, moved>>

\* release: the last one closes the handle.
ReleaseAll(c) ==
  LET p == fd[c].path IN
  /\ at[c] = Idle /\ fd[c].open
  /\ fd' = [fd EXCEPT ![c] = Closed]
  /\ IF p \notin DOMAIN tracker THEN UNCHANGED <<tracker, handle>>
     ELSE /\ handle' = [handle EXCEPT ![tracker[p].handle].live = FALSE]
          /\ tracker' = Restrict(tracker, DOMAIN tracker \ {p})
  /\ UNCHANGED <<fs, at, moved>>
Release(c) ==
  LET p == fd[c].path IN
  /\ at[c] = Idle /\ fd[c].open
  /\ fd' = [fd EXCEPT ![c] = Closed]
  /\ \/ p \notin DOMAIN tracker /\ UNCHANGED <<tracker, handle>>
     \/ /\ p \in DOMAIN tracker /\ tracker[p].count > 1
        /\ tracker' = [tracker EXCEPT ![p].count = @ - 1] /\ UNCHANGED handle
     \/ /\ p \in DOMAIN tracker /\ tracker[p].count = 1
        /\ handle' = [handle EXCEPT ![tracker[p].handle] = [file |-> @.file, size |-> 0, get |-> 0, put |-> 0, live |-> FALSE]]
        /\ tracker' = Restrict(tracker, DOMAIN tracker \ {p})
  /\ UNCHANGED <<fs, at, moved>>

\* rename: the processes that have the file open have it by its new name.  That
\* such a file was renamed ends what is said here, and the renaming.
Rename(p, q) ==
  /\ ~moved /\ fs[p] # Nothing /\ fs[q] = Nothing
  /\ fs' = [fs EXCEPT ![q] = fs[p], ![p] = Nothing]
  /\ fd' = [c \in Procs |-> IF fd[c].open /\ fd[c].path = p THEN [fd[c] EXCEPT !.path = q] ELSE fd[c]]
  /\ moved' = (moved \/ p \in DOMAIN tracker \/ \E c \in Procs : at[c].st = "made" /\ at[c].path = p)
  /\ UNCHANGED <<tracker, handle, at>>

Next ==
  \/ \E c \in Procs :
       \/ OpenMade(c) \/ Seek(c) \/ Transfer(c) \/ Release(c)
       \/ \E p \in Paths : Open(c, p) \/ Create(c, p)
       \/ \E op \in {"read", "write"}, off \in 0 .. MaxOffset : LookUp(c, op, off)
  \/ \E p, q \in Paths : Rename(p, q)

Spec == Init /\ [][Next]_vars

-----------------------------------------------------------------------------

\* A thread of FUSE that has taken a handle from its tracker uses it while it
\* has not been closed and deleted (read, write, release), and it is the
\* handle of the file that the process opened, unless an open file was renamed.
UsesTheHandle ==
  \A c \in Procs : at[c].st \in {"got", "sought"} /\ ~moved =>
    handle[at[c].h].live /\ handle[at[c].h].file = fs[fd[c].path]

\* A read or a write is made at the offset it is asked for, unless others use
\* the path's handle at that time, for the seek and the transfer are two steps, or
\* the offset to read at is beyond the size that the handle knows.
AtItsOffset ==
  \A c \in Procs : at[c].st = "sought" /\ at[c].alone /\ ~at[c].past /\ ~moved =>
    at[c].off = (IF at[c].op = "read" THEN handle[at[c].h].get ELSE handle[at[c].h].put)

\* A read beyond that size is not made where the handle was before.  It does not
\* hold: read goes on after a seekg that has failed (sectorfs.cpp:252).
NoReadElsewhere ==
  \A c \in Procs : at[c].st = "sought" /\ at[c].alone /\ at[c].past /\ ~moved =>
    handle[at[c].h].get >= handle[at[c].h].size

\* The handles of the files that processes have open, and no others, are open.
ClosesWhatItOpens ==
  ~moved => \A h \in DOMAIN handle :
              handle[h].live <=> \E c \in Procs : /\ fd[c].open /\ fd[c].path \in DOMAIN tracker
                                               /\ tracker[fd[c].path].handle = h

\* What makes the three inductive.  Who has a path open is counted at the path, and a call
\* that has a handle has that of its path.
Readers(p) == {c \in Procs : fd[c].open /\ fd[c].path = p}
Busy(c) == at[c].st \in {"got", "sought"}

HandleRecord == [file : Nat, size : Nat, get : Nat, put : Nat, live : BOOLEAN]
AtRecord ==
  {Idle} \cup [st : {"made"}, path : Paths]
    \cup [st : {"got", "sought"}, h : Nat, op : {"read", "write"}, off : Nat, alone : BOOLEAN, past : BOOLEAN]
TypeOK ==
  /\ fs \in [Paths -> Nat] /\ handle \in Seq(HandleRecord)
  /\ DOMAIN tracker \subseteq Paths /\ tracker \in [DOMAIN tracker -> [count : Nat, handle : DOMAIN handle]]
  /\ fd \in [Procs -> {Closed} \cup [open : {TRUE}, path : Paths]] /\ at \in [Procs -> AtRecord]
  /\ moved \in BOOLEAN

TrackersTrue ==
  /\ \A p \in DOMAIN tracker :
       /\ tracker[p].count = Cardinality(Readers(p)) /\ Readers(p) # {}
       /\ fs[p] # Nothing /\ handle[tracker[p].handle].live /\ handle[tracker[p].handle].file = fs[p]
  /\ \A p, q \in DOMAIN tracker : tracker[p].handle = tracker[q].handle => p = q
  /\ \A h \in DOMAIN handle : handle[h].live => \E p \in DOMAIN tracker : tracker[p].handle = h
  /\ \A c \in Procs : fd[c].open => fd[c].path \in DOMAIN tracker

CallsTrue ==
  \A c \in Procs :
    /\ at[c].st = "made" => ~fd[c].open
    /\ Busy(c) => fd[c].open /\ at[c].h = tracker[fd[c].path].handle
    /\ Busy(c) /\ at[c].alone => OnHandle(at[c].h, at[c].op) = {c}

FuseInv ==
  /\ TypeOK
  /\ ~moved => TrackersTrue /\ CallsTrue /\ UsesTheHandle /\ AtItsOffset /\ ClosesWhatItOpens
=============================================================================
