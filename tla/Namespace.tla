-------------------------------- MODULE Namespace --------------------------------
(***************************************************************************)
(* The name space of Sector: the tree of the master (index.cpp), the       *)
(* requests that change it (processFSCmd of master.cpp), what the slaves   *)
(* do about them on their disks (processFSCmd of slave.cpp), and how the   *)
(* disk of a slave that joins is merged into the tree.                     *)
(*                                                                         *)
(* The messages to the slaves are not answered and may change their order. *)
(* A slave that restarts scans its disk, so that its own index is left     *)
(* out; the directories a slave keeps for itself are not in the scan.      *)
(***************************************************************************)
EXTENDS Naturals, Sequences, FiniteSets, SequencesExt

CONSTANTS Slaves,
          Names,        \* of files and directories: 1, 2, ... in their order
          Stamps,       \* what tells two files of a name apart: size and time
          ReplicaNum,   \* the replicas of a file
          MaxOps,       \* requests that change the name space
          MaxLost       \* slaves that are lost

VARIABLES
  tree,    \* the master's: a node for each path
  joined,  \* the slaves that the master knows
  disk,    \* of each slave: a stamp for each file, and Dir for a directory
  attic,   \* of each slave: which file is under a name
  msgs,    \* to the slaves
  ops, lost

vars == <<tree, joined, disk, attic, msgs, ops, lost>>

\* What is on a disk in the place of a stamp, for a directory.
Dir == 0

\* Requests name paths of this depth; moved directories may make longer ones.
Paths == {<<a>> : a \in Names} \cup (Names \X Names)

Parent(p) == SubSeq(p, 1, Len(p) - 1)
NameOf(p) == p[Len(p)]
Inside(p, q) == IsPrefix(q, p)   \* p is q, or below it

Directory == [dir |-> TRUE, stamp |-> 0, locs |-> {}]
File(v, locs) == [dir |-> FALSE, stamp |-> v, locs |-> locs]

\* The first function, where both have a value.
Over(f, g) == [x \in DOMAIN f \cup DOMAIN g |-> IF x \in DOMAIN f THEN f[x] ELSE g[x]]
Without(f, S) == [x \in DOMAIN f \ S |-> f[x]]
Only(S, v) == [x \in S |-> v]
Above(p) == {SubSeq(p, 1, k) : k \in 1 .. Len(p)}
Below(f, p) == {q \in DOMAIN f : Inside(q, p)}

Init ==
  /\ tree = <<>> /\ joined = Slaves
  /\ disk = [s \in Slaves |-> <<>>] /\ attic = [s \in Slaves |-> <<>>]
  /\ msgs = {} /\ ops = 0 /\ lost = 0

-----------------------------------------------------------------------------
(* The index. *)

\* create, with all that is missing above.
Created(t, p, node) == Over(t, Over(Only({p}, node), Only(Above(p), Directory)))

\* move: what is at the target is replaced; a directory that moves into itself is gone.
Moved(t, src, dst) ==
  LET at(q) == dst \o SubSeq(q, Len(src) + 1, Len(q))
      moved == [q \in {at(r) : r \in Below(t, src)} |-> t[src \o SubSeq(q, Len(dst) + 1, Len(q))]]
      rest == Over(Without(t, Below(t, src) \cup Below(t, dst)), Only(Above(Parent(dst)), Directory))
  IN IF Inside(dst, src) THEN Without(t, Below(t, src)) ELSE Over(moved, rest)

\* lookup of the slaves that have a file of a tree.
Locations(t, p) == UNION {t[q].locs : q \in {r \in Below(t, p) : ~t[r].dir /\ \A a \in Above(r) \ {r} : Inside(a, p) => t[a].dir}}

\* substract: files that no slave has are dropped; directories stay.
Substracted(t, s) ==
  LET left == [p \in DOMAIN t |-> [t[p] EXCEPT !.locs = @ \ {s}]]
      gone == {p \in DOMAIN t : ~t[p].dir /\ left[p].locs = {} /\ \A a \in Above(Parent(p)) : t[a].dir}
  IN Without(left, UNION {Below(t, p) : p \in gone})

\* Of a branch: what is new to the tree, and what is one more replica.
NewIn(t, b) == {p \in DOMAIN b : p \notin DOMAIN t /\ \A a \in Above(Parent(p)) \cap DOMAIN t : t[a].dir}

\* A merge that goes by the name alone.
ReplicaByName(t, b) ==
  {p \in DOMAIN b \cap DOMAIN t :
     /\ ~b[p].dir /\ ~t[p].dir
     /\ Cardinality(t[p].locs) < ReplicaNum
     /\ \A a \in Above(Parent(p)) : t[a].dir}

ReplicaIn(t, b) ==
  {p \in DOMAIN b \cap DOMAIN t :
     /\ ~b[p].dir /\ ~t[p].dir
     /\ b[p].stamp = t[p].stamp
     /\ Cardinality(t[p].locs) < ReplicaNum
     /\ \A a \in Above(Parent(p)) : t[a].dir}

Merged(t, b) ==
  LET more == ReplicaIn(t, b)
  IN Over([p \in more |-> [t[p] EXCEPT !.locs = @ \cup b[p].locs]],
          Over(t, [p \in NewIn(t, b) |-> b[p]]))

\* What remains in the branch: the files that conflict, as list_r names them.
Conflicts(t, b) == {p \in DOMAIN b : ~b[p].dir} \ (NewIn(t, b) \cup ReplicaIn(t, b))

\* serialize: a line for each node, with its depth, in the order of the names.
RECURSIVE Lines(_, _)
Lines(t, p) ==
  FlattenSeq([n \in 1 .. Cardinality(Names) |->
    LET q == Append(p, n) IN
      IF q \notin DOMAIN t THEN <<>>
      ELSE <<[level |-> Len(q), name |-> n, node |-> t[q]]>> \o (IF t[q].dir THEN Lines(t, q) ELSE <<>>)])

\* deserialize: a line is at the current level, one below the last node, or further up.
ReadLine(r, line) ==
  LET cur == IF line.level = Len(r.cur) + 2 THEN r.last
             ELSE SubSeq(r.last, 1, line.level - 1)
      p == Append(cur, line.name)
  IN [tree |-> Over(Only({p}, line.node), r.tree), cur |-> cur, last |-> p]

Deserialized(lines, s) ==
  LET located == [i \in DOMAIN lines |-> IF lines[i].node.dir THEN lines[i]
                                         ELSE [lines[i] EXCEPT !.node.locs = {s}]]
  IN FoldLeft(ReadLine, [tree |-> <<>>, cur |-> <<>>, last |-> <<>>], located).tree

-----------------------------------------------------------------------------
(* The requests. *)

Tell(slaves, m) == msgs' = msgs \cup {[to |-> s, body |-> m] : s \in slaves}

Op == ops < MaxOps /\ ops' = ops + 1

\* One slave, with room on its disk, is to make the directory.
Mkdir(p, s) ==
  /\ Op /\ p \notin DOMAIN tree /\ s \in joined
  /\ tree' = Created(tree, p, Directory)
  /\ Tell({s}, [type |-> "mkdir", path |-> p])
  /\ UNCHANGED <<joined, disk, attic, lost>>

\* A file that is opened, written and reported (FileTransactions has the steps).
Upload(p, s, v) ==
  /\ Op /\ p \notin DOMAIN tree /\ s \in joined
  /\ \A a \in Above(Parent(p)) : (a \in DOMAIN tree => tree[a].dir) /\ (a \in DOMAIN disk[s] => disk[s][a] = Dir)
  /\ p \in DOMAIN disk[s] => disk[s][p] # Dir
  /\ tree' = Created(tree, p, File(v, {s}))
  /\ disk' = [disk EXCEPT ![s] = Over(Only({p}, v), Over(@, Only(Above(Parent(p)), Dir)))]
  /\ UNCHANGED <<joined, attic, msgs, lost>>

\* A move to a path that does not exist renames; one to a directory puts the node
\* into it.  The slaves get the same message for both.
Move(src, dst) ==
  LET into == dst \in DOMAIN tree
      sub == Append(dst, NameOf(src))
  IN /\ Op /\ src \in DOMAIN tree
     /\ Parent(dst) = <<>> \/ Parent(dst) \in DOMAIN tree
     /\ sub \notin DOMAIN tree
     /\ into => tree[dst].dir
     /\ tree' = Moved(tree, src, IF into THEN sub ELSE dst)
     /\ Tell(Locations(tree, src), [type |-> "mv", path |-> src, dst |-> dst])
     /\ UNCHANGED <<joined, disk, attic, lost>>

\* Of directories, only empty ones; all slaves are told.
Delete(p) ==
  /\ Op /\ p \in DOMAIN tree
  /\ tree[p].dir => Below(tree, p) = {p}
  /\ tree' = Without(tree, Below(tree, p))
  /\ Tell(IF tree[p].dir THEN joined ELSE tree[p].locs, [type |-> "rm", path |-> p])
  /\ UNCHANGED <<joined, disk, attic, lost>>

Utime(p, v) ==
  /\ Op /\ p \in DOMAIN tree /\ ~tree[p].dir
  /\ tree' = [tree EXCEPT ![p].stamp = v]
  /\ Tell(tree[p].locs, [type |-> "utime", path |-> p, stamp |-> v])
  /\ UNCHANGED <<joined, disk, attic, lost>>

-----------------------------------------------------------------------------
(* The slaves. *)

\* createDir stops at a file.
MadeDir(d, p) ==
  Over(d, Only({a \in Above(p) : \A b \in Above(a) : b \in DOMAIN d => d[b] = Dir}, Dir))

\* mv of the shell: into a directory, if the target is one.
MovedOnDisk(d, src, dst) ==
  LET to == IF dst \in DOMAIN d /\ d[dst] = Dir THEN Append(dst, NameOf(src)) ELSE dst
      free == \/ to \notin DOMAIN d
              \/ d[src] # Dir /\ d[to] # Dir
              \/ d[src] = Dir /\ d[to] = Dir /\ Below(d, to) = {to}
  IN IF src \in DOMAIN d /\ ~Inside(to, src) /\ free /\ (Parent(to) = <<>> \/ (Parent(to) \in DOMAIN d /\ d[Parent(to)] = Dir))
     THEN Over([q \in {to \o SubSeq(r, Len(src) + 1, Len(r)) : r \in Below(d, src)} |->
                  d[src \o SubSeq(q, Len(to) + 1, Len(q))]],
               Without(d, Below(d, src)))
     ELSE d

Done(d, m) ==
  CASE m.type = "mkdir" -> MadeDir(d, m.path)
    [] m.type = "mv" -> MovedOnDisk(MadeDir(d, Parent(m.dst)), m.path, m.dst)
    [] m.type = "rm" -> Without(d, Below(d, m.path))
    [] m.type = "utime" -> IF m.path \in DOMAIN d /\ d[m.path] # Dir THEN [d EXCEPT ![m.path] = m.stamp] ELSE d

SlaveDoes(m) ==
  /\ m \in msgs
  /\ disk' = [disk EXCEPT ![m.to] = Done(@, m.body)]
  /\ msgs' = msgs \ {m}
  /\ UNCHANGED <<tree, joined, attic, ops, lost>>

\* The master gives a slave up; its process may be running still.
SlaveLost(s) ==
  /\ s \in joined /\ lost < MaxLost
  /\ joined' = joined \ {s} /\ lost' = lost + 1
  /\ tree' = Substracted(tree, s)
  /\ UNCHANGED <<disk, attic, msgs, ops>>

\* scan
Scan(d) == [p \in DOMAIN d |-> IF d[p] = Dir THEN Directory ELSE File(d[p], {})]

\* A slave that is started again joins: what conflicts goes to the attic, where
\* files of one name take the place of each other.
Join(s) ==
  /\ s \notin joined
  /\ joined' = joined \cup {s}
  /\ \E b \in {Deserialized(Lines(Scan(disk[s]), <<>>), s)} :
       LET away == Conflicts(tree, b) IN
         /\ tree' = Merged(tree, b)
         /\ disk' = [disk EXCEPT ![s] = Without(@, away)]
         /\ attic' = [attic EXCEPT ![s] = Over([n \in {NameOf(p) : p \in away} |->
                                                  CHOOSE p \in away : NameOf(p) = n], @)]
  /\ msgs' = {m \in msgs : m.to # s}
  /\ UNCHANGED <<ops, lost>>

Next ==
  \/ \E p \in Paths, s \in Slaves : Mkdir(p, s) \/ \E v \in Stamps : Upload(p, s, v)
  \/ \E p, q \in Paths : Move(p, q)
  \/ \E p \in Paths : Delete(p) \/ \E v \in Stamps : Utime(p, v)
  \/ \E m \in msgs : SlaveDoes(m)
  \/ \E s \in Slaves : SlaveLost(s) \/ Join(s)

Spec == Init /\ [][Next]_vars

-----------------------------------------------------------------------------
(* Properties. *)

FilesOf(d) == {p \in DOMAIN d : d[p] # Dir}

\* Each file on the disk of a slave that joins is a file of the tree, with this slave
\* as a location and the same stamp, or is put away; the tree loses nothing.
JoinAccountsForAll ==
  [][\A s \in joined' \ joined :
       /\ \A p \in FilesOf(disk[s]) :
            IF p \in DOMAIN disk'[s]
            THEN p \in DOMAIN tree' /\ s \in tree'[p].locs /\ tree'[p].stamp = disk[s][p]
            ELSE NameOf(p) \in DOMAIN attic'[s]
       /\ \A p \in DOMAIN tree : p \in DOMAIN tree' /\ tree'[p].locs \in {tree[p].locs, tree[p].locs \cup {s}}
                                  /\ tree'[p].stamp = tree[p].stamp
    ]_vars

\* When the slaves have done what they were told, a location of a file has the file.
\* It does not hold: messages change their order on the way.
LocationsHold ==
  msgs = {} =>
    \A p \in DOMAIN tree : (\A a \in Above(Parent(p)) : tree[a].dir) =>
      \A s \in tree[p].locs : p \in FilesOf(disk[s])
=============================================================================
