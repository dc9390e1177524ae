------------------------------ MODULE FileClient ------------------------------
(***************************************************************************)
(* A file handle of a client (fsclient.cpp, clientmgmt.cpp), the caches it *)
(* shares with the other handles of the client (fscache.cpp), and its      *)
(* session with the slave that has the file (serv_file.cpp).               *)
(*                                                                         *)
(* The handle sends a command, its parameters and its data without waiting *)
(* for more than the slave's consent; the slave takes them one by one.     *)
(* The session's blocks stay in their order (DataChannel).  Another client *)
(* appends to the files, when the master's lock lets it.                   *)
(*                                                                         *)
(* A file is a sequence of units, each with the number of the write that   *)
(* wrote it.                                                               *)
(***************************************************************************)
EXTENDS Integers, Sequences, FiniteSets, SequencesExt

CONSTANTS Files,
          LocalFiles,   \* those that are on the node of the client
          MaxSize,      \* units of a file
          Unit,         \* units of a block of a download (64 MB in the code)
          Ahead,        \* units that a read prefetches
          MaxOps, MaxBreaks

VARIABLES
  file,      \* on the slave
  known,     \* to the master: the size
  other,     \* the files that the other client writes to
  found,     \* the open that the master handles, with the size that it has looked up
  h,         \* the FSClient
  op,        \* what it is waiting for
  up,        \* the connection of the session
  toSlave, toClient,
  slave,     \* the thread of the session
  ending,    \* broken sessions that are left behind and have still to report
  late,      \* what a thread has received before its session broke and may still store
  cache,     \* m_ReadCache: for each file its blocks
  stats,     \* m_StatCache, by file and whether the path is spelled as revisePath does
  local,     \* the local file of downloads
  mixed,     \* the file was changed, was another one, or its session out of step, when some
             \* of that was downloaded
  view,      \* the file when it was opened, and what the handle has written since
  out,       \* the last result
  skew,      \* the session has sent a download of another size than the handle's, or what was
             \* stored late has changed what the handle has opened
  ops, breaks

data == <<file, known, other, found>>
client == <<h, op, cache, stats, local, mixed, view, out>>
session == <<up, toSlave, toClient, slave, ending, late, skew>>
vars == <<data, client, session, ops, breaks>>

Garbage == 0   \* what is not in the file
Lower(a, b) == IF a < b THEN a ELSE b
Closed == [open |-> FALSE, file |-> CHOOSE f \in Files : TRUE, spelled |-> TRUE, rd |-> FALSE, wr |-> FALSE,
           size |-> 0, rpos |-> 0, wpos |-> 0, local |-> FALSE]
Idle == [k |-> "idle"]
NoResult == [k |-> "none"]
Nothing == [k |-> "nothing"]
NoStat == [count |-> 0, size |-> 0, changed |-> FALSE]

Init ==
  /\ file = [f \in Files |-> <<1, 1>>] /\ known = [f \in Files |-> 2] /\ other = {} /\ found = Nothing
  /\ h = Closed /\ op = Idle /\ out = NoResult
  /\ cache = [f \in Files |-> <<>>] /\ stats = [p \in Files \X BOOLEAN |-> NoStat]
  /\ local = <<>> /\ mixed = FALSE /\ view = <<>> /\ ending = {} /\ late = {}
  /\ up = FALSE /\ toSlave = <<>> /\ toClient = <<>> /\ skew = FALSE
  /\ slave = [st |-> "off", file |-> h.file, rd |-> FALSE, wr |-> FALSE]
  /\ ops = 0 /\ breaks = 0

\* n units of a file from an offset.
Piece(s, off, n) == [i \in 1 .. n |-> IF off + i \in DOMAIN s THEN s[off + i] ELSE Garbage]

\* The file with a block written at an offset.
Written(s, off, d) ==
  [i \in 1 .. (IF off + Len(d) > Len(s) THEN off + Len(d) ELSE Len(s)) |->
     IF i \in off + 1 .. off + Len(d) THEN d[i - off] ELSE IF i \in DOMAIN s THEN s[i] ELSE Garbage]

-----------------------------------------------------------------------------
(* The caches. *)

\* ReadCache::read takes the first block that does not begin before the offset.
Hits(f, off) == {i \in DOMAIN cache[f] : cache[f][i].off >= off}
FirstHit(f, off) == CHOOSE i \in Hits(f, off) : \A j \in Hits(f, off) : i <= j
Cached(b, off, n) == [i \in 1 .. n |-> IF off + i > b.off /\ off + i <= b.off + Len(b.data) THEN b.data[off + i - b.off] ELSE Garbage]

StatInserted(p) == [stats EXCEPT ![p].count = @ + 1]
StatUpdated(p, n) == IF stats[p].count = 0 THEN stats ELSE [stats EXCEPT ![p].size = n, ![p].changed = TRUE]
StatRemoved(p) ==
  IF stats[p].count <= 1 THEN [stats EXCEPT ![p] = NoStat] ELSE [stats EXCEPT ![p].count = @ - 1]

-----------------------------------------------------------------------------
(* The handle. *)

Ready == h.open /\ op = Idle /\ ops < MaxOps
Session == [file |-> slave.file, wr |-> slave.wr]
\* A session that was broken is taken to have ended.
WriteLockedByOther(f) == f \in other

WriteLocked(f) == f \in other \/ \E s \in ending \cup (IF slave.st \in {"bye", "off"} THEN {} ELSE {Session}) : s.file = f /\ s.wr

\* The master looks the file up,
LookUp(f, spelled, rd, wr, append) ==
  /\ ~h.open /\ op = Idle /\ found = Nothing /\ ops < MaxOps
  /\ found' = [k |-> "open", file |-> f, spelled |-> spelled, rd |-> rd, wr |-> wr, append |-> append, size |-> known[f]]
  /\ ops' = ops + 1
  /\ UNCHANGED <<file, known, other, client, session, breaks>>

\* takes the lock, in a step of its own, and answers with what it has looked up: the session
\* starts anew, and the flag of local access stays from the file before.
Open ==
  /\ found # Nothing /\ ~(found.wr /\ WriteLocked(found.file)) /\ found' = Nothing
  /\ LET f == found.file IN
     /\ h' = [open |-> TRUE, file |-> f, spelled |-> found.spelled, rd |-> found.rd, wr |-> found.wr, size |-> found.size,
              rpos |-> 0, wpos |-> IF found.append THEN found.size ELSE 0, local |-> h.local \/ f \in LocalFiles]
     /\ slave' = [st |-> "cmd", file |-> f, rd |-> found.rd, wr |-> found.wr]
     /\ stats' = IF found.wr THEN StatInserted(<<f, found.spelled>>) ELSE stats
     /\ view' = file[f] /\ mixed' = (mixed \/ h.file # f \/ skew)
  /\ up' = TRUE /\ toSlave' = <<>> /\ toClient' = <<>> /\ skew' = FALSE /\ out' = NoResult
  /\ ending' = IF slave.st \in {"bye", "off"} THEN ending ELSE ending \cup {Session}
  /\ UNCHANGED <<file, known, other, op, cache, local, late, ops, breaks>>

\* Or it is busy.
Refused ==
  /\ found # Nothing /\ found.wr /\ WriteLocked(found.file) /\ found' = Nothing
  /\ UNCHANGED <<file, known, other, client, session, ops, breaks>>

Send(items) == toSlave' = IF up /\ slave.st \notin {"end", "bye", "off"} THEN toSlave \o items ELSE toSlave

Cmd(c) == [t |-> "cmd", c |-> c]
\* The offset is forgotten.
ReqFromStart(off, n) == [t |-> "req", off |-> 0, n |-> n]
Req(off, n) == [t |-> "req", off |-> off, n |-> n]
Block(d) == [t |-> "data", d |-> d]

\* A read has ended with this.
ReadGives(d, from) ==
  /\ out' = [k |-> "read", from |-> from, right |-> d = Piece(view, h.rpos, Len(d))]
  /\ h' = [h EXCEPT !.rpos = @ + Len(d)]

\* What a read asks the slave for.
Ask(n) == Send(<<Cmd("read"), Req(h.rpos, n)>>) /\ op' = [k |-> "read", at |-> "consent", n |-> n]

Read(n, ahead) ==
  LET real == Lower(n, h.size - h.rpos) IN
  /\ Ready /\ ops' = ops + 1
  /\ \/ /\ h.local   \* the file of this name on this node, if it is there
        /\ ReadGives(IF h.file \in LocalFiles THEN Piece(file[h.file], h.rpos, real) ELSE [i \in 1 .. real |-> Garbage], "disk")
        /\ UNCHANGED <<op, toSlave>>
     \/ /\ ~h.local /\ Hits(h.file, h.rpos) # {} /\ real > 0
        /\ ReadGives(Cached(cache[h.file][FirstHit(h.file, h.rpos)], h.rpos, real), "cache")
        /\ UNCHANGED <<op, toSlave>>
     \/ /\ ~h.local /\ up /\ ~(Hits(h.file, h.rpos) # {} /\ real > 0)
        /\ IF ahead >= n /\ h.rpos < h.size
             THEN Send(<<Cmd("read")>>) /\ op' = [k |-> "prefetch", at |-> "consent", n |-> real, ahead |-> Lower(ahead, h.size - h.rpos)]
             ELSE Ask(real)
        /\ UNCHANGED <<h, out>>
  /\ UNCHANGED <<data, cache, stats, local, mixed, view, up, toClient, slave, ending, late, skew, breaks>>

Write(n) ==
  /\ Ready /\ up /\ h.wpos + n <= MaxSize
  /\ Send(<<Cmd("write"), Req(h.wpos, n)>>)
  /\ op' = [k |-> "write", at |-> "consent", d |-> [i \in 1 .. n |-> ops + 2]]
  /\ ops' = ops + 1
  /\ UNCHANGED <<data, h, cache, stats, local, mixed, view, out, up, toClient, slave, ending, late, skew, breaks>>

Download(cont) ==
  /\ Ready /\ up
  /\ local' = (IF cont THEN local ELSE <<>>) /\ mixed' = (cont /\ mixed)
  /\ Send(<<Cmd("download"), Req(Len(local'), 0)>>)
  /\ op' = [k |-> "download", at |-> "consent", left |-> IF h.size > Len(local') THEN h.size - Len(local') ELSE 0]
  /\ ops' = ops + 1
  /\ UNCHANGED <<data, h, cache, stats, view, out, up, toClient, slave, ending, late, skew, breaks>>

Upload(n) ==
  /\ Ready /\ up
  /\ Send(<<Cmd("upload"), Req(0, n)>>)
  /\ op' = [k |-> "upload", at |-> "consent", d |-> [i \in 1 .. n |-> ops + 2]]
  /\ ops' = ops + 1
  /\ UNCHANGED <<data, h, cache, stats, local, mixed, view, out, up, toClient, slave, ending, late, skew, breaks>>

Seek(g, p) ==
  /\ Ready
  /\ \/ ~g /\ h' = [h EXCEPT !.wpos = p]
     \/ g /\ p <= h.size /\ h' = [h EXCEPT !.rpos = p]
  /\ ops' = ops + 1
  /\ UNCHANGED <<data, op, cache, stats, local, mixed, view, out, session, breaks>>

Close ==
  /\ h.open /\ op = Idle
  /\ Send(<<Cmd("close")>>) /\ op' = [k |-> "close", at |-> "consent"]
  /\ UNCHANGED <<data, h, cache, stats, local, mixed, view, out, up, toClient, slave, ending, late, skew, ops, breaks>>

\* The handle is done with, whatever the slave has answered.
ClosedNow ==
  /\ h' = [h EXCEPT !.open = FALSE] /\ op' = Idle
  /\ stats' = IF h.wr THEN StatRemoved(<<h.file, TRUE>>) ELSE stats
  /\ cache' = IF h.rd THEN [cache EXCEPT ![h.file] = <<>>] ELSE cache
  /\ up' = FALSE

Fails(why) == out' = [k |-> "failed", of |-> why] /\ op' = Idle

\* recv takes whatever block comes next for what it waits for.
AsConsent(x) == IF x.t = "data" THEN TRUE ELSE x.ok
AsData(x) == IF x.t = "data" THEN x.d ELSE <<Garbage>>

\* The slave consents to the command, or does not.
Consent ==
  /\ op # Idle /\ op.at = "consent" /\ toClient # <<>>
  /\ LET ok == AsConsent(Head(toClient)) IN
     \/ /\ op.k = "close" /\ ClosedNow /\ UNCHANGED <<local, mixed, view, out, toSlave>>
     \/ /\ op.k = "prefetch" /\ ok
        /\ Send(<<Req(h.rpos, op.ahead)>>) /\ op' = [op EXCEPT !.at = "data"]
        /\ UNCHANGED <<h, cache, stats, local, mixed, view, out, up>>
     \/ /\ op.k = "prefetch" /\ ~ok /\ Ask(op.n)   \* the read is tried after all
        /\ UNCHANGED <<h, cache, stats, local, mixed, view, out, up>>
     \/ /\ op.k \in {"read", "download"} /\ ok /\ op' = [op EXCEPT !.at = "data"]
        /\ UNCHANGED <<h, cache, stats, local, mixed, view, out, up, toSlave>>
     \/ /\ op.k = "write" /\ ok
        /\ Send(<<Block(op.d)>>) /\ op' = Idle /\ out' = [k |-> "write"]
        /\ LET end == h.wpos + Len(op.d) IN
           /\ h' = [h EXCEPT !.wpos = end, !.size = IF end > @ THEN end ELSE @]
           /\ stats' = StatUpdated(<<h.file, TRUE>>, h'.size)
        /\ view' = Written(view, h.wpos, op.d) /\ mixed' = (mixed \/ h.wpos < Len(local))
        /\ UNCHANGED <<cache, local, up>>
     \/ /\ op.k = "upload" /\ ok
        /\ Send(<<Block(op.d)>>) /\ op' = Idle /\ out' = [k |-> "upload"]
        /\ view' = Written(view, 0, op.d) /\ mixed' = (mixed \/ local # <<>>)
        /\ UNCHANGED <<h, cache, stats, local, up>>
     \/ /\ op.k \in {"read", "write", "download", "upload"} /\ ~ok /\ Fails(op.k)
        /\ UNCHANGED <<h, cache, stats, local, mixed, view, up, toSlave>>
  /\ toClient' = Tail(toClient)
  /\ UNCHANGED <<data, slave, ending, late, skew, ops, breaks>>

Received ==
  /\ op # Idle /\ op.at = "data" /\ toClient # <<>>
  /\ LET d == AsData(Head(toClient)) IN
     \/ /\ op.k = "prefetch"   \* there was no hit before, so that the read is of this block
        /\ LET b == [off |-> h.rpos, data |-> d] IN
           cache' = [cache EXCEPT ![h.file] = Append(@, b)] /\ ReadGives(Cached(b, h.rpos, op.n), "slave")
        /\ op' = Idle /\ UNCHANGED local
     \/ /\ op.k = "read" /\ ReadGives(d, "slave") /\ op' = Idle /\ UNCHANGED <<cache, local>>
     \/ /\ op.k = "download"
        /\ local' = local \o d
        /\ IF op.left <= Len(d) THEN op' = Idle /\ out' = [k |-> "download"]
                                ELSE op' = [op EXCEPT !.left = @ - Len(d)] /\ UNCHANGED out
        /\ UNCHANGED <<h, cache>>
  /\ toClient' = Tail(toClient)
  /\ UNCHANGED <<data, stats, mixed, view, up, toSlave, slave, ending, late, skew, ops, breaks>>

\* A download of nothing needs no data.
DownloadEmpty ==
  /\ op # Idle /\ op.k = "download" /\ op.at = "data" /\ op.left = 0
  /\ op' = Idle /\ out' = [k |-> "download"]
  /\ UNCHANGED <<data, h, cache, stats, local, mixed, view, session, ops, breaks>>

\* recv fails on a connection that is broken; close takes no notice.
NotReceived ==
  /\ op # Idle /\ ~up
  /\ IF op.k = "close" THEN ClosedNow /\ UNCHANGED out
       ELSE Fails(op.k) /\ UNCHANGED <<h, cache, stats, up>>
  /\ UNCHANGED <<data, local, mixed, view, toSlave, toClient, slave, ending, late, skew, ops, breaks>>

-----------------------------------------------------------------------------
(* The thread of the slave. *)

Answer(items) == toClient' = IF up THEN toClient \o items ELSE toClient
Consents(c) == [t |-> "consent", ok |-> ~(c \in {"write", "upload"} /\ ~slave.wr) /\ ~(c \in {"read", "download"} /\ ~slave.rd)]

SlaveCommand ==
  /\ slave.st = "cmd" /\ toSlave # <<>>
  /\ LET c == Head(toSlave).c IN
     IF c = "close" THEN slave' = [slave EXCEPT !.st = "end"] /\ UNCHANGED toClient
     ELSE /\ Answer(<<Consents(c)>>)
          /\ slave' = [slave EXCEPT !.st = IF Consents(c).ok THEN c ELSE "end"]
  /\ toSlave' = Tail(toSlave)
  /\ UNCHANGED <<data, client, up, ending, late, skew, ops, breaks>>

\* The blocks of a download.
Blocks(s) == [i \in 1 .. (Len(s) + Unit - 1) \div Unit |-> Block(SubSeq(s, (i - 1) * Unit + 1, Lower(i * Unit, Len(s))))]

SlaveSends ==
  /\ slave.st \in {"read", "download"} /\ toSlave # <<>>
  /\ LET r == Head(toSlave)
         f == file[slave.file]
     IN IF slave.st = "read" THEN Answer(<<Block(Piece(f, r.off, r.n))>>) /\ UNCHANGED skew
        ELSE /\ Answer(Blocks(SubSeq(f, r.off + 1, Len(f))))
             /\ skew' = (skew \/ Len(f) # h.size)
  /\ toSlave' = Tail(toSlave) /\ slave' = [slave EXCEPT !.st = "cmd"]
  /\ UNCHANGED <<data, client, up, ending, late, ops, breaks>>

\* The parameters of a write and then its data.
Pending == slave.st \in {"write", "upload"} /\ Len(toSlave) >= 2
SlaveStores ==
  /\ Pending
  /\ file' = [file EXCEPT ![slave.file] = Written(@, toSlave[1].off, toSlave[2].d)]
  /\ toSlave' = SubSeq(toSlave, 3, Len(toSlave)) /\ slave' = [slave EXCEPT !.st = "cmd"]
  /\ UNCHANGED <<known, other, found, client, up, toClient, ending, late, skew, ops, breaks>>

SlaveNotReceived ==
  /\ slave.st \notin {"end", "bye", "off"} /\ ~up
  /\ slave' = [slave EXCEPT !.st = "end"]
  /\ UNCHANGED <<data, client, up, toSlave, toClient, ending, late, skew, ops, breaks>>

\* The master is told what the file is now, and unlocks it; then the client has its answer.
SlaveReports ==
  /\ slave.st = "end"
  /\ late' = IF slave.wr THEN {x \in late : x.file # slave.file} ELSE late
  /\ known' = IF slave.wr THEN [known EXCEPT ![slave.file] = Len(file[slave.file])] ELSE known
  /\ slave' = [slave EXCEPT !.st = "bye"]
  /\ UNCHANGED <<file, other, found, client, up, toSlave, toClient, ending, skew, ops, breaks>>

SlaveEnds ==
  /\ slave.st = "bye"
  /\ Answer(<<[t |-> "consent", ok |-> TRUE]>>)
  /\ toSlave' = <<>> /\ slave' = [slave EXCEPT !.st = "off"]
  /\ UNCHANGED <<data, client, up, ending, late, skew, ops, breaks>>

\* A session that was left behind.
ReportsLate(s) ==
  /\ ending' = ending \ {s}
  /\ late' = IF s.wr THEN {x \in late : x.file # s.file} ELSE late
  /\ known' = IF s.wr THEN [known EXCEPT ![s.file] = Len(file[s.file])] ELSE known
  /\ UNCHANGED <<file, other, found, client, up, toSlave, toClient, slave, skew, ops, breaks>>

\* Its thread stores what it has received of a block, also when the client has a new session by
\* then (recvfile fails once nothing is left in the buffer).
StoresLate(x, n) ==
  /\ file' = [file EXCEPT ![x.file] = Written(@, x.off, SubSeq(x.d, 1, n))]
  /\ late' = late \ {x}
  /\ mixed' = (mixed \/ ~IsPrefix(local, file'[h.file]))
  /\ skew' = (skew \/ (h.open /\ up /\ ~IsPrefix(view, file'[h.file])))
  /\ UNCHANGED <<known, other, found, h, op, cache, stats, local, view, out, up, toSlave, toClient, slave, ending, ops, breaks>>

-----------------------------------------------------------------------------
(* What else happens. *)

\* What the slave's thread has not taken is lost, except the block of a write, or a part of it.
Break ==
  /\ up /\ (breaks < MaxBreaks \/ (slave.st = "off" /\ toClient = <<>>))
  /\ up' = FALSE /\ toSlave' = <<>> /\ toClient' = <<>>
  /\ late' = IF Pending THEN late \cup {[file |-> slave.file, off |-> toSlave[1].off, d |-> toSlave[2].d]} ELSE late
  /\ breaks' = IF slave.st = "off" THEN breaks ELSE breaks + 1
  /\ UNCHANGED <<data, client, slave, ending, skew, ops>>

OtherOpens(f) == f \notin other /\ ~WriteLocked(f) /\ ops < MaxOps /\ other' = other \cup {f} /\ ops' = ops + 1 /\ UNCHANGED <<file, known, found, client, session, breaks>>
OtherAppends(f) ==
  /\ f \in other /\ Len(file[f]) < MaxSize
  /\ file' = [file EXCEPT ![f] = Append(@, 1)]
  /\ UNCHANGED <<known, other, found, client, session, ops, breaks>>
OtherCloses(f) ==
  /\ f \in other /\ other' = other \ {f} /\ known' = [known EXCEPT ![f] = Len(file[f])]
  /\ UNCHANGED <<file, found, client, session, ops, breaks>>

Next ==
  \/ \E f \in Files, spelled, rd, wr, append \in BOOLEAN : (rd \/ wr) /\ (append \/ ~spelled => wr) /\ LookUp(f, spelled, rd, wr, append)
  \/ Open \/ Refused
  \/ \E n \in 1 .. 2, ahead \in {0, Ahead} : Read(n, ahead)
  \/ \E n \in 1 .. 2 : Write(n)
  \/ \E cont \in BOOLEAN : Download(cont)
  \/ Upload(2)
  \/ \E g \in BOOLEAN, p \in {0, 1} : Seek(g, p)
  \/ Close \/ Consent \/ Received \/ DownloadEmpty \/ NotReceived
  \/ SlaveCommand \/ SlaveSends \/ SlaveStores \/ SlaveNotReceived \/ SlaveReports \/ SlaveEnds \/ Break
  \/ \E s \in ending : ReportsLate(s)
  \/ \E x \in late : \E n \in 0 .. Len(x.d) : StoresLate(x, n)
  \/ \E f \in Files : OtherOpens(f) \/ OtherAppends(f) \/ OtherCloses(f)

Spec == Init /\ [][Next]_vars

-----------------------------------------------------------------------------

\* What a read brings from the slave is the file as it was opened, with what
\* the handle itself has written since (read, write, cases 1, 2 and 4).  Once
\* the session is out of step, a block is taken for what it is not.
SlaveReadsTrue == out.k = "read" /\ out.from = "slave" /\ ~skew => out.right

\* The same of every read, the ones of the cache and of the local disk too.
\* It does not hold: neither the cache nor the disk has what the handle has just
\* written, and the flag of local access stays.
ReadsTrue == out.k = "read" => out.right

\* Between two commands nothing of the last one is left on the connection, so
\* that the next answer is the next command's; unless a download was of more
\* than the handle knew of.
StreamsInStep == h.open /\ op = Idle /\ up /\ slave.st = "cmd" /\ toSlave = <<>> /\ ~skew => toClient = <<>>

\* The offset of reads stays within the file, and the size that the handle
\* goes by within what there is (seekg, read, write), in a session in step.
WithinTheFile == h.open /\ ~skew => h.rpos <= h.size /\ h.size <= Len(view)

\* Who takes the write lock of a file, finds it as long as the master has it: the
\* session before has reported, however it ended, and has nothing left to store.
Locks(f) == (f \in other' /\ f \notin other) \/ (~h.open /\ h'.open /\ h'.wr /\ h'.file = f)
WriterFindsTheSize == [][\A f \in Files : Locks(f) => known[f] = Len(file[f]) /\ \A x \in late : x.file # f]_vars

\* Who opens a file for writing is told its size.  It does not hold: between the look-up
\* and the lock the writer before may report.
WriterToldTheSize == [][~h.open /\ h'.open /\ h'.wr => h'.size = Len(file[h'.file])]_vars

\* A download that succeeds, at once or in several tries, leaves the file as
\* far as the handle knew of it, if nobody has written over what was there.
DownloadWhole == out.k = "download" /\ op = Idle /\ h.open /\ ~mixed /\ ~skew => Len(local) >= h.size /\ IsPrefix(local, view)

-----------------------------------------------------------------------------
(* What makes them inductive. *)

Calls ==
  {Idle} \cup [k : {"read"}, at : {"consent", "data"}, n : Int]
    \cup [k : {"prefetch"}, at : {"consent", "data"}, n : Int, ahead : Int]
    \cup [k : {"download"}, at : {"consent", "data"}, left : Nat]
    \cup [k : {"write", "upload"}, at : {"consent"}, d : Seq(Nat)]
    \cup [k : {"close"}, at : {"consent"}]
Handles == [open : BOOLEAN, file : Files, spelled : BOOLEAN, rd : BOOLEAN, wr : BOOLEAN,
            size : Nat, rpos : Nat, wpos : Nat, local : BOOLEAN]
Commands == {"read", "write", "download", "upload", "close"}
ToSlave == [t : {"cmd"}, c : Commands] \cup [t : {"req"}, off : Nat, n : Int] \cup [t : {"data"}, d : Seq(Nat)]
ToClient == [t : {"consent"}, ok : BOOLEAN] \cup [t : {"data"}, d : Seq(Nat)]

TypeOK ==
  /\ file \in [Files -> Seq(Nat)] /\ known \in [Files -> Nat] /\ other \subseteq Files
  /\ h \in Handles /\ op \in Calls /\ up \in BOOLEAN /\ toSlave \in Seq(ToSlave) /\ toClient \in Seq(ToClient)
  /\ slave \in [st : {"off", "cmd", "read", "write", "download", "upload", "end", "bye"},
                file : Files, rd : BOOLEAN, wr : BOOLEAN]
  /\ ending \subseteq [file : Files, wr : BOOLEAN]
  /\ local \in Seq(Nat) /\ view \in Seq(Nat) /\ mixed \in BOOLEAN /\ skew \in BOOLEAN
  /\ ops \in Nat /\ breaks \in Nat

\* The handle and its session are of one file, in one mode, and a call is one of an open handle.
OneFile ==
  /\ slave.file = h.file /\ slave.rd = h.rd /\ slave.wr = h.wr
  /\ up \/ op # Idle => h.open
  /\ slave.st \in {"write", "upload"} => slave.wr
  /\ slave.st = "off" => toSlave = <<>>
  /\ h.open /\ ~up => toSlave = <<>> /\ toClient = <<>>

\* The master knows the size of what nobody writes, and no writer is beside another one.
SizesKnown ==
  /\ \A f \in Files : known[f] <= Len(file[f]) /\ (known[f] # Len(file[f]) => WriteLocked(f))
  /\ slave.wr /\ slave.st \notin {"bye", "off"} => slave.file \notin other

\* What is stored late is of a session whose lock is still held, and which is not the one in step.
LateHeld ==
  /\ late \subseteq [file : Files, off : Nat, d : Seq(Nat)]
  /\ \A x \in late : WriteLocked(x.file) /\ x.file \notin other /\ ~(up /\ slave.wr /\ slave.file = x.file)

\* An open is of a handle that is closed, and of a file that is not shorter than was looked up.
Opens == [k : {"open"}, file : Files, spelled : BOOLEAN, rd : BOOLEAN, wr : BOOLEAN, append : BOOLEAN, size : Nat]
FoundThere ==
  /\ found \in {Nothing} \cup Opens
  /\ found # Nothing => ~h.open /\ found.size <= Len(file[found.file])

\* What comes from the client after a command, and at place i of q when the slave is in st.
AfterCommand(c) ==
  IF c \in {"read", "download"} THEN "req" ELSE IF c \in {"write", "upload"} THEN "size" ELSE "nothing"
OfWrite(st, q, i) ==
  IF i = 0 THEN st \in {"write", "upload"} ELSE q[i].t = "cmd" /\ q[i].c \in {"write", "upload"}
AfterItem(x, ofWrite) ==
  IF x.t = "cmd" THEN AfterCommand(x.c) ELSE IF x.t = "req" /\ ofWrite THEN "data" ELSE "cmd"
Expected(st, q, i) ==
  IF i = 1 THEN IF st = "cmd" THEN "cmd" ELSE AfterCommand(st) ELSE AfterItem(q[i - 1], OfWrite(st, q, i - 2))
Comes(st, q) == Expected(st, q, Len(q) + 1)
InARow(st, q) ==
  \A i \in 1 .. Len(q) : q[i].t = IF Expected(st, q, i) = "size" THEN "req" ELSE Expected(st, q, i)

\* What the client sends next.
Owes ==
  IF op = Idle \/ op.at = "data" \/ op.k \in {"read", "download"} THEN "cmd"
  ELSE IF op.k = "prefetch" THEN "req" ELSE IF op.k = "close" THEN "nothing" ELSE "data"

\* The client sends whole commands, one after the other; who was refused is served no more.
Serves == slave.st \notin {"end", "bye", "off"}
CommandsInARow ==
  Serves =>
    /\ InARow(slave.st, toSlave)
    /\ up => Comes(slave.st, toSlave) = Owes
    /\ \A i \in 1 .. Len(toClient) : toClient[i].t = "consent" => toClient[i].ok

\* What the call of the client has to go by.
CallInRange ==
  /\ h.open => h.rpos <= h.size /\ h.size <= Len(view)
  /\ op.k \in {"read", "prefetch"} => 0 <= op.n /\ op.n <= h.size - h.rpos
  /\ op.k = "prefetch" => op.n <= op.ahead /\ op.ahead <= h.size - h.rpos
  /\ op.k = "download" => op.left = IF h.size > Len(local) THEN h.size - Len(local) ELSE 0

\* The file with the write that is not done yet.
Settled == IF Pending THEN Written(file[h.file], toSlave[1].off, toSlave[2].d) ELSE file[h.file]

ViewTrue == IF h.wr THEN view = Settled ELSE IsPrefix(view, file[h.file])

LocalTrue ==
  ~mixed =>
    /\ IsPrefix(local, file[h.file]) /\ (h.open => IsPrefix(local, view))
    /\ Pending => toSlave[1].off >= Len(local)

\* The two streams.  The slave has not seen the call yet, and may have the end of the one before
\* to do; it has seen it; it has answered it; it serves no more.
Yes == [t |-> "consent", ok |-> TRUE]
No == [t |-> "consent", ok |-> FALSE]
CommandOf == IF op.k = "prefetch" THEN "read" ELSE op.k
Parameters ==
  CASE op.k = "read" -> <<Req(h.rpos, op.n)>>
    [] op.k = "prefetch" -> IF op.at = "data" THEN <<Req(h.rpos, op.ahead)>> ELSE <<>>
    [] op.k = "write" -> <<Req(h.wpos, Len(op.d))>>
    [] op.k = "upload" -> <<Req(0, Len(op.d))>>
    [] op.k = "download" -> <<Req(Len(local), 0)>>
    [] OTHER -> <<>>
Asked == IF op = Idle THEN <<>> ELSE <<Cmd(CommandOf)>> \o Parameters
Told == IF op.at = "consent" THEN <<Yes>> ELSE <<>>
DataOf ==
  CASE op.k = "read" -> <<Block(Piece(view, h.rpos, op.n))>>
    [] op.k = "prefetch" -> <<Block(Piece(view, h.rpos, op.ahead))>>
    [] OTHER -> Blocks(SubSeq(view, Len(local) + 1, Len(view)))

NotSeen ==
  /\ op = Idle \/ op.at = "consent"
  /\ toClient = <<>>
  /\ \/ slave.st = "cmd" /\ toSlave = Asked
     \/ Pending /\ SubSeq(toSlave, 3, Len(toSlave)) = Asked
     \/ slave.st = "download" /\ toSlave # <<>> /\ Tail(toSlave) = Asked /\ Head(toSlave).off >= h.size
Seen ==
  /\ op # Idle /\ op.k # "close"
  /\ slave.st = CommandOf /\ toSlave = Parameters /\ toClient = Told
Answered ==
  /\ op.k \in {"read", "prefetch", "download"} /\ (op.k = "prefetch" => op.at = "data")
  /\ op.k = "download" => h.size = Len(view)
  /\ slave.st = "cmd" /\ toSlave = <<>> /\ toClient = Told \o DataOf
Over ==
  /\ ~Serves
  /\ toClient \in {<<>>, <<No>>, <<Yes>>, <<No, Yes>>}
  /\ toClient \in {<<Yes>>, <<No, Yes>>} => slave.st = "off"
  /\ toClient \in {<<No>>, <<No, Yes>>} => op # Idle /\ op.k # "close"
  /\ op # Idle /\ op.at = "data" => slave.st = "off" /\ toClient = <<>>

InStep ==
  /\ CallInRange /\ LocalTrue /\ SlaveReadsTrue /\ DownloadWhole
  /\ ~up => toSlave = <<>>
  /\ up => (NotSeen \/ Seen \/ Answered \/ Over) /\ (Serves => ViewTrue)

ClientInv == TypeOK /\ OneFile /\ SizesKnown /\ CommandsInARow /\ LateHeld /\ FoundThere /\ (~skew => InStep)
=============================================================================
