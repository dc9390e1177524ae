# Sector/Sphere: a verification development

Sector is a distributed file system with a master (or a few), many slaves that
store whole files, a security server and clients; Sphere runs user code on the
slaves, next to the data.  All of them talk over GMP, a messaging layer of the
project, and over UDT, a transport that comes with it.  This directory holds TLA+
modules of these parts, the TLC configurations that check them on small
instances, and proofs that TLAPS checks for every instance.

    tlc -config ft_safety.cfg MCFileTransactions.tla     check one run (section 4)
    tlapm GMPProofs.tla                                  check the proofs of a module (section 5)

## 1. Inventory

### Components

| Part | Source | State | Operations | What makes it correct |
|---|---|---|---|---|
| Metadata of files | `common/index.cpp`, `common/meta.cpp` | tree of `SNode` (size, time, locations); lock sets per path | create, remove, move, update, utime, lookup, merge, substract; lock, unlock | the recorded locations hold the recorded version; a lock excludes what it should; nobody's lock is lost or kept for ever |
| Transactions | `master/transaction.cpp` | id -> file, user, mode, slaves at work | create, addSlave, retrieve, updateSlave | every id is unique; a transaction is listed exactly while a slave works on it |
| Master request handlers | `master/master.cpp` (`process`, `processEx`, `processSysCmd`, `processFSCmd`, `processDCCmd`, `processMCmd`, `processSyncCmd`) | a job queue and four worker threads; no state of their own between requests | reports (1), log out (2), file system commands (101-112), Sphere (201-208), masters (1001-1003), sync (1100-1107) | handlers hold a lock for one call at a time, so their calls interleave |
| Replication | `master/master.cpp` (`replica`, `createReplica`), `Slave::copy` | queue of files to replicate, set of files being replicated | scan for too few copies, create a copy, record it | no file is stuck; only faithful copies are recorded |
| Slave management | `master/slavemgmt.cpp`, `common/topology.cpp` | list of slaves, of bad ones, statistics, clusters | insert, remove, choose nodes, vote | a chosen node is a live one; the lock is released once |
| Probe loop and users | `master/master.cpp` (`run`), `master/user.cpp` | users, last refresh, retry counters | probe masters, slaves, users; drop the lost | a lost slave's files leave the metadata; a user in use is not deleted |
| Masters, routing | `common/routing.cpp` | ring of masters | join, leave, route, sync | all masters agree; every path has one responsible master |
| Slave file service | `slave/serv_file.cpp`, `slave/slave.cpp` | one thread per open file; local files | open, read, write, upload, download, close, report | copies of a file stay equal; the report tells the master what changed |
| Sphere | `client/dcclient.cpp`, `slave/serv_spe.cpp` | segments, SPEs, buckets, results | prepare, start, assign, collect, retry | each segment is processed once; a lost SPE is replaced |
| Data channel | `common/datachn.cpp` | one connection per peer, a queue per session | connect, send, recv, sendfile, recvfile, remove | each session sees its own data in order |
| GMP | `gmp/*.cpp` | send queue, receive queue, responses, peer history | sendto, recvfrom, rpc, retransmit | a message is delivered, once |
| Client library | `client/client.cpp`, `clientmgmt.cpp`, `fsclient.cpp`, `fscache.cpp` | the masters it is logged in at, their routing table, open files, two caches | login, requests, keep-alive, logout; open, read, write, seek, upload, download, close | what comes from a slave is what was asked for; a client that is alive is served |
| Security server | `security/*.cpp` | users, access lists, the next key | authorise masters, slaves, users | keys are unique |
| UDT | `udt/*.cpp` | sockets, their buffers, loss lists and timers, the queues of a multiplexer | connect, listen, accept, send, recv, sendmsg, recvmsg, close | a connection is a reliable stream; messages are whole and come once; two ends agree that they are connected |
| FUSE | `fuse/sectorfs.cpp` | the trackers of open files | open, create, read, write, release, rename | the handle that a thread uses is open and its file's |
| Tools, examples, configuration | `tools`, `examples`, `common/conf.cpp` | none shared | wrappers of the client library | |

### How the parts interact

A client sends GMP messages to the master.  `Master::process` takes each one,
finds the `User`, and pushes a job; four `processEx` workers pop jobs and run
the handler.  To open a file the handler looks it up, takes the lock, creates a
transaction and starts a `fileHandler` on each slave of a chain by RPC.  The
client then talks to the last slave of the chain over the data channel; each
slave passes the data it has written on to the slave before it.  At the end
each slave sends the master a report (message 1), from which the master updates
the entry, releases the lock and retires the slave from the transaction.

### What is hard

* the calls of one handler are separate critical sections: two opens, or an
  open, a report and a delete, interleave between lookup, lock and transaction, and
  what was looked up may be old when the lock is granted;
* a chain fails in the middle: an RPC fails and is not rolled back, a slave
  cannot connect, a channel breaks and the slaves behind it hear nothing;
* reports come in any order, late, or never; the first one unlocks;
* a transaction is erased and brought back, blank, by `operator[]`;
* messages are resent; answers come after the timeout; masters miss a sync;
* threads share lists without a lock (`m_sstrOnReplicate`, `m_vSlaveList`);
* two ends of a session keep their own idea of sizes, offsets and of the command
  they are in, and a connection may break between any two blocks;
* masters and slaves join, die and come back while others join, and each learns
  of it by other messages;
* an SPE may be lost before, while or after it has told of its result, which
  goes another way than the message about it;
* threads end without a word (an SPE that cannot open its library), and whoever
  waits for them is told nothing;
* packets are lost, sent again and reordered; numbers wrap; the last packet has
  none behind it that would show its loss; the peer may be gone or only slow.

The ones that matter most are listed with their lines in `PROJECT.json`; the others
are in the list at the end of section 4.

## 2. Plan

| Module | Contents | Status |
|---|---|---|
| `FileMeta` | entries, lock sets, choice of nodes as operators | done, lemmas proved |
| `FileTransactions` | open, report, delete, chains of file handlers | done; types and lock ownership proved, the safety of files with one copy, and the order in which a chain closes |
| `Replication` | replica thread and queue, copy thread, reports, copies on demand | done; its safety proved |
| `SessionFIFO`, `DataChannel` | what a channel promises; `send`, `recv`, `recvfile` on a shared connection, which implement it | done; refinement proved for sessions that only use `recv` |
| `Namespace` | the tree of the master, the requests that change it, the disks of the slaves, a slave that joins | done, model-checked |
| `FileClient` | a handle of a client, its caches, its session with a slave | done; its safety proved |
| `FuseFiles` | the open files of FUSE | done; its safety proved |
| `Cluster` | masters and slaves that join, are probed and are lost | done; its safety proved for two masters |
| `Sessions` | logins, keys, keep-alives, requests to the responsible master | done; `KeptAlive` proved, the rest model-checked |
| `RemoteCalls`, `GMP` | what an rpc promises; the three threads of GMP, which implement it | done; its safety and the refinement proved |
| `SphereJob`, `Sphere` | what a job promises; client, SPEs and shufflers, which implement it | done; its safety and the refinement proved |
| `ReliableStream`, `UDTTransfer` | what a connection promises; buffers, acknowledgements, timers and close of UDT, which implement it | done; its safety and the refinement proved |
| `UDTMessages`, `UDTConnection`, `UDTRendezvous` | messages; connecting to a listener, and to each other | done; their safety proved |
| `Chains`, `MessageStream`, `UDTSetup`, `Logins`, `SharedHandles`, `OpenFiles`, `Channels` | promises of parts, for runs and proofs to share | done |
| `UDTSeqNo`, `UDTSndLossList`, `UDTRcvLossList`, `UDTSndUList` | arithmetic of the numbers; the arrays behind the loss lists and the send queue | done, model-checked |

Left for later: `connect` and `remove` of the data channel; the sync of metadata
between masters.

## 3. Modules

A module models one component; `MC...` modules put instances of several of them
side by side for TLC, with a variable `part` (or `world`) that says which of them
a behaviour is about.  The parts share nothing and do not step together, so a run
checks each of them as if it were alone.

Seven small modules state what a part promises, so that the run that checks it and the
theorem that proves it speak of the same definition.  `Chains` (of `FileTransactions`) and
`MessageStream` (of `UDTMessages`) hold a promise and the variable that it is about, and
the module of the part extends them.  `UDTSetup`, `Logins`, `SharedHandles`, `OpenFiles`
and `Channels` instantiate the modules `UDTConnection` and `UDTRendezvous`, `Sessions`,
`FuseFiles`, `FileClient` and `DataChannel` under names that are free of clashes with the
modules they are put beside (`FusePaths`, `MaxUserKey`, `known`, `opened` for `h`, `line` for
`wire`), and state the promise of the instance.

### FileMeta

Pure operators on the metadata of one file: `Created`, `Updated` (all the cases
of `Index::update`), `Locked`, `UnlockedBy`, and `chooseIONode` as the set of
chains it may return (the nearest node, or a random one, is any member).  The
pair (size, modification time), which the code always compares as a pair, is a
stamp; stamp 0 is the pair that `create` writes.  Directories are left out: a
file is a path.

### FileTransactions

| Variable | Code |
|---|---|
| `meta` | `Index::m_mDirectory` |
| `locks` | `Metadata::m_mLock` |
| `trans`, `nextTrans` | `TransManager::m_mTransList`, `m_iTransID` |
| `pc`, `job` | the locals of each `processEx` worker |
| `handler` | the `fileHandler` thread of each slave of each transaction |
| `disk` | the files of each slave |
| `reports`, `deletions` | messages 1 and 105 in flight |

Each call that a handler makes under a lock of its own is an action, so the
handler of open is the chain `OpenNew`/`OpenExisting`, `Create`, `LockNew`/`Lock`
/`LockBusy`, `Begin`, then `Rpc` (or `RpcFails`) and `AddSlave` for each slave.
A report is `ReportRetrieve`, `ReportUpdate`, `ReportUnlock`, `ReportRetire`;
`ReportUnknown` is one that finds no transaction.  Delete is `DeleteLookup`,
`DeleteRemove` and, on the slave, `DeleteLocal`.

A file handler is `started`, `serving` once the channel to its source is up
(`Connect`), `closing` while it waits for the next slave's answer to command 5,
`stopped` when its loop is over, `reporting` while its report is unanswered, and
`done`.  `fwd` is set between taking new data and having passed it on.

Abstractions: reads change nothing and are left out here (`FileClient` has them); permissions are granted;
every slave has room for a new file; one master, so no sync; the types of Sphere
transactions are left out; connections are made or fail as a whole.

`Faults` names what may fail: `rpc` (the RPC that starts a handler), `connect`
(the handler's connection), `channel` (an established connection), `report`
(the report finds no master).

### Replication

| Variable | Code |
|---|---|
| `meta`, `trans`, `nextTrans` | as above; `trans` has the transactions of copies only |
| `queue`, `onReplicate` | `Master::m_vstrToBeReplicated`, `m_sstrOnReplicate` |
| `replica` | the replica thread: where it is in `replica` and `createReplica`, and their locals |
| `copier` | the copy thread of each transaction (`Slave::copy`), the transaction of its read, and where the master is with its report |
| `disk`, `local` | the files of each slave, and those its own index (`m_pLocalFile`) lists |
| `writer` | clients that write |
| `clock` | modification times |

The replica thread is asleep in `pthread_cond_wait`, awake but not yet holding
`m_ReplicaLock`, or scanning the queue with the lock held (`Skip`,
`CannotReplicate`, `createReplica`, `Rpc`, `AddSlave`, `Insert`, `CopyIndex`).
`CheckReplicas` is the end of a round of the main loop, `CopyRequest` the
handler of command 106.  The copy thread is `CopyLocal` (cp) or `CopyOpen` and
`Fetch`, then `SendReport`, then `Answered` or `ReportFails`; the master's side
of the report is `ReportUpdate`, `ReportErase`, `ReportRetire`, each under a
lock of its own, none of them under `m_ReplicaLock`.

Abstractions.  All versions of a file have the same size, so that a stamp is a
modification time.  A copy on a disk has its real version (`data`) and the time
its slave sees (`time`): `utime()` after a copy sets the one and not the other.
A time is a whole second, so two modifications may have one stamp (the fault `second`);
`again` tells the later one from the first.
Lookup, choice of a node and creation of the transaction are one step; so are
receiving a file and moving it into place.  A report signals the thread under
the lock, which it may have to wait for; the main loop's signal at a later time
covers that.  A client that writes opens, writes and closes in one step each
(`FileTransactions` has the detail); it may delete in one step.  A file that a
slave lists and the master never recorded (`Leftovers`) does arise, from the
real-time replicas of section 4.  The per-directory settings of `replica.conf` and
lost slaves are left out.

`RecordedReplicasFaithful` is conditional on purpose: a replica recorded while a
client has the file open for writing misses what is written later, and is then
copied on like any other; and a file that was modified twice in a second has versions that
the stamp does not tell apart (`ReplicasAlike`, section 4).  The liveness of `live` is with three slaves because what
an early report leaves behind takes a place under the throttle: with three slaves
and two files there is room for it, with two there is not (`rep_stuck`).

### SessionFIFO and DataChannel

`SessionFIFO` is the abstract specification: each session receives its own
blocks in the order sent.  `DataChannel` is the code, and `SessionsAreFIFO` says
that it implements the abstract one (`sent` and `got` are kept by both, so the
refinement mapping is the identity on them).

| Variable | Code |
|---|---|
| `toSelf` | `m_pTrans` is NULL: the channel of a node to itself, whose blocks go to the queue directly |
| `wire`, `connected` | `ChnInfo::m_pTrans` |
| `queue` | `m_vDataQueue` |
| `rcvLock` | `m_RcvLock`, taken by trylock |
| `pc`, `call`, `hand` | the thread of each session in `recv` or `recvfile`, and the block it has read for another |
| `sent`, `got` | the data handed to `send` and returned by `recv` |

A block (session, size, data) is written under the send lock and read by the
holder of the receive lock, so it travels as a whole.  `FileSessions` may call
`recvfile` too, and `Breaks` lets the connection be lost.  Encryption and
the content of blocks are left out; so are `connect` and `remove`: the channel
exists throughout.

### Namespace

| Variable | Code |
|---|---|
| `tree` | `Index::m_mDirectory`: a directory, or a stamp and locations, for each path |
| `joined` | the slaves of `SlaveManager` |
| `disk`, `attic` | the files under a slave's home directory, and those under `.attic` |
| `msgs` | commands to slaves (103, 104, 105, 107) on their way; in no order |

`Mkdir`, `Move`, `Delete` and `Utime` are the cases of `Master::processFSCmd` with
what they do to the tree and whom they tell; `SlaveDoes` is the same command on the
slave.  `Upload` is the report of a new file.  `SlaveLost` is `substract` of all that
the slave had, and `Join` is `Slave::connect` and the master's side of it: the scan
of the disk, its serialised form and the reading of it (`Lines`, `Deserialized`,
which has the depth of a path in place of its indentation), `merge` into the tree,
and the move of what conflicts to the attic.

Abstractions: size and time are a stamp; the special directories that a slave keeps
for itself are not in the scan; one master.

### FileClient

| Variable | Code |
|---|---|
| `h`, `op` | the `FSClient` and the call that it is in |
| `toSlave`, `toClient`, `up` | the session's blocks on the data channel, and whether the connection works |
| `slave` | the `fileHandler` of the session |
| `file`, `known` | the file on the slave, and the size in the master's entry |
| `cache`, `stats` | `ReadCache`, `StatCache` |
| `ending` | handlers of sessions that broke, which have still to report |
| `late` | blocks of writes that broke, which the thread of the slave has and may still store, whole or in part |
| `found` | the open that the master handles, with the size that it has looked up |

To open is a look-up (`LookUp`) and, in a step of its own, the lock and the answer with
what was looked up (`Open`; `Refused` when the lock is taken): another writer may report
in between.  A call is a sequence of steps: it sends the command and its parameters (`Read`,
`Write`, `Download`, `Upload`), waits for consent (`Consent`) and for data
(`Received`, `DownloadEmpty`), or fails (`NotReceived`); the slave takes a command
(`SlaveCommand`), sends or stores (`SlaveSends`, `SlaveStores`), leaves its loop
when it does not get what it waits for (`SlaveNotReceived`), and reports
(`SlaveReports`); when the connection breaks in a write, it may store what it has
(`StoresLate`) until it reports.  What is left on the stream is taken by whoever reads next, for
what that one expects (`AsConsent`, `AsData`): this is how the code goes wrong when
the two are out of step.  Another client appends, under the master's lock.

Abstractions: a file is a sequence of units, each with the number of the write that
it is from; blocks arrive in order and whole (`DataChannel`); the file has one copy;
time does not evict cached blocks.

`SlaveReadsTrue` and `StreamsInStep` leave out a session in which a file grew between
its opening and a download: the client then stops reading too early, and a block
stays on the stream (`skew`).  They also leave out one that read the file while a slave's
thread still changed what was opened.  `WithinTheFile` leaves it out too, and so does `DownloadWhole` for what such a session
has left in the local file (`mixed`).

### FuseFiles

`tracker` is `m_mOpenFileList`, `handle` the `SectorFile` objects, `at` what each
process is doing.  `LookUp`, `Seek` and `Transfer` are the three parts of `read` and
`write`: the look under `m_OpenFileLock`, then two calls on the handle without it.
A handle knows a size (what the master told, and its own writes); to seek beyond it for a
read fails, which `read` does not look at (`past`).
`Create` opens and closes a handle of its own before `OpenMade` opens again.  A
rename of an open file sets `moved`, at which `MCSphere` stops: what follows is
in section 4.

### Cluster

| Variable | Code |
|---|---|
| `key`, `nextKey` | `m_iRouterKey` of each master; the keys given out by the security server |
| `routing` | `m_Routing` of masters and slaves |
| `slaves`, `retry` | `SlaveManager::m_mSlaveList` by storage path, `m_iRetryNum` |
| `joins` | joins of masters between the hand-over of the lists and the announcement |
| `slave`, `todo`, `inbox` | where `Slave::connect` is, the masters it has still to join, messages to it |
| `unreached` | the slaves that have missed a message of a master (at most `MaxUnreached`) |

The join of a slave at a master has the steps `Connect` (duplicates), `InsertSlave`
and `ListMasters`, as four threads serve joins at a time; that of a master has
`JoinMaster` and `Announce`: the list of masters to tell is copied with the hand-over, before
the lists are sent (`told`), and who does not answer is left out.  A message to the slaves (`Tell`)
may miss any of them that runs, and nobody looks at it.  A slave takes messages from masters of
its list only (`Known`).  `ProbeMaster` and `ProbeSlaves` are the round of
`Master::run`; a probe of slaves counts failures as the code does: `multi_rpc` is
handed answers that are not NULL, and so counts none.

Abstractions: the first master does not die; the hand-over of the lists comes to the
master that joins; messages to a slave that arrive do so in order; what slaves do with files is elsewhere.

### Sessions

`users` is `UserManager` of each master, `iKey`, `logged` and `routing` the client's
`m_iKey`, `m_sMasters` and `m_Routing`, `seed` the unlocked `m_iKeySeed`.  A login is
`StartLogin`, `ReadSeed` and `LogIn` (or `LogInToo` at a further master), after which
the master inserts the user (`Insert`): the client may be faster.  A `Request` goes
to the master that the client's table makes responsible: the tables are sorted by key, so
the `Place` of a master is the number of those before it, and the hash of the path picks
a place (`Responsible`).  Time is counted in the
periods of the keep-alive thread (ten minutes), of which a user may miss two.

`KeptAlive` leaves out keys given twice and clients of which so many keep-alives in
a row were lost that the master was right to drop them; `ServedAgain` leaves out
clients that have not heard of a master that joined.

### SphereJob and Sphere

`SphereJob`: every segment comes to at most one end, that the program reads at most
once.  `Sphere` has the client's thread (`client.pc` says where in `run` and
`checkSPE` it is), its segments and SPEs (`seg`, `spe`), the thread of each SPE on
its slave (`proc`), data channels (`conn`), results and messages under way
(`result`, `msgs`), shufflers and the transactions that the master lists.  `job` says
what is asked for and is chosen at the start: output goes to the client or to buckets
(`kind`); an SPE may be given any segment, or, when the data may not move (`m_bDataMove`), those
that its slave has (`near`); and the result of a segment comes to the buckets in parts, when
the SPE's buffer is full or the segment is over (`parts`).

The thread of an SPE begins with what it needs to work (`start`): it reads parameters
and opens the library (`Begins`), or gives up and ends without a word, with its channel
left open (`EndsEarly`), while the client has handed it a segment.  Without a channel
the client still takes it for connected (`NoChannel`).  A connection that breaks is noticed
where the code looks at it, which is while a segment is running and not between two
segments.  `JobEnds` therefore has a second case: the client waits for an SPE whose channel
is lost between two segments (`Stranded`), or that has ended and kept its channel (`Silent`).

Abstractions: the cutting of the input into segments, the progress inside a segment
but for the parts, the user's function (it may fail), and what is in a result; which of the
segments that an SPE may have it gets is open; a segment is lost as
often as `MaxRetry` says before it is given up (3 in the code, less here).

### RemoteCalls and GMP

`RemoteCalls`: a request is handled at most once while its server runs, and an
answer is that request's.  In `GMP`, `sndQueue`, `rcvQueue`, `resQueue`, `history` are
the queues and the peer history of each node, `pushing` the messages that `UDPsend` has sent
but not queued yet, `net` the packets.  A `Tick` is a second, in which each `sndHandler`
runs once.  Messages that are too long for UDP go over UDT.  Servers may be started
again, with a new session number and message numbers from 1.

`Delays = FALSE` says that no packet is under way for longer than a second and no
thread stays in `UDPsend` for so long; with `Delays = TRUE` a repeated request
outlives the history and is handled twice.

### UDT

`ReliableStream`: what is received is a beginning of what was sent; an end hears of
the other's end.  `UDTTransfer` is one direction of a connection: `snd` and `rcv` hold
the fields of `CUDT`, its buffers and loss lists (as sets), `net` the packets (data,
acknowledgement, light acknowledgement, ACK2, NAK, keep-alive, shutdown).  The
threads of the multiplexer are `PackData` and `Process`, the timers of `checkTimers`
are `AckTimer`, `LightAck`, `NakTimer`, `SndExp`, `RcvExp`.  `MaxEarly` bounds how often a
timer runs out while packets are still on their way.  A close lingers until all is acknowledged (`closed`) or for
three minutes (`cut`), which may be over at any time.  Rates and congestion windows
only decide when a packet may be sent, and are left out; so are the pairs of packets
that measure bandwidth.  The receiver's buffer is a unit for each number (`NoUnits`),
since the place of a packet in `CRcvBuffer` is its distance from the last acknowledged
one.  `place` is where a number stands in the stream, and the properties are stated with
it, so that they do not speak of the circle.

`UDTMessages` has the same in message mode, with the circular buffer of the
receiver in its real places, since messages may be read out of order and leave holes; what it promises is
`MessageStream`.
`UDTConnection` has a listener with its cookie, `newConnection`, `accept` and the
collector; `UDTRendezvous` the handshake by which the data channels are opened, when
neither side listens.  `UDTSndLossList` and `UDTRcvLossList` are the linked lists in
arrays, with the ranges joined and cut as `list.cpp` does; each is compared with the
set that it is to hold.  The loop that removes a range that ends at the last number never ends
(`Endless`), and then the receiver takes nothing more (`hung`).  `UDTSndUList` is the heap of sockets.  `UDTSeqNo` is the
arithmetic on the circle of numbers, with its size as a constant (2^31 in the code).

## 4. Runs

| Run | Parts and bounds | Shows |
|---|---|---|
| `ft_safety` | 2 users, 2 workers; `single`: a file with one copy, 3 transactions, broken connections; `chain`: 2 slaves, 2 transactions, connections that cannot be made and lost reports; `broken`: the same with broken connections, 1 transaction; `lifecycle`: a file that is created and deleted, failing calls and reports | of `single` `IInv`, `LockHasOwner`, `OneCopySafe` (with `OneCopyInv`, which makes it inductive); of the others `IInv`, and of `chain` `ChainInv`, which makes `ChainClosedTailFirst` inductive (`FailuresHandled`) |
| `fs_safety` | `writes`: 3 slaves, a file that is written, perhaps twice in a second, and replicated, 2 copies made; `replicas`: 2 slaves, 2 files with index files, copies of a file and of a directory, a copy the master does not know, deletes, all faults; `names`: 2 slaves, paths over 2 names, 3 requests, a slave lost; `client`: 2 files, 3 calls, one break | of `writes` `CopyInv`, `NoDoubleReplication`, `AFaithfulCopyRemains`, `RecordedReplicasFaithful`; of `replicas` `ReportsAnswered`; `JoinAccountsForAll`; of `client` `SlaveSendsTrue` (with `ClientInv`, which makes it inductive) and `WriterFindsTheSize` |
| `live` | `channel`: 2 sessions that use `recv`, 2 blocks each, a connection that may break or the local channel; `files`: a chain of 2, one client, no faults; `chain`: the same with connections that cannot be made and lost reports; `replicas`: 3 slaves, 2 files, no faults | `ChannelInv` (inductive), `ChainClosedTailFirst`, `SessionsAreFIFO`, `AllReceived`, `FilesReleased`, `ReplicasMade` |
| `messaging` | `calls`: a thread that calls one or two servers, with short and long messages, and in the calls to one server it may crash; `transfer`: 2 pieces of data over the wrap of 8 numbers, a packet lost, an early timer; `messages`: 3 messages, a buffer of 4; `connect`: a client that connects twice, a backlog of 1; `rendezvous`; the loss lists with 16 numbers; a heap of 4 | `GMPInv` (the inductive invariant of the calls), `WholeMessagesOnce`, `EndsAgree` (with `ConnectionInv` and `RendezvousInv`), `ArraysHold` (with `MessagesInv`; the three are inductive), `ImplementsRemoteCalls`, `AckedWasReceived`, `NoneGivenUp` |
| `udt_live` | `transfer` with 2 pieces of data over the wrap of 8 numbers and a packet lost, `messages`, `rendezvous`, each under its fairness | `BuffersInStep` (inductive), `ImplementsReliableStream`, `AllDelivered`, `GoneNoticed`, `Meet` |
| `masters` | `members`: 2 masters, 2 slaves, one of each may die and come back; `losses`: one slave, which messages may miss; `logins`: a client, a master and one that joins | `ClusterInv` (inductive), `SlavesObeyMasters`, `OnlyLostMastersDropped`, `DeadForgotten`, `KeptAlive` (with `SessionsInv`, which makes it inductive), `ClientsComeAndGo` (`SessionsEnd` and `ServedAgain`) |
| `sp_job` | `job`: 2 SPEs, 2 segments, one retry, fairness, and results to the client with any segment anywhere and 2 faults, to the client with a slave that has one segment and 1 fault, or to a bucket with results in up to two parts and 1 fault; `fuse`: 2 processes, 2 paths | `JobConsistent`, `ImplementsSphereJob`, `JobEnds`; `HandlesShared` (with `FuseInv`, which makes it inductive) |
| `ft_writers` | a chain of 2, 2 users, broken connections | `OneWriter` fails: a finding |
| `rep_stuck` | 2 slaves, 2 files, no faults, fairness | `ReplicasMade` fails: a finding |
| `rep_refused` | 2 slaves, one file, written meanwhile | `RefusedReplicasRemoved` fails: a finding |
| `dc_order` | `recvfile` for one session, 2 blocks each | `SessionsAreFIFO` fails: a finding |
| `cl_lost` | one slave that dies, fairness | `DeadSlavesForgotten` fails: a finding |

A property of a part is stated in the part's module; the `MC` module restricts it
to its part.  A liveness property is stated as `part = ... /\ Fairness => P` there,
so that each part has its own fairness and no other.

Why the bounds are enough.  The races are between two handlers at a time: two
opens, or an open and a report, or a delete and a report; two workers and two
users give each of them, and a third transaction of the file with one copy lets a
lock be taken after an early release.  Broken connections multiply what may happen
in a chain, so `broken` has one transaction, and in `chain`, with two, connections
cannot be made and reports are lost.  A chain of two has a head, a tail and one
link.  `CHECK_DEADLOCK FALSE` is there because what may happen is bounded: when all
transactions, keys, calls or packets are used up the system may stop.

For replication two files compete for the thread, the list and the throttle;
three slaves leave a choice of node, and a file with its index file is the one
case in which one task makes two transactions.  For the data channel two sessions
let one thread hold a block of the other while that one looks for it.  In the name
space two names give a file in the place of a directory and the other way round, at
two depths, and three requests build and change a tree before a slave joins.  A
handle needs three calls to open, write and close, with a break between any two
steps and another client's open between the look-up and the lock, or to open, prefetch and
read from the cache.  Two masters are a first one and
one that joins, and with a third the promises do not hold; a second slave
joins while the first is told.  Lost messages multiply this, so they are in a part of
their own with one slave, which may miss its message whether it is about a new master or
a lost one.  Two SPEs are enough for a segment to be handed from
one to another, and two segments for an SPE to have a second one.  A restriction of one SPE to one
segment has it skipped while another segment waits, and two parts have an SPE lost between
them.

For UDT the size of the circle is what matters, and it is small on purpose: data,
acknowledgements and losses lie on both sides of the wrap.  A buffer of the receiver
with 3 places, of which one stays empty, is full with two packets.  A lost packet is the
last one, or one before it, and the timer may run out before what is on its way has
come.  In the loss lists up to 8 numbers are lost, reported in any overlapping
ranges and found in any order.

Two constraints of `MCMessaging` keep apart what is independent: a server
crashes in the calls to it alone (`CrashesAlone`), and two handshakes of one socket
are under way in the first try to connect only (`FewRepeated`).

The other constants: `Stamps` bounds the clock, `MaxTrans` the transactions,
`MaxBlocks` the blocks, `MaxOps` calls or requests, `MaxBreaks`, `MaxFaults`,
`MaxDeaths`, `MaxLoss`, `MaxLost`, `MaxUnreached` and the `faults` of a job the failures, `MaxNet` the packets on their way at a time, `MaxKey`
the keys given out, `MaxId` and `MaxSession` the messages and lives of a node.

### Fairness

Threads are scheduled, so what a thread can do next it does: weak fairness of each
worker, handler, timer and thread.  Where more is assumed:

* files: the job queue is first in, first out, so a report is taken in
  its turn whatever else arrives (strong fairness of taking it); a client that has
  a file open closes it in the end (strong fairness of `Close`, since its writes
  disable it now and then).  Nothing is assumed of faults, and the part has none:
  with them transactions do leak;
* replication: the main loop comes round, and clients close what they have opened;
* the data channel: every thread calls again after each call, as the loops of the
  file handlers and of Sphere do;
* Sphere: threads go on, that of an SPE which starts included (it begins or ends); the
  client's queue of messages is served in its order (strong fairness of
  taking one), and the program goes on reading;
* logins: a client goes on asking (strong fairness of a request that cannot be made
  while a login is going on); keep-alives may or may not arrive;
* UDT: a packet that is sent again and again comes; each kind of packet that is on
  its way comes or is lost; a timer that is set again and again runs out in the end
  (strong fairness of `AckTimer`, `SndExp`, `RcvExp`); the program reads.  A linger may
  be over at any time: `AllDelivered` leaves out a sender that was `cut`.

### What does not hold

Five runs end in a violation; `findings` in `PROJECT.json` quotes what the code's
documents and comments say.  The write lock does not keep a second writer out when
a chain breaks (`ft_writers`), although it does on a file with a single copy.
Replication stops for good when reports overtake the replica thread (`rep_stuck`), a
refused replica stays on its slave (`rep_refused`), sessions that use `recvfile`
can see data out of order (`dc_order`), and a slave that died is never found to be
lost (`cl_lost`).

The same models show more.  These properties are stated in the modules, and TLC
finds each of them violated when it is added to a configuration of the module:

| Property | What happens |
|---|---|
| `FileClient.WriterToldTheSize` | a client that opens a file for writing is told what the look-up found (`master.cpp:1702`, answered at 1805), although the writer before may report until the lock is granted (1738); it then appends over what that one wrote |
| `Replication.ReplicasAlike` | a replica of a version that was modified again in the same second is recorded beside copies of the later one, since a stamp is a whole second (`index.cpp:835`) |
| `Cluster.AllSlavesObeyMasters` | a slave that the announcement of a new master does not reach never hears of it: the outcome of the call is not looked at (`master.cpp:922`), and the slave then drops that master's messages (`slave.cpp:316`) |
| `Sphere.JobAlwaysEnds` | an SPE that cannot open its library ends without a message or a report and leaves its channel up (`serv_spe.cpp:252`), so the client takes its segment for running for ever; so does one that waits for an SPE whose channel broke between two segments |
| `UDTTransfer.EveryCloseLosesNothing` | a close that has lingered for three minutes throws away what is not acknowledged (`core.cpp:840`) |
| `UDTRcvLossList.RemovalsEnd` | the loop over a dropped range that ends at the last number does not end, since its counter is no wider than the numbers (`list.cpp:642`) |
| `FuseFiles.NoReadElsewhere` | a read at an offset beyond the size that the handle knows, which may be old, is made where the read before it ended, since the seek that failed is not looked at (`sectorfs.cpp:252`, `fsclient.cpp:415`) |
| `FileClient.ReadsTrue` | a read that the cache or the local disk answers does not have what the handle has written; the cache also takes a block that begins after the offset for a hit (`fscache.cpp:162`), and a handle that opens another file still reads the local disk (`fsclient.cpp:150`) |
| `Namespace.LocationsHold` | commands to slaves that change their order leave locations without a file |
| `Cluster.OnlyLostMastersDropped`, `SlavesObeyMasters` with three masters | the third to join gives every master of the list it is handed the address of the one that it asks (`master.cpp:266`), so its probe of the other one fails, and it drops one that runs and tells the slaves |
| `Sessions.KeysUnique` | two threads of the security server draw the same key (`security.cpp:186`) |
| `Sessions.ServedAfterJoin` | a client whose list of masters is old is refused for ever by the master that it asks |
| `Sphere.EndsWithResultOrFailure` | an SPE whose function failed reports that it is done (`serv_spe.cpp:449`), and so the result is one that has no data |
| `UDTConnection.ServerSurvives` | a queued socket that breaks after its listener was closed is looked up when the listener is destroyed (`api.cpp:1148`) |
| `UDTMessages.OnlyExpiredDropped` (of `SpecTTL`) | a drop request covers one number too many (`core.cpp:2001`) |
| `UDTSndUList.FirstIsEarliest` | a socket that takes the place of one that is removed only sinks, so the first may not be the earliest |

And these follow from changes of constants or are seen in the code beside what is
modelled:

* a reader is let in beside a writer (`meta.cpp:61`), and two opens that create a
  file both write it (`master.cpp:1734` ignores the lock's answer);
* the report of a reader brings a deleted file back into the metadata
  (`index.cpp:409`);
* the second replica of a real-time write is not recorded when its stamp is the
  recorded one (`index.cpp:424`), though its slave lists it;
* an open of a file without a location leaves a transaction nobody reports
  (`master.cpp:1749`);
* a file queued while its replica is on the way gets one too many, which stays
  (`master.cpp:464`); an index file is copied along with its file although it is
  being replicated on its own (`master.cpp:2243`);
* `Slave::copy` takes a copy that the master does not know for the original and
  gives it the original's time, after which it is recorded (`serv_file.cpp:384`;
  `Leftovers`);
* a copy of a directory copies none of its files (`master.cpp:1620`);
* in the window of `dc_order` a session can also wait on the connection for ever;
* a directory that is moved into itself is lost with all that is in it
  (`index.cpp:260`), a file may be created under a file, and files of one name
  overwrite each other in the attic (`slave.cpp:245`);
* a file that grew since it was opened leaves a block of its download on the stream,
  and the next call takes it for its answer; what a download puts into the local file then is
  taken for the beginning of the file by the next one that goes on from there;
* `open` does not log in at the master that it asks (`fsclient.cpp:94`), and a login at
  a further master is over for the client (`client.cpp:259`) before the master has inserted
  the user (`master.cpp:789`), so that a request that is faster fails;
* users handed over to a joining master have no refresh time (`user.cpp:144`), so
  they may be dropped at once or never (`Unset` in `Sessions`);
* with `Delays`, GMP handles a request twice;
* a range of losses that is dropped across the wrap keeps the last number
  (`list.cpp:647`), which `ArraysHold` leaves out, as it does what follows a range that ends
  at that number (`RemovalsEnd` above);
* a file of FUSE that is renamed while it is open cannot be used or closed any more,
  and a process that opens the new name opens another handle.

## 5. Proofs

Each theorem holds for all values of the constants that the named assumptions of
the modules allow (sets of slaves are finite and not empty, what stands for "none"
is not a member of the set it stands outside of, and the like), within those that it
states itself.  `PROJECT.json` lists the theorems.

### Files

`FileTransactionsProofs` begins with lemmas on the operators of `FileMeta`: types, which
keys lock and unlock can add or remove, and that `chooseIONode` returns sequences of
slaves.  It proves, from the assumptions named in the two modules
(finitely many slaves, at least one; stamps other than 0; names that are not
members of the sets they stand outside of):

* `TypeCorrect`: `Spec => []TypeOK`;
* `KeysHaveOwners`: `Spec => []LockHasOwner`;
* `OneCopyIsSafe`: if `OneCopy`, then `Spec => []OneCopySafe`;
* `ChainsCloseTailFirst`: if `Unbroken`, then `Spec => []ChainClosedTailFirst`.

`LockHasOwner` is not inductive.  A report releases the lock of the copy of the
transaction that `retrieve` made some steps before, and another report may
erase the transaction meanwhile.  `IInv` adds what the argument needs:

* `IdsInUse`: workers, reports and handlers only use ids that `create` has given
  out, a worker's position in its chain is inside the chain, and a report comes
  from a handler that was started;
* `OwnerCurrent`: the copy still agrees with the transaction, unless that has
  been erased (and perhaps made again, blank, with no file);
* `KeysOwned`: the owner of a key is a transaction that no worker has unlocked
  and is about to retire.

The step that matters is `ReportUnlock`: if the transaction it works on were the
owner of a key that stays, then by `OwnerCurrent` the copy names the same file,
user and mode, and the key would have been erased.

`OneCopySafe` is about files with one copy: a file has one writer at a time
(`OneWriter`), who holds its write lock (`WriterHoldsLock`), and when all work on it is
over, the stamp that the master has is the copy's (`SettledMetaAccurate`).  Its
assumption `OneCopy` names what it needs: every file is held by one slave at the start,
nothing is deleted, and a slave's report comes through.  Rpcs, connections to the client
and channels may fail.  With two copies `OneWriter` does not hold: the first report of
a chain lets the next writer in (`ft_writers`).  The induction needs, beside `IInv`,

* `CopiesStay`: the one copy stays where it is, and an open that is under way goes there;
* `OneHandler`: a transaction has one handler, started once, that passes nothing on, and
  until that has its answer the transaction is listed with its file and mode;
* `OneReport`: a handler has one report, in the queue or with one worker, that tells what
  the handler did, and until the entry is updated the stamp that the copy has;
* `WritersExclude`: from the grant of the lock to its release by the report, a
  writer (an open, then its handler, then its report) is the only one of its file;
* `WritesReported`: a copy whose stamp is not the master's has been written by a handler
  whose report has not reached the entry;
* `Unstarted`: a handler that is not there has nothing to pass on.

`WritersExclude` and `WritesReported` need each other: the stamp in a report stays the
copy's because nobody else writes until the lock is released, and the lock is released
only after the stamp is in the entry.

`ChainClosedTailFirst` is about chains of any length: a slave that has stopped serving, or
reports, passes data to no slave that is still at work, so that the copies are complete
when the first report releases the lock.  `Unbroken` is that no channel breaks, no rpc
fails, nothing is deleted, and who may write may read; slaves that cannot be
reached and reports that are lost are allowed.  The assumptions are needed.  A slave whose
channel to its source breaks stops at once (`ft_writers`); one whose file was deleted, or
is not open for both, leaves its loop at the first command; and after an rpc that failed
the next slave may never have been started, and is not waited for.  `ChainInv` has, beside
`IInv` and that there is nothing to delete,

* `ChainsStarted`: the worker of a chain starts each of its handlers once, the one that
  passes nothing on first, and no two workers start the same transaction;
* `ChainsServe`: a handler that passes data on has its file, open for both, and a next
  slave that was started before it;
* `ChainsClose`: the promise itself, of all transactions.

Lemma `GoOnKeeps` says of the handlers what they may do to each other: `done` is for
ever, and a handler stops only when the one it passes data on to is done.

`ft_safety` checks `IInv` in all its worlds, the parts of `OneCopySafe` in the world
`single`, which meets `OneCopy`, and `ChainInv` in the world `chain`, which meets
`Unbroken`, as does the part `chain` of `live`.

### The data channel

`UDTProofs` proves of `Channels`, for any number of sessions and blocks, with a
connection that may break or the local channel, under the assumption that
`FileSessions = {}` (every session uses `recv`; `dc_order` shows that it is
needed):

* `ChannelInvariant`: `Spec => []ChannelInv`, the `IInv` of `DataChannel`;
* `ChannelImplementsFIFO`: `Spec => SessionsAreFIFO`, the refinement of
  `SessionFIFO`.

A receive is a FIFO receive if the block that it returns is the next one of its
session.  There are two ways to get a block: from the queue, and from the
connection under the receive lock.  `IInv` has a part for each reason why they
give the next one:

* `NothingLost`: what a session has got is a beginning of what was sent to it,
  and what follows is on its way (in the queue, in the hand of the thread that
  has read it, on the connection) without a gap;
* `InOrder`: the blocks of a session lie in order from the queue over that hand
  to the connection, so the first of them in the queue is the next one;
* `LockHeld`: one thread at most is past the lock, so nobody queues a block
  behind the back of the one that reads;
* `ReadsWhatIsNext`: a thread about to read the connection has looked in the
  queue since it took the lock, so its next block, if it was sent, is still on
  the connection.

The step that matters is `ReadOwn` (lemma `ReadOwnStep`): without the second
look in the queue, `ReadsWhatIsNext` fails at the lock.  `recvfile` gives the
lock up before it queues the block in its hand, which breaks `LockHeld`; the
finding of `dc_order` follows.

### A client's file

`FileClientProofs` proves of `OpenFiles`, for any files, sizes, units of a download, calls and
breaks (`ClientAssumption`: there is a file, and a unit is not 0):

* `SlavesSendTrue`: `Spec => []SlaveSendsTrue`, that is `SlaveReadsTrue`, `DownloadWhole`,
  `StreamsInStep`, `WithinTheFile` and `ClientInv`;
* `WritersFindTheSize`: `Spec => WriterFindsTheSize`: whoever is granted the write lock finds the
  file as the master has it, and nothing more will be stored there by a session before.
  What the client is told was looked up before the lock, and may be older (section 4).

The client sends the next command without waiting for the end of the last one, so the two
streams may hold parts of two commands, and nothing on them says which one they belong to.
`ClientInv` says that each end nevertheless knows what comes next:

* `OneFile`: handle and session are of one file in one mode, and what is left of a session that
  broke is never read by the next one;
* `CommandsInARow`: what is on its way to the slave is a sequence of whole commands that goes on
  where the slave is (`Expected` is the kind of a block at its place), and ends where the
  client's call is (`Owes`);
* `SizesKnown`: the master has the size of every file that nobody has a write lock of, so the
  report of a session that broke must come before its lock goes;
* `LateHeld`: what is stored late belongs to a session that has not reported, whose lock is
  therefore still held, and not to the session of the handle.  `WriterFindsTheSize` follows from
  these two;
* `FoundThere`: what an open has looked up is no longer than the file, which only grows;
* `InStep`: the slave has not seen the call (it may still have the end of a write or of an empty
  download to do), has seen it, has answered it, or serves no more (`NotSeen`, `Seen`,
  `Answered`, `Over`); in each case the blocks on both streams are known.  The file is what the
  handle opened, with the writes that it was let to send (`ViewTrue`), and so is the beginning
  of it in the local file (`LocalTrue`).

`InStep` holds while `skew` is false.  The rest holds always, since a session that is out of
step still sends and takes whole commands.  That reads stay true although another client appends
to the file meanwhile rests on `ViewTrue`: a reader's view is a beginning of the file, and a
writer is alone (`SizesKnown`).  The handle counts a write when it has sent it, while the slave may
still have to store it; `Settled` is the file once that is done.

### FUSE

`SphereProofs` also has the theorem of FUSE, where threads of a client's node share what
they have open: `HandlesAreShared` is `Spec => []HandlesShared` of
`FuseFiles`, for any processes, paths and handles (finitely many of the first two,
`FuseAssumption`).  `FuseInv` adds to the three promises, until an open file is renamed,

* `TrackersTrue`: the count at a path is the number of processes that have it open, it is
  not 0, and trackers and open handles are one to one;
* `CallsTrue`: a call between its look and its end has the handle of the path that its
  process opened, and one that counts as alone is the only one of its kind on the handle.

Such a call is made at its offset (`AtItsOffset`), but for a read beyond the size that the handle
knows, where the seek fails.

A count that is right is what makes `Release` safe: the handle is closed by the last
process and by nobody else, so a call of another one still finds it.  Its proof goes
through the cardinality of `Readers` (lemma `ReadersCounted`).

### Replication

`ReplicationProofs` proves, for any files, slaves and copies:

* `InductiveInvariant`, `TypeCorrect`: `Spec => []CopyInv`, and from it `TypeOK`, with all
  faults;
* `ReportsAreAnswered`: `Spec => []ReportsFindTransaction`, with all faults: a report of a
  copy always finds its transaction in the list;
* `NeverReplicatedTwice`: `Spec => []NoDoubleReplication`, if no file has an index
  file and no rpc fails after the slave has done it (`"rpc" \notin Faults`);
* `FaithfulCopyRemains`: `Spec => []AFaithfulCopyRemains`, if moreover no copies are
  asked for (106) and no slave has a file that the master does not know (`OnlyReplicas`);
* `ReplicasRecordedFaithful`: `Spec => RecordedReplicasFaithful`, if moreover no report
  fails (`"report" \notin Faults`).

`CopyInv` ties the replica thread, the copy threads and the transactions to each
other: `ReplicaAtWork` says what the thread's locals are at each place of its code,
and `CopiersAtWork` that a copy thread reports once, after its copy, and that its
transaction is listed from before it starts until the answer.

For `NoDoubleReplication` it takes `Marked`: a file of which a copy is being made is
in `m_sstrOnReplicate`, or the replica thread is about to put it there, while its own
task is of a file that is not.  The mark is made after the rpc, so the report may come
first, and erases what is not there yet.  The proof covers this: the copy is then
over when the mark is set, and the file stays marked for ever (`rep_stuck`), which
costs liveness and not this invariant.

For `AFaithfulCopyRemains` the slaves that had the file at first are enough.
`HolderInv` says that they are recorded, take part in every write, and agree with each
other, and with the master whenever nobody has written since (`Holding`).  They agree
because nobody else touches them: a replica is made on a slave that neither a location
nor an open session counts on (`Apart`), by a transfer and never by a local copy
(`Replicating`).

For `RecordedReplicasFaithful` times have to be followed.  The check of a report is a
comparison of the copy's time with the stamp, and the copy got its time from the order,
not from what was copied: the master's stamp when it made the order, which may be
older than the data, or of the same time as a location that lags.  `DatedInv` says of
every copy that is no location that it is older than the stamp, or faithful, or was made
of a location that was not, or is of a file that was modified again within the second of its
stamp (`Lagging`); that what an open session has written is newer
than the stamp (`Dated`); and that orders and copies are never dated later than their
file and stay in place until their report is handled (`InTime`, which needs `Marked` and
`Apart`).  On the way lemma `DatedStep` shows that stamps never go back, that a file that
was deleted never comes back, and that locations are only given up with the file
(`Advances`).

The assumptions are needed, and TLC shows a counterexample without them.
A report that fails has its copy removed, and the master may handle it nevertheless.
An rpc that fails after it was done leaves a copy thread that the master does not know
of.  It makes another replica, on the same slave, and then lets a client write to that
copy, which the first copy thread replaces, and gives the time of the old version.  A
copy that the master does not know is taken for the original (section 4).  With
index files one task makes two copies, one of which may be of a file that is being
replicated on its own (section 4).

### Sphere

`SphereProofs` proves, for any number of SPEs, segments and shufflers, lost at any
time:

* `JobInvariant`: `Spec => []JobInv`;
* `JobsConsistent`: `Spec => []JobConsistent`: no two SPEs have one segment, and a
  bucket gets the result of a segment once;
* `ClientImplementsJob`: `Spec => ImplementsSphereJob`.

The parts of `JobInv` are about pairs of actors:

* `SegmentsMatched`: a segment that runs has one SPE, and that SPE the segment, so
  that a segment is handed out again only after its SPE was given up;
* `CountersAgree`, `SPEsCounted`: the client's counters are those of its segments and
  SPEs;
* `ShufflersRun`: the shufflers are started before anything else and are told once
  that the job is over;
* `HandedOutOnce`: with buckets a segment is handed out once, so each part of its result
  lies in the queue of a shuffler, in its file, or is still to come from one SPE, which
  delivers the parts in their order.

The actions are of a few kinds (of the client, an SPE, a shuffler), and lemmas say
once of each kind which parts it leaves alone.

The refinement takes the ends of segments as they are (`outcome`) and reads off `seg`
what the program has taken.  A step that ends a segment finds it running, and so, by
`SegmentsMatched`, without an end.

### GMP

`GMPProofs` proves, for any servers, threads, calls and restarts:

* `GMPInvariant`: `Spec => []GMPInv`;
* `AckedMessagesWereReceived`: `Spec => AckedWasReceived`;
* `GMPImplementsRemoteCalls`: `Spec => ImplementsRemoteCalls`, if the caller is not
  started again.

All three assume `TimelyAssumption`: a packet, and a thread in `UDPsend`, take less
than a second (`~Delays`), and the history is kept for as long as a message is sent
again (`GiveUp <= Window`; both are ten seconds in the code).  The network does not
promise the first.  It is needed: a packet that outlives its record in the history
is taken for a new request (`Delays`, section 4).

`GMPInv` says why a message is not taken for a new one twice:

* `IdsUsedOnce`: an id that is under way, in a history or asked for is one that its
  sender has used, in this life or an earlier one, and no two messages of a sender
  that are under way share one; so a new message has an id that is nowhere else
  (lemma `FreshIsNew`);
* `RecordsLastLonger`: while a message may be sent again, the record of it is no
  older than the message, and so is not removed;
* `HandledOnce`: what a server has handled, or has in its queue, has a record in its
  history as long as it is under way.  It relates the network, the queue and the
  history, of which `ReceiveNew`, `Serve` and `Tick` each change two;
* `AcksAreTrue`: an acknowledgement carries an id only, and is matched with any record
  with that id; it is of that very message, and who has sent it has the record of it;
* `OnlyAnswersToRequests`, `CallsInPlace`: who sends what, and where a call is.

Most steps are proved by their effects: the lemmas on the parts of `GMPInv` (`IdsKept`,
`RecordsKept`, `HandledKept`, `AcksKept`) are stated of what a step may do to messages,
records and ids, and each action is shown to do no more.

The refinement adds `CallsWait`: the ids that calls wait for are the caller's own,
each is waited for by one call, and has had no outcome.  A caller that was started
again has ids from 1 once more, and `recv` looks at the id of an answer alone: it
would take an answer to a request of its former life.  Hence the assumption.

### Masters and slaves

`ClusterProofs` proves, for any number of slaves, and any number of deaths and new
starts of them and of the second master:

* `ClusterInvariant`: `Spec => []ClusterInv`;
* `SlavesAlwaysObey`: `Spec => []SlavesObeyMasters`, of the slaves that no message has
  missed (`unreached`; `AllSlavesObeyMasters` of section 4 is without that);
* `DroppedAreLost`: `Spec => OnlyLostMastersDropped`.

They are stated for a first master and at most one that joins it (`TwoMasters`).
The assumption is not the code's, which takes any number of masters; it is there
because with a third one both promises fail.  A new master gives every listed one the
address of the master that it asks (`Listed`, `master.cpp:266`), so that its next probe
of a third master fails, and it drops that one and tells the slaves.  And a
master that joins by another than the first is never told to the slaves of the first.

`SlavesObeyMasters` is about a slave that has finished its joins.  `ListsKept` extends
it to all that the slave does from the moment it has the list of masters, and rests on

* `KeysTrue`: an entry or a message with a key that lives has the address of that
  master, and no message says that it is lost; new keys are larger than all that are
  known anywhere, so a master that comes back is not taken for its former self;
* `FounderKnows`: the first master has every master that has been announced;
* `FounderFirst`: a slave joins the first master first and never again, so that the list
  it gets is that of the first master, and has that master on it from then on: the slave
  takes its messages (`Known`).

The step that matters is `AnnounceStep`: the slave is listed by the first master before
it is sent the list (`InsertSlave`, `ListMasters`), and the first master lists a new
master no later than it tells its slaves; so whichever of the two joins is faster, the
slave has the entry or the message.

### Users

`ClusterProofs` also has the theorem of `Sessions`, the users of these masters:
`UsersAreKept` is `Spec => []KeptAlive`, for any number of clients, masters, paths and
keys.  `LoginAssumption` says that masters are finitely many numbers (their keys, by
which the tables are sorted), that the hash of a path is a number, and that the master of
the client's configuration is there from the start.  `SessionsInv` is

* `HeardOf`: `KeptAlive` with a number in it.  How long a master has not heard of a
  user is at most the number of keep-alives that were lost in a row, and one more while
  one is due;
* `WithinTheRing`: whom a client knows, asks or logs in at has joined;
* `KeysTrue`: a key that was given once is one client's, and who is inserted with it is he.

`KeptAlive` says nothing of time and so does not survive `CheckInactiveUsers`, which goes by
the silence of a user alone.  With `HeardOf`, a user who is dropped there has been silent for
more periods than a client with fewer than `Enough` losses can have been.  The lemmas on the tables
(`PlacesTaken`, `ResponsibleIsKnown`) show that the place that a hash picks is
always taken, so that a request has a master to go to.

### UDT: the stream

`UDTTransferProofs` proves, for any buffers, windows, losses, early timers and initial
number, and any size of the circle of numbers:

* `BuffersAgree`: `Spec => []BuffersInStep`;
* `ConnectionIsStream`: `Spec => ImplementsReliableStream`, the refinement of
  `ReliableStream`.

The assumption is `NData < SeqNoTH`: the stream is shorter than half the circle (2^30
packets in the code), so that a packet which comes late is not of another lap.  The code
has no such bound: it relies on packets that die sooner than the numbers come round, which
the network nearly promises and a model without time cannot say.  Numbers may wrap in
the middle of the stream, since `ISN` is any.  Lemma `PlaceCompare` is what that
takes: numbers whose places are less than half a circle apart compare with `seqcmp`, and
subtract with `seqoff`, as their places do.

`BuffersInStep` is inductive.  Its parts:

* `SenderBuffer`: the buffer is the stream from the first piece that is not acknowledged,
  and the losses are in it;
* `ReceiverBuffer`: a unit that is held has the piece of its number, the losses are
  exactly the numbers that are heard of and not held, and what is held has room to be read;
* `EndsInStep`: neither end is ahead of the other;
* `PacketsTrue`: what a packet says is true however late it comes.  The ends only move on,
  and what a packet says is stated as a bound on their places, so a step that moves an end
  falsifies no packet (lemmas `TrueForEver`, `PacketsKept`);
* `InOrder`: what was read and may be read is the stream up to the acknowledgement;
* `NeverTakenForAttack`, `CloseLosesNothing`: the two checks that close a healthy
  connection never fail, and a close that has lingered to its end (not for its three minutes)
  means that the receiver has it all.  They
  follow from the other parts (lemma `Together`).

The steps that matter are `ProcessDataStep`, where a packet may be the next, one in the
middle, a repeated one or beyond the room; `AckTimerStep`, where all numbers up to the
first loss turn out to be held (`AckedPlaces`); and `ProcessAckStep`, which cuts the
sender's buffer by a difference of numbers (`AckIsTrue`).

The proof found two places where an earlier model was not the code's: the numbers from one
to another that is half a circle away, and a report of losses whose range is the wrong
way round.

### UDT: connecting, and messages

`UDTProofs` proves of the other parts of UDT:

* `ConnectionsAgree`: of `UDTConnection`, `ConnectedAgree`, `OneConnectionPerRequest` and
  `QueueOfLiveSockets`, for any clients (none of which is called the server), tries,
  sockets and backlog (`ConnectAssumption`);
* `RendezvousMeansHeard`: of `UDTRendezvous`, `UpWhenHeard`;
* `EndsAlwaysAgree`: the two together, as `EndsAgree` of `messaging` has them;
* `MessagesAreReadOnce`: of `UDTMessages`, `Spec => []WholeMessagesOnce`, for any sequence
  of messages of at least a block each and any buffers (`MessagesAssumption`).  `Spec` is
  without messages that expire: with them (`SpecTTL`) a drop request says a number too
  much (section 4).

`ConnectionInv` adds that an answer that says "ok", on its way or kept by a client, names
the socket that was made for the very request it is the answer to (`AnswersTrue`), and that
a listener that is open still has each healthy socket in one of its two sets
(`SocketsFound`), so that a request that is repeated finds its socket and makes no second
one.  The listener's sets lose sockets when a broken one makes place, when one is closed and
when the collector comes, and `accept` moves one between them; `SocketsFound` survives each.

For `UpWhenHeard`, `RendezvousInv` says of each packet on the way and each one that is kept
what it tells of its sender: all but the first kind come from a side that has heard.

`MessagesInv` ties the stream of blocks to the receiver's circular buffer:

* `MessagesInARow`: the sender's blocks are whole messages one after the other, in
  the order of the calls of `sendmsg`;
* `PacketsTrue`: a packet carries the block of its number, however late it comes;
* `BufferTrue`: the unit at a place has the block of its number, the losses are exactly the
  numbers heard of for which there is no unit, a unit is marked as read exactly when its
  message was read, and what has left the buffer was read.

A message that need not keep the order is read from behind a hole, and its units stay, marked,
until what is before them is read.  That a block which comes again is refused then rests on the last
two: its place is taken or is before the buffer.  The step that matters
is `ReadingKeeps`.  `CRcvBuffer::scanMsg` frees the front of the buffer up to a block with which
an unread message begins, and looks from there for a last block that has all blocks back to
a first one.  What it frees must have been read (`SkippingKeeps`), and what lies between the
two ends must be one message (`ReadsAMessage`, `MarkingKeeps`); if that keeps the order, all
sent before it were read (`EarlierWereRead`).

### What is model-checked only

Of the invariants that runs check these have no theorem:

* `JoinAccountsForAll` of `Namespace`: what the slave writes and the master reads
  is a tree that is walked by recursion;
* `ReportsAnswered`: parts of `CopyInv` in another world than the constants of the run, for
  which `InductiveInvariant` and `ReportsAreAnswered` hold as well;
* `ArraysHold`: its part about messages (`MessagesInv`) is shown to be inductive in
  `UDTProofs`; the loss lists are walked by recursion;
* `FailuresHandled` is `IInv` and `ChainInv` in other worlds than the constants of the run, for
  which the theorems hold as well.

`NoneGivenUp` holds of few early timers only.  The liveness properties are with TLC.

Three things are out of the prover's reach and stay with TLC: liveness under
fairness and `ENABLED`; induction over data, that is, what a recursive
definition computes for every input; and anything in a module that uses
`RECURSIVE` operators (here the loss lists of UDT, whose ranges are followed from
link to link, the heap of `UDTSndUList`, and the tree of `Namespace`).

## 6. Not modelled

* `connect`, `remove` and the count of users of a data channel: the count is not
  initialised (`datachn.cpp:130`), so that a connection may be closed at any time, and `locate`
  follows an entry of the map without its lock; no promise of it is left to check.
* The sync of metadata between masters (messages 1100-1107): the sender does not look
  at the outcome, so that two masters agree only as long as no message is lost.
* The commands of the master that change nothing (`stat`, `list`, `df`, `sysinfo`), the
  statistics of slaves, distances in the topology, the votes against slow slaves, which are
  only logged.
* Permissions, quotas and disk space: plain lookups and comparisons.
* The cutting of Sphere's input into segments, the sort of MapReduce, the user's
  library and what the user's function does with files.
* A crash of the first master: it keeps nothing, and rebuilds its metadata from what
  the slaves send when they join (`Namespace` has that join).
* UDT's congestion control, rates and bandwidth estimation, `epoll` and `select`,
  `sendfile` and `recvfile`, multiplexers, and the layout of packets.
* Memory: objects that are used after they were deleted (users of queued jobs,
  entries of maps) are seen as values that are gone, or are named in section 4.
* The variant of the index that is kept in files, transports and encryption, tools,
  examples, configuration files and logging: wrappers, input and output.
