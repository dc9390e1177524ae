--------------------------------- MODULE Sphere ---------------------------------
(***************************************************************************)
(* A Sphere job (dcclient.cpp, serv_spe.cpp, processDCCmd of the master    *)
(* and the slaves): the client hands the segments of the input to          *)
(* processing elements (SPEs) on the slaves, over data channels, and is    *)
(* told of their ends by GMP messages.  The results go back to the client, *)
(* or into the buckets of shufflers.                                       *)
(*                                                                         *)
(* The client has a thread for the job (run), which goes through its SPEs  *)
(* one by one (checkSPE) and then waits for a message, and the program's   *)
(* thread, which reads results.  Every SPE is a thread of a slave, and     *)
(* every shuffler is two.                                                  *)
(***************************************************************************)
EXTENDS Naturals, Sequences, FiniteSets

CONSTANTS NSPE, NSegment, NBucket,
          Jobs,         \* what is asked for and what happens to it, one is chosen
          MaxRetry,     \* losses of an SPE after which a segment has failed (3 in the code)
          MaxPending,   \* results that a shuffler takes while others wait (256 MB in the code)
          Hundred       \* the number of segments up to which a job that is over is marked

ASSUME CountAssumption == NSPE \in Nat \ {0} /\ NSegment \in Nat \ {0} /\ NBucket \in Nat \ {0}
ASSUME LimitAssumption == MaxRetry \in Nat /\ MaxPending \in Nat /\ Hundred \in Nat

\* A job: where its results go, which segments an SPE may be given (all, or if m_bDataMove
\* is not set those that its slave has), in how many parts at most the result of a segment
\* is delivered to buckets, and how many connections break and SPEs fail.
JobType == [kind : {"client", "buckets"}, near : [1 .. NSPE -> SUBSET (1 .. NSegment)],
            parts : [1 .. NSegment -> Nat \ {0}], faults : Nat]

ASSUME JobAssumption == Jobs \subseteq JobType

VARIABLES
  job,
  seg,       \* m_mpDS
  spe,       \* m_mSPE, as the client sees them
  client,    \* the thread of the job
  progress,  \* m_iProgress
  avail,     \* m_iAvailRes
  totalSPE,  \* m_iTotalSPE
  health,    \* m_bBucketHealth
  bucketDone,\* m_mBucket, those whose progress is 100
  user,      \* the program: "reads", or "end" when read has said that it is over
  conn,      \* SPE -> the data channel between it and the client works
  proc,      \* SPE -> its thread on the slave
  result,    \* SPE -> the segments whose results are in the channel
  msgs,      \* messages to the client in GMP's queue
  trans,     \* the SPEs and shufflers whose transactions the master lists
  shuffler,  \* bucket -> its shuffler
  faults,
  outcome    \* history: segment -> how it ended, for SphereJob

vars == <<job, seg, spe, client, progress, avail, totalSPE, health, bucketDone, user,
          conn, proc, result, msgs, trans, shuffler, faults, outcome>>
clientVars == <<job, seg, spe, client, progress, avail, totalSPE, health, bucketDone, user, outcome>>
slaveVars == <<conn, proc, result, trans, shuffler>>

SPEs == 1 .. NSPE
Segments == 1 .. NSegment
Buckets == 1 .. NBucket

Segment == [st : {"new", "running", "done", "failed", "read"}, retry : 0 .. MaxRetry + 1]
SPE == [st : {"unconnected", "ready", "running", "abandoned"}, seg : 0 .. NSegment]
Client == [pc : {"run", "check", "recv", "error", "drain", "end"}, i : 1 .. NSPE + 1,
           busy : BOOLEAN, found : BOOLEAN]
Proc == [st : {"none", "start", "idle", "work", "deliver", "send", "gone"},
         seg : 0 .. NSegment, part : Nat \ {0}, left : SUBSET Buckets, ok : BOOLEAN]
Message == [id : 1 .. NSPE + NBucket, value : {"done", "error"}]

\* What the shufflers get: a part of a segment's result, or the mark at the end.
Part == Segments \X (Nat \ {0})
End == <<0, 0>>
Shuffler == [queue : Seq(Part \cup {End}), st : {"none", "up", "released", "done"}, file : Seq(Part)]

TypeOK ==
  /\ job \in Jobs
  /\ seg \in [Segments -> Segment]
  /\ spe \in [SPEs -> SPE]
  /\ client \in Client
  /\ progress \in 0 .. NSegment /\ avail \in 0 .. NSegment /\ totalSPE \in 0 .. NSPE
  /\ health \in BOOLEAN /\ bucketDone \subseteq Buckets
  /\ user \in {"reads", "end"}
  /\ conn \in [SPEs -> BOOLEAN]
  /\ proc \in [SPEs -> Proc]
  /\ result \in [SPEs -> Seq(Segments)]
  /\ msgs \subseteq Message
  /\ trans \subseteq ({"spe"} \X SPEs) \cup ({"shuffler"} \X Buckets)
  /\ shuffler \in [Buckets -> Shuffler]
  /\ faults \in 0 .. job.faults
  /\ outcome \in [Segments -> {"none", "data", "nothing", "failure"}]

Checking == [pc |-> "check", i |-> 1, busy |-> FALSE, found |-> FALSE]
NoProc == [st |-> "none", seg |-> 0, part |-> 1, left |-> {}, ok |-> TRUE]

\* The number of retries is not set by segmentData, so it is anything.
Init ==
  /\ job \in Jobs
  /\ \E r \in {0, MaxRetry} : seg = [d \in Segments |-> [st |-> "new", retry |-> r]]
  /\ spe = [s \in SPEs |-> [st |-> "unconnected", seg |-> 0]]
  /\ client = [Checking EXCEPT !.pc = "run"]
  /\ progress = 0 /\ avail = 0 /\ totalSPE = 0
  /\ health = TRUE /\ bucketDone = {}
  /\ user = "reads"
  /\ conn = [s \in SPEs |-> FALSE]
  /\ proc = [s \in SPEs |-> NoProc]
  /\ result = [s \in SPEs |-> <<>>]
  /\ msgs = {} /\ trans = {}
  /\ shuffler = [b \in Buckets |-> [queue |-> <<>>, st |-> "none", file |-> <<>>]]
  /\ faults = 0
  /\ outcome = [d \in Segments |-> "none"]

Started == {b \in Buckets : shuffler[b].st # "none"}   \* m_mBucket
SPETrans(s) == <<"spe", s>>
ShufflerTrans(b) == <<"shuffler", b>>

-----------------------------------------------------------------------------
(* The program starts the job. *)

\* prepareOutput starts the shufflers that can be started, by way of the master,
\* which lists a transaction for each, and the others are done without.
StartShufflers(B) ==
  /\ faults + Cardinality(Buckets \ B) <= job.faults
  /\ faults' = faults + Cardinality(Buckets \ B)
  /\ shuffler' = [b \in Buckets |-> IF b \in B THEN [shuffler[b] EXCEPT !.st = "up"] ELSE shuffler[b]]
  /\ trans' = trans \cup {ShufflerTrans(b) : b \in Buckets}

\* run fails when there is no shuffler at all.
Run ==
  /\ client.pc = "run"
  /\ IF job.kind = "buckets"
     THEN \E B \in SUBSET Buckets : StartShufflers(B)
     ELSE UNCHANGED <<shuffler, trans, faults>>
  /\ IF job.kind = "buckets" /\ shuffler' = shuffler
     THEN client' = [client EXCEPT !.pc = "end"] /\ UNCHANGED totalSPE
     ELSE client' = Checking /\ totalSPE' = NSPE
  /\ UNCHANGED <<job, seg, spe, progress, avail, health, bucketDone, user, conn, proc, result,
                 msgs, outcome>>

-----------------------------------------------------------------------------
(* The thread of the job: checkSPE. *)

Turn(s) == client.pc = "check" /\ client.i = s
NextSPE == client' = [client EXCEPT !.i = @ + 1]
Busy == client' = [client EXCEPT !.i = @ + 1, !.busy = TRUE]
Found == client' = [client EXCEPT !.i = @ + 1, !.found = TRUE]

\* A segment is also given to a second SPE while the first one runs.
WaitingAndRunning(s) == {d \in job.near[s] : seg[d].st \in {"new", "running"}}

\* What the job may give to an SPE that is not running: the nearest of these.
Waiting(s) == {d \in job.near[s] : seg[d].st = "new"}

\* An SPE that is abandoned, or that no segment is left for: none at all, or none
\* that its slave has when the data may not move.
SkipSPE(s) ==
  /\ Turn(s)
  /\ \/ spe[s].st = "abandoned"
     \/ spe[s].st \in {"unconnected", "ready"} /\ Waiting(s) = {}
  /\ NextSPE
  /\ UNCHANGED <<job, seg, spe, progress, avail, totalSPE, health, bucketDone, user,
                 slaveVars, msgs, faults, outcome>>

\* connectSPE, by way of the master, which lists a transaction for it.  The thread of
\* the SPE begins, and the segment is sent after what it needs to start.
Connect(s) ==
  /\ Turn(s)
  /\ spe[s].st = "unconnected"
  /\ \E d \in Waiting(s) :
       /\ seg' = [seg EXCEPT ![d].st = "running"]
       /\ spe' = [spe EXCEPT ![s] = [st |-> "running", seg |-> d]]
       /\ proc' = [proc EXCEPT ![s] = [NoProc EXCEPT !.st = "start", !.seg = d]]
  /\ conn' = [conn EXCEPT ![s] = TRUE]
  /\ trans' = trans \cup {SPETrans(s)}
  /\ Found
  /\ UNCHANGED <<job, progress, avail, totalSPE, health, bucketDone, user, result, msgs,
                 shuffler, faults, outcome>>

\* There is no channel, at which the SPE is over (without a report, as in
\* EndsEarly), but the client takes the SPE for connected.
NoChannel(s) ==
  /\ Turn(s)
  /\ spe[s].st = "unconnected"
  /\ Waiting(s) # {}
  /\ faults < job.faults
  /\ faults' = faults + 1
  /\ spe' = [spe EXCEPT ![s].st = "ready"]
  /\ proc' = [proc EXCEPT ![s] = [NoProc EXCEPT !.st = "gone"]]
  /\ trans' = trans \cup {SPETrans(s)}
  /\ Found
  /\ UNCHANGED <<job, seg, progress, avail, totalSPE, health, bucketDone, user, conn,
                 result, msgs, shuffler, outcome>>

\* The slave does not answer the master, which keeps the transaction.
ConnectFails(s) ==
  /\ Turn(s)
  /\ spe[s].st = "unconnected"
  /\ Waiting(s) # {}
  /\ faults < job.faults
  /\ faults' = faults + 1
  /\ trans' = trans \cup {SPETrans(s)}
  /\ Found
  /\ UNCHANGED <<job, seg, spe, progress, avail, totalSPE, health, bucketDone, user, conn,
                 proc, result, msgs, shuffler, outcome>>

\* startSPE with a connected SPE.  A channel that is broken leaves it as it is.
StartSPE(s) ==
  /\ Turn(s)
  /\ spe[s].st = "ready"
  /\ Waiting(s) # {}
  /\ IF conn[s] /\ proc[s].st = "idle"
     THEN \E d \in Waiting(s) :
            /\ seg' = [seg EXCEPT ![d].st = "running"]
            /\ spe' = [spe EXCEPT ![s] = [st |-> "running", seg |-> d]]
            /\ proc' = [proc EXCEPT ![s] = [NoProc EXCEPT !.st = "work", !.seg = d]]
     ELSE /\ ~conn[s]
          /\ UNCHANGED <<seg, spe, proc>>
  /\ Found
  /\ UNCHANGED <<job, progress, avail, totalSPE, health, bucketDone, user, conn, result,
                 msgs, trans, shuffler, faults, outcome>>

CheckRunning(s) ==
  /\ Turn(s)
  /\ spe[s].st = "running"
  /\ conn[s]
  /\ Busy
  /\ UNCHANGED <<job, seg, spe, progress, avail, totalSPE, health, bucketDone, user,
                 slaveVars, msgs, faults, outcome>>

\* An end that tells the shufflers nothing.
LeaveQuietly ==
  /\ client' = [client EXCEPT !.pc = "drain"]
  /\ conn' = [s \in SPEs |-> FALSE]
  /\ shuffler' = shuffler

\* The end of the thread's loop: the channels are closed and the shufflers told.
Leave ==
  /\ client' = [client EXCEPT !.pc = "drain"]
  /\ conn' = [s \in SPEs |-> FALSE]
  /\ shuffler' = [b \in Buckets |->
       IF b \in Started
       THEN [shuffler[b] EXCEPT !.st = "released", !.queue = Append(@, End)]
       ELSE shuffler[b]]

\* A job that tries again whatever its output is.
RetryInBuckets == FALSE

OutputInBuckets == Started # {}

\* A running SPE whose channel is broken: with buckets, the job has failed.
LoseJob(s) ==
  /\ Turn(s)
  /\ spe[s].st = "running"
  /\ ~conn[s]
  /\ OutputInBuckets
  /\ health' = FALSE
  /\ Leave
  /\ UNCHANGED <<job, seg, spe, progress, avail, totalSPE, bucketDone, user, proc, result,
                 msgs, trans, faults, outcome>>

\* ++ m_iRetryNum is over the limit.
RetriedEnough(d) == seg[d].retry + 1 > MaxRetry

\* Otherwise the SPE is dismissed and its segment is for another, or has failed.
LoseSPE(s) ==
  /\ Turn(s)
  /\ spe[s].st = "running"
  /\ ~conn[s]
  /\ ~OutputInBuckets
  /\ LET d == spe[s].seg IN
       IF RetriedEnough(d)
       THEN /\ seg' = [seg EXCEPT ![d].st = "failed", ![d].retry = MaxRetry + 1]
            /\ progress' = progress + 1
            /\ avail' = avail + 1
            /\ outcome' = [outcome EXCEPT ![d] = "failure"]
       ELSE /\ seg' = [seg EXCEPT ![d].st = "new", ![d].retry = @ + 1]
            /\ UNCHANGED <<progress, avail, outcome>>
  /\ spe' = [spe EXCEPT ![s].st = "abandoned"]
  /\ totalSPE' = totalSPE - 1
  /\ NextSPE
  /\ UNCHANGED <<job, health, bucketDone, user, slaveVars, msgs, faults>>

\* After the last SPE: nothing runs and nothing could be started, or no SPE is
\* left, and the job has failed; or the thread waits for a message.
AllChecked ==
  /\ client.pc = "check"
  /\ client.i = NSPE + 1
  /\ IF (~client.busy /\ ~client.found /\ progress < NSegment) \/ totalSPE = 0
     THEN Leave
     ELSE client' = [client EXCEPT !.pc = "recv"] /\ UNCHANGED <<conn, shuffler>>
  /\ UNCHANGED <<job, seg, spe, progress, avail, totalSPE, health, bucketDone, user, proc,
                 result, msgs, trans, faults, outcome>>

-----------------------------------------------------------------------------
(* The thread of the job: messages. *)

\* The loop goes on while segments are left.
Again(n) == IF n < NSegment THEN Checking ELSE [client EXCEPT !.pc = "recv"]

\* recvfrom is over after a second.
NoMessage ==
  /\ client.pc = "recv"
  /\ progress < NSegment
  /\ client' = Checking
  /\ UNCHANGED <<job, seg, spe, progress, avail, totalSPE, health, bucketDone, user,
                 slaveVars, msgs, faults, outcome>>

\* The SPE that the message is from: by its number, which may be that of a
\* bucket whose shuffler has ended.  It is of no use when the SPE is not running.
IgnoreMessage(m) ==
  /\ client.pc = "recv"
  /\ progress < NSegment
  /\ m.id \notin SPEs \/ spe[m.id].st # "running"
  /\ msgs' = msgs \ {m}
  /\ client' = Checking
  /\ UNCHANGED <<job, seg, spe, progress, avail, totalSPE, health, bucketDone, user,
                 slaveVars, faults, outcome>>

\* The SPE has failed with its segment.  The status is set before the result
\* is, and without the lock that the program's thread takes to look at it.
ErrorMessage(m) ==
  /\ client.pc = "recv"
  /\ progress < NSegment
  /\ m.id \in SPEs /\ spe[m.id].st = "running"
  /\ m.value = "error"
  /\ msgs' = msgs \ {m}
  /\ seg' = [seg EXCEPT ![spe[m.id].seg].st = "failed"]
  /\ outcome' = [outcome EXCEPT ![spe[m.id].seg] = "failure"]
  /\ spe' = [spe EXCEPT ![m.id].st = "ready"]
  /\ client' = [client EXCEPT !.pc = "error"]
  /\ UNCHANGED <<job, progress, avail, totalSPE, health, bucketDone, user, slaveVars, faults>>

\* The error is written to the result and counted.
CountError ==
  /\ client.pc = "error"
  /\ progress' = progress + 1
  /\ avail' = avail + 1
  /\ client' = Again(progress + 1)
  /\ UNCHANGED <<job, seg, spe, totalSPE, health, bucketDone, user, slaveVars, msgs, faults, outcome>>

\* What the program gets of a segment that the SPE says is done: its result,
\* unless the channel broke or the function failed and left none.
Outcome(s) == IF result[s] = <<>> \/ ~proc[s].ok THEN "nothing" ELSE "data"

\* readResult, which waits for the result unless the channel breaks, and takes
\* the segment for done all the same.
ReadResult(s) ==
  /\ result' = [result EXCEPT ![s] = IF @ = <<>> THEN @ ELSE Tail(@)]
  /\ outcome' = [outcome EXCEPT ![spe[s].seg] = Outcome(s)]
  /\ seg' = [seg EXCEPT ![spe[s].seg].st = "done"]
  /\ spe' = [spe EXCEPT ![s].st = "ready"]

DoneMessage(m) ==
  /\ client.pc = "recv"
  /\ progress < NSegment
  /\ m.id \in SPEs /\ spe[m.id].st = "running"
  /\ m.value = "done"
  /\ result[m.id] # <<>> \/ ~conn[m.id]
  /\ msgs' = msgs \ {m}
  /\ ReadResult(m.id)
  /\ progress' = progress + 1
  /\ avail' = avail + 1
  /\ client' = Again(progress + 1)
  /\ UNCHANGED <<job, totalSPE, health, bucketDone, user, conn, proc, trans, shuffler, faults>>

\* All segments are over.
AllDone ==
  /\ client.pc = "recv"
  /\ progress = NSegment
  /\ Leave
  /\ UNCHANGED <<job, seg, spe, progress, avail, totalSPE, health, bucketDone, user, proc,
                 result, msgs, trans, faults, outcome>>

\* Any message with the number of a bucket says that the bucket is done.
DrainMessage(m) ==
  /\ client.pc = "drain"
  /\ bucketDone # Started
  /\ msgs' = msgs \ {m}
  /\ bucketDone' = bucketDone \cup ({m.id} \cap Started)
  /\ UNCHANGED <<job, seg, spe, client, progress, avail, totalSPE, health, user, slaveVars,
                 faults, outcome>>

\* The thread is over.  m_iProgress is a number of segments here.
Drained ==
  /\ client.pc = "drain"
  /\ bucketDone = Started
  /\ client' = [client EXCEPT !.pc = "end"]
  /\ totalSPE' = IF progress < Hundred THEN 0 ELSE totalSPE
  /\ UNCHANGED <<job, seg, spe, progress, avail, health, bucketDone, user, slaveVars, msgs,
                 faults, outcome>>

-----------------------------------------------------------------------------
(* The program reads. *)

Read ==
  /\ user = "reads"
  /\ avail > 0
  /\ \E d \in Segments :
       /\ seg[d].st \in {"done", "failed"}
       /\ seg' = [seg EXCEPT ![d].st = "read"]
  /\ avail' = avail - 1
  /\ UNCHANGED <<job, spe, client, progress, totalSPE, health, bucketDone, user, slaveVars,
                 msgs, faults, outcome>>

ReadEnds ==
  /\ user = "reads"
  /\ client.pc # "run"
  /\ avail = 0
  /\ totalSPE = 0 \/ progress = NSegment
  /\ user' = "end"
  /\ UNCHANGED <<job, seg, spe, client, progress, avail, totalSPE, health, bucketDone,
                 slaveVars, msgs, faults, outcome>>

-----------------------------------------------------------------------------
(* An SPE. *)

Tell(id, value) == msgs' = msgs \cup {[id |-> id, value |-> value]}

\* It has read where its results go and has opened the library.
Begins(s) ==
  /\ proc[s].st = "start"
  /\ proc' = [proc EXCEPT ![s].st = "work"]
  /\ UNCHANGED <<clientVars, conn, result, msgs, trans, shuffler, faults>>

\* It has not, for the channel is broken or the library cannot be opened: the thread
\* is over, tells neither client nor master, and leaves the channel as it is.
EndsEarly(s) ==
  /\ proc[s].st = "start"
  /\ \/ ~conn[s] /\ UNCHANGED faults
     \/ faults < job.faults /\ faults' = faults + 1
  /\ proc' = [proc EXCEPT ![s].st = "gone"]
  /\ UNCHANGED <<clientVars, conn, result, msgs, trans, shuffler>>

\* The data cannot be read.
ReadDataFails(s) ==
  /\ proc[s].st = "work"
  /\ faults < job.faults
  /\ faults' = faults + 1
  /\ Tell(s, "error")
  /\ proc' = [proc EXCEPT ![s].st = "idle"]
  /\ UNCHANGED <<clientVars, conn, result, trans, shuffler>>

\* The user's function has processed the segment, or as much of it as makes a part
\* of the result.  When it has failed, nothing more is delivered, and the progress
\* becomes 100 all the same.
Process(s) ==
  /\ proc[s].st = "work"
  /\ \E ok \in BOOLEAN :
       proc' = [proc EXCEPT ![s].ok = ok,
                            ![s].st = IF job.kind = "buckets" /\ ok THEN "deliver" ELSE "send",
                            ![s].left = IF job.kind = "buckets" /\ ok THEN Started ELSE {}]
  /\ UNCHANGED <<clientVars, conn, result, msgs, trans, shuffler, faults>>

\* sendResultToBuckets asks the shufflers one after the other.  One that has
\* too much to do says so, and is asked again later.
Deliver(s, b) ==
  /\ proc[s].st = "deliver"
  /\ b \in proc[s].left
  /\ shuffler[b].st = "up"
  /\ Len(shuffler[b].queue) <= MaxPending
  /\ shuffler' = [shuffler EXCEPT ![b].queue = Append(@, <<proc[s].seg, proc[s].part>>)]
  /\ proc' = [proc EXCEPT ![s].left = @ \ {b}]
  /\ UNCHANGED <<clientVars, conn, result, msgs, trans, faults>>

\* All have the part: the SPE goes on with the segment, or it was the last one.
Delivered(s) ==
  /\ proc[s].st = "deliver"
  /\ proc[s].left = {}
  /\ \/ proc' = [proc EXCEPT ![s].st = "send"]
     \/ /\ proc[s].part < job.parts[proc[s].seg]
        /\ proc' = [proc EXCEPT ![s].st = "work", ![s].part = @ + 1]
  /\ UNCHANGED <<clientVars, conn, result, msgs, trans, shuffler, faults>>

\* The rpc to a shuffler that has ended fails, and the segment with it.
DeliverFails(s, b) ==
  /\ proc[s].st = "deliver"
  /\ b \in proc[s].left
  /\ shuffler[b].st # "up"
  /\ Tell(s, "error")
  /\ proc' = [proc EXCEPT ![s].st = "idle"]
  /\ UNCHANGED <<clientVars, conn, result, trans, shuffler, faults>>

\* The master takes the files that an SPE or a shuffler reports, and keeps the
\* transaction until its Sphere report.
AfterReport(t) == trans

\* The end of a segment: a message, the result, and a report of new files.
SendResult(s) ==
  /\ proc[s].st = "send"
  /\ Tell(s, "done")
  /\ result' = [result EXCEPT ![s] = IF conn[s] THEN Append(@, proc[s].seg) ELSE @]
  /\ trans' = AfterReport(SPETrans(s))
  /\ proc' = [proc EXCEPT ![s].st = "idle"]
  /\ UNCHANGED <<clientVars, conn, shuffler, faults>>

\* recv fails in the loop: the SPE is over, and the master forgets its transaction.
SPEEnds(s) ==
  /\ proc[s].st = "idle"
  /\ ~conn[s]
  /\ proc' = [proc EXCEPT ![s].st = "gone"]
  /\ trans' = trans \ {SPETrans(s)}
  /\ UNCHANGED <<clientVars, conn, result, msgs, shuffler, faults>>

\* A channel breaks; what is in it is lost.
Break(s) ==
  /\ conn[s]
  /\ faults < job.faults
  /\ faults' = faults + 1
  /\ conn' = [conn EXCEPT ![s] = FALSE]
  /\ result' = [result EXCEPT ![s] = <<>>]
  /\ UNCHANGED <<clientVars, proc, msgs, trans, shuffler>>

-----------------------------------------------------------------------------
(* A shuffler: SPEShufflerEx takes the results in their order. *)

Shuffle(b) ==
  /\ shuffler[b].queue # <<>>
  /\ Head(shuffler[b].queue) # End
  /\ shuffler' = [shuffler EXCEPT ![b].queue = Tail(@), ![b].file = Append(@, Head(shuffler[b].queue))]
  /\ UNCHANGED <<clientVars, conn, proc, result, msgs, trans, faults>>

\* The mark at the end: the files are reported, and the client is told.
ShufflerEnds(b) ==
  /\ shuffler[b].queue # <<>>
  /\ Head(shuffler[b].queue) = End
  /\ shuffler' = [shuffler EXCEPT ![b].queue = Tail(@), ![b].st = "done"]
  /\ Tell(b, "done")
  /\ trans' = AfterReport(ShufflerTrans(b)) \ {ShufflerTrans(b)}
  /\ UNCHANGED <<clientVars, conn, proc, result, faults>>

-----------------------------------------------------------------------------
CheckSPE(s) ==
  SkipSPE(s) \/ Connect(s) \/ StartSPE(s) \/ CheckRunning(s) \/ LoseJob(s) \/ LoseSPE(s)

ClientStep ==
  \/ Run
  \/ \E s \in SPEs : CheckSPE(s)
  \/ AllChecked \/ CountError \/ AllDone \/ Drained
  \/ \E m \in msgs : IgnoreMessage(m) \/ ErrorMessage(m) \/ DoneMessage(m) \/ DrainMessage(m)

SPEStep(s) ==
  \/ Begins(s) \/ Process(s) \/ Delivered(s) \/ SendResult(s) \/ SPEEnds(s)
  \/ \E b \in Buckets : Deliver(s, b) \/ DeliverFails(s, b)

ShufflerStep(b) == Shuffle(b) \/ ShufflerEnds(b)

Next ==
  \/ ClientStep \/ NoMessage
  \/ Read \/ ReadEnds
  \/ \E s \in SPEs :
       ConnectFails(s) \/ NoChannel(s) \/ EndsEarly(s) \/ SPEStep(s) \/ ReadDataFails(s) \/ Break(s)
  \/ \E b \in Buckets : ShufflerStep(b)

Spec == Init /\ [][Next]_vars

\* The threads run, and a message that has come is taken in the end, although
\* the client looks through its SPEs again and again.
Fairness ==
  /\ WF_vars(ClientStep) /\ WF_vars(NoMessage)
  /\ SF_vars(\E m \in msgs : IgnoreMessage(m) \/ ErrorMessage(m) \/ DoneMessage(m))
  /\ WF_vars(Read \/ ReadEnds)
  /\ \A s \in SPEs : WF_vars(SPEStep(s))
  /\ \A b \in Buckets : WF_vars(ShufflerStep(b))

FairSpec == Spec /\ Fairness

-----------------------------------------------------------------------------
(* Properties. *)

Finished == {d \in Segments : seg[d].st \in {"done", "failed", "read"}}
ReadSegments == {d \in Segments : seg[d].st = "read"}
Uncounted == IF client.pc = "error" THEN 1 ELSE 0

\* The counters that the program waits for agree with the segments, although
\* SPEs are lost, segments are handed out again and messages come late.
CountersAgree ==
  /\ progress + Uncounted = Cardinality(Finished)
  /\ avail + Cardinality(ReadSegments) + Uncounted = Cardinality(Finished)

\* A segment that is running is running on one SPE, and an SPE runs one that
\* the program has not deleted.
OneSPEPerSegment ==
  \A d \in Segments :
    Cardinality({s \in SPEs : spe[s].st = "running" /\ spe[s].seg = d})
      = IF seg[d].st = "running" THEN 1 ELSE 0

\* A part of the result of a segment comes to a bucket at most once, although SPEs
\* are lost after they have filled some of the buckets: such a job is given up.
OncePerBucket ==
  \A b \in Buckets : \A i, j \in DOMAIN shuffler[b].file :
    shuffler[b].file[i] = shuffler[b].file[j] => i = j

\* The master still has the transaction of an SPE or a shuffler that may report
\* files, so that no file of a job is turned away, however many reports the
\* segments take.
ReportsFindTransaction ==
  /\ \A s \in SPEs : proc[s].st \notin {"none", "gone"} => SPETrans(s) \in trans
  /\ \A b \in Buckets : shuffler[b].st \in {"up", "released"} => ShufflerTrans(b) \in trans

\* What these promises rest on, beside the types.  All SPEs are counted that are not abandoned.
SPEsCounted ==
  /\ client.pc = "run" => \A s \in SPEs : spe[s].st = "unconnected"
  /\ client.pc \in {"check", "recv", "error"} =>
       totalSPE + Cardinality({s \in SPEs : spe[s].st = "abandoned"}) = NSPE

\* The SPEs and the segments that are running are matched, one to one, and a segment
\* has an end exactly if it is over.
SegmentsMatched ==
  /\ \A s \in SPEs : spe[s].st = "running" => spe[s].seg \in Segments /\ seg[spe[s].seg].st = "running"
  /\ \A d \in Segments : seg[d].st = "running" => \E s \in SPEs : spe[s] = [st |-> "running", seg |-> d]
  /\ \A s1, s2 \in SPEs : spe[s1].st = "running" /\ spe[s1] = spe[s2] => s1 = s2
  /\ \A d \in Segments : outcome[d] = "none" <=> seg[d].st \in {"new", "running"}

\* The shufflers of a job are started before anything else, are told once that it is
\* over, and without buckets there are none.
ShufflersRun ==
  /\ \A b \in Buckets : shuffler[b].st = "none" => shuffler[b].queue = <<>> /\ shuffler[b].file = <<>>
  /\ client.pc = "run" \/ job.kind = "client" => Started = {}
  /\ job.kind = "buckets" /\ client.pc \in {"check", "recv", "error"} => Started # {}
  /\ client.pc \notin {"drain", "end"} =>
       \A b \in Buckets : shuffler[b].st \in {"none", "up"} /\ \A i \in DOMAIN shuffler[b].queue : shuffler[b].queue[i] # End
  /\ \A s \in SPEs : proc[s].st = "deliver" => job.kind = "buckets"
  /\ \A s \in SPEs : proc[s].seg \in Segments => proc[s].part <= job.parts[proc[s].seg]
  /\ \A s \in SPEs : proc[s].st \in {"start", "work", "deliver", "send"} => proc[s].seg \in Segments

Has(q, x) == \E i \in DOMAIN q : q[i] = x
NoPartTwice(q) == \A i, j \in DOMAIN q : q[i] = q[j] /\ q[i] # End => i = j

\* The part has come to the bucket of shuffler f.
InBucket(f, x) == Has(f.queue, x) \/ Has(f.file, x)

\* SPE p works on d, and the n-th part of what it makes of it may still come to bucket b.
AtWork(p, d) == p.st \in {"start", "work", "deliver"} /\ p.seg = d
ToCome(p, b, n) == n > p.part \/ (n = p.part /\ (p.st \in {"start", "work"} \/ b \in p.left))

\* With buckets a segment is handed out once, to one SPE, which delivers its parts once.
HandedOutOnce ==
  /\ job.kind = "buckets" => \A d \in Segments :
       /\ seg[d].st = "new" => /\ \A s \in SPEs : ~AtWork(proc[s], d)
                               /\ \A b \in Buckets, n \in 1 .. job.parts[d] : ~InBucket(shuffler[b], <<d, n>>)
       /\ \A s1, s2 \in SPEs : AtWork(proc[s1], d) /\ AtWork(proc[s2], d) => s1 = s2
       /\ \A s \in SPEs, b \in Buckets, n \in 1 .. job.parts[d] :
            AtWork(proc[s], d) /\ ToCome(proc[s], b, n) => ~InBucket(shuffler[b], <<d, n>>)
  /\ \A b \in Buckets :
       /\ NoPartTwice(shuffler[b].queue) /\ NoPartTwice(shuffler[b].file)
       /\ \A i \in DOMAIN shuffler[b].queue : ~Has(shuffler[b].file, shuffler[b].queue[i])

JobInv ==
  TypeOK /\ CountersAgree /\ ReportsFindTransaction
    /\ SPEsCounted /\ SegmentsMatched /\ ShufflersRun /\ HandedOutOnce

\* What the client counts, what the SPEs work on, what the buckets get and what the
\* master lists of a job agree (DCClient::run, checkSPE, serv_spe).
JobConsistent == JobInv /\ OneSPEPerSegment /\ OncePerBucket

Job == INSTANCE SphereJob WITH
  Segments <- Segments,
  outcome <- outcome,
  taken <- {d \in Segments : seg[d].st = "read"},
  open <- client.pc \notin {"drain", "end"}

\* DCClient implements the job that SphereJob describes.
ImplementsSphereJob == Job!Spec

\* The client still runs its loop, ...
Looping == client.pc \in {"check", "recv"}

\* ... with an SPE whose channel is lost between two segments or was never there, ...
Stranded(s) == Looping /\ spe[s].st = "ready" /\ ~conn[s]

\* ... or with one that has ended before its first segment and not closed its channel.
Silent(s) == Looping /\ spe[s].st = "running" /\ conn[s] /\ proc[s].st = "gone"

\* The program is told that the job is over, although SPEs and messages are lost, unless
\* the client waits for an SPE of which it does not notice that it is gone.
JobEnds == <>(user = "end") \/ <>[](\E s \in SPEs : Stranded(s) \/ Silent(s))

\* It always is.  It does not hold: of an SPE that is gone between two segments, or that
\* could not open its library (serv_spe.cpp:252), the client hears nothing.
JobAlwaysEnds == <>(user = "end")

\* The status of a result says whether the segment was processed, as the
\* reference of SphereResult has it: it is not a success without a result.  It does
\* not hold: an SPE whose function has failed reports that it is done.
EndsWithResultOrFailure == \A d \in Segments : outcome[d] # "nothing"
=============================================================================
