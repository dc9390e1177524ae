----------------------------- MODULE SphereProofs -----------------------------
(***************************************************************************)
(* A Sphere job keeps its books (JobConsistent), and implements the job    *)
(* that SphereJob describes, for every number of SPEs, segments, buckets   *)
(* and faults.                                                             *)
(*                                                                         *)
(* JobInv is inductive.  Its parts are kept step by step: SegmentSteps     *)
(* says what a step does to the segments (one starts on an SPE, one ends   *)
(* there, one is read, or nothing), AbandonedSteps what it does to the     *)
(* number of SPEs, and ShufflerSteps what it does to the buckets.  The     *)
(* lemmas on the parts then speak of these kinds of steps only.            *)
(*                                                                         *)
(* The other part of a client's node, at the end of the module, is the     *)
(* handles that its FUSE threads share (FuseFiles): FuseInv is inductive.  *)
(***************************************************************************)
EXTENDS Sphere, SharedHandles, FiniteSetTheorems, SequenceTheorems, WellFoundedInduction, TLAPS

\* TypeOK, but for the bounds of the counters.
Typed ==
  /\ job \in Jobs
  /\ seg \in [Segments -> Segment]
  /\ spe \in [SPEs -> SPE]
  /\ client \in Client
  /\ health \in BOOLEAN /\ bucketDone \subseteq Buckets
  /\ user \in {"reads", "end"}
  /\ conn \in [SPEs -> BOOLEAN]
  /\ proc \in [SPEs -> Proc]
  /\ result \in [SPEs -> Seq(Segments)]
  /\ msgs \subseteq Message
  /\ trans \subseteq ({"spe"} \X SPEs) \cup ({"shuffler"} \X Buckets)
  /\ shuffler \in [Buckets -> Shuffler]
  /\ outcome \in [Segments -> {"none", "data", "nothing", "failure"}]

\* What a job may be.
LEMMA TypeOfJob ==
  ASSUME job \in Jobs
  PROVE  /\ \A s \in SPEs : job.near[s] \subseteq Segments
         /\ \A d \in Segments : job.parts[d] \in Nat \ {0}
         /\ job.faults \in Nat
BY JobAssumption DEF JobType, SPEs, Segments

\* Where the thread of the job may go.
LEMMA ClientType ==
  ASSUME client \in Client
  PROVE  /\ Checking \in Client
         /\ \A pc \in {"run", "check", "recv", "error", "drain", "end"} : [client EXCEPT !.pc = pc] \in Client
         /\ \A s \in SPEs : client.i = s =>
              /\ [client EXCEPT !.i = @ + 1] \in Client /\ [client EXCEPT !.i = @ + 1, !.busy = TRUE] \in Client
              /\ [client EXCEPT !.i = @ + 1, !.found = TRUE] \in Client
<1>1. Checking \in Client
  BY CountAssumption DEF Client, Checking
<1>2. \A pc \in {"run", "check", "recv", "error", "drain", "end"} : [client EXCEPT !.pc = pc] \in Client
  BY DEF Client
<1>3. ASSUME NEW s \in SPEs, client.i = s
      PROVE  /\ [client EXCEPT !.i = @ + 1] \in Client /\ [client EXCEPT !.i = @ + 1, !.busy = TRUE] \in Client
             /\ [client EXCEPT !.i = @ + 1, !.found = TRUE] \in Client
  <2>1. client.i + 1 \in 1 .. NSPE + 1
    BY <1>3, CountAssumption DEF SPEs
  <2>2. \A j \in 1 .. NSPE + 1 : [client EXCEPT !.i = j] \in Client
    BY DEF Client
  <2>3. \A j \in 1 .. NSPE + 1 : [client EXCEPT !.i = j, !.busy = TRUE] \in Client
    BY DEF Client
  <2>4. \A j \in 1 .. NSPE + 1 : [client EXCEPT !.i = j, !.found = TRUE] \in Client
    BY DEF Client
  <2> QED BY <2>1, <2>2, <2>3, <2>4
<1> QED BY <1>1, <1>2, <1>3

\* An SPE gets a segment to work on.
LEMMA WorkType ==
  ASSUME proc \in [SPEs -> Proc], NEW s \in SPEs, NEW d \in Segments, NEW st \in {"start", "work"}
  PROVE  [proc EXCEPT ![s] = [NoProc EXCEPT !.st = st, !.seg = d]] \in [SPEs -> Proc]
<1>1. d \in 0 .. NSegment
  BY CountAssumption DEF Segments
<1>2. NoProc \in Proc
  BY CountAssumption DEF NoProc, Proc
<1>3. \A p \in Proc : [p EXCEPT !.st = st, !.seg = d] \in Proc
  BY <1>1 DEF Proc
<1> QED BY <1>2, <1>3

LEMMA RunningType ==
  ASSUME spe \in [SPEs -> SPE], NEW s \in SPEs, NEW d \in Segments
  PROVE  [spe EXCEPT ![s] = [st |-> "running", seg |-> d]] \in [SPEs -> SPE]
<1>1. d \in 0 .. NSegment
  BY CountAssumption DEF Segments
<1>2. [st |-> "running", seg |-> d] \in SPE
  BY <1>1 DEF SPE
<1> QED BY <1>2

\* An SPE and its thread go on.
LEMMA StateType ==
  ASSUME spe \in [SPEs -> SPE], proc \in [SPEs -> Proc], NEW s \in SPEs
  PROVE  /\ \A st \in {"ready", "abandoned"} : [spe EXCEPT ![s].st = st] \in [SPEs -> SPE]
         /\ \A st \in {"work", "idle", "send", "gone"} : [proc EXCEPT ![s].st = st] \in [SPEs -> Proc]
         /\ \A st \in {"deliver", "send"}, left \in SUBSET Buckets :
              [proc EXCEPT ![s].left = left, ![s].st = st] \in [SPEs -> Proc]
<1>1. spe[s] \in SPE /\ proc[s] \in Proc
  OBVIOUS
<1>2. \A x \in SPE, st \in {"ready", "abandoned"} : [x EXCEPT !.st = st] \in SPE
  BY DEF SPE
<1>3. \A p \in Proc, st \in {"work", "idle", "send", "gone"} : [p EXCEPT !.st = st] \in Proc
  BY DEF Proc
<1>4. \A p \in Proc, st \in {"deliver", "send"}, left \in SUBSET Buckets : [p EXCEPT !.left = left, !.st = st] \in Proc
  BY DEF Proc
<1>5. \A st \in {"ready", "abandoned"} : [spe EXCEPT ![s].st = st] \in [SPEs -> SPE]
  BY <1>1, <1>2
<1>6. \A st \in {"work", "idle", "send", "gone"} : [proc EXCEPT ![s].st = st] \in [SPEs -> Proc]
  BY <1>1, <1>3
<1>7. \A st \in {"deliver", "send"}, left \in SUBSET Buckets :
        [proc EXCEPT ![s].left = left, ![s].st = st] \in [SPEs -> Proc]
  BY <1>1, <1>4
<1> QED BY <1>5, <1>6, <1>7

LEMMA LeaveType ==
  ASSUME client \in Client, shuffler \in [Buckets -> Shuffler], Leave
  PROVE  client' \in Client /\ conn' \in [SPEs -> BOOLEAN] /\ shuffler' \in [Buckets -> Shuffler]
<1>1. client' \in Client /\ conn' \in [SPEs -> BOOLEAN]
  BY ClientType DEF Leave
<1>2. ASSUME NEW b \in Buckets PROVE [shuffler[b] EXCEPT !.st = "released", !.queue = Append(@, End)] \in Shuffler
  <2>1. shuffler[b].queue \in Seq(Part \cup {End}) /\ shuffler[b] \in Shuffler
    BY DEF Shuffler
  <2>2. Append(shuffler[b].queue, End) \in Seq(Part \cup {End})
    BY <2>1
  <2>3. ASSUME NEW q \in Seq(Part \cup {End}) PROVE [shuffler[b] EXCEPT !.st = "released", !.queue = q] \in Shuffler
    BY <2>1 DEF Shuffler
  <2> QED BY <2>2, <2>3
<1>3. shuffler' \in [Buckets -> Shuffler]
  BY <1>2 DEF Leave
<1> QED BY <1>1, <1>3

\* The steps of the thread of the job that go through its SPEs.
LEMMA CheckTyped ==
  ASSUME TypeOK, NEW s \in SPEs, CheckSPE(s) \/ ConnectFails(s) \/ NoChannel(s)
  PROVE  Typed'
<1>1. CASE SkipSPE(s)
  BY <1>1, ClientType DEF SkipSPE, Turn, NextSPE, slaveVars, TypeOK, Typed
<1>2. CASE Connect(s)
  <2>1. seg' \in [Segments -> Segment] /\ proc' \in [SPEs -> Proc]
    <3>1. PICK d \in Segments :
            /\ seg' = [seg EXCEPT ![d].st = "running"]
            /\ proc' = [proc EXCEPT ![s] = [NoProc EXCEPT !.st = "start", !.seg = d]]
      BY <1>2, TypeOfJob DEF Connect, Waiting, TypeOK
    <3>2. seg' \in [Segments -> Segment]
      BY <3>1 DEF TypeOK, Segment
    <3> QED BY <3>1, <3>2, WorkType DEF TypeOK
  <2>3. spe' \in [SPEs -> SPE]
    BY <1>2, RunningType, TypeOfJob DEF Connect, Waiting, TypeOK
  <2>2. client' \in Client /\ trans' \subseteq ({"spe"} \X SPEs) \cup ({"shuffler"} \X Buckets) /\ conn' \in [SPEs -> BOOLEAN]
    BY <1>2, ClientType DEF Connect, Turn, Found, SPETrans, TypeOK
  <2> QED BY <1>2, <2>1, <2>2, <2>3 DEF Connect, TypeOK, Typed
<1>3. CASE StartSPE(s)
  <2> DEFINE StartTyped == seg' \in [Segments -> Segment] /\ spe' \in [SPEs -> SPE] /\ proc' \in [SPEs -> Proc]
  <2>1. ASSUME conn[s], proc[s].st = "idle" PROVE StartTyped
    <3>1. PICK d \in Segments :
            /\ seg' = [seg EXCEPT ![d].st = "running"]
            /\ spe' = [spe EXCEPT ![s] = [st |-> "running", seg |-> d]]
            /\ proc' = [proc EXCEPT ![s] = [NoProc EXCEPT !.st = "work", !.seg = d]]
      BY <1>3, <2>1, TypeOfJob DEF StartSPE, Waiting, TypeOK
    <3>2. seg' \in [Segments -> Segment]
      BY <3>1 DEF TypeOK, Segment
    <3> QED BY <3>1, <3>2, RunningType, WorkType DEF TypeOK
  <2>2. ASSUME ~(conn[s] /\ proc[s].st = "idle") PROVE StartTyped
    BY <1>3, <2>2 DEF StartSPE, TypeOK
  <2>3. StartTyped
    BY <2>1, <2>2
  <2> QED BY <1>3, <2>3, ClientType DEF StartSPE, Turn, Found, TypeOK, Typed
<1>4. CASE CheckRunning(s)
  BY <1>4, ClientType DEF CheckRunning, Turn, Busy, slaveVars, TypeOK, Typed
<1>5. CASE LoseJob(s)
  BY <1>5, LeaveType DEF LoseJob, TypeOK, Typed
<1>6. CASE LoseSPE(s)
  <2> DEFINE d == spe[s].seg
  <2>1. seg' \in [Segments -> Segment] /\ outcome' \in [Segments -> {"none", "data", "nothing", "failure"}]
    <3>1. CASE d \notin Segments
      BY <1>6, <3>1 DEF LoseSPE, TypeOK
    <3>2. CASE d \in Segments /\ RetriedEnough(d)
      <4>1. seg' = [seg EXCEPT ![d].st = "failed", ![d].retry = MaxRetry + 1]
        BY <1>6, <3>2 DEF LoseSPE
      <4>2. seg' \in [Segments -> Segment]
        BY <3>2, <4>1, LimitAssumption DEF TypeOK, Segment
      <4>3. outcome' \in [Segments -> {"none", "data", "nothing", "failure"}]
        BY <1>6, <3>2 DEF LoseSPE, TypeOK
      <4> QED BY <4>2, <4>3
    <3>3. CASE d \in Segments /\ ~RetriedEnough(d)
      <4>1. seg[d].retry + 1 \in 0 .. MaxRetry + 1
        BY <3>3, LimitAssumption DEF RetriedEnough, TypeOK, Segment
      <4>2. seg' = [seg EXCEPT ![d].st = "new", ![d].retry = seg[d].retry + 1] /\ outcome' = outcome
        BY <1>6, <3>3 DEF LoseSPE, TypeOK
      <4>3. seg' \in [Segments -> Segment]
        BY <3>3, <4>1, <4>2 DEF TypeOK, Segment
      <4> QED BY <4>2, <4>3 DEF TypeOK
    <3> QED BY <3>1, <3>2, <3>3
  <2>2. spe' \in [SPEs -> SPE]
    BY <1>6, StateType DEF LoseSPE, TypeOK
  <2> QED BY <1>6, <2>1, <2>2, ClientType DEF LoseSPE, Turn, NextSPE, slaveVars, TypeOK, Typed
<1>7. CASE ConnectFails(s)
  BY <1>7, ClientType DEF ConnectFails, Turn, Found, SPETrans, TypeOK, Typed
<1>8. CASE NoChannel(s)
  <2>1. spe' \in [SPEs -> SPE]
    BY <1>8, StateType DEF NoChannel, TypeOK
  <2>2. proc' \in [SPEs -> Proc]
    <3>1. NoProc \in Proc
      BY CountAssumption DEF NoProc, Proc
    <3>2. \A q \in Proc : [q EXCEPT !.st = "gone"] \in Proc
      BY DEF Proc
    <3> QED BY <1>8, <3>1, <3>2 DEF NoChannel, TypeOK
  <2> QED BY <1>8, <2>1, <2>2, ClientType DEF NoChannel, Turn, Found, SPETrans, TypeOK, Typed
<1> QED BY <1>1, <1>2, <1>3, <1>4, <1>5, <1>6, <1>7, <1>8 DEF CheckSPE

\* The other steps of the thread of the job, and of the program.
LEMMA MessageTyped ==
  ASSUME TypeOK, SegmentsMatched,
         \/ AllChecked \/ NoMessage \/ CountError \/ AllDone \/ Drained \/ Read \/ ReadEnds
         \/ \E m \in msgs : IgnoreMessage(m) \/ ErrorMessage(m) \/ DoneMessage(m) \/ DrainMessage(m)
  PROVE  Typed'
<1>1. CASE AllChecked
  BY <1>1, ClientType, LeaveType DEF AllChecked, TypeOK, Typed
<1>2. CASE NoMessage \/ CountError \/ Drained \/ ReadEnds
  BY <1>2, ClientType DEF NoMessage, CountError, Again, Drained, ReadEnds, slaveVars, TypeOK, Typed
<1>3. CASE AllDone
  BY <1>3, LeaveType DEF AllDone, TypeOK, Typed
<1>4. CASE Read
  <2>1. seg' \in [Segments -> Segment]
    BY <1>4 DEF Read, Segment, TypeOK
  <2> QED BY <1>4, <2>1 DEF Read, slaveVars, TypeOK, Typed
<1>5. ASSUME NEW m \in msgs, IgnoreMessage(m) \/ DrainMessage(m) PROVE Typed'
  BY <1>5, ClientType DEF IgnoreMessage, DrainMessage, Started, slaveVars, TypeOK, Typed
<1>6. ASSUME NEW m \in msgs, ErrorMessage(m) PROVE Typed'
  <2>1. m.id \in SPEs /\ spe[m.id].seg \in Segments
    BY <1>6 DEF ErrorMessage, SegmentsMatched
  <2>2. seg' \in [Segments -> Segment]
    BY <1>6, <2>1 DEF ErrorMessage, TypeOK, Segment
  <2>3. spe' \in [SPEs -> SPE]
    BY <1>6, <2>1 DEF ErrorMessage, TypeOK, SPE
  <2>4. outcome' \in [Segments -> {"none", "data", "nothing", "failure"}]
    BY <1>6, <2>1 DEF ErrorMessage, TypeOK
  <2> QED BY <1>6, <2>2, <2>3, <2>4, ClientType DEF ErrorMessage, slaveVars, TypeOK, Typed
<1>7. ASSUME NEW m \in msgs, DoneMessage(m) PROVE Typed'
  <2>1. m.id \in SPEs /\ spe[m.id].seg \in Segments
    BY <1>7 DEF DoneMessage, SegmentsMatched
  <2>2. seg' \in [Segments -> Segment]
    BY <1>7, <2>1 DEF DoneMessage, ReadResult, TypeOK, Segment
  <2>5. spe' \in [SPEs -> SPE]
    BY <1>7, <2>1 DEF DoneMessage, ReadResult, TypeOK, SPE
  <2>6. outcome' \in [Segments -> {"none", "data", "nothing", "failure"}]
    BY <1>7, <2>1 DEF DoneMessage, ReadResult, Outcome, TypeOK
  <2>3. result' \in [SPEs -> Seq(Segments)]
    <3>1. result[m.id] # <<>> => Tail(result[m.id]) \in Seq(Segments)
      BY <2>1 DEF TypeOK
    <3>2. PICK r \in Seq(Segments) : result' = [result EXCEPT ![m.id] = r]
      BY <1>7, <2>1, <3>1 DEF DoneMessage, ReadResult, TypeOK
    <3> QED BY <3>2 DEF TypeOK
  <2>4. client' \in Client /\ msgs' \subseteq Message
    BY <1>7, ClientType DEF DoneMessage, Again, TypeOK
  <2> QED BY <1>7, <2>2, <2>3, <2>4, <2>5, <2>6 DEF DoneMessage, TypeOK, Typed
<1> QED BY <1>1, <1>2, <1>3, <1>4, <1>5, <1>6, <1>7

LEMMA RunTyped ==
  ASSUME TypeOK, Run
  PROVE  Typed'
<1>1. client' \in Client
  BY ClientType DEF Run, TypeOK
<1>2. shuffler' \in [Buckets -> Shuffler] /\ trans' \subseteq ({"spe"} \X SPEs) \cup ({"shuffler"} \X Buckets)
  <2>1. CASE job.kind = "buckets"
    <3>1. PICK B \in SUBSET Buckets : StartShufflers(B)
      BY <2>1 DEF Run
    <3>2. \A b \in Buckets : [shuffler[b] EXCEPT !.st = "up"] \in Shuffler
      BY DEF TypeOK, Shuffler
    <3>3. shuffler' \in [Buckets -> Shuffler]
      BY <3>1, <3>2 DEF StartShufflers, TypeOK
    <3>4. trans' \subseteq ({"spe"} \X SPEs) \cup ({"shuffler"} \X Buckets)
      BY <3>1 DEF StartShufflers, ShufflerTrans, TypeOK
    <3> QED BY <3>3, <3>4
  <2>2. CASE job.kind # "buckets"
    BY <2>2 DEF Run, TypeOK
  <2> QED BY <2>1, <2>2
<1> QED BY <1>1, <1>2 DEF Run, TypeOK, Typed

\* A message with the number of an SPE or of a bucket.
LEMMA TellType ==
  ASSUME msgs \subseteq Message, NEW id \in SPEs \cup Buckets, NEW value \in {"done", "error"}, Tell(id, value)
  PROVE  msgs' \subseteq Message
<1>1. id \in 1 .. NSPE + NBucket
  BY CountAssumption DEF SPEs, Buckets
<1>2. [id |-> id, value |-> value] \in Message
  BY <1>1 DEF Message
<1> QED BY <1>2 DEF Tell

\* The steps of SPEs.
LEMMA SPETyped ==
  ASSUME TypeOK, ShufflersRun, NEW s \in SPEs, SPEStep(s) \/ ReadDataFails(s) \/ EndsEarly(s) \/ Break(s)
  PROVE  Typed'
<1>1. CASE Process(s)
  <2>1. PICK ok \in BOOLEAN :
          proc' = [proc EXCEPT ![s].ok = ok,
                               ![s].st = IF job.kind = "buckets" /\ ok THEN "deliver" ELSE "send",
                               ![s].left = IF job.kind = "buckets" /\ ok THEN Started ELSE {}]
    BY <1>1 DEF Process
  <2>2. PICK st \in {"deliver", "send"}, left \in SUBSET Buckets :
          proc' = [proc EXCEPT ![s].ok = ok, ![s].st = st, ![s].left = left]
    BY <2>1 DEF Started
  <2>3. proc' \in [SPEs -> Proc]
    <3>1. proc[s] \in Proc
      BY DEF TypeOK
    <3>2. [proc[s] EXCEPT !.ok = ok, !.st = st, !.left = left] \in Proc
      BY <3>1 DEF Proc
    <3> QED BY <2>2, <3>2 DEF TypeOK
  <2> QED BY <1>1, <2>3 DEF Process, clientVars, TypeOK, Typed
<1>2. ASSUME NEW b \in Buckets, Deliver(s, b) PROVE Typed'
  <2> DEFINE x == <<proc[s].seg, proc[s].part>>
  <2>1. x \in Part /\ shuffler[b] \in Shuffler /\ shuffler[b].queue \in Seq(Part \cup {End})
    BY <1>2 DEF Deliver, ShufflersRun, TypeOK, Shuffler, Proc, Part
  <2>2. Append(shuffler[b].queue, x) \in Seq(Part \cup {End})
    BY <2>1
  <2>3. \A q \in Seq(Part \cup {End}) : [shuffler EXCEPT ![b].queue = q] \in [Buckets -> Shuffler]
    BY DEF TypeOK, Shuffler
  <2>4. shuffler' = [shuffler EXCEPT ![b].queue = Append(shuffler[b].queue, x)]
    BY <1>2 DEF Deliver, TypeOK
  <2>5. proc' \in [SPEs -> Proc]
    <3>1. proc[s] \in Proc /\ proc[s].left \ {b} \in SUBSET Buckets
      BY DEF TypeOK, Proc
    <3>2. [proc[s] EXCEPT !.left = proc[s].left \ {b}] \in Proc
      BY <3>1 DEF Proc
    <3> QED BY <1>2, <3>2 DEF Deliver, TypeOK
  <2>6. shuffler' \in [Buckets -> Shuffler]
    BY <2>2, <2>3, <2>4
  <2> QED BY <1>2, <2>5, <2>6 DEF Deliver, clientVars, TypeOK, Typed
<1>3. ASSUME NEW b \in Buckets, DeliverFails(s, b) PROVE Typed'
  <2>1. proc' \in [SPEs -> Proc]
    BY <1>3, StateType DEF DeliverFails, TypeOK
  <2>2. msgs' \subseteq Message
    BY <1>3, TellType DEF DeliverFails, TypeOK
  <2> QED BY <1>3, <2>1, <2>2 DEF DeliverFails, clientVars, TypeOK, Typed
<1>4. CASE SendResult(s)
  <2>1. proc' \in [SPEs -> Proc]
    BY <1>4, StateType DEF SendResult, TypeOK
  <2>2. msgs' \subseteq Message
    BY <1>4, TellType DEF SendResult, TypeOK
  <2>3. Append(result[s], proc[s].seg) \in Seq(Segments)
    BY <1>4 DEF SendResult, ShufflersRun, TypeOK
  <2>4. result' \in [SPEs -> Seq(Segments)]
    BY <1>4, <2>3 DEF SendResult, TypeOK
  <2> QED BY <1>4, <2>1, <2>2, <2>4 DEF SendResult, AfterReport, clientVars, TypeOK, Typed
<1>5. CASE ReadDataFails(s)
  <2>1. proc' \in [SPEs -> Proc]
    BY <1>5, StateType DEF ReadDataFails, TypeOK
  <2>2. msgs' \subseteq Message
    BY <1>5, TellType DEF ReadDataFails, TypeOK
  <2> QED BY <1>5, <2>1, <2>2 DEF ReadDataFails, clientVars, TypeOK, Typed
<1>6. CASE SPEEnds(s)
  <2>1. proc' \in [SPEs -> Proc]
    BY <1>6, StateType DEF SPEEnds, TypeOK
  <2> QED BY <1>6, <2>1 DEF SPEEnds, clientVars, TypeOK, Typed
<1>7. CASE Break(s)
  <2>1. result' \in [SPEs -> Seq(Segments)]
    BY <1>7 DEF Break, TypeOK
  <2> QED BY <1>7, <2>1 DEF Break, clientVars, TypeOK, Typed
<1>8. CASE Begins(s) \/ EndsEarly(s)
  <2>1. proc' \in [SPEs -> Proc]
    <3>1. PICK st \in {"work", "gone"} : proc' = [proc EXCEPT ![s].st = st]
      BY <1>8 DEF Begins, EndsEarly
    <3> QED BY <3>1, StateType DEF TypeOK
  <2> QED BY <1>8, <2>1 DEF Begins, EndsEarly, clientVars, TypeOK, Typed
<1>9. CASE Delivered(s)
  <2>1. proc' \in [SPEs -> Proc]
    <3>1. CASE proc' = [proc EXCEPT ![s].st = "send"]
      BY <3>1, StateType DEF TypeOK
    <3>2. CASE proc' = [proc EXCEPT ![s].st = "work", ![s].part = @ + 1]
      <4>1. proc[s] \in Proc /\ proc[s].part + 1 \in Nat \ {0}
        BY DEF TypeOK, Proc
      <4>2. [proc[s] EXCEPT !.st = "work", !.part = proc[s].part + 1] \in Proc
        BY <4>1 DEF Proc
      <4> QED BY <3>2, <4>2 DEF TypeOK
    <3> QED BY <1>9, <3>1, <3>2 DEF Delivered
  <2> QED BY <1>9, <2>1 DEF Delivered, clientVars, TypeOK, Typed
<1> QED BY <1>1, <1>2, <1>3, <1>4, <1>5, <1>6, <1>7, <1>8, <1>9 DEF SPEStep

\* The steps of shufflers.
LEMMA ShufflerTyped ==
  ASSUME TypeOK, NEW b \in Buckets, ShufflerStep(b)
  PROVE  Typed'
<1> DEFINE q == shuffler[b].queue
<1>1. shuffler[b] \in Shuffler /\ q \in Seq(Part \cup {End}) /\ shuffler[b].file \in Seq(Part)
  BY DEF TypeOK, Shuffler
<1>2. q # <<>> /\ Head(q) \in Part \cup {End} /\ Tail(q) \in Seq(Part \cup {End})
  BY <1>1 DEF ShufflerStep, Shuffle, ShufflerEnds
<1>3. CASE Shuffle(b)
  <2>1. Append(shuffler[b].file, Head(q)) \in Seq(Part)
    BY <1>1, <1>2, <1>3 DEF Shuffle
  <2>2. \A x \in Seq(Part \cup {End}), y \in Seq(Part) :
          [shuffler EXCEPT ![b].queue = x, ![b].file = y] \in [Buckets -> Shuffler]
    BY DEF TypeOK, Shuffler
  <2>3. shuffler' = [shuffler EXCEPT ![b].queue = Tail(q), ![b].file = Append(shuffler[b].file, Head(q))]
    BY <1>1, <1>3 DEF Shuffle, TypeOK
  <2>4. shuffler' \in [Buckets -> Shuffler]
    BY <1>2, <2>1, <2>2, <2>3
  <2> QED BY <1>3, <2>4 DEF Shuffle, clientVars, TypeOK, Typed
<1>4. CASE ShufflerEnds(b)
  <2>1. \A x \in Seq(Part \cup {End}) : [shuffler EXCEPT ![b].queue = x, ![b].st = "done"] \in [Buckets -> Shuffler]
    BY DEF TypeOK, Shuffler
  <2>2. shuffler' = [shuffler EXCEPT ![b].queue = Tail(q), ![b].st = "done"]
    BY <1>1, <1>4 DEF ShufflerEnds, TypeOK
  <2>3. shuffler' \in [Buckets -> Shuffler]
    BY <1>2, <2>1, <2>2
  <2>4. msgs' \subseteq Message
    BY <1>4, TellType DEF ShufflerEnds, TypeOK
  <2> QED BY <1>4, <2>3, <2>4 DEF ShufflerEnds, AfterReport, clientVars, TypeOK, Typed
<1> QED BY <1>3, <1>4 DEF ShufflerStep

-----------------------------------------------------------------------------
(* The segments.  In a step of the client a segment starts on an SPE, or comes *)
(* to an end there, or is read, or all stay as they are.                       *)

Starts(s, d) ==
  /\ client.pc = "check" /\ client'.pc = "check"
  /\ spe[s].st \in {"unconnected", "ready"} /\ seg[d].st = "new"
  /\ seg' = [seg EXCEPT ![d].st = "running"]
  /\ spe' = [spe EXCEPT ![s] = [st |-> "running", seg |-> d]]
  /\ \E st \in {"start", "work"} : proc' = [proc EXCEPT ![s] = [NoProc EXCEPT !.st = st, !.seg = d]]
  /\ UNCHANGED <<job, outcome, progress, avail, totalSPE, shuffler>>

\* SPE s is not running any more, and its segment is at st.
Ends(s, st) ==
  LET d == spe[s].seg IN
  /\ client.pc \in {"check", "recv"} /\ client'.pc \in {"check", "recv", "error"}
  /\ spe[s].st = "running"
  /\ \A e \in Segments \ {d} : seg'[e] = seg[e] /\ outcome'[e] = outcome[e]
  /\ seg'[d].st = st
  /\ \A u \in SPEs \ {s} : spe'[u] = spe[u]
  /\ spe'[s].st \in {"ready", "abandoned"}
  /\ outcome'[d] = "none" <=> st = "new"
  /\ st = "new" => Started = {}
  /\ IF st = "new" THEN client'.pc = "check" /\ UNCHANGED <<progress, avail>>
     ELSE IF client'.pc = "error" THEN UNCHANGED <<progress, avail>>
     ELSE progress' = progress + 1 /\ avail' = avail + 1
  /\ UNCHANGED <<job, proc, shuffler>>

Stays ==
  /\ UNCHANGED <<seg, outcome>>
  /\ \A s \in SPEs : spe'[s] = spe[s] \/ (spe[s].st = "unconnected" /\ spe'[s].st = "ready")
  /\ UNCHANGED <<progress, avail, Uncounted>> \/ CountError

LEMMA SegmentSteps ==
  ASSUME TypeOK, SegmentsMatched, [Next]_vars
  PROVE  \/ Stays
         \/ \E s \in SPEs, d \in Segments : Starts(s, d)
         \/ \E s \in SPEs, st \in {"new", "done", "failed"} : Ends(s, st)
         \/ Read
<1>1. ASSUME NEW s \in SPEs, Connect(s) PROVE \E d \in Segments : Starts(s, d)
  <2>1. PICK d \in Waiting(s) :
       /\ seg' = [seg EXCEPT ![d].st = "running"]
       /\ spe' = [spe EXCEPT ![s] = [st |-> "running", seg |-> d]]
       /\ proc' = [proc EXCEPT ![s] = [NoProc EXCEPT !.st = "start", !.seg = d]]
    BY <1>1 DEF Connect
  <2>2. client'.pc = "check" /\ client.pc = "check"
    BY <1>1 DEF Connect, Turn, Found, TypeOK, Client
  <2>3. Starts(s, d)
    BY <1>1, <2>1, <2>2 DEF Connect, Starts, Waiting
  <2> QED BY <2>3, TypeOfJob DEF Waiting, TypeOK
<1>2. ASSUME NEW s \in SPEs, StartSPE(s) PROVE Stays \/ \E d \in Segments : Starts(s, d)
  <2>1. CASE conn[s] /\ proc[s].st = "idle"
    <3>1. PICK d \in Waiting(s) :
            /\ seg' = [seg EXCEPT ![d].st = "running"]
            /\ spe' = [spe EXCEPT ![s] = [st |-> "running", seg |-> d]]
            /\ proc' = [proc EXCEPT ![s] = [NoProc EXCEPT !.st = "work", !.seg = d]]
      BY <1>2, <2>1 DEF StartSPE
    <3>2. client'.pc = "check" /\ client.pc = "check"
      BY <1>2 DEF StartSPE, Turn, Found, TypeOK, Client
    <3>3. Starts(s, d)
      BY <1>2, <3>1, <3>2 DEF StartSPE, Starts, Waiting
    <3> QED BY <3>3, TypeOfJob DEF Waiting, TypeOK
  <2>2. CASE ~(conn[s] /\ proc[s].st = "idle")
    BY <1>2, <2>2 DEF StartSPE, Stays, Uncounted, Turn, Found, TypeOK, Client
  <2> QED BY <2>1, <2>2
<1>3. ASSUME NEW s \in SPEs, LoseSPE(s) PROVE \E st \in {"new", "done", "failed"} : Ends(s, st)
  <2> DEFINE d == spe[s].seg
  <2>1. spe[s].st = "running" /\ d \in Segments /\ client.pc = "check" /\ client'.pc = "check" /\ UNCHANGED <<job, proc, shuffler>>
    BY <1>3 DEF LoseSPE, Turn, NextSPE, slaveVars, SegmentsMatched, TypeOK, Client
  <2>2. spe'[s].st = "abandoned" /\ \A u \in SPEs \ {s} : spe'[u] = spe[u]
    BY <1>3 DEF LoseSPE, TypeOK, SPE
  <2>3. CASE RetriedEnough(d)
    <3>1. seg' = [seg EXCEPT ![d].st = "failed", ![d].retry = MaxRetry + 1] /\ outcome' = [outcome EXCEPT ![d] = "failure"]
      BY <1>3, <2>3 DEF LoseSPE
    <3>2. seg'[d].st = "failed" /\ \A e \in Segments \ {d} : seg'[e] = seg[e]
      BY <2>1, <3>1 DEF TypeOK, Segment
    <3>3. outcome'[d] = "failure" /\ \A e \in Segments \ {d} : outcome'[e] = outcome[e]
      BY <2>1, <3>1 DEF TypeOK
    <3>4. progress' = progress + 1 /\ avail' = avail + 1
      BY <1>3, <2>3 DEF LoseSPE
    <3> QED BY <2>1, <2>2, <3>2, <3>3, <3>4 DEF Ends
  <2>4. CASE ~RetriedEnough(d)
    <3>1. seg' = [seg EXCEPT ![d].st = "new", ![d].retry = seg[d].retry + 1] /\ outcome' = outcome
      BY <1>3, <2>1, <2>4 DEF LoseSPE, TypeOK
    <3>2. seg'[d].st = "new" /\ \A e \in Segments \ {d} : seg'[e] = seg[e]
      BY <2>1, <3>1 DEF TypeOK, Segment
    <3>3. outcome[d] = "none"
      BY <2>1 DEF SegmentsMatched
    <3>4. UNCHANGED <<progress, avail>> /\ Started = {}
      BY <1>3, <2>4 DEF LoseSPE, OutputInBuckets
    <3> QED BY <2>1, <2>2, <3>1, <3>2, <3>3, <3>4 DEF Ends
  <2> QED BY <2>3, <2>4
<1>4. ASSUME NEW m \in msgs, ErrorMessage(m) PROVE \E s \in SPEs, st \in {"new", "done", "failed"} : Ends(s, st)
  <2> DEFINE s == m.id
             d == spe[m.id].seg
  <2>1. /\ s \in SPEs /\ spe[s].st = "running" /\ d \in Segments /\ client.pc = "recv" /\ client'.pc = "error"
        /\ UNCHANGED <<job, proc, shuffler, progress, avail>>
    BY <1>4 DEF ErrorMessage, slaveVars, SegmentsMatched, TypeOK, Client
  <2>2. spe'[s].st = "ready" /\ \A u \in SPEs \ {s} : spe'[u] = spe[u]
    BY <1>4 DEF ErrorMessage, TypeOK, SPE
  <2>3. seg'[d].st = "failed" /\ \A e \in Segments \ {d} : seg'[e] = seg[e]
    BY <1>4, <2>1 DEF ErrorMessage, TypeOK, Segment
  <2>4. outcome'[d] = "failure" /\ \A e \in Segments \ {d} : outcome'[e] = outcome[e]
    BY <1>4, <2>1 DEF ErrorMessage, TypeOK
  <2>5. Ends(s, "failed")
    BY <2>1, <2>2, <2>3, <2>4 DEF Ends
  <2> QED BY <2>1, <2>5
<1>5. ASSUME NEW m \in msgs, DoneMessage(m) PROVE \E s \in SPEs, st \in {"new", "done", "failed"} : Ends(s, st)
  <2> DEFINE s == m.id
             d == spe[m.id].seg
  <2>1. /\ s \in SPEs /\ spe[s].st = "running" /\ d \in Segments /\ client.pc = "recv" /\ client'.pc \in {"check", "recv"}
        /\ UNCHANGED <<job, proc, shuffler>> /\ progress' = progress + 1 /\ avail' = avail + 1
    BY <1>5 DEF DoneMessage, Again, Checking, SegmentsMatched, TypeOK, Client
  <2>2. spe'[s].st = "ready" /\ \A u \in SPEs \ {s} : spe'[u] = spe[u]
    BY <1>5 DEF DoneMessage, ReadResult, TypeOK, SPE
  <2>3. seg'[d].st = "done" /\ \A e \in Segments \ {d} : seg'[e] = seg[e]
    BY <1>5, <2>1 DEF DoneMessage, ReadResult, TypeOK, Segment
  <2>4. outcome'[d] \in {"data", "nothing"} /\ \A e \in Segments \ {d} : outcome'[e] = outcome[e]
    BY <1>5, <2>1 DEF DoneMessage, ReadResult, Outcome, TypeOK
  <2>5. Ends(s, "done")
    BY <2>1, <2>2, <2>3, <2>4 DEF Ends
  <2> QED BY <2>1, <2>5
<1>12. ASSUME NEW s \in SPEs, NoChannel(s) PROVE Stays
  <2>1. \A u \in SPEs : spe'[u] = spe[u] \/ (spe[u].st = "unconnected" /\ spe'[u].st = "ready")
    BY <1>12 DEF NoChannel, TypeOK, SPE
  <2> QED BY <1>12, <2>1 DEF NoChannel, Turn, Found, TypeOK, Client, Stays, Uncounted
<1>6. ASSUME NEW s \in SPEs, SkipSPE(s) \/ CheckRunning(s) \/ LoseJob(s) \/ ConnectFails(s) PROVE Stays
  BY <1>6 DEF SkipSPE, CheckRunning, LoseJob, ConnectFails, Turn, NextSPE, Busy, Found, Leave, TypeOK, Client, Stays, Uncounted
<1>7. ASSUME NEW s \in SPEs, SPEStep(s) \/ ReadDataFails(s) \/ EndsEarly(s) \/ Break(s) PROVE Stays
  BY <1>7 DEF SPEStep, Begins, EndsEarly, Process, Delivered, Deliver, DeliverFails, SendResult, SPEEnds, ReadDataFails, Break, clientVars, Stays, Uncounted
<1>8. ASSUME NEW b \in Buckets, ShufflerStep(b) PROVE Stays
  BY <1>8 DEF ShufflerStep, Shuffle, ShufflerEnds, clientVars, Stays, Uncounted
<1>9. ASSUME NEW m \in msgs, IgnoreMessage(m) \/ DrainMessage(m) PROVE Stays
  BY <1>9 DEF IgnoreMessage, DrainMessage, Checking, Stays, Uncounted
<1>10. ASSUME AllChecked \/ AllDone PROVE Stays
  BY <1>10 DEF AllChecked, AllDone, Leave, TypeOK, Client, Stays, Uncounted
<1>11. ASSUME Run \/ CountError \/ Drained \/ NoMessage \/ ReadEnds \/ UNCHANGED vars PROVE Stays
  BY <1>11 DEF Run, CountError, Drained, NoMessage, ReadEnds, vars, Checking, TypeOK, Client, Stays, Uncounted
<1> QED BY <1>1, <1>2, <1>3, <1>4, <1>5, <1>6, <1>7, <1>8, <1>9, <1>10, <1>11, <1>12 DEF Next, ClientStep, CheckSPE

\* An SPE and the segment that it gets were both free, and are matched now.
LEMMA MatchedStep ==
  ASSUME TypeOK, SegmentsMatched, [Next]_vars
  PROVE  SegmentsMatched'
<1>1. seg \in [Segments -> Segment] /\ spe \in [SPEs -> SPE] /\ outcome \in [Segments -> {"none", "data", "nothing", "failure"}]
  BY DEF TypeOK
<1>2. CASE Stays
  <2>1. \A u \in SPEs : (spe'[u].st = "running" <=> spe[u].st = "running") /\ (spe[u].st = "running" => spe'[u] = spe[u])
    BY <1>2 DEF Stays
  <2>2. ASSUME NEW d \in Segments, seg'[d].st = "running" PROVE \E u \in SPEs : spe'[u] = [st |-> "running", seg |-> d]
    <3>1. PICK u \in SPEs : spe[u] = [st |-> "running", seg |-> d]
      BY <1>2, <2>2 DEF Stays, SegmentsMatched
    <3> QED BY <2>1, <3>1
  <2>3. UNCHANGED <<seg, outcome>>
    BY <1>2 DEF Stays
  <2>4. \A s1, s2 \in SPEs : spe'[s1].st = "running" /\ spe'[s1] = spe'[s2] => s1 = s2
    BY <2>1 DEF SegmentsMatched
  <2>5. \A s \in SPEs : spe'[s].st = "running" => spe'[s].seg \in Segments /\ seg'[spe'[s].seg].st = "running"
    BY <2>1, <2>3 DEF SegmentsMatched
  <2> QED BY <2>2, <2>3, <2>4, <2>5 DEF SegmentsMatched
<1>3. ASSUME NEW s \in SPEs, NEW d \in Segments, Starts(s, d) PROVE SegmentsMatched'
  <2>1. /\ spe'[s] = [st |-> "running", seg |-> d] /\ \A u \in SPEs \ {s} : spe'[u] = spe[u]
        /\ seg'[d].st = "running" /\ \A e \in Segments \ {d} : seg'[e] = seg[e]
        /\ seg[d].st = "new" /\ spe[s].st # "running" /\ outcome' = outcome
    BY <1>1, <1>3 DEF Starts, Segment
  <2>2. \A u \in SPEs : spe[u].st = "running" => spe[u].seg # d /\ u # s
    BY <2>1 DEF SegmentsMatched
  <2>3. ASSUME NEW u \in SPEs, spe'[u].st = "running" PROVE spe'[u].seg \in Segments /\ seg'[spe'[u].seg].st = "running"
    BY <2>1, <2>2, <2>3 DEF SegmentsMatched
  <2>4. ASSUME NEW e \in Segments, seg'[e].st = "running" PROVE \E u \in SPEs : spe'[u] = [st |-> "running", seg |-> e]
    <3>1. CASE e = d
      BY <2>1, <3>1
    <3>2. CASE e # d
      <4>1. PICK u \in SPEs : spe[u] = [st |-> "running", seg |-> e]
        BY <2>1, <2>4, <3>2 DEF SegmentsMatched
      <4> QED BY <2>1, <2>2, <4>1
    <3> QED BY <3>1, <3>2
  <2>5. ASSUME NEW u1 \in SPEs, NEW u2 \in SPEs, spe'[u1].st = "running", spe'[u1] = spe'[u2] PROVE u1 = u2
    BY <2>1, <2>2, <2>5 DEF SegmentsMatched
  <2>6. \A e \in Segments : outcome'[e] = "none" <=> seg'[e].st \in {"new", "running"}
    BY <2>1 DEF SegmentsMatched
  <2> QED BY <2>3, <2>4, <2>5, <2>6 DEF SegmentsMatched
<1>4. ASSUME NEW s \in SPEs, NEW st \in {"new", "done", "failed"}, Ends(s, st) PROVE SegmentsMatched'
  <2> DEFINE d == spe[s].seg
  <2>1. /\ d \in Segments /\ spe[s].st = "running" /\ spe'[s].st # "running" /\ \A u \in SPEs \ {s} : spe'[u] = spe[u]
        /\ seg'[d].st = st /\ \A e \in Segments \ {d} : seg'[e] = seg[e] /\ outcome'[e] = outcome[e]
        /\ outcome'[d] = "none" <=> st = "new"
    BY <1>4 DEF Ends, SegmentsMatched
  <2>2. \A u \in SPEs \ {s} : spe[u].st = "running" => spe[u].seg # d
    <3>1. SUFFICES ASSUME NEW u \in SPEs \ {s}, spe[u].st = "running", spe[u].seg = d PROVE FALSE
      OBVIOUS
    <3>2. spe[u] = spe[s]
      BY <1>1, <2>1, <3>1 DEF SPE
    <3> QED BY <2>1, <3>1, <3>2 DEF SegmentsMatched
  <2>3. ASSUME NEW u \in SPEs, spe'[u].st = "running" PROVE spe'[u].seg \in Segments /\ seg'[spe'[u].seg].st = "running"
    BY <2>1, <2>2, <2>3 DEF SegmentsMatched
  <2>4. ASSUME NEW e \in Segments, seg'[e].st = "running" PROVE \E u \in SPEs : spe'[u] = [st |-> "running", seg |-> e]
    <3>1. e # d
      BY <2>1, <2>4
    <3>2. PICK u \in SPEs : spe[u] = [st |-> "running", seg |-> e]
      BY <2>1, <2>4, <3>1 DEF SegmentsMatched
    <3> QED BY <2>1, <3>1, <3>2
  <2>5. ASSUME NEW u1 \in SPEs, NEW u2 \in SPEs, spe'[u1].st = "running", spe'[u1] = spe'[u2] PROVE u1 = u2
    BY <2>1, <2>5 DEF SegmentsMatched
  <2>6. \A e \in Segments : outcome'[e] = "none" <=> seg'[e].st \in {"new", "running"}
    BY <2>1 DEF SegmentsMatched
  <2> QED BY <2>3, <2>4, <2>5, <2>6 DEF SegmentsMatched
<1>5. CASE Read
  <2>1. PICK d \in Segments : seg[d].st \in {"done", "failed"} /\ seg' = [seg EXCEPT ![d].st = "read"]
    BY <1>5 DEF Read
  <2>2. seg'[d].st = "read" /\ \A e \in Segments \ {d} : seg'[e] = seg[e]
    BY <1>1, <2>1 DEF Segment
  <2>3. \A e \in Segments : (seg'[e].st = "running" <=> seg[e].st = "running")
                            /\ (seg'[e].st \in {"new", "running"} <=> seg[e].st \in {"new", "running"})
    BY <2>1, <2>2
  <2>4. UNCHANGED <<spe, outcome>>
    BY <1>5 DEF Read
  <2> QED BY <2>3, <2>4 DEF SegmentsMatched
<1> QED BY <1>2, <1>3, <1>4, <1>5, SegmentSteps

\* Sets of segments have numbers.
LEMMA SegmentCounts ==
  /\ IsFiniteSet(Segments) /\ Cardinality(Segments) = NSegment
  /\ \A S \in SUBSET Segments : IsFiniteSet(S) /\ Cardinality(S) \in 0 .. NSegment
  /\ \A S \in SUBSET Segments : \A d \in Segments \ S : Cardinality(S \cup {d}) = Cardinality(S) + 1
<1>1. IsFiniteSet(Segments) /\ Cardinality(Segments) = NSegment
  BY FS_Interval, CountAssumption DEF Segments
<1>2. ASSUME NEW S \in SUBSET Segments PROVE IsFiniteSet(S) /\ Cardinality(S) \in 0 .. NSegment
  <2>1. IsFiniteSet(S) /\ Cardinality(S) <= Cardinality(Segments)
    BY <1>1, FS_Subset
  <2> QED BY <1>1, <2>1, FS_CardinalityType
<1>3. \A S \in SUBSET Segments : \A d \in Segments \ S : Cardinality(S \cup {d}) = Cardinality(S) + 1
  BY <1>2, FS_AddElement
<1> QED BY <1>1, <1>2, <1>3

\* Whatever ends is counted once, at once or after its error is written.
LEMMA CountersStep ==
  ASSUME TypeOK, CountersAgree, SegmentsMatched, [Next]_vars
  PROVE  CountersAgree' /\ progress' \in Nat /\ avail' \in Nat
<1>1. /\ progress \in Nat /\ avail \in Nat /\ client \in Client /\ seg \in [Segments -> Segment]
      /\ Finished \subseteq Segments /\ ReadSegments \subseteq Segments
      /\ Cardinality(Finished) \in Nat /\ Cardinality(ReadSegments) \in Nat /\ Uncounted \in {0, 1}
  BY SegmentCounts, CountAssumption DEF TypeOK, Finished, ReadSegments, Uncounted
<1>2. CASE Stays
  <2>1. UNCHANGED <<Finished, ReadSegments>>
    BY <1>2 DEF Stays, Finished, ReadSegments
  <2>2. CASE UNCHANGED <<progress, avail, Uncounted>>
    BY <1>1, <2>1, <2>2 DEF CountersAgree
  <2>3. CASE CountError
    <3>1. progress' = progress + 1 /\ avail' = avail + 1 /\ Uncounted = 1 /\ Uncounted' = 0
      BY <2>3, <1>1 DEF CountError, Uncounted, Again, Checking, Client
    <3> QED BY <1>1, <2>1, <3>1 DEF CountersAgree
  <2> QED BY <1>2, <2>2, <2>3 DEF Stays
<1>3. ASSUME NEW s \in SPEs, NEW d \in Segments, Starts(s, d) PROVE CountersAgree' /\ UNCHANGED <<progress, avail>>
  <2>1. seg[d].st = "new" /\ seg'[d].st = "running" /\ \A e \in Segments \ {d} : seg'[e] = seg[e]
    BY <1>1, <1>3 DEF Starts, Segment
  <2>2. Finished' = Finished /\ ReadSegments' = ReadSegments
    BY <2>1 DEF Finished, ReadSegments
  <2>3. UNCHANGED <<progress, avail, Uncounted>>
    BY <1>3 DEF Starts, Uncounted
  <2> QED BY <2>2, <2>3 DEF CountersAgree
<1>4. ASSUME NEW s \in SPEs, NEW st \in {"new", "done", "failed"}, Ends(s, st)
      PROVE  CountersAgree' /\ progress' \in Nat /\ avail' \in Nat
  <2> DEFINE d == spe[s].seg
  <2>1. /\ d \in Segments /\ seg[d].st = "running" /\ seg'[d].st = st /\ \A e \in Segments \ {d} : seg'[e] = seg[e]
        /\ Uncounted = 0
    BY <1>4 DEF Ends, SegmentsMatched, Uncounted
  <2>2. ReadSegments' = ReadSegments
    BY <2>1 DEF ReadSegments
  <2>3. CASE st = "new"
    <3>1. Finished' = Finished
      BY <2>1, <2>3 DEF Finished
    <3>2. UNCHANGED <<progress, avail>> /\ Uncounted' = 0
      BY <1>4, <2>3 DEF Ends, Uncounted
    <3> QED BY <1>1, <2>1, <2>2, <3>1, <3>2 DEF CountersAgree
  <2>4. CASE st # "new"
    <3>1. Finished' = Finished \cup {d} /\ d \notin Finished
      BY <2>1, <2>4 DEF Finished
    <3>2. Cardinality(Finished') = Cardinality(Finished) + 1
      BY <1>1, <2>1, <3>1, SegmentCounts
    <3>3. \/ UNCHANGED <<progress, avail>> /\ Uncounted' = 1
          \/ progress' = progress + 1 /\ avail' = avail + 1 /\ Uncounted' = 0
      BY <1>4, <2>4 DEF Ends, Uncounted
    <3> QED BY <1>1, <2>1, <2>2, <3>2, <3>3 DEF CountersAgree
  <2> QED BY <2>3, <2>4
<1>5. ASSUME Read PROVE CountersAgree' /\ progress' \in Nat /\ avail' \in Nat
  <2>1. PICK d \in Segments : seg[d].st \in {"done", "failed"} /\ seg' = [seg EXCEPT ![d].st = "read"]
    BY <1>5 DEF Read
  <2>2. seg'[d].st = "read" /\ \A e \in Segments \ {d} : seg'[e] = seg[e]
    BY <1>1, <2>1 DEF Segment
  <2>3. Finished' = Finished
    BY <2>1, <2>2 DEF Finished
  <2>4. ReadSegments' = ReadSegments \cup {d} /\ d \notin ReadSegments
    BY <2>1, <2>2 DEF ReadSegments
  <2>5. Cardinality(ReadSegments') = Cardinality(ReadSegments) + 1
    BY <1>1, <2>4, SegmentCounts
  <2>6. progress' = progress /\ Uncounted' = Uncounted /\ avail > 0 /\ avail' = avail - 1
    BY <1>5 DEF Read, Uncounted
  <2> QED BY <1>1, <2>3, <2>5, <2>6 DEF CountersAgree
<1> QED BY <1>1, <1>2, <1>3, <1>4, <1>5, SegmentSteps DEF Stays

\* The counters are within their bounds because they agree with the segments.
LEMMA CounterBounds ==
  ASSUME CountersAgree', progress' \in Nat, avail' \in Nat
  PROVE  progress' \in 0 .. NSegment /\ avail' \in 0 .. NSegment
<1>1. Cardinality(Finished') \in 0 .. NSegment /\ Cardinality(ReadSegments') \in 0 .. NSegment
  <2>1. Finished' \in SUBSET Segments /\ ReadSegments' \in SUBSET Segments
    BY DEF Finished, ReadSegments
  <2> QED BY <2>1, SegmentCounts
<1>2. Uncounted' \in {0, 1}
  BY DEF Uncounted
<1> QED BY <1>1, <1>2, CountAssumption DEF CountersAgree

-----------------------------------------------------------------------------
(* The other parts of the invariant. *)

Abandoned == {s \in SPEs : spe[s].st = "abandoned"}
Busying == {"check", "recv", "error"}

\* The number of SPEs stays, or the thread of the job has come to its end.
Same == client.pc \in Busying /\ client'.pc \in Busying /\ UNCHANGED <<Abandoned, totalSPE>>
Over == client'.pc \in {"drain", "end"} /\ (totalSPE' = totalSPE \/ totalSPE' = 0)

LEMMA AbandonedSteps ==
  ASSUME TypeOK, SegmentsMatched, [Next]_vars
  PROVE  \/ Run \/ Same \/ Over \/ UNCHANGED <<client, spe, totalSPE>>
         \/ \E s \in SPEs : LoseSPE(s)
<1>1. ASSUME NEW s \in SPEs, Connect(s) PROVE Same
  BY <1>1 DEF Connect, Turn, Found, Abandoned, Busying, TypeOK, Client, Same
<1>2. ASSUME NEW s \in SPEs, StartSPE(s) PROVE Same
  <2>1. client.pc \in Busying /\ client'.pc \in Busying /\ UNCHANGED totalSPE
    BY <1>2 DEF StartSPE, Turn, Found, Busying, TypeOK, Client
  <2>2. spe[s].st = "ready" /\ (spe' = spe \/ \E d : spe' = [spe EXCEPT ![s] = [st |-> "running", seg |-> d]])
    BY <1>2 DEF StartSPE
  <2>3. ASSUME NEW d, spe' = [spe EXCEPT ![s] = [st |-> "running", seg |-> d]] PROVE UNCHANGED Abandoned
    <3>1. \A u \in SPEs : spe'[u].st = "abandoned" <=> spe[u].st = "abandoned"
      BY <2>2, <2>3 DEF TypeOK
    <3> QED BY <3>1 DEF Abandoned
  <2>4. UNCHANGED Abandoned
    BY <2>2, <2>3 DEF Abandoned
  <2> QED BY <2>1, <2>4 DEF Same
<1>11. ASSUME NEW s \in SPEs, NoChannel(s) PROVE Same
  <2>1. \A u \in SPEs : spe'[u].st = "abandoned" <=> spe[u].st = "abandoned"
    BY <1>11 DEF NoChannel, TypeOK, SPE
  <2> QED BY <1>11, <2>1 DEF NoChannel, Turn, Found, Abandoned, Busying, TypeOK, Client, Same
<1>3. ASSUME NEW s \in SPEs, SkipSPE(s) \/ CheckRunning(s) \/ ConnectFails(s) PROVE Same
  BY <1>3 DEF SkipSPE, CheckRunning, ConnectFails, Turn, NextSPE, Busy, Found, Abandoned, Busying, TypeOK, Client, Same, Over
<1>4. ASSUME AllChecked \/ AllDone \/ Drained \/ \E s \in SPEs : LoseJob(s) PROVE Same \/ Over
  BY <1>4 DEF AllChecked, AllDone, Drained, LoseJob, Leave, Abandoned, Busying, TypeOK, Client, Same, Over
<1>5. ASSUME NEW m \in msgs, ErrorMessage(m) PROVE Same
  <2>1. UNCHANGED Abandoned
    BY <1>5 DEF ErrorMessage, Abandoned, TypeOK, SPE
  <2> QED BY <1>5, <2>1 DEF ErrorMessage, Busying, TypeOK, Client, Same, Over
<1>6. ASSUME NEW m \in msgs, DoneMessage(m) PROVE Same
  <2>1. UNCHANGED Abandoned
    BY <1>6 DEF DoneMessage, ReadResult, Abandoned, TypeOK, SPE
  <2> QED BY <1>6, <2>1 DEF DoneMessage, Again, Checking, Busying, TypeOK, Client, Same, Over
<1>7. ASSUME CountError \/ NoMessage \/ \E m \in msgs : IgnoreMessage(m) PROVE Same
  BY <1>7 DEF CountError, NoMessage, IgnoreMessage, Again, Checking, Abandoned, Busying, TypeOK, Client, Same, Over
<1>8. ASSUME Read \/ ReadEnds \/ UNCHANGED vars \/ \E m \in msgs : DrainMessage(m) PROVE UNCHANGED <<client, spe, totalSPE>>
  BY <1>8 DEF Read, ReadEnds, vars, DrainMessage
<1>9. ASSUME NEW s \in SPEs, SPEStep(s) \/ ReadDataFails(s) \/ EndsEarly(s) \/ Break(s) PROVE UNCHANGED <<client, spe, totalSPE>>
  BY <1>9 DEF SPEStep, Begins, EndsEarly, Process, Delivered, Deliver, DeliverFails, SendResult, SPEEnds, ReadDataFails, Break, clientVars
<1>10. ASSUME NEW b \in Buckets, ShufflerStep(b) PROVE UNCHANGED <<client, spe, totalSPE>>
  BY <1>10 DEF ShufflerStep, Shuffle, ShufflerEnds, clientVars
<1> QED
  BY <1>1, <1>2, <1>3, <1>4, <1>5, <1>6, <1>7, <1>8, <1>9, <1>10, <1>11 DEF Next, ClientStep, CheckSPE

\* The client's number of SPEs is that of those it has not abandoned.
LEMMA CountedStep ==
  ASSUME TypeOK, SegmentsMatched, SPEsCounted, [Next]_vars
  PROVE  SPEsCounted' /\ totalSPE' \in 0 .. NSPE
<1>1. totalSPE \in 0 .. NSPE /\ spe \in [SPEs -> SPE] /\ client \in Client /\ NSPE \in Nat
  BY CountAssumption DEF TypeOK
<1>2. IsFiniteSet(SPEs) /\ Cardinality(SPEs) = NSPE
  BY <1>1, FS_Interval DEF SPEs
<1>3. IsFiniteSet(Abandoned) /\ Cardinality(Abandoned) \in Nat
  BY <1>2, FS_Subset, FS_CardinalityType DEF Abandoned
<1>4. CASE Run
  <2>1. UNCHANGED spe /\ client.pc = "run" /\ client'.pc # "run" /\ Abandoned' = {}
    BY <1>1, <1>4 DEF Run, Checking, SPEsCounted, Abandoned, Client
  <2>2. (client'.pc = "end" /\ totalSPE' = totalSPE) \/ totalSPE' = NSPE
    BY <1>1, <1>4 DEF Run, Client
  <2>3. Cardinality(Abandoned') = 0
    BY <2>1, FS_EmptySet
  <2> QED BY <1>1, <2>1, <2>2, <2>3 DEF SPEsCounted, Abandoned
<1>5. ASSUME NEW s \in SPEs, LoseSPE(s) PROVE SPEsCounted' /\ totalSPE' \in 0 .. NSPE
  <2>1. client.pc = "check" /\ client'.pc = "check" /\ totalSPE' = totalSPE - 1 /\ spe[s].st = "running"
    BY <1>1, <1>5 DEF LoseSPE, Turn, NextSPE, Client
  <2>2. Abandoned' = Abandoned \cup {s} /\ s \notin Abandoned
    BY <1>1, <1>5, <2>1 DEF LoseSPE, Abandoned, SPE
  <2>3. Cardinality(Abandoned') = Cardinality(Abandoned) + 1
    BY <1>3, <2>2, FS_AddElement
  <2>4. Cardinality(Abandoned') <= NSPE
    <3>1. Abandoned' \subseteq SPEs
      BY DEF Abandoned
    <3> QED BY <1>2, <3>1, FS_Subset
  <2>5. totalSPE + Cardinality(Abandoned) = NSPE
    BY <2>1 DEF SPEsCounted, Abandoned
  <2> QED BY <1>1, <1>3, <2>1, <2>3, <2>4, <2>5 DEF SPEsCounted, Abandoned
<1>6. CASE Over
  BY <1>1, <1>6 DEF SPEsCounted, Over
<1>7. CASE UNCHANGED <<client, spe, totalSPE>>
  BY <1>1, <1>7 DEF SPEsCounted
<1>8. CASE Same
  BY <1>1, <1>8 DEF SPEsCounted, Busying, Abandoned, Same
<1> QED BY <1>4, <1>5, <1>6, <1>7, <1>8, AbandonedSteps

\* Shufflers are started by run, and told of the end of the job by the end of its thread.
Later ==
  /\ client'.pc = "run" => client.pc = "run"
  /\ client'.pc \in Busying => client.pc \in Busying
  /\ client.pc \in {"drain", "end"} => client'.pc \in {"drain", "end"}

LEMMA ClientSteps ==
  ASSUME TypeOK, [Next]_vars
  PROVE  job' = job /\ (Run \/ Later)
<1>1. ASSUME NEW s \in SPEs, CheckSPE(s) \/ ConnectFails(s) \/ NoChannel(s) PROVE Later /\ job' = job
  BY <1>1 DEF CheckSPE, SkipSPE, Connect, ConnectFails, NoChannel, StartSPE, CheckRunning, LoseJob, LoseSPE, Later, Turn, NextSPE, Busy, Found, Leave,
              Busying, TypeOK, Client
<1>2. ASSUME AllChecked \/ CountError \/ AllDone \/ Drained \/ NoMessage PROVE Later /\ job' = job
  <2>1. (client.pc \in Busying /\ client'.pc \in Busying \cup {"drain"}) \/ (client.pc = "drain" /\ client'.pc = "end")
    <3>1. CASE AllChecked \/ AllDone
      BY <3>1 DEF AllChecked, AllDone, Leave, Busying, TypeOK, Client
    <3>2. CASE CountError
      BY <3>2 DEF CountError, Again, Checking, Busying, TypeOK, Client
    <3>3. CASE Drained \/ NoMessage
      BY <3>3 DEF Drained, NoMessage, Checking, Busying, TypeOK, Client
    <3> QED BY <1>2, <3>1, <3>2, <3>3
  <2>2. job' = job
    BY <1>2 DEF AllChecked, CountError, AllDone, Drained, NoMessage
  <2> QED BY <2>1, <2>2 DEF Later, Busying
<1>3. ASSUME NEW m \in msgs, IgnoreMessage(m) \/ ErrorMessage(m) \/ DoneMessage(m) \/ DrainMessage(m) PROVE Later /\ job' = job
  BY <1>3 DEF IgnoreMessage, ErrorMessage, DoneMessage, DrainMessage, Later, Again, Checking, Busying, TypeOK, Client
<1>4. ASSUME \/ Read \/ ReadEnds \/ UNCHANGED vars \/ \E s \in SPEs : SPEStep(s) \/ ReadDataFails(s) \/ EndsEarly(s) \/ Break(s)
             \/ \E b \in Buckets : ShufflerStep(b)
      PROVE  UNCHANGED <<client, job>>
  BY <1>4 DEF Read, ReadEnds, vars, SPEStep, Begins, EndsEarly, Process, Delivered, Deliver, DeliverFails, SendResult, SPEEnds, ReadDataFails, Break,
              ShufflerStep, Shuffle, ShufflerEnds, clientVars
<1>5. Run => job' = job
  BY DEF Run
<1> QED BY <1>1, <1>2, <1>3, <1>4, <1>5 DEF Next, ClientStep, Later

\* All parts of the type.
LEMMA TypeStep ==
  ASSUME TypeOK, CountersAgree, SPEsCounted, SegmentsMatched, ShufflersRun, [Next]_vars
  PROVE  TypeOK'
<1>1. Typed'
  BY CheckTyped, MessageTyped, RunTyped, SPETyped, ShufflerTyped DEF Next, ClientStep, vars, TypeOK, Typed
<1>2. progress' \in 0 .. NSegment /\ avail' \in 0 .. NSegment /\ totalSPE' \in 0 .. NSPE
  BY CountersStep, CounterBounds, CountedStep
<1>3. faults' \in 0 .. job.faults
  <2>1. faults \in 0 .. job.faults /\ job.faults \in Nat
    BY TypeOfJob DEF TypeOK
  <2>2. \/ faults' = faults
        \/ faults < job.faults /\ faults' = faults + 1
        \/ \E B \in SUBSET Buckets : faults' = faults + Cardinality(Buckets \ B) /\ faults' <= job.faults
    <3>1. CASE Run
      BY <3>1 DEF Run, StartShufflers
    <3>2. ASSUME NEW s \in SPEs, ConnectFails(s) \/ NoChannel(s) \/ ReadDataFails(s) \/ Break(s)
          PROVE  faults < job.faults /\ faults' = faults + 1
      BY <3>2 DEF ConnectFails, NoChannel, ReadDataFails, Break
    <3>8. ASSUME NEW s \in SPEs, EndsEarly(s)
          PROVE  faults' = faults \/ (faults < job.faults /\ faults' = faults + 1)
      BY <3>8 DEF EndsEarly
    <3>7. ASSUME NEW s \in SPEs, SPEStep(s) PROVE faults' = faults
      BY <3>7 DEF SPEStep, Begins, Process, Delivered, Deliver, DeliverFails, SendResult, SPEEnds
    <3>3. ASSUME NEW s \in SPEs, CheckSPE(s) PROVE faults' = faults
      BY <3>3 DEF CheckSPE, SkipSPE, Connect, StartSPE, CheckRunning, LoseJob, LoseSPE
    <3>4. ASSUME NEW m \in msgs, IgnoreMessage(m) \/ ErrorMessage(m) \/ DoneMessage(m) \/ DrainMessage(m)
          PROVE  faults' = faults
      BY <3>4 DEF IgnoreMessage, ErrorMessage, DoneMessage, DrainMessage
    <3>5. ASSUME AllChecked \/ CountError \/ AllDone \/ Drained \/ NoMessage \/ Read \/ ReadEnds \/ UNCHANGED vars
          PROVE  faults' = faults
      BY <3>5 DEF AllChecked, CountError, AllDone, Drained, NoMessage, Read, ReadEnds, vars
    <3>6. ASSUME NEW b \in Buckets, ShufflerStep(b) PROVE faults' = faults
      BY <3>6 DEF ShufflerStep, Shuffle, ShufflerEnds, clientVars
    <3> QED BY <3>1, <3>2, <3>3, <3>4, <3>5, <3>6, <3>7, <3>8 DEF Next, ClientStep
  <2>3. \A B \in SUBSET Buckets : Cardinality(Buckets \ B) \in Nat
    <3>1. IsFiniteSet(Buckets)
      BY FS_Interval, CountAssumption DEF Buckets
    <3> QED BY <3>1, FS_Subset, FS_CardinalityType
  <2>4. ASSUME NEW n \in Nat, faults' = faults + n, faults' <= job.faults PROVE faults' \in 0 .. job.faults
    BY <2>1, <2>4
  <2>5. ASSUME faults < job.faults, faults' = faults + 1 PROVE faults' \in 0 .. job.faults
    BY <2>1, <2>5
  <2> QED BY <2>1, <2>2, <2>3, <2>4, <2>5
<1> QED BY <1>1, <1>2, <1>3, ClientSteps DEF Typed, TypeOK

\* Transactions are listed before their SPE or shuffler works, and go when it ends.
LEMMA ReportsStep ==
  ASSUME TypeOK, ShufflersRun, ReportsFindTransaction, [Next]_vars
  PROVE  ReportsFindTransaction'
<1>1. proc \in [SPEs -> Proc] /\ shuffler \in [Buckets -> Shuffler] /\ client \in Client
  BY DEF TypeOK
<1>2. \A s \in SPEs, b \in Buckets : SPETrans(s) # ShufflerTrans(b)
  BY DEF SPETrans, ShufflerTrans
<1>3. \A s, u \in SPEs \cup Buckets : (SPETrans(s) = SPETrans(u) => s = u) /\ (ShufflerTrans(s) = ShufflerTrans(u) => s = u)
  BY DEF SPETrans, ShufflerTrans
<1>4. ASSUME trans \subseteq trans',
             \A s \in SPEs : proc'[s].st \notin {"none", "gone"} => proc[s].st \notin {"none", "gone"} \/ SPETrans(s) \in trans',
             \A b \in Buckets : shuffler'[b].st \in {"up", "released"} =>
               shuffler[b].st \in {"up", "released"} \/ ShufflerTrans(b) \in trans'
      PROVE  ReportsFindTransaction'
  BY <1>4 DEF ReportsFindTransaction, SPETrans, ShufflerTrans
<1>5. CASE Run
  BY <1>1, <1>4, <1>5 DEF Run, StartShufflers, ShufflerTrans
<1>6. ASSUME NEW s \in SPEs, Connect(s) \/ ConnectFails(s) \/ NoChannel(s) PROVE ReportsFindTransaction'
  BY <1>1, <1>4, <1>6 DEF Connect, ConnectFails, NoChannel, NoProc
<1>7. ASSUME NEW s \in SPEs, StartSPE(s) PROVE ReportsFindTransaction'
  BY <1>1, <1>4, <1>7 DEF StartSPE
<1>8. ASSUME Leave, UNCHANGED <<proc, trans>>, client.pc \notin {"drain", "end"} PROVE ReportsFindTransaction'
  <2>1. ASSUME NEW b \in Buckets, shuffler'[b].st \in {"up", "released"} PROVE shuffler[b].st \in {"up", "released"}
    BY <1>1, <1>8, <2>1 DEF Leave, Started, ShufflersRun, Shuffler
  <2> QED BY <1>4, <1>8, <2>1
<1>9. ASSUME AllDone \/ AllChecked \/ \E s \in SPEs : LoseJob(s) PROVE ReportsFindTransaction'
  <2>1. Leave \/ UNCHANGED shuffler
    BY <1>9 DEF AllDone, AllChecked, LoseJob
  <2>2. UNCHANGED <<proc, trans>> /\ client.pc \notin {"drain", "end"}
    BY <1>9 DEF AllDone, AllChecked, LoseJob, Turn
  <2> QED BY <1>4, <1>8, <2>1, <2>2
<1>10. ASSUME UNCHANGED <<proc, trans, shuffler>> PROVE ReportsFindTransaction'
  BY <1>4, <1>10
<1>11. ASSUME NEW s \in SPEs, SkipSPE(s) \/ CheckRunning(s) \/ LoseSPE(s) \/ Break(s) PROVE UNCHANGED <<proc, trans, shuffler>>
  BY <1>11 DEF SkipSPE, CheckRunning, LoseSPE, Break, slaveVars
<1>12. ASSUME NEW m \in msgs, IgnoreMessage(m) \/ ErrorMessage(m) \/ DoneMessage(m) \/ DrainMessage(m)
       PROVE  UNCHANGED <<proc, trans, shuffler>>
  BY <1>12 DEF IgnoreMessage, ErrorMessage, DoneMessage, DrainMessage, slaveVars
<1>13. ASSUME CountError \/ Drained \/ NoMessage \/ Read \/ ReadEnds \/ UNCHANGED vars PROVE UNCHANGED <<proc, trans, shuffler>>
  BY <1>13 DEF CountError, Drained, NoMessage, Read, ReadEnds, vars, slaveVars
<1>14. ASSUME NEW s \in SPEs, Begins(s) \/ EndsEarly(s) \/ Process(s) \/ Delivered(s) \/ SendResult(s) \/ ReadDataFails(s)
       PROVE  ReportsFindTransaction'
  BY <1>1, <1>4, <1>14 DEF Begins, EndsEarly, Delivered, Process, SendResult, AfterReport, ReadDataFails
<1>15. ASSUME NEW s \in SPEs, NEW b \in Buckets, Deliver(s, b) \/ DeliverFails(s, b) PROVE ReportsFindTransaction'
  BY <1>1, <1>4, <1>15 DEF Deliver, DeliverFails, Shuffler
<1>16. ASSUME NEW s \in SPEs, SPEEnds(s) PROVE ReportsFindTransaction'
  <2>1. trans' = trans \ {SPETrans(s)} /\ proc'[s].st = "gone" /\ UNCHANGED shuffler /\ \A u \in SPEs \ {s} : proc'[u] = proc[u]
    BY <1>1, <1>16 DEF SPEEnds, Proc
  <2> QED BY <1>2, <1>3, <2>1 DEF ReportsFindTransaction, SPETrans, ShufflerTrans
<1>17. ASSUME NEW b \in Buckets, ShufflerStep(b) PROVE ReportsFindTransaction'
  <2>1. CASE Shuffle(b)
    BY <1>1, <1>4, <2>1 DEF Shuffle, Shuffler
  <2>2. CASE ShufflerEnds(b)
    <3>1. /\ trans' = trans \ {ShufflerTrans(b)} /\ shuffler'[b].st = "done" /\ UNCHANGED proc
          /\ \A c \in Buckets \ {b} : shuffler'[c] = shuffler[c]
      BY <1>1, <2>2 DEF ShufflerEnds, AfterReport, Shuffler
    <3> QED BY <1>2, <1>3, <3>1 DEF ReportsFindTransaction, SPETrans, ShufflerTrans
  <2> QED BY <1>17, <2>1, <2>2 DEF ShufflerStep
<1> QED BY <1>5, <1>6, <1>7, <1>9, <1>10, <1>11, <1>12, <1>13, <1>14, <1>15, <1>16, <1>17 DEF Next, ClientStep, CheckSPE, SPEStep

\* What Append and Tail do to the members of a queue, and to parts that are in it once.
LEMMA HasAppend ==
  ASSUME NEW T, NEW q \in Seq(T), NEW x \in T
  PROVE  /\ \A d : Has(Append(q, x), d) <=> Has(q, d) \/ d = x
         /\ NoPartTwice(q) /\ (x = End \/ ~Has(q, x)) => NoPartTwice(Append(q, x))
<1>1. /\ Len(q) \in Nat /\ DOMAIN q = 1 .. Len(q) /\ DOMAIN Append(q, x) = 1 .. Len(q) + 1
      /\ \A i \in 1 .. Len(q) : Append(q, x)[i] = q[i]
      /\ Append(q, x)[Len(q) + 1] = x
  OBVIOUS
<1>2. \A i : i \in 1 .. Len(q) + 1 <=> i \in 1 .. Len(q) \/ i = Len(q) + 1
  BY <1>1
<1>3. \A d : Has(Append(q, x), d) <=> Has(q, d) \/ d = x
  BY <1>1, <1>2 DEF Has
<1>4. ASSUME NoPartTwice(q), x = End \/ ~Has(q, x) PROVE NoPartTwice(Append(q, x))
  <2> SUFFICES ASSUME NEW i \in DOMAIN Append(q, x), NEW j \in DOMAIN Append(q, x),
                      Append(q, x)[i] = Append(q, x)[j], Append(q, x)[i] # End
               PROVE  i = j
    BY DEF NoPartTwice
  <2>1. CASE i \in 1 .. Len(q) /\ j \in 1 .. Len(q)
    BY <1>1, <1>4, <2>1 DEF NoPartTwice
  <2>2. CASE i = Len(q) + 1 /\ j \in 1 .. Len(q)
    BY <1>1, <1>4, <2>2 DEF Has
  <2>3. CASE i \in 1 .. Len(q) /\ j = Len(q) + 1
    BY <1>1, <1>4, <2>3 DEF Has
  <2> QED BY <1>1, <1>2, <2>1, <2>2, <2>3
<1> QED BY <1>3, <1>4

LEMMA HasTail ==
  ASSUME NEW T, NEW q \in Seq(T), q # <<>>
  PROVE  /\ \A d : Has(q, d) <=> Has(Tail(q), d) \/ d = Head(q)
         /\ NoPartTwice(q) => NoPartTwice(Tail(q)) /\ (Head(q) # End => ~Has(Tail(q), Head(q)))
<1>1. /\ Len(q) \in Nat \ {0} /\ DOMAIN q = 1 .. Len(q) /\ DOMAIN Tail(q) = 1 .. Len(q) - 1
      /\ \A i \in 1 .. Len(q) - 1 : Tail(q)[i] = q[i + 1]
      /\ Head(q) = q[1]
  OBVIOUS
<1>2. \A i \in 1 .. Len(q) : i = 1 \/ i - 1 \in 1 .. Len(q) - 1
  BY <1>1
<1>3. ASSUME NEW d PROVE Has(q, d) <=> Has(Tail(q), d) \/ d = Head(q)
  <2>1. ASSUME NEW i \in DOMAIN q, q[i] = d PROVE Has(Tail(q), d) \/ d = Head(q)
    <3>1. CASE i = 1
      BY <1>1, <2>1, <3>1
    <3>2. CASE i # 1
      <4>1. i - 1 \in DOMAIN Tail(q) /\ Tail(q)[i - 1] = d
        BY <1>1, <1>2, <2>1, <3>2
      <4> QED BY <4>1 DEF Has
    <3> QED BY <3>1, <3>2
  <2>2. ASSUME NEW i \in DOMAIN Tail(q), Tail(q)[i] = d PROVE Has(q, d)
    <3>1. i + 1 \in DOMAIN q /\ q[i + 1] = d
      BY <1>1, <2>2
    <3> QED BY <3>1 DEF Has
  <2>3. Has(q, Head(q))
    BY <1>1 DEF Has
  <2> QED BY <2>1, <2>2, <2>3 DEF Has
<1>4. ASSUME NoPartTwice(q) PROVE NoPartTwice(Tail(q)) /\ (Head(q) # End => ~Has(Tail(q), Head(q)))
  <2>1. ASSUME NEW i \in DOMAIN Tail(q), NEW j \in DOMAIN Tail(q), Tail(q)[i] = Tail(q)[j], Tail(q)[i] # End
        PROVE  i = j
    <3>1. i + 1 \in DOMAIN q /\ j + 1 \in DOMAIN q /\ q[i + 1] = q[j + 1] /\ q[i + 1] # End
      BY <1>1, <2>1
    <3>2. i + 1 = j + 1
      BY <1>4, <3>1 DEF NoPartTwice
    <3> QED BY <1>1, <3>2
  <2>2. ASSUME Head(q) # End, NEW i \in DOMAIN Tail(q), Tail(q)[i] = Head(q) PROVE FALSE
    <3>1. 1 \in DOMAIN q /\ i + 1 \in DOMAIN q /\ q[i + 1] = q[1] /\ q[1] # End /\ i + 1 # 1
      BY <1>1, <2>2
    <3> QED BY <1>4, <3>1 DEF NoPartTwice
  <2> QED BY <2>1, <2>2 DEF NoPartTwice, Has
<1> QED BY <1>3, <1>4

\* The queues and files change when shufflers are started and told of the end, and
\* by what SPEs deliver and shufflers take.
Delivers(s, b) ==
  /\ proc[s].st = "deliver" /\ b \in proc[s].left /\ shuffler[b].st = "up"
  /\ shuffler'[b].queue = Append(shuffler[b].queue, <<proc[s].seg, proc[s].part>>)
  /\ shuffler'[b].file = shuffler[b].file /\ shuffler'[b].st = "up"
  /\ \A c \in Buckets \ {b} : shuffler'[c] = shuffler[c]
  /\ proc'[s].st = "deliver" /\ proc'[s].seg = proc[s].seg /\ proc'[s].part = proc[s].part
  /\ b \notin proc'[s].left /\ proc'[s].left \subseteq proc[s].left
  /\ \A u \in SPEs \ {s} : proc'[u] = proc[u]
  /\ UNCHANGED <<seg, client>>

Leaves == Leave /\ client.pc \notin {"run", "drain", "end"} /\ UNCHANGED <<proc, seg>>

\* What SPEs do by themselves brings them nearer to the end of their segment.
Nearer(p, q) ==
  \/ q = p
  \/ /\ p.st \in {"start", "work"} /\ q.st \in {"work", "deliver", "send"}
     /\ q.seg = p.seg /\ q.part = p.part /\ (q.st = "deliver" => job.kind = "buckets")
  \/ p.st = "deliver" /\ q.st = "send" /\ q.seg = p.seg /\ q.part = p.part
  \/ p.st = "deliver" /\ q.st = "work" /\ q.seg = p.seg /\ q.part = p.part + 1 /\ p.part < job.parts[p.seg]
  \/ q.st \in {"idle", "gone"} /\ (q.seg = 0 \/ (q.seg = p.seg /\ q.part = p.part))

Goes ==
  /\ UNCHANGED shuffler
  /\ \A s \in SPEs : Nearer(proc[s], proc'[s])

LEMMA ShufflerSteps ==
  ASSUME TypeOK, [Next]_vars
  PROVE  \/ Run \/ Leaves \/ Goes
         \/ \E s \in SPEs, d \in Segments : Starts(s, d)
         \/ \E s \in SPEs, b \in Buckets : Delivers(s, b)
         \/ \E b \in Buckets : ShufflerStep(b)
<1>1. ASSUME NEW s \in SPEs, Connect(s) \/ StartSPE(s) PROVE Goes \/ \E d \in Segments : Starts(s, d)
  <2>1. client.pc = "check" /\ client'.pc = "check" /\ UNCHANGED <<job, outcome, progress, avail, totalSPE, shuffler>>
        /\ spe[s].st \in {"unconnected", "ready"}
    BY <1>1 DEF Connect, StartSPE, Turn, Found, TypeOK, Client
  <2>2. \/ UNCHANGED proc
        \/ \E d \in Segments : /\ seg[d].st = "new"
                               /\ seg' = [seg EXCEPT ![d].st = "running"]
                               /\ spe' = [spe EXCEPT ![s] = [st |-> "running", seg |-> d]]
                               /\ \E st \in {"start", "work"} : proc' = [proc EXCEPT ![s] = [NoProc EXCEPT !.st = st, !.seg = d]]
    <3>1. CASE Connect(s)
      BY <3>1, TypeOfJob DEF Connect, Waiting, TypeOK
    <3>2. CASE StartSPE(s) /\ conn[s] /\ proc[s].st = "idle"
      BY <3>2, TypeOfJob DEF StartSPE, Waiting, TypeOK
    <3>3. CASE StartSPE(s) /\ ~(conn[s] /\ proc[s].st = "idle")
      BY <3>3 DEF StartSPE
    <3> QED BY <1>1, <3>1, <3>2, <3>3
  <2> QED BY <2>1, <2>2 DEF Starts, Goes, Nearer
<1>2. ASSUME NEW s \in SPEs, SkipSPE(s) \/ CheckRunning(s) \/ LoseSPE(s) \/ ConnectFails(s) \/ Break(s) PROVE Goes
  BY <1>2 DEF SkipSPE, CheckRunning, LoseSPE, ConnectFails, Break, slaveVars, Goes, Nearer
<1>3. ASSUME AllDone \/ AllChecked \/ \E s \in SPEs : LoseJob(s) PROVE Leaves \/ Goes
  <2>1. UNCHANGED <<proc, seg>> /\ client.pc \notin {"run", "drain", "end"} /\ (Leave \/ UNCHANGED shuffler)
    BY <1>3 DEF AllDone, AllChecked, LoseJob, Turn
  <2> QED BY <2>1 DEF Leaves, Goes, Nearer
<1>4. ASSUME CountError \/ Drained \/ NoMessage \/ Read \/ ReadEnds \/ UNCHANGED vars PROVE Goes
  BY <1>4 DEF CountError, Drained, NoMessage, Read, ReadEnds, vars, slaveVars, Goes, Nearer
<1>5. ASSUME NEW m \in msgs, IgnoreMessage(m) \/ ErrorMessage(m) \/ DoneMessage(m) \/ DrainMessage(m) PROVE Goes
  BY <1>5 DEF IgnoreMessage, ErrorMessage, DoneMessage, DrainMessage, slaveVars, Goes, Nearer
<1>6. ASSUME NEW s \in SPEs, Process(s) PROVE Goes
  <2>1. PICK st \in {"deliver", "send"}, left \in SUBSET Buckets, ok \in BOOLEAN :
          /\ proc' = [proc EXCEPT ![s].ok = ok, ![s].st = st, ![s].left = left]
          /\ st = "deliver" => job.kind = "buckets"
    BY <1>6 DEF Process, Started
  <2>2. /\ proc'[s].st = st /\ proc'[s].seg = proc[s].seg /\ proc'[s].part = proc[s].part
        /\ \A u \in SPEs \ {s} : proc'[u] = proc[u]
    BY <2>1 DEF TypeOK, Proc
  <2> QED BY <1>6, <2>1, <2>2 DEF Process, Goes, Nearer
<1>7. ASSUME NEW s \in SPEs, SendResult(s) \/ SPEEnds(s) \/ ReadDataFails(s) \/ EndsEarly(s) PROVE Goes
  <2>1. PICK st \in {"idle", "gone"} : proc' = [proc EXCEPT ![s].st = st]
    BY <1>7 DEF SendResult, SPEEnds, ReadDataFails, EndsEarly
  <2>2. UNCHANGED shuffler
    BY <1>7 DEF SendResult, SPEEnds, ReadDataFails, EndsEarly
  <2> QED BY <2>1, <2>2 DEF TypeOK, Proc, Goes, Nearer
<1>8. ASSUME NEW s \in SPEs, NEW b \in Buckets, DeliverFails(s, b) PROVE Goes
  BY <1>8 DEF DeliverFails, TypeOK, Proc, Goes, Nearer
<1>10. ASSUME NEW s \in SPEs, NoChannel(s) PROVE Goes
  BY <1>10 DEF NoChannel, NoProc, TypeOK, Proc, Goes, Nearer
<1>11. ASSUME NEW s \in SPEs, Begins(s) PROVE Goes
  BY <1>11 DEF Begins, TypeOK, Proc, Goes, Nearer
<1>12. ASSUME NEW s \in SPEs, Delivered(s) PROVE Goes
  <2>1. CASE proc' = [proc EXCEPT ![s].st = "send"]
    BY <1>12, <2>1 DEF Delivered, TypeOK, Proc, Goes, Nearer
  <2>2. CASE proc[s].part < job.parts[proc[s].seg] /\ proc' = [proc EXCEPT ![s].st = "work", ![s].part = @ + 1]
    <3>1. /\ proc'[s].st = "work" /\ proc'[s].seg = proc[s].seg /\ proc'[s].part = proc[s].part + 1
          /\ \A u \in SPEs \ {s} : proc'[u] = proc[u]
      BY <2>2 DEF TypeOK, Proc
    <3> QED BY <1>12, <2>2, <3>1 DEF Delivered, Goes, Nearer
  <2> QED BY <1>12, <2>1, <2>2 DEF Delivered
<1>9. ASSUME NEW s \in SPEs, NEW b \in Buckets, Deliver(s, b) PROVE Delivers(s, b)
  <2>1. /\ shuffler'[b].queue = Append(shuffler[b].queue, <<proc[s].seg, proc[s].part>>)
        /\ shuffler'[b].file = shuffler[b].file /\ shuffler'[b].st = "up"
        /\ \A c \in Buckets \ {b} : shuffler'[c] = shuffler[c]
    BY <1>9 DEF Deliver, TypeOK, Shuffler
  <2>3. /\ proc'[s].st = "deliver" /\ proc'[s].seg = proc[s].seg /\ proc'[s].part = proc[s].part
        /\ proc'[s].left = proc[s].left \ {b} /\ \A u \in SPEs \ {s} : proc'[u] = proc[u]
    BY <1>9 DEF Deliver, TypeOK, Proc
  <2> QED BY <1>9, <2>1, <2>3 DEF Deliver, clientVars, Delivers
<1> QED BY <1>1, <1>2, <1>3, <1>4, <1>5, <1>6, <1>7, <1>8, <1>9, <1>10, <1>11, <1>12 DEF Next, ClientStep, CheckSPE, SPEStep

\* What is queued and filed for the buckets.
LEMMA ShufflersStarted ==
  ASSUME shuffler \in [Buckets -> Shuffler], Run
  PROVE  /\ \A b \in Buckets : /\ shuffler'[b].queue = shuffler[b].queue /\ shuffler'[b].file = shuffler[b].file
                               /\ shuffler'[b].st \in {shuffler[b].st, "up"}
         /\ job.kind # "buckets" => shuffler' = shuffler
<1>1. CASE job.kind = "buckets"
  <2>1. PICK B \in SUBSET Buckets : shuffler' = [b \in Buckets |-> IF b \in B THEN [shuffler[b] EXCEPT !.st = "up"] ELSE shuffler[b]]
    BY <1>1 DEF Run, StartShufflers
  <2>2. \A b \in Buckets : shuffler'[b] \in {shuffler[b], [shuffler[b] EXCEPT !.st = "up"]} /\ shuffler[b] \in Shuffler
    BY <2>1
  <2>3. \A f \in Shuffler : \A g : g \in {f, [f EXCEPT !.st = "up"]} => g.queue = f.queue /\ g.file = f.file /\ g.st \in {f.st, "up"}
    BY DEF Shuffler
  <2> QED BY <1>1, <2>2, <2>3
<1>2. CASE job.kind # "buckets"
  BY <1>2 DEF Run
<1> QED BY <1>1, <1>2

\* A shuffler takes the first of its queue.
LEMMA ShufflerTakes ==
  ASSUME shuffler \in [Buckets -> Shuffler], NEW b \in Buckets, ShufflerStep(b)
  PROVE  /\ UNCHANGED <<clientVars, proc>> /\ shuffler[b].queue # <<>> /\ shuffler'[b].queue = Tail(shuffler[b].queue)
         /\ \A c \in Buckets \ {b} : shuffler'[c] = shuffler[c]
<1>1. shuffler[b] \in Shuffler
  OBVIOUS
<1>2. \A f \in Shuffler : /\ \A q, x : [f EXCEPT !.queue = q, !.file = x].queue = q
                          /\ \A q, x : [f EXCEPT !.queue = q, !.st = x].queue = q
  BY DEF Shuffler
<1>3. CASE Shuffle(b)
  BY <1>1, <1>2, <1>3 DEF Shuffle
<1>4. CASE ShufflerEnds(b)
  BY <1>1, <1>2, <1>4 DEF ShufflerEnds
<1> QED BY <1>3, <1>4 DEF ShufflerStep

LEMMA ShufflersStep ==
  ASSUME TypeOK, ShufflersRun, [Next]_vars
  PROVE  ShufflersRun'
<1>1. proc \in [SPEs -> Proc] /\ shuffler \in [Buckets -> Shuffler] /\ client \in Client
  BY DEF TypeOK
<1>2. \A b \in Buckets : shuffler[b].queue \in Seq(Part \cup {End}) /\ shuffler[b].file \in Seq(Part)
  BY <1>1 DEF Shuffler
<1>3. job' = job
  BY ClientSteps
<1>4. CASE Run
  <2>1. client.pc = "run" /\ client'.pc # "run" /\ UNCHANGED proc
    BY <1>1, <1>4 DEF Run, Checking, Client
  <2>2. /\ \A b \in Buckets : /\ shuffler'[b].queue = shuffler[b].queue /\ shuffler'[b].file = shuffler[b].file
                              /\ shuffler'[b].st \in {shuffler[b].st, "up"}
        /\ job.kind # "buckets" => shuffler' = shuffler
    BY <1>1, <1>4, ShufflersStarted
  <2>3. \A b \in Buckets : shuffler[b].st = "none" /\ shuffler[b].queue = <<>> /\ shuffler[b].file = <<>>
    BY <2>1 DEF ShufflersRun, Started
  <2>4. job.kind = "client" => \A b \in Buckets : shuffler'[b].st = "none"
    BY <2>2, <2>3
  <2>5. job.kind = "buckets" /\ client'.pc \in {"check", "recv", "error"} => \E b \in Buckets : shuffler'[b].st # "none"
    <3>1. SUFFICES ASSUME job.kind = "buckets", client'.pc \in {"check", "recv", "error"}, \A b \in Buckets : shuffler'[b].st = "none"
                   PROVE  FALSE
      OBVIOUS
    <3>2. PICK B \in SUBSET Buckets : shuffler' = [b \in Buckets |-> IF b \in B THEN [shuffler[b] EXCEPT !.st = "up"] ELSE shuffler[b]]
      BY <1>4, <3>1 DEF Run, StartShufflers
    <3>3. B = {}
      BY <1>1, <3>1, <3>2 DEF Shuffler
    <3>4. shuffler' = shuffler
      BY <1>1, <3>2, <3>3
    <3>5. client' = [client EXCEPT !.pc = "end"]
      BY <1>4, <3>1, <3>4 DEF Run
    <3> QED BY <1>1, <3>1, <3>5 DEF Client
  <2>6. \A b \in Buckets : shuffler'[b].queue = <<>> /\ shuffler'[b].file = <<>> /\ shuffler'[b].st \in {"none", "up"}
    BY <2>2, <2>3
  <2> QED BY <1>3, <2>1, <2>4, <2>5, <2>6 DEF ShufflersRun, Started
<1>5. ASSUME UNCHANGED proc \/ Goes \/ \E s \in SPEs, d \in Segments : Starts(s, d)
      PROVE  /\ \A s \in SPEs : proc'[s].st = "deliver" => job'.kind = "buckets"
             /\ \A s \in SPEs : proc'[s].st \in {"start", "work", "deliver", "send"} => proc'[s].seg \in Segments
             /\ \A s \in SPEs : proc'[s].seg \in Segments => proc'[s].part <= job'.parts[proc'[s].seg]
  <2>1. CASE UNCHANGED proc
    BY <1>3, <2>1 DEF ShufflersRun
  <2>2. ASSUME NEW s \in SPEs, NEW d \in Segments, Starts(s, d)
        PROVE  /\ proc'[s].st \in {"start", "work"} /\ proc'[s].seg = d /\ proc'[s].part = 1 /\ job.parts[d] >= 1
               /\ \A u \in SPEs \ {s} : proc'[u] = proc[u]
    <3>1. job.parts[d] \in Nat \ {0}
      BY TypeOfJob DEF TypeOK
    <3> QED BY <1>1, <2>2, <3>1 DEF Starts, NoProc
  <2>3. ASSUME Goes, NEW s \in SPEs
        PROVE  /\ proc'[s].st = "deliver" => job.kind = "buckets"
               /\ proc'[s].st \in {"start", "work", "deliver", "send"} => proc'[s].seg \in Segments
               /\ proc'[s].seg \in Segments => proc'[s].part <= job.parts[proc'[s].seg]
    <3>1. Nearer(proc[s], proc'[s]) /\ proc[s].part \in Nat \ {0} /\ 0 \notin Segments
      BY <1>1, <2>3 DEF Goes, Proc, Segments
    <3>2. proc[s].seg \in Segments => job.parts[proc[s].seg] \in Nat
      BY TypeOfJob DEF TypeOK
    <3> QED BY <3>1, <3>2 DEF Nearer, ShufflersRun
  <2> QED BY <1>3, <1>5, <2>1, <2>2, <2>3 DEF ShufflersRun
<1>6. CASE Later /\ UNCHANGED shuffler /\ (Goes \/ \E s \in SPEs, d \in Segments : Starts(s, d))
  BY <1>3, <1>5, <1>6 DEF ShufflersRun, Started, Later, Busying
<1>7. CASE Leaves
  <2>1. client'.pc = "drain" /\ client.pc \notin {"run", "drain", "end"} /\ UNCHANGED proc
    BY <1>1, <1>7 DEF Leaves, Leave, Client
  <2>2. \A b \in Buckets : shuffler[b].st = "none" <=> shuffler'[b].st = "none"
    BY <1>1, <1>7 DEF Leaves, Leave, Started, Shuffler
  <2>3. \A b \in Buckets : shuffler'[b].st = "none" => shuffler'[b] = shuffler[b]
    BY <1>1, <1>7 DEF Leaves, Leave, Started, Shuffler
  <2>4. Started' = Started
    BY <2>2 DEF Started
  <2> QED BY <1>3, <1>5, <2>1, <2>3, <2>4 DEF ShufflersRun
<1>8. ASSUME NEW s \in SPEs, NEW b \in Buckets, Delivers(s, b) PROVE ShufflersRun'
  <2>1. /\ proc[s].st = "deliver" /\ proc[s].seg \in Segments /\ proc'[s].seg = proc[s].seg /\ job.kind = "buckets"
        /\ proc'[s].part = proc[s].part
        /\ \A u \in SPEs \ {s} : proc'[u] = proc[u]
    BY <1>8 DEF Delivers, ShufflersRun
  <2>2. Started' = Started
    BY <1>8 DEF Delivers, Started
  <2>3. \A i \in DOMAIN shuffler'[b].queue : (i \in DOMAIN shuffler[b].queue /\ shuffler'[b].queue[i] = shuffler[b].queue[i])
                                             \/ shuffler'[b].queue[i] # End
    <3> DEFINE x == <<proc[s].seg, proc[s].part>>
    <3>1. shuffler'[b].queue = Append(shuffler[b].queue, x) /\ shuffler[b].queue \in Seq(Part \cup {End}) /\ x # End
      BY <1>2, <1>8, <2>1 DEF Delivers, Segments, End
    <3>2. x \in Part
      BY <1>1, <2>1 DEF Proc, Part
    <3> HIDE DEF x
    <3> QED BY <3>1, <3>2
  <2>4. shuffler'[b].st = "up" /\ shuffler[b].st = "up" /\ UNCHANGED client /\ \A c \in Buckets \ {b} : shuffler'[c] = shuffler[c]
    BY <1>8 DEF Delivers
  <2>5. \A c \in Buckets : shuffler'[c].st = "none" => shuffler'[c].queue = <<>> /\ shuffler'[c].file = <<>>
    BY <2>4 DEF ShufflersRun
  <2>6. client'.pc \notin {"drain", "end"} =>
           \A c \in Buckets : shuffler'[c].st \in {"none", "up"} /\ \A i \in DOMAIN shuffler'[c].queue : shuffler'[c].queue[i] # End
    BY <2>3, <2>4 DEF ShufflersRun
  <2> QED BY <1>3, <2>1, <2>2, <2>4, <2>5, <2>6 DEF ShufflersRun
<1>9. ASSUME NEW b \in Buckets, ShufflerStep(b) PROVE ShufflersRun'
  <2> DEFINE q == shuffler[b].queue
  <2>1. /\ UNCHANGED <<client, job, proc>> /\ shuffler'[b].queue = Tail(q) /\ q # <<>>
        /\ \A c \in Buckets \ {b} : shuffler'[c] = shuffler[c]
    BY <1>1, <1>9, ShufflerTakes DEF clientVars
  <2>2. shuffler[b].st # "none"
    BY <2>1 DEF ShufflersRun
  <2>3. CASE Head(q) = End
    <3>1. shuffler'[b].st = "done"
      BY <1>1, <1>9, <2>3 DEF ShufflerStep, Shuffle, ShufflerEnds, Shuffler
    <3>2. client.pc \in {"drain", "end"}
      BY <1>1, <1>2, <2>1, <2>3 DEF ShufflersRun
    <3>3. Started' = Started
      BY <2>1, <2>2, <3>1 DEF Started
    <3> QED BY <2>1, <3>1, <3>2, <3>3 DEF ShufflersRun
  <2>4. CASE Head(q) # End
    <3>1. shuffler'[b].st = shuffler[b].st
      BY <1>1, <1>9, <2>4 DEF ShufflerStep, Shuffle, ShufflerEnds, Shuffler
    <3>2. \A i \in DOMAIN Tail(q) : i + 1 \in DOMAIN q /\ Tail(q)[i] = q[i + 1]
      BY <1>2, <2>1
    <3>3. Started' = Started
      BY <2>1, <2>2, <3>1 DEF Started
    <3>4. client'.pc \notin {"drain", "end"} =>
            \A c \in Buckets : shuffler'[c].st \in {"none", "up"} /\ \A i \in DOMAIN shuffler'[c].queue : shuffler'[c].queue[i] # End
      <4>1. SUFFICES ASSUME client.pc \notin {"drain", "end"}, NEW c \in Buckets
                     PROVE  shuffler'[c].st \in {"none", "up"} /\ \A i \in DOMAIN shuffler'[c].queue : shuffler'[c].queue[i] # End
        BY <2>1
      <4>2. \A e \in Buckets : shuffler[e].st \in {"none", "up"} /\ \A i \in DOMAIN shuffler[e].queue : shuffler[e].queue[i] # End
        BY <4>1 DEF ShufflersRun
      <4>3. CASE c = b
        <5>1. shuffler[b].st \in {"none", "up"} /\ \A i \in DOMAIN q : q[i] # End
          BY <4>2
        <5>2. \A i \in DOMAIN Tail(q) : Tail(q)[i] # End
          BY <3>2, <5>1
        <5> QED BY <2>1, <3>1, <4>3, <5>1, <5>2
      <4>4. CASE c # b
        BY <2>1, <4>2, <4>4
      <4> QED BY <4>3, <4>4
    <3>5. \A c \in Buckets : shuffler'[c].st = "none" => shuffler'[c].queue = <<>> /\ shuffler'[c].file = <<>>
      BY <2>1, <2>2, <3>1 DEF ShufflersRun
    <3> QED BY <2>1, <3>3, <3>4, <3>5 DEF ShufflersRun
  <2> QED BY <2>3, <2>4
<1>10. ASSUME NEW s \in SPEs, NEW d \in Segments, Starts(s, d) PROVE UNCHANGED shuffler
  BY <1>10 DEF Starts
<1> QED BY <1>4, <1>6, <1>7, <1>8, <1>9, <1>10, ClientSteps, ShufflerSteps DEF Goes

\* With buckets a segment is handed out once, and its parts come to each of them once.
LEMMA HandedStep ==
  ASSUME TypeOK, SegmentsMatched, ShufflersRun, HandedOutOnce, [Next]_vars
  PROVE  HandedOutOnce'
<1>1. proc \in [SPEs -> Proc] /\ shuffler \in [Buckets -> Shuffler] /\ seg \in [Segments -> Segment] /\ job' = job
  BY ClientSteps DEF TypeOK
<1>2. \A b \in Buckets : shuffler[b].queue \in Seq(Part \cup {End}) /\ shuffler[b].file \in Seq(Part)
  BY <1>1 DEF Shuffler
<1>3. End \notin Part /\ \A d \in Segments : \A n : <<d, n>> # End
  BY DEF Segments, Part, End
<1>11. /\ \A b \in Buckets : NoPartTwice(shuffler[b].queue) /\ NoPartTwice(shuffler[b].file)
       /\ \A b \in Buckets : \A x : ~(Has(shuffler[b].queue, x) /\ Has(shuffler[b].file, x))
  BY DEF HandedOutOnce, Has
<1>12. ASSUME job.kind = "buckets", NEW d \in Segments
       PROVE  /\ seg[d].st = "new" => /\ \A s \in SPEs : ~AtWork(proc[s], d)
                                      /\ \A b \in Buckets, n \in 1 .. job.parts[d] : ~InBucket(shuffler[b], <<d, n>>)
              /\ \A s1, s2 \in SPEs : AtWork(proc[s1], d) /\ AtWork(proc[s2], d) => s1 = s2
              /\ \A s \in SPEs, b \in Buckets, n \in 1 .. job.parts[d] :
                   AtWork(proc[s], d) /\ ToCome(proc[s], b, n) => ~InBucket(shuffler[b], <<d, n>>)
  BY <1>12 DEF HandedOutOnce
<1>13. \A s \in SPEs : proc[s].part \in Nat \ {0}
  BY <1>1 DEF Proc
<1>14. \A d \in Segments : job.parts[d] \in Nat \ {0}
  BY TypeOfJob DEF TypeOK
\* What there is to show of the buckets' queues and files.
<1>15. ASSUME \A b \in Buckets : NoPartTwice(shuffler'[b].queue) /\ NoPartTwice(shuffler'[b].file),
              \A b \in Buckets : \A x : ~(Has(shuffler'[b].queue, x) /\ Has(shuffler'[b].file, x)),
              job.kind = "buckets" => \A d \in Segments :
                /\ seg'[d].st = "new" => /\ \A s \in SPEs : ~AtWork(proc'[s], d)
                                         /\ \A b \in Buckets, n \in 1 .. job.parts[d] : ~InBucket(shuffler'[b], <<d, n>>)
                /\ \A s1, s2 \in SPEs : AtWork(proc'[s1], d) /\ AtWork(proc'[s2], d) => s1 = s2
                /\ \A s \in SPEs, b \in Buckets, n \in 1 .. job.parts[d] :
                     AtWork(proc'[s], d) /\ ToCome(proc'[s], b, n) => ~InBucket(shuffler'[b], <<d, n>>)
       PROVE  HandedOutOnce'
  <2>1. \A b \in Buckets : \A i \in DOMAIN shuffler'[b].queue : ~Has(shuffler'[b].file, shuffler'[b].queue[i])
    BY <1>15 DEF Has
  <2> QED BY <1>1, <1>15, <2>1 DEF HandedOutOnce
\* A step that brings nothing to the buckets.
<1>4. ASSUME \A b \in Buckets : \A x : InBucket(shuffler'[b], x) => InBucket(shuffler[b], x) \/ x = End,
             \A b \in Buckets : NoPartTwice(shuffler'[b].queue) /\ NoPartTwice(shuffler'[b].file),
             \A b \in Buckets : \A x : ~(Has(shuffler'[b].queue, x) /\ Has(shuffler'[b].file, x)),
             Goes \/ UNCHANGED proc,
             job.kind = "buckets" => \A d \in Segments : seg'[d].st = "new" => seg[d].st = "new"
      PROVE  HandedOutOnce'
  <2>1. ASSUME NEW d \in Segments, NEW s \in SPEs, AtWork(proc'[s], d)
        PROVE  AtWork(proc[s], d)
    BY <1>4, <2>1 DEF Goes, Nearer, AtWork
  <2>2. ASSUME NEW d \in Segments, NEW s \in SPEs, NEW b \in Buckets, NEW n \in 1 .. job.parts[d],
               AtWork(proc'[s], d), ToCome(proc'[s], b, n)
        PROVE  ToCome(proc[s], b, n)
    BY <1>4, <1>13, <1>14, <2>2 DEF Goes, Nearer, AtWork, ToCome
  <2>4. \A d \in Segments, b \in Buckets : \A n : InBucket(shuffler'[b], <<d, n>>) => InBucket(shuffler[b], <<d, n>>)
    BY <1>3, <1>4
  <2>3. ASSUME job.kind = "buckets", NEW d \in Segments
        PROVE  /\ seg'[d].st = "new" => /\ \A s \in SPEs : ~AtWork(proc'[s], d)
                                        /\ \A b \in Buckets, n \in 1 .. job.parts[d] : ~InBucket(shuffler'[b], <<d, n>>)
               /\ \A s1, s2 \in SPEs : AtWork(proc'[s1], d) /\ AtWork(proc'[s2], d) => s1 = s2
               /\ \A s \in SPEs, b \in Buckets, n \in 1 .. job.parts[d] :
                    AtWork(proc'[s], d) /\ ToCome(proc'[s], b, n) => ~InBucket(shuffler'[b], <<d, n>>)
    BY <1>4, <1>12, <2>1, <2>2, <2>3, <2>4
  <2> QED BY <1>4, <1>15, <2>3
<1>5. CASE UNCHANGED <<shuffler, proc>> /\ (job.kind = "buckets" => \A d \in Segments : seg'[d].st = "new" => seg[d].st = "new")
  BY <1>4, <1>5, <1>11
<1>6. CASE Read
  <2>1. UNCHANGED <<shuffler, proc>> /\ \A d \in Segments : seg'[d].st = "new" => seg[d].st = "new"
    BY <1>1, <1>6 DEF Read, slaveVars, Segment
  <2> QED BY <1>5, <2>1
<1>7. ASSUME NEW s \in SPEs, NEW st \in {"new", "done", "failed"}, Ends(s, st) PROVE HandedOutOnce'
  <2>1. UNCHANGED <<shuffler, proc>>
    BY <1>7 DEF Ends
  <2>2. job.kind = "buckets" => st # "new"
    BY <1>7 DEF Ends, ShufflersRun
  <2>3. job.kind = "buckets" => \A d \in Segments : seg'[d].st = "new" => seg[d].st = "new"
    BY <1>7, <2>2 DEF Ends
  <2> QED BY <1>5, <2>1, <2>3
<1>8. ASSUME NEW s \in SPEs, NEW d \in Segments, Starts(s, d) PROVE HandedOutOnce'
  <2>1. /\ proc'[s].seg = d /\ \A u \in SPEs \ {s} : proc'[u] = proc[u]
        /\ seg[d].st = "new" /\ seg'[d].st = "running" /\ \A e \in Segments \ {d} : seg'[e] = seg[e]
        /\ UNCHANGED shuffler
    BY <1>1, <1>8 DEF Starts, NoProc, Segment
  <2>2. ASSUME NEW e \in Segments, NEW u \in SPEs, AtWork(proc'[u], e)
        PROVE  (u = s /\ e = d) \/ (u # s /\ AtWork(proc[u], e) /\ proc'[u] = proc[u])
    BY <2>1, <2>2 DEF AtWork
  <2>3. ASSUME job.kind = "buckets", NEW e \in Segments
        PROVE  /\ seg'[e].st = "new" => /\ \A u \in SPEs : ~AtWork(proc'[u], e)
                                        /\ \A b \in Buckets, n \in 1 .. job.parts[e] : ~InBucket(shuffler[b], <<e, n>>)
               /\ \A s1, s2 \in SPEs : AtWork(proc'[s1], e) /\ AtWork(proc'[s2], e) => s1 = s2
               /\ \A u \in SPEs, b \in Buckets, n \in 1 .. job.parts[e] :
                    AtWork(proc'[u], e) /\ ToCome(proc'[u], b, n) => ~InBucket(shuffler[b], <<e, n>>)
    <3>1. seg'[e].st = "new" => e # d /\ seg[e].st = "new"
      BY <2>1
    <3>2. CASE e = d
      BY <1>12, <2>1, <2>2, <2>3, <3>2
    <3>3. CASE e # d
      BY <1>12, <2>2, <2>3, <3>1, <3>3
    <3> QED BY <3>2, <3>3
  <2> QED BY <1>11, <1>15, <2>1, <2>3
<1>9. ASSUME Stays, Run \/ Leaves \/ Goes \/ \E b \in Buckets : ShufflerStep(b) PROVE HandedOutOnce'
  <2>1. UNCHANGED seg
    BY <1>9 DEF Stays
  <2>2. CASE Run
    <3>1. UNCHANGED proc /\ \A b \in Buckets : shuffler'[b].queue = shuffler[b].queue /\ shuffler'[b].file = shuffler[b].file
      BY <1>1, <2>2, ShufflersStarted DEF Run
    <3> QED BY <1>4, <1>11, <2>1, <3>1 DEF InBucket
  <2>3. CASE Leaves
    <3>1. \A b \in Buckets : /\ shuffler'[b].queue \in {shuffler[b].queue, Append(shuffler[b].queue, End)}
                             /\ shuffler'[b].file = shuffler[b].file
      BY <1>1, <2>3 DEF Leaves, Leave, Shuffler
    <3>2. UNCHANGED proc
      BY <2>3 DEF Leaves
    <3>3. ASSUME NEW b \in Buckets
          PROVE  /\ \A x : Has(Append(shuffler[b].queue, End), x) <=> Has(shuffler[b].queue, x) \/ x = End
                 /\ NoPartTwice(Append(shuffler[b].queue, End))
      BY <1>2, <1>11, HasAppend
    <3>4. \A b \in Buckets : NoPartTwice(shuffler'[b].queue) /\ \A x : Has(shuffler'[b].queue, x) => Has(shuffler[b].queue, x) \/ x = End
      BY <1>11, <3>1, <3>3
    <3>5. \A b \in Buckets : ~Has(shuffler[b].file, End)
      BY <1>2, <1>3 DEF Has
    <3> QED BY <1>4, <1>11, <2>1, <3>1, <3>2, <3>4, <3>5 DEF InBucket
  <2>4. CASE Goes
    BY <1>4, <1>11, <2>1, <2>4 DEF Goes
  <2>5. ASSUME NEW b \in Buckets, ShufflerEnds(b) PROVE HandedOutOnce'
    <3> DEFINE q == shuffler[b].queue
    <3>1. /\ q # <<>> /\ Head(q) = End /\ shuffler'[b].queue = Tail(q) /\ shuffler'[b].file = shuffler[b].file /\ UNCHANGED proc
          /\ \A c \in Buckets \ {b} : shuffler'[c] = shuffler[c]
      BY <1>1, <2>5 DEF ShufflerEnds, clientVars, Shuffler
    <3>2. (\A x : Has(q, x) <=> Has(Tail(q), x) \/ x = End) /\ NoPartTwice(Tail(q))
      BY <1>2, <1>11, <3>1, HasTail
    <3>3. \A c \in Buckets : /\ NoPartTwice(shuffler'[c].queue) /\ shuffler'[c].file = shuffler[c].file
                             /\ \A x : Has(shuffler'[c].queue, x) => Has(shuffler[c].queue, x)
      BY <1>11, <3>1, <3>2
    <3> QED BY <1>4, <1>11, <2>1, <3>1, <3>3 DEF InBucket
  <2>6. ASSUME NEW b \in Buckets, Shuffle(b) PROVE HandedOutOnce'
    <3> DEFINE q == shuffler[b].queue
               f == shuffler[b].file
               x == Head(q)
    <3>1. /\ q # <<>> /\ x \in Part /\ shuffler'[b].queue = Tail(q) /\ shuffler'[b].file = Append(f, x)
          /\ UNCHANGED proc /\ \A c \in Buckets \ {b} : shuffler'[c] = shuffler[c]
      BY <1>1, <1>2, <2>6 DEF Shuffle, Shuffler
    <3>2. (\A y : Has(q, y) <=> Has(Tail(q), y) \/ y = x) /\ NoPartTwice(Tail(q)) /\ ~Has(Tail(q), x)
      BY <1>2, <1>3, <1>11, <3>1, HasTail
    <3>3. (\A y : Has(Append(f, x), y) <=> Has(f, y) \/ y = x) /\ NoPartTwice(Append(f, x))
      <4>1. ~Has(f, x) /\ NoPartTwice(f)
        BY <1>11, <3>1, <3>2
      <4> QED BY <1>2, <3>1, <4>1, HasAppend
    <3>4. \A c \in Buckets : \A y : ~(Has(shuffler'[c].queue, y) /\ Has(shuffler'[c].file, y))
      BY <1>11, <3>1, <3>2, <3>3
    <3>5. \A c \in Buckets : \A y : InBucket(shuffler'[c], y) => InBucket(shuffler[c], y)
      BY <3>1, <3>2, <3>3 DEF InBucket
    <3>6. \A c \in Buckets : NoPartTwice(shuffler'[c].queue) /\ NoPartTwice(shuffler'[c].file)
      BY <1>11, <3>1, <3>2, <3>3
    <3> QED BY <1>4, <2>1, <3>1, <3>4, <3>5, <3>6
  <2> QED BY <1>9, <2>2, <2>3, <2>4, <2>5, <2>6 DEF ShufflerStep
<1>10. ASSUME NEW s \in SPEs, NEW b \in Buckets, Delivers(s, b) PROVE HandedOutOnce'
  <2> DEFINE q == shuffler[b].queue
             e == proc[s].seg
             k == proc[s].part
             x == <<e, k>>
  <2>1. /\ job.kind = "buckets" /\ e \in Segments /\ AtWork(proc[s], e) /\ ToCome(proc[s], b, k) /\ seg' = seg
        /\ shuffler'[b].queue = Append(q, x)
        /\ shuffler'[b].file = shuffler[b].file /\ \A c \in Buckets \ {b} : shuffler'[c] = shuffler[c]
    BY <1>10 DEF Delivers, ShufflersRun, AtWork, ToCome
  <2>9. k \in 1 .. job.parts[e] /\ x \in Part
    BY <1>13, <1>14, <2>1 DEF ShufflersRun, Part
  <2>2. ~InBucket(shuffler[b], x)
    BY <1>12, <2>1, <2>9
  <2>3. (\A y : Has(Append(q, x), y) <=> Has(q, y) \/ y = x) /\ NoPartTwice(Append(q, x))
    <3>1. ~Has(q, x)
      BY <2>2 DEF InBucket
    <3> HIDE DEF x
    <3> QED BY <1>2, <1>11, <2>9, <3>1, HasAppend
  <2>4. ASSUME NEW c \in Buckets, NEW y
        PROVE  /\ InBucket(shuffler'[c], y) <=> InBucket(shuffler[c], y) \/ (c = b /\ y = x)
               /\ ~(Has(shuffler'[c].queue, y) /\ Has(shuffler'[c].file, y))
    BY <1>11, <2>1, <2>2, <2>3 DEF InBucket
  <2>5. \A c \in Buckets : NoPartTwice(shuffler'[c].queue) /\ NoPartTwice(shuffler'[c].file)
    BY <1>11, <2>1, <2>3
  <2>6. \A u \in SPEs, d \in Segments : AtWork(proc'[u], d) => AtWork(proc[u], d)
    BY <1>10 DEF Delivers, AtWork
  <2>7. ASSUME NEW u \in SPEs, NEW c \in Buckets, NEW n \in Nat, ToCome(proc'[u], c, n)
        PROVE  ToCome(proc[u], c, n) /\ (u = s => c # b \/ n # k)
    <3>1. CASE u = s
      BY <1>10, <1>13, <2>7, <3>1 DEF Delivers, ToCome
    <3>2. CASE u # s
      BY <1>10, <2>7, <3>2 DEF Delivers
    <3> QED BY <3>1, <3>2
  <2>8. ASSUME NEW d \in Segments
        PROVE  /\ seg'[d].st = "new" => /\ \A u \in SPEs : ~AtWork(proc'[u], d)
                                        /\ \A c \in Buckets, n \in 1 .. job.parts[d] : ~InBucket(shuffler'[c], <<d, n>>)
               /\ \A s1, s2 \in SPEs : AtWork(proc'[s1], d) /\ AtWork(proc'[s2], d) => s1 = s2
               /\ \A u \in SPEs, c \in Buckets, n \in 1 .. job.parts[d] :
                    AtWork(proc'[u], d) /\ ToCome(proc'[u], c, n) => ~InBucket(shuffler'[c], <<d, n>>)
    <3>1. seg'[d].st = "new" => d # e
      BY <1>12, <2>1
    <3>4. \A n : <<d, n>> = x => d = e /\ n = k
      OBVIOUS
    <3>2. ASSUME NEW u \in SPEs, NEW c \in Buckets, NEW n \in 1 .. job.parts[d], AtWork(proc'[u], d), ToCome(proc'[u], c, n)
          PROVE  ~InBucket(shuffler'[c], <<d, n>>)
      <4>3. n \in Nat /\ AtWork(proc[u], d) /\ ToCome(proc[u], c, n) /\ (u = s => c # b \/ n # k)
        BY <1>14, <2>6, <2>7, <3>2
      <4>1. ~InBucket(shuffler[c], <<d, n>>)
        BY <1>12, <2>1, <4>3
      <4>2. ~(c = b /\ <<d, n>> = x)
        BY <1>12, <2>1, <3>4, <4>3
      <4> QED BY <2>4, <4>1, <4>2
    <3>3. seg'[d].st = "new" => /\ \A u \in SPEs : ~AtWork(proc'[u], d)
                                /\ \A c \in Buckets, n \in 1 .. job.parts[d] : ~InBucket(shuffler'[c], <<d, n>>)
      BY <1>12, <2>1, <2>4, <2>6, <3>1, <3>4
    <3> QED BY <1>12, <2>1, <2>6, <3>2, <3>3
  <2> QED BY <1>15, <2>4, <2>5, <2>8
<1> QED BY <1>6, <1>7, <1>8, <1>9, <1>10, SegmentSteps, ShufflerSteps

-----------------------------------------------------------------------------
(* The theorems. *)

LEMMA InitJobInv ==
  ASSUME Init
  PROVE  JobInv
<1>1. client = [pc |-> "run", i |-> 1, busy |-> FALSE, found |-> FALSE]
  BY DEF Init, Checking
<1>2. PICK r \in {0, MaxRetry} : seg = [d \in Segments |-> [st |-> "new", retry |-> r]]
  BY DEF Init
<1>3. TypeOK
  <2>1. client \in Client
    BY <1>1, CountAssumption DEF Client
  <2>2. seg \in [Segments -> Segment]
    BY <1>2, LimitAssumption DEF Segment
  <2>3. spe \in [SPEs -> SPE] /\ proc \in [SPEs -> Proc]
    BY CountAssumption DEF Init, SPE, Proc, NoProc
  <2>4. shuffler \in [Buckets -> Shuffler]
    BY DEF Init, Shuffler
  <2>5. 0 \in 0 .. NSegment /\ 0 \in 0 .. NSPE /\ 0 \in 0 .. job.faults
    BY CountAssumption, TypeOfJob DEF Init
  <2> QED BY <2>1, <2>2, <2>3, <2>4, <2>5 DEF Init, TypeOK
<1>4. CountersAgree
  <2>1. Finished = {} /\ ReadSegments = {} /\ Uncounted = 0 /\ progress = 0 /\ avail = 0
    BY <1>1, <1>2 DEF Init, Finished, ReadSegments, Uncounted
  <2> QED BY <2>1, FS_EmptySet DEF CountersAgree
<1>5. ReportsFindTransaction /\ SPEsCounted
  BY <1>1 DEF Init, ReportsFindTransaction, SPEsCounted, NoProc
<1>6. SegmentsMatched
  BY <1>2 DEF Init, SegmentsMatched
<1>7. ShufflersRun
  BY <1>1 DEF Init, ShufflersRun, Started, NoProc, Segments
<1>8. HandedOutOnce
  <2>1. \A b \in Buckets : shuffler[b].queue = <<>> /\ \A x : ~Has(shuffler[b].queue, x) /\ ~Has(shuffler[b].file, x)
    BY DEF Init, Has
  <2>2. \A b \in Buckets : NoPartTwice(shuffler[b].queue) /\ NoPartTwice(shuffler[b].file)
    BY DEF Init, NoPartTwice
  <2>3. \A s \in SPEs, d \in Segments : ~AtWork(proc[s], d)
    BY DEF Init, AtWork, NoProc
  <2> QED BY <2>1, <2>2, <2>3 DEF HandedOutOnce, InBucket
<1> QED BY <1>3, <1>4, <1>5, <1>6, <1>7, <1>8 DEF JobInv

LEMMA NextJobInv == JobInv /\ [Next]_vars => JobInv'
BY TypeStep, CountersStep, ReportsStep, CountedStep, MatchedStep, ShufflersStep, HandedStep DEF JobInv

\* What the client counts, hands out and lists of a job is as JobInv says, in every
\* order of losses, messages and ends (DCClient::run, checkSPE, serv_spe).
THEOREM JobInvariant == Spec => []JobInv
<1>1. Init => JobInv
  BY InitJobInv
<1> QED BY <1>1, NextJobInv, PTL DEF Spec

\* One SPE runs a segment that is running, because the two are matched.
LEMMA MatchedIsOne == TypeOK /\ SegmentsMatched => OneSPEPerSegment
<1> SUFFICES ASSUME TypeOK, SegmentsMatched, NEW d \in Segments
             PROVE  Cardinality({s \in SPEs : spe[s].st = "running" /\ spe[s].seg = d}) = IF seg[d].st = "running" THEN 1 ELSE 0
  BY DEF OneSPEPerSegment
<1> DEFINE S == {s \in SPEs : spe[s].st = "running" /\ spe[s].seg = d}
<1>1. CASE seg[d].st = "running"
  <2>1. PICK s \in SPEs : spe[s] = [st |-> "running", seg |-> d]
    BY <1>1 DEF SegmentsMatched
  <2>2. ASSUME NEW u \in S PROVE u = s
    <3>1. spe[u] \in SPE /\ spe[u].st = "running" /\ spe[u].seg = d
      BY DEF TypeOK
    <3>2. spe[u] = spe[s]
      BY <2>1, <3>1 DEF SPE
    <3> QED BY <3>1, <3>2 DEF SegmentsMatched
  <2>3. S = {s}
    BY <2>1, <2>2
  <2> QED BY <1>1, <2>3, FS_Singleton
<1>2. CASE seg[d].st # "running"
  <2>1. S = {}
    BY <1>2 DEF SegmentsMatched
  <2> QED BY <1>2, <2>1, FS_EmptySet
<1> QED BY <1>1, <1>2

\* A part is in the file of a bucket once, if no two places hold the same.
LEMMA OnceInFile == TypeOK /\ HandedOutOnce => OncePerBucket
<1> SUFFICES ASSUME TypeOK, HandedOutOnce, NEW b \in Buckets,
                    NEW i \in DOMAIN shuffler[b].file, NEW j \in DOMAIN shuffler[b].file,
                    shuffler[b].file[i] = shuffler[b].file[j]
             PROVE  i = j
  BY DEF OncePerBucket
<1>1. shuffler[b].file \in Seq(Part)
  BY DEF TypeOK, Shuffler
<1>2. shuffler[b].file[i] \in Part /\ End \notin Part
  BY <1>1 DEF Part, End, Segments
<1> QED BY <1>2 DEF HandedOutOnce, NoPartTwice

\* What the client counts, what the SPEs work on, what the buckets get and what the
\* master lists of a job agree, for every number of SPEs, segments, buckets and faults.
THEOREM JobsConsistent == Spec => []JobConsistent
<1>1. JobInv => JobConsistent
  BY MatchedIsOne, OnceInFile DEF JobInv, JobConsistent
<1> QED BY <1>1, JobInvariant, PTL

\* A step of the client is a step of the job that SphereJob describes, or none of it.
LEMMA StepImplements ==
  ASSUME JobInv, [Next]_vars
  PROVE  [Job!Next]_Job!jobVars
<1> DEFINE taken == {d \in Segments : seg[d].st = "read"}
           open == client.pc \notin {"drain", "end"}
<1>1. TypeOK /\ SegmentsMatched /\ seg \in [Segments -> Segment] /\ client \in Client
      /\ outcome \in [Segments -> {"none", "data", "nothing", "failure"}]
  BY DEF JobInv, TypeOK
<1>2. outcome' \in [Segments -> {"none", "data", "nothing", "failure"}]
  BY NextJobInv DEF JobInv, TypeOK
<1>3. UNCHANGED <<outcome, taken>> => [Job!Next]_Job!jobVars
  <2>1. SUFFICES ASSUME UNCHANGED <<outcome, taken>>, open' # open PROVE Job!Close
    BY DEF Job!Next, Job!jobVars
  <2>2. open /\ ~open'
    <3>1. CASE Run
      BY <2>1, <3>1 DEF Run
    <3>2. CASE Later
      BY <2>1, <3>2 DEF Later
    <3> QED BY <2>1, <3>1, <3>2, <1>1, ClientSteps
  <2> QED BY <2>1, <2>2 DEF Job!Close
<1>4. CASE Stays
  BY <1>3, <1>4 DEF Stays
<1>5. ASSUME NEW s \in SPEs, NEW d \in Segments, Starts(s, d) PROVE [Job!Next]_Job!jobVars
  <2>1. \A e \in Segments : seg'[e].st = "read" <=> seg[e].st = "read"
    BY <1>1, <1>5 DEF Starts, Segment
  <2>2. taken' = taken /\ outcome' = outcome
    BY <1>5, <2>1 DEF Starts
  <2> QED BY <1>3, <2>2
<1>6. ASSUME NEW s \in SPEs, NEW st \in {"new", "done", "failed"}, Ends(s, st) PROVE [Job!Next]_Job!jobVars
  <2> DEFINE d == spe[s].seg
  <2>1. /\ d \in Segments /\ seg[d].st = "running" /\ seg'[d].st = st /\ open /\ open'
        /\ \A e \in Segments \ {d} : seg'[e] = seg[e] /\ outcome'[e] = outcome[e]
        /\ outcome[d] = "none" /\ (outcome'[d] = "none" <=> st = "new")
    BY <1>1, <1>6 DEF Ends, SegmentsMatched
  <2>2. taken' = taken
    BY <2>1
  <2>3. CASE st = "new"
    <3>1. outcome' = outcome
      BY <1>1, <1>2, <2>1, <2>3
    <3> QED BY <1>3, <2>2, <3>1
  <2>4. CASE st # "new"
    <3>1. outcome' = [outcome EXCEPT ![d] = outcome'[d]] /\ outcome'[d] \in {"data", "nothing", "failure"}
      BY <1>1, <1>2, <2>1, <2>4
    <3>2. Job!Finish(d, outcome'[d])
      BY <2>1, <2>2, <3>1 DEF Job!Finish
    <3> QED BY <2>1, <3>1, <3>2 DEF Job!Next
  <2> QED BY <2>3, <2>4
<1>7. CASE Read
  <2>1. PICK d \in Segments : seg[d].st \in {"done", "failed"} /\ seg' = [seg EXCEPT ![d].st = "read"]
    BY <1>7 DEF Read
  <2>2. seg'[d].st = "read" /\ \A e \in Segments \ {d} : seg'[e] = seg[e]
    BY <1>1, <2>1 DEF Segment
  <2>3. taken' = taken \cup {d} /\ d \notin taken
    BY <2>1, <2>2
  <2>4. outcome[d] # "none" /\ UNCHANGED <<outcome, client>>
    BY <1>1, <1>7, <2>1 DEF Read, SegmentsMatched
  <2>5. Job!Take(d)
    BY <2>3, <2>4 DEF Job!Take
  <2> QED BY <2>5 DEF Job!Next
<1> QED BY <1>1, <1>4, <1>5, <1>6, <1>7, SegmentSteps

\* DCClient implements the job that SphereJob describes: every segment comes to at most
\* one end while the job runs, and is read at most once.
THEOREM ClientImplementsJob == Spec => ImplementsSphereJob
<1>1. Init => Job!Init
  <2>1. ASSUME Init PROVE {d \in Segments : seg[d].st = "read"} = {} /\ client.pc = "run" /\ outcome = [d \in Segments |-> "none"]
    BY <2>1 DEF Init, Checking
  <2> QED BY <2>1 DEF Job!Init
<1>2. JobInv /\ [Next]_vars => [Job!Next]_Job!jobVars
  BY StepImplements
<1> QED BY <1>1, <1>2, JobInvariant, PTL DEF Spec, ImplementsSphereJob, Job!Spec

-----------------------------------------------------------------------------
(* FuseFiles: any processes, paths, handles and renames. *)

\* Processes and paths are finitely many.
FuseAssumption == IsFiniteSet(Procs) /\ IsFiniteSet(FusePaths) /\ MaxOffset \in Nat

LEMMA SameCardinality ==
  ASSUME NEW S
  PROVE  F!Cardinality(S) = Cardinality(S)
BY DEF F!Cardinality, Cardinality

LEMMA LeastNumber ==
  ASSUME NEW T \in SUBSET Nat, T # {}
  PROVE  \E k \in T : \A m \in T : ~(m < k)
<1>1. PICK k \in T : \A m \in T : <<m, k>> \notin OpToRel(<, Nat)
  <2>1. \E x \in T : \A y \in T : ~(<<y, x>> \in OpToRel(<, Nat))
    BY NatLessThanWellFounded, WFMin
  <2> QED BY <2>1
<1> QED BY <1>1 DEF OpToRel

\* A finite set of numbers has a greatest one: the one with the fewest above it.
LEMMA GreatestNumber ==
  ASSUME NEW S \in SUBSET Nat, IsFiniteSet(S), S # {}
  PROVE  \E k \in S : \A m \in S : m <= k
<1> DEFINE Above(x) == {g \in S : g > x}
           T == {n \in Nat : \E x \in S : n = Cardinality(Above(x))}
<1>1. \A x \in S : IsFiniteSet(Above(x)) /\ Cardinality(Above(x)) \in Nat
  BY FS_Subset, FS_CardinalityType
<1>2. T # {}
  BY <1>1
<1>3. PICK n \in T : \A m \in T : ~(m < n)
  BY <1>2, LeastNumber
<1>4. PICK k \in S : n = Cardinality(Above(k))
  BY <1>3
<1>5. ASSUME NEW m \in S, m > k PROVE FALSE
  <2>1. Above(m) \in SUBSET Above(k) /\ m \in Above(k) /\ m \notin Above(m)
    <3>1. k \in Nat /\ m \in Nat /\ S \subseteq Nat
      OBVIOUS
    <3>2. \A g \in S : g > m => g > k
      BY <1>5, <3>1
    <3>3. ~(m > m) /\ m > k
      BY <1>5, <3>1
    <3>4. Above(m) \subseteq Above(k)
      BY <3>2
    <3> QED BY <3>3, <3>4
  <2>2. Cardinality(Above(m)) <= n /\ Cardinality(Above(m)) # n
    BY <1>1, <1>4, <2>1, FS_Subset
  <2>3. Cardinality(Above(m)) \in T
    BY <1>1
  <2> QED BY <1>1, <1>3, <2>2, <2>3
<1> QED BY <1>5

\* What is new is not Nothing.
LEMMA NewFileIsNew ==
  ASSUME FuseAssumption, F!TypeOK
  PROVE  F!NewFile \in Nat \ {0}
<1> DEFINE A == {fs[p] : p \in FusePaths}
           H == [h \in DOMAIN handle |-> handle[h].file]
           B == {handle[h].file : h \in DOMAIN handle}
<1>1. fs \in [FusePaths -> Nat] /\ handle \in Seq(F!HandleRecord)
  BY DEF F!TypeOK
<1>2. DOMAIN handle = 1 .. Len(handle) /\ Len(handle) \in Nat /\ \A h \in DOMAIN handle : handle[h].file \in Nat
  <2>1. DOMAIN handle = 1 .. Len(handle) /\ Len(handle) \in Nat
    BY <1>1, LenProperties
  <2>2. \A h \in DOMAIN handle : handle[h] \in F!HandleRecord
    BY <1>1, <2>1, ElementOfSeq
  <2> QED BY <2>1, <2>2 DEF F!HandleRecord
<1>3. IsFiniteSet(A)
  <2>1. fs \in Surjection(FusePaths, A)
    BY <1>1 DEF Surjection
  <2> QED BY <2>1, FS_Surjection DEF FuseAssumption
<1>4. IsFiniteSet(B)
  <2>1. H \in Surjection(DOMAIN handle, B)
    BY DEF Surjection
  <2>2. IsFiniteSet(DOMAIN handle)
    BY <1>2, FS_Interval
  <2> QED BY <2>1, <2>2, FS_Surjection
<1>5. F!AllFiles = (A \cup B) \cup {0}
  BY DEF F!AllFiles, F!Nothing
<1>6. IsFiniteSet(F!AllFiles) /\ F!AllFiles \in SUBSET Nat /\ F!AllFiles # {}
  <2>1. IsFiniteSet(A \cup B)
    BY <1>3, <1>4, FS_Union
  <2>2. IsFiniteSet((A \cup B) \cup {0})
    BY <2>1, FS_AddElement
  <2>3. A \subseteq Nat /\ B \subseteq Nat
    BY <1>1, <1>2
  <2> HIDE DEF A, B
  <2> QED BY <1>5, <2>2, <2>3
<1>7. \E f \in F!AllFiles : \A g \in F!AllFiles : g <= f
  BY <1>6, GreatestNumber
<1>8. PICK f \in F!AllFiles : f = CHOOSE k \in F!AllFiles : \A g \in F!AllFiles : g <= k
  BY <1>7
<1>9. f \in Nat /\ F!NewFile = 1 + f
  BY <1>6, <1>8 DEF F!NewFile
<1> QED BY <1>9

-----------------------------------------------------------------------------
(* FuseInv holds of the initial state, and an action at a time keeps it. *)

LEMMA FuseStart ==
  ASSUME F!Init
  PROVE  F!FuseInv
<1>1. handle = << >> /\ tracker = << >> /\ DOMAIN handle = {} /\ DOMAIN tracker = {} /\ handle \in Seq(F!HandleRecord)
  BY EmptySeq DEF F!Init
<1>2. fs = [p \in FusePaths |-> 0] /\ moved = FALSE /\ fd = [c \in Procs |-> F!Closed] /\ at = [c \in Procs |-> F!Idle]
  BY DEF F!Init, F!Nothing
<1>3. \A c \in Procs : at[c].st = "idle" /\ ~fd[c].open
  BY <1>2 DEF F!Idle, F!Closed
<1>4. F!TypeOK
  <2>1. tracker \in [DOMAIN tracker -> [count : Nat, handle : DOMAIN handle]]
    BY <1>1
  <2> QED BY <1>1, <1>2, <2>1 DEF F!TypeOK, F!AtRecord
<1>5. F!TrackersTrue
  BY <1>1, <1>3 DEF F!TrackersTrue
<1>6. F!CallsTrue /\ F!UsesTheHandle /\ F!AtItsOffset /\ F!ClosesWhatItOpens
  BY <1>1, <1>3 DEF F!CallsTrue, F!UsesTheHandle, F!AtItsOffset, F!ClosesWhatItOpens, F!Busy
<1> QED BY <1>4, <1>5, <1>6 DEF F!FuseInv

\* Two of the properties follow from what is said of trackers and calls.
LEMMA FuseFromParts ==
  ASSUME F!TypeOK', ~moved' => F!TrackersTrue' /\ F!CallsTrue' /\ F!AtItsOffset'
  PROVE  F!FuseInv'
<1>1. ASSUME ~moved' PROVE F!UsesTheHandle' /\ F!ClosesWhatItOpens'
  <2>1. F!TrackersTrue' /\ F!CallsTrue'
    BY <1>1
  <2>2. F!UsesTheHandle'
    BY <2>1 DEF F!UsesTheHandle, F!TrackersTrue, F!CallsTrue, F!Busy
  <2>3. ASSUME NEW h \in DOMAIN handle'
        PROVE  handle[h].live' <=> \E c \in Procs : /\ fd[c].open' /\ fd[c].path' \in DOMAIN tracker'
                                                    /\ tracker'[fd'[c].path].handle = h
    <3>1. ASSUME handle'[h].live
          PROVE  \E c \in Procs : fd[c].open' /\ fd[c].path' \in DOMAIN tracker' /\ tracker'[fd'[c].path].handle = h
      <4>1. PICK p \in DOMAIN tracker' : tracker'[p].handle = h
        BY <2>1, <3>1 DEF F!TrackersTrue
      <4>2. PICK c \in Procs : fd'[c].open /\ fd'[c].path = p
        <5>1. F!Readers(p)' # {}
          BY <2>1, <4>1 DEF F!TrackersTrue
        <5> QED BY <5>1 DEF F!Readers
      <4> QED BY <4>1, <4>2
    <3>2. ASSUME NEW c \in Procs, fd'[c].open, fd'[c].path \in DOMAIN tracker', tracker'[fd'[c].path].handle = h
          PROVE  handle'[h].live
      BY <2>1, <3>2 DEF F!TrackersTrue
    <3> QED BY <3>1, <3>2
  <2> QED BY <2>2, <2>3 DEF F!ClosesWhatItOpens
<1> QED BY <1>1 DEF F!FuseInv

\* Writing at a place of a sequence of handles.
LEMMA HandleAt ==
  ASSUME NEW H \in Seq(F!HandleRecord), NEW x, NEW r, NEW K, K = [H EXCEPT ![x] = r],
         x \in DOMAIN H => r \in F!HandleRecord
  PROVE  /\ K \in Seq(F!HandleRecord) /\ DOMAIN K = DOMAIN H
         /\ \A h \in DOMAIN H : K[h] = IF h = x THEN r ELSE H[h]
<1>1. DOMAIN H = 1 .. Len(H) /\ Len(H) \in Nat /\ H \in [1 .. Len(H) -> F!HandleRecord]
  BY LenProperties
<1>2. DOMAIN K = DOMAIN H /\ \A h \in DOMAIN H : K[h] = IF h = x THEN r ELSE H[h]
  BY <1>1
<1>3. K \in [1 .. Len(H) -> F!HandleRecord]
  <2>1. \A h \in 1 .. Len(H) : K[h] \in F!HandleRecord
    BY <1>1, <1>2
  <2>2. K = [h \in 1 .. Len(H) |-> K[h]]
    BY <1>1
  <2> QED BY <2>1, <2>2
<1> QED BY <1>1, <1>2, <1>3, SeqDef

\* What FuseInv says, opened.
LEMMA FuseKnown ==
  ASSUME F!FuseInv
  PROVE  /\ F!TypeOK
         /\ fs \in [FusePaths -> Nat] /\ handle \in Seq(F!HandleRecord)
         /\ DOMAIN tracker \subseteq FusePaths /\ tracker \in [DOMAIN tracker -> [count : Nat, handle : DOMAIN handle]]
         /\ fd \in [Procs -> {F!Closed} \cup [open : {TRUE}, path : FusePaths]] /\ at \in [Procs -> F!AtRecord]
         /\ moved \in BOOLEAN
         /\ DOMAIN handle = 1 .. Len(handle) /\ Len(handle) \in Nat
         /\ \A h \in DOMAIN handle : handle[h] \in F!HandleRecord
         /\ ~moved => F!TrackersTrue /\ F!CallsTrue /\ F!AtItsOffset
<1>1. F!TypeOK
  BY DEF F!FuseInv
<1>2. handle \in Seq(F!HandleRecord)
  BY <1>1 DEF F!TypeOK
<1>3. DOMAIN handle = 1 .. Len(handle) /\ Len(handle) \in Nat
  BY <1>2, LenProperties
<1>4. \A h \in DOMAIN handle : handle[h] \in F!HandleRecord
  BY <1>2, <1>3, ElementOfSeq
<1> QED BY <1>1, <1>3, <1>4 DEF F!TypeOK, F!FuseInv

\* The trackers say the same when the handles keep their files and are as open as they were.
LEMMA TrackersFrame ==
  ASSUME F!FuseInv, F!TrackersTrue, fs' = fs, tracker' = tracker, fd' = fd, DOMAIN handle' = DOMAIN handle,
         \A h \in DOMAIN handle : handle'[h].file = handle[h].file /\ handle'[h].live = handle[h].live
  PROVE  F!TrackersTrue'
<1>1. tracker \in [DOMAIN tracker -> [count : Nat, handle : DOMAIN handle]]
  BY FuseKnown
<1>2. \A p \in DOMAIN tracker : tracker[p].handle \in DOMAIN handle
  BY <1>1
<1>3. \A p : F!Readers(p)' = F!Readers(p)
  BY DEF F!Readers
<1> HIDE DEF F!Readers
<1>4. ASSUME NEW p \in DOMAIN tracker'
      PROVE  /\ tracker'[p].count = F!Cardinality(F!Readers(p)') /\ F!Readers(p)' # {}
             /\ fs'[p] # F!Nothing /\ handle'[tracker'[p].handle].live /\ handle'[tracker'[p].handle].file = fs'[p]
  BY <1>2, <1>3 DEF F!TrackersTrue
<1> QED BY <1>2, <1>4 DEF F!TrackersTrue

\* The calls that have a handle go on as before when it is still that of their path and no
\* other call has joined or left.
LEMMA CallsFrame ==
  ASSUME F!CallsTrue, F!AtItsOffset, ~moved,
         \A d \in Procs : F!Busy(d)' <=> F!Busy(d),
         \A d \in Procs : F!Busy(d) =>
           /\ at'[d] = at[d] /\ fd'[d] = fd[d] /\ tracker'[fd[d].path].handle = tracker[fd[d].path].handle
           /\ handle'[at[d].h] = handle[at[d].h],
         \A d \in Procs : at'[d].st = "made" => ~fd'[d].open
  PROVE  F!CallsTrue' /\ F!AtItsOffset'
<1>1. \A k, op : F!OnHandle(k, op)' = F!OnHandle(k, op)
  BY DEF F!OnHandle, F!Busy
<1>2. ASSUME NEW d \in Procs, F!Busy(d)'
      PROVE  /\ fd'[d].open /\ at'[d].h = tracker'[fd'[d].path].handle
             /\ at'[d].alone => F!OnHandle(at[d].h, at[d].op)' = {d}
  <2>1. F!Busy(d) /\ at'[d] = at[d] /\ fd'[d] = fd[d]
    BY <1>2
  <2>2. fd[d].open /\ at[d].h = tracker[fd[d].path].handle /\ (at[d].alone => F!OnHandle(at[d].h, at[d].op) = {d})
    BY <2>1 DEF F!CallsTrue
  <2> QED BY <1>1, <2>1, <2>2
<1>3. F!CallsTrue'
  BY <1>2 DEF F!CallsTrue
<1>4. F!AtItsOffset'
  <2> SUFFICES ASSUME NEW d \in Procs, at'[d].st = "sought", at'[d].alone, ~at'[d].past
               PROVE  at'[d].off = IF at'[d].op = "read" THEN handle'[at'[d].h].get ELSE handle'[at'[d].h].put
    BY DEF F!AtItsOffset
  <2>1. F!Busy(d)' /\ F!Busy(d)
    BY DEF F!Busy
  <2>2. at'[d] = at[d] /\ handle'[at[d].h] = handle[at[d].h]
    BY <2>1
  <2> QED BY <2>2 DEF F!AtItsOffset
<1> QED BY <1>3, <1>4

\* A call is one of three.
LEMMA CallRecord ==
  ASSUME F!FuseInv, NEW c \in Procs
  PROVE  /\ at[c].st \in {"idle", "made", "got", "sought"}
         /\ at[c].st = "idle" => at[c] = F!Idle
         /\ at[c].st = "made" => at[c] \in [st : {"made"}, path : FusePaths]
         /\ F!Busy(c) => at[c] \in [st : {"got", "sought"}, h : Nat, op : {"read", "write"}, off : Nat, alone : BOOLEAN, past : BOOLEAN]
         /\ fd[c].open \in BOOLEAN /\ (fd[c].open => fd[c] \in [open : {TRUE}, path : FusePaths])
<1>1. at[c] \in F!AtRecord /\ fd[c] \in {F!Closed} \cup [open : {TRUE}, path : FusePaths]
  BY FuseKnown
<1>2. \/ at[c] = F!Idle
      \/ at[c] \in [st : {"made"}, path : FusePaths]
      \/ at[c] \in [st : {"got", "sought"}, h : Nat, op : {"read", "write"}, off : Nat, alone : BOOLEAN, past : BOOLEAN]
  BY <1>1 DEF F!AtRecord
<1>3. F!Idle.st = "idle" /\ F!Closed.open = FALSE
  BY DEF F!Idle, F!Closed
<1>4. fd[c].open \in BOOLEAN /\ (fd[c].open => fd[c] \in [open : {TRUE}, path : FusePaths])
  BY <1>1, <1>3
<1>5. CASE at[c] = F!Idle
  BY <1>3, <1>4, <1>5 DEF F!Busy
<1>6. CASE at[c] \in [st : {"made"}, path : FusePaths]
  <2>1. at[c].st = "made"
    BY <1>6
  <2> QED BY <1>4, <1>6, <2>1 DEF F!Busy
<1>7. CASE at[c] \in [st : {"got", "sought"}, h : Nat, op : {"read", "write"}, off : Nat, alone : BOOLEAN, past : BOOLEAN]
  <2>1. at[c].st \in {"got", "sought"}
    BY <1>7
  <2> QED BY <1>4, <1>7, <2>1 DEF F!Busy
<1> QED BY <1>2, <1>5, <1>6, <1>7

LEMMA SeekKeeps ==
  ASSUME F!FuseInv, NEW c \in Procs, F!Seek(c)
  PROVE  F!FuseInv'
<1>1. at[c].st = "got" /\ F!Busy(c) /\ at[c].off \in Nat /\ at[c].h \in Nat /\ at[c].op \in {"read", "write"}
      /\ at[c] \in [st : {"got", "sought"}, h : Nat, op : {"read", "write"}, off : Nat, alone : BOOLEAN, past : BOOLEAN]
  BY CallRecord DEF F!Seek, F!Busy
<1>0. PICK past \in BOOLEAN : past = (at[c].op = "read" /\ at[c].off > handle[at[c].h].size)
  OBVIOUS
<1>2. PICK r : /\ r = CASE past -> handle[at[c].h]
                     [] at[c].op = "write" -> [handle[at[c].h] EXCEPT !.put = at[c].off]
                     [] OTHER -> [handle[at[c].h] EXCEPT !.get = at[c].off]
               /\ handle' = [handle EXCEPT ![at[c].h] = r]
  BY <1>0 DEF F!Seek
<1>3. at[c].h \in DOMAIN handle =>
        /\ r \in F!HandleRecord /\ r.file = handle[at[c].h].file /\ r.live = handle[at[c].h].live
        /\ at[c].op = "read" => r.put = handle[at[c].h].put /\ (~past => r.get = at[c].off)
        /\ at[c].op = "write" => r.put = at[c].off /\ r.get = handle[at[c].h].get
  <2> HAVE at[c].h \in DOMAIN handle
  <2>1. PICK q \in F!HandleRecord : q = handle[at[c].h]
    BY FuseKnown
  <2>2. CASE past
    BY <1>0, <1>1, <1>2, <2>1, <2>2
  <2>3. CASE ~past /\ at[c].op = "write"
    <3>1. r = [q EXCEPT !.put = at[c].off]
      BY <1>2, <2>1, <2>3
    <3> QED BY <1>1, <2>1, <2>3, <3>1 DEF F!HandleRecord
  <2>4. CASE ~past /\ at[c].op = "read"
    <3>1. r = [q EXCEPT !.get = at[c].off]
      BY <1>2, <2>1, <2>4
    <3> QED BY <1>1, <2>1, <2>4, <3>1 DEF F!HandleRecord
  <2> QED BY <1>1, <2>2, <2>3, <2>4
<1>4. /\ handle' \in Seq(F!HandleRecord) /\ DOMAIN handle' = DOMAIN handle
      /\ \A h \in DOMAIN handle : handle'[h] = IF h = at[c].h THEN r ELSE handle[h]
  <2>1. handle \in Seq(F!HandleRecord)
    BY FuseKnown
  <2>2. handle' = [handle EXCEPT ![at[c].h] = r] /\ (at[c].h \in DOMAIN handle => r \in F!HandleRecord)
    BY <1>2, <1>3
  <2> QED BY <2>1, <2>2, HandleAt
<1>5. /\ fs' = fs /\ tracker' = tracker /\ fd' = fd /\ moved' = moved
      /\ at' = [at EXCEPT ![c] = [at[c] EXCEPT !.st = "sought", !.past = past]]
  BY <1>0 DEF F!Seek
<1>6. PICK a : a = [at[c] EXCEPT !.st = "sought", !.past = past]
  OBVIOUS
<1>7. /\ a \in [st : {"got", "sought"}, h : Nat, op : {"read", "write"}, off : Nat, alone : BOOLEAN, past : BOOLEAN]
      /\ a.st = "sought" /\ a.h = at[c].h /\ a.op = at[c].op /\ a.off = at[c].off /\ a.alone = at[c].alone /\ a.past = past
  BY <1>1, <1>6
<1>8. at' \in [Procs -> F!AtRecord] /\ at'[c] = a /\ \A d \in Procs : d # c => at'[d] = at[d]
  BY <1>5, <1>6, <1>7, FuseKnown DEF F!AtRecord
<1>9. F!TypeOK'
  BY <1>4, <1>5, <1>8, FuseKnown DEF F!TypeOK
<1>10. ASSUME ~moved' PROVE F!TrackersTrue' /\ F!CallsTrue' /\ F!AtItsOffset'
  <2>1. F!TrackersTrue /\ F!CallsTrue /\ F!AtItsOffset /\ ~moved
    BY <1>5, <1>10, FuseKnown
  <2>2. F!TrackersTrue'
    BY <1>3, <1>4, <1>5, <2>1, TrackersFrame
  <2>3. \A k, op : F!OnHandle(k, op)' = F!OnHandle(k, op)
    BY <1>1, <1>7, <1>8 DEF F!OnHandle
  <2>4. ASSUME NEW d \in Procs
        PROVE  /\ F!Busy(d)' <=> F!Busy(d)
               /\ F!Busy(d) => at'[d].h = at[d].h /\ at'[d].op = at[d].op /\ at'[d].alone = at[d].alone
               /\ at'[d].st = "made" => at[d].st = "made"
    BY <1>1, <1>7, <1>8 DEF F!Busy
  <2>5. F!CallsTrue'
    <3>1. ASSUME NEW d \in Procs, F!Busy(d)', at'[d].alone PROVE F!OnHandle(at[d].h, at[d].op)' = {d}
      <4>1. F!OnHandle(at[d].h, at[d].op) = {d} /\ at'[d].h = at[d].h /\ at'[d].op = at[d].op
        BY <2>1, <2>4, <3>1 DEF F!CallsTrue
      <4> QED BY <2>3, <4>1
    <3> QED BY <1>5, <2>1, <2>4, <3>1 DEF F!CallsTrue
  <2>6. F!AtItsOffset'
    <3> SUFFICES ASSUME NEW d \in Procs, at'[d].st = "sought", at'[d].alone, ~at'[d].past
                 PROVE  at'[d].off = IF at'[d].op = "read" THEN handle'[at'[d].h].get ELSE handle'[at'[d].h].put
      BY DEF F!AtItsOffset
    <3>1. F!Busy(d) /\ at[d].h \in DOMAIN handle /\ F!OnHandle(at[d].h, at[d].op) = {d} /\ at[c].h \in DOMAIN handle
      <4>1. F!Busy(d)' /\ F!Busy(d) /\ at[d].alone
        BY <2>4 DEF F!Busy
      <4>2. /\ fd[d].open /\ at[d].h = tracker[fd[d].path].handle /\ fd[d].path \in DOMAIN tracker
            /\ fd[c].open /\ at[c].h = tracker[fd[c].path].handle /\ fd[c].path \in DOMAIN tracker
        BY <1>1, <2>1, <4>1 DEF F!CallsTrue, F!TrackersTrue
      <4> QED BY <2>1, <4>1, <4>2, FuseKnown DEF F!CallsTrue
    <3>2. CASE d = c
      BY <1>1, <1>3, <1>4, <1>7, <1>8, <3>1, <3>2
    <3>3. CASE d # c
      <4>1. at'[d] = at[d] /\ at[d].st = "sought" /\ at[d].alone /\ at[d].op \in {"read", "write"}
        BY <1>8, <3>1, <3>3, CallRecord
      <4>2. at[d].off = IF at[d].op = "read" THEN handle[at[d].h].get ELSE handle[at[d].h].put
        BY <2>1, <4>1 DEF F!AtItsOffset
      <4>3. c \notin F!OnHandle(at[d].h, at[d].op)
        BY <3>1, <3>3
      <4>4. ~(at[c].h = at[d].h /\ at[c].op = at[d].op)
        BY <1>1, <4>3 DEF F!OnHandle
      <4>5. handle'[at[d].h] = IF at[d].h = at[c].h THEN r ELSE handle[at[d].h]
        BY <1>4, <3>1
      <4> QED BY <1>1, <1>3, <3>1, <4>1, <4>2, <4>4, <4>5
    <3> QED BY <3>2, <3>3
  <2> QED BY <2>2, <2>5, <2>6
<1> QED BY <1>9, <1>10, FuseFromParts

LEMMA TransferKeeps ==
  ASSUME F!FuseInv, NEW c \in Procs, F!Transfer(c)
  PROVE  F!FuseInv'
<1>1. /\ at[c].st = "sought" /\ F!Busy(c) /\ at[c].op \in {"read", "write"}
      /\ fs' = fs /\ tracker' = tracker /\ fd' = fd /\ moved' = moved /\ at' = [at EXCEPT ![c] = F!Idle]
  BY CallRecord DEF F!Transfer, F!Busy
<1>2. PICK r : /\ handle' = [handle EXCEPT ![at[c].h] = r]
               /\ \/ /\ at[c].op = "read"
                     /\ r = [handle[at[c].h] EXCEPT !.get = IF handle[at[c].h].get < handle[at[c].h].size
                                                            THEN handle[at[c].h].get + 1 ELSE handle[at[c].h].get]
                  \/ at[c].op = "write" /\ r = F!Written(handle[at[c].h])
  <2>1. CASE at[c].op = "read"
    BY <2>1 DEF F!Transfer
  <2>2. CASE at[c].op = "write"
    BY <2>2 DEF F!Transfer
  <2> QED BY <1>1, <2>1, <2>2
<1>3. at[c].h \in DOMAIN handle =>
        /\ r \in F!HandleRecord /\ r.file = handle[at[c].h].file /\ r.live = handle[at[c].h].live
        /\ at[c].op = "read" => r.put = handle[at[c].h].put
        /\ at[c].op = "write" => r.get = handle[at[c].h].get
  <2> HAVE at[c].h \in DOMAIN handle
  <2>1. PICK q \in F!HandleRecord : q = handle[at[c].h]
    BY FuseKnown
  <2>2. /\ q.put + 1 \in Nat /\ (IF q.size > q.put THEN q.size ELSE q.put + 1) \in Nat
        /\ (IF q.get < q.size THEN q.get + 1 ELSE q.get) \in Nat
    BY DEF F!HandleRecord
  <2>4. CASE at[c].op = "read" /\ r = [q EXCEPT !.get = IF q.get < q.size THEN q.get + 1 ELSE q.get]
    BY <2>1, <2>2, <2>4 DEF F!HandleRecord
  <2>5. CASE at[c].op = "write" /\ r = [q EXCEPT !.put = q.put + 1, !.size = IF q.size > q.put THEN q.size ELSE q.put + 1]
    BY <2>1, <2>2, <2>5 DEF F!HandleRecord
  <2> QED BY <1>2, <2>1, <2>4, <2>5 DEF F!Written
<1>4. /\ handle' \in Seq(F!HandleRecord) /\ DOMAIN handle' = DOMAIN handle
      /\ \A h \in DOMAIN handle : handle'[h] = IF h = at[c].h THEN r ELSE handle[h]
  <2>1. handle \in Seq(F!HandleRecord)
    BY FuseKnown
  <2>2. handle' = [handle EXCEPT ![at[c].h] = r] /\ (at[c].h \in DOMAIN handle => r \in F!HandleRecord)
    BY <1>2, <1>3
  <2> QED BY <2>1, <2>2, HandleAt
<1>5. at' \in [Procs -> F!AtRecord] /\ at'[c] = F!Idle /\ F!Idle.st = "idle" /\ \A d \in Procs : d # c => at'[d] = at[d]
  BY <1>1, FuseKnown DEF F!AtRecord, F!Idle
<1>6. F!TypeOK'
  BY <1>1, <1>4, <1>5, FuseKnown DEF F!TypeOK
<1>7. ASSUME ~moved' PROVE F!TrackersTrue' /\ F!CallsTrue' /\ F!AtItsOffset'
  <2>1. F!TrackersTrue /\ F!CallsTrue /\ F!AtItsOffset /\ ~moved
    BY <1>1, <1>7, FuseKnown
  <2>2. F!TrackersTrue'
    BY <1>1, <1>3, <1>4, <2>1, TrackersFrame
  <2>3. \A k, op : F!OnHandle(k, op)' = F!OnHandle(k, op) \ {c}
    BY <1>5 DEF F!OnHandle
  <2>4. ASSUME NEW d \in Procs, F!Busy(d)'
        PROVE  d # c /\ F!Busy(d) /\ at'[d] = at[d]
    BY <1>5, <2>4 DEF F!Busy
  <2>5. F!CallsTrue'
    <3>1. ASSUME NEW d \in Procs, F!Busy(d)', at'[d].alone PROVE F!OnHandle(at[d].h, at[d].op)' = {d}
      <4>1. F!OnHandle(at[d].h, at[d].op) = {d} /\ at'[d] = at[d] /\ d # c
        BY <2>1, <2>4, <3>1 DEF F!CallsTrue
      <4> QED BY <2>3, <4>1
    <3>2. ASSUME NEW d \in Procs, at'[d].st = "made" PROVE at[d].st = "made"
      BY <1>5, <3>2
    <3> QED BY <1>1, <2>1, <2>4, <3>1, <3>2 DEF F!CallsTrue
  <2>6. F!AtItsOffset'
    <3> SUFFICES ASSUME NEW d \in Procs, at'[d].st = "sought", at'[d].alone, ~at'[d].past
                 PROVE  at'[d].off = IF at'[d].op = "read" THEN handle'[at'[d].h].get ELSE handle'[at'[d].h].put
      BY DEF F!AtItsOffset
    <3>1. F!Busy(d) /\ d # c /\ at'[d] = at[d] /\ at[d].op \in {"read", "write"}
      BY <2>4, CallRecord DEF F!Busy
    <3>2. at[d].h \in DOMAIN handle /\ at[c].h \in DOMAIN handle /\ F!OnHandle(at[d].h, at[d].op) = {d}
      <4>1. /\ fd[d].open /\ at[d].h = tracker[fd[d].path].handle /\ fd[d].path \in DOMAIN tracker
            /\ fd[c].open /\ at[c].h = tracker[fd[c].path].handle /\ fd[c].path \in DOMAIN tracker
        BY <1>1, <2>1, <3>1 DEF F!CallsTrue, F!TrackersTrue
      <4> QED BY <2>1, <3>1, <4>1, FuseKnown DEF F!CallsTrue
    <3>3. at[d].off = IF at[d].op = "read" THEN handle[at[d].h].get ELSE handle[at[d].h].put
      BY <2>1, <3>1 DEF F!AtItsOffset
    <3>4. ~(at[c].h = at[d].h /\ at[c].op = at[d].op)
      <4>1. c \notin F!OnHandle(at[d].h, at[d].op)
        BY <3>1, <3>2
      <4> QED BY <1>1, <4>1 DEF F!OnHandle
    <3>5. handle'[at[d].h] = IF at[d].h = at[c].h THEN r ELSE handle[at[d].h]
      BY <1>4, <3>2
    <3> QED BY <1>1, <1>3, <3>1, <3>2, <3>3, <3>4, <3>5
  <2> QED BY <2>2, <2>5, <2>6
<1> QED BY <1>6, <1>7, FuseFromParts

LEMMA LookUpKeeps ==
  ASSUME FuseAssumption, F!FuseInv, NEW c \in Procs, NEW op \in {"read", "write"}, NEW off \in 0 .. MaxOffset, F!LookUp(c, op, off)
  PROVE  F!FuseInv'
<1>1. /\ at[c] = F!Idle /\ F!Idle.st = "idle" /\ fd[c].open /\ fd[c].path \in DOMAIN tracker
      /\ fs' = fs /\ tracker' = tracker /\ handle' = handle /\ fd' = fd /\ moved' = moved
  BY DEF F!LookUp, F!Idle
<1>2. PICK t : t = tracker[fd[c].path].handle
  OBVIOUS
<1>3. t \in DOMAIN handle /\ t \in Nat /\ off \in Nat
  BY <1>1, <1>2, FuseKnown DEF FuseAssumption
<1>4. PICK a : a = [st |-> "got", h |-> t, op |-> op, off |-> off, alone |-> F!OnHandle(t, op) = {}, past |-> FALSE]
  OBVIOUS
<1>5. at' = [d \in Procs |-> IF d = c THEN a ELSE IF d \in F!OnHandle(t, op) THEN [at[d] EXCEPT !.alone = FALSE] ELSE at[d]]
  BY <1>2, <1>4 DEF F!LookUp
<1>6. /\ a \in [st : {"got", "sought"}, h : Nat, op : {"read", "write"}, off : Nat, alone : BOOLEAN, past : BOOLEAN]
      /\ a.st = "got" /\ a.h = t /\ a.op = op /\ (a.alone => F!OnHandle(t, op) = {})
  BY <1>3, <1>4
<1>7. c \notin F!OnHandle(t, op)
  BY <1>1 DEF F!OnHandle
<1>8. ASSUME NEW d \in F!OnHandle(t, op)
      PROVE  /\ at'[d] \in [st : {"got", "sought"}, h : Nat, op : {"read", "write"}, off : Nat, alone : BOOLEAN, past : BOOLEAN]
             /\ at'[d].st = at[d].st /\ at'[d].h = at[d].h /\ at'[d].op = at[d].op /\ at'[d].off = at[d].off /\ ~at'[d].alone
             /\ F!Busy(d) /\ d # c
  <2>1. d \in Procs /\ F!Busy(d) /\ d # c /\ at'[d] = [at[d] EXCEPT !.alone = FALSE]
    BY <1>5, <1>7 DEF F!OnHandle, F!Busy
  <2>2. at[d] \in [st : {"got", "sought"}, h : Nat, op : {"read", "write"}, off : Nat, alone : BOOLEAN, past : BOOLEAN]
    BY <2>1, CallRecord
  <2> QED BY <2>1, <2>2
<1>9. at' \in [Procs -> F!AtRecord] /\ at'[c] = a
      /\ \A d \in Procs : d # c /\ d \notin F!OnHandle(t, op) => at'[d] = at[d]
  <2>1. \A d \in Procs : at'[d] \in F!AtRecord
    <3>1. ASSUME NEW d \in Procs PROVE at'[d] \in F!AtRecord
      <4>1. at[d] \in F!AtRecord
        BY FuseKnown
      <4>2. CASE d = c
        BY <1>5, <1>6, <4>2 DEF F!AtRecord
      <4>3. CASE d # c /\ d \in F!OnHandle(t, op)
        BY <1>8, <4>3 DEF F!AtRecord
      <4>4. CASE d # c /\ d \notin F!OnHandle(t, op)
        BY <1>5, <4>1, <4>4
      <4> QED BY <4>2, <4>3, <4>4
    <3> QED BY <3>1
  <2>2. at' = [d \in Procs |-> at'[d]]
    BY <1>5
  <2> QED BY <1>5, <2>1, <2>2
<1>10. F!TypeOK'
  BY <1>1, <1>9, FuseKnown DEF F!TypeOK
<1>11. ASSUME ~moved' PROVE F!TrackersTrue' /\ F!CallsTrue' /\ F!AtItsOffset'
  <2>1. F!TrackersTrue /\ F!CallsTrue /\ F!AtItsOffset /\ ~moved
    BY <1>1, <1>11, FuseKnown
  <2>2. F!TrackersTrue'
    BY <1>1, <2>1, TrackersFrame
  <2>3. ASSUME NEW d \in Procs, d # c
        PROVE  /\ at'[d].st = at[d].st
               /\ F!Busy(d)' => F!Busy(d) /\ at'[d].h = at[d].h /\ at'[d].op = at[d].op
               /\ F!Busy(d)' /\ at'[d].alone => at'[d] = at[d] /\ d \notin F!OnHandle(t, op)
    BY <1>8, <1>9, <2>3 DEF F!Busy
  <2>4. \A k, o : F!OnHandle(k, o)' = F!OnHandle(k, o) \cup (IF k = t /\ o = op THEN {c} ELSE {})
    <3> SUFFICES ASSUME NEW k, NEW o, NEW d \in Procs
                 PROVE  d \in F!OnHandle(k, o)' <=> d \in F!OnHandle(k, o) \/ (k = t /\ o = op /\ d = c)
      BY DEF F!OnHandle
    <3>1. CASE d = c
      BY <1>1, <1>6, <1>9, <3>1 DEF F!OnHandle
    <3>2. CASE d # c
      <4>1. at'[d].st = at[d].st /\ (at[d].st \in {"got", "sought"} => at'[d].h = at[d].h /\ at'[d].op = at[d].op)
        BY <2>3, <3>2 DEF F!Busy
      <4> QED BY <3>2, <4>1 DEF F!OnHandle
    <3> QED BY <3>1, <3>2
  <2>5. F!CallsTrue'
    <3> SUFFICES ASSUME NEW d \in Procs
                 PROVE  /\ at'[d].st = "made" => ~fd'[d].open
                        /\ F!Busy(d)' => fd'[d].open /\ at'[d].h = tracker'[fd'[d].path].handle
                        /\ F!Busy(d)' /\ at'[d].alone => F!OnHandle(at[d].h, at[d].op)' = {d}
      BY DEF F!CallsTrue
    <3>1. CASE d = c
      BY <1>1, <1>2, <1>6, <1>9, <2>4, <3>1
    <3>2. CASE d # c
      <4>1. F!Busy(d)' /\ at'[d].alone => F!OnHandle(at[d].h, at[d].op)' = {d}
        <5> HAVE F!Busy(d)' /\ at'[d].alone
        <5>1. at'[d] = at[d] /\ F!Busy(d) /\ d \notin F!OnHandle(t, op) /\ F!OnHandle(at[d].h, at[d].op) = {d}
          BY <2>1, <2>3, <3>2 DEF F!CallsTrue
        <5>2. ~(at[d].h = t /\ at[d].op = op)
          BY <5>1
        <5> QED BY <2>4, <5>1, <5>2
      <4> QED BY <1>1, <2>1, <2>3, <3>2, <4>1 DEF F!CallsTrue
    <3> QED BY <3>1, <3>2
  <2>6. F!AtItsOffset'
    <3> SUFFICES ASSUME NEW d \in Procs, at'[d].st = "sought", at'[d].alone, ~at'[d].past
                 PROVE  at'[d].off = IF at'[d].op = "read" THEN handle'[at'[d].h].get ELSE handle'[at'[d].h].put
      BY DEF F!AtItsOffset
    <3>1. at'[d] = at[d]
      BY <1>6, <1>9, <2>3 DEF F!Busy
    <3> QED BY <1>1, <2>1, <3>1 DEF F!AtItsOffset
  <2> QED BY <2>2, <2>5, <2>6
<1> QED BY <1>10, <1>11, FuseFromParts

\* Who has a path open, counted.
LEMMA ReadersCounted ==
  ASSUME FuseAssumption, F!FuseInv, NEW p
  PROVE  IsFiniteSet(F!Readers(p)) /\ Cardinality(F!Readers(p)) \in Nat /\ F!Cardinality(F!Readers(p)) = Cardinality(F!Readers(p))
<1>1. IsFiniteSet(F!Readers(p))
  <2>1. F!Readers(p) \in SUBSET Procs
    BY DEF F!Readers
  <2> QED BY <2>1, FS_Subset DEF FuseAssumption
<1> QED BY <1>1, FS_CardinalityType, SameCardinality

LEMMA CreateKeeps ==
  ASSUME FuseAssumption, F!FuseInv, NEW c \in Procs, NEW p \in FusePaths, F!Create(c, p)
  PROVE  F!FuseInv'
<1>1. PICK n : n = F!NewFile /\ n \in Nat \ {0}
  BY NewFileIsNew, FuseKnown
<1>2. PICK a : a = [st |-> "made", path |-> p]
  OBVIOUS
<1>3. /\ at[c].st = "idle" /\ ~fd[c].open /\ fs[p] = 0 /\ fs' = [fs EXCEPT ![p] = n] /\ at' = [at EXCEPT ![c] = a]
      /\ tracker' = tracker /\ handle' = handle /\ fd' = fd /\ moved' = moved
  BY <1>1, <1>2 DEF F!Create, F!Nothing, F!Idle
<1>4. a \in [st : {"made"}, path : FusePaths] /\ a.st = "made"
  BY <1>2
<1>5. at' \in [Procs -> F!AtRecord] /\ at'[c] = a /\ \A d \in Procs : d # c => at'[d] = at[d]
  BY <1>3, <1>4, FuseKnown DEF F!AtRecord
<1>6. F!TypeOK'
  <2>1. fs' \in [FusePaths -> Nat]
    BY <1>1, <1>3, FuseKnown
  <2> QED BY <1>3, <1>5, <2>1, FuseKnown DEF F!TypeOK
<1>7. ASSUME ~moved' PROVE F!TrackersTrue' /\ F!CallsTrue' /\ F!AtItsOffset'
  <2>1. F!TrackersTrue /\ F!CallsTrue /\ F!AtItsOffset /\ ~moved
    BY <1>3, <1>7, FuseKnown
  <2>2. F!TrackersTrue'
    <3>1. \A q : F!Readers(q)' = F!Readers(q)
      BY <1>3 DEF F!Readers
    <3>2. p \notin DOMAIN tracker
      BY <1>3, <2>1 DEF F!TrackersTrue, F!Nothing
    <3>3. \A q \in DOMAIN tracker : q # p /\ fs'[q] = fs[q]
      BY <1>3, <3>2, FuseKnown
    <3> HIDE DEF F!Readers
    <3>4. ASSUME NEW q \in DOMAIN tracker
          PROVE  /\ tracker'[q].count = F!Cardinality(F!Readers(q)') /\ F!Readers(q)' # {}
                 /\ fs'[q] # F!Nothing /\ handle'[tracker'[q].handle].live /\ handle'[tracker'[q].handle].file = fs'[q]
      BY <1>3, <2>1, <3>1, <3>3 DEF F!TrackersTrue
    <3> QED BY <1>3, <2>1, <3>4 DEF F!TrackersTrue
  <2>3. ASSUME NEW d \in Procs
        PROVE  /\ F!Busy(d)' <=> F!Busy(d)
               /\ F!Busy(d) => at'[d] = at[d]
               /\ at'[d].st = "made" => ~fd'[d].open
    <3>1. CASE d = c
      BY <1>3, <1>4, <1>5, <3>1 DEF F!Busy
    <3>2. CASE d # c
      BY <1>3, <1>5, <2>1, <3>2 DEF F!Busy, F!CallsTrue
    <3> QED BY <3>1, <3>2
  <2>4. F!CallsTrue' /\ F!AtItsOffset'
    BY <1>3, <2>1, <2>3, CallsFrame
  <2> QED BY <2>2, <2>4
<1> QED BY <1>6, <1>7, FuseFromParts

LEMMA RenameKeeps ==
  ASSUME FuseAssumption, F!FuseInv, NEW p \in FusePaths, NEW q \in FusePaths, F!Rename(p, q)
  PROVE  F!FuseInv'
<1>1. /\ fs[p] # 0 /\ fs[q] = 0 /\ fs' = [fs EXCEPT ![q] = fs[p], ![p] = 0]
      /\ fd' = [c \in Procs |-> IF fd[c].open /\ fd[c].path = p THEN [fd[c] EXCEPT !.path = q] ELSE fd[c]]
      /\ tracker' = tracker /\ handle' = handle /\ at' = at /\ ~moved /\ moved' \in BOOLEAN
      /\ ~moved' => p \notin DOMAIN tracker
  BY DEF F!Rename, F!Nothing
<1>2. F!TypeOK'
  <2>1. fs' \in [FusePaths -> Nat]
    BY <1>1, FuseKnown
  <2>2. ASSUME NEW c \in Procs PROVE fd'[c] \in {F!Closed} \cup [open : {TRUE}, path : FusePaths]
    <3>1. fd[c] \in {F!Closed} \cup [open : {TRUE}, path : FusePaths]
      BY FuseKnown
    <3>2. CASE fd[c].open /\ fd[c].path = p
      <4>1. fd[c] \in [open : {TRUE}, path : FusePaths]
        BY <3>2, CallRecord
      <4> QED BY <1>1, <3>2, <4>1
    <3>3. CASE ~(fd[c].open /\ fd[c].path = p)
      BY <1>1, <3>1, <3>3
    <3> QED BY <3>2, <3>3
  <2>3. fd' \in [Procs -> {F!Closed} \cup [open : {TRUE}, path : FusePaths]]
    <3>1. fd' = [c \in Procs |-> fd'[c]]
      BY <1>1
    <3> QED BY <2>2, <3>1
  <2> QED BY <1>1, <2>1, <2>3, FuseKnown DEF F!TypeOK
<1>3. ASSUME ~moved' PROVE F!TrackersTrue' /\ F!CallsTrue' /\ F!AtItsOffset'
  <2>1. F!TrackersTrue /\ F!CallsTrue /\ F!AtItsOffset /\ p \notin DOMAIN tracker
    BY <1>1, <1>3, FuseKnown
  <2>2. q \notin DOMAIN tracker
    BY <1>1, <2>1 DEF F!TrackersTrue, F!Nothing
  <2>3. \A c \in Procs : fd'[c] = fd[c]
    BY <1>1, <2>1 DEF F!TrackersTrue
  <2>4. \A r \in DOMAIN tracker : fs'[r] = fs[r]
    BY <1>1, <2>1, <2>2, FuseKnown
  <2>5. F!TrackersTrue'
    <3>1. \A r : F!Readers(r)' = F!Readers(r)
      BY <2>3 DEF F!Readers
    <3>2. ASSUME NEW r \in DOMAIN tracker
          PROVE  /\ tracker'[r].count = F!Cardinality(F!Readers(r)') /\ F!Readers(r)' # {}
                 /\ fs'[r] # F!Nothing /\ handle'[tracker'[r].handle].live /\ handle'[tracker'[r].handle].file = fs'[r]
      BY <1>1, <2>1, <2>4, <3>1 DEF F!TrackersTrue
    <3> QED BY <1>1, <2>1, <2>3, <3>2 DEF F!TrackersTrue
  <2>6. F!CallsTrue' /\ F!AtItsOffset'
    <3>1. ASSUME NEW d \in Procs
          PROVE  (F!Busy(d)' <=> F!Busy(d)) /\ (at'[d].st = "made" => ~fd'[d].open)
      BY <1>1, <2>1, <2>3 DEF F!Busy, F!CallsTrue
    <3> QED BY <1>1, <2>1, <2>3, <3>1, CallsFrame
  <2> QED BY <2>5, <2>6
<1> QED BY <1>2, <1>3, FuseFromParts

LEMMA OpensKeeps ==
  ASSUME FuseAssumption, F!FuseInv, NEW c \in Procs, NEW p \in FusePaths, F!Opens(c, p), ~fd[c].open \/ moved, at[c].st \in {"idle", "made"}
  PROVE  F!FuseInv'
<1>1. PICK n : n = F!NewFile /\ n \in Nat \ {0}
  BY NewFileIsNew, FuseKnown
<1>2. /\ fd' = [fd EXCEPT ![c] = [open |-> TRUE, path |-> p]] /\ at' = [at EXCEPT ![c] = F!Idle] /\ moved' = moved
      /\ F!Idle.st = "idle"
  BY DEF F!Opens, F!Idle
<1>3. /\ fd' \in [Procs -> {F!Closed} \cup [open : {TRUE}, path : FusePaths]] /\ at' \in [Procs -> F!AtRecord]
      /\ fd'[c].open /\ fd'[c].path = p /\ at'[c] = F!Idle
      /\ \A d \in Procs : d # c => fd'[d] = fd[d] /\ at'[d] = at[d]
  BY <1>2, FuseKnown DEF F!AtRecord
<1>4. \A d \in Procs : (F!Busy(d)' <=> F!Busy(d)) /\ (F!Busy(d) => d # c)
  BY <1>2, <1>3 DEF F!Busy
<1>5. ~moved => \A q : F!Readers(q)' = F!Readers(q) \cup (IF q = p THEN {c} ELSE {})
  BY <1>3 DEF F!Readers
<1>6. ~moved => c \notin F!Readers(p)
  BY DEF F!Readers
<1>7. \A d \in Procs : F!CallsTrue /\ at'[d].st = "made" => ~fd'[d].open
  BY <1>2, <1>3 DEF F!CallsTrue
<1>8. CASE p \in DOMAIN tracker /\ tracker' = [tracker EXCEPT ![p].count = @ + 1] /\ fs' = fs /\ handle' = handle
  <2>1. tracker[p] \in [count : Nat, handle : DOMAIN handle]
    BY <1>8, FuseKnown
  <2>2. PICK t : /\ t = [tracker[p] EXCEPT !.count = tracker[p].count + 1] /\ t \in [count : Nat, handle : DOMAIN handle]
                 /\ t.handle = tracker[p].handle /\ t.count = tracker[p].count + 1
    <3>1. PICK u \in [count : Nat, handle : DOMAIN handle] : u = tracker[p]
      BY <2>1
    <3>2. PICK t : t = [u EXCEPT !.count = u.count + 1]
      OBVIOUS
    <3>3. t \in [count : Nat, handle : DOMAIN handle] /\ t.handle = u.handle /\ t.count = u.count + 1
      BY <3>2
    <3> QED BY <3>1, <3>2, <3>3
  <2>3. /\ DOMAIN tracker' = DOMAIN tracker /\ tracker'[p] = t /\ \A q \in DOMAIN tracker : q # p => tracker'[q] = tracker[q]
        /\ tracker' \in [DOMAIN tracker -> [count : Nat, handle : DOMAIN handle]]
    BY <1>8, <2>2, FuseKnown
  <2>4. F!TypeOK'
    BY <1>2, <1>3, <1>8, <2>3, FuseKnown DEF F!TypeOK
  <2>5. ASSUME ~moved' PROVE F!TrackersTrue' /\ F!CallsTrue' /\ F!AtItsOffset'
    <3>1. F!TrackersTrue /\ F!CallsTrue /\ F!AtItsOffset /\ ~moved
      BY <1>2, <2>5, FuseKnown
    <3>2. \A q \in DOMAIN tracker : tracker'[q].handle = tracker[q].handle
      BY <2>2, <2>3
    <3>3. ASSUME NEW q \in DOMAIN tracker
          PROVE  tracker'[q].count = F!Cardinality(F!Readers(q)') /\ F!Readers(q)' # {}
      <4>1. tracker[q].count = Cardinality(F!Readers(q)) /\ F!Readers(q) # {} /\ IsFiniteSet(F!Readers(q))
        BY <3>1, ReadersCounted DEF F!TrackersTrue
      <4>2. CASE q = p
        <5>1. F!Readers(q)' = F!Readers(q) \cup {c} /\ c \notin F!Readers(q)
          BY <1>5, <1>6, <3>1, <4>2
        <5>2. Cardinality(F!Readers(q) \cup {c}) = Cardinality(F!Readers(q)) + 1
          BY <4>1, <5>1, FS_AddElement
        <5>3. F!Cardinality(F!Readers(q) \cup {c}) = Cardinality(F!Readers(q) \cup {c})
          BY SameCardinality
        <5>4. tracker'[q].count = tracker[q].count + 1
          BY <2>2, <2>3, <4>2
        <5> HIDE DEF F!Readers
        <5> QED BY <4>1, <5>1, <5>2, <5>3, <5>4
      <4>3. CASE q # p
        <5>1. F!Readers(q)' = F!Readers(q)
          BY <1>5, <3>1, <4>3
        <5>2. F!Cardinality(F!Readers(q)) = Cardinality(F!Readers(q))
          BY SameCardinality
        <5> QED BY <2>3, <4>1, <4>3, <5>1, <5>2
      <4> QED BY <4>2, <4>3
    <3>4. F!TrackersTrue'
      <4>1. \A d \in Procs : fd'[d].open => fd'[d].path \in DOMAIN tracker
        BY <1>3, <1>8, <3>1 DEF F!TrackersTrue
      <4> QED BY <1>8, <2>3, <3>1, <3>2, <3>3, <4>1 DEF F!TrackersTrue
    <3>5. F!CallsTrue' /\ F!AtItsOffset'
      <4>1. ASSUME NEW d \in Procs, F!Busy(d)
            PROVE  at'[d] = at[d] /\ fd'[d] = fd[d] /\ tracker'[fd[d].path].handle = tracker[fd[d].path].handle
        BY <1>3, <1>4, <3>1, <3>2, <4>1 DEF F!CallsTrue, F!TrackersTrue
      <4> QED BY <1>4, <1>7, <1>8, <3>1, <4>1, CallsFrame
    <3> QED BY <3>4, <3>5
  <2> QED BY <2>4, <2>5, FuseFromParts
<1>9. CASE /\ p \notin DOMAIN tracker
           /\ fs' = [fs EXCEPT ![p] = IF fs[p] = 0 THEN n ELSE fs[p]]
           /\ \E size \in 0 .. MaxOffset :
                handle' = Append(handle, [file |-> fs'[p], size |-> size, get |-> 0, put |-> 0, live |-> TRUE])
           /\ tracker' = [q \in DOMAIN tracker \cup {p} |-> IF q = p THEN [count |-> 1, handle |-> F!Fresh] ELSE tracker[q]]
  <2>1. fs' \in [FusePaths -> Nat] /\ fs'[p] # 0 /\ fs'[p] \in Nat /\ \A q \in FusePaths : q # p => fs'[q] = fs[q]
    BY <1>1, <1>9, FuseKnown
  <2>2. PICK r \in F!HandleRecord : handle' = Append(handle, r) /\ r.live /\ r.file = fs'[p]
    <3>1. PICK z \in 0 .. MaxOffset : handle' = Append(handle, [file |-> fs'[p], size |-> z, get |-> 0, put |-> 0, live |-> TRUE])
      BY <1>9
    <3>2. PICK r : r = [file |-> fs'[p], size |-> z, get |-> 0, put |-> 0, live |-> TRUE]
      OBVIOUS
    <3>3. r \in F!HandleRecord /\ r.live /\ r.file = fs'[p]
      BY <2>1, <3>2 DEF F!HandleRecord, FuseAssumption
    <3> QED BY <3>1, <3>2, <3>3
  <2>3. PICK f : f = Len(handle) + 1 /\ f = F!Fresh
    BY DEF F!Fresh
  <2>4. /\ handle' \in Seq(F!HandleRecord) /\ DOMAIN handle = 1 .. Len(handle) /\ Len(handle) \in Nat
        /\ DOMAIN handle' = DOMAIN handle \cup {f} /\ f \notin DOMAIN handle
        /\ handle'[f] = r /\ \A h \in DOMAIN handle : handle'[h] = handle[h]
    <3>1. handle \in Seq(F!HandleRecord) /\ Len(handle) \in Nat /\ DOMAIN handle = 1 .. Len(handle)
      BY FuseKnown
    <3>2. /\ handle' \in Seq(F!HandleRecord) /\ Len(handle') = Len(handle) + 1
          /\ \A i \in 1 .. Len(handle) : handle'[i] = handle[i]
          /\ handle'[Len(handle) + 1] = r
      BY <2>2, <3>1, AppendProperties
    <3>3. DOMAIN handle' = 1 .. Len(handle')
      BY <3>2, LenProperties
    <3> QED BY <2>3, <3>1, <3>2, <3>3
  <2>5. /\ DOMAIN tracker' = DOMAIN tracker \cup {p} /\ tracker'[p].count = 1 /\ tracker'[p].handle = f
        /\ \A q \in DOMAIN tracker : tracker'[q] = tracker[q] /\ q # p /\ q \in FusePaths /\ tracker[q].handle \in DOMAIN handle
        /\ tracker' \in [DOMAIN tracker \cup {p} -> [count : Nat, handle : DOMAIN handle']]
    <3>1. tracker \in [DOMAIN tracker -> [count : Nat, handle : DOMAIN handle]] /\ DOMAIN tracker \subseteq FusePaths
      BY FuseKnown
    <3>2. [count |-> 1, handle |-> f] \in [count : Nat, handle : DOMAIN handle']
      BY <2>4
    <3>3. \A q \in DOMAIN tracker : tracker[q] \in [count : Nat, handle : DOMAIN handle']
      BY <2>4, <3>1
    <3> QED BY <1>9, <2>3, <3>1, <3>2, <3>3
  <2>6. F!TypeOK'
    BY <1>2, <1>3, <2>1, <2>4, <2>5, FuseKnown DEF F!TypeOK
  <2>7. ASSUME ~moved' PROVE F!TrackersTrue' /\ F!CallsTrue' /\ F!AtItsOffset'
    <3>1. F!TrackersTrue /\ F!CallsTrue /\ F!AtItsOffset /\ ~moved
      BY <1>2, <2>7, FuseKnown
    <3>2. F!Readers(p)' = {c}
      <4>1. F!Readers(p) = {}
        BY <1>9, <3>1 DEF F!Readers, F!TrackersTrue
      <4> QED BY <1>5, <3>1, <4>1
    <3>3. F!Cardinality({c}) = 1
      BY FS_Singleton, SameCardinality
    <3>4. ASSUME NEW q \in DOMAIN tracker
          PROVE  tracker'[q].count = F!Cardinality(F!Readers(q)') /\ F!Readers(q)' # {}
      <4>1. F!Readers(q)' = F!Readers(q)
        <5>1. q # p
          BY <2>5
        <5> QED BY <1>5, <3>1, <5>1
      <4>2. tracker[q].count = F!Cardinality(F!Readers(q)) /\ F!Readers(q) # {}
        BY <3>1 DEF F!TrackersTrue
      <4> HIDE DEF F!Readers
      <4> QED BY <2>5, <4>1, <4>2
    <3>5. ASSUME NEW q \in DOMAIN tracker'
          PROVE  /\ tracker'[q].count = F!Cardinality(F!Readers(q)') /\ F!Readers(q)' # {}
                 /\ fs'[q] # F!Nothing /\ handle'[tracker'[q].handle].live /\ handle'[tracker'[q].handle].file = fs'[q]
      <4>1. CASE q = p
        BY <2>1, <2>2, <2>4, <2>5, <3>2, <3>3, <4>1 DEF F!Nothing
      <4>2. CASE q # p
        <5>1. q \in DOMAIN tracker /\ tracker'[q].handle = tracker[q].handle /\ tracker[q].handle \in DOMAIN handle /\ fs'[q] = fs[q]
          BY <2>1, <2>5, <4>2
        <5>2. handle'[tracker'[q].handle] = handle[tracker[q].handle]
          BY <2>4, <5>1
        <5>3. fs[q] # F!Nothing /\ handle[tracker[q].handle].live /\ handle[tracker[q].handle].file = fs[q]
          BY <3>1, <5>1 DEF F!TrackersTrue
        <5> QED BY <3>4, <5>1, <5>2, <5>3
      <4> QED BY <4>1, <4>2
    <3>6. \A q, x \in DOMAIN tracker' : tracker'[q].handle = tracker'[x].handle => q = x
      BY <2>4, <2>5, <3>1 DEF F!TrackersTrue
    <3>7. ASSUME NEW h \in DOMAIN handle', handle'[h].live PROVE \E q \in DOMAIN tracker' : tracker'[q].handle = h
      BY <2>4, <2>5, <3>1, <3>7 DEF F!TrackersTrue
    <3>8. \A d \in Procs : fd'[d].open => fd'[d].path \in DOMAIN tracker'
      BY <1>3, <2>5, <3>1 DEF F!TrackersTrue
    <3>9. F!TrackersTrue'
      BY <3>5, <3>6, <3>7, <3>8 DEF F!TrackersTrue
    <3>10. F!CallsTrue' /\ F!AtItsOffset'
      <4>1. ASSUME NEW d \in Procs, F!Busy(d)
            PROVE  /\ at'[d] = at[d] /\ fd'[d] = fd[d] /\ tracker'[fd[d].path].handle = tracker[fd[d].path].handle
                   /\ handle'[at[d].h] = handle[at[d].h]
        <5>1. fd[d].path \in DOMAIN tracker /\ at[d].h = tracker[fd[d].path].handle
          BY <3>1, <4>1 DEF F!CallsTrue, F!TrackersTrue
        <5> QED BY <1>3, <1>4, <2>4, <2>5, <4>1, <5>1
      <4> QED BY <1>4, <1>7, <3>1, <4>1, CallsFrame
    <3> QED BY <3>9, <3>10
  <2> QED BY <2>6, <2>7, FuseFromParts
<1> QED BY <1>1, <1>8, <1>9 DEF F!Opens, F!Nothing

LEMMA ReleaseKeeps ==
  ASSUME FuseAssumption, F!FuseInv, NEW c \in Procs, F!Release(c)
  PROVE  F!FuseInv'
<1>1. PICK p : p = fd[c].path
  OBVIOUS
<1>2. /\ at[c].st = "idle" /\ fd[c].open /\ fd' = [fd EXCEPT ![c] = F!Closed] /\ ~F!Closed.open
      /\ fs' = fs /\ at' = at /\ moved' = moved
  BY DEF F!Release, F!Idle, F!Closed
<1>3. /\ p \in FusePaths /\ fd' \in [Procs -> {F!Closed} \cup [open : {TRUE}, path : FusePaths]]
      /\ ~fd'[c].open /\ \A d \in Procs : d # c => fd'[d] = fd[d]
  BY <1>1, <1>2, FuseKnown, CallRecord
<1>4. /\ \A q : F!Readers(q)' = IF q = p THEN F!Readers(q) \ {c} ELSE F!Readers(q)
      /\ c \in F!Readers(p)
  BY <1>1, <1>2, <1>3 DEF F!Readers
<1>5. \A d \in Procs : (F!Busy(d)' <=> F!Busy(d)) /\ (F!Busy(d) => d # c)
  BY <1>2 DEF F!Busy
<1>6. \A d \in Procs : F!CallsTrue /\ at'[d].st = "made" => ~fd'[d].open
  BY <1>2, <1>3 DEF F!CallsTrue
<1>7. CASE p \notin DOMAIN tracker /\ tracker' = tracker /\ handle' = handle
  <2>1. F!TypeOK'
    BY <1>2, <1>3, <1>7, FuseKnown DEF F!TypeOK
  <2>2. moved'
    BY <1>1, <1>2, <1>7, FuseKnown DEF F!TrackersTrue
  <2> QED BY <2>1, <2>2, FuseFromParts
<1>8. CASE p \in DOMAIN tracker /\ tracker[p].count > 1 /\ tracker' = [tracker EXCEPT ![p].count = @ - 1] /\ handle' = handle
  <2>1. PICK u \in [count : Nat, handle : DOMAIN handle] : u = tracker[p]
    BY <1>8, FuseKnown
  <2>2. PICK t : t = [u EXCEPT !.count = u.count - 1]
    OBVIOUS
  <2>3. t \in [count : Nat, handle : DOMAIN handle] /\ t.handle = u.handle /\ t.count = u.count - 1 /\ u.count > 1
    BY <1>8, <2>1, <2>2
  <2>4. /\ DOMAIN tracker' = DOMAIN tracker /\ tracker'[p] = t /\ \A q \in DOMAIN tracker : q # p => tracker'[q] = tracker[q]
        /\ tracker' \in [DOMAIN tracker -> [count : Nat, handle : DOMAIN handle]]
    BY <1>8, <2>1, <2>2, <2>3, FuseKnown
  <2>5. F!TypeOK'
    BY <1>2, <1>3, <1>8, <2>4, FuseKnown DEF F!TypeOK
  <2>6. ASSUME ~moved' PROVE F!TrackersTrue' /\ F!CallsTrue' /\ F!AtItsOffset'
    <3>1. F!TrackersTrue /\ F!CallsTrue /\ F!AtItsOffset /\ ~moved
      BY <1>2, <2>6, FuseKnown
    <3>2. \A q \in DOMAIN tracker : tracker'[q].handle = tracker[q].handle
      BY <2>1, <2>3, <2>4
    <3>3. ASSUME NEW q \in DOMAIN tracker
          PROVE  tracker'[q].count = F!Cardinality(F!Readers(q)') /\ F!Readers(q)' # {}
      <4>1. tracker[q].count = Cardinality(F!Readers(q)) /\ F!Readers(q) # {} /\ IsFiniteSet(F!Readers(q))
        BY <3>1, ReadersCounted DEF F!TrackersTrue
      <4>2. CASE q = p
        <5>1. F!Readers(q)' = F!Readers(q) \ {c} /\ c \in F!Readers(q)
          BY <1>4, <4>2
        <5>2. Cardinality(F!Readers(q) \ {c}) = Cardinality(F!Readers(q)) - 1
          BY <4>1, <5>1, FS_RemoveElement
        <5>3. F!Cardinality(F!Readers(q) \ {c}) = Cardinality(F!Readers(q) \ {c})
          BY SameCardinality
        <5>4. tracker'[q].count = tracker[q].count - 1 /\ tracker[q].count > 1 /\ tracker[q].count \in Nat
          BY <2>1, <2>3, <2>4, <4>2
        <5>5. Cardinality(F!Readers(q) \ {c}) # 0
          BY <4>1, <5>2, <5>4
        <5>6. F!Readers(q) \ {c} # {}
          BY <5>5, FS_EmptySet
        <5> HIDE DEF F!Readers
        <5> QED BY <4>1, <5>1, <5>2, <5>3, <5>4, <5>6
      <4>3. CASE q # p
        <5>1. F!Readers(q)' = F!Readers(q)
          BY <1>4, <4>3
        <5>2. F!Cardinality(F!Readers(q)) = Cardinality(F!Readers(q))
          BY SameCardinality
        <5> QED BY <2>4, <4>1, <4>3, <5>1, <5>2
      <4> QED BY <4>2, <4>3
    <3>4. F!TrackersTrue'
      <4>1. \A d \in Procs : fd'[d].open => fd'[d].path \in DOMAIN tracker
        BY <1>3, <3>1 DEF F!TrackersTrue
      <4> QED BY <1>2, <1>8, <2>4, <3>1, <3>2, <3>3, <4>1 DEF F!TrackersTrue
    <3>5. F!CallsTrue' /\ F!AtItsOffset'
      <4>1. ASSUME NEW d \in Procs, F!Busy(d)
            PROVE  at'[d] = at[d] /\ fd'[d] = fd[d] /\ tracker'[fd[d].path].handle = tracker[fd[d].path].handle
        BY <1>2, <1>3, <1>5, <3>1, <3>2, <4>1 DEF F!CallsTrue, F!TrackersTrue
      <4> QED BY <1>5, <1>6, <1>8, <3>1, <4>1, CallsFrame
    <3> QED BY <3>4, <3>5
  <2> QED BY <2>5, <2>6, FuseFromParts
<1>9. CASE /\ p \in DOMAIN tracker /\ tracker[p].count = 1
           /\ handle' = [handle EXCEPT ![tracker[p].handle] = [file |-> handle[tracker[p].handle].file, size |-> 0, get |-> 0, put |-> 0, live |-> FALSE]]
           /\ tracker' = F!Restrict(tracker, DOMAIN tracker \ {p})
  <2>1. PICK h : h = tracker[p].handle /\ h \in DOMAIN handle
    BY <1>9, FuseKnown
  <2>2. PICK r : r = [file |-> handle[h].file, size |-> 0, get |-> 0, put |-> 0, live |-> FALSE]
    OBVIOUS
  <2>3. r \in F!HandleRecord /\ ~r.live
    BY <2>1, <2>2, FuseKnown DEF F!HandleRecord
  <2>4. /\ handle' \in Seq(F!HandleRecord) /\ DOMAIN handle' = DOMAIN handle
        /\ \A k \in DOMAIN handle : handle'[k] = IF k = h THEN r ELSE handle[k]
    <3>1. handle \in Seq(F!HandleRecord) /\ handle' = [handle EXCEPT ![h] = r]
      BY <1>9, <2>1, <2>2, FuseKnown
    <3> QED BY <2>3, <3>1, HandleAt
  <2>5. /\ DOMAIN tracker' = DOMAIN tracker \ {p} /\ \A q \in DOMAIN tracker \ {p} : tracker'[q] = tracker[q]
        /\ tracker' \in [DOMAIN tracker \ {p} -> [count : Nat, handle : DOMAIN handle]] /\ DOMAIN tracker \subseteq FusePaths
    BY <1>9, FuseKnown DEF F!Restrict
  <2>6. F!TypeOK'
    BY <1>2, <1>3, <2>4, <2>5, FuseKnown DEF F!TypeOK
  <2>7. ASSUME ~moved' PROVE F!TrackersTrue' /\ F!CallsTrue' /\ F!AtItsOffset'
    <3>1. F!TrackersTrue /\ F!CallsTrue /\ F!AtItsOffset /\ ~moved
      BY <1>2, <2>7, FuseKnown
    <3>2. F!Readers(p) = {c}
      <4>1. Cardinality(F!Readers(p)) = 1 /\ IsFiniteSet(F!Readers(p))
        BY <1>9, <3>1, ReadersCounted DEF F!TrackersTrue
      <4>2. PICK x : F!Readers(p) = {x}
        BY <4>1, FS_Singleton
      <4> QED BY <1>4, <4>2
    <3>3. \A d \in Procs : d # c => ~(fd[d].open /\ fd[d].path = p)
      BY <3>2 DEF F!Readers
    <3>4. \A q \in DOMAIN tracker \ {p} : tracker[q].handle # h /\ tracker[q].handle \in DOMAIN handle
      BY <1>9, <2>1, <3>1, FuseKnown DEF F!TrackersTrue
    <3>5. ASSUME NEW q \in DOMAIN tracker \ {p}
          PROVE  /\ tracker'[q].count = F!Cardinality(F!Readers(q)') /\ F!Readers(q)' # {}
                 /\ fs'[q] # F!Nothing /\ handle'[tracker'[q].handle].live /\ handle'[tracker'[q].handle].file = fs'[q]
      <4>1. F!Readers(q)' = F!Readers(q)
        BY <1>4
      <4>2. handle'[tracker'[q].handle] = handle[tracker[q].handle] /\ tracker'[q] = tracker[q]
        BY <2>4, <2>5, <3>4
      <4> QED BY <1>2, <3>1, <4>1, <4>2 DEF F!TrackersTrue
    <3>6. ASSUME NEW k \in DOMAIN handle', handle'[k].live PROVE \E q \in DOMAIN tracker' : tracker'[q].handle = k
      <4>1. k # h /\ k \in DOMAIN handle /\ handle[k].live
        BY <2>3, <2>4, <3>6
      <4>2. PICK q \in DOMAIN tracker : tracker[q].handle = k
        BY <3>1, <4>1 DEF F!TrackersTrue
      <4> QED BY <2>1, <2>5, <4>1, <4>2
    <3>7. \A d \in Procs : fd'[d].open => fd'[d].path \in DOMAIN tracker'
      BY <1>3, <2>5, <3>1, <3>3 DEF F!TrackersTrue
    <3>8. F!TrackersTrue'
      BY <2>5, <3>1, <3>5, <3>6, <3>7 DEF F!TrackersTrue
    <3>9. F!CallsTrue' /\ F!AtItsOffset'
      <4>1. ASSUME NEW d \in Procs, F!Busy(d)
            PROVE  /\ at'[d] = at[d] /\ fd'[d] = fd[d] /\ tracker'[fd[d].path].handle = tracker[fd[d].path].handle
                   /\ handle'[at[d].h] = handle[at[d].h]
        <5>1. fd[d].open /\ fd[d].path \in DOMAIN tracker \ {p} /\ at[d].h = tracker[fd[d].path].handle
          BY <1>5, <3>1, <3>3, <4>1 DEF F!CallsTrue, F!TrackersTrue
        <5>2. at[d].h # h /\ at[d].h \in DOMAIN handle
          BY <3>4, <5>1
        <5>3. at'[d] = at[d] /\ fd'[d] = fd[d]
          BY <1>2, <1>3, <1>5, <4>1
        <5> QED BY <2>4, <2>5, <5>1, <5>2, <5>3
      <4> QED BY <1>5, <1>6, <3>1, <4>1, CallsFrame
    <3> QED BY <3>8, <3>9
  <2> QED BY <2>6, <2>7, FuseFromParts
<1> QED BY <1>1, <1>7, <1>8, <1>9 DEF F!Release

LEMMA FuseGoesOn ==
  ASSUME FuseAssumption, F!FuseInv, [F!Next]_(F!vars)
  PROVE  F!FuseInv'
<1>1. ASSUME NEW c \in Procs, F!OpenMade(c) PROVE F!FuseInv'
  <2>1. at[c].st = "made" /\ F!Opens(c, at[c].path)
    BY <1>1 DEF F!OpenMade
  <2>2. at[c].path \in FusePaths /\ (~fd[c].open \/ moved)
    BY <2>1, CallRecord, FuseKnown DEF F!CallsTrue
  <2> QED BY <2>1, <2>2, OpensKeeps
<1>2. ASSUME NEW c \in Procs, F!Seek(c) PROVE F!FuseInv'
  BY <1>2, SeekKeeps
<1>3. ASSUME NEW c \in Procs, F!Transfer(c) PROVE F!FuseInv'
  BY <1>3, TransferKeeps
<1>4. ASSUME NEW c \in Procs, F!Release(c) PROVE F!FuseInv'
  BY <1>4, ReleaseKeeps
<1>5. ASSUME NEW c \in Procs, NEW p \in FusePaths, F!Open(c, p) PROVE F!FuseInv'
  <2>1. at[c].st = "idle" /\ ~fd[c].open /\ F!Opens(c, p)
    BY <1>5 DEF F!Open, F!Idle
  <2> QED BY <2>1, OpensKeeps
<1>6. ASSUME NEW c \in Procs, NEW p \in FusePaths, F!Create(c, p) PROVE F!FuseInv'
  BY <1>6, CreateKeeps
<1>7. ASSUME NEW c \in Procs, NEW op \in {"read", "write"}, NEW off \in 0 .. MaxOffset, F!LookUp(c, op, off) PROVE F!FuseInv'
  BY <1>7, LookUpKeeps
<1>8. ASSUME NEW p \in FusePaths, NEW q \in FusePaths, F!Rename(p, q) PROVE F!FuseInv'
  BY <1>8, RenameKeeps
<1>9. CASE UNCHANGED F!vars
  <2>1. fs' = fs /\ tracker' = tracker /\ handle' = handle /\ fd' = fd /\ at' = at /\ moved' = moved
    BY <1>9 DEF F!vars
  <2>2. F!TypeOK'
    BY <2>1, FuseKnown DEF F!TypeOK
  <2>3. ASSUME ~moved' PROVE F!TrackersTrue' /\ F!CallsTrue' /\ F!AtItsOffset'
    <3>1. F!TrackersTrue /\ F!CallsTrue /\ F!AtItsOffset /\ ~moved
      BY <2>1, <2>3, FuseKnown
    <3>2. F!TrackersTrue'
      BY <2>1, <3>1, TrackersFrame
    <3>3. \A d \in Procs : (F!Busy(d)' <=> F!Busy(d)) /\ (at'[d].st = "made" => ~fd'[d].open)
      BY <2>1, <3>1 DEF F!Busy, F!CallsTrue
    <3> QED BY <2>1, <3>1, <3>2, <3>3, CallsFrame
  <2> QED BY <2>2, <2>3, FuseFromParts
<1> QED BY <1>1, <1>2, <1>3, <1>4, <1>5, <1>6, <1>7, <1>8, <1>9 DEF F!Next

\* Until an open file is renamed, threads use a shared handle that is open and of their file, at their
\* offset if they are alone, and close it in the end, for any number of processes, paths and handles.
THEOREM HandlesAreShared ==
  ASSUME FuseAssumption
  PROVE  F!Spec => []HandlesShared
<1>1. F!Init => F!FuseInv
  BY FuseStart
<1>2. F!FuseInv /\ [F!Next]_(F!vars) => F!FuseInv'
  BY FuseGoesOn
<1> QED BY <1>1, <1>2, PTL DEF F!Spec, HandlesShared
=============================================================================
