---------------------------- MODULE WorkerProofs ----------------------------
(***************************************************************************)
(* The safety properties of Worker, for any number of tasks and workers,   *)
(* any concurrency and any number of faults and restarts.                  *)
(***************************************************************************)
EXTENDS Worker, FiniteSetTheorems, TLAPS

\* Every entry of the stream is another task.
NoDuplicates ==
  \A i, j \in 1..Len(stream) : stream[i] = stream[j] => i = j

\* A task has one job at most, in one worker.
SoleJob ==
  \A v, w \in Workers, t \in Tasks :
    job[v][t] # "none" /\ job[w][t] # "none" => v = w

\* The states of a job from which its nack, if any, is still to come.
BeforeNack == {"queued", "running", "storing", "publishing", "acking",
               "clearing", "nacking"}

\* What the state of a job says of its task.
JobInv ==
  \A w \in Workers, t \in Tasks :
    LET s == job[w][t]
    IN  /\ s # "none" => t \in Delivered
        /\ s = "queued" => runs[t] = 0 /\ t \in pel
        /\ s \in Holding => runs[t] = 1
        /\ s \in BeforeNack => nackCount[t] = 0
        /\ s \in {"publishing", "acking", "clearing"} => t \in stored
        /\ s = "clearing" => t \notin pel
        /\ s = "metric" /\ t \in pel => nackCount[t] > 0 \/ faults > 0

\* What is true of a task whether or not somebody works on it.
TaskInv ==
  \A t \in Tasks :
    /\ runs[t] <= 1 /\ nackCount[t] <= 1
    /\ t \notin Delivered => runs[t] = 0 /\ nackCount[t] = 0 /\ t \notin pel
    /\ t \in stored => runs[t] = 1
    /\ t \in Acked => t \in stored

WorkerInv == /\ TypeOK /\ NoDuplicates /\ SoleJob /\ JobInv /\ TaskInv
             /\ dlq = {} /\ NothingAbandoned

-----------------------------------------------------------------------------
THEOREM InitInv == Init => WorkerInv
<1> SUFFICES ASSUME Init PROVE WorkerInv
  OBVIOUS
<1> USE DEF Init, QueueInit
<1>1. TypeOK
  BY BoundsAssumption DEF TypeOK, QueueTypeOK, JobState
<1>2. NoDuplicates /\ SoleJob /\ dlq = {} /\ NothingAbandoned
  BY DEF NoDuplicates, SoleJob, NothingAbandoned
<1>3. Delivered = {}
  BY DEF Delivered
<1>4. JobInv /\ TaskInv
  BY <1>3 DEF JobInv, TaskInv, Acked, BeforeNack, Holding
<1> QED BY <1>1, <1>2, <1>4 DEF WorkerInv

LEMMA DeliveredIsATask == ASSUME TypeOK PROVE Delivered \subseteq Tasks
BY DEF TypeOK, QueueTypeOK, Delivered

(***************************************************************************)
(* XADD of a task that is not in the stream.                               *)
(***************************************************************************)
LEMMA AddKeepsInv ==
  ASSUME WorkerInv, NEW t \in Tasks, t \notin InStream, XAdd(t),
         UNCHANGED <<loop, stop, job, runs, stops>>,
         faults' \in faults..MaxFaults
  PROVE  WorkerInv'
<1> USE DEF WorkerInv
<1>1. /\ stream' = Append(stream, t) /\ stream' \in Seq(Tasks)
      /\ Len(stream') = Len(stream) + 1 /\ Len(stream) \in Nat
      /\ \A i \in 1..Len(stream) : stream'[i] = stream[i]
      /\ stream'[Len(stream) + 1] = t
  BY DEF XAdd, TypeOK, QueueTypeOK
<1>2. TypeOK'
  BY <1>1, BoundsAssumption DEF TypeOK, QueueTypeOK, XAdd
<1>3. NoDuplicates'
  <2> SUFFICES ASSUME NEW i \in 1..Len(stream'), NEW j \in 1..Len(stream'),
                      stream'[i] = stream'[j]
               PROVE  i = j
    BY DEF NoDuplicates
  <2>1. \A k \in 1..Len(stream) : stream[k] # t
    BY DEF InStream
  <2>2. i \in 1..Len(stream) \/ i = Len(stream) + 1
    BY <1>1
  <2>3. j \in 1..Len(stream) \/ j = Len(stream) + 1
    BY <1>1
  <2> QED BY <1>1, <2>1, <2>2, <2>3 DEF NoDuplicates
<1>4. Delivered' = Delivered
  BY <1>1 DEF Delivered, XAdd, TypeOK, QueueTypeOK
<1>5. SoleJob' /\ dlq' = {}
  BY DEF SoleJob, XAdd
<1>6. faults \in Nat /\ (faults > 0 => faults' > 0)
  BY BoundsAssumption DEF TypeOK
<1>7. JobInv'
  BY <1>4, <1>6 DEF JobInv, XAdd
<1>8. TaskInv'
  BY <1>4 DEF TaskInv, Acked, XAdd
<1>9. NothingAbandoned'
  BY <1>6 DEF NothingAbandoned, Unattended, XAdd
<1> QED BY <1>2, <1>3, <1>5, <1>7, <1>8, <1>9

(***************************************************************************)
(* XREADGROUP gives the group a task that was not delivered before.        *)
(***************************************************************************)
LEMMA ReadIsNew ==
  ASSUME WorkerInv, NEW t \in Tasks, XReadGroup(t)
  PROVE  /\ t \notin Delivered
         /\ Delivered' = Delivered \cup {t}
         /\ delivered' \in 0..Len(stream')
<1> USE DEF WorkerInv, TypeOK, QueueTypeOK
<1>1. delivered \in Nat /\ Len(stream) \in Nat /\ delivered + 1 \in 1..Len(stream)
  BY DEF XReadGroup
<1>2. t = stream[delivered + 1]
  BY DEF XReadGroup
<1>3. \A i \in 1..delivered : i \in 1..Len(stream) /\ i # delivered + 1
  BY <1>1
<1>4. t \notin Delivered
  BY <1>1, <1>2, <1>3 DEF Delivered, NoDuplicates
<1>5. 1..(delivered + 1) = (1..delivered) \cup {delivered + 1}
  BY <1>1
<1>6. Delivered' = {stream[i] : i \in 1..(delivered + 1)}
  BY DEF XReadGroup, Delivered
<1>7. Delivered' = Delivered \cup {t}
  BY <1>2, <1>5, <1>6 DEF Delivered
<1> QED BY <1>1, <1>4, <1>7 DEF XReadGroup

LEMMA NewHasNoJob ==
  ASSUME WorkerInv, NEW t \in Tasks, t \notin Delivered
  PROVE  /\ \A w \in Workers : job[w][t] = "none"
         /\ runs[t] = 0 /\ nackCount[t] = 0 /\ t \notin pel
BY DEF WorkerInv, JobInv, TaskInv

LEMMA DequeueKeepsInv ==
  ASSUME WorkerInv, NEW w \in Workers, NEW t \in Tasks, Dequeue(w, t)
  PROVE  WorkerInv'
<1> USE DEF WorkerInv
<1>1. XReadGroup(t) /\ job' = [job EXCEPT ![w][t] = "queued"]
  BY DEF Dequeue
<1>2. t \notin Delivered /\ Delivered' = Delivered \cup {t} /\ delivered' \in 0..Len(stream')
  BY <1>1, ReadIsNew
<1>3. /\ \A v \in Workers : job[v][t] = "none"
      /\ runs[t] = 0 /\ nackCount[t] = 0 /\ t \notin pel
  BY <1>2, NewHasNoJob
<1>4. pel' = pel \cup {t} /\ UNCHANGED <<stream, nackCount, dlq, stored, runs, faults>>
  BY <1>1 DEF XReadGroup, Dequeue
<1>5. TypeOK'
  <2>1. job' \in [Workers -> [Tasks -> JobState]]
    BY <1>1 DEF TypeOK, JobState
  <2> QED BY <1>2, <1>4, <2>1 DEF TypeOK, QueueTypeOK, Dequeue
<1>6. /\ job'[w][t] = "queued"
      /\ \A v \in Workers, u \in Tasks : v # w \/ u # t => job'[v][u] = job[v][u]
  BY <1>1 DEF TypeOK
<1>7. NoDuplicates' /\ dlq' = {}
  BY <1>4 DEF NoDuplicates
<1>8. SoleJob'
  BY <1>3, <1>6 DEF SoleJob
<1>9. JobInv'
  <2> SUFFICES ASSUME NEW v \in Workers, NEW u \in Tasks
               PROVE  LET s == job'[v][u]
                      IN  /\ s # "none" => u \in Delivered'
                          /\ s = "queued" => runs'[u] = 0 /\ u \in pel'
                          /\ s \in Holding => runs'[u] = 1
                          /\ s \in BeforeNack => nackCount'[u] = 0
                          /\ s \in {"publishing", "acking", "clearing"} => u \in stored'
                          /\ s = "clearing" => u \notin pel'
                          /\ s = "metric" /\ u \in pel' => nackCount'[u] > 0 \/ faults' > 0
    BY DEF JobInv
  <2>1. CASE u = t
    BY <2>1, <1>2, <1>3, <1>4, <1>6 DEF BeforeNack, Holding
  <2>2. CASE u # t
    BY <2>2, <1>2, <1>4, <1>6 DEF JobInv
  <2> QED BY <2>1, <2>2
<1>10. TaskInv'
  BY <1>2, <1>3, <1>4 DEF TaskInv, Acked
<1>11. NothingAbandoned'
  <2> SUFFICES ASSUME faults' = 0, NEW u \in pel', Unattended(u)'
               PROVE  nackCount'[u] > 0
    BY DEF NothingAbandoned
  <2>1. u # t
    BY <1>6 DEF Unattended
  <2>2. u \in pel /\ u \in Tasks
    BY <1>4, <2>1 DEF TypeOK, QueueTypeOK
  <2>3. Unattended(u)
    BY <1>6, <2>1, <2>2 DEF Unattended
  <2> QED BY <1>4, <2>2, <2>3 DEF NothingAbandoned
<1> QED BY <1>5, <1>7, <1>8, <1>9, <1>10, <1>11

(***************************************************************************)
(* A step of the job of t in worker w, past the semaphore or into it, to   *)
(* the state s, with r executions and n nacks of t afterwards.  It may     *)
(* acknowledge the message or store the result; the last seven conjuncts are *)
(* what JobInv and TaskInv say of t afterwards.                            *)
(***************************************************************************)
JobMove(w, t, s, r, n) ==
  /\ job[w][t] # "none" /\ s \in Holding \cup {"none"} /\ r \in Nat /\ n \in Nat
  /\ job' = [job EXCEPT ![w][t] = s]
  /\ runs' = [runs EXCEPT ![t] = r]
  /\ nackCount' = [nackCount EXCEPT ![t] = n]
  /\ pel' = pel \/ pel' = pel \ {t}
  /\ stored' = stored \/ stored' = stored \cup {t}
  /\ UNCHANGED <<stream, delivered, dlq, loop, stop, stops>>
  /\ faults' \in faults..MaxFaults
  /\ r <= 1 /\ n <= 1
  /\ s \in Holding \/ t \in stored' => r = 1
  /\ s \in BeforeNack => n = 0
  /\ s \in {"publishing", "acking", "clearing"} => t \in stored'
  /\ t \notin pel' => t \in stored'
  /\ s = "clearing" => t \notin pel'
  /\ s \in {"metric", "none"} /\ t \in pel' => n > 0 \/ faults' > 0

LEMMA JobMoves ==
  ASSUME WorkerInv, NEW w \in Workers, NEW t \in Tasks, NEW s, NEW r, NEW n,
         JobMove(w, t, s, r, n)
  PROVE  WorkerInv'
<1> USE DEF JobMove
<1> USE DEF WorkerInv
<1>1. /\ job'[w][t] = s
      /\ \A v \in Workers, u \in Tasks : v # w \/ u # t => job'[v][u] = job[v][u]
  BY DEF TypeOK
<1>2. \A v \in Workers : v # w => job[v][t] = "none"
  BY DEF SoleJob
<1>3. t \in Delivered /\ Delivered' = Delivered
  BY DEF JobInv, Delivered
<1>4. faults \in Nat /\ faults' \in 0..MaxFaults /\ (faults > 0 => faults' > 0)
  BY BoundsAssumption DEF TypeOK
<1>5. TypeOK'
  <2>1. job' \in [Workers -> [Tasks -> JobState]]
    BY DEF TypeOK, JobState
  <2> QED BY <1>4, <2>1 DEF TypeOK, QueueTypeOK
<1>6. NoDuplicates' /\ dlq' = {}
  BY DEF NoDuplicates
<1>7. SoleJob'
  BY <1>1 DEF SoleJob
<1>8. \A u \in Tasks : u # t => /\ runs'[u] = runs[u] /\ nackCount'[u] = nackCount[u]
                                 /\ (u \in pel' <=> u \in pel)
                                 /\ (u \in stored' <=> u \in stored)
  BY DEF TypeOK, QueueTypeOK
<1>9. runs'[t] = r /\ nackCount'[t] = n
  BY DEF TypeOK, QueueTypeOK
<1>10. JobInv'
  <2> SUFFICES ASSUME NEW v \in Workers, NEW u \in Tasks
               PROVE  LET x == job'[v][u]
                      IN  /\ x # "none" => u \in Delivered'
                          /\ x = "queued" => runs'[u] = 0 /\ u \in pel'
                          /\ x \in Holding => runs'[u] = 1
                          /\ x \in BeforeNack => nackCount'[u] = 0
                          /\ x \in {"publishing", "acking", "clearing"} => u \in stored'
                          /\ x = "clearing" => u \notin pel'
                          /\ x = "metric" /\ u \in pel' => nackCount'[u] > 0 \/ faults' > 0
    BY DEF JobInv
  <2>1. CASE u = t /\ v = w
    BY <2>1, <1>1, <1>3, <1>9 DEF Holding, BeforeNack
  <2>2. CASE u = t /\ v # w
    BY <2>2, <1>1, <1>2 DEF BeforeNack, Holding
  <2>3. CASE u # t
    BY <2>3, <1>1, <1>3, <1>4, <1>8 DEF JobInv
  <2> QED BY <2>1, <2>2, <2>3
<1>11. TaskInv'
  BY <1>3, <1>8, <1>9 DEF TaskInv, Acked
<1>12. NothingAbandoned'
  <2> SUFFICES ASSUME faults' = 0, NEW u \in pel', Unattended(u)'
               PROVE  nackCount'[u] > 0
    BY DEF NothingAbandoned
  <2>1. u \in Tasks
    BY DEF TypeOK, QueueTypeOK
  <2>2. CASE u = t
    BY <2>2, <1>1, <1>9 DEF Unattended
  <2>3. CASE u # t
    <3>1. u \in pel /\ Unattended(u)
      BY <2>1, <2>3, <1>1, <1>8 DEF Unattended
    <3> QED BY <2>1, <2>3, <3>1, <1>4, <1>8 DEF NothingAbandoned
  <2> QED BY <2>2, <2>3
<1> QED BY <1>5, <1>6, <1>7, <1>10, <1>11, <1>12

\* What is known of the task of a job.
JobFact(w, t) ==
  /\ runs[t] \in Nat /\ runs[t] <= 1
  /\ nackCount[t] \in Nat /\ nackCount[t] <= 1
  /\ job[w][t] = "queued" => runs[t] = 0 /\ t \in pel
  /\ job[w][t] \in Holding \/ t \in stored => runs[t] = 1
  /\ job[w][t] \in BeforeNack => nackCount[t] = 0
  /\ job[w][t] \in {"publishing", "acking", "clearing"} => t \in stored
  /\ t \notin pel => t \in stored
  /\ job[w][t] = "clearing" => t \notin pel
  /\ job[w][t] = "metric" /\ t \in pel => nackCount[t] > 0 \/ faults > 0
  /\ runs = [runs EXCEPT ![t] = runs[t]]
  /\ nackCount = [nackCount EXCEPT ![t] = nackCount[t]]
  /\ faults \in Nat /\ MaxFaults \in Nat /\ faults \in faults..MaxFaults

LEMMA JobFacts ==
  ASSUME WorkerInv, NEW w \in Workers, NEW t \in Tasks, job[w][t] # "none"
  PROVE  JobFact(w, t)
BY BoundsAssumption
DEF WorkerInv, TypeOK, QueueTypeOK, JobInv, TaskInv, Acked, JobFact

LEMMA JobStepKeepsInv ==
  ASSUME WorkerInv, NEW w \in Workers, NEW t \in Tasks, JobStep(w, t)
  PROVE  WorkerInv'
<1>1. job[w][t] # "none"
  BY DEF JobStep, Acquire, RunReturns, RunRaises, Store, Publish, Acknowledge,
         Clear, NackMessage, EmitMetric, Advance
<1>2. JobFact(w, t)
  BY <1>1, JobFacts
<1> USE <1>1, <1>2 DEF Advance, JobFact, JobMove, Holding, BeforeNack, queueVars
<1>3. CASE Acquire(w, t)
  <2>1. JobMove(w, t, "running", runs[t] + 1, nackCount[t])
    BY <1>3 DEF Acquire
  <2> QED BY <2>1, JobMoves
<1>4. CASE RunReturns(w, t)
  <2>1. JobMove(w, t, "storing", runs[t], nackCount[t])
    BY <1>4 DEF RunReturns
  <2> QED BY <2>1, JobMoves
<1>5. CASE RunRaises(w, t)
  <2>1. JobMove(w, t, "nacking", runs[t], nackCount[t])
    BY <1>5 DEF RunRaises
  <2> QED BY <2>1, JobMoves
<1>6. CASE Store(w, t)
  <2>1. JobMove(w, t, "publishing", runs[t], nackCount[t])
    BY <1>6 DEF Store, StoreResult
  <2> QED BY <2>1, JobMoves
<1>7. CASE Publish(w, t)
  <2>1. JobMove(w, t, "acking", runs[t], nackCount[t])
    BY <1>7 DEF Publish
  <2> QED BY <2>1, JobMoves
<1>8. CASE Acknowledge(w, t)
  <2>1. JobMove(w, t, "clearing", runs[t], nackCount[t])
    BY <1>8 DEF Acknowledge, XAck
  <2> QED BY <2>1, JobMoves
<1>9. CASE Clear(w, t)
  <2>1. JobMove(w, t, "metric", runs[t], 0)
    BY <1>9 DEF Clear, DelNackKey
  <2> QED BY <2>1, JobMoves
<1>10. CASE NackMessage(w, t)
  <2>1. JobMove(w, t, "metric", runs[t], 1)
    BY <1>10 DEF NackMessage, Nack, MaxNacks
  <2> QED BY <2>1, JobMoves
<1>11. CASE EmitMetric(w, t)
  <2>1. JobMove(w, t, "none", runs[t], nackCount[t])
    BY <1>11 DEF EmitMetric
  <2> QED BY <2>1, JobMoves
<1> QED BY <1>3, <1>4, <1>5, <1>6, <1>7, <1>8, <1>9, <1>10, <1>11 DEF JobStep

\* A Redis call that raises: its effect on the server, or none.
LEMMA CallRaisesKeepsInv ==
  ASSUME WorkerInv, NEW w \in Workers, NEW t \in Tasks, CallRaises(w, t)
  PROVE  WorkerInv'
<1> DEFINE to == IF job[w][t] = "nacking" THEN "metric" ELSE "nacking"
<1>1. /\ job[w][t] \in {"storing", "publishing", "acking", "clearing", "nacking"}
      /\ job' = [job EXCEPT ![w][t] = to]
      /\ faults < MaxFaults /\ faults' = faults + 1
      /\ UNCHANGED <<loop, stop, stops, runs>>
      /\ Effect(job[w][t], t) \/ UNCHANGED queueVars
  BY DEF CallRaises, Advance
<1>2. JobFact(w, t)
  BY <1>1, JobFacts
<1>3. faults' \in faults..MaxFaults /\ faults' > 0
  BY <1>1, <1>2 DEF JobFact
<1>4. nackCount[t] = 0 /\ runs[t] = 1
  BY <1>1, <1>2 DEF JobFact, BeforeNack, Holding
<1>5. CASE UNCHANGED queueVars
  <2>1. CASE job[w][t] = "nacking"
    <3>1. JobMove(w, t, "metric", runs[t], 0)
      BY <1>1, <1>2, <1>3, <1>4, <1>5, <2>1
         DEF JobFact, JobMove, Holding, BeforeNack, queueVars
    <3> QED BY <3>1, JobMoves
  <2>2. CASE job[w][t] # "nacking"
    <3>1. JobMove(w, t, "nacking", runs[t], 0)
      BY <1>1, <1>2, <1>3, <1>4, <1>5, <2>2
         DEF JobFact, JobMove, Holding, BeforeNack, queueVars
    <3> QED BY <3>1, JobMoves
  <2> QED BY <2>1, <2>2
<1>6. CASE job[w][t] = "storing" /\ StoreResult(t)
  <2>1. JobMove(w, t, "nacking", runs[t], 0)
    BY <1>1, <1>2, <1>3, <1>4, <1>6
       DEF JobFact, JobMove, Holding, BeforeNack, queueVars, StoreResult
  <2> QED BY <2>1, JobMoves
<1>7. CASE job[w][t] = "acking" /\ XAck(t)
  <2>1. JobMove(w, t, "nacking", runs[t], 0)
    BY <1>1, <1>2, <1>3, <1>4, <1>7
       DEF JobFact, JobMove, Holding, BeforeNack, queueVars, XAck
  <2> QED BY <2>1, JobMoves
<1>8. CASE job[w][t] = "clearing" /\ DelNackKey(t)
  <2>1. JobMove(w, t, "nacking", runs[t], 0)
    BY <1>1, <1>2, <1>3, <1>4, <1>8
       DEF JobFact, JobMove, Holding, BeforeNack, queueVars, DelNackKey
  <2> QED BY <2>1, JobMoves
<1>9. CASE job[w][t] = "nacking" /\ Nack(t)
  <2>1. JobMove(w, t, "metric", runs[t], 1)
    BY <1>1, <1>2, <1>3, <1>4, <1>9
       DEF JobFact, JobMove, Holding, BeforeNack, queueVars, Nack, MaxNacks
  <2> QED BY <2>1, JobMoves
<1> QED BY <1>1, <1>5, <1>6, <1>7, <1>8, <1>9 DEF Effect

\* Steps of the process that touch neither the queue nor a job.
LEMMA ControlKeepsInv ==
  ASSUME WorkerInv, NEW w \in Workers,
         Start(w) \/ SeeStop(w) \/ Exit(w) \/ SigTerm(w)
  PROVE  WorkerInv'
<1> USE DEF WorkerInv
<1>1. UNCHANGED <<queueVars, job, runs, faults>>
  BY DEF Start, SeeStop, Exit, SigTerm
<1>2. loop' \in [Workers -> {"down", "up", "drain"}] /\ stop' \in [Workers -> BOOLEAN]
  BY DEF Start, SeeStop, Exit, SigTerm, TypeOK
<1>3. stops' \in 0..MaxStops
  BY BoundsAssumption DEF Start, SeeStop, Exit, SigTerm, TypeOK
<1>4. TypeOK'
  BY <1>1, <1>2, <1>3 DEF TypeOK, QueueTypeOK, queueVars
<1>5. NoDuplicates' /\ SoleJob' /\ JobInv' /\ TaskInv' /\ dlq' = {} /\ NothingAbandoned'
  BY <1>1 DEF queueVars, NoDuplicates, SoleJob, JobInv, TaskInv, NothingAbandoned,
              Delivered, Acked, Unattended
<1> QED BY <1>4, <1>5

LEMMA CrashKeepsInv ==
  ASSUME WorkerInv, NEW w \in Workers, Crash(w)
  PROVE  WorkerInv'
<1> USE DEF WorkerInv
<1>1. UNCHANGED <<queueVars, stop, runs, stops>> /\ faults' \in 0..MaxFaults /\ faults' > 0
  BY BoundsAssumption DEF Crash, TypeOK
<1>2. job' \in [Workers -> [Tasks -> JobState]]
  BY DEF Crash, TypeOK, JobState
<1>3. \A v \in Workers, t \in Tasks : job'[v][t] = "none" \/ job'[v][t] = job[v][t]
  BY DEF Crash, TypeOK
<1>4. TypeOK'
  BY <1>1, <1>2 DEF TypeOK, QueueTypeOK, queueVars, Crash
<1>5. NoDuplicates' /\ dlq' = {} /\ TaskInv' /\ NothingAbandoned' /\ Delivered' = Delivered
  BY <1>1 DEF queueVars, NoDuplicates, TaskInv, NothingAbandoned, Delivered, Acked
<1>6. SoleJob'
  BY <1>3 DEF SoleJob
<1>7. JobInv'
  BY <1>1, <1>3, <1>5 DEF JobInv, BeforeNack, Holding, queueVars
<1> QED BY <1>4, <1>5, <1>6, <1>7

\* The message of a lost reply is delivered, and nobody works on it.
LEMMA DequeueRaisesKeepsInv ==
  ASSUME WorkerInv, NEW w \in Workers, DequeueRaises(w)
  PROVE  WorkerInv'
<1> USE DEF WorkerInv
<1>1. /\ UNCHANGED <<stop, job, runs, stops>>
      /\ faults' \in 0..MaxFaults /\ faults' > 0
      /\ loop' \in [Workers -> {"down", "up", "drain"}]
  BY BoundsAssumption DEF DequeueRaises, TypeOK
<1>2. CASE UNCHANGED queueVars
  <2>1. TypeOK'
    BY <1>1, <1>2 DEF TypeOK, QueueTypeOK, queueVars
  <2>2. NoDuplicates' /\ SoleJob' /\ JobInv' /\ TaskInv' /\ dlq' = {} /\ NothingAbandoned'
    BY <1>1, <1>2 DEF queueVars, NoDuplicates, SoleJob, JobInv, TaskInv,
                      NothingAbandoned, Delivered, Acked
  <2> QED BY <2>1, <2>2
<1>3. ASSUME NEW t \in Tasks, XReadGroup(t) PROVE WorkerInv'
  <2>1. t \notin Delivered /\ Delivered' = Delivered \cup {t} /\ delivered' \in 0..Len(stream')
    BY <1>3, ReadIsNew
  <2>2. \A v \in Workers : job[v][t] = "none"
    BY <2>1, NewHasNoJob
  <2>3. runs[t] = 0 /\ nackCount[t] = 0
    BY <2>1, NewHasNoJob
  <2>4. pel' = pel \cup {t} /\ UNCHANGED <<stream, nackCount, dlq, stored>>
    BY <1>3 DEF XReadGroup
  <2>5. TypeOK'
    BY <1>1, <2>1, <2>4 DEF TypeOK, QueueTypeOK
  <2>6. NoDuplicates' /\ SoleJob' /\ dlq' = {} /\ NothingAbandoned'
    BY <1>1, <2>4 DEF NoDuplicates, SoleJob, NothingAbandoned
  <2>7. JobInv'
    BY <1>1, <2>1, <2>2, <2>4 DEF JobInv, BeforeNack, Holding
  <2>8. TaskInv'
    BY <1>1, <2>1, <2>3, <2>4 DEF TaskInv, Acked
  <2> QED BY <2>5, <2>6, <2>7, <2>8
<1> QED BY <1>2, <1>3 DEF DequeueRaises

(***************************************************************************)
(* Whatever the workers do keeps the invariant; module DistributedRun uses *)
(* the same fact, with another producer.                                   *)
(***************************************************************************)
THEOREM WorkersKeepInv == WorkerInv /\ WorkersNext => WorkerInv'
<1> SUFFICES ASSUME WorkerInv, NEW w \in Workers,
                    ProcessStep(w) \/ Fault(w) \/ \E t \in Tasks : JobStep(w, t)
             PROVE  WorkerInv'
  BY DEF WorkersNext
<1>1. CASE Start(w) \/ SeeStop(w) \/ Exit(w) \/ SigTerm(w)
  BY <1>1, ControlKeepsInv
<1>2. ASSUME NEW t \in Tasks, Dequeue(w, t) PROVE WorkerInv'
  BY <1>2, DequeueKeepsInv
<1>3. CASE Crash(w)
  BY <1>3, CrashKeepsInv
<1>4. CASE DequeueRaises(w)
  BY <1>4, DequeueRaisesKeepsInv
<1>5. ASSUME NEW t \in Tasks, CallRaises(w, t) PROVE WorkerInv'
  BY <1>5, CallRaisesKeepsInv
<1>6. ASSUME NEW t \in Tasks, JobStep(w, t) PROVE WorkerInv'
  BY <1>6, JobStepKeepsInv
<1> QED BY <1>1, <1>2, <1>3, <1>4, <1>5, <1>6 DEF ProcessStep, Fault

\* A fault elsewhere, which only counts.
LEMMA CountingKeepsInv ==
  ASSUME WorkerInv, UNCHANGED <<queueVars, loop, stop, job, runs, stops>>,
         faults' \in faults..MaxFaults
  PROVE  WorkerInv'
<1>1. faults \in Nat /\ faults' \in 0..MaxFaults /\ (faults > 0 => faults' > 0)
  BY BoundsAssumption DEF WorkerInv, TypeOK
<1> QED BY <1>1 DEF queueVars, WorkerInv, TypeOK, QueueTypeOK, NoDuplicates, SoleJob,
                    JobInv, TaskInv, NothingAbandoned, Delivered, Acked, Unattended

LEMMA StutterKeepsInv == WorkerInv /\ UNCHANGED vars => WorkerInv'
<1> SUFFICES ASSUME WorkerInv, UNCHANGED vars PROVE WorkerInv'
  OBVIOUS
<1>1. UNCHANGED <<queueVars, loop, stop, job, runs, stops, faults>>
  BY DEF vars, workerVars
<1>2. faults' \in faults..MaxFaults
  BY <1>1, BoundsAssumption DEF WorkerInv, TypeOK
<1> QED BY <1>1, <1>2, CountingKeepsInv

THEOREM Invariance == Spec => []WorkerInv
<1>1. ASSUME WorkerInv, NEW t \in Tasks, Produce(t) PROVE WorkerInv'
  <2>1. faults \in faults..MaxFaults
    BY <1>1, BoundsAssumption DEF WorkerInv, TypeOK
  <2> QED BY <1>1, <2>1, AddKeepsInv DEF Produce, workerVars
<1>2. WorkerInv /\ [Next]_vars => WorkerInv'
  BY <1>1, WorkersKeepInv, StutterKeepsInv DEF Next
<1> QED BY <1>2, InitInv, PTL DEF Spec

(***************************************************************************)
(* Type correctness.                                                       *)
(***************************************************************************)
THEOREM TypeCorrect == Spec => []TypeOK
<1>1. WorkerInv => TypeOK
  BY DEF WorkerInv
<1> QED BY <1>1, Invariance, PTL

(***************************************************************************)
(* At-most-once execution, for any number of crashes and lost replies.     *)
(***************************************************************************)
THEOREM AtMostOnce == Spec => []ExecutedAtMostOnce
<1>1. WorkerInv => ExecutedAtMostOnce
  BY DEF WorkerInv, TaskInv, ExecutedAtMostOnce
<1> QED BY <1>1, Invariance, PTL

(***************************************************************************)
(* The dead-letter stream is unreachable: lines 209-219 of task_queue.py   *)
(* are dead code as long as nothing re-delivers a message.                 *)
(***************************************************************************)
THEOREM NoDeadLetter == Spec => []DeadLetterUnreachable
<1>1. WorkerInv => DeadLetterUnreachable
  BY DEF WorkerInv, TaskInv, DeadLetterUnreachable
<1> QED BY <1>1, Invariance, PTL

(***************************************************************************)
(* A settled message has its answer.                                       *)
(***************************************************************************)
THEOREM AckedHasAnswer == Spec => []AckedHasResult
<1>1. WorkerInv => AckedHasResult
  BY DeliveredIsATask DEF WorkerInv, TaskInv, AckedHasResult, Acked
<1> QED BY <1>1, Invariance, PTL

(***************************************************************************)
(* A graceful shutdown abandons no message.                                *)
(***************************************************************************)
THEOREM GracefulShutdown == Spec => []NothingAbandoned
<1>1. WorkerInv => NothingAbandoned
  BY DEF WorkerInv
<1> QED BY <1>1, Invariance, PTL

-----------------------------------------------------------------------------
(* What is lost stays lost                                                 *)

\* A job moves: only its own task can leave the pending entries.
LEMMA JobSparesLost ==
  ASSUME WorkerInv, NEW w \in Workers, NEW u \in Tasks, NEW t \in Tasks,
         JobStep(w, u) \/ CallRaises(w, u), t \in Lost
  PROVE  t \in Lost'
<1>1. job[w][u] # "none" /\ \E s : job' = [job EXCEPT ![w][u] = s]
  BY DEF JobStep, Acquire, RunReturns, RunRaises, Store, Publish, Acknowledge,
         Clear, NackMessage, EmitMetric, CallRaises, Advance
<1>2. u # t
  BY <1>1 DEF Lost, Unattended
<1>3. pel' = pel \/ pel' = pel \ {u}
  <2>1. CASE JobStep(w, u)
    BY <2>1 DEF JobStep, Acquire, RunReturns, RunRaises, Store, Publish, Acknowledge,
                Clear, NackMessage, EmitMetric, queueVars, StoreResult, XAck,
                DelNackKey, Nack
  <2>2. CASE CallRaises(w, u)
    <3>1. CASE UNCHANGED queueVars
      BY <3>1 DEF queueVars
    <3>2. CASE Effect(job[w][u], u)
      <4>1. job[w][u] \in {"storing", "publishing", "acking", "clearing", "nacking"}
        BY <2>2 DEF CallRaises
      <4> QED BY <3>2, <4>1 DEF Effect, queueVars, StoreResult, XAck, DelNackKey, Nack
    <3> QED BY <2>2, <3>1, <3>2 DEF CallRaises
  <2> QED BY <2>1, <2>2
<1>4. \A v \in Workers : job'[v][t] = job[v][t]
  BY <1>1, <1>2 DEF WorkerInv, TypeOK
<1> QED BY <1>2, <1>3, <1>4 DEF Lost, Unattended

(***************************************************************************)
(* No step of any worker, restarted ones included, and no new message      *)
(* brings a lost message back.                                             *)
(***************************************************************************)
THEOREM LostStaysLostHolds == Spec => LostStaysLost
<1>1. ASSUME WorkerInv, [Next]_vars, NEW t \in Lost
      PROVE  t \in Lost'
  <2>1. t \in Tasks /\ t \in Lost
    BY <1>1 DEF WorkerInv, TypeOK, QueueTypeOK, Lost
  <2>2. ASSUME NEW w \in Workers, NEW u \in Tasks, JobStep(w, u) \/ CallRaises(w, u)
        PROVE  t \in Lost'
    BY <1>1, <2>1, <2>2, JobSparesLost
  <2>3. ASSUME NEW w \in Workers, NEW u \in Tasks, Dequeue(w, u) PROVE t \in Lost'
    <3>1. XReadGroup(u) /\ job' = [job EXCEPT ![w][u] = "queued"] /\ pel' = pel \cup {u}
      BY <2>3 DEF Dequeue, XReadGroup
    <3>2. u \notin pel
      BY <1>1, <3>1, ReadIsNew, NewHasNoJob
    <3>3. u # t
      BY <2>1, <3>2 DEF Lost
    <3>4. \A v \in Workers : job'[v][t] = job[v][t]
      BY <1>1, <3>1, <3>3 DEF WorkerInv, TypeOK
    <3> QED BY <2>1, <3>1, <3>4 DEF Lost, Unattended
  <2>4. CASE \E w \in Workers : Start(w) \/ SeeStop(w) \/ Exit(w) \/ SigTerm(w)
    BY <2>1, <2>4 DEF Start, SeeStop, Exit, SigTerm, queueVars, Lost, Unattended
  <2>5. CASE \E w \in Workers : Crash(w)
    BY <1>1, <2>1, <2>5 DEF Crash, queueVars, Lost, Unattended, WorkerInv, TypeOK
  <2>6. CASE \E w \in Workers : DequeueRaises(w)
    BY <2>1, <2>6 DEF DequeueRaises, XReadGroup, queueVars, Lost, Unattended
  <2>7. CASE \E u \in Tasks : Produce(u)
    BY <2>1, <2>7 DEF Produce, XAdd, workerVars, Lost, Unattended
  <2>8. CASE UNCHANGED vars
    BY <2>1, <2>8 DEF vars, queueVars, workerVars, Lost, Unattended
  <2>9. CASE \E w \in Workers : ProcessStep(w)
    BY <2>3, <2>4, <2>9 DEF ProcessStep
  <2>10. CASE \E w \in Workers : Fault(w)
    BY <2>1, <2>2, <2>4, <2>5, <2>6, <2>10 DEF Fault
  <2>11. CASE \E w \in Workers, u \in Tasks : JobStep(w, u)
    BY <2>2, <2>11
  <2> QED BY <1>1, <2>7, <2>8, <2>9, <2>10, <2>11 DEF Next, WorkersNext
<1>2. WorkerInv /\ [Next]_vars => [Lost \subseteq Lost']_vars
  BY <1>1
<1> QED BY <1>2, Invariance, PTL DEF Spec, LostStaysLost

-----------------------------------------------------------------------------
(* The semaphore                                                           *)

LEMMA FewerHolders ==
  ASSUME ConcurrencyBound, NEW w \in Workers, Holders(w)' \subseteq Holders(w)
  PROVE  Cardinality(Holders(w)') <= Concurrency
<1>1. IsFiniteSet(Holders(w))
  BY QueueTasksAssumption, FS_Subset DEF Holders
<1>2. /\ Cardinality(Holders(w)') <= Cardinality(Holders(w))
      /\ Cardinality(Holders(w)) \in Nat /\ Cardinality(Holders(w)') \in Nat
  BY <1>1, FS_Subset, FS_CardinalityType
<1>3. Concurrency \in Nat
  BY ConcurrencyAssumption
<1> QED BY <1>2, <1>3 DEF ConcurrencyBound

LEMMA AcquireKeepsBound ==
  ASSUME TypeOK, ConcurrencyBound, NEW w \in Workers, NEW t \in Tasks, Acquire(w, t)
  PROVE  ConcurrencyBound'
<1>1. ASSUME NEW v \in Workers PROVE Cardinality(Holders(v)') <= Concurrency
  <2>1. CASE v = w
    <3>1. IsFiniteSet(Holders(w))
      BY QueueTasksAssumption, FS_Subset DEF Holders
    <3>2. Holders(w)' = Holders(w) \cup {t} /\ t \notin Holders(w)
      BY DEF TypeOK, Acquire, Advance, Holders, Holding
    <3>3. Cardinality(Holders(w)') = Cardinality(Holders(w)) + 1
      BY <3>1, <3>2, FS_AddElement
    <3>4. Cardinality(Holders(w)) < Concurrency /\ Cardinality(Holders(w)) \in Nat
      BY <3>1, FS_CardinalityType DEF Acquire
    <3> QED BY <2>1, <3>3, <3>4, ConcurrencyAssumption
  <2>2. CASE v # w
    <3>1. Holders(v)' \subseteq Holders(v)
      BY <2>2 DEF TypeOK, Acquire, Advance, Holders
    <3> QED BY <3>1, FewerHolders
  <2> QED BY <2>1, <2>2
<1> QED BY <1>1 DEF ConcurrencyBound

(***************************************************************************)
(* However many messages the loop has taken, at most Concurrency agents    *)
(* run at a time in a worker.                                              *)
(***************************************************************************)
THEOREM ConcurrencyIsBounded == Spec => []ConcurrencyBound
<1>1. Init => ConcurrencyBound
  <2> SUFFICES ASSUME Init, NEW w \in Workers PROVE Cardinality(Holders(w)) <= Concurrency
    BY DEF ConcurrencyBound
  <2>1. Holders(w) = {}
    BY DEF Init, Holders, Holding
  <2> QED BY <2>1, FS_EmptySet, ConcurrencyAssumption
<1>2. ASSUME WorkerInv, ConcurrencyBound, [Next]_vars PROVE ConcurrencyBound'
  <2>1. TypeOK
    BY <1>2 DEF WorkerInv
  <2>2. ASSUME NEW w \in Workers, NEW t \in Tasks, Acquire(w, t) PROVE ConcurrencyBound'
    BY <1>2, <2>1, <2>2, AcquireKeepsBound
  <2>3. CASE \A v \in Workers : Holders(v)' \subseteq Holders(v)
    BY <1>2, <2>3, FewerHolders DEF ConcurrencyBound
  <2>4. ASSUME NEW w \in Workers, NEW t \in Tasks, NEW s, job[w][t] \in Holding \/ s \notin Holding,
               job' = [job EXCEPT ![w][t] = s]
        PROVE  \A v \in Workers : Holders(v)' \subseteq Holders(v)
    BY <2>1, <2>4 DEF TypeOK, Holders
  <2>5. ASSUME NEW w \in Workers, NEW t \in Tasks, JobStep(w, t), ~Acquire(w, t)
        PROVE  ConcurrencyBound'
    <3>1. job[w][t] \in Holding /\ \E s : job' = [job EXCEPT ![w][t] = s]
      BY <2>5 DEF JobStep, RunReturns, RunRaises, Store, Publish, Acknowledge,
                  Clear, NackMessage, EmitMetric, Advance, Holding
    <3> QED BY <2>3, <2>4, <3>1
  <2>6. ASSUME NEW w \in Workers, NEW t \in Tasks, CallRaises(w, t) PROVE ConcurrencyBound'
    <3>1. job[w][t] \in Holding /\ \E s : job' = [job EXCEPT ![w][t] = s]
      BY <2>6 DEF CallRaises, Advance, Holding
    <3> QED BY <2>3, <2>4, <3>1
  <2>7. ASSUME NEW w \in Workers, NEW t \in Tasks, Dequeue(w, t) PROVE ConcurrencyBound'
    BY <2>3, <2>4, <2>7 DEF Dequeue, Holding
  <2>8. CASE \E w \in Workers : Crash(w)
    BY <2>1, <2>3, <2>8 DEF Crash, Holders, Holding, TypeOK
  <2>9. CASE UNCHANGED job
    BY <2>3, <2>9 DEF Holders
  <2>10. CASE (\E w \in Workers : Start(w) \/ SeeStop(w) \/ Exit(w) \/ SigTerm(w)
                                  \/ DequeueRaises(w))
              \/ (\E t \in Tasks : Produce(t)) \/ UNCHANGED vars
    BY <2>9, <2>10 DEF Start, SeeStop, Exit, SigTerm, DequeueRaises, Produce,
                       workerVars, vars
  <2> QED BY <1>2, <2>2, <2>5, <2>6, <2>7, <2>8, <2>10
      DEF Next, WorkersNext, ProcessStep, Fault
<1> QED BY <1>1, <1>2, Invariance, PTL DEF Spec
=============================================================================
