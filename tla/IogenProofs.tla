----------------------------- MODULE IogenProofs -----------------------------
(***************************************************************************)
(* Proofs about IogenJobs for any number of jobs, any dependencies, any    *)
(* queue depth and any interleaving of threads, signal and power cut.      *)
(***************************************************************************)
EXTENDS IogenJobs, TLAPS

After == {"finish", "unmark", "check", "setdone", "exited"}
Marked == After \ {"finish"}

(* How far the main thread is: which threads exist, and that the handler   *)
(* runs only once, while the generator runs.                               *)
Progress ==
  /\ \A j \in Jobs : pc[j] = "none" <=> next <= j
  /\ main = "idle" => state = "init" /\ next = 1
  /\ main # "idle" => state # "init"
  /\ main = "creating" => next <= NJobs
  /\ main \in {"wait", "cleanup"} => next = NJobs + 1
  /\ handler # "none" => handler \in Signals /\ signalled /\ main \in {"creating", "wait", "returned"}
  /\ main = "cleanup" => state \in {"done", "aborted"}
  /\ state = "aborted" => signalled
  /\ state = "aborting" => handler # "none" \/ main = "returned"

(* finished_job_mask holds exactly the jobs that have set their bit, and   *)
(* the generator is done only when all have.                               *)
MaskExact ==
  /\ \A j \in Jobs : j \in finished <=> pc[j] \in Marked
  /\ \A j \in Jobs : pc[j] = "setdone" => finished = Jobs
  /\ state = "done" => finished = Jobs

(* While the generator looks as if it ran and every bit is set, some       *)
(* thread has still to count them.                                         *)
CounterLeft ==
  finished = Jobs /\ IsRunning /\ handler = "none"
    => \E j \in Jobs : pc[j] \in {"unmark", "check", "setdone"}

(* Only a job in its loop or its drain has bios in flight (below SPOR      *)
(* level 3).                                                               *)
Drained ==
  SporLevel < 3 => \A j \in Jobs : inflight[j] > 0 => pc[j] \in {"loop", "drain"}

(* A job that has got past its wait depends on a job that has broadcast.   *)
DependencyEnded ==
  \A j \in Jobs :
    Depend[j] # j /\ pc[j] \notin {"none", "start", "wait"} => pc[Depend[j]] \in After

(* The threads that the handler has not joined yet, and those that it has. *)
Joined ==
  /\ ~signalled => \A j \in Jobs : thread[j] <=> pc[j] # "none"
  /\ handler # "none" =>
       \A j \in Jobs : joining <= j => (thread[j] <=> pc[j] # "none")
  /\ handler = "SIGINT" =>
       \A j \in Jobs : j < joining => pc[j] \in {"none", "exited"}

(* Without SIGUSR1 nothing is in flight once the generator has stopped.    *)
Stopped ==
  SporLevel < 3 /\ "SIGUSR1" \notin Signals /\ state \in {"done", "aborted"}
    => \A j \in Jobs : inflight[j] = 0

(* The inductive invariant. *)
Inv ==
  /\ TypeOK /\ Progress /\ MaskExact /\ CounterLeft /\ Drained
  /\ DependencyEnded /\ Joined /\ Stopped
-----------------------------------------------------------------------------
(* A thread that starts or begins to wait keeps the invariant. *)
LEMMA JobStartStep ==
  ASSUME Inv, NEW j \in Jobs, JobStart(j)
  PROVE  Inv'
<1>1. TypeOK'
  BY DEF Inv, TypeOK, Labels, JobStates, JobStart, Goto, mainVars
<1>2. Progress'
  BY DEF Inv, TypeOK, Progress, JobStart, Goto, mainVars
<1>3. MaskExact'
  BY DEF Inv, TypeOK, MaskExact, Marked, After, Progress, JobStart, Goto
<1>4. CounterLeft'
  BY DEF Inv, TypeOK, CounterLeft, IsRunning, MaskExact, Marked, After, JobStart,
     Goto, mainVars
<1>5. Drained'
  BY DEF Inv, TypeOK, Drained, JobStart, Goto
<1>6. DependencyEnded'
  BY DependAssumption DEF Inv, TypeOK, DependencyEnded, After, JobStart, Goto
<1>7. Joined'
  BY DEF Inv, TypeOK, Joined, Progress, JobStart, Goto, mainVars
<1>8. Stopped'
  BY DEF Inv, Stopped, JobStart
<1>9. QED
  BY <1>1, <1>2, <1>3, <1>4, <1>5, <1>6, <1>7, <1>8 DEF Inv

(* So does one that begins (or fails to), *)
LEMMA JobBeginStep ==
  ASSUME Inv, NEW j \in Jobs, JobBegin(j)
  PROVE  Inv'
<1>1. TypeOK'
  <2>1. pc' \in [Jobs -> Labels] /\ jstate' \in [Jobs -> JobStates] /\ running' \subseteq Jobs
    BY IogenParams DEF Inv, TypeOK, Labels, JobStates, JobBegin, Goto
  <2>2. QED
    BY <2>1 DEF Inv, TypeOK, JobBegin, jobVars, mainVars
<1>2. Progress'
  BY DEF Inv, TypeOK, Progress, JobBegin, Goto, mainVars
<1>3. MaskExact'
  BY DEF Inv, TypeOK, MaskExact, Marked, After, Progress, JobBegin, Goto
<1>4. CounterLeft'
  BY DEF Inv, TypeOK, CounterLeft, IsRunning, MaskExact, Marked, After, JobBegin,
     Goto, mainVars
<1>5. Drained'
  BY DEF Inv, TypeOK, Drained, JobBegin, Goto
<1>6. DependencyEnded'
  BY DependAssumption DEF Inv, TypeOK, DependencyEnded, After, JobBegin, Goto
<1>7. Joined'
  BY DEF Inv, TypeOK, Joined, Progress, JobBegin, Goto, mainVars
<1>8. Stopped'
  BY DEF Inv, Stopped, JobBegin
<1>9. QED
  BY <1>1, <1>2, <1>3, <1>4, <1>5, <1>6, <1>7, <1>8 DEF Inv

(* one that is told to stop, *)
LEMMA JobStopStep ==
  ASSUME Inv, NEW j \in Jobs, JobStop(j)
  PROVE  Inv'
<1>1. TypeOK'
  BY DEF Inv, TypeOK, Labels, JobStates, JobStop, Goto, mainVars
<1>2. Progress'
  BY DEF Inv, TypeOK, Progress, JobStop, Goto, mainVars
<1>3. MaskExact'
  BY DEF Inv, TypeOK, MaskExact, Marked, After, Progress, JobStop, Goto
<1>4. CounterLeft'
  BY DEF Inv, TypeOK, CounterLeft, IsRunning, MaskExact, Marked, After, JobStop, Goto,
     mainVars
<1>5. Drained'
  BY DEF Inv, TypeOK, Drained, JobStop, Goto
<1>6. DependencyEnded'
  BY DependAssumption DEF Inv, TypeOK, DependencyEnded, After, JobStop, Goto
<1>7. Joined'
  BY DEF Inv, TypeOK, Joined, Progress, JobStop, Goto, mainVars
<1>8. Stopped'
  BY DEF Inv, Stopped, JobStop
<1>9. QED
  BY <1>1, <1>2, <1>3, <1>4, <1>5, <1>6, <1>7, <1>8 DEF Inv

(* one whose bio ends, *)
LEMMA JobPollStep ==
  ASSUME Inv, NEW j \in Jobs, JobPoll(j)
  PROVE  Inv'
<1>1. TypeOK'
  <2>1. inflight' \in [Jobs -> 0 .. IoDepth]
    BY IogenParams DEF Inv, TypeOK, Labels, JobStates, JobPoll
  <2>2. QED
    BY <2>1 DEF Inv, TypeOK, JobPoll, jobVars, mainVars
<1>2. Drained'
  BY DEF Inv, TypeOK, Drained, JobPoll
<1>3. Stopped'
  BY DEF Inv, TypeOK, Stopped, JobPoll
<1>4. Progress' /\ MaskExact' /\ CounterLeft' /\ DependencyEnded' /\ Joined'
  BY DEF Inv, Progress, MaskExact, Marked, After, CounterLeft, IsRunning,
     DependencyEnded, Joined, JobPoll, mainVars
<1>5. QED
  BY <1>1, <1>2, <1>3, <1>4 DEF Inv

(* one that has drained its bios, *)
LEMMA JobDrainStep ==
  ASSUME Inv, NEW j \in Jobs, JobDrain(j)
  PROVE  Inv'
<1>1. TypeOK'
  BY DEF Inv, TypeOK, Labels, JobStates, JobDrain, Goto, mainVars
<1>2. Progress'
  BY DEF Inv, TypeOK, Progress, JobDrain, Goto, mainVars
<1>3. MaskExact'
  BY DEF Inv, TypeOK, MaskExact, Marked, After, Progress, JobDrain, Goto
<1>4. CounterLeft'
  BY DEF Inv, TypeOK, CounterLeft, IsRunning, MaskExact, Marked, After, JobDrain,
     Goto, mainVars
<1>5. Drained'
  <2>1. \A k \in Jobs : inflight[k] \in Int /\ SporLevel \in Int
    BY IogenParams DEF Inv, TypeOK
  <2>2. QED
    BY <2>1 DEF Inv, TypeOK, Drained, JobDrain, Goto
<1>6. DependencyEnded'
  BY DependAssumption DEF Inv, TypeOK, DependencyEnded, After, JobDrain, Goto
<1>7. Joined'
  BY DEF Inv, TypeOK, Joined, Progress, JobDrain, Goto, mainVars
<1>8. Stopped'
  BY DEF Inv, Stopped, JobDrain
<1>9. QED
  BY <1>1, <1>2, <1>3, <1>4, <1>5, <1>6, <1>7, <1>8 DEF Inv

(* one that wakes the jobs waiting for it, *)
LEMMA JobBroadcastStep ==
  ASSUME Inv, NEW j \in Jobs, JobBroadcast(j)
  PROVE  Inv'
<1>1. TypeOK'
  BY DEF Inv, TypeOK, Labels, JobStates, JobBroadcast, mainVars
<1>2. Progress'
  BY DEF Inv, TypeOK, Progress, JobBroadcast, mainVars
<1>3. MaskExact'
  BY DEF Inv, TypeOK, MaskExact, Marked, After, Progress, JobBroadcast
<1>4. CounterLeft'
  BY DEF Inv, TypeOK, CounterLeft, IsRunning, MaskExact, Marked, After, JobBroadcast,
     mainVars
<1>5. Drained'
  BY DEF Inv, TypeOK, Drained, JobBroadcast
<1>6. DependencyEnded'
  BY DependAssumption DEF Inv, TypeOK, DependencyEnded, After, JobBroadcast
<1>7. Joined'
  BY DEF Inv, TypeOK, Joined, Progress, JobBroadcast, mainVars
<1>8. Stopped'
  BY DEF Inv, Stopped, JobBroadcast
<1>9. QED
  BY <1>1, <1>2, <1>3, <1>4, <1>5, <1>6, <1>7, <1>8 DEF Inv

(* one that sets its bit, *)
LEMMA JobFinishStep ==
  ASSUME Inv, NEW j \in Jobs, JobFinish(j)
  PROVE  Inv'
<1>1. TypeOK'
  BY DEF Inv, TypeOK, Labels, JobStates, JobFinish, Goto, mainVars
<1>2. Progress'
  BY DEF Inv, TypeOK, Progress, JobFinish, Goto, mainVars
<1>3. MaskExact'
  BY DEF Inv, TypeOK, MaskExact, Marked, After, Progress, JobFinish, Goto
<1>4. CounterLeft'
  BY DEF Inv, TypeOK, CounterLeft, IsRunning, MaskExact, Marked, After, JobFinish,
     Goto, mainVars
<1>5. Drained'
  BY DEF Inv, TypeOK, Drained, JobFinish, Goto
<1>6. DependencyEnded'
  BY DependAssumption DEF Inv, TypeOK, DependencyEnded, After, JobFinish, Goto
<1>7. Joined'
  BY DEF Inv, TypeOK, Joined, Progress, JobFinish, Goto, mainVars
<1>8. Stopped'
  BY DEF Inv, Stopped, JobFinish
<1>9. QED
  BY <1>1, <1>2, <1>3, <1>4, <1>5, <1>6, <1>7, <1>8 DEF Inv

(* one that clears its running bit, *)
LEMMA JobUnmarkStep ==
  ASSUME Inv, NEW j \in Jobs, JobUnmark(j)
  PROVE  Inv'
<1>1. TypeOK'
  BY DEF Inv, TypeOK, Labels, JobStates, JobUnmark, Goto, mainVars
<1>2. Progress'
  BY DEF Inv, TypeOK, Progress, JobUnmark, Goto, mainVars
<1>3. MaskExact'
  BY DEF Inv, TypeOK, MaskExact, Marked, After, Progress, JobUnmark, Goto
<1>4. CounterLeft'
  BY DEF Inv, TypeOK, CounterLeft, IsRunning, MaskExact, Marked, After, JobUnmark,
     Goto, mainVars
<1>5. Drained'
  BY DEF Inv, TypeOK, Drained, JobUnmark, Goto
<1>6. DependencyEnded'
  BY DependAssumption DEF Inv, TypeOK, DependencyEnded, After, JobUnmark, Goto
<1>7. Joined'
  BY DEF Inv, TypeOK, Joined, Progress, JobUnmark, Goto, mainVars
<1>8. Stopped'
  BY DEF Inv, Stopped, JobUnmark
<1>9. QED
  BY <1>1, <1>2, <1>3, <1>4, <1>5, <1>6, <1>7, <1>8 DEF Inv

(* one that counts the bits, *)
LEMMA JobCheckStep ==
  ASSUME Inv, NEW j \in Jobs, JobCheck(j)
  PROVE  Inv'
<1>1. TypeOK'
  BY DEF Inv, TypeOK, Labels, JobStates, JobCheck, Goto, mainVars
<1>2. Progress'
  BY DEF Inv, TypeOK, Progress, JobCheck, Goto, mainVars
<1>3. MaskExact'
  BY DEF Inv, TypeOK, MaskExact, Marked, After, Progress, JobCheck, Goto
<1>4. CounterLeft'
  BY DEF Inv, TypeOK, CounterLeft, IsRunning, MaskExact, Marked, After, JobCheck,
     Goto, mainVars
<1>5. Drained'
  BY DEF Inv, TypeOK, Drained, JobCheck, Goto
<1>6. DependencyEnded'
  BY DependAssumption DEF Inv, TypeOK, DependencyEnded, After, JobCheck, Goto
<1>7. Joined'
  BY DEF Inv, TypeOK, Joined, Progress, JobCheck, Goto, mainVars
<1>8. Stopped'
  BY DEF Inv, Stopped, JobCheck
<1>9. QED
  BY <1>1, <1>2, <1>3, <1>4, <1>5, <1>6, <1>7, <1>8 DEF Inv

(* and the last one, which ends the run. *)
LEMMA JobSetDoneStep ==
  ASSUME Inv, NEW j \in Jobs, JobSetDone(j)
  PROVE  Inv'
<1>1. TypeOK'
  BY DEF Inv, TypeOK, Labels, JobStates, JobSetDone, Goto, mainVars
<1>2. Progress'
  <2>1. main # "idle"
    BY NJobsAssumption DEF Inv, TypeOK, Progress, Jobs, JobSetDone, Alive, Goto
  <2>2. QED
    BY <2>1 DEF Inv, TypeOK, Progress, JobSetDone, Alive, Goto, jobVars, mainVars
<1>3. MaskExact'
  BY DEF Inv, TypeOK, MaskExact, Marked, After, Progress, JobSetDone, Goto
<1>4. CounterLeft'
  BY DEF Inv, TypeOK, CounterLeft, IsRunning, MaskExact, Marked, After, JobSetDone,
     Goto, mainVars
<1>5. Drained'
  BY DEF Inv, TypeOK, Drained, JobSetDone, Goto
<1>6. DependencyEnded'
  BY DependAssumption DEF Inv, TypeOK, DependencyEnded, After, JobSetDone, Goto
<1>7. Joined'
  BY DEF Inv, TypeOK, Joined, Progress, JobSetDone, Goto, mainVars
<1>8. Stopped'
  <2>1. \A k \in Jobs : pc[k] \in Marked
    BY DEF Inv, MaskExact, JobSetDone, Goto
  <2>2. SporLevel < 3 => \A k \in Jobs : ~(inflight[k] > 0)
    BY <2>1 DEF Inv, Drained, Marked, After
  <2>3. \A k \in Jobs : inflight[k] \in Nat
    BY IogenParams DEF Inv, TypeOK
  <2>4. QED
    BY <2>2, <2>3 DEF Stopped, JobSetDone
<1>9. QED
  BY <1>1, <1>2, <1>3, <1>4, <1>5, <1>6, <1>7, <1>8 DEF Inv

(* A bio sent to the engine keeps it, since it needs a running generator. *)
LEMMA JobEnqueueStep ==
  ASSUME Inv, NEW j \in Jobs, JobEnqueue(j)
  PROVE  Inv'
<1>1. TypeOK'
  <2>1. pc' \in [Jobs -> Labels] /\ inflight' \in [Jobs -> 0 .. IoDepth]
    BY IogenParams DEF Inv, TypeOK, Labels, JobStates, JobEnqueue, Goto
  <2>2. QED
    BY <2>1 DEF Inv, TypeOK, JobEnqueue, jobVars, mainVars
<1>2. Progress'
  BY DEF Inv, TypeOK, Progress, JobEnqueue, Goto, mainVars
<1>3. MaskExact'
  BY DEF Inv, TypeOK, MaskExact, Marked, After, Progress, JobEnqueue, Goto
<1>4. CounterLeft'
  BY DEF Inv, TypeOK, CounterLeft, IsRunning, MaskExact, Marked, After, JobEnqueue,
     Goto, mainVars
<1>5. Drained'
  BY DEF Inv, TypeOK, Drained, JobEnqueue, Goto
<1>6. DependencyEnded'
  BY DependAssumption DEF Inv, TypeOK, DependencyEnded, After, JobEnqueue, Goto
<1>7. Joined'
  <2>1. \A k \in Jobs : pc[k] \in {"none", "exited"} => pc'[k] = pc[k]
    BY DEF Inv, TypeOK, JobEnqueue, Goto
  <2>2. \A k \in Jobs : pc[k] # "none" <=> pc'[k] # "none"
    BY DEF Inv, TypeOK, JobEnqueue, Goto
  <2>3. QED
    BY <2>1, <2>2 DEF Inv, Joined, JobEnqueue, mainVars
<1>8. Stopped'
  BY DEF Inv, TypeOK, Stopped, JobEnqueue, Goto
<1>9. QED
  BY <1>1, <1>2, <1>3, <1>4, <1>5, <1>6, <1>7, <1>8 DEF Inv

(* The timer touches nothing the invariant is about. *)
LEMMA AmountReachedStep ==
  ASSUME Inv, NEW j \in Jobs, AmountReached(j)
  PROVE  Inv'
<1>1. TypeOK'
  BY DEF Inv, TypeOK, Labels, JobStates, AmountReached, mainVars
<1>2. Progress' /\ MaskExact' /\ CounterLeft' /\ Drained' /\ DependencyEnded' /\ Joined' /\ Stopped'
  BY DEF Inv, Progress, MaskExact, Marked, After, CounterLeft, IsRunning, Drained,
     DependencyEnded, Joined, Stopped, AmountReached, mainVars
<1>3. QED
  BY <1>1, <1>2 DEF Inv

(* The process may exit on a miscompare, *)
LEMMA JobExitStep ==
  ASSUME Inv, NEW j \in Jobs, JobExit(j)
  PROVE  Inv'
<1>1. TypeOK'
  BY DEF Inv, TypeOK, Labels, JobStates, JobExit, jobVars
<1>2. Progress'
  BY DEF Inv, TypeOK, Progress, JobExit, jobVars
<1>3. MaskExact'
  BY DEF Inv, TypeOK, MaskExact, Marked, After, Progress, JobExit, jobVars
<1>4. CounterLeft'
  BY DEF Inv, TypeOK, CounterLeft, IsRunning, MaskExact, Marked, After, JobExit, jobVars
<1>5. Stopped'
  BY DEF Inv, TypeOK, Stopped, JobExit, jobVars
<1>6. Drained' /\ DependencyEnded' /\ Joined'
  BY DEF Inv, Drained, DependencyEnded, After, Joined, JobExit, jobVars
<1>7. QED
  BY <1>1, <1>2, <1>3, <1>4, <1>5, <1>6 DEF Inv

(* or on a timeout. *)
LEMMA JobTimeoutStep ==
  ASSUME Inv, NEW j \in Jobs, JobTimeout(j)
  PROVE  Inv'
<1>1. TypeOK'
  BY DEF Inv, TypeOK, Labels, JobStates, JobTimeout, jobVars
<1>2. Progress'
  <2>1. main # "idle"
    BY NJobsAssumption DEF Inv, TypeOK, Progress, Jobs, JobTimeout, Alive
  <2>2. QED
    BY <2>1 DEF Inv, TypeOK, Progress, JobTimeout, Alive, jobVars, mainVars
<1>3. MaskExact' /\ CounterLeft' /\ Drained' /\ DependencyEnded' /\ Joined' /\ Stopped'
  BY DEF Inv, MaskExact, Marked, After, CounterLeft, IsRunning, Drained,
     DependencyEnded, Joined, Stopped, JobTimeout, jobVars
<1>4. QED
  BY <1>1, <1>2, <1>3 DEF Inv

(* The main thread keeps it when it starts the generator, *)
LEMMA StartRunStep ==
  ASSUME Inv, StartRun
  PROVE  Inv'
<1>1. TypeOK'
  BY NJobsAssumption, IogenParams DEF Inv, TypeOK, Labels, JobStates, StartRun,
     jobVars, Jobs
<1>2. Progress'
  BY NJobsAssumption, IogenParams DEF Inv, TypeOK, Progress, StartRun, jobVars, Jobs
<1>3. MaskExact'
  BY NJobsAssumption, IogenParams DEF Inv, TypeOK, MaskExact, Marked, After, Progress,
     StartRun, jobVars, Jobs
<1>4. CounterLeft'
  BY NJobsAssumption, IogenParams DEF Inv, TypeOK, CounterLeft, IsRunning, MaskExact,
     Marked, After, Progress, StartRun, jobVars, Jobs
<1>5. Stopped'
  BY NJobsAssumption, IogenParams DEF Inv, TypeOK, Stopped, Progress, StartRun,
     jobVars, Jobs
<1>6. Drained' /\ DependencyEnded' /\ Joined'
  BY DEF Inv, Drained, DependencyEnded, After, Joined, StartRun, jobVars
<1>7. QED
  BY <1>1, <1>2, <1>3, <1>4, <1>5, <1>6 DEF Inv

(* creates a thread, *)
LEMMA CreateThreadStep ==
  ASSUME Inv, CreateThread
  PROVE  Inv'
<1>1. TypeOK'
  BY NJobsAssumption, IogenParams DEF Inv, TypeOK, Labels, JobStates, Progress,
     CreateThread, Jobs
<1>2. Progress'
  BY NJobsAssumption, IogenParams DEF Inv, TypeOK, Progress, CreateThread, Jobs
<1>3. MaskExact'
  <2>1. next \in Jobs
    BY NJobsAssumption DEF Inv, TypeOK, Progress, CreateThread, Jobs
  <2>2. pc[next] = "none"
    BY <2>1 DEF Inv, TypeOK, Progress, Jobs
  <2>3. next \notin finished
    BY <2>1, <2>2 DEF Inv, MaskExact, Marked, After
  <2>4. QED
    BY <2>1, <2>2, <2>3 DEF Inv, TypeOK, MaskExact, Marked, After, CreateThread
<1>4. CounterLeft'
  BY NJobsAssumption, IogenParams DEF Inv, TypeOK, CounterLeft, IsRunning, MaskExact,
     Marked, After, Progress, CreateThread, Jobs
<1>5. Drained'
  <2>1. pc[next] = "none" /\ next \in Jobs
    BY NJobsAssumption DEF Inv, TypeOK, Progress, CreateThread, Jobs
  <2>2. QED
    BY <2>1 DEF Inv, TypeOK, Drained, CreateThread
<1>6. DependencyEnded'
  BY NJobsAssumption, IogenParams DEF Inv, TypeOK, DependencyEnded, After, Progress,
     CreateThread, Jobs
<1>7. Joined'
  BY NJobsAssumption, IogenParams DEF Inv, TypeOK, Joined, Progress, CreateThread, Jobs
<1>8. Stopped'
  BY DEF Inv, Stopped, CreateThread
<1>9. QED
  BY <1>1, <1>2, <1>3, <1>4, <1>5, <1>6, <1>7, <1>8 DEF Inv

(* sees that the generator has stopped, *)
LEMMA LeaveLoopStep ==
  ASSUME Inv, LeaveLoop
  PROVE  Inv'
<1>1. TypeOK'
  BY NJobsAssumption, IogenParams DEF Inv, TypeOK, Labels, JobStates, LeaveLoop,
     IsRunning, jobVars, Jobs
<1>2. Progress'
  BY NJobsAssumption, IogenParams DEF Inv, TypeOK, Progress, LeaveLoop, IsRunning,
     jobVars, Jobs
<1>3. MaskExact' /\ CounterLeft' /\ Drained' /\ DependencyEnded' /\ Joined' /\ Stopped'
  BY DEF Inv, MaskExact, Marked, After, CounterLeft, IsRunning, Drained,
     DependencyEnded, Joined, Stopped, LeaveLoop, jobVars
<1>4. QED
  BY <1>1, <1>2, <1>3 DEF Inv

(* and returns. *)
LEMMA ReturnStep ==
  ASSUME Inv, Return
  PROVE  Inv'
<1>1. TypeOK'
  BY NJobsAssumption, IogenParams DEF Inv, TypeOK, Labels, JobStates, Return, jobVars, Jobs
<1>2. Progress'
  BY NJobsAssumption, IogenParams DEF Inv, TypeOK, Progress, Return, jobVars, Jobs
<1>3. MaskExact' /\ CounterLeft' /\ Drained' /\ DependencyEnded' /\ Joined' /\ Stopped'
  BY DEF Inv, MaskExact, Marked, After, CounterLeft, IsRunning, Drained,
     DependencyEnded, Joined, Stopped, Return, jobVars
<1>4. QED
  BY <1>1, <1>2, <1>3 DEF Inv

(* The handler keeps it when it joins a thread, *)
LEMMA JoinStep ==
  ASSUME Inv, Join
  PROVE  Inv'
<1>1. TypeOK'
  BY NJobsAssumption, IogenParams DEF Inv, TypeOK, Labels, JobStates, Join, jobVars, Jobs
<1>2. Joined'
  BY NJobsAssumption, IogenParams DEF Inv, TypeOK, Joined, Progress, Join, jobVars, Jobs
<1>3. Progress' /\ MaskExact' /\ CounterLeft' /\ Drained' /\ DependencyEnded' /\ Stopped'
  BY DEF Inv, Progress, MaskExact, Marked, After, CounterLeft, IsRunning, Drained,
     DependencyEnded, Stopped, Join, jobVars
<1>4. QED
  BY <1>1, <1>2, <1>3 DEF Inv

(* and when it returns, all threads being joined. *)
LEMMA HandlerReturnsStep ==
  ASSUME Inv, HandlerReturns
  PROVE  Inv'
<1>1. TypeOK'
  BY NJobsAssumption, IogenParams DEF Inv, TypeOK, Labels, JobStates, HandlerReturns,
     jobVars, Jobs
<1>2. Progress'
  BY NJobsAssumption, IogenParams DEF Inv, TypeOK, Progress, HandlerReturns, jobVars, Jobs
<1>3. MaskExact'
  BY NJobsAssumption, IogenParams DEF Inv, TypeOK, MaskExact, Marked, After, Progress,
     HandlerReturns, jobVars, Jobs
<1>4. CounterLeft'
  BY NJobsAssumption, IogenParams DEF Inv, TypeOK, CounterLeft, IsRunning, MaskExact,
     Marked, After, HandlerReturns, jobVars, Jobs
<1>5. Joined'
  BY NJobsAssumption, IogenParams DEF Inv, TypeOK, Joined, Progress, HandlerReturns,
     jobVars, Jobs
<1>6. Stopped'
  <2>1. SUFFICES ASSUME SporLevel < 3, "SIGUSR1" \notin Signals, NEW k \in Jobs
                 PROVE  inflight[k] = 0
    BY DEF Stopped, HandlerReturns, jobVars
  <2>2. handler = "SIGINT"
    BY <2>1 DEF Inv, TypeOK, Progress, HandlerReturns
  <2>3. k < joining
    BY NJobsAssumption DEF Inv, TypeOK, HandlerReturns, Jobs
  <2>4. pc[k] \in {"none", "exited"}
    BY <2>2, <2>3 DEF Inv, Joined
  <2>5. inflight[k] \in Nat
    BY IogenParams DEF Inv, TypeOK
  <2>6. QED
    BY <2>1, <2>4, <2>5 DEF Inv, Drained
<1>7. Drained' /\ DependencyEnded'
  BY DEF Inv, Drained, DependencyEnded, After, HandlerReturns, jobVars
<1>8. QED
  BY <1>1, <1>2, <1>3, <1>4, <1>5, <1>6, <1>7 DEF Inv

(* A power cut does not change what the host knows. *)
LEMMA PowerOffStep ==
  ASSUME Inv, PowerOff
  PROVE  Inv'
<1>1. TypeOK'
  BY NJobsAssumption, IogenParams DEF Inv, TypeOK, Labels, JobStates, PowerOff,
     jobVars, mainVars, Jobs
<1>2. Progress' /\ MaskExact' /\ CounterLeft' /\ Drained' /\ DependencyEnded' /\ Joined' /\ Stopped'
  BY DEF Inv, Progress, MaskExact, Marked, After, CounterLeft, IsRunning, Drained,
     DependencyEnded, Joined, Stopped, PowerOff, jobVars, mainVars
<1>3. QED
  BY <1>1, <1>2 DEF Inv

(* The arrival of a signal keeps it. *)
LEMMA SignalStep ==
  ASSUME Inv, NEW s \in Signals, Signal(s)
  PROVE  Inv'
<1>1. TypeOK'
  <2>1. handler' \in {"none", "SIGINT", "SIGUSR1"}
    BY IogenParams DEF Inv, TypeOK, Signal
  <2>2. joining' \in 1 .. NJobs + 1
    BY NJobsAssumption DEF Inv, TypeOK, Signal
  <2>3. aborted' \in {-1, 0, 1} /\ signalled' \in BOOLEAN
    BY DEF Inv, TypeOK, Signal
  <2>4. state' \in {"init", "running", "done", "aborting", "aborted"}
    BY DEF Inv, TypeOK, Signal
  <2>5. QED
    BY <2>1, <2>2, <2>3, <2>4 DEF Inv, TypeOK, Signal, jobVars
<1>2. Progress'
  BY NJobsAssumption, IogenParams DEF Inv, TypeOK, Progress, Signal, IsRunning,
     jobVars, Jobs
<1>3. MaskExact'
  BY NJobsAssumption, IogenParams DEF Inv, TypeOK, MaskExact, Marked, After, Progress,
     Signal, IsRunning, jobVars, Jobs
<1>4. CounterLeft'
  BY NJobsAssumption, IogenParams DEF Inv, TypeOK, CounterLeft, IsRunning, MaskExact,
     Marked, After, Signal, jobVars, Jobs
<1>5. Joined'
  BY NJobsAssumption, IogenParams DEF Inv, TypeOK, Joined, Progress, Signal,
     IsRunning, jobVars, Jobs
<1>6. Stopped'
  BY NJobsAssumption, IogenParams DEF Inv, TypeOK, Stopped, Signal, IsRunning, jobVars, Jobs
<1>7. Drained' /\ DependencyEnded'
  BY DEF Inv, Drained, DependencyEnded, After, Signal, jobVars
<1>8. QED
  BY <1>1, <1>2, <1>3, <1>4, <1>5, <1>6, <1>7 DEF Inv

(* The invariant holds initially. *)
LEMMA InvInit == Init => Inv
<1>1. SUFFICES ASSUME Init PROVE Inv
  OBVIOUS
<1>2. TypeOK
  <2>1. next \in 1 .. NJobs + 1 /\ joining \in 1 .. NJobs + 1
    BY <1>1, NJobsAssumption DEF Init
  <2>2. inflight \in [Jobs -> 0 .. IoDepth]
    BY <1>1, IogenParams DEF Init
  <2>3. pc \in [Jobs -> Labels] /\ jstate \in [Jobs -> JobStates]
    BY <1>1 DEF Init, Labels, JobStates
  <2>4. QED
    BY <1>1, <2>1, <2>2, <2>3 DEF Init, TypeOK
<1>3. Progress /\ Drained /\ DependencyEnded /\ Joined
  BY <1>1, NJobsAssumption DEF Init, Progress, Drained, DependencyEnded, Joined, Jobs
<1>4. MaskExact /\ CounterLeft /\ Stopped
  BY <1>1, NJobsAssumption DEF Jobs, Init, MaskExact, Marked, After, CounterLeft,
     IsRunning, Stopped
<1>5. QED
  BY <1>2, <1>3, <1>4 DEF Inv

(* Every step of main, the jobs, the handler and the device keeps it. *)
LEMMA InvNext == Inv /\ [Next]_vars => Inv'
<1>1. SUFFICES ASSUME Inv, [Next]_vars PROVE Inv'
  OBVIOUS
<1>2. CASE UNCHANGED vars
  BY <1>1, <1>2 DEF Inv, TypeOK, Progress, MaskExact, CounterLeft, IsRunning, Drained,
     DependencyEnded, Joined, Stopped, vars, jobVars, mainVars
<1>3. CASE Main
  BY <1>1, <1>3, StartRunStep, CreateThreadStep, LeaveLoopStep, ReturnStep, JoinStep,
     HandlerReturnsStep DEF Main
<1>4. CASE PowerOff
  BY <1>1, <1>4, PowerOffStep
<1>5. ASSUME NEW s \in Signals, Signal(s) PROVE Inv'
  BY <1>1, <1>5, SignalStep
<1>6. ASSUME NEW j \in Jobs, Job(j) PROVE Inv'
  BY <1>1, <1>6, JobStartStep, JobBeginStep, JobStopStep, JobPollStep, JobDrainStep,
     JobBroadcastStep, JobFinishStep, JobUnmarkStep, JobCheckStep, JobSetDoneStep DEF Job
<1>7. ASSUME NEW j \in Jobs, JobEnqueue(j) \/ AmountReached(j) \/ JobExit(j) \/ JobTimeout(j)
      PROVE  Inv'
  BY <1>1, <1>7, JobEnqueueStep, AmountReachedStep, JobExitStep, JobTimeoutStep
<1>8. QED
  BY <1>1, <1>2, <1>3, <1>4, <1>5, <1>6, <1>7 DEF Next

(* Inv is an inductive invariant of the threads. *)
THEOREM ThreadInvariant == Spec => []Inv
BY InvInit, InvNext, PTL DEF Spec

(* Type correctness, for any number of jobs. *)
THEOREM TypeCorrect == Spec => []TypeOK
<1>1. Inv => TypeOK
  BY DEF Inv
<1>2. QED
  BY <1>1, ThreadInvariant, PTL

(* The run is never left without a thread to end it: when all job threads  *)
(* have gone, one of them has set the state (iogen_job_end), or the signal *)
(* handler will.                                                           *)
THEOREM LastJobEnds == Spec => []LastJobEndsRun
<1>1. Inv => LastJobEndsRun
  <2>1. SUFFICES ASSUME Inv, \A j \in Jobs : pc[j] = "exited"
                 PROVE  ~IsRunning \/ handler # "none"
    BY DEF LastJobEndsRun
  <2>2. finished = Jobs
    BY <2>1 DEF Inv, TypeOK, MaskExact, Marked, After
  <2>3. QED
    BY <2>1, <2>2 DEF Inv, CounterLeft
<1>2. QED
  BY <1>1, ThreadInvariant, PTL

(* The generator is done only when every job has drained and set its bit.  *)
THEOREM DoneIsFinished == Spec => []DoneMeansFinished
<1>1. Inv => DoneMeansFinished
  BY DEF Inv, MaskExact, Marked, After, DoneMeansFinished
<1>2. QED
  BY <1>1, ThreadInvariant, PTL

(* A job starts after the last bio of the job it depends on was sent and,  *)
(* below SPOR level 3, has ended, for every graph (iogen_job_wait).        *)
THEOREM DependencyOrder == Spec => []InOrder
<1>1. Inv => InOrder
  <2>1. SUFFICES ASSUME Inv, NEW j \in Jobs, Depend[j] # j,
                        pc[j] \notin {"none", "start", "wait"}
                 PROVE  (SporLevel < 3 => inflight[Depend[j]] = 0)
                        /\ pc[Depend[j]] \in After
    BY DEF InOrder, After
  <2>2. pc[Depend[j]] \in After /\ Depend[j] \in Jobs
    BY <2>1, DependAssumption DEF Inv, DependencyEnded
  <2>3. SporLevel < 3 => ~(inflight[Depend[j]] > 0)
    BY <2>1, <2>2 DEF Inv, Drained, After
  <2>4. inflight[Depend[j]] \in Nat
    BY <2>1, <2>2, IogenParams DEF Inv, TypeOK
  <2>5. QED
    BY <2>2, <2>3, <2>4
<1>2. QED
  BY <1>1, ThreadInvariant, PTL

(* Below SPOR level 3, and without SIGUSR1, nothing is in flight when the  *)
(* main thread cleans up (iogen_stop joins the job threads).               *)
THEOREM CleanupAfterDrain ==
  ASSUME SporLevel < 3, "SIGUSR1" \notin Signals
  PROVE  Spec => []DrainedAtCleanup
<1>1. Inv => DrainedAtCleanup
  BY SporLevel < 3, "SIGUSR1" \notin Signals DEF Inv, Progress, Stopped, DrainedAtCleanup
<1>2. QED
  BY <1>1, ThreadInvariant, PTL
=============================================================================
