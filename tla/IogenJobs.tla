------------------------------ MODULE IogenJobs ------------------------------
(***************************************************************************)
(* The threads of one nbio process: main, which starts the job threads,    *)
(* waits until the generator no longer runs and cleans up; the job threads *)
(* (iogen_job_runner); and the signal handler, which runs on the main      *)
(* thread and joins the job threads (iogen_stop on SIGINT, iogen_abort on  *)
(* SIGUSR1).  What a job reads and writes is left to Iover: here a bio is  *)
(* one of inflight, and the device completes it or, once its power is off, *)
(* does not.                                                               *)
(*                                                                         *)
(* One iteration of a job's loop is one step: between the test of          *)
(* iogen->state and the enqueue it touches nothing that is shared here.    *)
(* The condition variable is modelled without spurious wake-ups.           *)
(***************************************************************************)
EXTENDS Integers, FiniteSets

CONSTANTS NJobs,     (* iogen->njobs                                       *)
          Depend,    (* per job, dependency_job_idx; its own for none      *)
          IoDepth,   (* iodepth                                            *)
          SporLevel, (* spor_level                                         *)
          Signals,   (* the signals that may be sent, one per run          *)
          StopOnTimeout, (* stop_on_timeout                                *)
          PowerCut   (* whether the device may lose its power              *)

Jobs == 1 .. NJobs

ASSUME NJobsAssumption == NJobs \in Nat \ {0}
ASSUME DependAssumption == Depend \in [Jobs -> Jobs]
ASSUME IogenParams ==
  /\ IoDepth \in Nat \ {0} /\ SporLevel \in 0 .. 4
  /\ Signals \subseteq {"SIGINT", "SIGUSR1"} /\ {StopOnTimeout, PowerCut} \subseteq BOOLEAN

VARIABLES state,    (* iogen->state                                        *)
          running,  (* running_job_mask                                    *)
          finished, (* finished_job_mask                                   *)
          pc,       (* per job, where its thread is                        *)
          jstate,   (* job->state                                          *)
          due,      (* per job, its amount is reached                      *)
          inflight, (* job->num_inflight                                   *)
          thread,   (* job->thread is set                                  *)
          main,     (* where the main thread is                            *)
          next,     (* the job to create                                   *)
          handler,  (* the signal being handled, or "none"                 *)
          joining,  (* the job to join                                     *)
          aborted,  (* main.c: aborted                                     *)
          signalled, powered

jobVars == <<pc, jstate, due, inflight>>
mainVars == <<thread, main, next, handler, joining, aborted, signalled>>
vars == <<state, running, finished, jobVars, mainVars, powered>>

Labels == {"none", "start", "wait", "begin", "loop", "drain", "broadcast", "finish",
           "unmark", "check", "setdone", "exited"}
JobStates == {"init", "waiting", "running", "done", "aborting", "aborted"}
Alive(j) == pc[j] \notin {"none", "exited"} /\ main # "returned"

(* iogen_init. *)
Init ==
  /\ state = "init" /\ running = {} /\ finished = {}
  /\ pc = [j \in Jobs |-> "none"] /\ jstate = [j \in Jobs |-> "init"]
  /\ due = [j \in Jobs |-> FALSE] /\ inflight = [j \in Jobs |-> 0]
  /\ thread = [j \in Jobs |-> FALSE]
  /\ main = "idle" /\ next = 1 /\ handler = "none" /\ joining = 1
  /\ aborted = 0 /\ signalled = FALSE /\ powered = TRUE

(* Thread j goes from label a to label b. *)
Goto(j, a, b) == Alive(j) /\ pc[j] = a /\ pc' = [pc EXCEPT ![j] = b]
-----------------------------------------------------------------------------
(* Mutants (see PROJECT.json): the last job is looked for before the bit   *)
(* is set, any job is the last, bios are left behind, a job does not wait  *)
(* or does not look at iogen->state, the queue is not bounded.             *)
JobFinishLate(j) ==
  /\ Goto(j, "finish", IF finished = Jobs THEN "setdone" ELSE "exited")
  /\ jstate' = [jstate EXCEPT ![j] = IF @ = "aborting" THEN "aborted" ELSE "done"]
  /\ finished' = finished \cup {j}
  /\ UNCHANGED <<state, running, due, inflight, mainVars, powered>>
JobCheckAny(j) ==
  /\ Goto(j, "check", "setdone")
  /\ UNCHANGED <<state, running, finished, jstate, due, inflight, mainVars, powered>>
JobDrainNot(j) ==
  /\ Goto(j, "drain", "broadcast")
  /\ UNCHANGED <<state, running, finished, jstate, due, inflight, mainVars, powered>>
JobStartNow(j) ==
  /\ Goto(j, "start", "begin")
  /\ UNCHANGED <<state, running, finished, jstate, due, inflight, mainVars, powered>>
JobStopBlind(j) ==
  /\ Goto(j, "loop", "drain") /\ due[j]
  /\ UNCHANGED <<state, running, finished, jstate, due, inflight, mainVars, powered>>
JobEnqueueMore(j) ==
  /\ state = "running" /\ ~due[j] /\ inflight[j] <= IoDepth
  /\ Goto(j, "loop", "loop") /\ inflight' = [inflight EXCEPT ![j] = @ + 1]
  /\ UNCHANGED <<state, running, finished, jstate, due, mainVars, powered>>

(* A job with a dependency waits on the condition of that job; it does not *)
(* look whether that job has ended already (iogen_job_wait).               *)
JobStart(j) ==
  /\ Goto(j, "start", IF Depend[j] = j THEN "begin" ELSE "wait")
  /\ jstate' = IF Depend[j] = j THEN jstate ELSE [jstate EXCEPT ![j] = "waiting"]
  /\ UNCHANGED <<state, running, finished, due, inflight, mainVars, powered>>

(* iogen_job_begin; the engine's begin may fail. *)
JobBegin(j) ==
  /\ \/ Goto(j, "begin", "loop") /\ jstate' = [jstate EXCEPT ![j] = "running"]
     \/ Goto(j, "begin", "broadcast") /\ jstate' = [jstate EXCEPT ![j] = "aborting"]
  /\ running' = running \cup {j}
  /\ UNCHANGED <<state, finished, due, inflight, mainVars, powered>>

(* iogen_job_should_stop. *)
JobStop(j) ==
  /\ Goto(j, "loop", "drain")
  /\ state # "running" \/ due[j]
  /\ jstate' = IF state # "running" THEN [jstate EXCEPT ![j] = "aborting"] ELSE jstate
  /\ UNCHANGED <<state, running, finished, due, inflight, mainVars, powered>>

(* Another iteration: a bio goes to the engine, or the engine refuses it   *)
(* and the loop is left.                                                   *)
JobEnqueue(j) ==
  /\ state = "running" /\ ~due[j] /\ inflight[j] < IoDepth
  /\ \/ Goto(j, "loop", "loop") /\ inflight' = [inflight EXCEPT ![j] = @ + 1]
     \/ Goto(j, "loop", "drain") /\ UNCHANGED inflight
  /\ UNCHANGED <<state, running, finished, jstate, due, mainVars, powered>>

(* A poll of the engine, in the loop or in the drain, ends a bio.          *)
JobPoll(j) ==
  /\ Alive(j) /\ powered /\ inflight[j] > 0
  /\ pc[j] = "loop" \/ (pc[j] = "drain" /\ SporLevel < 3)
  /\ inflight' = [inflight EXCEPT ![j] = @ - 1]
  /\ UNCHANGED <<state, running, finished, pc, jstate, due, mainVars, powered>>

(* bio_end when iover_submit fails: iogen_cancel and exit(1). *)
JobExit(j) ==
  /\ Alive(j) /\ powered /\ inflight[j] > 0
  /\ pc[j] = "loop" \/ (pc[j] = "drain" /\ SporLevel < 3)
  /\ state' = "aborting" /\ main' = "returned"
  /\ UNCHANGED <<running, finished, jobVars, thread, next, handler, joining,
                 aborted, signalled, powered>>

(* A bio is in flight for longer than the timeout parameter. *)
JobTimeout(j) ==
  /\ StopOnTimeout /\ Alive(j) /\ pc[j] = "loop" /\ inflight[j] > 0
  /\ main' = "returned"
  /\ UNCHANGED <<state, running, finished, jobVars, thread, next, handler, joining,
                 aborted, signalled, powered>>

(* The drain ends; at SPOR level 3 at once. *)
JobDrain(j) ==
  /\ Goto(j, "drain", "broadcast")
  /\ inflight[j] = 0 \/ SporLevel >= 3
  /\ UNCHANGED <<state, running, finished, jstate, due, inflight, mainVars, powered>>

(* iogen_job_end wakes the jobs that wait for this one now.                *)
JobBroadcast(j) ==
  /\ Alive(j) /\ pc[j] = "broadcast"
  /\ pc' = [k \in Jobs |-> IF k = j THEN "finish"
                           ELSE IF pc[k] = "wait" /\ Depend[k] = j THEN "begin" ELSE pc[k]]
  /\ UNCHANGED <<state, running, finished, jstate, due, inflight, mainVars, powered>>

JobFinish(j) ==
  /\ Goto(j, "finish", "unmark")
  /\ jstate' = [jstate EXCEPT ![j] = IF @ = "aborting" THEN "aborted" ELSE "done"]
  /\ finished' = finished \cup {j}
  /\ UNCHANGED <<state, running, due, inflight, mainVars, powered>>

JobUnmark(j) ==
  /\ Goto(j, "unmark", "check")
  /\ running' = running \ {j}
  /\ UNCHANGED <<state, finished, jstate, due, inflight, mainVars, powered>>

(* The last job declares the generator done. *)
JobCheck(j) ==
  /\ Goto(j, "check", IF finished = Jobs THEN "setdone" ELSE "exited")
  /\ UNCHANGED <<state, running, finished, jstate, due, inflight, mainVars, powered>>

JobSetDone(j) ==
  /\ Goto(j, "setdone", "exited")
  /\ state' = "done"
  /\ UNCHANGED <<running, finished, jstate, due, inflight, mainVars, powered>>

(* The steps of a thread towards its end. *)
Job(j) ==
  \/ JobStart(j) \/ JobBegin(j) \/ JobStop(j) \/ JobPoll(j)
  \/ JobDrain(j) \/ JobBroadcast(j) \/ JobFinish(j) \/ JobUnmark(j)
  \/ JobCheck(j) \/ JobSetDone(j)

(* The amount of the job is reached: its timer ends, or enough was sent.   *)
(* Whether this ever happens is open: an amount may be infinite.           *)
AmountReached(j) ==
  /\ Alive(j) /\ pc[j] = "loop" /\ ~due[j]
  /\ due' = [due EXCEPT ![j] = TRUE]
  /\ UNCHANGED <<state, running, finished, pc, jstate, inflight, mainVars, powered>>

PowerOff ==
  /\ PowerCut /\ powered /\ main # "returned"
  /\ powered' = FALSE
  /\ UNCHANGED <<state, running, finished, jobVars, mainVars>>
-----------------------------------------------------------------------------
(* iogen_start. *)
StartRun ==
  /\ main = "idle" /\ handler = "none"
  /\ main' = "creating" /\ state' = "running"
  /\ UNCHANGED <<running, finished, jobVars, thread, next, handler, joining, aborted,
                 signalled, powered>>

CreateThread ==
  /\ main = "creating" /\ handler = "none"
  /\ thread' = [thread EXCEPT ![next] = TRUE]
  /\ pc' = [pc EXCEPT ![next] = "start"]
  /\ next' = next + 1
  /\ main' = IF next = NJobs THEN "wait" ELSE "creating"
  /\ UNCHANGED <<state, running, finished, jstate, due, inflight, handler, joining,
                 aborted, signalled, powered>>

(* iogen_running, tested once a second. *)
IsRunning == state \in {"running", "aborting"}

LeaveLoop ==
  /\ main = "wait" /\ handler = "none" /\ ~IsRunning
  /\ main' = "cleanup"
  /\ UNCHANGED <<state, running, finished, jobVars, thread, next, handler, joining,
                 aborted, signalled, powered>>

(* cleanup or cleanup_spo, and the end of the process. *)
Return ==
  /\ main = "cleanup" /\ handler = "none"
  /\ main' = "returned"
  /\ UNCHANGED <<state, running, finished, jobVars, thread, next, handler, joining,
                 aborted, signalled, powered>>

(* signal_handler interrupts the main thread. *)
Signal(s) ==
  /\ s \in Signals /\ ~signalled /\ main # "returned"
  /\ signalled' = TRUE
  /\ IF IsRunning
       THEN state' = "aborting" /\ handler' = s /\ joining' = 1 /\ aborted' = 1
       ELSE aborted' = -1 /\ UNCHANGED <<state, handler, joining>>
  /\ UNCHANGED <<running, finished, jobVars, thread, main, next, powered>>

(* Mutant: iogen_abort waits like iogen_stop. *)
JoinWaits ==
  /\ handler # "none" /\ main # "returned" /\ joining <= NJobs
  /\ thread[joining] => pc[joining] = "exited"
  /\ thread' = [thread EXCEPT ![joining] = FALSE]
  /\ joining' = joining + 1
  /\ UNCHANGED <<state, running, finished, jobVars, main, next, handler, aborted,
                 signalled, powered>>

(* The handler joins the next thread: iogen_stop waits for its end,        *)
(* iogen_abort for one second.  A thread not created yet is passed over.   *)
Join ==
  /\ handler # "none" /\ main # "returned" /\ joining <= NJobs
  /\ thread[joining] => pc[joining] = "exited" \/ handler = "SIGUSR1"
  /\ thread' = [thread EXCEPT ![joining] = FALSE]
  /\ joining' = joining + 1
  /\ UNCHANGED <<state, running, finished, jobVars, main, next, handler, aborted,
                 signalled, powered>>

(* Every thread is joined or given up; run() goes on where it was. *)
HandlerReturns ==
  /\ handler # "none" /\ main # "returned" /\ joining > NJobs
  /\ state' = "aborted" /\ handler' = "none"
  /\ UNCHANGED <<running, finished, jobVars, thread, main, next, joining, aborted,
                 signalled, powered>>

Main == StartRun \/ CreateThread \/ LeaveLoop \/ Return \/ Join \/ HandlerReturns

Next ==
  \/ Main \/ PowerOff \/ \E s \in Signals : Signal(s)
  \/ \E j \in Jobs :
       Job(j) \/ JobEnqueue(j) \/ AmountReached(j) \/ JobExit(j) \/ JobTimeout(j)

Spec == Init /\ [][Next]_vars

(* Threads are scheduled and a powered device completes what it is given.  *)
Fairness == WF_vars(Main) /\ \A j \in Jobs : WF_vars(Job(j))
FairSpec == Spec /\ Fairness
-----------------------------------------------------------------------------
(* Type correctness. *)
TypeOK ==
  /\ state \in {"init", "running", "done", "aborting", "aborted"}
  /\ running \subseteq Jobs /\ finished \subseteq Jobs
  /\ pc \in [Jobs -> Labels] /\ jstate \in [Jobs -> JobStates]
  /\ due \in [Jobs -> BOOLEAN] /\ inflight \in [Jobs -> 0 .. IoDepth]
  /\ thread \in [Jobs -> BOOLEAN]
  /\ main \in {"idle", "creating", "wait", "cleanup", "returned"} /\ next \in 1 .. NJobs + 1
  /\ handler \in {"none", "SIGINT", "SIGUSR1"} /\ joining \in 1 .. NJobs + 1
  /\ aborted \in {-1, 0, 1} /\ signalled \in BOOLEAN /\ powered \in BOOLEAN

(* The generator never looks as if it ran once every job thread has gone:  *)
(* whichever interleaving the two mask updates and the count of the last   *)
(* threads take, one of them sets the state (iogen_job_end), unless the    *)
(* handler is about to.  Otherwise the main thread would wait for ever.    *)
LastJobEndsRun ==
  (\A j \in Jobs : pc[j] = "exited") => ~IsRunning \/ handler # "none"

(* The generator is done only when every job has drained its bios and is   *)
(* marked finished: the main thread does not clean up under running jobs.  *)
DoneMeansFinished ==
  state = "done" =>
    \A j \in Jobs : j \in finished /\ pc[j] \in {"unmark", "check", "setdone", "exited"}

(* When the main thread cleans up, no job has a bio in flight: cleanup_spo *)
(* says "spo level 1, 2 waits completions for all write requests".         *)
DrainedAtCleanup ==
  main = "cleanup" => \A j \in Jobs : inflight[j] = 0

(* A job with a dependency generates its first bio after the job it        *)
(* depends on has sent its last one ("dependency=writer") and, below SPOR  *)
(* level 3, after that one has ended too.                                  *)
InOrder ==
  \A j \in Jobs :
    Depend[j] # j /\ pc[j] \notin {"none", "start", "wait"}
      => (SporLevel < 3 => inflight[Depend[j]] = 0)
         /\ pc[Depend[j]] \in {"finish", "unmark", "check", "setdone", "exited"}

(* If no job stays in its loop for ever without reaching its amount, the   *)
(* run ends: nbio returns.                                                 *)
Terminates ==
  (\A j \in Jobs : []<>(pc[j] # "loop" \/ due[j])) => <>(main = "returned")

(* A signal that finds the generator running ends the run, whatever the    *)
(* job threads are doing and, for SIGUSR1, even if the device is off.  (A  *)
(* signal before iogen_start is noted in aborted and otherwise ignored.)   *)
SignalEndsRun == (aborted = 1) ~> (main = "returned")
=============================================================================
