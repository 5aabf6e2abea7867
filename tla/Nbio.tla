-------------------------------- MODULE Nbio --------------------------------
(***************************************************************************)
(* A process of nbio from validate to the end of main, and the journals    *)
(* that the next process finds: main.c (validate, prepare, cleanup,        *)
(* cleanup_spo), the initialisation and exit of iogen.c, iover.c and of    *)
(* the engines.  What happens between start and end of the generator is    *)
(* one state here (IogenJobs, JobRunner and Iover say what it is).         *)
(*                                                                         *)
(* Anything that is acquired may fail, MaxFails times; the process may be  *)
(* killed, and the device may lose its power under it.                     *)
(***************************************************************************)
EXTENDS Integers, Sequences, FiniteSets

CONSTANTS Setups,    (* parameter files: jobs, journals, level, logs       *)
          MaxProcs,  (* bound on processes, one after the other            *)
          MaxFails,  (* bound on failures                                  *)
          MaxWork    (* bound on changes of a journal by one process       *)

Kinds == {"none", "file", "mmap", "shm"}  (* of a namespace's journal      *)
Files == {"file", "mmap"}
(* Namespaces come from the jobs: each has at least one. *)
ASSUME SetupsAssumption ==
  \A s \in Setups :
    /\ s.level \in 0 .. 3 /\ s.nhist \in Nat /\ s.skip \in BOOLEAN
    /\ s.logs \subseteq {"iolog", "smartlog", "iotrace"}
    /\ s.kinds \in Seq(Kinds) /\ Len(s.jobs) \in Nat \ {0}
    /\ \A j \in 1 .. Len(s.jobs) :
         s.jobs[j].ns \in 1 .. Len(s.kinds) /\ s.jobs[j].engine \in {"spdk", "libaio", "null"}
    /\ \A n \in 1 .. Len(s.kinds) : \E j \in 1 .. Len(s.jobs) : s.jobs[j].ns = n
ASSUME BoundsAssumption == MaxProcs \in Nat \ {0} /\ {MaxFails, MaxWork} \subseteq Nat

VARIABLES setup,   (* the parameters of this process                       *)
          pc, idx, (* where main is, and in which iteration                *)
          io,      (* engines; nr_instances and g_controllers of spdkio.c  *)
          iovers,  (* per namespace, its verifier                          *)
          mem,     (* per namespace, the journal the verifier works on     *)
          open,    (* what prepare has opened                              *)
          run,     (* how the run ended: signal, bios in flight, power cut *)
          image,   (* per namespace, the journal outside of the process    *)
          powered, (* the device has power                                 *)
          last,    (* ghost: per namespace, the journal as last written    *)
          procs, fails

vars == <<setup, pc, idx, io, iovers, mem, open, run, image, powered, last, procs, fails>>

Jobs == 1 .. Len(setup.jobs)
Namespaces == 1 .. Len(setup.kinds)
Probe == <<"probe", 0>>  (* the local variable engine of validate *)
NsEngine(n) == <<"ns", n>>
JobEngine(j) == <<"job", j>>
EnginesOf(s) ==
  {Probe} \cup {NsEngine(n) : n \in 1 .. Len(s.kinds)} \cup {JobEngine(j) : j \in 1 .. Len(s.jobs)}
Engines == EnginesOf(setup)

(* The first job of a namespace opens the engine of the namespace. *)
FirstJob(n) == CHOOSE j \in Jobs : setup.jobs[j].ns = n /\ \A k \in 1 .. j - 1 : setup.jobs[k].ns # n
IsSpdk(e) ==
  "spdk" = CASE e[1] = "probe" -> setup.jobs[idx].engine
             [] e[1] = "ns" -> setup.jobs[FirstJob(e[2])].engine
             [] e[1] = "job" -> setup.jobs[e[2]].engine

NewJournal(nhist) == [state |-> "good", nhist |-> nhist, desc |-> 0, ts |-> 0]
Absent == [state |-> "absent", nhist |-> 0, desc |-> 0, ts |-> 0]
NoEngines(s) == [state |-> [e \in EnginesOf(s) |-> "none"], nr |-> 0, attached |-> FALSE]
NotRun == [signal |-> "none", flight |-> FALSE, cut |-> FALSE, res |-> 0]
Init ==
  /\ setup \in Setups /\ pc = "validate" /\ idx = 1
  /\ io = NoEngines(setup) /\ open = {} /\ run = NotRun
  /\ iovers = [n \in Namespaces |-> "none"]
  /\ mem = [n \in Namespaces |-> NewJournal(setup.nhist)]
  /\ image = [n \in Namespaces |-> Absent] /\ last = [n \in Namespaces |-> NewJournal(setup.nhist)]
  /\ powered = TRUE /\ procs = 1 /\ fails = 0
-----------------------------------------------------------------------------
(* Mutant: only the instance that probes is counted. *)
OpenedOnce(i, e) ==
  [state |-> [i.state EXCEPT ![e] = "open"],
   nr |-> IF IsSpdk(e) /\ i.nr = 0 THEN 1 ELSE i.nr, attached |-> i.attached \/ IsSpdk(e)]

(* ioengine_ops.init.  The first instance of spdkio probes and attaches    *)
(* the controllers; all instances are counted.                             *)
Opened(i, e) ==
  [state |-> [i.state EXCEPT ![e] = "open"],
   nr |-> IF IsSpdk(e) THEN i.nr + 1 ELSE i.nr, attached |-> i.attached \/ IsSpdk(e)]

(* init fails: without a trace, or in spdkio after it has been counted.    *)
InitFailed(i, e) ==
  {i} \cup (IF IsSpdk(e) THEN {[i EXCEPT !.nr = @ + 1, !.attached = TRUE]} ELSE {})

(* ioengine_ops.exit of the engines E.  The last instance of spdkio        *)
(* detaches the controllers.  Exit of what is not open frees it again.     *)
Exited(i, E) ==
  LET k == Cardinality({e \in E : IsSpdk(e)}) IN
  [state |-> [e \in DOMAIN i.state |->
                IF e \notin E THEN i.state[e]
                ELSE IF i.state[e] = "open" THEN "closed" ELSE "dangling"],
   nr |-> i.nr - k, attached |-> i.attached /\ ~(i.nr > 0 /\ k >= i.nr)]

JobEngines == {JobEngine(j) : j \in Jobs}
Fail == fails < MaxFails /\ fails' = fails + 1
Over(res) == pc' = "end" /\ run' = [run EXCEPT !.res = res]

ProcessOnly == UNCHANGED <<setup, image, powered, last, procs>>
-----------------------------------------------------------------------------
(* validate, for job idx: the engine is opened to identify the namespace,  *)
(* a namespace seen first gets an engine of its own, the parameters are    *)
(* checked and bound, the first engine is closed.                          *)
ProbeOpen ==
  /\ pc = "validate" /\ pc' = "identify" /\ io' = Opened(io, Probe)
  /\ UNCHANGED <<idx, iovers, mem, open, run, fails>> /\ ProcessOnly
Identify ==
  /\ pc = "identify"
  /\ pc' = IF io.state[NsEngine(setup.jobs[idx].ns)] = "none" THEN "ns_open" ELSE "bind"
  /\ UNCHANGED <<idx, io, iovers, mem, open, run, fails>> /\ ProcessOnly
NsOpen ==
  /\ pc = "ns_open" /\ pc' = "bind" /\ io' = Opened(io, NsEngine(setup.jobs[idx].ns))
  /\ UNCHANGED <<idx, iovers, mem, open, run, fails>> /\ ProcessOnly

(* Mutant: the engine of validate stays open. *)
BindLeaks ==
  /\ pc = "bind" /\ UNCHANGED io
  /\ IF idx < Len(setup.jobs) THEN pc' = "validate" /\ idx' = idx + 1
                              ELSE pc' = "iovers" /\ idx' = 1
  /\ UNCHANGED <<iovers, mem, open, run, fails>> /\ ProcessOnly

Bind ==
  /\ pc = "bind" /\ io' = Exited(io, {Probe})
  /\ IF idx < Len(setup.jobs) THEN pc' = "validate" /\ idx' = idx + 1
                              ELSE pc' = "iovers" /\ idx' = 1
  /\ UNCHANGED <<iovers, mem, open, run, fails>> /\ ProcessOnly

(* goto exit: no engine is closed. *)
ValidateFails ==
  /\ Fail /\ Over(-1)
  /\ \/ pc = "validate" /\ io' \in InitFailed(io, Probe)
     \/ pc \in {"identify", "bind"} /\ UNCHANGED io
     \/ pc = "ns_open" /\ io' \in InitFailed(io, NsEngine(setup.jobs[idx].ns))
  /\ UNCHANGED <<idx, iovers, mem, open>> /\ ProcessOnly
-----------------------------------------------------------------------------
(* prepare: one verifier per namespace (iover_init).  A journal that does  *)
(* not exist is created; one that does must have the size of the ring.     *)
Kind(n) == setup.kinds[n]
Loaded(n) == IF image[n].state = "absent" THEN NewJournal(setup.nhist) ELSE image[n]
Valid(n) == Loaded(n).state = "good" /\ Loaded(n).nhist = setup.nhist
IoverOpen ==
  /\ pc = "iovers" /\ (Kind(idx) = "none" \/ Valid(idx))
  /\ iovers' = [iovers EXCEPT ![idx] = "open"]
  /\ mem' = IF Kind(idx) = "none" THEN mem ELSE [mem EXCEPT ![idx] = Loaded(idx)]
  /\ image' = IF Kind(idx) = "none" THEN image ELSE [image EXCEPT ![idx] = Loaded(idx)]
  /\ last' = IF image[idx].state = "absent" THEN [last EXCEPT ![idx] = mem'[idx]] ELSE last
  /\ IF idx < Len(setup.kinds) THEN pc' = pc /\ idx' = idx + 1 ELSE pc' = "jobs" /\ idx' = 1
  /\ UNCHANGED <<setup, powered, procs, io, open, run, fails>>

(* iover_init fails (the file is left short if it could not be written to  *)
(* its end), and prepare frees the verifiers without their exit.           *)
IoverFails ==
  /\ pc = "iovers" /\ Over(-1)
  /\ \/ Fail /\ UNCHANGED image
     \/ /\ Fail /\ Kind(idx) \in Files /\ image[idx].state = "absent"
        /\ image' = [image EXCEPT ![idx].state = "short"]
     \/ Kind(idx) # "none" /\ ~Valid(idx) /\ UNCHANGED <<image, fails>>
  /\ UNCHANGED <<setup, powered, last, procs, idx, io, iovers, mem, open>>

(* A file that is short: pread returns 0 for ever; in mapped memory a page *)
(* behind its end is a bus error.                                          *)
ShortFile ==
  /\ pc = "iovers" /\ image[idx].state = "short" /\ Kind(idx) \in Files
  /\ pc' = IF Kind(idx) = "file" THEN "hung" ELSE "crashed"
  /\ UNCHANGED <<idx, io, iovers, mem, open, run, fails>> /\ ProcessOnly

(* No memory for the verifiers: prepare returns 0, and run finds no jobs   *)
(* and no accounts.  No memory for the smart log: it is cleared at NULL.   *)
MemoryMissing ==
  /\ pc \in {"iovers", "steps"} /\ idx = 1 /\ Fail /\ pc' = "crashed"
  /\ UNCHANGED <<idx, io, iovers, mem, open, run>> /\ ProcessOnly

(* iover_exit: a file gets the descriptors and the timestamp, mapped       *)
(* memory has the descriptors already, shared memory is detached.          *)
Saved(n) ==
  IF iovers[n] = "open" /\ Kind(n) \in Files
    THEN [image[n] EXCEPT !.desc = mem[n].desc, !.ts = mem[n].ts] ELSE image[n]
ExitIovers(N) ==
  /\ image' = [n \in Namespaces |-> IF n \in N THEN Saved(n) ELSE image[n]]
  /\ iovers' = [n \in Namespaces |-> IF n \in N THEN "closed" ELSE iovers[n]]

(* iogen_init: iogen_job_init for each job. *)
JobOpen ==
  /\ pc = "jobs" /\ io' = Opened(io, JobEngine(idx))
  /\ IF idx < Len(setup.jobs) THEN pc' = pc /\ idx' = idx + 1 ELSE pc' = "steps" /\ idx' = 1
  /\ UNCHANGED <<iovers, mem, open, run, fails>> /\ ProcessOnly

(* Mutant: the engine whose init failed keeps its ops. *)
JobFailsWithOps ==
  /\ pc = "jobs" /\ Fail /\ Over(-1) /\ ExitIovers(Namespaces)
  /\ \E i \in InitFailed(io, JobEngine(idx)) : io' = Exited(i, {JobEngine(j) : j \in 1 .. idx})
  /\ UNCHANGED <<setup, powered, last, procs, idx, mem, open>>

(* A job cannot be initialised.  The engines of the jobs that have one are *)
(* closed, its own too if only its bios or buffers are missing; then the   *)
(* verifiers.  The engines of the namespaces stay open.                    *)
JobFails ==
  /\ pc = "jobs" /\ Fail /\ Over(-1) /\ ExitIovers(Namespaces)
  /\ \/ \E i \in InitFailed(io, JobEngine(idx)) :
          io' = Exited(i, {JobEngine(j) : j \in 1 .. idx - 1})
     \/ io' = Exited(Opened(io, JobEngine(idx)), {JobEngine(j) : j \in 1 .. idx})
  /\ UNCHANGED <<setup, powered, last, procs, idx, mem, open>>

(* The rest of prepare, in this order; a log only if its parameter is set, *)
(* the power switch from SPOR level 2 on.                                  *)
Steps == <<"iolog", "smartlog", "iotrace", "power", "accts">>
Wanted == setup.logs \cup (IF setup.level >= 2 THEN {"power"} ELSE {}) \cup {"accts"}
Logs == {"iolog", "smartlog", "iotrace"}
NextStep == IF idx < Len(Steps) THEN pc' = pc /\ idx' = idx + 1 ELSE pc' = "run" /\ idx' = 1
StepDone ==
  /\ pc = "steps" /\ NextStep
  /\ open' = IF Steps[idx] \in Wanted THEN open \cup {Steps[idx]} ELSE open
  /\ UNCHANGED <<io, iovers, mem, run, fails>> /\ ProcessOnly

(* A step fails: all logs before it are closed, the ones that were never   *)
(* opened too, which is a crash; then jobs and verifiers.                  *)
StepFails ==
  /\ pc = "steps" /\ Steps[idx] \in Wanted /\ Fail
  /\ IF \E k \in 1 .. idx - 1 : Steps[k] \in Logs \ open
       THEN /\ pc' = "crashed" /\ UNCHANGED <<setup, powered, procs, io, iovers, image, open, run>>
       ELSE /\ Over(-1) /\ ExitIovers(Namespaces) /\ io' = Exited(io, JobEngines) /\ open' = {}
            /\ UNCHANGED <<setup, powered, procs>>
  /\ UNCHANGED <<last, idx, mem>>
-----------------------------------------------------------------------------
(* A bio changes the descriptors of a namespace and its timestamp; what is *)
(* shared or mapped changes at once.                                       *)
Work ==
  /\ pc = "run" /\ powered
  /\ \E n \in Namespaces :
       /\ mem[n].desc < MaxWork * procs
       /\ mem' = [mem EXCEPT ![n].desc = @ + 1, ![n].ts = @ + 1]
       /\ last' = [last EXCEPT ![n] = mem'[n]]
       /\ image' = IF Kind(n) \in {"shm", "mmap"} THEN [image EXCEPT ![n].desc = mem'[n].desc]
                                                  ELSE image
  /\ UNCHANGED <<setup, pc, idx, io, iovers, open, run, powered, procs, fails>>

(* The test cuts the power of the device. *)
PowerLost ==
  /\ pc = "run" /\ powered /\ powered' = FALSE
  /\ UNCHANGED <<setup, pc, idx, io, iovers, mem, open, run, image, last, procs, fails>>

(* SIGINT (iogen_stop) or SIGUSR1 (iogen_abort), once. *)
Signal ==
  /\ pc = "run" /\ run.signal = "none"
  /\ \E s \in {"int", "usr1"} : run' = [run EXCEPT !.signal = s]
  /\ UNCHANGED <<setup, pc, idx, io, iovers, mem, open, image, powered, last, procs, fails>>

(* The generator has ended.  From level 3 on, and after SIGUSR1, it does   *)
(* not wait for what is in flight.  Without power only SIGUSR1 ends it.    *)
CleanupPc == IF setup.level = 0 THEN "cleanup" ELSE "spo_jobs"
RunEnds ==
  /\ pc = "run" /\ (powered \/ run.signal = "usr1") /\ pc' = CleanupPc
  /\ \E f \in IF setup.level = 3 \/ run.signal = "usr1" THEN BOOLEAN ELSE {FALSE} :
       run' = [run EXCEPT !.flight = f]
  /\ UNCHANGED <<setup, idx, io, iovers, mem, open, image, powered, last, procs, fails>>

(* pthread_create failed: cleanup follows while earlier threads run. *)
RunFails ==
  /\ pc = "run" /\ run.signal = "none" /\ Fail /\ pc' = CleanupPc
  /\ \E f \in BOOLEAN : run' = [run EXCEPT !.flight = f, !.res = -1]
  /\ UNCHANGED <<setup, idx, io, iovers, mem, open, image, powered, last, procs>>

(* get_smart_log, for namespaces with a journal file: spdkio polls until   *)
(* the command ends.                                                       *)
SmartLogHangs(n) == Kind(n) \in Files /\ ~powered /\ IsSpdk(NsEngine(n))

Skipped == setup.skip \/ run.signal = "usr1"

CleanupJobs ==
  /\ pc = "cleanup" /\ pc' = "cleanup_ns" /\ idx' = 1
  /\ open' = {} /\ io' = Exited(io, JobEngines)
  /\ UNCHANGED <<setup, iovers, mem, run, image, powered, last, procs, fails>>

(* Per namespace: smart log, engine (unless skip_ioengine_exit, which      *)
(* SIGUSR1 sets), verifier.                                                *)
CleanupNs ==
  /\ pc = "cleanup_ns" /\ ~SmartLogHangs(idx)
  /\ io' = IF Skipped THEN io ELSE Exited(io, {NsEngine(idx)})
  /\ ExitIovers({idx})
  /\ IF idx < Len(setup.kinds) THEN pc' = pc /\ idx' = idx + 1 ELSE pc' = "end" /\ idx' = 1
  /\ UNCHANGED <<setup, mem, open, run, powered, last, procs, fails>>

SmartLogStuck ==
  /\ pc = "cleanup_ns" /\ SmartLogHangs(idx) /\ pc' = "hung"
  /\ UNCHANGED <<idx, io, iovers, mem, open, run, fails>> /\ ProcessOnly

(* cleanup_spo: the jobs up to level 2, the smart logs up to level 1. *)
SpoJobs ==
  /\ pc = "spo_jobs" /\ io' = IF setup.level <= 2 THEN Exited(io, JobEngines) ELSE io
  /\ pc' = IF setup.level <= 1 /\ \E n \in Namespaces : SmartLogHangs(n)
             THEN "hung" ELSE "spo_power"
  /\ UNCHANGED <<setup, idx, iovers, mem, open, run, image, powered, last, procs, fails>>

(* Mutant: a signal does not stop the power off. *)
SpoPowerAlways ==
  /\ pc = "spo_power" /\ pc' = "spo_close"
  /\ run' = [run EXCEPT !.cut = setup.level >= 2]
  /\ powered' = (powered /\ ~run'.cut)
  /\ UNCHANGED <<setup, idx, io, iovers, mem, open, image, last, procs, fails>>

(* From level 2 on, and if no signal came, nbio cuts the power itself. *)
SpoPower ==
  /\ pc = "spo_power" /\ pc' = "spo_close"
  /\ run' = [run EXCEPT !.cut = setup.level >= 2 /\ run.signal = "none"]
  /\ powered' = (powered /\ ~run'.cut)
  /\ UNCHANGED <<setup, idx, io, iovers, mem, open, image, last, procs, fails>>

(* Mutant: the verifiers are freed without iover_exit. *)
SpoCloseUnsaved ==
  /\ pc = "spo_close" /\ pc' = "end" /\ open' = {} /\ UNCHANGED <<iovers, image>>
  /\ UNCHANGED <<setup, idx, io, mem, run, powered, last, procs, fails>>

(* Logs, verifiers and the power switch; no engine is closed. *)
SpoClose ==
  /\ pc = "spo_close" /\ pc' = "end" /\ open' = {} /\ ExitIovers(Namespaces)
  /\ UNCHANGED <<setup, idx, io, mem, run, powered, last, procs, fails>>
-----------------------------------------------------------------------------
(* The process is killed, by the test or for being stuck. *)
Kill ==
  /\ pc \in {"run", "cleanup_ns", "spo_close"} /\ Fail /\ pc' = "killed"
  /\ UNCHANGED <<idx, io, iovers, mem, open, run>> /\ ProcessOnly

(* The next process on the same namespaces.  A process that did not come   *)
(* to its end has not saved its timestamp, nor, in a file, descriptors.    *)
NextProcess ==
  /\ pc \in {"end", "crashed", "killed", "hung"} /\ procs < MaxProcs
  /\ setup' \in {s \in Setups : s.kinds = setup.kinds} /\ procs' = procs + 1
  /\ pc' = "validate" /\ idx' = 1 /\ io' = NoEngines(setup') /\ open' = {} /\ run' = NotRun
  /\ iovers' = [n \in Namespaces |-> "none"]
  /\ mem' = [n \in Namespaces |-> NewJournal(setup'.nhist)] /\ powered' = TRUE
  /\ last' = IF pc \notin {"killed", "hung"} THEN last
             ELSE [n \in Namespaces |-> IF Kind(n) = "file" THEN image[n]
                                        ELSE [last[n] EXCEPT !.ts = image[n].ts]]
  /\ UNCHANGED <<image, fails>>

Next ==
  \/ ProbeOpen \/ Identify \/ NsOpen \/ Bind \/ ValidateFails
  \/ IoverOpen \/ IoverFails \/ ShortFile \/ MemoryMissing
  \/ JobOpen \/ JobFails \/ StepDone \/ StepFails
  \/ Work \/ PowerLost \/ Signal \/ RunEnds \/ RunFails
  \/ CleanupJobs \/ CleanupNs \/ SmartLogStuck \/ SpoJobs \/ SpoPower \/ SpoClose
  \/ Kill \/ NextProcess

Spec == Init /\ [][Next]_vars
-----------------------------------------------------------------------------
(* Type correctness. *)
TypeOK ==
  /\ setup \in Setups /\ procs \in 1 .. MaxProcs /\ fails \in 0 .. MaxFails
  /\ pc \in {"validate", "identify", "ns_open", "bind", "iovers", "jobs", "steps", "run", "cleanup",
             "cleanup_ns", "spo_jobs", "spo_power", "spo_close",
             "end", "crashed", "killed", "hung"}
  /\ io.nr \in Nat /\ io.attached \in BOOLEAN /\ DOMAIN io.state = Engines
  /\ iovers \in [Namespaces -> {"none", "open", "closed"}]
  /\ open \subseteq {Steps[k] : k \in 1 .. Len(Steps)}
  /\ run.signal \in {"none", "int", "usr1"} /\ run.flight \in BOOLEAN /\ run.cut \in BOOLEAN
  /\ \A n \in Namespaces : image[n].state \in {"absent", "short", "good"}
  /\ powered \in BOOLEAN

(* The controllers stay attached as long as an engine on them is open:     *)
(* nr_instances counts engines of jobs, of namespaces and of validate,     *)
(* and no exit, on any path, detaches them under another instance.         *)
AttachedWhileOpen ==
  \A e \in Engines : io.state[e] = "open" /\ IsSpdk(e) => io.attached /\ io.nr > 0

(* No engine is closed twice or without having been opened, whichever      *)
(* step of validate or prepare fails.                                      *)
ExitOnce == \A e \in Engines : io.state[e] # "dangling"

(* A verifier works on the journal as the last process wrote it: a process *)
(* that fails to start, that ends after SIGINT or SIGUSR1 or that cuts the *)
(* power neither loses nor reverts it.  The timestamp comes back with      *)
(* files only.                                                             *)
JournalCarried ==
  \A n \in Namespaces :
    iovers[n] = "open" /\ Kind(n) # "none" =>
      mem[n].desc = last[n].desc /\ (Kind(n) \in Files => mem[n].ts = last[n].ts)

(* nbio cuts the power at SPOR level 2 with nothing in flight and the jobs *)
(* gone, unless a thread could not be created; and never after a signal.   *)
CutDrained ==
  run.cut => run.signal = "none"
             /\ (setup.level = 2 /\ run.res = 0 =>
                   ~run.flight /\ \A e \in JobEngines : io.state[e] = "closed")

(* A run of level 0 that does not skip the exit of its engines has closed  *)
(* every engine and log and detached the controllers when it ends.         *)
AllReleased ==
  pc = "end" /\ run.res = 0 /\ setup.level = 0 /\ ~Skipped =>
    /\ open = {} /\ io.nr = 0 /\ ~io.attached
    /\ \A e \in Engines : io.state[e] = "closed"
    /\ \A n \in Namespaces : iovers[n] = "closed"
=============================================================================
