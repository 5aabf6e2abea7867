------------------------------ MODULE NbioProofs ------------------------------
(* Proofs about Nbio, for all parameter files and any number of processes, *)
(* failures and changes of a journal.                                      *)
EXTENDS Nbio, FiniteSetTheorems, TLAPS

States == {"none", "open", "closed"}
IoRecords(s) == [state : [EnginesOf(s) -> States], nr : Nat, attached : BOOLEAN]
Journals == [state : {"absent", "short", "good"}, nhist : Nat, desc : Nat, ts : Nat]
Runs == [signal : {"none", "int", "usr1"}, flight : BOOLEAN, cut : BOOLEAN, res : {0, -1}]

(* The stages of main. *)
Probing == {"identify", "ns_open", "bind"}
Validating == {"validate"} \cup Probing
Working == {"steps", "run", "cleanup", "spo_jobs"}
Opening == Validating \cup {"iovers", "jobs", "steps"}
Spo == {"spo_jobs", "spo_power", "spo_close"}
Validated == {"iovers", "jobs"} \cup Working \cup {"spo_power", "spo_close"}
Stages == Validating \cup Validated \cup {"cleanup_ns", "end", "crashed", "killed", "hung"}

Typed ==
  /\ setup \in Setups /\ pc \in Stages
  /\ procs \in 1 .. MaxProcs /\ fails \in 0 .. MaxFails
  /\ open \subseteq {Steps[k] : k \in 1 .. Len(Steps)} /\ run \in Runs /\ powered \in BOOLEAN

(* What main iterates over. *)
Index ==
  /\ pc \in Validating \cup {"jobs"} => idx \in Jobs
  /\ pc \in {"iovers", "cleanup_ns"} => idx \in Namespaces
  /\ pc = "steps" => idx \in 1 .. Len(Steps)

(* Which engines are open at each stage: what an exit closes is open. *)
ProbeState ==
  /\ pc = "validate" => io.state[Probe] # "open"
  /\ pc \in Probing => io.state[Probe] = "open"
  /\ pc \in Validated \cup {"cleanup_ns"} => io.state[Probe] = "closed"
NsState ==
  /\ pc \in Validating =>
       \A j \in Jobs : j < idx \/ (j = idx /\ pc = "bind")
                         => io.state[NsEngine(setup.jobs[j].ns)] = "open"
  /\ pc = "ns_open" => io.state[NsEngine(setup.jobs[idx].ns)] = "none"
  /\ pc \in Validated => \A n \in Namespaces : io.state[NsEngine(n)] = "open"
  /\ pc \in Validating => \A n \in Namespaces : io.state[NsEngine(n)] # "closed"
  /\ pc = "cleanup_ns" =>
       \A n \in Namespaces : io.state[NsEngine(n)] = IF n < idx /\ ~Skipped THEN "closed" ELSE "open"
JobState ==
  /\ pc \in Validating \cup {"iovers"} => \A j \in Jobs : io.state[JobEngine(j)] = "none"
  /\ pc = "jobs" =>
       \A j \in Jobs : io.state[JobEngine(j)] = IF j < idx THEN "open" ELSE "none"
  /\ pc \in Working => \A j \in Jobs : io.state[JobEngine(j)] = "open"
  /\ pc = "cleanup_ns" \/ (pc \in {"spo_power", "spo_close"} /\ setup.level <= 2)
       => \A j \in Jobs : io.state[JobEngine(j)] = "closed"

(* nr_instances counts at least the open instances, and exactly those as   *)
(* long as nothing has failed.                                             *)
OpenSpdk(i) == {e \in Engines : i.state[e] = "open" /\ IsSpdk(e)}
AtLeast(i) == i.nr >= Cardinality(OpenSpdk(i)) /\ (OpenSpdk(i) # {} => i.attached)
Exact(i) == i.nr = Cardinality(OpenSpdk(i)) /\ (i.attached => i.nr > 0)
Counted == AtLeast(io) /\ (run.res = 0 => Exact(io))

EngineInv == io \in IoRecords(setup) /\ ProbeState /\ NsState /\ JobState /\ Counted

(* How the run ended, and what is left behind. *)
Flight == run.flight => setup.level = 3 \/ run.signal = "usr1" \/ run.res # 0
Cut == run.cut => pc \in {"spo_close", "end", "killed"} /\ CutDrained
Levels ==
  /\ pc \in {"cleanup", "cleanup_ns"} => setup.level = 0
  /\ pc \in Spo => setup.level # 0
Released ==
  /\ pc = "cleanup_ns" => open = {} /\ \A n \in Namespaces : n < idx => iovers[n] = "closed"
  /\ pc = "end" /\ run.res = 0 /\ setup.level = 0 /\ ~Skipped =>
       /\ open = {} /\ \A e \in Engines : io.state[e] = "closed"
       /\ \A n \in Namespaces : iovers[n] = "closed"
RunInv == Flight /\ Cut /\ Levels /\ Released

(* The journal of a namespace, as the last process wrote it. *)
Same(n, a, b) == a.desc = b.desc /\ (Kind(n) \in Files => a.ts = b.ts)
Watched(n) == iovers[n] = "open" /\ Kind(n) # "none"
Carried(n) ==
  Watched(n) =>
    /\ Same(n, mem[n], last[n]) /\ image[n].state = "good"
    /\ Kind(n) \in {"shm", "mmap"} => image[n].desc = mem[n].desc

(* Outside of a run, or once its verifier is closed, it is the journal     *)
(* that the next process will find.                                        *)
Resting == Opening \cup {"crashed", "end"}
Kept(n) ==
  Kind(n) # "none" /\ image[n].state = "good" /\ (iovers[n] # "open" \/ pc \in Resting)
    => Same(n, image[n], last[n])
AllOpen ==
  /\ pc = "iovers" => \A n \in Namespaces : n < idx => iovers[n] = "open"
  /\ pc \in {"jobs", "steps", "run", "cleanup", "spo_jobs", "spo_power", "spo_close"} =>
       \A n \in Namespaces : iovers[n] = "open"
  /\ pc = "cleanup_ns" => \A n \in Namespaces : n >= idx => iovers[n] = "open"
JournalTypes ==
  /\ iovers \in [Namespaces -> {"none", "open", "closed"}]
  /\ mem \in [Namespaces -> Journals] /\ image \in [Namespaces -> Journals]
  /\ last \in [Namespaces -> Journals]
JournalInv ==
  JournalTypes /\ AllOpen /\ \A n \in Namespaces : Carried(n) /\ Kept(n)

Inv == Typed /\ Index /\ EngineInv /\ RunInv /\ JournalInv
-----------------------------------------------------------------------------
(* What a parameter file gives. *)
LEMMA SetupFacts ==
  ASSUME NEW s \in Setups
  PROVE  /\ s.level \in 0 .. 3 /\ s.nhist \in Nat /\ s.skip \in BOOLEAN
         /\ Len(s.jobs) \in Nat \ {0} /\ Len(s.kinds) \in Nat \ {0}
         /\ \A j \in 1 .. Len(s.jobs) : s.jobs[j].ns \in 1 .. Len(s.kinds)
         /\ \A n \in 1 .. Len(s.kinds) : s.kinds[n] \in Kinds
         /\ \A n \in 1 .. Len(s.kinds) : \E j \in 1 .. Len(s.jobs) : s.jobs[j].ns = n
<1>1. s.kinds \in Seq(Kinds) /\ Len(s.jobs) \in Nat \ {0}
  BY SetupsAssumption
<1>2. \A j \in 1 .. Len(s.jobs) : s.jobs[j].ns \in 1 .. Len(s.kinds)
  BY SetupsAssumption
<1>3. Len(s.kinds) \in Nat /\ \A n \in 1 .. Len(s.kinds) : s.kinds[n] \in Kinds
  BY <1>1
<1>4. 1 \in 1 .. Len(s.jobs)
  BY <1>1
<1>5. Len(s.kinds) # 0
  BY <1>2, <1>3, <1>4
<1> QED BY <1>1, <1>2, <1>3, <1>5, SetupsAssumption

(* The engines of a process are different, and finitely many. *)
LEMMA EngineFacts ==
  ASSUME setup \in Setups
  PROVE  /\ Probe \in Engines /\ IsFiniteSet(Engines)
         /\ \A n \in Namespaces : NsEngine(n) \in Engines /\ NsEngine(n) # Probe
         /\ \A j \in Jobs : JobEngine(j) \in Engines /\ JobEngine(j) # Probe
         /\ \A n \in Namespaces, j \in Jobs : NsEngine(n) # JobEngine(j)
         /\ \A n, m \in Namespaces : NsEngine(n) = NsEngine(m) => n = m
         /\ \A j, k \in Jobs : JobEngine(j) = JobEngine(k) => j = k
         /\ \A e \in Engines : \/ e = Probe
                               \/ \E n \in Namespaces : e = NsEngine(n)
                               \/ \E j \in Jobs : e = JobEngine(j)
<1>1. Len(setup.jobs) \in Nat /\ Len(setup.kinds) \in Nat
  BY SetupFacts
<1> DEFINE Tags == {"probe", "ns", "job"}
           Big == Tags \X ((0 .. Len(setup.jobs)) \cup (0 .. Len(setup.kinds)))
<1>2. IsFiniteSet(Big)
  <2>1. IsFiniteSet(0 .. Len(setup.jobs)) /\ IsFiniteSet(0 .. Len(setup.kinds))
    <3>1. 0 \in Int /\ Len(setup.jobs) \in Int /\ Len(setup.kinds) \in Int
      BY <1>1
    <3> QED BY <3>1, FS_Interval
  <2>2. IsFiniteSet((0 .. Len(setup.jobs)) \cup (0 .. Len(setup.kinds)))
    BY <2>1, FS_Union
  <2>3. IsFiniteSet({"probe"})
    BY FS_Singleton
  <2>4. IsFiniteSet({"probe"} \cup {"ns"})
    BY <2>3, FS_AddElement
  <2>5. IsFiniteSet(({"probe"} \cup {"ns"}) \cup {"job"})
    BY <2>4, FS_AddElement
  <2>6. Tags = ({"probe"} \cup {"ns"}) \cup {"job"}
    OBVIOUS
  <2>7. IsFiniteSet(Tags)
    BY <2>5, <2>6
  <2> HIDE DEF Tags
  <2> QED BY <2>2, <2>7, FS_Product
<1>3. Engines \subseteq Big
  BY <1>1 DEF Engines, EnginesOf, Probe, NsEngine, JobEngine
<1>4. IsFiniteSet(Engines)
  BY <1>2, <1>3, FS_Subset
<1> QED BY <1>4 DEF Engines, EnginesOf, Probe, NsEngine, JobEngine, Namespaces, Jobs

(* An engine stays on spdk; that of validate, for one job. *)
LEMMA SameSpdk ==
  ASSUME setup \in Setups, setup' = setup, NEW e \in Engines, e = Probe => idx' = idx
  PROVE  IsSpdk(e)' <=> IsSpdk(e)
<1>1. Jobs' = Jobs
  BY DEF Jobs
<1>2. FirstJob(e[2])' = FirstJob(e[2])
  BY <1>1 DEF FirstJob
<1>3. CASE e = Probe
  BY <1>3 DEF IsSpdk, Probe
<1>4. CASE \E n \in Namespaces : e = NsEngine(n)
  BY <1>4, <1>2 DEF IsSpdk, NsEngine
<1>5. CASE \E j \in Jobs : e = JobEngine(j)
  BY <1>5 DEF IsSpdk, JobEngine
<1> QED BY <1>3, <1>4, <1>5, EngineFacts
-----------------------------------------------------------------------------
LEMMA IoFields ==
  ASSUME NEW i \in IoRecords(setup)
  PROVE  /\ i.state \in [Engines -> States] /\ i.nr \in Nat /\ i.attached \in BOOLEAN
         /\ DOMAIN i.state = Engines
  BY DEF IoRecords, Engines

LEMMA OpenSpdkFinite ==
  ASSUME setup \in Setups, NEW i
  PROVE  /\ IsFiniteSet(OpenSpdk(i)) /\ OpenSpdk(i) \subseteq Engines
         /\ Cardinality(OpenSpdk(i)) \in Nat
<1>1. OpenSpdk(i) \subseteq Engines
  BY DEF OpenSpdk
<1>2. IsFiniteSet(OpenSpdk(i))
  BY <1>1, EngineFacts, FS_Subset
<1> QED BY <1>1, <1>2, FS_CardinalityType

(* An init that succeeds keeps the count. *)
LEMMA OpenedCounts ==
  ASSUME setup \in Setups, NEW i \in IoRecords(setup), NEW e \in Engines
  PROVE  /\ Opened(i, e) \in IoRecords(setup)
         /\ \A d \in Engines :
              Opened(i, e).state[d] = IF d = e THEN "open" ELSE i.state[d]
         /\ AtLeast(i) => AtLeast(Opened(i, e))
         /\ Exact(i) /\ i.state[e] # "open" => Exact(Opened(i, e))
<1> DEFINE o == Opened(i, e)
           S == OpenSpdk(i)
<1>1. i.state \in [Engines -> States] /\ i.nr \in Nat /\ i.attached \in BOOLEAN
  BY IoFields
<1>2. /\ o.state = [i.state EXCEPT ![e] = "open"]
      /\ o.nr = IF IsSpdk(e) THEN i.nr + 1 ELSE i.nr
      /\ o.attached \in BOOLEAN /\ (o.attached <=> i.attached \/ IsSpdk(e))
  BY <1>1 DEF Opened
<1>3. o \in IoRecords(setup)
  <2>1. o.state \in [Engines -> States] /\ o.nr \in Nat
    BY <1>1, <1>2 DEF States
  <2>2. o = [state |-> o.state, nr |-> o.nr, attached |-> o.attached]
    BY DEF Opened
  <2> HIDE DEF o
  <2> QED BY <2>1, <2>2, <1>2 DEF IoRecords, Engines
<1>4. \A d \in Engines : o.state[d] = IF d = e THEN "open" ELSE i.state[d]
  BY <1>1, <1>2
<1>5. OpenSpdk(o) = IF IsSpdk(e) THEN S \cup {e} ELSE S \ {e}
  BY <1>4 DEF OpenSpdk
<1>6. IsFiniteSet(S) /\ Cardinality(S) \in Nat
  BY OpenSpdkFinite
<1>7. ~IsSpdk(e) => e \notin S
  BY DEF OpenSpdk
<1>8. ASSUME IsSpdk(e)
      PROVE  Cardinality(OpenSpdk(o)) = IF e \in S THEN Cardinality(S) ELSE Cardinality(S) + 1
  <2>1. Cardinality(S \cup {e}) = IF e \in S THEN Cardinality(S) ELSE Cardinality(S) + 1
    BY <1>6, FS_AddElement
  <2> QED BY <2>1, <1>5, <1>8
<1>s. ~IsSpdk(e) => OpenSpdk(o) = S
  BY <1>5, <1>7
<1>9. i.state[e] # "open" => e \notin S
  BY DEF OpenSpdk
<1> HIDE DEF o, S
<1>10. AtLeast(i) => AtLeast(o)
  BY <1>1, <1>2, <1>6, <1>8, <1>s DEF AtLeast, S
<1>11. Exact(i) /\ i.state[e] # "open" => Exact(o)
  BY <1>1, <1>2, <1>6, <1>8, <1>s, <1>9 DEF Exact, S
<1> QED BY <1>3, <1>4, <1>10, <1>11 DEF o

(* One that fails leaves at most an instance too many. *)
LEMMA InitFailedCounts ==
  ASSUME setup \in Setups, NEW i \in IoRecords(setup), NEW e, AtLeast(i),
         NEW f \in InitFailed(i, e)
  PROVE  f \in IoRecords(setup) /\ f.state = i.state /\ AtLeast(f)
<1>1. i.state \in [Engines -> States] /\ i.nr \in Nat /\ i.attached \in BOOLEAN
  BY IoFields
<1>2. CASE f = i
  BY <1>2
<1>3. CASE f = [i EXCEPT !.nr = @ + 1, !.attached = TRUE]
  <2>1. /\ f = [state |-> i.state, nr |-> i.nr + 1, attached |-> TRUE]
        /\ f.state = i.state /\ f.nr = i.nr + 1 /\ f.attached
    BY <1>3 DEF IoRecords
  <2>2. f \in IoRecords(setup)
    BY <1>1, <2>1 DEF IoRecords, Engines
  <2>3. OpenSpdk(f) = OpenSpdk(i)
    BY <2>1 DEF OpenSpdk
  <2>4. Cardinality(OpenSpdk(i)) \in Nat
    BY OpenSpdkFinite
  <2> QED BY <1>1, <2>1, <2>2, <2>3, <2>4 DEF AtLeast
<1>4. f = i \/ f = [i EXCEPT !.nr = @ + 1, !.attached = TRUE]
  BY DEF InitFailed
<1> QED BY <1>2, <1>3, <1>4

(* The exit of open instances. *)
LEMMA ExitedCounts ==
  ASSUME setup \in Setups, NEW i \in IoRecords(setup), NEW E \in SUBSET Engines,
         \A e \in E : i.state[e] = "open", AtLeast(i)
  PROVE  /\ Exited(i, E) \in IoRecords(setup)
         /\ \A d \in Engines : Exited(i, E).state[d] = IF d \in E THEN "closed" ELSE i.state[d]
         /\ AtLeast(Exited(i, E))
         /\ Exact(i) => Exact(Exited(i, E))
<1> DEFINE x == Exited(i, E)
           S == OpenSpdk(i)
           T == {e \in E : IsSpdk(e)}
           k == Cardinality(T)
<1>1. /\ i.state \in [Engines -> States] /\ i.nr \in Nat /\ i.attached \in BOOLEAN
      /\ DOMAIN i.state = Engines
  BY IoFields
<1>2. /\ x.state = [e \in DOMAIN i.state |->
                      IF e \notin E THEN i.state[e]
                      ELSE IF i.state[e] = "open" THEN "closed" ELSE "dangling"]
      /\ x.nr = i.nr - k
      /\ x.attached \in BOOLEAN /\ (x.attached <=> i.attached /\ ~(i.nr > 0 /\ k >= i.nr))
      /\ x = [state |-> x.state, nr |-> x.nr, attached |-> x.attached]
  BY <1>1 DEF Exited
<1>3. IsFiniteSet(S) /\ Cardinality(S) \in Nat
  BY OpenSpdkFinite
<1>4. T \subseteq S
  BY DEF OpenSpdk
<1>5. k \in Nat /\ k <= Cardinality(S)
  <2>1. IsFiniteSet(T) /\ Cardinality(T) <= Cardinality(S)
    BY <1>3, <1>4, FS_Subset
  <2> QED BY <2>1, FS_CardinalityType
<1>6. \A d \in Engines : x.state[d] = IF d \in E THEN "closed" ELSE i.state[d]
  BY <1>1, <1>2
<1>7. OpenSpdk(x) = S \ T
  BY <1>6 DEF OpenSpdk
<1>8. Cardinality(OpenSpdk(x)) = Cardinality(S) - k
  <2>1. S \cap T = T
    BY <1>4
  <2>2. Cardinality(S \ T) = Cardinality(S) - Cardinality(S \cap T)
    BY <1>3, FS_Difference
  <2> QED BY <2>1, <2>2, <1>7
<1>9. OpenSpdk(x) # {} => Cardinality(OpenSpdk(x)) # 0
  BY OpenSpdkFinite, FS_EmptySet
<1>a. S = {} => OpenSpdk(x) = {}
  BY <1>7
<1>b. S # {} => Cardinality(S) # 0
  BY <1>3, FS_EmptySet
<1> HIDE DEF x, S, k, T
<1>c. i.nr >= Cardinality(S) /\ (S # {} => i.attached)
  BY DEF AtLeast, S
<1>10. x \in IoRecords(setup)
  <2>1. x.state \in [Engines -> States]
    BY <1>1, <1>2 DEF States
  <2>2. x.nr \in Nat
    BY <1>1, <1>2, <1>3, <1>5, <1>c
  <2> QED BY <2>1, <2>2, <1>2 DEF IoRecords, Engines
<1>11. AtLeast(x)
  BY <1>1, <1>2, <1>3, <1>5, <1>8, <1>9, <1>a, <1>c DEF AtLeast
<1>12. Exact(i) => Exact(x)
  BY <1>1, <1>2, <1>3, <1>5, <1>8, <1>c DEF Exact, S
<1> QED BY <1>6, <1>10, <1>11, <1>12 DEF x
-----------------------------------------------------------------------------
LEMMA SameShape ==
  ASSUME setup' = setup
  PROVE  Jobs' = Jobs /\ Namespaces' = Namespaces /\ Engines' = Engines
  BY DEF Jobs, Namespaces, Engines

(* The count refers to idx only through the engine of validate. *)
LEMMA CountedNext ==
  ASSUME setup \in Setups, setup' = setup, io' \in IoRecords(setup),
         AtLeast(io'), run'.res = 0 => Exact(io'),
         idx' = idx \/ io'.state[Probe] # "open"
  PROVE  Counted'
<1>1. Engines' = Engines
  BY SameShape
<1>2. \A e \in Engines : io'.state[e] = "open" => (IsSpdk(e)' <=> IsSpdk(e))
  BY SameSpdk
<1>3. OpenSpdk(io)' = OpenSpdk(io')
  BY <1>1, <1>2 DEF OpenSpdk
<1> QED BY <1>3 DEF Counted, AtLeast, Exact

(* The facts about the engines that the steps start from. *)
LEMMA Before ==
  ASSUME Inv
  PROVE  /\ setup \in Setups /\ io \in IoRecords(setup) /\ AtLeast(io)
         /\ run.res = 0 => Exact(io)
         /\ Len(setup.jobs) \in Nat \ {0} /\ Len(setup.kinds) \in Nat \ {0}
         /\ Jobs = 1 .. Len(setup.jobs) /\ Namespaces = 1 .. Len(setup.kinds)
         /\ \A j \in Jobs : setup.jobs[j].ns \in Namespaces
         /\ \A n \in Namespaces : \E j \in Jobs : setup.jobs[j].ns = n
         /\ \A e \in Engines : io.state[e] \in States
         /\ pc \in Stages /\ run \in Runs
<1>1. setup \in Setups /\ io \in IoRecords(setup) /\ Counted /\ pc \in Stages /\ run \in Runs
  BY DEF Inv, Typed, EngineInv
<1>2. io.state \in [Engines -> States]
  BY <1>1, IoFields
<1> QED BY <1>1, <1>2, SetupFacts DEF Counted, Jobs, Namespaces

LEMMA ProbeOpenEngines ==
  ASSUME Inv, ProbeOpen
  PROVE  EngineInv'
<1>1. /\ pc = "validate" /\ pc' = "identify" /\ io' = Opened(io, Probe) /\ setup' = setup
      /\ idx' = idx /\ run' = run
  BY DEF ProbeOpen, ProcessOnly
<1>2. /\ io' \in IoRecords(setup) /\ AtLeast(io')
      /\ \A d \in Engines : io'.state[d] = IF d = Probe THEN "open" ELSE io.state[d]
      /\ run'.res = 0 => Exact(io')
  <2>1. io.state[Probe] # "open"
    BY <1>1 DEF Inv, EngineInv, ProbeState
  <2> QED BY <1>1, <2>1, Before, EngineFacts, OpenedCounts
<1>3. Counted'
  BY <1>1, <1>2, Before, CountedNext
<1>4. ProbeState' /\ JobState' /\ NsState'
  <2>1. /\ \A j \in Jobs : io.state[JobEngine(j)] = "none"
        /\ \A j \in Jobs : j < idx => io.state[NsEngine(setup.jobs[j].ns)] = "open"
        /\ \A n \in Namespaces : io.state[NsEngine(n)] # "closed"
    BY <1>1 DEF Inv, EngineInv, JobState, NsState, Validating
  <2> QED BY <1>1, <1>2, <2>1, SameShape, EngineFacts, Before
          DEF ProbeState, JobState, NsState, Probing, Validating, Validated, Working
<1> QED BY <1>1, <1>2, <1>3, <1>4 DEF EngineInv

LEMMA IdentifyEngines ==
  ASSUME Inv, Identify
  PROVE  EngineInv'
<1>1. /\ pc = "identify" /\ io' = io /\ setup' = setup /\ idx' = idx /\ run' = run
      /\ pc' = IF io.state[NsEngine(setup.jobs[idx].ns)] = "none" THEN "ns_open" ELSE "bind"
  BY DEF Identify, ProcessOnly
<1>2. Counted'
  BY <1>1, Before, CountedNext
<1>3. ProbeState' /\ JobState' /\ NsState'
  <2>1. /\ \A j \in Jobs : io.state[JobEngine(j)] = "none"
        /\ \A j \in Jobs : j < idx => io.state[NsEngine(setup.jobs[j].ns)] = "open"
        /\ \A n \in Namespaces : io.state[NsEngine(n)] # "closed"
        /\ io.state[Probe] = "open" /\ idx \in Jobs
    BY <1>1 DEF Inv, EngineInv, Index, ProbeState, JobState, NsState, Validating, Probing
  <2>2. io.state[NsEngine(setup.jobs[idx].ns)] \in {"none", "open"}
    BY <2>1, Before, EngineFacts DEF States
  <2> QED BY <1>1, <2>1, <2>2, SameShape
          DEF ProbeState, JobState, NsState, Probing, Validating, Validated, Working
<1> QED BY <1>1, <1>2, <1>3, Before DEF EngineInv

LEMMA NsOpenEngines ==
  ASSUME Inv, NsOpen
  PROVE  EngineInv'
<1> DEFINE e == NsEngine(setup.jobs[idx].ns)
<1>1. /\ pc = "ns_open" /\ pc' = "bind" /\ io' = Opened(io, e) /\ setup' = setup
      /\ idx' = idx /\ run' = run
  BY DEF NsOpen, ProcessOnly
<1>2. /\ \A j \in Jobs : io.state[JobEngine(j)] = "none"
      /\ \A j \in Jobs : j < idx => io.state[NsEngine(setup.jobs[j].ns)] = "open"
      /\ \A n \in Namespaces : io.state[NsEngine(n)] # "closed"
      /\ io.state[Probe] = "open" /\ idx \in Jobs /\ io.state[e] = "none"
  BY <1>1 DEF Inv, EngineInv, Index, ProbeState, JobState, NsState, Validating, Probing
<1>3. e \in Engines /\ e # Probe /\ \A j \in Jobs : e # JobEngine(j)
  BY <1>2, Before, EngineFacts
<1> HIDE DEF e
<1>4. /\ io' \in IoRecords(setup) /\ AtLeast(io')
      /\ \A d \in Engines : io'.state[d] = IF d = e THEN "open" ELSE io.state[d]
      /\ run'.res = 0 => Exact(io')
  BY <1>1, <1>2, <1>3, Before, OpenedCounts
<1>5. Counted'
  BY <1>1, <1>4, Before, CountedNext
<1>6. ProbeState' /\ JobState'
  BY <1>1, <1>2, <1>3, <1>4, SameShape, EngineFacts, Before
     DEF ProbeState, JobState, Probing, Validating, Validated, Working
<1>7. NsState'
  BY <1>1, <1>2, <1>3, <1>4, SameShape, EngineFacts, Before
     DEF NsState, Probing, Validating, Validated, Working, e
<1> QED BY <1>1, <1>4, <1>5, <1>6, <1>7 DEF EngineInv

LEMMA BindEngines ==
  ASSUME Inv, Bind
  PROVE  EngineInv'
<1>1. /\ pc = "bind" /\ io' = Exited(io, {Probe}) /\ setup' = setup /\ run' = run
      /\ IF idx < Len(setup.jobs) THEN pc' = "validate" /\ idx' = idx + 1
                                  ELSE pc' = "iovers" /\ idx' = 1
  BY DEF Bind, ProcessOnly
<1>2. /\ \A j \in Jobs : io.state[JobEngine(j)] = "none"
      /\ \A j \in Jobs : j < idx \/ j = idx => io.state[NsEngine(setup.jobs[j].ns)] = "open"
      /\ \A n \in Namespaces : io.state[NsEngine(n)] # "closed"
      /\ io.state[Probe] = "open" /\ idx \in Jobs
  BY <1>1 DEF Inv, EngineInv, Index, ProbeState, JobState, NsState, Validating, Probing
<1>3. /\ io' \in IoRecords(setup) /\ AtLeast(io')
      /\ \A d \in Engines : io'.state[d] = IF d \in {Probe} THEN "closed" ELSE io.state[d]
      /\ run'.res = 0 => Exact(io')
  <2>1. {Probe} \in SUBSET Engines /\ \A e \in {Probe} : io.state[e] = "open"
    BY <1>2, Before, EngineFacts
  <2> QED BY <1>1, <2>1, Before, ExitedCounts
<1>4. Counted'
  BY <1>1, <1>3, Before, EngineFacts, CountedNext
<1>5. ProbeState' /\ JobState'
  BY <1>1, <1>2, <1>3, SameShape, EngineFacts, Before
     DEF ProbeState, JobState, Probing, Validating, Validated, Working
<1>6. NsState'
  <2>n. \A n \in Namespaces : io'.state[NsEngine(n)] = io.state[NsEngine(n)]
    BY <1>3, Before, EngineFacts
  <2>1. CASE idx < Len(setup.jobs)
    <3>1. \A j \in Jobs : j < idx' => j < idx \/ j = idx
      BY <1>1, <1>2, <2>1, Before
    <3>2. \A j \in Jobs : j < idx' => io'.state[NsEngine(setup.jobs[j].ns)] = "open"
      BY <1>2, <2>n, <3>1, Before
    <3> QED BY <1>1, <1>2, <2>1, <2>n, <3>2, SameShape
            DEF NsState, Probing, Validating, Validated, Working
  <2>2. CASE ~(idx < Len(setup.jobs))
    <3>1. \A j \in Jobs : j < idx \/ j = idx
      BY <1>2, <2>2, Before
    <3>2. \A n \in Namespaces : io.state[NsEngine(n)] = "open"
      BY <1>2, <3>1, Before
    <3> QED BY <1>1, <2>2, <2>n, <3>2, SameShape
            DEF NsState, Probing, Validating, Validated, Working
  <2> QED BY <2>1, <2>2
<1> QED BY <1>1, <1>3, <1>4, <1>5, <1>6 DEF EngineInv

(* When main has ended, nothing closes an engine any more. *)
LEMMA StoppedStates ==
  ASSUME pc' \in {"end", "crashed", "killed", "hung"}
  PROVE  ProbeState' /\ NsState' /\ JobState'
  BY DEF ProbeState, NsState, JobState, Probing, Validating, Validated, Working

LEMMA ValidateFailsEngines ==
  ASSUME Inv, ValidateFails
  PROVE  EngineInv'
<1>1. /\ setup' = setup /\ idx' = idx /\ pc' = "end" /\ run' = [run EXCEPT !.res = -1]
      /\ io' = io \/ \E e : io' \in InitFailed(io, e)
  BY DEF ValidateFails, ProcessOnly, Over
<1>2. io' \in IoRecords(setup) /\ AtLeast(io')
  BY <1>1, Before, InitFailedCounts
<1>3. run'.res # 0
  BY <1>1, Before DEF Runs
<1> QED BY <1>1, <1>2, <1>3, Before, CountedNext, StoppedStates DEF EngineInv

LEMMA JobOpenEngines ==
  ASSUME Inv, JobOpen
  PROVE  EngineInv'
<1>1. /\ pc = "jobs" /\ io' = Opened(io, JobEngine(idx)) /\ setup' = setup /\ run' = run
      /\ IF idx < Len(setup.jobs) THEN pc' = pc /\ idx' = idx + 1 ELSE pc' = "steps" /\ idx' = 1
  BY DEF JobOpen, ProcessOnly
<1>2. /\ \A j \in Jobs : io.state[JobEngine(j)] = IF j < idx THEN "open" ELSE "none"
      /\ \A n \in Namespaces : io.state[NsEngine(n)] = "open"
      /\ io.state[Probe] = "closed" /\ idx \in Jobs
  BY <1>1 DEF Inv, EngineInv, Index, ProbeState, JobState, NsState, Validated
<1>3. JobEngine(idx) \in Engines /\ io.state[JobEngine(idx)] # "open"
  BY <1>2, Before, EngineFacts
<1>4. /\ io' \in IoRecords(setup) /\ AtLeast(io')
      /\ \A d \in Engines : io'.state[d] = IF d = JobEngine(idx) THEN "open" ELSE io.state[d]
      /\ run'.res = 0 => Exact(io')
  BY <1>1, <1>3, Before, OpenedCounts
<1>5. /\ io'.state[Probe] = "closed"
      /\ \A n \in Namespaces : io'.state[NsEngine(n)] = "open"
      /\ \A j \in Jobs : io'.state[JobEngine(j)] = IF j <= idx THEN "open" ELSE "none"
  BY <1>2, <1>4, Before, EngineFacts
<1>6. Counted'
  BY <1>1, <1>4, <1>5, Before, CountedNext
<1>7. ProbeState' /\ NsState'
  BY <1>1, <1>5, SameShape DEF ProbeState, NsState, Probing, Validating, Validated, Working
<1>8. JobState'
  <2>1. CASE idx < Len(setup.jobs)
    <3>1. \A j \in Jobs : j <= idx <=> j < idx'
      BY <1>1, <1>2, <2>1, Before
    <3> QED BY <1>1, <1>5, <2>1, <3>1, SameShape DEF JobState, Probing, Validating, Working
  <2>2. CASE ~(idx < Len(setup.jobs))
    <3>1. \A j \in Jobs : j <= idx
      BY <1>2, <2>2, Before
    <3> QED BY <1>1, <1>5, <2>2, <3>1, SameShape DEF JobState, Probing, Validating, Working
  <2> QED BY <2>1, <2>2
<1> QED BY <1>1, <1>4, <1>6, <1>7, <1>8 DEF EngineInv

(* A job that cannot be initialised: only open engines are closed. *)
LEMMA JobFailsEngines ==
  ASSUME Inv, JobFails
  PROVE  EngineInv'
<1>1. /\ pc = "jobs" /\ setup' = setup /\ idx' = idx /\ pc' = "end"
      /\ run' = [run EXCEPT !.res = -1]
      /\ \/ \E i \in InitFailed(io, JobEngine(idx)) :
              io' = Exited(i, {JobEngine(j) : j \in 1 .. idx - 1})
         \/ io' = Exited(Opened(io, JobEngine(idx)), {JobEngine(j) : j \in 1 .. idx})
  BY DEF JobFails, Over
<1>2. /\ \A j \in Jobs : io.state[JobEngine(j)] = IF j < idx THEN "open" ELSE "none"
      /\ idx \in Jobs
  BY <1>1 DEF Inv, EngineInv, Index, JobState
<1>3. 1 .. idx \subseteq Jobs /\ 1 .. idx - 1 \subseteq Jobs /\ \A j \in 1 .. idx - 1 : j < idx
  BY <1>2, Before
<1>4. io' \in IoRecords(setup) /\ AtLeast(io')
  <2>1. ASSUME NEW i \in InitFailed(io, JobEngine(idx)),
               io' = Exited(i, {JobEngine(j) : j \in 1 .. idx - 1})
        PROVE  io' \in IoRecords(setup) /\ AtLeast(io')
    <3> DEFINE E == {JobEngine(j) : j \in 1 .. idx - 1}
    <3>1. i \in IoRecords(setup) /\ i.state = io.state /\ AtLeast(i)
      BY Before, InitFailedCounts
    <3>2. E \in SUBSET Engines /\ \A e \in E : i.state[e] = "open"
      BY <1>2, <1>3, <3>1, Before, EngineFacts
    <3> HIDE DEF E
    <3>3. Exited(i, E) \in IoRecords(setup) /\ AtLeast(Exited(i, E))
      BY <3>1, <3>2, Before, ExitedCounts
    <3> QED BY <2>1, <3>3 DEF E
  <2>2. ASSUME io' = Exited(Opened(io, JobEngine(idx)), {JobEngine(j) : j \in 1 .. idx})
        PROVE  io' \in IoRecords(setup) /\ AtLeast(io')
    <3> DEFINE E == {JobEngine(j) : j \in 1 .. idx}
               i == Opened(io, JobEngine(idx))
    <3>1. /\ i \in IoRecords(setup) /\ AtLeast(i)
          /\ \A d \in Engines : i.state[d] = IF d = JobEngine(idx) THEN "open" ELSE io.state[d]
      BY <1>2, Before, EngineFacts, OpenedCounts
    <3> HIDE DEF i
    <3>2. E \in SUBSET Engines
      BY <1>3, Before, EngineFacts
    <3>3. ASSUME NEW e \in E PROVE i.state[e] = "open"
      <4>1. PICK j \in 1 .. idx : e = JobEngine(j)
        OBVIOUS
      <4>2. j \in Jobs /\ (j < idx \/ j = idx)
        BY <1>2, <1>3, Before
      <4> QED BY <4>1, <4>2, <3>1, <1>2, Before, EngineFacts
    <3> HIDE DEF E
    <3>4. Exited(i, E) \in IoRecords(setup) /\ AtLeast(Exited(i, E))
      BY <3>1, <3>2, <3>3, Before, ExitedCounts
    <3> QED BY <2>2, <3>4 DEF E, i
  <2> QED BY <1>1, <2>1, <2>2
<1>5. run'.res # 0
  BY <1>1, Before DEF Runs
<1> QED BY <1>1, <1>4, <1>5, Before, CountedNext, StoppedStates DEF EngineInv

(* The exit of all jobs, once they all have their engine. *)
LEMMA JobsExit ==
  ASSUME Inv, pc \in Working
  PROVE  /\ Exited(io, JobEngines) \in IoRecords(setup) /\ AtLeast(Exited(io, JobEngines))
         /\ run.res = 0 => Exact(Exited(io, JobEngines))
         /\ Exited(io, JobEngines).state[Probe] = "closed"
         /\ \A n \in Namespaces : Exited(io, JobEngines).state[NsEngine(n)] = "open"
         /\ \A j \in Jobs : Exited(io, JobEngines).state[JobEngine(j)] = "closed"
<1>1. /\ \A j \in Jobs : io.state[JobEngine(j)] = "open"
      /\ \A n \in Namespaces : io.state[NsEngine(n)] = "open"
      /\ io.state[Probe] = "closed"
  BY DEF Inv, EngineInv, ProbeState, JobState, NsState, Validated
<1>2. /\ JobEngines \in SUBSET Engines /\ \A e \in JobEngines : io.state[e] = "open"
      /\ Probe \notin JobEngines /\ \A n \in Namespaces : NsEngine(n) \notin JobEngines
      /\ \A j \in Jobs : JobEngine(j) \in JobEngines
  BY <1>1, Before, EngineFacts DEF JobEngines
<1> DEFINE x == Exited(io, JobEngines)
<1>3. /\ x \in IoRecords(setup) /\ AtLeast(x) /\ (run.res = 0 => Exact(x))
      /\ \A d \in Engines : x.state[d] = IF d \in JobEngines THEN "closed" ELSE io.state[d]
  BY <1>2, Before, ExitedCounts
<1> HIDE DEF x
<1>4. /\ x.state[Probe] = "closed"
      /\ \A n \in Namespaces : x.state[NsEngine(n)] = "open"
      /\ \A j \in Jobs : x.state[JobEngine(j)] = "closed"
  BY <1>1, <1>2, <1>3, Before, EngineFacts
<1> QED BY <1>3, <1>4 DEF x

LEMMA StepFailsEngines ==
  ASSUME Inv, StepFails
  PROVE  EngineInv'
<1>1. /\ pc = "steps" /\ setup' = setup /\ idx' = idx
      /\ \/ pc' = "crashed" /\ io' = io /\ run' = run
         \/ pc' = "end" /\ io' = Exited(io, JobEngines) /\ run' = [run EXCEPT !.res = -1]
  BY DEF StepFails, Over
<1>2. io' \in IoRecords(setup) /\ AtLeast(io') /\ (run'.res = 0 => Exact(io'))
  <2>1. CASE io' = io /\ run' = run
    BY <2>1, Before
  <2>2. CASE io' = Exited(io, JobEngines) /\ run' = [run EXCEPT !.res = -1]
    <3>1. run'.res # 0
      BY <2>2, Before DEF Runs
    <3> QED BY <1>1, <2>2, <3>1, JobsExit DEF Working
  <2> QED BY <1>1, <2>1, <2>2
<1> QED BY <1>1, <1>2, Before, CountedNext, StoppedStates DEF EngineInv

LEMMA CleanupJobsEngines ==
  ASSUME Inv, CleanupJobs
  PROVE  EngineInv'
<1>1. /\ pc = "cleanup" /\ pc' = "cleanup_ns" /\ idx' = 1 /\ setup' = setup /\ run' = run
      /\ io' = Exited(io, JobEngines)
  BY DEF CleanupJobs
<1>2. /\ io' \in IoRecords(setup) /\ AtLeast(io') /\ (run'.res = 0 => Exact(io'))
      /\ io'.state[Probe] = "closed"
      /\ \A n \in Namespaces : io'.state[NsEngine(n)] = "open"
      /\ \A j \in Jobs : io'.state[JobEngine(j)] = "closed"
  BY <1>1, JobsExit DEF Working
<1>3. Counted'
  BY <1>1, <1>2, Before, CountedNext
<1>4. \A n \in Namespaces : ~(n < 1)
  BY Before
<1>5. ProbeState' /\ JobState' /\ NsState'
  BY <1>1, <1>2, <1>4, SameShape
     DEF ProbeState, JobState, NsState, Probing, Validating, Validated, Working
<1> QED BY <1>1, <1>2, <1>3, <1>5 DEF EngineInv

LEMMA SpoJobsEngines ==
  ASSUME Inv, SpoJobs
  PROVE  EngineInv'
<1>1. /\ pc = "spo_jobs" /\ pc' \in {"hung", "spo_power"} /\ idx' = idx /\ setup' = setup
      /\ run' = run /\ io' = IF setup.level <= 2 THEN Exited(io, JobEngines) ELSE io
  BY DEF SpoJobs
<1>2. /\ \A n \in Namespaces : io.state[NsEngine(n)] = "open"
      /\ io.state[Probe] = "closed"
  BY <1>1 DEF Inv, EngineInv, ProbeState, NsState, Validated, Working
<1>3. /\ io' \in IoRecords(setup) /\ AtLeast(io') /\ (run'.res = 0 => Exact(io'))
      /\ io'.state[Probe] = "closed"
      /\ \A n \in Namespaces : io'.state[NsEngine(n)] = "open"
      /\ setup.level <= 2 => \A j \in Jobs : io'.state[JobEngine(j)] = "closed"
  BY <1>1, <1>2, Before, JobsExit DEF Working
<1>4. Counted'
  BY <1>1, <1>3, Before, CountedNext
<1>5. ProbeState' /\ JobState' /\ NsState'
  BY <1>1, <1>3, SameShape
     DEF ProbeState, JobState, NsState, Probing, Validating, Validated, Working
<1> QED BY <1>1, <1>3, <1>4, <1>5 DEF EngineInv

LEMMA CleanupNsEngines ==
  ASSUME Inv, CleanupNs
  PROVE  EngineInv'
<1>1. /\ pc = "cleanup_ns" /\ setup' = setup /\ run' = run
      /\ io' = IF Skipped THEN io ELSE Exited(io, {NsEngine(idx)})
      /\ IF idx < Len(setup.kinds) THEN pc' = pc /\ idx' = idx + 1 ELSE pc' = "end" /\ idx' = 1
  BY DEF CleanupNs
<1>2. /\ \A n \in Namespaces :
           io.state[NsEngine(n)] = IF n < idx /\ ~Skipped THEN "closed" ELSE "open"
      /\ io.state[Probe] = "closed" /\ idx \in Namespaces
      /\ \A j \in Jobs : io.state[JobEngine(j)] = "closed"
  BY <1>1 DEF Inv, EngineInv, Index, ProbeState, JobState, NsState, Validated
<1>3. ~(idx < idx)
  BY <1>2, Before
<1>4. /\ io' \in IoRecords(setup) /\ AtLeast(io') /\ (run'.res = 0 => Exact(io'))
      /\ \A d \in Engines :
           io'.state[d] = IF d = NsEngine(idx) /\ ~Skipped THEN "closed" ELSE io.state[d]
  <2>1. CASE Skipped
    BY <1>1, <2>1, Before
  <2>2. CASE ~Skipped
    <3>1. /\ {NsEngine(idx)} \in SUBSET Engines
          /\ \A e \in {NsEngine(idx)} : io.state[e] = "open"
      BY <1>2, <1>3, Before, EngineFacts
    <3>2. io' = Exited(io, {NsEngine(idx)}) /\ run' = run
      BY <1>1, <2>2
    <3>3. /\ io' \in IoRecords(setup) /\ AtLeast(io') /\ (run'.res = 0 => Exact(io'))
          /\ \A d \in Engines :
               io'.state[d] = IF d \in {NsEngine(idx)} THEN "closed" ELSE io.state[d]
      BY <3>1, <3>2, Before, ExitedCounts
    <3> QED BY <2>2, <3>3
  <2> QED BY <2>1, <2>2
<1>5. /\ io'.state[Probe] = "closed" /\ \A j \in Jobs : io'.state[JobEngine(j)] = "closed"
      /\ \A n \in Namespaces :
           io'.state[NsEngine(n)] = IF n <= idx /\ ~Skipped THEN "closed" ELSE "open"
  BY <1>2, <1>4, Before, EngineFacts
<1>6. Counted'
  BY <1>1, <1>4, <1>5, Before, CountedNext
<1>7. ProbeState' /\ JobState' /\ NsState'
  <2>1. CASE idx < Len(setup.kinds)
    <3>1. (\A n \in Namespaces : n <= idx <=> n < idx') /\ Skipped' = Skipped
      BY <1>1, <1>2, <2>1, Before DEF Skipped
    <3> QED BY <1>1, <1>5, <2>1, <3>1, SameShape
            DEF ProbeState, JobState, NsState, Probing, Validating, Validated, Working
  <2>2. CASE ~(idx < Len(setup.kinds))
    BY <1>1, <2>2, StoppedStates
  <2> QED BY <2>1, <2>2
<1> QED BY <1>1, <1>4, <1>6, <1>7 DEF EngineInv

(* The steps that leave the engines alone. *)
Quiet ==
  \/ IoverOpen \/ IoverFails \/ ShortFile \/ MemoryMissing \/ StepDone
  \/ Work \/ PowerLost \/ Signal \/ RunEnds \/ RunFails
  \/ SmartLogStuck \/ SpoPower \/ SpoClose \/ Kill \/ UNCHANGED vars
LEMMA QuietEngines ==
  ASSUME Inv, Quiet
  PROVE  EngineInv'
<1>1. /\ setup' = setup /\ io' = io
      /\ idx' = idx \/ pc \in {"iovers", "steps"}
      /\ run'.res = 0 => run.res = 0
  <2>1. /\ setup' = setup /\ io' = io
        /\ idx' = idx \/ pc \in {"iovers", "steps"}
    BY DEF Quiet, IoverOpen, IoverFails, ShortFile, MemoryMissing, StepDone, Work, PowerLost,
           Signal, RunEnds, RunFails, SmartLogStuck, SpoPower, SpoClose, Kill, vars, ProcessOnly
  <2>2. \/ run' = run \/ run' = [run EXCEPT !.res = -1]
        \/ \E s : run' = [run EXCEPT !.signal = s]
        \/ \E f : run' = [run EXCEPT !.flight = f] \/ run' = [run EXCEPT !.flight = f, !.res = -1]
        \/ \E c : run' = [run EXCEPT !.cut = c]
    BY DEF Quiet, IoverOpen, IoverFails, ShortFile, MemoryMissing, StepDone, Work, PowerLost,
           Signal, RunEnds, RunFails, SmartLogStuck, SpoPower, SpoClose, Kill, vars, ProcessOnly,
           Over
  <2>3. run \in Runs
    BY Before
  <2>4. run'.res = 0 => run.res = 0
    BY <2>2, <2>3 DEF Runs
  <2> QED BY <2>1, <2>4
<1>2. \/ pc' = pc /\ idx' = idx /\ (pc = "cleanup_ns" => run' = run)
      \/ pc' = pc /\ pc \in {"iovers", "steps"}
      \/ pc = "iovers" /\ pc' = "jobs" /\ idx' = 1
      \/ pc = "steps" /\ pc' = "run"
      \/ pc = "run" /\ pc' \in {"cleanup", "spo_jobs"}
      \/ pc = "spo_power" /\ pc' = "spo_close"
      \/ pc' \in {"end", "crashed", "killed", "hung"}
  BY DEF Quiet, IoverOpen, IoverFails, ShortFile, MemoryMissing, StepDone, NextStep, Work, PowerLost,
         Signal, RunEnds, RunFails, CleanupPc, SmartLogStuck, SpoPower, SpoClose, Kill, vars,
         ProcessOnly, Over
<1>3. pc \in {"iovers", "steps"} => io.state[Probe] = "closed"
  BY DEF Inv, EngineInv, ProbeState, Validated, Working
<1>4. Counted'
  BY <1>1, <1>3, Before, CountedNext
<1>5. ProbeState' /\ JobState' /\ NsState'
  <2>0. ProbeState /\ JobState /\ NsState
    BY DEF Inv, EngineInv
  <2>1. CASE pc' = pc /\ idx' = idx /\ (pc = "cleanup_ns" => run' = run)
    BY <1>1, <2>0, <2>1, SameShape DEF ProbeState, JobState, NsState, Skipped
  <2>2. CASE pc' = pc /\ pc \in {"iovers", "steps"}
    BY <1>1, <2>0, <2>2, SameShape
       DEF ProbeState, JobState, NsState, Probing, Validating, Validated, Working
  <2>3. CASE pc = "iovers" /\ pc' = "jobs" /\ idx' = 1
    <3>1. \A j \in Jobs : ~(j < 1)
      BY Before
    <3> QED BY <1>1, <2>0, <2>3, <3>1, SameShape
            DEF ProbeState, JobState, NsState, Probing, Validating, Validated, Working
  <2>4. CASE \/ pc = "steps" /\ pc' = "run"
             \/ pc = "run" /\ pc' \in {"cleanup", "spo_jobs"}
             \/ pc = "spo_power" /\ pc' = "spo_close"
    BY <1>1, <2>0, <2>4, SameShape
       DEF ProbeState, JobState, NsState, Probing, Validating, Validated, Working
  <2>5. CASE pc' \in {"end", "crashed", "killed", "hung"}
    BY <2>5, StoppedStates
  <2> QED BY <1>2, <2>1, <2>2, <2>3, <2>4, <2>5
<1> QED BY <1>1, <1>4, <1>5, Before DEF EngineInv

(* A process starts with no engine. *)
LEMMA FreshEngines ==
  setup \in Setups /\ io = NoEngines(setup) /\ pc = "validate" /\ idx = 1 => EngineInv
<1> SUFFICES ASSUME setup \in Setups, io = NoEngines(setup), pc = "validate", idx = 1
             PROVE  EngineInv
  OBVIOUS
<1>1. io = [state |-> [e \in Engines |-> "none"], nr |-> 0, attached |-> FALSE]
  BY DEF NoEngines, Engines
<1>2. io \in IoRecords(setup)
  BY <1>1 DEF IoRecords, States, Engines
<1>3. \A e \in Engines : io.state[e] = "none"
  BY <1>1
<1>4. OpenSpdk(io) = {}
  BY <1>3 DEF OpenSpdk
<1>5. Counted
  <2>1. Cardinality(OpenSpdk(io)) = 0
    BY <1>4, FS_EmptySet
  <2>2. io.nr = 0 /\ ~io.attached
    BY <1>1
  <2> QED BY <1>4, <2>1, <2>2 DEF Counted, AtLeast, Exact
<1>6. \A j \in Jobs : ~(j < 1)
  BY SetupFacts DEF Jobs
<1>7. ProbeState /\ JobState /\ NsState
  BY <1>3, <1>6, EngineFacts, SetupFacts
     DEF ProbeState, JobState, NsState, Probing, Validating, Validated, Working
<1> QED BY <1>2, <1>5, <1>7 DEF EngineInv

LEMMA EnginesNext ==
  Inv /\ [Next]_vars => EngineInv'
<1>1. (setup \in Setups /\ io = NoEngines(setup) /\ pc = "validate" /\ idx = 1 => EngineInv)'
  BY FreshEngines, PTL
<1> SUFFICES ASSUME Inv, [Next]_vars PROVE EngineInv'
  OBVIOUS
<1>2. CASE NextProcess
  <2>1. setup' \in Setups /\ io' = NoEngines(setup') /\ pc' = "validate" /\ idx' = 1
    BY <1>2 DEF NextProcess
  <2> QED BY <1>1, <2>1
<1>3. CASE Quiet
  BY <1>3, QuietEngines
<1> QED BY <1>2, <1>3, ProbeOpenEngines, IdentifyEngines, NsOpenEngines, BindEngines,
           ValidateFailsEngines, JobOpenEngines, JobFailsEngines, StepFailsEngines,
           CleanupJobsEngines, SpoJobsEngines, CleanupNsEngines DEF Next, Quiet
-----------------------------------------------------------------------------
(* The facts about the journals that the steps start from. *)
LEMMA JournalBefore ==
  ASSUME Inv
  PROVE  /\ JournalTypes /\ AllOpen /\ \A n \in Namespaces : Carried(n) /\ Kept(n)
         /\ \A n \in Namespaces : /\ mem[n] \in Journals /\ image[n] \in Journals
                                  /\ last[n] \in Journals /\ Kind(n) \in Kinds
  BY SetupFacts DEF Inv, Typed, JournalInv, JournalTypes, Kind, Namespaces

LEMMA JournalFields ==
  ASSUME NEW r \in Journals
  PROVE  /\ r.state \in {"absent", "short", "good"} /\ r.nhist \in Nat /\ r.desc \in Nat
         /\ r.ts \in Nat
         /\ r = [state |-> r.state, nhist |-> r.nhist, desc |-> r.desc, ts |-> r.ts]
  BY DEF Journals

LEMMA SameKind ==
  ASSUME setup' = setup
  PROVE  \A n : Kind(n)' = Kind(n)
  BY DEF Kind

(* Steps that leave journals and verifiers alone. *)
LEMMA JournalsUntouched ==
  ASSUME Inv, UNCHANGED <<setup, iovers, mem, image, last>>,
         pc' \in Resting => pc \in Resting, AllOpen'
  PROVE  JournalInv'
<1>1. Namespaces' = Namespaces /\ \A n : Kind(n)' = Kind(n)
  BY SameShape, SameKind
<1>2. JournalTypes'
  BY <1>1, JournalBefore DEF JournalTypes
<1>3. ASSUME NEW n \in Namespaces PROVE Carried(n)' /\ Kept(n)'
  <2>1. Carried(n) /\ Kept(n) /\ Kind(n)' = Kind(n)
    BY <1>1, JournalBefore
  <2> QED BY <2>1 DEF Carried, Kept, Watched, Same
<1> QED BY <1>1, <1>2, <1>3 DEF JournalInv

(* iover_exit: the journal is what the next process will find. *)
LEMMA ExitKeeps ==
  ASSUME Inv, NEW N, ExitIovers(N), UNCHANGED <<setup, mem, last>>
  PROVE  /\ JournalTypes'
         /\ \A n \in Namespaces : n \in N => iovers'[n] = "closed" /\ Carried(n)' /\ Kept(n)'
         /\ \A n \in Namespaces \ N : iovers'[n] = iovers[n] /\ image'[n] = image[n]
<1>1. Namespaces' = Namespaces /\ \A n : Kind(n)' = Kind(n)
  BY SameShape, SameKind
<1>2. /\ image' = [n \in Namespaces |-> IF n \in N THEN Saved(n) ELSE image[n]]
      /\ iovers' = [n \in Namespaces |-> IF n \in N THEN "closed" ELSE iovers[n]]
  BY DEF ExitIovers
<1>3. ASSUME NEW n \in Namespaces
      PROVE  /\ Saved(n) \in Journals
             /\ Kind(n) # "none" /\ Saved(n).state = "good" => Same(n, Saved(n), last[n])
  <2> DEFINE v == Saved(n)
  <2>1. /\ mem[n] \in Journals /\ image[n] \in Journals /\ Kind(n) \in Kinds
        /\ Carried(n) /\ Kept(n)
    BY JournalBefore
  <2>2. CASE iovers[n] # "open"
    <3>1. v = image[n]
      BY <2>2 DEF Saved
    <3> QED BY <2>1, <2>2, <3>1 DEF Kept
  <2>3. CASE iovers[n] = "open" /\ Kind(n) \in Files
    <3>1. v = [image[n] EXCEPT !.desc = mem[n].desc, !.ts = mem[n].ts]
      BY <2>3 DEF Saved
    <3>2. v \in Journals /\ v.desc = mem[n].desc /\ v.ts = mem[n].ts
      BY <2>1, <3>1 DEF Journals
    <3> QED BY <2>1, <2>3, <3>2 DEF Carried, Watched, Same
  <2>4. CASE iovers[n] = "open" /\ Kind(n) \notin Files
    <3>1. v = image[n]
      BY <2>4 DEF Saved
    <3> QED BY <2>1, <2>4, <3>1 DEF Carried, Watched, Same, Kinds, Files
  <2> QED BY <2>2, <2>3, <2>4
<1>4. JournalTypes'
  <2>1. iovers' \in [Namespaces -> {"none", "open", "closed"}]
    BY <1>2, JournalBefore DEF JournalTypes
  <2>2. image' \in [Namespaces -> Journals]
    BY <1>2, <1>3, JournalBefore
  <2> QED BY <1>1, <2>1, <2>2, JournalBefore DEF JournalTypes
<1>5. ASSUME NEW n \in Namespaces, n \in N
      PROVE  iovers'[n] = "closed" /\ Carried(n)' /\ Kept(n)'
  <2>1. iovers'[n] = "closed" /\ image'[n] = Saved(n) /\ Kind(n)' = Kind(n) /\ last' = last
    BY <1>1, <1>2, <1>5
  <2> QED BY <2>1, <1>3 DEF Carried, Watched, Kept, Same
<1> QED BY <1>2, <1>4, <1>5

(* Every verifier is closed. *)
LEMMA AllExit ==
  ASSUME Inv, ExitIovers(Namespaces), UNCHANGED <<setup, mem, last>>, pc' = "end"
  PROVE  JournalInv' /\ \A n \in Namespaces : iovers'[n] = "closed"
<1>1. Namespaces' = Namespaces
  BY SameShape
<1>2. AllOpen'
  BY DEF AllOpen
<1> QED BY <1>1, <1>2, ExitKeeps DEF JournalInv

LEMMA IoverOpenJournals ==
  ASSUME Inv, IoverOpen
  PROVE  JournalInv'
<1>1. /\ pc = "iovers" /\ (Kind(idx) = "none" \/ Valid(idx)) /\ setup' = setup
      /\ iovers' = [iovers EXCEPT ![idx] = "open"]
      /\ mem' = IF Kind(idx) = "none" THEN mem ELSE [mem EXCEPT ![idx] = Loaded(idx)]
      /\ image' = IF Kind(idx) = "none" THEN image ELSE [image EXCEPT ![idx] = Loaded(idx)]
      /\ last' = IF image[idx].state = "absent" THEN [last EXCEPT ![idx] = mem'[idx]] ELSE last
      /\ IF idx < Len(setup.kinds) THEN pc' = pc /\ idx' = idx + 1 ELSE pc' = "jobs" /\ idx' = 1
  BY DEF IoverOpen
<1>2. idx \in Namespaces /\ pc \in Resting
  BY <1>1 DEF Inv, Index, Resting, Opening
<1>3. Namespaces' = Namespaces /\ \A n : Kind(n)' = Kind(n)
  BY <1>1, SameShape, SameKind
<1>4. Loaded(idx) \in Journals
  <2>1. NewJournal(setup.nhist) \in Journals
    BY Before, SetupFacts DEF NewJournal, Journals
  <2> QED BY <2>1, <1>2, JournalBefore DEF Loaded
<1>5. mem' \in [Namespaces -> Journals] /\ image' \in [Namespaces -> Journals]
  BY <1>1, <1>2, <1>4, JournalBefore DEF JournalTypes
<1>6. JournalTypes'
  BY <1>1, <1>2, <1>3, <1>5, JournalBefore DEF JournalTypes
<1>7. iovers'[idx] = "open" /\ \A n \in Namespaces : n # idx => iovers'[n] = iovers[n]
  BY <1>1, <1>2, JournalBefore DEF JournalTypes
<1>8. ASSUME NEW n \in Namespaces, n # idx PROVE Carried(n)' /\ Kept(n)'
  <2>1. mem'[n] = mem[n] /\ image'[n] = image[n] /\ last'[n] = last[n]
    BY <1>1, <1>2, <1>8, JournalBefore DEF JournalTypes
  <2>2. Carried(n) /\ Kept(n) /\ Kind(n)' = Kind(n) /\ iovers'[n] = iovers[n]
    BY <1>3, <1>7, <1>8, JournalBefore
  <2> QED BY <1>2, <2>1, <2>2 DEF Carried, Kept, Watched, Same
<1>9. ASSUME NEW n \in Namespaces, n = idx PROVE Carried(n)' /\ Kept(n)'
  <2>1. Kind(n)' = Kind(n)
    BY <1>3
  <2>2. CASE Kind(n) = "none"
    BY <2>1, <2>2 DEF Carried, Kept, Watched
  <2>3. CASE Kind(n) # "none"
    <3>1. /\ Valid(n) /\ mem'[n] = Loaded(n) /\ image'[n] = Loaded(n)
          /\ last'[n] = IF image[n].state = "absent" THEN Loaded(n) ELSE last[n]
      BY <1>1, <1>9, <2>3, JournalBefore DEF JournalTypes
    <3>2. Loaded(n).state = "good"
      BY <3>1 DEF Valid
    <3>3. Same(n, Loaded(n), last'[n])
      <4>1. CASE image[n].state = "absent"
        BY <3>1, <4>1 DEF Same
      <4>2. CASE image[n].state # "absent"
        <5>1. Loaded(n) = image[n]
          BY <4>2 DEF Loaded
        <5>2. Kept(n)
          BY JournalBefore
        <5> QED BY <1>2, <2>3, <3>1, <3>2, <4>2, <5>1, <5>2 DEF Kept
      <4> QED BY <4>1, <4>2
    <3> QED BY <2>1, <3>1, <3>2, <3>3 DEF Carried, Kept, Watched, Same
  <2> QED BY <2>2, <2>3
<1>10. AllOpen'
  <2>1. \A n \in Namespaces : n <= idx => iovers'[n] = "open"
    <3>1. \A n \in Namespaces : n < idx => iovers[n] = "open"
      BY <1>1, JournalBefore DEF AllOpen
    <3> QED BY <1>2, <1>7, <3>1, Before
  <2>2. CASE idx < Len(setup.kinds)
    <3>1. \A n \in Namespaces : n < idx' => n <= idx
      BY <1>1, <1>2, <2>2, Before
    <3> QED BY <1>1, <1>3, <2>1, <2>2, <3>1 DEF AllOpen
  <2>3. CASE ~(idx < Len(setup.kinds))
    <3>1. \A n \in Namespaces : n <= idx
      BY <1>2, <2>3, Before
    <3> QED BY <1>1, <1>3, <2>1, <2>3, <3>1 DEF AllOpen
  <2> QED BY <2>2, <2>3
<1> QED BY <1>3, <1>6, <1>8, <1>9, <1>10 DEF JournalInv

LEMMA IoverFailsJournals ==
  ASSUME Inv, IoverFails
  PROVE  JournalInv'
<1>1. /\ pc = "iovers" /\ pc' = "end" /\ UNCHANGED <<setup, last, idx, iovers, mem>>
      /\ \/ image' = image
         \/ image[idx].state = "absent" /\ image' = [image EXCEPT ![idx].state = "short"]
  BY DEF IoverFails, Over
<1>2. AllOpen' /\ pc \in Resting
  BY <1>1 DEF AllOpen, Resting, Opening
<1>3. CASE image' = image
  BY <1>1, <1>2, <1>3, JournalsUntouched
<1>4. CASE image[idx].state = "absent" /\ image' = [image EXCEPT ![idx].state = "short"]
  <2>1. idx \in Namespaces
    BY <1>1 DEF Inv, Index
  <2>2. Namespaces' = Namespaces /\ \A n : Kind(n)' = Kind(n)
    BY <1>1, SameShape, SameKind
  <2>3. image' \in [Namespaces -> Journals] /\ image'[idx].state = "short"
        /\ \A n \in Namespaces : n # idx => image'[n] = image[n]
    BY <1>4, <2>1, JournalBefore DEF JournalTypes, Journals
  <2>4. JournalTypes'
    BY <1>1, <2>2, <2>3, JournalBefore DEF JournalTypes
  <2>5. ASSUME NEW n \in Namespaces PROVE Carried(n)' /\ Kept(n)'
    <3>1. Carried(n) /\ Kept(n) /\ Kind(n)' = Kind(n) /\ iovers'[n] = iovers[n]
          /\ mem'[n] = mem[n] /\ last'[n] = last[n]
      BY <1>1, <2>2, JournalBefore
    <3>2. CASE n # idx
      BY <1>2, <2>3, <3>1, <3>2 DEF Carried, Kept, Watched, Same
    <3>3. CASE n = idx
      BY <1>4, <2>3, <3>1, <3>3 DEF Carried, Kept, Watched
    <3> QED BY <3>2, <3>3
  <2> QED BY <1>2, <2>2, <2>4, <2>5 DEF JournalInv
<1> QED BY <1>1, <1>3, <1>4

LEMMA WorkJournals ==
  ASSUME Inv, Work
  PROVE  JournalInv'
<1>1. PICK n \in Namespaces :
        /\ mem' = [mem EXCEPT ![n].desc = @ + 1, ![n].ts = @ + 1]
        /\ last' = [last EXCEPT ![n] = mem'[n]]
        /\ image' = IF Kind(n) \in {"shm", "mmap"} THEN [image EXCEPT ![n].desc = mem'[n].desc]
                                                   ELSE image
  BY DEF Work
<1>2. pc = "run" /\ UNCHANGED <<setup, pc, idx, iovers>>
  BY DEF Work
<1>3. Namespaces' = Namespaces /\ \A m : Kind(m)' = Kind(m)
  BY <1>2, SameShape, SameKind
<1>4. /\ mem' \in [Namespaces -> Journals] /\ \A m \in Namespaces : m # n => mem'[m] = mem[m]
  <2>1. /\ mem \in [Namespaces -> Journals] /\ mem[n].desc + 1 \in Nat /\ mem[n].ts + 1 \in Nat
        /\ mem[n] \in Journals
    BY JournalBefore, JournalFields DEF JournalTypes
  <2>2. mem' = [mem EXCEPT ![n] = [mem[n] EXCEPT !.desc = mem[n].desc + 1, !.ts = mem[n].ts + 1]]
    BY <1>1, <2>1, JournalFields
  <2>3. [mem[n] EXCEPT !.desc = mem[n].desc + 1, !.ts = mem[n].ts + 1] \in Journals
    BY <2>1 DEF Journals
  <2> QED BY <2>1, <2>2, <2>3
<1>5. /\ last' \in [Namespaces -> Journals] /\ last'[n] = mem'[n]
      /\ \A m \in Namespaces : m # n => last'[m] = last[m]
  BY <1>1, <1>4, JournalBefore DEF JournalTypes
<1>6. /\ image' \in [Namespaces -> Journals] /\ image'[n].state = image[n].state
      /\ Kind(n) \in {"shm", "mmap"} => image'[n].desc = mem'[n].desc
      /\ \A m \in Namespaces : m # n => image'[m] = image[m]
  <2>1. image \in [Namespaces -> Journals] /\ mem'[n].desc \in Nat
    BY <1>4, JournalBefore, JournalFields DEF JournalTypes
  <2> QED BY <1>1, <2>1 DEF Journals
<1>7. JournalTypes' /\ AllOpen'
  BY <1>2, <1>3, <1>4, <1>5, <1>6, JournalBefore DEF JournalTypes, AllOpen
<1>8. ASSUME NEW m \in Namespaces PROVE Carried(m)' /\ Kept(m)'
  <2>1. /\ Carried(m) /\ Kept(m) /\ Kind(m)' = Kind(m) /\ iovers'[m] = iovers[m]
        /\ iovers[m] = "open"
    BY <1>2, <1>3, JournalBefore DEF AllOpen
  <2>2. Kept(m)'
    BY <1>2, <2>1 DEF Kept, Resting, Opening, Validating, Probing
  <2>3. CASE m # n
    BY <1>4, <1>5, <1>6, <2>1, <2>2, <2>3 DEF Carried, Watched, Same
  <2>4. CASE m = n
    BY <1>5, <1>6, <2>1, <2>2, <2>4 DEF Carried, Watched, Same
  <2> QED BY <2>3, <2>4
<1> QED BY <1>3, <1>7, <1>8 DEF JournalInv

LEMMA CleanupNsJournals ==
  ASSUME Inv, CleanupNs
  PROVE  /\ JournalInv' /\ iovers'[idx] = "closed"
         /\ \A n \in Namespaces : n # idx => iovers'[n] = iovers[n]
<1>1. /\ pc = "cleanup_ns" /\ ExitIovers({idx}) /\ UNCHANGED <<setup, mem, last>>
      /\ IF idx < Len(setup.kinds) THEN pc' = pc /\ idx' = idx + 1 ELSE pc' = "end" /\ idx' = 1
  BY DEF CleanupNs
<1>2. idx \in Namespaces
  BY <1>1 DEF Inv, Index
<1>3. Namespaces' = Namespaces /\ \A n : Kind(n)' = Kind(n)
  BY <1>1, SameShape, SameKind
<1>4. /\ JournalTypes'
      /\ \A n \in Namespaces : n \in {idx} => iovers'[n] = "closed" /\ Carried(n)' /\ Kept(n)'
      /\ \A n \in Namespaces \ {idx} : iovers'[n] = iovers[n] /\ image'[n] = image[n]
  BY <1>1, ExitKeeps
<1>5. AllOpen'
  <2>1. \A n \in Namespaces : n >= idx => iovers[n] = "open"
    BY <1>1, JournalBefore DEF AllOpen
  <2>2. CASE idx < Len(setup.kinds)
    <3>1. \A n \in Namespaces : n >= idx' => n >= idx /\ n # idx
      BY <1>1, <1>2, <2>2, Before
    <3> QED BY <1>1, <1>3, <1>4, <2>1, <2>2, <3>1 DEF AllOpen
  <2>3. CASE ~(idx < Len(setup.kinds))
    BY <1>1, <2>3 DEF AllOpen
  <2> QED BY <2>2, <2>3
<1>6. ASSUME NEW n \in Namespaces, n # idx PROVE Carried(n)' /\ Kept(n)'
  <2>1. /\ Carried(n) /\ Kept(n) /\ Kind(n)' = Kind(n) /\ mem'[n] = mem[n] /\ last'[n] = last[n]
        /\ iovers'[n] = iovers[n] /\ image'[n] = image[n]
    BY <1>1, <1>3, <1>4, <1>6, JournalBefore
  <2>2. Carried(n)'
    BY <2>1 DEF Carried, Watched, Same
  <2>3. pc' \in Resting => iovers[n] # "open"
    <3>1. pc' \in Resting => ~(idx < Len(setup.kinds))
      BY <1>1 DEF Resting, Opening, Validating, Probing
    <3>2. ~(idx < Len(setup.kinds)) => n < idx
      BY <1>2, <1>6, Before
    <3>3. n < idx => iovers[n] = "closed"
      BY <1>1 DEF Inv, RunInv, Released
    <3> QED BY <3>1, <3>2, <3>3
  <2> QED BY <2>1, <2>2, <2>3 DEF Kept, Same
<1> QED BY <1>2, <1>3, <1>4, <1>5, <1>6 DEF JournalInv

(* The next process finds the journal as the last one wrote it; where that *)
(* one was killed, as far as it was written.                               *)
LEMMA NextProcessJournals ==
  ASSUME Inv, NextProcess
  PROVE  JournalInv'
<1>1. /\ pc \in {"end", "crashed", "killed", "hung"} /\ pc' = "validate"
      /\ setup' \in Setups /\ setup'.kinds = setup.kinds /\ image' = image
      /\ iovers' = [n \in Namespaces |-> "none"]
      /\ mem' = [n \in Namespaces |-> NewJournal(setup'.nhist)]
      /\ last' = IF pc \notin {"killed", "hung"} THEN last
                 ELSE [n \in Namespaces |-> IF Kind(n) = "file" THEN image[n]
                                            ELSE [last[n] EXCEPT !.ts = image[n].ts]]
  BY DEF NextProcess
<1>2. Namespaces' = Namespaces /\ \A n : Kind(n)' = Kind(n)
  BY <1>1 DEF Namespaces, Kind
<1>3. NewJournal(setup'.nhist) \in Journals
  BY <1>1, SetupFacts DEF NewJournal, Journals
<1>4. \A n \in Namespaces : [last[n] EXCEPT !.ts = image[n].ts] \in Journals
  BY JournalBefore, JournalFields DEF Journals
<1>5. last' \in [Namespaces -> Journals]
  BY <1>1, <1>4, JournalBefore DEF JournalTypes
<1>6. JournalTypes' /\ AllOpen'
  BY <1>1, <1>2, <1>3, <1>5, JournalBefore DEF JournalTypes, AllOpen
<1>7. ASSUME NEW n \in Namespaces PROVE Carried(n)' /\ Kept(n)'
  <2>1. /\ Carried(n) /\ Kept(n) /\ Kind(n)' = Kind(n) /\ iovers'[n] = "none"
        /\ image'[n] = image[n] /\ last[n] \in Journals /\ Kind(n) \in Kinds
    BY <1>1, <1>2, JournalBefore
  <2>2. Carried(n)'
    BY <2>1 DEF Carried, Watched
  <2>3. CASE pc \notin {"killed", "hung"}
    <3>1. pc \in Resting /\ last' = last
      BY <1>1, <2>3 DEF Resting
    <3> QED BY <2>1, <2>2, <3>1 DEF Kept, Same
  <2>4. CASE pc \in {"killed", "hung"} /\ Kind(n) = "file"
    <3>1. last'[n] = image[n]
      BY <1>1, <2>4
    <3> QED BY <2>1, <2>2, <3>1 DEF Kept, Same
  <2>5. CASE pc \in {"killed", "hung"} /\ Kind(n) \in {"shm", "mmap"}
    <3>1. last'[n] = [last[n] EXCEPT !.ts = image[n].ts]
      BY <1>1, <2>5
    <3>2. last'[n].desc = last[n].desc /\ last'[n].ts = image[n].ts
      BY <2>1, <3>1 DEF Journals
    <3>3. image[n].state = "good" => image[n].desc = last[n].desc
      BY <2>1, <2>5 DEF Carried, Kept, Watched, Same
    <3> QED BY <2>1, <2>2, <3>2, <3>3 DEF Kept, Same
  <2>6. CASE Kind(n) = "none"
    BY <2>1, <2>2, <2>6 DEF Kept
  <2> QED BY <2>1, <2>3, <2>4, <2>5, <2>6 DEF Kinds
<1> QED BY <1>2, <1>6, <1>7 DEF JournalInv

LEMMA JournalsNext ==
  ASSUME Inv, [Next]_vars
  PROVE  JournalInv'
<1>1. CASE JobFails
  BY <1>1, AllExit DEF JobFails, Over
<1>2. CASE StepFails
  <2>1. CASE \E k \in 1 .. idx - 1 : Steps[k] \in Logs \ open
    <3>1. /\ pc = "steps" /\ pc' = "crashed" /\ UNCHANGED <<setup, iovers, mem, image, last>>
      BY <1>2, <2>1 DEF StepFails
    <3>2. AllOpen' /\ pc \in Resting
      BY <3>1 DEF AllOpen, Resting, Opening
    <3> QED BY <3>1, <3>2, JournalsUntouched
  <2>2. CASE ~\E k \in 1 .. idx - 1 : Steps[k] \in Logs \ open
    BY <1>2, <2>2, AllExit DEF StepFails, Over
  <2> QED BY <2>1, <2>2
<1>3. CASE SpoClose
  BY <1>3, AllExit DEF SpoClose
<1>4. CASE CleanupJobs
  <2>1. /\ pc = "cleanup" /\ pc' = "cleanup_ns" /\ idx' = 1
        /\ UNCHANGED <<setup, iovers, mem, image, last>>
    BY <1>4 DEF CleanupJobs
  <2>2. AllOpen' /\ pc' \notin Resting
    BY <2>1, JournalBefore, SameShape DEF AllOpen, Resting, Opening, Validating, Probing
  <2> QED BY <2>1, <2>2, JournalsUntouched
<1> DEFINE Others ==
      \/ ProbeOpen \/ Identify \/ NsOpen \/ Bind \/ ValidateFails
      \/ ShortFile \/ MemoryMissing \/ JobOpen \/ StepDone
      \/ PowerLost \/ Signal \/ RunEnds \/ RunFails
      \/ SmartLogStuck \/ SpoJobs \/ SpoPower \/ Kill \/ UNCHANGED vars
<1>5. CASE Others
  <2>1. UNCHANGED <<setup, iovers, mem, image, last>>
    BY <1>5 DEF ProbeOpen, Identify, NsOpen, Bind, ValidateFails, ShortFile, MemoryMissing,
       JobOpen, StepDone, PowerLost, Signal, RunEnds, RunFails, SmartLogStuck, SpoJobs,
       SpoPower, Kill, vars, ProcessOnly
  <2>2. \/ pc' = pc /\ (idx' = idx \/ pc \in {"jobs", "steps"})
        \/ pc \in Validating /\ pc' \in Validating \cup {"end"}
        \/ pc = "bind" /\ pc' = "iovers" /\ idx' = 1
        \/ pc \in Opening /\ pc' \in {"crashed", "hung"}
        \/ pc = "jobs" /\ pc' = "steps"
        \/ pc = "steps" /\ pc' = "run"
        \/ pc = "run" /\ pc' \in {"cleanup", "spo_jobs"}
        \/ pc = "spo_jobs" /\ pc' = "spo_power"
        \/ pc = "spo_power" /\ pc' = "spo_close"
        \/ pc' \in {"killed", "hung"}
    BY <1>5 DEF ProbeOpen, Identify, NsOpen, Bind, ValidateFails, ShortFile, MemoryMissing,
       JobOpen, StepDone, NextStep, PowerLost, Signal, RunEnds, RunFails, CleanupPc,
       SmartLogStuck, SpoJobs, SpoPower, Kill, vars, ProcessOnly, Over, Validating, Probing,
       Opening
  <2>3. pc' \in Resting => pc \in Resting
    BY <2>2 DEF Resting, Opening, Validating, Probing
  <2>4. AllOpen /\ Namespaces' = Namespaces /\ \A n \in Namespaces : ~(n < 1)
    BY <2>1, JournalBefore, SameShape, Before
  <2>5. AllOpen'
    BY <2>1, <2>2, <2>4 DEF AllOpen, Opening, Validating, Probing
  <2> QED BY <2>1, <2>3, <2>5, JournalsUntouched
<1> QED BY <1>1, <1>2, <1>3, <1>4, <1>5, IoverOpenJournals, IoverFailsJournals, WorkJournals,
           CleanupNsJournals, NextProcessJournals DEF Next
-----------------------------------------------------------------------------
(* What a step may do to the record of the run. *)
LEMMA RunStep ==
  ASSUME Inv, [Next]_vars
  PROVE  /\ run' \in Runs
         /\ setup' = setup \/ NextProcess
         /\ \/ run' = run
            \/ pc \in Opening /\ run' = [run EXCEPT !.res = -1] /\ run'.res = -1 /\ run'.cut = run.cut
            \/ /\ pc = "run" /\ run'.cut = run.cut /\ setup' = setup
               /\ run'.flight => run.flight \/ setup.level = 3 \/ run'.signal = "usr1" \/ run'.res # 0
               /\ run.signal = "usr1" => run'.signal = "usr1"
               /\ run.res # 0 => run'.res # 0
            \/ SpoPower
            \/ NextProcess /\ run' = NotRun
<1>1. run \in Runs
  BY Before
<1>2. CASE Signal
  <2>1. PICK s \in {"int", "usr1"} : run' = [run EXCEPT !.signal = s]
    BY <1>2 DEF Signal
  <2>2. pc = "run" /\ run.signal = "none" /\ setup' = setup
    BY <1>2 DEF Signal
  <2>3. /\ run' \in Runs /\ run'.cut = run.cut /\ run'.flight = run.flight
        /\ run'.res = run.res /\ run'.signal = s
    BY <1>1, <2>1 DEF Runs
  <2> QED BY <2>2, <2>3
<1>3. CASE RunEnds
  <2>1. PICK f \in BOOLEAN :
          /\ run' = [run EXCEPT !.flight = f]
          /\ f => setup.level = 3 \/ run.signal = "usr1"
    BY <1>3 DEF RunEnds
  <2>2. pc = "run" /\ setup' = setup
    BY <1>3 DEF RunEnds
  <2>3. /\ run' \in Runs /\ run'.cut = run.cut /\ run'.flight = f
        /\ run'.res = run.res /\ run'.signal = run.signal
    BY <1>1, <2>1 DEF Runs
  <2> QED BY <2>1, <2>2, <2>3
<1>4. CASE RunFails
  <2>1. PICK f \in BOOLEAN : run' = [run EXCEPT !.flight = f, !.res = -1]
    BY <1>4 DEF RunFails
  <2>2. pc = "run" /\ setup' = setup
    BY <1>4 DEF RunFails
  <2>3. run' \in Runs /\ run'.cut = run.cut /\ run'.res = -1 /\ run'.signal = run.signal
    BY <1>1, <2>1 DEF Runs
  <2> QED BY <2>2, <2>3
<1>5. CASE SpoPower
  <2>1. /\ run' = [run EXCEPT !.cut = setup.level >= 2 /\ run.signal = "none"]
        /\ setup' = setup
    BY <1>5 DEF SpoPower
  <2>2. (setup.level >= 2 /\ run.signal = "none") \in BOOLEAN
    OBVIOUS
  <2>3. run' \in Runs
    BY <1>1, <2>1, <2>2 DEF Runs
  <2> QED BY <1>5, <2>1, <2>3
<1>6. CASE NextProcess
  BY <1>6 DEF NextProcess, NotRun, Runs
<1> DEFINE Fails == ValidateFails \/ IoverFails \/ JobFails \/ StepFails
           Others ==
             \/ ProbeOpen \/ Identify \/ NsOpen \/ Bind \/ IoverOpen
             \/ ShortFile \/ MemoryMissing \/ JobOpen \/ StepDone \/ Work
             \/ PowerLost \/ CleanupJobs \/ CleanupNs
             \/ SmartLogStuck \/ SpoJobs \/ SpoClose \/ Kill \/ UNCHANGED vars
<1>7. CASE Fails
  <2>1. pc \in Opening /\ setup' = setup /\ (run' = run \/ run' = [run EXCEPT !.res = -1])
    BY <1>7 DEF ValidateFails, IoverFails, JobFails, StepFails, Over, ProcessOnly, Opening,
                Validating, Probing
  <2>2. run' = [run EXCEPT !.res = -1] => run' \in Runs /\ run'.res = -1 /\ run'.cut = run.cut
    BY <1>1 DEF Runs
  <2> QED BY <1>1, <2>1, <2>2
<1>8. CASE Others
  <2>1. setup' = setup /\ run' = run
    BY <1>8 DEF ProbeOpen, Identify, NsOpen, Bind, IoverOpen, ShortFile, MemoryMissing,
       JobOpen, StepDone, Work, PowerLost, CleanupJobs, CleanupNs, SmartLogStuck, SpoJobs,
       SpoClose, Kill, vars, ProcessOnly
  <2> QED BY <1>1, <2>1
<1> QED BY <1>2, <1>3, <1>4, <1>5, <1>6, <1>7, <1>8 DEF Next

LEMMA TypedNext ==
  ASSUME Inv, [Next]_vars
  PROVE  Typed'
<1>1. Typed /\ run' \in Runs
  BY RunStep DEF Inv
<1>2. setup' \in Setups
  BY <1>1, RunStep DEF NextProcess, Typed
<1>3. pc' \in Stages
  BY <1>1 DEF Typed, Next, ProbeOpen, Identify, NsOpen, Bind, ValidateFails, IoverOpen, IoverFails,
     ShortFile, MemoryMissing, JobOpen, JobFails, StepDone, StepFails, NextStep, Work, PowerLost,
     Signal, RunEnds, RunFails, CleanupPc, CleanupJobs, CleanupNs, SmartLogStuck, SpoJobs,
     SpoPower, SpoClose, Kill, NextProcess, vars, Over,
     Stages, Validating, Probing, Validated, Working
<1>4. procs' \in 1 .. MaxProcs
  <2>1. procs' = procs \/ (procs < MaxProcs /\ procs' = procs + 1)
    BY DEF Next, ProbeOpen, Identify, NsOpen, Bind, ValidateFails, IoverOpen, IoverFails,
     ShortFile, MemoryMissing, JobOpen, JobFails, StepDone, StepFails, Work, PowerLost,
     Signal, RunEnds, RunFails, CleanupJobs, CleanupNs, SmartLogStuck, SpoJobs,
     SpoPower, SpoClose, Kill, NextProcess, vars, ProcessOnly
  <2> QED BY <1>1, <2>1, BoundsAssumption DEF Typed
<1>5. fails' \in 0 .. MaxFails
  <2>1. fails' = fails \/ (fails < MaxFails /\ fails' = fails + 1)
    BY DEF Next, ProbeOpen, Identify, NsOpen, Bind, ValidateFails, IoverOpen, IoverFails,
     ShortFile, MemoryMissing, JobOpen, JobFails, StepDone, StepFails, Work, PowerLost,
     Signal, RunEnds, RunFails, CleanupJobs, CleanupNs, SmartLogStuck, SpoJobs,
     SpoPower, SpoClose, Kill, NextProcess, vars, Fail
  <2> QED BY <1>1, <2>1, BoundsAssumption DEF Typed
<1>6. open' \subseteq {Steps[k] : k \in 1 .. Len(Steps)}
  <2> DEFINE All == {Steps[k] : k \in 1 .. Len(Steps)}
  <2>1. open' = open \/ open' = {} \/ StepDone
    BY DEF Next, ProbeOpen, Identify, NsOpen, Bind, ValidateFails, IoverOpen, IoverFails,
     ShortFile, MemoryMissing, JobOpen, JobFails, StepFails, Work, PowerLost,
     Signal, RunEnds, RunFails, CleanupJobs, CleanupNs, SmartLogStuck, SpoJobs,
     SpoPower, SpoClose, Kill, NextProcess, vars
  <2>2. open \subseteq All
    BY <1>1 DEF Typed
  <2>3. StepDone => Steps[idx] \in All /\ (open' = open \/ open' = open \cup {Steps[idx]})
    BY DEF StepDone, Inv, Index
  <2> HIDE DEF All
  <2>4. open' \subseteq All
    BY <2>1, <2>2, <2>3
  <2> QED BY <2>4 DEF All
<1>7. powered' \in BOOLEAN
  <2>1. powered' = powered \/ powered' = TRUE \/ powered' = FALSE \/ SpoPower
    BY DEF Next, ProbeOpen, Identify, NsOpen, Bind, ValidateFails, IoverOpen, IoverFails,
     ShortFile, MemoryMissing, JobOpen, JobFails, StepDone, StepFails, Work, PowerLost,
     Signal, RunEnds, RunFails, CleanupJobs, CleanupNs, SmartLogStuck, SpoJobs,
     SpoClose, Kill, NextProcess, vars, ProcessOnly
  <2>2. SpoPower => powered' \in BOOLEAN
    BY DEF SpoPower
  <2> QED BY <1>1, <2>1, <2>2 DEF Typed
<1> QED BY <1>1, <1>2, <1>3, <1>4, <1>5, <1>6, <1>7 DEF Typed

LEMMA IndexNext ==
  ASSUME Inv, [Next]_vars
  PROVE  Index'
<1>1. Index /\ 1 \in Jobs /\ 1 \in Namespaces
  BY Before DEF Inv
<1>2. CASE NextProcess
  <2>1. setup' \in Setups /\ pc' = "validate" /\ idx' = 1
    BY <1>2 DEF NextProcess
  <2>2. Len(setup'.jobs) \in Nat \ {0}
    BY <2>1, SetupFacts
  <2> QED BY <2>1, <2>2 DEF Index, Jobs
<1>3. CASE ~NextProcess
  <2>1. setup' = setup
    BY <1>3, RunStep
  <2>2. Jobs' = Jobs /\ Namespaces' = Namespaces
    BY <2>1, SameShape
  <2>3. \/ idx' = idx
             /\ (\/ pc' = pc \/ (pc \in Validating /\ pc' \in Validating)
                 \/ pc' \notin Validating \cup {"jobs", "iovers", "cleanup_ns", "steps"})
        \/ idx' = 1 /\ (pc' \notin Validating)
        \/ pc = "bind" /\ pc' = "validate" /\ idx < Len(setup.jobs) /\ idx' = idx + 1
        \/ pc = "jobs" /\ pc' = "jobs" /\ idx < Len(setup.jobs) /\ idx' = idx + 1
        \/ pc = "iovers" /\ pc' = "iovers" /\ idx < Len(setup.kinds) /\ idx' = idx + 1
        \/ pc = "cleanup_ns" /\ pc' = "cleanup_ns" /\ idx < Len(setup.kinds) /\ idx' = idx + 1
        \/ pc = "steps" /\ pc' = "steps" /\ idx < Len(Steps) /\ idx' = idx + 1
    BY <1>3 DEF Next, ProbeOpen, Identify, NsOpen, Bind, ValidateFails, IoverOpen, IoverFails,
     ShortFile, MemoryMissing, JobOpen, JobFails, StepDone, StepFails, NextStep, Work, PowerLost,
     Signal, RunEnds, RunFails, CleanupPc, CleanupJobs, CleanupNs, SmartLogStuck, SpoJobs,
     SpoPower, SpoClose, Kill, vars, Over, ProcessOnly, Validating, Probing
  <2>4. Len(Steps) = 5
    BY DEF Steps
  <2>5. Len(Steps)' = Len(Steps)
    BY DEF Steps
  <2>6. 1 \in 1 .. Len(Steps)
    BY <2>4
  <2>7. CASE idx' = idx \/ idx' = 1
    BY <1>1, <2>2, <2>3, <2>5, <2>6, <2>7, Before DEF Index, Validating, Probing
  <2>8. CASE idx' # idx /\ idx' # 1
    BY <1>1, <2>2, <2>3, <2>4, <2>8, Before DEF Index, Validating, Probing
  <2> QED BY <2>7, <2>8
<1> QED BY <1>2, <1>3

(* The cut: what holds when the power is switched off holds to the end. *)
LEMMA CutNext ==
  ASSUME Inv, [Next]_vars
  PROVE  Cut' /\ Flight'
<1>1. Cut /\ Flight /\ run \in Runs /\ run' \in Runs
  BY Before, RunStep DEF Inv, RunInv
<1>2. CASE NextProcess
  BY <1>2 DEF NextProcess, NotRun, Cut, Flight
<1>3. CASE SpoPower
  <2>1. /\ pc = "spo_power" /\ pc' = "spo_close" /\ setup' = setup /\ io' = io
        /\ run' = [run EXCEPT !.cut = setup.level >= 2 /\ run.signal = "none"]
    BY <1>3 DEF SpoPower
  <2>2. /\ run'.signal = run.signal /\ run'.flight = run.flight /\ run'.res = run.res
        /\ run'.cut <=> setup.level >= 2 /\ run.signal = "none"
    BY <1>1, <2>1 DEF Runs
  <2>3. Flight'
    BY <1>1, <2>1, <2>2 DEF Flight
  <2>4. setup.level = 2 => \A e \in JobEngines : io.state[e] = "closed"
    BY <2>1 DEF Inv, EngineInv, JobState, JobEngines
  <2>5. setup.level = 2 /\ run.res = 0 /\ run.signal = "none" => ~run.flight
    BY <1>1 DEF Flight
  <2>6. JobEngines' = JobEngines
    BY <2>1, SameShape DEF JobEngines
  <2> QED BY <2>1, <2>2, <2>3, <2>4, <2>5, <2>6 DEF Cut, CutDrained
<1>4. CASE ~NextProcess /\ ~SpoPower
  <2>1. setup' = setup
    BY <1>4, RunStep
  <2>2. Flight'
    <3>1. CASE run' = run
      BY <1>1, <2>1, <3>1 DEF Flight
    <3>2. CASE run'.res = -1
      BY <3>2 DEF Flight
    <3>3. CASE run' # run /\ run'.res # -1
      BY <1>1, <1>4, <2>1, <3>3, RunStep DEF Flight, Runs
    <3> QED BY <3>1, <3>2, <3>3
  <2>3. run'.cut = run.cut
    BY <1>4, RunStep
  <2>4. Cut'
    <3>1. CASE ~run.cut
      BY <2>3, <3>1 DEF Cut
    <3>2. CASE run.cut
      <4>1. pc \in {"spo_close", "end", "killed"} /\ CutDrained
        BY <1>1, <3>2 DEF Cut
      <4>2. run' = run /\ io' = io /\ pc' \in {"spo_close", "end", "killed"}
        BY <1>4, <4>1 DEF Next, ProbeOpen, Identify, NsOpen, Bind, ValidateFails, IoverOpen,
           IoverFails, ShortFile, MemoryMissing, JobOpen, JobFails, StepDone, StepFails, Work,
           PowerLost, Signal, RunEnds, RunFails, CleanupJobs, CleanupNs, SmartLogStuck, SpoJobs,
           SpoClose, Kill, vars, ProcessOnly
      <4>3. JobEngines' = JobEngines
        BY <2>1, SameShape DEF JobEngines
      <4> QED BY <2>1, <4>1, <4>2, <4>3 DEF Cut, CutDrained
    <3> QED BY <3>1, <3>2
  <2> QED BY <2>2, <2>4
<1> QED BY <1>2, <1>3, <1>4

LEMMA ReleasedNext ==
  ASSUME Inv, [Next]_vars
  PROVE  Levels' /\ Released'
<1>1. Levels /\ Released /\ run \in Runs
  BY Before DEF Inv, RunInv
<1>2. CASE NextProcess
  BY <1>2 DEF NextProcess, Levels, Released, Spo
<1>3. CASE ~NextProcess
  <2>1. setup' = setup /\ Namespaces' = Namespaces /\ Engines' = Engines
    BY <1>3, RunStep, SameShape
  <2>2. Levels'
    <3>1. \/ pc' \notin {"cleanup", "cleanup_ns"} \cup Spo
          \/ pc' = CleanupPc
          \/ pc \in {"cleanup", "cleanup_ns"} /\ pc' \in {"cleanup", "cleanup_ns"}
          \/ pc \in Spo /\ pc' \in Spo
      BY <1>3 DEF Next, ProbeOpen, Identify, NsOpen, Bind, ValidateFails, IoverOpen, IoverFails,
         ShortFile, MemoryMissing, JobOpen, JobFails, StepDone, StepFails, NextStep, Work,
         PowerLost, Signal, RunEnds, RunFails, CleanupJobs, CleanupNs, SmartLogStuck,
         SpoJobs, SpoPower, SpoClose, Kill, vars, Over, ProcessOnly, Spo
    <3> QED BY <1>1, <2>1, <3>1 DEF Levels, CleanupPc, Spo
  <2>3. CASE CleanupJobs
    <3>1. pc' = "cleanup_ns" /\ open' = {} /\ idx' = 1
      BY <2>3 DEF CleanupJobs
    <3>2. \A n \in Namespaces : ~(n < 1)
      BY Before
    <3> QED BY <2>1, <2>2, <3>1, <3>2 DEF Released
  <2>4. CASE CleanupNs
    <3>1. /\ pc = "cleanup_ns" /\ open' = open /\ run' = run
          /\ IF idx < Len(setup.kinds) THEN pc' = pc /\ idx' = idx + 1
                                       ELSE pc' = "end" /\ idx' = 1
          /\ io' = IF Skipped THEN io ELSE Exited(io, {NsEngine(idx)})
      BY <2>4 DEF CleanupNs
    <3>2. idx \in Namespaces /\ open = {} /\ \A n \in Namespaces : n < idx => iovers[n] = "closed"
      BY <1>1, <3>1 DEF Inv, Index, Released
    <3>3. \A n \in Namespaces : n <= idx => iovers'[n] = "closed"
      BY <2>4, <3>2, CleanupNsJournals, Before
    <3>4. CASE idx < Len(setup.kinds)
      <4>1. \A n \in Namespaces : n < idx' => n <= idx
        BY <3>1, <3>2, <3>4, Before
      <4> QED BY <2>1, <2>2, <3>1, <3>2, <3>3, <3>4, <4>1 DEF Released
    <3>5. CASE ~(idx < Len(setup.kinds))
      <4>1. \A n \in Namespaces : n <= idx
        BY <3>2, <3>5, Before
      <4>2. Skipped' = Skipped
        BY <2>1, <3>1 DEF Skipped
      <4>3. ASSUME ~Skipped PROVE \A e \in Engines : io'.state[e] = "closed"
        <5>1. /\ io.state[Probe] = "closed" /\ \A j \in Jobs : io.state[JobEngine(j)] = "closed"
              /\ \A n \in Namespaces : n < idx => io.state[NsEngine(n)] = "closed"
              /\ io.state[NsEngine(idx)] = "open"
          BY <3>1, <3>2, <4>3, Before DEF Inv, EngineInv, ProbeState, NsState, JobState, Validated
        <5>2. {NsEngine(idx)} \in SUBSET Engines /\ \A e \in {NsEngine(idx)} : io.state[e] = "open"
          BY <3>2, <5>1, Before, EngineFacts
        <5>3. \A d \in Engines :
                io'.state[d] = IF d \in {NsEngine(idx)} THEN "closed" ELSE io.state[d]
          BY <3>1, <4>3, <5>2, Before, ExitedCounts
        <5>4. \A n \in Namespaces : io'.state[NsEngine(n)] = "closed"
          BY <3>2, <4>1, <5>1, <5>3, Before, EngineFacts
        <5> QED BY <5>1, <5>3, <5>4, Before, EngineFacts
      <4> QED BY <2>1, <2>2, <3>1, <3>2, <3>3, <3>5, <4>1, <4>2, <4>3 DEF Released
    <3> QED BY <3>4, <3>5
  <2>5. CASE ~CleanupJobs /\ ~CleanupNs
    <3>1. \/ pc' \notin {"cleanup_ns", "end"}
          \/ pc' = "end" /\ (run'.res = -1 \/ pc = "spo_close")
          \/ UNCHANGED vars
      <4>1. \/ pc' \notin {"cleanup_ns", "end"}
            \/ pc' = "end" /\ (run' = [run EXCEPT !.res = -1] \/ pc = "spo_close")
            \/ UNCHANGED vars
        BY <1>3, <2>5 DEF Next, ProbeOpen, Identify, NsOpen, Bind, ValidateFails, IoverOpen,
         IoverFails, ShortFile, MemoryMissing, JobOpen, JobFails, StepDone, StepFails, NextStep,
         Work, PowerLost, Signal, RunEnds, RunFails, CleanupPc, SmartLogStuck,
         SpoJobs, SpoPower, SpoClose, Kill, vars, Over, ProcessOnly
      <4> QED BY <1>1, <4>1 DEF Runs
    <3>2. CASE pc' \notin {"cleanup_ns", "end"}
      BY <2>2, <3>2 DEF Released
    <3>3. CASE pc' = "end" /\ run'.res = -1
      BY <2>2, <3>3 DEF Released
    <3>4. CASE pc' = "end" /\ pc = "spo_close"
      BY <1>1, <2>1, <2>2, <3>4 DEF Released, Levels, Spo
    <3>5. CASE UNCHANGED vars
      <4>1. Skipped' = Skipped
        BY <3>5 DEF Skipped, vars
      <4> QED BY <1>1, <2>1, <2>2, <3>5, <4>1 DEF Released, vars
    <3> QED BY <3>1, <3>2, <3>3, <3>4, <3>5
  <2> QED BY <2>3, <2>4, <2>5
<1> QED BY <1>2, <1>3
-----------------------------------------------------------------------------
LEMMA InitInv == Init => Inv
<1> SUFFICES ASSUME Init PROVE Inv
  OBVIOUS
<1>1. /\ setup \in Setups /\ pc = "validate" /\ idx = 1 /\ io = NoEngines(setup) /\ open = {}
      /\ run = NotRun /\ iovers = [n \in Namespaces |-> "none"]
      /\ mem = [n \in Namespaces |-> NewJournal(setup.nhist)]
      /\ image = [n \in Namespaces |-> Absent]
      /\ last = [n \in Namespaces |-> NewJournal(setup.nhist)]
      /\ powered = TRUE /\ procs = 1 /\ fails = 0
  BY DEF Init
<1>2. Typed
  BY <1>1, BoundsAssumption DEF Typed, Stages, Validating, NotRun, Runs
<1>3. Index
  BY <1>1, SetupFacts DEF Index, Jobs
<1>4. EngineInv
  BY <1>1, FreshEngines
<1>5. RunInv
  BY <1>1 DEF RunInv, Flight, Cut, Levels, Released, Spo, NotRun
<1>6. JournalInv
  <2>1. NewJournal(setup.nhist) \in Journals /\ Absent \in Journals
    BY <1>1, SetupFacts DEF NewJournal, Absent, Journals
  <2>2. JournalTypes /\ AllOpen
    BY <1>1, <2>1 DEF JournalTypes, AllOpen
  <2>3. ASSUME NEW n \in Namespaces PROVE Carried(n) /\ Kept(n)
    BY <1>1 DEF Carried, Kept, Watched, Absent
  <2> QED BY <2>2, <2>3 DEF JournalInv
<1> QED BY <1>2, <1>3, <1>4, <1>5, <1>6 DEF Inv

LEMMA InvHolds == Spec => []Inv
<1>1. Inv /\ [Next]_vars => Inv'
  BY TypedNext, IndexNext, EnginesNext, CutNext, ReleasedNext, JournalsNext DEF Inv, RunInv
<1> QED BY <1>1, InitInv, PTL DEF Spec

(* The state of main keeps its types; nr_instances is never negative, and  *)
(* no exit finds an engine in a state it cannot be in.                     *)
THEOREM TypeCorrect == Spec => []TypeOK
<1>1. Inv => TypeOK
  <2> SUFFICES ASSUME Inv PROVE TypeOK
    OBVIOUS
  <2>1. /\ setup \in Setups /\ procs \in 1 .. MaxProcs /\ fails \in 0 .. MaxFails
        /\ open \subseteq {Steps[k] : k \in 1 .. Len(Steps)} /\ powered \in BOOLEAN
    BY DEF Inv, Typed
  <2>2. io.nr \in Nat /\ io.attached \in BOOLEAN /\ DOMAIN io.state = Engines
    BY Before, IoFields
  <2>3. run.signal \in {"none", "int", "usr1"} /\ run.flight \in BOOLEAN /\ run.cut \in BOOLEAN
    BY Before DEF Runs
  <2>4. /\ iovers \in [Namespaces -> {"none", "open", "closed"}]
        /\ \A n \in Namespaces : image[n].state \in {"absent", "short", "good"}
    BY JournalBefore, JournalFields DEF JournalTypes
  <2>5. pc \in Stages
    BY Before
  <2> QED BY <2>1, <2>2, <2>3, <2>4, <2>5
          DEF TypeOK, Stages, Validating, Probing, Validated, Working
<1> QED BY <1>1, InvHolds, PTL

(* The controllers stay attached while an engine on them is open, for any  *)
(* mix of jobs and namespaces and on every error path.                     *)
THEOREM StaysAttached == Spec => []AttachedWhileOpen
<1>1. Inv => AttachedWhileOpen
  <2> SUFFICES ASSUME Inv, NEW e \in Engines, io.state[e] = "open", IsSpdk(e)
               PROVE  io.attached /\ io.nr > 0
    BY DEF AttachedWhileOpen
  <2>1. e \in OpenSpdk(io)
    BY DEF OpenSpdk
  <2>2. IsFiniteSet(OpenSpdk(io)) /\ Cardinality(OpenSpdk(io)) \in Nat
    BY Before, OpenSpdkFinite
  <2>3. Cardinality(OpenSpdk(io)) # 0
    BY <2>1, <2>2, FS_EmptySet
  <2>4. io.nr \in Nat
    BY Before, IoFields
  <2> QED BY <2>1, <2>2, <2>3, <2>4, Before DEF AtLeast
<1> QED BY <1>1, InvHolds, PTL

(* No engine is closed twice, or without having been opened.               *)
THEOREM ClosedOnce == Spec => []ExitOnce
<1>1. Inv => ExitOnce
  BY Before DEF ExitOnce, States
<1> QED BY <1>1, InvHolds, PTL

(* Every verifier works on the journal as it was last written, across any  *)
(* number of processes, failed starts, kills and power cuts.               *)
THEOREM CarriedOver == Spec => []JournalCarried
<1>1. Inv => JournalCarried
  BY JournalBefore DEF JournalCarried, Carried, Watched, Same
<1> QED BY <1>1, InvHolds, PTL

(* nbio cuts the power only after its jobs are gone, and not after a       *)
(* signal.                                                                 *)
THEOREM DrainedBeforeCut == Spec => []CutDrained
<1>1. Inv => CutDrained
  BY DEF Inv, RunInv, Cut, CutDrained
<1> QED BY <1>1, InvHolds, PTL

(* A clean run gives back everything that was acquired.                    *)
THEOREM Releases == Spec => []AllReleased
<1>1. Inv => AllReleased
  <2> SUFFICES ASSUME Inv, pc = "end", run.res = 0, setup.level = 0, ~Skipped
               PROVE  /\ open = {} /\ io.nr = 0 /\ ~io.attached
                      /\ \A e \in Engines : io.state[e] = "closed"
                      /\ \A n \in Namespaces : iovers[n] = "closed"
    BY DEF AllReleased
  <2>1. /\ open = {} /\ \A e \in Engines : io.state[e] = "closed"
        /\ \A n \in Namespaces : iovers[n] = "closed"
    BY DEF Inv, RunInv, Released
  <2>2. OpenSpdk(io) = {}
    BY <2>1 DEF OpenSpdk
  <2>3. io.nr = 0 /\ (io.attached => io.nr > 0)
    BY <2>2, Before, FS_EmptySet DEF Exact
  <2> QED BY <2>1, <2>3
<1> QED BY <1>1, InvHolds, PTL
=============================================================================
