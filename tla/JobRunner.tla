------------------------------ MODULE JobRunner ------------------------------
(***************************************************************************)
(* One job's loop (iogen.c, iogen_job_runner) over the I/O engines libaio, *)
(* null and spdk (io/libaio.c, io/null.c, io/spdkio.c): where each bio of  *)
(* the pool is, from generate_bio through enqueue, submit and poll to      *)
(* bio_end, and the drain at the end.                                      *)
(*                                                                         *)
(* The kernel's queue and the device are one set: what was submitted and   *)
(* has not been reported yet.  A list of bios is a set: which free bio is  *)
(* taken does not matter.  No reset is configured: none of the engines     *)
(* has a reset or a reinit operation.                                      *)
(***************************************************************************)
EXTENDS Integers, FiniteSets

CONSTANTS Workload,        (* per engine, the opcodes of opr_lottery       *)
          IoDepth,         (* iodepth                                      *)
          BatchSubmit,     (* batch_submit, 0 for iodepth                  *)
          BatchComplete,   (* batch_complete                               *)
          SporLevel,       (* spor_level                                   *)
          Amount,          (* amount.ios                                   *)
          MaxSubmitErrors  (* bounds how often io_submit fails             *)

Opcodes == {"read", "write", "flush", "deallocate", "write_zeroes", "write_uncorrect",
            "identify"}

ASSUME RunnerParams ==
  /\ DOMAIN Workload \subseteq {"libaio", "null", "spdk"}
  /\ \A e \in DOMAIN Workload : Workload[e] \subseteq Opcodes
  /\ IoDepth \in Nat \ {0} /\ BatchSubmit \in 0 .. IoDepth /\ BatchComplete \in Nat \ {0}
  /\ SporLevel \in 0 .. 4 /\ Amount \in Nat /\ MaxSubmitErrors \in Nat

Bios == 1 .. IoDepth
None == 0

VARIABLES engine,     (* job->engine.ops->name                             *)
          eng,        (* the engine's queue, and what it has given away    *)
          pc,         (* where the runner is                               *)
          free,       (* job->bio_free                                     *)
          inflight,   (* job->bio_inflight; num_inflight is its size       *)
          nrEnqueued, (* the runner's nr_enqueued                          *)
          ops,        (* job->acct.sum.ops                                 *)
          result      (* iogen->result # 0                                 *)

vars == <<engine, eng, pc, free, inflight, nrEnqueued, ops, result>>

NumInflight == Cardinality(inflight)
batch_submit == IF BatchSubmit = 0 THEN IoDepth ELSE BatchSubmit

(* libaio_data, null_io_queue or the queue pair and the admin queue.       *)
(* libaio has a ring of iodepth entries and a count, null one of           *)
(* iodepth + 1 entries that is empty when head = tail.                     *)
EngineInit ==
  [ring |-> [i \in 0 .. IoDepth |-> None], head |-> 0, tail |-> 0, nr |-> 0,
   device |-> {}, admin |-> {}, errors |-> 0]
Size == IF engine = "null" THEN IoDepth + 1 ELSE IoDepth
Queued(q) == IF engine = "null" THEN (q.tail - q.head) % Size ELSE q.nr
Slots(q, n) == {q.ring[(q.head + i) % Size] : i \in 0 .. n - 1}
EngineHolds == Slots(eng, Queued(eng)) \cup eng.device \cup eng.admin

Init ==
  /\ engine \in DOMAIN Workload /\ eng = EngineInit
  /\ pc = "loop" /\ free = Bios /\ inflight = {} /\ nrEnqueued = 0
  /\ ops = 0 /\ result = FALSE
-----------------------------------------------------------------------------
(* The engine's operations, as the set of their outcomes. *)
(* Mutant: the tail does not wrap. *)
PutUnwrapped(q, b) == [q EXCEPT !.ring[q.tail] = b, !.tail = @ + 1, !.nr = @ + 1]
Put(q, b) == [q EXCEPT !.ring[q.tail] = b, !.tail = (@ + 1) % Size, !.nr = @ + 1]
Sent(q, k) ==
  [q EXCEPT !.device = @ \cup Slots(q, k), !.head = (@ + k) % Size, !.nr = @ - k,
            !.errors = IF k < q.nr THEN @ + 1 ELSE @]

(* Mutant: nr_enqueued is not reduced. *)
SubmitKeepsCount(q) ==
  IF engine = "libaio"
    THEN {[eng |-> [Sent(q, k) EXCEPT !.nr = q.nr], ok |-> k = q.nr] : k \in {q.nr}}
    ELSE {[eng |-> q, ok |-> TRUE]}

(* libaio_submit sends what is queued, in ring order and at most up to the *)
(* end of the array at a time; io_submit may fail after some of it.  The   *)
(* other engines have nothing to do.                                       *)
Submit(q) ==
  IF engine = "libaio"
    THEN {[eng |-> Sent(q, k), ok |-> k = q.nr] :
            k \in IF q.errors < MaxSubmitErrors THEN 0 .. q.nr ELSE {q.nr}}
    ELSE {[eng |-> q, ok |-> TRUE]}

Ok(q) == [eng |-> q, ok |-> TRUE]
Refused(q) == [eng |-> q, ok |-> FALSE]

(* libaio_enqueue.  A flush is executed at once, after a submit; so is a   *)
(* deallocate (as built for kernels from 4.7 on), without a submit, and    *)
(* neither enters the ring.  Either call may fail.                         *)
LibaioEnqueue(q, b, op) ==
  CASE q.nr >= IoDepth -> {Refused(q)}
    [] op \in {"read", "write"} /\ q.nr < IoDepth -> {Ok(Put(q, b))}
    [] op = "flush" /\ q.nr < IoDepth ->
         UNION {{Ok(s.eng), Refused(s.eng)} : s \in Submit(q)}
    [] op = "deallocate" /\ q.nr < IoDepth -> {Ok(q), Refused(q)}
    [] OTHER -> {Refused(q)}

NullEnqueue(q, b) ==
  IF (q.tail + 1) % Size = q.head THEN {Refused(q)} ELSE {Ok(Put(q, b))}

(* spdkio_enqueue: an identify goes to the admin queue, the rest to the    *)
(* queue pair; spdk may refuse a request.                                  *)
SpdkEnqueue(q, b, op) ==
  {Refused(q),
   Ok(IF op = "identify" THEN [q EXCEPT !.admin = @ \cup {b}]
                         ELSE [q EXCEPT !.device = @ \cup {b}])}

Enqueue(q, b, op) ==
  CASE engine = "libaio" -> LibaioEnqueue(q, b, op)
    [] engine = "null" -> NullEnqueue(q, b)
    [] engine = "spdk" -> SpdkEnqueue(q, b, op)

(* libaio_poll and spdkio_poll report what the device has completed,       *)
(* libaio at least min of it; null_poll ends the oldest bios of its queue. *)
(* The admin queue is not looked at.                                       *)
DevicePoll(q, min) ==
  {[eng |-> [q EXCEPT !.device = @ \ done], done |-> done] :
     done \in {d \in SUBSET q.device : Cardinality(d) >= min /\ Cardinality(d) <= BatchComplete}}
NullPoll(q) ==
  LET n == IF Queued(q) < BatchComplete THEN Queued(q) ELSE BatchComplete
  IN {[eng |-> [q EXCEPT !.head = (@ + n) % Size, !.nr = @ - n], done |-> Slots(q, n)]}

Poll(q, min) ==
  CASE engine = "libaio" -> DevicePoll(q, min)
    [] engine = "spdk" -> DevicePoll(q, 0)
    [] engine = "null" -> NullPoll(q)
-----------------------------------------------------------------------------
(* Mutant: the bio is not put back. *)
BioEndLoses(done) == inflight' = inflight \ done /\ UNCHANGED free

(* bio_end for the bios of one poll: they go back to bio_free.             *)
BioEnd(done) == free' = free \cup done /\ inflight' = inflight \ done

(* Mutants: a refused bio is not recorded as an error, a full queue is not *)
(* polled.                                                                 *)
GenerateRefusedQuietly(b, op) ==
  \E r \in Enqueue(eng, b, op) :
    /\ ~r.ok /\ eng' = r.eng
    /\ free' = free \ {b} /\ pc' = "submit" /\ ops' = ops + 1
    /\ UNCHANGED <<engine, inflight, nrEnqueued, result>>
PollFullNever == pc = "loop" /\ NumInflight > IoDepth /\ UNCHANGED vars

(* An iteration of the loop that generates a bio.  The engine refuses it:  *)
(* the loop is left and the bio is in no list any more.                    *)
GenerateRefused(b, op) ==
  \E r \in Enqueue(eng, b, op) :
    /\ ~r.ok /\ eng' = r.eng
    /\ free' = free \ {b} /\ result' = TRUE /\ pc' = "submit" /\ ops' = ops + 1
    /\ UNCHANGED <<engine, inflight, nrEnqueued>>

(* The libaio quirk: an accepted flush is ended on the spot.               *)
GenerateFlushed(b, op) ==
  \E r \in Enqueue(eng, b, op) :
    /\ r.ok /\ engine = "libaio" /\ op = "flush" /\ eng' = r.eng /\ ops' = ops + 1
    /\ UNCHANGED <<engine, pc, free, inflight, nrEnqueued, result>>

(* Accepted; a full batch or a full queue is submitted. *)
GenerateAccepted(b, op) ==
  \E r \in Enqueue(eng, b, op) :
    /\ r.ok /\ ~(engine = "libaio" /\ op = "flush")
    /\ free' = free \ {b} /\ inflight' = inflight \cup {b} /\ ops' = ops + 1
    /\ IF nrEnqueued + 1 = batch_submit \/ NumInflight + 1 = IoDepth
         THEN \E s \in Submit(r.eng) :
                /\ eng' = s.eng
                /\ nrEnqueued' = IF s.ok THEN 0 ELSE nrEnqueued + 1
                /\ pc' = IF s.ok THEN "loop" ELSE "submit"
                /\ result' = (result \/ ~s.ok)
         ELSE eng' = r.eng /\ nrEnqueued' = nrEnqueued + 1 /\ UNCHANGED <<pc, result>>
    /\ UNCHANGED engine

Generate ==
  /\ pc = "loop" /\ ops < Amount /\ NumInflight < IoDepth
  /\ \E b \in free, op \in Workload[engine] :
       GenerateRefused(b, op) \/ GenerateFlushed(b, op) \/ GenerateAccepted(b, op)

(* generate_bio finds its LBAs locked: what is queued is submitted, and    *)
(* the engine polled.                                                      *)
TryLater ==
  /\ pc = "loop" /\ ops < Amount /\ NumInflight < IoDepth
  /\ \E s \in IF nrEnqueued > 0 THEN Submit(eng) ELSE {Ok(eng)} :
       IF s.ok
         THEN /\ \E p \in Poll(s.eng, 0) : eng' = p.eng /\ BioEnd(p.done)
              /\ nrEnqueued' = 0 /\ UNCHANGED <<pc, result>>
         ELSE /\ eng' = s.eng /\ pc' = "submit" /\ result' = TRUE
              /\ UNCHANGED <<free, inflight, nrEnqueued>>
  /\ UNCHANGED <<engine, ops>>

(* The queue is full: poll. *)
PollFull ==
  /\ pc = "loop" /\ ops < Amount /\ NumInflight >= IoDepth
  /\ \E p \in Poll(eng, 0) : eng' = p.eng /\ BioEnd(p.done)
  /\ UNCHANGED <<engine, pc, nrEnqueued, ops, result>>

(* iogen_job_should_stop: the amount is reached or the run is stopped. *)
Stop ==
  /\ pc = "loop" /\ pc' = "submit"
  /\ UNCHANGED <<engine, eng, free, inflight, nrEnqueued, ops, result>>

(* The submit after the loop; its result is not looked at. *)
LastSubmit ==
  /\ pc = "submit" /\ pc' = "drain"
  /\ \E s \in Submit(eng) : eng' = s.eng
  /\ UNCHANGED <<engine, free, inflight, nrEnqueued, ops, result>>

(* The drain: polls until nothing is in flight, below SPOR level 3. *)
Drain ==
  /\ pc = "drain" /\ inflight # {} /\ SporLevel < 3
  /\ \E p \in Poll(eng, 1) : eng' = p.eng /\ BioEnd(p.done)
  /\ UNCHANGED <<engine, pc, nrEnqueued, ops, result>>

Finish ==
  /\ pc = "drain" /\ (inflight = {} \/ SporLevel >= 3) /\ pc' = "ended"
  /\ UNCHANGED <<engine, eng, free, inflight, nrEnqueued, ops, result>>

(* bio_end when iover_submit fails: exit(1), in any poll. *)
Exit ==
  /\ pc \in {"loop", "drain"} /\ inflight # {} /\ (pc = "drain" => SporLevel < 3)
  /\ \E p \in Poll(eng, IF pc = "drain" THEN 1 ELSE 0) : p.done # {}
  /\ pc' = "exited" /\ result' = TRUE
  /\ UNCHANGED <<engine, eng, free, inflight, nrEnqueued, ops>>

Next ==
  \/ Generate \/ TryLater \/ PollFull \/ Stop \/ LastSubmit \/ Drain \/ Finish \/ Exit

Spec == Init /\ [][Next]_vars

(* The thread is scheduled, and a device completes what it was given: a    *)
(* poll that could report a bio does not return empty for ever.            *)
FairSpec ==
  /\ Spec
  /\ WF_vars(Generate) /\ WF_vars(PollFull) /\ WF_vars(LastSubmit) /\ WF_vars(Drain)
  /\ WF_vars(Finish) /\ WF_vars(Stop /\ ops = Amount)
-----------------------------------------------------------------------------
(* Type correctness. *)
TypeOK ==
  /\ engine \in DOMAIN Workload /\ eng.ring \in [0 .. IoDepth -> Bios \cup {None}]
  /\ eng.head \in 0 .. Size - 1 /\ eng.tail \in 0 .. Size - 1
  /\ eng.nr \in 0 .. IoDepth /\ eng.device \subseteq Bios /\ eng.admin \subseteq Bios
  /\ pc \in {"loop", "submit", "drain", "ended", "exited"}
  /\ free \subseteq Bios /\ inflight \subseteq Bios /\ nrEnqueued \in 0 .. IoDepth
  /\ result \in BOOLEAN /\ ops \in 0 .. Amount

(* The engine holds exactly the bios the job counts as in flight, each in  *)
(* one place: num_inflight, the ring's indexes and the device agree after  *)
(* every batch, partial io_submit and wrap-around, so that the drain waits *)
(* for what can still come and for nothing else.                           *)
InflightHeld ==
  /\ EngineHolds = inflight
  /\ Queued(eng) + Cardinality(eng.device) + Cardinality(eng.admin) = NumInflight

(* generate_bio takes the first bio of bio_free without looking whether    *)
(* there is one: whenever the loop gets there, the list is not empty.      *)
FreeBioThere == pc = "loop" /\ NumInflight < IoDepth => free # {}

(* The last submit failed, and its result is ignored. *)
Stranded == pc = "drain" /\ engine = "libaio" /\ eng.nr > 0

(* A job with an amount ends: the loop is left and the drain ends, unless  *)
(* the last io_submit failed, after which the drain waits for bios that    *)
(* were never submitted.                                                   *)
JobEnds == <>(pc \in {"ended", "exited"} \/ Stranded)

(* The engines do what BioQueue says: what an engine really holds is what  *)
(* the generator's lists and the recorded result suggest.                  *)
Queue == INSTANCE BioQueue WITH open <- EngineHolds, failed <- result, Depth <- IoDepth
ImplementsQueue == Queue!Spec
=============================================================================
