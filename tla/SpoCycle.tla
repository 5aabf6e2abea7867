------------------------------- MODULE SpoCycle -------------------------------
(***************************************************************************)
(* The sudden-power-off cycle of scripts/spor/2.spor_w_write/run around    *)
(* the data path of Iover: nbio runs I/O in the background, the power of   *)
(* the device is cut, nbio is aborted, the power comes back, and a second  *)
(* nbio replays the history ring of the shared-memory journal             *)
(* (history_slba, verify_hist_read) before the next round of I/O.          *)
(*                                                                         *)
(* The host keeps its power: block_desc, hist_desc and hist_idx live in    *)
(* shared memory and survive, lba_lock and the bios die with the process,  *)
(* and iover->timestamp restarts from the journal footer, which iover_exit *)
(* saves for journal files only.                                           *)
(*                                                                         *)
(* A correct device keeps every block it executed and no other.  The test  *)
(* has a single job (ASSUME OneJob).                                       *)
(***************************************************************************)
EXTENDS Iover

CONSTANT MaxCuts    (* bound on the power cuts *)

ASSUME OneJob == \E j \in Jobs : Jobs = {j}
(* The journal has a ring, and the replay reads it block by block. *)
ASSUME CutsAssumption == MaxCuts \in Nat /\ NHist > 0 /\ 1 \in IoSizes

VARIABLES phase,      (* "io", "off" (power cut), "replay", "ended"        *)
          state,      (* iogen->state, read by the job and the main thread *)
          try,        (* generate_bio's tries for the bio at hand          *)
          replay_idx, (* job->replay_hist_idx                              *)
          replay_cnt, (* job->replay_hist_cnt                              *)
          bio_hist,   (* per slot, bio->hist_idx                           *)
          cuts,       (* power cuts so far                                 *)
          clean       (* no cycle so far fell into a gap of the replay     *)

replayVars == <<try, replay_idx, replay_cnt, bio_hist>>
spoVars == <<phase, state, try, replay_idx, replay_cnt, bio_hist, cuts, clean>>
allVars == <<vars, spoVars>>

SpoInit ==
  /\ Init
  /\ phase = "io" /\ state = "running" /\ try = 0
  /\ replay_idx = 0 /\ replay_cnt = 0
  /\ bio_hist = [s \in Slots |-> 0]
  /\ cuts = 0 /\ clean = TRUE

(* iover_init on an existing journal: nothing is locked, no bio is out.    *)
NewProcess ==
  /\ locked' = [j \in Jobs |-> {}]
  /\ bio' = [j \in Jobs |-> [s \in Slots |-> NoBio]]
  /\ timestamp' = 0
  /\ result' = 0 /\ exited' = FALSE
  /\ state' = "running" /\ try' = 0
  /\ UNCHANGED <<media, faults, block_desc, hist_desc, hist_idx>>
-----------------------------------------------------------------------------
(* The job thread at work, in the I/O phase or after the cut, when it does *)
(* not know yet: it goes on until its pool is empty.                       *)
Work ==
  /\ phase \in {"io", "off"}
  /\ \E j \in Jobs, s \in Slots :
       \/ \E op \in Ops, r \in Lock!Ranges : Generate(j, s, op, r)
       \/ Count(j, s) \/ Stamp(j, s) \/ Enqueue(j, s)
       \/ Complete(j, s) \/ Submit(j, s)
  /\ UNCHANGED spoVars

DeviceRuns == phase \in {"io", "replay"} /\ Device /\ UNCHANGED spoVars

(* power_off switches the device off. *)
PowerOff ==
  /\ phase = "io" /\ cuts < MaxCuts
  /\ phase' = "off" /\ cuts' = cuts + 1
  /\ UNCHANGED <<vars, state, replayVars, clean>>

(* The oldest entry of the ring, at the slot written next, and all entries. *)
Oldest == hist_desc[hist_idx].lba
Noted == {hist_desc[i].lba : i \in 0 .. NHist - 1}

(* power_off sends SIGUSR1: iogen_abort, then the process ends with its    *)
(* bios in flight (the job thread is in its poll loop by then).  Then the  *)
(* power comes back and a new nbio starts the replay (iogen_job_begin).    *)
(* Of a block in flight, what the device kept is right, whatever it is.    *)
AbortAndReplay ==
  LET inflight == {l \in LBAs : \E j \in Jobs, s \in Slots : Writes(bio[j][s], l)} IN
  /\ phase = "off"
  /\ \A j \in Jobs : Idle(j)
  /\ NewProcess
  /\ phase' = "replay"
  /\ replay_idx' = hist_idx /\ replay_cnt' = NHist
  /\ bio_hist' = [s \in Slots |-> 0]
  /\ ideal' = [l \in LBAs |-> IF l \in inflight THEN media[l] ELSE ideal[l]]
  /\ clean' = (clean /\ \/ inflight = {}
                        \/ Oldest \notin inflight \cup {-1} /\ inflight \subseteq Noted)
  /\ UNCHANGED cuts
-----------------------------------------------------------------------------
(* Mutant: the walk does not wrap. *)
OlderNoWrap(i) == i - 1

(* The walk goes towards older entries and wraps. *)
Older(i) == IF i = 0 THEN NHist - 1 ELSE i - 1

(* generate_bio in the replay: history_slba takes the next entry, towards  *)
(* the older ones, and the entry is used up even if its LBA is locked.     *)
(* The third failed try returns NULL and the thread polls.                 *)
ReplayTry(j, s) ==
  LET h == hist_desc[replay_idx]
      r == [slba |-> h.lba, nlbs |-> 1]
      free == \A k \in Jobs : \A t \in locked[k] : Lock!Span(r) \cap Lock!Span(t) = {} IN
  /\ phase = "replay" /\ Idle(j) /\ bio[j][s].stage = "free"
  /\ state = "running" \/ try > 0
  /\ h.lba # -1 /\ replay_cnt > 0
  /\ replay_idx' = Older(replay_idx)
  /\ replay_cnt' = replay_cnt - 1
  /\ state' = IF replay_cnt = 1 THEN "aborting" ELSE state
  /\ IF free
       THEN /\ locked' = [locked EXCEPT ![j] = @ \cup {r}]
            /\ bio' = [bio EXCEPT ![j][s] =
                 [NoBio EXCEPT !.stage = "enqueue", !.op = "read",
                               !.slba = h.lba, !.nlbs = 1, !.todo = {h.lba}]]
            /\ bio_hist' = [bio_hist EXCEPT ![s] = replay_idx]
            /\ try' = 0
       ELSE /\ try' = (try + 1) % 3
            /\ UNCHANGED <<locked, bio, bio_hist>>
  /\ UNCHANGED <<media, ideal, faults, timestamp, block_desc, hist_desc, hist_idx,
                 result, exited, phase, cuts, clean>>

(* The entry is empty or all are used up: done, and the bio is a flush.    *)
ReplayEnd(j, s) ==
  /\ phase = "replay" /\ Idle(j) /\ bio[j][s].stage = "free"
  /\ state = "running" \/ try > 0
  /\ hist_desc[replay_idx].lba = -1 \/ replay_cnt = 0
  /\ state' = "done" /\ try' = 0
  /\ bio' = [bio EXCEPT ![j][s] = [NoBio EXCEPT !.stage = "enqueue", !.op = "flush"]]
  /\ UNCHANGED <<media, ideal, faults, timestamp, block_desc, hist_desc, hist_idx, locked,
                 result, exited, phase, replay_idx, replay_cnt, bio_hist, cuts, clean>>

(* Enqueue and the unlocking half of bio_end are those of Iover. *)
ReplayFlow(j, s) ==
  /\ phase = "replay" /\ try = 0
  /\ Enqueue(j, s) \/ Complete(j, s) \/ (bio[j][s].op = "flush" /\ Submit(j, s))
  /\ UNCHANGED spoVars

(* Mutants: the entry is not tried, any entry of the block is, nothing is  *)
(* fixed, every block that is read is.                                     *)
HistAcceptsNot(s, l, c) == FALSE
HistAcceptsAny(s, l, c) ==
  \E i \in 0 .. NHist - 1 : hist_desc[i].lba = l /\ Accepts(hist_desc[i].bd, l, c)
FixedNot(s, b, l) == block_desc[l]
FixedAlways(s, b, l) == IF l \in Span(b) THEN hist_desc[bio_hist[s]].bd ELSE block_desc[l]

(* verify_hist_read: the block must be what its descriptor says or what    *)
(* the command noted in the ring would have left; in the second case the   *)
(* descriptor is fixed.  Unlike verify_bio_read, it keeps the result for   *)
(* zeroes.                                                                 *)
HistAccepts(s, l, c) ==
  LET d == hist_desc[bio_hist[s]].bd IN
  IF d.state = "zeroes" THEN IsAllZeroes(c) ELSE Accepts(d, l, c)

Fixed(s, b, l) ==
  IF Miscompare(b) /\ l \in Span(b) /\ HistAccepts(s, l, b.data[l])
    THEN hist_desc[bio_hist[s]].bd ELSE block_desc[l]

ReplayMiscompare(s, b) ==
  Miscompare(b) /\ \E l \in Span(b) : ~HistAccepts(s, l, b.data[l])

ReplaySubmit(j, s) ==
  LET b == bio[j][s]
      bad == ReplayMiscompare(s, b)
      stop == (Unexpected(b) /\ StopOnError) \/ (bad /\ StopOnMiscompare) IN
  /\ phase = "replay" /\ ~exited /\ b.stage = "submit" /\ b.op = "read"
  /\ block_desc' = [l \in LBAs |-> Fixed(s, b, l)]
  /\ result' = IF stop THEN -1 ELSE IF bad THEN 1 ELSE result
  /\ exited' = stop
  /\ bio' = IF stop THEN bio ELSE [bio EXCEPT ![j][s] = NoBio]
  /\ UNCHANGED <<media, ideal, faults, timestamp, hist_desc, hist_idx, locked, spoVars>>

(* The job thread leaves its loop when the state is no longer running and  *)
(* polls until nothing is in flight (iogen_job_end).                       *)
JobEnd ==
  /\ phase = "replay" /\ state # "running" /\ try = 0
  /\ ~exited /\ \A j \in Jobs, s \in Slots : bio[j][s].stage = "free"
  /\ phase' = "ended" /\ state' = "done"
  /\ UNCHANGED <<vars, replayVars, cuts, clean>>

(* The main thread leaves run() as soon as iogen_running is false: when    *)
(* history_slba has set the state to done, that may be while replay reads  *)
(* are still out, and they die with the process.                           *)
MainReturns ==
  /\ phase = "replay" /\ state = "done"
  /\ \E j \in Jobs, s \in Slots : bio[j][s].op = "read"
  /\ phase' = "ended" /\ clean' = FALSE
  /\ UNCHANGED <<vars, state, replayVars, cuts>>

(* The next cycle of the test: a new nbio runs I/O. *)
NextCycle ==
  /\ phase = "ended" /\ result = 0
  /\ NewProcess
  /\ phase' = "io"
  /\ UNCHANGED <<ideal, replay_idx, replay_cnt, bio_hist, cuts, clean>>

SpoNext ==
  \/ Work \/ DeviceRuns \/ PowerOff \/ AbortAndReplay
  \/ JobEnd \/ MainReturns \/ NextCycle
  \/ \E j \in Jobs, s \in Slots :
       ReplayTry(j, s) \/ ReplayEnd(j, s) \/ ReplayFlow(j, s) \/ ReplaySubmit(j, s)

SpoSpec == SpoInit /\ [][SpoNext]_allVars
-----------------------------------------------------------------------------
(* Type correctness of the cycle's state. *)
SpoTypeOK ==
  /\ TypeOK
  /\ phase \in {"io", "off", "replay", "ended"} /\ state \in {"running", "aborting", "done"}
  /\ try \in 0 .. 2
  /\ replay_idx \in 0 .. NHist - 1 /\ replay_cnt \in 0 .. NHist
  /\ bio_hist \in [Slots -> 0 .. NHist - 1]
  /\ cuts \in 0 .. MaxCuts /\ clean \in BOOLEAN

(* When a replay has ended, the verifier accepts what the device kept of   *)
(* the writes in flight at the cut, so that the next cycle starts from a   *)
(* journal that blames no block of a correct device.                       *)
JournalRepaired ==
  phase = "ended" => \A l \in LBAs : Accepts(block_desc[l], l, ideal[l])

(* When the replay has ended, every read it sent has been verified.        *)
ReplayVerified ==
  phase = "ended" => \A j \in Jobs, s \in Slots : bio[j][s].stage = "free"

(* The first replay over a full ring that runs to its end reports a block  *)
(* whose acknowledged write the device has lost, although an older entry   *)
(* of the ring still accepts it (and then takes the descriptor back); the  *)
(* block of the oldest entry, which is read first, is the exception.       *)
LossReported ==
  phase = "ended" /\ cuts = 1 /\ ReplayVerified /\ Oldest # -1
    => \A i \in 0 .. NHist - 1 :
         LET l == hist_desc[i].lba IN
         l # Oldest /\ media[l] # ideal[l] => result # 0

(* The journal is repaired by every replay that misses the four gaps: the  *)
(* ring was full at the cut, its oldest entry is not of a block in flight, *)
(* every block in flight still has its entry (NHist later blocks have not  *)
(* overwritten it), and the main thread did not return early.  (The device *)
(* is a correct one here: what a replay does about a lost write is         *)
(* LossReported.)                                                          *)
JournalRepairedIfClean == clean /\ faults = 0 => JournalRepaired

(* Even in the gaps, a replay only repairs: it walks entries older than    *)
(* what the device holds, but no step of it (verify_hist_read on a correct *)
(* device) takes a descriptor away that accepts its block.                 *)
ReplaySpoilsNothing ==
  [][phase = "replay" /\ faults = 0 =>
       \A l \in LBAs :
         Accepts(block_desc[l], l, media[l]) => Accepts(block_desc[l], l, media[l])']_allVars

(* A device that loses nothing but blocks in flight is not blamed, neither *)
(* by the replay nor by the I/O after it.                                  *)
NoFalseAlarmIfClean ==
  clean /\ faults = 0 =>
    \A j \in Jobs, s \in Slots :
      LET b == bio[j][s]
          blamed == IF phase = "replay" THEN ReplayMiscompare(s, b) ELSE Miscompare(b) IN
      b.stage = "submit" /\ (Unexpected(b) \/ blamed)
        => \E l \in Span(b) : b.data[l] # ideal[l]
=============================================================================
