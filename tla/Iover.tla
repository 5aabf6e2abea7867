-------------------------------- MODULE Iover --------------------------------
(***************************************************************************)
(* The data path of nbio: the life of a bio from generate_bio through the  *)
(* device to bio_end, and the verifier that stamps writes, keeps one block *)
(* descriptor per LBA and compares what reads return (iogen.c, iover.c).   *)
(*                                                                         *)
(* A job thread handles one bio at a time, apart from those it has in      *)
(* flight, so the stage of its bios is its program counter.  LBAs are      *)
(* locked through LbaRangeLock, which LbaLock implements.  The content of  *)
(* a block is what the verifier tells apart: its kind and, for data, the   *)
(* LBA and the timestamp in its header.                                    *)
(*                                                                         *)
(* The device is external.  It executes the LBAs of the commands it holds  *)
(* in any order; it may also fail, at most MaxFaults times: lose a block   *)
(* it was told to write, or return the block of another LBA.  The variable *)
(* ideal is what a device that never fails would hold.                     *)
(***************************************************************************)
EXTENDS Integers, FiniteSets

CONSTANTS Jobs,             (* the job threads of one namespace            *)
          Slots,            (* the bios of a job's pool (iodepth)          *)
          NLbas,            (* LBAs of the namespace                       *)
          IoSizes,          (* sizes of bios, in LBAs                      *)
          JobLbas,          (* per job, the LBAs of its lba_range          *)
          Ops,              (* the opcodes of the operation lottery        *)
          TsMod,            (* 2^16: block_desc keeps a u16 timestamp      *)
          NPatterns,        (* datagen.npatterns                           *)
          UnwrRead,         (* unwr_read: "zeroes", "ones" or "dontcare"   *)
          DeallocRead,      (* dealloc_read: parse_dealloc_read takes only *)
                            (* "0" and "1": "zeroes" or "ones"             *)
          StopOnError,      (* stop_on_error                               *)
          StopOnMiscompare, (* stop_on_miscompare                          *)
          SporLevel3,       (* spor_level >= SPOR_LEVEL_3                  *)
          NHist,            (* history: slots of the ring, 0 for none      *)
          MaxTs,            (* bound on the timestamps generated           *)
          MaxFaults         (* bound on the faults of the device           *)

ASSUME SizesAssumption ==
  /\ NLbas \in Nat \ {0} /\ IoSizes \subseteq 1 .. NLbas
  /\ NHist \in Nat /\ \A n \in IoSizes : NHist > 0 => n <= NHist
ASSUME NumbersAssumption ==
  TsMod \in Nat \ {0} /\ NPatterns \in Nat \ {0} /\ MaxTs \in Nat /\ MaxFaults \in Nat
Opcodes == {"read", "write", "flush", "deallocate", "write_zeroes", "write_uncorrect"}
ASSUME OpsAssumption == Ops \subseteq Opcodes
ASSUME ParamsAssumption ==
  /\ UnwrRead \in {"zeroes", "ones", "dontcare"} /\ DeallocRead \in {"zeroes", "ones"}
  /\ {StopOnError, StopOnMiscompare, SporLevel3} \subseteq BOOLEAN
(* Nothing keeps the lba_ranges of two jobs apart.                         *)
ASSUME JobLbasAssumption == JobLbas \in [Jobs -> SUBSET (0 .. NLbas - 1)]

VARIABLES media,      (* the device: LBA -> content                        *)
          ideal,      (* the same for a device without faults              *)
          faults,     (* faults so far                                     *)
          timestamp,  (* iover->timestamp, shared by the jobs              *)
          block_desc, (* LBA -> descriptor                                 *)
          hist_desc,  (* the history ring                                  *)
          hist_idx,   (* its next slot                                     *)
          locked,     (* per job, the ranges locked                        *)
          bio,        (* per job and slot                                  *)
          result,     (* iogen->result                                     *)
          exited      (* the process has called exit(1)                    *)

vars == <<media, ideal, faults, timestamp, block_desc, hist_desc, hist_idx,
          locked, bio, result, exited>>

LBAs == 0 .. NLbas - 1
Lock == INSTANCE LbaRangeLock WITH held <- locked

(* What the verifier tells apart of a block. *)
Contents == [kind : {"zeroes", "ones", "uncor", "data"}, lba : LBAs, ts : 0 .. MaxTs]
Plain(kind) == [kind |-> kind, lba |-> 0, ts |-> 0]
Data(l, ts) == [kind |-> "data", lba |-> l, ts |-> ts]

BlockStates == {"unwritten", "dealloc", "uncor", "zeroes", "data", "none"}
BlockDescs == [state : BlockStates, timestamp : 0 .. TsMod - 1]

(* A slot of the ring; lba -1 is the 0xFF.. of an empty one.  Only the     *)
(* BD_NEXT half is kept: nothing reads BD_CURR.                            *)
HistDescs == [lba : LBAs \cup {-1}, bd : BlockDescs]
NoHist == [lba |-> -1, bd |-> [state |-> "none", timestamp |-> 0]]

Stages == {"free", "count", "stamp", "enqueue", "flight", "submit"}
Bios == [stage : Stages, op : Opcodes \cup {"none"}, slba : LBAs, nlbs : 0 .. NLbas,
         data : [LBAs -> Contents], todo : SUBSET LBAs, ts : 0 .. MaxTs]
NoBio == [stage |-> "free", op |-> "none", slba |-> 0, nlbs |-> 0,
          data |-> [l \in LBAs |-> Plain("zeroes")], todo |-> {}, ts |-> 0]

Span(b) == b.slba .. b.slba + b.nlbs - 1
Range(b) == [slba |-> b.slba, nlbs |-> b.nlbs]
Idle(j) == ~exited /\ \A s \in Slots : bio[j][s].stage \in {"free", "flight"}

Init ==
  /\ media = [l \in LBAs |-> Plain(IF UnwrRead = "ones" THEN "ones" ELSE "zeroes")]
  /\ ideal = media
  /\ faults = 0
  /\ timestamp = 0
  /\ block_desc = [l \in LBAs |-> [state |-> "unwritten", timestamp |-> 0]]
  /\ hist_desc = [i \in 0 .. NHist - 1 |-> NoHist]
  /\ hist_idx = 0
  /\ locked = [j \in Jobs |-> {}]
  /\ bio = [j \in Jobs |-> [s \in Slots |-> NoBio]]
  /\ result = 0
  /\ exited = FALSE
-----------------------------------------------------------------------------
(* Mutants (see PROJECT.json): no lock, a counter that does not count.     *)
GenerateUnlocked(j, s, op, r) ==
  /\ Idle(j) /\ bio[j][s].stage = "free"
  /\ op \in Ops \ {"flush"} /\ Span(r) \subseteq JobLbas[j]
  /\ locked' = [locked EXCEPT ![j] = @ \cup {r}]
  /\ op = "write" => timestamp < MaxTs
  /\ bio' = [bio EXCEPT ![j][s] =
       [NoBio EXCEPT !.stage = IF op = "write" THEN "count" ELSE "enqueue",
                     !.op = op, !.slba = r.slba, !.nlbs = r.nlbs, !.todo = Span(r),
                     !.ts = IF op = "write" THEN timestamp ELSE 0]]
  /\ UNCHANGED <<media, ideal, faults, timestamp, block_desc, hist_desc, hist_idx,
                 result, exited>>
CountMissing(j, s) ==
  /\ ~exited /\ bio[j][s].stage = "count"
  /\ bio' = [bio EXCEPT ![j][s].stage = "stamp"]
  /\ UNCHANGED <<media, ideal, faults, timestamp, block_desc, hist_desc, hist_idx,
                 locked, result, exited>>

(* generate_bio takes a free bio, an opcode and a range, and               *)
(* iover_generate_data locks it; when the lock is taken nothing changes.   *)
(* A write goes on to iover->timestamp++, an unlocked load and a store.    *)
Generate(j, s, op, r) ==
  /\ Idle(j) /\ bio[j][s].stage = "free"
  /\ op \in Ops \ {"flush"} /\ Span(r) \subseteq JobLbas[j]
  /\ Lock!Acquire(j, r)
  /\ op = "write" => timestamp < MaxTs
  /\ bio' = [bio EXCEPT ![j][s] =
       [NoBio EXCEPT !.stage = IF op = "write" THEN "count" ELSE "enqueue",
                     !.op = op, !.slba = r.slba, !.nlbs = r.nlbs, !.todo = Span(r),
                     !.ts = IF op = "write" THEN timestamp ELSE 0]]
  /\ UNCHANGED <<media, ideal, faults, timestamp, block_desc, hist_desc, hist_idx,
                 result, exited>>

(* A flush has no LBAs and locks none. *)
GenerateFlush(j, s) ==
  /\ Idle(j) /\ bio[j][s].stage = "free" /\ "flush" \in Ops
  /\ bio' = [bio EXCEPT ![j][s] = [NoBio EXCEPT !.stage = "enqueue", !.op = "flush"]]
  /\ UNCHANGED <<media, ideal, faults, timestamp, block_desc, hist_desc, hist_idx,
                 locked, result, exited>>

(* The store of timestamp++. *)
Count(j, s) ==
  /\ ~exited /\ bio[j][s].stage = "count"
  /\ timestamp' = bio[j][s].ts + 1
  /\ bio' = [bio EXCEPT ![j][s].stage = "stamp", ![j][s].ts = 0]
  /\ UNCHANGED <<media, ideal, faults, block_desc, hist_desc, hist_idx, locked,
                 result, exited>>

(* datagen_set_data of the next block reads iover->timestamp again.  (It   *)
(* is read twice, for the pattern and for the header; the verifier takes   *)
(* the pattern from the header, so the two need not agree.)                *)
Stamp(j, s) ==
  LET b == bio[j][s]
      l == CHOOSE x \in b.todo : \A y \in b.todo : x <= y IN
  /\ ~exited /\ b.stage = "stamp"
  /\ bio' = [bio EXCEPT ![j][s] =
       [b EXCEPT !.data[l] = Data(l, timestamp),
                 !.todo = IF b.todo = {l} THEN Span(b) ELSE @ \ {l},
                 !.stage = IF b.todo = {l} THEN "enqueue" ELSE "stamp"]]
  /\ UNCHANGED <<media, ideal, faults, timestamp, block_desc, hist_desc, hist_idx,
                 locked, result, exited>>
-----------------------------------------------------------------------------
(* Mutants: a timestamp that is not cut to 16 bits, a deallocate that      *)
(* leaves the descriptor alone, the counter instead of the block's header. *)
CommittedWide(b, l, d) ==
  CASE b.op = "write" -> [state |-> "data", timestamp |-> b.data[l].ts]
    [] b.op = "deallocate" -> [d EXCEPT !.state = "dealloc"]
    [] b.op = "write_zeroes" -> [d EXCEPT !.state = "zeroes"]
    [] b.op = "write_uncorrect" -> [d EXCEPT !.state = "uncor"]
    [] OTHER -> d
CommittedNoDealloc(b, l, d) ==
  CASE b.op = "write" -> [state |-> "data", timestamp |-> b.data[l].ts % TsMod]
    [] b.op = "write_zeroes" -> [d EXCEPT !.state = "zeroes"]
    [] b.op = "write_uncorrect" -> [d EXCEPT !.state = "uncor"]
    [] OTHER -> d
CommittedNow(b, l, d) ==
  IF b.op = "write" THEN [state |-> "data", timestamp |-> timestamp % TsMod] ELSE d

(* The descriptor a completed command leaves: a write sets all of it, the  *)
(* others the state only.                                                  *)
Committed(b, l, d) ==
  CASE b.op = "write" -> [state |-> "data", timestamp |-> b.data[l].ts % TsMod]
    [] b.op = "deallocate" -> [d EXCEPT !.state = "dealloc"]
    [] b.op = "write_zeroes" -> [d EXCEPT !.state = "zeroes"]
    [] b.op = "write_uncorrect" -> [d EXCEPT !.state = "uncor"]
    [] OTHER -> d

(* backup_hist_state notes the descriptor of each block to come; for       *)
(* write_uncorrect it stores the opcode, which is no block state.          *)
HistNext(b, l, d) ==
  IF b.op = "write_uncorrect" THEN [d EXCEPT !.state = "none"] ELSE Committed(b, l, d)

BackupHist(b) ==
  IF NHist = 0 \/ b.op \in {"read", "flush"}
    THEN UNCHANGED <<hist_desc, hist_idx>>
    ELSE LET offset(i) == (i - hist_idx) % NHist IN
         /\ hist_desc' = [i \in 0 .. NHist - 1 |->
              IF offset(i) < b.nlbs
                THEN [lba |-> b.slba + offset(i),
                      bd |-> HistNext(b, b.slba + offset(i), hist_desc[i].bd)]
                ELSE hist_desc[i]]
         /\ hist_idx' = (hist_idx + b.nlbs) % NHist

(* The runner hands the bio to the engine, then backs up the history and,  *)
(* at SPOR level 3, marks the blocks of a write as unwritten.              *)
Enqueue(j, s) ==
  LET b == bio[j][s] IN
  /\ ~exited /\ b.stage = "enqueue"
  /\ bio' = [bio EXCEPT ![j][s].stage = "flight"]
  /\ BackupHist(b)
  /\ block_desc' = IF SporLevel3 /\ b.op = "write"
       THEN [l \in LBAs |-> IF l \in Span(b)
               THEN [Committed(b, l, block_desc[l]) EXCEPT !.state = "unwritten"]
               ELSE block_desc[l]]
       ELSE block_desc
  /\ UNCHANGED <<media, ideal, faults, timestamp, locked, result, exited>>
-----------------------------------------------------------------------------
(* What a command other than a read leaves on a block. *)
Effect(b, l) ==
  CASE b.op = "write" -> b.data[l]
    [] b.op = "deallocate" -> Plain(DeallocRead)
    [] b.op = "write_zeroes" -> Plain("zeroes")
    [] b.op = "write_uncorrect" -> Plain("uncor")
    [] OTHER -> Plain("zeroes")

Pending(j, s, l) == bio[j][s].stage = "flight" /\ l \in bio[j][s].todo

(* The device executes one block of a command. *)
ExecuteWrite(j, s, l) ==
  LET b == bio[j][s] IN
  /\ Pending(j, s, l) /\ b.op # "read"
  /\ media' = [media EXCEPT ![l] = Effect(b, l)]
  /\ ideal' = [ideal EXCEPT ![l] = Effect(b, l)]
  /\ bio' = [bio EXCEPT ![j][s].todo = @ \ {l}]
  /\ UNCHANGED <<faults, timestamp, block_desc, hist_desc, hist_idx, locked, result, exited>>

ExecuteRead(j, s, l) ==
  LET b == bio[j][s] IN
  /\ Pending(j, s, l) /\ b.op = "read"
  /\ bio' = [bio EXCEPT ![j][s] = [b EXCEPT !.todo = @ \ {l}, !.data[l] = media[l]]]
  /\ UNCHANGED <<media, ideal, faults, timestamp, block_desc, hist_desc, hist_idx,
                 locked, result, exited>>

(* Faults: the device drops a block it was told to write, or returns the   *)
(* block of another LBA.                                                   *)
LoseWrite(j, s, l) ==
  /\ faults < MaxFaults /\ faults' = faults + 1
  /\ Pending(j, s, l) /\ bio[j][s].op # "read"
  /\ ideal' = [ideal EXCEPT ![l] = Effect(bio[j][s], l)]
  /\ bio' = [bio EXCEPT ![j][s].todo = @ \ {l}]
  /\ UNCHANGED <<media, timestamp, block_desc, hist_desc, hist_idx, locked, result, exited>>

MisdirectRead(j, s, l, m) ==
  LET b == bio[j][s] IN
  /\ faults < MaxFaults /\ faults' = faults + 1
  /\ Pending(j, s, l) /\ b.op = "read"
  /\ bio' = [bio EXCEPT ![j][s] = [b EXCEPT !.todo = @ \ {l}, !.data[l] = media[m]]]
  /\ UNCHANGED <<media, ideal, timestamp, block_desc, hist_desc, hist_idx,
                 locked, result, exited>>
-----------------------------------------------------------------------------
(* The engine completes a command: bio_end calls iover_submit, which first *)
(* unlocks the range.                                                      *)
Complete(j, s) ==
  LET b == bio[j][s] IN
  /\ Idle(j) /\ b.stage = "flight" /\ b.todo = {}
  /\ IF b.op = "flush" THEN UNCHANGED locked ELSE Lock!Release(j, Range(b))
  /\ bio' = [bio EXCEPT ![j][s].stage = "submit"]
  /\ UNCHANGED <<media, ideal, faults, timestamp, block_desc, hist_desc, hist_idx,
                 result, exited>>

(* The pattern of a block is the first byte of its header; is_all compares *)
(* that byte only, so a block of pattern 0 passes for zeroes.              *)
Pattern(c) == (c.ts + c.lba) % NPatterns
IsAllZeroes(c) == c.kind = "zeroes" \/ (c.kind = "data" /\ Pattern(c) = 0)
IsAllOnes(c) == c.kind = "ones"
IsAll(value, c) == IF value = "zeroes" THEN IsAllZeroes(c) ELSE IsAllOnes(c)

(* Mutant: the header's LBA is not compared.                               *)
VerifyNoLba(d, l, c) == c.kind = "data" /\ c.ts % TsMod = d.timestamp

(* verify_block_data: the header is there, of this LBA and this write.     *)
VerifyBlockData(d, l, c) == c.kind = "data" /\ c.lba = l /\ c.ts % TsMod = d.timestamp

(* Whether verify_bio_read accepts block l: the result for a block of      *)
(* state zeroes is dropped, uncor and unknown states are not compared.     *)
Accepts(d, l, c) ==
  CASE d.state = "unwritten" -> UnwrRead = "dontcare" \/ IsAll(UnwrRead, c)
    [] d.state = "dealloc" -> IsAll(DeallocRead, c)
    [] d.state = "data" -> VerifyBlockData(d, l, c)
    [] OTHER -> TRUE

(* A read that meets an uncorrectable block returns an error. *)
Failed(b) == b.op = "read" /\ \E l \in Span(b) : b.data[l].kind = "uncor"

(* The error is unexpected if no block of the read is marked uncor         *)
(* (check_read_error) and some block has been written.                     *)
Unexpected(b) ==
  /\ Failed(b)
  /\ \A l \in Span(b) : block_desc[l].state # "uncor"
  /\ \E l \in Span(b) : block_desc[l].state \in {"uncor", "data", "zeroes"}

Miscompare(b) ==
  /\ b.op = "read" /\ ~Failed(b)
  /\ \E l \in Span(b) : ~Accepts(block_desc[l], l, b.data[l])

(* The rest of iover_submit, and of bio_end: verify a read, commit the     *)
(* others, free the bio.                                                   *)
Submit(j, s) ==
  LET b == bio[j][s]
      stop == (Unexpected(b) /\ StopOnError) \/ (Miscompare(b) /\ StopOnMiscompare) IN
  /\ ~exited /\ b.stage = "submit"
  /\ block_desc' = [l \in LBAs |->
       IF l \in Span(b) THEN Committed(b, l, block_desc[l]) ELSE block_desc[l]]
  /\ result' = IF stop THEN -1 ELSE IF Miscompare(b) THEN 1 ELSE result
  /\ exited' = stop
  /\ bio' = IF stop THEN bio ELSE [bio EXCEPT ![j][s] = NoBio]
  /\ UNCHANGED <<media, ideal, faults, timestamp, hist_desc, hist_idx, locked>>

Device ==
  \E j \in Jobs, s \in Slots, l \in LBAs :
    \/ ExecuteWrite(j, s, l) \/ ExecuteRead(j, s, l)
    \/ LoseWrite(j, s, l) \/ \E m \in LBAs : MisdirectRead(j, s, l, m)

Next ==
  \/ Device
  \/ \E j \in Jobs, s \in Slots :
       \/ \E op \in Ops, r \in Lock!Ranges : Generate(j, s, op, r)
       \/ GenerateFlush(j, s)
       \/ Count(j, s) \/ Stamp(j, s) \/ Enqueue(j, s)
       \/ Complete(j, s) \/ Submit(j, s)

Spec == Init /\ [][Next]_vars
-----------------------------------------------------------------------------
(* Type correctness of the journal, the bios and the device.               *)
TypeOK ==
  /\ media \in [LBAs -> Contents] /\ ideal \in [LBAs -> Contents]
  /\ faults \in 0 .. MaxFaults /\ timestamp \in 0 .. MaxTs
  /\ block_desc \in [LBAs -> BlockDescs]
  /\ hist_desc \in [0 .. NHist - 1 -> HistDescs] /\ hist_idx \in Nat
  /\ locked \in [Jobs -> SUBSET Lock!Ranges]
  /\ bio \in [Jobs -> [Slots -> Bios]]
  /\ result \in {-1, 0, 1} /\ exited \in BOOLEAN

(* What descriptor d says of the content c of block l.                     *)
Matches(d, l, c) ==
  CASE d.state = "unwritten" -> UnwrRead = "dontcare" \/ c = Plain(UnwrRead)
    [] d.state = "dealloc" -> c = Plain(DeallocRead)
    [] d.state = "zeroes" -> c = Plain("zeroes")
    [] d.state = "uncor" -> c = Plain("uncor")
    [] d.state = "data" -> VerifyBlockData(d, l, c)
    [] OTHER -> FALSE

(* Bio b changes block l and its descriptor is not committed yet.          *)
Writes(b, l) ==
  b.stage \in {"flight", "submit"} /\ b.op \notin {"read", "flush"} /\ l \in Span(b)

(* iover_submit unlocks a range before it verifies or commits it, so that  *)
(* the lock does not cover the use of the descriptors.  CommitAlone says   *)
(* that no other job comes in between: while a job handles a completion,   *)
(* no other has a bio on these blocks.  The properties below depend on it. *)
(* It holds for jobs with ranges of their own (the tests with several jobs *)
(* at once have them) and for jobs that wait for each other by dependency. *)
DisjointJobs == \A j, k \in Jobs : j # k => JobLbas[j] \cap JobLbas[k] = {}
CommitAlone ==
  \A j, k \in Jobs, s, t \in Slots :
    j # k /\ bio[j][s].stage = "submit" => Span(bio[j][s]) \cap Span(bio[k][t]) = {}

(* Away from the commands under way, the journal describes what a correct  *)
(* device holds: no interleaving of the jobs, of the blocks of a command   *)
(* or of completions lets a descriptor and its block drift apart           *)
(* (commit_block_state against the order in which commands execute), as    *)
(* long as CommitAlone holds.                                              *)
JournalTracksDevice ==
  \A l \in LBAs :
    (\A j \in Jobs, s \in Slots : ~Writes(bio[j][s], l))
      => Matches(block_desc[l], l, ideal[l])

(* A correct device is never blamed: when iover_submit is about to report  *)
(* a read, some block of it is not what a correct device returns.  (The    *)
(* range is unlocked by then, and its descriptors are read after that, so  *)
(* that it takes CommitAlone.)                                             *)
NoFalseAlarm ==
  \A j \in Jobs, s \in Slots :
    LET b == bio[j][s] IN
    b.stage = "submit" /\ (Unexpected(b) \/ Miscompare(b))
      => \E l \in Span(b) : b.data[l] # ideal[l]

(* A wrong block is reported: a read that succeeds and returns, for a      *)
(* block last written with data, anything else than that data fails the    *)
(* comparison, as long as fewer than TsMod writes were stamped and         *)
(* CommitAlone holds.                                                      *)
WrongDataReported ==
  \A j \in Jobs, s \in Slots :
    LET b == bio[j][s] IN
    b.stage = "submit" /\ b.op = "read" /\ ~Failed(b)
      => \A l \in Span(b) :
           block_desc[l].state = "data" /\ b.data[l] # ideal[l] => Miscompare(b)

(* The data of a write differs from what the block holds, so that a write  *)
(* the device loses can be seen: with a single job, iover->timestamp only  *)
(* grows.                                                                  *)
WriteIsVisible ==
  \A j \in Jobs, s \in Slots : \A l \in bio[j][s].todo :
    bio[j][s].op = "write" /\ bio[j][s].stage = "flight" => bio[j][s].data[l] # ideal[l]
=============================================================================
