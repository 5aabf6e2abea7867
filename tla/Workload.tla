------------------------------- MODULE Workload -------------------------------
(***************************************************************************)
(* The bios of one job, from its parameters: generate_bio (iogen.c) picks  *)
(* an opcode, a number of blocks and, up to three times, a start LBA whose *)
(* range is not locked.  JobParams says where the parameters come from;    *)
(* Iover says what happens to the data of a bio, JobRunner how it travels. *)
(*                                                                         *)
(* The jobs have disjoint ranges, so that only a job's own bios lock its   *)
(* LBAs, and lba_overlap is off.  Not here: identify, whose row of lbas[]  *)
(* does not exist; pareto, which sets no start LBA; replay (SpoCycle).     *)
(***************************************************************************)
EXTENDS JobParams

VARIABLES job,        (* the job looked at, 0 before the run               *)
          bio,        (* opcode, nlbs and tries of the call of generate_bio *)
          slba_next,  (* job->slba_next: write and read cursor             *)
          flight,     (* bios generated and not ended                      *)
          written,    (* LBAs whose write has ended                        *)
          sum         (* acct.sum.ops or .bytes, what the amount counts    *)

runVars == <<job, bio, slba_next, flight, written, sum>>

NoBio == [op |-> "none", nlbs |-> 0, try |-> 0, jesd |-> 0]
Init ==
  /\ ParamsInit
  /\ job = 0 /\ bio = NoBio /\ slba_next = <<0, 0>> /\ flight = {} /\ written = {} /\ sum = 0

P == jobs[job]
RangeLbas == P.size.value \div DataSize   (* job->lba_range_size           *)
Begin == P.begin.value \div DataSize      (* job->lba_range_begin          *)
Blocks(b) == b.slba .. b.slba + b.nlbs - 1

(* ALIGN clears the bits of a - 1 in x + a - 1: a rounds up if it is a     *)
(* power of two, gives 0 if it is 0, and another number otherwise.  The    *)
(* set of that value.                                                      *)
MaxBit == 30  (* numbers are below 2^31 here *)
Bits(n) == {i \in 0 .. MaxBit : (n \div 2 ^ i) % 2 = 1}
PowerOf2(a) == \E k \in 0 .. MaxBit : a = 2 ^ k
Align(x, a) ==
  IF a = 0 THEN {0}
  ELSE IF PowerOf2(a) THEN {((x + a - 1) \div a) * a}
  ELSE {n \in 0 .. x + a - 1 : Bits(n) = Bits(x + a - 1) \ Bits(a - 1)}

(* lbas[] has a row per iosize_opcode and is indexed by the bio_opcode:    *)
(* reads get the sizes of iosize, writes those of read_size.               *)
Row(op) == CASE op = "read" -> 0 [] op = "write" -> 1 [] op = "deallocate" -> 3
             [] op = "write_zeroes" -> 4 [] op = "write_uncorrect" -> 5

(* The numbers of blocks of a bio, aligned where an alignment is given.    *)
Sizes(op) ==
  LET l == Lbas(P)[Row(op)]
      a == P.iosizes[Row(op)].align IN
  IF a = 0 THEN l.min .. l.max ELSE UNION {Align(n, a \div DataSize) : n \in l.min .. l.max}

(* A job without OPERATION has a lottery of zeroes: it reads.  On blocks   *)
(* of 512 bytes, write uncorrectable is replaced by a write.               *)
Lottery ==
  LET ops == {o \in Operations \ {"identify"} : P.operations[o] > 0} IN
  {IF o = "write_uncorrect" /\ input.shift = 9 THEN "write" ELSE o :
     o \in IF \A o \in Operations : P.operations[o] = 0 THEN {"read"} ELSE ops}

(* jesd219_gen: three groups of the whole namespace, sizes up to 64 KB in  *)
(* the sectors of the parameter, drawn until they fit into the namespace.  *)
JesdSizes ==
  IF P.lba = 4096 THEN {1, 2, 4, 8, 16} ELSE (1 .. 8) \cup {16, 32, 64, 128}
JesdStarts ==
  LET a == (input.nlbs * 5) \div 100
      b == (input.nlbs * 15) \div 100
      c == (input.nlbs * 20) \div 100 IN
  (0 .. a - 1) \cup (a .. a + b - 1) \cup (c .. c + (input.nlbs * 80) \div 100 - 1)
JesdSlba(start, n) == IF P.lba # 4096 /\ n >= 8 THEN start - (start % 8) ELSE start
JesdBios ==
  {b \in {[slba |-> JesdSlba(s, n), nlbs |-> n] : s \in JesdStarts, n \in JesdSizes} :
     b.slba + b.nlbs <= input.nlbs}

(* Sequential: the cursor, or 0 where the bio would leave the range.       *)
Sequential(cursor) == IF cursor + bio.nlbs > RangeLbas THEN 0 ELSE cursor

(* Mutant: the length of the bio is not subtracted. *)
RandomStartsAny == 0 .. RangeLbas - 1

(* Uniform and zipf: a remainder modulo lba_range_size - nlbs, which is    *)
(* unsigned: anything if the bio is longer than the range.                 *)
RandomStarts ==
  IF bio.nlbs < RangeLbas THEN 0 .. RangeLbas - bio.nlbs - 1 ELSE 0 .. input.nlbs

(* The start that is used: aligned, and counted from the job's range.      *)
Placed(slba) ==
  {Begin + s : s \in IF P.plain.slba_align > DataSize
                       THEN Align(slba, P.plain.slba_align \div DataSize) ELSE {slba}}
Locked(b) == \E f \in flight : Blocks(f) \cap Blocks(b) # {}
-----------------------------------------------------------------------------
Start ==
  /\ pc = "ready" /\ pc' = "run" /\ job' \in 1 .. Len(jobs)
  /\ UNCHANGED <<input, pos, defaults, jobs, iosize, nsis, nvalid,
                 bio, slba_next, flight, written, sum>>

Reached ==
  P.amount.type \in {"io", "byte"} /\ sum >= P.amount.value

(* What the amount of the job counts; bytes include extended metadata.     *)
Counted(op, n) ==
  sum' = CASE P.amount.type = "byte" -> sum + n * (DataSize + input.ext)
           [] P.amount.type = "io" -> sum + 1
           [] OTHER -> sum

Idle == pc = "run" /\ bio = NoBio
Running == Idle /\ ~Reached /\ Cardinality(flight) < P.plain.iodepth
RunOnly == UNCHANGED <<paramVars, job>>

(* generate_bio: the opcode and the number of blocks.  A flush is done     *)
(* with that.                                                              *)
PickFlush ==
  /\ Running /\ "flush" \in Lottery /\ Counted("flush", 0)
  /\ UNCHANGED <<bio, slba_next, flight, written>> /\ RunOnly
PickBio ==
  /\ Running
  /\ \E op \in Lottery \ {"flush"} :
       bio' \in IF P.slba = "jesd219"
                  THEN {[op |-> op, nlbs |-> b.nlbs, try |-> 1, jesd |-> b.slba] : b \in JesdBios}
                  ELSE {[op |-> op, nlbs |-> n, try |-> 1, jesd |-> 0] : n \in Sizes(op)}
  /\ UNCHANGED <<slba_next, flight, written, sum>> /\ RunOnly

GiveUp == bio' = NoBio /\ UNCHANGED <<flight, sum>>

(* Mutant: the tries are not counted off. *)
TryAtForever(slba) ==
  \E s \in Placed(slba) :
  LET b == [op |-> bio.op, slba |-> s, nlbs |-> bio.nlbs] IN
  IF Locked(b)
    THEN bio' = [bio EXCEPT !.try = @ + 1] /\ UNCHANGED <<flight, sum>>
    ELSE bio' = NoBio /\ flight' = flight \cup {b} /\ Counted(b.op, b.nlbs)

(* The end of an iteration of the loop: the bio is generated, or its LBAs  *)
(* are locked and the next try follows, three in all.                      *)
TryAt(slba) ==
  \E s \in Placed(slba) :
  LET b == [op |-> bio.op, slba |-> s, nlbs |-> bio.nlbs] IN
  IF Locked(b)
    THEN IF bio.try = 3 THEN GiveUp ELSE bio' = [bio EXCEPT !.try = @ + 1] /\ UNCHANGED <<flight, sum>>
    ELSE bio' = NoBio /\ flight' = flight \cup {b} /\ Counted(b.op, b.nlbs)

(* Mutants: reads do not stay behind the writes, the cursor does not move. *)
TrySeparateReadAhead ==
  /\ bio.try > 0 /\ P.slba = "seq" /\ P.plain.separate_stream /\ bio.op = "read"
  /\ LET s == Sequential(slba_next[2]) IN
       TryAt(s) /\ slba_next' = [slba_next EXCEPT ![2] = s + bio.nlbs]
  /\ UNCHANGED written /\ RunOnly
TrySequentialStuck ==
  /\ bio.try > 0 /\ P.slba = "seq" /\ ~(P.plain.separate_stream /\ bio.op = "read")
  /\ TryAt(Sequential(slba_next[1]))
  /\ UNCHANGED <<slba_next, written>> /\ RunOnly

(* With SEPARATE_STREAM, reads have their own cursor and stay behind that  *)
(* of the writes.                                                          *)
TrySeparateRead ==
  /\ bio.try > 0 /\ P.slba = "seq" /\ P.plain.separate_stream /\ bio.op = "read"
  /\ LET s == Sequential(slba_next[2]) IN
     IF s + bio.nlbs >= slba_next[1]
       THEN GiveUp /\ UNCHANGED slba_next
       ELSE TryAt(s) /\ slba_next' = [slba_next EXCEPT ![2] = s + bio.nlbs]
  /\ UNCHANGED written /\ RunOnly

(* The cursor moves on whether or not the LBAs could be locked. *)
TrySequential ==
  /\ bio.try > 0 /\ P.slba = "seq" /\ ~(P.plain.separate_stream /\ bio.op = "read")
  /\ LET s == Sequential(slba_next[1]) IN
       TryAt(s) /\ slba_next' = [slba_next EXCEPT ![1] = s + bio.nlbs]
  /\ UNCHANGED written /\ RunOnly

(* A bio as long as the range: a division by zero. *)
TryRandomCrashes ==
  /\ bio.try > 0 /\ P.slba \in {"uniform", "zipf"} /\ bio.nlbs = RangeLbas
  /\ pc' = "crashed"
  /\ UNCHANGED <<input, pos, defaults, jobs, iosize, nsis, nvalid, runVars>>
TryRandom ==
  /\ bio.try > 0 /\ P.slba \in {"uniform", "zipf"} /\ bio.nlbs # RangeLbas
  /\ \E s \in RandomStarts : TryAt(s)
  /\ UNCHANGED <<slba_next, written>> /\ RunOnly

TryFixed ==
  /\ bio.try > 0 /\ P.slba \in {"fixed", "jesd219"}
  /\ TryAt(IF P.slba = "fixed" THEN P.lba ELSE bio.jesd)
  /\ UNCHANGED <<slba_next, written>> /\ RunOnly

(* bio_end, in any order. *)
End ==
  /\ pc = "run" /\ bio = NoBio
  /\ \E b \in flight :
       /\ flight' = flight \ {b}
       /\ written' = IF b.op = "write" THEN written \cup Blocks(b) ELSE written
  /\ UNCHANGED <<bio, slba_next, sum>> /\ RunOnly

(* The amount is reached and the bios in flight have ended. *)
Finish ==
  /\ Idle /\ Reached /\ flight = {} /\ pc' = "done"
  /\ UNCHANGED <<input, pos, defaults, jobs, iosize, nsis, nvalid, runVars>>

Next ==
  \/ ParamsNext /\ UNCHANGED runVars
  \/ (pc = "ready" /\ Start)
  \/ (pc = "run" /\ (\/ PickFlush \/ PickBio \/ TrySeparateRead \/ TrySequential
                     \/ TryRandomCrashes \/ TryRandom \/ TryFixed \/ End \/ Finish))

Spec == Init /\ [][Next]_<<paramVars, runVars>>
-----------------------------------------------------------------------------
(* Type correctness. *)
TypeOK ==
  /\ input \in Inputs /\ pos \in 0 .. Len(input.file) /\ nvalid \in 0 .. Len(jobs)
  /\ defaults \in Params /\ jobs \in Seq(Params)
  /\ pc \in {"parse", "validate", "ready", "run", "done", "failed", "crashed"}
  /\ job \in 0 .. Len(jobs) /\ bio.try \in 0 .. 3 /\ slba_next \in [1 .. 2 -> Nat] /\ sum \in Nat
  /\ \A b \in flight : b.op \in Operations /\ b.slba \in Nat /\ b.nlbs \in Nat
  /\ written \subseteq Nat

Divides(a, n) == a # 0 /\ n % a = 0
Started == job # 0

(* Rounding up to SLBA_ALIGN does not leave the range: there is none, or   *)
(* it is a power of two that divides the range and every size.             *)
AlignFits ==
  P.plain.slba_align > DataSize =>
    LET a == P.plain.slba_align \div DataSize IN
    PowerOf2(a) /\ Divides(a, RangeLbas) /\ \A op \in Lottery \ {"flush"} : \A n \in Sizes(op) : Divides(a, n)

(* Rounding up to an IOSIZE alignment does not exceed the largest size.    *)
SizeAlignFits(op) ==
  LET a == P.iosizes[Row(op)].align IN
  a = 0 \/ (PowerOf2(a \div DataSize) /\ Divides(a \div DataSize, iosize.max \div DataSize))

(* Every bio lies in the range of its job, whatever order its bios end in  *)
(* and however often its tries fail, as long as it fits there at all; the  *)
(* bios of jesd219, which does not know the range, lie in the namespace    *)
(* if the range starts at 0.                                               *)
BioInRange ==
  Started =>
    \A b \in flight :
      /\ (P.slba \in {"seq", "uniform", "zipf"} /\ b.nlbs <= RangeLbas /\ AlignFits)
           => Begin <= b.slba /\ b.slba + b.nlbs <= Begin + RangeLbas
      /\ (P.slba = "jesd219" /\ Begin = 0 /\ P.plain.slba_align <= DataSize)
           => b.slba + b.nlbs <= input.nlbs

(* The data of a bio fits into its buffer: create_bio_pool takes the       *)
(* largest iosize of all sections, and every row lbas[] may be indexed     *)
(* with for a read or a write was counted there.  Exempt are an IOSIZE     *)
(* alignment that does not divide the sizes, and jesd219, which has sizes  *)
(* of its own.                                                             *)
BufferFits ==
  Started /\ P.slba # "jesd219" =>
    \A b \in flight :
      b.op \in {"read", "write"} /\ SizeAlignFits(b.op)
        => b.nlbs * (DataSize + input.ext)
             <= Max(iosize.max, 4096) + input.ext * (iosize.max \div DataSize)

(* The writes leave no hole when the cursor moves on without them: there   *)
(* is nothing but reads and writes, and the writes have one size or none   *)
(* of more than two blocks.                                                *)
StreamWhole ==
  /\ P.plain.slba_align <= DataSize /\ Lottery \subseteq {"read", "write", "flush"}
  /\ \A m, n \in Sizes("write") : m = n \/ (m <= 2 /\ n <= 2)

(* With SEPARATE_STREAM, a read touches only LBAs the job has written and  *)
(* whose write has ended, though cursors move on when a try fails.  It     *)
(* does not hold beyond StreamWhole: a longer write whose try fails after  *)
(* a wrap, or a deallocate, moves the cursor past LBAs nobody wrote.       *)
ReadsWritten ==
  Started /\ P.slba = "seq" /\ P.plain.separate_stream /\ StreamWhole =>
    \A b \in flight : b.op = "read" => Blocks(b) \subseteq written

(* A sequential job of writes fills its range: when the job has ended,     *)
(* every LBA was written, if blocks have no extended metadata, the range   *)
(* is in the namespace and one size divides it.                            *)
SequentialFill ==
  /\ pc = "done" /\ P.slba = "seq" /\ Lottery = {"write"}
  /\ P.amount.type = "byte" /\ P.amount.value >= RangeLbas * DataSize /\ input.ext = 0
  /\ AlignFits /\ \A m, n \in Sizes("write") : m = n /\ Divides(n, RangeLbas)
  => Begin .. Begin + RangeLbas - 1 \subseteq written
=============================================================================
