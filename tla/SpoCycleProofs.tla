--------------------------- MODULE SpoCycleProofs ---------------------------
(* Proofs about SpoCycle, for every size of the pool, of the namespace and *)
(* of the history ring, and every number of power cuts and of writes       *)
(* between them.                                                           *)
EXTENDS SpoCycle, IoverProofs

(* The conditions under which the journal is repaired.  At SPOR level 3 a  *)
(* block is unwritten from the moment a write to it is sent, which must    *)
(* not say anything about its content.  The ring has no entry to repair a  *)
(* block by that write_uncorrect has made unreadable.                      *)
Repairable ==
  (SporLevel3 => UnwrRead = "dontcare") /\ "write_uncorrect" \notin Ops

-----------------------------------------------------------------------------
(* The ring.  The age of a slot: 0 for the one written last, NHist - 1 for *)
(* the one written next.                                                   *)
Ring == 0 .. NHist - 1
Age(i) == IF i < hist_idx THEN hist_idx - 1 - i ELSE hist_idx - 1 - i + NHist

(* The slot of the last entry of block l. *)
NewestOf(i, l) ==
  /\ hist_desc[i].lba = l
  /\ \A m \in Ring : hist_desc[m].lba = l => Age(i) <= Age(m)

(* What verify_hist_read makes of an entry. *)
HistGood(d, l, c) == IF d.state = "zeroes" THEN IsAllZeroes(c) ELSE Accepts(d, l, c)

(* The last entry of a block in flight tells what the command leaves.      *)
Foretold ==
  \A j \in Jobs, s \in Slots : \A l \in LBAs : \A i \in Ring :
    Writes(bio[j][s], l) /\ NewestOf(i, l)
      => HistGood(hist_desc[i].bd, l, Effect(bio[j][s], l))
(* Entries are in the LBAs of the job. *)
HistOwned ==
  \A j \in Jobs : \A i \in Ring : hist_desc[i].lba \in JobLbas[j] \cup {-1}

(* Types, and what makes the replay's bios like those at work. *)
CycleTypes ==
  /\ phase \in {"io", "off", "replay", "ended"} /\ state \in {"running", "aborting", "done"}
  /\ try \in 0 .. 2
  /\ replay_idx \in Ring /\ replay_cnt \in 0 .. NHist
  /\ bio_hist \in [Slots -> Ring]
  /\ cuts \in 0 .. MaxCuts /\ clean \in BOOLEAN
Sound == Base /\ CycleTypes /\ hist_idx \in Ring /\ HistOwned

(* Device and ideal device differ by faults only. *)
Faultless == faults = 0 => media = ideal

(* The replay: it reads single blocks, of the entry it took.  A range is   *)
(* locked by a read that is not completed.                                 *)
Reading(j, s, l) == bio[j][s].op = "read" /\ bio[j][s].slba = l
ReplayBio(b, s) ==
  /\ b.op \in {"none", "read", "flush"}
  /\ b.op = "read" => b.nlbs = 1 /\ hist_desc[bio_hist[s]].lba = b.slba
  /\ faults = 0 /\ b.stage \in {"flight", "submit"} =>
       \A l \in Span(b) \ b.todo : b.data[l] = ideal[l]
ReplayBios == \A j \in Jobs, s \in Slots : ReplayBio(bio[j][s], s)
Locking(b) == b.op = "read" /\ b.stage # "submit"
ReplayLocks ==
  \A j \in Jobs : \A r \in locked[j] :
    \E s \in Slots : Locking(bio[j][s]) /\ Range(bio[j][s]) = r

(* The walk: the oldest entry first, then from the newest on.  It ends     *)
(* with the entries, or before if the ring is not full.                    *)
Full == \A i \in Ring : hist_desc[i].lba # -1
Walk ==
  /\ Age(replay_idx) = IF replay_cnt = NHist THEN NHist - 1 ELSE NHist - 1 - replay_cnt
  /\ state # "running" => replay_cnt = 0 \/ ~Full
Replaying == ReplayBios /\ ReplayLocks /\ Walk

(* The ring fills from slot 0 on: no slot younger than an entry is empty.  *)
Filled ==
  \A i, m \in Ring : hist_desc[m].lba # -1 /\ Age(i) <= Age(m) => hist_desc[i].lba # -1

(* What holds whatever the parameters and the device. *)
Cycle ==
  /\ Sound /\ Foretold /\ Filled /\ Faultless
  /\ phase = "replay" => Replaying

(* Neither the device nor a bio has an unreadable block. *)
Readable ==
  /\ \A l \in LBAs : media[l].kind # "uncor" /\ ideal[l].kind # "uncor"
  /\ \A j \in Jobs, s \in Slots : bio[j][s].op # "write_uncorrect"

(* The descriptor of the block accepts it.  At work, only those of blocks  *)
(* lag behind that a command under way has executed.                       *)
Accepted(l) == Accepts(block_desc[l], l, ideal[l])
Lagging ==
  \A l \in LBAs :
    (\A j \in Jobs, s \in Slots : Writes(bio[j][s], l) => l \in bio[j][s].todo) => Accepted(l)

(* In the replay, the last entry of a block is still ahead of the walk, or *)
(* is being read, and no older entry of the block is.                      *)
Remaining(i) == NHist - 1 - replay_cnt <= Age(i)
Due(i, l) ==
  /\ NewestOf(i, l) /\ Oldest # l
  /\ Remaining(i) \/ \E j \in Jobs, s \in Slots : Reading(j, s, l)
  /\ \A j \in Jobs, s \in Slots : Reading(j, s, l) => bio_hist[s] = i

(* A block that is not accepted will be: its last entry accepts it.        *)
ToRepair(i, l) == Due(i, l) /\ HistGood(hist_desc[i].bd, l, ideal[l])
Repairing ==
  \A l \in LBAs : Accepted(l) \/ (Full /\ \E i \in Ring : ToRepair(i, l))
Repaired == \A l \in LBAs : Accepted(l)

(* What the journal says in each phase, unless a cycle fell into a gap. *)
Journal ==
  clean /\ faults = 0 =>
    /\ phase \in {"io", "off"} => Lagging
    /\ phase = "replay" => Repairing
    /\ phase = "ended" => Repaired
SpoInv == Cycle /\ Readable /\ Journal

-----------------------------------------------------------------------------
(* The positions of the ring. *)
LEMMA RingFacts ==
  /\ NHist \in Nat \ {0} /\ 0 \in Ring /\ Ring \subseteq Nat
  /\ hist_idx \in Ring => \A i \in Ring : Age(i) \in Ring
  BY CutsAssumption, SizesAssumption DEF Ring, Age

LEMMA Modulo ==
  ASSUME NEW n \in Nat \ {0}, NEW x \in Int
  PROVE  /\ 0 <= x /\ x < n => x % n = x
         /\ n <= x /\ x < 2 * n => x % n = x - n
         /\ -n <= x /\ x < 0 => x % n = x + n
<1>1. PICK q \in Int, r \in 0 .. n - 1 : x = n * q + r /\ x % n = r
  <2>1. x \div n \in Int /\ x % n \in 0 .. n - 1 /\ x = n * (x \div n) + (x % n)
    OBVIOUS
  <2> QED BY <2>1
<1>2. ASSUME q >= 1 PROVE n * q >= n
  BY <1>2
<1>3. ASSUME q >= 2 PROVE n * q >= 2 * n
  BY <1>3
<1>4. ASSUME q <= -1 PROVE n * q <= -n
  BY <1>4
<1>5. ASSUME q <= -2 PROVE n * q <= -(2 * n)
  BY <1>5
<1>6. q = 0 \/ q = 1 \/ q = -1 \/ q >= 2 \/ q <= -2
  OBVIOUS
<1>7. CASE q = 0 \/ q >= 2 \/ q <= -2
  BY <1>1, <1>3, <1>5, <1>7
<1>8. CASE q = 1
  BY <1>1, <1>8
<1>9. CASE q = -1
  BY <1>1, <1>9
<1> QED BY <1>6, <1>7, <1>8, <1>9

(* What backup_hist_state does in terms of ages: it rewrites the oldest    *)
(* slots, one for each block of the command, and they become the youngest. *)
LEMMA RingStep ==
  ASSUME TypeOK, hist_idx \in Ring, NEW b \in Bios, BioShape(b),
         b.op \notin {"none", "read", "flush"}, BackupHist(b)
  PROVE  /\ hist_idx' \in Ring /\ b.nlbs \in 1 .. NHist
         /\ \A i \in Ring :
              LET l == b.slba + (NHist - 1 - Age(i)) IN
              IF NHist - b.nlbs <= Age(i)
                THEN /\ Age(i)' = Age(i) + b.nlbs - NHist
                     /\ l \in Span(b)
                     /\ hist_desc'[i] = [lba |-> l, bd |-> HistNext(b, l, hist_desc[i].bd)]
                ELSE Age(i)' = Age(i) + b.nlbs /\ hist_desc'[i] = hist_desc[i]
<1>1. NHist \in Nat \ {0} /\ hist_idx \in Nat /\ hist_idx < NHist
  BY RingFacts DEF Ring
<1>2. b.nlbs \in 1 .. NHist /\ b.slba \in Nat
  <2>1. Range(b) \in Lock!Ranges /\ b.slba \in LBAs
    BY DEF BioShape, Bios
  <2>2. b.nlbs \in IoSizes
    BY <2>1 DEF Lock!Ranges, Range
  <2>3. b.nlbs \in 1 .. NLbas /\ NLbas \in Nat /\ b.nlbs <= NHist
    <3>1. \A x \in IoSizes : x <= NHist
      BY <1>1, SizesAssumption
    <3>2. IoSizes \subseteq 1 .. NLbas /\ NLbas \in Nat
      BY SizesAssumption
    <3> QED BY <2>2, <3>1, <3>2
  <2>4. b.slba \in Nat
    BY <2>1, LbaFacts
  <2> QED BY <1>1, <2>3, <2>4
<1>3. PICK n \in 1 .. NHist : n = b.nlbs
  BY <1>2
<1>4. PICK h \in Nat : h = hist_idx /\ h < NHist
  BY <1>1
<1>5. /\ hist_idx' = (h + n) % NHist
      /\ hist_desc' = [i \in Ring |->
           IF (i - h) % NHist < n
             THEN [lba |-> b.slba + ((i - h) % NHist),
                   bd |-> HistNext(b, b.slba + ((i - h) % NHist), hist_desc[i].bd)]
             ELSE hist_desc[i]]
  BY <1>1, <1>3, <1>4 DEF BackupHist, Ring
<1>6. hist_idx' = IF h + n < NHist THEN h + n ELSE h + n - NHist
  <2>1. h + n \in Int /\ 0 <= h + n /\ h + n < 2 * NHist
    BY <1>1, <1>3, <1>4
  <2>2. PICK x \in Int : x = h + n
    BY <2>1
  <2>3. /\ 0 <= x /\ x < NHist => x % NHist = x
        /\ NHist <= x /\ x < 2 * NHist => x % NHist = x - NHist
    BY <1>1, Modulo
  <2>4. hist_idx' = x % NHist
    BY <1>5, <2>2
  <2> QED BY <1>1, <2>1, <2>2, <2>3, <2>4
<1>7. hist_idx' \in Ring
  BY <1>1, <1>3, <1>4, <1>6 DEF Ring
<1>8. ASSUME NEW i \in Ring
      PROVE  /\ (i - h) % NHist = NHist - 1 - Age(i)
             /\ Age(i) \in Ring
             /\ IF NHist - n <= Age(i) THEN Age(i)' = Age(i) + n - NHist
                                       ELSE Age(i)' = Age(i) + n
  <2>1. i \in Nat /\ i < NHist /\ i - h \in Int
    BY <1>1, <1>4 DEF Ring
  <2>2. (i - h) % NHist = IF i < h THEN i - h + NHist ELSE i - h
    <3>1. PICK x \in Int : x = i - h
      BY <2>1
    <3>2. /\ 0 <= x /\ x < NHist => x % NHist = x
          /\ -NHist <= x /\ x < 0 => x % NHist = x + NHist
      BY <1>1, Modulo
    <3> QED BY <1>1, <1>4, <2>1, <3>1, <3>2
  <2>3. Age(i) = IF i < h THEN h - 1 - i ELSE h - 1 - i + NHist
    BY <1>4 DEF Age
  <2>4. Age(i)' = IF i < hist_idx' THEN hist_idx' - 1 - i ELSE hist_idx' - 1 - i + NHist
    BY DEF Age
  <2>5. PICK g \in Nat : g = hist_idx' /\ g = IF h + n < NHist THEN h + n ELSE h + n - NHist
    BY <1>6, <1>7 DEF Ring
  <2>6. PICK a \in Nat : a = Age(i) /\ a < NHist /\ a = IF i < h THEN h - 1 - i ELSE h - 1 - i + NHist
    BY <1>1, <1>4, <2>1, <2>3
  <2>7. PICK e \in Nat : e = Age(i)' /\ e = IF i < g THEN g - 1 - i ELSE g - 1 - i + NHist
    BY <1>1, <1>3, <1>4, <2>1, <2>4, <2>5
  <2>8. a \in Ring /\ (i - h) % NHist = NHist - 1 - a
    BY <1>1, <1>4, <2>1, <2>2, <2>6 DEF Ring
  <2>9. IF NHist - n <= a THEN e = a + n - NHist ELSE e = a + n
    BY <1>1, <1>3, <1>4, <2>1, <2>5, <2>6, <2>7
  <2> QED BY <2>6, <2>7, <2>8, <2>9
<1>9. ASSUME NEW i \in Ring, NHist - n <= Age(i)
      PROVE  b.slba + (NHist - 1 - Age(i)) \in Span(b)
  BY <1>1, <1>2, <1>3, <1>8, <1>9 DEF Span, Ring
<1>10. ASSUME NEW i \in Ring
       PROVE  LET l == b.slba + (NHist - 1 - Age(i)) IN
              IF NHist - n <= Age(i)
                THEN hist_desc'[i] = [lba |-> l, bd |-> HistNext(b, l, hist_desc[i].bd)]
                ELSE hist_desc'[i] = hist_desc[i]
  <2>1. PICK o \in Nat : o = (i - h) % NHist /\ o = NHist - 1 - Age(i)
    BY <1>1, <1>8 DEF Ring
  <2>2. o < n <=> NHist - n <= Age(i)
    BY <1>1, <1>3, <1>8, <2>1 DEF Ring
  <2> QED BY <1>5, <2>1, <2>2
<1> QED BY <1>2, <1>3, <1>7, <1>8, <1>9, <1>10
-----------------------------------------------------------------------------
(* Types.  There is one job. *)
LEMMA OneJobFact == \A j, k \in Jobs : j = k
  BY OneJob

(* No other job can be at a block whose completion the job handles. *)
LEMMA OneJobAlone == CommitAlone'
  BY OneJobFact DEF CommitAlone

LEMMA SameRing ==
  ASSUME UNCHANGED <<hist_desc, hist_idx>>
  PROVE  /\ hist_idx \in Ring /\ HistOwned => hist_idx' \in Ring /\ HistOwned'
         /\ \A i \in Ring : Age(i)' = Age(i)
         /\ \A i \in Ring, l \in LBAs : NewestOf(i, l)' <=> NewestOf(i, l)
  BY DEF HistOwned, NewestOf, Age

LEMMA EnqueueRing ==
  ASSUME Base, hist_idx \in Ring, HistOwned, NEW j \in Jobs, NEW s \in Slots, Enqueue(j, s)
  PROVE  hist_idx' \in Ring /\ HistOwned'
<1> DEFINE b == bio[j][s]
<1>1. b \in Bios /\ BioShape(b) /\ TypeOK /\ Span(b) \subseteq JobLbas[j]
  BY DEF Base, TypeOK, Shapes, Owned
<1>2. BackupHist(b) /\ b.stage = "enqueue" /\ b.op # "none"
  BY <1>1 DEF Enqueue, BioShape
<1>3. CASE b.op \in {"read", "flush"}
  BY <1>2, <1>3, SameRing DEF BackupHist
<1>4. CASE b.op \notin {"none", "read", "flush"}
  <2>1. hist_idx' \in Ring
    BY <1>1, <1>2, <1>4, RingStep
  <2>2. ASSUME NEW i \in Ring
        PROVE  hist_desc'[i].lba \in Span(b) \/ hist_desc'[i] = hist_desc[i]
    <3> DEFINE l == b.slba + (NHist - 1 - Age(i))
    <3>1. \/ l \in Span(b) /\ hist_desc'[i] = [lba |-> l, bd |-> HistNext(b, l, hist_desc[i].bd)]
          \/ hist_desc'[i] = hist_desc[i]
      BY <1>1, <1>2, <1>4, RingStep
    <3> HIDE DEF l
    <3> QED BY <3>1
  <2>3. HistOwned'
    BY <2>2, <1>1, OneJobFact DEF HistOwned
  <2> QED BY <2>1, <2>3
<1> QED BY <1>2, <1>3, <1>4

(* A new process starts with free bios. *)
LEMMA NewProcessBase ==
  ASSUME Base, NewProcess, ideal' \in [LBAs -> Contents], \A l \in LBAs : IsReal(ideal'[l])
  PROVE  Base'
<1>1. \A j \in Jobs, s \in Slots : bio'[j][s] = NoBio
  BY DEF NewProcess
<1>2. /\ NoBio.stage = "free" /\ NoBio.op = "none" /\ NoBio.slba = 0 /\ NoBio.nlbs = 0
      /\ NoBio.todo = {} /\ \A l \in LBAs : IsReal(NoBio.data[l])
  BY DEF NoBio, IsReal, Plain
<1>3. TypeOK'
  <2>1. bio' \in [Jobs -> [Slots -> Bios]] /\ locked' \in [Jobs -> SUBSET Lock!Ranges]
    BY NoBioType DEF NewProcess
  <2>2. timestamp' \in 0 .. MaxTs
    BY NumbersAssumption DEF NewProcess
  <2>3. TypeOK /\ UNCHANGED <<media, faults, block_desc, hist_desc, hist_idx>>
    BY DEF Base, NewProcess
  <2>4. result' = 0 /\ exited' = FALSE
    BY DEF NewProcess
  <2> QED BY <2>1, <2>2, <2>3, <2>4 DEF TypeOK
<1>4. Span(NoBio) = {}
  BY <1>2 DEF Span
<1>5. BioShape(NoBio)
  BY <1>2, <1>4, SizesAssumption DEF BioShape
<1>6. Shapes' /\ Owned' /\ Disjoint' /\ LockKept'
  BY <1>1, <1>2, <1>4, <1>5 DEF Shapes, Owned, Disjoint, LockKept
<1>7. Prepared(NoBio) = {} /\ \A l \in LBAs : ~Writes(NoBio, l)
  BY <1>2 DEF Prepared, Writes
<1>8. \A l \in LBAs : IsReal(media'[l])
  BY DEF Base, Real, NewProcess
<1>9. Stamped' /\ Executed' /\ Real'
  BY <1>1, <1>2, <1>7, <1>8 DEF Stamped, Executed, Real
<1> QED BY <1>3, <1>6, <1>9 DEF Base

(* Steps that leave the cycle's own variables alone. *)
LEMMA WorkSound ==
  ASSUME Sound, NEW j \in Jobs, NEW s \in Slots, UNCHANGED spoVars,
         \/ \E op \in Ops, r \in Lock!Ranges : Generate(j, s, op, r)
         \/ Count(j, s) \/ Stamp(j, s) \/ Enqueue(j, s)
         \/ Complete(j, s) \/ Submit(j, s)
  PROVE  Sound'
<1>1. Base /\ hist_idx \in Ring /\ HistOwned
  BY DEF Sound
<1>2. Base'
  BY <1>1, OneJobAlone, GenerateTakes, GenerateInv, CountInv, StampInv, EnqueueInv, CompleteInv, SubmitInv
<1>3. CycleTypes'
  BY DEF Sound, CycleTypes, spoVars
<1>4. CASE Enqueue(j, s)
  BY <1>1, <1>2, <1>3, <1>4, EnqueueRing DEF Sound
<1>5. CASE ~Enqueue(j, s)
  <2>1. UNCHANGED <<hist_desc, hist_idx>>
    BY <1>5 DEF Generate, Count, Stamp, Complete, Submit
  <2> QED BY <1>1, <1>2, <1>3, <2>1, SameRing DEF Sound
<1> QED BY <1>4, <1>5

LEMMA DeviceSound ==
  ASSUME Sound, DeviceRuns
  PROVE  Sound'
<1>1. Base /\ hist_idx \in Ring /\ HistOwned /\ Device /\ UNCHANGED spoVars
  BY DEF Sound, DeviceRuns
<1>2. Base'
  BY <1>1, DeviceInv
<1>3. CycleTypes'
  BY <1>1 DEF Sound, CycleTypes, spoVars
<1>4. UNCHANGED <<hist_desc, hist_idx>>
  <2>1. PICK j \in Jobs, s \in Slots, l \in LBAs :
          \/ ExecuteWrite(j, s, l) \/ ExecuteRead(j, s, l)
          \/ LoseWrite(j, s, l) \/ \E m \in LBAs : MisdirectRead(j, s, l, m)
    BY <1>1 DEF Device
  <2> QED BY <2>1 DEF ExecuteWrite, ExecuteRead, LoseWrite, MisdirectRead
<1> QED BY <1>1, <1>2, <1>3, <1>4, SameRing DEF Sound

LEMMA SameBase ==
  ASSUME Base, UNCHANGED vars
  PROVE  Base'
<1>1. TypeOK' /\ Shapes' /\ Owned' /\ Disjoint' /\ LockKept'
  BY DEF vars, Base, TypeOK, Shapes, Owned, Disjoint, LockKept
<1>2. Stamped' /\ Executed' /\ Real'
  BY DEF vars, Base, Stamped, Executed, Real
<1> QED BY <1>1, <1>2 DEF Base

(* A try of the replay takes the range of one block for a read, as a try   *)
(* at work does, or nothing.                                               *)
Entry == hist_desc[replay_idx]
EntryRange == [slba |-> Entry.lba, nlbs |-> 1]

LEMMA EntryFacts ==
  ASSUME Sound, Entry.lba # -1
  PROVE  /\ Entry.lba \in LBAs /\ EntryRange \in Lock!Ranges
         /\ EntryRange.slba = Entry.lba /\ EntryRange.nlbs = 1
         /\ Span(EntryRange) = {Entry.lba} /\ Lock!Span(EntryRange) = {Entry.lba}
         /\ \A j \in Jobs : Entry.lba \in JobLbas[j]
<1>1. replay_idx \in Ring /\ Entry \in HistDescs
  BY DEF Sound, CycleTypes, Base, TypeOK, Ring, Entry
<1>2. Entry.lba \in LBAs
  BY <1>1 DEF HistDescs
<1>3. \A j \in Jobs : Entry.lba \in JobLbas[j]
  BY <1>1 DEF Sound, HistOwned, Entry
<1>4. PICK l \in LBAs : l = Entry.lba
  BY <1>2
<1>5. l \in Nat /\ l + 1 <= NLbas
  BY SizesAssumption DEF LBAs
<1>6. EntryRange = [slba |-> l, nlbs |-> 1]
  BY <1>4 DEF EntryRange
<1>7. EntryRange.slba = l /\ EntryRange.nlbs = 1
  BY <1>6
<1>8. EntryRange \in Lock!Ranges
  BY <1>5, <1>6, <1>7, CutsAssumption DEF Lock!Ranges, LBAs
<1>9. Span(EntryRange) = {l} /\ Lock!Span(EntryRange) = {l}
  BY <1>5, <1>7 DEF Span, Lock!Span
<1> QED BY <1>3, <1>4, <1>7, <1>8, <1>9

TryTakes(j, s) ==
  /\ Takes(j, s, "read", EntryRange)
  /\ bio_hist' = [bio_hist EXCEPT ![s] = replay_idx] /\ try' = 0
TryFails ==
  /\ \E k \in Jobs : \E t \in locked[k] : Lock!Span(EntryRange) \cap Lock!Span(t) # {}
  /\ UNCHANGED <<vars, bio_hist>> /\ try' \in 0 .. 2

LEMMA TryStep ==
  ASSUME Sound, NEW j \in Jobs, NEW s \in Slots, ReplayTry(j, s)
  PROVE  /\ phase = "replay" /\ Entry.lba # -1 /\ replay_cnt > 0
         /\ replay_idx' = Older(replay_idx) /\ replay_cnt' = replay_cnt - 1
         /\ state' = IF replay_cnt = 1 THEN "aborting" ELSE state
         /\ UNCHANGED <<phase, cuts, clean>>
         /\ TryTakes(j, s) \/ TryFails
<1>1. /\ phase = "replay" /\ Idle(j) /\ bio[j][s].stage = "free"
      /\ Entry.lba # -1 /\ replay_cnt > 0
      /\ replay_idx' = Older(replay_idx) /\ replay_cnt' = replay_cnt - 1
      /\ state' = IF replay_cnt = 1 THEN "aborting" ELSE state
      /\ UNCHANGED <<phase, cuts, clean>>
      /\ UNCHANGED <<media, ideal, faults, timestamp, block_desc, hist_desc, hist_idx,
                     result, exited>>
  BY DEF ReplayTry, Entry
<1>2. /\ Entry.lba \in LBAs /\ EntryRange \in Lock!Ranges
      /\ EntryRange.slba = Entry.lba /\ EntryRange.nlbs = 1
      /\ Span(EntryRange) = {Entry.lba} /\ Entry.lba \in JobLbas[j]
  BY <1>1, EntryFacts
<1> DEFINE free == \A k \in Jobs : \A t \in locked[k] : Lock!Span(EntryRange) \cap Lock!Span(t) = {}
<1>3. CASE free
  <2>1. /\ locked' = [locked EXCEPT ![j] = @ \cup {EntryRange}]
        /\ bio' = [bio EXCEPT ![j][s] =
             [NoBio EXCEPT !.stage = "enqueue", !.op = "read",
                           !.slba = Entry.lba, !.nlbs = 1, !.todo = {Entry.lba}]]
        /\ bio_hist' = [bio_hist EXCEPT ![s] = replay_idx] /\ try' = 0
    BY <1>3 DEF ReplayTry, Entry, EntryRange
  <2>2. [NoBio EXCEPT !.stage = "enqueue", !.op = "read",
                      !.slba = Entry.lba, !.nlbs = 1, !.todo = {Entry.lba}]
        = [NoBio EXCEPT !.stage = IF "read" = "write" THEN "count" ELSE "enqueue",
                        !.op = "read", !.slba = EntryRange.slba, !.nlbs = EntryRange.nlbs,
                        !.todo = Span(EntryRange),
                        !.ts = IF "read" = "write" THEN timestamp ELSE 0]
    <3>1. EntryRange.slba = Entry.lba /\ EntryRange.nlbs = 1 /\ Span(EntryRange) = {Entry.lba}
      BY <1>2
    <3>2. NoBio.ts = 0 /\ 0 \in 0 .. MaxTs /\ 1 \in 0 .. NLbas
      BY NumbersAssumption, SizesAssumption DEF NoBio
    <3> DEFINE x == [NoBio EXCEPT !.stage = "enqueue", !.op = "read", !.slba = Entry.lba,
                                  !.nlbs = 1, !.todo = {Entry.lba}]
               y == [NoBio EXCEPT !.stage = "enqueue", !.op = "read", !.slba = Entry.lba,
                                  !.nlbs = 1, !.todo = {Entry.lba}, !.ts = 0]
    <3>3. x \in Bios /\ y \in Bios
      BY <1>2, <3>2, NoBioType DEF Bios, Stages, Opcodes
    <3>4. /\ x.stage = y.stage /\ x.op = y.op /\ x.slba = y.slba /\ x.nlbs = y.nlbs
          /\ x.data = y.data /\ x.todo = y.todo /\ x.ts = y.ts
      BY <3>2, NoBioType DEF Bios
    <3> HIDE DEF x, y
    <3>5. x = y
      BY <3>3, <3>4 DEF Bios
    <3> QED BY <3>1, <3>5 DEF x, y
  <2>3. Lock!Acquire(j, EntryRange)
    BY <1>3, <2>1 DEF Lock!Acquire
  <2>4. Span(EntryRange) \subseteq JobLbas[j]
    BY <1>2
  <2>5. bio' = [bio EXCEPT ![j][s] =
          [NoBio EXCEPT !.stage = IF "read" = "write" THEN "count" ELSE "enqueue",
                        !.op = "read", !.slba = EntryRange.slba, !.nlbs = EntryRange.nlbs,
                        !.todo = Span(EntryRange),
                        !.ts = IF "read" = "write" THEN timestamp ELSE 0]]
    BY <2>1, <2>2, Zenon
  <2>6. Takes(j, s, "read", EntryRange)
    BY <1>1, <2>3, <2>4, <2>5 DEF Takes
  <2> QED BY <1>1, <2>1, <2>6 DEF TryTakes
<1>4. CASE ~free
  <2>1. try' = (try + 1) % 3 /\ UNCHANGED <<locked, bio, bio_hist>>
    BY <1>4 DEF ReplayTry, Entry, EntryRange
  <2>2. try' \in 0 .. 2
    BY <2>1 DEF Sound, CycleTypes
  <2> QED BY <1>1, <1>4, <2>1, <2>2 DEF TryFails, vars
<1> QED BY <1>3, <1>4

LEMMA OlderAge ==
  ASSUME hist_idx \in Ring, NEW i \in Ring
  PROVE  /\ Older(i) \in Ring
         /\ Age(Older(i)) = IF Age(i) = NHist - 1 THEN 0 ELSE Age(i) + 1
<1>1. NHist \in Nat \ {0} /\ hist_idx \in Nat /\ hist_idx < NHist /\ i \in Nat /\ i < NHist
  BY RingFacts DEF Ring
<1>2. PICK k \in Nat : k = Older(i) /\ k = IF i = 0 THEN NHist - 1 ELSE i - 1
  BY <1>1 DEF Older
<1> QED BY <1>1, <1>2 DEF Age, Ring

LEMMA ReplayTrySound ==
  ASSUME Sound, NEW j \in Jobs, NEW s \in Slots, ReplayTry(j, s)
  PROVE  Sound'
<1>1. Base /\ hist_idx \in Ring /\ HistOwned /\ CycleTypes
  BY DEF Sound
<1>2. /\ phase = "replay" /\ Entry.lba # -1 /\ replay_cnt > 0
      /\ replay_idx' = Older(replay_idx) /\ replay_cnt' = replay_cnt - 1
      /\ state' = IF replay_cnt = 1 THEN "aborting" ELSE state
      /\ UNCHANGED <<phase, cuts, clean>>
      /\ TryTakes(j, s) \/ TryFails
  BY TryStep
<1>3. replay_idx' \in Ring /\ replay_cnt' \in 0 .. NHist
  <2>1. replay_idx \in Ring /\ replay_cnt \in 0 .. NHist
    BY <1>1 DEF CycleTypes
  <2> QED BY <1>1, <1>2, <2>1, OlderAge, RingFacts
<1>4. try' \in 0 .. 2 /\ bio_hist' \in [Slots -> Ring]
  BY <1>1, <1>2 DEF TryTakes, TryFails, CycleTypes
<1>5. CycleTypes'
  BY <1>1, <1>2, <1>3, <1>4 DEF CycleTypes
<1>6. UNCHANGED <<hist_desc, hist_idx>>
  BY <1>2 DEF TryTakes, TryFails, Takes, vars
<1>7. Base'
  <2>1. CASE TryTakes(j, s)
    <3>1. Takes(j, s, "read", EntryRange) /\ EntryRange \in Lock!Ranges
      BY <1>2, <2>1, EntryFacts DEF TryTakes
    <3>2. "read" \in Opcodes \ {"flush"}
      BY DEF Opcodes
    <3> QED BY <1>1, <3>1, <3>2, OneJobAlone, GenerateInv
  <2>2. CASE TryFails
    BY <1>1, <2>2, SameBase DEF TryFails
  <2> QED BY <1>2, <2>1, <2>2
<1> QED BY <1>1, <1>5, <1>6, <1>7, SameRing DEF Sound

(* The flush that ends the walk is like one at work. *)
LEMMA EndStep ==
  ASSUME NEW j \in Jobs, NEW s \in Slots, ReplayEnd(j, s)
  PROVE  /\ phase = "replay" /\ (Entry.lba = -1 \/ replay_cnt = 0)
         /\ TakesFlush(j, s) /\ state' = "done" /\ try' = 0
         /\ UNCHANGED <<phase, replay_idx, replay_cnt, bio_hist, cuts, clean>>
  BY DEF ReplayEnd, Entry, TakesFlush

LEMMA ReplayEndSound ==
  ASSUME Sound, NEW j \in Jobs, NEW s \in Slots, ReplayEnd(j, s)
  PROVE  Sound'
<1>1. Base /\ hist_idx \in Ring /\ HistOwned /\ CycleTypes
  BY DEF Sound
<1>2. /\ TakesFlush(j, s) /\ state' = "done" /\ try' = 0
      /\ UNCHANGED <<phase, replay_idx, replay_cnt, bio_hist, cuts, clean>>
  BY EndStep
<1>3. Base' /\ UNCHANGED <<hist_desc, hist_idx>>
  BY <1>1, <1>2, GenerateFlushInv DEF TakesFlush
<1>4. CycleTypes'
  BY <1>1, <1>2 DEF CycleTypes
<1> QED BY <1>1, <1>3, <1>4, SameRing DEF Sound

LEMMA ReplayFlowSound ==
  ASSUME Sound, NEW j \in Jobs, NEW s \in Slots, ReplayFlow(j, s)
  PROVE  Sound'
<1>1. UNCHANGED spoVars /\ (Enqueue(j, s) \/ Complete(j, s) \/ Submit(j, s))
  BY DEF ReplayFlow
<1> QED BY <1>1, WorkSound

(* What verify_hist_read makes of the bio and of the journal. *)
LEMMA ReplaySubmitBio ==
  ASSUME Sound, NEW j \in Jobs, NEW s \in Slots, ReplaySubmit(j, s)
  PROVE  LET b == bio[j][s] IN
         /\ phase = "replay" /\ b.stage = "submit" /\ b.op = "read"
         /\ block_desc' = [l \in LBAs |-> Fixed(s, b, l)]
         /\ \A l \in LBAs : Fixed(s, b, l) \in BlockDescs
         /\ result' \in {-1, 0, 1} /\ exited' \in BOOLEAN
         /\ UNCHANGED <<media, ideal, faults, timestamp, hist_desc, hist_idx, locked, spoVars>>
         /\ \/ bio' = bio
            \/ bio' \in [Jobs -> [Slots -> Bios]] /\ Others(j, s) /\ bio'[j][s] = NoBio
<1> DEFINE b == bio[j][s]
<1>1. TypeOK /\ bio_hist \in [Slots -> Ring]
  BY DEF Sound, Base, CycleTypes
<1>2. \A l \in LBAs : Fixed(s, b, l) \in BlockDescs
  <2>1. hist_desc[bio_hist[s]] \in HistDescs
    BY <1>1 DEF TypeOK, Ring
  <2>2. hist_desc[bio_hist[s]].bd \in BlockDescs
    BY <2>1 DEF HistDescs
  <2> QED BY <1>1, <2>2 DEF TypeOK, Fixed
<1>3. /\ phase = "replay" /\ b.stage = "submit" /\ b.op = "read"
      /\ block_desc' = [l \in LBAs |-> Fixed(s, b, l)]
      /\ UNCHANGED <<media, ideal, faults, timestamp, hist_desc, hist_idx, locked, spoVars>>
      /\ bio' = bio \/ bio' = [bio EXCEPT ![j][s] = NoBio]
  BY DEF ReplaySubmit
<1>4. result' \in {-1, 0, 1} /\ exited' \in BOOLEAN
  <2>1. result' \in {-1, 1, result}
    BY DEF ReplaySubmit
  <2>2. exited' \in BOOLEAN
    BY ParamsAssumption DEF ReplaySubmit
  <2> QED BY <1>1, <2>1, <2>2 DEF TypeOK
<1>5. CASE bio' = [bio EXCEPT ![j][s] = NoBio]
  BY <1>1, <1>2, <1>3, <1>4, <1>5, NoBioType, BioUpdate
<1> QED BY <1>2, <1>3, <1>4, <1>5

LEMMA ReplaySubmitSound ==
  ASSUME Sound, NEW j \in Jobs, NEW s \in Slots, ReplaySubmit(j, s)
  PROVE  Sound'
<1>1. Base /\ hist_idx \in Ring /\ HistOwned /\ CycleTypes
  BY DEF Sound
<1>2. /\ block_desc' = [l \in LBAs |-> Fixed(s, bio[j][s], l)]
      /\ \A l \in LBAs : Fixed(s, bio[j][s], l) \in BlockDescs
      /\ result' \in {-1, 0, 1} /\ exited' \in BOOLEAN
      /\ UNCHANGED <<media, ideal, faults, timestamp, hist_desc, hist_idx, locked, spoVars>>
      /\ \/ bio' = bio
         \/ bio' \in [Jobs -> [Slots -> Bios]] /\ Others(j, s) /\ bio'[j][s] = NoBio
  BY ReplaySubmitBio
<1>3. block_desc' \in [LBAs -> BlockDescs]
  BY <1>2
<1>4. Base'
  BY <1>1, <1>2, <1>3, FreeInv
<1>5. CycleTypes'
  BY <1>1, <1>2 DEF CycleTypes, spoVars
<1> QED BY <1>1, <1>2, <1>4, <1>5, SameRing DEF Sound

(* The power cut, the two ends of the replay, and a new process. *)
LEMMA StaySound ==
  ASSUME Sound, PowerOff \/ JobEnd \/ MainReturns
  PROVE  Sound' /\ UNCHANGED vars
<1>1. Base /\ hist_idx \in Ring /\ HistOwned /\ CycleTypes
  BY DEF Sound
<1>2. UNCHANGED vars
  BY DEF PowerOff, JobEnd, MainReturns
<1>3. Base' /\ UNCHANGED <<hist_desc, hist_idx>>
  BY <1>1, <1>2, SameBase DEF vars
<1>4. CASE PowerOff
  <2>1. cuts' \in 0 .. MaxCuts
    BY <1>1, <1>4, CutsAssumption DEF PowerOff, CycleTypes
  <2>2. CycleTypes'
    BY <1>1, <1>4, <2>1 DEF PowerOff, replayVars, CycleTypes
  <2> QED BY <1>1, <1>2, <1>3, <2>2, SameRing DEF Sound
<1>5. CASE JobEnd \/ MainReturns
  <2>1. CycleTypes'
    BY <1>1, <1>5 DEF JobEnd, MainReturns, replayVars, CycleTypes
  <2> QED BY <1>1, <1>2, <1>3, <2>1, SameRing DEF Sound
<1> QED BY <1>4, <1>5

LEMMA StartSound ==
  ASSUME Sound, AbortAndReplay \/ NextCycle
  PROVE  Sound'
<1>1. Base /\ hist_idx \in Ring /\ HistOwned /\ CycleTypes
  BY DEF Sound
<1>2. NewProcess /\ UNCHANGED <<hist_desc, hist_idx>>
  BY DEF AbortAndReplay, NextCycle, NewProcess
<1>3. ideal' \in [LBAs -> Contents] /\ \A l \in LBAs : IsReal(ideal'[l])
  <2>1. /\ media \in [LBAs -> Contents] /\ ideal \in [LBAs -> Contents]
        /\ \A l \in LBAs : IsReal(media[l]) /\ IsReal(ideal[l])
    BY <1>1 DEF Base, TypeOK, Real
  <2>2. \/ ideal' = ideal
        \/ \E P \in SUBSET LBAs : ideal' = [l \in LBAs |-> IF l \in P THEN media[l] ELSE ideal[l]]
    BY DEF AbortAndReplay, NextCycle
  <2> QED BY <2>1, <2>2
<1>4. Base'
  BY <1>1, <1>2, <1>3, NewProcessBase
<1>5. CycleTypes'
  <2>1. state' = "running" /\ try' = 0
    BY <1>2 DEF NewProcess
  <2>2. CASE AbortAndReplay
    <3>1. /\ phase' = "replay" /\ replay_idx' = hist_idx /\ replay_cnt' = NHist
          /\ bio_hist' = [x \in Slots |-> 0] /\ cuts' = cuts
      BY <2>2 DEF AbortAndReplay
    <3>2. clean' \in BOOLEAN
      BY <2>2, <1>1 DEF AbortAndReplay, CycleTypes
    <3>3. 0 \in Ring /\ NHist \in 0 .. NHist
      BY RingFacts
    <3> QED BY <1>1, <2>1, <3>1, <3>2, <3>3 DEF CycleTypes
  <2>3. CASE NextCycle
    BY <1>1, <2>1, <2>3 DEF NextCycle, CycleTypes
  <2> QED BY <2>2, <2>3
<1> QED BY <1>1, <1>2, <1>4, <1>5, SameRing DEF Sound

LEMMA InitSound == SpoInit => Sound
<1> SUFFICES ASSUME SpoInit PROVE Sound
  OBVIOUS
<1>1. Init
  BY DEF SpoInit
<1>2. Base
  BY <1>1, InitInv DEF Inv
<1>3. CycleTypes
  BY RingFacts, CutsAssumption DEF SpoInit, CycleTypes
<1>4. hist_idx \in Ring
  BY <1>1, RingFacts DEF Init
<1>5. HistOwned
  BY <1>1 DEF Init, HistOwned, NoHist, Ring
<1> QED BY <1>2, <1>3, <1>4, <1>5 DEF Sound

LEMMA NextSound == Sound /\ [SpoNext]_allVars => Sound'
<1> SUFFICES ASSUME Sound, [SpoNext]_allVars PROVE Sound'
  OBVIOUS
<1>1. CASE UNCHANGED allVars
  <2>1. Base' /\ UNCHANGED <<hist_desc, hist_idx>>
    BY <1>1, SameBase DEF Sound, allVars, vars
  <2>2. CycleTypes'
    BY <1>1 DEF Sound, CycleTypes, allVars, spoVars
  <2> QED BY <2>1, <2>2, SameRing DEF Sound
<1>2. CASE Work
  BY <1>2, WorkSound DEF Work
<1>3. CASE DeviceRuns \/ PowerOff \/ AbortAndReplay \/ JobEnd \/ MainReturns \/ NextCycle
  BY <1>3, DeviceSound, StaySound, StartSound
<1>4. ASSUME NEW j \in Jobs, NEW s \in Slots,
             ReplayTry(j, s) \/ ReplayEnd(j, s) \/ ReplayFlow(j, s) \/ ReplaySubmit(j, s)
      PROVE  Sound'
  BY <1>4, ReplayTrySound, ReplayEndSound, ReplayFlowSound, ReplaySubmitSound
<1> QED BY <1>1, <1>2, <1>3, <1>4 DEF SpoNext

(* Type correctness of the cycle: across any number of power cuts and new  *)
(* processes, the walk of the replay stays in the ring (history_slba) and  *)
(* the journal, the bios and the locks keep their form.                    *)
THEOREM CycleTyped == SpoSpec => []SpoTypeOK
<1>1. Sound => SpoTypeOK
  BY DEF Sound, Base, CycleTypes, Ring, SpoTypeOK
<1> QED BY InitSound, NextSound, <1>1, PTL DEF SpoSpec

-----------------------------------------------------------------------------
(* Steps that leave device, journal and writers as they are: generating,   *)
(* stamping and completing a bio, and the device's part in a read.         *)
SameWrite(b, c) ==
  \A l \in LBAs :
    /\ Writes(c, l) <=> Writes(b, l)
    /\ Writes(c, l) => (l \in c.todo <=> l \in b.todo) /\ Effect(c, l) = Effect(b, l)
Quiet ==
  /\ \A j \in Jobs, s \in Slots : SameWrite(bio[j][s], bio'[j][s])
  /\ UNCHANGED <<media, ideal, block_desc, hist_desc, hist_idx>>

LEMMA OneQuiet ==
  ASSUME NEW j \in Jobs, NEW s \in Slots, Others(j, s), SameWrite(bio[j][s], bio'[j][s]),
         UNCHANGED <<media, ideal, block_desc, hist_desc, hist_idx>>
  PROVE  Quiet
<1>1. ASSUME NEW k \in Jobs, NEW t \in Slots PROVE SameWrite(bio[k][t], bio'[k][t])
  <2>1. CASE k = j /\ t = s
    BY <2>1
  <2>2. CASE k # j \/ t # s
    BY <2>2 DEF Others, SameWrite
  <2> QED BY <2>1, <2>2
<1> QED BY <1>1 DEF Quiet

LEMMA TakesQuiet ==
  ASSUME Base, NEW j \in Jobs, NEW s \in Slots,
         \/ \E op \in Opcodes \ {"flush"}, r \in Lock!Ranges : Takes(j, s, op, r)
         \/ TakesFlush(j, s)
  PROVE  Quiet
<1>1. TypeOK
  BY DEF Base
<1>2. Others(j, s) /\ bio'[j][s].stage \in {"count", "enqueue"}
  BY <1>1, GenerateBio, GenerateFlushBio
<1>3. /\ bio[j][s].stage = "free"
      /\ UNCHANGED <<media, ideal, block_desc, hist_desc, hist_idx>>
  BY DEF Takes, TakesFlush
<1>4. SameWrite(bio[j][s], bio'[j][s])
  BY <1>2, <1>3 DEF SameWrite, Writes
<1> QED BY <1>2, <1>3, <1>4, OneQuiet

LEMMA JobQuiet ==
  ASSUME Base, NEW j \in Jobs, NEW s \in Slots,
         \/ \E op \in Ops, r \in Lock!Ranges : Generate(j, s, op, r)
         \/ Count(j, s) \/ Stamp(j, s) \/ Complete(j, s)
  PROVE  Quiet
<1>1. TypeOK /\ Shapes
  BY DEF Base
<1>2. CASE \E op \in Ops, r \in Lock!Ranges : Generate(j, s, op, r)
  BY <1>2, GenerateTakes, TakesQuiet
<1>3. CASE Count(j, s) \/ Stamp(j, s)
  <2>1. /\ Others(j, s) /\ bio[j][s].stage \in {"count", "stamp"}
        /\ bio'[j][s].stage \in {"stamp", "enqueue"}
    BY <1>1, <1>3, CountBio, StampBio
  <2>2. UNCHANGED <<media, ideal, block_desc, hist_desc, hist_idx>>
    BY <1>3 DEF Count, Stamp
  <2>3. SameWrite(bio[j][s], bio'[j][s])
    BY <2>1 DEF SameWrite, Writes
  <2> QED BY <2>1, <2>2, <2>3, OneQuiet
<1>4. CASE Complete(j, s)
  <2> DEFINE b == bio[j][s]
             c == bio'[j][s]
  <2>1. /\ Others(j, s) /\ Same(b, c) /\ b.stage = "flight" /\ c.stage = "submit"
        /\ b.todo = {} /\ c.todo = {} /\ c.data = b.data
    BY <1>1, <1>4, CompleteBio
  <2>2. UNCHANGED <<media, ideal, block_desc, hist_desc, hist_idx>>
    BY <1>4 DEF Complete
  <2> HIDE DEF b, c
  <2>3. SameWrite(b, c)
    BY <2>1 DEF SameWrite, Writes, Same, Span, Effect
  <2> QED BY <2>1, <2>2, <2>3, OneQuiet DEF b, c
<1> QED BY <1>2, <1>3, <1>4

LEMMA ReturnQuiet ==
  ASSUME Base, NEW j \in Jobs, NEW s \in Slots, NEW l \in LBAs, NEW m \in LBAs,
         Returns(j, s, l, m), UNCHANGED <<hist_desc, hist_idx>>
  PROVE  Quiet
<1>1. TypeOK
  BY DEF Base
<1>2. Others(j, s) /\ bio[j][s].op = "read" /\ bio'[j][s].op = "read"
  <2>1. Others(j, s) /\ Same(bio[j][s], bio'[j][s]) /\ bio[j][s].op = "read"
    BY <1>1, ReturnBio
  <2> QED BY <2>1 DEF Same
<1>3. UNCHANGED <<media, ideal, block_desc>>
  BY DEF Returns
<1>4. SameWrite(bio[j][s], bio'[j][s])
  BY <1>2 DEF SameWrite, Writes
<1> QED BY <1>2, <1>3, <1>4, OneQuiet

LEMMA QuietKeeps ==
  ASSUME Quiet
  PROVE  (Foretold => Foretold') /\ (Lagging => Lagging')
<1>1. UNCHANGED <<hist_desc, hist_idx, block_desc, ideal>>
  BY DEF Quiet
<1>2. ASSUME NEW j \in Jobs, NEW s \in Slots, NEW l \in LBAs
      PROVE  /\ Writes(bio'[j][s], l) <=> Writes(bio[j][s], l)
             /\ Writes(bio'[j][s], l) => /\ l \in bio'[j][s].todo <=> l \in bio[j][s].todo
                                         /\ Effect(bio'[j][s], l) = Effect(bio[j][s], l)
  BY DEF Quiet, SameWrite
<1>3. ASSUME Foretold PROVE Foretold'
  BY <1>1, <1>2, <1>3, SameRing DEF Foretold
<1>4. ASSUME Lagging PROVE Lagging'
  BY <1>1, <1>2, <1>4 DEF Lagging, Accepted
<1> QED BY <1>3, <1>4

(* The slot of a given age. *)
SlotOf(a) == IF a < hist_idx THEN hist_idx - 1 - a ELSE hist_idx - 1 - a + NHist

LEMMA SlotAge ==
  ASSUME hist_idx \in Ring, NEW a \in Ring
  PROVE  SlotOf(a) \in Ring /\ Age(SlotOf(a)) = a
<1>1. NHist \in Nat \ {0} /\ hist_idx \in Nat /\ hist_idx < NHist /\ a \in Nat /\ a < NHist
  BY RingFacts DEF Ring
<1>2. PICK h \in Nat : h = hist_idx /\ h < NHist
  BY <1>1
<1>3. SlotOf(a) = IF a < h THEN h - 1 - a ELSE h - 1 - a + NHist
  BY <1>2 DEF SlotOf
<1>4. SlotOf(a) \in Nat
  BY <1>1, <1>2, <1>3
<1>5. PICK i \in Nat : i = SlotOf(a) /\ i = IF a < h THEN h - 1 - a ELSE h - 1 - a + NHist
  BY <1>3, <1>4
<1>6. Age(i) = IF i < h THEN h - 1 - i ELSE h - 1 - i + NHist
  BY <1>2 DEF Age
<1>7. i \in Ring /\ Age(i) = a
  BY <1>1, <1>2, <1>5, <1>6 DEF Ring
<1> QED BY <1>5, <1>7

LEMMA Commands ==
  ASSUME NEW b \in Bios, BioShape(b), b.stage # "free", b.op \notin {"read", "flush"}
  PROVE  b.op \in {"write", "deallocate", "write_zeroes", "write_uncorrect"}
  BY DEF BioShape, Bios, Opcodes

(* The entry of a command accepts what the command leaves. *)
LEMMA EntryGood ==
  ASSUME NEW b \in Bios, NEW l \in LBAs, NEW d \in BlockDescs,
         b.op \in {"write", "deallocate", "write_zeroes", "write_uncorrect"},
         b.op = "write" => IsStamp(b.data[l], l)
  PROVE  HistGood(HistNext(b, l, d), l, Effect(b, l))
<1> DEFINE e == HistNext(b, l, d)
           c == Effect(b, l)
<1>1. CASE b.op = "write"
  <2>1. e.state = "data" /\ e.timestamp = b.data[l].ts % TsMod /\ c = b.data[l]
    BY <1>1 DEF HistNext, Committed, Effect
  <2> QED BY <2>1, <1>1 DEF HistGood, Accepts, VerifyBlockData, IsStamp
<1>2. CASE b.op = "deallocate"
  <2>1. e.state = "dealloc" /\ c = Plain(DeallocRead) /\ c.kind = DeallocRead
    BY <1>2 DEF HistNext, Committed, Effect, BlockDescs, Plain
  <2> QED BY <2>1, ParamsAssumption DEF HistGood, Accepts, IsAll, IsAllZeroes, IsAllOnes
<1>3. CASE b.op = "write_zeroes"
  <2>1. e.state = "zeroes" /\ c.kind = "zeroes"
    BY <1>3 DEF HistNext, Committed, Effect, BlockDescs, Plain
  <2> QED BY <2>1 DEF HistGood, IsAllZeroes
<1>4. CASE b.op = "write_uncorrect"
  <2>1. e.state = "none"
    BY <1>4 DEF HistNext, BlockDescs
  <2> QED BY <2>1 DEF HistGood, Accepts
<1> QED BY <1>1, <1>2, <1>3, <1>4

(* The entries a command overwrites are the oldest: another block loses    *)
(* its last entry only after all the others.                               *)
LEMMA NewestKept ==
  ASSUME TypeOK, hist_idx \in Ring, NEW b \in Bios, BioShape(b),
         b.op \notin {"none", "read", "flush"}, BackupHist(b),
         NEW l \in LBAs, l \notin Span(b), NEW i \in Ring, NewestOf(i, l)'
  PROVE  NewestOf(i, l) /\ hist_desc'[i] = hist_desc[i]
<1>1. PICK n \in 1 .. NHist : n = b.nlbs
  BY RingStep
<1>2. \A m \in Ring :
        LET x == b.slba + (NHist - 1 - Age(m)) IN
        IF NHist - n <= Age(m)
          THEN /\ Age(m)' = Age(m) + n - NHist /\ x \in Span(b)
               /\ hist_desc'[m] = [lba |-> x, bd |-> HistNext(b, x, hist_desc[m].bd)]
          ELSE Age(m)' = Age(m) + n /\ hist_desc'[m] = hist_desc[m]
  BY <1>1, RingStep
<1>3. NHist \in Nat \ {0} /\ \A m \in Ring : Age(m) \in Nat /\ Age(m) < NHist
  BY RingFacts DEF Ring
<1>4. /\ hist_desc'[i].lba = l
      /\ \A m \in Ring : hist_desc'[m].lba = l => Age(i)' <= Age(m)'
  BY DEF NewestOf
<1>5. ASSUME NHist - n <= Age(i) PROVE hist_desc'[i].lba \in Span(b)
  <2>1. PICK x \in Span(b) : hist_desc'[i] = [lba |-> x, bd |-> HistNext(b, x, hist_desc[i].bd)]
    BY <1>2, <1>5
  <2> QED BY <2>1
<1>6. ~(NHist - n <= Age(i))
  BY <1>4, <1>5
<1>7. Age(i) < NHist - n /\ hist_desc'[i] = hist_desc[i] /\ Age(i)' = Age(i) + n
  <2>1. hist_desc'[i] = hist_desc[i] /\ Age(i)' = Age(i) + n
    BY <1>2, <1>6
  <2> QED BY <1>1, <1>3, <1>6, <2>1
<1>8. ASSUME NEW m \in Ring, hist_desc[m].lba = l
      PROVE  Age(i) <= Age(m)
  <2>1. CASE NHist - n <= Age(m)
    BY <1>1, <1>3, <1>7, <2>1
  <2>2. CASE ~(NHist - n <= Age(m))
    <3>1. Age(m)' = Age(m) + n /\ hist_desc'[m] = hist_desc[m]
      BY <1>2, <2>2
    <3>2. Age(i)' <= Age(m)'
      BY <1>4, <1>8, <3>1
    <3> QED BY <1>1, <1>3, <1>7, <3>1, <3>2
  <2> QED BY <2>1, <2>2
<1> QED BY <1>4, <1>7, <1>8 DEF NewestOf

(* A command that is sent notes its blocks. *)
LEMMA EnqueueForetold ==
  ASSUME Base, hist_idx \in Ring, Foretold, NEW j \in Jobs, NEW s \in Slots, Enqueue(j, s)
  PROVE  Foretold'
<1> DEFINE b == bio[j][s]
           c == bio'[j][s]
<1>0. TypeOK /\ Shapes /\ Owned /\ Disjoint /\ Stamped
  BY DEF Base
<1>1. /\ Others(j, s) /\ Same(b, c) /\ b.stage = "enqueue" /\ c.stage = "flight"
      /\ c.todo = b.todo /\ c.data = b.data
  BY <1>0, EnqueueBio
<1>2. b \in Bios /\ BioShape(b) /\ BackupHist(b)
  BY <1>0 DEF TypeOK, Shapes, Enqueue
<1> HIDE DEF b, c
<1>3. Span(c) = Span(b) /\ \A l \in LBAs : Effect(c, l) = Effect(b, l)
  BY <1>1 DEF Same, Span, Effect
<1>4. CASE b.op \in {"read", "flush"}
  <2>1. UNCHANGED <<hist_desc, hist_idx>>
    BY <1>2, <1>4 DEF BackupHist
  <2>2. ASSUME NEW k \in Jobs, NEW t \in Slots, NEW l \in LBAs, Writes(bio'[k][t], l)
        PROVE  bio'[k][t] = bio[k][t]
    <3>1. ~(k = j /\ t = s)
      BY <1>1, <1>4, <2>2 DEF c, Writes, Same
    <3> QED BY <1>1, <3>1 DEF Others
  <2> QED BY <2>1, <2>2, SameRing DEF Foretold
<1>5. CASE b.op \notin {"read", "flush"}
  <2> SUFFICES ASSUME NEW k \in Jobs, NEW t \in Slots, NEW l \in LBAs, NEW i \in Ring,
                      Writes(bio'[k][t], l), NewestOf(i, l)'
               PROVE  HistGood(hist_desc'[i].bd, l, Effect(bio'[k][t], l))
    BY DEF Foretold
  <2>1. b.op \in {"write", "deallocate", "write_zeroes", "write_uncorrect"}
    BY <1>1, <1>2, <1>5, Commands
  <2>2. PICK n \in 1 .. NHist : n = b.nlbs
    BY <1>0, <1>2, <2>1, RingStep
  <2>3. \A m \in Ring :
          LET x == b.slba + (NHist - 1 - Age(m)) IN
          IF NHist - n <= Age(m)
            THEN /\ Age(m)' = Age(m) + n - NHist /\ x \in Span(b)
                 /\ hist_desc'[m] = [lba |-> x, bd |-> HistNext(b, x, hist_desc[m].bd)]
            ELSE Age(m)' = Age(m) + n /\ hist_desc'[m] = hist_desc[m]
    BY <1>0, <1>2, <2>1, <2>2, RingStep
  <2>4. NHist \in Nat \ {0} /\ \A m \in Ring : Age(m) \in Nat /\ Age(m) < NHist
    BY RingFacts DEF Ring
  <2>5. /\ hist_desc'[i].lba = l
        /\ \A m \in Ring : hist_desc'[m].lba = l => Age(i)' <= Age(m)'
    BY DEF NewestOf
  <2>6. CASE k = j /\ t = s
    <3>1. l \in Span(b) /\ Effect(bio'[k][t], l) = Effect(b, l)
      BY <1>3, <2>6 DEF c, Writes
    <3>2. PICK a \in Nat : a = l - b.slba /\ a < n /\ b.slba \in Nat
      <4>1. b.slba \in Nat /\ l \in Nat
        BY <1>2, LbaFacts DEF Bios
      <4> QED BY <2>2, <3>1, <4>1 DEF Span
    <3>3. NHist - 1 - a \in Ring
      BY <2>2, <2>4, <3>2 DEF Ring
    <3>4. PICK m \in Ring : Age(m) = NHist - 1 - a
      BY <3>3, SlotAge
    <3>5. Age(m)' = n - 1 - a /\ hist_desc'[m].lba = l
      <4>1. NHist - n <= Age(m) /\ b.slba + (NHist - 1 - Age(m)) = l
        BY <2>2, <2>4, <3>2, <3>4, LbaFacts
      <4>2. Age(m)' = Age(m) + n - NHist
        BY <2>3, <4>1
      <4>3. hist_desc'[m] = [lba |-> l, bd |-> HistNext(b, l, hist_desc[m].bd)]
        BY <2>3, <4>1
      <4> QED BY <2>2, <2>4, <3>2, <3>4, <4>2, <4>3
    <3>6. NHist - n <= Age(i)
      <4>1. Age(i)' <= n - 1 - a
        BY <2>5, <3>5
      <4>2. ASSUME ~(NHist - n <= Age(i)) PROVE Age(i)' = Age(i) + n
        BY <2>3, <4>2
      <4> QED BY <2>2, <2>4, <3>2, <4>1, <4>2
    <3>7. PICK x : x = b.slba + (NHist - 1 - Age(i))
      OBVIOUS
    <3>8. hist_desc'[i] = [lba |-> x, bd |-> HistNext(b, x, hist_desc[i].bd)]
      BY <2>3, <3>6, <3>7
    <3>9. hist_desc'[i].bd = HistNext(b, l, hist_desc[i].bd)
      BY <2>5, <3>8
    <3>10. hist_desc[i].bd \in BlockDescs
      BY <1>0 DEF TypeOK, Ring, HistDescs
    <3>11. b.op = "write" => IsStamp(b.data[l], l)
      <4>1. b.op = "write" => l \in Prepared(b)
        BY <1>1, <3>1 DEF Prepared
      <4> QED BY <1>0, <4>1 DEF Stamped, b
    <3> QED BY <1>2, <2>1, <3>1, <3>9, <3>10, <3>11, EntryGood
  <2>7. CASE k # j \/ t # s
    <3>1. bio'[k][t] = bio[k][t]
      BY <1>1, <2>7 DEF Others
    <3>2. l \notin Span(b)
      BY <1>0, <2>7, <3>1 DEF b, Writes, Disjoint
    <3>3. NewestOf(i, l) /\ hist_desc'[i] = hist_desc[i]
      BY <1>0, <1>2, <2>1, <3>2, NewestKept
    <3> QED BY <3>1, <3>3 DEF Foretold
  <2> QED BY <2>6, <2>7
<1> QED BY <1>4, <1>5

(* What is sent later is younger, and no slot is emptied. *)
LEMMA EnqueueFilled ==
  ASSUME Base, hist_idx \in Ring, Filled, NEW j \in Jobs, NEW s \in Slots, Enqueue(j, s)
  PROVE  Filled'
<1> DEFINE b == bio[j][s]
<1>1. b \in Bios /\ BioShape(b) /\ TypeOK /\ BackupHist(b) /\ b.stage = "enqueue" /\ b.op # "none"
  BY DEF Base, TypeOK, Shapes, Enqueue, BioShape
<1> HIDE DEF b
<1>2. CASE b.op \in {"read", "flush"}
  <2>1. UNCHANGED <<hist_desc, hist_idx>>
    BY <1>1, <1>2 DEF BackupHist
  <2> QED BY <2>1, SameRing DEF Filled
<1>3. CASE b.op \notin {"none", "read", "flush"}
  <2> SUFFICES ASSUME NEW i \in Ring, NEW m \in Ring, hist_desc'[m].lba # -1, Age(i)' <= Age(m)'
               PROVE  hist_desc'[i].lba # -1
    BY DEF Filled
  <2>1. PICK n \in 1 .. NHist : n = b.nlbs
    BY <1>1, <1>3, RingStep
  <2>2. \A k \in Ring :
          LET x == b.slba + (NHist - 1 - Age(k)) IN
          IF NHist - n <= Age(k)
            THEN /\ Age(k)' = Age(k) + n - NHist /\ x \in Span(b)
                 /\ hist_desc'[k] = [lba |-> x, bd |-> HistNext(b, x, hist_desc[k].bd)]
            ELSE Age(k)' = Age(k) + n /\ hist_desc'[k] = hist_desc[k]
    BY <1>1, <1>3, <2>1, RingStep
  <2>3. NHist \in Nat \ {0} /\ \A k \in Ring : Age(k) \in Nat /\ Age(k) < NHist
    BY RingFacts DEF Ring
  <2>4. CASE NHist - n <= Age(i)
    <3>1. PICK x \in Span(b) : hist_desc'[i] = [lba |-> x, bd |-> HistNext(b, x, hist_desc[i].bd)]
      BY <2>2, <2>4
    <3>2. x \in Nat
      BY <1>1, LbaFacts DEF BioShape
    <3> QED BY <3>1, <3>2
  <2>5. CASE ~(NHist - n <= Age(i))
    <3>1. Age(i)' = Age(i) + n /\ hist_desc'[i] = hist_desc[i]
      BY <2>2, <2>5
    <3>2. ASSUME NHist - n <= Age(m) PROVE Age(m)' = Age(m) + n - NHist
      BY <2>2, <3>2
    <3>3. ~(NHist - n <= Age(m))
      BY <2>1, <2>3, <3>1, <3>2
    <3>4. Age(m)' = Age(m) + n /\ hist_desc'[m] = hist_desc[m]
      BY <2>2, <3>3
    <3>5. Age(i) <= Age(m)
      BY <2>1, <2>3, <3>1, <3>4
    <3> QED BY <3>1, <3>4, <3>5 DEF Filled
  <2> QED BY <2>4, <2>5
<1> QED BY <1>1, <1>2, <1>3

LEMMA SameFilled ==
  ASSUME UNCHANGED <<hist_desc, hist_idx>>, Filled
  PROVE  Filled'
  BY SameRing DEF Filled

(* No bio that writes appears or changes what it writes. *)
LEMMA ForetoldKept ==
  ASSUME UNCHANGED <<hist_desc, hist_idx>>, Foretold,
         \A j \in Jobs, s \in Slots : \A l \in LBAs :
           Writes(bio'[j][s], l)
             => Writes(bio[j][s], l) /\ Effect(bio'[j][s], l) = Effect(bio[j][s], l)
  PROVE  Foretold'
  BY SameRing DEF Foretold

LEMMA NoWriters ==
  ASSUME UNCHANGED <<hist_desc, hist_idx>>, Foretold,
         \A j \in Jobs, s \in Slots : bio'[j][s] = bio[j][s] \/ bio'[j][s] = NoBio
  PROVE  Foretold'
<1>1. \A l \in LBAs : ~Writes(NoBio, l)
  BY DEF NoBio, Writes
<1> QED BY <1>1, ForetoldKept

LEMMA ExecuteKeeps ==
  ASSUME Base, Foretold, Faultless, NEW j \in Jobs, NEW s \in Slots, NEW l \in LBAs,
         ExecuteWrite(j, s, l) \/ LoseWrite(j, s, l)
  PROVE  Foretold' /\ Faultless'
<1> DEFINE b == bio[j][s]
           c == bio'[j][s]
<1>1. Executes(j, s, l) /\ TypeOK
  BY DEF ExecuteWrite, LoseWrite, Executes, Base
<1>2. /\ Others(j, s) /\ Same(b, c) /\ b.stage = "flight" /\ c.stage = "flight"
      /\ c.data = b.data
  BY <1>1, ExecuteBio
<1>3. UNCHANGED <<hist_desc, hist_idx>>
  BY DEF ExecuteWrite, LoseWrite
<1> HIDE DEF b, c
<1>4. \A x \in LBAs : Writes(c, x) => Writes(b, x) /\ Effect(c, x) = Effect(b, x)
  BY <1>2 DEF Writes, Same, Span, Effect
<1>5. ASSUME NEW k \in Jobs, NEW t \in Slots, NEW x \in LBAs, Writes(bio'[k][t], x)
      PROVE  Writes(bio[k][t], x) /\ Effect(bio'[k][t], x) = Effect(bio[k][t], x)
  <2>1. CASE k = j /\ t = s
    BY <1>4, <1>5, <2>1 DEF b, c
  <2>2. CASE k # j \/ t # s
    BY <1>2, <1>5, <2>2 DEF Others
  <2> QED BY <2>1, <2>2
<1>6. Foretold'
  BY <1>3, <1>5, ForetoldKept
<1>7. Faultless'
  <2>1. CASE ExecuteWrite(j, s, l)
    BY <2>1 DEF ExecuteWrite, Faultless
  <2>2. CASE LoseWrite(j, s, l)
    <3>1. faults \in Nat /\ faults' = faults + 1
      BY <1>1, <2>2, NumbersAssumption DEF LoseWrite, TypeOK
    <3> QED BY <3>1 DEF Faultless
  <2> QED BY <2>1, <2>2
<1> QED BY <1>6, <1>7

LEMMA SubmitForetold ==
  ASSUME Base, Foretold, NEW j \in Jobs, NEW s \in Slots, Submit(j, s)
  PROVE  Foretold'
<1>1. TypeOK /\ UNCHANGED <<hist_desc, hist_idx>>
  BY DEF Base, Submit
<1>2. bio' = bio \/ (Others(j, s) /\ bio'[j][s] = NoBio)
  BY <1>1, SubmitBio
<1> QED BY <1>1, <1>2, NoWriters DEF Others

(* The job at work. *)
LEMMA JobCycle ==
  ASSUME Sound, Foretold, Filled, Faultless, NEW j \in Jobs, NEW s \in Slots,
         \/ \E op \in Ops, r \in Lock!Ranges : Generate(j, s, op, r)
         \/ Count(j, s) \/ Stamp(j, s) \/ Enqueue(j, s)
         \/ Complete(j, s) \/ Submit(j, s)
  PROVE  Foretold' /\ Filled' /\ Faultless'
<1>1. Base /\ hist_idx \in Ring
  BY DEF Sound
<1>2. Faultless'
  <2>1. UNCHANGED <<media, ideal, faults>>
    BY DEF Generate, Count, Stamp, Enqueue, Complete, Submit
  <2> QED BY <2>1 DEF Faultless
<1>3. CASE \/ \E op \in Ops, r \in Lock!Ranges : Generate(j, s, op, r)
           \/ Count(j, s) \/ Stamp(j, s) \/ Complete(j, s)
  <2>1. Quiet
    BY <1>1, <1>3, JobQuiet
  <2>2. UNCHANGED <<hist_desc, hist_idx>>
    BY <2>1 DEF Quiet
  <2> QED BY <1>2, <2>1, <2>2, QuietKeeps, SameFilled
<1>4. CASE Enqueue(j, s)
  BY <1>1, <1>2, <1>4, EnqueueForetold, EnqueueFilled
<1>5. CASE Submit(j, s)
  <2>1. UNCHANGED <<hist_desc, hist_idx>>
    BY <1>5 DEF Submit
  <2> QED BY <1>1, <1>2, <1>5, <2>1, SubmitForetold, SameFilled
<1> QED BY <1>3, <1>4, <1>5

(* The device. *)
LEMMA DeviceSplit ==
  ASSUME Device
  PROVE  \E j \in Jobs, s \in Slots, l \in LBAs :
           \/ ExecuteWrite(j, s, l) \/ LoseWrite(j, s, l)
           \/ \E m \in LBAs :
                /\ Returns(j, s, l, m) /\ UNCHANGED <<hist_desc, hist_idx>>
                /\ (faults' = faults /\ m = l) \/ (faults < MaxFaults /\ faults' = faults + 1)
<1>1. PICK j \in Jobs, s \in Slots, l \in LBAs :
        \/ ExecuteWrite(j, s, l) \/ ExecuteRead(j, s, l)
        \/ LoseWrite(j, s, l) \/ \E m \in LBAs : MisdirectRead(j, s, l, m)
  BY DEF Device
<1>2. ExecuteRead(j, s, l)
        => Returns(j, s, l, l) /\ UNCHANGED <<hist_desc, hist_idx>> /\ faults' = faults
  BY DEF ExecuteRead, Returns
<1>3. \A m \in LBAs :
        MisdirectRead(j, s, l, m)
          => /\ Returns(j, s, l, m) /\ UNCHANGED <<hist_desc, hist_idx>>
             /\ faults < MaxFaults /\ faults' = faults + 1
  BY DEF MisdirectRead, Returns
<1> QED BY <1>1, <1>2, <1>3

LEMMA DeviceCycle ==
  ASSUME Sound, Foretold, Filled, Faultless, Device
  PROVE  Foretold' /\ Filled' /\ Faultless' /\ UNCHANGED <<hist_desc, hist_idx>>
<1>1. Base /\ faults \in Nat
  BY NumbersAssumption DEF Sound, Base, TypeOK
<1>2. PICK j \in Jobs, s \in Slots, l \in LBAs :
           \/ ExecuteWrite(j, s, l) \/ LoseWrite(j, s, l)
           \/ \E m \in LBAs :
                /\ Returns(j, s, l, m) /\ UNCHANGED <<hist_desc, hist_idx>>
                /\ (faults' = faults /\ m = l) \/ (faults < MaxFaults /\ faults' = faults + 1)
  BY DeviceSplit
<1>3. CASE ExecuteWrite(j, s, l) \/ LoseWrite(j, s, l)
  <2>1. UNCHANGED <<hist_desc, hist_idx>>
    BY <1>3 DEF ExecuteWrite, LoseWrite
  <2> QED BY <1>1, <1>3, <2>1, ExecuteKeeps, SameFilled
<1>4. ASSUME NEW m \in LBAs, Returns(j, s, l, m), UNCHANGED <<hist_desc, hist_idx>>,
             (faults' = faults /\ m = l) \/ (faults < MaxFaults /\ faults' = faults + 1)
      PROVE  Foretold' /\ Filled' /\ Faultless'
  <2>1. Quiet
    BY <1>1, <1>4, ReturnQuiet
  <2>2. Faultless'
    BY <1>1, <1>4, <2>1 DEF Faultless, Quiet
  <2> QED BY <1>4, <2>1, <2>2, QuietKeeps, SameFilled
<1> QED BY <1>2, <1>3, <1>4
-----------------------------------------------------------------------------
(* The replay.  Its steps change one bio each. *)

LEMMA OneReplayBio ==
  ASSUME ReplayBios, NEW j \in Jobs, NEW s \in Slots, Others(j, s),
         UNCHANGED <<hist_desc, ideal>>, faults' = 0 => faults = 0,
         \A t \in Slots : t # s => bio_hist'[t] = bio_hist[t],
         ReplayBio(bio[j][s], s)'
  PROVE  ReplayBios'
<1> SUFFICES ASSUME NEW k \in Jobs, NEW t \in Slots PROVE ReplayBio(bio[k][t], t)'
  BY DEF ReplayBios
<1>1. k = j
  BY OneJobFact
<1>2. CASE t = s
  BY <1>1, <1>2
<1>3. CASE t # s
  <2>1. bio'[k][t] = bio[k][t] /\ bio_hist'[t] = bio_hist[t]
    BY <1>3 DEF Others
  <2>2. ReplayBio(bio[k][t], t)
    BY DEF ReplayBios
  <2> QED BY <2>1, <2>2 DEF ReplayBio
<1> QED BY <1>2, <1>3

LEMMA OneReplayLock ==
  ASSUME ReplayLocks, NEW j \in Jobs, NEW s \in Slots, Others(j, s),
         \A r \in locked'[j] :
           r \in locked[j] \/ (Locking(bio'[j][s]) /\ Range(bio'[j][s]) = r),
         Locking(bio[j][s]) =>
           \/ Locking(bio'[j][s]) /\ Range(bio'[j][s]) = Range(bio[j][s])
           \/ Range(bio[j][s]) \notin locked'[j]
  PROVE  ReplayLocks'
<1> SUFFICES ASSUME NEW k \in Jobs, NEW r \in locked'[k]
             PROVE  \E t \in Slots : Locking(bio'[k][t]) /\ Range(bio'[k][t]) = r
  BY DEF ReplayLocks, Locking
<1>1. k = j
  BY OneJobFact
<1>2. CASE Locking(bio'[j][s]) /\ Range(bio'[j][s]) = r
  BY <1>1, <1>2
<1>3. CASE r \in locked[j] /\ ~(Locking(bio'[j][s]) /\ Range(bio'[j][s]) = r)
  <2>1. PICK t \in Slots : Locking(bio[j][t]) /\ Range(bio[j][t]) = r
    BY <1>3 DEF ReplayLocks
  <2>2. t # s
    BY <1>1, <1>3, <2>1
  <2>3. bio'[j][t] = bio[j][t]
    BY <2>2 DEF Others
  <2> QED BY <1>1, <2>1, <2>3
<1> QED BY <1>1, <1>2, <1>3

LEMMA SameWalk ==
  ASSUME Walk, UNCHANGED <<hist_desc, hist_idx, replay_idx, replay_cnt, state>>
  PROVE  Walk'
  BY DEF Walk, Age, Full

(* In the replay the device has nothing to write. *)
LEMMA ReplayReturns ==
  ASSUME Base, ReplayBios, Device
  PROVE  \E j \in Jobs, s \in Slots, l \in LBAs : \E m \in LBAs :
           /\ Returns(j, s, l, m) /\ UNCHANGED <<hist_desc, hist_idx>>
           /\ (faults' = faults /\ m = l) \/ (faults < MaxFaults /\ faults' = faults + 1)
<1>1. PICK j \in Jobs, s \in Slots, l \in LBAs :
           \/ ExecuteWrite(j, s, l) \/ LoseWrite(j, s, l)
           \/ \E m \in LBAs :
                /\ Returns(j, s, l, m) /\ UNCHANGED <<hist_desc, hist_idx>>
                /\ (faults' = faults /\ m = l) \/ (faults < MaxFaults /\ faults' = faults + 1)
  BY DeviceSplit
<1>2. ASSUME ExecuteWrite(j, s, l) \/ LoseWrite(j, s, l) PROVE FALSE
  <2>1. Pending(j, s, l) /\ bio[j][s].op # "read"
    BY <1>2 DEF ExecuteWrite, LoseWrite
  <2>2. bio[j][s].op \in {"none", "flush"} /\ bio[j][s] \in Bios /\ BioShape(bio[j][s])
    BY <2>1 DEF Base, TypeOK, Shapes, ReplayBios, ReplayBio
  <2>3. bio[j][s].nlbs = 0 /\ bio[j][s].slba \in Nat /\ l \in Span(bio[j][s])
    BY <2>1, <2>2, LbaFacts DEF Pending, BioShape, Bios
  <2> QED BY <2>3 DEF Span
<1> QED BY <1>1, <1>2

LEMMA ReturnReplaying ==
  ASSUME Base, Replaying, Faultless, Device, UNCHANGED spoVars
  PROVE  Replaying'
<1>1. TypeOK /\ faults \in Nat /\ ReplayBios /\ ReplayLocks /\ Walk
  BY NumbersAssumption DEF Base, TypeOK, Replaying
<1>2. PICK j \in Jobs, s \in Slots, l \in LBAs : \E m \in LBAs :
           /\ Returns(j, s, l, m) /\ UNCHANGED <<hist_desc, hist_idx>>
           /\ (faults' = faults /\ m = l) \/ (faults < MaxFaults /\ faults' = faults + 1)
  BY <1>1, ReplayReturns
<1>3. PICK m \in LBAs :
           /\ Returns(j, s, l, m) /\ UNCHANGED <<hist_desc, hist_idx>>
           /\ (faults' = faults /\ m = l) \/ (faults < MaxFaults /\ faults' = faults + 1)
  BY <1>2
<1> DEFINE b == bio[j][s]
           c == bio'[j][s]
<1>4. /\ Others(j, s) /\ Same(b, c) /\ b.stage = "flight" /\ c.stage = "flight"
      /\ b.op = "read" /\ c.todo = b.todo \ {l} /\ c.data = [b.data EXCEPT ![l] = media[m]]
  BY <1>1, <1>3, ReturnBio
<1>5. ReplayBio(b, s) /\ b \in Bios /\ BioShape(b)
  BY <1>1 DEF ReplayBios, Base, Shapes, TypeOK
<1>6. /\ UNCHANGED <<media, ideal, locked>>
      /\ UNCHANGED <<replay_idx, replay_cnt, state, bio_hist>>
  BY <1>3 DEF Returns, spoVars
<1> HIDE DEF b, c
<1>7. c.op = "read" /\ c.nlbs = b.nlbs /\ c.slba = b.slba /\ Span(c) = Span(b) /\ Range(c) = Range(b)
  BY <1>4 DEF Same, Span, Range
<1>8. ASSUME faults' = 0, NEW x \in Span(c) \ c.todo PROVE c.data[x] = ideal'[x]
  <2>1. faults = 0 /\ m = l /\ media = ideal
    BY <1>1, <1>3, <1>8 DEF Faultless
  <2>2. x \in LBAs /\ b.data \in [LBAs -> Contents]
    BY <1>5, <1>7, LbaFacts DEF BioShape, Bios
  <2>3. CASE x = l
    BY <1>4, <1>6, <2>1, <2>2, <2>3
  <2>4. CASE x # l
    <3>1. x \in Span(b) \ b.todo
      BY <1>4, <1>7, <2>4
    <3> QED BY <1>4, <1>5, <1>6, <2>1, <2>2, <2>4, <3>1 DEF ReplayBio
  <2> QED BY <2>3, <2>4
<1>9. ReplayBio(bio[j][s], s)'
  BY <1>3, <1>4, <1>5, <1>6, <1>7, <1>8 DEF ReplayBio, b, c
<1>10. faults' = 0 => faults = 0
  BY <1>1, <1>3
<1>11. ReplayBios'
  BY <1>1, <1>3, <1>4, <1>6, <1>9, <1>10, OneReplayBio
<1>12. Locking(b) => Locking(c)
  BY <1>4, <1>7 DEF Locking
<1>13. ReplayLocks'
  BY <1>1, <1>4, <1>6, <1>7, <1>12, OneReplayLock DEF b, c
<1> QED BY <1>1, <1>3, <1>6, <1>11, <1>13, SameWalk DEF Replaying

(* A try moves the walk on by one entry. *)
LEMMA TryWalk ==
  ASSUME Sound, Walk, Entry.lba # -1, replay_cnt > 0, UNCHANGED <<hist_desc, hist_idx>>,
         replay_idx' = Older(replay_idx), replay_cnt' = replay_cnt - 1,
         state' = IF replay_cnt = 1 THEN "aborting" ELSE state
  PROVE  Walk'
<1>1. /\ replay_idx \in Ring /\ hist_idx \in Ring /\ replay_cnt \in 0 .. NHist
      /\ NHist \in Nat \ {0}
  BY RingFacts DEF Sound, CycleTypes
<1>2. Age(replay_idx) = IF replay_cnt = NHist THEN NHist - 1 ELSE NHist - 1 - replay_cnt
  BY DEF Walk
<1>3. /\ Older(replay_idx) \in Ring
      /\ Age(Older(replay_idx)) = IF Age(replay_idx) = NHist - 1 THEN 0 ELSE Age(replay_idx) + 1
  BY <1>1, OlderAge
<1>4. Age(replay_idx)' = Age(Older(replay_idx))
  BY DEF Age
<1>5. Age(replay_idx)' = NHist - 1 - replay_cnt' /\ replay_cnt' # NHist
  BY <1>1, <1>2, <1>3, <1>4
<1>6. state' # "running" => replay_cnt' = 0 \/ ~Full'
  <2>1. CASE replay_cnt = 1
    BY <2>1
  <2>2. CASE replay_cnt # 1
    BY <2>2, <1>1 DEF Walk, Full
  <2> QED BY <2>1, <2>2
<1> QED BY <1>5, <1>6 DEF Walk

LEMMA TryReplaying ==
  ASSUME Sound, Replaying, NEW j \in Jobs, NEW s \in Slots, ReplayTry(j, s)
  PROVE  Replaying'
<1>1. /\ Entry.lba # -1 /\ replay_cnt > 0
      /\ replay_idx' = Older(replay_idx) /\ replay_cnt' = replay_cnt - 1
      /\ state' = IF replay_cnt = 1 THEN "aborting" ELSE state
      /\ TryTakes(j, s) \/ TryFails
  BY TryStep
<1>2. UNCHANGED <<media, ideal, faults, hist_desc, hist_idx>>
  BY <1>1 DEF TryTakes, TryFails, Takes, vars
<1>3. Walk'
  BY <1>1, <1>2, TryWalk DEF Replaying
<1>4. ReplayBios /\ ReplayLocks /\ TypeOK /\ Shapes /\ bio_hist \in [Slots -> Ring]
  BY DEF Replaying, Sound, Base, CycleTypes
<1>5. CASE TryTakes(j, s)
  <2> DEFINE b == bio[j][s]
             c == bio'[j][s]
  <2>1. Takes(j, s, "read", EntryRange) /\ EntryRange \in Lock!Ranges /\ "read" \in Opcodes \ {"flush"}
    BY <1>1, <1>5, EntryFacts DEF TryTakes, Opcodes
  <2>2. /\ Others(j, s) /\ c.stage = "enqueue" /\ c.op = "read"
        /\ c.slba = EntryRange.slba /\ c.nlbs = EntryRange.nlbs /\ Range(c) = EntryRange
    BY <1>4, <2>1, GenerateBio
  <2>3. b.stage = "free" /\ b.op = "none"
    BY <1>4, <2>1 DEF Takes, Shapes, BioShape
  <2>4. locked' = [locked EXCEPT ![j] = @ \cup {EntryRange}]
    BY <2>1 DEF Takes, Lock!Acquire
  <2>5. EntryRange.slba = Entry.lba /\ EntryRange.nlbs = 1
    BY <1>1, EntryFacts
  <2>6. bio_hist'[s] = replay_idx /\ \A t \in Slots : t # s => bio_hist'[t] = bio_hist[t]
    BY <1>4, <1>5 DEF TryTakes
  <2> HIDE DEF b, c
  <2>7. hist_desc'[bio_hist'[s]].lba = c.slba
    BY <1>2, <2>2, <2>5, <2>6 DEF Entry
  <2>8. ReplayBio(bio[j][s], s)'
    BY <2>2, <2>5, <2>7 DEF ReplayBio, c
  <2>9. ReplayBios'
    BY <1>2, <1>4, <2>2, <2>6, <2>8, OneReplayBio
  <2>10. Locking(c) /\ ~Locking(b)
    BY <2>2, <2>3 DEF Locking
  <2>11. \A r \in locked'[j] : r \in locked[j] \/ r = EntryRange
    BY <1>4, <2>4 DEF TypeOK
  <2>12. ReplayLocks'
    BY <1>4, <2>2, <2>10, <2>11, OneReplayLock DEF b, c
  <2> QED BY <1>3, <2>9, <2>12 DEF Replaying
<1>6. CASE TryFails
  <2>1. UNCHANGED <<vars, bio_hist>>
    BY <1>6 DEF TryFails
  <2>2. ReplayBios' /\ ReplayLocks'
    BY <1>4, <2>1 DEF ReplayBios, ReplayBio, ReplayLocks, Locking, vars
  <2> QED BY <1>3, <2>2 DEF Replaying
<1> QED BY <1>1, <1>5, <1>6

LEMMA EndReplaying ==
  ASSUME Sound, Replaying, NEW j \in Jobs, NEW s \in Slots, ReplayEnd(j, s)
  PROVE  Replaying'
<1>1. /\ (Entry.lba = -1 \/ replay_cnt = 0)
      /\ TakesFlush(j, s) /\ state' = "done"
      /\ UNCHANGED <<replay_idx, replay_cnt, bio_hist>>
  BY EndStep
<1>2. UNCHANGED <<ideal, faults, hist_desc, hist_idx, locked>> /\ bio[j][s].stage = "free"
  BY <1>1 DEF TakesFlush
<1>3. ReplayBios /\ ReplayLocks /\ Walk /\ TypeOK /\ Shapes /\ replay_idx \in Ring
  BY DEF Replaying, Sound, Base, CycleTypes
<1>4. Others(j, s) /\ bio'[j][s].stage = "enqueue" /\ bio'[j][s].op = "flush"
  BY <1>1, <1>3, GenerateFlushBio
<1>5. bio[j][s].op = "none"
  BY <1>2, <1>3 DEF Shapes, BioShape
<1>6. ReplayBio(bio[j][s], s)'
  BY <1>4 DEF ReplayBio
<1>7. ReplayBios'
  BY <1>1, <1>2, <1>3, <1>4, <1>6, OneReplayBio
<1>8. ReplayLocks'
  <2>1. ~Locking(bio[j][s])
    BY <1>5 DEF Locking
  <2> QED BY <1>2, <1>3, <1>4, <2>1, OneReplayLock
<1>9. Walk'
  <2>1. Age(replay_idx)' = Age(replay_idx) /\ (Full <=> Full')
    BY <1>1, <1>2 DEF Age, Full
  <2>2. replay_cnt = 0 \/ ~Full
    BY <1>1, <1>3 DEF Full, Entry
  <2> QED BY <1>1, <1>3, <2>1, <2>2 DEF Walk
<1> QED BY <1>7, <1>8, <1>9 DEF Replaying

LEMMA FlowReplaying ==
  ASSUME Sound, Replaying, NEW j \in Jobs, NEW s \in Slots, ReplayFlow(j, s)
  PROVE  Replaying' /\ UNCHANGED <<block_desc, hist_desc, hist_idx, ideal, media, faults>>
<1>1. /\ UNCHANGED spoVars
      /\ Enqueue(j, s) \/ Complete(j, s) \/ (bio[j][s].op = "flush" /\ Submit(j, s))
  BY DEF ReplayFlow
<1>2. UNCHANGED <<replay_idx, replay_cnt, state, bio_hist>>
  BY <1>1 DEF spoVars
<1> DEFINE b == bio[j][s]
           c == bio'[j][s]
<1>3. ReplayBios /\ ReplayLocks /\ Walk /\ TypeOK /\ ReplayBio(b, s) /\ b \in Bios /\ BioShape(b)
      /\ Disjoint
  BY DEF Replaying, ReplayBios, Sound, Base, TypeOK, Shapes
<1>4. CASE Enqueue(j, s)
  <2>1. /\ Others(j, s) /\ Same(b, c) /\ b.stage = "enqueue" /\ c.stage = "flight"
        /\ c.todo = b.todo /\ c.data = b.data
    BY <1>3, <1>4, EnqueueBio
  <2>2. b.op \in {"read", "flush"}
    BY <1>3, <2>1 DEF ReplayBio, BioShape
  <2>3. UNCHANGED <<hist_desc, hist_idx, block_desc, ideal, media, faults, locked>>
    BY <1>4, <2>2 DEF Enqueue, BackupHist
  <2> HIDE DEF b, c
  <2>4. Span(c) = Span(b) /\ Range(c) = Range(b) /\ c.op = b.op /\ c.nlbs = b.nlbs /\ c.slba = b.slba
    BY <2>1 DEF Same, Span, Range
  <2>5. c.todo = Span(c)
    BY <1>3, <2>1, <2>4 DEF BioShape
  <2>6. ReplayBio(bio[j][s], s)'
    BY <1>2, <1>3, <2>1, <2>3, <2>4, <2>5 DEF ReplayBio, c
  <2>7. ReplayBios'
    BY <1>2, <1>3, <2>1, <2>3, <2>6, OneReplayBio
  <2>8. Locking(b) => Locking(c)
    BY <2>1, <2>4 DEF Locking
  <2>9. ReplayLocks'
    BY <1>3, <2>1, <2>3, <2>4, <2>8, OneReplayLock DEF b, c
  <2> QED BY <1>2, <1>3, <2>3, <2>7, <2>9, SameWalk DEF Replaying
<1>5. CASE Complete(j, s)
  <2>1. /\ Others(j, s) /\ Same(b, c) /\ b.stage = "flight" /\ c.stage = "submit"
        /\ b.todo = {} /\ c.todo = {} /\ c.data = b.data
    BY <1>3, <1>5, CompleteBio
  <2>2. UNCHANGED <<hist_desc, hist_idx, block_desc, ideal, media, faults>>
    BY <1>5 DEF Complete
  <2>3. IF b.op = "flush" THEN UNCHANGED locked ELSE Lock!Release(j, Range(b))
    BY <1>5 DEF Complete
  <2> HIDE DEF b, c
  <2>4. Span(c) = Span(b) /\ c.op = b.op /\ c.nlbs = b.nlbs /\ c.slba = b.slba
    BY <2>1 DEF Same, Span
  <2>6. ReplayBio(bio[j][s], s)'
    BY <1>2, <1>3, <2>1, <2>2, <2>4 DEF ReplayBio, c
  <2>7. ReplayBios'
    BY <1>2, <1>3, <2>1, <2>2, <2>6, OneReplayBio
  <2>8. /\ \A r \in locked'[j] : r \in locked[j]
        /\ b.op = "read" => Range(b) \notin locked'[j]
    BY <1>3, <2>3 DEF Lock!Release, TypeOK
  <2>9. ReplayLocks'
    <3>1. Locking(b) => Range(b) \notin locked'[j]
      BY <2>8 DEF Locking
    <3> QED BY <1>3, <2>1, <2>8, <3>1, OneReplayLock DEF b, c
  <2> QED BY <1>2, <1>3, <2>2, <2>7, <2>9, SameWalk DEF Replaying
<1>6. CASE b.op = "flush" /\ Submit(j, s)
  <2>1. Others(j, s) /\ c = NoBio /\ b.stage = "submit"
    BY <1>3, <1>6, SubmitBio DEF Others
  <2>2. UNCHANGED <<hist_desc, hist_idx, ideal, media, faults, locked>>
    BY <1>6 DEF Submit
  <2>3. block_desc' = block_desc
    <3>1. block_desc' = [l \in LBAs |-> IF l \in Span(b) THEN Committed(b, l, block_desc[l])
                                        ELSE block_desc[l]]
      BY <1>6 DEF Submit
    <3>2. Span(b) = {}
      <4>1. b.nlbs = 0 /\ b.slba \in Nat
        BY <1>3, <1>6, LbaFacts DEF BioShape, Bios
      <4> QED BY <4>1 DEF Span
    <3> QED BY <1>3, <3>1, <3>2 DEF TypeOK
  <2>4. NoBio.op = "none" /\ NoBio.stage = "free"
    BY DEF NoBio
  <2>5. ReplayBio(bio[j][s], s)'
    BY <2>1, <2>4 DEF ReplayBio
  <2>6. ReplayBios'
    BY <1>2, <1>3, <2>1, <2>2, <2>5, OneReplayBio
  <2>7. ReplayLocks'
    <3>1. ~Locking(b)
      BY <1>6 DEF Locking
    <3> QED BY <1>3, <2>1, <2>2, <3>1, OneReplayLock
  <2> QED BY <1>2, <1>3, <2>2, <2>3, <2>6, <2>7, SameWalk DEF Replaying
<1> QED BY <1>1, <1>4, <1>5, <1>6

LEMMA SubmitReplaying ==
  ASSUME Sound, Replaying, NEW j \in Jobs, NEW s \in Slots, ReplaySubmit(j, s)
  PROVE  Replaying'
<1>1. /\ bio[j][s].stage = "submit"
      /\ UNCHANGED <<media, ideal, faults, timestamp, hist_desc, hist_idx, locked, spoVars>>
      /\ bio' = bio \/ (Others(j, s) /\ bio'[j][s] = NoBio)
  BY ReplaySubmitBio
<1>2. UNCHANGED <<replay_idx, replay_cnt, state, bio_hist>>
  BY <1>1 DEF spoVars
<1>3. ReplayBios /\ ReplayLocks /\ Walk
  BY DEF Replaying
<1>4. Walk'
  BY <1>1, <1>2, <1>3, SameWalk
<1>5. NoBio.op = "none" /\ NoBio.stage = "free"
  BY DEF NoBio
<1>6. CASE bio' = bio
  <2>1. ReplayBios' /\ ReplayLocks'
    BY <1>1, <1>2, <1>3, <1>6 DEF ReplayBios, ReplayBio, ReplayLocks, Locking
  <2> QED BY <1>4, <2>1 DEF Replaying
<1>7. CASE Others(j, s) /\ bio'[j][s] = NoBio
  <2>1. ReplayBio(bio[j][s], s)'
    BY <1>5, <1>7 DEF ReplayBio
  <2>2. ReplayBios'
    BY <1>1, <1>2, <1>3, <1>7, <2>1, OneReplayBio
  <2>3. ~Locking(bio[j][s])
    BY <1>1 DEF Locking
  <2>4. ReplayLocks'
    BY <1>1, <1>3, <1>7, <2>3, OneReplayLock
  <2> QED BY <1>4, <2>2, <2>4 DEF Replaying
<1> QED BY <1>1, <1>6, <1>7

LEMMA StartReplaying ==
  ASSUME Sound, AbortAndReplay
  PROVE  Replaying'
<1>1. /\ NewProcess /\ replay_idx' = hist_idx /\ replay_cnt' = NHist
  BY DEF AbortAndReplay
<1>2. /\ \A j \in Jobs : locked'[j] = {}
      /\ \A j \in Jobs, s \in Slots : bio'[j][s] = NoBio
      /\ state' = "running" /\ UNCHANGED <<hist_desc, hist_idx>>
  BY <1>1 DEF NewProcess
<1>3. NoBio.op = "none" /\ NoBio.stage = "free"
  BY DEF NoBio
<1>4. ReplayBios' /\ ReplayLocks'
  BY <1>2, <1>3 DEF ReplayBios, ReplayBio, ReplayLocks
<1>5. Walk'
  <2>1. NHist \in Nat \ {0} /\ hist_idx \in Nat
    BY RingFacts DEF Sound, Ring
  <2>2. Age(replay_idx)' = NHist - 1
    BY <1>1, <1>2, <2>1 DEF Age
  <2> QED BY <1>1, <1>2, <2>2 DEF Walk
<1> QED BY <1>4, <1>5 DEF Replaying

LEMMA InitCycle == SpoInit => Cycle
<1> SUFFICES ASSUME SpoInit PROVE Cycle
  OBVIOUS
<1>1. Init /\ phase = "io" /\ Sound
  BY InitSound DEF SpoInit
<1>2. \A j \in Jobs, s \in Slots : \A l \in LBAs : ~Writes(bio[j][s], l)
  BY <1>1 DEF Init, NoBio, Writes
<1>3. \A i \in Ring : hist_desc[i].lba = -1
  BY <1>1 DEF Init, NoHist, Ring
<1>4. Foretold /\ Filled /\ Faultless
  BY <1>1, <1>2, <1>3 DEF Foretold, Filled, Faultless, Init
<1> QED BY <1>1, <1>4 DEF Cycle

(* Steps that change no variable of Iover. *)
LEMMA SameCycle ==
  ASSUME UNCHANGED vars, Foretold, Filled, Faultless
  PROVE  Foretold' /\ Filled' /\ Faultless'
<1>1. UNCHANGED <<hist_desc, hist_idx, bio, media, ideal, faults>>
  BY DEF vars
<1> QED BY <1>1, NoWriters, SameFilled DEF Faultless

LEMMA StartCycle ==
  ASSUME Base, Foretold, Filled, Faultless, AbortAndReplay \/ NextCycle
  PROVE  Foretold' /\ Filled' /\ Faultless'
<1>1. /\ UNCHANGED <<hist_desc, hist_idx, media, faults>>
      /\ \A j \in Jobs, s \in Slots : bio'[j][s] = NoBio
  BY DEF AbortAndReplay, NextCycle, NewProcess
<1>2. Foretold' /\ Filled'
  BY <1>1, NoWriters, SameFilled
<1>3. ASSUME faults' = 0 PROVE media' = ideal'
  <2>1. media = ideal
    BY <1>1, <1>3 DEF Faultless
  <2>2. \/ ideal' = ideal
        \/ \E P : ideal' = [l \in LBAs |-> IF l \in P THEN media[l] ELSE ideal[l]]
    BY DEF AbortAndReplay, NextCycle
  <2>3. ideal = [l \in LBAs |-> ideal[l]]
    BY DEF Base, TypeOK
  <2> QED BY <1>1, <2>1, <2>2, <2>3
<1> QED BY <1>2, <1>3 DEF Faultless

LEMMA NextCycleKept == Cycle /\ [SpoNext]_allVars => Cycle'
<1> SUFFICES ASSUME Cycle, [SpoNext]_allVars PROVE Cycle'
  OBVIOUS
<1>1. Sound /\ Foretold /\ Filled /\ Faultless /\ (phase = "replay" => Replaying) /\ Base
  BY DEF Cycle, Sound
<1>2. Sound'
  BY <1>1, NextSound
<1>3. CASE UNCHANGED allVars
  <2>1. Foretold' /\ Filled' /\ Faultless'
    BY <1>1, <1>3, SameCycle DEF allVars
  <2>2. Replaying => Replaying'
    BY <1>3 DEF Replaying, ReplayBios, ReplayBio, ReplayLocks, Locking, Walk, Age, Full,
                allVars, vars, spoVars
  <2> QED BY <1>1, <1>2, <1>3, <2>1, <2>2 DEF Cycle, allVars, spoVars
<1>4. CASE Work
  <2>1. phase' # "replay"
    BY <1>4 DEF Work, spoVars
  <2>2. Foretold' /\ Filled' /\ Faultless'
    BY <1>1, <1>4, JobCycle DEF Work
  <2> QED BY <1>2, <2>1, <2>2 DEF Cycle
<1>5. CASE DeviceRuns
  <2>1. Device /\ UNCHANGED spoVars /\ phase' = phase
    BY <1>5 DEF DeviceRuns, spoVars
  <2>2. Foretold' /\ Filled' /\ Faultless'
    BY <1>1, <2>1, DeviceCycle
  <2> QED BY <1>1, <1>2, <2>1, <2>2, ReturnReplaying DEF Cycle
<1>6. CASE PowerOff \/ JobEnd \/ MainReturns
  <2>1. UNCHANGED vars
    BY <1>1, <1>6, StaySound
  <2>2. phase' # "replay"
    BY <1>6 DEF PowerOff, JobEnd, MainReturns
  <2> QED BY <1>1, <1>2, <2>1, <2>2, SameCycle DEF Cycle
<1>7. CASE AbortAndReplay \/ NextCycle
  <2>1. Foretold' /\ Filled' /\ Faultless'
    BY <1>1, <1>7, StartCycle
  <2>2. phase' = "replay" => Replaying'
    BY <1>1, <1>7, StartReplaying DEF NextCycle
  <2> QED BY <1>2, <2>1, <2>2 DEF Cycle
<1>8. ASSUME NEW j \in Jobs, NEW s \in Slots, ReplayTry(j, s)
      PROVE  Cycle'
  <2>1. /\ Entry.lba # -1 /\ phase = "replay"
        /\ TryTakes(j, s) \/ TryFails
    BY <1>1, <1>8, TryStep
  <2>2. Replaying'
    BY <1>1, <1>8, <2>1, TryReplaying
  <2>3. UNCHANGED <<media, ideal, faults, hist_desc, hist_idx>>
    BY <2>1 DEF TryTakes, TryFails, Takes, vars
  <2>4. Quiet \/ UNCHANGED vars
    <3>1. EntryRange \in Lock!Ranges /\ "read" \in Opcodes \ {"flush"}
      BY <1>1, <2>1, EntryFacts DEF Opcodes
    <3> QED BY <1>1, <2>1, <3>1, TakesQuiet DEF TryTakes, TryFails
  <2>5. Foretold'
    BY <1>1, <2>4, QuietKeeps, SameCycle
  <2>6. Filled' /\ Faultless'
    BY <1>1, <2>3, SameFilled DEF Faultless
  <2> QED BY <1>2, <2>2, <2>5, <2>6 DEF Cycle
<1>9. ASSUME NEW j \in Jobs, NEW s \in Slots, ReplayEnd(j, s)
      PROVE  Cycle'
  <2>1. phase = "replay" /\ TakesFlush(j, s)
    BY <1>9, EndStep
  <2>2. Replaying'
    BY <1>1, <1>9, <2>1, EndReplaying
  <2>3. UNCHANGED <<media, ideal, faults, hist_desc, hist_idx>>
    BY <2>1 DEF TakesFlush
  <2>4. Quiet
    BY <1>1, <2>1, TakesQuiet
  <2>5. Foretold' /\ Filled' /\ Faultless'
    BY <1>1, <2>3, <2>4, QuietKeeps, SameFilled DEF Faultless
  <2> QED BY <1>2, <2>2, <2>5 DEF Cycle
<1>10. ASSUME NEW j \in Jobs, NEW s \in Slots, ReplayFlow(j, s)
       PROVE  Cycle'
  <2>1. phase = "replay" /\ (Enqueue(j, s) \/ Complete(j, s) \/ Submit(j, s))
    BY <1>10 DEF ReplayFlow
  <2>2. Replaying'
    BY <1>1, <1>10, <2>1, FlowReplaying
  <2>3. Foretold' /\ Filled' /\ Faultless'
    BY <1>1, <2>1, JobCycle
  <2> QED BY <1>2, <2>2, <2>3 DEF Cycle
<1>11. ASSUME NEW j \in Jobs, NEW s \in Slots, ReplaySubmit(j, s)
       PROVE  Cycle'
  <2>1. /\ phase = "replay"
        /\ UNCHANGED <<media, ideal, faults, hist_desc, hist_idx>>
        /\ bio' = bio \/ (Others(j, s) /\ bio'[j][s] = NoBio)
    BY <1>1, <1>11, ReplaySubmitBio
  <2>2. Replaying'
    BY <1>1, <1>11, <2>1, SubmitReplaying
  <2>3. Foretold'
    BY <1>1, <2>1, NoWriters DEF Others
  <2>4. Filled' /\ Faultless'
    BY <1>1, <2>1, SameFilled DEF Faultless
  <2> QED BY <1>2, <2>2, <2>3, <2>4 DEF Cycle
<1> QED BY <1>3, <1>4, <1>5, <1>6, <1>7, <1>8, <1>9, <1>10, <1>11 DEF SpoNext
-----------------------------------------------------------------------------
(* Without write_uncorrect every block stays readable. *)
LEMMA OneReadable ==
  ASSUME Readable, NEW j \in Jobs, NEW s \in Slots, Others(j, s),
         bio'[j][s].op # "write_uncorrect",
         \A l \in LBAs : media'[l].kind # "uncor" /\ ideal'[l].kind # "uncor"
  PROVE  Readable'
<1>1. ASSUME NEW k \in Jobs, NEW t \in Slots PROVE bio'[k][t].op # "write_uncorrect"
  <2>1. CASE k = j /\ t = s
    BY <2>1
  <2>2. CASE k # j \/ t # s
    BY <2>2 DEF Others, Readable
  <2> QED BY <2>1, <2>2
<1> QED BY <1>1 DEF Readable

LEMMA FreeReadable ==
  ASSUME Readable, UNCHANGED <<media, ideal>>,
         \A j \in Jobs, s \in Slots : bio'[j][s] = bio[j][s] \/ bio'[j][s] = NoBio
  PROVE  Readable'
<1>1. NoBio.op = "none"
  BY DEF NoBio
<1> QED BY <1>1 DEF Readable

LEMMA JobReadable ==
  ASSUME "write_uncorrect" \notin Ops, Base, Readable, NEW j \in Jobs, NEW s \in Slots,
         \/ \E op \in Ops, r \in Lock!Ranges : Generate(j, s, op, r)
         \/ Count(j, s) \/ Stamp(j, s) \/ Enqueue(j, s)
         \/ Complete(j, s) \/ Submit(j, s)
  PROVE  Readable'
<1>1. TypeOK /\ Shapes
  BY DEF Base
<1>2. UNCHANGED <<media, ideal>>
  BY DEF Generate, Count, Stamp, Enqueue, Complete, Submit
<1>3. \A l \in LBAs : media'[l].kind # "uncor" /\ ideal'[l].kind # "uncor"
  BY <1>2 DEF Readable
<1>4. ASSUME NEW op \in Ops, NEW r \in Lock!Ranges, Generate(j, s, op, r)
      PROVE  Readable'
  <2>1. op \in Opcodes \ {"flush"} /\ Takes(j, s, op, r) /\ op # "write_uncorrect"
    BY <1>4, GenerateTakes
  <2>2. Others(j, s) /\ bio'[j][s].op = op
    BY <1>1, <2>1, GenerateBio
  <2> QED BY <1>3, <2>1, <2>2, OneReadable
<1>5. CASE Count(j, s) \/ Stamp(j, s) \/ Enqueue(j, s) \/ Complete(j, s)
  <2>1. Others(j, s) /\ Same(bio[j][s], bio'[j][s])
    BY <1>1, <1>5, CountBio, StampBio, EnqueueBio, CompleteBio
  <2>2. bio'[j][s].op # "write_uncorrect"
    BY <2>1 DEF Same, Readable
  <2> QED BY <1>3, <2>1, <2>2, OneReadable
<1>6. CASE Submit(j, s)
  <2>1. bio' = bio \/ (Others(j, s) /\ bio'[j][s] = NoBio)
    BY <1>1, <1>6, SubmitBio
  <2> QED BY <1>2, <2>1, FreeReadable DEF Others
<1> QED BY <1>4, <1>5, <1>6

LEMMA EffectReadable ==
  ASSUME Base, NEW j \in Jobs, NEW s \in Slots, NEW l \in LBAs,
         bio[j][s].stage = "flight", l \in bio[j][s].todo, bio[j][s].op # "write_uncorrect"
  PROVE  Effect(bio[j][s], l).kind # "uncor"
<1> DEFINE b == bio[j][s]
<1>1. b \in Bios /\ BioShape(b)
  BY DEF Base, TypeOK, Shapes
<1>2. CASE b.op = "write"
  <2>1. l \in Prepared(b)
    BY <1>1, <1>2 DEF Prepared, BioShape
  <2>2. b.data[l].kind = "data"
    BY <2>1 DEF Base, Stamped, IsStamp
  <2> QED BY <1>2, <2>2 DEF Effect
<1>3. CASE b.op # "write"
  <2>1. \A k : Plain(k).kind = k
    BY DEF Plain
  <2>2. Effect(b, l) = Plain(DeallocRead) \/ Effect(b, l) = Plain("zeroes")
    BY <1>3 DEF Effect
  <2> QED BY <2>1, <2>2, ParamsAssumption
<1> QED BY <1>2, <1>3

LEMMA DeviceReadable ==
  ASSUME Base, Readable, Device
  PROVE  Readable'
<1>1. TypeOK
  BY DEF Base
<1>2. PICK j \in Jobs, s \in Slots, l \in LBAs :
           \/ ExecuteWrite(j, s, l) \/ LoseWrite(j, s, l)
           \/ \E m \in LBAs : Returns(j, s, l, m)
  BY DeviceSplit
<1>3. CASE ExecuteWrite(j, s, l) \/ LoseWrite(j, s, l)
  <2>1. Executes(j, s, l)
    BY <1>3 DEF ExecuteWrite, LoseWrite, Executes
  <2>2. /\ Others(j, s) /\ Same(bio[j][s], bio'[j][s])
        /\ bio[j][s].stage = "flight" /\ l \in bio[j][s].todo
    BY <1>1, <2>1, ExecuteBio
  <2>3. bio[j][s].op # "write_uncorrect" /\ bio'[j][s].op # "write_uncorrect"
    BY <2>2 DEF Readable, Same
  <2>4. Effect(bio[j][s], l).kind # "uncor"
    BY <2>2, <2>3, EffectReadable
  <2>5. /\ ideal' = [ideal EXCEPT ![l] = Effect(bio[j][s], l)]
        /\ media' = media \/ media' = [media EXCEPT ![l] = Effect(bio[j][s], l)]
    BY <1>3 DEF ExecuteWrite, LoseWrite
  <2>6. \A x \in LBAs : media'[x].kind # "uncor" /\ ideal'[x].kind # "uncor"
    BY <1>1, <2>4, <2>5 DEF Readable, TypeOK
  <2> QED BY <2>2, <2>3, <2>6, OneReadable
<1>4. ASSUME NEW m \in LBAs, Returns(j, s, l, m) PROVE Readable'
  <2>1. Others(j, s) /\ Same(bio[j][s], bio'[j][s]) /\ bio[j][s].op = "read"
    BY <1>1, <1>4, ReturnBio
  <2>2. bio'[j][s].op # "write_uncorrect"
    BY <2>1 DEF Same
  <2>3. \A x \in LBAs : media'[x].kind # "uncor" /\ ideal'[x].kind # "uncor"
    BY <1>4 DEF Returns, Readable
  <2> QED BY <2>1, <2>2, <2>3, OneReadable
<1> QED BY <1>2, <1>3, <1>4

LEMMA InitReadable == SpoInit => Readable
<1> SUFFICES ASSUME SpoInit PROVE Readable
  OBVIOUS
<1>1. Init
  BY DEF SpoInit
<1>2. \A l \in LBAs : media[l].kind # "uncor" /\ ideal[l].kind # "uncor"
  BY <1>1 DEF Init, Plain
<1>3. \A j \in Jobs, s \in Slots : bio[j][s].op # "write_uncorrect"
  BY <1>1 DEF Init, NoBio
<1> QED BY <1>2, <1>3 DEF Readable

LEMMA NextReadable ==
  ASSUME "write_uncorrect" \notin Ops
  PROVE  Sound /\ Readable /\ [SpoNext]_allVars => Readable'
<1> SUFFICES ASSUME Sound, Readable, [SpoNext]_allVars PROVE Readable'
  OBVIOUS
<1>1. Base /\ TypeOK
  BY DEF Sound, Base
<1>2. CASE UNCHANGED allVars \/ PowerOff \/ JobEnd \/ MainReturns
  <2>1. UNCHANGED <<media, ideal, bio>>
    BY <1>2 DEF allVars, vars, PowerOff, JobEnd, MainReturns
  <2> QED BY <2>1, FreeReadable
<1>3. CASE Work
  BY <1>1, <1>3, JobReadable DEF Work
<1>4. CASE DeviceRuns
  BY <1>1, <1>4, DeviceReadable DEF DeviceRuns
<1>5. CASE AbortAndReplay \/ NextCycle
  <2>1. /\ media' = media /\ \A j \in Jobs, s \in Slots : bio'[j][s] = NoBio
    BY <1>5 DEF AbortAndReplay, NextCycle, NewProcess
  <2>2. \/ ideal' = ideal
        \/ \E P : ideal' = [l \in LBAs |-> IF l \in P THEN media[l] ELSE ideal[l]]
    BY <1>5 DEF AbortAndReplay, NextCycle
  <2>3. \A l \in LBAs : media'[l].kind # "uncor" /\ ideal'[l].kind # "uncor"
    BY <2>1, <2>2 DEF Readable
  <2>4. NoBio.op = "none"
    BY DEF NoBio
  <2> QED BY <2>1, <2>3, <2>4 DEF Readable
<1>6. ASSUME NEW j \in Jobs, NEW s \in Slots, ReplayTry(j, s) PROVE Readable'
  <2>1. Entry.lba # -1 /\ (TryTakes(j, s) \/ TryFails)
    BY <1>6, TryStep
  <2>2. UNCHANGED <<media, ideal>>
    BY <2>1 DEF TryTakes, TryFails, Takes, vars
  <2>3. CASE TryTakes(j, s)
    <3>1. Takes(j, s, "read", EntryRange) /\ EntryRange \in Lock!Ranges /\ "read" \in Opcodes \ {"flush"}
      BY <2>1, <2>3, EntryFacts DEF TryTakes, Opcodes
    <3>2. Others(j, s) /\ bio'[j][s].op = "read"
      BY <1>1, <3>1, GenerateBio
    <3>3. \A l \in LBAs : media'[l].kind # "uncor" /\ ideal'[l].kind # "uncor"
      BY <2>2 DEF Readable
    <3> QED BY <3>2, <3>3, OneReadable
  <2>4. CASE TryFails
    BY <2>2, <2>4, FreeReadable DEF TryFails, vars
  <2> QED BY <2>1, <2>3, <2>4
<1>7. ASSUME NEW j \in Jobs, NEW s \in Slots, ReplayEnd(j, s) PROVE Readable'
  <2>1. TakesFlush(j, s)
    BY <1>7, EndStep
  <2>2. Others(j, s) /\ bio'[j][s].op = "flush"
    BY <1>1, <2>1, GenerateFlushBio
  <2>3. \A l \in LBAs : media'[l].kind # "uncor" /\ ideal'[l].kind # "uncor"
    BY <2>1 DEF TakesFlush, Readable
  <2> QED BY <2>2, <2>3, OneReadable
<1>8. ASSUME NEW j \in Jobs, NEW s \in Slots, ReplayFlow(j, s) PROVE Readable'
  BY <1>1, <1>8, JobReadable DEF ReplayFlow
<1>9. ASSUME NEW j \in Jobs, NEW s \in Slots, ReplaySubmit(j, s) PROVE Readable'
  <2>1. UNCHANGED <<media, ideal>> /\ (bio' = bio \/ (Others(j, s) /\ bio'[j][s] = NoBio))
    BY <1>9, ReplaySubmitBio
  <2> QED BY <2>1, FreeReadable DEF Others
<1> QED BY <1>2, <1>3, <1>4, <1>5, <1>6, <1>7, <1>8, <1>9 DEF SpoNext
-----------------------------------------------------------------------------
(* The journal at work. *)
LEMMA EnqueueLagging ==
  ASSUME Repairable, Base, Lagging, NEW j \in Jobs, NEW s \in Slots, Enqueue(j, s)
  PROVE  Lagging'
<1> DEFINE b == bio[j][s]
<1>1. Others(j, s) /\ b.stage = "enqueue" /\ ideal' = ideal
  BY EnqueueBio DEF Base, Enqueue
<1>2. block_desc' = IF SporLevel3 /\ b.op = "write"
       THEN [l \in LBAs |-> IF l \in Span(b)
               THEN [Committed(b, l, block_desc[l]) EXCEPT !.state = "unwritten"]
               ELSE block_desc[l]]
       ELSE block_desc
  BY DEF Enqueue
<1> SUFFICES ASSUME NEW l \in LBAs,
                    \A k \in Jobs, t \in Slots : Writes(bio'[k][t], l) => l \in bio'[k][t].todo
             PROVE  Accepts(block_desc'[l], l, ideal'[l])
  BY DEF Lagging, Accepted
<1>3. Accepts(block_desc[l], l, ideal[l])
  <2>1. ASSUME NEW k \in Jobs, NEW t \in Slots, Writes(bio[k][t], l)
        PROVE  l \in bio[k][t].todo
    <3>1. ~(k = j /\ t = s)
      BY <1>1, <2>1 DEF Writes
    <3>2. bio'[k][t] = bio[k][t]
      BY <1>1, <3>1 DEF Others
    <3> QED BY <2>1, <3>2
  <2> QED BY <2>1 DEF Lagging, Accepted
<1>4. CASE SporLevel3 /\ b.op = "write" /\ l \in Span(b)
  <2>1. block_desc'[l] = [Committed(b, l, block_desc[l]) EXCEPT !.state = "unwritten"]
    BY <1>2, <1>4
  <2>2. Committed(b, l, block_desc[l]) = [state |-> "data", timestamp |-> b.data[l].ts % TsMod]
    BY <1>4 DEF Committed
  <2>3. block_desc'[l].state = "unwritten"
    BY <2>1, <2>2
  <2> QED BY <1>4, <2>3 DEF Accepts, Repairable
<1>5. CASE ~(SporLevel3 /\ b.op = "write" /\ l \in Span(b))
  <2>1. block_desc'[l] = block_desc[l]
    BY <1>2, <1>5
  <2> QED BY <1>1, <1>3, <2>1
<1> QED BY <1>4, <1>5

LEMMA ExecuteLagging ==
  ASSUME Base, Lagging, NEW j \in Jobs, NEW s \in Slots, NEW l \in LBAs, Executes(j, s, l)
  PROVE  Lagging'
<1> DEFINE b == bio[j][s]
           c == bio'[j][s]
<1>1. TypeOK /\ b \in Bios /\ BioShape(b)
  BY DEF Base, TypeOK, Shapes
<1>2. /\ Others(j, s) /\ Same(b, c) /\ b.stage = "flight" /\ c.stage = "flight"
      /\ b.op # "read" /\ l \in b.todo /\ c.todo = b.todo \ {l} /\ c.data = b.data
  BY <1>1, ExecuteBio
<1>3. ideal' = [ideal EXCEPT ![l] = Effect(b, l)] /\ block_desc' = block_desc
  BY DEF Executes
<1> HIDE DEF b, c
<1>4. Span(c) = Span(b) /\ c.op = b.op /\ c.slba = b.slba /\ c.nlbs = b.nlbs
  BY <1>2 DEF Same, Span
<1>5. l \in Span(b)
  BY <1>1, <1>2 DEF BioShape
<1>6. b.op # "flush"
  <2>1. ASSUME b.op = "flush" PROVE FALSE
    <3>1. b.nlbs = 0 /\ b.slba \in Nat
      BY <1>1, <2>1, LbaFacts DEF BioShape, Bios
    <3> QED BY <1>5, <3>1 DEF Span
  <2> QED BY <2>1
<1>7. Writes(c, l) /\ l \notin c.todo
  BY <1>2, <1>4, <1>5, <1>6 DEF Writes
<1> SUFFICES ASSUME NEW x \in LBAs,
                    \A k \in Jobs, t \in Slots : Writes(bio'[k][t], x) => x \in bio'[k][t].todo
             PROVE  Accepts(block_desc'[x], x, ideal'[x])
  BY DEF Lagging, Accepted
<1>8. x # l
  BY <1>7 DEF c
<1>9. ASSUME NEW k \in Jobs, NEW t \in Slots, Writes(bio[k][t], x)
      PROVE  x \in bio[k][t].todo
  <2>1. CASE k = j /\ t = s
    <3>1. Writes(c, x)
      BY <1>2, <1>4, <1>9, <2>1 DEF Writes, b
    <3>2. x \in c.todo
      BY <3>1 DEF c
    <3> QED BY <1>2, <2>1, <3>2 DEF b
  <2>2. CASE k # j \/ t # s
    BY <1>2, <1>9, <2>2 DEF Others
  <2> QED BY <2>1, <2>2
<1>10. ideal'[x] = ideal[x]
  BY <1>1, <1>3, <1>8 DEF TypeOK
<1> QED BY <1>3, <1>9, <1>10 DEF Lagging, Accepted

LEMMA SubmitLagging ==
  ASSUME Base, Lagging, NEW j \in Jobs, NEW s \in Slots, Submit(j, s)
  PROVE  Lagging'
<1> DEFINE b == bio[j][s]
<1>1. TypeOK /\ b \in Bios /\ BioShape(b) /\ Executed
  BY DEF Base, TypeOK, Shapes
<1>2. /\ b.stage = "submit"
      /\ (bio' = bio /\ b.op = "read") \/ (Others(j, s) /\ bio'[j][s] = NoBio)
  BY <1>1, SubmitBio
<1>3. /\ ideal' = ideal
      /\ block_desc' = [l \in LBAs |->
           IF l \in Span(b) THEN Committed(b, l, block_desc[l]) ELSE block_desc[l]]
  BY DEF Submit
<1>4. b.todo = {}
  BY <1>1, <1>2 DEF BioShape
<1> HIDE DEF b
<1> SUFFICES ASSUME NEW l \in LBAs,
                    \A k \in Jobs, t \in Slots : Writes(bio'[k][t], l) => l \in bio'[k][t].todo
             PROVE  Accepts(block_desc'[l], l, ideal'[l])
  BY DEF Lagging, Accepted
<1>5. CASE Writes(b, l)
  <2>1. l \in Span(b) /\ b.op \notin {"read", "flush"}
    BY <1>5 DEF Writes
  <2>2. b.op \in {"write", "deallocate", "write_zeroes", "write_uncorrect"}
    BY <1>1, <1>2, <2>1, Commands
  <2>3. b.op = "write" => IsStamp(b.data[l], l)
    <3>1. b.op = "write" => l \in Prepared(b)
      BY <1>2, <2>1 DEF Prepared
    <3> QED BY <3>1 DEF Base, Stamped, b
  <2>4. ideal[l] = Effect(b, l)
    BY <1>1, <1>4, <1>5 DEF Executed, b
  <2>5. block_desc[l] \in BlockDescs /\ ideal[l] \in Contents
    BY <1>1 DEF TypeOK
  <2>6. Describes(Committed(b, l, block_desc[l]), l, ideal[l])
    BY <1>1, <2>2, <2>3, <2>4, <2>5, CommitDescribes
  <2>7. block_desc'[l] = Committed(b, l, block_desc[l])
    BY <1>3, <2>1
  <2>8. Committed(b, l, block_desc[l]) \in BlockDescs
    BY <1>1, <2>5, CommittedType
  <2>9. Accepts(Committed(b, l, block_desc[l]), l, ideal[l])
    BY <2>5, <2>6, <2>8, DescribedAccepted
  <2> QED BY <1>3, <2>7, <2>9
<1>6. CASE ~Writes(b, l)
  <2>1. block_desc'[l] = block_desc[l]
    <3>1. CASE l \in Span(b)
      <4>1. b.op \in {"read", "flush"}
        BY <1>2, <1>6, <3>1 DEF Writes
      <4>2. Committed(b, l, block_desc[l]) = block_desc[l]
        BY <4>1 DEF Committed
      <4> QED BY <1>3, <3>1, <4>2
    <3>2. CASE l \notin Span(b)
      BY <1>3, <3>2
    <3> QED BY <3>1, <3>2
  <2>2. ASSUME NEW k \in Jobs, NEW t \in Slots, Writes(bio[k][t], l)
        PROVE  l \in bio[k][t].todo
    <3>1. ~(k = j /\ t = s)
      BY <1>6, <2>2 DEF b
    <3>2. bio'[k][t] = bio[k][t]
      BY <1>2, <3>1 DEF Others
    <3> QED BY <2>2, <3>2
  <2>3. Accepts(block_desc[l], l, ideal[l])
    BY <2>2 DEF Lagging, Accepted
  <2> QED BY <1>3, <2>1, <2>3
<1> QED BY <1>5, <1>6

LEMMA JobLagging ==
  ASSUME Repairable, Base, Lagging, NEW j \in Jobs, NEW s \in Slots,
         \/ \E op \in Ops, r \in Lock!Ranges : Generate(j, s, op, r)
         \/ Count(j, s) \/ Stamp(j, s) \/ Enqueue(j, s)
         \/ Complete(j, s) \/ Submit(j, s)
  PROVE  Lagging'
<1>1. CASE \/ \E op \in Ops, r \in Lock!Ranges : Generate(j, s, op, r)
           \/ Count(j, s) \/ Stamp(j, s) \/ Complete(j, s)
  BY <1>1, JobQuiet, QuietKeeps
<1>2. CASE Enqueue(j, s)
  BY <1>2, EnqueueLagging
<1>3. CASE Submit(j, s)
  BY <1>3, SubmitLagging
<1> QED BY <1>1, <1>2, <1>3

LEMMA DeviceLagging ==
  ASSUME Base, Lagging, Device
  PROVE  Lagging'
<1>1. PICK j \in Jobs, s \in Slots, l \in LBAs :
           \/ ExecuteWrite(j, s, l) \/ LoseWrite(j, s, l)
           \/ \E m \in LBAs : Returns(j, s, l, m) /\ UNCHANGED <<hist_desc, hist_idx>>
  BY DeviceSplit
<1>2. CASE ExecuteWrite(j, s, l) \/ LoseWrite(j, s, l)
  <2>1. Executes(j, s, l)
    BY <1>2 DEF ExecuteWrite, LoseWrite, Executes
  <2> QED BY <2>1, ExecuteLagging
<1>3. CASE \E m \in LBAs : Returns(j, s, l, m) /\ UNCHANGED <<hist_desc, hist_idx>>
  BY <1>3, ReturnQuiet, QuietKeeps
<1> QED BY <1>1, <1>2, <1>3
-----------------------------------------------------------------------------
(* The journal in the replay.  Slots of one age are one slot, the next one *)
(* to write is the oldest, and a block with entries has a last one.        *)
LEMMA AgeFacts ==
  ASSUME hist_idx \in Ring
  PROVE  /\ \A i, m \in Ring : Age(i) = Age(m) => i = m
         /\ Age(hist_idx) = NHist - 1
<1>1. NHist \in Nat \ {0} /\ hist_idx \in Nat /\ hist_idx < NHist
  BY RingFacts DEF Ring
<1>2. ASSUME NEW i \in Ring, NEW m \in Ring, Age(i) = Age(m) PROVE i = m
  BY <1>1, <1>2 DEF Age, Ring
<1> QED BY <1>1, <1>2 DEF Age

LEMMA NewestExists ==
  ASSUME hist_idx \in Ring, NEW l \in LBAs, NEW m \in Ring, hist_desc[m].lba = l
  PROVE  \E i \in Ring : NewestOf(i, l)
<1> DEFINE R == {p \in Nat \X Nat : p[1] < p[2]}
           A == {Age(i) : i \in {k \in Ring : hist_desc[k].lba = l}}
<1>1. A \subseteq Nat /\ A # {}
  BY RingFacts DEF Ring
<1>2. IsWellFoundedOn(R, Nat)
  BY NatOrder
<1>3. PICK a \in A : \A y \in A : ~(<<y, a>> \in R)
  <2> HIDE DEF R, A
  <2> QED BY <1>1, <1>2, WFMin
<1>4. PICK i \in Ring : hist_desc[i].lba = l /\ a = Age(i)
  BY <1>3
<1>5. ASSUME NEW k \in Ring, hist_desc[k].lba = l PROVE Age(i) <= Age(k)
  <2>1. Age(k) \in A /\ Age(k) \in Nat /\ Age(i) \in Nat
    BY <1>1, <1>3, <1>4, <1>5
  <2>2. ~(<<Age(k), Age(i)>> \in R)
    BY <1>3, <1>4, <2>1
  <2>3. ~(Age(k) < Age(i))
    BY <2>1, <2>2
  <2> QED BY <2>1, <2>3
<1> QED BY <1>4, <1>5 DEF NewestOf

(* A ring is full when its oldest slot is used. *)
LEMMA FullRing ==
  ASSUME hist_idx \in Ring, Filled, Oldest # -1
  PROVE  Full
<1>1. NHist \in Nat \ {0} /\ \A k \in Ring : Age(k) \in Nat /\ Age(k) <= NHist - 1
  BY RingFacts DEF Ring
<1>2. Age(hist_idx) = NHist - 1 /\ hist_desc[hist_idx].lba # -1
  BY AgeFacts DEF Oldest
<1> QED BY <1>1, <1>2 DEF Full, Filled

(* At the start of the replay every entry is ahead of the walk. *)
LEMMA StartDue ==
  ASSUME hist_idx \in Ring, AbortAndReplay, NEW l \in LBAs, NEW i \in Ring,
         NewestOf(i, l), Oldest # l
  PROVE  Due(i, l)'
<1>1. NewProcess /\ replay_cnt' = NHist
  BY DEF AbortAndReplay
<1>2. /\ UNCHANGED <<hist_desc, hist_idx>>
      /\ \A j \in Jobs, s \in Slots : bio'[j][s] = NoBio
  BY <1>1 DEF NewProcess
<1>3. NewestOf(i, l)' /\ Oldest' # l /\ Age(i)' = Age(i)
  BY <1>2, SameRing DEF Oldest
<1>4. NHist \in Nat \ {0} /\ Age(i) \in Nat
  BY RingFacts DEF Ring
<1>5. Remaining(i)'
  BY <1>1, <1>3, <1>4 DEF Remaining
<1>6. \A k \in Jobs, t \in Slots : ~Reading(k, t, l)'
  BY <1>2 DEF Reading, NoBio
<1> QED BY <1>3, <1>5, <1>6 DEF Due

(* The cut: what lags behind is in flight and has its last entry, and the  *)
(* entry tells what the device kept.                                       *)
LEMMA StartRepairing ==
  ASSUME Cycle, Lagging, AbortAndReplay, clean', faults = 0
  PROVE  Repairing'
<1> DEFINE inflight == {l \in LBAs : \E j \in Jobs, s \in Slots : Writes(bio[j][s], l)}
<1>1. /\ NewProcess
      /\ ideal' = [l \in LBAs |-> IF l \in inflight THEN media[l] ELSE ideal[l]]
      /\ inflight = {} \/ (Oldest \notin inflight \cup {-1} /\ inflight \subseteq Noted)
  BY DEF AbortAndReplay
<1>2. TypeOK /\ hist_idx \in Ring /\ media = ideal /\ Executed /\ Foretold /\ Filled
  BY DEF Cycle, Sound, Base, Faultless
<1>3. ideal' = ideal
  <2>1. ideal = [l \in LBAs |-> ideal[l]]
    BY <1>2 DEF TypeOK
  <2> QED BY <1>1, <1>2, <2>1
<1>4. /\ UNCHANGED <<block_desc, hist_desc, hist_idx>>
      /\ \A j \in Jobs, s \in Slots : bio'[j][s] = NoBio
  BY <1>1 DEF NewProcess
<1> SUFFICES ASSUME NEW l \in LBAs, ~Accepted(l)'
             PROVE  Full' /\ \E i \in Ring : ToRepair(i, l)'
  BY DEF Repairing
<1>5. ~Accepted(l)
  BY <1>3, <1>4 DEF Accepted
<1>6. PICK j \in Jobs, s \in Slots : Writes(bio[j][s], l) /\ l \notin bio[j][s].todo
  BY <1>5 DEF Lagging
<1>7. l \in inflight
  BY <1>6
<1>8. Oldest # l /\ Oldest # -1 /\ l \in Noted
  BY <1>1, <1>7
<1>9. PICK m \in Ring : hist_desc[m].lba = l
  BY <1>8 DEF Noted, Ring
<1>10. PICK i \in Ring : NewestOf(i, l)
  BY <1>2, <1>9, NewestExists
<1>11. HistGood(hist_desc[i].bd, l, ideal[l])
  <2>1. ideal[l] = Effect(bio[j][s], l)
    BY <1>2, <1>6 DEF Executed
  <2> QED BY <1>2, <1>6, <1>10, <2>1 DEF Foretold
<1>12. Full'
  BY <1>2, <1>4, <1>8, FullRing DEF Full
<1>13. Due(i, l)'
  BY <1>2, <1>8, <1>10, StartDue
<1>14. HistGood(hist_desc[i].bd, l, ideal[l])'
  BY <1>3, <1>4, <1>11 DEF HistGood
<1> QED BY <1>12, <1>13, <1>14 DEF ToRepair

LEMMA SameDue ==
  ASSUME UNCHANGED <<hist_desc, hist_idx, replay_cnt, bio_hist>>,
         NEW l \in LBAs, NEW i \in Ring, Due(i, l),
         \A j \in Jobs, s \in Slots : Reading(j, s, l)' <=> Reading(j, s, l)
  PROVE  Due(i, l)'
<1>1. NewestOf(i, l)' /\ Oldest' # l
  BY SameRing DEF Due, Oldest
<1>2. Remaining(i) => Remaining(i)'
  BY SameRing DEF Remaining
<1> QED BY <1>1, <1>2 DEF Due

(* What is due stays due, and the journal and the device are the same.     *)
LEMMA SameRepairing ==
  ASSUME Repairing, UNCHANGED <<block_desc, ideal, hist_desc>>,
         \A l \in LBAs, i \in Ring : Due(i, l) => Due(i, l)'
  PROVE  Repairing'
  BY DEF Repairing, Accepted, Full, ToRepair, HistGood

(* An entry of another block than the one tried stays ahead. *)
LEMMA StillRemaining ==
  ASSUME Sound, Walk, replay_cnt > 0, replay_cnt' = replay_cnt - 1,
         UNCHANGED <<hist_desc, hist_idx>>,
         NEW i \in Ring, Remaining(i), hist_desc[i].lba # Entry.lba
  PROVE  Remaining(i)'
<1>1. /\ replay_idx \in Ring /\ hist_idx \in Ring /\ replay_cnt \in 0 .. NHist
      /\ NHist \in Nat \ {0}
  BY RingFacts DEF Sound, CycleTypes
<1>2. Age(i) \in Nat /\ Age(i)' = Age(i)
  BY <1>1, RingFacts, SameRing DEF Ring
<1>3. Age(i) # Age(replay_idx)
  BY <1>1, AgeFacts DEF Entry
<1>4. Age(replay_idx) = IF replay_cnt = NHist THEN NHist - 1 ELSE NHist - 1 - replay_cnt
  BY DEF Walk
<1>5. NHist - 1 - replay_cnt <= Age(i)
  BY DEF Remaining
<1>6. NHist - 1 - replay_cnt' <= Age(i)'
  BY <1>1, <1>2, <1>3, <1>4, <1>5
<1> QED BY <1>6 DEF Remaining

(* The entry tried is the last one of its block, if that is still ahead.   *)
LEMMA TriedIsNewest ==
  ASSUME Sound, Walk, replay_cnt > 0, NEW i \in Ring,
         NewestOf(i, Entry.lba), Oldest # Entry.lba, Remaining(i)
  PROVE  i = replay_idx
<1>1. /\ replay_idx \in Ring /\ hist_idx \in Ring /\ replay_cnt \in 0 .. NHist
      /\ NHist \in Nat \ {0}
  BY RingFacts DEF Sound, CycleTypes
<1>2. Age(i) \in Nat /\ Age(replay_idx) \in Nat /\ Age(hist_idx) = NHist - 1
  BY <1>1, RingFacts, AgeFacts DEF Ring
<1>3. Age(replay_idx) # NHist - 1
  <2>1. replay_idx # hist_idx
    BY DEF Oldest, Entry
  <2> QED BY <1>1, <1>2, <2>1, AgeFacts
<1>4. Age(i) <= Age(replay_idx)
  BY <1>1 DEF NewestOf, Entry
<1>5. Age(replay_idx) = NHist - 1 - replay_cnt
  BY <1>3 DEF Walk
<1>6. Age(i) = Age(replay_idx)
  BY <1>1, <1>2, <1>4, <1>5 DEF Remaining
<1> QED BY <1>1, <1>6, AgeFacts

(* A bio that reads block l locks it until it is completed. *)
LEMMA ReadLocked ==
  ASSUME Base, ReplayBios, NEW j \in Jobs, Idle(j), NEW s \in Slots, NEW l \in LBAs,
         Reading(j, s, l)
  PROVE  Range(bio[j][s]) \in locked[j] /\ l \in Lock!Span(Range(bio[j][s]))
<1> DEFINE b == bio[j][s]
<1>1. b.op = "read" /\ b.slba = l /\ b.nlbs = 1
  BY DEF Reading, ReplayBios, ReplayBio
<1>2. b.stage = "flight"
  BY <1>1 DEF Idle, Base, Shapes, BioShape
<1>3. Range(b) \in locked[j]
  BY <1>1, <1>2 DEF Base, LockKept
<1>4. Range(b).slba = l /\ Range(b).nlbs = 1
  BY <1>1 DEF Range
<1>5. l \in Lock!Span(Range(b))
  BY <1>4, LbaFacts DEF Lock!Span
<1> QED BY <1>3, <1>5

LEMMA TryDue ==
  ASSUME Cycle, phase = "replay", NEW j \in Jobs, NEW s \in Slots, ReplayTry(j, s),
         NEW l \in LBAs, NEW i \in Ring, Due(i, l)
  PROVE  Due(i, l)'
<1>1. Sound /\ Base /\ TypeOK /\ Shapes /\ ReplayBios /\ ReplayLocks /\ Walk
      /\ bio_hist \in [Slots -> Ring]
  BY DEF Cycle, Sound, CycleTypes, Base, Replaying
<1>2. /\ Entry.lba # -1 /\ replay_cnt > 0 /\ replay_cnt' = replay_cnt - 1
      /\ TryTakes(j, s) \/ TryFails
  BY <1>1, TryStep
<1>3. UNCHANGED <<hist_desc, hist_idx>>
  BY <1>2 DEF TryTakes, TryFails, Takes, vars
<1>4. /\ Entry.lba \in LBAs /\ EntryRange \in Lock!Ranges
      /\ EntryRange.slba = Entry.lba /\ EntryRange.nlbs = 1
      /\ Lock!Span(EntryRange) = {Entry.lba}
  BY <1>1, <1>2, EntryFacts
<1>5. NewestOf(i, l) /\ Oldest # l /\ hist_desc[i].lba = l
  BY DEF Due, NewestOf
<1>6. NewestOf(i, l)' /\ Oldest' # l
  BY <1>3, <1>5, SameRing DEF Oldest
<1>7. l # Entry.lba /\ Remaining(i) => Remaining(i)'
  BY <1>1, <1>2, <1>3, <1>5, StillRemaining
<1>8. CASE TryTakes(j, s)
  <2>1. Takes(j, s, "read", EntryRange) /\ "read" \in Opcodes \ {"flush"}
    BY <1>8 DEF TryTakes, Opcodes
  <2>2. /\ Others(j, s) /\ bio'[j][s].op = "read" /\ bio'[j][s].slba = Entry.lba
    BY <1>1, <1>4, <2>1, GenerateBio
  <2>3. Idle(j) /\ bio[j][s].stage = "free" /\ Lock!Acquire(j, EntryRange)
    BY <2>1 DEF Takes
  <2>4. bio[j][s].op = "none"
    BY <1>1, <2>3 DEF Shapes, BioShape
  <2>5. bio_hist'[s] = replay_idx /\ \A t \in Slots : t # s => bio_hist'[t] = bio_hist[t]
    BY <1>1, <1>8 DEF TryTakes
  <2>6. ASSUME NEW k \in Jobs, NEW t \in Slots
        PROVE  /\ t = s => (Reading(k, t, l)' <=> l = Entry.lba) /\ ~Reading(k, t, l)
               /\ t # s => (Reading(k, t, l)' <=> Reading(k, t, l))
    <3>1. k = j
      BY OneJobFact
    <3>2. CASE t = s
      BY <2>2, <2>4, <3>1, <3>2 DEF Reading
    <3>3. CASE t # s
      BY <2>2, <3>1, <3>3 DEF Reading, Others
    <3> QED BY <3>2, <3>3
  <2>7. CASE l = Entry.lba
    <3>1. ASSUME NEW k \in Jobs, NEW t \in Slots, Reading(k, t, l) PROVE FALSE
      <4>1. Range(bio[k][t]) \in locked[k] /\ l \in Lock!Span(Range(bio[k][t]))
        <5>1. Idle(k)
          BY <2>3, OneJobFact
        <5> QED BY <1>1, <3>1, <5>1, ReadLocked
      <4>2. Lock!Span(EntryRange) \cap Lock!Span(Range(bio[k][t])) = {}
        BY <2>3, <4>1 DEF Lock!Acquire
      <4> QED BY <1>4, <2>7, <4>1, <4>2
    <3>2. Remaining(i)
      BY <3>1 DEF Due
    <3>3. i = replay_idx
      BY <1>1, <1>2, <1>5, <2>7, <3>2, TriedIsNewest
    <3>4. Reading(j, s, l)'
      BY <2>6, <2>7
    <3>5. \A k \in Jobs, t \in Slots : Reading(k, t, l)' => bio_hist'[t] = i
      BY <2>5, <2>6, <3>1, <3>3
    <3> QED BY <1>6, <3>4, <3>5 DEF Due
  <2>8. CASE l # Entry.lba
    <3>1. \A k \in Jobs, t \in Slots : Reading(k, t, l)' <=> Reading(k, t, l)
      BY <2>6, <2>8
    <3>2. \A k \in Jobs, t \in Slots : Reading(k, t, l) => t # s
      BY <2>6
    <3>3. \A k \in Jobs, t \in Slots : Reading(k, t, l)' => bio_hist'[t] = i
      BY <2>5, <3>1, <3>2 DEF Due
    <3>4. Remaining(i)' \/ \E k \in Jobs, t \in Slots : Reading(k, t, l)'
      BY <1>7, <2>8, <3>1 DEF Due
    <3> QED BY <1>6, <3>3, <3>4 DEF Due
  <2> QED BY <2>7, <2>8
<1>9. CASE TryFails
  <2>1. UNCHANGED <<bio, bio_hist>>
    BY <1>9 DEF TryFails, vars
  <2>2. \A k \in Jobs, t \in Slots : Reading(k, t, l)' <=> Reading(k, t, l)
    BY <2>1 DEF Reading
  <2>3. ASSUME l = Entry.lba PROVE \E k \in Jobs, t \in Slots : Reading(k, t, l)
    <3>0. PICK k \in Jobs : \E r \in locked[k] : Lock!Span(EntryRange) \cap Lock!Span(r) # {}
      BY <1>9 DEF TryFails
    <3>1. PICK r \in locked[k] : Lock!Span(EntryRange) \cap Lock!Span(r) # {}
      BY <3>0
    <3>2. PICK t \in Slots : Locking(bio[k][t]) /\ Range(bio[k][t]) = r
      BY <1>1 DEF ReplayLocks
    <3>3. bio[k][t].op = "read" /\ bio[k][t].nlbs = 1 /\ bio[k][t].slba \in Nat
      <4>1. bio[k][t] \in Bios
        BY <1>1 DEF TypeOK
      <4> QED BY <1>1, <3>2, <4>1, LbaFacts DEF Locking, ReplayBios, ReplayBio, Bios
    <3>4. r.slba = bio[k][t].slba /\ r.nlbs = 1
      BY <3>2, <3>3 DEF Range
    <3>5. Lock!Span(r) = {bio[k][t].slba}
      BY <3>3, <3>4 DEF Lock!Span
    <3> QED BY <1>4, <2>3, <3>1, <3>3, <3>5 DEF Reading
  <2>4. Remaining(i)' \/ \E k \in Jobs, t \in Slots : Reading(k, t, l)'
    BY <1>7, <2>2, <2>3 DEF Due
  <2>5. \A k \in Jobs, t \in Slots : Reading(k, t, l)' => bio_hist'[t] = i
    BY <2>1, <2>2 DEF Due
  <2> QED BY <1>6, <2>4, <2>5 DEF Due
<1> QED BY <1>2, <1>8, <1>9

LEMMA EndDue ==
  ASSUME Cycle, phase = "replay", NEW j \in Jobs, NEW s \in Slots,
         ReplayEnd(j, s) \/ ReplayFlow(j, s)
  PROVE  /\ \A l \in LBAs, i \in Ring : Due(i, l) => Due(i, l)'
         /\ UNCHANGED <<block_desc, ideal, media, hist_desc, hist_idx, result>>
<1>1. Sound /\ TypeOK /\ Shapes /\ Replaying
  BY DEF Cycle, Sound, Base
<1>2. Others(j, s) /\ \A l \in LBAs : Reading(j, s, l)' <=> Reading(j, s, l)
  <2>1. CASE ReplayEnd(j, s)
    <3>1. TakesFlush(j, s)
      BY <2>1, EndStep
    <3>2. Others(j, s) /\ bio'[j][s].op = "flush" /\ bio[j][s].stage = "free"
      BY <1>1, <3>1, GenerateFlushBio DEF TakesFlush
    <3>3. bio[j][s].op = "none"
      BY <1>1, <3>2 DEF Shapes, BioShape
    <3> QED BY <3>2, <3>3 DEF Reading
  <2>2. CASE ReplayFlow(j, s)
    <3>1. Enqueue(j, s) \/ Complete(j, s) \/ (bio[j][s].op = "flush" /\ Submit(j, s))
      BY <2>2 DEF ReplayFlow
    <3>2. CASE Enqueue(j, s) \/ Complete(j, s)
      <4>1. Others(j, s) /\ Same(bio[j][s], bio'[j][s])
        BY <1>1, <3>2, EnqueueBio, CompleteBio
      <4> QED BY <4>1 DEF Same, Reading
    <3>3. CASE bio[j][s].op = "flush" /\ Submit(j, s)
      <4>1. Others(j, s) /\ bio'[j][s] = NoBio
        BY <1>1, <3>3, SubmitBio DEF Others
      <4> QED BY <3>3, <4>1 DEF Reading, NoBio
    <3> QED BY <3>1, <3>2, <3>3
  <2> QED BY <2>1, <2>2
<1>3. \A k \in Jobs, t \in Slots, l \in LBAs : Reading(k, t, l)' <=> Reading(k, t, l)
  <2> TAKE k \in Jobs, t \in Slots, l \in LBAs
  <2>1. CASE k = j /\ t = s
    BY <1>2, <2>1
  <2>2. CASE k # j \/ t # s
    BY <1>2, <2>2 DEF Others, Reading
  <2> QED BY <2>1, <2>2
<1>4. UNCHANGED <<block_desc, ideal, media, hist_desc, hist_idx, result, replay_cnt, bio_hist>>
  <2>1. CASE ReplayEnd(j, s)
    BY <2>1 DEF ReplayEnd
  <2>2. CASE ReplayFlow(j, s)
    <3>1. UNCHANGED spoVars
      BY <2>2 DEF ReplayFlow
    <3>2. UNCHANGED result
      BY <2>2 DEF ReplayFlow, Enqueue, Complete, Submit, Unexpected, Failed, Miscompare
    <3> QED BY <1>1, <2>2, <3>1, <3>2, FlowReplaying DEF spoVars
  <2> QED BY <2>1, <2>2
<1> QED BY <1>3, <1>4, SameDue

LEMMA ReturnDue ==
  ASSUME Cycle, phase = "replay", DeviceRuns
  PROVE  /\ \A l \in LBAs, i \in Ring : Due(i, l) => Due(i, l)'
         /\ UNCHANGED <<block_desc, ideal, media, hist_desc, hist_idx>>
<1>1. Base /\ TypeOK /\ ReplayBios /\ Device /\ UNCHANGED spoVars
  BY DEF Cycle, Sound, Base, Replaying, DeviceRuns
<1>2. PICK j \in Jobs, s \in Slots, l \in LBAs : \E m \in LBAs :
        Returns(j, s, l, m) /\ UNCHANGED <<hist_desc, hist_idx>>
  BY <1>1, ReplayReturns
<1>3. PICK m \in LBAs : Returns(j, s, l, m) /\ UNCHANGED <<hist_desc, hist_idx>>
  BY <1>2
<1>4. Others(j, s) /\ Same(bio[j][s], bio'[j][s])
  BY <1>1, <1>3, ReturnBio
<1>5. \A k \in Jobs, t \in Slots, x \in LBAs : Reading(k, t, x)' <=> Reading(k, t, x)
  <2> TAKE k \in Jobs, t \in Slots, x \in LBAs
  <2>1. CASE k = j /\ t = s
    BY <1>4, <2>1 DEF Same, Reading
  <2>2. CASE k # j \/ t # s
    BY <1>4, <2>2 DEF Others, Reading
  <2> QED BY <2>1, <2>2
<1>6. UNCHANGED <<block_desc, ideal, media, hist_desc, hist_idx, replay_cnt, bio_hist>>
  BY <1>1, <1>3 DEF Returns, spoVars
<1> QED BY <1>5, <1>6, SameDue

(* The read of another block is verified. *)
LEMMA SubmitDue ==
  ASSUME Cycle, phase = "replay", NEW j \in Jobs, NEW s \in Slots, ReplaySubmit(j, s),
         NEW l \in LBAs, l # bio[j][s].slba, NEW i \in Ring, Due(i, l)
  PROVE  Due(i, l)'
<1>1. /\ UNCHANGED <<hist_desc, hist_idx, spoVars>>
      /\ bio' = bio \/ (Others(j, s) /\ bio'[j][s] = NoBio)
  BY ReplaySubmitBio DEF Cycle
<1>2. UNCHANGED <<replay_cnt, bio_hist>>
  BY <1>1 DEF spoVars
<1>3. \A k \in Jobs, t \in Slots : Reading(k, t, l)' <=> Reading(k, t, l)
  <2> TAKE k \in Jobs, t \in Slots
  <2>1. CASE k = j /\ t = s
    BY <1>1, <2>1 DEF Reading, NoBio
  <2>2. CASE k # j \/ t # s
    BY <1>1, <2>2 DEF Reading, Others
  <2> QED BY <2>1, <2>2
<1> QED BY <1>1, <1>2, <1>3, SameDue

(* verify_hist_read of a correct device: what is read is what the device   *)
(* holds, and the entry repairs a descriptor that does not accept it.      *)
LEMMA ReplaySpan ==
  ASSUME Cycle, phase = "replay", NEW j \in Jobs, NEW s \in Slots,
         bio[j][s].stage = "submit", bio[j][s].op = "read"
  PROVE  LET b == bio[j][s] IN
         b.slba \in LBAs /\ b.todo = {} /\ Span(b) = {b.slba}
<1> DEFINE b == bio[j][s]
<1>1. b \in Bios /\ BioShape(b) /\ ReplayBio(b, s)
  BY DEF Cycle, Sound, Base, TypeOK, Shapes, Replaying, ReplayBios
<1>2. b.slba \in LBAs /\ b.nlbs = 1 /\ b.todo = {}
  BY <1>1 DEF Bios, ReplayBio, BioShape
<1>3. PICK x \in Nat : x = b.slba
  BY <1>2, LbaFacts
<1>4. Span(b) = x .. x + 1 - 1
  BY <1>2, <1>3 DEF Span
<1> QED BY <1>2, <1>3, <1>4

LEMMA ReadBlock ==
  ASSUME Cycle, Readable, phase = "replay", faults = 0, NEW j \in Jobs, NEW s \in Slots,
         bio[j][s].stage = "submit", bio[j][s].op = "read"
  PROVE  LET b == bio[j][s] IN
         /\ b.slba \in LBAs /\ Span(b) = {b.slba}
         /\ b.data[b.slba] = ideal[b.slba] /\ ~Failed(b)
<1> DEFINE b == bio[j][s]
<1>1. ReplayBio(b, s)
  BY DEF Cycle, Replaying, ReplayBios
<1>2. b.slba \in LBAs /\ b.todo = {} /\ Span(b) = {b.slba}
  BY ReplaySpan
<1>3. b.data[b.slba] = ideal[b.slba]
  BY <1>1, <1>2 DEF ReplayBio
<1>4. ~Failed(b)
  BY <1>2, <1>3 DEF Failed, Readable
<1> QED BY <1>2, <1>3, <1>4

LEMMA GoodIsAccepted ==
  ASSUME NEW d, NEW l, NEW c, HistGood(d, l, c)
  PROVE  Accepts(d, l, c)
  BY DEF HistGood, Accepts

LEMMA SubmitRepairing ==
  ASSUME Cycle, Readable, phase = "replay", faults = 0, Repairing,
         NEW j \in Jobs, NEW s \in Slots, ReplaySubmit(j, s)
  PROVE  Repairing'
<1> DEFINE b == bio[j][s]
<1>1. /\ b.stage = "submit" /\ b.op = "read"
      /\ block_desc' = [l \in LBAs |-> Fixed(s, b, l)]
      /\ UNCHANGED <<ideal, hist_desc, hist_idx, spoVars>>
      /\ bio' = bio \/ (Others(j, s) /\ bio'[j][s] = NoBio)
  BY ReplaySubmitBio DEF Cycle
<1>3. /\ b.slba \in LBAs /\ Span(b) = {b.slba}
      /\ b.data[b.slba] = ideal[b.slba] /\ ~Failed(b)
  BY <1>1, ReadBlock
<1> HIDE DEF b
<1> SUFFICES ASSUME NEW l \in LBAs
             PROVE  Accepted(l)' \/ (Full' /\ \E i \in Ring : ToRepair(i, l)')
  BY DEF Repairing
<1>4. block_desc'[l] = Fixed(s, b, l)
  BY <1>1
<1>5. CASE l = b.slba
  <2>1. CASE Accepted(l)
    <3>1. ~Miscompare(b)
      BY <1>3, <1>5, <2>1 DEF Miscompare, Accepted
    <3>2. block_desc'[l] = block_desc[l]
      BY <1>4, <3>1 DEF Fixed
    <3> QED BY <1>1, <2>1, <3>2 DEF Accepted
  <2>2. CASE ~Accepted(l)
    <3>1. PICK i \in Ring : ToRepair(i, l)
      BY <2>2 DEF Repairing
    <3>2. Reading(j, s, l)
      BY <1>1, <1>5 DEF Reading, b
    <3>3. bio_hist[s] = i /\ HistGood(hist_desc[i].bd, l, ideal[l])
      BY <3>1, <3>2 DEF ToRepair, Due
    <3>4. Miscompare(b)
      BY <1>1, <1>3, <1>5, <2>2 DEF Miscompare, Accepted
    <3>5. HistAccepts(s, l, b.data[l])
      BY <1>3, <1>5, <3>3 DEF HistAccepts, HistGood
    <3>6. block_desc'[l] = hist_desc[i].bd
      BY <1>3, <1>4, <1>5, <3>3, <3>4, <3>5 DEF Fixed
    <3>7. Accepts(hist_desc[i].bd, l, ideal[l])
      BY <3>3, GoodIsAccepted
    <3> QED BY <1>1, <3>6, <3>7 DEF Accepted
  <2> QED BY <2>1, <2>2
<1>6. CASE l # b.slba
  <2>1. block_desc'[l] = block_desc[l]
    BY <1>3, <1>4, <1>6 DEF Fixed
  <2>2. CASE Accepted(l)
    BY <1>1, <2>1, <2>2 DEF Accepted
  <2>3. CASE ~Accepted(l)
    <3>1. Full
      BY <2>3 DEF Repairing
    <3>2. PICK i \in Ring : ToRepair(i, l)
      BY <2>3 DEF Repairing
    <3>3. Due(i, l)'
      BY <1>6, <3>2, SubmitDue DEF ToRepair, b
    <3>4. HistGood(hist_desc[i].bd, l, ideal[l])' /\ Full'
      BY <1>1, <3>1, <3>2 DEF ToRepair, HistGood, Full
    <3> QED BY <3>3, <3>4 DEF ToRepair
  <2> QED BY <2>2, <2>3
<1> QED BY <1>5, <1>6

(* When the job has ended, all entries of a full ring have been tried.     *)
LEMMA EndNotDue ==
  ASSUME Cycle, phase = "replay", state # "running", Full,
         \A j \in Jobs, s \in Slots : bio[j][s].stage = "free",
         NEW l \in LBAs, NEW i \in Ring, Due(i, l)
  PROVE  FALSE
<1>1. Sound /\ Walk /\ Shapes /\ hist_idx \in Ring
  BY DEF Cycle, Sound, Base, Replaying
<1>2. \A j \in Jobs, s \in Slots : ~Reading(j, s, l)
  BY <1>1 DEF Shapes, BioShape, Reading
<1>3. Remaining(i) /\ Oldest # l /\ hist_desc[i].lba = l
  BY <1>2 DEF Due, NewestOf
<1>4. replay_cnt = 0
  BY <1>1 DEF Walk
<1>5. NHist \in Nat \ {0} /\ Age(i) \in Nat /\ Age(i) <= NHist - 1
  BY <1>1, RingFacts DEF Ring
<1>6. Age(i) = Age(hist_idx)
  BY <1>1, <1>3, <1>4, <1>5, AgeFacts DEF Remaining
<1>7. i = hist_idx
  BY <1>1, <1>6, AgeFacts
<1> QED BY <1>3, <1>7 DEF Oldest

LEMMA EndRepaired ==
  ASSUME Cycle, Repairing, JobEnd
  PROVE  Repaired'
<1>1. /\ phase = "replay" /\ state # "running" /\ UNCHANGED vars
      /\ \A j \in Jobs, s \in Slots : bio[j][s].stage = "free"
  BY DEF JobEnd
<1> SUFFICES ASSUME NEW l \in LBAs, ~Accepted(l) PROVE FALSE
  BY <1>1 DEF Repaired, Accepted, vars
<1> QED BY <1>1, EndNotDue DEF Repairing, ToRepair

LEMMA InitJournal == SpoInit => Journal
<1> SUFFICES ASSUME SpoInit PROVE Journal
  OBVIOUS
<1>1. Init /\ phase = "io"
  BY DEF SpoInit
<1>2. ASSUME NEW l \in LBAs PROVE Accepted(l)
  <2>1. block_desc[l].state = "unwritten" /\ ideal[l] = Unwritten /\ Unwritten.kind =
            IF UnwrRead = "ones" THEN "ones" ELSE "zeroes"
    BY <1>1 DEF Init, Unwritten, Plain
  <2> QED BY <2>1, ParamsAssumption DEF Accepted, Accepts, IsAll, IsAllZeroes, IsAllOnes
<1> QED BY <1>1, <1>2 DEF Journal, Lagging

LEMMA NextJournal ==
  ASSUME Repairable
  PROVE  Cycle /\ Readable /\ Journal /\ [SpoNext]_allVars => Journal'
<1> SUFFICES ASSUME Cycle, Readable, Journal, [SpoNext]_allVars, clean', faults' = 0
             PROVE  /\ phase' \in {"io", "off"} => Lagging'
                    /\ phase' = "replay" => Repairing'
                    /\ phase' = "ended" => Repaired'
  BY DEF Journal
<1>1. Sound /\ Base /\ TypeOK /\ faults \in Nat
  BY NumbersAssumption DEF Cycle, Sound, Base, TypeOK
<1>2. CASE UNCHANGED allVars
  <2>1. UNCHANGED <<phase, clean, faults, block_desc, ideal, hist_desc, hist_idx,
                    replay_cnt, bio_hist, bio>>
    BY <1>2 DEF allVars, vars, spoVars
  <2>2. /\ phase \in {"io", "off"} => Lagging
        /\ phase = "replay" => Repairing
        /\ phase = "ended" => Repaired
    BY <2>1 DEF Journal
  <2>3. Lagging => Lagging'
    BY <2>1 DEF Lagging, Accepted
  <2>4. Repaired => Repaired'
    BY <2>1 DEF Repaired, Accepted
  <2>5. \A l \in LBAs, i \in Ring : Due(i, l) => Due(i, l)'
    BY <2>1, SameDue DEF Reading
  <2>6. Repairing => Repairing'
    BY <2>1, <2>5, SameRepairing
  <2> QED BY <2>1, <2>2, <2>3, <2>4, <2>6
<1>3. CASE Work
  <2>1. phase' = phase /\ clean' = clean /\ phase \in {"io", "off"}
    BY <1>3 DEF Work, spoVars
  <2>2. PICK j \in Jobs, s \in Slots :
          \/ \E op \in Ops, r \in Lock!Ranges : Generate(j, s, op, r)
          \/ Count(j, s) \/ Stamp(j, s) \/ Enqueue(j, s)
          \/ Complete(j, s) \/ Submit(j, s)
    BY <1>3 DEF Work
  <2>3. faults' = faults
    BY <2>2 DEF Generate, Count, Stamp, Enqueue, Complete, Submit
  <2>4. Lagging
    BY <2>1, <2>3 DEF Journal
  <2>5. Lagging'
    BY <1>1, <2>2, <2>4, JobLagging
  <2> QED BY <2>1, <2>5
<1>4. CASE DeviceRuns
  <2>1. phase' = phase /\ clean' = clean /\ phase \in {"io", "replay"} /\ Device
    BY <1>4 DEF DeviceRuns, spoVars
  <2>2. faults = 0
    <3>1. faults' = faults \/ faults' = faults + 1
      BY <2>1, DeviceSplit DEF ExecuteWrite, LoseWrite
    <3> QED BY <1>1, <3>1
  <2>3. CASE phase = "io"
    <3>1. Lagging
      BY <2>1, <2>2, <2>3 DEF Journal
    <3> QED BY <1>1, <2>1, <2>3, <3>1, DeviceLagging
  <2>4. CASE phase = "replay"
    <3>1. Repairing
      BY <2>1, <2>2, <2>4 DEF Journal
    <3> QED BY <1>4, <2>1, <2>4, <3>1, ReturnDue, SameRepairing
  <2> QED BY <2>1, <2>3, <2>4
<1>5. CASE PowerOff
  <2>1. /\ phase = "io" /\ phase' = "off" /\ clean' = clean
        /\ UNCHANGED <<faults, block_desc, ideal, bio>>
    BY <1>5 DEF PowerOff, vars
  <2>2. Lagging
    BY <2>1 DEF Journal
  <2>3. Lagging'
    BY <2>1, <2>2 DEF Lagging, Accepted
  <2> QED BY <2>1, <2>3
<1>6. CASE AbortAndReplay
  <2>1. phase = "off" /\ phase' = "replay" /\ clean /\ faults' = faults
    BY <1>6 DEF AbortAndReplay, NewProcess
  <2>2. Lagging
    BY <2>1 DEF Journal
  <2> QED BY <1>6, <2>1, <2>2, StartRepairing
<1>7. CASE JobEnd
  <2>1. phase = "replay" /\ phase' = "ended" /\ clean' = clean /\ faults' = faults
    BY <1>7 DEF JobEnd, vars
  <2>2. Repairing
    BY <2>1 DEF Journal
  <2> QED BY <1>7, <2>1, <2>2, EndRepaired
<1>8. CASE MainReturns
  BY <1>8 DEF MainReturns
<1>9. CASE NextCycle
  <2>1. /\ phase = "ended" /\ phase' = "io" /\ clean' = clean
        /\ UNCHANGED <<faults, block_desc, ideal>>
    BY <1>9 DEF NextCycle, NewProcess
  <2>2. Repaired
    BY <2>1 DEF Journal
  <2>3. Lagging'
    BY <2>1, <2>2 DEF Lagging, Repaired, Accepted
  <2> QED BY <2>1, <2>3
<1>10. ASSUME NEW j \in Jobs, NEW s \in Slots,
              ReplayTry(j, s) \/ ReplayEnd(j, s) \/ ReplayFlow(j, s) \/ ReplaySubmit(j, s)
       PROVE  phase' = "replay" /\ Repairing'
  <2>1. phase = "replay" /\ phase' = "replay" /\ clean' = clean
    BY <1>10 DEF ReplayTry, ReplayEnd, ReplayFlow, ReplaySubmit, spoVars
  <2>2. faults' = faults
    <3>1. CASE ReplayFlow(j, s)
      BY <3>1 DEF ReplayFlow, Enqueue, Complete, Submit
    <3> QED BY <1>10, <3>1 DEF ReplayTry, ReplayEnd, ReplaySubmit
  <2>3. Repairing /\ faults = 0
    BY <2>1, <2>2 DEF Journal
  <2>4. CASE ReplayTry(j, s)
    <3>1. UNCHANGED <<block_desc, ideal, hist_desc>>
      BY <2>4 DEF ReplayTry
    <3> QED BY <2>1, <2>3, <2>4, <3>1, TryDue, SameRepairing
  <2>5. CASE ReplayEnd(j, s) \/ ReplayFlow(j, s)
    BY <2>1, <2>3, <2>5, EndDue, SameRepairing
  <2> QED BY <1>10, <2>1, <2>3, <2>4, <2>5, SubmitRepairing
<1> QED BY <1>2, <1>3, <1>4, <1>5, <1>6, <1>7, <1>8, <1>9, <1>10 DEF SpoNext

LEMMA SpoInvHolds ==
  ASSUME Repairable
  PROVE  SpoSpec => []SpoInv
<1>1. SpoInit => SpoInv
  BY InitCycle, InitReadable, InitJournal DEF SpoInv
<1>2. SpoInv /\ [SpoNext]_allVars => SpoInv'
  BY NextCycleKept, NextReadable, NextJournal DEF SpoInv, Cycle, Repairable
<1> QED BY <1>1, <1>2, PTL DEF SpoSpec

(* The replay repairs the journal: after a power cut that misses the four  *)
(* gaps, when the job thread has ended its replay (verify_hist_read,       *)
(* iogen_job_end), the verifier accepts what a correct device kept of      *)
(* every block in flight, whatever was executed of it, in whatever order,  *)
(* and however many cycles came before.                                    *)
THEOREM ReplayRepairs ==
  ASSUME Repairable
  PROVE  SpoSpec => []JournalRepairedIfClean
<1>1. SpoInv => JournalRepairedIfClean
  BY DEF SpoInv, Journal, Repaired, Accepted, JournalRepairedIfClean, JournalRepaired
<1> QED BY <1>1, SpoInvHolds, PTL

(* No false alarm across power cuts: neither verify_hist_read in a replay  *)
(* nor verify_bio_read in the I/O after it reports a read that returned    *)
(* what a correct device holds.                                            *)
THEOREM ReplayNeverBlames ==
  ASSUME Repairable
  PROVE  SpoSpec => []NoFalseAlarmIfClean
<1>1. SpoInv => NoFalseAlarmIfClean
  <2> SUFFICES ASSUME SpoInv, clean, faults = 0, NEW j \in Jobs, NEW s \in Slots,
                      bio[j][s].stage = "submit",
                      \/ Unexpected(bio[j][s])
                      \/ IF phase = "replay" THEN ReplayMiscompare(s, bio[j][s])
                                             ELSE Miscompare(bio[j][s]),
                      \A l \in Span(bio[j][s]) : bio[j][s].data[l] = ideal[l]
               PROVE  FALSE
    BY DEF NoFalseAlarmIfClean
  <2> DEFINE b == bio[j][s]
  <2>1. Cycle /\ Readable /\ Journal /\ Base /\ TypeOK /\ Shapes /\ Owned /\ Disjoint
    BY DEF SpoInv, Cycle, Sound, Base
  <2>2. b.op = "read"
    BY DEF Unexpected, ReplayMiscompare, Miscompare, Failed
  <2>3. Span(b) \subseteq LBAs
    <3>1. b \in Bios /\ BioShape(b)
      BY <2>1 DEF TypeOK, Shapes
    <3> QED BY <3>1, LbaFacts DEF BioShape
  <2>4. ~Failed(b)
    BY <2>1, <2>3 DEF Failed, Readable
  <2>5. Miscompare(b)
    BY <2>4 DEF Unexpected, ReplayMiscompare
  <2>6. PICK l \in Span(b) : ~Accepted(l)
    BY <2>5 DEF Miscompare, Accepted
  <2>7. CASE phase = "replay"
    <3>1. Repairing
      BY <2>1, <2>7 DEF Journal
    <3>2. Span(b) = {b.slba} /\ l = b.slba
      BY <2>1, <2>2, <2>6, <2>7, ReadBlock
    <3>3. PICK i \in Ring : ToRepair(i, l)
      BY <2>3, <2>6, <3>1 DEF Repairing
    <3>4. Reading(j, s, l)
      BY <2>2, <3>2 DEF Reading
    <3>5. bio_hist[s] = i /\ HistGood(hist_desc[i].bd, l, ideal[l])
      BY <3>3, <3>4 DEF ToRepair, Due
    <3>6. HistAccepts(s, l, b.data[l])
      BY <3>2, <3>5 DEF HistAccepts, HistGood
    <3>7. ~ReplayMiscompare(s, b)
      BY <3>2, <3>6 DEF ReplayMiscompare
    <3> QED BY <2>4, <2>7, <3>7 DEF Unexpected
  <2>8. CASE phase \in {"io", "off"}
    <3>1. Lagging
      BY <2>1, <2>8 DEF Journal
    <3>2. ASSUME NEW k \in Jobs, NEW t \in Slots PROVE ~Writes(bio[k][t], l)
      <4>1. CASE k = j /\ t = s
        BY <2>2, <4>1 DEF Writes
      <4>2. CASE k # j \/ t # s
        BY <2>1, <2>6, <4>2 DEF Writes, Disjoint
      <4> QED BY <4>1, <4>2
    <3> QED BY <2>3, <2>6, <3>1, <3>2 DEF Lagging
  <2>9. CASE phase = "ended"
    BY <2>1, <2>3, <2>6, <2>9 DEF Journal, Repaired
  <2> QED BY <2>1, <2>7, <2>8, <2>9 DEF Cycle, Sound, CycleTypes
<1> QED BY <1>1, SpoInvHolds, PTL

(* A replay only repairs: on a correct device no step of verify_hist_read  *)
(* takes a descriptor away that accepts its block, although the ring has   *)
(* entries older than the block, and whatever gap the cycle fell into.     *)
THEOREM ReplayOnlyRepairs == SpoSpec => ReplaySpoilsNothing
<1> DEFINE Kept(l) == Accepts(block_desc[l], l, media[l])
<1>1. ASSUME Cycle, [SpoNext]_allVars, phase = "replay", faults = 0,
             NEW l \in LBAs, Kept(l)
      PROVE  Kept(l)'
  <2>1. ASSUME UNCHANGED <<block_desc, media>> PROVE Kept(l)'
    BY <1>1, <2>1
  <2>2. CASE UNCHANGED allVars \/ JobEnd \/ MainReturns
    BY <2>1, <2>2 DEF allVars, vars, JobEnd, MainReturns
  <2>3. ~Work /\ ~PowerOff /\ ~AbortAndReplay /\ ~NextCycle
    BY <1>1 DEF Work, PowerOff, AbortAndReplay, NextCycle
  <2>4. CASE DeviceRuns
    BY <1>1, <2>1, <2>4, ReturnDue
  <2>5. ASSUME NEW j \in Jobs, NEW s \in Slots,
               ReplayTry(j, s) \/ ReplayEnd(j, s) \/ ReplayFlow(j, s)
        PROVE  Kept(l)'
    BY <1>1, <2>1, <2>5, EndDue DEF ReplayTry
  <2>6. ASSUME NEW j \in Jobs, NEW s \in Slots, ReplaySubmit(j, s) PROVE Kept(l)'
    <3> DEFINE b == bio[j][s]
    <3>1. /\ b.stage = "submit" /\ b.op = "read" /\ media' = media
          /\ block_desc' = [x \in LBAs |-> Fixed(s, b, x)]
      BY <1>1, <2>6, ReplaySubmitBio DEF Cycle
    <3>2. b.slba \in LBAs /\ b.todo = {} /\ Span(b) = {b.slba}
      BY <1>1, <3>1, ReplaySpan
    <3>3. b.data[b.slba] = media[b.slba]
      <4>1. ReplayBio(b, s) /\ media = ideal
        BY <1>1 DEF Cycle, Replaying, ReplayBios, Faultless
      <4> QED BY <1>1, <3>1, <3>2, <4>1 DEF ReplayBio
    <3> HIDE DEF b
    <3>4. l \in Span(b) => ~Miscompare(b)
      BY <1>1, <3>2, <3>3 DEF Miscompare
    <3>5. block_desc'[l] = block_desc[l]
      BY <3>1, <3>4 DEF Fixed
    <3> QED BY <1>1, <3>1, <3>5
  <2> QED BY <1>1, <2>2, <2>3, <2>4, <2>5, <2>6 DEF SpoNext
<1>2. Cycle /\ [SpoNext]_allVars => [phase = "replay" /\ faults = 0 =>
         \A l \in LBAs : Kept(l) => Kept(l)']_allVars
  BY <1>1
<1> QED BY <1>2, InitCycle, NextCycleKept, PTL DEF SpoSpec, ReplaySpoilsNothing
=============================================================================
