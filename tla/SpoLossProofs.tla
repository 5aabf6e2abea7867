---------------------------- MODULE SpoLossProofs ----------------------------
(* The proof that the first replay reports what the device has lost, for   *)
(* every size of the pool, of the namespace and of the history ring, every *)
(* number of faults of the device, lost writes and misdirected reads, and  *)
(* both ways of marking a block in flight (SPOR level 3 or not).           *)
EXTENDS SpoCycleProofs

(* The conditions under which a loss can be seen.  The commands that       *)
(* change a block are writes, as in the test: a block of zeroes carries no *)
(* stamp, and nothing tells a lost deallocate from one that was executed   *)
(* if the pattern of the old block is 0.  The u16 timestamp has not        *)
(* wrapped, so that no two writes carry the same stamp.                    *)
Visible == Ops \subseteq {"read", "write", "flush"} /\ MaxTs <= TsMod

(* Up to the end of the first replay. *)
FirstCut == (phase = "io" /\ cuts = 0) \/ (phase # "io" /\ cuts = 1)

(* At work: the last entry of a block that no command is still to execute  *)
(* tells what a correct device holds.                                      *)
Settled(l) ==
  \A j \in Jobs, s \in Slots : Writes(bio[j][s], l) => l \notin bio[j][s].todo
Told ==
  \A l \in LBAs : \A i \in Ring :
    NewestOf(i, l) /\ Settled(l) => HistGood(hist_desc[i].bd, l, ideal[l])

(* All entries are of writes. *)
DataOnly ==
  /\ \A j \in Jobs, s \in Slots : bio[j][s].op \in {"none", "read", "write", "flush"}
  /\ \A i \in Ring : hist_desc[i].lba = -1 \/ hist_desc[i].bd.state = "data"

(* A stamp is on the block it was made for. *)
Placed == \A l \in LBAs : media[l].kind = "data" => media[l].lba = l

(* In the replay: a read returns a block of the device, right or wrong.    *)
FromMedia(b) ==
  b.op = "read" /\ b.stage \in {"flight", "submit"} =>
    \A l \in Span(b) \ b.todo : \E m \in LBAs : b.data[l] = media[m]
ReadMedia == \A j \in Jobs, s \in Slots : FromMedia(bio[j][s])

(* No block of the device is what descriptor d says of block l. *)
Rejects(d, l) ==
  d.state = "data" /\ \A m \in LBAs : ~VerifyBlockData(d, l, media[m])

(* A lost block will be reported: its last entry is due, and neither the   *)
(* entry nor the descriptor of the block accepts what a read can return.   *)
ToReport(i, l) ==
  Due(i, l) /\ Rejects(hist_desc[i].bd, l) /\ Rejects(block_desc[l], l)
Lost(l) == l \in Noted /\ l # Oldest /\ media[l] # ideal[l]
Reporting ==
  Oldest # -1 => \A l \in LBAs : Lost(l) => result # 0 \/ \E i \in Ring : ToReport(i, l)

First ==
  /\ phase \in {"io", "off"} => Tracks /\ Told
  /\ phase = "replay" => ReadMedia /\ Reporting
  /\ phase = "ended" => LossReported
LossInv ==
  /\ Cycle /\ Readable /\ DataOnly /\ Placed
  /\ phase = "io" \/ cuts # 0
  /\ FirstCut => First
-----------------------------------------------------------------------------
(* The ring at work. *)
LEMMA QuietTold ==
  ASSUME Quiet, Told
  PROVE  Told'
<1>1. UNCHANGED <<hist_desc, hist_idx, ideal>>
  BY DEF Quiet
<1>2. ASSUME NEW j \in Jobs, NEW s \in Slots, NEW l \in LBAs
      PROVE  /\ Writes(bio'[j][s], l) <=> Writes(bio[j][s], l)
             /\ Writes(bio'[j][s], l) => (l \in bio'[j][s].todo <=> l \in bio[j][s].todo)
  BY DEF Quiet, SameWrite
<1>3. \A l \in LBAs : Settled(l)' => Settled(l)
  BY <1>2 DEF Settled
<1>4. \A l \in LBAs, i \in Ring : NewestOf(i, l)' => NewestOf(i, l)
  BY <1>1, SameRing
<1> QED BY <1>1, <1>3, <1>4 DEF Told

LEMMA EnqueueTold ==
  ASSUME Base, hist_idx \in Ring, Told, NEW j \in Jobs, NEW s \in Slots, Enqueue(j, s)
  PROVE  Told'
<1> DEFINE b == bio[j][s]
           c == bio'[j][s]
<1>0. TypeOK /\ Shapes
  BY DEF Base
<1>1. /\ Others(j, s) /\ Same(b, c) /\ b.stage = "enqueue" /\ c.stage = "flight"
      /\ c.todo = b.todo
  BY <1>0, EnqueueBio
<1>2. b \in Bios /\ BioShape(b) /\ BackupHist(b) /\ UNCHANGED ideal
  BY <1>0 DEF TypeOK, Shapes, Enqueue
<1> HIDE DEF b, c
<1> SUFFICES ASSUME NEW l \in LBAs, NEW i \in Ring, NewestOf(i, l)', Settled(l)'
             PROVE  HistGood(hist_desc[i].bd, l, ideal[l])'
  BY DEF Told
<1>3. Settled(l)
  <2>1. ~Writes(b, l)
    BY <1>1 DEF Writes
  <2> QED BY <1>1, <2>1 DEF Settled, Others, b
<1>4. CASE b.op \in {"read", "flush"}
  <2>1. UNCHANGED <<hist_desc, hist_idx>>
    BY <1>2, <1>4 DEF BackupHist
  <2>2. NewestOf(i, l)
    BY <2>1, SameRing
  <2> QED BY <1>2, <1>3, <2>1, <2>2 DEF Told, HistGood
<1>5. CASE b.op \notin {"read", "flush"}
  <2>1. b.op # "none" /\ b.todo = Span(b)
    BY <1>1, <1>2 DEF BioShape
  <2>2. l \notin Span(b)
    <3>1. Span(c) = Span(b) /\ c.op = b.op
      BY <1>1 DEF Same, Span
    <3>2. ~(Writes(c, l) /\ l \in c.todo)
      BY DEF Settled, c
    <3> QED BY <1>1, <1>5, <2>1, <3>1, <3>2 DEF Writes
  <2>3. NewestOf(i, l) /\ hist_desc'[i] = hist_desc[i]
    BY <1>0, <1>2, <1>5, <2>1, <2>2, NewestKept
  <2> QED BY <1>2, <1>3, <2>3 DEF Told, HistGood
<1> QED BY <1>4, <1>5

LEMMA ExecuteTold ==
  ASSUME Base, Foretold, Told, NEW j \in Jobs, NEW s \in Slots, NEW x \in LBAs,
         ExecuteWrite(j, s, x) \/ LoseWrite(j, s, x)
  PROVE  Told'
<1> DEFINE b == bio[j][s]
           c == bio'[j][s]
<1>1. Executes(j, s, x) /\ TypeOK
  BY DEF ExecuteWrite, LoseWrite, Executes, Base
<1>2. /\ Others(j, s) /\ Same(b, c) /\ b.stage = "flight" /\ c.stage = "flight"
      /\ b.op # "read" /\ x \in b.todo /\ c.todo = b.todo \ {x}
  BY <1>1, ExecuteBio
<1>3. /\ UNCHANGED <<hist_desc, hist_idx>>
      /\ ideal' = [ideal EXCEPT ![x] = Effect(b, x)]
  BY DEF ExecuteWrite, LoseWrite
<1>4. b \in Bios /\ BioShape(b)
  BY DEF Base, TypeOK, Shapes
<1> HIDE DEF b, c
<1> SUFFICES ASSUME NEW l \in LBAs, NEW i \in Ring, NewestOf(i, l)', Settled(l)'
             PROVE  HistGood(hist_desc[i].bd, l, ideal[l])'
  BY DEF Told
<1>5. NewestOf(i, l)
  BY <1>3, SameRing
<1>6. CASE l = x
  <2>1. Writes(b, x)
    <3>1. x \in Span(b)
      BY <1>2, <1>4 DEF BioShape
    <3>2. b.op # "flush"
      <4>1. b.op = "flush" => b.nlbs = 0 /\ b.slba \in Nat
        BY <1>4, LbaFacts DEF BioShape, Bios
      <4> QED BY <3>1, <4>1 DEF Span
    <3> QED BY <1>2, <3>1, <3>2 DEF Writes
  <2>2. ideal'[l] = Effect(b, l)
    BY <1>1, <1>3, <1>6 DEF TypeOK
  <2>3. HistGood(hist_desc[i].bd, l, Effect(b, l))
    BY <1>5, <1>6, <2>1 DEF Foretold, b
  <2> QED BY <1>3, <2>2, <2>3 DEF HistGood
<1>7. CASE l # x
  <2>1. Settled(l)
    <3> SUFFICES ASSUME NEW k \in Jobs, NEW t \in Slots, Writes(bio[k][t], l)
                 PROVE  l \notin bio[k][t].todo
      BY DEF Settled
    <3>1. CASE k = j /\ t = s
      <4>1. Writes(c, l)
        BY <1>2, <3>1 DEF b, Writes, Same, Span
      <4>2. l \notin c.todo
        BY <4>1 DEF Settled, c
      <4> QED BY <1>2, <1>7, <3>1, <4>2 DEF b
    <3>2. CASE k # j \/ t # s
      BY <1>2, <3>2 DEF Others, Settled
    <3> QED BY <3>1, <3>2
  <2>2. ideal'[l] = ideal[l]
    BY <1>1, <1>3, <1>7 DEF TypeOK
  <2> QED BY <1>3, <1>5, <2>1, <2>2 DEF Told, HistGood
<1> QED BY <1>6, <1>7

LEMMA SubmitTold ==
  ASSUME Base, Told, NEW j \in Jobs, NEW s \in Slots, Submit(j, s)
  PROVE  Told'
<1>1. /\ TypeOK /\ Shapes /\ bio[j][s].stage = "submit"
      /\ UNCHANGED <<hist_desc, hist_idx, ideal>>
  BY DEF Base, Submit
<1>2. bio' = bio \/ (Others(j, s) /\ bio'[j][s] = NoBio)
  BY <1>1, SubmitBio
<1>3. bio[j][s].todo = {}
  BY <1>1 DEF Shapes, BioShape
<1>4. ASSUME NEW l \in LBAs, Settled(l)' PROVE Settled(l)
  <2> SUFFICES ASSUME NEW k \in Jobs, NEW t \in Slots, Writes(bio[k][t], l)
               PROVE  l \notin bio[k][t].todo
    BY DEF Settled
  <2>1. CASE k = j /\ t = s
    BY <1>3, <2>1
  <2>2. CASE k # j \/ t # s
    BY <1>2, <1>4, <2>2 DEF Others, Settled
  <2> QED BY <2>1, <2>2
<1>5. \A l \in LBAs, i \in Ring : NewestOf(i, l)' => NewestOf(i, l)
  BY <1>1, SameRing
<1> QED BY <1>1, <1>4, <1>5 DEF Told, HistGood

LEMMA JobTold ==
  ASSUME Sound, Told, NEW j \in Jobs, NEW s \in Slots,
         \/ \E op \in Ops, r \in Lock!Ranges : Generate(j, s, op, r)
         \/ Count(j, s) \/ Stamp(j, s) \/ Enqueue(j, s)
         \/ Complete(j, s) \/ Submit(j, s)
  PROVE  Told'
<1>1. Base /\ hist_idx \in Ring
  BY DEF Sound
<1> QED BY <1>1, JobQuiet, QuietTold, EnqueueTold, SubmitTold

LEMMA DeviceTold ==
  ASSUME Base, Foretold, Told, Device
  PROVE  Told'
<1>1. PICK j \in Jobs, s \in Slots, l \in LBAs :
           \/ ExecuteWrite(j, s, l) \/ LoseWrite(j, s, l)
           \/ \E m \in LBAs : Returns(j, s, l, m) /\ UNCHANGED <<hist_desc, hist_idx>>
  BY DeviceSplit
<1> QED BY <1>1, ExecuteTold, ReturnQuiet, QuietTold
-----------------------------------------------------------------------------
(* Writes only: the entries, and the stamps on the device. *)
WriteOps == {"none", "read", "write", "flush"}

LEMMA OneDataOnly ==
  ASSUME DataOnly, NEW j \in Jobs, NEW s \in Slots, Others(j, s), bio'[j][s].op \in WriteOps,
         \A i \in Ring :
           hist_desc'[i] = hist_desc[i] \/ hist_desc'[i].bd.state = "data"
  PROVE  DataOnly'
<1>1. ASSUME NEW k \in Jobs, NEW t \in Slots PROVE bio'[k][t].op \in WriteOps
  <2>1. CASE k = j /\ t = s
    BY <2>1
  <2>2. CASE k # j \/ t # s
    BY <2>2 DEF Others, DataOnly, WriteOps
  <2> QED BY <2>1, <2>2
<1> QED BY <1>1 DEF DataOnly, WriteOps

LEMMA FreeDataOnly ==
  ASSUME DataOnly, UNCHANGED hist_desc,
         \A j \in Jobs, s \in Slots : bio'[j][s] = bio[j][s] \/ bio'[j][s] = NoBio
  PROVE  DataOnly'
<1>1. NoBio.op = "none"
  BY DEF NoBio
<1> QED BY <1>1 DEF DataOnly

LEMMA EnqueueData ==
  ASSUME Base, hist_idx \in Ring, DataOnly, NEW j \in Jobs, NEW s \in Slots, Enqueue(j, s),
         NEW i \in Ring
  PROVE  hist_desc'[i] = hist_desc[i] \/ hist_desc'[i].bd.state = "data"
<1> DEFINE b == bio[j][s]
           l == b.slba + (NHist - 1 - Age(i))
<1>1. b \in Bios /\ BioShape(b) /\ TypeOK /\ BackupHist(b) /\ b.stage = "enqueue" /\ b.op # "none"
  BY DEF Base, TypeOK, Shapes, Enqueue, BioShape
<1>2. CASE b.op \in {"read", "flush"}
  BY <1>1, <1>2 DEF BackupHist
<1>3. CASE b.op = "write"
  <2>1. \/ hist_desc'[i] = hist_desc[i]
        \/ hist_desc'[i] = [lba |-> l, bd |-> HistNext(b, l, hist_desc[i].bd)]
    BY <1>1, <1>3, RingStep
  <2> HIDE DEF l
  <2>2. HistNext(b, l, hist_desc[i].bd).state = "data"
    BY <1>3 DEF HistNext, Committed
  <2> QED BY <2>1, <2>2
<1> QED BY <1>1, <1>2, <1>3 DEF DataOnly

LEMMA JobDataOnly ==
  ASSUME Visible, Sound, DataOnly, NEW j \in Jobs, NEW s \in Slots,
         \/ \E op \in Ops, r \in Lock!Ranges : Generate(j, s, op, r)
         \/ Count(j, s) \/ Stamp(j, s) \/ Enqueue(j, s)
         \/ Complete(j, s) \/ Submit(j, s)
  PROVE  DataOnly'
<1>1. Base /\ TypeOK /\ Shapes /\ hist_idx \in Ring
  BY DEF Sound, Base
<1>2. ASSUME NEW op \in Ops, NEW r \in Lock!Ranges, Generate(j, s, op, r)
      PROVE  DataOnly'
  <2>1. op \in Opcodes \ {"flush"} /\ Takes(j, s, op, r) /\ op \in WriteOps
    BY <1>2, GenerateTakes DEF Visible, WriteOps
  <2>2. Others(j, s) /\ bio'[j][s].op = op
    BY <1>1, <2>1, GenerateBio
  <2>3. hist_desc' = hist_desc
    BY <1>2 DEF Generate
  <2> QED BY <2>1, <2>2, <2>3, OneDataOnly
<1>3. CASE Count(j, s) \/ Stamp(j, s) \/ Enqueue(j, s) \/ Complete(j, s)
  <2>1. Others(j, s) /\ Same(bio[j][s], bio'[j][s])
    BY <1>1, <1>3, CountBio, StampBio, EnqueueBio, CompleteBio
  <2>2. bio'[j][s].op \in WriteOps
    BY <2>1 DEF Same, DataOnly, WriteOps
  <2>3. CASE Enqueue(j, s)
    BY <1>1, <2>1, <2>2, <2>3, EnqueueData, OneDataOnly
  <2>4. CASE ~Enqueue(j, s)
    <3>1. hist_desc' = hist_desc
      BY <1>3, <2>4 DEF Count, Stamp, Complete
    <3> QED BY <2>1, <2>2, <3>1, OneDataOnly
  <2> QED BY <2>3, <2>4
<1>4. CASE Submit(j, s)
  <2>1. hist_desc' = hist_desc /\ (bio' = bio \/ (Others(j, s) /\ bio'[j][s] = NoBio))
    BY <1>1, <1>4, SubmitBio DEF Submit
  <2> QED BY <2>1, FreeDataOnly DEF Others
<1> QED BY <1>2, <1>3, <1>4

LEMMA DeviceWrites ==
  ASSUME Base, DataOnly, Placed, Device
  PROVE  DataOnly' /\ Placed'
<1>1. TypeOK
  BY DEF Base
<1>2. PICK j \in Jobs, s \in Slots, l \in LBAs :
           \/ ExecuteWrite(j, s, l) \/ LoseWrite(j, s, l)
           \/ \E m \in LBAs : Returns(j, s, l, m) /\ UNCHANGED <<hist_desc, hist_idx>>
  BY DeviceSplit
<1>3. CASE ExecuteWrite(j, s, l) \/ LoseWrite(j, s, l)
  <2> DEFINE b == bio[j][s]
             e == Effect(b, l)
  <2>1. Executes(j, s, l) /\ hist_desc' = hist_desc
    BY <1>3 DEF ExecuteWrite, LoseWrite, Executes
  <2>2. Others(j, s) /\ Same(b, bio'[j][s]) /\ b.stage = "flight" /\ l \in b.todo
    BY <1>1, <2>1, ExecuteBio
  <2>3. bio'[j][s].op \in WriteOps
    BY <2>2 DEF Same, DataOnly, WriteOps
  <2>4. DataOnly'
    BY <2>1, <2>2, <2>3, OneDataOnly
  <2>5. e.kind = "data" => e.lba = l
    <3>1. CASE b.op = "write"
      <4>1. l \in Prepared(b)
        BY <2>2, <3>1 DEF Prepared, Base, Shapes, BioShape
      <4> QED BY <3>1, <4>1 DEF Effect, Base, Stamped, IsStamp
    <3>2. CASE b.op # "write"
      <4>1. e = Plain("zeroes")
        BY <3>2 DEF Effect, DataOnly
      <4> QED BY <4>1 DEF Plain
    <3> QED BY <3>1, <3>2
  <2>6. media' = media \/ media' = [media EXCEPT ![l] = e]
    BY <1>3 DEF ExecuteWrite, LoseWrite
  <2> HIDE DEF e
  <2>7. Placed'
    BY <1>1, <2>5, <2>6 DEF Placed, TypeOK
  <2> QED BY <2>4, <2>7
<1>4. ASSUME NEW m \in LBAs, Returns(j, s, l, m), UNCHANGED <<hist_desc, hist_idx>>
      PROVE  DataOnly' /\ Placed'
  <2>1. Others(j, s) /\ Same(bio[j][s], bio'[j][s]) /\ media' = media
    BY <1>1, <1>4, ReturnBio DEF Returns
  <2>2. bio'[j][s].op \in WriteOps
    BY <2>1 DEF Same, DataOnly, WriteOps
  <2>3. DataOnly'
    BY <1>4, <2>1, <2>2, OneDataOnly
  <2> QED BY <2>1, <2>3 DEF Placed
<1> QED BY <1>2, <1>3, <1>4

LEMMA NextWrites ==
  ASSUME Visible
  PROVE  Sound /\ DataOnly /\ Placed /\ [SpoNext]_allVars => DataOnly' /\ Placed'
<1> SUFFICES ASSUME Sound, DataOnly, Placed, [SpoNext]_allVars PROVE DataOnly' /\ Placed'
  OBVIOUS
<1>1. Base /\ TypeOK
  BY DEF Sound, Base
<1>2. CASE DeviceRuns
  BY <1>1, <1>2, DeviceWrites DEF DeviceRuns
<1>3. CASE ~DeviceRuns
  <2>1. UNCHANGED media
    <3>1. CASE UNCHANGED allVars \/ PowerOff \/ JobEnd \/ MainReturns
      BY <3>1 DEF allVars, vars, PowerOff, JobEnd, MainReturns
    <3>2. CASE Work
      <4>1. PICK j \in Jobs, s \in Slots :
              \/ \E op \in Ops, r \in Lock!Ranges : Generate(j, s, op, r)
              \/ Count(j, s) \/ Stamp(j, s) \/ Enqueue(j, s)
              \/ Complete(j, s) \/ Submit(j, s)
        BY <3>2 DEF Work
      <4> QED BY <4>1 DEF Generate, Count, Stamp, Enqueue, Complete, Submit
    <3>3. CASE AbortAndReplay \/ NextCycle
      BY <3>3 DEF AbortAndReplay, NextCycle, NewProcess
    <3>4. ASSUME NEW j \in Jobs, NEW s \in Slots,
                 ReplayTry(j, s) \/ ReplayEnd(j, s) \/ ReplayFlow(j, s) \/ ReplaySubmit(j, s)
          PROVE  UNCHANGED media
      BY <3>4 DEF ReplayTry, ReplayEnd, ReplayFlow, ReplaySubmit, Enqueue, Complete, Submit
    <3> QED BY <1>3, <3>1, <3>2, <3>3, <3>4 DEF SpoNext
  <2>2. Placed'
    BY <2>1 DEF Placed
  <2>3. CASE UNCHANGED allVars \/ PowerOff \/ JobEnd \/ MainReturns
    <3>1. UNCHANGED <<hist_desc, bio>>
      BY <2>3 DEF allVars, vars, PowerOff, JobEnd, MainReturns
    <3> QED BY <2>2, <3>1, FreeDataOnly
  <2>4. CASE Work
    BY <2>2, <2>4, JobDataOnly DEF Work
  <2>5. CASE AbortAndReplay \/ NextCycle
    <3>1. hist_desc' = hist_desc /\ \A j \in Jobs, s \in Slots : bio'[j][s] = NoBio
      BY <2>5 DEF AbortAndReplay, NextCycle, NewProcess
    <3> QED BY <2>2, <3>1, FreeDataOnly
  <2>6. ASSUME NEW j \in Jobs, NEW s \in Slots, ReplayTry(j, s) PROVE DataOnly'
    <3>1. Entry.lba # -1 /\ (TryTakes(j, s) \/ TryFails)
      BY <2>6, TryStep
    <3>2. UNCHANGED hist_desc
      BY <2>6 DEF ReplayTry
    <3>3. CASE TryTakes(j, s)
      <4>1. Takes(j, s, "read", EntryRange) /\ EntryRange \in Lock!Ranges /\ "read" \in Opcodes \ {"flush"}
        BY <3>1, <3>3, EntryFacts DEF TryTakes, Opcodes
      <4>2. Others(j, s) /\ bio'[j][s].op \in WriteOps
        BY <1>1, <4>1, GenerateBio DEF WriteOps
      <4> QED BY <3>2, <4>2, OneDataOnly
    <3>4. CASE TryFails
      BY <3>2, <3>4, FreeDataOnly DEF TryFails, vars
    <3> QED BY <3>1, <3>3, <3>4
  <2>7. ASSUME NEW j \in Jobs, NEW s \in Slots, ReplayEnd(j, s) PROVE DataOnly'
    <3>1. TakesFlush(j, s)
      BY <2>7, EndStep
    <3>2. Others(j, s) /\ bio'[j][s].op \in WriteOps
      BY <1>1, <3>1, GenerateFlushBio DEF WriteOps
    <3> QED BY <3>1, <3>2, OneDataOnly DEF TakesFlush
  <2>8. ASSUME NEW j \in Jobs, NEW s \in Slots, ReplayFlow(j, s) PROVE DataOnly'
    BY <2>8, JobDataOnly DEF ReplayFlow
  <2>9. ASSUME NEW j \in Jobs, NEW s \in Slots, ReplaySubmit(j, s) PROVE DataOnly'
    <3>1. hist_desc' = hist_desc /\ (bio' = bio \/ (Others(j, s) /\ bio'[j][s] = NoBio))
      BY <2>9, ReplaySubmitBio
    <3> QED BY <3>1, FreeDataOnly DEF Others
  <2> QED BY <1>3, <2>2, <2>3, <2>4, <2>5, <2>6, <2>7, <2>8, <2>9 DEF SpoNext
<1> QED BY <1>2, <1>3
-----------------------------------------------------------------------------
(* The cut.  A descriptor of a stamp tells it from every other block of    *)
(* the device.                                                             *)
LEMMA LostIsRejected ==
  ASSUME MaxTs <= TsMod, TypeOK, Real, Placed, NEW l \in LBAs, media[l] # ideal[l],
         NEW d, d.state = "data", VerifyBlockData(d, l, ideal[l])
  PROVE  Rejects(d, l)
<1> SUFFICES ASSUME NEW m \in LBAs, VerifyBlockData(d, l, media[m]) PROVE FALSE
  BY DEF Rejects
<1> DEFINE c == media[m]
           e == ideal[l]
<1>1. c \in Contents /\ e \in Contents /\ IsReal(c) /\ IsReal(e)
  BY DEF TypeOK, Real
<1>2. /\ c.kind = "data" /\ c.lba = l /\ c.ts % TsMod = d.timestamp
      /\ e.kind = "data" /\ e.lba = l /\ e.ts % TsMod = d.timestamp
  BY DEF VerifyBlockData
<1>3. m = l
  BY <1>2 DEF Placed
<1> HIDE DEF c, e
<1>4. c.ts \in 1 .. TsMod /\ e.ts \in 1 .. TsMod
  BY <1>1, <1>2, NumbersAssumption DEF Contents, IsReal
<1>5. c.ts = e.ts
  BY <1>2, <1>4, StampsDiffer
<1>6. c = e
  BY <1>1, <1>2, <1>5 DEF Contents
<1> QED BY <1>3, <1>6 DEF c, e

LEMMA DataDescribed ==
  ASSUME NEW l \in LBAs, NEW d \in BlockDescs, NEW c \in Contents, Describes(d, l, c),
         c.kind = "data"
  PROVE  d.state = "data" /\ VerifyBlockData(d, l, c)
<1>1. \A k : Plain(k).kind = k
  BY DEF Plain
<1>2. /\ c # Plain("zeroes") /\ c # Plain("ones") /\ c # Plain("uncor")
      /\ c # Plain(DeallocRead) /\ c # Unwritten
  BY <1>1, ParamsAssumption DEF Unwritten
<1>3. d.state \in BlockStates
  BY DEF BlockDescs
<1> QED BY <1>2, <1>3 DEF Describes, Matches, BlockStates

(* What is lost and not in flight was acknowledged: its last entry and its *)
(* descriptor are of the write that was lost.                              *)
LEMMA StartReporting ==
  ASSUME Visible, Cycle, DataOnly, Placed, Tracks, Told, AbortAndReplay
  PROVE  ReadMedia' /\ Reporting'
<1> DEFINE inflight == {l \in LBAs : \E j \in Jobs, s \in Slots : Writes(bio[j][s], l)}
<1>1. /\ NewProcess
      /\ ideal' = [l \in LBAs |-> IF l \in inflight THEN media[l] ELSE ideal[l]]
  BY DEF AbortAndReplay
<1>2. TypeOK /\ Real /\ hist_idx \in Ring
  BY DEF Cycle, Sound, Base
<1>3. /\ UNCHANGED <<block_desc, hist_desc, hist_idx, media>>
      /\ \A j \in Jobs, s \in Slots : bio'[j][s] = NoBio
  BY <1>1 DEF NewProcess
<1>4. ReadMedia'
  BY <1>3 DEF ReadMedia, FromMedia, NoBio
<1>5. ASSUME NEW l \in LBAs, Lost(l)' PROVE \E i \in Ring : ToReport(i, l)'
  <2>1. l \in Noted /\ l # Oldest /\ media[l] # ideal'[l]
    BY <1>3, <1>5 DEF Lost, Noted, Oldest
  <2>2. l \notin inflight /\ media[l] # ideal[l]
    BY <1>1, <2>1
  <2>3. \A j \in Jobs, s \in Slots : ~Writes(bio[j][s], l)
    BY <2>2
  <2>4. PICK m \in Ring : hist_desc[m].lba = l
    BY <2>1 DEF Noted, Ring
  <2>5. PICK i \in Ring : NewestOf(i, l)
    BY <1>2, <2>4, NewestExists
  <2>6. HistGood(hist_desc[i].bd, l, ideal[l])
    BY <2>3, <2>5 DEF Told, Settled
  <2>7. hist_desc[i].bd.state = "data"
    <3>1. hist_desc[i].lba = l /\ l # -1
      BY <2>5, LbaFacts DEF NewestOf
    <3> QED BY <3>1 DEF DataOnly
  <2>8. VerifyBlockData(hist_desc[i].bd, l, ideal[l])
    BY <2>6, <2>7 DEF HistGood, Accepts
  <2>9. block_desc[l].state = "data" /\ VerifyBlockData(block_desc[l], l, ideal[l])
    <3>1. Describes(block_desc[l], l, ideal[l])
      BY <2>3 DEF Tracks
    <3>2. block_desc[l] \in BlockDescs /\ ideal[l] \in Contents /\ ideal[l].kind = "data"
      BY <1>2, <2>8 DEF TypeOK, VerifyBlockData
    <3> QED BY <3>1, <3>2, DataDescribed
  <2>10. Rejects(hist_desc[i].bd, l) /\ Rejects(block_desc[l], l)
    BY <1>2, <2>2, <2>7, <2>8, <2>9, LostIsRejected DEF Visible
  <2>11. Rejects(hist_desc[i].bd, l)' /\ Rejects(block_desc[l], l)'
    BY <1>3, <2>10 DEF Rejects
  <2>12. Due(i, l)'
    BY <1>2, <2>1, <2>5, StartDue
  <2> QED BY <2>11, <2>12 DEF ToReport
<1> QED BY <1>4, <1>5 DEF Reporting
-----------------------------------------------------------------------------
(* The replay. *)
LEMMA OneReadMedia ==
  ASSUME ReadMedia, UNCHANGED media, NEW j \in Jobs, NEW s \in Slots, Others(j, s),
         FromMedia(bio[j][s])'
  PROVE  ReadMedia'
<1> SUFFICES ASSUME NEW k \in Jobs, NEW t \in Slots PROVE FromMedia(bio[k][t])'
  BY DEF ReadMedia
<1>1. CASE k = j /\ t = s
  BY <1>1
<1>2. CASE k # j \/ t # s
  BY <1>2 DEF Others, ReadMedia, FromMedia
<1> QED BY <1>1, <1>2

LEMMA SameReporting ==
  ASSUME Reporting, UNCHANGED <<media, ideal, block_desc, hist_desc, hist_idx>>,
         result # 0 => result' # 0,
         \A l \in LBAs, i \in Ring : Due(i, l) => Due(i, l)'
  PROVE  Reporting'
<1>1. Oldest' = Oldest /\ \A l \in LBAs : Lost(l)' <=> Lost(l)
  BY DEF Lost, Noted, Oldest
<1>2. \A l \in LBAs, i \in Ring : ToReport(i, l) => ToReport(i, l)'
  BY DEF ToReport, Rejects
<1> QED BY <1>1, <1>2 DEF Reporting

LEMMA TryReporting ==
  ASSUME Cycle, phase = "replay", ReadMedia, Reporting, NEW j \in Jobs, NEW s \in Slots,
         ReplayTry(j, s)
  PROVE  ReadMedia' /\ Reporting'
<1>1. UNCHANGED <<media, ideal, block_desc, hist_desc, hist_idx, result>>
  BY DEF ReplayTry
<1>2. Sound /\ TypeOK
  BY DEF Cycle, Sound, Base
<1>3. Entry.lba # -1 /\ (TryTakes(j, s) \/ TryFails)
  BY <1>2, TryStep
<1>4. ReadMedia'
  <2>1. CASE TryTakes(j, s)
    <3>1. Takes(j, s, "read", EntryRange) /\ EntryRange \in Lock!Ranges /\ "read" \in Opcodes \ {"flush"}
      BY <1>2, <1>3, <2>1, EntryFacts DEF TryTakes, Opcodes
    <3>2. Others(j, s) /\ bio'[j][s].stage \in {"count", "enqueue"}
      BY <1>2, <3>1, GenerateBio
    <3>3. FromMedia(bio[j][s])'
      BY <3>2 DEF FromMedia
    <3> QED BY <1>1, <3>2, <3>3, OneReadMedia
  <2>2. CASE TryFails
    BY <1>1, <2>2 DEF TryFails, vars, ReadMedia, FromMedia
  <2> QED BY <1>3, <2>1, <2>2
<1>5. Reporting'
  BY <1>1, TryDue, SameReporting
<1> QED BY <1>4, <1>5

LEMMA FlowReporting ==
  ASSUME Cycle, phase = "replay", ReadMedia, Reporting, NEW j \in Jobs, NEW s \in Slots,
         ReplayEnd(j, s) \/ ReplayFlow(j, s)
  PROVE  ReadMedia' /\ Reporting'
<1> DEFINE b == bio[j][s]
           c == bio'[j][s]
<1>1. /\ UNCHANGED <<media, ideal, block_desc, hist_desc, hist_idx, result>>
      /\ \A l \in LBAs, i \in Ring : Due(i, l) => Due(i, l)'
  BY EndDue
<1>2. TypeOK /\ Shapes /\ b \in Bios /\ BioShape(b) /\ FromMedia(b)
  BY DEF Cycle, Sound, Base, TypeOK, Shapes, ReadMedia
<1>3. CASE ReplayEnd(j, s)
  <2>1. TakesFlush(j, s)
    BY <1>3, EndStep
  <2>2. Others(j, s) /\ c.op = "flush"
    BY <1>2, <2>1, GenerateFlushBio
  <2>3. FromMedia(bio[j][s])'
    BY <2>2 DEF FromMedia
  <2> QED BY <1>1, <2>2, <2>3, OneReadMedia, SameReporting
<1>4. CASE ReplayFlow(j, s) /\ Enqueue(j, s)
  <2>1. Others(j, s) /\ Same(b, c) /\ b.stage = "enqueue" /\ c.todo = b.todo
    BY <1>2, <1>4, EnqueueBio
  <2>2. b.todo = Span(b)
    BY <1>2, <2>1 DEF BioShape
  <2> HIDE DEF b, c
  <2>3. Span(c) \ c.todo = {}
    BY <2>1, <2>2 DEF Same, Span
  <2>4. FromMedia(bio[j][s])'
    BY <2>3 DEF FromMedia, c
  <2> QED BY <1>1, <2>1, <2>4, OneReadMedia, SameReporting
<1>5. CASE ReplayFlow(j, s) /\ Complete(j, s)
  <2>1. /\ Others(j, s) /\ Same(b, c) /\ b.stage = "flight"
        /\ b.todo = {} /\ c.todo = {} /\ c.data = b.data
    BY <1>2, <1>5, CompleteBio
  <2> HIDE DEF b, c
  <2>2. Span(c) = Span(b) /\ c.op = b.op
    BY <2>1 DEF Same, Span
  <2>3. FromMedia(bio[j][s])'
    BY <1>1, <1>2, <2>1, <2>2 DEF FromMedia, c
  <2> QED BY <1>1, <2>1, <2>3, OneReadMedia, SameReporting
<1>6. CASE ReplayFlow(j, s) /\ b.op = "flush" /\ Submit(j, s)
  <2>1. bio' = bio \/ (Others(j, s) /\ c = NoBio)
    BY <1>2, <1>6, SubmitBio
  <2>2. bio' = bio => ReadMedia'
    BY <1>1 DEF ReadMedia, FromMedia
  <2>3. c = NoBio => FromMedia(bio[j][s])'
    BY DEF FromMedia, NoBio
  <2> QED BY <1>1, <2>1, <2>2, <2>3, OneReadMedia, SameReporting
<1> QED BY <1>3, <1>4, <1>5, <1>6 DEF ReplayFlow

LEMMA ReturnReporting ==
  ASSUME Cycle, phase = "replay", ReadMedia, Reporting, DeviceRuns
  PROVE  ReadMedia' /\ Reporting'
<1>1. Base /\ TypeOK /\ ReplayBios /\ Device
  BY DEF Cycle, Sound, Base, Replaying, DeviceRuns
<1>2. /\ UNCHANGED <<media, ideal, block_desc, hist_desc, hist_idx>>
      /\ \A l \in LBAs, i \in Ring : Due(i, l) => Due(i, l)'
  BY ReturnDue
<1>3. UNCHANGED result
  <2>1. PICK j \in Jobs, s \in Slots, l \in LBAs :
          \/ ExecuteWrite(j, s, l) \/ ExecuteRead(j, s, l)
          \/ LoseWrite(j, s, l) \/ \E m \in LBAs : MisdirectRead(j, s, l, m)
    BY <1>1 DEF Device
  <2> QED BY <2>1 DEF ExecuteWrite, ExecuteRead, LoseWrite, MisdirectRead
<1>4. PICK j \in Jobs, s \in Slots, l \in LBAs : \E m \in LBAs : Returns(j, s, l, m)
  BY <1>1, ReplayReturns
<1>5. PICK m \in LBAs : Returns(j, s, l, m)
  BY <1>4
<1> DEFINE b == bio[j][s]
           c == bio'[j][s]
<1>6. /\ Others(j, s) /\ Same(b, c) /\ b.stage = "flight" /\ b.op = "read"
      /\ c.todo = b.todo \ {l} /\ c.data = [b.data EXCEPT ![l] = media[m]]
  BY <1>1, <1>5, ReturnBio
<1>7. b \in Bios /\ BioShape(b) /\ FromMedia(b)
  BY <1>1 DEF TypeOK, Base, Shapes, ReadMedia
<1> HIDE DEF b, c
<1>8. ASSUME NEW x \in Span(c) \ c.todo PROVE \E n \in LBAs : c.data[x] = media[n]
  <2>1. x \in Span(b) /\ x \in LBAs
    <3>1. Span(c) = Span(b)
      BY <1>6 DEF Same, Span
    <3> QED BY <1>7, <1>8, <3>1, LbaFacts DEF BioShape
  <2>2. b.data \in [LBAs -> Contents]
    BY <1>7 DEF Bios
  <2>3. CASE x = l
    BY <1>6, <2>1, <2>2, <2>3
  <2>4. CASE x # l
    BY <1>6, <1>7, <1>8, <2>1, <2>2, <2>4 DEF FromMedia
  <2> QED BY <2>3, <2>4
<1>9. FromMedia(bio[j][s])'
  BY <1>2, <1>8 DEF FromMedia, c
<1> QED BY <1>2, <1>3, <1>6, <1>9, OneReadMedia, SameReporting

(* verify_hist_read of a lost block: neither the descriptor nor the last   *)
(* entry accepts what was read, so the read is reported.                   *)
LEMMA SubmitReporting ==
  ASSUME Cycle, Readable, phase = "replay", ReadMedia, Reporting,
         NEW j \in Jobs, NEW s \in Slots, ReplaySubmit(j, s)
  PROVE  ReadMedia' /\ Reporting'
<1> DEFINE b == bio[j][s]
<1>1. /\ b.stage = "submit" /\ b.op = "read"
      /\ block_desc' = [l \in LBAs |-> Fixed(s, b, l)]
      /\ UNCHANGED <<media, ideal, hist_desc, hist_idx>>
      /\ bio' = bio \/ (Others(j, s) /\ bio'[j][s] = NoBio)
  BY ReplaySubmitBio DEF Cycle
<1>2. /\ result # 0 => result' # 0
      /\ ReplayMiscompare(s, b) => result' # 0
  BY DEF ReplaySubmit
<1>3. ReadMedia'
  <2>1. bio' = bio => ReadMedia'
    BY <1>1 DEF ReadMedia, FromMedia
  <2>2. bio'[j][s] = NoBio => FromMedia(bio[j][s])'
    BY DEF FromMedia, NoBio
  <2> QED BY <1>1, <2>1, <2>2, OneReadMedia
<1>4. b.slba \in LBAs /\ b.todo = {} /\ Span(b) = {b.slba}
  BY <1>1, ReplaySpan
<1>5. FromMedia(b)
  BY DEF ReadMedia
<1> HIDE DEF b
<1> SUFFICES ASSUME NEW l \in LBAs, Oldest' # -1, Lost(l)', ~(result' # 0)
             PROVE  \E i \in Ring : ToReport(i, l)'
  BY <1>3 DEF Reporting
<1>6. Oldest # -1 /\ Lost(l) /\ ~(result # 0)
  BY <1>1, <1>2 DEF Oldest, Lost, Noted
<1>7. PICK i \in Ring : ToReport(i, l)
  BY <1>6 DEF Reporting
<1>8. l # b.slba
  <2> SUFFICES ASSUME l = b.slba PROVE FALSE
    OBVIOUS
  <2>1. PICK m \in LBAs : b.data[l] = media[m]
    BY <1>1, <1>4, <1>5 DEF FromMedia
  <2>2. ~Failed(b)
    BY <1>4, <2>1 DEF Failed, Readable
  <2>3. ~Accepts(block_desc[l], l, b.data[l])
    BY <1>7, <2>1 DEF ToReport, Rejects, Accepts
  <2>4. Miscompare(b)
    BY <1>1, <1>4, <2>2, <2>3 DEF Miscompare
  <2>5. bio_hist[s] = i
    BY <1>1, <1>7 DEF ToReport, Due, Reading, b
  <2>6. ~HistAccepts(s, l, b.data[l])
    BY <1>7, <2>1, <2>5 DEF ToReport, Rejects, HistAccepts, Accepts
  <2>7. ReplayMiscompare(s, b)
    BY <1>4, <2>4, <2>6 DEF ReplayMiscompare
  <2> QED BY <1>2, <2>7
<1>9. Due(i, l)'
  BY <1>7, <1>8, SubmitDue DEF ToReport, b
<1>10. block_desc'[l] = block_desc[l]
  BY <1>1, <1>4, <1>8 DEF Fixed
<1>11. Rejects(hist_desc[i].bd, l)' /\ Rejects(block_desc[l], l)'
  BY <1>1, <1>7, <1>10 DEF ToReport, Rejects
<1> QED BY <1>9, <1>11 DEF ToReport

(* When every entry has been read and verified, the losses are reported.   *)
LEMMA EndReported ==
  ASSUME Cycle, Reporting, JobEnd \/ MainReturns
  PROVE  LossReported'
<1>1. /\ phase = "replay" /\ state # "running" /\ UNCHANGED vars /\ phase' = "ended"
  BY DEF JobEnd, MainReturns
<1>2. TypeOK /\ hist_idx \in Ring /\ Filled
  BY DEF Cycle, Sound, Base
<1>3. UNCHANGED <<bio, hist_desc, hist_idx, media, ideal, result>>
  BY <1>1 DEF vars
<1> SUFFICES ASSUME ReplayVerified', Oldest' # -1, NEW m \in 0 .. NHist - 1,
                    hist_desc'[m].lba # Oldest',
                    media'[hist_desc'[m].lba] # ideal'[hist_desc'[m].lba]
             PROVE  result' # 0
  BY DEF LossReported
<1> DEFINE l == hist_desc[m].lba
<1>4. \A j \in Jobs, s \in Slots : bio[j][s].stage = "free"
  BY <1>1, <1>3 DEF ReplayVerified
<1>5. Oldest # -1 /\ m \in Ring
  BY <1>3 DEF Oldest, Ring
<1>6. Full
  BY <1>2, <1>5, FullRing
<1>7. l \in LBAs
  BY <1>2, <1>5, <1>6 DEF TypeOK, HistDescs, Full, Ring
<1>8. Lost(l)
  BY <1>3 DEF Lost, Noted, Oldest
<1> HIDE DEF l
<1>9. result # 0 \/ \E i \in Ring : ToReport(i, l)
  BY <1>5, <1>7, <1>8 DEF Reporting
<1>10. \A i \in Ring : ~ToReport(i, l)
  BY <1>1, <1>4, <1>6, <1>7, EndNotDue DEF ToReport
<1> QED BY <1>3, <1>9, <1>10
-----------------------------------------------------------------------------
LEMMA InitLoss == SpoInit => LossInv
<1> SUFFICES ASSUME SpoInit PROVE LossInv
  OBVIOUS
<1>1. Init /\ phase = "io" /\ Cycle /\ Readable
  BY InitCycle, InitReadable DEF SpoInit
<1>2. Tracks
  BY <1>1, InitInv DEF Inv
<1>3. \A i \in Ring : hist_desc[i].lba = -1
  BY <1>1 DEF Init, NoHist, Ring
<1>4. Told
  BY <1>3, LbaFacts DEF Told, NewestOf
<1>5. DataOnly
  BY <1>1, <1>3 DEF DataOnly, Init, NoBio
<1>6. Placed
  BY <1>1 DEF Placed, Init, Plain
<1> QED BY <1>1, <1>2, <1>4, <1>5, <1>6 DEF LossInv, First

LEMMA NextFirst ==
  ASSUME Visible
  PROVE  LossInv /\ [SpoNext]_allVars => (FirstCut' => First')
<1> SUFFICES ASSUME LossInv, [SpoNext]_allVars, FirstCut' PROVE First'
  OBVIOUS
<1>1. Cycle /\ Readable /\ DataOnly /\ Placed /\ (phase = "io" \/ cuts # 0) /\ (FirstCut => First)
  BY DEF LossInv
<1>2. Sound /\ Base /\ Foretold /\ cuts \in Nat
  BY <1>1, CutsAssumption DEF Cycle, Sound, CycleTypes
<1>3. CASE UNCHANGED allVars
  <2>1. UNCHANGED <<phase, cuts, block_desc, ideal, media, hist_desc, hist_idx, result,
                    replay_cnt, bio_hist, bio>>
    BY <1>3 DEF allVars, vars, spoVars
  <2>2. First
    BY <1>1, <2>1 DEF FirstCut
  <2>3. Tracks /\ Told => Tracks' /\ Told'
    BY <2>1, SameRing DEF Tracks, Told, Settled
  <2>4. \A l \in LBAs, i \in Ring : Due(i, l) => Due(i, l)'
    BY <2>1, SameDue DEF Reading
  <2>5. ReadMedia /\ Reporting => ReadMedia' /\ Reporting'
    BY <2>1, <2>4, SameReporting DEF ReadMedia, FromMedia
  <2>6. LossReported => LossReported'
    BY <2>1 DEF LossReported, ReplayVerified, Oldest
  <2> QED BY <2>1, <2>2, <2>3, <2>5, <2>6 DEF First
<1>4. CASE Work
  <2>1. UNCHANGED <<phase, cuts>> /\ phase \in {"io", "off"}
    BY <1>4 DEF Work, spoVars
  <2>2. PICK j \in Jobs, s \in Slots :
          \/ \E op \in Ops, r \in Lock!Ranges : Generate(j, s, op, r)
          \/ Count(j, s) \/ Stamp(j, s) \/ Enqueue(j, s)
          \/ Complete(j, s) \/ Submit(j, s)
    BY <1>4 DEF Work
  <2>3. Tracks /\ Told
    BY <1>1, <2>1 DEF FirstCut, First
  <2>4. Tracks'
    BY <1>2, <2>2, <2>3, GenerateTakes, OneJobAlone, GenerateInv, CountInv, StampInv, EnqueueInv, CompleteInv, SubmitInv
  <2>5. Told'
    BY <1>2, <2>2, <2>3, JobTold
  <2> QED BY <2>1, <2>4, <2>5 DEF First
<1>5. CASE DeviceRuns
  <2>1. UNCHANGED <<phase, cuts>> /\ phase \in {"io", "replay"} /\ Device
    BY <1>5 DEF DeviceRuns, spoVars
  <2>2. First
    BY <1>1, <2>1 DEF FirstCut
  <2>3. CASE phase = "io"
    <3>1. Tracks' /\ Told'
      BY <1>2, <2>1, <2>2, <2>3, DeviceInv, DeviceTold DEF First
    <3> QED BY <2>1, <2>3, <3>1 DEF First
  <2>4. CASE phase = "replay"
    <3>1. ReadMedia' /\ Reporting'
      BY <1>1, <1>5, <2>2, <2>4, ReturnReporting DEF First
    <3> QED BY <2>1, <2>4, <3>1 DEF First
  <2> QED BY <2>1, <2>3, <2>4
<1>6. CASE PowerOff
  <2>1. phase = "io" /\ phase' = "off" /\ cuts' = cuts + 1 /\ UNCHANGED vars
    BY <1>6 DEF PowerOff
  <2>2. cuts = 0
    BY <1>2, <2>1 DEF FirstCut
  <2>3. Tracks /\ Told
    BY <1>1, <2>1, <2>2 DEF FirstCut, First
  <2>4. UNCHANGED <<block_desc, ideal, hist_desc, hist_idx, bio>>
    BY <2>1 DEF vars
  <2>5. Tracks' /\ Told'
    BY <2>3, <2>4, SameRing DEF Tracks, Told, Settled
  <2> QED BY <2>1, <2>5 DEF First
<1>7. CASE AbortAndReplay
  <2>1. phase = "off" /\ phase' = "replay" /\ cuts' = cuts
    BY <1>7 DEF AbortAndReplay
  <2>2. Tracks /\ Told
    BY <1>1, <2>1 DEF FirstCut, First
  <2>3. ReadMedia' /\ Reporting'
    BY <1>1, <1>7, <2>2, StartReporting
  <2> QED BY <2>1, <2>3 DEF First
<1>8. CASE JobEnd \/ MainReturns
  <2>1. phase = "replay" /\ phase' = "ended" /\ cuts' = cuts
    BY <1>8 DEF JobEnd, MainReturns
  <2>2. Reporting
    BY <1>1, <2>1 DEF FirstCut, First
  <2>3. LossReported'
    BY <1>1, <1>8, <2>2, EndReported
  <2> QED BY <2>1, <2>3 DEF First
<1>9. CASE NextCycle
  <2>1. phase = "ended" /\ phase' = "io" /\ cuts' = cuts
    BY <1>9 DEF NextCycle
  <2> QED BY <1>1, <2>1 DEF FirstCut
<1>10. ASSUME NEW j \in Jobs, NEW s \in Slots,
              ReplayTry(j, s) \/ ReplayEnd(j, s) \/ ReplayFlow(j, s) \/ ReplaySubmit(j, s)
       PROVE  First'
  <2>1. phase = "replay" /\ phase' = "replay" /\ cuts' = cuts
    BY <1>10 DEF ReplayTry, ReplayEnd, ReplayFlow, ReplaySubmit, spoVars
  <2>2. ReadMedia /\ Reporting
    BY <1>1, <2>1 DEF FirstCut, First
  <2>3. ReadMedia' /\ Reporting'
    BY <1>1, <1>10, <2>1, <2>2, TryReporting, FlowReporting, SubmitReporting
  <2> QED BY <2>1, <2>3 DEF First
<1> QED BY <1>3, <1>4, <1>5, <1>6, <1>7, <1>8, <1>9, <1>10 DEF SpoNext

LEMMA NextCut == Sound /\ (phase = "io" \/ cuts # 0) /\ [SpoNext]_allVars => (phase = "io" \/ cuts # 0)'
<1> SUFFICES ASSUME Sound, phase = "io" \/ cuts # 0, [SpoNext]_allVars
             PROVE  phase' = "io" \/ cuts' # 0
  OBVIOUS
<1>1. cuts \in Nat
  BY CutsAssumption DEF Sound, CycleTypes
<1>2. CASE UNCHANGED allVars \/ Work \/ DeviceRuns
  <2>1. UNCHANGED <<phase, cuts>>
    BY <1>2 DEF allVars, Work, DeviceRuns, spoVars
  <2> QED BY <2>1
<1>3. CASE PowerOff
  BY <1>1, <1>3 DEF PowerOff
<1>4. CASE AbortAndReplay \/ JobEnd \/ MainReturns \/ NextCycle
  BY <1>4 DEF AbortAndReplay, JobEnd, MainReturns, NextCycle
<1>5. ASSUME NEW j \in Jobs, NEW s \in Slots,
             ReplayTry(j, s) \/ ReplayEnd(j, s) \/ ReplayFlow(j, s) \/ ReplaySubmit(j, s)
      PROVE  UNCHANGED <<phase, cuts>>
  BY <1>5 DEF ReplayTry, ReplayEnd, ReplayFlow, ReplaySubmit, spoVars
<1> QED BY <1>2, <1>3, <1>4, <1>5 DEF SpoNext

(* A loss is reported: when the first replay over a full ring has run to   *)
(* its end, verify_hist_read has set the result for every block of the     *)
(* ring whose acknowledged write the device lost, except the block of the  *)
(* oldest entry, which is read first.  Neither an older entry that accepts *)
(* the old content, nor the order in which the reads return, nor a read    *)
(* that returns another block can hide it.                                 *)
THEOREM LossIsReported ==
  ASSUME Visible
  PROVE  SpoSpec => []LossReported
<1>1. SpoInit => LossInv
  BY InitLoss
<1>2. LossInv /\ [SpoNext]_allVars => LossInv'
  <2> SUFFICES ASSUME LossInv, [SpoNext]_allVars PROVE LossInv'
    OBVIOUS
  <2>1. "write_uncorrect" \notin Ops
    BY DEF Visible
  <2>2. Cycle /\ Sound /\ Readable /\ DataOnly /\ Placed /\ (phase = "io" \/ cuts # 0)
    BY DEF LossInv, Cycle
  <2>3. Cycle' /\ Readable' /\ DataOnly' /\ Placed' /\ (phase' = "io" \/ cuts' # 0)
    BY <2>1, <2>2, NextCycleKept, NextReadable, NextWrites, NextCut
  <2> QED BY <2>3, NextFirst DEF LossInv
<1>3. LossInv => LossReported
  BY DEF LossInv, First, FirstCut, LossReported
<1> QED BY <1>1, <1>2, <1>3, PTL DEF SpoSpec
=============================================================================
