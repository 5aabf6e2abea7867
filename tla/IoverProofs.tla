----------------------------- MODULE IoverProofs -----------------------------
(* Proofs about Iover, for every number of jobs, bios and LBAs, every      *)
(* opcode, timestamp width and number of device faults.                    *)
EXTENDS Iover, WellFoundedInduction, TLAPS

(* What a bio is at each stage of its life. *)
BioShape(b) ==
  /\ b.slba + b.nlbs <= NLbas
  /\ b.op \in {"none", "flush"} => b.nlbs = 0
  /\ b.op \notin {"none", "flush"} => Range(b) \in Lock!Ranges
  /\ b.stage = "free" <=> b.op = "none"
  /\ b.stage \in {"count", "stamp"} => b.op = "write"
  /\ b.stage = "count" => b.ts < MaxTs
  /\ b.todo \subseteq Span(b)
  /\ b.stage = "stamp" => b.todo # {}
  /\ b.stage \in {"count", "enqueue"} => b.todo = Span(b)
  /\ b.stage = "submit" => b.todo = {}
Shapes == \A j \in Jobs, s \in Slots : BioShape(bio[j][s])

(* The commands of a job stay in its LBAs, and all are apart.              *)
Owned == \A j \in Jobs, s \in Slots : Span(bio[j][s]) \subseteq JobLbas[j]
Disjoint ==
  \A j, k \in Jobs, s, t \in Slots :
    k # j \/ t # s => Span(bio[j][s]) \cap Span(bio[k][t]) = {}

(* The LBAs of a bio are locked until its completion is handled. *)
LockKept ==
  \A j \in Jobs, s \in Slots :
    bio[j][s].stage \in {"count", "stamp", "enqueue", "flight"} /\ bio[j][s].op # "flush"
      => Range(bio[j][s]) \in locked[j]

(* A write carries a header for each of its blocks that is prepared. *)
Prepared(b) ==
  CASE b.op # "write" \/ b.stage \in {"free", "count"} -> {}
    [] b.stage = "stamp" -> Span(b) \ b.todo
    [] OTHER -> Span(b)
IsStamp(c, l) == c.kind = "data" /\ c.lba = l /\ c.ts # 0
Stamped ==
  \A j \in Jobs, s \in Slots :
    /\ bio[j][s].stage = "stamp" => timestamp # 0
    /\ \A l \in Prepared(bio[j][s]) : IsStamp(bio[j][s].data[l], l)

(* A correct device holds what the executed blocks of a command leave. *)
Executed ==
  \A j \in Jobs, s \in Slots : \A l \in LBAs :
    Writes(bio[j][s], l) /\ l \notin bio[j][s].todo => ideal[l] = Effect(bio[j][s], l)

(* The journal, and what a correct device holds where it says nothing.     *)
Unwritten == Plain(IF UnwrRead = "ones" THEN "ones" ELSE "zeroes")
Describes(d, l, c) ==
  Matches(d, l, c) /\ (d.state = "unwritten" => c = Unwritten)
Tracks ==
  \A l \in LBAs :
    (\A j \in Jobs, s \in Slots : ~Writes(bio[j][s], l))
      => Describes(block_desc[l], l, ideal[l])

(* No header carries timestamp 0, the descriptor of an untouched block. *)
IsReal(c) == c.kind = "data" => c.ts # 0
Real ==
  /\ \A l \in LBAs : IsReal(media[l]) /\ IsReal(ideal[l])
  /\ \A j \in Jobs, s \in Slots : \A l \in LBAs : IsReal(bio[j][s].data[l])

(* The bios, the locks and the device by themselves, and with the journal. *)
(* All but the types needs CommitAlone.                                    *)
Base == TypeOK /\ Shapes /\ Owned /\ Disjoint /\ LockKept /\ Stamped /\ Executed /\ Real
Inv == Base /\ Tracks

-----------------------------------------------------------------------------
LEMMA LbaFacts ==
  /\ 0 \in LBAs /\ LBAs \subseteq Nat
  /\ \A b \in Bios : b.slba + b.nlbs <= NLbas => Span(b) \subseteq LBAs
<1>1. NLbas \in Nat \ {0}
  BY SizesAssumption
<1>2. 0 \in LBAs /\ LBAs \subseteq Nat
  BY <1>1 DEF LBAs
<1>3. ASSUME NEW b \in Bios, b.slba + b.nlbs <= NLbas
      PROVE  Span(b) \subseteq LBAs
  BY <1>1, <1>3 DEF LBAs, Span, Bios
<1> QED BY <1>2, <1>3

LEMMA RangeFacts ==
  ASSUME NEW r \in Lock!Ranges
  PROVE  /\ r.slba \in LBAs /\ r.nlbs \in 1 .. NLbas /\ r.slba + r.nlbs <= NLbas
         /\ r = [slba |-> r.slba, nlbs |-> r.nlbs]
         /\ Span(r) \subseteq LBAs /\ Span(r) # {}
         /\ Lock!Span(r) = Span(r)
<1>1. r \in [slba : 0 .. NLbas - 1, nlbs : IoSizes] /\ r.slba + r.nlbs <= NLbas
  BY DEF Lock!Ranges
<1>2. r.slba \in LBAs /\ r.nlbs \in IoSizes /\ r = [slba |-> r.slba, nlbs |-> r.nlbs]
  BY <1>1 DEF LBAs
<1>3. r.nlbs \in 1 .. NLbas
  BY <1>2, SizesAssumption
<1>4. Span(r) \subseteq LBAs /\ r.slba \in Span(r)
  BY <1>1, <1>2, <1>3, SizesAssumption DEF LBAs, Span
<1> QED BY <1>1, <1>2, <1>3, <1>4 DEF Span, Lock!Span

LEMMA ContentFacts ==
  /\ \A k \in {"zeroes", "ones", "uncor"} : Plain(k) \in Contents
  /\ \A l \in LBAs, ts \in 0 .. MaxTs : Data(l, ts) \in Contents
<1>1. 0 \in LBAs /\ 0 \in 0 .. MaxTs
  BY LbaFacts, NumbersAssumption
<1> QED BY <1>1 DEF Plain, Data, Contents

LEMMA NoBioType == NoBio \in Bios
<1>1. 0 \in LBAs /\ 0 \in 0 .. MaxTs /\ 0 \in 0 .. NLbas /\ Plain("zeroes") \in Contents
  BY LbaFacts, NumbersAssumption, SizesAssumption, ContentFacts
<1> QED BY <1>1 DEF NoBio, Bios, Stages

LEMMA NatOrder == IsWellFoundedOn({p \in Nat \X Nat : p[1] < p[2]}, Nat)
  BY NatLessThanWellFounded, Zenon DEF OpToRel

(* A non-empty set of LBAs has a least element: the one Stamp takes.       *)
LEMMA Least ==
  ASSUME NEW S \in SUBSET LBAs, S # {}
  PROVE  LET l == CHOOSE x \in S : \A y \in S : x <= y
         IN  l \in S /\ \A y \in S : l <= y
<1> DEFINE R == {p \in Nat \X Nat : p[1] < p[2]}
<1>1. S \subseteq Nat /\ IsWellFoundedOn(R, Nat)
  BY LbaFacts, NatOrder
<1> HIDE DEF R
<1>2. PICK x \in S : \A y \in S : ~(<<y, x>> \in R)
  BY <1>1, WFMin
<1>3. ASSUME NEW y \in S PROVE x <= y
  <2>1. ~(<<y, x>> \in R) /\ x \in Nat /\ y \in Nat
    BY <1>1, <1>2
  <2>2. ~(y < x)
    BY <2>1 DEF R
  <2> QED BY <2>1, <2>2
<1> QED BY <1>3
-----------------------------------------------------------------------------
(* A step that changes one bio leaves the others alone. *)
Others(j, s) == \A k \in Jobs, t \in Slots : k # j \/ t # s => bio'[k][t] = bio[k][t]

LEMMA BioUpdate ==
  ASSUME TypeOK, NEW j \in Jobs, NEW s \in Slots, NEW b \in Bios,
         bio' = [bio EXCEPT ![j][s] = b]
  PROVE  bio' \in [Jobs -> [Slots -> Bios]] /\ bio'[j][s] = b /\ Others(j, s)
  BY DEF TypeOK, Others

(* Generate and GenerateFlush, whatever the operation lottery. *)
Takes(j, s, op, r) ==
  /\ Idle(j) /\ bio[j][s].stage = "free" /\ Span(r) \subseteq JobLbas[j]
  /\ Lock!Acquire(j, r)
  /\ op = "write" => timestamp < MaxTs
  /\ bio' = [bio EXCEPT ![j][s] =
       [NoBio EXCEPT !.stage = IF op = "write" THEN "count" ELSE "enqueue",
                     !.op = op, !.slba = r.slba, !.nlbs = r.nlbs, !.todo = Span(r),
                     !.ts = IF op = "write" THEN timestamp ELSE 0]]
  /\ UNCHANGED <<media, ideal, faults, timestamp, block_desc, hist_desc, hist_idx,
                 result, exited>>
TakesFlush(j, s) ==
  /\ Idle(j) /\ bio[j][s].stage = "free"
  /\ bio' = [bio EXCEPT ![j][s] = [NoBio EXCEPT !.stage = "enqueue", !.op = "flush"]]
  /\ UNCHANGED <<media, ideal, faults, timestamp, block_desc, hist_desc, hist_idx,
                 locked, result, exited>>

LEMMA GenerateTakes ==
  ASSUME NEW j \in Jobs, NEW s \in Slots
  PROVE  /\ \A op \in Ops, r \in Lock!Ranges :
              Generate(j, s, op, r) => op \in Opcodes \ {"flush"} /\ Takes(j, s, op, r)
         /\ GenerateFlush(j, s) => TakesFlush(j, s)
  BY OpsAssumption DEF Generate, GenerateFlush, Takes, TakesFlush

(* What each action makes of its bio. *)
LEMMA GenerateBio ==
  ASSUME TypeOK, NEW j \in Jobs, NEW s \in Slots, NEW op \in Opcodes \ {"flush"},
         NEW r \in Lock!Ranges, Takes(j, s, op, r)
  PROVE  LET c == bio'[j][s] IN
         /\ bio' \in [Jobs -> [Slots -> Bios]] /\ Others(j, s)
         /\ c.stage = IF op = "write" THEN "count" ELSE "enqueue"
         /\ c.op = op /\ c.slba = r.slba /\ c.nlbs = r.nlbs
         /\ c.todo = Span(r) /\ c.data = NoBio.data
         /\ c.ts = IF op = "write" THEN timestamp ELSE 0
         /\ (op = "write" => timestamp < MaxTs)
         /\ Span(c) = Span(r) /\ Range(c) = r
<1> DEFINE c == [NoBio EXCEPT !.stage = IF op = "write" THEN "count" ELSE "enqueue",
                     !.op = op, !.slba = r.slba, !.nlbs = r.nlbs, !.todo = Span(r),
                     !.ts = IF op = "write" THEN timestamp ELSE 0]
<1>1. /\ r.slba \in LBAs /\ r.nlbs \in 0 .. NLbas /\ Span(r) \subseteq LBAs
      /\ r = [slba |-> r.slba, nlbs |-> r.nlbs]
  BY RangeFacts, SizesAssumption
<1>2. op \in Opcodes /\ timestamp \in 0 .. MaxTs /\ 0 \in 0 .. MaxTs
  BY NumbersAssumption DEF TypeOK
<1>3. c \in Bios
  BY <1>1, <1>2, NoBioType DEF Bios, Stages
<1>4. /\ c.stage = IF op = "write" THEN "count" ELSE "enqueue"
      /\ c.op = op /\ c.slba = r.slba /\ c.nlbs = r.nlbs
      /\ c.todo = Span(r) /\ c.ts = IF op = "write" THEN timestamp ELSE 0
      /\ c.data = NoBio.data
  BY NoBioType DEF Bios
<1> HIDE DEF c
<1>5. bio' = [bio EXCEPT ![j][s] = c]
  BY DEF Takes, c
<1>6. bio' \in [Jobs -> [Slots -> Bios]] /\ bio'[j][s] = c /\ Others(j, s)
  BY <1>3, <1>5, BioUpdate
<1>7. Span(c) = Span(r) /\ Range(c) = r
  BY <1>1, <1>4 DEF Span, Range
<1>8. op = "write" => timestamp < MaxTs
  BY DEF Takes
<1> QED BY <1>4, <1>6, <1>7, <1>8

LEMMA GenerateFlushBio ==
  ASSUME TypeOK, NEW j \in Jobs, NEW s \in Slots, TakesFlush(j, s)
  PROVE  LET c == bio'[j][s] IN
         /\ bio' \in [Jobs -> [Slots -> Bios]] /\ Others(j, s)
         /\ c.stage = "enqueue" /\ c.op = "flush" /\ c.slba = 0 /\ c.nlbs = 0
         /\ c.todo = {} /\ c.data = NoBio.data
<1> DEFINE c == [NoBio EXCEPT !.stage = "enqueue", !.op = "flush"]
<1>1. c \in Bios
  BY NoBioType DEF Bios, Stages, Opcodes
<1>0. NoBio.slba = 0 /\ NoBio.nlbs = 0 /\ NoBio.todo = {}
  BY DEF NoBio
<1>2. /\ c.stage = "enqueue" /\ c.op = "flush" /\ c.slba = 0 /\ c.nlbs = 0 /\ c.todo = {}
      /\ c.data = NoBio.data
  BY <1>0, NoBioType DEF Bios
<1> HIDE DEF c
<1>3. bio' = [bio EXCEPT ![j][s] = c]
  BY DEF TakesFlush, c
<1> QED BY <1>1, <1>2, <1>3, BioUpdate

(* The steps after that keep what the bio is about. *)
Same(b, c) == c.op = b.op /\ c.slba = b.slba /\ c.nlbs = b.nlbs

LEMMA CountBio ==
  ASSUME TypeOK, NEW j \in Jobs, NEW s \in Slots, Count(j, s)
  PROVE  LET b == bio[j][s]
             c == bio'[j][s] IN
         /\ bio' \in [Jobs -> [Slots -> Bios]] /\ Others(j, s) /\ Same(b, c)
         /\ b.stage = "count" /\ c.stage = "stamp" /\ c.ts = 0
         /\ c.todo = b.todo /\ c.data = b.data
<1> DEFINE b == bio[j][s]
           c == [b EXCEPT !.stage = "stamp", !.ts = 0]
<1>0. b \in Bios /\ 0 \in 0 .. MaxTs
  BY NumbersAssumption DEF TypeOK
<1>1. c \in Bios
  BY <1>0 DEF Bios, Stages
<1>2. /\ c.stage = "stamp" /\ c.ts = 0 /\ Same(b, c)
      /\ c.todo = b.todo /\ c.data = b.data
  BY <1>0 DEF Bios, Same
<1>3. bio' = [bio EXCEPT ![j][s] = c]
  BY DEF Count, TypeOK
<1>4. b.stage = "count"
  BY DEF Count
<1> HIDE DEF c
<1> QED BY <1>1, <1>2, <1>3, <1>4, BioUpdate

LEMMA StampBio ==
  ASSUME TypeOK, Shapes, NEW j \in Jobs, NEW s \in Slots, Stamp(j, s)
  PROVE  LET b == bio[j][s]
             c == bio'[j][s] IN
         /\ bio' \in [Jobs -> [Slots -> Bios]] /\ Others(j, s) /\ Same(b, c)
         /\ b.stage = "stamp" /\ c.ts = b.ts
         /\ \E l \in b.todo :
              /\ c.data = [b.data EXCEPT ![l] = Data(l, timestamp)]
              /\ c.todo = IF b.todo = {l} THEN Span(b) ELSE b.todo \ {l}
              /\ c.stage = IF b.todo = {l} THEN "enqueue" ELSE "stamp"
<1> DEFINE b == bio[j][s]
           l == CHOOSE x \in b.todo : \A y \in b.todo : x <= y
           c == [b EXCEPT !.data[l] = Data(l, timestamp),
                 !.todo = IF b.todo = {l} THEN Span(b) ELSE @ \ {l},
                 !.stage = IF b.todo = {l} THEN "enqueue" ELSE "stamp"]
<1>1. b \in Bios /\ timestamp \in 0 .. MaxTs
  BY DEF TypeOK
<1>2. b.stage = "stamp" /\ bio' = [bio EXCEPT ![j][s] = c]
  BY DEF Stamp
<1>3. BioShape(b)
  BY DEF Shapes
<1>4. b.todo \in SUBSET LBAs /\ b.todo # {} /\ Span(b) \subseteq LBAs
  BY <1>1, <1>2, <1>3, LbaFacts DEF BioShape, Bios
<1>5. l \in b.todo /\ l \in LBAs
  BY <1>4, Least
<1> HIDE DEF l
<1>6. Data(l, timestamp) \in Contents
  BY <1>1, <1>5, ContentFacts
<1>7. c \in Bios
  BY <1>1, <1>4, <1>5, <1>6 DEF Bios, Stages
<1>8. /\ Same(b, c) /\ c.ts = b.ts
      /\ c.data = [b.data EXCEPT ![l] = Data(l, timestamp)]
      /\ c.todo = IF b.todo = {l} THEN Span(b) ELSE b.todo \ {l}
      /\ c.stage = IF b.todo = {l} THEN "enqueue" ELSE "stamp"
  BY <1>1 DEF Bios, Same
<1> HIDE DEF c
<1>9. bio' \in [Jobs -> [Slots -> Bios]] /\ bio'[j][s] = c /\ Others(j, s)
  BY <1>2, <1>7, BioUpdate
<1> QED BY <1>2, <1>5, <1>8, <1>9

LEMMA EnqueueBio ==
  ASSUME TypeOK, NEW j \in Jobs, NEW s \in Slots, Enqueue(j, s)
  PROVE  LET b == bio[j][s]
             c == bio'[j][s] IN
         /\ bio' \in [Jobs -> [Slots -> Bios]] /\ Others(j, s) /\ Same(b, c)
         /\ b.stage = "enqueue" /\ c.stage = "flight" /\ c.ts = b.ts
         /\ c.todo = b.todo /\ c.data = b.data
<1> DEFINE b == bio[j][s]
           c == [b EXCEPT !.stage = "flight"]
<1>0. b \in Bios
  BY DEF TypeOK
<1>1. c \in Bios
  BY <1>0 DEF Bios, Stages
<1>2. /\ c.stage = "flight" /\ Same(b, c) /\ c.ts = b.ts
      /\ c.todo = b.todo /\ c.data = b.data
  BY <1>0 DEF Bios, Same
<1>3. bio' = [bio EXCEPT ![j][s] = c]
  BY DEF Enqueue, TypeOK
<1>4. b.stage = "enqueue"
  BY DEF Enqueue
<1> HIDE DEF c
<1> QED BY <1>1, <1>2, <1>3, <1>4, BioUpdate

(* A block of a command other than a read is executed, lost or not. *)
Executes(j, s, l) ==
  /\ Pending(j, s, l) /\ bio[j][s].op # "read"
  /\ ideal' = [ideal EXCEPT ![l] = Effect(bio[j][s], l)]
  /\ bio' = [bio EXCEPT ![j][s].todo = @ \ {l}]
  /\ UNCHANGED <<timestamp, block_desc, locked, exited>>

LEMMA ExecuteBio ==
  ASSUME TypeOK, NEW j \in Jobs, NEW s \in Slots, NEW l \in LBAs, Executes(j, s, l)
  PROVE  LET b == bio[j][s]
             c == bio'[j][s] IN
         /\ bio' \in [Jobs -> [Slots -> Bios]] /\ Others(j, s) /\ Same(b, c)
         /\ b.stage = "flight" /\ c.stage = "flight" /\ c.ts = b.ts
         /\ b.op # "read" /\ l \in b.todo /\ c.todo = b.todo \ {l} /\ c.data = b.data
<1> DEFINE b == bio[j][s]
           c == [b EXCEPT !.todo = @ \ {l}]
<1>0. b \in Bios
  BY DEF TypeOK
<1>1. c \in Bios
  BY <1>0 DEF Bios
<1>2. /\ c.stage = b.stage /\ Same(b, c) /\ c.ts = b.ts
      /\ c.todo = b.todo \ {l} /\ c.data = b.data
  BY <1>0 DEF Bios, Same
<1>3. bio' = [bio EXCEPT ![j][s] = c]
  BY DEF Executes, TypeOK
<1>4. b.stage = "flight" /\ l \in b.todo /\ b.op # "read"
  BY DEF Executes, Pending
<1> HIDE DEF c
<1> QED BY <1>1, <1>2, <1>3, <1>4, BioUpdate

(* A block of a read is returned, the right one or not. *)
Returns(j, s, l, m) ==
  LET b == bio[j][s] IN
  /\ Pending(j, s, l) /\ b.op = "read"
  /\ bio' = [bio EXCEPT ![j][s] = [b EXCEPT !.todo = @ \ {l}, !.data[l] = media[m]]]
  /\ UNCHANGED <<media, ideal, timestamp, block_desc, locked, exited>>

LEMMA ReturnBio ==
  ASSUME TypeOK, NEW j \in Jobs, NEW s \in Slots, NEW l \in LBAs, NEW m \in LBAs,
         Returns(j, s, l, m)
  PROVE  LET b == bio[j][s]
             c == bio'[j][s] IN
         /\ bio' \in [Jobs -> [Slots -> Bios]] /\ Others(j, s) /\ Same(b, c)
         /\ b.stage = "flight" /\ c.stage = "flight" /\ c.ts = b.ts /\ b.op = "read"
         /\ l \in b.todo /\ c.todo = b.todo \ {l}
         /\ c.data = [b.data EXCEPT ![l] = media[m]]
<1> DEFINE b == bio[j][s]
           c == [b EXCEPT !.todo = @ \ {l}, !.data[l] = media[m]]
<1>0. b \in Bios /\ media[m] \in Contents
  BY DEF TypeOK
<1>1. c \in Bios
  BY <1>0 DEF Bios
<1>2. /\ c.stage = b.stage /\ Same(b, c) /\ c.ts = b.ts
      /\ c.todo = b.todo \ {l} /\ c.data = [b.data EXCEPT ![l] = media[m]]
  BY <1>0 DEF Bios, Same
<1>3. bio' = [bio EXCEPT ![j][s] = c]
  BY DEF Returns
<1>4. b.stage = "flight" /\ l \in b.todo /\ b.op = "read"
  BY DEF Returns, Pending
<1> HIDE DEF c
<1> QED BY <1>1, <1>2, <1>3, <1>4, BioUpdate

LEMMA CompleteBio ==
  ASSUME TypeOK, NEW j \in Jobs, NEW s \in Slots, Complete(j, s)
  PROVE  LET b == bio[j][s]
             c == bio'[j][s] IN
         /\ bio' \in [Jobs -> [Slots -> Bios]] /\ Others(j, s) /\ Same(b, c)
         /\ b.stage = "flight" /\ c.stage = "submit" /\ c.ts = b.ts
         /\ b.todo = {} /\ c.todo = {} /\ c.data = b.data
<1> DEFINE b == bio[j][s]
           c == [b EXCEPT !.stage = "submit"]
<1>0. b \in Bios
  BY DEF TypeOK
<1>1. c \in Bios
  BY <1>0 DEF Bios, Stages
<1>2. /\ c.stage = "submit" /\ Same(b, c) /\ c.ts = b.ts
      /\ c.todo = b.todo /\ c.data = b.data
  BY <1>0 DEF Bios, Same
<1>3. bio' = [bio EXCEPT ![j][s] = c]
  BY DEF Complete, TypeOK
<1>4. b.stage = "flight" /\ b.todo = {}
  BY DEF Complete
<1> HIDE DEF c
<1> QED BY <1>1, <1>2, <1>3, <1>4, BioUpdate

LEMMA SubmitBio ==
  ASSUME TypeOK, NEW j \in Jobs, NEW s \in Slots, Submit(j, s)
  PROVE  LET b == bio[j][s] IN
         /\ b.stage = "submit"
         /\ \/ /\ bio' = bio /\ b.op = "read"
            \/ /\ bio' \in [Jobs -> [Slots -> Bios]] /\ Others(j, s)
               /\ bio'[j][s] = NoBio
<1> DEFINE b == bio[j][s]
<1>1. b.stage = "submit" /\ (bio' = bio \/ bio' = [bio EXCEPT ![j][s] = NoBio])
  BY DEF Submit
<1>2. CASE bio' = [bio EXCEPT ![j][s] = NoBio]
  BY <1>1, <1>2, NoBioType, BioUpdate
<1>3. CASE bio' # [bio EXCEPT ![j][s] = NoBio]
  <2>1. bio' = bio /\ (Unexpected(b) \/ Miscompare(b))
    BY <1>3 DEF Submit
  <2> QED BY <1>1, <2>1 DEF Unexpected, Miscompare, Failed
<1> QED BY <1>2, <1>3
-----------------------------------------------------------------------------
(* Types and shapes, whatever the jobs share: one lemma per action. *)
LEMMA SameShapes ==
  ASSUME Shapes, NEW j \in Jobs, NEW s \in Slots, Others(j, s), BioShape(bio'[j][s])
  PROVE  Shapes'
  BY DEF Shapes, Others

(* The descriptors that commands leave, in the journal and in the ring. *)
LEMMA CommittedType ==
  ASSUME NEW b \in Bios, NEW l \in LBAs, NEW d \in BlockDescs
  PROVE  Committed(b, l, d) \in BlockDescs /\ HistNext(b, l, d) \in BlockDescs
<1>1. b.data[l].ts \in Nat /\ b.data[l].ts % TsMod \in 0 .. TsMod - 1
  <2>1. b.data[l] \in Contents
    BY DEF Bios
  <2>2. b.data[l].ts \in Nat
    BY <2>1, NumbersAssumption DEF Contents
  <2> QED BY <2>2, NumbersAssumption
<1>2. [state |-> "data", timestamp |-> b.data[l].ts % TsMod] \in BlockDescs
  BY <1>1 DEF BlockDescs, BlockStates
<1>3. \A x \in BlockStates : [d EXCEPT !.state = x] \in BlockDescs
  BY DEF BlockDescs
<1>4. {"dealloc", "zeroes", "uncor", "none"} \subseteq BlockStates
  BY DEF BlockStates
<1>5. Committed(b, l, d) \in BlockDescs
  BY <1>2, <1>3, <1>4 DEF Committed
<1> QED BY <1>3, <1>4, <1>5 DEF HistNext

LEMMA BackupHistType ==
  ASSUME TypeOK, NEW b \in Bios, b.slba + b.nlbs <= NLbas, BackupHist(b)
  PROVE  hist_desc' \in [0 .. NHist - 1 -> HistDescs] /\ hist_idx' \in Nat
<1>1. CASE NHist = 0 \/ b.op \in {"read", "flush"}
  BY <1>1 DEF BackupHist, TypeOK
<1>2. CASE ~(NHist = 0 \/ b.op \in {"read", "flush"})
  <2> DEFINE offset(i) == (i - hist_idx) % NHist
  <2>1. NHist \in Nat \ {0} /\ hist_idx \in Nat /\ b.slba \in Nat /\ b.nlbs \in Nat
    <3>1. NHist \in Nat \ {0} /\ hist_idx \in Nat
      BY <1>2, SizesAssumption DEF TypeOK
    <3>2. b.slba \in Nat /\ b.nlbs \in Nat
      BY SizesAssumption DEF Bios, LBAs
    <3> QED BY <3>1, <3>2
  <2>2. \A i \in 0 .. NHist - 1 : offset(i) \in 0 .. NHist - 1
    <3>1. ASSUME NEW x \in Int PROVE x % NHist \in 0 .. NHist - 1
      BY <2>1
    <3>2. \A i \in 0 .. NHist - 1 : i - hist_idx \in Int
      BY <2>1
    <3> QED BY <3>1, <3>2
  <2> HIDE DEF offset
  <2>3. hist_desc' = [i \in 0 .. NHist - 1 |->
          IF offset(i) < b.nlbs
            THEN [lba |-> b.slba + offset(i),
                  bd |-> HistNext(b, b.slba + offset(i), hist_desc[i].bd)]
            ELSE hist_desc[i]]
    BY <1>2 DEF BackupHist, offset
  <2>4. ASSUME NEW i \in 0 .. NHist - 1, offset(i) < b.nlbs
        PROVE  [lba |-> b.slba + offset(i),
                bd |-> HistNext(b, b.slba + offset(i), hist_desc[i].bd)] \in HistDescs
    <3>1. b.slba + offset(i) \in LBAs
      BY <2>1, <2>2, <2>4, SizesAssumption DEF LBAs
    <3>2. hist_desc[i].bd \in BlockDescs
      BY DEF TypeOK, HistDescs
    <3> QED BY <3>1, <3>2, CommittedType DEF HistDescs
  <2>5. hist_desc' \in [0 .. NHist - 1 -> HistDescs]
    BY <2>3, <2>4 DEF TypeOK
  <2>6. hist_idx' = (hist_idx + b.nlbs) % NHist
    BY <1>2 DEF BackupHist
  <2> QED BY <2>1, <2>5, <2>6
<1> QED BY <1>1, <1>2

LEMMA EffectType ==
  ASSUME NEW b \in Bios, NEW l \in LBAs
  PROVE  Effect(b, l) \in Contents /\ (IsReal(b.data[l]) => IsReal(Effect(b, l)))
<1>1. b.data[l] \in Contents
  BY DEF Bios
<1>2. \A k \in {"zeroes", "ones", "uncor"} : Plain(k) \in Contents /\ IsReal(Plain(k))
  BY ContentFacts DEF IsReal, Plain
<1> QED BY <1>1, <1>2, ParamsAssumption DEF Effect

LEMMA GenerateTyped ==
  ASSUME TypeOK, Shapes, NEW j \in Jobs, NEW s \in Slots, NEW op \in Opcodes \ {"flush"},
         NEW r \in Lock!Ranges, Takes(j, s, op, r)
  PROVE  TypeOK' /\ Shapes'
<1> DEFINE c == bio'[j][s]
<1>1. /\ bio' \in [Jobs -> [Slots -> Bios]] /\ Others(j, s)
      /\ c.stage = IF op = "write" THEN "count" ELSE "enqueue"
      /\ c.op = op /\ c.slba = r.slba /\ c.nlbs = r.nlbs /\ c.todo = Span(r)
      /\ c.ts = IF op = "write" THEN timestamp ELSE 0
      /\ (op = "write" => timestamp < MaxTs)
      /\ Span(c) = Span(r) /\ Range(c) = r
  BY GenerateBio
<1> HIDE DEF c
<1>2. /\ locked' = [locked EXCEPT ![j] = @ \cup {r}]
      /\ UNCHANGED <<media, ideal, faults, timestamp, block_desc, hist_desc, hist_idx,
                     result, exited>>
  BY DEF Takes, Lock!Acquire
<1>3. TypeOK'
  BY <1>1, <1>2 DEF TypeOK
<1>4. op \in Opcodes \ {"flush"} /\ op # "none"
  BY DEF Opcodes
<1>5. BioShape(c)
  BY <1>1, <1>4, RangeFacts DEF BioShape
<1> QED BY <1>1, <1>3, <1>5, SameShapes DEF c

LEMMA GenerateFlushTyped ==
  ASSUME TypeOK, Shapes, NEW j \in Jobs, NEW s \in Slots, TakesFlush(j, s)
  PROVE  TypeOK' /\ Shapes'
<1> DEFINE c == bio'[j][s]
<1>1. /\ bio' \in [Jobs -> [Slots -> Bios]] /\ Others(j, s)
      /\ c.stage = "enqueue" /\ c.op = "flush" /\ c.slba = 0 /\ c.nlbs = 0 /\ c.todo = {}
  BY GenerateFlushBio
<1> HIDE DEF c
<1>2. UNCHANGED <<media, ideal, faults, timestamp, block_desc, hist_desc, hist_idx,
                  locked, result, exited>>
  BY DEF TakesFlush
<1>3. TypeOK'
  BY <1>1, <1>2 DEF TypeOK
<1>4. Span(c) = {}
  BY <1>1 DEF Span
<1>5. BioShape(c)
  BY <1>1, <1>4, SizesAssumption DEF BioShape
<1> QED BY <1>1, <1>3, <1>5, SameShapes DEF c

LEMMA CountTyped ==
  ASSUME TypeOK, Shapes, NEW j \in Jobs, NEW s \in Slots, Count(j, s)
  PROVE  TypeOK' /\ Shapes'
<1> DEFINE b == bio[j][s]
           c == bio'[j][s]
<1>1. /\ bio' \in [Jobs -> [Slots -> Bios]] /\ Others(j, s) /\ Same(b, c)
      /\ b.stage = "count" /\ c.stage = "stamp" /\ c.ts = 0
      /\ c.todo = b.todo /\ c.data = b.data
  BY CountBio
<1> HIDE DEF c
<1>2. /\ timestamp' = b.ts + 1
      /\ UNCHANGED <<media, ideal, faults, block_desc, hist_desc, hist_idx, locked,
                     result, exited>>
  BY DEF Count
<1>3. b \in Bios /\ BioShape(b)
  BY DEF TypeOK, Shapes
<1>4. Span(c) = Span(b) /\ Range(c) = Range(b)
  BY <1>1 DEF Same, Span, Range
<1>5. b.op = "write" /\ b.ts \in 0 .. MaxTs /\ b.ts < MaxTs /\ b.todo = Span(b)
  BY <1>1, <1>3 DEF BioShape, Bios
<1>6. TypeOK'
  BY <1>1, <1>2, <1>5, NumbersAssumption DEF TypeOK
<1>7. b.todo # {}
  BY <1>3, <1>5, RangeFacts DEF BioShape, Range, Span
<1>8. BioShape(c)
  BY <1>1, <1>3, <1>4, <1>5, <1>7 DEF BioShape, Same
<1> QED BY <1>1, <1>6, <1>8, SameShapes DEF c

LEMMA StampTyped ==
  ASSUME TypeOK, Shapes, NEW j \in Jobs, NEW s \in Slots, Stamp(j, s)
  PROVE  TypeOK' /\ Shapes'
<1> DEFINE b == bio[j][s]
           c == bio'[j][s]
<1>1. /\ bio' \in [Jobs -> [Slots -> Bios]] /\ Others(j, s) /\ Same(b, c)
      /\ b.stage = "stamp" /\ c.ts = b.ts
  BY StampBio
<1>2. PICK l \in b.todo :
        /\ c.todo = IF b.todo = {l} THEN Span(b) ELSE b.todo \ {l}
        /\ c.stage = IF b.todo = {l} THEN "enqueue" ELSE "stamp"
  BY StampBio
<1> HIDE DEF c
<1>3. UNCHANGED <<media, ideal, faults, timestamp, block_desc, hist_desc, hist_idx,
                  locked, result, exited>>
  BY DEF Stamp
<1>4. b \in Bios /\ BioShape(b)
  BY DEF TypeOK, Shapes
<1>5. Span(c) = Span(b) /\ Range(c) = Range(b)
  BY <1>1 DEF Same, Span, Range
<1>6. b.op = "write" /\ b.todo \subseteq Span(b)
  BY <1>1, <1>4 DEF BioShape
<1>7. TypeOK'
  BY <1>1, <1>3 DEF TypeOK
<1>8. BioShape(c)
  BY <1>1, <1>2, <1>4, <1>5, <1>6 DEF BioShape, Same
<1> QED BY <1>1, <1>7, <1>8, SameShapes DEF c

LEMMA EnqueueTyped ==
  ASSUME TypeOK, Shapes, NEW j \in Jobs, NEW s \in Slots, Enqueue(j, s)
  PROVE  TypeOK' /\ Shapes'
<1> DEFINE b == bio[j][s]
           c == bio'[j][s]
<1>1. /\ bio' \in [Jobs -> [Slots -> Bios]] /\ Others(j, s) /\ Same(b, c)
      /\ b.stage = "enqueue" /\ c.stage = "flight" /\ c.todo = b.todo
  BY EnqueueBio
<1> HIDE DEF c
<1>2. /\ BackupHist(b)
      /\ UNCHANGED <<media, ideal, faults, timestamp, locked, result, exited>>
  BY DEF Enqueue
<1>3. block_desc' = IF SporLevel3 /\ b.op = "write"
       THEN [l \in LBAs |-> IF l \in Span(b)
               THEN [Committed(b, l, block_desc[l]) EXCEPT !.state = "unwritten"]
               ELSE block_desc[l]]
       ELSE block_desc
  BY DEF Enqueue
<1>4. b \in Bios /\ BioShape(b)
  BY DEF TypeOK, Shapes
<1>5. Span(c) = Span(b) /\ Range(c) = Range(b)
  BY <1>1 DEF Same, Span, Range
<1>6. block_desc' \in [LBAs -> BlockDescs]
  <2>1. ASSUME NEW l \in LBAs
        PROVE  /\ block_desc[l] \in BlockDescs
               /\ [Committed(b, l, block_desc[l]) EXCEPT !.state = "unwritten"] \in BlockDescs
    <3>1. block_desc[l] \in BlockDescs /\ Committed(b, l, block_desc[l]) \in BlockDescs
      BY <1>4, CommittedType DEF TypeOK
    <3> QED BY <3>1 DEF BlockDescs, BlockStates
  <2>2. block_desc \in [LBAs -> BlockDescs]
    BY DEF TypeOK
  <2> QED BY <2>1, <2>2, <1>3
<1>7. hist_desc' \in [0 .. NHist - 1 -> HistDescs] /\ hist_idx' \in Nat
  BY <1>2, <1>4, BackupHistType DEF BioShape
<1>8. TypeOK'
  BY <1>1, <1>2, <1>6, <1>7 DEF TypeOK
<1>9. BioShape(c)
  BY <1>1, <1>4, <1>5 DEF BioShape, Same
<1> QED BY <1>1, <1>8, <1>9, SameShapes DEF c

LEMMA ExecuteTyped ==
  ASSUME TypeOK, Shapes, NEW j \in Jobs, NEW s \in Slots, NEW l \in LBAs,
         ExecuteWrite(j, s, l) \/ LoseWrite(j, s, l)
  PROVE  TypeOK' /\ Shapes'
<1> DEFINE b == bio[j][s]
           c == bio'[j][s]
<1>1. Executes(j, s, l)
  BY DEF ExecuteWrite, LoseWrite, Executes
<1>2. /\ bio' \in [Jobs -> [Slots -> Bios]] /\ Others(j, s) /\ Same(b, c)
      /\ b.stage = "flight" /\ c.stage = "flight" /\ c.todo = b.todo \ {l}
  BY <1>1, ExecuteBio
<1>3. /\ media' = media \/ media' = [media EXCEPT ![l] = Effect(b, l)]
      /\ ideal' = [ideal EXCEPT ![l] = Effect(b, l)]
      /\ faults' = faults \/ (faults < MaxFaults /\ faults' = faults + 1)
      /\ UNCHANGED <<timestamp, block_desc, hist_desc, hist_idx, locked, result, exited>>
  BY DEF ExecuteWrite, LoseWrite
<1> HIDE DEF c
<1>4. b \in Bios /\ BioShape(b)
  BY DEF TypeOK, Shapes
<1>5. Span(c) = Span(b) /\ Range(c) = Range(b)
  BY <1>2 DEF Same, Span, Range
<1>6. media' \in [LBAs -> Contents] /\ ideal' \in [LBAs -> Contents]
  BY <1>3, <1>4, EffectType DEF TypeOK
<1>7. faults' \in 0 .. MaxFaults
  BY <1>3, NumbersAssumption DEF TypeOK
<1>8. TypeOK'
  BY <1>2, <1>3, <1>6, <1>7 DEF TypeOK
<1>9. BioShape(c)
  BY <1>2, <1>4, <1>5 DEF BioShape, Same
<1> QED BY <1>2, <1>8, <1>9, SameShapes DEF c

LEMMA ReturnTyped ==
  ASSUME TypeOK, Shapes, NEW j \in Jobs, NEW s \in Slots, NEW l \in LBAs, NEW m \in LBAs,
         Returns(j, s, l, m),
         faults' = faults \/ (faults < MaxFaults /\ faults' = faults + 1),
         UNCHANGED <<hist_desc, hist_idx, result>>
  PROVE  TypeOK' /\ Shapes'
<1> DEFINE b == bio[j][s]
           c == bio'[j][s]
<1>1. /\ bio' \in [Jobs -> [Slots -> Bios]] /\ Others(j, s) /\ Same(b, c)
      /\ b.stage = "flight" /\ c.stage = "flight" /\ c.todo = b.todo \ {l}
  BY ReturnBio
<1> HIDE DEF c
<1>2. UNCHANGED <<media, ideal, timestamp, block_desc, locked, exited>>
  BY DEF Returns
<1>3. b \in Bios /\ BioShape(b)
  BY DEF TypeOK, Shapes
<1>4. Span(c) = Span(b) /\ Range(c) = Range(b)
  BY <1>1 DEF Same, Span, Range
<1>5. faults' \in 0 .. MaxFaults
  BY NumbersAssumption DEF TypeOK
<1>6. TypeOK'
  BY <1>1, <1>2, <1>5 DEF TypeOK
<1>7. BioShape(c)
  BY <1>1, <1>3, <1>4 DEF BioShape, Same
<1> QED BY <1>1, <1>6, <1>7, SameShapes DEF c

LEMMA CompleteTyped ==
  ASSUME TypeOK, Shapes, NEW j \in Jobs, NEW s \in Slots, Complete(j, s)
  PROVE  TypeOK' /\ Shapes'
<1> DEFINE b == bio[j][s]
           c == bio'[j][s]
<1>1. /\ bio' \in [Jobs -> [Slots -> Bios]] /\ Others(j, s) /\ Same(b, c)
      /\ b.stage = "flight" /\ c.stage = "submit" /\ c.todo = {}
  BY CompleteBio
<1> HIDE DEF c
<1>2. /\ UNCHANGED <<media, ideal, faults, timestamp, block_desc, hist_desc, hist_idx,
                     result, exited>>
      /\ IF b.op = "flush" THEN locked' = locked
                           ELSE locked' = [locked EXCEPT ![j] = @ \ {Range(b)}]
  BY DEF Complete, Lock!Release
<1>3. b \in Bios /\ BioShape(b)
  BY DEF TypeOK, Shapes
<1>4. Span(c) = Span(b) /\ Range(c) = Range(b)
  BY <1>1 DEF Same, Span, Range
<1>5. TypeOK'
  BY <1>1, <1>2 DEF TypeOK
<1>6. BioShape(c)
  BY <1>1, <1>3, <1>4 DEF BioShape, Same
<1> QED BY <1>1, <1>5, <1>6, SameShapes DEF c

LEMMA FreeTyped ==
  ASSUME TypeOK, Shapes, NEW j \in Jobs, NEW s \in Slots,
         block_desc' \in [LBAs -> BlockDescs],
         result' \in {-1, 0, 1}, exited' \in BOOLEAN,
         UNCHANGED <<media, ideal, faults, timestamp, hist_desc, hist_idx, locked>>,
         \/ bio' = bio
         \/ bio' \in [Jobs -> [Slots -> Bios]] /\ Others(j, s) /\ bio'[j][s] = NoBio
  PROVE  TypeOK' /\ Shapes'
<1>1. bio' \in [Jobs -> [Slots -> Bios]]
  BY DEF TypeOK
<1>2. TypeOK'
  BY <1>1 DEF TypeOK
<1>3. BioShape(NoBio)
  <2>1. /\ NoBio.stage = "free" /\ NoBio.op = "none" /\ NoBio.slba = 0
        /\ NoBio.nlbs = 0 /\ NoBio.todo = {}
    BY DEF NoBio
  <2> QED BY <2>1, SizesAssumption DEF BioShape, Span
<1>4. Shapes'
  <2>1. CASE bio' = bio
    BY <2>1 DEF Shapes
  <2>2. CASE Others(j, s) /\ bio'[j][s] = NoBio
    BY <2>2, <1>3, SameShapes
  <2> QED BY <2>1, <2>2
<1> QED BY <1>2, <1>4

LEMMA SubmitTyped ==
  ASSUME TypeOK, Shapes, NEW j \in Jobs, NEW s \in Slots, Submit(j, s)
  PROVE  TypeOK' /\ Shapes'
<1> DEFINE b == bio[j][s]
<1>1. \/ bio' = bio
      \/ bio' \in [Jobs -> [Slots -> Bios]] /\ Others(j, s) /\ bio'[j][s] = NoBio
  BY SubmitBio
<1>2. /\ block_desc' = [l \in LBAs |->
           IF l \in Span(b) THEN Committed(b, l, block_desc[l]) ELSE block_desc[l]]
      /\ UNCHANGED <<media, ideal, faults, timestamp, hist_desc, hist_idx, locked>>
  BY DEF Submit
<1>3. result' \in {-1, 0, 1} /\ exited' \in BOOLEAN
  BY DEF Submit, TypeOK
<1>4. b \in Bios
  BY DEF TypeOK
<1>5. block_desc' \in [LBAs -> BlockDescs]
  BY <1>2, <1>4, CommittedType DEF TypeOK
<1> QED BY <1>1, <1>2, <1>3, <1>5, FreeTyped

LEMMA DeviceTyped ==
  ASSUME TypeOK, Shapes, Device
  PROVE  TypeOK' /\ Shapes'
<1>1. PICK j \in Jobs, s \in Slots, l \in LBAs :
        \/ ExecuteWrite(j, s, l) \/ ExecuteRead(j, s, l)
        \/ LoseWrite(j, s, l) \/ \E m \in LBAs : MisdirectRead(j, s, l, m)
  BY DEF Device
<1>2. CASE ExecuteWrite(j, s, l) \/ LoseWrite(j, s, l)
  BY <1>2, ExecuteTyped
<1>3. CASE ExecuteRead(j, s, l)
  <2>1. /\ Returns(j, s, l, l) /\ faults' = faults
        /\ UNCHANGED <<hist_desc, hist_idx, result>>
    BY <1>3 DEF ExecuteRead, Returns
  <2> QED BY <2>1, ReturnTyped
<1>4. ASSUME NEW m \in LBAs, MisdirectRead(j, s, l, m)
      PROVE  TypeOK' /\ Shapes'
  <2>1. /\ Returns(j, s, l, m) /\ faults < MaxFaults /\ faults' = faults + 1
        /\ UNCHANGED <<hist_desc, hist_idx, result>>
    BY <1>4 DEF MisdirectRead, Returns
  <2> QED BY <2>1, ReturnTyped
<1> QED BY <1>1, <1>2, <1>3, <1>4

LEMMA NextTyped == TypeOK /\ Shapes /\ [Next]_vars => TypeOK' /\ Shapes'
<1> SUFFICES ASSUME TypeOK, Shapes, [Next]_vars PROVE TypeOK' /\ Shapes'
  OBVIOUS
<1>1. CASE UNCHANGED vars
  BY <1>1 DEF vars, TypeOK, Shapes
<1>2. CASE Device
  BY <1>2, DeviceTyped
<1>3. ASSUME NEW j \in Jobs, NEW s \in Slots,
             \/ \E op \in Ops, r \in Lock!Ranges : Generate(j, s, op, r)
             \/ GenerateFlush(j, s)
             \/ Count(j, s) \/ Stamp(j, s) \/ Enqueue(j, s)
             \/ Complete(j, s) \/ Submit(j, s)
      PROVE  TypeOK' /\ Shapes'
  BY <1>3, GenerateTakes, GenerateTyped, GenerateFlushTyped, CountTyped, StampTyped,
     EnqueueTyped, CompleteTyped, SubmitTyped
<1> QED BY <1>1, <1>2, <1>3 DEF Next
-----------------------------------------------------------------------------
(* A step that keeps the extent of its bio keeps the extents apart. *)
LEMMA SameExtent ==
  ASSUME Owned, Disjoint, NEW j \in Jobs, NEW s \in Slots, Others(j, s),
         Same(bio[j][s], bio'[j][s])
  PROVE  Owned' /\ Disjoint'
<1>1. ASSUME NEW k \in Jobs, NEW t \in Slots
      PROVE  Span(bio'[k][t]) = Span(bio[k][t])
  <2>1. CASE k = j /\ t = s
    BY <2>1 DEF Same, Span
  <2>2. CASE k # j \/ t # s
    BY <2>2 DEF Others
  <2> QED BY <2>1, <2>2
<1>2. Owned'
  BY <1>1 DEF Owned
<1>3. Disjoint'
  BY <1>1 DEF Disjoint
<1> QED BY <1>2, <1>3

(* A step that changes neither block nor descriptor, nor which bios write. *)
LEMMA SameWriters ==
  ASSUME Executed, NEW j \in Jobs, NEW s \in Slots, Others(j, s),
         ideal' = ideal, block_desc' = block_desc,
         \A l \in LBAs : Writes(bio'[j][s], l) <=> Writes(bio[j][s], l),
         \A l \in LBAs : Writes(bio'[j][s], l) /\ l \notin bio'[j][s].todo
                            => ideal[l] = Effect(bio'[j][s], l)
  PROVE  Executed' /\ (Tracks => Tracks')
<1>1. ASSUME NEW k \in Jobs, NEW t \in Slots, NEW l \in LBAs
      PROVE  /\ Writes(bio'[k][t], l) <=> Writes(bio[k][t], l)
             /\ Writes(bio'[k][t], l) /\ l \notin bio'[k][t].todo
                  => ideal[l] = Effect(bio'[k][t], l)
  <2>1. CASE k = j /\ t = s
    BY <2>1
  <2>2. CASE k # j \/ t # s
    BY <2>2 DEF Others, Executed
  <2> QED BY <2>1, <2>2
<1>2. Executed'
  BY <1>1 DEF Executed
<1>3. Tracks => Tracks'
  BY <1>1 DEF Tracks
<1> QED BY <1>2, <1>3

(* The other bios stay as they were. *)
LEMMA OthersKeep ==
  ASSUME LockKept, Stamped, Real, NEW j \in Jobs, NEW s \in Slots, Others(j, s)
  PROVE  /\ /\ \A k \in Jobs : locked[k] \subseteq locked'[k]
            /\ bio'[j][s].stage \in {"count", "stamp", "enqueue", "flight"}
                 /\ bio'[j][s].op # "flush" => Range(bio'[j][s]) \in locked'[j]
            => LockKept'
         /\ /\ timestamp' # timestamp => timestamp' # 0
            /\ bio'[j][s].stage = "stamp" => timestamp' # 0
            /\ \A l \in Prepared(bio'[j][s]) : IsStamp(bio'[j][s].data[l], l)
            => Stamped'
         /\ /\ \A l \in LBAs : IsReal(media'[l]) /\ IsReal(ideal'[l])
            /\ \A l \in LBAs : IsReal(bio'[j][s].data[l])
            => Real'
<1>1. ASSUME NEW k \in Jobs, NEW t \in Slots, k # j \/ t # s
      PROVE  bio'[k][t] = bio[k][t]
  BY <1>1 DEF Others
<1>2. ASSUME \A k \in Jobs : locked[k] \subseteq locked'[k],
             bio'[j][s].stage \in {"count", "stamp", "enqueue", "flight"}
                 /\ bio'[j][s].op # "flush" => Range(bio'[j][s]) \in locked'[j]
      PROVE  LockKept'
  <2> SUFFICES ASSUME NEW k \in Jobs, NEW t \in Slots,
                      bio'[k][t].stage \in {"count", "stamp", "enqueue", "flight"},
                      bio'[k][t].op # "flush"
               PROVE  Range(bio'[k][t]) \in locked'[k]
    BY DEF LockKept
  <2>1. CASE k = j /\ t = s
    BY <2>1, <1>2
  <2>2. CASE k # j \/ t # s
    <3>1. bio'[k][t] = bio[k][t]
      BY <2>2, <1>1
    <3>2. Range(bio[k][t]) \in locked[k]
      BY <3>1 DEF LockKept
    <3> QED BY <3>1, <3>2, <1>2
  <2> QED BY <2>1, <2>2
<1>3. ASSUME timestamp' # timestamp => timestamp' # 0,
             bio'[j][s].stage = "stamp" => timestamp' # 0,
             \A l \in Prepared(bio'[j][s]) : IsStamp(bio'[j][s].data[l], l)
      PROVE  Stamped'
  <2> SUFFICES ASSUME NEW k \in Jobs, NEW t \in Slots
               PROVE  /\ bio'[k][t].stage = "stamp" => timestamp' # 0
                      /\ \A l \in Prepared(bio'[k][t]) : IsStamp(bio'[k][t].data[l], l)
    BY DEF Stamped
  <2>1. CASE k = j /\ t = s
    BY <2>1, <1>3
  <2>2. CASE k # j \/ t # s
    BY <2>2, <1>1, <1>3 DEF Stamped
  <2> QED BY <2>1, <2>2
<1>4. ASSUME \A l \in LBAs : IsReal(media'[l]) /\ IsReal(ideal'[l]),
             \A l \in LBAs : IsReal(bio'[j][s].data[l])
      PROVE  Real'
  <2>1. ASSUME NEW k \in Jobs, NEW t \in Slots, NEW l \in LBAs
        PROVE  IsReal(bio'[k][t].data[l])
    <3>1. CASE k = j /\ t = s
      BY <3>1, <1>4
    <3>2. CASE k # j \/ t # s
      BY <3>2, <1>1 DEF Real
    <3> QED BY <3>1, <3>2
  <2> QED BY <2>1, <1>4 DEF Real
<1> QED BY <1>2, <1>3, <1>4
-----------------------------------------------------------------------------
(* One lemma per action: it keeps Base and, if the journal agreed with the *)
(* device, their agreement.  A generated bio is apart from the others      *)
(* because theirs are locked or empty, or unlocked and not yet committed,  *)
(* which CommitAlone excludes.                                             *)
LEMMA GenerateInv ==
  ASSUME Base, CommitAlone', NEW j \in Jobs, NEW s \in Slots, NEW op \in Opcodes \ {"flush"},
         NEW r \in Lock!Ranges, Takes(j, s, op, r)
  PROVE  Base' /\ (Tracks => Tracks')
<1> DEFINE b == bio[j][s]
           c == bio'[j][s]
<1>0. TypeOK /\ Shapes /\ Owned /\ Disjoint /\ LockKept /\ Stamped /\ Executed /\ Real
  BY DEF Base
<1>1. /\ bio' \in [Jobs -> [Slots -> Bios]] /\ Others(j, s)
      /\ c.stage = IF op = "write" THEN "count" ELSE "enqueue"
      /\ c.op = op /\ c.slba = r.slba /\ c.nlbs = r.nlbs
      /\ c.todo = Span(r) /\ c.data = NoBio.data
      /\ c.ts = IF op = "write" THEN timestamp ELSE 0
      /\ (op = "write" => timestamp < MaxTs)
      /\ Span(c) = Span(r) /\ Range(c) = r
  BY <1>0, GenerateBio
<1> HIDE DEF c
<1>2. /\ b.stage = "free" /\ Span(r) \subseteq JobLbas[j]
      /\ \A t \in Slots : bio[j][t].stage \in {"free", "flight"}
      /\ \A k \in Jobs : \A x \in locked[k] : Span(r) \cap Lock!Span(x) = {}
      /\ locked' = [locked EXCEPT ![j] = @ \cup {r}]
      /\ UNCHANGED <<media, ideal, faults, timestamp, block_desc, hist_desc, hist_idx,
                     result, exited>>
  BY RangeFacts DEF Takes, Idle, Lock!Acquire
<1>3. TypeOK' /\ Shapes'
  BY <1>0, GenerateTyped
<1>6. \A k \in Jobs, t \in Slots : k # j \/ t # s => bio'[k][t] = bio[k][t]
  BY <1>1 DEF Others
<1>8. Owned'
  BY <1>0, <1>1, <1>2, <1>6 DEF Owned, c
<1>9. ASSUME NEW k \in Jobs, NEW t \in Slots, k # j \/ t # s
      PROVE  Span(r) \cap Span(bio[k][t]) = {}
  <2> DEFINE d == bio[k][t]
  <2>0. d \in Bios /\ BioShape(d)
    BY <1>0 DEF TypeOK, Shapes
  <2>1. d \in Bios /\ BioShape(d) /\ d.stage \in Stages /\ (k = j => d.stage # "submit")
    <3>1. d.stage \in Stages
      BY <2>0 DEF Bios
    <3>2. k = j => d.stage \in {"free", "flight"}
      BY <1>2
    <3> QED BY <2>0, <3>1, <3>2
  <2>2. CASE d.op \in {"none", "flush"}
    <3>1. d.nlbs = 0 /\ d.slba \in Nat
      BY <2>1, <2>2, LbaFacts DEF BioShape, Bios
    <3>2. Span(d) = {}
      BY <3>1 DEF Span
    <3> QED BY <3>2
  <2>3. CASE d.stage = "submit"
    <3>1. k # j /\ bio'[k][t] = d
      BY <2>1, <2>3, <1>6
    <3>2. Span(bio'[k][t]) \cap Span(bio'[j][s]) = {}
      BY <2>3, <3>1 DEF CommitAlone
    <3> QED BY <3>1, <3>2, <1>1 DEF c
  <2>4. CASE d.op \notin {"none", "flush"} /\ d.stage # "submit"
    <3>1. Range(d) \in locked[k]
      BY <2>1, <2>4, <1>0 DEF LockKept, BioShape, Stages
    <3>2. Lock!Span(Range(d)) = Span(d)
      BY DEF Lock!Span, Range, Span
    <3> QED BY <3>1, <3>2, <1>2
  <2> QED BY <2>2, <2>3, <2>4
<1>10. Disjoint'
  <2> SUFFICES ASSUME NEW k \in Jobs, NEW t \in Slots, NEW h \in Jobs, NEW u \in Slots,
                      h # k \/ u # t
               PROVE  Span(bio'[k][t]) \cap Span(bio'[h][u]) = {}
    BY DEF Disjoint
  <2>1. CASE k = j /\ t = s
    BY <2>1, <1>1, <1>6, <1>9 DEF c
  <2>2. CASE h = j /\ u = s
    BY <2>2, <1>1, <1>6, <1>9 DEF c
  <2>3. CASE (k # j \/ t # s) /\ (h # j \/ u # s)
    BY <2>3, <1>0, <1>6 DEF Disjoint
  <2> QED BY <2>1, <2>2, <2>3
<1>11. locked'[j] = locked[j] \cup {r} /\ \A k \in Jobs : locked[k] \subseteq locked'[k]
  BY <1>0, <1>2 DEF TypeOK
<1>12. LockKept'
  BY <1>0, <1>1, <1>11, OthersKeep DEF c
<1>13. Prepared(c) = {} /\ \A l \in LBAs : ~Writes(c, l) /\ ~Writes(b, l)
  BY <1>1, <1>2 DEF Prepared, Writes
<1>14. Stamped'
  BY <1>0, <1>1, <1>2, <1>13, OthersKeep DEF c
<1>15. Executed' /\ (Tracks => Tracks')
  BY <1>0, <1>1, <1>2, <1>13, SameWriters DEF c
<1>16. \A l \in LBAs : IsReal(c.data[l])
  BY <1>1 DEF IsReal, NoBio, Plain
<1>17. Real'
  BY <1>0, <1>1, <1>2, <1>16, OthersKeep DEF c, Real
<1> QED BY <1>3, <1>8, <1>10, <1>12, <1>14, <1>15, <1>17 DEF Base

LEMMA GenerateFlushInv ==
  ASSUME Base, NEW j \in Jobs, NEW s \in Slots, TakesFlush(j, s)
  PROVE  Base' /\ (Tracks => Tracks')
<1> DEFINE b == bio[j][s]
           c == bio'[j][s]
<1>0. TypeOK /\ Shapes /\ Owned /\ Disjoint /\ LockKept /\ Stamped /\ Executed /\ Real
  BY DEF Base
<1>1. /\ bio' \in [Jobs -> [Slots -> Bios]] /\ Others(j, s)
      /\ c.stage = "enqueue" /\ c.op = "flush" /\ c.slba = 0 /\ c.nlbs = 0
      /\ c.todo = {} /\ c.data = NoBio.data
  BY <1>0, GenerateFlushBio
<1> HIDE DEF c
<1>2. /\ b.stage = "free"
      /\ UNCHANGED <<media, ideal, faults, timestamp, block_desc, hist_desc, hist_idx,
                     locked, result, exited>>
  BY DEF TakesFlush
<1>3. TypeOK' /\ Shapes'
  BY <1>0, GenerateFlushTyped
<1>4. Span(c) = {}
  BY <1>1 DEF Span
<1>6. \A k \in Jobs, t \in Slots : k # j \/ t # s => bio'[k][t] = bio[k][t]
  BY <1>1 DEF Others
<1>8. Owned'
  BY <1>0, <1>4, <1>6 DEF Owned, c
<1>9. Disjoint'
  <2> SUFFICES ASSUME NEW k \in Jobs, NEW t \in Slots, NEW h \in Jobs, NEW u \in Slots,
                      h # k \/ u # t
               PROVE  Span(bio'[k][t]) \cap Span(bio'[h][u]) = {}
    BY DEF Disjoint
  <2>1. CASE (k = j /\ t = s) \/ (h = j /\ u = s)
    BY <2>1, <1>4 DEF c
  <2>2. CASE (k # j \/ t # s) /\ (h # j \/ u # s)
    BY <2>2, <1>0, <1>6 DEF Disjoint
  <2> QED BY <2>1, <2>2
<1>10. LockKept'
  BY <1>0, <1>1, <1>2, OthersKeep DEF c
<1>11. Prepared(c) = {} /\ \A l \in LBAs : ~Writes(c, l) /\ ~Writes(b, l)
  BY <1>1, <1>2 DEF Prepared, Writes
<1>12. Stamped'
  BY <1>0, <1>1, <1>2, <1>11, OthersKeep DEF c
<1>13. Executed' /\ (Tracks => Tracks')
  BY <1>0, <1>1, <1>2, <1>11, SameWriters DEF c
<1>14. \A l \in LBAs : IsReal(c.data[l])
  BY <1>1 DEF IsReal, NoBio, Plain
<1>15. Real'
  BY <1>0, <1>1, <1>2, <1>14, OthersKeep DEF c, Real
<1> QED BY <1>3, <1>8, <1>9, <1>10, <1>12, <1>13, <1>15 DEF Base

LEMMA CountInv ==
  ASSUME Base, NEW j \in Jobs, NEW s \in Slots, Count(j, s)
  PROVE  Base' /\ (Tracks => Tracks')
<1> DEFINE b == bio[j][s]
           c == bio'[j][s]
<1>0. TypeOK /\ Shapes /\ Owned /\ Disjoint /\ LockKept /\ Stamped /\ Executed /\ Real
  BY DEF Base
<1>1. /\ bio' \in [Jobs -> [Slots -> Bios]] /\ Others(j, s) /\ Same(b, c)
      /\ b.stage = "count" /\ c.stage = "stamp" /\ c.ts = 0
      /\ c.todo = b.todo /\ c.data = b.data
  BY <1>0, CountBio
<1> HIDE DEF c
<1>2. /\ timestamp' = b.ts + 1
      /\ UNCHANGED <<media, ideal, faults, block_desc, hist_desc, hist_idx, locked,
                     result, exited>>
  BY DEF Count
<1>3. b \in Bios /\ BioShape(b)
  BY <1>0 DEF TypeOK, Shapes
<1>4. Span(c) = Span(b) /\ Range(c) = Range(b)
  BY <1>1 DEF Same, Span, Range
<1>5. b.op = "write" /\ b.ts \in 0 .. MaxTs /\ b.ts < MaxTs /\ b.todo = Span(b)
  BY <1>1, <1>3 DEF BioShape, Bios
<1>6. TypeOK' /\ Shapes'
  BY <1>0, CountTyped
<1>9. Owned' /\ Disjoint'
  BY <1>0, <1>1, SameExtent DEF c
<1>10. LockKept'
  <2>1. Range(b) \in locked[j]
    BY <1>0, <1>1, <1>5 DEF LockKept
  <2> QED BY <1>0, <1>1, <1>2, <1>4, <2>1, OthersKeep DEF c
<1>11. Prepared(c) = {} /\ \A l \in LBAs : ~Writes(c, l) /\ ~Writes(b, l)
  BY <1>1, <1>4, <1>5 DEF Prepared, Writes
<1>12. timestamp' # 0
  BY <1>2, <1>5, NumbersAssumption
<1>13. Stamped'
  BY <1>0, <1>1, <1>11, <1>12, OthersKeep DEF c
<1>14. Executed' /\ (Tracks => Tracks')
  BY <1>0, <1>1, <1>2, <1>11, SameWriters DEF c
<1>15. Real'
  BY <1>0, <1>1, <1>2, OthersKeep DEF c, Real
<1> QED BY <1>6, <1>9, <1>10, <1>13, <1>14, <1>15 DEF Base

LEMMA StampInv ==
  ASSUME Base, NEW j \in Jobs, NEW s \in Slots, Stamp(j, s)
  PROVE  Base' /\ (Tracks => Tracks')
<1> DEFINE b == bio[j][s]
           c == bio'[j][s]
<1>0. TypeOK /\ Shapes /\ Owned /\ Disjoint /\ LockKept /\ Stamped /\ Executed /\ Real
  BY DEF Base
<1>1. /\ bio' \in [Jobs -> [Slots -> Bios]] /\ Others(j, s) /\ Same(b, c)
      /\ b.stage = "stamp" /\ c.ts = b.ts
  BY <1>0, StampBio
<1>2. PICK l \in b.todo :
        /\ c.data = [b.data EXCEPT ![l] = Data(l, timestamp)]
        /\ c.todo = IF b.todo = {l} THEN Span(b) ELSE b.todo \ {l}
        /\ c.stage = IF b.todo = {l} THEN "enqueue" ELSE "stamp"
  BY <1>0, StampBio
<1> HIDE DEF c
<1>3. UNCHANGED <<media, ideal, faults, timestamp, block_desc, hist_desc, hist_idx,
                  locked, result, exited>>
  BY DEF Stamp
<1>4. b \in Bios /\ BioShape(b)
  BY <1>0 DEF TypeOK, Shapes
<1>5. Span(c) = Span(b) /\ Range(c) = Range(b)
  BY <1>1 DEF Same, Span, Range
<1>6. b.op = "write" /\ b.todo \subseteq Span(b) /\ Span(b) \subseteq LBAs
  BY <1>1, <1>4, LbaFacts DEF BioShape
<1>7. TypeOK' /\ Shapes'
  BY <1>0, StampTyped
<1>9. Owned' /\ Disjoint'
  BY <1>0, <1>1, SameExtent DEF c
<1>10. LockKept'
  <2>1. Range(b) \in locked[j]
    BY <1>0, <1>1, <1>6 DEF LockKept
  <2> QED BY <1>0, <1>1, <1>3, <1>5, <2>1, OthersKeep DEF c
<1>11. timestamp # 0 /\ \A x \in Span(b) \ b.todo : IsStamp(b.data[x], x)
  BY <1>0, <1>1, <1>6 DEF Stamped, Prepared
<1>12. ASSUME NEW x \in Prepared(c)
       PROVE  IsStamp(c.data[x], x)
  <2>1. x \in Span(b) /\ (x = l \/ x \notin b.todo)
    BY <1>1, <1>2, <1>5, <1>6, <1>12 DEF Prepared, Same
  <2>2. x \in LBAs /\ b.data \in [LBAs -> Contents]
    BY <2>1, <1>4, <1>6 DEF Bios
  <2>3. CASE x = l
    BY <2>2, <2>3, <1>2, <1>11 DEF IsStamp, Data
  <2>4. CASE x # l
    BY <2>1, <2>2, <2>4, <1>2, <1>11
  <2> QED BY <2>3, <2>4
<1>13. Stamped'
  BY <1>0, <1>1, <1>3, <1>11, <1>12, OthersKeep DEF c
<1>14. \A x \in LBAs : ~Writes(c, x) /\ ~Writes(b, x)
  BY <1>1, <1>2 DEF Writes
<1>15. Executed' /\ (Tracks => Tracks')
  BY <1>0, <1>1, <1>3, <1>14, SameWriters DEF c
<1>16. ASSUME NEW x \in LBAs PROVE IsReal(c.data[x])
  <2>1. b.data \in [LBAs -> Contents] /\ IsReal(b.data[x])
    BY <1>0, <1>4 DEF Bios, Real
  <2>2. IsReal(Data(l, timestamp))
    BY <1>11 DEF IsReal, Data
  <2> QED BY <2>1, <2>2, <1>2
<1>17. Real'
  BY <1>0, <1>1, <1>3, <1>16, OthersKeep DEF c, Real
<1> QED BY <1>7, <1>9, <1>10, <1>13, <1>15, <1>17 DEF Base

(* A command that enters the device leaves no other command on its blocks. *)
LEMMA EnqueueInv ==
  ASSUME Base, NEW j \in Jobs, NEW s \in Slots, Enqueue(j, s)
  PROVE  Base' /\ (Tracks => Tracks')
<1> DEFINE b == bio[j][s]
           c == bio'[j][s]
<1>0. TypeOK /\ Shapes /\ Owned /\ Disjoint /\ LockKept /\ Stamped /\ Executed /\ Real
  BY DEF Base
<1>1. /\ bio' \in [Jobs -> [Slots -> Bios]] /\ Others(j, s) /\ Same(b, c)
      /\ b.stage = "enqueue" /\ c.stage = "flight" /\ c.ts = b.ts
      /\ c.todo = b.todo /\ c.data = b.data
  BY <1>0, EnqueueBio
<1> HIDE DEF c
<1>2. /\ BackupHist(b)
      /\ UNCHANGED <<media, ideal, faults, timestamp, locked, result, exited>>
  BY DEF Enqueue
<1>3. block_desc' = IF SporLevel3 /\ b.op = "write"
       THEN [l \in LBAs |-> IF l \in Span(b)
               THEN [Committed(b, l, block_desc[l]) EXCEPT !.state = "unwritten"]
               ELSE block_desc[l]]
       ELSE block_desc
  BY DEF Enqueue
<1>4. b \in Bios /\ BioShape(b)
  BY <1>0 DEF TypeOK, Shapes
<1>5. Span(c) = Span(b) /\ Range(c) = Range(b)
  BY <1>1 DEF Same, Span, Range
<1>8. TypeOK' /\ Shapes'
  BY <1>0, EnqueueTyped
<1>10. Owned' /\ Disjoint'
  BY <1>0, <1>1, SameExtent DEF c
<1>11. LockKept'
  <2>1. b.op # "flush" => Range(b) \in locked[j]
    BY <1>0, <1>1 DEF LockKept
  <2> QED BY <1>0, <1>1, <1>2, <1>5, <2>1, OthersKeep DEF c, Same
<1>12. Prepared(c) = Prepared(b)
  BY <1>1, <1>5 DEF Prepared, Same
<1>13. Stamped'
  BY <1>0, <1>1, <1>2, <1>12, OthersKeep DEF c, Stamped
<1>14. Executed'
  <2> SUFFICES ASSUME NEW k \in Jobs, NEW t \in Slots, NEW l \in LBAs,
                      Writes(bio'[k][t], l), l \notin bio'[k][t].todo
               PROVE  ideal[l] = Effect(bio'[k][t], l)
    BY <1>2 DEF Executed
  <2>1. CASE k = j /\ t = s
    <3>1. l \in Span(b) /\ l \notin b.todo
      BY <2>1, <1>1, <1>5 DEF c, Writes
    <3> QED BY <3>1, <1>1, <1>4 DEF BioShape
  <2>2. CASE k # j \/ t # s
    BY <2>2, <1>0, <1>1 DEF Executed, Others
  <2> QED BY <2>1, <2>2
<1>15. Tracks => Tracks'
  <2> SUFFICES ASSUME Tracks, NEW l \in LBAs,
                      \A k \in Jobs, t \in Slots : ~Writes(bio'[k][t], l)
               PROVE  Describes(block_desc'[l], l, ideal[l])
    BY <1>2 DEF Tracks
  <2>1. ~Writes(c, l)
    BY DEF c
  <2>2. ASSUME NEW k \in Jobs, NEW t \in Slots PROVE ~Writes(bio[k][t], l)
    <3>1. CASE k = j /\ t = s
      BY <3>1, <1>1 DEF Writes
    <3>2. CASE k # j \/ t # s
      BY <3>2, <1>1 DEF Others
    <3> QED BY <3>1, <3>2
  <2>3. Describes(block_desc[l], l, ideal[l])
    BY <2>2, <1>0 DEF Tracks
  <2>4. block_desc'[l] = block_desc[l]
    <3>1. b.op = "write" => l \notin Span(b)
      BY <2>1, <1>1, <1>5 DEF Writes, Same
    <3> QED BY <3>1, <1>3
  <2> QED BY <2>3, <2>4
<1>16. Real'
  BY <1>0, <1>1, <1>2, OthersKeep DEF c, Real
<1> QED BY <1>8, <1>10, <1>11, <1>13, <1>14, <1>15, <1>16 DEF Base

(* An executed block has its effect; no other command is on it. *)
LEMMA ExecuteInv ==
  ASSUME Base, NEW j \in Jobs, NEW s \in Slots, NEW l \in LBAs,
         ExecuteWrite(j, s, l) \/ LoseWrite(j, s, l)
  PROVE  Base' /\ (Tracks => Tracks')
<1> DEFINE b == bio[j][s]
           c == bio'[j][s]
<1>0. TypeOK /\ Shapes /\ Owned /\ Disjoint /\ LockKept /\ Stamped /\ Executed /\ Real
  BY DEF Base
<1>1. Executes(j, s, l)
  BY DEF ExecuteWrite, LoseWrite, Executes
<1>2. /\ bio' \in [Jobs -> [Slots -> Bios]] /\ Others(j, s) /\ Same(b, c)
      /\ b.stage = "flight" /\ c.stage = "flight" /\ c.ts = b.ts
      /\ b.op # "read" /\ l \in b.todo /\ c.todo = b.todo \ {l} /\ c.data = b.data
  BY <1>0, <1>1, ExecuteBio
<1>3. /\ media' = media \/ media' = [media EXCEPT ![l] = Effect(b, l)]
      /\ ideal' = [ideal EXCEPT ![l] = Effect(b, l)]
      /\ faults' = faults \/ (faults < MaxFaults /\ faults' = faults + 1)
      /\ UNCHANGED <<timestamp, block_desc, hist_desc, hist_idx, locked, result, exited>>
  BY DEF ExecuteWrite, LoseWrite
<1> HIDE DEF c
<1>4. b \in Bios /\ BioShape(b)
  BY <1>0 DEF TypeOK, Shapes
<1>5. Span(c) = Span(b) /\ Range(c) = Range(b) /\ \A x \in LBAs : Effect(c, x) = Effect(b, x)
  BY <1>2 DEF Same, Span, Range, Effect
<1>6. Effect(b, l) \in Contents /\ IsReal(Effect(b, l))
  BY <1>0, <1>4, EffectType DEF Real
<1>7. TypeOK' /\ Shapes'
  BY <1>0, ExecuteTyped
<1>9. Owned' /\ Disjoint'
  BY <1>0, <1>2, SameExtent DEF c
<1>10. LockKept'
  <2>1. b.op # "flush" => Range(b) \in locked[j]
    BY <1>0, <1>2 DEF LockKept
  <2> QED BY <1>0, <1>2, <1>3, <1>5, <2>1, OthersKeep DEF c, Same
<1>11. Prepared(c) = Prepared(b)
  BY <1>2, <1>5 DEF Prepared, Same
<1>12. Stamped'
  BY <1>0, <1>2, <1>3, <1>11, OthersKeep DEF c, Stamped
<1>13. \A x \in LBAs : ideal'[x] = IF x = l THEN Effect(b, l) ELSE ideal[x]
  BY <1>0, <1>3 DEF TypeOK
<1>14. l \in Span(b)
  BY <1>2, <1>4 DEF BioShape
<1>15. Executed'
  <2> SUFFICES ASSUME NEW k \in Jobs, NEW t \in Slots, NEW x \in LBAs,
                      Writes(bio'[k][t], x), x \notin bio'[k][t].todo
               PROVE  ideal'[x] = Effect(bio'[k][t], x)
    BY DEF Executed
  <2>1. CASE k = j /\ t = s
    <3>1. Writes(b, x) /\ x \notin c.todo
      BY <2>1, <1>2, <1>5 DEF c, Writes, Same
    <3>2. CASE x = l
      BY <2>1, <3>2, <1>5, <1>13 DEF c
    <3>3. CASE x # l
      <4>1. ideal[x] = Effect(b, x)
        BY <3>1, <3>3, <1>0, <1>2 DEF Executed
      <4> QED BY <4>1, <2>1, <3>3, <1>5, <1>13 DEF c
    <3> QED BY <3>2, <3>3
  <2>2. CASE k # j \/ t # s
    <3>1. bio'[k][t] = bio[k][t]
      BY <2>2, <1>2 DEF Others
    <3>2. x # l
      BY <2>2, <3>1, <1>0, <1>14 DEF Writes, Disjoint
    <3> QED BY <3>1, <3>2, <1>0, <1>13 DEF Executed
  <2> QED BY <2>1, <2>2
<1>16. \A x \in LBAs : Writes(c, x) <=> Writes(b, x)
  BY <1>2, <1>5 DEF Writes, Same
<1>17. Writes(b, l)
  <2>1. b.op # "flush"
    <3> SUFFICES ASSUME b.op = "flush" PROVE FALSE
      OBVIOUS
    <3>1. b.nlbs = 0 /\ b.slba \in Nat
      BY <1>4, SizesAssumption DEF BioShape, Bios, LBAs
    <3> QED BY <3>1, <1>14 DEF Span
  <2> QED BY <2>1, <1>2, <1>14 DEF Writes
<1>18. Tracks => Tracks'
  <2> SUFFICES ASSUME Tracks, NEW x \in LBAs,
                      \A k \in Jobs, t \in Slots : ~Writes(bio'[k][t], x)
               PROVE  Describes(block_desc[x], x, ideal'[x])
    BY <1>3 DEF Tracks
  <2>1. x # l
    BY <1>16, <1>17 DEF c
  <2>2. ASSUME NEW k \in Jobs, NEW t \in Slots PROVE ~Writes(bio[k][t], x)
    <3>1. CASE k = j /\ t = s
      BY <3>1, <1>16 DEF c
    <3>2. CASE k # j \/ t # s
      BY <3>2, <1>2 DEF Others
    <3> QED BY <3>1, <3>2
  <2> QED BY <2>1, <2>2, <1>0, <1>13 DEF Tracks
<1>19. \A x \in LBAs : IsReal(media'[x]) /\ IsReal(ideal'[x])
  BY <1>0, <1>3, <1>6 DEF Real, TypeOK
<1>20. Real'
  BY <1>0, <1>2, <1>19, OthersKeep DEF c, Real
<1> QED BY <1>7, <1>9, <1>10, <1>12, <1>15, <1>18, <1>20 DEF Base

LEMMA ReturnInv ==
  ASSUME Base, NEW j \in Jobs, NEW s \in Slots, NEW l \in LBAs, NEW m \in LBAs,
         Returns(j, s, l, m),
         faults' = faults \/ (faults < MaxFaults /\ faults' = faults + 1),
         UNCHANGED <<hist_desc, hist_idx, result>>
  PROVE  Base' /\ (Tracks => Tracks')
<1> DEFINE b == bio[j][s]
           c == bio'[j][s]
<1>0. TypeOK /\ Shapes /\ Owned /\ Disjoint /\ LockKept /\ Stamped /\ Executed /\ Real
  BY DEF Base
<1>1. /\ bio' \in [Jobs -> [Slots -> Bios]] /\ Others(j, s) /\ Same(b, c)
      /\ b.stage = "flight" /\ c.stage = "flight" /\ c.ts = b.ts /\ b.op = "read"
      /\ l \in b.todo /\ c.todo = b.todo \ {l}
      /\ c.data = [b.data EXCEPT ![l] = media[m]]
  BY <1>0, ReturnBio
<1> HIDE DEF c
<1>2. UNCHANGED <<media, ideal, timestamp, block_desc, locked, exited>>
  BY DEF Returns
<1>3. b \in Bios /\ BioShape(b)
  BY <1>0 DEF TypeOK, Shapes
<1>4. Span(c) = Span(b) /\ Range(c) = Range(b)
  BY <1>1 DEF Same, Span, Range
<1>5. TypeOK' /\ Shapes'
  BY <1>0, ReturnTyped
<1>7. Owned' /\ Disjoint'
  BY <1>0, <1>1, SameExtent DEF c
<1>8. LockKept'
  <2>1. Range(b) \in locked[j]
    BY <1>0, <1>1 DEF LockKept
  <2> QED BY <1>0, <1>1, <1>2, <1>4, <2>1, OthersKeep DEF c
<1>9. Prepared(c) = {} /\ \A x \in LBAs : ~Writes(c, x) /\ ~Writes(b, x)
  BY <1>1 DEF Prepared, Writes, Same
<1>10. Stamped'
  BY <1>0, <1>1, <1>2, <1>9, OthersKeep DEF c
<1>11. Executed' /\ (Tracks => Tracks')
  BY <1>0, <1>1, <1>2, <1>9, SameWriters DEF c
<1>12. ASSUME NEW x \in LBAs PROVE IsReal(c.data[x])
  <2>1. b.data \in [LBAs -> Contents] /\ IsReal(b.data[x]) /\ IsReal(media[m])
    BY <1>0, <1>3 DEF Bios, Real
  <2> QED BY <2>1, <1>1
<1>13. Real'
  <2>1. \A x \in LBAs : IsReal(media'[x]) /\ IsReal(ideal'[x])
    BY <1>0, <1>2 DEF Real
  <2> QED BY <2>1, <1>0, <1>1, <1>12, OthersKeep DEF c
<1> QED BY <1>5, <1>7, <1>8, <1>10, <1>11, <1>13 DEF Base

(* The range of a completed bio is given back; no other bio holds it. *)
LEMMA CompleteInv ==
  ASSUME Base, NEW j \in Jobs, NEW s \in Slots, Complete(j, s)
  PROVE  Base' /\ (Tracks => Tracks')
<1> DEFINE b == bio[j][s]
           c == bio'[j][s]
<1>0. TypeOK /\ Shapes /\ Owned /\ Disjoint /\ LockKept /\ Stamped /\ Executed /\ Real
  BY DEF Base
<1>1. /\ bio' \in [Jobs -> [Slots -> Bios]] /\ Others(j, s) /\ Same(b, c)
      /\ b.stage = "flight" /\ c.stage = "submit" /\ c.ts = b.ts
      /\ b.todo = {} /\ c.todo = {} /\ c.data = b.data
  BY <1>0, CompleteBio
<1> HIDE DEF c
<1>2. /\ UNCHANGED <<media, ideal, faults, timestamp, block_desc, hist_desc, hist_idx,
                     result, exited>>
      /\ IF b.op = "flush" THEN locked' = locked
                           ELSE locked' = [locked EXCEPT ![j] = @ \ {Range(b)}]
  BY DEF Complete, Lock!Release
<1>3. b \in Bios /\ BioShape(b)
  BY <1>0 DEF TypeOK, Shapes
<1>4. Span(c) = Span(b) /\ Range(c) = Range(b) /\ \A x \in LBAs : Effect(c, x) = Effect(b, x)
  BY <1>1 DEF Same, Span, Range, Effect
<1>5. TypeOK' /\ Shapes'
  BY <1>0, CompleteTyped
<1>7. Owned' /\ Disjoint'
  BY <1>0, <1>1, SameExtent DEF c
<1>8. LockKept'
  <2> SUFFICES ASSUME NEW k \in Jobs, NEW t \in Slots,
                      bio'[k][t].stage \in {"count", "stamp", "enqueue", "flight"},
                      bio'[k][t].op # "flush"
               PROVE  Range(bio'[k][t]) \in locked'[k]
    BY DEF LockKept
  <2>1. k # j \/ t # s
    BY <1>1 DEF c
  <2>2. bio'[k][t] = bio[k][t]
    BY <2>1, <1>1 DEF Others
  <2>3. Range(bio[k][t]) \in locked[k]
    BY <2>2, <1>0 DEF LockKept
  <2>4. ASSUME k = j, b.op # "flush"
        PROVE  Range(bio[k][t]) # Range(b)
    <3>1. Span(b) \cap Span(bio[k][t]) = {}
      BY <2>1, <1>0 DEF Disjoint
    <3>2. Span(Range(b)) = Span(b) /\ Span(Range(bio[k][t])) = Span(bio[k][t])
      BY DEF Span, Range
    <3>3. Range(b) \in Lock!Ranges
      BY <2>4, <1>1, <1>3 DEF BioShape
    <3> QED BY <3>1, <3>2, <3>3, RangeFacts
  <2> QED BY <2>2, <2>3, <2>4, <1>0, <1>2 DEF TypeOK
<1>9. Prepared(c) = Prepared(b)
  BY <1>1, <1>4 DEF Prepared, Same
<1>10. Stamped'
  BY <1>0, <1>1, <1>2, <1>9, OthersKeep DEF c, Stamped
<1>11. \A x \in LBAs : Writes(c, x) <=> Writes(b, x)
  BY <1>1, <1>4 DEF Writes, Same
<1>12. \A x \in LBAs : Writes(c, x) => ideal[x] = Effect(c, x)
  BY <1>0, <1>1, <1>4, <1>11 DEF Executed
<1>13. Executed' /\ (Tracks => Tracks')
  BY <1>0, <1>1, <1>2, <1>11, <1>12, SameWriters DEF c
<1>14. Real'
  <2>1. \A x \in LBAs : IsReal(media'[x]) /\ IsReal(ideal'[x])
    BY <1>0, <1>2 DEF Real
  <2> QED BY <2>1, <1>0, <1>1, OthersKeep DEF c, Real
<1> QED BY <1>5, <1>7, <1>8, <1>10, <1>13, <1>14 DEF Base

(* The descriptor a command commits describes what it left on the block. *)
LEMMA CommitDescribes ==
  ASSUME NEW b \in Bios, NEW l \in LBAs, NEW d \in BlockDescs,
         b.op \in {"write", "deallocate", "write_zeroes", "write_uncorrect"},
         b.op = "write" => IsStamp(b.data[l], l)
  PROVE  Describes(Committed(b, l, d), l, Effect(b, l))
<1> DEFINE e == Committed(b, l, d)
           c == Effect(b, l)
<1>1. CASE b.op = "write"
  <2>1. e.state = "data" /\ e.timestamp = b.data[l].ts % TsMod /\ c = b.data[l]
    BY <1>1 DEF Committed, Effect
  <2> QED BY <2>1, <1>1 DEF Describes, Matches, VerifyBlockData, IsStamp
<1>2. CASE b.op = "deallocate"
  <2>1. e.state = "dealloc" /\ c = Plain(DeallocRead)
    BY <1>2 DEF Committed, Effect, BlockDescs
  <2> QED BY <2>1 DEF Describes, Matches
<1>3. CASE b.op = "write_zeroes"
  <2>1. e.state = "zeroes" /\ c = Plain("zeroes")
    BY <1>3 DEF Committed, Effect, BlockDescs
  <2> QED BY <2>1 DEF Describes, Matches
<1>4. CASE b.op = "write_uncorrect"
  <2>1. e.state = "uncor" /\ c = Plain("uncor")
    BY <1>4 DEF Committed, Effect, BlockDescs
  <2> QED BY <2>1 DEF Describes, Matches
<1> QED BY <1>1, <1>2, <1>3, <1>4

(* The end of a command by itself: its bio is free, or the process exits.  *)
LEMMA FreeInv ==
  ASSUME Base, NEW j \in Jobs, NEW s \in Slots, block_desc' \in [LBAs -> BlockDescs],
         result' \in {-1, 0, 1}, exited' \in BOOLEAN,
         UNCHANGED <<media, ideal, faults, timestamp, hist_desc, hist_idx, locked>>,
         \/ bio' = bio
         \/ bio' \in [Jobs -> [Slots -> Bios]] /\ Others(j, s) /\ bio'[j][s] = NoBio
  PROVE  Base'
<1> DEFINE c == bio'[j][s]
<1>0. TypeOK /\ Shapes /\ Owned /\ Disjoint /\ LockKept /\ Stamped /\ Executed /\ Real
  BY DEF Base
<1>1. TypeOK' /\ Shapes'
  BY <1>0, FreeTyped
<1>2. CASE bio' = bio
  <2>1. Owned' /\ Disjoint' /\ LockKept'
    BY <1>0, <1>2 DEF Owned, Disjoint, LockKept
  <2>2. Stamped' /\ Executed' /\ Real'
    BY <1>0, <1>2 DEF Stamped, Executed, Real
  <2> QED BY <1>1, <2>1, <2>2 DEF Base
<1> HIDE DEF c
<1>3. CASE bio' \in [Jobs -> [Slots -> Bios]] /\ Others(j, s) /\ c = NoBio
  <2>1. /\ c.stage = "free" /\ c.op = "none" /\ c.slba = 0 /\ c.nlbs = 0 /\ c.todo = {}
        /\ \A l \in LBAs : IsReal(c.data[l])
    BY <1>3 DEF NoBio, IsReal, Plain
  <2>2. Span(c) = {}
    BY <2>1 DEF Span
  <2>4. \A k \in Jobs, t \in Slots : k # j \/ t # s => bio'[k][t] = bio[k][t]
    BY <1>3 DEF Others
  <2>6. Owned'
    BY <1>0, <2>2, <2>4 DEF Owned, c
  <2>7. Disjoint'
    <3> SUFFICES ASSUME NEW k \in Jobs, NEW t \in Slots, NEW h \in Jobs, NEW u \in Slots,
                        h # k \/ u # t
                 PROVE  Span(bio'[k][t]) \cap Span(bio'[h][u]) = {}
      BY DEF Disjoint
    <3>1. CASE (k = j /\ t = s) \/ (h = j /\ u = s)
      BY <3>1, <2>2 DEF c
    <3>2. CASE (k # j \/ t # s) /\ (h # j \/ u # s)
      BY <3>2, <1>0, <2>4 DEF Disjoint
    <3> QED BY <3>1, <3>2
  <2>8. LockKept'
    BY <1>0, <1>3, <2>1, OthersKeep DEF c
  <2>9. Prepared(c) = {} /\ \A l \in LBAs : ~Writes(c, l)
    BY <2>1 DEF Prepared, Writes
  <2>10. Stamped'
    BY <1>0, <1>3, <2>1, <2>9, OthersKeep DEF c
  <2>11. Real'
    <3>1. \A x \in LBAs : IsReal(media'[x]) /\ IsReal(ideal'[x])
      BY <1>0 DEF Real
    <3> QED BY <3>1, <1>0, <1>3, <2>1, OthersKeep DEF c
  <2>12. Executed'
    <3> SUFFICES ASSUME NEW k \in Jobs, NEW t \in Slots, NEW l \in LBAs,
                        Writes(bio'[k][t], l), l \notin bio'[k][t].todo
                 PROVE  ideal[l] = Effect(bio'[k][t], l)
      BY DEF Executed
    <3>1. k # j \/ t # s
      BY <2>9 DEF c
    <3> QED BY <3>1, <2>4, <1>0 DEF Executed
  <2> QED BY <1>1, <2>6, <2>7, <2>8, <2>10, <2>11, <2>12 DEF Base
<1> QED BY <1>2, <1>3 DEF c

(* The journal takes over from the bio. *)
LEMMA SubmitInv ==
  ASSUME Base, NEW j \in Jobs, NEW s \in Slots, Submit(j, s)
  PROVE  Base' /\ (Tracks => Tracks')
<1> DEFINE b == bio[j][s]
           c == bio'[j][s]
<1>0. TypeOK /\ Shapes /\ Stamped /\ Executed
  BY DEF Base
<1>1. /\ b.stage = "submit"
      /\ \/ bio' = bio /\ b.op = "read"
         \/ /\ bio' \in [Jobs -> [Slots -> Bios]] /\ Others(j, s)
            /\ c = NoBio
  BY <1>0, SubmitBio
<1>2. /\ block_desc' = [l \in LBAs |->
           IF l \in Span(b) THEN Committed(b, l, block_desc[l]) ELSE block_desc[l]]
      /\ UNCHANGED <<media, ideal, faults, timestamp, hist_desc, hist_idx, locked>>
  BY DEF Submit
<1>3. result' \in {-1, 0, 1} /\ exited' \in BOOLEAN
  BY <1>0 DEF Submit, TypeOK
<1> HIDE DEF c
<1>4. b \in Bios /\ BioShape(b)
  BY <1>0 DEF TypeOK, Shapes
<1>5. Base'
  <2>1. block_desc' \in [LBAs -> BlockDescs]
    BY <1>0, <1>2, <1>4, CommittedType DEF TypeOK
  <2> QED BY <1>1, <1>2, <1>3, <2>1, FreeInv DEF c
<1>6. ASSUME b.op \in {"read", "flush"}
      PROVE  block_desc' = block_desc
  <2>1. \A l \in LBAs : Committed(b, l, block_desc[l]) = block_desc[l]
    BY <1>6 DEF Committed
  <2> QED BY <2>1, <1>0, <1>2 DEF TypeOK
<1>7. CASE bio' = bio /\ b.op = "read"
  BY <1>2, <1>5, <1>6, <1>7 DEF Tracks
<1>8. CASE Others(j, s) /\ c = NoBio
  <2>2. \A k \in Jobs, t \in Slots : k # j \/ t # s => bio'[k][t] = bio[k][t]
    BY <1>8 DEF Others
  <2>3. Tracks => Tracks'
    <3> SUFFICES ASSUME Tracks, NEW l \in LBAs,
                        \A k \in Jobs, t \in Slots : ~Writes(bio'[k][t], l)
                 PROVE  Describes(block_desc'[l], l, ideal[l])
      BY <1>2 DEF Tracks
    <3>1. CASE Writes(b, l)
      <4>1. b.op \in {"write", "deallocate", "write_zeroes", "write_uncorrect"}
        BY <3>1, <1>1, <1>4 DEF Writes, BioShape, Bios, Opcodes
      <4>2. b.op = "write" => IsStamp(b.data[l], l)
        BY <3>1, <1>0, <1>1 DEF Stamped, Prepared, Writes
      <4>3. ideal[l] = Effect(b, l)
        BY <3>1, <1>0, <1>1, <1>4 DEF Executed, BioShape
      <4>4. block_desc'[l] = Committed(b, l, block_desc[l]) /\ block_desc[l] \in BlockDescs
        BY <3>1, <1>0, <1>2 DEF Writes, TypeOK
      <4> QED BY <4>1, <4>2, <4>3, <4>4, <1>4, CommitDescribes
    <3>2. CASE ~Writes(b, l)
      <4>1. \A k \in Jobs, t \in Slots : ~Writes(bio[k][t], l)
        BY <3>2, <2>2
      <4>2. Describes(block_desc[l], l, ideal[l])
        BY <4>1 DEF Tracks
      <4>3. block_desc'[l] = block_desc[l]
        BY <3>2, <1>1, <1>2, <1>6 DEF Writes
      <4> QED BY <4>2, <4>3
    <3> QED BY <3>1, <3>2
  <2> QED BY <1>5, <2>3
<1> QED BY <1>1, <1>7, <1>8
-----------------------------------------------------------------------------
LEMMA InitInv == Init => Inv
<1> SUFFICES ASSUME Init PROVE Inv
  OBVIOUS
<1>1. \A j \in Jobs, s \in Slots : bio[j][s] = NoBio
  BY DEF Init
<1>2. /\ NoBio.stage = "free" /\ NoBio.op = "none" /\ NoBio.slba = 0 /\ NoBio.nlbs = 0
      /\ NoBio.todo = {} /\ \A l \in LBAs : IsReal(NoBio.data[l])
  BY DEF NoBio, IsReal, Plain
<1>3. Unwritten \in Contents /\ IsReal(Unwritten)
  BY ContentFacts DEF Unwritten, IsReal, Plain
<1>4. \A l \in LBAs : media[l] = Unwritten /\ ideal[l] = Unwritten
  BY DEF Init, Unwritten
<1>5. TypeOK
  <2>1. media \in [LBAs -> Contents] /\ ideal \in [LBAs -> Contents]
    BY <1>3 DEF Init, Unwritten
  <2>2. faults \in 0 .. MaxFaults /\ timestamp \in 0 .. MaxTs /\ hist_idx \in Nat
    BY NumbersAssumption DEF Init
  <2>3. 0 \in 0 .. TsMod - 1
    BY NumbersAssumption
  <2>4. block_desc \in [LBAs -> BlockDescs] /\ NoHist \in HistDescs
    BY <2>3 DEF Init, BlockDescs, BlockStates, HistDescs, NoHist
  <2>5. hist_desc \in [0 .. NHist - 1 -> HistDescs]
    BY <2>4 DEF Init
  <2>6. bio \in [Jobs -> [Slots -> Bios]] /\ locked \in [Jobs -> SUBSET Lock!Ranges]
    BY NoBioType DEF Init
  <2> QED BY <2>1, <2>2, <2>4, <2>5, <2>6 DEF Init, TypeOK
<1>6. Span(NoBio) = {}
  BY <1>2 DEF Span
<1>7. BioShape(NoBio)
  BY <1>2, <1>6, SizesAssumption DEF BioShape
<1>8. Shapes /\ Owned /\ Disjoint /\ LockKept
  BY <1>1, <1>2, <1>6, <1>7 DEF Shapes, Owned, Disjoint, LockKept
<1>9. Prepared(NoBio) = {} /\ \A l \in LBAs : ~Writes(NoBio, l)
  BY <1>2 DEF Prepared, Writes
<1>10. Stamped /\ Executed /\ Real
  BY <1>1, <1>2, <1>3, <1>4, <1>9 DEF Stamped, Executed, Real
<1>11. Tracks
  <2>1. ASSUME NEW l \in LBAs PROVE Describes(block_desc[l], l, ideal[l])
    <3>1. block_desc[l].state = "unwritten" /\ ideal[l] = Unwritten
      BY <1>4 DEF Init
    <3>2. UnwrRead = "dontcare" \/ Unwritten = Plain(UnwrRead)
      BY ParamsAssumption DEF Unwritten
    <3> QED BY <3>1, <3>2 DEF Describes, Matches
  <2> QED BY <2>1 DEF Tracks
<1> QED BY <1>5, <1>8, <1>10, <1>11 DEF Inv, Base

LEMMA DeviceInv ==
  ASSUME Base, Device
  PROVE  Base' /\ (Tracks => Tracks')
<1>1. PICK j \in Jobs, s \in Slots, l \in LBAs :
        \/ ExecuteWrite(j, s, l) \/ ExecuteRead(j, s, l)
        \/ LoseWrite(j, s, l) \/ \E m \in LBAs : MisdirectRead(j, s, l, m)
  BY DEF Device
<1>2. CASE ExecuteWrite(j, s, l) \/ LoseWrite(j, s, l)
  BY <1>2, ExecuteInv
<1>3. CASE ExecuteRead(j, s, l)
  <2>1. /\ Returns(j, s, l, l) /\ faults' = faults
        /\ UNCHANGED <<hist_desc, hist_idx, result>>
    BY <1>3 DEF ExecuteRead, Returns
  <2> QED BY <2>1, ReturnInv
<1>4. ASSUME NEW m \in LBAs, MisdirectRead(j, s, l, m)
      PROVE  Base' /\ (Tracks => Tracks')
  <2>1. /\ Returns(j, s, l, m) /\ faults < MaxFaults /\ faults' = faults + 1
        /\ UNCHANGED <<hist_desc, hist_idx, result>>
    BY <1>4 DEF MisdirectRead, Returns
  <2> QED BY <2>1, ReturnInv
<1> QED BY <1>1, <1>2, <1>3, <1>4

LEMMA NextInv == Inv /\ [Next]_vars /\ CommitAlone' => Inv'
<1> SUFFICES ASSUME Inv, [Next]_vars, CommitAlone' PROVE Base' /\ (Tracks => Tracks')
  BY DEF Inv
<1>0. Base
  BY DEF Inv
<1>1. CASE UNCHANGED vars
  <2>1. TypeOK' /\ Shapes' /\ Owned' /\ Disjoint' /\ LockKept'
    BY <1>0, <1>1 DEF vars, Base, TypeOK, Shapes, Owned, Disjoint, LockKept
  <2>2. Stamped' /\ Executed' /\ (Tracks => Tracks') /\ Real'
    BY <1>0, <1>1 DEF vars, Base, Stamped, Executed, Tracks, Real
  <2> QED BY <2>1, <2>2 DEF Base
<1>2. CASE Device
  BY <1>0, <1>2, DeviceInv
<1>3. ASSUME NEW j \in Jobs, NEW s \in Slots,
             \/ \E op \in Ops, r \in Lock!Ranges : Generate(j, s, op, r)
             \/ GenerateFlush(j, s)
             \/ Count(j, s) \/ Stamp(j, s) \/ Enqueue(j, s)
             \/ Complete(j, s) \/ Submit(j, s)
      PROVE  Base' /\ (Tracks => Tracks')
  BY <1>0, <1>3, GenerateTakes, GenerateInv, GenerateFlushInv, CountInv, StampInv, EnqueueInv, CompleteInv,
     SubmitInv
<1> QED BY <1>1, <1>2, <1>3 DEF Next

(* A bio gets its LBAs from the range of its job and keeps them. *)
LEMMA NextOwned == TypeOK /\ Shapes /\ Owned /\ [Next]_vars => Owned'
<1> SUFFICES ASSUME TypeOK, Shapes, Owned, [Next]_vars PROVE Owned'
  OBVIOUS
<1>1. CASE UNCHANGED vars
  BY <1>1 DEF vars, Owned
<1>2. ASSUME NEW j \in Jobs, NEW s \in Slots, Others(j, s),
             Span(bio'[j][s]) \subseteq JobLbas[j]
      PROVE  Owned'
  BY <1>2 DEF Owned, Others
<1>3. ASSUME NEW j \in Jobs, NEW s \in Slots, Others(j, s), Same(bio[j][s], bio'[j][s])
      PROVE  Owned'
  <2>1. Span(bio'[j][s]) = Span(bio[j][s])
    BY <1>3 DEF Same, Span
  <2> QED BY <2>1, <1>2, <1>3 DEF Owned
<1>4. CASE Device
  <2>1. PICK j \in Jobs, s \in Slots, l \in LBAs :
          \/ ExecuteWrite(j, s, l) \/ ExecuteRead(j, s, l)
          \/ LoseWrite(j, s, l) \/ \E m \in LBAs : MisdirectRead(j, s, l, m)
    BY <1>4 DEF Device
  <2>2. Executes(j, s, l) \/ \E m \in LBAs : Returns(j, s, l, m)
    BY <2>1 DEF ExecuteWrite, LoseWrite, ExecuteRead, MisdirectRead, Executes, Returns
  <2> QED BY <2>2, <1>3, ExecuteBio, ReturnBio
<1>5. ASSUME NEW j \in Jobs, NEW s \in Slots,
             \E op \in Ops, r \in Lock!Ranges : Generate(j, s, op, r)
      PROVE  Owned'
  <2>1. PICK op \in Opcodes \ {"flush"}, r \in Lock!Ranges : Takes(j, s, op, r)
    BY <1>5, GenerateTakes
  <2>2. Others(j, s) /\ Span(bio'[j][s]) = Span(r)
    BY <2>1, GenerateBio
  <2>3. Span(r) \subseteq JobLbas[j]
    BY <2>1, RangeFacts DEF Takes
  <2> QED BY <2>2, <2>3, <1>2
<1>6. ASSUME NEW j \in Jobs, NEW s \in Slots, GenerateFlush(j, s) PROVE Owned'
  <2>1. Others(j, s) /\ bio'[j][s].slba = 0 /\ bio'[j][s].nlbs = 0
    BY <1>6, GenerateTakes, GenerateFlushBio
  <2>2. Span(bio'[j][s]) = {}
    BY <2>1 DEF Span
  <2> QED BY <2>1, <2>2, <1>2
<1>7. ASSUME NEW j \in Jobs, NEW s \in Slots,
             Count(j, s) \/ Stamp(j, s) \/ Enqueue(j, s) \/ Complete(j, s)
      PROVE  Owned'
  BY <1>7, <1>3, CountBio, StampBio, EnqueueBio, CompleteBio
<1>8. ASSUME NEW j \in Jobs, NEW s \in Slots, Submit(j, s) PROVE Owned'
  <2>1. CASE bio' = bio
    BY <2>1 DEF Owned
  <2>2. CASE Others(j, s) /\ bio'[j][s] = NoBio
    <3>1. Span(NoBio) = {}
      BY DEF Span, NoBio
    <3> QED BY <3>1, <2>2, <1>2
  <2> QED BY <2>1, <2>2, <1>8, SubmitBio
<1> QED BY <1>1, <1>4, <1>5, <1>6, <1>7, <1>8 DEF Next

LEMMA InvHolds == Spec /\ []CommitAlone => []Inv
  BY InitInv, NextInv, PTL DEF Spec

(* Type correctness: whatever the jobs and the device do, in any order,    *)
(* the journal, its history ring, the bios and the locks keep their form,  *)
(* timestamps fit the u16 of block_desc and the ring is indexed inside its *)
(* slots, with or without LBAs that jobs share.                            *)
THEOREM TypeCorrect == Spec => []TypeOK
<1>1. Init => TypeOK /\ Shapes
  BY InitInv DEF Inv, Base
<1> QED BY <1>1, NextTyped, PTL DEF Spec

(* Jobs with LBAs of their own leave each other's completions alone.       *)
THEOREM OwnRangesCommitAlone ==
  ASSUME DisjointJobs
  PROVE  Spec => []CommitAlone
<1>1. Init => Shapes /\ TypeOK /\ Owned
  BY InitInv DEF Inv, Base
<1>2. TypeOK /\ Shapes /\ Owned /\ [Next]_vars => Owned'
  BY NextOwned
<1>3. Owned => CommitAlone
  BY DEF Owned, CommitAlone, DisjointJobs
<1> QED BY <1>1, <1>2, <1>3, NextTyped, PTL DEF Spec

(* iover_submit leaves the journal true: away from the commands under way  *)
(* each descriptor describes what a correct device holds, also on LBAs     *)
(* that jobs share, as long as none takes them between the unlock and the  *)
(* commit of another.                                                      *)
THEOREM JournalTrue == Spec /\ []CommitAlone => []JournalTracksDevice
<1>1. Inv => JournalTracksDevice
  BY DEF Inv, Base, Tracks, Describes, JournalTracksDevice
<1> QED BY <1>1, InvHolds, PTL

(* A descriptor under a read that completes describes its block. *)
LEMMA ReadDescribed ==
  ASSUME Inv, NEW j \in Jobs, NEW s \in Slots, bio[j][s].op = "read",
         NEW l \in Span(bio[j][s])
  PROVE  l \in LBAs /\ Describes(block_desc[l], l, ideal[l])
<1>0. TypeOK /\ Shapes /\ Owned /\ Disjoint /\ Tracks
  BY DEF Inv, Base
<1>1. bio[j][s] \in Bios /\ BioShape(bio[j][s])
  BY <1>0 DEF TypeOK, Shapes
<1>2. l \in LBAs
  BY <1>1, LbaFacts DEF BioShape
<1>3. ASSUME NEW k \in Jobs, NEW t \in Slots PROVE ~Writes(bio[k][t], l)
  <2>1. CASE k = j /\ t = s
    BY <2>1 DEF Writes
  <2>2. CASE k # j \/ t # s
    BY <2>2, <1>0 DEF Writes, Disjoint
  <2> QED BY <2>1, <2>2
<1> QED BY <1>0, <1>2, <1>3 DEF Tracks

(* What a descriptor describes, verify_bio_read accepts. *)
LEMMA DescribedAccepted ==
  ASSUME NEW l \in LBAs, NEW d \in BlockDescs, NEW c \in Contents, Describes(d, l, c)
  PROVE  Accepts(d, l, c) /\ (c.kind = "uncor" => d.state = "uncor")
<1>1. \A k : Plain(k).kind = k
  BY DEF Plain
<1>2. IsAll("zeroes", Plain("zeroes")) /\ IsAll("ones", Plain("ones"))
  BY <1>1 DEF IsAll, IsAllZeroes, IsAllOnes
<1>3. d.state \in BlockStates
  BY DEF BlockDescs
<1>4. CASE d.state = "unwritten"
  <2>1. c = Unwritten /\ (UnwrRead = "dontcare" \/ c = Plain(UnwrRead))
    BY <1>4 DEF Describes, Matches
  <2>2. Accepts(d, l, c)
    BY <2>1, <1>2, <1>4, ParamsAssumption DEF Accepts
  <2>3. c.kind # "uncor"
    BY <2>1, <1>1 DEF Unwritten
  <2> QED BY <2>2, <2>3
<1>5. CASE d.state = "dealloc"
  <2>1. c = Plain(DeallocRead)
    BY <1>5 DEF Describes, Matches
  <2> QED BY <2>1, <1>1, <1>2, <1>5, ParamsAssumption DEF Accepts
<1>6. CASE d.state = "zeroes"
  <2>1. c = Plain("zeroes")
    BY <1>6 DEF Describes, Matches
  <2> QED BY <2>1, <1>1, <1>6 DEF Accepts
<1>7. CASE d.state = "uncor"
  BY <1>7 DEF Accepts
<1>8. CASE d.state = "data"
  BY <1>8 DEF Describes, Matches, Accepts, VerifyBlockData
<1>9. d.state # "none"
  BY DEF Describes, Matches
<1> QED BY <1>3, <1>4, <1>5, <1>6, <1>7, <1>8, <1>9 DEF BlockStates

(* A correct device is never blamed: iover_submit reports an error or a    *)
(* miscompare only for a read that returned a wrong block, although it     *)
(* reads the descriptors after it has given the range back, as long as no  *)
(* other job takes the range before it has done so.                        *)
THEOREM NeverBlamed == Spec /\ []CommitAlone => []NoFalseAlarm
<1>1. Inv => NoFalseAlarm
  <2> SUFFICES ASSUME Inv, NEW j \in Jobs, NEW s \in Slots,
                      Unexpected(bio[j][s]) \/ Miscompare(bio[j][s]),
                      \A l \in Span(bio[j][s]) : bio[j][s].data[l] = ideal[l]
               PROVE  FALSE
    BY DEF NoFalseAlarm
  <2> DEFINE b == bio[j][s]
  <2>1. b.op = "read"
    BY DEF Unexpected, Miscompare, Failed
  <2>2. ASSUME NEW l \in Span(b)
        PROVE  /\ Accepts(block_desc[l], l, b.data[l])
               /\ b.data[l].kind = "uncor" => block_desc[l].state = "uncor"
    <3>1. l \in LBAs /\ Describes(block_desc[l], l, ideal[l])
      BY <2>1, ReadDescribed
    <3>2. block_desc[l] \in BlockDescs /\ ideal[l] \in Contents
      BY <3>1 DEF Inv, Base, TypeOK
    <3> QED BY <3>1, <3>2, DescribedAccepted
  <2>3. ~Miscompare(b)
    BY <2>2 DEF Miscompare
  <2>4. ~Unexpected(b)
    BY <2>2 DEF Unexpected, Failed
  <2> QED BY <2>3, <2>4
<1> QED BY <1>1, InvHolds, PTL

(* Within one round of the u16 timestamp two stamps are told apart. *)
LEMMA StampsDiffer ==
  ASSUME NEW a \in 1 .. TsMod, NEW b \in 1 .. TsMod, a % TsMod = b % TsMod
  PROVE  a = b
<1>1. TsMod \in Nat \ {0}
  BY NumbersAssumption
<1>2. TsMod % TsMod = 0
  BY <1>1
<1>3. \A x \in 0 .. TsMod - 1 : x % TsMod = x
  BY <1>1
<1> QED BY <1>1, <1>2, <1>3

(* A wrong block is reported, as long as no more than 2^16 writes have     *)
(* been stamped: a read that succeeds and returns, for a block last        *)
(* written with data, anything but that data is a miscompare, again as     *)
(* long as no job takes a range between the unlock and the commit of       *)
(* another.                                                                *)
THEOREM WrongReported ==
  ASSUME MaxTs <= TsMod
  PROVE  Spec /\ []CommitAlone => []WrongDataReported
<1>1. Inv => WrongDataReported
  <2> SUFFICES ASSUME Inv, NEW j \in Jobs, NEW s \in Slots,
                      bio[j][s].op = "read", ~Failed(bio[j][s]),
                      NEW l \in Span(bio[j][s]), block_desc[l].state = "data",
                      bio[j][s].data[l] # ideal[l]
               PROVE  Miscompare(bio[j][s])
    BY DEF WrongDataReported
  <2> DEFINE b == bio[j][s]
             c == b.data[l]
             i == ideal[l]
             d == block_desc[l]
  <2>1. l \in LBAs /\ Describes(d, l, i)
    BY ReadDescribed
  <2>2. c \in Contents /\ i \in Contents /\ IsReal(c) /\ IsReal(i)
    BY <2>1 DEF Inv, Base, TypeOK, Bios, Real
  <2>3. i.kind = "data" /\ i.lba = l /\ i.ts % TsMod = d.timestamp
    BY <2>1 DEF Describes, Matches, VerifyBlockData
  <2> HIDE DEF c, i
  <2>4. ~VerifyBlockData(d, l, c)
    <3> SUFFICES ASSUME c.kind = "data", c.lba = l, c.ts % TsMod = d.timestamp PROVE FALSE
      BY DEF VerifyBlockData
    <3>1. c.ts \in 1 .. TsMod /\ i.ts \in 1 .. TsMod
      BY <2>2, <2>3, NumbersAssumption DEF Contents, IsReal
    <3>2. c.ts = i.ts
      BY <3>1, <2>3, StampsDiffer
    <3>3. c = i
      BY <3>2, <2>2, <2>3 DEF Contents
    <3> QED BY <3>3 DEF c, i
  <2>5. ~Accepts(d, l, c)
    BY <2>4 DEF Accepts
  <2> QED BY <2>5 DEF Miscompare, c
<1> QED BY <1>1, InvHolds, PTL
-----------------------------------------------------------------------------
(* One job: its timestamps only grow, and a write under way is newer than  *)
(* the blocks it is about to replace.                                      *)
OneJobOnly == \A j, k \in Jobs : j = k
Busy(j, s) == bio[j][s].stage \notin {"free", "flight"}
OneBusy == \A j \in Jobs, s, t \in Slots : Busy(j, s) /\ Busy(j, t) => s = t
Aged(b, n) == b.op = "write" => \A l \in LBAs : b.data[l].ts <= n
Newest ==
  /\ \A l \in LBAs : ideal[l].ts <= timestamp
  /\ \A j \in Jobs, s \in Slots : Aged(bio[j][s], timestamp)
Counting == \A j \in Jobs, s \in Slots : bio[j][s].stage = "count" => bio[j][s].ts = timestamp
Stamping ==
  \A j \in Jobs, s \in Slots : bio[j][s].stage = "stamp" =>
    /\ \A l \in LBAs : ideal[l].ts < timestamp
    /\ \A t \in Slots \ {s} : Aged(bio[j][t], timestamp - 1)
    /\ \A l \in Span(bio[j][s]) \ bio[j][s].todo : bio[j][s].data[l].ts = timestamp
Ahead ==
  \A j \in Jobs, s \in Slots :
    bio[j][s].op = "write" /\ bio[j][s].stage \in {"enqueue", "flight"} =>
      \A l \in bio[j][s].todo : ideal[l].ts < bio[j][s].data[l].ts
Fresh == OneBusy /\ Newest /\ Counting /\ Stamping /\ Ahead

(* A step that changes neither the counter nor a block is about its bio. *)
LEMMA FreshBio ==
  ASSUME OneJobOnly, Fresh, NEW j \in Jobs, NEW s \in Slots, Others(j, s),
         timestamp' = timestamp, ideal' = ideal,
         Busy(j, s)' => Busy(j, s) \/ \A t \in Slots : ~Busy(j, t),
         Aged(bio'[j][s], timestamp),
         \A t \in Slots \ {s} : bio[j][t].stage = "stamp" => Aged(bio'[j][s], timestamp - 1),
         bio'[j][s].stage = "count" => bio'[j][s].ts = timestamp,
         bio'[j][s].stage = "stamp" =>
           /\ bio[j][s].stage = "stamp"
           /\ \A l \in Span(bio'[j][s]) \ bio'[j][s].todo : bio'[j][s].data[l].ts = timestamp,
         bio'[j][s].op = "write" /\ bio'[j][s].stage \in {"enqueue", "flight"} =>
           \A l \in bio'[j][s].todo : ideal[l].ts < bio'[j][s].data[l].ts
  PROVE  Fresh'
<1>0. OneBusy /\ Newest /\ Counting /\ Stamping /\ Ahead
  BY DEF Fresh
<1>1. \A k \in Jobs : k = j
  BY DEF OneJobOnly
<1>2. \A t \in Slots : t # s => bio'[j][t] = bio[j][t]
  BY DEF Others
<1>3. OneBusy'
  <2> SUFFICES ASSUME NEW t \in Slots, NEW u \in Slots, Busy(j, t)', Busy(j, u)', t # u
               PROVE  FALSE
    BY <1>1 DEF OneBusy
  <2>1. CASE t # s /\ u # s
    BY <2>1, <1>0, <1>2 DEF OneBusy, Busy
  <2>2. CASE t = s
    BY <2>2, <1>0, <1>2 DEF OneBusy, Busy
  <2>3. CASE u = s
    BY <2>3, <1>0, <1>2 DEF OneBusy, Busy
  <2> QED BY <2>1, <2>2, <2>3
<1>4. Newest'
  <2>1. ASSUME NEW k \in Jobs, NEW t \in Slots PROVE Aged(bio'[k][t], timestamp)
    <3>1. CASE t = s
      BY <3>1, <1>1
    <3>2. CASE t # s
      BY <3>2, <1>0, <1>1, <1>2 DEF Newest
    <3> QED BY <3>1, <3>2
  <2> QED BY <2>1, <1>0 DEF Newest
<1>5. Counting'
  <2>1. ASSUME NEW k \in Jobs, NEW t \in Slots, bio'[k][t].stage = "count"
        PROVE  bio'[k][t].ts = timestamp
    <3>1. CASE t = s
      BY <2>1, <3>1, <1>1
    <3>2. CASE t # s
      BY <2>1, <3>2, <1>0, <1>1, <1>2 DEF Counting
    <3> QED BY <3>1, <3>2
  <2> QED BY <2>1 DEF Counting
<1>6. Stamping'
  <2> SUFFICES ASSUME NEW t \in Slots, bio'[j][t].stage = "stamp"
               PROVE  /\ \A l \in LBAs : ideal[l].ts < timestamp
                      /\ \A u \in Slots \ {t} : Aged(bio'[j][u], timestamp - 1)
                      /\ \A l \in Span(bio'[j][t]) \ bio'[j][t].todo : bio'[j][t].data[l].ts = timestamp
    BY <1>1 DEF Stamping
  <2>1. bio[j][t].stage = "stamp"
    BY <1>2
  <2>2. /\ \A l \in LBAs : ideal[l].ts < timestamp
        /\ \A u \in Slots \ {t} : Aged(bio[j][u], timestamp - 1)
        /\ \A l \in Span(bio[j][t]) \ bio[j][t].todo : bio[j][t].data[l].ts = timestamp
    BY <2>1, <1>0 DEF Stamping
  <2>3. ASSUME NEW u \in Slots \ {t} PROVE Aged(bio'[j][u], timestamp - 1)
    <3>1. CASE u = s
      BY <2>1, <3>1
    <3>2. CASE u # s
      BY <2>2, <3>2, <1>2
    <3> QED BY <3>1, <3>2
  <2>4. ASSUME NEW l \in Span(bio'[j][t]) \ bio'[j][t].todo
        PROVE  bio'[j][t].data[l].ts = timestamp
    <3>1. CASE t = s
      BY <2>4, <3>1
    <3>2. CASE t # s
      BY <2>2, <2>4, <3>2, <1>2
    <3> QED BY <3>1, <3>2
  <2> QED BY <2>2, <2>3, <2>4
<1>7. Ahead'
  <2>1. ASSUME NEW k \in Jobs, NEW t \in Slots, bio'[k][t].op = "write",
               bio'[k][t].stage \in {"enqueue", "flight"}, NEW l \in bio'[k][t].todo
        PROVE  ideal[l].ts < bio'[k][t].data[l].ts
    <3>1. CASE t = s
      BY <2>1, <3>1, <1>1
    <3>2. CASE t # s
      BY <2>1, <3>2, <1>0, <1>1, <1>2 DEF Ahead
    <3> QED BY <3>1, <3>2
  <2> QED BY <2>1 DEF Ahead
<1> QED BY <1>3, <1>4, <1>5, <1>6, <1>7 DEF Fresh

LEMMA GenerateFresh ==
  ASSUME OneJobOnly, Inv, Fresh, NEW j \in Jobs, NEW s \in Slots,
         (\E op \in Ops, r \in Lock!Ranges : Generate(j, s, op, r)) \/ GenerateFlush(j, s)
  PROVE  Fresh'
<1> DEFINE c == bio'[j][s]
<1>0. TypeOK
  BY DEF Inv, Base
<1>1. /\ Others(j, s) /\ c.data = NoBio.data /\ c.stage # "stamp"
      /\ c.stage = "count" => c.ts = timestamp
      /\ ~(c.op = "write" /\ c.stage \in {"enqueue", "flight"})
  BY <1>0, GenerateTakes, GenerateBio, GenerateFlushBio
<1>2. Idle(j) /\ timestamp' = timestamp /\ ideal' = ideal
  BY DEF Generate, GenerateFlush
<1>3. \A t \in Slots : ~Busy(j, t) /\ bio[j][t].stage # "stamp"
  BY <1>2 DEF Idle, Busy
<1>4. \A l \in LBAs : c.data[l].ts = 0
  BY <1>1 DEF NoBio, Plain
<1>5. timestamp \in Nat
  BY <1>0, NumbersAssumption DEF TypeOK
<1>6. Aged(c, timestamp)
  BY <1>4, <1>5 DEF Aged
<1> QED BY <1>1, <1>2, <1>3, <1>6, FreshBio

LEMMA CountFresh ==
  ASSUME OneJobOnly, Inv, Fresh, NEW j \in Jobs, NEW s \in Slots, Count(j, s)
  PROVE  Fresh'
<1> DEFINE b == bio[j][s]
           c == bio'[j][s]
<1>0. TypeOK /\ Shapes /\ OneBusy /\ Newest /\ Counting /\ Stamping /\ Ahead
  BY DEF Inv, Base, Fresh
<1>1. /\ Others(j, s) /\ Same(b, c) /\ b.stage = "count" /\ c.stage = "stamp"
      /\ c.todo = b.todo /\ c.data = b.data
  BY <1>0, CountBio
<1>2. timestamp' = timestamp + 1 /\ ideal' = ideal
  BY <1>0, <1>1 DEF Count, Counting
<1> HIDE DEF c
<1>3. timestamp \in Nat /\ \A l \in LBAs : ideal[l].ts \in Nat
  BY <1>0, NumbersAssumption DEF TypeOK, Contents
<1>4. \A k \in Jobs : k = j
  BY DEF OneJobOnly
<1>5. \A t \in Slots : t # s => bio'[j][t] = bio[j][t]
  BY <1>1 DEF Others
<1>6. \A t \in Slots : t # s => bio[j][t].stage \in {"free", "flight"}
  BY <1>0, <1>1 DEF OneBusy, Busy
<1>7. ASSUME NEW t \in Slots PROVE Aged(bio'[j][t], timestamp)
  <2>1. Aged(bio[j][t], timestamp)
    BY <1>0 DEF Newest
  <2>2. CASE t = s
    BY <2>1, <2>2, <1>1 DEF c, Same, Aged
  <2>3. CASE t # s
    BY <2>1, <2>3, <1>5
  <2> QED BY <2>2, <2>3
<1>8. ASSUME NEW t \in Slots PROVE Aged(bio'[j][t], timestamp + 1)
  <2>1. bio[j][t] \in Bios
    BY <1>0 DEF TypeOK
  <2>2. bio'[j][t].data = bio[j][t].data
    BY <1>1, <1>5 DEF c
  <2>3. \A l \in LBAs : bio'[j][t].data[l].ts \in Nat
    BY <2>1, <2>2, NumbersAssumption DEF Bios, Contents
  <2> QED BY <2>3, <1>3, <1>7 DEF Aged
<1>9. OneBusy'
  BY <1>4, <1>5, <1>6 DEF OneBusy, Busy
<1>10. Newest'
  BY <1>0, <1>2, <1>3, <1>4, <1>8 DEF Newest
<1>11. Counting'
  BY <1>1, <1>4, <1>5, <1>6 DEF Counting, c
<1>12. Span(c) \ c.todo = {}
  <2>1. b.todo = Span(b)
    BY <1>0, <1>1 DEF Shapes, BioShape
  <2> QED BY <2>1, <1>1 DEF Same, Span
<1>13. Stamping'
  <2> SUFFICES ASSUME NEW t \in Slots, bio'[j][t].stage = "stamp"
               PROVE  /\ \A l \in LBAs : ideal'[l].ts < timestamp'
                      /\ \A u \in Slots \ {t} : Aged(bio'[j][u], timestamp' - 1)
                      /\ \A l \in Span(bio'[j][t]) \ bio'[j][t].todo :
                           bio'[j][t].data[l].ts = timestamp'
    BY <1>4 DEF Stamping
  <2>1. t = s
    BY <1>5, <1>6
  <2>2. \A l \in LBAs : ideal'[l].ts < timestamp'
    BY <1>0, <1>2, <1>3 DEF Newest
  <2>3. timestamp' - 1 = timestamp
    BY <1>2, <1>3
  <2> QED BY <2>1, <2>2, <2>3, <1>7, <1>12 DEF c
<1>14. Ahead'
  BY <1>0, <1>1, <1>2, <1>4, <1>5 DEF Ahead, c
<1> QED BY <1>9, <1>10, <1>11, <1>13, <1>14 DEF Fresh

LEMMA StampFresh ==
  ASSUME OneJobOnly, Inv, Fresh, NEW j \in Jobs, NEW s \in Slots, Stamp(j, s)
  PROVE  Fresh'
<1> DEFINE b == bio[j][s]
           c == bio'[j][s]
<1>0. TypeOK /\ Shapes /\ OneBusy /\ Newest /\ Counting /\ Stamping /\ Ahead
  BY DEF Inv, Base, Fresh
<1>1. Others(j, s) /\ Same(b, c) /\ b.stage = "stamp"
  BY <1>0, StampBio
<1>2. PICK l \in b.todo :
        /\ c.data = [b.data EXCEPT ![l] = Data(l, timestamp)]
        /\ c.todo = IF b.todo = {l} THEN Span(b) ELSE b.todo \ {l}
        /\ c.stage = IF b.todo = {l} THEN "enqueue" ELSE "stamp"
  BY <1>0, StampBio
<1>3. timestamp' = timestamp /\ ideal' = ideal
  BY DEF Stamp
<1> HIDE DEF c
<1>4. b \in Bios /\ BioShape(b) /\ timestamp \in Nat
  BY <1>0, NumbersAssumption DEF TypeOK, Shapes
<1>5. Span(c) = Span(b) /\ Span(b) \subseteq LBAs /\ b.todo \subseteq Span(b)
      /\ b.data \in [LBAs -> Contents] /\ b.op = "write"
  BY <1>1, <1>4, LbaFacts DEF Same, Span, BioShape, Bios
<1>6. /\ \A x \in LBAs : ideal[x].ts < timestamp
      /\ \A x \in Span(b) \ b.todo : b.data[x].ts = timestamp
  BY <1>0, <1>1 DEF Stamping
<1>7. \A x \in LBAs : c.data[x] = IF x = l THEN Data(l, timestamp) ELSE b.data[x]
  BY <1>2, <1>5
<1>8. Data(l, timestamp).ts = timestamp
  BY DEF Data
<1>9. Aged(c, timestamp)
  BY <1>0, <1>4, <1>5, <1>7, <1>8 DEF Newest, Aged
<1>10. \A t \in Slots \ {s} : bio[j][t].stage # "stamp"
  BY <1>0, <1>1 DEF OneBusy, Busy
<1>11. ASSUME NEW x \in Span(b), x = l \/ x \notin b.todo
       PROVE  c.data[x].ts = timestamp
  BY <1>5, <1>6, <1>7, <1>8, <1>11
<1>12. c.stage = "stamp" => \A x \in Span(c) \ c.todo : c.data[x].ts = timestamp
  BY <1>2, <1>5, <1>11
<1>13. c.stage = "enqueue" => \A x \in c.todo : ideal[x].ts < c.data[x].ts
  BY <1>2, <1>5, <1>6, <1>11
<1>14. c.stage \in {"enqueue", "stamp"} /\ Busy(j, s)
  BY <1>1, <1>2 DEF Busy
<1> QED BY <1>1, <1>3, <1>9, <1>10, <1>12, <1>13, <1>14, FreshBio DEF c

LEMMA EnqueueFresh ==
  ASSUME OneJobOnly, Inv, Fresh, NEW j \in Jobs, NEW s \in Slots, Enqueue(j, s)
  PROVE  Fresh'
<1> DEFINE b == bio[j][s]
           c == bio'[j][s]
<1>0. TypeOK /\ OneBusy /\ Newest /\ Ahead
  BY DEF Inv, Base, Fresh
<1>1. /\ Others(j, s) /\ Same(b, c) /\ b.stage = "enqueue" /\ c.stage = "flight"
      /\ c.todo = b.todo /\ c.data = b.data
  BY <1>0, EnqueueBio
<1>2. timestamp' = timestamp /\ ideal' = ideal
  BY DEF Enqueue
<1> HIDE DEF c
<1>3. Aged(c, timestamp)
  BY <1>0, <1>1 DEF Newest, Aged, Same
<1>4. \A t \in Slots \ {s} : bio[j][t].stage # "stamp"
  BY <1>0, <1>1 DEF OneBusy, Busy
<1>5. c.op = "write" => \A l \in c.todo : ideal[l].ts < c.data[l].ts
  BY <1>0, <1>1 DEF Ahead, Same
<1>6. ~Busy(j, s)'
  BY <1>1 DEF Busy, c
<1> QED BY <1>1, <1>2, <1>3, <1>4, <1>5, <1>6, FreshBio DEF c

LEMMA CompleteFresh ==
  ASSUME OneJobOnly, Inv, Fresh, NEW j \in Jobs, NEW s \in Slots, Complete(j, s)
  PROVE  Fresh'
<1> DEFINE b == bio[j][s]
           c == bio'[j][s]
<1>0. TypeOK /\ OneBusy /\ Newest /\ Ahead
  BY DEF Inv, Base, Fresh
<1>1. /\ Others(j, s) /\ Same(b, c) /\ b.stage = "flight" /\ c.stage = "submit"
      /\ c.data = b.data
  BY <1>0, CompleteBio
<1>2. timestamp' = timestamp /\ ideal' = ideal /\ Idle(j)
  BY DEF Complete
<1> HIDE DEF c
<1>3. Aged(c, timestamp)
  BY <1>0, <1>1 DEF Newest, Aged, Same
<1>4. \A t \in Slots : bio[j][t].stage # "stamp" /\ ~Busy(j, t)
  BY <1>2 DEF Busy, Idle
<1> QED BY <1>1, <1>2, <1>3, <1>4, FreshBio DEF c

LEMMA SubmitFresh ==
  ASSUME OneJobOnly, Inv, Fresh, NEW j \in Jobs, NEW s \in Slots, Submit(j, s)
  PROVE  Fresh'
<1>0. TypeOK
  BY DEF Inv, Base
<1>1. timestamp' = timestamp /\ ideal' = ideal
  BY DEF Submit
<1>2. CASE bio' = bio
  BY <1>1, <1>2 DEF Fresh, OneBusy, Busy, Newest, Counting, Stamping, Ahead
<1>3. CASE Others(j, s) /\ bio'[j][s] = NoBio
  <2>1. NoBio.stage = "free" /\ NoBio.op = "none"
    BY DEF NoBio
  <2>2. \A n : Aged(NoBio, n)
    BY <2>1 DEF Aged
  <2>3. ~Busy(j, s)'
    BY <2>1, <1>3 DEF Busy
  <2> QED BY <1>1, <1>3, <2>1, <2>2, <2>3, FreshBio
<1> QED BY <1>0, <1>2, <1>3, SubmitBio

LEMMA ReturnFresh ==
  ASSUME OneJobOnly, Inv, Fresh, NEW j \in Jobs, NEW s \in Slots, NEW l \in LBAs, NEW m \in LBAs,
         Returns(j, s, l, m)
  PROVE  Fresh'
<1> DEFINE b == bio[j][s]
           c == bio'[j][s]
<1>0. TypeOK
  BY DEF Inv, Base
<1>1. Others(j, s) /\ Same(b, c) /\ b.op = "read" /\ c.stage = "flight"
  BY <1>0, ReturnBio
<1>2. timestamp' = timestamp /\ ideal' = ideal
  BY DEF Returns
<1> HIDE DEF c
<1>3. c.op # "write" /\ \A n : Aged(c, n)
  BY <1>1 DEF Same, Aged
<1>4. ~Busy(j, s)'
  BY <1>1 DEF Busy, c
<1> QED BY <1>1, <1>2, <1>3, <1>4, FreshBio DEF c

LEMMA ExecuteFresh ==
  ASSUME OneJobOnly, Inv, Fresh, NEW j \in Jobs, NEW s \in Slots, NEW l \in LBAs,
         Executes(j, s, l)
  PROVE  Fresh'
<1> DEFINE b == bio[j][s]
           c == bio'[j][s]
<1>0. /\ TypeOK /\ Shapes /\ Owned /\ Disjoint
      /\ OneBusy /\ Newest /\ Counting /\ Stamping /\ Ahead
  BY DEF Inv, Base, Fresh
<1>1. /\ Others(j, s) /\ Same(b, c) /\ b.stage = "flight" /\ c.stage = "flight"
      /\ l \in b.todo /\ c.todo = b.todo \ {l} /\ c.data = b.data
  BY <1>0, ExecuteBio
<1>2. timestamp' = timestamp /\ ideal' = [ideal EXCEPT ![l] = Effect(b, l)]
  BY DEF Executes
<1> HIDE DEF c
<1>3. \A x \in LBAs : ideal'[x] = IF x = l THEN Effect(b, l) ELSE ideal[x]
  BY <1>0, <1>2 DEF TypeOK
<1>4. timestamp \in Nat /\ b \in Bios
  BY <1>0, NumbersAssumption DEF TypeOK
<1>5. \/ Effect(b, l).ts = 0
      \/ b.op = "write" /\ Effect(b, l) = b.data[l]
  BY DEF Effect, Plain
<1>6. Effect(b, l).ts <= timestamp
  BY <1>0, <1>4, <1>5 DEF Newest, Aged
<1>7. \A k \in Jobs : k = j
  BY DEF OneJobOnly
<1>8. \A t \in Slots : t # s => bio'[j][t] = bio[j][t]
  BY <1>1 DEF Others
<1>9. \A t \in Slots : /\ bio'[j][t].stage = bio[j][t].stage /\ bio'[j][t].op = bio[j][t].op
                       /\ bio'[j][t].data = bio[j][t].data
                       /\ \A n : Aged(bio[j][t], n) => Aged(bio'[j][t], n)
  BY <1>1, <1>8 DEF Same, c, Aged
<1>10. OneBusy'
  BY <1>0, <1>7, <1>9 DEF OneBusy, Busy
<1>11. Newest'
  BY <1>0, <1>2, <1>3, <1>6, <1>7, <1>9 DEF Newest
<1>12. Counting'
  BY <1>0, <1>1, <1>2, <1>7, <1>8 DEF Counting, c
<1>13. Stamping'
  <2> SUFFICES ASSUME NEW t \in Slots, bio'[j][t].stage = "stamp"
               PROVE  /\ \A x \in LBAs : ideal'[x].ts < timestamp
                      /\ \A u \in Slots \ {t} : Aged(bio'[j][u], timestamp - 1)
                      /\ \A x \in Span(bio'[j][t]) \ bio'[j][t].todo :
                           bio'[j][t].data[x].ts = timestamp
    BY <1>2, <1>7 DEF Stamping
  <2>1. bio[j][t].stage = "stamp" /\ t # s /\ bio'[j][t] = bio[j][t]
    BY <1>1, <1>8 DEF c
  <2>2. /\ \A x \in LBAs : ideal[x].ts < timestamp
        /\ \A u \in Slots \ {t} : Aged(bio[j][u], timestamp - 1)
        /\ \A x \in Span(bio[j][t]) \ bio[j][t].todo : bio[j][t].data[x].ts = timestamp
    BY <2>1, <1>0 DEF Stamping
  <2>3. b.op = "write" => b.data[l].ts <= timestamp - 1 /\ b.data[l].ts \in Nat
    <3>1. b.data[l] \in Contents
      BY <1>4 DEF Bios
    <3> QED BY <3>1, <2>1, <2>2, NumbersAssumption DEF Aged, Contents
  <2>4. 0 < timestamp
    <3>1. ideal[l].ts \in Nat /\ ideal[l].ts < timestamp
      BY <2>2, <1>0, NumbersAssumption DEF TypeOK, Contents
    <3> QED BY <3>1, <1>4
  <2>5. Effect(b, l).ts < timestamp
    BY <2>3, <2>4, <1>4, <1>5
  <2> QED BY <2>1, <2>2, <2>5, <1>3, <1>9
<1>14. Ahead'
  <2> SUFFICES ASSUME NEW t \in Slots, bio'[j][t].op = "write",
                      bio'[j][t].stage \in {"enqueue", "flight"}, NEW x \in bio'[j][t].todo
               PROVE  ideal'[x].ts < bio'[j][t].data[x].ts
    BY <1>7 DEF Ahead
  <2>1. bio[j][t] \in Bios /\ BioShape(bio[j][t]) /\ l \in Span(b)
    BY <1>0, <1>1 DEF TypeOK, Shapes, BioShape
  <2>2. x \in bio[j][t].todo /\ (t = s => x # l)
    BY <1>1, <1>8 DEF c
  <2>3. x \in LBAs /\ x \in Span(bio[j][t])
    BY <2>1, <2>2 DEF Bios, BioShape
  <2>4. x # l
    BY <2>1, <2>2, <2>3, <1>0 DEF Disjoint
  <2>5. ideal[x].ts < bio[j][t].data[x].ts
    BY <2>2, <1>0, <1>9 DEF Ahead
  <2> QED BY <2>3, <2>4, <2>5, <1>3, <1>9
<1> QED BY <1>10, <1>11, <1>12, <1>13, <1>14 DEF Fresh

LEMMA InitFresh == Init => Fresh
<1> SUFFICES ASSUME Init PROVE Fresh
  OBVIOUS
<1>1. \A j \in Jobs, s \in Slots : bio[j][s].stage = "free" /\ bio[j][s].op = "none"
  BY DEF Init, NoBio
<1>2. timestamp = 0 /\ \A l \in LBAs : ideal[l].ts = 0
  BY DEF Init, Plain
<1> QED BY <1>1, <1>2 DEF Fresh, OneBusy, Busy, Newest, Aged, Counting, Stamping, Ahead

LEMMA NextFresh ==
  ASSUME OneJobOnly
  PROVE  Inv /\ Fresh /\ [Next]_vars => Fresh'
<1> SUFFICES ASSUME Inv, Fresh, [Next]_vars PROVE Fresh'
  OBVIOUS
<1>1. CASE UNCHANGED vars
  BY <1>1 DEF vars, Fresh, OneBusy, Busy, Newest, Counting, Stamping, Ahead
<1>2. CASE Device
  <2>1. PICK j \in Jobs, s \in Slots, l \in LBAs :
          \/ ExecuteWrite(j, s, l) \/ ExecuteRead(j, s, l)
          \/ LoseWrite(j, s, l) \/ \E m \in LBAs : MisdirectRead(j, s, l, m)
    BY <1>2 DEF Device
  <2>2. CASE ExecuteWrite(j, s, l) \/ LoseWrite(j, s, l)
    <3>1. Executes(j, s, l)
      BY <2>2 DEF ExecuteWrite, LoseWrite, Executes
    <3> QED BY <3>1, ExecuteFresh
  <2>3. CASE ExecuteRead(j, s, l)
    <3>1. Returns(j, s, l, l)
      BY <2>3 DEF ExecuteRead, Returns
    <3> QED BY <3>1, ReturnFresh
  <2>4. ASSUME NEW m \in LBAs, MisdirectRead(j, s, l, m) PROVE Fresh'
    <3>1. Returns(j, s, l, m)
      BY <2>4 DEF MisdirectRead, Returns
    <3> QED BY <3>1, ReturnFresh
  <2> QED BY <2>1, <2>2, <2>3, <2>4
<1>3. ASSUME NEW j \in Jobs, NEW s \in Slots,
             \/ \E op \in Ops, r \in Lock!Ranges : Generate(j, s, op, r)
             \/ GenerateFlush(j, s)
             \/ Count(j, s) \/ Stamp(j, s) \/ Enqueue(j, s)
             \/ Complete(j, s) \/ Submit(j, s)
      PROVE  Fresh'
  BY <1>3, GenerateFresh, CountFresh, StampFresh, EnqueueFresh, CompleteFresh, SubmitFresh
<1> QED BY <1>1, <1>2, <1>3 DEF Next

(* With one job, iover->timestamp only grows although it is read again for *)
(* every block: the data of a write under way is not what the block holds, *)
(* so a write that the device loses can be seen by a later read.           *)
THEOREM WriteVisible ==
  ASSUME OneJobOnly
  PROVE  Spec => []WriteIsVisible
<1>1. Init => Inv /\ Fresh
  BY InitInv, InitFresh
<1>0. CommitAlone'
  BY DEF CommitAlone, OneJobOnly
<1>2. Inv /\ Fresh /\ [Next]_vars => Inv' /\ Fresh'
  BY <1>0, NextInv, NextFresh
<1>3. Inv /\ Fresh => WriteIsVisible
  <2> SUFFICES ASSUME Inv, Fresh, NEW j \in Jobs, NEW s \in Slots, NEW l \in bio[j][s].todo,
                      bio[j][s].op = "write", bio[j][s].stage = "flight",
                      bio[j][s].data[l] = ideal[l]
               PROVE  FALSE
    BY DEF WriteIsVisible
  <2>1. ideal[l].ts < bio[j][s].data[l].ts
    BY DEF Fresh, Ahead
  <2>2. ideal[l].ts \in Nat
    <3>1. l \in LBAs /\ ideal[l] \in Contents
      BY DEF Inv, Base, TypeOK, Bios
    <3> QED BY <3>1, NumbersAssumption DEF Contents
  <2> QED BY <2>1, <2>2
<1> QED BY <1>1, <1>2, <1>3, PTL DEF Spec
=============================================================================
