--------------------------- MODULE WorkloadProofs ---------------------------
(***************************************************************************)
(* What Workload promises of the bios of a job, for every parameter file   *)
(* and every namespace: they lie in the range of the job, fit into their   *)
(* buffers, reads of a separate stream touch what was written, and a       *)
(* sequential fill fills.  And that no section of the file inherits from   *)
(* another.                                                                *)
(***************************************************************************)
EXTENDS Workload, FiniteSetTheorems, TLAPS

-----------------------------------------------------------------------------
(* Parameters keep their type through every property of a file.            *)

Plain ==
  [ioengine : Names, nsid : Nat, dependency : Names, iodepth : Nat,
   slba_align : Nat, separate_stream : BOOLEAN, amount_scale : Nat]
Size == [min : Nat, max : Nat, align : Nat]
AmountSet == [type : AmountTypes, value : Nat, percent : BOOLEAN, share : Nat]

LEMMA DefaultType == DefaultParams \in Params
<1>1. PlainDefault \in Plain
  BY NamesAssumption DEF PlainDefault, Plain
<1>2. [i \in 0 .. 5 |-> NoSize] \in [0 .. 5 -> Size]
  BY DEF NoSize, Size
<1>3. [o \in Operations |-> 0] \in [Operations -> Int]
  OBVIOUS
<1> QED
  BY NamesAssumption, <1>1, <1>2, <1>3 DEF DefaultParams, Params, Plain, Size, SlbaTypes, AmountTypes, Part

(* Each group of fields can be replaced by one of its type. *)
LEMMA ParamsFields ==
  ASSUME NEW p \in Params
  PROVE  /\ \A x \in Names : [p EXCEPT !.name = x] \in Params
         /\ \A x \in Nat : [p EXCEPT !.depends = x] \in Params
         /\ \A x \in Plain : [p EXCEPT !.plain = x] \in Params
         /\ \A x \in Names : [p EXCEPT !.journal_file = x] \in Params
         /\ \A x \in Nat : [p EXCEPT !.journal_shm = x] \in Params
         /\ \A x \in [0 .. 5 -> Size] : [p EXCEPT !.iosizes = x] \in Params
         /\ \A x \in [Operations -> Int] : [p EXCEPT !.operations = x] \in Params
         /\ \A x \in SlbaTypes, y \in Nat : [p EXCEPT !.slba = x, !.lba = y] \in Params
         /\ \A x, y \in Part : [p EXCEPT !.begin = x, !.size = y] \in Params
         /\ \A x \in AmountSet : [p EXCEPT !.amount = x] \in Params
BY DEF Params, Plain, Size, AmountSet

LEMMA ParamsParts ==
  ASSUME NEW p \in Params
  PROVE  /\ p.plain \in Plain /\ p.iosizes \in [0 .. 5 -> Size]
         /\ p.operations \in [Operations -> Int]
         /\ p.begin \in Part /\ p.size \in Part /\ p.amount \in AmountSet
         /\ p.slba \in SlbaTypes /\ p.lba \in Nat /\ p.name \in Names
         /\ p.journal_file \in Names /\ p.journal_shm \in Nat /\ p.depends \in Nat
BY DEF Params, Plain, Size, AmountSet

LEMMA KeyFacts ==
  /\ PlainKeys = {"ioengine", "nsid", "dependency", "iodepth", "slba_align",
                  "separate_stream", "amount_scale"}
  /\ DOMAIN SizeKey = {"iosize", "read_size", "write_size", "dealloc_size",
                       "write_zeroes_size", "write_uncor_size"}
  /\ SizeKey["iosize"] = 0 /\ SizeKey["read_size"] = 1 /\ SizeKey["write_size"] = 2
  /\ \A key \in DOMAIN SizeKey : SizeKey[key] \in 0 .. 5
  /\ DOMAIN AlignKey = {"iosize_align", "read_size_align", "write_size_align",
                        "dealloc_size_align", "write_zeroes_size_align",
                        "write_uncor_size_align"}
  /\ \A key \in DOMAIN AlignKey : AlignKey[key] \in 0 .. 5
<1>1. PlainKeys = {"ioengine", "nsid", "dependency", "iodepth", "slba_align",
                  "separate_stream", "amount_scale"}
  BY DEF PlainKeys, PlainDefault
<1>2. /\ DOMAIN SizeKey = {"iosize", "read_size", "write_size", "dealloc_size",
                       "write_zeroes_size", "write_uncor_size"}
      /\ SizeKey["iosize"] = 0 /\ SizeKey["read_size"] = 1 /\ SizeKey["write_size"] = 2
      /\ SizeKey["dealloc_size"] = 3 /\ SizeKey["write_zeroes_size"] = 4
      /\ SizeKey["write_uncor_size"] = 5
  BY DEF SizeKey
<1>3. /\ DOMAIN AlignKey = {"iosize_align", "read_size_align", "write_size_align",
                        "dealloc_size_align", "write_zeroes_size_align",
                        "write_uncor_size_align"}
      /\ AlignKey["iosize_align"] = 0 /\ AlignKey["read_size_align"] = 1
      /\ AlignKey["write_size_align"] = 2 /\ AlignKey["dealloc_size_align"] = 3
      /\ AlignKey["write_zeroes_size_align"] = 4 /\ AlignKey["write_uncor_size_align"] = 5
  BY DEF AlignKey
<1> QED
  BY <1>1, <1>2, <1>3

(* The parse_ functions change one group of fields each. *)
LEMMA PlainType ==
  ASSUME NEW p \in Params, NEW key \in PlainKeys, NEW v, ValueOK(key, v)
  PROVE  /\ [p EXCEPT !.plain[key] = v] \in Params
         /\ [p EXCEPT !.plain[key] = v].iosizes = p.iosizes
         /\ [p EXCEPT !.plain[key] = v].plain = [p.plain EXCEPT ![key] = v]
<1>1. p.plain \in Plain
  BY ParamsParts
<1>2. [p.plain EXCEPT ![key] = v] \in Plain
  BY <1>1, KeyFacts DEF Plain, ValueOK
<1>3. [p EXCEPT !.plain = [p.plain EXCEPT ![key] = v]] \in Params
  BY <1>2, ParamsFields
<1>4. [p EXCEPT !.plain[key] = v] = [p EXCEPT !.plain = [p.plain EXCEPT ![key] = v]]
  BY DEF Params
<1> QED
  BY <1>3, <1>4 DEF Params

LEMMA Sizes12 ==
  ASSUME NEW v \in Seq(Nat), Len(v) \in 1 .. 2
  PROVE  Smallest(v) \in Nat /\ Largest(v) \in Nat
<1>1. v[1] \in Nat /\ (Len(v) = 2 => v[2] \in Nat)
  OBVIOUS
<1> QED
  BY <1>1 DEF Smallest, Largest, Min, Max

LEMMA IosizeType ==
  ASSUME NEW p \in Params, NEW i \in 0 .. 5, NEW v \in Seq(Nat),
         NEW q \in ParseIosize(p, i, v)
  PROVE  /\ q \in Params /\ q.plain = p.plain
         /\ Len(v) \in 1 .. 2 /\ q.iosizes[i].max = Largest(v)
         /\ \A k \in 0 .. 5 : k # i => q.iosizes[k] = p.iosizes[k]
<1> DEFINE r == [p.iosizes[i] EXCEPT !.min = Smallest(v), !.max = Largest(v)]
           new == [p.iosizes EXCEPT ![i] = r]
<1>1. Len(v) \in 1 .. 2
      /\ q = [p EXCEPT !.iosizes[i].min = Smallest(v), !.iosizes[i].max = Largest(v)]
  BY DEF ParseIosize
<1>2. p.iosizes \in [0 .. 5 -> Size]
  BY ParamsParts
<1>3. r \in Size /\ r.max = Largest(v)
  BY <1>1, <1>2, Sizes12 DEF Size
<1>4. new \in [0 .. 5 -> Size] /\ new[i] = r /\ \A k \in 0 .. 5 : k # i => new[k] = p.iosizes[k]
  BY <1>2, <1>3
<1>5. q = [p EXCEPT !.iosizes = new]
  BY <1>1, <1>2 DEF Params, Size
<1>6. q \in Params
  BY <1>4, <1>5, ParamsFields
<1>7. q.iosizes = new /\ q.plain = p.plain
  BY <1>5 DEF Params
<1> QED
  BY <1>1, <1>3, <1>4, <1>6, <1>7

LEMMA AlignType ==
  ASSUME NEW p \in Params, NEW i \in 0 .. 5, NEW v \in Nat
  PROVE  LET q == [p EXCEPT !.iosizes[i].align = v] IN
         /\ q \in Params /\ q.plain = p.plain
         /\ \A k \in 0 .. 5 : q.iosizes[k].max = p.iosizes[k].max
<1> DEFINE r == [p.iosizes[i] EXCEPT !.align = v]
           new == [p.iosizes EXCEPT ![i] = r]
           q == [p EXCEPT !.iosizes[i].align = v]
<1>2. p.iosizes \in [0 .. 5 -> Size]
  BY ParamsParts
<1>3. r \in Size /\ r.max = p.iosizes[i].max
  BY <1>2 DEF Size
<1>4. new \in [0 .. 5 -> Size] /\ \A k \in 0 .. 5 : new[k].max = p.iosizes[k].max
  BY <1>2, <1>3
<1>5. q = [p EXCEPT !.iosizes = new]
  BY <1>2 DEF Params, Size
<1>6. q \in Params
  BY <1>4, <1>5, ParamsFields
<1>7. q.iosizes = new /\ q.plain = p.plain
  BY <1>5 DEF Params
<1> QED
  BY <1>4, <1>6, <1>7

LEMMA OperationType ==
  ASSUME NEW p \in Params, NEW v, Len(v) \in Nat, NEW q \in ParseOperation(p, v)
  PROVE  q \in Params /\ q.plain = p.plain /\ q.iosizes = p.iosizes
<1> DEFINE left == Remained(v)
           Rate(o) == IF \E i \in 1 .. Len(v) : v[i].op = o
                        THEN LET i == CHOOSE i \in 1 .. Len(v) : v[i].op = o
                             IN left[i - 1] - left[i]
                        ELSE 0
           new == [o \in Operations |-> Rate(o)]
<1>1. /\ \A i \in 0 .. Len(v) : left[i] \in 0 .. 100
      /\ q = [p EXCEPT !.operations = new]
  BY DEF ParseOperation
<1>2. \A o : Rate(o) \in Int
  <2> TAKE o
  <2>1. CASE \E i \in 1 .. Len(v) : v[i].op = o
    <3>1. PICK i \in 1 .. Len(v) : i = CHOOSE k \in 1 .. Len(v) : v[k].op = o
      BY <2>1
    <3>2. Rate(o) = left[i - 1] - left[i]
      BY <2>1, <3>1
    <3> HIDE DEF Rate, left
    <3>3. i \in 0 .. Len(v) /\ i - 1 \in 0 .. Len(v)
      OBVIOUS
    <3>4. left[i - 1] \in Int /\ left[i] \in Int
      <4>1. \A k \in 0 .. Len(v) : left[k] \in 0 .. 100
        BY <1>1
      <4>2. left[i - 1] \in 0 .. 100 /\ left[i] \in 0 .. 100
        BY <4>1, <3>3, Zenon
      <4>3. \A x \in 0 .. 100 : x \in Int
        OBVIOUS
      <4> QED
        BY <4>2, <4>3, Zenon
    <3>5. PICK a \in Int, b \in Int : a = left[i - 1] /\ b = left[i]
      BY <3>4
    <3>6. Rate(o) = a - b
      BY <3>2, <3>5
    <3> QED
      BY <3>6
  <2>2. CASE ~ \E i \in 1 .. Len(v) : v[i].op = o
    BY <2>2
  <2> QED
    BY <2>1, <2>2
<1>3. new \in [Operations -> Int]
  <2> HIDE DEF Rate
  <2> QED
    BY <1>2
<1> HIDE DEF new
<1>4. q \in Params
  BY <1>1, <1>3, ParamsFields
<1> QED
  BY <1>1, <1>4 DEF Params

LEMMA AmountType ==
  ASSUME NEW p \in Params, NEW q,
         NEW v \in [type : AmountTypes, value : Nat, percent : BOOLEAN],
         q \in ParseAmount(p, v)
  PROVE  q \in Params /\ q.plain = p.plain /\ q.iosizes = p.iosizes
<1> DEFINE a == p.amount
<1>1. a \in AmountSet
  BY ParamsParts
<1>2. \E x \in AmountSet : q = [p EXCEPT !.amount = x]
  <2>1. CASE v.type = "infinite"
    <3>1. q = [p EXCEPT !.amount = [a EXCEPT !.type = "infinite"]]
      BY <2>1 DEF ParseAmount, Params
    <3>2. [a EXCEPT !.type = "infinite"] \in AmountSet
      BY <1>1 DEF AmountSet, AmountTypes
    <3> QED
      BY <3>1, <3>2
  <2>2. CASE v.type = "byte" /\ v.percent
    <3>1. q = [p EXCEPT !.amount = [a EXCEPT !.type = "byte", !.percent = TRUE, !.share = v.value]]
      BY <2>2 DEF ParseAmount, Params
    <3>2. [a EXCEPT !.type = "byte", !.percent = TRUE, !.share = v.value] \in AmountSet
      BY <1>1 DEF AmountSet, AmountTypes
    <3> QED
      BY <3>1, <3>2
  <2>3. CASE ~(v.type = "infinite") /\ ~(v.type = "byte" /\ v.percent)
    <3>1. q = [p EXCEPT !.amount = [a EXCEPT !.type = v.type, !.value = v.value]]
      BY <2>3 DEF ParseAmount, Params
    <3>2. [a EXCEPT !.type = v.type, !.value = v.value] \in AmountSet
      BY <1>1 DEF AmountSet
    <3> QED
      BY <3>1, <3>2
  <2> QED
    BY <2>1, <2>2, <2>3
<1>3. PICK x \in AmountSet : q = [p EXCEPT !.amount = x]
  BY <1>2
<1>4. q \in Params
  BY <1>3, ParamsFields
<1>5. q.plain = p.plain /\ q.iosizes = p.iosizes
  BY <1>3 DEF Params
<1> QED
  BY <1>4, <1>5

(* Largest I/O sizes of the three opcodes that count for the buffers. *)
Below(p, m) == \A i \in 0 .. 2 : p.iosizes[i].max <= m

(* on_property_defined keeps the type, and the sizes that count for the    *)
(* buffers below what iosize_max becomes.                                  *)
LEMMA PropertyType ==
  ASSUME NEW p \in Params, NEW key, NEW v, ValueOK(key, v), NEW q \in OnProperty(p, key, v),
         NEW m \in Nat, Below(p, m)
  PROVE  /\ q \in Params
         /\ key \in PlainKeys => q.plain = [p.plain EXCEPT ![key] = v]
         /\ key \notin PlainKeys => q.plain = p.plain
         /\ CountsForBuffers(key) =>
              Smallest(v) \in Nat /\ Largest(v) \in Nat /\ Below(q, Max(m, Largest(v)))
         /\ ~CountsForBuffers(key) => Below(q, m)
<1>p. p.iosizes \in [0 .. 5 -> Size]
  BY ParamsParts
<1>1. CASE key \in PlainKeys
  <2>1. q = [p EXCEPT !.plain[key] = v]
    BY <1>1, KeyFacts DEF OnProperty
  <2>2. q \in Params /\ q.iosizes = p.iosizes /\ q.plain = [p.plain EXCEPT ![key] = v]
    BY <1>1, <2>1, PlainType
  <2>3. ~CountsForBuffers(key)
    BY <1>1, KeyFacts DEF CountsForBuffers
  <2> QED
    BY <1>1, <2>2, <2>3 DEF Below
<1>2. CASE key \in DOMAIN SizeKey
  <2>1. key \notin PlainKeys /\ SizeKey[key] \in 0 .. 5 /\ v \in Seq(Nat)
    BY <1>2, KeyFacts DEF ValueOK
  <2>2. q \in ParseIosize(p, SizeKey[key], v)
    BY <1>2, <2>1, KeyFacts DEF OnProperty
  <2>3. PICK i \in 0 .. 5 : i = SizeKey[key]
    BY <2>1
  <2>4. /\ q \in Params /\ q.plain = p.plain
        /\ Len(v) \in 1 .. 2 /\ q.iosizes[i].max = Largest(v)
        /\ \A k \in 0 .. 5 : k # i => q.iosizes[k] = p.iosizes[k]
    BY <2>1, <2>2, <2>3, IosizeType
  <2>5. Smallest(v) \in Nat /\ Largest(v) \in Nat
    BY <2>1, <2>4, Sizes12
  <2>6. \A k \in 0 .. 5 : p.iosizes[k].max \in Nat
    BY <1>p DEF Size
  <2>7. CountsForBuffers(key) => Below(q, Max(m, Largest(v)))
    BY <2>4, <2>5, <2>6 DEF Below, Max
  <2>8. ~CountsForBuffers(key) => i \notin 0 .. 2
    <3>1. SizeKey["dealloc_size"] = 3 /\ SizeKey["write_zeroes_size"] = 4
          /\ SizeKey["write_uncor_size"] = 5
      BY DEF SizeKey
    <3> QED
      BY <1>2, <2>3, <3>1, KeyFacts DEF CountsForBuffers
  <2>9. ~CountsForBuffers(key) => Below(q, m)
    BY <2>4, <2>8 DEF Below
  <2> QED
    BY <2>1, <2>4, <2>5, <2>7, <2>9
<1>3. CASE key \in DOMAIN AlignKey
  <2>1. key \notin PlainKeys /\ AlignKey[key] \in 0 .. 5 /\ v \in Nat /\ ~CountsForBuffers(key)
        /\ key \notin DOMAIN SizeKey
    BY <1>3, KeyFacts DEF ValueOK, CountsForBuffers
  <2>2. PICK i \in 0 .. 5 : i = AlignKey[key]
    BY <2>1
  <2>3. q = [p EXCEPT !.iosizes[i].align = v]
    BY <1>3, <2>1, <2>2, KeyFacts DEF OnProperty
  <2>4. /\ q \in Params /\ q.plain = p.plain
        /\ \A k \in 0 .. 5 : q.iosizes[k].max = p.iosizes[k].max
    BY <2>1, <2>3, AlignType
  <2> QED
    BY <2>1, <2>4 DEF Below
<1>4. CASE key \notin PlainKeys \cup DOMAIN SizeKey \cup DOMAIN AlignKey
  <2>1. ~CountsForBuffers(key)
    BY <1>4, KeyFacts DEF CountsForBuffers
  <2>2. q \in Params /\ q.plain = p.plain /\ q.iosizes = p.iosizes
    <3>1. CASE key = "operation"
      <4>1. q \in ParseOperation(p, v)
        BY <1>4, <3>1 DEF OnProperty
      <4>2. Len(v) \in Nat
        BY <3>1 DEF ValueOK
      <4> QED
        BY <4>1, <4>2, OperationType
    <3>2. CASE key = "amount"
      <4>1. q \in ParseAmount(p, v)
        BY <1>4, <3>2 DEF OnProperty
      <4> QED
        BY <3>2, <4>1, AmountType DEF ValueOK
    <3>3. CASE key = "lba_range"
      <4>1. q = [p EXCEPT !.begin = v.begin, !.size = v.size]
        BY <1>4, <3>3 DEF OnProperty
      <4>2. v.begin \in Part /\ v.size \in Part
        BY <3>3 DEF ValueOK
      <4>3. q \in Params
        BY <4>1, <4>2, ParamsFields
      <4> QED
        BY <4>1, <4>3 DEF Params
    <3>4. CASE key = "slba"
      <4>1. v.type \in SlbaTypes \cup {"unknown"} /\ v.lba \in Nat
        BY <3>4 DEF ValueOK
      <4>2. CASE v.type = "unknown"
        BY <1>4, <3>4, <4>2 DEF OnProperty
      <4>3. CASE v.type # "unknown"
        <5>1. q = [p EXCEPT !.slba = v.type, !.lba = v.lba]
          BY <1>4, <3>4, <4>3 DEF OnProperty
        <5>2. q \in Params
          BY <4>1, <4>3, <5>1, ParamsFields
        <5> QED
          BY <5>1, <5>2 DEF Params
      <4> QED
        BY <4>2, <4>3
    <3>5. CASE key \in {"journal_file", "journal_shm"}
      <4>1. q \in ParseJournal(p, key, v)
        BY <1>4, <3>5 DEF OnProperty
      <4>2. q = [p EXCEPT ![key] = v]
        BY <4>1 DEF ParseJournal
      <4>3. q \in Params
        BY <3>5, <4>2, ParamsFields DEF ValueOK
      <4> QED
        BY <3>5, <4>2, <4>3 DEF Params
    <3>6. CASE key \notin {"operation", "amount", "lba_range", "slba", "journal_file", "journal_shm"}
      BY <1>4, <3>6 DEF OnProperty
    <3> QED
      BY <3>1, <3>2, <3>3, <3>4, <3>5, <3>6
  <2> QED
    BY <1>4, <2>1, <2>2 DEF Below
<1> QED
  BY <1>1, <1>2, <1>3, <1>4
-----------------------------------------------------------------------------
(* The types of the state while the file is read and the jobs are          *)
(* validated.  No size of a job that counts for the buffers exceeds        *)
(* iosize_max.                                                             *)
ParamInv ==
  /\ input \in Inputs /\ pos \in 0 .. Len(input.file)
  /\ defaults \in Params /\ jobs \in Seq(Params) /\ nvalid \in 0 .. Len(jobs)
  /\ iosize \in [min : Nat, max : Nat]
  /\ Below(defaults, iosize.max) /\ \A j \in 1 .. Len(jobs) : Below(jobs[j], iosize.max)
  /\ pc \in {"parse", "validate", "ready", "run", "done", "failed", "crashed"}

LEMMA InputFacts ==
  ASSUME input \in Inputs
  PROVE  /\ DataSize \in Nat \ {0} /\ input.nlbs \in Nat \ {0} /\ input.ext \in Nat
         /\ NsSize \in Nat /\ Len(input.file) \in Nat
<1>1. DataSize \in Nat \ {0}
  <2>1. 2 ^ 9 = 512 /\ 2 ^ 12 = 4096
    OBVIOUS
  <2>2. input.shift = 9 \/ input.shift = 12
    BY InputsAssumption
  <2>3. DataSize = 512 \/ DataSize = 4096
    <3>1. ASSUME input.shift = 9 PROVE DataSize = 2 ^ 9
      BY <3>1, Zenon DEF DataSize
    <3>2. ASSUME input.shift = 12 PROVE DataSize = 2 ^ 12
      BY <3>2, Zenon DEF DataSize
    <3> QED
      BY <2>1, <2>2, <3>1, <3>2
  <2> QED
    BY <2>3
<1>2. input.nlbs \in Nat \ {0} /\ input.ext \in Nat /\ Len(input.file) \in Nat
  BY InputsAssumption
<1>3. NsSize \in Nat
  BY <1>1, <1>2 DEF NsSize
<1> QED
  BY <1>1, <1>2, <1>3

LEMMA LineFacts ==
  ASSUME input \in Inputs, pos \in 0 .. Len(input.file), pos < Len(input.file)
  PROVE  /\ Line.kind = "section" => Line.name \in Names
         /\ Line.kind = "prop" => ValueOK(Line.key, Line.value)
         /\ pos + 1 \in 0 .. Len(input.file)
<1>1. Len(input.file) \in Nat
  BY InputsAssumption
<1>2. pos + 1 \in 1 .. Len(input.file)
  BY <1>1
<1>3. PICK k \in 1 .. Len(input.file) : k = pos + 1
  BY <1>2
<1>4. LET l == input.file[k] IN
      /\ l.kind = "section" => l.name \in Names
      /\ l.kind = "prop" => ValueOK(l.key, l.value)
  BY InputsAssumption
<1> QED
  BY <1>2, <1>3, <1>4 DEF Line

LEMMA InitParam == ParamsInit => ParamInv
<1> SUFFICES ASSUME ParamsInit PROVE ParamInv
  OBVIOUS
<1>1. defaults \in Params
  BY DefaultType DEF ParamsInit
<1>2. Below(defaults, 0)
  <2>1. defaults.iosizes = [i \in 0 .. 5 |-> NoSize] /\ NoSize.max = 0
    BY DEF ParamsInit, DefaultParams, NoSize
  <2>2. \A i \in 0 .. 2 : defaults.iosizes[i].max = 0
    BY <2>1
  <2> QED
    BY <2>2 DEF Below
<1>3. jobs \in Seq(Params) /\ Len(jobs) = 0
  BY DEF ParamsInit
<1>4. iosize \in [min : Nat, max : Nat] /\ iosize.max = 0
  BY DEF ParamsInit, U32Max
<1>5. pos \in 0 .. Len(input.file)
  BY InputsAssumption DEF ParamsInit
<1> QED
  BY <1>1, <1>2, <1>3, <1>4, <1>5 DEF ParamsInit, ParamInv

LEMMA BelowUp ==
  ASSUME NEW p \in Params, NEW m \in Nat, NEW n \in Nat, Below(p, m), m <= n
  PROVE  Below(p, n)
<1>1. p.iosizes \in [0 .. 5 -> Size]
  BY ParamsParts
<1>2. \A i \in 0 .. 5 : p.iosizes[i].max \in Nat
  BY <1>1 DEF Size
<1> QED
  BY <1>2 DEF Below

LEMMA SectionParam ==
  ASSUME ParamInv, DefineSection
  PROVE  ParamInv'
<1> DEFINE p == [defaults EXCEPT !.name = Line.name]
<1>1. Line.name \in Names /\ pos + 1 \in 0 .. Len(input.file)
  BY LineFacts DEF ParamInv, DefineSection, HasLine
<1>2. p \in Params
  BY <1>1, ParamsFields DEF ParamInv
<1>3. p.iosizes = defaults.iosizes
  BY DEF ParamInv, Params
<1>4. Below(p, iosize.max)
  BY <1>3 DEF ParamInv, Below
<1>5. jobs' = Append(jobs, p) /\ pos' = pos + 1
      /\ UNCHANGED <<input, defaults, iosize, nsis, nvalid, pc>>
  BY DEF DefineSection
<1> HIDE DEF p
<1>6. jobs' \in Seq(Params) /\ Len(jobs') = Len(jobs) + 1
      /\ \A j \in 1 .. Len(jobs') : jobs'[j] = p \/ (j \in 1 .. Len(jobs) /\ jobs'[j] = jobs[j])
  BY <1>2, <1>5 DEF ParamInv
<1>7. \A j \in 1 .. Len(jobs') : Below(jobs'[j], iosize.max)
  BY <1>4, <1>6 DEF ParamInv
<1>8. nvalid \in 0 .. Len(jobs')
  BY <1>6 DEF ParamInv
<1> QED
  BY <1>1, <1>5, <1>6, <1>7, <1>8 DEF ParamInv, Below

LEMMA CurrentFacts ==
  ASSUME ParamInv
  PROVE  Current \in Params /\ Below(Current, iosize.max)
<1>1. CASE jobs = <<>>
  BY <1>1 DEF ParamInv, Current
<1>2. CASE jobs # <<>>
  <2>1. Len(jobs) \in 1 .. Len(jobs)
    BY <1>2 DEF ParamInv
  <2> QED
    BY <1>2, <2>1 DEF ParamInv, Current
<1> QED
  BY <1>1, <1>2

LEMMA PropertyParam ==
  ASSUME ParamInv, DefineProperty
  PROVE  ParamInv'
<1>1. ValueOK(Line.key, Line.value) /\ pos + 1 \in 0 .. Len(input.file)
  BY LineFacts DEF ParamInv, DefineProperty, HasLine
<1>2. PICK p \in Result :
        IF jobs = <<>> THEN defaults' = p /\ UNCHANGED jobs
        ELSE jobs' = [jobs EXCEPT ![Len(jobs)] = p] /\ UNCHANGED defaults
  BY DEF DefineProperty
<1> DEFINE key == Line.key
           v == Line.value
           m == iosize.max
<1>3. m \in Nat /\ iosize.min \in Nat
  BY DEF ParamInv
<1>4. p \in OnProperty(Current, key, v)
  BY DEF Result
<1>5. /\ p \in Params
      /\ CountsForBuffers(key) =>
              Smallest(v) \in Nat /\ Largest(v) \in Nat /\ Below(p, Max(m, Largest(v)))
      /\ ~CountsForBuffers(key) => Below(p, m)
  BY <1>1, <1>3, <1>4, CurrentFacts, PropertyType
<1>6. iosize' = IF CountsForBuffers(key)
                 THEN [min |-> Min(iosize.min, Smallest(v)), max |-> Max(m, Largest(v))]
                 ELSE iosize
  BY DEF DefineProperty
<1>7. pos' = pos + 1 /\ UNCHANGED <<input, nsis, nvalid, pc>>
  BY DEF DefineProperty
<1> HIDE DEF key, v, m
<1>8. iosize' \in [min : Nat, max : Nat] /\ m <= iosize'.max /\ Below(p, iosize'.max)
  <2>1. CASE CountsForBuffers(key)
    <3> DEFINE a == Min(iosize.min, Smallest(v))
               b == Max(m, Largest(v))
    <3>1. a \in Nat /\ b \in Nat /\ m <= b /\ Below(p, b)
      BY <1>3, <1>5, <2>1 DEF Min, Max
    <3>2. iosize' = [min |-> a, max |-> b]
      BY <1>6, <2>1
    <3> QED
      BY <3>1, <3>2
  <2>2. CASE ~CountsForBuffers(key)
    BY <1>3, <1>5, <1>6, <2>2 DEF ParamInv, m
  <2> QED
    BY <2>1, <2>2
<1>9. \A q \in Params : Below(q, m) => Below(q, iosize'.max)
  BY <1>3, <1>8, BelowUp
<1>10. CASE jobs = <<>>
  <2>1. defaults' = p /\ jobs' = jobs
    BY <1>2, <1>10
  <2> QED
    BY <1>1, <1>5, <1>7, <1>8, <1>10, <2>1 DEF ParamInv, Below
<1>11. CASE jobs # <<>>
  <2>1. jobs' = [jobs EXCEPT ![Len(jobs)] = p] /\ defaults' = defaults
    BY <1>2, <1>11
  <2>2. Len(jobs) \in 1 .. Len(jobs)
    BY <1>11 DEF ParamInv
  <2>3. jobs' \in Seq(Params) /\ Len(jobs') = Len(jobs)
        /\ \A j \in 1 .. Len(jobs) : jobs'[j] = p \/ jobs'[j] = jobs[j]
    BY <1>5, <2>1, <2>2 DEF ParamInv
  <2>4. \A j \in 1 .. Len(jobs) : jobs[j] \in Params /\ Below(jobs[j], m)
    BY DEF ParamInv, m
  <2>5. \A j \in 1 .. Len(jobs') : Below(jobs'[j], iosize'.max)
    BY <1>8, <1>9, <2>3, <2>4
  <2>6. Below(defaults, iosize'.max)
    BY <1>9 DEF ParamInv, m
  <2> QED
    BY <1>1, <1>7, <1>8, <2>1, <2>3, <2>5, <2>6 DEF ParamInv, Below
<1> QED
  BY <1>10, <1>11

LEMMA EndParam ==
  ASSUME ParamInv, EndOfFile
  PROVE  ParamInv'
<1>1. CASE jobs = <<>>
  <2>1. jobs' = <<defaults>>
    BY <1>1 DEF EndOfFile
  <2>2. jobs' \in Seq(Params) /\ Len(jobs') = 1 /\ jobs'[1] = defaults
    BY <2>1 DEF ParamInv
  <2>3. Len(jobs) = 0
    BY <1>1
  <2>4. \A j \in 1 .. Len(jobs') : Below(jobs'[j], iosize.max)
    BY <2>2 DEF ParamInv
  <2> QED
    BY <2>2, <2>3, <2>4 DEF ParamInv, EndOfFile, Below
<1>2. CASE jobs # <<>>
  BY <1>2 DEF ParamInv, EndOfFile, Below
<1> QED
  BY <1>1, <1>2

LEMMA BytesType ==
  ASSUME NEW part \in Part, NEW whole \in Nat
  PROVE  Bytes(part, whole) \in Nat
<1>1. part.percent \in BOOLEAN /\ part.value \in Nat
  BY DEF Part
<1>2. (whole * part.value) \div 100 \in Nat
  <2>1. \A x \in Nat : x \div 100 \in Nat
    OBVIOUS
  <2>2. whole * part.value \in Nat
    BY <1>1
  <2> QED
    BY <2>1, <2>2
<1> QED
  BY <1>1, <1>2 DEF Bytes

(* bind_params changes range and amount only. *)
LEMMA BindType ==
  ASSUME ParamInv, NEW p \in Params
  PROVE  Bind(p) \in Params /\ Bind(p).iosizes = p.iosizes /\ Bind(p).plain = p.plain
<1> DEFINE x == [percent |-> FALSE, value |-> RangeBegin(p)]
           y == [percent |-> FALSE, value |-> RangeSize(p)]
           a == [p.amount EXCEPT !.value = AmountBytes(p)]
           c == [a EXCEPT !.value = @ * p.plain.amount_scale]
           p1 == [p EXCEPT !.begin = x, !.size = y]
           p2 == [p1 EXCEPT !.amount = a]
           p3 == [p2 EXCEPT !.amount = c]
           bound == [p EXCEPT !.begin = x, !.size = y, !.amount.value = AmountBytes(p)]
           scaled == [bound EXCEPT !.amount.value = @ * p.plain.amount_scale]
<1>1. /\ p.plain \in Plain /\ p.begin \in Part /\ p.size \in Part /\ p.amount \in AmountSet
      /\ NsSize \in Nat
  BY ParamsParts, InputFacts DEF ParamInv
<1>2. RangeBegin(p) \in Nat /\ RangeSize(p) \in Nat
  BY <1>1, BytesType DEF RangeBegin, RangeSize
<1>3. AmountBytes(p) \in Nat
  <2>1. p.amount.share \in Nat /\ p.amount.value \in Nat
    BY <1>1 DEF AmountSet
  <2>2. RangeSize(p) * p.amount.share \in Nat
    BY <1>2, <2>1
  <2>3. \A z \in Nat : z \div 100 \in Nat
    OBVIOUS
  <2>4. (RangeSize(p) * p.amount.share) \div 100 \in Nat
    BY <2>2, <2>3
  <2> QED
    BY <2>1, <2>4 DEF AmountBytes
<1>4. x \in Part /\ y \in Part
  BY <1>2 DEF Part
<1>5. a \in AmountSet /\ a.value \in Nat
  BY <1>1, <1>3 DEF AmountSet
<1>6. p.plain.amount_scale \in Nat
  BY <1>1 DEF Plain
<1>7. a.value * p.plain.amount_scale \in Nat
  BY <1>5, <1>6
<1>8. c \in AmountSet
  BY <1>5, <1>7 DEF AmountSet
<1>9. p1 \in Params /\ p1.iosizes = p.iosizes /\ p1.plain = p.plain /\ p1.amount = p.amount
  <2> HIDE DEF x, y
  <2>1. p1 \in Params
    BY <1>4, ParamsFields
  <2> QED
    BY <2>1 DEF Params
<1>10. p2 \in Params /\ p2.iosizes = p.iosizes /\ p2.plain = p.plain
  <2> HIDE DEF p1, a
  <2>1. p2 \in Params
    BY <1>5, <1>9, ParamsFields
  <2> QED
    BY <1>9, <2>1 DEF Params
<1>11. p3 \in Params /\ p3.iosizes = p.iosizes /\ p3.plain = p.plain
  <2> HIDE DEF p2, c
  <2>1. p3 \in Params
    BY <1>8, <1>10, ParamsFields
  <2> QED
    BY <1>10, <2>1 DEF Params
<1>12. bound = p2
  <2> HIDE DEF x, y
  <2> QED
    BY <1>1 DEF Params, AmountSet
<1>13. scaled = p3
  <2>1. p2.amount = a
    BY <1>9 DEF Params
  <2> HIDE DEF p2, a, bound
  <2> QED
    BY <1>10, <1>12, <2>1 DEF Params
<1>14. Bind(p) = bound \/ Bind(p) = scaled
  BY DEF Bind
<1> HIDE DEF bound, scaled, p2, p3
<1> QED
  BY <1>10, <1>11, <1>12, <1>13, <1>14

LEMMA WithSizesType ==
  ASSUME ParamInv, NEW p \in Params, Below(p, iosize.max)
  PROVE  WithSizes(p) \in Params /\ Below(WithSizes(p), iosize.max) /\ WithSizes(p).plain = p.plain
<1>1. iosize.min \in Nat /\ iosize.max \in Nat
  BY DEF ParamInv
<1>2. PICK i \in 0 .. 5, a \in Nat, b \in Nat : i = 0 /\ a = iosize.min /\ b = iosize.max
  BY <1>1
<1> DEFINE r == [p.iosizes[i] EXCEPT !.min = a, !.max = b]
           new == [p.iosizes EXCEPT ![i] = r]
           q == [p EXCEPT !.iosizes[i].min = a, !.iosizes[i].max = b]
<1>3. p.iosizes \in [0 .. 5 -> Size]
  BY ParamsParts
<1>4. r \in Size /\ r.max = b
  BY <1>3 DEF Size
<1>5. new \in [0 .. 5 -> Size] /\ new[i] = r /\ \A k \in 0 .. 5 : k # i => new[k] = p.iosizes[k]
  BY <1>3, <1>4
<1>6. q = [p EXCEPT !.iosizes = new]
  BY <1>3 DEF Params, Size
<1>7. q \in Params
  BY <1>5, <1>6, ParamsFields
<1>8. q.iosizes = new /\ q.plain = p.plain
  BY <1>6 DEF Params
<1>9. Below(q, b)
  BY <1>2, <1>4, <1>5, <1>8 DEF Below
<1>10. WithSizes(p) = q \/ WithSizes(p) = p
  BY <1>2 DEF WithSizes
<1> HIDE DEF q
<1> QED
  BY <1>2, <1>7, <1>8, <1>9, <1>10

LEMMA ValidateParam ==
  ASSUME ParamInv, Validate
  PROVE  ParamInv'
<1>n. nvalid < Len(jobs)
  BY DEF Validate
<1> DEFINE d == IF Job.plain.dependency = "" THEN Index
                ELSE CHOOSE j \in Named(Job.plain.dependency) : TRUE
<1>j. ~Invalid /\ jobs' = [jobs EXCEPT ![Index] = [Bind(WithSizes(Job)) EXCEPT !.depends = d]]
  BY DEF Validate
<1>0. nvalid' = Index /\ UNCHANGED <<input, pos, defaults, iosize, pc>>
  BY DEF Validate
<1>1. Index \in 1 .. Len(jobs) /\ Len(jobs) \in Nat
  <2>1. nvalid \in 0 .. Len(jobs) /\ Len(jobs) \in Nat
    BY DEF ParamInv
  <2> QED
    BY <1>n, <2>1 DEF Index
<1>2. Job \in Params /\ Below(Job, iosize.max)
  BY <1>1 DEF ParamInv, Job
<1>3. PICK w \in Params : w = WithSizes(Job) /\ Below(w, iosize.max)
  BY <1>2, WithSizesType
<1>4. PICK p \in Params : p = Bind(w) /\ p.iosizes = w.iosizes
  BY <1>3, BindType
<1>5. jobs' = [jobs EXCEPT ![Index] = [p EXCEPT !.depends = d]]
  <2> HIDE DEF d
  <2> QED
    BY <1>j, <1>3, <1>4
<1>6. d \in Nat
  <2>1. CASE Job.plain.dependency = ""
    <3>1. d = Index
      BY <2>1
    <3> HIDE DEF d
    <3> QED
      BY <1>1, <3>1
  <2>2. CASE Job.plain.dependency # ""
    <3>1. Cardinality(Named(Job.plain.dependency)) = 1
      BY <1>j, <2>2 DEF Invalid
    <3>2. Named(Job.plain.dependency) # {}
      BY <3>1, FS_EmptySet
    <3>3. d \in Named(Job.plain.dependency)
      BY <2>2, <3>2
    <3> HIDE DEF d
    <3> QED
      BY <1>1, <3>3 DEF Named
  <2> QED
    BY <2>1, <2>2
<1> HIDE DEF d
<1> DEFINE q == [p EXCEPT !.depends = d]
<1>7. q \in Params
  BY <1>6, ParamsFields
<1>8. q.iosizes = w.iosizes
  BY <1>4 DEF Params
<1>9. Below(q, iosize.max)
  BY <1>3, <1>8 DEF Below
<1> HIDE DEF q
<1>10. jobs' = [jobs EXCEPT ![Index] = q]
  BY <1>5 DEF q
<1>11. jobs' \in Seq(Params) /\ Len(jobs') = Len(jobs)
       /\ \A j \in 1 .. Len(jobs) : jobs'[j] = q \/ jobs'[j] = jobs[j]
  BY <1>1, <1>7, <1>10 DEF ParamInv
<1>12. \A j \in 1 .. Len(jobs') : Below(jobs'[j], iosize.max)
  BY <1>9, <1>11 DEF ParamInv
<1>13. nvalid' \in 0 .. Len(jobs') /\ UNCHANGED <<input, pos, defaults, iosize, pc>>
  BY <1>0, <1>1, <1>11
<1> QED
  BY <1>11, <1>12, <1>13 DEF ParamInv, Below

LEMMA NextParam ==
  ASSUME ParamInv, ParamsNext
  PROVE  ParamInv'
<1>1. CASE DefineSection
  BY <1>1, SectionParam
<1>2. CASE DefineProperty
  BY <1>2, PropertyParam
<1>3. CASE ParsingError \/ ValidateFails \/ InitJobs
  BY <1>3 DEF ParamInv, ParsingError, ValidateFails, InitJobs, Below
<1>4. CASE DropLine
  <2>1. pos + 1 \in 0 .. Len(input.file)
    BY <1>4, LineFacts DEF ParamInv, DropLine, HasLine
  <2> QED
    BY <1>4, <2>1 DEF ParamInv, DropLine, Below
<1>5. CASE EndOfFile
  BY <1>5, EndParam
<1>6. CASE Validate
  BY <1>6, ValidateParam
<1> QED
  BY <1>1, <1>2, <1>3, <1>4, <1>5, <1>6 DEF ParamsNext
-----------------------------------------------------------------------------
(* What ALIGN gives: a number, and with a power of two no more than a      *)
(* multiple that bounds its argument.                                      *)
LEMMA AlignNat ==
  ASSUME NEW x \in Nat, NEW a \in Nat
  PROVE  Align(x, a) \subseteq Nat
<1>1. CASE a = 0
  BY <1>1 DEF Align
<1>2. CASE a # 0
  <2>1. ((x + a - 1) \div a) * a \in Nat
    <3>1. x + a - 1 \in Nat
      BY <1>2
    <3>2. \A y \in Nat, d \in Nat \ {0} : (y \div d) * d \in Nat
      OBVIOUS
    <3> QED
      BY <1>2, <3>1, <3>2
  <2>2. \A n \in 0 .. x + a - 1 : n \in Nat
    OBVIOUS
  <2> QED
    BY <1>2, <2>1, <2>2 DEF Align
<1> QED
  BY <1>1, <1>2

LEMMA RoundUp ==
  ASSUME NEW x \in Nat, NEW a \in Nat \ {0}, NEW y \in Nat, x <= y, y % a = 0
  PROVE  x <= ((x + a - 1) \div a) * a /\ ((x + a - 1) \div a) * a <= y
<1> DEFINE k == (x + a - 1) \div a
           q == y \div a
<1>1. q \in Nat /\ y = q * a
  OBVIOUS
<1>2. k \in Nat /\ k * a <= x + a - 1 /\ x + a - 1 < k * a + a
  <2>1. \A z \in Nat : z \div a \in Nat /\ (z \div a) * a <= z /\ z < (z \div a) * a + a
    OBVIOUS
  <2>2. x + a - 1 \in Nat
    OBVIOUS
  <2> QED
    BY <2>1, <2>2
<1> HIDE DEF k, q
<1>3. k * a \in Nat /\ q * a \in Nat
  BY <1>1, <1>2
<1>4. x <= k * a
  BY <1>2, <1>3
<1>5. k <= q
  <2> SUFFICES ASSUME q + 1 <= k PROVE FALSE
    BY <1>1, <1>2
  <2>1. (q + 1) * a <= k * a
    BY <1>1, <1>2
  <2>2. (q + 1) * a = q * a + a
    BY <1>1
  <2> QED
    BY <1>1, <1>2, <1>3, <2>1, <2>2
<1>6. k * a <= q * a
  BY <1>1, <1>2, <1>5
<1> QED
  BY <1>1, <1>4, <1>6 DEF k

LEMMA AlignBelow ==
  ASSUME NEW x \in Nat, NEW a \in Nat \ {0}, PowerOf2(a), NEW y \in Nat, x <= y, y % a = 0,
         NEW n \in Align(x, a)
  PROVE  n \in Nat /\ x <= n /\ n <= y
<1>1. n = ((x + a - 1) \div a) * a
  BY DEF Align
<1>2. n \in Nat
  BY AlignNat
<1> QED
  BY <1>1, <1>2, RoundUp

LEMMA DividesMinus ==
  ASSUME NEW a \in Nat \ {0}, NEW x \in Nat, NEW y \in Nat, x % a = 0, y % a = 0, y <= x
  PROVE  (x - y) % a = 0 /\ (x + y) % a = 0
<1>1. PICK p \in Nat, q \in Nat : x = p * a /\ y = q * a
  <2>1. x = (x \div a) * a /\ y = (y \div a) * a /\ x \div a \in Nat /\ y \div a \in Nat
    OBVIOUS
  <2> QED
    BY <2>1
<1>2. q <= p
  <2> SUFFICES ASSUME p + 1 <= q PROVE FALSE
    BY <1>1
  <2>1. (p + 1) * a <= q * a /\ (p + 1) * a = p * a + a
    BY <1>1
  <2> QED
    BY <1>1, <2>1
<1>3. x - y = (p - q) * a /\ x + y = (p + q) * a
  BY <1>1
<1>4. \A k \in Nat : (k * a) % a = 0
  OBVIOUS
<1>5. p - q \in Nat /\ p + q \in Nat
  BY <1>2
<1> QED
  BY <1>3, <1>4, <1>5
-----------------------------------------------------------------------------
(* What generate_bio draws.                                                *)
BlockOps == {"read", "write", "deallocate", "write_zeroes", "write_uncorrect"}

LEMMA RowFacts ==
  /\ Row("read") = 0 /\ Row("write") = 1
  /\ \A op \in BlockOps : Row(op) \in 0 .. 5
BY DEF Row, BlockOps

LEMMA LotteryOps == Lottery \ {"flush"} \subseteq BlockOps
<1>1. \A o \in Lottery : o \in Operations \ {"identify"}
  BY DEF Lottery, Operations
<1> QED
  BY <1>1 DEF Operations, BlockOps

LEMMA DivMono ==
  ASSUME NEW x \in Nat, NEW y \in Nat, NEW d \in Nat \ {0}, x <= y
  PROVE  x \div d \in Nat /\ x \div d <= y \div d
OBVIOUS

(* The parameters of the job of a run. *)
LEMMA PFacts ==
  ASSUME ParamInv, job \in 1 .. Len(jobs)
  PROVE  /\ P \in Params /\ Below(P, iosize.max)
         /\ RangeLbas \in Nat /\ Begin \in Nat /\ P.plain.slba_align \in Nat
         /\ P.slba \in SlbaTypes /\ P.lba \in Nat
         /\ P.amount.value \in Nat /\ P.amount.type \in AmountTypes
<1>1. P \in Params /\ Below(P, iosize.max)
  BY DEF ParamInv, P
<1>2. /\ P.plain \in Plain /\ P.begin \in Part /\ P.size \in Part /\ P.amount \in AmountSet
      /\ P.slba \in SlbaTypes /\ P.lba \in Nat
  BY <1>1, ParamsParts
<1>3. P.begin.value \in Nat /\ P.size.value \in Nat
  BY <1>2 DEF Part
<1>4. DataSize \in Nat \ {0}
  BY InputFacts DEF ParamInv
<1>5. RangeLbas \in Nat /\ Begin \in Nat
  <2>1. \A x \in Nat : x \div DataSize \in Nat
    BY <1>4, DivMono
  <2> QED
    BY <1>3, <2>1 DEF RangeLbas, Begin
<1> QED
  BY <1>1, <1>2, <1>5 DEF Plain, AmountSet

LEMMA LbasFacts ==
  ASSUME ParamInv, job \in 1 .. Len(jobs), NEW r \in 0 .. 5
  PROVE  /\ Lbas(P)[r].min \in Nat /\ Lbas(P)[r].max \in Nat
         /\ r \in 0 .. 2 => Lbas(P)[r].max <= iosize.max \div DataSize
         /\ P.iosizes[r].align \in Nat
<1>1. P \in Params /\ Below(P, iosize.max) /\ iosize.max \in Nat
  BY PFacts DEF ParamInv
<1>2. P.iosizes \in [0 .. 5 -> Size]
  BY <1>1, ParamsParts
<1>3. DataSize \in Nat \ {0}
  BY InputFacts DEF ParamInv
<1> DEFINE s == IF P.iosizes[r].min = 0 /\ P.iosizes[r].max = 0 THEN P.iosizes[0] ELSE P.iosizes[r]
<1>4. Lbas(P)[r] = [min |-> s.min \div DataSize, max |-> s.max \div DataSize]
  BY DEF Lbas
<1>5. s \in Size /\ (r \in 0 .. 2 => s.max <= iosize.max)
  <2>1. P.iosizes[0] \in Size /\ P.iosizes[r] \in Size
    BY <1>2
  <2>2. P.iosizes[0].max <= iosize.max /\ (r \in 0 .. 2 => P.iosizes[r].max <= iosize.max)
    BY <1>1 DEF Below
  <2> QED
    BY <2>1, <2>2
<1> HIDE DEF s
<1>6. s.min \in Nat /\ s.max \in Nat
  BY <1>5 DEF Size
<1>7. /\ s.min \div DataSize \in Nat /\ s.max \div DataSize \in Nat
      /\ r \in 0 .. 2 => s.max \div DataSize <= iosize.max \div DataSize
  BY <1>1, <1>3, <1>5, <1>6, DivMono
<1>8. P.iosizes[r].align \in Nat
  BY <1>2 DEF Size
<1> QED
  BY <1>4, <1>7, <1>8

(* Sizes are numbers, and those of reads and writes fit into the buffer if *)
(* the alignment does.                                                     *)
LEMMA SizesFacts ==
  ASSUME ParamInv, job \in 1 .. Len(jobs), NEW op \in BlockOps, NEW n \in Sizes(op)
  PROVE  /\ n \in Nat
         /\ op \in {"read", "write"} /\ SizeAlignFits(op) => n <= iosize.max \div DataSize
<1>1. PICK r \in 0 .. 5 : r = Row(op)
  BY RowFacts
<1>2. PICK lo \in Nat, hi \in Nat, a \in Nat :
        /\ lo = Lbas(P)[r].min /\ hi = Lbas(P)[r].max /\ a = P.iosizes[r].align
        /\ r \in 0 .. 2 => hi <= iosize.max \div DataSize
  BY LbasFacts
<1>3. DataSize \in Nat \ {0} /\ iosize.max \in Nat
  BY InputFacts DEF ParamInv
<1>4. PICK M \in Nat : M = iosize.max \div DataSize
  BY <1>3, DivMono
<1>5. PICK c \in Nat : c = a \div DataSize
  BY <1>3, DivMono
<1>6. n \in IF a = 0 THEN lo .. hi ELSE UNION {Align(m, c) : m \in lo .. hi}
  BY <1>1, <1>2, <1>5 DEF Sizes
<1>7. op \in {"read", "write"} => r \in 0 .. 2
  BY <1>1, RowFacts
<1>8. CASE a = 0
  BY <1>2, <1>4, <1>6, <1>7, <1>8
<1>9. CASE a # 0
  <2>1. PICK m \in lo .. hi : n \in Align(m, c)
    BY <1>6, <1>9
  <2>2. m \in Nat /\ m <= hi
    OBVIOUS
  <2>3. n \in Nat
    BY <2>1, <2>2, AlignNat
  <2>4. ASSUME op \in {"read", "write"}, SizeAlignFits(op) PROVE n <= M
    <3>1. PowerOf2(c) /\ c # 0 /\ M % c = 0
      BY <1>1, <1>2, <1>4, <1>5, <1>9, <2>4 DEF SizeAlignFits, Divides
    <3>2. hi <= M
      BY <1>2, <1>4, <1>7, <2>4
    <3>3. m <= M
      BY <2>2, <3>2
    <3> QED
      BY <2>1, <2>2, <3>1, <3>3, AlignBelow
  <2> QED
    BY <1>4, <2>3, <2>4
<1> QED
  BY <1>8, <1>9

LEMMA JesdFacts ==
  ASSUME ParamInv, NEW b \in JesdBios
  PROVE  b.slba \in Nat /\ b.nlbs \in Nat /\ b.slba + b.nlbs <= input.nlbs
<1>1. input.nlbs \in Nat
  BY InputFacts DEF ParamInv
<1>2. JesdStarts \subseteq Nat
  <2>1. \A k \in Nat : (input.nlbs * k) \div 100 \in Nat
    <3>1. \A k \in Nat : input.nlbs * k \in Nat
      BY <1>1
    <3>2. \A x \in Nat : x \div 100 \in Nat
      OBVIOUS
    <3> QED
      BY <3>1, <3>2
  <2>2. PICK x \in Nat, y \in Nat, z \in Nat, w \in Nat :
          /\ x = (input.nlbs * 5) \div 100 /\ y = (input.nlbs * 15) \div 100
          /\ z = (input.nlbs * 20) \div 100 /\ w = (input.nlbs * 80) \div 100
    BY <2>1
  <2>3. JesdStarts = (0 .. x - 1) \cup (x .. x + y - 1) \cup (z .. z + w - 1)
    BY <2>2 DEF JesdStarts
  <2> QED
    BY <2>3
<1>3. JesdSizes \subseteq Nat
  BY DEF JesdSizes
<1>4. PICK s \in JesdStarts, n \in JesdSizes : b = [slba |-> JesdSlba(s, n), nlbs |-> n]
  BY DEF JesdBios
<1>5. s \in Nat /\ n \in Nat
  BY <1>2, <1>3
<1>6. JesdSlba(s, n) \in Nat
  <2>1. \A x \in Nat : x - (x % 8) \in Nat
    OBVIOUS
  <2> QED
    BY <1>5, <2>1 DEF JesdSlba
<1>7. b.slba + b.nlbs <= input.nlbs
  BY DEF JesdBios
<1> QED
  BY <1>4, <1>5, <1>6, <1>7
-----------------------------------------------------------------------------
(* Once the run has begun, the parameters stay as they are. *)
Kept == UNCHANGED <<input, jobs, iosize, job>>

LEMMA KeptFacts ==
  ASSUME Kept
  PROVE  /\ P' = P /\ DataSize' = DataSize /\ RangeLbas' = RangeLbas /\ Begin' = Begin
         /\ Lottery' = Lottery /\ \A op : Sizes(op)' = Sizes(op)
<1>1. P' = P /\ DataSize' = DataSize
  BY DEF Kept, P, DataSize
<1>2. RangeLbas' = RangeLbas /\ Begin' = Begin
  BY <1>1 DEF RangeLbas, Begin
<1>3. Lottery' = Lottery
  BY <1>1 DEF Kept, Lottery
<1>4. \A op : Sizes(op)' = Sizes(op)
  BY <1>1 DEF Sizes, Lbas
<1> QED
  BY <1>1, <1>2, <1>3, <1>4

LEMMA KeptAlign ==
  ASSUME Kept
  PROVE  (AlignFits' <=> AlignFits) /\ (StreamWhole' <=> StreamWhole)
BY KeptFacts DEF AlignFits, StreamWhole

BioSet == [op : Operations \cup {"none"}, nlbs : Nat, try : 0 .. 3, jesd : Nat]
FlightSet == [op : Operations, slba : Nat, nlbs : Nat]

(* The types of the state of a run, and that there is none before Start. *)
RunInv ==
  /\ job \in 0 .. Len(jobs) /\ (job # 0 <=> pc \in {"run", "done", "crashed"})
  /\ bio \in BioSet /\ slba_next \in [1 .. 2 -> Nat] /\ sum \in Nat
  /\ flight \subseteq FlightSet /\ written \subseteq Nat
  /\ job = 0 => /\ bio = NoBio /\ slba_next = <<0, 0>>
                /\ flight = {} /\ written = {} /\ sum = 0

(* What is drawn comes from the lottery and the sizes of its opcode. *)
DrawnInv ==
  job # 0 =>
    /\ bio.try > 0 => /\ bio.op \in Lottery \ {"flush"}
                      /\ P.slba # "jesd219" => bio.nlbs \in Sizes(bio.op)
                      /\ P.slba = "jesd219" => bio.jesd + bio.nlbs <= input.nlbs
    /\ \A b \in flight : /\ b.op \in Lottery \ {"flush"}
                         /\ P.slba # "jesd219" => b.nlbs \in Sizes(b.op)

TypedInv == ParamInv /\ RunInv /\ DrawnInv

(* The bio of a try at x. *)
BioAt(x) == [op |-> bio.op, slba |-> x, nlbs |-> bio.nlbs]
Refused(x) ==
  /\ Locked(BioAt(x)) /\ UNCHANGED <<flight, sum>>
  /\ bio' = NoBio \/ (bio.try # 3 /\ bio' = [bio EXCEPT !.try = @ + 1])
Sent(x) ==
  /\ ~Locked(BioAt(x)) /\ bio' = NoBio
  /\ flight' = flight \cup {BioAt(x)} /\ Counted(bio.op, bio.nlbs)

LEMMA PlacedNat ==
  ASSUME TypedInv, job # 0, NEW s \in Nat, NEW x \in Placed(s)
  PROVE  x \in Nat
<1>1. job \in 1 .. Len(jobs)
  BY DEF TypedInv, RunInv
<1>2. Begin \in Nat /\ P.plain.slba_align \in Nat /\ DataSize \in Nat \ {0}
  BY <1>1, PFacts, InputFacts DEF TypedInv, ParamInv
<1>3. PICK a \in Nat : a = P.plain.slba_align \div DataSize
  BY <1>2, DivMono
<1>4. Align(s, a) \subseteq Nat
  BY AlignNat
<1> QED
  BY <1>2, <1>3, <1>4 DEF Placed

LEMMA TryFacts ==
  ASSUME TypedInv, job # 0, bio.try > 0, NEW s \in Nat, TryAt(s)
  PROVE  \E x \in Placed(s) : Refused(x) \/ Sent(x)
BY DEF TryAt, Refused, Sent, BioAt, GiveUp

LEMMA CountedNat ==
  ASSUME TypedInv, job # 0, NEW op, NEW n \in Nat, Counted(op, n)
  PROVE  sum' \in Nat
<1>1. DataSize \in Nat \ {0} /\ input.ext \in Nat /\ sum \in Nat
  BY InputFacts DEF TypedInv, ParamInv, RunInv
<1>2. sum + n * (DataSize + input.ext) \in Nat /\ sum + 1 \in Nat
  <2>1. n * (DataSize + input.ext) \in Nat
    BY <1>1
  <2> QED
    BY <1>1, <2>1
<1> HIDE DEF TypedInv
<1>3. CASE P.amount.type = "byte"
  <2>1. sum' = sum + n * (DataSize + input.ext)
    BY <1>3 DEF Counted
  <2> QED
    BY <1>2, <2>1
<1>4. CASE P.amount.type = "io"
  <2>1. sum' = sum + 1
    BY <1>4 DEF Counted
  <2> QED
    BY <1>2, <2>1
<1>5. CASE P.amount.type \notin {"byte", "io"}
  <2>1. sum' = sum
    BY <1>5 DEF Counted
  <2> QED
    BY <1>1, <2>1
<1> QED
  BY <1>3, <1>4, <1>5

LEMMA NoBioFacts == NoBio \in BioSet /\ NoBio.try = 0
BY DEF NoBio, BioSet

LEMMA BioAtFacts ==
  ASSUME TypedInv, job # 0, bio.try > 0, NEW x \in Nat
  PROVE  /\ BioAt(x) \in FlightSet
         /\ BioAt(x).op = bio.op /\ BioAt(x).slba = x /\ BioAt(x).nlbs = bio.nlbs
         /\ bio.op \in BlockOps /\ bio.nlbs \in Nat /\ bio.jesd \in Nat
<1>1. bio \in BioSet /\ bio.op \in Lottery \ {"flush"}
  BY DEF TypedInv, RunInv, DrawnInv
<1>2. bio.op \in BlockOps /\ bio.op \in Operations
  BY <1>1, LotteryOps DEF BlockOps, Operations
<1>3. bio.nlbs \in Nat /\ bio.jesd \in Nat
  BY <1>1 DEF BioSet
<1> QED
  BY <1>2, <1>3 DEF BioAt, FlightSet

LEMMA TryTyped ==
  ASSUME TypedInv, job # 0, bio.try > 0, NEW x \in Nat, Refused(x) \/ Sent(x),
         slba_next' \in [1 .. 2 -> Nat], UNCHANGED written, RunOnly
  PROVE  TypedInv'
<1>1. Kept /\ pc' = pc /\ UNCHANGED paramVars
  BY DEF RunOnly, Kept, paramVars
<1>2. ParamInv'
  BY <1>1 DEF TypedInv, ParamInv, paramVars, Below
<1>3. BioAt(x) \in FlightSet
  BY BioAtFacts
<1>4. bio' = NoBio \/ (bio.try # 3 /\ bio' = [bio EXCEPT !.try = @ + 1])
  BY DEF Refused, Sent
<1>5. /\ bio' \in BioSet
      /\ bio'.try > 0 => bio'.op = bio.op /\ bio'.nlbs = bio.nlbs /\ bio'.jesd = bio.jesd
  <2>1. CASE bio' = NoBio
    BY <2>1, NoBioFacts
  <2>2. CASE bio.try # 3 /\ bio' = [bio EXCEPT !.try = @ + 1]
    <3>1. bio \in BioSet
      BY DEF TypedInv, RunInv
    <3> QED
      BY <2>2, <3>1 DEF BioSet
  <2> QED
    BY <1>4, <2>1, <2>2
<1>6. sum' \in Nat
  <2>1. bio.nlbs \in Nat
    BY BioAtFacts
  <2>2. Sent(x) => Counted(bio.op, bio.nlbs)
    BY DEF Sent
  <2>3. Refused(x) => sum' = sum
    BY DEF Refused
  <2>4. sum \in Nat
    BY DEF TypedInv, RunInv
  <2> QED
    BY <2>1, <2>2, <2>3, <2>4, CountedNat
<1>7. flight' \subseteq flight \cup {BioAt(x)}
  BY DEF Refused, Sent
<1>8. RunInv'
  <2>1. flight' \subseteq FlightSet
    BY <1>3, <1>7 DEF TypedInv, RunInv
  <2>2. job' = job /\ jobs' = jobs /\ pc' = pc /\ written' = written
    BY <1>1 DEF Kept
  <2> QED
    BY <1>5, <1>6, <2>1, <2>2 DEF TypedInv, RunInv
<1>9. DrawnInv'
  <2>1. P' = P /\ Lottery' = Lottery /\ \A op : Sizes(op)' = Sizes(op)
    BY <1>1, KeptFacts
  <2>2. input' = input
    BY <1>1 DEF Kept
  <2>3. /\ bio.op \in Lottery \ {"flush"}
        /\ P.slba # "jesd219" => bio.nlbs \in Sizes(bio.op)
        /\ P.slba = "jesd219" => bio.jesd + bio.nlbs <= input.nlbs
    BY DEF TypedInv, DrawnInv
  <2>4. ASSUME NEW b \in flight'
        PROVE  b.op \in Lottery \ {"flush"} /\ (P.slba # "jesd219" => b.nlbs \in Sizes(b.op))
    <3>1. CASE b \in flight
      BY <3>1 DEF TypedInv, DrawnInv
    <3>2. CASE b = BioAt(x)
      <4>1. b.op = bio.op /\ b.nlbs = bio.nlbs
        BY <3>2, BioAtFacts
      <4> QED
        BY <2>3, <4>1
    <3> QED
      BY <1>7, <3>1, <3>2
  <2>5. bio'.try > 0 => /\ bio'.op \in Lottery \ {"flush"}
                        /\ P.slba # "jesd219" => bio'.nlbs \in Sizes(bio'.op)
                        /\ P.slba = "jesd219" => bio'.jesd + bio'.nlbs <= input.nlbs
    BY <1>5, <2>3
  <2> QED
    BY <2>1, <2>2, <2>4, <2>5 DEF DrawnInv
<1> QED
  BY <1>2, <1>8, <1>9 DEF TypedInv

(* Steps that send nothing. *)
LEMMA QuietTyped ==
  ASSUME TypedInv, job # 0, Kept, UNCHANGED <<pos, defaults, nvalid>>,
         pc' \in {"run", "done", "crashed"},
         flight' \subseteq flight, written' \subseteq Nat, sum' \in Nat,
         slba_next' \in [1 .. 2 -> Nat],
         bio' \in BioSet,
         bio'.try > 0 => /\ bio'.op \in Lottery \ {"flush"}
                         /\ P.slba # "jesd219" => bio'.nlbs \in Sizes(bio'.op)
                         /\ P.slba = "jesd219" => bio'.jesd + bio'.nlbs <= input.nlbs
  PROVE  TypedInv'
<1>1. input' = input /\ jobs' = jobs /\ iosize' = iosize /\ job' = job
  BY DEF Kept
<1>2. ParamInv'
  BY <1>1 DEF TypedInv, ParamInv, Below
<1>3. RunInv'
  <2>1. flight' \subseteq FlightSet
    BY DEF TypedInv, RunInv
  <2> QED
    BY <1>1, <2>1 DEF TypedInv, RunInv
<1>4. DrawnInv'
  <2>1. P' = P /\ Lottery' = Lottery /\ \A op : Sizes(op)' = Sizes(op)
    BY KeptFacts
  <2>2. \A b \in flight' : b.op \in Lottery \ {"flush"} /\ (P.slba # "jesd219" => b.nlbs \in Sizes(b.op))
    BY DEF TypedInv, DrawnInv
  <2> QED
    BY <1>1, <2>1, <2>2 DEF DrawnInv
<1> QED
  BY <1>2, <1>3, <1>4 DEF TypedInv

(* The start of a try, before it is aligned. *)
StartOK(s) ==
  /\ P.slba \in {"seq", "uniform", "zipf"} /\ bio.nlbs <= RangeLbas
       => s + bio.nlbs <= RangeLbas
  /\ P.slba = "jesd219" => s = bio.jesd
TryStep ==
  \E s \in Nat : \E x \in Placed(s) :
    /\ bio.try > 0 /\ StartOK(s) /\ (Refused(x) \/ Sent(x))
    /\ slba_next' \in [1 .. 2 -> Nat] /\ UNCHANGED written /\ RunOnly
GiveUpStep ==
  GiveUp /\ UNCHANGED <<slba_next, written>> /\ RunOnly

LEMMA SequentialFacts ==
  ASSUME TypedInv, job # 0, bio.try > 0, NEW c \in Nat
  PROVE  /\ Sequential(c) \in Nat /\ Sequential(c) + bio.nlbs \in Nat
         /\ bio.nlbs <= RangeLbas => Sequential(c) + bio.nlbs <= RangeLbas
<1>1. ParamInv /\ job \in 1 .. Len(jobs)
  BY DEF TypedInv, RunInv
<1>2. bio.nlbs \in Nat /\ RangeLbas \in Nat
  BY <1>1, BioAtFacts, PFacts
<1> QED
  BY <1>2 DEF Sequential

LEMMA TryCases ==
  ASSUME TypedInv, job # 0, TrySeparateRead \/ TrySequential \/ TryRandom \/ TryFixed
  PROVE  GiveUpStep \/ TryStep
<1>1. slba_next \in [1 .. 2 -> Nat] /\ slba_next[1] \in Nat /\ slba_next[2] \in Nat
  BY DEF TypedInv, RunInv
<1>2. CASE TrySeparateRead
  <2>1. bio.try > 0 /\ P.slba = "seq" /\ UNCHANGED written /\ RunOnly
    BY <1>2 DEF TrySeparateRead
  <2>2. PICK s \in Nat : s = Sequential(slba_next[2])
    BY <1>1, <2>1, SequentialFacts
  <2>3. StartOK(s) /\ s + bio.nlbs \in Nat
    BY <1>1, <2>1, <2>2, SequentialFacts DEF StartOK
  <2>4. CASE GiveUp /\ UNCHANGED slba_next
    BY <2>1, <2>4 DEF GiveUpStep
  <2>5. CASE TryAt(s) /\ slba_next' = [slba_next EXCEPT ![2] = s + bio.nlbs]
    <3>1. slba_next' \in [1 .. 2 -> Nat]
      BY <1>1, <2>3, <2>5
    <3>2. PICK x \in Placed(s) : Refused(x) \/ Sent(x)
      BY <2>1, <2>5, TryFacts
    <3> QED
      BY <2>1, <2>3, <3>1, <3>2 DEF TryStep
  <2> QED
    BY <1>2, <2>2, <2>4, <2>5 DEF TrySeparateRead
<1>3. CASE TrySequential
  <2>1. bio.try > 0 /\ P.slba = "seq" /\ UNCHANGED written /\ RunOnly
    BY <1>3 DEF TrySequential
  <2>2. PICK s \in Nat : s = Sequential(slba_next[1])
    BY <1>1, <2>1, SequentialFacts
  <2>3. StartOK(s) /\ s + bio.nlbs \in Nat
    BY <1>1, <2>1, <2>2, SequentialFacts DEF StartOK
  <2>4. TryAt(s) /\ slba_next' = [slba_next EXCEPT ![1] = s + bio.nlbs]
    BY <1>3, <2>2 DEF TrySequential
  <2>5. slba_next' \in [1 .. 2 -> Nat]
    BY <1>1, <2>3, <2>4
  <2>6. PICK x \in Placed(s) : Refused(x) \/ Sent(x)
    BY <2>1, <2>4, TryFacts
  <2> QED
    BY <2>1, <2>3, <2>5, <2>6 DEF TryStep
<1>4. CASE TryRandom
  <2>1. /\ bio.try > 0 /\ P.slba \in {"uniform", "zipf"} /\ bio.nlbs # RangeLbas
        /\ UNCHANGED <<slba_next, written>> /\ RunOnly
    BY <1>4 DEF TryRandom
  <2>2. bio.nlbs \in Nat /\ RangeLbas \in Nat /\ input.nlbs \in Nat
    <3>1. ParamInv /\ input \in Inputs /\ job \in 1 .. Len(jobs)
      BY DEF TypedInv, RunInv, ParamInv
    <3>2. bio.nlbs \in Nat
      BY <2>1, BioAtFacts
    <3> QED
      BY <3>1, <3>2, PFacts, InputFacts
  <2>3. PICK s \in RandomStarts : TryAt(s)
    BY <1>4 DEF TryRandom
  <2>4. s \in Nat /\ (bio.nlbs <= RangeLbas => s + bio.nlbs <= RangeLbas)
    BY <2>1, <2>2, <2>3 DEF RandomStarts
  <2>5. StartOK(s)
    BY <2>1, <2>4 DEF StartOK
  <2>6. PICK x \in Placed(s) : Refused(x) \/ Sent(x)
    BY <2>1, <2>3, <2>4, TryFacts
  <2> QED
    BY <1>1, <2>1, <2>4, <2>5, <2>6 DEF TryStep
<1>5. CASE TryFixed
  <2>1. /\ bio.try > 0 /\ P.slba \in {"fixed", "jesd219"}
        /\ UNCHANGED <<slba_next, written>> /\ RunOnly
    BY <1>5 DEF TryFixed
  <2>2. PICK s \in Nat : s = IF P.slba = "fixed" THEN P.lba ELSE bio.jesd
    BY <2>1, BioAtFacts, PFacts DEF TypedInv, RunInv
  <2>3. TryAt(s)
    BY <1>5, <2>2 DEF TryFixed
  <2>4. StartOK(s)
    BY <2>1, <2>2 DEF StartOK
  <2>5. PICK x \in Placed(s) : Refused(x) \/ Sent(x)
    BY <2>1, <2>3, TryFacts
  <2> QED
    BY <1>1, <2>1, <2>4, <2>5 DEF TryStep
<1> QED
  BY <1>2, <1>3, <1>4, <1>5

LEMMA BeforeRun ==
  ASSUME TypedInv, (ParamsNext /\ UNCHANGED runVars) \/ (pc = "ready" /\ Start)
  PROVE  job = 0
<1>1. pc \in {"parse", "validate", "ready"}
  BY DEF ParamsNext, DefineSection, DefineProperty, ParsingError, DropLine, EndOfFile,
         Validate, ValidateFails, InitJobs, HasLine
<1> QED
  BY <1>1 DEF TypedInv, RunInv

LEMMA ParamsPc ==
  ASSUME ParamsNext
  PROVE  pc' \in {"parse", "validate", "ready", "failed"}
BY DEF ParamsNext, DefineSection, DefineProperty, ParsingError, DropLine, EndOfFile,
       Validate, ValidateFails, InitJobs, HasLine

LEMMA TypedInit == Init => TypedInv
<1> SUFFICES ASSUME Init PROVE TypedInv
  OBVIOUS
<1>1. ParamInv
  BY InitParam DEF Init
<1>2. /\ job = 0 /\ bio = NoBio /\ slba_next = <<0, 0>> /\ flight = {} /\ written = {}
      /\ sum = 0 /\ pc = "parse"
  BY DEF Init, ParamsInit
<1>3. slba_next \in [1 .. 2 -> Nat]
  BY <1>2
<1>4. Len(jobs) \in Nat
  BY <1>1 DEF ParamInv
<1> QED
  BY <1>1, <1>2, <1>3, <1>4, NoBioFacts DEF TypedInv, RunInv, DrawnInv

RunNext ==
  \/ PickFlush \/ PickBio \/ TrySeparateRead \/ TrySequential
  \/ TryRandomCrashes \/ TryRandom \/ TryFixed \/ End \/ Finish

LEMMA TypedQuiet ==
  ASSUME TypedInv, job # 0, pc = "run",
         PickFlush \/ PickBio \/ GiveUpStep \/ TryRandomCrashes \/ End \/ Finish
  PROVE  TypedInv'
<1>1. /\ slba_next \in [1 .. 2 -> Nat] /\ sum \in Nat /\ bio \in BioSet
      /\ written \subseteq Nat /\ flight \subseteq FlightSet
      /\ bio.try > 0 => /\ bio.op \in Lottery \ {"flush"}
                        /\ P.slba # "jesd219" => bio.nlbs \in Sizes(bio.op)
                        /\ P.slba = "jesd219" => bio.jesd + bio.nlbs <= input.nlbs
      /\ job \in 1 .. Len(jobs)
  BY DEF TypedInv, RunInv, DrawnInv
<1>2. RunOnly => Kept /\ UNCHANGED <<pos, defaults, nvalid, pc>>
  BY DEF RunOnly, Kept, paramVars
<1>3. CASE PickFlush
  <2>1. UNCHANGED <<bio, slba_next, flight, written>> /\ Counted("flush", 0) /\ RunOnly
    BY <1>3 DEF PickFlush
  <2>2. sum' \in Nat
    BY <2>1, CountedNat
  <2> QED
    BY <1>1, <1>2, <2>1, <2>2, QuietTyped
<1>4. CASE PickBio
  <2>1. UNCHANGED <<slba_next, flight, written, sum>> /\ RunOnly
    BY <1>4 DEF PickBio
  <2>2. PICK op \in Lottery \ {"flush"} :
          bio' \in IF P.slba = "jesd219"
                     THEN {[op |-> op, nlbs |-> b.nlbs, try |-> 1, jesd |-> b.slba] : b \in JesdBios}
                     ELSE {[op |-> op, nlbs |-> n, try |-> 1, jesd |-> 0] : n \in Sizes(op)}
    BY <1>4 DEF PickBio
  <2>3. op \in BlockOps /\ op \in Operations
    BY <2>2, LotteryOps DEF BlockOps, Operations
  <2>4. CASE P.slba = "jesd219"
    <3>1. PICK b \in JesdBios : bio' = [op |-> op, nlbs |-> b.nlbs, try |-> 1, jesd |-> b.slba]
      BY <2>2, <2>4
    <3>2. b.slba \in Nat /\ b.nlbs \in Nat /\ b.slba + b.nlbs <= input.nlbs
      BY JesdFacts DEF TypedInv
    <3>3. bio' \in BioSet /\ bio'.op = op /\ bio'.nlbs = b.nlbs /\ bio'.jesd = b.slba
      BY <2>3, <3>1, <3>2 DEF BioSet
    <3> QED
      BY <1>1, <1>2, <2>1, <2>2, <2>4, <3>2, <3>3, QuietTyped
  <2>5. CASE P.slba # "jesd219"
    <3>1. PICK n \in Sizes(op) : bio' = [op |-> op, nlbs |-> n, try |-> 1, jesd |-> 0]
      BY <2>2, <2>5
    <3>2. n \in Nat
      BY <1>1, <2>3, SizesFacts DEF TypedInv
    <3>3. bio' \in BioSet /\ bio'.op = op /\ bio'.nlbs = n
      BY <2>3, <3>1, <3>2 DEF BioSet
    <3> QED
      BY <1>1, <1>2, <2>1, <2>2, <2>5, <3>1, <3>3, QuietTyped
  <2> QED
    BY <2>4, <2>5
<1>5. CASE GiveUpStep
  <2>1. bio' = NoBio /\ UNCHANGED <<slba_next, written, flight, sum>> /\ RunOnly
    BY <1>5 DEF GiveUpStep, GiveUp
  <2> QED
    BY <1>1, <1>2, <2>1, NoBioFacts, QuietTyped
<1>6. CASE TryRandomCrashes \/ Finish
  <2>1. /\ UNCHANGED <<input, pos, defaults, jobs, iosize, nsis, nvalid>> /\ UNCHANGED runVars
        /\ pc' \in {"crashed", "done"}
    BY <1>6 DEF TryRandomCrashes, Finish
  <2>2. Kept
    BY <2>1 DEF Kept, runVars
  <2> QED
    BY <1>1, <2>1, <2>2, QuietTyped DEF runVars
<1>7. CASE End
  <2>1. UNCHANGED <<bio, slba_next, sum>> /\ RunOnly
    BY <1>7 DEF End
  <2>2. PICK b \in flight : /\ flight' = flight \ {b}
                            /\ written' = IF b.op = "write" THEN written \cup Blocks(b) ELSE written
    BY <1>7 DEF End
  <2>3. Blocks(b) \subseteq Nat
    <3>1. b.slba \in Nat /\ b.nlbs \in Nat
      BY <1>1 DEF FlightSet
    <3> QED
      BY <3>1 DEF Blocks
  <2> QED
    BY <1>1, <1>2, <2>1, <2>2, <2>3, QuietTyped
<1> QED
  BY <1>3, <1>4, <1>5, <1>6, <1>7

LEMMA TypedTry ==
  ASSUME TypedInv, job # 0, TryStep
  PROVE  TypedInv'
<1>1. PICK s \in Nat : \E x \in Placed(s) :
        /\ bio.try > 0 /\ (Refused(x) \/ Sent(x))
        /\ slba_next' \in [1 .. 2 -> Nat] /\ UNCHANGED written /\ RunOnly
  BY DEF TryStep
<1>2. PICK x \in Placed(s) :
        /\ bio.try > 0 /\ (Refused(x) \/ Sent(x))
        /\ slba_next' \in [1 .. 2 -> Nat] /\ UNCHANGED written /\ RunOnly
  BY <1>1
<1>3. x \in Nat
  BY PlacedNat
<1> QED
  BY <1>2, <1>3, TryTyped

LEMMA StartFacts ==
  ASSUME TypedInv, pc = "ready", Start
  PROVE  /\ TypedInv' /\ job' \in 1 .. Len(jobs)
         /\ bio' = NoBio /\ slba_next' = <<0, 0>> /\ flight' = {} /\ written' = {} /\ sum' = 0
<1>1. job = 0
  BY BeforeRun
<1>2. /\ bio = NoBio /\ slba_next = <<0, 0>> /\ flight = {} /\ written = {} /\ sum = 0
  BY <1>1 DEF TypedInv, RunInv
<1>3. /\ pc' = "run" /\ job' \in 1 .. Len(jobs)
      /\ UNCHANGED <<input, pos, defaults, jobs, iosize, nsis, nvalid,
                 bio, slba_next, flight, written, sum>>
  BY DEF Start
<1>4. ParamInv'
  BY <1>3 DEF TypedInv, ParamInv, Below
<1>5. RunInv'
  BY <1>3 DEF TypedInv, RunInv, ParamInv
<1>6. DrawnInv'
  <2>1. bio'.try = 0 /\ flight' = {}
    BY <1>2, <1>3, NoBioFacts
  <2> QED
    BY <2>1 DEF DrawnInv
<1> QED
  BY <1>2, <1>3, <1>4, <1>5, <1>6 DEF TypedInv

LEMMA TypedNext ==
  ASSUME TypedInv, [Next]_<<paramVars, runVars>>
  PROVE  TypedInv'
<1>1. CASE ParamsNext /\ UNCHANGED runVars
  <2>1. job = 0 /\ pc' \in {"parse", "validate", "ready", "failed"}
    BY <1>1, BeforeRun, ParamsPc
  <2>2. ParamInv'
    BY <1>1, NextParam DEF TypedInv
  <2>3. job' = 0 /\ UNCHANGED <<bio, slba_next, flight, written, sum>>
    BY <1>1, <2>1 DEF runVars
  <2>4. Len(jobs') \in Nat
    BY <2>2 DEF ParamInv
  <2>5. RunInv'
    BY <2>1, <2>3, <2>4 DEF TypedInv, RunInv
  <2>6. DrawnInv'
    BY <2>3 DEF DrawnInv
  <2> QED
    BY <2>2, <2>5, <2>6 DEF TypedInv
<1>2. CASE pc = "ready" /\ Start
  BY <1>2, StartFacts
<1>3. CASE pc = "run" /\ RunNext
  <2>1. job # 0
    BY <1>3 DEF TypedInv, RunInv
  <2> QED
    BY <1>3, <2>1, TypedQuiet, TypedTry, TryCases DEF RunNext
<1>4. CASE UNCHANGED <<paramVars, runVars>>
  <2>1. ParamInv'
    BY <1>4 DEF TypedInv, ParamInv, Below, paramVars
  <2>2. RunInv'
    BY <1>4 DEF TypedInv, RunInv, paramVars, runVars
  <2>3. Kept /\ UNCHANGED <<input, job, bio, flight>>
    BY <1>4 DEF Kept, paramVars, runVars
  <2>4. DrawnInv'
    BY <2>3, KeptFacts DEF TypedInv, DrawnInv
  <2> QED
    BY <2>1, <2>2, <2>4 DEF TypedInv
<1> QED
  BY <1>1, <1>2, <1>3, <1>4 DEF Next, RunNext

LEMMA TypedHolds == Spec => []TypedInv
<1>1. TypedInv /\ [Next]_<<paramVars, runVars>> => TypedInv'
  BY TypedNext
<1> QED
  BY <1>1, TypedInit, PTL DEF Spec

(* The parser, the validation and the drawing of bios keep every variable  *)
(* in its type; a bio has at most three tries.                             *)
THEOREM TypeCorrect == Spec => []TypeOK
<1>1. TypedInv => TypeOK
  <2> SUFFICES ASSUME TypedInv PROVE TypeOK
    OBVIOUS
  <2>1. slba_next \in [1 .. 2 -> Nat]
    BY DEF TypedInv, RunInv
  <2>2. bio.try \in 0 .. 3
    BY DEF TypedInv, RunInv, BioSet
  <2>3. \A b \in flight : b.op \in Operations /\ b.slba \in Nat /\ b.nlbs \in Nat
    BY DEF TypedInv, RunInv, FlightSet
  <2> QED
    BY <2>1, <2>2, <2>3 DEF TypedInv, ParamInv, RunInv, TypeOK
<1> QED
  BY <1>1, TypedHolds, PTL
-----------------------------------------------------------------------------
(* The data of a read or write fits into the buffer create_bio_pool made   *)
(* for it, for every file: a size that a job takes over from the defaults  *)
(* or from the extremes of all sections was counted for the buffers too.   *)
THEOREM Fits == Spec => []BufferFits
<1>1. TypedInv => BufferFits
  <2> SUFFICES ASSUME TypedInv, Started, P.slba # "jesd219", NEW b \in flight,
                      b.op \in {"read", "write"}, SizeAlignFits(b.op)
               PROVE  b.nlbs * (DataSize + input.ext)
                        <= Max(iosize.max, 4096) + input.ext * (iosize.max \div DataSize)
    BY DEF BufferFits
  <2>1. job \in 1 .. Len(jobs) /\ b \in FlightSet
    BY DEF TypedInv, RunInv, Started
  <2>2. b.op \in BlockOps /\ b.nlbs \in Sizes(b.op)
    BY LotteryOps DEF TypedInv, DrawnInv, Started
  <2>3. PICK n \in Nat, d \in Nat \ {0}, e \in Nat, m \in Nat :
          n = b.nlbs /\ d = DataSize /\ e = input.ext /\ m = iosize.max
    BY <2>1, InputFacts DEF TypedInv, ParamInv, FlightSet
  <2>4. n <= m \div d
    BY <2>1, <2>2, <2>3, SizesFacts DEF TypedInv
  <2>5. PICK q \in Nat : q = m \div d
    BY DivMono
  <2>6. q * d <= m
    BY <2>5
  <2>7. n * d <= q * d /\ n * e <= q * e
    BY <2>4, <2>5
  <2>8. n * (d + e) = n * d + n * e /\ q * e = e * q
    OBVIOUS
  <2>9. n * d \in Nat /\ n * e \in Nat /\ q * d \in Nat /\ e * q \in Nat
    OBVIOUS
  <2>10. n * (d + e) <= m + e * q
    BY <2>6, <2>7, <2>8, <2>9
  <2>11. m <= Max(m, 4096) /\ Max(m, 4096) \in Nat
    BY DEF Max
  <2>12. n * (d + e) <= Max(m, 4096) + e * q
    BY <2>8, <2>9, <2>10, <2>11
  <2> QED
    BY <2>3, <2>5, <2>12
<1> QED
  BY <1>1, TypedHolds, PTL

(* Where a try ends up once it is aligned. *)
LEMMA PlacedFacts ==
  ASSUME TypedInv, job # 0, bio.try > 0, NEW s \in Nat, StartOK(s), NEW x \in Placed(s)
  PROVE  /\ (P.slba \in {"seq", "uniform", "zipf"} /\ bio.nlbs <= RangeLbas /\ AlignFits)
              => Begin <= x /\ x + bio.nlbs <= Begin + RangeLbas
         /\ (P.slba = "jesd219" /\ Begin = 0 /\ P.plain.slba_align <= DataSize)
              => x + bio.nlbs <= input.nlbs
<1>1. job \in 1 .. Len(jobs)
  BY DEF TypedInv, RunInv
<1>2. PICK g \in Nat, r \in Nat, n \in Nat, al \in Nat, d \in Nat \ {0} :
        /\ g = Begin /\ r = RangeLbas /\ n = bio.nlbs /\ al = P.plain.slba_align /\ d = DataSize
  BY <1>1, PFacts, BioAtFacts, InputFacts DEF TypedInv, ParamInv
<1>3. x \in {g + y : y \in IF al > d THEN Align(s, al \div d) ELSE {s}}
  BY <1>2 DEF Placed
<1>4. PICK y \in IF al > d THEN Align(s, al \div d) ELSE {s} : x = g + y
  BY <1>3
<1>5. ASSUME P.slba \in {"seq", "uniform", "zipf"}, n <= r, AlignFits
      PROVE  g <= x /\ x + n <= g + r
  <2>1. s + n <= r
    BY <1>2, <1>5 DEF StartOK
  <2>2. CASE al > d
    <3>1. PICK a \in Nat : a = al \div d
      BY DivMono
    <3>2. bio.op \in Lottery \ {"flush"} /\ n \in Sizes(bio.op)
      BY <1>2, <1>5 DEF TypedInv, DrawnInv
    <3>3. PowerOf2(a) /\ a # 0 /\ r % a = 0 /\ n % a = 0
      BY <1>2, <1>5, <2>2, <3>1, <3>2 DEF AlignFits, Divides
    <3>4. r - n \in Nat /\ s <= r - n
      BY <1>5, <2>1
    <3>8. (r - n) % a = 0
      BY <1>5, <3>3, DividesMinus
    <3>5. PICK z \in Nat : z = r - n /\ z % a = 0 /\ s <= z
      BY <3>4, <3>8
    <3>6. y \in Align(s, a)
      BY <1>4, <2>2, <3>1
    <3>7. y \in Nat /\ y <= z
      BY <3>3, <3>5, <3>6, AlignBelow
    <3> QED
      BY <1>4, <3>5, <3>7
  <2>3. CASE ~(al > d)
    <3>1. y = s
      BY <1>4, <2>3
    <3> QED
      BY <1>4, <2>1, <3>1
  <2> QED
    BY <2>2, <2>3
<1>6. ASSUME P.slba = "jesd219", g = 0, al <= d
      PROVE  x + n <= input.nlbs
  <2>1. y = s
    BY <1>4, <1>6
  <2>2. s = bio.jesd /\ bio.jesd + n <= input.nlbs
    BY <1>2, <1>6 DEF StartOK, TypedInv, DrawnInv
  <2> QED
    BY <1>4, <1>6, <2>1, <2>2
<1> QED
  BY <1>2, <1>5, <1>6

LEMMA InRangeTry ==
  ASSUME TypedInv, BioInRange, job # 0, TryStep
  PROVE  BioInRange'
<1>1. PICK s \in Nat : \E x \in Placed(s) :
        /\ bio.try > 0 /\ StartOK(s) /\ (Refused(x) \/ Sent(x)) /\ RunOnly
  BY DEF TryStep
<1>2. PICK x \in Placed(s) : bio.try > 0 /\ StartOK(s) /\ (Refused(x) \/ Sent(x)) /\ RunOnly
  BY <1>1
<1>3. Kept
  BY <1>2 DEF RunOnly, Kept, paramVars
<1>4. /\ P' = P /\ DataSize' = DataSize /\ RangeLbas' = RangeLbas /\ Begin' = Begin
      /\ (AlignFits' <=> AlignFits) /\ input' = input /\ job' = job
  BY <1>3, KeptFacts, KeptAlign DEF Kept
<1>5. x \in Nat
  BY PlacedNat
<1> DEFINE Good(b) ==
      /\ (P.slba \in {"seq", "uniform", "zipf"} /\ b.nlbs <= RangeLbas /\ AlignFits)
           => Begin <= b.slba /\ b.slba + b.nlbs <= Begin + RangeLbas
      /\ (P.slba = "jesd219" /\ Begin = 0 /\ P.plain.slba_align <= DataSize)
           => b.slba + b.nlbs <= input.nlbs
<1>6. \A b \in flight : Good(b)
  BY DEF BioInRange, Started
<1>7. Good(BioAt(x))
  <2>1. BioAt(x).slba = x /\ BioAt(x).nlbs = bio.nlbs
    BY <1>2, <1>5, BioAtFacts
  <2> QED
    BY <1>2, <2>1, PlacedFacts
<1>8. flight' \subseteq flight \cup {BioAt(x)}
  BY <1>2 DEF Refused, Sent
<1> HIDE DEF Good
<1>9. \A b \in flight' : Good(b)
  BY <1>6, <1>7, <1>8
<1> QED
  BY <1>4, <1>9 DEF BioInRange, Good, Started

LEMMA InRangeNext ==
  ASSUME TypedInv, BioInRange, [Next]_<<paramVars, runVars>>
  PROVE  BioInRange'
<1>1. CASE ParamsNext /\ UNCHANGED runVars
  <2>1. job' = 0
    BY <1>1, BeforeRun DEF runVars
  <2> QED
    BY <2>1 DEF BioInRange, Started
<1>2. CASE pc = "ready" /\ Start
  <2>1. flight' = {}
    BY <1>2, StartFacts
  <2> QED
    BY <2>1 DEF BioInRange
<1>3. CASE pc = "run" /\ RunNext
  <2>1. job # 0
    BY <1>3 DEF TypedInv, RunInv
  <2>2. CASE TryStep
    BY <2>1, <2>2, InRangeTry
  <2>3. CASE PickFlush \/ PickBio \/ GiveUpStep \/ TryRandomCrashes \/ End \/ Finish
    <3>1. Kept /\ flight' \subseteq flight
      BY <2>3 DEF PickFlush, PickBio, GiveUpStep, GiveUp, TryRandomCrashes, End, Finish,
                  RunOnly, Kept, paramVars, runVars
    <3>2. /\ P' = P /\ DataSize' = DataSize /\ RangeLbas' = RangeLbas /\ Begin' = Begin
          /\ (AlignFits' <=> AlignFits) /\ input' = input /\ job' = job
      BY <3>1, KeptFacts, KeptAlign DEF Kept
    <3> QED
      BY <3>1, <3>2 DEF BioInRange, Started
  <2> QED
    BY <1>3, <2>1, <2>2, <2>3, TryCases DEF RunNext
<1>4. CASE UNCHANGED <<paramVars, runVars>>
  <2>1. Kept /\ flight' = flight /\ input' = input /\ job' = job
    BY <1>4 DEF Kept, paramVars, runVars
  <2>2. /\ P' = P /\ DataSize' = DataSize /\ RangeLbas' = RangeLbas /\ Begin' = Begin
        /\ (AlignFits' <=> AlignFits)
    BY <2>1, KeptFacts, KeptAlign
  <2> QED
    BY <2>1, <2>2 DEF BioInRange, Started
<1> QED
  BY <1>1, <1>2, <1>3, <1>4 DEF Next, RunNext

(* Every bio of a job lies in the range of the job, for every parameter    *)
(* file, size of the namespace, order of completions and number of tries.  *)
THEOREM InRange == Spec => []BioInRange
<1>1. Init => BioInRange
  BY DEF Init, BioInRange, Started
<1>2. TypedInv /\ BioInRange /\ [Next]_<<paramVars, runVars>> => BioInRange'
  BY InRangeNext
<1> QED
  BY <1>1, <1>2, TypedHolds, PTL DEF Spec
-----------------------------------------------------------------------------
(* Reads behind writes.  The first M blocks of the range are written or    *)
(* being written, nothing else is out, and the cursor is at most one block *)
(* behind them: before the first wrap it is at M, afterwards M hardly      *)
(* grows.                                                                  *)
Stream == P.slba = "seq" /\ P.plain.separate_stream /\ StreamWhole
Covered(M) ==
  \A l \in Begin .. Begin + M - 1 :
    l \in written \/ \E f \in flight : f.op = "write" /\ l \in Blocks(f)
Inside(M) == \A f \in flight : Blocks(f) \subseteq Begin .. Begin + M - 1
OneSize(M) ==
  \E n, k, K \in Nat :
    /\ \A m \in Sizes("write") : m = n
    /\ k <= K /\ slba_next[1] = k * n /\ M = K * n
TwoBlocks(M) ==
  /\ \A m \in Sizes("write") : m <= 2
  /\ slba_next[1] <= M + 1 /\ (slba_next[1] # M => M >= RangeLbas - 1)
StreamAt(M) == Covered(M) /\ Inside(M) /\ (OneSize(M) \/ TwoBlocks(M))
ReadsDone == \A b \in flight : b.op = "read" => Blocks(b) \subseteq written
StreamInv == job # 0 /\ Stream => ReadsDone /\ \E M \in Nat : StreamAt(M)

(* A write of n blocks at s, one of the first K + 1 multiples of n. *)
AfterWrite(n, K, s) ==
  \E j \in Nat : s + n = j * n /\ (j <= K \/ (j = K + 1 /\ s = K * n))

LEMMA CursorOne ==
  ASSUME NEW n \in Nat, NEW k \in Nat, NEW K \in Nat, k <= K,
         NEW s \in Nat, s = 0 \/ s = k * n
  PROVE  AfterWrite(n, K, s)
<1> USE DEF AfterWrite
<1>1. CASE s = 0
  <2>1. s + n = 1 * n
    BY <1>1
  <2>2. CASE K = 0
    <3>1. s = K * n
      BY <1>1, <2>2
    <3> QED
      BY <2>1, <2>2, <3>1
  <2>3. CASE K # 0
    BY <2>1, <2>3
  <2> QED
    BY <2>2, <2>3
<1>2. CASE s = k * n
  <2>1. s + n = (k + 1) * n
    BY <1>2
  <2>2. CASE k = K
    <3>1. PICK j \in Nat : j = K + 1
      OBVIOUS
    <3>2. s + n = j * n /\ s = K * n
      BY <1>2, <2>1, <2>2, <3>1
    <3> QED
      BY <3>1, <3>2
  <2>3. CASE k + 1 <= K
    <3>1. PICK j \in Nat : j = k + 1
      OBVIOUS
    <3>2. s + n = j * n /\ j <= K
      BY <2>1, <2>3, <3>1
    <3> QED
      BY <3>2
  <2> QED
    BY <2>2, <2>3
<1> QED
  BY <1>1, <1>2

LEMMA CursorTwo ==
  ASSUME NEW n \in Nat, n <= 2, NEW w \in Nat, NEW M \in Nat, NEW R \in Nat,
         w <= M + 1, w # M => M >= R - 1,
         NEW s \in Nat, s = IF w + n > R THEN 0 ELSE w
  PROVE  /\ s + n <= M /\ s + n # M => M >= R - 1
         /\ s < M /\ M < s + n => s + n = M + 1 /\ M >= R - 1
         /\ s > M => n = 0 /\ s = M + 1 /\ M >= R - 1
OBVIOUS

LEMMA StreamKept ==
  ASSUME StreamInv, Kept, UNCHANGED <<flight, written>>, slba_next'[1] = slba_next[1]
  PROVE  StreamInv'
<1>1. /\ P' = P /\ RangeLbas' = RangeLbas /\ Begin' = Begin /\ \A op : Sizes(op)' = Sizes(op)
      /\ (StreamWhole' <=> StreamWhole) /\ job' = job /\ flight' = flight /\ written' = written
  BY KeptFacts, KeptAlign DEF Kept
<1>2. (Stream' <=> Stream) /\ (ReadsDone' <=> ReadsDone)
  BY <1>1 DEF Stream, ReadsDone
<1>3. ASSUME NEW M \in Nat, StreamAt(M) PROVE StreamAt(M)'
  <2>1. Covered(M)' /\ Inside(M)'
    BY <1>1, <1>3 DEF StreamAt, Covered, Inside
  <2>2. OneSize(M) => OneSize(M)'
    BY <1>1 DEF OneSize
  <2>3. TwoBlocks(M) => TwoBlocks(M)'
    BY <1>1 DEF TwoBlocks
  <2> QED
    BY <1>3, <2>1, <2>2, <2>3 DEF StreamAt
<1> QED
  BY <1>1, <1>2, <1>3 DEF StreamInv

(* A bio that ends: a write is written, and no longer out. *)
LEMMA EndCovers ==
  ASSUME End, Begin' = Begin, NEW M \in Nat
  PROVE  (Covered(M) => Covered(M)') /\ (Inside(M) => Inside(M)')
<1>1. PICK b \in flight : /\ flight' = flight \ {b}
                          /\ written' = IF b.op = "write" THEN written \cup Blocks(b) ELSE written
  BY DEF End
<1>2. ASSUME Covered(M) PROVE Covered(M)'
  <2> SUFFICES ASSUME NEW l \in Begin .. Begin + M - 1
               PROVE  l \in written' \/ \E f \in flight' : f.op = "write" /\ l \in Blocks(f)
    BY DEF Covered
  <2>1. l \in written \/ \E f \in flight : f.op = "write" /\ l \in Blocks(f)
    BY <1>2 DEF Covered
  <2> QED
    BY <1>1, <2>1
<1>3. ASSUME Inside(M) PROVE Inside(M)'
  BY <1>1, <1>3 DEF Inside
<1> QED
  BY <1>2, <1>3

LEMMA StreamEnd ==
  ASSUME StreamInv, End
  PROVE  StreamInv'
<1>1. Kept /\ slba_next' = slba_next
  BY DEF End, RunOnly, Kept, paramVars
<1>2. PICK b \in flight : /\ flight' = flight \ {b}
                          /\ written' = IF b.op = "write" THEN written \cup Blocks(b) ELSE written
  BY DEF End
<1>3. /\ P' = P /\ RangeLbas' = RangeLbas /\ Begin' = Begin /\ \A op : Sizes(op)' = Sizes(op)
      /\ (StreamWhole' <=> StreamWhole) /\ job' = job
  BY <1>1, KeptFacts, KeptAlign DEF Kept
<1>4. Stream' <=> Stream
  BY <1>3 DEF Stream
<1>5. ReadsDone => ReadsDone'
  BY <1>2 DEF ReadsDone
<1>6. ASSUME NEW M \in Nat, StreamAt(M) PROVE StreamAt(M)'
  <2>1. Covered(M)' /\ Inside(M)'
    BY <1>3, <1>6, EndCovers DEF StreamAt
  <2>2. OneSize(M) => OneSize(M)'
    BY <1>1, <1>3 DEF OneSize
  <2>3. TwoBlocks(M) => TwoBlocks(M)'
    BY <1>1, <1>3 DEF TwoBlocks
  <2> QED
    BY <1>6, <2>1, <2>2, <2>3 DEF StreamAt
<1> QED
  BY <1>3, <1>4, <1>5, <1>6 DEF StreamInv

LEMMA StreamPlaced ==
  ASSUME TypedInv, job # 0, Stream, NEW s \in Nat, NEW x \in Placed(s)
  PROVE  x = Begin + s /\ x \in Nat /\ Begin \in Nat
<1>1. Begin \in Nat /\ P.plain.slba_align \in Nat /\ DataSize \in Nat
  BY PFacts, InputFacts DEF TypedInv, RunInv, ParamInv
<1>2. P.plain.slba_align <= DataSize
  BY DEF Stream, StreamWhole
<1> QED
  BY <1>1, <1>2 DEF Placed

(* A read stays below the cursor, hence among the first M blocks, and what *)
(* is being written there is locked.                                       *)
LEMMA StreamRead ==
  ASSUME TypedInv, StreamInv, job # 0, Stream, TrySeparateRead
  PROVE  StreamInv'
<1>1. bio.try > 0 /\ bio.op = "read" /\ written' = written /\ RunOnly
  BY DEF TrySeparateRead
<1>2. Kept
  BY <1>1 DEF RunOnly, Kept, paramVars
<1>3. slba_next \in [1 .. 2 -> Nat] /\ slba_next[1] \in Nat /\ slba_next[2] \in Nat
  BY DEF TypedInv, RunInv
<1>4. PICK s \in Nat, n \in Nat : s = Sequential(slba_next[2]) /\ n = bio.nlbs
  BY <1>1, <1>3, SequentialFacts, BioAtFacts
<1>5. CASE GiveUp /\ UNCHANGED slba_next
  <2>1. flight' = flight
    BY <1>5 DEF GiveUp
  <2> QED
    BY <1>1, <1>2, <1>5, <2>1, StreamKept
<1>6. CASE s + n < slba_next[1] /\ TryAt(s) /\ slba_next' = [slba_next EXCEPT ![2] = s + n]
  <2>1. slba_next'[1] = slba_next[1]
    BY <1>3, <1>6
  <2>2. PICK x \in Placed(s) : Refused(x) \/ Sent(x)
    BY <1>1, <1>6, TryFacts
  <2>3. CASE Refused(x)
    <3>1. flight' = flight
      BY <2>3 DEF Refused
    <3> QED
      BY <1>1, <1>2, <2>1, <3>1, StreamKept
  <2>4. CASE Sent(x)
    <3> DEFINE new == BioAt(x)
    <3>1. x = Begin + s /\ x \in Nat /\ Begin \in Nat
      BY StreamPlaced
    <3>2. new.op = "read" /\ new.slba = x /\ new.nlbs = n
      BY <1>1, <1>4, <3>1, BioAtFacts
    <3>3. flight' = flight \cup {new} /\ ~Locked(new)
      BY <2>4 DEF Sent
    <3> HIDE DEF new
    <3>4. Blocks(new) = x .. x + n - 1
      BY <3>2 DEF Blocks
    <3>5. PICK M \in Nat : StreamAt(M)
      BY DEF StreamInv
    <3>6. slba_next[1] <= M + 1
      <4>1. CASE TwoBlocks(M)
        BY <4>1 DEF TwoBlocks
      <4>2. CASE OneSize(M)
        <5>1. PICK z \in Nat, k \in Nat, K \in Nat :
                k <= K /\ slba_next[1] = k * z /\ M = K * z
          BY <4>2 DEF OneSize
        <5>2. k * z <= K * z
          BY <5>1
        <5> QED
          BY <1>3, <5>1, <5>2
      <4> QED
        BY <3>5, <4>1, <4>2 DEF StreamAt
    <3>7. s + n <= M
      BY <1>3, <1>6, <3>6
    <3>8. Blocks(new) \subseteq Begin .. Begin + M - 1
      BY <3>1, <3>4, <3>7
    <3>9. Blocks(new) \subseteq written
      <4> SUFFICES ASSUME NEW l \in Blocks(new) PROVE l \in written
        OBVIOUS
      <4>1. l \in written \/ \E f \in flight : f.op = "write" /\ l \in Blocks(f)
        BY <3>5, <3>8 DEF StreamAt, Covered
      <4>2. \A f \in flight : l \notin Blocks(f)
        BY <3>3 DEF Locked
      <4> QED
        BY <4>1, <4>2
    <3>10. /\ P' = P /\ RangeLbas' = RangeLbas /\ Begin' = Begin /\ \A op : Sizes(op)' = Sizes(op)
      BY <1>2, KeptFacts
    <3>11. ReadsDone'
      BY <1>1, <3>3, <3>9 DEF ReadsDone, StreamInv
    <3>12. Covered(M)'
      BY <1>1, <3>3, <3>5, <3>10 DEF StreamAt, Covered
    <3>13. Inside(M)'
      BY <3>3, <3>5, <3>8, <3>10 DEF StreamAt, Inside
    <3>14. OneSize(M) => OneSize(M)'
      BY <2>1, <3>10 DEF OneSize
    <3>15. TwoBlocks(M) => TwoBlocks(M)'
      BY <2>1, <3>10 DEF TwoBlocks
    <3>16. StreamAt(M)'
      BY <3>5, <3>12, <3>13, <3>14, <3>15 DEF StreamAt
    <3> QED
      BY <3>11, <3>16 DEF StreamInv
  <2> QED
    BY <2>2, <2>3, <2>4
<1>7. s + n \in Nat /\ (~(s + n >= slba_next[1]) => s + n < slba_next[1])
  BY <1>3
<1> QED
  BY <1>4, <1>5, <1>6, <1>7 DEF TrySeparateRead

(* A write at s of the first M blocks or right behind them. *)
LEMMA SentCovers ==
  ASSUME TypedInv, job # 0, NEW M \in Nat, Covered(M), Inside(M), ReadsDone,
         NEW s \in Nat, NEW n \in Nat, n = bio.nlbs, bio.try > 0, bio.op = "write",
         NEW x \in Nat, x = Begin + s, Sent(x), written' = written, RunOnly,
         NEW N \in Nat, s <= M \/ n = 0, N = IF s + n <= M \/ n = 0 THEN M ELSE s + n
  PROVE  Covered(N)' /\ Inside(N)' /\ ReadsDone'
<1> DEFINE new == BioAt(x)
<1>1. x = Begin + s /\ x \in Nat /\ Begin \in Nat
  BY PFacts DEF TypedInv, RunInv
<1>2. new.op = "write" /\ new.slba = x /\ new.nlbs = n
  BY <1>1, BioAtFacts
<1>3. flight' = flight \cup {new}
  BY DEF Sent
<1> HIDE DEF new
<1>4. Blocks(new) = x .. x + n - 1
  BY <1>2 DEF Blocks
<1>5. Begin' = Begin
  BY KeptFacts DEF RunOnly, Kept, paramVars
<1>6. ReadsDone'
  BY <1>2, <1>3 DEF ReadsDone
<1>7. Covered(N)'
  <2> SUFFICES ASSUME NEW l \in Begin .. Begin + N - 1
               PROVE  l \in written \/ \E f \in flight' : f.op = "write" /\ l \in Blocks(f)
    BY <1>5 DEF Covered
  <2>1. CASE l \in Begin .. Begin + M - 1
    BY <1>3, <2>1 DEF Covered
  <2>2. CASE l \notin Begin .. Begin + M - 1
    <3>1. l \in x .. x + n - 1
      BY <1>1, <2>2
    <3> QED
      BY <1>2, <1>3, <1>4, <3>1
  <2> QED
    BY <2>1, <2>2
<1>8. Inside(N)'
  <2>1. Begin .. Begin + M - 1 \subseteq Begin .. Begin + N - 1
    BY <1>1
  <2>2. Blocks(new) \subseteq Begin .. Begin + N - 1
    BY <1>1, <1>4
  <2> QED
    BY <1>3, <1>5, <2>1, <2>2 DEF Inside
<1> QED
  BY <1>6, <1>7, <1>8

(* Nothing behind the first M blocks is locked. *)
LEMMA RefusedBelow ==
  ASSUME TypedInv, job # 0, NEW M \in Nat, Inside(M), NEW s \in Nat,
         bio.try > 0, NEW x \in Nat, x = Begin + s, Refused(x)
  PROVE  s < M
<1>1. x = Begin + s /\ x \in Nat /\ Begin \in Nat
  BY PFacts DEF TypedInv, RunInv
<1>2. BioAt(x).slba = x
  BY <1>1, BioAtFacts
<1>3. PICK f \in flight : Blocks(f) \cap Blocks(BioAt(x)) # {}
  BY DEF Refused, Locked
<1>4. PICK l : l \in Blocks(f) /\ l \in Blocks(BioAt(x))
  BY <1>3
<1>5. l \in Begin .. Begin + M - 1
  BY <1>4 DEF Inside
<1>6. PICK y \in Nat : y = BioAt(x).nlbs
  BY <1>1, BioAtFacts
<1>7. l \in x .. x + y - 1
  BY <1>2, <1>4, <1>6 DEF Blocks
<1> QED
  BY <1>1, <1>5, <1>7

LEMMA StreamWrite ==
  ASSUME TypedInv, StreamInv, job # 0, Stream, TrySequential
  PROVE  StreamInv'
<1>1. /\ bio.try > 0 /\ ~(P.plain.separate_stream /\ bio.op = "read")
      /\ written' = written /\ RunOnly
  BY DEF TrySequential
<1>2. bio.op \in {"read", "write", "flush"} /\ bio.op # "flush" /\ P.slba = "seq"
      /\ P.plain.separate_stream
  BY <1>1 DEF Stream, StreamWhole, TypedInv, DrawnInv
<1>3. bio.op = "write" /\ bio.nlbs \in Sizes("write")
  BY <1>1, <1>2 DEF TypedInv, DrawnInv
<1>4. PICK w \in Nat, n \in Nat, R \in Nat : w = slba_next[1] /\ n = bio.nlbs /\ R = RangeLbas
  BY <1>1, BioAtFacts, PFacts DEF TypedInv, RunInv
<1>5. PICK s \in Nat : s = IF w + n > R THEN 0 ELSE w
  OBVIOUS
<1>6. TryAt(s) /\ slba_next' = [slba_next EXCEPT ![1] = s + n]
  BY <1>4, <1>5 DEF TrySequential, Sequential
<1>7. slba_next'[1] = s + n
  BY <1>6 DEF TypedInv, RunInv
<1>8. PICK x \in Placed(s) : Refused(x) \/ Sent(x)
  BY <1>1, <1>6, TryFacts
<1>16. x = Begin + s /\ x \in Nat
  BY StreamPlaced
<1>9. /\ P' = P /\ RangeLbas' = RangeLbas /\ Begin' = Begin /\ \A op : Sizes(op)' = Sizes(op)
  BY <1>1, KeptFacts DEF RunOnly, Kept, paramVars
<1>10. PICK M \in Nat : StreamAt(M)
  BY DEF StreamInv
<1>11. Covered(M) /\ Inside(M) /\ ReadsDone
  BY <1>10 DEF StreamAt, StreamInv
<1>12. Refused(x) => s < M
  BY <1>1, <1>11, <1>16, RefusedBelow
<1>13. Refused(x) => Covered(M)' /\ Inside(M)' /\ ReadsDone'
  <2> SUFFICES ASSUME Refused(x) PROVE Covered(M)' /\ Inside(M)' /\ ReadsDone'
    OBVIOUS
  <2>1. flight' = flight
    BY DEF Refused
  <2> QED
    BY <1>1, <1>9, <1>11, <2>1 DEF Covered, Inside, ReadsDone
<1>14. CASE OneSize(M)
  <2>1. PICK z \in Nat, k \in Nat, K \in Nat :
          (\A m \in Sizes("write") : m = z) /\ k <= K /\ slba_next[1] = k * z /\ M = K * z
    BY <1>14 DEF OneSize
  <2>2. z = n
    BY <1>3, <1>4, <2>1
  <2>3. w = k * n /\ M = K * n
    BY <1>4, <2>1, <2>2
  <2>4. s = 0 \/ s = k * n
    BY <1>5, <2>3
  <2>k. k <= K
    BY <2>1
  <2>5a. AfterWrite(n, K, s)
    BY <2>k, <2>4, CursorOne
  <2>5. PICK j \in Nat : s + n = j * n /\ (j <= K \/ (j = K + 1 /\ s = M))
    BY <2>3, <2>5a DEF AfterWrite
  <2>6. CASE j <= K
    <3>1. s + n <= M
      <4>1. j * n <= K * n
        BY <2>6
      <4> QED
        BY <2>3, <2>5, <4>1
    <3>2. OneSize(M)'
      BY <1>7, <1>9, <2>1, <2>2, <2>3, <2>5, <2>6 DEF OneSize
    <3>3. Sent(x) => Covered(M)' /\ Inside(M)' /\ ReadsDone'
      BY <1>1, <1>3, <1>4, <1>11, <1>16, <3>1, SentCovers
    <3> QED
      BY <1>8, <1>13, <3>2, <3>3 DEF StreamInv, StreamAt
  <2>7. CASE j = K + 1 /\ s = M
    <3>1. Sent(x)
      BY <1>8, <1>12, <2>7
    <3>2. PICK N \in Nat : N = M + n
      OBVIOUS
    <3>3. N = IF s + n <= M \/ n = 0 THEN M ELSE s + n
      BY <2>7, <3>2
    <3>4. Covered(N)' /\ Inside(N)' /\ ReadsDone'
      BY <1>1, <1>3, <1>4, <1>11, <1>16, <2>7, <3>1, <3>3, SentCovers
    <3>5. N = j * n /\ slba_next'[1] = j * n /\ j <= j
      BY <1>7, <2>5, <2>7, <3>2
    <3>6. OneSize(N)'
      BY <1>9, <2>1, <2>2, <3>5 DEF OneSize
    <3> QED
      BY <3>4, <3>6 DEF StreamInv, StreamAt
  <2> QED
    BY <2>5, <2>6, <2>7
<1>15. CASE TwoBlocks(M)
  <2>1. /\ n <= 2 /\ w <= M + 1 /\ (w # M => M >= R - 1)
    BY <1>3, <1>4, <1>15 DEF TwoBlocks
  <2>2. /\ s + n <= M /\ s + n # M => M >= R - 1
        /\ s < M /\ M < s + n => s + n = M + 1 /\ M >= R - 1
        /\ s > M => n = 0 /\ s = M + 1 /\ M >= R - 1
    BY <1>5, <2>1, CursorTwo
  <2>3. ASSUME NEW N \in Nat, s + n <= N + 1, s + n # N => N >= R - 1
        PROVE  TwoBlocks(N)'
    BY <1>4, <1>7, <1>9, <1>15, <2>3 DEF TwoBlocks
  <2>4. CASE Refused(x)
    <3>1. s < M
      BY <1>12, <2>4
    <3>2. s + n <= M + 1 /\ (s + n # M => M >= R - 1)
      BY <2>2, <3>1
    <3>3. TwoBlocks(M)'
      BY <2>3, <3>2
    <3> QED
      BY <1>13, <2>4, <3>3 DEF StreamInv, StreamAt
  <2>5. CASE Sent(x)
    <3>1. PICK N \in Nat : N = IF s + n <= M \/ n = 0 THEN M ELSE s + n
      OBVIOUS
    <3>2. s <= M \/ n = 0
      BY <2>2
    <3>3. Covered(N)' /\ Inside(N)' /\ ReadsDone'
      BY <1>1, <1>3, <1>4, <1>11, <1>16, <2>5, <3>1, <3>2, SentCovers
    <3>4. s + n <= N + 1 /\ (s + n # N => N >= R - 1)
      BY <2>2, <3>1
    <3>5. TwoBlocks(N)'
      BY <2>3, <3>4
    <3> QED
      BY <3>3, <3>5 DEF StreamInv, StreamAt
  <2> QED
    BY <1>8, <2>4, <2>5
<1> QED
  BY <1>10, <1>14, <1>15 DEF StreamAt

(* No block is written and the cursor is at 0. *)
Fresh == TypedInv /\ job # 0 /\ slba_next = <<0, 0>> /\ flight = {} /\ sum = 0

LEMMA StreamFirst == Fresh => StreamInv
<1> SUFFICES ASSUME Fresh PROVE StreamInv
  OBVIOUS
<1>1. slba_next[1] = 0 /\ flight = {} /\ ParamInv /\ job \in 1 .. Len(jobs)
  BY DEF Fresh, TypedInv, RunInv
<1>2. Begin \in Nat /\ RangeLbas \in Nat
  BY <1>1, PFacts
<1>3. Covered(0) /\ Inside(0) /\ ReadsDone
  BY <1>1, <1>2 DEF Covered, Inside, ReadsDone
<1>4. ASSUME StreamWhole PROVE OneSize(0) \/ TwoBlocks(0)
  <2>1. \A m, n \in Sizes("write") : m = n \/ (m <= 2 /\ n <= 2)
    BY <1>4 DEF StreamWhole
  <2>2. CASE \A m \in Sizes("write") : m <= 2
    BY <1>1, <2>2 DEF TwoBlocks
  <2>3. CASE \E n \in Sizes("write") : ~(n <= 2)
    <3>1. PICK n \in Sizes("write") : ~(n <= 2)
      BY <2>3
    <3>2. \A m \in Sizes("write") : m = n
      BY <2>1, <3>1
    <3>3. n \in Nat
      BY <1>1, <3>1, SizesFacts DEF BlockOps
    <3>4. 0 <= 0 /\ slba_next[1] = 0 * n /\ 0 = 0 * n
      BY <1>1, <3>3
    <3> QED
      BY <3>2, <3>3, <3>4 DEF OneSize
  <2> QED
    BY <2>2, <2>3
<1> QED
  BY <1>3, <1>4 DEF StreamInv, Stream, StreamAt

LEMMA StreamStart == Fresh' => StreamInv'
BY StreamFirst, PTL

LEMMA StreamNext ==
  ASSUME TypedInv, StreamInv, [Next]_<<paramVars, runVars>>
  PROVE  StreamInv'
<1>1. CASE ParamsNext /\ UNCHANGED runVars
  <2>1. job' = 0
    BY <1>1, BeforeRun DEF runVars
  <2> QED
    BY <2>1 DEF StreamInv
<1>2. CASE pc = "ready" /\ Start
  <2>1. Fresh'
    BY <1>2, StartFacts DEF Fresh, TypedInv, RunInv, ParamInv
  <2> QED
    BY <2>1, StreamStart
<1>3. CASE pc = "run" /\ RunNext
  <2>1. job # 0
    BY <1>3 DEF TypedInv, RunInv
  <2>2. CASE Stream /\ TrySeparateRead
    BY <2>1, <2>2, StreamRead
  <2>3. CASE Stream /\ TrySequential
    BY <2>1, <2>3, StreamWrite
  <2>4. CASE Stream /\ (TryRandom \/ TryFixed)
    BY <2>4 DEF Stream, TryRandom, TryFixed
  <2>5. CASE End
    BY <2>5, StreamEnd
  <2>6. CASE PickFlush \/ PickBio \/ TryRandomCrashes \/ Finish
    <3>1. Kept /\ UNCHANGED <<flight, written, slba_next>>
      BY <2>6 DEF PickFlush, PickBio, TryRandomCrashes, Finish, RunOnly, Kept, paramVars, runVars
    <3> QED
      BY <3>1, StreamKept
  <2>7. CASE ~Stream /\ (TrySeparateRead \/ TrySequential \/ TryRandom \/ TryFixed)
    <3>1. Kept
      BY <2>7 DEF TrySeparateRead, TrySequential, TryRandom, TryFixed, RunOnly, Kept, paramVars
    <3>2. ~Stream'
      BY <2>7, <3>1, KeptFacts, KeptAlign DEF Stream
    <3> QED
      BY <3>2 DEF StreamInv
  <2> QED
    BY <1>3, <2>2, <2>3, <2>4, <2>5, <2>6, <2>7 DEF RunNext
<1>4. CASE UNCHANGED <<paramVars, runVars>>
  <2>1. Kept /\ UNCHANGED <<flight, written, slba_next>>
    BY <1>4 DEF Kept, paramVars, runVars
  <2> QED
    BY <2>1, StreamKept
<1> QED
  BY <1>1, <1>2, <1>3, <1>4 DEF Next, RunNext

(* A read of the separate stream touches only what the job has written,    *)
(* whatever bios are refused and in whatever order the others end.         *)
THEOREM ReadsBehind == Spec => []ReadsWritten
<1>1. Init => StreamInv
  BY DEF Init, StreamInv
<1>2. TypedInv /\ StreamInv /\ [Next]_<<paramVars, runVars>> => StreamInv'
  BY StreamNext
<1>3. StreamInv => ReadsWritten
  BY DEF StreamInv, Stream, ReadsDone, ReadsWritten, Started
<1> QED
  BY <1>1, <1>2, <1>3, TypedHolds, PTL DEF Spec
-----------------------------------------------------------------------------
(* The range is filled.  m blocks were sent: until the range is full, they *)
(* are its first m blocks, the cursor is right behind them and nothing     *)
(* there is locked, so that the next write is sent too.                    *)
FillJob ==
  /\ P.slba = "seq" /\ Lottery = {"write"} /\ P.amount.type = "byte" /\ input.ext = 0
  /\ AlignFits /\ \A m, n \in Sizes("write") : m = n /\ Divides(n, RangeLbas)
FillAt(m) ==
  /\ sum = m * DataSize /\ \A n \in Sizes("write") : \E k \in Nat : m = k * n
  /\ m < RangeLbas => slba_next[1] = m /\ Inside(m) /\ Covered(m)
  /\ m >= RangeLbas => Covered(RangeLbas)
FillInv == job # 0 /\ FillJob => \E m \in Nat : FillAt(m)

LEMMA MultipleOf ==
  ASSUME NEW a \in Nat \ {0}, NEW n \in Nat, n % a = 0, NEW k \in Nat
  PROVE  (k * n) % a = 0
<1>1. PICK q \in Nat : n = q * a
  <2>1. n = (n \div a) * a /\ n \div a \in Nat
    OBVIOUS
  <2> QED
    BY <2>1
<1>2. k * n = (k * q) * a
  BY <1>1
<1>3. \A z \in Nat : (z * a) % a = 0
  OBVIOUS
<1>4. k * q \in Nat
  BY <1>1
<1> QED
  BY <1>2, <1>3, <1>4

(* A multiple of n below another one leaves room for n. *)
LEMMA RoomForOne ==
  ASSUME NEW n \in Nat, NEW k \in Nat, NEW c \in Nat, k * n < c * n
  PROVE  k * n + n <= c * n /\ k * n + n = (k + 1) * n
<1>1. k * n + n = (k + 1) * n
  OBVIOUS
<1>2. k + 1 <= c
  <2> SUFFICES ASSUME c <= k PROVE FALSE
    OBVIOUS
  <2>1. c * n <= k * n
    OBVIOUS
  <2> QED
    BY <2>1
<1>3. (k + 1) * n <= c * n
  BY <1>2
<1> QED
  BY <1>1, <1>3

LEMMA FillKept ==
  ASSUME FillInv, Kept, UNCHANGED <<flight, written, sum>>, slba_next'[1] = slba_next[1]
  PROVE  FillInv'
<1>1. /\ P' = P /\ RangeLbas' = RangeLbas /\ Begin' = Begin /\ \A op : Sizes(op)' = Sizes(op)
      /\ (AlignFits' <=> AlignFits) /\ job' = job /\ Lottery' = Lottery /\ DataSize' = DataSize
      /\ input' = input
  BY KeptFacts, KeptAlign DEF Kept
<1>2. FillJob' <=> FillJob
  BY <1>1 DEF FillJob
<1>3. ASSUME NEW m \in Nat
      PROVE  (Covered(m)' <=> Covered(m)) /\ (Inside(m)' <=> Inside(m))
  BY <1>1 DEF Covered, Inside
<1>4. Covered(RangeLbas)' <=> Covered(RangeLbas)
  BY <1>1 DEF Covered
<1>5. ASSUME NEW m \in Nat, FillAt(m) PROVE FillAt(m)'
  BY <1>1, <1>3, <1>4, <1>5 DEF FillAt
<1> QED
  BY <1>1, <1>2, <1>5 DEF FillInv

LEMMA FillEnd ==
  ASSUME TypedInv, job # 0, FillInv, End
  PROVE  FillInv'
<1>1. Kept /\ UNCHANGED <<slba_next, sum>>
  BY DEF End, RunOnly, Kept, paramVars
<1>2. /\ P' = P /\ RangeLbas' = RangeLbas /\ Begin' = Begin /\ \A op : Sizes(op)' = Sizes(op)
      /\ (AlignFits' <=> AlignFits) /\ job' = job /\ Lottery' = Lottery /\ DataSize' = DataSize
      /\ input' = input
  BY <1>1, KeptFacts, KeptAlign DEF Kept
<1>3. FillJob' <=> FillJob
  BY <1>2 DEF FillJob
<1>4. PICK R \in Nat : R = RangeLbas
  BY PFacts DEF TypedInv, RunInv
<1>5. ASSUME NEW m \in Nat
      PROVE  (Covered(m) => Covered(m)') /\ (Inside(m) => Inside(m)')
  BY <1>2, EndCovers
<1>6. Covered(R) => Covered(R)'
  BY <1>5
<1>7. Covered(RangeLbas)' <=> Covered(R)'
  BY <1>2, <1>4 DEF Covered
<1>8. ASSUME NEW m \in Nat, FillAt(m) PROVE FillAt(m)'
  <2>1. m < R => slba_next[1] = m /\ Inside(m)' /\ Covered(m)'
    BY <1>4, <1>5, <1>8 DEF FillAt
  <2>2. m >= R => Covered(RangeLbas)'
    BY <1>4, <1>6, <1>7, <1>8 DEF FillAt
  <2> QED
    BY <1>1, <1>2, <1>4, <1>8, <2>1, <2>2 DEF FillAt
<1> QED
  BY <1>2, <1>3, <1>8 DEF FillInv

(* A multiple of the size of the writes is aligned already. *)
LEMMA FillPlaced ==
  ASSUME TypedInv, job # 0, FillJob, NEW n \in Sizes("write"), n \in Nat,
         NEW k \in Nat, NEW s \in Nat, s = k * n, NEW x \in Placed(s)
  PROVE  x = Begin + s /\ x \in Nat
<1>5. job \in 1 .. Len(jobs) /\ ParamInv
  BY DEF TypedInv, RunInv
<1>6. Begin \in Nat /\ P.plain.slba_align \in Nat /\ DataSize \in Nat \ {0}
  BY <1>5, PFacts, InputFacts DEF ParamInv
<1>1. PICK g \in Nat, al \in Nat, d \in Nat \ {0} :
        g = Begin /\ al = P.plain.slba_align /\ d = DataSize
  BY <1>6
<1>2. PICK y \in IF al > d THEN Align(s, al \div d) ELSE {s} : x = g + y
  BY <1>1 DEF Placed
<1>3. CASE al > d
  <2>1. PICK a \in Nat : a = al \div d
    BY DivMono
  <2>2. AlignFits /\ "write" \in Lottery \ {"flush"}
    BY DEF FillJob
  <2>3. PowerOf2(a) /\ a # 0 /\ n % a = 0
    BY <1>1, <1>3, <2>1, <2>2 DEF AlignFits, Divides
  <2>4. s % a = 0
    BY <2>3, MultipleOf
  <2>5. y \in Nat /\ s <= y /\ y <= s
    BY <1>2, <1>3, <2>1, <2>3, <2>4, AlignBelow
  <2> QED
    BY <1>1, <1>2, <2>5
<1>4. CASE ~(al > d)
  BY <1>1, <1>2, <1>4
<1> QED
  BY <1>3, <1>4

LEMMA FillWrite ==
  ASSUME TypedInv, FillInv, job # 0, FillJob, TrySequential
  PROVE  FillInv'
<1>1. /\ bio.try > 0 /\ written' = written /\ RunOnly
  BY DEF TrySequential
<1>2. bio.op = "write" /\ bio.nlbs \in Sizes("write")
  BY <1>1 DEF FillJob, TypedInv, DrawnInv
<1>3. PICK w \in Nat, n \in Nat, R \in Nat, d \in Nat \ {0} :
        w = slba_next[1] /\ n = bio.nlbs /\ R = RangeLbas /\ d = DataSize
  <2>1. job \in 1 .. Len(jobs) /\ ParamInv /\ slba_next[1] \in Nat
    BY DEF TypedInv, RunInv
  <2>2. RangeLbas \in Nat /\ DataSize \in Nat \ {0} /\ bio.nlbs \in Nat
    BY <1>1, <2>1, BioAtFacts, PFacts, InputFacts DEF ParamInv
  <2> QED
    BY <2>1, <2>2
<1>4. PICK s \in Nat : s = IF w + n > R THEN 0 ELSE w
  OBVIOUS
<1>5. TryAt(s) /\ slba_next' = [slba_next EXCEPT ![1] = s + n]
  BY <1>3, <1>4 DEF TrySequential, Sequential
<1>6. slba_next'[1] = s + n
  BY <1>5 DEF TypedInv, RunInv
<1>7. PICK x \in Placed(s) : Refused(x) \/ Sent(x)
  BY <1>1, <1>5, TryFacts
<1>8. /\ P' = P /\ RangeLbas' = RangeLbas /\ Begin' = Begin /\ DataSize' = DataSize
      /\ \A op : Sizes(op)' = Sizes(op)
  BY <1>1, KeptFacts DEF RunOnly, Kept, paramVars
<1>9. PICK m \in Nat : FillAt(m)
  BY DEF FillInv
<1>10. \A z \in Sizes("write") : z = n /\ n # 0 /\ R % n = 0
  BY <1>2, <1>3 DEF FillJob, Divides
<1>11. n # 0 /\ R % n = 0
  BY <1>2, <1>10
<1>12. PICK k \in Nat : m = k * n
  BY <1>2, <1>3, <1>9 DEF FillAt
<1>13. PICK c \in Nat : R = c * n
  <2>1. R = (R \div n) * n /\ R \div n \in Nat
    BY <1>11
  <2> QED
    BY <2>1
<1>14. Sent(x) => sum' = (m + n) * d
  <2>1. sum = m * d /\ input.ext = 0 /\ P.amount.type = "byte"
    BY <1>3, <1>9 DEF FillAt, FillJob
  <2>2. Sent(x) => sum' = sum + n * (d + 0)
    BY <1>3, <2>1 DEF Sent, Counted
  <2>3. m * d + n * (d + 0) = (m + n) * d
    OBVIOUS
  <2> QED
    BY <2>1, <2>2, <2>3
<1>15. CASE m < R
  <2>1. w = m /\ Inside(m) /\ Covered(m)
    BY <1>3, <1>9, <1>15 DEF FillAt
  <2>2. m + n <= R /\ m + n = (k + 1) * n
    BY <1>12, <1>13, <1>15, RoomForOne
  <2>3. s = m
    BY <1>4, <2>1, <2>2
  <2>4. x = Begin + s /\ x \in Nat
    BY <1>2, <1>3, <1>12, <2>3, FillPlaced
  <2>5. Sent(x)
    BY <1>1, <1>7, <2>1, <2>3, <2>4, RefusedBelow
  <2>6. PICK N \in Nat : N = m + n
    OBVIOUS
  <2>7. N = IF s + n <= m \/ n = 0 THEN m ELSE s + n
    BY <1>11, <2>3, <2>6
  <2>8. ReadsDone
    <3>1. \A b \in flight : b.op # "read"
      BY DEF FillJob, TypedInv, DrawnInv
    <3> QED
      BY <3>1 DEF ReadsDone
  <2>9. Covered(N)' /\ Inside(N)'
    BY <1>1, <1>2, <1>3, <2>1, <2>3, <2>4, <2>5, <2>7, <2>8, SentCovers
  <2>10. sum' = N * DataSize' /\ slba_next'[1] = N
    BY <1>3, <1>6, <1>8, <1>14, <2>3, <2>5, <2>6
  <2>11. \A z \in Sizes("write")' : \E j \in Nat : N = j * z
    <3>1. k + 1 \in Nat /\ N = (k + 1) * n
      BY <2>2, <2>6
    <3> QED
      BY <1>8, <1>10, <3>1
  <2>12. N >= RangeLbas' => Covered(RangeLbas)'
    <3>1. N >= R => N = R
      BY <2>2, <2>6
    <3> QED
      BY <1>3, <1>8, <2>9, <3>1 DEF Covered
  <2> QED
    BY <2>9, <2>10, <2>11, <2>12 DEF FillInv, FillAt
<1>16. CASE m >= R
  <2>1. Covered(RangeLbas)
    BY <1>3, <1>9, <1>16 DEF FillAt
  <2>2. flight \subseteq flight'
    BY <1>7 DEF Refused, Sent
  <2>3. Covered(RangeLbas)'
    BY <1>1, <1>8, <2>1, <2>2 DEF Covered
  <2>4. CASE Refused(x)
    <3>1. sum' = m * DataSize'
      BY <1>8, <1>9, <2>4 DEF Refused, FillAt
    <3>2. \A z \in Sizes("write")' : \E j \in Nat : m = j * z
      BY <1>8, <1>9 DEF FillAt
    <3>3. ~(m < RangeLbas')
      BY <1>3, <1>8, <1>16
    <3> QED
      BY <2>3, <3>1, <3>2, <3>3 DEF FillInv, FillAt
  <2>5. CASE Sent(x)
    <3>1. PICK N \in Nat : N = m + n
      OBVIOUS
    <3>2. sum' = N * DataSize'
      BY <1>3, <1>8, <1>14, <2>5, <3>1
    <3>3. N = (k + 1) * n /\ k + 1 \in Nat
      BY <1>12, <3>1
    <3>4. \A z \in Sizes("write")' : \E j \in Nat : N = j * z
      BY <1>8, <1>10, <3>3
    <3>5. ~(N < RangeLbas')
      BY <1>3, <1>8, <1>16, <3>1
    <3> QED
      BY <2>3, <3>2, <3>4, <3>5 DEF FillInv, FillAt
  <2> QED
    BY <1>7, <2>4, <2>5
<1> QED
  BY <1>15, <1>16

LEMMA FillFirst == Fresh => FillInv
<1> SUFFICES ASSUME Fresh PROVE FillInv
  OBVIOUS
<1>1. /\ slba_next[1] = 0 /\ flight = {} /\ sum = 0 /\ TypedInv
      /\ ParamInv /\ job \in 1 .. Len(jobs)
  BY DEF Fresh, TypedInv, RunInv
<1>2. PICK g \in Nat, R \in Nat, d \in Nat \ {0} : g = Begin /\ R = RangeLbas /\ d = DataSize
  BY <1>1, PFacts, InputFacts DEF ParamInv
<1>3. Covered(0) /\ Inside(0)
  BY <1>1, <1>2 DEF Covered, Inside
<1>4. 0 >= RangeLbas => Covered(RangeLbas)
  <2>1. 0 >= R => R = 0
    OBVIOUS
  <2> QED
    BY <1>2, <1>3, <2>1 DEF Covered
<1>5. sum = 0 * DataSize
  BY <1>1, <1>2
<1>6. \A n \in Sizes("write") : \E k \in Nat : 0 = k * n
  <2> SUFFICES ASSUME NEW n \in Sizes("write") PROVE \E k \in Nat : 0 = k * n
    OBVIOUS
  <2>1. n \in Nat
    BY <1>1, SizesFacts DEF BlockOps
  <2>2. 0 = 0 * n
    BY <2>1
  <2> QED
    BY <2>2
<1>7. FillAt(0)
  BY <1>1, <1>3, <1>4, <1>5, <1>6 DEF FillAt
<1> QED
  BY <1>7 DEF FillInv

LEMMA FillStart == Fresh' => FillInv'
BY FillFirst, PTL

LEMMA FillNext ==
  ASSUME TypedInv, FillInv, [Next]_<<paramVars, runVars>>
  PROVE  FillInv'
<1>1. CASE ParamsNext /\ UNCHANGED runVars
  <2>1. job' = 0
    BY <1>1, BeforeRun DEF runVars
  <2> QED
    BY <2>1 DEF FillInv
<1>2. CASE pc = "ready" /\ Start
  <2>1. Fresh'
    BY <1>2, StartFacts DEF Fresh, TypedInv, RunInv, ParamInv
  <2> QED
    BY <2>1, FillStart
<1>3. CASE pc = "run" /\ RunNext
  <2>1. job # 0
    BY <1>3 DEF TypedInv, RunInv
  <2>2. CASE FillJob /\ TrySequential
    BY <2>1, <2>2, FillWrite
  <2>3. ~(FillJob /\ (TrySeparateRead \/ TryRandom \/ TryFixed \/ PickFlush))
    <3>1. bio.try > 0 /\ FillJob => bio.op = "write"
      BY <2>1 DEF FillJob, TypedInv, DrawnInv
    <3> QED
      BY <3>1 DEF FillJob, TrySeparateRead, TryRandom, TryFixed, PickFlush
  <2>4. CASE End
    BY <2>1, <2>4, FillEnd
  <2>5. CASE PickBio \/ TryRandomCrashes \/ Finish
    <3>1. Kept /\ UNCHANGED <<flight, written, slba_next, sum>>
      BY <2>5 DEF PickBio, TryRandomCrashes, Finish, RunOnly, Kept, paramVars, runVars
    <3> QED
      BY <3>1, FillKept
  <2>6. CASE ~FillJob /\ (PickFlush \/ TrySeparateRead \/ TrySequential \/ TryRandom \/ TryFixed)
    <3>1. Kept /\ input' = input
      BY <2>6 DEF PickFlush, TrySeparateRead, TrySequential, TryRandom, TryFixed,
                  RunOnly, Kept, paramVars
    <3>2. ~FillJob'
      BY <2>6, <3>1, KeptFacts, KeptAlign DEF FillJob
    <3> QED
      BY <3>2 DEF FillInv
  <2> QED
    BY <1>3, <2>2, <2>3, <2>4, <2>5, <2>6 DEF RunNext
<1>4. CASE UNCHANGED <<paramVars, runVars>>
  <2>1. Kept /\ UNCHANGED <<flight, written, slba_next, sum>>
    BY <1>4 DEF Kept, paramVars, runVars
  <2> QED
    BY <2>1, FillKept
<1> QED
  BY <1>1, <1>2, <1>3, <1>4 DEF Next, RunNext

(* A job has ended only with its amount reached and nothing in flight.     *)
Ended == pc = "done" => Reached /\ flight = {}

LEMMA EndedNext ==
  ASSUME TypedInv, Ended, [Next]_<<paramVars, runVars>>
  PROVE  Ended'
<1>1. CASE ParamsNext /\ UNCHANGED runVars
  BY <1>1, ParamsPc DEF Ended
<1>2. CASE pc = "ready" /\ Start
  BY <1>2 DEF Ended, Start
<1>3. CASE pc = "run" /\ RunNext
  <2>1. CASE Finish
    <3>1. Kept /\ UNCHANGED <<flight, sum>> /\ Reached /\ flight = {}
      BY <2>1 DEF Finish, Kept, runVars
    <3> QED
      BY <3>1, KeptFacts DEF Ended, Reached
  <2>2. CASE ~Finish
    <3>1. pc' # "done"
      BY <1>3, <2>2 DEF RunNext, PickFlush, PickBio, TrySeparateRead, TrySequential,
                        TryRandomCrashes, TryRandom, TryFixed, End, RunOnly, paramVars
    <3> QED
      BY <3>1 DEF Ended
  <2> QED
    BY <2>1, <2>2
<1>4. CASE UNCHANGED <<paramVars, runVars>>
  <2>1. Kept /\ UNCHANGED <<flight, sum, pc>>
    BY <1>4 DEF Kept, paramVars, runVars
  <2> QED
    BY <2>1, KeptFacts DEF Ended, Reached
<1> QED
  BY <1>1, <1>2, <1>3, <1>4 DEF Next, RunNext

LEMMA FillDone ==
  ASSUME TypedInv, FillInv, Ended
  PROVE  SequentialFill
<1> SUFFICES ASSUME pc = "done", FillJob, P.amount.value >= RangeLbas * DataSize
             PROVE  Begin .. Begin + RangeLbas - 1 \subseteq written
  BY DEF SequentialFill, FillJob
<1>1. Reached /\ flight = {} /\ job # 0
  BY DEF Ended, TypedInv, RunInv
<1>2. PICK m \in Nat : FillAt(m)
  BY <1>1 DEF FillInv
<1>3. PICK R \in Nat, d \in Nat \ {0}, v \in Nat :
        R = RangeLbas /\ d = DataSize /\ v = P.amount.value
  <2>1. job \in 1 .. Len(jobs) /\ ParamInv
    BY <1>1 DEF TypedInv, RunInv
  <2>2. RangeLbas \in Nat /\ DataSize \in Nat \ {0} /\ P.amount.value \in Nat
    BY <2>1, PFacts, InputFacts DEF ParamInv
  <2> QED
    BY <2>2
<1>4. m * d >= v /\ v >= R * d
  BY <1>1, <1>2, <1>3 DEF Reached, FillAt
<1>5. m >= R
  <2> SUFFICES ASSUME m + 1 <= R PROVE FALSE
    OBVIOUS
  <2>1. (m + 1) * d <= R * d /\ (m + 1) * d = m * d + d
    OBVIOUS
  <2>2. m * d \in Nat /\ R * d \in Nat
    OBVIOUS
  <2> QED
    BY <1>4, <2>1, <2>2
<1>6. Covered(RangeLbas)
  BY <1>2, <1>3, <1>5 DEF FillAt
<1> QED
  BY <1>1, <1>6 DEF Covered

(* A sequential job of writes has filled its range when it has ended,      *)
(* however often its tries are refused after the wrap.                     *)
THEOREM RangeFilled == Spec => []SequentialFill
<1>1. Init => FillInv /\ Ended
  BY DEF Init, ParamsInit, FillInv, Ended
<1>2. TypedInv /\ FillInv /\ Ended /\ [Next]_<<paramVars, runVars>> => FillInv' /\ Ended'
  BY FillNext, EndedNext
<1>3. TypedInv /\ FillInv /\ Ended => SequentialFill
  BY FillDone
<1> QED
  BY <1>1, <1>2, <1>3, TypedHolds, PTL DEF Spec
-----------------------------------------------------------------------------
(* No section inherits from another.  While the file is read, there is one *)
(* job per section read, and the defaults have the values given before the *)
(* first section.                                                          *)
SecTo(n) == {i \in 1 .. n : input.file[i].kind = "section"}
SetBy(j, key, n) ==
  {i \in 1 .. n : /\ input.file[i].kind = "prop" /\ input.file[i].key = key
                  /\ Cardinality(SecTo(i - 1)) = j}
LastOr(S, d) == IF S # {} THEN input.file[Last(S)].value ELSE d
Given(key, n) == LastOr(SetBy(0, key, n), PlainDefault[key])
InheritInv ==
  /\ \A key \in PlainKeys : defaults.plain[key] = Given(key, pos)
  /\ \A j \in 1 .. Len(jobs), key \in PlainKeys :
       jobs[j].plain[key] = LastOr(SetBy(j, key, pos), Given(key, pos))
  /\ pc = "parse" => Cardinality(SecTo(pos)) = Len(jobs)

(* The lines of Settings, counted from the sections before them. *)
LEMMA SettingsSet ==
  ASSUME pos \in Nat, NEW j \in Nat, NEW key
  PROVE  Settings(key, LAMBDA i : Own(j, i)) = SetBy(j, key, pos)
<1>1. ASSUME NEW i \in 1 .. pos PROVE {s \in Sections : s < i} = SecTo(i - 1)
  BY DEF Sections, Lines, SecTo
<1>2. \A i \in 1 .. pos : Own(j, i) <=> Cardinality(SecTo(i - 1)) = j
  BY <1>1 DEF Own
<1>3. Settings(key, LAMBDA i : Own(j, i))
        = {i \in Lines : input.file[i].kind = "prop" /\ input.file[i].key = key /\ Own(j, i)}
  BY DEF Settings
<1> QED
  BY <1>2, <1>3 DEF Lines, SetBy

LEMMA SecToFinite ==
  ASSUME NEW n \in Nat
  PROVE  IsFiniteSet(SecTo(n)) /\ Cardinality(SecTo(n)) \in Nat
<1>1. IsFiniteSet(1 .. n) /\ SecTo(n) \in SUBSET (1 .. n)
  BY FS_Interval DEF SecTo
<1>2. IsFiniteSet(SecTo(n))
  BY <1>1, FS_Subset
<1> QED
  BY <1>2, FS_CardinalityType

(* Lines up to n belong to sections up to n. *)
LEMMA SetByBelow ==
  ASSUME NEW n \in Nat, NEW j \in Nat, j > Cardinality(SecTo(n)), NEW key
  PROVE  SetBy(j, key, n) = {}
<1> SUFFICES ASSUME NEW i \in 1 .. n PROVE Cardinality(SecTo(i - 1)) # j
  BY DEF SetBy
<1>1. PICK k \in Nat : k = i - 1 /\ k <= n
  OBVIOUS
<1>2. IsFiniteSet(SecTo(n)) /\ SecTo(k) \in SUBSET SecTo(n) /\ Cardinality(SecTo(n)) \in Nat
  BY <1>1, SecToFinite DEF SecTo
<1>3. Cardinality(SecTo(k)) <= Cardinality(SecTo(n)) /\ Cardinality(SecTo(k)) \in Nat
  BY <1>2, FS_Subset, SecToFinite
<1> QED
  BY <1>1, <1>2, <1>3

LEMMA LastAdded ==
  ASSUME NEW n \in Nat, NEW S \in SUBSET (1 .. n), NEW d
  PROVE  LastOr(S \cup {n + 1}, d) = input.file[n + 1].value
<1>1. n + 1 \in S \cup {n + 1} /\ \A k \in S \cup {n + 1} : k <= n + 1
  OBVIOUS
<1>2. \A i \in S \cup {n + 1} : (\A k \in S \cup {n + 1} : k <= i) => i = n + 1
  OBVIOUS
<1>3. Last(S \cup {n + 1}) = n + 1
  BY <1>1, <1>2 DEF Last
<1> QED
  BY <1>3 DEF LastOr

(* One more line. *)
LEMMA LineAdded ==
  ASSUME NEW n \in Nat, NEW j, NEW key
  PROVE  /\ SetBy(j, key, n + 1) =
              IF /\ input.file[n + 1].kind = "prop" /\ input.file[n + 1].key = key
                 /\ Cardinality(SecTo(n)) = j
                THEN SetBy(j, key, n) \cup {n + 1} ELSE SetBy(j, key, n)
         /\ SetBy(j, key, n) \in SUBSET (1 .. n)
         /\ input.file[n + 1].kind # "section" => SecTo(n + 1) = SecTo(n)
         /\ input.file[n + 1].kind = "section" => SecTo(n + 1) = SecTo(n) \cup {n + 1}
<1>1. \A i : i \in 1 .. n + 1 <=> i \in 1 .. n \/ i = n + 1
  OBVIOUS
<1>2. (n + 1) - 1 = n
  OBVIOUS
<1>3. SetBy(j, key, n) \in SUBSET (1 .. n)
  BY DEF SetBy
<1>4. /\ input.file[n + 1].kind # "section" => SecTo(n + 1) = SecTo(n)
      /\ input.file[n + 1].kind = "section" => SecTo(n + 1) = SecTo(n) \cup {n + 1}
  BY <1>1 DEF SecTo
<1>5. \A i : i \in SetBy(j, key, n + 1) <=>
               \/ i \in SetBy(j, key, n)
               \/ /\ i = n + 1 /\ input.file[n + 1].kind = "prop" /\ input.file[n + 1].key = key
                  /\ Cardinality(SecTo(n)) = j
  BY <1>1, <1>2 DEF SetBy
<1> QED
  BY <1>3, <1>4, <1>5

LEMMA InheritSame ==
  ASSUME InheritInv, input' = input, pos' = pos, defaults' = defaults,
         Len(jobs') = Len(jobs), \A j \in 1 .. Len(jobs) : jobs'[j].plain = jobs[j].plain,
         pc' = pc \/ pc' # "parse"
  PROVE  InheritInv'
<1>1. \A j, key : SetBy(j, key, pos)' = SetBy(j, key, pos)
  BY DEF SetBy, SecTo
<1>2. \A key : Given(key, pos)' = Given(key, pos)
  BY <1>1 DEF Given, LastOr
<1>3. \A j, key : LastOr(SetBy(j, key, pos), Given(key, pos))' = LastOr(SetBy(j, key, pos), Given(key, pos))
  BY <1>1, <1>2 DEF LastOr
<1>4. SecTo(pos)' = SecTo(pos)
  BY DEF SecTo
<1> QED
  BY <1>2, <1>3, <1>4 DEF InheritInv

LEMMA LineRead ==
  ASSUME input' = input, pos' = pos + 1
  PROVE  /\ \A key : Given(key, pos)' = Given(key, pos + 1)
         /\ \A j, key : LastOr(SetBy(j, key, pos), Given(key, pos))'
                          = LastOr(SetBy(j, key, pos + 1), Given(key, pos + 1))
         /\ SecTo(pos)' = SecTo(pos + 1)
<1>1. \A j, key : SetBy(j, key, pos)' = SetBy(j, key, pos + 1)
  BY DEF SetBy, SecTo
<1>2. \A key : Given(key, pos)' = Given(key, pos + 1)
  BY <1>1 DEF Given, LastOr
<1>3. \A j, key : LastOr(SetBy(j, key, pos), Given(key, pos))'
                    = LastOr(SetBy(j, key, pos + 1), Given(key, pos + 1))
  BY <1>1, <1>2 DEF LastOr
<1>4. SecTo(pos)' = SecTo(pos + 1)
  BY DEF SecTo
<1> QED
  BY <1>2, <1>3, <1>4

(* A line that sets nothing: the next section starts with the defaults.    *)
LEMMA InheritSection ==
  ASSUME ParamInv, InheritInv, DefineSection
  PROVE  InheritInv'
<1>1. /\ pc = "parse" /\ Line.kind = "section" /\ pos' = pos + 1
      /\ UNCHANGED <<input, defaults, pc>>
      /\ jobs' = Append(jobs, [defaults EXCEPT !.name = Line.name])
  BY DEF DefineSection, HasLine
<1>2. PICK n \in Nat, L \in Nat : n = pos /\ L = Len(jobs)
  BY InputFacts DEF ParamInv
<1>3. input.file[n + 1].kind = "section"
  BY <1>1, <1>2 DEF Line
<1>4. \A j, key : SetBy(j, key, n + 1) = SetBy(j, key, n)
  BY <1>3, LineAdded
<1>5. \A key : Given(key, n + 1) = Given(key, n)
  BY <1>4 DEF Given
<1> DEFINE p == [defaults EXCEPT !.name = Line.name]
<1>6. p.plain = defaults.plain
  BY DEF ParamInv, Params
<1>7. jobs' = Append(jobs, p) /\ jobs \in Seq(Params)
  BY <1>1 DEF ParamInv
<1> HIDE DEF p
<1>8. Len(jobs') = L + 1 /\ jobs'[L + 1] = p /\ \A j \in 1 .. L : jobs'[j] = jobs[j]
  BY <1>2, <1>7
<1>9. Cardinality(SecTo(n)) = L
  BY <1>1, <1>2 DEF InheritInv
<1>10. Cardinality(SecTo(n + 1)) = L + 1
  <2>1. SecTo(n + 1) = SecTo(n) \cup {n + 1} /\ n + 1 \notin SecTo(n)
    BY <1>3, LineAdded DEF SecTo
  <2> QED
    BY <1>9, <2>1, SecToFinite, FS_AddElement
<1>11. \A key : SetBy(L + 1, key, n) = {}
  BY <1>9, SetByBelow
<1>12. \A key \in PlainKeys : p.plain[key] = LastOr(SetBy(L + 1, key, n), Given(key, n))
  BY <1>2, <1>6, <1>11 DEF InheritInv, LastOr
<1>13. \A j \in 1 .. L + 1, key \in PlainKeys :
         jobs'[j].plain[key] = LastOr(SetBy(j, key, n), Given(key, n))
  <2> SUFFICES ASSUME NEW j \in 1 .. L + 1, NEW key \in PlainKeys
               PROVE  jobs'[j].plain[key] = LastOr(SetBy(j, key, n), Given(key, n))
    OBVIOUS
  <2>1. CASE j = L + 1
    BY <1>8, <1>12, <2>1
  <2>2. CASE j \in 1 .. L
    BY <1>2, <1>8, <2>2 DEF InheritInv
  <2> QED
    BY <2>1, <2>2
<1>14. \A key \in PlainKeys : defaults'.plain[key] = Given(key, n + 1)
  BY <1>1, <1>2, <1>5 DEF InheritInv
<1>15. \A j \in 1 .. Len(jobs'), key \in PlainKeys :
         jobs'[j].plain[key] = LastOr(SetBy(j, key, n + 1), Given(key, n + 1))
  BY <1>4, <1>5, <1>8, <1>13
<1> QED
  BY <1>1, <1>2, <1>8, <1>10, <1>14, <1>15, LineRead DEF InheritInv

LEMMA InheritDrop ==
  ASSUME ParamInv, InheritInv, DropLine
  PROVE  InheritInv'
<1>1. /\ pc = "parse" /\ Line.kind = "long" /\ pos' = pos + 1
      /\ UNCHANGED <<input, defaults, jobs, pc>>
  BY DEF DropLine, HasLine
<1>2. PICK n \in Nat : n = pos
  BY InputFacts DEF ParamInv
<1>3. input.file[n + 1].kind = "long"
  BY <1>1, <1>2 DEF Line
<1>4. (\A j, key : SetBy(j, key, n + 1) = SetBy(j, key, n)) /\ SecTo(n + 1) = SecTo(n)
  BY <1>3, LineAdded
<1>5. \A key : Given(key, n + 1) = Given(key, n)
  BY <1>4 DEF Given
<1> QED
  BY <1>1, <1>2, <1>4, <1>5, LineRead DEF InheritInv

(* A property is the last line that sets its key, for the section it       *)
(* stands in or, before the first one, for all.                            *)
LEMMA InheritProperty ==
  ASSUME ParamInv, InheritInv, DefineProperty
  PROVE  InheritInv'
<1>1. /\ pc = "parse" /\ Line.kind = "prop" /\ pos' = pos + 1 /\ UNCHANGED <<input, pc>>
      /\ ValueOK(Line.key, Line.value)
  BY LineFacts DEF ParamInv, DefineProperty, HasLine
<1>2. PICK n \in Nat, L \in Nat : n = pos /\ L = Len(jobs)
  BY InputFacts DEF ParamInv
<1>3. PICK k, v : k = Line.key /\ v = Line.value
  OBVIOUS
<1>4. input.file[n + 1].kind = "prop" /\ input.file[n + 1].key = k /\ input.file[n + 1].value = v
  BY <1>1, <1>2, <1>3 DEF Line
<1>5. PICK p \in Result :
        IF jobs = <<>> THEN defaults' = p /\ UNCHANGED jobs
        ELSE jobs' = [jobs EXCEPT ![Len(jobs)] = p] /\ UNCHANGED defaults
  BY DEF DefineProperty
<1>6. /\ k \in PlainKeys => p.plain = [Current.plain EXCEPT ![k] = v]
      /\ k \notin PlainKeys => p.plain = Current.plain
  <2>1. iosize.max \in Nat /\ Current \in Params /\ Below(Current, iosize.max)
    BY CurrentFacts DEF ParamInv
  <2>2. PICK c \in Params, m \in Nat : c = Current /\ m = iosize.max
    BY <2>1
  <2>3. ValueOK(k, v) /\ p \in OnProperty(c, k, v) /\ Below(c, m)
    BY <1>1, <1>3, <1>5, <2>1, <2>2 DEF Result
  <2> QED
    BY <2>2, <2>3, PropertyType
<1>7. \A key \in PlainKeys : p.plain[key] = IF key = k THEN v ELSE Current.plain[key]
  <2>1. Current.plain \in Plain
    BY CurrentFacts, ParamsParts
  <2>2. \A key \in PlainKeys : key \in DOMAIN Current.plain
    BY <2>1, KeyFacts DEF Plain
  <2> QED
    BY <1>6, <2>2
<1>8. Cardinality(SecTo(n)) = L /\ SecTo(n + 1) = SecTo(n)
  BY <1>1, <1>2, <1>4, LineAdded DEF InheritInv
<1>9. \A j, key : j # L \/ key # k => SetBy(j, key, n + 1) = SetBy(j, key, n)
  BY <1>4, <1>8, LineAdded
<1>10. \A d : LastOr(SetBy(L, k, n + 1), d) = v
  <2>1. SetBy(L, k, n + 1) = SetBy(L, k, n) \cup {n + 1} /\ SetBy(L, k, n) \in SUBSET (1 .. n)
    BY <1>4, <1>8, LineAdded
  <2> QED
    BY <1>4, <2>1, LastAdded
<1>11. CASE jobs = <<>>
  <2>1. L = 0 /\ defaults' = p /\ jobs' = jobs /\ Current = defaults
    BY <1>2, <1>5, <1>11 DEF Current
  <2>2. \A key \in PlainKeys : p.plain[key] = Given(key, n + 1)
    <3> SUFFICES ASSUME NEW key \in PlainKeys PROVE p.plain[key] = Given(key, n + 1)
      OBVIOUS
    <3>1. CASE key = k
      BY <1>7, <1>10, <2>1, <3>1 DEF Given
    <3>2. CASE key # k
      BY <1>2, <1>7, <1>9, <2>1, <3>2 DEF Given, InheritInv
    <3> QED
      BY <3>1, <3>2
  <2>3. 1 .. Len(jobs') = {}
    <3>1. Len(jobs') = 0
      BY <1>2, <2>1
    <3>2. 1 .. 0 = {}
      OBVIOUS
    <3> QED
      BY <3>1, <3>2
  <2> QED
    BY <1>1, <1>2, <1>8, <2>1, <2>2, <2>3, LineRead DEF InheritInv
<1>12. CASE jobs # <<>>
  <2>1. L \in 1 .. L /\ jobs' = [jobs EXCEPT ![L] = p] /\ defaults' = defaults /\ Current = jobs[L]
    BY <1>2, <1>5, <1>12 DEF Current, ParamInv
  <2>2. \A key : Given(key, n + 1) = Given(key, n)
    BY <1>9, <2>1 DEF Given
  <2>3. Len(jobs') = L /\ jobs'[L] = p /\ \A j \in 1 .. L : j # L => jobs'[j] = jobs[j]
    BY <1>2, <2>1 DEF ParamInv
  <2>4. \A j \in 1 .. L, key \in PlainKeys :
          jobs'[j].plain[key] = LastOr(SetBy(j, key, n + 1), Given(key, n + 1))
    <3> SUFFICES ASSUME NEW j \in 1 .. L, NEW key \in PlainKeys
                 PROVE  jobs'[j].plain[key] = LastOr(SetBy(j, key, n + 1), Given(key, n + 1))
      OBVIOUS
    <3>1. jobs[j].plain[key] = LastOr(SetBy(j, key, n), Given(key, n))
      BY <1>2 DEF InheritInv
    <3>2. CASE j = L /\ key = k
      BY <1>7, <1>10, <2>3, <3>2
    <3>3. CASE j = L /\ key # k
      BY <1>7, <1>9, <2>1, <2>2, <2>3, <3>1, <3>3
    <3>4. CASE j # L
      BY <1>9, <2>2, <2>3, <3>1, <3>4
    <3> QED
      BY <3>2, <3>3, <3>4
  <2>5. \A key \in PlainKeys : defaults'.plain[key] = Given(key, n + 1)
    BY <1>2, <2>1, <2>2 DEF InheritInv
  <2> QED
    BY <1>1, <1>2, <1>8, <2>3, <2>4, <2>5, LineRead DEF InheritInv
<1> QED
  BY <1>11, <1>12

(* Without a section the one job has what the file gives. *)
LEMMA InheritEnd ==
  ASSUME ParamInv, InheritInv, EndOfFile
  PROVE  InheritInv'
<1>1. pc = "parse" /\ pc' = "validate" /\ UNCHANGED <<input, pos, defaults>>
      /\ jobs' = IF jobs = <<>> THEN <<defaults>> ELSE jobs
  BY DEF EndOfFile
<1>2. CASE jobs # <<>>
  BY <1>1, <1>2, InheritSame
<1>3. CASE jobs = <<>>
  <2>1. Len(jobs) = 0 /\ Len(jobs') = 1 /\ jobs'[1] = defaults
    BY <1>1, <1>3
  <2>2. pos \in Nat /\ Cardinality(SecTo(pos)) = 0
    BY <1>1, <2>1, InputFacts DEF InheritInv, ParamInv
  <2>3. \A key : SetBy(1, key, pos) = {}
    BY <2>2, SetByBelow
  <2>4. \A j, key : SetBy(j, key, pos)' = SetBy(j, key, pos)
    BY <1>1 DEF SetBy, SecTo
  <2>5. \A key : Given(key, pos)' = Given(key, pos)
    BY <1>1, <2>4 DEF Given, LastOr
  <2>6. \A key \in PlainKeys : defaults.plain[key] = Given(key, pos)
    BY DEF InheritInv
  <2>7. \A key : LastOr(SetBy(1, key, pos), Given(key, pos))' = Given(key, pos)
    BY <2>3, <2>4, <2>5 DEF LastOr
  <2>8. \A j \in 1 .. Len(jobs') : j = 1
    BY <2>1
  <2> QED
    BY <1>1, <2>1, <2>5, <2>6, <2>7, <2>8 DEF InheritInv
<1> QED
  BY <1>2, <1>3

LEMMA InheritValidate ==
  ASSUME ParamInv, InheritInv, Validate
  PROVE  InheritInv'
<1> DEFINE d == IF Job.plain.dependency = "" THEN Index
                ELSE CHOOSE j \in Named(Job.plain.dependency) : TRUE
<1>1. /\ nvalid < Len(jobs) /\ UNCHANGED <<input, pos, defaults, pc>>
      /\ jobs' = [jobs EXCEPT ![Index] = [Bind(WithSizes(Job)) EXCEPT !.depends = d]]
  BY DEF Validate
<1> HIDE DEF d
<1>2. Index \in 1 .. Len(jobs)
  BY <1>1 DEF ParamInv, Index
<1>3. Job \in Params /\ Below(Job, iosize.max) /\ Job = jobs[Index]
  BY <1>2 DEF ParamInv, Job
<1>4. PICK w \in Params : w = WithSizes(Job) /\ w.plain = Job.plain
  BY <1>3, WithSizesType
<1>5. PICK p \in Params : p = Bind(w) /\ p.plain = w.plain
  BY BindType
<1> DEFINE q == [p EXCEPT !.depends = d]
<1>6. q.plain = p.plain
  BY DEF Params
<1>7. jobs' = [jobs EXCEPT ![Index] = q]
  BY <1>1, <1>4, <1>5
<1> HIDE DEF q
<1>8. Len(jobs') = Len(jobs) /\ \A j \in 1 .. Len(jobs) : (jobs'[j] = q /\ j = Index) \/ jobs'[j] = jobs[j]
  BY <1>2, <1>7 DEF ParamInv
<1>9. \A j \in 1 .. Len(jobs) : jobs'[j].plain = jobs[j].plain
  BY <1>3, <1>4, <1>5, <1>6, <1>8
<1> QED
  BY <1>1, <1>8, <1>9, InheritSame

LEMMA InheritNext ==
  ASSUME TypedInv, InheritInv, [Next]_<<paramVars, runVars>>
  PROVE  InheritInv'
<1>1. ParamInv
  BY DEF TypedInv
<1>2. CASE DefineSection
  BY <1>1, <1>2, InheritSection
<1>3. CASE DefineProperty
  BY <1>1, <1>3, InheritProperty
<1>4. CASE DropLine
  BY <1>1, <1>4, InheritDrop
<1>5. CASE EndOfFile
  BY <1>1, <1>5, InheritEnd
<1>6. CASE Validate
  BY <1>1, <1>6, InheritValidate
<1>7. ASSUME UNCHANGED <<input, pos, defaults, jobs>>, pc' = pc \/ pc' # "parse"
      PROVE  InheritInv'
  BY <1>7, InheritSame
<1>8. CASE ParsingError \/ ValidateFails \/ InitJobs
  BY <1>7, <1>8 DEF ParsingError, ValidateFails, InitJobs
<1>9. CASE Start \/ TryRandomCrashes \/ Finish
  BY <1>7, <1>9 DEF Start, TryRandomCrashes, Finish
<1>10. CASE UNCHANGED paramVars
  BY <1>7, <1>10 DEF paramVars
<1>11. CASE PickFlush \/ PickBio \/ TrySeparateRead \/ TrySequential \/ TryRandom \/ TryFixed \/ End
  BY <1>10, <1>11 DEF PickFlush, PickBio, TrySeparateRead, TrySequential, TryRandom, TryFixed,
                      End, RunOnly
<1> QED
  BY <1>2, <1>3, <1>4, <1>5, <1>6, <1>8, <1>9, <1>10, <1>11 DEF Next, ParamsNext

LEMMA InheritInit == Init => InheritInv
<1> SUFFICES ASSUME Init PROVE InheritInv
  OBVIOUS
<1>1. /\ pos = 0 /\ defaults = DefaultParams /\ jobs = <<>>
  BY DEF Init, ParamsInit
<1>2. defaults.plain = PlainDefault /\ Len(jobs) = 0
  BY <1>1 DEF DefaultParams
<1>3. 1 .. 0 = {}
  OBVIOUS
<1>4. SecTo(pos) = {} /\ \A key : SetBy(0, key, pos) = {}
  BY <1>1, <1>3 DEF SecTo, SetBy
<1>5. \A key \in PlainKeys : Given(key, pos) = PlainDefault[key]
  BY <1>4 DEF Given, LastOr
<1>6. Cardinality(SecTo(pos)) = 0
  BY <1>4, FS_EmptySet
<1> QED
  BY <1>2, <1>3, <1>5, <1>6 DEF InheritInv

LEMMA InheritDone ==
  ASSUME TypedInv, InheritInv
  PROVE  Inherited
<1>1. pos \in Nat /\ jobs \in Seq(Params)
  BY InputFacts DEF TypedInv, ParamInv
<1> SUFFICES ASSUME NEW j \in 1 .. Len(jobs), NEW key \in PlainKeys
             PROVE  LET own == Settings(key, LAMBDA i : Own(j, i))
                        before == Settings(key, LAMBDA i : Own(0, i)) IN
                    jobs[j].plain[key] =
                      IF own # {} THEN input.file[Last(own)].value
                      ELSE IF before # {} THEN input.file[Last(before)].value ELSE PlainDefault[key]
  BY DEF Inherited
<1>2. jobs[j].plain[key] = LastOr(SetBy(j, key, pos), Given(key, pos))
  BY DEF InheritInv
<1>3. /\ Settings(key, LAMBDA i : Own(j, i)) = SetBy(j, key, pos)
      /\ Settings(key, LAMBDA i : Own(0, i)) = SetBy(0, key, pos)
  <2>1. j \in Nat /\ 0 \in Nat
    BY <1>1
  <2> QED
    BY <1>1, <2>1, SettingsSet
<1> QED
  BY <1>2, <1>3 DEF LastOr, Given

(* Whatever the order of the lines, and whatever validation replaces, a    *)
(* job has what its own section says, then what stands before all          *)
(* sections.                                                               *)
THEOREM NoChaining == Spec => []Inherited
<1>1. TypedInv /\ InheritInv /\ [Next]_<<paramVars, runVars>> => InheritInv'
  BY InheritNext
<1>2. TypedInv /\ InheritInv => Inherited
  BY InheritDone
<1> QED
  BY <1>1, <1>2, InheritInit, TypedHolds, PTL DEF Spec
=============================================================================
