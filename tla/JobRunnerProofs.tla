--------------------------- MODULE JobRunnerProofs ---------------------------
(* Proofs about JobRunner, for every queue depth, batch size, amount and   *)
(* number of failing submits.                                              *)
EXTENDS JobRunner, FiniteSetTheorems, TLAPS

(* A queue as the engines keep it: bio i of the ring, and the records. *)
Slot(q, i) == q.ring[(q.head + i) % Size]
Queues ==
  [ring : [0 .. IoDepth -> Bios \cup {None}], head : 0 .. Size - 1, tail : 0 .. Size - 1,
   nr : 0 .. IoDepth, device : SUBSET Bios, admin : SUBSET Bios, errors : Nat]

(* The indexes agree with the count, and no bio is in two places. *)
Good(q) ==
  /\ q \in Queues /\ q.tail = (q.head + q.nr) % Size
  /\ engine = "spdk" => q.nr = 0
  /\ \A i \in 0 .. q.nr - 1 : Slot(q, i) \in Bios \ (q.device \cup q.admin)
  /\ \A i, k \in 0 .. q.nr - 1 : Slot(q, i) = Slot(q, k) => i = k
  /\ q.device \cap q.admin = {}
Held(q) == Slots(q, q.nr) \cup q.device \cup q.admin

(* The lists of the job match the engine.  A bio can be lost only by       *)
(* leaving the loop.                                                       *)
Inv ==
  /\ engine \in DOMAIN Workload /\ Good(eng) /\ Held(eng) = inflight
  /\ free \subseteq Bios /\ inflight \subseteq Bios /\ free \cap inflight = {}
  /\ nrEnqueued \in 0 .. batch_submit
  /\ pc = "loop" => free \cup inflight = Bios /\ nrEnqueued < batch_submit
  /\ pc \in {"loop", "submit", "drain", "ended", "exited"}
  /\ result \in BOOLEAN /\ ops \in 0 .. Amount

(* libaio ends a deallocate without telling the job: a job that uses it is *)
(* left with a bio in flight that no engine holds.                         *)
NoDeallocate == "libaio" \in DOMAIN Workload => "deallocate" \notin Workload["libaio"]
-----------------------------------------------------------------------------
LEMMA Sizes ==
  /\ IoDepth \in Nat \ {0} /\ Size \in Nat \ {0} /\ IoDepth <= Size /\ Size <= IoDepth + 1
  /\ batch_submit \in 1 .. IoDepth
  /\ 0 .. Size - 1 \subseteq 0 .. IoDepth
<1>1. IoDepth \in Nat \ {0} /\ BatchSubmit \in 0 .. IoDepth
  BY RunnerParams
<1>2. Size \in Nat \ {0} /\ IoDepth <= Size /\ Size <= IoDepth + 1
  BY <1>1 DEF Size
<1> QED BY <1>1, <1>2 DEF batch_submit

(* An index behind the end of the array wraps around once. *)
LEMMA Wrap ==
  ASSUME NEW S \in Nat \ {0}, NEW a \in 0 .. 2 * S - 1
  PROVE  a % S = IF a < S THEN a ELSE a - S
<1>1. CASE a < S
  BY <1>1
<1>2. CASE a >= S
  <2>1. a - S \in 0 .. S - 1 /\ a = S + (a - S)
    BY <1>2
  <2>2. (a - S) % S = a - S
    BY <2>1
  <2>3. a % S \in 0 .. S - 1 /\ a = S * (a \div S) + (a % S) /\ a \div S \in Nat
    BY <1>2
  <2>4. a \div S = 1
    <3>1. ~(a \div S >= 2)
      <4> SUFFICES ASSUME a \div S >= 2 PROVE FALSE
        OBVIOUS
      <4>1. S * (a \div S) >= S * 2
        BY <2>3
      <4> QED BY <4>1, <2>3, <1>2
    <3>2. a \div S # 0
      BY <2>3, <1>2
    <3> QED BY <3>1, <3>2, <2>3
  <2> QED BY <2>3, <2>4, <1>2
<1> QED BY <1>1, <1>2

(* Positions of a ring: counted from the head they are apart, and moving   *)
(* the head moves them along.                                              *)
LEMMA Positions ==
  ASSUME NEW S \in Nat \ {0}, NEW h \in 0 .. S - 1
  PROVE  /\ \A i \in 0 .. S : (h + i) % S \in 0 .. S - 1
         /\ \A i, k \in 0 .. S - 1 : (h + i) % S = (h + k) % S => i = k
         /\ \A k, i \in 0 .. S : k + i <= S => (((h + k) % S) + i) % S = (h + (k + i)) % S
<1>1. \A i \in 0 .. S : (h + i) % S = IF h + i < S THEN h + i ELSE h + i - S
  <2> TAKE i \in 0 .. S
  <2> DEFINE a == h + i
  <2>1. a \in 0 .. 2 * S - 1
    OBVIOUS
  <2> HIDE DEF a
  <2>2. a % S = IF a < S THEN a ELSE a - S
    BY <2>1, Wrap
  <2> QED BY <2>2 DEF a
<1>2. \A i \in 0 .. S : (h + i) % S \in 0 .. S - 1
  BY <1>1
<1>3. \A i, k \in 0 .. S - 1 : (h + i) % S = (h + k) % S => i = k
  BY <1>1
<1>4. ASSUME NEW k \in 0 .. S, NEW i \in 0 .. S, k + i <= S
      PROVE  (((h + k) % S) + i) % S = (h + (k + i)) % S
  <2> DEFINE g == (h + k) % S
  <2>1. g \in 0 .. S - 1 /\ g = IF h + k < S THEN h + k ELSE h + k - S
    BY <1>1, <1>2
  <2> HIDE DEF g
  <2>2. (g + i) % S = IF g + i < S THEN g + i ELSE g + i - S
    <3> DEFINE a == g + i
    <3>1. a \in 0 .. 2 * S - 1
      BY <2>1
    <3> HIDE DEF a
    <3>2. a % S = IF a < S THEN a ELSE a - S
      BY <3>1, Wrap
    <3> QED BY <2>1, <3>2 DEF a
  <2>3. (h + (k + i)) % S = IF h + (k + i) < S THEN h + (k + i) ELSE h + (k + i) - S
    <3>1. k + i \in 0 .. S
      BY <1>4
    <3> QED BY <3>1, <1>1
  <2>4. (g + i) % S = (h + (k + i)) % S
    BY <2>1, <2>2, <2>3, <1>4
  <2> QED BY <2>4 DEF g
<1> QED BY <1>2, <1>3, <1>4
-----------------------------------------------------------------------------
LEMMA GoodFacts ==
  ASSUME NEW q, Good(q)
  PROVE  /\ q \in Queues /\ q.nr \in 0 .. Size /\ q.head \in 0 .. Size - 1
         /\ \A n : Slots(q, n) = {Slot(q, i) : i \in 0 .. n - 1}
         /\ Slots(q, q.nr) \subseteq Bios
         /\ Slots(q, q.nr) \cap (q.device \cup q.admin) = {}
         /\ q.device \subseteq Bios /\ q.admin \subseteq Bios
<1>1. q \in Queues /\ q.nr \in 0 .. IoDepth /\ q.head \in 0 .. Size - 1
  BY DEF Good, Queues
<1>2. q.nr \in 0 .. Size
  BY <1>1, Sizes
<1>3. \A n : Slots(q, n) = {Slot(q, i) : i \in 0 .. n - 1}
  BY DEF Slots, Slot
<1>4. q.device \subseteq Bios /\ q.admin \subseteq Bios
  BY <1>1 DEF Queues
<1> QED BY <1>1, <1>2, <1>3, <1>4 DEF Good

LEMMA RingPositions ==
  ASSUME NEW q, Good(q)
  PROVE  /\ \A i \in 0 .. Size : (q.head + i) % Size \in 0 .. Size - 1
         /\ \A i, k \in 0 .. Size - 1 : (q.head + i) % Size = (q.head + k) % Size => i = k
         /\ \A k, i \in 0 .. Size : k + i <= Size
              => (((q.head + k) % Size) + i) % Size = (q.head + (k + i)) % Size
<1>1. q.head \in 0 .. Size - 1 /\ Size \in Nat \ {0}
  BY GoodFacts, Sizes
<1> QED BY <1>1, Positions

(* Moving the head by k splits the queue: the first k bios and the rest. *)
LEMMA Advance ==
  ASSUME NEW q, Good(q), NEW k \in 0 .. q.nr, NEW p \in Queues,
         p.ring = q.ring, p.head = (q.head + k) % Size, p.tail = q.tail, p.nr = q.nr - k
  PROVE  /\ p.tail = (p.head + p.nr) % Size
         /\ \A i \in 0 .. p.nr - 1 : Slot(p, i) = Slot(q, k + i)
         /\ \A i, m \in 0 .. p.nr - 1 : Slot(p, i) = Slot(p, m) => i = m
         /\ Slots(q, q.nr) = Slots(q, k) \cup Slots(p, p.nr)
         /\ Slots(q, k) \cap Slots(p, p.nr) = {}
<1>1. /\ q.nr \in 0 .. Size /\ q.head \in 0 .. Size - 1 /\ Size \in Nat \ {0}
      /\ q.tail = (q.head + q.nr) % Size
      /\ \A i, m \in 0 .. q.nr - 1 : Slot(q, i) = Slot(q, m) => i = m
  BY GoodFacts, Sizes DEF Good
<1>2. \A x, i \in 0 .. Size : x + i <= Size
        => (((q.head + x) % Size) + i) % Size = (q.head + (x + i)) % Size
  BY <1>1, Positions
<1>3. k \in 0 .. Size /\ p.nr \in 0 .. Size /\ k + p.nr = q.nr
  BY <1>1
<1>4. \A i \in 0 .. p.nr : (p.head + i) % Size = (q.head + (k + i)) % Size
  <2>1. ASSUME NEW i \in 0 .. p.nr PROVE i \in 0 .. Size /\ k + i <= Size
    BY <1>1, <1>3
  <2> QED BY <2>1, <1>2, <1>3
<1>5. p.tail = (p.head + p.nr) % Size
  BY <1>1, <1>3, <1>4
<1>6. \A i \in 0 .. p.nr - 1 : Slot(p, i) = Slot(q, k + i) /\ k + i \in 0 .. q.nr - 1
  BY <1>3, <1>4 DEF Slot
<1>7. \A i, m \in 0 .. p.nr - 1 : Slot(p, i) = Slot(p, m) => i = m
  BY <1>1, <1>3, <1>6
<1>8. /\ Slots(q, q.nr) = {Slot(q, i) : i \in 0 .. q.nr - 1}
      /\ Slots(q, k) = {Slot(q, i) : i \in 0 .. k - 1}
      /\ Slots(p, p.nr) = {Slot(p, i) : i \in 0 .. p.nr - 1}
  BY DEF Slots, Slot
<1>9. Slots(q, k) \cup Slots(p, p.nr) \subseteq Slots(q, q.nr)
  BY <1>1, <1>3, <1>6, <1>8
<1>10. ASSUME NEW i \in 0 .. q.nr - 1
       PROVE  Slot(q, i) \in Slots(q, k) \cup Slots(p, p.nr)
  <2>1. CASE i < k
    BY <2>1, <1>3, <1>8
  <2>2. CASE i >= k
    <3>1. i - k \in 0 .. p.nr - 1 /\ k + (i - k) = i
      BY <2>2, <1>1, <1>3
    <3>2. Slot(p, i - k) = Slot(q, i)
      BY <3>1, <1>6
    <3> QED BY <3>1, <3>2, <1>8
  <2> QED BY <2>1, <2>2, <1>1
<1>11. Slots(q, k) \cap Slots(p, p.nr) = {}
  <2> SUFFICES ASSUME NEW i \in 0 .. k - 1, NEW m \in 0 .. p.nr - 1, Slot(q, i) = Slot(p, m)
               PROVE  FALSE
    BY <1>8
  <2>1. Slot(q, i) = Slot(q, k + m) /\ k + m \in 0 .. q.nr - 1 /\ i \in 0 .. q.nr - 1
    BY <1>1, <1>3, <1>6
  <2>2. i = k + m
    BY <2>1, <1>1
  <2> QED BY <2>2, <1>3
<1> QED BY <1>5, <1>6, <1>7, <1>8, <1>9, <1>10, <1>11

(* libaio_submit moves bios from the ring to the kernel. *)
LEMMA SentGood ==
  ASSUME NEW q, Good(q), NEW k \in 0 .. q.nr
  PROVE  Good(Sent(q, k)) /\ Held(Sent(q, k)) = Held(q)
<1> DEFINE p == Sent(q, k)
<1>1. /\ q \in Queues /\ q.nr \in 0 .. Size /\ q.head \in 0 .. Size - 1
      /\ \A n : Slots(q, n) = {Slot(q, i) : i \in 0 .. n - 1}
      /\ Slots(q, q.nr) \subseteq Bios
      /\ Slots(q, q.nr) \cap (q.device \cup q.admin) = {}
  BY GoodFacts
<1>2. /\ p.ring = q.ring /\ p.head = (q.head + k) % Size /\ p.tail = q.tail /\ p.nr = q.nr - k
      /\ p.device = q.device \cup Slots(q, k) /\ p.admin = q.admin
      /\ p.errors = IF k < q.nr THEN q.errors + 1 ELSE q.errors
  BY <1>1 DEF Sent, Queues
<1>3. Slots(q, k) \subseteq Slots(q, q.nr)
  BY <1>1
<1>4. p.head \in 0 .. Size - 1 /\ p.nr \in 0 .. IoDepth /\ p.errors \in Nat
  <2>1. (q.head + k) % Size \in 0 .. Size - 1
    BY <1>1, Positions, Sizes
  <2>2. q.nr \in 0 .. IoDepth /\ q.errors \in Nat
    BY <1>1 DEF Queues
  <2> QED BY <2>1, <2>2, <1>2, Sizes
<1>5. p \in Queues
  <2>1. q.device \cup Slots(q, k) \in SUBSET Bios
    BY <1>1, <1>3 DEF Queues
  <2>2. /\ (q.head + k) % Size \in 0 .. Size - 1 /\ q.nr - k \in 0 .. IoDepth
        /\ (IF k < q.nr THEN q.errors + 1 ELSE q.errors) \in Nat
    BY <1>2, <1>4
  <2> QED BY <2>1, <2>2, <1>1 DEF Sent, Queues
<1> HIDE DEF p
<1>6. /\ p.tail = (p.head + p.nr) % Size
      /\ \A i \in 0 .. p.nr - 1 : Slot(p, i) = Slot(q, k + i)
      /\ \A i, m \in 0 .. p.nr - 1 : Slot(p, i) = Slot(p, m) => i = m
      /\ Slots(q, q.nr) = Slots(q, k) \cup Slots(p, p.nr)
      /\ Slots(q, k) \cap Slots(p, p.nr) = {}
  BY <1>2, <1>5, Advance
<1>7. Slots(p, p.nr) = {Slot(p, i) : i \in 0 .. p.nr - 1}
  BY DEF Slots, Slot
<1>8. \A i \in 0 .. p.nr - 1 : Slot(p, i) \in Bios \ (p.device \cup p.admin)
  BY <1>1, <1>2, <1>6, <1>7
<1>9. p.device \cap p.admin = {}
  BY <1>1, <1>2, <1>3 DEF Good
<1>10. engine = "spdk" => p.nr = 0
  BY <1>1, <1>2 DEF Good
<1>11. Good(p)
  BY <1>5, <1>6, <1>8, <1>9, <1>10 DEF Good
<1>12. Held(p) = Held(q)
  BY <1>2, <1>6 DEF Held
<1> QED BY <1>11, <1>12 DEF p

(* An accepted bio is the last one of the ring. *)
LEMMA PutGood ==
  ASSUME NEW q, Good(q), NEW b \in Bios \ Held(q), q.nr < IoDepth, engine # "spdk"
  PROVE  Good(Put(q, b)) /\ Held(Put(q, b)) = Held(q) \cup {b}
<1> DEFINE p == Put(q, b)
<1>1. /\ q \in Queues /\ q.nr \in 0 .. IoDepth /\ q.head \in 0 .. Size - 1
      /\ q.tail = (q.head + q.nr) % Size /\ q.tail \in 0 .. Size - 1
      /\ Slots(q, q.nr) = {Slot(q, i) : i \in 0 .. q.nr - 1}
      /\ \A i \in 0 .. q.nr - 1 : Slot(q, i) \in Bios \ (q.device \cup q.admin)
      /\ \A i, k \in 0 .. q.nr - 1 : Slot(q, i) = Slot(q, k) => i = k
      /\ q.device \cap q.admin = {}
  BY GoodFacts DEF Good, Queues
<1>2. /\ p.ring = [q.ring EXCEPT ![q.tail] = b] /\ p.tail = (q.tail + 1) % Size
      /\ p.nr = q.nr + 1 /\ p.head = q.head /\ p.device = q.device /\ p.admin = q.admin
  BY <1>1 DEF Put, Queues
<1>3. q.nr + 1 \in 0 .. Size /\ q.nr \in 0 .. Size - 1
  BY <1>1, Sizes
<1>4. p.tail = (p.head + p.nr) % Size /\ p.tail \in 0 .. Size - 1
  <2>1. /\ (q.head + (q.nr + 1)) % Size \in 0 .. Size - 1
        /\ (((q.head + q.nr) % Size) + 1) % Size = (q.head + (q.nr + 1)) % Size
    <3>1. q.nr \in 0 .. Size /\ 1 \in 0 .. Size /\ q.nr + 1 <= Size
      BY <1>3, Sizes
    <3> QED BY <3>1, <1>3, RingPositions
  <2> QED BY <2>1, <1>1, <1>2
<1>5. p \in Queues
  <2>1. [q.ring EXCEPT ![q.tail] = b] \in [0 .. IoDepth -> Bios \cup {None}]
    BY <1>1 DEF Queues
  <2>2. (q.tail + 1) % Size \in 0 .. Size - 1 /\ q.nr + 1 \in 0 .. IoDepth
    BY <1>1, <1>2, <1>4, Sizes
  <2> QED BY <2>1, <2>2, <1>1 DEF Put, Queues
<1> HIDE DEF p
<1>6. ASSUME NEW i \in 0 .. q.nr
      PROVE  Slot(p, i) = IF i = q.nr THEN b ELSE Slot(q, i)
  <2>1. i \in 0 .. Size - 1 /\ i \in 0 .. Size
    BY <1>3, Sizes
  <2>2. (q.head + i) % Size \in 0 .. IoDepth /\ q.tail \in 0 .. IoDepth
    <3>1. (q.head + i) % Size \in 0 .. Size - 1
      BY <2>1, RingPositions
    <3> QED BY <3>1, <1>1, Sizes
  <2>3. (q.head + i) % Size = q.tail <=> i = q.nr
    BY <2>1, <1>1, <1>3, RingPositions
  <2>4. q.ring \in [0 .. IoDepth -> Bios \cup {None}]
    BY <1>1 DEF Queues
  <2> QED BY <2>2, <2>3, <2>4, <1>2 DEF Slot
<1>7. Slots(p, p.nr) = {Slot(p, i) : i \in 0 .. q.nr}
  <2>1. p.nr - 1 = q.nr
    BY <1>1, <1>2
  <2> QED BY <2>1 DEF Slots, Slot
<1>8. Slots(p, p.nr) = Slots(q, q.nr) \cup {b}
  <2>1. 0 .. q.nr = (0 .. q.nr - 1) \cup {q.nr}
    BY <1>1
  <2> QED BY <2>1, <1>1, <1>6, <1>7
<1>9. Held(p) = Held(q) \cup {b}
  BY <1>2, <1>8 DEF Held
<1>10. \A i \in 0 .. q.nr - 1 : Slot(q, i) # b
  BY <1>1 DEF Held
<1>11. p.nr - 1 = q.nr
  BY <1>1, <1>2
<1>12. \A i \in 0 .. q.nr : i = q.nr \/ i \in 0 .. q.nr - 1
  BY <1>1
<1>13. \A i \in 0 .. p.nr - 1 : Slot(p, i) \in Bios \ (p.device \cup p.admin)
  BY <1>1, <1>2, <1>6, <1>11, <1>12 DEF Held
<1>14. \A i, k \in 0 .. p.nr - 1 : Slot(p, i) = Slot(p, k) => i = k
  BY <1>1, <1>6, <1>10, <1>11, <1>12
<1>15. Good(p)
  BY <1>1, <1>2, <1>4, <1>5, <1>13, <1>14 DEF Good
<1> QED BY <1>9, <1>15 DEF p

LEMMA SubmitGood ==
  ASSUME NEW q, Good(q), NEW s \in Submit(q)
  PROVE  Good(s.eng) /\ Held(s.eng) = Held(q) /\ s.ok \in BOOLEAN
<1>0. q.nr \in 0 .. IoDepth
  BY DEF Good, Queues
<1>1. CASE engine = "libaio"
  <2>1. PICK k \in 0 .. q.nr : s = [eng |-> Sent(q, k), ok |-> k = q.nr]
    BY <1>0, <1>1 DEF Submit
  <2> QED BY <2>1, SentGood
<1>2. CASE engine # "libaio"
  <2>1. s = [eng |-> q, ok |-> TRUE]
    BY <1>2 DEF Submit
  <2> QED BY <2>1
<1> QED BY <1>1, <1>2

(* null's queue is as long as its indexes say. *)
LEMMA QueuedIsNr ==
  ASSUME NEW q, Good(q)
  PROVE  Queued(q) = q.nr
<1>1. CASE engine = "null"
  <2>1. /\ Size = IoDepth + 1 /\ q.nr \in 0 .. Size - 1 /\ q.head \in 0 .. Size - 1
        /\ Size \in Nat \ {0} /\ q.tail = (q.head + q.nr) % Size
    BY <1>1, Sizes DEF Good, Queues, Size
  <2>2. q.tail = IF q.head + q.nr < Size THEN q.head + q.nr ELSE q.head + q.nr - Size
    <3> DEFINE a == q.head + q.nr
    <3>1. a \in 0 .. 2 * Size - 1
      BY <2>1
    <3> HIDE DEF a
    <3>2. a % Size = IF a < Size THEN a ELSE a - Size
      BY <2>1, <3>1, Wrap
    <3> QED BY <2>1, <3>2 DEF a
  <2>3. q.tail - q.head = q.nr \/ q.tail - q.head = q.nr - Size
    BY <2>1, <2>2
  <2>4. ASSUME NEW S \in Nat \ {0}, NEW n \in 0 .. S - 1 PROVE n % S = n /\ (n - S) % S = n
    <3>1. n % S = n
      OBVIOUS
    <3> DEFINE m == (n - S) % S
               d == (n - S) \div S
    <3>2. m \in 0 .. S - 1 /\ d \in Int /\ n - S = S * d + m
      OBVIOUS
    <3> HIDE DEF m, d
    <3>3. n - m = S * (d + 1) /\ n - m < S /\ n - m > -S
      BY <3>2
    <3>4. d + 1 = 0
      <4>1. ~(d + 1 >= 1)
        <5> SUFFICES ASSUME d + 1 >= 1 PROVE FALSE
          OBVIOUS
        <5>1. S * (d + 1) >= S
          BY <3>2
        <5> QED BY <5>1, <3>2, <3>3
      <4>2. ~(d + 1 <= -1)
        <5> SUFFICES ASSUME d + 1 <= -1 PROVE FALSE
          OBVIOUS
        <5>1. S * (d + 1) <= -S
          BY <3>2
        <5> QED BY <5>1, <3>2, <3>3
      <4> QED BY <4>1, <4>2, <3>2
    <3>5. m = n
      BY <3>2, <3>3, <3>4
    <3> QED BY <3>1, <3>5 DEF m
  <2> QED BY <2>1, <2>3, <2>4, <1>1 DEF Queued
<1>2. CASE engine # "null"
  BY <1>2 DEF Queued
<1> QED BY <1>1, <1>2

(* A queue that differs from a good one in its sets only. *)
LEMMA SameRing ==
  ASSUME NEW q, Good(q), NEW D \in SUBSET Bios, NEW A \in SUBSET Bios,
         D \cap A = {}, Slots(q, q.nr) \cap (D \cup A) = {},
         NEW p \in Queues, p.ring = q.ring, p.head = q.head, p.tail = q.tail, p.nr = q.nr,
         p.device = D, p.admin = A
  PROVE  Good(p) /\ Held(p) = Slots(q, q.nr) \cup D \cup A
<1>1. q \in Queues /\ Slots(q, q.nr) = {Slot(q, i) : i \in 0 .. q.nr - 1}
  BY GoodFacts
<1>3. \A i : Slot(p, i) = Slot(q, i)
  BY DEF Slot
<1>4. Slots(p, p.nr) = Slots(q, q.nr)
  BY DEF Slots
<1>5. \A i \in 0 .. q.nr - 1 : Slot(q, i) \in Bios \ (D \cup A)
  BY <1>1 DEF Good
<1>6. Good(p)
  BY <1>3, <1>5 DEF Good
<1> QED BY <1>4, <1>6 DEF Held

LEMMA EnqueueGood ==
  ASSUME NEW q, Good(q), NEW b \in Bios \ Held(q), NEW op, engine \in {"libaio", "null", "spdk"},
         NEW r \in Enqueue(q, b, op)
  PROVE  /\ Good(r.eng) /\ r.ok \in BOOLEAN
         /\ ~r.ok \/ (engine = "libaio" /\ op = "flush") => Held(r.eng) = Held(q)
         /\ r.ok /\ ~(engine = "libaio" /\ op \in {"flush", "deallocate"})
              => Held(r.eng) = Held(q) \cup {b}
<1>0. q.nr \in 0 .. IoDepth /\ q \in Queues
  BY DEF Good, Queues
<1>1. CASE engine = "libaio"
  <2>1. r \in LibaioEnqueue(q, b, op)
    BY <1>1 DEF Enqueue
  <2>2. CASE q.nr >= IoDepth
    <3>1. r = [eng |-> q, ok |-> FALSE]
      BY <2>1, <2>2, <1>0, Sizes DEF LibaioEnqueue, Refused
    <3> QED BY <3>1
  <2>3. CASE q.nr < IoDepth /\ op \in {"read", "write"}
    <3>1. r = [eng |-> Put(q, b), ok |-> TRUE]
      BY <2>1, <2>3, <1>0, Sizes DEF LibaioEnqueue, Ok
    <3> QED BY <3>1, <2>3, <1>1, PutGood
  <2>4. CASE q.nr < IoDepth /\ op = "flush"
    <3>1. r \in UNION {{Ok(s.eng), Refused(s.eng)} : s \in Submit(q)}
      BY <2>1, <2>4, <1>0, Sizes DEF LibaioEnqueue
    <3>2. PICK s \in Submit(q) : r \in {Ok(s.eng), Refused(s.eng)}
      BY <3>1
    <3>3. r = [eng |-> s.eng, ok |-> TRUE] \/ r = [eng |-> s.eng, ok |-> FALSE]
      BY <3>2, Zenon DEF Ok, Refused
    <3>4. CASE r = [eng |-> s.eng, ok |-> TRUE]
      BY <3>4, <2>4, <1>1, SubmitGood
    <3>5. CASE r = [eng |-> s.eng, ok |-> FALSE]
      BY <3>5, <2>4, <1>1, SubmitGood
    <3> QED BY <3>3, <3>4, <3>5
  <2>5. CASE q.nr < IoDepth /\ op = "deallocate"
    <3>1. r \in {Ok(q), Refused(q)}
      BY <2>1, <2>5, <1>0, Sizes DEF LibaioEnqueue
    <3>2. r = [eng |-> q, ok |-> TRUE] \/ r = [eng |-> q, ok |-> FALSE]
      BY <3>1, Zenon DEF Ok, Refused
    <3>3. CASE r = [eng |-> q, ok |-> TRUE]
      BY <3>3, <2>5, <1>1
    <3>4. CASE r = [eng |-> q, ok |-> FALSE]
      BY <3>4, <2>5, <1>1
    <3> QED BY <3>2, <3>3, <3>4
  <2>6. CASE q.nr < IoDepth /\ op \notin {"read", "write", "flush", "deallocate"}
    <3>1. r = [eng |-> q, ok |-> FALSE]
      BY <2>1, <2>6, <1>0, Sizes DEF LibaioEnqueue, Refused
    <3> QED BY <3>1
  <2> QED BY <2>2, <2>3, <2>4, <2>5, <2>6, <1>0, Sizes
<1>2. CASE engine = "null"
  <2>1. r \in NullEnqueue(q, b)
    BY <1>2 DEF Enqueue
  <2>2. CASE (q.tail + 1) % Size = q.head
    <3>1. r = [eng |-> q, ok |-> FALSE]
      BY <2>1, <2>2 DEF NullEnqueue, Refused
    <3> QED BY <3>1
  <2>3. CASE (q.tail + 1) % Size # q.head
    <3>1. r = [eng |-> Put(q, b), ok |-> TRUE]
      BY <2>1, <2>3 DEF NullEnqueue, Ok
    <3>2. q.nr # IoDepth
      <4> SUFFICES ASSUME q.nr = IoDepth PROVE FALSE
        OBVIOUS
      <4>1. Size = IoDepth + 1 /\ q.nr \in 0 .. Size /\ 1 \in 0 .. Size /\ q.nr + 1 <= Size
        BY <1>0, <1>2, Sizes DEF Size
      <4>2. (q.tail + 1) % Size = (q.head + (q.nr + 1)) % Size
        <5>1. q.tail = (q.head + q.nr) % Size
          BY DEF Good
        <5> QED BY <4>1, <5>1, RingPositions
      <4>3. q.nr + 1 = Size /\ q.head \in 0 .. Size - 1
        BY <4>1, GoodFacts
      <4>4. (q.head + Size) % Size = q.head
        <5> DEFINE a == q.head + Size
        <5>1. a \in 0 .. 2 * Size - 1 /\ a >= Size
          BY <4>3, Sizes
        <5> HIDE DEF a
        <5>2. a % Size = IF a < Size THEN a ELSE a - Size
          <6>1. Size \in Nat \ {0}
            BY Sizes
          <6> QED BY <5>1, <6>1, Wrap
        <5> QED BY <5>1, <5>2, <4>3, Sizes DEF a
      <4> QED BY <4>2, <4>3, <4>4, <2>3
    <3> QED BY <3>1, <3>2, <1>0, <1>2, Sizes, PutGood
  <2> QED BY <2>2, <2>3
<1>3. CASE engine = "spdk"
  <2>1. r \in SpdkEnqueue(q, b, op)
    BY <1>3 DEF Enqueue
  <2>2. CASE r = Refused(q)
    BY <2>2 DEF Refused
  <2>3. CASE r # Refused(q)
    <3>1. r.ok = TRUE /\ r.eng = IF op = "identify" THEN [q EXCEPT !.admin = @ \cup {b}]
                                                     ELSE [q EXCEPT !.device = @ \cup {b}]
      BY <2>1, <2>3 DEF SpdkEnqueue, Ok
    <3> DEFINE A == IF op = "identify" THEN q.admin \cup {b} ELSE q.admin
               D == IF op = "identify" THEN q.device ELSE q.device \cup {b}
    <3>2. LET p == r.eng IN
          /\ p \in Queues /\ p.ring = q.ring /\ p.head = q.head /\ p.tail = q.tail /\ p.nr = q.nr
          /\ p.device = D /\ p.admin = A
      BY <3>1, <1>0 DEF Queues
    <3>3. /\ D \in SUBSET Bios /\ A \in SUBSET Bios /\ D \cap A = {}
          /\ Slots(q, q.nr) \cap (D \cup A) = {}
          /\ D \cup A = q.device \cup q.admin \cup {b}
      BY GoodFacts DEF Good, Held
    <3> HIDE DEF D, A
    <3>4. Good(r.eng) /\ Held(r.eng) = Slots(q, q.nr) \cup D \cup A
      BY <3>2, <3>3, SameRing
    <3> QED BY <3>1, <3>3, <3>4, <1>3 DEF Held
  <2> QED BY <2>2, <2>3
<1> QED BY <1>1, <1>2, <1>3

LEMMA PollGood ==
  ASSUME NEW q, Good(q), NEW min, engine \in {"libaio", "null", "spdk"}, NEW r \in Poll(q, min)
  PROVE  /\ Good(r.eng) /\ r.done \subseteq Held(q)
         /\ Held(r.eng) = Held(q) \ r.done
<1>1. CASE engine \in {"libaio", "spdk"}
  <2>1. PICK d \in SUBSET q.device : r = [eng |-> [q EXCEPT !.device = @ \ d], done |-> d]
    BY <1>1 DEF Poll, DevicePoll
  <2>2. LET p == r.eng IN
        /\ p \in Queues /\ p.ring = q.ring /\ p.head = q.head /\ p.tail = q.tail /\ p.nr = q.nr
        /\ p.device = q.device \ d /\ p.admin = q.admin /\ r.done = d
    BY <2>1 DEF Good, Queues
  <2>3. Good(r.eng) /\ Held(r.eng) = Slots(q, q.nr) \cup (q.device \ d) \cup q.admin
    <3>1. /\ q.device \ d \in SUBSET Bios /\ q.admin \in SUBSET Bios
          /\ (q.device \ d) \cap q.admin = {}
          /\ Slots(q, q.nr) \cap ((q.device \ d) \cup q.admin) = {}
      BY GoodFacts DEF Good
    <3> QED BY <3>1, <2>2, SameRing
  <2>4. Slots(q, q.nr) \cap d = {} /\ q.admin \cap d = {}
    BY GoodFacts DEF Good
  <2> QED BY <2>2, <2>3, <2>4 DEF Held
<1>2. CASE engine = "null"
  <2> DEFINE n == IF q.nr < BatchComplete THEN q.nr ELSE BatchComplete
             p == [q EXCEPT !.head = (@ + n) % Size, !.nr = @ - n]
  <2>1. r = [eng |-> p, done |-> Slots(q, n)]
    <3>1. Queued(q) = q.nr
      BY QueuedIsNr
    <3>2. r \in NullPoll(q)
      BY <1>2 DEF Poll
    <3> QED BY <3>1, <3>2 DEF NullPoll
  <2>2. /\ q \in Queues /\ q.nr \in 0 .. Size /\ q.nr \in 0 .. IoDepth /\ q.head \in 0 .. Size - 1
        /\ n \in 0 .. q.nr
    BY GoodFacts, RunnerParams, Sizes DEF Queues
  <2> HIDE DEF n
  <2>3. (q.head + n) % Size \in 0 .. Size - 1 /\ q.nr - n \in 0 .. IoDepth
    <3>1. n \in 0 .. Size /\ q.nr - n \in 0 .. IoDepth
      BY <2>2, Sizes
    <3> QED BY <3>1, RingPositions
  <2>4. /\ p \in Queues /\ p.ring = q.ring /\ p.head = (q.head + n) % Size /\ p.tail = q.tail
        /\ p.nr = q.nr - n /\ p.device = q.device /\ p.admin = q.admin
    BY <2>2, <2>3 DEF Queues
  <2> HIDE DEF p
  <2>5. /\ p.tail = (p.head + p.nr) % Size
        /\ \A i, m \in 0 .. p.nr - 1 : Slot(p, i) = Slot(p, m) => i = m
        /\ Slots(q, q.nr) = Slots(q, n) \cup Slots(p, p.nr)
        /\ Slots(q, n) \cap Slots(p, p.nr) = {}
    BY <2>2, <2>4, Advance
  <2>6. Slots(p, p.nr) = {Slot(p, i) : i \in 0 .. p.nr - 1}
    BY DEF Slots, Slot
  <2>7. /\ Slots(q, q.nr) \subseteq Bios /\ Slots(q, q.nr) \cap (q.device \cup q.admin) = {}
    BY GoodFacts
  <2>8. Good(p)
    BY <2>4, <2>5, <2>6, <2>7, <1>2 DEF Good
  <2>9. Slots(q, n) \subseteq Held(q) /\ Held(p) = Held(q) \ Slots(q, n)
    BY <2>4, <2>5, <2>7 DEF Held
  <2> QED BY <2>1, <2>8, <2>9
<1> QED BY <1>1, <1>2
-----------------------------------------------------------------------------
LEMMA InitInv == Init => Inv
<1> SUFFICES ASSUME Init PROVE Inv
  OBVIOUS
<1>1. /\ engine \in DOMAIN Workload /\ eng = EngineInit /\ free = Bios /\ inflight = {}
      /\ pc = "loop" /\ nrEnqueued = 0 /\ ops = 0 /\ result = FALSE
  BY DEF Init
<1>2. /\ eng.nr = 0 /\ eng.head = 0 /\ eng.tail = 0 /\ eng.device = {} /\ eng.admin = {}
  BY <1>1 DEF EngineInit
<1>3. eng \in Queues
  <2>1. [i \in 0 .. IoDepth |-> None] \in [0 .. IoDepth -> Bios \cup {None}]
    OBVIOUS
  <2>2. 0 \in 0 .. Size - 1 /\ 0 \in 0 .. IoDepth
    BY Sizes
  <2> QED BY <2>1, <2>2, <1>1 DEF EngineInit, Queues
<1>4. 0 % Size = 0 /\ 0 .. eng.nr - 1 = {}
  BY <1>2, Sizes
<1>5. Good(eng)
  BY <1>2, <1>3, <1>4 DEF Good
<1>6. Held(eng) = {}
  BY <1>2, <1>4 DEF Held, Slots
<1>7. nrEnqueued \in 0 .. batch_submit /\ nrEnqueued < batch_submit /\ ops \in 0 .. Amount
  BY <1>1, Sizes, RunnerParams
<1> QED BY <1>1, <1>5, <1>6, <1>7 DEF Inv

(* The invariant of the next state, from what the engine did. *)
LEMMA Established ==
  ASSUME Inv, engine' = engine, Good(eng'), Held(eng') = inflight',
         free' \subseteq Bios, inflight' \subseteq Bios, free' \cap inflight' = {},
         nrEnqueued' \in 0 .. batch_submit,
         pc' = "loop" => free' \cup inflight' = Bios /\ nrEnqueued' < batch_submit,
         pc' \in {"loop", "submit", "drain", "ended", "exited"},
         result' \in BOOLEAN, ops' \in 0 .. Amount
  PROVE  Inv'
<1>1. Size' = Size
  BY DEF Size
<1>2. Good(eng)'
  BY <1>1 DEF Good, Queues, Slot
<1>3. Held(eng)' = inflight'
  BY <1>1 DEF Held, Slots
<1>4. batch_submit' = batch_submit
  BY DEF batch_submit
<1> QED BY <1>2, <1>3, <1>4 DEF Inv

(* What a poll gives back. *)
LEMMA PollInv ==
  ASSUME Inv, NEW q, Good(q), Held(q) = inflight, NEW min, NEW p \in Poll(q, min),
         eng' = p.eng, BioEnd(p.done), engine' = engine
  PROVE  /\ Good(eng') /\ Held(eng') = inflight'
         /\ p.done \subseteq inflight /\ free' \subseteq Bios /\ inflight' \subseteq Bios
         /\ free' \cap inflight' = {} /\ free' \cup inflight' = free \cup inflight
<1>1. engine \in {"libaio", "null", "spdk"}
  BY RunnerParams DEF Inv
<1>2. Good(p.eng) /\ p.done \subseteq Held(q) /\ Held(p.eng) = Held(q) \ p.done
  BY <1>1, PollGood
<1>3. free \subseteq Bios /\ inflight \subseteq Bios /\ free \cap inflight = {}
  BY DEF Inv
<1>4. free' = free \cup p.done /\ inflight' = inflight \ p.done
  BY DEF BioEnd
<1> QED BY <1>2, <1>3, <1>4

(* The generator's steps, as BioQueue sees them. *)
AcceptedStep(b) ==
  /\ b \in free /\ NumInflight < IoDepth
  /\ free' = free \ {b} /\ inflight' = inflight \cup {b}
  /\ result' = result \/ result' = TRUE
EndedStep(done) ==
  done \subseteq inflight /\ inflight' = inflight \ done /\ free' = free \cup done /\ result' = result
RefusedStep(b) == b \in free /\ free' = free \ {b} /\ result' = TRUE /\ inflight' = inflight
QuietStep == free' = free /\ inflight' = inflight /\ (result' = result \/ result' = TRUE)
QueueStep ==
  \/ \E b \in Bios : AcceptedStep(b) \/ RefusedStep(b)
  \/ \E done \in SUBSET Bios : EndedStep(done)
  \/ QuietStep

LEMMA GenerateStep ==
  ASSUME NoDeallocate, Inv, Generate
  PROVE  Inv' /\ QueueStep
<1>1. PICK b \in free, op \in Workload[engine] :
        GenerateRefused(b, op) \/ GenerateFlushed(b, op) \/ GenerateAccepted(b, op)
  BY DEF Generate
<1>2. pc = "loop" /\ ops < Amount /\ NumInflight < IoDepth
  BY DEF Generate
<1>3. /\ engine \in DOMAIN Workload /\ engine \in {"libaio", "null", "spdk"}
      /\ Good(eng) /\ Held(eng) = inflight
      /\ free \subseteq Bios /\ inflight \subseteq Bios /\ free \cap inflight = {}
      /\ nrEnqueued \in 0 .. batch_submit /\ nrEnqueued < batch_submit
      /\ free \cup inflight = Bios /\ result \in BOOLEAN /\ ops \in 0 .. Amount
  BY <1>2, RunnerParams DEF Inv
<1>4. b \in Bios \ Held(eng) /\ ~(engine = "libaio" /\ op = "deallocate")
  BY <1>1, <1>3 DEF NoDeallocate
<1>5. ops + 1 \in 0 .. Amount
  BY <1>2, <1>3, RunnerParams
<1>6. ASSUME NEW r \in Enqueue(eng, b, op)
      PROVE  /\ Good(r.eng) /\ r.ok \in BOOLEAN
             /\ ~r.ok \/ (engine = "libaio" /\ op = "flush") => Held(r.eng) = inflight
             /\ r.ok /\ ~(engine = "libaio" /\ op = "flush") => Held(r.eng) = inflight \cup {b}
  BY <1>3, <1>4, EnqueueGood
<1>7. CASE GenerateRefused(b, op)
  <2>1. PICK r \in Enqueue(eng, b, op) :
          /\ ~r.ok /\ eng' = r.eng
          /\ free' = free \ {b} /\ result' = TRUE /\ pc' = "submit" /\ ops' = ops + 1
          /\ UNCHANGED <<engine, inflight, nrEnqueued>>
    BY <1>7 DEF GenerateRefused
  <2>2. Good(eng') /\ Held(eng') = inflight'
    BY <2>1, <1>6
  <2>3. Inv'
    BY <2>1, <2>2, <1>3, <1>5, Established
  <2> QED BY <2>1, <2>3, <1>3 DEF QueueStep, RefusedStep
<1>8. CASE GenerateFlushed(b, op)
  <2>1. PICK r \in Enqueue(eng, b, op) :
          /\ r.ok /\ engine = "libaio" /\ op = "flush" /\ eng' = r.eng /\ ops' = ops + 1
          /\ UNCHANGED <<engine, pc, free, inflight, nrEnqueued, result>>
    BY <1>8 DEF GenerateFlushed
  <2>2. Good(eng') /\ Held(eng') = inflight'
    BY <2>1, <1>6
  <2>3. Inv'
    BY <2>1, <2>2, <1>2, <1>3, <1>5, Established
  <2> QED BY <2>1, <2>3 DEF QueueStep, QuietStep
<1>9. CASE GenerateAccepted(b, op)
  <2>1. PICK r \in Enqueue(eng, b, op) :
          /\ r.ok /\ ~(engine = "libaio" /\ op = "flush")
          /\ free' = free \ {b} /\ inflight' = inflight \cup {b} /\ ops' = ops + 1
          /\ IF nrEnqueued + 1 = batch_submit \/ NumInflight + 1 = IoDepth
               THEN \E s \in Submit(r.eng) :
                      /\ eng' = s.eng
                      /\ nrEnqueued' = IF s.ok THEN 0 ELSE nrEnqueued + 1
                      /\ pc' = IF s.ok THEN "loop" ELSE "submit"
                      /\ result' = (result \/ ~s.ok)
               ELSE eng' = r.eng /\ nrEnqueued' = nrEnqueued + 1 /\ UNCHANGED <<pc, result>>
          /\ UNCHANGED engine
    BY <1>9 DEF GenerateAccepted
  <2>2. Good(r.eng) /\ Held(r.eng) = inflight'
    BY <2>1, <1>6
  <2>3. /\ free' \subseteq Bios /\ inflight' \subseteq Bios /\ free' \cap inflight' = {}
        /\ free' \cup inflight' = Bios /\ ops' \in 0 .. Amount /\ engine' = engine
    BY <2>1, <1>3, <1>4, <1>5
  <2>4. 0 \in 0 .. batch_submit /\ 0 < batch_submit /\ nrEnqueued + 1 \in 0 .. batch_submit
    BY <1>3, Sizes
  <2>5. CASE nrEnqueued + 1 = batch_submit \/ NumInflight + 1 = IoDepth
    <3>1. PICK s \in Submit(r.eng) :
            /\ eng' = s.eng
            /\ nrEnqueued' = IF s.ok THEN 0 ELSE nrEnqueued + 1
            /\ pc' = IF s.ok THEN "loop" ELSE "submit"
            /\ result' = (result \/ ~s.ok)
      BY <2>1, <2>5
    <3>2. Good(eng') /\ Held(eng') = inflight' /\ s.ok \in BOOLEAN
      BY <3>1, <2>2, SubmitGood
    <3>3. /\ nrEnqueued' \in 0 .. batch_submit /\ (pc' = "loop" => nrEnqueued' < batch_submit)
          /\ pc' \in {"loop", "submit"}
      BY <3>1, <3>2, <2>4
    <3>4. result' \in BOOLEAN /\ (result' = result \/ result' = TRUE)
      BY <3>1, <3>2, <1>3
    <3>5. Inv'
      BY <3>2, <3>3, <3>4, <2>3, Established
    <3> QED BY <3>4, <3>5, <2>1, <1>2, <1>3 DEF QueueStep, AcceptedStep
  <2>6. CASE ~(nrEnqueued + 1 = batch_submit \/ NumInflight + 1 = IoDepth)
    <3>1. eng' = r.eng /\ nrEnqueued' = nrEnqueued + 1 /\ pc' = pc /\ result' = result
      BY <2>1, <2>6
    <3>2. nrEnqueued' \in 0 .. batch_submit /\ nrEnqueued' < batch_submit
      BY <3>1, <2>4, <2>6, <1>3, Sizes
    <3>3. Inv'
      BY <3>1, <3>2, <2>2, <2>3, <1>2, <1>3, Established
    <3> QED BY <3>1, <3>3, <2>1, <1>2, <1>3 DEF QueueStep, AcceptedStep
  <2> QED BY <2>5, <2>6
<1> QED BY <1>1, <1>7, <1>8, <1>9

LEMMA TryLaterStep ==
  ASSUME Inv, TryLater
  PROVE  Inv' /\ QueueStep
<1>1. /\ engine \in DOMAIN Workload /\ Good(eng) /\ Held(eng) = inflight
      /\ free \subseteq Bios /\ inflight \subseteq Bios /\ free \cap inflight = {}
      /\ nrEnqueued \in 0 .. batch_submit /\ free \cup inflight = Bios
      /\ nrEnqueued < batch_submit /\ result \in BOOLEAN /\ ops \in 0 .. Amount
      /\ pc = "loop" /\ engine' = engine /\ ops' = ops
  BY DEF Inv, TryLater
<1>2. PICK s \in IF nrEnqueued > 0 THEN Submit(eng) ELSE {Ok(eng)} :
        IF s.ok
          THEN /\ \E p \in Poll(s.eng, 0) : eng' = p.eng /\ BioEnd(p.done)
               /\ nrEnqueued' = 0 /\ UNCHANGED <<pc, result>>
          ELSE /\ eng' = s.eng /\ pc' = "submit" /\ result' = TRUE
               /\ UNCHANGED <<free, inflight, nrEnqueued>>
  BY DEF TryLater
<1>3. Good(s.eng) /\ Held(s.eng) = inflight
  <2>1. CASE nrEnqueued > 0
    BY <2>1, <1>1, <1>2, SubmitGood
  <2>2. CASE ~(nrEnqueued > 0)
    BY <2>2, <1>1, <1>2 DEF Ok
  <2> QED BY <2>1, <2>2
<1>4. CASE s.ok
  <2>1. PICK p \in Poll(s.eng, 0) : eng' = p.eng /\ BioEnd(p.done)
    BY <1>2, <1>4
  <2>2. nrEnqueued' = 0 /\ pc' = pc /\ result' = result
    BY <1>2, <1>4
  <2>3. /\ Good(eng') /\ Held(eng') = inflight'
        /\ p.done \subseteq inflight /\ free' \subseteq Bios /\ inflight' \subseteq Bios
        /\ free' \cap inflight' = {} /\ free' \cup inflight' = free \cup inflight
    BY <2>1, <1>1, <1>3, PollInv
  <2>4. nrEnqueued' \in 0 .. batch_submit /\ nrEnqueued' < batch_submit
    BY <2>2, Sizes
  <2>5. Inv'
    BY <2>2, <2>3, <2>4, <1>1, Established
  <2> QED BY <2>1, <2>2, <2>3, <2>5, <1>1 DEF QueueStep, EndedStep, BioEnd
<1>5. CASE ~s.ok
  <2>1. /\ eng' = s.eng /\ pc' = "submit" /\ result' = TRUE
        /\ free' = free /\ inflight' = inflight /\ nrEnqueued' = nrEnqueued
    BY <1>2, <1>5
  <2>2. Inv'
    BY <2>1, <1>1, <1>3, Established
  <2> QED BY <2>1, <2>2 DEF QueueStep, QuietStep
<1> QED BY <1>4, <1>5

LEMMA PollStep ==
  ASSUME Inv, PollFull \/ Drain
  PROVE  Inv' /\ QueueStep
<1>1. /\ engine \in DOMAIN Workload /\ Good(eng) /\ Held(eng) = inflight
      /\ free \subseteq Bios /\ inflight \subseteq Bios /\ free \cap inflight = {}
      /\ nrEnqueued \in 0 .. batch_submit /\ result \in BOOLEAN /\ ops \in 0 .. Amount
      /\ pc = "loop" => free \cup inflight = Bios /\ nrEnqueued < batch_submit
      /\ pc \in {"loop", "submit", "drain", "ended", "exited"}
  BY DEF Inv
<1>2. UNCHANGED <<engine, pc, nrEnqueued, ops, result>>
  BY DEF PollFull, Drain
<1>3. PICK min \in {0, 1} : \E p \in Poll(eng, min) : eng' = p.eng /\ BioEnd(p.done)
  BY DEF PollFull, Drain
<1>4. PICK p \in Poll(eng, min) : eng' = p.eng /\ BioEnd(p.done)
  BY <1>3
<1>5. /\ Good(eng') /\ Held(eng') = inflight'
      /\ p.done \subseteq inflight /\ free' \subseteq Bios /\ inflight' \subseteq Bios
      /\ free' \cap inflight' = {} /\ free' \cup inflight' = free \cup inflight
  BY <1>1, <1>2, <1>4, PollInv
<1>6. Inv'
  BY <1>1, <1>2, <1>5, Established
<1> QED BY <1>1, <1>2, <1>4, <1>5, <1>6 DEF QueueStep, EndedStep, BioEnd

LEMMA RestStep ==
  ASSUME Inv, Stop \/ LastSubmit \/ Finish \/ Exit \/ UNCHANGED vars
  PROVE  Inv' /\ QueueStep
<1>1. /\ engine \in DOMAIN Workload /\ Good(eng) /\ Held(eng) = inflight
      /\ free \subseteq Bios /\ inflight \subseteq Bios /\ free \cap inflight = {}
      /\ nrEnqueued \in 0 .. batch_submit /\ result \in BOOLEAN /\ ops \in 0 .. Amount
      /\ pc = "loop" => free \cup inflight = Bios /\ nrEnqueued < batch_submit
      /\ pc \in {"loop", "submit", "drain", "ended", "exited"}
  BY DEF Inv
<1>2. /\ UNCHANGED <<engine, free, inflight, nrEnqueued, ops>>
      /\ result' = result \/ result' = TRUE
      /\ pc' = pc \/ pc' \in {"submit", "drain", "ended", "exited"}
  BY DEF Stop, LastSubmit, Finish, Exit, vars
<1>3. eng' = eng \/ \E s \in Submit(eng) : eng' = s.eng
  BY DEF Stop, LastSubmit, Finish, Exit, vars
<1>4. Good(eng') /\ Held(eng') = inflight
  BY <1>1, <1>3, SubmitGood
<1>5. Inv'
  BY <1>1, <1>2, <1>4, Established
<1> QED BY <1>2, <1>5 DEF QueueStep, QuietStep

LEMMA NextInv ==
  ASSUME NoDeallocate
  PROVE  Inv /\ [Next]_vars => Inv' /\ QueueStep
  BY GenerateStep, TryLaterStep, PollStep, RestStep DEF Next

LEMMA InvHolds ==
  ASSUME NoDeallocate
  PROVE  Spec => []Inv
<1>1. Inv /\ [Next]_vars => Inv'
  BY NextInv
<1> QED BY <1>1, InitInv, PTL DEF Spec

(* The pool is finite. *)
LEMMA Pool ==
  /\ IsFiniteSet(Bios) /\ Cardinality(Bios) = IoDepth
  /\ \A S \in SUBSET Bios : IsFiniteSet(S) /\ Cardinality(S) \in Nat
<1>1. IoDepth \in Nat \ {0}
  BY RunnerParams
<1>2. IsFiniteSet(Bios) /\ Cardinality(Bios) = IoDepth
  BY <1>1, FS_Interval DEF Bios
<1> QED BY <1>2, FS_Subset, FS_CardinalityType

(* The ring holds as many bios as it counts. *)
LEMMA RingCount ==
  ASSUME NEW q, Good(q)
  PROVE  Cardinality(Slots(q, q.nr)) = q.nr
<1> DEFINE f == [i \in 1 .. q.nr |-> Slot(q, i - 1)]
           T == Slots(q, q.nr)
<1>1. q.nr \in Nat /\ T = {Slot(q, i) : i \in 0 .. q.nr - 1}
  BY GoodFacts, Sizes
<1>2. \A i \in 1 .. q.nr : i - 1 \in 0 .. q.nr - 1
  BY <1>1
<1>3. \A i \in 0 .. q.nr - 1 : i + 1 \in 1 .. q.nr /\ (i + 1) - 1 = i
  BY <1>1
<1> HIDE DEF T
<1>4. f \in [1 .. q.nr -> T]
  BY <1>1, <1>2
<1>5. ASSUME NEW i \in 1 .. q.nr, NEW k \in 1 .. q.nr, f[i] = f[k] PROVE i = k
  <2>1. Slot(q, i - 1) = Slot(q, k - 1) /\ i - 1 \in 0 .. q.nr - 1 /\ k - 1 \in 0 .. q.nr - 1
    BY <1>2, <1>5
  <2>2. i - 1 = k - 1
    BY <2>1 DEF Good
  <2> QED BY <2>2
<1>6. ASSUME NEW t \in T PROVE \E i \in 1 .. q.nr : f[i] = t
  <2>1. PICK i \in 0 .. q.nr - 1 : t = Slot(q, i)
    BY <1>1
  <2>2. f[i + 1] = t /\ i + 1 \in 1 .. q.nr
    BY <2>1, <1>3
  <2> QED BY <2>2
<1> HIDE DEF f
<1>7. f \in Bijection(1 .. q.nr, T)
  BY <1>4, <1>5, <1>6 DEF Bijection, Injection, Surjection, IsInjective
<1>8. ExistsBijection(1 .. q.nr, T)
  BY <1>7 DEF ExistsBijection
<1> QED BY <1>1, <1>8, FS_CountingElements DEF T

(* Sets without a common element add up. *)
LEMMA DisjointUnion ==
  ASSUME NEW S, NEW T, IsFiniteSet(S), IsFiniteSet(T), S \cap T = {}
  PROVE  IsFiniteSet(S \cup T) /\ Cardinality(S \cup T) = Cardinality(S) + Cardinality(T)
<1>1. Cardinality(S \cap T) = 0
  BY FS_EmptySet
<1>2. /\ IsFiniteSet(S \cup T)
      /\ Cardinality(S \cup T) = Cardinality(S) + Cardinality(T) - Cardinality(S \cap T)
  BY FS_Union
<1>3. Cardinality(S) \in Nat /\ Cardinality(T) \in Nat
  BY FS_CardinalityType
<1> QED BY <1>1, <1>2, <1>3

(* What the engine holds is what the job counts. *)
LEMMA InvHeld == Inv => EngineHolds = inflight /\ InflightHeld
<1> SUFFICES ASSUME Inv PROVE EngineHolds = inflight /\ InflightHeld
  OBVIOUS
<1>1. Good(eng) /\ Held(eng) = inflight
  BY DEF Inv
<1>2. Queued(eng) = eng.nr
  BY <1>1, QueuedIsNr
<1>3. EngineHolds = inflight
  BY <1>1, <1>2 DEF EngineHolds, Held
<1> DEFINE R == Slots(eng, eng.nr)
           D == eng.device
           A == eng.admin
<1>4. /\ R \subseteq Bios /\ D \subseteq Bios /\ A \subseteq Bios
      /\ R \cap D = {} /\ (R \cup D) \cap A = {} /\ Cardinality(R) = eng.nr
      /\ eng.nr \in Nat /\ inflight = (R \cup D) \cup A
  <2>1. /\ R \subseteq Bios /\ D \subseteq Bios /\ A \subseteq Bios
        /\ R \cap (D \cup A) = {} /\ eng.nr \in Nat
    BY <1>1, GoodFacts, Sizes
  <2>2. D \cap A = {}
    BY <1>1 DEF Good
  <2>3. Cardinality(R) = eng.nr
    BY <1>1, RingCount
  <2> QED BY <2>1, <2>2, <2>3, <1>1 DEF Held
<1> HIDE DEF R, D, A
<1>f. IsFiniteSet(R) /\ IsFiniteSet(D) /\ IsFiniteSet(A)
  BY <1>4, Pool
<1>5. Cardinality(R \cup D) = Cardinality(R) + Cardinality(D) /\ IsFiniteSet(R \cup D)
  BY <1>4, <1>f, DisjointUnion
<1>6. Cardinality((R \cup D) \cup A) = Cardinality(R \cup D) + Cardinality(A)
  BY <1>4, <1>f, <1>5, DisjointUnion
<1>7. Queued(eng) + Cardinality(D) + Cardinality(A) = NumInflight
  BY <1>2, <1>4, <1>5, <1>6 DEF NumInflight
<1> QED BY <1>3, <1>7 DEF InflightHeld, D, A
-----------------------------------------------------------------------------
(* The state keeps its types: the ring's indexes stay inside the ring and  *)
(* its count inside the depth.                                             *)
THEOREM TypeCorrect ==
  ASSUME NoDeallocate
  PROVE  Spec => []TypeOK
<1>1. Inv => TypeOK
  <2> SUFFICES ASSUME Inv PROVE TypeOK
    OBVIOUS
  <2>1. eng \in Queues
    BY DEF Inv, Good
  <2>2. /\ eng.ring \in [0 .. IoDepth -> Bios \cup {None}]
        /\ eng.head \in 0 .. Size - 1 /\ eng.tail \in 0 .. Size - 1
        /\ eng.nr \in 0 .. IoDepth /\ eng.device \subseteq Bios /\ eng.admin \subseteq Bios
    BY <2>1 DEF Queues
  <2>3. nrEnqueued \in 0 .. IoDepth
    BY Sizes DEF Inv
  <2> QED BY <2>2, <2>3 DEF Inv, TypeOK
<1> QED BY <1>1, InvHolds, PTL

(* num_inflight, the lists of the job, the ring of the engine and the      *)
(* device agree, after every partial io_submit and wrap-around.            *)
THEOREM HeldAgree ==
  ASSUME NoDeallocate
  PROVE  Spec => []InflightHeld
<1>1. Inv => InflightHeld
  BY InvHeld
<1> QED BY <1>1, InvHolds, PTL

(* generate_bio never takes a bio from an empty list. *)
THEOREM FreeBio ==
  ASSUME NoDeallocate
  PROVE  Spec => []FreeBioThere
<1>1. Inv => FreeBioThere
  <2> SUFFICES ASSUME Inv, pc = "loop", NumInflight < IoDepth, free = {} PROVE FALSE
    BY DEF FreeBioThere
  <2>1. inflight = Bios
    BY DEF Inv
  <2>2. NumInflight = IoDepth
    BY <2>1, Pool DEF NumInflight
  <2> QED BY <2>2, Sizes
<1> QED BY <1>1, InvHolds, PTL

(* What the engine holds before a step, and after it. *)
LEMMA HoldsBoth == Inv /\ Inv' => EngineHolds = inflight /\ EngineHolds' = inflight'
<1>1. Inv => EngineHolds = inflight
  BY InvHeld
<1>2. (Inv => EngineHolds = inflight)'
  BY <1>1, PTL
<1> QED BY <1>1, <1>2

(* The rings, the device and the quirks of the engines implement a plain   *)
(* queue: an accepted bio is held until it is ended, once, and only a      *)
(* refused one is lost.                                                    *)
THEOREM Refinement ==
  ASSUME NoDeallocate
  PROVE  Spec => ImplementsQueue
<1>1. Init => Queue!Init
  <2> SUFFICES ASSUME Init PROVE Queue!Init
    OBVIOUS
  <2>1. EngineHolds = inflight
    BY InitInv, InvHeld
  <2> QED BY <2>1 DEF Init, Queue!Init
<1>2. Inv /\ Inv' /\ [Next]_vars => [Queue!Next]_<<free, EngineHolds, result>>
  <2> SUFFICES ASSUME Inv, Inv', [Next]_vars
               PROVE  [Queue!Next]_<<free, EngineHolds, result>>
    OBVIOUS
  <2>1. EngineHolds = inflight /\ EngineHolds' = inflight'
    BY HoldsBoth
  <2>2. QueueStep
    BY NextInv
  <2>3. ASSUME NEW b \in Bios, AcceptedStep(b) PROVE Queue!Next
    <3>1. /\ b \in free /\ Cardinality(EngineHolds) < IoDepth
          /\ free' = free \ {b} /\ EngineHolds' = EngineHolds \cup {b}
          /\ result' = result \/ result' = TRUE
      BY <2>1, <2>3 DEF AcceptedStep, NumInflight
    <3>2. Queue!Cardinality(EngineHolds) < IoDepth
      BY <3>1 DEF Queue!Cardinality, Cardinality
    <3> QED BY <3>1, <3>2 DEF Queue!Next, Queue!Accept
  <2>4. ASSUME NEW b \in Bios, RefusedStep(b) PROVE Queue!Next
    <3>1. Queue!Refuse(b)
      BY <2>1, <2>4 DEF RefusedStep, Queue!Refuse
    <3> QED BY <3>1 DEF Queue!Next
  <2>5. ASSUME NEW done \in SUBSET Bios, EndedStep(done) PROVE Queue!Next
    <3>1. Queue!End(done)
      BY <2>1, <2>5 DEF EndedStep, Queue!End
    <3> QED BY <3>1 DEF Queue!Next
  <2>6. CASE QuietStep
    BY <2>1, <2>6 DEF QuietStep, Queue!Next, Queue!Fail
  <2> QED BY <2>2, <2>3, <2>4, <2>5, <2>6 DEF QueueStep
<1> QED BY <1>1, <1>2, InvHolds, PTL DEF Spec, ImplementsQueue, Queue!Spec
=============================================================================
