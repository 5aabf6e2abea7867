---------------------------- MODULE LbaLockProofs ----------------------------
(* Proofs about LbaLock, for every set of jobs, word size, namespace size  *)
(* and queue depth.                                                        *)
EXTENDS LbaLock, TLAPS

(* Division and remainder by the word size. *)
LEMMA DivMod ==
  ASSUME NEW x \in Nat
  PROVE  /\ x \div W \in Nat
         /\ x % W \in Bits
         /\ x = W * (x \div W) + (x % W)
  BY WAssumption DEF Bits

(* A quotient and a remainder are determined by the number. *)
LEMMA DivModUnique ==
  ASSUME NEW q1 \in Nat, NEW r1 \in Bits, NEW q2 \in Nat, NEW r2 \in Bits,
         W * q1 + r1 = W * q2 + r2
  PROVE  q1 = q2 /\ r1 = r2
<1> USE WAssumption DEF Bits
<1>1. ASSUME NEW a \in Nat, NEW b \in Nat, NEW s \in Bits, NEW t \in Bits,
             a < b, W * a + s = W * b + t
      PROVE  FALSE
  <2>1. b = a + (b - a) /\ b - a >= 1
    BY <1>1
  <2>2. W * b = W * a + W * (b - a)
    BY <2>1, <1>1
  <2>3. W * (b - a) >= W
    BY <2>1, <1>1
  <2> QED BY <2>2, <2>3, <1>1
<1>2. ~(q1 < q2) BY <1>1
<1>3. ~(q2 < q1) BY <1>1
<1> QED BY <1>2, <1>3

(* The bits of one word, counted up from LBA p, are the LBAs p .. p+n-1:   *)
(* the masks of the lock and unlock loops.                                 *)
LEMMA UpChunk ==
  ASSUME NEW p \in Nat, NEW n \in Nat, (p % W) + n <= W,
         NEW w \in Nat, NEW b \in Bits
  PROVE  (w = p \div W /\ b \in Mask(p % W, n)) <=> w * W + b \in p .. p + n - 1
<1> DEFINE q == p \div W
           r == p % W
<1>1. q \in Nat /\ r \in Bits /\ p = W * q + r
  BY DivMod
<1>2. w * W = W * w /\ w * W \in Nat /\ W * q \in Nat
  BY <1>1, WAssumption
<1> HIDE DEF q, r
<1>3. ASSUME w = q, b \in r .. r + n - 1
      PROVE  w * W + b \in p .. p + n - 1
  BY <1>1, <1>2, <1>3, WAssumption DEF Bits
<1>4. ASSUME w * W + b \in p .. p + n - 1
      PROVE  w = q /\ b \in r .. r + n - 1
  <2> DEFINE i == w * W + b - p
  <2>1. i \in 0 .. n - 1 /\ W * w + b = W * q + (r + i)
    BY <1>1, <1>2, <1>4, WAssumption DEF Bits
  <2>2. r + i \in Bits
    BY <2>1, <1>1, WAssumption DEF Bits, r
  <2>3. w = q /\ b = r + i
    BY <2>1, <2>2, <1>1, DivModUnique
  <2> QED BY <2>1, <2>3, <1>1 DEF Bits
<1> QED BY <1>3, <1>4 DEF q, r, Mask

(* The top n bits of the word below u are the n LBAs below u * W: the mask *)
(* of the rollback loop.                                                   *)
LEMMA DownChunk ==
  ASSUME NEW u \in Nat \ {0}, NEW n \in 0 .. W,
         NEW w \in Nat, NEW b \in Bits
  PROVE  (w = u - 1 /\ b \in Mask(W - n, n)) <=> w * W + b \in u * W - n .. u * W - 1
<1>1. u * W = W * (u - 1) + W /\ W * (u - 1) \in Nat /\ w * W = W * w /\ W * w \in Nat
  BY WAssumption
<1>2. ASSUME w = u - 1, b \in W - n .. W - n + n - 1
      PROVE  w * W + b \in u * W - n .. u * W - 1
  BY <1>1, <1>2, WAssumption DEF Bits
<1>3. ASSUME w * W + b \in u * W - n .. u * W - 1
      PROVE  w = u - 1 /\ b \in W - n .. W - n + n - 1
  <2> DEFINE s == w * W + b - W * (u - 1)
  <2>1. s \in Bits /\ W * w + b = W * (u - 1) + s /\ s >= W - n
    BY <1>1, <1>3, WAssumption DEF Bits
  <2>2. w = u - 1 /\ b = s
    BY <2>1, DivModUnique
  <2> QED BY <2>1, <2>2, WAssumption DEF Bits
<1> QED BY <1>2, <1>3 DEF Mask

(* Cutting an interval of LBAs in two. *)
LEMMA Cut ==
  ASSUME NEW a \in Int, NEW b \in Int, NEW c \in Int, a <= b, b <= c
  PROVE  /\ a .. c - 1 = (a .. b - 1) \cup (b .. c - 1)
         /\ (a .. c - 1) \ (b .. c - 1) = a .. b - 1
         /\ (a .. c - 1) \ (a .. b - 1) = b .. c - 1
         /\ a .. b - 1 \subseteq a .. c - 1 /\ b .. c - 1 \subseteq a .. c - 1
  OBVIOUS

(* The word of a smaller LBA is not above the word of a larger one. *)
LEMMA DivMonotonic ==
  ASSUME NEW x \in Nat, NEW y \in Nat, x <= y
  PROVE  x \div W <= y \div W
<1> DEFINE a == x \div W
           b == y \div W
<1>1. a \in Nat /\ b \in Nat /\ x = W * a + (x % W) /\ y = W * b + (y % W)
      /\ x % W \in Bits /\ y % W \in Bits
  BY DivMod
<1> HIDE DEF a, b
<1>2. SUFFICES ASSUME b < a PROVE FALSE
  BY <1>1 DEF a, b
<1>3. a = b + (a - b) /\ a - b >= 1
  BY <1>1, <1>2
<1>4. W * a = W * b + W * (a - b) /\ W * (a - b) >= W /\ W * b \in Nat
  BY <1>1, <1>3, WAssumption
<1> QED BY <1>1, <1>4, WAssumption DEF Bits
-----------------------------------------------------------------------------
(* What a call owns, by the loop it is in. *)
LEMMA CallIdle ==
  ASSUME NEW r, NEW offset
  PROVE  CallLbas("idle", r, offset) = {}
  BY DEF CallLbas

LEMMA CallUp ==
  ASSUME NEW label \in {"lock", "undo"}, NEW r, NEW offset \in Int,
         NEW a \in Int, NEW b \in Int, r.slba = a, a + offset = b
  PROVE  CallLbas(label, r, offset) = a .. b - 1
  BY DEF CallLbas

LEMMA CallDown ==
  ASSUME NEW r, NEW offset \in Int, NEW a \in Int, NEW b \in Int,
         r.slba \in Int, r.nlbs \in Int, r.slba + offset = a, r.slba + r.nlbs = b
  PROVE  CallLbas("unlock", r, offset) = a .. b - 1
  BY DEF CallLbas

(* A range has at least one LBA and lies within the namespace. *)
LEMMA RangeFacts ==
  ASSUME NEW r \in Ranges
  PROVE  /\ r.slba \in Nat /\ r.nlbs \in Nat \ {0}
         /\ r.slba + r.nlbs <= NLbas
<1>1. r \in [slba : LBAs, nlbs : IoSizes] /\ r.slba + r.nlbs <= NLbas
  BY DEF Ranges
<1>2. r.slba \in LBAs /\ r.nlbs \in IoSizes
  BY <1>1
<1>3. r.nlbs \in 1 .. NLbas
  BY <1>2, IoSizesAssumption
<1> QED BY <1>1, <1>2, <1>3, NLbasAssumption DEF LBAs

(* The word at hand exists, and the bits of its mask are the next LBAs of  *)
(* the range (lock, unlock).                                               *)
LEMMA UpStep ==
  ASSUME TypeOK, LocalsOK, NEW j \in Jobs, pc[j] \in {"lock", "unlock"}
  PROVE  LET p == bio[j].slba + lba_offset[j] IN
         /\ p \in LBAs
         /\ bio[j].slba \in Nat /\ bio[j].nlbs \in Nat /\ lba_offset[j] \in Nat
         /\ bio[j].slba + bio[j].nlbs <= NLbas
         /\ Word(j) \in Words
         /\ UpMask(j) \subseteq Bits
         /\ UpLength(j) \in 1 .. W
         /\ lba_offset[j] + UpLength(j) <= bio[j].nlbs
         /\ lba_offset[j] + UpLength(j) < bio[j].nlbs =>
              /\ (p + UpLength(j)) % W = 0
              /\ (p + UpLength(j)) \div W = ulong_offset[j] + 1
         /\ \A w \in Words, b \in Bits :
              (w = Word(j) /\ b \in UpMask(j)) <=> w * W + b \in p .. p + UpLength(j) - 1
<1> DEFINE p == bio[j].slba + lba_offset[j]
           n == UpLength(j)
<1>0. /\ bio[j] \in Ranges /\ lba_offset[j] < bio[j].nlbs
      /\ ulong_offset[j] = p \div W /\ Word(j) = p \div W
      /\ lba_offset[j] \in Nat
  BY NLbasAssumption DEF TypeOK, LocalsOK, Word
<1>1. /\ bio[j].slba \in Nat /\ bio[j].nlbs \in Nat
      /\ bio[j].slba + bio[j].nlbs <= NLbas
  BY <1>0, RangeFacts
<1>2. p \in Nat /\ p \in LBAs
  BY <1>0, <1>1, NLbasAssumption DEF LBAs
<1>3. p % W \in Bits /\ p \div W \in Nat /\ p = W * (p \div W) + (p % W)
  BY <1>2, DivMod
<1>4. Word(j) \in Words
  BY <1>0, <1>2, <1>3, NLbasAssumption, DivMod, DivMonotonic DEF Words, LBAs
<1>5. /\ n \in 1 .. W /\ (p % W) + n <= W
      /\ lba_offset[j] + n <= bio[j].nlbs
      /\ lba_offset[j] + n < bio[j].nlbs => n = W - (p % W)
  <2> DEFINE o == p % W
             m == bio[j].nlbs - lba_offset[j]
  <2>1. o \in 0 .. W - 1 /\ m \in Nat \ {0} /\ n = MinOf(W - o, m)
    BY <1>0, <1>1, <1>3 DEF UpLength, UpOffset, Bits
  <2> HIDE DEF o
  <2>2. n \in 1 .. W /\ o + n <= W /\ n <= m /\ (n < m => n = W - o)
    BY <2>1, WAssumption DEF MinOf
  <2> QED BY <2>2, <1>0, <1>1 DEF o
<1>6. UpMask(j) = Mask(p % W, n) /\ UpMask(j) \subseteq Bits
  BY <1>3, <1>5, WAssumption DEF UpMask, UpOffset, Mask, Bits
<1>7. ASSUME lba_offset[j] + n < bio[j].nlbs
      PROVE  (p + n) % W = 0 /\ (p + n) \div W = ulong_offset[j] + 1
  <2> DEFINE q == p \div W
  <2>1. q \in Nat /\ p + n = W * q + W /\ p + n \in Nat
    <3> DEFINE o == p % W
    <3>1. q \in Nat /\ o \in Bits /\ p = W * q + o
      BY <1>3
    <3>2. n = W - o
      BY <1>5, <1>7
    <3> HIDE DEF o, p, n, q
    <3>3. W * q \in Nat
      BY <3>1, WAssumption
    <3> QED BY <3>1, <3>2, <3>3, WAssumption DEF Bits
  <2> HIDE DEF q
  <2>2. p + n = W * (q + 1) + 0 /\ 0 \in Bits /\ q + 1 \in Nat
    BY <2>1, WAssumption DEF Bits
  <2>3. q + 1 = (p + n) \div W /\ 0 = (p + n) % W
    <3>1. /\ (p + n) \div W \in Nat /\ (p + n) % W \in Bits
          /\ p + n = W * ((p + n) \div W) + ((p + n) % W)
      BY <2>1, DivMod
    <3> QED BY <3>1, <2>2, DivModUnique
  <2> QED BY <2>3, <1>0 DEF q
<1>8. ASSUME NEW w \in Words, NEW b \in Bits
      PROVE  (w = Word(j) /\ b \in UpMask(j)) <=> w * W + b \in p .. p + n - 1
  BY <1>0, <1>2, <1>5, <1>6, UpChunk DEF Words
<1> QED BY <1>0, <1>1, <1>2, <1>4, <1>5, <1>6, <1>7, <1>8

(* The same for the rollback loop: the bits are the last LBAs it owns. *)
LEMMA DownStep ==
  ASSUME TypeOK, LocalsOK, NEW j \in Jobs, pc[j] = "undo"
  PROVE  LET p == bio[j].slba + lba_offset[j] IN
         /\ bio[j].slba \in Nat /\ bio[j].nlbs \in Nat /\ lba_offset[j] \in Nat
         /\ bio[j].slba + bio[j].nlbs <= NLbas /\ lba_offset[j] < bio[j].nlbs
         /\ Word(j) \in Words /\ ulong_offset[j] \in Nat \ {0}
         /\ DownMask(j) \subseteq Bits
         /\ DownLength(j) \in 1 .. W /\ DownLength(j) <= lba_offset[j]
         /\ DownLength(j) < lba_offset[j] =>
              (ulong_offset[j] - 1) * W = p - DownLength(j)
         /\ \A w \in Words, b \in Bits :
              (w = Word(j) /\ b \in DownMask(j)) <=> w * W + b \in p - DownLength(j) .. p - 1
<1> DEFINE p == bio[j].slba + lba_offset[j]
           n == DownLength(j)
           u == ulong_offset[j]
<1>0. /\ bio[j] \in Ranges /\ lba_offset[j] \in Nat /\ u \in Nat
      /\ 0 < lba_offset[j] /\ lba_offset[j] < bio[j].nlbs
      /\ Word(j) = u - 1 /\ u * W = p
  BY NLbasAssumption DEF TypeOK, LocalsOK, Word
<1>1. /\ bio[j].slba \in Nat /\ bio[j].nlbs \in Nat /\ lba_offset[j] \in Nat
      /\ bio[j].slba + bio[j].nlbs <= NLbas
      /\ 0 < lba_offset[j] /\ lba_offset[j] < bio[j].nlbs
      /\ Word(j) = u - 1 /\ u \in Nat /\ u * W = p
  BY <1>0, RangeFacts
<1>2. /\ n \in 1 .. W /\ n <= lba_offset[j] /\ (n < lba_offset[j] => n = W)
      /\ DownMask(j) = Mask(W - n, n) /\ DownMask(j) \subseteq Bits
  BY <1>1, WAssumption DEF DownLength, DownMask, MinOf, Mask, Bits
<1>3. u # 0
  BY <1>1, WAssumption
<1>4. Word(j) \in Words
  <2>1. p \in Nat /\ NLbas - 1 \in Nat /\ p <= NLbas - 1
    BY <1>1, NLbasAssumption
  <2>2. u = p \div W
    <3>1. W * u + 0 = W * (p \div W) + (p % W) /\ p \div W \in Nat /\ p % W \in Bits
      BY <1>1, <2>1, DivMod, WAssumption
    <3> QED BY <3>1, <1>1, DivModUnique, WAssumption DEF Bits
  <2> QED BY <1>1, <1>3, <2>1, <2>2, DivMod, DivMonotonic DEF Words
<1>5. n < lba_offset[j] => (u - 1) * W = p - n
  BY <1>1, <1>2, WAssumption
<1>6. ASSUME NEW w \in Words, NEW b \in Bits
      PROVE  (w = Word(j) /\ b \in DownMask(j)) <=> w * W + b \in p - n .. p - 1
  <2> HIDE DEF u, n, p
  <2>1. w \in Nat /\ u \in Nat \ {0} /\ n \in 0 .. W
    BY <1>1, <1>2, <1>3, WAssumption DEF Words
  <2>2. (w = u - 1 /\ b \in Mask(W - n, n)) <=> w * W + b \in u * W - n .. u * W - 1
    BY <2>1, DownChunk
  <2> QED BY <2>2, <1>1, <1>2
<1> QED BY <1>1, <1>2, <1>3, <1>4, <1>5, <1>6
-----------------------------------------------------------------------------
(* A CAS that succeeds computed its value from the word it replaces. *)
LEMMA LoadedWord ==
  ASSUME NEW j \in Jobs, NEW v, CasStore(j, v)
  PROVE  Loaded(j) = lba_lock[Word(j)]
  BY DEF CasStore, Loaded

(* Each action keeps the variables in their types. *)
LEMMA TypeStep ==
  ASSUME TypeOK, LocalsOK, NEW j \in Jobs,
         \/ \E r \in Ranges : TryLock(j, r) \/ Unlock(j, r)
         \/ Load(j) \/ Conflict(j) \/ CasFail(j)
         \/ LockWord(j) \/ UndoWord(j) \/ UnlockWord(j)
  PROVE  TypeOK'
<1>1. ASSUME NEW r \in Ranges, TryLock(j, r) \/ Unlock(j, r)
      PROVE  TypeOK'
  <2>1. r.slba \div W \in Nat
    BY RangeFacts, DivMod
  <2>2. 0 \in 0 .. NLbas
    BY NLbasAssumption
  <2> QED BY <1>1, <2>1, <2>2 DEF TypeOK, TryLock, Unlock, Call
<1>2. ASSUME Load(j)
      PROVE  TypeOK'
  <2>1. Word(j) \in Words
    BY <1>2, UpStep, DownStep DEF Load
  <2> QED BY <1>2, <2>1 DEF TypeOK, Load
<1>3. ASSUME Conflict(j) \/ CasFail(j)
      PROVE  TypeOK'
  BY <1>3 DEF TypeOK, Conflict, CasFail
<1>4. ASSUME LockWord(j) \/ UnlockWord(j)
      PROVE  TypeOK'
  <2>1. /\ Word(j) \in Words /\ UpMask(j) \subseteq Bits
        /\ lba_offset[j] + UpLength(j) \in 0 .. NLbas
        /\ ulong_offset[j] + 1 \in Nat
        /\ bio[j] \in Ranges
    BY <1>4, UpStep, NLbasAssumption DEF LockWord, UnlockWord, TypeOK, LocalsOK
  <2>2. lba_lock' \in [Words -> SUBSET Bits] /\ seen' \in [Jobs -> SUBSET SUBSET Bits]
    BY <1>4, <2>1, LoadedWord DEF LockWord, UnlockWord, CasStore, TypeOK
  <2>3. /\ held' \in [Jobs -> SUBSET Ranges]
        /\ pc' \in [Jobs -> {"idle", "lock", "undo", "unlock"}]
        /\ bio' \in [Jobs -> Ranges \cup {NoBio}]
    BY <1>4, <2>1 DEF LockWord, UnlockWord, TypeOK
  <2>4. /\ lba_offset' \in [Jobs -> 0 .. NLbas]
        /\ ulong_offset' \in [Jobs -> Nat]
    BY <1>4, <2>1 DEF LockWord, UnlockWord, TypeOK
  <2> QED BY <2>2, <2>3, <2>4 DEF TypeOK
<1>5. ASSUME UndoWord(j)
      PROVE  TypeOK'
  <2>1. /\ Word(j) \in Words
        /\ lba_offset[j] - DownLength(j) \in 0 .. NLbas
        /\ ulong_offset[j] - 1 \in Nat
    BY <1>5, DownStep, NLbasAssumption, WAssumption DEF UndoWord
  <2> QED BY <1>5, <2>1, LoadedWord DEF TypeOK, UndoWord, CasStore
<1> QED BY <1>1, <1>2, <1>3, <1>4, <1>5

(* A step of job j leaves what the other jobs own alone. *)
LEMMA Frame ==
  ASSUME NEW k \in Jobs,
         held'[k] = held[k], pc'[k] = pc[k],
         bio'[k] = bio[k], lba_offset'[k] = lba_offset[k]
  PROVE  /\ HeldLbas(k)' = HeldLbas(k)
         /\ Partial(k)' = Partial(k)
         /\ Owned(k)' = Owned(k)
  BY DEF HeldLbas, Partial, Owned

(* LBAs of a job that are in one of its held ranges. *)
LEMMA HeldMember ==
  ASSUME NEW k \in Jobs, NEW l
  PROVE  l \in HeldLbas(k) <=> \E r \in held[k] : l \in Span(r)
  BY DEF HeldLbas

(* LocalsOK is about one job at a time; a job's part of it reads only its  *)
(* own locals.                                                             *)
LEMMA LocalsStep ==
  ASSUME TypeOK, LocalsOK, TypeOK', NEW j \in Jobs,
         \/ \E r \in Ranges : TryLock(j, r) \/ Unlock(j, r)
         \/ Load(j) \/ Conflict(j) \/ CasFail(j)
         \/ LockWord(j) \/ UndoWord(j) \/ UnlockWord(j)
  PROVE  LocalsOK'
<1> DEFINE L(k) ==
      LET p == bio[k].slba + lba_offset[k] IN
      /\ pc[k] \in {"lock", "unlock"} =>
           /\ bio[k] \in Ranges /\ lba_offset[k] < bio[k].nlbs
           /\ ulong_offset[k] = p \div W
           /\ lba_offset[k] = 0 \/ p % W = 0
      /\ pc[k] = "undo" =>
           /\ bio[k] \in Ranges
           /\ 0 < lba_offset[k] /\ lba_offset[k] < bio[k].nlbs
           /\ ulong_offset[k] * W = p
      /\ pc[k] = "lock" => \A v \in seen[k] : v \cap UpMask(k) = {}
      /\ pc[k] = "idle" => seen[k] = {}
<1>1. \A k \in Jobs : L(k)
  BY DEF LocalsOK
<1>2. ASSUME NEW k \in Jobs, k # j
      PROVE  L(k)'
  <2>1. /\ pc'[k] = pc[k] /\ bio'[k] = bio[k] /\ seen'[k] = seen[k]
        /\ lba_offset'[k] = lba_offset[k] /\ ulong_offset'[k] = ulong_offset[k]
    BY <1>2 DEF TypeOK, TryLock, Unlock, Call, Load, Conflict, CasFail,
                LockWord, UndoWord, UnlockWord, CasStore
  <2> QED BY <2>1, <1>1 DEF UpMask, UpLength, UpOffset
<1>3. L(j)'
  <2>1. ASSUME NEW r \in Ranges, TryLock(j, r) \/ Unlock(j, r)
        PROVE  L(j)'
    <3>1. /\ bio'[j] = r /\ lba_offset'[j] = 0 /\ ulong_offset'[j] = r.slba \div W
          /\ pc'[j] \in {"lock", "unlock"} /\ seen'[j] = {}
      BY <2>1, <1>1 DEF TypeOK, TryLock, Unlock, Call
    <3> QED BY <3>1, RangeFacts
  <2>2. ASSUME Load(j)
        PROVE  L(j)'
    BY <2>2, <1>1 DEF TypeOK, Load, UpMask, UpLength, UpOffset
  <2>3. ASSUME Conflict(j)
        PROVE  L(j)'
    <3>1. /\ bio'[j] = bio[j] /\ lba_offset'[j] = lba_offset[j]
          /\ ulong_offset'[j] = ulong_offset[j] /\ seen'[j] = {}
          /\ pc'[j] = IF lba_offset[j] = 0 THEN "idle" ELSE "undo"
      BY <2>3 DEF TypeOK, Conflict
    <3> DEFINE p == bio[j].slba + lba_offset[j]
    <3>2. /\ p \in Nat /\ bio[j] \in Ranges /\ lba_offset[j] \in Nat
          /\ lba_offset[j] < bio[j].nlbs /\ ulong_offset[j] = p \div W
          /\ lba_offset[j] # 0 => p % W = 0
      BY <2>3, <1>1, UpStep DEF Conflict, LBAs
    <3>3. lba_offset[j] # 0 => ulong_offset[j] * W = p
      <4> HIDE DEF p
      <4>1. p = W * (p \div W) + (p % W) /\ p \div W \in Nat
        BY <3>2, DivMod
      <4> QED BY <4>1, <3>2, WAssumption
    <3> QED BY <3>1, <3>2, <3>3
  <2>4. ASSUME CasFail(j)
        PROVE  L(j)'
    BY <2>4, <1>1 DEF TypeOK, CasFail, UpMask, UpLength, UpOffset
  <2>5. ASSUME LockWord(j) \/ UnlockWord(j)
        PROVE  L(j)'
    <3> DEFINE n == UpLength(j)
               p == bio[j].slba + lba_offset[j]
    <3>1. /\ bio'[j] = bio[j] /\ lba_offset'[j] = lba_offset[j] + n
          /\ ulong_offset'[j] = ulong_offset[j] + 1 /\ seen'[j] = {}
          /\ pc'[j] \in {"idle", "lock", "unlock"}
          /\ pc'[j] # "idle" => lba_offset[j] + n < bio[j].nlbs
      BY <2>5 DEF TypeOK, LockWord, UnlockWord, CasStore
    <3>2. /\ bio[j] \in Ranges
          /\ bio[j].slba \in Nat /\ lba_offset[j] \in Nat /\ n \in Nat
          /\ lba_offset[j] + n < bio[j].nlbs =>
               (p + n) % W = 0 /\ (p + n) \div W = ulong_offset[j] + 1
      BY <2>5, <1>1, UpStep, WAssumption DEF LockWord, UnlockWord
    <3>3. bio[j].slba + (lba_offset[j] + n) = p + n
      BY <3>2
    <3> HIDE DEF n
    <3> QED BY <3>1, <3>2, <3>3
  <2>6. ASSUME UndoWord(j)
        PROVE  L(j)'
    <3> DEFINE n == DownLength(j)
               p == bio[j].slba + lba_offset[j]
    <3>1. /\ bio'[j] = bio[j] /\ lba_offset'[j] = lba_offset[j] - n
          /\ ulong_offset'[j] = ulong_offset[j] - 1 /\ seen'[j] = {}
          /\ pc'[j] \in {"idle", "undo"}
          /\ pc'[j] # "idle" => lba_offset[j] - n # 0
      BY <2>6 DEF TypeOK, UndoWord, CasStore
    <3>2. /\ bio[j] \in Ranges /\ lba_offset[j] < bio[j].nlbs
          /\ bio[j].slba \in Nat /\ bio[j].nlbs \in Nat /\ lba_offset[j] \in Nat
          /\ n \in Nat /\ n <= lba_offset[j]
          /\ n < lba_offset[j] => (ulong_offset[j] - 1) * W = p - n
      BY <2>6, <1>1, DownStep, WAssumption DEF UndoWord
    <3>3. bio[j].slba + (lba_offset[j] - n) = p - n
      BY <3>2
    <3> HIDE DEF n
    <3> QED BY <3>1, <3>2, <3>3
  <2> QED BY <2>1, <2>2, <2>3, <2>4, <2>5, <2>6
<1> QED BY <1>2, <1>3 DEF LocalsOK
-----------------------------------------------------------------------------
(* Steps that neither set nor clear a bit keep what every job owns.        *)
LEMMA QuietStep ==
  ASSUME LockInv, TypeOK', NEW j \in Jobs,
         \/ \E r \in Ranges : TryLock(j, r) \/ Unlock(j, r)
         \/ Load(j) \/ Conflict(j) \/ CasFail(j)
  PROVE  Exclusive' /\ BitmapExact'
<1> USE DEF LockInv
<1>1. ASSUME held' = held, Partial(j)' = Partial(j), lba_lock' = lba_lock,
             \A k \in Jobs : k # j => Partial(k)' = Partial(k)
      PROVE  Exclusive' /\ BitmapExact'
  <2>1. \A k \in Jobs : Partial(k)' = Partial(k) /\ HeldLbas(k)' = HeldLbas(k)
    BY <1>1 DEF HeldLbas
  <2>2. \A k \in Jobs : Owned(k)' = Owned(k)
    BY <2>1 DEF Owned
  <2> QED BY <1>1, <2>1, <2>2 DEF Exclusive, NoSharedLba, BitmapExact
<1>2. \A k \in Jobs : k # j => /\ Partial(k)' = Partial(k) /\ held'[k] = held[k]
                              /\ HeldLbas(k)' = HeldLbas(k) /\ Owned(k)' = Owned(k)
  <2>1. ASSUME NEW k \in Jobs, k # j
        PROVE  /\ held'[k] = held[k] /\ pc'[k] = pc[k]
               /\ bio'[k] = bio[k] /\ lba_offset'[k] = lba_offset[k]
    BY <2>1 DEF TypeOK, TryLock, Unlock, Call, Load, Conflict, CasFail
  <2> QED BY <2>1, Frame
<1>3. ASSUME NEW r \in Ranges, TryLock(j, r)
      PROVE  Exclusive' /\ BitmapExact'
  <2>1. pc[j] = "idle" /\ pc'[j] = "lock" /\ bio'[j] = r /\ lba_offset'[j] = 0
    BY <1>3 DEF TryLock, Call, TypeOK
  <2>2. Partial(j) = {}
    BY <2>1, CallIdle DEF Partial
  <2>3. Partial(j)' = {}
    <3>1. r.slba \in Int /\ r.slba + 0 = r.slba
      BY RangeFacts
    <3>2. CallLbas("lock", r, 0) = r.slba .. r.slba - 1
      BY <3>1, CallUp
    <3> QED BY <2>1, <3>1, <3>2 DEF Partial
  <2> QED BY <1>1, <1>2, <1>3, <2>2, <2>3 DEF TryLock, Call
<1>4. ASSUME NEW r \in Ranges, Unlock(j, r)
      PROVE  Exclusive' /\ BitmapExact'
  <2>1. /\ pc[j] = "idle" /\ pc'[j] = "unlock" /\ bio'[j] = r /\ lba_offset'[j] = 0
        /\ r \in held[j] /\ held'[j] = held[j] \ {r} /\ lba_lock' = lba_lock
    BY <1>4 DEF Unlock, Call, TypeOK
  <2>2. Partial(j) = {}
    BY <2>1, CallIdle DEF Partial
  <2>3. Partial(j)' = Span(r)
    <3>1. r.slba \in Int /\ r.nlbs \in Int /\ r.slba + 0 = r.slba
      BY RangeFacts
    <3>2. CallLbas("unlock", r, 0) = r.slba .. r.slba + r.nlbs - 1
      BY <3>1, CallDown
    <3> QED BY <2>1, <3>2 DEF Partial, Span
  <2>4. \A k \in Jobs : held'[k] \subseteq held[k]
    BY <2>1, <1>2
  <2>5. HeldLbas(j) = HeldLbas(j)' \cup Span(r) /\ HeldLbas(j)' \cap Span(r) = {}
    BY <2>1 DEF HeldLbas, Exclusive, NoSharedLba
  <2>6. \A k \in Jobs : Owned(k)' = Owned(k)
    BY <1>2, <2>2, <2>3, <2>5 DEF Owned
  <2>7. NoSharedLba'
    BY <2>4 DEF Exclusive, NoSharedLba
  <2>8. \A k \in Jobs : (Partial(k) \cap HeldLbas(k))' = {}
    BY <1>2, <2>3, <2>5 DEF Exclusive
  <2> QED BY <2>1, <2>6, <2>7, <2>8 DEF Exclusive, BitmapExact
<1>5. ASSUME Load(j) \/ CasFail(j)
      PROVE  Exclusive' /\ BitmapExact'
  BY <1>5, <1>1, <1>2 DEF Load, CasFail, Partial
<1>6. ASSUME Conflict(j)
      PROVE  Exclusive' /\ BitmapExact'
  <2>1. /\ pc[j] = "lock" /\ bio'[j] = bio[j] /\ lba_offset'[j] = lba_offset[j]
        /\ pc'[j] = IF lba_offset[j] = 0 THEN "idle" ELSE "undo"
    BY <1>6 DEF Conflict, TypeOK
  <2>2. bio[j].slba \in Int /\ lba_offset[j] \in Int
    BY <2>1, UpStep
  <2>3. Partial(j)' = Partial(j)
    <3> DEFINE a == bio[j].slba
               b == a + lba_offset[j]
    <3>1. Partial(j) = a .. b - 1
      BY <2>1, <2>2, CallUp DEF Partial
    <3>2. CASE lba_offset[j] = 0
      <4>1. Partial(j)' = {}
        BY <2>1, <3>2, CallIdle DEF Partial
      <4>2. a \in Int /\ b = a
        BY <2>2, <3>2
      <4> HIDE DEF a, b
      <4> QED BY <3>1, <4>1, <4>2
    <3>3. CASE lba_offset[j] # 0
      BY <2>1, <2>2, <3>1, <3>3, CallUp DEF Partial
    <3> QED BY <3>2, <3>3
  <2> QED BY <1>1, <1>2, <1>6, <2>3 DEF Conflict
<1> QED BY <1>3, <1>4, <1>5, <1>6

(* A step that clears the bits of the LBAs C of the call of job j, and     *)
(* those bits only, keeps the bitmap exact: nobody else owned them.        *)
LEMMA ClearStep ==
  ASSUME LockInv, NEW j \in Jobs, NEW C,
         C \subseteq Partial(j),
         Partial(j)' = Partial(j) \ C,
         held' = held,
         \A k \in Jobs : k # j => Owned(k)' = Owned(k) /\ Partial(k)' = Partial(k),
         \A w \in Words, b \in Bits :
           b \in lba_lock'[w] <=> b \in lba_lock[w] /\ w * W + b \notin C
  PROVE  Exclusive' /\ BitmapExact'
<1> USE DEF LockInv
<1>1. \A k \in Jobs : HeldLbas(k)' = HeldLbas(k)
  BY DEF HeldLbas
<1>2. Owned(j)' = Owned(j) \ C
  BY <1>1 DEF Owned, Exclusive
<1>3. \A k \in Jobs : k # j => Owned(k) \cap C = {}
  BY DEF Owned, Exclusive
<1>4. Exclusive'
  BY <1>1, <1>2 DEF Exclusive, NoSharedLba
<1>5. BitmapExact'
  BY <1>2, <1>3 DEF BitmapExact
<1> QED BY <1>4, <1>5

(* The words that are set, and cleared, by the three loops. *)
LEMMA WordStep ==
  ASSUME LockInv, TypeOK', NEW j \in Jobs,
         LockWord(j) \/ UndoWord(j) \/ UnlockWord(j)
  PROVE  Exclusive' /\ BitmapExact'
<1> USE DEF LockInv
<1> DEFINE s == bio[j].slba
           p == s + lba_offset[j]
           m == UpLength(j)
           q == p + m
           e == s + bio[j].nlbs
<1>1. \A k \in Jobs : k # j => /\ Partial(k)' = Partial(k) /\ held'[k] = held[k]
                              /\ HeldLbas(k)' = HeldLbas(k) /\ Owned(k)' = Owned(k)
  <2>1. ASSUME NEW k \in Jobs, k # j
        PROVE  /\ held'[k] = held[k] /\ pc'[k] = pc[k]
               /\ bio'[k] = bio[k] /\ lba_offset'[k] = lba_offset[k]
    BY <2>1 DEF TypeOK, LockWord, UndoWord, UnlockWord
  <2> QED BY <2>1, Frame
<1>2. ASSUME UndoWord(j)
      PROVE  Exclusive' /\ BitmapExact'
  <2> DEFINE n == DownLength(j)
             C == p - n .. p - 1
  <2>1. /\ pc[j] = "undo" /\ held' = held /\ bio'[j] = bio[j]
        /\ lba_offset'[j] = lba_offset[j] - n
        /\ pc'[j] = IF lba_offset[j] - n = 0 THEN "idle" ELSE "undo"
        /\ lba_lock' = [lba_lock EXCEPT ![Word(j)] = lba_lock[Word(j)] \ DownMask(j)]
    BY <1>2, LoadedWord DEF UndoWord, CasStore, TypeOK
  <2>2. /\ s \in Nat /\ lba_offset[j] \in Nat /\ n \in Nat /\ n <= lba_offset[j]
        /\ p \in Nat
    BY <2>1, DownStep, WAssumption
  <2>2a. /\ Word(j) \in Words
        /\ \A w \in Words, b \in Bits :
             (w = Word(j) /\ b \in DownMask(j)) <=> w * W + b \in C
    BY <2>1, DownStep, WAssumption
  <2>3. Partial(j) = s .. p - 1
    BY <2>1, <2>2, CallUp DEF Partial
  <2>4. Partial(j)' = s .. (p - n) - 1
    <3>1. s + (lba_offset[j] - n) = p - n
      BY <2>2
    <3>2. CASE lba_offset[j] - n = 0
      <4>1. Partial(j)' = {} /\ p - n = s
        BY <2>1, <2>2, <3>1, <3>2, CallIdle DEF Partial
      <4> HIDE DEF p, n, s
      <4> QED BY <4>1, <2>2
    <3>3. CASE lba_offset[j] - n # 0
      BY <2>1, <2>2, <3>1, <3>3, CallUp DEF Partial
    <3> QED BY <3>2, <3>3
  <2>5. C \subseteq Partial(j) /\ Partial(j)' = Partial(j) \ C
    <3>1. s <= p - n /\ p - n <= p /\ s \in Int /\ p \in Int /\ p - n \in Int
      BY <2>2
    <3> HIDE DEF n, p, s
    <3> QED BY <2>3, <2>4, <3>1, Cut
  <2>6. \A w \in Words, b \in Bits :
          b \in lba_lock'[w] <=> b \in lba_lock[w] /\ w * W + b \notin C
    <3> HIDE DEF C
    <3> QED BY <2>1, <2>2a DEF TypeOK
  <2> HIDE DEF C
  <2> QED BY <2>1, <2>5, <2>6, <1>1, ClearStep
<1>3. ASSUME UnlockWord(j)
      PROVE  Exclusive' /\ BitmapExact'
  <2> DEFINE C == p .. q - 1
  <2>1. /\ pc[j] = "unlock" /\ held' = held /\ bio'[j] = bio[j]
        /\ lba_offset'[j] = lba_offset[j] + m
        /\ pc'[j] = IF lba_offset[j] + m < bio[j].nlbs THEN "unlock" ELSE "idle"
        /\ lba_lock' = [lba_lock EXCEPT ![Word(j)] = lba_lock[Word(j)] \ UpMask(j)]
    BY <1>3, LoadedWord DEF UnlockWord, CasStore, TypeOK
  <2>2. /\ s \in Nat /\ bio[j].nlbs \in Nat /\ lba_offset[j] \in Nat /\ m \in Nat
        /\ p \in Nat /\ q \in Nat /\ e \in Nat /\ p <= q /\ q <= e
    BY <2>1, UpStep, WAssumption
  <2>2a. /\ Word(j) \in Words
        /\ \A w \in Words, b \in Bits :
             (w = Word(j) /\ b \in UpMask(j)) <=> w * W + b \in C
    BY <2>1, UpStep, WAssumption
  <2>3. Partial(j) = p .. e - 1
    BY <2>1, <2>2, CallDown DEF Partial
  <2>4. Partial(j)' = q .. e - 1
    <3>1. s + (lba_offset[j] + m) = q /\ (lba_offset[j] + m < bio[j].nlbs <=> q < e)
      BY <2>2
    <3>2. CASE q < e
      <4>1. pc'[j] = "unlock"
        BY <2>1, <3>1, <3>2
      <4> HIDE DEF q, e
      <4> QED BY <2>1, <2>2, <3>1, <4>1, CallDown DEF Partial, e
    <3>3. CASE ~(q < e)
      <4>1. Partial(j)' = {}
        BY <2>1, <3>1, <3>3, CallIdle DEF Partial
      <4> HIDE DEF q, e
      <4> QED BY <2>2, <3>3, <4>1
    <3> QED BY <3>2, <3>3
  <2>5. C \subseteq Partial(j) /\ Partial(j)' = Partial(j) \ C
    <3> HIDE DEF p, q, e
    <3>1. /\ (p .. e - 1) \ (p .. q - 1) = q .. e - 1
          /\ p .. q - 1 \subseteq p .. e - 1
      BY <2>2, Cut
    <3> QED BY <2>3, <2>4, <3>1
  <2>6. \A w \in Words, b \in Bits :
          b \in lba_lock'[w] <=> b \in lba_lock[w] /\ w * W + b \notin C
    <3> HIDE DEF C
    <3> QED BY <2>1, <2>2a DEF TypeOK
  <2> HIDE DEF C
  <2> QED BY <2>1, <2>5, <2>6, <1>1, ClearStep
<1>4. ASSUME LockWord(j)
      PROVE  Exclusive' /\ BitmapExact'
  <2> DEFINE C == p .. q - 1
  <2>1. /\ pc[j] = "lock" /\ bio'[j] = bio[j]
        /\ lba_offset'[j] = lba_offset[j] + m
        /\ seen[j] = {lba_lock[Word(j)]}
        /\ lba_lock' = [lba_lock EXCEPT ![Word(j)] = lba_lock[Word(j)] \cup UpMask(j)]
        /\ \/ lba_offset[j] + m < bio[j].nlbs /\ pc'[j] = "lock" /\ held' = held
           \/ /\ ~(lba_offset[j] + m < bio[j].nlbs) /\ pc'[j] = "idle"
              /\ held'[j] = held[j] \cup {bio[j]}
    BY <1>4, LoadedWord DEF LockWord, CasStore, TypeOK
  <2>2. /\ s \in Nat /\ bio[j].nlbs \in Nat /\ lba_offset[j] \in Nat /\ m \in Nat
        /\ p \in Nat /\ q \in Nat /\ e \in Nat /\ s <= p /\ p <= q /\ q <= e
        /\ e <= NLbas
    BY <2>1, UpStep, WAssumption
  <2>2a. /\ Word(j) \in Words
        /\ \A w \in Words, b \in Bits :
             (w = Word(j) /\ b \in UpMask(j)) <=> w * W + b \in C
    BY <2>1, UpStep, WAssumption
  <2>3. lba_lock[Word(j)] \cap UpMask(j) = {}
    BY <2>1 DEF LocalsOK
  (* the LBAs taken by this word belonged to nobody *)
  <2>4. \A k \in Jobs : Owned(k) \cap C = {}
    <3> SUFFICES ASSUME NEW k \in Jobs, NEW l \in C, l \in Owned(k)
                 PROVE  FALSE
      OBVIOUS
    <3>1. l \in Nat /\ l <= NLbas - 1
      <4> HIDE DEF p, q, e
      <4> QED BY <2>2, NLbasAssumption
    <3>2. l \div W \in Words /\ l % W \in Bits /\ l = (l \div W) * W + (l % W)
      <4> HIDE DEF C
      <4>1. l \div W \in Nat /\ l % W \in Bits /\ l = W * (l \div W) + (l % W)
        BY <3>1, DivMod
      <4>2. (NLbas - 1) \div W \in Nat /\ l \div W <= (NLbas - 1) \div W
        BY <3>1, DivMod, DivMonotonic, NLbasAssumption
      <4> QED BY <4>1, <4>2, WAssumption DEF Words
    <3>3. l \div W = Word(j) /\ l % W \in UpMask(j)
      BY <2>2a, <3>2
    <3>4. l % W \in lba_lock[l \div W]
      BY <3>2 DEF BitmapExact
    <3> QED BY <3>3, <3>4, <2>3
  <2>5. Partial(j) = s .. p - 1
    BY <2>1, <2>2, CallUp DEF Partial
  <2>6. /\ Owned(j)' = Owned(j) \cup C
        /\ NoSharedLba' /\ Partial(j)' \cap HeldLbas(j)' = {}
    <3>1. CASE lba_offset[j] + m < bio[j].nlbs
      <4>1. Partial(j)' = s .. q - 1
        <5>1. s + (lba_offset[j] + m) = q
          BY <2>2
        <5> DEFINE o == lba_offset[j] + m
        <5>2. o \in Int /\ Partial(j)' = CallLbas("lock", bio[j], o)
          BY <2>1, <2>2, <3>1 DEF Partial
        <5>3. s \in Int /\ q \in Int /\ bio[j].slba = s /\ s + o = q
          BY <2>2, <5>1
        <5> HIDE DEF o, q, s
        <5>4. CallLbas("lock", bio[j], o) = s .. q - 1
          BY <5>2, <5>3, CallUp
        <5> QED BY <5>2, <5>4
      <4>2. Partial(j)' = Partial(j) \cup C
        <5> HIDE DEF p, q, s
        <5>1. s .. q - 1 = (s .. p - 1) \cup (p .. q - 1)
          BY <2>2, Cut
        <5> QED BY <2>5, <4>1, <5>1
      <4>3. held' = held /\ HeldLbas(j)' = HeldLbas(j)
        BY <2>1, <3>1 DEF HeldLbas
      <4> HIDE DEF C
      <4> QED BY <4>2, <4>3, <2>4 DEF Owned, Exclusive, NoSharedLba
    <3>2. CASE ~(lba_offset[j] + m < bio[j].nlbs)
      <4>1. Partial(j)' = {}
        BY <2>1, <3>2, CallIdle DEF Partial
      <4>2. Span(bio[j]) = Partial(j) \cup C
        <5>1. e = q
          BY <2>2, <3>2
        <5>2. Span(bio[j]) = s .. e - 1
          BY <2>2 DEF Span
        <5> HIDE DEF p, q, e, s
        <5>3. s .. q - 1 = (s .. p - 1) \cup (p .. q - 1)
          BY <2>2, Cut
        <5> QED BY <2>5, <5>1, <5>2, <5>3
      <4>3. held'[j] = held[j] \cup {bio[j]}
        BY <2>1, <3>2
      <4>4. HeldLbas(j)' = HeldLbas(j) \cup Span(bio[j])
        BY <4>3 DEF HeldLbas
      <4>5. \A k \in Jobs : HeldLbas(k) \cap Span(bio[j]) = {}
        <5> HIDE DEF C
        <5> QED BY <4>2, <2>4 DEF Owned, Exclusive
      <4>6. NoSharedLba'
        BY <1>1, <4>3, <4>5, HeldMember DEF NoSharedLba, Exclusive
      <4> HIDE DEF C
      <4> QED BY <4>1, <4>2, <4>4, <4>6 DEF Owned
    <3> QED BY <3>1, <3>2
  <2> HIDE DEF C
  <2>7. Exclusive'
    BY <1>1, <2>4, <2>6 DEF Exclusive
  <2>8. \A w \in Words, b \in Bits :
          b \in lba_lock'[w] <=> b \in lba_lock[w] \/ w * W + b \in C
    BY <2>1, <2>2a DEF TypeOK
  <2>9. BitmapExact'
    BY <1>1, <2>6, <2>8 DEF BitmapExact
  <2> QED BY <2>7, <2>9
<1> QED BY <1>2, <1>3, <1>4
-----------------------------------------------------------------------------
(* The bitmap, the held ranges and the half-done calls of try_lock_lbas    *)
(* and unlock_lbas always agree: LockInv is inductive.                     *)
THEOREM LockInvariant == Spec => []LockInv
<1>1. Init => LockInv
  <2> SUFFICES ASSUME Init PROVE LockInv
    OBVIOUS
  <2>1. TypeOK
    BY NLbasAssumption DEF Init, TypeOK
  <2>2. \A j \in Jobs : HeldLbas(j) = {} /\ Partial(j) = {}
    BY CallIdle DEF Init, HeldLbas, Partial
  <2>3. \A j \in Jobs : Owned(j) = {}
    BY <2>2 DEF Owned
  <2>4. LocalsOK
    BY DEF Init, LocalsOK
  <2>5. Exclusive /\ BitmapExact
    BY <2>2, <2>3 DEF Init, Exclusive, NoSharedLba, BitmapExact
  <2> QED BY <2>1, <2>4, <2>5 DEF LockInv
<1>2. LockInv /\ [Next]_vars => LockInv'
  <2> SUFFICES ASSUME LockInv, [Next]_vars PROVE LockInv'
    OBVIOUS
  <2>1. ASSUME NEW j \in Jobs,
               \/ \E r \in Ranges : TryLock(j, r) \/ Unlock(j, r)
               \/ Load(j) \/ Conflict(j) \/ CasFail(j)
               \/ LockWord(j) \/ UndoWord(j) \/ UnlockWord(j)
        PROVE  LockInv'
    <3>1. TypeOK'
      BY <2>1, TypeStep DEF LockInv
    <3>2. LocalsOK'
      BY <2>1, <3>1, LocalsStep DEF LockInv
    <3>3. Exclusive' /\ BitmapExact'
      BY <2>1, <3>1, QuietStep, WordStep
    <3> QED BY <3>1, <3>2, <3>3 DEF LockInv
  <2>2. CASE UNCHANGED vars
    <3>1. TypeOK' /\ NoSharedLba'
      BY <2>2 DEF vars, LockInv, TypeOK, Exclusive, NoSharedLba
    <3>2. LocalsOK'
      BY <2>2 DEF vars, LockInv, LocalsOK, UpMask, UpLength, UpOffset
    <3>3. \A k \in Jobs : /\ HeldLbas(k)' = HeldLbas(k) /\ Partial(k)' = Partial(k)
                         /\ Owned(k)' = Owned(k)
      BY <2>2, Frame DEF vars
    <3>4. Exclusive' /\ BitmapExact'
      BY <2>2, <3>1, <3>3 DEF vars, LockInv, Exclusive, BitmapExact
    <3> QED BY <3>1, <3>2, <3>4 DEF LockInv
  <2> QED BY <2>1, <2>2 DEF Next
<1> QED BY <1>1, <1>2, PTL DEF Spec

(* The variables of the lock keep their types: no loop of try_lock_lbas or *)
(* unlock_lbas runs past the bitmap.                                       *)
THEOREM TypeCorrect == Spec => []TypeOK
  BY LockInvariant, PTL DEF LockInv

(* Bios in flight never share an LBA, for any number of jobs, any word     *)
(* size and any ranges.                                                    *)
THEOREM MutualExclusion == Spec => []NoSharedLba
<1>1. LockInv => NoSharedLba
  BY DEF LockInv, Exclusive
<1> QED BY <1>1, LockInvariant, PTL

(* No bit is left behind by a rollback or an unlock, and none is cleared   *)
(* for an LBA that is still owned.                                         *)
THEOREM NoLeak == Spec => []BitmapExact
  BY LockInvariant, PTL DEF LockInv

(* The word-wise lock implements the atomic range lock.                    *)
THEOREM Refinement == Spec => AtomicRangeLock
<1>1. Init => RangeLock!Init
  BY DEF Init, RangeLock!Init
<1>2. LockInv /\ LockInv' /\ [Next]_vars => [RangeLock!Next]_held
  <2> SUFFICES ASSUME LockInv, LockInv', [Next]_vars, held' # held
               PROVE  RangeLock!Next
    OBVIOUS
  <2>1. PICK j \in Jobs :
          (\E r \in Ranges : Unlock(j, r)) \/ LockWord(j)
    BY DEF Next, vars, TryLock, Load, Conflict, CasFail, UndoWord, UnlockWord
  <2>2. ASSUME NEW r \in Ranges, Unlock(j, r)
        PROVE  RangeLock!Next
    BY <2>2 DEF Unlock, Ranges, LBAs, RangeLock!Next, RangeLock!Release, RangeLock!Ranges
  <2>3. ASSUME LockWord(j)
        PROVE  RangeLock!Next
    <3>1. pc[j] = "lock" /\ held' = [held EXCEPT ![j] = @ \cup {bio[j]}]
      BY <2>3 DEF LockWord
    <3>2. bio[j] \in Ranges /\ bio[j] \in RangeLock!Ranges
      BY <3>1 DEF LockInv, LocalsOK, Ranges, LBAs, RangeLock!Ranges
    <3>3. bio[j] \notin held[j]
      BY <3>1 DEF LockInv, TypeOK
    <3>4. ASSUME NEW k \in Jobs, NEW s \in held[k]
          PROVE  Span(bio[j]) \cap Span(s) = {}
      <4>1. bio[j] \in held'[j] /\ s \in held'[k] /\ (k = j => s # bio[j])
        BY <3>1, <3>3 DEF LockInv, TypeOK
      <4> QED BY <4>1 DEF LockInv, Exclusive, NoSharedLba
    <3> QED BY <3>1, <3>2, <3>4
            DEF RangeLock!Next, RangeLock!Acquire, RangeLock!Span, Span
  <2> QED BY <2>1, <2>2, <2>3
<1> QED BY <1>1, <1>2, LockInvariant, PTL DEF Spec, AtomicRangeLock, RangeLock!Spec
=============================================================================
