------------------------------- MODULE LbaLock -------------------------------
(***************************************************************************)
(* The bitmap lock of nbio's I/O verifier (iover.c: try_lock_lbas,         *)
(* unlock_lbas).  Jobs that share a namespace share one bitmap with one    *)
(* bit per LBA, packed W bits to a word.  A job locks the LBAs of a bio    *)
(* word by word, each word with a load and a compare-and-swap; when a word *)
(* already has one of the bits, it takes back the words it has set.        *)
(*                                                                         *)
(* A word is modelled by the set of its bits that are 1.  A job thread is  *)
(* sequential, so each job has one call in progress at most, and it may    *)
(* hold the ranges of up to IoDepth bios that are in flight.               *)
(***************************************************************************)
EXTENDS Integers, FiniteSets

CONSTANTS Jobs,     (* the job threads that share the namespace            *)
          W,        (* BITS_PER_LONG                                       *)
          NLbas,    (* number of LBAs of the namespace                     *)
          IoSizes,  (* the sizes of bios, in LBAs                          *)
          IoDepth   (* bios a job may have in flight                       *)

ASSUME WAssumption == W \in Nat \ {0}
ASSUME NLbasAssumption == NLbas \in Nat \ {0}
ASSUME IoSizesAssumption == IoSizes \subseteq 1 .. NLbas
ASSUME IoDepthAssumption == IoDepth \in Nat \ {0}

VARIABLES lba_lock,     (* the bitmap: word index -> set of bits that are 1 *)
          held,         (* per job, the ranges of its bios in flight        *)
          pc,           (* per job, the loop it is in                       *)
          bio,          (* per job, the argument of the call                *)
          lba_offset,   (* per job, local variable of the call              *)
          ulong_offset, (* per job, local variable of the call              *)
          seen          (* per job, {} or {the word it loaded}              *)

vars == <<lba_lock, held, pc, bio, lba_offset, ulong_offset, seen>>

LBAs  == 0 .. NLbas - 1
Bits  == 0 .. W - 1
Words == 0 .. (NLbas - 1) \div W

(* The slba and nlbs of the bios a job can generate. *)
Ranges == {r \in [slba : LBAs, nlbs : IoSizes] : r.slba + r.nlbs <= NLbas}

(* The argument of a job that has made no call yet. *)
NoBio == [slba |-> 0, nlbs |-> 0]

(* The LBAs a range covers. *)
Span(r) == r.slba .. r.slba + r.nlbs - 1

(* GET_MASK64: the width bits from bit offset up. *)
Mask(offset, width) == offset .. offset + width - 1

MinOf(a, b) == IF a <= b THEN a ELSE b
-----------------------------------------------------------------------------
Init ==
  /\ lba_lock = [w \in Words |-> {}]
  /\ held = [j \in Jobs |-> {}]
  /\ pc = [j \in Jobs |-> "idle"]
  /\ bio \in [Jobs -> {NoBio}]
  /\ lba_offset = [j \in Jobs |-> 0]
  /\ ulong_offset = [j \in Jobs |-> 0]
  /\ seen = [j \in Jobs |-> {}]

(* Both functions start with the word of the range's first LBA. *)
Call(j, label, r) ==
  /\ pc[j] = "idle"
  /\ pc' = [pc EXCEPT ![j] = label]
  /\ bio' = [bio EXCEPT ![j] = r]
  /\ lba_offset' = [lba_offset EXCEPT ![j] = 0]
  /\ ulong_offset' = [ulong_offset EXCEPT ![j] = r.slba \div W]
  /\ UNCHANGED <<lba_lock, seen>>

(* The job calls try_lock_lbas for a new bio. *)
TryLock(j, r) ==
  /\ Cardinality(held[j]) < IoDepth
  /\ Call(j, "lock", r)
  /\ UNCHANGED held

(* The job calls unlock_lbas for a bio that completed; the range is no     *)
(* longer the bio's from the moment of the call.                           *)
Unlock(j, r) ==
  /\ r \in held[j]
  /\ Call(j, "unlock", r)
  /\ held' = [held EXCEPT ![j] = @ \ {r}]
-----------------------------------------------------------------------------
(* Mutants of the definitions below (see PROJECT.json): no MIN in the      *)
(* rollback, low instead of high bits in the rollback, no test of the     *)
(* loaded word, a store that does not compare.                             *)
DownLengthNoMin(j) == W
DownMaskLow(j) == Mask(0, MinOf(W, lba_offset[j]))
LoadUnchecked(j) ==
  /\ seen[j] = {}
  /\ pc[j] # "idle"
  /\ seen' = [seen EXCEPT ![j] =
       {lba_lock[IF pc[j] = "undo" THEN ulong_offset[j] - 1 ELSE ulong_offset[j]]}]
  /\ UNCHANGED <<lba_lock, held, pc, bio, lba_offset, ulong_offset>>
CasStoreBlind(j, v) ==
  /\ seen[j] # {}
  /\ lba_lock' = [lba_lock EXCEPT ![
       IF pc[j] = "undo" THEN ulong_offset[j] - 1 ELSE ulong_offset[j]] = v]
  /\ seen' = [seen EXCEPT ![j] = {}]

(* The bits of the word at hand in the loops that go up (lock, unlock).    *)
UpOffset(j) == (bio[j].slba + lba_offset[j]) % W
UpLength(j) == MinOf(W - UpOffset(j), bio[j].nlbs - lba_offset[j])
UpMask(j) == Mask(UpOffset(j), UpLength(j))

(* The bits of the word at hand in the rollback loop, which goes down.     *)
DownLength(j) == MinOf(W, lba_offset[j])
DownMask(j) == Mask(W - DownLength(j), DownLength(j))

(* The word at hand: the rollback loop decrements the index first.         *)
Word(j) == IF pc[j] = "undo" THEN ulong_offset[j] - 1 ELSE ulong_offset[j]

(* A CAS loop loads the word.                                              *)
Load(j) ==
  /\ seen[j] = {}
  /\ \/ pc[j] = "lock" /\ lba_lock[Word(j)] \cap UpMask(j) = {}
     \/ pc[j] \in {"undo", "unlock"}
  /\ seen' = [seen EXCEPT ![j] = {lba_lock[Word(j)]}]
  /\ UNCHANGED <<lba_lock, held, pc, bio, lba_offset, ulong_offset>>

(* The word loaded already has one of the bits: goto rollback, which       *)
(* returns at once when nothing has been set.                              *)
Conflict(j) ==
  /\ pc[j] = "lock"
  /\ seen[j] = {}
  /\ lba_lock[Word(j)] \cap UpMask(j) # {}
  /\ pc' = [pc EXCEPT ![j] = IF lba_offset[j] = 0 THEN "idle" ELSE "undo"]
  /\ UNCHANGED <<lba_lock, held, bio, lba_offset, ulong_offset, seen>>

(* The CAS fails: another job changed the word; load it again.             *)
CasFail(j) ==
  /\ seen[j] # {}
  /\ seen[j] # {lba_lock[Word(j)]}
  /\ seen' = [seen EXCEPT ![j] = {}]
  /\ UNCHANGED <<lba_lock, held, pc, bio, lba_offset, ulong_offset>>

(* The value the job loaded.                                               *)
Loaded(j) == UNION seen[j]

(* The CAS succeeds: it stores v, computed from the loaded value.          *)
CasStore(j, v) ==
  /\ seen[j] = {lba_lock[Word(j)]}
  /\ lba_lock' = [lba_lock EXCEPT ![Word(j)] = v]
  /\ seen' = [seen EXCEPT ![j] = {}]

(* try_lock_lbas sets the bits; after the last word the range is held.     *)
LockWord(j) ==
  LET done == lba_offset[j] + UpLength(j) IN
  /\ pc[j] = "lock"
  /\ CasStore(j, Loaded(j) \cup UpMask(j))
  /\ lba_offset' = [lba_offset EXCEPT ![j] = done]
  /\ ulong_offset' = [ulong_offset EXCEPT ![j] = @ + 1]
  /\ IF done < bio[j].nlbs
       THEN UNCHANGED <<pc, held>>
       ELSE /\ pc' = [pc EXCEPT ![j] = "idle"]
            /\ held' = [held EXCEPT ![j] = @ \cup {bio[j]}]
  /\ UNCHANGED bio

(* The rollback loop of try_lock_lbas clears the bits of the word below.   *)
UndoWord(j) ==
  LET left == lba_offset[j] - DownLength(j) IN
  /\ pc[j] = "undo"
  /\ CasStore(j, Loaded(j) \ DownMask(j))
  /\ lba_offset' = [lba_offset EXCEPT ![j] = left]
  /\ ulong_offset' = [ulong_offset EXCEPT ![j] = @ - 1]
  /\ pc' = [pc EXCEPT ![j] = IF left = 0 THEN "idle" ELSE "undo"]
  /\ UNCHANGED <<held, bio>>

(* unlock_lbas clears the bits of the word at hand.                        *)
UnlockWord(j) ==
  LET done == lba_offset[j] + UpLength(j) IN
  /\ pc[j] = "unlock"
  /\ CasStore(j, Loaded(j) \ UpMask(j))
  /\ lba_offset' = [lba_offset EXCEPT ![j] = done]
  /\ ulong_offset' = [ulong_offset EXCEPT ![j] = @ + 1]
  /\ pc' = [pc EXCEPT ![j] = IF done < bio[j].nlbs THEN "unlock" ELSE "idle"]
  /\ UNCHANGED <<held, bio>>

Next ==
  \E j \in Jobs :
    \/ \E r \in Ranges : TryLock(j, r) \/ Unlock(j, r)
    \/ Load(j) \/ Conflict(j) \/ CasFail(j)
    \/ LockWord(j) \/ UndoWord(j) \/ UnlockWord(j)

Spec == Init /\ [][Next]_vars
-----------------------------------------------------------------------------
(* Type correctness of the bitmap and of the locals of the two functions.  *)
TypeOK ==
  /\ lba_lock \in [Words -> SUBSET Bits]
  /\ held \in [Jobs -> SUBSET Ranges]
  /\ pc \in [Jobs -> {"idle", "lock", "undo", "unlock"}]
  /\ bio \in [Jobs -> Ranges \cup {NoBio}]
  /\ lba_offset \in [Jobs -> 0 .. NLbas]
  /\ ulong_offset \in [Jobs -> Nat]
  /\ seen \in [Jobs -> SUBSET SUBSET Bits]

(* No LBA belongs to two bios in flight, of one job or of two.  This is    *)
(* what iover_generate_data asks of try_lock_lbas before it hands the LBAs *)
(* of a bio to the device when lba_overlap is off.                         *)
NoSharedLba ==
  \A j, k \in Jobs : \A r \in held[j], s \in held[k] :
    (j # k \/ r # s) => Span(r) \cap Span(s) = {}

(* The LBAs whose bits a call for range r has set and not cleared yet.     *)
CallLbas(label, r, offset) ==
  CASE label \in {"lock", "undo"} -> r.slba .. r.slba + offset - 1
    [] label = "unlock" -> r.slba + offset .. r.slba + r.nlbs - 1
    [] OTHER -> {}

Partial(j) == CallLbas(pc[j], bio[j], lba_offset[j])

HeldLbas(j) == UNION {Span(r) : r \in held[j]}

(* The LBAs whose bits are job j's.                                        *)
Owned(j) == HeldLbas(j) \cup Partial(j)

(* The bitmap has exactly the bits of the ranges in flight and of the      *)
(* calls under way: a rollback or an unlock neither leaves a bit behind    *)
(* (the LBA would never be tested again) nor clears a bit of another bio.  *)
BitmapExact ==
  \A w \in Words, b \in Bits :
    b \in lba_lock[w] <=> \E j \in Jobs : w * W + b \in Owned(j)

(* Where the loops of a call are, and what a CAS about to lock relies on.  *)
LocalsOK ==
  \A j \in Jobs :
    LET p == bio[j].slba + lba_offset[j] IN
    /\ pc[j] \in {"lock", "unlock"} =>
         /\ bio[j] \in Ranges /\ lba_offset[j] < bio[j].nlbs
         /\ ulong_offset[j] = p \div W
         /\ lba_offset[j] = 0 \/ p % W = 0
    /\ pc[j] = "undo" =>
         /\ bio[j] \in Ranges
         /\ 0 < lba_offset[j] /\ lba_offset[j] < bio[j].nlbs
         /\ ulong_offset[j] * W = p
    /\ pc[j] = "lock" => \A v \in seen[j] : v \cap UpMask(j) = {}
    /\ pc[j] = "idle" => seen[j] = {}

(* No LBA belongs to two bios, the one of a call under way included.       *)
Exclusive ==
  /\ NoSharedLba
  /\ \A j \in Jobs : Partial(j) \cap HeldLbas(j) = {}
  /\ \A j, k \in Jobs : j # k => Owned(j) \cap Owned(k) = {}

(* The inductive invariant behind NoSharedLba and BitmapExact: besides the *)
(* bits of finished calls it accounts for the bits of half-done ones.      *)
LockInv == TypeOK /\ LocalsOK /\ Exclusive /\ BitmapExact
-----------------------------------------------------------------------------
(* The lock implements the atomic range lock.                              *)
RangeLock == INSTANCE LbaRangeLock

(* Seen by the jobs, a try_lock_lbas that succeeds takes the whole range   *)
(* at one instant, when all of it is free, however the word-wise steps of  *)
(* the jobs interleave; one that fails takes nothing.                      *)
AtomicRangeLock == RangeLock!Spec
=============================================================================
