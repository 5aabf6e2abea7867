----------------------------- MODULE LbaRangeLock -----------------------------
(***************************************************************************)
(* What iover_generate_data and iover_submit expect of the LBA lock: a bio *)
(* takes all of its LBAs at one instant, when none of them belongs to a    *)
(* bio in flight, or none of them; a completed bio gives all of them back. *)
(***************************************************************************)
EXTENDS Integers

CONSTANTS Jobs, NLbas, IoSizes

VARIABLE held   (* per job, the ranges of its bios in flight *)

Ranges ==
  {r \in [slba : 0 .. NLbas - 1, nlbs : IoSizes] : r.slba + r.nlbs <= NLbas}
Span(r) == r.slba .. r.slba + r.nlbs - 1

Init == held = [j \in Jobs |-> {}]

Acquire(j, r) ==
  /\ \A k \in Jobs : \A s \in held[k] : Span(r) \cap Span(s) = {}
  /\ held' = [held EXCEPT ![j] = @ \cup {r}]

Release(j, r) ==
  /\ r \in held[j]
  /\ held' = [held EXCEPT ![j] = @ \ {r}]

Next == \E j \in Jobs, r \in Ranges : Acquire(j, r) \/ Release(j, r)

Spec == Init /\ [][Next]_held
=============================================================================
