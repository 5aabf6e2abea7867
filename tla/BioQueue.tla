------------------------------ MODULE BioQueue ------------------------------
(***************************************************************************)
(* What the generator expects of an I/O engine (ioengine.h, enqueue,       *)
(* submit and poll): a bio that is accepted stays with the engine until it *)
(* is ended, it is ended once, and only a refused one is lost; the run is  *)
(* then marked as failed.  JobRunner shows that the engines do this.       *)
(***************************************************************************)
EXTENDS Integers, FiniteSets

CONSTANTS Bios,  (* the bios of the job's pool                             *)
          Depth  (* iodepth                                                *)

VARIABLES free,   (* the bios the generator may use                        *)
          open,   (* the bios the engine has accepted and not ended        *)
          failed  (* an error was recorded                                 *)

Init == free = Bios /\ open = {} /\ failed = FALSE

Accept(b) ==
  /\ b \in free /\ Cardinality(open) < Depth
  /\ free' = free \ {b} /\ open' = open \cup {b} /\ UNCHANGED failed

(* One poll ends some bios. *)
End(done) ==
  /\ done \subseteq open
  /\ open' = open \ done /\ free' = free \cup done /\ UNCHANGED failed

Refuse(b) ==
  /\ b \in free /\ free' = free \ {b} /\ failed' = TRUE /\ UNCHANGED open

(* A submit fails; everything stays where it is. *)
Fail == failed' = TRUE /\ UNCHANGED <<free, open>>

Next ==
  \/ \E b \in Bios : Accept(b) \/ Refuse(b)
  \/ \E done \in SUBSET Bios : End(done)
  \/ Fail
  \/ \E b \in Bios :  (* accepted, and the submit that follows fails *)
       /\ b \in free /\ Cardinality(open) < Depth
       /\ free' = free \ {b} /\ open' = open \cup {b} /\ failed' = TRUE

Spec == Init /\ [][Next]_<<free, open, failed>>
=============================================================================
