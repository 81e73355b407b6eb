------------------------------ MODULE Statistics -------------------------------
(***************************************************************************)
(* The pool statistics of a build with STATISTICS_ENABLE (statistics.c):   *)
(* a fof whose time_us is not 0 was used since statistics_init, and        *)
(* max_used_free_list counts such fofs from the head of the free list up   *)
(* to the first unused one.  dump_statistics prints the count, when all is *)
(* given back, as the "max used fofs in queue".                            *)
(*                                                                         *)
(* time_us is reduced to whether it is 0; set_fof writes the caller's      *)
(* time, which is taken not to be 0.  peak is a history variable.          *)
(***************************************************************************)
EXTENDS FofPool

VARIABLES used,  \* the fofs with time_us # 0
          peak   \* history: most fofs that were ever out of the free list at once

statVars == <<used, peak>>

(* statistics_init, and the zeros of new shared memory. *)
StatInit == PoolInit /\ used = {} /\ peak = 0

InUse == {f \in Fof : own[f] # FREE}

(* A step of the pool; a fof it allocates gets its time_us. *)
StatNext ==
  /\ PoolNext
  /\ used' = used \cup InUse'
  /\ peak' = IF Cardinality(InUse') > peak THEN Cardinality(InUse') ELSE peak

StatSpec == StatInit /\ [][StatNext]_<<poolVars, statVars>>

StatFairSpec == StatSpec /\ PoolFairness

-----------------------------------------------------------------------------
(* Bug: the first unused fof is counted too. *)
MaxUsedByOne ==
  LET w == Walk(free_fofs)
  IN Cardinality({k \in 0..NFofs : w[k] # NULL /\ \A j \in 0..k : j < k => w[j] \in used})

(* max_used_free_list: the length of the used part at the head of the list. *)
MaxUsed ==
  LET w == Walk(free_fofs)
  IN Cardinality({k \in 0..NFofs : w[k] # NULL /\ \A j \in 0..k : w[j] \in used})

(* With one client, what max_used_free_list counts and the fofs in use add *)
(* up to the most fofs that were ever in use at once: the list is a stack, *)
(* so that an unused fof is popped only when all used ones are out, and    *)
(* whole chains come back to the head.  When all is given back the printed *)
(* number is that maximum.                                                 *)
PeakUsed == MaxUsed + Cardinality(InUse) = peak
=============================================================================
