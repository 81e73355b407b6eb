------------------------------- MODULE FofQueue -------------------------------
(***************************************************************************)
(* The queue in shared memory (fof_queue.c): a ring of NSlots lists, one   *)
(* per audio buffer, and a list for what lies beyond the ring.  Clients    *)
(* run fof_queue_add, the ctrl client runs fof_queue_flush.  One step per  *)
(* access to a shared word; what is computed from locals belongs to the    *)
(* access before it.                                                       *)
(*                                                                         *)
(* own[f] is now the slot f is linked in, EXCESS, a process or FREE.       *)
(***************************************************************************)
EXTENDS FofPool

CONSTANTS NSlots,      \* q->n_slots, a power of two: & (n_slots - 1) is % NSlots
          BufferSize,  \* q->buffer_size, the frames a slot stands for
          SampleRate,  \* q->sample_rate
          Second,      \* time units per second, 1000000 in the code
          FrameMod,    \* 2^32, the range of jack_nframes_t
          Times,       \* the time stamps clients pass to jfofs_add
          MaxAdds,     \* bound: calls of jfofs_add per client
          EXCESS       \* owner of the fofs in q->excess

Slot == 0..NSlots - 1

ASSUME QueueAssumption ==
  /\ NSlots \in {1, 2, 4, 8, 16, 32, 64, 128}      \* MAX_SLOTS is 128
  /\ BufferSize \in Nat \ {0} /\ SampleRate \in Nat \ {0}
  /\ Second \in Nat \ {0} /\ FrameMod \in Nat \ {0}
  /\ Times \subseteq Nat /\ MaxAdds \in Nat
  /\ EXCESS \notin Proc \cup {FREE}
  /\ Slot \cap (Proc \cup {FREE, EXCESS}) = {}

Status == {"none", "success", "late", "excess", "limit"}

VARIABLES
  slot, excess,             \* q->slot[], q->excess
  next_frame,               \* q->next_frame
  current_slot,             \* q->current_slot, valid while
  next_frame_check,         \*   q->next_frame_check is the caller's next_frame
  time_us,                  \* fof->time_us of every fof
  call,                     \* next_frame and slot of a call, and its result
  adds,                     \* calls made, for MaxAdds
  flush_i                   \* fof_queue_flush: 0..NSlots - 1 the loop, NSlots the
                            \*   excess list, then the resets; NotFlushing outside

ringVars  == <<slot, excess>>
cacheVars == <<current_slot, next_frame_check>>
callVars  == <<time_us, call, adds>>
queueVars == <<ringVars, next_frame, cacheVars, callVars, flush_i>>

NotFlushing == NSlots + 2

(* jfofs_time_to_nframes: the quotient is returned as a jack_nframes_t. *)
TimeToFrames(t) == ((t * SampleRate) \div Second) % FrameMod
Start(f)   == TimeToFrames(time_us[f])
SlotOf(n)  == (n \div BufferSize) % NSlots

QueueInit ==
  /\ PoolInit
  /\ slot = [s \in Slot |-> NULL] /\ excess = NULL
  /\ next_frame = 0 /\ next_frame_check = 0 /\ current_slot = 0
  /\ time_us = [f \in Fof |-> 0]
  /\ adds = [c \in Client |-> 0]
  /\ call = [c \in Client |-> [nf |-> 0, idx |-> 0, status |-> "none"]]
  /\ flush_i = NotFlushing

-----------------------------------------------------------------------------
(*                    fof_queue_add, run by a client                       *)

(* The result of the call is settled; its other locals are dead. *)
Result(c, r) == call' = [call EXCEPT ![c] = [nf |-> 0, idx |-> 0, status |-> r]]

(* A step that moves only c's program counter among the pool's variables.  *)
Move(c, from, to) ==
  Goto(c, from, to) /\ UNCHANGED <<free_fofs, next, fof, tail, exp, own>>

(* The call: its first access is the load in fof_queue_allocate_fof.       *)
Add(c) ==
  /\ adds[c] < MaxAdds
  /\ adds' = [adds EXCEPT ![c] = @ + 1]
  /\ AllocLoad(c, "idle")
  /\ Result(c, IF free_fofs = NULL THEN "limit" ELSE "none")
  /\ UNCHANGED <<ringVars, next_frame, cacheVars, time_us, flush_i>>

Allocate(c) ==
  /\ \/ AllocLoad(c, "alloc_load") /\ Result(c, IF free_fofs = NULL THEN "limit" ELSE "none")
     \/ (AllocNext(c) \/ AllocCas(c)) /\ UNCHANGED call
  /\ UNCHANGED <<ringVars, next_frame, cacheVars, time_us, adds, flush_i>>

(* Bug: a fof exactly one turn ahead still goes to the ring. *)
BeyondRingByOne(d) == d \div BufferSize > NSlots

(* A start frame d frames ahead has no slot. *)
BeyondRing(d) == d \div BufferSize >= NSlots

(* From recalculate: on, with n the value of next_frame just read and st   *)
(* the frame the fof starts at: late, beyond the ring, or for a slot.      *)
Recalculate(c, from, n, st) ==
  /\ \/ /\ st < n
        /\ Discard(c, from) /\ Result(c, "late")
     \/ /\ st >= n
        /\ Goto(c, from, IF BeyondRing(st - n) THEN "excess_load" ELSE "cache_test")
        /\ call' = [call EXCEPT ![c].nf = n]
        /\ UNCHANGED tail
  /\ UNCHANGED <<free_fofs, fof, exp, own>>

(* set_fof, the load of next_frame, and the first pass of recalculate. *)
LoadFrame(c) ==
  /\ pc[c] = "allocated"
  /\ \E t \in Times :
       /\ time_us' = [time_us EXCEPT ![fof[c]] = t]
       /\ Recalculate(c, "allocated", next_frame, TimeToFrames(t))
  /\ UNCHANGED <<next, ringVars, next_frame, cacheVars, adds, flush_i>>

(* The excess list is pushed with a plain load and a plain store. *)
ExcessLoad(c) ==
  /\ Goto(c, "excess_load", "excess_store")
  /\ next' = [next EXCEPT ![fof[c]] = excess]
  /\ UNCHANGED <<free_fofs, fof, tail, exp, own, queueVars>>

ExcessStore(c) ==
  /\ Goto(c, "excess_store", "idle")
  /\ excess' = fof[c]
  /\ own' = [own EXCEPT ![fof[c]] = EXCESS]
  /\ fof' = [fof EXCEPT ![c] = NULL]
  /\ Result(c, "excess")
  /\ UNCHANGED <<free_fofs, next, tail, exp, slot, next_frame, cacheVars,
                 time_us, adds, flush_i>>

(* Bug: the cache is never refreshed. *)
CacheTestNever(c) == Move(c, "cache_test", "pick") /\ UNCHANGED queueVars

(* The cached slot number of next_frame, in two shared plain words. *)
CacheTest(c) ==
  /\ Move(c, "cache_test", IF call[c].nf # next_frame_check THEN "cache_slot" ELSE "pick")
  /\ UNCHANGED queueVars

(* Bug: the slot number is not masked. *)
CacheSlotUnmasked(c) ==
  /\ Move(c, "cache_slot", "cache_check")
  /\ current_slot' = call[c].nf \div BufferSize
  /\ UNCHANGED <<ringVars, next_frame, next_frame_check, callVars, flush_i>>

CacheSlot(c) ==
  /\ Move(c, "cache_slot", "cache_check")
  /\ current_slot' = SlotOf(call[c].nf)
  /\ UNCHANGED <<ringVars, next_frame, next_frame_check, callVars, flush_i>>

CacheCheck(c) ==
  /\ Move(c, "cache_check", "pick")
  /\ next_frame_check' = call[c].nf
  /\ UNCHANGED <<ringVars, next_frame, current_slot, callVars, flush_i>>

(* Bug: every fof takes the slow lane. *)
PickSlow(c) ==
  /\ Move(c, "pick", "slow_load")
  /\ call' = [call EXCEPT ![c].idx =
               ((Start(fof[c]) - call[c].nf) \div BufferSize + current_slot) % NSlots]
  /\ UNCHANGED <<ringVars, next_frame, cacheVars, time_us, adds, flush_i>>

(* The slot, and the choice between the fast and the slow lane. *)
Pick(c) ==
  /\ Move(c, "pick", IF Start(fof[c]) > call[c].nf + BufferSize
                     THEN "fast_load" ELSE "slow_load")
  /\ call' = [call EXCEPT ![c].idx =
               ((Start(fof[c]) - call[c].nf) \div BufferSize + current_slot) % NSlots]
  /\ UNCHANGED <<ringVars, next_frame, cacheVars, time_us, adds, flush_i>>

(* Linking the fof in its slot ends the call. *)
Link(c, from) ==
  /\ Goto(c, from, "idle")
  /\ slot' = [slot EXCEPT ![call[c].idx] = fof[c]]
  /\ own' = [own EXCEPT ![fof[c]] = call[c].idx]
  /\ fof' = [fof EXCEPT ![c] = NULL]
  /\ Result(c, "success")

LoadSlot(c, from, to) ==
  /\ Goto(c, from, to)
  /\ next' = [next EXCEPT ![fof[c]] = slot[call[c].idx]]
  /\ UNCHANGED <<free_fofs, fof, tail, own, queueVars>>

FastLoad(c) == LoadSlot(c, "fast_load", "fast_check") /\ UNCHANGED exp

(* Bug: the fast lane starts over with the next_frame it had. *)
FastCheckStale(c) ==
  /\ pc[c] = "fast_check"
  /\ \/ /\ next_frame = call[c].nf
        /\ Move(c, "fast_check", "fast_cas") /\ UNCHANGED call
     \/ /\ next_frame # call[c].nf
        /\ Recalculate(c, "fast_check", call[c].nf, Start(fof[c]))
        /\ UNCHANGED next
  /\ UNCHANGED <<ringVars, next_frame, cacheVars, time_us, adds, flush_i>>

(* next_frame moved: start over; else go on to the exchange. *)
FastCheck(c) ==
  /\ pc[c] = "fast_check"
  /\ \/ /\ next_frame = call[c].nf
        /\ Move(c, "fast_check", "fast_cas") /\ UNCHANGED call
     \/ /\ next_frame # call[c].nf
        /\ Recalculate(c, "fast_check", next_frame, Start(fof[c]))
        /\ UNCHANGED next
  /\ UNCHANGED <<ringVars, next_frame, cacheVars, time_us, adds, flush_i>>

(* The expected value is fof->next; a failure reloads the slot. *)
FastCas(c) ==
  /\ pc[c] = "fast_cas"
  /\ \/ /\ slot[call[c].idx] = next[fof[c]]
        /\ Link(c, "fast_cas") /\ UNCHANGED next
     \/ /\ slot[call[c].idx] # next[fof[c]]
        /\ Goto(c, "fast_cas", "fast_load")
        /\ next' = [next EXCEPT ![fof[c]] = slot[call[c].idx]]
        /\ UNCHANGED <<slot, own, fof, call>>
  /\ UNCHANGED <<free_fofs, tail, exp, excess, next_frame, cacheVars,
                 time_us, adds, flush_i>>

(* The slow lane keeps the expected value in a local. *)
SlowLoad(c) ==
  /\ LoadSlot(c, "slow_load", "slow_check")
  /\ exp' = [exp EXCEPT ![c] = slot[call[c].idx]]

SlowCheck(c) ==
  /\ pc[c] = "slow_check"
  /\ \/ /\ next_frame = call[c].nf
        /\ Move(c, "slow_check", "slow_cas") /\ UNCHANGED call
     \/ /\ next_frame # call[c].nf
        /\ Discard(c, "slow_check") /\ Result(c, "late")
        /\ UNCHANGED <<free_fofs, next, fof, exp, own>>
  /\ UNCHANGED <<ringVars, next_frame, cacheVars, time_us, adds, flush_i>>

(* Bug: the slow lane stores without comparing. *)
SlowCasBlind(c) ==
  /\ Link(c, "slow_cas")
  /\ exp' = [exp EXCEPT ![c] = NULL]
  /\ UNCHANGED <<free_fofs, next, tail, excess, next_frame, cacheVars,
                 time_us, adds, flush_i>>

SlowCas(c) ==
  /\ pc[c] = "slow_cas"
  /\ \/ /\ slot[call[c].idx] = exp[c]
        /\ Link(c, "slow_cas") /\ UNCHANGED tail
     \/ /\ slot[call[c].idx] # exp[c]
        /\ Discard(c, "slow_cas") /\ Result(c, "late")
        /\ UNCHANGED <<slot, own, fof>>
  /\ exp' = [exp EXCEPT ![c] = NULL]
  /\ UNCHANGED <<free_fofs, next, excess, next_frame, cacheVars,
                 time_us, adds, flush_i>>

(* fof_queue_free_fof of a late fof, then the return. *)
FreeLate(c) == (FreeLoad(c) \/ FreeCas(c, "idle")) /\ UNCHANGED queueVars

AddStep(c) == \/ Allocate(c) \/ LoadFrame(c) \/ ExcessLoad(c) \/ ExcessStore(c)
              \/ CacheTest(c) \/ CacheSlot(c) \/ CacheCheck(c) \/ Pick(c)
              \/ FastLoad(c) \/ FastCheck(c) \/ FastCas(c)
              \/ SlowLoad(c) \/ SlowCheck(c) \/ SlowCas(c) \/ FreeLate(c)

-----------------------------------------------------------------------------
(*        fof_queue_flush, and the taking of a slot, by the ctrl client     *)

(* An exchange that leaves the list of owner w empty gives its fofs to the *)
(* ctrl client.                                                            *)
Detach(w, head) ==
  /\ own' = [f \in Fof |-> IF own[f] = w THEN Ctrl ELSE own[f]]
  /\ fof' = [fof EXCEPT ![Ctrl] = head]

(* Bug: the loop over the slots starts at 1. *)
FlushFromOne == 1

(* The loop over the slots starts here. *)
FlushFirst == 0

(* A list exchanged with NULL is released unless it is empty. *)
Release(w, head) ==
  /\ Goto(Ctrl, "flush", IF head = NULL THEN "flush" ELSE "flush_walk")
  /\ Detach(w, head)
  /\ tail' = [tail EXCEPT ![Ctrl] = head]
  /\ flush_i' = flush_i + 1
  /\ UNCHANGED <<free_fofs, next, exp, next_frame, cacheVars, callVars>>

FlushRing == /\ flush_i < NSlots
             /\ slot' = [slot EXCEPT ![flush_i] = NULL]
             /\ Release(flush_i, slot[flush_i])
             /\ UNCHANGED excess

FlushExcess == /\ flush_i = NSlots
               /\ excess' = NULL
               /\ Release(EXCESS, excess)
               /\ UNCHANGED slot

(* Bug: only the first fof of the list is released. *)
FlushWalkNot ==
  /\ pc[Ctrl] = "flush_walk"
  /\ Goto(Ctrl, "flush_walk", "free_load")
  /\ UNCHANGED <<free_fofs, next, fof, tail, exp, own, queueVars>>

(* fof_queue_release_list walks to the last fof of the list. *)
FlushWalk ==
  /\ pc[Ctrl] = "flush_walk"
  /\ \/ /\ next[tail[Ctrl]] # NULL
        /\ tail' = [tail EXCEPT ![Ctrl] = next[@]] /\ UNCHANGED pc
     \/ /\ next[tail[Ctrl]] = NULL
        /\ Goto(Ctrl, "flush_walk", "free_load") /\ UNCHANGED tail
  /\ UNCHANGED <<free_fofs, next, fof, exp, own, queueVars>>

(* The resets.  first_fof and last_fof, fof[Ctrl] and tail[Ctrl] here, are *)
(* NULL since the last list was released.                                  *)
FlushSlot ==
  /\ flush_i = NSlots + 1
  /\ Move(Ctrl, "flush", "flush_check")
  /\ current_slot' = 0
  /\ UNCHANGED <<ringVars, next_frame, next_frame_check, callVars, flush_i>>

FlushCheck ==
  /\ Move(Ctrl, "flush_check", "advance")
  /\ next_frame_check' = 0
  /\ flush_i' = NotFlushing
  /\ UNCHANGED <<ringVars, next_frame, current_slot, callVars>>

FlushStep == FlushRing \/ FlushExcess \/ FlushWalk \/ FlushSlot \/ FlushCheck

-----------------------------------------------------------------------------
(* The queue's words and the locals of its callers have their types. *)
QueueTypeOK ==
  /\ free_fofs \in Ptr /\ next \in [Fof -> Ptr]
  /\ fof \in [Proc -> Ptr] /\ tail \in [Proc -> Ptr] /\ exp \in [Proc -> Ptr]
  /\ own \in [Fof -> Proc \cup Slot \cup {FREE, EXCESS}]
  /\ slot \in [Slot -> Ptr] /\ excess \in Ptr
  /\ next_frame \in Nat /\ next_frame_check \in Nat /\ current_slot \in Slot
  /\ time_us \in [Fof -> Times \cup {0}]
  /\ call \in [Client -> [nf : Nat, idx : Slot, status : Status]]
  /\ adds \in [Client -> 0..MaxAdds]
  /\ flush_i \in 0..NotFlushing
=============================================================================
