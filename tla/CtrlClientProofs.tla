--------------------------- MODULE CtrlClientProofs ---------------------------
(***************************************************************************)
(* Proofs about module CtrlClient for every number of clients, fofs and    *)
(* dsp clients, every size of the ring and of JACK's buffers, and any      *)
(* changes of the clock: the state is well typed, the banks stand at the   *)
(* cycle's frame, a flush drains the queue.                                *)
(***************************************************************************)
EXTENDS CtrlClient, DivModLemmas, TLAPS

(* Where a client is in fof_queue_add, and the ctrl client in its callback *)
(* or between two of them.                                                 *)
Calling == {"alloc_next", "alloc_cas", "allocated", "excess_load", "excess_store",
            "cache_test", "cache_slot", "cache_check", "pick", "fast_load", "fast_check",
            "fast_cas", "slow_load", "slow_check", "slow_cas", "free_load", "free_cas"}
ClientPc == Calling \cup {"idle", "alloc_load"}
CtrlPc == {"idle", "begin", "flush", "flush_walk", "flush_check", "advance", "stamp", "take",
           "deliver", "free_load", "free_cas", "dsp"}

(* No pointer is followed when it is NULL: a client works on a fof, and    *)
(* the ctrl client walks a list that is not empty.                         *)
Pointers ==
  /\ pc \in [Proc -> ClientPc \cup CtrlPc]
  /\ \A c \in Client : pc[c] \in ClientPc /\ (pc[c] \in Calling => fof[c] # NULL)
  /\ pc[Ctrl] \in CtrlPc /\ (pc[Ctrl] = "flush_walk" => tail[Ctrl] # NULL)

(* flush_i says whether a flush is under way. *)
Flushing ==
  /\ pc[Ctrl] \in {"idle", "begin", "advance", "stamp", "take", "deliver", "dsp"} =>
       flush_i = NotFlushing
  /\ pc[Ctrl] \in {"flush", "flush_walk", "flush_check"} => flush_i # NotFlushing

Inv == CtrlTypeOK /\ Pointers /\ Flushing

(* The part of the callback behind ctrl_client's synchronisation. *)
Playing == \/ pc[Ctrl] \in {"take", "deliver", "dsp"}
           \/ pc[Ctrl] \in {"free_load", "free_cas"} /\ flush_i = NotFlushing

(* The callback leaves the ctrl client synchronised, a flush finds or      *)
(* makes it not so.                                                        *)
Synced ==
  /\ jack.cycle = 0 => pc[Ctrl] = "idle"
  /\ pc[Ctrl] = "idle" /\ jack.cycle > 0 => ctrl.syncronized
  /\ pc[Ctrl] = "begin" /\ jack.cycle > 1 => ctrl.syncronized
  /\ Playing => ctrl.syncronized
  /\ flush_i # NotFlushing => ~ ctrl.syncronized

(* f is in a list the flush has already emptied. *)
Passed(f) == \/ own[f] \in Slot /\ own[f] < flush_i
             \/ own[f] = EXCESS /\ NSlots < flush_i

(* What the flush has passed holds only fofs that came in this cycle. *)
Drained ==
  /\ pc[Ctrl] = "flush_check" => flush_i = NSlots + 1
  /\ flush_i # NotFlushing =>
       \A f \in Fof : Passed(f) => hist[f].born = jack.cycle
  /\ FlushDrains

(* Where the banks stand while no dsp client runs ahead of the ctrl        *)
(* client.  On the frame time clock they follow next_frame by themselves;  *)
(* everywhere else they are set to the cycle's frame.                      *)
BanksFollow ==
  /\ jack.ahead = {}
  /\ Playing => \A d \in Dsp : bank[d] = ctrl.n
  /\ ~ UsesTransport(ctrl.clock_source) =>
       /\ pc[Ctrl] \in {"idle", "begin", "advance"} /\ ctrl.syncronized =>
            \A d \in Dsp : bank[d] = next_frame
       /\ pc[Ctrl] = "stamp" \/ Playing => next_frame = ctrl.n + jack.nframes
       /\ pc[Ctrl] = "stamp" /\ ctrl.syncronized => \A d \in Dsp : bank[d] = ctrl.n

(* What the prover is told about the constants. *)
LEMMA Constants ==
  /\ NSlots \in Nat \ {0} /\ BufferSize \in Nat \ {0} /\ SampleRate \in Nat \ {0}
  /\ Second \in Nat \ {0} /\ FrameMod \in Nat \ {0} /\ Times \subseteq Nat /\ MaxAdds \in Nat
  /\ NFofs \in Nat \ {0} /\ Ctrl \notin Client /\ Ctrl \in Proc /\ Client \subseteq Proc
  /\ NULL \notin Fof /\ Fof \subseteq Nat /\ 0 \in Slot /\ 0 \in Dsp
  /\ Buffers \subseteq Nat \ {0} /\ NDsp \in Nat \ {0} /\ Locates \subseteq Nat
  /\ Clocks \subseteq ClockSource /\ MaxCycle \in Nat /\ MaxUnwired \in Nat
  /\ EXCESS \notin Proc \cup {FREE} /\ FREE \notin Proc
  /\ Slot \cap (Proc \cup {FREE, EXCESS}) = {}
BY PoolAssumption, QueueAssumption, CtrlAssumption DEF Proc, NULL, Fof, Slot, Dsp

(* jfofs_time_to_nframes yields a frame. *)
LEMMA FramesTyped == \A t \in Nat : TimeToFrames(t) \in Nat
<1> TAKE t \in Nat
<1>1. t * SampleRate \in Nat
  BY Constants
<1>2. (t * SampleRate) \div Second \in Nat
  BY <1>1, Constants, DivMod
<1> QED
  BY <1>2, Constants, DivMod DEF TimeToFrames

(* Slot numbers are in range. *)
LEMMA SlotTyped == \A n \in Nat : SlotOf(n) \in Slot
<1> TAKE n \in Nat
<1>1. n \div BufferSize \in Nat
  BY Constants, DivMod
<1> QED
  BY <1>1, Constants, DivMod DEF SlotOf, Slot

(* So is the slot slots_add computes, (delta_slots + current_slot) % n_slots. *)
LEMMA SumSlotTyped == \A d \in Int, k \in Slot : ((d \div BufferSize) + k) % NSlots \in Slot
<1> TAKE d \in Int, k \in Slot
<1>1. d \div BufferSize \in Int
  BY Constants
<1> QED
  BY <1>1, Constants DEF Slot

(* The history of a step that Record describes. *)
LEMMA RecordTyped ==
  ASSUME CtrlTypeOK, Record
  PROVE  hist' \in [Fof -> [ins : Nat, born : Nat, given : Nat]]
BY Constants DEF CtrlTypeOK, QueueTypeOK, Record, NoHist

-----------------------------------------------------------------------------
(*                      The steps of a call of jfofs_add                   *)

(* A process that moves leaves the others where they are. *)
Others(c) == \A p \in Proc \ {c} : /\ pc'[p] = pc[p] /\ fof'[p] = fof[p]
                                   /\ tail'[p] = tail[p] /\ exp'[p] = exp[p]

(* A client's step keeps the queue's words and its own locals typed, and   *)
(* does nothing to next_frame, the flush and the other processes.          *)
Typed(c) ==
  /\ QueueTypeOK'
  /\ pc' \in [Proc -> ClientPc \cup CtrlPc] /\ Others(c)
  /\ pc'[c] \in ClientPc /\ (pc'[c] \in Calling => fof'[c] # NULL)
  /\ UNCHANGED <<next_frame, flush_i>>

(* What Goto does to the program counters. *)
LEMMA GotoTyped ==
  ASSUME Pointers, NEW p \in Proc, NEW from, NEW to \in ClientPc \cup CtrlPc, Goto(p, from, to)
  PROVE  /\ pc' \in [Proc -> ClientPc \cup CtrlPc] /\ pc[p] = from /\ pc'[p] = to
         /\ \A q \in Proc \ {p} : pc'[q] = pc[q]
BY DEF Pointers, Goto

(* The results of a call are results, its slot is a slot. *)
CallTyped == call' \in [Client -> [nf : Nat, idx : Slot, status : Status]]

(* Result settles a call. *)
LEMMA ResultTyped ==
  ASSUME CtrlTypeOK, NEW c \in Client, NEW r \in Status, Result(c, r)
  PROVE  CallTyped
BY Constants DEF CtrlTypeOK, QueueTypeOK, Result, CallTyped

(* The load of the head, which begins a call or repeats its first step. *)
LEMMA AllocLoadTyped ==
  ASSUME CtrlTypeOK, Pointers, NEW c \in Client, Add(c) \/ AllocLoad(c, "alloc_load"),
         Result(c, IF free_fofs = NULL THEN "limit" ELSE "none"),
         UNCHANGED <<ringVars, next_frame, cacheVars, time_us, flush_i>>,
         adds' \in [Client -> 0..MaxAdds]
  PROVE  Typed(c)
<1>1. CallTyped
  BY ResultTyped DEF Status
<1>2. PICK from \in {"idle", "alloc_load"} : AllocLoad(c, from)
  BY DEF Add
<1>3. c \in Proc /\ free_fofs \in Ptr
  BY Constants DEF CtrlTypeOK, QueueTypeOK
<1>4. PICK to \in {"idle", "alloc_next"} :
        Goto(c, from, to) /\ to = IF free_fofs = NULL THEN "idle" ELSE "alloc_next"
  BY <1>2 DEF AllocLoad
<1>5. to \in ClientPc \cup CtrlPc
  BY <1>4 DEF ClientPc, Calling
<1>6. /\ pc' \in [Proc -> ClientPc \cup CtrlPc] /\ pc'[c] = to
      /\ \A q \in Proc \ {c} : pc'[q] = pc[q]
  BY <1>3, <1>4, <1>5, GotoTyped
<1>7. fof' \in [Proc -> Ptr] /\ fof'[c] = free_fofs /\ \A q \in Proc \ {c} : fof'[q] = fof[q]
  BY <1>2, <1>3 DEF AllocLoad, CtrlTypeOK, QueueTypeOK
<1>8. UNCHANGED <<free_fofs, next, tail, exp, own>>
  BY <1>2 DEF AllocLoad
<1> QED
  BY <1>1, <1>3, <1>4, <1>6, <1>7, <1>8 DEF Typed, Others, CallTyped, CtrlTypeOK, QueueTypeOK,
     ringVars, cacheVars, ClientPc, Calling

(* jfofs_add starts with the pop of fof_new. *)
LEMMA AddTyped ==
  ASSUME CtrlTypeOK, Pointers, NEW c \in Client, Add(c)
  PROVE  Typed(c)
<1>1. adds' \in [Client -> 0..MaxAdds]
  BY Constants DEF Add, CtrlTypeOK, QueueTypeOK
<1> QED
  BY <1>1, AllocLoadTyped DEF Add

(* The three steps of fof_queue_allocate_fof. *)
LEMMA AllocateTyped ==
  ASSUME CtrlTypeOK, Pointers, NEW c \in Client, Allocate(c)
  PROVE  Typed(c)
<1>0. c \in Proc /\ UNCHANGED <<ringVars, next_frame, cacheVars, time_us, adds, flush_i>>
      /\ adds' \in [Client -> 0..MaxAdds]
  BY Constants DEF Allocate, CtrlTypeOK, QueueTypeOK
<1>1. CASE AllocLoad(c, "alloc_load") /\ Result(c, IF free_fofs = NULL THEN "limit" ELSE "none")
  BY <1>0, <1>1, AllocLoadTyped
<1>2. CASE AllocNext(c) /\ UNCHANGED call
  <2>1. fof[c] \in Fof
    BY <1>0, <1>2 DEF AllocNext, Goto, Pointers, Calling, CtrlTypeOK, QueueTypeOK, Ptr
  <2> QED
    BY <1>0, <1>2, <2>1 DEF AllocNext, Goto, Typed, Others, CtrlTypeOK, QueueTypeOK, Pointers,
       ringVars, cacheVars, ClientPc, Calling
<1>3. CASE AllocCas(c) /\ UNCHANGED call
  <2>1. fof[c] \in Fof /\ NULL \in Ptr /\ exp[c] \in Ptr
    BY <1>0, <1>3 DEF AllocCas, Goto, Pointers, Calling, CtrlTypeOK, QueueTypeOK, Ptr
  <2>2. exp' \in [Proc -> Ptr] /\ (\A q \in Proc \ {c} : exp'[q] = exp[q])
        /\ UNCHANGED <<fof, tail>>
    BY <1>0, <1>3, <2>1 DEF AllocCas, CtrlTypeOK, QueueTypeOK
  <2>3. CASE /\ Goto(c, "alloc_cas", "allocated") /\ free_fofs' = exp[c]
             /\ next' = [next EXCEPT ![fof[c]] = NULL] /\ own' = [own EXCEPT ![fof[c]] = c]
    <3>1. next' \in [Fof -> Ptr] /\ own' \in [Fof -> Proc \cup Slot \cup {FREE, EXCESS}]
          /\ free_fofs' \in Ptr
      BY <1>0, <2>1, <2>3 DEF CtrlTypeOK, QueueTypeOK
    <3>2. /\ pc' \in [Proc -> ClientPc \cup CtrlPc] /\ pc'[c] = "allocated"
          /\ \A q \in Proc \ {c} : pc'[q] = pc[q]
      BY <1>0, <2>3, GotoTyped DEF ClientPc, Calling
    <3> QED
      BY <1>0, <1>3, <2>1, <2>2, <3>1, <3>2, Constants DEF Typed, Others, CtrlTypeOK, QueueTypeOK,
         ringVars, cacheVars, ClientPc, Calling
  <2>4. CASE Goto(c, "alloc_cas", "alloc_load") /\ UNCHANGED <<free_fofs, next, own>>
    <3>2. /\ pc' \in [Proc -> ClientPc \cup CtrlPc] /\ pc'[c] = "alloc_load"
          /\ \A q \in Proc \ {c} : pc'[q] = pc[q]
      BY <1>0, <2>4, GotoTyped DEF ClientPc
    <3> QED
      BY <1>0, <1>3, <2>1, <2>2, <2>4, <3>2 DEF Typed, Others, CtrlTypeOK, QueueTypeOK,
         ringVars, cacheVars, ClientPc, Calling
  <2> QED
    BY <1>3, <2>3, <2>4 DEF AllocCas
<1> QED
  BY <1>1, <1>2, <1>3 DEF Allocate

(* A client that gives up its fof. *)
LEMMA DiscardTyped ==
  ASSUME CtrlTypeOK, Pointers, NEW c \in Client,
         NEW from \in {"allocated", "fast_check", "slow_check", "slow_cas"},
         Discard(c, from), CallTyped, exp' \in [Proc -> Ptr], \A q \in Proc \ {c} : exp'[q] = exp[q],
         UNCHANGED <<free_fofs, next, fof, own, ringVars, next_frame, cacheVars, adds, flush_i>>,
         time_us' \in [Fof -> Times \cup {0}]
  PROVE  Typed(c)
<1>0. c \in Proc
  BY Constants
<1>1. /\ pc' \in [Proc -> ClientPc \cup CtrlPc] /\ pc'[c] = "free_load" /\ pc[c] = from
      /\ \A q \in Proc \ {c} : pc'[q] = pc[q]
  BY <1>0, GotoTyped DEF Discard, ClientPc, Calling
<1>2. fof[c] \in Ptr /\ fof[c] # NULL
  BY <1>0, <1>1 DEF Pointers, Calling, CtrlTypeOK, QueueTypeOK
<1>3. tail' \in [Proc -> Ptr] /\ \A q \in Proc \ {c} : tail'[q] = tail[q]
  BY <1>0, <1>2 DEF Discard, CtrlTypeOK, QueueTypeOK
<1> QED
  BY <1>0, <1>1, <1>2, <1>3 DEF Typed, Others, CallTyped, CtrlTypeOK, QueueTypeOK,
     ringVars, cacheVars, ClientPc, Calling

(* Both passes of recalculate. *)
LEMMA RecalculateTyped ==
  ASSUME CtrlTypeOK, Pointers, NEW c \in Client, NEW from \in {"allocated", "fast_check"},
         NEW st \in Nat, Recalculate(c, from, next_frame, st),
         UNCHANGED <<next, ringVars, next_frame, cacheVars, adds, flush_i>>,
         time_us' \in [Fof -> Times \cup {0}]
  PROVE  Typed(c)
<1>0. c \in Proc /\ UNCHANGED <<free_fofs, fof, exp, own>> /\ next_frame \in Nat
      /\ exp \in [Proc -> Ptr]
  BY Constants DEF Recalculate, CtrlTypeOK, QueueTypeOK
<1>2. CASE Discard(c, from) /\ Result(c, "late")
  <2>1. CallTyped
    BY <1>2, ResultTyped DEF Status
  <2> QED
    BY <1>0, <1>2, <2>1, DiscardTyped
<1>3. CASE /\ Goto(c, from, IF BeyondRing(st - next_frame) THEN "excess_load" ELSE "cache_test")
           /\ call' = [call EXCEPT ![c].nf = next_frame]
           /\ UNCHANGED tail
  <2>1. CallTyped
    BY <1>0, <1>3 DEF CallTyped, CtrlTypeOK, QueueTypeOK
  <2>2. PICK to \in {"excess_load", "cache_test"} : Goto(c, from, to)
    BY <1>3
  <2>3. /\ pc' \in [Proc -> ClientPc \cup CtrlPc] /\ pc'[c] = to /\ pc[c] = from
        /\ \A q \in Proc \ {c} : pc'[q] = pc[q]
    BY <1>0, <2>2, GotoTyped DEF ClientPc, Calling
  <2>4. fof[c] # NULL
    BY <2>3 DEF Pointers, Calling
  <2> QED
    BY <1>0, <1>3, <2>1, <2>2, <2>3, <2>4 DEF Typed, Others, CallTyped, CtrlTypeOK, QueueTypeOK,
       ringVars, cacheVars, ClientPc, Calling
<1> QED
  BY <1>2, <1>3 DEF Recalculate

(* The time the client passes is converted and a slot looked for. *)
LEMMA LoadFrameTyped ==
  ASSUME CtrlTypeOK, Pointers, NEW c \in Client, LoadFrame(c)
  PROVE  Typed(c)
<1>1. PICK t \in Times : /\ time_us' = [time_us EXCEPT ![fof[c]] = t]
                         /\ Recalculate(c, "allocated", next_frame, TimeToFrames(t))
  BY DEF LoadFrame
<1>2. TimeToFrames(t) \in Nat
  BY Constants, FramesTyped
<1>3. time_us' \in [Fof -> Times \cup {0}]
  BY <1>1 DEF CtrlTypeOK, QueueTypeOK
<1> QED
  BY <1>1, <1>2, <1>3, RecalculateTyped DEF LoadFrame

(* A step within a call that changes neither the fof nor the tail. *)
LEMMA WithinTyped ==
  ASSUME CtrlTypeOK, Pointers, NEW c \in Client, NEW from \in Calling, NEW to \in Calling,
         Goto(c, from, to), UNCHANGED <<fof, tail, next_frame, flush_i>>,
         exp' \in [Proc -> Ptr], \A q \in Proc \ {c} : exp'[q] = exp[q],
         free_fofs' \in Ptr, next' \in [Fof -> Ptr], UNCHANGED <<own, ringVars, time_us, adds>>,
         next_frame_check' \in Nat, current_slot' \in Slot, CallTyped
  PROVE  Typed(c)
<1>0. c \in Proc
  BY Constants
<1>1. /\ pc' \in [Proc -> ClientPc \cup CtrlPc] /\ pc'[c] = to /\ pc[c] = from
      /\ \A q \in Proc \ {c} : pc'[q] = pc[q]
  BY <1>0, GotoTyped DEF ClientPc
<1>2. fof[c] # NULL
  BY <1>1 DEF Pointers
<1> QED
  BY <1>0, <1>1, <1>2 DEF Typed, Others, CallTyped, CtrlTypeOK, QueueTypeOK, ringVars, ClientPc

(* A step that ends a call by linking its fof. *)
LEMMA LinkedTyped ==
  ASSUME CtrlTypeOK, Pointers, NEW c \in Client, NEW from, NEW w \in Slot \cup {EXCESS},
         Goto(c, from, "idle"), fof' = [fof EXCEPT ![c] = NULL],
         own' = [own EXCEPT ![fof[c]] = w],
         UNCHANGED <<tail, next_frame, flush_i, free_fofs, next, cacheVars, time_us, adds>>,
         exp' \in [Proc -> Ptr], \A q \in Proc \ {c} : exp'[q] = exp[q],
         slot' \in [Slot -> Ptr], excess' \in Ptr, CallTyped
  PROVE  Typed(c)
<1>0. c \in Proc /\ NULL \in Ptr
  BY Constants DEF Ptr
<1>1. /\ pc' \in [Proc -> ClientPc \cup CtrlPc] /\ pc'[c] = "idle"
      /\ \A q \in Proc \ {c} : pc'[q] = pc[q]
  BY <1>0, GotoTyped DEF ClientPc
<1>2. fof' \in [Proc -> Ptr] /\ \A q \in Proc \ {c} : fof'[q] = fof[q]
  BY <1>0 DEF CtrlTypeOK, QueueTypeOK
<1>3. own' \in [Fof -> Proc \cup Slot \cup {FREE, EXCESS}]
  BY DEF CtrlTypeOK, QueueTypeOK
<1> QED
  BY <1>0, <1>1, <1>2, <1>3 DEF Typed, Others, CallTyped, CtrlTypeOK, QueueTypeOK, cacheVars,
     ClientPc, Calling

(* The words and locals that the steps of a call read. *)
LEMMA CallFacts ==
  ASSUME CtrlTypeOK, NEW c \in Client
  PROVE  /\ c \in Proc /\ call[c].idx \in Slot /\ call[c].nf \in Nat /\ slot[call[c].idx] \in Ptr
         /\ fof[c] \in Ptr /\ exp[c] \in Ptr /\ NULL \in Ptr /\ excess \in Ptr
         /\ free_fofs \in Ptr /\ next \in [Fof -> Ptr] /\ exp \in [Proc -> Ptr]
         /\ current_slot \in Slot /\ next_frame_check \in Nat /\ next_frame \in Nat
         /\ call \in [Client -> [nf : Nat, idx : Slot, status : Status]]
         /\ time_us \in [Fof -> Times \cup {0}] /\ slot \in [Slot -> Ptr]
BY Constants DEF CtrlTypeOK, QueueTypeOK, Ptr

(* The plain push on the excess list. *)
LEMMA ExcessTyped ==
  ASSUME CtrlTypeOK, Pointers, NEW c \in Client, ExcessLoad(c) \/ ExcessStore(c)
  PROVE  Typed(c)
<1>1. CASE ExcessLoad(c)
  <2>1. next' \in [Fof -> Ptr] /\ CallTyped
    BY <1>1, CallFacts DEF ExcessLoad, CallTyped, queueVars, callVars
  <2> QED
    BY <1>1, <2>1, CallFacts, WithinTyped DEF ExcessLoad, Calling, queueVars, cacheVars, callVars
<1>2. CASE ExcessStore(c)
  <2>1. CallTyped
    BY <1>2, ResultTyped DEF ExcessStore, Status
  <2> QED
    BY <1>2, <2>1, CallFacts, LinkedTyped DEF ExcessStore
<1> QED
  BY <1>1, <1>2

(* The cache, and the choice of the lane. *)
LEMMA PickTyped ==
  ASSUME CtrlTypeOK, Pointers, NEW c \in Client,
         CacheTest(c) \/ CacheSlot(c) \/ CacheCheck(c) \/ Pick(c)
  PROVE  Typed(c)
<1> USE CallFacts DEF Move, queueVars, cacheVars, callVars, CallTyped
<1>1. CASE CacheTest(c)
  <2>1. PICK to \in {"cache_slot", "pick"} : Goto(c, "cache_test", to)
    BY <1>1 DEF CacheTest
  <2> QED
    BY <1>1, <2>1, WithinTyped DEF CacheTest, Calling
<1>2. CASE CacheSlot(c)
  BY <1>2, SlotTyped, WithinTyped DEF CacheSlot, Calling
<1>3. CASE CacheCheck(c)
  BY <1>3, WithinTyped DEF CacheCheck, Calling
<1>4. CASE Pick(c)
  <2>1. PICK to \in {"fast_load", "slow_load"} : Goto(c, "pick", to)
    BY <1>4 DEF Pick
  <2>2. fof[c] \in Fof
    BY <2>1, Constants DEF Goto, Pointers, Calling, Ptr
  <2>3. Start(fof[c]) \in Nat
    BY <2>2, FramesTyped, Constants DEF Start
  <2>4. ((Start(fof[c]) - call[c].nf) \div BufferSize + current_slot) % NSlots \in Slot
    BY <2>3, SumSlotTyped
  <2>5. CallTyped
    BY <1>4, <2>4 DEF Pick
  <2> QED
    BY <1>4, <2>1, <2>5, WithinTyped DEF Pick, Calling
<1> QED
  BY <1>1, <1>2, <1>3, <1>4

(* The loads of the two lanes. *)
LEMMA LoadSlotTyped ==
  ASSUME CtrlTypeOK, Pointers, NEW c \in Client, FastLoad(c) \/ SlowLoad(c)
  PROVE  Typed(c)
<1> USE CallFacts DEF LoadSlot, queueVars, cacheVars, callVars, CallTyped
<1>1. next' \in [Fof -> Ptr]
  BY DEF FastLoad, SlowLoad
<1>2. CASE FastLoad(c)
  BY <1>1, <1>2, WithinTyped DEF FastLoad, Calling
<1>3. CASE SlowLoad(c)
  BY <1>1, <1>3, WithinTyped DEF SlowLoad, Calling
<1> QED
  BY <1>2, <1>3

(* The checks of next_frame in the two lanes. *)
LEMMA CheckTyped ==
  ASSUME CtrlTypeOK, Pointers, NEW c \in Client, FastCheck(c) \/ SlowCheck(c)
  PROVE  Typed(c)
<1> USE CallFacts DEF Move, ringVars, cacheVars, CallTyped
<1>1. CASE FastCheck(c) /\ next_frame = call[c].nf
  BY <1>1, WithinTyped DEF FastCheck, Calling
<1>2. CASE SlowCheck(c) /\ next_frame = call[c].nf
  BY <1>2, WithinTyped DEF SlowCheck, Calling
<1>3. CASE FastCheck(c) /\ next_frame # call[c].nf
  <2>2. fof[c] \in Fof
    BY <1>3, Constants DEF FastCheck, Pointers, Calling, Ptr
  <2>3. Start(fof[c]) \in Nat
    BY <2>2, FramesTyped, Constants DEF Start
  <2> QED
    BY <1>3, <2>3, RecalculateTyped DEF FastCheck
<1>4. CASE SlowCheck(c) /\ next_frame # call[c].nf
  <2>1. CallTyped
    BY <1>4, ResultTyped DEF SlowCheck, Status
  <2> HIDE DEF CallTyped
  <2> QED
    BY <1>4, <2>1, DiscardTyped DEF SlowCheck
<1> QED
  BY <1>1, <1>2, <1>3, <1>4

(* The exchanges of the two lanes. *)
LEMMA CasTyped ==
  ASSUME CtrlTypeOK, Pointers, NEW c \in Client, FastCas(c) \/ SlowCas(c)
  PROVE  Typed(c)
<1> USE CallFacts DEF ringVars, cacheVars
<1>1. CASE FastCas(c) /\ slot[call[c].idx] = next[fof[c]]
  <2>1. CallTyped
    BY <1>1, ResultTyped DEF FastCas, Link, Status
  <2>2. slot' \in [Slot -> Ptr]
    BY <1>1 DEF FastCas, Link
  <2> QED
    BY <1>1, <2>1, <2>2, LinkedTyped DEF FastCas, Link
<1>2. CASE FastCas(c) /\ slot[call[c].idx] # next[fof[c]]
  <2>1. next' \in [Fof -> Ptr] /\ CallTyped
    BY <1>2 DEF FastCas, CallTyped
  <2> QED
    BY <1>2, <2>1, WithinTyped DEF FastCas, Calling
<1>3. ASSUME SlowCas(c) PROVE exp' \in [Proc -> Ptr] /\ \A q \in Proc \ {c} : exp'[q] = exp[q]
  BY <1>3 DEF SlowCas
<1>4. CASE SlowCas(c) /\ slot[call[c].idx] = exp[c]
  <2>1. CallTyped
    BY <1>4, ResultTyped DEF SlowCas, Link, Status
  <2>2. slot' \in [Slot -> Ptr]
    BY <1>4 DEF SlowCas, Link
  <2> QED
    BY <1>3, <1>4, <2>1, <2>2, LinkedTyped DEF SlowCas, Link
<1>5. CASE SlowCas(c) /\ slot[call[c].idx] # exp[c]
  <2>1. CallTyped
    BY <1>5, ResultTyped DEF SlowCas, Status
  <2> QED
    BY <1>3, <1>5, <2>1, DiscardTyped DEF SlowCas
<1> QED
  BY <1>1, <1>2, <1>4, <1>5

(* fof_queue_free_fofs, run by a client or by the ctrl client. *)
LEMMA FreeTyped ==
  ASSUME CtrlTypeOK, Pointers, NEW p \in Proc, NEW ret \in {"idle", "dsp", "flush"},
         FreeLoad(p) \/ FreeCas(p, ret), UNCHANGED queueVars
  PROVE  /\ QueueTypeOK' /\ pc' \in [Proc -> ClientPc \cup CtrlPc] /\ Others(p)
         /\ pc[p] \in {"free_load", "free_cas"} /\ pc'[p] \in {"free_load", "free_cas", ret}
         /\ pc'[p] \in {"free_load", "free_cas"} => fof'[p] = fof[p]
         /\ exp' = exp
<1>0. free_fofs \in Ptr /\ next \in [Fof -> Ptr] /\ NULL \in Ptr /\ fof[p] \in Ptr
      /\ own \in [Fof -> Proc \cup Slot \cup {FREE, EXCESS}]
      /\ fof \in [Proc -> Ptr] /\ tail \in [Proc -> Ptr]
  BY DEF CtrlTypeOK, QueueTypeOK, Ptr
<1>a. {"free_load", "free_cas"} \subseteq ClientPc
  BY DEF ClientPc, Calling
<1>1. CASE \E from, to \in {"free_load", "free_cas"} :
             /\ Goto(p, from, to)
             /\ next' = [next EXCEPT ![tail[p]] = free_fofs]
             /\ UNCHANGED <<free_fofs, fof, tail, exp, own>>
  <2>1. PICK from, to \in {"free_load", "free_cas"} : Goto(p, from, to)
    BY <1>1
  <2>2. next' \in [Fof -> Ptr]
    BY <1>0, <1>1
  <2>3. /\ pc' \in [Proc -> ClientPc \cup CtrlPc] /\ pc'[p] = to /\ pc[p] = from
        /\ \A q \in Proc \ {p} : pc'[q] = pc[q]
    BY <1>a, <2>1, GotoTyped
  <2> QED
    BY <1>1, <2>1, <2>2, <2>3 DEF Others, CtrlTypeOK, QueueTypeOK, queueVars, ringVars, cacheVars,
       callVars
<1>2. CASE /\ Goto(p, "free_cas", ret)
           /\ free_fofs' = fof[p]
           /\ own'  = [f \in Fof |-> IF own[f] = p THEN FREE ELSE own[f]]
           /\ fof'  = [fof EXCEPT ![p] = NULL]
           /\ tail' = [tail EXCEPT ![p] = NULL]
           /\ UNCHANGED <<next, exp>>
  <2>1. /\ pc' \in [Proc -> ClientPc \cup CtrlPc] /\ pc'[p] = ret /\ pc[p] = "free_cas"
        /\ \A q \in Proc \ {p} : pc'[q] = pc[q]
    BY <1>2, GotoTyped DEF ClientPc, CtrlPc
  <2>2. own' \in [Fof -> Proc \cup Slot \cup {FREE, EXCESS}]
    BY <1>0, <1>2
  <2>3. /\ fof' \in [Proc -> Ptr] /\ tail' \in [Proc -> Ptr]
        /\ \A q \in Proc \ {p} : fof'[q] = fof[q] /\ tail'[q] = tail[q]
    BY <1>0, <1>2
  <2> QED
    BY <1>0, <1>2, <2>1, <2>2, <2>3 DEF Others, CtrlTypeOK, QueueTypeOK, queueVars, ringVars,
       cacheVars, callVars
<1> QED
  <2>1. CASE FreeLoad(p)
    BY <1>1, <2>1 DEF FreeLoad
  <2>2. CASE FreeCas(p, ret) /\ free_fofs = next[tail[p]]
    BY <1>2, <2>2 DEF FreeCas
  <2>3. CASE FreeCas(p, ret) /\ free_fofs # next[tail[p]]
    BY <1>1, <2>3 DEF FreeCas
  <2> QED
    BY <2>1, <2>2, <2>3

(* A step of a call of jfofs_add. *)
LEMMA CallTypedStep ==
  ASSUME CtrlTypeOK, Pointers, NEW c \in Client, Add(c) \/ AddStep(c)
  PROVE  Typed(c)
<1>1. CASE FreeLate(c)
  <2>1. c \in Proc /\ "idle" \in ClientPc
    BY Constants DEF ClientPc
  <2>2. FreeLoad(c) \/ FreeCas(c, "idle")
    BY <1>1 DEF FreeLate
  <2>3. UNCHANGED queueVars
    BY <1>1 DEF FreeLate
  <2>4. /\ QueueTypeOK' /\ pc' \in [Proc -> ClientPc \cup CtrlPc] /\ Others(c)
        /\ pc[c] \in {"free_load", "free_cas"} /\ pc'[c] \in {"free_load", "free_cas", "idle"}
        /\ pc'[c] \in {"free_load", "free_cas"} => fof'[c] = fof[c]
    BY <2>1, <2>2, <2>3, FreeTyped
  <2> QED
    BY <2>3, <2>4 DEF Typed, Pointers, ClientPc, Calling, queueVars
<1> QED
  BY <1>1, AddTyped, AllocateTyped, LoadFrameTyped, ExcessTyped, PickTyped, LoadSlotTyped, CheckTyped,
     CasTyped DEF AddStep

(* A step of a call preserves the invariant. *)
LEMMA ClientAddInv ==
  ASSUME Inv, NEW c \in Client, ClientAdd(c)
  PROVE  Inv'
<1>1. Typed(c)
  BY CallTypedStep DEF ClientAdd, Inv
<1>2. hist' \in [Fof -> [ins : Nat, born : Nat, given : Nat]]
  BY RecordTyped DEF ClientAdd, Inv
<1>3. CtrlTypeOK'
  BY <1>1, <1>2 DEF ClientAdd, Typed, Inv, CtrlTypeOK
<1>4. pc'[Ctrl] = pc[Ctrl] /\ tail'[Ctrl] = tail[Ctrl]
  BY <1>1, Constants DEF Typed, Others
<1>5. Pointers'
  BY <1>1, <1>4, Constants DEF Typed, Others, Inv, Pointers
<1>6. Flushing'
  BY <1>1, <1>4 DEF Typed, Inv, Flushing, NotFlushing
<1> QED
  BY <1>3, <1>5, <1>6 DEF Inv

-----------------------------------------------------------------------------
(*                   The callback, and JACK between callbacks              *)

(* A step of the ctrl client that moves only its own locals keeps the      *)
(* pointers of the clients.                                                *)
LEMMA CtrlPointers ==
  ASSUME Pointers, NEW from, NEW to \in CtrlPc \ {"flush_walk"}, Goto(Ctrl, from, to),
         \A c \in Client : fof'[c] = fof[c]
  PROVE  Pointers'
<1>1. /\ pc' \in [Proc -> ClientPc \cup CtrlPc] /\ pc'[Ctrl] = to
      /\ \A q \in Proc \ {Ctrl} : pc'[q] = pc[q]
  BY Constants, GotoTyped
<1> QED
  BY <1>1, Constants DEF Pointers

(* The cycle's numbers are numbers. *)
LEMMA JackFacts ==
  ASSUME CtrlTypeOK
  PROVE  jack.pos \in Nat /\ jack.nframes \in Nat /\ jack.time \in Nat /\ jack.cycle \in Nat
<1>1. jack.pos \in Nat /\ jack.time \in Nat /\ jack.cycle \in 0..MaxCycle
      /\ jack.nframes \in Buffers \cup {0}
  BY DEF CtrlTypeOK
<1>2. jack.nframes \in Nat
  <2>1. Buffers \cup {0} \subseteq Nat
    BY Constants
  <2> QED
    BY <1>1, <2>1
<1>3. 0..MaxCycle \subseteq Nat
  BY Constants
<1> QED
  BY <1>1, <1>2, <1>3

(* A new JACK cycle touches only what JACK owns. *)
LEMMA JackCycleInv == ASSUME Inv, JackCycle PROVE Inv'
<1>1. Pointers'
  BY CtrlPointers DEF Inv, JackCycle, CtrlPc
<1>2. pc'[Ctrl] = "begin" /\ pc[Ctrl] = "idle"
  BY Constants DEF JackCycle, Goto, Inv, Pointers
<1>0. jack.pos \in Nat /\ jack.nframes \in Nat /\ jack.time \in Nat /\ jack.cycle \in Nat
      /\ jack.cycle < MaxCycle
  BY JackFacts DEF JackCycle, Inv
<1>3. PICK r \in BOOLEAN, b \in Buffers, A \in SUBSET MayRunAhead, p \in Nat :
       /\ jack' = [cycle |-> jack.cycle + 1, time |-> jack.time + jack.nframes, nframes |-> b,
                   tick |-> 0, pos |-> p, rolling |-> r, ahead |-> A]
       /\ bank' = [d \in Dsp |-> IF d \in A THEN bank[d] + b ELSE bank[d]]
  <2>1. PICK r \in (IF "transport" \in Clocks THEN BOOLEAN ELSE {FALSE}),
             b \in Buffers, A \in SUBSET MayRunAhead :
     \E p \in Locates \cup (IF jack.rolling THEN {jack.pos + jack.nframes} ELSE {jack.pos})
                      \cup (IF jack.rolling /\ ~ r THEN {jack.pos} ELSE {}) :
       /\ jack' = [cycle |-> jack.cycle + 1, time |-> jack.time + jack.nframes, nframes |-> b,
                   tick |-> 0, pos |-> p, rolling |-> r, ahead |-> A]
       /\ bank' = [d \in Dsp |-> IF d \in A THEN bank[d] + b ELSE bank[d]]
    BY DEF JackCycle
  <2>2. r \in BOOLEAN
    BY <2>1
  <2>3. (Locates \cup (IF jack.rolling THEN {jack.pos + jack.nframes} ELSE {jack.pos})
                 \cup (IF jack.rolling /\ ~ r THEN {jack.pos} ELSE {})) \subseteq Nat
    <3>1. Locates \subseteq Nat /\ jack.pos \in Nat /\ jack.pos + jack.nframes \in Nat
      BY <1>0, Constants
    <3> QED
      BY <3>1
  <2> QED
    BY <2>1, <2>2, <2>3
<1>4. A \subseteq Dsp /\ b \in Nat /\ jack.cycle + 1 \in 0..MaxCycle /\ jack.time + jack.nframes \in Nat
  BY <1>0, <1>3, Constants DEF MayRunAhead
<1>5. jack' \in [cycle : 0..MaxCycle, time : Nat, nframes : Buffers \cup {0}, tick : Nat,
                 pos : Nat, rolling : BOOLEAN, ahead : SUBSET Dsp]
  BY <1>3, <1>4
<1>6. bank' \in [Dsp -> Nat]
  BY <1>3, <1>4 DEF Inv, CtrlTypeOK
<1>7. CtrlTypeOK'
  BY <1>5, <1>6 DEF JackCycle, Inv, CtrlTypeOK, QueueTypeOK, queueVars, ringVars, cacheVars, callVars
<1>8. Flushing'
  BY <1>2 DEF JackCycle, Inv, Flushing, queueVars, NotFlushing
<1> QED
  BY <1>1, <1>7, <1>8 DEF Inv

(* The callback of the ctrl client keeps the invariant, step by step: the start of the callback, *)
LEMMA CtrlBeginInv == ASSUME Inv, CtrlBegin PROVE Inv'
<1> DEFINE go == clock_source # ctrl.clock_source
                 \/ (~ (clock_source # ctrl.clock_source) /\ Discontinuity(clock_source, ctrl.syncronized))
<1>1. PICK to \in {"flush", "advance"} : Goto(Ctrl, "begin", to) /\ (go <=> to = "flush")
  BY DEF CtrlBegin
<1>2. Pointers'
  BY <1>1, CtrlPointers DEF CtrlBegin, CtrlPc, Inv
<1>3. pc'[Ctrl] = to /\ pc[Ctrl] = "begin"
  BY <1>1, Constants DEF Goto, Inv, Pointers
<1>4. FrameStamp(clock_source) \in Nat
  BY Constants DEF FrameStamp, Inv, CtrlTypeOK
<1>5. ctrl' \in [clock_source : ClockSource, syncronized : BOOLEAN, transport_frame : Nat,
               rolling : BOOLEAN, last_dsp : Dsp, n : Nat, m : Nat]
  BY <1>4 DEF CtrlBegin, Inv, CtrlTypeOK
<1>6. flush_i' = IF to = "flush" THEN FlushFirst ELSE flush_i
  BY <1>1 DEF CtrlBegin
<1>7. flush_i' \in 0..NotFlushing
  BY <1>6, Constants DEF FlushFirst, NotFlushing, Inv, CtrlTypeOK, QueueTypeOK
<1>8. CtrlTypeOK'
  BY <1>5, <1>7 DEF CtrlBegin, Inv, CtrlTypeOK, QueueTypeOK, ringVars, cacheVars, callVars
<1>9. Flushing'
  BY <1>3, <1>6, Constants DEF Inv, Flushing, FlushFirst, NotFlushing
<1> QED
  BY <1>2, <1>8, <1>9 DEF Inv

(* the advance of next_frame, *)
LEMMA CtrlAdvanceInv == ASSUME Inv, CtrlAdvance PROVE Inv'
<1>1. Pointers'
  BY CtrlPointers DEF Inv, CtrlAdvance, Move, CtrlPc
<1>2. pc'[Ctrl] = "stamp" /\ pc[Ctrl] = "advance"
  BY Constants DEF CtrlAdvance, Move, Goto, Inv, Pointers
<1>3. next_frame' \in Nat
  BY Constants DEF CtrlAdvance, FrameStep, Inv, CtrlTypeOK, QueueTypeOK
<1>4. ctrl' \in [clock_source : ClockSource, syncronized : BOOLEAN, transport_frame : Nat,
               rolling : BOOLEAN, last_dsp : Dsp, n : Nat, m : Nat]
  BY DEF CtrlAdvance, Inv, CtrlTypeOK, QueueTypeOK
<1>5. CtrlTypeOK'
  BY <1>3, <1>4 DEF CtrlAdvance, Move, Inv, CtrlTypeOK, QueueTypeOK, ringVars, cacheVars, callVars
<1>6. Flushing'
  BY <1>2 DEF CtrlAdvance, Inv, Flushing, NotFlushing
<1> QED
  BY <1>1, <1>5, <1>6 DEF Inv

(* the store of frame_stamp, with the banks moved to the frame of the cycle, *)
LEMMA CtrlStampInv == ASSUME Inv, CtrlStamp PROVE Inv'
<1>1. Pointers'
  BY CtrlPointers DEF Inv, CtrlStamp, Move, CtrlPc
<1>2. pc'[Ctrl] = "take" /\ pc[Ctrl] = "stamp"
  BY Constants DEF CtrlStamp, Move, Goto, Inv, Pointers
<1>3. frame_stamp' \in Nat /\ bank' \in [Dsp -> Nat]
  BY DEF CtrlStamp, Inv, CtrlTypeOK
<1>4. ctrl' \in [clock_source : ClockSource, syncronized : BOOLEAN, transport_frame : Nat,
               rolling : BOOLEAN, last_dsp : Dsp, n : Nat, m : Nat]
  BY DEF CtrlStamp, Inv, CtrlTypeOK
<1>5. CtrlTypeOK'
  BY <1>3, <1>4 DEF CtrlStamp, Move, Inv, CtrlTypeOK, QueueTypeOK, queueVars, ringVars, cacheVars, callVars
<1>6. Flushing'
  BY <1>2 DEF CtrlStamp, Inv, Flushing, NotFlushing, queueVars
<1> QED
  BY <1>1, <1>5, <1>6 DEF Inv

(* the exchange that takes the slot, *)
LEMMA CtrlTakeInv == ASSUME Inv, CtrlTake PROVE Inv'
<1>0. PICK s \in Slot : s = SlotOf(ctrl.n)
  BY SlotTyped DEF Inv, CtrlTypeOK
<1>a. slot[s] \in Ptr /\ NULL \in Ptr /\ Ctrl \in Proc
  BY Constants DEF Inv, CtrlTypeOK, QueueTypeOK, Ptr
<1>b. /\ Goto(Ctrl, "take", "deliver") /\ slot' = [slot EXCEPT ![s] = NULL]
      /\ own' = [f \in Fof |-> IF own[f] = s THEN Ctrl ELSE own[f]]
      /\ fof' = [fof EXCEPT ![Ctrl] = slot[s]] /\ exp' = [exp EXCEPT ![Ctrl] = slot[s]]
      /\ UNCHANGED <<free_fofs, next, tail, excess, next_frame, cacheVars,
                     callVars, flush_i, clock_source, serverVars>>
  BY <1>0 DEF CtrlTake, Detach
<1>1. Pointers'
  <2>1. \A c \in Client : fof'[c] = fof[c]
    BY <1>b, Constants DEF Inv, CtrlTypeOK, QueueTypeOK
  <2> QED
    BY <1>b, <2>1, CtrlPointers DEF Inv, CtrlPc
<1>2. pc'[Ctrl] = "deliver" /\ pc[Ctrl] = "take"
  BY <1>b, Constants DEF Goto, Inv, Pointers
<1>3. own' \in [Fof -> Proc \cup Slot \cup {FREE, EXCESS}]
  BY <1>a, <1>b DEF Inv, CtrlTypeOK, QueueTypeOK
<1>4. fof' \in [Proc -> Ptr] /\ exp' \in [Proc -> Ptr] /\ slot' \in [Slot -> Ptr]
  BY <1>a, <1>b DEF Inv, CtrlTypeOK, QueueTypeOK
<1>5. CtrlTypeOK'
  BY <1>b, <1>3, <1>4 DEF Inv, CtrlTypeOK, QueueTypeOK, cacheVars, callVars, serverVars
<1>6. Flushing'
  BY <1>b, <1>2 DEF Inv, Flushing, NotFlushing
<1> QED
  BY <1>1, <1>5, <1>6 DEF Inv

(* the delivery of the fofs taken to the banks, *)
LEMMA CtrlDeliverInv == ASSUME Inv, CtrlDeliver PROVE Inv'
<1>0. pc[Ctrl] = "deliver" /\ Ctrl \in Proc
      /\ UNCHANGED <<free_fofs, next, fof, own, queueVars, clock_source, frame_stamp, jack, bank>>
  BY Constants DEF CtrlDeliver
<1>1. CASE exp[Ctrl] # NULL
  <2>1. PICK f \in Fof : f = exp[Ctrl]
    BY <1>0, <1>1 DEF Inv, CtrlTypeOK, QueueTypeOK, Ptr
  <2>2. /\ hist' = [hist EXCEPT ![f].given = @ + 1]
        /\ ctrl' = [ctrl EXCEPT !.last_dsp = (@ + 1) % NDsp]
        /\ tail' = [tail EXCEPT ![Ctrl] = f]
        /\ exp' = [exp EXCEPT ![Ctrl] = next[f]] /\ pc' = pc
    BY <1>1, <2>1 DEF CtrlDeliver
  <2>3. (ctrl.last_dsp + 1) % NDsp \in Dsp
    <3>1. ctrl.last_dsp + 1 \in Nat
      BY Constants DEF Inv, CtrlTypeOK, Dsp
    <3> QED
      BY <3>1, Constants, DivMod DEF Dsp
  <2>4. ctrl' \in [clock_source : ClockSource, syncronized : BOOLEAN, transport_frame : Nat,
                   rolling : BOOLEAN, last_dsp : Dsp, n : Nat, m : Nat]
    BY <2>2, <2>3 DEF Inv, CtrlTypeOK
  <2>5. hist' \in [Fof -> [ins : Nat, born : Nat, given : Nat]]
    BY <2>1, <2>2 DEF Inv, CtrlTypeOK
  <2>6. tail' \in [Proc -> Ptr] /\ exp' \in [Proc -> Ptr]
    BY <1>0, <2>1, <2>2 DEF Inv, CtrlTypeOK, QueueTypeOK, Ptr
  <2>7. CtrlTypeOK'
    BY <1>0, <2>4, <2>5, <2>6 DEF Inv, CtrlTypeOK, QueueTypeOK, queueVars, ringVars, cacheVars, callVars
  <2>8. Pointers'
    BY <1>0, <2>2 DEF Inv, Pointers
  <2>9. Flushing'
    BY <1>0, <2>2 DEF Inv, Flushing, NotFlushing, queueVars
  <2> QED
    BY <2>7, <2>8, <2>9 DEF Inv
<1>2. CASE exp[Ctrl] = NULL
  <2>1. PICK to \in {"dsp", "free_load"} : Goto(Ctrl, "deliver", to)
    BY <1>2 DEF CtrlDeliver
  <2>2. UNCHANGED <<hist, ctrl, tail, exp>>
    BY <1>2 DEF CtrlDeliver
  <2>3. Pointers'
    BY <1>0, <2>1, CtrlPointers DEF Inv, CtrlPc
  <2>4. CtrlTypeOK'
    BY <1>0, <2>2 DEF Inv, CtrlTypeOK, QueueTypeOK, queueVars, ringVars, cacheVars, callVars
  <2>5. pc'[Ctrl] = to
    BY <1>0, <2>1 DEF Goto, Inv, Pointers
  <2>6. Flushing'
    BY <1>0, <2>5 DEF Inv, Flushing, NotFlushing, queueVars
  <2> QED
    BY <2>3, <2>4, <2>6 DEF Inv
<1> QED
  BY <1>1, <1>2

(* the push of the delivered fofs onto the free list, *)
LEMMA CtrlFreeInv == ASSUME Inv, CtrlFree PROVE Inv'
<1>1. PICK ret \in {"dsp", "flush"} : /\ FreeLoad(Ctrl) \/ FreeCas(Ctrl, ret)
                                     /\ ret = IF flush_i = NotFlushing THEN "dsp" ELSE "flush"
  BY DEF CtrlFree
<1>2. /\ QueueTypeOK' /\ pc' \in [Proc -> ClientPc \cup CtrlPc] /\ Others(Ctrl)
      /\ pc[Ctrl] \in {"free_load", "free_cas"} /\ pc'[Ctrl] \in {"free_load", "free_cas", ret}
  BY <1>1, FreeTyped, Constants DEF Inv, CtrlFree
<1>3. CtrlTypeOK'
  BY <1>2, RecordTyped DEF CtrlFree, Inv, CtrlTypeOK
<1>4. Pointers'
  BY <1>1, <1>2, Constants DEF Inv, Pointers, Others, CtrlPc
<1>5. Flushing'
  BY <1>1, <1>2 DEF Inv, Flushing, CtrlFree, queueVars, NotFlushing
<1> QED
  BY <1>3, <1>4, <1>5 DEF Inv

(* the process callbacks of the dsp clients, *)
LEMMA DspProcessInv == ASSUME Inv, DspProcess PROVE Inv'
<1>1. Pointers'
  BY CtrlPointers DEF Inv, DspProcess, Move, CtrlPc
<1>2. pc'[Ctrl] = "idle" /\ pc[Ctrl] = "dsp"
  BY Constants DEF DspProcess, Move, Goto, Inv, Pointers
<1>3. bank' \in [Dsp -> Nat]
  BY JackFacts DEF DspProcess, Inv, CtrlTypeOK
<1>4. CtrlTypeOK'
  BY <1>3 DEF DspProcess, Move, Inv, CtrlTypeOK, QueueTypeOK, queueVars, ringVars, cacheVars, callVars
<1>5. Flushing'
  BY <1>2 DEF DspProcess, Inv, Flushing, NotFlushing, queueVars
<1> QED
  BY <1>1, <1>4, <1>5 DEF Inv

(* The release of a slot, or of the excess list. *)
LEMMA ReleaseInv ==
  ASSUME Inv, NEW w \in Slot \cup {EXCESS}, NEW head \in Ptr, Release(w, head),
         flush_i \in 0..NSlots, slot' \in [Slot -> Ptr], excess' \in Ptr,
         UNCHANGED <<clock_source, serverVars>>
  PROVE  Inv'
<1>0. /\ Ctrl \in Proc /\ fof' = [fof EXCEPT ![Ctrl] = head]
      /\ own' = [f \in Fof |-> IF own[f] = w THEN Ctrl ELSE own[f]]
      /\ tail' = [tail EXCEPT ![Ctrl] = head] /\ flush_i' = flush_i + 1
      /\ UNCHANGED <<free_fofs, next, exp, next_frame, cacheVars, callVars>>
  BY Constants DEF Release, Detach
<1>1. PICK to \in {"flush", "flush_walk"} :
        Goto(Ctrl, "flush", to) /\ to = IF head = NULL THEN "flush" ELSE "flush_walk"
  BY DEF Release
<1>2. /\ pc' \in [Proc -> ClientPc \cup CtrlPc] /\ pc'[Ctrl] = to /\ pc[Ctrl] = "flush"
      /\ \A q \in Proc \ {Ctrl} : pc'[q] = pc[q]
  BY <1>0, <1>1, GotoTyped DEF Inv, CtrlPc
<1>3. /\ fof' \in [Proc -> Ptr] /\ tail' \in [Proc -> Ptr] /\ tail'[Ctrl] = head
      /\ \A q \in Proc \ {Ctrl} : fof'[q] = fof[q]
  BY <1>0 DEF Inv, CtrlTypeOK, QueueTypeOK
<1>4. own' \in [Fof -> Proc \cup Slot \cup {FREE, EXCESS}]
  BY <1>0 DEF Inv, CtrlTypeOK, QueueTypeOK
<1>5. flush_i' \in 0..NotFlushing /\ flush_i' # NotFlushing
  BY <1>0, Constants DEF NotFlushing
<1>6. CtrlTypeOK'
  BY <1>0, <1>3, <1>4, <1>5 DEF Inv, CtrlTypeOK, QueueTypeOK, cacheVars, callVars, serverVars
<1>7. Pointers'
  BY <1>1, <1>2, <1>3, Constants DEF Inv, Pointers, CtrlPc
<1>8. Flushing'
  BY <1>2, <1>5 DEF Flushing, NotFlushing
<1> QED
  BY <1>6, <1>7, <1>8 DEF Inv

(* and the flush, one list at a time. *)
LEMMA CtrlFlushInv == ASSUME Inv, CtrlFlush PROVE Inv'
<1>0. UNCHANGED <<clock_source, serverVars>> /\ Ctrl \in Proc /\ NULL \in Ptr
      /\ flush_i \in 0..NotFlushing
  BY Constants DEF CtrlFlush, Ptr, Inv, CtrlTypeOK, QueueTypeOK
<1>1. CASE FlushRing
  <2>1. flush_i \in Slot /\ flush_i \in 0..NSlots /\ slot[flush_i] \in Ptr
    BY <1>0, <1>1, Constants DEF FlushRing, Slot, Inv, CtrlTypeOK, QueueTypeOK
  <2>2. slot' \in [Slot -> Ptr] /\ excess' \in Ptr
    BY <1>0, <1>1 DEF FlushRing, Inv, CtrlTypeOK, QueueTypeOK
  <2> QED
    BY <1>0, <1>1, <2>1, <2>2, ReleaseInv DEF FlushRing
<1>2. CASE FlushExcess
  <2>1. flush_i \in 0..NSlots /\ excess \in Ptr
    BY <1>0, <1>2, Constants DEF FlushExcess, Inv, CtrlTypeOK, QueueTypeOK
  <2>2. slot' \in [Slot -> Ptr] /\ excess' \in Ptr
    BY <1>0, <1>2 DEF FlushExcess, Inv, CtrlTypeOK, QueueTypeOK
  <2> QED
    BY <1>0, <1>2, <2>1, <2>2, ReleaseInv DEF FlushExcess
<1>3. CASE FlushWalk
  <2>0. pc[Ctrl] = "flush_walk" /\ UNCHANGED <<free_fofs, next, fof, exp, own, queueVars>>
    BY <1>3 DEF FlushWalk
  <2>1. PICK t \in Fof : t = tail[Ctrl]
    BY <1>0, <2>0 DEF Inv, Pointers, CtrlTypeOK, QueueTypeOK, Ptr
  <2>2. CASE next[t] # NULL /\ tail' = [tail EXCEPT ![Ctrl] = next[t]] /\ UNCHANGED pc
    <3>1. tail' \in [Proc -> Ptr] /\ tail'[Ctrl] # NULL
      BY <1>0, <2>1, <2>2 DEF Inv, CtrlTypeOK, QueueTypeOK
    <3>2. CtrlTypeOK'
      BY <1>0, <2>0, <3>1 DEF Inv, CtrlTypeOK, QueueTypeOK, queueVars, ringVars, cacheVars, callVars,
         serverVars
    <3>3. Pointers' /\ Flushing'
      BY <2>0, <2>2, <3>1 DEF Inv, Pointers, Flushing, queueVars, NotFlushing
    <3> QED
      BY <3>2, <3>3 DEF Inv
  <2>3. CASE Goto(Ctrl, "flush_walk", "free_load") /\ UNCHANGED tail
    <3>1. pc'[Ctrl] = "free_load"
      BY <1>0, <2>3 DEF Goto, Inv, Pointers
    <3>2. CtrlTypeOK'
      BY <1>0, <2>0, <2>3 DEF Inv, CtrlTypeOK, QueueTypeOK, queueVars, ringVars, cacheVars, callVars,
         serverVars
    <3>3. Pointers'
      BY <2>0, <2>3, CtrlPointers DEF Inv, CtrlPc
    <3>4. Flushing'
      BY <3>1 DEF Flushing
    <3> QED
      BY <3>2, <3>3, <3>4 DEF Inv
  <2> QED
    BY <1>3, <2>1, <2>2, <2>3 DEF FlushWalk
<1>4. CASE FlushSlot
  <2>1. Pointers'
    BY <1>4, CtrlPointers DEF Inv, FlushSlot, Move, CtrlPc
  <2>2. pc'[Ctrl] = "flush_check" /\ pc[Ctrl] = "flush"
    BY <1>0, <1>4 DEF FlushSlot, Move, Goto, Inv, Pointers
  <2>3. CtrlTypeOK'
    BY <1>0, <1>4, Constants DEF FlushSlot, Move, Inv, CtrlTypeOK, QueueTypeOK, ringVars, callVars, serverVars
  <2>4. Flushing'
    BY <1>4, <2>2 DEF FlushSlot, Inv, Flushing, NotFlushing
  <2> QED
    BY <2>1, <2>3, <2>4 DEF Inv
<1>5. CASE FlushCheck
  <2>1. Pointers'
    BY <1>5, CtrlPointers DEF Inv, FlushCheck, Move, CtrlPc
  <2>2. pc'[Ctrl] = "advance" /\ pc[Ctrl] = "flush_check"
    BY <1>0, <1>5 DEF FlushCheck, Move, Goto, Inv, Pointers
  <2>3. flush_i' \in 0..NotFlushing
    BY <1>5, Constants DEF FlushCheck, NotFlushing
  <2>4. CtrlTypeOK'
    BY <1>0, <1>5, <2>3 DEF FlushCheck, Move, Inv, CtrlTypeOK, QueueTypeOK, ringVars, callVars, serverVars
  <2>5. Flushing'
    BY <1>5, <2>2 DEF FlushCheck, Inv, Flushing, NotFlushing
  <2> QED
    BY <2>1, <2>4, <2>5 DEF Inv
<1> QED
  BY <1>1, <1>2, <1>3, <1>4, <1>5 DEF CtrlFlush, FlushStep

-----------------------------------------------------------------------------
(* The queue and the server as they start. *)
LEMMA InitInv == CtrlInit => Inv
<1> SUFFICES ASSUME CtrlInit PROVE Inv
  OBVIOUS
<1>1. /\ free_fofs \in Ptr /\ next \in [Fof -> Ptr] /\ NULL \in Ptr
      /\ own \in [Fof -> Proc \cup Slot \cup {FREE, EXCESS}]
  BY Constants DEF CtrlInit, QueueInit, PoolInit, Ptr, Fof, NULL
<1>2. fof \in [Proc -> Ptr] /\ tail \in [Proc -> Ptr] /\ exp \in [Proc -> Ptr]
  BY <1>1 DEF CtrlInit, QueueInit, PoolInit
<1>3. QueueTypeOK
  BY <1>1, <1>2, Constants DEF CtrlInit, QueueInit, QueueTypeOK, Status, NotFlushing
<1>4. CtrlTypeOK
  BY <1>3, Constants DEF CtrlInit, CtrlTypeOK, ClockSource, NoHist
<1>5. Pointers
  BY Constants DEF CtrlInit, QueueInit, PoolInit, Pointers, ClientPc, CtrlPc, Calling
<1>6. Flushing
  BY Constants DEF CtrlInit, QueueInit, PoolInit, Flushing
<1> QED
  BY <1>4, <1>5, <1>6 DEF Inv

(* Every step preserves the invariant. *)
LEMMA StepInv == ASSUME Inv, [Next]_vars PROVE Inv'
<1>1. CASE \E c \in Client : SetClockSource(c)
  BY <1>1, Constants DEF SetClockSource, Inv, CtrlTypeOK, QueueTypeOK, Pointers, Flushing, NotFlushing,
     poolVars, queueVars, ringVars, cacheVars, callVars, serverVars
<1>2. CASE UNCHANGED vars
  BY <1>2 DEF vars, Inv, CtrlTypeOK, QueueTypeOK, Pointers, Flushing, NotFlushing,
     poolVars, queueVars, ringVars, cacheVars, callVars, serverVars
<1> QED
  BY <1>1, <1>2, ClientAddInv, JackCycleInv, CtrlBeginInv, CtrlFlushInv, CtrlAdvanceInv, CtrlStampInv,
     CtrlTakeInv, CtrlDeliverInv, CtrlFreeInv, DspProcessInv DEF Next, CallbackStep, AtRest

(* The state of the queue and the server is well typed and no NULL is      *)
(* followed (CtrlTypeOK), for any number of clients and all clocks.        *)
THEOREM ServerTyped == Spec => []CtrlTypeOK
<1>1. CtrlInit => Inv
  BY InitInv
<1>2. Inv /\ [Next]_vars => Inv'
  BY StepInv
<1>3. Inv => CtrlTypeOK
  BY DEF Inv
<1> QED
  BY <1>1, <1>2, <1>3, PTL DEF Spec

-----------------------------------------------------------------------------
(*                         The flush and the banks                         *)

(* What a client's step leaves alone. *)
LEMMA ClientFrame ==
  ASSUME Inv, NEW c \in Client, ClientAdd(c) \/ SetClockSource(c)
  PROVE  /\ pc'[Ctrl] = pc[Ctrl] /\ fof'[Ctrl] = fof[Ctrl] /\ tail'[Ctrl] = tail[Ctrl]
         /\ exp'[Ctrl] = exp[Ctrl]
         /\ UNCHANGED <<next_frame, flush_i, ctrl, jack, bank>>
<1>1. CASE ClientAdd(c)
  <2>1. Typed(c)
    BY <1>1, CallTypedStep DEF ClientAdd, Inv
  <2> QED
    BY <1>1, <2>1, Constants DEF Typed, Others, ClientAdd
<1>2. CASE SetClockSource(c)
  BY <1>2 DEF SetClockSource, poolVars, queueVars, serverVars
<1> QED
  BY <1>1, <1>2

(* The callback's program counter, before and after each of its steps.     *)
LEMMA CtrlMoves ==
  ASSUME Inv
  PROVE  /\ JackCycle => pc[Ctrl] = "idle" /\ pc'[Ctrl] = "begin"
         /\ CtrlBegin => pc[Ctrl] = "begin" /\ pc'[Ctrl] \in {"flush", "advance"}
         /\ CtrlAdvance => pc[Ctrl] = "advance" /\ pc'[Ctrl] = "stamp"
         /\ CtrlStamp => pc[Ctrl] = "stamp" /\ pc'[Ctrl] = "take"
         /\ CtrlTake => pc[Ctrl] = "take" /\ pc'[Ctrl] = "deliver"
         /\ CtrlDeliver => pc[Ctrl] = "deliver" /\ pc'[Ctrl] \in {"deliver", "dsp", "free_load"}
         /\ CtrlFree => /\ pc[Ctrl] \in {"free_load", "free_cas"}
                        /\ pc'[Ctrl] \in {"free_load", "free_cas",
                                          IF flush_i = NotFlushing THEN "dsp" ELSE "flush"}
         /\ DspProcess => pc[Ctrl] = "dsp" /\ pc'[Ctrl] = "idle"
<1>0. Ctrl \in Proc /\ pc \in [Proc -> ClientPc \cup CtrlPc]
  BY Constants DEF Inv, Pointers
<1>1. JackCycle => pc[Ctrl] = "idle" /\ pc'[Ctrl] = "begin"
  BY <1>0 DEF JackCycle, Goto
<1>2. CtrlBegin => pc[Ctrl] = "begin" /\ pc'[Ctrl] \in {"flush", "advance"}
  BY <1>0 DEF CtrlBegin, Goto
<1>3. CtrlAdvance => pc[Ctrl] = "advance" /\ pc'[Ctrl] = "stamp"
  BY <1>0 DEF CtrlAdvance, Move, Goto
<1>4. CtrlStamp => pc[Ctrl] = "stamp" /\ pc'[Ctrl] = "take"
  BY <1>0 DEF CtrlStamp, Move, Goto
<1>5. CtrlTake => pc[Ctrl] = "take" /\ pc'[Ctrl] = "deliver"
  BY <1>0 DEF CtrlTake, Goto
<1>6. CtrlDeliver => pc[Ctrl] = "deliver" /\ pc'[Ctrl] \in {"deliver", "dsp", "free_load"}
  BY <1>0 DEF CtrlDeliver, Goto
<1>7. CtrlFree => /\ pc[Ctrl] \in {"free_load", "free_cas"}
                  /\ pc'[Ctrl] \in {"free_load", "free_cas",
                                    IF flush_i = NotFlushing THEN "dsp" ELSE "flush"}
  BY <1>0 DEF CtrlFree, FreeLoad, FreeCas, Goto
<1>8. DspProcess => pc[Ctrl] = "dsp" /\ pc'[Ctrl] = "idle"
  BY <1>0 DEF DspProcess, Move, Goto
<1> QED
  BY <1>1, <1>2, <1>3, <1>4, <1>5, <1>6, <1>7, <1>8

(* The same for the flush, and what it does to flush_i. *)
LEMMA FlushMoves ==
  ASSUME Inv, CtrlFlush
  PROVE  /\ UNCHANGED <<ctrl, jack, bank, hist, next_frame>> /\ flush_i # NotFlushing
         /\ \/ /\ pc[Ctrl] = "flush" /\ pc'[Ctrl] \in {"flush", "flush_walk"}
               /\ flush_i \in 0..NSlots /\ flush_i' = flush_i + 1
               /\ own' = [f \in Fof |-> IF own[f] = (IF flush_i = NSlots THEN EXCESS ELSE flush_i)
                                       THEN Ctrl ELSE own[f]]
            \/ /\ pc[Ctrl] = "flush_walk" /\ pc'[Ctrl] \in {"flush_walk", "free_load"}
               /\ UNCHANGED <<flush_i, own>>
            \/ /\ pc[Ctrl] = "flush" /\ pc'[Ctrl] = "flush_check" /\ flush_i = NSlots + 1
               /\ UNCHANGED <<flush_i, own>>
            \/ /\ pc[Ctrl] = "flush_check" /\ pc'[Ctrl] = "advance" /\ flush_i' = NotFlushing
               /\ UNCHANGED own
<1>0. Ctrl \in Proc /\ pc \in [Proc -> ClientPc \cup CtrlPc] /\ flush_i \in 0..NotFlushing
  BY Constants DEF Inv, Pointers, CtrlTypeOK, QueueTypeOK
<1>1. UNCHANGED <<ctrl, jack, bank, hist, next_frame>>
  BY DEF CtrlFlush, serverVars, FlushStep, FlushRing, FlushExcess, FlushWalk, FlushSlot, FlushCheck,
     Release, queueVars
<1>2. CASE FlushRing
  <2>1. pc[Ctrl] = "flush" /\ pc'[Ctrl] \in {"flush", "flush_walk"}
    BY <1>0, <1>2 DEF FlushRing, Release, Goto
  <2>2. flush_i \in 0..NSlots /\ flush_i # NSlots
    BY <1>0, <1>2, Constants DEF FlushRing, NotFlushing
  <2> QED
    BY <1>1, <1>2, <2>1, <2>2 DEF FlushRing, Release, Detach, Inv, Flushing
<1>3. CASE FlushExcess
  <2>1. pc[Ctrl] = "flush" /\ pc'[Ctrl] \in {"flush", "flush_walk"}
    BY <1>0, <1>3 DEF FlushExcess, Release, Goto
  <2> QED
    BY <1>0, <1>1, <1>3, <2>1, Constants DEF FlushExcess, Release, Detach, Inv, Flushing
<1>4. CASE FlushWalk
  BY <1>0, <1>1, <1>4 DEF FlushWalk, Goto, queueVars, Inv, Flushing
<1>5. CASE FlushSlot
  BY <1>0, <1>1, <1>5 DEF FlushSlot, Move, Goto, Inv, Flushing
<1>6. CASE FlushCheck
  BY <1>0, <1>1, <1>6 DEF FlushCheck, Move, Goto, Inv, Flushing
<1> QED
  BY <1>2, <1>3, <1>4, <1>5, <1>6 DEF CtrlFlush, FlushStep

(* The first step either starts a flush or leaves the clock as it is. *)
LEMMA BeginFacts ==
  ASSUME Inv, CtrlBegin
  PROVE  /\ pc[Ctrl] = "begin" /\ flush_i = NotFlushing
         /\ \/ pc'[Ctrl] = "flush" /\ flush_i' = 0 /\ ~ ctrl'.syncronized
            \/ /\ pc'[Ctrl] = "advance" /\ flush_i' = flush_i
               /\ ctrl'.syncronized <=> ctrl.syncronized
               /\ ctrl'.clock_source = ctrl.clock_source
         /\ UNCHANGED <<jack, next_frame, bank, own, hist>>
<1>0. Ctrl \in Proc /\ pc \in [Proc -> ClientPc \cup CtrlPc]
  BY Constants DEF Inv, Pointers
<1>1. pc[Ctrl] = "begin" /\ flush_i = NotFlushing
  BY CtrlMoves DEF Inv, Flushing
<1>2. UNCHANGED <<jack, next_frame, bank, own, hist>>
  BY DEF CtrlBegin
<1> DEFINE change == clock_source # ctrl.clock_source
           jump == ~ change /\ Discontinuity(clock_source, ctrl.syncronized)
<1>3. ctrl'.syncronized <=> ctrl.syncronized /\ ~ change /\ ~ jump
  BY DEF CtrlBegin, StaysInStep, Inv, CtrlTypeOK
<1>4. ctrl'.clock_source = clock_source
  BY DEF CtrlBegin, Inv, CtrlTypeOK
<1>5. CASE change \/ jump
  BY <1>0, <1>1, <1>2, <1>3, <1>5 DEF CtrlBegin, Goto, FlushFirst
<1>6. CASE ~ change /\ ~ jump
  BY <1>0, <1>1, <1>2, <1>3, <1>4, <1>6 DEF CtrlBegin, Goto
<1> QED
  BY <1>5, <1>6

(* syncronized follows the callback. *)
LEMMA StepSynced == ASSUME Inv, Synced, [Next]_vars PROVE Synced'
<1> USE DEF Synced, Playing
<1>a. jack.cycle \in Nat /\ ctrl.syncronized \in BOOLEAN
  BY JackFacts DEF Inv, CtrlTypeOK
<1>1. ASSUME NEW c \in Client, ClientAdd(c) \/ SetClockSource(c) PROVE Synced'
  BY <1>1, ClientFrame DEF NotFlushing
<1>2. CASE JackCycle
  <2>1. jack'.cycle = jack.cycle + 1 /\ UNCHANGED <<ctrl, flush_i>>
    BY <1>2 DEF JackCycle, queueVars
  <2> QED
    BY <1>2, <1>a, <2>1, CtrlMoves DEF NotFlushing
<1>3. CASE CtrlBegin
  BY <1>3, <1>a, BeginFacts DEF NotFlushing
<1>4. CASE CtrlFlush
  BY <1>4, <1>a, FlushMoves, Constants DEF NotFlushing
<1>5. CASE CtrlAdvance
  <2>1. (ctrl'.syncronized <=> ctrl.syncronized) /\ UNCHANGED <<jack, flush_i>>
    BY <1>5 DEF CtrlAdvance, Inv, CtrlTypeOK
  <2> QED
    BY <1>5, <1>a, <2>1, CtrlMoves DEF NotFlushing
<1>6. CASE CtrlStamp
  <2>1. ctrl'.syncronized /\ UNCHANGED <<jack, flush_i>>
    BY <1>6 DEF CtrlStamp, queueVars, Inv, CtrlTypeOK
  <2> QED
    BY <1>6, <2>1, CtrlMoves DEF NotFlushing, Inv, Flushing
<1>7. CASE CtrlTake
  BY <1>7, CtrlMoves DEF CtrlTake, serverVars, NotFlushing
<1>8. CASE CtrlDeliver
  <2>1. (ctrl'.syncronized <=> ctrl.syncronized) /\ UNCHANGED <<jack, flush_i>>
    BY <1>8 DEF CtrlDeliver, queueVars, Inv, CtrlTypeOK
  <2> QED
    BY <1>8, <2>1, CtrlMoves DEF NotFlushing, Inv, Flushing
<1>9. CASE CtrlFree
  BY <1>9, CtrlMoves DEF CtrlFree, queueVars, NotFlushing
<1>10. CASE DspProcess
  BY <1>10, CtrlMoves DEF DspProcess, queueVars, NotFlushing
<1>11. CASE UNCHANGED vars
  BY <1>11 DEF vars, poolVars, queueVars, serverVars, NotFlushing
<1> QED
  BY <1>1, <1>2, <1>3, <1>4, <1>5, <1>6, <1>7, <1>8, <1>9, <1>10, <1>11
     DEF Next, CallbackStep, AtRest

(* A fof that enters the queue is born in the cycle that runs. *)
LEMMA BornNow ==
  ASSUME Inv, Record, NEW f \in Fof, own'[f] \in Slot \cup {EXCESS}, own'[f] # own[f]
  PROVE  hist'[f].born = jack.cycle
BY DEF Record

(* The flush drains what it passes, however the clients add behind it. *)
LEMMA StepDrained == ASSUME Inv, Synced, Drained, [Next]_vars PROVE Drained'
<1>a. jack.cycle \in Nat /\ ctrl.syncronized \in BOOLEAN /\ flush_i \in Nat /\ Slot \subseteq Nat
      /\ EXCESS \notin Slot /\ Ctrl \notin Slot /\ Ctrl # EXCESS /\ NSlots \in Nat /\ FREE \notin Slot
      /\ FREE # EXCESS
  <2>1. jack.cycle \in Nat /\ ctrl.syncronized \in BOOLEAN /\ flush_i \in 0..NSlots + 2
    BY JackFacts DEF Inv, CtrlTypeOK, QueueTypeOK, NotFlushing
  <2>2. Slot \subseteq Nat
    BY DEF Slot
  <2> QED
    BY <2>1, <2>2, Constants
(* The parts but the first follow from this alone when the flush does not move. *)
<1>b. ASSUME UNCHANGED <<flush_i, jack>>, (ctrl'.syncronized <=> ctrl.syncronized),
             pc'[Ctrl] = "flush_check" => flush_i = NSlots + 1,
             pc'[Ctrl] = "advance" => pc[Ctrl] = "advance",
             \A f \in Fof : own'[f] \in Slot \cup {EXCESS} =>
                \/ own'[f] = own[f] /\ hist'[f].born = hist[f].born
                \/ hist'[f].born = jack.cycle
      PROVE  Drained'
  BY <1>a, <1>b DEF Drained, Passed, FlushDrains, Linked, NotFlushing
<1>1. ASSUME NEW c \in Client, ClientAdd(c) PROVE Drained'
  <2>1. \A f \in Fof : own'[f] = own[f] => hist'[f] = hist[f]
    BY <1>1 DEF ClientAdd, Record
  <2> QED
    BY <1>1, <1>b, <2>1, ClientFrame, BornNow DEF ClientAdd, Drained
<1>2. CASE JackCycle
  <2>1. flush_i' = NotFlushing /\ pc'[Ctrl] = "begin"
    BY <1>2, CtrlMoves DEF JackCycle, queueVars, Inv, Flushing
  <2> QED
    BY <2>1 DEF Drained, FlushDrains, NotFlushing
<1>3. CASE CtrlBegin
  <2>1. CASE pc'[Ctrl] = "flush"
    <3>1. flush_i' = 0
      BY <1>3, <2>1, BeginFacts
    <3>2. \A n \in Slot : ~ (n < 0)
      BY Constants DEF Slot
    <3>3. \A f \in Fof : ~ Passed(f)'
      BY <3>1, <3>2, Constants DEF Passed
    <3> QED
      BY <2>1, <3>3 DEF Drained, FlushDrains
  <2>2. CASE pc'[Ctrl] = "advance"
    BY <1>3, <1>a, <2>2, BeginFacts DEF Drained, FlushDrains, Synced, NotFlushing
  <2> QED
    BY <1>3, <2>1, <2>2, BeginFacts
<1>4. CASE CtrlFlush
  <2>0. UNCHANGED <<ctrl, jack, hist>> /\ flush_i # NotFlushing
    BY <1>4, FlushMoves
  <2>1. CASE /\ pc'[Ctrl] \in {"flush", "flush_walk"}
             /\ flush_i \in 0..NSlots /\ flush_i' = flush_i + 1
             /\ own' = [f \in Fof |-> IF own[f] = (IF flush_i = NSlots THEN EXCESS ELSE flush_i)
                                       THEN Ctrl ELSE own[f]]
    <3>1. SUFFICES ASSUME NEW f \in Fof, Passed(f)' PROVE hist'[f].born = jack'.cycle
      BY <2>1 DEF Drained, FlushDrains
    <3>2. own'[f] = own[f] /\ own[f] # (IF flush_i = NSlots THEN EXCESS ELSE flush_i)
      BY <1>a, <2>1, <3>1 DEF Passed
    <3>3. Passed(f)
      BY <1>a, <2>1, <3>1, <3>2 DEF Slot, Passed
    <3> QED
      BY <2>0, <3>3 DEF Drained
  <2>2. CASE pc'[Ctrl] \in {"flush_walk", "free_load"} /\ UNCHANGED <<flush_i, own>>
    BY <1>b, <2>0, <2>2
  <2>3. CASE pc'[Ctrl] = "flush_check" /\ flush_i = NSlots + 1 /\ UNCHANGED <<flush_i, own>>
    BY <1>b, <2>0, <2>3
  <2>4. CASE /\ pc[Ctrl] = "flush_check" /\ pc'[Ctrl] = "advance" /\ flush_i' = NotFlushing
             /\ UNCHANGED own
    BY <1>a, <2>0, <2>4 DEF Drained, Passed, FlushDrains, Linked, NotFlushing, Slot
  <2> QED
    BY <1>4, <2>1, <2>2, <2>3, <2>4, FlushMoves
<1>5. ASSUME pc'[Ctrl] \notin {"flush_check", "advance"}, flush_i' = flush_i, flush_i = NotFlushing
      PROVE  Drained'
  BY <1>5 DEF Drained, FlushDrains, NotFlushing
<1>6. CASE CtrlAdvance \/ CtrlStamp \/ CtrlTake \/ CtrlDeliver \/ DspProcess
  <2>1. flush_i' = flush_i
    BY <1>6 DEF CtrlAdvance, CtrlStamp, CtrlTake, CtrlDeliver, DspProcess, queueVars
  <2> QED
    BY <1>5, <1>6, <2>1, CtrlMoves DEF Inv, Flushing
<1>7. CASE CtrlFree
  <2>1. \A f \in Fof : own'[f] \in Slot \cup {EXCESS} => own'[f] = own[f]
    BY <1>7, <1>a DEF CtrlFree, FreeLoad, FreeCas, Inv, CtrlTypeOK, QueueTypeOK
  <2>2. \A f \in Fof : own'[f] = own[f] => hist'[f] = hist[f]
    BY <1>7 DEF CtrlFree, Record
  <2> QED
    BY <1>7, <1>b, <2>1, <2>2, CtrlMoves DEF CtrlFree, queueVars, NotFlushing
<1>8. CASE \E c \in Client : SetClockSource(c)
  BY <1>8 DEF SetClockSource, Drained, Passed, FlushDrains, Linked, NotFlushing, poolVars, queueVars, serverVars
<1>9. CASE UNCHANGED vars
  BY <1>9 DEF vars, Drained, Passed, FlushDrains, Linked, NotFlushing, poolVars, queueVars, serverVars
<1> QED
  BY <1>1, <1>2, <1>3, <1>4, <1>6, <1>7, <1>8, <1>9 DEF Next, CallbackStep, AtRest

(* A flush leaves nothing in the ring or the excess list that was there    *)
(* when its cycle began (FlushDrains, fof_queue_flush), whatever any       *)
(* number of clients add to slots it has passed or not.                    *)
THEOREM ServerFlushDrains == Spec => []FlushDrains
<1> DEFINE I == Inv /\ Synced /\ Drained
<1>1. CtrlInit => I
  <2> SUFFICES ASSUME CtrlInit PROVE I
    OBVIOUS
  <2>1. pc[Ctrl] = "idle" /\ flush_i = NotFlushing /\ jack.cycle = 0
    BY Constants DEF CtrlInit, QueueInit, PoolInit
  <2>2. Synced /\ Drained
    BY <2>1 DEF Synced, Playing, Drained, FlushDrains
  <2> QED
    BY <2>2, InitInv
<1>2. I /\ [Next]_vars => I'
  BY StepInv, StepSynced, StepDrained
<1>3. I => FlushDrains
  BY DEF Drained
<1> QED
  BY <1>1, <1>2, <1>3, PTL DEF Spec

-----------------------------------------------------------------------------
(* manager_connect_clients takes effect before the first cycle: JACK runs  *)
(* every dsp client behind the ctrl client.                                *)
WiredAtOnce == MaxUnwired = 0

(* The banks follow the frame time clock and are set everywhere else. *)
LEMMA StepBanks ==
  ASSUME WiredAtOnce, Inv, Synced, BanksFollow, [Next]_vars
  PROVE  BanksFollow'
<1>a. /\ ctrl.syncronized \in BOOLEAN /\ next_frame \in Nat /\ jack.nframes \in Nat /\ ctrl.n \in Nat
      /\ bank \in [Dsp -> Nat]
  BY JackFacts DEF Inv, CtrlTypeOK, QueueTypeOK
<1>b. Synced'
  BY StepSynced
<1>1. ASSUME NEW c \in Client, ClientAdd(c) \/ SetClockSource(c) PROVE BanksFollow'
  BY <1>1, ClientFrame DEF BanksFollow, Playing, NotFlushing, UsesTransport
<1>2. CASE JackCycle
  <2>1. MayRunAhead = {}
    BY JackFacts, <1>a DEF MayRunAhead, WiredAtOnce, Inv
  <2>2. jack'.ahead = {} /\ bank' = [d \in Dsp |-> bank[d]]
    BY <1>2, <2>1 DEF JackCycle
  <2>3. UNCHANGED <<ctrl, next_frame, flush_i>>
    BY <1>2 DEF JackCycle, queueVars
  <2> QED
    BY <1>2, <1>a, <2>2, <2>3, CtrlMoves DEF BanksFollow, Playing, UsesTransport
<1>3. CASE CtrlBegin
  <2>1. CASE pc'[Ctrl] = "flush" /\ flush_i' = 0
    BY <1>3, <2>1, BeginFacts DEF BanksFollow, Playing
  <2>2. CASE pc'[Ctrl] = "advance"
    BY <1>3, <1>a, <2>2, BeginFacts DEF BanksFollow, Playing, UsesTransport
  <2> QED
    BY <1>3, <2>1, <2>2, BeginFacts
<1>4. CASE CtrlFlush
  <2>1. UNCHANGED <<ctrl, jack, bank, next_frame>> /\ ~ ctrl.syncronized
    BY <1>4, FlushMoves DEF Synced
  <2>2. pc'[Ctrl] # "stamp"
    BY <1>4, FlushMoves
  <2> QED
    BY <1>b, <2>1, <2>2 DEF BanksFollow, Synced
<1>5. CASE CtrlAdvance
  <2>1. /\ (ctrl'.syncronized <=> ctrl.syncronized) /\ ctrl'.clock_source = ctrl.clock_source
        /\ UNCHANGED <<jack, bank, flush_i>>
    BY <1>5 DEF CtrlAdvance, Inv, CtrlTypeOK
  <2>2. ~ UsesTransport(ctrl.clock_source) =>
          ctrl'.n = next_frame /\ next_frame' = ctrl'.n + jack.nframes
    BY <1>5 DEF CtrlAdvance, FrameStep, Inv, CtrlTypeOK
  <2> QED
    BY <1>5, <2>1, <2>2, CtrlMoves DEF BanksFollow, Playing, UsesTransport
<1>6. CASE CtrlStamp
  <2>1. /\ ctrl'.n = ctrl.n /\ ctrl'.clock_source = ctrl.clock_source
        /\ UNCHANGED <<jack, next_frame, flush_i>>
    BY <1>6 DEF CtrlStamp, queueVars, Inv, CtrlTypeOK
  <2>2. \A d \in Dsp : bank'[d] = ctrl.n
    <3>1. CASE ~ ctrl.syncronized \/ UsesTransport(ctrl.clock_source)
      BY <1>6, <3>1 DEF CtrlStamp
    <3>2. CASE ~ (~ ctrl.syncronized \/ UsesTransport(ctrl.clock_source))
      BY <1>6, <3>2, CtrlMoves DEF CtrlStamp, BanksFollow
    <3> QED
      BY <3>1, <3>2
  <2> QED
    BY <1>6, <2>1, <2>2, CtrlMoves DEF BanksFollow, Playing, UsesTransport
<1>7. CASE CtrlTake \/ CtrlDeliver \/ CtrlFree
  <2>1. /\ ctrl'.n = ctrl.n /\ ctrl'.clock_source = ctrl.clock_source
        /\ UNCHANGED <<jack, next_frame, flush_i, bank>>
    BY <1>7 DEF CtrlTake, CtrlDeliver, CtrlFree, serverVars, queueVars, Inv, CtrlTypeOK
  <2>2. Playing' => Playing
    BY <1>7, <2>1, CtrlMoves DEF Playing, NotFlushing, Inv, Flushing
  <2>3. pc'[Ctrl] \notin {"idle", "begin", "advance", "stamp"}
    BY <1>7, CtrlMoves
  <2> QED
    BY <2>1, <2>2, <2>3 DEF BanksFollow, UsesTransport
<1>8. CASE DspProcess
  <2>1. UNCHANGED <<ctrl, jack, next_frame, flush_i>>
    BY <1>8 DEF DspProcess, queueVars
  <2>2. \A d \in Dsp : bank'[d] = ctrl.n + jack.nframes
    BY <1>8, <1>a, CtrlMoves DEF DspProcess, BanksFollow, Playing
  <2> QED
    BY <1>8, <2>1, <2>2, CtrlMoves DEF BanksFollow, Playing, UsesTransport
<1>9. CASE UNCHANGED vars
  BY <1>9 DEF vars, BanksFollow, Playing, UsesTransport, NotFlushing, poolVars, queueVars, serverVars
<1> QED
  BY <1>1, <1>2, <1>3, <1>4, <1>5, <1>6, <1>7, <1>8, <1>9 DEF Next, CallbackStep, AtRest

(* Whenever fofs are handed out, every bank stands at the cycle's frame    *)
(* (BanksInStep), across changes of the clock, jumps of the transport and  *)
(* of the buffer size, provided that the connections order the dsp clients *)
(* behind the ctrl client from the first cycle on.                         *)
THEOREM ServerBanksInStep ==
  ASSUME WiredAtOnce
  PROVE  Spec => []BanksInStep
<1> DEFINE I == Inv /\ Synced /\ BanksFollow
<1>1. CtrlInit => I
  <2> SUFFICES ASSUME CtrlInit PROVE I
    OBVIOUS
  <2>1. /\ pc[Ctrl] = "idle" /\ flush_i = NotFlushing /\ jack.cycle = 0 /\ jack.ahead = {}
        /\ ~ ctrl.syncronized
    BY Constants DEF CtrlInit, QueueInit, PoolInit
  <2>2. Synced /\ BanksFollow
    BY <2>1 DEF Synced, Playing, BanksFollow
  <2> QED
    BY <2>2, InitInv
<1>2. I /\ [Next]_vars => I'
  BY StepInv, StepSynced, StepBanks
<1>3. I => BanksInStep
  BY DEF BanksFollow, Playing, BanksInStep
<1> QED
  BY <1>1, <1>2, <1>3, PTL DEF Spec
=============================================================================
