------------------------------ MODULE RingProofs ------------------------------
(***************************************************************************)
(* Proofs about module CtrlClient on the frame time clock with one client, *)
(* for every size of the pool, of the ring and of a slot: the lists of the *)
(* queue stay whole, a fof is played once, in time and within a turn, and  *)
(* the queue implements the calendar of Schedule.                          *)
(***************************************************************************)
EXTENDS CtrlClientProofs, ListLemmas

(* At most one process calls jfofs_add. *)
OneClient == \A c, d \in Client : c = d

(* The server runs on the frame time clock and nobody changes it. *)
FrameClock == Clocks = {"frame"}

(* JACK's buffers are no larger than a slot; or all of them the size of it. *)
SmallBuffers == \A b \in Buffers : b <= BufferSize
SlotBuffers == Buffers = {BufferSize}

-----------------------------------------------------------------------------
(* Without a change of the clock there is no flush. *)
NoFlush == /\ clock_source = "frame" /\ ctrl.clock_source = "frame" /\ flush_i = NotFlushing
           /\ pc[Ctrl] \notin {"flush", "flush_walk", "flush_check"}

(* The fofs nobody is working on are in the lists they belong to. *)
RingLists ==
  /\ List(next, own, FREE, free_fofs)
  /\ \A s \in Slot : List(next, own, s, slot[s])
  /\ List(next, own, EXCESS, excess)

(* A client in fof_queue_add that has its fof. *)
Holding == Calling \ {"alloc_next", "alloc_cas"}

(* What a client read is still true, and it answers for its fof alone. *)
ClientPart(c) ==
  /\ pc[c] \in {"alloc_next", "alloc_cas"} => own[fof[c]] = FREE
  /\ pc[c] \in {"alloc_cas", "slow_check", "slow_cas"} => exp[c] = next[fof[c]]
  /\ pc[c] \in {"free_load", "free_cas"} => tail[c] = fof[c]
  /\ pc[c] = "excess_store" => next[fof[c]] = excess
  /\ \A f \in Fof : own[f] = c <=> pc[c] \in Holding /\ f = fof[c]

(* The list the ctrl client took, how far it has handed it out, and the    *)
(* chain it gives back.                                                    *)
CtrlPart ==
  /\ pc[Ctrl] = "deliver" => /\ List(next, own, Ctrl, fof[Ctrl])
                             /\ tail[Ctrl] = NULL => exp[Ctrl] = fof[Ctrl]
                             /\ tail[Ctrl] # NULL => own[tail[Ctrl]] = Ctrl /\ exp[Ctrl] = next[tail[Ctrl]]
  /\ pc[Ctrl] \in {"free_load", "free_cas"} => Segment(next, own, Ctrl, fof[Ctrl], tail[Ctrl])
  /\ pc[Ctrl] \notin {"deliver", "free_load", "free_cas"} =>
       tail[Ctrl] = NULL /\ \A f \in Fof : own[f] # Ctrl

RingInv == NoFlush /\ RingLists /\ CtrlPart /\ \A c \in Client : ClientPart(c)

(* How often the fofs were handed out: those in slots not yet, those the   *)
(* ctrl client has passed once.                                            *)
HandedOut ==
  /\ DeliveredOnce
  /\ pc[Ctrl] = "deliver" =>
       /\ \A f \in Fof : own[f] = Ctrl => hist[f].given \in {0, 1}
       /\ tail[Ctrl] # NULL => hist[fof[Ctrl]].given = 1 /\ hist[tail[Ctrl]].given = 1
       /\ exp[Ctrl] # NULL => hist[exp[Ctrl]].given = 0
       /\ \A f \in Fof : own[f] = Ctrl /\ f # tail[Ctrl] /\ next[f] # NULL =>
            (hist[f].given = 1 <=> hist[next[f]].given = 1)

(* Where a call stands in time. *)
Placing == {"cache_test", "cache_slot", "cache_check", "pick", "fast_load", "fast_check",
            "fast_cas", "slow_load", "slow_check", "slow_cas"}
Near(c) ==
  /\ pc[c] \in Placing => /\ call[c].nf <= next_frame /\ call[c].nf <= Start(fof[c])
                          /\ Start(fof[c]) < call[c].nf + NSlots * BufferSize
  /\ pc[c] \in {"slow_load", "slow_check", "slow_cas"} => Start(fof[c]) <= call[c].nf + BufferSize
  /\ pc[c] \in {"free_load", "free_cas"} /\ call[c].status = "late" =>
       Start(fof[c]) <= next_frame + BufferSize

(* The first frame whose cycle has not taken its slot. *)
Taken == IF pc[Ctrl] \in {"stamp", "take"} THEN ctrl.n ELSE next_frame
Block(n) == n \div BufferSize

(* No slot that a fof is in was taken since the fof was linked. *)
NotTaken ==
  /\ pc[Ctrl] \in {"stamp", "take", "deliver", "free_load", "free_cas", "dsp"} =>
       next_frame = ctrl.n + jack.nframes
  /\ \A f \in Fof : Linked(f) =>
       \A k \in Nat : Block(hist[f].ins) <= k /\ k < Block(Taken) => k % NSlots # own[f]

(* The clock stands at the first frame of a slot. *)
Aligned(n) == n % BufferSize = 0

(* The cached slot is that of the frame it was computed for. *)
Cached(c) ==
  /\ pc[c] # "cache_check" => current_slot = SlotOf(next_frame_check)
  /\ pc[c] \in {"cache_check", "pick"} => current_slot = SlotOf(call[c].nf)
  /\ pc[c] \in Placing => Aligned(call[c].nf)
  /\ pc[c] \in {"fast_load", "fast_check", "fast_cas", "slow_load", "slow_check", "slow_cas"} =>
       call[c].idx = SlotOf(Start(fof[c]))

InPlace ==
  /\ Aligned(next_frame)
  /\ pc[Ctrl] \in {"stamp", "take"} => Aligned(ctrl.n)
  /\ \A c \in Client : Cached(c)
  /\ \A f \in Fof : Linked(f) => own[f] = SlotOf(Start(f)) /\ Aligned(hist[f].ins)
  /\ \A f \in Fof : own[f] = Ctrl /\ hist[f].ins <= Start(f) => ctrl.n <= Start(f)
  /\ jack.nframes \in {0, BufferSize}

TimeInv == (\A c \in Client : Near(c)) /\ LateIsNear /\ AcceptedInWindow

-----------------------------------------------------------------------------
(* On the frame time clock nothing starts a flush. *)
LEMMA StepNoFlush == ASSUME FrameClock, Inv, NoFlush, [Next]_vars PROVE NoFlush'
<1> USE DEF NoFlush
<1>1. ASSUME NEW c \in Client, ClientAdd(c) PROVE NoFlush'
  BY <1>1, ClientFrame DEF ClientAdd, NotFlushing
<1>2. ASSUME NEW c \in Client, SetClockSource(c) PROVE NoFlush'
  BY <1>2, ClientFrame DEF SetClockSource, NotFlushing, FrameClock
<1>3. CASE JackCycle
  BY <1>3, CtrlMoves DEF JackCycle, queueVars, NotFlushing
<1>4. CASE CtrlBegin
  <2>1. ~ (clock_source # ctrl.clock_source) /\ ~ Discontinuity(clock_source, ctrl.syncronized)
    BY DEF Discontinuity, UsesTransport
  <2>2. pc'[Ctrl] = "advance" /\ flush_i' = flush_i /\ UNCHANGED clock_source
    BY <1>4, <2>1, Constants DEF CtrlBegin, Goto, Inv, Pointers
  <2>3. ctrl'.clock_source = clock_source
    BY <1>4 DEF CtrlBegin, Inv, CtrlTypeOK
  <2> QED
    BY <2>2, <2>3 DEF NotFlushing
<1>5. CASE CtrlFlush
  BY <1>5, FlushMoves
<1>6. CASE CtrlAdvance \/ CtrlStamp \/ CtrlTake \/ CtrlDeliver \/ CtrlFree \/ DspProcess
  <2>1. ctrl'.clock_source = ctrl.clock_source
    BY <1>6 DEF CtrlAdvance, CtrlStamp, CtrlTake, CtrlDeliver, CtrlFree, DspProcess, serverVars,
       Inv, CtrlTypeOK
  <2>2. UNCHANGED <<clock_source, flush_i>>
    BY <1>6 DEF CtrlAdvance, CtrlStamp, CtrlTake, CtrlDeliver, CtrlFree, DspProcess, queueVars
  <2> QED
    BY <1>6, <2>1, <2>2, CtrlMoves DEF NotFlushing
<1>7. CASE UNCHANGED vars
  BY <1>7 DEF vars, poolVars, queueVars, serverVars, NotFlushing
<1> QED
  BY <1>1, <1>2, <1>3, <1>4, <1>5, <1>6, <1>7 DEF Next, CallbackStep, AtRest

-----------------------------------------------------------------------------
(*                       The lists of the queue                            *)

(* What is known of the owners and the pointers in a step. *)
LEMMA RingFacts ==
  ASSUME Inv, Inv'
  PROVE  /\ next \in [Fof -> Ptr] /\ next' \in [Fof -> Ptr] /\ Ptr = Fof \cup {NULL}
         /\ NULL \notin Fof
         /\ own \in [Fof -> Proc \cup Slot \cup {FREE, EXCESS}]
         /\ slot \in [Slot -> Ptr] /\ excess \in Ptr /\ free_fofs \in Ptr
         /\ fof \in [Proc -> Ptr] /\ tail \in [Proc -> Ptr] /\ exp \in [Proc -> Ptr]
         /\ pc \in [Proc -> ClientPc \cup CtrlPc]
         /\ Ctrl \in Proc /\ Client \subseteq Proc /\ Ctrl \notin Client /\ Ctrl # FREE
         /\ Ctrl # EXCESS /\ FREE # EXCESS /\ Ctrl \notin Slot /\ FREE \notin Slot
         /\ EXCESS \notin Slot
         /\ \A c \in Client : c # FREE /\ c # EXCESS /\ c \notin Slot /\ c # Ctrl /\ c \in Proc
BY Constants DEF Inv, CtrlTypeOK, QueueTypeOK, Ptr, Pointers

(* Only links of fofs that somebody works on change. *)
LEMMA RingListsFrame ==
  ASSUME Inv, Inv', RingLists, UNCHANGED <<own, free_fofs, slot, excess>>,
         \A f \in Fof : own[f] \in Slot \cup {FREE, EXCESS} => next'[f] = next[f]
  PROVE  RingLists'
<1>1. ASSUME NEW w \in Slot \cup {FREE, EXCESS}, NEW h, List(next, own, w, h)
      PROVE  List(next', own', w, h)
  <2>1. \A f \in Fof : (own'[f] = w <=> own[f] = w) /\ (own[f] = w => next'[f] = next[f])
    OBVIOUS
  <2> QED
    BY <1>1, <2>1, RingFacts, ListFrame
<1> QED
  BY <1>1 DEF RingLists

(* The chain of the ctrl client stays when neither its pointers nor its fofs are touched. *)
LEMMA CtrlPartFrame ==
  ASSUME Inv, Inv', CtrlPart, pc'[Ctrl] = pc[Ctrl], fof'[Ctrl] = fof[Ctrl],
         tail'[Ctrl] = tail[Ctrl], exp'[Ctrl] = exp[Ctrl],
         \A f \in Fof : (own'[f] = Ctrl <=> own[f] = Ctrl) /\ (own[f] = Ctrl => next'[f] = next[f])
  PROVE  CtrlPart'
<1>1. ASSUME List(next, own, Ctrl, fof[Ctrl]) PROVE List(next', own', Ctrl, fof[Ctrl])
  BY <1>1, RingFacts, ListFrame
<1>2. ASSUME Segment(next, own, Ctrl, fof[Ctrl], tail[Ctrl])
      PROVE  Segment(next', own', Ctrl, fof[Ctrl], tail[Ctrl])
  BY <1>2, RingFacts, SegmentFrame
<1>3. tail[Ctrl] # NULL => tail[Ctrl] \in Fof
  BY RingFacts
<1> QED
  BY <1>1, <1>2, <1>3 DEF CtrlPart

(* A step of the ctrl client leaves a client's view. *)
LEMMA ClientPartFrame ==
  ASSUME Inv, Inv', NEW c \in Client, ClientPart(c), pc'[c] = pc[c], fof'[c] = fof[c],
         tail'[c] = tail[c], exp'[c] = exp[c], excess' = excess,
         \A f \in Fof : /\ own'[f] = c <=> own[f] = c
                        /\ own[f] = FREE => own'[f] = FREE
                        /\ own[f] \in {FREE, c} => next'[f] = next[f]
  PROVE  ClientPart(c)'
<1>1. pc[c] \in Calling => fof[c] \in Fof
  BY RingFacts DEF Inv, Pointers
<1>2. pc[c] \in Calling => own[fof[c]] \in {FREE, c}
  BY <1>1 DEF ClientPart, Holding
<1> QED
  BY <1>1, <1>2 DEF ClientPart, Calling

(* The ctrl client's view is kept by a client's step. *)
LEMMA ClientKeepsCtrl ==
  ASSUME Inv, Inv', CtrlPart, NEW c \in Client, ClientAdd(c),
         \A f \in Fof : (own'[f] = Ctrl <=> own[f] = Ctrl) /\ (own[f] = Ctrl => next'[f] = next[f])
  PROVE  CtrlPart'
BY ClientFrame, CtrlPartFrame

(* A client's fof, while it has one. *)
LEMMA HeldFof ==
  ASSUME Inv, NEW c \in Client, ClientPart(c), pc[c] \in Holding
  PROVE  fof[c] \in Fof /\ own[fof[c]] = c
BY DEF Inv, Pointers, CtrlTypeOK, QueueTypeOK, Ptr, ClientPart, Holding, Proc

(* Steps that change no link and no owner. *)
LEMMA QuietRing ==
  ASSUME OneClient, Inv, Inv', RingInv, NEW c \in Client, ClientAdd(c), NoFlush',
         UNCHANGED <<next, own, free_fofs, slot, excess>>, ClientPart(c)'
  PROVE  RingInv'
<1>1. RingLists'
  BY RingListsFrame DEF RingInv
<1>2. CtrlPart'
  BY ClientKeepsCtrl DEF RingInv
<1> QED
  BY <1>1, <1>2 DEF RingInv, OneClient

(* Steps that link the client's own fof to something. *)
LEMMA LinkingRing ==
  ASSUME OneClient, Inv, Inv', RingInv, NEW c \in Client, ClientAdd(c), NoFlush',
         UNCHANGED <<own, free_fofs, slot, excess>>, pc[c] \in Holding,
         \A f \in Fof \ {fof[c]} : next'[f] = next[f], ClientPart(c)'
  PROVE  RingInv'
<1>0. fof[c] \in Fof /\ own[fof[c]] = c /\ c \notin Slot \cup {FREE, EXCESS, Ctrl}
  BY HeldFof, RingFacts DEF RingInv
<1>1. RingLists'
  BY <1>0, RingListsFrame DEF RingInv
<1>2. CtrlPart'
  BY <1>0, ClientKeepsCtrl DEF RingInv
<1> QED
  BY <1>1, <1>2 DEF RingInv, OneClient

(* Steps that push the client's fof on the list of w. *)
LEMMA PushRing ==
  ASSUME OneClient, Inv, Inv', RingInv, NEW c \in Client, ClientAdd(c), NoFlush',
         NEW w \in Slot \cup {EXCESS}, pc[c] \in Holding, pc'[c] = "idle",
         UNCHANGED <<next, free_fofs>>, own' = [own EXCEPT ![fof[c]] = w],
         next[fof[c]] = (IF w = EXCESS THEN excess ELSE slot[w]),
         slot' = (IF w = EXCESS THEN slot ELSE [slot EXCEPT ![w] = fof[c]]),
         excess' = IF w = EXCESS THEN fof[c] ELSE excess
  PROVE  RingInv'
<1>0. PICK f \in Fof : f = fof[c] /\ own[f] = c /\ c \notin Slot \cup {FREE, EXCESS, Ctrl}
  BY HeldFof, RingFacts DEF RingInv
<1>1. own'[f] = w /\ \A g \in Fof \ {f} : own'[g] = own[g]
  BY <1>0, RingFacts
<1>2. ASSUME NEW v \in Slot \cup {FREE, EXCESS}, v # w, NEW h, List(next, own, v, h)
      PROVE  List(next', own', v, h)
  <2>1. \A g \in Fof : (own'[g] = v <=> own[g] = v) /\ (own[g] = v => next'[g] = next[g])
    BY <1>0, <1>1, <1>2
  <2> QED
    BY <1>2, <2>1, RingFacts, ListFrame
<1>3. List(next, own', w, f)
  <2>1. List(next, own, w, next[f])
    BY <1>0, RingFacts DEF RingInv, RingLists
  <2> QED
    BY <1>0, <1>1, <2>1, RingFacts, ListPush
<1>4. RingLists'
  <2>1. List(next', own', FREE, free_fofs')
    BY <1>2, RingFacts DEF RingInv, RingLists
  <2>2. List(next', own', EXCESS, excess')
    <3>1. CASE w = EXCESS
      BY <1>0, <1>3, <3>1
    <3>2. CASE w # EXCESS
      BY <1>2, <3>2 DEF RingInv, RingLists
    <3> QED
      BY <3>1, <3>2
  <2>3. ASSUME NEW s \in Slot PROVE List(next', own', s, slot'[s])
    <3>1. CASE s = w
      BY <1>0, <1>3, <3>1, RingFacts
    <3>2. CASE s # w
      BY <1>2, <3>2, RingFacts DEF RingInv, RingLists
    <3> QED
      BY <3>1, <3>2
  <2> QED
    BY <2>1, <2>2, <2>3 DEF RingLists
<1>5. CtrlPart'
  <2>1. w # Ctrl
    BY RingFacts
  <2> QED
    BY <1>0, <1>1, <2>1, ClientKeepsCtrl DEF RingInv
<1>6. ClientPart(c)'
  <2>1. w # c
    BY RingFacts
  <2> QED
    BY <1>0, <1>1, <2>1 DEF RingInv, ClientPart, Holding, Calling
<1> QED
  BY <1>4, <1>5, <1>6 DEF RingInv, OneClient

(* Giving back a chain whose tail was linked to the head of the free list. *)
LEMMA SpliceRing ==
  ASSUME Inv, Inv', RingLists, NEW p \in Proc, NEW h, NEW t, Segment(next, own, p, h, t),
         next[t] = free_fofs, UNCHANGED <<next, slot, excess>>, free_fofs' = h,
         own' = [f \in Fof |-> IF own[f] = p THEN FREE ELSE own[f]]
  PROVE  RingLists'
<1>0. p # FREE /\ p # EXCESS /\ p \notin Slot
  BY Constants
<1>1. \A f \in Fof : own'[f] = IF own[f] = p THEN FREE ELSE own[f]
  OBVIOUS
<1>2. List(next, own', FREE, h)
  <2>1. List(next, own, FREE, next[t])
    BY DEF RingLists
  <2> QED
    BY <1>0, <1>1, <2>1, RingFacts, ListSplice
<1>3. ASSUME NEW w \in Slot \cup {EXCESS}, NEW hd, List(next, own, w, hd)
      PROVE  List(next', own', w, hd)
  <2>1. w # FREE /\ w # p
    BY <1>0, RingFacts
  <2>2. \A f \in Fof : (own'[f] = w <=> own[f] = w) /\ (own[f] = w => next'[f] = next[f])
    BY <1>1, <2>1
  <2> QED
    BY <1>3, <2>2, RingFacts, ListFrame
<1> QED
  BY <1>2, <1>3 DEF RingLists

(* A step of fof_queue_add keeps the lists whole.  The pop is safe because *)
(* only the client pops; a push is safe because its exchange compares the  *)
(* head with the link of the fof it installs.                              *)
LEMMA ClientRing ==
  ASSUME OneClient, Inv, Inv', RingInv, NEW c \in Client, ClientAdd(c), NoFlush'
  PROVE  RingInv'
<1>a. /\ c \in Proc /\ c \notin Slot \cup {FREE, EXCESS, Ctrl} /\ pc \in [Proc -> ClientPc \cup CtrlPc]
      /\ fof \in [Proc -> Ptr] /\ exp \in [Proc -> Ptr] /\ tail \in [Proc -> Ptr]
      /\ next \in [Fof -> Ptr] /\ Ptr = Fof \cup {NULL} /\ NULL \notin Fof
  BY RingFacts
<1>b. ClientPart(c)
  BY DEF RingInv
<1>c. pc[c] \in Holding => fof[c] \in Fof /\ own[fof[c]] = c
  BY <1>b, HeldFof DEF Inv
<1>1. ASSUME AllocLoad(c, "idle") \/ AllocLoad(c, "alloc_load"), UNCHANGED ringVars PROVE RingInv'
  <2>1. /\ fof'[c] = free_fofs /\ UNCHANGED <<free_fofs, next, own>>
        /\ pc[c] \in {"idle", "alloc_load"}
        /\ pc'[c] = IF free_fofs = NULL THEN "idle" ELSE "alloc_next"
    BY <1>1, <1>a DEF AllocLoad, Goto
  <2>2. free_fofs # NULL => own[free_fofs] = FREE
    BY DEF RingInv, RingLists, List
  <2>3. ClientPart(c)'
    BY <1>b, <2>1, <2>2 DEF ClientPart, Holding, Calling
  <2> QED
    BY <1>1, <2>1, <2>3, QuietRing DEF ringVars
<1>2. ASSUME AllocNext(c), UNCHANGED ringVars PROVE RingInv'
  <2>1. /\ fof'[c] = fof[c] /\ exp'[c] = next[fof[c]] /\ UNCHANGED <<free_fofs, next, own>>
        /\ pc[c] = "alloc_next" /\ pc'[c] = "alloc_cas"
    BY <1>2, <1>a DEF AllocNext, Goto
  <2>2. ClientPart(c)'
    BY <1>b, <2>1 DEF ClientPart, Holding, Calling
  <2> QED
    BY <1>2, <2>1, <2>2, QuietRing DEF ringVars
<1>3. ASSUME AllocCas(c), UNCHANGED ringVars PROVE RingInv'
  <2>0. pc[c] = "alloc_cas" /\ fof'[c] = fof[c] /\ UNCHANGED <<fof, tail>>
    BY <1>3 DEF AllocCas
  <2>1. PICK h \in Fof : h = fof[c] /\ own[h] = FREE /\ exp[c] = next[h]
    BY <1>a, <1>b, <2>0 DEF ClientPart, Inv, Pointers, Calling
  <2>2. CASE free_fofs # h
    <3>1. pc'[c] = "alloc_load" /\ UNCHANGED <<free_fofs, next, own>>
      BY <1>a, <1>3, <2>1, <2>2 DEF AllocCas, Goto
    <3>2. ClientPart(c)'
      BY <1>b, <2>0, <3>1 DEF ClientPart, Holding, Calling
    <3> QED
      BY <1>3, <3>1, <3>2, QuietRing DEF ringVars
  <2>3. CASE free_fofs = h
    <3>0. /\ pc'[c] = "allocated" /\ free_fofs' = next[h]
          /\ next' = [next EXCEPT ![h] = NULL] /\ own' = [own EXCEPT ![h] = c]
      BY <1>a, <1>3, <2>1, <2>3 DEF AllocCas, Goto
    <3>1. own'[h] = c /\ \A g \in Fof \ {h} : own'[g] = own[g] /\ next'[g] = next[g]
      BY <1>a, <2>1, <3>0, RingFacts
    <3>2. List(next', own', FREE, next[h])
      <4>1. List(next, own, FREE, h)
        BY <2>3 DEF RingInv, RingLists
      <4> QED
        BY <1>a, <3>1, <4>1, RingFacts, ListPop
    <3>3. ASSUME NEW w \in Slot \cup {EXCESS}, NEW hd, List(next, own, w, hd)
          PROVE  List(next', own', w, hd)
      <4>1. w # FREE /\ w # c
        BY <1>a, RingFacts
      <4>2. \A g \in Fof : (own'[g] = w <=> own[g] = w) /\ (own[g] = w => next'[g] = next[g])
        BY <2>1, <3>1, <4>1
      <4> QED
        BY <3>3, <4>2, RingFacts, ListFrame
    <3>4. RingLists'
      BY <1>3, <3>0, <3>2, <3>3 DEF RingInv, RingLists, ringVars
    <3>5. CtrlPart'
      <4>1. \A f \in Fof : (own'[f] = Ctrl <=> own[f] = Ctrl) /\ (own[f] = Ctrl => next'[f] = next[f])
        BY <1>a, <2>1, <3>1, RingFacts
      <4> QED
        BY <4>1, ClientKeepsCtrl DEF RingInv
    <3>6. ClientPart(c)'
      BY <1>b, <2>0, <2>1, <3>0, <3>1 DEF ClientPart, Holding, Calling
    <3> QED
      BY <3>4, <3>5, <3>6 DEF RingInv, OneClient
  <2> QED
    BY <2>2, <2>3
<1>4. ASSUME NEW from \in {"allocated", "fast_check"}, NEW st, Recalculate(c, from, next_frame, st),
             UNCHANGED <<next, ringVars>>
      PROVE  RingInv'
  <2>0. UNCHANGED <<free_fofs, fof, exp, own>>
    BY <1>4 DEF Recalculate
  <2>1. CASE Discard(c, from)
    <3>1. pc'[c] = "free_load" /\ tail'[c] = fof[c] /\ pc[c] = from
      BY <1>a, <2>1 DEF Discard, Goto
    <3>2. ClientPart(c)'
      BY <1>b, <1>4, <2>0, <3>1 DEF ClientPart, Holding, Calling
    <3> QED
      BY <1>4, <2>0, <3>2, QuietRing DEF ringVars
  <2>2. CASE Goto(c, from, IF BeyondRing(st - next_frame) THEN "excess_load" ELSE "cache_test")
    <3>1. pc'[c] \in {"excess_load", "cache_test"} /\ pc[c] = from
      BY <1>a, <2>2 DEF Goto
    <3>2. ClientPart(c)'
      BY <1>b, <1>4, <2>0, <3>1 DEF ClientPart, Holding, Calling
    <3> QED
      BY <1>4, <2>0, <3>2, QuietRing DEF ringVars
  <2> QED
    BY <1>4, <2>1, <2>2 DEF Recalculate
<1>5. ASSUME LoadFrame(c) PROVE RingInv'
  BY <1>4, <1>5 DEF LoadFrame
<1>6. ASSUME ExcessLoad(c) PROVE RingInv'
  <2>1. /\ pc[c] = "excess_load" /\ pc'[c] = "excess_store" /\ UNCHANGED <<fof, own, free_fofs, ringVars>>
        /\ next' = [next EXCEPT ![fof[c]] = excess]
    BY <1>a, <1>6 DEF ExcessLoad, Goto, queueVars
  <2>2. pc[c] \in Holding
    BY <2>1 DEF Holding, Calling
  <2>3. ClientPart(c)'
    BY <1>a, <1>b, <1>c, <2>1, <2>2 DEF ClientPart, Holding, Calling, ringVars
  <2> QED
    BY <1>a, <1>c, <2>1, <2>2, <2>3, LinkingRing DEF ringVars
<1>7. ASSUME ExcessStore(c) PROVE RingInv'
  <2>1. /\ pc[c] = "excess_store" /\ pc'[c] = "idle" /\ UNCHANGED <<next, free_fofs, slot>>
        /\ own' = [own EXCEPT ![fof[c]] = EXCESS] /\ excess' = fof[c]
    BY <1>a, <1>7 DEF ExcessStore, Goto
  <2>2. pc[c] \in Holding /\ next[fof[c]] = excess
    BY <1>b, <2>1 DEF Holding, Calling, ClientPart
  <2> QED
    BY <2>1, <2>2, PushRing
<1>8. ASSUME CacheTest(c) \/ CacheSlot(c) \/ CacheCheck(c) \/ Pick(c) PROVE RingInv'
  <2>1. /\ UNCHANGED <<free_fofs, next, fof, tail, exp, own, ringVars>>
        /\ pc[c] \in {"cache_test", "cache_slot", "cache_check", "pick"}
        /\ pc'[c] \in {"cache_slot", "cache_check", "pick", "fast_load", "slow_load"}
    BY <1>a, <1>8 DEF CacheTest, CacheSlot, CacheCheck, Pick, Move, Goto, queueVars
  <2>2. ClientPart(c)'
    BY <1>b, <2>1 DEF ClientPart, Holding, Calling
  <2> QED
    BY <2>1, <2>2, QuietRing DEF ringVars
<1>9. ASSUME FastLoad(c) \/ SlowLoad(c) PROVE RingInv'
  <2>1. /\ UNCHANGED <<fof, own, free_fofs, ringVars>>
        /\ next' = [next EXCEPT ![fof[c]] = slot[call[c].idx]]
        /\ \/ pc[c] = "fast_load" /\ pc'[c] = "fast_check"
           \/ pc[c] = "slow_load" /\ pc'[c] = "slow_check" /\ exp'[c] = slot[call[c].idx]
    BY <1>a, <1>9 DEF FastLoad, SlowLoad, LoadSlot, Goto, queueVars
  <2>2. pc[c] \in Holding
    BY <2>1 DEF Holding, Calling
  <2>3. ClientPart(c)'
    BY <1>a, <1>b, <1>c, <2>1, <2>2 DEF ClientPart, Holding, Calling
  <2> QED
    BY <1>a, <1>c, <2>1, <2>2, <2>3, LinkingRing DEF ringVars
<1>10. ASSUME FastCheck(c) \/ SlowCheck(c) PROVE RingInv'
  <2>1. CASE FastCheck(c) /\ next_frame # call[c].nf
    BY <1>4, <2>1 DEF FastCheck
  <2>2. CASE SlowCheck(c) /\ next_frame # call[c].nf
    <3>1. /\ pc[c] = "slow_check" /\ pc'[c] = "free_load" /\ tail'[c] = fof[c]
          /\ UNCHANGED <<free_fofs, next, fof, exp, own, ringVars>>
      BY <1>a, <2>2 DEF SlowCheck, Discard, Goto
    <3>2. ClientPart(c)'
      BY <1>b, <3>1 DEF ClientPart, Holding, Calling
    <3> QED
      BY <3>1, <3>2, QuietRing DEF ringVars
  <2>3. CASE next_frame = call[c].nf
    <3>1. /\ UNCHANGED <<free_fofs, next, fof, tail, exp, own, ringVars>>
          /\ \/ pc[c] = "fast_check" /\ pc'[c] = "fast_cas"
             \/ pc[c] = "slow_check" /\ pc'[c] = "slow_cas"
      BY <1>a, <1>10, <2>3 DEF FastCheck, SlowCheck, Move, Goto
    <3>2. ClientPart(c)'
      BY <1>b, <3>1 DEF ClientPart, Holding, Calling
    <3> QED
      BY <3>1, <3>2, QuietRing DEF ringVars
  <2> QED
    BY <1>10, <2>1, <2>2, <2>3
<1>11. ASSUME NEW from \in {"fast_cas", "slow_cas"}, Link(c, from), slot[call[c].idx] = next[fof[c]],
              UNCHANGED <<free_fofs, next, excess>>
       PROVE  RingInv'
  <2>0. PICK s \in Slot : s = call[c].idx
    BY CallFacts DEF Inv
  <2>1. /\ pc[c] = from /\ pc'[c] = "idle" /\ slot' = [slot EXCEPT ![s] = fof[c]]
        /\ own' = [own EXCEPT ![fof[c]] = s]
    BY <1>a, <1>11, <2>0 DEF Link, Goto
  <2>2. pc[c] \in Holding
    BY <2>1 DEF Holding, Calling
  <2>3. s # EXCESS
    BY RingFacts
  <2> QED
    BY <1>11, <2>0, <2>1, <2>2, <2>3, PushRing
<1>12. ASSUME FastCas(c) PROVE RingInv'
  <2>1. CASE slot[call[c].idx] = next[fof[c]]
    BY <1>11, <1>12, <2>1 DEF FastCas
  <2>2. CASE slot[call[c].idx] # next[fof[c]]
    <3>1. /\ pc[c] = "fast_cas" /\ pc'[c] = "fast_load"
          /\ next' = [next EXCEPT ![fof[c]] = slot[call[c].idx]]
          /\ UNCHANGED <<slot, own, fof, free_fofs, excess>>
      BY <1>a, <1>12, <2>2 DEF FastCas, Goto
    <3>2. pc[c] \in Holding
      BY <3>1 DEF Holding, Calling
    <3>3. ClientPart(c)'
      BY <1>b, <3>1 DEF ClientPart, Holding, Calling
    <3> QED
      BY <1>a, <1>c, <3>1, <3>2, <3>3, LinkingRing
  <2> QED
    BY <2>1, <2>2
<1>13. ASSUME SlowCas(c) PROVE RingInv'
  <2>0. pc[c] = "slow_cas" /\ exp[c] = next[fof[c]] /\ UNCHANGED <<free_fofs, next, excess>>
    BY <1>13, <1>b DEF SlowCas, ClientPart
  <2>1. CASE slot[call[c].idx] = exp[c]
    BY <1>11, <1>13, <2>0, <2>1 DEF SlowCas
  <2>2. CASE slot[call[c].idx] # exp[c]
    <3>1. /\ pc'[c] = "free_load" /\ tail'[c] = fof[c] /\ UNCHANGED <<slot, own, fof>>
      BY <1>a, <1>13, <2>2 DEF SlowCas, Discard, Goto
    <3>2. ClientPart(c)'
      BY <1>b, <2>0, <3>1 DEF ClientPart, Holding, Calling
    <3> QED
      BY <2>0, <3>1, <3>2, QuietRing
  <2> QED
    BY <2>1, <2>2
<1>14. ASSUME FreeLate(c) PROVE RingInv'
  <2>0. UNCHANGED <<slot, excess>>
    BY <1>14 DEF FreeLate, queueVars, ringVars
  <2>1. pc[c] \in {"free_load", "free_cas"} /\ tail[c] = fof[c] /\ pc[c] \in Holding
    BY <1>14, <1>b DEF FreeLate, FreeLoad, FreeCas, Goto, ClientPart, Holding, Calling
  <2>2. CASE \/ FreeLoad(c)
             \/ FreeCas(c, "idle") /\ free_fofs # next[tail[c]]
    <3>1. /\ next' = [next EXCEPT ![fof[c]] = free_fofs] /\ UNCHANGED <<free_fofs, own, fof, tail>>
          /\ pc'[c] \in {"free_load", "free_cas"}
      BY <1>a, <2>1, <2>2 DEF FreeLoad, FreeCas, Goto
    <3>2. ClientPart(c)'
      BY <1>b, <2>1, <3>1 DEF ClientPart, Holding, Calling
    <3> QED
      BY <1>a, <1>c, <2>0, <2>1, <3>1, <3>2, LinkingRing
  <2>3. CASE FreeCas(c, "idle") /\ free_fofs = next[tail[c]]
    <3>1. /\ pc'[c] = "idle" /\ free_fofs' = fof[c] /\ UNCHANGED next
          /\ own' = [f \in Fof |-> IF own[f] = c THEN FREE ELSE own[f]]
      BY <1>a, <2>3 DEF FreeCas, Goto
    <3>2. \A f \in Fof : own[f] = c <=> f = fof[c]
      BY <1>b, <2>1 DEF ClientPart
    <3>3. Segment(next, own, c, fof[c], fof[c])
      BY <1>c, <2>1, <3>2, SingleSegment
    <3>4. RingLists'
      BY <1>a, <2>0, <2>1, <2>3, <3>1, <3>3, SpliceRing DEF RingInv
    <3>5. CtrlPart'
      <4>1. \A f \in Fof : (own'[f] = Ctrl <=> own[f] = Ctrl) /\ (own[f] = Ctrl => next'[f] = next[f])
        BY <1>a, <3>1, RingFacts
      <4> QED
        BY <4>1, ClientKeepsCtrl DEF RingInv
    <3>6. ClientPart(c)'
      BY <1>a, <3>1 DEF ClientPart, Holding, Calling
    <3> QED
      BY <3>4, <3>5, <3>6 DEF RingInv, OneClient
  <2> QED
    BY <1>14, <2>2, <2>3 DEF FreeLate
<1>15. ASSUME Add(c) PROVE RingInv'
  BY <1>1, <1>15 DEF Add
<1>16. ASSUME Allocate(c) PROVE RingInv'
  BY <1>1, <1>2, <1>3, <1>16 DEF Allocate
<1> QED
  BY <1>5, <1>6, <1>7, <1>8, <1>9, <1>10, <1>12, <1>13, <1>14, <1>15, <1>16 DEF ClientAdd, AddStep

(* The steps of the callback that do nothing to the lists. *)
LEMMA QuietCtrl ==
  ASSUME Inv, Inv', RingInv, NoFlush', UNCHANGED <<next, own, free_fofs, slot, excess, fof, tail, exp>>,
         \A c \in Client : pc'[c] = pc[c],
         \/ pc'[Ctrl] = pc[Ctrl]
         \/ {pc[Ctrl], pc'[Ctrl]} \cap {"deliver", "free_load", "free_cas"} = {}
  PROVE  RingInv'
<1>1. RingLists'
  BY RingListsFrame DEF RingInv
<1>2. CtrlPart'
  <2>1. CASE pc'[Ctrl] = pc[Ctrl]
    BY <2>1, CtrlPartFrame DEF RingInv
  <2>2. CASE {pc[Ctrl], pc'[Ctrl]} \cap {"deliver", "free_load", "free_cas"} = {}
    BY <2>2 DEF RingInv, CtrlPart
  <2> QED
    BY <2>1, <2>2
<1>3. ASSUME NEW c \in Client PROVE ClientPart(c)'
  BY ClientPartFrame DEF RingInv
<1> QED
  BY <1>1, <1>2, <1>3 DEF RingInv

(* The exchange that takes the cycle's slot. *)
LEMMA TakeRing ==
  ASSUME Inv, Inv', RingInv, NoFlush', CtrlTake
  PROVE  RingInv'
<1>a. Ctrl \in Proc /\ exp \in [Proc -> Ptr] /\ fof \in [Proc -> Ptr] /\ tail \in [Proc -> Ptr]
  BY RingFacts
<1>0. PICK s \in Slot : s = SlotOf(ctrl.n)
  BY SlotTyped DEF Inv, CtrlTypeOK
<1>1. /\ pc[Ctrl] = "take" /\ pc'[Ctrl] = "deliver" /\ slot' = [slot EXCEPT ![s] = NULL]
      /\ fof'[Ctrl] = slot[s] /\ exp'[Ctrl] = slot[s] /\ UNCHANGED <<free_fofs, next, tail, excess>>
      /\ \A c \in Client : pc'[c] = pc[c] /\ fof'[c] = fof[c] /\ exp'[c] = exp[c]
  BY <1>0, RingFacts DEF CtrlTake, Detach, Goto
<1>2. \A f \in Fof : own'[f] = IF own[f] = s THEN Ctrl ELSE own[f]
  BY <1>0 DEF CtrlTake, Detach
<1>3. tail[Ctrl] = NULL /\ \A f \in Fof : own[f] # Ctrl
  BY <1>1 DEF RingInv, CtrlPart
<1>4. List(next, own', Ctrl, slot[s]) /\ List(next, own', s, NULL)
  <2>1. List(next, own, s, slot[s]) /\ Ctrl # s
    BY RingFacts DEF RingInv, RingLists
  <2>2. next \in [Fof -> Ptr]
    BY RingFacts
  <2> QED
    BY <1>2, <1>3, <2>1, <2>2, ListTake
<1>5. ASSUME NEW w \in Slot \cup {FREE, EXCESS}, w # s, NEW h, List(next, own, w, h)
      PROVE  List(next', own', w, h)
  <2>1. w # Ctrl
    BY RingFacts
  <2>2. \A f \in Fof : (own'[f] = w <=> own[f] = w) /\ (own[f] = w => next'[f] = next[f])
    BY <1>1, <1>2, <1>5, <2>1
  <2> QED
    BY <1>5, <2>2, RingFacts, ListFrame
<1>6. RingLists'
  <2>1. s # FREE /\ s # EXCESS
    BY RingFacts
  <2>2. List(next', own', FREE, free_fofs') /\ List(next', own', EXCESS, excess')
    BY <1>1, <1>5, <2>1 DEF RingInv, RingLists
  <2>3. ASSUME NEW r \in Slot PROVE List(next', own', r, slot'[r])
    <3>1. CASE r = s
      BY <1>1, <1>4, <3>1, RingFacts
    <3>2. CASE r # s
      BY <1>1, <1>5, <3>2, RingFacts DEF RingInv, RingLists
    <3> QED
      BY <3>1, <3>2
  <2> QED
    BY <2>2, <2>3 DEF RingLists
<1>7. CtrlPart'
  BY <1>1, <1>3, <1>4 DEF CtrlPart
<1>8. ASSUME NEW c \in Client PROVE ClientPart(c)'
  <2>1. c # s /\ c # Ctrl /\ s # FREE
    BY RingFacts
  <2>2. \A f \in Fof : /\ own'[f] = c <=> own[f] = c
                       /\ own[f] = FREE => own'[f] = FREE
                       /\ own[f] \in {FREE, c} => next'[f] = next[f]
    BY <1>1, <1>2, <2>1
  <2> QED
    BY <1>1, <2>2, ClientPartFrame DEF RingInv
<1> QED
  BY <1>6, <1>7, <1>8 DEF RingInv

(* The walk through the list that was taken; its end is the tail. *)
LEMMA DeliverRing ==
  ASSUME Inv, Inv', RingInv, NoFlush', CtrlDeliver
  PROVE  RingInv'
<1>a. /\ Ctrl \in Proc /\ exp \in [Proc -> Ptr] /\ fof \in [Proc -> Ptr] /\ tail \in [Proc -> Ptr]
      /\ NULL \notin Fof /\ Ptr = Fof \cup {NULL} /\ next \in [Fof -> Ptr]
      /\ pc \in [Proc -> ClientPc \cup CtrlPc]
  BY RingFacts
<1>0. /\ pc[Ctrl] = "deliver" /\ UNCHANGED <<free_fofs, next, fof, own, slot, excess>>
      /\ List(next, own, Ctrl, fof[Ctrl])
      /\ tail[Ctrl] = NULL => exp[Ctrl] = fof[Ctrl]
      /\ tail[Ctrl] # NULL => own[tail[Ctrl]] = Ctrl /\ exp[Ctrl] = next[tail[Ctrl]]
  BY DEF CtrlDeliver, queueVars, ringVars, RingInv, CtrlPart
<1>1. RingLists'
  BY <1>0, RingListsFrame DEF RingInv
<1>2. ASSUME NEW c \in Client PROVE ClientPart(c)'
  <2>1. pc'[c] = pc[c] /\ tail'[c] = tail[c] /\ exp'[c] = exp[c]
    BY RingFacts DEF CtrlDeliver, Goto
  <2> QED
    BY <1>0, <2>1, ClientPartFrame DEF RingInv
<1>3. CASE exp[Ctrl] # NULL
  <2>1. pc' = pc /\ tail'[Ctrl] = exp[Ctrl] /\ exp'[Ctrl] = next[exp[Ctrl]]
    BY <1>a, <1>3 DEF CtrlDeliver
  <2>2. own[exp[Ctrl]] = Ctrl
    <3>1. CASE tail[Ctrl] = NULL
      BY <1>0, <1>3, <3>1 DEF List
    <3>2. CASE tail[Ctrl] # NULL
      BY <1>0, <1>3, <1>a, <3>2 DEF List
    <3> QED
      BY <3>1, <3>2
  <2>3. CtrlPart'
    BY <1>0, <1>3, <2>1, <2>2 DEF CtrlPart
  <2> QED
    BY <1>1, <1>2, <2>3 DEF RingInv
<1>4. CASE exp[Ctrl] = NULL
  <2>1. /\ pc'[Ctrl] = (IF fof[Ctrl] = NULL THEN "dsp" ELSE "free_load") /\ tail'[Ctrl] = tail[Ctrl]
    BY <1>a, <1>4 DEF CtrlDeliver, Goto
  <2>2. CASE fof[Ctrl] = NULL
    <3>1. \A f \in Fof : own[f] # Ctrl
      BY <1>0, <2>2 DEF List
    <3>2. tail[Ctrl] = NULL
      BY <1>0, <1>a, <3>1
    <3> QED
      BY <1>0, <1>1, <1>2, <2>1, <2>2, <3>1, <3>2 DEF RingInv, CtrlPart
  <2>3. CASE fof[Ctrl] # NULL
    <3>1. tail[Ctrl] \in Fof /\ own[tail[Ctrl]] = Ctrl /\ next[tail[Ctrl]] = NULL /\ fof[Ctrl] \in Fof
      BY <1>0, <1>4, <1>a, <2>3
    <3>2. Segment(next, own, Ctrl, fof[Ctrl], tail[Ctrl])
      BY <1>0, <1>a, <3>1, ListSegment
    <3> QED
      BY <1>0, <1>1, <1>2, <2>1, <2>3, <3>2 DEF RingInv, CtrlPart
  <2> QED
    BY <2>2, <2>3
<1> QED
  BY <1>3, <1>4

(* The ctrl client gives its chain back. *)
LEMMA FreeRing ==
  ASSUME Inv, Inv', RingInv, NoFlush', CtrlFree
  PROVE  RingInv'
<1>a. /\ Ctrl \in Proc /\ fof \in [Proc -> Ptr] /\ tail \in [Proc -> Ptr] /\ pc \in [Proc -> ClientPc \cup CtrlPc]
      /\ NULL \notin Fof /\ Ptr = Fof \cup {NULL} /\ next \in [Fof -> Ptr] /\ flush_i = NotFlushing
      /\ own \in [Fof -> Proc \cup Slot \cup {FREE, EXCESS}]
  BY RingFacts DEF RingInv, NoFlush
<1>0. /\ pc[Ctrl] \in {"free_load", "free_cas"} /\ UNCHANGED <<slot, excess, exp>>
      /\ FreeLoad(Ctrl) \/ FreeCas(Ctrl, "dsp")
  BY <1>a DEF CtrlFree, FreeLoad, FreeCas, Goto, queueVars, ringVars
<1>1. Segment(next, own, Ctrl, fof[Ctrl], tail[Ctrl])
  BY <1>0 DEF RingInv, CtrlPart
<1>2. PICK t \in Fof : t = tail[Ctrl] /\ own[t] = Ctrl
  BY <1>1 DEF Segment
<1>3. CASE FreeLoad(Ctrl) \/ (FreeCas(Ctrl, "dsp") /\ free_fofs # next[t])
  <2>1. /\ next' = [next EXCEPT ![t] = free_fofs] /\ UNCHANGED <<free_fofs, own, fof, tail>>
        /\ pc'[Ctrl] \in {"free_load", "free_cas"}
    BY <1>a, <1>2, <1>3 DEF FreeLoad, FreeCas, Goto
  <2>2. \A f \in Fof \ {t} : next'[f] = next[f]
    BY <1>a, <2>1
  <2>3. RingLists'
    <3>1. Ctrl \notin Slot \cup {FREE, EXCESS}
      BY RingFacts
    <3> QED
      BY <1>0, <1>2, <2>1, <2>2, <3>1, RingListsFrame DEF RingInv
  <2>4. CtrlPart'
    <3>1. Segment(next', own', Ctrl, fof[Ctrl], tail[Ctrl])
      BY <1>1, <1>2, <2>1, <2>2, RingFacts, SegmentFrame
    <3> QED
      BY <2>1, <3>1 DEF CtrlPart
  <2>5. ASSUME NEW c \in Client PROVE ClientPart(c)'
    <3>1. pc'[c] = pc[c] /\ c # Ctrl /\ FREE # Ctrl
      BY <1>a, <1>3, RingFacts DEF FreeLoad, FreeCas, Goto
    <3> QED
      BY <1>0, <1>2, <2>1, <2>2, <3>1, ClientPartFrame DEF RingInv
  <2> QED
    BY <2>3, <2>4, <2>5 DEF RingInv
<1>4. CASE FreeCas(Ctrl, "dsp") /\ free_fofs = next[t]
  <2>1. /\ pc'[Ctrl] = "dsp" /\ free_fofs' = fof[Ctrl] /\ UNCHANGED next
        /\ own' = [f \in Fof |-> IF own[f] = Ctrl THEN FREE ELSE own[f]]
        /\ tail'[Ctrl] = NULL
        /\ \A c \in Client : fof'[c] = fof[c] /\ tail'[c] = tail[c] /\ pc'[c] = pc[c]
    BY <1>a, <1>2, <1>4, RingFacts DEF FreeCas, Goto
  <2>2. RingLists'
    BY <1>0, <1>1, <1>2, <1>4, <1>a, <2>1, SpliceRing DEF RingInv
  <2>3. CtrlPart'
    BY <2>1, RingFacts DEF CtrlPart
  <2>4. ASSUME NEW c \in Client PROVE ClientPart(c)'
    <3>1. c # Ctrl /\ FREE # c
      BY RingFacts
    <3>2. \A f \in Fof : /\ own'[f] = c <=> own[f] = c
                         /\ own[f] = FREE => own'[f] = FREE
                         /\ own[f] \in {FREE, c} => next'[f] = next[f]
      BY <2>1, <3>1
    <3> QED
      BY <1>0, <2>1, <3>2, ClientPartFrame DEF RingInv
  <2> QED
    BY <2>2, <2>3, <2>4 DEF RingInv
<1> QED
  BY <1>0, <1>3, <1>4

(* Every step keeps the lists. *)
LEMMA StepRing ==
  ASSUME OneClient, FrameClock, Inv, RingInv, [Next]_vars
  PROVE  RingInv'
<1>0. Inv' /\ NoFlush'
  BY StepInv, StepNoFlush DEF RingInv
<1>1. ASSUME NEW c \in Client, ClientAdd(c) PROVE RingInv'
  BY <1>0, <1>1, ClientRing
<1>2. CASE JackCycle \/ CtrlBegin \/ CtrlAdvance \/ CtrlStamp \/ DspProcess
  <2>1. UNCHANGED <<next, own, free_fofs, slot, excess, fof, tail, exp>>
    BY <1>2 DEF JackCycle, CtrlBegin, CtrlAdvance, CtrlStamp, DspProcess, Move, queueVars, ringVars
  <2>2. \A c \in Client : pc'[c] = pc[c]
    BY <1>2, <1>0, RingFacts DEF JackCycle, CtrlBegin, CtrlAdvance, CtrlStamp, DspProcess, Move, Goto
  <2>3. {pc[Ctrl], pc'[Ctrl]} \cap {"deliver", "free_load", "free_cas"} = {}
    BY <1>2, CtrlMoves
  <2> QED
    BY <1>0, <2>1, <2>2, <2>3, QuietCtrl
<1>3. CASE CtrlFlush
  BY <1>3, FlushMoves DEF RingInv, NoFlush
<1>4. CASE (\E c \in Client : SetClockSource(c)) \/ UNCHANGED vars
  <2>1. UNCHANGED <<next, own, free_fofs, slot, excess, fof, tail, exp, pc>>
    BY <1>4 DEF SetClockSource, vars, poolVars, queueVars, ringVars
  <2> QED
    BY <1>0, <2>1, QuietCtrl
<1> QED
  BY <1>0, <1>1, <1>2, <1>3, <1>4, TakeRing, DeliverRing, FreeRing DEF Next, CallbackStep, AtRest

(* The lists are whole at the start: all fofs are free. *)
LEMMA InitRing == ASSUME FrameClock, CtrlInit PROVE RingInv
<1>1. /\ clock_source = "frame" /\ ctrl.clock_source = "frame" /\ flush_i = NotFlushing
      /\ slot = [s \in Slot |-> NULL] /\ excess = NULL /\ own = [f \in Fof |-> FREE]
      /\ tail[Ctrl] = NULL /\ \A p \in Proc : pc[p] = "idle"
  BY Constants DEF CtrlInit, QueueInit, PoolInit, FrameClock
<1>2. List(next, own, FREE, free_fofs)
  BY InitList DEF CtrlInit, QueueInit
<1>3. RingLists
  BY <1>1, <1>2, EmptyList, Constants DEF RingLists
<1> QED
  BY <1>1, <1>3, Constants DEF RingInv, NoFlush, CtrlPart, ClientPart, Holding, Calling

(* On the frame time clock and with one client every fof is in exactly one *)
(* place and every list ends (Partition): the pop, the pushes of both      *)
(* lanes, the taking of a slot and the give-back of a chain, in any order, *)
(* lose no fof and link none twice.                                        *)
THEOREM ServerPartition ==
  ASSUME OneClient, FrameClock
  PROVE  Spec => []Partition
<1> DEFINE I == Inv /\ RingInv
<1>1. CtrlInit => I
  BY InitInv, InitRing
<1>2. I /\ [Next]_vars => I'
  BY StepInv, StepRing
<1>3. I => Partition
  <2> SUFFICES ASSUME Inv, RingInv PROVE Partition
    OBVIOUS
  <2>0. next \in [Fof -> Ptr]
    BY DEF Inv, CtrlTypeOK, QueueTypeOK
  <2>1. FreeListIntegrity
    BY <2>0, ListWalk DEF RingInv, RingLists, FreeListIntegrity
  <2>2. \A s \in Slot : Ending(slot[s]) /\ Chain(slot[s]) = Owned(s)
    BY <2>0, ListWalk DEF RingInv, RingLists
  <2>3. Ending(excess) /\ Chain(excess) = Owned(EXCESS)
    BY <2>0, ListWalk DEF RingInv, RingLists
  <2>4. \A c \in Client : Owned(c) \subseteq {fof[c]}
    BY DEF RingInv, ClientPart, Owned
  <2>5. pc[Ctrl] \in {"idle", "begin", "flush", "advance", "dsp"} => Owned(Ctrl) = {}
    BY DEF RingInv, CtrlPart, Owned
  <2> QED
    BY <2>1, <2>2, <2>3, <2>4, <2>5 DEF Partition
<1> QED
  BY <1>1, <1>2, <1>3, PTL DEF Spec

-----------------------------------------------------------------------------
(*                        Handing out, each once                           *)

(* What a client's step touches: its own fof, or the one it pops. *)
LEMMA ClientTouches ==
  ASSUME Inv, RingInv, NEW c \in Client, ClientAdd(c), NEW f \in Fof
  PROVE  /\ own[f] \notin {FREE, c} => own'[f] = own[f] /\ next'[f] = next[f] /\ time_us'[f] = time_us[f]
         /\ own'[f] = own[f] \/ own'[f] \in {FREE, c, EXCESS} \cup Slot
         /\ own'[f] = own[f] => hist'[f] = hist[f]
         /\ own'[f] # own[f] /\ own'[f] \in Slot => hist'[f] = [ins |-> next_frame, born |-> jack.cycle, given |-> 0]
<1>a. /\ c \in Proc /\ pc \in [Proc -> ClientPc \cup CtrlPc] /\ own \in [Fof -> Proc \cup Slot \cup {FREE, EXCESS}]
      /\ fof \in [Proc -> Ptr] /\ next \in [Fof -> Ptr] /\ time_us \in [Fof -> Times \cup {0}]
      /\ call[c].idx \in Slot
  BY Constants, CallFacts DEF Inv, Pointers, CtrlTypeOK, QueueTypeOK
<1>b. pc[c] \in Calling => own[fof[c]] \in {FREE, c}
  <2>1. pc[c] \in Calling => fof[c] \in Fof
    BY <1>a DEF Inv, Pointers, Ptr
  <2> QED
    BY <2>1 DEF RingInv, ClientPart, Holding
<1>c. pc[c] \in {"free_load", "free_cas"} => tail[c] = fof[c]
  BY DEF RingInv, ClientPart
<1>1. /\ own'[f] = own[f] => hist'[f] = hist[f]
      /\ own'[f] # own[f] /\ own'[f] \in Slot => hist'[f] = [ins |-> next_frame, born |-> jack.cycle, given |-> 0]
  BY DEF ClientAdd, Record
<1> DEFINE Q == /\ own[f] \notin {FREE, c} => own'[f] = own[f] /\ next'[f] = next[f] /\ time_us'[f] = time_us[f]
                /\ own'[f] = own[f] \/ own'[f] \in {FREE, c, EXCESS} \cup Slot
<1>2. ASSUME UNCHANGED <<own, next, time_us>> PROVE Q
  BY <1>2
<1>3. ASSUME pc[c] \in Calling,
             \A g \in Fof \ {fof[c]} : own'[g] = own[g] /\ next'[g] = next[g] /\ time_us'[g] = time_us[g],
             own'[f] = own[f] \/ own'[f] \in {FREE, c, EXCESS} \cup Slot
      PROVE  Q
  BY <1>b, <1>3
<1>4. ASSUME Add(c) PROVE Q
  BY <1>2, <1>4 DEF Add, AllocLoad
<1>5. ASSUME Allocate(c) PROVE Q
  <2>1. CASE AllocCas(c)
    BY <1>3, <1>5, <1>a, <2>1 DEF Allocate, AllocCas, Calling
  <2>2. CASE ~ AllocCas(c)
    BY <1>2, <1>5, <2>2 DEF Allocate, AllocLoad, AllocNext
  <2> QED
    BY <2>1, <2>2
<1>6. ASSUME LoadFrame(c) PROVE Q
  BY <1>3, <1>6, <1>a DEF LoadFrame, Recalculate, Calling
<1>7. ASSUME ExcessLoad(c) \/ ExcessStore(c) PROVE Q
  BY <1>3, <1>7, <1>a DEF ExcessLoad, ExcessStore, Goto, Calling, queueVars, callVars
<1>8. ASSUME CacheTest(c) \/ CacheSlot(c) \/ CacheCheck(c) \/ Pick(c) PROVE Q
  BY <1>2, <1>8 DEF CacheTest, CacheSlot, CacheCheck, Pick, Move, queueVars, callVars
<1>9. ASSUME FastLoad(c) \/ SlowLoad(c) PROVE Q
  BY <1>3, <1>9, <1>a DEF FastLoad, SlowLoad, LoadSlot, Goto, Calling, queueVars, callVars
<1>10. ASSUME FastCheck(c) \/ SlowCheck(c) PROVE Q
  BY <1>2, <1>10 DEF FastCheck, SlowCheck, Move, Recalculate
<1>11. ASSUME FastCas(c) \/ SlowCas(c) PROVE Q
  BY <1>3, <1>11, <1>a DEF FastCas, SlowCas, Link, Calling
<1>12. ASSUME FreeLate(c) PROVE Q
  <2>1. pc[c] \in Calling /\ tail[c] = fof[c] /\ UNCHANGED time_us /\ pc[c] \in Holding
    BY <1>12, <1>c DEF FreeLate, FreeLoad, FreeCas, Goto, Calling, Holding, queueVars, callVars
  <2>2. \A g \in Fof : own[g] = c <=> g = fof[c]
    BY <2>1 DEF RingInv, ClientPart
  <2> QED
    BY <1>3, <1>12, <1>a, <2>1, <2>2 DEF FreeLate, FreeLoad, FreeCas
<1> QED
  BY <1>1, <1>4, <1>5, <1>6, <1>7, <1>8, <1>9, <1>10, <1>11, <1>12 DEF ClientAdd, AddStep

(* The walk of the callback hands out each fof of its list, in order. *)
LEMMA DeliverHanded ==
  ASSUME Inv, RingInv, HandedOut, CtrlDeliver
  PROVE  HandedOut'
<1>a. /\ Ctrl \in Proc /\ exp \in [Proc -> Ptr] /\ fof \in [Proc -> Ptr] /\ tail \in [Proc -> Ptr]
      /\ NULL \notin Fof /\ Ptr = Fof \cup {NULL} /\ next \in [Fof -> Ptr]
      /\ pc \in [Proc -> ClientPc \cup CtrlPc] /\ hist \in [Fof -> [ins : Nat, born : Nat, given : Nat]]
      /\ Ctrl \notin Slot
  BY Constants DEF Inv, Pointers, CtrlTypeOK, QueueTypeOK, Ptr
<1>0. /\ pc[Ctrl] = "deliver" /\ UNCHANGED <<next, fof, own, flush_i>>
      /\ List(next, own, Ctrl, fof[Ctrl])
      /\ tail[Ctrl] = NULL => exp[Ctrl] = fof[Ctrl]
      /\ tail[Ctrl] # NULL => own[tail[Ctrl]] = Ctrl /\ exp[Ctrl] = next[tail[Ctrl]]
  BY DEF CtrlDeliver, queueVars, RingInv, CtrlPart
<1>1. CASE exp[Ctrl] # NULL
  <2>1. PICK e \in Fof : e = exp[Ctrl]
    BY <1>1, <1>a
  <2>2. /\ pc' = pc /\ tail'[Ctrl] = e /\ exp'[Ctrl] = next[e]
        /\ hist' = [hist EXCEPT ![e].given = @ + 1]
    BY <1>a, <1>1, <2>1 DEF CtrlDeliver
  <2>3. hist[e].given = 0 /\ own[e] = Ctrl
    BY <1>0, <1>1, <1>a, <2>1 DEF HandedOut, List
  <2>4. hist'[e].given = 1 /\ \A f \in Fof \ {e} : hist'[f] = hist[f]
    <3>1. hist[e].given + 1 = 1
      BY <2>3
    <3> QED
      BY <1>a, <2>2, <3>1
  <2>5. e # tail[Ctrl]
    BY <1>0, <1>a, <2>3 DEF HandedOut
  <2>6. ASSUME NEW f \in Fof, own[f] = Ctrl, next[f] = e PROVE f = tail[Ctrl] /\ hist[f].given = 1
    BY <1>0, <1>1, <1>a, <2>1, <2>6 DEF List, HandedOut
  <2>7. next[e] # e
    BY <2>3, <2>5, <2>6
  <2>8. hist'[fof[Ctrl]].given = 1 /\ fof[Ctrl] \in Fof
    <3>1. fof[Ctrl] \in Fof
      BY <1>0, <1>a, <2>3 DEF List
    <3> QED
      BY <1>0, <1>a, <2>1, <2>4, <3>1 DEF HandedOut
  <2>9. next[e] # NULL => hist'[next[e]].given = 0
    <3> SUFFICES ASSUME next[e] # NULL PROVE hist'[next[e]].given = 0
      OBVIOUS
    <3>1. next[e] \in Fof /\ own[next[e]] = Ctrl
      BY <1>0, <1>a, <2>3 DEF List
    <3>2. hist[next[e]].given = 0
      BY <1>0, <2>3, <2>5, <3>1 DEF HandedOut
    <3> QED
      BY <2>4, <2>7, <3>1, <3>2
  <2>10. ASSUME NEW f \in Fof, own[f] = Ctrl, f # e, next[f] # NULL
         PROVE  hist'[f].given = 1 <=> hist'[next[f]].given = 1
    <3>1. CASE next[f] = e
      BY <2>4, <2>6, <2>10, <3>1
    <3>2. CASE next[f] # e
      <4>1. f # tail[Ctrl]
        BY <1>0, <2>1, <2>10, <3>2, <1>a
      <4> QED
        BY <1>0, <1>a, <2>4, <2>10, <3>2, <4>1 DEF HandedOut
    <3> QED
      BY <3>1, <3>2
  <2>11. DeliveredOnce'
    BY <1>0, <1>a, <2>2, <2>3, <2>4 DEF HandedOut, DeliveredOnce, Linked
  <2>12. \A f \in Fof : own[f] = Ctrl => hist'[f].given \in {0, 1}
    BY <1>0, <2>4 DEF HandedOut
  <2> QED
    BY <1>0, <2>2, <2>4, <2>8, <2>9, <2>10, <2>11, <2>12 DEF HandedOut
<1>2. CASE exp[Ctrl] = NULL
  <2>1. UNCHANGED <<hist, tail, exp>> /\ pc'[Ctrl] = (IF fof[Ctrl] = NULL THEN "dsp" ELSE "free_load")
    BY <1>a, <1>2 DEF CtrlDeliver, Goto
  <2>2. CASE fof[Ctrl] = NULL
    BY <1>0, <2>1, <2>2 DEF HandedOut, DeliveredOnce, Linked
  <2>3. CASE fof[Ctrl] # NULL
    <3> DEFINE S == {f \in Fof : own[f] = Ctrl /\ hist[f].given = 1}
    <3>1. fof[Ctrl] \in S
      BY <1>0, <1>2, <1>a, <2>3 DEF HandedOut, List
    <3>2. \A f \in S : own[f] = Ctrl /\ next[f] # NULL => next[f] \in S
      BY <1>0, <1>2, <1>a DEF HandedOut, List
    <3>3. \A f \in Fof : own[f] = Ctrl => f \in S
      <4> HIDE DEF S
      <4>1. S \in SUBSET Fof
        BY DEF S
      <4> QED
        BY <1>0, <3>1, <3>2, <4>1 DEF List
    <3> QED
      BY <1>0, <2>1, <2>3, <3>3 DEF HandedOut, DeliveredOnce, Linked, Owned
  <2> QED
    BY <2>2, <2>3
<1> QED
  BY <1>1, <1>2

(* Every step keeps the account of what was handed out. *)
LEMMA StepHanded ==
  ASSUME FrameClock, Inv, RingInv, HandedOut, [Next]_vars
  PROVE  HandedOut'
<1>a. Ctrl \notin Slot /\ Ctrl # FREE /\ Ctrl # EXCESS /\ FREE \notin Slot /\ flush_i = NotFlushing
      /\ own \in [Fof -> Proc \cup Slot \cup {FREE, EXCESS}] /\ (\A c \in Client : c \notin Slot /\ c # Ctrl)
      /\ fof \in [Proc -> Ptr] /\ tail \in [Proc -> Ptr] /\ exp \in [Proc -> Ptr] /\ Ctrl \in Proc
      /\ next \in [Fof -> Ptr] /\ Ptr = Fof \cup {NULL}
  BY Constants DEF RingInv, NoFlush, Inv, CtrlTypeOK, QueueTypeOK, Ptr
<1>1. ASSUME NEW c \in Client, ClientAdd(c) PROVE HandedOut'
  <2>1. /\ pc'[Ctrl] = pc[Ctrl] /\ fof'[Ctrl] = fof[Ctrl] /\ tail'[Ctrl] = tail[Ctrl]
        /\ exp'[Ctrl] = exp[Ctrl] /\ flush_i' = flush_i
    BY <1>1, ClientFrame
  <2>2. \A f \in Fof : /\ own'[f] = Ctrl <=> own[f] = Ctrl
                       /\ own[f] = Ctrl => next'[f] = next[f] /\ hist'[f] = hist[f]
                       /\ own'[f] \in Slot => hist'[f].given = 0 \/ (own'[f] = own[f] /\ hist'[f] = hist[f])
    <3> TAKE f \in Fof
    <3>1. /\ own[f] \notin {FREE, c} => own'[f] = own[f] /\ next'[f] = next[f]
          /\ own'[f] = own[f] \/ own'[f] \in {FREE, c, EXCESS} \cup Slot
          /\ own'[f] = own[f] => hist'[f] = hist[f]
      BY <1>1, ClientTouches
    <3>2. own'[f] # own[f] /\ own'[f] \in Slot => hist'[f].given = 0
      BY <1>1, ClientTouches
    <3>3. Ctrl \notin {FREE, c, EXCESS} \cup Slot
      BY <1>a
    <3>4. own'[f] = Ctrl <=> own[f] = Ctrl
      BY <3>1, <3>3
    <3>5. own[f] = Ctrl => next'[f] = next[f] /\ hist'[f] = hist[f]
      BY <3>1, <3>3
    <3>6. own'[f] \in Slot => hist'[f].given = 0 \/ (own'[f] = own[f] /\ hist'[f] = hist[f])
      BY <3>1, <3>2
    <3> QED
      BY <3>4, <3>5, <3>6
  <2>3. DeliveredOnce'
    BY <2>1, <2>2 DEF HandedOut, DeliveredOnce, Linked, Owned, NotFlushing
  <2>4. pc[Ctrl] = "deliver" =>
           /\ tail[Ctrl] # NULL => /\ tail[Ctrl] \in Fof /\ own[tail[Ctrl]] = Ctrl
                                   /\ fof[Ctrl] \in Fof /\ own[fof[Ctrl]] = Ctrl
           /\ exp[Ctrl] # NULL => exp[Ctrl] \in Fof /\ own[exp[Ctrl]] = Ctrl
           /\ \A f \in Fof : own[f] = Ctrl /\ next[f] # NULL => next[f] \in Fof /\ own[next[f]] = Ctrl
    BY <1>a DEF RingInv, CtrlPart, List
  <2> QED
    BY <2>1, <2>2, <2>3, <2>4 DEF HandedOut
<1>2. CASE JackCycle \/ CtrlBegin \/ CtrlAdvance \/ CtrlStamp \/ DspProcess
  <2>1. UNCHANGED <<own, hist>>
    BY <1>2 DEF JackCycle, CtrlBegin, CtrlAdvance, CtrlStamp, DspProcess, Move
  <2>2. pc'[Ctrl] \notin {"deliver", "free_load", "free_cas"}
    BY <1>2, CtrlMoves
  <2> QED
    BY <2>1, <2>2 DEF HandedOut, DeliveredOnce, Linked
<1>3. CASE CtrlFlush
  BY <1>3, FlushMoves DEF RingInv, NoFlush
<1>4. CASE CtrlTake
  <2>0. PICK s \in Slot : s = SlotOf(ctrl.n)
    BY SlotTyped DEF Inv, CtrlTypeOK
  <2>1. /\ UNCHANGED <<hist, next, tail>> /\ exp'[Ctrl] = slot[s] /\ tail[Ctrl] = NULL
        /\ \A f \in Fof : own[f] # Ctrl
        /\ \A f \in Fof : own'[f] = IF own[f] = s THEN Ctrl ELSE own[f]
    BY <1>4, <1>a, <2>0, CtrlMoves DEF CtrlTake, Detach, serverVars, RingInv, CtrlPart
  <2>2. pc'[Ctrl] = "deliver"
    BY <1>4, CtrlMoves
  <2>3. \A f \in Fof : own'[f] = Ctrl => own[f] = s /\ hist[f].given = 0
    BY <2>0, <2>1 DEF HandedOut, DeliveredOnce, Linked
  <2>4. slot[s] # NULL => slot[s] \in Fof /\ own[slot[s]] = s
    BY <1>a DEF RingInv, RingLists, List
  <2>5. \A f \in Fof : own'[f] = Ctrl /\ next[f] # NULL => next[f] \in Fof /\ own'[next[f]] = Ctrl
    <3>1. List(next, own, s, slot[s])
      BY DEF RingInv, RingLists
    <3> QED
      BY <1>a, <2>1, <2>3, <3>1 DEF List
  <2>6. DeliveredOnce'
    BY <2>1, <2>2, <1>a DEF HandedOut, DeliveredOnce, Linked
  <2> QED
    BY <2>0, <2>1, <2>2, <2>3, <2>4, <2>5, <2>6 DEF HandedOut, DeliveredOnce, Linked
<1>5. CASE CtrlFree
  <2>1. /\ UNCHANGED flush_i /\ pc[Ctrl] \in {"free_load", "free_cas"}
        /\ pc'[Ctrl] \in {"free_load", "free_cas", "dsp"}
    BY <1>5, <1>a, CtrlMoves DEF CtrlFree, queueVars
  <2>2. \A f \in Fof : own'[f] = own[f] \/ own'[f] = FREE
    BY <1>5, <1>a DEF CtrlFree, FreeLoad, FreeCas
  <2>3. \A f \in Fof : own'[f] = own[f] => hist'[f] = hist[f]
    BY <1>5 DEF CtrlFree, Record
  <2> QED
    BY <1>a, <2>1, <2>2, <2>3 DEF HandedOut, DeliveredOnce, Linked, Owned, NotFlushing
<1>6. CASE (\E c \in Client : SetClockSource(c)) \/ UNCHANGED vars
  <2>1. UNCHANGED <<next, own, fof, tail, exp, pc, hist, flush_i>>
    BY <1>6 DEF SetClockSource, vars, poolVars, queueVars, serverVars
  <2> QED
    BY <2>1 DEF HandedOut, DeliveredOnce, Linked, Owned, NotFlushing
<1> QED
  BY <1>1, <1>2, <1>3, <1>4, <1>5, <1>6, DeliverHanded DEF Next, CallbackStep, AtRest

(* On the frame time clock and with one client a fof is given back only    *)
(* after it was handed to a dsp client once, and a fof in a slot was not   *)
(* handed out yet (DeliveredOnce): the walk of ctrl_client_process reaches *)
(* the whole list it took, while the client pushes on the slots.           *)
THEOREM ServerDeliveredOnce ==
  ASSUME OneClient, FrameClock
  PROVE  Spec => []DeliveredOnce
<1> DEFINE I == Inv /\ RingInv /\ HandedOut
<1>1. CtrlInit => I
  <2>1. CtrlInit => HandedOut
    BY Constants DEF CtrlInit, QueueInit, PoolInit, HandedOut, DeliveredOnce, Linked
  <2> QED
    BY <2>1, InitInv, InitRing
<1>2. I /\ [Next]_vars => I'
  BY StepInv, StepRing, StepHanded
<1>3. I => DeliveredOnce
  BY DEF HandedOut
<1> QED
  BY <1>1, <1>2, <1>3, PTL DEF Spec

-----------------------------------------------------------------------------
(*                          When a fof is accepted                         *)

(* A fof enters a slot by the exchange of one of the two lanes. *)
LEMMA ClientLinks ==
  ASSUME Inv, NEW c \in Client, ClientAdd(c), NEW f \in Fof,
         own'[f] \in Slot, own'[f] # own[f]
  PROVE  /\ pc[c] \in {"fast_cas", "slow_cas"} /\ f = fof[c] /\ UNCHANGED time_us
         /\ own' = [own EXCEPT ![f] = call[c].idx]
<1>a. own \in [Fof -> Proc \cup Slot \cup {FREE, EXCESS}] /\ FREE \notin Slot /\ EXCESS \notin Slot
      /\ c \notin Slot
  BY Constants DEF Inv, CtrlTypeOK, QueueTypeOK
<1>1. own' # own
  OBVIOUS
<1>2. ~ Add(c)
  BY <1>1 DEF Add, AllocLoad
<1>3. ~ Allocate(c)
  BY <1>a, <1>1 DEF Allocate, AllocLoad, AllocNext, AllocCas
<1>4. ~ LoadFrame(c) /\ ~ ExcessLoad(c) /\ ~ CacheTest(c) /\ ~ CacheSlot(c) /\ ~ CacheCheck(c)
      /\ ~ Pick(c) /\ ~ FastLoad(c) /\ ~ SlowLoad(c) /\ ~ FastCheck(c) /\ ~ SlowCheck(c)
  BY <1>1 DEF LoadFrame, ExcessLoad, CacheTest, CacheSlot, CacheCheck, Pick, FastLoad, SlowLoad,
     FastCheck, SlowCheck, LoadSlot, Recalculate, Move
<1>5. ~ ExcessStore(c)
  BY <1>a DEF ExcessStore
<1>6. ~ FreeLate(c)
  BY <1>a DEF FreeLate, FreeLoad, FreeCas
<1>7. FastCas(c) \/ SlowCas(c)
  BY <1>2, <1>3, <1>4, <1>5, <1>6 DEF ClientAdd, AddStep
<1>8. /\ pc[c] \in {"fast_cas", "slow_cas"} /\ UNCHANGED time_us
      /\ own' = [own EXCEPT ![fof[c]] = call[c].idx]
  BY <1>1, <1>7 DEF FastCas, SlowCas, Link
<1> QED
  BY <1>a, <1>8

(* The steps that are not a client's call. *)
ServerStep == \/ JackCycle \/ CallbackStep \/ (\E c \in Client : SetClockSource(c))
              \/ UNCHANGED vars

(* What they leave alone on the frame time clock, and that they move the   *)
(* clock only forward.                                                     *)
LEMMA ServerFrame ==
  ASSUME Inv, NoFlush, ServerStep
  PROVE  /\ UNCHANGED <<time_us, call, current_slot, next_frame_check>>
         /\ \A c \in Client : pc'[c] = pc[c] /\ fof'[c] = fof[c]
         /\ \A f \in Fof : own'[f] \in Slot => own'[f] = own[f]
         /\ \A f \in Fof : own'[f] \in Slot \cup {Ctrl} => hist'[f].ins = hist[f].ins
         /\ \/ CtrlAdvance /\ next_frame' = next_frame + jack.nframes
            \/ ~ CtrlAdvance /\ next_frame' = next_frame
<1>a. /\ Ctrl \in Proc /\ (\A c \in Client : c \in Proc /\ c # Ctrl)
      /\ pc \in [Proc -> ClientPc \cup CtrlPc] /\ fof \in [Proc -> Ptr]
      /\ own \in [Fof -> Proc \cup Slot \cup {FREE, EXCESS}] /\ FREE \notin Slot /\ Ctrl \notin Slot
      /\ Ctrl # FREE /\ hist \in [Fof -> [ins : Nat, born : Nat, given : Nat]]
  BY Constants DEF Inv, Pointers, CtrlTypeOK, QueueTypeOK
<1> DEFINE P == /\ UNCHANGED <<time_us, call, current_slot, next_frame_check>>
                /\ \A c \in Client : pc'[c] = pc[c] /\ fof'[c] = fof[c]
                /\ \A f \in Fof : own'[f] \in Slot => own'[f] = own[f]
                /\ \A f \in Fof : own'[f] \in Slot \cup {Ctrl} => hist'[f].ins = hist[f].ins
<1>0. ~ CtrlFlush
  BY FlushMoves DEF NoFlush
<1>1. ASSUME JackCycle \/ CtrlBegin \/ CtrlAdvance \/ CtrlStamp \/ DspProcess PROVE P
  BY <1>1, <1>a DEF JackCycle, CtrlBegin, CtrlAdvance, CtrlStamp, DspProcess, Move, Goto,
     queueVars, cacheVars, callVars
<1>2. ASSUME CtrlTake PROVE P
  <2>1. /\ UNCHANGED <<time_us, call, current_slot, next_frame_check, hist>>
        /\ \A f \in Fof : own'[f] \in Slot => own'[f] = own[f]
    BY <1>2, <1>a DEF CtrlTake, Detach, cacheVars, callVars, serverVars
  <2>2. \A c \in Client : pc'[c] = pc[c] /\ fof'[c] = fof[c]
    BY <1>2, <1>a DEF CtrlTake, Detach, Goto
  <2> QED
    BY <2>1, <2>2
<1>3. ASSUME CtrlDeliver PROVE P
  <2>1. /\ UNCHANGED <<time_us, call, current_slot, next_frame_check, own, fof>>
        /\ \A c \in Client : pc'[c] = pc[c]
    BY <1>3, <1>a DEF CtrlDeliver, Goto, queueVars, cacheVars, callVars
  <2>2. \A f \in Fof : hist'[f].ins = hist[f].ins
    BY <1>3, <1>a DEF CtrlDeliver
  <2> QED
    BY <2>1, <2>2
<1>4. ASSUME CtrlFree PROVE P
  <2>1. /\ UNCHANGED <<time_us, call, current_slot, next_frame_check>>
        /\ \A f \in Fof : own'[f] = own[f] \/ own'[f] = FREE
        /\ \A f \in Fof : own'[f] = own[f] => hist'[f] = hist[f]
    BY <1>4, <1>a DEF CtrlFree, Record, FreeLoad, FreeCas, queueVars, cacheVars, callVars
  <2>2. \A c \in Client : pc'[c] = pc[c] /\ fof'[c] = fof[c]
    BY <1>4, <1>a DEF CtrlFree, FreeLoad, FreeCas, Goto
  <2> QED
    BY <1>a, <2>1, <2>2
<1>5. ASSUME (\E c \in Client : SetClockSource(c)) \/ UNCHANGED vars PROVE P
  BY <1>5 DEF SetClockSource, vars, poolVars, queueVars, cacheVars, callVars, serverVars
<1>6. CASE CtrlAdvance
  BY <1>1, <1>6 DEF CtrlAdvance, NoFlush, UsesTransport, FrameStep
<1>7. CASE ~ CtrlAdvance
  <2>1. next_frame' = next_frame
    BY <1>0, <1>7 DEF ServerStep, CallbackStep, JackCycle, CtrlBegin, CtrlStamp, CtrlTake, CtrlDeliver,
       CtrlFree, DspProcess, SetClockSource, vars, queueVars
  <2> QED
    BY <1>0, <1>1, <1>2, <1>3, <1>4, <1>5, <1>7, <2>1 DEF ServerStep, CallbackStep
<1> QED
  BY <1>6, <1>7

(* The step is a client's or the server's. *)
LEMMA WhoSteps == [Next]_vars => ServerStep \/ \E c \in Client : ClientAdd(c)
BY DEF Next, ServerStep, AtRest

(* The frames of the ring, and of a start frame that is not beyond it. *)
LEMMA WithinRing ==
  ASSUME NEW d \in Nat, ~ BeyondRing(d)
  PROVE  d < NSlots * BufferSize
<1> DEFINE q == d \div BufferSize
<1>1. q \in Nat /\ d % BufferSize \in 0..BufferSize - 1 /\ d = q * BufferSize + (d % BufferSize) /\ q < NSlots
  <2>1. q \in Nat /\ d % BufferSize \in 0..BufferSize - 1 /\ d = q * BufferSize + (d % BufferSize)
    BY Constants, DivMod
  <2> QED
    BY <2>1, Constants DEF BeyondRing
<1> HIDE DEF q
<1>2. q * BufferSize + BufferSize <= NSlots * BufferSize /\ q * BufferSize \in Nat /\ NSlots * BufferSize \in Nat
  BY <1>1, Constants, Products
<1>3. PICK x \in Nat, y \in Nat, r \in 0..BufferSize - 1 :
        x = q * BufferSize /\ y = NSlots * BufferSize /\ r = d % BufferSize
  BY <1>1, <1>2
<1>4. d = x + r /\ x + BufferSize <= y /\ BufferSize \in Nat
  BY <1>1, <1>2, <1>3, Constants
<1>5. d < y
  BY <1>4
<1> QED
  BY <1>3, <1>5

(* The start frame of a fof is a number. *)
LEMMA StartTyped == ASSUME Inv, NEW f \in Fof PROVE Start(f) \in Nat
BY FramesTyped, Constants DEF Start, Inv, CtrlTypeOK, QueueTypeOK

(* A call leaves fof_queue_add's loops with a place near the clock it read. *)
LEMMA ClientNear ==
  ASSUME Inv, Inv', RingInv, NEW c \in Client, ClientAdd(c), Near(c)
  PROVE  Near(c)'
<1>a. /\ c \in Proc /\ pc \in [Proc -> ClientPc \cup CtrlPc] /\ fof \in [Proc -> Ptr]
      /\ call \in [Client -> [nf : Nat, idx : Slot, status : Status]] /\ next_frame \in Nat
      /\ call[c].nf \in Nat /\ BufferSize \in Nat /\ NSlots * BufferSize \in Nat
      /\ time_us \in [Fof -> Times \cup {0}] /\ UNCHANGED next_frame
  BY Constants, CallFacts, Products, ClientFrame DEF Inv, Pointers, CtrlTypeOK, QueueTypeOK
<1>b. pc[c] \in Calling => fof[c] \in Fof /\ Start(fof[c]) \in Nat
  BY <1>a, StartTyped DEF Inv, Pointers, Ptr
<1>1. ASSUME pc'[c] \notin Placing \cup {"free_load", "free_cas"} PROVE Near(c)'
  BY <1>1 DEF Near, Placing
<1>2. ASSUME NEW from \in {"allocated", "fast_check"}, NEW st \in Nat, Recalculate(c, from, next_frame, st),
             fof[c] \in Fof, Start(fof[c])' = st
      PROVE  Near(c)'
  <2>0. fof' = fof
    BY <1>2 DEF Recalculate
  <2>1. CASE st < next_frame /\ Discard(c, from)
    <3>1. pc'[c] = "free_load"
      BY <1>a, <2>1 DEF Discard, Goto
    <3>2. st <= next_frame + BufferSize
      BY <1>a, <1>2, <2>1
    <3> QED
      BY <1>2, <1>a, <3>1, <3>2 DEF Near, Placing
  <2>2. CASE /\ st >= next_frame
             /\ Goto(c, from, IF BeyondRing(st - next_frame) THEN "excess_load" ELSE "cache_test")
             /\ call' = [call EXCEPT ![c].nf = next_frame]
    <3>1. CASE BeyondRing(st - next_frame)
      <4>1. pc'[c] = "excess_load"
        BY <1>a, <2>2, <3>1 DEF Goto
      <4> QED
        BY <1>1, <4>1 DEF Placing
    <3>2. CASE ~ BeyondRing(st - next_frame)
      <4>1. pc'[c] = "cache_test" /\ call'[c].nf = next_frame
        BY <1>a, <2>2, <3>2 DEF Goto
      <4>2. st - next_frame \in Nat
        BY <1>a, <1>2, <2>2
      <4>3. st - next_frame < NSlots * BufferSize
        BY <3>2, <4>2, WithinRing
      <4>4. next_frame <= st /\ st < next_frame + NSlots * BufferSize
        BY <1>a, <1>2, <2>2, <4>3
      <4> QED
        BY <1>2, <1>a, <4>1, <4>4 DEF Near, Placing
    <3> QED
      BY <3>1, <3>2
  <2> QED
    BY <1>2, <2>1, <2>2 DEF Recalculate
<1>3. ASSUME Add(c) \/ Allocate(c) PROVE Near(c)'
  <2>1. pc'[c] \in {"idle", "alloc_next", "alloc_cas", "allocated", "alloc_load"}
    BY <1>3, <1>a DEF Add, Allocate, AllocLoad, AllocNext, AllocCas, Goto
  <2> QED
    BY <1>1, <2>1 DEF Placing
<1>4. ASSUME LoadFrame(c) PROVE Near(c)'
  <2>1. PICK t \in Times : /\ time_us' = [time_us EXCEPT ![fof[c]] = t]
                           /\ Recalculate(c, "allocated", next_frame, TimeToFrames(t))
    BY <1>4 DEF LoadFrame
  <2>2. fof[c] \in Fof /\ fof' = fof
    BY <1>4, <1>b DEF LoadFrame, Recalculate, Calling
  <2>3. Start(fof[c])' = TimeToFrames(t) /\ TimeToFrames(t) \in Nat
    <3>1. time_us'[fof'[c]] = t
      BY <1>a, <2>1, <2>2
    <3> QED
      BY <3>1, FramesTyped, Constants DEF Start, TimeToFrames
  <2> QED
    BY <1>2, <2>1, <2>2, <2>3
<1>5. ASSUME ExcessLoad(c) \/ ExcessStore(c) PROVE Near(c)'
  <2>1. pc'[c] \in {"excess_store", "idle"}
    BY <1>5, <1>a DEF ExcessLoad, ExcessStore, Goto
  <2> QED
    BY <1>1, <2>1 DEF Placing
<1>6. ASSUME pc[c] \in Placing, pc'[c] \in Placing, UNCHANGED <<fof, time_us>>, call'[c].nf = call[c].nf,
             pc'[c] \in {"slow_load", "slow_check", "slow_cas"} => Start(fof[c]) <= call[c].nf + BufferSize
      PROVE  Near(c)'
  BY <1>6, <1>a DEF Near, Placing, Start, TimeToFrames
<1>7. ASSUME CacheTest(c) \/ CacheSlot(c) \/ CacheCheck(c) PROVE Near(c)'
  BY <1>6, <1>7, <1>a DEF CacheTest, CacheSlot, CacheCheck, Move, Goto, queueVars, callVars, Placing
<1>8. ASSUME Pick(c) PROVE Near(c)'
  <2>1. /\ pc[c] = "pick" /\ call'[c].nf = call[c].nf /\ UNCHANGED <<fof, time_us>>
        /\ pc'[c] = IF Start(fof[c]) > call[c].nf + BufferSize THEN "fast_load" ELSE "slow_load"
    BY <1>8, <1>a DEF Pick, Move, Goto
  <2>2. Start(fof[c]) \in Nat
    BY <1>b, <2>1 DEF Calling
  <2> QED
    BY <1>6, <1>a, <2>1, <2>2 DEF Placing
<1>9. ASSUME FastLoad(c) \/ SlowLoad(c) PROVE Near(c)'
  <2>1. /\ pc[c] \in Placing /\ pc'[c] \in Placing /\ UNCHANGED <<fof, time_us, call>>
        /\ pc'[c] \in {"slow_load", "slow_check", "slow_cas"} => pc[c] = "slow_load"
    BY <1>9, <1>a DEF FastLoad, SlowLoad, LoadSlot, Goto, Placing, queueVars, callVars
  <2> QED
    BY <1>6, <2>1 DEF Near
<1>10. ASSUME FastCheck(c), next_frame # call[c].nf PROVE Near(c)'
  <2>1. /\ Recalculate(c, "fast_check", next_frame, Start(fof[c])) /\ UNCHANGED <<fof, time_us>>
        /\ pc[c] = "fast_check"
    BY <1>10 DEF FastCheck, Recalculate
  <2>2. fof[c] \in Fof /\ Start(fof[c]) \in Nat
    BY <1>b, <2>1 DEF Calling
  <2>3. Start(fof[c])' = Start(fof[c])
    BY <2>1 DEF Start, TimeToFrames
  <2> QED
    BY <1>2, <2>1, <2>2, <2>3
<1>11. ASSUME SlowCheck(c), next_frame # call[c].nf PROVE Near(c)'
  <2>1. pc[c] = "slow_check" /\ pc'[c] = "free_load" /\ UNCHANGED <<fof, time_us>>
    BY <1>11, <1>a DEF SlowCheck, Discard, Goto
  <2>2. Start(fof[c]) <= next_frame + BufferSize
    BY <1>a, <1>b, <2>1 DEF Near, Placing, Calling
  <2> QED
    BY <1>a, <2>1, <2>2 DEF Near, Placing, Start, TimeToFrames
<1>12. ASSUME FastCheck(c) \/ SlowCheck(c), next_frame = call[c].nf PROVE Near(c)'
  <2>1. /\ pc[c] \in Placing /\ pc'[c] \in Placing /\ UNCHANGED <<fof, time_us, call>>
        /\ pc'[c] \in {"slow_load", "slow_check", "slow_cas"} => pc[c] = "slow_check"
    BY <1>12, <1>a DEF FastCheck, SlowCheck, Move, Goto, Placing
  <2> QED
    BY <1>6, <2>1 DEF Near
<1>13. ASSUME FastCas(c) PROVE Near(c)'
  <2>1. CASE slot[call[c].idx] = next[fof[c]]
    <3>1. pc'[c] = "idle"
      BY <1>13, <1>a, <2>1 DEF FastCas, Link, Goto
    <3> QED
      BY <1>1, <3>1 DEF Placing
  <2>2. CASE slot[call[c].idx] # next[fof[c]]
    BY <1>6, <1>13, <1>a, <2>2 DEF FastCas, Goto, Placing
  <2> QED
    BY <2>1, <2>2
<1>14. ASSUME SlowCas(c) PROVE Near(c)'
  <2>1. CASE slot[call[c].idx] = exp[c]
    <3>1. pc'[c] = "idle"
      BY <1>14, <1>a, <2>1 DEF SlowCas, Link, Goto
    <3> QED
      BY <1>1, <3>1 DEF Placing
  <2>2. CASE slot[call[c].idx] # exp[c]
    <3>1. pc[c] = "slow_cas" /\ pc'[c] = "free_load" /\ UNCHANGED <<fof, time_us>>
      BY <1>14, <1>a, <2>2 DEF SlowCas, Discard, Goto
    <3>2. Start(fof[c]) <= next_frame + BufferSize
      BY <1>a, <1>b, <3>1 DEF Near, Placing, Calling
    <3> QED
      BY <1>a, <3>1, <3>2 DEF Near, Placing, Start, TimeToFrames
  <2> QED
    BY <2>1, <2>2
<1>15. ASSUME FreeLate(c) PROVE Near(c)'
  <2>1. /\ pc[c] \in {"free_load", "free_cas"} /\ UNCHANGED <<call, time_us>>
        /\ pc'[c] = "idle" \/ (pc'[c] \in {"free_load", "free_cas"} /\ fof' = fof)
    BY <1>15, <1>a DEF FreeLate, FreeLoad, FreeCas, Goto, queueVars, callVars
  <2> QED
    BY <1>a, <2>1 DEF Near, Placing, Start, TimeToFrames
<1> QED
  BY <1>3, <1>4, <1>5, <1>7, <1>8, <1>9, <1>10, <1>11, <1>12, <1>13, <1>14, <1>15 DEF ClientAdd, AddStep

(* Every step keeps the calls and the linked fofs near. *)
LEMMA StepTime ==
  ASSUME OneClient, FrameClock, Inv, RingInv, TimeInv, [Next]_vars
  PROVE  TimeInv'
<1>a. Inv' /\ next_frame \in Nat /\ jack.nframes \in Nat /\ BufferSize \in Nat /\ NSlots * BufferSize \in Nat
      /\ FrameMod \in Nat \ {0} /\ NSlots * BufferSize \in Nat
  BY StepInv, JackFacts, Constants, Products DEF Inv, CtrlTypeOK, QueueTypeOK
<1>1. ASSUME NEW c \in Client, ClientAdd(c) PROVE \A d \in Client : Near(d)'
  BY <1>1, <1>a, ClientNear DEF TimeInv, OneClient
<1>2. ASSUME NEW c \in Client, ClientAdd(c) PROVE AcceptedInWindow'
  <2> SUFFICES ASSUME NEW f \in Fof, Linked(f)', ~ (StartFrame(f)' >= FrameMod)
               PROVE  StartFrame(f)' < hist'[f].ins + NSlots * BufferSize
    BY DEF AcceptedInWindow
  <2>1. CASE own'[f] = own[f]
    <3>1. own[f] \notin {FREE, c}
      BY <2>1, Constants DEF Linked
    <3>2. time_us'[f] = time_us[f] /\ hist'[f] = hist[f]
      BY <1>2, <2>1, <3>1, ClientTouches
    <3> QED
      BY <2>1, <3>2 DEF TimeInv, AcceptedInWindow, StartFrame, Linked
  <2>2. CASE own'[f] # own[f]
    <3>1. pc[c] \in {"fast_cas", "slow_cas"} /\ f = fof[c] /\ UNCHANGED time_us
      BY <1>2, <2>2, ClientLinks DEF Linked
    <3>2. hist'[f].ins = next_frame
      BY <1>2, <2>2, ClientTouches DEF Linked
    <3>3. Start(f) < call[c].nf + NSlots * BufferSize /\ call[c].nf <= next_frame
      BY <3>1 DEF TimeInv, Near, Placing
    <3>4. call[c].nf \in Nat /\ Start(f) \in Nat
      BY CallFacts, StartTyped DEF Inv
    <3>5. StartFrame(f)' = Start(f)
      <4>1. time_us[f] \in Nat
        <5>1. Times \cup {0} \subseteq Nat
          BY Constants
        <5>2. time_us \in [Fof -> Times \cup {0}]
          BY DEF Inv, CtrlTypeOK, QueueTypeOK
        <5> QED
          BY <5>1, <5>2
      <4>2. PICK n \in Nat : n = (time_us[f] * SampleRate) \div Second
        <5>1. time_us[f] * SampleRate \in Nat
          BY <4>1, Constants, Products
        <5> QED
          BY <5>1, Constants, DivMod
      <4>3. StartFrame(f)' = n /\ Start(f) = n % FrameMod
        BY <3>1, <4>2 DEF StartFrame, Start, TimeToFrames
      <4>4. n < FrameMod
        BY <1>a, <4>2, <4>3
      <4>5. n % FrameMod = n
        <5>1. 0 * FrameMod + n = n /\ n \in 0..FrameMod - 1
          BY <1>a, <4>4
        <5>2. (0 * FrameMod + n) % FrameMod = n
          BY <1>a, <5>1, DivModUnique
        <5> QED
          BY <5>1, <5>2
      <4> QED
        BY <4>3, <4>5
    <3> QED
      BY <1>a, <3>2, <3>3, <3>4, <3>5
  <2> QED
    BY <2>1, <2>2
<1>3. ASSUME ServerStep PROVE (\A d \in Client : Near(d)') /\ AcceptedInWindow'
  <2>1. /\ UNCHANGED <<time_us, call>> /\ \A c \in Client : pc'[c] = pc[c] /\ fof'[c] = fof[c]
        /\ \A f \in Fof : own'[f] \in Slot => own'[f] = own[f] /\ hist'[f].ins = hist[f].ins
        /\ next_frame' \in {next_frame, next_frame + jack.nframes}
    BY <1>3, ServerFrame DEF RingInv
  <2>2. ASSUME NEW c \in Client PROVE Near(c)'
    <3>1. pc[c] \in Calling => Start(fof[c]) \in Nat
      BY StartTyped, Constants DEF Inv, Pointers, CtrlTypeOK, QueueTypeOK, Ptr
    <3>2. call[c].nf \in Nat
      BY CallFacts DEF Inv
    <3>3. Placing \cup {"free_load", "free_cas"} \subseteq Calling
      BY DEF Placing, Calling
    <3>4. next_frame <= next_frame' /\ next_frame' \in Nat
      BY <1>a, <2>1
    <3>5. Start(fof[c])' = Start(fof[c])
      BY <2>1 DEF Start, TimeToFrames
    <3> QED
      BY <1>a, <2>1, <3>1, <3>2, <3>3, <3>4, <3>5 DEF TimeInv, Near
  <2>3. AcceptedInWindow'
    BY <2>1 DEF TimeInv, AcceptedInWindow, Linked, StartFrame
  <2> QED
    BY <2>2, <2>3
<1>4. (\A d \in Client : Near(d)') => LateIsNear'
  BY DEF Near, LateIsNear
<1> QED
  BY <1>1, <1>2, <1>3, <1>4, WhoSteps DEF TimeInv

(* Nothing is under way at the start. *)
LEMMA InitTime == CtrlInit => TimeInv
BY Constants DEF CtrlInit, QueueInit, PoolInit, TimeInv, Near, Placing, LateIsNear, AcceptedInWindow,
   Linked

(* On the frame time clock and with one client a fof enters the ring only  *)
(* within the window that JFOFS_SUCCESS promises (AcceptedInWindow), also  *)
(* when next_frame moves under fof_queue_add.                              *)
THEOREM ServerAcceptedInWindow ==
  ASSUME OneClient, FrameClock
  PROVE  Spec => []AcceptedInWindow
<1> DEFINE I == Inv /\ RingInv /\ TimeInv
<1>1. CtrlInit => I
  BY InitInv, InitRing, InitTime
<1>2. I /\ [Next]_vars => I'
  BY StepInv, StepRing, StepTime
<1>3. I => AcceptedInWindow
  BY DEF TimeInv
<1> QED
  BY <1>1, <1>2, <1>3, PTL DEF Spec

(* Under the same hypotheses a fof is rejected as late only if it starts   *)
(* before next_frame or at most a slot after it (LateIsNear): the slow     *)
(* lane, which gives up on any interference, is for near fofs alone.       *)
THEOREM ServerLateIsNear ==
  ASSUME OneClient, FrameClock
  PROVE  Spec => []LateIsNear
<1> DEFINE I == Inv /\ RingInv /\ TimeInv
<1>1. CtrlInit => I
  BY InitInv, InitRing, InitTime
<1>2. I /\ [Next]_vars => I'
  BY StepInv, StepRing, StepTime
<1>3. I => LateIsNear
  BY DEF TimeInv
<1> QED
  BY <1>1, <1>2, <1>3, PTL DEF Spec

-----------------------------------------------------------------------------
(*                     One turn of the ring, any clients                   *)

(* NSlots blocks in a row fall on every slot. *)
LEMMA EverySlot ==
  ASSUME NEW b \in Nat, NEW s \in Slot
  PROVE  \E k \in Nat : b <= k /\ k < b + NSlots /\ k % NSlots = s
<1> DEFINE q == b \div NSlots
           r == b % NSlots
<1>1. q \in Nat /\ r \in 0..NSlots - 1 /\ b = q * NSlots + r
  BY Constants, DivMod
<1> HIDE DEF q, r
<1>2. s \in 0..NSlots - 1 /\ NSlots \in Nat \ {0}
  BY Constants DEF Slot
<1>3. q * NSlots \in Nat /\ (q + 1) * NSlots = q * NSlots + NSlots
  BY <1>1, <1>2
<1>4. (q * NSlots + s) % NSlots = s /\ ((q + 1) * NSlots + s) % NSlots = s
  BY <1>1, <1>2, DivModUnique
<1>5. PICK x \in Nat : x = q * NSlots
  BY <1>3
<1>6. CASE r <= s
  <2>1. x + s \in Nat /\ b <= x + s /\ x + s < b + NSlots
    BY <1>1, <1>2, <1>5, <1>6
  <2> QED
    BY <1>4, <1>5, <2>1
<1>7. CASE r > s
  <2>1. x + NSlots + s \in Nat /\ b <= x + NSlots + s /\ x + NSlots + s < b + NSlots
    BY <1>1, <1>2, <1>5, <1>7
  <2> QED
    BY <1>3, <1>4, <1>5, <2>1
<1> QED
  BY <1>1, <1>2, <1>6, <1>7

(* A block and its frames. *)
LEMMA BlockBounds ==
  ASSUME NEW n \in Nat
  PROVE  /\ Block(n) \in Nat /\ Block(n) * BufferSize \in Nat
         /\ Block(n) * BufferSize <= n /\ n < Block(n) * BufferSize + BufferSize
<1>1. PICK q \in Nat, r \in 0..BufferSize - 1 : q = Block(n) /\ n = q * BufferSize + r
  BY Constants, DivMod DEF Block
<1>2. PICK x \in Nat : x = q * BufferSize
  BY <1>1, Constants, Products
<1>3. x <= n /\ n < x + BufferSize
  BY <1>1, <1>2, Constants
<1> QED
  BY <1>1, <1>2, <1>3

(* Blocks are ordered like their frames. *)
LEMMA BlockOrder ==
  ASSUME NEW n \in Nat, NEW m \in Nat, n <= m
  PROVE  /\ Block(n) <= Block(m)
         /\ m <= n + BufferSize => Block(m) <= Block(n) + 1
<1>1. PICK a \in Nat, b \in Nat : a = Block(n) /\ b = Block(m)
  BY BlockBounds
<1>2. PICK x \in Nat, y \in Nat : x = a * BufferSize /\ y = b * BufferSize
  BY <1>1, BlockBounds
<1>3. x <= n /\ n < x + BufferSize /\ y <= m /\ m < y + BufferSize
  BY <1>1, <1>2, BlockBounds
<1>4. b < a => y + BufferSize <= x
  BY <1>1, <1>2, Constants, Products
<1>5. a + 1 < b => x + BufferSize + BufferSize <= y
  <2>1. (a + 1) * BufferSize = x + BufferSize
    BY <1>1, <1>2, Constants
  <2>2. a + 1 < b => (a + 1) * BufferSize + BufferSize <= b * BufferSize
    BY <1>1, Constants, Products
  <2> QED
    BY <1>2, <2>1, <2>2
<1>6. BufferSize \in Nat
  BY Constants
<1>7. a <= b /\ (m <= n + BufferSize => b <= a + 1)
  BY <1>3, <1>4, <1>5, <1>6
<1> QED
  BY <1>1, <1>7

(* The slots the callback has taken since a fof was linked are not its. *)
LEMMA StepNotTaken ==
  ASSUME FrameClock, SmallBuffers, Inv, NoFlush, NotTaken, [Next]_vars
  PROVE  NotTaken'
<1>a. /\ next_frame \in Nat /\ ctrl.n \in Nat /\ jack.nframes \in Nat /\ jack.nframes <= BufferSize
      /\ BufferSize \in Nat /\ Taken \in Nat /\ Taken <= next_frame
      /\ hist \in [Fof -> [ins : Nat, born : Nat, given : Nat]] /\ Inv'
  <2>1. next_frame \in Nat /\ ctrl.n \in Nat /\ jack.nframes \in Nat /\ jack.nframes \in Buffers \cup {0}
        /\ BufferSize \in Nat /\ hist \in [Fof -> [ins : Nat, born : Nat, given : Nat]]
    BY JackFacts, Constants DEF Inv, CtrlTypeOK, QueueTypeOK
  <2>2. jack.nframes <= BufferSize
    BY <2>1 DEF SmallBuffers
  <2>3. Taken \in Nat /\ Taken <= next_frame
    BY <2>1 DEF Taken, NotTaken
  <2> QED
    BY <2>1, <2>2, <2>3, StepInv
<1>b. \A f \in Fof, k \in Nat :
        Linked(f) /\ Block(hist[f].ins) <= k /\ k < Block(Taken) => k % NSlots # own[f]
  BY DEF NotTaken
<1>1. ASSUME NEW c \in Client, ClientAdd(c) PROVE NotTaken'
  <2>1. UNCHANGED <<next_frame, ctrl, jack>> /\ pc'[Ctrl] = pc[Ctrl] /\ Taken' = Taken
    BY <1>1, ClientFrame DEF Taken
  <2>2. ASSUME NEW f \in Fof, Linked(f)', NEW k \in Nat, Block(hist[f].ins)' <= k, k < Block(Taken)'
        PROVE  k % NSlots # own'[f]
    <3>1. CASE own'[f] = own[f]
      <4>1. hist'[f] = hist[f]
        BY <1>1, <3>1 DEF ClientAdd, Record
      <4> QED
        BY <1>b, <2>1, <2>2, <3>1, <4>1 DEF Linked, Block
    <3>2. CASE own'[f] # own[f]
      <4>1. hist'[f].ins = next_frame
        BY <1>1, <2>2, <3>2 DEF ClientAdd, Record, Linked
      <4>2. Block(next_frame) <= k /\ k < Block(Taken)
        BY <2>1, <2>2, <4>1 DEF Block
      <4>3. Block(Taken) <= Block(next_frame) /\ Block(Taken) \in Nat /\ Block(next_frame) \in Nat
        BY <1>a, BlockOrder, BlockBounds
      <4> QED
        BY <4>2, <4>3
    <3> QED
      BY <3>1, <3>2
  <2> QED
    BY <2>1, <2>2 DEF NotTaken
<1>2. ASSUME ServerStep PROVE NotTaken'
  <2>0. /\ \A f \in Fof : own'[f] \in Slot => own'[f] = own[f] /\ hist'[f].ins = hist[f].ins
        /\ \/ CtrlAdvance /\ next_frame' = next_frame + jack.nframes
           \/ ~ CtrlAdvance /\ next_frame' = next_frame
    BY <1>2, ServerFrame
  <2>1. ASSUME Block(Taken') <= Block(Taken),
               pc'[Ctrl] \in {"stamp", "take", "deliver", "free_load", "free_cas", "dsp"} =>
                 next_frame' = ctrl'.n + jack'.nframes,
               Block(Taken') \in Nat, Block(Taken) \in Nat
        PROVE  NotTaken'
    <3>1. ASSUME NEW f \in Fof, Linked(f)', NEW k \in Nat, Block(hist[f].ins)' <= k, k < Block(Taken)'
          PROVE  k % NSlots # own'[f]
      <4>1. Block(hist[f].ins) <= k /\ k < Block(Taken') /\ Linked(f) /\ own'[f] = own[f]
        BY <2>0, <3>1 DEF Block, Linked
      <4>2. k < Block(Taken)
        BY <2>1, <4>1
      <4> QED
        BY <1>b, <4>1, <4>2
    <3> QED
      BY <2>1, <3>1 DEF NotTaken
  <2>a. Block(Taken) \in Nat
    BY <1>a, BlockBounds
  <2>2. CASE CtrlAdvance
    <3>1. /\ pc[Ctrl] = "advance" /\ pc'[Ctrl] = "stamp" /\ ctrl'.n = next_frame /\ UNCHANGED jack
          /\ next_frame' = next_frame + jack.nframes
      BY <2>0, <2>2, CtrlMoves DEF CtrlAdvance, NoFlush, UsesTransport, Inv, CtrlTypeOK
    <3>2. Taken' = Taken
      BY <3>1 DEF Taken
    <3> QED
      BY <1>a, <2>1, <2>a, <3>1, <3>2
  <2>3. CASE CtrlTake
    <3>0. PICK s \in Slot : s = SlotOf(ctrl.n)
      BY <1>a, SlotTyped
    <3>1. /\ pc[Ctrl] = "take" /\ pc'[Ctrl] = "deliver" /\ UNCHANGED <<ctrl, jack, next_frame>>
          /\ \A f \in Fof : own'[f] = IF own[f] = s THEN Ctrl ELSE own[f]
      BY <2>3, <3>0, CtrlMoves DEF CtrlTake, Detach, serverVars
    <3>2. Taken = ctrl.n /\ Taken' = next_frame /\ next_frame = ctrl.n + jack.nframes
      BY <3>1 DEF Taken, NotTaken
    <3>3. Block(next_frame) <= Block(ctrl.n) + 1 /\ Block(next_frame) \in Nat /\ Block(ctrl.n) \in Nat
      <4>1. next_frame <= ctrl.n + BufferSize /\ ctrl.n <= next_frame
        BY <1>a, <3>2
      <4> QED
        BY <1>a, <4>1, BlockOrder, BlockBounds
    <3>4. Block(ctrl.n) % NSlots = s
      BY <3>0 DEF SlotOf, Block
    <3>5. ASSUME NEW f \in Fof, Linked(f)', NEW k \in Nat, Block(hist[f].ins)' <= k, k < Block(Taken)'
          PROVE  k % NSlots # own'[f]
      <4>1. Block(hist[f].ins) <= k /\ k < Block(next_frame) /\ Linked(f) /\ own'[f] = own[f] /\ own[f] # s
        <5>1. Ctrl \notin Slot
          BY Constants
        <5> QED
          BY <2>0, <3>1, <3>2, <3>5, <5>1 DEF Block, Linked
      <4>2. CASE k < Block(ctrl.n)
        BY <1>b, <3>2, <4>1, <4>2
      <4>3. CASE ~ (k < Block(ctrl.n))
        <5>1. k = Block(ctrl.n)
          BY <3>3, <4>1, <4>3
        <5> QED
          BY <3>4, <4>1, <5>1
      <4> QED
        BY <4>2, <4>3
    <3> QED
      BY <3>1, <3>2, <3>5 DEF NotTaken
  <2>4. CASE CtrlStamp \/ CtrlDeliver \/ CtrlFree
    <3>1. ctrl'.n = ctrl.n /\ UNCHANGED <<jack, next_frame>>
      BY <2>4 DEF CtrlStamp, CtrlDeliver, CtrlFree, queueVars, Inv, CtrlTypeOK
    <3>2. /\ pc[Ctrl] \in {"stamp", "deliver", "free_load", "free_cas"}
          /\ pc[Ctrl] = "stamp" <=> pc'[Ctrl] \in {"stamp", "take"}
      BY <2>4, CtrlMoves DEF NoFlush
    <3>3. Taken' = Taken
      BY <3>1, <3>2 DEF Taken
    <3> QED
      BY <2>1, <2>a, <3>1, <3>2, <3>3 DEF NotTaken
  <2>5. CASE JackCycle \/ CtrlBegin \/ DspProcess
    <3>1. UNCHANGED next_frame
      BY <2>5 DEF JackCycle, CtrlBegin, DspProcess, queueVars
    <3>2. /\ pc[Ctrl] \in {"idle", "begin", "dsp"}
          /\ pc'[Ctrl] \notin {"stamp", "take", "deliver", "free_load", "free_cas", "dsp"}
      BY <2>5, CtrlMoves
    <3>3. Taken' = Taken
      BY <3>1, <3>2 DEF Taken
    <3> QED
      BY <2>1, <2>a, <3>2, <3>3
  <2>6. CASE (\E c \in Client : SetClockSource(c)) \/ UNCHANGED vars
    <3>1. UNCHANGED <<pc, ctrl, jack, next_frame>>
      BY <2>6 DEF SetClockSource, vars, poolVars, queueVars, serverVars
    <3>2. Taken' = Taken
      BY <3>1 DEF Taken
    <3> QED
      BY <2>1, <2>a, <3>1, <3>2 DEF NotTaken
  <2>7. ~ CtrlFlush
    BY FlushMoves DEF NoFlush
  <2> QED
    BY <1>2, <2>2, <2>3, <2>4, <2>5, <2>6, <2>7 DEF ServerStep, CallbackStep
<1> QED
  BY <1>1, <1>2, WhoSteps

(* Then no fof has been in the ring for more than a turn. *)
LEMMA TurnBound ==
  ASSUME Inv, NotTaken
  PROVE  OneTurn
<1> SUFFICES ASSUME NEW f \in Fof, Linked(f)
             PROVE  next_frame < hist[f].ins + NSlots * BufferSize + jack.nframes
  BY DEF OneTurn
<1>a. next_frame \in Nat /\ ctrl.n \in Nat /\ jack.nframes \in Nat /\ hist[f].ins \in Nat /\ own[f] \in Slot
      /\ NSlots \in Nat \ {0} /\ BufferSize \in Nat /\ Taken \in Nat
  BY JackFacts, Constants DEF Inv, CtrlTypeOK, QueueTypeOK, Linked, Taken
<1>1. PICK a \in Nat, b \in Nat : a = Block(hist[f].ins) /\ b = Block(Taken)
  BY <1>a, BlockBounds
<1>2. b < a + NSlots
  <2>1. PICK k \in Nat : a <= k /\ k < a + NSlots /\ k % NSlots = own[f]
    BY <1>a, <1>1, EverySlot
  <2>2. ~ (k < b)
    BY <1>1, <2>1 DEF NotTaken
  <2> QED
    BY <1>1, <1>a, <2>1, <2>2
<1>3. PICK x \in Nat, y \in Nat, z \in Nat :
        x = a * BufferSize /\ y = b * BufferSize /\ z = NSlots * BufferSize
  BY <1>1, <1>a, Products
<1>4. x <= hist[f].ins /\ Taken < y + BufferSize
  BY <1>1, <1>3, <1>a, BlockBounds
<1>5. y + BufferSize <= x + z
  <2>1. a + NSlots \in Nat
    BY <1>1, <1>a
  <2>2. b * BufferSize + BufferSize <= (a + NSlots) * BufferSize
    BY <1>1, <1>2, <1>a, <2>1, Products
  <2>3. (a + NSlots) * BufferSize = a * BufferSize + NSlots * BufferSize
    BY <1>1, <1>a, Products
  <2> QED
    BY <1>3, <2>2, <2>3
<1>6. Taken < hist[f].ins + z
  BY <1>3, <1>4, <1>5, <1>a
<1>7. next_frame <= Taken + jack.nframes
  BY <1>a DEF Taken, NotTaken
<1>8. next_frame < hist[f].ins + z + jack.nframes
  BY <1>3, <1>6, <1>7, <1>a
<1> QED
  BY <1>3, <1>8

(* On the frame time clock, with JACK buffers of any sizes up to a slot's  *)
(* and any number of clients, a fof stays in the ring for at most one turn *)
(* after it was linked (OneTurn), also one linked behind the cycle's back. *)
THEOREM ServerOneTurn ==
  ASSUME FrameClock, SmallBuffers
  PROVE  Spec => []OneTurn
<1> DEFINE I == Inv /\ NoFlush /\ NotTaken
<1>1. CtrlInit => I
  <2>1. ASSUME CtrlInit PROVE NoFlush /\ NotTaken
    BY <2>1, Constants DEF CtrlInit, QueueInit, PoolInit, FrameClock, NoFlush, NotTaken, Linked
  <2> QED
    BY <2>1, InitInv
<1>2. I /\ [Next]_vars => I'
  BY StepInv, StepNoFlush, StepNotTaken
<1>3. I => OneTurn
  BY TurnBound
<1> QED
  BY <1>1, <1>2, <1>3, PTL DEF Spec

-----------------------------------------------------------------------------
(*                    In the slot of its start, and in time                *)

(* The next slot begins where an aligned frame and a buffer end. *)
LEMMA AlignedNext ==
  ASSUME NEW n \in Nat, Aligned(n)
  PROVE  Aligned(n + BufferSize) /\ Aligned(0) /\ n = Block(n) * BufferSize
<1>1. PICK q \in Nat : q = Block(n) /\ n = q * BufferSize + 0
  BY Constants, DivMod DEF Aligned, Block
<1>2. n + BufferSize = (q + 1) * BufferSize + 0 /\ n = q * BufferSize
  BY <1>1, Constants
<1>3. ((q + 1) * BufferSize + 0) % BufferSize = 0 /\ (0 * BufferSize + 0) % BufferSize = 0
  <2>1. q + 1 \in Nat /\ 0 \in Nat /\ 0 \in 0..BufferSize - 1 /\ BufferSize \in Nat \ {0}
    BY <1>1, Constants
  <2> QED
    BY <2>1, DivModUnique
<1>4. 0 * BufferSize + 0 = 0
  BY Constants
<1> QED
  BY <1>1, <1>2, <1>3, <1>4 DEF Aligned

(* The slot that Pick computes from the cached one is that of the start    *)
(* frame.                                                                  *)
LEMMA PickedSlot ==
  ASSUME NEW n \in Nat, Aligned(n), NEW st \in Nat, n <= st
  PROVE  (((st - n) \div BufferSize) + SlotOf(n)) % NSlots = SlotOf(st)
<1>1. PICK a \in Nat : a = Block(n) /\ n = a * BufferSize
  BY AlignedNext, BlockBounds
<1>2. PICK d \in Nat : d = st - n /\ st = n + d
  OBVIOUS
<1>3. PICK x \in Nat : x = d \div BufferSize
  BY Constants, DivMod
<1>4. st \div BufferSize = a + x
  <2>1. (a * BufferSize + d) \div BufferSize = a + d \div BufferSize
    BY Constants, DivShift
  <2> QED
    BY <1>1, <1>2, <1>3, <2>1
<1>5. PICK q \in Nat, r \in Nat : r = a % NSlots /\ a = q * NSlots + r
  <2>1. a \div NSlots \in Nat /\ a % NSlots \in Nat /\ a = (a \div NSlots) * NSlots + (a % NSlots)
    BY Constants, DivMod
  <2> QED
    BY <2>1
<1>6. (q * NSlots + (x + r)) % NSlots = (x + r) % NSlots
  <2>1. x + r \in Nat
    OBVIOUS
  <2> QED
    BY <2>1, Constants, DivShift
<1>7. a + x = q * NSlots + (x + r)
  <2>1. PICK y \in Nat : y = q * NSlots
    BY Constants, Products
  <2> QED
    BY <1>5, <2>1
<1>8. SlotOf(st) = (x + r) % NSlots
  BY <1>4, <1>6, <1>7 DEF SlotOf
<1>9. SlotOf(n) = r
  BY <1>1, <1>5 DEF SlotOf, Block
<1> QED
  BY <1>2, <1>3, <1>8, <1>9

(* fof_queue_add keeps the cache true and computes the slot of the start.  *)
LEMMA ClientCached ==
  ASSUME Inv, Inv', RingInv, NEW c \in Client, ClientAdd(c), Near(c), Cached(c), Aligned(next_frame)
  PROVE  Cached(c)'
<1> DEFINE Slotted == {"fast_load", "fast_check", "fast_cas", "slow_load", "slow_check", "slow_cas"}
<1>a. /\ c \in Proc /\ pc \in [Proc -> ClientPc \cup CtrlPc] /\ fof \in [Proc -> Ptr]
      /\ call \in [Client -> [nf : Nat, idx : Slot, status : Status]] /\ next_frame \in Nat
      /\ call[c].nf \in Nat
  BY Constants, CallFacts DEF Inv, Pointers, CtrlTypeOK, QueueTypeOK
<1>b. pc[c] \in Calling => fof[c] \in Fof /\ Start(fof[c]) \in Nat
  BY <1>a, StartTyped DEF Inv, Pointers, Ptr
<1>1. ASSUME pc'[c] \notin Placing, pc[c] # "cache_check", UNCHANGED cacheVars PROVE Cached(c)'
  BY <1>1 DEF Cached, Placing, SlotOf, cacheVars
<1>2. ASSUME NEW from \in {"allocated", "fast_check"}, NEW st, Recalculate(c, from, next_frame, st),
             UNCHANGED cacheVars
      PROVE  Cached(c)'
  <2>1. pc[c] = from /\ pc'[c] \in {"free_load", "excess_load", "cache_test"}
        /\ (pc'[c] = "cache_test" => call'[c].nf = next_frame)
    BY <1>2, <1>a DEF Recalculate, Discard, Goto
  <2> QED
    BY <1>2, <2>1 DEF Cached, Placing, SlotOf, cacheVars, Aligned
<1>3. ASSUME Add(c) \/ Allocate(c) PROVE Cached(c)'
  <2>1. /\ pc'[c] \in {"idle", "alloc_next", "alloc_cas", "allocated", "alloc_load"}
        /\ pc[c] # "cache_check" /\ UNCHANGED cacheVars
    BY <1>3, <1>a DEF Add, Allocate, AllocLoad, AllocNext, AllocCas, Goto
  <2> QED
    BY <1>1, <2>1 DEF Placing
<1>4. ASSUME LoadFrame(c) PROVE Cached(c)'
  BY <1>2, <1>4 DEF LoadFrame
<1>5. ASSUME ExcessLoad(c) \/ ExcessStore(c) PROVE Cached(c)'
  <2>1. pc'[c] \in {"excess_store", "idle"} /\ pc[c] # "cache_check" /\ UNCHANGED cacheVars
    BY <1>5, <1>a DEF ExcessLoad, ExcessStore, Goto, queueVars
  <2> QED
    BY <1>1, <2>1 DEF Placing
<1>6. ASSUME CacheTest(c) PROVE Cached(c)'
  <2>1. /\ pc[c] = "cache_test" /\ UNCHANGED <<cacheVars, call>>
        /\ pc'[c] = IF call[c].nf # next_frame_check THEN "cache_slot" ELSE "pick"
    BY <1>6, <1>a DEF CacheTest, Move, Goto, queueVars, callVars
  <2> QED
    BY <2>1 DEF Cached, Placing, SlotOf, cacheVars, Aligned
<1>7. ASSUME CacheSlot(c) PROVE Cached(c)'
  <2>1. /\ pc[c] = "cache_slot" /\ UNCHANGED call /\ current_slot' = SlotOf(call[c].nf)
        /\ pc'[c] = "cache_check"
    BY <1>7, <1>a DEF CacheSlot, Move, Goto, callVars
  <2> QED
    BY <2>1 DEF Cached, Placing, SlotOf, Aligned
<1>8. ASSUME CacheCheck(c) PROVE Cached(c)'
  <2>1. /\ pc[c] = "cache_check" /\ UNCHANGED <<call, current_slot>> /\ next_frame_check' = call[c].nf
        /\ pc'[c] = "pick"
    BY <1>8, <1>a DEF CacheCheck, Move, Goto, callVars
  <2> QED
    BY <2>1 DEF Cached, Placing, SlotOf, Aligned
<1>9. ASSUME Pick(c) PROVE Cached(c)'
  <2>1. /\ pc[c] = "pick" /\ UNCHANGED <<cacheVars, fof, time_us>> /\ pc'[c] \in {"fast_load", "slow_load"}
        /\ call' = [call EXCEPT ![c].idx = ((Start(fof[c]) - call[c].nf) \div BufferSize + current_slot) % NSlots]
    BY <1>9, <1>a DEF Pick, Move, Goto
  <2>2. /\ call'[c].idx = (((Start(fof[c]) - call[c].nf) \div BufferSize) + current_slot) % NSlots
        /\ call'[c].nf = call[c].nf
    BY <1>a, <2>1
  <2>3. /\ current_slot = SlotOf(call[c].nf) /\ Aligned(call[c].nf) /\ call[c].nf <= Start(fof[c])
        /\ Start(fof[c]) \in Nat
    BY <1>b, <2>1 DEF Cached, Near, Placing, Calling
  <2>4. call'[c].idx = SlotOf(Start(fof[c]))
    BY <1>a, <2>2, <2>3, PickedSlot
  <2>5. SlotOf(Start(fof[c]))' = SlotOf(Start(fof[c]))
    BY <2>1 DEF SlotOf, Start, TimeToFrames
  <2> QED
    BY <2>1, <2>2, <2>4, <2>5 DEF Cached, Placing, SlotOf, cacheVars, Aligned
<1>10. ASSUME pc[c] \in Slotted, pc'[c] \in Slotted, UNCHANGED <<fof, time_us, call, cacheVars>>
       PROVE  Cached(c)'
  <2>1. SlotOf(Start(fof[c]))' = SlotOf(Start(fof[c]))
    BY <1>10 DEF SlotOf, Start, TimeToFrames
  <2> QED
    BY <1>10, <2>1 DEF Cached, Placing, SlotOf, cacheVars, Aligned
<1>11. ASSUME FastLoad(c) \/ SlowLoad(c) PROVE Cached(c)'
  BY <1>10, <1>11, <1>a DEF FastLoad, SlowLoad, LoadSlot, Goto, queueVars, callVars
<1>12. ASSUME FastCheck(c) \/ SlowCheck(c) PROVE Cached(c)'
  <2>1. CASE next_frame = call[c].nf
    BY <1>10, <1>12, <1>a, <2>1 DEF FastCheck, SlowCheck, Move, Goto
  <2>2. CASE FastCheck(c) /\ next_frame # call[c].nf
    BY <1>2, <2>2 DEF FastCheck
  <2>3. CASE SlowCheck(c) /\ next_frame # call[c].nf
    <3>1. pc[c] = "slow_check" /\ pc'[c] = "free_load" /\ UNCHANGED cacheVars
      BY <1>a, <2>3 DEF SlowCheck, Discard, Goto
    <3> QED
      BY <1>1, <3>1 DEF Placing
  <2> QED
    BY <1>12, <2>1, <2>2, <2>3
<1>13. ASSUME FastCas(c) PROVE Cached(c)'
  <2>1. CASE slot[call[c].idx] = next[fof[c]]
    <3>1. pc[c] = "fast_cas" /\ pc'[c] = "idle" /\ UNCHANGED cacheVars
      BY <1>13, <1>a, <2>1 DEF FastCas, Link, Goto
    <3> QED
      BY <1>1, <3>1 DEF Placing
  <2>2. CASE slot[call[c].idx] # next[fof[c]]
    BY <1>10, <1>13, <1>a, <2>2 DEF FastCas, Goto
  <2> QED
    BY <2>1, <2>2
<1>14. ASSUME SlowCas(c) PROVE Cached(c)'
  <2>1. pc[c] = "slow_cas" /\ pc'[c] \in {"idle", "free_load"} /\ UNCHANGED cacheVars
    BY <1>14, <1>a DEF SlowCas, Link, Discard, Goto
  <2> QED
    BY <1>1, <2>1 DEF Placing
<1>15. ASSUME FreeLate(c) PROVE Cached(c)'
  <2>1. /\ pc[c] \in {"free_load", "free_cas"} /\ UNCHANGED cacheVars
        /\ pc'[c] \in {"idle", "free_load", "free_cas"}
    BY <1>15, <1>a DEF FreeLate, FreeLoad, FreeCas, Goto, queueVars
  <2> QED
    BY <1>1, <2>1 DEF Placing
<1> QED
  BY <1>3, <1>4, <1>5, <1>6, <1>7, <1>8, <1>9, <1>11, <1>12, <1>13, <1>14, <1>15 DEF ClientAdd, AddStep

(* A fof in the slot of its start frame, linked before that frame was      *)
(* past, is not overtaken by the cycles.                                   *)
LEMMA NotOvertaken ==
  ASSUME Inv, NotTaken, InPlace, NEW f \in Fof, Linked(f), hist[f].ins <= Start(f), Aligned(Taken)
  PROVE  Taken <= Start(f)
<1>a. Start(f) \in Nat /\ hist[f].ins \in Nat /\ Taken \in Nat /\ BufferSize \in Nat
  BY StartTyped, Constants DEF Inv, CtrlTypeOK, QueueTypeOK, Taken
<1>1. PICK a \in Nat, k \in Nat, b \in Nat : a = Block(hist[f].ins) /\ k = Block(Start(f)) /\ b = Block(Taken)
  BY <1>a, BlockBounds
<1>2. a <= k
  BY <1>1, <1>a, BlockOrder
<1>3. k % NSlots = own[f]
  BY <1>1 DEF InPlace, SlotOf, Block
<1>4. b <= k
  BY <1>1, <1>2, <1>3 DEF NotTaken
<1>5. PICK x \in Nat, y \in Nat : x = b * BufferSize /\ y = k * BufferSize
  BY <1>1, <1>a, Products
<1>6. Taken = x /\ y <= Start(f)
  BY <1>1, <1>5, <1>a, AlignedNext, BlockBounds
<1>7. x <= y
  BY <1>1, <1>4, <1>5, <1>a, Products
<1> QED
  BY <1>6, <1>7, <1>a

(* The callback works on aligned frames. *)
LEMMA TakenAligned == ASSUME InPlace PROVE Aligned(Taken)
BY DEF InPlace, Taken, Aligned

(* Every step keeps the fofs in their slots. *)
LEMMA StepInPlace ==
  ASSUME OneClient, FrameClock, SlotBuffers, Inv, RingInv, TimeInv, NotTaken, InPlace, [Next]_vars
  PROVE  InPlace'
<1>a. /\ Inv' /\ next_frame \in Nat /\ ctrl.n \in Nat /\ BufferSize \in Nat
      /\ Ctrl \notin Slot /\ Ctrl # FREE /\ Ctrl # EXCESS /\ FREE \notin Slot
      /\ (\A c \in Client : c \notin Slot /\ c # Ctrl)
      /\ own \in [Fof -> Proc \cup Slot \cup {FREE, EXCESS}]
  BY StepInv, Constants DEF Inv, CtrlTypeOK, QueueTypeOK
<1>1. ASSUME NEW c \in Client, ClientAdd(c) PROVE InPlace'
  <2>1. UNCHANGED <<next_frame, ctrl, jack>> /\ pc'[Ctrl] = pc[Ctrl]
    BY <1>1, ClientFrame
  <2>2. \A d \in Client : Cached(d)'
    BY <1>1, <1>a, ClientCached DEF TimeInv, InPlace, OneClient
  <2>3. ASSUME NEW f \in Fof, own'[f] = own[f], own[f] \notin {FREE, c}
        PROVE  hist'[f] = hist[f] /\ SlotOf(Start(f))' = SlotOf(Start(f)) /\ Start(f)' = Start(f)
    <3>1. hist'[f] = hist[f] /\ time_us'[f] = time_us[f]
      BY <1>1, <2>3, ClientTouches
    <3> QED
      BY <3>1 DEF SlotOf, Start, TimeToFrames
  <2>4. ASSUME NEW f \in Fof, Linked(f)'
        PROVE  own'[f] = SlotOf(Start(f))' /\ Aligned(hist[f].ins)'
    <3>1. CASE own'[f] = own[f]
      <4>1. own[f] \notin {FREE, c}
        BY <1>a, <2>4, <3>1 DEF Linked
      <4>2. hist'[f] = hist[f] /\ SlotOf(Start(f))' = SlotOf(Start(f))
        BY <2>3, <3>1, <4>1
      <4> QED
        BY <2>4, <3>1, <4>2 DEF InPlace, Linked, Aligned
    <3>2. CASE own'[f] # own[f]
      <4>1. /\ pc[c] \in {"fast_cas", "slow_cas"} /\ f = fof[c] /\ UNCHANGED time_us
            /\ own' = [own EXCEPT ![f] = call[c].idx]
        BY <1>1, <2>4, <3>2, ClientLinks DEF Linked
      <4>2. hist'[f].ins = next_frame
        BY <1>1, <2>4, <3>2, ClientTouches DEF Linked
      <4>3. own'[f] = call[c].idx /\ call[c].idx = SlotOf(Start(f))
        BY <1>a, <4>1 DEF InPlace, Cached
      <4>4. SlotOf(Start(f))' = SlotOf(Start(f))
        BY <4>1 DEF SlotOf, Start, TimeToFrames
      <4> QED
        BY <4>2, <4>3, <4>4 DEF InPlace, Aligned
    <3> QED
      BY <3>1, <3>2
  <2>5. ASSUME NEW f \in Fof, own'[f] = Ctrl, hist'[f].ins <= Start(f)'
        PROVE  ctrl'.n <= Start(f)'
    <3>1. own[f] = Ctrl
      <4>1. own'[f] = own[f] \/ own'[f] \in {FREE, c, EXCESS} \cup Slot
        BY <1>1, ClientTouches
      <4> QED
        BY <1>a, <2>5, <4>1
    <3>2. hist'[f] = hist[f] /\ Start(f)' = Start(f)
      BY <1>a, <2>3, <2>5, <3>1
    <3> QED
      BY <2>1, <2>5, <3>1, <3>2 DEF InPlace
  <2> QED
    BY <2>1, <2>2, <2>4, <2>5 DEF InPlace, Aligned
<1>2. ASSUME ServerStep PROVE InPlace'
  <2>0. /\ UNCHANGED <<time_us, call, current_slot, next_frame_check>>
        /\ \A c \in Client : pc'[c] = pc[c] /\ fof'[c] = fof[c]
        /\ \A f \in Fof : own'[f] \in Slot => own'[f] = own[f]
        /\ \A f \in Fof : own'[f] \in Slot \cup {Ctrl} => hist'[f].ins = hist[f].ins
        /\ \/ CtrlAdvance /\ next_frame' = next_frame + jack.nframes
           \/ ~ CtrlAdvance /\ next_frame' = next_frame
    BY <1>2, ServerFrame DEF RingInv
  <2>1. \A f \in Fof : Start(f)' = Start(f) /\ SlotOf(Start(f))' = SlotOf(Start(f))
    BY <2>0 DEF SlotOf, Start, TimeToFrames
  <2>2. \A c \in Client : Cached(c)'
    <3> TAKE c \in Client
    <3>1. SlotOf(Start(fof[c]))' = SlotOf(Start(fof[c]))
      BY <2>0 DEF SlotOf, Start, TimeToFrames
    <3> QED
      BY <2>0, <3>1 DEF InPlace, Cached, SlotOf, Aligned
  <2>3. \A f \in Fof : Linked(f)' => own'[f] = SlotOf(Start(f))' /\ Aligned(hist[f].ins)'
    BY <2>0, <2>1 DEF InPlace, Linked, Aligned
  <2>4. Aligned(next_frame)'
    <3>1. next_frame + jack.nframes \in {next_frame, next_frame + BufferSize}
      BY <1>a DEF InPlace
    <3>2. Aligned(next_frame + BufferSize)
      BY <1>a, AlignedNext DEF InPlace
    <3> QED
      BY <2>0, <3>1, <3>2 DEF InPlace, Aligned
  <2>5. jack'.nframes \in {0, BufferSize}
    <3>1. CASE JackCycle
      <4>1. PICK b \in Buffers : jack'.nframes = b
        BY <3>1 DEF JackCycle
      <4> QED
        BY <4>1 DEF SlotBuffers
    <3>2. CASE ~ JackCycle
      <4>1. jack' = jack
        BY <1>2, <3>2, FlushMoves DEF ServerStep, CallbackStep, CtrlBegin, CtrlAdvance, CtrlStamp,
           CtrlTake, CtrlDeliver, CtrlFree, DspProcess, SetClockSource, vars, serverVars
      <4> QED
        BY <4>1 DEF InPlace
    <3> QED
      BY <3>1, <3>2
  <2>6. /\ pc'[Ctrl] \in {"stamp", "take"} => Aligned(ctrl.n)'
        /\ \A f \in Fof : own'[f] = Ctrl /\ hist'[f].ins <= Start(f)' => ctrl'.n <= Start(f)'
    <3>1. CASE CtrlAdvance
      <4>1. /\ pc[Ctrl] = "advance" /\ ctrl'.n = next_frame /\ UNCHANGED own
        BY <3>1, CtrlMoves DEF CtrlAdvance, Move, RingInv, NoFlush, UsesTransport, Inv, CtrlTypeOK
      <4>2. \A f \in Fof : own[f] # Ctrl
        BY <4>1 DEF RingInv, CtrlPart
      <4> QED
        BY <4>1, <4>2 DEF InPlace, Aligned
    <3>2. CASE CtrlTake
      <4>1. pc[Ctrl] = "take" /\ pc'[Ctrl] = "deliver" /\ UNCHANGED ctrl
        BY <3>2, CtrlMoves DEF CtrlTake, serverVars
      <4>2. \A f \in Fof : own'[f] = own[f] \/ (own'[f] = Ctrl /\ own[f] \in Slot)
        <5>1. SlotOf(ctrl.n) \in Slot
          BY <1>a, SlotTyped
        <5> QED
          BY <3>2, <5>1 DEF CtrlTake, Detach
      <4>3. ASSUME NEW f \in Fof, own'[f] = Ctrl, hist'[f].ins <= Start(f)' PROVE ctrl'.n <= Start(f)'
        <5>1. own[f] # Ctrl
          BY <4>1 DEF RingInv, CtrlPart
        <5>2. Linked(f) /\ hist[f].ins <= Start(f)
          BY <2>0, <2>1, <4>2, <4>3, <5>1 DEF Linked
        <5>3. Taken <= Start(f)
          BY <5>2, NotOvertaken, TakenAligned
        <5> QED
          BY <2>1, <4>1, <5>3 DEF Taken
      <4> QED
        BY <4>1, <4>3
    <3>3. CASE CtrlStamp \/ CtrlDeliver \/ CtrlFree
      <4>1. ctrl'.n = ctrl.n /\ (pc'[Ctrl] \in {"stamp", "take"} => pc[Ctrl] = "stamp")
        BY <3>3, CtrlMoves DEF CtrlStamp, CtrlDeliver, CtrlFree, Inv, CtrlTypeOK
      <4>2. \A f \in Fof : own'[f] = Ctrl => own[f] = Ctrl
        BY <1>a, <3>3 DEF CtrlStamp, CtrlDeliver, CtrlFree, FreeLoad, FreeCas, Move
      <4> QED
        BY <2>0, <2>1, <4>1, <4>2 DEF InPlace, Aligned
    <3>4. CASE JackCycle \/ CtrlBegin \/ DspProcess
      <4>1. /\ ctrl'.n = ctrl.n /\ pc'[Ctrl] \notin {"stamp", "take"} /\ UNCHANGED own
        BY <3>4, CtrlMoves DEF JackCycle, CtrlBegin, DspProcess, Move, Inv, CtrlTypeOK
      <4> QED
        BY <2>0, <2>1, <4>1 DEF InPlace
    <3>5. CASE (\E c \in Client : SetClockSource(c)) \/ UNCHANGED vars
      <4>1. UNCHANGED <<pc, ctrl, own>>
        BY <3>5 DEF SetClockSource, vars, poolVars, serverVars
      <4> QED
        BY <2>0, <2>1, <4>1 DEF InPlace, Aligned
    <3>6. ~ CtrlFlush
      BY FlushMoves DEF RingInv, NoFlush
    <3> QED
      BY <1>2, <3>1, <3>2, <3>3, <3>4, <3>5, <3>6 DEF ServerStep, CallbackStep
  <2> QED
    BY <2>2, <2>3, <2>4, <2>5, <2>6 DEF InPlace
<1> QED
  BY <1>1, <1>2, WhoSteps

(* All of it together, for the theorems that need buffers of a slot. *)
PlaceInv == Inv /\ RingInv /\ TimeInv /\ NotTaken /\ InPlace

(* The empty ring satisfies the invariant. *)
LEMMA InitPlace ==
  ASSUME FrameClock, CtrlInit
  PROVE  PlaceInv
<1>1. NotTaken
  BY Constants DEF CtrlInit, QueueInit, PoolInit, NotTaken, Linked
<1>2. Aligned(0) /\ SlotOf(0) = 0
  <2>1. (0 * BufferSize + 0) % BufferSize = 0 /\ (0 * BufferSize + 0) \div BufferSize = 0
        /\ (0 * NSlots + 0) % NSlots = 0
    <3>1. 0 \in Nat /\ 0 \in 0..BufferSize - 1 /\ 0 \in 0..NSlots - 1
      BY Constants
    <3> QED
      BY <3>1, Constants, DivModUnique
  <2>2. 0 * BufferSize + 0 = 0 /\ 0 * NSlots + 0 = 0
    BY Constants
  <2> QED
    BY <2>1, <2>2 DEF Aligned, SlotOf
<1>3. InPlace
  <2>1. /\ next_frame = 0 /\ current_slot = 0 /\ next_frame_check = 0 /\ jack.nframes = 0
        /\ \A p \in Proc : pc[p] = "idle"
        /\ own = [f \in Fof |-> FREE]
    BY DEF CtrlInit, QueueInit, PoolInit
  <2> QED
    BY <1>2, <2>1, Constants DEF InPlace, Cached, Placing, Linked
<1> QED
  BY <1>1, <1>3, InitInv, InitRing, InitTime DEF PlaceInv

(* Every step keeps it. *)
LEMMA StepPlace ==
  ASSUME OneClient, FrameClock, SlotBuffers, PlaceInv, [Next]_vars
  PROVE  PlaceInv'
<1>1. SmallBuffers
  BY Constants DEF SlotBuffers, SmallBuffers
<1> QED
  BY <1>1, StepInv, StepRing, StepTime, StepNotTaken, StepInPlace DEF PlaceInv, RingInv

(* On the frame time clock, with one client and JACK buffers the size of a *)
(* slot, a fof linked before its start frame was past is handed to a dsp   *)
(* client no later than the cycle that plays that frame (OnTime): the slot *)
(* computed through the cache is that of the start frame, and the cycle    *)
(* takes it before the clock passes the frame.                             *)
THEOREM ServerOnTime ==
  ASSUME OneClient, FrameClock, SlotBuffers
  PROVE  Spec => []OnTime
<1>1. CtrlInit => PlaceInv
  BY InitPlace
<1>2. PlaceInv /\ [Next]_vars => PlaceInv'
  BY StepPlace
<1>3. PlaceInv => OnTime
  <2> SUFFICES ASSUME PlaceInv, NEW f \in Fof, Delivering(f), hist[f].ins <= Start(f)
               PROVE  ctrl.n <= Start(f)
    BY DEF OnTime
  <2>1. own[f] = Ctrl
    <3>1. NULL \notin Fof /\ tail[Ctrl] \in Fof \cup {NULL}
      BY Constants DEF PlaceInv, Inv, CtrlTypeOK, QueueTypeOK, Ptr
    <3> QED
      BY <3>1 DEF PlaceInv, RingInv, CtrlPart, Delivering, List
  <2> QED
    BY <2>1 DEF PlaceInv, InPlace
<1> QED
  BY <1>1, <1>2, <1>3, PTL DEF Spec

-----------------------------------------------------------------------------
(*                     The queue implements the calendar                   *)

(* The entry of a fof in the calendar, and the calendar. *)
Entry(f) == IF own[f] \in Slot \cup {Ctrl}
            THEN [at |-> IF own[f] = Ctrl THEN "played" ELSE "due",
                  start |-> Start(f), since |-> hist[f].ins]
            ELSE [at |-> "absent", start |-> 0, since |-> 0]
Cal == [f \in Fof |-> Entry(f)]

(* The actions of Schedule, said of this calendar. *)
LEMMA CalendarActions ==
  /\ \A f, st : Calendar!Accept(f, st) <=>
       /\ Cal[f] = [at |-> "absent", start |-> 0, since |-> 0]
       /\ st < next_frame + NSlots * BufferSize
       /\ Cal' = [Cal EXCEPT ![f] = [at |-> "due", start |-> st, since |-> next_frame]]
       /\ next_frame' = next_frame
  /\ \A S : Calendar!Take(S) <=>
       /\ \A f \in S : Cal[f].at = "due"
       /\ Cal' = [f \in Fof |-> IF f \in S THEN [Cal[f] EXCEPT !.at = "played"] ELSE Cal[f]]
       /\ next_frame' = next_frame
  /\ Calendar!Leave <=>
       /\ Cal' = [f \in Fof |-> IF Cal[f].at = "played"
                               THEN [at |-> "absent", start |-> 0, since |-> 0] ELSE Cal[f]]
       /\ next_frame' = next_frame
  /\ Calendar!Tick <=>
       /\ \A f \in Fof :
            /\ Cal[f].at # "played"
            /\ Cal[f].at = "due" => /\ Cal[f].since <= Cal[f].start => next_frame <= Cal[f].start
                                    /\ next_frame <= Cal[f].since + NSlots * BufferSize - BufferSize
       /\ next_frame' = next_frame + BufferSize
       /\ Cal' = Cal
  /\ Calendar!scheduleVars = <<next_frame, Cal>>
<1>1. \A f, st : Calendar!Accept(f, st) <=>
       /\ Cal[f] = [at |-> "absent", start |-> 0, since |-> 0]
       /\ st < next_frame + NSlots * BufferSize
       /\ Cal' = [Cal EXCEPT ![f] = [at |-> "due", start |-> st, since |-> next_frame]]
       /\ next_frame' = next_frame
  BY DEF Calendar!Accept, Calendar!Absent, Cal, Entry
<1>2. \A S : Calendar!Take(S) <=>
       /\ \A f \in S : Cal[f].at = "due"
       /\ Cal' = [f \in Fof |-> IF f \in S THEN [Cal[f] EXCEPT !.at = "played"] ELSE Cal[f]]
       /\ next_frame' = next_frame
  BY DEF Calendar!Take, Calendar!Due, Cal, Entry
<1>3. Calendar!Leave <=>
       /\ Cal' = [f \in Fof |-> IF Cal[f].at = "played"
                               THEN [at |-> "absent", start |-> 0, since |-> 0] ELSE Cal[f]]
       /\ next_frame' = next_frame
  BY DEF Calendar!Leave, Calendar!Absent, Cal, Entry
<1>4. Calendar!Tick <=>
       /\ \A f \in Fof :
            /\ Cal[f].at # "played"
            /\ Cal[f].at = "due" => /\ Cal[f].since <= Cal[f].start => next_frame <= Cal[f].start
                                    /\ next_frame <= Cal[f].since + NSlots * BufferSize - BufferSize
       /\ next_frame' = next_frame + BufferSize
       /\ Cal' = Cal
  BY DEF Calendar!Tick, Calendar!Due, Calendar!InTime, Cal, Entry
<1>5. Calendar!scheduleVars = <<next_frame, Cal>>
  BY DEF Calendar!scheduleVars, Cal, Entry
<1> QED
  BY <1>1, <1>2, <1>3, <1>4, <1>5

(* What an entry says. *)
LEMMA EntryFacts ==
  ASSUME Inv, NEW f \in Fof
  PROVE  /\ Cal[f] = Entry(f)
         /\ Linked(f) => Entry(f) = [at |-> "due", start |-> Start(f), since |-> hist[f].ins]
         /\ own[f] = Ctrl => Entry(f) = [at |-> "played", start |-> Start(f), since |-> hist[f].ins]
         /\ own[f] \notin Slot \cup {Ctrl} => Entry(f) = [at |-> "absent", start |-> 0, since |-> 0]
         /\ Entry(f).at = "due" <=> Linked(f)
         /\ Entry(f).at = "played" <=> own[f] = Ctrl
<1>1. Ctrl \notin Slot
  BY Constants
<1> QED
  BY <1>1 DEF Cal, Entry, Linked

(* An entry stays while its fof stays. *)
LEMMA EntrySame ==
  ASSUME NEW f \in Fof,
         \/ own'[f] = own[f] /\ time_us'[f] = time_us[f] /\ hist'[f].ins = hist[f].ins
         \/ own'[f] \notin Slot \cup {Ctrl} /\ own[f] \notin Slot \cup {Ctrl}
  PROVE  Entry(f)' = Entry(f)
BY DEF Entry, Start, TimeToFrames

(* A client's step accepts a fof or changes nothing in the calendar. *)
LEMMA ClientCalendar ==
  ASSUME PlaceInv, NEW c \in Client, ClientAdd(c)
  PROVE  (\E f \in Fof : \E st \in 0..next_frame + NSlots * BufferSize : Calendar!Accept(f, st))
         \/ UNCHANGED <<next_frame, Cal>>
<1>a. /\ Ctrl \notin Slot /\ Ctrl # FREE /\ Ctrl # EXCESS /\ c \notin Slot /\ c # Ctrl /\ FREE \notin Slot
      /\ own \in [Fof -> Proc \cup Slot \cup {FREE, EXCESS}] /\ Inv /\ RingInv
      /\ next_frame \in Nat /\ NSlots * BufferSize \in Nat
  BY Constants, Products DEF PlaceInv, Inv, CtrlTypeOK, QueueTypeOK
<1>0. next_frame' = next_frame
  BY <1>a, ClientFrame
<1>1. ASSUME NEW f \in Fof, ~ (own'[f] \in Slot /\ own'[f] # own[f]) PROVE Entry(f)' = Entry(f)
  <2>1. /\ own[f] \notin {FREE, c} => own'[f] = own[f] /\ time_us'[f] = time_us[f]
        /\ own'[f] = own[f] \/ own'[f] \in {FREE, c, EXCESS} \cup Slot
        /\ own'[f] = own[f] => hist'[f] = hist[f]
    BY <1>a, ClientTouches
  <2>2. CASE own[f] \in {FREE, c}
    <3>1. own[f] \notin Slot \cup {Ctrl} /\ own'[f] \notin Slot \cup {Ctrl}
      BY <1>a, <1>1, <2>1, <2>2
    <3> QED
      BY <3>1, EntrySame
  <2>3. CASE own[f] \notin {FREE, c}
    BY <2>1, <2>3, EntrySame
  <2> QED
    BY <2>2, <2>3
<1>2. CASE \A f \in Fof : ~ (own'[f] \in Slot /\ own'[f] # own[f])
  BY <1>0, <1>1, <1>2 DEF Cal
<1>3. CASE ~ \A f \in Fof : ~ (own'[f] \in Slot /\ own'[f] # own[f])
  <2>1. PICK f \in Fof : own'[f] \in Slot /\ own'[f] # own[f]
    BY <1>3
  <2>2. /\ pc[c] \in {"fast_cas", "slow_cas"} /\ f = fof[c] /\ UNCHANGED time_us
        /\ own' = [own EXCEPT ![f] = call[c].idx]
    BY <1>a, <2>1, ClientLinks
  <2>3. own[f] = c
    BY <1>a, <2>2 DEF RingInv, ClientPart, Holding, Calling
  <2>4. Cal[f] = [at |-> "absent", start |-> 0, since |-> 0]
    BY <1>a, <2>3, EntryFacts
  <2>5. hist'[f].ins = next_frame
    BY <1>a, <2>1, ClientTouches
  <2>6. PICK st \in Nat : st = Start(f)
    BY <1>a, StartTyped
  <2>7. Entry(f)' = [at |-> "due", start |-> st, since |-> next_frame]
    <3>1. own'[f] \in Slot /\ own'[f] # Ctrl
      BY <1>a, <2>1
    <3>2. Start(f)' = st
      BY <2>2, <2>6 DEF Start, TimeToFrames
    <3> QED
      BY <2>5, <3>1, <3>2 DEF Entry
  <2>8. \A g \in Fof \ {f} : Entry(g)' = Entry(g)
    <3>1. \A g \in Fof \ {f} : own'[g] = own[g]
      BY <1>a, <2>2
    <3> QED
      BY <1>1, <3>1
  <2>9. Cal' = [Cal EXCEPT ![f] = [at |-> "due", start |-> st, since |-> next_frame]]
    BY <2>7, <2>8 DEF Cal
  <2>10. st < next_frame + NSlots * BufferSize
    <3>1. call[c].nf <= next_frame /\ st < call[c].nf + NSlots * BufferSize /\ call[c].nf \in Nat
      BY <1>a, <2>2, <2>6, CallFacts DEF PlaceInv, TimeInv, Near, Placing, Inv
    <3> QED
      BY <1>a, <3>1
  <2>11. Calendar!Accept(f, st)
    BY <1>0, <2>4, <2>9, <2>10, CalendarActions
  <2>12. st \in 0..next_frame + NSlots * BufferSize
    BY <1>a, <2>10
  <2> QED
    BY <2>11, <2>12
<1> QED
  BY <1>2, <1>3

(* No linked fof is left over when the clock moves. *)
LEMMA NothingOverdue ==
  ASSUME PlaceInv, pc[Ctrl] = "advance", NEW f \in Fof, Linked(f)
  PROVE  /\ hist[f].ins <= Start(f) => next_frame <= Start(f)
         /\ next_frame <= hist[f].ins + NSlots * BufferSize - BufferSize
<1>a. /\ next_frame \in Nat /\ hist[f].ins \in Nat /\ own[f] \in Slot /\ NSlots \in Nat \ {0}
      /\ BufferSize \in Nat /\ Inv /\ NotTaken /\ InPlace
  BY Constants DEF PlaceInv, Inv, CtrlTypeOK, QueueTypeOK, Linked
<1>0. Taken = next_frame /\ Aligned(Taken) /\ Aligned(hist[f].ins)
  BY <1>a, TakenAligned DEF Taken, InPlace
<1>1. hist[f].ins <= Start(f) => next_frame <= Start(f)
  BY <1>a, <1>0, NotOvertaken
<1>2. PICK a \in Nat, b \in Nat : a = Block(hist[f].ins) /\ b = Block(next_frame)
  BY <1>a, BlockBounds
<1>3. b < a + NSlots
  <2>1. PICK k \in Nat : a <= k /\ k < a + NSlots /\ k % NSlots = own[f]
    BY <1>a, <1>2, EverySlot
  <2>2. ~ (k < b)
    BY <1>0, <1>2, <1>a, <2>1 DEF NotTaken
  <2> QED
    BY <1>2, <1>a, <2>1, <2>2
<1>4. PICK x \in Nat, y \in Nat, z \in Nat :
        x = a * BufferSize /\ y = b * BufferSize /\ z = NSlots * BufferSize
  BY <1>2, <1>a, Products
<1>5. hist[f].ins = x /\ next_frame = y
  BY <1>0, <1>2, <1>4, <1>a, AlignedNext
<1>6. y + BufferSize <= x + z
  <2>1. a + NSlots \in Nat
    BY <1>2, <1>a
  <2>2. b * BufferSize + BufferSize <= (a + NSlots) * BufferSize
    BY <1>2, <1>3, <1>a, <2>1, Products
  <2>3. (a + NSlots) * BufferSize = a * BufferSize + NSlots * BufferSize
    BY <1>2, <1>a, Products
  <2> QED
    BY <1>4, <2>2, <2>3
<1>7. next_frame <= hist[f].ins + z - BufferSize
  BY <1>4, <1>5, <1>6, <1>a
<1> QED
  BY <1>1, <1>4, <1>7

(* The server's steps are the calendar's, or change nothing in it. *)
LEMMA ServerCalendar ==
  ASSUME PlaceInv, ServerStep
  PROVE  \/ \E S \in SUBSET Fof : Calendar!Take(S)
         \/ Calendar!Leave \/ Calendar!Tick \/ UNCHANGED <<next_frame, Cal>>
<1>a. /\ Ctrl \notin Slot /\ Ctrl # FREE /\ FREE \notin Slot /\ Inv /\ RingInv /\ NoFlush
      /\ own \in [Fof -> Proc \cup Slot \cup {FREE, EXCESS}]
  BY Constants DEF PlaceInv, RingInv, Inv, CtrlTypeOK, QueueTypeOK
<1>0. /\ UNCHANGED time_us
      /\ \A f \in Fof : own'[f] \in Slot \cup {Ctrl} => hist'[f].ins = hist[f].ins
      /\ \/ CtrlAdvance /\ next_frame' = next_frame + jack.nframes
         \/ ~ CtrlAdvance /\ next_frame' = next_frame
  BY <1>a, ServerFrame
<1>1. ASSUME UNCHANGED own PROVE Cal' = Cal
  <2>1. \A f \in Fof : Entry(f)' = Entry(f)
    BY <1>0, <1>1, EntrySame
  <2> QED
    BY <2>1 DEF Cal
<1>2. CASE CtrlAdvance
  <2>1. pc[Ctrl] = "advance" /\ UNCHANGED own
    BY <1>2, <1>a, CtrlMoves DEF CtrlAdvance, Move
  <2>2. jack.nframes \in {0, BufferSize} /\ next_frame \in Nat
    BY DEF PlaceInv, InPlace, Inv, CtrlTypeOK, QueueTypeOK
  <2>3. CASE jack.nframes = 0
    BY <1>0, <1>1, <1>2, <2>1, <2>2, <2>3
  <2>4. CASE jack.nframes = BufferSize
    <3>1. ASSUME NEW f \in Fof
          PROVE  /\ Cal[f].at # "played"
                 /\ Cal[f].at = "due" =>
                      /\ Cal[f].since <= Cal[f].start => next_frame <= Cal[f].start
                      /\ next_frame <= Cal[f].since + NSlots * BufferSize - BufferSize
      <4>1. own[f] # Ctrl
        BY <1>a, <2>1 DEF RingInv, CtrlPart
      <4>2. Cal[f].at # "played"
        BY <1>a, <4>1, EntryFacts
      <4>3. ASSUME Cal[f].at = "due"
            PROVE  /\ Cal[f].since <= Cal[f].start => next_frame <= Cal[f].start
                   /\ next_frame <= Cal[f].since + NSlots * BufferSize - BufferSize
        <5>1. Linked(f) /\ Cal[f].since = hist[f].ins /\ Cal[f].start = Start(f)
          BY <1>a, <4>3, EntryFacts
        <5> QED
          BY <2>1, <5>1, NothingOverdue
      <4> QED
        BY <4>2, <4>3
    <3>2. Calendar!Tick
      BY <1>0, <1>1, <1>2, <2>1, <2>4, <3>1, CalendarActions
    <3> QED
      BY <3>2
  <2> QED
    BY <2>2, <2>3, <2>4
<1>3. CASE CtrlTake
  <2>0. PICK s \in Slot : s = SlotOf(ctrl.n)
    BY <1>a, SlotTyped DEF Inv, CtrlTypeOK
  <2>1. /\ pc[Ctrl] = "take" /\ \A f \in Fof : own[f] # Ctrl
        /\ \A f \in Fof : own'[f] = IF own[f] = s THEN Ctrl ELSE own[f]
    BY <1>3, <1>a, <2>0, CtrlMoves DEF CtrlTake, Detach, RingInv, CtrlPart
  <2>2. next_frame' = next_frame
    BY <1>3 DEF CtrlTake
  <2>b. PICK S \in SUBSET Fof : S = {f \in Fof : own[f] = s}
    OBVIOUS
  <2>3. \A f \in S : Cal[f].at = "due"
    BY <1>a, <2>0, <2>b, EntryFacts DEF Linked
  <2>4. ASSUME NEW f \in S PROVE Entry(f)' = [Cal[f] EXCEPT !.at = "played"]
    <3>1. Cal[f] = [at |-> "due", start |-> Start(f), since |-> hist[f].ins]
      BY <1>a, <2>0, <2>b, EntryFacts DEF Linked
    <3>2. own'[f] = Ctrl /\ hist'[f].ins = hist[f].ins
      BY <1>0, <2>1, <2>b
    <3>3. Start(f)' = Start(f)
      BY <1>0 DEF Start, TimeToFrames
    <3>4. Entry(f)' = [at |-> "played", start |-> Start(f), since |-> hist[f].ins]
      BY <3>2, <3>3 DEF Entry
    <3> QED
      BY <3>1, <3>4
  <2>5. ASSUME NEW f \in Fof \ S PROVE Entry(f)' = Cal[f]
    <3>1. own'[f] = own[f] /\ (own[f] \in Slot \cup {Ctrl} => hist'[f].ins = hist[f].ins)
      BY <1>0, <2>1, <2>b
    <3> QED
      BY <1>0, <3>1, EntrySame DEF Cal
  <2>6. Cal' = [f \in Fof |-> IF f \in S THEN [Cal[f] EXCEPT !.at = "played"] ELSE Cal[f]]
    BY <2>4, <2>5 DEF Cal
  <2>8. Calendar!Take(S)
    BY <2>2, <2>3, <2>6, CalendarActions
  <2> QED
    BY <2>8
<1>4. CASE CtrlFree
  <2>1. next_frame' = next_frame
    BY <1>4 DEF CtrlFree, queueVars
  <2>2. CASE UNCHANGED own
    BY <1>1, <2>1, <2>2
  <2>3. CASE own' = [f \in Fof |-> IF own[f] = Ctrl THEN FREE ELSE own[f]]
    <3>1. ASSUME NEW f \in Fof
          PROVE  Entry(f)' = IF Cal[f].at = "played" THEN [at |-> "absent", start |-> 0, since |-> 0] ELSE Cal[f]
      <4>1. CASE own[f] = Ctrl
        <5>1. Cal[f].at = "played"
          BY <1>a, <4>1, EntryFacts
        <5>2. own'[f] = FREE
          BY <2>3, <4>1
        <5>3. Entry(f)' = [at |-> "absent", start |-> 0, since |-> 0]
          BY <1>a, <5>2 DEF Entry
        <5> QED
          BY <5>1, <5>3
      <4>2. CASE own[f] # Ctrl
        <5>1. Cal[f].at # "played" /\ Cal[f] = Entry(f)
          BY <1>a, <4>2, EntryFacts
        <5>2. own'[f] = own[f] /\ (own[f] \in Slot \cup {Ctrl} => hist'[f].ins = hist[f].ins)
          BY <1>0, <2>3, <4>2
        <5> QED
          BY <1>0, <5>1, <5>2, EntrySame
      <4> QED
        BY <4>1, <4>2
    <3>2. Cal' = [f \in Fof |-> IF Cal[f].at = "played"
                              THEN [at |-> "absent", start |-> 0, since |-> 0] ELSE Cal[f]]
      BY <3>1 DEF Cal
    <3>3. Calendar!Leave
      BY <2>1, <3>2, CalendarActions
    <3> QED
      BY <3>3
  <2> QED
    BY <1>4, <2>2, <2>3 DEF CtrlFree, FreeLoad, FreeCas
<1>5. CASE ~ CtrlAdvance /\ ~ CtrlTake /\ ~ CtrlFree
  <2>1. ~ CtrlFlush
    BY <1>a, FlushMoves DEF NoFlush
  <2>2. UNCHANGED own
    BY <1>5, <2>1 DEF ServerStep, CallbackStep, JackCycle, CtrlBegin, CtrlStamp, CtrlDeliver, DspProcess,
       SetClockSource, Move, vars, poolVars
  <2> QED
    BY <1>0, <1>1, <1>5, <2>2
<1> QED
  BY <1>2, <1>3, <1>4, <1>5

(* On the frame time clock, with one client and JACK buffers the size of a *)
(* slot, the queue and the callback implement the calendar of Schedule     *)
(* (CalendarSpec): linking a fof is Accept, the exchange of the slot is    *)
(* Take, the give-back is Leave and the fetch-and-add of next_frame is     *)
(* Tick, which finds nothing overdue.                                      *)
THEOREM ServerImplementsCalendar ==
  ASSUME OneClient, FrameClock, SlotBuffers
  PROVE  Spec => CalendarSpec
<1>1. CtrlInit => PlaceInv
  BY InitPlace
<1>2. PlaceInv /\ [Next]_vars => PlaceInv'
  BY StepPlace
<1>3. CtrlInit => Calendar!ScheduleInit
  <2>1. CtrlInit => next_frame = 0 /\ own = [f \in Fof |-> FREE] /\ FREE \notin Slot \cup {Ctrl}
    BY Constants DEF CtrlInit, QueueInit, PoolInit
  <2> QED
    BY <2>1 DEF Calendar!ScheduleInit, Calendar!Absent
<1>4. PlaceInv /\ [Next]_vars => [Calendar!ScheduleNext]_(Calendar!scheduleVars)
  <2>1. ASSUME PlaceInv, NEW c \in Client, ClientAdd(c)
        PROVE  [Calendar!ScheduleNext]_(Calendar!scheduleVars)
    <3>1. CASE UNCHANGED <<next_frame, Cal>>
      BY <3>1 DEF Calendar!scheduleVars, Cal, Entry
    <3>2. CASE \E f \in Fof : \E st \in 0..next_frame + NSlots * BufferSize : Calendar!Accept(f, st)
      BY <3>2 DEF Calendar!ScheduleNext
    <3> QED
      BY <2>1, <3>1, <3>2, ClientCalendar
  <2>2. ASSUME PlaceInv, ServerStep
        PROVE  [Calendar!ScheduleNext]_(Calendar!scheduleVars)
    <3>1. CASE UNCHANGED <<next_frame, Cal>>
      BY <3>1 DEF Calendar!scheduleVars, Cal, Entry
    <3>2. CASE (\E S \in SUBSET Fof : Calendar!Take(S)) \/ Calendar!Leave \/ Calendar!Tick
      BY <3>2 DEF Calendar!ScheduleNext
    <3> QED
      BY <2>2, <3>1, <3>2, ServerCalendar
  <2> QED
    BY <2>1, <2>2, WhoSteps
<1> QED
  BY <1>1, <1>2, <1>3, <1>4, PTL DEF Spec, CalendarSpec, Calendar!ScheduleSpec
=============================================================================
