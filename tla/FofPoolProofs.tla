---------------------------- MODULE FofPoolProofs ----------------------------
(***************************************************************************)
(* The free list of fof_queue.c is safe with one allocating client, for    *)
(* every size of the pool: proofs about module FofPool.                    *)
(***************************************************************************)
EXTENDS ListLemmas, Statistics

(* At most one process calls jfofs_add. *)
OneClient == \A c, d \in Client : c = d

Inv == PoolTypeOK /\ PoolInv

(* The list fof_queue_init links satisfies the invariant. *)
LEMMA InitInv == PoolInit => Inv
<1> SUFFICES ASSUME PoolInit PROVE Inv
  OBVIOUS
<1> USE PoolAssumption
<1>1. PoolTypeOK
  BY DEF PoolInit, PoolTypeOK, Ptr, Fof, NULL, Proc
<1>2. FreeLinks
  BY DEF PoolInit, FreeLinks, Fof, NULL
<1>3. CtrlChain
  BY DEF PoolInit, CtrlChain, Fof, NULL, Proc
<1>4. \A c \in Client : ClientView(c)
  BY DEF PoolInit, ClientView, Fof, NULL, Proc
<1> QED
  BY <1>1, <1>2, <1>3, <1>4 DEF Inv, PoolInv

(* A client's load of the head. *)
LEMMA AllocLoadInv ==
  ASSUME OneClient, Inv, NEW c \in Client, NEW from \in {"idle", "alloc_load"},
         AllocLoad(c, from)
  PROVE  Inv'
<1> USE PoolAssumption DEF Inv, PoolInv, AllocLoad, Goto
<1>1. PoolTypeOK'
  BY DEF PoolTypeOK, Ptr, Proc
<1>2. FreeLinks'
  BY DEF FreeLinks
<1>3. CtrlChain'
  BY DEF CtrlChain, PoolTypeOK, Proc
<1>4. \A d \in Client : ClientView(d)'
  BY DEF ClientView, FreeLinks, PoolTypeOK, Proc, OneClient
<1> QED
  BY <1>1, <1>2, <1>3, <1>4

(* A client's read of the head's next. *)
LEMMA AllocNextInv ==
  ASSUME OneClient, Inv, NEW c \in Client, AllocNext(c)
  PROVE  Inv'
<1> USE PoolAssumption DEF Inv, PoolInv, AllocNext, Goto
<1>1. PoolTypeOK'
  BY DEF PoolTypeOK, Ptr, Proc, ClientView
<1>2. FreeLinks'
  BY DEF FreeLinks
<1>3. CtrlChain'
  BY DEF CtrlChain, PoolTypeOK, Proc
<1>4. \A d \in Client : ClientView(d)'
  BY DEF ClientView, PoolTypeOK, Proc, OneClient
<1> QED
  BY <1>1, <1>2, <1>3, <1>4

(* The pop.  The head has no link to it, and its next is still what the    *)
(* client read.                                                            *)
LEMMA AllocCasInv ==
  ASSUME OneClient, Inv, NEW c \in Client, AllocCas(c)
  PROVE  Inv'
<1> USE PoolAssumption DEF Inv, PoolInv, Goto
<1> DEFINE h == fof[c]
<1>0. h \in Fof /\ own[h] = FREE /\ exp[c] = next[h] /\ pc[c] = "alloc_cas"
      /\ c \in Proc /\ c # Ctrl /\ c # FREE
  BY DEF AllocCas, ClientView, PoolTypeOK, Ptr, Proc
<1>1. CASE free_fofs = fof[c]
  <2>0. /\ pc' = [pc EXCEPT ![c] = "allocated"] /\ free_fofs' = next[h]
        /\ next' = [next EXCEPT ![h] = NULL] /\ own' = [own EXCEPT ![h] = c]
        /\ exp' = [exp EXCEPT ![c] = NULL] /\ fof' = fof /\ tail' = tail
    BY <1>0, <1>1 DEF AllocCas
  <2>1. PoolTypeOK'
    BY <1>0, <2>0 DEF PoolTypeOK, Ptr
  <2>2. FreeLinks'
    BY <1>0, <1>1, <2>0 DEF FreeLinks, PoolTypeOK, Ptr
  <2>3. CtrlChain'
    BY <1>0, <2>0 DEF CtrlChain, PoolTypeOK, Ptr, Proc
  <2>4. \A d \in Client : ClientView(d)'
    BY <1>0, <2>0 DEF ClientView, PoolTypeOK, Ptr, Proc, OneClient
  <2> QED
    BY <2>1, <2>2, <2>3, <2>4
<1>2. CASE free_fofs # fof[c]
  <2>0. /\ pc' = [pc EXCEPT ![c] = "alloc_load"] /\ UNCHANGED <<free_fofs, next, own>>
        /\ exp' = [exp EXCEPT ![c] = NULL] /\ fof' = fof /\ tail' = tail
    BY <1>2 DEF AllocCas
  <2>1. PoolTypeOK'
    BY <1>0, <2>0 DEF PoolTypeOK, Ptr
  <2>2. FreeLinks'
    BY <2>0 DEF FreeLinks
  <2>3. CtrlChain'
    BY <1>0, <2>0 DEF CtrlChain, PoolTypeOK, Proc
  <2>4. \A d \in Client : ClientView(d)'
    BY <1>0, <2>0 DEF ClientView, PoolTypeOK, Ptr, Proc, OneClient
  <2> QED
    BY <2>1, <2>2, <2>3, <2>4
<1> QED
  BY <1>1, <1>2

(* The link of the chain's tail to the head, by a client or the ctrl       *)
(* client: only the word of a fof the process owns is written.             *)
LEMMA FreeLoadInv ==
  ASSUME OneClient, Inv, NEW p \in Proc, FreeLoad(p)
  PROVE  Inv'
<1> USE PoolAssumption DEF Inv, PoolInv, FreeLoad, Goto
<1>0. tail[p] \in Fof /\ own[tail[p]] = p /\ p # FREE
  BY DEF ClientView, CtrlChain, PoolTypeOK, Ptr, Proc
<1>1. PoolTypeOK'
  BY <1>0 DEF PoolTypeOK, Ptr
<1>2. FreeLinks'
  BY <1>0 DEF FreeLinks, PoolTypeOK
<1>3. CtrlChain'
  BY <1>0 DEF CtrlChain, PoolTypeOK, Proc
<1>4. \A d \in Client : ClientView(d)'
  BY <1>0 DEF ClientView, PoolTypeOK, Proc
<1> QED
  BY <1>1, <1>2, <1>3, <1>4

(* The push.  The new head is linked by nobody, the tail is the only link  *)
(* to the old one.                                                         *)
LEMMA FreeCasInv ==
  ASSUME OneClient, Inv, NEW p \in Proc, FreeCas(p, "idle")
  PROVE  Inv'
<1> USE PoolAssumption DEF Inv, PoolInv, Goto
<1> DEFINE t == tail[p]
<1>0. /\ t \in Fof /\ own[t] = p /\ p # FREE /\ pc[p] = "free_cas"
      /\ fof[p] \in Fof /\ own[fof[p]] = p
      /\ \A f \in Fof : own[f] = p /\ f # t =>
           next[f] # NULL /\ own[next[f]] = p /\ next[f] # fof[p]
      /\ \A f, g \in Fof : own[f] = p /\ f # t /\ own[g] = p /\ g # t
                              /\ next[f] = next[g] => f = g
  BY DEF FreeCas, ClientView, CtrlChain, PoolTypeOK, Ptr, Proc
<1>1. CASE free_fofs = next[tail[p]]
  <2>0. /\ pc' = [pc EXCEPT ![p] = "idle"] /\ free_fofs' = fof[p]
        /\ own' = [f \in Fof |-> IF own[f] = p THEN FREE ELSE own[f]]
        /\ fof' = [fof EXCEPT ![p] = NULL] /\ tail' = [tail EXCEPT ![p] = NULL]
        /\ next' = next /\ exp' = exp
    BY <1>1 DEF FreeCas
  <2>1. PoolTypeOK'
    BY <1>0, <2>0 DEF PoolTypeOK, Ptr
  <2>2. FreeLinks'
    BY <1>0, <1>1, <2>0 DEF FreeLinks, PoolTypeOK, Ptr
  <2>3. CtrlChain'
    BY <1>0, <2>0 DEF CtrlChain, PoolTypeOK, Ptr, Proc
  <2>4. \A d \in Client : ClientView(d)'
    BY <1>0, <2>0 DEF ClientView, PoolTypeOK, Ptr, Proc
  <2> QED
    BY <2>1, <2>2, <2>3, <2>4
<1>2. CASE free_fofs # next[tail[p]]
  <2>0. /\ pc' = [pc EXCEPT ![p] = "free_load"] /\ UNCHANGED <<free_fofs, own, fof, tail, exp>>
        /\ next' = [next EXCEPT ![t] = free_fofs]
    BY <1>2 DEF FreeCas
  <2>1. PoolTypeOK'
    BY <1>0, <2>0 DEF PoolTypeOK, Ptr
  <2>2. FreeLinks'
    BY <1>0, <2>0 DEF FreeLinks, PoolTypeOK
  <2>3. CtrlChain'
    BY <1>0, <2>0 DEF CtrlChain, PoolTypeOK, Proc
  <2>4. \A d \in Client : ClientView(d)'
    BY <1>0, <2>0 DEF ClientView, PoolTypeOK, Proc
  <2> QED
    BY <2>1, <2>2, <2>3, <2>4
<1> QED
  BY <1>1, <1>2

(* A client about to free a late fof. *)
LEMMA LateInv ==
  ASSUME Inv, NEW c \in Client, Late(c)
  PROVE  Inv'
<1> USE PoolAssumption DEF Inv, PoolInv, Late, Discard, Goto
<1>1. PoolTypeOK'
  BY DEF PoolTypeOK, Proc
<1>2. FreeLinks'
  BY DEF FreeLinks
<1>3. CtrlChain'
  BY DEF CtrlChain, PoolTypeOK, Proc
<1>4. \A d \in Client : ClientView(d)'
  BY DEF ClientView, PoolTypeOK, Proc
<1> QED
  BY <1>1, <1>2, <1>3, <1>4

(* A fof that joins the ctrl client's chain. *)
LEMMA HandInv ==
  ASSUME Inv, NEW c \in Client, Hand(c)
  PROVE  Inv'
<1> USE PoolAssumption DEF Inv, PoolInv, Hand, Goto
<1>0. fof[c] \in Fof /\ own[fof[c]] = c /\ c \in Proc /\ Ctrl \in Proc /\ c # Ctrl /\ c # FREE
  BY DEF ClientView, PoolTypeOK, Ptr, Proc
<1>1. PoolTypeOK'
  BY <1>0 DEF PoolTypeOK, Ptr
<1>2. FreeLinks'
  BY <1>0 DEF FreeLinks, PoolTypeOK, Proc
<1>3. CtrlChain'
  BY <1>0 DEF CtrlChain, PoolTypeOK, Ptr, NULL, Fof
<1>4. \A d \in Client : ClientView(d)'
  BY <1>0 DEF ClientView, PoolTypeOK, Proc
<1> QED
  BY <1>1, <1>2, <1>3, <1>4

(* The ctrl client about to give its chain back. *)
LEMMA GiveBackInv ==
  ASSUME Inv, GiveBack
  PROVE  Inv'
<1> USE PoolAssumption DEF Inv, PoolInv, GiveBack, Goto
<1>1. PoolTypeOK'
  BY DEF PoolTypeOK, Proc
<1>2. FreeLinks'
  BY DEF FreeLinks
<1>3. CtrlChain'
  BY DEF CtrlChain, PoolTypeOK, Proc
<1>4. \A d \in Client : ClientView(d)'
  BY DEF ClientView, PoolTypeOK, Proc
<1> QED
  BY <1>1, <1>2, <1>3, <1>4

(* Every step of the pool preserves the invariant. *)
LEMMA StepInv ==
  ASSUME OneClient, Inv, [PoolNext]_poolVars
  PROVE  Inv'
<1>1. ASSUME NEW c \in Client, ClientStep(c) PROVE Inv'
  <2> c \in Proc
    BY DEF Proc
  <2> QED
    BY <1>1, AllocLoadInv, AllocNextInv, AllocCasInv, LateInv, HandInv, FreeLoadInv,
       FreeCasInv DEF ClientStep
<1>2. ASSUME CtrlStep PROVE Inv'
  <2> Ctrl \in Proc
    BY DEF Proc
  <2> QED
    BY <1>2, GiveBackInv, FreeLoadInv, FreeCasInv DEF CtrlStep
<1>3. ASSUME UNCHANGED poolVars PROVE Inv'
  BY <1>3 DEF poolVars, Inv, PoolInv, PoolTypeOK, FreeLinks, CtrlChain, ClientView
<1> QED
  BY <1>1, <1>2, <1>3 DEF PoolNext

(* The invariant holds throughout, for one client and any pool. *)
THEOREM PoolInvariant ==
  ASSUME OneClient
  PROVE  PoolSpec => [](PoolTypeOK /\ PoolInv)
<1>1. PoolInit => Inv
  BY InitInv
<1>2. Inv /\ [PoolNext]_poolVars => Inv'
  BY StepInv
<1> QED
  BY <1>1, <1>2, PTL DEF PoolSpec, Inv

(* The state of fof_queue_allocate_fof, fof_queue_free_fof and             *)
(* fof_queue_free_fofs is well typed; no pointer is followed when NULL.    *)
THEOREM PoolTyped ==
  ASSUME OneClient
  PROVE  PoolSpec => []PoolTypeOK
BY PoolInvariant, PTL

(* With one allocating client no fof in use is reachable from the free     *)
(* list, however the ctrl client's pushes interleave with the pops.        *)
THEOREM PoolNoSharing ==
  ASSUME OneClient
  PROVE  PoolSpec => []NoSharing
<1>1. PoolInv => NoSharing
  BY DEF PoolInv, FreeLinks, NoSharing, Owned
<1> QED
  BY <1>1, PoolInvariant, PTL

(* With one allocating client the free list implements FofOwnership: a     *)
(* client is only ever given a fof that nobody owns.                       *)
THEOREM PoolImplementsOwnership ==
  ASSUME OneClient
  PROVE  PoolSpec => OwnershipSpec
<1> USE PoolAssumption
<1>1. PoolInit => Ownership!OwnInit
  BY DEF PoolInit, Ownership!OwnInit
<1>2. ASSUME Inv, [PoolNext]_poolVars PROVE [Ownership!OwnNext]_own
  <2> USE <1>2 DEF Inv, PoolInv
  <2>1. ASSUME NEW c \in Client, AllocCas(c) PROVE [Ownership!OwnNext]_own
    <3>1. fof[c] \in Fof /\ own[fof[c]] = FREE /\ ~ Ownership!Holds(c)
      BY <2>1 DEF AllocCas, ClientView, PoolTypeOK, Ptr, Proc, Ownership!Holds
    <3>2. own' = own \/ own' = [own EXCEPT ![fof[c]] = c]
      BY <2>1 DEF AllocCas
    <3> QED
      BY <3>1, <3>2 DEF Ownership!OwnNext, Ownership!Take
  <2>2. ASSUME NEW c \in Client, Hand(c) PROVE [Ownership!OwnNext]_own
    <3>1. fof[c] \in Fof /\ own[fof[c]] = c
      BY <2>2 DEF Hand, Goto, ClientView, PoolTypeOK, Ptr, Proc
    <3> QED
      BY <3>1, <2>2 DEF Hand, Ownership!OwnNext, Ownership!Pass
  <2>3. ASSUME NEW p \in Proc, FreeCas(p, "idle") PROVE [Ownership!OwnNext]_own
    <3>1. fof[p] \in Fof /\ own[fof[p]] = p
      BY <2>3 DEF FreeCas, ClientView, CtrlChain, PoolTypeOK, Ptr, Proc
    <3>2. Ownership!Holds(p)
      BY <3>1 DEF Ownership!Holds
    <3>3. own' = own \/ own' = [f \in Fof |-> IF own[f] = p THEN FREE ELSE own[f]]
      BY <2>3 DEF FreeCas
    <3> QED
      BY <3>2, <3>3 DEF Ownership!OwnNext, Ownership!Return, Proc
  <2>4. CASE own' = own
    BY <2>4
  <2> QED
    BY <2>1, <2>2, <2>3, <2>4
       DEF PoolNext, CtrlStep, ClientStep, Proc, AllocLoad, AllocNext, Late, FreeLoad,
           GiveBack, poolVars
<1> QED
  BY <1>1, <1>2, PoolInvariant, PTL DEF PoolSpec, OwnershipSpec, Ownership!OwnSpec, Inv

-----------------------------------------------------------------------------
(* The free fofs are one list and the ctrl client's fofs one chain. *)
Lists ==
  /\ List(next, own, FREE, free_fofs)
  /\ fof[Ctrl] # NULL => Segment(next, own, Ctrl, fof[Ctrl], tail[Ctrl])

(* Every step keeps both: pops, pushes and the hand-overs between owners. *)
LEMMA StepLists ==
  ASSUME OneClient, Inv, Inv', Lists, [PoolNext]_poolVars
  PROVE  Lists'
<1> USE PoolAssumption
<1>a. /\ next \in [Fof -> Ptr] /\ next' \in [Fof -> Ptr] /\ Ptr = Fof \cup {NULL} /\ NULL \notin Fof
      /\ fof \in [Proc -> Ptr] /\ tail \in [Proc -> Ptr] /\ own \in [Fof -> Proc \cup {FREE}]
      /\ Ctrl \in Proc /\ Ctrl # FREE /\ Client \subseteq Proc /\ FREE \notin Client
      /\ Ctrl \notin Client
  BY DEF Inv, PoolTypeOK, Ptr, Proc, Fof, NULL
(* A step that changes only links of fofs that are no part of the two. *)
<1>b. ASSUME UNCHANGED <<own, free_fofs>>, fof'[Ctrl] = fof[Ctrl], tail'[Ctrl] = tail[Ctrl],
             \A f \in Fof : own[f] = FREE \/ (own[f] = Ctrl /\ f # tail[Ctrl]) => next'[f] = next[f]
      PROVE  Lists'
  <2>1. List(next', own', FREE, free_fofs')
    <3>1. \A f \in Fof : (own'[f] = FREE <=> own[f] = FREE) /\ (own[f] = FREE => next'[f] = next[f])
      BY <1>b
    <3> QED
      BY <1>a, <1>b, <3>1, ListFrame DEF Lists
  <2>2. ASSUME fof[Ctrl] # NULL PROVE Segment(next', own', Ctrl, fof[Ctrl], tail[Ctrl])
    <3>1. \A f \in Fof : /\ own'[f] = Ctrl <=> own[f] = Ctrl
                         /\ own[f] = Ctrl /\ f # tail[Ctrl] => next'[f] = next[f]
      BY <1>b
    <3> QED
      BY <1>a, <2>2, <3>1, SegmentFrame DEF Lists
  <2> QED
    BY <1>b, <2>1, <2>2 DEF Lists
<1>1. ASSUME NEW c \in Client, AllocLoad(c, "idle") \/ AllocLoad(c, "alloc_load") \/ AllocNext(c) \/ Late(c)
      PROVE  Lists'
  BY <1>a, <1>b, <1>1 DEF AllocLoad, AllocNext, Late, Discard
<1>2. ASSUME NEW c \in Client, AllocCas(c) PROVE Lists'
  <2>1. PICK h \in Fof : h = fof[c] /\ own[h] = FREE /\ exp[c] = next[h] /\ c # Ctrl /\ c # FREE
    BY <1>a, <1>2 DEF AllocCas, Inv, PoolInv, ClientView, PoolTypeOK, Ptr
  <2>2. CASE free_fofs # h
    BY <1>b, <1>2, <2>1, <2>2 DEF AllocCas
  <2>3. CASE free_fofs = h
    <3>0. /\ free_fofs' = next[h] /\ next' = [next EXCEPT ![h] = NULL]
          /\ own' = [own EXCEPT ![h] = c] /\ UNCHANGED <<fof, tail>>
      BY <1>2, <2>1, <2>3 DEF AllocCas
    <3>1. own'[h] # FREE /\ \A g \in Fof \ {h} : own'[g] = own[g] /\ next'[g] = next[g]
      BY <1>a, <2>1, <3>0
    <3>2. List(next, own, FREE, h)
      BY <2>3 DEF Lists
    <3>3. List(next', own', FREE, next[h])
      BY <1>a, <3>1, <3>2, ListPop
    <3>4. \A f \in Fof : /\ own'[f] = Ctrl <=> own[f] = Ctrl
                         /\ own[f] = Ctrl /\ f # tail[Ctrl] => next'[f] = next[f]
      BY <1>a, <2>1, <3>0
    <3>5. ASSUME fof[Ctrl] # NULL PROVE Segment(next', own', Ctrl, fof[Ctrl], tail[Ctrl])
      BY <1>a, <3>4, <3>5, SegmentFrame DEF Lists
    <3> QED
      BY <3>0, <3>3, <3>5 DEF Lists
  <2> QED
    BY <2>2, <2>3
<1>3. ASSUME NEW c \in Client, Hand(c) PROVE Lists'
  <2>1. PICK f \in Fof : f = fof[c] /\ own[f] = c /\ c # Ctrl /\ c # FREE
    BY <1>a, <1>3 DEF Hand, Goto, Inv, PoolInv, ClientView, PoolTypeOK, Ptr
  <2>2. /\ next' = [next EXCEPT ![f] = fof[Ctrl]] /\ own' = [own EXCEPT ![f] = Ctrl]
        /\ fof'[Ctrl] = f /\ tail'[Ctrl] = IF fof[Ctrl] = NULL THEN f ELSE tail[Ctrl]
        /\ free_fofs' = free_fofs
    BY <1>a, <1>3, <2>1 DEF Hand
  <2>3. \A g \in Fof : (own'[g] = FREE <=> own[g] = FREE) /\ (own[g] = FREE => next'[g] = next[g])
    BY <1>a, <2>1, <2>2
  <2>4. List(next', own', FREE, free_fofs')
    <3>1. List(next, own, FREE, free_fofs)
      BY DEF Lists
    <3>2. List(next', own', FREE, free_fofs)
      BY <1>a, <2>3, <3>1, ListFrame
    <3> QED
      BY <2>2, <3>2
  <2>5. CASE fof[Ctrl] = NULL
    <3>1. \A g \in Fof : own'[g] = Ctrl <=> g = f
      BY <1>a, <2>1, <2>2, <2>5 DEF Inv, PoolInv, CtrlChain
    <3> QED
      BY <2>2, <2>4, <2>5, <3>1, SingleSegment DEF Lists
  <2>6. CASE fof[Ctrl] # NULL
    <3>1. /\ own[f] # Ctrl /\ own'[f] = Ctrl /\ next'[f] = fof[Ctrl]
          /\ \A g \in Fof \ {f} : own'[g] = own[g] /\ next'[g] = next[g]
      BY <1>a, <2>1, <2>2
    <3>2. Segment(next', own', Ctrl, f, tail[Ctrl])
      BY <1>a, <2>6, <3>1, SegmentPush DEF Lists
    <3> QED
      BY <2>2, <2>4, <2>6, <3>2 DEF Lists
  <2> QED
    BY <2>5, <2>6
<1>4. ASSUME NEW p \in Proc, FreeLoad(p) PROVE Lists'
  <2>1. own[tail[p]] = p /\ tail[p] \in Fof /\ p # FREE /\ (p \in Client => p # Ctrl)
    BY <1>a, <1>4 DEF FreeLoad, Goto, Inv, PoolInv, ClientView, CtrlChain, PoolTypeOK, Ptr, Proc
  <2>2. \A f \in Fof : own[f] = FREE \/ (own[f] = Ctrl /\ f # tail[Ctrl]) => next'[f] = next[f]
    BY <1>a, <1>4, <2>1 DEF FreeLoad, Proc
  <2> QED
    BY <1>b, <1>4, <2>2 DEF FreeLoad
<1>5. ASSUME NEW p \in Proc, FreeCas(p, "idle") PROVE Lists'
  <2>1. own[tail[p]] = p /\ tail[p] \in Fof /\ fof[p] \in Fof /\ p # FREE /\ pc[p] = "free_cas"
    BY <1>a, <1>5 DEF FreeCas, Inv, PoolInv, ClientView, CtrlChain, PoolTypeOK, Ptr, Proc
  <2>2. CASE free_fofs # next[tail[p]]
    <3>1. \A f \in Fof : own[f] = FREE \/ (own[f] = Ctrl /\ f # tail[Ctrl]) => next'[f] = next[f]
      BY <1>a, <1>5, <2>1, <2>2 DEF FreeCas, Proc
    <3> QED
      BY <1>b, <1>5, <2>2, <3>1 DEF FreeCas
  <2>3. CASE free_fofs = next[tail[p]]
    <3>0. /\ free_fofs' = fof[p] /\ next' = next
          /\ own' = [f \in Fof |-> IF own[f] = p THEN FREE ELSE own[f]]
          /\ fof' = [fof EXCEPT ![p] = NULL] /\ tail' = [tail EXCEPT ![p] = NULL]
      BY <1>5, <2>3 DEF FreeCas
    <3>1. Segment(next, own, p, fof[p], tail[p])
      <4>1. CASE p = Ctrl
        BY <1>a, <2>1, <4>1 DEF Lists
      <4>2. CASE p \in Client
        <5>1. tail[p] = fof[p] /\ \A f \in Fof : own[f] = p <=> f = fof[p]
          BY <2>1, <4>2 DEF Inv, PoolInv, ClientView
        <5> QED
          BY <2>1, <5>1, SingleSegment
      <4> QED
        BY <4>1, <4>2 DEF Proc
    <3>2. List(next, own', FREE, fof[p])
      BY <1>a, <2>1, <2>3, <3>0, <3>1, ListSplice DEF Lists
    <3>3. ASSUME fof'[Ctrl] # NULL PROVE Segment(next', own', Ctrl, fof'[Ctrl], tail'[Ctrl])
      <4>1. p # Ctrl /\ fof'[Ctrl] = fof[Ctrl] /\ tail'[Ctrl] = tail[Ctrl]
        BY <1>a, <3>0, <3>3
      <4>2. \A f \in Fof : /\ own'[f] = Ctrl <=> own[f] = Ctrl
                           /\ own[f] = Ctrl /\ f # tail[Ctrl] => next'[f] = next[f]
        BY <1>a, <3>0, <4>1
      <4> QED
        BY <1>a, <3>3, <4>1, <4>2, SegmentFrame DEF Lists
    <3> QED
      BY <3>0, <3>2, <3>3 DEF Lists
  <2> QED
    BY <2>2, <2>3
<1>6. CASE GiveBack \/ UNCHANGED poolVars
  BY <1>b, <1>6 DEF GiveBack, poolVars
<1> QED
  BY <1>1, <1>2, <1>3, <1>4, <1>5, <1>6 DEF PoolNext, CtrlStep, ClientStep, Proc

(* With one allocating client check_free_list would find every fof that    *)
(* nobody answers for, each once, and an end (FreeListIntegrity): no fof   *)
(* of a pool of any size is lost or listed twice.                          *)
THEOREM PoolFreeListIntegrity ==
  ASSUME OneClient
  PROVE  PoolSpec => []FreeListIntegrity
<1> DEFINE I == Inv /\ Lists
<1>1. PoolInit => I
  <2>1. ASSUME PoolInit PROVE Lists
    <3>1. fof[Ctrl] = NULL
      BY <2>1 DEF PoolInit, Proc
    <3> QED
      BY <2>1, <3>1, InitList DEF Lists
  <2> QED
    BY <2>1, InitInv
<1>2. I /\ [PoolNext]_poolVars => I'
  BY StepInv, StepLists
<1>3. I => FreeListIntegrity
  BY ListWalk DEF Inv, PoolTypeOK, Lists, FreeListIntegrity
<1> QED
  BY <1>1, <1>2, <1>3, PTL DEF PoolSpec

-----------------------------------------------------------------------------
(* Every fof that was ever in use counts once in the peak, and on the free *)
(* list the used ones come first.                                          *)
UsedFirst ==
  /\ used \subseteq Fof /\ InUse \subseteq used /\ peak = Cardinality(used)
  /\ \A f \in Fof : own[f] = FREE /\ next[f] # NULL /\ next[f] \in used => f \in used

(* Sets of fofs are finite. *)
LEMMA FofSets ==
  ASSUME NEW S \in SUBSET Fof
  PROVE  IsFiniteSet(S) /\ Cardinality(S) \in Nat
<1>1. IsFiniteSet(Fof)
  BY PoolAssumption, FS_Interval DEF Fof
<1>2. IsFiniteSet(S)
  BY <1>1, FS_Subset
<1> QED
  BY <1>2, FS_CardinalityType

(* A step that takes nothing from the free list leaves the peak. *)
LEMMA PeakStays ==
  ASSUME UsedFirst, StatNext, InUse' \subseteq InUse
  PROVE  used' = used /\ peak' = peak
<1>1. InUse' \subseteq used /\ InUse' \in SUBSET Fof /\ used \in SUBSET Fof
  BY DEF UsedFirst
<1>2. PICK U \in SUBSET Fof : U = InUse'
  BY <1>1
<1>3. Cardinality(U) \in Nat /\ Cardinality(used) \in Nat /\ Cardinality(U) <= Cardinality(used)
  BY <1>1, <1>2, FofSets, FS_Subset
<1>4. ~ (Cardinality(U) > peak)
  BY <1>3 DEF UsedFirst
<1> QED
  BY <1>1, <1>2, <1>4 DEF StatNext

(* Every step keeps the used fofs first. *)
LEMMA StepUsed ==
  ASSUME OneClient, Inv, Lists, UsedFirst, StatNext
  PROVE  UsedFirst'
<1> USE PoolAssumption
<1>a. /\ next \in [Fof -> Ptr] /\ Ptr = Fof \cup {NULL} /\ NULL \notin Fof
      /\ fof \in [Proc -> Ptr] /\ tail \in [Proc -> Ptr] /\ own \in [Fof -> Proc \cup {FREE}]
      /\ Ctrl \in Proc /\ Ctrl # FREE /\ Client \subseteq Proc /\ FREE \notin Proc
  BY DEF Inv, PoolTypeOK, Ptr, Proc, Fof, NULL
(* A step that gives fofs back or to another process. *)
<1>b. ASSUME \A f \in Fof : own[f] = FREE => own'[f] = FREE,
             \A f \in Fof : own[f] = FREE => next'[f] = next[f]
      PROVE  UsedFirst'
  <2>1. InUse' \subseteq InUse
    BY <1>b DEF InUse
  <2>2. used' = used /\ peak' = peak
    BY <2>1, PeakStays
  <2>3. \A f \in Fof : own[f] # FREE => f \in used
    BY DEF UsedFirst, InUse
  <2>4. \A f \in Fof : own'[f] = FREE /\ next'[f] # NULL /\ next'[f] \in used => f \in used
    BY <1>b, <2>3 DEF UsedFirst
  <2>5. InUse' \subseteq used
    BY <2>1 DEF UsedFirst
  <2> QED
    BY <2>2, <2>4, <2>5 DEF UsedFirst
<1>1. ASSUME NEW c \in Client, AllocLoad(c, "idle") \/ AllocLoad(c, "alloc_load") \/ AllocNext(c) \/ Late(c)
      PROVE  UsedFirst'
  BY <1>b, <1>1 DEF AllocLoad, AllocNext, Late
(* The pop.  An unused fof is at the head only when all used ones are out. *)
<1>2. ASSUME NEW c \in Client, AllocCas(c) PROVE UsedFirst'
  <2>1. PICK h \in Fof : h = fof[c] /\ own[h] = FREE /\ exp[c] = next[h] /\ c # FREE
    BY <1>a, <1>2 DEF AllocCas, Inv, PoolInv, ClientView, PoolTypeOK, Ptr
  <2>2. CASE free_fofs # h
    BY <1>b, <1>2, <2>1, <2>2 DEF AllocCas
  <2>3. CASE free_fofs = h
    <3>0. next' = [next EXCEPT ![h] = NULL] /\ own' = [own EXCEPT ![h] = c]
      BY <1>2, <2>1, <2>3 DEF AllocCas
    <3>1. own'[h] # FREE /\ \A g \in Fof \ {h} : own'[g] = own[g] /\ next'[g] = next[g]
      BY <1>a, <2>1, <3>0
    <3>2. InUse' = InUse \cup {h}
      BY <3>1 DEF InUse
    <3>3. used' = used \cup {h}
      BY <3>2 DEF StatNext, UsedFirst
    <3>4. \A f \in Fof : own'[f] = FREE /\ next'[f] # NULL /\ next'[f] \in used' => f \in used'
      <4>1. ASSUME NEW f \in Fof, own'[f] = FREE, next'[f] # NULL, next'[f] \in used'
            PROVE  f \in used'
        <5>1. f # h /\ own[f] = FREE /\ next'[f] = next[f]
          BY <3>1, <4>1
        <5>2. next[f] # h
          BY <2>3, <4>1, <5>1 DEF Lists, List
        <5> QED
          BY <3>3, <4>1, <5>1, <5>2 DEF UsedFirst
      <4> QED
        BY <4>1
    <3>5. peak' = Cardinality(used')
      <4>1. CASE h \in used
        <5>1. used' = used /\ InUse' \subseteq used
          BY <3>2, <3>3, <4>1 DEF UsedFirst
        <5>2. PICK U \in SUBSET Fof : U = InUse' /\ U \subseteq used
          BY <5>1 DEF UsedFirst
        <5>3. Cardinality(U) \in Nat /\ Cardinality(used) \in Nat /\ Cardinality(U) <= Cardinality(used)
          BY <5>2, FofSets, FS_Subset DEF UsedFirst
        <5>4. ~ (Cardinality(U) > peak)
          BY <5>3 DEF UsedFirst
        <5> QED
          BY <5>1, <5>2, <5>4 DEF StatNext, UsedFirst
      <4>2. CASE h \notin used
        <5> DEFINE S == {f \in Fof : own[f] = FREE => f \notin used}
        <5>1. h \in S /\ S \in SUBSET Fof
          BY <4>2
        <5>2. ASSUME NEW f \in S, own[f] = FREE, next[f] # NULL PROVE next[f] \in S
          <6>1. next[f] \in Fof /\ f \notin used
            BY <1>a, <5>2
          <6> QED
            BY <5>2, <6>1 DEF UsedFirst
        <5>3. List(next, own, FREE, h)
          BY <2>3 DEF Lists
        <5>4. \A f \in Fof : own[f] = FREE => f \in S
          <6> HIDE DEF S
          <6> QED
            BY <5>1, <5>2, <5>3 DEF List
        <5>5. used = InUse
          BY <5>4 DEF UsedFirst, InUse
        <5>6. PICK U \in SUBSET Fof : U = InUse'
          BY DEF InUse
        <5>7. U = used \cup {h} /\ used' = U
          BY <3>2, <3>3, <5>5, <5>6
        <5>8. Cardinality(U) = Cardinality(used) + 1 /\ Cardinality(used) \in Nat
          BY <4>2, <5>7, FofSets, FS_AddElement DEF UsedFirst
        <5>9. Cardinality(U) > peak
          BY <5>8 DEF UsedFirst
        <5> QED
          BY <5>6, <5>7, <5>9 DEF StatNext
      <4> QED
        BY <4>1, <4>2
    <3> QED
      BY <2>1, <3>2, <3>3, <3>4, <3>5 DEF UsedFirst
  <2> QED
    BY <2>2, <2>3
<1>3. ASSUME NEW c \in Client, Hand(c) PROVE UsedFirst'
  <2>1. PICK f \in Fof : f = fof[c] /\ own[f] = c /\ c # FREE
    BY <1>a, <1>3 DEF Hand, Goto, Inv, PoolInv, ClientView, PoolTypeOK, Ptr
  <2>2. next' = [next EXCEPT ![f] = fof[Ctrl]] /\ own' = [own EXCEPT ![f] = Ctrl]
    BY <1>3, <2>1 DEF Hand
  <2> QED
    BY <1>a, <1>b, <2>1, <2>2
<1>4. ASSUME NEW p \in Proc, FreeLoad(p) PROVE UsedFirst'
  <2>1. own[tail[p]] = p /\ tail[p] \in Fof
    BY <1>a, <1>4 DEF FreeLoad, Goto, Inv, PoolInv, ClientView, CtrlChain, PoolTypeOK, Ptr, Proc
  <2> QED
    BY <1>a, <1>b, <1>4, <2>1 DEF FreeLoad
<1>5. ASSUME NEW p \in Proc, FreeCas(p, "idle") PROVE UsedFirst'
  <2>1. own[tail[p]] = p /\ tail[p] \in Fof
    BY <1>a, <1>5 DEF FreeCas, Inv, PoolInv, ClientView, CtrlChain, PoolTypeOK, Ptr, Proc
  <2> QED
    BY <1>a, <1>b, <1>5, <2>1 DEF FreeCas
<1>6. CASE GiveBack
  BY <1>b, <1>6 DEF GiveBack
<1> QED
  BY <1>1, <1>2, <1>3, <1>4, <1>5, <1>6 DEF StatNext, PoolNext, CtrlStep, ClientStep, Proc

(* A walk that meets a used fof has met none but used ones before. *)
LEMMA WalkUsed ==
  ASSUME Inv, Lists, UsedFirst, NEW g, Walks(free_fofs, NFofs, g),
         NEW k \in 0..NFofs, g[k] # NULL, g[k] \in used
  PROVE  \A j \in 0..k : g[j] \in used
<1>0. /\ NFofs \in Nat /\ Ptr = Fof \cup {NULL} /\ next \in [Fof -> Ptr]
      /\ List(next, own, FREE, free_fofs)
  BY PoolAssumption DEF Ptr, Inv, PoolTypeOK, Lists
<1>1. /\ g \in [0..NFofs -> Ptr]
      /\ \A i \in 1..NFofs : g[i] = IF g[i - 1] = NULL THEN NULL ELSE next[g[i - 1]]
  BY DEF Walks
<1> SUFFICES ASSUME NEW j \in 0..k, g[j] \notin used PROVE FALSE
  OBVIOUS
<1> DEFINE D == {i \in j..NFofs : g[i] # NULL /\ g[i] \in used}
<1>2. D \in SUBSET Nat /\ k \in D
  BY <1>0
<1>3. PICK i \in D : \A m \in D : i <= m
  BY <1>2, LeastNumber
<1>4. i \in 1..NFofs /\ i - 1 \in j..NFofs /\ i - 1 \in 0..NFofs /\ ~ (i <= i - 1)
  <2>1. i # j
    BY <1>3
  <2> QED
    BY <1>0, <1>3, <2>1
<1>5. g[i - 1] # NULL /\ g[i - 1] \in Fof /\ g[i] = next[g[i - 1]]
  BY <1>0, <1>1, <1>3, <1>4
<1>6. own[g[i - 1]] = FREE
  BY <1>0, <1>4, <1>5, WalkOwned
<1>7. g[i - 1] \in used
  BY <1>3, <1>5, <1>6 DEF UsedFirst
<1> QED
  BY <1>3, <1>4, <1>5, <1>7

(* What max_used_free_list counts: the used fofs on the free list. *)
LEMMA CountsUsed ==
  ASSUME Inv, Lists, UsedFirst
  PROVE  MaxUsed = Cardinality(used \ InUse)
<1>0. /\ NFofs \in Nat /\ Ptr = Fof \cup {NULL} /\ NULL \notin Fof /\ next \in [Fof -> Ptr]
      /\ List(next, own, FREE, free_fofs) /\ free_fofs \in Ptr
  BY PoolAssumption DEF Ptr, Fof, NULL, Inv, PoolTypeOK, Lists
<1> DEFINE g == Walk(free_fofs)
           K == {k \in 0..NFofs : g[k] # NULL /\ \A j \in 0..k : g[j] \in used}
           U == used \ InUse
<1>1. MaxUsed = Cardinality(K)
  BY DEF MaxUsed
<1>2. Walks(free_fofs, NFofs, g)
  BY <1>0, WalkWalks
<1>3. {g[k] : k \in 0..NFofs} \ {NULL} = Owned(FREE)
  BY <1>0, ListWalk DEF Chain
<1> HIDE DEF g
<1>4. g \in [0..NFofs -> Ptr]
  BY <1>2 DEF Walks
<1>5. \A k \in K : k \in 0..NFofs /\ g[k] \in U
  <2>1. \A k \in K : k \in 0..NFofs /\ g[k] # NULL /\ g[k] \in used
    BY <1>0
  <2>2. \A k \in K : own[g[k]] = FREE
    BY <1>0, <1>2, <2>1, WalkOwned
  <2> QED
    BY <2>1, <2>2 DEF InUse
<1>6. \A x, y \in K : g[x] = g[y] => x = y
  BY <1>0, <1>2, WalkOnce
<1>7. \A f \in U : \E k \in K : g[k] = f
  <2>1. ASSUME NEW f \in U PROVE \E k \in K : g[k] = f
    <3>1. f \in Fof /\ own[f] = FREE /\ f \in used
      BY DEF UsedFirst, InUse
    <3>2. PICK k \in 0..NFofs : g[k] = f /\ g[k] # NULL
      BY <1>3, <3>1 DEF Owned
    <3>3. \A j \in 0..k : g[j] \in used
      BY <1>2, <3>1, <3>2, WalkUsed
    <3> QED
      BY <3>2, <3>3
  <2> QED
    BY <2>1
<1>8. IsFiniteSet(K) /\ IsFiniteSet(U)
  <2>1. U \in SUBSET Fof
    BY DEF UsedFirst
  <2>2. IsFiniteSet(0..NFofs) /\ K \in SUBSET (0..NFofs)
    BY <1>0, FS_Interval
  <2> QED
    BY <2>1, <2>2, FofSets, FS_Subset
<1> HIDE DEF K, U
<1> DEFINE F == [k \in K |-> g[k]]
<1>9. F \in Injection(K, U) /\ F \in Surjection(K, U)
  BY <1>5, <1>6, <1>7 DEF Injection, Surjection, IsInjective
<1>10. Cardinality(K) = Cardinality(U)
  <2> HIDE DEF F
  <2> QED
    BY <1>8, <1>9, FS_Injection
<1> QED
  BY <1>1, <1>10 DEF U

(* With one allocating client the number dump_statistics prints, with the  *)
(* fofs in use, is the most that were ever in use at once (PeakUsed), for  *)
(* every size of the pool.                                                 *)
THEOREM PoolPeakUsed ==
  ASSUME OneClient
  PROVE  StatSpec => []PeakUsed
<1> DEFINE I == Inv /\ Lists /\ UsedFirst
<1>1. StatInit => I
  <2> SUFFICES ASSUME StatInit PROVE I
    OBVIOUS
  <2>1. PoolInit /\ used = {} /\ peak = 0
    BY DEF StatInit
  <2>2. fof[Ctrl] = NULL /\ InUse = {}
    BY <2>1 DEF PoolInit, Proc, InUse
  <2>3. Lists
    BY <2>1, <2>2, InitList DEF Lists
  <2>4. UsedFirst
    BY <2>1, <2>2, FS_EmptySet DEF UsedFirst
  <2> QED
    BY <2>1, <2>3, <2>4, InitInv
<1>2. I /\ [StatNext]_<<poolVars, statVars>> => I'
  <2>1. ASSUME I, StatNext PROVE I'
    <3>1. Inv'
      BY <2>1, StepInv DEF StatNext
    <3>2. Lists'
      BY <2>1, <3>1, StepLists DEF StatNext
    <3> QED
      BY <2>1, <3>1, <3>2, StepUsed
  <2>2. ASSUME I, UNCHANGED <<poolVars, statVars>> PROVE I'
    <3>1. Inv'
      BY <2>2, StepInv
    <3>2. Lists'
      BY <2>2, <3>1, StepLists
    <3>3. UsedFirst'
      BY <2>2 DEF UsedFirst, InUse, poolVars, statVars
    <3> QED
      BY <3>1, <3>2, <3>3
  <2> QED
    BY <2>1, <2>2
<1>3. I => PeakUsed
  <2> SUFFICES ASSUME I PROVE PeakUsed
    OBVIOUS
  <2>1. used \in SUBSET Fof /\ InUse \in SUBSET used
    BY DEF UsedFirst
  <2>2. (used \ InUse) \in SUBSET Fof /\ InUse \in SUBSET Fof
    BY <2>1
  <2>3. /\ IsFiniteSet(used \ InUse) /\ Cardinality(used \ InUse) \in Nat
        /\ IsFiniteSet(InUse) /\ Cardinality(InUse) \in Nat
    BY <2>2, FofSets
  <2>4. (used \ InUse) \cup InUse = used /\ (used \ InUse) \cap InUse = {}
    BY <2>1
  <2>5. Cardinality(used) = Cardinality(used \ InUse) + Cardinality(InUse)
    BY <2>3, <2>4, FS_Union, FS_EmptySet
  <2> QED
    BY <2>3, <2>5, CountsUsed DEF PeakUsed, UsedFirst
<1> QED
  BY <1>1, <1>2, <1>3, PTL DEF StatSpec
=============================================================================
