------------------------------- MODULE FofPool -------------------------------
(***************************************************************************)
(* The free list of fofs in shared memory: fof_queue_allocate_fof,         *)
(* fof_queue_free_fof and fof_queue_free_fofs of fof_queue.c, one step per *)
(* access to a word that another process can reach.  API clients allocate  *)
(* and free; the ctrl client of the server only frees.                     *)
(*                                                                         *)
(* A fof is the index of its record in the shared array, 0 is NULL.  The   *)
(* atomics are sequentially consistent.  own is a history variable: who    *)
(* answers for a fof.  No guard reads it.                                  *)
(*                                                                         *)
(* PoolSpec closes the module with the shortest honest life of a fof: a    *)
(* client allocates one and either frees it or pushes it on the batch that *)
(* the ctrl client gives back as a chain.                                  *)
(***************************************************************************)
EXTENDS Naturals, FiniteSets

CONSTANTS NFofs,   \* setup.n_max_fofs
          Client,  \* the processes that call jfofs_add
          Ctrl,    \* the JACK process thread of the ctrl client
          FREE     \* owner of the fofs in the free list

Proc == Client \cup {Ctrl}
Fof  == 1..NFofs
NULL == 0
Ptr  == Fof \cup {NULL}

ASSUME PoolAssumption == /\ NFofs \in Nat \ {0}
                         /\ Ctrl \notin Client
                         /\ FREE \notin Proc

VARIABLES
  free_fofs,  \* q->free_fofs, the head of the free list
  next,       \* fof->next of every fof
  pc,         \* where each process is
  fof,        \* the fof a process works on; the head of a chain it gives back
  tail,       \* the last fof of the chain a process gives back
  exp,        \* the value a process read and that its next CAS installs
  own         \* history: who answers for the fof

poolVars == <<free_fofs, next, pc, fof, tail, exp, own>>

Goto(p, from, to) == pc[p] = from /\ pc' = [pc EXCEPT ![p] = to]
Owned(w) == {f \in Fof : own[f] = w}

-----------------------------------------------------------------------------
(* Bug: the loop links the last fof to the one behind the array. *)
PoolInitOverrun ==
  /\ free_fofs = 1
  /\ next = [f \in Fof |-> f + 1]
  /\ pc   = [p \in Proc |-> "idle"]
  /\ fof  = [p \in Proc |-> NULL]
  /\ tail = [p \in Proc |-> NULL]
  /\ exp  = [p \in Proc |-> NULL]
  /\ own  = [f \in Fof |-> FREE]

(* fof_queue_init links the whole array into the free list. *)
PoolInit ==
  /\ free_fofs = 1
  /\ next = [f \in Fof |-> IF f < NFofs THEN f + 1 ELSE NULL]
  /\ pc   = [p \in Proc |-> "idle"]
  /\ fof  = [p \in Proc |-> NULL]
  /\ tail = [p \in Proc |-> NULL]
  /\ exp  = [p \in Proc |-> NULL]
  /\ own  = [f \in Fof |-> FREE]

(* The load of the head.  An empty list ends the call with no fof. *)
AllocLoad(c, from) ==
  /\ Goto(c, from, IF free_fofs = NULL THEN "idle" ELSE "alloc_next")
  /\ fof' = [fof EXCEPT ![c] = free_fofs]
  /\ UNCHANGED <<free_fofs, next, tail, exp, own>>

(* fof->next is read before the compare-and-exchange it is an argument of. *)
AllocNext(c) ==
  /\ Goto(c, "alloc_next", "alloc_cas")
  /\ exp' = [exp EXCEPT ![c] = next[fof[c]]]
  /\ UNCHANGED <<free_fofs, next, fof, tail, own>>

(* Bug: the new head is stored without comparing. *)
AllocCasBlind(c) ==
  /\ Goto(c, "alloc_cas", "allocated")
  /\ free_fofs' = exp[c]
  /\ next' = [next EXCEPT ![fof[c]] = NULL]
  /\ own'  = [own EXCEPT ![fof[c]] = c]
  /\ exp'  = [exp EXCEPT ![c] = NULL]
  /\ UNCHANGED <<fof, tail>>

(* Bug: a failed exchange retries with the values already read. *)
AllocCasStale(c) ==
  /\ pc[c] = "alloc_cas"
  /\ \/ /\ free_fofs = fof[c]
        /\ Goto(c, "alloc_cas", "allocated")
        /\ free_fofs' = exp[c]
        /\ next' = [next EXCEPT ![fof[c]] = NULL]
        /\ own'  = [own EXCEPT ![fof[c]] = c]
        /\ exp'  = [exp EXCEPT ![c] = NULL]
     \/ /\ free_fofs # fof[c]
        /\ UNCHANGED <<pc, free_fofs, next, own, exp>>
  /\ UNCHANGED <<fof, tail>>

(* The compare-and-exchange, with the reset of fof->next that follows its  *)
(* success: nobody but the new owner writes that word.                     *)
AllocCas(c) ==
  /\ pc[c] = "alloc_cas"
  /\ \/ /\ free_fofs = fof[c]
        /\ Goto(c, "alloc_cas", "allocated")
        /\ free_fofs' = exp[c]
        /\ next' = [next EXCEPT ![fof[c]] = NULL]
        /\ own'  = [own EXCEPT ![fof[c]] = c]
     \/ /\ free_fofs # fof[c]
        /\ Goto(c, "alloc_cas", "alloc_load")
        /\ UNCHANGED <<free_fofs, next, own>>
  /\ exp' = [exp EXCEPT ![c] = NULL]
  /\ UNCHANGED <<fof, tail>>

(* Freeing the chain fof[p] .. tail[p]; a single fof is the chain of one.  *)
FreeLoad(p) ==
  /\ Goto(p, "free_load", "free_cas")
  /\ next' = [next EXCEPT ![tail[p]] = free_fofs]
  /\ UNCHANGED <<free_fofs, fof, tail, exp, own>>

(* Bug: the old head was not linked behind the chain that replaces it. *)
FreeCasBlind(p, ret) ==
  /\ Goto(p, "free_cas", ret)
  /\ free_fofs' = fof[p]
  /\ own'  = [f \in Fof |-> IF own[f] = p THEN FREE ELSE own[f]]
  /\ fof'  = [fof EXCEPT ![p] = NULL]
  /\ tail' = [tail EXCEPT ![p] = NULL]
  /\ UNCHANGED <<next, exp>>

(* tail->next is itself the expected value of the compare-and-exchange, so *)
(* a failure overwrites it; the loop then loads the head again.            *)
FreeCas(p, ret) ==
  /\ pc[p] = "free_cas"
  /\ \/ /\ free_fofs = next[tail[p]]
        /\ Goto(p, "free_cas", ret)
        /\ free_fofs' = fof[p]
        /\ own'  = [f \in Fof |-> IF own[f] = p THEN FREE ELSE own[f]]
        /\ fof'  = [fof EXCEPT ![p] = NULL]
        /\ tail' = [tail EXCEPT ![p] = NULL]
        /\ UNCHANGED next
     \/ /\ free_fofs # next[tail[p]]
        /\ Goto(p, "free_cas", "free_load")
        /\ next' = [next EXCEPT ![tail[p]] = free_fofs]
        /\ UNCHANGED <<free_fofs, own, fof, tail>>
  /\ UNCHANGED exp

(* The caller of fof_queue_free_fof(q, fof). *)
Discard(c, from) ==
  /\ Goto(c, from, "free_load")
  /\ tail' = [tail EXCEPT ![c] = fof[c]]

-----------------------------------------------------------------------------
(* The closing environment: a late fof is given back by its client, any    *)
(* other is pushed on the batch the ctrl client collects between two of    *)
(* its own calls.                                                          *)
Late(c) == Discard(c, "allocated") /\ UNCHANGED <<free_fofs, next, fof, exp, own>>

Hand(c) ==
  /\ pc[Ctrl] = "idle"
  /\ Goto(c, "allocated", "idle")
  /\ next' = [next EXCEPT ![fof[c]] = fof[Ctrl]]
  /\ own'  = [own EXCEPT ![fof[c]] = Ctrl]
  /\ fof'  = [fof EXCEPT ![Ctrl] = fof[c], ![c] = NULL]
  /\ tail' = [tail EXCEPT ![Ctrl] = IF fof[Ctrl] = NULL THEN fof[c] ELSE @]
  /\ UNCHANGED <<free_fofs, exp>>

GiveBack ==
  /\ fof[Ctrl] # NULL
  /\ Goto(Ctrl, "idle", "free_load")
  /\ UNCHANGED <<free_fofs, next, fof, tail, exp, own>>

ClientStep(c) == \/ AllocLoad(c, "idle") \/ AllocLoad(c, "alloc_load")
                 \/ AllocNext(c) \/ AllocCas(c)
                 \/ Late(c) \/ Hand(c)
                 \/ FreeLoad(c) \/ FreeCas(c, "idle")

CtrlStep == GiveBack \/ FreeLoad(Ctrl) \/ FreeCas(Ctrl, "idle")

PoolNext == CtrlStep \/ \E c \in Client : ClientStep(c)

PoolSpec == PoolInit /\ [][PoolNext]_poolVars

(* Every process keeps running, and a client decides on a fof it was given. *)
PoolFairness == /\ WF_poolVars(CtrlStep)
                /\ \A c \in Client : WF_poolVars(ClientStep(c) /\ pc[c] # "idle")

-----------------------------------------------------------------------------
(* The fofs that check_free_list of debug.c would visit from p, and        *)
(* whether the walk ends within the size of the pool.                      *)
Walk(p) == LET w[k \in 0..NFofs] == IF k = 0 THEN p
                                    ELSE IF w[k - 1] = NULL THEN NULL
                                    ELSE next[w[k - 1]]
           IN w
Chain(p)  == {Walk(p)[k] : k \in 0..NFofs} \ {NULL}
Ending(p) == Walk(p)[NFofs] = NULL

(* The state components have their types (the fields of fof_queue_t and    *)
(* the locals of the three functions).                                     *)
PoolTypeOK ==
  /\ free_fofs \in Ptr
  /\ next \in [Fof -> Ptr]
  /\ pc \in [Proc -> {"idle", "alloc_load", "alloc_next", "alloc_cas",
                      "allocated", "free_load", "free_cas"}]
  /\ fof \in [Proc -> Ptr] /\ tail \in [Proc -> Ptr] /\ exp \in [Proc -> Ptr]
  /\ own \in [Fof -> Proc \cup {FREE}]

(* The free list holds every fof nobody answers for, each once, and ends:  *)
(* what check_free_list (debug.c) counts.  A fof lost, listed twice or     *)
(* still in use breaks it.                                                 *)
FreeListIntegrity == Ending(free_fofs) /\ Chain(free_fofs) = Owned(FREE)

(* A fof in use is never reached from the free list, neither by its head   *)
(* nor by the link of a free fof: what makes the unlocked pop of           *)
(* fof_queue_allocate_fof safe.                                            *)
NoSharing ==
  /\ free_fofs # NULL => own[free_fofs] = FREE
  /\ \A f \in Owned(FREE) : next[f] # NULL => own[next[f]] = FREE

(* Why the free list stays whole with one client.  No free fof points at   *)
(* the head and no two at the same fof, so that popping the head leaves no *)
(* link to it; what a client read of the head stays true until its         *)
(* exchange, for only the client pops; and the ctrl client's chain is      *)
(* linked like the list it will be put in front of.                        *)
FreeLinks ==
  /\ free_fofs # NULL => own[free_fofs] = FREE
  /\ \A f \in Fof : own[f] = FREE /\ next[f] # NULL =>
                      own[next[f]] = FREE /\ next[f] # free_fofs
  /\ \A f, g \in Fof : own[f] = FREE /\ own[g] = FREE /\ next[f] = next[g]
                         /\ next[f] # NULL => f = g

ClientView(c) ==
  /\ pc[c] \in {"alloc_next", "alloc_cas"} => fof[c] # NULL /\ own[fof[c]] = FREE
  /\ pc[c] = "alloc_cas" => exp[c] = next[fof[c]]
  /\ pc[c] \in {"allocated", "free_load", "free_cas"} => fof[c] # NULL
  /\ pc[c] \in {"free_load", "free_cas"} => tail[c] = fof[c]
  /\ \A f \in Fof : own[f] = c <=>
       pc[c] \in {"allocated", "free_load", "free_cas"} /\ f = fof[c]

CtrlChain ==
  /\ pc[Ctrl] \in {"idle", "free_load", "free_cas"}
  /\ fof[Ctrl] = NULL => pc[Ctrl] = "idle" /\ \A f \in Fof : own[f] # Ctrl
  /\ fof[Ctrl] # NULL => /\ own[fof[Ctrl]] = Ctrl
                         /\ tail[Ctrl] # NULL /\ own[tail[Ctrl]] = Ctrl
  /\ \A f \in Fof : own[f] = Ctrl /\ f # tail[Ctrl] =>
       next[f] # NULL /\ own[next[f]] = Ctrl /\ next[f] # fof[Ctrl]
  /\ \A f, g \in Fof : /\ own[f] = Ctrl /\ f # tail[Ctrl]
                        /\ own[g] = Ctrl /\ g # tail[Ctrl]
                        /\ next[f] = next[g] => f = g

PoolInv == FreeLinks /\ CtrlChain /\ \A c \in Client : ClientView(c)

(* The list implements the ownership of FofOwnership: allocate never hands *)
(* out a fof that is in use, free releases the caller's fofs and no other. *)
Ownership == INSTANCE FofOwnership WITH owner <- own
OwnershipSpec == Ownership!OwnSpec

(* Once every process is at rest and the batch is given back, the list     *)
(* counts n_max_fofs again: the assertions that end test_shmem.c.          *)
AllFreeAtRest ==
  (\A p \in Proc : pc[p] = "idle") /\ fof[Ctrl] = NULL =>
     Ending(free_fofs) /\ Chain(free_fofs) = Fof

(* The retry loops of one client end: the ctrl client can move the head    *)
(* under it only as often as it has fofs to give back.  (The converse does *)
(* not hold: the ctrl client's own loop is lock-free, not wait-free.)      *)
ClientReturns == \A c \in Client : pc[c] # "idle" ~> pc[c] = "idle"
=============================================================================
