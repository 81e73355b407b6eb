----------------------------- MODULE FofOwnership -----------------------------
(***************************************************************************)
(* What the free list of fof_queue.c promises its callers, without the     *)
(* list: a fof is free or has one owner.  A client may take a free fof     *)
(* when it has none, hand its fof to the ctrl client, or give it back; the *)
(* ctrl client gives back everything it collected at once.                 *)
(***************************************************************************)
CONSTANTS Fof, Client, Ctrl, FREE

VARIABLE owner

OwnInit == owner = [f \in Fof |-> FREE]

Holds(p) == \E f \in Fof : owner[f] = p

Take(c) == /\ ~ Holds(c)
           /\ \E f \in Fof : /\ owner[f] = FREE
                             /\ owner' = [owner EXCEPT ![f] = c]

Pass(c) == \E f \in Fof : /\ owner[f] = c
                          /\ owner' = [owner EXCEPT ![f] = Ctrl]

Return(p) == /\ Holds(p)
             /\ owner' = [f \in Fof |-> IF owner[f] = p THEN FREE ELSE owner[f]]

OwnNext == \/ Return(Ctrl)
           \/ \E c \in Client : Take(c) \/ Pass(c) \/ Return(c)

OwnSpec == OwnInit /\ [][OwnNext]_owner
=============================================================================
