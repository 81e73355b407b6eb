------------------------------ MODULE ListLemmas ------------------------------
(***************************************************************************)
(* The singly linked lists of fof_queue.c: what it takes for the fofs of   *)
(* an owner to form one list, and that pushing, popping, taking the whole  *)
(* list and splicing a chain in front of another list keep it so.          *)
(***************************************************************************)
EXTENDS FofPool, FiniteSetTheorems, WellFoundedInduction, TLAPS

(* Under the links nx and the owners ow, the fofs of w are the list from h *)
(* on: the links stay inside it, none leads to the head, no two lead to    *)
(* the same fof, one is NULL, and whatever contains the head and is closed *)
(* under the links contains all of it.                                     *)
List(nx, ow, w, h) ==
  /\ h \in Ptr
  /\ h = NULL => \A f \in Fof : ow[f] # w
  /\ h # NULL => ow[h] = w
  /\ \A f \in Fof : ow[f] = w /\ nx[f] # NULL => ow[nx[f]] = w /\ nx[f] # h
  /\ \A f, g \in Fof : ow[f] = w /\ ow[g] = w /\ nx[f] = nx[g] => f = g
  /\ \A S \in SUBSET Fof :
       h \in S /\ (\A f \in S : ow[f] = w /\ nx[f] # NULL => nx[f] \in S) =>
         \A f \in Fof : ow[f] = w => f \in S

(* The fofs of w are a chain from h to t; where t's link leads is open. *)
Segment(nx, ow, w, h, t) ==
  /\ h \in Fof /\ t \in Fof /\ ow[h] = w /\ ow[t] = w
  /\ \A f \in Fof : ow[f] = w /\ f # t => nx[f] # NULL /\ ow[nx[f]] = w /\ nx[f] # h
  /\ \A f, g \in Fof : ow[f] = w /\ ow[g] = w /\ f # t /\ g # t /\ nx[f] = nx[g] => f = g
  /\ \A S \in SUBSET Fof :
       h \in S /\ (\A f \in S : ow[f] = w /\ f # t => nx[f] \in S) =>
         \A f \in Fof : ow[f] = w => f \in S

(* A list is not changed by what happens to the fofs of others. *)
LEMMA ListFrame ==
  ASSUME NEW nx \in [Fof -> Ptr], NEW nx2 \in [Fof -> Ptr], NEW ow, NEW ow2, NEW w, NEW h,
         List(nx, ow, w, h),
         \A f \in Fof : (ow2[f] = w <=> ow[f] = w) /\ (ow[f] = w => nx2[f] = nx[f])
  PROVE  List(nx2, ow2, w, h)
<1>0. h \in Ptr /\ Ptr = Fof \cup {NULL}
  BY DEF List, Ptr
<1>1. h = NULL => \A f \in Fof : ow2[f] # w
  BY DEF List
<1>2. h # NULL => ow2[h] = w
  BY <1>0 DEF List
<1>3. \A f \in Fof : ow2[f] = w /\ nx2[f] # NULL => ow2[nx2[f]] = w /\ nx2[f] # h
  BY <1>0 DEF List
<1>4. \A f, g \in Fof : ow2[f] = w /\ ow2[g] = w /\ nx2[f] = nx2[g] => f = g
  BY DEF List
<1>5. ASSUME NEW S \in SUBSET Fof, h \in S,
             \A f \in S : ow2[f] = w /\ nx2[f] # NULL => nx2[f] \in S
      PROVE  \A f \in Fof : ow2[f] = w => f \in S
  <2>1. \A f \in S : ow[f] = w /\ nx[f] # NULL => nx[f] \in S
    BY <1>5
  <2> QED
    BY <1>5, <2>1 DEF List
<1> QED
  BY <1>0, <1>1, <1>2, <1>3, <1>4, <1>5 DEF List

(* The same for a chain; even its tail's link may change. *)
LEMMA SegmentFrame ==
  ASSUME NEW nx \in [Fof -> Ptr], NEW nx2 \in [Fof -> Ptr], NEW ow, NEW ow2, NEW w, NEW h, NEW t,
         Segment(nx, ow, w, h, t),
         \A f \in Fof : (ow2[f] = w <=> ow[f] = w) /\ (ow[f] = w /\ f # t => nx2[f] = nx[f])
  PROVE  Segment(nx2, ow2, w, h, t)
<1>0. Ptr = Fof \cup {NULL}
  BY DEF Ptr
<1>1. h \in Fof /\ t \in Fof /\ ow2[h] = w /\ ow2[t] = w
  BY DEF Segment
<1>2. \A f \in Fof : ow2[f] = w /\ f # t => nx2[f] # NULL /\ ow2[nx2[f]] = w /\ nx2[f] # h
  BY <1>0 DEF Segment
<1>3. \A f, g \in Fof : ow2[f] = w /\ ow2[g] = w /\ f # t /\ g # t /\ nx2[f] = nx2[g] => f = g
  BY DEF Segment
<1>4. ASSUME NEW S \in SUBSET Fof, h \in S,
             \A f \in S : ow2[f] = w /\ f # t => nx2[f] \in S
      PROVE  \A f \in Fof : ow2[f] = w => f \in S
  <2>1. \A f \in S : ow[f] = w /\ f # t => nx[f] \in S
    BY <1>4
  <2> QED
    BY <1>4, <2>1 DEF Segment
<1> QED
  BY <1>1, <1>2, <1>3, <1>4 DEF Segment

(* An owner without fofs has the empty list. *)
LEMMA EmptyList ==
  ASSUME NEW nx, NEW ow, NEW w, \A f \in Fof : ow[f] # w
  PROVE  List(nx, ow, w, NULL)
BY DEF List, Ptr

(* Pushing f, whose link is the head, on the list of w. *)
LEMMA ListPush ==
  ASSUME NEW nx \in [Fof -> Ptr], NEW ow, NEW ow2, NEW w, NEW f \in Fof, List(nx, ow, w, nx[f]),
         ow[f] # w, ow2[f] = w, \A g \in Fof \ {f} : ow2[g] = ow[g]
  PROVE  List(nx, ow2, w, f)
<1>0. f \in Ptr /\ f # NULL /\ Ptr = Fof \cup {NULL} /\ nx[f] \in Ptr /\ NULL \notin Fof
  BY DEF Ptr, Fof, NULL
<1>2. \A g \in Fof : ow2[g] = w /\ nx[g] # NULL => ow2[nx[g]] = w /\ nx[g] # f
  BY <1>0 DEF List
<1>3. \A g, e \in Fof : ow2[g] = w /\ ow2[e] = w /\ nx[g] = nx[e] => g = e
  BY <1>0 DEF List
<1>4. ASSUME NEW S \in SUBSET Fof, f \in S,
             \A g \in S : ow2[g] = w /\ nx[g] # NULL => nx[g] \in S
      PROVE  \A g \in Fof : ow2[g] = w => g \in S
  <2>1. CASE nx[f] = NULL
    BY <1>4, <2>1 DEF List
  <2>2. CASE nx[f] # NULL
    <3>1. nx[f] \in S
      BY <1>4, <2>2
    <3>2. \A g \in S : ow[g] = w /\ nx[g] # NULL => nx[g] \in S
      BY <1>4
    <3> QED
      BY <1>4, <3>1, <3>2 DEF List
  <2> QED
    BY <2>1, <2>2
<1> QED
  BY <1>0, <1>2, <1>3, <1>4 DEF List

(* Popping the head of the list of w. *)
LEMMA ListPop ==
  ASSUME NEW nx \in [Fof -> Ptr], NEW nx2 \in [Fof -> Ptr], NEW ow, NEW ow2, NEW w,
         NEW h \in Fof, List(nx, ow, w, h), ow2[h] # w,
         \A g \in Fof \ {h} : ow2[g] = ow[g] /\ nx2[g] = nx[g]
  PROVE  List(nx2, ow2, w, nx[h])
<1>0. nx[h] \in Ptr /\ h # NULL /\ Ptr = Fof \cup {NULL} /\ NULL \notin Fof /\ ow[h] = w
  BY DEF Ptr, Fof, NULL, List
<1>2. \A g \in Fof : ow2[g] = w /\ nx2[g] # NULL => ow2[nx2[g]] = w /\ nx2[g] # nx[h]
  BY <1>0 DEF List
<1>3. \A g, e \in Fof : ow2[g] = w /\ ow2[e] = w /\ nx2[g] = nx2[e] => g = e
  BY <1>0 DEF List
<1>4. ASSUME NEW S \in SUBSET Fof,
             nx[h] \in S \/ nx[h] = NULL,
             \A g \in S : ow2[g] = w /\ nx2[g] # NULL => nx2[g] \in S
      PROVE  \A g \in Fof : ow2[g] = w => g \in S
  <2>1. S \cup {h} \in SUBSET Fof /\ h \in S \cup {h}
    OBVIOUS
  <2>2. \A g \in S \cup {h} : ow[g] = w /\ nx[g] # NULL => nx[g] \in S \cup {h}
    BY <1>4
  <2>3. \A g \in Fof : ow[g] = w => g \in S \cup {h}
    BY <2>1, <2>2 DEF List
  <2> QED
    BY <2>3
<1>5. nx[h] = NULL => \A g \in Fof : ow2[g] # w
  <2>1. {} \in SUBSET Fof
    OBVIOUS
  <2> QED
    BY <1>4, <2>1
<1>6. nx[h] # NULL => ow2[nx[h]] = w
  BY <1>0 DEF List
<1> QED
  BY <1>0, <1>2, <1>3, <1>4, <1>5, <1>6 DEF List

(* An exchange with NULL hands the whole list of w to v, who had nothing.  *)
LEMMA ListTake ==
  ASSUME NEW nx \in [Fof -> Ptr], NEW ow, NEW ow2, NEW w, NEW v, NEW h, List(nx, ow, w, h), v # w,
         \A f \in Fof : ow[f] # v,
         \A f \in Fof : ow2[f] = IF ow[f] = w THEN v ELSE ow[f]
  PROVE  List(nx, ow2, v, h) /\ List(nx, ow2, w, NULL)
<1>1. \A f \in Fof : ow2[f] = v <=> ow[f] = w
  OBVIOUS
<1>2. List(nx, ow2, w, NULL)
  BY EmptyList
<1>3. h \in Ptr /\ Ptr = Fof \cup {NULL}
  BY DEF List, Ptr
<1>4. ASSUME NEW S \in SUBSET Fof, h \in S,
             \A f \in S : ow2[f] = v /\ nx[f] # NULL => nx[f] \in S
      PROVE  \A f \in Fof : ow2[f] = v => f \in S
  <2>1. \A f \in S : ow[f] = w /\ nx[f] # NULL => nx[f] \in S
    BY <1>1, <1>4
  <2> QED
    BY <1>1, <1>4, <2>1 DEF List
<1>5. \A f \in Fof : ow2[f] = v /\ nx[f] # NULL => ow2[nx[f]] = v /\ nx[f] # h
  BY <1>1, <1>3 DEF List
<1>6. \A f, g \in Fof : ow2[f] = v /\ ow2[g] = v /\ nx[f] = nx[g] => f = g
  BY <1>1 DEF List
<1>7. List(nx, ow2, v, h)
  BY <1>1, <1>3, <1>4, <1>5, <1>6 DEF List
<1> QED
  BY <1>2, <1>7

(* A list that is not empty is the chain from its head to the fof whose    *)
(* link is NULL.                                                           *)
LEMMA ListSegment ==
  ASSUME NEW nx \in [Fof -> Ptr], NEW ow, NEW w, NEW h \in Fof, NEW t \in Fof,
         List(nx, ow, w, h), ow[t] = w, nx[t] = NULL
  PROVE  Segment(nx, ow, w, h, t)
<1>0. h # NULL /\ ow[h] = w
  BY DEF List, Fof, NULL
<1>1. \A f \in Fof : ow[f] = w /\ f # t => nx[f] # NULL
  BY DEF List
<1> QED
  BY <1>0, <1>1 DEF List, Segment

(* A single fof is a chain. *)
LEMMA SingleSegment ==
  ASSUME NEW nx, NEW ow, NEW w, NEW h \in Fof, \A f \in Fof : ow[f] = w <=> f = h
  PROVE  Segment(nx, ow, w, h, h)
BY DEF Segment

(* Pushing f, whose new link is the head, on the chain of w. *)
LEMMA SegmentPush ==
  ASSUME NEW nx \in [Fof -> Ptr], NEW nx2 \in [Fof -> Ptr], NEW ow, NEW ow2, NEW w, NEW h, NEW t,
         NEW f \in Fof, Segment(nx, ow, w, h, t), ow[f] # w, ow2[f] = w, nx2[f] = h,
         \A g \in Fof \ {f} : ow2[g] = ow[g] /\ nx2[g] = nx[g]
  PROVE  Segment(nx2, ow2, w, f, t)
<1>0. h \in Fof /\ t \in Fof /\ t # f /\ h # f /\ h # NULL /\ Ptr = Fof \cup {NULL}
      /\ ow2[t] = w /\ ow2[h] = w
  BY DEF Segment, Fof, NULL, Ptr
<1>1. \A g \in Fof : ow2[g] = w /\ g # t => nx2[g] # NULL /\ ow2[nx2[g]] = w /\ nx2[g] # f
  BY <1>0 DEF Segment
<1>2. \A g, e \in Fof : ow2[g] = w /\ ow2[e] = w /\ g # t /\ e # t /\ nx2[g] = nx2[e] => g = e
  BY <1>0 DEF Segment
<1>3. ASSUME NEW S \in SUBSET Fof, f \in S, \A g \in S : ow2[g] = w /\ g # t => nx2[g] \in S
      PROVE  \A g \in Fof : ow2[g] = w => g \in S
  <2>1. h \in S
    BY <1>0, <1>3
  <2>2. \A g \in S : ow[g] = w /\ g # t => nx[g] \in S
    BY <1>3
  <2> QED
    BY <1>3, <2>1, <2>2 DEF Segment
<1> QED
  BY <1>0, <1>1, <1>2, <1>3 DEF Segment

(* Splicing the chain of p in front of the list of w. *)
LEMMA ListSplice ==
  ASSUME NEW nx \in [Fof -> Ptr], NEW ow, NEW ow2, NEW w, NEW p, NEW h, NEW t,
         Segment(nx, ow, p, h, t), List(nx, ow, w, nx[t]), p # w,
         \A f \in Fof : ow2[f] = IF ow[f] = p THEN w ELSE ow[f]
  PROVE  List(nx, ow2, w, h)
<1>0. /\ h \in Ptr /\ h # NULL /\ Ptr = Fof \cup {NULL} /\ NULL \notin Fof /\ h \in Fof /\ t \in Fof
      /\ ow[h] = p /\ ow[t] = p /\ ow2[h] = w
  BY DEF Ptr, Fof, NULL, Segment
<1>1. \A f \in Fof : ow2[f] = w <=> ow[f] = w \/ ow[f] = p
  OBVIOUS
<1>2. \A f \in Fof : ow2[f] = w /\ nx[f] # NULL => ow2[nx[f]] = w /\ nx[f] # h
  BY <1>0, <1>1 DEF Segment, List
<1>3. \A f, g \in Fof : ow2[f] = w /\ ow2[g] = w /\ nx[f] = nx[g] => f = g
  BY <1>0, <1>1 DEF Segment, List
<1>4. ASSUME NEW S \in SUBSET Fof, h \in S,
             \A f \in S : ow2[f] = w /\ nx[f] # NULL => nx[f] \in S
      PROVE  \A f \in Fof : ow2[f] = w => f \in S
  <2>1. \A f \in S : ow[f] = p /\ f # t => nx[f] \in S
    BY <1>1, <1>4 DEF Segment
  <2>2. \A f \in Fof : ow[f] = p => f \in S
    BY <1>4, <2>1 DEF Segment
  <2>3. t \in S
    BY <1>0, <2>2
  <2>4. \A f \in S : ow[f] = w /\ nx[f] # NULL => nx[f] \in S
    BY <1>1, <1>4
  <2>5. CASE nx[t] = NULL
    BY <1>1, <2>2, <2>5 DEF List
  <2>6. CASE nx[t] # NULL
    <3>1. nx[t] \in S
      BY <1>0, <1>1, <1>4, <2>3, <2>6
    <3>2. \A f \in Fof : ow[f] = w => f \in S
      BY <2>4, <3>1 DEF List
    <3> QED
      BY <1>1, <2>2, <3>2
  <2> QED
    BY <2>5, <2>6
<1> QED
  BY <1>0, <1>2, <1>3, <1>4 DEF List

-----------------------------------------------------------------------------
(*                    The walk of check_free_list (debug.c)                *)

(* A set of natural numbers that is not empty has a least one. *)
LEMMA LeastNumber ==
  ASSUME NEW D \in SUBSET Nat, D # {}
  PROVE  \E n \in D : \A m \in D : n <= m
<1>1. PICK n \in D : \A m \in D : ~ (<<m, n>> \in OpToRel(<, Nat))
  BY NatLessThanWellFounded, WFMin, Zenon
<1>2. \A m \in D : ~ (m < n)
  BY <1>1 DEF OpToRel
<1> QED
  BY <1>2

(* g is the walk from p, as far as n links. *)
Walks(p, n, g) ==
  /\ g \in [0..n -> Ptr] /\ g[0] = p
  /\ \A k \in 1..n : g[k] = IF g[k - 1] = NULL THEN NULL ELSE next[g[k - 1]]

(* A walk goes on for any number of links. *)
LEMMA WalkExists ==
  ASSUME next \in [Fof -> Ptr], NEW p \in Ptr, NEW n \in Nat
  PROVE  \E g : Walks(p, n, g)
<1> DEFINE D == {m \in Nat : ~ \E g : Walks(p, m, g)}
<1> SUFFICES ASSUME n \in D PROVE FALSE
  OBVIOUS
<1>1. PICK m \in D : \A k \in D : m <= k
  BY LeastNumber
<1>2. CASE m = 0
  <2>1. Walks(p, 0, [k \in 0..0 |-> p])
    BY DEF Walks
  <2> QED
    BY <1>1, <1>2, <2>1
<1>3. CASE m # 0
  <2>1. m - 1 \in Nat /\ m - 1 \notin D
    BY <1>1, <1>3
  <2>2. PICK g : Walks(p, m - 1, g)
    BY <2>1
  <2> DEFINE h == [k \in 0..m |-> IF k < m THEN g[k]
                                  ELSE IF g[m - 1] = NULL THEN NULL ELSE next[g[m - 1]]]
  <2>3. \A k \in 0..m - 1 : g[k] \in Ptr
    BY <2>2 DEF Walks
  <2>4. h \in [0..m -> Ptr]
    <3>1. \A k \in 0..m : k < m => k \in 0..m - 1
      BY <2>1
    <3>2. m - 1 \in 0..m - 1
      BY <2>1
    <3>3. (IF g[m - 1] = NULL THEN NULL ELSE next[g[m - 1]]) \in Ptr
      BY <2>3, <3>2 DEF Ptr
    <3> QED
      BY <2>3, <3>1, <3>3
  <2>5. h[0] = p
    BY <1>3, <2>1, <2>2 DEF Walks
  <2>6. ASSUME NEW k \in 1..m PROVE h[k] = IF h[k - 1] = NULL THEN NULL ELSE next[h[k - 1]]
    <3>1. h[k - 1] = g[k - 1]
      BY <2>1, <2>6
    <3>2. CASE k = m
      BY <3>1, <3>2
    <3>3. CASE k # m
      BY <2>1, <2>2, <2>6, <3>1, <3>3 DEF Walks
    <3> QED
      BY <3>2, <3>3
  <2>7. Walks(p, m, h)
    BY <2>4, <2>5, <2>6 DEF Walks
  <2> QED
    BY <1>1, <2>7
<1> QED
  BY <1>2, <1>3

(* Walk is the walk. *)
LEMMA WalkWalks ==
  ASSUME next \in [Fof -> Ptr], NEW p \in Ptr
  PROVE  Walks(p, NFofs, Walk(p))
<1> DEFINE E(g) == [k \in 0..NFofs |-> IF k = 0 THEN p
                                       ELSE IF g[k - 1] = NULL THEN NULL ELSE next[g[k - 1]]]
<1>0. NFofs \in Nat
  BY PoolAssumption
<1>1. PICK g : Walks(p, NFofs, g)
  BY <1>0, WalkExists
<1>2. g = E(g)
  BY <1>0, <1>1 DEF Walks
<1>3. Walk(p) = E(Walk(p))
  BY <1>2 DEF Walk
<1>4. ASSUME NEW f, f = E(f) PROVE Walks(p, NFofs, f)
  <2> DEFINE D == {k \in 0..NFofs : f[k] \notin Ptr}
  <2>1. f[0] = p
    BY <1>0, <1>4
  <2>2. \A k \in 1..NFofs : f[k] = IF f[k - 1] = NULL THEN NULL ELSE next[f[k - 1]]
    BY <1>0, <1>4
  <2>3. ASSUME D # {} PROVE FALSE
    <3>1. D \in SUBSET Nat
      BY <1>0
    <3>2. PICK k \in D : \A m \in D : k <= m
      BY <2>3, <3>1, LeastNumber
    <3>3. k # 0
      BY <2>1
    <3>4. k - 1 \in 0..NFofs /\ k \in 1..NFofs /\ k - 1 \notin D
      BY <1>0, <3>2, <3>3
    <3>5. f[k - 1] \in Ptr
      BY <3>4
    <3>6. f[k] \in Ptr
      BY <2>2, <3>4, <3>5 DEF Ptr
    <3> QED
      BY <3>6
  <2>4. f \in [0..NFofs -> Ptr]
    BY <1>4, <2>3
  <2> QED
    BY <2>1, <2>2, <2>4 DEF Walks
<1> HIDE DEF E
<1> QED
  BY <1>3, <1>4

(* The walk from the head of a list stays in it. *)
LEMMA WalkOwned ==
  ASSUME next \in [Fof -> Ptr], NEW w, NEW h, List(next, own, w, h), NEW g, Walks(h, NFofs, g)
  PROVE  \A k \in 0..NFofs : g[k] # NULL => own[g[k]] = w
<1>0. NFofs \in Nat /\ Ptr = Fof \cup {NULL}
  BY PoolAssumption DEF Ptr
<1>2. /\ g \in [0..NFofs -> Ptr] /\ g[0] = h
      /\ \A k \in 1..NFofs : g[k] = IF g[k - 1] = NULL THEN NULL ELSE next[g[k - 1]]
  BY DEF Walks
<1> DEFINE D == {k \in 0..NFofs : g[k] # NULL /\ own[g[k]] # w}
<1>3. ASSUME D # {} PROVE FALSE
  <2>1. D \in SUBSET Nat
    BY <1>0
  <2>2. PICK k \in D : \A m \in D : k <= m
    BY <1>3, <2>1, LeastNumber
  <2>3. k # 0
    BY <1>2 DEF List
  <2>4. k - 1 \in 0..NFofs /\ k \in 1..NFofs /\ k - 1 \notin D
    BY <1>0, <2>2, <2>3
  <2>5. g[k - 1] \in Fof /\ own[g[k - 1]] = w /\ g[k] = next[g[k - 1]]
    BY <1>0, <1>2, <2>4
  <2>6. own[g[k]] = w
    BY <2>5 DEF List
  <2> QED
    BY <2>6
<1> QED
  BY <1>3

(* No fof comes twice: the second visit would be preceded by a second      *)
(* visit of its predecessor, and at last by a link to the head.            *)
LEMMA WalkOnce ==
  ASSUME next \in [Fof -> Ptr], NEW w, NEW h, List(next, own, w, h), NEW g, Walks(h, NFofs, g)
  PROVE  \A x, y \in 0..NFofs : x # y /\ g[x] # NULL => g[x] # g[y]
<1>0. NFofs \in Nat /\ Ptr = Fof \cup {NULL}
  BY PoolAssumption DEF Ptr
<1>2. /\ g \in [0..NFofs -> Ptr] /\ g[0] = h
      /\ \A k \in 1..NFofs : g[k] = IF g[k - 1] = NULL THEN NULL ELSE next[g[k - 1]]
  BY DEF Walks
<1>3. ASSUME NEW k \in 1..NFofs, g[k] # NULL
      PROVE  /\ k - 1 \in 0..NFofs /\ g[k - 1] # NULL /\ g[k - 1] \in Fof
             /\ own[g[k - 1]] = w /\ g[k] = next[g[k - 1]]
  <2>1. k - 1 \in 0..NFofs /\ k - 1 \in Nat
    BY <1>0
  <2>2. g[k - 1] # NULL /\ g[k - 1] \in Fof /\ g[k] = next[g[k - 1]]
    BY <1>0, <1>2, <1>3, <2>1
  <2> QED
    BY <2>1, <2>2, WalkOwned
<1> DEFINE D == {k \in 0..NFofs : g[k] # NULL /\ \E j \in 0..NFofs : k < j /\ g[k] = g[j]}
<1>4. ASSUME D # {} PROVE FALSE
  <2>6. D \in SUBSET Nat
    BY <1>0
  <2>7. PICK k \in D : \A m \in D : k <= m
    BY <1>4, <2>6, LeastNumber
  <2>8. PICK j \in 0..NFofs : k < j /\ g[k] = g[j] /\ g[k] # NULL
    BY <2>7
  <2>9. j \in 1..NFofs
    BY <1>0, <2>7, <2>8
  <2>10. CASE k = 0
    <3>1. own[g[j - 1]] = w /\ g[j] = next[g[j - 1]] /\ g[j - 1] \in Fof
      BY <1>3, <2>8, <2>9
    <3> QED
      BY <1>2, <2>8, <2>10, <3>1 DEF List
  <2>11. CASE k # 0
    <3>0. k \in 1..NFofs /\ k - 1 < j - 1
      BY <1>0, <2>7, <2>8, <2>11
    <3>1. k - 1 \in 0..NFofs /\ g[k] = next[g[k - 1]] /\ own[g[k - 1]] = w /\ g[k - 1] \in Fof
          /\ g[k - 1] # NULL
      BY <1>3, <2>8, <3>0
    <3>2. j - 1 \in 0..NFofs /\ g[j] = next[g[j - 1]] /\ own[g[j - 1]] = w /\ g[j - 1] \in Fof
      BY <1>3, <2>8, <2>9
    <3>3. g[k - 1] = g[j - 1]
      BY <2>8, <3>1, <3>2 DEF List
    <3>4. k - 1 \in D
      BY <3>0, <3>1, <3>2, <3>3
    <3>5. k \in Nat /\ ~ (k <= k - 1)
      BY <2>6, <2>7
    <3> QED
      BY <2>7, <3>4, <3>5
  <2> QED
    BY <2>10, <2>11
<1>5. ASSUME NEW x \in 0..NFofs, NEW y \in 0..NFofs, x # y, g[x] # NULL, g[x] = g[y]
      PROVE  FALSE
  <2>1. CASE x < y
    BY <1>4, <1>5, <2>1
  <2>2. CASE y < x
    BY <1>4, <1>5, <2>2
  <2> QED
    BY <1>0, <1>5, <2>1, <2>2
<1> QED
  BY <1>5

(* The walk from the head of a list ends, having visited all of it and     *)
(* nothing else.                                                           *)
LEMMA ListWalk ==
  ASSUME next \in [Fof -> Ptr], NEW w, NEW h, List(next, own, w, h)
  PROVE  Ending(h) /\ Chain(h) = Owned(w)
<1>0. h \in Ptr /\ NFofs \in Nat /\ Ptr = Fof \cup {NULL} /\ NULL \notin Fof
  BY PoolAssumption DEF List, Ptr, Fof, NULL
<1> DEFINE g == Walk(h)
<1>1. Walks(h, NFofs, g)
  BY <1>0, WalkWalks
<1> HIDE DEF g
<1>2. /\ g \in [0..NFofs -> Ptr] /\ g[0] = h
      /\ \A k \in 1..NFofs : g[k] = IF g[k - 1] = NULL THEN NULL ELSE next[g[k - 1]]
  BY <1>1 DEF Walks
<1>3. \A k \in 0..NFofs : g[k] # NULL => own[g[k]] = w
  BY <1>1, WalkOwned
<1>4. ASSUME g[NFofs] # NULL PROVE FALSE
  <2>1. \A k \in 0..NFofs : g[k] # NULL
    <3> DEFINE D == {j \in 0..NFofs : g[NFofs - j] = NULL}
    <3>1. ASSUME D # {} PROVE FALSE
      <4>1. D \in SUBSET Nat
        BY <1>0
      <4>2. PICK j \in D : \A m \in D : j <= m
        BY <3>1, <4>1, LeastNumber
      <4>3. j # 0
        BY <1>0, <1>4
      <4>4. j - 1 \in 0..NFofs /\ NFofs - (j - 1) \in 1..NFofs /\ (NFofs - (j - 1)) - 1 = NFofs - j
            /\ j - 1 \notin D
        BY <1>0, <4>2, <4>3
      <4>5. g[NFofs - (j - 1)] = NULL
        BY <1>2, <4>2, <4>4
      <4> QED
        BY <4>4, <4>5
    <3>2. ASSUME NEW k \in 0..NFofs PROVE g[k] # NULL
      <4>1. NFofs - k \in 0..NFofs /\ NFofs - (NFofs - k) = k
        BY <1>0
      <4> QED
        BY <3>1, <4>1
    <3> QED
      BY <3>2
  <2>2. g \in [0..NFofs -> Fof]
    BY <1>0, <1>2, <2>1
  <2>4. PICK x, y \in 0..NFofs : x # y /\ g[x] = g[y]
    <3>1. IsFiniteSet(0..NFofs) /\ Cardinality(0..NFofs) = NFofs + 1
      BY <1>0, FS_Interval
    <3>2. IsFiniteSet(Fof) /\ Cardinality(Fof) = NFofs
      BY PoolAssumption, FS_Interval DEF Fof
    <3> QED
      BY <1>0, <2>2, <3>1, <3>2, FS_PigeonHole
  <2> QED
    BY <1>1, <2>1, <2>4, WalkOnce
<1>5. {g[k] : k \in 0..NFofs} \ {NULL} = Owned(w)
  <2> DEFINE S == {g[k] : k \in 0..NFofs} \ {NULL}
  <2>1. S \subseteq Owned(w) /\ S \in SUBSET Fof
    BY <1>0, <1>2, <1>3 DEF Owned
  <2>2. CASE h = NULL
    BY <2>1, <2>2 DEF List, Owned
  <2>3. CASE h # NULL
    <3>1. h \in S
      BY <1>0, <1>2, <2>3
    <3>2. ASSUME NEW f \in S, own[f] = w, next[f] # NULL PROVE next[f] \in S
      <4>1. PICK k \in 0..NFofs : f = g[k] /\ f # NULL
        BY <3>2
      <4>2. k + 1 \in 1..NFofs /\ (k + 1) - 1 = k /\ k + 1 \in 0..NFofs
        BY <1>0, <1>4, <4>1
      <4>3. g[k + 1] = next[f]
        BY <1>2, <4>1, <4>2
      <4> QED
        BY <3>2, <4>2, <4>3
    <3>3. \A f \in Fof : own[f] = w => f \in S
      <4> HIDE DEF S
      <4> QED
        BY <2>1, <3>1, <3>2 DEF List
    <3> QED
      BY <2>1, <3>3 DEF Owned
  <2> QED
    BY <2>2, <2>3
<1> QED
  BY <1>4, <1>5 DEF Ending, Chain, g

(* The list that fof_queue_init links holds the whole array. *)
LEMMA InitList ==
  ASSUME PoolInit
  PROVE  List(next, own, FREE, free_fofs)
<1>0. /\ NFofs \in Nat \ {0} /\ free_fofs = 1 /\ NULL = 0 /\ Fof = 1..NFofs /\ Ptr = Fof \cup {NULL}
      /\ next = [f \in Fof |-> IF f < NFofs THEN f + 1 ELSE NULL] /\ own = [f \in Fof |-> FREE]
  BY PoolAssumption DEF PoolInit, Fof, NULL, Ptr
<1>1. 1 \in Fof /\ \A f \in Fof : next[f] # NULL => next[f] \in Fof /\ next[f] # 1
  BY <1>0
<1>2. \A f, g \in Fof : next[f] = next[g] => f = g
  BY <1>0
<1>3. ASSUME NEW S \in SUBSET Fof, 1 \in S,
             \A f \in S : own[f] = FREE /\ next[f] # NULL => next[f] \in S
      PROVE  \A f \in Fof : f \in S
  <2> DEFINE D == Fof \ S
  <2>1. ASSUME D # {} PROVE FALSE
    <3>1. D \in SUBSET Nat
      BY <1>0
    <3>2. PICK k \in D : \A m \in D : k <= m
      BY <2>1, <3>1, LeastNumber
    <3>3. k - 1 \in Fof /\ k - 1 \notin D /\ next[k - 1] = k
      BY <1>0, <1>3, <3>2
    <3>4. k \in S
      BY <1>0, <1>3, <3>3
    <3> QED
      BY <3>4
  <2> QED
    BY <2>1
<1>4. (\A f \in Fof : own[f] = FREE) /\ free_fofs \in Fof /\ free_fofs # NULL /\ free_fofs \in Ptr
  BY <1>0, <1>1
<1> QED
  <2>1. \A f \in Fof : own[f] = FREE /\ next[f] # NULL => own[next[f]] = FREE /\ next[f] # free_fofs
    BY <1>0, <1>1, <1>4
  <2>2. \A S \in SUBSET Fof :
          free_fofs \in S /\ (\A f \in S : own[f] = FREE /\ next[f] # NULL => next[f] \in S) =>
            \A f \in Fof : own[f] = FREE => f \in S
    BY <1>0, <1>3
  <2> QED
    BY <1>2, <1>4, <2>1, <2>2 DEF List
=============================================================================
