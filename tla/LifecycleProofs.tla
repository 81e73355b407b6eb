--------------------------- MODULE LifecycleProofs ---------------------------
(***************************************************************************)
(* A server's clients, callbacks and shared memory through starts, ends    *)
(* and crashes, for every number of dsp clients, API clients and starts:   *)
(* proofs about module Lifecycle.                                          *)
(***************************************************************************)
EXTENDS Lifecycle, SequenceTheorems, FiniteSetTheorems, TLAPS

Creating   == {"open", "header", "setup", "ctrl", "mix", "init", "dsp", "activate_mix"}
Activating == {"activate_dsp", "activate_ctrl"}
Connecting == {"connect", "connect_mix"}
Freeing    == {"deactivate_dsp", "deactivate_mix", "free_mix", "free_dsp", "free_ctrl", "exit"}
ServerPc   == {"down", "running", "deactivate_ctrl"}
                \cup Creating \cup Activating \cup Connecting \cup Freeing
ClientPc   == {"idle", "map", "load", "count", "linked", "unload", "uncount", "dead"}

Connection == [pc : ClientPc, seg : Nat, refs : Int, calls : Nat, given : BOOLEAN]
Segment == [base : BOOLEAN, init : BOOLEAN, refs : Int, clean : BOOLEAN, lost : Nat]

TypeOK ==
  /\ name \in 0..Len(seg) /\ seg \in Seq(Segment)
  /\ server \in [pc : ServerPc, i : Dsp]
  /\ node \in [Node -> {"none", "made", "active"}] /\ active \in BOOLEAN
  /\ wired \subseteq Dsp /\ mixed \subseteq Dsp /\ cb \subseteq Node
  /\ client \in [Client -> Connection]

(* A callback runs only for an active client: jack_deactivate waits for it. *)
RunsActive == \A n \in cb : node[n] = "active"

(* How far the clients are made and activated, by where the main thread is. *)
Nodes ==
  /\ server.pc \in {"down"} \cup Creating => \A n \in Node : node[n] # "active"
  /\ server.pc \in {"down", "open", "header", "setup", "ctrl"} =>
       \A n \in Node : node[n] = "none"
  /\ server.pc \in {"mix", "init"} => \A d \in Dsp : node[d] = "none"
  /\ server.pc = "dsp" => \A d \in Dsp : d >= server.i => node[d] = "none"
  /\ server.pc \notin Connecting \cup {"running", "deactivate_ctrl"} => node[Ctrl] # "active"
  /\ server.pc \in Activating \cup Connecting \cup {"running"} => node[Mix] = "active"
  /\ server.pc = "activate_dsp" => \A d \in Dsp : d < server.i => node[d] = "active"
  /\ server.pc \in {"activate_ctrl", "running"} \cup Connecting =>
       \A d \in Dsp : node[d] = "active"
  /\ server.pc \in Connecting \cup {"running"} => node[Ctrl] = "active" /\ active
  /\ node[Ctrl] = "active" => \A d \in Dsp : node[d] # "none"
  /\ server.pc = "free_dsp" => node[Mix] = "none" /\ \A d \in Dsp : d < server.i => node[d] = "none"
  /\ server.pc \in {"free_ctrl", "exit"} => \A n \in Node \ {Ctrl} : node[n] = "none"
  /\ server.pc = "exit" => node[Ctrl] = "none"

(* Which ports are connected. *)
Ports ==
  /\ server.pc \in {"down"} \cup Creating \cup Activating => wired = {} /\ mixed = {}
  /\ server.pc = "connect" => wired = 1..server.i - 1 /\ mixed = {}
  /\ server.pc = "connect_mix" => wired = Dsp /\ mixed = 1..server.i - 1
  /\ server.pc = "running" => wired = Dsp /\ mixed = Dsp

(* The name stands for the last segment from shm_open to manager_free, and *)
(* the segment's queue is ready once manager_new has made it.              *)
Named ==
  /\ server.pc \notin {"down", "open", "exit"} => Len(seg) > 0 /\ name = Len(seg)
  /\ server.pc \in {"open", "exit"} => name = 0
  /\ server.pc \in {"dsp", "activate_mix", "running"} \cup Activating \cup Connecting =>
       seg[Mine].init
  /\ server.pc \in {"header", "setup", "ctrl", "mix", "init"} => ~ seg[Mine].init

ServerInv == TypeOK /\ RunsActive /\ Nodes /\ Ports /\ Named

(* c is about to store the count of segment s; the clients s counts. *)
Storing(c, s) == client[c].seg = s /\ client[c].pc \in {"count", "uncount"}
CountedAt(s) == {c \in Client : client[c].seg = s /\ Counted(c)}

(* A client in a call has a segment; one that was given the memory ends    *)
(* with the server that gave it.                                           *)
Clients ==
  /\ \A c \in Client : client[c].pc \notin {"idle", "dead"} => client[c].seg \in 1..Len(seg)
  /\ \A c \in Client : client[c].pc = "idle" => ~ client[c].given
  /\ \A c \in Client : client[c].given => client[c].seg \in 1..Len(seg)
  /\ \A c \in Client : client[c].given /\ client[c].pc # "dead" =>
       /\ client[c].seg = Mine
       /\ server.pc \in {"running", "deactivate_ctrl"} \cup Freeing

(* The count is right; a client about to store has read the value it will  *)
(* replace and is alone in this; nobody counts before the queue is ready.  *)
CountRight(s) ==
  /\ seg[s].refs = seg[s].lost + Cardinality(CountedAt(s))
  /\ \A c \in Client : Storing(c, s) => client[c].refs = seg[s].refs
  /\ \A c, d \in Client : Storing(c, s) /\ Storing(d, s) => c = d
  /\ ~ seg[s].init => /\ seg[s].lost = 0 /\ CountedAt(s) = {}
                      /\ \A c \in Client : ~ Storing(c, s)
Counts == \A s \in 1..Len(seg) : seg[s].clean => CountRight(s)

-----------------------------------------------------------------------------
(* The numbers of the JACK clients are distinct. *)
LEMMA NodeFacts ==
  /\ 1 \in Dsp /\ Dsp \subseteq Node /\ Ctrl \in Node /\ Mix \in Node
  /\ Ctrl \notin Dsp /\ Mix \notin Dsp /\ Ctrl # Mix /\ NDsp \in Dsp
  /\ \A d \in Dsp : d < NDsp => d + 1 \in Dsp
  /\ \A n \in Node : n \in Dsp \/ n = Ctrl \/ n = Mix
BY LifecycleAssumption DEF Dsp, Ctrl, Mix, Node

(* A change of one segment leaves the others and their number. *)
LEMMA SegExcept ==
  ASSUME seg \in Seq(Segment), NEW s \in 1..Len(seg), NEW r \in Segment,
         seg' = [seg EXCEPT ![s] = r]
  PROVE  /\ seg' \in Seq(Segment) /\ Len(seg') = Len(seg)
         /\ seg'[s] = r /\ \A t \in 1..Len(seg) : t # s => seg'[t] = seg[t]
BY ExceptSeq

(* What a step of the main thread does to its position: straight on, or    *)
(* one round of a loop.                                                    *)
LEMMA AtFacts ==
  ASSUME NEW from, NEW to \in ServerPc, At(from, to)
  PROVE  /\ server.pc = from /\ server'.pc = to /\ server'.i = 1
         /\ server' \in [pc : ServerPc, i : Dsp]
BY NodeFacts DEF At

(* A round of a loop over the dsp clients goes to the next one, or leaves the loop after the last. *)
LEMMA EachFacts ==
  ASSUME TypeOK, NEW from \in ServerPc, NEW to \in ServerPc, Each(from, to)
  PROVE  /\ server.pc = from /\ server.i \in Dsp
         /\ \/ server.i < NDsp /\ server'.pc = from /\ server'.i = server.i + 1
            \/ server.i = NDsp /\ server'.pc = to /\ server'.i = 1
         /\ server' \in [pc : ServerPc, i : Dsp]
<1>1. server.i \in Dsp /\ server.pc = from
  BY DEF TypeOK, Each
<1>2. CASE server.i < NDsp
  BY <1>1, <1>2, NodeFacts DEF TypeOK, Each
<1>3. CASE ~ (server.i < NDsp)
  BY <1>1, <1>3, NodeFacts, LifecycleAssumption DEF Each, Dsp
<1> QED
  BY <1>2, <1>3

-----------------------------------------------------------------------------
(*                              The clients                                *)

ClientInv == TypeOK /\ Clients /\ Counts

(* What a step of a client leaves alone of the segments. *)
SegKept == /\ seg' \in Seq(Segment) /\ Len(seg') = Len(seg)
           /\ \A s \in 1..Len(seg) : seg'[s].init = seg[s].init

(* Sets of clients are finite. *)
LEMMA CountedFinite == \A s : IsFiniteSet(CountedAt(s)) /\ Cardinality(CountedAt(s)) \in Nat
<1> TAKE s
<1>1. CountedAt(s) \in SUBSET Client
  BY DEF CountedAt
<1>2. IsFiniteSet(CountedAt(s))
  BY <1>1, LifecycleAssumption, FS_Subset
<1> QED
  BY <1>2, FS_CardinalityType

(* A step that counts nobody in or out and stores no count keeps Counts. *)
LEMMA CountsKept ==
  ASSUME Counts, UNCHANGED seg,
         \A c \in Client : \A s \in 1..Len(seg) :
           /\ (client[c].seg = s /\ Counted(c))' <=> (client[c].seg = s /\ Counted(c))
           /\ Storing(c, s)' <=> Storing(c, s)
           /\ Storing(c, s) => client'[c].refs = client[c].refs
  PROVE  Counts'
<1>1. \A s \in 1..Len(seg) : CountedAt(s)' = CountedAt(s)
  BY DEF CountedAt
<1> QED
  BY <1>1 DEF Counts, CountRight

(* shm_open, the mapping and the call of jfofs_free move the client only. *)
LEMMA QuietInv ==
  ASSUME ClientInv, NEW c \in Client, Link(c) \/ LinkGiven(c) \/ Map(c) \/ Unlink(c),
         server.pc = "running" => Len(seg) > 0
  PROVE  ClientInv' /\ SegKept
<1> USE DEF ClientInv
<1>1. UNCHANGED <<name, seg, server, node, active, wired, mixed, cb>> /\ Len(seg) \in Nat
  BY LenProperties DEF TypeOK, Link, LinkGiven, Map, Unlink, serverVars
<1>2. PICK r \in Connection :
        /\ client' = [client EXCEPT ![c] = r]
        /\ r.pc \in {"idle", "map", "load", "dead", "unload"}
        /\ r.pc = "unload" <=> client[c].pc = "linked"
        /\ r.pc = "unload" => r.seg = client[c].seg
        /\ client[c].pc \in {"idle", "map", "linked"}
        /\ r.pc \notin {"idle", "dead"} => r.seg \in 1..Len(seg)
        /\ r.pc = "idle" => ~ r.given
        /\ r.given => /\ r.seg \in 1..Len(seg)
                      /\ r.pc # "dead" => /\ r.seg = Mine
                                          /\ server.pc \in {"running", "deactivate_ctrl"} \cup Freeing
  <2>1. CASE Link(c)
    <3>0. PICK to \in {"idle", "map"} :
            /\ to = "idle" <=> name = 0
            /\ client' = [client EXCEPT ![c].calls = @ + 1, ![c].seg = name, ![c].pc = to]
      BY <2>1 DEF Link
    <3> DEFINE r == [client[c] EXCEPT !.calls = @ + 1, !.seg = name, !.pc = to]
    <3>1. client' = [client EXCEPT ![c] = r]
      BY <3>0 DEF TypeOK, Connection
    <3>2. r \in Connection
      <4>1. /\ client[c] \in Connection /\ client[c].calls + 1 \in Nat /\ name \in Nat
            /\ to \in ClientPc
        BY <1>1 DEF TypeOK, Connection, ClientPc
      <4>2. [client[c] EXCEPT !.calls = @ + 1] \in Connection
        BY <4>1 DEF Connection
      <4>3. [[client[c] EXCEPT !.calls = @ + 1] EXCEPT !.seg = name] \in Connection
        BY <4>1, <4>2 DEF Connection
      <4>4. [[[client[c] EXCEPT !.calls = @ + 1] EXCEPT !.seg = name] EXCEPT !.pc = to] \in Connection
        BY <4>1, <4>3 DEF Connection
      <4> QED
        BY <4>4
    <3>3. r.pc = to /\ r.seg = name /\ (r.given <=> client[c].given)
      BY DEF TypeOK, Connection
    <3>4. client[c].pc = "idle" /\ ~ client[c].given
      BY <2>1 DEF Link, Clients
    <3>5. name \in 0..Len(seg)
      BY DEF TypeOK
    <3>6. r.pc \notin {"idle", "dead"} => r.seg \in 1..Len(seg)
      BY <1>1, <3>0, <3>3, <3>5
    <3>7. r.pc \in {"idle", "map"} /\ ~ r.given
      BY <3>0, <3>3, <3>4
    <3> HIDE DEF r
    <3> QED
      BY <3>1, <3>2, <3>4, <3>6, <3>7
  <2>2. CASE LinkGiven(c)
    <3> DEFINE r == [pc |-> "load", seg |-> Mine, refs |-> client[c].refs,
                     calls |-> client[c].calls + 1, given |-> TRUE]
    <3>1. client' = [client EXCEPT ![c] = r]
      BY <2>2 DEF LinkGiven, TypeOK, Connection
    <3>2. r \in Connection
      BY <1>1 DEF TypeOK, Connection, ClientPc, Mine
    <3> QED
      BY <1>1, <2>2, <3>1, <3>2 DEF LinkGiven, Clients, TypeOK, Mine
  <2>3. CASE Map(c) \/ Unlink(c)
    <3>1. PICK to \in {"load", "dead", "unload"} :
            /\ client' = [client EXCEPT ![c].pc = to]
            /\ to = "unload" <=> client[c].pc = "linked"
            /\ client[c].pc \in {"map", "linked"}
      BY <2>3 DEF Map, Unlink, Become
    <3> DEFINE r == [client[c] EXCEPT !.pc = to]
    <3>2. client' = [client EXCEPT ![c] = r]
      BY <3>1 DEF TypeOK, Connection
    <3>3. r \in Connection
      BY DEF TypeOK, Connection, ClientPc
    <3> QED
      BY <1>1, <3>1, <3>2, <3>3 DEF Clients, TypeOK, Connection
  <2> QED
    BY <2>1, <2>2, <2>3
<1>3. TypeOK'
  BY <1>1, <1>2 DEF TypeOK
<1>4. Clients'
  BY <1>1, <1>2 DEF TypeOK, Clients, Mine
<1>5. Counts'
  <2>1. ASSUME NEW d \in Client, NEW s \in 1..Len(seg)
        PROVE /\ (client[d].seg = s /\ Counted(d))' <=> (client[d].seg = s /\ Counted(d))
              /\ Storing(d, s)' <=> Storing(d, s)
              /\ Storing(d, s) => client'[d].refs = client[d].refs
    BY <1>2 DEF TypeOK, Connection, Counted, Storing
  <2> QED
    BY <1>1, <2>1, CountsKept
<1>6. SegKept
  BY <1>1 DEF SegKept, TypeOK
<1> QED
  BY <1>3, <1>4, <1>5, <1>6

(* The load of reference_cnt: from then on it must not change under c. *)
LEMMA LoadInv ==
  ASSUME ClientInv, NEW c \in Client, Load(c)
  PROVE  ClientInv' /\ SegKept
<1> USE DEF ClientInv
<1>0. PICK s \in 1..Len(seg) : s = client[c].seg
  BY DEF Load, Clients
<1> DEFINE v == seg[s].clean /\ seg[s].init /\ ~ OthersAt(c, s)
           r == [seg[s] EXCEPT !.clean = v]
<1>1. /\ client[c].pc \in {"load", "unload"} /\ Len(seg) \in Nat
      /\ UNCHANGED <<name, server, node, active, wired, mixed, cb>>
      /\ seg[s] \in Segment /\ client[c] \in Connection
  BY LenProperties, ElementOfSeq DEF Load, Clients, TypeOK, serverVars
<1>2. r \in Segment /\ (r.clean <=> v) /\ r.refs = seg[s].refs /\ r.lost = seg[s].lost
      /\ r.init = seg[s].init
  <2>1. v \in BOOLEAN
    OBVIOUS
  <2> HIDE DEF v
  <2> QED
    BY <1>1, <2>1 DEF Segment
<1>3. seg' = [seg EXCEPT ![s] = r]
  BY <1>0 DEF Load
<1>4. PICK to \in {"count", "uncount"} :
        /\ to = "count" <=> client[c].pc = "load"
        /\ client' = [client EXCEPT ![c].refs = seg[s].refs, ![c].pc = to]
  BY <1>0, <1>1 DEF Load
<1>5. /\ SegKept /\ seg'[s] = r /\ \A t \in 1..Len(seg) : t # s => seg'[t] = seg[t]
  <2> HIDE DEF r
  <2> QED
    BY <1>1, <1>2, <1>3, SegExcept DEF SegKept, TypeOK
<1>6. /\ client' \in [Client -> Connection]
      /\ client'[c].pc = to /\ client'[c].seg = s /\ client'[c].refs = seg[s].refs
      /\ client'[c].given = client[c].given
      /\ \A d \in Client : d # c => client'[d] = client[d]
  <2> DEFINE k == [client[c] EXCEPT !.refs = seg[s].refs, !.pc = to]
  <2>1. seg[s].refs \in Int /\ to \in ClientPc
    BY <1>1, <1>4 DEF Segment, ClientPc
  <2>2. [client[c] EXCEPT !.refs = seg[s].refs] \in Connection
    BY <1>1, <2>1 DEF Connection
  <2>3. k \in Connection
    BY <2>1, <2>2 DEF Connection
  <2>4. k.pc = to /\ k.seg = s /\ k.refs = seg[s].refs /\ k.given = client[c].given
    BY <1>0, <1>1 DEF Connection
  <2>5. client' = [client EXCEPT ![c] = k]
    BY <1>4
  <2> HIDE DEF k
  <2> QED
    BY <2>3, <2>4, <2>5 DEF TypeOK
<1>7. TypeOK'
  BY <1>1, <1>5, <1>6 DEF TypeOK, SegKept
<1>8. Clients'
  BY <1>1, <1>4, <1>5, <1>6 DEF Clients, SegKept, Mine
<1>9. Counts'
  <2> HIDE DEF r, v
  <2>1. \A t \in 1..Len(seg) : CountedAt(t)' = CountedAt(t)
    BY <1>0, <1>1, <1>4, <1>6 DEF CountedAt, Counted
  <2>2. ASSUME NEW t \in 1..Len(seg), t # s, seg'[t].clean
        PROVE  CountRight(t)'
    BY <1>5, <1>6, <2>1, <2>2 DEF Counts, CountRight, Storing
  <2>3. ASSUME r.clean
        PROVE  /\ r.refs = r.lost + Cardinality(CountedAt(s)')
               /\ \A d \in Client : Storing(d, s)' => d = c
               /\ r.init
    <3>1. seg[s].clean /\ seg[s].init /\ ~ OthersAt(c, s)
      BY <1>2, <2>3 DEF v
    <3>2. seg[s].refs = seg[s].lost + Cardinality(CountedAt(s))
      BY <1>1, <3>1 DEF Counts, CountRight
    <3>3. \A d \in Client : Storing(d, s)' => d = c
      BY <1>6, <3>1 DEF OthersAt, Storing
    <3> QED
      BY <1>1, <1>2, <2>1, <3>1, <3>2, <3>3
  <2> QED
    BY <1>2, <1>5, <1>6, <2>2, <2>3 DEF Counts, CountRight, SegKept
<1> QED
  BY <1>5, <1>7, <1>8, <1>9

(* The store of reference_cnt, up or down: c is counted in or out, and if  *)
(* the count was right it still is.                                        *)
LEMMA StoreInv ==
  ASSUME ClientInv, NEW c \in Client, Count(c) \/ Uncount(c)
  PROVE  ClientInv' /\ SegKept
<1> USE DEF ClientInv
<1>0. PICK s \in 1..Len(seg) : s = client[c].seg
  BY DEF Count, Uncount, Become, Clients
<1>1. PICK k \in {1, -1} :
        /\ k = 1 => Count(c) /\ client[c].pc = "count"
        /\ k = -1 => Uncount(c) /\ client[c].pc = "uncount"
        /\ seg' = [seg EXCEPT ![s].refs = client[c].refs + k]
  <2>1. CASE Count(c)
    <3> WITNESS 1 \in {1, -1}
    <3> QED
      BY <1>0, <2>1 DEF Count, Become
  <2>2. CASE Uncount(c)
    <3>1. client[c].refs - 1 = client[c].refs + (-1)
      BY DEF TypeOK, Connection
    <3>2. seg' = [seg EXCEPT ![s].refs = client[c].refs + (-1)]
      BY <1>0, <2>2, <3>1 DEF Uncount
    <3>3. client[c].pc = "uncount"
      BY <2>2 DEF Uncount
    <3> WITNESS -1 \in {1, -1}
    <3> QED
      BY <2>2, <3>2, <3>3
  <2> QED
    BY <2>1, <2>2
<1> DEFINE r == [seg[s] EXCEPT !.refs = client[c].refs + k]
<1>2. /\ Len(seg) \in Nat /\ UNCHANGED <<name, server, node, active, wired, mixed, cb>>
      /\ seg[s] \in Segment /\ client[c] \in Connection
  BY LenProperties, ElementOfSeq DEF Count, Uncount, TypeOK, serverVars
<1>3. /\ r \in Segment /\ r.refs = client[c].refs + k
      /\ r.clean = seg[s].clean /\ r.init = seg[s].init /\ r.lost = seg[s].lost
  BY <1>2 DEF Segment, Connection
<1>4. SegKept /\ seg'[s] = r /\ \A t \in 1..Len(seg) : t # s => seg'[t] = seg[t]
  <2>1. seg' = [seg EXCEPT ![s] = r]
    BY <1>1
  <2> HIDE DEF r
  <2> QED
    BY <1>2, <1>3, <2>1, SegExcept DEF SegKept, TypeOK
<1> HIDE DEF r
<1>5. /\ client' \in [Client -> Connection]
      /\ \A d \in Client : d # c => client'[d] = client[d]
      /\ k = 1 => /\ client'[c].pc = "linked" /\ client'[c].seg = s
                  /\ client'[c].given = client[c].given
      /\ k = -1 => client'[c].pc = "idle" /\ ~ client'[c].given
  <2>1. CASE k = 1
    <3>1. client' = [client EXCEPT ![c].pc = "linked"]
      BY <1>1, <2>1 DEF Count, Become
    <3>2. [client[c] EXCEPT !.pc = "linked"] \in Connection
      BY <1>2 DEF Connection, ClientPc
    <3> QED
      BY <1>0, <2>1, <3>1, <3>2 DEF TypeOK, Connection
  <2>2. CASE k = -1
    <3>1. client' = [client EXCEPT ![c].pc = "idle", ![c].seg = 0, ![c].given = FALSE]
      BY <1>1, <2>2 DEF Uncount
    <3> DEFINE l == [client[c] EXCEPT !.pc = "idle", !.seg = 0, !.given = FALSE]
    <3>2. client' = [client EXCEPT ![c] = l]
      BY <3>1
    <3>3. [client[c] EXCEPT !.pc = "idle"] \in Connection
      BY <1>2 DEF Connection, ClientPc
    <3>4. [[client[c] EXCEPT !.pc = "idle"] EXCEPT !.seg = 0] \in Connection
      BY <3>3 DEF Connection
    <3>5. l \in Connection
      BY <3>4 DEF Connection
    <3>6. l.pc = "idle" /\ ~ l.given
      BY <1>2 DEF Connection
    <3> HIDE DEF l
    <3> QED
      BY <2>2, <3>2, <3>5, <3>6 DEF TypeOK
  <2> QED
    BY <2>1, <2>2
<1>6. TypeOK'
  BY <1>2, <1>4, <1>5 DEF TypeOK, SegKept
<1>7. Clients'
  BY <1>0, <1>1, <1>2, <1>4, <1>5 DEF Clients, SegKept, Mine
<1>8. Counts'
  <2>1. /\ \A t \in 1..Len(seg) : t # s => CountedAt(t)' = CountedAt(t)
        /\ k = 1 => CountedAt(s)' = CountedAt(s) \cup {c} /\ c \notin CountedAt(s)
        /\ k = -1 => CountedAt(s)' = CountedAt(s) \ {c} /\ c \in CountedAt(s)
    BY <1>0, <1>1, <1>5 DEF CountedAt, Counted
  <2>2. Cardinality(CountedAt(s)') = Cardinality(CountedAt(s)) + k
    <3>1. IsFiniteSet(CountedAt(s)) /\ Cardinality(CountedAt(s)) \in Nat
      BY CountedFinite
    <3>2. CASE k = 1
      BY <2>1, <3>1, <3>2, FS_AddElement
    <3>3. CASE k = -1
      BY <2>1, <3>1, <3>3, FS_RemoveElement
    <3> QED
      BY <3>2, <3>3
  <2>3. /\ \A d \in Client : \A t \in 1..Len(seg) : t # s => (Storing(d, t)' <=> Storing(d, t))
        /\ Storing(c, s) /\ ~ Storing(c, s)'
        /\ \A d \in Client : d # c => (Storing(d, s)' <=> Storing(d, s))
    BY <1>0, <1>1, <1>5 DEF Storing
  <2>4. ASSUME NEW t \in 1..Len(seg), t # s, seg'[t].clean
        PROVE  CountRight(t)'
    <3>0. ~ Storing(c, t)
      BY <1>0, <2>4 DEF Storing
    <3>1. seg'[t] = seg[t] /\ CountedAt(t)' = CountedAt(t)
          /\ \A d \in Client : Storing(d, t)' => Storing(d, t) /\ client'[d] = client[d]
      BY <1>1, <1>4, <1>5, <2>1, <2>3, <2>4, <3>0
    <3> QED
      BY <2>4, <3>1 DEF Counts, CountRight
  <2>5. ASSUME r.clean
        PROVE  /\ r.refs = r.lost + Cardinality(CountedAt(s)')
               /\ \A d \in Client : ~ Storing(d, s)'
               /\ r.init
    <3>1. seg[s].clean
      BY <1>3, <2>5
    <3>2. /\ seg[s].refs = seg[s].lost + Cardinality(CountedAt(s))
          /\ client[c].refs = seg[s].refs /\ seg[s].init
          /\ \A d \in Client : Storing(d, s) => d = c
      BY <2>3, <3>1 DEF Counts, CountRight
    <3>3. seg[s].lost \in Int /\ Cardinality(CountedAt(s)) \in Int
      BY <1>2, CountedFinite DEF Segment
    <3> QED
      BY <1>1, <1>3, <2>2, <2>3, <3>2, <3>3
  <2> QED
    BY <1>3, <1>4, <2>4, <2>5 DEF Counts, CountRight, SegKept
<1> QED
  BY <1>4, <1>6, <1>7, <1>8

(* Clients that end leave their count behind, and it is known as lost. *)
LEMMA EndClientsInv ==
  ASSUME ClientInv, NEW K \in SUBSET Client, NEW s, K # {} => s \in 1..Len(seg),
         \A c \in K : Counted(c) => client[c].seg = s,
         EndClients(K, s)
  PROVE  /\ SegKept /\ Counts' /\ client' \in [Client -> Connection]
         /\ \A c \in Client : client'[c].seg = client[c].seg /\ client'[c].given = client[c].given
         /\ \A c \in K : client'[c].pc = "dead"
         /\ \A c \in Client \ K : client'[c] = client[c]
<1> USE DEF ClientInv
<1>1. /\ client' \in [Client -> Connection]
      /\ \A c \in Client : client'[c].seg = client[c].seg /\ client'[c].given = client[c].given
      /\ \A c \in K : client'[c].pc = "dead"
      /\ \A c \in Client \ K : client'[c] = client[c]
  <2>1. \A c \in Client : [client[c] EXCEPT !.pc = "dead"] \in Connection
    BY DEF TypeOK, Connection, ClientPc
  <2> QED
    BY <2>1 DEF EndClients, TypeOK, Connection
<1>2. CASE K = {}
  <2>1. UNCHANGED seg
    BY <1>2 DEF EndClients
  <2>2. Counts'
    BY <1>1, <1>2, <2>1, CountsKept DEF Counted, Storing
  <2> QED
    BY <1>1, <2>1, <2>2 DEF SegKept, TypeOK
<1>3. CASE K # {}
  <2> DEFINE G == {c \in K : Counted(c)}
             r == [seg[s] EXCEPT !.lost = @ + Cardinality(G)]
  <2>1. s \in 1..Len(seg) /\ Len(seg) \in Nat /\ seg[s] \in Segment
    BY <1>3, LenProperties, ElementOfSeq DEF TypeOK
  <2>2. G \subseteq CountedAt(s) /\ IsFiniteSet(G) /\ Cardinality(G) \in Nat
    <3>1. G \subseteq CountedAt(s)
      BY DEF CountedAt
    <3> QED
      BY <3>1, CountedFinite, FS_Subset, FS_CardinalityType
  <2>3. seg' = [seg EXCEPT ![s] = r]
    BY <1>3 DEF EndClients
  <2> HIDE DEF G
  <2>4. /\ r \in Segment /\ r.lost = seg[s].lost + Cardinality(G)
        /\ r.clean = seg[s].clean /\ r.init = seg[s].init /\ r.refs = seg[s].refs
    <3>1. seg[s].lost + Cardinality(G) \in Nat
      BY <2>1, <2>2 DEF Segment
    <3> QED
      BY <2>1, <3>1 DEF Segment
  <2> HIDE DEF r
  <2>5. SegKept /\ seg'[s] = r /\ \A t \in 1..Len(seg) : t # s => seg'[t] = seg[t]
    BY <2>1, <2>3, <2>4, SegExcept DEF SegKept, TypeOK
  <2>6. /\ \A t \in 1..Len(seg) : t # s => CountedAt(t)' = CountedAt(t)
        /\ CountedAt(s)' = CountedAt(s) \ G
    BY <1>1, <2>1 DEF CountedAt, Counted, G
  <2>7. Cardinality(CountedAt(s)') = Cardinality(CountedAt(s)) - Cardinality(G)
    <3>1. CountedAt(s) \cap G = G
      BY <2>2
    <3> QED
      BY <2>6, <3>1, CountedFinite, FS_Difference
  <2>8. \A c \in Client : \A t \in 1..Len(seg) :
          Storing(c, t)' => Storing(c, t) /\ client'[c].refs = client[c].refs
    BY <1>1 DEF Storing
  <2>9. Counts'
    <3>1. ASSUME NEW t \in 1..Len(seg), seg'[t].clean
          PROVE  seg'[t].refs = seg'[t].lost + Cardinality(CountedAt(t)')
      <4>1. CASE t = s
        <5>1. seg[s].refs = seg[s].lost + Cardinality(CountedAt(s))
          BY <2>4, <2>5, <3>1, <4>1 DEF Counts, CountRight
        <5>2. seg[s].lost \in Int /\ Cardinality(CountedAt(s)) \in Int
          BY <2>1, CountedFinite DEF Segment
        <5> QED
          BY <2>2, <2>4, <2>5, <2>7, <4>1, <5>1, <5>2
      <4>2. CASE t # s
        BY <2>5, <2>6, <3>1, <4>2 DEF Counts, CountRight
      <4> QED
        BY <4>1, <4>2
    <3>2. ASSUME NEW t \in 1..Len(seg), seg'[t].clean
          PROVE  /\ seg[t].clean /\ seg'[t].refs = seg[t].refs /\ seg'[t].init = seg[t].init
                 /\ ~ seg[t].init => seg'[t].lost = seg[t].lost /\ CountedAt(t)' = CountedAt(t)
      <4>1. CASE t = s
        <5>1. ASSUME ~ seg[s].init
              PROVE  CountedAt(s) = {} /\ CountedAt(s)' = {} /\ Cardinality(G) = 0
          <6>1. CountedAt(s) = {}
            BY <2>4, <2>5, <3>2, <4>1, <5>1 DEF Counts, CountRight
          <6>2. G = {}
            BY <2>2, <6>1
          <6> QED
            BY <2>6, <6>1, <6>2, FS_EmptySet
        <5>2. seg[s].lost + 0 = seg[s].lost
          BY <2>1 DEF Segment
        <5> QED
          BY <2>4, <2>5, <3>2, <4>1, <5>1, <5>2
      <4>2. CASE t # s
        BY <2>5, <2>6, <3>2, <4>2
      <4> QED
        BY <4>1, <4>2
    <3> QED
      BY <2>5, <2>8, <3>1, <3>2 DEF Counts, CountRight, SegKept
  <2> QED
    BY <1>1, <2>5, <2>9
<1> QED
  BY <1>2, <1>3

(* A client process that ends without jfofs_free. *)
LEMMA KillInv ==
  ASSUME ClientInv, NEW c \in Client, Kill(c)
  PROVE  ClientInv' /\ SegKept
<1> USE DEF ClientInv
<1>1. PICK s \in 1..Len(seg) : s = client[c].seg
  BY DEF Kill, Clients
<1>2. EndClients({c}, s) /\ UNCHANGED <<name, server, node, active, wired, mixed, cb>>
  BY <1>1 DEF Kill, serverVars
<1>3. /\ SegKept /\ Counts' /\ client' \in [Client -> Connection]
      /\ \A d \in Client : client'[d].seg = client[d].seg /\ client'[d].given = client[d].given
      /\ client'[c].pc = "dead" /\ \A d \in Client \ {c} : client'[d] = client[d]
  <2>1. {c} \in SUBSET Client /\ \A d \in {c} : Counted(d) => client[d].seg = s
    BY <1>1
  <2>2. /\ SegKept /\ Counts' /\ client' \in [Client -> Connection]
        /\ \A d \in Client : client'[d].seg = client[d].seg /\ client'[d].given = client[d].given
        /\ \A d \in {c} : client'[d].pc = "dead"
        /\ \A d \in Client \ {c} : client'[d] = client[d]
    BY <1>1, <1>2, <2>1, EndClientsInv
  <2> QED
    BY <2>2
<1>4. TypeOK'
  BY <1>2, <1>3 DEF TypeOK, SegKept
<1>5. Clients'
  BY <1>2, <1>3 DEF Clients, SegKept, Mine
<1> QED
  BY <1>3, <1>4, <1>5

-----------------------------------------------------------------------------
(*                               The server                                *)

Inv == ServerInv /\ Clients /\ Counts

(* A client's step touches nothing of the server. *)
LEMMA ClientStepInv ==
  ASSUME Inv, NEW c \in Client, ClientStep(c)
  PROVE  Inv'
<1> USE DEF Inv, ServerInv
<1>1. UNCHANGED <<name, serverVars, cb>>
  BY DEF ClientStep, Link, LinkGiven, Map, Load, Count, Unlink, Uncount, Kill
<1>2. server.pc = "running" => Len(seg) > 0
  BY DEF Named
<1>3. ClientInv' /\ SegKept
  BY <1>2, QuietInv, LoadInv, StoreInv, KillInv DEF ClientStep, ClientInv
<1>4. RunsActive' /\ Nodes' /\ Ports'
  BY <1>1 DEF serverVars, RunsActive, Nodes, Ports
<1>5. Named'
  <2>1. Len(seg) > 0 => Mine \in 1..Len(seg)
    BY LenProperties DEF TypeOK, Mine
  <2>2. Mine' = Mine
    BY <1>3 DEF SegKept, Mine
  <2> QED
    BY <1>1, <1>3, <2>1, <2>2 DEF serverVars, SegKept, Named, Activating, Connecting
<1> QED
  BY <1>3, <1>4, <1>5 DEF ClientInv

(* A step of the main thread that leaves the memory alone. *)
LEMMA ServerOnly ==
  ASSUME Clients, Counts, UNCHANGED <<seg, client>>,
         server.pc \in {"running", "deactivate_ctrl"} \cup Freeing =>
           server'.pc \in {"running", "deactivate_ctrl"} \cup Freeing
  PROVE  Clients' /\ Counts'
<1>1. Clients'
  BY DEF Clients, Mine
<1>2. Counts'
  BY CountsKept DEF Counted, Storing
<1> QED
  BY <1>1, <1>2

(* ctrl_client_new. *)
LEMMA NewCtrlInv == ASSUME Inv, NewCtrl PROVE Inv'
<1> USE NodeFacts DEF Inv, ServerInv, Creating, Activating, Connecting, Freeing
<1>0. /\ server.pc = "ctrl" /\ server'.pc = "mix" /\ server' \in [pc : ServerPc, i : Dsp]
      /\ node' \in [Node -> {"none", "made", "active"}]
      /\ \A n \in Node : n # Ctrl => node'[n] = node[n]
      /\ node'[Ctrl] # "active" /\ active' = FALSE
      /\ UNCHANGED <<name, seg, wired, mixed, cb, client>>
  BY AtFacts DEF NewCtrl, Make, TypeOK, Nodes, ServerPc
<1>1. TypeOK'
  BY <1>0 DEF TypeOK
<1>2. RunsActive'
  BY <1>0 DEF TypeOK, RunsActive, Nodes
<1>3. Nodes'
  BY <1>0 DEF Nodes
<1>4. Ports' /\ Named'
  BY <1>0 DEF Ports, Named, Mine
<1>5. Clients' /\ Counts'
  BY <1>0, ServerOnly
<1> QED
  BY <1>1, <1>2, <1>3, <1>4, <1>5

(* mix_client_new. *)
LEMMA NewMixInv == ASSUME Inv, NewMix PROVE Inv'
<1> USE NodeFacts DEF Inv, ServerInv, Creating, Activating, Connecting, Freeing
<1>0. /\ server.pc = "mix" /\ server'.pc = "init" /\ server' \in [pc : ServerPc, i : Dsp]
      /\ node' = [node EXCEPT ![Mix] = "made"]
      /\ UNCHANGED <<name, seg, active, wired, mixed, cb, client>>
  BY AtFacts DEF NewMix, ServerPc
<1>1. TypeOK'
  BY <1>0 DEF TypeOK
<1>2. RunsActive'
  BY <1>0 DEF TypeOK, RunsActive, Nodes
<1>3. Nodes'
  BY <1>0 DEF Nodes, TypeOK
<1>4. Ports' /\ Named'
  BY <1>0 DEF Ports, Named, Mine
<1>5. Clients' /\ Counts'
  BY <1>0, ServerOnly
<1> QED
  BY <1>1, <1>2, <1>3, <1>4, <1>5

(* dsp_client_new, for one dsp client. *)
LEMMA NewDspInv == ASSUME Inv, NewDsp PROVE Inv'
<1> USE NodeFacts DEF Inv, ServerInv, Creating, Activating, Connecting, Freeing
<1>0. /\ server.pc = "dsp" /\ server.i \in Dsp
      /\ \/ server.i < NDsp /\ server'.pc = "dsp" /\ server'.i = server.i + 1
         \/ server.i = NDsp /\ server'.pc = "activate_mix" /\ server'.i = 1
      /\ server' \in [pc : ServerPc, i : Dsp]
      /\ UNCHANGED <<name, seg, active, wired, mixed, cb, client>>
  BY EachFacts DEF NewDsp, ServerPc
<1>1. /\ node' \in [Node -> {"none", "made", "active"}]
      /\ \A n \in Node : n # server.i => node'[n] = node[n]
      /\ node'[server.i] # "active"
  BY <1>0 DEF NewDsp, Make, TypeOK, Nodes
<1>2. TypeOK'
  BY <1>0, <1>1 DEF TypeOK
<1>3. RunsActive'
  BY <1>0, <1>1 DEF TypeOK, RunsActive, Nodes
<1>4. Nodes'
  BY <1>0, <1>1 DEF Nodes, Dsp
<1>5. Ports' /\ Named'
  BY <1>0 DEF Ports, Named, Mine
<1>6. Clients' /\ Counts'
  BY <1>0, ServerOnly
<1> QED
  BY <1>2, <1>3, <1>4, <1>5, <1>6

(* manager_activate_clients, the mix client. *)
LEMMA ActivateMixInv == ASSUME Inv, ActivateMix PROVE Inv'
<1> USE NodeFacts DEF Inv, ServerInv, Creating, Activating, Connecting, Freeing
<1>0. /\ server.pc = "activate_mix" /\ server' \in [pc : ServerPc, i : Dsp] /\ server'.i = 1
      /\ \/ server'.pc = "activate_dsp" /\ node' = [node EXCEPT ![Mix] = "active"]
         \/ server'.pc = "deactivate_ctrl" /\ node' = node
      /\ UNCHANGED <<name, seg, active, wired, mixed, cb, client>>
  BY AtFacts DEF ActivateMix, Fail, ServerPc
<1>1. TypeOK'
  BY <1>0 DEF TypeOK
<1>2. RunsActive'
  BY <1>0 DEF TypeOK, RunsActive, Nodes
<1>3. Nodes'
  BY <1>0 DEF Nodes, TypeOK, Dsp
<1>4. Ports' /\ Named'
  BY <1>0 DEF Ports, Named, Mine
<1>5. Clients' /\ Counts'
  BY <1>0, ServerOnly
<1> QED
  BY <1>1, <1>2, <1>3, <1>4, <1>5

(* A dsp client. *)
LEMMA ActivateDspInv == ASSUME Inv, ActivateDsp PROVE Inv'
<1> USE NodeFacts DEF Inv, ServerInv, Creating, Activating, Connecting, Freeing
<1>0. /\ server.pc = "activate_dsp" /\ server.i \in Dsp /\ server' \in [pc : ServerPc, i : Dsp]
      /\ \/ /\ \/ server.i < NDsp /\ server'.pc = "activate_dsp" /\ server'.i = server.i + 1
               \/ server.i = NDsp /\ server'.pc = "activate_ctrl" /\ server'.i = 1
            /\ node' = [node EXCEPT ![server.i] = "active"]
         \/ server'.pc = "deactivate_ctrl" /\ node' = node
      /\ UNCHANGED <<name, seg, active, wired, mixed, cb, client>>
  <2>1. server.i \in Dsp
    BY DEF TypeOK
  <2> QED
    BY <2>1, AtFacts, EachFacts DEF ActivateDsp, Fail, ServerPc
<1>1. TypeOK'
  BY <1>0 DEF TypeOK
<1>2. RunsActive'
  BY <1>0 DEF TypeOK, RunsActive
<1>3. Nodes'
  <2>1. CASE server'.pc = "deactivate_ctrl" /\ node' = node
    BY <1>0, <2>1 DEF Nodes
  <2>2. CASE server'.pc # "deactivate_ctrl"
    <3>1. /\ node' = [node EXCEPT ![server.i] = "active"] /\ server.i # Ctrl /\ server.i # Mix
          /\ server'.pc \in Activating
      BY <1>0, <2>2
    <3>2. /\ node'[server.i] = "active"
          /\ \A n \in Node : n # server.i => node'[n] = node[n]
      BY <1>0, <3>1 DEF TypeOK
    <3>3. /\ server'.pc = "activate_dsp" => \A d \in Dsp : d < server'.i => node'[d] = "active"
          /\ server'.pc = "activate_ctrl" => \A d \in Dsp : node'[d] = "active"
      BY <1>0, <3>2 DEF Nodes, Dsp
    <3> QED
      BY <1>0, <3>1, <3>2, <3>3 DEF Nodes
  <2> QED
    BY <1>0, <2>1, <2>2
<1>4. Ports' /\ Named'
  BY <1>0 DEF Ports, Named, Mine
<1>5. Clients' /\ Counts'
  BY <1>0, ServerOnly
<1> QED
  BY <1>1, <1>2, <1>3, <1>4, <1>5

(* The ctrl client, the last. *)
LEMMA ActivateCtrlInv == ASSUME Inv, ActivateCtrl PROVE Inv'
<1> USE NodeFacts DEF Inv, ServerInv, Creating, Activating, Connecting, Freeing
<1>0. /\ server.pc = "activate_ctrl" /\ server' \in [pc : ServerPc, i : Dsp] /\ server'.i = 1
      /\ \/ server'.pc = "connect" /\ node' = [node EXCEPT ![Ctrl] = "active"]
         \/ server'.pc = "deactivate_ctrl" /\ node' = node
      /\ active' = TRUE /\ UNCHANGED <<name, seg, wired, mixed, cb, client>>
  BY AtFacts DEF ActivateCtrl, Fail, ServerPc
<1>1. TypeOK'
  BY <1>0 DEF TypeOK
<1>2. RunsActive'
  BY <1>0 DEF TypeOK, RunsActive
<1>3. Nodes'
  BY <1>0 DEF Nodes, TypeOK
<1>4. Ports' /\ Named'
  BY <1>0 DEF Ports, Named, Mine
<1>5. Clients' /\ Counts'
  BY <1>0, ServerOnly
<1> QED
  BY <1>1, <1>2, <1>3, <1>4, <1>5

(* manager_connect_clients. *)
LEMMA ConnectInv == ASSUME Inv, Connect PROVE Inv'
<1> USE NodeFacts DEF Inv, ServerInv, Creating, Activating, Connecting, Freeing
<1>0. /\ server.i \in Dsp /\ server' \in [pc : ServerPc, i : Dsp]
      /\ UNCHANGED <<name, seg, node, active, cb, client>>
      /\ \/ /\ server.pc = "connect"
            /\ \/ server.i < NDsp /\ server'.pc = "connect" /\ server'.i = server.i + 1
               \/ server.i = NDsp /\ server'.pc = "connect_mix" /\ server'.i = 1
            /\ wired' = wired \cup {server.i} /\ mixed' = mixed
         \/ /\ server.pc = "connect_mix"
            /\ \/ server.i < NDsp /\ server'.pc = "connect_mix" /\ server'.i = server.i + 1
               \/ server.i = NDsp /\ server'.pc = "running" /\ server'.i = 1
            /\ mixed' = mixed \cup {server.i} /\ wired' = wired
         \/ /\ server.pc \in {"connect", "connect_mix"} /\ server'.pc = "deactivate_ctrl"
            /\ UNCHANGED <<wired, mixed>>
  <2>1. server.i \in Dsp
    BY DEF TypeOK
  <2>2. UNCHANGED <<name, seg, node, active, cb, client>>
    BY DEF Connect
  <2>3. CASE Each("connect", "connect_mix") /\ wired' = wired \cup {server.i} /\ UNCHANGED mixed
    BY <2>1, <2>2, <2>3, EachFacts DEF ServerPc
  <2>4. CASE Each("connect_mix", "running") /\ mixed' = mixed \cup {server.i} /\ UNCHANGED wired
    BY <2>1, <2>2, <2>4, EachFacts DEF ServerPc
  <2>5. CASE (Fail("connect") \/ Fail("connect_mix")) /\ UNCHANGED <<wired, mixed>>
    BY <2>1, <2>2, <2>5, AtFacts DEF Fail, ServerPc
  <2> QED
    BY <2>3, <2>4, <2>5 DEF Connect
<1>1. TypeOK'
  BY <1>0 DEF TypeOK
<1>2. RunsActive' /\ Nodes'
  BY <1>0 DEF RunsActive, Nodes
<1>3. Ports'
  <2>1. \A i \in Dsp : /\ (1..i - 1) \cup {i} = 1..(i + 1) - 1
                       /\ i = NDsp => (1..i - 1) \cup {i} = Dsp
    BY LifecycleAssumption DEF Dsp
  <2>2. 1..1 - 1 = {}
    OBVIOUS
  <2>3. CASE server.pc = "connect" /\ server'.pc # "deactivate_ctrl"
    <3>1. wired' = (1..server.i - 1) \cup {server.i} /\ mixed' = {}
      BY <1>0, <2>3 DEF Ports
    <3> QED
      BY <1>0, <2>1, <2>2, <2>3, <3>1 DEF Ports
  <2>4. CASE server.pc = "connect_mix" /\ server'.pc # "deactivate_ctrl"
    <3>1. wired' = Dsp /\ mixed' = (1..server.i - 1) \cup {server.i}
      BY <1>0, <2>4 DEF Ports
    <3> QED
      BY <1>0, <2>1, <2>4, <3>1 DEF Ports
  <2>5. CASE server'.pc = "deactivate_ctrl"
    BY <2>5 DEF Ports
  <2> QED
    BY <1>0, <2>3, <2>4, <2>5
<1>4. Named'
  BY <1>0 DEF Named, Mine
<1>5. Clients' /\ Counts'
  BY <1>0, ServerOnly
<1> QED
  BY <1>1, <1>2, <1>3, <1>4, <1>5

(* The manager is given back. *)
LEMMA ShutdownInv == ASSUME Inv, Shutdown PROVE Inv'
<1> USE NodeFacts DEF Inv, ServerInv, Creating, Activating, Connecting, Freeing
<1>0. /\ server.pc = "running" /\ server' \in [pc : ServerPc, i : Dsp]
      /\ server'.pc = "deactivate_ctrl"
      /\ UNCHANGED <<name, seg, node, active, wired, mixed, cb, client>>
  BY AtFacts DEF Shutdown, Fail, ServerPc
<1>1. TypeOK'
  BY <1>0 DEF TypeOK
<1>2. RunsActive' /\ Nodes' /\ Ports' /\ Named'
  BY <1>0 DEF RunsActive, Nodes, Ports, Named, Mine
<1>3. Clients' /\ Counts'
  BY <1>0, ServerOnly
<1> QED
  BY <1>1, <1>2, <1>3

(* manager_deactivate_clients: the ctrl client first, so that no callback  *)
(* of it runs when the dsp clients go.                                     *)
LEMMA DeactivateInv == ASSUME Inv, Deactivate PROVE Inv'
<1> USE NodeFacts DEF Inv, ServerInv, Creating, Activating, Connecting, Freeing
<1>0. PICK n \in Node :
      /\ JackDeactivate(n) /\ server.i \in Dsp /\ server' \in [pc : ServerPc, i : Dsp]
      /\ UNCHANGED <<name, seg, cb, client>> /\ active' \in BOOLEAN
      /\ \/ server.pc = "deactivate_ctrl" /\ server'.pc = "deactivate_dsp" /\ n = Ctrl
         \/ server.pc = "deactivate_dsp" /\ server'.pc \in {"deactivate_dsp", "deactivate_mix"}
         \/ server.pc = "deactivate_mix" /\ server'.pc = "free_mix"
  <2>1. server.i \in Dsp /\ active \in BOOLEAN
    BY DEF TypeOK
  <2>2. UNCHANGED <<name, seg, cb, client>>
    BY DEF Deactivate
  <2>3. CASE At("deactivate_ctrl", "deactivate_dsp") /\ JackDeactivate(Ctrl) /\ active' = FALSE
    BY <2>1, <2>2, <2>3, AtFacts DEF ServerPc
  <2>4. CASE Each("deactivate_dsp", "deactivate_mix") /\ JackDeactivate(server.i) /\ UNCHANGED active
    BY <2>1, <2>2, <2>4, EachFacts DEF ServerPc
  <2>5. CASE At("deactivate_mix", "free_mix") /\ JackDeactivate(Mix) /\ UNCHANGED active
    BY <2>1, <2>2, <2>5, AtFacts DEF ServerPc
  <2> QED
    BY <2>3, <2>4, <2>5 DEF Deactivate
<1>1. /\ n \notin cb /\ node' \in [Node -> {"none", "made", "active"}] /\ node'[n] # "active"
      /\ \A m \in Node : (node'[m] = "none") <=> (node[m] = "none")
      /\ \A m \in Node : m # n => node'[m] = node[m]
      /\ wired' \subseteq Dsp /\ mixed' \subseteq Dsp
  BY <1>0 DEF JackDeactivate, TypeOK
<1>2. TypeOK'
  BY <1>0, <1>1 DEF TypeOK
<1>3. RunsActive'
  BY <1>0, <1>1 DEF TypeOK, RunsActive
<1>4. Nodes'
  BY <1>0, <1>1 DEF Nodes
<1>5. Ports' /\ Named'
  BY <1>0 DEF Ports, Named, Mine
<1>6. Clients' /\ Counts'
  BY <1>0, ServerOnly
<1> QED
  BY <1>2, <1>3, <1>4, <1>5, <1>6

(* manager_free: each client is closed when its callback cannot run. *)
LEMMA ManagerFreeInv == ASSUME Inv, ManagerFree PROVE Inv'
<1> USE NodeFacts DEF Inv, ServerInv, Creating, Activating, Connecting, Freeing
<1>0. PICK n \in Node :
      /\ Close(n) /\ server.i \in Dsp /\ server' \in [pc : ServerPc, i : Dsp]
      /\ UNCHANGED <<seg, active, wired, mixed, cb, client>>
      /\ \/ server.pc = "free_mix" /\ server'.pc = "free_dsp" /\ server'.i = 1 /\ n = Mix /\ name' = name
         \/ /\ server.pc = "free_dsp" /\ n = server.i /\ name' = name
            /\ \/ server.i < NDsp /\ server'.pc = "free_dsp" /\ server'.i = server.i + 1
               \/ server.i = NDsp /\ server'.pc = "free_ctrl"
         \/ server.pc = "free_ctrl" /\ server'.pc = "exit" /\ n = Ctrl /\ name' = 0
  <2>1. server.i \in Dsp
    BY DEF TypeOK
  <2>2. UNCHANGED <<seg, active, wired, mixed, cb, client>>
    BY DEF ManagerFree
  <2>3. CASE At("free_mix", "free_dsp") /\ Close(Mix) /\ UNCHANGED name
    BY <2>1, <2>2, <2>3, AtFacts DEF ServerPc
  <2>4. CASE Each("free_dsp", "free_ctrl") /\ Close(server.i) /\ UNCHANGED name
    BY <2>1, <2>2, <2>4, EachFacts DEF ServerPc
  <2>5. CASE At("free_ctrl", "exit") /\ Close(Ctrl) /\ name' = 0
    BY <2>1, <2>2, <2>5, AtFacts DEF ServerPc
  <2> QED
    BY <2>3, <2>4, <2>5 DEF ManagerFree
<1>1. /\ n \notin cb /\ node' \in [Node -> {"none", "made", "active"}] /\ node'[n] = "none"
      /\ \A m \in Node : m # n => node'[m] = node[m]
  BY <1>0 DEF Close, TypeOK
<1>2. TypeOK'
  <2>1. name' \in 0..Len(seg')
    BY <1>0, LenProperties DEF TypeOK
  <2> QED
    BY <1>0, <1>1, <2>1 DEF TypeOK
<1>3. RunsActive'
  BY <1>0, <1>1 DEF TypeOK, RunsActive
<1>4. Nodes'
  <2>1. /\ server'.pc = "free_dsp" =>
             node'[Mix] = "none" /\ \A d \in Dsp : d < server'.i => node'[d] = "none"
        /\ server'.pc \in {"free_ctrl", "exit"} => \A m \in Node \ {Ctrl} : node'[m] = "none"
        /\ server'.pc = "exit" => node'[Ctrl] = "none"
    BY <1>0, <1>1 DEF Nodes, Dsp
  <2>2. node'[Ctrl] # "active"
    BY <1>0, <1>1 DEF Nodes
  <2> QED
    BY <1>0, <2>1, <2>2 DEF Nodes
<1>5. Ports' /\ Named'
  BY <1>0 DEF Ports, Named, Mine
<1>6. Clients' /\ Counts'
  BY <1>0, ServerOnly
<1> QED
  BY <1>2, <1>3, <1>4, <1>5, <1>6

(* The process ends, wherever it is: its clients of JACK, its callbacks    *)
(* and the API clients in it end with it.                                  *)
LEMMA EndProcessInv == ASSUME Inv, server.pc # "down", EndProcess PROVE Inv'
<1> USE NodeFacts DEF Inv, ServerInv, Creating, Activating, Connecting, Freeing
<1>0. PICK s \in Nat : s = Mine
  BY LenProperties DEF TypeOK, Mine
<1> DEFINE K == {c \in Client : client[c].given}
<1>1. /\ server' = [pc |-> "down", i |-> 1] /\ node' = [n \in Node |-> "none"] /\ active' = FALSE
      /\ wired' = {} /\ mixed' = {} /\ cb' = {} /\ name' = name /\ EndClients(K, s)
  BY <1>0 DEF EndProcess
<1>2. K \in SUBSET Client /\ (K # {} => s \in 1..Len(seg))
      /\ \A c \in K : Counted(c) => client[c].seg = s
  BY <1>0, LenProperties DEF Clients, Counted, Mine, TypeOK
<1> HIDE DEF K
<1>3. /\ SegKept /\ Counts' /\ client' \in [Client -> Connection]
      /\ \A c \in Client : client'[c].seg = client[c].seg /\ client'[c].given = client[c].given
      /\ \A c \in K : client'[c].pc = "dead"
      /\ \A c \in Client \ K : client'[c] = client[c]
  BY <1>1, <1>2, EndClientsInv DEF ClientInv
<1>4. TypeOK'
  BY <1>1, <1>3 DEF TypeOK, SegKept, ServerPc
<1>5. RunsActive' /\ Nodes' /\ Ports'
  BY <1>1 DEF RunsActive, Nodes, Ports
<1>6. Named'
  BY <1>1 DEF Named
<1>7. Clients'
  BY <1>1, <1>3 DEF Clients, SegKept, K
<1> QED
  BY <1>3, <1>4, <1>5, <1>6, <1>7

(* shmem_create removes an old name first. *)
LEMMA StartInv == ASSUME Inv, Start PROVE Inv'
<1> USE NodeFacts DEF Inv, ServerInv, Creating, Activating, Connecting, Freeing
<1>0. /\ server.pc = "down" /\ server' \in [pc : ServerPc, i : Dsp] /\ server'.pc = "open"
      /\ name' = 0 /\ UNCHANGED <<seg, node, active, wired, mixed, cb, client>>
  BY AtFacts DEF Start, ServerPc
<1>1. TypeOK'
  BY <1>0, LenProperties DEF TypeOK
<1>2. RunsActive' /\ Nodes' /\ Ports' /\ Named'
  BY <1>0 DEF RunsActive, Nodes, Ports, Named
<1>3. Clients' /\ Counts'
  BY <1>0, ServerOnly
<1> QED
  BY <1>1, <1>2, <1>3

(* A new segment, which no client has seen. *)
LEMMA OpenInv == ASSUME Inv, Open PROVE Inv'
<1> USE NodeFacts DEF Inv, ServerInv, Creating, Activating, Connecting, Freeing
<1> DEFINE r == [base |-> FALSE, init |-> FALSE, refs |-> 0, clean |-> TRUE, lost |-> 0]
<1>0. /\ server.pc = "open" /\ server' \in [pc : ServerPc, i : Dsp] /\ server'.pc = "header"
      /\ seg' = Append(seg, r) /\ name' = Len(seg')
      /\ UNCHANGED <<node, active, wired, mixed, cb, client>>
  BY AtFacts DEF Open, ServerPc
<1>1. r \in Segment /\ ~ r.init /\ r.refs = 0 /\ r.lost = 0
  BY DEF Segment
<1> HIDE DEF r
<1>2. /\ Len(seg) \in Nat /\ seg' \in Seq(Segment) /\ Len(seg') = Len(seg) + 1
      /\ seg'[Len(seg) + 1] = r /\ \A s \in 1..Len(seg) : seg'[s] = seg[s]
  BY <1>0, <1>1, LenProperties DEF TypeOK
<1>3. TypeOK'
  BY <1>0, <1>2 DEF TypeOK
<1>4. RunsActive' /\ Nodes' /\ Ports'
  BY <1>0 DEF RunsActive, Nodes, Ports
<1>5. Named'
  BY <1>0, <1>1, <1>2 DEF Named, Mine
<1>6. Clients'
  BY <1>0, <1>2 DEF Clients
<1>7. Counts'
  <2>1. \A s \in 1..Len(seg) : CountedAt(s)' = CountedAt(s)
    BY <1>0 DEF CountedAt, Counted
  <2>2. CountedAt(Len(seg) + 1)' = {} /\ \A c \in Client : ~ Storing(c, Len(seg) + 1)'
    BY <1>0, <1>2 DEF CountedAt, Counted, Storing, Clients
  <2>3. ASSUME NEW s \in 1..Len(seg)
        PROVE  /\ seg'[s] = seg[s] /\ CountedAt(s)' = CountedAt(s)
               /\ \A c \in Client : client'[c] = client[c] /\ (Storing(c, s)' <=> Storing(c, s))
    BY <1>0, <1>2, <2>1 DEF Storing
  <2>4. PICK l \in Nat : l = Len(seg) + 1
    BY <1>2
  <2>5. /\ seg'[l] = r /\ 1..Len(seg') = 1..Len(seg) \cup {l}
        /\ CountedAt(l)' = {} /\ \A c \in Client : ~ Storing(c, l)'
    BY <1>0, <1>2, <2>4 DEF CountedAt, Counted, Storing, Clients
  <2>6. r.refs = r.lost + Cardinality(CountedAt(l)')
    BY <1>1, <2>5, FS_EmptySet
  <2>7. ASSUME NEW s \in 1..Len(seg), seg'[s].clean PROVE CountRight(s)'
    BY <2>3, <2>7 DEF Counts, CountRight
  <2>8. CountRight(l)'
    BY <1>1, <2>5, <2>6 DEF CountRight
  <2> QED
    BY <2>5, <2>7, <2>8 DEF Counts
<1> QED
  BY <1>3, <1>4, <1>5, <1>6, <1>7

(* The words the server writes before the queue is ready: base and size,   *)
(* reference_cnt, and the queue itself.  Nobody that counts is there yet,  *)
(* or the segment is not clean.                                            *)
LEMMA PrepareInv == ASSUME Inv, Header \/ Setup \/ QueueInit PROVE Inv'
<1> USE NodeFacts DEF Inv, ServerInv, Creating, Activating, Connecting, Freeing
<1>0. /\ server.pc \in {"header", "setup", "init"} /\ server' \in [pc : ServerPc, i : Dsp]
      /\ server'.i = 1
      /\ \/ server.pc = "header" /\ server'.pc = "setup"
         \/ server.pc = "setup" /\ server'.pc = "ctrl"
         \/ server.pc = "init" /\ server'.pc = "dsp"
      /\ UNCHANGED <<name, node, active, wired, mixed, cb, client>>
  BY AtFacts DEF Header, Setup, QueueInit, ServerPc
<1>1. PICK m \in 1..Len(seg) : m = Mine /\ ~ seg[m].init
  BY <1>0, LenProperties DEF TypeOK, Named, Mine
<1>2. seg[m] \in Segment /\ Len(seg) \in Nat
  BY LenProperties, ElementOfSeq DEF TypeOK
<1>3. PICK r \in Segment :
        /\ seg' = [seg EXCEPT ![m] = r] /\ r.clean = seg[m].clean /\ r.lost = seg[m].lost
        /\ r.refs \in {0, seg[m].refs} /\ (r.init <=> server.pc = "init")
  <2>1. CASE Header
    <3> DEFINE r == [seg[m] EXCEPT !.base = TRUE]
    <3>1. seg' = [seg EXCEPT ![m] = r]
      BY <1>1, <2>1 DEF Header
    <3>2. /\ r \in Segment /\ r.clean = seg[m].clean /\ r.lost = seg[m].lost
          /\ r.refs = seg[m].refs /\ ~ r.init
      BY <1>1, <1>2 DEF Segment
    <3> HIDE DEF r
    <3> QED
      BY <2>1, <3>1, <3>2 DEF Header, At
  <2>2. CASE Setup
    <3> DEFINE r == [seg[m] EXCEPT !.refs = 0]
    <3>1. seg' = [seg EXCEPT ![m] = r]
      BY <1>1, <2>2 DEF Setup
    <3>2. /\ r \in Segment /\ r.clean = seg[m].clean /\ r.lost = seg[m].lost
          /\ r.refs = 0 /\ ~ r.init
      BY <1>1, <1>2 DEF Segment
    <3> HIDE DEF r
    <3> QED
      BY <2>2, <3>1, <3>2 DEF Setup, At
  <2>3. CASE QueueInit
    <3> DEFINE r == [seg[m] EXCEPT !.init = TRUE]
    <3>1. seg' = [seg EXCEPT ![m] = r]
      BY <1>1, <2>3 DEF QueueInit
    <3>2. /\ r \in Segment /\ r.clean = seg[m].clean /\ r.lost = seg[m].lost
          /\ r.refs = seg[m].refs /\ r.init
      BY <1>1, <1>2 DEF Segment
    <3> HIDE DEF r
    <3> QED
      BY <2>3, <3>1, <3>2 DEF QueueInit, At
  <2> QED
    BY <2>1, <2>2, <2>3
<1>4. /\ seg' \in Seq(Segment) /\ Len(seg') = Len(seg)
      /\ seg'[m] = r /\ \A t \in 1..Len(seg) : t # m => seg'[t] = seg[t]
  BY <1>3, SegExcept DEF TypeOK
<1>5. TypeOK'
  BY <1>0, <1>4 DEF TypeOK
<1>6. RunsActive' /\ Nodes' /\ Ports'
  BY <1>0 DEF RunsActive, Nodes, Ports, Dsp
<1>7. Named'
  BY <1>0, <1>1, <1>3, <1>4 DEF Named, Mine
<1>8. Clients'
  BY <1>0, <1>4 DEF Clients
<1>9. Counts'
  <2>1. \A s \in 1..Len(seg) : CountedAt(s)' = CountedAt(s)
    BY <1>0 DEF CountedAt, Counted
  <2>2. \A s \in 1..Len(seg) : \A c \in Client : client'[c] = client[c] /\ (Storing(c, s)' <=> Storing(c, s))
    BY <1>0 DEF Storing
  <2>3. seg[m].clean => /\ seg[m].refs = 0 /\ seg[m].lost = 0 /\ CountedAt(m) = {}
                        /\ \A c \in Client : ~ Storing(c, m)
    <3> SUFFICES ASSUME seg[m].clean
                 PROVE  /\ seg[m].refs = 0 /\ seg[m].lost = 0 /\ CountedAt(m) = {}
                        /\ \A c \in Client : ~ Storing(c, m)
      OBVIOUS
    <3>1. /\ seg[m].refs = seg[m].lost + Cardinality(CountedAt(m))
          /\ seg[m].lost = 0 /\ CountedAt(m) = {} /\ \A c \in Client : ~ Storing(c, m)
      BY <1>1 DEF Counts, CountRight
    <3>2. Cardinality(CountedAt(m)) = 0
      BY <3>1, FS_EmptySet
    <3> QED
      BY <3>1, <3>2
  <2> QED
    BY <1>1, <1>3, <1>4, <2>1, <2>2, <2>3, FS_EmptySet DEF Counts, CountRight
<1> QED
  BY <1>5, <1>6, <1>7, <1>8, <1>9

(* A callback begins or ends. *)
LEMMA CallbackInv == ASSUME Inv, Callback PROVE Inv'
<1> USE NodeFacts DEF Inv, ServerInv
<1>1. CASE \E n \in Node : CallbackBegin(n) \/ CallbackEnd(n)
  <2>1. /\ UNCHANGED <<name, seg, server, node, active, wired, mixed, client>>
        /\ cb' \subseteq Node /\ \A n \in cb' : node[n] = "active"
    BY <1>1 DEF CallbackBegin, CallbackEnd, serverVars, TypeOK, RunsActive
  <2>2. TypeOK'
    BY <2>1 DEF TypeOK
  <2>3. RunsActive' /\ Nodes' /\ Ports' /\ Named'
    BY <2>1 DEF RunsActive, Nodes, Ports, Named, Mine
  <2> QED
    BY <2>1, <2>2, <2>3, ServerOnly
<1>2. CASE Xrun
  <2>1. server.pc # "down"
    BY <1>2 DEF Xrun, Nodes
  <2>2. CASE EndProcess
    BY <2>1, <2>2, EndProcessInv
  <2>3. CASE UNCHANGED <<name, seg, server, node, active, wired, mixed, cb, client>>
    <3>1. TypeOK' /\ RunsActive' /\ Nodes' /\ Ports' /\ Named'
      BY <2>3 DEF TypeOK, RunsActive, Nodes, Ports, Named, Mine
    <3> QED
      BY <2>3, <3>1, ServerOnly
  <2> QED
    BY <1>2, <2>2, <2>3 DEF Xrun
<1> QED
  BY <1>1, <1>2 DEF Callback

-----------------------------------------------------------------------------
(* Nothing exists at first, so the invariant holds. *)
LEMMA InitInv == Init => Inv
<1> SUFFICES ASSUME Init PROVE Inv
  OBVIOUS
<1> USE NodeFacts DEF Inv, ServerInv, Creating, Activating, Connecting, Freeing
<1>1. seg \in Seq(Segment) /\ Len(seg) = 0
  BY EmptySeq DEF Init
<1>2. client \in [Client -> Connection]
  BY DEF Init, Connection, ClientPc
<1>3. TypeOK
  <2>1. name \in 0..Len(seg) /\ server \in [pc : ServerPc, i : Dsp]
    BY <1>1 DEF Init, ServerPc
  <2>2. node \in [Node -> {"none", "made", "active"}] /\ active = FALSE
        /\ wired = {} /\ mixed = {} /\ cb = {}
    BY DEF Init
  <2> QED
    BY <1>1, <1>2, <2>1, <2>2 DEF TypeOK
<1>4. RunsActive /\ Nodes /\ Ports /\ Named
  BY DEF Init, RunsActive, Nodes, Ports, Named
<1>5. Clients /\ Counts
  BY <1>1 DEF Init, Clients, Counts, CountRight
<1> QED
  BY <1>3, <1>4, <1>5

(* Every step of the server, its JACK threads and the clients keeps the invariant. *)
LEMMA StepInv == ASSUME Inv, [Next]_vars PROVE Inv'
<1>1. CASE Creation
  BY <1>1, StartInv, OpenInv, PrepareInv, NewCtrlInv, NewMixInv, NewDspInv, ActivateMixInv,
     ActivateDspInv, ActivateCtrlInv, ConnectInv DEF Creation
<1>2. CASE Ending
  BY <1>2, ShutdownInv, DeactivateInv, ManagerFreeInv, EndProcessInv
     DEF Ending, Exit, NullClient, SignalEarly, Die
<1>3. CASE Callback
  BY <1>3, CallbackInv
<1>4. CASE \E c \in Client : ClientStep(c)
  BY <1>4, ClientStepInv
<1>5. CASE UNCHANGED vars
  <2>1. ServerInv'
    BY <1>5 DEF vars, serverVars, Inv, ServerInv, TypeOK, RunsActive, Nodes, Ports, Named, Mine
  <2> QED
    BY <1>5, <2>1, ServerOnly DEF vars, serverVars, Inv
<1> QED
  BY <1>1, <1>2, <1>3, <1>4, <1>5 DEF Next, AtRest

(* The invariant holds throughout, for any numbers of dsp clients, API     *)
(* clients, starts and calls.                                              *)
THEOREM LifecycleInvariant == Spec => []Inv
BY InitInv, StepInv, PTL DEF Spec

(* No callback of the JACK thread uses a client that manager_free has      *)
(* closed, whenever the server ends and however its start failed.          *)
THEOREM ServerCallbackSafe == Spec => []CallbackSafe
<1>1. Inv => CallbackSafe
  BY NodeFacts DEF Inv, ServerInv, TypeOK, RunsActive, Nodes, CallbackSafe
<1> QED
  BY <1>1, LifecycleInvariant, PTL

(* What the way to the end has done: manager_new went on only with a ctrl  *)
(* and a mix client, the clients are made and deactivated one by one, and  *)
(* with the ctrl and the mix client their connections go.                  *)
Undone ==
  /\ server.pc \notin {"down", "open", "header", "setup", "ctrl", "mix", "free_dsp", "free_ctrl", "exit"} =>
       node[Ctrl] # "none" /\ node[Mix] # "none"
  /\ server.pc \in {"deactivate_dsp", "deactivate_mix", "free_mix"} => node[Ctrl] = "made"
  /\ server.pc = "deactivate_dsp" => \A d \in Dsp : d < server.i => node[d] = "made"
  /\ server.pc \in {"deactivate_mix", "free_mix"} => \A d \in Dsp : node[d] = "made"
  /\ server.pc = "free_mix" => node[Mix] = "made"
  /\ server.pc \in Freeing => wired = {}
  /\ server.pc \in {"free_mix", "free_dsp", "free_ctrl", "exit"} => mixed = {}

(* Every step keeps it; the steps that count are those of                  *)
(* manager_deactivate_clients.                                             *)
LEMMA StepUndone == ASSUME Inv, Undone, [Next]_vars PROVE Undone'
<1> USE NodeFacts DEF Creating, Activating, Connecting, Freeing
<1>0. /\ server \in [pc : ServerPc, i : Dsp] /\ server.i \in Dsp
      /\ node \in [Node -> {"none", "made", "active"}] /\ wired \subseteq Dsp /\ mixed \subseteq Dsp
  BY DEF Inv, ServerInv, TypeOK
<1>1. CASE EndProcess
  BY <1>1 DEF EndProcess, Undone
<1>2. CASE Start \/ Open \/ Header \/ Setup \/ NewCtrl
  BY <1>2, AtFacts DEF Start, Open, Header, Setup, NewCtrl, ServerPc, Undone
<1>3. CASE NewMix
  BY <1>0, <1>3, AtFacts DEF NewMix, ServerPc, Undone
<1>4. CASE QueueInit
  BY <1>4, AtFacts DEF QueueInit, ServerPc, Undone
<1>5. CASE NewDsp
  <2>1. server.pc = "dsp" /\ server'.pc \in {"dsp", "activate_mix"}
    BY <1>5, EachFacts DEF NewDsp, ServerPc, Inv, ServerInv
  <2>2. node'[Ctrl] = node[Ctrl] /\ node'[Mix] = node[Mix]
    BY <1>0, <1>5 DEF NewDsp, Make
  <2> QED
    BY <2>1, <2>2 DEF Undone
<1>6. CASE ActivateMix \/ ActivateDsp \/ ActivateCtrl
  <2>1. /\ server.pc \in {"activate_mix"} \cup Activating
        /\ server'.pc \in Activating \cup {"connect", "deactivate_ctrl"}
    BY <1>6, AtFacts, EachFacts DEF ActivateMix, ActivateDsp, ActivateCtrl, Fail, ServerPc, Inv, ServerInv
  <2>2. \A n \in Node : node'[n] \in {node[n], "active"}
    BY <1>0, <1>6 DEF ActivateMix, ActivateDsp, ActivateCtrl
  <2> QED
    BY <2>1, <2>2 DEF Undone
<1>7. CASE Connect \/ Shutdown
  <2>1. /\ server.pc \in Connecting \cup {"running"}
        /\ server'.pc \in Connecting \cup {"running", "deactivate_ctrl"}
    BY <1>7, AtFacts, EachFacts DEF Connect, Shutdown, Fail, ServerPc, Inv, ServerInv
  <2>2. UNCHANGED node
    BY <1>7 DEF Connect, Shutdown
  <2> QED
    BY <2>1, <2>2 DEF Undone
<1>8. CASE Deactivate
  <2>1. CASE At("deactivate_ctrl", "deactivate_dsp") /\ JackDeactivate(Ctrl)
    <3>1. server.pc = "deactivate_ctrl" /\ server'.pc = "deactivate_dsp" /\ server'.i = 1
      BY <2>1, AtFacts DEF ServerPc
    <3>2. /\ wired' = {} /\ node'[Mix] = node[Mix]
          /\ node[Ctrl] # "none" => node'[Ctrl] = "made"
      BY <1>0, <2>1 DEF JackDeactivate
    <3>3. \A d \in Dsp : ~ (d < 1)
      BY DEF Dsp
    <3> QED
      BY <3>1, <3>2, <3>3 DEF Undone
  <2>2. CASE Each("deactivate_dsp", "deactivate_mix") /\ node[server.i] # "none" /\ JackDeactivate(server.i)
    <3>1. /\ server.pc = "deactivate_dsp"
          /\ \/ server.i < NDsp /\ server'.pc = "deactivate_dsp" /\ server'.i = server.i + 1
             \/ server.i = NDsp /\ server'.pc = "deactivate_mix"
      BY <2>2, EachFacts DEF ServerPc, Inv, ServerInv
    <3>2. /\ node'[server.i] = "made" /\ \A n \in Node : n # server.i => node'[n] = node[n]
          /\ wired' = wired \ {server.i}
      BY <1>0, <2>2 DEF JackDeactivate
    <3>3. /\ \A d \in Dsp : d < server.i + 1 => d < server.i \/ d = server.i
          /\ server.i = NDsp => \A d \in Dsp : d < server.i \/ d = server.i
      BY <1>0, LifecycleAssumption DEF Dsp
    <3>4. \A d \in Dsp : d < server.i => node'[d] = "made"
      BY <1>0, <3>1, <3>2 DEF Undone, Dsp
    <3>5. wired' = {} /\ node'[Ctrl] = "made" /\ node'[Mix] # "none"
      BY <1>0, <3>1, <3>2 DEF Undone
    <3> QED
      BY <1>0, <3>1, <3>2, <3>3, <3>4, <3>5 DEF Undone
  <2>3. CASE At("deactivate_mix", "free_mix") /\ JackDeactivate(Mix)
    <3>1. server.pc = "deactivate_mix" /\ server'.pc = "free_mix"
      BY <2>3, AtFacts DEF ServerPc
    <3>2. /\ mixed' = {} /\ wired' = wired \ {Mix}
          /\ node[Mix] \in {"made", "active"} => node'[Mix] = "made"
          /\ \A n \in Node : n # Mix => node'[n] = node[n]
      BY <1>0, <2>3 DEF JackDeactivate
    <3> QED
      BY <1>0, <3>1, <3>2 DEF Undone
  <2> QED
    BY <1>8, <2>1, <2>2, <2>3 DEF Deactivate
<1>9. CASE ManagerFree
  <2>1. /\ server.pc \in {"free_mix", "free_dsp", "free_ctrl"}
        /\ server'.pc \in {"free_dsp", "free_ctrl", "exit"}
    BY <1>9, AtFacts, EachFacts DEF ManagerFree, ServerPc, Inv, ServerInv
  <2>2. UNCHANGED <<wired, mixed>>
    BY <1>9 DEF ManagerFree
  <2> QED
    BY <2>1, <2>2 DEF Undone
<1>10. CASE UNCHANGED <<server, node, wired, mixed>>
  BY <1>10 DEF Undone
<1>11. (\E n \in Node : CallbackBegin(n) \/ CallbackEnd(n)) \/ (\E c \in Client : ClientStep(c))
         \/ AtRest \/ UNCHANGED vars => UNCHANGED <<server, node, wired, mixed>>
  BY DEF CallbackBegin, CallbackEnd, ClientStep, Link, LinkGiven, Map, Load, Count, Unlink,
         Uncount, Kill, AtRest, vars, serverVars
<1>12. Xrun => EndProcess \/ UNCHANGED <<server, node, wired, mixed>>
  BY DEF Xrun
<1>13. CASE Creation
  BY <1>2, <1>3, <1>4, <1>5, <1>6, <1>7, <1>13 DEF Creation
<1>14. CASE Ending
  BY <1>1, <1>7, <1>8, <1>9, <1>14 DEF Ending, Exit, NullClient, SignalEarly, Die
<1>15. CASE Callback
  BY <1>1, <1>10, <1>11, <1>12, <1>15 DEF Callback
<1> QED
  BY <1>10, <1>11, <1>13, <1>14, <1>15 DEF Next

(* manager_free frees only what was made and deactivated, whether a server *)
(* ends or a failed start is undone, and when it is through no client, no  *)
(* callback, no connection and no name of the memory is left; an undo that *)
(* meets a client that is NULL ends the process before.                    *)
THEOREM ServerNothingLeft == Spec => []NothingLeft
<1>1. Init => Undone
  BY DEF Init, Undone, Freeing
<1>2. Undone /\ Inv /\ [Next]_vars => Undone'
  BY StepUndone
<1>3. Inv /\ Undone => NothingLeft
  <2> SUFFICES ASSUME Inv, Undone PROVE NothingLeft
    OBVIOUS
  <2>1. server.pc = "free_mix" => \A n \in Node : node[n] = "made"
    BY NodeFacts DEF Undone
  <2>2. ASSUME server.pc = "exit"
        PROVE  name = 0 /\ cb = {} /\ wired = {} /\ mixed = {} /\ \A n \in Node : node[n] = "none"
    <3>1. name = 0 /\ (\A n \in Node : node[n] = "none") /\ wired = {} /\ mixed = {}
      BY <2>2 DEF Inv, ServerInv, Named, Nodes, Undone, Freeing
    <3> QED
      BY <3>1 DEF Inv, ServerInv, TypeOK, RunsActive
  <2> QED
    BY <2>1, <2>2 DEF NothingLeft
<1> QED
  BY <1>1, <1>2, <1>3, LifecycleInvariant, PTL DEF Spec

(* manager_create returns a manager only with the queue ready, every       *)
(* client active and every port connected.                                 *)
THEOREM ServerAllInPlace == Spec => []AllInPlace
<1>1. Inv => AllInPlace
  <2> SUFFICES ASSUME Inv, server.pc = "running"
               PROVE  /\ name = Mine /\ seg[Mine].init
                      /\ active /\ \A n \in Node : node[n] = "active"
                      /\ wired = Dsp /\ mixed = Dsp
    BY DEF AllInPlace
  <2> QED
    BY NodeFacts DEF Inv, ServerInv, Named, Nodes, Ports, Mine
<1> QED
  BY <1>1, LifecycleInvariant, PTL

(* reference_cnt is the number of linked clients and of those that ended   *)
(* without jfofs_free, for any number of them, as long as nobody came      *)
(* before the queue was ready and no two stores of the count overlapped.   *)
THEOREM ServerRefCount == Spec => []RefCount
<1>1. Inv => RefCount
  BY DEF Inv, Counts, CountRight, RefCount, CountedAt
<1> QED
  BY <1>1, LifecycleInvariant, PTL
=============================================================================
