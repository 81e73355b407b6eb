------------------------------ MODULE Lifecycle -------------------------------
(***************************************************************************)
(* The life of the server and of its clients: the shared memory (shmem.c), *)
(* the manager that makes, activates, connects and frees the JACK clients  *)
(* (manager.c and the _new, _activate, _deactivate and _free functions),   *)
(* the program's exit (main.c), jfofs_new and jfofs_free (api.c), and the  *)
(* callbacks that run meanwhile.                                           *)
(*                                                                         *)
(* A server may be started again after it ended or died at any point.      *)
(* Shared memory outlives its name, as POSIX has it.  A run through NULL   *)
(* or memory that is not there ends the process.                           *)
(*                                                                         *)
(* External: an allocation, a JACK client or port, or a call of JACK may   *)
(* fail, but jack_deactivate succeeds.  It waits for the client's callback *)
(* to end, and does nothing to an inactive client.                         *)
(***************************************************************************)
EXTENDS Integers, Sequences, FiniteSets

CONSTANTS NDsp,       \* setup.n_clients
          Client,     \* processes that call jfofs_new
          MaxStarts,  \* bound: starts of the server
          MaxCalls,   \* bound: calls of jfofs_new per client
          XrunLimit   \* setup.xrun_limit, 0 for none

ASSUME LifecycleAssumption == /\ NDsp \in 1..8 /\ IsFiniteSet(Client) /\ MaxStarts \in Nat
                              /\ MaxCalls \in Nat /\ XrunLimit \in Nat

Dsp  == 1..NDsp
Ctrl == 0
Mix  == NDsp + 1
Node == Dsp \cup {Ctrl, Mix}   \* the JACK clients of the server

VARIABLES
  name,    \* the segment SHMEM_NAME stands for, 0 for none
  seg,     \* the segments: [base, init, refs, clean, lost]; clean and lost are
           \*   history: whether no client linked before fof_queue_init ended and
           \*   no two changes of reference_cnt overlapped; and how many clients
           \*   ended while they were counted
  server,  \* [pc, i]: where the main thread is, and its loop counter
  node,    \* each JACK client of the server: "none", "made" or "active"
  active,  \* ctrl->active
  wired,   \* dsp clients whose ports are connected to the ctrl client
  mixed,   \* dsp clients whose ports are connected to the mix client
  cb,      \* JACK clients whose callback is past its first test
  xruns,   \* ctrl->xruns
  client   \* [pc, seg, refs, calls, given] of each client; given: it runs in
           \*   the server's process and was given the memory

serverVars == <<server, node, active, wired, mixed, xruns>>
vars == <<name, seg, serverVars, cb, client>>

Mine == Len(seg)   \* the server's segment is the one created last

Init ==
  /\ name = 0 /\ seg = << >>
  /\ server = [pc |-> "down", i |-> 1]
  /\ node = [n \in Node |-> "none"] /\ active = FALSE
  /\ wired = {} /\ mixed = {} /\ cb = {} /\ xruns = 0
  /\ client = [c \in Client |-> [pc |-> "idle", seg |-> 0, refs |-> 0, calls |-> 0,
                               given |-> FALSE]]

At(from, to) == server.pc = from /\ server' = [pc |-> to, i |-> 1]
(* One round of a loop over the dsp clients. *)
Each(from, to) ==
  /\ server.pc = from
  /\ server' = IF server.i < NDsp THEN [server EXCEPT !.i = @ + 1] ELSE [pc |-> to, i |-> 1]

-----------------------------------------------------------------------------
(*                       shmem_create and manager_create                   *)

Start == /\ At("down", "open")
         /\ Len(seg) < MaxStarts
         /\ name' = 0
         /\ UNCHANGED <<seg, node, active, wired, mixed, xruns, cb, client>>

(* shm_open with O_EXCL, ftruncate and mmap: the memory is full of zeros. *)
Open == /\ At("open", "header")
        /\ seg' = Append(seg, [base |-> FALSE, init |-> FALSE, refs |-> 0, clean |-> TRUE,
                              lost |-> 0])
        /\ name' = Len(seg')
        /\ UNCHANGED <<node, active, wired, mixed, xruns, cb, client>>

(* base and size, from which on a client can map the segment. *)
Header == /\ At("header", "setup")
          /\ seg' = [seg EXCEPT ![Mine].base = TRUE]
          /\ UNCHANGED <<name, node, active, wired, mixed, xruns, cb, client>>

(* The rest of shmem_create; reference_cnt is set to 0. *)
Setup == /\ At("setup", "ctrl")
         /\ seg' = [seg EXCEPT ![Mine].refs = 0]
         /\ UNCHANGED <<name, node, active, wired, mixed, xruns, cb, client>>

Make(n) == node' \in {node, [node EXCEPT ![n] = "made"]}

(* manager_new goes on with a ctrl client or a dsp client that is NULL. *)
NewCtrl == /\ At("ctrl", "mix")
           /\ Make(Ctrl) /\ active' = FALSE /\ xruns' = 0
           /\ UNCHANGED <<name, seg, wired, mixed, cb, client>>

(* mgr->mix->q and mgr->ctrl->j_client go on only through clients that     *)
(* were made (NullClient).                                                 *)
NewMix == /\ At("mix", "init")
          /\ node[Ctrl] # "none"
          /\ node' = [node EXCEPT ![Mix] = "made"]
          /\ UNCHANGED <<name, seg, active, wired, mixed, xruns, cb, client>>

QueueInit == /\ At("init", "dsp")
             /\ seg' = [seg EXCEPT ![Mine].init = TRUE]
             /\ UNCHANGED <<name, node, active, wired, mixed, xruns, cb, client>>

NewDsp == /\ Each("dsp", "activate_mix")
          /\ Make(server.i)
          /\ UNCHANGED <<name, seg, active, wired, mixed, xruns, cb, client>>

(* manager_activate_clients.  A failure of jack_activate, here and in      *)
(* manager_connect_clients of jack_connect, makes manager_create free the  *)
(* manager.                                                                *)
Fail(from) == At(from, "deactivate_ctrl")

ActivateMix ==
  /\ \/ At("activate_mix", "activate_dsp") /\ node' = [node EXCEPT ![Mix] = "active"]
     \/ Fail("activate_mix") /\ UNCHANGED node
  /\ UNCHANGED <<name, seg, active, wired, mixed, xruns, cb, client>>

ActivateDsp ==
  /\ node[server.i] # "none"
  /\ \/ Each("activate_dsp", "activate_ctrl") /\ node' = [node EXCEPT ![server.i] = "active"]
     \/ Fail("activate_dsp") /\ UNCHANGED node
  /\ UNCHANGED <<name, seg, active, wired, mixed, xruns, cb, client>>

ActivateCtrl ==
  /\ active' = TRUE
  /\ \/ At("activate_ctrl", "connect") /\ node' = [node EXCEPT ![Ctrl] = "active"]
     \/ Fail("activate_ctrl") /\ UNCHANGED node
  /\ UNCHANGED <<name, seg, wired, mixed, xruns, cb, client>>

(* Bug: the status of jack_connect is ignored. *)
ConnectUnchecked ==
  /\ \/ Each("connect", "connect_mix") /\ wired' \in {wired, wired \cup {server.i}} /\ UNCHANGED mixed
     \/ Each("connect_mix", "running") /\ mixed' = mixed \cup {server.i} /\ UNCHANGED wired
  /\ UNCHANGED <<name, seg, node, active, xruns, cb, client>>

(* manager_connect_clients, its two loops. *)
Connect ==
  /\ \/ Each("connect", "connect_mix") /\ wired' = wired \cup {server.i} /\ UNCHANGED mixed
     \/ Each("connect_mix", "running") /\ mixed' = mixed \cup {server.i} /\ UNCHANGED wired
     \/ (Fail("connect") \/ Fail("connect_mix")) /\ UNCHANGED <<wired, mixed>>
  /\ UNCHANGED <<name, seg, node, active, xruns, cb, client>>

-----------------------------------------------------------------------------
(*                          The end of a server                            *)

(* The manager is given back: exit_handler in the main thread, after the   *)
(* sleep or in a signal handler (its own manager_deactivate_clients does   *)
(* what manager_free repeats).                                             *)
Shutdown == /\ Fail("running")
            /\ UNCHANGED <<name, seg, node, active, wired, mixed, xruns, cb, client>>

(* jack_deactivate disconnects the client's ports. *)
JackDeactivate(n) ==
  /\ n \notin cb
  /\ node' = [node EXCEPT ![n] = IF @ = "active" THEN "made" ELSE @]
  /\ wired' = IF n = Ctrl THEN {} ELSE wired \ {n}
  /\ mixed' = IF n = Mix THEN {} ELSE mixed \ {n}

(* Bug: the ctrl client is deactivated last, when it is freed. *)
DeactivateDsps ==
  /\ \/ At("deactivate_ctrl", "deactivate_dsp") /\ UNCHANGED <<node, wired, mixed>>
     \/ /\ Each("deactivate_dsp", "deactivate_mix")
        /\ node[server.i] # "none" /\ JackDeactivate(server.i)
     \/ At("deactivate_mix", "free_mix") /\ JackDeactivate(Mix)
  /\ UNCHANGED <<name, seg, active, xruns, cb, client>>

(* manager_deactivate_clients.  A dsp client that could not be made is met *)
(* here when the activation failed before its turn; its loop has no test   *)
(* for NULL and goes no further (NullClient).                              *)
Deactivate ==
  /\ \/ /\ At("deactivate_ctrl", "deactivate_dsp")
        /\ JackDeactivate(Ctrl) /\ active' = FALSE
     \/ /\ Each("deactivate_dsp", "deactivate_mix")
        /\ node[server.i] # "none"
        /\ JackDeactivate(server.i) /\ UNCHANGED active
     \/ /\ At("deactivate_mix", "free_mix")
        /\ JackDeactivate(Mix) /\ UNCHANGED active
  /\ UNCHANGED <<name, seg, xruns, cb, client>>

(* A deactivated client is closed and freed. *)
Close(n) == n \notin cb /\ node' = [node EXCEPT ![n] = "none"]

(* Bug: the name of the memory is kept. *)
ManagerFreeKeepsName ==
  /\ \/ At("free_mix", "free_dsp") /\ node' = [node EXCEPT ![Mix] = "none"]
     \/ Each("free_dsp", "free_ctrl") /\ node' = [node EXCEPT ![server.i] = "none"]
     \/ At("free_ctrl", "exit") /\ node' = [node EXCEPT ![Ctrl] = "none"]
  /\ UNCHANGED <<name, seg, active, wired, mixed, xruns, cb, client>>

(* The rest of manager_free: the clients are deactivated once more, closed *)
(* and freed, and the name of the memory is removed with the last.         *)
ManagerFree ==
  /\ \/ At("free_mix", "free_dsp") /\ Close(Mix) /\ UNCHANGED name
     \/ Each("free_dsp", "free_ctrl") /\ Close(server.i) /\ UNCHANGED name
     \/ At("free_ctrl", "exit") /\ Close(Ctrl) /\ name' = 0
  /\ UNCHANGED <<seg, active, wired, mixed, xruns, cb, client>>

(* The clients in K end; a count they hold in segment s is never taken     *)
(* back.                                                                   *)
Counted(c) == client[c].pc \in {"linked", "unload", "uncount"}
EndClients(K, s) ==
  /\ client' = [c \in Client |-> IF c \in K THEN [client[c] EXCEPT !.pc = "dead"] ELSE client[c]]
  /\ seg' = IF K = {} THEN seg
            ELSE [seg EXCEPT ![s].lost = @ + Cardinality({c \in K : Counted(c)})]

EndProcess ==
  /\ server' = [pc |-> "down", i |-> 1]
  /\ node' = [n \in Node |-> "none"] /\ active' = FALSE
  /\ wired' = {} /\ mixed' = {} /\ cb' = {} /\ xruns' = 0
  /\ EndClients({c \in Client : client[c].given}, Mine)
  /\ UNCHANGED name

(* exit, after manager_free. *)
Exit == server.pc = "exit" /\ EndProcess

(* A client that could not be made is used: the ctrl or the mix client in  *)
(* manager_new, a dsp client in the loops of manager_activate_clients and  *)
(* manager_deactivate_clients.  The process ends where it is and leaves    *)
(* the name of the memory, also when it was about to undo a failed start.  *)
NullClient ==
  /\ \/ server.pc = "mix"
     \/ server.pc \in {"activate_dsp", "deactivate_dsp"} /\ node[server.i] = "none"
  /\ EndProcess

(* The process ends without manager_free: shm_open, ftruncate, mmap or the *)
(* allocation of the manager failed, a second signal freed the manager     *)
(* twice, or the process was killed.                                       *)
Die == server.pc # "down" /\ EndProcess

(* termination_handler while manager_create runs: main's mgr is still NULL *)
(* and exit_handler frees nothing, neither clients nor the memory's name.  *)
SignalEarly ==
  /\ server.pc \in {"open", "header", "setup", "ctrl", "mix", "init", "dsp", "activate_mix",
                    "activate_dsp", "activate_ctrl", "connect", "connect_mix"}
  /\ EndProcess

-----------------------------------------------------------------------------
(*                        Callbacks of the JACK thread                     *)

(* A callback begins; the ctrl client's returns at once unless active.     *)
CallbackBegin(n) ==
  /\ node[n] = "active" /\ n \notin cb
  /\ n = Ctrl => active
  /\ cb' = cb \cup {n}
  /\ UNCHANGED <<name, seg, serverVars, client>>

CallbackEnd(n) ==
  /\ n \in cb
  /\ cb' = cb \ {n}
  /\ UNCHANGED <<name, seg, serverVars, client>>

(* ctrl_client_xrun_cb aborts the process at the limit. *)
Xrun ==
  /\ node[Ctrl] = "active" /\ XrunLimit # 0
  /\ \/ /\ xruns + 1 < XrunLimit
        /\ xruns' = xruns + 1
        /\ UNCHANGED <<name, seg, server, node, active, wired, mixed, cb, client>>
     \/ xruns + 1 >= XrunLimit /\ EndProcess

-----------------------------------------------------------------------------
(*                       jfofs_new and jfofs_free                          *)

Become(c, from, to) == client[c].pc = from /\ client' = [client EXCEPT ![c].pc = to]
OthersAt(c, s) == \E d \in Client \ {c} : client[d].seg = s /\ client[d].pc \in {"count", "uncount"}

(* jfofs_new without memory given by the caller, up to shm_open in         *)
(* shmem_link: without a name it fails.                                    *)
Link(c) ==
  /\ client[c].pc = "idle" /\ client[c].calls < MaxCalls
  /\ client' = [client EXCEPT ![c].calls = @ + 1, ![c].seg = name,
                              ![c].pc = IF name = 0 THEN "idle" ELSE "map"]
  /\ UNCHANGED <<name, seg, serverVars, cb>>

(* jfofs_new with memory given by the caller, a thread of the server's     *)
(* process that has a manager.                                             *)
LinkGiven(c) ==
  /\ server.pc = "running"
  /\ client[c].pc = "idle" /\ client[c].calls < MaxCalls
  /\ client' = [client EXCEPT ![c].calls = @ + 1, ![c].seg = Mine, ![c].pc = "load",
                              ![c].given = TRUE]
  /\ UNCHANGED <<name, seg, serverVars, cb>>

(* base and size are read.  Before the server has written them the second  *)
(* mmap fails, and its result is used before it is tested; mapping at base *)
(* may fail for good reasons too.  The client process ends.                *)
Map(c) ==
  /\ \/ Become(c, "map", "load") /\ seg[client[c].seg].base
     \/ Become(c, "map", "dead")
  /\ UNCHANGED <<name, seg, serverVars, cb>>

(* reference_cnt++ and reference_cnt-- are a load and a store. *)
Load(c) ==
  LET s == client[c].seg
  IN /\ client[c].pc \in {"load", "unload"}
     /\ client' = [client EXCEPT ![c].refs = seg[s].refs,
                     ![c].pc = IF @ = "load" THEN "count" ELSE "uncount"]
     /\ seg' = [seg EXCEPT ![s].clean = @ /\ seg[s].init /\ ~ OthersAt(c, s)]
     /\ UNCHANGED <<name, serverVars, cb>>

Count(c) ==
  /\ Become(c, "count", "linked")
  /\ seg' = [seg EXCEPT ![client[c].seg].refs = client[c].refs + 1]
  /\ UNCHANGED <<name, serverVars, cb>>

(* jfofs_free, by shmem_unmap or by itself, takes the count back. *)
Unlink(c) == Become(c, "linked", "unload") /\ UNCHANGED <<name, seg, serverVars, cb>>

(* Bug: the count is not taken back. *)
UncountNot(c) ==
  /\ client[c].pc = "uncount"
  /\ client' = [client EXCEPT ![c].pc = "idle", ![c].seg = 0, ![c].given = FALSE]
  /\ UNCHANGED <<name, seg, serverVars, cb>>

Uncount(c) ==
  /\ client[c].pc = "uncount"
  /\ client' = [client EXCEPT ![c].pc = "idle", ![c].seg = 0, ![c].given = FALSE]
  /\ seg' = [seg EXCEPT ![client[c].seg].refs = client[c].refs - 1]
  /\ UNCHANGED <<name, serverVars, cb>>

(* External: a client process ends without jfofs_free, anywhere. *)
Kill(c) ==
  /\ client[c].pc \notin {"idle", "dead"} /\ ~ client[c].given
  /\ EndClients({c}, client[c].seg)
  /\ UNCHANGED <<name, serverVars, cb>>

-----------------------------------------------------------------------------
Creation == \/ Start \/ Open \/ Header \/ Setup \/ NewCtrl \/ NewMix \/ QueueInit \/ NewDsp
            \/ ActivateMix \/ ActivateDsp \/ ActivateCtrl \/ Connect
Ending   == Shutdown \/ Deactivate \/ ManagerFree \/ Exit \/ NullClient \/ SignalEarly \/ Die
Callback == (\E n \in Node : CallbackBegin(n) \/ CallbackEnd(n)) \/ Xrun
ClientStep(c) == Link(c) \/ LinkGiven(c) \/ Map(c) \/ Load(c) \/ Count(c) \/ Unlink(c) \/ Uncount(c) \/ Kill(c)

(* The bounds are reached. *)
AtRest == /\ server.pc = "down" /\ Len(seg) = MaxStarts
          /\ \A c \in Client : client[c].pc = "dead" \/ client[c].calls = MaxCalls
          /\ UNCHANGED vars

Next == Creation \/ Ending \/ Callback \/ (\E c \in Client : ClientStep(c)) \/ AtRest

Spec == Init /\ [][Next]_vars

-----------------------------------------------------------------------------
(* No callback uses what is freed: the ctrl client's callback reaches all  *)
(* dsp clients, every callback its own client, and manager_free runs in    *)
(* another thread.                                                         *)
CallbackSafe ==
  \A n \in cb : /\ node[n] # "none"
                /\ n = Ctrl => \A d \in Dsp : node[d] # "none"

(* manager_free gets to freeing, at the end of a server or after a failed  *)
(* start, only with every client made and all of them deactivated, and     *)
(* then leaves no client, no callback, no connection and no name behind.   *)
(* An undo that meets a client that is NULL does not get there.            *)
NothingLeft ==
  /\ server.pc = "free_mix" => \A n \in Node : node[n] = "made"
  /\ server.pc = "exit" => /\ name = 0 /\ cb = {} /\ wired = {} /\ mixed = {}
                          /\ \A n \in Node : node[n] = "none"

(* manager_create returns a manager only if everything is in place: the    *)
(* queue ready, every client active and every port connected.              *)
AllInPlace ==
  server.pc = "running" =>
    /\ name = Mine /\ seg[Mine].init
    /\ active /\ \A n \in Node : node[n] = "active"
    /\ wired = Dsp /\ mixed = Dsp

(* reference_cnt is the number of clients that linked and did not free,    *)
(* plus those that ended without jfofs_free, which nothing takes back,     *)
(* over restarts of the server, as long as no client came before the queue *)
(* was ready and no two counted at the same time: there is no other way to *)
(* get it wrong.                                                           *)
RefCount ==
  \A s \in 1..Len(seg) : seg[s].clean =>
    seg[s].refs = seg[s].lost + Cardinality({c \in Client : client[c].seg = s /\ Counted(c)})
=============================================================================
