------------------------------ MODULE CtrlClient ------------------------------
(***************************************************************************)
(* The ctrl client (ctrl_client.c) and what it drives: once per JACK cycle *)
(* it moves the queue's clock, takes the slot of the cycle, hands its fofs *)
(* to the dsp clients in turn and gives them back to the pool.  It flushes *)
(* the queue when the clock source changes or the transport jumps.  API    *)
(* clients add fofs and choose the clock source at any moment.             *)
(*                                                                         *)
(* JACK and libfofs are external: JACK calls the ctrl client and the dsp   *)
(* clients once per cycle, in that order once the ports are connected, and *)
(* keeps the transport still during a cycle.  The free running clock of    *)
(* JACK starts with the server.                                            *)
(***************************************************************************)
EXTENDS FofQueue

CONSTANTS Buffers,     \* the values of nframes: sizes of a JACK buffer
          NDsp,        \* setup.n_clients
          Clocks,      \* clock sources the clients select: subset of ClockSource
          Locates,     \* frames the transport may be located to
          MaxUnwired,  \* bound: cycles before manager_connect_clients takes effect
          MaxCycle     \* bound: JACK cycles

ClockSource == {"frame", "transport"}

ASSUME CtrlAssumption ==
  /\ Buffers \subseteq Nat \ {0} /\ Buffers # {} /\ NDsp \in 1..8    \* MAX_DSP_CLIENTS is 8
  /\ Clocks \subseteq ClockSource /\ Locates \subseteq Nat
  /\ MaxUnwired \in Nat /\ MaxCycle \in Nat

Dsp == 0..NDsp - 1

VARIABLES
  clock_source,  \* q->clock_source
  frame_stamp,   \* q->frame_stamp
  ctrl,          \* the fields of ctrl_client_t the callback keeps, and its n and m
  jack,          \* external: the cycle's number, its time and size, the frames
                 \*   that passed in it (tick), its transport, and the dsp clients
                 \*   that ran ahead of the ctrl client in it
  bank,          \* external: the next frame of each dsp client's fof bank
  hist           \* history of a fof in the queue: next_frame and the JACK cycle when
                 \*   it was linked, and how often it was handed to a dsp client

serverVars == <<frame_stamp, ctrl, jack, bank, hist>>
vars == <<poolVars, queueVars, clock_source, serverVars>>

UsesTransport(cs) == cs = "transport"

(* What a step does to the history: a fof that enters the queue starts a   *)
(* new one, a fof that leaves for the free list forgets it.                *)
NoHist == [ins |-> 0, born |-> 0, given |-> 0]
Record == hist' = [f \in Fof |->
            IF own'[f] = own[f] THEN hist[f]
            ELSE IF own'[f] \in Slot \cup {EXCESS}
            THEN [ins |-> next_frame, born |-> jack.cycle, given |-> 0]
            ELSE NoHist]

(* setup.clock_source is the frame time unless Clocks offers only transport. *)
CtrlInit ==
  /\ QueueInit
  /\ clock_source = IF "frame" \in Clocks THEN "frame" ELSE "transport"
  /\ frame_stamp = 0
  /\ ctrl = [clock_source |-> clock_source, syncronized |-> FALSE,
             transport_frame |-> 0, rolling |-> FALSE, last_dsp |-> 0, n |-> 0, m |-> 0]
  /\ jack = [cycle |-> 0, time |-> 0, nframes |-> 0, tick |-> 0,
             pos |-> 0, rolling |-> FALSE, ahead |-> {}]
  /\ \E k \in Buffers \cup {0} : bank = [d \in Dsp |-> k]  \* dsp clients start first
  /\ hist = [f \in Fof |-> NoHist]

-----------------------------------------------------------------------------
(* The dsp clients that JACK may run before the ctrl client: none once     *)
(* manager_connect_clients, which follows the activation, has taken effect.*)
MayRunAhead == IF jack.cycle < MaxUnwired THEN Dsp ELSE {}

(* External.  A cycle may have a buffer of another size.  Between two      *)
(* cycles the transport may start, stop or be located; a rolling one moves *)
(* on by the buffer of the last cycle, and may or may not do so once more  *)
(* in the cycle that stops it.  The dsp clients in A run first.            *)
JackCycle ==
  /\ jack.cycle < MaxCycle
  /\ Goto(Ctrl, "idle", "begin")
  /\ \E r \in (IF "transport" \in Clocks THEN BOOLEAN ELSE {FALSE}),
        b \in Buffers, A \in SUBSET MayRunAhead :
     \E p \in Locates \cup (IF jack.rolling THEN {jack.pos + jack.nframes} ELSE {jack.pos})
                      \cup (IF jack.rolling /\ ~ r THEN {jack.pos} ELSE {}) :
       /\ jack' = [cycle |-> jack.cycle + 1, time |-> jack.time + jack.nframes, nframes |-> b,
                   tick |-> 0, pos |-> p, rolling |-> r, ahead |-> A]
       /\ bank' = [d \in Dsp |-> IF d \in A THEN bank[d] + b ELSE bank[d]]
  /\ UNCHANGED <<free_fofs, next, fof, tail, exp, own, queueVars,
                 clock_source, frame_stamp, ctrl, hist>>

(* get_framestamp: the transport's frame, or JACK's frame time. *)
FrameStamp(cs) == IF UsesTransport(cs) THEN jack.pos ELSE jack.time + jack.tick

(* ctrl_transport_discontinuity *)
Discontinuity(cs, sync) ==
  /\ UsesTransport(cs) /\ sync
  /\ FrameStamp(cs) # ctrl.transport_frame
                  + (IF jack.rolling /\ ctrl.rolling THEN jack.nframes ELSE 0)

(* Bug: a change of the clock source leaves ctrl->syncronized set. *)
StaysInStepOnChange(change, jump) == ~ jump

(* ctrl->syncronized is cleared by a change of the clock and by a jump. *)
StaysInStep(change, jump) == ~ change /\ ~ jump

(* The clock source and the frame stamp are read; a change of the clock or *)
(* a jump of the transport starts a flush.  After a change syncronized is  *)
(* 0 and there is no second flush.                                         *)
CtrlBegin ==
  LET cs     == clock_source
      change == cs # ctrl.clock_source
      jump   == ~ change /\ Discontinuity(cs, ctrl.syncronized)
  IN /\ Goto(Ctrl, "begin", IF change \/ jump THEN "flush" ELSE "advance")
     /\ flush_i' = IF change \/ jump THEN FlushFirst ELSE flush_i
     /\ ctrl' = [ctrl EXCEPT !.clock_source = cs, !.syncronized = @ /\ StaysInStep(change, jump),
                             !.m = FrameStamp(cs)]
     /\ UNCHANGED <<free_fofs, next, fof, tail, exp, own, ringVars, next_frame, cacheVars,
                    callVars, clock_source, frame_stamp, jack, bank, hist>>

CtrlFlush == FlushStep /\ UNCHANGED <<clock_source, serverVars>>

(* Bug: next_frame is advanced for every dsp client. *)
FrameStepPerDsp == jack.nframes * NDsp

(* The third argument of the fetch-and-add. *)
FrameStep == jack.nframes

(* The transport's frame is stored; the frame time clock is advanced and   *)
(* the cycle works on the value before.                                    *)
CtrlAdvance ==
  /\ Move(Ctrl, "advance", "stamp")
  /\ \/ /\ UsesTransport(ctrl.clock_source)
        /\ ctrl' = [ctrl EXCEPT !.n = ctrl.m] /\ next_frame' = ctrl.m
     \/ /\ ~ UsesTransport(ctrl.clock_source)
        /\ ctrl' = [ctrl EXCEPT !.n = next_frame] /\ next_frame' = next_frame + FrameStep
  /\ UNCHANGED <<ringVars, cacheVars, callVars, flush_i,
                 clock_source, frame_stamp, jack, bank, hist>>

CtrlStamp ==
  /\ Move(Ctrl, "stamp", "take")
  /\ frame_stamp' = ctrl.m
  /\ ctrl' = [ctrl EXCEPT !.transport_frame = ctrl.m, !.syncronized = TRUE,
                !.rolling = jack.rolling \/ ~ UsesTransport(ctrl.clock_source)]
  /\ bank' = IF ~ ctrl.syncronized \/ UsesTransport(ctrl.clock_source)
             THEN [d \in Dsp |-> ctrl.n] ELSE bank
  /\ UNCHANGED <<queueVars, clock_source, jack, hist>>

(* The exchange of the cycle's slot.  first_fof is fof[Ctrl], last_fof is  *)
(* tail[Ctrl] and exp[Ctrl] runs through the list.                         *)
CtrlTake ==
  LET s == SlotOf(ctrl.n)
  IN /\ Goto(Ctrl, "take", "deliver")
     /\ slot' = [slot EXCEPT ![s] = NULL]
     /\ Detach(s, slot[s])
     /\ exp' = [exp EXCEPT ![Ctrl] = slot[s]]
     /\ UNCHANGED <<free_fofs, next, tail, excess, next_frame, cacheVars,
                    callVars, flush_i, clock_source, serverVars>>

(* Bug: every dsp client gets the fof. *)
CtrlDeliverAll ==
  /\ pc[Ctrl] = "deliver"
  /\ \/ /\ exp[Ctrl] # NULL
        /\ hist' = [hist EXCEPT ![exp[Ctrl]].given = @ + NDsp]
        /\ tail' = [tail EXCEPT ![Ctrl] = exp[Ctrl]]
        /\ exp' = [exp EXCEPT ![Ctrl] = next[@]]
        /\ UNCHANGED <<pc, ctrl>>
     \/ /\ exp[Ctrl] = NULL
        /\ Goto(Ctrl, "deliver", IF fof[Ctrl] = NULL THEN "dsp" ELSE "free_load")
        /\ UNCHANGED <<hist, ctrl, tail, exp>>
  /\ UNCHANGED <<free_fofs, next, fof, own, queueVars, clock_source, frame_stamp, jack, bank>>

(* One fof to the dsp client whose turn it is; at the end of the list the  *)
(* whole of it is given back.                                              *)
CtrlDeliver ==
  /\ pc[Ctrl] = "deliver"
  /\ \/ /\ exp[Ctrl] # NULL
        /\ hist' = [hist EXCEPT ![exp[Ctrl]].given = @ + 1]
        /\ ctrl' = [ctrl EXCEPT !.last_dsp = (@ + 1) % NDsp]
        /\ tail' = [tail EXCEPT ![Ctrl] = exp[Ctrl]]
        /\ exp' = [exp EXCEPT ![Ctrl] = next[@]]
        /\ UNCHANGED pc
     \/ /\ exp[Ctrl] = NULL
        /\ Goto(Ctrl, "deliver", IF fof[Ctrl] = NULL THEN "dsp" ELSE "free_load")
        /\ UNCHANGED <<hist, ctrl, tail, exp>>
  /\ UNCHANGED <<free_fofs, next, fof, own, queueVars, clock_source, frame_stamp, jack, bank>>

(* fof_queue_free_fofs, called by the flush and at the end of the callback. *)
CtrlFree ==
  /\ FreeLoad(Ctrl) \/ FreeCas(Ctrl, IF flush_i = NotFlushing THEN "dsp" ELSE "flush")
  /\ Record
  /\ UNCHANGED <<queueVars, clock_source, frame_stamp, ctrl, jack, bank>>

(* dsp_client_process of the other dsp clients: fof_next moves the bank on. *)
DspProcess ==
  /\ Move(Ctrl, "dsp", "idle")
  /\ bank' = [d \in Dsp |-> IF d \in jack.ahead THEN bank[d] ELSE bank[d] + jack.nframes]
  /\ UNCHANGED <<queueVars, clock_source, frame_stamp, ctrl, jack, hist>>

CallbackStep == \/ CtrlBegin \/ CtrlFlush \/ CtrlAdvance \/ CtrlStamp \/ CtrlTake
                \/ CtrlDeliver \/ CtrlFree \/ DspProcess

-----------------------------------------------------------------------------
(* A call of jfofs_add. *)
ClientAdd(c) ==
  /\ Add(c) \/ AddStep(c)
  /\ Record
  /\ UNCHANGED <<clock_source, frame_stamp, ctrl, jack, bank>>

(* jfofs_set_clock_source, called between two calls of jfofs_add. *)
SetClockSource(c) ==
  /\ pc[c] = "idle"
  /\ clock_source' \in Clocks
  /\ UNCHANGED <<poolVars, queueVars, serverVars>>

(* The bounds are reached and every process is at rest. *)
AtRest == /\ \A p \in Proc : pc[p] = "idle"
          /\ jack.cycle = MaxCycle /\ \A c \in Client : adds[c] = MaxAdds
          /\ UNCHANGED vars

Next == \/ JackCycle \/ CallbackStep
        \/ \E c \in Client : ClientAdd(c) \/ SetClockSource(c)
        \/ AtRest

Spec == CtrlInit /\ [][Next]_vars

(* JACK keeps cycling and its callbacks run; a client that is inside a     *)
(* call keeps running.  Nobody is forced to call.                          *)
FairSpec == /\ Spec
            /\ WF_vars(JackCycle \/ CallbackStep)
            /\ \A c \in Client : WF_vars(ClientAdd(c) /\ pc[c] # "idle")

-----------------------------------------------------------------------------
(* The server's state has its type. *)
CtrlTypeOK ==
  /\ QueueTypeOK
  /\ clock_source \in ClockSource /\ frame_stamp \in Nat
  /\ ctrl \in [clock_source : ClockSource, syncronized : BOOLEAN, transport_frame : Nat,
               rolling : BOOLEAN, last_dsp : Dsp, n : Nat, m : Nat]
  /\ jack \in [cycle : 0..MaxCycle, time : Nat, nframes : Buffers \cup {0}, tick : Nat,
               pos : Nat, rolling : BOOLEAN, ahead : SUBSET Dsp]
  /\ bank \in [Dsp -> Nat] /\ hist \in [Fof -> [ins : Nat, born : Nat, given : Nat]]

Linked(f) == own[f] \in Slot
Delivering(f) == pc[Ctrl] = "deliver" /\ exp[Ctrl] = f

(* Every fof is in exactly one place: the free list, the slot it was       *)
(* linked in, the excess list, a client's hands or the ctrl client's, and  *)
(* every list ends.  No interleaving of fof_queue_add, the callback and    *)
(* the flush loses a fof or links it twice.                                *)
Partition ==
  /\ FreeListIntegrity
  /\ \A s \in Slot : Ending(slot[s]) /\ Chain(slot[s]) = Owned(s)
  /\ Ending(excess) /\ Chain(excess) = Owned(EXCESS)
  /\ \A c \in Client : Owned(c) \subseteq {fof[c]}
  /\ pc[Ctrl] \in {"idle", "begin", "flush", "advance", "dsp"} => Owned(Ctrl) = {}

(* A fof linked while its start frame was not yet past is handed to a dsp  *)
(* client no later than the cycle that plays that frame.                   *)
OnTime == \A f \in Fof : Delivering(f) /\ hist[f].ins <= Start(f) => ctrl.n <= Start(f)

(* A fof stays in the ring for at most one turn of it after it was linked, *)
(* even when it was linked behind the cycle's back (the glitch of          *)
(* fof_queue.c).                                                           *)
OneTurn == \A f \in Fof : Linked(f) =>
             next_frame < hist[f].ins + NSlots * BufferSize + jack.nframes

(* The banks of the dsp clients stand at the cycle's frame whenever fofs   *)
(* are handed to them, across changes of the clock and transport jumps and *)
(* from the first cycle on: the order the connections impose is what it    *)
(* rests on.                                                               *)
BanksInStep == pc[Ctrl] \in {"take", "deliver", "free_load", "free_cas", "dsp"}
                 /\ flush_i = NotFlushing => \A d \in Dsp : bank[d] = ctrl.n

(* The callback gives a fof back only after it was handed to a dsp client, *)
(* once; a fof in a slot was not handed out yet.                           *)
DeliveredOnce ==
  /\ \A f \in Fof : Linked(f) => hist[f].given = 0
  /\ pc[Ctrl] \in {"free_load", "free_cas"} /\ flush_i = NotFlushing =>
       \A f \in Owned(Ctrl) : hist[f].given = 1

(* A flush leaves nothing in the ring or the excess list that was there    *)
(* when its cycle began, whatever the clients add meanwhile.               *)
FlushDrains ==
  pc[Ctrl] = "advance" /\ ~ ctrl.syncronized /\ jack.cycle > 1 =>
    \A f \in Fof : Linked(f) \/ own[f] = EXCESS => hist[f].born = jack.cycle

(* The start frame of README.md, without the width of jack_nframes_t. *)
StartFrame(f) == (time_us[f] * SampleRate) \div Second

(* A fof enters the ring only if its start frame lies less than a turn of  *)
(* the ring ahead, the window README.md gives for JFOFS_SUCCESS, or if     *)
(* jack_nframes_t is too narrow for the frame: then it is linked as the    *)
(* near one its cut frame names, and in no other case.                     *)
AcceptedInWindow ==
  \A f \in Fof : Linked(f) => \/ StartFrame(f) < hist[f].ins + NSlots * BufferSize
                             \/ StartFrame(f) >= FrameMod

(* On the frame time clock a fof is rejected as late only if it starts     *)
(* before next_frame or at most a slot after it, however often             *)
(* next_frame moves during the call: the slow lane, which gives up when it *)
(* sees next_frame or its slot change, is never entered by a farther one.  *)
LateIsNear ==
  \A c \in Client : call[c].status = "late" /\ pc[c] \in {"free_load", "free_cas"} =>
    Start(fof[c]) <= next_frame + BufferSize

(* On the frame time clock, with JACK buffers the size of a slot, the ring *)
(* with its lanes, its cache and the callback implements the calendar of   *)
(* Schedule: a fof accepted in time is taken by the cycle of its start     *)
(* frame, any other within a turn, and what is taken is given back before  *)
(* the next cycle.                                                         *)
Calendar == INSTANCE Schedule WITH
  Turn <- NSlots * BufferSize, Step <- BufferSize, clock <- next_frame,
  calendar <- [f \in Fof |->
    IF own[f] \in Slot \cup {Ctrl}
    THEN [at |-> IF own[f] = Ctrl THEN "played" ELSE "due",
          start |-> Start(f), since |-> hist[f].ins]
    ELSE [at |-> "absent", start |-> 0, since |-> 0]]
CalendarSpec == Calendar!ScheduleSpec

(* jfofs_add returns although the callback moves next_frame, the slots and *)
(* the free list under it.                                                 *)
AddReturns == \A c \in Client : pc[c] # "idle" ~> pc[c] = "idle"
=============================================================================
