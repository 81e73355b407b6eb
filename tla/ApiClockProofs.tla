---------------------------- MODULE ApiClockProofs ----------------------------
(***************************************************************************)
(* Proofs about module ApiClock for every number of readers, every size of *)
(* the ring and any changes of the clock by one client: what current_frame *)
(* returns follows the queue's clock.                                      *)
(***************************************************************************)
EXTENDS ApiClock, CtrlClientProofs

(* The callback has not stored both words of the clock yet. *)
Early == {"begin", "advance", "stamp"}

(* One client sets the clock: the stores of two can cross. *)
OneSetter == \A c, d \in Setter : c = d

(* JACK keeps its buffer size. *)
OneBuffer == \A a, b \in Buffers : a = b

ApiTyped ==
  /\ setup_clock_source \in ClockSource
  /\ set \in [Setter -> [pc : {"idle", "setup"}, cs : ClockSource]]
  /\ get \in [Reader -> [pc : {"idle", "second", "now"}, nf : Nat, fs : Nat,
                         calm : BOOLEAN, quiet : BOOLEAN]]

(* m is what the callback read of JACK's clock in this cycle. *)
ReadNow == IF UsesTransport(ctrl.clock_source) THEN ctrl.m = jack.pos
           ELSE jack.time <= ctrl.m /\ ctrl.m <= jack.time + jack.tick

(* What the words of the clock hold at each place of the callback. *)
Stamped ==
  /\ flush_i # NotFlushing => ~ ctrl.syncronized
  /\ pc[Ctrl] \in {"advance", "stamp"} \/ flush_i # NotFlushing => ReadNow
  /\ pc[Ctrl] = "stamp" => IF UsesTransport(ctrl.clock_source)
                           THEN next_frame = ctrl.m /\ ctrl.n = ctrl.m
                           ELSE next_frame = ctrl.n + jack.nframes
  /\ ctrl.syncronized /\ pc[Ctrl] \notin Early =>
       IF UsesTransport(ctrl.clock_source)
       THEN next_frame = jack.pos /\ ctrl.n = jack.pos /\ frame_stamp = jack.pos
       ELSE /\ next_frame = ctrl.n + jack.nframes
            /\ jack.time <= frame_stamp /\ frame_stamp <= jack.time + jack.tick

(* The two words of the clock source, with one setter between its stores. *)
Setting ==
  /\ \A c \in Setter : set[c].pc = "setup" => set[c].cs = clock_source
  /\ (\A c \in Setter : set[c].pc = "idle") => setup_clock_source = clock_source

(* A read no callback fell into has the words as they are. *)
QuietRead ==
  \A c \in Reader : get[c].quiet =>
    /\ Quiet /\ get[c].nf = next_frame
    /\ get[c].pc = "now" => get[c].fs = frame_stamp

(* Before the callback has stored both words they are those of the last    *)
(* cycle.                                                                  *)
Behind ==
  /\ ctrl.syncronized \/ pc[Ctrl] # "idle" => jack.nframes \in Buffers
  /\ ctrl.syncronized => frame_stamp = ctrl.transport_frame
  /\ ctrl.syncronized /\ pc[Ctrl] \in Early =>
       IF UsesTransport(ctrl.clock_source)
       THEN /\ pc[Ctrl] \in {"begin", "advance"} => next_frame = frame_stamp
            /\ pc[Ctrl] \in {"advance", "stamp"} =>
                 jack.pos = frame_stamp \/ jack.pos = frame_stamp + jack.nframes
       ELSE jack.time <= frame_stamp + jack.nframes

(* The frame_stamp a read in progress works with, or will at least. *)
StampOf(c) == IF get[c].pc = "second" THEN frame_stamp ELSE get[c].fs

(* A read into which no change and no jump fell is at most a buffer ahead. *)
CalmRead ==
  \A c \in Reader : get[c].calm =>
    /\ Calm /\ get[c].nf <= Due
    /\ IF UsesTransport(clock_source) THEN get[c].nf <= StampOf(c) + jack.nframes
       ELSE get[c].nf + jack.time <= Due + jack.nframes + StampOf(c)

ClockInv == Inv /\ ApiTyped /\ Stamped /\ Setting /\ QuietRead
BufferInv == ClockInv /\ Behind /\ CalmRead

-----------------------------------------------------------------------------
(* The words of the clock are numbers. *)
LEMMA ClockTypes ==
  ASSUME Inv
  PROVE  /\ jack.time \in Nat /\ jack.tick \in Nat /\ jack.pos \in Nat /\ jack.nframes \in Nat
         /\ jack.rolling \in BOOLEAN /\ jack.nframes \in Buffers \cup {0}
         /\ next_frame \in Nat /\ frame_stamp \in Nat /\ clock_source \in ClockSource
         /\ ctrl.n \in Nat /\ ctrl.m \in Nat /\ ctrl.transport_frame \in Nat
         /\ ctrl.syncronized \in BOOLEAN /\ ctrl.rolling \in BOOLEAN
         /\ ctrl.clock_source \in ClockSource
<1>1. jack.time \in Nat /\ jack.tick \in Nat /\ jack.pos \in Nat /\ jack.rolling \in BOOLEAN
      /\ jack.nframes \in Buffers \cup {0}
  BY DEF Inv, CtrlTypeOK
<1>2. jack.nframes \in Nat
  BY JackFacts DEF Inv
<1> QED
  BY <1>1, <1>2 DEF Inv, CtrlTypeOK, QueueTypeOK

(* JACK's clocks run on; nothing else moves. *)
LEMMA TickFacts ==
  ASSUME Inv, JackTick
  PROVE  /\ Inv'
         /\ UNCHANGED <<pc, next_frame, frame_stamp, ctrl, clock_source, flush_i, set>>
         /\ jack'.tick = jack.tick + 1 /\ jack'.time = jack.time /\ jack'.pos = jack.pos
         /\ jack'.nframes = jack.nframes /\ jack'.rolling = jack.rolling
         /\ get' = Watch(get) /\ setup_clock_source' = setup_clock_source
<1>1. /\ UNCHANGED <<poolVars, queueVars, clock_source, frame_stamp, ctrl, bank, hist>>
      /\ jack' = [jack EXCEPT !.tick = @ + 1]
  BY DEF JackTick
<1>2. jack \in [cycle : 0..MaxCycle, time : Nat, nframes : Buffers \cup {0}, tick : Nat,
                pos : Nat, rolling : BOOLEAN, ahead : SUBSET Dsp]
  BY DEF Inv, CtrlTypeOK
<1>3. /\ jack' \in [cycle : 0..MaxCycle, time : Nat, nframes : Buffers \cup {0}, tick : Nat,
                    pos : Nat, rolling : BOOLEAN, ahead : SUBSET Dsp]
      /\ jack'.tick = jack.tick + 1 /\ jack'.time = jack.time /\ jack'.pos = jack.pos
      /\ jack'.nframes = jack.nframes /\ jack'.rolling = jack.rolling
  BY <1>1, <1>2
<1>4. Inv'
  BY <1>1, <1>3 DEF Inv, CtrlTypeOK, QueueTypeOK, Pointers, Flushing, NotFlushing,
     poolVars, queueVars, ringVars, cacheVars, callVars
<1> QED
  BY <1>1, <1>3, <1>4 DEF JackTick, poolVars, queueVars

(* A new cycle: the frame time moves by the last buffer. *)
LEMMA CycleFacts ==
  ASSUME Inv, JackCycle
  PROVE  /\ pc[Ctrl] = "idle" /\ pc'[Ctrl] = "begin"
         /\ UNCHANGED <<next_frame, frame_stamp, ctrl, clock_source, flush_i>>
         /\ jack'.time = jack.time + jack.nframes /\ jack'.tick = 0 /\ jack'.nframes \in Buffers
<1>1. pc[Ctrl] = "idle" /\ pc'[Ctrl] = "begin"
  BY CtrlMoves
<1>2. UNCHANGED <<next_frame, frame_stamp, ctrl, clock_source, flush_i>>
  BY DEF JackCycle, queueVars
<1>3. PICK b, p, r, A :
        /\ jack' = [cycle |-> jack.cycle + 1, time |-> jack.time + jack.nframes, nframes |-> b,
                    tick |-> 0, pos |-> p, rolling |-> r, ahead |-> A]
        /\ b \in Buffers
  BY DEF JackCycle
<1> QED
  BY <1>1, <1>2, <1>3

(* The clock source and JACK's clock are read. *)
LEMMA BeginClock ==
  ASSUME Inv, CtrlBegin
  PROVE  /\ pc[Ctrl] = "begin" /\ flush_i = NotFlushing
         /\ UNCHANGED <<next_frame, frame_stamp, jack, clock_source>>
         /\ ctrl'.clock_source = clock_source /\ ctrl'.m = FrameStamp(clock_source)
         /\ ctrl'.n = ctrl.n /\ ctrl'.transport_frame = ctrl.transport_frame
         /\ \/ pc'[Ctrl] = "flush" /\ ~ ctrl'.syncronized
            \/ /\ pc'[Ctrl] = "advance" /\ flush_i' = NotFlushing
               /\ ctrl'.syncronized <=> ctrl.syncronized
               /\ clock_source = ctrl.clock_source
               /\ ~ Discontinuity(clock_source, ctrl.syncronized)
<1>1. /\ ctrl'.clock_source = clock_source /\ ctrl'.m = FrameStamp(clock_source)
      /\ ctrl'.n = ctrl.n /\ ctrl'.transport_frame = ctrl.transport_frame
  BY DEF CtrlBegin, Inv, CtrlTypeOK
<1>2. UNCHANGED <<next_frame, frame_stamp, jack, clock_source>>
  BY DEF CtrlBegin
<1>3. pc'[Ctrl] = "advance" => ~ Discontinuity(clock_source, ctrl.syncronized)
  <2>1. Ctrl \in Proc /\ pc \in [Proc -> ClientPc \cup CtrlPc]
    BY Constants DEF Inv, Pointers
  <2> DEFINE change == clock_source # ctrl.clock_source
             jump == ~ change /\ Discontinuity(clock_source, ctrl.syncronized)
  <2>2. pc'[Ctrl] = IF change \/ jump THEN "flush" ELSE "advance"
    BY <2>1 DEF CtrlBegin, Goto
  <2> QED
    BY <2>2
<1> QED
  BY <1>1, <1>2, <1>3, BeginFacts

(* next_frame is moved. *)
LEMMA AdvanceClock ==
  ASSUME Inv, CtrlAdvance
  PROVE  /\ pc[Ctrl] = "advance" /\ pc'[Ctrl] = "stamp" /\ flush_i = NotFlushing
         /\ UNCHANGED <<frame_stamp, jack, clock_source, flush_i>>
         /\ ctrl'.clock_source = ctrl.clock_source /\ ctrl'.m = ctrl.m
         /\ ctrl'.transport_frame = ctrl.transport_frame
         /\ (ctrl'.syncronized <=> ctrl.syncronized)
         /\ IF UsesTransport(ctrl.clock_source)
            THEN ctrl'.n = ctrl.m /\ next_frame' = ctrl.m
            ELSE ctrl'.n = next_frame /\ next_frame' = next_frame + jack.nframes
<1>1. pc[Ctrl] = "advance" /\ pc'[Ctrl] = "stamp" /\ flush_i = NotFlushing
  BY CtrlMoves DEF Inv, Flushing
<1>2. UNCHANGED <<frame_stamp, jack, clock_source, flush_i>>
  BY DEF CtrlAdvance
<1> QED
  BY <1>1, <1>2 DEF CtrlAdvance, FrameStep, Inv, CtrlTypeOK

(* frame_stamp is stored. *)
LEMMA StampClock ==
  ASSUME Inv, CtrlStamp
  PROVE  /\ pc[Ctrl] = "stamp" /\ pc'[Ctrl] = "take" /\ flush_i = NotFlushing
         /\ UNCHANGED <<next_frame, jack, clock_source, flush_i>>
         /\ ctrl'.clock_source = ctrl.clock_source /\ ctrl'.n = ctrl.n /\ ctrl'.m = ctrl.m
         /\ frame_stamp' = ctrl.m /\ ctrl'.transport_frame = ctrl.m /\ ctrl'.syncronized
<1>1. pc[Ctrl] = "stamp" /\ pc'[Ctrl] = "take" /\ flush_i = NotFlushing
  BY CtrlMoves DEF Inv, Flushing
<1>2. UNCHANGED <<next_frame, jack, clock_source, flush_i>> /\ frame_stamp' = ctrl.m
  BY DEF CtrlStamp, queueVars
<1> QED
  BY <1>1, <1>2 DEF CtrlStamp, Inv, CtrlTypeOK

(* The other steps of the callback leave the clock alone. *)
LEMMA OtherClock ==
  ASSUME Inv, CtrlFlush \/ CtrlTake \/ CtrlDeliver \/ CtrlFree \/ DspProcess
  PROVE  /\ UNCHANGED <<next_frame, frame_stamp, jack, clock_source>>
         /\ ctrl'.clock_source = ctrl.clock_source /\ ctrl'.n = ctrl.n /\ ctrl'.m = ctrl.m
         /\ ctrl'.transport_frame = ctrl.transport_frame
         /\ (ctrl'.syncronized <=> ctrl.syncronized)
         /\ pc[Ctrl] \notin Early /\ pc[Ctrl] # "idle"
         /\ flush_i' # NotFlushing => flush_i # NotFlushing
         /\ pc'[Ctrl] \notin Early \/ (pc'[Ctrl] = "advance" /\ flush_i # NotFlushing)
<1> USE DEF Early
<1>1. CASE CtrlFlush
  <2>1. UNCHANGED <<frame_stamp, clock_source>>
    BY <1>1 DEF CtrlFlush, serverVars
  <2> QED
    BY <1>1, <2>1, FlushMoves
<1>2. CASE CtrlTake
  <2>1. UNCHANGED <<next_frame, frame_stamp, jack, clock_source, ctrl, flush_i>>
    BY <1>2 DEF CtrlTake, serverVars
  <2> QED
    BY <1>2, <2>1, CtrlMoves
<1>3. CASE CtrlDeliver
  <2>1. UNCHANGED <<next_frame, frame_stamp, jack, clock_source, flush_i>>
    BY <1>3 DEF CtrlDeliver, queueVars
  <2>2. /\ ctrl'.clock_source = ctrl.clock_source /\ ctrl'.n = ctrl.n /\ ctrl'.m = ctrl.m
        /\ ctrl'.transport_frame = ctrl.transport_frame
        /\ (ctrl'.syncronized <=> ctrl.syncronized)
    BY <1>3 DEF CtrlDeliver, Inv, CtrlTypeOK
  <2> QED
    BY <1>3, <2>1, <2>2, CtrlMoves
<1>4. CASE CtrlFree
  <2>1. UNCHANGED <<next_frame, frame_stamp, jack, clock_source, ctrl, flush_i>>
    BY <1>4 DEF CtrlFree, queueVars
  <2> QED
    BY <1>4, <2>1, CtrlMoves
<1>5. CASE DspProcess
  <2>1. UNCHANGED <<next_frame, frame_stamp, jack, clock_source, ctrl, flush_i>>
    BY <1>5 DEF DspProcess, queueVars
  <2> QED
    BY <1>5, <2>1, CtrlMoves
<1> QED
  BY <1>1, <1>2, <1>3, <1>4, <1>5

(* A setter's first store. *)
LEMMA SetFacts ==
  ASSUME Inv, NEW c \in Setter, SetQueue(c)
  PROVE  /\ Inv' /\ UNCHANGED <<pc, next_frame, frame_stamp, ctrl, jack, flush_i>>
         /\ setup_clock_source' = setup_clock_source /\ clock_source' \in ClockSource
         /\ set' = [set EXCEPT ![c] = [pc |-> "setup", cs |-> clock_source']]
         /\ get' = Watch(get)
<1>1. SetClockSource(c) /\ c \in Client
  BY ApiAssumption DEF SetQueue
<1>2. Inv'
  BY <1>1, StepInv DEF Next
<1> QED
  BY <1>1, <1>2 DEF SetQueue, SetClockSource, poolVars, queueVars, serverVars, Inv, CtrlTypeOK

(* The other steps of the clients leave the server alone. *)
LEMMA ApiFrame ==
  ASSUME UNCHANGED vars
  PROVE  UNCHANGED <<pc, next_frame, frame_stamp, ctrl, jack, flush_i, clock_source>>
BY DEF vars, poolVars, queueVars, serverVars

(* What a step is. *)
LEMMA ApiCases ==
  ASSUME [ApiNext]_<<vars, apiVars>>
  PROVE  \/ JackTick
         \/ ServerStep
         \/ \E c \in Setter : SetQueue(c)
         \/ \E c \in Setter : SetSetup(c)
         \/ \E c \in Reader : GetLoad(c)
         \/ \E c \in Reader : GetNow(c)
         \/ UNCHANGED <<vars, apiVars>>
BY DEF ApiNext, ApiAtRest

(* The server's invariant holds with the reads beside it. *)
LEMMA ApiStepInv == ASSUME Inv, [ApiNext]_<<vars, apiVars>> PROVE Inv'
<1>1. CASE JackTick
  BY <1>1, TickFacts
<1>2. CASE ServerStep
  BY <1>2, StepInv DEF ServerStep, Next
<1>3. CASE \E c \in Setter : SetQueue(c)
  BY <1>3, SetFacts
<1>4. CASE UNCHANGED vars
  BY <1>4, StepInv
<1> QED
  BY <1>1, <1>2, <1>3, <1>4, ApiCases DEF SetSetup, GetLoad, GetNow

-----------------------------------------------------------------------------
(*                     The stores of the callback                          *)

(* Every step keeps what the words of the clock hold. *)
LEMMA StepStamped == ASSUME Inv, Stamped, [ApiNext]_<<vars, apiVars>> PROVE Stamped'
<1> USE DEF Stamped, ReadNow, Early
<1>0. /\ jack.time \in Nat /\ jack.tick \in Nat /\ jack.pos \in Nat /\ jack.nframes \in Nat
      /\ next_frame \in Nat /\ frame_stamp \in Nat /\ ctrl.n \in Nat /\ ctrl.m \in Nat
      /\ ctrl.syncronized \in BOOLEAN
  BY ClockTypes
<1>1. CASE JackTick
  <2>1. NotFlushing' = NotFlushing
    BY DEF NotFlushing
  <2> QED
    BY <1>0, <1>1, <2>1, TickFacts DEF UsesTransport
<1>2. CASE JackCycle
  BY <1>0, <1>2, CycleFacts DEF Inv, Flushing, NotFlushing
<1>3. CASE CtrlBegin
  <2>1. (IF UsesTransport(clock_source) THEN ctrl'.m = jack.pos
         ELSE ctrl'.m = jack.time + jack.tick)
    BY <1>3, BeginClock DEF FrameStamp
  <2>2. ReadNow'
    BY <1>0, <1>3, <2>1, BeginClock DEF UsesTransport
  <2> QED
    BY <1>0, <1>3, <2>2, BeginClock DEF NotFlushing
<1>4. CASE CtrlAdvance
  BY <1>0, <1>4, AdvanceClock DEF NotFlushing, UsesTransport
<1>5. CASE CtrlStamp
  BY <1>0, <1>5, StampClock DEF NotFlushing, UsesTransport
<1>6. CASE CtrlFlush \/ CtrlTake \/ CtrlDeliver \/ CtrlFree \/ DspProcess
  BY <1>0, <1>6, OtherClock DEF NotFlushing, UsesTransport
<1>7. CASE \E c \in Setter : SetQueue(c)
  BY <1>7, SetFacts DEF NotFlushing, UsesTransport
<1>8. CASE UNCHANGED vars
  BY <1>8, ApiFrame DEF NotFlushing, UsesTransport
<1> QED
  BY <1>1, <1>2, <1>3, <1>4, <1>5, <1>6, <1>7, <1>8, ApiCases
     DEF ServerStep, CallbackStep, SetSetup, GetLoad, GetNow

(* One setter leaves the two words of the clock source the same. *)
LEMMA StepSetting ==
  ASSUME OneSetter, Inv, ApiTyped, Setting, [ApiNext]_<<vars, apiVars>>
  PROVE  Setting'
<1> USE DEF Setting
<1>1. CASE UNCHANGED <<set, setup_clock_source, clock_source>>
  BY <1>1
<1>2. ASSUME NEW c \in Setter, SetQueue(c) PROVE Setting'
  <2>1. set'[c].pc = "setup" /\ set'[c].cs = clock_source' /\ \A d \in Setter : d = c
    BY <1>2, SetFacts DEF ApiTyped, OneSetter
  <2> QED
    BY <2>1
<1>3. ASSUME NEW c \in Setter, SetSetup(c) PROVE Setting'
  <2>1. /\ set'[c].pc = "idle" /\ setup_clock_source' = clock_source
        /\ clock_source' = clock_source /\ \A d \in Setter : d = c
    BY <1>3, ApiFrame DEF SetSetup, ApiTyped, OneSetter
  <2> QED
    BY <2>1
<1>4. CASE ServerStep
  <2>1. clock_source' = clock_source
    BY <1>4, CycleFacts, BeginClock, AdvanceClock, StampClock, OtherClock DEF ServerStep, CallbackStep
  <2> QED
    BY <1>1, <1>4, <2>1 DEF ServerStep
<1> QED
  BY <1>1, <1>2, <1>3, <1>4, ApiCases, TickFacts, ApiFrame DEF GetLoad, GetNow, apiVars

(* What a step of another process does to the history of a call. *)
LEMMA WatchFacts ==
  ASSUME ApiTyped, get' = Watch(get), NEW c \in Reader
  PROVE  /\ get'[c].pc = get[c].pc /\ get'[c].nf = get[c].nf /\ get'[c].fs = get[c].fs
         /\ (get'[c].calm <=> get[c].calm /\ Calm')
         /\ (get'[c].quiet <=> get[c].quiet /\ Quiet')
<1>1. PICK k \in BOOLEAN : k <=> Calm'
  OBVIOUS
<1>2. PICK q \in BOOLEAN : q <=> Quiet'
  OBVIOUS
<1>3. get'[c] = [get[c] EXCEPT !.calm = @ /\ k, !.quiet = @ /\ q]
  BY <1>1, <1>2 DEF Watch
<1>4. PICK g \in [pc : {"idle", "second", "now"}, nf : Nat, fs : Nat,
                  calm : BOOLEAN, quiet : BOOLEAN] : g = get[c]
  BY DEF ApiTyped
<1>5. get'[c] = [g EXCEPT !.calm = @ /\ k, !.quiet = @ /\ q]
  BY <1>3, <1>4
<1> QED
  BY <1>1, <1>2, <1>4, <1>5

(* Calm and Quiet are about the server and the setters. *)
LEMMA CalmFrame ==
  ASSUME UNCHANGED <<vars, set>>
  PROVE  (Calm' <=> Calm) /\ (Quiet' <=> Quiet)
BY ApiFrame DEF Calm, Quiet, Discontinuity, FrameStamp, UsesTransport

(* The two loads of current_frame. *)
LEMMA LoadFacts ==
  ASSUME Inv, ApiTyped, NEW c \in Reader, GetLoad(c)
  PROVE  /\ UNCHANGED <<vars, setup_clock_source, set>>
         /\ \A d \in Reader \ {c} : get'[d] = get[d]
         /\ \/ /\ get[c].pc = "idle" /\ get'[c].pc = "second"
               /\ get'[c].nf = next_frame /\ get'[c].fs = 0
               /\ (get'[c].calm <=> Calm) /\ (get'[c].quiet <=> Quiet)
            \/ /\ get[c].pc = "second" /\ get'[c].pc = "now"
               /\ get'[c].nf = get[c].nf /\ get'[c].fs = frame_stamp
               /\ get'[c].calm = get[c].calm /\ get'[c].quiet = get[c].quiet
         /\ get' \in [Reader -> [pc : {"idle", "second", "now"}, nf : Nat, fs : Nat,
                                 calm : BOOLEAN, quiet : BOOLEAN]]
<1> DEFINE R == [pc : {"idle", "second", "now"}, nf : Nat, fs : Nat,
                 calm : BOOLEAN, quiet : BOOLEAN]
<1>0. next_frame \in Nat /\ frame_stamp \in Nat /\ get \in [Reader -> R]
  BY ClockTypes DEF ApiTyped
<1>1. PICK k \in BOOLEAN : k <=> Calm
  OBVIOUS
<1>2. PICK q \in BOOLEAN : q <=> Quiet
  OBVIOUS
<1>3. CASE get[c].pc = "idle" /\ get' = [get EXCEPT ![c] = Begin(next_frame, 0)]
  <2>1. PICK r : r = [pc |-> "second", nf |-> next_frame, fs |-> 0, calm |-> k, quiet |-> q]
    OBVIOUS
  <2>2. Begin(next_frame, 0) = r
    BY <1>1, <1>2, <2>1 DEF Begin
  <2>a. r \in R
    BY <1>0, <2>1
  <2>3. get' = [get EXCEPT ![c] = r] /\ r \in R
    BY <1>3, <2>2, <2>a
  <2>4. get' \in [Reader -> R] /\ get'[c] = r /\ \A d \in Reader \ {c} : get'[d] = get[d]
    BY <1>0, <2>3
  <2> QED
    BY <1>1, <1>2, <1>3, <2>1, <2>4 DEF GetLoad
<1>4. CASE get[c].pc = "second" /\ get' = [get EXCEPT ![c].pc = "now", ![c].fs = frame_stamp]
  <2>1. PICK g \in R : g = get[c]
    BY <1>0
  <2>2. PICK r : r = [g EXCEPT !.pc = "now", !.fs = frame_stamp]
    OBVIOUS
  <2>a. r \in R
    BY <1>0, <2>1, <2>2
  <2>b. /\ r.pc = "now" /\ r.nf = g.nf /\ r.fs = frame_stamp
        /\ r.calm = g.calm /\ r.quiet = g.quiet
    BY <2>1, <2>2
  <2>3. get' = [get EXCEPT ![c] = r] /\ r \in R
    BY <1>0, <1>4, <2>1, <2>2, <2>a
  <2>4. get' \in [Reader -> R] /\ get'[c] = r /\ \A d \in Reader \ {c} : get'[d] = get[d]
    BY <1>0, <2>3
  <2> QED
    BY <1>4, <2>1, <2>b, <2>4 DEF GetLoad
<1> QED
  BY <1>3, <1>4 DEF GetLoad

(* The end of a call. *)
LEMMA NowFacts ==
  ASSUME ApiTyped, NEW c \in Reader, GetNow(c)
  PROVE  /\ UNCHANGED <<vars, setup_clock_source, set>>
         /\ \A d \in Reader \ {c} : get'[d] = get[d]
         /\ get'[c].pc = "idle" /\ get'[c].calm = FALSE /\ get'[c].quiet = FALSE
         /\ get' \in [Reader -> [pc : {"idle", "second", "now"}, nf : Nat, fs : Nat,
                                 calm : BOOLEAN, quiet : BOOLEAN]]
BY DEF ApiTyped, GetNow, NotReading

(* The calls' own state is well typed. *)
LEMMA StepApiTyped == ASSUME Inv, ApiTyped, [ApiNext]_<<vars, apiVars>> PROVE ApiTyped'
<1> USE DEF ApiTyped
<1>1. ASSUME get' = Watch(get)
      PROVE  get' \in [Reader -> [pc : {"idle", "second", "now"}, nf : Nat, fs : Nat,
                                  calm : BOOLEAN, quiet : BOOLEAN]]
  <2>1. PICK k \in BOOLEAN : k <=> Calm'
    OBVIOUS
  <2>2. PICK q \in BOOLEAN : q <=> Quiet'
    OBVIOUS
  <2>3. get' = [c \in Reader |-> [get[c] EXCEPT !.calm = @ /\ k, !.quiet = @ /\ q]]
    BY <1>1, <2>1, <2>2 DEF Watch
  <2>4. ASSUME NEW g \in [pc : {"idle", "second", "now"}, nf : Nat, fs : Nat,
                          calm : BOOLEAN, quiet : BOOLEAN]
        PROVE  [g EXCEPT !.calm = @ /\ k, !.quiet = @ /\ q]
                 \in [pc : {"idle", "second", "now"}, nf : Nat, fs : Nat,
                      calm : BOOLEAN, quiet : BOOLEAN]
    <3>1. (g.calm /\ k) \in BOOLEAN /\ (g.quiet /\ q) \in BOOLEAN
      OBVIOUS
    <3> QED
      BY <3>1
  <2> QED
    BY <2>3, <2>4
<1>2. CASE JackTick
  BY <1>1, <1>2, TickFacts
<1>3. CASE ServerStep
  BY <1>1, <1>3 DEF ServerStep
<1>4. ASSUME NEW c \in Setter, SetQueue(c) PROVE ApiTyped'
  <2>1. [pc |-> "setup", cs |-> clock_source'] \in [pc : {"idle", "setup"}, cs : ClockSource]
    BY <1>4, SetFacts
  <2> QED
    BY <1>1, <1>4, <2>1, SetFacts
<1>5. ASSUME NEW c \in Setter, SetSetup(c) PROVE ApiTyped'
  BY <1>1, <1>5 DEF SetSetup
<1>6. ASSUME NEW c \in Reader, GetLoad(c) PROVE ApiTyped'
  BY <1>6, LoadFacts
<1>7. ASSUME NEW c \in Reader, GetNow(c) PROVE ApiTyped'
  BY <1>7, NowFacts
<1> QED
  BY <1>2, <1>3, <1>4, <1>5, <1>6, <1>7, ApiCases DEF apiVars

(* A call that stays between two callbacks has read the words as they are. *)
LEMMA StepQuiet ==
  ASSUME Inv, ApiTyped, QuietRead, [ApiNext]_<<vars, apiVars>>
  PROVE  QuietRead'
<1> USE DEF QuietRead
<1>1. ASSUME get' = Watch(get), Quiet /\ Quiet' => UNCHANGED <<next_frame, frame_stamp>>
      PROVE  QuietRead'
  BY <1>1, WatchFacts
<1>2. CASE JackTick
  BY <1>1, <1>2, TickFacts
<1>3. CASE ServerStep
  <2>1. Quiet /\ Quiet' => pc[Ctrl] \notin Early /\ pc'[Ctrl] \notin Early
    BY DEF Quiet, Early
  <2>2. JackCycle => pc'[Ctrl] \in Early
    BY CycleFacts DEF Early
  <2>3. CtrlBegin \/ CtrlAdvance \/ CtrlStamp => pc[Ctrl] \in Early
    BY BeginClock, AdvanceClock, StampClock DEF Early
  <2> QED
    BY <1>1, <1>3, <2>1, <2>2, <2>3, OtherClock DEF ServerStep, CallbackStep
<1>4. CASE \E c \in Setter : SetQueue(c)
  BY <1>1, <1>4, SetFacts
<1>5. CASE \E c \in Setter : SetSetup(c)
  BY <1>1, <1>5, ApiFrame DEF SetSetup
<1>6. ASSUME NEW c \in Reader, GetLoad(c) PROVE QuietRead'
  <2>1. (Quiet' <=> Quiet) /\ UNCHANGED <<next_frame, frame_stamp>>
    BY <1>6, LoadFacts, CalmFrame, ApiFrame
  <2>2. \A d \in Reader \ {c} : get'[d] = get[d]
    BY <1>6, LoadFacts
  <2> QED
    BY <1>6, <2>1, <2>2, LoadFacts
<1>7. ASSUME NEW c \in Reader, GetNow(c) PROVE QuietRead'
  <2>1. (Quiet' <=> Quiet) /\ UNCHANGED <<next_frame, frame_stamp>>
    BY <1>7, NowFacts, CalmFrame, ApiFrame
  <2> QED
    BY <1>7, <2>1, NowFacts
<1>8. CASE UNCHANGED <<vars, apiVars>>
  <2>1. (Quiet' <=> Quiet) /\ UNCHANGED <<next_frame, frame_stamp, get>>
    BY <1>8, CalmFrame, ApiFrame DEF apiVars
  <2> QED
    BY <2>1
<1> QED
  BY <1>2, <1>3, <1>4, <1>5, <1>6, <1>7, <1>8, ApiCases

(* The reads begin with the server. *)
LEMMA ApiStart == ApiInit => ClockInv
<1> SUFFICES ASSUME ApiInit PROVE ClockInv
  OBVIOUS
<1>1. Inv
  BY InitInv DEF ApiInit
<1>2. /\ pc[Ctrl] = "idle" /\ flush_i = NotFlushing /\ ctrl.syncronized = FALSE
  BY Constants DEF ApiInit, CtrlInit, QueueInit, PoolInit
<1>3. ApiTyped
  BY <1>1, ClockTypes DEF ApiInit, ApiTyped, NotReading
<1>4. Stamped
  BY <1>2 DEF Stamped
<1>5. Setting /\ QuietRead
  BY DEF ApiInit, Setting, QuietRead, NotReading
<1> QED
  BY <1>1, <1>3, <1>4, <1>5 DEF ClockInv

(* Every step keeps the invariant of the clock. *)
LEMMA StepClock ==
  ASSUME OneSetter, ClockInv, [ApiNext]_<<vars, apiVars>>
  PROVE  ClockInv'
BY ApiStepInv, StepApiTyped, StepStamped, StepSetting, StepQuiet DEF ClockInv

(* A read of the clock that falls between two callbacks agrees with the    *)
(* clock (Agrees), for any number of readers, every sequence of buffer     *)
(* sizes, jumps of the transport and changes of the clock by one client.   *)
THEOREM ReadsAgree == ASSUME OneSetter PROVE ApiSpec => []Agrees
<1>1. ClockInv => Agrees
  <2> SUFFICES ASSUME ClockInv, NEW c \in Reader, get[c].pc = "now", get[c].quiet
               PROVE  IF UsesTransport(clock_source) THEN CurrentFrame(c) = TransportFrame
                      ELSE CurrentFrame(c) - jack.nframes \in ctrl.n..ctrl.n + jack.tick
    BY DEF Agrees
  <2>1. /\ jack.time \in Nat /\ jack.tick \in Nat /\ jack.pos \in Nat /\ jack.nframes \in Nat
        /\ next_frame \in Nat /\ frame_stamp \in Nat /\ ctrl.n \in Nat /\ jack.rolling \in BOOLEAN
    BY ClockTypes DEF ClockInv
  <2>2. Quiet /\ get[c].nf = next_frame /\ get[c].fs = frame_stamp
    BY DEF ClockInv, QuietRead
  <2>3. /\ setup_clock_source = clock_source /\ clock_source = ctrl.clock_source
        /\ ctrl.syncronized /\ pc[Ctrl] \notin Early
    BY <2>2 DEF ClockInv, Setting, Quiet, Calm, Early
  <2>4. CASE UsesTransport(clock_source)
    <3>1. next_frame = jack.pos /\ frame_stamp = jack.pos /\ SourceFrame = TransportFrame
      BY <2>3, <2>4 DEF ClockInv, Stamped, SourceFrame
    <3>2. TransportFrame \in Nat /\ jack.pos <= TransportFrame
      BY <2>1 DEF TransportFrame
    <3>3. CurrentFrame(c) = IF TransportFrame <= jack.pos THEN jack.pos
                            ELSE jack.pos + (TransportFrame - jack.pos)
      BY <2>2, <3>1 DEF CurrentFrame
    <3> QED
      BY <2>1, <2>4, <3>2, <3>3
  <2>5. CASE ~ UsesTransport(clock_source)
    <3>1. /\ next_frame = ctrl.n + jack.nframes /\ SourceFrame = jack.time + jack.tick
          /\ jack.time <= frame_stamp /\ frame_stamp <= jack.time + jack.tick
      BY <2>3, <2>5 DEF ClockInv, Stamped, SourceFrame, FrameTime
    <3>2. CurrentFrame(c) = IF SourceFrame <= frame_stamp THEN next_frame
                            ELSE next_frame + (SourceFrame - frame_stamp)
      BY <2>2 DEF CurrentFrame
    <3> QED
      BY <2>1, <2>5, <3>1, <3>2
  <2> QED
    BY <2>4, <2>5
<1> QED
  BY <1>1, ApiStart, StepClock, PTL DEF ApiSpec

-----------------------------------------------------------------------------
(*                         How far ahead a read is                         *)

(* Every step keeps what the words of the last cycle are worth. *)
LEMMA StepBehind ==
  ASSUME OneBuffer, Inv, Inv', Stamped, Behind, [ApiNext]_<<vars, apiVars>>
  PROVE  Behind'
<1> USE DEF Behind, Early
<1>0. /\ jack.time \in Nat /\ jack.tick \in Nat /\ jack.pos \in Nat /\ jack.nframes \in Nat
      /\ next_frame \in Nat /\ frame_stamp \in Nat /\ ctrl.n \in Nat /\ ctrl.m \in Nat
      /\ ctrl.syncronized \in BOOLEAN /\ ctrl.transport_frame \in Nat
  BY ClockTypes
<1>1. CASE JackTick
  BY <1>1, TickFacts DEF UsesTransport
<1>2. CASE JackCycle
  <2>1. /\ pc[Ctrl] = "idle" /\ pc'[Ctrl] = "begin" /\ UNCHANGED <<next_frame, frame_stamp, ctrl>>
        /\ jack'.time = jack.time + jack.nframes /\ jack'.nframes \in Buffers
    BY <1>2, CycleFacts
  <2>2. ctrl.syncronized => jack'.nframes = jack.nframes
    BY <2>1 DEF OneBuffer
  <2>3. ctrl.syncronized => IF UsesTransport(ctrl.clock_source) THEN next_frame = frame_stamp
                            ELSE jack.time <= frame_stamp
    BY <2>1 DEF Stamped
  <2> QED
    BY <1>0, <2>1, <2>2, <2>3 DEF UsesTransport
<1>3. CASE CtrlBegin
  <2>1. CASE ~ ctrl'.syncronized
    BY <1>3, <2>1, BeginClock
  <2>2. CASE ctrl'.syncronized
    <3>1. /\ pc[Ctrl] = "begin" /\ pc'[Ctrl] = "advance" /\ ctrl.syncronized
          /\ clock_source = ctrl.clock_source /\ ~ Discontinuity(clock_source, ctrl.syncronized)
          /\ ctrl'.clock_source = ctrl.clock_source /\ ctrl'.transport_frame = ctrl.transport_frame
          /\ UNCHANGED <<next_frame, frame_stamp, jack>>
      BY <1>3, <2>2, BeginClock
    <3>2. UsesTransport(ctrl.clock_source) =>
            jack.pos = frame_stamp \/ jack.pos = frame_stamp + jack.nframes
      BY <1>0, <3>1 DEF Discontinuity, FrameStamp
    <3> QED
      BY <1>0, <3>1, <3>2 DEF UsesTransport
  <2> QED
    BY <2>1, <2>2
<1>4. CASE CtrlAdvance
  BY <1>4, AdvanceClock DEF UsesTransport
<1>5. CASE CtrlStamp
  BY <1>5, StampClock
<1>6. CASE CtrlFlush \/ CtrlTake \/ CtrlDeliver \/ CtrlFree \/ DspProcess
  BY <1>6, OtherClock DEF Stamped
<1>7. CASE \E c \in Setter : SetQueue(c)
  BY <1>7, SetFacts DEF UsesTransport
<1>8. CASE UNCHANGED vars
  BY <1>8, ApiFrame DEF UsesTransport
<1> QED
  BY <1>1, <1>2, <1>3, <1>4, <1>5, <1>6, <1>7, <1>8, ApiCases
     DEF ServerStep, CallbackStep, SetSetup, GetLoad, GetNow

(* While all is calm the transport is where the callback expects it. *)
LEMMA CalmTransport ==
  ASSUME Inv, Behind, Calm, pc[Ctrl] = "begin", UsesTransport(clock_source)
  PROVE  jack.pos = frame_stamp \/ jack.pos = frame_stamp + jack.nframes
<1>1. ~ Discontinuity(clock_source, TRUE) /\ ctrl.syncronized
  BY DEF Calm
<1>2. frame_stamp = ctrl.transport_frame
  BY <1>1 DEF Behind
<1> QED
  BY <1>1, <1>2, ClockTypes DEF Discontinuity, FrameStamp

(* A first load in calm. *)
LEMMA FreshRead ==
  ASSUME Inv, Stamped, Behind, Calm
  PROVE  /\ next_frame <= Due
         /\ IF UsesTransport(clock_source) THEN next_frame <= frame_stamp + jack.nframes
            ELSE next_frame + jack.time <= Due + jack.nframes + frame_stamp
<1> USE DEF Early
<1>0. /\ jack.time \in Nat /\ jack.tick \in Nat /\ jack.pos \in Nat /\ jack.nframes \in Nat
      /\ next_frame \in Nat /\ frame_stamp \in Nat /\ ctrl.n \in Nat /\ ctrl.m \in Nat
  BY ClockTypes
<1>1. ctrl.syncronized /\ clock_source = ctrl.clock_source /\ flush_i = NotFlushing
  BY DEF Calm, Stamped
<1>2. CASE UsesTransport(clock_source)
  <2>1. Due = jack.pos
    BY <1>2 DEF Due
  <2>2. CASE pc[Ctrl] = "begin"
    BY <1>0, <1>1, <1>2, <2>1, <2>2, CalmTransport DEF Behind
  <2>3. CASE pc[Ctrl] = "advance"
    BY <1>0, <1>1, <1>2, <2>1, <2>3 DEF Behind
  <2>4. CASE pc[Ctrl] = "stamp"
    BY <1>0, <1>1, <1>2, <2>1, <2>4 DEF Behind, Stamped, ReadNow
  <2>5. CASE pc[Ctrl] \notin Early
    BY <1>0, <1>1, <1>2, <2>1, <2>5 DEF Stamped
  <2> QED
    BY <2>2, <2>3, <2>4, <2>5
<1>3. CASE ~ UsesTransport(clock_source)
  <2>1. next_frame <= Due /\ Due \in Nat
    BY <1>0, <1>3 DEF Due
  <2>2. jack.time <= frame_stamp + jack.nframes
    BY <1>0, <1>1, <1>3 DEF Behind, Stamped
  <2> QED
    BY <1>0, <1>3, <2>1, <2>2
<1> QED
  BY <1>2, <1>3

(* In calm the clock of the queue runs forward, on the frame time clock    *)
(* with JACK's.                                                            *)
Forward ==
  /\ clock_source' = clock_source /\ jack'.nframes = jack.nframes
  /\ IF UsesTransport(clock_source) THEN Due' >= Due /\ frame_stamp' >= frame_stamp
     ELSE /\ Due' + jack.time = Due + jack'.time /\ jack'.time >= jack.time
          /\ frame_stamp' = frame_stamp \/ frame_stamp' >= jack'.time

(* It does so in every step of JACK and the callback. *)
LEMMA CalmStep ==
  ASSUME OneBuffer, Inv, Inv', Stamped, Behind, Behind', Calm, Calm', JackTick \/ ServerStep
  PROVE  Forward
<1> USE DEF Early, Forward
<1>0. /\ jack.time \in Nat /\ jack.tick \in Nat /\ jack.pos \in Nat /\ jack.nframes \in Nat
      /\ next_frame \in Nat /\ frame_stamp \in Nat /\ ctrl.n \in Nat /\ ctrl.m \in Nat
  BY ClockTypes
<1>1. /\ ctrl.syncronized /\ clock_source = ctrl.clock_source /\ flush_i = NotFlushing
      /\ ctrl'.syncronized
  BY DEF Calm, Stamped
<1>2. CASE JackTick
  BY <1>0, <1>2, TickFacts DEF Due, UsesTransport
<1>3. CASE JackCycle
  <2>1. /\ pc[Ctrl] = "idle" /\ pc'[Ctrl] = "begin"
        /\ UNCHANGED <<next_frame, frame_stamp, ctrl, clock_source>>
        /\ jack'.time = jack.time + jack.nframes /\ jack'.nframes \in Buffers
    BY <1>3, CycleFacts
  <2>2. jack'.nframes = jack.nframes
    BY <1>1, <2>1 DEF Behind, OneBuffer
  <2>3. CASE UsesTransport(clock_source)
    <3>1. jack'.pos \in Nat /\ jack'.rolling \in BOOLEAN /\ ctrl'.rolling \in BOOLEAN
      BY DEF Inv, CtrlTypeOK
    <3>2. UsesTransport(clock_source)'
      BY <2>1, <2>3 DEF UsesTransport
    <3>3. jack'.pos = frame_stamp' \/ jack'.pos = frame_stamp' + jack'.nframes
      <4>1. ~ Discontinuity(clock_source, TRUE)'
        BY <2>1 DEF Calm
      <4>2. frame_stamp' = ctrl'.transport_frame
        BY <1>1 DEF Behind
      <4>3. jack'.pos = ctrl'.transport_frame
                        + (IF jack'.rolling /\ ctrl'.rolling THEN jack'.nframes ELSE 0)
        BY <3>2, <4>1 DEF Discontinuity, FrameStamp
      <4> QED
        BY <1>0, <2>1, <2>2, <3>1, <4>2, <4>3
    <3>4. frame_stamp = jack.pos
      BY <1>1, <2>1, <2>3 DEF Stamped
    <3> QED
      BY <1>0, <2>1, <2>2, <2>3, <3>2, <3>3, <3>4 DEF Due
  <2>4. CASE ~ UsesTransport(clock_source)
    <3>1. Due = next_frame /\ Due' = next_frame + jack.nframes
      BY <2>1, <2>2, <2>4 DEF Due, UsesTransport
    <3> QED
      BY <1>0, <2>1, <2>2, <2>4, <3>1
  <2> QED
    BY <2>3, <2>4
<1>4. CASE CtrlBegin
  BY <1>0, <1>1, <1>4, BeginClock DEF Due, UsesTransport
<1>5. CASE CtrlAdvance
  <2>1. Due' = Due
    BY <1>0, <1>1, <1>5, AdvanceClock DEF Due, UsesTransport
  <2>2. Due \in Nat
    BY <1>0 DEF Due
  <2> QED
    BY <1>0, <1>5, <2>1, <2>2, AdvanceClock
<1>6. CASE CtrlStamp
  <2>1. Due' = Due /\ Due \in Nat
    BY <1>0, <1>6, StampClock DEF Due, UsesTransport
  <2>2. UsesTransport(clock_source) => ctrl.m >= frame_stamp
    BY <1>0, <1>1, <1>6, StampClock DEF Stamped, ReadNow, Behind
  <2>3. ~ UsesTransport(clock_source) => ctrl.m >= jack.time
    BY <1>0, <1>1, <1>6, StampClock DEF Stamped, ReadNow
  <2> QED
    BY <1>0, <1>6, <2>1, <2>2, <2>3, StampClock
<1>7. CASE CtrlFlush \/ CtrlTake \/ CtrlDeliver \/ CtrlFree \/ DspProcess
  BY <1>0, <1>1, <1>7, OtherClock DEF Due, UsesTransport
<1> QED
  BY <1>2, <1>3, <1>4, <1>5, <1>6, <1>7 DEF ServerStep, CallbackStep

(* A calm read stays at most a buffer ahead of the clock. *)
LEMMA StepCalm ==
  ASSUME OneBuffer, Inv, Inv', ApiTyped, Stamped, Behind, Behind', CalmRead,
         [ApiNext]_<<vars, apiVars>>
  PROVE  CalmRead'
<1> USE DEF CalmRead
<1>0. /\ jack.time \in Nat /\ jack.pos \in Nat /\ jack.nframes \in Nat
      /\ next_frame \in Nat /\ frame_stamp \in Nat
      /\ \A c \in Reader : get[c].nf \in Nat /\ get[c].fs \in Nat
  BY ClockTypes DEF ApiTyped
<1>a. /\ jack'.time \in Nat /\ jack'.pos \in Nat /\ next_frame' \in Nat /\ frame_stamp' \in Nat
      /\ jack'.nframes \in Buffers \cup {0}
  BY DEF Inv, CtrlTypeOK, QueueTypeOK
<1>b. Due \in Nat /\ Due' \in Nat
  <2>0. Buffers \cup {0} \subseteq Nat
    BY Constants
  <2>1. jack'.nframes \in Nat
    BY <1>a, <2>0
  <2> QED
    BY <1>0, <1>a, <2>1 DEF Due
<1>1. ASSUME get' = Watch(get), Calm /\ Calm' => Forward
      PROVE  CalmRead'
  <2> SUFFICES ASSUME NEW c \in Reader, get'[c].calm
               PROVE  /\ Calm' /\ get'[c].nf <= Due'
                      /\ IF UsesTransport(clock_source)' THEN get'[c].nf <= StampOf(c)' + jack'.nframes
                         ELSE get'[c].nf + jack'.time <= Due' + jack'.nframes + StampOf(c)'
    OBVIOUS
  <2>1. /\ get[c].calm /\ Calm' /\ get'[c].pc = get[c].pc /\ get'[c].nf = get[c].nf
        /\ get'[c].fs = get[c].fs
    BY <1>1, WatchFacts
  <2>2. /\ Calm /\ get[c].nf <= Due
        /\ IF UsesTransport(clock_source) THEN get[c].nf <= StampOf(c) + jack.nframes
           ELSE get[c].nf + jack.time <= Due + jack.nframes + StampOf(c)
    BY <2>1
  <2>3. PICK nf \in Nat, st \in Nat, st2 \in Nat : nf = get[c].nf /\ st = StampOf(c) /\ st2 = StampOf(c)'
    BY <1>0, <1>a, <2>1 DEF StampOf
  <2>4. Forward /\ (UsesTransport(clock_source)' <=> UsesTransport(clock_source))
    BY <1>1, <2>1, <2>2 DEF Forward, UsesTransport
  <2>5. st2 = st \/ (st = frame_stamp /\ st2 = frame_stamp')
    BY <2>1, <2>3 DEF StampOf
  <2>6. CASE UsesTransport(clock_source)
    <3>1. nf <= Due /\ nf <= st + jack.nframes /\ Due' >= Due /\ frame_stamp' >= frame_stamp
          /\ jack'.nframes = jack.nframes
      BY <2>2, <2>3, <2>4, <2>6 DEF Forward
    <3>2. nf <= Due' /\ nf <= st2 + jack'.nframes
      BY <1>0, <1>a, <1>b, <2>5, <3>1
    <3> QED
      BY <2>1, <2>3, <2>4, <2>6, <3>2
  <2>7. CASE ~ UsesTransport(clock_source)
    <3>1. /\ nf <= Due /\ nf + jack.time <= Due + jack.nframes + st
          /\ Due' + jack.time = Due + jack'.time /\ jack'.time >= jack.time
          /\ frame_stamp' = frame_stamp \/ frame_stamp' >= jack'.time
          /\ jack'.nframes = jack.nframes
      BY <2>2, <2>3, <2>4, <2>7 DEF Forward
    <3>2. nf <= Due' /\ nf + jack'.time <= Due' + jack'.nframes + st2
      BY <1>0, <1>a, <1>b, <2>5, <3>1
    <3> QED
      BY <2>1, <2>3, <2>4, <2>7, <3>2
  <2> QED
    BY <2>6, <2>7
<1>2. ASSUME JackTick \/ ServerStep PROVE CalmRead'
  <2>1. get' = Watch(get)
    BY <1>2, TickFacts DEF ServerStep
  <2> QED
    BY <1>1, <1>2, <2>1, CalmStep
<1>3. ASSUME NEW c \in Setter, SetQueue(c) PROVE CalmRead'
  <2>1. ~ Calm'
    <3>1. set'[c].pc = "setup"
      BY <1>3, SetFacts DEF ApiTyped
    <3> QED
      BY <3>1 DEF Calm
  <2> QED
    BY <1>1, <1>3, <2>1, SetFacts
<1>4. ASSUME UNCHANGED vars
      PROVE  /\ Due' = Due /\ (UsesTransport(clock_source)' <=> UsesTransport(clock_source))
             /\ UNCHANGED <<clock_source, frame_stamp, jack>>
  BY <1>4, ApiFrame DEF Due, UsesTransport
<1>5. ASSUME NEW c \in Setter, SetSetup(c) PROVE CalmRead'
  <2>1. Forward
    BY <1>0, <1>b, <1>4, <1>5 DEF SetSetup, Forward
  <2> QED
    BY <1>1, <1>5, <2>1 DEF SetSetup
<1>6. ASSUME NEW c \in Reader, GetLoad(c) PROVE CalmRead'
  <2>0. UNCHANGED <<vars, set>>
    BY <1>6, LoadFacts
  <2>1. (Calm' <=> Calm) /\ Due' = Due /\ UNCHANGED <<clock_source, frame_stamp, jack>>
        /\ (UsesTransport(clock_source)' <=> UsesTransport(clock_source))
    BY <1>4, <2>0, CalmFrame
  <2>2. ASSUME NEW d \in Reader \ {c}
        PROVE  get'[d] = get[d] /\ StampOf(d)' = StampOf(d)
    BY <1>6, <2>1, LoadFacts DEF StampOf
  <2>3. get'[c].calm => Calm /\ get'[c].nf <= Due
           /\ IF UsesTransport(clock_source) THEN get'[c].nf <= StampOf(c)' + jack.nframes
              ELSE get'[c].nf + jack.time <= Due + jack.nframes + StampOf(c)'
    <3>1. CASE get[c].pc = "idle"
      BY <1>6, <2>1, <3>1, LoadFacts, FreshRead DEF StampOf
    <3>2. CASE get[c].pc = "second"
      <4>1. StampOf(c)' = StampOf(c) /\ get'[c].nf = get[c].nf /\ get'[c].calm = get[c].calm
        BY <1>6, <2>1, <3>2, LoadFacts DEF StampOf
      <4> QED
        BY <4>1
    <3> QED
      BY <1>6, <3>1, <3>2, LoadFacts
  <2> QED
    BY <2>1, <2>2, <2>3
<1>7. ASSUME NEW c \in Reader, GetNow(c) PROVE CalmRead'
  <2>0. UNCHANGED <<vars, set>> /\ get'[c].calm = FALSE
    BY <1>7, NowFacts
  <2>1. (Calm' <=> Calm) /\ Due' = Due /\ UNCHANGED <<clock_source, frame_stamp, jack>>
        /\ (UsesTransport(clock_source)' <=> UsesTransport(clock_source))
    BY <1>4, <2>0, CalmFrame
  <2>2. ASSUME NEW d \in Reader \ {c}
        PROVE  get'[d] = get[d] /\ StampOf(d)' = StampOf(d)
    BY <1>7, <2>1, NowFacts DEF StampOf
  <2> QED
    BY <2>0, <2>1, <2>2
<1>8. CASE UNCHANGED <<vars, apiVars>>
  <2>1. (Calm' <=> Calm) /\ Due' = Due /\ UNCHANGED <<clock_source, frame_stamp, jack, get>>
        /\ (UsesTransport(clock_source)' <=> UsesTransport(clock_source))
    BY <1>4, <1>8, CalmFrame DEF apiVars
  <2>2. \A d \in Reader : StampOf(d)' = StampOf(d)
    BY <2>1 DEF StampOf
  <2> QED
    BY <2>1, <2>2
<1> QED
  BY <1>2, <1>3, <1>5, <1>6, <1>7, <1>8, ApiCases

(* With one buffer size and one setter, current_frame returns a frame at   *)
(* most a buffer ahead of the queue's clock (NotFarAhead), however the     *)
(* loads of any number of readers fall among the stores of any number of   *)
(* callbacks.                                                              *)
THEOREM ReadsNotFarAhead == ASSUME OneSetter, OneBuffer PROVE ApiSpec => []NotFarAhead
<1>1. ApiInit => BufferInv
  <2> SUFFICES ASSUME ApiInit PROVE BufferInv
    OBVIOUS
  <2>1. pc[Ctrl] = "idle" /\ ctrl.syncronized = FALSE
    BY Constants DEF ApiInit, CtrlInit, QueueInit, PoolInit
  <2>2. Behind
    BY <2>1 DEF Behind
  <2>3. CalmRead
    BY DEF ApiInit, NotReading, CalmRead
  <2> QED
    BY <2>2, <2>3, ApiStart DEF BufferInv
<1>2. BufferInv /\ [ApiNext]_<<vars, apiVars>> => BufferInv'
  <2> SUFFICES ASSUME BufferInv, [ApiNext]_<<vars, apiVars>> PROVE BufferInv'
    OBVIOUS
  <2>1. ClockInv'
    BY StepClock DEF BufferInv
  <2>2. Behind'
    BY <2>1, StepBehind DEF BufferInv, ClockInv
  <2> QED
    BY <2>1, <2>2, StepCalm DEF BufferInv, ClockInv
<1>3. BufferInv => NotFarAhead
  <2> SUFFICES ASSUME BufferInv, NEW c \in Reader, get[c].pc = "now", get[c].calm
               PROVE  CurrentFrame(c) <= Due + jack.tick + jack.nframes
    BY DEF NotFarAhead
  <2>1. /\ jack.time \in Nat /\ jack.tick \in Nat /\ jack.pos \in Nat /\ jack.nframes \in Nat
        /\ next_frame \in Nat /\ jack.rolling \in BOOLEAN
        /\ get[c].nf \in Nat /\ get[c].fs \in Nat
    BY ClockTypes DEF BufferInv, ClockInv, ApiTyped
  <2>2. Due \in Nat
    BY <2>1 DEF Due
  <2>3. /\ Calm /\ get[c].nf <= Due
        /\ IF UsesTransport(clock_source) THEN get[c].nf <= get[c].fs + jack.nframes
           ELSE get[c].nf + jack.time <= Due + jack.nframes + get[c].fs
    BY DEF BufferInv, CalmRead, StampOf
  <2>4. setup_clock_source = clock_source
    BY <2>3 DEF Calm, BufferInv, ClockInv, Setting
  <2>5. CurrentFrame(c) = IF SourceFrame <= get[c].fs THEN get[c].nf
                          ELSE get[c].nf + (SourceFrame - get[c].fs)
    BY DEF CurrentFrame
  <2>6. CASE UsesTransport(clock_source)
    <3>1. SourceFrame \in Nat /\ SourceFrame <= jack.pos + jack.tick /\ Due = jack.pos
      BY <2>1, <2>4, <2>6 DEF SourceFrame, TransportFrame, Due
    <3> QED
      BY <2>1, <2>2, <2>3, <2>5, <2>6, <3>1
  <2>7. CASE ~ UsesTransport(clock_source)
    <3>1. SourceFrame = jack.time + jack.tick
      BY <2>1, <2>4, <2>7 DEF SourceFrame, FrameTime
    <3> QED
      BY <2>1, <2>2, <2>3, <2>5, <2>7, <3>1
  <2> QED
    BY <2>6, <2>7
<1> QED
  BY <1>1, <1>2, <1>3, PTL DEF ApiSpec

-----------------------------------------------------------------------------
(*                     A frame as a time and back                          *)

(* jfofs_time_to_nframes of the time of frame n, before the cut to the     *)
(* width of jack_nframes_t.                                                *)
LEMMA TimeAndBack ==
  ASSUME NEW r \in Nat \ {0}, NEW s \in Nat \ {0}, r <= s, NEW n \in Nat
  PROVE  (((n * s) \div r) * r) \div s \in {n - 1, n} \cap Nat
<1>1. PICK p \in Nat : p = n * s
  OBVIOUS
<1>2. PICK t \in Nat, u \in 0..r - 1 : t = p \div r /\ p = t * r + u
  BY <1>1, DivMod
<1>3. PICK x \in Nat : x = t * r
  OBVIOUS
<1>4. PICK q \in Nat, v \in 0..s - 1 : q = x \div s /\ x = q * s + v
  BY <1>3, DivMod
<1>5. q <= n
  <2> SUFFICES ASSUME n < q PROVE FALSE
    BY <1>4
  <2>1. n * s + s <= q * s
    BY <1>4, Products
  <2>2. PICK y \in Nat : y = q * s
    BY <1>4
  <2> QED
    BY <1>1, <1>2, <1>3, <1>4, <2>1, <2>2
<1>6. n <= q + 1
  <2> SUFFICES ASSUME q + 1 < n PROVE FALSE
    BY <1>4
  <2>1. (q + 1) * s + s <= n * s /\ (q + 1) * s = q * s + s
    BY <1>4, Products
  <2>2. PICK y \in Nat : y = q * s
    BY <1>4
  <2> QED
    BY <1>1, <1>2, <1>3, <1>4, <2>1, <2>2
<1> QED
  BY <1>1, <1>2, <1>3, <1>4, <1>5, <1>6

(* A second has at least as many microseconds as frames. *)
FineTime == SampleRate <= Second

(* The frame a reader is about to get fits jack_nframes_t. *)
FramesFit == \A c \in Reader : CurrentFrame(c) < FrameMod

(* As long as the frames fit their type, a fof added for the time          *)
(* jfofs_get_time returns starts at the frame jfofs_get_frame returns or   *)
(* one before it (RoundTrip), for every sample rate up to a million.       *)
THEOREM TimeRoundTrip == ASSUME FineTime PROVE ApiSpec => [](FramesFit => RoundTrip)
<1>1. ApiInit => Inv /\ ApiTyped
  BY ApiStart DEF ClockInv
<1>2. Inv /\ ApiTyped /\ [ApiNext]_<<vars, apiVars>> => (Inv /\ ApiTyped)'
  BY ApiStepInv, StepApiTyped
<1>3. Inv /\ ApiTyped => (FramesFit => RoundTrip)
  <2> SUFFICES ASSUME Inv, ApiTyped, FramesFit, NEW c \in Reader
               PROVE  TimeToFrames(FramesToTime(CurrentFrame(c)))
                        \in {CurrentFrame(c) - 1, CurrentFrame(c)}
    BY DEF RoundTrip
  <2>1. CurrentFrame(c) \in Nat
    <3>1. /\ jack.time \in Nat /\ jack.tick \in Nat /\ jack.pos \in Nat
          /\ get[c].nf \in Nat /\ get[c].fs \in Nat
      BY ClockTypes DEF ApiTyped
    <3>2. SourceFrame \in Nat
      BY <3>1 DEF SourceFrame, TransportFrame, FrameTime
    <3> QED
      BY <3>1, <3>2 DEF CurrentFrame
  <2>2. PICK n \in Nat : n = CurrentFrame(c) /\ n < FrameMod
    BY <2>1 DEF FramesFit
  <2>3. PICK q \in {n - 1, n} \cap Nat : q = (((n * Second) \div SampleRate) * SampleRate) \div Second
    BY <2>2, Constants, TimeAndBack DEF FineTime
  <2>4. q % FrameMod = q
    <3>1. q \in 0..FrameMod - 1 /\ 0 * FrameMod + q = q
      BY <2>2, <2>3, Constants
    <3> QED
      BY <3>1, Constants, DivModUnique
  <2> QED
    BY <2>2, <2>3, <2>4 DEF TimeToFrames, FramesToTime
<1> QED
  BY <1>1, <1>2, <1>3, PTL DEF ApiSpec
=============================================================================
