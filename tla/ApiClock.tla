------------------------------- MODULE ApiClock --------------------------------
(***************************************************************************)
(* The clock as a client sees it (api.c): jfofs_get_frame, jfofs_get_time  *)
(* and jfofs_set_clock_source, run beside the ctrl client's callback.      *)
(* current_frame loads next_frame and frame_stamp, which the callback      *)
(* stores one after the other, and then reads a clock of JACK chosen by a  *)
(* word of its own, setup.clock_source; jfofs_set_clock_source stores that *)
(* word after the one the callback reads.  One step per access.            *)
(*                                                                         *)
(* No fof is added here (MaxAdds is 0); JACK's clocks run on within a      *)
(* cycle (jack.tick).                                                      *)
(***************************************************************************)
EXTENDS CtrlClient

CONSTANTS Setter,   \* clients that call jfofs_set_clock_source
          Reader    \* clients that call jfofs_get_frame and jfofs_get_time

ASSUME ApiAssumption == Setter \subseteq Client /\ Reader \subseteq Client

VARIABLES
  setup_clock_source,  \* shmem->setup.clock_source
  set,                 \* [pc, cs] of each setter
  get                  \* [pc, nf, fs, calm, quiet] of each reader; calm and quiet
                       \*   are history: whether Calm, Quiet held since the call

apiVars == <<setup_clock_source, set, get>>

(* No change of the clock and no jump is under way: nobody is in the       *)
(* middle of jfofs_set_clock_source, the callback has followed the last    *)
(* change, and the transport is where the callback expects it.             *)
Calm == /\ \A c \in Setter : set[c].pc = "idle"
        /\ clock_source = ctrl.clock_source /\ ctrl.syncronized
        /\ pc[Ctrl] = "begin" => ~ Discontinuity(clock_source, TRUE)

(* The callback of this cycle has stored both words. *)
Quiet == Calm /\ pc[Ctrl] \notin {"begin", "advance", "stamp"}

(* What a step does to the history of the calls in progress. *)
Watch(g) == [c \in Reader |-> [g[c] EXCEPT !.calm = @ /\ Calm', !.quiet = @ /\ Quiet']]

NotReading == [pc |-> "idle", nf |-> 0, fs |-> 0, calm |-> FALSE, quiet |-> FALSE]

ApiInit ==
  /\ CtrlInit
  /\ setup_clock_source = clock_source
  /\ set = [c \in Setter |-> [pc |-> "idle", cs |-> clock_source]]
  /\ get = [c \in Reader |-> NotReading]

-----------------------------------------------------------------------------
(* External: JACK's frame time, and the position of a rolling transport,   *)
(* run on until the next cycle.                                            *)
JackTick == /\ jack.tick + 1 < jack.nframes
            /\ jack' = [jack EXCEPT !.tick = @ + 1]
            /\ UNCHANGED <<poolVars, queueVars, clock_source, frame_stamp, ctrl, bank, hist,
                           setup_clock_source, set>>
            /\ get' = Watch(get)

ServerStep == /\ JackCycle \/ CallbackStep
              /\ UNCHANGED <<setup_clock_source, set>>
              /\ get' = Watch(get)

(* jfofs_set_clock_source: the queue's word first. *)
SetQueue(c) ==
  /\ set[c].pc = "idle"
  /\ SetClockSource(c)
  /\ set' = [set EXCEPT ![c] = [pc |-> "setup", cs |-> clock_source']]
  /\ UNCHANGED setup_clock_source
  /\ get' = Watch(get)

(* Bug: only the queue's word is stored. *)
SetSetupNot(c) ==
  /\ set[c].pc = "setup"
  /\ set' = [set EXCEPT ![c].pc = "idle"]
  /\ UNCHANGED <<vars, setup_clock_source>>
  /\ get' = Watch(get)

SetSetup(c) ==
  /\ set[c].pc = "setup"
  /\ setup_clock_source' = set[c].cs
  /\ set' = [set EXCEPT ![c].pc = "idle"]
  /\ UNCHANGED vars
  /\ get' = Watch(get)

(* A call begins; its history with it. *)
Begin(nf, fs) == [pc |-> "second", nf |-> nf, fs |-> fs, calm |-> Calm, quiet |-> Quiet]

(* Bug: frame_stamp is loaded first. *)
GetLoadStampFirst(c) ==
  /\ \/ get[c].pc = "idle" /\ get' = [get EXCEPT ![c] = Begin(0, frame_stamp)]
     \/ get[c].pc = "second" /\ get' = [get EXCEPT ![c].pc = "now", ![c].nf = next_frame]
  /\ UNCHANGED <<vars, setup_clock_source, set>>

(* current_frame: the load of next_frame, then that of frame_stamp. *)
GetLoad(c) ==
  /\ \/ get[c].pc = "idle" /\ get' = [get EXCEPT ![c] = Begin(next_frame, 0)]
     \/ get[c].pc = "second" /\ get' = [get EXCEPT ![c].pc = "now", ![c].fs = frame_stamp]
  /\ UNCHANGED <<vars, setup_clock_source, set>>

(* jack_get_current_transport_frame and jack_frame_time. *)
TransportFrame == jack.pos + (IF jack.rolling THEN jack.tick ELSE 0)
FrameTime      == jack.time + jack.tick
SourceFrame    == IF UsesTransport(setup_clock_source) THEN TransportFrame ELSE FrameTime

(* The frame current_frame returns if it reads the clock now. *)
CurrentFrame(c) ==
  IF SourceFrame <= get[c].fs THEN get[c].nf ELSE get[c].nf + (SourceFrame - get[c].fs)

(* Bug: the division comes first. *)
FramesToTimeDivFirst(n) == (n \div SampleRate) * Second

(* jfofs_get_time of a frame. *)
FramesToTime(n) == (n * Second) \div SampleRate

(* The clock is read and the call returns CurrentFrame(c). *)
GetNow(c) ==
  /\ get[c].pc = "now"
  /\ get' = [get EXCEPT ![c] = NotReading]
  /\ UNCHANGED <<vars, setup_clock_source, set>>

(* The bounds are reached. *)
ApiAtRest == /\ pc[Ctrl] = "idle" /\ jack.cycle = MaxCycle
             /\ UNCHANGED <<vars, apiVars>>

ApiNext == \/ JackTick \/ ServerStep
           \/ \E c \in Setter : SetQueue(c) \/ SetSetup(c)
           \/ \E c \in Reader : GetLoad(c) \/ GetNow(c)
           \/ ApiAtRest

ApiSpec == ApiInit /\ [][ApiNext]_<<vars, apiVars>>

-----------------------------------------------------------------------------
(* The frame next_frame stands for once this cycle's callback has run. *)
Due == IF UsesTransport(clock_source) THEN jack.pos
       ELSE IF pc[Ctrl] \in {"begin", "advance"} THEN next_frame + jack.nframes
       ELSE next_frame

(* However the loads of current_frame fall among the stores of several     *)
(* cycles, the frame it returns is at most one buffer ahead of the queue's *)
(* clock, as long as the clock is not changed and does not jump meanwhile. *)
NotFarAhead ==
  \A c \in Reader : get[c].pc = "now" /\ get[c].calm =>
    CurrentFrame(c) <= Due + jack.tick + jack.nframes

(* A call of jfofs_get_frame that falls between two callbacks returns the  *)
(* transport's own frame, or on the frame time clock a frame of the buffer *)
(* after the one the banks are playing, after any changes of the clock:    *)
(* the two words of the clock source and the clocks they stand for cannot  *)
(* stay apart when one client sets them.                                   *)
Agrees ==
  \A c \in Reader : get[c].pc = "now" /\ get[c].quiet =>
    IF UsesTransport(clock_source) THEN CurrentFrame(c) = TransportFrame
    ELSE CurrentFrame(c) - jack.nframes \in ctrl.n..ctrl.n + jack.tick

(* A fof added for the time jfofs_get_time returns starts at the frame     *)
(* that jfofs_get_frame returns, or one frame before it: two divisions     *)
(* that round down lose no more.  (With that frame lost the fof can be     *)
(* late although the client did not wait.)                                 *)
RoundTrip ==
  \A c \in Reader : get[c].pc = "now" =>
    TimeToFrames(FramesToTime(CurrentFrame(c))) \in {CurrentFrame(c) - 1, CurrentFrame(c)}
=============================================================================
