------------------------------- MODULE Schedule --------------------------------
(***************************************************************************)
(* What the queue promises its clients on the frame time clock, without    *)
(* slots, lists or threads: a calendar of accepted fofs and a clock that   *)
(* moves a buffer at a time.  A fof accepted before its start frame is     *)
(* past is taken by the cycle that plays that frame; one that slipped in   *)
(* behind the clock's back is taken within a turn; nothing else leaves the *)
(* calendar and the clock waits for what was taken to be played.           *)
(***************************************************************************)
EXTENDS Naturals

CONSTANTS Fof,   \* the fofs
          Turn,  \* frames in a turn of the ring, n_slots * buffer_size
          Step   \* frames in a cycle

VARIABLES clock,     \* the first frame of the next cycle
          calendar   \* for each fof: where it is, its start frame and the clock
                     \*   when it was accepted

scheduleVars == <<clock, calendar>>

Absent == [at |-> "absent", start |-> 0, since |-> 0]
Due(e)    == e.at = "due"
InTime(e) == e.since <= e.start

ScheduleInit == clock = 0 /\ calendar = [f \in Fof |-> Absent]

(* A fof is accepted less than a turn ahead of the clock. *)
Accept(f, s) ==
  /\ calendar[f] = Absent
  /\ s < clock + Turn
  /\ calendar' = [calendar EXCEPT ![f] = [at |-> "due", start |-> s, since |-> clock]]
  /\ UNCHANGED clock

(* Fofs are taken together for the cycle before the clock. *)
Take(S) ==
  /\ \A f \in S : Due(calendar[f])
  /\ calendar' = [f \in Fof |-> IF f \in S THEN [calendar[f] EXCEPT !.at = "played"]
                                ELSE calendar[f]]
  /\ UNCHANGED clock

(* What was taken leaves together once it is played. *)
Leave ==
  /\ calendar' = [f \in Fof |-> IF calendar[f].at = "played" THEN Absent ELSE calendar[f]]
  /\ UNCHANGED clock

(* The clock moves on when nothing of the last cycle is left over: no fof  *)
(* in hand, none that was accepted in time for a frame before the clock,   *)
(* and none that would stay for more than a turn.                          *)
Tick ==
  /\ \A f \in Fof : /\ calendar[f].at # "played"
                    /\ Due(calendar[f]) => /\ InTime(calendar[f]) => clock <= calendar[f].start
                                           /\ clock <= calendar[f].since + Turn - Step
  /\ clock' = clock + Step
  /\ UNCHANGED calendar

ScheduleNext == \/ \E f \in Fof : \E s \in 0..clock + Turn : Accept(f, s)
                \/ \E S \in SUBSET Fof : Take(S)
                \/ Leave \/ Tick

ScheduleSpec == ScheduleInit /\ [][ScheduleNext]_scheduleVars
=============================================================================
