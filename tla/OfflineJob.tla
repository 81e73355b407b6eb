------------------------------ MODULE OfflineJob ------------------------------
(***************************************************************************)
(* An offline rendering job (offline.c): creation, which allocates its     *)
(* parts one by one and undoes the work when one cannot be had, the        *)
(* blocks rendered to a file, and the close.  A job belongs to one thread. *)
(*                                                                         *)
(* External: the allocator, libsndfile, which may write less than it was   *)
(* given, and libfofs.  A bank is its clock and the frames at which fofs   *)
(* start; it ignores a fof whose frame is past.  A sample is the frame and *)
(* the channel it was rendered for and whether a fof starts there.         *)
(***************************************************************************)
EXTENDS Integers, Sequences

CONSTANTS NChans,     \* fof_ModeToChannels(mode)
          BlockSize,  \* block_size
          MaxBlocks,  \* bound: calls of jfofs_offline_process
          Starts      \* frames the caller passes to jfofs_offline_add

ASSUME OfflineAssumption ==
  /\ NChans \in 1..8 /\ BlockSize \in Nat \ {0}  \* MAX_CHANNELS is 8
  /\ MaxBlocks \in Nat /\ Starts \subseteq Nat

Chan == 0..NChans - 1
(* What a job is made of, in the order of its creation: the job, the bank, *)
(* the buffer of each channel, the interleaved buffer and the file.        *)
Part == 0..NChans + 3
Job == 0
Bank == 1
ChBuf(i) == i + 2
Interleaved == NChans + 2
File == NChans + 3
Opened == NChans + 4

VARIABLES
  stage,        \* the part to allocate next, or Opened
  live,         \* external: allocations less releases of every part
  bank,         \* external: the clock of the bank and the starts it was given
  file,         \* external: the samples in the file
  frame_count,  \* job->frame_count
  blocks,       \* calls of jfofs_offline_process, for MaxBlocks
  failed        \* history: some call returned JFOFS_FAILURE

jobVars == <<stage, live>>
dataVars == <<bank, file, frame_count, blocks, failed>>
vars == <<jobVars, dataVars>>

Init == /\ stage = Job
        /\ live = [p \in Part |-> 0]
        /\ bank = [time |-> 0, starts |-> {}] /\ file = << >>
        /\ frame_count = 0 /\ blocks = 0 /\ failed = FALSE

Release(parts) == live' = [p \in Part |-> IF p \in parts THEN live[p] - 1 ELSE live[p]]

(* calloc of the job. *)
CreateBegin ==
  /\ stage = Job
  /\ stage' \in {Job, Bank}
  /\ live' = [live EXCEPT ![Job] = IF stage' = Bank THEN @ + 1 ELSE @]
  /\ bank' = [time |-> 0, starts |-> {}] /\ file' = << >>
  /\ frame_count' = 0 /\ blocks' = 0 /\ failed' = FALSE

(* Bug: the buffers of the channels before the failed one are forgotten. *)
UndoNoBuffers(p) ==
  CASE p = Bank        -> {Job}
    [] p = Interleaved -> {ChBuf(i) : i \in Chan} \cup {Bank, Job}
    [] p = File        -> {ChBuf(i) : i \in Chan} \cup {Interleaved, Bank, Job}
    [] OTHER           -> {Bank, Job}

(* What the error path of part p gives back. *)
Undo(p) ==
  CASE p = Bank        -> {Job}
    [] p = Interleaved -> {ChBuf(i) : i \in Chan} \cup {Bank, Job}
    [] p = File        -> {ChBuf(i) : i \in Chan} \cup {Interleaved, Bank, Job}
    [] OTHER           -> {ChBuf(j) : j \in 0..p - 3} \cup {Bank, Job}

CreateStep ==
  /\ stage \in Part \ {Job}
  /\ \/ /\ live' = [live EXCEPT ![stage] = @ + 1]
        /\ stage' = stage + 1
     \/ /\ Release(Undo(stage))
        /\ stage' = Job
  /\ UNCHANGED dataVars

(* jfofs_offline_add; fof_add_v reports a fof whose frame is past. *)
Add(s) ==
  /\ stage = Opened
  /\ bank' = IF s < bank.time THEN bank ELSE [bank EXCEPT !.starts = @ \cup {s}]
  /\ UNCHANGED <<jobVars, file, frame_count, blocks, failed>>

Sample(f, c) == <<f, c, f \in bank.starts>>

(* Bug: the buffers are laid one after the other. *)
InterleaveByChannel == [i \in 1..BlockSize * NChans |->
                   Sample(bank.time + ((i - 1) % BlockSize), (i - 1) \div BlockSize)]

(* The double loop that mixes the channels' buffers, indexed from 1. *)
Interleave == [i \in 1..BlockSize * NChans |->
                Sample(bank.time + ((i - 1) \div NChans), (i - 1) % NChans)]

(* Bug: the frames are counted before the write is checked. *)
CountedAlways(written) == BlockSize

(* The frames a call adds to frame_count. *)
Counted(written) == IF written = BlockSize THEN BlockSize ELSE 0

(* jfofs_offline_process: fof_next, the interleaving, and the write. *)
Process ==
  /\ stage = Opened /\ blocks < MaxBlocks
  /\ blocks' = blocks + 1
  /\ bank' = [bank EXCEPT !.time = @ + BlockSize]
  /\ \E written \in 0..BlockSize :
       /\ file' = file \o SubSeq(Interleave, 1, written * NChans)
       /\ frame_count' = frame_count + Counted(written)
       /\ failed' = (failed \/ written # BlockSize)
  /\ UNCHANGED jobVars

(* jfofs_offline_close *)
Close ==
  /\ stage = Opened
  /\ Release({File, Bank, Interleaved, Job} \cup {ChBuf(i) : i \in Chan})
  /\ stage' = Job
  /\ UNCHANGED dataVars

Next == CreateBegin \/ CreateStep \/ (\E s \in Starts : Add(s)) \/ Process \/ Close

Spec == Init /\ [][Next]_vars

-----------------------------------------------------------------------------
(* No part is leaked or given back twice, whichever allocation of          *)
(* jfofs_offline_create fails and through jfofs_offline_close.             *)
NothingLeaks ==
  /\ stage = Job => \A p \in Part : live[p] = 0
  /\ stage = Opened => \A p \in Part : live[p] = 1

(* The file is the sound: as long as every call succeeded, the sample at   *)
(* position i is the one rendered for frame i \div NChans and channel      *)
(* i % NChans, with every fof that was accepted for it.                    *)
FileIsSound ==
  ~ failed /\ stage = Opened =>
    /\ Len(file) = bank.time * NChans
    /\ \A i \in 1..Len(file) :
         file[i] = Sample((i - 1) \div NChans, (i - 1) % NChans)

(* frame_count counts the frames of whole blocks in the file: after short  *)
(* writes it falls behind the bank by whole blocks and never exceeds what  *)
(* the file holds.                                                         *)
FileInStep ==
  /\ frame_count * NChans <= Len(file) /\ Len(file) <= bank.time * NChans
  /\ (bank.time - frame_count) % BlockSize = 0
  /\ failed = (frame_count # bank.time)
=============================================================================
