---------------------------- MODULE OfflineProofs ----------------------------
(***************************************************************************)
(* An offline job gives back what it allocated, and its file is the sound, *)
(* for every number of channels, size of a block and number of blocks:     *)
(* proofs about module OfflineJob.                                         *)
(***************************************************************************)
EXTENDS OfflineJob, DivModLemmas, SequenceTheorems, TLAPS

(* The stages are the parts and what follows the last of them. *)
Stage == 0..NChans + 4
SampleSet == Nat \X Chan \X BOOLEAN

TypeOK ==
  /\ stage \in Stage /\ live \in [Part -> Int]
  /\ bank \in [time : Nat, starts : SUBSET Nat] /\ file \in Seq(SampleSet)
  /\ frame_count \in Nat /\ blocks \in Nat /\ failed \in BOOLEAN

(* The parts before the stage are held, once; the others are not. *)
HeldInOrder == \A p \in Part : live[p] = IF p < stage THEN 1 ELSE 0

-----------------------------------------------------------------------------
(* The buffers of the first k channels are consecutive parts. *)
LEMMA Buffers == \A k \in Nat : {ChBuf(i) : i \in 0..k - 1} = 2..k + 1
<1> TAKE k \in Nat
<1>1. ASSUME NEW p \in 2..k + 1 PROVE p \in {ChBuf(i) : i \in 0..k - 1}
  <2>1. p - 2 \in 0..k - 1 /\ p = ChBuf(p - 2)
    BY <1>1 DEF ChBuf
  <2> QED
    BY <2>1
<1>2. ASSUME NEW i \in 0..k - 1 PROVE ChBuf(i) \in 2..k + 1
  BY DEF ChBuf
<1> QED
  BY <1>1, <1>2

(* The job, the bank and the buffers of the first n channels, without and  *)
(* with what follows them, are the first parts.                            *)
LEMMA FirstParts ==
  \A n \in Nat : /\ 2..n + 1 \cup {1, 0} = 0..n + 1
                 /\ 2..n + 1 \cup {n + 2, 1, 0} = 0..n + 2
OBVIOUS

(* The error path of every part gives back all parts made before it. *)
LEMMA UndoAll == \A p \in Part \ {Job} : Undo(p) = 0..p - 1
<1> USE OfflineAssumption DEF Part, Job, Bank, Interleaved, File
<1>0. NChans \in Nat /\ {ChBuf(i) : i \in Chan} = 2..NChans + 1
  BY Buffers DEF Chan
<1> TAKE p \in Part \ {Job}
<1>1. CASE p = Bank
  <2>1. Undo(p) = {0}
    BY <1>1 DEF Undo
  <2> QED
    BY <1>1, <2>1
<1>2. CASE p = Interleaved
  <2>1. Undo(p) = 2..NChans + 1 \cup {1, 0} /\ p - 1 = NChans + 1
    BY <1>0, <1>2 DEF Undo
  <2> QED
    BY <1>0, <2>1, FirstParts
<1>3. CASE p = File
  <2>1. Undo(p) = 2..NChans + 1 \cup {NChans + 2, 1, 0} /\ p - 1 = NChans + 2
    BY <1>0, <1>3 DEF Undo
  <2> QED
    BY <1>0, <2>1, FirstParts
<1>4. CASE p \notin {Bank, Interleaved, File}
  <2> DEFINE n == p - 2
  <2>1. n \in Nat /\ n - 1 = p - 3 /\ n + 1 = p - 1
    BY <1>4
  <2>2. Undo(p) = {ChBuf(j) : j \in 0..p - 3} \cup {1, 0}
    BY <1>4 DEF Undo
  <2> HIDE DEF n
  <2>3. {ChBuf(j) : j \in 0..p - 3} = 2..n + 1
    BY <2>1, Buffers
  <2> QED
    BY <2>1, <2>2, <2>3, FirstParts
<1> QED
  BY <1>1, <1>2, <1>3, <1>4

(* jfofs_offline_close gives back every part. *)
LEMMA CloseAll == {File, Bank, Interleaved, Job} \cup {ChBuf(i) : i \in Chan} = Part
<1>1. NChans \in Nat /\ {ChBuf(i) : i \in Chan} = 2..NChans + 1
  BY Buffers, OfflineAssumption DEF Chan
<1>2. 0..NChans + 3 = 0..NChans + 2 \cup {NChans + 3}
  BY <1>1
<1>3. 2..NChans + 1 \cup {NChans + 2, 1, 0} = 0..NChans + 2
  BY <1>1, FirstParts
<1> QED
  BY <1>1, <1>2, <1>3 DEF Part, Job, Bank, Interleaved, File

-----------------------------------------------------------------------------
(* What jfofs_offline_process writes of a block: the samples of w frames,  *)
(* channel by channel within each.                                         *)
LEMMA Block ==
  ASSUME TypeOK, NEW w \in 0..BlockSize
  PROVE  /\ w * NChans \in Nat
         /\ SubSeq(Interleave, 1, w * NChans) \in Seq(SampleSet)
         /\ Len(SubSeq(Interleave, 1, w * NChans)) = w * NChans
         /\ \A i \in 1..w * NChans : SubSeq(Interleave, 1, w * NChans)[i] =
              Sample(bank.time + ((i - 1) \div NChans), (i - 1) % NChans)
<1> DEFINE n == w * NChans
<1>1. n \in Nat /\ n <= BlockSize * NChans /\ NChans \in Nat \ {0} /\ BlockSize * NChans \in Nat
  BY Products, OfflineAssumption
<1> HIDE DEF n
<1>2. ASSUME NEW i \in 1..n
      PROVE  /\ Interleave[i] = Sample(bank.time + ((i - 1) \div NChans), (i - 1) % NChans)
             /\ Interleave[i] \in SampleSet
  <2>1. i \in 1..BlockSize * NChans /\ i - 1 \in Nat
    BY <1>1
  <2>2. Interleave[i] = Sample(bank.time + ((i - 1) \div NChans), (i - 1) % NChans)
    BY <2>1 DEF Interleave
  <2>3. (i - 1) \div NChans \in Nat /\ (i - 1) % NChans \in Chan
    BY <1>1, <2>1, DivMod DEF Chan
  <2>4. bank.time + ((i - 1) \div NChans) \in Nat
    BY <2>3 DEF TypeOK
  <2>5. (bank.time + ((i - 1) \div NChans) \in bank.starts) \in BOOLEAN
    OBVIOUS
  <2>6. Sample(bank.time + ((i - 1) \div NChans), (i - 1) % NChans) \in SampleSet
    BY <2>3, <2>4, <2>5, Zenon DEF Sample, SampleSet
  <2> QED
    BY <2>2, <2>6
<1>3. /\ SubSeq(Interleave, 1, n) \in Seq(SampleSet)
      /\ Len(SubSeq(Interleave, 1, n)) = IF 1 <= n THEN n - 1 + 1 ELSE 0
      /\ \A i \in 1..n - 1 + 1 : SubSeq(Interleave, 1, n)[i] = Interleave[1 + i - 1]
  BY <1>1, <1>2, SubSeqProperties
<1>4. Len(SubSeq(Interleave, 1, n)) = n
  BY <1>1, <1>3
<1>5. \A i \in 1..n : SubSeq(Interleave, 1, n)[i] = Interleave[i]
  BY <1>1, <1>3
<1> QED
  BY <1>1, <1>2, <1>3, <1>4, <1>5 DEF n

-----------------------------------------------------------------------------
(* The state of a job has its type. *)
LEMMA InitTyped == ASSUME Init PROVE TypeOK
<1> USE OfflineAssumption
<1>1. bank \in [time : Nat, starts : SUBSET Nat]
  BY DEF Init
<1>2. file \in Seq(SampleSet)
  BY EmptySeq DEF Init
<1> QED
  BY <1>1, <1>2 DEF Init, TypeOK, Stage, Part, Job

(* Every step of the offline job keeps the types. *)
LEMMA StepTyped == ASSUME TypeOK, [Next]_vars PROVE TypeOK'
<1> USE OfflineAssumption DEF TypeOK
<1>1. CASE CreateBegin
  <2>1. bank' \in [time : Nat, starts : SUBSET Nat]
    BY <1>1 DEF CreateBegin
  <2>2. file' \in Seq(SampleSet)
    BY <1>1, EmptySeq DEF CreateBegin
  <2>3. live' \in [Part -> Int]
    BY <1>1 DEF CreateBegin, Part, Job
  <2>4. stage' \in Stage /\ frame_count' \in Nat /\ blocks' \in Nat /\ failed' = FALSE
    BY <1>1 DEF CreateBegin, Stage, Job, Bank
  <2> QED
    BY <2>1, <2>2, <2>3, <2>4
<1>2. CASE CreateStep
  <2>1. stage' \in Stage
    BY <1>2 DEF CreateStep, Stage, Part, Job
  <2>2. live' \in [Part -> Int]
    BY <1>2 DEF CreateStep, Release
  <2> QED
    BY <1>2, <2>1, <2>2 DEF CreateStep, dataVars
<1>3. ASSUME NEW s \in Starts, Add(s) PROVE TypeOK'
  <2>1. bank' \in [time : Nat, starts : SUBSET Nat]
    BY <1>3 DEF Add
  <2> QED
    BY <1>3, <2>1 DEF Add, jobVars
<1>4. CASE Process
  <2>1. PICK w \in 0..BlockSize :
          /\ file' = file \o SubSeq(Interleave, 1, w * NChans)
          /\ frame_count' = frame_count + Counted(w)
          /\ failed' = (failed \/ w # BlockSize)
    BY <1>4 DEF Process
  <2>2. file' \in Seq(SampleSet)
    BY <2>1, Block, ConcatProperties
  <2>3. frame_count' \in Nat
    BY <2>1 DEF Counted
  <2>4. bank.time + BlockSize \in Nat /\ bank' = [bank EXCEPT !.time = @ + BlockSize]
    BY <1>4 DEF Process
  <2>5. bank' \in [time : Nat, starts : SUBSET Nat]
    BY <2>4
  <2>6. failed' \in BOOLEAN
    BY <2>1
  <2>7. UNCHANGED <<stage, live>> /\ blocks' \in Nat
    BY <1>4 DEF Process, jobVars
  <2> QED
    BY <2>2, <2>3, <2>5, <2>6, <2>7
<1>5. CASE Close
  BY <1>5 DEF Close, Release, dataVars, Stage, Job
<1>6. CASE UNCHANGED vars
  BY <1>6 DEF vars, jobVars, dataVars
<1> QED
  BY <1>1, <1>2, <1>3, <1>4, <1>5, <1>6 DEF Next

(* The parts a creation has made so far are held, and no others, whichever *)
(* step fails.                                                             *)
LEMMA StepHeld ==
  ASSUME TypeOK, HeldInOrder, [Next]_vars
  PROVE  HeldInOrder'
<1> USE OfflineAssumption DEF TypeOK, HeldInOrder
<1>1. CASE CreateBegin
  BY <1>1 DEF CreateBegin, Part, Job, Bank
<1>2. CASE CreateStep
  <2>1. stage \in Part \ {Job}
    BY <1>2 DEF CreateStep
  <2>2. CASE live' = [live EXCEPT ![stage] = @ + 1] /\ stage' = stage + 1
    BY <2>1, <2>2 DEF Part
  <2>3. CASE Release(Undo(stage)) /\ stage' = Job
    <3>1. live' = [p \in Part |-> IF p \in 0..stage - 1 THEN live[p] - 1 ELSE live[p]]
      BY <2>1, <2>3, UndoAll DEF Release
    <3> QED
      BY <2>1, <2>3, <3>1 DEF Part, Job
  <2> QED
    BY <1>2, <2>2, <2>3 DEF CreateStep
<1>3. CASE Close
  <2>1. live' = [p \in Part |-> live[p] - 1]
    BY <1>3, CloseAll DEF Close, Release
  <2> QED
    BY <1>3, <2>1 DEF Close, Part, Job, Opened
<1>4. CASE UNCHANGED jobVars
  BY <1>4 DEF jobVars
<1> QED
  BY <1>1, <1>2, <1>3, <1>4 DEF Next, Add, Process, vars

(* Every part of a job is given back exactly once, whichever allocation of *)
(* jfofs_offline_create fails, and through jfofs_offline_close.            *)
THEOREM JobNothingLeaks == Spec => []NothingLeaks
<1>1. Init => TypeOK /\ HeldInOrder
  BY InitTyped, OfflineAssumption DEF Init, HeldInOrder, Part, Job
<1>2. TypeOK /\ HeldInOrder /\ [Next]_vars => TypeOK' /\ HeldInOrder'
  BY StepTyped, StepHeld
<1>3. TypeOK /\ HeldInOrder => NothingLeaks
  BY OfflineAssumption DEF HeldInOrder, NothingLeaks, Part, Job, Opened
<1> QED
  BY <1>1, <1>2, <1>3, PTL DEF Spec

-----------------------------------------------------------------------------
(* The bank is ahead of frame_count by the blocks that were not written in *)
(* full, and what the file holds lies between the two.                     *)
Behind ==
  /\ frame_count <= bank.time
  /\ \E k \in Nat : bank.time = frame_count + k * BlockSize
  /\ frame_count * NChans <= Len(file) /\ Len(file) <= bank.time * NChans
  /\ failed <=> frame_count # bank.time

(* The samples in the file, as long as no call failed. *)
SoundSoFar ==
  ~ failed =>
    /\ Len(file) = bank.time * NChans
    /\ \A i \in 1..Len(file) :
         file[i] = Sample((i - 1) \div NChans, (i - 1) % NChans)

(* A call of jfofs_offline_process, taken apart. *)
LEMMA ProcessStep ==
  ASSUME TypeOK, Process
  PROVE  \E w \in 0..BlockSize :
           /\ bank'.time = bank.time + BlockSize /\ bank'.starts = bank.starts
           /\ Len(file') = Len(file) + w * NChans /\ w * NChans \in Nat
           /\ frame_count' = frame_count + (IF w = BlockSize THEN BlockSize ELSE 0)
           /\ failed' <=> failed \/ w # BlockSize
           /\ \A i \in 1..Len(file') : file'[i] =
                IF i <= Len(file) THEN file[i]
                ELSE Sample(bank.time + ((i - Len(file) - 1) \div NChans),
                            (i - Len(file) - 1) % NChans)
<1> USE OfflineAssumption
<1>1. PICK w \in 0..BlockSize :
        /\ file' = file \o SubSeq(Interleave, 1, w * NChans)
        /\ frame_count' = frame_count + Counted(w)
        /\ failed' = (failed \/ w # BlockSize)
  BY DEF Process
<1> DEFINE b == SubSeq(Interleave, 1, w * NChans)
<1>2. /\ w * NChans \in Nat /\ b \in Seq(SampleSet) /\ Len(b) = w * NChans
      /\ \A i \in 1..w * NChans : b[i] =
            Sample(bank.time + ((i - 1) \div NChans), (i - 1) % NChans)
  BY Block
<1>3. file' = file \o b
  BY <1>1
<1> HIDE DEF b
<1>4. file \in Seq(SampleSet) /\ Len(file) \in Nat
  BY LenProperties DEF TypeOK
<1>5. /\ Len(file') = Len(file) + w * NChans
      /\ \A i \in 1..Len(file') : file'[i] =
           IF i <= Len(file) THEN file[i] ELSE b[i - Len(file)]
  BY <1>2, <1>3, <1>4, ConcatProperties
<1>6. ASSUME NEW i \in 1..Len(file')
      PROVE  file'[i] = IF i <= Len(file) THEN file[i]
                        ELSE Sample(bank.time + ((i - Len(file) - 1) \div NChans),
                                    (i - Len(file) - 1) % NChans)
  <2>1. CASE i <= Len(file)
    BY <1>5, <2>1
  <2>2. CASE ~ (i <= Len(file))
    <3>1. i - Len(file) \in 1..w * NChans
      BY <1>2, <1>4, <1>5, <2>2
    <3> QED
      BY <1>2, <1>5, <2>2, <3>1
  <2> QED
    BY <2>1, <2>2
<1>7. bank'.time = bank.time + BlockSize /\ bank'.starts = bank.starts
  BY DEF Process, TypeOK
<1> QED
  BY <1>1, <1>2, <1>5, <1>6, <1>7 DEF Counted

(* Every step keeps the file behind the bank by what is not yet written. *)
LEMMA StepBehind == ASSUME TypeOK, Behind, [Next]_vars PROVE Behind'
<1> USE OfflineAssumption DEF TypeOK
<1>0. Len(file) \in Nat /\ bank.time \in Nat /\ NChans \in Nat
  BY LenProperties
<1>1. CASE CreateBegin
  <2>1. bank'.time = 0 /\ frame_count' = 0 /\ Len(file') = 0 /\ failed' = FALSE
    BY <1>1, EmptySeq DEF CreateBegin
  <2>2. \E k \in Nat : bank'.time = frame_count' + k * BlockSize
    <3> WITNESS 0 \in Nat
    <3> QED
      BY <2>1
  <2> QED
    BY <1>0, <2>1, <2>2 DEF Behind
<1>2. CASE Process
  <2>1. PICK w \in 0..BlockSize :
           /\ bank'.time = bank.time + BlockSize
           /\ Len(file') = Len(file) + w * NChans /\ w * NChans \in Nat
           /\ frame_count' = frame_count + (IF w = BlockSize THEN BlockSize ELSE 0)
           /\ failed' <=> failed \/ w # BlockSize
    BY <1>2, ProcessStep
  <2>2. PICK k \in Nat : bank.time = frame_count + k * BlockSize
    BY DEF Behind
  <2>3. \E j \in Nat : bank'.time = frame_count' + j * BlockSize
    <3>1. CASE w = BlockSize
      BY <1>0, <2>1, <2>2, <3>1
    <3>2. CASE w # BlockSize
      <4>1. (k + 1) * BlockSize = k * BlockSize + BlockSize /\ k * BlockSize \in Nat
        OBVIOUS
      <4>2. bank'.time = frame_count' + (k + 1) * BlockSize
        BY <1>0, <2>1, <2>2, <3>2, <4>1
      <4> WITNESS k + 1 \in Nat
      <4> QED
        BY <4>2
    <3> QED
      BY <3>1, <3>2
  <2>4. frame_count' <= bank'.time /\ (failed' <=> frame_count' # bank'.time)
    <3>1. CASE w = BlockSize
      <4>1. (failed' <=> failed) /\ frame_count' = frame_count + BlockSize
        BY <2>1, <3>1
      <4> QED
        BY <1>0, <2>1, <4>1 DEF Behind
    <3>2. CASE w # BlockSize
      BY <1>0, <2>1, <3>2 DEF Behind
    <3> QED
      BY <3>1, <3>2
  <2>5. frame_count' * NChans <= Len(file')
    <3>1. (frame_count + BlockSize) * NChans = frame_count * NChans + BlockSize * NChans
      BY <1>0, Products
    <3>2. frame_count * NChans \in Nat /\ BlockSize * NChans \in Nat
      BY <1>0, Products
    <3> QED
      BY <1>0, <2>1, <3>1, <3>2 DEF Behind
  <2>6. Len(file') <= bank'.time * NChans
    <3>1. bank'.time * NChans = bank.time * NChans + BlockSize * NChans
      BY <1>0, <2>1, Products
    <3>2. w * NChans <= BlockSize * NChans /\ bank.time * NChans \in Nat /\ BlockSize * NChans \in Nat
      BY <1>0, Products
    <3> QED
      BY <1>0, <2>1, <3>1, <3>2 DEF Behind
  <2> QED
    BY <2>3, <2>4, <2>5, <2>6 DEF Behind
<1>3. CASE UNCHANGED <<file, frame_count, failed>> /\ bank'.time = bank.time
  BY <1>3 DEF Behind
<1> QED
  BY <1>1, <1>2, <1>3 DEF Next, Add, CreateStep, Close, dataVars, jobVars, vars

(* Every step keeps the sound in the file the one of the fofs accepted. *)
LEMMA StepSound == ASSUME TypeOK, SoundSoFar, [Next]_vars PROVE SoundSoFar'
<1> USE OfflineAssumption DEF TypeOK
<1>0. Len(file) \in Nat /\ bank.time \in Nat /\ NChans \in Nat \ {0}
  BY LenProperties
<1>1. CASE CreateBegin
  <2>1. bank'.time = 0 /\ Len(file') = 0
    BY <1>1, EmptySeq DEF CreateBegin
  <2> QED
    BY <1>0, <2>1 DEF SoundSoFar
<1>2. CASE Process
  <2> SUFFICES ASSUME ~ failed'
               PROVE  /\ Len(file') = bank'.time * NChans
                      /\ \A i \in 1..Len(file') :
                           file'[i] = Sample((i - 1) \div NChans, (i - 1) % NChans)'
    BY DEF SoundSoFar
  <2>1. /\ bank'.time = bank.time + BlockSize /\ bank'.starts = bank.starts
        /\ Len(file') = Len(file) + BlockSize * NChans /\ ~ failed
        /\ \A i \in 1..Len(file') : file'[i] =
             IF i <= Len(file) THEN file[i]
             ELSE Sample(bank.time + ((i - Len(file) - 1) \div NChans),
                         (i - Len(file) - 1) % NChans)
    BY <1>2, ProcessStep
  <2>2. /\ Len(file) = bank.time * NChans
        /\ \A i \in 1..Len(file) :
             file[i] = Sample((i - 1) \div NChans, (i - 1) % NChans)
    BY <2>1 DEF SoundSoFar
  <2>0. BlockSize * NChans \in Nat
    BY <1>0, Products
  <2>a. Len(file') \in Nat
    BY <1>0, <2>0, <2>1
  <2>3. Len(file') = bank'.time * NChans
    BY <1>0, <2>1, <2>2, Products
  <2>4. ASSUME NEW i \in 1..Len(file')
        PROVE  file'[i] = Sample((i - 1) \div NChans, (i - 1) % NChans)
    <3>1. CASE i <= Len(file)
      BY <1>0, <2>1, <2>2, <3>1
    <3>2. CASE ~ (i <= Len(file))
      <4> DEFINE j == i - Len(file) - 1
      <4>0. i \in Nat /\ Len(file) \in Nat /\ ~ (i <= Len(file))
        BY <1>0, <2>a, <3>2
      <4>1. j \in Nat /\ i - 1 = Len(file) + j
        BY <4>0
      <4>2. file'[i] = Sample(bank.time + (j \div NChans), j % NChans)
        BY <2>1, <3>2
      <4> HIDE DEF j
      <4>3. /\ (bank.time * NChans + j) \div NChans = bank.time + (j \div NChans)
            /\ (bank.time * NChans + j) % NChans = j % NChans
        BY <1>0, <4>1, DivShift
      <4>4. i - 1 = bank.time * NChans + j
        BY <4>1, <2>2
      <4> QED
        BY <4>2, <4>3, <4>4
    <3> QED
      BY <3>1, <3>2
  <2>5. \A f, c : Sample(f, c)' = Sample(f, c)
    BY <2>1 DEF Sample
  <2> QED
    BY <2>3, <2>4, <2>5
<1>3. ASSUME NEW s \in Starts, Add(s) PROVE SoundSoFar'
  <2>1. bank'.time = bank.time /\ file' = file /\ failed' = failed
    BY <1>3 DEF Add
  <2>2. ASSUME NEW i \in 1..Len(file), Len(file) = bank.time * NChans
        PROVE  (i - 1) \div NChans < bank.time
    BY <1>0, <2>2, DivBelow
  <2>3. \A f, c : f < bank.time => Sample(f, c)' = Sample(f, c)
    BY <1>0, <1>3 DEF Add, Sample
  <2> QED
    BY <2>1, <2>2, <2>3 DEF SoundSoFar
<1>4. CASE UNCHANGED <<file, bank, failed>>
  BY <1>4 DEF SoundSoFar, Sample
<1> QED
  BY <1>1, <1>2, <1>3, <1>4 DEF Next, CreateStep, Close, dataVars, vars

(* For every number of channels and every block size: frame_count counts   *)
(* the whole blocks in the file and falls behind by whole blocks.          *)
THEOREM JobFileInStep == Spec => []FileInStep
<1> USE OfflineAssumption
<1>1. Init => TypeOK /\ Behind
  <2> SUFFICES ASSUME Init PROVE Behind
    BY InitTyped
  <2>1. bank.time = 0 /\ frame_count = 0 /\ Len(file) = 0 /\ failed = FALSE
    BY EmptySeq DEF Init
  <2>2. \E k \in Nat : bank.time = frame_count + k * BlockSize
    <3> WITNESS 0 \in Nat
    <3> QED
      BY <2>1
  <2> QED
    BY <2>1, <2>2 DEF Behind
<1>2. TypeOK /\ Behind /\ [Next]_vars => TypeOK' /\ Behind'
  BY StepTyped, StepBehind
<1>3. TypeOK /\ Behind => FileInStep
  <2> SUFFICES ASSUME TypeOK, Behind PROVE FileInStep
    OBVIOUS
  <2>1. PICK k \in Nat : bank.time = frame_count + k * BlockSize
    BY DEF Behind
  <2>2. bank.time - frame_count = k * BlockSize + 0
    BY <2>1 DEF TypeOK
  <2>3. 0 \in 0..BlockSize - 1
    OBVIOUS
  <2>4. (k * BlockSize + 0) % BlockSize = 0
    BY <2>3, DivModUnique
  <2>5. failed = (frame_count # bank.time)
    BY DEF TypeOK, Behind
  <2> QED
    BY <2>2, <2>4, <2>5 DEF Behind, FileInStep
<1> QED
  BY <1>1, <1>2, <1>3, PTL DEF Spec

(* For every number of channels and every block size: as long as no call   *)
(* failed, the file is the sound, sample by sample.                        *)
THEOREM JobFileIsSound == Spec => []FileIsSound
<1>1. Init => TypeOK /\ SoundSoFar
  <2> SUFFICES ASSUME Init PROVE SoundSoFar
    BY InitTyped
  <2>1. bank.time = 0 /\ Len(file) = 0
    BY EmptySeq DEF Init
  <2> QED
    BY <2>1, OfflineAssumption DEF SoundSoFar
<1>2. TypeOK /\ SoundSoFar /\ [Next]_vars => TypeOK' /\ SoundSoFar'
  BY StepTyped, StepSound
<1>3. SoundSoFar => FileIsSound
  BY DEF SoundSoFar, FileIsSound
<1> QED
  BY <1>1, <1>2, <1>3, PTL DEF Spec
=============================================================================
