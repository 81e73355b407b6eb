# jfofs: a verification project

`jfofs` is a JACK server that plays *fofs* (short formant sounds). Client
processes schedule fofs through a lock-free queue in shared memory; the server
takes the fofs of each audio cycle out of the queue and hands them to dsp
clients. A library renders the same sounds to a file without JACK.

These TLA+ modules model the parts of it that keep state and make decisions.
TLC checks them on small instances. TLAPS proves, for every value of the constants,
the safety properties that the passing runs check and both refinements, each
under the conditions its theorem names.

## The system

| Part | State | Operations | Meets the others through |
|---|---|---|---|
| fof pool (`fof_queue.c` 60-142) | `free_fofs`, `fof->next` | allocate one, free one, free a chain | shared words: every client pops and pushes, the ctrl client pushes |
| fof queue (`fof_queue.c`) | `slot[]`, `excess`, `next_frame`, the cache `current_slot`/`next_frame_check` | `fof_queue_init`, `fof_queue_add`, `fof_queue_flush` | clients add; the ctrl client takes slots, moves `next_frame`, flushes |
| ctrl client (`ctrl_client.c`) | clock source, `syncronized`, last transport frame and state, `last_dsp` | the process callback, xrun callback, activate, deactivate | called by JACK; writes the queue; sets the banks of the dsp clients and adds fofs to them |
| dsp client (`dsp_client.c`) | a libfofs bank with its clock | process: `fof_next` | after the ctrl client in the JACK graph |
| mix client (`mix_client.c`) | none | copies buffers | after the dsp clients |
| client API (`api.c`) | handle, shared memory | `jfofs_new`, `jfofs_free`, `jfofs_add`, clock source, `jfofs_get_frame` | any process, any time |
| shared memory (`shmem.c`) | the segment, `reference_cnt` | create, link, unmap, unlink | server creates, clients link at the same address |
| manager (`manager.c`) | the clients of the server | create, activate, connect, deactivate, free | |
| offline engine (`offline.c`) | bank, buffers, file, `frame_count` | create, add, process, close | none: one thread, one job |
| statistics, debug, server program, programs of the tests | | | |

What is hard here: nothing is locked. Clients are separate processes that are
preempted anywhere in `fof_queue_add` while the JACK thread runs a whole cycle,
or several. `next_frame` moves under a client between its decision and its
link; the free list is a plain address-compared stack; the slot cache is two
words anyone writes; the flush empties lists that are being pushed on; JACK may
jump the transport, stop it, or use a buffer that is not the size of a slot and
changes from cycle to cycle. A client that asks for the time reads two words the
callback stores one after the other, and a clock chosen by a third. Server and
clients may end at any point. Offline, every allocation and every write may fail.

What makes each part correct:

- pool: a fof is free or belongs to one process; allocate never hands out a fof
  in use; when everything is at rest all fofs are free again; the loops end;
- queue: a fof is in exactly one place; it is linked in a slot of its own time
  and taken in the cycle of its start, at worst within one turn of the ring;
  what is accepted lies in the window `README.md` documents;
- ctrl client: each fof is handed over once; the banks stand at the cycle's
  frame; a flush leaves nothing of the old timeline;
- API: the reported frame agrees with the queue's clock, and is never far ahead
  of it, however the reads fall among the callback's stores;
- shared memory and manager: no callback meets memory that is freed; a start is
  complete or undone; the reference count counts the clients;
- statistics: the count that is printed is what its label says;
- offline: nothing leaks; the file is the sound, frame by frame.

`PROJECT.json` lists the hazards at the lines where they bite.

## The modules

`FofOwnership` is the abstract promise of the pool: a map from fofs to owners in
which a process may take a free fof, pass fofs it holds to another process, or
return them.

`FofPool` is the free list. `free_fofs` and `next` are the shared words; `fof`,
`tail` and `exp` are the locals of the three functions; `pc` says where a process
is. There is one action per access to a shared word: `AllocLoad`, `AllocNext`
and `AllocCas` are the load of the head, the read of its successor (evaluated
before the exchange it is an argument of) and the exchange; `FreeLoad` and
`FreeCas` are the loop that pushes a chain. `fof->next = NULL` after a successful
pop is part of `AllocCas`: the word is written by nobody else, and a client that
reads it meanwhile has lost its exchange unless the head comes back, which is
covered with either value. `own` is a history variable that no guard reads.
`Late`, `Hand` and `GiveBack` close the module with the shortest life a fof can
have; the composed modules replace them by the real callers.

`Statistics` adds to the pool what a build with `STATISTICS_ENABLE` measures:
whether a fof was ever used (`time_us` is not 0) and the walk of
`max_used_free_list`. It extends `FofPool` without touching its steps, so the run
that checks the pool uses it.

`Schedule` is the abstract promise of the queue on the frame time clock: a
calendar of accepted fofs and a clock that moves a buffer at a time, and only
when no fof of the last cycle is left over. A fof accepted in time is taken by
the cycle of its start frame, any other within a turn. There are no slots, lists,
lanes or threads in it. `CtrlClient` maps `clock` to `next_frame` and a fof's entry
to its slot, its start frame and the value of `next_frame` when it was linked.

`FofQueue` extends the pool with the ring. A call of `fof_queue_add` is
`Add`, `Allocate`, `LoadFrame`, then one of: late (`FreeLate`), beyond the ring
(`ExcessLoad`, `ExcessStore`), or a slot. `CacheTest`, `CacheSlot` and `CacheCheck`
are the accesses to the cached slot number; the slow lane is for the slot of
`next_frame` itself, the fast lane for all others, each a load, a check and an
exchange. `fof_queue_flush` is `FlushRing`, `FlushExcess`, `FlushWalk` (the walk of
`fof_queue_release_list` to the tail), the pool's free loop, and the two resets.
`own` now also names the slot or the excess list a fof is in.

`CtrlClient` composes the queue with the callback, one action per access to
shared state (`CtrlBegin` to `CtrlFree`), the clocks of the dsp banks
(`DspProcess`), the API calls (`ClientAdd`, `SetClockSource`) and JACK
(`JackCycle`, external: cycles with a buffer of any size in `Buffers`, a transport
that starts, stops and is located). In the `MaxUnwired`
cycles between `manager_activate_clients` and the effect of
`manager_connect_clients` JACK may run dsp clients ahead of the ctrl client
(`MayRunAhead`). `hist`
records when a fof was linked and how often it was handed over.

`ApiClock` extends `CtrlClient` with the clients' view of the clock: `GetLoad` is
the two loads of `current_frame`, `GetNow` its read of JACK's clock, `CurrentFrame`
its result; `SetQueue` and `SetSetup` are the two stores of
`jfofs_set_clock_source`, of which the callback reads the first and `current_frame`
the second. `JackTick` lets JACK's clocks run on within a cycle. `calm` and `quiet`
are history: whether no change of the clock and no jump, or no callback either,
fell into a read.

`OfflineJob` is `offline.c`: creation in its steps, each of which may fail, then
add, process with short writes, close. The samples are abstract: the frame and
the channel a sample was rendered for and whether a fof starts there.

`Lifecycle` is the life of server and clients: `shmem_create` (`Start` to `Setup`),
`manager_new` (`NewCtrl` to `NewDsp`), `manager_activate_clients`,
`manager_connect_clients`, `manager_free` with its deactivation, the process's end
by `exit_handler`, at a client that could not be made and is used (`NullClient`), by
a signal that comes before `main` has its manager (`SignalEarly`), by a failure or by
a kill, and the callbacks that run meanwhile, reduced to whether they run. Every end
other than through `manager_free` leaves the name of the memory and may come at any
step (`Die`); `NullClient` and `SignalEarly` are ends of this kind that the code brings
about by itself. Clients run `jfofs_new` and `jfofs_free`, in a process of their own or in the server's with the memory given to them, with
`reference_cnt++` as a load and a store, and may end at any point. `seg` keeps
every segment ever created, for old clients go on using theirs after a restart.

The proofs are in modules of their own, one per component, on two modules of
lemmas:

| Module | Extends | Holds |
|---|---|---|
| `DivModLemmas` | `Integers` | division and remainder by a positive number: unique, monotone, shifted by a multiple; products |
| `ListLemmas` | `FofPool` | `List` and `Segment` (below), and what a push, a pop, taking a whole list, splicing a chain and the walk of `check_free_list` do to them |
| `FofPoolProofs` | `Statistics`, `ListLemmas` | the pool |
| `CtrlClientProofs` | `CtrlClient`, `DivModLemmas` | the queue and the callback with any number of clients and on both clocks |
| `RingProofs` | `CtrlClientProofs`, `ListLemmas` | the queue on the frame time clock: lists, time, the calendar |
| `ApiClockProofs` | `ApiClock`, `CtrlClientProofs` | the clients' view of the clock |
| `OfflineProofs` | `OfflineJob`, `DivModLemmas` | the offline engine |
| `LifecycleProofs` | `Lifecycle` | server, clients and the segment |

Conventions: 0 is `NULL` and a fof is its index in the shared array. Times are
frames scaled by `SampleRate` over `Second`, chosen so that the division rounds.
`FrameMod` is 2^32 of `jack_nframes_t`. Atomics are sequentially consistent: the
code uses acquire/release and, in places, plain accesses, so the model may miss
what weaker orders add, and everything it finds is possible on any hardware.
A definition whose comment begins with "Bug:" is a mutant and is used by no
specification.

## The runs

| Run | Instance | Shows |
|---|---|---|
| `pool_one_client` | 4 fofs, 1 client, ctrl | free list intact, no sharing, the inductive invariant, refinement of `FofOwnership`, loops of the client end, `max_used_free_list` counts the peak |
| `pool_two_clients` | 2 clients | **violated**: the free list loses fofs (ABA) |
| `frame_clock` | 2 slots of 2 frames, 2 fofs, 1 client, 2 dsp clients, 3-bit frames | all lanes against the callback: one place per fof, on time, within a turn, handed over once, banks in step, accepted in the window, rejected only when near, refinement of `Schedule` |
| `buffer_change` | JACK buffers of 1 or 2 frames, slots of 2, 4 dsp clients | a slot is taken in one or two cycles and `next_frame` falls inside a slot; fofs leave within a turn, banks keep step, `jfofs_add` returns under fairness |
| `clock_switch` | both clocks, a locate target, 3 cycles | flushes against adds: one place per fof, once, banks in step, the flush drains |
| `api_clock` | a client that sets the clock, one that reads it, 4 cycles, 2 locate targets | reads are at most a buffer ahead, agree with the clock between callbacks, lose at most a frame as a time |
| `transport_late` | transport clock | **violated**: accepted fofs are played a turn late |
| `start_race` | one cycle before the ports are connected | **violated**: a bank stays a buffer behind the queue |
| `cache_race` | 2 clients, one call each | **violated**: the slot cache sends a fof to a taken slot |
| `excess_flush` | a flush against the excess list | **violated**: the free list is corrupted |
| `offline` | 2 channels, blocks of 2 frames, 3 blocks | nothing leaks, the file is the sound, `frame_count` is right |
| `lifecycle` | 2 dsp clients, 2 starts of the server, 2 clients with one link each | no callback meets freed memory, `manager_free` frees only clients that are all made and deactivated and then leaves nothing, a start that succeeds is complete, when `reference_cnt` is right |

The bounds. Two slots are the smallest ring with a slot that is current and one
that is not, so both lanes are used, and a turn is short enough that `MaxCycle`
covers it more than once. Two fofs are a list with a head and a tail, and let
the pool run dry. Two calls let a fof be freed and used again. The times lie
in the past, in the current slot, in the next, exactly a turn ahead and beyond;
in `frame_clock` one of them exceeds the range of `jack_nframes_t`. In `api_clock`
four cycles let a read begin in one cycle and end two callbacks later, on either
clock, and the sample rate and the second are chosen so that both divisions round.
The passing runs of the queue have one client: with two, the free list breaks
first (`pool_two_clients`), which would hide everything else.

Why the violated runs are findings and not mistakes of the model: each trace
uses only orders of the code's own accesses and none needs weak memory.
`pool_two_clients`: a client reads the head and its successor; another pops the
head and its successor and frees the head; the first exchange succeeds and
installs a fof that is in use. `transport_late`: the callback stores the current
transport frame (`ctrl_client.c` 183) and takes its slot (209); until the next
cycle a fof with that very start frame counts as not late. `start_race`: the
clients are active from `manager.c` 42 on and connected at 50; a dsp client that
runs first in the ctrl client's first cycle moves its bank, and the ctrl client
sets it back to the frame that bank has just played. `cache_race`: lines 236-241 of `fof_queue.c` by two clients whose
`next_frame` differ. `excess_flush`: line 227 reads `excess`, the flush takes and
frees the list, line 228 stores. The remaining runs do not use the transport, a
second client or an excess fof during a flush where that would bring these
back; `OnTime` and the refinement of `Schedule` are checked where JACK's buffer has
the size of a slot, for with a smaller one a client may link into a slot that is
half played.

What else the runs showed. A start frame is cut to 32 bits while `next_frame` has
64: `AcceptedInWindow` holds only with the exception it states, and after 2^32
frames (27 hours at 44100 Hz) every fof is late. Between the flush and the store
of the new frame (`ctrl_client.c` 176 and 183) `next_frame` is still the old one: a
fof added there survives the jump, and `FlushDrains` allows for exactly these. A
ring of two slots, and only that, can reject a fof that is exactly a slot ahead
(`LateIsNear`). A read of the clock between the two stores of the callback is a
buffer ahead, so that the next one can go back (`NotFarAhead` allows it), and a fof
added for the time just read can start one frame before it (`RoundTrip`).

A failed start is not always undone. `manager_new` keeps a dsp client it could not
make as NULL (`manager.c` 89), and `manager_free` tests for it (109), but calls
`manager_deactivate_clients` first, which uses it untested (157): if the activation
fails before that client's turn, the process ends in the middle of its undo and the
name of the memory stays. `Deactivate` stops there and `NullClient` ends the process;
`NothingLeft` therefore says that what `manager_free` frees is complete, and what
is left when it is through.

Fairness. `FairSpec` assumes that JACK's callbacks run and that a process that is
inside a call keeps running: an operating system schedules both; `PoolFairness`
says the same of the pool alone. Nobody is assumed to call. The callback's own push on the free list is lock-free, not
wait-free, so its end is not claimed. In `buffer_change` the number of cycles is
bounded by `MaxCycle`, so the run excludes loops that never end by themselves;
`pool_one_client` has no such bound.

Deadlock is checked in every passing run; `AtRest` is the end of a bounded
behaviour.

## What is proved

Every theorem holds for every value of the constants that the `ASSUME`s of the
modules allow: any pool, any ring of 1 to 128 slots (a power of two, for the code
takes the slot number with a mask), slots of any size, any sample rate, up to
eight dsp clients, any sets of start times and of buffer sizes, and no bound on
calls, cycles or restarts other than those the actions name, which may be any
number. The other assumptions only keep names apart: the ctrl client is no API
client, and what `own` uses for the free list, a slot or the excess list is no
process. Some theorems have a hypothesis more:

| Hypothesis | Says | Without it |
|---|---|---|
| `OneClient` | one process calls `jfofs_add` | `pool_two_clients`, `cache_race`: the list and the cache break |
| `FrameClock` | the server stays on the frame time clock, the one it starts with | `transport_late`: fofs are a turn late; `excess_flush`: the flush breaks the list |
| `SmallBuffers` | JACK's buffers fit a slot | a cycle would have to take two slots and takes one (`max_buffer_size` excludes it) |
| `SlotBuffers` | JACK's buffers have the size of a slot | a client may link into a slot that is half played |
| `WiredAtOnce` | the connections take effect before the first cycle | `start_race`: a bank stays behind |
| `OneSetter` | one process calls `jfofs_set_clock_source` | the stores of two can cross and leave the two words different |
| `OneBuffer` | JACK keeps its buffer size | a read between two cycles sees the frame of one size and the size of the other |
| `FineTime` | at most a million frames in a second | a microsecond would be less than a frame |

### The pool (`FofPoolProofs`, with `OneClient`)

`PoolInvariant`, `PoolTyped`, `PoolNoSharing`, `PoolFreeListIntegrity`,
`PoolImplementsOwnership`, `PoolPeakUsed`.

`NoSharing` is not inductive: popping the head leaves the list intact only if no
free fof points at the head and no two point at the same fof, and the value a
client read of the head's successor must still be true at its exchange. `PoolInv`
adds exactly these: `FreeLinks`, `ClientView` (which is where one client is needed:
only a client pops) and `CtrlChain` (the chain the ctrl client gives back is linked
in the same way). One lemma per action shows that it is preserved. For the
refinement every step leaves `own` alone or is a `Take`, `Pass` or `Return`.

`FreeListIntegrity` is about a walk along the list, and induction along it is out
of the prover's reach. `List(next, own, w, h)` says instead that the fofs of owner `w` are
the list from `h`: links stay among them, are injective and miss `h`, and *every
set that holds `h` and is closed under links holds them all*. The last conjunct
quantifies over sets, so a push, a pop or a splice is proved to preserve it by
naming the set to use it with. That the walk then visits each fof once and reaches
NULL is proved once, in `ListWalk`, from least numbers: of the places of the walk that
break a rule there is a first. The invariant for the theorem is `PoolInv` and `Lists` (the free
fofs are a `List`, the ctrl client's a `Segment`).

`PoolPeakUsed` adds `UsedFirst`: every fof that was in use counts once in the
peak, and on the free list no used fof is behind one that never was. The
walk of `max_used_free_list`, which stops at the first fof with `time_us` 0, thereby
counts all of them.

### The queue and the callback, any clients, both clocks (`CtrlClientProofs`)

- `ServerTyped`: the state is well typed and no `NULL` is followed. The invariant is
  `Inv`: types, `Pointers` (where a process is, it has a fof to work on) and
  `Flushing` (`flush_i` says whether a flush is under way).
- `ServerFlushDrains`: at the end of a flush every fof of the ring and of the excess
  list came in this very cycle. `Drained` says it of the slots the flush has
  passed; clients may go on linking behind it, and what they link is new.
- `ServerBanksInStep` (`WiredAtOnce`): each bank stands at the cycle's frame while fofs
  are handed out. `Synced` says when the callback is synchronised, `BanksFollow`
  where the banks stand at every step of the cycle: on the frame time clock they
  follow `next_frame` by themselves, on the transport they are set.

### The queue on the frame time clock (`RingProofs`, with `FrameClock`)

- `ServerPartition` (`OneClient`): every fof is in one place, and every list ends.
  The invariant `RingInv` says that the free list, each slot and the excess list are
  a `List`, what the client read is still true (`ClientPart`), and how far
  the ctrl client is with the list it took (`CtrlPart`).
- `ServerDeliveredOnce` (`OneClient`): `HandedOut` says that along the list in the
  ctrl client's hands the fofs before its pointer were handed out once and the
  others never.
- `ServerAcceptedInWindow` and `ServerLateIsNear` (`OneClient`): `Near` relates a
  call to the frame it read, which may be old by any number of cycles.
- `ServerOneTurn` (`SmallBuffers`; any clients): `NotTaken` says that between the frame
  at which a fof was linked and the one the ring has been taken to, the fof's slot
  did not come up. A turn comes up with every slot, so less than a turn has passed.
  It holds wherever the cache sends the fof and whatever the free list has become.
- `ServerOnTime` (`OneClient`, `SlotBuffers`): `InPlace` says that the slot of a linked fof
  is that of its start frame, through the cached slot number (`Cached`), and that
  `next_frame` stays at the beginning of a slot. With `NotTaken` and `Near` the cycle that
  reaches the start frame takes that very slot.
- `ServerImplementsCalendar` (same hypotheses): `Spec => CalendarSpec`. Linking a fof
  is `Accept`, the exchange of the slot `Take`, the give-back `Leave`, the addition to
  `next_frame` `Tick`; every other step stutters. That `Tick` finds nothing overdue
  is the invariant of `ServerOnTime` together with that of `ServerOneTurn`.

### The clients' view of the clock (`ApiClockProofs`)

- `ReadsAgree` (`OneSetter`): `ClockInv` says what the two words of the clock hold at
  each place of the callback (`Stamped`), how the two words of the clock source relate
  (`Setting`), and that a read no callback fell into has them as they are.
- `ReadsNotFarAhead` (`OneSetter`, `OneBuffer`): a read may begin before one callback and
  end after several. `BufferInv` adds what the words hold before the callback
  has stored them (`Behind`) and a bound that a read keeps from its first load on
  (`CalmRead`), because the clock only goes forward while nothing jumps.
- `TimeRoundTrip` (`FineTime`): whenever the frames read fit `jack_nframes_t`
  (`FramesFit`, 27 hours at 44100 Hz), rounding down twice loses at most a frame.

### The offline engine (`OfflineProofs`)

`JobNothingLeaks`: the parts made before the stage are held once and each error
path gives back exactly these. `JobFileInStep`: the bank is ahead of `frame_count` by
whole blocks, one for each write that fell short. `JobFileIsSound`: while nothing failed
the samples in the file are those of their frame and channel, the ones just
appended by the division of their index by the number of channels.

### Server, clients and segment (`LifecycleProofs`)

`LifecycleInvariant` is the inductive invariant `Inv`: for each place of the
main thread which JACK clients are made and active (`Nodes`), which ports are connected
(`Ports`), which segment the name stands for (`Named`), that callbacks run
for active clients only, what the clients that are given the memory may
rely on (`Clients`), and that in a segment with a clean history the count is right and
at most one client is about to store it (`Counts`). `ServerCallbackSafe`,
`ServerAllInPlace` and `ServerRefCount` follow from it. For `ServerNothingLeft`, `Undone`
says how far `manager_deactivate_clients` has come: the clients are made and
deactivated one by one, so that what is freed is complete. The set of API
clients is finite (`LifecycleAssumption`), for the count is the size of a subset of it.

TLC checked each inductive invariant on the run's instance, or a smaller one, before
it was proved.

### Only model-checked

- Liveness: `ClientReturns` and `AddReturns` need fairness and `ENABLED`.
- `Partition` and `DeliveredOnce` when the clock is changed and flushes run
  (`clock_switch`): the theorems are for the frame time clock. A flush that meets an
  excess fof breaks both (`excess_flush`), so a theorem has to exclude exactly this.
- `RoundTrip` where frames exceed their type, and `BanksInStep` with unwired cycles, do
  not hold; the violated runs and the hypotheses above say why.

## What is not modelled

- The samples: libfofs is not in the repository, and the mix client's callback
  only copies buffers.
- Option parsing, the query of PipeWire, printing, and the counters of
  `statistics.c`, which are plain increments nothing reads but the dump.
- What a client that links before `fof_queue_init` does to the queue.
- A failure of `jack_deactivate`, a port without a buffer, or a cycle in which JACK
  skips one of the clients: the banks count cycles by themselves on the frame time
  clock and would stay behind.
- What a manager that is freed twice does (a second signal in `exit_handler`): the
  process is taken to end.
- The 32-bit wrap of JACK's own frame counters, and a fof added for time 0, which
  `max_used_free_list` takes for one never used.
- JACK buffers larger than a slot (`max_buffer_size` is there to exclude them).
- Two clients that set the clock at once: their stores can cross and leave the two
  words different. Reads before the first callback, when `frame_stamp` is 0.
- `stack.c`, `api_new.c`, `manager_dummy.c` and `main_shmem.c`, which no target of the
  server or the library uses, and the programs of the tests.

## Plan

1. Done: the models `FofPool`, `FofOwnership`, `Statistics`, `FofQueue`, `Schedule`,
   `CtrlClient`, `ApiClock`, `OfflineJob`, `Lifecycle`; the proofs `DivModLemmas`,
   `ListLemmas`, `FofPoolProofs`, `CtrlClientProofs`, `RingProofs`, `ApiClockProofs`,
   `OfflineProofs`, `LifecycleProofs`.
2. Theorems: `Partition` and `DeliveredOnce` through changes of the clock, with a
   hypothesis in the place of `FrameClock` that keeps excess fofs away from a flush;
   on the calendar alone, that a fof is gone within a turn of being accepted.
