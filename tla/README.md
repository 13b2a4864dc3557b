# Model checking the VMCI guest queue pair registry

TLA+ models of `src/open-vm-tools/modules/linux/vmci/vmciQueuePair.c` (the guest side of
VMCI queue pairs), checked with TLC. This file has the inventory of the system, the plan,
what each module models, what each run checks and shows, and what is left out.

## 1. Inventory

### Components and their state

| Component | Code | State it keeps |
|---|---|---|
| HandleRegistry | `QueuePairList_*` (305-420) | `queuePairList.head`: the list of live entries, under `queuePairList.mutex` |
| HandleAllocator | `QueuePairEntryCreate` (552-588) | the static counter `queuePairRID` |
| EntryLifecycle | `QueuePairEntryCreate`, `QueuePairEntryDestroy` (543-636) | per entry: handle, peer, flags, sizes, numPPNs, PPN set, two queues, refCount, hibernateFailure |
| AllocationProtocol | `VMCIQueuePair_Alloc`, `_AllocPriv`, `VMCIQueuePairAllocHelper`, `VMCIQueuePairAlloc_HyperCall` (440-494, 655-900) | none of its own; it changes the registry, the counter and the device |
| DetachProtocol | `VMCIQueuePair_Detach`, `VMCIQueuePairDetachHelper`, `VMCIQueuePairDetachHyperCall` (514-521, 919-1025) | none of its own |
| HibernationEngine | `VMCIQueuePair_Convert`, `VMCIQPMarkHibernateFailed`, `VMCIQPUnmarkHibernateFailed` (1091-1308) | `queuePairList.hibernate` (atomic), `hibernateFailedList` under `hibernateFailedListLock` |
| ModuleInitExit | `VMCIQueuePair_Init`, `_Exit`, `_Sync` (203-299) | creates and destroys all of the above |
| Collaborators, not in `src/` | `VMCI_SendDatagram` (the hypervisor device), `VMCIEvent_Dispatch`, queue and PPN allocation, `VMCI_ConvertToLocalQueue`, the queue mutexes | the device's queue pairs, event subscribers, page buffers |

### How the parts interact

Callers (VMCI sockets and other kernel clients) call `VMCIQueuePair_Alloc` and
`VMCIQueuePair_Detach`. Both helpers take `queuePairList.mutex` and make every decision
under it: the list lookup, the refCount change, and the hypercalls to the device. A
non-local queue pair lives both in the guest list and on the device. A local one lives only
in the list. Its second endpoint attaches through the list and gets the queues swapped. It
is told about the other side through local events (`QueuePairNotifyPeerLocal`).

The power manager calls `VMCIQueuePair_Convert(TRUE)` before hibernation or sleep and
`VMCIQueuePair_Convert(FALSE, deviceReset)` after. The first call runs under the list mutex.
It converts each non-local queue pair to a private copy and detaches it from the device. A
pair that cannot be converted is marked `hibernateFailure` and its handle goes into
`hibernateFailedList`. The second call takes only `hibernateFailedListLock`. It drains that
array (sending a detach event per handle after a device reset) and clears the hibernate
flag.

### What is hard here

- **Partial failure.** A create can fail at six points, and each must be unwound
  (error: label, 880-893). Converting one entry can fail at three points, each with its own
  revert (1229-1269).
- **Crash/power loss.** The device loses its queue pairs when it is powered off during
  hibernation, but the driver keeps its entries. Detach must then accept NOT_FOUND, and only
  for marked entries (981-999).
- **Protocol sequences.** Local attach and detach with refCount 1 and 2. The hibernate gate
  against non-local creates. Alternating hibernation and wake, with detaches in between.
- **Concurrency.** It is limited by the coarse mutex: every alloc, detach and conversion
  sweep is atomic with respect to the others. `Convert(FALSE)` runs outside the mutex, but
  it only touches the failed array (under its own lock) and the atomic hibernate flag, and
  each locked routine reads those once. The detach and the create's error: label destroy the
  entry after unlocking, deciding on the refCount copied under the lock (1012-1022). Meanwhile
  the other endpoint may detach, or another caller may re-create the handle in the freed
  memory. `QueuePairThreads` splits those steps out.
- **Numeric edge.** The uint32 rid counter wraps past zero and skips the reserved rids.
  The uint64 page counts (`CEILING(size, PAGE_SIZE)`, 554-556 and 720-721) wrap for sizes
  near 2^64, and `VMCIQueuePair_AllocPriv` bounds neither size (the XXX comment at 727-730).
- **Lock order.** `hibernateFailedListLock` must rank below the event subscriber lock
  (211-219), because the wake holds it while dispatching events. The conversion takes the
  list mutex and then each queue mutex. Mark and unmark copy `entry->handle` (paged memory)
  before taking the spinlock.
- **Ignored results.** `Convert` ignores the result of each peer detach event it
  dispatches (1278, 1302). `Exit` ignores the result of each detach datagram (259), and
  must still free everything.
- **Progress.** A caller of a pair whose device state was lost must still be able to detach:
  only the NOT_FOUND case of the detach helper lets it.

### What makes each component correct (the properties)

- HandleAllocator: the search returns the first free rid from the counter in cyclic order,
  fails only when every rid is taken, and never enters the reserved range.
- EntryLifecycle: no queue buffer or PPN set outlives its entry, whichever step fails.
- AllocationProtocol and DetachProtocol:
  - refCount equals the number of attached callers;
  - a non-local entry has exactly one;
  - no caller holds a handle whose entry is gone;
  - each ring has one producer;
  - driver and device agree on the non-local queue pairs.
- HibernationEngine:
  - while hibernating, every non-local entry is marked;
  - conversion is all-or-nothing per entry;
  - the failed array names only live, marked entries, once each.
- ModuleInitExit: after unload, nothing is left in the guest.
- Detach and create error path, run concurrently: no entry is freed twice, or freed while
  it is listed or in use.
- LocalEventDelivery: for a pair created local, the last peer event the subscribers got
  says "attach" exactly when a second endpoint is attached, even when dispatch fails.

## 2. Plan

1. `QueuePairRID`: the rid generator as a pure recursive operator, checked against a
   reference definition (`MCQueuePairRID`). **Done.**
2. `QueuePair`: the registry with alloc (create and local attach), detach, both
   conversions, device power-off, shutdown and Exit, with the device as an environment
   variable. It instantiates `QueuePairRID`. **Done** (`MCQueuePair`, four configs).
3. `QueuePairService`: the abstract specification of what the registry promises callers.
   `QueuePair` implements it under a refinement mapping (`ImplementsService`). **Done.**
4. `QueuePairLocks`: the lock order of every routine, with circular wait and the spinlock
   rules checked. **Done.**
5. `QueuePairPages`: the uint64 page arithmetic of a create. **Done** (a violation run).
6. Liveness: detach progress under caller and device fairness (`DetachEventuallyCompletes`).
   **Done.**
7. Peer detach events to creators of non-local pairs (`PeerGoneNotified`). **Done.**
8. `QueuePairThreads`: the destroy after `QueuePairList_Unlock` in the detach and in the
   create's error: label, run by three callers with entry memory reused
   (`MemorySafety`). **Done.**
9. Teardown (`TeardownReleasesAll`) and an event dispatch that can fail
   (`DispatchCanFail`, a violation run). **Done.**
10. Local attach and detach events with a dispatch that can fail (`peerEvent`,
    `LocalPeerViewAccurate`), and `QueuePairThreads` at two handles and three entries.
    **Done.**
11. Left as they are, with the reason:
   - Repeated reset-wakes notify a still-marked pair again. This is a consequence of the
     `wake_leaves_remote` finding, and the spec asks for one event per handle per wake,
     which the code gives.
   - `Convert(FALSE)` stays one step. Its drain loop holds `hibernateFailedListLock`
     throughout, and so excludes the only concurrent writer of the array (Unmark, under
     the same lock). The write of the hibernate flag after the drain opens only a window
     in which a non-local create is still refused.

## 3. Modules

### `QueuePairRID`, `MCQueuePairRID`

`NextRID` is `queuePairRID++` on a `RIDBits`-wide id, with the skip of the reserved rids
on wrap (572-578). `ScanRIDs` is the do-while loop (569-579) as a RECURSIVE operator: try a
rid, advance, and go on while the rid is taken and the counter has not returned to where it
started. `GenerateRID` returns the rid (or `NoRID`) and the counter left behind.
`ReferenceRID` is the independent definition: the first free rid at or after the counter
in cyclic order.

`MCQueuePairRID` drives the generator with creates (`Create`) and destroys (`Release`) of
one context's queue pairs.

### `QueuePair`, `MCQueuePair`

| Variable | Code |
|---|---|
| `registry` | `queuePairList`: handle to entry record. The record has flags, sizes, refCount, hibernateFailure, and the backing of both queues (`nonlocal`: pages shared with the device; `local`: a private copy). |
| `hibernate` | `queuePairList.hibernate` |
| `failedList` | `hibernateFailedList`, a bag, since `VMCIHandleArray_RemoveEntry` moves the last element into the hole and order is not meaningful |
| `queuePairRID` | the static counter |
| `device` | the queue pairs the device has this guest attached to (environment) |
| `endpoints` | a bag of `<<handle, q>>`: an attached caller producing into the entry's queue `q` (the creator `produce`, a local attacher `consume`) |
| `queueBuffers`, `ppnSets` | memory allocated and not freed |
| `deviceShutdown` | `VMCI_DeviceShutdown()` |
| `powerLost` | the device was powered off during this hibernation; the wake is then a reset |
| `loaded` | between `VMCIQueuePair_Init` and `_Exit` |
| `remoteOrigin`, `told` | history variables, read by no guard: the live entries created non-local, and those whose creator has been sent a peer detach event (`QueuePairNotifyPeerLocal(FALSE, ...)` at 1278 and 1302; `WakeNotified` is the drain loop's choice) |
| `peerEvent` | history variable: per handle, the last peer event (`PeerEvents`) that `NotifyPeerLocal` delivered to the subscribers, reset when a queue pair with the handle is created |

| Action | Code |
|---|---|
| `AllocCreate(h, peer, flags, p, c)` | `VMCIQueuePairAllocHelper` when no entry has the handle. It fails at any of the steps in `CreateSteps` (queue allocations, entry with rid generation, PPN set, local access and attach-only checks, alloc hypercall) or succeeds. Failures unwind by `BuffersFreed`/`PPNSetsFreed`, which are the error: label. The rid counter moves even when a later step fails. |
| `AllocAttach(h, flags, p, c)` | the local attach branch (755-788): refCount at most 1, sizes swapped, flags equal without ATTACH_ONLY. The caller produces into the entry's consume queue. |
| `DetachLocal(e)`, `DetachRemote(e)` | `VMCIQueuePairDetachHelper`. The remote branch makes the detach hypercall, accepts NOT_FOUND for a marked entry, and unmarks it (`UnmarkHibernateFailed`). `DetachSucceeds` is the out: label. |
| `ConvertToLocal` | `Convert(TRUE)`: for each non-local entry, one of `ConvertOutcomes` (consume copy fails, produce copy fails, detach hypercall fails, or ok). `Converted`, `Reverted` and `BufferDelta` follow the copies, reverts and frees of each path. Then the hibernate flag is set. |
| `DevicePowerOff` | environment: the device loses its state during hibernation |
| `ConvertFromLocal` | `Convert(FALSE, deviceReset = powerLost)`: drain the array, clear the flag |
| `DeviceShutdown`, `Exit`, `Unloaded` | the device shutdown flag; `VMCIQueuePair_Exit`, which destroys `TornDown` (every entry the loop takes off the head with `QueuePairList_GetHead`) and whose detach datagrams may fail; nothing after unload |

Outcomes that leave every variable unchanged are not separate steps. These include the
rejections before any allocation, a failed event dispatch, and a failed detach hypercall.
The `hibernateFailure` field, which `QueuePairEntryCreate` never sets, takes any value in
`UninitValues` (both booleans in every run).

`AllocHyperCall(h)` is the device after a successful alloc datagram. `Delivered(S)` is the
set of peer detach events that reach subscribers where the code ignores the dispatch result:
all of them, or any subset when the constant `DispatchCanFail` is TRUE. That is TRUE only in
`lost_peer_event` and `service_refinement`. Where the code checks the result (a local attach, and
a local detach with two references), `DispatchResults` is the result. `AttachNotifyChecked`
and `DetachNotifyChecked` are the checks: a failure sends the routine to errorKeepEntry or
to out: with an error, so the step leaves every variable unchanged.

`DetachAccepted(h)` is the result the detach helper takes as success: the device has the
pair, or the entry is marked and NOT_FOUND counts. `Detach(e)` is one caller's
`VMCIQueuePair_Detach`. `Fairness` and `LiveSpec` add the environment assumptions of
section 5.

`Service` is the instance of `QueuePairService` under the refinement mapping:
- a listed entry is a pair in use, with `local` from `VMCI_QPFLAG_LOCAL` and `users` from
  refCount;
- the phase is `unloaded` after Exit, else `hibernating` while the hibernate flag is set,
  else `running`.

Failed creates, device power-off, device shutdown and the rid counter are invisible to it.

### `QueuePairService`

The promise to callers, with no pages, hypercalls, rids or failures:
- `Create(h, local)` gives one user; a non-local pair only while running;
- `Attach(h)` only to a local pair with one user;
- `Detach(h)` drops a user, and the last one removes the pair;
- `Hibernate` turns any subset of the non-local pairs into local ones;
- `Wake` changes nothing;
- `Unload` removes every pair.

### `QueuePairLocks`, `MCQueuePairLocks.cfg`

Each routine is the sequence of steps it takes: acquire or release a lock, or touch the
entry in paged memory. The sequences are read off the code:
- `AllocCreate`, `AllocAttach`;
- `DetachLocal`, `DetachRemote`;
- `ConvertToLocal`, which converts one entry that fails (`ConvertEntryFails`) and one that
  succeeds (`ConvertEntryOk`);
- `ConvertFromLocal`, `Exit`;
- the helpers `NotifyPeerLocal`, `MarkHibernateFailed` and `UnmarkHibernateFailed`;
- `Sync`, which takes and drops the list mutex (294-299).

The locks are:
- `qpList` and `queue`, both sleeping mutexes;
- `failedList` and `subscriber`, both BH spinlocks. `Rank` gives `failedList` the rank
  below `subscriber` that `VMCIQueuePair_Init` chooses.

The subscriber lock and `QueueIO` (a ring reader holding the queue mutex) are outside
`src/`. They are modelled from the code comment at 211-214 and from the spec.

The threads are two callers (alloc, detach, queue I/O) and one power-manager thread
(conversions, Sync and Exit). Each runs any routine of its set, one step at a time.

### `QueuePairThreads`, `MCQueuePairThreads`

This module models the steps after `QueuePairList_Unlock` as steps of their own, with the
entry as memory that `VMCI_AllocKernelMem` may hand out again once freed (`allocs`,
`frees`).

| Variable | Code |
|---|---|
| `list` | `queuePairList`, handle to entry object (`FindEntry`, `AddEntry`, `RemoveEntry`) |
| `refCount` | `entry->refCount` of each object |
| `allocs`, `frees` | how often each object was allocated and freed |
| `pc` | each caller idle, attached, or past the unlock of a detach or failed create |
| `handleOf`, `entry`, `copied` | the caller's handle, its local `entry`/`queuePairEntry` pointer, and its local `refCount` copy |

| Action | Code |
|---|---|
| `AllocAttach(c, h)` | the local attach under the lock (755-788) |
| `AllocCreate(c, h)` | a create under the lock that lists a fresh entry, or fails after `QueuePairEntryCreate` and leaves for the error: label |
| `DetachLocked(c)` | the locked part of `VMCIQueuePairDetachHelper` (949-1019), ending with `refCount = entry->refCount` |
| `AfterUnlock(c)` | `if (refCount == 0) QueuePairEntryDestroy(entry)` (1021-1022, 626-636); `DestroyDue` is the test on the copy |

Only local pairs are modelled, because only they reach refCount 2. The local attach keeps
only its refCount check: a size mismatch or a failed attach event leaves the state
unchanged, which is a stutter here. No refinement is checked for this module. Its steps
after the unlock change neither the list nor a refCount, so a mapping to
`QueuePairService` could not see a fault in them; `MemorySafety` is the property about
them.

### `QueuePairPages`

- `CEILING` and `NumPPNs` are the uint64 expressions of 554-556 and
  720-721, at a width of `SizeBits` bits with wrap.
- `HyperCallAccepts` is the `numPPNs <= 2` check of the alloc hypercall (662).
- `AdmittedSizes` is every pair `VMCIQueuePair_AllocPriv` lets through.
- The only state is the request.

## 4. Runs

| Run | Config | Expect | Shows |
|---|---|---|---|
| `rid_generator` | `MCQueuePairRID.cfg` | pass (160 states) | The loop equals the reference in a 3-bit space with rids 0-2 reserved. It wraps, reports exhaustion exactly when all five rids are taken, and never reaches a reserved rid. |
| `queue_pairs` | `MCQueuePair.cfg` | pass (65,908 states, about 1.5 min) | `NoLeak`, `DriverDeviceAgreement`, `HibernationCoversRemotes`, `FailedListTracksEntries`, `RefCountMatchesEndpoints`, `ConversionAllOrNothing` and `TeardownReleasesAll` hold with every failure point enabled. |
| `uninit_hibernate_failure` | `MCQueuePair_uninit.cfg` | violation | One create gives an entry marked `hibernateFailure` outside hibernation (the field is uninitialised). |
| `wake_leaves_remote` | `MCQueuePair_wake.cfg` | violation | Create non-local, hibernate with the detach failing, device power-off, wake: the entry stays non-local while the device no longer has it. The comment of `VMCIQueuePair_Convert` says it becomes local. |
| `reattach_same_role` | `MCQueuePair_reattach.cfg` | violation | Local create, attach, creator detaches, a new attach: two endpoints produce into the entry's consume queue. |
| `detach_progress` | `MCQueuePair_liveness.cfg` | pass (69,458 states, about 45 s) | `DetachEventuallyCompletes`: every endpoint is eventually free for good, or detached again and again. This holds with conversions failing and the device powered off, thanks to the NOT_FOUND case. |
| `peer_notification` | `MCQueuePair_notify.cfg` | pass (69,458 states, about 25 s) | `PeerGoneNotified`: once awake, every creator whose non-local pair the device no longer has has been told, whether the pair was converted or failed and was lost in a power-off. |
| `service_refinement` | `MCQueuePair_service.cfg` | pass (161,810 states, about 2 min) | With `DispatchCanFail`: `ImplementsService`, every registry step is a `QueuePairService` step under the mapping, or invisible to it, lost events included. `LocalPeerViewAccurate`, for every pair created local, the last peer event says attach exactly when two endpoints are attached. This holds through attaches, detaches, re-attaches after the creator left, conversions, wakes and failed dispatches. |
| `lock_order` | `MCQueuePairLocks.cfg` | pass (1,546 states) | `NoCircularWait` and `LockDiscipline` hold for two callers and the power manager running any routines concurrently. |
| `unlocked_destroy` | `MCQueuePairThreads.cfg` | pass (137,642 states, about 10 s) | `MemorySafety` holds. Three callers create, attach, detach, fail creates and re-create two handles in reused memory, with each destroy after the unlock. |
| `lost_peer_event` | `MCQueuePair_lostevent.cfg` | violation | With `DispatchCanFail`: create non-local, convert it (its detach event is lost), wake. The creator is still attached to a pair the device no longer has, and was never told. |
| `ppn_overflow` | `MCQueuePairPages_overflow.cfg` | violation | A consume size within 3 bytes of 2^w makes `CEILING` wrap to 0. The hypercall then accepts `numPPNs` = 3 where the sizes need 19 (w = 6, 4-byte pages). |

Bounds for `MCQueuePair`:

- **Rid space.** `RIDBits = 2` with rid 1 reserved, so this context has rids 2 and 3. Two
  generated creates exhaust the space, and the counter wraps.
- **Handles.** Callers pass both of this context's handles, so they can attach to generated
  queue pairs. They also pass one handle of a peer VM, which a local create must refuse.
- **Sizes.** `{0, 1}` pages, so that swapped and unswapped sizes differ.
- **Live queue pairs.** `MaxQueuePairs = 2` (a state constraint). Two entries are enough
  for rid exhaustion, for a local and a non-local queue pair in the same hibernation sweep,
  and for a local attach. Without the bound, the run of three entries (991,254 states)
  passed the same properties in 9 minutes.

The runs whose properties do not mention `remoteOrigin`, `told` and `peerEvent` set
`VIEW HistoryFreeView`. These are `queue_pairs` and three of the violation runs. No guard reads the history, so the view explores the same behaviours
of the other variables, once each.

The liveness, notification, local event and refinement runs use `MCOwnHandles` (this context's two rids) with no state
constraint. At most two queue pairs can exist there, so no behaviour is cut short; under
liveness checking, a cut would look like a stop. These runs lose only the peer-context
handle, whose create differs from others only by the local access check.

`QueuePairLocks` runs two callers, so two callers can contend for the list mutex while the
power manager holds the failed-list lock. One conversion covers both per-entry paths (fail
then mark, succeed then notify).

`QueuePairThreads` runs three callers, two handles and three entries' worth of memory,
each allocated at most `MaxAllocs = 2` times (a state constraint; no liveness is checked
there). Two detachers plus a third caller are the fewest that let a late destroy meet a
second detach or a re-create. With two handles, memory freed under one handle comes back
for the other, while a destroy of it may still be pending. Four callers (2.2 million
states, over 2 minutes) were checked once with the same result. They are not the run,
because every mutant re-runs the configuration.

`QueuePairPages` uses 6-bit sizes and 4-byte pages, so every wrap of `CEILING` and of the
sum occurs.

Every mutant in PROJECT.json is a plausible fault in a mapped definition, and TLC finds its
property violated:

- the error path not freeing queues allocated before the entry was built;
- the LOCAL flag set although the detach failed;
- the hibernate gate dropped;
- the unmark dropped;
- an off-by-one in the last-reference test;
- a revert of one queue only;
- the rid counter wrapping to zero, or not wrapping;
- the search loop stopping one rid early;
- NOT_FOUND never accepted for a marked entry (detach progress);
- the wake's drain loop sending no detach event (peer notification);
- the hibernate gate dropped (refinement);
- the wake marking entries local under the list mutex inside the failed-list lock (circular
  wait with a detach that unmarks);
- `entry->handle` read under the spinlock (lock discipline);
- the teardown loop skipping local entries (`TeardownReleasesAll`);
- `entry->refCount` read again after the unlock, instead of the copy, which double-frees
  (`MemorySafety`);
- the local detach going on after its peer detach event failed (`LocalPeerViewAccurate`).

## 5. Fairness

The safety runs assume no fairness. Nothing in the code forces the power manager to wake
the guest, the device to answer a hypercall successfully, or callers to detach.

`detach_progress` assumes `Fairness == \A e : WF_vars(Detach(e))`. The assumption covers two
parties in the environment:
- a caller holding a queue pair keeps calling `VMCIQueuePair_Detach` until it succeeds;
- the device eventually answers the detach hypercall for a pair it has with success.

A failed hypercall leaves every variable unchanged, so it is a stutter, and weak fairness on
the successful step says that retries eventually succeed. No fairness is given to the power
manager or to device shutdown: a behaviour may stay hibernating forever, or never unload.
The property therefore shows that the driver never puts an attached caller in a state where
its detach is disabled for good.

## 6. Not modelled

- **Event delivery.** Every event `QueuePairNotifyPeerLocal` sends is recorded as the last
  event per handle (`peerEvent`). Events to creators of non-local pairs are also recorded in
  `told`. The bus delivers to every subscriber of the context, so the model does not say
  which endpoint receives an event. `VMCIEvent_Dispatch` and the subscribers are outside
  `src/`.
- **Ring buffer contents.** The enqueue/dequeue API and the queue mutex's users are outside
  `src/`.
- **Page and PPN layout.** `QueuePair` counts sizes in pages and never overflows. The byte
  arithmetic and its wrap are in `QueuePairPages` alone. The layout of the PPN list is
  outside `src/`.
- **Event callbacks.** A subscriber callback that calls back into the registry under the
  subscriber lock is outside the code's contract (callbacks run in atomic context) and is
  not a routine of `QueuePairLocks`.
- **Exit and the device.** After `VMCIQueuePair_Exit`, the device may keep queue pairs
  whose detach datagram failed. The model lets this happen, and `TeardownReleasesAll`
  checks that the guest side is freed regardless. Nothing is stated about the device. The
  driver keeps no state to compare with, and the spec makes teardown non-failing by
  contract.
- **Non-local pairs in `QueuePairThreads`.** Their refCount is always 1, so their detach
  has no second reference to race with. Their after-unlock step is the same one.
