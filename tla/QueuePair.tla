------------------------------ MODULE QueuePair ------------------------------
(***************************************************************************)
(* The guest-side queue pair registry of vmciQueuePair.c: allocation of a  *)
(* new queue pair, local attach, detach, the conversion to local queue     *)
(* pairs when entering hibernation or sleep, the restoration on wake, and  *)
(* the teardown of VMCIQueuePair_Exit.                                     *)
(*                                                                         *)
(* Every exported routine runs its decisions under queuePairList.mutex, so *)
(* each is one atomic step here; the outcome of every call it makes that   *)
(* can fail (queue and PPN allocation, hypercalls, event dispatch) is      *)
(* chosen nondeterministically.  VMCIQueuePair_Convert(FALSE) does not     *)
(* take that mutex, but everything it touches (the failed-handle array and *)
(* the hibernate flag) is read by the locked routines once, so it is also  *)
(* one step.  The hypervisor is the variable device: the queue pairs this  *)
(* guest is attached to on the device side.                                *)
(***************************************************************************)
EXTENDS Integers, FiniteSets, Bags, FiniteSetsExt, TLC

CONSTANTS
  MyContext,        \* VMCI_GetContextID()
  OtherContext,     \* the context of a peer VM
  INVALID_ID,       \* VMCI_INVALID_ID
  RIDBits,          \* width of a resource id in the model
  ReservedMax,      \* VMCI_RESERVED_RESOURCE_ID_MAX
  ExplicitHandles,  \* the handles callers pass to VMCIQueuePair_Alloc
  Sizes,            \* produce and consume queue sizes, in pages
  UninitValues,     \* values of the never-initialised hibernateFailure field
  DispatchCanFail   \* whether VMCIEvent_Dispatch can fail to deliver an event

RID == INSTANCE QueuePairRID

ASSUME ExplicitHandles \subseteq {MyContext, OtherContext} \X RID!AssignableRIDs
ASSUME Sizes \subseteq Nat /\ 0 \in Sizes
ASSUME UninitValues \subseteq BOOLEAN /\ UninitValues # {}
ASSUME DispatchCanFail \in BOOLEAN

INVALID_HANDLE == <<INVALID_ID, INVALID_ID>>   \* VMCI_INVALID_HANDLE

Handles == ExplicitHandles \cup ({MyContext} \X RID!AssignableRIDs)

\* VMCI_QP_ALL_FLAGS
QPFLAG_LOCAL == "LOCAL"
QPFLAG_ATTACH_ONLY == "ATTACH_ONLY"
QPFlags == {QPFLAG_LOCAL, QPFLAG_ATTACH_ONLY}

\* The two queues of an entry, named from the creator's side.
Queues == {"produce", "consume"}

\* A queue's pages are either shared with the device (a non-local queue
\* pair) or a private guest copy (local, or converted for hibernation).
Backings == {"nonlocal", "local"}

\* QueuePairEntry, less the fields no modelled routine reads back (peer,
\* numPPNs, the list link) and the buffer pointers, which are the backing.
Entry == [flags            : SUBSET QPFlags,
          produceSize      : Sizes,
          consumeSize      : Sizes,
          refCount         : 1 .. 2,
          hibernateFailure : BOOLEAN,
          backing          : [Queues -> Backings]]

VARIABLES
  registry,        \* queuePairList: handle -> entry of every listed entry
  hibernate,       \* queuePairList.hibernate
  failedList,      \* hibernateFailedList, a bag of handles
  queuePairRID,    \* the static rid counter of QueuePairEntryCreate
  device,          \* handles of queue pairs the device has this guest attached to
  endpoints,       \* bag of <<handle, q>>: a caller attached to handle, producing into its queue q
  queueBuffers,    \* queue page buffers allocated and not freed
  ppnSets,         \* PPN sets allocated and not freed
  deviceShutdown,  \* VMCI_DeviceShutdown()
  powerLost,       \* the device was powered off (reset) during this hibernation
  loaded,          \* VMCIQueuePair_Init has run and VMCIQueuePair_Exit has not
  remoteOrigin,    \* history: live entries created non-local
  told,            \* history: entries whose creator got a peer detach event
  peerEvent        \* history: handle -> the last peer event the subscribers got

vars == <<registry, hibernate, failedList, queuePairRID, device, endpoints,
          queueBuffers, ppnSets, deviceShutdown, powerLost, loaded, remoteOrigin,
          told, peerEvent>>

\* VMCI_EVENT_QP_PEER_ATTACH and VMCI_EVENT_QP_PEER_DETACH, and no event yet.
PeerEvents == {"none", "attach", "detach"}

-----------------------------------------------------------------------------
(* Helpers *)

IsLocal(h) == QPFLAG_LOCAL \in registry[h].flags

RemoteHandles == {h \in DOMAIN registry : ~IsLocal(h)}

Holders(h) == CopiesIn(<<h, "produce">>, endpoints) + CopiesIn(<<h, "consume">>, endpoints)

\* The rids of this context that QueuePairList_FindEntry finds.
UsedRIDs == {h[2] : h \in {g \in DOMAIN registry : g[1] = MyContext}}

RemoveHandle(h) == [g \in DOMAIN registry \ {h} |-> registry[g]]

\* The handles among S whose QueuePairNotifyPeerLocal(FALSE, ...) reaches
\* the subscribers, where the routine ignores its result: all of them,
\* or any subset if the dispatch can fail.  (Where the result is checked,
\* a failed dispatch aborts the routine with the state unchanged.)
Delivered(S) == IF DispatchCanFail THEN SUBSET S ELSE {S}

\* The results QueuePairNotifyPeerLocal can return: success, or a failure
\* of VMCIEvent_Dispatch if the dispatch can fail.
DispatchResults == IF DispatchCanFail THEN BOOLEAN ELSE {TRUE}

\* QueuePairNotifyPeerLocal: the subscribers of this context get the peer
\* event ev for each handle of S.
NotifyPeerLocal(ev, S) ==
  peerEvent' = [h \in Handles |-> IF h \in S THEN ev ELSE peerEvent[h]]

-----------------------------------------------------------------------------
(* VMCIQueuePair_Init *)

Init ==
  /\ registry = <<>>
  /\ hibernate = FALSE
  /\ failedList = EmptyBag
  /\ queuePairRID = ReservedMax + 1
  /\ device = {}
  /\ endpoints = EmptyBag
  /\ queueBuffers = 0
  /\ ppnSets = 0
  /\ deviceShutdown = FALSE
  /\ powerLost = FALSE
  /\ loaded = TRUE
  /\ remoteOrigin = {}
  /\ told = {}
  /\ peerEvent = [h \in Handles |-> "none"]

-----------------------------------------------------------------------------
(* VMCIQueuePair_Alloc *)

\* A plausible fault: the hibernate check is lost.
AllocAdmittedNoHibernateCheck(flags) ==
  /\ loaded
  /\ ~deviceShutdown

\* The checks VMCIQueuePairAllocHelper makes before looking the handle up:
\* no alloc or attach once the device is shutting down, and no non-local
\* queue pair while hibernating.
AllocAdmitted(flags) ==
  /\ loaded
  /\ ~deviceShutdown
  /\ ~(hibernate /\ QPFLAG_LOCAL \notin flags)

\* VMCIQueuePair_AllocPriv rejects two zero sizes.
SizePairs == {sz \in Sizes \X Sizes : sz # <<0, 0>>}

\* The steps of the create path, in the order the code takes them; a
\* create fails at one of them or ends in "ok".
CreateSteps == <<"produceQ", "consumeQ", "entry", "ppnSet", "access",
                 "attachOnly", "hypercall", "ok">>

StepIndex(s) == CHOOSE i \in DOMAIN CreateSteps : CreateSteps[i] = s

Reached(s, t) == StepIndex(s) >= StepIndex(t)

\* The create steps that can end this create, given the handle the entry
\* would get (INVALID_HANDLE when the rid space is exhausted).
CreateOutcomes(h, peer, flags) ==
  LET local  == QPFLAG_LOCAL \in flags
      denied == h[1] # MyContext \/ peer \notin {INVALID_ID, MyContext}
  IN  {"produceQ", "consumeQ", "entry"}
      \cup (IF h = INVALID_HANDLE THEN {}
            ELSE {"ppnSet"}
                 \cup (IF ~local THEN {"hypercall", "ok"}
                       ELSE IF denied THEN {"access"}
                       ELSE IF QPFLAG_ATTACH_ONLY \in flags THEN {"attachOnly"}
                       ELSE {"ok"}))

\* Queue buffers allocated when the create fails at step s.
BuffersHeld(s) == IF s = "produceQ" THEN 0 ELSE IF s = "consumeQ" THEN 1 ELSE 2

\* A plausible fault: the error: label frees only what the destroyed entry
\* owned, leaking a queue allocated before the entry was built.
BuffersFreedEntryOnly(s) == IF Reached(s, "ppnSet") THEN 2 ELSE 0

\* The error: label: destroy the entry if it was built (freeing its PPN
\* set and both queues), else free whichever queue was allocated.
BuffersFreed(s) == IF Reached(s, "ppnSet") THEN 2 ELSE BuffersHeld(s)

PPNSetsHeld(s) == IF Reached(s, "access") THEN 1 ELSE 0

PPNSetsFreed(s) == IF Reached(s, "ppnSet") THEN PPNSetsHeld(s) ELSE 0

\* VMCIQueuePairAlloc_HyperCall when the device accepts it: the alloc
\* datagram with the entry's PPN list attaches this guest to the queue
\* pair on the device side.
AllocHyperCall(h) == device \cup {h}

\* VMCIQueuePairAllocHelper when no entry has the handle: allocate both
\* queues, build the entry (generating a rid for an invalid handle),
\* allocate its PPN set, check a local create or make the alloc hypercall
\* for a non-local one, and list the entry with one reference.  A failed
\* step unwinds through the error: label.
AllocCreate(hArg, peer, flags, p, c) ==
  /\ AllocAdmitted(flags)
  /\ hArg \notin DOMAIN registry
  /\ LET generate == hArg = INVALID_HANDLE
         gen      == RID!GenerateRID(queuePairRID, UsedRIDs)
         h        == IF ~generate THEN hArg
                     ELSE IF gen.rid = RID!NoRID THEN INVALID_HANDLE
                     ELSE <<MyContext, gen.rid>>
         local    == QPFLAG_LOCAL \in flags
     IN  \E s \in CreateOutcomes(h, peer, flags) :
           /\ queuePairRID' = IF generate /\ Reached(s, "entry")
                                THEN gen.counter ELSE queuePairRID
           /\ IF s = "ok"
                THEN \E hf \in UninitValues :
                       /\ registry' = registry @@ h :>
                            [flags |-> flags, produceSize |-> p,
                             consumeSize |-> c, refCount |-> 1,
                             hibernateFailure |-> hf,
                             backing |-> [q \in Queues |->
                                            IF local THEN "local" ELSE "nonlocal"]]
                       /\ device' = IF local THEN device ELSE AllocHyperCall(h)
                       /\ remoteOrigin' = IF local THEN remoteOrigin
                                          ELSE remoteOrigin \cup {h}
                       /\ endpoints' = endpoints (+) SetToBag({<<h, "produce">>})
                       /\ queueBuffers' = queueBuffers + 2
                       /\ ppnSets' = ppnSets + 1
                       \* no event has been sent for the new queue pair yet
                       /\ peerEvent' = [peerEvent EXCEPT ![h] = "none"]
                ELSE /\ queueBuffers' = queueBuffers + BuffersHeld(s) - BuffersFreed(s)
                     /\ ppnSets' = ppnSets + PPNSetsHeld(s) - PPNSetsFreed(s)
                     /\ UNCHANGED <<registry, device, endpoints, remoteOrigin,
                                    peerEvent>>
  /\ UNCHANGED <<hibernate, failedList, deviceShutdown, powerLost, loaded, told>>

\* A failed attach event makes the local attach go to errorKeepEntry.
AttachNotifyChecked(ok) == ok

\* The local attach case of VMCIQueuePairAllocHelper: a local entry with
\* one reference, the sizes swapped and the flags equal once QPFLAG_ATTACH_ONLY
\* is masked; after the attach event is dispatched the caller gets the
\* entry's consume queue to produce into.  Every rejection, and a failed
\* event dispatch, leaves the state as it was.
AllocAttach(h, flags, p, c) ==
  /\ AllocAdmitted(flags)
  /\ h \in DOMAIN registry
  /\ IsLocal(h)
  /\ registry[h].refCount <= 1
  /\ registry[h].produceSize = c
  /\ registry[h].consumeSize = p
  /\ registry[h].flags = flags \ {QPFLAG_ATTACH_ONLY}
  /\ registry' = [registry EXCEPT ![h].refCount = @ + 1]
  /\ \E ok \in DispatchResults :
       /\ AttachNotifyChecked(ok)
       /\ NotifyPeerLocal("attach", IF ok THEN {h} ELSE {})
  /\ endpoints' = endpoints (+) SetToBag({<<h, "consume">>})
  /\ UNCHANGED <<hibernate, failedList, queuePairRID, device, queueBuffers,
                 ppnSets, deviceShutdown, powerLost, loaded, remoteOrigin, told>>

-----------------------------------------------------------------------------
(* VMCIQueuePair_Detach *)

\* A plausible fault: an off-by-one in the last-reference test.
LastReferenceOffByOne(h) == registry[h].refCount <= 2

\* The refCount-- of the out: label leaves zero references.
LastReference(h) == registry[h].refCount = 1

\* The out: label of VMCIQueuePairDetachHelper on success: drop one
\* reference, unlist the entry at zero and destroy it after unlocking.
DetachSucceeds(e) ==
  LET h  == e[1]
      rc == registry[h].refCount - 1
  IN  /\ endpoints' = endpoints (-) SetToBag({e})
      /\ IF LastReference(h)
           THEN /\ registry' = RemoveHandle(h)
                /\ queueBuffers' = queueBuffers - 2
                /\ ppnSets' = ppnSets - 1
                /\ remoteOrigin' = remoteOrigin \ {h}
                /\ told' = told \ {h}
           ELSE /\ registry' = [registry EXCEPT ![h].refCount = rc]
                /\ UNCHANGED <<queueBuffers, ppnSets, remoteOrigin, told>>

\* A plausible fault: the result of the peer detach event is not checked.
DetachNotifyIgnored(ok) == TRUE

\* A failed peer detach event makes the local detach go to out: with a
\* failure result, so no reference is dropped.
DetachNotifyChecked(ok) == ok

\* Detach of a local queue pair: with two references the peer is sent a
\* detach event first (a failed dispatch aborts the detach unchanged).
DetachLocal(e) ==
  /\ loaded
  /\ CopiesIn(e, endpoints) > 0
  /\ e[1] \in DOMAIN registry
  /\ IsLocal(e[1])
  /\ IF registry[e[1]].refCount > 1
       THEN \E ok \in DispatchResults :
              /\ DetachNotifyChecked(ok)
              /\ NotifyPeerLocal("detach", IF ok THEN {e[1]} ELSE {})
       ELSE UNCHANGED peerEvent
  /\ DetachSucceeds(e)
  /\ UNCHANGED <<hibernate, failedList, queuePairRID, device, deviceShutdown,
                 powerLost, loaded>>

\* A plausible fault: the handle is left in the failed-handle array.
UnmarkKeepsHandle(h) == UNCHANGED failedList

\* VMCIQPUnmarkHibernateFailed, called when the detach of a marked entry
\* succeeds: remove its handle from hibernateFailedList.
UnmarkHibernateFailed(h) ==
  failedList' = IF registry[h].hibernateFailure
                  THEN failedList (-) SetToBag({h}) ELSE failedList

\* A plausible fault: NOT_FOUND is never taken as success.
DetachAcceptedIgnoresMark(h) == h \in device

\* The detach hypercall ends in a result the helper takes as success: the
\* device detaches a queue pair it has, and for an entry marked
\* hibernateFailure a VMCI_ERROR_NOT_FOUND counts as success too.
DetachAccepted(h) == h \in device \/ registry[h].hibernateFailure

\* Detach of a non-local queue pair: the detach hypercall (after which the
\* device no longer has the queue pair); a success unmarks an entry marked
\* hibernateFailure.  Any other failure leaves everything unchanged.
DetachRemote(e) ==
  LET h == e[1] IN
  /\ loaded
  /\ CopiesIn(e, endpoints) > 0
  /\ h \in DOMAIN registry
  /\ ~IsLocal(h)
  /\ DetachAccepted(h)
  /\ device' = device \ {h}
  /\ UnmarkHibernateFailed(h)
  /\ DetachSucceeds(e)
  /\ UNCHANGED <<hibernate, queuePairRID, deviceShutdown, powerLost, loaded,
                 peerEvent>>

-----------------------------------------------------------------------------
(* VMCIQueuePair_Convert(TRUE, ...): entering hibernation or sleep *)

\* How the conversion of one non-local entry ends: a failure to copy the
\* consume queue, to copy the produce queue, of the detach hypercall, or
\* success.  The hypercall fails with NOT_FOUND when the device no longer
\* has the queue pair.
ConvertOutcomes(h) ==
  {"consumeFail", "produceFail", "detachFail"}
  \cup (IF h \in device THEN {"ok"} ELSE {})

\* Queues switched to a local copy before the outcome, and queues switched
\* back by VMCI_RevertToNonLocalQueue on the failure path.
Converted(o) ==
  CASE o = "consumeFail" -> {}
    [] o = "produceFail" -> {"consume"}
    [] o \in {"detachFail", "ok"} -> {"consume", "produce"}

\* A plausible fault: the detach-failure path reverts the consume queue
\* only.
RevertedConsumeOnly(o) == IF o = "ok" THEN {} ELSE Converted(o) \cap {"consume"}

Reverted(o) == IF o = "ok" THEN {} ELSE Converted(o)

\* Page buffers allocated minus freed: each copy allocates one, a revert
\* frees the copy, success frees the two superseded buffers.
BufferDelta(o) ==
  Cardinality(Converted(o)) - Cardinality(Reverted(o))
    - (IF o = "ok" THEN 2 ELSE 0)

\* A plausible fault: VMCI_QPFLAG_LOCAL is set although the detach
\* hypercall failed.
ConvertEntryLocalOnDetachFail(entry, o) ==
  [entry EXCEPT
     !.flags = IF o \in {"ok", "detachFail"} THEN @ \cup {QPFLAG_LOCAL} ELSE @,
     !.hibernateFailure = IF o = "ok" THEN @ ELSE TRUE,
     !.backing = [q \in Queues |->
                    IF q \in Converted(o) \ Reverted(o) THEN "local" ELSE @[q]]]

\* The entry after its conversion: success sets VMCI_QPFLAG_LOCAL, every
\* failure calls VMCIQPMarkHibernateFailed.
ConvertEntry(entry, o) ==
  [entry EXCEPT
     !.flags = IF o = "ok" THEN @ \cup {QPFLAG_LOCAL} ELSE @,
     !.hibernateFailure = IF o = "ok" THEN @ ELSE TRUE,
     !.backing = [q \in Queues |->
                    IF q \in Converted(o) \ Reverted(o) THEN "local" ELSE @[q]]]

\* The sweep over the list under the list lock, then the hibernate flag.
\* The power manager alternates conversion to local and back.
ConvertToLocal ==
  /\ loaded
  /\ ~hibernate
  /\ \E outcome \in [RemoteHandles -> {"consumeFail", "produceFail",
                                       "detachFail", "ok"}] :
       LET ok == {h \in RemoteHandles : outcome[h] = "ok"}
       IN  /\ \A h \in RemoteHandles : outcome[h] \in ConvertOutcomes(h)
           /\ registry' = [h \in DOMAIN registry |->
                             IF h \in RemoteHandles
                               THEN ConvertEntry(registry[h], outcome[h])
                               ELSE registry[h]]
           /\ device' = device \ ok
           /\ failedList' = failedList (+) SetToBag(RemoteHandles \ ok)
           /\ \E d \in Delivered(ok) : /\ told' = told \cup d
                                      /\ NotifyPeerLocal("detach", d)
           /\ queueBuffers' = queueBuffers
                + MapThenSumSet(LAMBDA h : BufferDelta(outcome[h]), RemoteHandles)
  /\ hibernate' = TRUE
  /\ UNCHANGED <<queuePairRID, endpoints, ppnSets, deviceShutdown, powerLost,
                 loaded, remoteOrigin>>

\* The device is powered off while the guest hibernates: its queue pair
\* state is lost, and the wake that follows is a device reset.
DevicePowerOff ==
  /\ loaded
  /\ hibernate
  /\ ~powerLost
  /\ device' = {}
  /\ powerLost' = TRUE
  /\ UNCHANGED <<registry, hibernate, failedList, queuePairRID, endpoints,
                 queueBuffers, ppnSets, deviceShutdown, loaded, remoteOrigin, told,
                 peerEvent>>

\* A plausible fault: the drain loop sends no detach events.
WakeNotifiedNone(deviceReset) == {}

\* The handles the drain loop sends a detach event for: each one removed
\* from the failed-handle array, if the device was reset.
WakeNotified(deviceReset) == IF deviceReset THEN BagToSet(failedList) ELSE {}

\* VMCIQueuePair_Convert(FALSE, deviceReset): drain the failed-handle
\* array, notifying as above, and clear the hibernate flag.
ConvertFromLocal ==
  /\ loaded
  /\ hibernate
  /\ failedList' = EmptyBag
  /\ \E d \in Delivered(WakeNotified(powerLost)) :
       /\ told' = told \cup d
       /\ NotifyPeerLocal("detach", d)
  /\ hibernate' = FALSE
  /\ powerLost' = FALSE
  /\ UNCHANGED <<registry, queuePairRID, device, endpoints, queueBuffers,
                 ppnSets, deviceShutdown, loaded, remoteOrigin>>

-----------------------------------------------------------------------------
(* Device shutdown and VMCIQueuePair_Exit *)

DeviceShutdown ==
  /\ loaded
  /\ ~deviceShutdown
  /\ deviceShutdown' = TRUE
  /\ UNCHANGED <<registry, hibernate, failedList, queuePairRID, device,
                 endpoints, queueBuffers, ppnSets, powerLost, loaded, remoteOrigin,
                 told, peerEvent>>

\* A plausible fault: the teardown loop skips the local entries along with
\* their detach datagram.
TornDownRemoteOnly == RemoteHandles

\* The entries the loop of VMCIQueuePair_Exit takes off the head of the
\* list and destroys: every one, its refCount reset whatever it was.
TornDown == DOMAIN registry

\* Destroy the entries as above, sending a detach datagram (its result
\* ignored) for each non-local one; clear the hibernate flag and free the
\* failed-handle array.
Exit ==
  /\ loaded
  /\ deviceShutdown
  /\ \E detached \in SUBSET (TornDown \cap RemoteHandles) : device' = device \ detached
  /\ registry' = [h \in DOMAIN registry \ TornDown |-> registry[h]]
  /\ endpoints' = EmptyBag
  /\ queueBuffers' = queueBuffers - 2 * Cardinality(TornDown)
  /\ ppnSets' = ppnSets - Cardinality(TornDown)
  /\ hibernate' = FALSE
  /\ failedList' = EmptyBag
  /\ loaded' = FALSE
  /\ remoteOrigin' = {}
  /\ told' = {}
  /\ UNCHANGED <<queuePairRID, deviceShutdown, powerLost, peerEvent>>

\* The module is gone; nothing more happens.
Unloaded ==
  /\ ~loaded
  /\ UNCHANGED vars

-----------------------------------------------------------------------------

Next ==
  \/ \E h \in ExplicitHandles \cup {INVALID_HANDLE},
        peer \in {INVALID_ID, MyContext, OtherContext},
        flags \in SUBSET QPFlags, sz \in SizePairs :
        AllocCreate(h, peer, flags, sz[1], sz[2])
  \/ \E h \in ExplicitHandles, flags \in SUBSET QPFlags, sz \in SizePairs :
        AllocAttach(h, flags, sz[1], sz[2])
  \/ \E e \in BagToSet(endpoints) : DetachLocal(e)
  \/ \E e \in BagToSet(endpoints) : DetachRemote(e)
  \/ ConvertToLocal
  \/ DevicePowerOff
  \/ ConvertFromLocal
  \/ DeviceShutdown
  \/ Exit
  \/ Unloaded

Spec == Init /\ [][Next]_vars

\* VMCIQueuePair_Detach by the caller holding endpoint e.
Detach(e) == DetachLocal(e) \/ DetachRemote(e)

\* The environment's side of progress: a caller holding a queue pair keeps
\* calling VMCIQueuePair_Detach until it succeeds, and the device answers
\* the detach hypercall for a queue pair it has with success eventually.
\* The driver itself promises no progress; these are what it relies on.
Fairness == \A e \in Handles \X Queues : WF_vars(Detach(e))

LiveSpec == Spec /\ Fairness

-----------------------------------------------------------------------------
(* Properties *)

TypeOK ==
  /\ DOMAIN registry \subseteq Handles
  /\ \A h \in DOMAIN registry : registry[h] \in Entry
  /\ hibernate \in BOOLEAN
  /\ IsABag(failedList) /\ BagToSet(failedList) \subseteq Handles
  /\ queuePairRID \in 0 .. RID!RIDSpace - 1
  /\ device \subseteq Handles
  /\ IsABag(endpoints) /\ BagToSet(endpoints) \subseteq Handles \X Queues
  /\ queueBuffers \in Nat /\ ppnSets \in Nat
  /\ deviceShutdown \in BOOLEAN /\ powerLost \in BOOLEAN /\ loaded \in BOOLEAN
  /\ remoteOrigin \subseteq Handles /\ told \subseteq Handles
  /\ peerEvent \in [Handles -> PeerEvents]

\* No create that fails part way, no detach and no conversion leaves a
\* queue buffer or PPN set behind: exactly the listed entries own memory,
\* two queue buffers and one PPN set each.
NoLeak ==
  /\ queueBuffers = 2 * Cardinality(DOMAIN registry)
  /\ ppnSets = Cardinality(DOMAIN registry)

\* The driver and the device agree on the non-local queue pairs: the device
\* holds none the driver has no non-local entry for, and every non-local
\* entry is held by the device unless it is marked hibernateFailure (the
\* mark that makes its detach accept NOT_FOUND).
DriverDeviceAgreement ==
  loaded =>
    /\ device \subseteq RemoteHandles
    /\ \A h \in RemoteHandles : h \in device \/ registry[h].hibernateFailure

\* While hibernating, every non-local entry is one whose conversion failed
\* and is marked so: the sweep converts or marks each, and no non-local
\* queue pair is created until the hibernate flag is cleared.
HibernationCoversRemotes ==
  hibernate => \A h \in RemoteHandles : registry[h].hibernateFailure

\* The failed-handle array names each live, marked, non-local entry at most
\* once: wake sends one detach event per element, so a stale or repeated
\* handle would notify a queue pair that is gone or notify one twice.
FailedListTracksEntries ==
  \A h \in BagToSet(failedList) :
    /\ h \in RemoteHandles
    /\ registry[h].hibernateFailure
    /\ CopiesIn(h, failedList) = 1

\* The reference count is the number of callers attached, a non-local
\* queue pair has exactly one, and nobody holds a handle whose entry is
\* gone.
RefCountMatchesEndpoints ==
  /\ \A e \in BagToSet(endpoints) : e[1] \in DOMAIN registry
  /\ \A h \in DOMAIN registry :
       /\ registry[h].refCount = Holders(h)
       /\ ~IsLocal(h) => registry[h].refCount = 1

\* A conversion is all or nothing per entry: both queues of a non-local
\* entry are still shared with the device, both queues of a local one are
\* private copies, whichever step of the conversion failed.
ConversionAllOrNothing ==
  \A h \in DOMAIN registry :
    \A q \in Queues : registry[h].backing[q] = IF IsLocal(h) THEN "local" ELSE "nonlocal"

\* VMCIQueuePair_Exit cannot fail: once the module is unloaded no entry,
\* queue buffer, PPN set or failed handle is left and the hibernate flag
\* is clear, whatever reference counts the entries had, whether the guest
\* was hibernating with marked entries, and whatever each ignored detach
\* datagram answered.
TeardownReleasesAll ==
  ~loaded =>
    /\ DOMAIN registry = {}
    /\ queueBuffers = 0 /\ ppnSets = 0
    /\ failedList = EmptyBag
    /\ ~hibernate

\* A caller that created a non-local queue pair is told when the device
\* side of it is gone: once the guest is awake, if the device no longer
\* has the pair, the creator has received a peer detach event, sent
\* either by the conversion that detached it (Convert(TRUE)) or by the
\* wake after a device reset that drained its failed handle.
PeerGoneNotified ==
  loaded /\ ~hibernate =>
    \A h \in remoteOrigin \ device :
      CopiesIn(<<h, "produce">>, endpoints) > 0 => h \in told

\* The endpoints of a queue pair created local learn of each other from
\* the peer events alone: the last event the subscribers got for it says
\* "attach" exactly when a second endpoint is attached.  A local attach or
\* detach whose event VMCIEvent_Dispatch fails to deliver must therefore
\* fail as a whole (the result checks of VMCIQueuePairAllocHelper and
\* VMCIQueuePairDetachHelper); otherwise the remaining endpoint waits on a
\* peer that has left, or ignores one that has come.
LocalPeerViewAccurate ==
  \A h \in DOMAIN registry \ remoteOrigin :
    (peerEvent[h] = "attach") <=> (registry[h].refCount = 2)

\* A caller attached to a queue pair gets detached: whatever conversions,
\* failed detach hypercalls and device power-offs came before, endpoint e
\* is either eventually free for good or successfully detached again and
\* again; VMCIQueuePairDetachHelper never refuses a detach forever (an
\* entry whose device state was lost is released through the NOT_FOUND
\* case).
DetachEventuallyCompletes ==
  \A e \in Handles \X Queues :
    <>[](CopiesIn(e, endpoints) = 0) \/ []<><<Detach(e)>>_vars

\* The registry implements the service it promises its callers: seen
\* through the mapping below (a listed entry is a pair in use, its flag
\* VMCI_QPFLAG_LOCAL is locality, its refCount the users; the hibernate
\* flag and the module being loaded make the phase), every step of the
\* registry is a step of QueuePairService or leaves that view unchanged.
Service == INSTANCE QueuePairService
  WITH pairs <- [h \in DOMAIN registry |->
                   [local |-> IsLocal(h), users |-> registry[h].refCount]],
       phase <- IF ~loaded THEN "unloaded"
                ELSE IF hibernate THEN "hibernating" ELSE "running"

ImplementsService == Service!Spec

-----------------------------------------------------------------------------
(* What the spec and the comments of vmciQueuePair.c say, checked against *)
(* the code in the violation runs.                                        *)

\* Spec (data model): hibernateFailure is only ever true while the
\* registry-wide hibernate flag is set.
HibernateFailureOnlyWhileHibernating ==
  \A h \in DOMAIN registry : registry[h].hibernateFailure => hibernate

\* Comment of VMCIQueuePair_Convert: queue pairs that could not be
\* converted are regarded as local once the guest is out of hibernation,
\* so outside hibernation every non-local entry is attached on the device.
RemoteEntriesAttachedOutsideHibernation ==
  loaded /\ ~hibernate => RemoteHandles \subseteq device

\* A queue pair is a pair of single-producer single-consumer rings: no
\* queue of an entry has two attached callers producing into it.
SingleProducerPerQueue ==
  \A e \in BagToSet(endpoints) : CopiesIn(e, endpoints) = 1

=============================================================================
