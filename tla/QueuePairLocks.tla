---------------------------- MODULE QueuePairLocks ----------------------------
(***************************************************************************)
(* The locks the queue pair routines take, in the order they take them,    *)
(* run by concurrent threads.  queuePairList.mutex and the per-queue mutex *)
(* (VMCI_AcquireQueueMutex) are sleeping mutexes; hibernateFailedListLock  *)
(* and the event bus's subscriber lock, taken inside VMCIEvent_Dispatch,   *)
(* are BH spinlocks with ranks.  A routine is a sequence of steps:         *)
(* acquire or release a lock, or touch paged memory (the entry), which a   *)
(* thread must not do while it holds a spinlock.  Conversion runs on the   *)
(* power management thread only; callers alloc, detach and use queues.     *)
(***************************************************************************)
EXTENDS Integers, Sequences, FiniteSets, Graphs

CONSTANTS
  Callers,        \* threads calling VMCIQueuePair_Alloc/_Detach and the queues
  PowerManager    \* the thread calling VMCIQueuePair_Convert, _Sync and _Exit

Threads == Callers \cup {PowerManager}

Mutexes == {"qpList", "queue"}
Spinlocks == {"failedList", "subscriber"}
Locks == Mutexes \cup Spinlocks

\* VMCI_InitLock(&hibernateFailedListLock, ..., VMCI_LOCK_RANK_MIDDLE_BH):
\* a rank below the subscriber lock's, so the failed-list lock may be held
\* while detach events are generated.  A spinlock is only taken with a
\* higher rank than any spinlock held.
Rank == [failedList |-> 1, subscriber |-> 2]

Acq(l) == <<"acquire", l>>
Rel(l) == <<"release", l>>
Paged == <<"paged", "entry">>

\* QueuePairNotifyPeerLocal: VMCIEvent_Dispatch takes the subscriber lock
\* to deliver the event.
NotifyPeerLocal == <<Acq("subscriber"), Rel("subscriber")>>

\* A plausible fault: entry->handle is read under the spinlock.
MarkReadsEntryUnderLock == <<Acq("failedList"), Paged, Rel("failedList")>>

\* VMCIQPMarkHibernateFailed and VMCIQPUnmarkHibernateFailed: copy the
\* handle and set hibernateFailure in the (paged) entry, then append or
\* remove the handle under the failed-list lock.
MarkHibernateFailed == <<Paged, Acq("failedList"), Rel("failedList")>>
UnmarkHibernateFailed == <<Paged, Acq("failedList"), Rel("failedList")>>

\* VMCIQueuePairAllocHelper: the create path (entry, PPN set, hypercall)
\* and the local attach path, which notifies the creator.
AllocCreate == <<Acq("qpList"), Paged, Rel("qpList")>>
AllocAttach == <<Acq("qpList"), Paged>> \o NotifyPeerLocal \o <<Rel("qpList")>>

\* VMCIQueuePairDetachHelper: a local detach with a peer notifies it; a
\* non-local one makes the hypercall and unmarks a marked entry.
DetachLocal == <<Acq("qpList"), Paged>> \o NotifyPeerLocal \o <<Rel("qpList")>>
DetachRemote == <<Acq("qpList"), Paged>> \o UnmarkHibernateFailed \o <<Rel("qpList")>>

\* The conversion of one entry in VMCIQueuePair_Convert(TRUE): under the
\* queue mutex copy the queues (and detach); a failure releases the mutex
\* and marks the entry, success frees the old buffers and notifies.
ConvertEntryFails == <<Acq("queue"), Paged, Rel("queue")>> \o MarkHibernateFailed
ConvertEntryOk == <<Acq("queue"), Paged, Rel("queue"), Paged>> \o NotifyPeerLocal

\* VMCIQueuePair_Convert(TRUE) over two non-local entries, one whose
\* conversion fails and one that succeeds, under the list mutex.
ConvertToLocal ==
  <<Acq("qpList")>> \o ConvertEntryFails \o ConvertEntryOk \o <<Rel("qpList")>>

\* A plausible fault: the wake marks the failed entries local, taking the
\* list mutex inside the failed-list lock.
ConvertFromLocalMarksEntries ==
  <<Acq("failedList"), Acq("qpList"), Paged, Rel("qpList")>>
    \o NotifyPeerLocal \o <<Rel("failedList")>>

\* VMCIQueuePair_Convert(FALSE, TRUE): drain the failed-handle array under
\* its lock, dispatching a detach event for a handle.
ConvertFromLocal ==
  <<Acq("failedList")>> \o NotifyPeerLocal \o <<Rel("failedList")>>

\* VMCIQueuePair_Exit: destroy every entry under the list mutex.
Exit == <<Acq("qpList"), Paged, Rel("qpList")>>

\* VMCIQueuePair_Sync: take and drop the list mutex, so that every routine
\* that read a global (VMCI_DeviceShutdown) under it has finished.
Sync == <<Acq("qpList"), Rel("qpList")>>

\* A reader or writer of a queue pair's rings holds its queue mutex.
QueueIO == <<Acq("queue"), Rel("queue")>>

CallerRoutines == {AllocCreate, AllocAttach, DetachLocal, DetachRemote, QueueIO}
PowerRoutines == {ConvertToLocal, ConvertFromLocal, Sync, Exit}

Routines(t) == IF t = PowerManager THEN PowerRoutines ELSE CallerRoutines

VARIABLES
  prog,   \* thread -> the steps of its current routine still to run
  held    \* thread -> the locks it holds, in the order it took them

vars == <<prog, held>>

Holds(t, l) == \E i \in DOMAIN held[t] : held[t][i] = l

Free(l) == \A t \in Threads : ~Holds(t, l)

Init ==
  /\ prog = [t \in Threads |-> <<>>]
  /\ held = [t \in Threads |-> <<>>]

Begin(t) ==
  /\ prog[t] = <<>>
  /\ \E r \in Routines(t) : prog' = [prog EXCEPT ![t] = r]
  /\ UNCHANGED held

Acquire(t) ==
  /\ prog[t] # <<>>
  /\ Head(prog[t])[1] = "acquire"
  /\ Free(Head(prog[t])[2])
  /\ held' = [held EXCEPT ![t] = Append(@, Head(prog[t])[2])]
  /\ prog' = [prog EXCEPT ![t] = Tail(@)]

Release(t) ==
  /\ prog[t] # <<>>
  /\ Head(prog[t])[1] = "release"
  /\ held' = [held EXCEPT ![t] = SelectSeq(@, LAMBDA l : l # Head(prog[t])[2])]
  /\ prog' = [prog EXCEPT ![t] = Tail(@)]

TouchPaged(t) ==
  /\ prog[t] # <<>>
  /\ Head(prog[t])[1] = "paged"
  /\ prog' = [prog EXCEPT ![t] = Tail(@)]
  /\ UNCHANGED held

Next == \E t \in Threads : Begin(t) \/ Acquire(t) \/ Release(t) \/ TouchPaged(t)

Spec == Init /\ [][Next]_vars

-----------------------------------------------------------------------------

\* Thread t waits for thread u: its next step acquires a lock u holds.
WaitsFor == {<<t, u>> \in Threads \X Threads :
               /\ prog[t] # <<>>
               /\ Head(prog[t])[1] = "acquire"
               /\ Holds(u, Head(prog[t])[2])}

\* No set of threads waits on each other in a circle: whichever routines
\* the callers and the power manager run at the same time (a detach that
\* unmarks a handle while the wake drains the failed-handle array, an
\* attach notifying while a conversion marks), the locks are never taken
\* in conflicting orders.
NoCircularWait == ~HasCycle([node |-> Threads, edge |-> WaitsFor])

\* The rules of the two kinds of lock: while a thread holds a spinlock its
\* next step neither takes a sleeping mutex nor touches paged memory (the
\* reason Mark/UnmarkHibernateFailed copy entry->handle first), and a
\* spinlock is only taken above the rank of every spinlock held (the
\* reason for VMCI_LOCK_RANK_MIDDLE_BH).
LockDiscipline ==
  \A t \in Threads :
    LET spins == {held[t][i] : i \in DOMAIN held[t]} \cap Spinlocks
    IN  prog[t] # <<>> /\ spins # {} =>
          LET s == Head(prog[t]) IN
          /\ s # Paged
          /\ s[1] = "acquire" =>
               /\ s[2] \in Spinlocks
               /\ \A m \in spins : Rank[m] < Rank[s[2]]

==============================================================================
