--------------------------- MODULE QueuePairThreads ---------------------------
(***************************************************************************)
(* The part of VMCIQueuePairAllocHelper and VMCIQueuePairDetachHelper that *)
(* runs after QueuePairList_Unlock, interleaved with other callers.  Each  *)
(* routine decides under queuePairList.mutex (one atomic step here) and,   *)
(* once unlocked, destroys the entry it kept in a local variable if the    *)
(* refCount it copied under the lock was zero: the detach of the last      *)
(* reference, and the error: label of a create that built an entry.  The   *)
(* entries are the memory VMCI_AllocKernelMem returns, reused once freed, *)
(* so an entry freed twice, or freed while listed or in use, is visible.   *)
(* Queue pairs are local ones here, the only ones with two references.     *)
(***************************************************************************)
EXTENDS Integers, FiniteSets, Functions, TLC

CONSTANTS
  Callers,   \* threads calling VMCIQueuePair_Alloc and VMCIQueuePair_Detach
  Handles,   \* the handles they pass
  Entries,   \* the memory QueuePairEntry objects are allocated in
  NoEntry    \* a NULL entry pointer

ASSUME NoEntry \notin Entries

VARIABLES
  list,        \* queuePairList: handle -> the entry listed under it
  refCount,    \* entry -> entry->refCount
  allocs,      \* entry -> times VMCI_AllocKernelMem returned it
  frees,       \* entry -> times QueuePairEntryDestroy freed it
  pc,          \* caller -> "idle", "attached" or "unlocked"
  handleOf,    \* caller -> the handle it is attached to
  entry,       \* caller -> local entry pointer (its queues, or the one to destroy)
  copied       \* caller -> the local refCount copied under the lock

vars == <<list, refCount, allocs, frees, pc, handleOf, entry, copied>>

Live(e) == allocs[e] > frees[e]

\* QueuePairList_FindEntry: the listed entry with the handle, or NULL.
FindEntry(h) == IF h \in DOMAIN list THEN list[h] ELSE NoEntry

\* QueuePairList_AddEntry and QueuePairList_RemoveEntry.
AddEntry(h, e) == list' = list @@ h :> e
RemoveEntry(h) == list' = [g \in DOMAIN list \ {h} |-> list[g]]

Init ==
  /\ list = <<>>
  /\ refCount = [e \in Entries |-> 0]
  /\ allocs = [e \in Entries |-> 0]
  /\ frees = [e \in Entries |-> 0]
  /\ pc = [c \in Callers |-> "idle"]
  /\ handleOf = [c \in Callers |-> CHOOSE h \in Handles : TRUE]
  /\ entry = [c \in Callers |-> NoEntry]
  /\ copied = [c \in Callers |-> 0]

\* The local attach case proceeds unless refCount > 1.
AttachAllowed(e) == refCount[e] <= 1

\* Under the lock, a local attach to the listed entry: its attach event
\* dispatched, one more reference, the caller gets its queues.
AllocAttach(c, h) ==
  LET e == FindEntry(h) IN
  /\ pc[c] = "idle"
  /\ e # NoEntry
  /\ AttachAllowed(e)
  /\ refCount' = [refCount EXCEPT ![e] = @ + 1]
  /\ pc' = [pc EXCEPT ![c] = "attached"]
  /\ handleOf' = [handleOf EXCEPT ![c] = h]
  /\ entry' = [entry EXCEPT ![c] = e]
  /\ UNCHANGED <<list, allocs, frees, copied>>

\* Under the lock, a create with no entry listed: QueuePairEntryCreate
\* returns fresh memory with refCount 0; either every later step succeeds
\* and the entry is listed with one reference, or one fails (PPN set,
\* local checks, hypercall) and the caller leaves for the error: label
\* with the entry still in its local variable.
AllocCreate(c, h) ==
  /\ pc[c] = "idle"
  /\ FindEntry(h) = NoEntry
  /\ \E e \in {f \in Entries : ~Live(f)} :
       /\ allocs' = [allocs EXCEPT ![e] = @ + 1]
       /\ entry' = [entry EXCEPT ![c] = e]
       /\ \/ /\ AddEntry(h, e)
             /\ refCount' = [refCount EXCEPT ![e] = 1]
             /\ pc' = [pc EXCEPT ![c] = "attached"]
             /\ handleOf' = [handleOf EXCEPT ![c] = h]
             /\ UNCHANGED copied
          \/ /\ pc' = [pc EXCEPT ![c] = "unlocked"]
             /\ copied' = [copied EXCEPT ![c] = 0]
             /\ UNCHANGED <<list, refCount, handleOf>>
  /\ UNCHANGED frees

\* Under the lock, the detach of a local queue pair by an attached caller
\* (the peer notified first if there are two references): refCount--,
\* unlisted at zero, and the count copied before unlocking.
DetachLocked(c) ==
  LET h  == handleOf[c]
      e  == FindEntry(h)
      rc == refCount[e] - 1
  IN  /\ pc[c] = "attached"
      /\ refCount' = [refCount EXCEPT ![e] = rc]
      /\ IF rc = 0 THEN RemoveEntry(h) ELSE UNCHANGED list
      /\ entry' = [entry EXCEPT ![c] = e]
      /\ copied' = [copied EXCEPT ![c] = rc]
      /\ pc' = [pc EXCEPT ![c] = "unlocked"]
      /\ UNCHANGED <<allocs, frees, handleOf>>

\* A plausible fault: entry->refCount is read again after unlocking.
DestroyDueRereadsEntry(c) == refCount[entry[c]] = 0

\* The test after QueuePairList_Unlock, on the copy made under the lock.
DestroyDue(c) == copied[c] = 0

\* After unlocking: QueuePairEntryDestroy(entry) if the copied count was
\* zero (it frees the PPN set, both queues and the entry).
AfterUnlock(c) ==
  /\ pc[c] = "unlocked"
  /\ frees' = IF DestroyDue(c) THEN [frees EXCEPT ![entry[c]] = @ + 1] ELSE frees
  /\ pc' = [pc EXCEPT ![c] = "idle"]
  /\ entry' = [entry EXCEPT ![c] = NoEntry]
  /\ UNCHANGED <<list, refCount, allocs, handleOf, copied>>

Next ==
  \E c \in Callers :
    \/ \E h \in Handles : AllocAttach(c, h) \/ AllocCreate(c, h)
    \/ DetachLocked(c)
    \/ AfterUnlock(c)

Spec == Init /\ [][Next]_vars

-----------------------------------------------------------------------------

\* Whatever the order in which two detachers of one local queue pair, a
\* creator unwinding a failed create and a caller re-creating the handle
\* run their unlocked steps, no entry is freed twice, and none is freed
\* while listed (the next QueuePairList_FindEntry would return freed
\* memory) or while an attached caller still uses its queues.
MemorySafety ==
  /\ \A e \in Entries : frees[e] <= allocs[e]
  /\ \A h \in DOMAIN list : Live(list[h])
  /\ \A c \in Callers : pc[c] = "attached" => Live(entry[c])

==============================================================================
