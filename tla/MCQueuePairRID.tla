--------------------------- MODULE MCQueuePairRID ---------------------------
(***************************************************************************)
(* Drives the rid generator with the creates and detaches of one context: *)
(* used is the set of rids of its live queue pairs, queuePairRID the       *)
(* static counter of QueuePairEntryCreate.                                 *)
(***************************************************************************)
EXTENDS QueuePairRID

VARIABLES queuePairRID, used

vars == <<queuePairRID, used>>

Init ==
  /\ queuePairRID = ReservedMax + 1
  /\ used = {}

\* QueuePairEntryCreate with an invalid handle: the generated rid becomes
\* live unless the space was exhausted; the counter moves either way.
Create ==
  LET g == GenerateRID(queuePairRID, used)
  IN  /\ queuePairRID' = g.counter
      /\ used' = IF g.rid = NoRID THEN used ELSE used \cup {g.rid}

\* The queue pair holding rid r is destroyed.
Release ==
  \E r \in used : /\ used' = used \ {r}
                  /\ UNCHANGED queuePairRID

Next == Create \/ Release

Spec == Init /\ [][Next]_vars

TypeOK ==
  /\ queuePairRID \in 0 .. RIDSpace - 1
  /\ used \subseteq 0 .. RIDSpace - 1

\* The search loop returns what the reference returns: the first free rid
\* from the counter on, in cyclic order, or failure exactly when every
\* assignable rid is taken (ASSERT(queuePairRID == oldRID) on that path).
GeneratorMatchesReference ==
  GenerateRID(queuePairRID, used) = ReferenceRID(queuePairRID, used)

\* Across any number of wrap-arounds the counter never enters the reserved
\* range (ASSERT(oldRID > VMCI_RESERVED_RESOURCE_ID_MAX)) and no queue
\* pair is given a reserved rid.
ReservedRIDsNeverUsed ==
  /\ queuePairRID > ReservedMax
  /\ \A r \in used : r > ReservedMax
=============================================================================
