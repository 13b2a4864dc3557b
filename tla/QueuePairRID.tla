---------------------------- MODULE QueuePairRID ----------------------------
(***************************************************************************)
(* Resource-id generation for queue pairs created with an invalid handle:  *)
(* the static counter queuePairRID and the do-while search loop of         *)
(* QueuePairEntryCreate (vmciQueuePair.c).  Rids 0 .. ReservedMax are      *)
(* reserved; the counter is a VMCIId (uint32), modelled with RIDBits bits  *)
(* so that the wrap-around and the exhausted id space are reachable.       *)
(***************************************************************************)
EXTENDS Integers, FiniteSets

CONSTANTS
  RIDBits,      \* width of VMCIId in the model (32 in the code)
  ReservedMax   \* VMCI_RESERVED_RESOURCE_ID_MAX

ASSUME RIDBits \in Nat \ {0}
ASSUME ReservedMax \in 0 .. 2^RIDBits - 2

RIDSpace == 2^RIDBits

\* The rids the generator may hand out.
AssignableRIDs == ReservedMax + 1 .. RIDSpace - 1

\* Returned in place of a rid when every assignable rid is taken.
NoRID == -1

\* A plausible fault: the counter is incremented without the uint wrap.
NextRIDUnbounded(rid) == rid + 1

\* A plausible fault: the wrap lands on 0 instead of skipping the reserved
\* rids.
NextRIDWrapToZero(rid) == (rid + 1) % RIDSpace

\* queuePairRID++ on a uint32, skipping the reserved rids when it wraps
\* to zero.
NextRID(rid) ==
  LET n == (rid + 1) % RIDSpace
  IN  IF n = 0 THEN ReservedMax + 1 ELSE n

\* One run of the do-while loop: try rid, advance the counter, and go on
\* while the tried rid is in use and the counter has not come back to
\* oldRID.  The result is the rid found (or NoRID) and the counter left
\* behind.
\* A plausible fault: the loop gives up one rid before it is back at
\* oldRID.
RECURSIVE ScanRIDsStopEarly(_, _, _)
ScanRIDsStopEarly(rid, oldRID, used) ==
  LET taken == rid \in used
      next  == NextRID(rid)
  IN  IF taken /\ next # oldRID /\ NextRID(next) # oldRID
        THEN ScanRIDsStopEarly(next, oldRID, used)
        ELSE [rid |-> IF taken THEN NoRID ELSE rid, counter |-> next]

RECURSIVE ScanRIDs(_, _, _)
ScanRIDs(rid, oldRID, used) ==
  LET taken == rid \in used
      next  == NextRID(rid)
  IN  IF taken /\ next # oldRID
        THEN ScanRIDs(next, oldRID, used)
        ELSE [rid |-> IF taken THEN NoRID ELSE rid, counter |-> next]

\* The rid generated when the counter is at counter and the rids of this
\* context's live queue pairs are used.
GenerateRID(counter, used) == ScanRIDs(counter, counter, used)

-----------------------------------------------------------------------------
(* Reference definition: the first free assignable rid at or after the    *)
(* counter in cyclic order, and the counter just past it.                 *)

CyclicDistance(from, to) == (to - from) % Cardinality(AssignableRIDs)

ReferenceRID(counter, used) ==
  LET free == AssignableRIDs \ used
  IN  IF free = {}
        THEN [rid |-> NoRID, counter |-> counter]
        ELSE LET r == CHOOSE f \in free :
                        \A g \in free : CyclicDistance(counter, f)
                                          <= CyclicDistance(counter, g)
             IN  [rid |-> r, counter |-> NextRID(r)]
=============================================================================
