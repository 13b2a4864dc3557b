------------------------- MODULE MCQueuePairThreads -------------------------
(***************************************************************************)
(* Instantiates QueuePairThreads for TLC: three callers (a creator, an     *)
(* attacher and one that re-creates a handle or fails a create), two       *)
(* handles, so that memory freed under one handle can be handed out for a  *)
(* queue pair of the other while a destroy of it is pending, and three     *)
(* entries' worth of memory, each handed out at most MaxAllocs times.      *)
(***************************************************************************)
EXTENDS QueuePairThreads

\* Reuse of an entry's memory after it is freed happens once: enough for a
\* late destroy to hit a re-created queue pair.
MaxAllocs == 2

AllocBound == \A e \in Entries : allocs[e] <= MaxAllocs
=============================================================================
