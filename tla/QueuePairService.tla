--------------------------- MODULE QueuePairService ---------------------------
(***************************************************************************)
(* What the guest queue pair registry promises its callers, with no pages, *)
(* hypercalls, rids or failure paths: a queue pair is created with one     *)
(* user, a local one can be attached to by one more user, each detach     *)
(* drops one user and the last one removes the pair.  Entering hibernation *)
(* may turn non-local pairs into local ones (never the reverse), no        *)
(* non-local pair is created until the guest is awake again, and unloading *)
(* the module removes every pair.                                          *)
(***************************************************************************)
EXTENDS Integers, TLC

CONSTANT Handles

VARIABLES
  pairs,   \* handle -> [local, users] of every queue pair in use
  phase    \* "running", "hibernating" or "unloaded"

vars == <<pairs, phase>>

Phases == {"running", "hibernating", "unloaded"}

Pair == [local : BOOLEAN, users : 1 .. 2]

Init ==
  /\ pairs = <<>>
  /\ phase = "running"

Create(h, local) ==
  /\ phase # "unloaded"
  /\ h \notin DOMAIN pairs
  /\ local \/ phase = "running"
  /\ pairs' = pairs @@ h :> [local |-> local, users |-> 1]
  /\ UNCHANGED phase

Attach(h) ==
  /\ phase # "unloaded"
  /\ h \in DOMAIN pairs
  /\ pairs[h].local
  /\ pairs[h].users = 1
  /\ pairs' = [pairs EXCEPT ![h].users = 2]
  /\ UNCHANGED phase

Detach(h) ==
  /\ phase # "unloaded"
  /\ h \in DOMAIN pairs
  /\ pairs' = IF pairs[h].users = 1
                THEN [g \in DOMAIN pairs \ {h} |-> pairs[g]]
                ELSE [pairs EXCEPT ![h].users = 1]
  /\ UNCHANGED phase

\* Some of the non-local pairs become local ones.
Hibernate ==
  /\ phase = "running"
  /\ \E converted \in SUBSET {h \in DOMAIN pairs : ~pairs[h].local} :
       pairs' = [h \in DOMAIN pairs |->
                   IF h \in converted THEN [pairs[h] EXCEPT !.local = TRUE]
                   ELSE pairs[h]]
  /\ phase' = "hibernating"

Wake ==
  /\ phase = "hibernating"
  /\ phase' = "running"
  /\ UNCHANGED pairs

Unload ==
  /\ phase # "unloaded"
  /\ pairs' = <<>>
  /\ phase' = "unloaded"

Next ==
  \/ \E h \in Handles, local \in BOOLEAN : Create(h, local)
  \/ \E h \in Handles : Attach(h) \/ Detach(h)
  \/ Hibernate
  \/ Wake
  \/ Unload

Spec == Init /\ [][Next]_vars

==============================================================================
