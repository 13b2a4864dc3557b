---------------------------- MODULE MCQueuePair ----------------------------
(***************************************************************************)
(* Instantiates QueuePair for TLC: a two-bit rid space with rid 1         *)
(* reserved, so the generator has the rids 2 and 3 and wraps and runs out; *)
(* callers pass both of this context's handles (to attach to queue pairs  *)
(* created with a generated rid) and one handle of a peer VM.              *)
(***************************************************************************)
EXTENDS QueuePair

MCExplicitHandles == {<<MyContext, 2>>, <<MyContext, 3>>, <<OtherContext, 2>>}

\* At most MaxQueuePairs queue pairs are live at once: two are enough for
\* the generator to run out of rids, for a local queue pair beside a
\* non-local one in the same hibernation sweep, and for a local attach.
MaxQueuePairs == 2

StateBound == Cardinality(DOMAIN registry) <= MaxQueuePairs

\* Only this context's two assignable handles: at most two queue pairs
\* exist, so no state constraint is needed (none may cut a behaviour short
\* under liveness checking), and the smaller graph keeps the temporal
\* checks fast.
MCOwnHandles == {<<MyContext, 2>>, <<MyContext, 3>>}
\* The state without the history variables remoteOrigin, told and
\* peerEvent.  No
\* guard or update of another variable reads them, so runs whose
\* properties do not mention them check the same behaviours with this
\* view, and two states differing only in history are explored once.
HistoryFreeView ==
  <<registry, hibernate, failedList, queuePairRID, device, endpoints,
    queueBuffers, ppnSets, deviceShutdown, powerLost, loaded>>
=============================================================================
