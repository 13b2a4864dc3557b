---------------------------- MODULE QueuePairPages ----------------------------
(***************************************************************************)
(* The page arithmetic of queue pair creation: QueuePairEntryCreate's      *)
(* numPPNs, the page counts VMCIQueuePairAllocHelper passes to             *)
(* VMCI_AllocPPNSet, and the numPPNs check of the alloc hypercall.  The    *)
(* sizes are uint64 and CEILING(x, y) is ((x) + (y) - 1) / (y), so every    *)
(* sum wraps; the model keeps the wrap at a width of SizeBits bits, with a *)
(* page of 2^PageBits bytes.                                               *)
(***************************************************************************)
EXTENDS Integers

CONSTANTS
  SizeBits,   \* width of uint64 in the model
  PageBits    \* log2 of PAGE_SIZE

ASSUME SizeBits \in Nat /\ PageBits \in 1 .. SizeBits - 1

Word == 2^SizeBits
PAGE_SIZE == 2^PageBits
Uint(x) == x % Word

\* Every size VMCIQueuePair_AllocPriv lets through: any uint64 pair except
\* two zeros.
AdmittedSizes == {sz \in (0 .. Word - 1) \X (0 .. Word - 1) : sz # <<0, 0>>}

\* CEILING(size, PAGE_SIZE) in uint64 arithmetic.
CEILING(x) == Uint(x + PAGE_SIZE - 1) \div PAGE_SIZE

\* QueuePairEntryCreate: numPPNs, one header page per queue.
NumPPNs(p, c) == Uint(CEILING(p) + CEILING(c) + 2)

\* The guard of VMCIQueuePairAlloc_HyperCall.
HyperCallAccepts(n) == n > 2

\* The page count the sizes really need, in unbounded arithmetic.
PagesNeeded(size) == (size + PAGE_SIZE - 1) \div PAGE_SIZE

VARIABLE request   \* <<produceSize, consumeSize>> of one VMCIQueuePair_Alloc

Init == request \in AdmittedSizes

\* The computation has no further steps; the sizes stay as requested.
Next == UNCHANGED request

Spec == Init /\ [][Next]_request

\* Spec (data model): numPPNs = ceil(produceSize/page) +
\* ceil(consumeSize/page) + 2, consistent with the sizes recorded at
\* creation, for every request the alloc hypercall accepts and sends to the
\* device.
NumPPNsConsistentWithSizes ==
  LET p == request[1]
      c == request[2]
  IN  HyperCallAccepts(NumPPNs(p, c)) =>
        NumPPNs(p, c) = PagesNeeded(p) + PagesNeeded(c) + 2

==============================================================================
