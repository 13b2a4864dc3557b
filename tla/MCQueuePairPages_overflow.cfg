CONSTANTS
  SizeBits = 6
  PageBits = 2

SPECIFICATION Spec

INVARIANT NumPPNsConsistentWithSizes
