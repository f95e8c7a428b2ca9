------------------------------- MODULE NodeId --------------------------------
(***************************************************************************)
(* The geometry of node ids: NodeID and its XOR metric                     *)
(* (src/src/common/types.hpp).  An id is the sequence of the bits of its   *)
(* bytes, the first byte first and its most significant bit first, so the  *)
(* order of ids is that of the arrays of bytes.                            *)
(***************************************************************************)
EXTENDS Integers

CONSTANTS
  Size,    \* NodeID::SIZE, the number of bytes of an id
  Width    \* the number of bits of a byte

ASSUME SizeAssumption == Size \in Nat \ {0} /\ Width \in Nat \ {0}

Bits == Size * Width

NodeID == [1..Bits -> {0, 1}]

\* NodeID::xor_distance.
XorDistance(a, b) == [i \in 1..Bits |-> IF a[i] = b[i] THEN 0 ELSE 1]

\* NodeID::operator<=>, of the arrays of bytes: lexicographic.
Less(a, b) ==
  \E i \in 1..Bits : a[i] < b[i] /\ \A j \in 1..(i-1) : a[j] = b[j]

\* a and b differ in bit i and in no more significant one.
FirstDiffers(a, b, i) == a[i] # b[i] /\ \A j \in 1..(i-1) : a[j] = b[j]

\* The bits that are set in the XOR of byte i of a and b; byte 0 is the first
\* one and bit 0 the least significant of a byte.
Diff(a, b, i) ==
  {bit \in 0..(Width - 1) : LET p == i * Width + (Width - bit) IN a[p] # b[p]}

\* The first byte in which a and b differ.
FirstByte(a, b) ==
  CHOOSE i \in 0..(Size - 1) : Diff(a, b, i) # {} /\ \A j \in 0..(i-1) : Diff(a, b, j) = {}

\* Mutant: the bits of the byte are tried from the least significant one on.
BucketIndexReversed(a, b) ==
  IF a = b THEN -1
  ELSE LET i    == FirstByte(a, b)
           diff == Diff(a, b, i)
           bit  == CHOOSE m \in diff : \A n \in diff : m <= n
       IN  (Bits - 1) - (i * Width + ((Width - 1) - bit))

\* NodeID::bucket_index: the first byte that differs and, in it, the leading
\* bits that do not.
BucketIndex(a, b) ==
  IF a = b THEN -1
  ELSE LET i       == FirstByte(a, b)
           diff    == Diff(a, b, i)
           bit     == CHOOSE m \in diff : \A n \in diff : n <= m
           leading == (Width - 1) - bit
       IN  (Bits - 1) - (i * Width + leading)

=============================================================================
