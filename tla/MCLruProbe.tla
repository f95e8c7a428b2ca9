----------------------------- MODULE MCLruProbe -----------------------------
\* Instances of LruProbe: peers that share a bucket, and the peer m, which
\* has a bucket of its own.
EXTENDS LruProbe, TLC

CONSTANT m

MCBuckets == {1, 2}

MCBucketOf == [n \in Nodes |-> IF n = m THEN 2 ELSE 1]

\* The peers that share a bucket and are not stable are interchangeable.
NodeSymmetry == Permutations(Nodes \ (Stable \cup {m}))

=============================================================================
