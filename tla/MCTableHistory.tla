--------------------------- MODULE MCTableHistory ---------------------------
(* TableHistory with ids of two bytes of two bits: four peers in a bucket   *)
(* of the first byte, one in a bucket of the second.                        *)
EXTENDS TableHistory, TLC

MCSelf == <<0, 0, 0, 0>>
MCNodes == {<<0, 0, 1, 1>>, <<0, 1, 0, 0>>, <<0, 1, 0, 1>>, <<0, 1, 1, 0>>, <<0, 1, 1, 1>>}
MCBuckets == 0..3
MCBucketOf == [n \in MCNodes |-> BucketIndex(MCSelf, n)]

\* The addresses are only copied and compared.
MCSymmetry == Permutations(Addrs)

=============================================================================
