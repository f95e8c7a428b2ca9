---------------------------- MODULE MCRecordStore ----------------------------
\* Instances of RecordStore: owners that use the same alias.
EXTENDS RecordStore

CONSTANTS o1, a, Issued, Ttl

MCKeys == {"node1", "node2", "alias"}
MCNodeKey == [o \in Owners |-> IF o = o1 THEN "node1" ELSE "node2"]
MCAliasKey == [x \in Aliases |-> "alias"]

\* Good records with every number and time, and two with a flaw.
MCRecords ==
  {[owner |-> o, alias |-> a, seq |-> s,
    issued_at |-> t, expires_at |-> t + Ttl, flaw |-> f] :
      <<o, s, t, f>> \in
        (Owners \X {1, 2} \X Issued \X {"None"})
          \cup ({o1} \X {2} \X {0} \X {"InvalidSize", "InvalidSignature"})}

=============================================================================
