------------------------------ MODULE MCPublish ------------------------------
(* Publish with two nodes: the lookup of the last round may call back a      *)
(* second time; that of the node key does not when an alias follows, and     *)
(* then a lookup finds both nodes or none.                                   *)
EXTENDS Publish

MCResults == [a \in BOOLEAN |-> IF a THEN {{}, Nodes} ELSE SUBSET Nodes]
MCMaxCalls == [c \in BOOLEAN \X {"node", "alias"} |-> IF c = <<TRUE, "node">> THEN 1 ELSE 2]

=============================================================================
