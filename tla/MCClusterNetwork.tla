-------------------------- MODULE MCClusterNetwork --------------------------
(* Instances of ClusterNetwork for TLC: specs that differ in the types of  *)
(* the subnets, the security list, what is skipped, and VCN peering.       *)
EXTENDS ClusterNetwork

MCNsgs == <<"cpe-nsg", "worker-nsg">>
MCSubnets == <<"cpe", "worker">>
NoList == [s \in {} |-> s]
OfType(cpe, worker) == [s \in {"cpe", "worker"} |-> IF s = "cpe" THEN cpe ELSE worker]

Peered  == [type |-> OfType("public", "private"), list |-> NoList,
            skip |-> {}, peering |-> "managed"]
Listed1 == [Peered EXCEPT !.list = [s \in {"worker"} |-> "worker-list"], !.peering = "off"]
Partial == [type |-> OfType("private", "private"), list |-> NoList,
            skip |-> {"vcn", "igw", "nat", "sgw", "rt", "apiserver"}, peering |-> "given"]
Public  == [type |-> OfType("public", "public"), list |-> NoList,
            skip |-> {"nsg"}, peering |-> "off"]

MCAll    == {Peered, Listed1, Partial, Public}
MCNoList == {Peered, Partial, Public}
MCWithList == {Listed1}
=============================================================================
