---------------------------- MODULE MCDeployment ----------------------------
(* L1 chains of two and L2 columns of three replicas, two workers in one    *)
(* column and one in the other, and two hosts with two L3 processes each.   *)
EXTENDS Deployment

Line(type, hostname, row, column, num_workers) ==
  [type |-> type, hostname |-> hostname, row |-> row, column |-> column, num_workers |-> num_workers]

MCHosts ==
  << Line("L1", "a", 0, 0, 1), Line("L1", "b", 1, 0, 1),
     Line("L2", "c", 0, 0, 2), Line("L2", "d", 0, 1, 1),
     Line("L2", "e", 1, 0, 2), Line("L2", "f", 1, 1, 1),
     Line("L2", "g", 2, 0, 2), Line("L2", "j", 2, 1, 1),
     Line("L3", "h", 0, 0, 1), Line("L3", "h", 0, 1, 1),
     Line("L3", "i", 0, 2, 1), Line("L3", "i", 0, 3, 1) >>
=============================================================================
