----------------------------- MODULE MCNodePlan -----------------------------
(* Four services, two of them in one group, on up to three machines.        *)
EXTENDS NodePlan

ThisMachine == Loopback
OtherMachine == "10.0.0.2"

\* Before the form listed services: roles alone, and the roles of one machine
\* on two.
RolesFile ==
    [nodes |-> <<[name |-> "db-node", ip |-> ThisMachine, roles |-> {"database", "middleware"}, services |-> {}],
                 [name |-> "node2", ip |-> OtherMachine, roles |-> {"platform", "middleware"}, services |-> {}]>>,
     profiles |-> {"platform"}, off |-> FALSE, agents |-> Unset,
     host |-> [m \in Addressed |-> ThisMachine]]
Written == {RolesFile}

Numbered == <<"node1", "node2", "node3">>
=============================================================================
