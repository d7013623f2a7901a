------------------------------ MODULE MCSimulator ------------------------------
(* An instance of Simulator for TLC: two nodes and every schedule of two faults. *)
EXTENDS Simulator

CONSTANTS n1, n2

MCNodes == <<n1, n2>>

Strike(kind, x) == [kind |-> kind, a |-> x]
MCFaults ==
    {Strike(kind, x) : kind \in {"kill", "restart", "stop", "resume"}, x \in {n1, n2}}
        \cup {[kind |-> kind, a |-> n1, b |-> n2] : kind \in {"partition", "heal", "reconnect"}}
        \cup {[kind |-> "policy", a |-> n1, b |-> n2, cut |-> TRUE],
              [kind |-> "skew", a |-> n1, rate |-> 2000]}

MCSchedules ==
    {<<>>} \cup {<<[at |-> 1, fault |-> f], [at |-> t, fault |-> g]>> :
                     f \in MCFaults, g \in MCFaults, t \in {1, 2}}
================================================================================
