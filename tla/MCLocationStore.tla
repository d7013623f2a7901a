--------------------------- MODULE MCLocationStore ---------------------------
(***************************************************************************)
(* Instances of LocationStore for TLC.                                     *)
(***************************************************************************)
EXTENDS LocationStore

Op(contact, expires) == [contact |-> contact, expires |-> expires, q |-> 1000]
Cmd(callId, cseq, ops) ==
    [callId |-> callId, cseq |-> cseq, wildcard |-> FALSE, ops |-> ops,
     expires |-> Absent, path |-> 0, supportsPath |-> FALSE, requireOk |-> TRUE]

MCContacts == {1}

\* Two user agents that share a contact, a removal and a query.
MCCommands ==
    { Cmd(1, 1, <<Op(1, 2)>>), Cmd(2, 1, <<Op(1, 2)>>), Cmd(1, 2, <<Op(1, 0)>>),
      Cmd(1, 1, <<>>) }

\* Every worker runs on one node.
OneNode == [w \in Workers |-> CHOOSE h \in Nodes : TRUE]

\* The workers are interchangeable when they run on one node.
WorkerSymmetry == Permutations(Workers)
=============================================================================
