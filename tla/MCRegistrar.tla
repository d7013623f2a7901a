----------------------------- MODULE MCRegistrar -----------------------------
(***************************************************************************)
(* Instances of AtomicRegistrar for TLC.                                   *)
(***************************************************************************)
EXTENDS Lookup

MCContacts == 1..6

\* 1 and 3 are two spellings of one contact, and so are 4 and 5.
Spellings == {<<1, 3>>, <<4, 5>>}

\* 5 is a bare spelling that names both 4 and 6 (x;line=1, x, x;line=2).
BareSpelling == {<<1, 3>>, <<4, 5>>, <<5, 6>>}

\* The user agent itself registers under a bare spelling, 2, that names both 1 and 3.
OwnBareSpelling == {<<1, 2>>, <<2, 3>>, <<4, 5>>}

Op(contact, expires) == [contact |-> contact, expires |-> expires, q |-> 1000]
Cmd(callId, cseq, ops) ==
    [callId |-> callId, cseq |-> cseq, wildcard |-> FALSE, ops |-> ops,
     expires |-> Absent, path |-> 0, supportsPath |-> FALSE, requireOk |-> TRUE]

MCOps == {Op(1, 0), Op(1, 2), Op(2, 3), Op(3, 2)}
\* One user agent: every pair of different operations, and its next REGISTER.
OneCall == {Cmd(1, 1, <<p[1], p[2]>>) : p \in {x \in MCOps \X MCOps : x[1] # x[2]}}
             \cup {Cmd(1, 2, <<a>>) : a \in MCOps}

\* Another user agent, a query, a wildcard, and the refusals.
Others ==
    { Cmd(2, 1, <<Op(1, 2)>>), Cmd(2, 1, <<Op(4, 9), Op(6, 2)>>), Cmd(3, 1, <<Op(5, 0)>>),
      Cmd(2, 1, <<>>),
      [Cmd(2, 2, <<>>) EXCEPT !.wildcard = TRUE, !.expires = 0],
      [Cmd(2, 1, <<>>) EXCEPT !.wildcard = TRUE],
      [Cmd(2, 1, <<Op(4, 2)>>) EXCEPT !.requireOk = FALSE],
      [Cmd(2, 1, <<Op(4, 2)>>) EXCEPT !.path = 1],
      [Cmd(2, 1, <<Op(4, Absent)>>) EXCEPT !.path = 1, !.supportsPath = TRUE],
      Cmd(2, 1, <<Op(4, 1), Op(1, 2)>>),
      Cmd(2, 3, <<[Op(5, 2) EXCEPT !.q = 500]>>),
      Cmd(1, 3, <<Op(1, 2), Op(2, 2), Op(3, 2)>>),
      Cmd(1, 3, <<Op(1, 2), Op(2, 2), Op(3, 2), Op(4, 2)>>) }
MCCommands == OneCall \cup Others
=============================================================================
