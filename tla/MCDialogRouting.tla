---------------------------- MODULE MCDialogRouting ----------------------------
(* Instances of DialogRouting for TLC. *)
EXTENDS DialogRouting

CONSTANTS e1, e2, l, s, a, b

MCEdges == {e1, e2}

AliceContact == Uri(a, a, "alice", FALSE)
BobContact == Uri(b, b, "bob", FALSE)
BesideEdge == Uri(e1, b, "bob", FALSE)   \* a device on the host of an edge, another port
Bob == Uri(e1, e1, "bob", FALSE)
Carol == Uri(e2, e2, "carol", FALSE)
At(uri) == <<uri.host, uri.user>>
Binding(aor, uri, path) == [aor |-> At(aor), uri |-> uri, path |-> path]

Registrations ==
    LET paths == {<<>>, <<Router(l, TRUE)>>, <<Router(s, FALSE)>>, <<Router(e2, TRUE)>>,
                  <<Router(s, FALSE), Router(l, TRUE)>>, <<Router(l, TRUE), Router(s, FALSE)>>}
    IN  {{Binding(Bob, c, p)} : c \in {BobContact, BesideEdge}, p \in paths}
            \cup {{Binding(Bob, Carol, p), Binding(Carol, BobContact, q)} :
                      p \in {<<>>, <<Router(l, TRUE)>>}, q \in paths}
            \cup {{Binding(Bob, Carol, <<>>), Binding(Carol, Bob, p)} : p \in paths}
            \cup {{Binding(Bob, BobContact, <<>>), Binding(Bob, Carol, <<Router(l, TRUE)>>)}}

MCScenes ==
    {[registered |-> r, tokens |-> t, contact |-> AliceContact, uri |-> Bob,
      routes |-> start[1], first |-> start[2], hops |-> h] :
        r \in Registrations, t \in BOOLEAN, h \in {3, 14},
        start \in {<< <<>>, e1 >>, << <<Router(e2, TRUE)>>, e2 >>,
                   << <<Router(l, TRUE), Router(e1, TRUE)>>, l >>,
                   << <<Router(e1, TRUE), Router(s, FALSE), Router(e2, TRUE)>>, e1 >>,
                   << <<Unreadable>>, e1 >>}}
================================================================================
