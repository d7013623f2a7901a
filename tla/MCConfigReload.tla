--------------------------- MODULE MCConfigReload ----------------------------
(***************************************************************************)
(* Two nodes that both run the registrar, one of them an edge, and the     *)
(* edits an operator makes: a key rotation in its steps and its mistakes,  *)
(* a member leaving and an id given to another, a shard moved, a tenant    *)
(* raised, a rollout, and a document that any rule of the loader refuses.  *)
(***************************************************************************)
EXTENDS ConfigReload, SequencesExt

CONSTANTS n1, n2

MCIdentity ==
    (n1 :> [node |-> 1, zone |-> "a", roles |-> {"edge"}]) @@
    (n2 :> [node |-> 2, zone |-> "b", roles |-> {"registrar"}])

Member(node, name, zone, roles) ==
    [node |-> node, name |-> name, zone |-> zone, roles |-> roles, rpc |-> name]

Key(id, secret, until, mint) ==
    [id |-> id, secret |-> secret, from |-> 0, until |-> until, mint |-> mint]

Listener(roles, transport, address) ==
    [roles |-> roles, transport |-> transport, address |-> address]

FirstDocument ==
    [version   |-> 1,
     parses    |-> TRUE,
     frame     |-> "f1",
     listeners |-> <<Listener({"edge"}, "udp", "x"), Listener({"registrar"}, "udp", "x")>>,
     store     |-> "dsn",
     members   |-> <<Member(1, "a", "a", {"edge"}),
                     Member(2, "b", "b", {"registrar"}),
                     Member(3, "c", "a", {"registrar"})>>,
     keys      |-> <<Key(1, "s1", 10, TRUE)>>,
     shards    |-> <<[id |-> 1, owner |-> "b"], [id |-> 2, owner |-> "b"]>>,
     tenants   |-> <<[id |-> 1, name |-> "t", min |-> 1, max |-> 4,
                      quota |-> 1, auth |-> None]>>,
     declared  |-> {},
     inFlight  |-> 1,
     timerC    |-> 4]

\* A fleet may have been started on a mint key that verifies for less than W.
MCFirstDocuments == {FirstDocument, [FirstDocument EXCEPT !.keys[1].until = 4]}

Without(list, i) == RemoveAt(list, i)

\* A key is added, with or without the mint; the mint moves; a key leaves, is
\* shortened or extended, or is given other material.
KeyEdits(keys) ==
    LET idle == [i \in DOMAIN keys |-> [keys[i] EXCEPT !.mint = FALSE]]
        known == {keys[i].id : i \in DOMAIN keys}
    IN  {Append(keys, Key(id, "s2", 10, FALSE)) : id \in {2} \ known}
        \cup {Append(idle, Key(id, "s2", 10, TRUE)) : id \in {2} \ known}
        \cup {[idle EXCEPT ![i].mint = TRUE] : i \in DOMAIN keys}
        \cup {Without(keys, i) : i \in DOMAIN keys}
        \cup {[keys EXCEPT ![i].until = u] : i \in DOMAIN keys, u \in {6, 12}}
        \cup {[keys EXCEPT ![i].secret = "s3"] : i \in DOMAIN keys \cap {1}}

\* Node 3 leaves, or its id is given to another name; node 1 is declared what
\* it is not; a name is taken twice.
MemberEdits(members) ==
    {Without(members, i) : i \in DOMAIN members \ {1, 2}}
    \cup {Append(SelectSeq(members, LAMBDA m : m.node # 3),
                 Member(3, "d", "a", {"registrar"}))}
    \cup {[members EXCEPT ![1].roles = {"edge", "registrar"}],
          Append(members, Member(4, "b", "a", {"registrar"}))}

ShardEdits(shards) ==
    {[shards EXCEPT ![2].owner = o] : o \in {"a", "b", "c"}}
    \cup {[shards EXCEPT ![2].id = 3]}

\* The listener of one node gone, one without an address, one beside it on the
\* same transport, on the other one or on one no build serves, another store.
RolloutEdits(doc) ==
    {[doc EXCEPT !.listeners = Without(@, 1)],
     [doc EXCEPT !.listeners[1].address = None]}
    \cup {[doc EXCEPT !.listeners = Append(@, Listener({"edge"}, transport, "x"))] :
              transport \in {"udp", "tcp", "tls"}}
    \cup {[doc EXCEPT !.store = "memory"], [doc EXCEPT !.frame = "f2"]}

BrokenEdits(doc) ==
    {[doc EXCEPT !.parses = FALSE],
     [doc EXCEPT !.declared = {"internalZone"}],
     [doc EXCEPT !.inFlight = 0],
     [doc EXCEPT !.timerC = TimerCFloor]}

\* A second tenant, and authentication whose secret resolves: reload takes
\* both, and a node does not start on them.
TenantEdits(doc) ==
    LET next == [doc EXCEPT !.version = @ + 1]
    IN  {[next EXCEPT !.tenants = Append(@, [id |-> 2, name |-> "u", min |-> 1,
                                             max |-> 4, quota |-> 1,
                                             auth |-> None])],
         [next EXCEPT !.tenants[1].auth = "dsn"]}

MCEdits(doc) ==
    LET next == [doc EXCEPT !.version = @ + 1]
    IN  {[next EXCEPT !.keys = k] : k \in KeyEdits(doc.keys)}
        \cup {[next EXCEPT !.members = m] : m \in MemberEdits(doc.members)}
        \cup {[next EXCEPT !.shards = s] : s \in ShardEdits(doc.shards)}
        \cup {[next EXCEPT !.tenants[1].max = e] : e \in {4, 8, 12}}
        \cup RolloutEdits(next) \cup BrokenEdits(next) \cup TenantEdits(doc)
        \cup {[doc EXCEPT !.tenants[1].max = 5]}

=============================================================================
