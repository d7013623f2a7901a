---------------------------- MODULE ConfigReload -----------------------------
(***************************************************************************)
(* A fleet of nodes running one cluster document, while an operator        *)
(* publishes the next ones.  A node takes a published document by reload,  *)
(* judged against the document it runs, or by a restart, which judges the  *)
(* document alone.  The operator (cluster-membership RB3, RB8, KO-8) is    *)
(* outside src/crates: it publishes one edit at a time, publishes the next *)
(* only when every node runs the last one, rolls an edit back that some    *)
(* node refuses, and stages a restart for an edit of the rollout sections. *)
(***************************************************************************)
EXTENDS ClusterDocument

CONSTANTS
    Nodes,          \* the running nodes
    Identity,       \* [Nodes -> [node, zone, roles]]
    FirstDocuments, \* what the fleet may have been started on
    Edits(_),       \* the documents one edit away, version aside
    MaxVersion,     \* bound: no edit is published at or above this version
    AnyRestart      \* TRUE: a node may restart on any published document

\* The fleet runs its first document because every node started on it.
ASSUME FleetAssumption ==
    /\ None \notin Document \cup MemberSpec \cup KeySpec
    /\ FirstDocuments \subseteq Document
    /\ \A doc \in FirstDocuments, n \in Nodes : Starts(doc, Identity[n])

VARIABLES
    published,      \* the document in the operator's hands
    confirmed,      \* the last document every node ran
    active          \* [Nodes -> the document a node runs, None when down]

vars == <<published, confirmed, active>>

Up(n)      == active[n] # None
Runs(n)    == active[n] = published
Settled    == \A n \in Nodes : Runs(n)
Refuses(n) == /\ Up(n)
              /\ ~Runs(n)
              /\ ~Reloads(active[n], published, Identity[n])

----------------------------------------------------------------------------
Init ==
    /\ published \in FirstDocuments
    /\ confirmed = published
    /\ active = [n \in Nodes |-> published]

Publish(doc) ==
    /\ Settled
    /\ published.version < MaxVersion
    /\ published' = doc
    /\ confirmed' = published
    /\ UNCHANGED active

\* D10: the old content under a new, higher version.
RollBack ==
    /\ \E n \in Nodes : Refuses(n) \/ ~Up(n)
    /\ published # [confirmed EXCEPT !.version = published.version]
    /\ published' = [confirmed EXCEPT !.version = published.version + 1]
    /\ UNCHANGED <<confirmed, active>>

Reload(n) ==
    /\ Up(n)
    /\ ~Runs(n)
    /\ Reloads(active[n], published, Identity[n])
    /\ active' = [active EXCEPT ![n] = published]
    /\ UNCHANGED <<published, confirmed>>

\* What the operator lets a node restart on: a document a running node has
\* taken, the old content again, or an edit of the rollout sections alone.
Vetted == \/ \E m \in Nodes : Runs(m)
          \/ \A f \in DOMAIN published \ {"version", "frame", "listeners", "store"} :
                published[f] = confirmed[f]

\* A process that ends, by a crash or a rollout, and starts again on the
\* document at hand; one that cannot start stays down and tries again.
Restart(n) ==
    /\ AnyRestart \/ Vetted
    /\ active' = [active EXCEPT ![n] = IF Starts(published, Identity[n]) THEN published ELSE None]
    /\ UNCHANGED <<published, confirmed>>

\* The restarts that must come: of a node that is down, and of a node whose
\* rollout sections are not the published ones.
DueRestart(n) ==
    /\ IF Up(n) THEN Rollout(active[n]) # Rollout(published) ELSE TRUE
    /\ Starts(published, Identity[n])
    /\ Restart(n)

Next == \/ \E doc \in Edits(published) : Publish(doc)
        \/ RollBack
        \/ \E n \in Nodes : Reload(n) \/ Restart(n)

Spec == Init /\ [][Next]_vars

FairSpec == /\ Spec
            /\ WF_vars(RollBack)
            /\ \A n \in Nodes : WF_vars(Reload(n)) /\ WF_vars(DueRestart(n))

----------------------------------------------------------------------------
\* PROPERTIES

\* No node mints under a key a peer cannot select: whatever two versions the
\* fleet is spread over, the mint key of one node is in the set of every
\* other (config/mod.rs check_key_transition, RL10 and RL11 from both sides).
PeersHoldTheMint ==
    \A m, n \in {o \in Nodes : Up(o)} :
        LET minting == MintKey(active[m].keys)
        IN  minting # None =>
                \E i \in DOMAIN active[n].keys : active[n].keys[i].id = minting.id

\* Two running nodes never read one node id as two names, although an id may
\* leave the document and come back (check_id_reassignment, I3).
IdsAgree ==
    \A m, n \in {o \in Nodes : Up(o)} :
        \A i \in DOMAIN active[m].members, j \in DOMAIN active[n].members :
            active[m].members[i].node = active[n].members[j].node =>
                active[m].members[i].name = active[n].members[j].name

\* A document the fleet can be brought back to: every node can start on it, and
\* its mint key is open for as long as a reload will ask of it.
Restorable(doc) == MintWindowIsWide(doc) /\ \A n \in Nodes : Starts(doc, Identity[n])

\* An operator who changes one concern at a time can always get the fleet
\* onto one document again, whatever is published, taken by some nodes and
\* refused by others: every node ends up running the document in hand, as long
\* as the fleet is never left on a document it could not be brought back to
\* (D10, RB8; reload, load and node_config together).
FleetConverges == []Restorable(confirmed) => []<>Settled

\* Violated.  The same without that condition: a reload takes documents that no
\* node starts on (config/mod.rs reload, startup.rs auth_config, node_config),
\* and a start takes a mint key that a reload then refuses to come back to.
EveryFleetConverges == []<>Settled

\* Violated.  RL12: "a token already in circulation verifies under a key
\* whose window RL11 keeps open": the key material a node mints under is the
\* material its peers hold.
PeersHoldTheMaterial ==
    \A m, n \in {o \in Nodes : Up(o)} :
        LET minting == MintKey(active[m].keys)
        IN  minting # None =>
                \E i \in DOMAIN active[n].keys :
                    /\ active[n].keys[i].id = minting.id
                    /\ active[n].keys[i].secret = minting.secret
=============================================================================
