--------------------------- MODULE ClusterDocument ---------------------------
(***************************************************************************)
(* The cluster configuration document and what one node makes of it:       *)
(* load, project, reload (config/mod.rs) and the start of a node from a    *)
(* document (startup.rs).  Everything here is a function of documents and  *)
(* of the identity a node is given from outside.                           *)
(*                                                                         *)
(* Times are in the unit of the constants below.                           *)
(***************************************************************************)
EXTENDS Integers, Sequences, FiniteSets, TLC

CONSTANTS
    None,           \* a field that is absent
    MaxKeys,        \* MAX_KEYS, 16 in the code
    InFlightCeiling,\* MAX_IN_FLIGHT_CEILING, 65536 in the code
    TimerCFloor,    \* TIMER_C_FLOOR_MS, 180 000 in the code
    TokenLifetime,  \* TOKEN_LIFETIME_SECONDS, 86 400 in the code
    SkewAllowance,  \* SKEW_ALLOWANCE_SECONDS, 30 in the code
    DefaultMax,     \* TenantPolicySpec::default().max_expires, 86 400
    Resolves        \* the references the environment of a node resolves

----------------------------------------------------------------------------
\* Roles.

ProxyRoles == {"edge", "inbound-proxy", "outbound-proxy"}
CallPath   == ProxyRoles \cup {"registrar"}
OffPath    == {"echo", "e2e-tester"}

Capabilities(roles) == [registrar |-> "registrar" \in roles,
                        proxy     |-> roles \cap ProxyRoles # {}]

RoleCombination(roles) ==
    /\ roles # {}
    /\ roles \cap OffPath = {} \/ roles \cap CallPath = {}

----------------------------------------------------------------------------
\* Documents.

MemberSpec == [node : Nat, name : STRING, zone : STRING,
               roles : SUBSET (CallPath \cup OffPath), rpc : STRING \cup {None}]
KeySpec    == [id : Nat, secret : STRING, from : Int, until : Int, mint : BOOLEAN]
TenantSpec == [id : Nat, name : STRING, min : Nat, max : Nat, quota : Nat,
               auth : STRING \cup {None}]

\* `parses` is FALSE when a field is missing, mistyped, unknown or written as a
\* secret in the clear; `frame` stands for the rollout-class sections no rule
\* looks into; a listener's `address` is its bind and advertised address, None
\* when one of them is no address a listener can have; a store is "absent", "memory", the dsnRef of a shared store or
\* "unnamed", a shared store without one; there is no shardMap when `shards` is
\* empty; `declared` is the controls the security section declares.
Document ==
    [version : Nat, parses : BOOLEAN, frame : STRING,
     listeners : Seq([roles : SUBSET (CallPath \cup OffPath), transport : STRING,
                      address : STRING \cup {None}]),
     store : STRING, members : Seq(MemberSpec), keys : Seq(KeySpec),
     shards : Seq([id : Nat, owner : STRING]), tenants : Seq(TenantSpec),
     declared : SUBSET STRING, inFlight : Nat, timerC : Nat]

----------------------------------------------------------------------------
\* The rules of one document.

\* The first entry that a find over the list returns, None when there is none.
Find(list, P(_)) == LET hits == {i \in DOMAIN list : P(list[i])}
                    IN IF hits = {} THEN None
                       ELSE list[CHOOSE i \in hits : \A j \in hits : i <= j]

Distinct(list, Same(_, _)) ==
    \A i, j \in DOMAIN list : i < j => ~Same(list[i], list[j])

TransportServed(listener) == listener.transport \in {"udp", "tcp"}

\* A member on the call path names the endpoint its peers dial, and no other
\* member does.
RpcFollowsRoles(m) == (m.rpc # None) <=> (m.roles \cap CallPath # {})

SameMember(a, b) == \/ a.node = b.node
                    \/ a.name = b.name
                    \/ a.rpc = b.rpc /\ a.rpc # None

MembersAreSound(members) ==
    /\ \A i \in DOMAIN members :
          /\ members[i].node # 0
          /\ RoleCombination(members[i].roles)
          /\ RpcFollowsRoles(members[i])
    /\ Distinct(members, SameMember)

\* The entry of the node itself is cross-checked against what it was started
\* as; a node without an entry may start.
MembershipAgrees(members, id) ==
    LET entry == Find(members, LAMBDA m : m.node = id.node)
    IN  entry # None => entry.zone = id.zone /\ entry.roles = id.roles

Projected(doc, id) ==
    [listeners |-> {i \in DOMAIN doc.listeners : doc.listeners[i].roles \cap id.roles # {}},
     store     |-> IF "registrar" \in id.roles THEN doc.store ELSE "absent"]

ProjectionListens(doc, id) == Projected(doc, id).listeners # {}

\* Two entries share an id while both windows are open.
Ambiguous(a, b) == a.id = b.id /\ a.from <= b.until /\ b.from <= a.until

Minting(keys) == {i \in DOMAIN keys : keys[i].mint}

KeysAreSound(keys) ==
    /\ Len(keys) <= MaxKeys
    /\ \A i \in DOMAIN keys : keys[i].from < keys[i].until
    /\ Distinct(keys, Ambiguous)
    /\ keys # << >> => Cardinality(Minting(keys)) = 1

ShardsAreTotal(shards) ==
    /\ \A i \in DOMAIN shards : shards[i].id # 0
    /\ DOMAIN shards \subseteq {shards[i].id : i \in DOMAIN shards}

OwnersAreRegistrars(shards, members) ==
    \A i \in DOMAIN shards :
        LET owner == Find(members, LAMBDA m : m.name = shards[i].owner)
        IN  owner # None /\ "registrar" \in owner.roles

SameTenant(a, b) == a.id = b.id \/ a.name = b.name

TenantsAreSound(tenants) ==
    /\ \A i \in DOMAIN tenants :
          /\ tenants[i].id # 0
          /\ tenants[i].min <= tenants[i].max
          /\ tenants[i].quota >= 1
    /\ Distinct(tenants, SameTenant)

\* load: every rule of the document, and the three that read the identity.
Loads(doc, id) ==
    /\ doc.parses
    /\ \A i \in DOMAIN doc.listeners : TransportServed(doc.listeners[i])
    /\ MembersAreSound(doc.members)
    /\ KeysAreSound(doc.keys)
    /\ ShardsAreTotal(doc.shards)
    /\ OwnersAreRegistrars(doc.shards, doc.members)
    /\ doc.store # "unnamed"
    /\ TenantsAreSound(doc.tenants)
    /\ doc.declared = {}
    /\ doc.inFlight \in 1..InFlightCeiling
    /\ doc.timerC > TimerCFloor
    /\ RoleCombination(id.roles)
    /\ MembershipAgrees(doc.members, id)
    /\ ProjectionListens(doc, id)

----------------------------------------------------------------------------
\* The rules of a pair of documents.

\* The sections whose change is a restart.
Rollout(doc) == [frame |-> doc.frame, listeners |-> doc.listeners,
                 store |-> doc.store]

\* A reload that matches members by name and never looks at their ids.
IdsKeepTheirNames_ByName(active, next) ==
    \A i \in DOMAIN next.members :
        LET held == Find(active.members,
                         LAMBDA m : m.name = next.members[i].name)
        IN  held # None => held.node = next.members[i].node

IdsKeepTheirNames(active, next) ==
    \A i \in DOMAIN next.members :
        LET held == Find(active.members,
                         LAMBDA m : m.node = next.members[i].node)
        IN  held # None => held.name = next.members[i].name

MintKey(keys) == Find(keys, LAMBDA k : k.mint)

\* W: how long a record minted now may still be presented.
OverlapWindow(doc) ==
    LET expiries == IF doc.tenants = << >> THEN {DefaultMax}
                    ELSE {doc.tenants[i].max : i \in DOMAIN doc.tenants}
        longest  == CHOOSE e \in expiries : \A f \in expiries : e >= f
    IN  (IF TokenLifetime >= longest THEN TokenLifetime ELSE longest)
            + SkewAllowance

\* The incoming mint key was distributed by the active document...
MintIsDistributed(active, next) ==
    LET incoming == MintKey(next.keys)
    IN  incoming # None =>
            \E i \in DOMAIN active.keys : active.keys[i].id = incoming.id

\* ...verifies for at least W...
MintWindowIsWide(next) ==
    LET incoming == MintKey(next.keys)
    IN  incoming # None =>
            incoming.until - incoming.from >= OverlapWindow(next)

\* A comparison that refuses the window that did not move.
OutgoingIsKept_Strictly(active, next) ==
    LET outgoing == MintKey(active.keys)
        kept     == Find(next.keys, LAMBDA k : k.id = outgoing.id)
    IN  outgoing # None => kept # None /\ kept.until > outgoing.until

\* ...and the outgoing one stays, for no less long than it was declared.
OutgoingIsKept(active, next) ==
    LET outgoing == MintKey(active.keys)
        kept     == Find(next.keys, LAMBDA k : k.id = outgoing.id)
    IN  outgoing # None => kept # None /\ kept.until >= outgoing.until

\* A transition that looks at the key that goes and not at the one that comes.
KeyTransition_OutgoingOnly(active, next) ==
    MintWindowIsWide(next) /\ OutgoingIsKept(active, next)

KeyTransition(active, next) ==
    /\ MintIsDistributed(active, next)
    /\ MintWindowIsWide(next)
    /\ OutgoingIsKept(active, next)

Reloads(active, next, id) ==
    /\ Loads(next, id)
    /\ next.version > active.version
    /\ Rollout(next) = Rollout(active)
    /\ IdsKeepTheirNames(active, next)
    /\ KeyTransition(active, next)

----------------------------------------------------------------------------
\* A node starts on a document: from_document and node_config.

RolesAreServed(id) == id.roles \cap OffPath = {}

\* The node binds one endpoint: every listener of its own has an address, no
\* two claim a transport, and the pair on udp and tcp agrees on the address.
ListenersBind(doc, id) ==
    LET own == Projected(doc, id).listeners
    IN  /\ \A i \in own : doc.listeners[i].address # None
        /\ \A i, j \in own : i # j =>
              /\ doc.listeners[i].transport # doc.listeners[j].transport
              /\ doc.listeners[i].address = doc.listeners[j].address

\* A tenant that asks for authentication whose secret resolves has no
\* credentials to check against, and the node refuses to start.
AuthIsHonoured(tenants) ==
    LET asking == {i \in DOMAIN tenants : tenants[i].auth # None}
    IN  asking # {} =>
            tenants[CHOOSE i \in asking : \A j \in asking : i <= j].auth
                \notin Resolves

StoreIsOpened(doc, id) ==
    Projected(doc, id).store \in {"absent", "memory"} \cup Resolves

Starts(doc, id) ==
    /\ Loads(doc, id)
    /\ RolesAreServed(id)
    /\ ListenersBind(doc, id)
    /\ AuthIsHonoured(doc.tenants)
    /\ Len(doc.tenants) <= 1
    /\ StoreIsOpened(doc, id)
=============================================================================
