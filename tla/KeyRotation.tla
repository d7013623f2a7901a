------------------------------ MODULE KeyRotation ------------------------------
(***************************************************************************)
(* A cluster that replaces its affinity key while dialogs are up.  Every   *)
(* node holds the key set of the configuration it loaded last and reads a  *)
(* clock of its own; tokens minted by one node are presented to any other. *)
(*                                                                         *)
(* The code provides the key set, its rules, minting, verification and the *)
(* retirement deadline (AffinityToken).  Who rotates is outside it: the    *)
(* operator adds the new key, flips the mint flag once every node holds    *)
(* it, and removes the old key after the deadline.  Each step reaches the  *)
(* nodes one reload at a time.                                             *)
(***************************************************************************)
EXTENDS AffinityToken, Integers, FiniteSets

CONSTANTS
    Nodes,
    Offsets,        \* how far a node's clock may be from the operator's
    Skew,           \* S, the allowance of verification
    Lifetime,       \* L, the lifetime of a token
    Registration,   \* E_max, the longest registration
    Backdate,       \* how far before its distribution the new key's window opens
    OldSets,        \* key sets a deployment may start from, loadable or not
    NewKey,
    Tenants,
    Pinned,         \* the tenant a node's ingress is bound to, or AnyTenant
    Facts,          \* lengths of a module-facts region
    MaxMints,       \* bound: pairs minted
    MaxNow,         \* bound: where the operator's clock stops
    Start           \* the operator's clock when the model begins

Algorithms == {"HmacSha256_96", "ChaCha20Poly1305"}
AnyKey == [id : Nat, algorithm : Algorithms, secret : STRING]
Entry == [key : AnyKey, verify_from : Nat, verify_until : Nat, mint : BOOLEAN]
AnyKeySet == Seq(Entry)

ASSUME RotationAssumption ==
    /\ Skew \in Nat /\ Lifetime \in Nat /\ Registration \in Nat
    /\ Start \in Nat /\ Backdate \in 0..Start /\ MaxMints \in Nat
    /\ MaxNow \in Start..LastSecond
    /\ Offsets \subseteq Int
    /\ \A o \in Offsets : Start + o \in Nat /\ MaxNow + o \in 0..LastSecond
    /\ NewKey \in AnyKey /\ OldSets \subseteq AnyKeySet /\ Facts \subseteq Nat
    /\ Pinned \in [Nodes -> Tenants \cup {AnyTenant}]

VARIABLES
    now,       \* the operator's clock
    offset,    \* each node's distance from it
    plan,      \* the key sets the operator has published, oldest first
    holds,     \* how many of them each node had read at its last reload
    keys,      \* the key set each node loaded
    switched,  \* when the last node stopped minting under the old key
    issued     \* history: the pairs minted, with the instant

rotationVars == <<now, offset, plan, holds, keys, switched, issued>>

\* A node's clock, in absolute seconds.
Local(n) == now + offset[n]

OldSet == plan[1]
NewEntry(mint) == KeyEntry(NewKey, now - Backdate, LastSecond, mint)
EveryNodeHolds == \A n \in Nodes : holds[n] = Len(plan)

InitRotation ==
    /\ now = Start
    /\ offset \in [Nodes -> Offsets]
    /\ \E set \in OldSets :
          /\ WellFormed(set)
          /\ plan = <<set>>
          /\ keys = [n \in Nodes |-> set]
    /\ holds = [n \in Nodes |-> 1]
    /\ switched = 0
    /\ issued = {}

-----------------------------------------------------------------------------
(* The operator *)

Publish(set) == plan' = Append(plan, set)

\* K1: the new key, which verifies at once and does not mint.
Distribute ==
    /\ Len(plan) = 1
    /\ Publish(OldSet \o <<NewEntry(FALSE)>>)
    /\ UNCHANGED <<now, offset, holds, keys, switched, issued>>

Minting(entry, mint) == [entry EXCEPT !.mint = mint]

\* K2 and K3: once every node holds it, the new key mints and the old one does not.
Activate ==
    /\ Len(plan) = 2 /\ EveryNodeHolds
    /\ LET set == plan[2]
       IN  Publish([i \in DOMAIN set |-> Minting(set[i], i = Len(set))])
    /\ UNCHANGED <<now, offset, holds, keys, switched, issued>>

\* K4: nothing minted under the old key can be presented any more.
Retire ==
    /\ Len(plan) = 3 /\ EveryNodeHolds
    /\ now > RetirementDeadline(switched, Lifetime, Registration, Skew)
    /\ Publish(<<plan[3][Len(plan[3])]>>)
    /\ UNCHANGED <<now, offset, holds, keys, switched, issued>>

(* The nodes *)

\* A reload: the node reads the newest key set, and keeps the one it has when that is
\* not well formed.
Reload(n) ==
    /\ holds[n] < Len(plan)
    /\ holds' = [holds EXCEPT ![n] = Len(plan)]
    /\ keys' = [keys EXCEPT ![n] = IF WellFormed(plan[Len(plan)]) THEN plan[Len(plan)] ELSE @]
    /\ switched' = IF Len(plan) = 3 THEN now ELSE switched
    /\ UNCHANGED <<now, offset, plan, issued>>

\* The pair of a dialog-forming request: one entry per side, a fresh nonce each.
MintPair(n, tenant, facts) ==
    /\ Cardinality(issued) < MaxMints
    /\ LET claims(direction) ==
               [tenant |-> tenant, direction |-> direction, facts |-> facts,
                expiry |-> SaturatingAdd(Local(n), Lifetime)]
           nonce == 2 * Cardinality(issued)
           key == CurrentKey(keys[n])
       IN  /\ Mintable(claims(Originating))
           /\ issued' = issued \cup
                 {[orig |-> Mint(claims(Originating), key, nonce),
                   term |-> Mint(claims(Terminating), key, nonce + 1),
                   at |-> now]}
    /\ UNCHANGED <<now, offset, plan, holds, keys, switched>>

Tick ==
    /\ now < MaxNow
    /\ now' = now + 1
    /\ UNCHANGED <<offset, plan, holds, keys, switched, issued>>

NextRotation ==
    \/ Distribute \/ Activate \/ Retire \/ Tick
    \/ \E n \in Nodes : Reload(n)
    \/ \E n \in Nodes, tenant \in Tenants, facts \in Facts :
          MintPair(n, tenant, facts)
    \/ now = MaxNow /\ UNCHANGED rotationVars   \* the bound on the clock

SpecRotation == InitRotation /\ [][NextRotation]_rotationVars

-----------------------------------------------------------------------------
(* Properties *)

\* What a token becomes when a bit of it is changed, or its end is cut, on the way.
Damaged(token) ==
    {[token EXCEPT !.version = 129], [token EXCEPT !.nonce = @ + 1],
     [token EXCEPT !.len = @ - 1], [token EXCEPT !.len = @ + 4],
     [token EXCEPT !.body.claims.expiry = @ + 1], [token EXCEPT !.body.claims.tenant = @ + 1],
     [token EXCEPT !.body.claims.direction = Complement(@)], [token EXCEPT !.id = NewKey.id]}

Minted == UNION {{pair.orig, pair.term} : pair \in issued}
Accepts(n, token, partner) ==
    Verify(token, keys[n], Local(n), Skew, Pinned[n], partner)
AcceptsPair(n, pair) ==
    Accepts(n, pair.orig, pair.term) /\ Accepts(n, pair.term, pair.orig)
Served(n, pair) == Pinned[n] \in {AnyTenant, pair.orig.body.claims.tenant}

\* No token that is still alive, by the clock of the node that reads it or counted from its
\* minting, is refused, on any node, at any moment of a rotation: neither while a reload is
\* on its way through the cluster nor after the old key is gone (keys.rs
\* KeySet::verify_key, retirement_deadline; token.rs, S6).
LiveTokenVerifies ==
    \A pair \in issued, n \in Nodes :
        /\ Served(n, pair)
        /\ Local(n) <= pair.orig.body.claims.expiry \/ now <= pair.at + Lifetime
        => AcceptsPair(n, pair)

\* What the operator sees to (docs/specs/affinity-token.md, section 6): clocks are no further
\* apart than verification allows, the window of the new key opens earlier than its distribution
\* by as much as a clock may lag, its id is in no key set, and the window of the old key does
\* not end during the rotation.
Disciplined ==
    /\ \A o, p \in Offsets : o - p <= Skew
    /\ \A o \in Offsets : -o <= Backdate
    /\ \A set \in OldSets : \A i \in DOMAIN set :
          /\ set[i].key.id # NewKey.id
          /\ set[i].mint => \A o \in Offsets : /\ set[i].verify_from <= Start + o
                                               /\ MaxNow + o <= set[i].verify_until

\* Whatever was changed on the way, in a token or in its partner, is not accepted: what a
\* node routes by was minted as it is, both entries of it (token.rs, S1 to S9).
OnlyMintedAccepted ==
    \A n \in Nodes, pair \in issued :
        \A token \in Damaged(pair.orig) \cup {pair.orig},
           partner \in Damaged(pair.term) \cup {pair.term, NoToken} :
            Accepts(n, token, partner) => {token, partner} \subseteq Minted \cup {NoToken}
================================================================================
