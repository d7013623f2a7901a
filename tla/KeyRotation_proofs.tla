-------------------------- MODULE KeyRotation_proofs --------------------------
(***************************************************************************)
(* Proofs about KeyRotation, for any cluster, any clocks and any key sets. *)
(*                                                                         *)
(* What a node holds is one of at most four key sets the operator          *)
(* published, and only the newest two are held at once.  So it is enough   *)
(* to know, of each of the four, which key it mints under and which ids it *)
(* resolves to which keys, and when.                                       *)
(***************************************************************************)
EXTENDS KeyRotation, FiniteSetTheorems, TLAPS

-----------------------------------------------------------------------------
(* Tokens *)

\* A record with the fields of a token.
IsToken(t) ==
    t = [version |-> t.version, id |-> t.id, nonce |-> t.nonce, body |-> t.body,
         len |-> t.len, tag |-> t.tag]

\* The set resolves the key's id to the key itself, at that instant.
Chooses(set, key, at) ==
    /\ Selected(set, key.id, at) # {}
    /\ VerifyKey(set, key.id, at) = key

\* What is sealed is sound as long as the key it was sealed under is the one its id selects,
\* and it has not expired.
LEMMA MintedIsSound ==
  ASSUME NEW key \in AnyKey, NEW claims, NEW nonce, NEW set, NEW at, NEW skew,
         claims.facts \in 0..MaxFacts, claims.direction \in {Originating, Terminating},
         Chooses(set, key, at), ~Expired(claims, at, skew)
  PROVE  Sound(Mint(claims, key, nonce), set, at, skew)
  <1> DEFINE t == Mint(claims, key, nonce)
             bodyLen == BodyFixedLen + claims.facts
  <1>1. /\ t.version = VersionByte /\ t.id = key.id /\ t.nonce = nonce
        /\ t.body = [claims |-> claims, declared |-> claims.facts]
        /\ t.len = HeaderLen + bodyLen + TagLen(key.algorithm)
        /\ t.tag = Seal(key, VersionByte, key.id, nonce, t.body, bodyLen)
    BY DEF Mint
  <1> HIDE DEF t
  <1>2. TagLen(key.algorithm) \in {12, 16} /\ TagLen("HmacSha256_96") = 12
    BY DEF TagLen
  <1>3. t.len - HeaderLen - TagLen(key.algorithm) = bodyLen
    BY <1>1, <1>2 DEF HeaderLen, BodyFixedLen, MaxFacts
  <1>4. /\ t.len >= MinTokenLen("HmacSha256_96")
        /\ t.len \in MinTokenLen(key.algorithm)..MaxTokenLen(key.algorithm)
    BY <1>1, <1>2 DEF MinTokenLen, MaxTokenLen, HeaderLen, BodyFixedLen, MaxFacts
  <1>5. VerifyKey(set, t.id, at) = key /\ Selected(set, t.id, at) # {}
    BY <1>1 DEF Chooses
  <1>6. t.body.declared = bodyLen - BodyFixedLen
    BY <1>1 DEF BodyFixedLen, MaxFacts
  <1>7. t.body.claims = claims
    BY <1>1
  <1> HIDE DEF bodyLen
  <1> QED BY <1>1, <1>3, <1>4, <1>5, <1>6, <1>7 DEF Sound, t

\* A tag vouches for all of the token it is on: what is accepted with it is what was minted.
LEMMA TagFixesToken ==
  ASSUME NEW key \in AnyKey, NEW claims, claims.facts \in 0..MaxFacts, NEW nonce,
         NEW t, IsToken(t), t.tag = Mint(claims, key, nonce).tag,
         NEW set, NEW at, NEW skew, Sound(t, set, at, skew)
  PROVE  t = Mint(claims, key, nonce)
  <1> DEFINE m == Mint(claims, key, nonce)
             found == VerifyKey(set, t.id, at)
             bodyLen == t.len - HeaderLen - TagLen(found.algorithm)
  <1>1. /\ t.tag = Seal(found, t.version, t.id, t.nonce, t.body, bodyLen)
        /\ t.len \in MinTokenLen(found.algorithm)..MaxTokenLen(found.algorithm)
    BY DEF Sound
  <1>2. /\ m = [version |-> VersionByte, id |-> key.id, nonce |-> nonce, body |-> m.body,
                len |-> HeaderLen + BodyFixedLen + claims.facts + TagLen(key.algorithm),
                tag |-> m.tag]
        /\ m.tag = Seal(key, VersionByte, key.id, nonce, m.body, BodyFixedLen + claims.facts)
    BY DEF Mint, HeaderLen, BodyFixedLen, MaxFacts
  <1> HIDE DEF m, bodyLen, found
  <1>3. /\ found.algorithm = key.algorithm
        /\ <<t.version, t.id, t.nonce>> = <<VersionByte, key.id, nonce>>
        /\ t.body = m.body /\ bodyLen = BodyFixedLen + claims.facts
    BY <1>1, <1>2 DEF Seal, m
  <1>4. t.len = HeaderLen + BodyFixedLen + claims.facts + TagLen(key.algorithm)
    <2>1. TagLen(key.algorithm) \in {12, 16}
      BY DEF TagLen
    <2>2. t.len \in Int
      BY <1>1
    <2> QED BY <1>3, <2>1, <2>2 DEF bodyLen, HeaderLen, BodyFixedLen, MaxFacts
  <1> QED BY <1>2, <1>3, <1>4 DEF IsToken, m

-----------------------------------------------------------------------------
(* Nothing but what was minted is accepted *)

\* The pair node m minted: both entries under one key, with its clock's expiry.
MintedBy(pair, m, tenant, facts, key, nonce) ==
    LET claims(direction) ==
            [tenant |-> tenant, direction |-> direction, facts |-> facts,
             expiry |-> SaturatingAdd(pair.at + offset[m], Lifetime)]
    IN  pair = [orig |-> Mint(claims(Originating), key, nonce),
                term |-> Mint(claims(Terminating), key, nonce + 1),
                at |-> pair.at]

PlanTyped ==
    /\ plan \in Seq(AnyKeySet) /\ Len(plan) >= 1
    /\ \A k \in 1..Len(plan) : Len(plan[k]) >= 1

\* Whatever key sets nodes hold: they are well formed, and pairs come from minting.
AuthenticInv ==
    /\ now \in Nat /\ now >= Start
    /\ PlanTyped
    /\ keys \in [Nodes -> AnyKeySet]
    /\ \A n \in Nodes : WellFormed(keys[n])
    /\ \A pair \in issued :
          \E m \in Nodes, tenant \in Tenants, facts \in 0..MaxFacts, key \in AnyKey :
             MintedBy(pair, m, tenant, facts, key, pair.orig.nonce)

\* Flipping the mint flag of an entry changes nothing else of it.
LEMMA MintingKeeps ==
  ASSUME NEW entry \in Entry, NEW mint \in BOOLEAN
  PROVE  /\ Minting(entry, mint) \in Entry
         /\ Minting(entry, mint).mint = mint
         /\ Minting(entry, mint).key = entry.key
         /\ Minting(entry, mint).verify_from = entry.verify_from
         /\ Minting(entry, mint).verify_until = entry.verify_until
  BY DEF Minting, Entry

\* A well-formed set mints under one of its keys.
LEMMA CurrentKeyIs ==
  ASSUME NEW set \in AnyKeySet, NEW i \in DOMAIN set, set[i].mint,
         \A j \in DOMAIN set : set[j].mint => j = i
  PROVE  CurrentKey(set) = set[i].key /\ set[i].key \in AnyKey
  <1>1. {j \in DOMAIN set : set[j].mint} = {i}
    BY Zenon
  <1>2. First({i}) = i
    <2>1. i \in Int
      BY DEF AnyKeySet
    <2>2. \E k \in {i} : \A j \in {i} : k <= j
      BY <2>1
    <2> QED BY <2>2, Zenon DEF First
  <1>3. set[i] \in Entry
    BY DEF AnyKeySet
  <1>4. CurrentKey(set) = set[i].key
    BY <1>1, <1>2, Zenon DEF CurrentKey
  <1> QED BY <1>3, <1>4 DEF Entry

LEMMA CurrentKeyTyped ==
  ASSUME NEW set \in AnyKeySet, WellFormed(set)
  PROVE  CurrentKey(set) \in AnyKey
  <1>1. PICK i \in DOMAIN set : \A j \in DOMAIN set : set[j].mint <=> j = i
    BY DEF WellFormed
  <1>2. CurrentKey(set) = set[i].key /\ set[i].key \in AnyKey
    BY <1>1, CurrentKeyIs, Zenon
  <1> QED BY <1>2

\* The entries of a key set.
LEMMA KeySetShape ==
  ASSUME NEW set \in AnyKeySet
  PROVE  /\ Len(set) \in Nat /\ DOMAIN set = 1..Len(set)
         /\ \A i \in DOMAIN set : set[i] \in Entry
  BY DEF AnyKeySet

LEMMA DistributedTyped ==
  ASSUME NEW set \in AnyKeySet, NEW entry \in Entry
  PROVE  /\ set \o <<entry>> \in AnyKeySet
         /\ Len(set \o <<entry>>) = Len(set) + 1
         /\ \A i \in DOMAIN set : (set \o <<entry>>)[i] = set[i]
         /\ (set \o <<entry>>)[Len(set) + 1] = entry
  <1>1. <<entry>> \in Seq(Entry)
    OBVIOUS
  <1> HIDE DEF Entry
  <1> QED BY <1>1 DEF AnyKeySet

LEMMA ActivatedTyped ==
  ASSUME NEW set \in AnyKeySet
  PROVE  LET flipped == [i \in DOMAIN set |-> Minting(set[i], i = Len(set))]
         IN  flipped \in AnyKeySet /\ Len(flipped) = Len(set)
  <1> DEFINE flipped == [i \in DOMAIN set |-> Minting(set[i], i = Len(set))]
  <1>1. \A i \in DOMAIN set : Minting(set[i], i = Len(set)) \in Entry
    BY KeySetShape, MintingKeeps
  <1>2. flipped \in [1..Len(set) -> Entry] /\ Len(set) \in Nat
    BY <1>1, KeySetShape
  <1> HIDE DEF flipped
  <1>3. flipped \in Seq(Entry) /\ Len(flipped) = Len(set)
    BY <1>2
  <1> QED BY <1>3 DEF flipped, AnyKeySet

\* What the operator publishes is a key set.
LEMMA PublishedTyped ==
  ASSUME AuthenticInv, Distribute \/ Activate \/ Retire
  PROVE  PlanTyped'
  <1>1. ASSUME NEW set \in AnyKeySet, Len(set) >= 1, Publish(set)
        PROVE  PlanTyped'
    BY <1>1 DEF Publish, AuthenticInv, PlanTyped
  <1>2. \A k \in 1..Len(plan) : plan[k] \in AnyKeySet /\ Len(plan[k]) >= 1
    BY DEF AuthenticInv, PlanTyped
  <1>3. CASE Distribute
    <2>1. NewEntry(FALSE) \in Entry
      BY RotationAssumption, AffinityAssumption DEF AuthenticInv, NewEntry, KeyEntry, Entry
    <2>2. OldSet \in AnyKeySet /\ Len(OldSet) >= 1
      BY <1>2, <1>3 DEF Distribute, OldSet
    <2>3. /\ OldSet \o <<NewEntry(FALSE)>> \in AnyKeySet
          /\ Len(OldSet \o <<NewEntry(FALSE)>>) = Len(OldSet) + 1
      BY <2>1, <2>2, DistributedTyped
    <2>4. Len(OldSet \o <<NewEntry(FALSE)>>) >= 1
      BY <2>2, <2>3
    <2> QED BY <1>1, <1>3, <2>3, <2>4 DEF Distribute
  <1>4. CASE Activate
    <2>1. plan[2] \in AnyKeySet /\ Len(plan[2]) >= 1
      BY <1>2, <1>4 DEF Activate
    <2> QED BY <1>1, <1>4, <2>1, ActivatedTyped DEF Activate
  <1>5. CASE Retire
    <2>1. plan[3] \in AnyKeySet /\ Len(plan[3]) >= 1
      BY <1>2, <1>5 DEF Retire
    <2>2. plan[3][Len(plan[3])] \in Entry
      BY <2>1, KeySetShape
    <2>3. <<plan[3][Len(plan[3])]>> \in AnyKeySet /\ Len(<<plan[3][Len(plan[3])]>>) = 1
      BY <2>2 DEF AnyKeySet
    <2> QED BY <1>1, <1>5, <2>3 DEF Retire
  <1> QED BY <1>3, <1>4, <1>5

\* A node that reloads ends up with a well-formed key set, or keeps the one it had.
LEMMA ReloadTyped ==
  ASSUME AuthenticInv, NEW n \in Nodes, Reload(n)
  PROVE  keys' \in [Nodes -> AnyKeySet] /\ \A k \in Nodes : WellFormed(keys'[k])
  <1> DEFINE newest == plan[Len(plan)]
  <1>1. newest \in AnyKeySet
    BY DEF AuthenticInv, PlanTyped
  <1> HIDE DEF newest
  <1>2. keys' = [keys EXCEPT ![n] = IF WellFormed(newest) THEN newest ELSE keys[n]]
    BY DEF Reload, newest
  <1>3. keys \in [Nodes -> AnyKeySet] /\ \A k \in Nodes : WellFormed(keys[k])
    BY DEF AuthenticInv
  <1>4. CASE WellFormed(newest)
    BY <1>1, <1>2, <1>3, <1>4
  <1>5. CASE ~WellFormed(newest)
    BY <1>2, <1>3, <1>5
  <1> QED BY <1>4, <1>5

\* What a node mints is a pair of one key, and the pairs minted before stay.
LEMMA MintPairAdds ==
  ASSUME NEW n \in Nodes, NEW tenant \in Tenants, NEW facts \in Facts,
         MintPair(n, tenant, facts)
  PROVE  \E pair :
            /\ issued' = issued \cup {pair}
            /\ pair.at = now /\ pair.orig.nonce = 2 * Cardinality(issued)
            /\ facts \in 0..MaxFacts
            /\ MintedBy(pair, n, tenant, facts, CurrentKey(keys[n]), pair.orig.nonce)
  <1> DEFINE claims(direction) ==
                 [tenant |-> tenant, direction |-> direction, facts |-> facts,
                  expiry |-> SaturatingAdd(Local(n), Lifetime)]
             nonce == 2 * Cardinality(issued)
             key == CurrentKey(keys[n])
             pair == [orig |-> Mint(claims(Originating), key, nonce),
                      term |-> Mint(claims(Terminating), key, nonce + 1),
                      at |-> now]
  <1>1. issued' = issued \cup {pair}
    BY DEF MintPair
  <1>2. facts \in 0..MaxFacts
    BY RotationAssumption DEF MintPair, Mintable, MaxFacts
  <1>3. pair.at = now /\ pair.orig.nonce = nonce
    BY DEF Mint
  <1>4. MintedBy(pair, n, tenant, facts, key, pair.orig.nonce)
    BY <1>3 DEF MintedBy, Local
  <1> QED BY <1>1, <1>2, <1>3, <1>4

LEMMA AuthenticInit == InitRotation => AuthenticInv
  <1> SUFFICES ASSUME InitRotation PROVE AuthenticInv
    OBVIOUS
  <1>1. PICK set \in OldSets : /\ WellFormed(set)
                               /\ plan = <<set>>
                               /\ keys = [n \in Nodes |-> set]
    BY DEF InitRotation
  <1>2. set \in AnyKeySet
    BY RotationAssumption
  <1>3. Len(set) >= 1
    BY <1>1, <1>2, KeySetShape DEF WellFormed
  <1>4. PlanTyped
    BY <1>1, <1>2, <1>3 DEF PlanTyped
  <1> QED BY <1>1, <1>2, <1>4, RotationAssumption DEF InitRotation, AuthenticInv

LEMMA AuthenticStep == AuthenticInv /\ [NextRotation]_rotationVars => AuthenticInv'
  <1> SUFFICES ASSUME AuthenticInv, [NextRotation]_rotationVars PROVE AuthenticInv'
    OBVIOUS
  <1> DEFINE Authentic(pair) ==
                 \E m \in Nodes, tenant \in Tenants, facts \in 0..MaxFacts, key \in AnyKey :
                    MintedBy(pair, m, tenant, facts, key, pair.orig.nonce)
  <1>1. ASSUME NEW pair \in issued, UNCHANGED offset PROVE Authentic(pair)'
    BY <1>1, ZenonT(40) DEF AuthenticInv, MintedBy
  <1>2. CASE Distribute \/ Activate \/ Retire
    <2>1. UNCHANGED <<now, offset, keys, issued>>
      BY <1>2 DEF Distribute, Activate, Retire
    <2> QED BY <1>1, <1>2, <2>1, PublishedTyped DEF AuthenticInv
  <1>3. CASE Tick
    <2>1. UNCHANGED <<plan, offset, keys, issued>> /\ now' = now + 1
      BY <1>3 DEF Tick
    <2> QED BY <1>1, <2>1, RotationAssumption DEF AuthenticInv, PlanTyped
  <1>4. ASSUME NEW n \in Nodes, Reload(n) PROVE AuthenticInv'
    <2>1. UNCHANGED <<now, plan, offset, issued>>
      BY <1>4 DEF Reload
    <2> QED BY <1>1, <1>4, <2>1, ReloadTyped DEF AuthenticInv, PlanTyped
  <1>5. ASSUME NEW n \in Nodes, NEW tenant \in Tenants, NEW facts \in Facts,
               MintPair(n, tenant, facts)
        PROVE  AuthenticInv'
    <2>1. PICK pair : /\ issued' = issued \cup {pair}
                      /\ facts \in 0..MaxFacts
                      /\ MintedBy(pair, n, tenant, facts, CurrentKey(keys[n]), pair.orig.nonce)
      BY <1>5, MintPairAdds
    <2>2. UNCHANGED <<now, offset, plan, keys>>
      BY <1>5 DEF MintPair
    <2>3. CurrentKey(keys[n]) \in AnyKey
      BY CurrentKeyTyped DEF AuthenticInv
    <2>4. Authentic(pair)'
      BY <2>1, <2>2, <2>3 DEF MintedBy
    <2> QED BY <1>1, <2>1, <2>2, <2>4 DEF AuthenticInv, PlanTyped
  <1>6. CASE UNCHANGED rotationVars
    BY <1>1, <1>6 DEF rotationVars, AuthenticInv, PlanTyped
  <1> QED BY <1>2, <1>3, <1>4, <1>5, <1>6 DEF NextRotation

\* What is on a token with the tag of a minted one is that token.
LEMMA DamagedIsRefused ==
  ASSUME NEW key \in AnyKey, NEW claims, claims.facts \in 0..MaxFacts, NEW nonce,
         NEW t \in Damaged(Mint(claims, key, nonce)) \cup {Mint(claims, key, nonce)},
         NEW set, NEW at, NEW skew, Sound(t, set, at, skew)
  PROVE  t = Mint(claims, key, nonce)
  <1> DEFINE m == Mint(claims, key, nonce)
  <1>1. m = [version |-> m.version, id |-> m.id, nonce |-> m.nonce, body |-> m.body,
             len |-> m.len, tag |-> m.tag]
    BY DEF Mint
  <1> HIDE DEF m
  <1>2. IsToken(t) /\ t.tag = m.tag
    BY <1>1 DEF Damaged, IsToken, m
  <1> QED BY <1>2, TagFixesToken DEF m

LEMMA AuthenticInvariance == SpecRotation => []AuthenticInv
  BY AuthenticInit, AuthenticStep, PTL DEF SpecRotation

\* S1 to S9, for every cluster and every sequence of key sets, disciplined or not: of a
\* token and its partner that may each have been damaged on the way, nothing is accepted
\* that was not minted as it is.
THEOREM Authenticity == SpecRotation => []OnlyMintedAccepted
  <1>1. AuthenticInv => OnlyMintedAccepted
    <2> SUFFICES ASSUME AuthenticInv, NEW n \in Nodes, NEW pair \in issued,
                        NEW token \in Damaged(pair.orig) \cup {pair.orig},
                        NEW partner \in Damaged(pair.term) \cup {pair.term, NoToken},
                        Accepts(n, token, partner)
                 PROVE  {token, partner} \subseteq Minted \cup {NoToken}
      BY DEF OnlyMintedAccepted
    <2>1. PICK m \in Nodes, tenant \in Tenants, facts \in 0..MaxFacts, key \in AnyKey :
             MintedBy(pair, m, tenant, facts, key, pair.orig.nonce)
      BY DEF AuthenticInv
    <2> DEFINE claims(direction) ==
                   [tenant |-> tenant, direction |-> direction, facts |-> facts,
                    expiry |-> SaturatingAdd(pair.at + offset[m], Lifetime)]
               nonce == pair.orig.nonce
    <2>2. /\ pair.orig = Mint(claims(Originating), key, nonce)
          /\ pair.term = Mint(claims(Terminating), key, nonce + 1)
      BY <2>1 DEF MintedBy
    <2>3. claims(Originating).facts \in 0..MaxFacts /\ claims(Terminating).facts \in 0..MaxFacts
      OBVIOUS
    <2> HIDE DEF claims, nonce
    <2>4. /\ Sound(token, keys[n], Local(n), Skew)
          /\ partner = NoToken \/ Sound(partner, keys[n], Local(n), Skew)
      BY DEF Accepts, Verify
    <2>5. token = pair.orig
      BY <2>2, <2>3, <2>4, DamagedIsRefused
    <2>6. partner = NoToken \/ partner = pair.term
      BY <2>2, <2>3, <2>4, DamagedIsRefused
    <2>7. {pair.orig, pair.term} \subseteq Minted
      BY DEF Minted
    <2> QED BY <2>5, <2>6, <2>7
  <1> QED BY <1>1, AuthenticInvariance, PTL

-----------------------------------------------------------------------------
(* The four key sets of a rotation *)

\* The set has the key, in a window that is open.
HasKey(set, key, at) == \E i \in DOMAIN set : set[i].key = key /\ VerifiesAt(set[i], at)

\* In a well-formed set an id selects at most one key at an instant, so a key it has is chosen.
LEMMA HasIsChosen ==
  ASSUME NEW set \in AnyKeySet, WellFormed(set), NEW key, NEW at \in Nat, HasKey(set, key, at)
  PROVE  Chooses(set, key, at)
  <1>1. PICK i \in DOMAIN set : set[i].key = key /\ VerifiesAt(set[i], at)
    BY DEF HasKey
  <1>2. /\ DOMAIN set = 1..Len(set) /\ Len(set) \in Nat
        /\ \A j \in DOMAIN set : set[j].verify_from \in Nat /\ set[j].verify_until \in Nat
    BY KeySetShape DEF Entry
  <1> DEFINE chosen == Selected(set, key.id, at)
  <1>3. ASSUME NEW j \in chosen PROVE j = i
    <2>1. j \in DOMAIN set /\ set[j].key.id = set[i].key.id /\ VerifiesAt(set[j], at)
      BY <1>1, <1>3 DEF Selected
    <2>2. Overlap(set[i], set[j]) /\ Overlap(set[j], set[i])
      BY <1>1, <1>2, <2>1 DEF Overlap, VerifiesAt
    <2>3. ~(i < j) /\ ~(j < i)
      BY <2>1, <2>2 DEF WellFormed
    <2> QED BY <1>2, <2>1, <2>3
  <1>4. i \in chosen
    BY <1>1 DEF Selected
  <1>5. chosen = {i}
    BY <1>3, <1>4
  <1>6. First({i}) = i
    <2>1. \E k \in {i} : \A j \in {i} : k <= j
      BY <1>2
    <2> QED BY <2>1, Zenon DEF First
  <1>7. VerifyKey(set, key.id, at) = set[i].key
    BY <1>5, <1>6, Zenon DEF VerifyKey
  <1> QED BY <1>1, <1>5, <1>7 DEF Chooses

\* K1: the new key verifies, and the old one still mints.
LEMMA SecondSet ==
  ASSUME NEW set \in AnyKeySet, WellFormed(set), NEW entry \in Entry, ~entry.mint,
         entry.verify_from <= entry.verify_until,
         \A i \in DOMAIN set : set[i].key.id # entry.key.id
  PROVE  LET two == set \o <<entry>>
         IN  /\ two \in AnyKeySet /\ WellFormed(two)
             /\ Len(two) = Len(set) + 1 /\ two[Len(two)] = entry
             /\ CurrentKey(two) = CurrentKey(set)
             /\ \A key, at : HasKey(set, key, at) => HasKey(two, key, at)
  <1> DEFINE two == set \o <<entry>>
             n == Len(set)
  <1>1. /\ two \in AnyKeySet /\ Len(two) = n + 1 /\ n \in Nat
        /\ DOMAIN set = 1..n /\ DOMAIN two = 1..(n + 1)
        /\ \A i \in DOMAIN set : two[i] = set[i]
        /\ two[n + 1] = entry
    BY DistributedTyped, KeySetShape, ZenonT(40)
  <1> HIDE DEF two, n
  <1>2. PICK i \in DOMAIN set : \A j \in DOMAIN set : set[j].mint <=> j = i
    BY DEF WellFormed
  <1>3. set[i].mint /\ \A j \in DOMAIN set : set[j].mint => j = i
    BY <1>2
  <1>4. i \in DOMAIN two /\ two[i].mint /\ \A j \in DOMAIN two : two[j].mint => j = i
    <2>1. \A j \in DOMAIN two : j = n + 1 \/ j \in DOMAIN set
      BY <1>1
    <2> QED BY <1>1, <1>3, <2>1
  <1>5. CurrentKey(two) = CurrentKey(set)
    BY <1>1, <1>3, <1>4, CurrentKeyIs
  <1>6. WellFormed(two)
    <2>1. \A j \in DOMAIN two : two[j].verify_from <= two[j].verify_until
      BY <1>1 DEF WellFormed
    <2>2. \E k \in DOMAIN two : \A j \in DOMAIN two : two[j].mint <=> j = k
      BY <1>4
    <2>3. ASSUME NEW j \in DOMAIN two, NEW k \in DOMAIN two, j < k, two[j].key.id = two[k].key.id
          PROVE  ~Overlap(two[j], two[k])
      <3>1. j \in DOMAIN set
        BY <1>1, <2>3
      <3>2. k \in DOMAIN set
        BY <1>1, <2>3, <3>1
      <3> QED BY <1>1, <2>3, <3>1, <3>2 DEF WellFormed
    <2> QED BY <2>1, <2>2, <2>3 DEF WellFormed
  <1>7. \A key, at : HasKey(set, key, at) => HasKey(two, key, at)
    BY <1>1 DEF HasKey
  <1> QED BY <1>1, <1>5, <1>6, <1>7 DEF two, n

\* K2, K3: the same keys, and the last one mints.
LEMMA ThirdSet ==
  ASSUME NEW set \in AnyKeySet, WellFormed(set), Len(set) >= 1,
         NEW flipped, flipped = [i \in DOMAIN set |-> Minting(set[i], i = Len(set))]
  PROVE  /\ flipped \in AnyKeySet /\ WellFormed(flipped) /\ Len(flipped) = Len(set)
         /\ CurrentKey(flipped) = set[Len(set)].key
         /\ flipped[Len(set)] = Minting(set[Len(set)], TRUE)
         /\ \A key, at : HasKey(set, key, at) => HasKey(flipped, key, at)
  <1> DEFINE n == Len(set)
  <1>1. flipped \in AnyKeySet /\ Len(flipped) = n
    BY ActivatedTyped
  <1>2. n \in Nat /\ n \in DOMAIN set /\ DOMAIN set = 1..n /\ DOMAIN flipped = DOMAIN set
    BY KeySetShape
  <1>3. ASSUME NEW i \in DOMAIN set
        PROVE  /\ flipped[i].mint <=> i = n
               /\ flipped[i].key = set[i].key
               /\ flipped[i].verify_from = set[i].verify_from
               /\ flipped[i].verify_until = set[i].verify_until
    <2>1. flipped[i] = Minting(set[i], i = n) /\ set[i] \in Entry
      BY KeySetShape
    <2>2. (i = n) \in BOOLEAN
      OBVIOUS
    <2> HIDE DEF n
    <2> QED BY <2>1, <2>2, MintingKeeps
  <1>4. flipped[n] = Minting(set[n], TRUE)
    BY <1>2
  <1> HIDE DEF n
  <1>5. CurrentKey(flipped) = set[n].key
    <2>1. flipped[n].mint /\ \A j \in DOMAIN flipped : flipped[j].mint => j = n
      BY <1>2, <1>3
    <2>2. CurrentKey(flipped) = flipped[n].key
      BY <1>1, <1>2, <2>1, CurrentKeyIs
    <2> QED BY <1>2, <1>3, <2>2
  <1>6. WellFormed(flipped)
    <2>1. \A j \in DOMAIN flipped : flipped[j].verify_from <= flipped[j].verify_until
      BY <1>2, <1>3 DEF WellFormed
    <2>2. \E k \in DOMAIN flipped : \A j \in DOMAIN flipped : flipped[j].mint <=> j = k
      BY <1>2, <1>3
    <2>3. ASSUME NEW j \in DOMAIN flipped, NEW k \in DOMAIN flipped, j < k,
                 flipped[j].key.id = flipped[k].key.id
          PROVE  ~Overlap(flipped[j], flipped[k])
      <3>1. ~Overlap(set[j], set[k])
        BY <1>2, <1>3, <2>3 DEF WellFormed
      <3> QED BY <1>2, <1>3, <3>1 DEF Overlap
    <2> QED BY <2>1, <2>2, <2>3, SMTT(40) DEF WellFormed
  <1>7. \A key, at : HasKey(set, key, at) => HasKey(flipped, key, at)
    BY <1>2, <1>3 DEF HasKey, VerifiesAt
  <1> QED BY <1>1, <1>4, <1>5, <1>6, <1>7 DEF n

\* K4: one key, which mints and verifies.
LEMMA FourthSet ==
  ASSUME NEW entry \in Entry, entry.mint, entry.verify_from <= entry.verify_until
  PROVE  /\ <<entry>> \in AnyKeySet /\ WellFormed(<<entry>>)
         /\ CurrentKey(<<entry>>) = entry.key
         /\ \A at : VerifiesAt(entry, at) => HasKey(<<entry>>, entry.key, at)
  <1> DEFINE set == <<entry>>
  <1>1. DOMAIN set = {1} /\ set[1] = entry /\ set \in AnyKeySet
    BY DEF AnyKeySet
  <1> HIDE DEF set
  <1>2. WellFormed(set)
    BY <1>1 DEF WellFormed
  <1>3. CurrentKey(set) = entry.key
    BY <1>1, CurrentKeyIs
  <1> QED BY <1>1, <1>2, <1>3 DEF HasKey, set

-----------------------------------------------------------------------------
(* What is in the history *)

OutgoingKey == CurrentKey(plan[1])

\* Nobody mints under the old key again.
NotMintingOld == \A n \in Nodes : holds[n] >= 3

\* Every pair was minted under one of the two keys: under the new one after it was
\* activated, under the old one before the last node switched.
Origin(pair) ==
    /\ pair.at \in Start..now
    /\ pair.orig.nonce \in Int
    /\ \E m \in Nodes, tenant \in Tenants, facts \in 0..MaxFacts,
          key \in {OutgoingKey, NewKey} :
          /\ MintedBy(pair, m, tenant, facts, key, pair.orig.nonce)
          /\ key = NewKey => Len(plan) >= 3
          /\ key = OutgoingKey /\ Len(plan) >= 3 /\ NotMintingOld => pair.at <= switched

TypeOKRotation ==
    /\ now \in Start..MaxNow
    /\ offset \in [Nodes -> Offsets]
    /\ plan \in Seq(AnyKeySet) /\ Len(plan) \in 1..4
    /\ holds \in [Nodes -> 1..4]
    /\ keys \in [Nodes -> AnyKeySet]
    /\ switched \in 0..now
    /\ IsFiniteSet(issued)

\* When the window of the new key opens.
NewFrom == plan[2][Len(plan[2])].verify_from

\* The key sets the operator publishes, one from the other.
PlanInv ==
    /\ plan[1] \in OldSets /\ WellFormed(plan[1])
    /\ Len(plan) >= 2 =>
          /\ NewFrom \in Nat /\ NewFrom + Backdate <= now
          /\ plan[2] = plan[1] \o <<KeyEntry(NewKey, NewFrom, LastSecond, FALSE)>>
    /\ Len(plan) >= 3 =>
          plan[3] = [i \in DOMAIN plan[2] |-> Minting(plan[2][i], i = Len(plan[2]))]
    /\ Len(plan) >= 4 =>
          /\ plan[4] = <<plan[3][Len(plan[3])]>>
          /\ NotMintingOld
          /\ now > RetirementDeadline(switched, Lifetime, Registration, Skew)

\* Every node has one of the newest two.
HoldsInv ==
    \A n \in Nodes :
        /\ keys[n] = plan[holds[n]]
        /\ holds[n] \in {Len(plan) - 1, Len(plan)} /\ holds[n] >= 1

RotationInv ==
    /\ TypeOKRotation
    /\ PlanInv
    /\ HoldsInv
    /\ \A pair \in issued : Origin(pair)

\* A clock is never beyond the last second, and never so late that the new window is closed to it.
LEMMA ClockFacts ==
  ASSUME Disciplined, TypeOKRotation, NEW n \in Nodes
  PROVE  /\ Local(n) \in 0..LastSecond /\ now + offset[n] = Local(n)
         /\ offset[n] \in Offsets /\ offset[n] \in Int
         /\ now <= Local(n) + Backdate
  <1>1. /\ offset[n] \in Offsets /\ offset[n] \in Int
        /\ now \in Start..MaxNow /\ Start \in Nat /\ MaxNow \in Start..LastSecond
        /\ LastSecond \in Nat /\ Backdate \in 0..Start
    BY RotationAssumption, AffinityAssumption DEF TypeOKRotation
  <1>2. Start + offset[n] \in Nat /\ MaxNow + offset[n] \in 0..LastSecond
    BY <1>1, RotationAssumption
  <1>3. -offset[n] <= Backdate
    BY <1>1 DEF Disciplined
  <1> QED BY <1>1, <1>2, <1>3 DEF Local

\* Each of the key sets is loadable, mints under the one key or the other, and resolves the
\* ids of both as long as a node may need them.
LEMMA PlanFacts ==
  ASSUME Disciplined, TypeOKRotation, PlanInv, NEW h \in 1..Len(plan)
  PROVE  /\ plan[h] \in AnyKeySet /\ WellFormed(plan[h])
         /\ CurrentKey(plan[h]) = IF h <= 2 THEN OutgoingKey ELSE NewKey
         /\ h <= 3 => \A n \in Nodes : HasKey(plan[h], OutgoingKey, Local(n))
         /\ h >= 2 => \A n \in Nodes : HasKey(plan[h], NewKey, Local(n))
  <1> DEFINE entry == KeyEntry(NewKey, NewFrom, LastSecond, FALSE)
             Good(set, key) ==
                 /\ set \in AnyKeySet /\ WellFormed(set) /\ CurrentKey(set) = key
             Old(set) == \A n \in Nodes : HasKey(set, OutgoingKey, Local(n))
             New(set) == \A n \in Nodes : HasKey(set, NewKey, Local(n))
             Goal(k) == /\ Good(plan[k], IF k <= 2 THEN OutgoingKey ELSE NewKey)
                        /\ k <= 3 => Old(plan[k])
                        /\ k >= 2 => New(plan[k])
  <1> SUFFICES Goal(h)
    OBVIOUS
  <1>a. /\ Len(plan) = 1 \/ Len(plan) >= 2
        /\ Len(plan) >= 2 => Len(plan) = 2 \/ Len(plan) >= 3
        /\ Len(plan) >= 3 => Len(plan) = 3 \/ Len(plan) = 4
    <2>1. Len(plan) \in 1..4
      BY DEF TypeOKRotation
    <2>2. \A k \in 1..4 : /\ k = 1 \/ k >= 2
                          /\ k >= 2 => k = 2 \/ k >= 3
                          /\ k >= 3 => k = 3 \/ k = 4
      OBVIOUS
    <2> QED BY <2>1, <2>2, Zenon
  <1>1. /\ Len(plan) \in 1..4 /\ plan \in Seq(AnyKeySet)
        /\ plan[1] \in AnyKeySet /\ plan[1] \in OldSets /\ WellFormed(plan[1])
    BY DEF TypeOKRotation, PlanInv
  <1>2. Good(plan[1], OutgoingKey) /\ Old(plan[1])
    <2>1. PICK i \in DOMAIN plan[1] : \A j \in DOMAIN plan[1] : plan[1][j].mint <=> j = i
      BY <1>1 DEF WellFormed
    <2>2. plan[1][i].mint /\ \A j \in DOMAIN plan[1] : plan[1][j].mint => j = i
      BY <2>1
    <2>3. OutgoingKey = plan[1][i].key
      BY <1>1, <2>2, CurrentKeyIs DEF OutgoingKey
    <2>4. ASSUME NEW n \in Nodes PROVE VerifiesAt(plan[1][i], Local(n))
      <3>1. /\ offset[n] \in Offsets /\ offset[n] \in Int
            /\ plan[1][i].verify_from <= Start + offset[n]
            /\ MaxNow + offset[n] <= plan[1][i].verify_until
        BY <1>1, <2>2, ClockFacts DEF Disciplined
      <3>2. plan[1][i].verify_from \in Nat /\ plan[1][i].verify_until \in Nat
        BY <1>1, KeySetShape DEF Entry
      <3> QED BY <3>1, <3>2, RotationAssumption, AffinityAssumption, SMTT(40)
              DEF TypeOKRotation, VerifiesAt, Local
    <2> QED BY <1>1, <2>3, <2>4 DEF HasKey, OutgoingKey
  <1>3. CASE Len(plan) = 1
    <2> HIDE DEF Good, Old, New
    <2>1. Goal(1)
      BY <1>2
    <2> HIDE DEF Goal
    <2> QED BY <1>3, <2>1
  <1>4. CASE Len(plan) >= 2
    <2>1. /\ NewFrom \in Nat /\ NewFrom + Backdate <= now /\ NewFrom <= LastSecond
          /\ plan[2] = plan[1] \o <<entry>>
      <3>1. /\ NewFrom \in Nat /\ NewFrom + Backdate <= now
            /\ plan[2] = plan[1] \o <<entry>>
        BY <1>4, Zenon DEF PlanInv
      <3>2. now \in Nat /\ now <= LastSecond /\ Backdate \in Nat /\ LastSecond \in Nat
        BY RotationAssumption, AffinityAssumption DEF TypeOKRotation
      <3> HIDE DEF entry
      <3> QED BY <3>1, <3>2
    <2>2. /\ entry \in Entry /\ ~entry.mint /\ entry.verify_from <= entry.verify_until
          /\ entry.key = NewKey
      BY <2>1, RotationAssumption, AffinityAssumption DEF KeyEntry, Entry
    <2>3. \A i \in DOMAIN plan[1] : plan[1][i].key.id # entry.key.id
      BY <1>1, <2>2 DEF Disciplined
    <2>4. \A n \in Nodes : VerifiesAt(entry, Local(n))
      BY <2>1, ClockFacts, RotationAssumption, AffinityAssumption
         DEF VerifiesAt, KeyEntry, TypeOKRotation
    <2> HIDE DEF entry
    <2>5. /\ Good(plan[2], OutgoingKey) /\ Len(plan[2]) >= 1
          /\ plan[2][Len(plan[2])] = entry /\ Len(plan[2]) \in DOMAIN plan[2]
          /\ \A key, at : HasKey(plan[1], key, at) => HasKey(plan[2], key, at)
      <3>1. /\ plan[2] \in AnyKeySet /\ WellFormed(plan[2])
            /\ Len(plan[2]) = Len(plan[1]) + 1 /\ plan[2][Len(plan[2])] = entry
            /\ CurrentKey(plan[2]) = CurrentKey(plan[1])
            /\ \A key, at : HasKey(plan[1], key, at) => HasKey(plan[2], key, at)
        BY <1>1, <2>1, <2>2, <2>3, SecondSet, SMTT(40)
      <3>2. /\ Len(plan[1]) \in Nat /\ Len(plan[2]) \in Nat
            /\ DOMAIN plan[2] = 1..Len(plan[2])
        BY <1>1, <3>1, KeySetShape
      <3> QED BY <1>2, <3>1, <3>2
    <2>6. Old(plan[2]) /\ New(plan[2])
      BY <1>2, <2>2, <2>4, <2>5 DEF HasKey
    <2>7. CASE Len(plan) = 2
      <3> HIDE DEF Good, Old, New
      <3>1. Goal(1) /\ Goal(2)
        BY <1>2, <2>5, <2>6
      <3> HIDE DEF Goal
      <3> QED BY <2>7, <3>1
    <2>8. CASE Len(plan) >= 3
      <3>1. plan[3] = [i \in DOMAIN plan[2] |-> Minting(plan[2][i], i = Len(plan[2]))]
        BY <2>8 DEF PlanInv
      <3>2. /\ Good(plan[3], NewKey) /\ Len(plan[3]) = Len(plan[2])
            /\ plan[3][Len(plan[3])] = Minting(entry, TRUE)
            /\ \A key, at : HasKey(plan[2], key, at) => HasKey(plan[3], key, at)
        <4>1. /\ plan[3] \in AnyKeySet /\ WellFormed(plan[3]) /\ Len(plan[3]) = Len(plan[2])
              /\ CurrentKey(plan[3]) = plan[2][Len(plan[2])].key
              /\ plan[3][Len(plan[2])] = Minting(plan[2][Len(plan[2])], TRUE)
              /\ \A key, at : HasKey(plan[2], key, at) => HasKey(plan[3], key, at)
          BY <2>5, <3>1, ThirdSet, Zenon
        <4> QED BY <2>2, <2>5, <4>1
      <3>3. Old(plan[3]) /\ New(plan[3])
        BY <2>6, <3>2
      <3>4. CASE Len(plan) = 3
        <4> HIDE DEF Good, Old, New
        <4>1. Goal(1) /\ Goal(2) /\ Goal(3)
          BY <1>2, <2>5, <2>6, <3>2, <3>3
        <4> HIDE DEF Goal
        <4> QED BY <3>4, <4>1
      <3>5. CASE Len(plan) = 4
        <4> DEFINE minting == Minting(entry, TRUE)
        <4>1. /\ minting \in Entry /\ minting.mint /\ minting.key = NewKey
              /\ minting.verify_from = entry.verify_from
              /\ minting.verify_until = entry.verify_until
          BY <2>2, MintingKeeps
        <4>2. plan[4] = <<minting>>
          <5>1. plan[4] = <<plan[3][Len(plan[3])]>>
            <6>1. Len(plan) >= 4
              BY <3>5
            <6> QED BY <6>1, Zenon DEF PlanInv
          <5> QED BY <3>2, <5>1
        <4> HIDE DEF minting
        <4>3. /\ Good(plan[4], NewKey)
              /\ \A at : VerifiesAt(minting, at) => HasKey(plan[4], NewKey, at)
          BY <2>2, <4>1, <4>2, FourthSet
        <4>4. New(plan[4])
          BY <2>4, <4>1, <4>3 DEF VerifiesAt
        <4> HIDE DEF Good, Old, New
        <4>5. Goal(1) /\ Goal(2) /\ Goal(3) /\ Goal(4)
          BY <1>2, <2>5, <2>6, <3>2, <3>3, <4>3, <4>4
        <4> HIDE DEF Goal
        <4> QED BY <3>5, <4>5
      <3> QED BY <1>a, <2>8, <3>4, <3>5, Zenon
    <2> QED BY <1>a, <1>4, <2>7, <2>8, Zenon
  <1> QED BY <1>a, <1>3, <1>4, Zenon

LEMMA PublishAppends ==
  ASSUME TypeOKRotation, NEW set \in AnyKeySet, Publish(set), Len(plan) < 4
  PROVE  /\ plan' \in Seq(AnyKeySet) /\ Len(plan') = Len(plan) + 1 /\ Len(plan') \in 2..4
         /\ plan'[Len(plan) + 1] = set
         /\ \A k \in 1..Len(plan) : plan'[k] = plan[k]
  <1>1. plan \in Seq(AnyKeySet) /\ Len(plan) \in 1..4 /\ plan' = Append(plan, set)
    BY DEF TypeOKRotation, Publish
  <1> HIDE DEF AnyKeySet
  <1> QED BY <1>1

\* The keys of the rotation differ.
LEMMA KeysDiffer ==
  ASSUME Disciplined, PlanInv, TypeOKRotation
  PROVE  OutgoingKey # NewKey /\ OutgoingKey \in AnyKey
  <1>1. plan[1] \in OldSets /\ WellFormed(plan[1]) /\ plan[1] \in AnyKeySet
    BY RotationAssumption DEF PlanInv
  <1>2. PICK i \in DOMAIN plan[1] : \A j \in DOMAIN plan[1] : plan[1][j].mint <=> j = i
    BY <1>1 DEF WellFormed
  <1>3. plan[1][i].mint /\ \A j \in DOMAIN plan[1] : plan[1][j].mint => j = i
    BY <1>2
  <1>4. OutgoingKey = plan[1][i].key /\ OutgoingKey \in AnyKey
    BY <1>1, <1>3, CurrentKeyIs DEF OutgoingKey
  <1>5. plan[1][i].key.id # NewKey.id
    BY <1>1 DEF Disciplined
  <1> QED BY <1>4, <1>5

\* What a pair's origin says holds on, unless the last node just switched and it does not
\* say when.
LEMMA OriginStays ==
  ASSUME TypeOKRotation, NEW pair, Origin(pair), UNCHANGED offset,
         now \in Int, now' \in Int, now' >= now, Start \in Int,
         plan'[1] = plan[1], Len(plan') >= Len(plan), Len(plan') \in Int,
         NotMintingOld' /\ Len(plan') >= 3 =>
            \/ pair.at <= switched'
            \/ NotMintingOld /\ Len(plan) >= 3 /\ switched' = switched
            \/ Nodes = {}
  PROVE  Origin(pair)'
  <1> USE DEF Origin
  <1>1. PICK m \in Nodes, tenant \in Tenants, facts \in 0..MaxFacts,
             key \in {OutgoingKey, NewKey} :
          /\ MintedBy(pair, m, tenant, facts, key, pair.orig.nonce)
          /\ key = NewKey => Len(plan) >= 3
          /\ key = OutgoingKey /\ Len(plan) >= 3 /\ NotMintingOld => pair.at <= switched
    BY Zenon
  <1>2. OutgoingKey' = OutgoingKey
    BY DEF OutgoingKey
  <1>3. MintedBy(pair, m, tenant, facts, key, pair.orig.nonce)'
    BY <1>1 DEF MintedBy
  <1>4. pair.at \in (Start..now)' /\ pair.orig.nonce \in Int
    OBVIOUS
  <1>5. Len(plan) >= 3 => Len(plan') >= 3
    <2>1. Len(plan) \in Int
      BY DEF TypeOKRotation
    <2> QED BY <2>1
  <1>6. key = OutgoingKey /\ Len(plan') >= 3 /\ NotMintingOld' => pair.at <= switched'
    BY <1>1
  <1> HIDE DEF NotMintingOld, OutgoingKey, MintedBy
  <1> QED BY <1>1, <1>2, <1>3, <1>4, <1>5, <1>6, Zenon

LEMMA RotationInit == InitRotation => RotationInv
  <1> SUFFICES ASSUME InitRotation PROVE RotationInv
    OBVIOUS
  <1>1. PICK set \in OldSets : /\ WellFormed(set)
                               /\ plan = <<set>>
                               /\ keys = [n \in Nodes |-> set]
    BY DEF InitRotation
  <1>2. set \in AnyKeySet
    BY RotationAssumption
  <1>3. plan \in Seq(AnyKeySet) /\ Len(plan) = 1 /\ plan[1] = set
    <2> HIDE DEF AnyKeySet
    <2> QED BY <1>1, <1>2
  <1>4. IsFiniteSet(issued) /\ issued = {}
    BY FS_EmptySet DEF InitRotation
  <1>5. TypeOKRotation
    BY <1>1, <1>2, <1>3, <1>4, RotationAssumption DEF InitRotation, TypeOKRotation
  <1>6. PlanInv
    BY <1>1, <1>3 DEF PlanInv
  <1>7. HoldsInv
    BY <1>1, <1>3 DEF InitRotation, HoldsInv
  <1> QED BY <1>4, <1>5, <1>6, <1>7 DEF RotationInv

\* A key set published when every node holds the one before it disturbs nothing but the plan.
LEMMA PublishKeeps ==
  ASSUME RotationInv, NEW set \in AnyKeySet, Publish(set), Len(plan) < 4, EveryNodeHolds,
         UNCHANGED <<now, offset, holds, keys, switched, issued>>
  PROVE  /\ TypeOKRotation' /\ HoldsInv'
         /\ \A pair \in issued' : Origin(pair)'
         /\ Len(plan') = Len(plan) + 1 /\ plan'[Len(plan) + 1] = set
         /\ \A k \in 1..Len(plan) : plan'[k] = plan[k]
         /\ NotMintingOld => NotMintingOld'
  <1>1. TypeOKRotation /\ HoldsInv /\ \A pair \in issued : Origin(pair)
    BY DEF RotationInv
  <1>2. /\ plan' \in Seq(AnyKeySet) /\ Len(plan') = Len(plan) + 1 /\ Len(plan') \in 2..4
        /\ plan'[Len(plan) + 1] = set
        /\ \A k \in 1..Len(plan) : plan'[k] = plan[k]
    BY <1>1, PublishAppends
  <1>3. Len(plan) \in 1..4 /\ 1 \in 1..Len(plan)
    <2>1. Len(plan) \in 1..4
      BY <1>1 DEF TypeOKRotation
    <2>2. \A k \in 1..4 : 1 \in 1..k
      OBVIOUS
    <2> QED BY <2>1, <2>2
  <1>4. TypeOKRotation'
    BY <1>1, <1>2 DEF TypeOKRotation
  <1>5. HoldsInv'
    <2> SUFFICES ASSUME NEW n \in Nodes
                 PROVE  /\ keys[n] = plan'[holds[n]]
                        /\ holds[n] \in {Len(plan') - 1, Len(plan')} /\ holds[n] >= 1
      BY DEF HoldsInv
    <2>1. keys[n] = plan[holds[n]] /\ holds[n] = Len(plan) /\ holds[n] >= 1
      BY <1>1 DEF HoldsInv, EveryNodeHolds
    <2>2. Len(plan) \in 1..Len(plan) /\ Len(plan) = Len(plan') - 1
      BY <1>2, <1>3
    <2>3. plan'[Len(plan)] = plan[Len(plan)]
      BY <1>2, <2>2
    <2> QED BY <2>1, <2>2, <2>3
  <1>6. ASSUME NEW pair \in issued PROVE Origin(pair)'
    <2>1. Origin(pair) /\ now \in Int /\ Start \in Int
      BY <1>1, RotationAssumption DEF TypeOKRotation
    <2>2. plan'[1] = plan[1]
      BY <1>2, <1>3
    <2>3. Len(plan') \in Int /\ Len(plan') >= Len(plan)
      BY <1>2, <1>3
    <2>4. NotMintingOld' /\ Len(plan') >= 3 =>
             (NotMintingOld /\ Len(plan) >= 3 /\ switched' = switched) \/ Nodes = {}
      BY <1>1, <1>3 DEF NotMintingOld, EveryNodeHolds
    <2> QED BY <1>1, <2>1, <2>2, <2>3, <2>4, OriginStays
  <1>7. NotMintingOld => NotMintingOld'
    BY DEF NotMintingOld
  <1> QED BY <1>2, <1>4, <1>5, <1>6, <1>7

\* The operator's three steps.
LEMMA PublishStep ==
  ASSUME Disciplined, RotationInv, Distribute \/ Activate \/ Retire
  PROVE  RotationInv'
  <1>1. TypeOKRotation /\ PlanInv /\ HoldsInv /\ \A pair \in issued : Origin(pair)
    BY DEF RotationInv
  <1>2. UNCHANGED <<now, offset, holds, keys, switched, issued>>
    BY DEF Distribute, Activate, Retire
  <1>3. \A k \in 1..Len(plan) : plan[k] \in AnyKeySet
    BY <1>1 DEF TypeOKRotation
  <1>4. CASE Distribute
    <2> DEFINE entry == NewEntry(FALSE)
               second == plan[1] \o <<entry>>
    <2>1. Len(plan) = 1 /\ Publish(second)
      BY <1>4 DEF Distribute, OldSet
    <2>2. EveryNodeHolds
      BY <1>1, <2>1 DEF EveryNodeHolds, HoldsInv
    <2>3. now - Backdate \in Nat /\ entry \in Entry /\ plan[1] \in AnyKeySet
      BY <1>1, <1>3, <2>1, RotationAssumption, AffinityAssumption
         DEF NewEntry, KeyEntry, Entry, TypeOKRotation
    <2>4. second \in AnyKeySet /\ second[Len(second)] = entry
      <3> HIDE DEF entry
      <3>1. second \in AnyKeySet /\ Len(second) = Len(plan[1]) + 1
            /\ second[Len(plan[1]) + 1] = entry
        BY <2>3, DistributedTyped
      <3> QED BY <3>1
    <2> HIDE DEF second
    <2>5. /\ Len(plan') = 2 /\ plan'[2] = second /\ plan'[1] = plan[1]
      BY <1>2, <2>1, <2>2, <2>4, PublishKeeps
    <2>6. NewFrom' = now - Backdate
      BY <2>4, <2>5 DEF NewFrom, NewEntry, KeyEntry
    <2>7. plan'[2] = plan'[1] \o <<KeyEntry(NewKey, NewFrom', LastSecond, FALSE)>>
      BY <2>5, <2>6 DEF second, NewEntry
    <2>8. NewFrom' + Backdate <= now'
      BY <1>1, <1>2, <2>6, RotationAssumption DEF TypeOKRotation
    <2>9. PlanInv'
      BY <1>1, <2>3, <2>5, <2>6, <2>7, <2>8 DEF PlanInv
    <2> QED BY <1>2, <2>1, <2>2, <2>4, <2>9, PublishKeeps DEF RotationInv
  <1>5. CASE Activate
    <2> DEFINE third == [i \in DOMAIN plan[2] |-> Minting(plan[2][i], i = Len(plan[2]))]
    <2>1. Len(plan) = 2 /\ EveryNodeHolds /\ Publish(third)
      BY <1>5 DEF Activate
    <2>2. third \in AnyKeySet
      BY <1>3, <2>1, ActivatedTyped
    <2> HIDE DEF third
    <2>3. /\ Len(plan') = 3 /\ plan'[3] = third /\ plan'[2] = plan[2] /\ plan'[1] = plan[1]
      BY <1>2, <2>1, <2>2, PublishKeeps
    <2>4. PlanInv'
      <3>1. NewFrom' = NewFrom
        BY <2>3 DEF NewFrom
      <3>2. plan'[3] = [i \in DOMAIN plan'[2] |-> Minting(plan'[2][i], i = Len(plan'[2]))]
        BY <2>3 DEF third
      <3>3. /\ plan[1] \in OldSets /\ WellFormed(plan[1])
            /\ NewFrom \in Nat /\ NewFrom + Backdate <= now
            /\ plan[2] = plan[1] \o <<KeyEntry(NewKey, NewFrom, LastSecond, FALSE)>>
        <4>1. Len(plan) >= 2
          BY <2>1
        <4> QED BY <1>1, <4>1, Zenon DEF PlanInv
      <3>4. ~(Len(plan') >= 4)
        BY <2>3
      <3> QED BY <1>2, <2>3, <3>1, <3>2, <3>3, <3>4, Zenon DEF PlanInv
    <2> QED BY <1>2, <2>1, <2>2, <2>4, PublishKeeps DEF RotationInv
  <1>6. CASE Retire
    <2> DEFINE fourth == <<plan[3][Len(plan[3])]>>
    <2>1. /\ Len(plan) = 3 /\ EveryNodeHolds /\ Publish(fourth)
          /\ now > RetirementDeadline(switched, Lifetime, Registration, Skew)
      BY <1>6 DEF Retire
    <2>2. NotMintingOld
      BY <2>1 DEF NotMintingOld, EveryNodeHolds
    <2>3. fourth \in AnyKeySet
      <3>1. plan[3] \in AnyKeySet /\ WellFormed(plan[3])
        BY <1>1, <2>1, PlanFacts
      <3>2. Len(plan[3]) >= 1
        BY <3>1, KeySetShape DEF WellFormed
      <3>3. plan[3][Len(plan[3])] \in Entry
        BY <3>1, <3>2, KeySetShape
      <3> QED BY <3>3 DEF AnyKeySet
    <2> HIDE DEF fourth
    <2>4. /\ Len(plan') = 4 /\ plan'[4] = fourth /\ plan'[3] = plan[3]
          /\ plan'[2] = plan[2] /\ plan'[1] = plan[1] /\ NotMintingOld'
      BY <1>2, <2>1, <2>2, <2>3, PublishKeeps
    <2>5. PlanInv'
      <3>1. NewFrom' = NewFrom
        BY <2>4 DEF NewFrom
      <3>2. plan'[4] = <<plan'[3][Len(plan'[3])]>>
        BY <2>4 DEF fourth
      <3>3. /\ plan[1] \in OldSets /\ WellFormed(plan[1])
            /\ NewFrom \in Nat /\ NewFrom + Backdate <= now
            /\ plan[2] = plan[1] \o <<KeyEntry(NewKey, NewFrom, LastSecond, FALSE)>>
            /\ plan[3] = [i \in DOMAIN plan[2] |-> Minting(plan[2][i], i = Len(plan[2]))]
        <4>1. Len(plan) >= 2 /\ Len(plan) >= 3
          BY <2>1
        <4> QED BY <1>1, <4>1, Zenon DEF PlanInv
      <3>4. (now > RetirementDeadline(switched, Lifetime, Registration, Skew))'
        BY <1>2, <2>1 DEF RetirementDeadline
      <3> QED BY <1>2, <2>4, <3>1, <3>2, <3>3, <3>4, Zenon DEF PlanInv
    <2> QED BY <1>2, <2>1, <2>3, <2>5, PublishKeeps DEF RotationInv
  <1> QED BY <1>4, <1>5, <1>6

LEMMA ReloadStep ==
  ASSUME Disciplined, RotationInv, NEW n \in Nodes, Reload(n)
  PROVE  RotationInv'
  <1>1. TypeOKRotation /\ PlanInv /\ HoldsInv /\ \A pair \in issued : Origin(pair)
    BY DEF RotationInv
  <1>2. /\ UNCHANGED <<now, offset, plan, issued>>
        /\ holds[n] < Len(plan)
        /\ holds' = [holds EXCEPT ![n] = Len(plan)]
        /\ switched' = IF Len(plan) = 3 THEN now ELSE switched
    BY DEF Reload
  <1>3. Len(plan) \in 1..4 /\ holds \in [Nodes -> 1..4] /\ keys \in [Nodes -> AnyKeySet]
    BY <1>1 DEF TypeOKRotation
  <1>4. plan[Len(plan)] \in AnyKeySet /\ WellFormed(plan[Len(plan)])
    <2>1. \A k \in 1..4 : k \in 1..k
      OBVIOUS
    <2>2. Len(plan) \in 1..Len(plan)
      BY <1>3, <2>1, Zenon
    <2> QED BY <1>1, <2>2, PlanFacts
  <1>5. keys' = [keys EXCEPT ![n] = plan[Len(plan)]]
    BY <1>4 DEF Reload
  <1>6. TypeOKRotation'
    <2>1. keys' \in [Nodes -> AnyKeySet]
      <3> HIDE DEF AnyKeySet
      <3> QED BY <1>3, <1>4, <1>5
    <2>2. holds' \in [Nodes -> 1..4]
      BY <1>2, <1>3
    <2>3. switched' \in 0..now
      BY <1>1, <1>2, RotationAssumption DEF TypeOKRotation
    <2> QED BY <1>1, <1>2, <2>1, <2>2, <2>3 DEF TypeOKRotation
  <1>7. HoldsInv'
    <2> SUFFICES ASSUME NEW k \in Nodes
                 PROVE  /\ keys'[k] = plan[holds'[k]]
                        /\ holds'[k] \in {Len(plan) - 1, Len(plan)} /\ holds'[k] >= 1
      BY <1>2 DEF HoldsInv
    <2>1. CASE k = n
      <3>1. keys'[k] = plan[Len(plan)] /\ holds'[k] = Len(plan)
        BY <1>2, <1>3, <1>5, <2>1
      <3>2. Len(plan) >= 1
        BY <1>3
      <3> QED BY <3>1, <3>2
    <2>2. CASE k # n
      <3>1. keys'[k] = keys[k] /\ holds'[k] = holds[k]
        BY <1>2, <1>3, <1>5, <2>2
      <3> QED BY <1>1, <3>1 DEF HoldsInv
    <2> QED BY <2>1, <2>2
  <1>8. Len(plan) >= 4 => NotMintingOld /\ NotMintingOld' /\ switched' = switched
    <2> SUFFICES ASSUME Len(plan) >= 4
                 PROVE  NotMintingOld /\ NotMintingOld' /\ switched' = switched
      OBVIOUS
    <2>1. NotMintingOld /\ switched' = switched
      <3>1. NotMintingOld
        BY <1>1, Zenon DEF PlanInv
      <3>2. \A k \in 1..4 : k >= 4 => k # 3
        OBVIOUS
      <3>3. Len(plan) # 3
        BY <1>3, <3>2, Zenon
      <3> QED BY <1>2, <3>1, <3>3
    <2>2. \A k \in Nodes : holds'[k] = holds[k] \/ holds'[k] = Len(plan)
      BY <1>2, <1>3
    <2>3. NotMintingOld'
      BY <2>1, <2>2 DEF NotMintingOld
    <2> QED BY <2>1, <2>3
  <1>9. PlanInv'
    <2>1. UNCHANGED <<plan, now, NewFrom>>
      BY <1>2 DEF NewFrom
    <2>2. Len(plan) >= 4 => (now > RetirementDeadline(switched, Lifetime, Registration, Skew))'
      <3>1. Len(plan) >= 4 => now > RetirementDeadline(switched, Lifetime, Registration, Skew)
        BY <1>1 DEF PlanInv
      <3> QED BY <1>8, <2>1, <3>1 DEF RetirementDeadline
    <2> QED BY <1>1, <1>8, <2>1, <2>2, Zenon DEF PlanInv
  <1>10. ASSUME NEW pair \in issued PROVE Origin(pair)'
    <2>1. Origin(pair) /\ now \in Int /\ Start \in Int
      BY <1>1, RotationAssumption DEF TypeOKRotation
    <2>2. NotMintingOld' /\ Len(plan) >= 3 =>
            \/ pair.at <= switched'
            \/ NotMintingOld /\ Len(plan) >= 3 /\ switched' = switched
      <3>1. Len(plan) >= 3 => Len(plan) = 3 \/ Len(plan) >= 4
        <4>1. \A k \in 1..4 : k >= 3 => k = 3 \/ k >= 4
          OBVIOUS
        <4> QED BY <1>3, <4>1, Zenon
      <3>2. pair.at <= now
        BY <2>1 DEF Origin
      <3> QED BY <1>2, <1>8, <3>1, <3>2
    <2>3. Len(plan') >= Len(plan) /\ Len(plan') \in Int
      BY <1>2, <1>3
    <2>4. now' >= now /\ now' \in Int /\ plan'[1] = plan[1]
      BY <1>2, <2>1
    <2> QED BY <1>1, <1>2, <2>1, <2>2, <2>3, <2>4, OriginStays
  <1> QED BY <1>2, <1>6, <1>7, <1>9, <1>10 DEF RotationInv

LEMMA TickStep ==
  ASSUME RotationInv, Tick
  PROVE  RotationInv'
  <1>1. TypeOKRotation /\ PlanInv /\ HoldsInv /\ \A pair \in issued : Origin(pair)
    BY DEF RotationInv
  <1>2. /\ UNCHANGED <<offset, plan, holds, keys, switched, issued>>
        /\ now' = now + 1 /\ now < MaxNow
    BY DEF Tick
  <1>3. now \in Int /\ now' \in Int /\ now' >= now /\ Start \in Int /\ Len(plan) \in 1..4
    BY <1>1, <1>2, RotationAssumption DEF TypeOKRotation
  <1>4. TypeOKRotation'
    BY <1>1, <1>2, RotationAssumption DEF TypeOKRotation
  <1>5. UNCHANGED <<NewFrom, NotMintingOld>>
    BY <1>2 DEF NewFrom, NotMintingOld
  <1>6. PlanInv'
    <2>1. Len(plan) >= 2 => NewFrom \in Nat /\ NewFrom + Backdate <= now'
      BY <1>1, <1>2, <1>3, RotationAssumption DEF PlanInv
    <2>2. Len(plan) >= 4 => (now > RetirementDeadline(switched, Lifetime, Registration, Skew))'
      <3>1. Len(plan) >= 4 => now > RetirementDeadline(switched, Lifetime, Registration, Skew)
        BY <1>1 DEF PlanInv
      <3>2. RetirementDeadline(switched, Lifetime, Registration, Skew) \in Int
        BY <1>1, RotationAssumption, AffinityAssumption
           DEF RetirementDeadline, SaturatingAdd, TypeOKRotation
      <3> QED BY <1>2, <1>3, <3>1, <3>2 DEF RetirementDeadline
    <2> QED BY <1>1, <1>2, <1>5, <2>1, <2>2, Zenon DEF PlanInv
  <1>7. HoldsInv'
    BY <1>1, <1>2 DEF HoldsInv
  <1>8. ASSUME NEW pair \in issued PROVE Origin(pair)'
    <2>1. Origin(pair) /\ Len(plan') >= Len(plan) /\ Len(plan') \in Int /\ plan'[1] = plan[1]
      BY <1>1, <1>2, <1>3
    <2> QED BY <1>1, <1>2, <1>3, <1>5, <2>1, OriginStays
  <1> QED BY <1>2, <1>4, <1>6, <1>7, <1>8 DEF RotationInv

LEMMA MintPairStep ==
  ASSUME Disciplined, RotationInv, NEW n \in Nodes, NEW tenant \in Tenants, NEW facts \in Facts,
         MintPair(n, tenant, facts)
  PROVE  RotationInv'
  <1>1. TypeOKRotation /\ PlanInv /\ HoldsInv /\ \A pair \in issued : Origin(pair)
    BY DEF RotationInv
  <1>2. UNCHANGED <<now, offset, plan, holds, keys, switched>>
    BY DEF MintPair
  <1>3. PICK new : /\ issued' = issued \cup {new}
                   /\ new.at = now /\ new.orig.nonce = 2 * Cardinality(issued)
                   /\ facts \in 0..MaxFacts
                   /\ MintedBy(new, n, tenant, facts, CurrentKey(keys[n]), new.orig.nonce)
    BY MintPairAdds
  <1>4. now \in Int /\ Start \in Int /\ Len(plan) \in 1..4 /\ now \in Start..now
    BY <1>1, RotationAssumption DEF TypeOKRotation
  <1>5. IsFiniteSet(issued') /\ Cardinality(issued) \in Nat
    BY <1>1, <1>3, FS_AddElement, FS_CardinalityType DEF TypeOKRotation
  <1>6. ASSUME NEW pair \in issued PROVE Origin(pair)'
    <2>1. Origin(pair) /\ Len(plan') >= Len(plan) /\ Len(plan') \in Int /\ plan'[1] = plan[1]
      BY <1>1, <1>2, <1>4
    <2>2. UNCHANGED NotMintingOld
      BY <1>2 DEF NotMintingOld
    <2> QED BY <1>1, <1>2, <1>4, <2>1, <2>2, OriginStays
  <1>7. Origin(new)'
    <2>1. /\ keys[n] = plan[holds[n]]
          /\ holds[n] \in {Len(plan) - 1, Len(plan)} /\ holds[n] >= 1 /\ holds[n] \in 1..4
      BY <1>1 DEF HoldsInv, TypeOKRotation
    <2>2. holds[n] \in 1..Len(plan)
      BY <1>4, <2>1
    <2>3. CurrentKey(keys[n]) = IF holds[n] <= 2 THEN OutgoingKey ELSE NewKey
      BY <1>1, <2>1, <2>2, PlanFacts
    <2>4. CurrentKey(keys[n]) \in {OutgoingKey, NewKey}
      BY <2>3
    <2>5. CurrentKey(keys[n]) = NewKey => Len(plan) >= 3
      BY <1>1, <1>4, <2>1, <2>3, KeysDiffer
    <2>6. ~(CurrentKey(keys[n]) = OutgoingKey /\ NotMintingOld)
      BY <1>1, <2>1, <2>3, KeysDiffer DEF NotMintingOld
    <2>7. new.at \in Start..now /\ new.orig.nonce \in Int
      BY <1>3, <1>4, <1>5
    <2>8. /\ UNCHANGED <<OutgoingKey, NotMintingOld>>
          /\ MintedBy(new, n, tenant, facts, CurrentKey(keys[n]), new.orig.nonce)'
      BY <1>2, <1>3 DEF OutgoingKey, NotMintingOld, MintedBy
    <2> HIDE DEF NotMintingOld, OutgoingKey, MintedBy
    <2> QED BY <1>2, <1>3, <2>4, <2>5, <2>6, <2>7, <2>8, Zenon DEF Origin
  <1>8. TypeOKRotation' /\ HoldsInv'
    BY <1>1, <1>2, <1>5 DEF TypeOKRotation, HoldsInv
  <1>9. PlanInv'
    <2>1. UNCHANGED <<NewFrom, NotMintingOld>>
      BY <1>2 DEF NewFrom, NotMintingOld
    <2> QED BY <1>1, <1>2, <2>1 DEF PlanInv, RetirementDeadline
  <1> QED BY <1>3, <1>6, <1>7, <1>8, <1>9 DEF RotationInv

LEMMA RotationStep ==
  ASSUME Disciplined, RotationInv, [NextRotation]_rotationVars
  PROVE  RotationInv'
  <1>1. CASE UNCHANGED rotationVars
    <2>1. UNCHANGED <<now, offset, plan, holds, keys, switched, issued>>
      BY <1>1 DEF rotationVars
    <2>2. UNCHANGED <<NewFrom, NotMintingOld, OutgoingKey>>
      BY <2>1 DEF NewFrom, NotMintingOld, OutgoingKey
    <2>3. TypeOKRotation' /\ HoldsInv' /\ PlanInv'
      BY <2>1, <2>2 DEF RotationInv, TypeOKRotation, HoldsInv, PlanInv, RetirementDeadline
    <2>4. ASSUME NEW pair \in issued PROVE Origin(pair)'
      <3>1. Origin(pair)
        BY DEF RotationInv
      <3> HIDE DEF NotMintingOld, OutgoingKey
      <3> QED BY <2>1, <2>2, <3>1 DEF Origin, MintedBy
    <2> QED BY <2>1, <2>3, <2>4 DEF RotationInv
  <1> QED BY <1>1, PublishStep, ReloadStep, TickStep, MintPairStep DEF NextRotation

\* From what is in the history, a live token is served: it was minted under a key the reader
\* still has, it reads as not expired on every clock within the allowance, and it agrees with
\* its partner.
LEMMA LiveIsAccepted ==
  ASSUME Disciplined, RotationInv, NEW pair \in issued, NEW n \in Nodes, Served(n, pair),
         Local(n) <= pair.orig.body.claims.expiry \/ now <= pair.at + Lifetime
  PROVE  AcceptsPair(n, pair)
  <1>1. TypeOKRotation /\ PlanInv /\ HoldsInv /\ Origin(pair)
    BY DEF RotationInv
  <1>2. PICK m \in Nodes, tenant \in Tenants, facts \in 0..MaxFacts,
             key \in {OutgoingKey, NewKey} :
          /\ MintedBy(pair, m, tenant, facts, key, pair.orig.nonce)
          /\ key = NewKey => Len(plan) >= 3
          /\ key = OutgoingKey /\ Len(plan) >= 3 /\ NotMintingOld => pair.at <= switched
    BY <1>1, Zenon DEF Origin
  <1> DEFINE claims(direction) ==
                 [tenant |-> tenant, direction |-> direction, facts |-> facts,
                  expiry |-> SaturatingAdd(pair.at + offset[m], Lifetime)]
             nonce == pair.orig.nonce
             expiry == SaturatingAdd(pair.at + offset[m], Lifetime)
  <1>3. /\ pair.orig = Mint(claims(Originating), key, nonce)
        /\ pair.term = Mint(claims(Terminating), key, nonce + 1)
    BY <1>2 DEF MintedBy
  <1>4. /\ pair.orig.body.claims = claims(Originating) /\ pair.orig.nonce = nonce
        /\ pair.term.body.claims = claims(Terminating) /\ pair.term.nonce = nonce + 1
    BY <1>3 DEF Mint
  <1>5. /\ key \in AnyKey
        /\ claims(Originating).facts \in 0..MaxFacts /\ claims(Terminating).facts \in 0..MaxFacts
        /\ claims(Originating).direction = Originating
        /\ claims(Terminating).direction = Terminating
        /\ claims(Originating).expiry = expiry /\ claims(Terminating).expiry = expiry
        /\ claims(Originating).tenant = tenant /\ claims(Terminating).tenant = tenant
    BY <1>1, KeysDiffer, RotationAssumption
  \* Clocks.
  <1>6. /\ Local(n) \in 0..LastSecond /\ LastSecond \in Nat
        /\ now + offset[n] = Local(n) /\ offset[n] \in Int /\ offset[m] \in Int
        /\ offset[n] - offset[m] <= Skew /\ offset[m] - offset[n] <= Skew
        /\ pair.at \in Int /\ now \in Int /\ Lifetime \in Nat /\ Skew \in Nat
    <2>1. /\ Local(n) \in 0..LastSecond /\ now + offset[n] = Local(n)
          /\ offset[n] \in Int /\ offset[m] \in Int
          /\ offset[n] \in Offsets /\ offset[m] \in Offsets
      BY <1>1, ClockFacts
    <2>2. offset[n] - offset[m] <= Skew /\ offset[m] - offset[n] <= Skew
      BY <2>1 DEF Disciplined
    <2>3. pair.at \in Int /\ now \in Int /\ Lifetime \in Nat /\ Skew \in Nat
      BY <1>1, RotationAssumption DEF Origin, TypeOKRotation
    <2> QED BY <2>1, <2>2, <2>3, AffinityAssumption
  <1>7. Local(n) <= expiry \/ now <= pair.at + Lifetime
    BY <1>4, <1>5
  <1> HIDE DEF claims
  <1>8. ~Expired(claims(Originating), Local(n), Skew) /\ ~Expired(claims(Terminating), Local(n), Skew)
    BY <1>5, <1>6, <1>7 DEF Expired, SaturatingAdd
  \* The key.
  <1>9. /\ keys[n] = plan[holds[n]] /\ holds[n] \in 1..Len(plan) /\ holds[n] \in 1..4
        /\ holds[n] \in {Len(plan) - 1, Len(plan)} /\ Len(plan) \in 1..4
        /\ keys[n] \in AnyKeySet
    BY <1>1 DEF HoldsInv, TypeOKRotation
  <1>10. HasKey(keys[n], key, Local(n))
    <2>1. CASE key = NewKey
      <3>1. holds[n] >= 2
        BY <1>2, <1>9, <2>1
      <3> QED BY <1>1, <1>9, <2>1, <3>1, PlanFacts
    <2>2. CASE key = OutgoingKey
      <3>1. holds[n] <= 3
        <4> SUFFICES ASSUME holds[n] = 4 PROVE FALSE
          BY <1>9
        <4>1. Len(plan) >= 4 /\ Len(plan) >= 3
          BY <1>9
        <4>2. NotMintingOld /\ now > RetirementDeadline(switched, Lifetime, Registration, Skew)
          BY <1>1, <4>1, Zenon DEF PlanInv
        <4>3. pair.at <= switched
          BY <1>2, <2>2, <4>1, <4>2
        <4>4. now > pair.at + Lifetime + Skew
          <5>1. now <= LastSecond /\ switched \in Nat /\ Registration \in Nat
            BY <1>1, RotationAssumption, AffinityAssumption DEF TypeOKRotation
          <5> QED BY <1>6, <4>2, <4>3, <5>1 DEF RetirementDeadline, SaturatingAdd
        <4>5. expiry <= pair.at + offset[m] + Lifetime
          BY <1>6 DEF SaturatingAdd
        <4>6. expiry \in Int
          BY <1>6 DEF SaturatingAdd
        <4> HIDE DEF expiry
        <4> QED BY <1>6, <1>7, <4>4, <4>5, <4>6
      <3> QED BY <1>1, <1>9, <2>2, <3>1, PlanFacts
    <2> QED BY <1>2, <2>1, <2>2
  <1>11. Chooses(keys[n], key, Local(n))
    <2>1. WellFormed(keys[n])
      BY <1>1, <1>9, PlanFacts
    <2> QED BY <1>6, <1>9, <1>10, <2>1, HasIsChosen
  <1>12. Sound(pair.orig, keys[n], Local(n), Skew) /\ Sound(pair.term, keys[n], Local(n), Skew)
    BY <1>3, <1>5, <1>8, <1>11, MintedIsSound
  \* The partner and the tenant.
  <1>13. PairConsistent(pair.orig, pair.term) /\ PairConsistent(pair.term, pair.orig)
    <2>1. nonce \in Int
      BY <1>1 DEF Origin
    <2> QED BY <1>4, <2>1 DEF PairConsistent, Complement, Originating, Terminating, claims
  <1>14. Pinned[n] \in {AnyTenant, tenant}
    BY <1>4, <1>5 DEF Served
  <1> QED BY <1>4, <1>5, <1>12, <1>13, <1>14 DEF AcceptsPair, Accepts, Verify

\* S6 and section 6 of the token's specification: with clocks within the allowance and a key
\* distributed with its window already open on all of them, no token is refused while it is
\* alive, on any node, at any moment of a rotation, whatever the order in which nodes reload.
THEOREM LiveTokens ==
  ASSUME Disciplined
  PROVE  SpecRotation => []LiveTokenVerifies
  <1>1. RotationInv /\ [NextRotation]_rotationVars => RotationInv'
    BY RotationStep
  <1>2. RotationInv => LiveTokenVerifies
    BY LiveIsAccepted DEF LiveTokenVerifies
  <1> QED BY RotationInit, <1>1, <1>2, PTL DEF SpecRotation
================================================================================
