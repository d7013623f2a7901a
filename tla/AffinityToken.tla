----------------------------- MODULE AffinityToken -----------------------------
(***************************************************************************)
(* The affinity token of crates/sipx-clstr-affinity: key sets, minting and *)
(* verification, as operators.  A token is the record of its header, its   *)
(* body and its tag, with the length it has on the wire; the tag is what   *)
(* was sealed, so it matches exactly when the same secret sealed the same  *)
(* header and body.  Clocks are u32 seconds that saturate at LastSecond.   *)
(***************************************************************************)
EXTENDS Naturals, Sequences

CONSTANT LastSecond   \* u32::MAX, scaled down by the instances

ASSUME AffinityAssumption == LastSecond \in Nat

SaturatingAdd(a, b) == IF a + b > LastSecond THEN LastSecond ELSE a + b

-----------------------------------------------------------------------------
(* Layout *)

VersionByte == 1
HeaderLen == 14
BodyFixedLen == 20
MaxFacts == 64
TagLen(algorithm) == IF algorithm = "ChaCha20Poly1305" THEN 16 ELSE 12
MinTokenLen(algorithm) == HeaderLen + BodyFixedLen + TagLen(algorithm)
MaxTokenLen(algorithm) == MinTokenLen(algorithm) + MaxFacts

\* Unpadded base64url: four characters for three bytes, one fewer per missing byte.
EncodedLen(len) == (len \div 3) * 4 + (IF len % 3 = 0 THEN 0 ELSE (len % 3) + 1)
TokenParamBudget == 200
WorstCaseParamLen == 5 + EncodedLen(MaxTokenLen("ChaCha20Poly1305"))
ASSUME BudgetAssumption == WorstCaseParamLen <= TokenParamBudget

\* The wire bytes of Direction, and the other side.
Originating == 1
Terminating == 2
Complement(direction) == 3 - direction

-----------------------------------------------------------------------------
(* Keys *)

MintKey(id, algorithm, secret) == [id |-> id, algorithm |-> algorithm, secret |-> secret]
KeyEntry(key, from, until, mint) ==
    [key |-> key, verify_from |-> from, verify_until |-> until, mint |-> mint]

VerifiesAt(entry, now) == entry.verify_from <= now /\ now <= entry.verify_until

Overlap(a, b) == a.verify_from <= b.verify_until /\ b.verify_from <= a.verify_until

\* KeySet::new: the rules a configuration must meet to be loaded.
WellFormed(entries) ==
    /\ \A i \in DOMAIN entries : entries[i].verify_from <= entries[i].verify_until
    /\ \E i \in DOMAIN entries : \A j \in DOMAIN entries : entries[j].mint <=> j = i
    /\ \A i, j \in DOMAIN entries :
          i < j /\ entries[i].key.id = entries[j].key.id => ~Overlap(entries[i], entries[j])

\* The entries an id selects at an instant; `find` takes the first.
First(places) == CHOOSE i \in places : \A j \in places : i <= j
Selected(keys, id, now) ==
    {i \in DOMAIN keys : keys[i].key.id = id /\ VerifiesAt(keys[i], now)}
VerifyKey(keys, id, now) == keys[First(Selected(keys, id, now))].key
CurrentKey(keys) == keys[First({i \in DOMAIN keys : keys[i].mint})].key

RetirementDeadline_Unskewed(switched, lifetime, registration, skew) ==
    SaturatingAdd(switched, IF lifetime > registration THEN lifetime ELSE registration)
RetirementDeadline(switched, lifetime, registration, skew) ==
    SaturatingAdd(SaturatingAdd(switched, IF lifetime > registration THEN lifetime
                                          ELSE registration), skew)

-----------------------------------------------------------------------------
(* Mint and verify *)

Seal_BodyOnly(key, version, id, nonce, body, bodyLen) ==
    [secret |-> key.secret, algorithm |-> key.algorithm, body |-> body, len |-> bodyLen]
\* The tag: over header and body, whichever the construction.
Seal(key, version, id, nonce, body, bodyLen) ==
    [secret |-> key.secret, algorithm |-> key.algorithm,
     header |-> <<version, id, nonce>>, body |-> body, len |-> bodyLen]

\* `claims.facts` is the length of the opaque region; more than MaxFacts is not minted.
Mintable(claims) == claims.facts <= MaxFacts
Mint(claims, key, nonce) ==
    LET body == [claims |-> claims, declared |-> claims.facts]
        bodyLen == BodyFixedLen + claims.facts
    IN  [version |-> VersionByte, id |-> key.id, nonce |-> nonce, body |-> body,
         len |-> HeaderLen + bodyLen + TagLen(key.algorithm),
         tag |-> Seal(key, VersionByte, key.id, nonce, body, bodyLen)]

Expired(claims, now, skew) == now > SaturatingAdd(claims.expiry, skew)

\* verify_through_s7: structure, key, length, tag, framing, expiry, direction, in this
\* order.  Which of them fails is telemetry; all that anyone acts on is whether one does.
Sound(token, keys, now, skew) ==
    /\ token.version = VersionByte
    /\ token.len >= MinTokenLen("HmacSha256_96")
    /\ Selected(keys, token.id, now) # {}
    /\ LET key == VerifyKey(keys, token.id, now)
           bodyLen == token.len - HeaderLen - TagLen(key.algorithm)
       IN  /\ token.len \in MinTokenLen(key.algorithm)..MaxTokenLen(key.algorithm)
           /\ token.tag = Seal(key, token.version, token.id, token.nonce,
                               token.body, bodyLen)
           /\ token.body.declared = bodyLen - BodyFixedLen
    /\ ~Expired(token.body.claims, now, skew)
    /\ token.body.claims.direction \in {Originating, Terminating}

PairConsistent(token, other) ==
    /\ other.body.claims = [token.body.claims EXCEPT !.direction = Complement(@)]
    /\ token.nonce # other.nonce

NoToken == [version |-> 0]
AnyTenant == 0

\* verify: S1 to S7 on the token, the tenant pinned at this ingress, and the partner
\* entry when one was popped with it.
Verify(token, keys, now, skew, pinned, partner) ==
    /\ Sound(token, keys, now, skew)
    /\ pinned \in {AnyTenant, token.body.claims.tenant}
    /\ \/ partner = NoToken
       \/ Sound(partner, keys, now, skew) /\ PairConsistent(token, partner)
================================================================================
