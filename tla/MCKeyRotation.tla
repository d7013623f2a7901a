----------------------------- MODULE MCKeyRotation -----------------------------
(* Instances of KeyRotation for TLC. *)
EXTENDS KeyRotation

CONSTANTS n1, n2

MCNodes == {n1, n2}
MCOffsets == {-1, 1}
MCTenants == {1, 2}
MCPinned == [n \in MCNodes |-> IF n = n2 THEN 1 ELSE AnyTenant]
OldKey == MintKey(1, "HmacSha256_96", "old")
OlderKey == MintKey(1, "ChaCha20Poly1305", "older")
MCNewKey == MintKey(2, "ChaCha20Poly1305", "new")

\* A first key, or one whose id an earlier key had: up to a moment before, or (which is
\* not to be loaded) up to the moment the window of this one opens.
MCOldSets ==
    {<<KeyEntry(OldKey, 0, LastSecond, TRUE)>>}
        \cup {<<KeyEntry(OlderKey, 0, until, FALSE), KeyEntry(OldKey, 1, LastSecond, TRUE)>> :
                  until \in {0, 1}}

\* The rotation of MCKeyRotation.cfg is the one the operator is told to do; that of
\* MCKeyRotationSkew.cfg opens the window of the new key too late for a slow clock.
ASSUME InstanceAssumption == Disciplined <=> Backdate = 1
================================================================================
