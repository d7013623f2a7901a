-------------------------------- MODULE Lookup --------------------------------
(***************************************************************************)
(* From the committed set of an address-of-record to the targets a call is *)
(* forked to: order_targets (crates/sipx-clstr-registrar/src/lookup.rs),   *)
(* LocationStore::lookup and targets_from_lookup                           *)
(* (crates/sipx-clstr-proxy/src/from_registrar.rs).                        *)
(*                                                                         *)
(* A lookup reads and writes nothing, so it is an operator on the state of *)
(* AtomicRegistrar; the properties hold of a lookup made at any moment.    *)
(***************************************************************************)
EXTENDS AtomicRegistrar

\* L1: against the caller's clock.
Candidates_All(set, now) == set
Candidates(set, now) == Active(set, now)

\* L2 and L3: preference, then recency, then contact bytes.
Before(a, b) ==
    \/ a.q > b.q
    \/ a.q = b.q /\ a.refreshedAt > b.refreshedAt
    \/ a.q = b.q /\ a.refreshedAt = b.refreshedAt /\ a.contact < b.contact

\* sort_by is stable: a pair it finds equal stays in creation order.
Ahead(found, j, k) ==
    \/ Before(found[j], found[k])
    \/ ~Before(found[k], found[j]) /\ j < k

\* The registrar's Target.
LookupTarget(binding, now) ==
    [contact |-> binding.contact, path |-> binding.path, q |-> binding.q,
     expiresIn |-> binding.expiresAt - now]

OrderTargets(set, now) ==
    LET found == Candidates(set, now)
        ordered == Listing(found, [k \in DOMAIN found |->
                                      {j \in DOMAIN found : Ahead(found, j, k)}])
    IN  [k \in DOMAIN ordered |-> LookupTarget(ordered[k], now)]

\* The proxy's Target: what a branch needs, in the same order.
TargetsFromLookup(found) ==
    [k \in DOMAIN found |-> [uri |-> found[k].contact, route |-> found[k].path, q |-> found[k].q]]

Targets(now) == TargetsFromLookup(OrderTargets(bindings, now))

-----------------------------------------------------------------------------
(* Properties *)

\* A call is never forked twice to one contact: whatever spellings were registered,
\* refreshed, removed or left to expire, two targets compare as equivalent only where
\* the comparison is ambiguous.  Reconciliation alone sees to this; nothing downstream
\* looks for duplicates.
TargetsAreDistinct ==
    LET targets == Targets(clock)
    IN  \A j, k \in DOMAIN targets :
          j # k /\ Equivalent(targets[j].uri, targets[k].uri) =>
            Ambiguous(targets[j].uri) \/ Ambiguous(targets[k].uri)

\* The contacts a 200 lists are those a caller would be sent to at that instant: nothing
\* is confirmed that a lookup leaves out, nothing is forked to that was not confirmed.
AnswerIsWhatIsCalled ==
    last.kind \in {"Commit", "Noop"} =>
      LET found == OrderTargets(bindings, last.now)
      IN  {last.outcome.told[k].contact : k \in DOMAIN last.outcome.told}
            = {found[k].contact : k \in DOMAIN found}

\* Violated.  lookup.rs: "ascending contact bytes, which is a total order and therefore
\* leaves no pair unordered".
NoPairIsUnordered ==
    LET found == Candidates(bindings, clock)
    IN  \A j, k \in DOMAIN found : j # k => Before(found[j], found[k]) \/ Before(found[k], found[j])
===============================================================================
