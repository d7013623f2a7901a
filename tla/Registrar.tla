------------------------------ MODULE Registrar ------------------------------
(***************************************************************************)
(* The registrar's decision function.  Process translates                  *)
(* crates/sipx-clstr-registrar/src/process.rs with the binding set of      *)
(* binding.rs and the command of command.rs: a pure function of a          *)
(* REGISTER, of the instant it was admitted and of the set it read.        *)
(*                                                                         *)
(* A contact is its place in byte order.  Two contacts may differ in bytes *)
(* and still name one binding (RFC 3261 section 19.1.4); that comparison   *)
(* is the relation Same, which need not be transitive.  Instants and       *)
(* lifetimes share one unit.                                               *)
(*                                                                         *)
(* A name with an underscore is the definition below it with a plausible   *)
(* bug; no specification uses it.                                          *)
(***************************************************************************)
EXTENDS Integers, Sequences, FiniteSets, SequencesExt

CONSTANTS
    Contacts,        \* the contacts user agents register, numbered in byte order
    Same,            \* pairs of different contacts that compare as equivalent
    Commands,        \* the REGISTERs that may arrive
    DefaultExpires, MinExpires, MaxExpires, MaxBindings, MaxContactOps
                     \* TenantPolicy

Absent == -1

ContactOp == [contact : Contacts, expires : {Absent} \cup Nat, q : 0..1000]
Command ==
    [callId : Nat, cseq : Nat, wildcard : BOOLEAN, ops : Seq(ContactOp),
     expires : {Absent} \cup Nat, path : Nat, supportsPath : BOOLEAN, requireOk : BOOLEAN]

ASSUME ContactsAssumption == Contacts \subseteq Nat /\ Same \subseteq Contacts \X Contacts
ASSUME CommandsAssumption == Commands \subseteq Command
ASSUME PolicyAssumption ==
    /\ DefaultExpires \in Nat /\ MinExpires \in Nat /\ MaxExpires \in Nat
    /\ MaxBindings \in Nat /\ MaxContactOps \in Nat

Binding ==
    [contact : Contacts, q : 0..1000, callId : Nat, cseq : Nat, expiresAt : Nat,
     registeredAt : Nat, refreshedAt : Nat, path : Nat]

Equivalent(a, b) == a = b \/ <<a, b>> \in Same \/ <<b, a>> \in Same

-----------------------------------------------------------------------------
(* BindingSet (binding.rs): a sequence in creation order *)

\* The elements of s at the places in DOMAIN before, in the order in which each is preceded
\* by the places before names.  Told by counting, which the proofs can unfold.
Listing(s, before) ==
    [r \in 1..Cardinality(DOMAIN before) |->
        s[CHOOSE k \in DOMAIN before : Cardinality(before[k]) = r - 1]]

IsActive(binding, now) == binding.expiresAt > now
Active(set, now) ==
    LET at == {k \in DOMAIN set : IsActive(set[k], now)}
    IN  Listing(set, [k \in at |-> {j \in at : j < k}])
DropExpired(set, now) == Active(set, now)
ActiveCount(set, now) == Len(Active(set, now))

\* The order of (registered_at, contact bytes) that insert_at keeps.
NotAfter(a, b) ==
    \/ a.registeredAt < b.registeredAt
    \/ a.registeredAt = b.registeredAt /\ a.contact <= b.contact

\* slice::partition_point: a binary search, so what it finds in a sequence that is
\* not partitioned is what the halving happens to meet.
PartitionPoint(s, Before(_)) ==
    LET Window == {w \in (0..Len(s)) \X (0..Len(s)) : w[1] + w[2] <= Len(s)}  \* start and size
        search[w \in Window] ==
          IF w[2] <= 1
            THEN IF w[2] = 1 /\ Before(s[w[1] + 1]) THEN w[1] + 1 ELSE w[1]
            ELSE LET half == w[2] \div 2
                 IN  search[<<IF Before(s[w[1] + half + 1]) THEN w[1] + half ELSE w[1],
                              w[2] - half>>]
    IN  search[<<0, Len(s)>>]

-----------------------------------------------------------------------------
(* Granted lifetimes (section 5.2) *)

\* E1, E2, E3: the contact's own, the header's, the tenant's default.
RequestedExpires(cmd, op) ==
    IF op.expires # Absent THEN op.expires
    ELSE IF cmd.expires # Absent THEN cmd.expires
    ELSE DefaultExpires

\* E6 fails the whole request; a removal (E4) is exempt.
TooBrief(cmd, op) == RequestedExpires(cmd, op) \in 1..(MinExpires - 1)

\* E5: lowered to the maximum.
Granted(cmd, op) ==
    IF RequestedExpires(cmd, op) > MaxExpires THEN MaxExpires ELSE RequestedExpires(cmd, op)

BindingFor(op, cmd, now, granted, registeredAt) ==
    [contact |-> op.contact, q |-> op.q, callId |-> cmd.callId, cseq |-> cmd.cseq,
     expiresAt |-> now + granted, registeredAt |-> registeredAt, refreshedAt |-> now,
     path |-> cmd.path]

\* B4.1: the stored binding was granted what this command asks for.
AlreadyHolds(stored, cmd, granted) ==
    /\ granted # 0
    /\ stored.expiresAt - stored.refreshedAt = granted
    /\ stored.path = cmd.path

-----------------------------------------------------------------------------
(* Reconciliation (section 5.3) *)

\* Reconciling: the live set with, per binding, a name that survives reordering and
\* whether this request wrote it; pending holds B8's deferred decisions, stale
\* records B5's abort.
View(set) ==
    [slots |-> [k \in DOMAIN set |-> [binding |-> set[k], id |-> k, writtenHere |-> FALSE]],
     nextId |-> Len(set) + 1, changed |-> FALSE, pending |-> {}, stale |-> FALSE]

BindingsOf(view) == [k \in DOMAIN view.slots |-> view.slots[k].binding]

\* The first binding in creation order that the contact names, 0 if none does.
Find_Spelled(view, contact) ==
    SelectInSeq(view.slots, LAMBDA slot : slot.binding.contact = contact)
Find(view, contact) ==
    SelectInSeq(view.slots, LAMBDA slot : Equivalent(slot.binding.contact, contact))

InsertBinding(view, binding) ==
    LET at == PartitionPoint(view.slots, LAMBDA slot : NotAfter(slot.binding, binding))
    IN  [view EXCEPT !.slots = InsertAt(@, at + 1, [binding |-> binding, id |-> view.nextId,
                                                   writtenHere |-> TRUE]),
                     !.nextId = @ + 1,
                     !.changed = TRUE]

ReplaceBinding(view, k, binding) ==
    [view EXCEPT !.slots[k] = [@ EXCEPT !.binding = binding, !.writtenHere = TRUE],
                 !.changed = TRUE]

RemoveBinding(view, k) == [view EXCEPT !.slots = RemoveAt(@, k), !.changed = TRUE]

\* B8: an operation that lands on a binding is the request's last word on it so far.
Rebase_Never(view, slot, granted) == view
Rebase(view, slot, granted) ==
    [view EXCEPT !.pending = {IF d.slot = slot THEN [d EXCEPT !.net = granted] ELSE d : d \in @}]

\* B7: ordering tokens are compared only with a binding another request wrote, and
\* B2: only under one Call-ID.
Compared_Never(slot, cmd) == FALSE
Compared(slot, cmd) == ~slot.writtenHere /\ slot.binding.callId = cmd.callId

\* B2 to B5 and B7 for an operation that found binding k.
Land(view, k, op, cmd, now, granted) ==
    LET slot == view.slots[k]
        stored == slot.binding
        compared == Compared(slot, cmd)
        based == Rebase(view, slot.id, granted)
    IN  CASE compared /\ cmd.cseq < stored.cseq -> [view EXCEPT !.stale = TRUE]
          [] compared /\ cmd.cseq = stored.cseq ->
               IF AlreadyHolds(stored, cmd, granted)
                 THEN based
                 ELSE [based EXCEPT !.pending =
                         @ \cup {[slot |-> slot.id, stored |-> stored, net |-> granted]}]
          [] OTHER ->
               IF granted = 0
                 THEN RemoveBinding(based, k)
                 ELSE ReplaceBinding(based, k,
                        BindingFor(op, cmd, now, granted, stored.registeredAt))

\* One operation of the request, applied to the set the preceding ones left (B6).
ApplyOp(view, op, cmd, now) ==
    LET granted == Granted(cmd, op)
        k == Find(view, op.contact)
    IN  IF view.stale THEN view
        ELSE IF k # 0 THEN Land(view, k, op, cmd, now, granted)
        ELSE IF granted = 0 THEN view
        ELSE InsertBinding(view, BindingFor(op, cmd, now, granted, now))

Reconcile_Backwards(cmd, now, set) ==
    FoldLeft(LAMBDA view, op : ApplyOp(view, op, cmd, now), View(set), Reverse(cmd.ops))
Reconcile(cmd, now, set) ==
    FoldLeft(LAMBDA view, op : ApplyOp(view, op, cmd, now), View(set), cmd.ops)

-----------------------------------------------------------------------------
(* The decision *)

Commit(set, now) == [kind |-> "Commit", status |-> 200, set |-> set, told |-> Active(set, now)]
Noop(told) == [kind |-> "Noop", status |-> 200, told |-> told]
Reject(status) == [kind |-> "Reject", status |-> status]

\* Section 5.4: Contact: *
Wildcard(cmd, now, current) ==
    LET kept == DropExpired(current, now)
    IN  IF cmd.expires # 0 THEN Reject(400)
        ELSE IF \E k \in DOMAIN kept : kept[k].callId = cmd.callId /\ cmd.cseq <= kept[k].cseq
          THEN Reject(500)
        ELSE IF kept = <<>> THEN Noop(<<>>)
        ELSE Commit(<<>>, now)

\* Section 5.5, asked of the reconciled set.
OverQuota_ByOne(set, now) == ActiveCount(set, now) > MaxBindings + 1
OverQuota(set, now) == ActiveCount(set, now) > MaxBindings

Explicit(cmd, now, current) ==
    LET kept == DropExpired(current, now)
        view == Reconcile(cmd, now, kept)
        set == BindingsOf(view)
        unheld == \E d \in view.pending : ~AlreadyHolds(d.stored, cmd, d.net)
        reaped == Len(kept) # Len(current)
    IN  IF view.stale \/ unheld THEN Reject(500)
        ELSE IF OverQuota(set, now) THEN Reject(403)
        ELSE IF view.changed /\ (reaped \/ set # current) THEN Commit(set, now)
        ELSE Noop(Active(set, now))

Process(cmd, now, current) ==
    CASE ~cmd.requireOk -> Reject(420)
      [] cmd.requireOk /\ cmd.path # 0 /\ ~cmd.supportsPath -> Reject(421)
      [] OTHER ->
           IF cmd.wildcard THEN Wildcard(cmd, now, current)
           ELSE IF Len(cmd.ops) > MaxContactOps THEN Reject(403)
           ELSE IF cmd.ops = <<>> THEN Noop(Active(current, now))
           ELSE IF \E k \in DOMAIN cmd.ops : TooBrief(cmd, cmd.ops[k]) THEN Reject(423)
           ELSE Explicit(cmd, now, current)
=============================================================================
