--------------------------- MODULE AtomicRegistrar ---------------------------
(***************************************************************************)
(* What the location service promises for one address-of-record            *)
(* (docs/specs/location-service.md section 6, K1 to K3, and section 5.3):  *)
(* REGISTERs take effect one at a time, each decided on the set the one    *)
(* before it left.  LocationStore implements this with several nodes that  *)
(* share a store.                                                          *)
(***************************************************************************)
EXTENDS Registrar

CONSTANTS
    MaxClock,      \* bound: the last instant of a behaviour
    MaxRevision    \* bound: how many commits a behaviour makes

ASSUME BoundsAssumption == MaxClock \in Nat /\ MaxRevision \in Nat

VARIABLES
    bindings,   \* the committed set
    revision,   \* its revision: how many commits there have been
    clock,      \* the present instant
    last        \* the last command decided: when it was admitted and its outcome

registrarVars == <<bindings, revision, clock, last>>

Undecided == [kind |-> "none"]
Decided(cmd, now, outcome) ==
    [kind |-> outcome.kind, cmd |-> cmd, now |-> now, outcome |-> outcome]

InitRegistrar ==
    /\ bindings = <<>>
    /\ revision = 0
    /\ clock = 0
    /\ last = Undecided

\* The set is replaced whole and the revision moves by one (K1, K2).
Install_SameRevision(set) ==
    /\ bindings' = set
    /\ UNCHANGED revision
Install(set) ==
    /\ revision < MaxRevision
    /\ bindings' = set
    /\ revision' = revision + 1

\* A command admitted at `now` is decided on the committed set.
Register(cmd, now) ==
    LET outcome == Process(cmd, now, bindings)
    IN  /\ \/ outcome.kind = "Commit" /\ Install(outcome.set)
           \/ outcome.kind # "Commit" /\ UNCHANGED <<bindings, revision>>
        /\ last' = Decided(cmd, now, outcome)
        /\ UNCHANGED clock

Tick ==
    /\ clock < MaxClock
    /\ clock' = clock + 1
    /\ UNCHANGED <<bindings, revision, last>>

NextRegistrar ==
    \/ \E cmd \in Commands, now \in 0..clock : Register(cmd, now)
    \/ Tick

SpecRegistrar == InitRegistrar /\ [][NextRegistrar]_registrarVars

-----------------------------------------------------------------------------
(* Properties *)

\* Section 5.5: however operations collapse, are taken back or reap what expired, the
\* address-of-record never holds more active bindings than its tenant permits.
QuotaHolds == ActiveCount(bindings, clock) <= MaxBindings

\* The command just accepted, re-presented at any later instant before a binding
\* expires, is accepted again and writes nothing.
RetransmissionIsNoop ==
    /\ last.kind \in {"Commit", "Noop"}
    /\ \A k \in DOMAIN bindings : IsActive(bindings[k], clock)
    => Process(last.cmd, clock, bindings).kind = "Noop"

\* URI comparison is no equivalence: x;line=1 and x;line=2 both equal x.
Ambiguous(contact) ==
    \E c, d \in Contacts :
        Equivalent(contact, c) /\ Equivalent(c, d) /\ ~Equivalent(contact, d)
Distinguishable(contact) ==
    \A c \in Contacts : Equivalent(contact, c) => ~Ambiguous(c)

\* B4 and B7 to B9: idempotence where every contact the request names can be told apart from
\* all others.  Otherwise an operation may match another binding than its first delivery did
\* (a removal of x takes x;line=1 away, and x;line=2 when it is delivered again), and B4.3
\* promises nothing about a contact that matches none.
RetransmissionWritesNothing ==
    /\ last.kind # "none"
    /\ \A k \in DOMAIN last.cmd.ops : Distinguishable(last.cmd.ops[k].contact)
    => RetransmissionIsNoop

\* The last operation of an accepted REGISTER is in force: a contact it registered is
\* held, by a binding that names it.
LastWordHolds ==
    last.kind \in {"Commit", "Noop"} /\ last.cmd.ops # <<>> /\ ~last.cmd.wildcard =>
      LET op == last.cmd.ops[Len(last.cmd.ops)]
      IN  Granted(last.cmd, op) > 0 =>
            \E k \in DOMAIN bindings :
              /\ Equivalent(bindings[k].contact, op.contact)
              /\ IsActive(bindings[k], last.now)

\* B3 to B5: a binding that survives a step under its Call-ID never goes back to an
\* older CSeq, whatever the order in which the user agent's REGISTERs arrive.  Not where the
\* comparison is ambiguous: there a late REGISTER may meet the binding of another user agent
\* first, and turn it into a second binding of its own contact with the older CSeq.
OrderingTokenAdvances ==
    [][\A j \in DOMAIN bindings, k \in DOMAIN bindings' :
         /\ bindings[j].contact = bindings'[k].contact
         /\ bindings[j].callId = bindings'[k].callId
         /\ IsActive(bindings[j], last'.now)
         => \/ bindings'[k].cseq >= bindings[j].cseq
            \/ Ambiguous(bindings[j].contact)]_<<bindings, revision>>

\* command.rs answers with the first binding's Path, because "Every binding of one AoR
\* carries the same Path".
OnePathPerAor ==
    \A j, k \in DOMAIN bindings :
      IsActive(bindings[j], clock) /\ IsActive(bindings[k], clock) =>
        bindings[j].path = bindings[k].path
=============================================================================
