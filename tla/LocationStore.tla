---------------------------- MODULE LocationStore ----------------------------
(***************************************************************************)
(* Several registrations of one address-of-record in progress at once,     *)
(* each running `apply` (crates/sipx-clstr-registrar/src/store.rs) against *)
(* the shared store: read, decide, commit if the revision has not moved,   *)
(* and on a conflict do it again, a bounded number of times.               *)
(*                                                                         *)
(* The store is the PostgreSQL backend                                     *)
(* (crates/sipx-clstr-node/src/postgres_store.rs), whose statements are    *)
(* atomic and may fail, before they took effect or after: `commit` reports *)
(* every failure as a conflict.  It announces a commit on the node's      *)
(* change feed under a lock of its own, after the statement's.  Without    *)
(* the failing actions, and with the two locks one, the same steps are the *)
(* in-memory backend's.  Registrations of other addresses-of-record touch  *)
(* other rows and share nothing with these but the feed.                   *)
(*                                                                         *)
(* The row is the pair (bindings, revision) of AtomicRegistrar, which this *)
(* module implements.                                                      *)
(***************************************************************************)
EXTENDS AtomicRegistrar

CONSTANTS
    Workers,        \* the driver's tasks, each serving one registration at a time
    Nodes,          \* the nodes they run on, each with its change feed
    NodeOf,         \* the node a worker runs on
    Retries,        \* conflicts `apply` absorbs: DEFAULT_CAS_RETRIES
    FeedCapacity,   \* CHANGE_FEED_CAPACITY
    MaxDeliveries   \* bound: REGISTERs delivered, retransmissions included

ASSUME StoreAssumption ==
    /\ Retries \in Nat /\ FeedCapacity \in Nat \ {0} /\ MaxDeliveries \in Nat
    /\ NodeOf \in [Workers -> Nodes]

VARIABLES
    phase,       \* where each worker is in `apply`
    task,        \* the REGISTER it serves: command, instant admitted, and (history)
                 \* which delivery it is and the revision current at its admission
    seen,        \* the revision it read
    plan,        \* the set it read and what it decided on it
    conflicts,   \* the conflicts it absorbed
    reply,       \* what it answered last
    feed,        \* the change feed each node keeps
    deliveries,  \* how many REGISTERs were delivered
    writes       \* history: who installed each revision, and what

storeVars == <<registrarVars, phase, task, seen, plan, conflicts, reply, feed,
               deliveries, writes>>

\* Applied: what was decided and the revision learned, Absent when none was.
Applied(outcome, rev) == [outcome |-> outcome, revision |-> rev]
Unavailable == Reject(503)
Unanswered == Applied(Undecided, Absent)
NoTask == [cmd |-> Undecided, now |-> 0, delivery |-> 0, from |-> 0]
NoPlan == [held |-> <<>>, outcome |-> Undecided]

InitStore ==
    /\ InitRegistrar
    /\ phase = [w \in Workers |-> "idle"]
    /\ task = [w \in Workers |-> NoTask]
    /\ seen = [w \in Workers |-> 0]
    /\ plan = [w \in Workers |-> NoPlan]
    /\ conflicts = [w \in Workers |-> 0]
    /\ reply = [w \in Workers |-> Unanswered]
    /\ feed = [h \in Nodes |-> <<>>]
    /\ deliveries = 0
    /\ writes = <<>>

-----------------------------------------------------------------------------
(* apply *)

\* The driver admits a REGISTER, perhaps a retransmission, and stamps it.
Admit(w, cmd) ==
    /\ phase[w] = "idle"
    /\ deliveries < MaxDeliveries
    /\ deliveries' = deliveries + 1
    /\ phase' = [phase EXCEPT ![w] = "reading"]
    /\ task' = [task EXCEPT ![w] = [cmd |-> cmd, now |-> clock, delivery |-> deliveries + 1,
                                       from |-> revision]]
    /\ conflicts' = [conflicts EXCEPT ![w] = 0]
    /\ reply' = [reply EXCEPT ![w] = Unanswered]
    /\ UNCHANGED <<registrarVars, seen, plan, feed, writes>>

Return(w, applied) ==
    /\ phase' = [phase EXCEPT ![w] = "idle"]
    /\ reply' = [reply EXCEPT ![w] = applied]

\* The authoritative read and the decision on what it found.  A Noop or a Reject
\* writes nothing, so it is final.
ReadStore(w) ==
    /\ phase[w] = "reading"
    /\ seen' = [seen EXCEPT ![w] = revision]
    /\ LET outcome == Process(task[w].cmd, task[w].now, bindings)
       IN  /\ plan' = [plan EXCEPT ![w] = [held |-> bindings, outcome |-> outcome]]
           /\ \/ /\ outcome.kind = "Commit"
                 /\ phase' = [phase EXCEPT ![w] = "committing"]
                 /\ UNCHANGED <<last, reply>>
              \/ /\ outcome.kind # "Commit"
                 /\ Return(w, Applied(outcome, revision))
                 /\ last' = Decided(task[w].cmd, task[w].now, outcome)
    /\ UNCHANGED <<bindings, revision, clock, task, conflicts, feed, deliveries, writes>>

\* K7: a store that cannot be read is not an empty store.
ReadFails_AsEmpty(w) ==
    /\ phase[w] = "reading"
    /\ LET outcome == Process(task[w].cmd, task[w].now, <<>>)
       IN  outcome.kind # "Commit" /\ Return(w, Applied(outcome, 0))
    /\ UNCHANGED <<registrarVars, task, seen, plan, conflicts, feed, deliveries, writes>>
ReadFails(w) ==
    /\ phase[w] = "reading"
    /\ Return(w, Applied(Unavailable, Absent))
    /\ UNCHANGED <<registrarVars, task, seen, plan, conflicts, feed, deliveries, writes>>

\* A conflict against `current` was reported: once more, unless retries ran out.
Conflict(w, current) ==
    /\ conflicts' = [conflicts EXCEPT ![w] = @ + 1]
    /\ \/ /\ conflicts[w] + 1 > Retries
          /\ Return(w, Applied(Unavailable, current))
       \/ /\ conflicts[w] + 1 <= Retries
          /\ phase' = [phase EXCEPT ![w] = "reading"]
          /\ UNCHANGED reply

\* The predicated INSERT or UPDATE: it takes effect iff the revision is the one read.
InstallPlan_Blind(w) ==
    /\ phase[w] = "committing"
    /\ Install(plan[w].outcome.set)
    /\ last' = Decided(task[w].cmd, task[w].now, plan[w].outcome)
    /\ writes' = Append(writes, [delivery |-> task[w].delivery, node |-> NodeOf[w],
                                 cmd |-> task[w].cmd, set |-> plan[w].outcome.set])
InstallPlan(w) ==
    /\ phase[w] = "committing"
    /\ revision = seen[w]
    /\ Install(plan[w].outcome.set)
    /\ last' = Decided(task[w].cmd, task[w].now, plan[w].outcome)
    /\ writes' = Append(writes, [delivery |-> task[w].delivery, node |-> NodeOf[w],
                                 cmd |-> task[w].cmd, set |-> plan[w].outcome.set])

\* The feed keeps the newest FeedCapacity changes.
Published_Untrimmed(changes, rev) == Append(changes, rev)
Published(changes, rev) ==
    LET grown == Append(changes, rev)
    IN  IF Len(grown) > FeedCapacity THEN Tail(grown) ELSE grown

CommitSucceeds(w) ==
    /\ InstallPlan(w)
    /\ phase' = [phase EXCEPT ![w] = "publishing"]
    /\ UNCHANGED <<clock, task, seen, plan, conflicts, reply, feed, deliveries>>

\* The statement's lock was released before the feed's is taken.
Publish(w) ==
    /\ phase[w] = "publishing"
    /\ feed' = [feed EXCEPT ![NodeOf[w]] = Published(@, seen[w] + 1)]
    /\ Return(w, Applied(plan[w].outcome, seen[w] + 1))
    /\ UNCHANGED <<registrarVars, task, seen, plan, conflicts, deliveries, writes>>

\* The statement took effect and its acknowledgement was lost.
CommitUnacknowledged(w) ==
    /\ InstallPlan(w)
    /\ Conflict(w, seen[w])
    /\ UNCHANGED <<clock, task, seen, plan, feed, deliveries>>

\* The statement never took effect.
CommitFails(w) ==
    /\ phase[w] = "committing"
    /\ Conflict(w, seen[w])
    /\ UNCHANGED <<registrarVars, task, seen, plan, feed, deliveries, writes>>

\* No row was affected; the store then reads the current revision to report it.
CommitRefused(w) ==
    /\ phase[w] = "committing"
    /\ revision # seen[w]
    /\ phase' = [phase EXCEPT ![w] = "refused"]
    /\ UNCHANGED <<registrarVars, task, seen, plan, conflicts, reply, feed, deliveries, writes>>

ReportConflict(w) ==
    /\ phase[w] = "refused"
    /\ \/ Conflict(w, revision)
       \/ Conflict(w, seen[w])   \* this read failed too
    /\ UNCHANGED <<registrarVars, task, seen, plan, feed, deliveries, writes>>

Step(w) ==
    \/ ReadStore(w)
    \/ ReadFails(w)
    \/ CommitSucceeds(w)
    \/ Publish(w)
    \/ CommitUnacknowledged(w)
    \/ CommitFails(w)
    \/ CommitRefused(w)
    \/ ReportConflict(w)

TickStore ==
    Tick /\ UNCHANGED <<phase, task, seen, plan, conflicts, reply, feed, deliveries, writes>>

\* Every delivery was answered and no more come.
AllServed ==
    /\ deliveries = MaxDeliveries
    /\ \A w \in Workers : phase[w] = "idle"
    /\ UNCHANGED storeVars

NextStore ==
    \/ \E w \in Workers, cmd \in Commands : Admit(w, cmd)
    \/ \E w \in Workers : Step(w)
    \/ TickStore
    \/ AllServed

SpecStore == InitStore /\ [][NextStore]_storeVars

-----------------------------------------------------------------------------
(* Properties *)

\* The shapes of the bookkeeping; every revision has a writer.
TypeOKStore ==
    /\ revision \in Nat /\ clock \in Nat /\ deliveries \in Nat
    /\ phase \in [Workers -> {"idle", "reading", "committing", "refused", "publishing"}]
    /\ seen \in [Workers -> Nat]
    /\ conflicts \in [Workers -> 0..(Retries + 1)]
    /\ DOMAIN task = Workers /\ DOMAIN plan = Workers /\ DOMAIN reply = Workers
    /\ \A w \in Workers : phase[w] # "idle" =>
          task[w].cmd \in Commands /\ task[w].now \in 0..clock
    /\ feed \in [Nodes -> Seq(Nat)]

\* `apply` is a bounded loop: a worker still in it has absorbed no more conflicts than
\* it has retries.
RetriesAreBounded == \A w \in Workers : phase[w] # "idle" => conflicts[w] <= Retries

\* K1, K3 and K6, the fence: a revision names one set.  While a worker holds a revision
\* nobody has superseded, the set it decided on is the committed one, however many
\* other workers read, wrote, failed and retried meanwhile.
RevisionFences ==
    \A w \in Workers : phase[w] = "committing" =>
      /\ seen[w] <= revision
      /\ seen[w] = revision => plan[w].held = bindings
      /\ plan[w].outcome = Process(task[w].cmd, task[w].now, plan[w].held)
      /\ plan[w].outcome.kind = "Commit"

\* K1, K2 and K6: the workers together behave as one registrar that applies commands
\* one at a time; no update is lost and none is decided on a set that was replaced.
ActsAsOneRegistrar == SpecRegistrar

\* The inductive invariant behind ActsAsOneRegistrar.
StoreInv == TypeOKStore /\ RetriesAreBounded /\ RevisionFences

\* The set a revision stood for.
SetAt(rev) == IF rev = 0 THEN <<>> ELSE writes[rev].set

\* K7 and sections 5.1, 5.6: a 200 is the truth.  If it reports a commit, the revision
\* it reports is the one this delivery installed; if it reports none, it was decided
\* on a set that was the committed one at some instant of this delivery, never on one
\* nobody read.
AcceptanceIsTrue ==
    \A w \in Workers :
      LET answer == reply[w].outcome
      IN  /\ answer.kind = "Commit" =>
                /\ writes[reply[w].revision].delivery = task[w].delivery
                /\ SetAt(reply[w].revision) = answer.set
          /\ answer.kind = "Noop" =>
                /\ reply[w].revision \in task[w].from..revision
                /\ answer = Process(task[w].cmd, task[w].now, SetAt(reply[w].revision))

\* K4: a node's feed announces only revisions its own workers installed, none of them
\* twice, and keeps no more than its capacity.
FeedIsTrue ==
    \A h \in Nodes :
      /\ Len(feed[h]) <= FeedCapacity
      /\ \A k \in DOMAIN feed[h] : feed[h][k] \in DOMAIN writes /\ writes[feed[h][k]].node = h
      /\ \A j, k \in DOMAIN feed[h] : feed[h][j] = feed[h][k] => j = k

\* store.rs on what `changes` returns: "every change committed so far, oldest first".
FeedIsOldestFirst ==
    \A h \in Nodes : \A j, k \in DOMAIN feed[h] : j < k => feed[h][j] < feed[h][k]

\* store.rs on the retry loop: "a re-presented command a no-op rather than a second
\* write".
LoopWritesOnce ==
    \A j, k \in DOMAIN writes : j # k => writes[j].delivery # writes[k].delivery

\* postgres_store.rs on a commit that failed: "when the retries run out S10 answers
\* 503, which is the truth".
RefusalWroteNothing ==
    \A w \in Workers : phase[w] = "idle" /\ reply[w].outcome = Unavailable =>
      \A k \in DOMAIN writes : writes[k].delivery # task[w].delivery
=============================================================================
