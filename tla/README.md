# Formal models of sipx-clstr

TLA+ modules, TLC configurations and TLAPS proofs about sipx-clstr, a clustered
SIP proxy and registrar written in Rust. Paths below are relative to the root of
the repository; `proxy/`, `registrar/` and `node/` stand for
`crates/sipx-clstr-proxy/src/` and so on.

## The system

sipx-clstr separates decisions from I/O. The engines (the proxy's response
context, the registrar's decision, the probe) are deterministic state machines
or pure functions: they take one input and return effects. A driver, which is
either the node (`node/driver.rs`) or the simulator, performs the effects and
feeds what comes back. The SIP transaction layer is the external `sipx` kernel.
Registrations live in a location store shared by the nodes; every node runs the
same versioned configuration document, with its affinity keys.

| Component | State | Operations | Talks to | What is hard |
|---|---|---|---|---|
| Response context, `proxy/context.rs` | branches and their states, queued targets, collected finals, answered and finished flags, the open question | one per input: request, verdict, targets, branch response, transport error, CANCEL, Timer C | driver, by effects | order of finals, CANCEL racing everything, five ways for a branch to end |
| Validation, routing, forwarding, `proxy/validate.rs`, `route.rs`, `forward.rs`, `ack.rs`, `cookie.rs` | none | V1-V6, P1-P3, T1-T3, F1-F10, the ACK decision, the loop cookie | called by the context | strict routers, spirals against loops, the double Record-Route, boundary values |
| Registrar decision, `registrar/process.rs`, `binding.rs`, `command.rs` | none (a binding set in, an outcome out) | `process` | `apply` | reordered and repeated commands, several operations on one contact in one request, quota |
| Location store, `registrar/store.rs`, `node/postgres_store.rs` | per address-of-record a binding set and a revision; a change feed per node | `read`, `commit`, `lookup`, `changes`; the loop `apply` | driver, database | lost updates, failed statements, lost acknowledgements |
| Lookup, `registrar/lookup.rs`, `proxy/from_registrar.rs` | none | `order_targets`, `targets_from_lookup` | driver | agreement with what a REGISTER was told, duplicates |
| Admission and authentication, `registrar/policy.rs`, `parse.rs`, `auth.rs` | nonce secret, the kernel's replay window | `admit` | driver, kernel | parsing |
| Node driver, `node/driver.rs` | one task per transaction, admission permits, streams of branch events | accept, dispatch, `register`, `proxy_request`, `perform`, `watch` | kernel, engines, store | concurrent branch readers, nested inputs, permits, failed sends |
| Affinity tokens, `crates/sipx-clstr-affinity` | key set | mint, seal, verify, rotate | proxy, driver | rotation over a cluster, skewed clocks |
| Configuration, `node/config/mod.rs`, `node/startup.rs` | the document a node runs | load, project, reload, start | operator | rules between two documents, a fleet on two versions |
| Listeners, blocking store adapter, `node/listen.rs`, `blocking_store.rs` | sockets | bind, forward a call | | |
| Probe, `crates/sipx-clstr-probe` | step, obligations, verdict; schedule | start, response, timeout, cleanup; `take_due` | driver, echo | late answers, cleaning up, the rate bound |
| Simulator, `crates/sipx-clstr-sim` | event queue, timers, links, connections, faults | schedule, deliver, fault | engines | order of events at one instant, broken and replaced connections |

What makes each component correct, in a sentence: the response context answers
every accepted request once with the best of what its branches said, relays
every success, and starts nothing after the request is decided or withdrawn;
a request within a dialog takes the recorded route to the other end; the
registrar applies the commands of one user agent in their order whatever order
they arrive in, and never exceeds the quota; a call goes to what the registrar
confirmed, once each; the store makes concurrent registrations behave as if they
came one at a time, and never reports what did not happen; the driver reads every
branch until its context is over and gives every permit back; a token that is
alive verifies on every node, and nothing else does; documents take effect node
by node without two nodes ever disagreeing about a key or an id; a probe decides
once, truthfully, and undoes what it did; the simulator delivers in order and
never over a connection that is gone.

`PROJECT.json` lists the components with the files they consist of, and the
hazards: the places where this code could go wrong in ways a test hardly
reaches, each with the properties that would notice.

## The modules

```
ResponseContext             the proxy engine, under any inputs
  ResponseContext_proofs    theorems about it
  ProxyTransaction          the engine, the driver it was designed for, transactions, the caller
    ProxyTransaction_proofs theorems about it
  NodeDriver                the engine inside the driver of the node
    NodeDriver_proofs       theorems about it
DialogRouting               requests through a chain of proxies: route sets, loops, ACK
  DialogRouting_proofs      theorems about it
Registrar                   the registrar's decision, operators only
  AtomicRegistrar           the abstract service: one command at a time
    Lookup                  what a caller is sent to
    LocationStore           the compare-and-swap loop on several workers
  Registrar_proofs          theorems about the registrar, the lookup and the store
AffinityToken               tokens and key sets, operators only
  KeyRotation               a cluster that replaces its key
    KeyRotation_proofs      theorems about it
ClusterDocument             documents and the rules about them, operators only
  ConfigReload              a fleet that takes one document after another
ProbeContract               what a probe run promises
ProbeEngine                 the run, its platform and network; implements ProbeContract
ProbeSchedule               when runs start, and the registration of the echo
  Probe_proofs              theorems about both
Simulator                   the event loop, links and faults
  Fleet_proofs              theorems about ConfigReload, and about Simulator
MC...                       instances for TLC; one .cfg per run
```

A definition with a suffix, such as `Share_Undivided` before `Share`, is a
variant with a plausible mistake. Nothing uses it: it records which mistake a
property is able to notice, and `PROJECT.json` names the pair.

### ResponseContext

One action per input of `ResponseContext::on_input`. The variables are the fields
of the struct, plus `effects` (what the last call returned), `asked` (the question
the driver still owes an answer) and `verdict`, a history: whether the request carried a
token, and what the driver found of it (`Carries` records the first whatever the engine then
does, so that an engine that forgets to ask is noticed). A request
is reduced to the facts the engine branches on: whether each of the checks V1-V6
passes, the two numeric headers with the width their Rust types have, and its
Route set as a sequence of four kinds of entry. A target has a `q` value and
whether `forward` can build a copy for it. A branch's identifier is a keyed hash of
the request and an index; the model keeps the index. One handler is one step,
with everything it calls: `OnBranchResponse` includes the next fork group, the
selection of the best final and the end of the context. Where the code inspects
branches by identifier, the model does so too, so that two branches with the same
identifier behave as they do in the code.

### ProxyTransaction

The engine and its surroundings. Every input is fed with all effects of the
previous one performed, which is what the proxy specification requires and what
the simulator's harness does. Each forwarded branch has a client transaction that
reports provisionals, a final, any number of further 2xx to an INVITE, a
timeout (which the node feeds as a 408) or a transport failure. Timer C is armed
by `SetTimer` and may fire at any time, before or after the branch ended. The
caller may CANCEL once. A client transaction counts the CANCELs it was sent, and goes
on after Timer C gave its branch up as a 408 (`GivenUp`). `upstream` and `heard` are
histories: the finals sent to the caller, and what each branch ended with.

### NodeDriver

The driver the node really runs, around the same engine. `Accept` is the accept loop with
`AdmissionBound::admit`; `Arrive` the kernel's bounded channel. One arrival, `Focal`, is
served in full by `proxy_request`: `perform` is a stack of effects (`todo`), because an effect
may feed the engine and perform what that returns before the rest of the outer call is
done. Forwarded branches are watched after a round (`readers` is the `JoinSet`),
and each stream yields provisionals, a final and its end. The other arrivals compete for
the channel and the permits. Differences from ProxyTransaction, all read off the source:
`CancelBranch` and timers are discarded, a token is always answered with "invalid", a
hop without an address is a transport error fed while other effects wait, a failing
send leaves the loop by `?`, and nothing ever feeds a CANCEL. The model keeps them as
they are, and the properties are those that survive them.

### DialogRouting

An INVITE travels from a caller over edges of the platform and foreign routers, loose or
strict, to a registered contact; both ends learn a route set; then the ACK and a BYE
from either end travel along it. An edge has no state, so it is a chain of operators:
`Valid` (V3, V4), preprocessing (P1, P2), targets, the forwarded copy
(F2 to F8) and the ACK decision. `Scenes` are the deployments: where the
registration leads, which routers record themselves, whether tokens are minted, whether
a device shares an edge's host. The loop cookie is the tuple of fields the code hashes.
`ElementsAssumption` says that no element plays two parts, and `ScenesAssumption` what a scene
is: subscribers and devices have addresses that no Route entry looks like, routers are named
as their kind is, and the caller sends to its first Route. TLC evaluates both on every run.

### Registrar and AtomicRegistrar

`Process` is `process`: extension checks, wildcard, number of operations, lifetimes,
then the reconciliation of each operation with the set the preceding ones
left, as a fold. `View` is `Reconciling`: slots with a stable name, whether this
request wrote them, and the decisions deferred to the end. Contact equivalence is
a constant relation and need not be transitive, since URI comparison is
not; `Ambiguous` and `Distinguishable` say which contacts that makes a difference for: a removal of a bare
spelling takes one of two bindings away, and its retransmission the other. Insertion uses a binary search as `partition_point` does, so that its result
on a set that is not in order is what the code finds. Filtering and sorting are told by
counting (`Listing`: an element stands behind as many as precede it).

`AtomicRegistrar` applies commands one at a time to one address-of-record. A
command is decided at a time no earlier than the one it was stamped with. It is
both the state machine the registrar's properties are checked on and the
specification the store implements.

### LocationStore

Several workers, each a task of some node serving one REGISTER, run `apply`. Reading,
committing, reading the revision after a refusal and announcing on the change
feed are separate steps. The commit is the PostgreSQL statement: atomic, predicated
on the revision, and allowed to fail before it took effect or after (lost
acknowledgement); the backend reports both as a conflict. `writes` is a
history of who installed each revision. The in-memory backend is the same without the
failing actions and with commit and announcement in one step.

Its refinement of `AtomicRegistrar` is the identity on the row: a commit is the
abstract step when the statement takes effect, whether or not the
acknowledgement arrives, and a command that writes nothing takes effect where
it reads.

### Lookup

`order_targets` and `targets_from_lookup` as operators on the state of AtomicRegistrar, so
that the properties speak of a lookup at any moment of any history of REGISTERs rather
than of hand-made sets.

### AffinityToken and KeyRotation

Cryptography is symbolic: a tag is the record of what was sealed, by which secret. Layout
matters where the code compares lengths. `KeyRotation` adds nodes with clocks of their own,
an operator who publishes key sets in the order the module documentation asks for, reloads
that reach one node at a time, and minting and presenting at any instant. `OldSets` are the
key sets a deployment starts from, with windows that touch and ids that are reused.

### ClusterDocument and ConfigReload

A document is a record of the sections some rule reads. `Loads`, `Projected`,
`Reloads` and `Starts` are `load`, `project`, `reload` and the start of a node
(`from_document`, `node_config`); each check of the loader is a named conjunct. A listener's
bind and advertised address are one datum, absent when either cannot be used. `ConfigReload` is a fleet: the operator, who is
outside the sources, publishes one edit, waits until every node runs it, rolls back
what a node refuses and stages restarts. `reload` has no caller in the running node yet;
the model shows what its rules would achieve.

### ProbeContract, ProbeEngine and ProbeSchedule

`ProbeContract` is the abstract specification: one verdict, obligations that only go once it
stands, an end with none left. `ProbeEngine` refines it, with the mapping `verdict <-
run.decided, owed <- run.owes, over <- run.finished`. An input is an operator from engine state
to engine state and effects, as in the code. The platform answers each request once in any of
its ways; the network keeps every answer for ever, so that each may be lost, late or
repeated. `ProbeSchedule` is `take_due` with its window of recent starts, and the refresh of
the echo.

### Simulator

`AtTop` and the actions below it are `run_until`: which of timers, events and faults comes
next, what is stale when it is popped, and what each fault does to connections, held
writes and timers. The simulated nodes do anything; random draws are choices. A schedule of faults is
given as the queue holds it, by instant and as queued among equals (`ScheduleAssumption`). A write is
known by its number, so what is held for a reader is a set and is released in the order of the numbers.

## The runs

| Run | Question | Bounds |
|---|---|---|
| `proxy_fork` | selection, cancellation, timers and the caller's view | one parallel pair, or one first and a pair behind (given out of order); seven codes covering every class of the selection, a 500 beside the 503 that is told as one |
| `proxy_progress` | validation, routes, breadth, tokens; every request answered if far ends answer a CANCEL, no branch pending for ever | requests that differ in one check at a time, Route sets up to three entries, Max-Breadth around the size of a group and above `u32` (scaled); no target, a pair, or two groups |
| `driver` | the node's driver: permits, readers, nested inputs, REGISTERs under load | one proxied request with up to two branches, two other arrivals, one permit |
| `driver_chosen_final` | the finals of a transaction are those its branches gave (refuted) | one pair that answers 504 |
| `dialog` | in-dialog routing, loops, tokens | two edges, one loose and one strict router, an INVITE and requests from both sides |
| `registrar` | retransmission, reordering, quota, and the lookup | six contacts, two pairs of spellings and one that names two contacts that differ; quota 2; three instants, two commits |
| `store` | concurrency and failures of the store | two workers on one node, three REGISTERs, one retry, feed of two |
| `key_rotation` | tokens during a rotation | two nodes, clocks up to the allowance apart, key sets of up to two keys, clocks of eleven seconds |
| `config` | documents over a fleet | two nodes, about forty edits, five versions, a fleet started on a wide or a narrow minting window |
| `probe` | verdict, cleanup, end | one run; the network's answers are unbounded in number and order |
| `probe_schedule` | rate bound, starvation, the echo | three targets, two starts per six units, an even lifetime (as the 3600 s of the default are), fourteen units |
| `simulator` | connections and streams | two nodes, every schedule of two faults, two messages, one timer |

The bounds are the smallest in which the interesting cases meet. A fork needs two
branches to compare finals and a second group to see whether it is started, stopped
or forgotten; a third parallel branch adds orders but no new relation, since each
property relates at most two branches. Three REGISTERs are the fewest in which a
delivery is interrupted by another between its lost acknowledgement and its
retry while a third is queued; more retries repeat the same loop. Three operations
on one contact, spread over a request and its successor, are the fewest for which the
deferred decisions of reconciliation matter. One permit and two competitors show
both a refused arrival and an exempt one. Two edges and two routers give every pair of
neighbours a route set can have. A rotation involves two keys and two nodes, one that
reloaded and one that did not; the clock covers the life of a token on both sides of the
retirement of its key. A chain of five documents is long enough to remove an id or a key and
bring it back, with a rollback between. Two faults at one instant or at successive ones
are what the order of events is about. Every bound on a counter (`MaxClock`,
`MaxRevision`, `MaxDeliveries`, `MaxProvisionals`, `MaxHeard`, `MaxMints`, `MaxNow`,
`MaxVersion`, `MaxTime`, `MaxDeferred`, `MaxSends`, `MaxTimers`) is a guard of one action.

`CHECK_DEADLOCK` is left on in every run: where a system may rightly stop
(a finished request, all REGISTERs served, a probe that is over) an explicit stuttering
action says so.

### Where the code and its documents differ

`driver_chosen_final` is a run: the end of a stream comes as an event of its own after the
final of its branch, `proxy_request` feeds it as a transport error, the engine records
a 503 beside the final, and a caller whose branches both answered 504 is told 500.

Further configurations are kept beside the runs. Each checks one statement of a
document, comment or test that the code does not keep, and is refuted by TLC in seconds.
Some hold several such statements over the same instance, and TLC stops at the first it
refutes: in the three named `...Refuted` the others are commented out, in `MCConfigRestart`
and `MCConfigKeyMaterial` take out the one that is refuted to see the next.

| Configuration | Statement | What happens |
|---|---|---|
| `MCProxyRefuted`, `WithdrawnNeverLaunches` | a withdrawn request starts no new target (`proxy/context.rs:692`, proxy-behavior C7) | it does, when the CANCEL comes while targets are being resolved |
| `MCProxyRefuted`, `NothingStranded` | a target without a forwardable copy is one that failed (`proxy/context.rs:303`) | when a whole group is like that, lower groups are never tried and nobody is answered |
| `MCProxyRefuted`, `BranchIdsUnique` | branch identifiers are unique (proxy-behavior PB-F-2) | after such a target an index is used twice |
| `MCProxyRefuted`, `CancelAfterProvisional` | no CANCEL before a provisional (`proxy/context.rs:36`) | a 2xx or 6xx cancels branches that were never heard |
| `MCProxyRefuted`, `EverySuccessRelayed` | a 2xx is forwarded always (`proxy/context.rs:386`) | one that arrives on a finished context is not |
| `MCProxyRefuted`, `LiveBreadthIsConserved` | the copies in flight together carry no more than the Max-Breadth that arrived (proxy-behavior section 6, PB-V-8) | a branch Timer C gives up as a 408 is sent no CANCEL (C6): its transaction goes on while the next group launches with the full breadth |
| `MCProxyRefuted`, `EveryCallerIsTold` | every request is answered, whatever far ends do | when Timer C cancels a branch and its far end stays silent, no timer of the engine ends the wait (`proxy/context.rs:511`) |
| `MCProxyRefuted`, `EveryBranchConcludes` | every launched branch concludes | the same branch stays Cancelling |
| `MCNodePermit` | a task lives at most as long as its timers (`node/driver.rs:257`) | a branch that sends provisionals and no final keeps the permit, since no Timer C runs |
| `MCDialogDirection` | the governing token names the presenting side (affinity-token S9) | not when a strict router hands the request to the edge: P1 consumes one entry of the pair, and the other governs |
| `MCRegistrarPath` | all bindings of one address share a Path (`registrar/command.rs:244`) | two user agents may register through different ones |
| `MCLookupUnordered` | no pair of targets is left unordered (`registrar/lookup.rs:36`) | URI comparison is not transitive, and refreshes under two spellings leave the same contact stored twice: it is forked to twice and counted twice |
| `MCStoreLoop` | the loop writes once (`registrar/store.rs:132`) | twice, when an acknowledgement is lost and someone writes in between |
| `MCStoreRefusal` | a 503 means not written (`node/postgres_store.rs:271`) | the last attempt may have been |
| `MCStoreFeed` | changes come oldest first (`registrar/store.rs:102`) | two workers commit and announce under different locks; `FeedIsTrue` states what does hold |
| `MCKeyRotationSkew` | a new key may be used once every node holds it (affinity-token.md:287) | not unless its window opens earlier by the skew |
| `MCConfigKeyMaterial`, `PeersHoldTheMaterial` | tokens in circulation verify over a change (cluster-config RL12) | `reload` accepts new material under an old id, and the fleet disagrees until it is through |
| `MCConfigKeyMaterial`, `EveryFleetConverges` | a document declaring more than one tenant is refused (`node/startup.rs:245`), and a rollback brings a fleet back | the refusal comes only at start: `reload` takes such a document, also with authentication the build cannot serve, and once it is the confirmed one a node that restarts stays down; and a document whose minting window is too short starts a fleet that can never be brought back to it |
| `MCConfigRestart`, `PeersHoldTheMint`, `IdsAgree` | peers hold the key a node mints under, and ids keep their names (cluster-config RL10, I3) | not when a node may restart on any published document (`AnyRestart = TRUE`): a start compares a document with none before it |
| `MCProbeRefuted`, `RegistrationIsRemoved` | the registration is removed at the end (e2e-probe S4) | not when the platform accepts it after the run gave up on it |
| `MCProbeRefuted`, `OneBye` | one attempt at the BYE (e2e-probe S7) | two when the run is interrupted while its BYE is out |
| `MCProbeEchoLapse` | a lost REGISTER does not lapse the echo (`probe/echo.rs:188`) | it does for the instant of the next refresh when the lifetime is even, as the default is; `LapseEndsWithRefresh` states what holds |
| `MCSimRefuted`, `RestartForgetsTimers` | timers of a run that ended never fire (`sim/sim.rs`, restart) | those of the instant already taken do |
| `MCSimRefuted`, `ClearedTimerIsSilent` | a cleared timer is discarded (`sim/sim.rs`, run_until) | not when it was taken in the same instant |

One more difference is not worth a configuration: affinity-token.md answers a missing
token with 403 where `proxy/route.rs:92` routes such a request unverified.

## Fairness

Safety properties are checked without fairness. `FairSpec` of ProxyTransaction
assumes that the driver answers the engine's questions (verification and lookup
both return, if with an error) and that the kernel's transaction timers and Timer C
expire. Nothing is assumed about far ends, provisionals or the caller. A branch in state
Cancelling has no timer in the engine, so what depends on it is stated as such:
`EveryRequestAnswered` has an antecedent, `FarEndsAnswerCancel`, and `EveryBranchSettles`
is about pending branches only. Without the antecedent, and up to the end of a cancelled
branch, both are refuted (`EveryCallerIsTold`, `EveryBranchConcludes`).

`FairNode` of NodeDriver assumes that tasks and the accept loop are scheduled, that the
kernel's transaction timers fire, and that it closes the stream of a transaction that is over;
nothing about far ends, callers or permits, and `RegisterIsServed` holds under that alone.
The probe assumes that armed timers fire, and nothing of the network or platform. The
fleet of `ConfigReload` assumes that nodes reload, that due restarts come and that
the operator rolls back, and nothing of publishing. That a node only restarts on a vetted document is the
operator's duty; `MCConfigRestart.cfg` sets `AnyRestart` and shows what happens without it.
`FleetConverges` has an antecedent of its own: the document the fleet last agreed on is one it
can be brought back to (`Restorable`: every node starts on it, and its minting window is as wide
as a reload asks). Edits that break it are among those of the run, since `reload` lets them through.

No fairness is assumed of the store: `apply` is a loop without waiting, and that it ends
is the bound on its conflicts, `RetriesAreBounded`, proved below, together with the
absence of deadlock.

## What is proved

`ResponseContext_proofs`, for all requests, target sets, status codes and Max-Breadth
values, from the type assumptions on the constants only:

- `Invariance`: `Spec => []IndInv`. The invariant `IndInv` joins `TypeOK` with
  `QuestionsComeFirst` (while the driver owes an answer no branch exists,
  nothing is queued and nothing was answered), `AnsweredLeavesNoQueue` and
  `TokenGatesRouting` (a request that carried a token has branches only after a valid verdict
  on it). The first is what makes the others inductive: without it
  an answer to a question could arrive in a context that has branches.
- `TypeCorrect`, `ConcludedTargetSet`, `TokenGate`: its parts.
- `NothingLaunchedAfterAnswer`: the action property, from the invariant.
- `NeverStranded`: if every target yields a forwardable copy (`AllTargetsBuild`),
  an accepted request always has an open question, a branch in flight or
  an answer. The hypothesis is needed: `MCProxyRefuted.cfg` is the counterexample without it.

`ProxyTransaction_proofs`, for any number of branches and groups, in every order of responses,
timeouts, failures and the caller's CANCEL:

- `OnlyLiveCancelled`, `WithdrawnUntried`, `SuccessRelayed`: the action properties of the open context.
  `OnlyLiveCancelled` counts every CANCEL: no branch is sent a second one.
  Their invariant `TransactionInv` adds to `IndInv` what the engine cannot see: every branch it
  takes for pending has an open client transaction that was sent no CANCEL (`PendingIsLive`), and a request withdrawn
  after routing has no target left (`WithdrawnIsConcluded`). The lemmas before it say of every
  call of the engine which branches it may stop, launch or leave pending (`Stopping`) and what it
  tells the caller (`Tells`, `Silent`).
- `Selection`, `IdsUnique`: under `AllTargetsBuild`, the answer is the best of what was heard, and no
  two branches share an id. Their invariant is `SelectionInv` (theorem `SelectionInvariance`): ids are
  the branches' indices (`Numbered`), and while the context is open (`Tally`) every concluded branch was
  heard, what the context collected is exactly what the client transactions ended with until it
  answers, a Timer C and a failed send included, and then it tells only what R5 and R6 relay.
  The hypothesis is needed: after an unbuildable target an index is used twice
  (`MCProxyRefuted.cfg`), and one final then counts for two branches. The property distinguishes a 503 told as 500 from a branch that answered 500.
- `BreadthConserved`, under the same hypothesis: the copies whose transactions are open carry at most the
  Max-Breadth that arrived, those aside that Timer C gave up (`LiveBreadthIsConserved` is false of
  them). `BreadthInv` says why: whatever counts belongs to one group, the last `n` branches at
  most, each with a share `s` and `s * n` within the header's value (`Fits`). A call of the engine
  either narrows what is in flight and launches nothing, or opens a group when nothing is
  (`Conserves`). That no concluded branch comes back in flight is where the ids have to be different.

`Registrar_proofs`, first about one registrar, for every set of commands, every policy and every
comparison of contacts, transitive or not:

- `RegistrarInvariance`: `RegistrarInv` joins the types and `QuotaHolds` with two facts.
  `FirstOfItsKind`: a binding that compares as equivalent to one before it is ambiguous, since an
  operation that finds a binding rebases the first one it finds. And what the last outcome says of
  the set. Both are followed through `Reconcile` operation by operation, together with the slots of
  the view, their names and the deferred decisions, so that what is committed inherits them.
- `QuotaIsKept`, `LastWordIsKept`: a quota checked once, at the end, is enough whatever the operations
  collapse to; and the last operation's contact is held whatever the earlier ones of the same
  request wrote, rebased or removed.
- `OrderingTokens`: no binding goes back to an older CSeq where its contact is unambiguous. The
  exception is real, and came out of the attempt to prove the property without it:
  with x;line=1 and x;line=2 both equal to x, three REGISTERs suffice
  for a late one to turn the binding of another user agent into a second binding of its own contact.
- `RetransmissionsWriteNothing`: the REGISTER decided last, delivered again before a binding expires, is
  accepted and writes nothing, if its contacts can be told apart. A distinguishable contact and
  those that equal it are a kind, which no other operation touches (`OpOnKind`) and of which a
  set holds one binding at most. `Followed` says what the first delivery leaves of every kind it
  names: nothing, or a binding that carries the request's ordering token and holds what the last operation on the
  kind granted (`Settled`, kept between steps by `LastObeyed`). `Repeats` follows
  the second delivery over that set. An operation meets its own token and writes nothing, or names
  a kind that is gone and inserts what the last operation on it must remove again; the bindings of
  the set stay in their order, so what is left is the set itself, and what was
  deferred against the token is held already.
- `DistinctTargets`, `AnswersAreCalled`: a lookup at any moment.

Then about the store, for any number of workers, nodes, retries and commands. The first three
assume nothing of what `Process` decides:

- `StoreInvariance`: `SpecStore => []StoreInv`, types, bounded retries and `RevisionFences`.
- `Fencing`: a worker about to commit under the current revision decided on the
  committed set.
- `StoreImplementsRegistrar`: `SpecStore => SpecRegistrar`. Every commit that takes
  effect is a step of the abstract registrar because of `Fencing`; every other step
  leaves the row alone or is a decision that writes nothing.
- `StoreKeepsThePromises`, `StoreKeepsOrder`: what is proved of the abstract registrar holds of the
  shared row, through the refinement.
- `AcceptanceTruth`, `FeedTruth`: what a 200 claims and what a node's feed lists. Their
  invariant `TruthInv` says of every answer and of every feed which entries of the history
  `writes` it rests on, and that a revision is installed by one delivery.

`DialogRouting_proofs`, for any edges, any loose and strict routers, any scenes, and any
number of requests within the dialog:

- `RouteInvariance`: the inductive invariant `RouteInv`. A request within the dialog has a goal, the
  contact the other end gave, and has done `k` stops of the route set; what is left is carried either
  straight, or swapped: the next router in the Request-URI and the goal behind the other
  Routes, as F6 and a strict router leave it. This cannot be said without knowing route sets: a
  foreign router never stands twice in a row in one (otherwise one visit might consume two
  entries), the entries of an edge stand in pairs of the right order, and either every edge minted or
  none did. Every Via on the request remembers a longer Route set than is left, which is why a
  dialog that goes through an edge again is no loop.
- `InDialogArrives`, `OnlyRepeatsLoop`, `SendersTokenGoverns`: the three properties of the run. The last
  is about route sets without a strict router, as in the property; `MCDialogDirection.cfg` is the
  counterexample with one.

`Fleet_proofs`, about `ConfigReload`, for every fleet, any number of versions and any edits that make documents of
documents (`EditsAssumption`), when `AnyRestart` is `FALSE`, that is, no node restarts
on a document that its predecessor would have refused:

- `FleetInvariance`: however much was published and rolled back, the running nodes are spread over
  two contents, the confirmed one and one edit; the two are `Joined` (each holds the other's mint
  key, and no id changes its name), and an edit under way is the one that is published.
- `MintIsHeld`, `IdsKeepOneName`: `PeersHoldTheMint` and `IdsAgree`, from the two directions of
  `KeyTransition` and `IdsKeepTheirNames`. `MCConfigRestart.cfg`, with `AnyRestart` set, refutes
  both.

and about `Simulator`, for any number of nodes that do anything, any schedule of faults, and whatever
the links draw:

- `SimCorrect`: the inductive invariant `SimInv`. The queue is in order of deadline. On a stream, what
  was delivered, what is in flight and what is held follow each other in the order of writing, and
  nothing in flight is due later than the link's last arrival (`InOrder`): that is what makes the next
  arrival the last one. What is held (`Holding`) goes to a live node that does not read, over the
  connection that is still there: reconnect, restart and kill discard the writes they would falsify.
- `StreamsKeepOrder`, `SuccessorHearsNothing`: the two properties of the run. Resuming is the hard step:
  `FlushedAllFlows` goes through the writes one by one, the ones not yet released still held, with
  any outcome of the link for each.

`KeyRotation_proofs`, for any number of nodes and any clocks:

- `Authenticity`: a token that verifies was minted, whatever key sets are published and
  whoever reloads when. No discipline is needed: a tag fixes the token it was made for.
- `LiveTokens`: under `Disciplined` (a new key opens earlier by the skew, an old one stays
  until the retirement deadline) every node verifies every live token. `RotationInv` says
  for each key set the operator may have published which key it mints under at which time and
  what its ids resolve to, and that nodes hold the newest or the one before. The
  hypothesis is needed: `MCKeyRotationSkew.cfg` drops the earlier opening and is refuted.

`Probe_proofs`, about the scheduler, for any matrix, cadence, bound and lifetime:

- `RateBound`, `NobodyStarves`: from `ScheduleInv`: what the bound forgot is too old to
  count, and a target that overtook a waiting one is due after it from then on.
- `BindingReachesRefresh`: for every lifetime a lost refresh leaves the binding alive up to the instant
  of the next, and only there can it be expired. That it is when the lifetime is even is
  `MCProbeEchoLapse.cfg`.

and about the run, for any network:

- `ReportTruth`: what a finished run reports is true of the platform. `RunInv` ties each
  obligation and each recorded fact to what the engine sent and the platform
  did, and each answer the network holds to what was asked. One lemma per input of the
  engine says that it keeps the invariant, whichever state it meets.
- `EngineKeepsContract`: `SpecProbe` implements `ProbeContract`, step by step.

`NodeDriver_proofs`, for any number of arrivals, permits, targets and events:

- `PermitsConserved`: from `GateInv`, which counts the permits by the stages of the arrivals and
  says that the channel holds each queued arrival once.
- `PendingIsRead`: the property speaks of the moments between two rounds; `TaskInv` says what holds
  inside one, while nested effects are performed: every branch that has not concluded is read, is about to be
  read, or its Forward is still on the stack `todo`; and an answered request was told
  or its Respond is on the stack.
- `TasksEndSettled`: under `AllTargetsBuild`, by `SettleInv`: a question of the engine has its effect on the
  stack, and otherwise something is still watched. `NothingStranded` in
  `MCProxyRefuted.cfg` shows why the hypothesis is needed: a stranded request is a task that ends
  without an answer.

Folds and recursive functions (the operations of a request, the binary search, the foreign
routers of a journey, the sum of the shares in flight, the writes a reader is sent) are reasoned about with `SetInduction`, a lemma that takes the set of numbers at
which a statement holds where the library's theorems take an operator. Three things had to be told
differently to be proved about: `SelectSeq` and `SortSeq`, which the provers cannot unfold
(`Listing`, `Foreigners`, `Place`), what is held for a reader, which is a set whose identities give its
order (`Released`), and cases that overlap (`Popped`, `RecordRoute`).

Model-checked only: the liveness properties (fairness and ENABLED are outside the
prover) and `ChosenFinalWasReceived` (refuted).

## Not modelled

- Parsing, canonicalisation of addresses and admission (`registrar/parse.rs`, `aor.rs`, `policy.rs`,
  `conformance.rs`): functions of one message without state, enumerated by their tests.
- Digest authentication (`registrar/auth.rs`): nonces and the replay window are the external
  kernel's, and the module's decision is one branch on its verdict.
- Listeners and advertised addresses beyond whether a node starts on them (`ListenersBind`), and the
  blocking store adapter: sequential I/O and plain forwarding. The trace, random source and visualisation of the simulator.
- Message text and header syntax, base64, the strength of hashes and of the token's
  cryptography: no property here distinguishes them.
- Clocks that differ between nodes are modelled for tokens (`KeyRotation`) and not for the
  location store, whose times come from the node that admitted a command.
- NodeDriver follows one proxied request in full; that several such tasks share only the store
  and the permits is read off the source, and is why one suffices.

## Plan

1. The feed of CANCELs and timers in NodeDriver, when the node performs them.
