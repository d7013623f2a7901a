------------------------------- MODULE Simulator -------------------------------
(***************************************************************************)
(* The deterministic simulator (crates/sipx-clstr-sim: sim.rs, queue.rs,   *)
(* net.rs, fault.rs, time.rs): an event queue, the kernel's timers beside  *)
(* it, links that lose, delay, duplicate or break, connections that are    *)
(* replaced, peers that stop reading, and a schedule of faults.            *)
(*                                                                         *)
(* The simulated nodes are anything: a node that is handed an input sends  *)
(* a message, arms or clears a timer, or does nothing.  A link's policy is *)
(* any policy: every loss, duplicate and latency it may draw is a choice.  *)
(***************************************************************************)
EXTENDS Integers, Sequences, SequencesExt

CONSTANTS
    Added,        \* the nodes, as a sequence: the order they were added in
    Schedules,    \* sequences of [at, fault] that a scenario may queue
    Kinds,        \* kinds of link: a subset of {"datagram", "stream"}
    Latencies, Delays, TimerIds,
    MaxSends,     \* bound: messages written
    MaxTimers     \* bound: timers armed

N == Range(Added)

Fault ==
    [kind : {"kill", "restart", "stop", "resume"}, a : N]
        \cup [kind : {"partition", "heal", "reconnect"}, a : N, b : N]
        \cup [kind : {"policy"}, a : N, b : N, cut : BOOLEAN]
        \cup [kind : {"skew"}, a : N, rate : Nat]

\* A schedule is in the order in which the queue holds it: by instant, and as the scenario
\* queued them among equals.
ASSUME ScheduleAssumption ==
    \A schedule \in Schedules :
        /\ schedule \in Seq([at : Nat, fault : Fault])
        /\ \A j, k \in DOMAIN schedule : j < k => schedule[j].at <= schedule[k].at
ASSUME NetworkAssumption ==
    /\ Added \in Seq(N) /\ Kinds \subseteq {"datagram", "stream"}
    /\ Latencies \subseteq Nat /\ Delays \subseteq Nat

VARIABLES
    now,
    queue,        \* EventQueue: in order of deadline, and of insertion among equals
    timers,       \* TimerQueue: armed timers, by node and id
    batch,        \* timers taken from it that have not been handed over yet
    starting,     \* nodes still to be started
    links,        \* by ordered pair: kind, cut, last arrival of a stream
    killed, skew, restarts, connections, notReading,
    held,         \* by node that does not read: writes kept from it, their identities in order
    written,      \* how many messages were written: their identity
    armed,        \* how many timers were armed
    runs,         \* history: the run each node believes to be on
    silenced,     \* history: timers cleared and not armed since
    got,          \* history: the last message each stream delivered
    last          \* history: what the last step handed to a node

simVars == <<now, queue, timers, batch, starting, links, killed, skew, restarts, connections,
             notReading, held, written, armed, runs, silenced, got, last>>

Pairs == {p \in N \X N : p[1] # p[2]}

-----------------------------------------------------------------------------
(* The queue *)

\* The earliest deadline first, and the first inserted among equals: where an entry due at
\* this instant goes.
Place(q, at) ==
    CHOOSE i \in 1..(Len(q) + 1) :
        /\ \A k \in 1..(i - 1) : q[k].at <= at
        /\ \A k \in i..Len(q) : at < q[k].at
Scheduled(q, at, events) ==
    SubSeq(q, 1, Place(q, at) - 1)
        \o [k \in DOMAIN events |-> [at |-> at, event |-> events[k]]]
        \o SubSeq(q, Place(q, at), Len(q))

Deliver(from, to, m, connection) ==
    [kind |-> "deliver", node |-> to, peer |-> from, m |-> m, connection |-> connection]
Break(node, peer) == [kind |-> "break", node |-> node, peer |-> peer]
Notify(node, notice, peer) == [kind |-> notice, node |-> node, peer |-> peer]

\* The sender is told that its peer does not read.
StallNotice(sender, reader) == Notify(sender, "stalled", reader)

-----------------------------------------------------------------------------
(* Links.  A world is a queue and the links. *)

Cut(link) == IF link.kind = "datagram" THEN "dropped" ELSE "broken"

\* A stream never overtakes itself.
Arrival(link, after) ==
    IF link.lastArrival # 0 /\ now' + after <= link.lastArrival - 1 THEN link.lastArrival
    ELSE now' + after

\* The worlds that a message crossing the link of `pair` now may lead to.
Crossed(world, pair, event) ==
    LET link == world.links[pair]
        once == {Scheduled(world.queue, now' + d, <<event>>) : d \in Latencies}
        twice == {Scheduled(q, now' + d, <<event>>) : q \in once, d \in Latencies}
    IN  CASE link.kind = "stream" ->
                {[queue |-> Scheduled(world.queue, Arrival(link, d), <<event>>),
                  links |-> [world.links EXCEPT ![pair].lastArrival = Arrival(link, d) + 1]] :
                    d \in Latencies}
          [] link.kind = "datagram" ->
                {[world EXCEPT !.queue = q] : q \in {world.queue} \cup once \cup twice}

\* The worlds that putting message `m` on the link may lead to.
Dispatched(world, from, to, m) ==
    LET link == world.links[<<from, to>>]
        cut == link.cut \/ {from, to} \cap killed # {}
        seen == [world EXCEPT !.links[<<from, to>>].there = TRUE]
    IN  CASE cut /\ Cut(link) = "dropped" -> {seen}
          [] cut /\ Cut(link) = "broken" ->
                {[seen EXCEPT !.queue = Scheduled(@, now', <<Break(from, to)>>)]}
          [] ~cut -> Crossed(seen, <<from, to>>, Deliver(from, to, m, connections[<<from, to>>]))

-----------------------------------------------------------------------------
(* What a node does with an input: `q` is the queue the input was taken from *)

Skewed(node, after) == (after * skew[node]) \div 1000

\* A write to a peer that is not reading stays with its sender, who is told.
Sends(node, q) ==
    \E to \in N \ {node} :
        LET m == [id |-> written + 1, epoch |-> connections[<<node, to>>]]
            stalled == to \in notReading /\ {node, to} \cap killed = {}
        IN  /\ written < MaxSends
            /\ written' = written + 1
            /\ \/ /\ stalled
                  /\ held' = [held EXCEPT ![to] = @ \cup {[from |-> node, m |-> m]}]
                  /\ queue' = Scheduled(q, now', <<StallNotice(node, to)>>)
                  /\ UNCHANGED links
               \/ /\ ~stalled
                  /\ \E w \in Dispatched([queue |-> q, links |-> links], node, to, m) :
                        queue' = w.queue /\ links' = w.links
                  /\ UNCHANGED held
            /\ UNCHANGED <<timers, armed, silenced>>

Arms(node, q) ==
    /\ armed < MaxTimers
    /\ armed' = armed + 1
    /\ \E id \in TimerIds, after \in Delays :
          /\ timers' = {t \in timers : <<t.node, t.id>> # <<node, id>>}
                          \cup {[node |-> node, id |-> id, at |-> now' + Skewed(node, after),
                                 run |-> runs'[node]]}
          /\ silenced' = silenced \ {<<node, id>>}
    /\ queue' = q
    /\ UNCHANGED <<links, held, written>>

Clears(node, q) ==
    /\ \E id \in TimerIds :
          /\ \E t \in timers \cup Range(batch) : t.node = node /\ t.id = id
          /\ timers' = {t \in timers : <<t.node, t.id>> # <<node, id>>}
          /\ silenced' = silenced \cup {<<node, id>>}
    /\ queue' = q
    /\ UNCHANGED <<links, held, written, armed>>

Rests(q) == queue' = q /\ UNCHANGED <<links, held, written, timers, armed, silenced>>

\* A killed node is not running: it does nothing, even with an input that reached it.
Reacts(node, q) ==
    \/ Rests(q)
    \/ node \notin killed /\ (Sends(node, q) \/ Arms(node, q) \/ Clears(node, q))

Quiet == [kind |-> "none"]
NoFault == UNCHANGED <<killed, skew, restarts, connections, notReading>>

-----------------------------------------------------------------------------
(* Taking the next event *)

\* Nothing handed over half-way: the loop is back at its top.
AtTop == starting = <<>> /\ batch = <<>>

NextInstant ==
    LET instants == {t.at : t \in timers} \cup {e.at : e \in Range(queue)}
    IN  CHOOSE at \in instants : \A other \in instants : at <= other

FaultFirst == queue # <<>> /\ Head(queue).at = NextInstant /\ Head(queue).event.kind = "fault"

Due == {t \in timers : t.at <= NextInstant}

StartNode ==
    /\ starting # <<>>
    /\ starting' = Tail(starting) /\ now' = now /\ runs' = runs
    /\ Reacts(Head(starting), queue)
    /\ last' = Quiet
    /\ NoFault /\ UNCHANGED <<batch, got>>

\* All the timers that are due leave the timer queue together.
TakeTimers ==
    /\ AtTop /\ Due # {} /\ ~FaultFirst
    /\ now' = NextInstant
    /\ batch' \in SetToSeqs(Due)
    /\ timers' = timers \ Due
    /\ last' = Quiet
    /\ NoFault /\ UNCHANGED <<queue, starting, links, held, written, armed, silenced, runs, got>>

FireTimer ==
    /\ starting = <<>> /\ batch # <<>>
    /\ LET t == Head(batch)
       IN  /\ last' = [kind |-> "timer", node |-> t.node, run |-> t.run,
                       silent |-> <<t.node, t.id>> \in silenced]
           /\ batch' = Tail(batch) /\ now' = now /\ runs' = runs
           /\ Reacts(t.node, queue)
    /\ NoFault /\ UNCHANGED <<starting, got>>

\* The head of the queue is taken, when no timer is due and no fault comes first.
Takes(kinds) ==
    /\ AtTop /\ queue # <<>>
    /\ FaultFirst \/ Due = {}
    /\ Head(queue).event.kind \in kinds
    /\ now' = Head(queue).at

Event == Head(queue).event
FromEvent == UNCHANGED <<batch, starting>> /\ NoFault

\* Written to a connection that has since been replaced: lost.
Stale_Never(event) == FALSE
Stale(event) == event.connection # connections[<<event.peer, event.node>>]

LoseDelivery ==
    /\ Takes({"deliver"}) /\ Stale(Event)
    /\ Rests(Tail(queue)) /\ last' = Quiet
    /\ FromEvent /\ UNCHANGED <<runs, got>>

HandleDelivery ==
    /\ Takes({"deliver"}) /\ ~Stale(Event)
    /\ runs' = runs
    /\ Reacts(Event.node, Tail(queue))
    /\ LET pair == <<Event.peer, Event.node>>
       IN  /\ last' = [kind |-> "received", pair |-> pair, m |-> Event.m]
           /\ got' = IF links[pair].kind = "stream" THEN [got EXCEPT ![pair] = Event.m.id] ELSE got
    /\ FromEvent

HandleNotice ==
    /\ Takes({"break", "connected", "restarted", "stalled", "flushed"})
    /\ LET up == Event.node \notin killed
           pair == <<Event.node, Event.peer>>
       IN  /\ runs' = IF Event.kind = "restarted" /\ up
                      THEN [runs EXCEPT ![Event.node] = restarts[Event.node] + 1] ELSE runs
    /\ Reacts(Event.node, Tail(queue))
    /\ last' = Quiet
    /\ FromEvent /\ UNCHANGED got

-----------------------------------------------------------------------------
(* Faults *)

Applies(kind) ==
    /\ Takes({"fault"}) /\ Event.fault.kind = kind
    /\ last' = Quiet
    /\ UNCHANGED <<batch, starting, written, armed, silenced, runs, got>>

ForgetTimers(node) == {t \in timers : t.node # node}
DiscardInvolving(node) ==
    [x \in N |-> IF x = node THEN {} ELSE {w \in held[x] : w.from # node}]
DiscardBetween(a, b) ==
    [x \in N |-> {w \in held[x] : {x, w.from} # {a, b}}]
Bumped(pairs) == [p \in Pairs |-> connections[p] + (IF p \in pairs THEN 1 ELSE 0)]

Kill ==
    /\ Applies("kill")
    /\ LET node == Event.fault.a
       IN  /\ killed' = killed \cup {node}
           /\ timers' = ForgetTimers(node)
           /\ notReading' = notReading \ {node}
           /\ held' = DiscardInvolving(node)
    /\ queue' = Tail(queue)
    /\ UNCHANGED <<links, skew, restarts, connections>>

\* Links that cross a cut, both ways; or one direction of one link.
SetCut(kind, pairs, cut) ==
    /\ Applies(kind)
    /\ links' = [p \in Pairs |->
                    IF p \in pairs THEN [links[p] EXCEPT !.cut = cut, !.there = TRUE] ELSE links[p]]
    /\ queue' = Tail(queue)
    /\ NoFault /\ UNCHANGED <<timers, held>>
Crossing(f) == {<<f.a, f.b>>, <<f.b, f.a>>}
Partition == SetCut("partition", Crossing(Event.fault), TRUE)
Heal == SetCut("heal", Crossing(Event.fault), FALSE)
SetLinkPolicy == SetCut("policy", {<<Event.fault.a, Event.fault.b>>}, Event.fault.cut)

TimerSkew ==
    /\ Applies("skew")
    /\ skew' = [skew EXCEPT ![Event.fault.a] = Event.fault.rate]
    /\ queue' = Tail(queue)
    /\ UNCHANGED <<timers, held, links, killed, restarts, connections, notReading>>

\* The connection is closed and another accepted: both ends learn of the end before the start.
Reconnect ==
    /\ Applies("reconnect")
    /\ LET a == Event.fault.a
           b == Event.fault.b
       IN  /\ connections' = Bumped({<<a, b>>, <<b, a>>})
           /\ held' = DiscardBetween(a, b)
           /\ queue' = Scheduled(Tail(queue), now',
                           <<Break(a, b), Break(b, a), Notify(a, "connected", b),
                             Notify(b, "connected", a)>>)
    /\ UNCHANGED <<timers, links, killed, skew, restarts, notReading>>

HasStream(a, b) ==
    \E p \in {<<a, b>>, <<b, a>>} : links[p].there /\ links[p].kind = "stream"

\* The one way to list these places in order.
Ascending(places) ==
    {s \in SetToSeqs(places) : \A j, k \in DOMAIN s : j < k => s[j] < s[k]}

RestartNode ==
    /\ Applies("restart")
    /\ LET node == Event.fault.a
           peers == {i \in DOMAIN Added : Added[i] # node /\ HasStream(Added[i], node)}
       IN  /\ killed' = killed \ {node}
           /\ timers' = ForgetTimers(node)
           /\ connections' = Bumped({p \in Pairs : node \in {p[1], p[2]}})
           /\ notReading' = notReading \ {node}
           /\ held' = DiscardInvolving(node)
           /\ restarts' = [restarts EXCEPT ![node] = @ + 1]
           /\ \E s \in Ascending(peers) :
                 queue' = Scheduled(Tail(queue), now',
                              [i \in DOMAIN s |-> Break(Added[s[i]], node)]
                                  \o <<Notify(node, "restarted", node)>>)
    /\ UNCHANGED <<links, skew>>

StopReading ==
    /\ Applies("stop")
    /\ notReading' = IF Event.fault.a \in killed THEN notReading ELSE notReading \cup {Event.fault.a}
    /\ queue' = Tail(queue)
    /\ UNCHANGED <<timers, held, links, killed, skew, restarts, connections>>

\* What was held goes out in the order it was written, each write announced to its sender.
Released_Backwards(node, id) == {write \in held[node] : write.m.id = written + 1 - id}
Released(node, id) == {write \in held[node] : write.m.id = id}
Flushed(world, node, write) ==
    Dispatched([world EXCEPT !.queue = Scheduled(@, now', <<Notify(write.from, "flushed", node)>>)],
               write.from, node, write.m)
AfterTurn(worlds, node, id) ==
    IF Released(node, id) = {} THEN worlds
    ELSE UNION {Flushed(w, node, write) : w \in worlds, write \in Released(node, id)}
FlushedAll(world, node) ==
    LET turn[id \in 0..written] ==
          IF id = 0 THEN {world} ELSE AfterTurn(turn[id - 1], node, id)
    IN  turn[written]
ResumeReading ==
    /\ Applies("resume")
    /\ LET node == Event.fault.a
       IN  /\ notReading' = notReading \ {node}
           /\ held' = [held EXCEPT ![node] = {}]
           /\ \E w \in FlushedAll([queue |-> Tail(queue), links |-> links], node) :
                 queue' = w.queue /\ links' = w.links
    /\ UNCHANGED <<timers, killed, skew, restarts, connections>>

-----------------------------------------------------------------------------
Idle == AtTop /\ queue = <<>> /\ timers = {} /\ UNCHANGED simVars

InitSim ==
    /\ now = 0
    /\ \E schedule \in Schedules :
          queue = [i \in DOMAIN schedule |->
                      [at |-> schedule[i].at,
                       event |-> [kind |-> "fault", fault |-> schedule[i].fault]]]
    /\ \E kind \in Kinds :
          links = [p \in Pairs |-> [kind |-> kind, cut |-> FALSE, lastArrival |-> 0, there |-> FALSE]]
    /\ timers = {} /\ batch = <<>> /\ starting = Added
    /\ killed = {} /\ skew = [n \in N |-> 1000] /\ restarts = [n \in N |-> 0]
    /\ connections = [p \in Pairs |-> 0] /\ notReading = {} /\ held = [n \in N |-> {}]
    /\ written = 0 /\ armed = 0
    /\ runs = [n \in N |-> 1] /\ silenced = {}
    /\ got = [p \in Pairs |-> 0] /\ last = Quiet

Faults ==
    \/ Kill \/ Partition \/ Heal \/ SetLinkPolicy \/ TimerSkew
    \/ Reconnect \/ RestartNode \/ StopReading \/ ResumeReading

NextSim ==
    \/ StartNode \/ TakeTimers \/ FireTimer
    \/ LoseDelivery \/ HandleDelivery \/ HandleNotice
    \/ Faults \/ Idle

SpecSim == InitSim /\ [][NextSim]_simVars

-----------------------------------------------------------------------------
(* Properties *)

\* A stream delivers in the order of writing, whatever its latencies, stalls, cuts, reconnects
\* and restarts (net.rs Link::decide, sim.rs resume_reading).
StreamsAreFifo ==
    [][\A p \in Pairs : links[p].kind = "stream" => got'[p] >= got[p]]_simVars

\* What was written to one connection never comes out of its successor, held back or in
\* flight (sim.rs handle_delivery, discard_held_involving).
NoSuccessorHears ==
    last.kind = "received" => last.m.epoch = connections[last.pair]

\* sim.rs restart: "The timers of the run that ended never fire."
RestartForgetsTimers ==
    last.kind = "timer" /\ last.node \notin killed => last.run = runs[last.node]

\* sim.rs: the kernel's cancellation discipline, "stale entries discarded at pop".
ClearedTimerIsSilent == last.kind = "timer" => ~last.silent
================================================================================
