------------------------------- MODULE Fleet_proofs -------------------------------
(***************************************************************************)
(* Proofs about many nodes at once: a fleet that takes documents (the      *)
(* first half, ConfigReload), and the nodes a simulation runs (the second, *)
(* Simulator).                                                             *)
(*                                                                         *)
(* ConfigReload: for any fleet, any documents an edit may make, and any    *)
(* number of edits, whatever the order in which the nodes take them,       *)
(* refuse them, go down and come back.  The operator is held to what       *)
(* cluster-membership asks of him (AnyRestart = FALSE); MaxVersion and the *)
(* fairness play no part.                                                  *)
(*                                                                         *)
(* Simulator: for any nodes, whatever they do with their inputs, any       *)
(* schedule of faults and anything the links draw; its bounds play no      *)
(* part.                                                                   *)
(***************************************************************************)
EXTENDS ConfigReload, Simulator, FiniteSets, FiniteSetTheorems, SequenceTheorems,
        WellFoundedInduction, TLAPS

\* An edit makes a document of a document; it may still break any rule of the loader.
EditsAssumption == \A doc \in Document : Edits(doc) \subseteq Document

-----------------------------------------------------------------------------
(* Numbers *)

\* Numbers have a least one.
LEMMA LeastOne ==
  ASSUME NEW S, S \subseteq Nat, S # {}
  PROVE  \E m \in S : \A x \in S : m <= x
  <1> DEFINE R == OpToRel(<, Nat)
  <1>1. \E m \in S : \A y \in S : ~ (<<y, m>> \in R)
    BY WFMin, NatLessThanWellFounded
  <1>2. PICK m \in S : \A y \in S : ~ (<<y, m>> \in R)
    BY <1>1
  <1>3. ASSUME NEW x \in S, ~(m <= x) PROVE FALSE
    <2>1. x \in Nat /\ m \in Nat /\ x < m
      BY <1>3
    <2>2. <<x, m>> \in R
      BY <2>1 DEF OpToRel
    <2> QED BY <1>2, <2>2
  <1> QED BY <1>3

-----------------------------------------------------------------------------
(* What a find returns *)

\* A find that has a hit returns one.
LEMMA FirstHit ==
  ASSUME NEW S, NEW list \in Seq(S), NEW hits, hits \subseteq DOMAIN list, hits # {}
  PROVE  (CHOOSE i \in hits : \A j \in hits : i <= j) \in hits
  <1>1. DOMAIN list = 1..Len(list) /\ Len(list) \in Nat
    OBVIOUS
  <1>2. hits \subseteq Nat
    BY <1>1
  <1> QED BY <1>2, LeastOne

LEMMA MintFound ==
  ASSUME NEW keys \in Seq(KeySpec), MintKey(keys) # None
  PROVE  \E i \in DOMAIN keys : MintKey(keys) = keys[i]
  <1> DEFINE hits == {i \in DOMAIN keys : keys[i].mint}
  <1>1. /\ hits # {}
        /\ MintKey(keys) = keys[CHOOSE i \in hits : \A j \in hits : i <= j]
    BY DEF MintKey, Find
  <1>2. (CHOOSE i \in hits : \A j \in hits : i <= j) \in hits
    BY <1>1, FirstHit
  <1> QED BY <1>1, <1>2

LEMMA KeyFound ==
  ASSUME NEW keys \in Seq(KeySpec), NEW id, Find(keys, LAMBDA k : k.id = id) # None
  PROVE  \E i \in DOMAIN keys : keys[i].id = id
  BY DEF Find

LEMMA MemberFound ==
  ASSUME NEW members \in Seq(MemberSpec), NEW k \in DOMAIN members
  PROVE  LET known == Find(members, LAMBDA m : m.node = members[k].node)
         IN  known # None /\ \E i \in DOMAIN members : /\ known = members[i]
                                                      /\ known.node = members[k].node
  <1> DEFINE hits == {i \in DOMAIN members : members[i].node = members[k].node}
             known == Find(members, LAMBDA m : m.node = members[k].node)
  <1>1. hits # {} /\ known = members[CHOOSE i \in hits : \A j \in hits : i <= j]
    BY DEF Find
  <1>2. (CHOOSE i \in hits : \A j \in hits : i <= j) \in hits
    BY <1>1, FirstHit
  <1> HIDE DEF known
  <1>3. PICK i \in hits : known = members[i]
    BY <1>1, <1>2
  <1>4. members[i] \in MemberSpec
    BY <1>3
  <1> QED BY <1>3, <1>4, FleetAssumption DEF known


-----------------------------------------------------------------------------
(* What a reload establishes between two documents *)

\* Every node that runs `by` selects the key that a node on `doc` mints under.
Holds(by, doc) ==
    LET minting == MintKey(doc.keys)
    IN  minting # None => \E i \in DOMAIN by.keys : by.keys[i].id = minting.id

OneName(doc, other) ==
    \A i \in DOMAIN doc.members, j \in DOMAIN other.members :
        doc.members[i].node = other.members[j].node =>
            doc.members[i].name = other.members[j].name

Joined(doc, other) == Holds(doc, other) /\ Holds(other, doc) /\ OneName(doc, other)

\* The sections the two properties are about, whatever the version.
Alike(doc, other) == doc.keys = other.keys /\ doc.members = other.members

\* A document holds its own mint key.
LEMMA HoldsItsOwn ==
  ASSUME NEW doc \in Document PROVE Holds(doc, doc)
  <1>1. doc.keys \in Seq(KeySpec)
    BY DEF Document
  <1> QED BY <1>1, MintFound DEF Holds

\* And names its own members once.
LEMMA NamesItsOwn ==
  ASSUME NEW doc \in Document, MembersAreSound(doc.members) PROVE OneName(doc, doc)
  <1>1. DOMAIN doc.members \subseteq Nat
    BY DEF Document
  <1>2. ASSUME NEW i \in DOMAIN doc.members, NEW j \in DOMAIN doc.members,
               doc.members[i].node = doc.members[j].node
        PROVE  i = j
    <2>1. ~ (i < j) /\ ~ (j < i)
      BY <1>2 DEF MembersAreSound, Distinct, SameMember
    <2> QED BY <1>1, <2>1
  <1> QED BY <1>2 DEF OneName

\* A node that loads a document runs sound members.
LEMMA LoadedIsSound ==
  ASSUME NEW doc, NEW id, Loads(doc, id) PROVE MembersAreSound(doc.members)
  BY DEF Loads

\* The rules of a transition, read from both sides: a node that stays behind holds the key of
\* the one that went ahead, and the other way round, and neither reads an id differently.
LEMMA ReloadJoins ==
  ASSUME NEW doc \in Document, NEW next \in Document, NEW id,
         MembersAreSound(doc.members), Reloads(doc, next, id)
  PROVE  Joined(doc, next)
  <1>1. /\ doc.keys \in Seq(KeySpec) /\ next.keys \in Seq(KeySpec)
        /\ doc.members \in Seq(MemberSpec) /\ next.members \in Seq(MemberSpec)
    BY DEF Document
  <1>2. IdsKeepTheirNames(doc, next) /\ MintIsDistributed(doc, next) /\ OutgoingIsKept(doc, next)
    BY DEF Reloads, KeyTransition
  <1>3. Holds(doc, next)
    BY <1>2 DEF MintIsDistributed, Holds
  <1>4. Holds(next, doc)
    <2> DEFINE outgoing == MintKey(doc.keys)
    <2>1. CASE outgoing = None
      BY <2>1 DEF Holds
    <2>2. CASE outgoing # None
      <3>1. Find(next.keys, LAMBDA k : k.id = outgoing.id) # None
        BY <1>2, <2>2 DEF OutgoingIsKept
      <3> HIDE DEF outgoing
      <3>2. \E i \in DOMAIN next.keys : next.keys[i].id = outgoing.id
        BY <1>1, <3>1, KeyFound
      <3> QED BY <3>2 DEF Holds, outgoing
    <2> QED BY <2>1, <2>2
  <1>5. OneName(doc, next)
    <2> SUFFICES ASSUME NEW i \in DOMAIN doc.members, NEW j \in DOMAIN next.members,
                        doc.members[i].node = next.members[j].node
                 PROVE  doc.members[i].name = next.members[j].name
      BY DEF OneName
    <2> DEFINE known == Find(doc.members, LAMBDA m : m.node = doc.members[i].node)
    <2>1. known # None
      BY <1>1, MemberFound
    <2>2. PICK k \in DOMAIN doc.members :
             known = doc.members[k] /\ known.node = doc.members[i].node
      BY <1>1, MemberFound
    <2>3. known = Find(doc.members, LAMBDA m : m.node = next.members[j].node)
      OBVIOUS
    <2>4. known.name = next.members[j].name
      BY <1>2, <2>1, <2>3 DEF IdsKeepTheirNames
    <2> HIDE DEF known
    <2>5. OneName(doc, doc)
      BY NamesItsOwn
    <2> QED BY <2>2, <2>4, <2>5 DEF OneName
  <1> QED BY <1>3, <1>4, <1>5 DEF Joined

-----------------------------------------------------------------------------
(* The fleet *)

Running == {n \in Nodes : Up(n)}

\* The nodes that went ahead with an edit, or have not come back from one.
Moved == {n \in Running : ~Alike(active[n], confirmed)}

\* However many documents were published and rolled back, the fleet is spread over two
\* contents: the confirmed one, under any version, and one edit that was judged against it.
FleetInv ==
    /\ published \in Document /\ confirmed \in Document
    /\ active \in [Nodes -> Document \cup {None}]
    /\ \A n \in Running : MembersAreSound(active[n].members)
    /\ \A n \in Moved : Joined(confirmed, active[n])
    /\ \A m, n \in Moved : Alike(active[m], active[n])
    /\ ~Alike(published, confirmed) => \A n \in Moved : Alike(active[n], published)

LEMMA FleetInit == Init => FleetInv
  <1> SUFFICES ASSUME Init PROVE FleetInv
    OBVIOUS
  <1>1. /\ published \in FirstDocuments /\ confirmed = published
        /\ active = [n \in Nodes |-> published]
    BY DEF Init
  <1>2. published \in Document
    BY <1>1, FleetAssumption
  <1>3. \A n \in Nodes : MembersAreSound(published.members)
    BY <1>1, FleetAssumption, LoadedIsSound DEF Starts
  <1>4. Moved = {}
    BY <1>1 DEF Moved, Running, Alike
  <1> QED BY <1>1, <1>2, <1>3, <1>4 DEF FleetInv, Running

\* A published edit finds the whole fleet on one document, which it makes the confirmed one.
LEMMA PublishStep ==
  ASSUME EditsAssumption, FleetInv, NEW doc \in Edits(published), Publish(doc)
  PROVE  FleetInv'
  <1>1. /\ \A n \in Nodes : active[n] = published
        /\ published' = doc /\ confirmed' = published /\ active' = active
    BY DEF Publish, Settled, Runs
  <1>2. doc \in Document
    BY DEF EditsAssumption, FleetInv
  <1>3. Moved' = {} /\ Running' = Running
    BY <1>1 DEF Moved, Running, Up, Alike
  <1> QED BY <1>1, <1>2, <1>3 DEF FleetInv

LEMMA RollBackStep ==
  ASSUME FleetInv, RollBack PROVE FleetInv'
  <1>1. /\ published' = [confirmed EXCEPT !.version = published.version + 1]
        /\ confirmed' = confirmed /\ active' = active
    BY DEF RollBack
  <1>2. published' \in Document /\ Alike(published', confirmed)
    <2>1. confirmed \in Document /\ published.version + 1 \in Nat
      <3>1. confirmed \in Document /\ published \in Document
        BY DEF FleetInv
      <3>2. published.version \in Nat
        BY <3>1 DEF Document
      <3> QED BY <3>1, <3>2
    <2> HIDE DEF FleetInv
    <2> DEFINE next == published.version + 1
    <2>2. published' = [confirmed EXCEPT !.version = next] /\ next \in Nat
      BY <1>1, <2>1
    <2> HIDE DEF next
    <2>3. published'.keys = confirmed.keys /\ published'.members = confirmed.members
      BY <2>1, <2>2 DEF Document
    <2>4. published' \in Document
      BY <2>1, <2>2 DEF Document
    <2> QED BY <2>3, <2>4 DEF Alike
  <1>3. Moved' = Moved /\ Running' = Running
    BY <1>1 DEF Moved, Running, Up
  <1> QED BY <1>1, <1>2, <1>3 DEF FleetInv

\* A node comes to the published document: all that is left to show is that the document is
\* sound, and that it is joined to the confirmed one when it differs from it.
LEMMA NodeMoves ==
  ASSUME FleetInv, NEW n \in Nodes, active' = [active EXCEPT ![n] = published],
         UNCHANGED <<published, confirmed>>, MembersAreSound(published.members),
         ~Alike(published, confirmed) => Joined(confirmed, published)
  PROVE  FleetInv'
  <1>1. /\ active \in [Nodes -> Document \cup {None}] /\ published \in Document
        /\ active'[n] = published /\ \A m \in Nodes \ {n} : active'[m] = active[m]
    BY DEF FleetInv
  <1>2. /\ n \in Running'
        /\ Running' = Running \cup {n}
    BY <1>1, FleetAssumption DEF Running, Up
  <1>3. \A m \in Moved' : m = n \/ m \in Moved
    BY <1>1, <1>2 DEF Moved
  <1>4. n \in Moved' => ~Alike(published, confirmed)
    BY <1>1 DEF Moved
  <1>5. \A m \in Moved' : Joined(confirmed, active'[m])
    BY <1>1, <1>3, <1>4 DEF FleetInv, Moved, Running
  <1>6. ~Alike(published, confirmed) => \A m \in Moved' : Alike(active'[m], published)
    BY <1>1, <1>3 DEF FleetInv, Alike, Moved, Running
  <1>7. \A l, m \in Moved' : Alike(active'[l], active'[m])
    <2> SUFFICES ASSUME NEW l \in Moved', NEW m \in Moved' PROVE Alike(active'[l], active'[m])
      OBVIOUS
    <2>1. CASE Alike(published, confirmed)
      BY <1>1, <1>3, <1>4, <2>1 DEF FleetInv, Moved, Running
    <2>2. CASE ~Alike(published, confirmed)
      BY <1>6, <2>2 DEF Alike
    <2> QED BY <2>1, <2>2
  <1>8. \A m \in Running' : MembersAreSound(active'[m].members)
    BY <1>1, <1>2 DEF FleetInv, Running
  <1>9. active' \in [Nodes -> Document \cup {None}]
    BY DEF FleetInv
  <1> QED BY <1>5, <1>6, <1>7, <1>8, <1>9 DEF FleetInv

LEMMA ReloadStep ==
  ASSUME FleetInv, NEW n \in Nodes, Reload(n) PROVE FleetInv'
  <1>1. /\ n \in Running /\ active[n] \in Document /\ MembersAreSound(active[n].members)
        /\ Reloads(active[n], published, Identity[n])
        /\ active' = [active EXCEPT ![n] = published] /\ UNCHANGED <<published, confirmed>>
    BY DEF Reload, FleetInv, Running, Up
  <1>2. MembersAreSound(published.members)
    BY <1>1, LoadedIsSound DEF Reloads
  <1>3. Joined(active[n], published)
    BY <1>1, ReloadJoins DEF FleetInv
  <1>4. ASSUME ~Alike(published, confirmed) PROVE Joined(confirmed, published)
    <2>1. CASE Alike(active[n], confirmed)
      BY <1>3, <2>1 DEF Alike, Joined, Holds, OneName
    <2>2. CASE ~Alike(active[n], confirmed)
      <3>1. Joined(confirmed, active[n]) /\ Alike(active[n], published)
        BY <1>1, <1>4, <2>2 DEF FleetInv, Moved
      <3> QED BY <3>1 DEF Alike, Joined, Holds, OneName
    <2> QED BY <2>1, <2>2
  <1> QED BY <1>1, <1>2, <1>4, NodeMoves

\* A node that starts has not judged the document against any other: it takes what a running
\* node has taken, or what has the confirmed keys and members.
LEMMA RestartStep ==
  ASSUME AnyRestart = FALSE, FleetInv, NEW n \in Nodes, Restart(n) PROVE FleetInv'
  <1>1. CASE ~Starts(published, Identity[n])
    <2>1. active' = [active EXCEPT ![n] = None] /\ UNCHANGED <<published, confirmed>>
      BY <1>1 DEF Restart
    <2>2. Running' = Running \ {n} /\ \A m \in Running' : active'[m] = active[m]
      BY <2>1 DEF FleetInv, Running, Up
    <2>3. Moved' = Moved \ {n}
      BY <2>1, <2>2 DEF Moved
    <2>4. \A m \in Moved' : m \in Moved /\ m \in Running'
      BY <2>3 DEF Moved
    <2> QED BY <2>1, <2>2, <2>3, <2>4 DEF FleetInv
  <1>2. CASE Starts(published, Identity[n])
    <2>1. active' = [active EXCEPT ![n] = published] /\ UNCHANGED <<published, confirmed>>
      BY <1>2 DEF Restart
    <2>2. MembersAreSound(published.members)
      BY <1>2, LoadedIsSound DEF Starts
    <2>3. ASSUME ~Alike(published, confirmed) PROVE Joined(confirmed, published)
      <3>1. CASE \E m \in Nodes : Runs(m)
        <4>1. PICK m \in Nodes : active[m] = published
          BY <3>1 DEF Runs
        <4>2. m \in Moved
          BY <2>3, <4>1, FleetAssumption DEF FleetInv, Moved, Running, Up
        <4> QED BY <4>1, <4>2 DEF FleetInv
      <3>2. CASE \A f \in DOMAIN published \ {"version", "frame", "listeners", "store"} :
                    published[f] = confirmed[f]
        <4>1. "keys" \in DOMAIN published /\ "members" \in DOMAIN published
          BY DEF FleetInv, Document
        <4> QED BY <2>3, <3>2, <4>1 DEF Alike
      <3> QED BY <3>1, <3>2 DEF Restart, Vetted
    <2> QED BY <2>1, <2>2, <2>3, NodeMoves
  <1> QED BY <1>1, <1>2

LEMMA FleetStep ==
  ASSUME EditsAssumption, AnyRestart = FALSE
  PROVE  FleetInv /\ [Next]_vars => FleetInv'
  <1> SUFFICES ASSUME FleetInv, [Next]_vars PROVE FleetInv'
    OBVIOUS
  <1>1. CASE UNCHANGED vars
    BY <1>1 DEF vars, FleetInv, Moved, Running, Up
  <1>2. CASE Next
    BY <1>2, PublishStep, RollBackStep, ReloadStep, RestartStep DEF Next
  <1> QED BY <1>1, <1>2

\* Whatever is published, taken, refused, rolled back, and whichever nodes end and start
\* again: the fleet is spread over two joined contents.
THEOREM FleetInvariance ==
  ASSUME EditsAssumption, AnyRestart = FALSE
  PROVE  Spec => []FleetInv
  <1>1. FleetInv /\ [Next]_vars => FleetInv'
    BY FleetStep
  <1> QED BY <1>1, FleetInit, PTL DEF Spec

-----------------------------------------------------------------------------
(* What the properties need of two nodes *)

LEMMA TwoNodes ==
  ASSUME FleetInv, NEW m \in Running, NEW n \in Running
  PROVE  Holds(active[n], active[m]) /\ OneName(active[m], active[n])
  <1>1. /\ active[m] \in Document /\ MembersAreSound(active[m].members)
        /\ active[n] \in Document
    BY DEF FleetInv, Running, Up
  <1>2. Holds(active[m], active[m]) /\ OneName(active[m], active[m])
    BY <1>1, HoldsItsOwn, NamesItsOwn
  <1>3. CASE Alike(active[m], active[n])
    BY <1>2, <1>3 DEF Alike, Holds, OneName
  <1>4. CASE m \in Moved /\ n \notin Moved
    <2>1. Joined(confirmed, active[m]) /\ Alike(active[n], confirmed)
      BY <1>4 DEF FleetInv, Moved
    <2> QED BY <2>1 DEF Alike, Joined, Holds, OneName
  <1>5. CASE m \notin Moved /\ n \in Moved
    <2>1. Joined(confirmed, active[n]) /\ Alike(active[m], confirmed)
      BY <1>5 DEF FleetInv, Moved
    <2> QED BY <2>1 DEF Alike, Joined, Holds, OneName
  <1>6. CASE m \in Moved /\ n \in Moved
    BY <1>3, <1>6 DEF FleetInv
  <1>7. CASE m \notin Moved /\ n \notin Moved
    BY <1>3, <1>7 DEF Moved, Alike
  <1> QED BY <1>4, <1>5, <1>6, <1>7

\* No node mints under a key a peer cannot select (check_key_transition, RL10 and RL11):
\* for any documents, and also while a document is rolled out, rolled back or abandoned.
THEOREM MintIsHeld ==
  ASSUME EditsAssumption, AnyRestart = FALSE
  PROVE  Spec => []PeersHoldTheMint
  <1>1. FleetInv => PeersHoldTheMint
    BY TwoNodes DEF PeersHoldTheMint, Holds, Running
  <1> QED BY <1>1, FleetInvariance, PTL

\* Two running nodes never read one id as two names (check_id_reassignment, I3).
THEOREM IdsKeepOneName ==
  ASSUME EditsAssumption, AnyRestart = FALSE
  PROVE  Spec => []IdsAgree
  <1>1. FleetInv => IdsAgree
    BY TwoNodes DEF IdsAgree, OneName, Running
  <1> QED BY <1>1, FleetInvariance, PTL

-----------------------------------------------------------------------------
(* The simulator: the inductive invariant *)

Timer == [node : N, id : TimerIds, at : Nat, run : Nat]
Message == [id : Nat, epoch : Nat]
Delivery ==
    {e \in [kind : {"deliver"}, node : N, peer : N, m : Message, connection : Nat] :
        e.peer # e.node /\ e.m.epoch = e.connection}
Notice ==
    [kind : {"break", "connected", "restarted", "stalled", "flushed"}, node : N, peer : N]
FaultDue == [kind : {"fault"}, fault : Fault]
Entry == [at : Nat, event : Delivery \cup Notice \cup FaultDue]
Write == [from : N, m : Message]
Link == [kind : Kinds, cut : BOOLEAN, lastArrival : Nat, there : BOOLEAN]

Sorted(q) == \A j, k \in DOMAIN q : j < k => q[j].at <= q[k].at
Carries(entry, p) ==
    entry.event.kind = "deliver" /\ entry.event.peer = p[1] /\ entry.event.node = p[2]
MessageId(entry) == entry.event.m.id

\* One stream: in flight behind one another, and then the writes that are held.
InOrder(q, link, p, waits, heard, top) ==
    /\ heard <= top
    /\ \A k \in DOMAIN q : Carries(q[k], p) =>
          q[k].at < link.lastArrival /\ heard < MessageId(q[k]) /\ MessageId(q[k]) <= top
    /\ \A j, k \in DOMAIN q :
          j < k /\ Carries(q[j], p) /\ Carries(q[k], p) => MessageId(q[j]) < MessageId(q[k])
    /\ \A w \in waits : w.from = p[1] =>
          /\ heard < w.m.id /\ w.m.id <= top
          /\ \A k \in DOMAIN q : Carries(q[k], p) => MessageId(q[k]) < w.m.id

Flows(q, l, waits, heard, top) ==
    /\ q \in Seq(Entry) /\ Sorted(q)
    /\ l \in [Pairs -> Link] /\ waits \in [N -> SUBSET Write]
    /\ heard \in [Pairs -> Nat] /\ top \in Nat
    /\ \A p \in Pairs : l[p].kind = "stream" => InOrder(q, l[p], p, waits[p[2]], heard[p], top)

Holding ==
    \A x \in N : \A w \in held[x] :
        /\ w.from # x
        /\ w.m.epoch = connections[<<w.from, x>>]
        /\ w.m.id \in 1..written
        /\ x \in notReading /\ {x, w.from} \cap killed = {}
        /\ \A v \in held[x] : v.m.id = w.m.id => v = w

Typed ==
    /\ now \in Nat
    /\ timers \subseteq Timer /\ IsFiniteSet(timers) /\ batch \in Seq(Timer) /\ starting \in Seq(N)
    /\ skew \in [N -> Nat] /\ restarts \in [N -> Nat] /\ runs \in [N -> Nat]
    /\ connections \in [Pairs -> Nat]

SimInv == Typed /\ Holding /\ Flows(queue, links, held, got, written) /\ NoSuccessorHears

-----------------------------------------------------------------------------
(* The queue *)

\* The deadlines in a queue are instants.
LEMMA EntryTimes ==
  ASSUME NEW q \in Seq(Entry)
  PROVE  \A k \in 1..Len(q) : q[k] \in Entry /\ q[k].at \in Nat
  <1>1. \A k \in 1..Len(q) : q[k] \in Entry
    OBVIOUS
  <1>2. \A e \in Entry : e.at \in Nat
    BY DEF Entry
  <1> QED BY <1>1, <1>2

\* An entry has a place: behind what is due no later, before what is due after it.
LEMMA PlaceFits ==
  ASSUME NEW q \in Seq(Entry), Sorted(q), NEW at \in Nat
  PROVE  /\ Place(q, at) \in 1..(Len(q) + 1)
         /\ \A k \in 1..(Place(q, at) - 1) : q[k].at <= at
         /\ \A k \in Place(q, at)..Len(q) : at < q[k].at
  <1> DEFINE S == {i \in 1..(Len(q) + 1) : i = Len(q) + 1 \/ at < q[i].at}
  <1>1. Len(q) \in Nat /\ DOMAIN q = 1..Len(q)
    OBVIOUS
  <1>2. \A k \in 1..Len(q) : q[k].at \in Nat
    BY EntryTimes
  <1>3. S \subseteq Nat /\ Len(q) + 1 \in S
    BY <1>1
  <1>4. PICK i \in S : \A x \in S : i <= x
    <2> HIDE DEF S
    <2> QED BY <1>3, LeastOne
  <1>5. i \in 1..(Len(q) + 1)
    OBVIOUS
  <1>6. ASSUME NEW k \in 1..(i - 1) PROVE q[k].at <= at
    <2>1. k \in 1..Len(q) /\ k < i
      BY <1>1, <1>5
    <2>2. k \notin S
      <3> HIDE DEF S
      <3> QED BY <1>1, <1>4, <1>5, <2>1
    <2>3. ~(at < q[k].at)
      BY <1>1, <2>1, <2>2
    <2> QED BY <1>2, <2>1, <2>3
  <1>7. ASSUME NEW k \in i..Len(q) PROVE at < q[k].at
    <2>1. i \in 1..Len(q) /\ k \in 1..Len(q) /\ i <= k
      BY <1>1, <1>5
    <2>2. at < q[i].at
      BY <1>1, <2>1
    <2>3. q[i].at <= q[k].at
      <3>1. CASE i = k
        BY <1>2, <2>1, <3>1
      <3>2. CASE i < k
        BY <1>1, <2>1, <3>2 DEF Sorted
      <3> QED BY <1>1, <2>1, <3>1, <3>2
    <2> QED BY <1>2, <2>1, <2>2, <2>3
  <1> HIDE DEF S
  <1> QED BY <1>5, <1>6, <1>7 DEF Place

\* Where an entry of a queue stood before `n` entries were put in at `i`.
Stood(k, i, n) == IF k < i THEN k ELSE k - n

\* `r` is `q` with some entries, due at one instant, put in at `i`.
PutIn(r, q, at, events, i) ==
    /\ r \in Seq(Entry) /\ Len(r) = Len(q) + Len(events)
    /\ \A k \in 1..Len(r) :
        \/ /\ k < i \/ k >= i + Len(events)
           /\ Stood(k, i, Len(events)) \in 1..Len(q) /\ r[k] = q[Stood(k, i, Len(events))]
        \/ /\ k \in i..(i + Len(events) - 1) /\ k - i + 1 \in 1..Len(events)
           /\ r[k] = [at |-> at, event |-> events[k - i + 1]]

\* What a queue holds after some entries were put in.
LEMMA ScheduledEntries ==
  ASSUME NEW q \in Seq(Entry), Sorted(q), NEW at \in Nat,
         NEW S, S \subseteq Delivery \cup Notice \cup FaultDue, NEW events \in Seq(S)
  PROVE  PutIn(Scheduled(q, at, events), q, at, events, Place(q, at))
  <1> DEFINE r == Scheduled(q, at, events)
             i == Place(q, at)
             n == Len(events)
             A == SubSeq(q, 1, i - 1)
             B == [k \in DOMAIN events |-> [at |-> at, event |-> events[k]]]
             C == SubSeq(q, i, Len(q))
  <1>1. i \in 1..(Len(q) + 1) /\ Len(q) \in Nat /\ n \in Nat /\ DOMAIN events = 1..n
    BY PlaceFits
  <1>2. A \in Seq(Entry) /\ Len(A) = i - 1 /\ \A k \in 1..(i - 1) : A[k] = q[k]
    <2> HIDE DEF i
    <2> QED BY <1>1
  <1>3. C \in Seq(Entry) /\ Len(C) = Len(q) - i + 1
        /\ \A k \in 1..(Len(q) - i + 1) : C[k] = q[i + k - 1]
    <2> HIDE DEF i
    <2> QED BY <1>1
  <1>4. B \in Seq(Entry) /\ Len(B) = n
        /\ \A k \in 1..n : B[k] = [at |-> at, event |-> events[k]]
    <2>1. \A k \in 1..n : [at |-> at, event |-> events[k]] \in Entry
      BY <1>1 DEF Entry
    <2>2. B \in [1..n -> Entry]
      BY <1>1, <2>1
    <2> HIDE DEF n
    <2> QED BY <1>1, <2>2
  <1>5. r = (A \o B) \o C
    BY DEF Scheduled
  <1> HIDE DEF A, B, C, i, n, r
  <1>6. A \o B \in Seq(Entry) /\ Len(A \o B) = i - 1 + n
        /\ \A k \in 1..(i - 1 + n) : (A \o B)[k] = IF k <= i - 1 THEN A[k] ELSE B[k - (i - 1)]
    <2>1. /\ A \o B \in Seq(Entry) /\ Len(A \o B) = Len(A) + Len(B)
          /\ \A k \in 1..(Len(A) + Len(B)) :
              (A \o B)[k] = IF k <= Len(A) THEN A[k] ELSE B[k - Len(A)]
      BY <1>2, <1>4, ConcatProperties
    <2> QED BY <1>2, <1>4, <2>1
  <1>7. r \in Seq(Entry) /\ Len(r) = Len(q) + n
        /\ \A k \in 1..(Len(q) + n) :
              r[k] = IF k <= i - 1 + n THEN (A \o B)[k] ELSE C[k - (i - 1 + n)]
    <2> DEFINE AB == A \o B
    <2>1. AB \in Seq(Entry) /\ Len(AB) = i - 1 + n
      BY <1>6
    <2> HIDE DEF AB
    <2>2. /\ AB \o C \in Seq(Entry) /\ Len(AB \o C) = Len(q) + n
          /\ \A k \in 1..(Len(q) + n) :
              (AB \o C)[k] = IF k <= i - 1 + n THEN AB[k] ELSE C[k - (i - 1 + n)]
      <3>1. /\ AB \o C \in Seq(Entry) /\ Len(AB \o C) = Len(AB) + Len(C)
            /\ \A k \in 1..(Len(AB) + Len(C)) :
                (AB \o C)[k] = IF k <= Len(AB) THEN AB[k] ELSE C[k - Len(AB)]
        BY <1>3, <2>1, ConcatProperties
      <3>2. Len(AB) + Len(C) = Len(q) + n
        BY <1>1, <1>3, <2>1
      <3> QED BY <1>3, <2>1, <3>1, <3>2
    <2> QED BY <1>5, <2>2 DEF AB
  <1>8. ASSUME NEW k \in 1..Len(r)
        PROVE  \/ /\ k < i \/ k >= i + n
                  /\ Stood(k, i, n) \in 1..Len(q) /\ r[k] = q[Stood(k, i, n)]
               \/ /\ k \in i..(i + n - 1) /\ k - i + 1 \in 1..n
                  /\ r[k] = [at |-> at, event |-> events[k - i + 1]]
    <2>0. k \in Nat /\ 1 <= k /\ k <= Len(q) + n
      BY <1>1, <1>7
    <2>1. CASE k < i
      <3>1. k \in 1..(i - 1) /\ k \in 1..Len(q)
        BY <1>1, <2>0, <2>1
      <3>2. r[k] = q[k]
        BY <1>1, <1>2, <1>6, <1>7, <2>0, <3>1
      <3> QED BY <2>1, <3>1, <3>2 DEF Stood
    <2>2. CASE k \in i..(i + n - 1)
      <3>0. k - (i - 1) = k - i + 1
        BY <1>1, <2>0
      <3>1. k - i + 1 \in 1..n /\ k - (i - 1) = k - i + 1 /\ ~(k <= i - 1) /\ k <= i - 1 + n
        BY <1>1, <2>0, <2>2
      <3>2. r[k] = B[k - i + 1]
        <4>1. r[k] = (A \o B)[k]
          BY <1>1, <1>7, <2>0, <3>1
        <4>2. k \in 1..(i - 1 + n)
          BY <1>1, <2>0, <3>1
        <4>3. (A \o B)[k] = B[k - (i - 1)]
          BY <1>6, <3>1, <4>2
        <4> QED BY <3>0, <4>1, <4>3
      <3> QED BY <1>4, <2>2, <3>1, <3>2
    <2>3. CASE k >= i + n
      <3>1. /\ ~(k <= i - 1 + n) /\ ~(k < i) /\ k - n \in 1..Len(q)
            /\ k - (i - 1 + n) \in 1..(Len(q) - i + 1) /\ i + (k - (i - 1 + n)) - 1 = k - n
        BY <1>1, <2>0, <2>3
      <3>2. r[k] = C[k - (i - 1 + n)]
        BY <1>7, <2>0, <3>1, <1>1
      <3>3. r[k] = q[k - n]
        BY <1>3, <3>1, <3>2
      <3> QED BY <2>3, <3>1, <3>3 DEF Stood
    <2> QED BY <1>1, <2>0, <2>1, <2>2, <2>3
  <1> QED BY <1>7, <1>8 DEF i, n, r, PutIn

\* It stays in order of deadline.
LEMMA ScheduledSorted ==
  ASSUME NEW q \in Seq(Entry), Sorted(q), NEW at \in Nat,
         NEW S, S \subseteq Delivery \cup Notice \cup FaultDue, NEW events \in Seq(S)
  PROVE  Sorted(Scheduled(q, at, events))
  <1> DEFINE r == Scheduled(q, at, events)
             i == Place(q, at)
             n == Len(events)
  <1>1. /\ i \in 1..(Len(q) + 1) /\ Len(q) \in Nat /\ n \in Nat
        /\ DOMAIN r = 1..Len(r) /\ DOMAIN q = 1..Len(q)
    <2>1. r \in Seq(Entry)
      BY ScheduledEntries DEF PutIn
    <2>2. i \in 1..(Len(q) + 1)
      BY PlaceFits
    <2> HIDE DEF r, i
    <2> QED BY <2>1, <2>2
  <1>2. \A k \in 1..(i - 1) : q[k].at <= at
    BY PlaceFits
  <1>3. \A k \in i..Len(q) : at < q[k].at
    BY PlaceFits
  <1>4. Len(r) = Len(q) + n /\
        \A k \in 1..Len(r) :
          \/ /\ k < i \/ k >= i + n
             /\ Stood(k, i, n) \in 1..Len(q) /\ r[k] = q[Stood(k, i, n)]
          \/ /\ k \in i..(i + n - 1) /\ k - i + 1 \in 1..n
             /\ r[k].at = at
    <2>1. PutIn(r, q, at, events, i)
      BY ScheduledEntries
    <2> HIDE DEF r, i
    <2> QED BY <2>1 DEF PutIn
  <1>5. \A k \in 1..Len(q) : q[k].at \in Nat
    BY EntryTimes
  <1> HIDE DEF r, i, n
  <1> SUFFICES ASSUME NEW j \in 1..Len(r), NEW k \in 1..Len(r), j < k PROVE r[j].at <= r[k].at
    BY <1>1 DEF Sorted, r
  <1>6. j \in Nat /\ k \in Nat /\ 1 <= j
    OBVIOUS
  <1>7. CASE j \in i..(i + n - 1)
    <2>1. r[j].at = at /\ ~(j < i)
      BY <1>1, <1>4, <1>6, <1>7
    <2>2. CASE k \in i..(i + n - 1)
      BY <1>1, <1>4, <1>6, <2>1, <2>2
    <2>3. CASE k >= i + n
      <3> DEFINE s == Stood(k, i, n)
      <3>1. s \in i..Len(q) /\ r[k] = q[s]
        BY <1>1, <1>4, <1>6, <2>3 DEF Stood
      <3> HIDE DEF s
      <3>2. s \in 1..Len(q)
        BY <1>1, <3>1
      <3>3. at < q[s].at
        BY <1>3, <3>1
      <3>4. q[s].at \in Nat
        BY <1>5, <3>2
      <3>5. r[j].at = at /\ r[k].at = q[s].at
        BY <2>1, <3>1
      <3> QED BY <3>3, <3>4, <3>5
    <2> QED BY <1>1, <1>6, <1>7, <2>2, <2>3
  <1>8. CASE j < i
    <2>1. j \in 1..Len(q) /\ j \in 1..(i - 1) /\ r[j] = q[j]
      BY <1>1, <1>4, <1>6, <1>8 DEF Stood
    <2>2. CASE k \in i..(i + n - 1)
      BY <1>1, <1>2, <1>4, <1>6, <2>1, <2>2
    <2>3. CASE k >= i + n \/ k < i
      <3>1. Stood(k, i, n) \in 1..Len(q) /\ r[k] = q[Stood(k, i, n)] /\ j < Stood(k, i, n)
        BY <1>1, <1>4, <1>6, <1>8, <2>1, <2>3 DEF Stood
      <3> QED BY <1>1, <2>1, <3>1 DEF Sorted
    <2> QED BY <1>1, <1>6, <2>2, <2>3
  <1>9. CASE j >= i + n
    <2>1. /\ Stood(j, i, n) \in 1..Len(q) /\ r[j] = q[Stood(j, i, n)]
          /\ Stood(k, i, n) \in 1..Len(q) /\ r[k] = q[Stood(k, i, n)]
          /\ Stood(j, i, n) < Stood(k, i, n)
      BY <1>1, <1>4, <1>6, <1>9 DEF Stood
    <2> QED BY <1>1, <2>1 DEF Sorted
  <1> QED BY <1>1, <1>6, <1>7, <1>8, <1>9

\* What was put in is nothing of this stream, or one message behind all that is under way on
\* it and before all that waits for it: the stream is in order still.
Joins(q, at, events, p, waits, heard, top, upTo) ==
    \/ \A x \in DOMAIN events : ~Carries([event |-> events[x]], p)
    \/ /\ Len(events) = 1 /\ at < upTo
       /\ heard < events[1].m.id /\ events[1].m.id <= top
       /\ \A k \in DOMAIN q : Carries(q[k], p) => q[k].at <= at /\ MessageId(q[k]) < events[1].m.id
       /\ \A w \in waits : w.from = p[1] => events[1].m.id < w.m.id

LEMMA StaysInOrder ==
  ASSUME NEW q \in Seq(Entry), Sorted(q), NEW at \in Nat,
         NEW S, S \subseteq Delivery \cup Notice \cup FaultDue, NEW events \in Seq(S),
         NEW p \in Pairs, NEW waits \in SUBSET Write, NEW heard \in Nat, NEW top \in Nat,
         NEW link \in Link, NEW onward \in Link, link.lastArrival <= onward.lastArrival,
         InOrder(q, link, p, waits, heard, top),
         Joins(q, at, events, p, waits, heard, top, onward.lastArrival)
  PROVE  InOrder(Scheduled(q, at, events), onward, p, waits, heard, top)
  <1> DEFINE r == Scheduled(q, at, events)
             i == Place(q, at)
             n == Len(events)
             old(k) == Stood(k, i, n)
             new(k) == k - i + 1
             Old(k) == (k < i \/ k >= i + n) /\ old(k) \in 1..Len(q) /\ r[k] = q[old(k)]
             New(k) == /\ k \in i..(i + n - 1) /\ new(k) \in 1..n
                       /\ r[k] = [at |-> at, event |-> events[new(k)]]
  <1>1. /\ i \in 1..(Len(q) + 1) /\ Len(q) \in Nat /\ n \in Nat
        /\ DOMAIN r = 1..Len(r) /\ DOMAIN q = 1..Len(q) /\ DOMAIN events = 1..n
    <2>1. r \in Seq(Entry)
      BY ScheduledEntries DEF PutIn
    <2>2. i \in 1..(Len(q) + 1)
      BY PlaceFits
    <2> HIDE DEF r, i
    <2> QED BY <2>1, <2>2
  <1>2. \A k \in 1..(i - 1) : q[k].at <= at
    BY PlaceFits
  <1>3. \A k \in i..Len(q) : at < q[k].at
    BY PlaceFits
  <1>4. \A k \in 1..Len(r) : Old(k) \/ New(k)
    <2>1. PutIn(r, q, at, events, i)
      BY ScheduledEntries
    <2> HIDE DEF r, i
    <2> QED BY <2>1 DEF PutIn
  <1>5. \A k \in 1..Len(q) : q[k].at \in Nat
    BY EntryTimes
  <1>6. link.lastArrival \in Nat /\ onward.lastArrival \in Nat
    BY DEF Link
  <1>7. \A j, k \in 1..Len(r) : j < k /\ Old(j) /\ Old(k) => old(j) < old(k)
    <2> HIDE DEF i, n, r
    <2> QED BY <1>1 DEF Stood
  <1>8. \A k \in 1..Len(r) : New(k) =>
          (Carries(r[k], p) <=> Carries([event |-> events[new(k)]], p)) /\ MessageId(r[k]) = events[new(k)].m.id
                 /\ r[k].at = at
    BY DEF Carries, MessageId
  <1>9. \A j, k \in 1..Len(r) : New(j) /\ New(k) /\ n = 1 => j = k
    <2> HIDE DEF i, n, r
    <2> QED BY <1>1
  <1>10. \A j, k \in 1..Len(r) : j < k /\ New(j) /\ Old(k) => at < q[old(k)].at
    <2> HIDE DEF i, n, r
    <2> QED BY <1>1, <1>3 DEF Stood
  <1> HIDE DEF i, n, r, old, new, Old, New
  <1>11. CASE \A x \in DOMAIN events : ~Carries([event |-> events[x]], p)
    <2>1. \A k \in 1..Len(r) : Carries(r[k], p) => Old(k)
      BY <1>1, <1>4, <1>8, <1>11 DEF New
    <2>2. \A k \in 1..Len(r) : Carries(r[k], p) => 
             old(k) \in 1..Len(q) /\ Carries(q[old(k)], p) /\ r[k] = q[old(k)]
      BY <2>1 DEF Old
    <2>3. \A k \in 1..Len(r) : Carries(r[k], p) =>
            r[k].at < onward.lastArrival /\ heard < MessageId(r[k]) /\ MessageId(r[k]) <= top
      BY <1>1, <1>5, <1>6, <2>2 DEF InOrder
    <2>4. \A j, k \in 1..Len(r) :
            j < k /\ Carries(r[j], p) /\ Carries(r[k], p) => MessageId(r[j]) < MessageId(r[k])
      BY <1>1, <1>7, <2>1, <2>2 DEF InOrder
    <2>5. \A w \in waits : w.from = p[1] =>
            /\ heard < w.m.id /\ w.m.id <= top
            /\ \A k \in 1..Len(r) : Carries(r[k], p) => MessageId(r[k]) < w.m.id
      BY <1>1, <2>2 DEF InOrder
    <2> QED BY <1>1, <2>3, <2>4, <2>5 DEF InOrder, r
  <1>12. CASE /\ Len(events) = 1 /\ at < onward.lastArrival
              /\ heard < events[1].m.id /\ events[1].m.id <= top
              /\ \A k \in DOMAIN q :
                    Carries(q[k], p) => q[k].at <= at /\ MessageId(q[k]) < events[1].m.id
              /\ \A w \in waits : w.from = p[1] => events[1].m.id < w.m.id
    <2>1. \A k \in 1..Len(r) : New(k) => MessageId(r[k]) = events[1].m.id /\ r[k].at = at
      <3>1. \A k \in 1..Len(r) : New(k) => new(k) = 1
        BY <1>12 DEF New, n
      <3> QED BY <1>8, <3>1
    <2>2. \A k \in 1..Len(r) : Old(k) /\ Carries(r[k], p) => 
             /\ old(k) \in 1..Len(q) /\ Carries(q[old(k)], p) /\ r[k] = q[old(k)]
             /\ q[old(k)].at <= at
      BY <1>1, <1>12 DEF Old
    <2>3. \A k \in 1..Len(r) : Carries(r[k], p) =>
            r[k].at < onward.lastArrival /\ heard < MessageId(r[k]) /\ MessageId(r[k]) <= top
      <3> SUFFICES ASSUME NEW k \in 1..Len(r), Carries(r[k], p)
                   PROVE  /\ r[k].at < onward.lastArrival
                          /\ heard < MessageId(r[k]) /\ MessageId(r[k]) <= top
        OBVIOUS
      <3>1. CASE New(k)
        BY <1>12, <2>1, <3>1
      <3>2. CASE Old(k)
        <4>1. /\ old(k) \in 1..Len(q) /\ Carries(q[old(k)], p) /\ r[k] = q[old(k)]
              /\ q[old(k)].at <= at
          BY <2>2, <3>2
        <4>2. q[old(k)].at < link.lastArrival /\ q[old(k)].at \in Nat
              /\ heard < MessageId(q[old(k)]) /\ MessageId(q[old(k)]) <= top
          BY <1>1, <1>5, <4>1 DEF InOrder
        <4> QED BY <1>6, <4>1, <4>2
      <3> QED BY <1>4, <3>1, <3>2
    <2>4. ASSUME NEW j \in 1..Len(r), NEW k \in 1..Len(r), j < k, Carries(r[j], p), Carries(r[k], p)
          PROVE  MessageId(r[j]) < MessageId(r[k])
      <3>1. CASE Old(j) /\ Old(k)
        BY <1>1, <1>7, <2>2, <2>4, <3>1 DEF InOrder
      <3>2. CASE Old(j) /\ New(k)
        BY <1>1, <1>12, <2>1, <2>2, <2>4, <3>2
      <3>3. CASE New(j) /\ Old(k)
        BY <1>5, <1>10, <2>2, <2>4, <3>3
      <3>4. CASE New(j) /\ New(k)
        BY <1>9, <1>12, <2>4, <3>4 DEF n
      <3> QED BY <1>4, <3>1, <3>2, <3>3, <3>4
    <2>5. \A w \in waits : w.from = p[1] =>
            /\ heard < w.m.id /\ w.m.id <= top
            /\ \A k \in 1..Len(r) : Carries(r[k], p) => MessageId(r[k]) < w.m.id
      BY <1>1, <1>4, <1>12, <2>1, <2>2 DEF InOrder
    <2> QED BY <1>1, <2>3, <2>4, <2>5 DEF InOrder, r
  <1> QED BY <1>11, <1>12 DEF Joins

-----------------------------------------------------------------------------
(* Worlds: what keeps every stream in order *)

\* Sorts of events and sides of a link.
LEMMA Sorts ==
  /\ \A d \in Delivery : <<d.peer, d.node>> \in Pairs /\ d.kind = "deliver" /\ d.m.id \in Nat
  /\ \A x \in Notice \cup FaultDue : x.kind # "deliver"
  /\ \A x \in Delivery \cup Notice \cup FaultDue : x.kind = "deliver" => x \in Delivery
  /\ \A p \in Pairs : p = <<p[1], p[2]>> /\ p[1] \in N /\ p[2] \in N /\ p[1] # p[2]
  /\ \A x, y \in N : x # y => <<x, y>> \in Pairs
  BY DEF Delivery, Notice, FaultDue, Pairs, Message

\* Messages are told apart by numbers.
LEMMA CarriedNumbers ==
  ASSUME NEW q \in Seq(Entry), NEW p
  PROVE  \A k \in DOMAIN q : Carries(q[k], p) => MessageId(q[k]) \in Nat
  <1>1. \A k \in DOMAIN q : q[k] \in Entry
    OBVIOUS
  <1>2. \A e \in Entry : e.event \in Delivery \cup Notice \cup FaultDue
    BY DEF Entry
  <1> QED BY <1>1, <1>2, Sorts DEF Carries, MessageId

\* What is told of a connection or of a peer leaves every stream as it is.
LEMMA NoticesFlow ==
  ASSUME NEW q, NEW l, NEW waits, NEW heard, NEW top, Flows(q, l, waits, heard, top),
         NEW at \in Nat, NEW events \in Seq(Notice)
  PROVE  Flows(Scheduled(q, at, events), l, waits, heard, top)
  <1> DEFINE r == Scheduled(q, at, events)
  <1>1. q \in Seq(Entry) /\ Sorted(q) /\ l \in [Pairs -> Link]
    BY DEF Flows
  <1>2. r \in Seq(Entry) /\ Sorted(r)
    BY <1>1, ScheduledEntries, ScheduledSorted DEF PutIn
  <1>3. ASSUME NEW p \in Pairs, l[p].kind = "stream"
        PROVE  InOrder(r, l[p], p, waits[p[2]], heard[p], top)
    <2>1. /\ InOrder(q, l[p], p, waits[p[2]], heard[p], top) /\ l[p] \in Link
          /\ waits[p[2]] \in SUBSET Write /\ heard[p] \in Nat /\ top \in Nat
      BY <1>3, Sorts DEF Flows
    <2>2. l[p].lastArrival <= l[p].lastArrival
      BY <2>1 DEF Link
    <2>3. \A x \in DOMAIN events : ~Carries([event |-> events[x]], p)
      BY Sorts DEF Carries
    <2>4. Joins(q, at, events, p, waits[p[2]], heard[p], top, l[p].lastArrival)
      BY <2>3 DEF Joins
    <2> QED BY <1>1, <2>1, <2>2, <2>4, StaysInOrder
  <1> HIDE DEF r
  <1>4. Flows(r, l, waits, heard, top)
    BY <1>2, <1>3 DEF Flows
  <1> QED BY <1>4 DEF r

\* A message that is put in behind all that is under way on its stream, and before all that
\* waits for it, leaves every stream in order; a datagram may be put in anywhere.
LEMMA DeliveryFlows ==
  ASSUME NEW q, NEW l, NEW waits, NEW heard, NEW top, Flows(q, l, waits, heard, top),
         NEW at \in Nat, NEW d \in Delivery, NEW l2 \in [Pairs -> Link],
         \A p \in Pairs : l2[p].kind = l[p].kind /\ l[p].lastArrival <= l2[p].lastArrival,
         l[<<d.peer, d.node>>].kind = "stream" =>
            Joins(q, at, <<d>>, <<d.peer, d.node>>, waits[d.node], heard[<<d.peer, d.node>>], top,
                  l2[<<d.peer, d.node>>].lastArrival)
  PROVE  Flows(Scheduled(q, at, <<d>>), l2, waits, heard, top)
  <1> DEFINE r == Scheduled(q, at, <<d>>)
  <1>1. q \in Seq(Entry) /\ Sorted(q) /\ l \in [Pairs -> Link] /\ <<d>> \in Seq(Delivery)
    BY DEF Flows
  <1>2. r \in Seq(Entry) /\ Sorted(r)
    BY <1>1, ScheduledEntries, ScheduledSorted DEF PutIn
  <1>3. ASSUME NEW p \in Pairs, l[p].kind = "stream"
        PROVE  InOrder(r, l2[p], p, waits[p[2]], heard[p], top)
    <2>1. /\ InOrder(q, l[p], p, waits[p[2]], heard[p], top) /\ l[p] \in Link /\ l2[p] \in Link
          /\ waits[p[2]] \in SUBSET Write /\ heard[p] \in Nat /\ top \in Nat
      BY <1>3, Sorts DEF Flows
    <2>2. l[p].lastArrival <= l2[p].lastArrival
      OBVIOUS
    <2>3. CASE p = <<d.peer, d.node>>
      <3>1. Joins(q, at, <<d>>, p, waits[p[2]], heard[p], top, l2[p].lastArrival)
        BY <1>3, <2>3
      <3> QED BY <1>1, <2>1, <2>2, <3>1, StaysInOrder
    <2>4. CASE p # <<d.peer, d.node>>
      <3>1. DOMAIN <<d>> = {1} /\ <<d>>[1] = d
        OBVIOUS
      <3>2. ~(d.peer = p[1] /\ d.node = p[2])
        BY <2>4, Sorts
      <3>3. \A x \in DOMAIN <<d>> : ~Carries([event |-> <<d>>[x]], p)
        BY <3>1, <3>2 DEF Carries
      <3>4. Joins(q, at, <<d>>, p, waits[p[2]], heard[p], top, l2[p].lastArrival)
        BY <3>3 DEF Joins
      <3> QED BY <1>1, <2>1, <2>2, <3>4, StaysInOrder
    <2> QED BY <2>3, <2>4
  <1> HIDE DEF r
  <1>4. Flows(r, l2, waits, heard, top)
    BY <1>2, <1>3 DEF Flows
  <1> QED BY <1>4 DEF r

\* Links may be cut and mended, writes may be dropped, and more may be written.
LEMMA FlowsLoosely ==
  ASSUME NEW q, NEW l, NEW waits, NEW heard, NEW top, Flows(q, l, waits, heard, top),
         NEW l2 \in [Pairs -> Link],
         \A p \in Pairs : l2[p].kind = l[p].kind /\ l2[p].lastArrival = l[p].lastArrival,
         NEW fewer \in [N -> SUBSET Write], \A x \in N : fewer[x] \subseteq waits[x],
         NEW more \in Nat, top <= more
  PROVE  Flows(q, l2, fewer, heard, more)
  <1>1. ASSUME NEW p \in Pairs, l2[p].kind = "stream"
        PROVE  InOrder(q, l2[p], p, fewer[p[2]], heard[p], more)
    <2>1. InOrder(q, l[p], p, waits[p[2]], heard[p], top) /\ heard[p] \in Nat /\ top \in Nat
      BY <1>1 DEF Flows
    <2>2. fewer[p[2]] \subseteq waits[p[2]] /\ \A w \in waits[p[2]] : w.m.id \in Nat
      BY Sorts DEF Flows, Write, Message
    <2>3. \A k \in DOMAIN q : Carries(q[k], p) => MessageId(q[k]) \in Nat
      BY CarriedNumbers DEF Flows
    <2>4. l2[p].lastArrival = l[p].lastArrival
      OBVIOUS
    <2> QED BY <2>1, <2>2, <2>3, <2>4 DEF InOrder
  <1> QED BY <1>1 DEF Flows

\* What is taken from the head of the queue is the first of its stream.
LEMMA TailFlows ==
  ASSUME NEW q, NEW l, NEW waits, NEW heard, NEW top, Flows(q, l, waits, heard, top), q # <<>>,
         NEW hears \in [Pairs -> Nat],
         \A p \in Pairs : \/ hears[p] = heard[p]
                          \/ Carries(Head(q), p) /\ hears[p] = MessageId(Head(q))
  PROVE  Flows(Tail(q), l, waits, hears, top)
  <1> DEFINE r == Tail(q)
  <1>1. q \in Seq(Entry) /\ Sorted(q) /\ DOMAIN q = 1..Len(q) /\ Len(q) \in Nat /\ Len(q) > 0
        /\ Head(q) = q[1]
    BY DEF Flows
  <1>2. r \in Seq(Entry) /\ Len(r) = Len(q) - 1 /\ DOMAIN r = 1..(Len(q) - 1)
        /\ \A k \in 1..(Len(q) - 1) : r[k] = q[k + 1] /\ k + 1 \in 1..Len(q)
    BY <1>1, HeadTailProperties
  <1> HIDE DEF r
  <1>3. Sorted(r)
    <2>1. ASSUME NEW j \in DOMAIN r, NEW k \in DOMAIN r, j < k PROVE r[j].at <= r[k].at
      <3>1. j + 1 \in DOMAIN q /\ k + 1 \in DOMAIN q /\ j + 1 < k + 1
        BY <1>1, <1>2, <2>1
      <3>2. q[j + 1].at <= q[k + 1].at
        BY <1>1, <3>1 DEF Sorted
      <3> QED BY <1>2, <3>2
    <2> QED BY <2>1 DEF Sorted
  <1>4. ASSUME NEW p \in Pairs, l[p].kind = "stream"
        PROVE  InOrder(r, l[p], p, waits[p[2]], hears[p], top)
    <2>1. InOrder(q, l[p], p, waits[p[2]], heard[p], top)
      BY <1>4 DEF Flows
    <2>2. \A k \in DOMAIN r : Carries(r[k], p) => Carries(q[k + 1], p) /\ k + 1 \in DOMAIN q /\ 1 < k + 1
      BY <1>1, <1>2
    <2>3. CASE hears[p] = heard[p]
      BY <1>1, <1>2, <2>1, <2>2, <2>3 DEF InOrder
    <2>4. CASE Carries(q[1], p) /\ hears[p] = MessageId(q[1])
      <3>1. 1 \in DOMAIN q /\ hears[p] <= top
        BY <1>1, <2>1, <2>4 DEF InOrder
      <3>2. \A k \in DOMAIN r : Carries(r[k], p) => hears[p] < MessageId(r[k])
        BY <1>1, <1>2, <2>1, <2>2, <2>4, <3>1 DEF InOrder
      <3>3. \A w \in waits[p[2]] : w.from = p[1] => hears[p] < w.m.id
        BY <1>1, <2>1, <2>4, <3>1 DEF InOrder
      <3> QED BY <1>1, <1>2, <2>1, <2>2, <3>1, <3>2, <3>3 DEF InOrder
    <2> QED BY <1>1, <2>3, <2>4
  <1>5. Flows(r, l, waits, hears, top)
    BY <1>2, <1>3, <1>4 DEF Flows
  <1> QED BY <1>5 DEF r

-----------------------------------------------------------------------------
(* Putting a message on a link *)

Worlds == [queue : Seq(Entry), links : [Pairs -> Link]]

\* A message that may be written to its stream now: nothing under way on it was written
\* later, and nothing that waits for it earlier.
NextOn(q, m, p, waits, heard, top) ==
    /\ heard < m.id /\ m.id <= top
    /\ \A k \in DOMAIN q : Carries(q[k], p) => MessageId(q[k]) < m.id
    /\ \A w \in waits : w.from = p[1] => m.id < w.m.id

\* A crossing leaves every stream in order, whatever the link draws.
LEMMA CrossedFlows ==
  ASSUME now' \in Nat, NEW world \in Worlds, NEW waits, NEW heard, NEW top,
         Flows(world.queue, world.links, waits, heard, top),
         NEW d \in Delivery, NEW pair, pair = <<d.peer, d.node>>,
         world.links[pair].kind = "stream" =>
            NextOn(world.queue, d.m, pair, waits[d.node], heard[pair], top),
         NEW w \in Crossed(world, pair, d)
  PROVE  w \in Worlds /\ Flows(w.queue, w.links, waits, heard, top)
  <1> DEFINE q == world.queue
             l == world.links
             once == {Scheduled(q, now' + x, <<d>>) : x \in Latencies}
             twice == {Scheduled(r, now' + x, <<d>>) : r \in once, x \in Latencies}
  <1>1. q \in Seq(Entry) /\ l \in [Pairs -> Link] /\ pair \in Pairs /\ l[pair] \in Link
        /\ pair[1] = d.peer /\ pair[2] = d.node
    BY Sorts DEF Worlds
  <1>2. \A x \in Latencies : x \in Nat /\ now' + x \in Nat
    <2>1. Latencies \subseteq Nat
      BY NetworkAssumption
    <2>2. PICK instant \in Nat : now' = instant
      OBVIOUS
    <2>3. \A x \in Nat : instant + x \in Nat
      OBVIOUS
    <2> QED BY <2>1, <2>2, <2>3
  <1>3. CASE l[pair].kind = "stream"
    <2>1. PICK x \in Latencies :
            w = [queue |-> Scheduled(q, Arrival(l[pair], x), <<d>>),
                 links |-> [l EXCEPT ![pair].lastArrival = Arrival(l[pair], x) + 1]]
      BY <1>3 DEF Crossed
    <2> DEFINE at == Arrival(l[pair], x)
               l2 == [l EXCEPT ![pair].lastArrival = at + 1]
    <2>2. at \in Nat /\ l[pair].lastArrival \in Nat /\ l[pair].lastArrival <= at
      <3> DEFINE soon == now' + x
                 prior == l[pair].lastArrival
      <3>1. soon \in Nat
        BY <1>2
      <3>2. prior \in Nat
        BY <1>1 DEF Link
      <3>3. at = IF prior # 0 /\ soon <= prior - 1 THEN prior ELSE soon
        BY DEF Arrival
      <3> HIDE DEF soon, prior, at
      <3>4. at \in Nat /\ prior <= at
        BY <3>1, <3>2, <3>3
      <3> QED BY <3>2, <3>4 DEF prior
    <2> HIDE DEF at
    <2>3. l2 \in [Pairs -> Link] /\ l2[pair].lastArrival = at + 1
      <3>1. at + 1 \in Nat
        BY <2>2
      <3> QED BY <1>1, <3>1 DEF Link
    <2>4. \A p \in Pairs : l2[p].kind = l[p].kind /\ l[p].lastArrival <= l2[p].lastArrival
      <3> SUFFICES ASSUME NEW p \in Pairs
                   PROVE  l2[p].kind = l[p].kind /\ l[p].lastArrival <= l2[p].lastArrival
        OBVIOUS
      <3>1. l[p].lastArrival \in Nat
        BY <1>1 DEF Link
      <3>2. CASE p = pair
        <4>1. l2[p].kind = l[p].kind /\ l2[p].lastArrival = at + 1
          BY <1>1, <3>2 DEF Link
        <4> HIDE DEF l2
        <4> QED BY <2>2, <3>2, <4>1
      <3>3. CASE p # pair
        <4>1. l2[p] = l[p]
          BY <1>1, <3>3
        <4> HIDE DEF l2
        <4> QED BY <3>1, <4>1
      <3> QED BY <3>2, <3>3
    <2>5. \A k \in DOMAIN q : Carries(q[k], pair) => q[k].at <= at
      <3>1. InOrder(q, l[pair], pair, waits[pair[2]], heard[pair], top)
        BY <1>1, <1>3 DEF Flows
      <3>2. \A k \in DOMAIN q : q[k].at \in Nat
        BY <1>1, EntryTimes
      <3>3. \A k \in DOMAIN q : Carries(q[k], pair) => q[k].at < l[pair].lastArrival
        BY <3>1 DEF InOrder
      <3> QED BY <2>2, <3>2, <3>3
    <2>6. Joins(q, at, <<d>>, pair, waits[d.node], heard[pair], top, l2[pair].lastArrival)
      <3>1. Len(<<d>>) = 1 /\ <<d>>[1] = d /\ at < at + 1
        BY <2>2
      <3> QED BY <1>3, <2>3, <2>5, <3>1 DEF Joins, NextOn
    <2> HIDE DEF l2
    <2>7. Flows(Scheduled(q, at, <<d>>), l2, waits, heard, top)
      BY <2>2, <2>3, <2>4, <2>6, DeliveryFlows
    <2>8. w = [queue |-> Scheduled(q, at, <<d>>), links |-> l2]
      BY <2>1 DEF at, l2
    <2> QED BY <2>3, <2>7, <2>8 DEF Worlds, Flows
  <1>4. CASE l[pair].kind = "datagram"
    <2>1. PICK r \in {q} \cup once \cup twice : w = [world EXCEPT !.queue = r]
      BY <1>4 DEF Crossed
    <2>2. \A p \in Pairs : l[p].kind = l[p].kind /\ l[p].lastArrival <= l[p].lastArrival
      BY <1>1 DEF Link
    <2>3. ASSUME NEW s, Flows(s, l, waits, heard, top), NEW x \in Latencies
          PROVE  Flows(Scheduled(s, now' + x, <<d>>), l, waits, heard, top)
      <3> DEFINE at == now' + x
      <3>1. at \in Nat
        BY <1>2
      <3>2. l[<<d.peer, d.node>>].kind # "stream"
        BY <1>4
      <3> HIDE DEF at
      <3>3. Flows(Scheduled(s, at, <<d>>), l, waits, heard, top)
        <4> HIDE DEF l
        <4> QED BY <1>1, <2>2, <2>3, <3>1, <3>2, DeliveryFlows
      <3> QED BY <3>3 DEF at
    <2>4. \A s \in once : Flows(s, l, waits, heard, top)
      BY <2>3
    <2> HIDE DEF once
    <2>5. \A s \in twice : Flows(s, l, waits, heard, top)
      BY <2>3, <2>4
    <2> HIDE DEF twice
    <2>6. Flows(r, l, waits, heard, top)
      BY <2>4, <2>5
    <2>7. w = [queue |-> r, links |-> l]
      BY <2>1 DEF Worlds
    <2> QED BY <1>1, <2>6, <2>7 DEF Worlds, Flows
  <1> QED BY <1>1, <1>3, <1>4, NetworkAssumption DEF Link

\* So does putting a message on a link, cut or not.
LEMMA DispatchedFlows ==
  ASSUME now' \in Nat, connections \in [Pairs -> Nat],
         NEW world \in Worlds, NEW waits, NEW heard, NEW top,
         Flows(world.queue, world.links, waits, heard, top),
         NEW from \in N, NEW to \in N, from # to,
         NEW m \in Message, m.epoch = connections[<<from, to>>],
         world.links[<<from, to>>].kind = "stream" =>
            NextOn(world.queue, m, <<from, to>>, waits[to], heard[<<from, to>>], top),
         NEW w \in Dispatched(world, from, to, m)
  PROVE  w \in Worlds /\ Flows(w.queue, w.links, waits, heard, top)
  <1> DEFINE pair == <<from, to>>
             seen == [world EXCEPT !.links[pair].there = TRUE]
             link == world.links[pair]
             cut == link.cut \/ {from, to} \cap killed # {}
  <1>1. pair \in Pairs /\ link \in Link
    BY Sorts DEF Worlds
  <1>2. /\ seen \in Worlds /\ seen.queue = world.queue
        /\ \A p \in Pairs : /\ seen.links[p].kind = world.links[p].kind
                            /\ seen.links[p].lastArrival = world.links[p].lastArrival
    BY <1>1 DEF Worlds, Link
  <1> HIDE DEF seen
  <1>3. Flows(seen.queue, seen.links, waits, heard, top)
    <2>1. waits \in [N -> SUBSET Write] /\ top \in Nat /\ top <= top
      BY DEF Flows
    <2>2. seen.links \in [Pairs -> Link]
      BY <1>2 DEF Worlds
    <2> QED BY <1>2, <2>1, <2>2, FlowsLoosely
  <1>4. CASE cut /\ Cut(link) = "dropped"
    <2>1. w = seen
      BY <1>4 DEF Dispatched, seen
    <2> QED BY <1>2, <1>3, <2>1
  <1>5. CASE cut /\ Cut(link) # "dropped"
    <2>1. Cut(link) = "broken"
      BY <1>5 DEF Cut
    <2>2. w = [seen EXCEPT !.queue = Scheduled(@, now', <<Break(from, to)>>)]
      BY <1>5, <2>1 DEF Dispatched, seen
    <2>3. Break(from, to) \in Notice
      BY DEF Break, Notice
    <2>4. <<Break(from, to)>> \in Seq(Notice)
      BY <2>3
    <2>5. Flows(Scheduled(seen.queue, now', <<Break(from, to)>>), seen.links, waits, heard, top)
      BY <1>3, <2>4, NoticesFlow
    <2>6. w = [queue |-> Scheduled(seen.queue, now', <<Break(from, to)>>), links |-> seen.links]
      BY <1>2, <2>2 DEF Worlds
    <2> QED BY <2>5, <2>6 DEF Worlds, Flows
  <1>6. CASE ~cut
    <2> DEFINE d == Deliver(from, to, m, connections[pair])
    <2>1. w \in Crossed(seen, pair, d)
      BY <1>6 DEF Dispatched, seen
    <2>2. d \in Delivery /\ pair = <<d.peer, d.node>> /\ d.m = m /\ d.node = to
      BY <1>1 DEF Deliver, Delivery
    <2> HIDE DEF d
    <2>3. seen.links[pair].kind = "stream" =>
            NextOn(seen.queue, d.m, pair, waits[d.node], heard[pair], top)
      BY <1>1, <1>2, <2>2
    <2> HIDE DEF pair
    <2> QED BY <1>2, <1>3, <2>1, <2>2, <2>3, CrossedFlows
  <1> QED BY <1>4, <1>5, <1>6

-----------------------------------------------------------------------------
(* Releasing what was held *)

\* Induction, told of the set of numbers that have a property.
LEMMA SetInduction ==
  ASSUME NEW T, 0 \in T, \A n \in Nat : n \in T => n + 1 \in T
  PROVE  \A n \in Nat : n \in T
  <1> DEFINE F == Nat \ T
  <1> SUFFICES ASSUME F # {} PROVE FALSE
    OBVIOUS
  <1>1. PICK x \in F : \A y \in F : x <= y
    <2> HIDE DEF F
    <2>1. F \subseteq Nat
      BY DEF F
    <2> QED BY <2>1, LeastOne
  <1>2. x \in Nat /\ x # 0 /\ x - 1 \in Nat /\ ~(x <= x - 1) /\ (x - 1) + 1 = x
    OBVIOUS
  <1>3. x - 1 \notin F
    <2> HIDE DEF F
    <2> QED BY <1>1, <1>2
  <1>4. x - 1 \in T
    BY <1>2, <1>3
  <1> QED BY <1>2, <1>4

\* What is still held once the turns up to `id` were taken.
Remaining(node, id) == [held EXCEPT ![node] = {write \in held[node] : write.m.id > id}]

\* The worlds after each turn, and that there are such.
Unrolls(g, n, world, node) ==
    g = [id \in 0..n |-> IF id = 0 THEN {world} ELSE AfterTurn(g[id - 1], node, id)]

LEMMA TurnsExist ==
  ASSUME NEW world, NEW node, NEW n \in Nat
  PROVE  \E g : Unrolls(g, n, world, node)
  <1> DEFINE T == {k \in Nat : \E g : Unrolls(g, k, world, node)}
  <1>1. 0 \in T
    <2> DEFINE g == [id \in 0..0 |-> {world}]
    <2>1. g = [id \in 0..0 |-> IF id = 0 THEN {world} ELSE AfterTurn(g[id - 1], node, id)]
      OBVIOUS
    <2>2. Unrolls(g, 0, world, node)
      BY <2>1 DEF Unrolls
    <2> QED BY <2>2
  <1>2. \A k \in Nat : k \in T => k + 1 \in T
    <2> SUFFICES ASSUME NEW k \in Nat, k \in T
                 PROVE  \E h : Unrolls(h, k + 1, world, node)
      OBVIOUS
    <2>1. PICK g : Unrolls(g, k, world, node)
      OBVIOUS
    <2> HIDE DEF T
    <2>2. g = [id \in 0..k |-> IF id = 0 THEN {world} ELSE AfterTurn(g[id - 1], node, id)]
      BY <2>1 DEF Unrolls
    <2> DEFINE h == [id \in 0..(k + 1) |-> IF id = k + 1 THEN AfterTurn(g[k], node, k + 1) ELSE g[id]]
    <2>3. \A id \in 0..k : h[id] = g[id]
      OBVIOUS
    <2>4. \A id \in 0..(k + 1) : h[id] = IF id = 0 THEN {world} ELSE AfterTurn(h[id - 1], node, id)
      <3> SUFFICES ASSUME NEW id \in 0..(k + 1)
                   PROVE  h[id] = IF id = 0 THEN {world} ELSE AfterTurn(h[id - 1], node, id)
        OBVIOUS
      <3>1. CASE id = k + 1
        <4>1. id # 0 /\ id - 1 = k /\ k \in 0..k /\ h[id] = AfterTurn(g[k], node, k + 1)
          BY <3>1
        <4> HIDE DEF h
        <4> QED BY <2>3, <3>1, <4>1
      <3>2. CASE id # k + 1
        <4>1. id \in 0..k /\ (id # 0 => id - 1 \in 0..k)
          BY <3>2
        <4>2. g[id] = IF id = 0 THEN {world} ELSE AfterTurn(g[id - 1], node, id)
          BY <2>2, <4>1
        <4> HIDE DEF h
        <4> QED BY <2>3, <4>1, <4>2
      <3> QED BY <3>1, <3>2
    <2>5. h = [id \in 0..(k + 1) |-> h[id]]
      OBVIOUS
    <2> HIDE DEF h
    <2>6. h = [id \in 0..(k + 1) |-> IF id = 0 THEN {world} ELSE AfterTurn(h[id - 1], node, id)]
      BY <2>4, <2>5
    <2>7. Unrolls(h, k + 1, world, node)
      BY <2>6 DEF Unrolls
    <2> QED BY <2>7
  <1>3. \A k \in Nat : k \in T
    <2> HIDE DEF T
    <2> QED BY <1>1, <1>2, SetInduction
  <1> QED BY <1>3

\* A turn releases a write that no message under way on its stream follows.
LEMMA FlushedFlows ==
  ASSUME now' \in Nat, Typed, Holding, written \in Nat, held \in [N -> SUBSET Write],
         NEW node \in N, NEW id \in Nat, NEW write \in Released(node, id + 1),
         NEW world \in Worlds,
         Flows(world.queue, world.links, Remaining(node, id), got, written),
         NEW w \in Flushed(world, node, write)
  PROVE  w \in Worlds /\ Flows(w.queue, w.links, Remaining(node, id + 1), got, written)
  <1> DEFINE notice == Notify(write.from, "flushed", node)
             told == [world EXCEPT !.queue = Scheduled(@, now', <<notice>>)]
             q == Scheduled(world.queue, now', <<notice>>)
             p == <<write.from, node>>
             waits == Remaining(node, id)
             fewer == Remaining(node, id + 1)
  <1>1. /\ write \in held[node] /\ write \in Write /\ write.from \in N /\ write.from # node
        /\ write.m \in Message /\ write.m.id = id + 1
        /\ write.m.epoch = connections[<<write.from, node>>] /\ p \in Pairs
        /\ \A v \in held[node] : v.m.id = write.m.id => v = write
        /\ \A v \in held[node] : v.m.id \in Nat
    BY Sorts DEF Released, Holding, Write, Message
  <1>2. <<notice>> \in Seq(Notice)
    BY <1>1 DEF Notify, Notice
  <1>3. Flows(q, world.links, waits, got, written)
    <2> HIDE DEF waits, notice
    <2> QED BY <1>2, NoticesFlow DEF waits
  <1>4. told = [queue |-> q, links |-> world.links]
    BY DEF Worlds
  <1> HIDE DEF q, notice
  <1>5. told \in Worlds /\ told.queue = q /\ told.links = world.links
    BY <1>3, <1>4 DEF Worlds, Flows
  <1>6. w \in Dispatched(told, write.from, node, write.m)
    BY DEF Flushed, notice
  <1> HIDE DEF told
  <1>7. /\ waits[node] = {v \in held[node] : v.m.id > id}
        /\ fewer[node] = {v \in held[node] : v.m.id > id + 1}
        /\ \A x \in N : fewer[x] \subseteq waits[x]
        /\ fewer \in [N -> SUBSET Write]
    BY <1>1 DEF Remaining
  <1>8. Flows(q, world.links, fewer, got, written)
    <2>1. world.links \in [Pairs -> Link] /\ written <= written
      BY DEF Worlds
    <2> HIDE DEF waits, fewer
    <2> QED BY <1>3, <1>7, <2>1, FlowsLoosely
  <1>9. world.links[p].kind = "stream" => NextOn(q, write.m, p, fewer[node], got[p], written)
    <2> SUFFICES ASSUME world.links[p].kind = "stream"
                 PROVE  NextOn(q, write.m, p, fewer[node], got[p], written)
      OBVIOUS
    <2>1. InOrder(q, world.links[p], p, waits[node], got[p], written)
      BY <1>1, <1>3 DEF Flows
    <2>2. write \in waits[node] /\ write.from = p[1]
      BY <1>1, <1>7
    <2>3. \A v \in fewer[node] : write.m.id < v.m.id
      BY <1>1, <1>7
    <2> HIDE DEF waits, fewer, p
    <2> QED BY <2>1, <2>2, <2>3 DEF InOrder, NextOn
  <1> HIDE DEF fewer
  <1>10. Flows(told.queue, told.links, fewer, got, written)
    BY <1>5, <1>8
  <1>11. told.links[<<write.from, node>>].kind = "stream" =>
           NextOn(told.queue, write.m, <<write.from, node>>, fewer[node], got[<<write.from, node>>],
                  written)
    BY <1>5, <1>9
  <1> HIDE DEF p
  <1>12. w \in Worlds /\ Flows(w.queue, w.links, fewer, got, written)
    BY <1>1, <1>5, <1>6, <1>10, <1>11, DispatchedFlows DEF Typed
  <1> QED BY <1>12 DEF fewer

\* However the links draw, what a node that reads again is sent leaves every stream in order.
LEMMA FlushedAllFlows ==
  ASSUME now' \in Nat, Typed, Holding, written \in Nat, held \in [N -> SUBSET Write],
         NEW node \in N, NEW world \in Worlds,
         Flows(world.queue, world.links, held, got, written),
         NEW w \in FlushedAll(world, node)
  PROVE  w \in Worlds /\ Flows(w.queue, w.links, [held EXCEPT ![node] = {}], got, written)
  <1> DEFINE g == CHOOSE f : Unrolls(f, written, world, node)
             After(id) == {v \in Worlds : Flows(v.queue, v.links, Remaining(node, id), got, written)}
             T == {id \in Nat : id <= written => g[id] \subseteq After(id)}
  <1>1. Unrolls(g, written, world, node)
    BY TurnsExist
  <1>2. FlushedAll(world, node) = g[written]
    BY DEF FlushedAll, Unrolls
  <1> HIDE DEF g
  <1>3. \A x \in N : \A v \in held[x] : v.m.id \in Nat /\ v.m.id >= 1 /\ v.m.id <= written
    <2>1. \A x \in N : \A v \in held[x] : v.m.id \in 1..written
      BY DEF Holding
    <2> QED BY <2>1
  <1>4. 0 \in T
    <2>1. g[0] = {world}
      BY <1>1 DEF Unrolls
    <2>2. Remaining(node, 0) = held
      <3>1. {v \in held[node] : v.m.id > 0} = held[node]
        BY <1>3
      <3> QED BY <3>1 DEF Remaining
    <2> QED BY <2>1, <2>2
  <1>5. \A id \in Nat : id \in T => id + 1 \in T
    <2> SUFFICES ASSUME NEW id \in Nat, id \in T, id + 1 <= written, NEW v \in g[id + 1]
                 PROVE  v \in After(id + 1)
      OBVIOUS
    <2>1. g[id] \subseteq After(id) /\ id + 1 \in 0..written /\ id + 1 # 0 /\ (id + 1) - 1 = id
      OBVIOUS
    <2>2. g[id + 1] = AfterTurn(g[id], node, id + 1)
      BY <1>1, <2>1 DEF Unrolls
    <2>3. CASE Released(node, id + 1) = {}
      <3>1. Remaining(node, id + 1) = Remaining(node, id)
        <4>1. {x \in held[node] : x.m.id > id + 1} = {x \in held[node] : x.m.id > id}
          BY <1>3, <2>3 DEF Released
        <4> QED BY <4>1 DEF Remaining
      <3> QED BY <2>1, <2>2, <2>3, <3>1 DEF AfterTurn
    <2>4. CASE Released(node, id + 1) # {}
      <3>1. PICK x \in g[id], write \in Released(node, id + 1) : v \in Flushed(x, node, write)
        BY <2>2, <2>4 DEF AfterTurn
      <3>2. x \in Worlds /\ Flows(x.queue, x.links, Remaining(node, id), got, written)
        BY <2>1
      <3> QED BY <3>1, <3>2, FlushedFlows
    <2> QED BY <2>3, <2>4
  <1>6. written \in T
    <2> HIDE DEF T
    <2> QED BY <1>4, <1>5, SetInduction
  <1>7. w \in Worlds /\ Flows(w.queue, w.links, Remaining(node, written), got, written)
    BY <1>2, <1>6
  <1>8. w.links \in [Pairs -> Link] /\ [held EXCEPT ![node] = {}] \in [N -> SUBSET Write]
        /\ \A x \in N : [held EXCEPT ![node] = {}][x] \subseteq Remaining(node, written)[x]
    BY <1>7 DEF Worlds, Remaining
  <1> DEFINE none == [held EXCEPT ![node] = {}]
             rest == Remaining(node, written)
  <1>9. Flows(w.queue, w.links, none, got, written)
    <2>1. none \in [N -> SUBSET Write] /\ \A x \in N : none[x] \subseteq rest[x]
      BY <1>8
    <2>2. Flows(w.queue, w.links, rest, got, written) /\ written <= written
      BY <1>7
    <2> HIDE DEF none, rest
    <2> QED BY <1>8, <2>1, <2>2, FlowsLoosely
  <1> QED BY <1>7, <1>9

-----------------------------------------------------------------------------
(* What a node does with an input *)

\* A write that is held is the last of its stream.
LEMMA HeldFlows ==
  ASSUME NEW q, NEW l, NEW waits, NEW heard, NEW top, Flows(q, l, waits, heard, top),
         NEW from \in N, NEW to \in N, NEW m \in Message, m.id = top + 1
  PROVE  Flows(q, l, [waits EXCEPT ![to] = @ \cup {[from |-> from, m |-> m]}], heard, top + 1)
  <1> DEFINE write == [from |-> from, m |-> m]
             more == [waits EXCEPT ![to] = @ \cup {write}]
  <1>1. /\ q \in Seq(Entry) /\ Sorted(q) /\ l \in [Pairs -> Link] /\ waits \in [N -> SUBSET Write]
        /\ heard \in [Pairs -> Nat] /\ top \in Nat
    BY DEF Flows
  <1>2. write \in Write /\ write.m.id = top + 1
    BY DEF Write
  <1>3. more \in [N -> SUBSET Write] /\ \A x \in N : more[x] \subseteq waits[x] \cup {write}
    BY <1>1, <1>2
  <1> HIDE DEF more, write
  <1>4. ASSUME NEW p \in Pairs, l[p].kind = "stream"
        PROVE  InOrder(q, l[p], p, more[p[2]], heard[p], top + 1)
    <2>1. InOrder(q, l[p], p, waits[p[2]], heard[p], top) /\ heard[p] \in Nat
      BY <1>1, <1>4 DEF Flows
    <2>2. \A k \in DOMAIN q : Carries(q[k], p) => MessageId(q[k]) \in Nat
      BY <1>1, CarriedNumbers
    <2>3. more[p[2]] \subseteq waits[p[2]] \cup {write} /\ \A w \in waits[p[2]] : w.m.id \in Nat
      BY <1>1, <1>3, Sorts DEF Write, Message
    <2> QED BY <1>1, <1>2, <2>1, <2>2, <2>3 DEF InOrder
  <1>5. Flows(q, l, more, heard, top + 1)
    BY <1>1, <1>3, <1>4 DEF Flows
  <1> QED BY <1>5 DEF more, write

\* A node that sends: what it writes follows all it has written.
LEMMA SendsKeeps ==
  ASSUME now' \in Nat, Typed, Holding, UNCHANGED <<killed, connections, notReading>>,
         NEW node \in N, NEW q, NEW heard, Flows(q, links, held, heard, written),
         Sends(node, q)
  PROVE  Holding' /\ Flows(queue', links', held', heard, written')
  <1>1. PICK to \in N \ {node} :
          LET m == [id |-> written + 1, epoch |-> connections[<<node, to>>]]
              stalled == to \in notReading /\ {node, to} \cap killed = {}
          IN  /\ written' = written + 1
              /\ \/ /\ stalled
                    /\ held' = [held EXCEPT ![to] = @ \cup {[from |-> node, m |-> m]}]
                    /\ queue' = Scheduled(q, now', <<StallNotice(node, to)>>)
                    /\ UNCHANGED links
                 \/ /\ ~stalled
                    /\ \E w \in Dispatched([queue |-> q, links |-> links], node, to, m) :
                          queue' = w.queue /\ links' = w.links
                    /\ UNCHANGED held
    BY DEF Sends
  <1> DEFINE m == [id |-> written + 1, epoch |-> connections[<<node, to>>]]
             write == [from |-> node, m |-> m]
             world == [queue |-> q, links |-> links]
             p == <<node, to>>
  <1>2. /\ q \in Seq(Entry) /\ links \in [Pairs -> Link] /\ held \in [N -> SUBSET Write]
        /\ heard \in [Pairs -> Nat] /\ written \in Nat /\ connections \in [Pairs -> Nat]
    BY DEF Flows, Typed
  <1>3. p \in Pairs /\ p[1] = node /\ p[2] = to
    BY Sorts
  <1>4. m \in Message /\ m.id = written + 1 /\ m.epoch = connections[<<node, to>>]
    BY <1>2, <1>3 DEF Message
  <1>5. written' = written + 1 /\ written + 1 \in Nat /\ written <= written + 1
    BY <1>1, <1>2
  <1>6. CASE to \in notReading /\ {node, to} \cap killed = {}
    <2>1. /\ held' = [held EXCEPT ![to] = @ \cup {write}]
          /\ queue' = Scheduled(q, now', <<StallNotice(node, to)>>)
          /\ links' = links
      BY <1>1, <1>6
    <2>2. Holding'
      <3> SUFFICES ASSUME NEW x \in N, NEW w \in held'[x]
                   PROVE  /\ w.from # x
                          /\ w.m.epoch = connections[<<w.from, x>>]
                          /\ w.m.id \in 1..(written + 1)
                          /\ x \in notReading /\ {x, w.from} \cap killed = {}
                          /\ \A v \in held'[x] : v.m.id = w.m.id => v = w
        BY <1>5 DEF Holding
      <3>1. held'[x] \subseteq held[x] \cup {write} /\ (x # to => held'[x] = held[x])
        BY <1>2, <2>1
      <3>2. write.m.id = written + 1 /\ write.from = node /\ write.m.epoch = connections[<<node, to>>]
        OBVIOUS
      <3> HIDE DEF write, m
      <3>3. \A v \in held[x] : v.m.id \in 1..written
        BY DEF Holding
      <3>4. CASE w \in held[x]
        <4>1. /\ w.from # x /\ w.m.epoch = connections[<<w.from, x>>]
              /\ x \in notReading /\ {x, w.from} \cap killed = {}
              /\ \A v \in held[x] : v.m.id = w.m.id => v = w
          BY <3>4 DEF Holding
        <4>2. w.m.id \in 1..(written + 1) /\ w.m.id # written + 1
          BY <1>2, <3>3, <3>4
        <4> QED BY <3>1, <3>2, <4>1, <4>2
      <3>5. CASE w = write /\ x = to
        <4>1. \A v \in held[x] : v.m.id # written + 1
          BY <1>2, <3>3
        <4>2. \A v \in held'[x] : v.m.id = w.m.id => v = w
          BY <3>1, <3>2, <3>5, <4>1
        <4>3. w.m.id \in 1..(written + 1)
          BY <1>2, <3>2, <3>5
        <4> QED BY <1>6, <3>2, <3>5, <4>2, <4>3
      <3> QED BY <3>1, <3>4, <3>5
    <2>3. Flows(q, links, held', heard, written + 1)
      BY <1>4, <2>1, HeldFlows
    <2>4. <<StallNotice(node, to)>> \in Seq(Notice)
      BY DEF StallNotice, Notify, Notice
    <2>5. Flows(Scheduled(q, now', <<StallNotice(node, to)>>), links, held', heard, written + 1)
      BY <2>3, <2>4, NoticesFlow
    <2> QED BY <1>5, <2>1, <2>2, <2>5
  <1>7. CASE ~(to \in notReading /\ {node, to} \cap killed = {})
    <2>1. PICK w \in Dispatched(world, node, to, m) : queue' = w.queue /\ links' = w.links
      BY <1>1, <1>7
    <2>2. held' = held
      BY <1>1, <1>7
    <2>3. Holding'
      <3>1. \A i \in 1..written : i \in 1..(written + 1)
        BY <1>2
      <3> QED BY <1>5, <2>2, <3>1 DEF Holding
    <2>4. Flows(q, links, held, heard, written + 1)
      <3>1. \A x \in N : held[x] \subseteq held[x]
        OBVIOUS
      <3>2. \A r \in Pairs : links[r].kind = links[r].kind /\ links[r].lastArrival = links[r].lastArrival
        OBVIOUS
      <3> QED BY <1>2, <1>5, <3>1, <3>2, FlowsLoosely
    <2>5. links[p].kind = "stream" => NextOn(q, m, p, held[to], heard[p], written + 1)
      <3> SUFFICES ASSUME links[p].kind = "stream"
                   PROVE  NextOn(q, m, p, held[to], heard[p], written + 1)
        OBVIOUS
      <3>1. InOrder(q, links[p], p, held[to], heard[p], written) /\ heard[p] \in Nat
        BY <1>2, <1>3 DEF Flows
      <3>2. \A v \in held[to] : v.from # node
        BY <1>7 DEF Holding
      <3>3. \A k \in DOMAIN q : Carries(q[k], p) => MessageId(q[k]) \in Nat
        BY <1>2, CarriedNumbers
      <3> HIDE DEF m, p
      <3> QED BY <1>2, <1>3, <1>4, <3>1, <3>2, <3>3 DEF NextOn, InOrder
    <2>6. world \in Worlds /\ world.queue = q /\ world.links = links
      BY <1>2 DEF Worlds
    <2> HIDE DEF world, m
    <2>7. Flows(w.queue, w.links, held, heard, written + 1)
      BY <1>2, <1>4, <2>1, <2>4, <2>5, <2>6, DispatchedFlows
    <2> QED BY <1>5, <2>1, <2>2, <2>3, <2>7
  <1> QED BY <1>6, <1>7

\* Whatever a node does with an input.
LEMMA ReactsKeeps ==
  ASSUME now' \in Nat, Typed, Holding, UNCHANGED <<killed, connections, notReading>>,
         runs' \in [N -> Nat],
         NEW node \in N, NEW q, NEW heard, Flows(q, links, held, heard, written),
         Reacts(node, q)
  PROVE  /\ timers' \subseteq Timer /\ IsFiniteSet(timers')
         /\ Holding' /\ Flows(queue', links', held', heard, written')
  <1>0. \A id : IsFiniteSet({t \in timers : <<t.node, t.id>> # <<node, id>>})
    <2> TAKE id
    <2>1. {t \in timers : <<t.node, t.id>> # <<node, id>>} \subseteq timers
      OBVIOUS
    <2> QED BY <2>1, FS_Subset DEF Typed
  <1>1. CASE Rests(q)
    BY <1>1 DEF Rests, Typed, Holding
  <1>2. CASE Sends(node, q)
    <2>1. timers' = timers
      BY <1>2 DEF Sends
    <2> QED BY <1>2, <2>1, SendsKeeps DEF Typed
  <1>3. CASE Clears(node, q)
    <2>1. /\ queue' = q /\ UNCHANGED <<links, held, written>>
          /\ \E id \in TimerIds : timers' = {t \in timers : <<t.node, t.id>> # <<node, id>>}
      BY <1>3 DEF Clears
    <2>2. timers' \subseteq Timer /\ IsFiniteSet(timers')
      BY <1>0, <2>1 DEF Typed
    <2> QED BY <2>1, <2>2 DEF Holding
  <1>4. CASE Arms(node, q)
    <2>1. queue' = q /\ links' = links /\ held' = held /\ written' = written
      BY <1>4 DEF Arms
    <2>2. PICK id \in TimerIds, after \in Delays :
            timers' = {t \in timers : <<t.node, t.id>> # <<node, id>>}
                         \cup {[node |-> node, id |-> id,
                                at |-> now' + Skewed(node, after), run |-> runs'[node]]}
      BY <1>4 DEF Arms
    <2>3. Skewed(node, after) \in Nat
      <3>1. after \in Nat /\ skew[node] \in Nat
        BY NetworkAssumption DEF Typed
      <3>2. \A x, y \in Nat : (x * y) \div 1000 \in Nat
        <4>1. \A x, y \in Nat : x * y \in Nat
          OBVIOUS
        <4>2. \A x \in Nat : x \div 1000 \in Nat
          OBVIOUS
        <4> QED BY <4>1, <4>2
      <3> QED BY <3>1, <3>2 DEF Skewed
    <2>4. now' + Skewed(node, after) \in Nat
      <3>1. PICK instant \in Nat : now' = instant
        OBVIOUS
      <3> QED BY <2>3, <3>1
    <2>5. timers' \subseteq Timer
      BY <2>2, <2>4 DEF Timer, Typed
    <2>6. IsFiniteSet(timers')
      <3> DEFINE others == {t \in timers : <<t.node, t.id>> # <<node, id>>}
                 timer == [node |-> node, id |-> id, at |-> now' + Skewed(node, after),
                            run |-> runs'[node]]
      <3>1. IsFiniteSet(others) /\ timers' = others \cup {timer}
        BY <1>0, <2>2
      <3> HIDE DEF others, timer
      <3> QED BY <3>1, FS_AddElement
    <2> QED BY <2>1, <2>5, <2>6 DEF Holding
  <1> QED BY <1>1, <1>2, <1>3, <1>4 DEF Reacts

-----------------------------------------------------------------------------
(* The initial states, and the steps that hand something to a node *)

LEMMA InitSimInv == InitSim => SimInv
  <1> SUFFICES ASSUME InitSim PROVE SimInv
    OBVIOUS
  <1>1. PICK schedule \in Schedules :
          queue = [i \in DOMAIN schedule |->
                      [at |-> schedule[i].at,
                       event |-> [kind |-> "fault", fault |-> schedule[i].fault]]]
    BY DEF InitSim
  <1>2. PICK kind \in Kinds :
          links = [p \in Pairs |-> [kind |-> kind, cut |-> FALSE, lastArrival |-> 0, there |-> FALSE]]
    BY DEF InitSim
  <1>3. /\ schedule \in Seq([at : Nat, fault : Fault])
        /\ \A j, k \in DOMAIN schedule : j < k => schedule[j].at <= schedule[k].at
    BY ScheduleAssumption
  <1>4. /\ Len(schedule) \in Nat /\ DOMAIN schedule = 1..Len(schedule)
        /\ \A k \in DOMAIN schedule : schedule[k] \in [at : Nat, fault : Fault]
    <2> DEFINE S == [at : Nat, fault : Fault]
    <2>1. schedule \in Seq(S)
      BY <1>3
    <2> HIDE DEF S
    <2>2. /\ Len(schedule) \in Nat /\ DOMAIN schedule = 1..Len(schedule)
          /\ \A k \in DOMAIN schedule : schedule[k] \in S
      BY <2>1
    <2> QED BY <2>2 DEF S
  <1>5. \A k \in DOMAIN queue : queue[k] \in Entry /\ queue[k].event.kind = "fault"
                                 /\ queue[k].at = schedule[k].at
    BY <1>1, <1>4 DEF Entry, FaultDue
  <1>6. queue \in Seq(Entry) /\ DOMAIN queue = DOMAIN schedule
    <2>1. queue \in [1..Len(schedule) -> Entry]
      BY <1>1, <1>4, <1>5
    <2> QED BY <1>1, <1>4, <2>1
  <1>7. Sorted(queue)
    BY <1>3, <1>5, <1>6 DEF Sorted
  <1>8. links \in [Pairs -> Link]
    BY <1>2 DEF Link
  <1>9. /\ held = [n \in N |-> {}] /\ got = [p \in Pairs |-> 0] /\ written = 0
    BY DEF InitSim
  <1>10. ASSUME NEW p \in Pairs PROVE InOrder(queue, links[p], p, held[p[2]], got[p], written)
    <2>1. p[2] \in N
      BY Sorts
    <2>2. held[p[2]] = {} /\ got[p] <= written
      BY <1>9, <2>1
    <2>3. \A k \in DOMAIN queue : ~Carries(queue[k], p)
      BY <1>5 DEF Carries
    <2> QED BY <2>2, <2>3 DEF InOrder
  <1>11. Flows(queue, links, held, got, written)
    BY <1>6, <1>7, <1>8, <1>9, <1>10 DEF Flows
  <1>12. Typed
    <2>1. timers = {} /\ IsFiniteSet(timers)
      BY FS_EmptySet DEF InitSim
    <2> QED BY <2>1, NetworkAssumption DEF InitSim, Typed
  <1>13. Holding /\ NoSuccessorHears
    BY <1>9 DEF InitSim, Holding, NoSuccessorHears, Quiet
  <1> QED BY <1>11, <1>12, <1>13 DEF SimInv

LEMMA StartKeeps == SimInv /\ StartNode => SimInv' /\ UNCHANGED got
  <1> SUFFICES ASSUME SimInv, StartNode PROVE SimInv' /\ UNCHANGED got
    OBVIOUS
  <1> DEFINE node == Head(starting)
  <1>1. /\ Typed /\ Holding /\ Flows(queue, links, held, got, written)
        /\ starting # <<>> /\ starting' = Tail(starting) /\ now' = now /\ runs' = runs
        /\ Reacts(node, queue) /\ last' = Quiet /\ NoFault /\ UNCHANGED <<batch, got>>
    BY DEF SimInv, StartNode
  <1>2. node \in N /\ starting' \in Seq(N) /\ now' \in Nat /\ runs' \in [N -> Nat]
    BY <1>1 DEF Typed
  <1>3. UNCHANGED <<killed, connections, notReading>>
    BY <1>1 DEF NoFault
  <1> HIDE DEF node
  <1>4. /\ timers' \subseteq Timer /\ IsFiniteSet(timers')
        /\ Holding' /\ Flows(queue', links', held', got, written')
    BY <1>1, <1>2, <1>3, ReactsKeeps
  <1>5. Typed'
    BY <1>1, <1>2, <1>4 DEF Typed, NoFault
  <1> QED BY <1>1, <1>4, <1>5 DEF SimInv, NoSuccessorHears, Quiet

\* Timers and events are due at some first instant.
LEMMA InstantIsOne ==
  ASSUME SimInv, timers # {} \/ queue # <<>>
  PROVE  NextInstant \in Nat
  <1> DEFINE instants == {t.at : t \in timers} \cup {e.at : e \in Range(queue)}
  <1>1. queue \in Seq(Entry) /\ timers \subseteq Timer
    BY DEF SimInv, Flows, Typed
  <1>2. \A e \in Range(queue) : e.at \in Nat
    BY <1>1, EntryTimes DEF Range
  <1>3. \A t \in timers : t.at \in Nat
    BY <1>1 DEF Timer
  <1>4. instants # {}
    <2>1. CASE timers # {}
      BY <2>1
    <2>2. CASE queue # <<>>
      <3>1. 1 \in DOMAIN queue
        BY <1>1, <2>2
      <3> QED BY <3>1 DEF Range
    <2> QED BY <2>1, <2>2
  <1>5. instants \subseteq Nat
    BY <1>2, <1>3
  <1> HIDE DEF instants
  <1>6. \E m \in instants : \A x \in instants : m <= x
    BY <1>4, <1>5, LeastOne
  <1>7. NextInstant \in instants
    BY <1>6 DEF NextInstant, instants
  <1> QED BY <1>5, <1>7

\* A set that is put in some order is a sequence of its members.
LEMMA Listed ==
  ASSUME NEW S, IsFiniteSet(S), NEW s \in SetToSeqs(S)
  PROVE  s \in Seq(S) /\ Len(s) \in Nat /\ DOMAIN s = 1..Len(s)
  <1>1. Cardinality(S) \in Nat
    BY FS_CardinalityType
  <1>2. s \in [1..Cardinality(S) -> S]
    BY DEF SetToSeqs
  <1> QED BY <1>1, <1>2

LEMMA TakeTimersKeeps == SimInv /\ TakeTimers => SimInv' /\ UNCHANGED got
  <1> SUFFICES ASSUME SimInv, TakeTimers PROVE SimInv' /\ UNCHANGED got
    OBVIOUS
  <1>1. /\ Due # {} /\ now' = NextInstant /\ batch' \in SetToSeqs(Due) /\ timers' = timers \ Due
        /\ last' = Quiet /\ NoFault
        /\ UNCHANGED <<queue, starting, links, held, written, armed, silenced, runs, got>>
    BY DEF TakeTimers
  <1>2. Due \subseteq timers /\ IsFiniteSet(Due)
    <2>1. Due \subseteq timers
      BY DEF Due
    <2> QED BY <2>1, FS_Subset DEF SimInv, Typed
  <1>3. now' \in Nat
    BY <1>1, <1>2, InstantIsOne
  <1>4. batch' \in Seq(Timer)
    <2>1. batch' \in Seq(Due)
      BY <1>1, <1>2, Listed
    <2>2. Due \subseteq Timer
      BY <1>2 DEF SimInv, Typed
    <2> QED BY <2>1, <2>2
  <1>5. timers' \subseteq Timer /\ IsFiniteSet(timers')
    <2>1. timers' \subseteq timers
      BY <1>1
    <2> QED BY <2>1, FS_Subset DEF SimInv, Typed
  <1>6. Typed'
    BY <1>1, <1>3, <1>4, <1>5 DEF SimInv, Typed, NoFault
  <1>7. Holding'
    BY <1>1 DEF SimInv, Holding, NoFault
  <1> QED BY <1>1, <1>6, <1>7 DEF SimInv, NoSuccessorHears, Quiet

LEMMA FireTimerKeeps == SimInv /\ FireTimer => SimInv' /\ UNCHANGED got
  <1> SUFFICES ASSUME SimInv, FireTimer PROVE SimInv' /\ UNCHANGED got
    OBVIOUS
  <1> DEFINE t == Head(batch)
  <1>1. /\ Typed /\ Holding /\ Flows(queue, links, held, got, written)
        /\ batch # <<>> /\ batch' = Tail(batch) /\ now' = now /\ runs' = runs
        /\ Reacts(t.node, queue) /\ last'.kind = "timer" /\ NoFault /\ UNCHANGED <<starting, got>>
    BY DEF SimInv, FireTimer
  <1>2. t \in Timer /\ batch' \in Seq(Timer) /\ now' \in Nat /\ runs' \in [N -> Nat]
    BY <1>1 DEF Typed
  <1>3. t.node \in N
    BY <1>2 DEF Timer
  <1>4. UNCHANGED <<killed, connections, notReading>>
    BY <1>1 DEF NoFault
  <1> HIDE DEF t
  <1>5. /\ timers' \subseteq Timer /\ IsFiniteSet(timers')
        /\ Holding' /\ Flows(queue', links', held', got, written')
    BY <1>1, <1>2, <1>3, <1>4, ReactsKeeps
  <1>6. Typed'
    BY <1>1, <1>2, <1>5 DEF Typed, NoFault
  <1> QED BY <1>1, <1>5, <1>6 DEF SimInv, NoSuccessorHears

-----------------------------------------------------------------------------
(* The steps that take an event *)

\* An event that is taken leaves the others in order.
LEMMA Taken ==
  ASSUME SimInv, NEW kinds, Takes(kinds)
  PROVE  /\ now' \in Nat /\ queue # <<>>
         /\ Event \in Delivery \cup Notice \cup FaultDue /\ Event.kind \in kinds
         /\ Flows(Tail(queue), links, held, got, written)
  <1>1. /\ Flows(queue, links, held, got, written) /\ queue \in Seq(Entry) /\ queue # <<>>
        /\ got \in [Pairs -> Nat] /\ now' = Head(queue).at /\ Event.kind \in kinds
    BY DEF SimInv, Flows, Takes, Event
  <1>2. Head(queue) \in Entry
    BY <1>1
  <1>3. Head(queue).at \in Nat /\ Event \in Delivery \cup Notice \cup FaultDue
    BY <1>2 DEF Entry, Event
  <1>4. \A p \in Pairs : got[p] = got[p]
    OBVIOUS
  <1>5. Flows(Tail(queue), links, held, got, written)
    BY <1>1, <1>4, TailFlows
  <1> QED BY <1>1, <1>3, <1>5

LEMMA LoseKeeps == SimInv /\ LoseDelivery => SimInv' /\ UNCHANGED got
  <1> SUFFICES ASSUME SimInv, LoseDelivery PROVE SimInv' /\ UNCHANGED got
    OBVIOUS
  <1>1. /\ Rests(Tail(queue)) /\ last' = Quiet /\ UNCHANGED <<batch, starting, runs, got>>
        /\ UNCHANGED <<killed, skew, restarts, connections, notReading>>
    BY DEF LoseDelivery, FromEvent, NoFault
  <1>2. now' \in Nat /\ Flows(Tail(queue), links, held, got, written)
    BY Taken DEF LoseDelivery
  <1>3. Typed' /\ Holding'
    BY <1>1, <1>2 DEF SimInv, Typed, Holding, Rests
  <1> QED BY <1>1, <1>2, <1>3 DEF SimInv, NoSuccessorHears, Quiet, Rests

\* A message that is handed over was written after all that its stream delivered before, and
\* to the connection that is still there.
LEMMA HandleDeliveryKeeps ==
  SimInv /\ HandleDelivery =>
    SimInv' /\ \A p \in Pairs : links[p].kind = "stream" => got'[p] >= got[p]
  <1> SUFFICES ASSUME SimInv, HandleDelivery
               PROVE  SimInv' /\ \A p \in Pairs : links[p].kind = "stream" => got'[p] >= got[p]
    OBVIOUS
  <1> DEFINE pair == <<Event.peer, Event.node>>
  <1>1. /\ ~Stale(Event) /\ runs' = runs /\ Reacts(Event.node, Tail(queue))
        /\ last' = [kind |-> "received", pair |-> pair, m |-> Event.m]
        /\ got' = IF links[pair].kind = "stream" THEN [got EXCEPT ![pair] = Event.m.id] ELSE got
        /\ UNCHANGED <<batch, starting>>
        /\ UNCHANGED <<killed, skew, restarts, connections, notReading>>
    BY DEF HandleDelivery, FromEvent, NoFault
  <1>2. /\ now' \in Nat /\ queue # <<>> /\ Event \in Delivery \cup Notice \cup FaultDue
        /\ Event.kind = "deliver"
    BY Taken DEF HandleDelivery
  <1>3. /\ Event \in Delivery /\ pair \in Pairs /\ Event.node \in N /\ Event.m.id \in Nat
        /\ pair = <<Event.peer, Event.node>>
        /\ Event.m.epoch = Event.connection
    BY <1>2, Sorts DEF Delivery
  <1>4. /\ Typed /\ Holding /\ Flows(queue, links, held, got, written)
        /\ got \in [Pairs -> Nat] /\ runs' \in [N -> Nat]
    BY <1>1 DEF SimInv, Flows, Typed
  <1>5. Event.connection = connections[pair]
    BY <1>1 DEF Stale
  <1>6. Carries(Head(queue), pair) /\ MessageId(Head(queue)) = Event.m.id
    BY <1>2 DEF Carries, MessageId, Event
  <1> HIDE DEF pair
  <1>7. got' \in [Pairs -> Nat]
    BY <1>1, <1>3, <1>4
  <1>8. \A p \in Pairs : \/ got'[p] = got[p]
                         \/ Carries(Head(queue), p) /\ got'[p] = MessageId(Head(queue))
    BY <1>1, <1>3, <1>4, <1>6
  <1>9. Flows(Tail(queue), links, held, got', written)
    BY <1>2, <1>4, <1>7, <1>8, TailFlows
  <1>10. /\ timers' \subseteq Timer /\ IsFiniteSet(timers')
         /\ Holding' /\ Flows(queue', links', held', got', written')
    BY <1>1, <1>2, <1>3, <1>4, <1>9, ReactsKeeps
  <1>11. Typed'
    BY <1>1, <1>2, <1>4, <1>10 DEF Typed
  <1>12. NoSuccessorHears'
    BY <1>1, <1>3, <1>5 DEF NoSuccessorHears
  <1>13. ASSUME NEW p \in Pairs, links[p].kind = "stream" PROVE got'[p] >= got[p]
    <2>1. got[p] \in Nat /\ Event.m.id \in Nat
      BY <1>3, <1>4
    <2>2. CASE p = pair
      <3>1. InOrder(queue, links[p], p, held[p[2]], got[p], written)
        BY <1>4, <1>13 DEF Flows
      <3>2. queue \in Seq(Entry) /\ 1 \in DOMAIN queue /\ Head(queue) = queue[1]
        BY <1>2 DEF SimInv, Flows
      <3>3. got[p] < MessageId(Head(queue))
        BY <1>6, <2>2, <3>1, <3>2 DEF InOrder
      <3>4. got'[p] = Event.m.id
        BY <1>1, <1>4, <1>13, <2>2
      <3> QED BY <1>6, <2>1, <3>3, <3>4
    <2>3. CASE p # pair
      <3>1. got'[p] = got[p]
        BY <1>1, <1>4, <2>3
      <3> QED BY <2>1, <3>1
    <2> QED BY <2>2, <2>3
  <1> QED BY <1>10, <1>11, <1>12, <1>13 DEF SimInv

LEMMA HandleNoticeKeeps == SimInv /\ HandleNotice => SimInv' /\ UNCHANGED got
  <1> SUFFICES ASSUME SimInv, HandleNotice PROVE SimInv' /\ UNCHANGED got
    OBVIOUS
  <1> DEFINE kinds == {"break", "connected", "restarted", "stalled", "flushed"}
             up == Event.node \notin killed
  <1>1. /\ Takes(kinds)
        /\ runs' = IF Event.kind = "restarted" /\ up
                   THEN [runs EXCEPT ![Event.node] = restarts[Event.node] + 1] ELSE runs
        /\ Reacts(Event.node, Tail(queue)) /\ last' = Quiet
        /\ UNCHANGED <<batch, starting, got>>
        /\ UNCHANGED <<killed, skew, restarts, connections, notReading>>
    BY DEF HandleNotice, FromEvent, NoFault
  <1>2. /\ now' \in Nat /\ Event \in Delivery \cup Notice \cup FaultDue /\ Event.kind \in kinds
        /\ Flows(Tail(queue), links, held, got, written)
    BY <1>1, Taken
  <1>3. Event.node \in N
    BY <1>2 DEF Delivery, Notice, FaultDue
  <1>4. Typed /\ Holding
    BY DEF SimInv
  <1>5. runs' \in [N -> Nat]
    <2>1. restarts[Event.node] + 1 \in Nat /\ runs \in [N -> Nat]
      BY <1>3, <1>4 DEF Typed
    <2> QED BY <1>1, <1>3, <2>1
  <1>6. /\ timers' \subseteq Timer /\ IsFiniteSet(timers')
        /\ Holding' /\ Flows(queue', links', held', got, written')
    BY <1>1, <1>2, <1>3, <1>4, <1>5, ReactsKeeps
  <1>7. Typed'
    BY <1>1, <1>2, <1>4, <1>5, <1>6 DEF Typed
  <1> QED BY <1>1, <1>6, <1>7 DEF SimInv, NoSuccessorHears, Quiet

-----------------------------------------------------------------------------
(* The faults *)

\* What every fault has in common.
LEMMA Applied ==
  ASSUME SimInv, NEW kind, Applies(kind)
  PROVE  /\ Typed /\ Holding /\ Flows(Tail(queue), links, held, got, written)
         /\ now' \in Nat /\ last' = Quiet
         /\ UNCHANGED <<batch, starting, written, armed, silenced, runs, got>>
         /\ Event.fault \in Fault /\ Event.fault.kind = kind
  <1>1. /\ Takes({"fault"}) /\ Event.fault.kind = kind /\ last' = Quiet
        /\ UNCHANGED <<batch, starting, written, armed, silenced, runs, got>>
    BY DEF Applies
  <1>2. /\ now' \in Nat /\ Event \in Delivery \cup Notice \cup FaultDue /\ Event.kind = "fault"
        /\ Flows(Tail(queue), links, held, got, written)
    BY <1>1, Taken
  <1>3. Event.fault \in Fault
    BY <1>2 DEF Delivery, Notice, FaultDue
  <1> QED BY <1>1, <1>2, <1>3 DEF SimInv

\* What each fault is about.
LEMMA FaultSides ==
  ASSUME NEW f \in Fault
  PROVE  /\ f.kind \in {"kill", "restart", "stop", "resume", "skew"} => f.a \in N
         /\ f.kind \in {"partition", "heal", "reconnect", "policy"} => f.a \in N /\ f.b \in N
         /\ f.kind = "policy" => f.cut \in BOOLEAN
         /\ f.kind = "skew" => f.rate \in Nat
  BY DEF Fault

\* The timers of a node that are forgotten.
LEMMA Forgotten ==
  ASSUME Typed, NEW node
  PROVE  ForgetTimers(node) \subseteq Timer /\ IsFiniteSet(ForgetTimers(node))
  <1>1. ForgetTimers(node) \subseteq timers
    BY DEF ForgetTimers
  <1> QED BY <1>1, FS_Subset DEF Typed

\* Writes that are dropped were held, and are not of those that stay.
LEMMA Discarded ==
  ASSUME held \in [N -> SUBSET Write], NEW a, NEW b
  PROVE  /\ DiscardInvolving(a) \in [N -> SUBSET Write]
         /\ \A x \in N : /\ DiscardInvolving(a)[x] \subseteq held[x]
                         /\ \A w \in DiscardInvolving(a)[x] : x # a /\ w.from # a
         /\ DiscardBetween(a, b) \in [N -> SUBSET Write]
         /\ \A x \in N : /\ DiscardBetween(a, b)[x] \subseteq held[x]
                         /\ \A w \in DiscardBetween(a, b)[x] : {x, w.from} # {a, b}
  BY DEF DiscardInvolving, DiscardBetween

\* The streams are as they were, some of the writes that waited for them dropped.
LEMMA DiscardFlows ==
  ASSUME NEW q, Flows(q, links, held, got, written),
         NEW fewer \in [N -> SUBSET Write], \A x \in N : fewer[x] \subseteq held[x]
  PROVE  Flows(q, links, fewer, got, written)
  <1>1. links \in [Pairs -> Link] /\ written \in Nat /\ written <= written
    BY DEF Flows
  <1>2. \A p \in Pairs : links[p].kind = links[p].kind /\ links[p].lastArrival = links[p].lastArrival
    OBVIOUS
  <1> QED BY <1>1, <1>2, FlowsLoosely

LEMMA KillKeeps == SimInv /\ Kill => SimInv' /\ UNCHANGED got
  <1> SUFFICES ASSUME SimInv, Kill PROVE SimInv' /\ UNCHANGED got
    OBVIOUS
  <1> DEFINE node == Event.fault.a
  <1>1. /\ Applies("kill")
        /\ killed' = killed \cup {node} /\ timers' = ForgetTimers(node)
        /\ notReading' = notReading \ {node} /\ held' = DiscardInvolving(node)
        /\ queue' = Tail(queue) /\ UNCHANGED <<links, skew, restarts, connections>>
    BY DEF Kill
  <1>2. /\ Typed /\ Holding /\ Flows(Tail(queue), links, held, got, written)
        /\ now' \in Nat /\ last' = Quiet
        /\ UNCHANGED <<batch, starting, written, armed, silenced, runs, got>>
    BY <1>1, Applied
  <1> HIDE DEF node
  <1>3. held \in [N -> SUBSET Write]
    BY <1>2 DEF Flows
  <1>4. Flows(queue', links', held', got', written')
    BY <1>1, <1>2, <1>3, Discarded, DiscardFlows
  <1>5. Typed'
    BY <1>1, <1>2, Forgotten DEF Typed
  <1>6. Holding'
    <2> SUFFICES ASSUME NEW x \in N, NEW w \in held'[x]
                 PROVE  /\ w.from # x
                        /\ w.m.epoch = connections[<<w.from, x>>]
                        /\ w.m.id \in 1..written
                        /\ x \in notReading' /\ {x, w.from} \cap killed' = {}
                        /\ \A v \in held'[x] : v.m.id = w.m.id => v = w
      BY <1>1, <1>2 DEF Holding
    <2>1. w \in held[x] /\ x # node /\ w.from # node /\ held'[x] \subseteq held[x]
      BY <1>1, <1>3, Discarded
    <2> QED BY <1>1, <1>2, <2>1 DEF Holding
  <1> QED BY <1>2, <1>4, <1>5, <1>6 DEF SimInv, NoSuccessorHears, Quiet

\* A link that is cut or mended keeps what is under way on it.
LEMMA SetCutKeeps ==
  ASSUME SimInv, NEW kind, NEW pairs, NEW cut \in BOOLEAN, SetCut(kind, pairs, cut)
  PROVE  SimInv' /\ UNCHANGED got
  <1>1. /\ Applies(kind)
        /\ links' = [p \in Pairs |-> IF p \in pairs
                                     THEN [links[p] EXCEPT !.cut = cut, !.there = TRUE] ELSE links[p]]
        /\ queue' = Tail(queue) /\ UNCHANGED <<timers, held>>
        /\ UNCHANGED <<killed, skew, restarts, connections, notReading>>
    BY DEF SetCut, NoFault
  <1>2. /\ Typed /\ Holding /\ Flows(Tail(queue), links, held, got, written)
        /\ now' \in Nat /\ last' = Quiet
        /\ UNCHANGED <<batch, starting, written, armed, silenced, runs, got>>
    BY <1>1, Applied
  <1>3. links \in [Pairs -> Link] /\ written \in Nat /\ held \in [N -> SUBSET Write]
    BY <1>2 DEF Flows
  <1>4. \A p \in Pairs : /\ links'[p] \in Link /\ links'[p].kind = links[p].kind
                         /\ links'[p].lastArrival = links[p].lastArrival
    BY <1>1, <1>3 DEF Link
  <1>5. links' \in [Pairs -> Link]
    <2>1. links' = [p \in Pairs |-> links'[p]]
      BY <1>1
    <2> QED BY <1>4, <2>1
  <1>6. Flows(Tail(queue), links', held, got, written)
    <2>1. written <= written /\ \A x \in N : held[x] \subseteq held[x]
      BY <1>3
    <2> QED BY <1>2, <1>3, <1>4, <1>5, <2>1, FlowsLoosely
  <1>7. Typed' /\ Holding'
    BY <1>1, <1>2 DEF Typed, Holding
  <1> QED BY <1>1, <1>2, <1>6, <1>7 DEF SimInv, NoSuccessorHears, Quiet

LEMMA CutsKeep == SimInv /\ (Partition \/ Heal \/ SetLinkPolicy) => SimInv' /\ UNCHANGED got
  <1> SUFFICES ASSUME SimInv, Partition \/ Heal \/ SetLinkPolicy PROVE SimInv' /\ UNCHANGED got
    OBVIOUS
  <1>1. CASE Partition
    BY <1>1, SetCutKeeps DEF Partition
  <1>2. CASE Heal
    BY <1>2, SetCutKeeps DEF Heal
  <1>3. CASE SetLinkPolicy
    <2>1. SetCut("policy", {<<Event.fault.a, Event.fault.b>>}, Event.fault.cut)
      BY <1>3 DEF SetLinkPolicy
    <2>2. Event.fault.cut \in BOOLEAN
      BY <2>1, Applied, FaultSides DEF SetCut
    <2> QED BY <2>1, <2>2, SetCutKeeps
  <1> QED BY <1>1, <1>2, <1>3

LEMMA TimerSkewKeeps == SimInv /\ TimerSkew => SimInv' /\ UNCHANGED got
  <1> SUFFICES ASSUME SimInv, TimerSkew PROVE SimInv' /\ UNCHANGED got
    OBVIOUS
  <1> DEFINE f == Event.fault
  <1>1. /\ Applies("skew") /\ skew' = [skew EXCEPT ![f.a] = f.rate] /\ queue' = Tail(queue)
        /\ UNCHANGED <<timers, held, links, killed, restarts, connections, notReading>>
    BY DEF TimerSkew
  <1>2. /\ Typed /\ Holding /\ Flows(Tail(queue), links, held, got, written)
        /\ now' \in Nat /\ last' = Quiet
        /\ UNCHANGED <<batch, starting, written, armed, silenced, runs, got>>
        /\ f \in Fault /\ f.kind = "skew"
    BY <1>1, Applied
  <1> HIDE DEF f
  <1>3. f.rate \in Nat
    BY <1>2, FaultSides
  <1>4. skew' \in [N -> Nat]
    BY <1>1, <1>2, <1>3 DEF Typed
  <1>5. Typed' /\ Holding'
    BY <1>1, <1>2, <1>4 DEF Typed, Holding
  <1> QED BY <1>1, <1>2, <1>5 DEF SimInv, NoSuccessorHears, Quiet

LEMMA StopReadingKeeps == SimInv /\ StopReading => SimInv' /\ UNCHANGED got
  <1> SUFFICES ASSUME SimInv, StopReading PROVE SimInv' /\ UNCHANGED got
    OBVIOUS
  <1>1. /\ Applies("stop") /\ notReading \subseteq notReading' /\ queue' = Tail(queue)
        /\ UNCHANGED <<timers, held, links, killed, skew, restarts, connections>>
    BY DEF StopReading
  <1>2. /\ Typed /\ Holding /\ Flows(Tail(queue), links, held, got, written)
        /\ now' \in Nat /\ last' = Quiet
        /\ UNCHANGED <<batch, starting, written, armed, silenced, runs, got>>
    BY <1>1, Applied
  <1>3. Typed' /\ Holding'
    BY <1>1, <1>2 DEF Typed, Holding
  <1> QED BY <1>1, <1>2, <1>3 DEF SimInv, NoSuccessorHears, Quiet

LEMMA ResumeReadingKeeps == SimInv /\ ResumeReading => SimInv' /\ UNCHANGED got
  <1> SUFFICES ASSUME SimInv, ResumeReading PROVE SimInv' /\ UNCHANGED got
    OBVIOUS
  <1> DEFINE node == Event.fault.a
             world == [queue |-> Tail(queue), links |-> links]
  <1>1. /\ Applies("resume") /\ notReading' = notReading \ {node}
        /\ held' = [held EXCEPT ![node] = {}]
        /\ \E w \in FlushedAll(world, node) : queue' = w.queue /\ links' = w.links
        /\ UNCHANGED <<timers, killed, skew, restarts, connections>>
    BY DEF ResumeReading
  <1>2. /\ Typed /\ Holding /\ Flows(Tail(queue), links, held, got, written)
        /\ now' \in Nat /\ last' = Quiet
        /\ UNCHANGED <<batch, starting, written, armed, silenced, runs, got>>
        /\ node \in N
    BY <1>1, Applied, FaultSides
  <1> HIDE DEF node
  <1>3. PICK w \in FlushedAll(world, node) : queue' = w.queue /\ links' = w.links
    BY <1>1
  <1>4. held \in [N -> SUBSET Write] /\ written \in Nat
        /\ Tail(queue) \in Seq(Entry) /\ links \in [Pairs -> Link]
    BY <1>2 DEF Flows
  <1>5. world \in Worlds /\ Flows(world.queue, world.links, held, got, written)
    BY <1>2, <1>4 DEF Worlds
  <1> HIDE DEF world
  <1>6. Flows(queue', links', held', got', written')
    BY <1>1, <1>2, <1>3, <1>4, <1>5, FlushedAllFlows
  <1>7. Typed'
    BY <1>1, <1>2 DEF Typed
  <1>8. Holding'
    <2> SUFFICES ASSUME NEW x \in N, NEW v \in held'[x]
                 PROVE  /\ v.from # x
                        /\ v.m.epoch = connections[<<v.from, x>>]
                        /\ v.m.id \in 1..written
                        /\ x \in notReading' /\ {x, v.from} \cap killed = {}
                        /\ \A u \in held'[x] : u.m.id = v.m.id => u = v
      BY <1>1, <1>2 DEF Holding
    <2>1. x # node /\ held'[x] = held[x]
      BY <1>1, <1>4
    <2> QED BY <1>1, <1>2, <2>1 DEF Holding
  <1> QED BY <1>2, <1>6, <1>7, <1>8 DEF SimInv, NoSuccessorHears, Quiet

\* Only the connections that are replaced count up.
LEMMA BumpedNumbers ==
  ASSUME Typed, NEW pairs
  PROVE  /\ Bumped(pairs) \in [Pairs -> Nat]
         /\ \A p \in Pairs : p \notin pairs => Bumped(pairs)[p] = connections[p]
  <1>1. \A p \in Pairs : connections[p] + (IF p \in pairs THEN 1 ELSE 0) \in Nat
    BY DEF Typed
  <1>2. \A p \in Pairs : connections[p] + 0 = connections[p]
    BY DEF Typed
  <1> QED BY <1>1, <1>2 DEF Bumped

LEMMA ReconnectKeeps == SimInv /\ Reconnect => SimInv' /\ UNCHANGED got
  <1> SUFFICES ASSUME SimInv, Reconnect PROVE SimInv' /\ UNCHANGED got
    OBVIOUS
  <1> DEFINE a == Event.fault.a
             b == Event.fault.b
             told == <<Break(a, b), Break(b, a), Notify(a, "connected", b),
                       Notify(b, "connected", a)>>
  <1>1. /\ Applies("reconnect")
        /\ connections' = Bumped({<<a, b>>, <<b, a>>}) /\ held' = DiscardBetween(a, b)
        /\ queue' = Scheduled(Tail(queue), now', told)
        /\ UNCHANGED <<timers, links, killed, skew, restarts, notReading>>
    BY DEF Reconnect
  <1>2. /\ Typed /\ Holding /\ Flows(Tail(queue), links, held, got, written)
        /\ now' \in Nat /\ last' = Quiet
        /\ UNCHANGED <<batch, starting, written, armed, silenced, runs, got>>
        /\ a \in N /\ b \in N
    BY <1>1, Applied, FaultSides
  <1>3. told \in Seq(Notice)
    <2>1. Break(a, b) \in Notice /\ Break(b, a) \in Notice
          /\ Notify(a, "connected", b) \in Notice /\ Notify(b, "connected", a) \in Notice
      BY <1>2 DEF Break, Notify, Notice
    <2> QED BY <2>1
  <1> HIDE DEF a, b, told
  <1>4. held \in [N -> SUBSET Write]
    BY <1>2 DEF Flows
  <1>5. Flows(queue', links', held', got', written')
    <2>1. Flows(Tail(queue), links, held', got, written)
      BY <1>1, <1>2, <1>4, Discarded, DiscardFlows
    <2> QED BY <1>1, <1>2, <1>3, <2>1, NoticesFlow
  <1>6. Typed'
    BY <1>1, <1>2, BumpedNumbers DEF Typed
  <1>7. Holding'
    <2> SUFFICES ASSUME NEW x \in N, NEW w \in held'[x]
                 PROVE  /\ w.from # x
                        /\ w.m.epoch = connections'[<<w.from, x>>]
                        /\ w.m.id \in 1..written
                        /\ x \in notReading /\ {x, w.from} \cap killed = {}
                        /\ \A v \in held'[x] : v.m.id = w.m.id => v = w
      BY <1>1, <1>2 DEF Holding
    <2>0. w \in held[x] /\ held'[x] \subseteq held[x]
      BY <1>1, <1>4, Discarded
    <2>1. {x, w.from} # {a, b} /\ w.from \in N
      <3>1. {x, w.from} # {a, b}
        BY <1>1, <1>4, Discarded
      <3>2. w.from \in N
        BY <1>4, <2>0 DEF Write
      <3> QED BY <3>1, <3>2
    <2>2. /\ w.from # x /\ w.m.epoch = connections[<<w.from, x>>] /\ w.m.id \in 1..written
          /\ x \in notReading /\ {x, w.from} \cap killed = {}
          /\ \A v \in held[x] : v.m.id = w.m.id => v = w
      BY <1>2, <2>0 DEF Holding
    <2>3. <<w.from, x>> \in Pairs /\ <<w.from, x>> \notin {<<a, b>>, <<b, a>>}
      BY <2>0, <2>1, <2>2, Sorts
    <2>4. connections'[<<w.from, x>>] = connections[<<w.from, x>>]
      BY <1>1, <1>2, <2>3, BumpedNumbers
    <2> QED BY <2>0, <2>2, <2>4
  <1> QED BY <1>2, <1>5, <1>6, <1>7 DEF SimInv, NoSuccessorHears, Quiet

LEMMA RestartNodeKeeps == SimInv /\ RestartNode => SimInv' /\ UNCHANGED got
  <1> SUFFICES ASSUME SimInv, RestartNode PROVE SimInv' /\ UNCHANGED got
    OBVIOUS
  <1> DEFINE node == Event.fault.a
             peers == {i \in DOMAIN Added : Added[i] # node /\ HasStream(Added[i], node)}
             pairs == {p \in Pairs : node \in {p[1], p[2]}}
             told(s) == [i \in DOMAIN s |-> Break(Added[s[i]], node)]
                           \o <<Notify(node, "restarted", node)>>
  <1>1. /\ Applies("restart")
        /\ killed' = killed \ {node} /\ timers' = ForgetTimers(node)
        /\ connections' = Bumped(pairs) /\ notReading' = notReading \ {node}
        /\ held' = DiscardInvolving(node) /\ restarts' = [restarts EXCEPT ![node] = @ + 1]
        /\ \E s \in Ascending(peers) : queue' = Scheduled(Tail(queue), now', told(s))
        /\ UNCHANGED <<links, skew>>
    BY DEF RestartNode
  <1>2. /\ Typed /\ Holding /\ Flows(Tail(queue), links, held, got, written)
        /\ now' \in Nat /\ last' = Quiet
        /\ UNCHANGED <<batch, starting, written, armed, silenced, runs, got>>
        /\ node \in N
    BY <1>1, Applied, FaultSides
  <1> HIDE DEF node
  <1>3. PICK s \in Ascending(peers) : queue' = Scheduled(Tail(queue), now', told(s))
    BY <1>1
  <1>4. Added \in Seq(N) /\ Len(Added) \in Nat /\ DOMAIN Added = 1..Len(Added)
    BY NetworkAssumption
  <1>5. peers \subseteq DOMAIN Added /\ IsFiniteSet(peers)
    <2>1. IsFiniteSet(1..Len(Added))
      BY <1>4, FS_Interval
    <2> QED BY <1>4, <2>1, FS_Subset
  <1>6. s \in Seq(peers) /\ Len(s) \in Nat /\ DOMAIN s = 1..Len(s)
    <2> HIDE DEF peers
    <2>1. s \in SetToSeqs(peers)
      BY DEF Ascending
    <2> QED BY <1>5, <2>1, Listed
  <1>7. told(s) \in Seq(Notice)
    <2> DEFINE breaks == [i \in DOMAIN s |-> Break(Added[s[i]], node)]
               again == <<Notify(node, "restarted", node)>>
    <2>1. \A i \in 1..Len(s) : Break(Added[s[i]], node) \in Notice
      <3>1. \A i \in 1..Len(s) : s[i] \in 1..Len(Added)
        <4>1. \A i \in 1..Len(s) : s[i] \in peers
          BY <1>6
        <4> QED BY <1>4, <1>5, <4>1
      <3>2. \A k \in 1..Len(Added) : Added[k] \in N
        BY <1>4
      <3> QED BY <1>2, <3>1, <3>2 DEF Break, Notice
    <2>2. breaks \in [1..Len(s) -> Notice]
      BY <1>6, <2>1
    <2>3. breaks \in Seq(Notice)
      <3> HIDE DEF breaks
      <3> QED BY <1>6, <2>2
    <2>4. again \in Seq(Notice)
      BY <1>2 DEF Notify, Notice
    <2> HIDE DEF breaks, again
    <2>5. breaks \o again \in Seq(Notice)
      BY <2>3, <2>4
    <2> QED BY <2>5 DEF breaks, again
  <1> HIDE DEF told, peers
  <1>8. held \in [N -> SUBSET Write]
    BY <1>2 DEF Flows
  <1>9. Flows(queue', links', held', got', written')
    <2>1. Flows(Tail(queue), links, held', got, written)
      BY <1>1, <1>2, <1>8, Discarded, DiscardFlows
    <2> QED BY <1>1, <1>2, <1>3, <1>7, <2>1, NoticesFlow
  <1>10. Typed'
    <2>1. restarts' \in [N -> Nat]
      BY <1>1, <1>2 DEF Typed
    <2>2. timers' \subseteq Timer /\ IsFiniteSet(timers')
      BY <1>1, <1>2, Forgotten
    <2>3. connections' \in [Pairs -> Nat]
      BY <1>1, <1>2, BumpedNumbers
    <2> QED BY <1>1, <1>2, <2>1, <2>2, <2>3 DEF Typed
  <1>11. Holding'
    <2> SUFFICES ASSUME NEW x \in N, NEW w \in held'[x]
                 PROVE  /\ w.from # x
                        /\ w.m.epoch = connections'[<<w.from, x>>]
                        /\ w.m.id \in 1..written
                        /\ x \in notReading' /\ {x, w.from} \cap killed' = {}
                        /\ \A v \in held'[x] : v.m.id = w.m.id => v = w
      BY <1>1, <1>2 DEF Holding
    <2>0. w \in held[x] /\ x # node /\ w.from # node /\ held'[x] \subseteq held[x]
      BY <1>1, <1>8, Discarded
    <2>1. w.from \in N
      BY <1>8, <2>0 DEF Write
    <2>2. /\ w.from # x /\ w.m.epoch = connections[<<w.from, x>>] /\ w.m.id \in 1..written
          /\ x \in notReading /\ {x, w.from} \cap killed = {}
          /\ \A v \in held[x] : v.m.id = w.m.id => v = w
      BY <1>2, <2>0 DEF Holding
    <2>3. <<w.from, x>> \in Pairs /\ <<w.from, x>> \notin pairs
      BY <2>0, <2>1, <2>2, Sorts
    <2> HIDE DEF pairs
    <2>4. connections'[<<w.from, x>>] = connections[<<w.from, x>>]
      BY <1>1, <1>2, <2>3, BumpedNumbers
    <2> QED BY <1>1, <2>0, <2>2, <2>4
  <1> QED BY <1>2, <1>9, <1>10, <1>11 DEF SimInv, NoSuccessorHears, Quiet

-----------------------------------------------------------------------------
(* The theorems *)

\* A step keeps the invariant, and no stream goes back.
LEMMA SimStep ==
  ASSUME SimInv, [NextSim]_simVars
  PROVE  SimInv' /\ \A p \in Pairs : links[p].kind = "stream" => got'[p] >= got[p]
  <1>1. \A p \in Pairs : got[p] \in Nat
    BY DEF SimInv, Flows
  <1>2. CASE HandleDelivery
    BY <1>2, HandleDeliveryKeeps
  <1>3. CASE NextSim /\ ~HandleDelivery /\ ~Idle
    <2>1. SimInv' /\ UNCHANGED got
      BY <1>3, StartKeeps, TakeTimersKeeps, FireTimerKeeps, LoseKeeps, HandleNoticeKeeps, KillKeeps,
         CutsKeep, TimerSkewKeeps, ReconnectKeeps, RestartNodeKeeps, StopReadingKeeps,
         ResumeReadingKeeps DEF NextSim, Faults
    <2> QED BY <1>1, <2>1
  <1>4. CASE UNCHANGED simVars
    <2>1. UNCHANGED got /\ SimInv'
      BY <1>4 DEF simVars, SimInv, Typed, Holding, NoSuccessorHears
    <2> QED BY <1>1, <2>1
  <1> QED BY <1>2, <1>3, <1>4 DEF Idle

\* In every run of the simulator the queue is in order of deadline, every stream carries its
\* messages in order of writing, and what is held may still be delivered.
THEOREM SimCorrect == SpecSim => []SimInv
  <1>1. InitSim => SimInv
    BY InitSimInv
  <1>2. SimInv /\ [NextSim]_simVars => SimInv'
    BY SimStep
  <1> QED BY <1>1, <1>2, PTL DEF SpecSim

\* What was written to one connection never comes out of the one that replaced it, whether it
\* was in flight or held back (sim.rs handle_delivery, reconnect, discard_held_involving).
THEOREM SuccessorHearsNothing == SpecSim => []NoSuccessorHears
  <1>1. SimInv => NoSuccessorHears
    BY DEF SimInv
  <1> QED BY <1>1, SimCorrect, PTL

\* A stream delivers in the order of writing, through every latency, stall, cut, reconnect and
\* restart (net.rs Link::decide, sim.rs resume_reading).
THEOREM StreamsKeepOrder == SpecSim => StreamsAreFifo
  <1>1. SimInv /\ [NextSim]_simVars =>
          [\A p \in Pairs : links[p].kind = "stream" => got'[p] >= got[p]]_simVars
    BY SimStep
  <1> QED BY <1>1, SimCorrect, PTL DEF SpecSim, StreamsAreFifo
=============================================================================
