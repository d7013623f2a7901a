-------------------------- MODULE NodeDriver_proofs --------------------------
(***************************************************************************)
(* Theorems about the node's driver, for any number of arrivals, any bound *)
(* on the permits and the kernel's channel, and whatever requests, target  *)
(* sets and status codes come (NodeDriver!SpecNode).                       *)
(***************************************************************************)
EXTENDS NodeDriver, ResponseContext_proofs, FiniteSetTheorems

-----------------------------------------------------------------------------
(* Permits *)

Held == {"serving", "resident"}
Handled == Stages \ {"unsent", "queued", "shed"}

\* What stands in the channel waits there, and stands there once.
ChannelHoldsQueued ==
    /\ channel \in Seq(Arrivals)
    /\ \A k \in DOMAIN channel : stage[channel[k]] = "queued"
    /\ \A j, k \in DOMAIN channel : channel[j] = channel[k] => j = k

\* The inductive invariant of the accept loop and its gauge.
GateInv ==
    /\ stage \in [Arrivals -> Stages]
    /\ gate \in [inFlight : Nat, admitted : Nat, refused : Nat]
    /\ IsFiniteSet(Gated(Handled))
    /\ ChannelHoldsQueued
    /\ PermitsAreConserved

\* An arrival that moves between stages of s, or between stages outside s, or
\* that needs no permit, leaves the gated arrivals of s as they were.
LEMMA MoveKeeps ==
  ASSUME stage \in [Arrivals -> Stages], methodOf' = methodOf,
         NEW a \in Arrivals, NEW how, stage' = [stage EXCEPT ![a] = how], NEW s,
         ~Gates(a) \/ (stage[a] \in s <=> how \in s)
  PROVE  Gated(s)' = Gated(s)
  BY DEF Gated, Gates, MethodIs

\* An arrival that enters s is one more.
LEMMA MoveEnters ==
  ASSUME stage \in [Arrivals -> Stages], methodOf' = methodOf,
         NEW a \in Arrivals, NEW how, stage' = [stage EXCEPT ![a] = how], NEW s,
         Gates(a), stage[a] \notin s, how \in s, IsFiniteSet(Gated(s))
  PROVE  /\ IsFiniteSet(Gated(s)')
         /\ Cardinality(Gated(s)') = Cardinality(Gated(s)) + 1
  <1>1. Gated(s)' = Gated(s) \cup {a} /\ a \notin Gated(s)
    BY DEF Gated, Gates, MethodIs
  <1> QED BY <1>1, FS_AddElement

\* An arrival that leaves s is one less.
LEMMA MoveLeaves ==
  ASSUME stage \in [Arrivals -> Stages], methodOf' = methodOf,
         NEW a \in Arrivals, NEW how, stage' = [stage EXCEPT ![a] = how], NEW s,
         Gates(a), stage[a] \in s, how \notin s, IsFiniteSet(Gated(s))
  PROVE  /\ IsFiniteSet(Gated(s)')
         /\ Cardinality(Gated(s)') = Cardinality(Gated(s)) - 1
         /\ Cardinality(Gated(s)) > 0
  <1>1. Gated(s)' = Gated(s) \ {a} /\ a \in Gated(s)
    BY DEF Gated, Gates, MethodIs
  <1>2. Cardinality(Gated(s)) \in Nat /\ Cardinality(Gated(s)) # 0
    BY <1>1, FS_CardinalityType, FS_EmptySet
  <1> QED BY <1>1, <1>2, FS_RemoveElement

\* The gauge counts a part of what was handled.
LEMMA HeldFinite ==
  ASSUME GateInv
  PROVE  IsFiniteSet(Gated(Held)) /\ IsFiniteSet(Gated(Handled))
  <1>1. Gated(Held) \subseteq Gated(Handled)
    BY DEF Gated, Held, Handled, Stages
  <1> QED BY <1>1, FS_Subset DEF GateInv

\* While an arrival moves without having been queued, the channel is unaffected.
LEMMA ChannelUnaffected ==
  ASSUME GateInv, NEW a \in Arrivals, stage[a] # "queued", NEW how,
         stage' = [stage EXCEPT ![a] = how], channel' = channel
  PROVE  ChannelHoldsQueued'
  BY DEF GateInv, ChannelHoldsQueued

\* The gauge and the counters, in the terms of the lemmas above.
LEMMA PermitsAsCounts ==
  PermitsAreConserved <=>
    /\ gate.inFlight = Cardinality(Gated(Held))
    /\ gate.inFlight <= Max1(MaxInFlight)
    /\ gate.admitted + gate.refused = Cardinality(Gated(Handled))
  BY DEF PermitsAreConserved, Held, Handled

\* Counting what a step left where it was.
LEMMA GateFrom ==
  ASSUME stage' \in [Arrivals -> Stages],
         gate' \in [inFlight : Nat, admitted : Nat, refused : Nat],
         IsFiniteSet(Gated(Handled)'), ChannelHoldsQueued',
         gate'.inFlight = Cardinality(Gated(Held)'),
         gate'.inFlight <= Max1(MaxInFlight),
         gate'.admitted + gate'.refused = Cardinality(Gated(Handled)')
  PROVE  GateInv'
  BY DEF GateInv, PermitsAreConserved, Held, Handled

\* A step that leaves the loop, the channel and the gauge alone keeps the invariant.
LEMMA GateStutter ==
  ASSUME GateInv, stage' = stage, channel' = channel, gate' = gate, methodOf' = methodOf
  PROVE  GateInv'
  BY DEF GateInv, PermitsAreConserved, ChannelHoldsQueued, Gated, Gates, MethodIs

\* The permit of a task that ends is given back, if it had one.
LEMMA GateLeave ==
  ASSUME GateInv, NEW a \in Arrivals, stage[a] \in Held, NEW how \in Handled \ Held,
         Leave(a, how), methodOf' = methodOf, channel' = channel
  PROVE  GateInv'
  <1> DEFINE n == Cardinality(Gated(Held))
  <1>1. /\ stage \in [Arrivals -> Stages] /\ stage' = [stage EXCEPT ![a] = how]
        /\ gate \in [inFlight : Nat, admitted : Nat, refused : Nat]
        /\ gate.inFlight = n /\ n <= Max1(MaxInFlight)
        /\ gate.admitted + gate.refused = Cardinality(Gated(Handled))
    BY DEF GateInv, Leave, PermitsAreConserved, Held, Handled
  <1>2. stage' \in [Arrivals -> Stages]
    BY <1>1 DEF Handled
  <1>3. stage[a] # "queued" /\ stage[a] \in Handled /\ how \in Handled /\ how \notin Held
    BY DEF Held, Handled, Stages
  <1>4. Gated(Handled)' = Gated(Handled)
    BY <1>1, <1>3, MoveKeeps
  <1>5. ChannelHoldsQueued'
    BY <1>1, <1>3, ChannelUnaffected
  <1>6. IsFiniteSet(Gated(Held)) /\ IsFiniteSet(Gated(Handled))
    BY HeldFinite
  <1>7. /\ gate'.admitted = gate.admitted /\ gate'.refused = gate.refused
        /\ gate'.inFlight = IF Gates(a) /\ gate.inFlight > 0 THEN n - 1 ELSE n
        /\ gate' \in [inFlight : Nat, admitted : Nat, refused : Nat]
    BY <1>1 DEF Leave, Release
  <1>8. CASE Gates(a)
    <2>1. /\ Cardinality(Gated(Held)') = n - 1
          /\ n > 0
      BY <1>1, <1>3, <1>6, <1>8, MoveLeaves
    <2>2. gate'.inFlight = n - 1 /\ n - 1 <= Max1(MaxInFlight)
      BY <1>1, <1>7, <1>8, <2>1, DriverAssumption DEF Max1
    <2> QED BY <1>1, <1>2, <1>4, <1>5, <1>6, <1>7, <2>1, <2>2, GateFrom
  <1>9. CASE ~Gates(a)
    <2>1. Gated(Held)' = Gated(Held)
      BY <1>1, <1>9, MoveKeeps
    <2> QED BY <1>1, <1>2, <1>4, <1>5, <1>6, <1>7, <1>9, <2>1, GateFrom
  <1> QED BY <1>8, <1>9

\* A move between stages the counters do not tell apart.
LEMMA GateMove ==
  ASSUME GateInv, NEW a \in Arrivals, NEW how \in Stages,
         stage' = [stage EXCEPT ![a] = how],
         stage[a] \in Held <=> how \in Held, stage[a] \in Handled <=> how \in Handled,
         gate' = gate, methodOf' = methodOf, ChannelHoldsQueued'
  PROVE  GateInv'
  <1>1. /\ stage \in [Arrivals -> Stages] /\ IsFiniteSet(Gated(Handled))
        /\ gate \in [inFlight : Nat, admitted : Nat, refused : Nat]
        /\ gate.inFlight = Cardinality(Gated(Held)) /\ gate.inFlight <= Max1(MaxInFlight)
        /\ gate.admitted + gate.refused = Cardinality(Gated(Handled))
    BY DEF GateInv, PermitsAreConserved, Held, Handled
  <1>2. Gated(Held)' = Gated(Held) /\ Gated(Handled)' = Gated(Handled)
    BY <1>1, MoveKeeps
  <1> QED BY <1>1, <1>2, GateFrom

\* The kernel queues an arrival, or sheds it.
LEMMA GateArrive ==
  ASSUME GateInv, NEW a \in Arrivals, Arrive(a)
  PROVE  GateInv'
  <1>1. /\ stage[a] = "unsent" /\ gate' = gate /\ methodOf' = methodOf
        /\ stage \in [Arrivals -> Stages] /\ ChannelHoldsQueued
    BY DEF Arrive, GateInv
  <1>2. CASE Len(channel) < QueueMax
    <2>1. channel' = Append(channel, a) /\ stage' = [stage EXCEPT ![a] = "queued"]
      BY <1>2 DEF Arrive
    <2>2. \A k \in DOMAIN channel : channel[k] # a /\ channel[k] \in Arrivals
      BY <1>1 DEF ChannelHoldsQueued
    <2>3. ChannelHoldsQueued'
      BY <1>1, <2>1, <2>2 DEF ChannelHoldsQueued
    <2>4. "queued" \in Stages /\ "queued" \notin Held /\ "queued" \notin Handled
          /\ "unsent" \notin Held /\ "unsent" \notin Handled
      BY DEF Held, Handled, Stages
    <2> QED BY <1>1, <2>1, <2>3, <2>4, GateMove
  <1>3. CASE ~(Len(channel) < QueueMax)
    <2>1. channel' = channel /\ stage' = [stage EXCEPT ![a] = "shed"]
      BY <1>3 DEF Arrive
    <2>2. ChannelHoldsQueued'
      BY <1>1, <2>1, ChannelUnaffected
    <2>3. "shed" \in Stages /\ "shed" \notin Held /\ "shed" \notin Handled
          /\ "unsent" \notin Held /\ "unsent" \notin Handled
      BY DEF Held, Handled, Stages
    <2> QED BY <1>1, <2>1, <2>2, <2>3, GateMove
  <1> QED BY <1>2, <1>3

\* The accept loop takes a permit, refuses, or passes what is exempt.
LEMMA GateAccept ==
  ASSUME GateInv, Accept
  PROVE  GateInv'
  <1> DEFINE a == Head(channel)
  <1>1. /\ stage \in [Arrivals -> Stages] /\ IsFiniteSet(Gated(Handled))
        /\ gate \in [inFlight : Nat, admitted : Nat, refused : Nat]
        /\ gate.inFlight = Cardinality(Gated(Held)) /\ gate.inFlight <= Max1(MaxInFlight)
        /\ gate.admitted + gate.refused = Cardinality(Gated(Handled))
        /\ ChannelHoldsQueued /\ methodOf' = methodOf
    BY DEF GateInv, PermitsAreConserved, Held, Handled, Accept
  <1>2. /\ channel # <<>> /\ channel' = Tail(channel)
        /\ channel \in Seq(Arrivals) /\ Len(channel) > 0
    BY <1>1 DEF Accept, ChannelHoldsQueued
  <1>3. a \in Arrivals /\ a = channel[1] /\ 1 \in DOMAIN channel /\ stage[a] = "queued"
    BY <1>1, <1>2 DEF ChannelHoldsQueued
  <1>4. ASSUME NEW how, stage' = [stage EXCEPT ![a] = how]
        PROVE  ChannelHoldsQueued'
    <2>1. /\ Tail(channel) \in Seq(Arrivals)
          /\ \A k \in DOMAIN Tail(channel) :
               k + 1 \in DOMAIN channel /\ Tail(channel)[k] = channel[k + 1]
      BY <1>2
    <2>2. \A k \in DOMAIN Tail(channel) : Tail(channel)[k] # a
      BY <1>1, <1>2, <1>3, <2>1 DEF ChannelHoldsQueued
    <2>3. \A k \in DOMAIN Tail(channel) : stage'[Tail(channel)[k]] = "queued"
      BY <1>1, <1>4, <2>1, <2>2 DEF ChannelHoldsQueued
    <2>4. \A j, k \in DOMAIN Tail(channel) : Tail(channel)[j] = Tail(channel)[k] => j = k
      BY <1>1, <1>2, <2>1 DEF ChannelHoldsQueued
    <2> QED BY <1>2, <2>1, <2>3, <2>4 DEF ChannelHoldsQueued
  <1>5. /\ "queued" \notin Held /\ "queued" \notin Handled
        /\ "serving" \in Held /\ "serving" \in Handled /\ "serving" \in Stages
        /\ "refused" \notin Held /\ "refused" \in Handled /\ "refused" \in Stages
    BY DEF Held, Handled, Stages
  <1>6. IsFiniteSet(Gated(Held))
    BY HeldFinite
  <1> HIDE DEF a
  <1>7. CASE ~Gates(a)
    <2>1. stage' = [stage EXCEPT ![a] = "serving"] /\ gate' = gate
      BY <1>7 DEF Accept, a
    <2>2. Gated(Held)' = Gated(Held) /\ Gated(Handled)' = Gated(Handled)
      BY <1>1, <1>3, <1>7, <2>1, MoveKeeps
    <2>3. stage' \in [Arrivals -> Stages] /\ ChannelHoldsQueued'
      BY <1>1, <1>3, <1>4, <1>5, <2>1
    <2> QED BY <1>1, <2>1, <2>2, <2>3, GateFrom
  <1>8. CASE Gates(a) /\ gate.inFlight < Max1(MaxInFlight)
    <2>1. /\ gate' = [gate EXCEPT !.inFlight = @ + 1, !.admitted = @ + 1]
          /\ stage' = [stage EXCEPT ![a] = "serving"]
      BY <1>1, <1>8, DriverAssumption DEF Accept, a, Max1
    <2>2. /\ IsFiniteSet(Gated(Held)') /\ IsFiniteSet(Gated(Handled)')
          /\ Cardinality(Gated(Held)') = Cardinality(Gated(Held)) + 1
          /\ Cardinality(Gated(Handled)') = Cardinality(Gated(Handled)) + 1
      BY <1>1, <1>3, <1>5, <1>6, <1>8, <2>1, MoveEnters
    <2>3. stage' \in [Arrivals -> Stages] /\ ChannelHoldsQueued'
      BY <1>1, <1>3, <1>4, <1>5, <2>1
    <2>a. /\ gate.inFlight \in Nat /\ gate.admitted \in Nat /\ gate.refused \in Nat
          /\ gate.inFlight + 1 \in Nat /\ gate.admitted + 1 \in Nat
      BY <1>1
    <2>4. /\ gate' \in [inFlight : Nat, admitted : Nat, refused : Nat]
          /\ gate'.inFlight = gate.inFlight + 1
          /\ gate'.admitted = gate.admitted + 1 /\ gate'.refused = gate.refused
          /\ gate.inFlight \in Nat /\ gate.admitted \in Nat /\ gate.refused \in Nat
      BY <1>1, <2>1, <2>a, Zenon
    <2>5. gate'.inFlight <= Max1(MaxInFlight)
      BY <1>8, <2>4, DriverAssumption DEF Max1
    <2>6. gate'.admitted + gate'.refused = Cardinality(Gated(Handled)')
      BY <1>1, <2>2, <2>4
    <2> QED BY <1>1, <2>2, <2>3, <2>4, <2>5, <2>6, GateFrom
  <1>9. CASE Gates(a) /\ ~(gate.inFlight < Max1(MaxInFlight))
    <2>1. /\ gate' = [gate EXCEPT !.refused = @ + 1]
          /\ stage' = [stage EXCEPT ![a] = "refused"]
      BY <1>9 DEF Accept, a
    <2>2. /\ IsFiniteSet(Gated(Handled)')
          /\ Cardinality(Gated(Handled)') = Cardinality(Gated(Handled)) + 1
      BY <1>1, <1>3, <1>5, <1>9, <2>1, MoveEnters
    <2>3. Gated(Held)' = Gated(Held)
      <3>1. stage[a] \in Held <=> "refused" \in Held
        BY <1>3, <1>5
      <3> HIDE DEF Held
      <3> QED BY <1>1, <1>3, <2>1, <3>1, MoveKeeps
    <2>4. stage' \in [Arrivals -> Stages] /\ ChannelHoldsQueued'
      BY <1>1, <1>3, <1>4, <1>5, <2>1
    <2>5. /\ gate' \in [inFlight : Nat, admitted : Nat, refused : Nat]
          /\ gate'.inFlight = gate.inFlight
          /\ gate'.admitted = gate.admitted /\ gate'.refused = gate.refused + 1
          /\ gate.admitted \in Nat /\ gate.refused \in Nat
      BY <1>1, <2>1
    <2>6. gate'.admitted + gate'.refused = Cardinality(Gated(Handled)')
      BY <1>1, <2>2, <2>5
    <2> QED BY <1>1, <2>2, <2>3, <2>4, <2>5, <2>6, GateFrom
  <1> QED BY <1>7, <1>8, <1>9

\* What `perform` and the branch loop do to the accept loop: nothing, or Focal's
\* task ends.
LEMMA TaskSteps ==
  ASSUME Perform \/ RoundEnds \/ Idle \/ (\E r \in Requests : Start(r))
           \/ (\E id \in readers : OnBranch(id))
  PROVE  \/ stage' = stage /\ channel' = channel /\ gate' = gate /\ methodOf' = methodOf
         \/ /\ stage[Focal] = "serving" /\ channel' = channel /\ methodOf' = methodOf
            /\ \E how \in {"failed", "done"} : Leave(Focal, how)
  <1>1. CASE Perform
    <2>1. CASE PerformForward
      BY <2>1 DEF PerformForward, Unaddressable, Abandon, Due, nodeVars
    <2>2. CASE PerformRespond
      BY <2>2 DEF PerformRespond, Abandon, Due, nodeVars
    <2>3. CASE PerformResolve \/ PerformVerify \/ PerformNothing
      BY <2>3 DEF PerformResolve, PerformVerify, PerformNothing, nodeVars
    <2> QED BY <1>1, <2>1, <2>2, <2>3 DEF Perform
  <1>2. CASE RoundEnds
    BY <1>2 DEF RoundEnds, Reading
  <1>3. CASE Idle \/ \E r \in Requests : Start(r)
    BY <1>3 DEF Idle, Start, allVars, nodeVars
  <1>4. CASE \E id \in readers : OnBranch(id)
    BY <1>4 DEF OnBranch, HearProvisional, HearFinal, HearTimeout, HearTransportError,
                HearIrrelevant, StreamEnds, Hear, nodeVars
  <1> QED BY <1>1, <1>2, <1>3, <1>4

\* Where a move may start and end.
LEMMA StageFacts ==
  /\ Held \subseteq Handled /\ Handled \subseteq Stages
  /\ "serving" \in Held /\ "resident" \in Held
  /\ {"responded", "failed", "done"} \subseteq Handled \ Held
  /\ {"refused", "overloaded"} \subseteq Handled \ Held
  /\ {"responded", "failed", "done", "refused", "overloaded", "serving", "resident"}
       \subseteq Stages
  BY DEF Held, Handled, Stages

\* Every step of the node keeps the gauge.
LEMMA GateStep ==
  ASSUME GateInv, NextNode
  PROVE  GateInv'
  <1>1. ASSUME NEW a \in Arrivals, Arrive(a) PROVE GateInv'
    BY <1>1, GateArrive
  <1>2. ASSUME NEW a \in Arrivals, RespondOverloaded(a) PROVE GateInv'
    <2>1. /\ stage[a] = "refused" /\ stage' = [stage EXCEPT ![a] = "overloaded"]
          /\ channel' = channel /\ gate' = gate /\ methodOf' = methodOf
      BY <1>2 DEF RespondOverloaded
    <2>2. ChannelHoldsQueued'
      BY <2>1, ChannelUnaffected
    <2>3. /\ "overloaded" \in Stages
          /\ stage[a] \in Held <=> "overloaded" \in Held
          /\ stage[a] \in Handled <=> "overloaded" \in Handled
      BY <2>1, StageFacts
    <2> QED BY <2>1, <2>2, <2>3, GateMove
  <1>3. ASSUME NEW a \in Arrivals, ServeOther(a) PROVE GateInv'
    <2>1. /\ stage[a] = "serving" /\ channel' = channel /\ methodOf' = methodOf
          /\ \/ \E how \in {"responded", "failed", "done"} : Leave(a, how)
             \/ stage' = [stage EXCEPT ![a] = "resident"] /\ gate' = gate
      BY <1>3 DEF ServeOther
    <2>2. CASE \E how \in {"responded", "failed", "done"} : Leave(a, how)
      <3>1. PICK how \in Handled \ Held : Leave(a, how)
        BY <2>2, StageFacts
      <3>2. stage[a] \in Held
        BY <2>1, StageFacts
      <3> QED BY <2>1, <3>1, <3>2, GateLeave
    <2>3. CASE stage' = [stage EXCEPT ![a] = "resident"] /\ gate' = gate
      <3>1. ChannelHoldsQueued'
        BY <2>1, <2>3, ChannelUnaffected
      <3>2. /\ "resident" \in Stages
            /\ stage[a] \in Held <=> "resident" \in Held
            /\ stage[a] \in Handled <=> "resident" \in Handled
        BY <2>1, StageFacts
      <3> QED BY <2>1, <2>3, <3>1, <3>2, GateMove
    <2> QED BY <2>1, <2>2, <2>3
  <1>4. ASSUME NEW a \in Arrivals, ResidentEnds(a) PROVE GateInv'
    <2>1. /\ stage[a] = "resident" /\ channel' = channel /\ methodOf' = methodOf
          /\ \E how \in {"responded", "failed"} : Leave(a, how)
      BY <1>4 DEF ResidentEnds
    <2>2. PICK how \in Handled \ Held : Leave(a, how)
      BY <2>1, StageFacts
    <2>3. stage[a] \in Held
      BY <2>1, StageFacts
    <2> QED BY <2>1, <2>2, <2>3, GateLeave
  <1>5. CASE Accept
    BY <1>5, GateAccept
  <1>6. CASE Perform \/ RoundEnds \/ Idle \/ (\E r \in Requests : Start(r))
               \/ (\E id \in readers : OnBranch(id))
    <2>1. CASE /\ stage[Focal] = "serving" /\ channel' = channel /\ methodOf' = methodOf
               /\ \E how \in {"failed", "done"} : Leave(Focal, how)
      <3>1. PICK how \in Handled \ Held : Leave(Focal, how)
        BY <2>1, StageFacts
      <3>2. stage[Focal] \in Held /\ Focal \in Arrivals
        BY <2>1, StageFacts DEF Arrivals
      <3> QED BY <2>1, <3>1, <3>2, GateLeave
    <2> QED BY <1>6, <2>1, TaskSteps, GateStutter
  <1> QED BY <1>1, <1>2, <1>3, <1>4, <1>5, <1>6 DEF NextNode

\* An empty node counts nothing.
LEMMA GateInit == InitNode => GateInv
  <1> SUFFICES ASSUME InitNode PROVE GateInv
    OBVIOUS
  <1>1. stage = [a \in Arrivals |-> "unsent"] /\ channel = <<>>
        /\ gate = [inFlight |-> 0, admitted |-> 0, refused |-> 0]
    BY DEF InitNode
  <1>2. "unsent" \in Stages /\ "unsent" \notin Held /\ "unsent" \notin Handled
    BY DEF Held, Handled, Stages
  <1>3. Gated(Held) = {} /\ Gated(Handled) = {}
    BY <1>1, <1>2 DEF Gated
  <1>4. stage \in [Arrivals -> Stages] /\ ChannelHoldsQueued
    BY <1>1, <1>2 DEF ChannelHoldsQueued
  <1>5. PermitsAreConserved
    <2>1. Cardinality(Gated(Held)) = 0 /\ Cardinality(Gated(Handled)) = 0
      BY <1>3, FS_EmptySet
    <2>2. gate.inFlight = 0 /\ gate.admitted + gate.refused = 0 /\ 0 <= Max1(MaxInFlight)
      BY <1>1, DriverAssumption DEF Max1
    <2> QED BY <2>1, <2>2, PermitsAsCounts
  <1> QED BY <1>1, <1>3, <1>4, <1>5, FS_EmptySet DEF GateInv

\* DP-11: however tasks end, the gauge of the admission bound is the number of
\* gated tasks alive, stays within the bound, and every gated arrival that left the
\* channel was admitted or refused exactly once.
THEOREM PermitsConserved == SpecNode => []PermitsAreConserved
  <1>1. InitNode => GateInv
    BY GateInit
  <1>2. GateInv /\ [NextNode]_allVars => GateInv'
    <2> SUFFICES ASSUME GateInv, [NextNode]_allVars PROVE GateInv'
      OBVIOUS
    <2>1. CASE NextNode
      BY <2>1, GateStep
    <2>2. CASE UNCHANGED allVars
      BY <2>2, GateStutter DEF allVars, nodeVars
    <2> QED BY <2>1, <2>2
  <1>3. GateInv => PermitsAreConserved
    BY DEF GateInv
  <1> QED BY <1>1, <1>2, <1>3, PTL DEF SpecNode

-----------------------------------------------------------------------------
(* Effects not yet performed *)

\* The branches a list of effects launches, and the two other things it may hold
\* that something waits for: a question, and a final response.
ForwardIds(es) == {es[k].id : k \in {j \in DOMAIN es : es[j].kind = "Forward"}}
Asks(es) == \E k \in DOMAIN es : es[k].kind \in {"ResolveTargets", "VerifyToken"}
Answers(es) == \E k \in DOMAIN es : es[k].kind = "Respond" /\ es[k].status >= 200

ActiveIds(bs) == {bs[k].id : k \in {j \in DOMAIN bs : bs[j].state # "Concluded"}}

\* The branches somebody will hear of.
Watched == readers \cup forwarded \cup ForwardIds(todo)

\* What holds of the engine whatever the driver does: an accepted request is over
\* only when it is answered, and every final collected is one.
CoreInv ==
    /\ IndInv
    /\ finished /\ request # NoRequest => answered
    /\ \A f \in finals : f.status >= 200

\* What holds of Focal's task until the transport ends it.
TaskInv ==
    /\ CoreInv
    /\ GateInv
    /\ todo \in Seq(Effect) /\ told \in Seq(Nat)
    /\ stage[Focal] # "failed" =>
         /\ ~finished => ActiveIds(branches) \subseteq Watched
         /\ answered => told # <<>> \/ Answers(todo)

\* The same when every target gives a copy: nobody is left waiting for nothing.
SettleInv ==
    /\ TaskInv
    /\ QueueBuilds
    /\ stage[Focal] # "failed" /\ ~finished =>
         /\ asked # "none" => Asks(todo)
         /\ request # NoRequest /\ asked = "none" => Watched # {}
    /\ TaskEndsSettled

\* Joining two lists of effects joins what they launch, ask and answer.
LEMMA JoinEffects ==
  ASSUME NEW s \in Seq(Effect), NEW t \in Seq(Effect)
  PROVE  /\ s \o t \in Seq(Effect)
         /\ ForwardIds(s) \subseteq ForwardIds(s \o t)
         /\ ForwardIds(t) \subseteq ForwardIds(s \o t)
         /\ Asks(s) \/ Asks(t) => Asks(s \o t)
         /\ Answers(s) \/ Answers(t) => Answers(s \o t)
  <1>1. /\ \A k \in DOMAIN s : k \in DOMAIN (s \o t) /\ (s \o t)[k] = s[k]
        /\ \A k \in DOMAIN t : /\ Len(s) + k \in DOMAIN (s \o t)
                               /\ (s \o t)[Len(s) + k] = t[k]
    OBVIOUS
  <1>2. ForwardIds(s) \subseteq ForwardIds(s \o t)
    BY <1>1, Zenon DEF ForwardIds
  <1>3. ForwardIds(t) \subseteq ForwardIds(s \o t)
    BY <1>1, Zenon DEF ForwardIds
  <1>4. Asks(s) \/ Asks(t) => Asks(s \o t)
    BY <1>1, Zenon DEF Asks
  <1>5. Answers(s) \/ Answers(t) => Answers(s \o t)
    BY <1>1, Zenon DEF Answers
  <1> QED BY <1>2, <1>3, <1>4, <1>5

\* Taking the first effect takes nothing but that effect.
LEMMA NextEffect ==
  ASSUME NEW es \in Seq(Effect), es # <<>>
  PROVE  /\ Tail(es) \in Seq(Effect)
         /\ \A id \in ForwardIds(es) :
              id \in ForwardIds(Tail(es)) \/ (Head(es).kind = "Forward" /\ Head(es).id = id)
         /\ Asks(es) => Asks(Tail(es)) \/ Head(es).kind \in {"ResolveTargets", "VerifyToken"}
         /\ Answers(es) =>
              Answers(Tail(es)) \/ (Head(es).kind = "Respond" /\ Head(es).status >= 200)
  <1>1. /\ Tail(es) \in Seq(Effect) /\ Head(es) = es[1]
        /\ \A k \in DOMAIN es : \/ k = 1
                                \/ k - 1 \in DOMAIN Tail(es) /\ Tail(es)[k - 1] = es[k]
    OBVIOUS
  <1>2. \A id \in ForwardIds(es) :
           id \in ForwardIds(Tail(es)) \/ (Head(es).kind = "Forward" /\ Head(es).id = id)
    <2> SUFFICES ASSUME NEW id \in ForwardIds(es)
                 PROVE  \/ id \in ForwardIds(Tail(es))
                        \/ Head(es).kind = "Forward" /\ Head(es).id = id
      OBVIOUS
    <2>1. PICK k \in DOMAIN es : es[k].kind = "Forward" /\ es[k].id = id
      BY DEF ForwardIds
    <2>2. CASE k = 1
      BY <1>1, <2>1, <2>2
    <2>3. CASE k - 1 \in DOMAIN Tail(es) /\ Tail(es)[k - 1] = es[k]
      BY <2>1, <2>3, Zenon DEF ForwardIds
    <2> QED BY <1>1, <2>2, <2>3
  <1>3. Asks(es) => Asks(Tail(es)) \/ Head(es).kind \in {"ResolveTargets", "VerifyToken"}
    BY <1>1, Zenon DEF Asks
  <1>4. Answers(es) =>
           Answers(Tail(es)) \/ (Head(es).kind = "Respond" /\ Head(es).status >= 200)
    BY <1>1, Zenon DEF Answers
  <1> QED BY <1>1, <1>2, <1>3, <1>4

\* A list that begins with a final response answers.
LEMMA AnswersFirst ==
  ASSUME NEW status \in 200..699, NEW from \in SUBSET Nat, NEW t \in Seq(Effect)
  PROVE  Answers(<<Respond(status, from)>> \o t)
  <1>1. status \in 100..699
    OBVIOUS
  <1>2. <<Respond(status, from)>> \in Seq(Effect)
    BY <1>1, RespondEffect, Zenon
  <1>3. Answers(<<Respond(status, from)>>)
    BY DEF Answers, Respond
  <1> QED BY <1>2, <1>3, JoinEffects

-----------------------------------------------------------------------------
(* What one call of the engine does to its branches *)

\* A concluded branch is not waited for any more.
LEMMA ConcludeActive ==
  ASSUME NEW bs \in Seq(Branch), NEW id, NEW status
  PROVE  ActiveIds(Conclude(bs, id, status)) \subseteq ActiveIds(bs) \ {id}
  <1> DEFINE cs == Conclude(bs, id, status)
  <1>1. \A k \in DOMAIN bs : bs[k] \in Branch
    OBVIOUS
  <1>2. DOMAIN cs = DOMAIN bs
    BY DEF Conclude
  <1>3. ASSUME NEW k \in DOMAIN bs, bs[k].id = id
        PROVE  cs[k].state = "Concluded"
    <2>1. cs[k] = [bs[k] EXCEPT !.state = "Concluded", !.code = status]
      BY <1>3 DEF Conclude
    <2> QED BY <1>1, <2>1, ZenonT(40) DEF Branch
  <1>4. ASSUME NEW k \in DOMAIN bs, bs[k].id # id
        PROVE  cs[k] = bs[k]
    BY <1>4 DEF Conclude
  <1> HIDE DEF cs
  <1>5. ActiveIds(cs) \subseteq ActiveIds(bs) \ {id}
    BY <1>2, <1>3, <1>4 DEF ActiveIds
  <1> QED BY <1>5 DEF cs

\* Cancelling or hearing of branches that are waited for adds none.
LEMMA CancellingActive ==
  ASSUME NEW bs \in Seq(Branch), NEW ids \in SUBSET ActiveIds(bs)
  PROVE  ActiveIds(SetCancelling(bs, ids)) \subseteq ActiveIds(bs)
  <1> DEFINE cs == SetCancelling(bs, ids)
  <1>1. \A k \in DOMAIN bs : bs[k] \in Branch
    OBVIOUS
  <1>2. DOMAIN cs = DOMAIN bs
    BY DEF SetCancelling
  <1>3. ASSUME NEW k \in DOMAIN bs
        PROVE  cs[k].id = bs[k].id /\ (cs[k] = bs[k] \/ bs[k].id \in ids)
    <2>1. CASE bs[k].id \in ids
      <3>1. cs[k] = [bs[k] EXCEPT !.state = "Cancelling"]
        BY <2>1 DEF SetCancelling
      <3> QED BY <1>1, <2>1, <3>1, ZenonT(40) DEF Branch
    <2>2. CASE bs[k].id \notin ids
      BY <2>2 DEF SetCancelling
    <2> QED BY <2>1, <2>2
  <1> HIDE DEF cs
  <1>4. ActiveIds(cs) \subseteq ActiveIds(bs)
    BY <1>2, <1>3 DEF ActiveIds
  <1> QED BY <1>4 DEF cs

LEMMA ProvisionalActive ==
  ASSUME NEW bs \in Seq(Branch), NEW id
  PROVE  ActiveIds(MarkProvisional(bs, id)) = ActiveIds(bs)
  <1> DEFINE cs == MarkProvisional(bs, id)
  <1>1. \A k \in DOMAIN bs : bs[k] \in Branch
    OBVIOUS
  <1>2. DOMAIN cs = DOMAIN bs
    BY DEF MarkProvisional
  <1>3. ASSUME NEW k \in DOMAIN bs
        PROVE  cs[k].id = bs[k].id /\ cs[k].state = bs[k].state
    <2>1. CASE bs[k].id = id /\ bs[k].state = "Pending"
      <3>1. cs[k] = [bs[k] EXCEPT !.sawProvisional = TRUE, !.cancelQueued = FALSE]
        BY <2>1 DEF MarkProvisional
      <3> QED BY <1>1, <3>1, ZenonT(40) DEF Branch
    <2>2. CASE ~(bs[k].id = id /\ bs[k].state = "Pending")
      BY <2>2 DEF MarkProvisional
    <2> QED BY <2>1, <2>2
  <1> HIDE DEF cs
  <1>4. ActiveIds(cs) = ActiveIds(bs)
    BY <1>2, <1>3 DEF ActiveIds
  <1> QED BY <1>4 DEF cs

\* The branches of a fork are the old ones and those its effects launch.
LEMMA ForkLaunchIds ==
  ASSUME NEW r, NEW fresh \in Seq(Branch), NEW n
  PROVE  \A k \in DOMAIN fresh : fresh[k].id \in ForwardIds(ForkEffects(r, fresh, n))
  <1> DEFINE es == ForkEffects(r, fresh, n)
  <1>0. Len(fresh) \in Nat /\ DOMAIN fresh = 1..Len(fresh)
    OBVIOUS
  <1>1. CASE r.method = "INVITE"
    <2>1. ASSUME NEW k \in DOMAIN fresh
          PROVE  fresh[k].id \in ForwardIds(es)
      <3>1. /\ 2 * k - 1 \in 1..(2 * Len(fresh))
            /\ (2 * k - 1) % 2 = 1 /\ ((2 * k - 1) + 1) \div 2 = k
        BY <1>0
      <3>2. 2 * k - 1 \in DOMAIN es /\ es[2 * k - 1] = Forward(fresh[k].id, Share(r, n), RecordRoutes(r))
        BY <1>1, <3>1 DEF ForkEffects
      <3>3. es[2 * k - 1].kind = "Forward" /\ es[2 * k - 1].id = fresh[k].id
        BY <3>2 DEF Forward
      <3> HIDE DEF es
      <3> QED BY <3>2, <3>3 DEF ForwardIds
    <2> QED BY <2>1
  <1>2. CASE r.method # "INVITE"
    <2>1. ASSUME NEW k \in DOMAIN fresh
          PROVE  fresh[k].id \in ForwardIds(es)
      <3>2. k \in DOMAIN es /\ es[k] = Forward(fresh[k].id, Share(r, n), RecordRoutes(r))
        BY <1>0, <1>2 DEF ForkEffects
      <3>3. es[k].kind = "Forward" /\ es[k].id = fresh[k].id
        BY <3>2 DEF Forward
      <3> HIDE DEF es
      <3> QED BY <3>2, <3>3 DEF ForwardIds
    <2> QED BY <2>1
  <1> QED BY <1>1, <1>2

\* What a call leaves to be heard of: the branches that were active, without the
\* one it concluded, and those its effects launch.  A call that answers says so.
Covers(active) == ~finished' => ActiveIds(branches') \subseteq active \cup ForwardIds(effects')
Reports == answered' => answered \/ Answers(effects')
EndsAnswered == finished' => finished \/ answered'

\* respond_and_finish answers.
LEMMA FinishReports ==
  ASSUME NEW bs \in Seq(Branch), NEW status \in 200..699, RespondAndFinish(bs, status)
  PROVE  finished' /\ Reports /\ EndsAnswered
  <1>1. CancelBranches(PendingIds(bs)) \in Seq(Effect)
    BY IdsType, CancelEffects
  <1>2. {} \in SUBSET Nat
    OBVIOUS
  <1>3. Answers(<<Respond(status, {})>> \o CancelBranches(PendingIds(bs)))
    BY <1>1, <1>2, AnswersFirst, Zenon
  <1>4. <<Respond(status, {})>> \o CancelBranches(PendingIds(bs)) \in Seq(Effect)
    <2>1. status \in 100..699
      OBVIOUS
    <2>2. <<Respond(status, {})>> \in Seq(Effect)
      BY <1>2, <2>1, RespondEffect, Zenon
    <2> QED BY <1>1, <2>2
  <1>5. Answers(effects')
    BY <1>3, <1>4, SimpleEffects, JoinEffects, Zenon DEF RespondAndFinish
  <1> QED BY <1>5 DEF RespondAndFinish, Reports, EndsAnswered

\* Forking a group: its branches are in the effects.
LEMMA ForkCovers ==
  ASSUME NEW r, NEW bs \in Seq(Branch), NEW ts \in Seq(Target), ForkNextGroup(r, bs, ts)
  PROVE  Covers(ActiveIds(bs)) /\ Reports /\ EndsAnswered
  <1>1. PICK n \in {k \in 1..Len(ts) : IsLeadingGroup(ts, k, MaxBreadth(r))} :
          \E m \in 0..n : \E pos \in [1..m -> 1..n] :
            LaunchGroup(r, bs, ts, n, [k \in 1..m |-> NewBranch(Len(bs) + pos[k] - 1)])
    BY Zenon DEF ForkNextGroup
  <1>2. PICK m \in 0..n : \E pos \in [1..m -> 1..n] :
            LaunchGroup(r, bs, ts, n, [k \in 1..m |-> NewBranch(Len(bs) + pos[k] - 1)])
    BY <1>1
  <1>3. PICK pos \in [1..m -> 1..n] :
            LaunchGroup(r, bs, ts, n, [k \in 1..m |-> NewBranch(Len(bs) + pos[k] - 1)])
    BY <1>2
  <1> DEFINE fresh == [k \in 1..m |-> NewBranch(Len(bs) + pos[k] - 1)]
  <1>4. n \in Nat /\ n \in 1..Len(ts) /\ m \in Nat
    OBVIOUS
  <1>5. fresh \in Seq(Branch)
    <2>1. \A k \in 1..m : Len(bs) + pos[k] - 1 \in Nat
      BY <1>4
    <2>2. fresh \in [1..m -> Branch]
      BY <2>1, NewBranchType
    <2> QED BY <1>4, <2>2, FunctionIsSeq
  <1>6. LaunchGroup(r, bs, ts, n, fresh)
    BY <1>3
  <1> HIDE DEF fresh
  <1>7. CASE bs \o fresh = <<>> /\ n = Len(ts)
    <2>1. RespondAndFinish(<<>>, 480)
      BY <1>6, <1>7 DEF LaunchGroup
    <2>2. <<>> \in Seq(Branch) /\ 480 \in 200..699
      OBVIOUS
    <2> QED BY <2>1, <2>2, FinishReports, ZenonT(60) DEF Covers
  <1>8. CASE ~(bs \o fresh = <<>> /\ n = Len(ts))
    <2>1. /\ branches' = bs \o fresh /\ effects' = ForkEffects(r, fresh, n)
          /\ answered' = answered /\ finished' = finished
      BY <1>6, <1>8 DEF LaunchGroup
    <2>2. \A k \in DOMAIN fresh : fresh[k].id \in ForwardIds(effects')
      BY <1>5, <2>1, ForkLaunchIds, Zenon
    <2>3. \A k \in DOMAIN (bs \o fresh) :
             \/ k \in DOMAIN bs /\ (bs \o fresh)[k] = bs[k]
             \/ k - Len(bs) \in DOMAIN fresh /\ (bs \o fresh)[k] = fresh[k - Len(bs)]
      BY <1>5
    <2>4. ActiveIds(branches') \subseteq ActiveIds(bs) \cup ForwardIds(effects')
      <3> SUFFICES ASSUME NEW k \in DOMAIN branches', branches'[k].state # "Concluded"
                   PROVE  branches'[k].id \in ActiveIds(bs) \cup ForwardIds(effects')
        BY DEF ActiveIds
      <3>1. CASE k \in DOMAIN bs /\ branches'[k] = bs[k]
        BY <3>1 DEF ActiveIds
      <3>2. CASE k - Len(bs) \in DOMAIN fresh /\ branches'[k] = fresh[k - Len(bs)]
        BY <2>2, <3>2, Zenon
      <3> QED BY <2>1, <2>3, <3>1, <3>2
    <2> QED BY <2>1, <2>4 DEF Covers, Reports, EndsAnswered
  <1> QED BY <1>7, <1>8

\* The chosen final is a final.
LEMMA SelectReports ==
  ASSUME NEW bs \in Seq(Branch), NEW fs \in SUBSET [branch : Nat, status : 100..699],
         \A f \in fs : f.status >= 200, SelectAndAnswer(bs, fs)
  PROVE  finished' /\ Reports /\ EndsAnswered
  <1>1. CASE answered
    BY <1>1 DEF SelectAndAnswer, Reports, EndsAnswered
  <1>2. CASE ~answered
    <2>1. PICK best \in {f.status : f \in fs} :
             \/ best = 503 /\ RespondAndFinish(bs, 500)
             \/ /\ answered' = TRUE
                /\ finished' = TRUE
                /\ effects' = << Respond(best, SpeaksFor(fs, best)), Terminate >>
      BY <1>2 DEF SelectAndAnswer
    <2>2. best \in 200..699 /\ SpeaksFor(fs, best) \in SUBSET Nat
      <3>1. \A f \in fs : f.branch \in Nat /\ f.status \in 100..699
        BY ZenonT(60)
      <3>2. SpeaksFor(fs, best) \in SUBSET Nat
        BY <3>1 DEF SpeaksFor
      <3>3. PICK f \in fs : best = f.status
        OBVIOUS
      <3>4. best \in 100..699 /\ best >= 200
        BY <3>1, <3>3, ZenonT(40)
      <3>5. best \in 200..699
        BY <3>4
      <3> QED BY <3>2, <3>5
    <2>3. CASE best = 503 /\ RespondAndFinish(bs, 500)
      <3>1. 500 \in 200..699
        OBVIOUS
      <3> QED BY <2>3, <3>1, FinishReports, ZenonT(60)
    <2>4. CASE effects' = << Respond(best, SpeaksFor(fs, best)), Terminate >>
               /\ answered' = TRUE /\ finished' = TRUE
      <3>1. effects' = << Respond(best, SpeaksFor(fs, best)) >> \o << Terminate >>
        BY <2>4
      <3>2. Answers(effects')
        BY <2>2, <3>1, AnswersFirst, SimpleEffects, Zenon
      <3> QED BY <2>4, <3>2 DEF Reports, EndsAnswered
    <2> QED BY <2>1, <2>3, <2>4
  <1> QED BY <1>1, <1>2

\* After a conclusion the context waits for its active branches, forks, or answers.
LEMMA AfterConclusionCovers ==
  ASSUME queued \in Seq(Target), NEW bs \in Seq(Branch),
         NEW fs \in SUBSET [branch : Nat, status : 100..699],
         \A f \in fs : f.status >= 200, AfterConclusion(bs, fs)
  PROVE  Covers(ActiveIds(bs)) /\ Reports /\ EndsAnswered
  <1>1. CASE HasPending(bs)
    <2>1. branches' = bs /\ answered' = answered /\ finished' = finished
      BY <1>1 DEF AfterConclusion
    <2> QED BY <2>1 DEF Covers, Reports, EndsAnswered
  <1>2. CASE ~HasPending(bs) /\ MayForkNextGroup
    <2>1. ForkNextGroup(request, bs, queued)
      BY <1>2 DEF AfterConclusion
    <2> QED BY <2>1, ForkCovers
  <1>3. CASE ~HasPending(bs) /\ ~MayForkNextGroup
    <2>1. SelectAndAnswer(bs, fs)
      BY <1>3 DEF AfterConclusion
    <2>2. finished' /\ Reports /\ EndsAnswered
      BY <2>1, SelectReports, Zenon
    <2> QED BY <2>2 DEF Covers
  <1> QED BY <1>1, <1>2, <1>3

-----------------------------------------------------------------------------
(* The inputs this driver feeds *)

\* A call, seen from the driver: it keeps the engine's invariant, and its effects
\* name every branch it launched and the final response it chose.
Call(active) == CoreInv' /\ Covers(active) /\ Reports

\* An open context that ends with an answer, or does not end, keeps what holds of it.
LEMMA CoreFrom ==
  ASSUME CoreInv, ~finished, IndInv', EndsAnswered,
         \A f \in finals' : f \in finals \/ f.status >= 200
  PROVE  CoreInv'
  BY DEF CoreInv, EndsAnswered

\* The shapes a call finds.
LEMMA CoreTypes ==
  ASSUME CoreInv
  PROVE  /\ IndInv /\ branches \in Seq(Branch) /\ queued \in Seq(Target)
         /\ finals \in SUBSET [branch : Nat, status : 100..699]
         /\ \A f \in finals : f.status >= 200
  BY DEF CoreInv, IndInv, TypeOK

\* A branch reported failed is not waited for.
LEMMA FailureCall ==
  ASSUME CoreInv, NEW id, OnBranchFailure(id)
  PROVE  /\ Call(ActiveIds(branches) \ {id})
         /\ asked = "none" /\ asked' = "none" /\ request # NoRequest /\ request' = request
         /\ AfterConclusion(Conclude(branches, id, 503),
                            finals \cup {[branch |-> id, status |-> 503]})
  <1>1. id \in BranchIds
    BY DEF OnBranchFailure, Known, BranchIds
  <1>2. id \in Nat /\ request # NoRequest /\ asked = "none" /\ IndInv'
    BY <1>1, BranchFacts, FailureInv DEF CoreInv
  <1> DEFINE bs == Conclude(branches, id, 503)
             fs == finals \cup {[branch |-> id, status |-> 503]}
  <1>3. bs \in Seq(Branch)
    BY CoreTypes, ConcludeType
  <1>4. fs \in SUBSET [branch : Nat, status : 100..699]
    BY <1>2, CoreTypes
  <1>5. \A f \in fs : f \in finals \/ f.status >= 200
    OBVIOUS
  <1>6. \A f \in fs : f.status >= 200
    BY <1>5, CoreTypes
  <1>7. AfterConclusion(bs, fs) /\ ~finished
    BY DEF OnBranchFailure
  <1>8. ActiveIds(bs) \subseteq ActiveIds(branches) \ {id}
    BY CoreTypes, ConcludeActive
  <1> HIDE DEF bs, fs
  <1>9. Covers(ActiveIds(bs)) /\ Reports /\ EndsAnswered
    BY <1>3, <1>4, <1>6, <1>7, CoreTypes, AfterConclusionCovers
  <1>10. finals' = fs /\ asked' = asked /\ request' = request
    BY <1>7 DEF AfterConclusion
  <1>11. CoreInv'
    BY <1>2, <1>5, <1>7, <1>9, <1>10, CoreFrom
  <1>12. Covers(ActiveIds(branches) \ {id})
    BY <1>8, <1>9 DEF Covers
  <1> QED BY <1>2, <1>7, <1>9, <1>10, <1>11, <1>12 DEF Call, bs, fs

\* A provisional changes nothing a driver waits for.
LEMMA ProvisionalCall ==
  ASSUME CoreInv, ~finished, NEW id \in BranchIds, NEW status \in 100..699,
         OnProvisional(id, status)
  PROVE  Call(ActiveIds(branches))
  <1>1. IndInv'
    BY ProvisionalInv DEF CoreInv
  <1>2. /\ branches' = SetCancelling(MarkProvisional(branches, id), Released(branches, id))
        /\ finals' = finals /\ answered' = answered /\ finished' = finished
    BY DEF OnProvisional
  <1>3. /\ MarkProvisional(branches, id) \in Seq(Branch)
        /\ ActiveIds(MarkProvisional(branches, id)) = ActiveIds(branches)
    BY CoreTypes, MarkProvisionalType, ProvisionalActive
  <1>4. Released(branches, id) \in SUBSET ActiveIds(branches)
    BY DEF Released, ActiveIds
  <1>5. ActiveIds(branches') \subseteq ActiveIds(branches)
    BY <1>2, <1>3, <1>4, CancellingActive, Zenon
  <1>6. Covers(ActiveIds(branches)) /\ Reports /\ EndsAnswered
    BY <1>2, <1>5 DEF Covers, Reports, EndsAnswered
  <1> QED BY <1>1, <1>2, <1>6, CoreFrom DEF Call

\* A 2xx or 6xx concludes its branch, and is relayed.
LEMMA ConcludingCall ==
  ASSUME CoreInv, ~finished, NEW id \in BranchIds, NEW status \in 200..699,
         NEW fs \in SUBSET [branch : Nat, status : 100..699],
         \A f \in fs : f \in finals \/ f.status >= 200,
         OnConcludingFinal(id, status, fs)
  PROVE  Call(ActiveIds(branches))
  <1> DEFINE concluded == Conclude(branches, id, status)
             remaining == SetCancelling(concluded, PendingIds(concluded))
             settled == status \div 100 = 6 /\ ~HasPending(remaining)
             tail == CancelBranches(PendingIds(concluded))
                       \o (IF settled THEN <<Terminate>> ELSE <<>>)
  <1>0. status \in 100..699 /\ id \in Nat
    BY BranchFacts DEF CoreInv
  <1>1. IndInv'
    BY <1>0, ConcludingFinalInv, ZenonT(60) DEF CoreInv
  <1>2. /\ concluded \in Seq(Branch)
        /\ ActiveIds(concluded) \subseteq ActiveIds(branches)
    <2>1. branches \in Seq(Branch)
      BY CoreTypes
    <2>2. ActiveIds(concluded) \subseteq ActiveIds(branches) \ {id}
      BY <2>1, ConcludeActive
    <2> QED BY <1>0, <2>1, <2>2, ConcludeType, ZenonT(60)
  <1>3. PendingIds(concluded) \in SUBSET ActiveIds(concluded)
    BY DEF PendingIds, ActiveIds
  <1>4. CancelBranches(PendingIds(concluded)) \in Seq(Effect)
    <2>1. PendingIds(concluded) \in SUBSET Nat
      BY <1>2, IdsType
    <2> QED BY <2>1, CancelEffects
  <1>5. tail \in Seq(Effect)
    <2>1. (IF settled THEN <<Terminate>> ELSE <<>>) \in Seq(Effect)
      <3> HIDE DEF settled
      <3> QED BY SimpleEffects, EmptyEffects
    <2> HIDE DEF settled, concluded
    <2> QED BY <1>4, <2>1
  <1>6. /\ branches' = remaining /\ answered' = TRUE /\ finals' = fs
        /\ effects' = << Respond(status, {id}) >>
                      \o CancelBranches(PendingIds(concluded))
                      \o (IF settled THEN <<Terminate>> ELSE <<>>)
    BY DEF OnConcludingFinal, ConcludeTargetSet
  <1> HIDE DEF settled, concluded
  <1>7. effects' = << Respond(status, {id}) >> \o tail
    <2>1. /\ << Respond(status, {id}) >> \in Seq(Effect)
          /\ (IF settled THEN <<Terminate>> ELSE <<>>) \in Seq(Effect)
      BY <1>0, RespondEffect, SimpleEffects, EmptyEffects, ZenonT(60)
    <2> DEFINE over == IF settled THEN <<Terminate>> ELSE <<>>
               cancels == CancelBranches(PendingIds(concluded))
               first == << Respond(status, {id}) >>
    <2>2. first \in Seq(Effect) /\ cancels \in Seq(Effect) /\ over \in Seq(Effect)
      BY <1>4, <2>1
    <2>3. effects' = first \o cancels \o over /\ tail = cancels \o over
      BY <1>6
    <2> HIDE DEF first, cancels, over, tail
    <2>4. first \o cancels \o over = first \o (cancels \o over)
      BY <2>2
    <2> QED BY <2>3, <2>4 DEF first
  <1>8. Answers(effects')
    <2>1. {id} \in SUBSET Nat
      BY <1>0
    <2> HIDE DEF tail
    <2> QED BY <1>5, <1>7, <2>1, AnswersFirst, ZenonT(40)
  <1>9. ActiveIds(branches') \subseteq ActiveIds(branches)
    BY <1>2, <1>3, <1>6, CancellingActive, Zenon
  <1>10. Covers(ActiveIds(branches)) /\ Reports /\ EndsAnswered
    BY <1>6, <1>8, <1>9 DEF Covers, Reports, EndsAnswered
  <1> QED BY <1>1, <1>6, <1>10, CoreFrom DEF Call

\* on_branch_response, whatever the status.
LEMMA ResponseCall ==
  ASSUME CoreInv, NEW id, NEW status \in 100..699, OnBranchResponse(id, status)
  PROVE  /\ Call(ActiveIds(branches))
         /\ asked = "none" /\ asked' = "none" /\ request # NoRequest
  <1> DEFINE final == [branch |-> id, status |-> status]
  <1>1. Known(id) /\ ~finished
    BY DEF OnBranchResponse, OnSuccess
  <1>2. id \in BranchIds
    BY <1>1 DEF Known, BranchIds
  <1>3. id \in Nat /\ request # NoRequest /\ asked = "none"
    BY <1>2, BranchFacts DEF CoreInv
  <1>4. finals \in SUBSET [branch : Nat, status : 100..699]
    BY CoreTypes
  <1>5. finals \cup {final} \in SUBSET [branch : Nat, status : 100..699]
    <2> DEFINE F == [branch : Nat, status : 100..699]
    <2>1. final \in F
      BY <1>3
    <2>2. finals \in SUBSET F
      BY <1>4
    <2>3. finals \cup {final} \in SUBSET F
      <3> HIDE DEF F, final
      <3> QED BY <2>1, <2>2
    <2> QED BY <2>3
  <1>6. CASE status < 200 /\ OnProvisional(id, status)
    <2>1. Call(ActiveIds(branches))
      BY <1>1, <1>2, <1>6, ProvisionalCall
    <2>2. asked' = asked
      BY <1>6 DEF OnProvisional
    <2> QED BY <1>3, <2>1, <2>2
  <1>7. CASE OnBranchFailure(id)
    <2>1. Call(ActiveIds(branches) \ {id}) /\ asked' = "none"
      BY <1>7, FailureCall, ZenonT(40)
    <2>2. Call(ActiveIds(branches))
      BY <2>1 DEF Call, Covers
    <2> QED BY <1>3, <2>1, <2>2
  <1>8. ASSUME NEW fs \in SUBSET [branch : Nat, status : 100..699],
               \A f \in fs : f \in finals \/ f.status >= 200,
               status >= 200, OnConcludingFinal(id, status, fs)
        PROVE  Call(ActiveIds(branches)) /\ asked' = "none"
    <2>1. status \in 200..699
      BY <1>8
    <2>2. Call(ActiveIds(branches))
      BY <1>1, <1>2, <1>8, <2>1, ConcludingCall, ZenonT(60)
    <2>3. asked' = asked
      BY <1>8 DEF OnConcludingFinal
    <2> QED BY <1>3, <2>2, <2>3
  <1>9. CASE status >= 200 /\ AfterConclusion(Conclude(branches, id, status), finals \cup {final})
    <2> DEFINE bs == Conclude(branches, id, status)
               fs == finals \cup {final}
    <2>1. branches \in Seq(Branch) /\ queued \in Seq(Target)
      BY CoreTypes
    <2>2. bs \in Seq(Branch)
      BY <2>1, ConcludeType, ZenonT(60)
    <2>3. ActiveIds(bs) \subseteq ActiveIds(branches) \ {id}
      BY <2>1, ConcludeActive
    <2>4. \A f \in fs : f \in finals \/ f.status >= 200
      BY <1>9
    <2>5. \A f \in fs : f.status >= 200
      BY <2>4, CoreTypes
    <2> HIDE DEF bs, fs
    <2>6. AfterConclusion(bs, fs) /\ fs \in SUBSET [branch : Nat, status : 100..699]
      BY <1>5, <1>9 DEF bs, fs
    <2>7. Covers(ActiveIds(bs)) /\ Reports /\ EndsAnswered
      BY <2>1, <2>2, <2>5, <2>6, AfterConclusionCovers
    <2>8. IndInv'
      BY <1>1, <1>3, <2>2, <2>6, AfterConclusionInv DEF CoreInv
    <2>9. finals' = fs /\ asked' = asked
      BY <2>6 DEF AfterConclusion
    <2>10. CoreInv'
      BY <1>1, <2>4, <2>7, <2>8, <2>9, CoreFrom
    <2>11. Covers(ActiveIds(branches))
      BY <2>3, <2>7 DEF Covers
    <2> QED BY <1>3, <2>7, <2>9, <2>10, <2>11 DEF Call
  <1>10. \/ status < 200 /\ OnProvisional(id, status)
         \/ OnBranchFailure(id)
         \/ status >= 200 /\ OnConcludingFinal(id, status, finals)
         \/ status >= 200 /\ OnConcludingFinal(id, status, finals \cup {final})
         \/ status >= 200 /\ AfterConclusion(Conclude(branches, id, status), finals \cup {final})
    <2>1. status \div 100 \in {2, 6} => status >= 200
      OBVIOUS
    <2> HIDE DEF final
    <2>2. \/ status < 200 /\ OnProvisional(id, status)
          \/ OnBranchFailure(id)
          \/ status \div 100 = 2 /\ OnConcludingFinal(id, status, finals)
          \/ status \div 100 = 6 /\ OnConcludingFinal(id, status, finals \cup {final})
          \/ status >= 200 /\ AfterConclusion(Conclude(branches, id, status), finals \cup {final})
      BY DEF OnBranchResponse, OnSuccess, final
    <2> QED BY <2>1, <2>2
  <1>11. \A f \in finals \cup {final} : f \in finals \/ status < 200 \/ f.status >= 200
    OBVIOUS
  <1> HIDE DEF final
  <1>12. CASE status >= 200 /\ OnConcludingFinal(id, status, finals)
    BY <1>3, <1>4, <1>8, <1>12
  <1>13. CASE status >= 200 /\ OnConcludingFinal(id, status, finals \cup {final})
    <2>1. \A f \in finals \cup {final} : f \in finals \/ f.status >= 200
      BY <1>11, <1>13
    <2> QED BY <1>3, <1>5, <1>8, <1>13, <2>1
  <1> QED BY <1>6, <1>7, <1>9, <1>10, <1>12, <1>13

\* A call that finds nothing to do.
LEMMA IgnoreCall ==
  ASSUME CoreInv, Ignore
  PROVE  /\ Call(ActiveIds(branches))
         /\ effects' = <<>> /\ branches' = branches /\ finished' = finished
         /\ answered' = answered /\ asked' = asked /\ request' = request /\ queued' = queued
  <1>1. IndInv'
    BY IgnoreInv DEF CoreInv
  <1>2. /\ effects' = <<>> /\ branches' = branches /\ finished' = finished
        /\ answered' = answered /\ asked' = asked /\ request' = request
        /\ finals' = finals /\ queued' = queued
    BY DEF Ignore
  <1>3. CoreInv'
    BY <1>1, <1>2 DEF CoreInv
  <1>4. Covers(ActiveIds(branches)) /\ Reports
    BY <1>2 DEF Covers, Reports
  <1> QED BY <1>2, <1>3, <1>4 DEF Call

\* Forking a target set.
LEMMA TargetSetCovers ==
  ASSUME CoreInv, NEW r, NEW targets \in Seq(Target), OnTargetSet(r, targets)
  PROVE  Covers(ActiveIds(branches)) /\ Reports /\ EndsAnswered
  <1>1. PICK p \in [1..Len(targets) -> 1..Len(targets)] :
           ForkNextGroup(r, branches, [k \in 1..Len(targets) |-> targets[p[k]]])
    BY DEF OnTargetSet
  <1> DEFINE sorted == [k \in 1..Len(targets) |-> targets[p[k]]]
  <1>2. sorted \in [1..Len(targets) -> Target]
    OBVIOUS
  <1>3. sorted \in Seq(Target)
    BY <1>2, FunctionIsSeq
  <1>4. ForkNextGroup(r, branches, sorted) /\ branches \in Seq(Branch)
    BY <1>1, CoreTypes
  <1> HIDE DEF sorted
  <1> QED BY <1>3, <1>4, ForkCovers

\* route_it forks, or asks.
LEMMA RouteItCovers ==
  ASSUME CoreInv, NEW r, RouteIt(r)
  PROVE  Covers(ActiveIds(branches)) /\ Reports /\ EndsAnswered
  <1>1. CASE Predetermined(r)
    <2>1. OnTargetSet(r, <<SoleTarget>>)
      BY <1>1 DEF RouteIt
    <2>2. <<SoleTarget>> \in Seq(Target)
      BY DEF SoleTarget, Target
    <2> QED BY <2>1, <2>2, TargetSetCovers
  <1>2. CASE ~Predetermined(r)
    BY <1>2 DEF RouteIt, Covers, Reports, EndsAnswered
  <1> QED BY <1>1, <1>2

\* on_upstream, on_targets, on_targets_unavailable and on_token.
LEMMA UpstreamCall ==
  ASSUME CoreInv, NEW r \in Requests, OnUpstream(r)
  PROVE  Call(ActiveIds(branches))
  <1>0. IndInv' /\ ~finished /\ request = NoRequest /\ finals' = finals
    BY UpstreamInv DEF CoreInv, OnUpstream, Refuse
  <1>1. CASE Refuse(r)
    <2>1. /\ finished' /\ request' = request /\ answered' = answered
      BY <1>1 DEF Refuse
    <2>2. CoreInv'
      BY <1>0, <2>1 DEF CoreInv
    <2> QED BY <2>1, <2>2 DEF Call, Covers, Reports
  <1>2. CASE ~Refuse(r) /\ Carriage(r)
    <2>1. branches' = branches /\ answered' = answered /\ finished' = finished
      BY <1>2 DEF OnUpstream
    <2>2. Covers(ActiveIds(branches)) /\ Reports /\ EndsAnswered
      BY <2>1 DEF Covers, Reports, EndsAnswered
    <2> QED BY <1>0, <2>2, CoreFrom DEF Call
  <1>3. CASE ~Refuse(r) /\ ~Carriage(r)
    <2>1. RouteIt(Preprocess(r))
      BY <1>3 DEF OnUpstream
    <2> QED BY <1>0, <2>1, RouteItCovers, CoreFrom DEF Call
  <1> QED BY <1>1, <1>2, <1>3

LEMMA TargetsCall ==
  ASSUME CoreInv, NEW targets \in TargetSets, OnTargets(targets)
  PROVE  Call(ActiveIds(branches))
  <1>0. IndInv' /\ ~finished /\ finals' = finals
    BY TargetsInv DEF CoreInv, OnTargets
  <1>1. CASE targets = <<>>
    <2>1. RespondAndFinish(branches, 480)
      BY <1>1 DEF OnTargets
    <2>2. branches \in Seq(Branch) /\ 480 \in 200..699
      BY CoreTypes
    <2>3. finished' /\ Reports /\ EndsAnswered
      BY <2>1, <2>2, FinishReports, ZenonT(60)
    <2> QED BY <1>0, <2>3, CoreFrom DEF Call, Covers
  <1>2. CASE targets # <<>>
    <2>1. OnTargetSet(request, targets) /\ targets \in Seq(Target)
      BY <1>2, TargetSetsAssumption DEF OnTargets
    <2> QED BY <1>0, <2>1, TargetSetCovers, CoreFrom DEF Call
  <1> QED BY <1>1, <1>2

LEMMA UnavailableCall ==
  ASSUME CoreInv, OnTargetsUnavailable
  PROVE  Call(ActiveIds(branches)) /\ finished'
  <1>0. IndInv' /\ ~finished /\ finals' = finals
    BY UnavailableInv DEF CoreInv, OnTargetsUnavailable
  <1>1. RespondAndFinish(branches, 503)
    BY DEF OnTargetsUnavailable
  <1>2. branches \in Seq(Branch) /\ 503 \in 200..699
    BY CoreTypes
  <1>3. finished' /\ Reports /\ EndsAnswered
    BY <1>1, <1>2, FinishReports, ZenonT(60)
  <1> QED BY <1>0, <1>3, CoreFrom DEF Call, Covers

LEMMA TokenCall ==
  ASSUME CoreInv, OnToken("invalid")
  PROVE  Call(ActiveIds(branches)) /\ finished'
  <1> DEFINE v == "invalid"
  <1>a. v \in {"valid", "invalid"} /\ OnToken(v) /\ v # "valid"
    OBVIOUS
  <1> HIDE DEF v
  <1>0. IndInv' /\ ~finished /\ finals' = finals
    BY <1>a, TokenInv DEF CoreInv, OnToken
  <1>1. RespondAndFinish(branches, 403)
    BY <1>a DEF OnToken
  <1>2. branches \in Seq(Branch) /\ 403 \in 200..699
    BY CoreTypes
  <1>3. finished' /\ Reports /\ EndsAnswered
    BY <1>1, <1>2, FinishReports, ZenonT(60)
  <1> QED BY <1>0, <1>3, CoreFrom DEF Call, Covers

-----------------------------------------------------------------------------
(* Focal's task *)

\* The part of the invariant that a step of the task can disturb.
TaskCore ==
    /\ CoreInv
    /\ todo \in Seq(Effect) /\ told \in Seq(Nat)
    /\ stage[Focal] # "failed" =>
         /\ ~finished => ActiveIds(branches) \subseteq Watched
         /\ answered => told # <<>> \/ Answers(todo)

\* The list that replaces the effects performed is a list of effects.
LEMMA CallEffects ==
  ASSUME NEW active, Call(active)
  PROVE  effects' \in Seq(Effect)
  BY DEF Call, CoreInv, IndInv, TypeOK

\* `perform` takes the next effect: what it launched is watched or has failed, what
\* it answered was told, and what its own call returned comes first.
LEMMA PerformStep ==
  ASSUME TaskInv, stage[Focal] # "failed", todo # <<>>,
         NEW gone, Call(ActiveIds(branches) \ gone), finished => finished',
         todo' = effects' \o Tail(todo),
         readers \subseteq readers', forwarded \subseteq forwarded',
         Head(todo).kind = "Forward" => Head(todo).id \in forwarded' \cup gone,
         told' \in Seq(Nat), told # <<>> => told' # <<>>,
         Head(todo).kind = "Respond" /\ Head(todo).status >= 200 => told' # <<>>
  PROVE  TaskCore'
  <1>1. /\ todo \in Seq(Effect) /\ Tail(todo) \in Seq(Effect) /\ effects' \in Seq(Effect)
        /\ ~finished => ActiveIds(branches) \subseteq Watched
        /\ answered => told # <<>> \/ Answers(todo)
    BY CallEffects, NextEffect DEF TaskInv
  <1>2. /\ todo' \in Seq(Effect)
        /\ ForwardIds(effects') \subseteq ForwardIds(todo')
        /\ ForwardIds(Tail(todo)) \subseteq ForwardIds(todo')
        /\ Answers(effects') \/ Answers(Tail(todo)) => Answers(todo')
    BY <1>1, JoinEffects
  <1>3. /\ \A id \in ForwardIds(todo) :
             id \in ForwardIds(Tail(todo)) \/ (Head(todo).kind = "Forward" /\ Head(todo).id = id)
        /\ Answers(todo) => \/ Answers(Tail(todo))
                            \/ Head(todo).kind = "Respond" /\ Head(todo).status >= 200
    BY <1>1, NextEffect
  <1>4. Watched \ gone \subseteq Watched'
    BY <1>2, <1>3 DEF Watched
  <1>5. CoreInv' /\ (~finished' => ActiveIds(branches') \subseteq
                                     (ActiveIds(branches) \ gone) \cup ForwardIds(effects'))
        /\ (answered' => answered \/ Answers(effects'))
    BY DEF Call, Covers, Reports
  <1>6. ForwardIds(effects') \subseteq Watched'
    BY <1>2 DEF Watched
  <1>7. ~finished' => ActiveIds(branches') \subseteq Watched'
    BY <1>1, <1>4, <1>5, <1>6
  <1>8. answered' => told' # <<>> \/ Answers(todo')
    BY <1>1, <1>2, <1>3, <1>5
  <1> QED BY <1>2, <1>5, <1>7, <1>8 DEF TaskCore

\* A round reads one branch, and performs what the engine returns next.
LEMMA RoundStep ==
  ASSUME TaskInv, stage[Focal] # "failed", todo = <<>>,
         NEW gone, Call(ActiveIds(branches) \ gone), finished => finished',
         todo' = effects', readers \ gone \subseteq readers', forwarded' = forwarded,
         told' = told
  PROVE  TaskCore'
  <1>1. /\ effects' \in Seq(Effect)
        /\ ~finished => ActiveIds(branches) \subseteq Watched
        /\ answered => told # <<>> \/ Answers(todo)
    BY CallEffects DEF TaskInv
  <1>2. ForwardIds(todo) = {} /\ ~Answers(todo)
    BY DEF ForwardIds, Answers
  <1>3. Watched \ gone \subseteq Watched' /\ ForwardIds(effects') \subseteq Watched'
    BY <1>2 DEF Watched
  <1>4. CoreInv' /\ (~finished' => ActiveIds(branches') \subseteq
                                     (ActiveIds(branches) \ gone) \cup ForwardIds(effects'))
        /\ (answered' => answered \/ Answers(effects'))
    BY DEF Call, Covers, Reports
  <1>5. ~finished' => ActiveIds(branches') \subseteq Watched'
    BY <1>1, <1>3, <1>4
  <1>6. answered' => told' # <<>> \/ Answers(todo')
    BY <1>1, <1>2, <1>4
  <1> QED BY <1>1, <1>4, <1>5, <1>6 DEF TaskCore, TaskInv

\* A task that leaves by `?` promises nothing more.
LEMMA AbandonStep ==
  ASSUME TaskInv, Abandon
  PROVE  TaskCore'
  <1>1. CoreInv'
    BY IgnoreCall DEF TaskInv, Abandon, Call
  <1>2. stage'[Focal] = "failed"
    BY DEF TaskInv, GateInv, Abandon, Leave, Arrivals
  <1>3. <<>> \in Seq(Effect) /\ todo' = <<>> /\ told' \in Seq(Nat)
    BY DEF Abandon, TaskInv
  <1> QED BY <1>1, <1>2, <1>3 DEF TaskCore

\* An answer is fed unless the context is over.
LEMMA FeedFacts ==
  ASSUME CoreInv
  PROVE  /\ \A targets \in TargetSets : Feed(OnTargets(targets)) => Call(ActiveIds(branches))
         /\ Feed(OnTargetsUnavailable) => Call(ActiveIds(branches))
         /\ Feed(OnToken("invalid")) => Call(ActiveIds(branches))
         /\ \A id : Feed(OnBranchFailure(id)) => Call(ActiveIds(branches) \ {id})
         /\ Ignore => Call(ActiveIds(branches)) /\ finished' = finished /\ effects' = <<>>
  <1>1. Ignore => Call(ActiveIds(branches)) /\ finished' = finished /\ effects' = <<>>
    BY IgnoreCall
  <1>2. \A targets \in TargetSets : Feed(OnTargets(targets)) => Call(ActiveIds(branches))
    BY <1>1, TargetsCall DEF Feed
  <1>3. Feed(OnTargetsUnavailable) => Call(ActiveIds(branches))
    BY <1>1, UnavailableCall DEF Feed
  <1>4. Feed(OnToken("invalid")) => Call(ActiveIds(branches))
    BY <1>1, TokenCall DEF Feed
  <1>5. \A id : Feed(OnBranchFailure(id)) => Call(ActiveIds(branches) \ {id})
    <2> SUFFICES ASSUME NEW id, Feed(OnBranchFailure(id))
                 PROVE  Call(ActiveIds(branches) \ {id})
      OBVIOUS
    <2>1. CASE finished
      <3>1. CoreInv' /\ finished' = finished /\ Reports
        BY <1>1, <2>1 DEF Feed, Call
      <3> QED BY <2>1, <3>1 DEF Call, Covers
    <2>2. CASE ~finished
      BY <2>2, FailureCall DEF Feed
    <2> QED BY <2>1, <2>2
  <1> QED BY <1>1, <1>2, <1>3, <1>4, <1>5

\* The status of a response is a number.
LEMMA RespondStatus ==
  ASSUME NEW e \in Effect, e.kind = "Respond"
  PROVE  e.status \in Nat
  <1>1. CASE e \in [kind : {"Respond"}, status : 100..699, from : SUBSET Nat]
    <2>1. e.status \in 100..699
      BY <1>1, Zenon
    <2> QED BY <2>1
  <1>2. CASE e \in [kind : {"Forward"}, id : Nat, share : Nat, recordRoutes : 0..2]
    BY <1>2
  <1>3. CASE e \in [kind : {"SetTimer"}, id : Nat]
    BY <1>3
  <1>4. CASE e \in [kind : {"CancelBranch"}, ids : SUBSET Nat]
    BY <1>4
  <1>5. CASE e \in [kind : {"Terminate", "AnswerCancel", "ResolveTargets", "VerifyToken"}]
    BY <1>5
  <1> QED BY <1>1, <1>2, <1>3, <1>4, <1>5, Zenon DEF Effect

\* `perform`, one effect at a time.
LEMMA PerformTask ==
  ASSUME TaskInv, Perform
  PROVE  TaskCore'
  <1>0. /\ CoreInv /\ todo \in Seq(Effect) /\ told \in Seq(Nat)
        /\ stage[Focal] = "serving" /\ stage[Focal] # "failed" /\ todo # <<>>
    BY DEF TaskInv, Perform, PerformResolve, PerformVerify, PerformForward, PerformRespond,
           PerformNothing, Due
  <1>1. CASE PerformResolve \/ PerformVerify
    <2>1. /\ Head(todo).kind \in {"ResolveTargets", "VerifyToken"}
          /\ todo' = effects' \o Tail(todo) /\ readers' = readers /\ forwarded' = forwarded
          /\ told' = told
      BY <1>1 DEF PerformResolve, PerformVerify, Due, Nested
    <2>2. \/ \E targets \in TargetSets : Feed(OnTargets(targets))
          \/ Feed(OnTargetsUnavailable)
          \/ Feed(OnToken("invalid"))
      BY <1>1 DEF PerformResolve, PerformVerify
    <2>3. Call(ActiveIds(branches))
      BY <1>0, <2>2, FeedFacts
    <2>4. finished => finished'
      BY <1>0, <2>2, FeedFacts DEF Feed
    <2>5. Call(ActiveIds(branches) \ {})
      BY <2>3 DEF Call, Covers
    <2> QED BY <1>0, <2>1, <2>4, <2>5, PerformStep
  <1>2. CASE Due("Forward") /\ Unaddressable(Head(todo).id)
    <2> DEFINE id == Head(todo).id
    <2>1. /\ Feed(OnBranchFailure(id)) /\ todo' = effects' \o Tail(todo)
          /\ readers' = readers /\ forwarded' = forwarded /\ told' = told
          /\ Head(todo).kind = "Forward"
      BY <1>2 DEF Unaddressable, Nested, Due
    <2>2. Call(ActiveIds(branches) \ {id})
      BY <1>0, <2>1, FeedFacts
    <2>3. finished => finished'
      BY <2>1 DEF Feed, Ignore
    <2> QED BY <1>0, <2>1, <2>2, <2>3, PerformStep
  <1>3. CASE Abandon
    BY <1>3, AbandonStep
  <1>4. CASE /\ Ignore /\ todo' = Tail(todo) /\ readers' = readers
             /\ forwarded \subseteq forwarded'
             /\ Head(todo).kind = "Forward" => Head(todo).id \in forwarded'
             /\ told' \in Seq(Nat) /\ (told # <<>> => told' # <<>>)
             /\ Head(todo).kind = "Respond" /\ Head(todo).status >= 200 => told' # <<>>
    <2>1. Call(ActiveIds(branches)) /\ finished' = finished /\ effects' = <<>>
      BY <1>0, <1>4, FeedFacts
    <2>2. Call(ActiveIds(branches) \ {})
      BY <2>1 DEF Call, Covers
    <2>3. todo' = effects' \o Tail(todo)
      BY <1>0, <1>4, <2>1
    <2> QED BY <1>0, <1>4, <2>1, <2>2, <2>3, PerformStep
  <1>5. CASE Due("Forward") /\ ~Unaddressable(Head(todo).id) /\ ~Abandon
    <2>1. /\ Ignore /\ todo' = Tail(todo) /\ readers' = readers /\ told' = told
          /\ forwarded' = forwarded \cup {Head(todo).id}
          /\ Head(todo).kind = "Forward"
      BY <1>5 DEF Perform, PerformForward, PerformResolve, PerformVerify, PerformRespond,
                  PerformNothing, Due, Advance
    <2>2. /\ told' \in Seq(Nat) /\ (told # <<>> => told' # <<>>)
          /\ forwarded \subseteq forwarded' /\ Head(todo).id \in forwarded'
          /\ Head(todo).kind # "Respond"
      BY <1>0, <2>1
    <2> QED BY <1>4, <2>1, <2>2
  <1>6. CASE PerformRespond /\ ~Abandon
    <2>1. /\ Ignore /\ todo' = Tail(todo) /\ readers' = readers /\ forwarded' = forwarded
          /\ Head(todo).kind = "Respond"
          /\ told' = IF Head(todo).status < 200 THEN told ELSE Append(told, Head(todo).status)
      BY <1>6 DEF PerformRespond, Due, Advance
    <2>2. Head(todo) \in Effect
      BY <1>0
    <2>3. Head(todo).status \in Nat
      BY <2>1, <2>2, RespondStatus
    <2>4. /\ told' \in Seq(Nat)
          /\ told # <<>> => told' # <<>>
          /\ Head(todo).status >= 200 => told' # <<>>
      <3>1. PICK s \in Nat : s = Head(todo).status
        BY <2>3
      <3>2. told' = IF s < 200 THEN told ELSE Append(told, s)
        BY <2>1, <3>1
      <3>3. told' \in Seq(Nat) /\ (told # <<>> => told' # <<>>) /\ (s >= 200 => told' # <<>>)
        <4>1. Append(told, s) \in Seq(Nat) /\ Append(told, s) # <<>>
          BY <1>0, AppendProperties
        <4>2. CASE s < 200
          BY <1>0, <3>2, <4>2
        <4>3. CASE ~(s < 200)
          <5>1. told' = Append(told, s)
            BY <3>2, <4>3
          <5> QED BY <4>1, <5>1, Zenon
        <4> QED BY <4>2, <4>3
      <3> QED BY <3>1, <3>3, Zenon
    <2> QED BY <1>4, <2>1, <2>4
  <1>7. CASE PerformNothing
    <2>1. /\ Ignore /\ todo' = Tail(todo) /\ readers' = readers /\ forwarded' = forwarded
          /\ told' = told /\ Head(todo).kind \in {"CancelBranch", "SetTimer", "Terminate"}
      BY <1>7 DEF PerformNothing, Due, Advance
    <2>2. /\ told' \in Seq(Nat) /\ (told # <<>> => told' # <<>>)
          /\ forwarded \subseteq forwarded'
          /\ Head(todo).kind # "Respond" /\ Head(todo).kind # "Forward"
      BY <1>0, <2>1
    <2> QED BY <1>4, <2>1, <2>2
  <1> QED BY <1>1, <1>2, <1>3, <1>5, <1>6, <1>7 DEF Perform, PerformForward

\* The first call: nothing was launched or answered before it.
LEMMA StartTask ==
  ASSUME TaskInv, NEW r \in Requests, Start(r)
  PROVE  TaskCore'
  <1>1. /\ OnUpstream(r) /\ todo' = effects' /\ readers' = readers /\ forwarded' = forwarded
        /\ told' = told /\ request = NoRequest /\ CoreInv /\ told \in Seq(Nat)
    BY DEF Start, TaskInv
  <1>2. Call(ActiveIds(branches))
    BY <1>1, UpstreamCall
  <1>3. branches = <<>> /\ ~answered
    BY <1>1 DEF CoreInv, IndInv, QuestionsComeFirst
  <1>4. ActiveIds(branches) = {}
    BY <1>3 DEF ActiveIds
  <1>5. /\ effects' \in Seq(Effect) /\ CoreInv'
        /\ ~finished' => ActiveIds(branches') \subseteq ForwardIds(effects')
        /\ answered' => Answers(effects')
    BY <1>2, <1>3, <1>4, CallEffects DEF Call, Covers, Reports
  <1> QED BY <1>1, <1>5 DEF TaskCore, Watched

\* The end of a round drops no branch, unless the context is over.
LEMMA RoundEndsTask ==
  ASSUME TaskInv, RoundEnds
  PROVE  TaskCore'
  <1>1. /\ CoreInv /\ todo \in Seq(Effect) /\ told \in Seq(Nat) /\ stage[Focal] # "failed"
        /\ ~finished => ActiveIds(branches) \subseteq Watched
        /\ answered => told # <<>> \/ Answers(todo)
        /\ Ignore /\ todo' = todo /\ told' = told
        /\ finished \/ readers' \cup forwarded' = readers \cup forwarded
    BY DEF TaskInv, RoundEnds, Reading
  <1>2. /\ CoreInv' /\ branches' = branches /\ finished' = finished /\ answered' = answered
    BY <1>1, IgnoreCall DEF Call
  <1> QED BY <1>1, <1>2 DEF TaskCore, Watched

\* A reader that is awaited again, or a stream that ended.
LEMMA OnBranchTask ==
  ASSUME TaskInv, NEW id \in readers, OnBranch(id)
  PROVE  TaskCore'
  <1>1. /\ CoreInv /\ stage[Focal] # "failed" /\ todo = <<>> /\ ~finished /\ Joins(id)
        /\ todo' = effects' /\ forwarded' = forwarded /\ told' = told
    BY DEF TaskInv, OnBranch, Joins, Reading, HearProvisional, HearFinal, HearTimeout,
           HearTransportError, HearIrrelevant, StreamEnds, Hear
  <1>2. CASE StreamEnds(id)
    <2>1. OnBranchFailure(id) /\ readers' = readers \ {id}
      BY <1>2 DEF StreamEnds
    <2>2. Call(ActiveIds(branches) \ {id})
      BY <1>1, <2>1, FailureCall
    <2> QED BY <1>1, <2>1, <2>2, RoundStep
  <1>3. CASE ~StreamEnds(id)
    <2>1. /\ readers' = readers
          /\ \/ Ignore
             \/ \E status \in 100..699 : OnBranchResponse(id, status)
             \/ OnBranchFailure(id)
      <3>1. 408 \in 100..699 /\ Codes \subseteq 100..699
        BY CodesAssumption
      <3> QED BY <1>3, <3>1 DEF OnBranch, HearProvisional, HearFinal, HearTimeout,
                                HearTransportError, HearIrrelevant, Hear, Rewatched
    <2>2. Call(ActiveIds(branches))
      <3>1. CASE OnBranchFailure(id)
        BY <1>1, <3>1, FailureCall DEF Call, Covers
      <3>2. CASE \E status \in 100..699 : OnBranchResponse(id, status)
        BY <1>1, <3>2, ResponseCall
      <3> QED BY <1>1, <2>1, <3>1, <3>2, IgnoreCall
    <2>3. Call(ActiveIds(branches) \ {})
      BY <2>2 DEF Call, Covers
    <2> QED BY <1>1, <2>1, <2>3, RoundStep
  <1> QED BY <1>2, <1>3

\* What happens to other arrivals, or to Focal before its task starts, is not a step
\* of the task, and brings no task back.
LEMMA OtherSteps ==
  ASSUME GateInv,
         \/ \E a \in Arrivals : Arrive(a) \/ RespondOverloaded(a) \/ ServeOther(a) \/ ResidentEnds(a)
         \/ Accept
         \/ Idle
  PROVE  /\ vars' = vars /\ driverVars' = driverVars
         /\ stage[Focal] = "failed" => stage'[Focal] = "failed"
  <1>1. ASSUME NEW a \in Arrivals,
               Arrive(a) \/ RespondOverloaded(a) \/ ServeOther(a) \/ ResidentEnds(a)
        PROVE  /\ vars' = vars /\ driverVars' = driverVars
               /\ stage[Focal] = "failed" => stage'[Focal] = "failed"
    <2>1. /\ vars' = vars /\ driverVars' = driverVars
          /\ stage[a] \in {"unsent", "refused", "serving", "resident"}
          /\ \E how : stage' = [stage EXCEPT ![a] = how]
      BY <1>1 DEF Arrive, RespondOverloaded, ServeOther, ResidentEnds, Leave
    <2> QED BY <2>1 DEF GateInv, Arrivals
  <1>2. CASE Accept
    <2>1. /\ vars' = vars /\ driverVars' = driverVars
          /\ \E how : stage' = [stage EXCEPT ![Head(channel)] = how]
      BY <1>2 DEF Accept
    <2>2. stage[Head(channel)] = "queued"
      BY <1>2 DEF Accept, GateInv, ChannelHoldsQueued
    <2> QED BY <2>1, <2>2 DEF GateInv, Arrivals
  <1>3. CASE Idle
    BY <1>3 DEF Idle, allVars, nodeVars
  <1> QED BY <1>1, <1>2, <1>3

\* A step that leaves the task alone and brings nothing back keeps what holds of it.
LEMMA TaskStutter ==
  ASSUME TaskInv, vars' = vars, driverVars' = driverVars,
         stage[Focal] = "failed" => stage'[Focal] = "failed"
  PROVE  TaskCore'
  BY DEF TaskInv, TaskCore, vars, driverVars, CoreInv, IndInv, TypeOK, QuestionsComeFirst,
         AnsweredLeavesNoQueue, TokenGatesRouting, Watched

\* Every step of the node keeps the invariant of the task.
LEMMA TaskStep ==
  ASSUME TaskInv, NextNode
  PROVE  TaskInv'
  <1>1. GateInv /\ GateInv'
    BY GateStep DEF TaskInv
  <1> SUFFICES TaskCore'
    BY <1>1 DEF TaskInv, TaskCore
  <1>2. CASE Perform
    BY <1>2, PerformTask
  <1>3. CASE \E r \in Requests : Start(r)
    BY <1>3, StartTask
  <1>4. CASE RoundEnds
    BY <1>4, RoundEndsTask
  <1>5. CASE \E id \in readers : OnBranch(id)
    BY <1>5, OnBranchTask
  <1>6. CASE \/ \E a \in Arrivals : Arrive(a) \/ RespondOverloaded(a) \/ ServeOther(a) \/ ResidentEnds(a)
             \/ Accept
             \/ Idle
    BY <1>1, <1>6, OtherSteps, TaskStutter
  <1> QED BY <1>2, <1>3, <1>4, <1>5, <1>6 DEF NextNode

\* A new node has no task.
LEMMA TaskInit == InitNode => TaskInv
  <1> SUFFICES ASSUME InitNode PROVE TaskInv
    OBVIOUS
  <1>1. IndInv /\ GateInv
    BY InitInv, GateInit DEF InitNode
  <1>2. /\ branches = <<>> /\ ~finished /\ ~answered /\ finals = {} /\ todo = <<>> /\ told = <<>>
    BY DEF InitNode, Init
  <1>3. <<>> \in Seq(Effect) /\ <<>> \in Seq(Nat) /\ ActiveIds(<<>>) = {}
    BY DEF ActiveIds
  <1> QED BY <1>1, <1>2, <1>3 DEF TaskInv, CoreInv

\* Every reachable state of the node satisfies the invariants of the gauge and the task.
LEMMA TaskInvariance == SpecNode => []TaskInv
  <1>1. InitNode => TaskInv
    BY TaskInit
  <1>2. TaskInv /\ [NextNode]_allVars => TaskInv'
    <2> SUFFICES ASSUME TaskInv, [NextNode]_allVars PROVE TaskInv'
      OBVIOUS
    <2>1. CASE NextNode
      BY <2>1, TaskStep
    <2>2. CASE UNCHANGED allVars
      <3>1. vars' = vars /\ driverVars' = driverVars /\ stage' = stage /\ channel' = channel
            /\ gate' = gate /\ methodOf' = methodOf
        BY <2>2 DEF allVars, nodeVars
      <3>2. TaskCore' /\ GateInv'
        BY <3>1, TaskStutter, GateStutter DEF TaskInv
      <3> QED BY <3>2 DEF TaskInv, TaskCore
    <2> QED BY <2>1, <2>2
  <1> QED BY <1>1, <1>2, PTL DEF SpecNode

\* PX-9: between two rounds every branch the engine still waits for has a reader,
\* whatever requests, target sets, status codes and events came before.
THEOREM PendingIsRead == SpecNode => []PendingBranchIsRead
  <1>1. TaskInv => PendingBranchIsRead
    <2> SUFFICES ASSUME TaskInv, Reading, ~finished
                 PROVE  ActiveIds(branches) \subseteq readers \cup forwarded
      BY DEF PendingBranchIsRead, ActiveIds
    <2>1. todo = <<>> /\ ActiveIds(branches) \subseteq Watched
      BY DEF Reading, TaskInv
    <2>2. ForwardIds(todo) = {}
      BY <2>1 DEF ForwardIds
    <2> QED BY <2>1, <2>2 DEF Watched
  <1> QED BY <1>1, TaskInvariance, PTL

-----------------------------------------------------------------------------
(* How the task ends, when every target gives a copy *)

\* A call that goes on leaves a question in its effects or a branch in flight.
GoesOn ==
    /\ QueueBuilds'
    /\ asked' # "none" => Asks(effects')
    /\ request' # NoRequest /\ asked' = "none" => finished' \/ HasPending(branches')

\* The part of the invariant beyond TaskInv.
SettleCore ==
    /\ QueueBuilds
    /\ stage[Focal] # "failed" /\ ~finished =>
         /\ asked # "none" => Asks(todo)
         /\ request # NoRequest /\ asked = "none" => Watched # {}
    /\ TaskEndsSettled

\* A conclusion leaves a branch in flight, or ends the context.
LEMMA AfterConclusionGoesOn ==
  ASSUME QueueBuilds, queued \in Seq(Target), NEW bs \in Seq(Branch), NEW fs,
         AfterConclusion(bs, fs)
  PROVE  QueueBuilds' /\ (finished' \/ HasPending(branches'))
  <1>1. CASE HasPending(bs)
    BY <1>1 DEF AfterConclusion, QueueBuilds
  <1>2. CASE ~HasPending(bs) /\ MayForkNextGroup
    <2>1. /\ ForkNextGroup(request, bs, queued)
          /\ \A k \in DOMAIN queued : queued[k].builds
      BY <1>2 DEF AfterConclusion, QueueBuilds
    <2> QED BY <2>1, ForkLaunches DEF QueueBuilds
  <1>3. CASE ~HasPending(bs) /\ ~MayForkNextGroup
    <2>1. queued' = queued /\ SelectAndAnswer(bs, fs)
      BY <1>3 DEF AfterConclusion
    <2>2. finished'
      BY <2>1 DEF SelectAndAnswer, RespondAndFinish
    <2> QED BY <2>1, <2>2 DEF QueueBuilds
  <1> QED BY <1>1, <1>2, <1>3

\* on_branch_failure goes on.
LEMMA FailureGoesOn ==
  ASSUME CoreInv, QueueBuilds, NEW id, OnBranchFailure(id)
  PROVE  GoesOn
  <1>1. /\ asked' = "none"
        /\ AfterConclusion(Conclude(branches, id, 503),
                           finals \cup {[branch |-> id, status |-> 503]})
    BY FailureCall, ZenonT(40)
  <1>2. Conclude(branches, id, 503) \in Seq(Branch) /\ queued \in Seq(Target)
    BY CoreTypes, ConcludeType
  <1>3. QueueBuilds' /\ (finished' \/ HasPending(branches'))
    BY <1>1, <1>2, AfterConclusionGoesOn
  <1> QED BY <1>1, <1>3 DEF GoesOn

\* on_branch_response leaves a queue of targets that build.
LEMMA ResponseQueue ==
  ASSUME CoreInv, QueueBuilds, NEW id, NEW status \in 100..699, OnBranchResponse(id, status)
  PROVE  QueueBuilds'
  <1>1. CASE OnProvisional(id, status)
    BY <1>1 DEF OnProvisional, QueueBuilds
  <1>2. CASE OnBranchFailure(id)
    BY <1>2, FailureGoesOn DEF GoesOn
  <1>3. CASE \E fs : OnConcludingFinal(id, status, fs)
    <2>1. queued' = <<>>
      BY <1>3 DEF OnConcludingFinal, ConcludeTargetSet
    <2> QED BY <2>1 DEF QueueBuilds
  <1>4. CASE \E fs : AfterConclusion(Conclude(branches, id, status), fs)
    <2>1. branches \in Seq(Branch) /\ queued \in Seq(Target)
      BY CoreTypes
    <2>2. Conclude(branches, id, status) \in Seq(Branch)
      BY <2>1, ConcludeType, ZenonT(60)
    <2> QED BY <1>4, <2>1, <2>2, AfterConclusionGoesOn
  <1> QED BY <1>1, <1>2, <1>3, <1>4, Zenon DEF OnBranchResponse, OnSuccess

\* route_it goes on.
LEMMA RouteItGoesOn ==
  ASSUME CoreInv, queued = <<>>, NEW r, RouteIt(r)
  PROVE  GoesOn
  <1>1. /\ asked' # "none" \/ HasPending(branches')
        /\ QueueBuilds'
    BY RouteItLaunches DEF CoreInv, QueueBuilds
  <1>2. asked' # "none" => Asks(effects')
    BY DEF RouteIt, Asks, Simple
  <1> QED BY <1>1, <1>2 DEF GoesOn

\* on_upstream goes on.
LEMMA UpstreamGoesOn ==
  ASSUME CoreInv, NEW r \in Requests, OnUpstream(r)
  PROVE  GoesOn
  <1>1. request = NoRequest /\ queued = <<>> /\ asked = "none"
    BY DEF OnUpstream, CoreInv, IndInv, QuestionsComeFirst
  <1>2. CASE Refuse(r)
    BY <1>1, <1>2 DEF Refuse, GoesOn, QueueBuilds
  <1>3. CASE ~Refuse(r) /\ Carriage(r)
    <2>1. asked' = "verdict" /\ effects' = <<Simple("VerifyToken")>> /\ queued' = queued
      BY <1>3 DEF OnUpstream
    <2>2. Asks(effects')
      BY <2>1 DEF Asks, Simple
    <2> QED BY <1>1, <2>1, <2>2 DEF GoesOn, QueueBuilds
  <1>4. CASE ~Refuse(r) /\ ~Carriage(r)
    <2>1. RouteIt(Preprocess(r))
      BY <1>4 DEF OnUpstream
    <2> QED BY <1>1, <2>1, RouteItGoesOn
  <1> QED BY <1>2, <1>3, <1>4

\* The answers the driver feeds go on.
LEMMA AnswersGoOn ==
  ASSUME AllTargetsBuild, CoreInv, QueueBuilds,
         \/ \E targets \in TargetSets : OnTargets(targets)
         \/ OnTargetsUnavailable
         \/ OnToken("invalid")
  PROVE  GoesOn
  <1>1. ASSUME NEW targets \in TargetSets, OnTargets(targets) PROVE GoesOn
    <2>1. asked' = "none"
      BY <1>1 DEF OnTargets
    <2>2. CASE targets = <<>>
      <3>1. finished' /\ queued' = queued
        BY <1>1, <2>2 DEF OnTargets, RespondAndFinish
      <3> QED BY <2>1, <3>1 DEF GoesOn, QueueBuilds
    <2>3. CASE targets # <<>>
      <3>1. /\ OnTargetSet(request, targets) /\ targets \in Seq(Target)
            /\ \A k \in DOMAIN targets : targets[k].builds
        BY <1>1, <2>3, TargetSetsAssumption DEF OnTargets, AllTargetsBuild
      <3>2. HasPending(branches') /\ QueueBuilds'
        BY <3>1, TargetSetLaunches DEF CoreInv, QueueBuilds
      <3> QED BY <2>1, <3>2 DEF GoesOn
    <2> QED BY <2>2, <2>3
  <1>2. CASE OnTargetsUnavailable
    BY <1>2 DEF OnTargetsUnavailable, RespondAndFinish, GoesOn, QueueBuilds
  <1>3. CASE OnToken("invalid")
    <2>1. asked' = "none" /\ queued' = queued /\ finished'
      BY <1>3 DEF OnToken, RespondAndFinish
    <2> QED BY <2>1 DEF GoesOn, QueueBuilds
  <1> QED BY <1>1, <1>2, <1>3

\* While the task lasts it has not ended.
LEMMA StillServing ==
  ASSUME SettleInv, stage[Focal] = "serving", stage' = stage
  PROVE  TaskEndsSettled'
  BY DEF TaskEndsSettled

\* A call that goes on, its effects next: nobody waits for nothing.
LEMMA GoesOnSettles ==
  ASSUME SettleInv, TaskInv', GoesOn, TaskEndsSettled',
         Asks(effects') => Asks(todo')
  PROVE  SettleCore'
  <1>1. ASSUME stage'[Focal] # "failed", ~finished', request' # NoRequest, asked' = "none"
        PROVE  Watched' # {}
    <2>1. HasPending(branches') /\ ActiveIds(branches') \subseteq Watched'
      BY <1>1 DEF GoesOn, TaskInv
    <2>2. ActiveIds(branches') # {}
      BY <2>1 DEF HasPending, ActiveIds
    <2> QED BY <2>1, <2>2
  <1> QED BY <1>1 DEF SettleCore, GoesOn

\* A step without a call, or with one that finds nothing to do.
LEMMA QuietSettles ==
  ASSUME SettleInv, Ignore, TaskEndsSettled',
         stage[Focal] # "failed" \/ stage'[Focal] = "failed",
         Asks(todo) => Asks(todo'), Watched \subseteq Watched'
  PROVE  SettleCore'
  BY DEF SettleInv, SettleCore, Ignore, QueueBuilds

\* `perform` leaves a question or a branch, or the context is over.
LEMMA PerformSettles ==
  ASSUME AllTargetsBuild, SettleInv, TaskInv', Perform
  PROVE  SettleCore'
  <1>0. /\ CoreInv /\ todo \in Seq(Effect) /\ QueueBuilds
        /\ stage[Focal] = "serving" /\ stage[Focal] # "failed" /\ todo # <<>>
    BY DEF SettleInv, TaskInv, Perform, PerformResolve, PerformVerify, PerformForward,
           PerformRespond, PerformNothing, Due
  <1>1. /\ Tail(todo) \in Seq(Effect) /\ effects' \in Seq(Effect)
        /\ \A id \in ForwardIds(todo) :
             id \in ForwardIds(Tail(todo)) \/ (Head(todo).kind = "Forward" /\ Head(todo).id = id)
        /\ Asks(todo) =>
             Asks(Tail(todo)) \/ Head(todo).kind \in {"ResolveTargets", "VerifyToken"}
    BY <1>0, NextEffect DEF TaskInv, CoreInv, IndInv, TypeOK
  <1>2. CASE PerformResolve \/ PerformVerify \/ (Due("Forward") /\ Unaddressable(Head(todo).id))
    <2>1. todo' = effects' \o Tail(todo) /\ stage' = stage
      BY <1>2 DEF PerformResolve, PerformVerify, Unaddressable, Nested, nodeVars
    <2>2. Asks(effects') => Asks(todo')
      BY <1>1, <2>1, JoinEffects
    <2>3. TaskEndsSettled'
      BY <1>0, <2>1, StillServing
    <2>4. CASE finished
      <3>1. Ignore
        BY <1>2, <2>4 DEF PerformResolve, PerformVerify, Unaddressable, Feed
      <3> QED BY <2>3, <2>4, <3>1 DEF SettleInv, SettleCore, Ignore, QueueBuilds
    <2>5. CASE ~finished
      <3>1. \/ \E targets \in TargetSets : OnTargets(targets)
            \/ OnTargetsUnavailable
            \/ OnToken("invalid")
            \/ OnBranchFailure(Head(todo).id)
        BY <1>2, <2>5 DEF PerformResolve, PerformVerify, Unaddressable, Feed
      <3>2. GoesOn
        BY <1>0, <3>1, AnswersGoOn, FailureGoesOn
      <3> QED BY <2>2, <2>3, <3>2, GoesOnSettles
    <2> QED BY <2>4, <2>5
  <1>3. CASE Abandon
    <2>1. stage'[Focal] = "failed" /\ Ignore
      BY <1>3 DEF SettleInv, TaskInv, GateInv, Abandon, Leave, Arrivals
    <2>2. TaskEndsSettled' /\ QueueBuilds'
      BY <1>0, <2>1 DEF TaskEndsSettled, Ignore, QueueBuilds
    <2> QED BY <2>1, <2>2 DEF SettleCore
  <1>4. CASE /\ Ignore /\ todo' = Tail(todo) /\ readers' = readers /\ stage' = stage
             /\ forwarded \subseteq forwarded'
             /\ Head(todo).kind = "Forward" => Head(todo).id \in forwarded'
             /\ Head(todo).kind \notin {"ResolveTargets", "VerifyToken"}
    <2>1. TaskEndsSettled'
      BY <1>0, <1>4, StillServing
    <2>2. Asks(todo) => Asks(todo')
      BY <1>1, <1>4
    <2>3. Watched \subseteq Watched'
      BY <1>1, <1>4 DEF Watched
    <2> QED BY <1>0, <1>4, <2>1, <2>2, <2>3, QuietSettles
  <1>5. CASE ~Abandon /\ (PerformNothing \/ PerformRespond)
    <2>1. /\ Ignore /\ todo' = Tail(todo) /\ readers' = readers /\ stage' = stage
          /\ forwarded' = forwarded
          /\ Head(todo).kind \in {"CancelBranch", "SetTimer", "Terminate", "Respond"}
      BY <1>5 DEF PerformNothing, PerformRespond, Due, Advance, nodeVars
    <2>2. /\ forwarded \subseteq forwarded' /\ Head(todo).kind # "Forward"
          /\ Head(todo).kind \notin {"ResolveTargets", "VerifyToken"}
      BY <2>1
    <2> QED BY <1>4, <2>1, <2>2
  <1>6. CASE ~Abandon /\ PerformForward /\ ~Unaddressable(Head(todo).id)
    <2>1. /\ Ignore /\ todo' = Tail(todo) /\ readers' = readers /\ stage' = stage
          /\ forwarded' = forwarded \cup {Head(todo).id} /\ Head(todo).kind = "Forward"
      BY <1>6 DEF PerformForward, Due, Advance, nodeVars
    <2>2. /\ forwarded \subseteq forwarded' /\ Head(todo).id \in forwarded'
          /\ Head(todo).kind \notin {"ResolveTargets", "VerifyToken"}
      BY <2>1
    <2> QED BY <1>4, <2>1, <2>2
  <1> QED BY <1>2, <1>3, <1>5, <1>6 DEF Perform, PerformForward

\* The first call, and a round's next branch.
LEMMA StartSettles ==
  ASSUME SettleInv, TaskInv', NEW r \in Requests, Start(r)
  PROVE  SettleCore'
  <1>1. /\ OnUpstream(r) /\ todo' = effects' /\ stage' = stage /\ stage[Focal] = "serving"
        /\ CoreInv
    BY DEF Start, nodeVars, SettleInv, TaskInv
  <1>2. GoesOn
    BY <1>1, UpstreamGoesOn
  <1>3. TaskEndsSettled'
    BY <1>1, StillServing
  <1> QED BY <1>1, <1>2, <1>3, GoesOnSettles

LEMMA OnBranchSettles ==
  ASSUME SettleInv, TaskInv', NEW id \in readers, OnBranch(id)
  PROVE  SettleCore'
  <1>1. /\ CoreInv /\ QueueBuilds /\ stage[Focal] = "serving" /\ todo = <<>> /\ Joins(id)
        /\ todo' = effects' /\ stage' = stage
    BY DEF SettleInv, TaskInv, OnBranch, Joins, Reading, HearProvisional, HearFinal,
           HearTimeout, HearTransportError, HearIrrelevant, StreamEnds, Hear, nodeVars
  <1>2. TaskEndsSettled'
    BY <1>1, StillServing
  <1>3. CASE OnBranchFailure(id)
    BY <1>1, <1>2, <1>3, FailureGoesOn, GoesOnSettles
  <1>4. CASE ~OnBranchFailure(id)
    <2>1. /\ readers' = readers
          /\ \/ Ignore
             \/ \E status \in 100..699 : OnBranchResponse(id, status)
      <3>1. 408 \in 100..699 /\ Codes \subseteq 100..699
        BY CodesAssumption
      <3> QED BY <1>4, <3>1 DEF OnBranch, HearProvisional, HearFinal, HearTimeout,
                                HearTransportError, HearIrrelevant, StreamEnds, Hear, Rewatched
    <2>2. id \in Watched'
      BY <2>1 DEF Watched
    <2>3. CASE Ignore
      <3>1. Asks(todo) => Asks(todo')
        BY <1>1 DEF Asks
      <3>2. asked' = asked /\ finished' = finished /\ QueueBuilds'
        BY <1>1, <2>3 DEF Ignore, QueueBuilds
      <3> QED BY <1>1, <1>2, <2>2, <3>1, <3>2 DEF SettleInv, SettleCore
    <2>4. CASE \E status \in 100..699 : OnBranchResponse(id, status)
      <3>1. asked' = "none" /\ QueueBuilds'
        BY <1>1, <2>4, ResponseCall, ResponseQueue, ZenonT(40)
      <3> QED BY <1>2, <2>2, <3>1 DEF SettleCore
    <2> QED BY <2>1, <2>3, <2>4
  <1> QED BY <1>3, <1>4

\* A loop that ends has nothing left to wait for, and so has answered.
LEMMA RoundEndsSettles ==
  ASSUME SettleInv, RoundEnds
  PROVE  SettleCore'
  <1>1. /\ stage[Focal] = "serving" /\ todo = <<>> /\ (request # NoRequest \/ finished)
        /\ Ignore /\ todo' = todo /\ told' = told /\ QueueBuilds
        /\ finished /\ request # NoRequest => answered
        /\ answered => told # <<>> \/ Answers(todo)
        /\ ~finished => /\ asked # "none" => Asks(todo)
                        /\ request # NoRequest /\ asked = "none" => Watched # {}
    BY DEF SettleInv, TaskInv, CoreInv, RoundEnds, Reading
  <1>2. ~Asks(todo) /\ ~Answers(todo) /\ ForwardIds(todo) = {}
    BY <1>1 DEF Asks, Answers, ForwardIds
  <1>3. /\ request' = request /\ asked' = asked /\ finished' = finished /\ queued' = queued
    BY <1>1 DEF Ignore
  <1>4. finished \/ readers \cup forwarded # {}
    BY <1>1, <1>2 DEF Watched
  <1>5. TaskEndsSettled'
    BY <1>1, <1>2, <1>3, <1>4 DEF TaskEndsSettled, RoundEnds
  <1>6. ~finished => Watched' = Watched
    BY <1>1, <1>4 DEF RoundEnds, Watched
  <1> QED BY <1>1, <1>2, <1>3, <1>5, <1>6 DEF SettleCore, QueueBuilds

\* Focal is proxied: nothing but the branch loop ends its task as done.
LEMMA OtherEnds ==
  ASSUME GateInv,
         \/ \E a \in Arrivals : Arrive(a) \/ RespondOverloaded(a) \/ ServeOther(a) \/ ResidentEnds(a)
         \/ Accept
         \/ Idle
  PROVE  stage'[Focal] = "done" => stage[Focal] = "done"
  <1>0. stage \in [Arrivals -> Stages] /\ Focal \in Arrivals
    BY DEF GateInv, Arrivals
  <1>1. ASSUME NEW a \in Arrivals, NEW how,
               a # Focal \/ how # "done", stage' = [stage EXCEPT ![a] = how]
        PROVE  stage'[Focal] = "done" => stage[Focal] = "done"
    BY <1>0, <1>1
  <1>2. ASSUME NEW a \in Arrivals, Arrive(a) \/ RespondOverloaded(a) \/ ResidentEnds(a)
        PROVE  stage'[Focal] = "done" => stage[Focal] = "done"
    <2>1. \E how : how # "done" /\ stage' = [stage EXCEPT ![a] = how]
      BY <1>2 DEF Arrive, RespondOverloaded, ResidentEnds, Leave
    <2> QED BY <1>1, <2>1
  <1>3. ASSUME NEW a \in Arrivals, ServeOther(a)
        PROVE  stage'[Focal] = "done" => stage[Focal] = "done"
    <2>1. CASE a = Focal
      <3>1. Path(a) \notin {"Ack", "Unroutable"}
        BY <2>1 DEF Path, MethodIs
      <3>2. \E how : how # "done" /\ stage' = [stage EXCEPT ![a] = how]
        BY <1>3, <3>1 DEF ServeOther, Leave
      <3> QED BY <1>1, <3>2
    <2>2. CASE a # Focal
      <3>1. \E how : stage' = [stage EXCEPT ![a] = how]
        BY <1>3 DEF ServeOther, Leave
      <3> QED BY <1>1, <2>2, <3>1
    <2> QED BY <2>1, <2>2
  <1>4. CASE Accept
    <2>1. \E how : how # "done" /\ stage' = [stage EXCEPT ![Head(channel)] = how]
      BY <1>4 DEF Accept
    <2>2. Head(channel) \in Arrivals
      BY <1>4 DEF Accept, GateInv, ChannelHoldsQueued
    <2> QED BY <1>1, <2>1, <2>2
  <1>5. CASE Idle
    BY <1>5 DEF Idle, allVars, nodeVars
  <1> QED BY <1>2, <1>3, <1>4, <1>5

\* A step that is not the task's.
LEMMA OtherSettles ==
  ASSUME SettleInv, vars' = vars, driverVars' = driverVars,
         stage[Focal] = "failed" => stage'[Focal] = "failed",
         stage'[Focal] = "done" => stage[Focal] = "done"
  PROVE  SettleCore'
  BY DEF SettleInv, SettleCore, TaskEndsSettled, QueueBuilds, Watched, vars, driverVars

\* Every step keeps the invariant.
LEMMA SettleStep ==
  ASSUME AllTargetsBuild, SettleInv, NextNode
  PROVE  SettleInv'
  <1>1. TaskInv /\ TaskInv' /\ GateInv
    BY TaskStep DEF SettleInv, TaskInv
  <1> SUFFICES SettleCore'
    BY <1>1 DEF SettleInv, SettleCore
  <1>2. CASE Perform
    BY <1>1, <1>2, PerformSettles
  <1>3. CASE \E r \in Requests : Start(r)
    BY <1>1, <1>3, StartSettles
  <1>4. CASE RoundEnds
    BY <1>4, RoundEndsSettles
  <1>5. CASE \E id \in readers : OnBranch(id)
    BY <1>1, <1>5, OnBranchSettles
  <1>6. CASE \/ \E a \in Arrivals : Arrive(a) \/ RespondOverloaded(a) \/ ServeOther(a) \/ ResidentEnds(a)
             \/ Accept
             \/ Idle
    BY <1>1, <1>6, OtherSteps, OtherEnds, OtherSettles
  <1> QED BY <1>2, <1>3, <1>4, <1>5, <1>6 DEF NextNode

\* However deep the calls nest (hops without an address, rejected tokens, later
\* groups, streams that just end), a task that ends without a transport error leaves
\* a context that is over and a caller with a final response, provided every target
\* gives a copy, as those of every producer in the sources do.
THEOREM TasksEndSettled ==
  ASSUME AllTargetsBuild
  PROVE  SpecNode => []TaskEndsSettled
  <1>1. InitNode => SettleInv
    <2> SUFFICES ASSUME InitNode PROVE SettleInv
      OBVIOUS
    <2>1. TaskInv
      BY TaskInit
    <2>2. stage[Focal] = "unsent"
      BY DEF InitNode, Arrivals
    <2> QED BY <2>1, <2>2 DEF SettleInv, InitNode, Init, QueueBuilds, TaskEndsSettled
  <1>2. SettleInv /\ [NextNode]_allVars => SettleInv'
    <2> SUFFICES ASSUME SettleInv, [NextNode]_allVars PROVE SettleInv'
      OBVIOUS
    <2>1. CASE NextNode
      BY <2>1, SettleStep
    <2>2. CASE UNCHANGED allVars
      <3>1. vars' = vars /\ driverVars' = driverVars /\ stage' = stage /\ channel' = channel
            /\ gate' = gate /\ methodOf' = methodOf
        BY <2>2 DEF allVars, nodeVars
      <3>2. TaskCore' /\ GateInv'
        BY <3>1, TaskStutter, GateStutter DEF SettleInv, TaskInv
      <3>3. SettleCore'
        BY <3>1, OtherSettles
      <3> QED BY <3>2, <3>3 DEF SettleInv, SettleCore, TaskInv, TaskCore
    <2> QED BY <2>1, <2>2
  <1>3. SettleInv => TaskEndsSettled
    BY DEF SettleInv
  <1> QED BY <1>1, <1>2, <1>3, PTL DEF SpecNode
==============================================================================
