----------------------------- MODULE NodeDriver -----------------------------
(***************************************************************************)
(* The node driver around the response context (crates/sipx-clstr-node/    *)
(* src/driver.rs): the accept loop with its admission bound, the task that *)
(* serves one arrival, and the loop of proxy_request that performs the     *)
(* engine's effects and reads its branches concurrently.                   *)
(*                                                                         *)
(* One proxied request, Focal, runs through the whole engine.  The other   *)
(* arrivals compete with it for the kernel's queue and the permits; a      *)
(* proxied one among them only holds its permit, for as long as it likes.  *)
(*                                                                         *)
(* Unlike ProxyTransaction, which is the driver the engine was designed    *)
(* for, this driver discards CancelBranch and the timers, answers every    *)
(* token question with Invalid, feeds no CANCEL, and leaves its loop by    *)
(* `?` when the transport refuses a send.                                  *)
(*                                                                         *)
(* The kernel (sipx_transport) is external: a bounded channel of arrivals  *)
(* filled with try_send, and per client transaction a stream of events     *)
(* that ends when the transaction does, or when its endpoint is gone.      *)
(*                                                                         *)
(* A name with an underscore is the definition below it with a plausible   *)
(* bug; no specification uses it.                                          *)
(***************************************************************************)
EXTENDS ResponseContext

CONSTANTS
    Focal,              \* the arrival that is proxied in full
    Others,             \* the other arrivals
    Traffic,            \* the methods they may have: functions [Others -> Methods]
    Roles,              \* the capabilities a node may have been given
    QueueMax,           \* the kernel's channel of arrivals (1024)
    MaxInFlight,        \* NodeConfig::max_in_flight_transactions
    MaxHeard            \* bound: how many provisionals a branch is sent

Methods == {"INVITE", "OTHER", "REGISTER", "ACK"}

ASSUME DriverAssumption ==
    /\ Focal \notin Others
    /\ Traffic \subseteq [Others -> Methods]
    /\ Roles \subseteq [registrar : BOOLEAN, proxy : BOOLEAN]
    /\ QueueMax \in Nat /\ MaxInFlight \in Nat /\ MaxHeard \in Nat

VARIABLES
    roles,      \* Capabilities of this node
    methodOf,   \* the method of each other arrival
    stage,      \* where each arrival is
    channel,    \* kernel: the arrivals not yet received
    gate,       \* AdmissionBound
    todo,       \* the effects `perform` has not come to, innermost call first
    forwarded,  \* branches sent in this round, not yet watched
    readers,    \* the JoinSet: branches with a task that awaits their stream
    client,     \* kernel: the client transaction of each branch
    told,       \* final responses sent to the caller of Focal
    ended       \* what each branch ended with, as its stream said

driverVars == <<todo, forwarded, readers, client, told, ended>>
nodeVars == <<roles, methodOf, stage, channel, gate>>
allVars == <<vars, driverVars, nodeVars>>

Arrivals == Others \cup {Focal}
Stages == {"unsent", "queued", "shed", "refused", "overloaded", "serving",
           "resident", "responded", "failed", "done"}

Max1(n) == IF n = 0 THEN 1 ELSE n

InitNode ==
    /\ Init
    /\ roles \in Roles /\ methodOf \in Traffic
    /\ stage = [a \in Arrivals |-> "unsent"]
    /\ channel = <<>>
    /\ gate = [inFlight |-> 0, admitted |-> 0, refused |-> 0]
    /\ todo = <<>> /\ forwarded = {} /\ readers = {}
    /\ client = [id \in {} |-> 0]
    /\ told = <<>> /\ ended = {}

\* The request Focal carries is chosen when it is served; its method is what the
\* gate and the dispatch look at, and every request of Requests is proxied.
MethodIs(a, m) == IF a = Focal THEN m \in {"INVITE", "OTHER"} ELSE methodOf[a] = m

-----------------------------------------------------------------------------
(* The kernel's queue and the accept loop *)

\* try_send: a full channel sheds the arrival, with a 503 unless it is an ACK.
Arrive(a) ==
    /\ stage[a] = "unsent"
    /\ IF Len(channel) < QueueMax
         THEN /\ channel' = Append(channel, a)
              /\ stage' = [stage EXCEPT ![a] = "queued"]
         ELSE /\ stage' = [stage EXCEPT ![a] = "shed"]
              /\ UNCHANGED channel
    /\ UNCHANGED <<vars, driverVars, roles, methodOf, gate>>

Gates_All(a) == TRUE
Gates(a) == ~(MethodIs(a, "REGISTER") \/ MethodIs(a, "ACK"))

\* AdmissionBound::admit on the accept loop: exempt, admitted with a permit, or
\* refused by a task of its own.
Accept ==
    /\ channel # <<>>
    /\ channel' = Tail(channel)
    /\ LET a == Head(channel)
       IN  \/ /\ ~Gates(a)
              /\ stage' = [stage EXCEPT ![a] = "serving"]
              /\ UNCHANGED gate
           \/ /\ Gates(a)
              /\ gate.inFlight < Max1(MaxInFlight)
              /\ gate' = [gate EXCEPT !.inFlight = @ + 1, !.admitted = @ + 1]
              /\ stage' = [stage EXCEPT ![a] = "serving"]
           \/ /\ Gates(a)
              /\ gate.inFlight >= Max1(MaxInFlight)
              /\ gate' = [gate EXCEPT !.refused = @ + 1]
              /\ stage' = [stage EXCEPT ![a] = "refused"]
    /\ UNCHANGED <<vars, driverVars, roles, methodOf>>

\* The permit is dropped when the task ends, whatever `serve` returned.
Release_OnSuccess(a, how) ==
    gate' = [gate EXCEPT !.inFlight = IF Gates(a) /\ how # "failed" THEN @ - 1 ELSE @]
Release(a, how) ==
    gate' = [gate EXCEPT !.inFlight = IF Gates(a) /\ @ > 0 THEN @ - 1 ELSE @]

Leave(a, how) == stage' = [stage EXCEPT ![a] = how] /\ Release(a, how)

\* The 503 of a refused arrival: `overloaded`, sent from the spawned task.
RespondOverloaded(a) ==
    /\ stage[a] = "refused"
    /\ stage' = [stage EXCEPT ![a] = "overloaded"]
    /\ UNCHANGED <<vars, driverVars, roles, methodOf, channel, gate>>

-----------------------------------------------------------------------------
(* Dispatch *)

Path(a) ==
    IF MethodIs(a, "REGISTER") THEN IF roles.registrar THEN "Registrar" ELSE "NotAllowed"
    ELSE IF MethodIs(a, "ACK") THEN IF roles.proxy THEN "Ack" ELSE "Unroutable"
    ELSE IF roles.proxy THEN "Proxy" ELSE "NotAllowed"

\* register and not_allowed always have a response; sending it may fail.  An ACK
\* is sent on or dropped; nothing answers it.
ServeOther(a) ==
    /\ stage[a] = "serving"
    /\ \/ /\ Path(a) \in {"Registrar", "NotAllowed"}
          /\ \E how \in {"responded", "failed"} : Leave(a, how)
       \/ /\ Path(a) \in {"Ack", "Unroutable"}
          /\ \E how \in {"done", "failed"} : (Path(a) = "Ack" \/ how = "done") /\ Leave(a, how)
       \/ /\ Path(a) = "Proxy" /\ a # Focal
          /\ stage' = [stage EXCEPT ![a] = "resident"]
          /\ UNCHANGED gate
    /\ UNCHANGED <<vars, driverVars, roles, methodOf, channel>>

\* A proxied arrival other than Focal ends some time, or never.
ResidentEnds(a) ==
    /\ stage[a] = "resident"
    /\ \E how \in {"responded", "failed"} : Leave(a, how)
    /\ UNCHANGED <<vars, driverVars, roles, methodOf, channel>>

-----------------------------------------------------------------------------
(* perform: the effects of one engine call, in order *)

\* A finished context accepts no input.
Feed(input) == IF finished THEN Ignore ELSE input

\* `perform` calls itself for an answer it feeds: the inner effects come first.
Nested == todo' = effects' \o Tail(todo)

Advance == todo' = Tail(todo)

Due(kind) == stage[Focal] = "serving" /\ todo # <<>> /\ Head(todo).kind = kind

PerformResolve ==
    /\ Due("ResolveTargets")
    /\ \/ \E targets \in TargetSets : Feed(OnTargets(targets))
       \/ Feed(OnTargetsUnavailable)
    /\ Nested
    /\ UNCHANGED <<forwarded, readers, client, told, ended, nodeVars>>

\* This node holds no key set: every token is Invalid.
PerformVerify ==
    /\ Due("VerifyToken")
    /\ Feed(OnToken("invalid"))
    /\ Nested
    /\ UNCHANGED <<forwarded, readers, client, told, ended, nodeVars>>

\* `?`: the task ends, its readers and streams are dropped, nobody is told.
Abandon ==
    /\ Leave(Focal, "failed")
    /\ todo' = <<>> /\ forwarded' = {} /\ readers' = {}
    /\ Ignore
    /\ UNCHANGED <<client, told, ended, roles, methodOf, channel>>

NewClient == [phase |-> "calling", heard |-> 0]

\* A hop that resolves to no address fails its branch within the round.
Unaddressable(id) ==
    /\ Feed(OnBranchFailure(id))
    /\ Nested
    /\ ended' = ended \cup {[branch |-> id, status |-> 503]}
    /\ UNCHANGED <<forwarded, readers, client, told, nodeVars>>

PerformForward ==
    /\ Due("Forward")
    /\ LET id == Head(todo).id
       IN  \/ Unaddressable(id)
           \/ /\ client' = [i \in DOMAIN client \cup {id} |->
                              IF i = id THEN NewClient ELSE client[i]]
              /\ forwarded' = forwarded \cup {id}
              /\ Advance
              /\ Ignore
              /\ UNCHANGED <<readers, told, ended, nodeVars>>
           \/ Abandon

PerformRespond ==
    /\ Due("Respond")
    /\ \/ /\ told' = IF Head(todo).status < 200 THEN told ELSE Append(told, Head(todo).status)
          /\ Advance
          /\ Ignore
          /\ UNCHANGED <<forwarded, readers, client, ended, nodeVars>>
       \/ Abandon

\* Not wired: a losing branch rings on, and no timer is armed.
PerformNothing ==
    /\ \E kind \in {"CancelBranch", "SetTimer", "Terminate"} : Due(kind)
    /\ Advance
    /\ Ignore
    /\ UNCHANGED <<forwarded, readers, client, told, ended, nodeVars>>

-----------------------------------------------------------------------------
(* proxy_request *)

Start(r) ==
    /\ stage[Focal] = "serving" /\ roles.proxy
    /\ request = NoRequest /\ ~finished
    /\ OnUpstream(r)
    /\ todo' = effects'
    /\ UNCHANGED <<forwarded, readers, client, told, ended, nodeVars>>

Reading == stage[Focal] = "serving" /\ (request # NoRequest \/ finished) /\ todo = <<>>

\* The round is over: its branches are watched too, and the loop ends with the
\* context or with the last reader.  (A first round that finishes the context has
\* sent nothing, so leaving it here or at the empty JoinSet is the same.)
RoundEnds ==
    /\ Reading
    /\ forwarded # {} \/ readers = {} \/ finished
    /\ forwarded' = {}
    /\ IF finished \/ readers \cup forwarded = {}
         THEN readers' = {} /\ Leave(Focal, "done")
         ELSE readers' = readers \cup forwarded /\ UNCHANGED <<stage, gate>>
    /\ Ignore
    /\ UNCHANGED <<todo, client, told, ended, roles, methodOf, channel>>

\* The reader of branch id has an event: it is put back, the engine hears of it.
Rewatched_Forgotten(id) == readers \ {id}
Rewatched(id) == readers

Joins(id) == Reading /\ forwarded = {} /\ ~finished /\ id \in readers

HasEnded(id) == \E e \in ended : e.branch = id
EndsWith(id, status) ==
    IF HasEnded(id) THEN ended ELSE ended \cup {[branch |-> id, status |-> status]}

Hear(id, phase, extra, outcome) ==
    /\ client' = [client EXCEPT ![id] = [phase |-> phase, heard |-> @.heard + extra]]
    /\ readers' = Rewatched(id)
    /\ todo' = effects'
    /\ ended' = outcome
    /\ UNCHANGED <<forwarded, told, nodeVars>>

Live(id) == client[id].phase \in {"calling", "proceeding"}

HearProvisional(id, status) ==
    /\ Joins(id) /\ Live(id)
    /\ status < 200 /\ client[id].heard < MaxHeard
    /\ IF status = 100 THEN Ignore ELSE OnBranchResponse(id, status)
    /\ Hear(id, "proceeding", 1, ended)

HearFinal(id, status) ==
    /\ Joins(id) /\ status >= 200
    /\ LET success == status \div 100 = 2 /\ request.method = "INVITE"
       IN  /\ Live(id) \/ (success /\ client[id].phase = "accepted")
           /\ OnBranchResponse(id, status)
           /\ Hear(id, IF success /\ Live(id) THEN "accepted" ELSE "over", 0,
                   EndsWith(id, status))

\* Timer B or F in the kernel; no timer bounds an INVITE that rang.
HearTimeout(id) ==
    /\ Joins(id)
    /\ client[id].phase = "calling" \/ (Live(id) /\ request.method # "INVITE")
    /\ OnBranchResponse(id, 408)
    /\ Hear(id, "over", 0, EndsWith(id, 408))

HearTransportError(id) ==
    /\ Joins(id) /\ client[id].phase = "calling"
    /\ OnBranchFailure(id)
    /\ Hear(id, "over", 0, EndsWith(id, 503))

\* Events that are not the proxy's: the branch is put back.
HearIrrelevant(id) ==
    /\ Joins(id)
    /\ Ignore
    /\ Hear(id, client[id].phase, 0, ended)

\* None: the stream has ended, with or without a final before it, and the branch
\* is reported failed either way.
StreamEnds_Skipped(id) ==
    /\ Joins(id)
    /\ Ignore
    /\ client' = [client EXCEPT ![id].phase = "closed"]
    /\ readers' = readers \ {id}
    /\ todo' = effects'
    /\ ended' = EndsWith(id, 503)
    /\ UNCHANGED <<forwarded, told, nodeVars>>
StreamEnds(id) ==
    /\ Joins(id)
    /\ OnBranchFailure(id)
    /\ client' = [client EXCEPT ![id].phase = "closed"]
    /\ readers' = readers \ {id}
    /\ todo' = effects'
    /\ ended' = EndsWith(id, 503)
    /\ UNCHANGED <<forwarded, told, nodeVars>>

OnBranch(id) ==
    \/ \E status \in Codes : HearProvisional(id, status) \/ HearFinal(id, status)
    \/ HearTimeout(id)
    \/ HearTransportError(id)
    \/ HearIrrelevant(id)
    \/ StreamEnds(id)

Perform ==
    \/ PerformResolve
    \/ PerformVerify
    \/ PerformForward
    \/ PerformRespond
    \/ PerformNothing

\* Every arrival has been dealt with, or is held by its far end for ever.
Idle ==
    /\ channel = <<>>
    /\ \A a \in Arrivals : stage[a] \notin {"unsent", "refused", "serving"}
    /\ UNCHANGED allVars

NextNode ==
    \/ \E a \in Arrivals : Arrive(a) \/ RespondOverloaded(a) \/ ServeOther(a) \/ ResidentEnds(a)
    \/ Accept
    \/ \E r \in Requests : Start(r)
    \/ Perform
    \/ RoundEnds
    \/ \E id \in readers : OnBranch(id)
    \/ Idle

SpecNode == InitNode /\ [][NextNode]_allVars

(***************************************************************************)
(* The accept loop runs, and so does every task that has something to do;  *)
(* the kernel's transaction timers fire, and it closes the stream of a     *)
(* transaction that is over.  No far end owes anything: one that rang may  *)
(* never answer, and a resident task may hold its permit for ever.         *)
(***************************************************************************)
Fairness ==
    /\ WF_allVars(Accept)
    /\ \A a \in Arrivals : WF_allVars(ServeOther(a))
    /\ WF_allVars(\E r \in Requests : Start(r))
    /\ WF_allVars(Perform) /\ WF_allVars(RoundEnds)
    /\ \A id \in 0..2 :
         /\ WF_allVars(id \in readers /\ HearTimeout(id))
         /\ WF_allVars(id \in readers /\ ~Live(id) /\ StreamEnds(id))

FairNode == SpecNode /\ Fairness

-----------------------------------------------------------------------------
(* Properties *)

Gated(s) == {a \in Arrivals : Gates(a) /\ stage[a] \in s}

\* DP-11: whatever way tasks end (a response, an error from the transport, the
\* end of a branch loop), the gauge is exactly the gated tasks that still live,
\* it never passes the bound, and every gated arrival was counted once.
PermitsAreConserved ==
    /\ gate.inFlight = Cardinality(Gated({"serving", "resident"}))
    /\ gate.inFlight <= Max1(MaxInFlight)
    /\ gate.admitted + gate.refused = Cardinality(Gated(Stages \ {"unsent", "queued", "shed"}))

\* PX-9: between two rounds every branch the engine still waits for has a reader,
\* whatever events came before, so none can be forgotten.
PendingBranchIsRead ==
    Reading /\ ~finished =>
      {branches[k].id : k \in {j \in DOMAIN branches : branches[j].state # "Concluded"}}
         \subseteq readers \cup forwarded

\* A task that ends without a transport error leaves nothing open: the context is
\* over and the caller has a final response, unless the request was one that
\* cannot be answered (V1).  Every nested round counts: unaddressable hops,
\* tokens, later groups, streams that just end.
TaskEndsSettled ==
    stage[Focal] = "done" => finished /\ (request # NoRequest => told # <<>>)

\* DP-11: "why that cannot starve".  A REGISTER in the node's channel is served,
\* also when every permit is held and never comes back.
RegisterIsServed ==
    \A a \in Others :
      MethodIs(a, "REGISTER") =>
        (stage[a] = "queued" ~> stage[a] \in {"responded", "failed"})

\* proxy-transaction-driver.md:151: a stream that "ends with no final" is a branch
\* that failed, one that ends after its final is not.  So a response chosen by
\* selection is one that a branch ended with, and 500 stands for a 503.
Outcomes == {e.status : e \in ended}
ChosenFinalWasReceived ==
    \A k \in DOMAIN told :
      LET s == told[k]
          relayed == s \div 100 = 6 \/ (s \div 100 = 2 /\ request.method = "INVITE")
      IN  branches # <<>> /\ ~relayed =>
            s \in Outcomes \ {503} \/ (s = 500 /\ 503 \in Outcomes)

\* driver.rs, AdmissionBound: a proxied task "lives for the whole transaction - up
\* to Timer B, or the 180-second unanswered backstop", so its permit comes back.
PermitComesBack == stage[Focal] = "serving" ~> stage[Focal] # "serving"
=============================================================================
