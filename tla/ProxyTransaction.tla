-------------------------- MODULE ProxyTransaction --------------------------
(***************************************************************************)
(* The response context together with the world it was designed for: a     *)
(* driver that performs every effect before it feeds the next input        *)
(* (docs/specs/proxy-behavior.md sections 1 and 9, and the simulator's     *)
(* harness), one kernel client transaction per forwarded branch, Timer C   *)
(* per INVITE branch, and a caller who may withdraw the request.           *)
(*                                                                         *)
(* The kernel (the sipx crates) is external.  It is modelled from how this *)
(* repository uses it: a client transaction delivers provisionals, then at *)
(* most one final response, except that every 2xx to an INVITE is passed   *)
(* on (RFC 6026); a transaction that hears nothing, and any non-INVITE     *)
(* transaction without a final, ends in a timeout, which the driver feeds  *)
(* as a 408; a transport may fail before anything was heard.               *)
(***************************************************************************)
EXTENDS ResponseContext

CONSTANT MaxProvisionals    \* how many 1xx a far end sends on one branch

ASSUME ProvisionalsAssumption == MaxProvisionals \in Nat

VARIABLES
    client,     \* kernel: the client transaction of each forwarded branch
    timers,     \* driver: the branches whose Timer C is armed
    upstream,   \* the final responses sent to the caller, in order
    withdrawn,  \* whether a CANCEL came, and before or after routing was decided
    heard       \* what branches ended with, as the kernel and Timer C saw it

envVars == <<client, timers, upstream, withdrawn, heard>>
allVars == <<vars, envVars>>

Client ==
    [phase : {"calling", "proceeding", "accepted", "done"}, cancels : Nat,
     provisionals : 0..MaxProvisionals, share : Nat]

\* How many CANCELs the effects send on branch id.
CancelsOf(es, id) ==
    Cardinality({k \in DOMAIN es : es[k].kind = "CancelBranch" /\ id \in es[k].ids})

EffectsOf(kind) == {effects'[k] : k \in {j \in DOMAIN effects' : effects'[j].kind = kind}}

\* The caller is sent the final responses among the effects in the order they were emitted.
FinalsAt(es) == {k \in DOMAIN es : es[k].kind = "Respond" /\ es[k].status >= 200}

Reply ==
    LET at == FinalsAt(effects')
    IN  \E order \in {o \in [1..Cardinality(at) -> at] :
                        \A i, j \in DOMAIN o : i < j => o[i] < o[j]} :
          upstream' = upstream \o [k \in 1..Cardinality(at) |-> effects'[order[k]].status]

\* The driver performs the effects of the call; cl, ts and hd are the client
\* transactions, timers and finals as the input left them.
Perform(cl, ts, hd) ==
    LET launched == {e.id : e \in EffectsOf("Forward")}
        over == EffectsOf("Terminate") # {}
    IN  /\ client' = [id \in DOMAIN cl \cup launched |->
                        IF id \in launched
                          THEN [phase |-> "calling", cancels |-> 0, provisionals |-> 0,
                                share |-> (CHOOSE e \in EffectsOf("Forward") : e.id = id).share]
                        ELSE [cl[id] EXCEPT !.cancels = @ + CancelsOf(effects', id)]]
        /\ timers' = IF over THEN {} ELSE ts \cup {e.id : e \in EffectsOf("SetTimer")}
        /\ Reply
        /\ heard' = hd

\* A final counts only while the caller can still be told.
Noted(id, status) ==
    IF finished THEN heard ELSE heard \cup {[branch |-> id, status |-> status]}

SetPhase(id, phase) == [client EXCEPT ![id].phase = phase]

Live(id) == client[id].phase \in {"calling", "proceeding"}

InitAll ==
    /\ Init
    /\ client = [id \in {} |-> 0]
    /\ timers = {}
    /\ upstream = <<>>
    /\ withdrawn = "no"
    /\ heard = {}

-----------------------------------------------------------------------------
(* The driver feeds the request and the answers to the engine's questions. *)

Mint == TokensMinted /\ UNCHANGED envVars

Receive(r) == OnUpstream(r) /\ Perform(client, timers, heard) /\ UNCHANGED withdrawn

Verify(v) == OnToken(v) /\ Perform(client, timers, heard) /\ UNCHANGED withdrawn

Resolve ==
    /\ \/ \E targets \in TargetSets : OnTargets(targets)
       \/ OnTargetsUnavailable
    /\ Perform(client, timers, heard)
    /\ UNCHANGED withdrawn

CallerCancels ==
    /\ request.method = "INVITE"
    /\ withdrawn = "no"
    /\ withdrawn' = IF asked = "none" THEN "forking" ELSE "routing"
    /\ \/ OnUpstreamCancelled
       \/ finished /\ Ignore
    /\ Perform(client, timers, heard)

\* What a branch's client transaction reports reaches the engine, or, once the
\* context is over, nobody.
Deliver(handler) == IF finished THEN Ignore ELSE handler

(* The kernel reports what a branch's client transaction saw. *)

\* A 100 moves the transaction on; the engine absorbs it (R3).
HearTrying(id) ==
    /\ client[id].phase = "calling"
    /\ Ignore
    /\ Perform(SetPhase(id, "proceeding"), timers, heard)
    /\ UNCHANGED withdrawn

HearProvisional(id, status) ==
    /\ status \in 101..199
    /\ Live(id)
    /\ client[id].provisionals < MaxProvisionals
    /\ Deliver(OnBranchResponse(id, status))
    /\ Perform([client EXCEPT ![id].phase = "proceeding", ![id].provisionals = @ + 1],
               timers, heard)
    /\ UNCHANGED withdrawn

HearFinal(id, status) ==
    /\ status >= 200
    /\ LET success == status \div 100 = 2 /\ request.method = "INVITE"
       IN  /\ Live(id) \/ (success /\ client[id].phase = "accepted")
           /\ Deliver(OnBranchResponse(id, status))
           /\ Perform(SetPhase(id, IF success /\ Live(id) THEN "accepted" ELSE "done"),
                      timers, Noted(id, status))
    /\ UNCHANGED withdrawn

\* Timer B or F: nothing was heard, or a non-INVITE got no final (R9).
KernelTimeout(id) ==
    /\ client[id].phase = "calling" \/ (Live(id) /\ request.method # "INVITE")
    /\ Deliver(OnBranchResponse(id, 408))
    /\ Perform(SetPhase(id, "done"), timers, Noted(id, 408))
    /\ UNCHANGED withdrawn

TransportFails(id) ==
    /\ client[id].phase = "calling"
    /\ Deliver(OnBranchFailure(id))
    /\ Perform(SetPhase(id, "done"), timers, Noted(id, 503))
    /\ UNCHANGED withdrawn

TimerCFires(id) ==
    /\ id \in timers
    /\ \/ OnTimerC(id)
       \/ ~IsPending(branches, id) /\ Ignore
    /\ Perform(client, timers \ {id},
               IF \E k \in DOMAIN branches : /\ branches[k].id = id
                                             /\ branches[k].state = "Pending"
                                             /\ ~branches[k].sawProvisional
                 THEN Noted(id, 408) ELSE heard)
    /\ UNCHANGED withdrawn

OnBranch(id) ==
    \/ HearTrying(id)
    \/ \E status \in Codes : HearProvisional(id, status) \/ HearFinal(id, status)
    \/ KernelTimeout(id)
    \/ TransportFails(id)
    \/ TimerCFires(id)

\* The caller has its answer and every transaction has ended.
Quiet ==
    /\ finished \/ (answered /\ ~HasPending(branches))
    /\ \A id \in DOMAIN client : ~Live(id)
    /\ UNCHANGED allVars

NextAll ==
    \/ Mint
    \/ \E r \in Requests : Receive(r)
    \/ \E v \in {"valid", "invalid"} : Verify(v)
    \/ Resolve
    \/ CallerCancels
    \/ \E id \in DOMAIN client : OnBranch(id)
    \/ Quiet

SpecAll == InitAll /\ [][NextAll]_allVars

(***************************************************************************)
(* Fairness, for liveness only.  The driver answers the engine's questions *)
(* (verify and lookup both return, with an error if need be), and the      *)
(* kernel's transaction timers and Timer C fire.  Nothing is assumed of    *)
(* the far ends or of the caller.                                          *)
(***************************************************************************)
Fairness ==
    /\ WF_allVars(\E v \in {"valid", "invalid"} : Verify(v))
    /\ WF_allVars(Resolve)
    /\ \A id \in 0..3 :
         /\ WF_allVars(id \in DOMAIN client /\ KernelTimeout(id))
         /\ WF_allVars(id \in DOMAIN client /\ TimerCFires(id))

FairSpec == SpecAll /\ Fairness
-----------------------------------------------------------------------------
(* Properties *)

\* The Max-Breadth of the branches that are in S together.
BreadthOf(S) ==
    LET handed[k \in 0..Len(branches)] ==
          IF k = 0 THEN 0
          ELSE handed[k - 1] + (IF branches[k].id \in S THEN client[branches[k].id].share ELSE 0)
    IN  handed[Len(branches)]

LiveIds == {id \in DOMAIN client : Live(id)}

\* Timer C gave these up as 408, without a CANCEL (C6); their transactions go on.
GivenUp == {id \in LiveIds : \E h \in heard : h.branch = id}

\* Section 6 and PB-V-8: the copies whose client transactions are open and not
\* given up carry together no more Max-Breadth than the request arrived with,
\* however many groups, failures and cancellations came before.  A copy that
\* Timer C gave up is not counted: see LiveBreadthIsConserved.
BreadthIsConserved ==
    request # NoRequest => BreadthOf(LiveIds \ GivenUp) <= MaxBreadth(request)

\* PB-V-8 of every copy that is still in flight, the abandoned ones included.
LiveBreadthIsConserved == request # NoRequest => BreadthOf(LiveIds) <= MaxBreadth(request)

Outcomes == {h.status : h \in heard}

\* R5 and R6 relay these on arrival.
Relayed(status) == status \div 100 = 6 \/ (status \div 100 = 2 /\ request.method = "INVITE")

\* R7, R8 and section 8.1: a response chosen by selection (not relayed on arrival by
\* R5 or R6) is the best of everything the branches ended with, in every order
\* of arrival and across every group, and a 503 is told as 500.
BestIsSelected ==
    \A k \in DOMAIN upstream :
      branches # <<>> /\ ~Relayed(upstream[k]) =>
        /\ BranchIds = {h.branch : h \in heard}
        /\ \E best \in Outcomes :
              /\ \A t \in Outcomes : Preferred(best, t)
              /\ upstream[k] = IF best = 503 THEN 500 ELSE best

\* R7: a chosen 401 or 407 speaks for every branch that challenged with it.
ChallengesAreAggregated ==
    \A k \in DOMAIN effects :
      effects[k].kind = "Respond" /\ effects[k].status \in {401, 407} =>
        effects[k].from = {h.branch : h \in {g \in heard : g.status = effects[k].status}}

\* A final response chosen by selection is the only final the caller gets; more
\* than one only ever reaches it through R5 and R6, and then none but 2xx and 6xx.
SelectedFinalStandsAlone ==
    \A k \in DOMAIN upstream :
      upstream[k] \div 100 \notin {2, 6} => Len(upstream) = 1

\* What the caller is finally told when no branch decided by itself: in every order of
\* arrival and over every group, the best of all outcomes, with every challenge, once.
SelectionIsBest == BestIsSelected /\ ChallengesAreAggregated /\ SelectedFinalStandsAlone

\* C2, R11: a branch is sent one CANCEL at most, and only while it is pending and
\* its transaction has no final, whether the caller, Timer C, a released CANCEL or
\* the end of the target set asks for it.
CancelOnlyLiveBranches ==
    [][\A id \in DOMAIN client :
         client'[id].cancels > client[id].cancels =>
           /\ Live(id) /\ IsPending(branches, id)
           /\ client[id].cancels = 0 /\ client'[id].cancels = 1]_allVars

\* C7: once the caller withdrew a request whose targets were known, no further
\* target is tried, whatever finals and timers settle the branches in flight.
WithdrawnTargetsStayUntried ==
    [][withdrawn = "forking" => ~Emits(effects', "Forward")]_allVars

\* C7 as written: "a target that was never tried is never tried", also when the
\* CANCEL arrives while the location service or the token check has not answered.
WithdrawnNeverLaunches ==
    [][withdrawn # "no" => ~Emits(effects', "Forward")]_allVars

\* RFC 3261 section 9.1 as BranchState::Pending states it: no CANCEL for an INVITE
\* that has produced no provisional.
CancelAfterProvisional ==
    \A id \in DOMAIN client :
      client[id].cancels > 0 /\ request.method = "INVITE" => client[id].phase # "calling"

\* R5 while the context lives: a 2xx to an INVITE is relayed, also on a branch that
\* was cancelled or concluded, and after another 2xx or a 6xx went upstream.
SuccessRelayedWhileOpen ==
    [][\A id \in DOMAIN client :
         /\ client[id].phase # "accepted"
         /\ client'[id].phase = "accepted"
         /\ ~finished
         => Len(upstream') = Len(upstream) + 1]_allVars

\* R5 as written: a 2xx is relayed "always", "including after a final response was
\* already chosen".
EverySuccessRelayed ==
    [][\A id \in DOMAIN client :
         client[id].phase # "accepted" /\ client'[id].phase = "accepted"
         => Len(upstream') = Len(upstream) + 1]_allVars

\* What the code takes for granted of the far ends and keeps no timer for: one that
\* was sent a CANCEL ends its transaction.
FarEndsAnswerCancel ==
    <>[](\A id \in DOMAIN client : client[id].cancels > 0 => ~Live(id))

\* Sections 7 to 9: every request the proxy accepts is answered, provided that far
\* ends answer a CANCEL.  Once Timer C has cancelled a branch whose far end stays
\* silent, the code guarantees the caller nothing: see EveryCallerIsTold.
EveryRequestAnswered ==
    FarEndsAnswerCancel => (request # NoRequest ~> answered \/ finished)

\* Section 9: no branch stays pending.  It concludes or is sent a CANCEL, or its
\* context is over, whatever its far end does or leaves undone.
EveryBranchSettles ==
    \A id \in 0..3 : IsPending(branches, id) ~> ~IsPending(branches, id) \/ finished

\* The same two of every far end, and up to the end of a branch: nothing in the
\* engine ends a branch that is Cancelling.
EveryCallerIsTold == request # NoRequest ~> answered \/ finished
EveryBranchConcludes == HasPending(branches) ~> ~HasPending(branches) \/ finished
=============================================================================
