--------------------------- MODULE ResponseContext ---------------------------
(***************************************************************************)
(* The response context of the proxy: the sans-IO engine that takes one    *)
(* proxied request from its arrival to the response that concludes it      *)
(* (crates/sipx-clstr-proxy/src/context.rs, with the validation of         *)
(* validate.rs, the route preprocessing of route.rs and the parts of       *)
(* forward.rs that decide whether a copy can be built and what share of    *)
(* Max-Breadth it carries).                                                *)
(*                                                                         *)
(* A step of Next is one call of ResponseContext::on_input; `effects` is   *)
(* what that call returned.  The module is open towards the network: a     *)
(* response, a transport error, Timer C or a CANCEL may arrive in any      *)
(* order, at any time, any number of times.  It is closed towards the      *)
(* driver in one respect, which every driver in the repository keeps:      *)
(* TargetsResolved and TokenFact come only as answers to the question the  *)
(* engine asked (`asked`), and Upstream comes once.                        *)
(*                                                                         *)
(* A name with an underscore (Share_Undivided) is the definition below it  *)
(* with a plausible bug: it is there to show that a property notices, and  *)
(* no specification uses it.                                               *)
(***************************************************************************)
EXTENDS Integers, Sequences, FiniteSets

CONSTANTS
    Requests,    \* the requests that may arrive
    TargetSets,  \* the answers the location service may give: sequences of targets
    Codes,       \* the status codes a branch may answer with
    U32Max,      \* the largest Max-Breadth its u32 holds
    DefaultMaxBreadth

Absent == -1
NoRequest == [method |-> "none"]

(***************************************************************************)
(* A request is reduced to the facts the engine branches on.  maxForwards  *)
(* and maxBreadth are header values, Absent when the header is missing.  A *)
(* route is "token" (ours, carrying an affinity token), "ours" (without    *)
(* one), "foreign", or "garbled" (it does not parse).                      *)
(***************************************************************************)
Request ==
    [method : {"INVITE", "OTHER"}, respondable : BOOLEAN, scheme : BOOLEAN,
     maxForwards : Int, looped : BOOLEAN, maxBreadth : Int,
     supported : BOOLEAN, uriIsRecordRoute : BOOLEAN, inDialog : BOOLEAN,
     routes : Seq({"token", "ours", "foreign", "garbled"})]

\* `builds` is whether `forward` can build a copy for the target.
Target == [q : 0..1000, builds : BOOLEAN]

ASSUME RequestsAssumption == Requests \subseteq Request
ASSUME TargetSetsAssumption == TargetSets \subseteq Seq(Target)
ASSUME CodesAssumption == Codes \subseteq 100..699
ASSUME BreadthAssumption == U32Max \in Nat /\ DefaultMaxBreadth \in 1..U32Max

VARIABLES
    request,    \* the request after preprocessing, or NoRequest
    branches,   \* Vec<(BranchId, BranchState, Target)>, in forwarding order
    queued,     \* targets not yet tried
    finals,     \* final responses collected, as [branch, status]
    answered,   \* a final response has gone upstream
    finished,   \* the context is over
    awaiting,   \* awaiting_verdict
    tokens,     \* a Record-Route pair was minted
    effects,    \* the effects the last call returned, in order
    asked,      \* driver: the question it has not answered yet
    verdict     \* history: what became of the token the request carried

vars == <<request, branches, queued, finals, answered, finished, awaiting,
          tokens, effects, asked, verdict>>

-----------------------------------------------------------------------------
(* Validation (validate.rs) *)

\* header_number: a value that does not fit its integer type reads as absent.
HeaderNumber(value, limit) == IF value \in 0..limit THEN value ELSE Absent

\* V1 to V6 in order: what each check needs to pass.
Checks(r) == << r.respondable,
                r.scheme,
                HeaderNumber(r.maxForwards, 255) # 0,
                ~r.looped,
                HeaderNumber(r.maxBreadth, U32Max) # 0,
                r.supported >>

\* Refusal::status; 0 stands for Drop, which answers nothing.
RefusalStatus == <<0, 416, 483, 482, 440, 420>>

Refused(r, v) == ~Checks(r)[v] /\ \A w \in 1..(v - 1) : Checks(r)[w]
Accepted(r) == \A v \in 1..6 : Checks(r)[v]

MaxBreadth(r) ==
    LET value == HeaderNumber(r.maxBreadth, U32Max)
    IN  IF value = Absent THEN DefaultMaxBreadth ELSE value

-----------------------------------------------------------------------------
(* Route preprocessing and target determination (route.rs) *)

\* P1: a strict-routing predecessor left the real Request-URI in the last Route.
AfterP1(r) ==
    IF r.uriIsRecordRoute /\ r.routes # <<>> /\ r.routes[Len(r.routes)] # "garbled"
      THEN SubSeq(r.routes, 1, Len(r.routes) - 1)
      ELSE r.routes

\* P2: the leading platform Routes, at most two, are popped.
IsOurs(route) == route \in {"token", "ours"}
Popped(routes) ==
    IF routes = <<>> \/ ~IsOurs(routes[1]) THEN 0
    ELSE IF Len(routes) = 1 \/ ~IsOurs(routes[2]) THEN 1
    ELSE 2

\* The first popped Route governs: only its token is a question.
Carriage(r) == Popped(AfterP1(r)) > 0 /\ AfterP1(r)[1] = "token"

Preprocess(r) ==
    LET routes == AfterP1(r)
    IN  [r EXCEPT !.routes = SubSeq(routes, Popped(routes) + 1, Len(routes))]

\* T1 and T3: the Request-URI is the only target, nobody is asked.
Predetermined(r) == r.inDialog \/ r.routes # <<>>
SoleTarget == [q |-> 1000, builds |-> TRUE]

-----------------------------------------------------------------------------
(* Effects *)

Respond(status, from) == [kind |-> "Respond", status |-> status, from |-> from]
Forward(id, share, rr) == [kind |-> "Forward", id |-> id, share |-> share, recordRoutes |-> rr]
SetTimerC(id) == [kind |-> "SetTimer", id |-> id]
Simple(kind) == [kind |-> kind]
Terminate == Simple("Terminate")

\* One CancelBranch per branch; nothing depends on their order among themselves.
CancelBranches(ids) ==
    IF ids = {} THEN <<>> ELSE << [kind |-> "CancelBranch", ids |-> ids] >>

Effect ==
    [kind : {"Respond"}, status : 100..699, from : SUBSET Nat]
      \cup [kind : {"Forward"}, id : Nat, share : Nat, recordRoutes : 0..2]
      \cup [kind : {"SetTimer"}, id : Nat]
      \cup [kind : {"CancelBranch"}, ids : SUBSET Nat]
      \cup [kind : {"Terminate", "AnswerCancel", "ResolveTargets", "VerifyToken"}]

Emits(es, kind) == \E k \in DOMAIN es : es[k].kind = kind

-----------------------------------------------------------------------------
(* Branches *)

Branch ==
    [id : Nat, state : {"Pending", "Cancelling", "Concluded"},
     sawProvisional : BOOLEAN, cancelQueued : BOOLEAN, code : 0..699]

NewBranch(id) ==
    [id |-> id, state |-> "Pending", sawProvisional |-> FALSE,
     cancelQueued |-> FALSE, code |-> 0]

Known(id) == \E k \in DOMAIN branches : branches[k].id = id
IsPending(bs, id) == \E k \in DOMAIN bs : bs[k].id = id /\ bs[k].state = "Pending"
PendingIds_Cancelling(bs) == {bs[k].id : k \in {j \in DOMAIN bs : bs[j].state # "Concluded"}}
PendingIds(bs) == {bs[k].id : k \in {j \in DOMAIN bs : bs[j].state = "Pending"}}
HasPending_NotCancelling(bs) == \E k \in DOMAIN bs : bs[k].state = "Pending"
HasPending(bs) == \E k \in DOMAIN bs : bs[k].state # "Concluded"

\* The loops over branches change every branch of the given id.
Conclude(bs, id, status) ==
    [k \in DOMAIN bs |->
        IF bs[k].id = id
          THEN [bs[k] EXCEPT !.state = "Concluded", !.code = status]
          ELSE bs[k]]

SetCancelling(bs, ids) ==
    [k \in DOMAIN bs |->
        IF bs[k].id \in ids THEN [bs[k] EXCEPT !.state = "Cancelling"] ELSE bs[k]]

MarkProvisional(bs, id) ==
    [k \in DOMAIN bs |->
        IF bs[k].id = id /\ bs[k].state = "Pending"
          THEN [bs[k] EXCEPT !.sawProvisional = TRUE, !.cancelQueued = FALSE]
          ELSE bs[k]]

\* C2's deferred half: the branches whose queued CANCEL a provisional releases.
Released(bs, id) ==
    {bs[k].id : k \in {j \in DOMAIN bs : /\ bs[j].id = id
                                         /\ bs[j].state = "Pending"
                                         /\ bs[j].cancelQueued}}

-----------------------------------------------------------------------------
(* Forking (section 7) *)

\* sort_by_key(Reverse(q)), which is stable: p lists the positions of ts in order.
IsStableOrder(ts, p) ==
    /\ \A i, j \in DOMAIN p : i # j => p[i] # p[j]
    /\ \A i, j \in DOMAIN p :
          i < j => \/ ts[p[i]].q > ts[p[j]].q
                   \/ ts[p[i]].q = ts[p[j]].q /\ p[i] < p[j]

\* The first n targets are the group that goes out: one q, within Max-Breadth.
IsLeadingGroup(ts, n, breadth) ==
    /\ \A k \in 1..n : ts[k].q = ts[1].q
    /\ n <= breadth
    /\ n = Len(ts) \/ n = breadth \/ ts[n + 1].q # ts[1].q

\* pos lists, in order, the positions of the group whose copy could be built.
ListsBuilt(ts, n, m, pos) ==
    /\ \A i, j \in 1..m : i < j => pos[i] < pos[j]
    /\ {pos[i] : i \in 1..m} = {k \in 1..n : ts[k].builds}

\* forward: Max-Breadth is divided over the group, each copy getting at least 1.
Share_Undivided(r, n) == MaxBreadth(r)
Share(r, n) == IF MaxBreadth(r) \div n = 0 THEN 1 ELSE MaxBreadth(r) \div n

\* F4: a dialog-forming request is Record-Routed, as a pair when tokens were minted.
RecordRoutes(r) ==
    IF r.method = "INVITE" /\ ~r.inDialog
      THEN IF tokens THEN 2 ELSE 1
      ELSE 0

\* Each Forward is followed by the Timer C that guards it (F11, INVITE only).
ForkEffects(r, fresh, n) ==
    IF r.method = "INVITE"
      THEN [k \in 1..(2 * Len(fresh)) |->
              IF k % 2 = 1
                THEN Forward(fresh[(k + 1) \div 2].id, Share(r, n), RecordRoutes(r))
                ELSE SetTimerC(fresh[k \div 2].id)]
      ELSE [k \in 1..Len(fresh) |-> Forward(fresh[k].id, Share(r, n), RecordRoutes(r))]

RespondAndFinish(bs, status) ==
    /\ answered' = TRUE
    /\ finished' = TRUE
    /\ effects' = <<Respond(status, {})>> \o CancelBranches(PendingIds(bs)) \o <<Terminate>>

\* The group is the first n targets of ts, fresh the branches it gives; bs are the
\* branches so far.
LaunchGroup(r, bs, ts, n, fresh) ==
    /\ branches' = bs \o fresh
    /\ queued' = SubSeq(ts, n + 1, Len(ts))
    /\ IF bs \o fresh = <<>> /\ n = Len(ts)
         THEN RespondAndFinish(<<>>, 480)
         ELSE /\ effects' = ForkEffects(r, fresh, n)
              /\ UNCHANGED <<answered, finished>>

\* fork_next_group of the non-empty queue ts.  A branch's id is a function of the
\* request and of index = already + offset.
ForkNextGroup(r, bs, ts) ==
    \E n \in {k \in 1..Len(ts) : IsLeadingGroup(ts, k, MaxBreadth(r))} :
      \E m \in 0..n : \E pos \in [1..m -> 1..n] :
        /\ ListsBuilt(ts, n, m, pos)
        /\ LaunchGroup(r, bs, ts, n, [k \in 1..m |-> NewBranch(Len(bs) + pos[k] - 1)])

MayForkNextGroup == queued # <<>> /\ ~answered /\ ~finished

-----------------------------------------------------------------------------
(* Selection (section 8) *)

WithinClassRank(status) ==
    IF status \in {401, 407, 415, 420, 484} THEN 1
    ELSE IF status \in {480, 486} THEN 2
    ELSE 3

\* R7's order: class, then within-class rank, then code.
Preferred(s, t) ==
    \/ s \div 100 < t \div 100
    \/ /\ s \div 100 = t \div 100
       /\ \/ WithinClassRank(s) < WithinClassRank(t)
          \/ WithinClassRank(s) = WithinClassRank(t) /\ s <= t

IsBestFinal(fs, best) == \A f \in fs : Preferred(best, f.status)

\* The branches the answer speaks for: a 401 or 407 carries every challenge.
SpeaksFor(fs, best) == {f.branch : f \in {g \in fs : g.status = best}}

\* select_and_answer, reached with no branch in flight and nothing left to fork.
SelectAndAnswer(bs, fs) ==
    \/ /\ answered
       /\ finished' = TRUE
       /\ effects' = <<Terminate>>
       /\ UNCHANGED answered
    \/ /\ ~answered
       /\ \E best \in {f.status : f \in fs} :
            /\ IsBestFinal(fs, best)
            /\ \/ best = 503 /\ RespondAndFinish(bs, 500)
               \/ /\ best # 503
                  /\ answered' = TRUE
                  /\ finished' = TRUE
                  /\ effects' = << Respond(best, SpeaksFor(fs, best)), Terminate >>

\* A branch concluded without settling the context: bs and fs already say so.
AfterConclusion(bs, fs) ==
    /\ finals' = fs
    /\ \/ /\ HasPending(bs)
          /\ branches' = bs
          /\ effects' = <<>>
          /\ UNCHANGED <<queued, answered, finished>>
       \/ /\ ~HasPending(bs)
          /\ MayForkNextGroup
          /\ ForkNextGroup(request, bs, queued)
       \/ /\ ~HasPending(bs)
          /\ ~MayForkNextGroup
          /\ branches' = bs
          /\ UNCHANGED queued
          /\ SelectAndAnswer(bs, fs)
    /\ UNCHANGED <<request, awaiting, tokens, asked, verdict>>

-----------------------------------------------------------------------------
(* Inputs *)

Init ==
    /\ request = NoRequest
    /\ branches = <<>>
    /\ queued = <<>>
    /\ finals = {}
    /\ answered = FALSE
    /\ finished = FALSE
    /\ awaiting = FALSE
    /\ tokens = FALSE
    /\ effects = <<>>
    /\ asked = "none"
    /\ verdict = "none"

\* An input that is not an event returns no effects and changes nothing.
Ignore ==
    /\ effects' = <<>>
    /\ UNCHANGED <<request, branches, queued, finals, answered, finished,
                   awaiting, tokens, asked, verdict>>

\* Input::TokensMinted, which the driver feeds before Upstream.
TokensMinted ==
    /\ ~finished
    /\ request = NoRequest
    /\ tokens' = TRUE
    /\ effects' = <<>>
    /\ UNCHANGED <<request, branches, queued, finals, answered, finished,
                   awaiting, asked, verdict>>

\* refuse: the first check that fails ends the context.
Refuse(r) ==
    \E v \in 1..6 :
      /\ Refused(r, v)
      /\ effects' = IF RefusalStatus[v] = 0
                      THEN <<Terminate>>
                      ELSE <<Respond(RefusalStatus[v], {}), Terminate>>
      /\ finished' = TRUE
      /\ UNCHANGED <<request, branches, queued, finals, answered, awaiting,
                     tokens, asked, verdict>>

\* on_targets with a non-empty set: sort by q, queue, fork the leading group.
OnTargetSet(r, targets) ==
    \E p \in {o \in [1..Len(targets) -> 1..Len(targets)] : IsStableOrder(targets, o)} :
      ForkNextGroup(r, branches, [k \in 1..Len(targets) |-> targets[p[k]]])

\* route_it: T1, T3, or the question T2 puts to the location service.
RouteIt(r) ==
    \/ /\ Predetermined(r)
       /\ OnTargetSet(r, <<SoleTarget>>)
       /\ asked' = "none"
    \/ /\ ~Predetermined(r)
       /\ effects' = <<Simple("ResolveTargets")>>
       /\ asked' = "targets"
       /\ UNCHANGED <<branches, queued, answered, finished>>

\* A carried token is owed a verdict, whatever the engine does about it.
Carries(r) == verdict' = IF Carriage(r) THEN "owed" ELSE "none"

OnUpstream_Unverified(r) ==
    /\ ~finished
    /\ request = NoRequest
    /\ \/ Refuse(r)
       \/ /\ Accepted(r)
          /\ request' = Preprocess(r)
          /\ Carries(r)
          /\ UNCHANGED <<finals, tokens, awaiting>>
          /\ RouteIt(Preprocess(r))
OnUpstream(r) ==
    /\ ~finished
    /\ request = NoRequest
    /\ \/ Refuse(r)
       \/ /\ Accepted(r)
          /\ request' = Preprocess(r)
          /\ Carries(r)
          /\ UNCHANGED <<finals, tokens>>
          /\ \/ /\ Carriage(r)
                /\ awaiting' = TRUE
                /\ asked' = "verdict"
                /\ effects' = <<Simple("VerifyToken")>>
                /\ UNCHANGED <<branches, queued, answered, finished>>
             \/ /\ ~Carriage(r)
                /\ UNCHANGED awaiting
                /\ RouteIt(Preprocess(r))

OnToken(v) ==
    /\ ~finished
    /\ asked = "verdict"
    /\ awaiting
    /\ awaiting' = FALSE
    /\ verdict' = v
    /\ UNCHANGED <<request, finals, tokens>>
    /\ \/ v = "valid" /\ RouteIt(request)
       \/ /\ v = "invalid"
          /\ asked' = "none"
          /\ RespondAndFinish(branches, 403)
          /\ UNCHANGED <<branches, queued>>

OnTargets_Unasked(targets) ==
    /\ ~finished
    /\ request # NoRequest /\ asked # "verdict"
    /\ asked' = "none"
    /\ targets # <<>> /\ OnTargetSet(request, targets)
    /\ UNCHANGED <<request, finals, awaiting, tokens, verdict>>
OnTargets(targets) ==
    /\ ~finished
    /\ asked = "targets"
    /\ asked' = "none"
    /\ \/ /\ targets = <<>>
          /\ RespondAndFinish(branches, 480)
          /\ UNCHANGED <<branches, queued>>
       \/ targets # <<>> /\ OnTargetSet(request, targets)
    /\ UNCHANGED <<request, finals, awaiting, tokens, verdict>>

OnTargetsUnavailable ==
    /\ ~finished
    /\ asked = "targets"
    /\ asked' = "none"
    /\ RespondAndFinish(branches, 503)
    /\ UNCHANGED <<request, branches, queued, finals, awaiting, tokens, verdict>>

\* on_branch_failure: a transport error, or a branch's own 503 (R8, R10).
OnBranchFailure(id) ==
    /\ ~finished
    /\ Known(id)
    /\ AfterConclusion(Conclude(branches, id, 503),
                       finals \cup {[branch |-> id, status |-> 503]})

\* R4: relayed at once, Timer C re-armed, a queued CANCEL released.
OnProvisional(id, status) ==
    /\ branches' = SetCancelling(MarkProvisional(branches, id), Released(branches, id))
    /\ effects' = << Respond(status, {id}) >>
                  \o (IF request.method = "INVITE" THEN << SetTimerC(id) >> ELSE <<>>)
                  \o CancelBranches(Released(branches, id))
    /\ UNCHANGED <<request, queued, finals, answered, finished, awaiting,
                   tokens, asked, verdict>>

\* conclude_target_set: nothing that was never launched may be launched now.
ConcludeTargetSet_Kept == UNCHANGED queued
ConcludeTargetSet == queued' = <<>>

\* R5 and R6: relayed at once and the target set is over; R6 also records the final.
OnConcludingFinal(id, status, fs) ==
    LET concluded == Conclude(branches, id, status)
        remaining == SetCancelling(concluded, PendingIds(concluded))
    IN  /\ branches' = remaining
        /\ ConcludeTargetSet
        /\ finals' = fs
        /\ answered' = TRUE
        /\ LET settled == status \div 100 = 6 /\ ~HasPending(remaining)
           IN  /\ finished' = settled
               /\ effects' = << Respond(status, {id}) >>
                             \o CancelBranches(PendingIds(concluded))
                             \o (IF settled THEN <<Terminate>> ELSE <<>>)
        /\ UNCHANGED <<request, awaiting, tokens, asked, verdict>>

\* R5: also after a final response was chosen, while the context lives.
OnSuccess_Once(id, status) ==
    /\ status \div 100 = 2 /\ request.method = "INVITE"
    /\ IF answered THEN Ignore ELSE OnConcludingFinal(id, status, finals)
OnSuccess(id, status) ==
    /\ status \div 100 = 2 /\ request.method = "INVITE"
    /\ OnConcludingFinal(id, status, finals)

OnBranchResponse(id, status) ==
    /\ ~finished
    /\ Known(id)
    /\ status # 100
    /\ LET final == [branch |-> id, status |-> status]
       IN  \/ status < 200 /\ OnProvisional(id, status)
           \/ status = 503 /\ OnBranchFailure(id)
           \/ OnSuccess(id, status)
           \/ /\ status \div 100 = 6
              /\ OnConcludingFinal(id, status, finals \cup {final})
           \/ /\ status >= 200 /\ status # 503 /\ status \div 100 # 6
              /\ ~(status \div 100 = 2 /\ request.method = "INVITE")
              /\ AfterConclusion(Conclude(branches, id, status), finals \cup {final})

\* C1, C2, C7: a CANCEL matched our server transaction.
OnUpstreamCancelled ==
    /\ ~finished
    /\ request # NoRequest
    /\ ConcludeTargetSet
    /\ LET now == {b \in PendingIds(branches) :
                     \E k \in DOMAIN branches :
                        /\ branches[k].id = b
                        /\ branches[k].state = "Pending"
                        /\ branches[k].sawProvisional}
       IN  /\ branches' = [k \in DOMAIN branches |->
                             IF branches[k].id \in now
                               THEN [branches[k] EXCEPT !.state = "Cancelling"]
                             ELSE IF branches[k].state = "Pending"
                               THEN [branches[k] EXCEPT !.cancelQueued = TRUE]
                             ELSE branches[k]]
           /\ effects' = << Simple("AnswerCancel") >> \o CancelBranches(now)
    /\ UNCHANGED <<request, finals, answered, finished, awaiting, tokens, asked, verdict>>

\* C5 and C6: what a firing means depends on whether the branch was ever heard.
OnTimerC_HeardOnly(id) ==
    /\ ~finished
    /\ \E k \in DOMAIN branches : /\ branches[k].id = id
                                  /\ branches[k].state = "Pending"
                                  /\ branches[k].sawProvisional
    /\ branches' = SetCancelling(branches, {id})
    /\ effects' = CancelBranches({id})
    /\ UNCHANGED <<request, queued, finals, answered, finished, awaiting, tokens, asked, verdict>>
OnTimerC_NoSelection(id) ==
    /\ ~finished
    /\ IsPending(branches, id)
    /\ branches' = Conclude(branches, id, 408)
    /\ effects' = <<>>
    /\ UNCHANGED <<request, queued, finals, answered, finished, awaiting, tokens, asked, verdict>>
OnTimerC(id) ==
    /\ ~finished
    /\ \/ /\ \E k \in DOMAIN branches : /\ branches[k].id = id
                                        /\ branches[k].state = "Pending"
                                        /\ branches[k].sawProvisional
          /\ branches' = SetCancelling(branches, {id})
          /\ effects' = CancelBranches({id})
          /\ UNCHANGED <<request, queued, finals, answered, finished, awaiting,
                         tokens, asked, verdict>>
       \/ /\ \E k \in DOMAIN branches : /\ branches[k].id = id
                                        /\ branches[k].state = "Pending"
                                        /\ ~branches[k].sawProvisional
          /\ AfterConclusion(Conclude(branches, id, 408),
                             finals \cup {[branch |-> id, status |-> 408]})

BranchIds == {branches[k].id : k \in DOMAIN branches}

\* A call that finds nothing to do: the context is over, the branch is not ours,
\* a 100, a Timer C whose branch is no longer pending.
OnNothing == (request # NoRequest \/ finished) /\ Ignore

Next ==
    \/ TokensMinted
    \/ \E r \in Requests : OnUpstream(r)
    \/ \E v \in {"valid", "invalid"} : OnToken(v)
    \/ \E targets \in TargetSets : OnTargets(targets)
    \/ OnTargetsUnavailable
    \/ \E id \in BranchIds, status \in Codes : OnBranchResponse(id, status)
    \/ \E id \in BranchIds : OnBranchFailure(id)
    \/ \E id \in BranchIds : OnTimerC(id)
    \/ OnUpstreamCancelled
    \/ OnNothing

Spec == Init /\ [][Next]_vars

-----------------------------------------------------------------------------
(* Properties *)

\* The shapes of the context's state and of the effects a call returns.
TypeOK ==
    /\ request \in Request \cup {NoRequest}
    /\ branches \in Seq(Branch)
    /\ queued \in Seq(Target)
    /\ finals \subseteq [branch : Nat, status : 100..699]
    /\ answered \in BOOLEAN
    /\ finished \in BOOLEAN
    /\ awaiting \in BOOLEAN
    /\ tokens \in BOOLEAN
    /\ effects \in Seq(Effect)
    /\ asked \in {"none", "verdict", "targets"}
    /\ verdict \in {"none", "owed", "valid", "invalid"}

\* R12 and PX-14: once a final response has gone upstream no call launches a
\* branch any more, whatever the branches, the timers and the caller do next.
NoLaunchAfterAnswer == [][answered => ~Emits(effects', "Forward")]_vars

\* R12 and C7: every path that concludes the target set empties its queue, so that
\* no later branch final finds a group to fork.
AnsweredLeavesNoQueue == answered /\ ~finished => queued = <<>>

\* P2 before P3: a request that carried a token has a branch only once the driver
\* found that token valid, and an invalid one ends its context with nothing sent.
TokenGatesRouting ==
    /\ branches # <<>> => verdict \in {"none", "valid"}
    /\ verdict = "invalid" => branches = <<>> /\ finished

\* Sections 7.1 and 8: while the caller has no final response and the context is
\* not over, something is still to come that can produce one: an answer the
\* driver owes, or a branch in flight.
NothingStranded ==
    request # NoRequest /\ ~answered /\ ~finished =>
        asked # "none" \/ HasPending(branches)

\* What every producer of targets in the repository delivers: URIs that parse.
AllTargetsBuild == \A ts \in TargetSets : \A k \in DOMAIN ts : ts[k].builds

\* PB-F-2: the branches of one context have different ids, so a response can
\* belong to only one of them.
BranchIdsUnique ==
    \A j, k \in DOMAIN branches : j # k => branches[j].id # branches[k].id

\* While a question is open nothing was launched, queued or answered, and the
\* engine waits for a verdict exactly when the driver owes one, which it does as
\* long as a carried token has none.
QuestionsComeFirst ==
    /\ request = NoRequest => asked = "none"
    /\ request = NoRequest \/ asked # "none" =>
          branches = <<>> /\ queued = <<>> /\ ~answered
    /\ awaiting <=> asked = "verdict"
    /\ verdict = "owed" => asked = "verdict"

\* The inductive invariant behind the safety properties of the context.
IndInv == TypeOK /\ QuestionsComeFirst /\ AnsweredLeavesNoQueue /\ TokenGatesRouting
=============================================================================
