----------------------- MODULE ResponseContext_proofs -----------------------
(***************************************************************************)
(* Theorems about the response context, for every set of requests, target  *)
(* sets and status codes, and for a network that may do anything           *)
(* (ResponseContext!Spec).                                                 *)
(***************************************************************************)
EXTENDS ResponseContext, SequenceTheorems, TLAPS

-----------------------------------------------------------------------------
(* The operators the handlers are built from *)

\* Effects without a Forward launch nothing.
Launches(es) == Emits(es, "Forward")

\* The empty list of effects launches nothing.
LEMMA EmptyEffects == <<>> \in Seq(Effect) /\ ~Launches(<<>>)
  BY DEF Launches, Emits

\* Joining effect lists adds no Forward that was in neither.
LEMMA ConcatEffects ==
  ASSUME NEW s \in Seq(Effect), NEW t \in Seq(Effect)
  PROVE  /\ s \o t \in Seq(Effect)
         /\ ~Launches(s) /\ ~Launches(t) => ~Launches(s \o t)
  BY DEF Launches, Emits

\* CancelBranches is a list of effects and launches nothing.
LEMMA CancelEffects ==
  ASSUME NEW ids \in SUBSET Nat
  PROVE  CancelBranches(ids) \in Seq(Effect) /\ ~Launches(CancelBranches(ids))
  <1>1. [kind |-> "CancelBranch", ids |-> ids] \in Effect
    BY DEF Effect
  <1>2. CASE ids = {}
    BY <1>2, EmptyEffects DEF CancelBranches
  <1>3. CASE ids # {}
    BY <1>1, <1>3 DEF CancelBranches, Launches, Emits
  <1> QED BY <1>2, <1>3

\* A response upstream is an effect, alone it launches nothing.
LEMMA RespondEffect ==
  ASSUME NEW status \in 100..699, NEW from \in SUBSET Nat
  PROVE  /\ Respond(status, from) \in Effect
         /\ <<Respond(status, from)>> \in Seq(Effect)
         /\ ~Launches(<<Respond(status, from)>>)
  <1>1. Respond(status, from) \in Effect
    BY DEF Respond, Effect
  <1> QED BY <1>1 DEF Launches, Emits, Respond

\* The effects without operands, as the calls list them, launch nothing.
LEMMA SimpleEffects ==
  /\ <<Terminate>> \in Seq(Effect) /\ ~Launches(<<Terminate>>)
  /\ \A kind \in {"AnswerCancel", "ResolveTargets", "VerifyToken"} :
        <<Simple(kind)>> \in Seq(Effect) /\ ~Launches(<<Simple(kind)>>)
  /\ \A id \in Nat : <<SetTimerC(id)>> \in Seq(Effect) /\ ~Launches(<<SetTimerC(id)>>)
  <1>1. Terminate \in Effect /\ \A kind \in {"AnswerCancel", "ResolveTargets", "VerifyToken"} :
           Simple(kind) \in Effect
    BY DEF Terminate, Simple, Effect
  <1>2. \A id \in Nat : SetTimerC(id) \in Effect
    BY DEF SetTimerC, Effect
  <1> QED BY <1>1, <1>2 DEF Terminate, Simple, SetTimerC, Launches, Emits

\* Preprocessing leaves a request.
LEMMA PreprocessType ==
  ASSUME NEW r \in Request
  PROVE  Preprocess(r) \in Request
  <1> DEFINE R == {"token", "ours", "foreign", "garbled"}
  <1>1. r.routes \in Seq(R)
    BY DEF Request
  <1>2. AfterP1(r) \in Seq(R)
    BY <1>1 DEF AfterP1
  <1>3. Popped(AfterP1(r)) \in 0..2
    BY DEF Popped
  <1>4. SubSeq(AfterP1(r), Popped(AfterP1(r)) + 1, Len(AfterP1(r))) \in Seq(R)
    <2> HIDE DEF R
    <2> QED BY <1>2, <1>3
  <1> QED BY <1>4 DEF Preprocess, Request

-----------------------------------------------------------------------------
(* Branch lists *)

\* A fresh branch is a branch.
LEMMA NewBranchType == \A id \in Nat : NewBranch(id) \in Branch
  BY DEF NewBranch, Branch

\* A function on 1..n is a sequence.
LEMMA FunctionIsSeq ==
  ASSUME NEW S, NEW n \in Nat, NEW f \in [1..n -> S]
  PROVE  f \in Seq(S) /\ Len(f) = n
  OBVIOUS

\* conclude_branch leaves branches, as many as there were.
LEMMA ConcludeType ==
  ASSUME NEW bs \in Seq(Branch), NEW id, NEW status \in 100..699
  PROVE  /\ Conclude(bs, id, status) \in Seq(Branch)
         /\ Len(Conclude(bs, id, status)) = Len(bs)
  <1>1. bs \in [1..Len(bs) -> Branch] /\ Len(bs) \in Nat
    OBVIOUS
  <1>2. \A b \in Branch : [b EXCEPT !.state = "Concluded", !.code = status] \in Branch
    <2>1. status \in 0..699
      OBVIOUS
    <2> SUFFICES ASSUME NEW b \in Branch
                 PROVE  [b EXCEPT !.state = "Concluded", !.code = status] \in Branch
      OBVIOUS
    <2> QED BY <2>1, ZenonT(60) DEF Branch
  <1>3. Conclude(bs, id, status) \in [1..Len(bs) -> Branch]
    BY <1>1, <1>2, ZenonT(60) DEF Conclude
  <1> QED BY <1>1, <1>3, FunctionIsSeq

\* set_cancelling leaves branches, as many as there were.
LEMMA SetCancellingType ==
  ASSUME NEW bs \in Seq(Branch), NEW ids
  PROVE  /\ SetCancelling(bs, ids) \in Seq(Branch)
         /\ Len(SetCancelling(bs, ids)) = Len(bs)
  <1>1. bs \in [1..Len(bs) -> Branch] /\ Len(bs) \in Nat
    OBVIOUS
  <1>2. \A b \in Branch : [b EXCEPT !.state = "Cancelling"] \in Branch
    BY ZenonT(60) DEF Branch
  <1>3. SetCancelling(bs, ids) \in [1..Len(bs) -> Branch]
    BY <1>1, <1>2 DEF SetCancelling
  <1> QED BY <1>1, <1>3, FunctionIsSeq

\* mark_provisional leaves branches, as many as there were.
LEMMA MarkProvisionalType ==
  ASSUME NEW bs \in Seq(Branch), NEW id
  PROVE  /\ MarkProvisional(bs, id) \in Seq(Branch)
         /\ Len(MarkProvisional(bs, id)) = Len(bs)
  <1>1. bs \in [1..Len(bs) -> Branch] /\ Len(bs) \in Nat
    OBVIOUS
  <1>2. \A b \in Branch : [b EXCEPT !.sawProvisional = TRUE, !.cancelQueued = FALSE] \in Branch
    BY ZenonT(60) DEF Branch
  <1>3. MarkProvisional(bs, id) \in [1..Len(bs) -> Branch]
    BY <1>1, <1>2 DEF MarkProvisional
  <1> QED BY <1>1, <1>3, FunctionIsSeq

\* The ids the engine names in its effects are natural numbers.
LEMMA IdsType ==
  ASSUME NEW bs \in Seq(Branch), NEW id
  PROVE  PendingIds(bs) \in SUBSET Nat /\ Released(bs, id) \in SUBSET Nat
  <1>1. \A k \in DOMAIN bs : bs[k].id \in Nat
    <2> SUFFICES ASSUME NEW k \in DOMAIN bs PROVE bs[k].id \in Nat
      OBVIOUS
    <2>1. bs[k] \in Branch
      OBVIOUS
    <2> QED BY <2>1 DEF Branch
  <1> QED BY <1>1 DEF PendingIds, Released

-----------------------------------------------------------------------------
(* Forking *)

\* The share of Max-Breadth a copy carries is a natural number.
LEMMA ShareType ==
  ASSUME NEW r \in Request, NEW n \in Nat \ {0}
  PROVE  Share(r, n) \in Nat
  <1>1. r.maxBreadth \in Int
    BY DEF Request
  <1>2. MaxBreadth(r) \in Nat
    BY <1>1, BreadthAssumption DEF MaxBreadth, HeaderNumber, Absent
  <1>3. MaxBreadth(r) \div n \in Nat
    BY <1>2
  <1> QED BY <1>3 DEF Share

\* fork_next_group returns a list of effects, whatever the group.
LEMMA ForkEffectsType ==
  ASSUME NEW r \in Request, NEW fresh \in Seq(Branch), NEW n \in Nat \ {0},
         tokens \in BOOLEAN
  PROVE  ForkEffects(r, fresh, n) \in Seq(Effect)
  <1> DEFINE F(b) == Forward(b.id, Share(r, n), RecordRoutes(r))
             G(b) == SetTimerC(b.id)
  <1>1. Len(fresh) \in Nat /\ \A k \in 1..Len(fresh) : fresh[k] \in Branch
    OBVIOUS
  <1>2. RecordRoutes(r) \in 0..2
    BY DEF RecordRoutes
  <1>3. \A b \in Branch : F(b) \in Effect
    BY <1>2, ShareType DEF Branch, Forward, Effect
  <1>4. \A b \in Branch : G(b) \in Effect
    BY DEF Branch, SetTimerC, Effect
  <1> HIDE DEF F, G
  <1>5. CASE r.method = "INVITE"
    <2>1. ForkEffects(r, fresh, n) =
             [k \in 1..(2 * Len(fresh)) |->
                IF k % 2 = 1 THEN F(fresh[(k + 1) \div 2]) ELSE G(fresh[k \div 2])]
      BY <1>5 DEF ForkEffects, F, G
    <2>2. \A k \in 1..(2 * Len(fresh)) :
             /\ k % 2 = 1 => (k + 1) \div 2 \in 1..Len(fresh)
             /\ k % 2 # 1 => k \div 2 \in 1..Len(fresh)
      BY <1>1
    <2>3. ForkEffects(r, fresh, n) \in [1..(2 * Len(fresh)) -> Effect]
      BY <1>1, <1>3, <1>4, <2>1, <2>2
    <2> QED BY <1>1, <2>3, FunctionIsSeq
  <1>6. CASE r.method # "INVITE"
    <2>1. ForkEffects(r, fresh, n) = [k \in 1..Len(fresh) |-> F(fresh[k])]
      BY <1>6 DEF ForkEffects, F
    <2>2. ForkEffects(r, fresh, n) \in [1..Len(fresh) -> Effect]
      BY <1>1, <1>3, <2>1
    <2> QED BY <1>1, <2>2, FunctionIsSeq
  <1> QED BY <1>5, <1>6

\* respond_and_finish answers and ends the context, and launches nothing.
LEMMA RespondAndFinishType ==
  ASSUME NEW bs \in Seq(Branch), NEW status \in 100..699, RespondAndFinish(bs, status)
  PROVE  /\ answered' = TRUE /\ finished' = TRUE
         /\ effects' \in Seq(Effect) /\ ~Launches(effects')
  <1>1. /\ <<Respond(status, {})>> \in Seq(Effect)
        /\ ~Launches(<<Respond(status, {})>>)
    BY RespondEffect
  <1>2. /\ CancelBranches(PendingIds(bs)) \in Seq(Effect)
        /\ ~Launches(CancelBranches(PendingIds(bs)))
    BY IdsType, CancelEffects
  <1>3. /\ <<Respond(status, {})>> \o CancelBranches(PendingIds(bs)) \in Seq(Effect)
        /\ ~Launches(<<Respond(status, {})>> \o CancelBranches(PendingIds(bs)))
    BY <1>1, <1>2, ConcatEffects
  <1>4. /\ effects' \in Seq(Effect)
        /\ ~Launches(effects')
    BY <1>3, SimpleEffects, ConcatEffects, Zenon DEF RespondAndFinish
  <1> QED BY <1>4 DEF RespondAndFinish

\* Forking keeps the shapes, answers only together with finishing, and touches the
\* queue only by taking its leading group.
LEMMA ForkType ==
  ASSUME NEW r \in Request, NEW bs \in Seq(Branch), NEW ts \in Seq(Target),
         tokens \in BOOLEAN, answered \in BOOLEAN, finished \in BOOLEAN,
         ForkNextGroup(r, bs, ts)
  PROVE  /\ branches' \in Seq(Branch)
         /\ queued' \in Seq(Target)
         /\ effects' \in Seq(Effect)
         /\ \/ answered' = TRUE /\ finished' = TRUE
            \/ answered' = answered /\ finished' = finished
  <1>1. PICK n \in {k \in 1..Len(ts) : IsLeadingGroup(ts, k, MaxBreadth(r))} :
          \E m \in 0..n : \E pos \in [1..m -> 1..n] :
            LaunchGroup(r, bs, ts, n, [k \in 1..m |-> NewBranch(Len(bs) + pos[k] - 1)])
    BY Zenon DEF ForkNextGroup
  <1>2. PICK m \in 0..n : \E pos \in [1..m -> 1..n] :
            LaunchGroup(r, bs, ts, n, [k \in 1..m |-> NewBranch(Len(bs) + pos[k] - 1)])
    BY <1>1
  <1>3. PICK pos \in [1..m -> 1..n] :
            LaunchGroup(r, bs, ts, n, [k \in 1..m |-> NewBranch(Len(bs) + pos[k] - 1)])
    BY <1>2
  <1> DEFINE fresh == [k \in 1..m |-> NewBranch(Len(bs) + pos[k] - 1)]
  <1>0. n \in Nat \ {0} /\ n \in 1..Len(ts) /\ m \in Nat
    OBVIOUS
  <1>4. fresh \in Seq(Branch)
    <2>1. \A k \in 1..m : Len(bs) + pos[k] - 1 \in Nat
      BY <1>0
    <2>2. fresh \in [1..m -> Branch]
      BY <2>1, NewBranchType
    <2> QED BY <1>0, <2>2, FunctionIsSeq
  <1>5. branches' \in Seq(Branch)
    BY <1>3, <1>4 DEF LaunchGroup
  <1>6. queued' \in Seq(Target)
    BY <1>3, <1>0, SubSeqProperties DEF LaunchGroup
  <1>7. CASE bs \o fresh = <<>> /\ n = Len(ts)
    <2>1. RespondAndFinish(<<>>, 480)
      BY <1>3, <1>7 DEF LaunchGroup
    <2>2. <<>> \in Seq(Branch) /\ 480 \in 100..699
      OBVIOUS
    <2> QED BY <2>1, <2>2, <1>5, <1>6, RespondAndFinishType, ZenonT(60)
  <1>8. CASE ~(bs \o fresh = <<>> /\ n = Len(ts))
    <2>1. effects' = ForkEffects(r, fresh, n) /\ answered' = answered /\ finished' = finished
      BY <1>3, <1>8 DEF LaunchGroup
    <2> QED BY <1>0, <1>4, <1>5, <1>6, <2>1, ForkEffectsType
  <1> QED BY <1>7, <1>8

-----------------------------------------------------------------------------
(* A branch concludes *)

\* select_and_answer answers, ends the context and launches nothing.
LEMMA SelectType ==
  ASSUME NEW bs \in Seq(Branch), NEW fs \in SUBSET [branch : Nat, status : 100..699],
         answered \in BOOLEAN, SelectAndAnswer(bs, fs)
  PROVE  /\ answered' = TRUE /\ finished' = TRUE
         /\ effects' \in Seq(Effect) /\ ~Launches(effects')
  <1>1. CASE answered
    <2>1. finished' = TRUE /\ effects' = <<Terminate>> /\ answered' = answered
      BY <1>1 DEF SelectAndAnswer
    <2> QED BY <1>1, <2>1, SimpleEffects
  <1>2. CASE ~answered
    <2>1. PICK best \in {f.status : f \in fs} :
             \/ best = 503 /\ RespondAndFinish(bs, 500)
             \/ /\ answered' = TRUE
                /\ finished' = TRUE
                /\ effects' = << Respond(best, SpeaksFor(fs, best)), Terminate >>
      BY <1>2 DEF SelectAndAnswer
    <2>2. best \in 100..699 /\ SpeaksFor(fs, best) \in SUBSET Nat
      <3>1. \A f \in fs : f.branch \in Nat /\ f.status \in 100..699
        BY ZenonT(60)
      <3>2. SpeaksFor(fs, best) \in SUBSET Nat
        BY <3>1 DEF SpeaksFor
      <3>3. PICK f \in fs : best = f.status
        OBVIOUS
      <3>4. best \in 100..699
        BY <3>1, <3>3
      <3> QED BY <3>2, <3>4
    <2>3. CASE best = 503 /\ RespondAndFinish(bs, 500)
      <3>1. 500 \in 100..699
        OBVIOUS
      <3> QED BY <2>3, <3>1, RespondAndFinishType, ZenonT(60)
    <2>4. CASE effects' = << Respond(best, SpeaksFor(fs, best)), Terminate >>
               /\ answered' = TRUE /\ finished' = TRUE
      <3>1. effects' = << Respond(best, SpeaksFor(fs, best)) >> \o << Terminate >>
        BY <2>4
      <3>2. /\ << Respond(best, SpeaksFor(fs, best)) >> \in Seq(Effect)
            /\ ~Launches(<< Respond(best, SpeaksFor(fs, best)) >>)
        BY <2>2, RespondEffect, ZenonT(60)
      <3>3. effects' \in Seq(Effect) /\ ~Launches(effects')
        BY <3>1, <3>2, SimpleEffects, ConcatEffects, ZenonT(40)
      <3> QED BY <2>4, <3>3
    <2> QED BY <2>1, <2>3, <2>4
  <1> QED BY <1>1, <1>2

\* What follows a branch's conclusion (wait, fork or select) keeps the invariant.
LEMMA AfterConclusionInv ==
  ASSUME IndInv, ~finished, request # NoRequest, asked = "none",
         NEW bs \in Seq(Branch), NEW fs \in SUBSET [branch : Nat, status : 100..699],
         AfterConclusion(bs, fs)
  PROVE  IndInv' /\ (answered => ~Launches(effects'))
  <1> USE DEF IndInv
  <1>1. /\ finals' = fs /\ request' = request /\ awaiting' = awaiting
        /\ tokens' = tokens /\ asked' = asked /\ verdict' = verdict
    BY DEF AfterConclusion
  <1>2. request \in Request
    BY DEF TypeOK
  <1>3. /\ branches' \in Seq(Branch) /\ queued' \in Seq(Target) /\ effects' \in Seq(Effect)
        /\ answered' \in BOOLEAN /\ finished' \in BOOLEAN
        /\ answered' /\ ~finished' => queued' = <<>>
        /\ answered => ~Launches(effects')
    <2>1. CASE HasPending(bs)
      <3>1. branches' = bs /\ effects' = <<>> /\ queued' = queued
            /\ answered' = answered /\ finished' = finished
        BY <2>1 DEF AfterConclusion
      <3> QED BY <3>1, EmptyEffects DEF TypeOK, AnsweredLeavesNoQueue
    <2>2. CASE ~HasPending(bs) /\ MayForkNextGroup
      <3>1. ForkNextGroup(request, bs, queued) /\ ~answered
        BY <2>2 DEF AfterConclusion, MayForkNextGroup
      <3>2. /\ branches' \in Seq(Branch)
            /\ queued' \in Seq(Target)
            /\ effects' \in Seq(Effect)
            /\ \/ answered' = TRUE /\ finished' = TRUE
               \/ answered' = answered /\ finished' = finished
        BY <1>2, <3>1, ForkType DEF TypeOK
      <3>3. answered \in BOOLEAN /\ finished \in BOOLEAN
        BY DEF TypeOK
      <3>4. (answered' = TRUE /\ finished' = TRUE) \/ (answered' = FALSE /\ finished' = FALSE)
        BY <3>1, <3>2, <3>3
      <3>5. answered' \in BOOLEAN /\ finished' \in BOOLEAN /\ (answered' /\ ~finished' => queued' = <<>>)
        BY <3>4
      <3> QED BY <3>1, <3>2, <3>5
    <2>3. CASE ~HasPending(bs) /\ ~MayForkNextGroup
      <3>1. branches' = bs /\ queued' = queued /\ SelectAndAnswer(bs, fs)
        BY <2>3 DEF AfterConclusion
      <3>2. /\ answered' = TRUE /\ finished' = TRUE
            /\ effects' \in Seq(Effect) /\ ~Launches(effects')
        BY <3>1, SelectType, ZenonT(60) DEF TypeOK
      <3> QED BY <3>1, <3>2 DEF TypeOK
    <2> QED BY <2>1, <2>2, <2>3
  <1>4. TypeOK'
    BY <1>1, <1>3 DEF TypeOK
  <1>5. QuestionsComeFirst'
    BY <1>1 DEF QuestionsComeFirst
  <1>6. TokenGatesRouting'
    BY <1>1 DEF TokenGatesRouting, QuestionsComeFirst, TypeOK
  <1> QED BY <1>3, <1>4, <1>5, <1>6 DEF AnsweredLeavesNoQueue

\* A branch exists only after its request was accepted and routed.
LEMMA BranchFacts ==
  ASSUME IndInv, NEW id \in BranchIds
  PROVE  id \in Nat /\ request # NoRequest /\ request \in Request /\ asked = "none"
  <1>1. PICK k \in DOMAIN branches : id = branches[k].id
    BY DEF BranchIds
  <1>2. branches \in Seq(Branch) /\ branches # <<>>
    BY <1>1 DEF IndInv, TypeOK
  <1>3. branches[k] \in Branch
    BY <1>1, <1>2
  <1>4. id \in Nat
    BY <1>1, <1>3 DEF Branch
  <1>5. request # NoRequest /\ asked = "none"
    BY <1>2 DEF IndInv, QuestionsComeFirst
  <1> QED BY <1>4, <1>5 DEF IndInv, TypeOK

-----------------------------------------------------------------------------
(* Routing *)

\* The order that sorts a target set picks targets of the set.
LEMMA TargetSetFork ==
  ASSUME IndInv, NEW r \in Request, NEW targets \in Seq(Target), OnTargetSet(r, targets)
  PROVE  /\ branches' \in Seq(Branch)
         /\ queued' \in Seq(Target)
         /\ effects' \in Seq(Effect)
         /\ \/ answered' = TRUE /\ finished' = TRUE
            \/ answered' = answered /\ finished' = finished
  <1>1. PICK p \in [1..Len(targets) -> 1..Len(targets)] :
           ForkNextGroup(r, branches, [k \in 1..Len(targets) |-> targets[p[k]]])
    BY DEF OnTargetSet
  <1>2. [k \in 1..Len(targets) |-> targets[p[k]]] \in [1..Len(targets) -> Target]
    OBVIOUS
  <1>3. [k \in 1..Len(targets) |-> targets[p[k]]] \in Seq(Target)
    BY <1>2, FunctionIsSeq
  <1>4. /\ branches \in Seq(Branch) /\ tokens \in BOOLEAN
        /\ answered \in BOOLEAN /\ finished \in BOOLEAN
    BY DEF IndInv, TypeOK
  <1> QED BY <1>1, <1>3, <1>4, ForkType

\* route_it keeps the invariant when no question is open.
LEMMA RouteItInv ==
  ASSUME IndInv, ~finished, ~answered, branches = <<>>, queued = <<>>,
         NEW r \in Request, RouteIt(r), request' = r, awaiting' = FALSE,
         finals' = finals, tokens' = tokens, verdict' \in {"none", "valid"}
  PROVE  IndInv'
  <1>0. /\ answered = FALSE /\ finished = FALSE /\ tokens \in BOOLEAN
        /\ finals \subseteq [branch : Nat, status : 100..699]
    BY DEF IndInv, TypeOK
  <1>a. r # NoRequest
    BY DEF Request, NoRequest
  <1>1. CASE Predetermined(r)
    <2>1. OnTargetSet(r, <<SoleTarget>>) /\ asked' = "none"
      BY <1>1 DEF RouteIt
    <2>2. <<SoleTarget>> \in Seq(Target)
      BY DEF SoleTarget, Target
    <2>3. /\ branches' \in Seq(Branch)
          /\ queued' \in Seq(Target)
          /\ effects' \in Seq(Effect)
          /\ \/ answered' = TRUE /\ finished' = TRUE
             \/ answered' = answered /\ finished' = finished
      BY <2>1, <2>2, TargetSetFork
    <2>4. (answered' = TRUE /\ finished' = TRUE) \/ (answered' = FALSE /\ finished' = FALSE)
      BY <1>0, <2>3
    <2>5. TypeOK'
      BY <1>0, <2>1, <2>3, <2>4 DEF TypeOK
    <2> QED BY <1>a, <2>1, <2>4, <2>5
            DEF IndInv, QuestionsComeFirst, AnsweredLeavesNoQueue, TokenGatesRouting
  <1>2. CASE ~Predetermined(r)
    <2>1. /\ effects' = <<Simple("ResolveTargets")>> /\ asked' = "targets"
          /\ branches' = branches /\ queued' = queued
          /\ answered' = answered /\ finished' = finished
      BY <1>2 DEF RouteIt
    <2>2. effects' \in Seq(Effect)
      BY <2>1, SimpleEffects
    <2>3. TypeOK'
      BY <1>0, <2>1, <2>2 DEF IndInv, TypeOK
    <2> QED BY <1>0, <1>a, <2>1, <2>3
            DEF IndInv, QuestionsComeFirst, AnsweredLeavesNoQueue, TokenGatesRouting
  <1> QED BY <1>1, <1>2

\* on_upstream keeps the invariant.
LEMMA UpstreamInv ==
  ASSUME IndInv, NEW r \in Requests, OnUpstream(r)
  PROVE  IndInv' /\ ~answered
  <1>0. /\ ~finished /\ request = NoRequest /\ asked = "none" /\ branches = <<>>
        /\ queued = <<>> /\ ~answered /\ awaiting = FALSE /\ verdict # "invalid"
    BY DEF OnUpstream, IndInv, QuestionsComeFirst, TokenGatesRouting, TypeOK
  <1>a. r \in Request
    BY RequestsAssumption
  <1>b. Preprocess(r) \in Request
    BY <1>a, PreprocessType
  <1>1. CASE Refuse(r)
    <2>1. PICK v \in 1..6 :
            /\ effects' = IF RefusalStatus[v] = 0
                            THEN <<Terminate>>
                            ELSE <<Respond(RefusalStatus[v], {}), Terminate>>
            /\ finished' = TRUE
            /\ UNCHANGED <<request, branches, queued, finals, answered, awaiting,
                           tokens, asked, verdict>>
      BY <1>1 DEF Refuse
    <2>2. RefusalStatus[v] = 0 \/ RefusalStatus[v] \in 100..699
      BY DEF RefusalStatus
    <2>3. effects' \in Seq(Effect)
      <3>1. CASE RefusalStatus[v] = 0
        BY <2>1, <3>1, SimpleEffects
      <3>2. CASE RefusalStatus[v] # 0
        <4>1. <<Respond(RefusalStatus[v], {})>> \in Seq(Effect)
          BY <2>2, <3>2, RespondEffect
        <4>2. effects' = <<Respond(RefusalStatus[v], {})>> \o <<Terminate>>
          BY <2>1, <3>2
        <4> QED BY <4>1, <4>2, SimpleEffects, ConcatEffects, Zenon
      <3> QED BY <3>1, <3>2
    <2>4. TypeOK'
      BY <2>1, <2>3 DEF IndInv, TypeOK
    <2> QED BY <1>0, <2>1, <2>4
            DEF IndInv, QuestionsComeFirst, AnsweredLeavesNoQueue, TokenGatesRouting
  <1>2. CASE ~Refuse(r)
    <2>1. /\ request' = Preprocess(r) /\ finals' = finals /\ tokens' = tokens
          /\ verdict' = IF Carriage(r) THEN "owed" ELSE "none"
      BY <1>2 DEF OnUpstream, Carries
    <2>2. CASE Carriage(r)
      <3>1. /\ awaiting' = TRUE /\ asked' = "verdict" /\ effects' = <<Simple("VerifyToken")>>
            /\ branches' = branches /\ queued' = queued
            /\ answered' = answered /\ finished' = finished
        BY <1>2, <2>2 DEF OnUpstream
      <3>2. effects' \in Seq(Effect)
        BY <3>1, SimpleEffects
      <3>3. TypeOK'
        BY <1>b, <2>1, <3>1, <3>2 DEF IndInv, TypeOK
      <3>4. request' # NoRequest
        BY <1>b, <2>1 DEF Request, NoRequest
      <3> QED BY <1>0, <2>1, <3>1, <3>3, <3>4
              DEF IndInv, QuestionsComeFirst, AnsweredLeavesNoQueue, TokenGatesRouting
    <2>3. CASE ~Carriage(r)
      <3>1. awaiting' = FALSE /\ RouteIt(Preprocess(r))
        BY <1>0, <1>2, <2>3 DEF OnUpstream
      <3>2. verdict' \in {"none", "valid"}
        BY <2>1, <2>3
      <3> QED BY <1>0, <1>b, <2>1, <3>1, <3>2, RouteItInv
    <2> QED BY <2>2, <2>3
  <1> QED BY <1>0, <1>1, <1>2

\* An answer that ends the context on the spot, as 403, 480 and 503 do.
LEMMA EndsWithResponse ==
  ASSUME IndInv, ~finished, asked # "none", NEW status \in 100..699,
         RespondAndFinish(branches, status),
         asked' = "none", request' = request, branches' = branches, queued' = queued,
         finals' = finals, tokens' = tokens, awaiting' = FALSE,
         verdict' \in {"none", "valid", "invalid"}
  PROVE  IndInv'
  <1>1. /\ answered' = TRUE /\ finished' = TRUE /\ effects' \in Seq(Effect)
    BY RespondAndFinishType, ZenonT(60) DEF IndInv, TypeOK
  <1>2. TypeOK'
    BY <1>1, ZenonT(60) DEF IndInv, TypeOK
  <1>3. request # NoRequest /\ branches = <<>>
    BY DEF IndInv, QuestionsComeFirst
  <1> QED BY <1>1, <1>2, <1>3
          DEF IndInv, QuestionsComeFirst, AnsweredLeavesNoQueue, TokenGatesRouting

\* on_token keeps the invariant.
LEMMA TokenInv ==
  ASSUME IndInv, NEW v \in {"valid", "invalid"}, OnToken(v)
  PROVE  IndInv' /\ ~answered
  <1>0. /\ ~finished /\ asked = "verdict" /\ awaiting' = FALSE /\ verdict' = v
        /\ request' = request /\ finals' = finals /\ tokens' = tokens
    BY DEF OnToken
  <1>1. branches = <<>> /\ queued = <<>> /\ ~answered /\ request # NoRequest
    BY <1>0 DEF IndInv, QuestionsComeFirst
  <1>2. CASE v = "valid"
    <2>1. RouteIt(request) /\ request \in Request
      BY <1>1, <1>2 DEF OnToken, IndInv, TypeOK
    <2> QED BY <1>0, <1>1, <1>2, <2>1, RouteItInv
  <1>3. CASE v = "invalid"
    <2>1. /\ asked' = "none" /\ RespondAndFinish(branches, 403)
          /\ branches' = branches /\ queued' = queued
      BY <1>3 DEF OnToken
    <2>2. 403 \in 100..699
      OBVIOUS
    <2> QED BY <1>0, <1>1, <1>3, <2>1, <2>2, EndsWithResponse
  <1> QED BY <1>2, <1>3

\* on_targets keeps the invariant.
LEMMA TargetsInv ==
  ASSUME IndInv, NEW targets \in TargetSets, OnTargets(targets)
  PROVE  IndInv' /\ ~answered
  <1>0. /\ ~finished /\ asked = "targets" /\ asked' = "none" /\ request' = request
        /\ finals' = finals /\ awaiting' = awaiting /\ tokens' = tokens /\ verdict' = verdict
    BY DEF OnTargets
  <1>1. /\ branches = <<>> /\ queued = <<>> /\ ~answered /\ request # NoRequest
        /\ awaiting = FALSE /\ verdict \in {"none", "valid"}
    BY <1>0 DEF IndInv, TypeOK, QuestionsComeFirst, TokenGatesRouting
  <1>2. CASE targets = <<>>
    <2>1. /\ RespondAndFinish(branches, 480) /\ branches' = branches /\ queued' = queued
      BY <1>2 DEF OnTargets
    <2>2. 480 \in 100..699
      OBVIOUS
    <2> QED BY <1>0, <1>1, <2>1, <2>2, EndsWithResponse, ZenonT(60)
  <1>3. CASE targets # <<>>
    <2>1. OnTargetSet(request, targets) /\ targets \in Seq(Target) /\ request \in Request
      BY <1>1, <1>3, TargetSetsAssumption DEF OnTargets, IndInv, TypeOK
    <2>2. /\ branches' \in Seq(Branch)
          /\ queued' \in Seq(Target)
          /\ effects' \in Seq(Effect)
          /\ \/ answered' = TRUE /\ finished' = TRUE
             \/ answered' = answered /\ finished' = finished
      BY <2>1, TargetSetFork
    <2>3. (answered' = TRUE /\ finished' = TRUE) \/ (answered' = FALSE /\ finished' = FALSE)
      BY <1>0, <1>1, <2>2 DEF IndInv, TypeOK
    <2>4. TypeOK'
      BY <1>0, <1>1, <2>2, <2>3 DEF IndInv, TypeOK
    <2> QED BY <1>0, <1>1, <2>3, <2>4
            DEF IndInv, QuestionsComeFirst, AnsweredLeavesNoQueue, TokenGatesRouting
  <1> QED BY <1>1, <1>2, <1>3

\* on_targets_unavailable keeps the invariant.
LEMMA UnavailableInv ==
  ASSUME IndInv, OnTargetsUnavailable
  PROVE  IndInv' /\ ~answered
  <1>1. /\ ~finished /\ asked = "targets" /\ asked' = "none" /\ request' = request
        /\ branches' = branches /\ queued' = queued /\ finals' = finals
        /\ awaiting' = awaiting /\ tokens' = tokens /\ verdict' = verdict
        /\ RespondAndFinish(branches, 503)
    BY DEF OnTargetsUnavailable
  <1>2. ~answered /\ awaiting = FALSE /\ verdict \in {"none", "valid", "invalid"}
    BY <1>1 DEF IndInv, TypeOK, QuestionsComeFirst
  <1>3. 503 \in 100..699
    OBVIOUS
  <1> QED BY <1>1, <1>2, <1>3, EndsWithResponse, ZenonT(60)

-----------------------------------------------------------------------------
(* What branches and callers do *)

\* on_branch_failure keeps the invariant.
LEMMA FailureInv ==
  ASSUME IndInv, NEW id \in BranchIds, OnBranchFailure(id)
  PROVE  IndInv' /\ (answered => ~Launches(effects'))
  <1>1. id \in Nat /\ request # NoRequest /\ asked = "none"
    BY BranchFacts
  <1>2. /\ Conclude(branches, id, 503) \in Seq(Branch)
        /\ finals \cup {[branch |-> id, status |-> 503]} \in SUBSET [branch : Nat, status : 100..699]
    BY <1>1, ConcludeType DEF IndInv, TypeOK
  <1> QED BY <1>1, <1>2, AfterConclusionInv DEF OnBranchFailure

\* A step that keeps the queue or empties it, and answers only with an empty one,
\* keeps the invariant.
LEMMA BranchStepInv ==
  ASSUME IndInv, request # NoRequest, asked = "none",
         request' = request, awaiting' = awaiting, tokens' = tokens, asked' = asked,
         verdict' = verdict, verdict \in {"none", "valid"},
         branches' \in Seq(Branch), effects' \in Seq(Effect),
         finals' \in SUBSET [branch : Nat, status : 100..699],
         finished' \in BOOLEAN, answered' \in BOOLEAN,
         \/ queued' = <<>>
         \/ queued' = queued /\ answered' = answered /\ finished' = finished
  PROVE  IndInv'
  <1>0. queued' \in Seq(Target)
    <2>1. <<>> \in Seq(Target) /\ queued \in Seq(Target)
      BY DEF IndInv, TypeOK
    <2> QED BY <2>1, ZenonT(60)
  <1>1. TypeOK'
    <2>1. /\ request \in Request \cup {NoRequest} /\ awaiting \in BOOLEAN /\ tokens \in BOOLEAN
          /\ asked \in {"none", "verdict", "targets"}
          /\ verdict \in {"none", "owed", "valid", "invalid"}
      BY DEF IndInv, TypeOK
    <2> QED BY <1>0, <2>1, Zenon DEF TypeOK
  <1> QED BY <1>1 DEF IndInv, QuestionsComeFirst, AnsweredLeavesNoQueue, TokenGatesRouting

\* A context that is open and owed no answer carried no token, or a valid one.
LEMMA NotRejected ==
  ASSUME IndInv, ~finished, asked = "none"
  PROVE  verdict \in {"none", "valid"}
  BY DEF IndInv, TypeOK, QuestionsComeFirst, TokenGatesRouting

\* An input that is not an event keeps the invariant.
LEMMA IgnoreInv ==
  ASSUME IndInv, Ignore
  PROVE  IndInv' /\ ~Launches(effects')
  <1>1. /\ request' = request /\ branches' = branches /\ queued' = queued
        /\ finals' = finals /\ answered' = answered /\ finished' = finished
        /\ awaiting' = awaiting /\ tokens' = tokens /\ asked' = asked
        /\ verdict' = verdict /\ effects' = <<>>
    BY DEF Ignore
  <1>2. TypeOK'
    BY <1>1, EmptyEffects DEF IndInv, TypeOK
  <1> QED BY <1>1, <1>2, EmptyEffects
          DEF IndInv, QuestionsComeFirst, AnsweredLeavesNoQueue, TokenGatesRouting

\* A provisional response keeps the invariant.
LEMMA ProvisionalInv ==
  ASSUME IndInv, ~finished, NEW id \in BranchIds, NEW status \in 100..699,
         OnProvisional(id, status)
  PROVE  IndInv' /\ ~Launches(effects')
  <1> DEFINE timer == IF request.method = "INVITE" THEN << SetTimerC(id) >> ELSE <<>>
             cancels == CancelBranches(Released(branches, id))
  <1>0. branches \in Seq(Branch)
    BY DEF IndInv, TypeOK
  <1>1. id \in Nat /\ request # NoRequest /\ asked = "none" /\ verdict \in {"none", "valid"}
    BY BranchFacts, NotRejected
  <1>2. branches' \in Seq(Branch)
    BY <1>0, MarkProvisionalType, SetCancellingType DEF OnProvisional
  <1>3. /\ <<Respond(status, {id})>> \in Seq(Effect) /\ ~Launches(<<Respond(status, {id})>>)
        /\ timer \in Seq(Effect) /\ ~Launches(timer)
        /\ cancels \in Seq(Effect) /\ ~Launches(cancels)
    BY <1>0, <1>1, RespondEffect, SimpleEffects, EmptyEffects, IdsType, CancelEffects, ZenonT(60)
  <1>4. effects' = (<<Respond(status, {id})>> \o timer) \o cancels
    BY DEF OnProvisional
  <1> HIDE DEF timer, cancels
  <1>5. /\ <<Respond(status, {id})>> \o timer \in Seq(Effect)
        /\ ~Launches(<<Respond(status, {id})>> \o timer)
    BY <1>3, ConcatEffects
  <1>6. effects' \in Seq(Effect) /\ ~Launches(effects')
    BY <1>3, <1>4, <1>5, ConcatEffects, Zenon
  <1>7. /\ request' = request /\ queued' = queued /\ finals' = finals /\ answered' = answered
        /\ finished' = finished /\ awaiting' = awaiting /\ tokens' = tokens
        /\ asked' = asked /\ verdict' = verdict
    BY DEF OnProvisional
  <1>8. /\ finals' \in SUBSET [branch : Nat, status : 100..699]
        /\ finished' \in BOOLEAN /\ answered' \in BOOLEAN
    BY <1>7 DEF IndInv, TypeOK
  <1> QED BY <1>1, <1>2, <1>6, <1>7, <1>8, BranchStepInv

\* A 2xx or 6xx relayed at once keeps the invariant.
LEMMA ConcludingFinalInv ==
  ASSUME IndInv, ~finished, NEW id \in BranchIds, NEW status \in 100..699,
         NEW fs \in SUBSET [branch : Nat, status : 100..699],
         OnConcludingFinal(id, status, fs)
  PROVE  IndInv' /\ ~Launches(effects')
  <1> DEFINE concluded == Conclude(branches, id, status)
             remaining == SetCancelling(concluded, PendingIds(concluded))
             settled == status \div 100 = 6 /\ ~HasPending(remaining)
             cancels == CancelBranches(PendingIds(concluded))
             over == IF settled THEN <<Terminate>> ELSE <<>>
  <1>1. id \in Nat /\ request # NoRequest /\ asked = "none" /\ verdict \in {"none", "valid"}
    BY BranchFacts, NotRejected
  <1>2. concluded \in Seq(Branch)
    BY ConcludeType, ZenonT(60) DEF IndInv, TypeOK
  <1>3. remaining \in Seq(Branch)
    BY <1>2, SetCancellingType
  <1>4. /\ <<Respond(status, {id})>> \in Seq(Effect) /\ ~Launches(<<Respond(status, {id})>>)
        /\ cancels \in Seq(Effect) /\ ~Launches(cancels)
        /\ over \in Seq(Effect) /\ ~Launches(over)
    <2>1. PendingIds(concluded) \in SUBSET Nat
      BY <1>2, IdsType
    <2>2. cancels \in Seq(Effect) /\ ~Launches(cancels)
      BY <2>1, CancelEffects
    <2>3. over \in Seq(Effect) /\ ~Launches(over)
      <3> HIDE DEF settled
      <3> QED BY SimpleEffects, EmptyEffects
    <2>4. {id} \in SUBSET Nat
      BY <1>1
    <2> HIDE DEF cancels, over
    <2> QED BY <2>2, <2>3, <2>4, RespondEffect, ZenonT(60)
  <1>5. /\ branches' = remaining /\ queued' = <<>> /\ finals' = fs /\ answered' = TRUE
        /\ finished' = settled
        /\ effects' = (<<Respond(status, {id})>> \o cancels) \o over
        /\ request' = request /\ awaiting' = awaiting /\ tokens' = tokens
        /\ asked' = asked /\ verdict' = verdict
    BY DEF OnConcludingFinal, ConcludeTargetSet
  <1>6. settled \in BOOLEAN
    OBVIOUS
  <1> HIDE DEF concluded, remaining, settled, cancels, over
  <1>7. /\ <<Respond(status, {id})>> \o cancels \in Seq(Effect)
        /\ ~Launches(<<Respond(status, {id})>> \o cancels)
    BY <1>4, ConcatEffects, ZenonT(60)
  <1>8. effects' \in Seq(Effect) /\ ~Launches(effects')
    BY <1>4, <1>5, <1>7, ConcatEffects, ZenonT(60)
  <1> QED BY <1>1, <1>3, <1>5, <1>6, <1>8, BranchStepInv

\* on_branch_response keeps the invariant.
LEMMA ResponseInv ==
  ASSUME IndInv, NEW id \in BranchIds, NEW status \in 100..699, OnBranchResponse(id, status)
  PROVE  IndInv' /\ (answered => ~Launches(effects'))
  <1> DEFINE final == [branch |-> id, status |-> status]
  <1>1. status \in 100..699
    OBVIOUS
  <1>2. id \in Nat /\ request # NoRequest /\ asked = "none"
    BY BranchFacts
  <1>3. ~finished
    BY DEF OnBranchResponse, OnSuccess
  <1>4. finals \cup {final} \in SUBSET [branch : Nat, status : 100..699]
    <2> DEFINE F == [branch : Nat, status : 100..699]
    <2>1. final \in F
      BY <1>1, <1>2
    <2>2. finals \in SUBSET F
      BY DEF IndInv, TypeOK
    <2>3. finals \cup {final} \in SUBSET F
      <3> HIDE DEF F, final
      <3> QED BY <2>1, <2>2
    <2> QED BY <2>3
  <1>5. finals \in SUBSET [branch : Nat, status : 100..699]
    BY DEF IndInv, TypeOK
  <1>6. \/ OnProvisional(id, status)
        \/ OnBranchFailure(id)
        \/ OnConcludingFinal(id, status, finals)
        \/ OnConcludingFinal(id, status, finals \cup {final})
        \/ AfterConclusion(Conclude(branches, id, status), finals \cup {final})
    BY DEF OnBranchResponse, OnSuccess
  <1>7. CASE AfterConclusion(Conclude(branches, id, status), finals \cup {final})
    <2>1. Conclude(branches, id, status) \in Seq(Branch)
      BY <1>1, ConcludeType, ZenonT(60) DEF IndInv, TypeOK
    <2> QED BY <1>2, <1>3, <1>4, <1>7, <2>1, AfterConclusionInv
  <1> HIDE DEF final
  <1>8. CASE OnProvisional(id, status)
    BY <1>1, <1>3, <1>8, ProvisionalInv
  <1>9. CASE OnBranchFailure(id)
    BY <1>9, FailureInv
  <1>10. ASSUME NEW fs \in SUBSET [branch : Nat, status : 100..699],
                OnConcludingFinal(id, status, fs)
         PROVE  IndInv' /\ ~Launches(effects')
    BY <1>1, <1>3, <1>10, ConcludingFinalInv, ZenonT(60)
  <1>11. CASE \/ OnConcludingFinal(id, status, finals)
              \/ OnConcludingFinal(id, status, finals \cup {final})
    BY <1>4, <1>5, <1>10, <1>11
  <1> QED BY <1>6, <1>7, <1>8, <1>9, <1>10, <1>11

\* on_timer_c keeps the invariant.
LEMMA TimerInv ==
  ASSUME IndInv, NEW id \in BranchIds, OnTimerC(id)
  PROVE  IndInv' /\ (answered => ~Launches(effects'))
  <1>1. id \in Nat /\ request # NoRequest /\ asked = "none" /\ ~finished
    BY BranchFacts DEF OnTimerC
  <1>2. verdict \in {"none", "valid"} /\ branches \in Seq(Branch)
    BY <1>1, NotRejected DEF IndInv, TypeOK
  <1>3. CASE AfterConclusion(Conclude(branches, id, 408),
                             finals \cup {[branch |-> id, status |-> 408]})
    <2>1. /\ Conclude(branches, id, 408) \in Seq(Branch)
          /\ finals \cup {[branch |-> id, status |-> 408]}
                \in SUBSET [branch : Nat, status : 100..699]
      BY <1>1, ConcludeType DEF IndInv, TypeOK
    <2> QED BY <1>1, <1>3, <2>1, AfterConclusionInv
  <1>4. CASE /\ branches' = SetCancelling(branches, {id})
             /\ effects' = CancelBranches({id})
             /\ UNCHANGED <<request, queued, finals, answered, finished, awaiting,
                            tokens, asked, verdict>>
    <2>1. branches' \in Seq(Branch)
      BY <1>2, <1>4, SetCancellingType
    <2>2. effects' \in Seq(Effect) /\ ~Launches(effects')
      <3>1. {id} \in SUBSET Nat
        BY <1>1
      <3> QED BY <1>4, <3>1, CancelEffects
    <2>3. /\ finals' \in SUBSET [branch : Nat, status : 100..699]
          /\ finished' \in BOOLEAN /\ answered' \in BOOLEAN
      BY <1>4 DEF IndInv, TypeOK
    <2> QED BY <1>1, <1>2, <1>4, <2>1, <2>2, <2>3, BranchStepInv
  <1> QED BY <1>3, <1>4 DEF OnTimerC

\* on_upstream_cancelled keeps the invariant.
LEMMA CancelledInv ==
  ASSUME IndInv, OnUpstreamCancelled
  PROVE  IndInv' /\ ~Launches(effects')
  <1>0. /\ ~finished /\ request # NoRequest /\ queued' = <<>> /\ request' = request
        /\ finals' = finals /\ answered' = answered /\ finished' = finished
        /\ awaiting' = awaiting /\ tokens' = tokens /\ asked' = asked /\ verdict' = verdict
    BY DEF OnUpstreamCancelled, ConcludeTargetSet
  <1>1. branches \in Seq(Branch) /\ branches \in [1..Len(branches) -> Branch]
        /\ Len(branches) \in Nat /\ DOMAIN branches = 1..Len(branches)
    BY DEF IndInv, TypeOK
  <1> DEFINE now == {b \in PendingIds(branches) :
                       \E k \in DOMAIN branches :
                          /\ branches[k].id = b
                          /\ branches[k].state = "Pending"
                          /\ branches[k].sawProvisional}
  <1>2. /\ branches' = [k \in DOMAIN branches |->
                           IF branches[k].id \in now
                             THEN [branches[k] EXCEPT !.state = "Cancelling"]
                           ELSE IF branches[k].state = "Pending"
                             THEN [branches[k] EXCEPT !.cancelQueued = TRUE]
                           ELSE branches[k]]
        /\ effects' = << Simple("AnswerCancel") >> \o CancelBranches(now)
    BY DEF OnUpstreamCancelled, ConcludeTargetSet
  <1>3. now \in SUBSET Nat
    BY <1>1, IdsType
  <1> HIDE DEF now
  <1>4. branches' \in [1..Len(branches) -> Branch]
    <2>1. \A b \in Branch : /\ [b EXCEPT !.state = "Cancelling"] \in Branch
                            /\ [b EXCEPT !.cancelQueued = TRUE] \in Branch
      BY ZenonT(60) DEF Branch
    <2> QED BY <1>1, <1>2, <2>1
  <1>5. branches' \in Seq(Branch) /\ (branches = <<>> => branches' = <<>>)
    BY <1>1, <1>4, FunctionIsSeq
  <1>6. effects' \in Seq(Effect) /\ ~Launches(effects')
    <2>1. << Simple("AnswerCancel") >> \in Seq(Effect) /\ ~Launches(<< Simple("AnswerCancel") >>)
      BY SimpleEffects
    <2>2. CancelBranches(now) \in Seq(Effect) /\ ~Launches(CancelBranches(now))
      BY <1>3, CancelEffects
    <2> QED BY <1>2, <2>1, <2>2, ConcatEffects
  <1>7. queued' \in Seq(Target)
    BY <1>0
  <1>8. TypeOK'
    BY <1>0, <1>5, <1>6, <1>7 DEF IndInv, TypeOK
  <1> QED BY <1>0, <1>5, <1>6, <1>8
          DEF IndInv, QuestionsComeFirst, AnsweredLeavesNoQueue, TokenGatesRouting

\* TokensMinted keeps the invariant.
LEMMA MintedInv ==
  ASSUME IndInv, TokensMinted
  PROVE  IndInv' /\ ~Launches(effects')
  <1>1. /\ request' = request /\ branches' = branches /\ queued' = queued
        /\ finals' = finals /\ answered' = answered /\ finished' = finished
        /\ awaiting' = awaiting /\ tokens' = TRUE /\ asked' = asked
        /\ verdict' = verdict /\ effects' = <<>>
    BY DEF TokensMinted
  <1>2. TypeOK'
    BY <1>1, EmptyEffects DEF IndInv, TypeOK
  <1> QED BY <1>1, <1>2, EmptyEffects
          DEF IndInv, QuestionsComeFirst, AnsweredLeavesNoQueue, TokenGatesRouting

-----------------------------------------------------------------------------
(* The theorems *)

\* One call of on_input, whatever the input, keeps the invariant and launches
\* nothing once a final response has gone upstream.
LEMMA StepInv ==
  ASSUME IndInv, Next
  PROVE  IndInv' /\ (answered => ~Launches(effects'))
  <1>1. CASE TokensMinted
    BY <1>1, MintedInv
  <1>2. CASE \E r \in Requests : OnUpstream(r)
    BY <1>2, UpstreamInv
  <1>3. CASE \E v \in {"valid", "invalid"} : OnToken(v)
    BY <1>3, TokenInv
  <1>4. CASE \E targets \in TargetSets : OnTargets(targets)
    BY <1>4, TargetsInv
  <1>5. CASE OnTargetsUnavailable
    BY <1>5, UnavailableInv
  <1>6. CASE \E id \in BranchIds, status \in Codes : OnBranchResponse(id, status)
    BY <1>6, ResponseInv, CodesAssumption
  <1>7. CASE \E id \in BranchIds : OnBranchFailure(id)
    BY <1>7, FailureInv
  <1>8. CASE \E id \in BranchIds : OnTimerC(id)
    BY <1>8, TimerInv
  <1>9. CASE OnUpstreamCancelled
    BY <1>9, CancelledInv
  <1>10. CASE OnNothing
    BY <1>10, IgnoreInv DEF OnNothing
  <1> QED BY <1>1, <1>2, <1>3, <1>4, <1>5, <1>6, <1>7, <1>8, <1>9, <1>10 DEF Next

\* A new context satisfies the invariant.
LEMMA InitInv == Init => IndInv
  <1> SUFFICES ASSUME Init PROVE IndInv
    OBVIOUS
  <1>1. TypeOK
    <2>1. <<>> \in Seq(Branch) /\ <<>> \in Seq(Target) /\ <<>> \in Seq(Effect)
      OBVIOUS
    <2> QED BY <2>1, Zenon DEF Init, TypeOK
  <1> QED BY <1>1 DEF Init, IndInv, QuestionsComeFirst, AnsweredLeavesNoQueue,
                      TokenGatesRouting

\* Every reachable state of the context satisfies the inductive invariant: the
\* types, the order of questions and branches, the empty queue of an answered
\* context (R12, C7) and the token gate (P2 before P3).
THEOREM Invariance == Spec => []IndInv
  <1>1. Init => IndInv
    BY InitInv
  <1>2. IndInv /\ [Next]_vars => IndInv'
    <2> SUFFICES ASSUME IndInv, [Next]_vars PROVE IndInv'
      OBVIOUS
    <2>1. CASE Next
      BY <2>1, StepInv
    <2>2. CASE UNCHANGED vars
      BY <2>2 DEF vars, IndInv, TypeOK, QuestionsComeFirst, AnsweredLeavesNoQueue,
                  TokenGatesRouting
    <2> QED BY <2>1, <2>2
  <1> QED BY <1>1, <1>2, PTL DEF Spec

\* The state of the context and the effects it returns keep their shapes.
THEOREM TypeCorrect == Spec => []TypeOK
  <1>1. IndInv => TypeOK
    BY DEF IndInv
  <1> QED BY <1>1, Invariance, PTL

\* R12 and C7: an answered context that is still open has an empty target queue.
THEOREM ConcludedTargetSet == Spec => []AnsweredLeavesNoQueue
  <1>1. IndInv => AnsweredLeavesNoQueue
    BY DEF IndInv
  <1> QED BY <1>1, Invariance, PTL

\* P2 before P3: a request that carried a token has no branch before that token was
\* found valid, and none after it was rejected.
THEOREM TokenGate == Spec => []TokenGatesRouting
  <1>1. IndInv => TokenGatesRouting
    BY DEF IndInv
  <1> QED BY <1>1, Invariance, PTL

\* R12: after a final response has gone upstream no call launches a branch.
THEOREM NothingLaunchedAfterAnswer == Spec => NoLaunchAfterAnswer
  <1>1. IndInv /\ [Next]_vars => [answered => ~Emits(effects', "Forward")]_vars
    <2> SUFFICES ASSUME IndInv, Next PROVE answered => ~Emits(effects', "Forward")
      OBVIOUS
    <2> QED BY StepInv DEF Launches
  <1> QED BY <1>1, Invariance, PTL DEF Spec, NoLaunchAfterAnswer

-----------------------------------------------------------------------------
(* Nothing is stranded, when a copy can be built for every target *)

QueueBuilds == \A k \in DOMAIN queued : queued[k].builds
LiveInv == IndInv /\ QueueBuilds /\ NothingStranded

\* A group of targets that all build leaves a branch in flight.
LEMMA ForkLaunches ==
  ASSUME NEW r, NEW bs \in Seq(Branch), NEW ts \in Seq(Target),
         \A k \in DOMAIN ts : ts[k].builds, ForkNextGroup(r, bs, ts)
  PROVE  /\ HasPending(branches')
         /\ \A k \in DOMAIN queued' : queued'[k].builds
  <1>1. PICK n \in {k \in 1..Len(ts) : IsLeadingGroup(ts, k, MaxBreadth(r))} :
          \E m \in 0..n : \E pos \in [1..m -> 1..n] :
            /\ ListsBuilt(ts, n, m, pos)
            /\ LaunchGroup(r, bs, ts, n, [k \in 1..m |-> NewBranch(Len(bs) + pos[k] - 1)])
    BY Zenon DEF ForkNextGroup
  <1>2. PICK m \in 0..n : \E pos \in [1..m -> 1..n] :
            /\ ListsBuilt(ts, n, m, pos)
            /\ LaunchGroup(r, bs, ts, n, [k \in 1..m |-> NewBranch(Len(bs) + pos[k] - 1)])
    BY <1>1
  <1>3. PICK pos \in [1..m -> 1..n] :
            /\ ListsBuilt(ts, n, m, pos)
            /\ LaunchGroup(r, bs, ts, n, [k \in 1..m |-> NewBranch(Len(bs) + pos[k] - 1)])
    BY <1>2
  <1> DEFINE fresh == [k \in 1..m |-> NewBranch(Len(bs) + pos[k] - 1)]
  <1>4. n \in 1..Len(ts) /\ n \in Nat /\ m \in Nat
    OBVIOUS
  <1>5. 1 \in {k \in 1..n : ts[k].builds}
    BY <1>4
  <1>6. \E i \in 1..m : pos[i] = 1
    BY <1>3, <1>5 DEF ListsBuilt
  <1>7. m >= 1
    BY <1>4, <1>6
  <1>8. fresh \in Seq(Branch) /\ Len(fresh) = m
    <2>1. \A k \in 1..m : Len(bs) + pos[k] - 1 \in Nat
      BY <1>4
    <2>2. fresh \in [1..m -> Branch]
      BY <2>1, NewBranchType
    <2> QED BY <1>4, <2>2, FunctionIsSeq
  <1>9. fresh[1].state = "Pending"
    BY <1>4, <1>7 DEF NewBranch
  <1> HIDE DEF fresh
  <1>10. /\ Len(bs) + 1 \in DOMAIN (bs \o fresh)
         /\ (bs \o fresh)[Len(bs) + 1] = fresh[1]
    BY <1>4, <1>7, <1>8
  <1>11. branches' = bs \o fresh
    BY <1>3 DEF LaunchGroup, fresh
  <1>12. HasPending(branches')
    BY <1>9, <1>10, <1>11 DEF HasPending
  <1>13. queued' = SubSeq(ts, n + 1, Len(ts))
    BY <1>3 DEF LaunchGroup
  <1>14. \A k \in DOMAIN queued' : queued'[k].builds
    BY <1>4, <1>13
  <1> QED BY <1>12, <1>14

\* A non-empty target set whose targets build leaves a branch in flight.
LEMMA TargetSetLaunches ==
  ASSUME IndInv, NEW r, NEW targets \in Seq(Target),
         \A k \in DOMAIN targets : targets[k].builds, OnTargetSet(r, targets)
  PROVE  /\ HasPending(branches')
         /\ \A k \in DOMAIN queued' : queued'[k].builds
  <1>1. PICK p \in [1..Len(targets) -> 1..Len(targets)] :
           ForkNextGroup(r, branches, [k \in 1..Len(targets) |-> targets[p[k]]])
    BY DEF OnTargetSet
  <1> DEFINE sorted == [k \in 1..Len(targets) |-> targets[p[k]]]
  <1>2. sorted \in [1..Len(targets) -> Target] /\ \A k \in DOMAIN sorted : sorted[k].builds
    OBVIOUS
  <1>3. sorted \in Seq(Target)
    BY <1>2, FunctionIsSeq
  <1>4. ForkNextGroup(r, branches, sorted) /\ branches \in Seq(Branch)
    BY <1>1 DEF IndInv, TypeOK
  <1> HIDE DEF sorted
  <1> QED BY <1>2, <1>3, <1>4, ForkLaunches

\* route_it launches a branch or asks the location service.
LEMMA RouteItLaunches ==
  ASSUME IndInv, queued = <<>>, NEW r, RouteIt(r)
  PROVE  /\ asked' # "none" \/ HasPending(branches')
         /\ \A k \in DOMAIN queued' : queued'[k].builds
  <1>1. CASE Predetermined(r)
    <2>1. OnTargetSet(r, <<SoleTarget>>)
      BY <1>1 DEF RouteIt
    <2>2. /\ <<SoleTarget>> \in Seq(Target)
          /\ \A k \in DOMAIN <<SoleTarget>> : <<SoleTarget>>[k].builds
      BY DEF SoleTarget, Target
    <2> QED BY <2>1, <2>2, TargetSetLaunches
  <1>2. CASE ~Predetermined(r)
    BY <1>2 DEF RouteIt
  <1> QED BY <1>1, <1>2

\* After a conclusion a branch is in flight or the caller has its answer.
LEMMA AfterConclusionLive ==
  ASSUME LiveInv, NEW bs \in Seq(Branch), NEW fs, AfterConclusion(bs, fs)
  PROVE  /\ answered' \/ HasPending(branches')
         /\ QueueBuilds'
  <1>1. CASE HasPending(bs)
    BY <1>1 DEF AfterConclusion, LiveInv, QueueBuilds
  <1>2. CASE ~HasPending(bs) /\ MayForkNextGroup
    <2>1. /\ ForkNextGroup(request, bs, queued) /\ queued \in Seq(Target)
          /\ \A k \in DOMAIN queued : queued[k].builds
      BY <1>2 DEF AfterConclusion, LiveInv, IndInv, TypeOK, QueueBuilds
    <2> QED BY <2>1, ForkLaunches DEF QueueBuilds
  <1>3. CASE ~HasPending(bs) /\ ~MayForkNextGroup
    <2>1. queued' = queued /\ SelectAndAnswer(bs, fs)
      BY <1>3 DEF AfterConclusion
    <2>2. answered'
      BY <2>1 DEF SelectAndAnswer, RespondAndFinish
    <2> QED BY <2>1, <2>2 DEF LiveInv, QueueBuilds
  <1> QED BY <1>1, <1>2, <1>3

\* Marking and cancelling leave a branch in flight that was in flight.
LEMMA StillPending ==
  ASSUME NEW bs \in Seq(Branch), NEW id, NEW ids, HasPending(bs)
  PROVE  HasPending(SetCancelling(bs, ids)) /\ HasPending(MarkProvisional(bs, id))
  <1>1. PICK k \in DOMAIN bs : bs[k].state # "Concluded"
    BY DEF HasPending
  <1>2. bs[k] \in Branch
    BY <1>1
  <1>3. /\ [bs[k] EXCEPT !.state = "Cancelling"].state = "Cancelling"
        /\ [bs[k] EXCEPT !.sawProvisional = TRUE, !.cancelQueued = FALSE].state = bs[k].state
    BY <1>2 DEF Branch
  <1>4. /\ k \in DOMAIN SetCancelling(bs, ids)
        /\ SetCancelling(bs, ids)[k].state # "Concluded"
    BY <1>1, <1>3 DEF SetCancelling
  <1>5. /\ k \in DOMAIN MarkProvisional(bs, id)
        /\ MarkProvisional(bs, id)[k].state # "Concluded"
    BY <1>1, <1>3 DEF MarkProvisional
  <1> QED BY <1>4, <1>5 DEF HasPending

\* A step after which the caller is answered, a question is open or a branch is in
\* flight strands nothing.
LEMMA LiveFromStep ==
  ASSUME IndInv', QueueBuilds',
         request' = NoRequest \/ answered' \/ finished' \/ asked' # "none" \/ HasPending(branches')
  PROVE  LiveInv'
  BY DEF LiveInv, NothingStranded, HasPending

\* An open context with no question asked and no answer given has a branch in flight.
LEMMA LiveBranch ==
  ASSUME LiveInv, ~finished, request # NoRequest, asked = "none", ~answered
  PROVE  HasPending(branches)
  BY DEF LiveInv, NothingStranded

\* Every call leaves an unanswered, unfinished context something to wait for.
LEMMA LiveStep ==
  ASSUME AllTargetsBuild, LiveInv, Next
  PROVE  LiveInv'
  <1>0. IndInv /\ IndInv'
    BY StepInv DEF LiveInv
  <1>1. CASE TokensMinted
    BY <1>0, <1>1 DEF TokensMinted, LiveInv, QueueBuilds, NothingStranded, HasPending
  <1>2. ASSUME NEW r \in Requests, OnUpstream(r) PROVE LiveInv'
    <2>1. request = NoRequest /\ queued = <<>>
      BY <1>0, <1>2 DEF OnUpstream, IndInv, QuestionsComeFirst
    <2>2. CASE Refuse(r)
      BY <1>0, <2>1, <2>2, LiveFromStep DEF Refuse, QueueBuilds
    <2>3. CASE ~Refuse(r) /\ Carriage(r)
      BY <1>0, <1>2, <2>1, <2>3, LiveFromStep DEF OnUpstream, QueueBuilds
    <2>4. CASE ~Refuse(r) /\ ~Carriage(r)
      <3>1. RouteIt(Preprocess(r))
        BY <1>2, <2>4 DEF OnUpstream
      <3> QED BY <1>0, <2>1, <3>1, RouteItLaunches, LiveFromStep DEF QueueBuilds
    <2> QED BY <2>2, <2>3, <2>4
  <1>3. ASSUME NEW v \in {"valid", "invalid"}, OnToken(v) PROVE LiveInv'
    <2>1. queued = <<>>
      BY <1>0, <1>3 DEF OnToken, IndInv, QuestionsComeFirst
    <2>2. CASE v = "valid"
      <3>1. RouteIt(request)
        BY <1>3, <2>2 DEF OnToken
      <3> QED BY <1>0, <2>1, <3>1, RouteItLaunches, LiveFromStep DEF QueueBuilds
    <2>3. CASE v = "invalid"
      <3>1. finished' /\ queued' = queued
        BY <1>3, <2>3 DEF OnToken, RespondAndFinish
      <3> QED BY <1>0, <2>1, <3>1, LiveFromStep DEF QueueBuilds
    <2> QED BY <2>2, <2>3
  <1>4. ASSUME NEW targets \in TargetSets, OnTargets(targets) PROVE LiveInv'
    <2>1. CASE targets = <<>>
      <3>1. finished' /\ queued' = queued
        BY <1>4, <2>1 DEF OnTargets, RespondAndFinish
      <3> QED BY <1>0, <3>1, LiveFromStep DEF QueueBuilds, LiveInv
    <2>2. CASE targets # <<>>
      <3>1. /\ OnTargetSet(request, targets) /\ targets \in Seq(Target)
            /\ \A k \in DOMAIN targets : targets[k].builds
        BY <1>4, <2>2, TargetSetsAssumption DEF OnTargets, AllTargetsBuild
      <3> QED BY <1>0, <3>1, TargetSetLaunches, LiveFromStep DEF QueueBuilds
    <2> QED BY <2>1, <2>2
  <1>5. CASE OnTargetsUnavailable
    <2>1. finished' /\ queued' = queued
      BY <1>5 DEF OnTargetsUnavailable, RespondAndFinish
    <2> QED BY <1>0, <2>1, LiveFromStep DEF QueueBuilds, LiveInv
  <1>a. ASSUME NEW bs \in Seq(Branch), NEW fs, AfterConclusion(bs, fs) PROVE LiveInv'
    BY <1>0, <1>a, AfterConclusionLive, LiveFromStep
  <1>b. branches \in Seq(Branch)
    BY <1>0 DEF IndInv, TypeOK
  <1>7. ASSUME NEW id \in BranchIds, OnBranchFailure(id) PROVE LiveInv'
    <2>1. Conclude(branches, id, 503) \in Seq(Branch)
      BY <1>b, ConcludeType
    <2> QED BY <1>7, <1>a, <2>1 DEF OnBranchFailure
  <1>6. ASSUME NEW id \in BranchIds, NEW status \in Codes, OnBranchResponse(id, status)
        PROVE  LiveInv'
    <2>0. /\ ~finished /\ request # NoRequest /\ asked = "none" /\ status \in 100..699
      BY <1>0, <1>6, BranchFacts, CodesAssumption DEF OnBranchResponse, OnSuccess
    <2>1. CASE OnProvisional(id, status)
      <3>1. /\ branches' = SetCancelling(MarkProvisional(branches, id), Released(branches, id))
            /\ queued' = queued /\ answered' = answered
        BY <2>1 DEF OnProvisional
      <3>2. CASE answered
        BY <1>0, <3>1, <3>2, LiveFromStep DEF QueueBuilds, LiveInv
      <3>3. CASE ~answered
        <4>1. HasPending(branches)
          BY <2>0, <3>3, LiveBranch
        <4>2. HasPending(MarkProvisional(branches, id)) /\ MarkProvisional(branches, id) \in Seq(Branch)
          BY <1>b, <4>1, StillPending, MarkProvisionalType
        <4>3. HasPending(branches')
          BY <3>1, <4>2, StillPending
        <4> QED BY <1>0, <3>1, <4>3, LiveFromStep DEF QueueBuilds, LiveInv
      <3> QED BY <3>2, <3>3
    <2>2. ASSUME NEW fs, OnConcludingFinal(id, status, fs) PROVE LiveInv'
      <3>1. answered' /\ queued' = <<>>
        BY <2>2 DEF OnConcludingFinal, ConcludeTargetSet
      <3> QED BY <1>0, <3>1, LiveFromStep DEF QueueBuilds
    <2>3. ASSUME NEW fs, AfterConclusion(Conclude(branches, id, status), fs) PROVE LiveInv'
      <3>1. Conclude(branches, id, status) \in Seq(Branch)
        BY <1>b, <2>0, ConcludeType
      <3> QED BY <1>a, <2>3, <3>1
    <2> QED BY <1>6, <1>7, <2>1, <2>2, <2>3 DEF OnBranchResponse, OnSuccess
  <1>8. ASSUME NEW id \in BranchIds, OnTimerC(id) PROVE LiveInv'
    <2>0. /\ ~finished /\ request # NoRequest /\ asked = "none"
      BY <1>0, <1>8, BranchFacts DEF OnTimerC
    <2>1. ASSUME NEW fs, AfterConclusion(Conclude(branches, id, 408), fs) PROVE LiveInv'
      <3>1. Conclude(branches, id, 408) \in Seq(Branch)
        BY <1>b, ConcludeType
      <3> QED BY <1>a, <2>1, <3>1
    <2>2. CASE /\ branches' = SetCancelling(branches, {id})
               /\ UNCHANGED <<queued, answered>>
      <3>1. CASE answered
        BY <1>0, <2>2, <3>1, LiveFromStep DEF QueueBuilds, LiveInv
      <3>2. CASE ~answered
        <4>1. HasPending(branches')
          BY <1>b, <2>0, <2>2, <3>2, LiveBranch, StillPending
        <4> QED BY <1>0, <2>2, <4>1, LiveFromStep DEF QueueBuilds, LiveInv
      <3> QED BY <3>1, <3>2
    <2> QED BY <1>8, <2>1, <2>2 DEF OnTimerC
  <1>9. CASE OnUpstreamCancelled
    <2>0. /\ ~finished /\ request # NoRequest /\ queued' = <<>> /\ asked' = asked
          /\ answered' = answered
      BY <1>9 DEF OnUpstreamCancelled, ConcludeTargetSet
    <2>1. CASE answered \/ asked # "none"
      BY <1>0, <2>0, <2>1, LiveFromStep DEF QueueBuilds
    <2>2. CASE ~answered /\ asked = "none"
      <3>1. PICK k \in DOMAIN branches : branches[k].state # "Concluded"
        BY <2>0, <2>2, LiveBranch DEF HasPending
      <3>2. branches[k] \in Branch
        BY <1>b, <3>1
      <3>3. /\ [branches[k] EXCEPT !.state = "Cancelling"].state # "Concluded"
            /\ [branches[k] EXCEPT !.cancelQueued = TRUE].state # "Concluded"
        BY <3>1, <3>2 DEF Branch
      <3>4. k \in DOMAIN branches' /\ branches'[k].state # "Concluded"
        BY <1>9, <3>1, <3>3 DEF OnUpstreamCancelled, ConcludeTargetSet
      <3>5. HasPending(branches')
        BY <3>4 DEF HasPending
      <3> QED BY <1>0, <2>0, <3>5, LiveFromStep DEF QueueBuilds
    <2> QED BY <2>1, <2>2
  <1>10. CASE OnNothing
    BY <1>0, <1>10 DEF OnNothing, Ignore, LiveInv, QueueBuilds, NothingStranded, HasPending
  <1> QED BY <1>1, <1>2, <1>3, <1>4, <1>5, <1>6, <1>7, <1>8, <1>9, <1>10 DEF Next

\* Sections 7.1 and 8: when a copy can be built for every target, an accepted
\* request that has no final response yet always has a branch in flight or a
\* question the driver owes an answer to.
THEOREM NeverStranded ==
  ASSUME AllTargetsBuild
  PROVE  Spec => []NothingStranded
  <1>1. Init => IndInv
    BY InitInv
  <1>2. Init => LiveInv
    BY <1>1 DEF Init, LiveInv, QueueBuilds, NothingStranded
  <1>3. LiveInv /\ [Next]_vars => LiveInv'
    <2> SUFFICES ASSUME LiveInv, [Next]_vars PROVE LiveInv'
      OBVIOUS
    <2>1. CASE Next
      BY <2>1, LiveStep
    <2>2. CASE UNCHANGED vars
      BY <2>2 DEF vars, LiveInv, IndInv, TypeOK, QuestionsComeFirst, AnsweredLeavesNoQueue,
                  TokenGatesRouting, QueueBuilds, NothingStranded, HasPending
    <2> QED BY <2>1, <2>2
  <1>4. LiveInv => NothingStranded
    BY DEF LiveInv
  <1> QED BY <1>2, <1>3, <1>4, PTL DEF Spec
=============================================================================
