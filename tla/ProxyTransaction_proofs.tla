------------------------ MODULE ProxyTransaction_proofs ------------------------
(***************************************************************************)
(* Theorems about the response context among its client transactions, its  *)
(* timers and a caller who may withdraw, for every set of requests, target *)
(* sets and status codes (ProxyTransaction!SpecAll).                       *)
(*                                                                         *)
(* First what the lists of effects say to the transactions and to the      *)
(* caller, then what each call of the engine emits, then the invariants.   *)
(***************************************************************************)
EXTENDS ProxyTransaction, ResponseContext_proofs, FiniteSetTheorems, WellFoundedInduction

-----------------------------------------------------------------------------
(* Lists of effects *)

\* The branches a list of effects launches.
Forwards(es) == {es[k].id : k \in {j \in DOMAIN es : es[j].kind = "Forward"}}

\* A list of effects cancels no branch.
Spares(es) == \A k \in DOMAIN es : es[k].kind # "CancelBranch"

\* A list of effects cancels no other branches than these, and none of them twice.
Stops(es, ids) ==
    /\ \A k \in DOMAIN es : es[k].kind = "CancelBranch" => es[k].ids \subseteq ids
    /\ \A j, k \in DOMAIN es :
          es[j].kind = "CancelBranch" /\ es[k].kind = "CancelBranch" => j = k

\* A list of effects sends the caller one final response, first of all.
Tells(es, status, from) ==
    FinalsAt(es) = {1} /\ 1 \in DOMAIN es /\ es[1] = Respond(status, from)

\* A list of effects sends the caller no final response.
Silent(es) == FinalsAt(es) = {}

\* Joining lists of effects joins what they say.
LEMMA JoinLists ==
  ASSUME NEW s \in Seq(Effect), NEW t \in Seq(Effect)
  PROVE  /\ s \o t \in Seq(Effect)
         /\ Silent(s) /\ Silent(t) => Silent(s \o t)
         /\ \A status, from : Tells(s, status, from) /\ Silent(t) => Tells(s \o t, status, from)
         /\ Spares(s) /\ Spares(t) => Spares(s \o t)
         /\ \A ids : Stops(s, ids) /\ Spares(t) => Stops(s \o t, ids)
         /\ \A ids : Spares(s) /\ Stops(t, ids) => Stops(s \o t, ids)
  <1>0. /\ s \o t \in Seq(Effect) /\ Len(s) \in Nat /\ Len(t) \in Nat
        /\ DOMAIN s = 1..Len(s) /\ DOMAIN t = 1..Len(t) /\ DOMAIN (s \o t) = 1..(Len(s) + Len(t))
    OBVIOUS
  <1>1. /\ \A k \in DOMAIN s : k \in DOMAIN (s \o t) /\ (s \o t)[k] = s[k]
        /\ \A k \in DOMAIN (s \o t) :
              k \in DOMAIN s \/ (k - Len(s) \in DOMAIN t /\ (s \o t)[k] = t[k - Len(s)])
    OBVIOUS
  <1>2. Silent(t) => FinalsAt(s \o t) = FinalsAt(s)
    <2> SUFFICES ASSUME Silent(t), NEW k
                 PROVE  k \in FinalsAt(s \o t) <=> k \in FinalsAt(s)
      OBVIOUS
    <2>1. ASSUME k \in FinalsAt(s) PROVE k \in FinalsAt(s \o t)
      BY <1>1, <2>1, Zenon DEF FinalsAt
    <2>2. ASSUME k \in FinalsAt(s \o t) PROVE k \in FinalsAt(s)
      <3>1. CASE k \in DOMAIN s
        BY <1>1, <2>2, <3>1, Zenon DEF FinalsAt
      <3>2. CASE k - Len(s) \in DOMAIN t /\ (s \o t)[k] = t[k - Len(s)]
        <4>1. k - Len(s) \in FinalsAt(t)
          BY <2>2, <3>2, Zenon DEF FinalsAt
        <4> QED BY <4>1 DEF Silent
      <3>3. k \in DOMAIN (s \o t)
        BY <2>2 DEF FinalsAt
      <3> QED BY <1>1, <3>1, <3>2, <3>3
    <2> QED BY <2>1, <2>2
  <1> DEFINE st == s \o t
             C(k) == k \in DOMAIN st /\ st[k].kind = "CancelBranch"
  <1>6. \A k \in DOMAIN st :
           \/ k \in DOMAIN s /\ st[k] = s[k]
           \/ k - Len(s) \in DOMAIN t /\ st[k] = t[k - Len(s)]
    BY <1>1
  <1>7. DOMAIN st \subseteq Int
    BY <1>0
  <1> HIDE DEF st
  <1>8. Spares(s) /\ Spares(t) => Spares(st)
    BY <1>6, Zenon DEF Spares
  <1>9. ASSUME NEW ids, Stops(s, ids), Spares(t) PROVE Stops(st, ids)
    <2>1. \A k : C(k) => k \in DOMAIN s /\ st[k] = s[k]
      BY <1>6, <1>9, Zenon DEF Spares
    <2> QED BY <1>9, <2>1, Zenon DEF Stops
  <1>10. ASSUME NEW ids, Spares(s), Stops(t, ids) PROVE Stops(st, ids)
    <2>1. \A k : C(k) => k - Len(s) \in DOMAIN t /\ st[k] = t[k - Len(s)]
      BY <1>6, <1>10, Zenon DEF Spares
    <2>2. \A k : C(k) => st[k].ids \subseteq ids
      BY <1>10, <2>1, Zenon DEF Stops
    <2>3. \A j, k : C(j) /\ C(k) => j - Len(s) = k - Len(s)
      BY <1>10, <2>1, Zenon DEF Stops
    <2>4. \A j, k : C(j) /\ C(k) => j = k
      BY <1>0, <1>7, <2>3
    <2> QED BY <2>2, <2>4, Zenon DEF Stops
  <1>4. Silent(s) /\ Silent(t) => Silent(s \o t)
    BY <1>2 DEF Silent
  <1>5. \A status, from : Tells(s, status, from) /\ Silent(t) => Tells(s \o t, status, from)
    BY <1>1, <1>2, Zenon DEF Tells
  <1> QED BY <1>0, <1>4, <1>5, <1>8, <1>9, <1>10 DEF st

\* Effects that cancel nothing stop no more than any branches there are.
LEMMA SparesStops ==
  ASSUME NEW es, Spares(es), NEW ids
  PROVE  Stops(es, ids)
  BY DEF Spares, Stops

\* A list of one effect.
LEMMA OneEffect ==
  ASSUME NEW e \in Effect
  PROVE  /\ <<e>> \in Seq(Effect)
         /\ e.kind # "Respond" => Silent(<<e>>)
         /\ e.kind = "Respond" /\ e.status < 200 => Silent(<<e>>)
         /\ e.kind # "CancelBranch" => Spares(<<e>>)
  <1>1. <<e>> \in Seq(Effect) /\ DOMAIN <<e>> = {1} /\ <<e>>[1] = e
    OBVIOUS
  <1>2. e.kind # "Respond" => Silent(<<e>>)
    BY <1>1 DEF Silent, FinalsAt
  <1>3. e.kind = "Respond" /\ e.status < 200 => Silent(<<e>>)
    <2> SUFFICES ASSUME e.kind = "Respond", e.status < 200 PROVE Silent(<<e>>)
      OBVIOUS
    <2>1. e.status \in Int
      BY DEF Effect
    <2>2. ~(e.status >= 200)
      BY <2>1
    <2> QED BY <1>1, <2>2 DEF Silent, FinalsAt
  <1>4. e.kind # "CancelBranch" => Spares(<<e>>)
    BY <1>1 DEF Spares
  <1> QED BY <1>1, <1>2, <1>3, <1>4

\* No effects say nothing.
LEMMA NoEffects == /\ <<>> \in Seq(Effect) /\ Silent(<<>>) /\ Forwards(<<>>) = {}
                   /\ Spares(<<>>)
  BY DEF Silent, FinalsAt, Spares, Forwards

\* A final response.
LEMMA Telling ==
  ASSUME NEW status \in 200..699, NEW from \in SUBSET Nat
  PROVE  /\ <<Respond(status, from)>> \in Seq(Effect)
         /\ Tells(<<Respond(status, from)>>, status, from)
         /\ Spares(<<Respond(status, from)>>)
  <1> DEFINE e == Respond(status, from)
  <1>1. status \in 100..699 /\ status >= 200
    OBVIOUS
  <1>2. e \in Effect
    BY <1>1, RespondEffect, Zenon
  <1>3. e.kind = "Respond" /\ e.status = status
    BY DEF Respond
  <1>4. FinalsAt(<<e>>) = {1} /\ 1 \in DOMAIN <<e>> /\ <<e>>[1] = e
    <2> HIDE DEF e
    <2> QED BY <1>1, <1>3 DEF FinalsAt
  <1>5. Spares(<<e>>)
    <2> HIDE DEF e
    <2> QED BY <1>2, <1>3, OneEffect
  <1> QED BY <1>2, <1>4, <1>5 DEF Tells

\* A provisional response.
LEMMA Relaying ==
  ASSUME NEW status \in 100..199, NEW from \in SUBSET Nat
  PROVE  /\ <<Respond(status, from)>> \in Seq(Effect) /\ Silent(<<Respond(status, from)>>)
         /\ Spares(<<Respond(status, from)>>)
  <1> DEFINE e == Respond(status, from)
  <1>1. status \in 100..699 /\ status < 200
    OBVIOUS
  <1>2. e \in Effect
    BY <1>1, RespondEffect, Zenon
  <1>3. e.kind = "Respond" /\ e.status = status
    BY DEF Respond
  <1> HIDE DEF e
  <1>4. <<e>> \in Seq(Effect) /\ Silent(<<e>>) /\ Spares(<<e>>)
    BY <1>1, <1>2, <1>3, OneEffect
  <1> QED BY <1>4 DEF e

\* Effects that concern neither the caller nor another branch.
LEMMA Aside ==
  /\ <<Terminate>> \in Seq(Effect) /\ Silent(<<Terminate>>) /\ Spares(<<Terminate>>)
  /\ \A kind \in {"AnswerCancel", "ResolveTargets", "VerifyToken"} :
        /\ <<Simple(kind)>> \in Seq(Effect) /\ Silent(<<Simple(kind)>>)
        /\ Spares(<<Simple(kind)>>)
  /\ \A id \in Nat : /\ <<SetTimerC(id)>> \in Seq(Effect) /\ Silent(<<SetTimerC(id)>>)
                     /\ Spares(<<SetTimerC(id)>>)
  <1>1. /\ Terminate \in Effect /\ Terminate.kind = "Terminate"
        /\ \A kind \in {"AnswerCancel", "ResolveTargets", "VerifyToken"} :
              Simple(kind) \in Effect /\ Simple(kind).kind = kind
    BY DEF Terminate, Simple, Effect
  <1>2. \A id \in Nat : SetTimerC(id) \in Effect /\ SetTimerC(id).kind = "SetTimer"
    BY DEF SetTimerC, Effect
  <1>3. <<Terminate>> \in Seq(Effect) /\ Silent(<<Terminate>>) /\ Spares(<<Terminate>>)
    BY <1>1, OneEffect
  <1>4. ASSUME NEW kind \in {"AnswerCancel", "ResolveTargets", "VerifyToken"}
        PROVE  /\ <<Simple(kind)>> \in Seq(Effect) /\ Silent(<<Simple(kind)>>)
               /\ Spares(<<Simple(kind)>>)
    <2>1. /\ Simple(kind) \in Effect /\ Simple(kind).kind # "Respond"
          /\ Simple(kind).kind # "CancelBranch"
      BY <1>1
    <2> QED BY <2>1, OneEffect, Zenon
  <1>5. ASSUME NEW id \in Nat
        PROVE  /\ <<SetTimerC(id)>> \in Seq(Effect) /\ Silent(<<SetTimerC(id)>>)
               /\ Spares(<<SetTimerC(id)>>)
    BY <1>2, OneEffect
  <1> QED BY <1>3, <1>4, <1>5

\* CancelBranches cancels what it is given.
LEMMA Cancelling ==
  ASSUME NEW ids \in SUBSET Nat
  PROVE  /\ CancelBranches(ids) \in Seq(Effect) /\ Silent(CancelBranches(ids))
         /\ \A all : ids \subseteq all => Stops(CancelBranches(ids), all)
  <1>1. CASE ids = {}
    BY <1>1, NoEffects, SparesStops DEF CancelBranches
  <1>2. CASE ids # {}
    <2> DEFINE e == [kind |-> "CancelBranch", ids |-> ids]
    <2>1. e \in Effect /\ e.kind = "CancelBranch" /\ e.ids = ids
      BY DEF Effect
    <2>2. CancelBranches(ids) = <<e>>
      BY <1>2 DEF CancelBranches
    <2> HIDE DEF e
    <2>3. Silent(<<e>>) /\ <<e>> \in Seq(Effect)
      BY <2>1, OneEffect
    <2>4. \A all : ids \subseteq all => Stops(<<e>>, all)
      <3>1. DOMAIN <<e>> = {1} /\ <<e>>[1] = e
        OBVIOUS
      <3>2. \A k \in DOMAIN <<e>> : <<e>>[k].ids = ids
        BY <2>1, <3>1
      <3>3. \A j, k \in DOMAIN <<e>> : j = k
        BY <3>1
      <3> QED BY <3>2, <3>3, Zenon DEF Stops
    <2> QED BY <2>2, <2>3, <2>4
  <1> QED BY <1>1, <1>2

\* respond_and_finish tells the caller and cancels what is pending.
LEMMA Finishing ==
  ASSUME NEW bs \in Seq(Branch), NEW status \in 200..699, RespondAndFinish(bs, status)
  PROVE  /\ answered' = TRUE /\ finished' = TRUE
         /\ Tells(effects', status, {}) /\ Stops(effects', PendingIds(bs))
  <1> DEFINE a == <<Respond(status, {})>>
             b == CancelBranches(PendingIds(bs))
             ids == PendingIds(bs)
  <1>1. {} \in SUBSET Nat /\ ids \in SUBSET Nat
    BY IdsType
  <1>2. a \in Seq(Effect) /\ Tells(a, status, {}) /\ Spares(a)
    BY <1>1, Telling
  <1>3. b \in Seq(Effect) /\ Silent(b) /\ Stops(b, ids)
    BY <1>1, Cancelling
  <1>4. effects' = (a \o b) \o <<Terminate>> /\ answered' = TRUE /\ finished' = TRUE
    BY DEF RespondAndFinish
  <1> HIDE DEF a, b, ids
  <1>5. a \o b \in Seq(Effect) /\ Tells(a \o b, status, {}) /\ Stops(a \o b, ids)
    BY <1>2, <1>3, JoinLists
  <1>6. Tells(effects', status, {}) /\ Stops(effects', ids)
    BY <1>4, <1>5, Aside, JoinLists, Zenon
  <1> QED BY <1>4, <1>6 DEF ids

\* A fork tells nobody, cancels nothing and launches its group.
LEMMA Forking ==
  ASSUME NEW r, NEW fresh \in Seq(Branch), NEW n
  PROVE  /\ Silent(ForkEffects(r, fresh, n))
         /\ Spares(ForkEffects(r, fresh, n))
         /\ \A k \in DOMAIN fresh : fresh[k].id \in Forwards(ForkEffects(r, fresh, n))
  <1> DEFINE es == ForkEffects(r, fresh, n)
             F(k) == Forward(fresh[k].id, Share(r, n), RecordRoutes(r))
             G(k) == SetTimerC(fresh[k].id)
  <1>0. Len(fresh) \in Nat /\ DOMAIN fresh = 1..Len(fresh)
    OBVIOUS
  <1>1. \A k : /\ F(k).kind = "Forward" /\ F(k).id = fresh[k].id
               /\ G(k).kind = "SetTimer"
    BY DEF Forward, SetTimerC
  <1>2. CASE r.method = "INVITE"
    <2>1. es = [k \in 1..(2 * Len(fresh)) |-> IF k % 2 = 1 THEN F((k + 1) \div 2) ELSE G(k \div 2)]
      BY <1>2 DEF ForkEffects
    <2> HIDE DEF es, F, G
    <2>2. \A k \in DOMAIN es : es[k].kind \in {"Forward", "SetTimer"}
      BY <1>1, <2>1
    <2>3. \A k \in DOMAIN fresh : /\ 2 * k - 1 \in DOMAIN es
                                  /\ es[2 * k - 1] = F(k)
      <3> SUFFICES ASSUME NEW k \in 1..Len(fresh)
                   PROVE  2 * k - 1 \in DOMAIN es /\ es[2 * k - 1] = F(k)
        BY <1>0
      <3>1. /\ 2 * k - 1 \in 1..(2 * Len(fresh))
            /\ (2 * k - 1) % 2 = 1 /\ ((2 * k - 1) + 1) \div 2 = k
        BY <1>0
      <3> QED BY <2>1, <3>1
    <2>4. \A k \in DOMAIN fresh : fresh[k].id \in Forwards(es)
      BY <1>1, <2>3, Zenon DEF Forwards
    <2>5. Silent(es) /\ Spares(es)
      BY <2>2 DEF Silent, FinalsAt, Spares
    <2> QED BY <2>4, <2>5 DEF es
  <1>3. CASE r.method # "INVITE"
    <2>1. es = [k \in 1..Len(fresh) |-> F(k)]
      BY <1>3 DEF ForkEffects
    <2> HIDE DEF es, F, G
    <2>2. \A k \in DOMAIN es : es[k].kind = "Forward"
      BY <1>1, <2>1
    <2>3. \A k \in DOMAIN fresh : k \in DOMAIN es /\ es[k] = F(k)
      BY <1>0, <2>1
    <2>4. \A k \in DOMAIN fresh : fresh[k].id \in Forwards(es)
      BY <1>1, <2>3, Zenon DEF Forwards
    <2>5. Silent(es) /\ Spares(es)
      BY <2>2 DEF Silent, FinalsAt, Spares
    <2> QED BY <2>4, <2>5 DEF es
  <1> QED BY <1>2, <1>3

-----------------------------------------------------------------------------
(* The branches still pending after a call *)

\* conclude_branch leaves no branch of that id pending and makes none pending.
LEMMA PendingConclude ==
  ASSUME NEW bs \in Seq(Branch), NEW id, NEW status
  PROVE  PendingIds(Conclude(bs, id, status)) \subseteq PendingIds(bs) \ {id}
  <1> DEFINE cs == Conclude(bs, id, status)
  <1>1. \A k \in DOMAIN bs : bs[k] \in Branch
    OBVIOUS
  <1>2. DOMAIN cs = DOMAIN bs
    BY DEF Conclude
  <1>3. ASSUME NEW k \in DOMAIN bs, bs[k].id = id
        PROVE  cs[k].state = "Concluded"
    <2>1. cs[k] = [bs[k] EXCEPT !.state = "Concluded", !.code = status]
      BY <1>3 DEF Conclude
    <2> QED BY <1>1, <2>1, ZenonT(40) DEF Branch
  <1>4. ASSUME NEW k \in DOMAIN bs, bs[k].id # id
        PROVE  cs[k] = bs[k]
    BY <1>4 DEF Conclude
  <1> HIDE DEF cs
  <1>5. PendingIds(cs) \subseteq PendingIds(bs) \ {id}
    BY <1>2, <1>3, <1>4 DEF PendingIds
  <1> QED BY <1>5 DEF cs

\* Nor do cancelling and hearing of a branch make one pending.
LEMMA PendingCancelling ==
  ASSUME NEW bs \in Seq(Branch), NEW ids
  PROVE  PendingIds(SetCancelling(bs, ids)) \subseteq PendingIds(bs) \ ids
  <1> DEFINE cs == SetCancelling(bs, ids)
  <1>1. \A k \in DOMAIN bs : bs[k] \in Branch
    OBVIOUS
  <1>2. DOMAIN cs = DOMAIN bs
    BY DEF SetCancelling
  <1>3. ASSUME NEW k \in DOMAIN bs
        PROVE  /\ cs[k].id = bs[k].id
               /\ (cs[k] = bs[k] /\ bs[k].id \notin ids) \/ cs[k].state = "Cancelling"
    <2>1. CASE bs[k].id \in ids
      <3>1. cs[k] = [bs[k] EXCEPT !.state = "Cancelling"]
        BY <2>1 DEF SetCancelling
      <3>2. cs[k].id = bs[k].id
        BY <1>1, <3>1, ZenonT(40) DEF Branch
      <3>3. cs[k].state = "Cancelling"
        BY <1>1, <3>1, ZenonT(40) DEF Branch
      <3> QED BY <3>2, <3>3
    <2>2. CASE bs[k].id \notin ids
      BY <2>2 DEF SetCancelling
    <2> QED BY <2>1, <2>2
  <1> HIDE DEF cs
  <1>4. PendingIds(cs) \subseteq PendingIds(bs) \ ids
    BY <1>2, <1>3 DEF PendingIds
  <1> QED BY <1>4 DEF cs

LEMMA PendingProvisional ==
  ASSUME NEW bs \in Seq(Branch), NEW id
  PROVE  PendingIds(MarkProvisional(bs, id)) \subseteq PendingIds(bs)
  <1> DEFINE cs == MarkProvisional(bs, id)
  <1>1. \A k \in DOMAIN bs : bs[k] \in Branch
    OBVIOUS
  <1>2. DOMAIN cs = DOMAIN bs
    BY DEF MarkProvisional
  <1>3. ASSUME NEW k \in DOMAIN bs
        PROVE  cs[k].id = bs[k].id /\ cs[k].state = bs[k].state
    <2>1. CASE bs[k].id = id /\ bs[k].state = "Pending"
      <3>1. cs[k] = [bs[k] EXCEPT !.sawProvisional = TRUE, !.cancelQueued = FALSE]
        BY <2>1 DEF MarkProvisional
      <3> QED BY <1>1, <3>1, ZenonT(40) DEF Branch
    <2>2. CASE ~(bs[k].id = id /\ bs[k].state = "Pending")
      BY <2>2 DEF MarkProvisional
    <2> QED BY <2>1, <2>2
  <1> HIDE DEF cs
  <1>4. PendingIds(cs) \subseteq PendingIds(bs)
    BY <1>2, <1>3 DEF PendingIds
  <1> QED BY <1>4 DEF cs

\* With every branch concluded none is pending.
LEMMA NonePending ==
  ASSUME NEW bs, ~HasPending(bs)
  PROVE  PendingIds(bs) = {}
  BY DEF HasPending, PendingIds

\* A group that was launched is pending, and so is what was pending before.
LEMMA PendingFork ==
  ASSUME NEW bs \in Seq(Branch), NEW fresh \in Seq(Branch)
  PROVE  PendingIds(bs \o fresh) \subseteq
            PendingIds(bs) \cup {fresh[k].id : k \in DOMAIN fresh}
  <1>1. \A k \in DOMAIN (bs \o fresh) :
           \/ k \in DOMAIN bs /\ (bs \o fresh)[k] = bs[k]
           \/ k - Len(bs) \in DOMAIN fresh /\ (bs \o fresh)[k] = fresh[k - Len(bs)]
    OBVIOUS
  <1> SUFFICES ASSUME NEW k \in DOMAIN (bs \o fresh), (bs \o fresh)[k].state = "Pending"
               PROVE  (bs \o fresh)[k].id \in PendingIds(bs) \cup {fresh[j].id : j \in DOMAIN fresh}
    BY DEF PendingIds
  <1>2. CASE k \in DOMAIN bs /\ (bs \o fresh)[k] = bs[k]
    BY <1>2 DEF PendingIds
  <1>3. CASE k - Len(bs) \in DOMAIN fresh /\ (bs \o fresh)[k] = fresh[k - Len(bs)]
    BY <1>3, Zenon
  <1> QED BY <1>1, <1>2, <1>3

-----------------------------------------------------------------------------
(* What a call of the engine stops, launches and leaves pending *)

\* A call cancels only branches that were pending, each once; what is pending after it was
\* pending before and is neither cancelled nor one of `settled`, or is launched by it.
Stopping(settled) ==
    \E ids \in SUBSET PendingIds(branches) :
      /\ Stops(effects', ids)
      /\ ~finished' => PendingIds(branches') \subseteq
                          (PendingIds(branches) \ (settled \cup ids)) \cup Forwards(effects')

\* A call that ends the context, and one that cancels nothing.
LEMMA EndStops ==
  ASSUME finished' = TRUE, Stops(effects', PendingIds(branches)), NEW settled
  PROVE  Stopping(settled)
  <1>1. PendingIds(branches) \in SUBSET PendingIds(branches)
    OBVIOUS
  <1> QED BY <1>1, Zenon DEF Stopping

LEMMA IdleStops ==
  ASSUME Stops(effects', {}), NEW settled,
         ~finished' => PendingIds(branches') \subseteq
                         (PendingIds(branches) \ settled) \cup Forwards(effects')
  PROVE  Stopping(settled)
  <1>1. {} \in SUBSET PendingIds(branches) /\ settled \cup {} = settled
    OBVIOUS
  <1> QED BY <1>1, Zenon DEF Stopping

\* A call that cancels branches of the context, which stays open or not.
LEMMA CancellingStops ==
  ASSUME NEW ids, ids \subseteq PendingIds(branches), Stops(effects', ids), NEW settled,
         PendingIds(branches') \subseteq PendingIds(branches) \ (settled \cup ids)
  PROVE  Stopping(settled)
  BY DEF Stopping

\* Emitting a group of targets.
LEMMA ForkStops ==
  ASSUME NEW r, NEW bs \in Seq(Branch), NEW ts \in Seq(Target), ForkNextGroup(r, bs, ts)
  PROVE  /\ Stops(effects', {})
         /\ ~finished' => PendingIds(branches') \subseteq PendingIds(bs) \cup Forwards(effects')
  <1>1. PICK n \in {k \in 1..Len(ts) : IsLeadingGroup(ts, k, MaxBreadth(r))} :
          \E m \in 0..n : \E pos \in [1..m -> 1..n] :
            LaunchGroup(r, bs, ts, n, [k \in 1..m |-> NewBranch(Len(bs) + pos[k] - 1)])
    BY Zenon DEF ForkNextGroup
  <1>2. PICK m \in 0..n : \E pos \in [1..m -> 1..n] :
            LaunchGroup(r, bs, ts, n, [k \in 1..m |-> NewBranch(Len(bs) + pos[k] - 1)])
    BY <1>1
  <1>3. PICK pos \in [1..m -> 1..n] :
            LaunchGroup(r, bs, ts, n, [k \in 1..m |-> NewBranch(Len(bs) + pos[k] - 1)])
    BY <1>2
  <1> DEFINE fresh == [k \in 1..m |-> NewBranch(Len(bs) + pos[k] - 1)]
  <1>4. n \in Nat /\ n \in 1..Len(ts) /\ m \in Nat
    OBVIOUS
  <1>5. fresh \in Seq(Branch)
    <2>1. \A k \in 1..m : Len(bs) + pos[k] - 1 \in Nat
      BY <1>4
    <2>2. fresh \in [1..m -> Branch]
      BY <2>1, NewBranchType
    <2> QED BY <1>4, <2>2, FunctionIsSeq
  <1>6. LaunchGroup(r, bs, ts, n, fresh)
    BY <1>3
  <1> HIDE DEF fresh
  <1>7. CASE bs \o fresh = <<>> /\ n = Len(ts)
    <2>1. RespondAndFinish(<<>>, 480)
      BY <1>6, <1>7 DEF LaunchGroup
    <2>2. <<>> \in Seq(Branch) /\ 480 \in 200..699 /\ PendingIds(<<>>) = {}
      BY DEF PendingIds
    <2>3. finished' = TRUE /\ Stops(effects', PendingIds(<<>>))
      BY <2>1, <2>2, Finishing, ZenonT(40)
    <2> QED BY <2>2, <2>3
  <1>8. CASE ~(bs \o fresh = <<>> /\ n = Len(ts))
    <2>1. effects' = ForkEffects(r, fresh, n) /\ branches' = bs \o fresh
      BY <1>6, <1>8 DEF LaunchGroup
    <2>2. \A k \in DOMAIN fresh : fresh[k].id \in Forwards(effects')
      BY <1>5, <2>1, Forking
    <2>3. PendingIds(branches') \subseteq PendingIds(bs) \cup Forwards(effects')
      <3>1. PendingIds(bs \o fresh) \subseteq PendingIds(bs) \cup {fresh[k].id : k \in DOMAIN fresh}
        BY <1>5, PendingFork
      <3> QED BY <2>1, <2>2, <3>1, Zenon
    <2>4. Stops(effects', {})
      BY <1>5, <2>1, Forking, SparesStops
    <2> QED BY <2>3, <2>4
  <1> QED BY <1>7, <1>8

\* Fewer branches to stop are fewer than these.
LEMMA StopsMore ==
  ASSUME NEW es, NEW few, NEW many, Stops(es, few), few \subseteq many
  PROVE  Stops(es, many)
  BY DEF Stops

\* Final responses, as the context collects them.
Collected == [branch : Nat, status : 200..699]

\* The caller was told the best of these finals, for every branch that gave it.
ToldBest(fs) ==
    \E best \in {f.status : f \in fs} :
      /\ IsBestFinal(fs, best)
      /\ \/ best = 503 /\ Tells(effects', 500, {})
         \/ best # 503 /\ Tells(effects', best, SpeaksFor(fs, best))

\* select_and_answer ends the context; it tells the best final unless one was told before.
LEMMA Selecting ==
  ASSUME NEW bs \in Seq(Branch), NEW fs \in SUBSET Collected, SelectAndAnswer(bs, fs)
  PROVE  /\ answered' = TRUE /\ finished' = TRUE /\ Stops(effects', PendingIds(bs))
         /\ IF answered THEN Silent(effects') ELSE ToldBest(fs)
  <1>1. CASE answered
    <2>1. finished' = TRUE /\ answered' = answered /\ effects' = <<Terminate>>
      BY <1>1 DEF SelectAndAnswer
    <2>2. Silent(effects') /\ Stops(effects', PendingIds(bs))
      BY <2>1, Aside, SparesStops
    <2>3. answered' = TRUE
      BY <1>1 DEF SelectAndAnswer
    <2> QED BY <1>1, <2>1, <2>2, <2>3
  <1>2. CASE ~answered
    <2>1. PICK best \in {f.status : f \in fs} :
             /\ IsBestFinal(fs, best)
             /\ \/ best = 503 /\ RespondAndFinish(bs, 500)
                \/ /\ best # 503
                   /\ answered' = TRUE
                   /\ finished' = TRUE
                   /\ effects' = << Respond(best, SpeaksFor(fs, best)), Terminate >>
      BY <1>2 DEF SelectAndAnswer
    <2>2. best \in 200..699 /\ SpeaksFor(fs, best) \in SUBSET Nat
      <3>1. \A f \in fs : f.branch \in Nat /\ f.status \in 200..699
        BY SMTT(40) DEF Collected
      <3>2. SpeaksFor(fs, best) \in SUBSET Nat
        BY <3>1 DEF SpeaksFor
      <3>3. PICK f \in fs : best = f.status
        OBVIOUS
      <3>4. best \in 200..699
        BY <3>1, <3>3
      <3> QED BY <3>2, <3>4
    <2>3. CASE best = 503 /\ RespondAndFinish(bs, 500)
      <3>1. 500 \in 200..699
        OBVIOUS
      <3>2. /\ answered' = TRUE /\ finished' = TRUE
            /\ Tells(effects', 500, {}) /\ Stops(effects', PendingIds(bs))
        BY <2>3, <3>1, Finishing, ZenonT(40)
      <3> QED BY <1>2, <2>1, <2>3, <3>2 DEF ToldBest
    <2>4. CASE /\ best # 503 /\ answered' = TRUE /\ finished' = TRUE
               /\ effects' = << Respond(best, SpeaksFor(fs, best)), Terminate >>
      <3> DEFINE a == << Respond(best, SpeaksFor(fs, best)) >>
      <3>1. a \in Seq(Effect) /\ Tells(a, best, SpeaksFor(fs, best)) /\ Spares(a)
        BY <2>2, Telling, Zenon
      <3>2. effects' = a \o <<Terminate>>
        BY <2>4
      <3> HIDE DEF a
      <3>3. Tells(effects', best, SpeaksFor(fs, best)) /\ Stops(effects', PendingIds(bs))
        <4>1. Tells(effects', best, SpeaksFor(fs, best)) /\ Spares(effects')
          BY <3>1, <3>2, Aside, JoinLists, Zenon
        <4> QED BY <4>1, SparesStops
      <3> QED BY <1>2, <2>1, <2>4, <3>3 DEF ToldBest
    <2> QED BY <2>1, <2>3, <2>4
  <1> QED BY <1>1, <1>2

\* What follows the conclusion of a branch stops nothing else.
LEMMA ConclusionStops ==
  ASSUME IndInv, NEW id, NEW status \in 100..699, NEW fs \in SUBSET Collected,
         AfterConclusion(Conclude(branches, id, status), fs)
  PROVE  Stopping({id})
  <1> DEFINE bs == Conclude(branches, id, status)
  <1>1. branches \in Seq(Branch) /\ queued \in Seq(Target)
    BY DEF IndInv, TypeOK
  <1>2. bs \in Seq(Branch) /\ PendingIds(bs) \subseteq PendingIds(branches) \ {id}
    BY <1>1, ConcludeType, PendingConclude, ZenonT(40)
  <1> HIDE DEF bs
  <1>3. CASE HasPending(bs)
    <2>1. branches' = bs /\ effects' = <<>>
      BY <1>3 DEF AfterConclusion, bs
    <2>2. Stops(effects', {})
      BY <2>1, NoEffects, SparesStops
    <2>3. PendingIds(branches') \subseteq (PendingIds(branches) \ {id}) \cup Forwards(effects')
      BY <1>2, <2>1
    <2> QED BY <2>2, <2>3, IdleStops
  <1>4. CASE ~HasPending(bs) /\ MayForkNextGroup
    <2>1. ForkNextGroup(request, bs, queued)
      BY <1>4 DEF AfterConclusion, bs
    <2>2. /\ Stops(effects', {})
          /\ ~finished' => PendingIds(branches') \subseteq PendingIds(bs) \cup Forwards(effects')
      BY <1>1, <1>2, <2>1, ForkStops
    <2>3. ~finished' => PendingIds(branches') \subseteq
                           (PendingIds(branches) \ {id}) \cup Forwards(effects')
      BY <1>2, <2>2
    <2> QED BY <2>2, <2>3, IdleStops
  <1>5. CASE ~HasPending(bs) /\ ~MayForkNextGroup
    <2>1. SelectAndAnswer(bs, fs)
      BY <1>5 DEF AfterConclusion, bs
    <2>2. finished' = TRUE /\ Stops(effects', PendingIds(bs))
      BY <1>2, <2>1, Selecting
    <2>3. Stops(effects', PendingIds(branches))
      BY <1>2, <2>2, StopsMore
    <2> QED BY <2>2, <2>3, EndStops
  <1> QED BY <1>3, <1>4, <1>5

\* R5, R6: the other branches are cancelled, the caller is told.
LEMMA ConcludingStops ==
  ASSUME IndInv, NEW id \in Nat, NEW status \in 200..699, NEW fs,
         OnConcludingFinal(id, status, fs)
  PROVE  Stopping({id}) /\ Tells(effects', status, {id})
  <1> DEFINE concluded == Conclude(branches, id, status)
             ids == PendingIds(concluded)
             remaining == SetCancelling(concluded, ids)
             a == <<Respond(status, {id})>>
             b == CancelBranches(ids)
             c == IF status \div 100 = 6 /\ ~HasPending(remaining) THEN <<Terminate>> ELSE <<>>
  <1>0. branches \in Seq(Branch) /\ status \in 100..699 /\ {id} \in SUBSET Nat
    BY DEF IndInv, TypeOK
  <1>1. /\ concluded \in Seq(Branch)
        /\ ids \subseteq PendingIds(branches) \ {id}
    BY <1>0, ConcludeType, PendingConclude, ZenonT(40)
  <1>2. effects' = (a \o b) \o c /\ branches' = remaining
    BY DEF OnConcludingFinal
  <1>3. PendingIds(remaining) \subseteq ids \ ids
    <2> HIDE DEF concluded
    <2> QED BY <1>1, PendingCancelling
  <1>4. c \in Seq(Effect) /\ Silent(c) /\ Spares(c)
    <2> HIDE DEF remaining
    <2> QED BY Aside, NoEffects
  <1>5. a \in Seq(Effect) /\ Tells(a, status, {id}) /\ Spares(a)
    <2> HIDE DEF concluded, ids, remaining, b, c
    <2> QED BY <1>0, Telling
  <1>6. ids \in SUBSET Nat
    <2> HIDE DEF concluded
    <2> QED BY <1>1, IdsType
  <1>7. b \in Seq(Effect) /\ Silent(b) /\ Stops(b, ids)
    <2> HIDE DEF ids
    <2> QED BY <1>1, <1>6, Cancelling
  <1> HIDE DEF concluded, ids, remaining, a, b, c
  <1>8. a \o b \in Seq(Effect) /\ Tells(a \o b, status, {id}) /\ Stops(a \o b, ids)
    BY <1>5, <1>7, JoinLists, Zenon
  <1>9. Tells(effects', status, {id}) /\ Stops(effects', ids)
    BY <1>2, <1>4, <1>8, JoinLists, Zenon
  <1>10. /\ ids \subseteq PendingIds(branches)
         /\ PendingIds(branches') \subseteq PendingIds(branches) \ ({id} \cup ids)
    BY <1>1, <1>2, <1>3
  <1> QED BY <1>9, <1>10, CancellingStops

\* R4: a provisional response is relayed; it may release the CANCEL of its branch.
LEMMA ProvisionalStops ==
  ASSUME IndInv, NEW id \in Nat, NEW status \in 100..199, OnProvisional(id, status)
  PROVE  Stopping({}) /\ Silent(effects')
  <1> DEFINE a == << Respond(status, {id}) >>
             b == IF request.method = "INVITE" THEN << SetTimerC(id) >> ELSE <<>>
             ids == Released(branches, id)
             c == CancelBranches(ids)
  <1>0. branches \in Seq(Branch) /\ {id} \in SUBSET Nat
    BY DEF IndInv, TypeOK
  <1>1. ids \in SUBSET Nat /\ ids \subseteq PendingIds(branches)
    <2>1. ids \subseteq PendingIds(branches)
      BY DEF Released, PendingIds
    <2> QED BY <1>0, <2>1, IdsType
  <1>2. effects' = (a \o b) \o c
    BY DEF OnProvisional
  <1>3. a \in Seq(Effect) /\ Silent(a) /\ Spares(a)
    <2> HIDE DEF b, ids, c
    <2> QED BY <1>0, Relaying
  <1>4. b \in Seq(Effect) /\ Silent(b) /\ Spares(b)
    BY Aside, NoEffects
  <1>5. c \in Seq(Effect) /\ Silent(c) /\ Stops(c, ids)
    <2> HIDE DEF ids
    <2> QED BY <1>1, Cancelling
  <1>6. PendingIds(branches') \subseteq PendingIds(branches) \ ({} \cup ids)
    <2> DEFINE ms == MarkProvisional(branches, id)
    <2>1. ms \in Seq(Branch) /\ PendingIds(ms) \subseteq PendingIds(branches)
      BY <1>0, MarkProvisionalType, PendingProvisional
    <2>2. branches' = SetCancelling(ms, ids)
      BY DEF OnProvisional
    <2> HIDE DEF ms, ids
    <2> QED BY <2>1, <2>2, PendingCancelling
  <1> HIDE DEF a, b, c, ids
  <1>7. a \o b \in Seq(Effect) /\ Silent(a \o b) /\ Spares(a \o b)
    BY <1>3, <1>4, JoinLists, Zenon
  <1>8. Silent(effects') /\ Stops(effects', ids)
    BY <1>2, <1>5, <1>7, JoinLists, Zenon
  <1> QED BY <1>1, <1>6, <1>8, CancellingStops

\* A target set is sorted and its first group goes out.
LEMMA TargetSetStops ==
  ASSUME IndInv, NEW r, NEW targets \in Seq(Target), OnTargetSet(r, targets)
  PROVE  Stopping({})
  <1>1. PICK p \in [1..Len(targets) -> 1..Len(targets)] :
           ForkNextGroup(r, branches, [k \in 1..Len(targets) |-> targets[p[k]]])
    BY DEF OnTargetSet
  <1> DEFINE sorted == [k \in 1..Len(targets) |-> targets[p[k]]]
  <1>2. sorted \in [1..Len(targets) -> Target]
    OBVIOUS
  <1>3. sorted \in Seq(Target)
    BY <1>2, FunctionIsSeq
  <1>4. ForkNextGroup(r, branches, sorted) /\ branches \in Seq(Branch)
    BY <1>1 DEF IndInv, TypeOK
  <1> HIDE DEF sorted
  <1>5. /\ Stops(effects', {})
        /\ ~finished' => PendingIds(branches') \subseteq PendingIds(branches) \cup Forwards(effects')
    BY <1>3, <1>4, ForkStops
  <1> QED BY <1>5, IdleStops

\* A final response concludes its branch.
LEMMA ResponseStops ==
  ASSUME IndInv, finals \subseteq Collected, NEW id \in BranchIds, NEW status \in 200..699,
         OnBranchResponse(id, status)
  PROVE  Stopping({id})
  <1> DEFINE final == [branch |-> id, status |-> status]
             failed == [branch |-> id, status |-> 503]
  <1>1. id \in Nat /\ status \in 100..699 /\ ~(status < 200)
    BY BranchFacts
  <1>2. finals \cup {final} \in SUBSET Collected /\ finals \cup {failed} \in SUBSET Collected
    <2>1. final \in Collected /\ failed \in Collected
      BY <1>1 DEF Collected
    <2> HIDE DEF final, failed
    <2> QED BY <2>1
  <1>3. \/ AfterConclusion(Conclude(branches, id, 503), finals \cup {failed})
        \/ OnConcludingFinal(id, status, finals)
        \/ OnConcludingFinal(id, status, finals \cup {final})
        \/ AfterConclusion(Conclude(branches, id, status), finals \cup {final})
    BY <1>1 DEF OnBranchResponse, OnSuccess, OnBranchFailure
  <1> HIDE DEF final, failed
  <1>4. CASE AfterConclusion(Conclude(branches, id, 503), finals \cup {failed})
    <2>1. 503 \in 100..699
      OBVIOUS
    <2> QED BY <1>2, <1>4, <2>1, ConclusionStops, ZenonT(40)
  <1>5. CASE AfterConclusion(Conclude(branches, id, status), finals \cup {final})
    BY <1>1, <1>2, <1>5, ConclusionStops, ZenonT(40)
  <1>6. ASSUME NEW fs, OnConcludingFinal(id, status, fs) PROVE Stopping({id})
    BY <1>1, <1>6, ConcludingStops, ZenonT(40)
  <1> QED BY <1>3, <1>4, <1>5, <1>6

\* A transport failure concludes its branch.
LEMMA FailureStops ==
  ASSUME IndInv, finals \subseteq Collected, NEW id \in BranchIds, OnBranchFailure(id)
  PROVE  Stopping({id})
  <1> DEFINE failed == [branch |-> id, status |-> 503]
  <1>1. id \in Nat /\ 503 \in 100..699
    BY BranchFacts
  <1>2. finals \cup {failed} \in SUBSET Collected
    <2>1. failed \in Collected
      BY <1>1 DEF Collected
    <2> HIDE DEF failed
    <2> QED BY <2>1
  <1>3. AfterConclusion(Conclude(branches, id, 503), finals \cup {failed})
    BY DEF OnBranchFailure
  <1> HIDE DEF failed
  <1> QED BY <1>1, <1>2, <1>3, ConclusionStops, ZenonT(40)

\* C1, C2: the caller's CANCEL stops the branches that were heard.
LEMMA WithdrawalStops ==
  ASSUME IndInv, OnUpstreamCancelled
  PROVE  Stopping({}) /\ Silent(effects')
  <1> DEFINE now == {b \in PendingIds(branches) :
                       \E k \in DOMAIN branches : /\ branches[k].id = b
                                                  /\ branches[k].state = "Pending"
                                                  /\ branches[k].sawProvisional}
             a == << Simple("AnswerCancel") >>
             b == CancelBranches(now)
  <1>0. branches \in Seq(Branch)
    BY DEF IndInv, TypeOK
  <1>1. now \in SUBSET Nat /\ now \subseteq PendingIds(branches)
    <2>1. PendingIds(branches) \in SUBSET Nat
      BY <1>0, IdsType
    <2> QED BY <2>1
  <1>2. effects' = a \o b
    BY DEF OnUpstreamCancelled
  <1>3. branches' = [k \in DOMAIN branches |->
                       IF branches[k].id \in now
                         THEN [branches[k] EXCEPT !.state = "Cancelling"]
                       ELSE IF branches[k].state = "Pending"
                         THEN [branches[k] EXCEPT !.cancelQueued = TRUE]
                       ELSE branches[k]]
    BY DEF OnUpstreamCancelled
  <1> HIDE DEF now
  <1>4. ASSUME NEW k \in DOMAIN branches
        PROVE  /\ branches'[k].id = branches[k].id
               /\ branches'[k].state = "Pending" =>
                    branches[k].state = "Pending" /\ branches[k].id \notin now
    <2>0. branches[k] \in Branch
      BY <1>0
    <2>1. CASE branches[k].id \in now
      <3>1. branches'[k] = [branches[k] EXCEPT !.state = "Cancelling"]
        BY <1>3, <2>1
      <3>2. branches'[k].id = branches[k].id
        BY <2>0, <3>1, Zenon DEF Branch
      <3>3. branches'[k].state = "Cancelling"
        BY <2>0, <3>1, Zenon DEF Branch
      <3> QED BY <3>2, <3>3
    <2>2. CASE branches[k].id \notin now /\ branches[k].state = "Pending"
      <3>1. branches'[k] = [branches[k] EXCEPT !.cancelQueued = TRUE]
        BY <1>3, <2>2
      <3>2. branches'[k].id = branches[k].id
        BY <2>0, <3>1, Zenon DEF Branch
      <3> QED BY <2>2, <3>2
    <2>3. CASE branches[k].id \notin now /\ branches[k].state # "Pending"
      BY <1>3, <2>3
    <2> QED BY <2>1, <2>2, <2>3
  <1>5. DOMAIN branches' = DOMAIN branches
    BY <1>3
  <1>6. PendingIds(branches') \subseteq PendingIds(branches) \ ({} \cup now)
    BY <1>4, <1>5 DEF PendingIds
  <1>7. a \in Seq(Effect) /\ Silent(a) /\ Spares(a)
    BY Aside
  <1>8. b \in Seq(Effect) /\ Silent(b) /\ Stops(b, now)
    BY <1>1, Cancelling
  <1> HIDE DEF a, b
  <1>9. Silent(effects') /\ Stops(effects', now)
    BY <1>2, <1>7, <1>8, JoinLists, Zenon
  <1> QED BY <1>1, <1>6, <1>9, CancellingStops

\* C5, C6: Timer C cancels a branch that was heard and concludes one that was not.
LEMMA TimerStops ==
  ASSUME IndInv, finals \subseteq Collected, NEW id, OnTimerC(id)
  PROVE  Stopping({})
  <1>0. branches \in Seq(Branch)
    BY DEF IndInv, TypeOK
  <1>1. id \in BranchIds /\ id \in PendingIds(branches)
    BY DEF OnTimerC, BranchIds, PendingIds
  <1>2. id \in Nat
    BY <1>1, BranchFacts
  <1>3. CASE branches' = SetCancelling(branches, {id}) /\ effects' = CancelBranches({id})
    <2>1. {id} \in SUBSET Nat /\ {id} \subseteq PendingIds(branches)
      BY <1>1, <1>2
    <2>2. Stops(effects', {id})
      BY <1>3, <2>1, Cancelling
    <2>3. PendingIds(branches') \subseteq PendingIds(branches) \ ({} \cup {id})
      BY <1>0, <1>3, PendingCancelling
    <2> QED BY <2>1, <2>2, <2>3, CancellingStops
  <1>4. CASE AfterConclusion(Conclude(branches, id, 408), finals \cup {[branch |-> id, status |-> 408]})
    <2> DEFINE silence == [branch |-> id, status |-> 408]
    <2>1. finals \cup {silence} \in SUBSET Collected
      <3>1. silence \in Collected
        BY <1>2 DEF Collected
      <3> HIDE DEF silence
      <3> QED BY <3>1
    <2>2. 408 \in 100..699 /\ AfterConclusion(Conclude(branches, id, 408), finals \cup {silence})
      BY <1>4
    <2> HIDE DEF silence
    <2>3. Stopping({id})
      BY <2>1, <2>2, ConclusionStops, ZenonT(40)
    <2>4. PICK ids \in SUBSET PendingIds(branches) :
            /\ Stops(effects', ids)
            /\ ~finished' => PendingIds(branches') \subseteq
                               (PendingIds(branches) \ ({id} \cup ids)) \cup Forwards(effects')
      BY <2>3 DEF Stopping
    <2> QED BY <2>4 DEF Stopping
  <1> QED BY <1>3, <1>4 DEF OnTimerC

\* route_it stops nothing.
LEMMA RouteItStops ==
  ASSUME IndInv, NEW r, RouteIt(r)
  PROVE  Stopping({})
  <1>0. branches \in Seq(Branch)
    BY DEF IndInv, TypeOK
  <1>1. CASE Predetermined(r)
    <2>1. OnTargetSet(r, <<SoleTarget>>) /\ <<SoleTarget>> \in Seq(Target)
      BY <1>1 DEF RouteIt, SoleTarget, Target
    <2> QED BY <2>1, TargetSetStops
  <1>2. CASE ~Predetermined(r)
    <2>1. effects' = <<Simple("ResolveTargets")>> /\ branches' = branches
      BY <1>2 DEF RouteIt
    <2>2. Stops(effects', {})
      BY <2>1, Aside, SparesStops
    <2> QED BY <2>1, <2>2, IdleStops
  <1> QED BY <1>1, <1>2

\* The questions put to the driver, and its answers to them, stop nothing.
LEMMA OpeningStops ==
  ASSUME IndInv,
         \/ \E r \in Requests : OnUpstream(r)
         \/ \E v \in {"valid", "invalid"} : OnToken(v)
         \/ \E targets \in TargetSets : OnTargets(targets)
         \/ OnTargetsUnavailable
  PROVE  Stopping({})
  <1>0. branches \in Seq(Branch)
    BY DEF IndInv, TypeOK
  <1>e. ASSUME NEW status \in 200..699, RespondAndFinish(branches, status)
        PROVE  Stopping({})
    <2>1. finished' = TRUE /\ Stops(effects', PendingIds(branches))
      BY <1>0, <1>e, Finishing, ZenonT(40)
    <2> QED BY <2>1, EndStops
  <1>1. ASSUME NEW r \in Requests, OnUpstream(r) PROVE Stopping({})
    <2>1. CASE Refuse(r)
      <3>1. PICK v \in 1..6 :
              /\ effects' = IF RefusalStatus[v] = 0
                              THEN <<Terminate>>
                              ELSE <<Respond(RefusalStatus[v], {}), Terminate>>
              /\ finished' = TRUE
        BY <2>1 DEF Refuse
      <3>2. RefusalStatus[v] = 0 \/ RefusalStatus[v] \in 200..699
        BY DEF RefusalStatus
      <3>3. Stops(effects', PendingIds(branches))
        <4>1. CASE RefusalStatus[v] = 0
          BY <3>1, <4>1, Aside, SparesStops
        <4>2. CASE RefusalStatus[v] \in 200..699
          <5> DEFINE a == <<Respond(RefusalStatus[v], {})>>
          <5>1. {} \in SUBSET Nat
            OBVIOUS
          <5>2. a \in Seq(Effect) /\ Spares(a)
            BY <4>2, <5>1, Telling, Zenon
          <5>3. effects' = a \o <<Terminate>>
            BY <3>1, <4>2
          <5> HIDE DEF a
          <5>4. Spares(effects')
            BY <5>2, <5>3, Aside, JoinLists, Zenon
          <5> QED BY <5>4, SparesStops
        <4> QED BY <3>2, <4>1, <4>2
      <3> QED BY <3>1, <3>3, EndStops
    <2>2. CASE ~Refuse(r) /\ Carriage(r)
      <3>1. effects' = <<Simple("VerifyToken")>> /\ branches' = branches
        BY <1>1, <2>2 DEF OnUpstream
      <3>2. Stops(effects', {})
        BY <3>1, Aside, SparesStops
      <3> QED BY <3>1, <3>2, IdleStops
    <2>3. CASE ~Refuse(r) /\ ~Carriage(r)
      <3>1. RouteIt(Preprocess(r))
        BY <1>1, <2>3 DEF OnUpstream
      <3> QED BY <3>1, RouteItStops
    <2> QED BY <2>1, <2>2, <2>3
  <1>2. ASSUME NEW v \in {"valid", "invalid"}, OnToken(v) PROVE Stopping({})
    <2>1. RouteIt(request) \/ RespondAndFinish(branches, 403)
      BY <1>2 DEF OnToken
    <2>2. 403 \in 200..699
      OBVIOUS
    <2> QED BY <1>e, <2>1, <2>2, RouteItStops
  <1>3. ASSUME NEW targets \in TargetSets, OnTargets(targets) PROVE Stopping({})
    <2>1. RespondAndFinish(branches, 480) \/ OnTargetSet(request, targets)
      BY <1>3 DEF OnTargets
    <2>2. 480 \in 200..699 /\ targets \in Seq(Target)
      BY TargetSetsAssumption
    <2> QED BY <1>e, <2>1, <2>2, TargetSetStops
  <1>4. CASE OnTargetsUnavailable
    <2>1. RespondAndFinish(branches, 503) /\ 503 \in 200..699
      BY <1>4 DEF OnTargetsUnavailable
    <2> QED BY <1>e, <2>1
  <1> QED BY <1>1, <1>2, <1>3, <1>4

-----------------------------------------------------------------------------
(* What the driver's performing of the effects does *)

\* The fields of effects.
LEMMA EffectFields ==
  ASSUME NEW e \in Effect
  PROVE  /\ e.kind = "Forward" => e.id \in Nat /\ e.share \in Nat
         /\ e.kind = "Respond" => e.status \in 100..699
  <1>1. CASE e \in [kind : {"Respond"}, status : 100..699, from : SUBSET Nat]
    BY <1>1
  <1>2. CASE e \in [kind : {"Forward"}, id : Nat, share : Nat, recordRoutes : 0..2]
    BY <1>2
  <1>3. CASE e \in [kind : {"SetTimer"}, id : Nat]
    BY <1>3
  <1>4. CASE e \in [kind : {"CancelBranch"}, ids : SUBSET Nat]
    BY <1>4
  <1>5. CASE e \in [kind : {"Terminate", "AnswerCancel", "ResolveTargets", "VerifyToken"}]
    BY <1>5
  <1> QED BY <1>1, <1>2, <1>3, <1>4, <1>5 DEF Effect

\* The CANCELs among the effects that name a branch: one at most, when none is sent twice.
LEMMA CancelsOnce ==
  ASSUME NEW es \in Seq(Effect), NEW b
  PROVE  /\ CancelsOf(es, b) \in Nat
         /\ \A ids : Stops(es, ids) =>
              CancelsOf(es, b) = 0 \/ (b \in ids /\ CancelsOf(es, b) = 1)
  <1> DEFINE at == {k \in DOMAIN es : es[k].kind = "CancelBranch" /\ b \in es[k].ids}
  <1>1. CancelsOf(es, b) = Cardinality(at)
    BY DEF CancelsOf
  <1>2. IsFiniteSet(at)
    <2>1. IsFiniteSet(DOMAIN es)
      <3>1. DOMAIN es = 1..Len(es) /\ Len(es) \in Nat
        OBVIOUS
      <3> QED BY <3>1, FS_Interval
    <2>2. at \subseteq DOMAIN es
      OBVIOUS
    <2> QED BY <2>1, <2>2, FS_Subset
  <1>3. Cardinality(at) \in Nat
    BY <1>2, FS_CardinalityType
  <1>4. ASSUME NEW ids, Stops(es, ids)
        PROVE  Cardinality(at) = 0 \/ (b \in ids /\ Cardinality(at) = 1)
    <2>1. CASE at = {}
      BY <2>1, FS_EmptySet
    <2>2. CASE at # {}
      <3>1. PICK k \in at : TRUE
        BY <2>2
      <3>2. \A j \in at : j = k
        BY <1>4, <3>1, Zenon DEF Stops
      <3>3. at = {k}
        <4> HIDE DEF at
        <4> QED BY <3>1, <3>2
      <3>4. b \in ids
        BY <1>4, <3>1 DEF Stops
      <3>5. Cardinality({k}) = 1
        BY FS_Singleton
      <3> QED BY <3>3, <3>4, <3>5
    <2> QED BY <2>1, <2>2
  <1> QED BY <1>1, <1>3, <1>4

\* The client transactions after the effects: those launched start anew, the others stay
\* as the input left them, or are sent a CANCEL.
LEMMA Performed ==
  ASSUME NEW D, NEW cl \in [D -> Client], effects' \in Seq(Effect), NEW ts, NEW hd,
         Perform(cl, ts, hd)
  PROVE  /\ client' \in [D \cup Forwards(effects') -> Client]
         /\ \A b \in Forwards(effects') : client'[b].phase = "calling" /\ client'[b].cancels = 0
         /\ \A b \in D \ Forwards(effects') : client'[b].phase = cl[b].phase
         /\ \A ids : Stops(effects', ids) =>
              \A b \in D \ Forwards(effects') :
                \/ client'[b].cancels = cl[b].cancels
                \/ b \in ids /\ client'[b].cancels = cl[b].cancels + 1
  <1> DEFINE L == Forwards(effects')
             sent(b) == CancelsOf(effects', b)
             new(b) == [phase |-> "calling", cancels |-> 0, provisionals |-> 0,
                        share |-> (CHOOSE e \in EffectsOf("Forward") : e.id = b).share]
             told(b) == [cl[b] EXCEPT !.cancels = cl[b].cancels + sent(b)]
  <1>1. L = {e.id : e \in EffectsOf("Forward")}
    BY DEF Forwards, EffectsOf
  <1>2. client' = [b \in D \cup L |-> IF b \in L THEN new(b) ELSE told(b)]
    <2>1. DOMAIN cl = D
      OBVIOUS
    <2> QED BY <1>1, <2>1, Zenon DEF Perform
  <1>3. ASSUME NEW b \in L PROVE new(b) \in Client
    <2> DEFINE e == CHOOSE e \in EffectsOf("Forward") : e.id = b
    <2>1. \E e0 \in EffectsOf("Forward") : e0.id = b
      BY <1>1, <1>3
    <2>2. e \in EffectsOf("Forward")
      BY <2>1
    <2> HIDE DEF e
    <2>3. PICK k \in DOMAIN effects' : effects'[k].kind = "Forward" /\ e = effects'[k]
      BY <2>2 DEF EffectsOf
    <2>4. effects'[k] \in Effect
      BY <2>3
    <2>5. e.share \in Nat
      BY <2>3, <2>4, EffectFields
    <2>6. 0 \in 0..MaxProvisionals
      BY ProvisionalsAssumption
    <2>7. [phase |-> "calling", cancels |-> 0, provisionals |-> 0, share |-> e.share] \in Client
      BY <2>5, <2>6 DEF Client
    <2> QED BY <2>7 DEF e
  <1>4. ASSUME NEW c \in Client, NEW more \in Nat
        PROVE  /\ [c EXCEPT !.cancels = more] \in Client
               /\ [c EXCEPT !.cancels = more].phase = c.phase
               /\ [c EXCEPT !.cancels = more].cancels = more
    <2>1. [c EXCEPT !.cancels = more] \in Client
      BY ZenonT(60) DEF Client
    <2>2. [c EXCEPT !.cancels = more].phase = c.phase
      BY Zenon DEF Client
    <2>3. [c EXCEPT !.cancels = more].cancels = more
      BY Zenon DEF Client
    <2> QED BY <2>1, <2>2, <2>3
  <1>5. \A b : new(b).phase = "calling" /\ new(b).cancels = 0
    OBVIOUS
  <1>6. \A b : sent(b) \in Nat
    BY CancelsOnce
  <1>7. \A b \in D : cl[b] \in Client /\ cl[b].cancels \in Nat
    BY DEF Client
  <1>8. ASSUME NEW b \in D
        PROVE  /\ told(b) \in Client /\ told(b).phase = cl[b].phase
               /\ told(b).cancels = cl[b].cancels + sent(b)
    <2> DEFINE more == cl[b].cancels + sent(b)
    <2>1. more \in Nat
      BY <1>6, <1>7
    <2> HIDE DEF more
    <2>2. /\ [cl[b] EXCEPT !.cancels = more] \in Client
          /\ [cl[b] EXCEPT !.cancels = more].phase = cl[b].phase
          /\ [cl[b] EXCEPT !.cancels = more].cancels = more
      BY <1>4, <1>7, <2>1
    <2> QED BY <2>2, Zenon DEF more
  <1> HIDE DEF L, sent, new, told
  <1>9. client' \in [D \cup L -> Client]
    <2>1. ASSUME NEW b \in D \cup L
          PROVE  IF b \in L THEN new(b) \in Client ELSE told(b) \in Client
      BY <1>3, <1>8
    <2> QED BY <1>2, <2>1
  <1>10. \A b \in L : client'[b].phase = "calling" /\ client'[b].cancels = 0
    <2> SUFFICES ASSUME NEW b \in L
                 PROVE  client'[b].phase = "calling" /\ client'[b].cancels = 0
      OBVIOUS
    <2>1. client'[b] = new(b)
      BY <1>2
    <2> QED BY <1>5, <2>1, Zenon
  <1>11. \A b \in D \ L : client'[b] = told(b)
    BY <1>2
  <1>12. \A b \in D \ L : client'[b].phase = cl[b].phase
    <2> SUFFICES ASSUME NEW b \in D \ L PROVE client'[b].phase = cl[b].phase
      OBVIOUS
    <2> QED BY <1>8, <1>11, Zenon
  <1>13. ASSUME NEW ids, Stops(effects', ids), NEW b \in D \ L
         PROVE  \/ client'[b].cancels = cl[b].cancels
                \/ b \in ids /\ client'[b].cancels = cl[b].cancels + 1
    <2>1. client'[b].cancels = cl[b].cancels + sent(b)
      BY <1>8, <1>11, Zenon
    <2>2. sent(b) = 0 \/ (b \in ids /\ sent(b) = 1)
      BY <1>13, CancelsOnce DEF sent
    <2>3. cl[b].cancels \in Nat
      BY <1>7
    <2>4. cl[b].cancels + 0 = cl[b].cancels
      BY <2>3
    <2> QED BY <2>1, <2>2, <2>4, Zenon
  <1> QED BY <1>9, <1>10, <1>12, <1>13 DEF L

\* The finals the caller has been sent.
Sent == Seq(200..699)

\* A final response has the status of one.
LEMMA FinalStatus ==
  ASSUME NEW es \in Seq(Effect), NEW k \in FinalsAt(es)
  PROVE  es[k].status \in 200..699
  <1>1. k \in DOMAIN es /\ es[k].kind = "Respond" /\ es[k].status >= 200
    BY DEF FinalsAt
  <1>2. es[k] \in Effect
    BY <1>1
  <1>3. es[k].status \in 100..699
    BY <1>1, <1>2, EffectFields
  <1>4. PICK status \in 100..699 : status = es[k].status
    BY <1>3
  <1>5. status >= 200
    BY <1>1, <1>4, Zenon
  <1>6. status \in 200..699
    BY <1>5
  <1> QED BY <1>4, <1>6, Zenon

\* What the caller hears of a call.
LEMMA Replied ==
  ASSUME upstream \in Sent, effects' \in Seq(Effect), Reply
  PROVE  /\ upstream' \in Sent
         /\ Silent(effects') => upstream' = upstream
         /\ \A status, from : Tells(effects', status, from) => upstream' = Append(upstream, status)
  <1> DEFINE at == FinalsAt(effects')
             c == Cardinality(at)
  <1>1. PICK order \in [1..c -> at] :
           upstream' = upstream \o [k \in 1..c |-> effects'[order[k]].status]
    BY DEF Reply
  <1> DEFINE told == [k \in 1..c |-> effects'[order[k]].status]
  <1>2. \A k \in at : effects'[k].status \in 200..699
    BY FinalStatus
  <1>3. c \in Nat
    <2>1. IsFiniteSet(DOMAIN effects')
      BY FS_Interval
    <2>2. at \subseteq DOMAIN effects'
      BY DEF FinalsAt
    <2> QED BY <2>1, <2>2, FS_Subset, FS_CardinalityType
  <1>4. told \in Sent /\ Len(told) = c
    <2>1. told \in [1..c -> 200..699]
      <3> HIDE DEF at
      <3> QED BY <1>2
    <2> HIDE DEF c, told
    <2>2. told \in Seq(200..699) /\ Len(told) = c
      BY <1>3, <2>1, FunctionIsSeq
    <2> QED BY <2>2 DEF Sent
  <1>5. upstream' = upstream \o told /\ upstream' \in Sent
    <2>1. upstream' = upstream \o told
      BY <1>1
    <2> HIDE DEF told
    <2> QED BY <1>4, <2>1 DEF Sent
  <1>6. ASSUME Silent(effects') PROVE upstream' = upstream
    <2>1. c = 0
      BY <1>6, FS_EmptySet DEF Silent
    <2> HIDE DEF told
    <2>2. told = <<>>
      BY <1>4, <2>1 DEF Sent
    <2> QED BY <1>5, <2>2 DEF Sent
  <1>7. ASSUME NEW status, NEW from, Tells(effects', status, from)
        PROVE  upstream' = Append(upstream, status)
    <2>1. at = {1} /\ effects'[1] = Respond(status, from)
      BY <1>7 DEF Tells
    <2>2. c = 1
      BY <2>1, FS_Singleton
    <2>3. order[1] = 1
      BY <2>1, <2>2
    <2>4. told[1] = status
      BY <2>1, <2>2, <2>3 DEF Respond
    <2> HIDE DEF told
    <2>5. told = <<status>>
      BY <1>4, <2>2, <2>4 DEF Sent
    <2> QED BY <1>5, <2>5 DEF Sent
  <1> QED BY <1>5, <1>6, <1>7

-----------------------------------------------------------------------------
(* The invariant *)

\* While the context is open, every branch it has neither heard the end of nor cancelled has a
\* client transaction that is still open and was sent no CANCEL.
PendingIsLive ==
    ~finished =>
      \A b \in PendingIds(branches) : b \in DOMAIN client /\ Live(b) /\ client[b].cancels = 0

\* C7: a request withdrawn after it was routed has no target left to try.
WithdrawnIsConcluded ==
    withdrawn = "forking" =>
      request # NoRequest /\ asked = "none" /\ (finished \/ queued = <<>>)

TransactionInv ==
    /\ IndInv
    /\ finals \subseteq Collected
    /\ client \in [DOMAIN client -> Client]
    /\ upstream \in Sent
    /\ PendingIsLive
    /\ WithdrawnIsConcluded

\* One call of the engine, as the driver, the kernel and the caller cause it.
EngineCall ==
    \/ TokensMinted
    \/ \E r \in Requests : OnUpstream(r)
    \/ \E v \in {"valid", "invalid"} : OnToken(v)
    \/ \E targets \in TargetSets : OnTargets(targets)
    \/ OnTargetsUnavailable
    \/ \E id \in BranchIds, status \in 100..699 : OnBranchResponse(id, status)
    \/ \E id \in BranchIds : OnBranchFailure(id)
    \/ \E id \in BranchIds : OnTimerC(id)
    \/ OnUpstreamCancelled
    \/ Ignore

LEMMA IsEngineCall ==
  ASSUME NextAll, ~Quiet
  PROVE  EngineCall
  <1>1. \A id, status : OnBranchResponse(id, status) => id \in BranchIds
    BY DEF OnBranchResponse, Known, BranchIds
  <1>2. \A id : OnBranchFailure(id) => id \in BranchIds
    BY DEF OnBranchFailure, Known, BranchIds
  <1>3. \A id : OnTimerC(id) => id \in BranchIds
    BY DEF OnTimerC, BranchIds
  <1>4. ASSUME NEW id, NEW status \in 100..699, Deliver(OnBranchResponse(id, status))
        PROVE  EngineCall
    <2>1. Ignore \/ OnBranchResponse(id, status)
      BY <1>4 DEF Deliver
    <2> QED BY <1>1, <2>1 DEF EngineCall
  <1>5. ASSUME NEW id, OnBranch(id) PROVE EngineCall
    <2>1. CASE HearTrying(id)
      BY <2>1 DEF HearTrying, EngineCall
    <2>2. ASSUME NEW status \in Codes, HearProvisional(id, status) \/ HearFinal(id, status)
          PROVE  EngineCall
      <3>1. status \in 100..699
        BY CodesAssumption
      <3>2. Deliver(OnBranchResponse(id, status))
        BY <2>2 DEF HearProvisional, HearFinal
      <3> QED BY <1>4, <3>1, <3>2
    <2>3. CASE KernelTimeout(id)
      <3>1. Deliver(OnBranchResponse(id, 408)) /\ 408 \in 100..699
        BY <2>3 DEF KernelTimeout
      <3> QED BY <1>4, <3>1
    <2>4. CASE TransportFails(id)
      <3>1. Ignore \/ OnBranchFailure(id)
        BY <2>4 DEF TransportFails, Deliver
      <3> QED BY <1>2, <3>1 DEF EngineCall
    <2>5. CASE TimerCFires(id)
      <3>1. Ignore \/ OnTimerC(id)
        BY <2>5 DEF TimerCFires
      <3> QED BY <1>3, <3>1 DEF EngineCall
    <2> QED BY <1>5, <2>1, <2>2, <2>3, <2>4, <2>5 DEF OnBranch
  <1>6. CASE CallerCancels
    BY <1>6 DEF CallerCancels, EngineCall
  <1>7. CASE Resolve
    BY <1>7 DEF Resolve, EngineCall
  <1>8. CASE Mint \/ (\E r \in Requests : Receive(r)) \/ (\E v \in {"valid", "invalid"} : Verify(v))
    BY <1>8 DEF Mint, Receive, Verify, EngineCall
  <1> QED BY <1>5, <1>6, <1>7, <1>8 DEF NextAll

\* A call of the engine keeps its invariant, collects finals only and launches nothing once
\* the caller is answered.
LEMMA EngineKeeps ==
  ASSUME IndInv, EngineCall
  PROVE  IndInv' /\ (answered => ~Launches(effects'))
  <1>1. CASE TokensMinted
    BY <1>1, MintedInv
  <1>2. CASE \E r \in Requests : OnUpstream(r)
    BY <1>2, UpstreamInv
  <1>3. CASE \E v \in {"valid", "invalid"} : OnToken(v)
    BY <1>3, TokenInv
  <1>4. CASE \E targets \in TargetSets : OnTargets(targets)
    BY <1>4, TargetsInv
  <1>5. CASE OnTargetsUnavailable
    BY <1>5, UnavailableInv
  <1>6. CASE \E id \in BranchIds, status \in 100..699 : OnBranchResponse(id, status)
    BY <1>6, ResponseInv
  <1>7. CASE \E id \in BranchIds : OnBranchFailure(id)
    BY <1>7, FailureInv
  <1>8. CASE \E id \in BranchIds : OnTimerC(id)
    BY <1>8, TimerInv
  <1>9. CASE OnUpstreamCancelled
    BY <1>9, CancelledInv
  <1>10. CASE Ignore
    BY <1>10, IgnoreInv
  <1> QED BY <1>1, <1>2, <1>3, <1>4, <1>5, <1>6, <1>7, <1>8, <1>9, <1>10 DEF EngineCall

\* A final response of a branch can be collected.
LEMMA OneFinal ==
  ASSUME NEW id \in Nat, NEW status \in 200..699
  PROVE  [branch |-> id, status |-> status] \in Collected
  BY DEF Collected

\* The call collects at most this final; a branch concludes with it.
Collects(id, status) == finals' \subseteq finals \cup {[branch |-> id, status |-> status]}
Concludes(id, status) ==
    AfterConclusion(Conclude(branches, id, status),
                    finals \cup {[branch |-> id, status |-> status]})

\* A final is collected with the status it came with, a failed branch with a 503 and a
\* silent one with a 408.
LEMMA EngineCollects ==
  ASSUME IndInv, finals \subseteq Collected, EngineCall
  PROVE  finals' \subseteq Collected
  <1>1. ASSUME NEW id \in Nat, NEW status \in 200..699, Collects(id, status)
        PROVE  finals' \subseteq Collected
    <2> DEFINE final == [branch |-> id, status |-> status]
    <2>1. final \in Collected
      BY OneFinal, ZenonT(40)
    <2>2. finals' \subseteq finals \cup {final}
      BY <1>1 DEF Collects
    <2> HIDE DEF final
    <2> QED BY <2>1, <2>2
  <1>2. ASSUME NEW id \in BranchIds, NEW status \in 100..699, OnBranchResponse(id, status)
        PROVE  finals' \subseteq Collected
    <2>0. id \in Nat
      BY BranchFacts
    <2>1. CASE status < 200
      <3>1. finals' = finals
        BY <1>2, <2>1 DEF OnBranchResponse, OnProvisional, OnSuccess
      <3> QED BY <3>1
    <2>2. CASE status >= 200
      <3>1. Collects(id, 503) \/ Collects(id, status)
        <4> DEFINE fs == finals \cup {[branch |-> id, status |-> status]}
        <4>1. \/ OnBranchFailure(id) \/ OnConcludingFinal(id, status, finals)
              \/ OnConcludingFinal(id, status, fs)
              \/ AfterConclusion(Conclude(branches, id, status), fs)
          BY <1>2, <2>2 DEF OnBranchResponse, OnSuccess
        <4>2. OnBranchFailure(id) => Collects(id, 503)
          BY DEF OnBranchFailure, OnConcludingFinal, AfterConclusion, Collects, Ignore
        <4>3. /\ OnConcludingFinal(id, status, finals) => Collects(id, status)
              /\ OnConcludingFinal(id, status, fs) => Collects(id, status)
          BY DEF OnConcludingFinal, Collects
        <4>4. AfterConclusion(Conclude(branches, id, status), fs) => Collects(id, status)
          BY DEF AfterConclusion, Collects
        <4> QED BY <4>1, <4>2, <4>3, <4>4
      <3>2. 503 \in 200..699 /\ status \in 200..699
        BY <2>2
      <3> QED BY <1>1, <2>0, <3>1, <3>2, ZenonT(40)
    <2> QED BY <2>1, <2>2
  <1>3. ASSUME NEW id \in BranchIds, OnBranchFailure(id)
        PROVE  finals' \subseteq Collected
    <2>1. id \in Nat /\ 503 \in 200..699
      BY BranchFacts
    <2>2. Collects(id, 503)
      BY <1>3 DEF OnBranchFailure, AfterConclusion, Collects
    <2> QED BY <1>1, <2>1, <2>2, ZenonT(40)
  <1>4. ASSUME NEW id \in BranchIds, OnTimerC(id)
        PROVE  finals' \subseteq Collected
    <2>1. id \in Nat /\ 408 \in 200..699
      BY BranchFacts
    <2>2. Collects(id, 408)
      BY <1>4 DEF OnTimerC, AfterConclusion, Collects
    <2> QED BY <1>1, <2>1, <2>2, ZenonT(40)
  <1>5. CASE \/ TokensMinted \/ (\E r \in Requests : OnUpstream(r))
             \/ (\E v \in {"valid", "invalid"} : OnToken(v))
             \/ (\E targets \in TargetSets : OnTargets(targets))
             \/ OnTargetsUnavailable \/ OnUpstreamCancelled \/ Ignore
    <2>1. finals' = finals
      BY <1>5 DEF TokensMinted, OnUpstream, Refuse, OnToken, OnTargets, OnTargetsUnavailable,
                  OnUpstreamCancelled, Ignore
    <2> QED BY <2>1
  <1> QED BY <1>2, <1>3, <1>4, <1>5, SMTT(40) DEF EngineCall

\* R5, R6: a relayed final launches nothing.
LEMMA ConcludingLaunches ==
  ASSUME IndInv, NEW id \in Nat, NEW status \in 200..699, NEW fs,
         OnConcludingFinal(id, status, fs)
  PROVE  ~Launches(effects')
  <1> DEFINE concluded == Conclude(branches, id, status)
             ids == PendingIds(concluded)
             remaining == SetCancelling(concluded, ids)
             a == <<Respond(status, {id})>>
             b == CancelBranches(ids)
             c == IF status \div 100 = 6 /\ ~HasPending(remaining) THEN <<Terminate>> ELSE <<>>
  <1>0. branches \in Seq(Branch) /\ status \in 100..699 /\ {id} \in SUBSET Nat
    BY DEF IndInv, TypeOK
  <1>1. concluded \in Seq(Branch)
    BY <1>0, ConcludeType, ZenonT(40)
  <1>2. effects' = (a \o b) \o c
    BY DEF OnConcludingFinal
  <1>3. c \in Seq(Effect) /\ ~Launches(c)
    <2> HIDE DEF remaining
    <2> QED BY SimpleEffects, EmptyEffects
  <1>4. a \in Seq(Effect) /\ ~Launches(a)
    <2> HIDE DEF concluded, ids, remaining, b, c
    <2> QED BY <1>0, RespondEffect, Zenon
  <1>5. b \in Seq(Effect) /\ ~Launches(b)
    <2>1. ids \in SUBSET Nat
      <3> HIDE DEF concluded
      <3> QED BY <1>1, IdsType
    <2> HIDE DEF ids
    <2> QED BY <2>1, CancelEffects
  <1> HIDE DEF concluded, ids, remaining, a, b, c
  <1>6. a \o b \in Seq(Effect) /\ ~Launches(a \o b)
    BY <1>4, <1>5, ConcatEffects
  <1> QED BY <1>2, <1>3, <1>6, ConcatEffects

\* With no target left, an open context with no question to the driver launches nothing more,
\* whatever it is told, and stays like that.
LEMMA NothingMoreToTry ==
  ASSUME IndInv, finals \subseteq Collected, request # NoRequest, asked = "none",
         finished \/ queued = <<>>, EngineCall
  PROVE  /\ ~Launches(effects')
         /\ request' = request /\ asked' = "none" /\ (finished' \/ queued' = <<>>)
  <1>1. ASSUME NEW bs \in Seq(Branch), NEW fs \in SUBSET Collected, ~finished,
               AfterConclusion(bs, fs)
        PROVE  /\ ~Launches(effects')
               /\ request' = request /\ asked' = "none" /\ (finished' \/ queued' = <<>>)
    <2>1. request' = request /\ asked' = "none"
      BY <1>1 DEF AfterConclusion
    <2>2. ~MayForkNextGroup
      BY <1>1 DEF MayForkNextGroup
    <2>3. queued' = queued
      BY <1>1, <2>2 DEF AfterConclusion
    <2>4. CASE HasPending(bs)
      <3>1. effects' = <<>>
        BY <1>1, <2>4 DEF AfterConclusion
      <3> QED BY <1>1, <2>1, <2>3, <3>1, EmptyEffects
    <2>5. CASE ~HasPending(bs)
      <3>1. SelectAndAnswer(bs, fs)
        BY <1>1, <2>2, <2>5 DEF AfterConclusion
      <3>2. fs \in SUBSET [branch : Nat, status : 100..699]
        <4>1. \A f \in Collected : f \in [branch : Nat, status : 100..699]
          BY DEF Collected
        <4> QED BY <4>1, ZenonT(40)
      <3>3. answered \in BOOLEAN
        BY DEF IndInv, TypeOK
      <3>4. ~Launches(effects')
        BY <3>1, <3>2, <3>3, SelectType, ZenonT(40)
      <3> QED BY <1>1, <2>1, <2>3, <3>4
    <2> QED BY <2>4, <2>5
  <1>2. branches \in Seq(Branch)
    BY DEF IndInv, TypeOK
  <1>3. ASSUME NEW id \in Nat, NEW status \in 200..699, ~finished, Concludes(id, status)
        PROVE  /\ ~Launches(effects')
               /\ request' = request /\ asked' = "none" /\ (finished' \/ queued' = <<>>)
    <2> DEFINE final == [branch |-> id, status |-> status]
               fs == finals \cup {final}
    <2>1. Conclude(branches, id, status) \in Seq(Branch)
      <3>1. status \in 100..699
        OBVIOUS
      <3> QED BY <1>2, <3>1, ConcludeType, ZenonT(40)
    <2>2. fs \in SUBSET Collected
      <3>1. final \in Collected
        BY DEF Collected
      <3> HIDE DEF final
      <3> QED BY <3>1
    <2>3. AfterConclusion(Conclude(branches, id, status), fs)
      BY <1>3 DEF Concludes
    <2> HIDE DEF fs
    <2> QED BY <1>1, <1>3, <2>1, <2>2, <2>3
  <1>4. ASSUME NEW id \in BranchIds, NEW status \in 100..699, OnBranchResponse(id, status)
        PROVE  /\ ~Launches(effects')
               /\ request' = request /\ asked' = "none" /\ (finished' \/ queued' = <<>>)
    <2>0. id \in Nat /\ ~finished
      BY <1>4, BranchFacts DEF OnBranchResponse
    <2>1. CASE status < 200
      <3>1. OnProvisional(id, status)
        BY <1>4, <2>1 DEF OnBranchResponse, OnSuccess
      <3>2. ~Launches(effects')
        BY <2>0, <3>1, ProvisionalInv
      <3> QED BY <2>0, <3>1, <3>2 DEF OnProvisional
    <2>2. CASE status >= 200
      <3>1. \/ OnBranchFailure(id)
            \/ OnConcludingFinal(id, status, finals)
            \/ OnConcludingFinal(id, status, finals \cup {[branch |-> id, status |-> status]})
            \/ Concludes(id, status)
        BY <1>4, <2>2 DEF OnBranchResponse, OnSuccess, Concludes
      <3>2. status \in 200..699 /\ 503 \in 200..699
        BY <2>2
      <3>3. CASE OnBranchFailure(id)
        <4>1. Concludes(id, 503)
          BY <3>3 DEF OnBranchFailure, Concludes
        <4> QED BY <1>3, <2>0, <3>2, <4>1, SMTT(40)
      <3>4. ASSUME NEW fs, OnConcludingFinal(id, status, fs)
            PROVE  /\ ~Launches(effects')
                   /\ request' = request /\ asked' = "none" /\ (finished' \/ queued' = <<>>)
        <4>1. request' = request /\ asked' = "none" /\ queued' = <<>>
          BY <3>4 DEF OnConcludingFinal, ConcludeTargetSet
        <4>2. ~Launches(effects')
          BY <2>0, <3>2, <3>4, ConcludingLaunches, ZenonT(40)
        <4> QED BY <4>1, <4>2
      <3>5. CASE Concludes(id, status)
        BY <1>3, <2>0, <3>2, <3>5, ZenonT(40)
      <3> QED BY <3>1, <3>3, <3>4, <3>5
    <2> QED BY <2>1, <2>2
  <1>5. ASSUME NEW id \in BranchIds, OnBranchFailure(id)
        PROVE  /\ ~Launches(effects')
               /\ request' = request /\ asked' = "none" /\ (finished' \/ queued' = <<>>)
    <2>1. id \in Nat /\ 503 \in 200..699
      BY BranchFacts
    <2>2. ~finished /\ Concludes(id, 503)
      BY <1>5 DEF OnBranchFailure, Concludes
    <2> QED BY <1>3, <2>1, <2>2
  <1>6. ASSUME NEW id \in BranchIds, OnTimerC(id)
        PROVE  /\ ~Launches(effects')
               /\ request' = request /\ asked' = "none" /\ (finished' \/ queued' = <<>>)
    <2>0. id \in Nat /\ ~finished /\ 408 \in 200..699
      BY <1>6, BranchFacts DEF OnTimerC
    <2>1. CASE Concludes(id, 408)
      BY <1>3, <2>0, <2>1
    <2>2. CASE /\ effects' = CancelBranches({id})
               /\ UNCHANGED <<request, queued, finals, answered, finished, awaiting, tokens,
                              asked, verdict>>
      <3>1. {id} \in SUBSET Nat
        BY <2>0
      <3>2. ~Launches(effects')
        BY <2>2, <3>1, CancelEffects
      <3> QED BY <2>0, <2>2, <3>2
    <2> QED BY <1>6, <2>1, <2>2 DEF OnTimerC, Concludes
  <1>7. CASE OnUpstreamCancelled
    <2>1. ~Launches(effects')
      BY <1>7, CancelledInv
    <2> QED BY <1>7, <2>1 DEF OnUpstreamCancelled, ConcludeTargetSet
  <1>8. CASE Ignore
    BY <1>8, EmptyEffects DEF Ignore
  <1>9. CASE \/ TokensMinted \/ (\E r \in Requests : OnUpstream(r))
             \/ (\E v \in {"valid", "invalid"} : OnToken(v))
             \/ (\E targets \in TargetSets : OnTargets(targets))
             \/ OnTargetsUnavailable
    BY <1>9 DEF TokensMinted, OnUpstream, OnToken, OnTargets, OnTargetsUnavailable
  <1> QED BY <1>4, <1>5, <1>6, <1>7, <1>8, <1>9 DEF EngineCall

-----------------------------------------------------------------------------
(* The transactions, a step at a time *)

\* A call on a context that is over does nothing; any other stops and launches what it says.
Called(settled) ==
    IF finished THEN finished' /\ effects' = <<>> ELSE Stopping(settled)

\* The transactions as the input leaves them: none is sent a CANCEL, and only those of
\* `settled` ended.
Input(cl, settled) ==
    /\ cl \in [DOMAIN client -> Client]
    /\ \A b \in DOMAIN client : cl[b].cancels = client[b].cancels
    /\ \A b \in DOMAIN client \ settled : Live(b) => cl[b].phase \in {"calling", "proceeding"}

\* A success that the input brings is told the caller.
Relays(cl) ==
    \A b \in DOMAIN client :
      cl[b].phase = "accepted" /\ client[b].phase # "accepted" /\ ~finished =>
        \E status, from : Tells(effects', status, from)

\* The action properties, as they speak of one step.
StopsLive ==
    \A id \in DOMAIN client :
      client'[id].cancels > client[id].cancels =>
        /\ Live(id) /\ IsPending(branches, id)
        /\ client[id].cancels = 0 /\ client'[id].cancels = 1
RelaysSuccess ==
    \A id \in DOMAIN client :
      /\ client[id].phase # "accepted"
      /\ client'[id].phase = "accepted"
      /\ ~finished
      => Len(upstream') = Len(upstream) + 1

TransactionsKept ==
    /\ client' \in [DOMAIN client' -> Client]
    /\ upstream' \in Sent
    /\ PendingIsLive'
    /\ StopsLive
    /\ RelaysSuccess

\* An input, the call it makes and the performing of its effects.
LEMMA CallKeeps ==
  ASSUME TransactionInv, IndInv', NEW cl, NEW settled, NEW ts, NEW hd,
         Input(cl, settled), Called(settled), Relays(cl), Perform(cl, ts, hd)
  PROVE  TransactionsKept
  <1> DEFINE D == DOMAIN client
             L == Forwards(effects')
  <1>0. /\ effects' \in Seq(Effect) /\ upstream \in Sent /\ client \in [D -> Client]
        /\ cl \in [D -> Client]
    BY DEF TransactionInv, IndInv, TypeOK, Input
  <1>1. Reply
    BY DEF Perform
  <1>2. /\ client' \in [D \cup L -> Client]
        /\ \A b \in L : client'[b].phase = "calling" /\ client'[b].cancels = 0
        /\ \A b \in D \ L : client'[b].phase = cl[b].phase
        /\ \A ids : Stops(effects', ids) =>
              \A b \in D \ L : \/ client'[b].cancels = cl[b].cancels
                               \/ b \in ids /\ client'[b].cancels = cl[b].cancels + 1
    BY <1>0, Performed
  <1>3. DOMAIN client' = D \cup L
    BY <1>2
  <1>4. /\ upstream' \in Sent
        /\ \A status, from : Tells(effects', status, from) => upstream' = Append(upstream, status)
    BY <1>0, <1>1, Replied
  <1>c. \A b \in D : client[b].cancels \in Nat /\ cl[b].cancels = client[b].cancels
    <2>1. \A b \in D : client[b] \in Client
      BY <1>0
    <2>2. \A b \in D : client[b].cancels \in Nat
      BY <2>1 DEF Client
    <2> QED BY <2>2 DEF Input
  <1> HIDE DEF D, L
  <1>5. client' \in [DOMAIN client' -> Client]
    BY <1>2, <1>3
  <1>6. PendingIsLive'
    <2> SUFFICES ASSUME ~finished', NEW b \in PendingIds(branches')
                 PROVE  /\ b \in DOMAIN client' /\ client'[b].phase \in {"calling", "proceeding"}
                        /\ client'[b].cancels = 0
      BY DEF PendingIsLive, Live
    <2>1. ~finished /\ Stopping(settled)
      BY DEF Called
    <2>2. PICK ids \in SUBSET PendingIds(branches) :
             /\ Stops(effects', ids)
             /\ PendingIds(branches') \subseteq (PendingIds(branches) \ (settled \cup ids)) \cup L
      BY <2>1 DEF Stopping, L
    <2>3. CASE b \in L
      BY <1>2, <1>3, <2>3
    <2>4. CASE b \notin L
      <3>1. b \in PendingIds(branches) /\ b \notin settled /\ b \notin ids
        BY <2>2, <2>4
      <3>2. b \in D /\ Live(b) /\ client[b].cancels = 0
        BY <2>1, <3>1 DEF TransactionInv, PendingIsLive, D
      <3>3. cl[b].phase \in {"calling", "proceeding"}
        BY <3>1, <3>2 DEF Input, D
      <3>4. client'[b].cancels = cl[b].cancels
        BY <1>2, <2>2, <2>4, <3>1, <3>2
      <3> QED BY <1>2, <1>3, <1>c, <2>4, <3>2, <3>3, <3>4
    <2> QED BY <2>3, <2>4
  <1>7. StopsLive
    <2> SUFFICES ASSUME NEW b \in D, client'[b].cancels > client[b].cancels
                 PROVE  /\ Live(b) /\ IsPending(branches, b)
                        /\ client[b].cancels = 0 /\ client'[b].cancels = 1
      BY DEF StopsLive, D
    <2>1. PICK ids \in SUBSET PendingIds(branches) :
             Stops(effects', ids) /\ (finished => ids = {})
      <3>1. CASE finished
        <4>1. Stops(effects', {}) /\ {} \in SUBSET PendingIds(branches)
          BY <3>1, NoEffects, SparesStops DEF Called
        <4> QED BY <4>1
      <3>2. CASE ~finished
        BY <3>2 DEF Called, Stopping
      <3> QED BY <3>1, <3>2
    <2>2. b \notin L
      <3>1. ASSUME b \in L PROVE FALSE
        <4>1. client'[b].cancels = 0 /\ client[b].cancels \in Nat
          BY <1>2, <1>c, <3>1
        <4> QED BY <4>1
      <3> QED BY <3>1
    <2>3. b \in ids /\ client'[b].cancels = client[b].cancels + 1
      <3>1. client[b].cancels \in Nat /\ cl[b].cancels = client[b].cancels
        BY <1>c
      <3>2. \/ client'[b].cancels = cl[b].cancels
            \/ b \in ids /\ client'[b].cancels = cl[b].cancels + 1
        BY <1>2, <2>1, <2>2
      <3> QED BY <3>1, <3>2
    <2>4. b \in PendingIds(branches) /\ ~finished
      BY <2>1, <2>3
    <2>5. Live(b) /\ client[b].cancels = 0
      BY <2>4 DEF TransactionInv, PendingIsLive
    <2>6. IsPending(branches, b)
      BY <2>4 DEF PendingIds, IsPending
    <2> QED BY <2>3, <2>5, <2>6
  <1>8. RelaysSuccess
    <2> SUFFICES ASSUME NEW b \in D, client[b].phase # "accepted", client'[b].phase = "accepted",
                        ~finished
                 PROVE  Len(upstream') = Len(upstream) + 1
      BY DEF RelaysSuccess, D
    <2>1. b \in D \ L
      BY <1>2
    <2>2. cl[b].phase = "accepted"
      BY <1>2, <2>1
    <2>3. PICK status, from : Tells(effects', status, from)
      BY <2>2 DEF Relays, D
    <2>4. upstream' = Append(upstream, status)
      BY <1>4, <2>3
    <2> QED BY <1>0, <2>4 DEF Sent
  <1> QED BY <1>4, <1>5, <1>6, <1>7, <1>8 DEF TransactionsKept

\* An input that does not concern the transactions.
LEMMA InputElsewhere ==
  ASSUME client \in [DOMAIN client -> Client]
  PROVE  Input(client, {}) /\ Relays(client)
  BY Zenon DEF Input, Relays, Live

\* An input that moves one transaction on.
LEMMA InputMoves ==
  ASSUME client \in [DOMAIN client -> Client], NEW id \in DOMAIN client,
         NEW phase \in {"calling", "proceeding", "accepted", "done"}
  PROVE  /\ Input(SetPhase(id, phase), {id})
         /\ phase = "proceeding" => Input(SetPhase(id, phase), {})
         /\ phase # "accepted" => Relays(SetPhase(id, phase))
         /\ finished \/ (\E status, from : Tells(effects', status, from)) =>
              Relays(SetPhase(id, phase))
  <1> DEFINE D == DOMAIN client
             cl == SetPhase(id, phase)
  <1>1. client[id] \in Client
    OBVIOUS
  <1>2. /\ [client[id] EXCEPT !.phase = phase] \in Client
        /\ [client[id] EXCEPT !.phase = phase].phase = phase
        /\ [client[id] EXCEPT !.phase = phase].cancels = client[id].cancels
    <2>1. [client[id] EXCEPT !.phase = phase] \in Client
      BY <1>1, ZenonT(60) DEF Client
    <2>2. [client[id] EXCEPT !.phase = phase].phase = phase
      BY <1>1, Zenon DEF Client
    <2>3. [client[id] EXCEPT !.phase = phase].cancels = client[id].cancels
      BY <1>1, Zenon DEF Client
    <2> QED BY <2>1, <2>2, <2>3
  <1>3. cl = [client EXCEPT ![id] = [client[id] EXCEPT !.phase = phase]]
    BY Zenon DEF SetPhase
  <1> DEFINE new == [client[id] EXCEPT !.phase = phase]
  <1>4. new \in Client /\ new.phase = phase /\ cl = [client EXCEPT ![id] = new]
    BY <1>2, <1>3
  <1>a. new.cancels = client[id].cancels
    BY <1>2, Zenon
  <1> HIDE DEF new, cl
  <1>5. /\ cl \in [D -> Client] /\ cl[id] = new
        /\ \A b \in D \ {id} : cl[b] = client[b]
    BY <1>4
  <1>6. \A b \in D : cl[b].cancels = client[b].cancels
    <2> SUFFICES ASSUME NEW b \in D PROVE cl[b].cancels = client[b].cancels
      OBVIOUS
    <2>1. CASE b = id
      BY <1>a, <1>5, <2>1, Zenon
    <2>2. CASE b # id
      <3>1. cl[b] = client[b]
        BY <1>5, <2>2
      <3> QED BY <3>1, Zenon
    <2> QED BY <2>1, <2>2
  <1>7. Input(cl, {id}) /\ (phase = "proceeding" => Input(cl, {}))
    <2>1. \A b \in D \ {id} : Live(b) => cl[b].phase \in {"calling", "proceeding"}
      BY <1>5 DEF Live
    <2>2. phase = "proceeding" => cl[id].phase \in {"calling", "proceeding"}
      BY <1>4, <1>5
    <2> QED BY <1>5, <1>6, <2>1, <2>2 DEF Input
  <1>8. phase # "accepted" => Relays(cl)
    <2>1. phase # "accepted" => \A b \in D : cl[b].phase = "accepted" => client[b].phase = "accepted"
      BY <1>4, <1>5
    <2> QED BY <2>1 DEF Relays
  <1>9. finished \/ (\E status, from : Tells(effects', status, from)) => Relays(cl)
    BY DEF Relays
  <1> QED BY <1>7, <1>8, <1>9 DEF cl

\* An input that moves one transaction on by a provisional response.
Proceeds(id) ==
    [client EXCEPT ![id].phase = "proceeding", ![id].provisionals = @ + 1]

LEMMA InputProceeds ==
  ASSUME client \in [DOMAIN client -> Client], NEW id \in DOMAIN client,
         client[id].provisionals < MaxProvisionals
  PROVE  Input(Proceeds(id), {}) /\ Relays(Proceeds(id))
  <1> DEFINE D == DOMAIN client
             cl == Proceeds(id)
             more == client[id].provisionals + 1
             new == [client[id] EXCEPT !.phase = "proceeding", !.provisionals = more]
  <1>1. client[id] \in Client /\ client[id].provisionals \in 0..MaxProvisionals
    BY DEF Client
  <1>2. more \in 0..MaxProvisionals
    BY <1>1, ProvisionalsAssumption
  <1> HIDE DEF more
  <1>3. new \in Client
    BY <1>1, <1>2, ZenonT(60) DEF Client
  <1>4. new.phase = "proceeding"
    BY <1>1, Zenon DEF Client
  <1>5. new.cancels = client[id].cancels
    BY <1>1, Zenon DEF Client
  <1>6. cl = [client EXCEPT ![id] = new]
    BY Zenon DEF Proceeds, more
  <1> HIDE DEF new, cl
  <1>7. /\ cl \in [D -> Client] /\ cl[id] = new
        /\ \A b \in D \ {id} : cl[b] = client[b]
    BY <1>3, <1>6
  <1>8. \A b \in D : cl[b].cancels = client[b].cancels
    <2> SUFFICES ASSUME NEW b \in D PROVE cl[b].cancels = client[b].cancels
      OBVIOUS
    <2>1. CASE b = id
      BY <1>5, <1>7, <2>1, Zenon
    <2>2. CASE b # id
      <3>1. cl[b] = client[b]
        BY <1>7, <2>2
      <3> QED BY <3>1, Zenon
    <2> QED BY <2>1, <2>2
  <1>9. \A b \in D \ {} : Live(b) => cl[b].phase \in {"calling", "proceeding"}
    BY <1>4, <1>7 DEF Live
  <1>10. Relays(cl)
    BY <1>4, <1>7 DEF Relays
  <1> QED BY <1>7, <1>8, <1>9, <1>10 DEF Input, cl

\* An ignored input does nothing.
LEMMA Ignored ==
  ASSUME Ignore
  PROVE  Called({}) /\ (finished => \A settled : Called(settled))
  <1>1. /\ effects' = <<>> /\ branches' = branches /\ finished' = finished
    BY DEF Ignore
  <1>2. Stopping({})
    <2>1. Stops(effects', {})
      BY <1>1, NoEffects, SparesStops
    <2> QED BY <1>1, <2>1, IdleStops
  <1> QED BY <1>1, <1>2 DEF Called

\* An open context that is called, as the lemmas on stopping have it.
LEMMA OpenCalled ==
  ASSUME ~finished, NEW settled, Stopping(settled)
  PROVE  Called(settled)
  BY DEF Called

\* A branch's final reaches the engine, or nobody; a success is told the caller.
LEMMA EndHeard ==
  ASSUME TransactionInv, NEW id, NEW status \in 200..699,
         Deliver(OnBranchResponse(id, status))
  PROVE  /\ Called({id})
         /\ status \div 100 = 2 /\ request.method = "INVITE" =>
              finished \/ \E s, from : Tells(effects', s, from)
  <1>1. CASE finished
    BY <1>1, Ignored DEF Deliver
  <1>2. CASE ~finished
    <2>1. OnBranchResponse(id, status) /\ IndInv /\ finals \subseteq Collected
      BY <1>2 DEF Deliver, TransactionInv
    <2>2. id \in BranchIds
      BY <2>1 DEF OnBranchResponse, Known, BranchIds
    <2>3. Called({id})
      BY <1>2, <2>1, <2>2, ResponseStops, OpenCalled
    <2>4. ASSUME status \div 100 = 2, request.method = "INVITE"
          PROVE  \E s, from : Tells(effects', s, from)
      <3>1. status # 503 /\ status \div 100 # 6
        BY <2>4
      <3>2. ~(status < 200)
        OBVIOUS
      <3>3. OnConcludingFinal(id, status, finals)
        BY <2>1, <2>4, <3>1, <3>2 DEF OnBranchResponse, OnSuccess
      <3>4. id \in Nat
        BY <2>1, <2>2, BranchFacts
      <3>5. IndInv
        BY <2>1
      <3>6. Tells(effects', status, {id})
        BY <3>3, <3>4, <3>5, ConcludingStops, Zenon
      <3> QED BY <3>6
    <2> QED BY <2>3, <2>4
  <1> QED BY <1>1, <1>2

\* What the transactions hear of a branch.
LEMMA HearTryingKeeps ==
  ASSUME TransactionInv, IndInv', NEW id \in DOMAIN client, HearTrying(id)
  PROVE  TransactionsKept
  <1>1. client \in [DOMAIN client -> Client]
    BY DEF TransactionInv
  <1>2. Called({})
    BY Ignored DEF HearTrying
  <1>3. Input(SetPhase(id, "proceeding"), {}) /\ Relays(SetPhase(id, "proceeding"))
    BY <1>1, InputMoves
  <1>4. Perform(SetPhase(id, "proceeding"), timers, heard)
    BY DEF HearTrying
  <1> QED BY <1>2, <1>3, <1>4, CallKeeps, Zenon

LEMMA HearProvisionalKeeps ==
  ASSUME TransactionInv, IndInv', NEW id \in DOMAIN client, NEW status \in Codes,
         HearProvisional(id, status)
  PROVE  TransactionsKept
  <1>1. client \in [DOMAIN client -> Client] /\ IndInv
    BY DEF TransactionInv
  <1>2. status \in 100..199 /\ ~(status >= 200) /\ status \div 100 # 2 /\ status \div 100 # 6
        /\ status # 503
    <2>1. status \in 101..199
      BY DEF HearProvisional
    <2> QED BY <2>1
  <1>3. Called({})
    <2>1. CASE finished
      BY <2>1, Ignored DEF HearProvisional, Deliver
    <2>2. CASE ~finished
      <3>1. OnBranchResponse(id, status)
        BY <2>2 DEF HearProvisional, Deliver
      <3>2. OnProvisional(id, status)
        BY <1>2, <3>1 DEF OnBranchResponse, OnSuccess
      <3>3. id \in Nat
        <4>1. id \in BranchIds
          BY <3>1 DEF OnBranchResponse, Known, BranchIds
        <4> QED BY <1>1, <4>1, BranchFacts
      <3> QED BY <1>1, <1>2, <2>2, <3>2, <3>3, ProvisionalStops, OpenCalled
    <2> QED BY <2>1, <2>2
  <1>4. Input(Proceeds(id), {}) /\ Relays(Proceeds(id))
    BY <1>1, InputProceeds DEF HearProvisional
  <1>5. Perform(Proceeds(id), timers, heard)
    BY Zenon DEF HearProvisional, Proceeds
  <1> QED BY <1>3, <1>4, <1>5, CallKeeps, Zenon

LEMMA HearFinalKeeps ==
  ASSUME TransactionInv, IndInv', NEW id \in DOMAIN client, NEW status \in Codes,
         HearFinal(id, status)
  PROVE  TransactionsKept
  <1> DEFINE success == status \div 100 = 2 /\ request.method = "INVITE"
             phase == IF success /\ Live(id) THEN "accepted" ELSE "done"
  <1>1. client \in [DOMAIN client -> Client]
    BY DEF TransactionInv
  <1>2. status \in 200..699
    <2>1. status >= 200
      BY DEF HearFinal
    <2> QED BY <2>1, CodesAssumption
  <1>3. Deliver(OnBranchResponse(id, status)) /\ Perform(SetPhase(id, phase), timers, Noted(id, status))
    BY DEF HearFinal
  <1>4. /\ Called({id})
        /\ success => finished \/ \E s, from : Tells(effects', s, from)
    BY <1>2, <1>3, EndHeard
  <1>5. phase \in {"calling", "proceeding", "accepted", "done"} /\ (phase = "accepted" => success)
    OBVIOUS
  <1> HIDE DEF phase, success
  <1>6. Input(SetPhase(id, phase), {id}) /\ Relays(SetPhase(id, phase))
    BY <1>1, <1>4, <1>5, InputMoves, Zenon
  <1> QED BY <1>3, <1>4, <1>6, CallKeeps, Zenon

LEMMA KernelTimeoutKeeps ==
  ASSUME TransactionInv, IndInv', NEW id \in DOMAIN client, KernelTimeout(id)
  PROVE  TransactionsKept
  <1>1. client \in [DOMAIN client -> Client]
    BY DEF TransactionInv
  <1>2. Deliver(OnBranchResponse(id, 408)) /\ Perform(SetPhase(id, "done"), timers, Noted(id, 408))
    BY DEF KernelTimeout
  <1>3. 408 \in 200..699
    OBVIOUS
  <1>4. Called({id})
    BY <1>2, <1>3, EndHeard
  <1>5. Input(SetPhase(id, "done"), {id}) /\ Relays(SetPhase(id, "done"))
    BY <1>1, InputMoves
  <1> QED BY <1>2, <1>4, <1>5, CallKeeps, Zenon

LEMMA TransportFailsKeeps ==
  ASSUME TransactionInv, IndInv', NEW id \in DOMAIN client, TransportFails(id)
  PROVE  TransactionsKept
  <1>1. client \in [DOMAIN client -> Client] /\ IndInv /\ finals \subseteq Collected
    BY DEF TransactionInv
  <1>2. Perform(SetPhase(id, "done"), timers, Noted(id, 503))
    BY DEF TransportFails
  <1>3. Called({id})
    <2>1. CASE finished
      BY <2>1, Ignored DEF TransportFails, Deliver
    <2>2. CASE ~finished
      <3>1. OnBranchFailure(id)
        BY <2>2 DEF TransportFails, Deliver
      <3>2. id \in BranchIds
        BY <3>1 DEF OnBranchFailure, Known, BranchIds
      <3> QED BY <1>1, <2>2, <3>1, <3>2, FailureStops, OpenCalled
    <2> QED BY <2>1, <2>2
  <1>4. Input(SetPhase(id, "done"), {id}) /\ Relays(SetPhase(id, "done"))
    BY <1>1, InputMoves
  <1> QED BY <1>2, <1>3, <1>4, CallKeeps, Zenon

\* What leaves the transactions to the effects alone.
LEMMA AsideKeeps ==
  ASSUME TransactionInv, IndInv', Called({}), NEW ts, NEW hd, Perform(client, ts, hd)
  PROVE  TransactionsKept
  <1>1. Input(client, {}) /\ Relays(client)
    BY InputElsewhere DEF TransactionInv
  <1> QED BY <1>1, CallKeeps, Zenon

LEMMA TimerCFiresKeeps ==
  ASSUME TransactionInv, IndInv', NEW id, TimerCFires(id)
  PROVE  TransactionsKept
  <1>1. IndInv /\ finals \subseteq Collected
    BY DEF TransactionInv
  <1>2. OnTimerC(id) \/ Ignore
    BY DEF TimerCFires
  <1>3. Called({})
    <2>1. CASE OnTimerC(id)
      <3>1. ~finished
        BY <2>1 DEF OnTimerC
      <3> QED BY <1>1, <2>1, <3>1, TimerStops, OpenCalled
    <2> QED BY <1>2, <2>1, Ignored
  <1>4. \E ts, hd : Perform(client, ts, hd)
    BY Zenon DEF TimerCFires
  <1> QED BY <1>3, <1>4, AsideKeeps, Zenon

\* Every step keeps the transactions.
LEMMA StepKeeps ==
  ASSUME TransactionInv, IndInv', NextAll, ~Quiet
  PROVE  TransactionsKept
  <1>0. IndInv /\ finals \subseteq Collected /\ client \in [DOMAIN client -> Client]
    BY DEF TransactionInv
  <1>1. ASSUME ~finished, Stopping({}), Perform(client, timers, heard) PROVE TransactionsKept
    BY <1>1, AsideKeeps, OpenCalled, Zenon
  <1>2. CASE Mint
    <2>1. /\ client' = client /\ upstream' = upstream
          /\ branches' = branches /\ finished' = finished
      BY <1>2 DEF Mint, TokensMinted, envVars
    <2>2. PendingIsLive'
      BY <2>1 DEF TransactionInv, PendingIsLive, Live
    <2>3. StopsLive /\ RelaysSuccess
      <3>1. \A id \in DOMAIN client : client[id].cancels \in Nat
        <4>1. \A id \in DOMAIN client : client[id] \in Client
          BY <1>0
        <4> QED BY <4>1 DEF Client
      <3>2. \A id \in DOMAIN client : ~(client'[id].cancels > client[id].cancels)
        BY <2>1, <3>1
      <3>3. RelaysSuccess
        BY <2>1, Zenon DEF RelaysSuccess
      <3> QED BY <3>2, <3>3 DEF StopsLive
    <2>4. client' \in [DOMAIN client' -> Client] /\ upstream' \in Sent
      BY <2>1 DEF TransactionInv
    <2> QED BY <2>2, <2>3, <2>4 DEF TransactionsKept
  <1>3. ASSUME NEW r \in Requests, Receive(r) PROVE TransactionsKept
    <2>1. OnUpstream(r) /\ ~finished /\ Perform(client, timers, heard)
      BY <1>3 DEF Receive, OnUpstream
    <2>2. Stopping({})
      BY <1>0, <2>1, OpeningStops
    <2> QED BY <1>1, <2>1, <2>2
  <1>4. ASSUME NEW v \in {"valid", "invalid"}, Verify(v) PROVE TransactionsKept
    <2>1. OnToken(v) /\ ~finished /\ Perform(client, timers, heard)
      BY <1>4 DEF Verify, OnToken
    <2>2. Stopping({})
      BY <1>0, <2>1, OpeningStops
    <2> QED BY <1>1, <2>1, <2>2
  <1>5. CASE Resolve
    <2>1. /\ (\E targets \in TargetSets : OnTargets(targets)) \/ OnTargetsUnavailable
          /\ Perform(client, timers, heard)
      BY <1>5 DEF Resolve
    <2>2. ~finished
      BY <2>1 DEF OnTargets, OnTargetsUnavailable
    <2>3. Stopping({})
      BY <1>0, <2>1, OpeningStops
    <2> QED BY <1>1, <2>1, <2>2, <2>3
  <1>6. CASE CallerCancels
    <2>1. (OnUpstreamCancelled \/ Ignore) /\ Perform(client, timers, heard)
      BY <1>6 DEF CallerCancels
    <2>2. CASE OnUpstreamCancelled
      <3>1. ~finished
        BY <2>2 DEF OnUpstreamCancelled
      <3>2. Stopping({})
        BY <1>0, <2>2, WithdrawalStops
      <3> QED BY <1>1, <2>1, <3>1, <3>2
    <2>3. CASE Ignore
      BY <2>1, <2>3, Ignored, AsideKeeps
    <2> QED BY <2>1, <2>2, <2>3
  <1>7. ASSUME NEW id \in DOMAIN client, OnBranch(id) PROVE TransactionsKept
    BY <1>7, HearTryingKeeps, HearProvisionalKeeps, HearFinalKeeps, KernelTimeoutKeeps,
       TransportFailsKeeps, TimerCFiresKeeps DEF OnBranch
  <1> QED BY <1>2, <1>3, <1>4, <1>5, <1>6, <1>7 DEF NextAll

\* A request that was withdrawn after routing stays without targets to try.
LEMMA WithdrawnStays ==
  ASSUME TransactionInv, NextAll, ~Quiet
  PROVE  /\ WithdrawnIsConcluded'
         /\ withdrawn = "forking" => ~Launches(effects')
  <1>0. /\ IndInv /\ finals \subseteq Collected /\ WithdrawnIsConcluded
        /\ EngineCall
    BY IsEngineCall DEF TransactionInv
  <1>1. CASE withdrawn = "forking"
    <2>1. request # NoRequest /\ asked = "none" /\ (finished \/ queued = <<>>)
      BY <1>0, <1>1 DEF WithdrawnIsConcluded
    <2>2. /\ ~Launches(effects')
          /\ request' = request /\ asked' = "none" /\ (finished' \/ queued' = <<>>)
      BY <1>0, <2>1, NothingMoreToTry
    <2> QED BY <2>1, <2>2 DEF WithdrawnIsConcluded
  <1>2. CASE withdrawn # "forking" /\ CallerCancels
    <2>1. request.method = "INVITE" /\ (withdrawn' = "forking" => asked = "none")
      BY <1>2 DEF CallerCancels
    <2>2. request # NoRequest
      BY <2>1 DEF NoRequest
    <2>3. CASE OnUpstreamCancelled
      <3>1. request' = request /\ asked' = asked /\ queued' = <<>>
        BY <2>3 DEF OnUpstreamCancelled, ConcludeTargetSet
      <3> QED BY <1>2, <2>1, <2>2, <3>1 DEF WithdrawnIsConcluded
    <2>4. CASE finished /\ Ignore
      <3>1. request' = request /\ asked' = asked /\ finished'
        BY <2>4 DEF Ignore
      <3> QED BY <1>2, <2>1, <2>2, <3>1 DEF WithdrawnIsConcluded
    <2> QED BY <1>2, <2>3, <2>4 DEF CallerCancels
  <1>3. CASE withdrawn # "forking" /\ ~CallerCancels
    <2>1. withdrawn' = withdrawn
      <3>1. ASSUME NEW id, OnBranch(id) PROVE withdrawn' = withdrawn
        BY <3>1 DEF OnBranch, HearTrying, HearProvisional, HearFinal, KernelTimeout,
                    TransportFails, TimerCFires
      <3> QED BY <1>3, <3>1 DEF NextAll, Mint, envVars, Receive, Verify, Resolve
    <2> QED BY <1>3, <2>1 DEF WithdrawnIsConcluded
  <1> QED BY <1>1, <1>2, <1>3

\* Nothing happens to a quiet proxy.
LEMMA QuietKeeps ==
  ASSUME TransactionInv, UNCHANGED allVars
  PROVE  TransactionInv'
  <1>1. IndInv'
    BY DEF TransactionInv, allVars, vars, IndInv, TypeOK, QuestionsComeFirst,
           AnsweredLeavesNoQueue, TokenGatesRouting
  <1>2. /\ finals' = finals /\ client' = client /\ upstream' = upstream
        /\ withdrawn' = withdrawn /\ request' = request /\ asked' = asked
        /\ finished' = finished /\ queued' = queued /\ branches' = branches
    BY DEF allVars, vars, envVars
  <1>3. PendingIsLive' /\ WithdrawnIsConcluded'
    BY <1>2 DEF TransactionInv, PendingIsLive, Live, WithdrawnIsConcluded
  <1> QED BY <1>1, <1>2, <1>3 DEF TransactionInv

LEMMA InitialTransactions ==
  ASSUME InitAll
  PROVE  TransactionInv
  <1>1. IndInv
    BY InitInv DEF InitAll
  <1>2. /\ finals = {} /\ branches = <<>> /\ upstream = <<>> /\ withdrawn = "no"
        /\ client = [id \in {} |-> 0]
    BY DEF InitAll, Init
  <1>3. PendingIds(branches) = {}
    BY <1>2 DEF PendingIds
  <1>4. client \in [DOMAIN client -> Client] /\ upstream \in Sent
    BY <1>2 DEF Sent
  <1> QED BY <1>1, <1>2, <1>3, <1>4 DEF TransactionInv, PendingIsLive, WithdrawnIsConcluded

\* One step, and what it may not do.
LEMMA TransactionStep ==
  ASSUME TransactionInv, NextAll, ~Quiet
  PROVE  TransactionInv' /\ TransactionsKept
  <1>1. IndInv /\ finals \subseteq Collected /\ EngineCall
    BY IsEngineCall DEF TransactionInv
  <1>2. IndInv' /\ finals' \subseteq Collected
    BY <1>1, EngineKeeps, EngineCollects
  <1>3. TransactionsKept /\ WithdrawnIsConcluded'
    BY <1>2, StepKeeps, WithdrawnStays
  <1> QED BY <1>2, <1>3 DEF TransactionInv, TransactionsKept

-----------------------------------------------------------------------------
(* Theorems *)

\* The invariant behind what follows: the context keeps its own, every branch it takes for
\* pending has an open client transaction, and a withdrawn request has no target left.
THEOREM TransactionInvariance == SpecAll => []TransactionInv
  <1>1. InitAll => TransactionInv
    BY InitialTransactions
  <1>2. TransactionInv /\ [NextAll]_allVars => TransactionInv'
    <2> SUFFICES ASSUME TransactionInv, [NextAll]_allVars PROVE TransactionInv'
      OBVIOUS
    <2>1. CASE NextAll /\ ~Quiet
      BY <2>1, TransactionStep
    <2>2. CASE UNCHANGED allVars
      BY <2>2, QuietKeeps
    <2> QED BY <2>1, <2>2 DEF Quiet
  <1> QED BY <1>1, <1>2, PTL DEF SpecAll

\* C2 and R11, in every order of responses, timers, failures and the caller's CANCEL: a
\* branch is sent one CANCEL at most (each CANCEL is counted), and only while the engine
\* takes it for pending and its client transaction has no final.
THEOREM OnlyLiveCancelled == SpecAll => CancelOnlyLiveBranches
  <1>1. TransactionInv /\ [NextAll]_allVars => [StopsLive]_allVars
    <2> SUFFICES ASSUME TransactionInv, NextAll, ~ UNCHANGED allVars PROVE StopsLive
      OBVIOUS
    <2>1. ~Quiet
      BY DEF Quiet
    <2> QED BY <2>1, TransactionStep DEF TransactionsKept
  <1>2. SpecAll => [][StopsLive]_allVars
    BY <1>1, TransactionInvariance, PTL DEF SpecAll
  <1> QED BY <1>2 DEF CancelOnlyLiveBranches, StopsLive

\* C7: once the caller withdrew a request that was routed, nothing is launched any more,
\* whatever settles the branches in flight.
THEOREM WithdrawnUntried == SpecAll => WithdrawnTargetsStayUntried
  <1>1. TransactionInv /\ [NextAll]_allVars =>
          [withdrawn = "forking" => ~Emits(effects', "Forward")]_allVars
    <2> SUFFICES ASSUME TransactionInv, NextAll, ~ UNCHANGED allVars, withdrawn = "forking"
                 PROVE  ~Emits(effects', "Forward")
      OBVIOUS
    <2>1. ~Quiet
      BY DEF Quiet
    <2> QED BY <2>1, WithdrawnStays DEF Launches
  <1> QED BY <1>1, TransactionInvariance, PTL DEF SpecAll, WithdrawnTargetsStayUntried

\* R5: every 2xx a branch of an INVITE hears first reaches the caller while the context is
\* open, also after another final response and on a branch that was cancelled.
THEOREM SuccessRelayed == SpecAll => SuccessRelayedWhileOpen
  <1>1. TransactionInv /\ [NextAll]_allVars => [RelaysSuccess]_allVars
    <2> SUFFICES ASSUME TransactionInv, NextAll, ~ UNCHANGED allVars PROVE RelaysSuccess
      OBVIOUS
    <2>1. ~Quiet
      BY DEF Quiet
    <2> QED BY <2>1, TransactionStep DEF TransactionsKept
  <1>2. SpecAll => [][RelaysSuccess]_allVars
    BY <1>1, TransactionInvariance, PTL DEF SpecAll
  <1> QED BY <1>2 DEF SuccessRelayedWhileOpen, RelaysSuccess

-----------------------------------------------------------------------------
(* Selection: what the caller is told when no branch decided by itself *)

AllIds(bs) == {bs[k].id : k \in DOMAIN bs}
ConcludedIds(bs) == {bs[k].id : k \in {j \in DOMAIN bs : bs[j].state = "Concluded"}}

\* The branches have different ids, and the next group's ids are none of theirs.
Numbered(bs) ==
    /\ \A k \in DOMAIN bs : bs[k].id < Len(bs)
    /\ \A j, k \in DOMAIN bs : bs[j].id = bs[k].id => j = k

HeardOf == {h.branch : h \in heard}

\* Every final the caller was sent was relayed on arrival.
AllRelayed == \A k \in DOMAIN upstream : Relayed(upstream[k])

\* While the context is open, what it collected is what the kernel and Timer C saw.
Tally ==
    /\ HeardOf \subseteq AllIds(branches)
    /\ ConcludedIds(branches) \subseteq HeardOf
    /\ ~answered => finals = heard /\ upstream = <<>>
    /\ AllRelayed

SelectionInv ==
    /\ Numbered(branches)
    /\ QueueBuilds
    /\ ~finished => Tally
    /\ SelectionIsBest

\* cs are the branches bs in other states; only branches of these ids were concluded.
Recasts(bs, cs, ids) ==
    /\ DOMAIN cs = DOMAIN bs
    /\ Len(cs) = Len(bs)
    /\ \A k \in DOMAIN bs :
          /\ cs[k].id = bs[k].id
          /\ cs[k].state = "Concluded" => bs[k].state = "Concluded" \/ bs[k].id \in ids

\* Which branches there are does not depend on their states.
LEMMA RecastIds ==
  ASSUME NEW bs, NEW cs, NEW ids, Recasts(bs, cs, ids)
  PROVE  /\ Numbered(bs) => Numbered(cs)
         /\ AllIds(cs) = AllIds(bs)
         /\ ConcludedIds(cs) \subseteq ConcludedIds(bs) \cup ids
  <1>1. Numbered(bs) => Numbered(cs)
    BY DEF Recasts, Numbered
  <1>2. AllIds(cs) = AllIds(bs)
    BY DEF Recasts, AllIds
  <1>3. ConcludedIds(cs) \subseteq ConcludedIds(bs) \cup ids
    BY DEF Recasts, ConcludedIds
  <1> QED BY <1>1, <1>2, <1>3

LEMMA RecastTwice ==
  ASSUME NEW bs, NEW cs, NEW ds, NEW ids, Recasts(bs, cs, ids), Recasts(cs, ds, {})
  PROVE  Recasts(bs, ds, ids)
  BY DEF Recasts

LEMMA ConcludeRecasts ==
  ASSUME NEW bs \in Seq(Branch), NEW id, NEW status \in 100..699
  PROVE  Recasts(bs, Conclude(bs, id, status), {id})
  <1> DEFINE cs == Conclude(bs, id, status)
  <1>1. \A k \in DOMAIN bs : bs[k] \in Branch
    OBVIOUS
  <1>2. DOMAIN cs = DOMAIN bs /\ Len(cs) = Len(bs)
    <2>1. Len(cs) = Len(bs)
      BY ConcludeType, SMTT(40)
    <2>2. DOMAIN cs = DOMAIN bs
      BY DEF Conclude
    <2> QED BY <2>1, <2>2
  <1>3. ASSUME NEW k \in DOMAIN bs
        PROVE  /\ cs[k].id = bs[k].id
               /\ cs[k].state = "Concluded" => bs[k].state = "Concluded" \/ bs[k].id \in {id}
    <2>1. CASE bs[k].id = id
      <3>1. cs[k] = [bs[k] EXCEPT !.state = "Concluded", !.code = status]
        BY <2>1 DEF Conclude
      <3>2. cs[k].id = bs[k].id
        BY <1>1, <3>1, ZenonT(40) DEF Branch
      <3> QED BY <2>1, <3>2
    <2>2. CASE bs[k].id # id
      BY <2>2 DEF Conclude
    <2> QED BY <2>1, <2>2
  <1> HIDE DEF cs
  <1>4. Recasts(bs, cs, {id})
    BY <1>2, <1>3, Zenon DEF Recasts
  <1> QED BY <1>4 DEF cs

LEMMA CancellingRecasts ==
  ASSUME NEW bs \in Seq(Branch), NEW ids
  PROVE  Recasts(bs, SetCancelling(bs, ids), {})
  <1> DEFINE cs == SetCancelling(bs, ids)
  <1>1. \A k \in DOMAIN bs : bs[k] \in Branch
    OBVIOUS
  <1>2. DOMAIN cs = DOMAIN bs /\ Len(cs) = Len(bs)
    <2>1. Len(cs) = Len(bs)
      BY SetCancellingType
    <2>2. DOMAIN cs = DOMAIN bs
      BY DEF SetCancelling
    <2> QED BY <2>1, <2>2
  <1>3. ASSUME NEW k \in DOMAIN bs
        PROVE  /\ cs[k].id = bs[k].id
               /\ cs[k].state = "Concluded" => bs[k].state = "Concluded"
    <2>1. CASE bs[k].id \in ids
      <3>1. cs[k] = [bs[k] EXCEPT !.state = "Cancelling"]
        BY <2>1 DEF SetCancelling
      <3>2. cs[k].id = bs[k].id
        BY <1>1, <3>1, ZenonT(40) DEF Branch
      <3>3. cs[k].state = "Cancelling"
        BY <1>1, <3>1, ZenonT(40) DEF Branch
      <3> QED BY <3>2, <3>3
    <2>2. CASE bs[k].id \notin ids
      BY <2>2 DEF SetCancelling
    <2> QED BY <2>1, <2>2
  <1> HIDE DEF cs
  <1>4. Recasts(bs, cs, {})
    BY <1>2, <1>3, Zenon DEF Recasts
  <1> QED BY <1>4 DEF cs

LEMMA ProvisionalRecasts ==
  ASSUME NEW bs \in Seq(Branch), NEW id
  PROVE  Recasts(bs, MarkProvisional(bs, id), {})
  <1> DEFINE cs == MarkProvisional(bs, id)
  <1>1. \A k \in DOMAIN bs : bs[k] \in Branch
    OBVIOUS
  <1>2. DOMAIN cs = DOMAIN bs /\ Len(cs) = Len(bs)
    <2>1. Len(cs) = Len(bs)
      BY MarkProvisionalType
    <2>2. DOMAIN cs = DOMAIN bs
      BY DEF MarkProvisional
    <2> QED BY <2>1, <2>2
  <1>3. ASSUME NEW k \in DOMAIN bs
        PROVE  /\ cs[k].id = bs[k].id
               /\ cs[k].state = "Concluded" => bs[k].state = "Concluded"
    <2>1. CASE bs[k].id = id /\ bs[k].state = "Pending"
      <3>1. cs[k] = [bs[k] EXCEPT !.sawProvisional = TRUE, !.cancelQueued = FALSE]
        BY <2>1 DEF MarkProvisional
      <3>2. cs[k].id = bs[k].id /\ cs[k].state = bs[k].state
        BY <1>1, <3>1, ZenonT(40) DEF Branch
      <3> QED BY <3>2
    <2>2. CASE ~(bs[k].id = id /\ bs[k].state = "Pending")
      BY <2>2 DEF MarkProvisional
    <2> QED BY <2>1, <2>2
  <1> HIDE DEF cs
  <1>4. Recasts(bs, cs, {})
    BY <1>2, <1>3, Zenon DEF Recasts
  <1> QED BY <1>4 DEF cs

LEMMA WithdrawalRecasts ==
  ASSUME branches \in Seq(Branch), OnUpstreamCancelled, branches' \in Seq(Branch)
  PROVE  Recasts(branches, branches', {})
  <1> DEFINE now == {b \in PendingIds(branches) :
                       \E k \in DOMAIN branches : /\ branches[k].id = b
                                                  /\ branches[k].state = "Pending"
                                                  /\ branches[k].sawProvisional}
  <1>1. branches' = [k \in DOMAIN branches |->
                       IF branches[k].id \in now
                         THEN [branches[k] EXCEPT !.state = "Cancelling"]
                       ELSE IF branches[k].state = "Pending"
                         THEN [branches[k] EXCEPT !.cancelQueued = TRUE]
                       ELSE branches[k]]
    BY DEF OnUpstreamCancelled
  <1> HIDE DEF now
  <1>2. ASSUME NEW k \in DOMAIN branches
        PROVE  /\ branches'[k].id = branches[k].id
               /\ branches'[k].state = "Concluded" => branches[k].state = "Concluded"
    <2>0. branches[k] \in Branch
      OBVIOUS
    <2>1. CASE branches[k].id \in now
      <3>1. branches'[k] = [branches[k] EXCEPT !.state = "Cancelling"]
        BY <1>1, <2>1
      <3>2. branches'[k].id = branches[k].id
        BY <2>0, <3>1, ZenonT(40) DEF Branch
      <3>3. branches'[k].state = "Cancelling"
        BY <2>0, <3>1, ZenonT(40) DEF Branch
      <3> QED BY <3>2, <3>3
    <2>2. CASE branches[k].id \notin now /\ branches[k].state = "Pending"
      <3>1. branches'[k] = [branches[k] EXCEPT !.cancelQueued = TRUE]
        BY <1>1, <2>2
      <3>2. branches'[k].id = branches[k].id
        BY <2>0, <3>1, ZenonT(40) DEF Branch
      <3>3. branches'[k].state = branches[k].state
        BY <2>0, <3>1, ZenonT(40) DEF Branch
      <3> QED BY <3>2, <3>3
    <2>3. CASE branches[k].id \notin now /\ branches[k].state # "Pending"
      BY <1>1, <2>3
    <2> QED BY <2>1, <2>2, <2>3
  <1>3. DOMAIN branches' = DOMAIN branches /\ Len(branches') = Len(branches)
    BY <1>1
  <1> QED BY <1>2, <1>3, Zenon DEF Recasts

LEMMA JoinedLength ==
  ASSUME NEW bs \in Seq(Branch), NEW fresh \in Seq(Branch)
  PROVE  Len(bs \o fresh) = Len(bs) + Len(fresh)
  OBVIOUS

\* A group of targets that all build is numbered on.
LEMMA ForkNumbers ==
  ASSUME NEW r, NEW bs \in Seq(Branch), NEW ts \in Seq(Target),
         \A k \in DOMAIN ts : ts[k].builds, ForkNextGroup(r, bs, ts), Numbered(bs)
  PROVE  /\ Numbered(branches')
         /\ AllIds(bs) \subseteq AllIds(branches')
         /\ ConcludedIds(branches') \subseteq ConcludedIds(bs)
         /\ Silent(effects') /\ finished' = finished /\ answered' = answered
  <1>1. PICK n \in {k \in 1..Len(ts) : IsLeadingGroup(ts, k, MaxBreadth(r))} :
          \E m \in 0..n : \E pos \in [1..m -> 1..n] :
            /\ ListsBuilt(ts, n, m, pos)
            /\ LaunchGroup(r, bs, ts, n, [k \in 1..m |-> NewBranch(Len(bs) + pos[k] - 1)])
    BY Zenon DEF ForkNextGroup
  <1>2. PICK m \in 0..n : \E pos \in [1..m -> 1..n] :
            /\ ListsBuilt(ts, n, m, pos)
            /\ LaunchGroup(r, bs, ts, n, [k \in 1..m |-> NewBranch(Len(bs) + pos[k] - 1)])
    BY <1>1
  <1>3. PICK pos \in [1..m -> 1..n] :
            /\ ListsBuilt(ts, n, m, pos)
            /\ LaunchGroup(r, bs, ts, n, [k \in 1..m |-> NewBranch(Len(bs) + pos[k] - 1)])
    BY <1>2
  <1> DEFINE fresh == [k \in 1..m |-> NewBranch(Len(bs) + pos[k] - 1)]
  <1>4. n \in 1..Len(ts) /\ n \in Nat /\ m \in Nat /\ m <= n
    OBVIOUS
  <1>5. m = n
    <2>1. {k \in 1..n : ts[k].builds} = 1..n
      BY <1>4
    <2>2. pos \in Surjection(1..m, 1..n)
      BY <1>3, <2>1 DEF ListsBuilt, Surjection
    <2>3. /\ IsFiniteSet(1..m) /\ Cardinality(1..m) = m
          /\ Cardinality(1..n) = n
      BY <1>4, FS_Interval
    <2>4. Cardinality(1..n) <= Cardinality(1..m)
      BY <2>2, <2>3, FS_Surjection
    <2> QED BY <1>4, <2>3, <2>4
  <1>6. \A i, j \in 1..m : pos[i] = pos[j] => i = j
    <2>1. \A i, j \in 1..m : i < j => pos[i] < pos[j]
      BY <1>3, Zenon DEF ListsBuilt
    <2> SUFFICES ASSUME NEW i \in 1..m, NEW j \in 1..m, pos[i] = pos[j] PROVE i = j
      OBVIOUS
    <2>2. PICK q \in 1..n : q = pos[i] /\ q = pos[j]
      BY <1>4
    <2>3. ~(i < j) /\ ~(j < i)
      BY <1>4, <2>1, <2>2
    <2> QED BY <1>4, <2>3
  <1>7. fresh \in Seq(Branch) /\ Len(fresh) = m /\ DOMAIN fresh = 1..m
    <2>1. \A k \in 1..m : Len(bs) + pos[k] - 1 \in Nat
      BY <1>4
    <2>2. fresh \in [1..m -> Branch]
      BY <2>1, NewBranchType
    <2> QED BY <1>4, <2>2, FunctionIsSeq
  <1>8. \A k \in 1..m : /\ fresh[k].id = Len(bs) + pos[k] - 1
                        /\ fresh[k].state = "Pending"
    BY DEF NewBranch
  <1>9. LaunchGroup(r, bs, ts, n, fresh) /\ branches' = bs \o fresh
    BY <1>3 DEF LaunchGroup
  <1> HIDE DEF fresh
  <1>10. /\ Len(bs) \in Nat /\ DOMAIN bs = 1..Len(bs)
         /\ Len(bs \o fresh) = Len(bs) + m /\ DOMAIN (bs \o fresh) = 1..(Len(bs) + m)
    <2>1. Len(bs) \in Nat /\ DOMAIN bs = 1..Len(bs)
      OBVIOUS
    <2>2. bs \o fresh \in Seq(Branch)
      BY <1>7
    <2>3. Len(bs \o fresh) = Len(bs) + Len(fresh)
      BY <1>7, JoinedLength
    <2>4. DOMAIN (bs \o fresh) = 1..Len(bs \o fresh)
      BY <2>2
    <2> QED BY <1>7, <2>1, <2>3, <2>4, Zenon
  <1>11. \A k \in DOMAIN (bs \o fresh) :
            \/ k \in DOMAIN bs /\ (bs \o fresh)[k] = bs[k]
            \/ k - Len(bs) \in 1..m /\ (bs \o fresh)[k] = fresh[k - Len(bs)]
    BY <1>4, <1>7
  <1>12. \A k \in DOMAIN bs : k \in DOMAIN (bs \o fresh) /\ (bs \o fresh)[k] = bs[k]
    BY <1>7
  <1>13. \A k \in DOMAIN bs : bs[k].id < Len(bs) /\ bs[k].id \in Nat
    <2> SUFFICES ASSUME NEW k \in DOMAIN bs PROVE bs[k].id < Len(bs) /\ bs[k].id \in Nat
      OBVIOUS
    <2>1. bs[k] \in Branch
      OBVIOUS
    <2> QED BY <2>1 DEF Numbered, Branch
  <1>14. \A k \in 1..m : pos[k] \in 1..m
    BY <1>5
  <1> DEFINE all == bs \o fresh
             L == Len(bs)
  \* An id of the old ones, or the number of a new one.
  <1>15. ASSUME NEW k \in DOMAIN all
         PROVE  \/ k \in 1..L /\ all[k].id \in 0..(L - 1)
                \/ k - L \in 1..m /\ all[k].id = L + (pos[k - L] - 1)
    <2>1. CASE k \in DOMAIN bs /\ all[k] = bs[k]
      <3>1. bs[k].id \in Nat /\ bs[k].id < L /\ L \in Nat
        BY <1>10, <1>13, <2>1
      <3>2. bs[k].id \in 0..(L - 1)
        <4> HIDE DEF L
        <4> QED BY <3>1
      <3> QED BY <1>10, <2>1, <3>2
    <2>2. CASE k - L \in 1..m /\ all[k] = fresh[k - L]
      <3>1. pos[k - L] \in 1..m /\ all[k].id = L + pos[k - L] - 1
        BY <1>8, <1>14, <2>2
      <3>2. PICK q \in 1..m : q = pos[k - L]
        BY <3>1
      <3>3. L + q - 1 = L + (q - 1)
        BY <1>4, <1>10
      <3> QED BY <2>2, <3>1, <3>2, <3>3, Zenon
    <2> QED BY <1>11, <2>1, <2>2
  <1>16. L \in Nat /\ DOMAIN all = 1..(L + m) /\ Len(all) = L + m
    BY <1>10
  <1>17. Numbered(branches')
    <2> HIDE DEF all, L
    <2>1. ASSUME NEW k \in DOMAIN all PROVE all[k].id < Len(all)
      <3>1. CASE k \in 1..L /\ all[k].id \in 0..(L - 1)
        BY <1>4, <1>16, <3>1
      <3>2. CASE k - L \in 1..m /\ all[k].id = L + (pos[k - L] - 1)
        <4>1. PICK q \in 1..m : q = pos[k - L]
          BY <1>14, <3>2
        <4>2. L + (q - 1) < L + m
          BY <1>4, <1>16
        <4> QED BY <1>16, <3>2, <4>1, <4>2, Zenon
      <3> QED BY <1>15, <3>1, <3>2
    <2>2. ASSUME NEW j \in DOMAIN all, NEW k \in DOMAIN all, all[j].id = all[k].id
          PROVE  j = k
      <3>0. j \in Int /\ k \in Int
        BY <1>16
      <3>1. CASE j \in 1..L /\ k \in 1..L
        <4>1. j \in DOMAIN bs /\ k \in DOMAIN bs
          BY <1>10, <3>1 DEF L
        <4>2. all[j] = bs[j] /\ all[k] = bs[k]
          BY <1>12, <4>1 DEF all
        <4> QED BY <2>2, <4>1, <4>2 DEF Numbered
      <3>2. CASE /\ j - L \in 1..m /\ all[j].id = L + (pos[j - L] - 1)
                 /\ k - L \in 1..m /\ all[k].id = L + (pos[k - L] - 1)
        <4>1. PICK q \in 1..m : q = pos[j - L]
          BY <1>14, <3>2
        <4>2. PICK q2 \in 1..m : q2 = pos[k - L]
          BY <1>14, <3>2
        <4>3. L + (q - 1) = L + (q2 - 1)
          BY <2>2, <3>2, <4>1, <4>2, Zenon
        <4>4. q = q2
          BY <1>4, <1>16, <4>3
        <4>5. j - L = k - L
          BY <1>6, <3>2, <4>1, <4>2, <4>4
        <4> QED BY <1>16, <3>0, <4>5
      <3>3. ASSUME NEW a \in DOMAIN all, NEW b \in DOMAIN all, all[a].id = all[b].id,
                   all[a].id \in 0..(L - 1),
                   b - L \in 1..m, all[b].id = L + (pos[b - L] - 1)
            PROVE  FALSE
        <4>1. PICK q \in 1..m : q = pos[b - L]
          BY <1>14, <3>3
        <4>2. PICK i \in 0..(L - 1) : i = all[a].id
          BY <3>3
        <4>3. i = L + (q - 1)
          BY <3>3, <4>1, <4>2, Zenon
        <4> QED BY <1>4, <1>16, <4>3
      <3>4. /\ \/ j \in 1..L /\ all[j].id \in 0..(L - 1)
               \/ j - L \in 1..m /\ all[j].id = L + (pos[j - L] - 1)
            /\ \/ k \in 1..L /\ all[k].id \in 0..(L - 1)
               \/ k - L \in 1..m /\ all[k].id = L + (pos[k - L] - 1)
        BY <1>15
      <3> QED BY <2>2, <3>1, <3>2, <3>3, <3>4, Zenon
    <2>3. Numbered(all)
      BY <2>1, <2>2 DEF Numbered
    <2> QED BY <1>9, <2>3 DEF all
  <1>18. AllIds(bs) \subseteq AllIds(branches')
    <2> SUFFICES ASSUME NEW k \in DOMAIN bs PROVE bs[k].id \in AllIds(bs \o fresh)
      BY <1>9 DEF AllIds
    <2> QED BY <1>12, Zenon DEF AllIds
  <1>19. ConcludedIds(branches') \subseteq ConcludedIds(bs)
    <2> SUFFICES ASSUME NEW k \in DOMAIN (bs \o fresh), (bs \o fresh)[k].state = "Concluded"
                 PROVE  (bs \o fresh)[k].id \in ConcludedIds(bs)
      BY <1>9 DEF ConcludedIds
    <2>1. ~(k - Len(bs) \in 1..m /\ (bs \o fresh)[k] = fresh[k - Len(bs)])
      BY <1>8
    <2>2. k \in DOMAIN bs /\ (bs \o fresh)[k] = bs[k]
      BY <1>11, <2>1
    <2> QED BY <2>2 DEF ConcludedIds
  <1>20. bs \o fresh # <<>>
    BY <1>4, <1>5, <1>10
  <1>21. Silent(effects') /\ finished' = finished /\ answered' = answered
    <2>1. effects' = ForkEffects(r, fresh, n) /\ finished' = finished /\ answered' = answered
      BY <1>9, <1>20 DEF LaunchGroup
    <2> QED BY <1>7, <2>1, Forking
  <1> QED BY <1>17, <1>18, <1>19, <1>21

\* A call that tells the caller no final carries no challenge to it, and one that tells a
\* challenge speaks for every branch that made it.
LEMMA Unchallenged ==
  ASSUME Silent(effects')
  PROVE  ChallengesAreAggregated'
  <1> SUFFICES ASSUME NEW k \in DOMAIN effects', effects'[k].kind = "Respond",
                      effects'[k].status \in {401, 407}
               PROVE  FALSE
    BY DEF ChallengesAreAggregated
  <1>1. effects'[k].status >= 200
    OBVIOUS
  <1> QED BY <1>1 DEF Silent, FinalsAt

LEMMA Challenging ==
  ASSUME NEW status, NEW from, Tells(effects', status, from),
         status \in {401, 407} => from = SpeaksFor(heard', status)
  PROVE  ChallengesAreAggregated'
  <1> SUFFICES ASSUME NEW k \in DOMAIN effects', effects'[k].kind = "Respond",
                      effects'[k].status \in {401, 407}
               PROVE  effects'[k].from = SpeaksFor(heard', effects'[k].status)
    BY DEF ChallengesAreAggregated, SpeaksFor
  <1>1. effects'[k].status >= 200
    OBVIOUS
  <1>2. k = 1
    BY <1>1 DEF Tells, FinalsAt
  <1>3. effects'[k].status = status /\ effects'[k].from = from
    BY <1>2 DEF Tells, Respond
  <1> QED BY <1>3

\* Finals that were relayed on arrival are not selections.
LEMMA RelayedOnly ==
  ASSUME AllRelayed'
  PROVE  BestIsSelected' /\ SelectedFinalStandsAlone'
  <1>1. \A k \in DOMAIN upstream' : Relayed(upstream[k])'
    BY DEF AllRelayed
  <1>2. BestIsSelected'
    BY <1>1 DEF BestIsSelected, Relayed
  <1>3. SelectedFinalStandsAlone'
    BY <1>1 DEF SelectedFinalStandsAlone, Relayed
  <1> QED BY <1>2, <1>3

\* A call that tells no final leaves the relayed ones.
LEMMA StillRelayed ==
  ASSUME upstream \in Sent, effects' \in Seq(Effect), Reply, Silent(effects'),
         AllRelayed, request' = request
  PROVE  /\ upstream' = upstream /\ AllRelayed'
         /\ SelectionIsBest'
  <1>1. upstream' = upstream
    BY Replied
  <1>2. AllRelayed'
    BY <1>1 DEF AllRelayed, Relayed
  <1> QED BY <1>1, <1>2, RelayedOnly, Unchallenged DEF SelectionIsBest

\* What every step of the performing shares.
Performs == upstream \in Sent /\ effects' \in Seq(Effect) /\ Reply

\* A call that concludes nothing and tells nothing.
LEMMA RecastKeeps ==
  ASSUME SelectionInv, Performs, ~finished, Recasts(branches, branches', {}),
         Silent(effects'), queued' = queued \/ queued' = <<>>,
         heard' = heard, finals' = finals, answered' = answered, finished' = finished,
         request' = request
  PROVE  SelectionInv'
  <1>1. Tally /\ Numbered(branches) /\ QueueBuilds
    BY DEF SelectionInv
  <1>2. /\ Numbered(branches') /\ AllIds(branches') = AllIds(branches)
        /\ ConcludedIds(branches') \subseteq ConcludedIds(branches)
    BY <1>1, RecastIds
  <1>3. QueueBuilds'
    BY <1>1 DEF QueueBuilds
  <1>4. upstream' = upstream /\ AllRelayed' /\ SelectionIsBest'
    BY <1>1, StillRelayed DEF Tally, Performs
  <1>5. Tally'
    BY <1>1, <1>2, <1>4 DEF Tally, HeardOf
  <1> QED BY <1>2, <1>3, <1>4, <1>5 DEF SelectionInv

\* A call that ignores its input.
LEMMA IgnoreKeeps ==
  ASSUME SelectionInv, Performs, Ignore, heard' = heard
  PROVE  SelectionInv'
  <1>1. /\ effects' = <<>> /\ branches' = branches /\ queued' = queued /\ finals' = finals
        /\ answered' = answered /\ finished' = finished /\ request' = request
    BY DEF Ignore
  <1>2. upstream' = upstream
    BY <1>1, NoEffects, Replied DEF Performs
  <1>3. ChallengesAreAggregated'
    BY <1>1, NoEffects, Unchallenged
  <1>4. BestIsSelected' /\ SelectedFinalStandsAlone'
    <2>1. BestIsSelected /\ SelectedFinalStandsAlone
      BY DEF SelectionInv, SelectionIsBest
    <2>2. Outcomes' = Outcomes /\ BranchIds' = BranchIds /\ \A s : Relayed(s)' = Relayed(s)
      BY <1>1 DEF Outcomes, BranchIds, Relayed
    <2>3. BestIsSelected'
      BY <1>1, <1>2, <2>1, <2>2 DEF BestIsSelected
    <2>4. SelectedFinalStandsAlone'
      BY <1>2, <2>1 DEF SelectedFinalStandsAlone
    <2> QED BY <2>3, <2>4
  <1>5. Numbered(branches') /\ QueueBuilds'
    BY <1>1 DEF SelectionInv, QueueBuilds
  <1>6. ~finished' => Tally'
    BY <1>1, <1>2 DEF SelectionInv, Tally, HeardOf, AllRelayed, Relayed
  <1> QED BY <1>3, <1>4, <1>5, <1>6 DEF SelectionInv, SelectionIsBest

\* The kernel's account of a final, while the caller can be told.
HeardAlso(id, status) == heard' = heard \cup {[branch |-> id, status |-> status]}

LEMMA HeardIds ==
  ASSUME NEW id, NEW status, HeardAlso(id, status)
  PROVE  HeardOf' = HeardOf \cup {id}
  <1> DEFINE final == [branch |-> id, status |-> status]
  <1>1. heard' = heard \cup {final} /\ final.branch = id
    BY DEF HeardAlso
  <1> HIDE DEF final
  <1> QED BY <1>1 DEF HeardOf

\* With nothing in flight every branch has concluded.
LEMMA AllConcluded ==
  ASSUME NEW bs, ~HasPending(bs)
  PROVE  AllIds(bs) = ConcludedIds(bs)
  BY DEF HasPending, AllIds, ConcludedIds

\* R7: a final that settles nothing by itself; the last one brings the selection.
LEMMA ConclusionKeeps ==
  ASSUME IndInv, finals \subseteq Collected, SelectionInv, Performs, ~finished,
         NEW id \in BranchIds, NEW status \in 200..699,
         Concludes(id, status), HeardAlso(id, status)
  PROVE  SelectionInv'
  <1> DEFINE bs == Conclude(branches, id, status)
             fs == finals \cup {[branch |-> id, status |-> status]}
  <1>1. Tally /\ Numbered(branches) /\ QueueBuilds
    BY DEF SelectionInv
  <1>2. branches \in Seq(Branch) /\ queued \in Seq(Target) /\ answered \in BOOLEAN
    BY DEF IndInv, TypeOK
  <1>3. bs \in Seq(Branch) /\ Recasts(branches, bs, {id})
    <2>1. status \in 100..699
      OBVIOUS
    <2>2. bs \in Seq(Branch)
      BY <1>2, <2>1, ConcludeType, ZenonT(40)
    <2> QED BY <1>2, <2>1, <2>2, ConcludeRecasts, ZenonT(40)
  <1>4. HeardOf' = HeardOf \cup {id} /\ id \in AllIds(branches)
    BY HeardIds DEF AllIds, BranchIds
  <1>5. AfterConclusion(bs, fs)
    BY DEF Concludes
  <1>6. ~answered => fs = heard'
    BY <1>1 DEF Tally, HeardAlso
  <1>7. fs \in SUBSET Collected
    <2>1. id \in Nat
      BY BranchFacts
    <2> DEFINE final == [branch |-> id, status |-> status]
    <2>2. final \in Collected
      BY <2>1, OneFinal, Zenon
    <2>3. fs = finals \cup {final}
      OBVIOUS
    <2> HIDE DEF final, fs
    <2> QED BY <2>2, <2>3
  <1> HIDE DEF bs, fs
  <1>8. /\ Numbered(bs) /\ AllIds(bs) = AllIds(branches)
        /\ ConcludedIds(bs) \subseteq ConcludedIds(branches) \cup {id}
    BY <1>1, <1>3, RecastIds
  <1>9. HeardOf' \subseteq AllIds(bs) /\ ConcludedIds(bs) \subseteq HeardOf'
    BY <1>1, <1>4, <1>8 DEF Tally
  <1>10. finals' = fs /\ request' = request
    BY <1>5 DEF AfterConclusion
  <1>11. CASE HasPending(bs)
    <2>1. /\ branches' = bs /\ effects' = <<>> /\ queued' = queued
          /\ answered' = answered /\ finished' = finished
      BY <1>5, <1>11 DEF AfterConclusion
    <2>2. upstream' = upstream /\ AllRelayed' /\ SelectionIsBest'
      BY <1>1, <1>10, <2>1, StillRelayed, NoEffects DEF Tally, Performs
    <2>3. Tally'
      BY <1>1, <1>6, <1>9, <1>10, <2>1, <2>2 DEF Tally
    <2> QED BY <1>1, <1>8, <2>1, <2>2, <2>3 DEF SelectionInv, QueueBuilds
  <1>12. CASE ~HasPending(bs) /\ MayForkNextGroup
    <2>1. ForkNextGroup(request, bs, queued) /\ \A k \in DOMAIN queued : queued[k].builds
      BY <1>1, <1>5, <1>12 DEF AfterConclusion, QueueBuilds
    <2>2. /\ Numbered(branches')
          /\ AllIds(bs) \subseteq AllIds(branches')
          /\ ConcludedIds(branches') \subseteq ConcludedIds(bs)
          /\ Silent(effects') /\ finished' = finished /\ answered' = answered
      BY <1>2, <1>3, <1>8, <2>1, ForkNumbers
    <2>3. QueueBuilds'
      BY <1>2, <1>3, <2>1, ForkLaunches DEF QueueBuilds
    <2>4. upstream' = upstream /\ AllRelayed' /\ SelectionIsBest'
      BY <1>1, <1>10, <2>2, StillRelayed DEF Tally, Performs
    <2>5. Tally'
      BY <1>1, <1>6, <1>9, <1>10, <2>2, <2>4 DEF Tally
    <2> QED BY <2>2, <2>3, <2>4, <2>5 DEF SelectionInv
  <1>13. CASE ~HasPending(bs) /\ ~MayForkNextGroup
    <2>1. branches' = bs /\ queued' = queued /\ SelectAndAnswer(bs, fs)
      BY <1>5, <1>13 DEF AfterConclusion
    <2>2. finished' = TRUE /\ IF answered THEN Silent(effects') ELSE ToldBest(fs)
      BY <1>3, <1>7, <2>1, Selecting
    <2>3. Numbered(branches') /\ QueueBuilds'
      BY <1>1, <1>8, <2>1 DEF QueueBuilds
    <2>4. CASE answered
      <3>1. SelectionIsBest'
        BY <1>1, <1>10, <2>2, <2>4, StillRelayed DEF Tally, Performs
      <3> QED BY <2>2, <2>3, <3>1 DEF SelectionInv
    <2>5. CASE ~answered
      <3>0. fs = heard' /\ upstream = <<>>
        BY <1>1, <1>6, <2>5 DEF Tally
      <3>1. PICK best \in {f.status : f \in fs} :
              /\ IsBestFinal(fs, best)
              /\ \/ best = 503 /\ Tells(effects', 500, {})
                 \/ best # 503 /\ Tells(effects', best, SpeaksFor(fs, best))
        BY <2>2, <2>5 DEF ToldBest
      <3> DEFINE told == IF best = 503 THEN 500 ELSE best
      <3>2. upstream' = <<told>>
        <4>1. upstream' = Append(upstream, told)
          BY <3>1, Replied DEF Performs
        <4> QED BY <3>0, <4>1
      <3>3. ChallengesAreAggregated'
        BY <3>0, <3>1, Challenging
      <3>4. best \in Outcomes' /\ \A t \in Outcomes' : Preferred(best, t)
        BY <3>0, <3>1 DEF Outcomes, IsBestFinal
      <3>5. BranchIds' = {h.branch : h \in heard'}
        <4>1. AllIds(bs) = HeardOf'
          BY <1>9, <1>13, AllConcluded
        <4> QED BY <2>1, <4>1, SMTT(40) DEF AllIds, BranchIds, HeardOf
      <3> HIDE DEF told
      <3>6. DOMAIN upstream' = {1} /\ upstream'[1] = told /\ Len(upstream') = 1
        BY <3>2
      <3>7. BestIsSelected'
        BY <3>4, <3>5, <3>6 DEF BestIsSelected, told
      <3>8. SelectedFinalStandsAlone'
        BY <3>6 DEF SelectedFinalStandsAlone
      <3> QED BY <2>2, <2>3, <3>3, <3>7, <3>8 DEF SelectionInv, SelectionIsBest
    <2> QED BY <2>4, <2>5
  <1> QED BY <1>11, <1>12, <1>13

\* R5 and R6: a final that is relayed on arrival.
LEMMA ConcludingKeeps ==
  ASSUME IndInv, SelectionInv, Performs, ~finished,
         NEW id \in BranchIds, NEW status \in 200..699, NEW fs, Relayed(status),
         OnConcludingFinal(id, status, fs), HeardAlso(id, status)
  PROVE  SelectionInv'
  <1> DEFINE bs == Conclude(branches, id, status)
  <1>1. Tally /\ Numbered(branches) /\ branches \in Seq(Branch)
    BY DEF SelectionInv, IndInv, TypeOK
  <1>2. /\ branches' = SetCancelling(bs, PendingIds(bs))
        /\ queued' = <<>> /\ answered' = TRUE /\ request' = request
    BY DEF OnConcludingFinal, ConcludeTargetSet
  <1>3. Recasts(branches, branches', {id})
    <2>1. status \in 100..699
      OBVIOUS
    <2>2. bs \in Seq(Branch)
      BY <1>1, <2>1, ConcludeType, ZenonT(40)
    <2>3. Recasts(branches, bs, {id})
      BY <1>1, <2>1, ConcludeRecasts, ZenonT(40)
    <2> HIDE DEF bs
    <2>4. Recasts(bs, branches', {})
      BY <1>2, <2>2, CancellingRecasts
    <2> QED BY <2>3, <2>4, RecastTwice, Zenon
  <1> HIDE DEF bs
  <1>4. HeardOf' = HeardOf \cup {id} /\ id \in AllIds(branches)
    BY HeardIds DEF AllIds, BranchIds
  <1>5. /\ Numbered(branches') /\ AllIds(branches') = AllIds(branches)
        /\ ConcludedIds(branches') \subseteq ConcludedIds(branches) \cup {id}
    BY <1>1, <1>3, RecastIds
  <1>6. Tells(effects', status, {id})
    <2>1. id \in Nat
      BY BranchFacts
    <2> QED BY <2>1, ConcludingStops, ZenonT(40)
  <1>7. upstream' = Append(upstream, status)
    BY <1>6, Replied DEF Performs
  <1>8. AllRelayed'
    <2>1. \A k \in DOMAIN upstream' : \/ k \in DOMAIN upstream /\ upstream'[k] = upstream[k]
                                    \/ upstream'[k] = status
      BY <1>7 DEF Performs, Sent
    <2>2. \A k \in DOMAIN upstream' : Relayed(upstream'[k])
      BY <1>1, <2>1 DEF Tally, AllRelayed
    <2> QED BY <1>2, <2>2 DEF AllRelayed, Relayed
  <1>9. ChallengesAreAggregated'
    <2>1. status \notin {401, 407}
      BY DEF Relayed
    <2> QED BY <1>6, <2>1, Challenging
  <1>10. Tally'
    BY <1>1, <1>2, <1>4, <1>5, <1>8 DEF Tally
  <1> QED BY <1>2, <1>5, <1>8, <1>9, <1>10, RelayedOnly DEF SelectionInv, SelectionIsBest, QueueBuilds

\* Before routing nothing was forwarded, heard or told.
Untouched ==
    /\ branches = <<>> /\ queued = <<>> /\ heard = {} /\ finals = {} /\ upstream = <<>>
    /\ ~answered /\ ~finished

LEMMA UntouchedBefore ==
  ASSUME IndInv, SelectionInv, ~finished, request = NoRequest \/ asked # "none"
  PROVE  Untouched
  <1>1. branches = <<>> /\ queued = <<>> /\ ~answered
    BY DEF IndInv, QuestionsComeFirst
  <1>2. finals = heard /\ upstream = <<>> /\ HeardOf \subseteq AllIds(branches)
    BY <1>1 DEF SelectionInv, Tally
  <1>3. AllIds(branches) = {}
    BY <1>1 DEF AllIds
  <1>4. heard = {}
    BY <1>2, <1>3 DEF HeardOf
  <1> QED BY <1>1, <1>2, <1>4 DEF Untouched

\* The proxy answers the request itself.
LEMMA AnswersAtOnce ==
  ASSUME Untouched, Performs, branches' = branches, queued' = queued, finished' = TRUE,
         Silent(effects') \/ \E status : Tells(effects', status, {}) /\ status \notin {401, 407}
  PROVE  SelectionInv'
  <1>1. branches' = <<>> /\ queued' = <<>> /\ upstream = <<>>
    BY DEF Untouched
  <1>2. Numbered(branches') /\ QueueBuilds'
    BY <1>1 DEF Numbered, QueueBuilds
  <1>3. BestIsSelected'
    BY <1>1 DEF BestIsSelected
  <1>4. SelectedFinalStandsAlone' /\ ChallengesAreAggregated'
    <2>1. CASE Silent(effects')
      <3>1. upstream' = <<>>
        BY <1>1, <2>1, Replied DEF Performs
      <3> QED BY <2>1, <3>1, Unchallenged DEF SelectedFinalStandsAlone
    <2>2. ASSUME NEW status, Tells(effects', status, {}), status \notin {401, 407}
          PROVE  SelectedFinalStandsAlone' /\ ChallengesAreAggregated'
      <3>1. upstream' = Append(<<>>, status)
        BY <1>1, <2>2, Replied DEF Performs
      <3>2. Len(upstream') = 1
        BY <3>1
      <3>3. ChallengesAreAggregated'
        BY <2>2, Challenging
      <3> QED BY <3>2, <3>3 DEF SelectedFinalStandsAlone
    <2> QED BY <2>1, <2>2
  <1> QED BY <1>2, <1>3, <1>4 DEF SelectionInv, SelectionIsBest

\* The first group goes out.
LEMMA FirstForkKeeps ==
  ASSUME IndInv, Untouched, Performs, NEW r, NEW targets \in Seq(Target),
         \A k \in DOMAIN targets : targets[k].builds, OnTargetSet(r, targets),
         heard' = heard, finals' = finals
  PROVE  SelectionInv'
  <1>1. PICK p \in [1..Len(targets) -> 1..Len(targets)] :
           ForkNextGroup(r, branches, [k \in 1..Len(targets) |-> targets[p[k]]])
    BY DEF OnTargetSet
  <1> DEFINE sorted == [k \in 1..Len(targets) |-> targets[p[k]]]
  <1>2. sorted \in [1..Len(targets) -> Target] /\ \A k \in DOMAIN sorted : sorted[k].builds
    OBVIOUS
  <1>3. sorted \in Seq(Target)
    BY <1>2, FunctionIsSeq
  <1>4. ForkNextGroup(r, branches, sorted) /\ branches \in Seq(Branch)
    BY <1>1 DEF IndInv, TypeOK
  <1> HIDE DEF sorted
  <1>5. Numbered(branches) /\ ConcludedIds(branches) = {}
    BY DEF Untouched, Numbered, ConcludedIds
  <1>6. /\ Numbered(branches')
        /\ ConcludedIds(branches') \subseteq ConcludedIds(branches)
        /\ Silent(effects') /\ finished' = finished /\ answered' = answered
    BY <1>2, <1>3, <1>4, <1>5, ForkNumbers
  <1>7. QueueBuilds'
    BY <1>2, <1>3, <1>4, ForkLaunches DEF QueueBuilds
  <1>8. upstream' = <<>>
    BY <1>6, Replied DEF Performs, Untouched
  <1>9. AllRelayed'
    BY <1>8 DEF AllRelayed
  <1>10. SelectionIsBest'
    BY <1>6, <1>9, RelayedOnly, Unchallenged DEF SelectionIsBest
  <1>11. Tally'
    BY <1>5, <1>6, <1>8, <1>9 DEF Tally, HeardOf, Untouched
  <1> QED BY <1>6, <1>7, <1>10, <1>11 DEF SelectionInv

\* The engine puts a question to the driver.
LEMMA AsksFirst ==
  ASSUME Untouched, Performs, Silent(effects'), branches' = branches, queued' = queued,
         answered' = answered, finished' = finished, heard' = heard, finals' = finals
  PROVE  SelectionInv'
  <1>1. /\ branches' = <<>> /\ queued' = <<>> /\ heard' = {} /\ finals' = {}
        /\ upstream' = <<>>
    BY Replied DEF Untouched, Performs
  <1>2. AllRelayed'
    BY <1>1 DEF AllRelayed
  <1>3. SelectionIsBest'
    BY <1>2, RelayedOnly, Unchallenged DEF SelectionIsBest
  <1>4. Tally'
    BY <1>1, <1>2 DEF Tally, HeardOf, ConcludedIds
  <1> QED BY <1>1, <1>3, <1>4 DEF SelectionInv, Numbered, QueueBuilds

LEMMA RouteItKeeps ==
  ASSUME IndInv, Untouched, Performs, NEW r, RouteIt(r), heard' = heard, finals' = finals
  PROVE  SelectionInv'
  <1>1. CASE Predetermined(r)
    <2>1. OnTargetSet(r, <<SoleTarget>>)
      BY <1>1 DEF RouteIt
    <2>2. /\ <<SoleTarget>> \in Seq(Target)
          /\ \A k \in DOMAIN <<SoleTarget>> : <<SoleTarget>>[k].builds
      BY DEF SoleTarget, Target
    <2> QED BY <2>1, <2>2, FirstForkKeeps
  <1>2. CASE ~Predetermined(r)
    <2>1. /\ effects' = <<Simple("ResolveTargets")>> /\ branches' = branches
          /\ queued' = queued /\ answered' = answered /\ finished' = finished
      BY <1>2 DEF RouteIt
    <2>2. Silent(effects')
      BY <2>1, Aside
    <2> QED BY <2>1, <2>2, AsksFirst
  <1> QED BY <1>1, <1>2

\* The engine's questions and the driver's answers.
LEMMA OpeningKeeps ==
  ASSUME AllTargetsBuild, IndInv, SelectionInv, Performs, heard' = heard,
         \/ \E r \in Requests : OnUpstream(r)
         \/ \E v \in {"valid", "invalid"} : OnToken(v)
         \/ \E targets \in TargetSets : OnTargets(targets)
         \/ OnTargetsUnavailable
  PROVE  SelectionInv'
  <1>0. Untouched /\ finals' = finals
    <2>1. ~finished /\ (request = NoRequest \/ asked # "none") /\ finals' = finals
      BY DEF OnUpstream, Refuse, OnToken, OnTargets, OnTargetsUnavailable
    <2> QED BY <2>1, UntouchedBefore
  <1>1. branches \in Seq(Branch)
    BY DEF IndInv, TypeOK
  <1>e. ASSUME NEW status \in 200..699, status \notin {401, 407},
               RespondAndFinish(branches, status), branches' = branches, queued' = queued
        PROVE  SelectionInv'
    <2>1. finished' = TRUE /\ Tells(effects', status, {})
      BY <1>1, <1>e, Finishing, ZenonT(40)
    <2> QED BY <1>0, <1>e, <2>1, AnswersAtOnce
  <1>2. ASSUME NEW r \in Requests, OnUpstream(r) PROVE SelectionInv'
    <2>1. CASE Refuse(r)
      <3>1. PICK v \in 1..6 :
              /\ effects' = IF RefusalStatus[v] = 0
                              THEN <<Terminate>>
                              ELSE <<Respond(RefusalStatus[v], {}), Terminate>>
              /\ finished' = TRUE /\ branches' = branches /\ queued' = queued
        BY <2>1 DEF Refuse
      <3>2. RefusalStatus[v] = 0 \/ RefusalStatus[v] \in 200..699 \ {401, 407}
        BY DEF RefusalStatus
      <3>3. Silent(effects') \/ \E status : Tells(effects', status, {}) /\ status \notin {401, 407}
        <4>1. CASE RefusalStatus[v] = 0
          BY <3>1, <4>1, Aside
        <4>2. CASE RefusalStatus[v] \in 200..699 \ {401, 407}
          <5> DEFINE a == <<Respond(RefusalStatus[v], {})>>
          <5>1. {} \in SUBSET Nat /\ RefusalStatus[v] \in 200..699
            BY <4>2
          <5>2. a \in Seq(Effect) /\ Tells(a, RefusalStatus[v], {})
            BY <5>1, Telling, Zenon
          <5>3. effects' = a \o <<Terminate>>
            BY <3>1, <4>2
          <5> HIDE DEF a
          <5>4. Tells(effects', RefusalStatus[v], {})
            BY <5>2, <5>3, Aside, JoinLists, Zenon
          <5> QED BY <4>2, <5>4
        <4> QED BY <3>2, <4>1, <4>2
      <3> QED BY <1>0, <3>1, <3>3, AnswersAtOnce
    <2>2. CASE ~Refuse(r) /\ Carriage(r)
      <3>1. /\ effects' = <<Simple("VerifyToken")>> /\ branches' = branches /\ queued' = queued
            /\ answered' = answered /\ finished' = finished
        BY <1>2, <2>2 DEF OnUpstream
      <3>2. Silent(effects')
        BY <3>1, Aside
      <3> QED BY <1>0, <3>1, <3>2, AsksFirst
    <2>3. CASE ~Refuse(r) /\ ~Carriage(r)
      <3>1. RouteIt(Preprocess(r))
        BY <1>2, <2>3 DEF OnUpstream
      <3> QED BY <1>0, <3>1, RouteItKeeps
    <2> QED BY <2>1, <2>2, <2>3
  <1>3. ASSUME NEW v \in {"valid", "invalid"}, OnToken(v) PROVE SelectionInv'
    <2>1. \/ RouteIt(request)
          \/ RespondAndFinish(branches, 403) /\ branches' = branches /\ queued' = queued
      BY <1>3 DEF OnToken
    <2>2. 403 \in 200..699 /\ 403 \notin {401, 407}
      OBVIOUS
    <2> QED BY <1>0, <1>e, <2>1, <2>2, RouteItKeeps
  <1>4. ASSUME NEW targets \in TargetSets, OnTargets(targets) PROVE SelectionInv'
    <2>1. \/ OnTargetSet(request, targets)
          \/ RespondAndFinish(branches, 480) /\ branches' = branches /\ queued' = queued
      BY <1>4 DEF OnTargets
    <2>2. 480 \in 200..699 /\ 480 \notin {401, 407}
      OBVIOUS
    <2>3. targets \in Seq(Target) /\ \A k \in DOMAIN targets : targets[k].builds
      BY TargetSetsAssumption DEF AllTargetsBuild
    <2> QED BY <1>0, <1>e, <2>1, <2>2, <2>3, FirstForkKeeps
  <1>5. CASE OnTargetsUnavailable
    <2>1. /\ RespondAndFinish(branches, 503) /\ branches' = branches /\ queued' = queued
          /\ 503 \in 200..699 /\ 503 \notin {401, 407}
      BY <1>5 DEF OnTargetsUnavailable
    <2> QED BY <1>e, <2>1
  <1> QED BY <1>2, <1>3, <1>4, <1>5

\* A final of a branch, reported by the kernel.
LEMMA EndKeeps ==
  ASSUME TransactionInv, SelectionInv, Performs, NEW id, NEW status \in 200..699,
         Deliver(OnBranchResponse(id, status)), heard' = Noted(id, status)
  PROVE  SelectionInv'
  <1>0. IndInv /\ finals \subseteq Collected
    BY DEF TransactionInv
  <1>1. CASE finished
    <2>1. Ignore /\ heard' = heard
      BY <1>1 DEF Deliver, Noted
    <2> QED BY <2>1, IgnoreKeeps
  <1>2. CASE ~finished
    <2>1. OnBranchResponse(id, status) /\ HeardAlso(id, status)
      BY <1>2 DEF Deliver, Noted, HeardAlso
    <2>2. id \in BranchIds
      BY <2>1 DEF OnBranchResponse, Known, BranchIds
    <2>3. ~(status < 200)
      OBVIOUS
    <2>4. \/ Concludes(id, status)
          \/ Relayed(status) /\ \E fs : OnConcludingFinal(id, status, fs)
      BY <2>1, <2>3 DEF OnBranchResponse, OnSuccess, OnBranchFailure, Concludes, Relayed
    <2>5. CASE Concludes(id, status)
      BY <1>0, <1>2, <2>1, <2>2, <2>5, ConclusionKeeps
    <2>6. ASSUME Relayed(status), NEW fs, OnConcludingFinal(id, status, fs) PROVE SelectionInv'
      BY <1>0, <1>2, <2>1, <2>2, <2>6, ConcludingKeeps
    <2> QED BY <2>4, <2>5, <2>6
  <1> QED BY <1>1, <1>2

LEMMA SelectionTransportFails ==
  ASSUME TransactionInv, SelectionInv, Performs, NEW id,
         Deliver(OnBranchFailure(id)), heard' = Noted(id, 503)
  PROVE  SelectionInv'
  <1>0. IndInv /\ finals \subseteq Collected
    BY DEF TransactionInv
  <1>1. CASE finished
    <2>1. Ignore /\ heard' = heard
      BY <1>1 DEF Deliver, Noted
    <2> QED BY <2>1, IgnoreKeeps
  <1>2. CASE ~finished
    <2>1. Concludes(id, 503) /\ HeardAlso(id, 503) /\ Known(id)
      BY <1>2 DEF Deliver, Noted, HeardAlso, OnBranchFailure, Concludes
    <2>2. id \in BranchIds /\ 503 \in 200..699
      BY <2>1 DEF Known, BranchIds
    <2> QED BY <1>0, <1>2, <2>1, <2>2, ConclusionKeeps
  <1> QED BY <1>1, <1>2

\* R4: a provisional response concludes nothing.
LEMMA SelectionProvisional ==
  ASSUME TransactionInv, SelectionInv, Performs, NEW id, NEW status \in 101..199,
         Deliver(OnBranchResponse(id, status)), heard' = heard
  PROVE  SelectionInv'
  <1>0. IndInv /\ branches \in Seq(Branch)
    BY DEF TransactionInv, IndInv, TypeOK
  <1>1. CASE finished
    BY <1>1, IgnoreKeeps DEF Deliver
  <1>2. CASE ~finished
    <2>1. OnBranchResponse(id, status)
      BY <1>2 DEF Deliver
    <2>2. /\ ~(status >= 200) /\ status \div 100 # 2 /\ status \div 100 # 6 /\ status # 503
          /\ status \in 100..199
      OBVIOUS
    <2>3. OnProvisional(id, status)
      BY <2>1, <2>2 DEF OnBranchResponse, OnSuccess
    <2>4. id \in Nat
      <3>1. id \in BranchIds
        BY <2>1 DEF OnBranchResponse, Known, BranchIds
      <3> QED BY <1>0, <3>1, BranchFacts
    <2>5. Silent(effects')
      BY <1>0, <2>2, <2>3, <2>4, ProvisionalStops
    <2>6. /\ branches' = SetCancelling(MarkProvisional(branches, id), Released(branches, id))
          /\ queued' = queued /\ finals' = finals /\ answered' = answered
          /\ finished' = finished /\ request' = request
      BY <2>3 DEF OnProvisional
    <2>7. Recasts(branches, branches', {})
      <3> DEFINE ms == MarkProvisional(branches, id)
      <3>1. ms \in Seq(Branch)
        BY <1>0, MarkProvisionalType
      <3>2. Recasts(branches, ms, {})
        BY <1>0, ProvisionalRecasts
      <3> HIDE DEF ms
      <3>3. Recasts(ms, branches', {})
        BY <2>6, <3>1, CancellingRecasts DEF ms
      <3> QED BY <3>2, <3>3, RecastTwice
    <2> QED BY <1>2, <2>5, <2>6, <2>7, RecastKeeps
  <1> QED BY <1>1, <1>2

\* C5 and C6: with unique ids a firing means one thing.
LEMMA SelectionTimerC ==
  ASSUME TransactionInv, SelectionInv, Performs, NEW id, OnTimerC(id),
         heard' = IF \E k \in DOMAIN branches : /\ branches[k].id = id
                                                /\ branches[k].state = "Pending"
                                                /\ ~branches[k].sawProvisional
                    THEN Noted(id, 408) ELSE heard
  PROVE  SelectionInv'
  <1>0. /\ IndInv /\ finals \subseteq Collected /\ branches \in Seq(Branch)
        /\ ~finished /\ Numbered(branches)
    BY DEF TransactionInv, IndInv, TypeOK, SelectionInv, OnTimerC
  <1>1. id \in BranchIds /\ id \in Nat
    <2>1. id \in BranchIds
      BY DEF OnTimerC, BranchIds
    <2> QED BY <1>0, <2>1, BranchFacts
  <1>2. CASE /\ \E k \in DOMAIN branches : /\ branches[k].id = id
                                           /\ branches[k].state = "Pending"
                                           /\ branches[k].sawProvisional
             /\ branches' = SetCancelling(branches, {id})
             /\ effects' = CancelBranches({id})
             /\ UNCHANGED <<request, queued, finals, answered, finished, awaiting,
                            tokens, asked, verdict>>
    <2>1. heard' = heard
      BY <1>0, <1>2, Zenon DEF Numbered
    <2>2. Silent(effects')
      BY <1>1, <1>2, Cancelling
    <2>3. Recasts(branches, branches', {})
      BY <1>0, <1>2, CancellingRecasts
    <2> QED BY <1>0, <1>2, <2>1, <2>2, <2>3, RecastKeeps
  <1>3. CASE /\ \E k \in DOMAIN branches : /\ branches[k].id = id
                                           /\ branches[k].state = "Pending"
                                           /\ ~branches[k].sawProvisional
             /\ Concludes(id, 408)
    <2>1. HeardAlso(id, 408)
      BY <1>0, <1>3 DEF Noted, HeardAlso
    <2>2. 408 \in 200..699
      OBVIOUS
    <2> QED BY <1>0, <1>1, <1>3, <2>1, <2>2, ConclusionKeeps
  <1> QED BY <1>2, <1>3 DEF OnTimerC, Concludes

\* C1, C2: nor does the caller's CANCEL.
LEMMA SelectionWithdrawal ==
  ASSUME TransactionInv, IndInv', SelectionInv, Performs, OnUpstreamCancelled, heard' = heard
  PROVE  SelectionInv'
  <1>0. IndInv /\ branches \in Seq(Branch) /\ branches' \in Seq(Branch)
    BY DEF TransactionInv, IndInv, TypeOK
  <1>1. /\ ~finished /\ queued' = <<>> /\ finals' = finals /\ answered' = answered
        /\ finished' = finished /\ request' = request
    BY DEF OnUpstreamCancelled, ConcludeTargetSet
  <1>2. Silent(effects')
    BY <1>0, WithdrawalStops
  <1>3. Recasts(branches, branches', {})
    BY <1>0, WithdrawalRecasts
  <1> QED BY <1>1, <1>2, <1>3, RecastKeeps

\* Every step keeps the selection.
LEMMA SelectionStep ==
  ASSUME AllTargetsBuild, TransactionInv, SelectionInv, NextAll, ~Quiet
  PROVE  SelectionInv'
  <1>0. /\ IndInv /\ upstream \in Sent /\ EngineCall
    BY IsEngineCall DEF TransactionInv
  <1>1. IndInv' /\ effects' \in Seq(Effect)
    BY <1>0, EngineKeeps DEF IndInv, TypeOK
  <1>p. ASSUME NEW cl, NEW ts, NEW hd, Perform(cl, ts, hd)
        PROVE  Performs /\ heard' = hd
    BY <1>0, <1>1, <1>p DEF Perform, Performs
  <1>2. CASE Mint
    <2>1. /\ request' = request /\ branches' = branches /\ queued' = queued
          /\ finals' = finals /\ answered' = answered /\ finished' = finished
          /\ upstream' = upstream /\ heard' = heard /\ effects' = <<>> /\ ~finished
      BY <1>2 DEF Mint, TokensMinted, envVars
    <2>2. Tally /\ Numbered(branches) /\ QueueBuilds
      BY <2>1 DEF SelectionInv
    <2>3. AllRelayed'
      BY <2>1, <2>2 DEF Tally, AllRelayed, Relayed
    <2>4. SelectionIsBest'
      BY <2>1, <2>3, RelayedOnly, Unchallenged, NoEffects DEF SelectionIsBest
    <2>5. Tally'
      BY <2>1, <2>2, <2>3 DEF Tally, HeardOf
    <2> QED BY <2>1, <2>2, <2>4, <2>5 DEF SelectionInv, QueueBuilds
  <1>3. CASE \/ \E r \in Requests : Receive(r)
             \/ \E v \in {"valid", "invalid"} : Verify(v)
             \/ Resolve
    <2>1. Perform(client, timers, heard)
      BY <1>3 DEF Receive, Verify, Resolve
    <2>2. \/ \E r \in Requests : OnUpstream(r)
          \/ \E v \in {"valid", "invalid"} : OnToken(v)
          \/ \E targets \in TargetSets : OnTargets(targets)
          \/ OnTargetsUnavailable
      BY <1>3 DEF Receive, Verify, Resolve
    <2>3. Performs /\ heard' = heard
      BY <1>p, <2>1
    <2> QED BY <1>0, <2>2, <2>3, OpeningKeeps
  <1>4. CASE CallerCancels
    <2>1. (OnUpstreamCancelled \/ Ignore) /\ Perform(client, timers, heard)
      BY <1>4 DEF CallerCancels
    <2>2. Performs /\ heard' = heard
      BY <1>p, <2>1
    <2> QED BY <1>1, <2>1, <2>2, SelectionWithdrawal, IgnoreKeeps
  <1>5. ASSUME NEW id, OnBranch(id) PROVE SelectionInv'
    <2>1. CASE HearTrying(id)
      <3>1. Ignore /\ Perform(SetPhase(id, "proceeding"), timers, heard)
        BY <2>1 DEF HearTrying
      <3>2. Performs /\ heard' = heard
        BY <1>p, <3>1
      <3> QED BY <3>1, <3>2, IgnoreKeeps
    <2>2. ASSUME NEW status \in Codes, HearProvisional(id, status) PROVE SelectionInv'
      <3>1. status \in 101..199 /\ Deliver(OnBranchResponse(id, status))
        BY <2>2 DEF HearProvisional
      <3>2. \E cl : Perform(cl, timers, heard)
        BY <2>2, Zenon DEF HearProvisional
      <3>3. Performs /\ heard' = heard
        BY <1>p, <3>2
      <3> QED BY <3>1, <3>3, SelectionProvisional
    <2>3. ASSUME NEW status \in Codes, HearFinal(id, status) PROVE SelectionInv'
      <3>1. status \in 200..699
        <4>1. status >= 200
          BY <2>3 DEF HearFinal
        <4> QED BY <4>1, CodesAssumption
      <3>2. /\ Deliver(OnBranchResponse(id, status))
            /\ \E cl : Perform(cl, timers, Noted(id, status))
        BY <2>3, Zenon DEF HearFinal
      <3>3. Performs /\ heard' = Noted(id, status)
        BY <1>p, <3>2
      <3> QED BY <3>1, <3>2, <3>3, EndKeeps
    <2>4. CASE KernelTimeout(id)
      <3>1. Deliver(OnBranchResponse(id, 408)) /\ Perform(SetPhase(id, "done"), timers, Noted(id, 408))
        BY <2>4 DEF KernelTimeout
      <3>2. Performs /\ heard' = Noted(id, 408)
        BY <1>p, <3>1
      <3>3. 408 \in 200..699
        OBVIOUS
      <3> QED BY <3>1, <3>2, <3>3, EndKeeps
    <2>5. CASE TransportFails(id)
      <3>1. Deliver(OnBranchFailure(id)) /\ Perform(SetPhase(id, "done"), timers, Noted(id, 503))
        BY <2>5 DEF TransportFails
      <3>2. Performs /\ heard' = Noted(id, 503)
        BY <1>p, <3>1
      <3> QED BY <3>1, <3>2, SelectionTransportFails
    <2>6. CASE TimerCFires(id)
      <3> DEFINE silent == \E k \in DOMAIN branches : /\ branches[k].id = id
                                                      /\ branches[k].state = "Pending"
                                                      /\ ~branches[k].sawProvisional
                 hd == IF silent THEN Noted(id, 408) ELSE heard
      <3>1. /\ OnTimerC(id) \/ (~IsPending(branches, id) /\ Ignore)
            /\ Perform(client, timers \ {id}, hd)
        BY <2>6, Zenon DEF TimerCFires
      <3>2. Performs /\ heard' = hd
        BY <1>p, <3>1
      <3>3. CASE OnTimerC(id)
        BY <3>2, <3>3, SelectionTimerC
      <3>4. CASE ~IsPending(branches, id) /\ Ignore
        <4>1. ~silent
          BY <3>4 DEF IsPending
        <4>2. heard' = heard
          BY <3>2, <4>1
        <4> QED BY <3>2, <3>4, <4>2, IgnoreKeeps
      <3> QED BY <3>1, <3>3, <3>4
    <2> QED BY <1>5, <2>1, <2>2, <2>3, <2>4, <2>5, <2>6 DEF OnBranch
  <1> QED BY <1>2, <1>3, <1>4, <1>5 DEF NextAll

LEMMA QuietSelection ==
  ASSUME SelectionInv, UNCHANGED allVars
  PROVE  SelectionInv'
  <1>1. /\ branches' = branches /\ queued' = queued /\ finals' = finals /\ effects' = effects
        /\ answered' = answered /\ finished' = finished /\ request' = request
        /\ heard' = heard /\ upstream' = upstream
    BY DEF allVars, vars, envVars
  <1>2. Outcomes' = Outcomes /\ BranchIds' = BranchIds /\ \A s : Relayed(s)' = Relayed(s)
    BY <1>1 DEF Outcomes, BranchIds, Relayed
  <1>3. BestIsSelected'
    BY <1>1, <1>2 DEF SelectionInv, SelectionIsBest, BestIsSelected
  <1>4. SelectedFinalStandsAlone' /\ ChallengesAreAggregated'
    BY <1>1 DEF SelectionInv, SelectionIsBest, SelectedFinalStandsAlone, ChallengesAreAggregated
  <1>5. ~finished' => Tally'
    BY <1>1, <1>2 DEF SelectionInv, Tally, HeardOf, AllRelayed
  <1>6. Numbered(branches') /\ QueueBuilds'
    BY <1>1 DEF SelectionInv, QueueBuilds
  <1> QED BY <1>3, <1>4, <1>5, <1>6 DEF SelectionInv, SelectionIsBest

LEMMA InitialSelection ==
  ASSUME InitAll
  PROVE  SelectionInv
  <1>1. /\ branches = <<>> /\ queued = <<>> /\ finals = {} /\ heard = {} /\ upstream = <<>>
        /\ effects = <<>>
    BY DEF InitAll, Init
  <1>2. SelectionIsBest
    BY <1>1 DEF SelectionIsBest, BestIsSelected, ChallengesAreAggregated, SelectedFinalStandsAlone
  <1>3. Tally
    BY <1>1 DEF Tally, HeardOf, ConcludedIds, AllRelayed
  <1> QED BY <1>1, <1>2, <1>3 DEF SelectionInv, Numbered, QueueBuilds

\* The inductive invariant of the selection, for every number of branches and groups.
THEOREM SelectionInvariance ==
  ASSUME AllTargetsBuild
  PROVE  SpecAll => []SelectionInv
  <1>1. InitAll => SelectionInv
    BY InitialSelection
  <1>2. TransactionInv /\ SelectionInv /\ [NextAll]_allVars => SelectionInv'
    <2> SUFFICES ASSUME TransactionInv, SelectionInv, [NextAll]_allVars PROVE SelectionInv'
      OBVIOUS
    <2>1. CASE NextAll /\ ~Quiet
      BY <2>1, SelectionStep
    <2>2. CASE UNCHANGED allVars
      BY <2>2, QuietSelection
    <2> QED BY <2>1, <2>2 DEF Quiet
  <1> QED BY <1>1, <1>2, TransactionInvariance, PTL DEF SpecAll

\* R7, R8 and section 8.1, when a copy can be built for every target: in every order of
\* arrival, over every number of branches and groups, the caller is told the best of all
\* that was heard, once, and a challenge speaks for every branch that made it.
THEOREM Selection ==
  ASSUME AllTargetsBuild
  PROVE  SpecAll => []SelectionIsBest
  <1>1. SelectionInv => SelectionIsBest
    BY DEF SelectionInv
  <1> QED BY <1>1, SelectionInvariance, PTL

\* PB-F-2, under the same condition: a response can belong to only one branch.
THEOREM IdsUnique ==
  ASSUME AllTargetsBuild
  PROVE  SpecAll => []BranchIdsUnique
  <1>1. SelectionInv => BranchIdsUnique
    BY DEF SelectionInv, Numbered, BranchIdsUnique
  <1> QED BY <1>1, SelectionInvariance, PTL

-----------------------------------------------------------------------------
(* The Max-Breadth in flight *)

\* Induction, told of the set of numbers that have a property.
LEMMA SetInduction ==
  ASSUME NEW T, 0 \in T, \A n \in Nat : n \in T => n + 1 \in T
  PROVE  \A n \in Nat : n \in T
  <1> DEFINE R == OpToRel(<, Nat)
             F == Nat \ T
  <1> SUFFICES ASSUME F # {} PROVE FALSE
    OBVIOUS
  <1>1. \E x \in F : \A y \in F : ~ (<<y, x>> \in R)
    <2> HIDE DEF F
    <2>1. F \subseteq Nat
      BY DEF F
    <2> QED BY <2>1, WFMin, NatLessThanWellFounded
  <1>2. PICK x \in F : \A y \in F : ~ (<<y, x>> \in R)
    BY <1>1
  <1>3. x \in Nat /\ x # 0 /\ x - 1 \in Nat /\ x - 1 \in F
    <2> HIDE DEF R
    <2>1. x # 0
      OBVIOUS
    <2>2. x - 1 \in Nat
      BY <2>1
    <2>3. x - 1 \notin T
      BY <2>2
    <2> QED BY <2>1, <2>2, <2>3
  <1>4. x - 1 < x
    BY <1>3
  <1>5. <<x - 1, x>> \in R
    BY <1>3, <1>4 DEF OpToRel
  <1> QED BY <1>2, <1>3, <1>5

\* What branch k adds to it, when its id is in S.
Weight(S, k) == IF branches[k].id \in S THEN client[branches[k].id].share ELSE 0

\* The running sums of it.
Sums(S, g, n) == g = [k \in 0..n |-> IF k = 0 THEN 0
                                     ELSE g[k - 1] + (IF branches[k].id \in S
                                                        THEN client[branches[k].id].share
                                                        ELSE 0)]

LEMMA SumsExist ==
  ASSUME NEW S, NEW n \in Nat PROVE \E g : Sums(S, g, n)
  <1> DEFINE T == {k \in Nat : \E g : Sums(S, g, k)}
  <1>1. 0 \in T
    <2> DEFINE g == [i \in 0..0 |-> 0]
    <2>1. \A i \in 0..0 : i = 0
      OBVIOUS
    <2>2. Sums(S, g, 0)
      BY <2>1 DEF Sums
    <2> QED BY <2>2
  <1>2. \A k \in Nat : k \in T => k + 1 \in T
    <2> SUFFICES ASSUME NEW k \in Nat, k \in T PROVE \E h : Sums(S, h, k + 1)
      OBVIOUS
    <2>1. PICK g : Sums(S, g, k)
      OBVIOUS
    <2> DEFINE h == [i \in 0..(k + 1) |-> IF i <= k THEN g[i] ELSE g[k] + Weight(S, k + 1)]
    <2>2. \A i \in 0..(k + 1) : h[i] = IF i = 0 THEN 0 ELSE h[i - 1] + Weight(S, i)
      <3> SUFFICES ASSUME NEW i \in 0..(k + 1)
                   PROVE  h[i] = IF i = 0 THEN 0 ELSE h[i - 1] + Weight(S, i)
        OBVIOUS
      <3>1. CASE i <= k
        <4>1. i \in 0..k /\ h[i] = g[i] /\ (i # 0 => h[i - 1] = g[i - 1])
          BY <3>1
        <4>2. g[i] = IF i = 0 THEN 0 ELSE g[i - 1] + Weight(S, i)
          BY <2>1, <4>1 DEF Sums, Weight
        <4> HIDE DEF h
        <4> QED BY <4>1, <4>2
      <3>2. CASE i = k + 1
        <4>1. ~ (i <= k) /\ i # 0 /\ i - 1 = k /\ h[i - 1] = g[k]
          BY <3>2
        <4>2. h[i] = g[k] + Weight(S, k + 1)
          BY <3>2, <4>1
        <4> HIDE DEF h
        <4> QED BY <3>2, <4>1, <4>2
      <3> QED BY <3>1, <3>2
    <2>3. h = [i \in 0..(k + 1) |-> h[i]]
      OBVIOUS
    <2> HIDE DEF h
    <2>4. \A i \in 0..(k + 1) :
            h[i] = IF i = 0 THEN 0
                   ELSE h[i - 1] + (IF branches[i].id \in S
                                      THEN client[branches[i].id].share ELSE 0)
      BY <2>2 DEF Weight
    <2> DEFINE f == [i \in 0..(k + 1) |->
                      IF i = 0 THEN 0
                      ELSE h[i - 1] + (IF branches[i].id \in S
                                         THEN client[branches[i].id].share ELSE 0)]
    <2>5. f = [i \in 0..(k + 1) |-> f[i]] /\ \A i \in 0..(k + 1) : f[i] = h[i]
      BY <2>4
    <2>6. h = f
      <3> HIDE DEF f
      <3> QED BY <2>3, <2>5
    <2>7. Sums(S, h, k + 1)
      BY <2>6, Zenon DEF Sums
    <2> QED BY <2>7
  <1>3. \A k \in Nat : k \in T
    <2> HIDE DEF T
    <2> QED BY <1>1, <1>2, SetInduction
  <1> QED BY <1>3

LEMMA BreadthIsSum ==
  ASSUME Len(branches) \in Nat, NEW S
  PROVE  \E g : Sums(S, g, Len(branches)) /\ BreadthOf(S) = g[Len(branches)]
  <1> DEFINE n == Len(branches)
             g == CHOOSE f : Sums(S, f, n)
  <1>1. Sums(S, g, n)
    BY SumsExist
  <1>2. BreadthOf(S) = g[n]
    BY DEF BreadthOf, Sums
  <1> QED BY <1>1, <1>2

\* A product with a factor more.
LEMMA OneMore ==
  ASSUME NEW a \in Nat, NEW s \in Nat
  PROVE  a * s \in Nat /\ (a + 1) * s = a * s + s /\ 0 * s = 0
  OBVIOUS

LEMMA MoreIsMore ==
  ASSUME NEW a \in Nat, NEW b \in Nat, a <= b, NEW s \in Nat
  PROVE  s * a <= s * b
  OBVIOUS

\* Branches after the first lo, none of which hands on more than s.
LEMMA SumsBounded ==
  ASSUME NEW S, NEW n \in Nat, NEW g, Sums(S, g, n), NEW lo \in Nat, NEW s \in Nat,
         \A k \in 1..n : Weight(S, k) \in 0..s /\ (k <= lo => Weight(S, k) = 0)
  PROVE  g[n] \in Nat /\ (n <= lo => g[n] = 0) /\ (n > lo => g[n] <= (n - lo) * s)
  <1> DEFINE T == {k \in Nat : k <= n =>
                     /\ g[k] \in Nat /\ (k <= lo => g[k] = 0)
                     /\ (k > lo => g[k] <= (k - lo) * s)}
  <1>1. 0 \in T
    <2>1. g[0] = 0
      BY DEF Sums
    <2> QED BY <2>1
  <1>2. \A k \in Nat : k \in T => k + 1 \in T
    <2> SUFFICES ASSUME NEW k \in Nat, k \in T, k + 1 <= n
                 PROVE  /\ g[k + 1] \in Nat /\ (k + 1 <= lo => g[k + 1] = 0)
                        /\ (k + 1 > lo => g[k + 1] <= ((k + 1) - lo) * s)
      OBVIOUS
    <2>1. g[k] \in Nat /\ (k <= lo => g[k] = 0) /\ (k > lo => g[k] <= (k - lo) * s)
      OBVIOUS
    <2>2. g[k + 1] = g[k] + Weight(S, k + 1)
      <3>1. k + 1 \in 0..n /\ k + 1 # 0 /\ (k + 1) - 1 = k
        OBVIOUS
      <3> HIDE DEF T
      <3> QED BY <3>1 DEF Sums, Weight
    <2>3. k + 1 \in 1..n
      OBVIOUS
    <2>4. Weight(S, k + 1) \in 0..s /\ (k + 1 <= lo => Weight(S, k + 1) = 0)
      BY <2>3
    <2> HIDE DEF T
    <2>5. CASE k + 1 <= lo
      BY <2>1, <2>2, <2>4, <2>5
    <2>6. CASE k = lo
      <3>1. g[k + 1] = Weight(S, k + 1) /\ (k + 1) - lo = 1 /\ 1 * s = s
        BY <2>1, <2>2, <2>4, <2>6
      <3> QED BY <2>4, <2>6, <3>1
    <2>7. CASE k > lo
      <3>1. PICK d \in Nat : d = k - lo
        BY <2>7
      <3>2. (k + 1) - lo = d + 1
        BY <3>1
      <3>3. (d + 1) * s = d * s + s /\ d * s \in Nat
        BY <3>1, OneMore
      <3>4. g[k] <= d * s
        BY <2>1, <2>7, <3>1
      <3>5. PICK p \in Nat : p = d * s
        BY <3>3
      <3>6. g[k] + Weight(S, k + 1) <= p + s
        BY <2>1, <2>4, <3>4, <3>5
      <3>7. g[k + 1] \in Nat
        BY <2>1, <2>2, <2>4
      <3> QED BY <2>2, <2>7, <3>2, <3>3, <3>5, <3>6, <3>7
    <2> QED BY <2>5, <2>6, <2>7
  <1>3. \A k \in Nat : k \in T
    <2> HIDE DEF T
    <2> QED BY <1>1, <1>2, SetInduction
  <1> QED BY <1>3

\* The copies in flight: their transactions are open and they were not given up.
InFlight == LiveIds \ GivenUp

\* The branches in S are among the last n, and each of their copies carries at most the
\* share s of n.
Fits(bs, cl, S, breadth) ==
    \E lo, n, s \in Nat :
      /\ s * n <= breadth
      /\ Len(bs) <= lo + n
      /\ \A k \in DOMAIN bs : bs[k].id \in S =>
            k > lo /\ bs[k].id \in DOMAIN cl /\ cl[bs[k].id].share <= s

BreadthInv == request # NoRequest => Fits(branches, client, InFlight, MaxBreadth(request))

\* Max-Breadth is a number, the header's or the default.
LEMMA MaxBreadthType ==
  ASSUME NEW r \in Request
  PROVE  MaxBreadth(r) \in Nat
  <1>1. r.maxBreadth \in Int
    BY DEF Request
  <1> QED BY <1>1, BreadthAssumption DEF MaxBreadth, HeaderNumber, Absent

\* What fits is what the property asks for.
LEMMA FitsIsConserved ==
  ASSUME TransactionInv, BreadthInv
  PROVE  BreadthIsConserved
  <1> SUFFICES ASSUME request # NoRequest PROVE BreadthOf(InFlight) <= MaxBreadth(request)
    BY DEF BreadthIsConserved, InFlight
  <1> DEFINE S == InFlight
             N == Len(branches)
             B == MaxBreadth(request)
  <1>1. /\ branches \in Seq(Branch) /\ request \in Request /\ N \in Nat
        /\ DOMAIN branches = 1..N
    BY DEF TransactionInv, IndInv, TypeOK
  <1>2. B \in Nat
    BY <1>1, MaxBreadthType
  <1>3. PICK lo \in Nat, n \in Nat, s \in Nat :
           /\ s * n <= B
           /\ N <= lo + n
           /\ \A k \in DOMAIN branches : branches[k].id \in S =>
                /\ k > lo /\ branches[k].id \in DOMAIN client
                /\ client[branches[k].id].share <= s
    BY Zenon DEF BreadthInv, Fits
  <1> HIDE DEF S, B
  <1>4. PICK g : Sums(S, g, N) /\ BreadthOf(S) = g[N]
    BY <1>1, BreadthIsSum
  <1>5. ASSUME NEW k \in 1..N PROVE Weight(S, k) \in 0..s /\ (k <= lo => Weight(S, k) = 0)
    <2>1. CASE branches[k].id \notin S
      BY <2>1 DEF Weight
    <2>2. CASE branches[k].id \in S
      <3>1. /\ k > lo /\ branches[k].id \in DOMAIN client
            /\ client[branches[k].id].share <= s
        BY <1>1, <1>3, <2>2, Zenon
      <3>2. client \in [DOMAIN client -> Client]
        BY DEF TransactionInv
      <3>3. client[branches[k].id].share \in Nat
        BY <3>1, <3>2 DEF Client
      <3>4. Weight(S, k) = client[branches[k].id].share
        BY <2>2 DEF Weight
      <3>5. Weight(S, k) \in 0..s
        BY <3>1, <3>3, <3>4
      <3> QED BY <3>1, <3>5
    <2> QED BY <2>1, <2>2
  <1> HIDE DEF N
  <1>6. g[N] \in Nat /\ (N <= lo => g[N] = 0) /\ (N > lo => g[N] <= (N - lo) * s)
    BY <1>1, <1>4, <1>5, SumsBounded
  <1>7. CASE N <= lo
    BY <1>2, <1>4, <1>6, <1>7 DEF B, S
  <1>8. CASE N > lo
    <2>1. PICK d \in Nat : d = N - lo
      BY <1>1, <1>8
    <2>2. d <= n
      BY <1>1, <1>3, <2>1
    <2>3. s * d <= s * n /\ s * d = d * s
      BY <2>1, <2>2, MoreIsMore
    <2>4. g[N] <= d * s
      BY <1>6, <1>8, <2>1
    <2>5. PICK p \in Nat : p = d * s
      BY <2>1, OneMore
    <2>6. PICK q \in Nat : q = s * n
      BY <1>3, OneMore
    <2>7. g[N] <= B
      BY <1>2, <1>3, <1>6, <2>3, <2>4, <2>5, <2>6
    <2> QED BY <1>4, <2>7 DEF B, S
  <1> QED BY <1>1, <1>7, <1>8

\* A call opens a group of the request r: every branch it leaves unconcluded is of the group,
\* and all its copies carry the same share of r's Max-Breadth.
Opens(r) ==
    \E lo, n, s \in Nat :
      /\ s * n <= MaxBreadth(r)
      /\ Len(branches') <= lo + n
      /\ \A k \in DOMAIN branches' : branches'[k].state # "Concluded" =>
            k > lo /\ branches'[k].id \in Forwards(effects')
      /\ \A k \in DOMAIN effects' : effects'[k].kind = "Forward" => effects'[k].share = s

\* What a call does to the branches: there are none, or they are the same and nothing is
\* launched, or a group goes out.
Conserves ==
    \/ branches' = <<>>
    \/ ~Launches(effects') /\ request' = request /\ \E ids : Recasts(branches, branches', ids)
    \/ request' \in Request /\ ~finished' /\ Opens(request')

\* A whole number of shares of a number.
LEMMA Shared ==
  ASSUME NEW b \in Nat, NEW n \in Nat \ {0}, n <= b
  PROVE  b \div n \in Nat /\ b \div n # 0 /\ (b \div n) * n <= b
  OBVIOUS

\* The copies of a group carry the group's share.
LEMMA ForkShares ==
  ASSUME NEW r, NEW fresh \in Seq(Branch), NEW n, NEW k \in DOMAIN ForkEffects(r, fresh, n),
         ForkEffects(r, fresh, n)[k].kind = "Forward"
  PROVE  ForkEffects(r, fresh, n)[k].share = Share(r, n)
  <1> DEFINE es == ForkEffects(r, fresh, n)
             F(j) == Forward(fresh[j].id, Share(r, n), RecordRoutes(r))
             G(j) == SetTimerC(fresh[j].id)
  <1>0. Len(fresh) \in Nat
    OBVIOUS
  <1>1. \A j : F(j).share = Share(r, n) /\ G(j).kind = "SetTimer"
    BY DEF Forward, SetTimerC
  <1>2. CASE r.method = "INVITE"
    <2>1. es = [j \in 1..(2 * Len(fresh)) |-> IF j % 2 = 1 THEN F((j + 1) \div 2) ELSE G(j \div 2)]
      BY <1>2 DEF ForkEffects
    <2> HIDE DEF es, F, G
    <2>2. es[k] = F((k + 1) \div 2) \/ es[k] = G(k \div 2)
      BY <2>1 DEF es
    <2> QED BY <1>1, <2>2 DEF es
  <1>3. CASE r.method # "INVITE"
    <2>1. es = [j \in 1..Len(fresh) |-> F(j)]
      BY <1>3 DEF ForkEffects
    <2> HIDE DEF es, F, G
    <2>2. es[k] = F(k)
      BY <2>1 DEF es
    <2> QED BY <1>1, <2>2 DEF es
  <1> QED BY <1>2, <1>3

\* With nothing in flight, the next group goes out with its own shares.
LEMMA ForkOpens ==
  ASSUME NEW r \in Request, NEW bs \in Seq(Branch), NEW ts \in Seq(Target), ~HasPending(bs),
         ~finished, ForkNextGroup(r, bs, ts)
  PROVE  branches' = <<>> \/ (~finished' /\ Opens(r))
  <1>1. PICK n \in {k \in 1..Len(ts) : IsLeadingGroup(ts, k, MaxBreadth(r))} :
          \E m \in 0..n : \E pos \in [1..m -> 1..n] :
            LaunchGroup(r, bs, ts, n, [k \in 1..m |-> NewBranch(Len(bs) + pos[k] - 1)])
    BY Zenon DEF ForkNextGroup
  <1>2. PICK m \in 0..n : \E pos \in [1..m -> 1..n] :
            LaunchGroup(r, bs, ts, n, [k \in 1..m |-> NewBranch(Len(bs) + pos[k] - 1)])
    BY <1>1
  <1>3. PICK pos \in [1..m -> 1..n] :
            LaunchGroup(r, bs, ts, n, [k \in 1..m |-> NewBranch(Len(bs) + pos[k] - 1)])
    BY <1>2
  <1> DEFINE fresh == [k \in 1..m |-> NewBranch(Len(bs) + pos[k] - 1)]
             s == Share(r, n)
             lo == Len(bs)
  <1>4. n \in Nat \ {0} /\ m \in Nat /\ m <= n /\ n <= MaxBreadth(r) /\ MaxBreadth(r) \in Nat
        /\ lo \in Nat
    BY MaxBreadthType DEF IsLeadingGroup
  <1>5. fresh \in Seq(Branch) /\ Len(fresh) = m
    <2>1. \A k \in 1..m : Len(bs) + pos[k] - 1 \in Nat
      BY <1>4
    <2>2. fresh \in [1..m -> Branch]
      BY <2>1, NewBranchType
    <2> QED BY <1>4, <2>2, FunctionIsSeq
  <1>6. LaunchGroup(r, bs, ts, n, fresh)
    BY <1>3
  <1>7. s \in Nat /\ s * n <= MaxBreadth(r)
    <2>1. PICK b \in Nat : b = MaxBreadth(r)
      BY <1>4
    <2>2. b \div n \in Nat /\ b \div n # 0 /\ (b \div n) * n <= b
      BY <1>4, <2>1, Shared
    <2>3. s = b \div n
      BY <2>1, <2>2 DEF Share
    <2> HIDE DEF s
    <2> QED BY <2>1, <2>2, <2>3
  <1> HIDE DEF fresh, s
  <1>8. CASE bs \o fresh = <<>> /\ n = Len(ts)
    BY <1>6, <1>8 DEF LaunchGroup
  <1>9. CASE ~(bs \o fresh = <<>> /\ n = Len(ts))
    <2>1. effects' = ForkEffects(r, fresh, n) /\ branches' = bs \o fresh /\ finished' = finished
      BY <1>6, <1>9 DEF LaunchGroup
    <2>2. \A k \in DOMAIN fresh : fresh[k].id \in Forwards(effects')
      BY <1>5, <2>1, Forking
    <2>3. Len(branches') <= lo + n
      BY <1>4, <1>5, <2>1, JoinedLength
    <2>4. ASSUME NEW k \in DOMAIN branches', branches'[k].state # "Concluded"
          PROVE  k > lo /\ branches'[k].id \in Forwards(effects')
      <3>1. \/ k \in DOMAIN bs /\ branches'[k] = bs[k]
            \/ k - lo \in DOMAIN fresh /\ branches'[k] = fresh[k - lo] /\ k \in Int
        BY <1>5, <2>1
      <3>2. ~ (k \in DOMAIN bs /\ branches'[k] = bs[k])
        BY <2>4 DEF HasPending
      <3>3. k - lo \in DOMAIN fresh /\ branches'[k] = fresh[k - lo] /\ k \in Int
        BY <3>1, <3>2
      <3>4. k > lo
        BY <1>4, <1>5, <3>3
      <3> QED BY <2>2, <3>3, <3>4, Zenon
    <2>5. \A k \in DOMAIN effects' : effects'[k].kind = "Forward" => effects'[k].share = s
      BY <1>5, <2>1, ForkShares DEF s
    <2>6. Opens(r)
      <3> HIDE DEF lo
      <3> QED BY <1>4, <1>7, <2>3, <2>4, <2>5, Zenon DEF Opens
    <2> QED BY <2>1, <2>6
  <1> QED BY <1>8, <1>9

\* The first group of a request.
LEMMA TargetSetOpens ==
  ASSUME NEW r \in Request, branches = <<>>, ~finished, NEW targets \in Seq(Target),
         OnTargetSet(r, targets)
  PROVE  branches' = <<>> \/ (~finished' /\ Opens(r))
  <1>1. PICK p \in [1..Len(targets) -> 1..Len(targets)] :
           ForkNextGroup(r, branches, [k \in 1..Len(targets) |-> targets[p[k]]])
    BY DEF OnTargetSet
  <1> DEFINE sorted == [k \in 1..Len(targets) |-> targets[p[k]]]
  <1>2. sorted \in [1..Len(targets) -> Target]
    OBVIOUS
  <1>3. sorted \in Seq(Target)
    BY <1>2, FunctionIsSeq
  <1>4. ForkNextGroup(r, branches, sorted) /\ branches \in Seq(Branch) /\ ~HasPending(branches)
    BY <1>1 DEF HasPending
  <1> HIDE DEF sorted
  <1> QED BY <1>3, <1>4, ForkOpens

LEMMA RouteItOpens ==
  ASSUME NEW r \in Request, branches = <<>>, ~finished, RouteIt(r)
  PROVE  branches' = <<>> \/ (~finished' /\ Opens(r))
  <1>1. CASE Predetermined(r)
    <2>1. OnTargetSet(r, <<SoleTarget>>)
      BY <1>1 DEF RouteIt
    <2>2. <<SoleTarget>> \in Seq(Target)
      BY DEF SoleTarget, Target
    <2> QED BY <2>1, <2>2, TargetSetOpens
  <1>2. CASE ~Predetermined(r)
    BY <1>2 DEF RouteIt
  <1> QED BY <1>1, <1>2

\* The calls that open the context.
LEMMA OpeningConserves ==
  ASSUME IndInv,
         \/ TokensMinted
         \/ \E r \in Requests : OnUpstream(r)
         \/ \E v \in {"valid", "invalid"} : OnToken(v)
         \/ \E targets \in TargetSets : OnTargets(targets)
         \/ OnTargetsUnavailable
  PROVE  Conserves
  <1>1. branches = <<>> /\ ~finished
    <2>1. (request = NoRequest \/ asked # "none") /\ ~finished
      BY DEF TokensMinted, OnUpstream, OnToken, OnTargets, OnTargetsUnavailable
    <2> QED BY <2>1 DEF IndInv, QuestionsComeFirst
  <1>2. request \in Request \cup {NoRequest}
    BY DEF IndInv, TypeOK
  <1>3. branches' = branches => Conserves
    BY <1>1 DEF Conserves
  <1>4. ASSUME NEW r \in Requests, OnUpstream(r) PROVE Conserves
    <2>1. CASE Refuse(r)
      BY <1>3, <2>1 DEF Refuse
    <2>2. CASE ~Refuse(r) /\ Carriage(r)
      BY <1>3, <1>4, <2>2 DEF OnUpstream
    <2>3. CASE ~Refuse(r) /\ ~Carriage(r)
      <3>1. RouteIt(Preprocess(r)) /\ request' = Preprocess(r)
        BY <1>4, <2>3 DEF OnUpstream
      <3>2. Preprocess(r) \in Request
        BY RequestsAssumption, PreprocessType
      <3>3. branches' = <<>> \/ (~finished' /\ Opens(Preprocess(r)))
        BY <1>1, <3>1, <3>2, RouteItOpens
      <3> QED BY <3>1, <3>2, <3>3 DEF Conserves
    <2> QED BY <2>1, <2>2, <2>3
  <1>5. ASSUME request # NoRequest, request' = request,
               RouteIt(request) \/ \E targets \in TargetSets : OnTargetSet(request, targets)
        PROVE  Conserves
    <2>1. request \in Request
      BY <1>2, <1>5
    <2>2. branches' = <<>> \/ (~finished' /\ Opens(request))
      BY <1>1, <1>5, <2>1, RouteItOpens, TargetSetOpens, TargetSetsAssumption
    <2> QED BY <1>5, <2>1, <2>2 DEF Conserves
  <1>6. asked # "none" => request # NoRequest
    BY DEF IndInv, QuestionsComeFirst
  <1>7. ASSUME NEW v \in {"valid", "invalid"}, OnToken(v) PROVE Conserves
    <2>1. \/ RouteIt(request) /\ request' = request /\ request # NoRequest
          \/ branches' = branches
      BY <1>6, <1>7 DEF OnToken
    <2> QED BY <1>3, <1>5, <2>1
  <1>8. ASSUME NEW targets \in TargetSets, OnTargets(targets) PROVE Conserves
    <2>1. \/ OnTargetSet(request, targets) /\ request' = request /\ request # NoRequest
          \/ branches' = branches
      BY <1>6, <1>8 DEF OnTargets
    <2> QED BY <1>3, <1>5, <2>1
  <1>9. CASE OnTargetsUnavailable \/ TokensMinted
    BY <1>3, <1>9 DEF OnTargetsUnavailable, TokensMinted
  <1> QED BY <1>4, <1>7, <1>8, <1>9

\* The calls about a branch.
LEMMA ConclusionConserves ==
  ASSUME IndInv, finals \subseteq Collected, ~finished, NEW id \in BranchIds,
         NEW status \in 200..699, Concludes(id, status)
  PROVE  Conserves
  <1> DEFINE bs == Conclude(branches, id, status)
             final == [branch |-> id, status |-> status]
             fs == finals \cup {final}
  <1>1. branches \in Seq(Branch) /\ queued \in Seq(Target) /\ status \in 100..699
    BY DEF IndInv, TypeOK
  <1>2. bs \in Seq(Branch) /\ Recasts(branches, bs, {id})
    BY <1>1, ConcludeType, ConcludeRecasts, ZenonT(40)
  <1>3. request' = request /\ request \in Request
    BY BranchFacts DEF Concludes, AfterConclusion, IndInv, TypeOK
  <1>4. AfterConclusion(bs, fs)
    BY DEF Concludes
  <1>5. fs \in SUBSET [branch : Nat, status : 100..699]
    <2>1. id \in Nat
      BY BranchFacts
    <2>2. final \in Collected
      BY <2>1, OneFinal, ZenonT(40)
    <2>3. \A f \in Collected : f \in [branch : Nat, status : 100..699]
      BY DEF Collected
    <2> HIDE DEF final
    <2>4. fs \subseteq Collected
      BY <2>2
    <2> HIDE DEF fs
    <2>5. \A f \in fs : f \in [branch : Nat, status : 100..699]
      BY <2>3, <2>4, Zenon
    <2> QED BY <2>5, Zenon
  <1> HIDE DEF bs, fs
  <1>6. CASE HasPending(bs)
    <2>1. branches' = bs /\ effects' = <<>>
      BY <1>4, <1>6 DEF AfterConclusion
    <2> QED BY <1>2, <1>3, <2>1, EmptyEffects DEF Conserves
  <1>7. CASE ~HasPending(bs) /\ MayForkNextGroup
    <2>1. ForkNextGroup(request, bs, queued)
      BY <1>4, <1>7 DEF AfterConclusion
    <2>2. branches' = <<>> \/ (~finished' /\ Opens(request))
      BY <1>1, <1>2, <1>3, <1>7, <2>1, ForkOpens
    <2> QED BY <1>3, <2>2 DEF Conserves
  <1>8. CASE ~HasPending(bs) /\ ~MayForkNextGroup
    <2>1. branches' = bs /\ SelectAndAnswer(bs, fs)
      BY <1>4, <1>8 DEF AfterConclusion
    <2>2. answered \in BOOLEAN
      BY DEF IndInv, TypeOK
    <2>3. ~Launches(effects')
      BY <1>2, <1>5, <2>1, <2>2, SelectType, ZenonT(40)
    <2> QED BY <1>2, <1>3, <2>1, <2>3 DEF Conserves
  <1> QED BY <1>6, <1>7, <1>8

LEMMA ConcludingConserves ==
  ASSUME IndInv, NEW id \in BranchIds, NEW status \in 200..699, NEW fs,
         OnConcludingFinal(id, status, fs)
  PROVE  Conserves
  <1> DEFINE concluded == Conclude(branches, id, status)
             ids == PendingIds(concluded)
             remaining == SetCancelling(concluded, ids)
  <1>0. branches \in Seq(Branch) /\ status \in 100..699
    BY DEF IndInv, TypeOK
  <1>1. concluded \in Seq(Branch) /\ Recasts(branches, concluded, {id})
    BY <1>0, ConcludeType, ConcludeRecasts, ZenonT(40)
  <1>2. branches' = remaining /\ request' = request
    BY DEF OnConcludingFinal
  <1>3. Recasts(branches, remaining, {id})
    <2> HIDE DEF concluded
    <2>1. Recasts(concluded, remaining, {})
      BY <1>1, CancellingRecasts
    <2> HIDE DEF remaining
    <2> QED BY <1>1, <2>1, RecastTwice, Zenon
  <1>4. ~Launches(effects')
    <2>1. id \in Nat
      BY BranchFacts
    <2> QED BY <2>1, ConcludingLaunches, ZenonT(40)
  <1> HIDE DEF remaining
  <1> QED BY <1>2, <1>3, <1>4 DEF Conserves

LEMMA ProvisionalConserves ==
  ASSUME IndInv, ~finished, NEW id \in BranchIds, NEW status \in 100..699,
         OnProvisional(id, status)
  PROVE  Conserves
  <1> DEFINE ms == MarkProvisional(branches, id)
             ids == Released(branches, id)
  <1>0. branches \in Seq(Branch)
    BY DEF IndInv, TypeOK
  <1>1. ms \in Seq(Branch) /\ Recasts(branches, ms, {})
    BY <1>0, MarkProvisionalType, ProvisionalRecasts
  <1>2. branches' = SetCancelling(ms, ids) /\ request' = request
    BY DEF OnProvisional
  <1> HIDE DEF ms, ids
  <1>3. Recasts(branches, branches', {})
    <2>1. Recasts(ms, SetCancelling(ms, ids), {})
      BY <1>1, CancellingRecasts
    <2> QED BY <1>1, <1>2, <2>1, RecastTwice, Zenon
  <1>4. ~Launches(effects')
    BY ProvisionalInv
  <1> QED BY <1>2, <1>3, <1>4 DEF Conserves

LEMMA TimerConserves ==
  ASSUME IndInv, finals \subseteq Collected, NEW id \in BranchIds, OnTimerC(id)
  PROVE  Conserves
  <1>0. branches \in Seq(Branch) /\ id \in Nat /\ 408 \in 200..699 /\ ~finished
    BY BranchFacts DEF IndInv, TypeOK, OnTimerC
  <1>1. CASE Concludes(id, 408)
    BY <1>0, <1>1, ConclusionConserves, ZenonT(40)
  <1>2. CASE /\ branches' = SetCancelling(branches, {id})
             /\ effects' = CancelBranches({id})
             /\ request' = request
    <2>1. {id} \in SUBSET Nat
      BY <1>0
    <2>2. Recasts(branches, branches', {})
      BY <1>0, <1>2, CancellingRecasts
    <2>3. ~Launches(effects')
      BY <1>2, <2>1, CancelEffects
    <2> QED BY <1>2, <2>2, <2>3 DEF Conserves
  <1> QED BY <1>1, <1>2 DEF OnTimerC, Concludes

\* Every call.
LEMMA EngineConserves ==
  ASSUME IndInv, finals \subseteq Collected, EngineCall
  PROVE  Conserves
  <1>1. ASSUME NEW id \in BranchIds, NEW status \in 100..699, OnBranchResponse(id, status)
        PROVE  Conserves
    <2>0. ~finished /\ 503 \in 200..699
      BY <1>1 DEF OnBranchResponse
    <2>1. CASE status < 200
      <3>1. OnProvisional(id, status)
        BY <1>1, <2>1 DEF OnBranchResponse, OnSuccess
      <3> QED BY <2>0, <3>1, ProvisionalConserves
    <2>2. CASE status >= 200
      <3>1. \/ Concludes(id, 503)
            \/ Concludes(id, status)
            \/ \E fs : OnConcludingFinal(id, status, fs)
        BY <1>1, <2>2 DEF OnBranchResponse, OnSuccess, OnBranchFailure, Concludes
      <3>2. status \in 200..699
        BY <2>2
      <3> QED BY <2>0, <3>1, <3>2, ConclusionConserves, ConcludingConserves
    <2> QED BY <2>1, <2>2
  <1>2. ASSUME NEW id \in BranchIds, OnBranchFailure(id) PROVE Conserves
    <2>1. ~finished /\ 503 \in 200..699 /\ Concludes(id, 503)
      BY <1>2 DEF OnBranchFailure, Concludes
    <2> QED BY <2>1, ConclusionConserves
  <1>3. CASE OnUpstreamCancelled
    <2>1. IndInv' /\ ~Launches(effects') /\ request' = request
      BY <1>3, CancelledInv DEF OnUpstreamCancelled
    <2>2. branches \in Seq(Branch) /\ branches' \in Seq(Branch)
      BY <2>1 DEF IndInv, TypeOK
    <2>3. Recasts(branches, branches', {})
      BY <1>3, <2>2, WithdrawalRecasts
    <2> QED BY <2>1, <2>3 DEF Conserves
  <1>4. CASE Ignore
    <2>1. branches' = branches /\ effects' = <<>> /\ request' = request
      BY <1>4 DEF Ignore
    <2>2. Recasts(branches, branches', {})
      BY <2>1 DEF Recasts
    <2> QED BY <2>1, <2>2, EmptyEffects DEF Conserves
  <1>5. CASE \/ TokensMinted \/ (\E r \in Requests : OnUpstream(r))
             \/ (\E v \in {"valid", "invalid"} : OnToken(v))
             \/ (\E targets \in TargetSets : OnTargets(targets))
             \/ OnTargetsUnavailable
    BY <1>5, OpeningConserves
  <1> QED BY <1>1, <1>2, <1>3, <1>4, <1>5, TimerConserves DEF EngineCall

\* A transaction keeps its share of Max-Breadth and does not open again; one that is
\* launched has the share of its copy.
SharesFrom(cl) ==
    /\ DOMAIN client' = DOMAIN client \cup Forwards(effects')
    /\ \A b \in DOMAIN client \ Forwards(effects') :
         client'[b].share = cl[b].share /\ client'[b].phase = cl[b].phase
    /\ \A b \in Forwards(effects') :
         \E k \in DOMAIN effects' : /\ effects'[k].kind = "Forward"
                                    /\ client'[b].share = effects'[k].share
SharesKept ==
    /\ DOMAIN client' = DOMAIN client \cup Forwards(effects')
    /\ \A b \in DOMAIN client \ Forwards(effects') :
         /\ client'[b].share = client[b].share
         /\ client'[b].phase \in {"calling", "proceeding"} => Live(b)
    /\ \A b \in Forwards(effects') :
         \E k \in DOMAIN effects' : /\ effects'[k].kind = "Forward"
                                    /\ client'[b].share = effects'[k].share

LEMMA PerformedShares ==
  ASSUME NEW cl \in [DOMAIN client -> Client], effects' \in Seq(Effect), NEW ts, NEW hd,
         Perform(cl, ts, hd)
  PROVE  SharesFrom(cl)
  <1> DEFINE D == DOMAIN client
             L == Forwards(effects')
             copy(b) == CHOOSE e \in EffectsOf("Forward") : e.id = b
             new(b) == [phase |-> "calling", cancels |-> 0, provisionals |-> 0,
                        share |-> copy(b).share]
             more(b) == cl[b].cancels + CancelsOf(effects', b)
             told(b) == [cl[b] EXCEPT !.cancels = more(b)]
  <1>1. L = {e.id : e \in EffectsOf("Forward")}
    BY DEF Forwards, EffectsOf
  <1>2. client' = [b \in D \cup L |-> IF b \in L THEN new(b) ELSE told(b)]
    <2>1. DOMAIN cl = D
      OBVIOUS
    <2> QED BY <1>1, <2>1, Zenon DEF Perform
  <1>3. ASSUME NEW b \in L
        PROVE  \E k \in DOMAIN effects' : /\ effects'[k].kind = "Forward"
                                          /\ copy(b) = effects'[k]
    <2>1. \E e0 \in EffectsOf("Forward") : e0.id = b
      BY <1>1, <1>3
    <2>2. copy(b) \in EffectsOf("Forward")
      BY <2>1
    <2> HIDE DEF copy
    <2> QED BY <2>2 DEF EffectsOf
  <1>4. \A b : new(b).share = copy(b).share
    OBVIOUS
  <1> HIDE DEF more
  <1>5. ASSUME NEW b \in D PROVE told(b).share = cl[b].share /\ told(b).phase = cl[b].phase
    <2>1. cl[b] \in Client
      OBVIOUS
    <2> QED BY <2>1, Zenon DEF Client
  <1> HIDE DEF L, new, copy, told
  <1>6. DOMAIN client' = D \cup L
    BY <1>2
  <1>7. \A b \in L : client'[b] = new(b)
    BY <1>2
  <1>8. \A b \in D \ L : client'[b] = told(b)
    BY <1>2
  <1>9. \A b \in D \ L : client'[b].share = cl[b].share /\ client'[b].phase = cl[b].phase
    BY <1>5, <1>8, Zenon
  <1>10. ASSUME NEW b \in L
         PROVE  \E k \in DOMAIN effects' : /\ effects'[k].kind = "Forward"
                                           /\ client'[b].share = effects'[k].share
    <2>1. PICK k \in DOMAIN effects' : effects'[k].kind = "Forward" /\ copy(b) = effects'[k]
      BY <1>3
    <2>2. client'[b].share = effects'[k].share
      BY <1>4, <1>7, <2>1, Zenon
    <2> QED BY <2>1, <2>2
  <1> QED BY <1>6, <1>9, <1>10 DEF SharesFrom, L

\* No report of the kernel changes a share or opens a transaction that had ended.
LEMMA MovedShares ==
  ASSUME client \in [DOMAIN client -> Client], NEW id \in DOMAIN client, NEW phase,
         phase = "proceeding" => Live(id), phase # "calling"
  PROVE  \A b \in DOMAIN client :
           /\ SetPhase(id, phase)[b].share = client[b].share
           /\ SetPhase(id, phase)[b].phase \in {"calling", "proceeding"} => Live(b)
  <1> DEFINE new == [client[id] EXCEPT !.phase = phase]
  <1>1. client[id] \in Client
    OBVIOUS
  <1>2. new.share = client[id].share /\ new.phase = phase
    BY <1>1, Zenon DEF Client
  <1>3. SetPhase(id, phase) = [client EXCEPT ![id] = new]
    BY Zenon DEF SetPhase
  <1> HIDE DEF new
  <1> QED BY <1>2, <1>3 DEF Live

LEMMA ProceededShares ==
  ASSUME client \in [DOMAIN client -> Client], NEW id \in DOMAIN client, Live(id)
  PROVE  \A b \in DOMAIN client :
           /\ Proceeds(id)[b].share = client[b].share
           /\ Proceeds(id)[b].phase \in {"calling", "proceeding"} => Live(b)
  <1> DEFINE more == client[id].provisionals + 1
             new == [client[id] EXCEPT !.phase = "proceeding", !.provisionals = more]
  <1>1. client[id] \in Client
    OBVIOUS
  <1> HIDE DEF more
  <1>2. new.share = client[id].share
    BY <1>1, Zenon DEF Client
  <1>3. Proceeds(id) = [client EXCEPT ![id] = new]
    BY Zenon DEF Proceeds, more
  <1> HIDE DEF new
  <1> QED BY <1>2, <1>3 DEF Live

\* One step.
LEMMA StepShares ==
  ASSUME TransactionInv, IndInv', NextAll, ~Quiet
  PROVE  SharesKept
  <1>0. effects' \in Seq(Effect) /\ client \in [DOMAIN client -> Client]
    BY DEF TransactionInv, IndInv, TypeOK
  <1>1. ASSUME NEW ts, NEW hd, Perform(client, ts, hd) PROVE SharesKept
    <2>1. SharesFrom(client)
      BY <1>0, <1>1, PerformedShares
    <2> QED BY <2>1 DEF SharesKept, SharesFrom, Live
  <1>2. ASSUME NEW id \in DOMAIN client, NEW phase \in {"proceeding", "accepted", "done"},
               phase = "proceeding" => Live(id),
               NEW ts, NEW hd, Perform(SetPhase(id, phase), ts, hd)
        PROVE  SharesKept
    <2>1. SetPhase(id, phase) \in [DOMAIN client -> Client]
      BY <1>0, InputMoves DEF Input
    <2>2. SharesFrom(SetPhase(id, phase))
      BY <1>0, <1>2, <2>1, PerformedShares
    <2>3. \A b \in DOMAIN client :
            /\ SetPhase(id, phase)[b].share = client[b].share
            /\ SetPhase(id, phase)[b].phase \in {"calling", "proceeding"} => Live(b)
      BY <1>0, <1>2, MovedShares
    <2> QED BY <2>2, <2>3, Zenon DEF SharesKept, SharesFrom
  <1>3. ASSUME NEW id \in DOMAIN client, NEW status, HearProvisional(id, status)
        PROVE  SharesKept
    <2>1. /\ client[id].provisionals < MaxProvisionals /\ Live(id)
          /\ Perform(Proceeds(id), timers, heard)
      BY <1>3 DEF HearProvisional, Proceeds
    <2>2. Proceeds(id) \in [DOMAIN client -> Client]
      BY <1>0, <2>1, InputProceeds DEF Input
    <2>3. SharesFrom(Proceeds(id))
      BY <1>0, <2>1, <2>2, PerformedShares
    <2>4. \A b \in DOMAIN client :
            /\ Proceeds(id)[b].share = client[b].share
            /\ Proceeds(id)[b].phase \in {"calling", "proceeding"} => Live(b)
      BY <1>0, <2>1, ProceededShares
    <2> QED BY <2>3, <2>4, Zenon DEF SharesKept, SharesFrom
  <1>4. ASSUME NEW id \in DOMAIN client, OnBranch(id) PROVE SharesKept
    <2>1. CASE HearTrying(id)
      BY <1>2, <2>1 DEF HearTrying, Live
    <2>2. ASSUME NEW status, HearFinal(id, status) PROVE SharesKept
      <3>1. PICK phase \in {"accepted", "done"} :
               Perform(SetPhase(id, phase), timers, Noted(id, status))
        BY <2>2 DEF HearFinal
      <3> QED BY <1>2, <3>1
    <2>3. CASE KernelTimeout(id)
      BY <1>2, <2>3 DEF KernelTimeout
    <2>4. CASE TransportFails(id)
      BY <1>2, <2>4 DEF TransportFails
    <2>5. CASE TimerCFires(id)
      BY <1>1, <2>5, Zenon DEF TimerCFires
    <2> QED BY <1>3, <1>4, <2>1, <2>2, <2>3, <2>4, <2>5 DEF OnBranch
  <1>5. CASE Mint
    <2>1. client' = client /\ effects' = <<>>
      BY <1>5 DEF Mint, TokensMinted, envVars
    <2> QED BY <2>1, NoEffects DEF SharesKept, Live
  <1>6. CASE \/ \E r \in Requests : Receive(r)
             \/ \E v \in {"valid", "invalid"} : Verify(v)
             \/ Resolve \/ CallerCancels
    BY <1>1, <1>6 DEF Receive, Verify, Resolve, CallerCancels
  <1> QED BY <1>4, <1>5, <1>6 DEF NextAll

\* What was heard stays heard.
LEMMA HeardGrows ==
  ASSUME NextAll, ~Quiet
  PROVE  HeardOf \subseteq HeardOf'
  <1>1. \A id, status : heard \subseteq Noted(id, status)
    BY DEF Noted
  <1>p. ASSUME NEW cl, NEW ts, NEW hd, Perform(cl, ts, hd) PROVE heard' = hd
    BY <1>p, Zenon DEF Perform
  <1>2. ASSUME NEW id, OnBranch(id) PROVE heard \subseteq heard'
    <2>1. CASE HearTrying(id)
      BY <1>p, <2>1, Zenon DEF HearTrying
    <2>2. ASSUME NEW status, HearProvisional(id, status) \/ HearFinal(id, status)
          PROVE  heard \subseteq heard'
      <3>1. heard' = heard \/ heard' = Noted(id, status)
        BY <1>p, <2>2, Zenon DEF HearProvisional, HearFinal
      <3> QED BY <1>1, <3>1
    <2>3. CASE KernelTimeout(id) \/ TransportFails(id)
      <3>1. heard' = Noted(id, 408) \/ heard' = Noted(id, 503)
        BY <1>p, <2>3, Zenon DEF KernelTimeout, TransportFails
      <3> QED BY <1>1, <3>1
    <2>4. CASE TimerCFires(id)
      <3>1. heard' = heard \/ heard' = Noted(id, 408)
        BY <1>p, <2>4, Zenon DEF TimerCFires
      <3> QED BY <1>1, <3>1
    <2> QED BY <1>2, <2>1, <2>2, <2>3, <2>4 DEF OnBranch
  <1>3. heard \subseteq heard'
    <2>1. CASE Mint
      BY <2>1 DEF Mint, envVars
    <2>2. CASE \/ \E r \in Requests : Receive(r)
               \/ \E v \in {"valid", "invalid"} : Verify(v)
               \/ Resolve \/ CallerCancels
      <3>1. heard' = heard
        BY <1>p, <2>2, Zenon DEF Receive, Verify, Resolve, CallerCancels
      <3> QED BY <3>1
    <2> QED BY <1>2, <2>1, <2>2 DEF NextAll
  <1> QED BY <1>3 DEF HeardOf

\* A copy is in flight while its transaction is open and nothing was heard to end it.
LEMMA InFlightMeans ==
  InFlight = {b \in DOMAIN client : Live(b) /\ b \notin HeardOf}
  <1>1. \A b : (\E h \in heard : h.branch = b) <=> b \in HeardOf
    BY DEF HeardOf
  <1> QED BY <1>1 DEF InFlight, LiveIds, GivenUp

\* What is in flight after a step fits, if it did before.
LEMMA BreadthStep ==
  ASSUME TransactionInv, SelectionInv', BreadthInv, NextAll, ~Quiet
  PROVE  BreadthInv'
  <1>0. IndInv /\ finals \subseteq Collected /\ EngineCall
    BY IsEngineCall DEF TransactionInv
  <1>1. Conserves
    BY <1>0, EngineConserves
  <1>2. SharesKept /\ IndInv'
    BY <1>0, EngineKeeps, StepShares
  <1>3. HeardOf \subseteq HeardOf'
    BY HeardGrows
  <1>4. /\ InFlight = {b \in DOMAIN client : Live(b) /\ b \notin HeardOf}
        /\ InFlight' = {b \in DOMAIN client' :
                          client'[b].phase \in {"calling", "proceeding"} /\ b \notin HeardOf'}
    BY InFlightMeans DEF InFlight, LiveIds, GivenUp, Live, HeardOf
  <1> SUFFICES ASSUME request' # NoRequest
               PROVE  Fits(branches', client', InFlight', MaxBreadth(request'))
    BY DEF BreadthInv, Fits, MaxBreadth, HeaderNumber
  <1>5. request' \in Request
    BY <1>2 DEF IndInv, TypeOK
  <1>6. CASE branches' = <<>>
    <2>1. MaxBreadth(request') \in Nat
      BY <1>5, MaxBreadthType
    <2>2. 0 * 0 <= MaxBreadth(request') /\ Len(branches') <= 0 + 0 /\ 0 \in Nat
          /\ DOMAIN branches' = {}
      BY <1>6, <2>1
    <2> QED BY <2>2, Zenon DEF Fits
  <1>7. ASSUME ~Launches(effects'), request' = request, NEW ids, Recasts(branches, branches', ids)
        PROVE  Fits(branches', client', InFlight', MaxBreadth(request'))
    <2>1. Forwards(effects') = {}
      BY <1>7 DEF Launches, Emits, Forwards
    <2>2. PICK lo \in Nat, n \in Nat, s \in Nat :
             /\ s * n <= MaxBreadth(request)
             /\ Len(branches) <= lo + n
             /\ \A k \in DOMAIN branches : branches[k].id \in InFlight =>
                  /\ k > lo /\ branches[k].id \in DOMAIN client
                  /\ client[branches[k].id].share <= s
      BY <1>7, Zenon DEF BreadthInv, Fits
    <2>3. \A b \in InFlight' : /\ b \in InFlight /\ b \in DOMAIN client'
                               /\ client'[b].share = client[b].share
      BY <1>2, <1>3, <1>4, <2>1 DEF SharesKept
    <2>4. ASSUME NEW k \in DOMAIN branches', branches'[k].id \in InFlight'
          PROVE  /\ k > lo /\ branches'[k].id \in DOMAIN client'
                 /\ client'[branches'[k].id].share <= s
      <3>1. k \in DOMAIN branches /\ branches'[k].id = branches[k].id
        BY <1>7, <2>4, Zenon DEF Recasts
      <3>2. k > lo /\ client[branches[k].id].share <= s
        BY <2>2, <2>3, <2>4, <3>1, Zenon
      <3> QED BY <2>3, <2>4, <3>1, <3>2, Zenon
    <2>5. s * n <= MaxBreadth(request') /\ Len(branches') <= lo + n
      BY <1>7, <2>2, Zenon DEF Recasts
    <2> QED BY <2>4, <2>5, Zenon DEF Fits
  <1>8. CASE ~finished' /\ Opens(request')
    <2>1. PICK lo \in Nat, n \in Nat, s \in Nat :
             /\ s * n <= MaxBreadth(request')
             /\ Len(branches') <= lo + n
             /\ \A k \in DOMAIN branches' : branches'[k].state # "Concluded" =>
                   k > lo /\ branches'[k].id \in Forwards(effects')
             /\ \A k \in DOMAIN effects' : effects'[k].kind = "Forward" => effects'[k].share = s
      BY <1>8, Zenon DEF Opens
    <2>2. ConcludedIds(branches') \subseteq HeardOf'
      BY <1>8 DEF SelectionInv, Tally
    <2>3. ASSUME NEW k \in DOMAIN branches', branches'[k].id \in InFlight'
          PROVE  /\ k > lo /\ branches'[k].id \in DOMAIN client'
                 /\ client'[branches'[k].id].share <= s
      <3>1. branches'[k].id \notin HeardOf'
        BY <1>4, <2>3
      <3>2. branches'[k].state # "Concluded"
        BY <2>2, <3>1 DEF ConcludedIds
      <3>3. k > lo /\ branches'[k].id \in Forwards(effects')
        BY <2>1, <3>2, Zenon
      <3>4. /\ branches'[k].id \in DOMAIN client'
            /\ client'[branches'[k].id].share = s
        BY <1>2, <2>1, <3>3, Zenon DEF SharesKept
      <3>5. s <= s
        OBVIOUS
      <3> QED BY <3>3, <3>4, <3>5, Zenon
    <2> QED BY <2>1, <2>3, Zenon DEF Fits
  <1> QED BY <1>1, <1>6, <1>7, <1>8 DEF Conserves

\* Section 6 and PB-V-8, when a copy can be built for every target: however many groups,
\* failures and cancellations came before, the copies whose transactions are open and that
\* Timer C did not give up carry together no more Max-Breadth than the request arrived with.
\* Of the copies that Timer C gave up it says nothing: LiveBreadthIsConserved is false.
THEOREM BreadthConserved ==
  ASSUME AllTargetsBuild
  PROVE  SpecAll => []BreadthIsConserved
  <1>1. InitAll => BreadthInv
    BY DEF InitAll, Init, BreadthInv
  <1>2. TransactionInv /\ SelectionInv' /\ BreadthInv /\ [NextAll]_allVars => BreadthInv'
    <2> SUFFICES ASSUME TransactionInv, SelectionInv', BreadthInv, [NextAll]_allVars
                 PROVE  BreadthInv'
      OBVIOUS
    <2>1. CASE NextAll /\ ~Quiet
      BY <2>1, BreadthStep
    <2>2. CASE UNCHANGED allVars
      <3>1. branches' = branches /\ client' = client /\ request' = request /\ heard' = heard
        BY <2>2 DEF allVars, vars, envVars
      <3> QED BY <3>1 DEF BreadthInv, Fits, MaxBreadth, HeaderNumber, InFlight, LiveIds, GivenUp,
                          Live
    <2> QED BY <2>1, <2>2 DEF Quiet
  <1>3. TransactionInv /\ BreadthInv => BreadthIsConserved
    BY FitsIsConserved
  <1> QED BY <1>1, <1>2, <1>3, TransactionInvariance, SelectionInvariance, PTL DEF SpecAll
=============================================================================
