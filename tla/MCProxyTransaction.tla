------------------------- MODULE MCProxyTransaction -------------------------
(***************************************************************************)
(* Instances of ProxyTransaction for TLC, and the properties checked on    *)
(* them.                                                                   *)
(***************************************************************************)
EXTENDS ProxyTransaction

Base == [method |-> "INVITE", respondable |-> TRUE, scheme |-> TRUE,
         maxForwards |-> 70, looped |-> FALSE, maxBreadth |-> Absent,
         supported |-> TRUE, uriIsRecordRoute |-> FALSE, inDialog |-> FALSE,
         routes |-> <<>>]

T(q) == [q |-> q, builds |-> TRUE]

\* An INVITE and another request, looked up, with room for two parallel branches.
ForkRequests == {Base, [Base EXCEPT !.method = "OTHER"]}

\* One group of two, and groups of distinct q in the wrong order.
ForkTargets == { <<T(500), T(500)>>, <<T(200), T(700), T(700)>> }
ForkCodes == {180, 200, 401, 486, 500, 503, 603}

(* Admission and routing: every check, every shape of Route set, few targets. *)
Options == [Base EXCEPT !.method = "OTHER"]
RoutingRequests ==
    { [Base EXCEPT !.respondable = FALSE], [Base EXCEPT !.scheme = FALSE],
      [Base EXCEPT !.maxForwards = 0], [Base EXCEPT !.looped = TRUE],
      [Base EXCEPT !.maxBreadth = 0], [Base EXCEPT !.supported = FALSE],
      \* two checks fail: the first one answers
      [Base EXCEPT !.maxForwards = 0, !.supported = FALSE],
      \* values their types cannot hold read as absent
      [Base EXCEPT !.maxForwards = 256, !.maxBreadth = 1001],
      \* narrow budgets
      [Base EXCEPT !.maxBreadth = 1], [Base EXCEPT !.maxBreadth = 3],
      [Base EXCEPT !.inDialog = TRUE, !.routes = <<"token", "ours">>],
      [Base EXCEPT !.routes = <<"ours", "token">>],
      [Base EXCEPT !.routes = <<"token", "token", "foreign">>],
      [Options EXCEPT !.routes = <<"foreign", "token">>],
      [Options EXCEPT !.routes = <<"token", "garbled">>, !.uriIsRecordRoute = TRUE],
      [Options EXCEPT !.routes = <<"token", "foreign">>, !.uriIsRecordRoute = TRUE] }
RoutingTargets == { <<>>, <<T(500)>>, <<T(500), T(500)>> }

(* All of them together, with two targets also in sequence, for progress. *)
ProgressRequests == RoutingRequests \cup ForkRequests
ProgressTargets == RoutingTargets \cup { <<T(200), T(700)>> }
ProgressCodes == {180, 200, 407, 503}

(* For the refuted statements: a pair, and targets for which no copy can be built. *)
Unbuildable(q) == [q |-> q, builds |-> FALSE]
Invite == {Base}
RefutingTargets ==
    { <<T(500), T(500)>>, <<T(700), T(200)>>, <<Unbuildable(700), T(200)>>,
      <<Unbuildable(700), T(700), T(200)>> }
=============================================================================
