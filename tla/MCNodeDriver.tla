---------------------------- MODULE MCNodeDriver ----------------------------
(***************************************************************************)
(* Instances of NodeDriver for TLC.                                        *)
(***************************************************************************)
EXTENDS NodeDriver, TLC

CONSTANTS focal, one, two

Base == [method |-> "INVITE", respondable |-> TRUE, scheme |-> TRUE,
         maxForwards |-> 70, looped |-> FALSE, maxBreadth |-> Absent,
         supported |-> TRUE, uriIsRecordRoute |-> FALSE, inDialog |-> FALSE,
         routes |-> <<>>]

\* An INVITE and another request that are looked up, one that carries a token,
\* one that is refused and one that cannot be answered.
DriverRequests ==
    { Base, [Base EXCEPT !.method = "OTHER"], [Base EXCEPT !.routes = <<"token">>],
      [Base EXCEPT !.maxForwards = 0], [Base EXCEPT !.respondable = FALSE] }

T(q) == [q |-> q, builds |-> TRUE]
DriverTargets == { <<>>, <<T(500), T(500)>>, <<T(200), T(700)>> }
DriverCodes == {180, 200, 486}

DriverOthers == {one, two}
DriverTraffic == { (one :> m) @@ (two :> "OTHER") : m \in {"REGISTER", "ACK"} }
Both == [registrar |-> TRUE, proxy |-> TRUE]
DriverRoles == { Both, [Both EXCEPT !.proxy = FALSE] }

\* One call with two devices, and a far end that answers 504.
Invite == {Base}
PairTargets == { <<T(500), T(500)>> }
GatewayCodes == {180, 504}
ProxyOnly == {Both}
NoTraffic == { [o \in {} |-> "OTHER"] }
=============================================================================
