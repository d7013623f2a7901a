----------------------------- MODULE DialogRouting -----------------------------
(***************************************************************************)
(* One call through a chain of proxies: an INVITE finds the callee, the    *)
(* two ends learn their route sets from it, and then each of them sends    *)
(* requests within the dialog.  The edges of the platform are the code of  *)
(* crates/sipx-clstr-proxy (validation V3 and V4, preprocessing P1 to P3,  *)
(* targets T1 to T3, the copy F2 to F8, ACK routing); user agents and      *)
(* foreign proxies, loose and strict, do what RFC 3261 has them do.        *)
(*                                                                         *)
(* An edge keeps nothing between two requests, so it is an operator on the *)
(* request; the state is the request under way, what the ends learned, and *)
(* the history of the journey.  Forking is in ResponseContext: here one    *)
(* branch is followed, whichever it is.                                    *)
(***************************************************************************)
EXTENDS Integers, Sequences, SequencesExt

CONSTANTS
    Edges,       \* hosts of the platform's nodes: the identities of its configuration
    Loose,       \* foreign loose routers
    Strict,      \* foreign strict routers
    Caller, Callee,
    Users,       \* the user parts of subscribers and devices
    Scenes,      \* where registrations lead, how the caller starts, whether tokens are minted
    NoToken,     \* a URI without an `aft` parameter
    Unreadable   \* a Route value that is not an address

VARIABLES
    scene,       \* the scene this behaviour is about
    msg,         \* the request under way
    at,          \* the element it has been sent to
    phase,       \* where the journey is
    learned,     \* the route set each end learned from the INVITE
    remote,      \* the remote target each end learned
    visited,     \* history: elements that handled this request, in order
    passes       \* history: what each edge saw and did on this journey

dialogVars == <<scene, msg, at, phase, learned, remote, visited, passes>>

-----------------------------------------------------------------------------
(* Addresses *)

\* `host` is what an identity is compared with, `at` the element it resolves to: a device
\* may share an edge's host on another port.
Uri(host, loc, user, lr) ==
    [host |-> host, at |-> loc, user |-> user, lr |-> lr, token |-> NoToken]
Router(x, lr) == Uri(x, x, "", lr)
RecordRouteUri(edge) == Router(edge, TRUE)

Host == Edges \cup Loose \cup Strict \cup {Caller, Callee}
Side == {"ORIG", "TERM"}
Address == [host : Host, at : Host, user : {""} \cup Users, lr : BOOLEAN,
            token : {NoToken} \cup Side \X Nat]

\* How a Route names a router, and the URIs of subscribers and devices: none of these is at
\* a foreign router, or is written like an entry of a Route set.
RouterUri == {Router(x, TRUE) : x \in Edges \cup Loose} \cup {Router(x, FALSE) : x \in Strict}
UserUri == {u \in Address : /\ u.token = NoToken /\ u.at \notin Loose \cup Strict
                            /\ ~(u.user = "" /\ u.lr)}
ASSUME ElementsAssumption ==
    /\ Edges \cap Loose = {} /\ Edges \cap Strict = {} /\ Loose \cap Strict = {}
    /\ {Caller, Callee} \cap (Edges \cup Loose \cup Strict) = {} /\ Caller # Callee
    /\ NoToken \notin Side \X Nat /\ Unreadable \notin Address

Readable(uri) == uri # Unreadable
IsOurs(uri) == uri.host \in Edges

\* A value this platform placed in a Record-Route: ours, no user part, and `lr`.
IsOurRecordRouteValue_AnyUri(uri) == IsOurs(uri)
IsOurRecordRouteValue(uri) == IsOurs(uri) /\ uri.user = "" /\ uri.lr

-----------------------------------------------------------------------------
(* Preprocessing *)

\* P1: a strict router put our Record-Route value into the Request-URI.
RecoverRequestUri(m) ==
    IF IsOurRecordRouteValue(m.uri) /\ m.routes # <<>> /\ Readable(Last(m.routes))
    THEN [m EXCEPT !.uri = Last(m.routes), !.routes = Front(m.routes)]
    ELSE m

\* P2: how many of the leading Routes are ours to pop, at most two: the entries of a pair.
Popped(routes) ==
    IF routes = <<>> \/ ~Readable(routes[1]) \/ ~IsOurs(routes[1]) THEN 0
    ELSE IF Len(routes) > 1 /\ Readable(routes[2]) /\ IsOurs(routes[2]) THEN 2
    ELSE 1

Preprocess(m) ==
    LET r == RecoverRequestUri(m)
    IN  [r EXCEPT !.routes = SubSeq(@, Popped(@) + 1, Len(@))]

\* The entry whose token is verified; its partner is the second popped, if it has one.
Governing(m) ==
    LET routes == RecoverRequestUri(m).routes
    IN  IF Popped(routes) = 0 THEN NoToken ELSE routes[1].token

-----------------------------------------------------------------------------
(* Loop detection *)

\* What decides where a request goes.  The cookie is a keyed digest of it, so here it is
\* the cookie; tags, Call-ID and CSeq are those of the one request followed.
RoutingState_NoRoutes(m) == <<m.uri, m.inDialog>>
RoutingState(m) == <<m.uri, m.inDialog, m.routes>>

\* V4: one of our Vias carries the cookie of the state as it is now.
IsLoop(m) ==
    \E i \in DOMAIN m.vias : m.vias[i].by \in Edges /\ m.vias[i].cookie = RoutingState(m)

-----------------------------------------------------------------------------
(* Targets and the forwarded copy *)

\* T1 and T3: the Request-URI, which is also where an ACK goes.  T2: what is registered
\* under it.
Targets(m) ==
    IF m.method = "ACK" \/ m.inDialog \/ m.routes # <<>> THEN {[uri |-> m.uri, path |-> <<>>]}
    ELSE {t \in scene.registered : t.aor = <<m.uri.host, m.uri.user>>}

\* F4: on a dialog-forming request, the pair of tokens, the terminating entry on top; one
\* bare entry when the platform has no keys.
Pair_Swapped(edge, n) ==
    <<[RecordRouteUri(edge) EXCEPT !.token = <<"ORIG", n>>],
      [RecordRouteUri(edge) EXCEPT !.token = <<"TERM", n>>]>>
Pair(edge, n) ==
    <<[RecordRouteUri(edge) EXCEPT !.token = <<"TERM", n>>],
      [RecordRouteUri(edge) EXCEPT !.token = <<"ORIG", n>>]>>
RecordRoute(m, edge) ==
    IF m.method # "INVITE" \/ m.inDialog THEN m.rr
    ELSE IF scene.tokens THEN Pair(edge, Len(passes)) \o m.rr
    ELSE <<RecordRouteUri(edge)>> \o m.rr

\* F6: a strict router ahead goes into the Request-URI, and the Request-URI to the end.
MustSwap(routes) == routes # <<>> /\ Readable(routes[1]) /\ ~routes[1].lr
StrictSwap(uri, routes) ==
    IF MustSwap(routes) THEN [uri |-> routes[1], routes |-> Tail(routes) \o <<uri>>]
                        ELSE [uri |-> uri, routes |-> routes]

\* F7: the Request-URI when F6 changed the copy, else the first Route there is.
NextHop(uri, routes, swapped) ==
    IF swapped \/ routes = <<>> \/ ~Readable(routes[1]) THEN uri ELSE routes[1]

\* F2 to F8 for one target.  `m` is the request after preprocessing, `arrived` as it came:
\* the cookie covers the latter.
Copy(m, arrived, target, edge) ==
    LET routes == target.path \o m.routes
        hop == StrictSwap(target.uri, routes)
    IN  [m EXCEPT !.uri = hop.uri, !.routes = hop.routes, !.hops = @ - 1,
                  !.rr = RecordRoute(m, edge),
                  !.vias = <<[by |-> edge, cookie |-> RoutingState(arrived)]>> \o @]
CopyHop(m, target) ==
    LET routes == target.path \o m.routes
        hop == StrictSwap(target.uri, routes)
    IN  NextHop(hop.uri, hop.routes, MustSwap(routes))

\* The caller sends to the first Route, and knows better than to start at a strict router.
Scene == [registered : SUBSET [aor : Host \X Users, uri : UserUri,
                               path : Seq(RouterUri \cup {Unreadable})],
          tokens : BOOLEAN, contact : {u \in UserUri : u.at \in {Caller, Callee}},
          uri : UserUri, routes : Seq(RouterUri \cup {Unreadable}), first : Host, hops : Nat]
ASSUME ScenesAssumption ==
    \A s \in Scenes : /\ s \in Scene /\ ~MustSwap(s.routes)
                      /\ s.first = NextHop(s.uri, s.routes, FALSE).at

-----------------------------------------------------------------------------
(* The edges *)

Refused(reason) == [kind |-> "refused", reason |-> reason]
Travelling == [kind |-> "travelling", reason |-> 0]
Delivered == [kind |-> "delivered", reason |-> 0]
Lost == [kind |-> "lost", reason |-> 0]

Handles(x) == at = x /\ phase = Travelling /\ visited' = Append(visited, x)

Valid(m) == m.hops > 0 /\ ~IsLoop(m)

\* V3, V4, P3 and an empty target set.  An ACK has no response: it stops with the reason.
EdgeRefuses(edge) ==
    /\ Handles(edge)
    /\ \/ msg.hops = 0 /\ phase' = Refused(483)
       \/ msg.hops > 0 /\ IsLoop(msg) /\ phase' = Refused(482)
       \/ Valid(msg) /\ Governing(msg) # NoToken /\ phase' = Refused(403)
       \/ Valid(msg) /\ Targets(Preprocess(msg)) = {} /\ phase' = Refused(480)
    /\ UNCHANGED <<scene, msg, at, learned, remote, passes>>

\* One branch goes out.  A token that was popped verified.
EdgeForwards(edge) ==
    /\ Handles(edge)
    /\ Valid(msg)
    /\ \E target \in Targets(Preprocess(msg)) :
          /\ msg' = Copy(Preprocess(msg), msg, target, edge)
          /\ at' = CopyHop(Preprocess(msg), target).at
    /\ passes' = Append(passes, [came |-> <<msg.uri, msg.routes>>, token |-> Governing(msg)])
    /\ UNCHANGED <<scene, phase, learned, remote>>

-----------------------------------------------------------------------------
(* Everyone else, as RFC 3261 and RFC 2543 have it *)

Forward(next, hop) == msg' = next /\ at' = hop /\ UNCHANGED phase

Recorded(m, x, lr) ==
    [m EXCEPT !.rr = IF m.inDialog THEN @ ELSE <<Router(x, lr)>> \o @, !.hops = @ - 1]

LooseForwards(x) ==
    /\ Handles(x)
    /\ LET own == msg.routes # <<>> /\ Readable(msg.routes[1]) /\ msg.routes[1].at = x
           strictBefore == msg.uri = Router(x, TRUE) /\ msg.routes # <<>>
           uri == IF strictBefore THEN Last(msg.routes) ELSE msg.uri
           routes == IF strictBefore THEN Front(msg.routes)
                     ELSE IF own THEN Tail(msg.routes) ELSE msg.routes
           hop == StrictSwap(uri, routes)
           next == NextHop(hop.uri, hop.routes, MustSwap(routes))
       IN  IF msg.hops = 0 \/ next.at = x
           THEN phase' = (IF msg.hops = 0 THEN Refused(483) ELSE Lost) /\ UNCHANGED <<msg, at>>
           ELSE Forward([Recorded(msg, x, TRUE) EXCEPT !.uri = hop.uri, !.routes = hop.routes],
                        next.at)
    /\ UNCHANGED <<scene, learned, remote, passes>>

StrictForwards(x) ==
    /\ Handles(x)
    /\ LET more == msg.routes # <<>>
           uri == IF more THEN msg.routes[1] ELSE msg.uri
           routes == IF more THEN Tail(msg.routes) ELSE <<>>
       IN  IF msg.hops = 0 \/ ~Readable(uri) \/ uri.at = x
           THEN phase' = (IF msg.hops = 0 THEN Refused(483) ELSE Lost) /\ UNCHANGED <<msg, at>>
           ELSE Forward([Recorded(msg, x, FALSE) EXCEPT !.uri = uri, !.routes = routes], uri.at)
    /\ UNCHANGED <<scene, learned, remote, passes>>

\* A request reaches a user agent.  An INVITE establishes the dialog: the callee takes the
\* recorded routes in order, the caller in reverse, and each the other's contact.
Deliver(x) ==
    /\ Handles(x)
    /\ phase' = Delivered
    /\ \/ /\ msg.method = "INVITE" /\ x = Callee
          /\ learned' = [side \in {Caller, Callee} |->
                             IF side = Callee THEN msg.rr ELSE Reverse(msg.rr)]
          /\ remote' = [side \in {Caller, Callee} |->
                             IF side = Callee THEN scene.contact ELSE msg.uri]
       \/ /\ msg.method # "INVITE" \/ x = Caller
          /\ UNCHANGED <<learned, remote>>
    /\ UNCHANGED <<scene, msg, at, passes>>

Established == learned # <<>>

\* A request within the dialog, addressed by the route set.
SendWithin(side, method) ==
    /\ Established /\ phase # Travelling
    /\ method = "ACK" => side = Caller
    /\ LET set == learned[side]
           hop == StrictSwap(remote[side], set)
       IN  /\ msg' = [method |-> method, from |-> side, inDialog |-> TRUE,
                      uri |-> hop.uri, routes |-> hop.routes, rr |-> <<>>, vias |-> <<>>,
                      hops |-> scene.hops]
           /\ at' = NextHop(hop.uri, hop.routes, MustSwap(set)).at
    /\ phase' = Travelling /\ visited' = <<>> /\ passes' = <<>>
    /\ UNCHANGED <<scene, learned, remote>>

\* The dialog is over, or there never was one.
Rest ==
    /\ phase # Travelling
    /\ UNCHANGED dialogVars

InitDialog ==
    /\ scene \in Scenes
    /\ msg = [method |-> "INVITE", from |-> Caller, inDialog |-> FALSE, uri |-> scene.uri,
              routes |-> scene.routes, rr |-> <<>>, vias |-> <<>>, hops |-> scene.hops]
    /\ at = scene.first
    /\ phase = Travelling
    /\ learned = <<>> /\ remote = <<>> /\ visited = <<>> /\ passes = <<>>

NextDialog ==
    \/ \E x \in Edges : EdgeRefuses(x) \/ EdgeForwards(x)
    \/ \E x \in Loose : LooseForwards(x)
    \/ \E x \in Strict : StrictForwards(x)
    \/ \E x \in {Caller, Callee} : Deliver(x)
    \/ \E side \in {Caller, Callee}, method \in {"ACK", "BYE"} : SendWithin(side, method)
    \/ Rest

SpecDialog == InitDialog /\ [][NextDialog]_dialogVars

-----------------------------------------------------------------------------
(* Properties *)

Foreign(x) == x \in Loose \cup Strict
Sender == IF msg.from = Caller THEN "ORIG" ELSE "TERM"

\* The foreign routers among some elements, in their order.
Foreigners(elements) ==
    LET upTo[i \in 0..Len(elements)] ==
          IF i = 0 THEN <<>>
          ELSE IF Foreign(elements[i]) THEN Append(upTo[i - 1], elements[i])
          ELSE upTo[i - 1]
    IN  upTo[Len(elements)]

\* A request within the dialog reaches the other end with its Request-URI the contact that
\* end gave, past every foreign router that recorded itself, in the order the route set has
\* them, and past no other, whatever rewritten Request-URIs and devices on an edge's own
\* host are in the way; only a token, or the hops running out, can stop it (route.rs P2,
\* forward.rs F6 and F7).
InDialogReachesPeer ==
    msg.inDialog =>
        /\ phase = Delivered =>
              /\ at = remote[msg.from].at /\ msg.uri = remote[msg.from] /\ msg.routes = <<>>
              /\ Foreigners(visited) =
                    Foreigners([i \in DOMAIN learned[msg.from] |-> learned[msg.from][i].at])
        /\ phase # Lost
        /\ phase.kind = "refused" => phase.reason \in {403, 483}

\* A request is refused as a loop exactly when it came back in a state it was forwarded in
\* before: a spiral is forwarded, and no state is forwarded twice (validate.rs V4, cookie.rs).
LoopsAreExactlyRepeats ==
    /\ \A i, j \in DOMAIN passes : i # j => passes[i].came # passes[j].came
    /\ phase = Refused(482) => \E i \in DOMAIN passes : passes[i].came = <<msg.uri, msg.routes>>

\* The token that governs a request is of the side that sent it, when no strict router is in
\* its route set: one takes the first of a pair for the Request-URI, and from there on every
\* edge pairs the entries wrongly (route.rs P2, forward.rs F4, token.rs Direction).
GoverningTokenNamesPresenter ==
    \A i \in DOMAIN passes :
        /\ passes[i].token # NoToken
        /\ \A j \in DOMAIN learned[msg.from] : learned[msg.from][j].lr
        => passes[i].token[1] = Sender

\* affinity-token.md section 8, S9, without that exception.
GoverningTokenAlwaysNamesPresenter ==
    \A i \in DOMAIN passes : passes[i].token # NoToken => passes[i].token[1] = Sender
================================================================================
