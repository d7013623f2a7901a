------------------------ MODULE DialogRouting_proofs ------------------------
(***************************************************************************)
(* Proofs about DialogRouting: for any edges and foreign routers, any      *)
(* scene, and any number of requests within the dialog.                    *)
(***************************************************************************)
EXTENDS DialogRouting, SequenceTheorems, WellFoundedInduction, TLAPS

-----------------------------------------------------------------------------
(* Sequences *)

\* Induction, told of the set of numbers that have a property.
LEMMA SetInduction ==
  ASSUME NEW T, 0 \in T, \A n \in Nat : n \in T => n + 1 \in T
  PROVE  \A n \in Nat : n \in T
  <1> DEFINE R == OpToRel(<, Nat)
             F == Nat \ T
  <1> SUFFICES ASSUME F # {} PROVE FALSE
    OBVIOUS
  <1>1. \E x \in F : \A y \in F : ~ (<<y, x>> \in R)
    <2> HIDE DEF F
    <2>1. F \subseteq Nat
      BY DEF F
    <2> QED BY <2>1, WFMin, NatLessThanWellFounded
  <1>2. PICK x \in F : \A y \in F : ~ (<<y, x>> \in R)
    BY <1>1
  <1>3. x \in Nat /\ x # 0 /\ x - 1 \in Nat /\ x - 1 \in F
    <2> HIDE DEF R
    <2>1. x # 0
      OBVIOUS
    <2>2. x - 1 \in Nat
      BY <2>1
    <2>3. x - 1 \notin T
      BY <2>2
    <2> QED BY <2>1, <2>2, <2>3
  <1>4. x - 1 < x
    BY <1>3
  <1>5. <<x - 1, x>> \in R
    BY <1>3, <1>4 DEF OpToRel
  <1> QED BY <1>2, <1>3, <1>5

\* What is left of a sequence after its first k elements.
From(s, k) == SubSeq(s, k + 1, Len(s))

LEMMA FromIs ==
  ASSUME NEW S, NEW s \in Seq(S), NEW k \in 0..Len(s)
  PROVE  /\ From(s, k) \in Seq(S) /\ Len(From(s, k)) = Len(s) - k
         /\ \A i \in 1..(Len(s) - k) : From(s, k)[i] = s[k + i]
  <1>1. Len(s) \in Nat /\ k \in Nat /\ k <= Len(s)
    OBVIOUS
  <1>2. \A i \in (k + 1)..Len(s) : s[i] \in S
    BY <1>1
  <1> QED BY <1>1, <1>2, SubSeqProperties DEF From

LEMMA FromFrom ==
  ASSUME NEW S, NEW s \in Seq(S), NEW k \in 0..Len(s), NEW j \in 0..(Len(s) - k)
  PROVE  SubSeq(From(s, k), j + 1, Len(From(s, k))) = From(s, k + j)
  <1> DEFINE p == From(s, k)
  <1>1. Len(s) \in Nat /\ k \in Nat /\ j \in Nat /\ k + j <= Len(s) /\ k + j \in 0..Len(s)
    OBVIOUS
  <1>2. p \in Seq(S) /\ Len(p) = Len(s) - k /\ \A i \in 1..(Len(s) - k) : p[i] = s[k + i]
    BY FromIs
  <1> HIDE DEF p
  <1>3. j \in 0..Len(p)
    BY <1>1, <1>2
  <1>4. /\ From(p, j) \in Seq(S) /\ Len(From(p, j)) = Len(p) - j
        /\ \A i \in 1..(Len(p) - j) : From(p, j)[i] = p[j + i]
    BY <1>2, <1>3, FromIs, ZenonT(40)
  <1>5. /\ From(s, k + j) \in Seq(S) /\ Len(From(s, k + j)) = Len(s) - (k + j)
        /\ \A i \in 1..(Len(s) - (k + j)) : From(s, k + j)[i] = s[(k + j) + i]
    BY <1>1, FromIs
  <1>6. ASSUME NEW i \in 1..Len(From(p, j)) PROVE From(p, j)[i] = From(s, k + j)[i]
    <2>1. i \in Nat /\ 1 <= i /\ i <= Len(s) - (k + j)
      BY <1>1, <1>2, <1>4, <1>6
    <2>2. i \in 1..(Len(p) - j) /\ i \in 1..(Len(s) - (k + j)) /\ j + i \in 1..(Len(s) - k)
      BY <1>1, <1>2, <2>1
    <2>3. k + (j + i) = (k + j) + i
      BY <1>1, <2>1
    <2> QED BY <1>2, <1>4, <1>5, <2>2, <2>3
  <1>7. Len(From(p, j)) = Len(From(s, k + j))
    BY <1>1, <1>2, <1>4, <1>5
  <1>8. From(p, j) = From(s, k + j)
    BY <1>4, <1>5, <1>6, <1>7, SeqEqual
  <1> QED BY <1>8 DEF From, p

LEMMA FromEnds ==
  ASSUME NEW S, NEW s \in Seq(S), NEW k \in 0..Len(s)
  PROVE  /\ From(s, 0) = s
         /\ k = Len(s) <=> From(s, k) = <<>>
         /\ k < Len(s) => /\ From(s, k)[1] = s[k + 1]
                          /\ Tail(From(s, k)) = From(s, k + 1)
  <1>1. Len(s) \in Nat /\ k \in Nat /\ k <= Len(s)
    OBVIOUS
  <1>2. From(s, 0) = s
    BY SubSeqFull DEF From
  <1>3. From(s, k) \in Seq(S) /\ Len(From(s, k)) = Len(s) - k
        /\ \A i \in 1..(Len(s) - k) : From(s, k)[i] = s[k + i]
    BY FromIs
  <1>4. k = Len(s) <=> From(s, k) = <<>>
    <2> DEFINE p == From(s, k)
    <2>1. p \in Seq(S) /\ Len(p) = Len(s) - k
      BY <1>3
    <2> HIDE DEF p
    <2>2. k = Len(s) <=> p = <<>>
      BY <1>1, <2>1
    <2> QED BY <2>2 DEF p
  <1>5. ASSUME k < Len(s)
        PROVE  From(s, k)[1] = s[k + 1] /\ Tail(From(s, k)) = From(s, k + 1)
    <2>1. 1 \in 1..(Len(s) - k) /\ 1 \in 0..(Len(s) - k) /\ From(s, k) # <<>>
      BY <1>1, <1>4, <1>5
    <2>2. Tail(From(s, k)) = SubSeq(From(s, k), 1 + 1, Len(From(s, k)))
      <3> DEFINE p == From(s, k)
      <3>1. p \in Seq(S) /\ p # <<>>
        BY <1>3, <2>1
      <3> HIDE DEF p
      <3>2. Tail(p) = SubSeq(p, 2, Len(p))
        BY <3>1, TailIsSubSeq
      <3> QED BY <3>2 DEF p
    <2>3. SubSeq(From(s, k), 1 + 1, Len(From(s, k))) = From(s, k + 1)
      BY <2>1, FromFrom
    <2> QED BY <1>3, <2>1, <2>2, <2>3
  <1> QED BY <1>2, <1>4, <1>5

\* A sequence with one more element at its end.
LEMMA WithLast ==
  ASSUME NEW S, NEW q \in Seq(S), NEW r \in S
  PROVE  LET t == q \o <<r>>
         IN  /\ t \in Seq(S) /\ t # <<>> /\ Len(t) = Len(q) + 1
             /\ Last(t) = r /\ Front(t) = q
             /\ q = <<>> => t[1] = r /\ Tail(t) = <<>>
             /\ q # <<>> => t[1] = q[1] /\ Tail(t) = Tail(q) \o <<r>>
  <1> DEFINE t == q \o <<r>>
  <1>0. Len(q) \in Nat
    OBVIOUS
  <1>1. t = Append(q, r)
    BY AppendIsConcat
  <1>2. /\ t \in Seq(S) /\ t # <<>> /\ Len(t) = Len(q) + 1
        /\ \A i \in 1..Len(q) : t[i] = q[i]
        /\ t[Len(q) + 1] = r
    BY <1>1, AppendProperties
  <1>3. Last(t) = r
    BY <1>2 DEF Last
  <1>4. Front(t) = q
    <2> HIDE DEF t
    <2>1. /\ Front(t) \in Seq(S) /\ Len(Front(t)) = Len(q)
          /\ \A i \in 1..Len(q) : Front(t)[i] = t[i]
      <3>1. Front(t) = SubSeq(t, 1, Len(q)) /\ \A i \in 1..Len(q) : t[i] \in S
        BY <1>0, <1>2 DEF Front
      <3> DEFINE f == SubSeq(t, 1, Len(q))
      <3>2. /\ f \in Seq(S) /\ Len(f) = IF 1 <= Len(q) THEN Len(q) - 1 + 1 ELSE 0
            /\ \A i \in 1..(Len(q) - 1 + 1) : f[i] = t[1 + i - 1]
        BY <1>0, <3>1, SubSeqProperties
      <3> HIDE DEF f
      <3>3. Len(f) = Len(q) /\ \A i \in 1..Len(q) : f[i] = t[i]
        BY <1>0, <3>2
      <3> QED BY <3>1, <3>2, <3>3 DEF f
    <2>2. \A i \in 1..Len(Front(t)) : Front(t)[i] = q[i]
      BY <1>2, <2>1
    <2> QED BY <2>1, <2>2, SeqEqual
  <1>5. q = <<>> => t[1] = r /\ Tail(t) = <<>>
    BY <1>1, <1>2, HeadTailAppend
  <1>6. q # <<>> => t[1] = q[1] /\ Tail(t) = Tail(q) \o <<r>>
    <2> SUFFICES ASSUME q # <<>> PROVE t[1] = q[1] /\ Tail(t) = Tail(q) \o <<r>>
      OBVIOUS
    <2>1. Tail(t) = Append(Tail(q), r)
      BY <1>1, HeadTailAppend
    <2>2. Tail(q) \in Seq(S) /\ 1 \in 1..Len(q)
      BY HeadTailProperties
    <2> QED BY <1>2, <2>1, <2>2, AppendIsConcat
  <1> QED BY <1>2, <1>3, <1>4, <1>5, <1>6

-----------------------------------------------------------------------------
(* What a request carries: the routers ahead and where it goes in the end *)

\* An entry of a recorded route: an edge's may hold a token.
Stop == {u \in Address : /\ u.user = "" /\ u.at = u.host
                         /\ u.host \in Edges \cup Loose \cup Strict
                         /\ u.lr <=> u.host \notin Strict
                         /\ u.host \notin Edges => u.token = NoToken}
Stops == Seq(Stop \cup {Unreadable})
Message == [method : {"INVITE", "ACK", "BYE"}, from : {Caller, Callee}, inDialog : BOOLEAN,
            uri : Address, routes : Seq(Address \cup {Unreadable}), rr : Seq(Stop),
            vias : Seq([by : Edges,
                        cookie : Address \X BOOLEAN \X Seq(Address \cup {Unreadable})]),
            hops : Int]

\* `m`, at element `a`, is on its way to the user `goal` past the routers `plan`: either the
\* goal is its Request-URI, or a strict router's form has the first router there and the goal
\* behind the others.
Straight(m, a, goal, plan) ==
    /\ m.uri = goal /\ m.routes = plan
    /\ ~MustSwap(plan) /\ a = NextHop(goal, plan, FALSE).at
Swapped(m, a, goal, plan) ==
    /\ plan # <<>> /\ Readable(plan[1])
    /\ m.uri = plan[1] /\ m.routes = Tail(plan) \o <<goal>> /\ a = plan[1].at
Carries(m, a, goal, plan) == Straight(m, a, goal, plan) \/ Swapped(m, a, goal, plan)

LEMMA AddressFacts ==
  /\ \A u \in Address : Readable(u) /\ u.at \in Host /\ u.host \in Host
  /\ \A u \in UserUri : u \in Address /\ Readable(u)
                        /\ u.at \notin Loose \cup Strict /\ ~(u.user = "" /\ u.lr)
  /\ \A u \in Stop : u \in Address /\ Readable(u) /\ u.at = u.host
  /\ RouterUri \subseteq Stop
  <1>1. \A u \in Address : Readable(u)
    BY ElementsAssumption DEF Readable
  <1>2. \A u \in Address : u.at \in Host /\ u.host \in Host
    BY DEF Address
  <1>3. \A u \in UserUri : u \in Address /\ u.at \notin Loose \cup Strict /\ ~(u.user = "" /\ u.lr)
    BY DEF UserUri
  <1>4. \A u \in Stop : u \in Address /\ u.at = u.host
    BY DEF Stop
  <1>5. ASSUME NEW x \in Edges \cup Loose PROVE Router(x, TRUE) \in Stop
    <2>1. Router(x, TRUE) \in Address
      BY <1>5 DEF Router, Uri, Address, Host
    <2> QED BY <1>5, <2>1, ElementsAssumption DEF Router, Uri, Stop
  <1>6. ASSUME NEW x \in Strict PROVE Router(x, FALSE) \in Stop
    <2>1. Router(x, FALSE) \in Address
      BY <1>6 DEF Router, Uri, Address, Host
    <2> QED BY <1>6, <2>1, ElementsAssumption DEF Router, Uri, Stop
  <1> QED BY <1>1, <1>2, <1>3, <1>4, <1>5, <1>6 DEF RouterUri

\* Whoever gives a request its form sends it along the plan.
LEMMA Launched ==
  ASSUME NEW goal \in UserUri, NEW plan \in Stops, NEW m, NEW a,
         LET hop == StrictSwap(goal, plan)
         IN  /\ m.uri = hop.uri /\ m.routes = hop.routes
             /\ a = NextHop(hop.uri, hop.routes, MustSwap(plan)).at
  PROVE  Carries(m, a, goal, plan)
  <1>1. CASE MustSwap(plan)
    <2>1. /\ plan # <<>> /\ Readable(plan[1])
          /\ m.uri = plan[1] /\ m.routes = Tail(plan) \o <<goal>> /\ a = plan[1].at
      BY <1>1 DEF MustSwap, StrictSwap, NextHop
    <2> QED BY <2>1 DEF Carries, Swapped
  <1>2. CASE ~MustSwap(plan)
    <2>1. m.uri = goal /\ m.routes = plan /\ a = NextHop(goal, plan, FALSE).at
      BY <1>2 DEF StrictSwap, NextHop
    <2> QED BY <1>2, <2>1 DEF Carries, Straight
  <1> QED BY <1>1, <1>2

\* The plan stays as long as the routes, whatever the form.
LEMMA CarriesFacts ==
  ASSUME NEW goal \in UserUri, NEW plan \in Stops, NEW m, NEW a, Carries(m, a, goal, plan)
  PROVE  /\ m.uri \in Address /\ m.routes \in Seq(Address \cup {Unreadable})
         /\ Len(m.routes) = Len(plan) /\ a \in Host
         /\ plan # <<>> /\ Readable(plan[1]) => a = plan[1].at
         /\ plan = <<>> \/ ~Readable(plan[1]) => m.uri = goal /\ a = goal.at
  <1> DEFINE A == Address \cup {Unreadable}
  <1>1. goal \in A /\ plan \in Seq(A) /\ goal \in Address /\ Len(plan) \in Nat
    <2>1. Stop \cup {Unreadable} \subseteq A
      BY AddressFacts
    <2>2. plan \in Seq(A) /\ Len(plan) \in Nat
      BY <2>1, SeqMonotonic DEF Stops
    <2>3. goal \in Address
      BY AddressFacts
    <2> QED BY <2>2, <2>3
  <1>2. plan # <<>> => plan[1] \in Stop \cup {Unreadable}
    BY DEF Stops
  <1>3. plan # <<>> /\ Readable(plan[1]) => plan[1] \in Stop /\ plan[1] \in Address
    BY <1>2, AddressFacts DEF Readable
  <1>4. CASE Straight(m, a, goal, plan)
    BY <1>1, <1>3, <1>4, AddressFacts DEF Straight, NextHop
  <1>5. CASE Swapped(m, a, goal, plan)
    <2>1. Tail(plan) \in Seq(A) /\ Len(Tail(plan)) = Len(plan) - 1
      BY <1>1, <1>5, HeadTailProperties DEF Swapped
    <2>2. /\ Tail(plan) \o <<goal>> \in Seq(A)
          /\ Len(Tail(plan) \o <<goal>>) = (Len(plan) - 1) + 1
      BY <1>1, <2>1, WithLast
    <2>3. (Len(plan) - 1) + 1 = Len(plan)
      BY <1>1
    <2> QED BY <1>3, <1>5, <2>2, <2>3, AddressFacts DEF Swapped
  <1> QED BY <1>4, <1>5 DEF Carries

\* P2 pops what is ours, and all of it that stands before anything else, up to two entries.
LEMMA PoppedIs ==
  ASSUME NEW plan \in Stops
  PROVE  /\ Popped(plan) \in 0..2 /\ Popped(plan) <= Len(plan)
         /\ \A i \in 1..Popped(plan) : Readable(plan[i]) /\ plan[i] \in Stop /\ plan[i].at \in Edges
         /\ plan # <<>> /\ Readable(plan[1]) /\ IsOurs(plan[1]) =>
              /\ Popped(plan) >= 1
              /\ Popped(plan) = 2 <=> Len(plan) > 1 /\ Readable(plan[2]) /\ IsOurs(plan[2])
  <1>1. Len(plan) \in Nat /\ \A i \in 1..Len(plan) : plan[i] \in Stop \cup {Unreadable}
    BY DEF Stops
  <1>2. ASSUME NEW i \in 1..Len(plan), Readable(plan[i]), IsOurs(plan[i])
        PROVE  plan[i] \in Stop /\ plan[i].at \in Edges
    BY <1>1, <1>2, AddressFacts DEF Readable, IsOurs
  <1>3. CASE plan = <<>> \/ ~Readable(plan[1]) \/ ~IsOurs(plan[1])
    <2>1. Popped(plan) = 0
      BY <1>3 DEF Popped
    <2> QED BY <1>1, <1>3, <2>1
  <1>4. CASE /\ ~ (plan = <<>> \/ ~Readable(plan[1]) \/ ~IsOurs(plan[1]))
             /\ Len(plan) > 1 /\ Readable(plan[2]) /\ IsOurs(plan[2])
    <2>1. Popped(plan) = 2
      BY <1>4 DEF Popped
    <2>2. \A i \in 1..2 : i = 1 \/ i = 2
      OBVIOUS
    <2>3. 1 \in 1..Len(plan) /\ 2 \in 1..Len(plan)
      BY <1>1, <1>4
    <2> QED BY <1>1, <1>2, <1>4, <2>1, <2>2, <2>3
  <1>5. CASE /\ ~ (plan = <<>> \/ ~Readable(plan[1]) \/ ~IsOurs(plan[1]))
             /\ ~ (Len(plan) > 1 /\ Readable(plan[2]) /\ IsOurs(plan[2]))
    <2>1. Popped(plan) = 1
      BY <1>5 DEF Popped
    <2>2. \A i \in 1..1 : i = 1
      OBVIOUS
    <2>3. 1 \in 1..Len(plan)
      BY <1>1, <1>5
    <2> QED BY <1>1, <1>2, <1>5, <2>1, <2>2, <2>3
  <1> QED BY <1>3, <1>4, <1>5

\* What preprocessing makes of a request: the goal, and the plan past `j` edges.
Reads(m, goal, plan, j) ==
    /\ Preprocess(m) = [m EXCEPT !.uri = goal, !.routes = From(plan, j)]
    /\ \A i \in 1..j : plan[i] \in Stop /\ plan[i].at \in Edges

LEMMA EdgeReadsStraight ==
  ASSUME NEW goal \in UserUri, NEW plan \in Stops, NEW m \in Message, NEW a \in Edges,
         Straight(m, a, goal, plan)
  PROVE  /\ Reads(m, goal, plan, Popped(plan))
         /\ plan # <<>> /\ Readable(plan[1]) => IsOurs(plan[1])
         /\ Governing(m) = IF Popped(plan) = 0 THEN NoToken ELSE plan[1].token
  <1>1. RecoverRequestUri(m) = m /\ m.uri = goal /\ m.routes = plan
    BY AddressFacts DEF Straight, RecoverRequestUri, IsOurRecordRouteValue
  <1>2. Preprocess(m) = [m EXCEPT !.routes = SubSeq(m.routes, Popped(m.routes) + 1, Len(m.routes))]
    BY <1>1 DEF Preprocess
  <1>3. Preprocess(m) = [m EXCEPT !.uri = goal, !.routes = From(plan, Popped(plan))]
    <2> DEFINE rest == From(plan, Popped(plan))
    <2>1. Preprocess(m) = [m EXCEPT !.routes = rest]
      BY <1>1, <1>2 DEF From
    <2> HIDE DEF rest
    <2>2. [m EXCEPT !.routes = rest] = [m EXCEPT !.uri = goal, !.routes = rest]
      BY <1>1 DEF Message
    <2> QED BY <2>1, <2>2 DEF rest
  <1>4. ASSUME plan # <<>>, Readable(plan[1]) PROVE IsOurs(plan[1])
    <2>1. plan[1] \in Stop
      BY <1>4 DEF Stops, Readable
    <2>2. a = plan[1].at
      BY <1>4 DEF Straight, NextHop
    <2> QED BY <2>1, <2>2, AddressFacts DEF IsOurs
  <1> QED BY <1>1, <1>3, <1>4, PoppedIs DEF Reads, Governing

LEMMA EdgeReadsSwapped ==
  ASSUME NEW goal \in UserUri, NEW plan \in Stops, NEW m \in Message, NEW a \in Edges,
         Swapped(m, a, goal, plan)
  PROVE  /\ plan # <<>> /\ 1 + Popped(Tail(plan)) <= Len(plan)
         /\ Reads(m, goal, plan, 1 + Popped(Tail(plan)))
         /\ Governing(m) = IF Popped(Tail(plan)) = 0 THEN NoToken ELSE Tail(plan)[1].token
  <1> DEFINE A == Stop \cup {Unreadable}
             q == Tail(plan)
             j == Popped(q)
  <1>0. Len(plan) \in Nat /\ plan # <<>> /\ Len(plan) >= 1 /\ plan \in Seq(A)
    BY DEF Stops, Swapped
  <1>1. q \in Seq(A) /\ Len(q) = Len(plan) - 1 /\ q = From(plan, 1)
        /\ \A i \in 1..Len(q) : q[i] = plan[i + 1]
    BY <1>0, HeadTailProperties, TailIsSubSeq DEF From
  <1>2. plan[1] \in Stop /\ plan[1].at = a /\ m.uri = plan[1] /\ IsOurs(plan[1])
    <2>1. plan[1] \in Stop /\ plan[1].at = a /\ m.uri = plan[1]
      BY <1>0 DEF Swapped, Readable
    <2> QED BY <2>1, AddressFacts DEF IsOurs
  <1>3. IsOurRecordRouteValue(m.uri)
    BY <1>2, ElementsAssumption DEF IsOurRecordRouteValue, Stop, IsOurs
  <1> HIDE DEF q
  <1>4. /\ m.routes = q \o <<goal>> /\ m.routes # <<>> /\ Last(m.routes) = goal
        /\ Front(m.routes) = q
    <2> DEFINE B == A \cup Address
    <2>1. q \in Seq(B) /\ goal \in B
      BY <1>1, AddressFacts, SeqMonotonic
    <2>2. m.routes = q \o <<goal>>
      BY DEF Swapped, q
    <2> HIDE DEF B
    <2> QED BY <2>1, <2>2, WithLast
  <1>5. RecoverRequestUri(m) = [m EXCEPT !.uri = goal, !.routes = q]
    BY <1>3, <1>4, AddressFacts DEF RecoverRequestUri
  <1>6. q \in Stops
    BY <1>1 DEF Stops
  <1>7. j \in 0..2 /\ j <= Len(q) /\ \A i \in 1..j : q[i] \in Stop /\ q[i].at \in Edges
    BY <1>6, PoppedIs
  <1> HIDE DEF j
  <1>8. RecoverRequestUri(m).routes = q
    BY <1>5 DEF Message
  <1>9. Preprocess(m) = [RecoverRequestUri(m) EXCEPT !.routes = SubSeq(q, j + 1, Len(q))]
    BY <1>8 DEF Preprocess, j
  <1>10. SubSeq(q, j + 1, Len(q)) = From(plan, 1 + j)
    <2>1. 1 \in 0..Len(plan) /\ j \in 0..(Len(plan) - 1)
      BY <1>0, <1>1, <1>7
    <2>2. SubSeq(From(plan, 1), j + 1, Len(From(plan, 1))) = From(plan, 1 + j)
      BY <1>0, <2>1, FromFrom
    <2> QED BY <1>1, <2>2
  <1>11. Preprocess(m) = [m EXCEPT !.uri = goal, !.routes = From(plan, 1 + j)]
    <2> DEFINE rest == From(plan, 1 + j)
    <2>1. Preprocess(m) = [[m EXCEPT !.uri = goal, !.routes = q] EXCEPT !.routes = rest]
      BY <1>5, <1>9, <1>10
    <2> HIDE DEF rest
    <2>2. Preprocess(m) = [m EXCEPT !.uri = goal, !.routes = rest]
      BY <2>1 DEF Message
    <2> QED BY <2>2 DEF rest
  <1>12. \A i \in 1..(1 + j) : plan[i] \in Stop /\ plan[i].at \in Edges
    <2> SUFFICES ASSUME NEW i \in 1..(1 + j) PROVE plan[i] \in Stop /\ plan[i].at \in Edges
      OBVIOUS
    <2>1. CASE i = 1
      BY <1>2, <2>1
    <2>2. CASE i # 1
      <3>1. i - 1 \in 1..j /\ i - 1 \in 1..Len(q) /\ (i - 1) + 1 = i
        BY <1>0, <1>1, <1>7, <2>2
      <3> QED BY <1>1, <1>7, <3>1
    <2> QED BY <2>1, <2>2
  <1>13. Governing(m) = IF j = 0 THEN NoToken ELSE q[1].token
    BY <1>8 DEF Governing, j
  <1>14. 1 + j <= Len(plan)
    BY <1>0, <1>1, <1>7
  <1> QED BY <1>0, <1>11, <1>12, <1>13, <1>14 DEF Reads, j, q

\* Only a plan leads to a foreign router.
LEMMA ForeignMet ==
  ASSUME NEW goal \in UserUri, NEW plan \in Stops, NEW m, NEW x \in Loose \cup Strict,
         Carries(m, x, goal, plan)
  PROVE  plan # <<>> /\ Readable(plan[1]) /\ plan[1].at = x
  <1>1. goal.at # x
    BY AddressFacts
  <1>2. plan # <<>> /\ Readable(plan[1])
    <2> SUFFICES ASSUME plan = <<>> \/ ~Readable(plan[1]) PROVE FALSE
      OBVIOUS
    <2> QED BY <1>1, CarriesFacts
  <1> QED BY <1>2, CarriesFacts

\* A loose router takes itself off the route, also when a strict router went before it.
StrictBefore(m, x) == m.uri = Router(x, TRUE) /\ m.routes # <<>>
LooseUri(m, x) == IF StrictBefore(m, x) THEN Last(m.routes) ELSE m.uri
LooseRoutes(m, x) ==
    IF StrictBefore(m, x) THEN Front(m.routes)
    ELSE IF m.routes # <<>> /\ Readable(m.routes[1]) /\ m.routes[1].at = x THEN Tail(m.routes)
    ELSE m.routes

LEMMA LooseReads ==
  ASSUME NEW goal \in UserUri, NEW plan \in Stops, NEW m \in Message, NEW x \in Loose,
         Carries(m, x, goal, plan)
  PROVE  /\ plan # <<>> /\ plan[1] \in Stop /\ plan[1].at = x /\ Tail(plan) \in Stops
         /\ LooseUri(m, x) = goal /\ LooseRoutes(m, x) = Tail(plan)
  <1> DEFINE A == Stop \cup {Unreadable}
             B == A \cup Address
  <1>1. plan # <<>> /\ Readable(plan[1]) /\ plan[1].at = x
    BY ForeignMet
  <1>2. plan[1] \in Stop /\ Tail(plan) \in Stops
    BY <1>1, HeadTailProperties DEF Stops, Readable
  <1>3. CASE Straight(m, x, goal, plan)
    <2>1. m.uri = goal /\ m.routes = plan
      BY <1>3 DEF Straight
    <2>2. goal # Router(x, TRUE)
      <3>1. Router(x, TRUE).user = "" /\ Router(x, TRUE).lr
        BY DEF Router, Uri
      <3> QED BY <3>1, AddressFacts
    <2> QED BY <1>1, <1>2, <2>1, <2>2 DEF LooseUri, LooseRoutes, StrictBefore
  <1>4. CASE Swapped(m, x, goal, plan)
    <2>1. m.uri = plan[1] /\ m.routes = Tail(plan) \o <<goal>>
      BY <1>4 DEF Swapped
    <2>2. plan[1] = Router(x, TRUE)
      <3>1. /\ plan[1] = [host |-> plan[1].host, at |-> plan[1].at, user |-> plan[1].user,
                          lr |-> plan[1].lr, token |-> plan[1].token]
            /\ plan[1].lr \in BOOLEAN
        BY <1>2 DEF Stop, Address
      <3>2. /\ plan[1].host = x /\ plan[1].user = "" /\ plan[1].token = NoToken
            /\ plan[1].lr <=> TRUE
        BY <1>1, <1>2, ElementsAssumption DEF Stop
      <3>3. plan[1].lr = TRUE
        BY <3>1, <3>2
      <3> QED BY <1>1, <3>1, <3>2, <3>3 DEF Router, Uri
    <2>3. m.routes # <<>> /\ Last(m.routes) = goal /\ Front(m.routes) = Tail(plan)
      <3> DEFINE q == Tail(plan)
      <3>1. q \in Seq(B)
        BY <1>2, SeqMonotonic DEF Stops
      <3>2. goal \in B
        BY AddressFacts
      <3>3. m.routes = q \o <<goal>>
        BY <2>1
      <3> HIDE DEF B, q
      <3>4. m.routes # <<>> /\ Last(m.routes) = goal /\ Front(m.routes) = q
        BY <3>1, <3>2, <3>3, WithLast
      <3> QED BY <3>4 DEF q
    <2> QED BY <1>1, <1>2, <2>1, <2>2, <2>3 DEF LooseUri, LooseRoutes, StrictBefore
  <1> QED BY <1>3, <1>4 DEF Carries

\* A strict router is only ever met in the strict form, and puts the next router, or the goal,
\* where it stood.
LEMMA StrictReads ==
  ASSUME NEW goal \in UserUri, NEW plan \in Stops, NEW m \in Message, NEW x \in Strict,
         Carries(m, x, goal, plan)
  PROVE  /\ plan # <<>> /\ plan[1] \in Stop /\ plan[1].at = x /\ Tail(plan) \in Stops
         /\ m.routes # <<>>
         /\ m.routes[1] = IF Tail(plan) = <<>> THEN goal ELSE Tail(plan)[1]
         /\ Readable(m.routes[1]) =>
              \A n, a : n.uri = m.routes[1] /\ n.routes = Tail(m.routes) /\ a = m.routes[1].at
                          => Carries(n, a, goal, Tail(plan))
  <1> DEFINE A == Stop \cup {Unreadable}
             B == A \cup Address
             q == Tail(plan)
  <1>1. plan # <<>> /\ Readable(plan[1]) /\ plan[1].at = x
    BY ForeignMet
  <1>2. plan[1] \in Stop /\ q \in Seq(A)
    BY <1>1, HeadTailProperties DEF Stops, Readable
  <1>3. MustSwap(plan)
    BY <1>1, <1>2, ElementsAssumption DEF MustSwap, Stop
  <1>4. m.routes = q \o <<goal>>
    BY <1>3 DEF Carries, Straight, Swapped
  <1> HIDE DEF q
  <1>5. q \in Seq(B) /\ goal \in B
    <2>1. q \in Seq(B)
      BY <1>2, SeqMonotonic
    <2> QED BY <2>1, AddressFacts
  <1>6. /\ m.routes # <<>>
        /\ q = <<>> => m.routes[1] = goal /\ Tail(m.routes) = <<>>
        /\ q # <<>> => m.routes[1] = q[1] /\ Tail(m.routes) = Tail(q) \o <<goal>>
    <2> HIDE DEF B
    <2> QED BY <1>4, <1>5, WithLast, SMTT(40)
  <1>7. ASSUME Readable(m.routes[1]), NEW n, NEW a,
               n.uri = m.routes[1], n.routes = Tail(m.routes), a = m.routes[1].at
        PROVE  Carries(n, a, goal, q)
    <2>1. CASE q = <<>>
      BY <1>6, <1>7, <2>1 DEF Carries, Straight, MustSwap, NextHop
    <2>2. CASE q # <<>>
      BY <1>6, <1>7, <2>2 DEF Carries, Swapped
    <2> QED BY <2>1, <2>2
  <1> QED BY <1>1, <1>2, <1>6, <1>7 DEF q, Stops

\* Where a request is received it is at its goal.
LEMMA Arrives ==
  ASSUME NEW goal \in UserUri, NEW plan \in Stops, NEW m, NEW x \in {Caller, Callee},
         Carries(m, x, goal, plan)
  PROVE  m.uri = goal /\ goal.at = x /\ (plan # <<>> => plan[1] = Unreadable)
  <1>1. ASSUME plan # <<>>, Readable(plan[1]) PROVE FALSE
    <2>1. plan[1] \in Stop /\ plan[1].at = x
      BY <1>1, CarriesFacts DEF Stops, Readable
    <2> QED BY <2>1, ElementsAssumption DEF Stop
  <1> QED BY <1>1, CarriesFacts DEF Readable

-----------------------------------------------------------------------------
(* The foreign routers among some elements *)

Picks(g, s, n) ==
    g = [i \in 0..n |-> IF i = 0 THEN <<>>
                        ELSE IF Foreign(s[i]) THEN Append(g[i - 1], s[i]) ELSE g[i - 1]]

LEMMA PicksExist ==
  ASSUME NEW s, NEW n \in Nat PROVE \E g : Picks(g, s, n)
  <1> DEFINE T == {k \in Nat : \E g : Picks(g, s, k)}
  <1>1. 0 \in T
    <2> DEFINE g == [i \in 0..0 |-> <<>>]
    <2>1. \A i \in 0..0 : i = 0
      OBVIOUS
    <2>2. Picks(g, s, 0)
      BY <2>1 DEF Picks
    <2> QED BY <2>2
  <1>2. \A k \in Nat : k \in T => k + 1 \in T
    <2> SUFFICES ASSUME NEW k \in Nat, k \in T PROVE \E h : Picks(h, s, k + 1)
      OBVIOUS
    <2>1. PICK g : Picks(g, s, k)
      OBVIOUS
    <2> DEFINE h == [i \in 0..(k + 1) |->
                      IF i <= k THEN g[i]
                      ELSE IF Foreign(s[k + 1]) THEN Append(g[k], s[k + 1]) ELSE g[k]]
    <2>2. \A i \in 0..(k + 1) :
            h[i] = IF i = 0 THEN <<>>
                   ELSE IF Foreign(s[i]) THEN Append(h[i - 1], s[i]) ELSE h[i - 1]
      <3> SUFFICES ASSUME NEW i \in 0..(k + 1)
                   PROVE  h[i] = IF i = 0 THEN <<>>
                                 ELSE IF Foreign(s[i]) THEN Append(h[i - 1], s[i])
                                 ELSE h[i - 1]
        OBVIOUS
      <3>1. CASE i <= k
        <4>1. i \in 0..k /\ h[i] = g[i] /\ (i # 0 => h[i - 1] = g[i - 1])
          BY <3>1
        <4>2. g[i] = IF i = 0 THEN <<>>
                     ELSE IF Foreign(s[i]) THEN Append(g[i - 1], s[i]) ELSE g[i - 1]
          BY <2>1, <4>1 DEF Picks
        <4> HIDE DEF h
        <4> QED BY <4>1, <4>2
      <3>2. CASE i = k + 1
        <4>1. ~ (i <= k) /\ i # 0 /\ i - 1 = k /\ h[i - 1] = g[k]
          BY <3>2
        <4>2. h[i] = IF Foreign(s[k + 1]) THEN Append(g[k], s[k + 1]) ELSE g[k]
          BY <3>2, <4>1
        <4> HIDE DEF h
        <4> QED BY <3>2, <4>1, <4>2
      <3> QED BY <3>1, <3>2
    <2>3. h = [i \in 0..(k + 1) |-> h[i]]
      OBVIOUS
    <2> HIDE DEF h
    <2> QED BY <2>2, <2>3 DEF Picks
  <1>3. \A k \in Nat : k \in T
    <2> HIDE DEF T
    <2> QED BY <1>1, <1>2, SetInduction
  <1> QED BY <1>3

\* They depend on no later element.
LEMMA PicksAgree ==
  ASSUME NEW s, NEW t, NEW n \in Nat, NEW m \in Nat, NEW g, NEW h,
         Picks(g, s, n), Picks(h, t, m), NEW l \in Nat, l <= n, l <= m,
         \A i \in 1..l : s[i] = t[i]
  PROVE  g[l] = h[l]
  <1> DEFINE T == {k \in Nat : k <= l => g[k] = h[k]}
  <1>1. 0 \in T
    BY DEF Picks
  <1>2. \A k \in Nat : k \in T => k + 1 \in T
    <2> SUFFICES ASSUME NEW k \in Nat, k \in T, k + 1 <= l PROVE g[k + 1] = h[k + 1]
      OBVIOUS
    <2>1. /\ k + 1 \in 0..n /\ k + 1 \in 0..m /\ k + 1 \in 1..l /\ k + 1 # 0
          /\ (k + 1) - 1 = k /\ g[k] = h[k]
      OBVIOUS
    <2>2. g[k + 1] = IF Foreign(s[k + 1]) THEN Append(g[k], s[k + 1]) ELSE g[k]
      <3> HIDE DEF T
      <3> QED BY <2>1 DEF Picks
    <2>3. h[k + 1] = IF Foreign(t[k + 1]) THEN Append(h[k], t[k + 1]) ELSE h[k]
      <3> HIDE DEF T
      <3> QED BY <2>1 DEF Picks
    <2> QED BY <2>1, <2>2, <2>3
  <1>3. \A k \in Nat : k \in T
    <2> HIDE DEF T
    <2> QED BY <1>1, <1>2, SetInduction
  <1> QED BY <1>3

LEMMA ForeignersPick ==
  ASSUME NEW s, Len(s) \in Nat
  PROVE  \E g : Picks(g, s, Len(s)) /\ Foreigners(s) = g[Len(s)]
  <1> DEFINE n == Len(s)
             g == CHOOSE f : Picks(f, s, n)
  <1>1. Picks(g, s, n)
    BY PicksExist
  <1>2. Foreigners(s) = g[n]
    BY DEF Foreigners, Picks
  <1> QED BY <1>1, <1>2

LEMMA ForeignersGrow ==
  ASSUME NEW S, NEW s \in Seq(S), NEW x \in S
  PROVE  /\ Foreigners(<<>>) = <<>>
         /\ Foreigners(Append(s, x)) = IF Foreign(x) THEN Append(Foreigners(s), x)
                                       ELSE Foreigners(s)
  <1>1. Foreigners(<<>>) = <<>>
    <2>1. Len(<<>>) = 0
      OBVIOUS
    <2>2. PICK g : Picks(g, <<>>, 0) /\ Foreigners(<<>>) = g[0]
      BY <2>1, ForeignersPick
    <2> QED BY <2>2 DEF Picks
  <1> DEFINE t == Append(s, x)
             n == Len(s)
  <1>2. /\ n \in Nat /\ Len(t) = n + 1 /\ t[n + 1] = x
        /\ \A i \in 1..n : t[i] = s[i]
    BY AppendProperties
  <1> HIDE DEF t
  <1>3. PICK g : Picks(g, s, n) /\ Foreigners(s) = g[n]
    BY <1>2, ForeignersPick
  <1>4. PICK h : Picks(h, t, n + 1) /\ Foreigners(t) = h[n + 1]
    <2>1. Len(t) \in Nat
      BY <1>2
    <2>2. \E h : Picks(h, t, Len(t)) /\ Foreigners(t) = h[Len(t)]
      BY <2>1, ForeignersPick
    <2> QED BY <1>2, <2>2
  <1> HIDE DEF n
  <1>5. g[n] = h[n]
    <2>1. n + 1 \in Nat /\ n <= n /\ n <= n + 1
      BY <1>2
    <2> QED BY <1>2, <1>3, <1>4, <2>1, PicksAgree
  <1>6. h[n + 1] = IF Foreign(x) THEN Append(h[n], x) ELSE h[n]
    <2>1. n + 1 \in 0..(n + 1) /\ n + 1 # 0 /\ (n + 1) - 1 = n
      BY <1>2
    <2> QED BY <1>2, <1>4, <2>1 DEF Picks
  <1> QED BY <1>1, <1>3, <1>4, <1>5, <1>6 DEF t


-----------------------------------------------------------------------------
(* The inductive invariant *)

Plain == Seq(RouterUri \cup {Unreadable})
Tokens == {NoToken} \cup Side \X Nat
Pass == [came : Address \X Seq(Address \cup {Unreadable}), token : Tokens]

RouteTypes ==
    /\ scene \in Scenes /\ msg \in Message /\ at \in Host
    /\ visited \in Seq(Host) /\ passes \in Seq(Pass)
    /\ msg.inDialog <=> msg.method # "INVITE"

\* Every pass left its cookie, and every cookie is of a pass.
Cookie(pass) == <<pass.came[1], msg.inDialog, pass.came[2]>>
ViasArePasses ==
    /\ \A i \in DOMAIN passes : \E j \in DOMAIN msg.vias : msg.vias[j].cookie = Cookie(passes[i])
    /\ \A j \in DOMAIN msg.vias : \E i \in DOMAIN passes : msg.vias[j].cookie = Cookie(passes[i])

\* The INVITE finds its way past routers that no token names.
InviteTravels ==
    ~msg.inDialog =>
        /\ msg.from = Caller
        /\ \A i \in DOMAIN passes : passes[i].token = NoToken
        /\ phase = Travelling =>
              \E goal \in UserUri, plan \in Plain : Carries(msg, at, goal, plan)

\* What a recorded route looks like: a foreign router never stands twice in a row, the tokens
\* of an edge stand in pairs, and either every edge has them or none.
Kind(stop) == IF stop.token = NoToken THEN "none" ELSE stop.token[1]
Apart(set) ==
    \A i \in DOMAIN set : i < Len(set) /\ Foreign(set[i].at) => set[i].at # set[i + 1].at
Paired(set, one, two) ==
    \A i \in DOMAIN set :
        /\ Kind(set[i]) = one => i < Len(set) /\ Kind(set[i + 1]) = two
        /\ Kind(set[i]) = two => i > 1 /\ Kind(set[i - 1]) = one
Minted(set) ==
    \A i \in DOMAIN set : set[i].at \in Edges => (set[i].token # NoToken <=> scene.tokens)
RouteSet(set, one, two) == set \in Seq(Stop) /\ Apart(set) /\ Paired(set, one, two) /\ Minted(set)

InviteRecords ==
    ~msg.inDialog =>
        /\ RouteSet(msg.rr, "TERM", "ORIG")
        /\ msg.rr # <<>> /\ Foreign(msg.rr[1].at) => at # msg.rr[1].at

\* What both ends know of the dialog.
Own(side) == IF side = Caller THEN "ORIG" ELSE "TERM"
Other(side) == IF side = Caller THEN "TERM" ELSE "ORIG"
Knows(side) ==
    /\ RouteSet(learned[side], Own(side), Other(side))
    /\ remote[side] \in UserUri /\ remote[side].at \in {Caller, Callee}
DialogKnown == msg.inDialog \/ learned # <<>> => \A side \in {Caller, Callee} : Knows(side)

\* A request within the dialog has done the first `k` stops of its route set.
Hosts(set, k) == [i \in 1..k |-> set[i].at]
AllLoose(set) == \A i \in DOMAIN set : set[i].lr
DialogTravels ==
    msg.inDialog /\ phase = Travelling =>
        LET set == learned[msg.from]
            goal == remote[msg.from]
        IN  \E k \in 0..Len(set) :
                /\ Carries(msg, at, goal, From(set, k))
                /\ Foreigners(visited) = Foreigners(Hosts(set, k))
                /\ \A i \in DOMAIN msg.vias : Len(msg.vias[i].cookie[3]) > Len(set) - k
                /\ AllLoose(set) => /\ msg.uri = goal /\ msg.routes = From(set, k)
                                    /\ k < Len(set) => Kind(set[k + 1]) # Other(msg.from)

RouteInv ==
    /\ RouteTypes /\ ViasArePasses /\ InviteTravels /\ InviteRecords /\ DialogKnown /\ DialogTravels
    /\ InDialogReachesPeer /\ LoopsAreExactlyRepeats /\ GoverningTokenNamesPresenter

-----------------------------------------------------------------------------
(* What an edge does with a request *)

LEMMA PlainFacts ==
  /\ Plain \subseteq Stops
  /\ <<>> \in Plain /\ <<>> \in Stops
  /\ \A plan \in Plain : \A i \in DOMAIN plan : Readable(plan[i]) => plan[i].token = NoToken
  <1>1. RouterUri \cup {Unreadable} \subseteq Stop \cup {Unreadable}
    BY AddressFacts
  <1>2. Plain \subseteq Stops
    BY <1>1, SeqMonotonic DEF Plain, Stops
  <1>3. \A u \in RouterUri : u.token = NoToken
    <2>1. \A x, lr : Router(x, lr).token = NoToken
      BY DEF Router, Uri
    <2>2. ASSUME NEW u \in RouterUri PROVE \E x, lr : u = Router(x, lr)
      BY <2>2 DEF RouterUri
    <2> QED BY <2>1, <2>2
  <1>4. ASSUME NEW plan \in Plain, NEW i \in DOMAIN plan, Readable(plan[i])
        PROVE  plan[i].token = NoToken
    <2>1. plan[i] \in RouterUri \cup {Unreadable}
      BY DEF Plain
    <2> QED BY <1>3, <1>4, <2>1 DEF Readable
  <1>5. <<>> \in Plain /\ <<>> \in Stops
    BY DEF Plain, Stops
  <1> QED BY <1>2, <1>4, <1>5

LEMMA EdgeReads ==
  ASSUME NEW goal \in UserUri, NEW plan \in Stops, NEW m \in Message, NEW a \in Edges,
         Carries(m, a, goal, plan)
  PROVE  \E j \in 0..Len(plan) :
            /\ Reads(m, goal, plan, j)
            /\ plan # <<>> /\ Readable(plan[1]) => j >= 1
            /\ Governing(m) \in Tokens
            /\ plan \in Plain => Governing(m) = NoToken
  <1>0. Len(plan) \in Nat
    BY DEF Stops
  <1>1. ASSUME NEW j \in 0..Len(plan), Reads(m, goal, plan, j), NEW i \in 1..j,
               Governing(m) = plan[i].token
        PROVE  Governing(m) \in Tokens /\ (plan \in Plain => Governing(m) = NoToken)
    <2>1. plan[i] \in Stop
      BY <1>1 DEF Reads
    <2>2. plan[i].token \in Tokens /\ Readable(plan[i])
      BY <2>1, AddressFacts DEF Address, Tokens
    <2>3. i \in 1..Len(plan)
      BY <1>0
    <2> QED BY <1>1, <2>2, <2>3, PlainFacts DEF Stops
  <1>2. CASE Straight(m, a, goal, plan)
    <2> DEFINE j == Popped(plan)
    <2>1. /\ Reads(m, goal, plan, j) /\ j \in 0..2 /\ j <= Len(plan)
          /\ plan # <<>> /\ Readable(plan[1]) => j >= 1
          /\ Governing(m) = IF j = 0 THEN NoToken ELSE plan[1].token
      BY <1>2, EdgeReadsStraight, PoppedIs
    <2> HIDE DEF j
    <2>2. j \in 0..Len(plan) /\ (j # 0 => 1 \in 1..j)
      BY <1>0, <2>1
    <2>3. Governing(m) \in Tokens /\ (plan \in Plain => Governing(m) = NoToken)
      BY <1>1, <2>1, <2>2 DEF Tokens
    <2> QED BY <2>1, <2>2, <2>3
  <1>3. CASE Swapped(m, a, goal, plan)
    <2> DEFINE q == Popped(Tail(plan))
               j == 1 + q
    <2>0. /\ plan # <<>> /\ Tail(plan) \in Stops
          /\ \A i \in 1..Len(Tail(plan)) : Tail(plan)[i] = plan[i + 1]
      BY <1>3, HeadTailProperties DEF Swapped, Stops
    <2>1. /\ Reads(m, goal, plan, j) /\ q \in 0..2 /\ j <= Len(plan) /\ q <= Len(Tail(plan))
          /\ Governing(m) = IF q = 0 THEN NoToken ELSE Tail(plan)[1].token
      BY <1>3, <2>0, EdgeReadsSwapped, PoppedIs
    <2>2. Len(Tail(plan)) \in Nat
      BY <2>0 DEF Stops
    <2>3. q # 0 => Tail(plan)[1] = plan[2]
      <3> HIDE DEF q
      <3> SUFFICES ASSUME q # 0 PROVE Tail(plan)[1] = plan[2]
        OBVIOUS
      <3>1. 1 \in 1..Len(Tail(plan)) /\ 1 + 1 = 2
        BY <2>1, <2>2
      <3> QED BY <2>0, <3>1
    <2> HIDE DEF q
    <2>4. j \in 0..Len(plan) /\ j >= 1 /\ (q # 0 => 2 \in 1..j)
      BY <1>0, <2>1
    <2> HIDE DEF j
    <2>5. Governing(m) = NoToken \/ (2 \in 1..j /\ Governing(m) = plan[2].token)
      BY <2>1, <2>3, <2>4
    <2>6. Governing(m) \in Tokens /\ (plan \in Plain => Governing(m) = NoToken)
      BY <1>1, <2>1, <2>4, <2>5 DEF Tokens
    <2> QED BY <2>1, <2>4, <2>6
  <1> QED BY <1>2, <1>3 DEF Carries

\* Its targets are users, behind routers a device registered with.
LEMMA TargetsAre ==
  ASSUME NEW m, m.uri \in UserUri, scene \in Scenes, NEW target \in Targets(m)
  PROVE  /\ target.uri \in UserUri /\ target.path \in Plain
         /\ m.inDialog => target.uri = m.uri /\ target.path = <<>>
  <1>1. CASE m.method = "ACK" \/ m.inDialog \/ m.routes # <<>>
    <2>1. target = [uri |-> m.uri, path |-> <<>>]
      BY <1>1 DEF Targets
    <2> QED BY <2>1, PlainFacts
  <1>2. CASE ~(m.method = "ACK" \/ m.inDialog \/ m.routes # <<>>)
    <2>1. target \in scene.registered
      BY <1>2 DEF Targets
    <2>2. scene \in Scene
      BY ScenesAssumption
    <2>3. target \in [aor : Host \X Users, uri : UserUri, path : Seq(RouterUri \cup {Unreadable})]
      BY <2>1, <2>2 DEF Scene
    <2> QED BY <1>2, <2>3 DEF Plain
  <1> QED BY <1>1, <1>2

LEMMA Joined ==
  ASSUME NEW S, NEW s \in Seq(S), NEW t \in Seq(S)
  PROVE  /\ s \o t \in Seq(S) /\ Len(s \o t) = Len(s) + Len(t)
         /\ \A i \in 1..Len(s) : (s \o t)[i] = s[i]
         /\ \A i \in 1..Len(t) : (s \o t)[Len(s) + i] = t[i]
  OBVIOUS

LEMMA Prepended ==
  ASSUME NEW S, NEW x \in S, NEW s \in Seq(S)
  PROVE  /\ <<x>> \o s \in Seq(S) /\ Len(<<x>> \o s) = Len(s) + 1 /\ <<x>> \o s # <<>>
         /\ (<<x>> \o s)[1] = x
         /\ \A i \in 1..Len(s) : (<<x>> \o s)[i + 1] = s[i]
  OBVIOUS

\* The copy for one target: for whom, past which routers, and with what on it.
EdgeCopy(n, a, m, edge, target, goal, plan, j) ==
    LET path == target.path \o From(plan, j)
        hop == StrictSwap(target.uri, path)
    IN  /\ n \in Message
        /\ n.method = m.method /\ n.from = m.from /\ n.inDialog = m.inDialog
        /\ n.rr = RecordRoute(m, edge)
        /\ n.vias = <<[by |-> edge, cookie |-> RoutingState(m)]>> \o m.vias
        /\ target.uri \in UserUri /\ path \in Stops
        /\ plan \in Plain => path \in Plain
        /\ m.inDialog => target.uri = goal /\ path = From(plan, j)
        /\ Carries(n, a, target.uri, path)
        /\ n.uri = hop.uri /\ n.routes = hop.routes

LEMMA EdgeSends ==
  ASSUME NEW goal \in UserUri, NEW plan \in Stops, NEW m \in Message, NEW edge \in Edges,
         NEW j \in 0..Len(plan), Reads(m, goal, plan, j), scene \in Scenes,
         NEW target \in Targets(Preprocess(m)), RecordRoute(m, edge) \in Seq(Stop)
  PROVE  EdgeCopy(Copy(Preprocess(m), m, target, edge), CopyHop(Preprocess(m), target).at,
                  m, edge, target, goal, plan, j)
  <1> DEFINE rest == From(plan, j)
             p == Preprocess(m)
             path == target.path \o rest
             hop == StrictSwap(target.uri, path)
             n == Copy(p, m, target, edge)
             via == [by |-> edge, cookie |-> RoutingState(m)]
  <1>1. rest \in Stops /\ (plan \in Plain => rest \in Plain)
    BY FromIs DEF Stops, Plain
  <1>2. p = [m EXCEPT !.uri = goal, !.routes = rest]
    BY DEF Reads
  <1> HIDE DEF rest
  <1>3. /\ p.uri = goal /\ p.routes = rest /\ p.method = m.method /\ p.inDialog = m.inDialog
        /\ p.rr = m.rr /\ p.vias = m.vias /\ p.from = m.from /\ p.hops = m.hops
    BY <1>2 DEF Message
  <1>4. target.uri \in UserUri /\ target.path \in Plain
        /\ (m.inDialog => target.uri = goal /\ target.path = <<>>)
    BY <1>3, TargetsAre
  <1>5. path \in Stops /\ (plan \in Plain => path \in Plain)
    <2>1. target.path \in Stops
      BY <1>4, PlainFacts
    <2>2. path \in Stops
      BY <1>1, <2>1, Joined DEF Stops
    <2>3. plan \in Plain => path \in Plain
      BY <1>1, <1>4, Joined DEF Plain
    <2> QED BY <2>2, <2>3
  <1>6. m.inDialog => path = rest
    BY <1>1, <1>4 DEF Stops
  <1>7. RecordRoute(p, edge) = RecordRoute(m, edge)
    BY <1>3 DEF RecordRoute
  <1>8. n = [p EXCEPT !.uri = hop.uri, !.routes = hop.routes, !.hops = p.hops - 1,
                      !.rr = RecordRoute(m, edge), !.vias = <<via>> \o m.vias]
    BY <1>3, <1>7 DEF Copy
  <1>9. CopyHop(p, target) = NextHop(hop.uri, hop.routes, MustSwap(path))
    BY <1>3 DEF CopyHop
  <1> HIDE DEF path, p, hop, via
  <1>10. n = [m EXCEPT !.uri = hop.uri, !.routes = hop.routes, !.hops = m.hops - 1,
                       !.rr = RecordRoute(m, edge), !.vias = <<via>> \o m.vias]
    BY <1>2, <1>3, <1>8 DEF Message
  <1> HIDE DEF n
  <1>11. /\ n.uri = hop.uri /\ n.routes = hop.routes /\ n.rr = RecordRoute(m, edge)
         /\ n.vias = <<via>> \o m.vias
         /\ n.method = m.method /\ n.from = m.from /\ n.inDialog = m.inDialog
    BY <1>10 DEF Message
  <1>12. Carries(n, NextHop(hop.uri, hop.routes, MustSwap(path)).at, target.uri, path)
    BY <1>4, <1>5, <1>11, Launched DEF hop
  <1>13. n.uri \in Address /\ n.routes \in Seq(Address \cup {Unreadable})
    BY <1>4, <1>5, <1>12, CarriesFacts
  <1>14. <<via>> \o m.vias \in
           Seq([by : Edges, cookie : Address \X BOOLEAN \X Seq(Address \cup {Unreadable})])
    <2>1. via \in [by : Edges, cookie : Address \X BOOLEAN \X Seq(Address \cup {Unreadable})]
      BY DEF via, RoutingState, Message
    <2>2. m.vias \in
            Seq([by : Edges, cookie : Address \X BOOLEAN \X Seq(Address \cup {Unreadable})])
      BY DEF Message
    <2> QED BY <2>1, <2>2, Prepended
  <1>15. n \in Message
    <2>1. m.hops - 1 \in Int
      BY DEF Message
    <2> QED BY <1>10, <1>11, <1>13, <1>14, <2>1 DEF Message
  <1> QED BY <1>4, <1>5, <1>6, <1>9, <1>11, <1>12, <1>15 DEF n, p, path, hop, via, rest, EdgeCopy

-----------------------------------------------------------------------------
(* What is recorded *)

LEMMA StopsInSet ==
  ASSUME NEW set \in Seq(Stop)
  PROVE  /\ Len(set) \in Nat /\ DOMAIN set = 1..Len(set)
         /\ \A i \in 1..Len(set) : set[i] \in Stop /\ set[i] \in Address
  <1>1. Len(set) \in Nat /\ DOMAIN set = 1..Len(set) /\ \A i \in 1..Len(set) : set[i] \in Stop
    OBVIOUS
  <1> QED BY <1>1 DEF Stop

\* One entry without a token on top.
LEMMA RouteSetGrows ==
  ASSUME NEW set, RouteSet(set, "TERM", "ORIG"), NEW u \in Stop, u.token = NoToken,
         u.at \in Edges => ~scene.tokens,
         set # <<>> /\ Foreign(u.at) => u.at # set[1].at
  PROVE  RouteSet(<<u>> \o set, "TERM", "ORIG")
  <1> DEFINE t == <<u>> \o set
  <1>1. set \in Seq(Stop) /\ Len(set) \in Nat /\ DOMAIN set = 1..Len(set)
    BY StopsInSet DEF RouteSet
  <1>2. /\ t \in Seq(Stop) /\ Len(t) = Len(set) + 1 /\ t[1] = u
        /\ \A i \in 1..Len(set) : t[i + 1] = set[i]
    BY <1>1, Prepended
  <1>3. DOMAIN t = 1..(Len(set) + 1)
    BY <1>2
  <1> HIDE DEF t
  <1>4. ASSUME NEW i \in DOMAIN t, i # 1
        PROVE  /\ i - 1 \in DOMAIN set /\ t[i] = set[i - 1] /\ i > 1 /\ i \in Int
               /\ i < Len(t) => i - 1 < Len(set) /\ t[i + 1] = set[(i - 1) + 1]
               /\ i - 1 > 1 => t[i - 1] = set[(i - 1) - 1]
    <2>1. i \in Int /\ i - 1 \in 1..Len(set) /\ (i - 1) + 1 = i
      BY <1>1, <1>3, <1>4
    <2>2. t[i] = set[i - 1]
      BY <1>2, <2>1
    <2>3. ASSUME i < Len(t) PROVE i - 1 < Len(set) /\ t[i + 1] = set[(i - 1) + 1]
      <3>1. i \in 1..Len(set) /\ (i - 1) + 1 = i /\ i - 1 < Len(set)
        BY <1>1, <1>2, <1>3, <2>1, <2>3
      <3> QED BY <1>2, <3>1
    <2>4. ASSUME i - 1 > 1 PROVE t[i - 1] = set[(i - 1) - 1]
      <3>1. (i - 1) - 1 \in 1..Len(set) /\ ((i - 1) - 1) + 1 = i - 1
        BY <1>1, <2>1, <2>4
      <3> QED BY <1>2, <3>1
    <2> QED BY <1>1, <1>4, <2>1, <2>2, <2>3, <2>4
  <1>5. Kind(u) # "TERM" /\ Kind(u) # "ORIG"
    BY DEF Kind
  <1>6. Len(t) > 1 => set # <<>> /\ 1 \in DOMAIN set /\ t[2] = set[1]
    <2> SUFFICES ASSUME Len(t) > 1 PROVE set # <<>> /\ 1 \in DOMAIN set /\ t[2] = set[1]
      OBVIOUS
    <2>1. 1 \in 1..Len(set) /\ 1 + 1 = 2
      BY <1>1, <1>2
    <2> QED BY <1>1, <1>2, <2>1
  <1>7. Apart(t)
    <2> SUFFICES ASSUME NEW i \in DOMAIN t, i < Len(t), Foreign(t[i].at)
                 PROVE  t[i].at # t[i + 1].at
      BY DEF Apart
    <2>1. CASE i = 1
      <3>1. 1 + 1 = 2
        OBVIOUS
      <3> QED BY <1>2, <1>6, <2>1, <3>1
    <2>2. CASE i # 1
      BY <1>4, <2>2 DEF RouteSet, Apart
    <2> QED BY <2>1, <2>2
  <1>8. Paired(t, "TERM", "ORIG")
    <2> SUFFICES ASSUME NEW i \in DOMAIN t
                 PROVE  /\ Kind(t[i]) = "TERM" => i < Len(t) /\ Kind(t[i + 1]) = "ORIG"
                        /\ Kind(t[i]) = "ORIG" => i > 1 /\ Kind(t[i - 1]) = "TERM"
      BY DEF Paired
    <2>1. CASE i = 1
      BY <1>2, <1>5, <2>1
    <2>2. CASE i # 1
      <3>1. /\ Kind(set[i - 1]) = "TERM" => i - 1 < Len(set) /\ Kind(set[(i - 1) + 1]) = "ORIG"
            /\ Kind(set[i - 1]) = "ORIG" => i - 1 > 1 /\ Kind(set[(i - 1) - 1]) = "TERM"
        BY <1>4, <2>2 DEF RouteSet, Paired
      <3>2. i - 1 < Len(set) => i < Len(t)
        BY <1>1, <1>2, <1>4, <2>2
      <3> QED BY <1>4, <2>2, <3>1, <3>2
    <2> QED BY <2>1, <2>2
  <1>9. Minted(t)
    <2> SUFFICES ASSUME NEW i \in DOMAIN t, t[i].at \in Edges
                 PROVE  t[i].token # NoToken <=> scene.tokens
      BY DEF Minted
    <2>1. CASE i = 1
      BY <1>2, <2>1
    <2>2. CASE i # 1
      BY <1>4, <2>2 DEF RouteSet, Minted
    <2> QED BY <2>1, <2>2
  <1> QED BY <1>2, <1>7, <1>8, <1>9 DEF RouteSet, t

LEMMA EntryIs ==
  ASSUME NEW edge, NEW token
  PROVE  [RecordRouteUri(edge) EXCEPT !.token = token] =
            [host |-> edge, at |-> edge, user |-> "", lr |-> TRUE, token |-> token]
  <1> DEFINE r == RecordRouteUri(edge)
  <1>1. r \in [host : {edge}, at : {edge}, user : {""}, lr : {TRUE}, token : {NoToken}]
    BY DEF RecordRouteUri, Router, Uri
  <1> HIDE DEF r
  <1> DEFINE e == [r EXCEPT !.token = token]
  <1>2. e \in [host : {edge}, at : {edge}, user : {""}, lr : {TRUE}, token : {token}]
    BY <1>1
  <1> HIDE DEF e
  <1>3. e = [host |-> edge, at |-> edge, user |-> "", lr |-> TRUE, token |-> token]
    BY <1>2
  <1> QED BY <1>3 DEF e, r

\* The pair of an edge on top.
LEMMA RouteSetPair ==
  ASSUME NEW set, RouteSet(set, "TERM", "ORIG"), NEW edge \in Edges, NEW n \in Nat, scene.tokens
  PROVE  /\ RouteSet(Pair(edge, n) \o set, "TERM", "ORIG")
         /\ Pair(edge, n) \o set # <<>> /\ (Pair(edge, n) \o set)[1].at = edge
  <1> DEFINE first == [RecordRouteUri(edge) EXCEPT !.token = <<"TERM", n>>]
             second == [RecordRouteUri(edge) EXCEPT !.token = <<"ORIG", n>>]
             p == <<first, second>>
             t == p \o set
  <1>1. set \in Seq(Stop) /\ Len(set) \in Nat /\ DOMAIN set = 1..Len(set)
    BY StopsInSet DEF RouteSet
  <1>2. ASSUME NEW side \in Side
        PROVE  LET u == [RecordRouteUri(edge) EXCEPT !.token = <<side, n>>]
               IN  u \in Stop /\ u.at = edge /\ u.token # NoToken /\ Kind(u) = side
    <2> DEFINE u == [RecordRouteUri(edge) EXCEPT !.token = <<side, n>>]
    <2>1. u = [host |-> edge, at |-> edge, user |-> "", lr |-> TRUE, token |-> <<side, n>>]
      BY EntryIs
    <2> HIDE DEF u
    <2>2. <<side, n>> \in Side \X Nat /\ <<side, n>> # NoToken
      BY ElementsAssumption
    <2>3. u \in Address
      BY <2>1, <2>2 DEF Address, Host
    <2>4. u \in Stop
      BY <2>1, <2>3, ElementsAssumption DEF Stop
    <2> QED BY <2>1, <2>2, <2>4 DEF Kind, u
  <1>3. /\ first \in Stop /\ first.at = edge /\ first.token # NoToken /\ Kind(first) = "TERM"
        /\ second \in Stop /\ second.at = edge /\ second.token # NoToken /\ Kind(second) = "ORIG"
    BY <1>2 DEF Side
  <1> HIDE DEF first, second
  <1>4. p \in Seq(Stop) /\ Len(p) = 2 /\ p[1] = first /\ p[2] = second
    BY <1>3
  <1> HIDE DEF p
  <1>5. /\ t \in Seq(Stop) /\ Len(t) = 2 + Len(set) /\ t[1] = first /\ t[2] = second
        /\ \A i \in 1..Len(set) : t[2 + i] = set[i]
    <2>1. /\ t \in Seq(Stop) /\ Len(t) = Len(p) + Len(set) /\ \A i \in 1..Len(p) : t[i] = p[i]
          /\ \A i \in 1..Len(set) : t[Len(p) + i] = set[i]
      <3>1. set \in Seq(Stop) /\ p \in Seq(Stop)
        BY <1>1, <1>4
      <3> QED BY <3>1, Joined
    <2> HIDE DEF t
    <2>2. 1 \in 1..Len(p) /\ 2 \in 1..Len(p)
      BY <1>4
    <2> QED BY <1>4, <2>1, <2>2
  <1>6. DOMAIN t = 1..(2 + Len(set)) /\ t # <<>>
    BY <1>5
  <1> HIDE DEF t
  <1>7. ASSUME NEW i \in DOMAIN t, i # 1, i # 2
        PROVE  /\ i - 2 \in DOMAIN set /\ t[i] = set[i - 2] /\ i > 2 /\ i \in Int
               /\ i < Len(t) => i - 2 < Len(set) /\ t[i + 1] = set[(i - 2) + 1]
               /\ i - 2 > 1 => t[i - 1] = set[(i - 2) - 1]
    <2>1. i \in Int /\ i - 2 \in 1..Len(set) /\ 2 + (i - 2) = i
      BY <1>1, <1>6, <1>7
    <2>2. t[i] = set[i - 2]
      BY <1>5, <2>1
    <2>3. ASSUME i < Len(t) PROVE i - 2 < Len(set) /\ t[i + 1] = set[(i - 2) + 1]
      <3>1. (i - 2) + 1 \in 1..Len(set) /\ 2 + ((i - 2) + 1) = i + 1 /\ i - 2 < Len(set)
        BY <1>1, <1>5, <2>1, <2>3
      <3> QED BY <1>5, <3>1
    <2>4. ASSUME i - 2 > 1 PROVE t[i - 1] = set[(i - 2) - 1]
      <3>1. (i - 2) - 1 \in 1..Len(set) /\ 2 + ((i - 2) - 1) = i - 1
        BY <1>1, <2>1, <2>4
      <3> QED BY <1>5, <3>1
    <2>5. i > 2
      BY <1>1, <2>1
    <2> QED BY <1>1, <2>1, <2>2, <2>3, <2>4, <2>5
  <1>8. Apart(t)
    <2> SUFFICES ASSUME NEW i \in DOMAIN t, i < Len(t), Foreign(t[i].at)
                 PROVE  t[i].at # t[i + 1].at
      BY DEF Apart
    <2>1. ~Foreign(edge)
      BY ElementsAssumption DEF Foreign
    <2>2. CASE i = 1 \/ i = 2
      BY <1>3, <1>5, <2>1, <2>2
    <2>3. CASE i # 1 /\ i # 2
      <3>1. i - 2 \in DOMAIN set /\ i - 2 < Len(set) /\ Foreign(set[i - 2].at)
            /\ t[i] = set[i - 2] /\ t[i + 1] = set[(i - 2) + 1]
        BY <1>7, <2>3
      <3>2. set[i - 2].at # set[(i - 2) + 1].at
        BY <3>1 DEF RouteSet, Apart
      <3> QED BY <3>1, <3>2
    <2> QED BY <2>2, <2>3
  <1>9. Paired(t, "TERM", "ORIG")
    <2> SUFFICES ASSUME NEW i \in DOMAIN t
                 PROVE  /\ Kind(t[i]) = "TERM" => i < Len(t) /\ Kind(t[i + 1]) = "ORIG"
                        /\ Kind(t[i]) = "ORIG" => i > 1 /\ Kind(t[i - 1]) = "TERM"
      BY DEF Paired
    <2>1. CASE i = 1
      <3>1. 1 < Len(t) /\ 1 + 1 = 2
        BY <1>1, <1>5
      <3> QED BY <1>3, <1>5, <2>1, <3>1
    <2>2. CASE i = 2
      <3>1. 2 > 1 /\ 2 - 1 = 1
        OBVIOUS
      <3> QED BY <1>3, <1>5, <2>2, <3>1
    <2>3. CASE i # 1 /\ i # 2
      <3>1. /\ Kind(set[i - 2]) = "TERM" => i - 2 < Len(set) /\ Kind(set[(i - 2) + 1]) = "ORIG"
            /\ Kind(set[i - 2]) = "ORIG" => i - 2 > 1 /\ Kind(set[(i - 2) - 1]) = "TERM"
        BY <1>7, <2>3 DEF RouteSet, Paired
      <3>2. (i - 2 < Len(set) => i < Len(t)) /\ i > 1
        BY <1>1, <1>5, <1>7, <2>3
      <3> QED BY <1>7, <2>3, <3>1, <3>2
    <2> QED BY <2>1, <2>2, <2>3
  <1>10. Minted(t)
    <2> SUFFICES ASSUME NEW i \in DOMAIN t, t[i].at \in Edges
                 PROVE  t[i].token # NoToken <=> scene.tokens
      BY DEF Minted
    <2>1. CASE i = 1 \/ i = 2
      BY <1>3, <1>5, <2>1
    <2>2. CASE i # 1 /\ i # 2
      BY <1>7, <2>2 DEF RouteSet, Minted
    <2> QED BY <2>1, <2>2
  <1>11. RouteSet(t, "TERM", "ORIG") /\ t # <<>> /\ t[1].at = edge
    BY <1>3, <1>5, <1>6, <1>8, <1>9, <1>10 DEF RouteSet
  <1> QED BY <1>11 DEF t, p, first, second, Pair

\* F4 as a whole.
LEMMA RecordRouteIs ==
  ASSUME NEW m \in Message, NEW edge \in Edges, passes \in Seq(Pass), scene \in Scenes,
         m.inDialog <=> m.method # "INVITE", ~m.inDialog => RouteSet(m.rr, "TERM", "ORIG")
  PROVE  /\ RecordRoute(m, edge) \in Seq(Stop)
         /\ ~m.inDialog => /\ RouteSet(RecordRoute(m, edge), "TERM", "ORIG")
                           /\ RecordRoute(m, edge) # <<>> /\ RecordRoute(m, edge)[1].at = edge
  <1>1. m.rr \in Seq(Stop)
    BY DEF Message
  <1>2. CASE m.inDialog
    BY <1>1, <1>2 DEF RecordRoute
  <1>3. CASE ~m.inDialog /\ scene.tokens
    <2>1. RecordRoute(m, edge) = Pair(edge, Len(passes)) \o m.rr
      BY <1>3 DEF RecordRoute
    <2>2. Len(passes) \in Nat
      OBVIOUS
    <2>3. /\ RouteSet(RecordRoute(m, edge), "TERM", "ORIG")
          /\ RecordRoute(m, edge) # <<>> /\ RecordRoute(m, edge)[1].at = edge
      BY <1>3, <2>1, <2>2, RouteSetPair
    <2> QED BY <2>3 DEF RouteSet
  <1>4. CASE ~m.inDialog /\ ~scene.tokens
    <2> DEFINE u == RecordRouteUri(edge)
    <2>1. RecordRoute(m, edge) = <<u>> \o m.rr
      BY <1>4 DEF RecordRoute
    <2>2. u \in Stop /\ u.token = NoToken /\ u.at = edge
      <3>1. u \in RouterUri
        BY DEF RecordRouteUri, RouterUri
      <3>2. u.token = NoToken /\ u.at = edge
        BY DEF RecordRouteUri, Router, Uri
      <3> QED BY <3>1, <3>2, AddressFacts
    <2> HIDE DEF u
    <2>3. ~Foreign(edge)
      BY ElementsAssumption DEF Foreign
    <2>4. RouteSet(<<u>> \o m.rr, "TERM", "ORIG")
      BY <1>4, <2>2, <2>3, RouteSetGrows
    <2>5. <<u>> \o m.rr # <<>> /\ (<<u>> \o m.rr)[1] = u
      BY <1>1, <2>2, Prepended
    <2>6. <<u>> \o m.rr \in Seq(Stop)
      BY <2>4 DEF RouteSet
    <2> QED BY <2>1, <2>2, <2>4, <2>5, <2>6
  <1> QED BY <1>2, <1>3, <1>4

\* The caller reads the record from its other end.
LEMMA RouteSetReversed ==
  ASSUME NEW set, NEW one, NEW two, RouteSet(set, one, two)
  PROVE  RouteSet(Reverse(set), two, one)
  <1> DEFINE n == Len(set)
             t == Reverse(set)
  <1>1. set \in Seq(Stop) /\ n \in Nat /\ DOMAIN set = 1..n
    BY StopsInSet DEF RouteSet
  <1>2. /\ t \in Seq(Stop) /\ Len(t) = n /\ DOMAIN t = 1..n
        /\ \A i \in 1..n : t[i] = set[(n - i) + 1]
    <2>1. t = [i \in 1..n |-> set[(n - i) + 1]]
      BY DEF Reverse
    <2>2. \A i \in 1..n : set[(n - i) + 1] \in Stop
      <3> SUFFICES ASSUME NEW i \in 1..n PROVE set[(n - i) + 1] \in Stop
        OBVIOUS
      <3>1. (n - i) + 1 \in 1..n
        BY <1>1
      <3> QED BY <1>1, <3>1
    <2> HIDE DEF t, n
    <2> QED BY <1>1, <2>1, <2>2
  <1> HIDE DEF t, n
  <1>3. ASSUME NEW i \in 1..n
        PROVE  LET k == (n - i) + 1
               IN  /\ k \in 1..n /\ t[i] = set[k]
                   /\ i < n <=> k > 1
                   /\ i > 1 <=> k < n
                   /\ i < n => t[i + 1] = set[k - 1] /\ k - 1 \in 1..n
                   /\ i > 1 => t[i - 1] = set[k + 1]
    <2>1. i < n => i + 1 \in 1..n /\ (n - (i + 1)) + 1 = ((n - i) + 1) - 1
      BY <1>1
    <2>2. i > 1 => i - 1 \in 1..n /\ (n - (i - 1)) + 1 = ((n - i) + 1) + 1
      BY <1>1
    <2>3. t[i] = set[(n - i) + 1]
      BY <1>2
    <2>4. i < n => t[i + 1] = set[((n - i) + 1) - 1]
      BY <1>2, <2>1
    <2>5. i > 1 => t[i - 1] = set[((n - i) + 1) + 1]
      BY <1>2, <2>2
    <2>6. /\ (n - i) + 1 \in 1..n
          /\ i < n <=> (n - i) + 1 > 1
          /\ i > 1 <=> (n - i) + 1 < n
          /\ i < n => ((n - i) + 1) - 1 \in 1..n
      BY <1>1
    <2> QED BY <2>3, <2>4, <2>5, <2>6
  <1>4. Apart(t)
    <2> SUFFICES ASSUME NEW i \in 1..n, i < n, Foreign(t[i].at), t[i].at = t[i + 1].at PROVE FALSE
      BY <1>2 DEF Apart
    <2> DEFINE k == ((n - i) + 1) - 1
    <2>1. /\ k \in 1..n /\ k < n /\ t[i] = set[k + 1] /\ t[i + 1] = set[k]
      BY <1>1, <1>3
    <2> HIDE DEF k
    <2>2. Foreign(set[k].at) /\ set[k].at = set[k + 1].at
      BY <2>1
    <2> QED BY <1>1, <2>1, <2>2 DEF RouteSet, Apart, n
  <1>5. Paired(t, two, one)
    <2> SUFFICES ASSUME NEW i \in 1..n
                 PROVE  /\ Kind(t[i]) = two => i < n /\ Kind(t[i + 1]) = one
                        /\ Kind(t[i]) = one => i > 1 /\ Kind(t[i - 1]) = two
      BY <1>2 DEF Paired
    <2> DEFINE k == (n - i) + 1
    <2>1. /\ k \in 1..n /\ t[i] = set[k]
          /\ i < n <=> k > 1
          /\ i > 1 <=> k < n
          /\ i < n => t[i + 1] = set[k - 1]
          /\ i > 1 => t[i - 1] = set[k + 1]
      BY <1>3
    <2> HIDE DEF k
    <2>2. /\ Kind(set[k]) = one => k < n /\ Kind(set[k + 1]) = two
          /\ Kind(set[k]) = two => k > 1 /\ Kind(set[k - 1]) = one
      BY <1>1, <2>1 DEF RouteSet, Paired, n
    <2> QED BY <2>1, <2>2
  <1>6. Minted(t)
    <2> SUFFICES ASSUME NEW i \in 1..n, t[i].at \in Edges
                 PROVE  t[i].token # NoToken <=> scene.tokens
      BY <1>2 DEF Minted
    <2>1. (n - i) + 1 \in 1..n /\ t[i] = set[(n - i) + 1]
      BY <1>3
    <2> QED BY <1>1, <2>1 DEF RouteSet, Minted
  <1> QED BY <1>2, <1>4, <1>5, <1>6 DEF RouteSet, t

-----------------------------------------------------------------------------
(* The elements a route set names *)

LEMMA HostsGrow ==
  ASSUME NEW set \in Seq(Stop), NEW k \in Nat, k < Len(set)
  PROVE  /\ Foreigners(Hosts(set, 0)) = <<>>
         /\ Foreigners(Hosts(set, k + 1)) =
               IF Foreign(set[k + 1].at) THEN Append(Foreigners(Hosts(set, k)), set[k + 1].at)
               ELSE Foreigners(Hosts(set, k))
  <1>1. Len(set) \in Nat /\ \A i \in 1..Len(set) : set[i].at \in Host
    BY StopsInSet, AddressFacts
  <1>2. Hosts(set, 0) = <<>>
    BY DEF Hosts
  <1>3. Hosts(set, k) \in Seq(Host) /\ Len(Hosts(set, k)) = k
    <2>1. \A i \in 1..k : set[i].at \in Host
      BY <1>1
    <2>2. Hosts(set, k) = [i \in 1..k |-> set[i].at]
      BY DEF Hosts
    <2> QED BY <2>1, <2>2
  <1>4. Hosts(set, k + 1) = Append(Hosts(set, k), set[k + 1].at)
    <2> DEFINE h == Hosts(set, k)
               x == set[k + 1].at
               t == Append(h, x)
               u == Hosts(set, k + 1)
    <2>1. x \in Host
      BY <1>1
    <2>2. u \in Seq(Host) /\ Len(u) = k + 1 /\ \A i \in 1..(k + 1) : u[i] = set[i].at
      <3>1. \A i \in 1..(k + 1) : set[i].at \in Host
        BY <1>1
      <3>2. u = [i \in 1..(k + 1) |-> set[i].at]
        BY DEF Hosts
      <3> QED BY <3>1, <3>2
    <2>3. \A i \in 1..k : h[i] = set[i].at
      BY DEF Hosts
    <2>4. h \in Seq(Host) /\ Len(h) = k
      BY <1>3
    <2> HIDE DEF h, u
    <2>5. /\ t \in Seq(Host) /\ Len(t) = k + 1 /\ t[k + 1] = x
          /\ \A i \in 1..k : t[i] = h[i]
      BY <2>1, <2>4, AppendProperties
    <2>6. \A i \in 1..Len(u) : u[i] = t[i]
      <3> SUFFICES ASSUME NEW i \in 1..(k + 1) PROVE u[i] = t[i]
        BY <2>2
      <3>1. CASE i = k + 1
        BY <2>2, <2>5, <3>1
      <3>2. CASE i \in 1..k
        BY <2>2, <2>3, <2>5, <3>2
      <3>3. i = k + 1 \/ i \in 1..k
        OBVIOUS
      <3> QED BY <3>1, <3>2, <3>3, Zenon
    <2>7. u = t
      BY <2>2, <2>5, <2>6, SeqEqual
    <2> QED BY <2>7 DEF h, u
  <1>5. Foreigners(Append(Hosts(set, k), set[k + 1].at)) =
          IF Foreign(set[k + 1].at) THEN Append(Foreigners(Hosts(set, k)), set[k + 1].at)
          ELSE Foreigners(Hosts(set, k))
    <2> DEFINE h == Hosts(set, k)
               x == set[k + 1].at
    <2>1. h \in Seq(Host) /\ x \in Host
      BY <1>1, <1>3
    <2> HIDE DEF h, x
    <2>2. Foreigners(Append(h, x)) = IF Foreign(x) THEN Append(Foreigners(h), x) ELSE Foreigners(h)
      BY <2>1, ForeignersGrow
    <2> QED BY <2>2 DEF h, x
  <1>6. Foreigners(<<>>) = <<>>
    <2>1. <<>> \in Seq(Host) /\ Caller \in Host
      BY DEF Host
    <2> QED BY <2>1, ForeignersGrow
  <1> QED BY <1>2, <1>4, <1>5, <1>6

LEMMA HostsPastEdges ==
  ASSUME NEW set \in Seq(Stop), NEW k \in Nat, NEW j \in Nat, k + j <= Len(set),
         \A i \in 1..j : set[k + i].at \in Edges
  PROVE  Foreigners(Hosts(set, k + j)) = Foreigners(Hosts(set, k))
  <1> DEFINE T == {n \in Nat : n <= j => Foreigners(Hosts(set, k + n)) = Foreigners(Hosts(set, k))}
  <1>1. 0 \in T
    <2>1. k + 0 = k
      OBVIOUS
    <2> QED BY <2>1
  <1>2. \A n \in Nat : n \in T => n + 1 \in T
    <2> SUFFICES ASSUME NEW n \in Nat, n \in T, n + 1 <= j
                 PROVE  Foreigners(Hosts(set, k + (n + 1))) = Foreigners(Hosts(set, k))
      OBVIOUS
    <2>1. /\ k + n \in Nat /\ (k + n) + 1 = k + (n + 1) /\ n + 1 \in 1..j
          /\ Foreigners(Hosts(set, k + n)) = Foreigners(Hosts(set, k))
      OBVIOUS
    <2>2. Len(set) \in Nat /\ k + n < Len(set)
      OBVIOUS
    <2>3. ~Foreign(set[(k + n) + 1].at)
      <3>1. set[k + (n + 1)].at \in Edges
        BY <2>1
      <3> QED BY <2>1, <3>1, ElementsAssumption DEF Foreign
    <2> HIDE DEF T
    <2> QED BY <2>1, <2>2, <2>3, HostsGrow
  <1>3. \A n \in Nat : n \in T
    <2> HIDE DEF T
    <2> QED BY <1>1, <1>2, SetInduction
  <1> QED BY <1>3

LEMMA KnowsKept ==
  ASSUME UNCHANGED <<scene, learned, remote>>, NEW side, Knows(side)
  PROVE  Knows(side)'
  <1>1. RouteSet(learned[side], Own(side), Other(side))'
    <2>1. learned'[side] \in Seq(Stop) /\ Apart(learned'[side])
      BY DEF Knows, RouteSet
    <2>2. Paired(learned'[side], Own(side), Other(side))
      BY DEF Knows, RouteSet
    <2>3. Minted(learned[side])'
      BY DEF Knows, RouteSet, Minted
    <2> QED BY <2>1, <2>2, <2>3 DEF RouteSet, Own, Other, Apart, Paired, Kind
  <1> QED BY <1>1 DEF Knows

\* What stays of the invariant when a request stops where it is.
LEMMA Settled ==
  ASSUME RouteInv, UNCHANGED <<scene, msg, at, passes>>, visited' \in Seq(Host),
         phase' # Travelling
  PROVE  /\ RouteTypes' /\ ViasArePasses' /\ InviteTravels' /\ InviteRecords' /\ DialogTravels'
         /\ phase' # Refused(482) => LoopsAreExactlyRepeats'
         /\ UNCHANGED <<learned, remote>> => DialogKnown' /\ GoverningTokenNamesPresenter'
  <1>1. RouteTypes'
    BY DEF RouteInv, RouteTypes
  <1>2. ViasArePasses'
    BY DEF RouteInv, ViasArePasses, Cookie
  <1>3. InviteTravels'
    BY DEF RouteInv, InviteTravels, Travelling
  <1>4. InviteRecords'
    BY DEF RouteInv, InviteRecords, RouteSet, Apart, Paired, Minted, Kind
  <1>5. DialogTravels'
    BY DEF DialogTravels, Travelling
  <1>6. ASSUME phase' # Refused(482) PROVE LoopsAreExactlyRepeats'
    BY <1>6 DEF RouteInv, LoopsAreExactlyRepeats, Refused
  <1>7. ASSUME UNCHANGED <<learned, remote>> PROVE DialogKnown' /\ GoverningTokenNamesPresenter'
    <2>1. DialogKnown'
      BY <1>7, KnowsKept DEF RouteInv, DialogKnown
    <2>2. GoverningTokenNamesPresenter'
      BY <1>7 DEF RouteInv, GoverningTokenNamesPresenter, Sender
    <2> QED BY <2>1, <2>2
  <1> QED BY <1>1, <1>2, <1>3, <1>4, <1>5, <1>6, <1>7

\* Whichever way the request under way goes, it carries a goal and a plan.
LEMMA UnderWay ==
  ASSUME RouteInv, phase = Travelling
  PROVE  \E goal \in UserUri, plan \in Stops :
            /\ Carries(msg, at, goal, plan)
            /\ ~msg.inDialog => plan \in Plain
  <1>1. CASE ~msg.inDialog
    <2>1. PICK goal \in UserUri, plan \in Plain : Carries(msg, at, goal, plan)
      BY <1>1 DEF RouteInv, InviteTravels
    <2> QED BY <2>1, PlainFacts
  <1>2. CASE msg.inDialog
    <2>1. msg.from \in {Caller, Callee}
      BY DEF RouteInv, RouteTypes, Message
    <2>2. learned[msg.from] \in Seq(Stop) /\ remote[msg.from] \in UserUri
      BY <1>2, <2>1 DEF RouteInv, DialogKnown, Knows, RouteSet
    <2>3. PICK k \in 0..Len(learned[msg.from]) :
             Carries(msg, at, remote[msg.from], From(learned[msg.from], k))
      BY <1>2 DEF RouteInv, DialogTravels
    <2>4. From(learned[msg.from], k) \in Stops
      <3>1. From(learned[msg.from], k) \in Seq(Stop)
        BY <2>2, FromIs
      <3> QED BY <3>1, SeqMonotonic DEF Stops
    <2> QED BY <1>2, <2>2, <2>3, <2>4
  <1> QED BY <1>1, <1>2

LEMMA EdgeRefusesKeeps ==
  ASSUME RouteInv, NEW edge \in Edges, EdgeRefuses(edge)
  PROVE  RouteInv'
  <1>1. /\ phase = Travelling /\ at = edge /\ visited' = Append(visited, edge)
        /\ UNCHANGED <<scene, msg, at, learned, remote, passes>>
    BY DEF EdgeRefuses, Handles
  <1>2. visited' \in Seq(Host)
    BY <1>1, AppendProperties DEF RouteInv, RouteTypes, Host
  <1>3. PICK goal \in UserUri, plan \in Stops : Carries(msg, edge, goal, plan)
    BY <1>1, UnderWay
  <1>4. \/ phase' = Refused(482) /\ IsLoop(msg)
        \/ phase' = Refused(480) /\ Targets(Preprocess(msg)) = {}
        \/ phase' = Refused(483)
        \/ phase' = Refused(403)
    BY DEF EdgeRefuses
  <1>5. phase' # Travelling /\ phase' # Delivered /\ phase' # Lost
    BY <1>4 DEF Refused, Travelling, Delivered, Lost
  <1>6. msg \in Message
    BY DEF RouteInv, RouteTypes
  <1>7. ASSUME IsLoop(msg)
        PROVE  /\ ~msg.inDialog
               /\ \E i \in DOMAIN passes : passes[i].came = <<msg.uri, msg.routes>>
    <2>1. PICK j \in DOMAIN msg.vias : msg.vias[j].cookie = <<msg.uri, msg.inDialog, msg.routes>>
      BY <1>7 DEF IsLoop, RoutingState
    <2>2. PICK i \in DOMAIN passes : msg.vias[j].cookie = Cookie(passes[i])
      BY DEF RouteInv, ViasArePasses
    <2>3. passes[i].came[1] = msg.uri /\ passes[i].came[2] = msg.routes
      BY <2>1, <2>2 DEF Cookie
    <2>4. passes[i].came = <<msg.uri, msg.routes>>
      <3>1. passes[i] \in Pass
        BY DEF RouteInv, RouteTypes
      <3>2. passes[i].came \in Address \X Seq(Address \cup {Unreadable})
        BY <3>1 DEF Pass
      <3> QED BY <2>3, <3>2
    <2>5. ASSUME msg.inDialog PROVE FALSE
      <3> DEFINE set == learned[msg.from]
      <3>1. PICK k \in 0..Len(set) :
               /\ Carries(msg, at, remote[msg.from], From(set, k))
               /\ Len(msg.vias[j].cookie[3]) > Len(set) - k
        BY <1>1, <2>5 DEF RouteInv, DialogTravels
      <3>2. set \in Seq(Stop) /\ remote[msg.from] \in UserUri
        BY <1>6, <2>5 DEF RouteInv, DialogKnown, Knows, RouteSet, Message
      <3> DEFINE rest == From(set, k)
                 end == remote[msg.from]
      <3> HIDE DEF set
      <3>3. rest \in Stops /\ Len(rest) = Len(set) - k
        <4>1. From(set, k) \in Seq(Stop) /\ Len(From(set, k)) = Len(set) - k
          BY <3>2, FromIs
        <4> QED BY <4>1, SeqMonotonic DEF Stops
      <3>4. Len(msg.routes) = Len(set) - k
        <4>1. end \in UserUri /\ Carries(msg, at, end, rest)
          BY <3>1, <3>2
        <4> HIDE DEF rest, end
        <4>2. Len(msg.routes) = Len(rest)
          BY <3>3, <4>1, CarriesFacts, SMTT(40)
        <4> QED BY <3>3, <4>2
      <3>5. Len(set) \in Nat /\ k \in Nat /\ msg.vias[j].cookie[3] = msg.routes
        BY <2>1, <3>2
      <3> QED BY <3>1, <3>4, <3>5
    <2> QED BY <2>4, <2>5
  <1>8. ASSUME Targets(Preprocess(msg)) = {} PROVE ~msg.inDialog
    <2>1. PICK j \in 0..Len(plan) : Reads(msg, goal, plan, j)
      BY <1>3, <1>6, EdgeReads
    <2>2. Preprocess(msg).inDialog = msg.inDialog
      BY <1>6, <2>1 DEF Reads, Message
    <2> QED BY <1>8, <2>2 DEF Targets
  <1>9. InDialogReachesPeer'
    <2> SUFFICES ASSUME msg'.inDialog
                 PROVE  /\ phase' # Delivered /\ phase' # Lost
                        /\ phase'.kind = "refused" => phase'.reason \in {403, 483}
      BY DEF InDialogReachesPeer
    <2> QED BY <1>1, <1>4, <1>5, <1>7, <1>8 DEF Refused
  <1>10. LoopsAreExactlyRepeats'
    <2>1. CASE phase' = Refused(482)
      <3>1. IsLoop(msg)
        BY <1>4, <2>1 DEF Refused
      <3> QED BY <1>1, <1>7, <3>1 DEF RouteInv, LoopsAreExactlyRepeats
    <2>2. CASE phase' # Refused(482)
      BY <1>1, <1>2, <1>5, <2>2, Settled
    <2> QED BY <2>1, <2>2
  <1> QED BY <1>1, <1>2, <1>5, <1>9, <1>10, Settled DEF RouteInv

-----------------------------------------------------------------------------
(* Foreign routers *)

\* How a foreign router names itself.
Itself(x) == IF x \in Loose THEN Router(x, TRUE) ELSE Router(x, FALSE)

\* What a foreign router makes of a request for `goal` past itself and then `rest`.
ForeignOutcome(x, goal, rest) ==
    \/ phase' = Refused(483) /\ UNCHANGED <<msg, at>>
    \/ /\ phase' = Lost /\ UNCHANGED <<msg, at>>
       /\ rest # <<>> /\ (Readable(rest[1]) => rest[1].at = x)
    \/ /\ UNCHANGED phase /\ at' # x
       /\ msg' \in Message /\ Carries(msg', at', goal, rest)
       /\ msg'.method = msg.method /\ msg'.from = msg.from /\ msg'.inDialog = msg.inDialog
       /\ msg'.vias = msg.vias
       /\ msg'.rr = IF msg.inDialog THEN msg.rr ELSE <<Itself(x)>> \o msg.rr
       /\ x \in Loose /\ ~MustSwap(rest) => msg'.uri = goal /\ msg'.routes = rest

LEMMA ItselfIs ==
  ASSUME NEW x \in Loose \cup Strict
  PROVE  /\ Itself(x) \in Stop /\ Itself(x).token = NoToken /\ Itself(x).at = x
         /\ x \notin Edges /\ Foreign(x)
  <1>1. \A lr : Router(x, lr).token = NoToken /\ Router(x, lr).at = x
    BY DEF Router, Uri
  <1>2. Itself(x) \in RouterUri
    BY DEF Itself, RouterUri
  <1> QED BY <1>1, <1>2, AddressFacts, ElementsAssumption DEF Itself, Foreign

\* The fields of what a foreign router sends on.
Sent(m, self, uri, routes) ==
    [[m EXCEPT !.rr = IF m.inDialog THEN @ ELSE <<self>> \o @, !.hops = @ - 1]
        EXCEPT !.uri = uri, !.routes = routes]

SentOn(n, m, x, uri, routes) ==
    /\ n \in Message /\ n.uri = uri /\ n.routes = routes
    /\ n.method = m.method /\ n.from = m.from /\ n.inDialog = m.inDialog /\ n.vias = m.vias
    /\ n.rr = IF m.inDialog THEN m.rr ELSE <<Itself(x)>> \o m.rr

LEMMA RecordedIs ==
  ASSUME NEW m \in Message, NEW x \in Loose \cup Strict, NEW uri \in Address,
         NEW routes \in Seq(Address \cup {Unreadable}), NEW self, self = Itself(x)
  PROVE  SentOn(Sent(m, self, uri, routes), m, x, uri, routes)
  <1> DEFINE rr == IF m.inDialog THEN m.rr ELSE <<Itself(x)>> \o m.rr
             p == [m EXCEPT !.rr = rr, !.hops = m.hops - 1]
             n == [p EXCEPT !.uri = uri, !.routes = routes]
  <1>1. p = [m EXCEPT !.rr = rr, !.hops = m.hops - 1]
    OBVIOUS
  <1>2. rr \in Seq(Stop)
    <2>1. Itself(x) \in Stop
      BY ItselfIs
    <2>2. m.rr \in Seq(Stop)
      BY DEF Message
    <2> QED BY <2>1, <2>2, Prepended
  <1>3. m.hops - 1 \in Int
    BY DEF Message
  <1> HIDE DEF rr, p
  <1>4. /\ p \in Message /\ p.method = m.method /\ p.from = m.from /\ p.inDialog = m.inDialog
        /\ p.vias = m.vias /\ p.rr = rr
    BY <1>1, <1>2, <1>3 DEF Message
  <1>5. /\ n \in Message /\ n.method = p.method /\ n.from = p.from /\ n.inDialog = p.inDialog
        /\ n.vias = p.vias /\ n.rr = p.rr /\ n.uri = uri /\ n.routes = routes
    BY <1>4 DEF Message
  <1> QED BY <1>4, <1>5 DEF rr, p, Sent, SentOn

LEMMA LooseOutcome ==
  ASSUME NEW goal \in UserUri, NEW plan \in Stops, NEW x \in Loose, msg \in Message,
         Carries(msg, x, goal, plan), LooseForwards(x)
  PROVE  ForeignOutcome(x, goal, Tail(plan))
  <1> DEFINE uri == LooseUri(msg, x)
             routes == LooseRoutes(msg, x)
             rest == Tail(plan)
             hop == StrictSwap(goal, rest)
             next == NextHop(hop.uri, hop.routes, MustSwap(rest))
             sent == Sent(msg, Router(x, TRUE), hop.uri, hop.routes)
  <1>1. uri = goal /\ routes = rest /\ rest \in Stops
    BY LooseReads
  <1>2. IF msg.hops = 0 \/ next.at = x
        THEN phase' = (IF msg.hops = 0 THEN Refused(483) ELSE Lost) /\ UNCHANGED <<msg, at>>
        ELSE Forward(sent, next.at)
    <2>1. LET h == StrictSwap(uri, routes)
              n == NextHop(h.uri, h.routes, MustSwap(routes))
          IN  IF msg.hops = 0 \/ n.at = x
              THEN phase' = (IF msg.hops = 0 THEN Refused(483) ELSE Lost) /\ UNCHANGED <<msg, at>>
              ELSE Forward(Sent(msg, Router(x, TRUE), h.uri, h.routes), n.at)
      BY DEF LooseForwards, LooseUri, LooseRoutes, StrictBefore, Sent, Recorded
    <2> HIDE DEF uri, routes
    <2> QED BY <1>1, <2>1
  <1> HIDE DEF uri, routes, rest
  <1>3. \A n : n.uri = hop.uri /\ n.routes = hop.routes => Carries(n, next.at, goal, rest)
    BY <1>1, Launched
  <1>4. /\ hop.uri \in Address /\ hop.routes \in Seq(Address \cup {Unreadable})
        /\ rest # <<>> /\ Readable(rest[1]) => next.at = rest[1].at
        /\ rest = <<>> \/ ~Readable(rest[1]) => next.at = goal.at
    <2> DEFINE n == [uri |-> hop.uri, routes |-> hop.routes]
    <2>1. n.uri = hop.uri /\ n.routes = hop.routes
      OBVIOUS
    <2> HIDE DEF n, hop, next
    <2>2. Carries(n, next.at, goal, rest)
      BY <1>3, <2>1
    <2> QED BY <1>1, <2>1, <2>2, CarriesFacts
  <1>5. goal.at # x
    BY AddressFacts
  <1>6. CASE msg.hops = 0
    BY <1>2, <1>6 DEF ForeignOutcome
  <1>7. CASE msg.hops # 0 /\ next.at = x
    <2>1. rest # <<>> /\ Readable(rest[1]) /\ rest[1].at = x
      BY <1>4, <1>5, <1>7
    <2>2. phase' = Lost /\ UNCHANGED <<msg, at>>
      BY <1>2, <1>7
    <2> QED BY <2>1, <2>2 DEF ForeignOutcome, rest
  <1>8. CASE msg.hops # 0 /\ next.at # x
    <2>1. msg' = sent /\ at' = next.at /\ UNCHANGED phase
      BY <1>2, <1>8 DEF Forward
    <2>2. ~MustSwap(rest) => hop.uri = goal /\ hop.routes = rest
      BY DEF StrictSwap
    <2> HIDE DEF hop, next
    <2>3. SentOn(sent, msg, x, hop.uri, hop.routes)
      <3>1. Router(x, TRUE) = Itself(x) /\ x \in Loose \cup Strict /\ msg \in Message
        BY DEF Itself
      <3>2. hop.uri \in Address /\ hop.routes \in Seq(Address \cup {Unreadable})
        BY <1>4
      <3> QED BY <3>1, <3>2, RecordedIs
    <2> HIDE DEF sent
    <2>4. Carries(msg', at', goal, rest)
      BY <1>3, <2>1, <2>3 DEF SentOn
    <2> QED BY <1>8, <2>1, <2>2, <2>3, <2>4 DEF ForeignOutcome, SentOn, rest
  <1> QED BY <1>6, <1>7, <1>8

LEMMA StrictOutcome ==
  ASSUME NEW goal \in UserUri, NEW plan \in Stops, NEW x \in Strict, msg \in Message,
         Carries(msg, x, goal, plan), StrictForwards(x)
  PROVE  ForeignOutcome(x, goal, Tail(plan))
  <1> DEFINE rest == Tail(plan)
             uri == msg.routes[1]
             routes == Tail(msg.routes)
             sent == Sent(msg, Router(x, FALSE), uri, routes)
  <1>1. /\ msg.routes # <<>>
        /\ uri = IF rest = <<>> THEN goal ELSE rest[1]
        /\ Readable(uri) =>
             \A n, a : n.uri = uri /\ n.routes = routes /\ a = uri.at => Carries(n, a, goal, rest)
        /\ rest \in Stops
    BY StrictReads
  <1>2. IF msg.hops = 0 \/ ~Readable(uri) \/ uri.at = x
        THEN phase' = (IF msg.hops = 0 THEN Refused(483) ELSE Lost) /\ UNCHANGED <<msg, at>>
        ELSE Forward(sent, uri.at)
    BY <1>1 DEF StrictForwards, Sent, Recorded
  <1>3. goal.at # x /\ Readable(goal)
    BY AddressFacts
  <1>4. x \notin Loose
    BY ElementsAssumption
  <1> HIDE DEF rest, uri, routes
  <1>5. CASE msg.hops = 0
    BY <1>2, <1>5 DEF ForeignOutcome
  <1>6. CASE msg.hops # 0 /\ (~Readable(uri) \/ uri.at = x)
    <2>1. rest # <<>> /\ uri = rest[1] /\ (Readable(rest[1]) => rest[1].at = x)
      BY <1>1, <1>3, <1>6
    <2>2. phase' = Lost /\ UNCHANGED <<msg, at>>
      BY <1>2, <1>6
    <2> QED BY <2>1, <2>2 DEF ForeignOutcome, rest
  <1>7. CASE msg.hops # 0 /\ Readable(uri) /\ uri.at # x
    <2>1. msg' = sent /\ at' = uri.at /\ UNCHANGED phase
      BY <1>2, <1>7 DEF Forward
    <2>2. uri \in Address /\ routes \in Seq(Address \cup {Unreadable})
      <3>1. msg.routes \in Seq(Address \cup {Unreadable})
        BY DEF Message
      <3>2. uri \in Address \cup {Unreadable} /\ routes \in Seq(Address \cup {Unreadable})
        BY <1>1, <3>1, HeadTailProperties DEF uri, routes
      <3> QED BY <1>7, <3>2 DEF Readable
    <2>3. SentOn(sent, msg, x, uri, routes)
      <3>1. Router(x, FALSE) = Itself(x) /\ x \in Loose \cup Strict
        BY <1>4 DEF Itself
      <3> QED BY <2>2, <3>1, RecordedIs
    <2> HIDE DEF sent
    <2>4. Carries(msg', at', goal, rest)
      BY <1>1, <1>7, <2>1, <2>3 DEF SentOn
    <2> QED BY <1>4, <1>7, <2>1, <2>3, <2>4 DEF ForeignOutcome, SentOn, rest
  <1> QED BY <1>5, <1>6, <1>7

LEMMA CookieIs ==
  ASSUME NEW m \in Message, NEW i \in DOMAIN m.vias
  PROVE  Len(m.vias[i].cookie[3]) \in Nat
  <1> DEFINE C == Address \X BOOLEAN \X Seq(Address \cup {Unreadable})
             Via == [by : Edges, cookie : C]
             vias == m.vias
  <1>1. vias \in Seq(Via)
    BY DEF Message
  <1> HIDE DEF Via, vias
  <1>2. vias[i] \in Via
    BY <1>1 DEF vias
  <1> HIDE DEF C
  <1>3. vias[i].cookie \in C
    BY <1>2 DEF Via
  <1>4. vias[i].cookie[3] \in Seq(Address \cup {Unreadable})
    BY <1>3 DEF C
  <1> QED BY <1>4 DEF vias

\* A request within the dialog, `k` stops into its route set.
DialogNow(set, goal, k) ==
    /\ set = learned[msg.from] /\ goal = remote[msg.from] /\ goal.at \in {Caller, Callee}
    /\ RouteSet(set, Own(msg.from), Other(msg.from))
    /\ From(set, k) \in Stops /\ Len(From(set, k)) = Len(set) - k
    /\ Carries(msg, at, goal, From(set, k))
    /\ Foreigners(visited) = Foreigners(Hosts(set, k))
    /\ \A i \in DOMAIN msg.vias : Len(msg.vias[i].cookie[3]) > Len(set) - k
    /\ AllLoose(set) => /\ msg.uri = goal /\ msg.routes = From(set, k)
                        /\ k < Len(set) => Kind(set[k + 1]) # Other(msg.from)
    /\ k < Len(set) => /\ From(set, k)[1] = set[k + 1] /\ Tail(From(set, k)) = From(set, k + 1)
                       /\ at = set[k + 1].at
    /\ k = Len(set) => msg.uri = goal /\ msg.routes = <<>> /\ at = goal.at

LEMMA DialogAt ==
  ASSUME RouteInv, phase = Travelling, msg.inDialog
  PROVE  \E set \in Seq(Stop), goal \in UserUri : \E k \in 0..Len(set) : DialogNow(set, goal, k)
  <1> DEFINE set == learned[msg.from]
             goal == remote[msg.from]
  <1>1. msg \in Message /\ msg.from \in {Caller, Callee}
    BY DEF RouteInv, RouteTypes, Message
  <1>2. /\ set \in Seq(Stop) /\ goal \in UserUri /\ goal.at \in {Caller, Callee}
        /\ RouteSet(set, Own(msg.from), Other(msg.from))
    BY <1>1 DEF RouteInv, DialogKnown, Knows, RouteSet
  <1>3. PICK k \in 0..Len(set) :
           /\ Carries(msg, at, goal, From(set, k))
           /\ Foreigners(visited) = Foreigners(Hosts(set, k))
           /\ \A i \in DOMAIN msg.vias : Len(msg.vias[i].cookie[3]) > Len(set) - k
           /\ AllLoose(set) => /\ msg.uri = goal /\ msg.routes = From(set, k)
                               /\ k < Len(set) => Kind(set[k + 1]) # Other(msg.from)
    BY DEF RouteInv, DialogTravels
  <1> DEFINE plan == From(set, k)
  <1> HIDE DEF set, goal
  <1>4. plan \in Stops /\ Len(plan) = Len(set) - k
    <2>1. From(set, k) \in Seq(Stop) /\ Len(From(set, k)) = Len(set) - k
      BY <1>2, FromIs
    <2> QED BY <2>1, SeqMonotonic DEF Stops
  <1>5. k < Len(set) => plan[1] = set[k + 1] /\ Tail(plan) = From(set, k + 1)
    BY <1>2, FromEnds
  <1>6. plan = <<>> <=> k = Len(set)
    BY <1>2, FromEnds
  <1>7. Carries(msg, at, goal, plan)
    BY <1>3
  <1>8. Len(set) \in Nat /\ \A i \in 1..Len(set) : set[i] \in Stop
    BY <1>2
  <1> HIDE DEF plan
  <1>9. ASSUME k < Len(set) PROVE at = set[k + 1].at
    <2>1. k + 1 \in 1..Len(set)
      BY <1>8, <1>9
    <2>2. plan # <<>> /\ Readable(plan[1])
      <3>1. k # Len(set)
        BY <1>8, <1>9
      <3>2. set[k + 1] \in Stop
        BY <1>8, <2>1
      <3>3. Readable(set[k + 1])
        BY <3>2, AddressFacts
      <3> QED BY <1>5, <1>6, <1>9, <3>1, <3>3
    <2> QED BY <1>2, <1>4, <1>5, <1>7, <1>9, <2>2, CarriesFacts
  <1>10. ASSUME k = Len(set) PROVE msg.uri = goal /\ msg.routes = <<>> /\ at = goal.at
    <2>1. plan = <<>> /\ Len(plan) = 0
      BY <1>4, <1>6, <1>8, <1>10
    <2>2. /\ msg.uri = goal /\ at = goal.at /\ Len(msg.routes) = 0
          /\ msg.routes \in Seq(Address \cup {Unreadable})
      BY <1>2, <1>4, <1>7, <2>1, CarriesFacts
    <2> QED BY <2>2
  <1>11. DialogNow(set, goal, k)
    BY <1>2, <1>3, <1>4, <1>5, <1>9, <1>10 DEF DialogNow, plan, set, goal
  <1> QED BY <1>2, <1>11 DEF set, goal

\* Getting on, whoever sends.
LEMMA TravelsOn ==
  ASSUME RouteInv, NEW set \in Seq(Stop), NEW goal \in UserUri, NEW k \in 0..Len(set),
         DialogNow(set, goal, k), msg'.from = msg.from, UNCHANGED <<learned, remote>>,
         NEW j \in 0..Len(set), Carries(msg', at', goal, From(set, j)),
         Foreigners(visited') = Foreigners(Hosts(set, j)),
         \A i \in DOMAIN msg'.vias : Len(msg'.vias[i].cookie[3]) > Len(set) - j,
         AllLoose(set) => /\ msg'.uri = goal /\ msg'.routes = From(set, j)
                          /\ j < Len(set) => Kind(set[j + 1]) # Other(msg.from)
  PROVE  DialogTravels'
  <1>1. learned'[msg'.from] = set /\ remote'[msg'.from] = goal
    BY DEF DialogNow
  <1>2. Other(msg'.from) = Other(msg.from)
    BY DEF Other
  <1> QED BY <1>1, <1>2 DEF DialogTravels, AllLoose, Kind, Other

ForeignForwards(x) ==
    \/ x \in Loose /\ LooseForwards(x)
    \/ x \in Strict /\ StrictForwards(x)

LEMMA ForeignKeeps ==
  ASSUME RouteInv, NEW x \in Loose \cup Strict, ForeignForwards(x)
  PROVE  RouteInv'
  <1>1. /\ phase = Travelling /\ at = x /\ visited' = Append(visited, x)
        /\ UNCHANGED <<scene, learned, remote, passes>>
    BY DEF ForeignForwards, LooseForwards, StrictForwards, Handles
  <1>2. msg \in Message /\ visited \in Seq(Host) /\ x \in Host /\ visited' \in Seq(Host)
    BY <1>1, AppendProperties DEF RouteInv, RouteTypes, Host
  <1>3. ASSUME NEW goal \in UserUri, NEW plan \in Stops, Carries(msg, x, goal, plan)
        PROVE  ForeignOutcome(x, goal, Tail(plan))
    BY <1>2, <1>3, LooseOutcome, StrictOutcome DEF ForeignForwards
  <1>4. PICK goal \in UserUri, plan \in Stops :
           Carries(msg, x, goal, plan) /\ (~msg.inDialog => plan \in Plain)
    BY <1>1, UnderWay
  <1>5. ForeignOutcome(x, goal, Tail(plan)) /\ plan # <<>>
    BY <1>3, <1>4, ForeignMet
  <1>6. CASE phase' = Refused(483) /\ UNCHANGED <<msg, at>>
    <2>1. phase' # Travelling /\ phase' # Refused(482) /\ phase' # Lost /\ phase' # Delivered
          /\ phase'.reason = 483
      BY <1>6 DEF Refused, Travelling, Lost, Delivered
    <2>2. InDialogReachesPeer'
      BY <2>1 DEF InDialogReachesPeer
    <2> QED BY <1>1, <1>2, <1>6, <2>1, <2>2, Settled DEF RouteInv
  <1>7. CASE phase' = Lost /\ UNCHANGED <<msg, at>>
    <2>1. phase' # Travelling /\ phase' # Refused(482) /\ phase'.kind # "refused"
          /\ phase' # Delivered /\ phase' # Refused(483) /\ phase' # phase
      BY <1>1, <1>7 DEF Refused, Travelling, Lost, Delivered
    <2>2. ~msg.inDialog
      <3> SUFFICES ASSUME msg.inDialog PROVE FALSE
        OBVIOUS
      <3>1. PICK set \in Seq(Stop), end \in UserUri : \E k \in 0..Len(set) : DialogNow(set, end, k)
        BY <1>1, DialogAt
      <3>2. PICK k \in 0..Len(set) : DialogNow(set, end, k)
        BY <3>1
      <3> DEFINE way == From(set, k)
                 rest == From(set, k + 1)
      <3>3. Len(set) \in Nat /\ \A i \in 1..Len(set) : set[i] \in Stop
        OBVIOUS
      <3>4. k < Len(set)
        <4>1. k # Len(set)
          BY <1>1, <3>2, ElementsAssumption DEF DialogNow
        <4> QED BY <3>3, <4>1
      <3>5. /\ way \in Stops /\ Carries(msg, x, end, way) /\ Tail(way) = rest
            /\ x = set[k + 1].at /\ Apart(set)
        BY <1>1, <3>2, <3>4 DEF DialogNow, RouteSet
      <3> HIDE DEF way
      <3>6. ForeignOutcome(x, end, rest)
        BY <1>3, <3>5
      <3>7. rest # <<>> /\ (Readable(rest[1]) => rest[1].at = x)
        BY <1>7, <2>1, <3>6 DEF ForeignOutcome
      <3>8. k + 1 \in 0..Len(set) /\ k + 1 < Len(set) /\ rest[1] = set[(k + 1) + 1]
        <4>1. k + 1 \in 0..Len(set)
          BY <3>3, <3>4
        <4> QED BY <3>3, <3>7, <4>1, FromEnds
      <3>9. k + 1 \in DOMAIN set /\ (k + 1) + 1 \in 1..Len(set)
        BY <3>3, <3>8
      <3>10. set[(k + 1) + 1].at = x
        BY <3>3, <3>7, <3>8, <3>9, AddressFacts
      <3>11. Foreign(x)
        BY DEF Foreign
      <3> QED BY <3>5, <3>8, <3>9, <3>10, <3>11 DEF Apart
    <2>3. InDialogReachesPeer'
      BY <1>7, <2>2 DEF InDialogReachesPeer
    <2> QED BY <1>1, <1>2, <1>7, <2>1, <2>3, Settled DEF RouteInv
  <1>8. CASE /\ phase' = phase /\ at' # x /\ msg' \in Message
             /\ msg'.method = msg.method /\ msg'.from = msg.from /\ msg'.inDialog = msg.inDialog
             /\ msg'.vias = msg.vias
             /\ msg'.rr = IF msg.inDialog THEN msg.rr ELSE <<Itself(x)>> \o msg.rr
    <2>1. phase' = Travelling /\ phase' # Refused(483) /\ phase' # Refused(482) /\ phase' # Lost
          /\ phase' # Delivered /\ phase'.kind # "refused"
      BY <1>1, <1>8 DEF Refused, Travelling, Lost, Delivered
    <2>2. Tail(plan) \in Stops /\ (plan \in Plain => Tail(plan) \in Plain)
      BY <1>5, HeadTailProperties DEF Stops, Plain
    <2>3. \A end, rest : ForeignOutcome(x, end, rest) =>
             /\ Carries(msg', at', end, rest)
             /\ x \in Loose /\ ~MustSwap(rest) => msg'.uri = end /\ msg'.routes = rest
      BY <1>1, <2>1 DEF ForeignOutcome
    <2>4. RouteTypes'
      <3>1. at' \in Host
        BY <1>5, <2>2, <2>3, CarriesFacts
      <3> QED BY <1>1, <1>2, <1>8, <3>1 DEF RouteInv, RouteTypes
    <2>5. ViasArePasses'
      BY <1>1, <1>8 DEF RouteInv, ViasArePasses, Cookie
    <2>6. InviteTravels'
      <3> SUFFICES ASSUME ~msg'.inDialog
                   PROVE  /\ msg'.from = Caller
                          /\ \A i \in DOMAIN passes' : passes'[i].token = NoToken
                          /\ \E e \in UserUri, p \in Plain : Carries(msg', at', e, p)
        BY DEF InviteTravels
      <3>1. Carries(msg', at', goal, Tail(plan)) /\ Tail(plan) \in Plain
        BY <1>4, <1>5, <1>8, <2>2, <2>3
      <3>2. msg.from = Caller /\ \A i \in DOMAIN passes : passes[i].token = NoToken
        BY <1>8 DEF RouteInv, InviteTravels
      <3> QED BY <1>1, <1>8, <3>1, <3>2
    <2>7. InviteRecords'
      <3> SUFFICES ASSUME ~msg'.inDialog
                   PROVE  /\ RouteSet(msg.rr, "TERM", "ORIG")'
                          /\ msg'.rr # <<>> /\ Foreign(msg'.rr[1].at) => at' # msg'.rr[1].at
        BY DEF InviteRecords
      <3> DEFINE u == Itself(x)
      <3>1. /\ RouteSet(msg.rr, "TERM", "ORIG") /\ msg.rr \in Seq(Stop)
            /\ msg.rr # <<>> /\ Foreign(msg.rr[1].at) => x # msg.rr[1].at
        BY <1>1, <1>2, <1>8 DEF RouteInv, InviteRecords, Message
      <3>2. u \in Stop /\ u.token = NoToken /\ u.at = x /\ u.at \notin Edges /\ Foreign(x)
        BY ItselfIs
      <3> HIDE DEF u
      <3>3. RouteSet(<<u>> \o msg.rr, "TERM", "ORIG")
        BY <3>1, <3>2, RouteSetGrows
      <3>4. msg'.rr = <<u>> \o msg.rr
        BY <1>8 DEF u
      <3>5. (<<u>> \o msg.rr)[1] = u
        BY <3>1, <3>2, Prepended
      <3>6. RouteSet(msg.rr, "TERM", "ORIG")'
        <4>1. /\ msg'.rr \in Seq(Stop) /\ Apart(msg'.rr) /\ Paired(msg'.rr, "TERM", "ORIG")
          BY <3>3, <3>4 DEF RouteSet
        <4>2. Minted(msg.rr)'
          BY <1>1, <3>3, <3>4 DEF RouteSet, Minted
        <4> QED BY <4>1, <4>2 DEF RouteSet, Apart, Paired, Kind
      <3> QED BY <1>8, <3>2, <3>4, <3>5, <3>6
    <2>8. DialogKnown'
      BY <1>1, <1>8, KnowsKept DEF RouteInv, DialogKnown
    <2>9. DialogTravels'
      <3> SUFFICES ASSUME msg.inDialog PROVE DialogTravels'
        BY <1>8 DEF DialogTravels
      <3>1. PICK set \in Seq(Stop), end \in UserUri : \E k \in 0..Len(set) : DialogNow(set, end, k)
        BY <1>1, DialogAt
      <3>2. PICK k \in 0..Len(set) : DialogNow(set, end, k)
        BY <3>1
      <3> DEFINE way == From(set, k)
                 rest == From(set, k + 1)
      <3>3. Len(set) \in Nat /\ \A i \in 1..Len(set) : set[i] \in Stop
        OBVIOUS
      <3>4. k < Len(set)
        <4>1. k # Len(set)
          BY <1>1, <3>2, ElementsAssumption DEF DialogNow
        <4> QED BY <3>3, <4>1
      <3>5. /\ way \in Stops /\ Carries(msg, x, end, way) /\ Tail(way) = rest
            /\ x = set[k + 1].at
            /\ RouteSet(set, Own(msg.from), Other(msg.from))
            /\ Foreigners(visited) = Foreigners(Hosts(set, k))
            /\ \A i \in DOMAIN msg.vias : Len(msg.vias[i].cookie[3]) > Len(set) - k
        BY <1>1, <3>2, <3>4 DEF DialogNow
      <3> HIDE DEF way
      <3>6. ForeignOutcome(x, end, rest)
        BY <1>3, <3>5
      <3>7. /\ Carries(msg', at', end, rest)
            /\ x \in Loose /\ ~MustSwap(rest) => msg'.uri = end /\ msg'.routes = rest
        BY <2>3, <3>6
      <3>8. k + 1 \in 0..Len(set) /\ k \in Nat /\ k + 1 \in DOMAIN set
        BY <3>3, <3>4
      <3>9. Foreigners(visited') = Foreigners(Hosts(set, k + 1))
        <4>1. Foreign(x)
          BY DEF Foreign
        <4>2. Foreigners(visited') = Append(Foreigners(visited), x)
          BY <1>1, <1>2, <4>1, ForeignersGrow
        <4> QED BY <3>4, <3>5, <3>8, <4>1, <4>2, HostsGrow
      <3>10. \A i \in DOMAIN msg'.vias : Len(msg'.vias[i].cookie[3]) > Len(set) - (k + 1)
        <4> SUFFICES ASSUME NEW i \in DOMAIN msg.vias
                     PROVE  Len(msg.vias[i].cookie[3]) > Len(set) - (k + 1)
          BY <1>8
        <4>1. Len(msg.vias[i].cookie[3]) \in Nat
          BY <1>2, CookieIs
        <4> QED BY <3>3, <3>5, <3>8, <4>1
      <3>11. ASSUME AllLoose(set)
             PROVE  /\ msg'.uri = end /\ msg'.routes = rest
                    /\ k + 1 < Len(set) => Kind(set[(k + 1) + 1]) # Other(msg.from)
        <4>1. x \in Loose
          <5>1. set[k + 1] \in Stop /\ set[k + 1].lr
            BY <3>3, <3>8, <3>11 DEF AllLoose
          <5>2. set[k + 1].host = x
            BY <3>5, <5>1, AddressFacts
          <5> QED BY <5>1, <5>2 DEF Stop
        <4>2. ~MustSwap(rest)
          <5> SUFFICES ASSUME MustSwap(rest) PROVE FALSE
            OBVIOUS
          <5>1. rest # <<>> /\ ~rest[1].lr
            BY DEF MustSwap
          <5>2. k + 1 < Len(set) /\ rest[1] = set[(k + 1) + 1]
            BY <3>3, <3>8, <5>1, FromEnds
          <5>3. (k + 1) + 1 \in DOMAIN set
            BY <3>3, <3>8, <5>2
          <5> QED BY <3>11, <5>1, <5>2, <5>3 DEF AllLoose
        <4>3. ASSUME k + 1 < Len(set) PROVE Kind(set[(k + 1) + 1]) # Other(msg.from)
          <5>1. (k + 1) + 1 \in DOMAIN set /\ ((k + 1) + 1) - 1 = k + 1
            BY <3>3, <3>8, <4>3
          <5>2. Kind(set[k + 1]) = "none"
            <6>1. set[k + 1] \in Stop
              BY <3>3, <3>8
            <6>2. set[k + 1].host \notin Edges
              BY <3>5, <6>1, AddressFacts, ElementsAssumption
            <6> QED BY <6>1, <6>2 DEF Stop, Kind
          <5>3. Own(msg.from) # "none"
            BY DEF Own
          <5> QED BY <3>5, <5>1, <5>2, <5>3 DEF RouteSet, Paired
        <4> QED BY <3>7, <4>1, <4>2, <4>3
      <3>12. UNCHANGED <<learned, remote>> /\ msg'.from = msg.from
        BY <1>1, <1>8
      <3> HIDE DEF rest
      <3> QED BY <3>2, <3>7, <3>8, <3>9, <3>10, <3>11, <3>12, TravelsOn DEF rest
    <2>10. InDialogReachesPeer'
      BY <2>1 DEF InDialogReachesPeer
    <2>11. LoopsAreExactlyRepeats'
      BY <1>1, <2>1 DEF RouteInv, LoopsAreExactlyRepeats
    <2>12. GoverningTokenNamesPresenter'
      BY <1>1, <1>8 DEF RouteInv, GoverningTokenNamesPresenter, Sender
    <2> QED BY <2>4, <2>5, <2>6, <2>7, <2>8, <2>9, <2>10, <2>11, <2>12 DEF RouteInv
  <1> QED BY <1>5, <1>6, <1>7, <1>8 DEF ForeignOutcome

-----------------------------------------------------------------------------
(* Edges *)

\* What an edge sends on for a target: for whom, past which routers, and with what on it.
EdgeOutcome(edge, end, path) ==
    /\ msg' \in Message
    /\ msg'.method = msg.method /\ msg'.from = msg.from /\ msg'.inDialog = msg.inDialog
    /\ msg'.rr = RecordRoute(msg, edge)
    /\ msg'.vias = <<[by |-> edge, cookie |-> RoutingState(msg)]>> \o msg.vias
    /\ Carries(msg', at', end, path)
    /\ ~MustSwap(path) => msg'.uri = end /\ msg'.routes = path

LEMMA EdgeOutcomes ==
  ASSUME RouteInv, NEW edge \in Edges, EdgeForwards(edge),
         NEW goal \in UserUri, NEW plan \in Stops, Carries(msg, edge, goal, plan),
         NEW j \in 0..Len(plan), Reads(msg, goal, plan, j)
  PROVE  \E end \in UserUri, path \in Stops :
            /\ EdgeOutcome(edge, end, path)
            /\ plan \in Plain => path \in Plain
            /\ msg.inDialog => end = goal /\ path = From(plan, j)
  <1> DEFINE p == Preprocess(msg)
  <1>1. msg \in Message /\ scene \in Scenes /\ passes \in Seq(Pass)
        /\ (msg.inDialog <=> msg.method # "INVITE")
    BY DEF RouteInv, RouteTypes
  <1>2. RecordRoute(msg, edge) \in Seq(Stop)
    BY <1>1, RecordRouteIs DEF RouteInv, InviteRecords
  <1>3. PICK target \in Targets(p) :
           msg' = Copy(p, msg, target, edge) /\ at' = CopyHop(p, target).at
    BY DEF EdgeForwards
  <1> DEFINE path == target.path \o From(plan, j)
             hop == StrictSwap(target.uri, path)
             n == Copy(p, msg, target, edge)
  <1>4. EdgeCopy(n, CopyHop(p, target).at, msg, edge, target, goal, plan, j)
    BY <1>1, <1>2, <1>3, EdgeSends
  <1>5. ~MustSwap(path) => hop.uri = target.uri /\ hop.routes = path
    BY DEF StrictSwap
  <1>6. EdgeOutcome(edge, target.uri, path)
    <2> HIDE DEF n, p
    <2> QED BY <1>3, <1>4, <1>5 DEF EdgeOutcome, EdgeCopy, n, p, path, hop
  <1> QED BY <1>4, <1>6 DEF EdgeCopy

\* The entries an edge takes off a route set of loose routers are those of one pair, and the
\* governing one is the first: the sender's.
LEMMA PairsEnd ==
  ASSUME NEW set, NEW one \in Side, NEW two \in Side, one # two, RouteSet(set, one, two),
         NEW k \in Nat, k < Len(set), Kind(set[k + 1]) # two, set[k + 1].at \in Edges
  PROVE  LET j == Popped(From(set, k))
         IN  /\ j >= 1 /\ k + j <= Len(set)
             /\ k + j < Len(set) => Kind(set[(k + j) + 1]) # two
             /\ set[k + 1].token # NoToken => set[k + 1].token[1] = one
  <1> DEFINE plan == From(set, k)
             j == Popped(plan)
  <1>1. set \in Seq(Stop) /\ Len(set) \in Nat /\ DOMAIN set = 1..Len(set)
        /\ \A i \in 1..Len(set) : set[i] \in Stop
    BY StopsInSet DEF RouteSet
  <1>2. /\ plan \in Stops /\ Len(plan) = Len(set) - k
        /\ \A i \in 1..(Len(set) - k) : plan[i] = set[k + i]
    <2>1. k \in 0..Len(set)
      BY <1>1
    <2>2. /\ plan \in Seq(Stop) /\ Len(plan) = Len(set) - k
          /\ \A i \in 1..(Len(set) - k) : plan[i] = set[k + i]
      BY <1>1, <2>1, FromIs
    <2> QED BY <2>2, SeqMonotonic DEF Stops
  <1> HIDE DEF plan
  <1>3. 1 \in 1..(Len(set) - k) /\ k + 1 \in 1..Len(set) /\ plan # <<>> /\ plan[1] = set[k + 1]
    <2>1. 1 \in 1..(Len(set) - k) /\ k + 1 \in 1..Len(set)
      BY <1>1
    <2>2. plan # <<>>
      BY <1>1, <1>2, <2>1
    <2> QED BY <1>2, <2>1, <2>2
  <1>4. Readable(plan[1]) /\ IsOurs(plan[1])
    BY <1>1, <1>3, AddressFacts DEF IsOurs
  <1>5. /\ j \in 0..2 /\ j <= Len(plan) /\ j >= 1
        /\ j = 2 <=> Len(plan) > 1 /\ Readable(plan[2]) /\ IsOurs(plan[2])
    BY <1>2, <1>3, <1>4, PoppedIs
  <1> HIDE DEF j
  <1>6. k + j <= Len(set)
    BY <1>1, <1>2, <1>5
  <1>7. ASSUME NEW i \in 1..Len(set)
        PROVE  /\ Kind(set[i]) = "none" <=> set[i].token = NoToken
               /\ set[i].token # NoToken => Kind(set[i]) = set[i].token[1] /\ Kind(set[i]) \in Side
               /\ set[i].token # NoToken => set[i].at \in Edges
    <2>1. set[i] \in Stop /\ set[i] \in Address
      BY <1>1 DEF Stop
    <2>2. set[i].token # NoToken => set[i].token \in Side \X Nat
      BY <2>1 DEF Address
    <2>3. set[i].token # NoToken => set[i].token[1] \in Side
      BY <2>2
    <2>4. set[i].token # NoToken => set[i].at \in Edges
      BY <2>1, AddressFacts DEF Stop
    <2> QED BY <2>3, <2>4 DEF Kind, Side
  <1>8. set[k + 1].token # NoToken => set[k + 1].token[1] = one
    BY <1>3, <1>7 DEF Side
  <1>9. ASSUME k + j < Len(set), Kind(set[(k + j) + 1]) = two PROVE FALSE
    <2>1. (k + j) + 1 \in 1..Len(set) /\ ((k + j) + 1) - 1 = k + j /\ k + j \in 1..Len(set)
      BY <1>1, <1>5, <1>9
    <2>2. Kind(set[k + j]) = one
      BY <1>1, <1>9, <2>1 DEF RouteSet, Paired
    <2>3. CASE j = 1
      <3>1. k + 1 < Len(set) /\ Kind(set[(k + 1) + 1]) = two /\ (k + 1) + 1 = k + 2
            /\ k + 2 \in 1..Len(set)
        BY <1>1, <1>9, <2>1, <2>3
      <3>2. two # "none"
        BY DEF Side
      <3>3. set[k + 2].at \in Edges /\ set[k + 2] \in Stop
        BY <1>1, <1>7, <3>1, <3>2
      <3>4. 2 \in 1..(Len(set) - k) /\ Len(plan) > 1
        BY <1>1, <1>2, <3>1
      <3>5. plan[2] = set[k + 2]
        BY <1>2, <3>4
      <3>6. Readable(plan[2]) /\ IsOurs(plan[2])
        BY <3>3, <3>5, AddressFacts DEF IsOurs
      <3> QED BY <1>5, <2>3, <3>4, <3>6
    <2>4. CASE j = 2
      <3>1. k + 2 \in 1..Len(set) /\ k + 2 > 1 /\ (k + 1) + 1 = k + 2
        BY <1>1, <2>1, <2>4
      <3>2. Kind(set[k + 2]) = one
        BY <2>2, <2>4
      <3>3. one # "none" /\ two # "none"
        BY DEF Side
      <3>4. set[k + 2].token # NoToken /\ set[k + 2].at \in Edges
        BY <1>7, <3>1, <3>2, <3>3
      <3>5. scene.tokens
        BY <1>1, <3>1, <3>4 DEF RouteSet, Minted
      <3>6. set[k + 1].token # NoToken
        BY <1>1, <1>3, <3>5 DEF RouteSet, Minted
      <3>7. Kind(set[k + 1]) = one
        BY <1>3, <1>7, <1>8, <3>6
      <3>8. Kind(set[(k + 1) + 1]) = two
        BY <1>1, <1>3, <3>7 DEF RouteSet, Paired
      <3> QED BY <3>1, <3>2, <3>8
    <2> QED BY <1>5, <2>3, <2>4
  <1> QED BY <1>5, <1>6, <1>8, <1>9 DEF plan, j

\* Within the dialog an edge takes `j` stops, all of them edges.
LEMMA EdgeTravels ==
  ASSUME RouteInv, NEW edge \in Edges, EdgeForwards(edge),
         NEW set \in Seq(Stop), NEW goal \in UserUri, NEW k \in 0..Len(set),
         DialogNow(set, goal, k), msg.inDialog, k < Len(set), set[k + 1].at = edge,
         NEW j \in 1..(Len(set) - k), Reads(msg, goal, From(set, k), j),
         AllLoose(set) /\ k + j < Len(set) => Kind(set[(k + j) + 1]) # Other(msg.from)
  PROVE  DialogTravels'
  <1> DEFINE way == From(set, k)
             rest == From(set, k + j)
  <1>1. /\ at = edge /\ visited' = Append(visited, edge)
        /\ UNCHANGED <<scene, phase, learned, remote>>
    BY DEF EdgeForwards, Handles
  <1>2. msg \in Message /\ visited \in Seq(Host) /\ edge \in Host
    BY DEF RouteInv, RouteTypes, Host
  <1>3. Len(set) \in Nat /\ (\A i \in 1..Len(set) : set[i] \in Stop)
        /\ k \in Nat /\ j \in Nat /\ k + j \in 0..Len(set) /\ j \in 0..(Len(set) - k)
    <2>1. Len(set) \in Nat
      OBVIOUS
    <2> QED BY <2>1
  <1>4. /\ way \in Stops /\ Len(way) = Len(set) - k /\ Carries(msg, edge, goal, way)
        /\ Foreigners(visited) = Foreigners(Hosts(set, k))
        /\ \A i \in DOMAIN msg.vias : Len(msg.vias[i].cookie[3]) > Len(set) - k
    BY <1>1 DEF DialogNow
  <1>5. From(way, j) = rest
    <2>1. SubSeq(From(set, k), j + 1, Len(From(set, k))) = From(set, k + j)
      BY <1>3, FromFrom
    <2> QED BY <2>1 DEF From
  <1>6. \A i \in 1..j : set[k + i].at \in Edges
    <2> SUFFICES ASSUME NEW i \in 1..j PROVE set[k + i].at \in Edges
      OBVIOUS
    <2>1. i \in 1..(Len(set) - k)
      BY <1>3
    <2>2. way[i] = set[k + i]
      BY <1>3, <2>1, FromIs
    <2> QED BY <2>2 DEF Reads
  <1> HIDE DEF way, rest
  <1>7. j \in 0..Len(way) /\ Reads(msg, goal, way, j)
    BY <1>3, <1>4 DEF way
  <1>8. EdgeOutcome(edge, goal, rest)
    <2>1. PICK end \in UserUri, path \in Stops :
             EdgeOutcome(edge, end, path) /\ end = goal /\ path = From(way, j)
      BY <1>4, <1>7, EdgeOutcomes
    <2> QED BY <1>5, <2>1
  <1>9. Foreigners(visited') = Foreigners(Hosts(set, k + j))
    <2>1. ~Foreign(edge)
      BY ElementsAssumption DEF Foreign
    <2>2. Foreigners(visited') = Foreigners(visited)
      BY <1>1, <1>2, <2>1, ForeignersGrow
    <2>3. k + j <= Len(set)
      BY <1>3
    <2> QED BY <1>3, <1>4, <1>6, <2>2, <2>3, HostsPastEdges
  <1>0. Len(msg.routes) = Len(set) - k
    <2>1. Len(msg.routes) = Len(way)
      BY <1>4, CarriesFacts, SMTT(40)
    <2> QED BY <1>4, <2>1
  <1>10. \A i \in DOMAIN msg'.vias : Len(msg'.vias[i].cookie[3]) > Len(set) - (k + j)
    <2> SUFFICES ASSUME NEW i \in DOMAIN msg'.vias
                 PROVE  Len(msg'.vias[i].cookie[3]) > Len(set) - (k + j)
      OBVIOUS
    <2> DEFINE v == [by |-> edge, cookie |-> RoutingState(msg)]
               C == Address \X BOOLEAN \X Seq(Address \cup {Unreadable})
               Via == [by : Edges, cookie : C]
    <2>1. msg.vias \in Seq(Via) /\ v \in Via /\ v.cookie[3] = msg.routes
      BY <1>2, <1>8 DEF Message, RoutingState
    <2>2. msg'.vias = <<v>> \o msg.vias
      BY <1>8 DEF EdgeOutcome
    <2>3. j >= 1
      OBVIOUS
    <2> HIDE DEF v, Via
    <2>4. /\ msg'.vias \in Seq(Via) /\ Len(msg'.vias) = Len(msg.vias) + 1 /\ msg'.vias[1] = v
          /\ \A l \in 1..Len(msg.vias) : msg'.vias[l + 1] = msg.vias[l]
      BY <2>1, <2>2, Prepended
    <2>5. /\ i \in 1..(Len(msg.vias) + 1)
          /\ Len(msg.vias) \in Nat /\ DOMAIN msg.vias = 1..Len(msg.vias)
      BY <2>1, <2>4
    <2>6. CASE i = 1
      <3>1. Len(msg'.vias[i].cookie[3]) = Len(set) - k
        BY <1>0, <2>1, <2>4, <2>6
      <3> QED BY <1>3, <2>3, <3>1
    <2>7. CASE i # 1
      <3>1. i - 1 \in 1..Len(msg.vias) /\ (i - 1) + 1 = i
        BY <2>5, <2>7
      <3>2. msg'.vias[i] = msg.vias[i - 1] /\ Len(msg.vias[i - 1].cookie[3]) > Len(set) - k
        BY <1>4, <2>4, <2>5, <3>1
      <3>3. Len(msg.vias[i - 1].cookie[3]) \in Nat
        BY <1>2, <2>5, <3>1, CookieIs
      <3> QED BY <1>3, <2>3, <3>2, <3>3, SMTT(40)
    <2> QED BY <2>6, <2>7
  <1>11. ASSUME AllLoose(set)
         PROVE  /\ msg'.uri = goal /\ msg'.routes = rest
                /\ k + j < Len(set) => Kind(set[(k + j) + 1]) # Other(msg.from)
    <2>1. ~MustSwap(rest)
      <3> SUFFICES ASSUME MustSwap(rest) PROVE FALSE
        OBVIOUS
      <3>1. rest # <<>> /\ ~rest[1].lr
        BY DEF MustSwap
      <3>2. k + j < Len(set) /\ rest[1] = set[(k + j) + 1]
        BY <1>3, <3>1, FromEnds DEF rest
      <3>3. (k + j) + 1 \in DOMAIN set
        BY <1>3, <3>2
      <3> QED BY <1>11, <3>1, <3>2, <3>3 DEF AllLoose
    <2> QED BY <1>8, <1>11, <2>1 DEF EdgeOutcome
  <1>12. Carries(msg', at', goal, From(set, k + j)) /\ msg'.from = msg.from
    BY <1>8 DEF EdgeOutcome, rest
  <1> QED BY <1>1, <1>3, <1>9, <1>10, <1>11, <1>12, TravelsOn DEF rest

LEMMA EdgeForwardsKeeps ==
  ASSUME RouteInv, NEW edge \in Edges, EdgeForwards(edge)
  PROVE  RouteInv'
  <1> DEFINE p == [came |-> <<msg.uri, msg.routes>>, token |-> Governing(msg)]
             v == [by |-> edge, cookie |-> RoutingState(msg)]
             C == Address \X BOOLEAN \X Seq(Address \cup {Unreadable})
             Via == [by : Edges, cookie : C]
  <1>1. /\ phase = Travelling /\ at = edge /\ visited' = Append(visited, edge)
        /\ passes' = Append(passes, p) /\ ~IsLoop(msg)
        /\ UNCHANGED <<scene, phase, learned, remote>>
    BY DEF EdgeForwards, Handles, Valid
  <1>2. /\ msg \in Message /\ visited \in Seq(Host) /\ edge \in Host /\ passes \in Seq(Pass)
        /\ scene \in Scenes /\ (msg.inDialog <=> msg.method # "INVITE")
        /\ visited' \in Seq(Host)
    BY <1>1, AppendProperties DEF RouteInv, RouteTypes, Host
  <1>3. PICK goal \in UserUri, plan \in Stops :
           Carries(msg, edge, goal, plan) /\ (~msg.inDialog => plan \in Plain)
    BY <1>1, UnderWay
  <1>4. PICK j \in 0..Len(plan) :
           /\ Reads(msg, goal, plan, j)
           /\ Governing(msg) \in Tokens
           /\ plan \in Plain => Governing(msg) = NoToken
    BY <1>2, <1>3, EdgeReads
  <1>5. PICK end \in UserUri, path \in Stops :
           EdgeOutcome(edge, end, path) /\ (plan \in Plain => path \in Plain)
    BY <1>3, <1>4, EdgeOutcomes
  <1>6. /\ msg' \in Message
        /\ msg'.method = msg.method /\ msg'.from = msg.from /\ msg'.inDialog = msg.inDialog
        /\ msg'.rr = RecordRoute(msg, edge) /\ msg'.vias = <<v>> \o msg.vias
        /\ Carries(msg', at', end, path)
    BY <1>5 DEF EdgeOutcome
  <1>7. p \in Pass /\ p.came = <<msg.uri, msg.routes>> /\ p.token = Governing(msg)
    BY <1>2, <1>4 DEF Pass, Message
  <1>8. msg.vias \in Seq(Via) /\ v \in Via /\ v.cookie = <<msg.uri, msg.inDialog, msg.routes>>
    BY <1>2 DEF Message, RoutingState
  <1> HIDE DEF p, v, Via
  <1>9. /\ passes' \in Seq(Pass) /\ Len(passes) \in Nat /\ Len(passes') = Len(passes) + 1
        /\ DOMAIN passes = 1..Len(passes) /\ DOMAIN passes' = 1..(Len(passes) + 1)
        /\ passes'[Len(passes) + 1] = p /\ \A i \in 1..Len(passes) : passes'[i] = passes[i]
    <2>1. /\ passes' \in Seq(Pass) /\ Len(passes') = Len(passes) + 1
          /\ passes'[Len(passes) + 1] = p /\ \A i \in 1..Len(passes) : passes'[i] = passes[i]
      BY <1>1, <1>2, <1>7, AppendProperties
    <2> QED BY <1>2, <2>1
  <1>10. /\ msg'.vias \in Seq(Via) /\ Len(msg.vias) \in Nat /\ msg'.vias[1] = v
         /\ DOMAIN msg.vias = 1..Len(msg.vias) /\ DOMAIN msg'.vias = 1..(Len(msg.vias) + 1)
         /\ \A i \in 1..Len(msg.vias) : msg'.vias[i + 1] = msg.vias[i]
    <2>1. /\ msg'.vias \in Seq(Via) /\ Len(msg'.vias) = Len(msg.vias) + 1 /\ msg'.vias[1] = v
          /\ \A i \in 1..Len(msg.vias) : msg'.vias[i + 1] = msg.vias[i]
      BY <1>6, <1>8, Prepended
    <2> QED BY <1>8, <2>1
  <1>11. ASSUME NEW i \in DOMAIN passes' PROVE i = Len(passes) + 1 \/ i \in DOMAIN passes
    BY <1>9
  <1>12. RouteTypes'
    <2>1. at' \in Host
      BY <1>5, <1>6, CarriesFacts
    <2> QED BY <1>1, <1>2, <1>6, <1>9, <2>1 DEF RouteTypes
  <1>13. ASSUME NEW q \in Pass PROVE Cookie(q)' = Cookie(q)
    BY <1>6 DEF Cookie
  <1>14. v.cookie = Cookie(p)
    BY <1>7, <1>8 DEF Cookie
  <1>15. ViasArePasses'
    <2>1. ASSUME NEW i \in DOMAIN passes'
          PROVE  \E l \in DOMAIN msg'.vias :
                   msg'.vias[l].cookie =
                     <<passes'[i].came[1], msg'.inDialog, passes'[i].came[2]>>
      <3>1. CASE i = Len(passes) + 1
        <4>1. 1 \in DOMAIN msg'.vias
          BY <1>10
        <4> QED BY <1>6, <1>9, <1>10, <1>14, <3>1, <4>1 DEF Cookie
      <3>2. CASE i \in DOMAIN passes
        <4>1. PICK l \in DOMAIN msg.vias : msg.vias[l].cookie = Cookie(passes[i])
          BY <3>2 DEF RouteInv, ViasArePasses
        <4>2. l + 1 \in DOMAIN msg'.vias /\ msg'.vias[l + 1] = msg.vias[l]
          BY <1>10, <4>1
        <4> QED BY <1>6, <1>9, <3>2, <4>1, <4>2 DEF Cookie
      <3> QED BY <1>11, <3>1, <3>2
    <2>2. ASSUME NEW l \in DOMAIN msg'.vias
          PROVE  \E i \in DOMAIN passes' :
                   msg'.vias[l].cookie =
                     <<passes'[i].came[1], msg'.inDialog, passes'[i].came[2]>>
      <3>1. CASE l = 1
        <4>1. Len(passes) + 1 \in DOMAIN passes'
          BY <1>9
        <4> QED BY <1>6, <1>9, <1>10, <1>14, <3>1, <4>1 DEF Cookie
      <3>2. CASE l # 1
        <4>1. l - 1 \in DOMAIN msg.vias /\ (l - 1) + 1 = l
          BY <1>10, <3>2
        <4>2. msg'.vias[l] = msg.vias[l - 1]
          BY <1>10, <4>1
        <4>3. PICK i \in DOMAIN passes : msg.vias[l - 1].cookie = Cookie(passes[i])
          BY <4>1 DEF RouteInv, ViasArePasses
        <4>4. i \in DOMAIN passes' /\ passes'[i] = passes[i]
          BY <1>9
        <4> QED BY <1>6, <4>2, <4>3, <4>4 DEF Cookie
      <3> QED BY <3>1, <3>2
    <2> QED BY <2>1, <2>2 DEF ViasArePasses, Cookie
  <1>16. InviteTravels'
    <2> SUFFICES ASSUME ~msg'.inDialog
                 PROVE  /\ msg'.from = Caller
                        /\ \A i \in DOMAIN passes' : passes'[i].token = NoToken
                        /\ \E e \in UserUri, q \in Plain : Carries(msg', at', e, q)
      BY DEF InviteTravels
    <2>1. msg.from = Caller /\ \A i \in DOMAIN passes : passes[i].token = NoToken
      BY <1>6 DEF RouteInv, InviteTravels
    <2>2. Governing(msg) = NoToken /\ path \in Plain
      BY <1>3, <1>4, <1>5, <1>6
    <2>3. \A i \in DOMAIN passes' : passes'[i].token = NoToken
      BY <1>7, <1>9, <1>11, <2>1, <2>2
    <2> QED BY <1>6, <2>1, <2>2, <2>3
  <1>17. InviteRecords'
    <2> SUFFICES ASSUME ~msg'.inDialog
                 PROVE  /\ RouteSet(msg.rr, "TERM", "ORIG")'
                        /\ msg'.rr # <<>> /\ Foreign(msg'.rr[1].at) => at' # msg'.rr[1].at
      BY DEF InviteRecords
    <2>1. RouteSet(msg.rr, "TERM", "ORIG") /\ ~msg.inDialog
      BY <1>6 DEF RouteInv, InviteRecords
    <2>2. RouteSet(RecordRoute(msg, edge), "TERM", "ORIG") /\ RecordRoute(msg, edge)[1].at = edge
      BY <1>2, <2>1, RecordRouteIs
    <2>3. ~Foreign(edge)
      BY ElementsAssumption DEF Foreign
    <2>4. RouteSet(msg.rr, "TERM", "ORIG")'
      <3>1. /\ msg'.rr \in Seq(Stop) /\ Apart(msg'.rr) /\ Paired(msg'.rr, "TERM", "ORIG")
        BY <1>6, <2>2 DEF RouteSet
      <3>2. Minted(msg.rr)'
        BY <1>1, <1>6, <2>2 DEF RouteSet, Minted
      <3> QED BY <3>1, <3>2 DEF RouteSet, Apart, Paired, Kind
    <2> QED BY <1>6, <2>2, <2>3, <2>4
  <1>18. DialogKnown'
    BY <1>1, <1>6, KnowsKept DEF RouteInv, DialogKnown
  <1>19. ASSUME msg.inDialog
         PROVE  /\ DialogTravels'
                /\ AllLoose(learned[msg.from]) /\ p.token # NoToken => p.token[1] = Sender
    <2>1. PICK set \in Seq(Stop), to \in UserUri : \E k \in 0..Len(set) : DialogNow(set, to, k)
      BY <1>1, <1>19, DialogAt
    <2>2. PICK k \in 0..Len(set) : DialogNow(set, to, k)
      BY <2>1
    <2> DEFINE way == From(set, k)
    <2>3. Len(set) \in Nat /\ k \in Nat /\ \A i \in 1..Len(set) : set[i] \in Stop
      OBVIOUS
    <2>4. k < Len(set)
      <3>1. k # Len(set)
        BY <1>1, <2>2, ElementsAssumption DEF DialogNow
      <3> QED BY <2>3, <3>1
    <2>5. /\ way \in Stops /\ Len(way) = Len(set) - k /\ Carries(msg, edge, to, way)
          /\ way[1] = set[k + 1] /\ set[k + 1].at = edge /\ set = learned[msg.from]
          /\ RouteSet(set, Own(msg.from), Other(msg.from))
          /\ AllLoose(set) => msg.uri = to /\ msg.routes = way /\ Kind(set[k + 1]) # Other(msg.from)
      BY <1>1, <2>2, <2>4 DEF DialogNow
    <2> HIDE DEF way
    <2>6. way # <<>> /\ Readable(way[1])
      <3>1. set[k + 1] \in Stop
        BY <2>3, <2>4
      <3>2. way # <<>>
        BY <2>3, <2>4, <2>5
      <3> QED BY <2>5, <3>1, <3>2, AddressFacts
    <2>7. CASE AllLoose(set)
      <3> DEFINE n == Popped(way)
      <3>1. ~MustSwap(way)
        <4>1. set[k + 1].lr
          BY <2>3, <2>4, <2>7 DEF AllLoose
        <4> QED BY <2>5, <4>1 DEF MustSwap
      <3>2. Straight(msg, edge, to, way)
        <4>1. CASE Swapped(msg, edge, to, way)
          <5>1. edge = way[1].at /\ Readable(way[1]) /\ way # <<>>
            BY <2>5, <2>6
          <5> QED BY <2>5, <2>7, <3>1, <5>1 DEF Straight, NextHop
        <4> QED BY <2>5, <4>1 DEF Carries
      <3>3. /\ Reads(msg, to, way, n)
            /\ Governing(msg) = IF n = 0 THEN NoToken ELSE way[1].token
        BY <1>2, <2>5, <3>2, EdgeReadsStraight
      <3>4. Own(msg.from) \in Side /\ Other(msg.from) \in Side /\ Own(msg.from) # Other(msg.from)
            /\ Own(msg.from) = Sender
        BY DEF Own, Other, Side, Sender
      <3>5. /\ n >= 1 /\ k + n <= Len(set)
            /\ k + n < Len(set) => Kind(set[(k + n) + 1]) # Other(msg.from)
            /\ set[k + 1].token # NoToken => set[k + 1].token[1] = Own(msg.from)
        BY <2>3, <2>4, <2>5, <2>7, <3>4, PairsEnd DEF way
      <3>6. n \in 0..2
        BY <2>5, PoppedIs
      <3> HIDE DEF n
      <3>7. n \in 1..(Len(set) - k) /\ n # 0
        BY <2>3, <3>5, <3>6
      <3>8. DialogTravels'
        <4>1. Reads(msg, to, From(set, k), n)
          BY <3>3 DEF way
        <4> QED BY <1>19, <2>2, <2>4, <2>5, <3>5, <3>7, <4>1, EdgeTravels
      <3>9. p.token = set[k + 1].token
        BY <1>7, <2>5, <3>3, <3>7
      <3> QED BY <3>4, <3>5, <3>8, <3>9
    <2>8. CASE ~AllLoose(set)
      <3>1. PICK n \in 0..Len(way) : Reads(msg, to, way, n) /\ n >= 1
        BY <1>2, <2>5, <2>6, EdgeReads
      <3>2. n \in 1..(Len(set) - k)
        BY <2>3, <2>5, <3>1
      <3>3. Reads(msg, to, From(set, k), n)
        BY <3>1 DEF way
      <3> QED BY <1>19, <2>2, <2>4, <2>5, <2>8, <3>2, <3>3, EdgeTravels
    <2> QED BY <2>7, <2>8
  <1>20. DialogTravels'
    BY <1>6, <1>19 DEF DialogTravels
  <1>21. InDialogReachesPeer'
    <2>1. phase' # Delivered /\ phase' # Lost /\ phase'.kind # "refused"
      BY <1>1 DEF Refused, Travelling, Lost, Delivered
    <2> QED BY <2>1 DEF InDialogReachesPeer
  <1>22. LoopsAreExactlyRepeats'
    <2>1. phase' # Refused(482)
      BY <1>1 DEF Refused, Travelling
    <2>2. ASSUME NEW i \in DOMAIN passes PROVE passes[i].came # p.came
      <3> SUFFICES ASSUME passes[i].came = p.came PROVE FALSE
        OBVIOUS
      <3>1. PICK l \in DOMAIN msg.vias : msg.vias[l].cookie = Cookie(passes[i])
        BY DEF RouteInv, ViasArePasses
      <3>2. msg.vias[l].cookie = RoutingState(msg)
        BY <1>7, <3>1 DEF Cookie, RoutingState
      <3>3. msg.vias[l].by \in Edges
        <4>1. msg.vias[l] \in Via
          BY <1>8
        <4> QED BY <4>1 DEF Via
      <3> QED BY <1>1, <3>2, <3>3 DEF IsLoop
    <2>3. ASSUME NEW i \in DOMAIN passes', NEW l \in DOMAIN passes', i # l
          PROVE  passes'[i].came # passes'[l].came
      <3>1. CASE i \in DOMAIN passes /\ l \in DOMAIN passes
        BY <1>9, <2>3, <3>1 DEF RouteInv, LoopsAreExactlyRepeats
      <3>2. CASE i = Len(passes) + 1 /\ l \in DOMAIN passes
        BY <1>9, <2>2, <3>2
      <3>3. CASE l = Len(passes) + 1 /\ i \in DOMAIN passes
        BY <1>9, <2>2, <3>3
      <3> QED BY <1>11, <2>3, <3>1, <3>2, <3>3
    <2> QED BY <2>1, <2>3 DEF LoopsAreExactlyRepeats
  <1>23. GoverningTokenNamesPresenter'
    <2> SUFFICES ASSUME NEW i \in DOMAIN passes', passes'[i].token # NoToken,
                        \A l \in DOMAIN learned[msg.from] : learned[msg.from][l].lr
                 PROVE  passes'[i].token[1] = Sender
      <3>1. Sender' = Sender /\ learned'[msg'.from] = learned[msg.from]
        BY <1>1, <1>6 DEF Sender
      <3> QED BY <3>1 DEF GoverningTokenNamesPresenter
    <2>1. CASE i \in DOMAIN passes
      BY <1>9, <2>1 DEF RouteInv, GoverningTokenNamesPresenter
    <2>2. CASE i = Len(passes) + 1
      <3>1. p.token # NoToken
        BY <1>9, <2>2
      <3>2. msg.inDialog
        BY <1>3, <1>4, <1>7, <3>1
      <3> QED BY <1>9, <1>19, <2>2, <3>1, <3>2 DEF AllLoose
    <2> QED BY <1>11, <2>1, <2>2
  <1> QED BY <1>12, <1>15, <1>16, <1>17, <1>18, <1>20, <1>21, <1>22, <1>23 DEF RouteInv

-----------------------------------------------------------------------------
(* The ends *)

LEMMA DeliverKeeps ==
  ASSUME RouteInv, NEW x \in {Caller, Callee}, Deliver(x)
  PROVE  RouteInv'
  <1>1. /\ phase = Travelling /\ at = x /\ visited' = Append(visited, x) /\ phase' = Delivered
        /\ UNCHANGED <<scene, msg, at, passes>>
    BY DEF Deliver, Handles
  <1>2. /\ msg \in Message /\ visited \in Seq(Host) /\ x \in Host /\ visited' \in Seq(Host)
        /\ scene \in Scenes /\ (msg.inDialog <=> msg.method # "INVITE")
    BY <1>1, AppendProperties DEF RouteInv, RouteTypes, Host
  <1>3. phase' # Travelling /\ phase' # Refused(482) /\ phase' # Lost /\ phase'.kind # "refused"
    BY <1>1 DEF Refused, Travelling, Lost, Delivered
  <1>4. CASE /\ msg.method = "INVITE" /\ x = Callee
             /\ learned' = [side \in {Caller, Callee} |->
                                IF side = Callee THEN msg.rr ELSE Reverse(msg.rr)]
             /\ remote' = [side \in {Caller, Callee} |->
                                IF side = Callee THEN scene.contact ELSE msg.uri]
    <2>1. ~msg.inDialog /\ Caller # Callee
      BY <1>2, <1>4, ElementsAssumption
    <2>2. RouteSet(msg.rr, "TERM", "ORIG")
      BY <2>1 DEF RouteInv, InviteRecords
    <2>3. RouteSet(Reverse(msg.rr), "ORIG", "TERM")
      BY <2>2, RouteSetReversed
    <2>4. msg.uri \in UserUri /\ msg.uri.at = Callee
      <3>1. PICK goal \in UserUri, plan \in Stops : Carries(msg, x, goal, plan)
        BY <1>1, UnderWay
      <3> QED BY <1>4, <3>1, Arrives
    <2>5. scene.contact \in UserUri /\ scene.contact.at \in {Caller, Callee}
      <3>1. scene \in Scene
        BY <1>2, ScenesAssumption
      <3> QED BY <3>1 DEF Scene
    <2>6. /\ learned'[Callee] = msg.rr /\ learned'[Caller] = Reverse(msg.rr)
          /\ remote'[Callee] = scene.contact /\ remote'[Caller] = msg.uri
      BY <1>4, <2>1
    <2>7. /\ Own(Callee) = "TERM" /\ Other(Callee) = "ORIG"
          /\ Own(Caller) = "ORIG" /\ Other(Caller) = "TERM"
      BY <2>1 DEF Own, Other
    <2>8. Knows(Callee)'
      <3>1. /\ learned'[Callee] \in Seq(Stop) /\ Apart(learned'[Callee])
            /\ Paired(learned'[Callee], "TERM", "ORIG") /\ Minted(learned'[Callee])
        BY <2>2, <2>6 DEF RouteSet
      <3>2. Minted(learned[Callee])'
        BY <1>1, <3>1 DEF Minted
      <3> QED BY <2>5, <2>6, <2>7, <3>1, <3>2 DEF Knows, RouteSet, Apart, Paired, Kind, Own, Other
    <2>9. Knows(Caller)'
      <3>1. /\ learned'[Caller] \in Seq(Stop) /\ Apart(learned'[Caller])
            /\ Paired(learned'[Caller], "ORIG", "TERM") /\ Minted(learned'[Caller])
        BY <2>3, <2>6 DEF RouteSet
      <3>2. Minted(learned[Caller])'
        BY <1>1, <3>1 DEF Minted
      <3> QED BY <2>4, <2>6, <2>7, <3>1, <3>2 DEF Knows, RouteSet, Apart, Paired, Kind, Own, Other
    <2>10. DialogKnown'
      BY <2>8, <2>9 DEF DialogKnown
    <2>11. InDialogReachesPeer'
      BY <1>1, <2>1 DEF InDialogReachesPeer
    <2>12. GoverningTokenNamesPresenter'
      <3>1. \A i \in DOMAIN passes : passes[i].token = NoToken
        BY <2>1 DEF RouteInv, InviteTravels
      <3> QED BY <1>1, <3>1 DEF GoverningTokenNamesPresenter
    <2> QED BY <1>1, <1>2, <1>3, <2>10, <2>11, <2>12, Settled DEF RouteInv
  <1>5. CASE (msg.method # "INVITE" \/ x = Caller) /\ UNCHANGED <<learned, remote>>
    <2>1. InDialogReachesPeer'
      <3> SUFFICES ASSUME msg.inDialog PROVE InDialogReachesPeer'
        BY <1>1 DEF InDialogReachesPeer
      <3>1. PICK set \in Seq(Stop), goal \in UserUri :
                 \E k \in 0..Len(set) : DialogNow(set, goal, k)
        BY <1>1, DialogAt
      <3>2. PICK k \in 0..Len(set) : DialogNow(set, goal, k)
        BY <3>1
      <3>3. Len(set) \in Nat /\ DOMAIN set = 1..Len(set) /\ \A i \in 1..Len(set) : set[i] \in Stop
        OBVIOUS
      <3>4. k = Len(set)
        <4> SUFFICES ASSUME k # Len(set) PROVE FALSE
          OBVIOUS
        <4> DEFINE stops == Len(set)
        <4>a. stops \in Nat /\ k \in 0..stops /\ k # stops
          BY <3>3
        <4> HIDE DEF stops
        <4>b. k < stops
          BY <4>a
        <4>0. k < Len(set)
          BY <4>b DEF stops
        <4>1. k + 1 \in 1..Len(set) /\ set[k + 1].at = x
          BY <1>1, <3>2, <3>3, <4>0 DEF DialogNow
        <4>2. set[k + 1] \in Stop
          BY <3>3, <4>1
        <4> QED BY <4>1, <4>2, ElementsAssumption DEF Stop
      <3>5. /\ set = learned[msg.from] /\ goal = remote[msg.from]
            /\ msg.uri = goal /\ msg.routes = <<>> /\ at = goal.at
            /\ Foreigners(visited) = Foreigners(Hosts(set, Len(set)))
        BY <3>2, <3>4 DEF DialogNow
      <3>6. Foreigners(visited') = Foreigners([i \in DOMAIN set |-> set[i].at])
        <4>1. ~Foreign(x)
          BY ElementsAssumption DEF Foreign
        <4>2. Foreigners(visited') = Foreigners(visited)
          BY <1>1, <1>2, <4>1, ForeignersGrow
        <4>3. Hosts(set, Len(set)) = [i \in DOMAIN set |-> set[i].at]
          BY <3>3 DEF Hosts
        <4> QED BY <3>5, <4>2, <4>3
      <3>7. learned'[msg'.from] = set /\ remote'[msg'.from] = goal
        BY <1>1, <1>5, <3>5
      <3>8. Foreigners(visited)' = Foreigners(visited')
        BY DEF Foreigners, Foreign
      <3>9. Foreigners([i \in DOMAIN learned[msg.from] |-> learned[msg.from][i].at])'
              = Foreigners([i \in DOMAIN set |-> set[i].at])
        BY <3>7 DEF Foreigners, Foreign
      <3>10. /\ at' = remote'[msg'.from].at /\ msg'.uri = remote'[msg'.from]
             /\ msg'.routes = <<>>
        BY <1>1, <3>5, <3>7
      <3> QED BY <1>3, <3>6, <3>8, <3>9, <3>10 DEF InDialogReachesPeer
    <2> QED BY <1>1, <1>2, <1>3, <1>5, <2>1, Settled DEF RouteInv
  <1> QED BY <1>4, <1>5 DEF Deliver

LEMMA SendWithinKeeps ==
  ASSUME RouteInv, NEW side \in {Caller, Callee}, NEW method \in {"ACK", "BYE"},
         SendWithin(side, method)
  PROVE  RouteInv'
  <1> DEFINE set == learned[side]
             goal == remote[side]
             hop == StrictSwap(goal, set)
             next == NextHop(hop.uri, hop.routes, MustSwap(set))
             m == [method |-> method, from |-> side, inDialog |-> TRUE, uri |-> hop.uri,
                   routes |-> hop.routes, rr |-> <<>>, vias |-> <<>>, hops |-> scene.hops]
  <1>1. /\ learned # <<>> /\ msg' = m /\ at' = next.at
        /\ phase' = Travelling /\ visited' = <<>> /\ passes' = <<>>
        /\ UNCHANGED <<scene, learned, remote>>
    BY DEF SendWithin, Established
  <1>2. Knows(side) /\ scene \in Scenes
    BY <1>1 DEF RouteInv, RouteTypes, DialogKnown
  <1>3. /\ RouteSet(set, Own(side), Other(side)) /\ set \in Seq(Stop) /\ goal \in UserUri
        /\ Len(set) \in Nat
    <2>1. RouteSet(set, Own(side), Other(side)) /\ set \in Seq(Stop) /\ goal \in UserUri
      BY <1>2 DEF Knows, RouteSet
    <2> QED BY <2>1
  <1>4. set \in Stops
    BY <1>3, SeqMonotonic DEF Stops
  <1>5. scene.hops \in Int
    <2>1. scene \in Scene
      BY <1>2, ScenesAssumption
    <2>2. scene.hops \in Nat
      BY <2>1 DEF Scene
    <2> QED BY <2>2
  <1> HIDE DEF set, goal
  <1>6. /\ m.uri = hop.uri /\ m.routes = hop.routes /\ m.inDialog /\ m.vias = <<>> /\ m.from = side
        /\ m.method # "INVITE"
    OBVIOUS
  <1>7. Carries(m, next.at, goal, set)
    <2> HIDE DEF m
    <2> QED BY <1>3, <1>4, <1>6, Launched
  <1>8. ~MustSwap(set) => m.uri = goal /\ m.routes = set
    BY DEF StrictSwap
  <1>9. next.at \in Host /\ m.uri \in Address /\ m.routes \in Seq(Address \cup {Unreadable})
    <2> HIDE DEF m, next, hop
    <2> QED BY <1>3, <1>4, <1>7, CarriesFacts
  <1>10. m \in Message
    <2>1. hop.uri \in Address /\ hop.routes \in Seq(Address \cup {Unreadable})
      BY <1>6, <1>9
    <2> HIDE DEF hop
    <2> QED BY <1>5, <2>1 DEF Message
  <1> HIDE DEF m, next, hop
  <1>11. RouteTypes'
    BY <1>1, <1>2, <1>6, <1>9, <1>10 DEF RouteTypes
  <1>12. ViasArePasses'
    BY <1>1, <1>6 DEF ViasArePasses
  <1>13. InviteTravels' /\ InviteRecords'
    BY <1>1, <1>6 DEF InviteTravels, InviteRecords
  <1>14. DialogKnown'
    BY <1>1, KnowsKept DEF RouteInv, DialogKnown
  <1>15. DialogTravels'
    <2>1. From(set, 0) = set /\ 0 \in 0..Len(set)
      BY <1>3, FromEnds
    <2>2. Foreigners(visited') = Foreigners(Hosts(set, 0))
      <3>1. Hosts(set, 0) = <<>>
        BY DEF Hosts
      <3> QED BY <1>1, <3>1
    <2>3. ASSUME AllLoose(set)
          PROVE  /\ m.uri = goal /\ m.routes = set
                 /\ 0 < Len(set) => Kind(set[0 + 1]) # Other(side)
      <3>1. ~MustSwap(set)
        <4> SUFFICES ASSUME MustSwap(set) PROVE FALSE
          OBVIOUS
        <4>1. 1 \in DOMAIN set /\ ~set[1].lr
          BY <1>3 DEF MustSwap
        <4> QED BY <2>3, <4>1 DEF AllLoose
      <3>2. ASSUME 0 < Len(set) PROVE Kind(set[0 + 1]) # Other(side)
        <4>1. 1 \in DOMAIN set /\ ~(1 > 1) /\ 0 + 1 = 1
          BY <1>3, <3>2
        <4> QED BY <1>3, <4>1 DEF RouteSet, Paired
      <3> QED BY <1>8, <3>1, <3>2
    <2>4. learned'[msg'.from] = set /\ remote'[msg'.from] = goal /\ Other(msg'.from) = Other(side)
      BY <1>1, <1>6 DEF set, goal
    <2>5. /\ Carries(msg', at', goal, From(set, 0))
          /\ \A i \in DOMAIN msg'.vias : Len(msg'.vias[i].cookie[3]) > Len(set) - 0
          /\ AllLoose(set) => /\ msg'.uri = goal /\ msg'.routes = From(set, 0)
                              /\ 0 < Len(set) => Kind(set[0 + 1]) # Other(msg'.from)
      BY <1>1, <1>6, <1>7, <2>1, <2>3, <2>4
    <2> QED BY <2>1, <2>2, <2>4, <2>5 DEF DialogTravels, AllLoose, Kind, Other
  <1>16. InDialogReachesPeer'
    <2>1. phase' # Delivered /\ phase' # Lost /\ phase'.kind # "refused"
      BY <1>1 DEF Refused, Travelling, Lost, Delivered
    <2> QED BY <2>1 DEF InDialogReachesPeer
  <1>17. LoopsAreExactlyRepeats'
    <2>1. phase' # Refused(482)
      BY <1>1 DEF Refused, Travelling
    <2> QED BY <1>1, <2>1 DEF LoopsAreExactlyRepeats
  <1>18. GoverningTokenNamesPresenter'
    BY <1>1 DEF GoverningTokenNamesPresenter
  <1> QED BY <1>11, <1>12, <1>13, <1>14, <1>15, <1>16, <1>17, <1>18 DEF RouteInv

LEMMA RestKeeps ==
  ASSUME RouteInv, UNCHANGED dialogVars
  PROVE  RouteInv'
  <1>1. RouteTypes' /\ ViasArePasses'
    BY DEF dialogVars, RouteInv, RouteTypes, ViasArePasses, Cookie
  <1>2. InviteTravels' /\ InviteRecords'
    BY DEF dialogVars, RouteInv, InviteTravels, InviteRecords, RouteSet, Apart, Paired, Minted, Kind
  <1>3. DialogKnown'
    BY KnowsKept DEF dialogVars, RouteInv, DialogKnown
  <1>4. DialogTravels'
    BY DEF dialogVars, RouteInv, DialogTravels
  <1>5. InDialogReachesPeer'
    BY DEF dialogVars, RouteInv, InDialogReachesPeer
  <1>6. LoopsAreExactlyRepeats' /\ GoverningTokenNamesPresenter'
    BY DEF dialogVars, RouteInv, LoopsAreExactlyRepeats, GoverningTokenNamesPresenter, Sender
  <1> QED BY <1>1, <1>2, <1>3, <1>4, <1>5, <1>6 DEF RouteInv

LEMMA InviteStarts == InitDialog => RouteInv
  <1> SUFFICES ASSUME InitDialog PROVE RouteInv
    OBVIOUS
  <1>1. /\ scene \in Scenes
        /\ msg = [method |-> "INVITE", from |-> Caller, inDialog |-> FALSE, uri |-> scene.uri,
                  routes |-> scene.routes, rr |-> <<>>, vias |-> <<>>, hops |-> scene.hops]
        /\ at = scene.first /\ phase = Travelling
        /\ learned = <<>> /\ remote = <<>> /\ visited = <<>> /\ passes = <<>>
    BY DEF InitDialog
  <1>2. /\ scene.uri \in UserUri /\ scene.routes \in Plain /\ scene.first \in Host
        /\ scene.hops \in Int
        /\ ~MustSwap(scene.routes)
        /\ scene.first = NextHop(scene.uri, scene.routes, FALSE).at
    <2>1. scene \in Scene
      BY <1>1, ScenesAssumption
    <2>2. /\ scene.uri \in UserUri /\ scene.routes \in Plain
          /\ scene.first \in Host /\ scene.hops \in Nat
      BY <2>1 DEF Scene, Plain
    <2>3. scene.hops \in Int
      BY <2>2
    <2>4. ~MustSwap(scene.routes) /\ scene.first = NextHop(scene.uri, scene.routes, FALSE).at
      BY <1>1, ScenesAssumption
    <2> QED BY <2>2, <2>3, <2>4
  <1>3. Carries(msg, at, scene.uri, scene.routes)
    BY <1>1, <1>2 DEF Carries, Straight
  <1>4. msg \in Message
    <2>1. scene.uri \in Address /\ scene.routes \in Seq(Address \cup {Unreadable})
      <3>1. msg.uri \in Address /\ msg.routes \in Seq(Address \cup {Unreadable})
        <4> DEFINE goal == scene.uri
                   plan == scene.routes
        <4>1. goal \in UserUri /\ plan \in Stops /\ Carries(msg, at, goal, plan)
          BY <1>2, <1>3, PlainFacts
        <4> HIDE DEF goal, plan
        <4> QED BY <4>1, CarriesFacts
      <3> QED BY <1>1, <3>1
    <2> QED BY <1>1, <1>2, <2>1 DEF Message
  <1>5. RouteTypes
    <2>1. msg.inDialog = FALSE /\ msg.method = "INVITE"
      BY <1>1
    <2>2. visited \in Seq(Host) /\ passes \in Seq(Pass)
      BY <1>1
    <2>3. at \in Host
      BY <1>1, <1>2
    <2> QED BY <1>1, <1>4, <2>1, <2>2, <2>3 DEF RouteTypes
  <1>6. ViasArePasses
    BY <1>1 DEF ViasArePasses
  <1>7. InviteTravels
    <2>1. msg.from = Caller /\ DOMAIN passes = {}
      BY <1>1
    <2> QED BY <1>2, <1>3, <2>1 DEF InviteTravels
  <1>8. InviteRecords
    BY <1>1 DEF InviteRecords, RouteSet, Apart, Paired, Minted
  <1>9. ~msg.inDialog
    BY <1>1
  <1>10. DialogKnown /\ DialogTravels /\ InDialogReachesPeer
    BY <1>1, <1>9 DEF DialogKnown, DialogTravels, InDialogReachesPeer
  <1>11. LoopsAreExactlyRepeats
    <2>1. phase # Refused(482)
      BY <1>1 DEF Refused, Travelling
    <2> QED BY <1>1, <2>1 DEF LoopsAreExactlyRepeats
  <1>12. GoverningTokenNamesPresenter
    BY <1>1 DEF GoverningTokenNamesPresenter
  <1> QED BY <1>5, <1>6, <1>7, <1>8, <1>10, <1>11, <1>12 DEF RouteInv

-----------------------------------------------------------------------------
(* The theorems *)

\* The invariant holds in every journey of a request, the INVITE's and those within the dialog.
THEOREM RouteInvariance == SpecDialog => []RouteInv
  <1>1. ASSUME RouteInv, [NextDialog]_dialogVars PROVE RouteInv'
    <2>1. ASSUME NEW x \in Edges, EdgeRefuses(x) \/ EdgeForwards(x) PROVE RouteInv'
      BY <1>1, <2>1, EdgeRefusesKeeps, EdgeForwardsKeeps
    <2>2. ASSUME NEW x \in Loose, LooseForwards(x) PROVE RouteInv'
      BY <1>1, <2>2, ForeignKeeps DEF ForeignForwards
    <2>3. ASSUME NEW x \in Strict, StrictForwards(x) PROVE RouteInv'
      BY <1>1, <2>3, ForeignKeeps DEF ForeignForwards
    <2>4. ASSUME NEW x \in {Caller, Callee}, Deliver(x) PROVE RouteInv'
      BY <1>1, <2>4, DeliverKeeps
    <2>5. ASSUME NEW side \in {Caller, Callee}, NEW method \in {"ACK", "BYE"},
                 SendWithin(side, method)
          PROVE  RouteInv'
      BY <1>1, <2>5, SendWithinKeeps
    <2>6. ASSUME Rest \/ UNCHANGED dialogVars PROVE RouteInv'
      BY <1>1, <2>6, RestKeeps DEF Rest
    <2> QED BY <1>1, <2>1, <2>2, <2>3, <2>4, <2>5, <2>6 DEF NextDialog
  <1> QED BY <1>1, InviteStarts, PTL DEF SpecDialog

\* A request within the dialog reaches the other end, unaltered, past the routers of its route
\* set and no other (route.rs P2, forward.rs F6 and F7).
THEOREM InDialogArrives == SpecDialog => []InDialogReachesPeer
  <1>1. RouteInv => InDialogReachesPeer
    BY DEF RouteInv
  <1> QED BY <1>1, RouteInvariance, PTL

\* A request is refused as a loop exactly when it came back as it was (validate.rs V4, cookie.rs).
THEOREM OnlyRepeatsLoop == SpecDialog => []LoopsAreExactlyRepeats
  <1>1. RouteInv => LoopsAreExactlyRepeats
    BY DEF RouteInv
  <1> QED BY <1>1, RouteInvariance, PTL

\* Past loose routers, the token an edge verifies is the sender's (route.rs P2, forward.rs F4).
THEOREM SendersTokenGoverns == SpecDialog => []GoverningTokenNamesPresenter
  <1>1. RouteInv => GoverningTokenNamesPresenter
    BY DEF RouteInv
  <1> QED BY <1>1, RouteInvariance, PTL
=============================================================================
