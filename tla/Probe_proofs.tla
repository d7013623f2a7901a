-------------------------------- MODULE Probe_proofs --------------------------------
(***************************************************************************)
(* Proofs about the synthetic probe.  The engine: whatever the platform    *)
(* answers, however often and late the network delivers it, and whenever   *)
(* the run is interrupted.  The scheduler and the echo's registration: for *)
(* any matrix, cadence and rate bound, and for any lifetime, without the   *)
(* bounds on the clock and on deferrals playing any part.                  *)
(***************************************************************************)
EXTENDS ProbeEngine, ProbeSchedule, FiniteSetTheorems, TLAPS

-----------------------------------------------------------------------------
(* The engine's state *)

Obligations == {"dialog", "binding"}
Waits == {Nothing} \cup {Step(step) : step \in Steps}
                   \cup {Cleaning("bye"), Cleaning("register")}
Run == [usable : BOOLEAN, credentials : BOOLEAN, waiting : Waits,
        steps : Seq(Steps \X BOOLEAN), decided : Verdicts \cup {None},
        owes : SUBSET Obligations, failed : BOOLEAN, finished : BOOLEAN, answered : BOOLEAN,
        cseq : Nat, expects : Nat]

LEMMA WaitsDiffer ==
  /\ \A step \in Steps : /\ Step(step) # Nothing /\ Step(step)[1] = "step"
                         /\ Step(step)[2] = step
                         /\ \A other : Step(step) # Cleaning(other)
                         /\ \A other : Step(step) = Step(other) => step = other
  /\ \A step : /\ Cleaning(step) # Nothing /\ Cleaning(step)[1] = "cleanup"
               /\ Cleaning(step)[2] = step
  /\ Nothing[1] = "nothing"
  BY DEF Step, Cleaning, Nothing

LEMMA BeginIs ==
  ASSUME NEW r \in Run, NEW step \in Steps
  PROVE  LET s == Begin(r, step)
         IN  /\ s \in Run /\ s.waiting = Step(step)
             /\ s.steps = r.steps /\ s.decided = r.decided /\ s.owes = r.owes
             /\ s.failed = r.failed /\ s.finished = r.finished
             /\ s.cseq = r.cseq /\ s.expects = r.expects
  BY DEF Begin, Run, Waits

LEMMA NumberedIs ==
  ASSUME NEW r \in Run, NEW method
  PROVE  LET s == Numbered(r, method)
         IN  /\ s \in Run /\ s.waiting = r.waiting
             /\ s.steps = r.steps /\ s.decided = r.decided /\ s.owes = r.owes
             /\ s.failed = r.failed /\ s.finished = r.finished
             /\ s.cseq = r.cseq + 1
             /\ s.expects = IF method = "ACK" THEN r.expects ELSE r.cseq + 1
  <1> DEFINE n == r.cseq + 1
             e == IF method = "ACK" THEN r.expects ELSE n
  <1>1. r.cseq \in Nat /\ r.expects \in Nat
    BY Zenon DEF Run
  <1>2. n \in Nat /\ e \in Nat
    BY <1>1
  <1>3. Numbered(r, method) = [r EXCEPT !.cseq = n, !.expects = e]
    BY Zenon DEF Numbered
  <1> HIDE DEF n, e
  <1>4. [r EXCEPT !.cseq = n, !.expects = e] \in Run
    BY <1>2, Zenon DEF Run
  <1> QED BY <1>2, <1>3, <1>4, Zenon DEF Run, n, e

LEMMA ForgetIs ==
  ASSUME NEW r \in Run, NEW obligation
  PROVE  LET s == Forget(r, obligation)
         IN  /\ s \in Run /\ s.waiting = r.waiting
             /\ s.steps = r.steps /\ s.decided = r.decided /\ s.owes = r.owes \ {obligation}
             /\ s.failed = r.failed /\ s.finished = r.finished
             /\ s.cseq = r.cseq /\ s.expects = r.expects
  BY DEF Forget, Run

LEMMA OweIs ==
  ASSUME NEW r \in Run, NEW obligation \in Obligations
  PROVE  LET s == Owe(r, obligation)
         IN  /\ s \in Run /\ s.waiting = r.waiting
             /\ s.steps = r.steps /\ s.decided = r.decided /\ s.owes = r.owes \cup {obligation}
             /\ s.failed = r.failed /\ s.finished = r.finished
             /\ s.cseq = r.cseq /\ s.expects = r.expects
  BY DEF Owe, Run

LEMMA DecideIs ==
  ASSUME NEW r \in Run, NEW verdict \in Verdicts
  PROVE  LET s == Decide(r, verdict)
         IN  /\ s \in Run /\ s.waiting = r.waiting
             /\ s.steps = r.steps /\ s.owes = r.owes
             /\ s.decided = IF r.decided = None THEN verdict ELSE r.decided
             /\ s.failed = r.failed /\ s.finished = r.finished
             /\ s.cseq = r.cseq /\ s.expects = r.expects
  BY DEF Decide, Run

LEMMA NoteCleanupIs ==
  ASSUME NEW r \in Run, NEW ok \in BOOLEAN
  PROVE  LET s == NoteCleanup(r, ok)
         IN  /\ s \in Run /\ s.waiting = r.waiting
             /\ s.steps = r.steps /\ s.decided = r.decided /\ s.owes = r.owes
             /\ (s.failed <=> (r.failed \/ ~ok)) /\ s.finished = r.finished
             /\ s.cseq = r.cseq /\ s.expects = r.expects
  BY DEF NoteCleanup, Run

LEMMA ConcludeIs ==
  ASSUME NEW r \in Run, NEW succeeded \in BOOLEAN
  PROVE  LET s == Conclude(r, succeeded)
         IN  /\ s \in Run /\ s.waiting = Nothing
             /\ \A step \in Steps :
                   r.waiting = Step(step) => s.steps = Append(r.steps, <<step, succeeded>>)
             /\ r.waiting[1] # "step" => s.steps = r.steps
             /\ s.decided = r.decided /\ s.owes = r.owes
             /\ s.failed = r.failed /\ s.finished = r.finished
             /\ s.cseq = r.cseq /\ s.expects = r.expects
  <1>1. CASE r.waiting[1] # "step"
    <2>1. Conclude(r, succeeded) = [r EXCEPT !.waiting = Nothing]
      BY <1>1 DEF Conclude
    <2>2. \A step \in Steps : r.waiting # Step(step)
      BY <1>1, WaitsDiffer
    <2> QED BY <2>1, <2>2, Zenon DEF Run, Waits
  <1>2. CASE r.waiting[1] = "step"
    <2>1. PICK step \in Steps : r.waiting = Step(step)
      <3>1. r.waiting \in Waits
        BY Zenon DEF Run
      <3> QED BY <1>2, <3>1, WaitsDiffer DEF Waits
    <2> DEFINE longer == Append(r.steps, <<step, succeeded>>)
    <2>2. Conclude(r, succeeded) = [r EXCEPT !.waiting = Nothing, !.steps = longer]
      BY <1>2, <2>1, WaitsDiffer, Zenon DEF Conclude
    <2>3. longer \in Seq(Steps \X BOOLEAN)
      <3>1. r.steps \in Seq(Steps \X BOOLEAN)
        BY Zenon DEF Run
      <3>2. <<step, succeeded>> \in Steps \X BOOLEAN
        OBVIOUS
      <3> HIDE DEF Steps
      <3> QED BY <3>1, <3>2
    <2>4. \A other \in Steps : r.waiting = Step(other) => other = step
      BY <2>1, WaitsDiffer
    <2> HIDE DEF longer
    <2> QED BY <1>2, <2>2, <2>3, <2>4, Zenon DEF Run, Waits, longer
  <1> QED BY <1>1, <1>2

LEMMA WaitingIs ==
  ASSUME NEW r \in Run, NEW wait \in Waits
  PROVE  LET s == [r EXCEPT !.waiting = wait]
         IN  /\ s \in Run /\ s.waiting = wait
             /\ s.steps = r.steps /\ s.decided = r.decided /\ s.owes = r.owes
             /\ s.failed = r.failed /\ s.finished = r.finished
             /\ s.cseq = r.cseq /\ s.expects = r.expects
  BY Zenon DEF Run

-----------------------------------------------------------------------------
(* What the inputs return *)

IsResult(c) ==
    c = [run |-> c.run, sent |-> c.sent, cleared |-> c.cleared, armed |-> c.armed]

LEMMA ResultIs ==
  ASSUME NEW r, NEW requests, NEW cleared, NEW armed, NEW c,
         c = Result(r, requests, cleared, armed)
  PROVE  IsResult(c) /\ c.run = r /\ c.sent = requests
  BY DEF Result, IsResult

LEMMA IgnoreIs ==
  ASSUME NEW r, NEW c, c = Ignore(r)
  PROVE  IsResult(c) /\ c.run = r /\ c.sent = {}
  BY DEF Result, Ignore, IsResult

LEMMA ClearingIs ==
  ASSUME NEW c, IsResult(c), NEW steps, NEW d, d = Clearing(steps, c)
  PROVE  IsResult(d) /\ d.run = c.run /\ d.sent = c.sent
  BY DEF Clearing, IsResult

\* The engine waits for the answer to a request of this method that is on the wire.
Asked(requests, r, method) ==
    /\ r.expects # 0
    /\ \E request \in requests : request.cseq = r.expects /\ request.method = method

LEMMA RequestIs ==
  ASSUME NEW r \in Run, NEW method, method # "ACK"
  PROVE  Asked({Request(r, method)}, Numbered(r, method), method)
  <1>1. r.cseq \in Nat
    BY Zenon DEF Run
  <1>2. Numbered(r, method).expects = r.cseq + 1 /\ r.cseq + 1 # 0
    BY <1>1, NumberedIs
  <1>3. Request(r, method).cseq = r.cseq + 1 /\ Request(r, method).method = method
    BY DEF Request
  <1> QED BY <1>2, <1>3 DEF Asked

\* After cleanup: one obligation less and its request out, or the run is over.
Settles(r, c) ==
    /\ IsResult(c) /\ c.run \in Run
    /\ c.run.steps = r.steps /\ c.run.decided = r.decided /\ c.run.failed = r.failed
    /\ \/ /\ "dialog" \in r.owes /\ c.run.owes = r.owes \ {"dialog"}
          /\ c.run.waiting = Cleaning("bye") /\ ~c.run.finished
          /\ Asked(c.sent, c.run, "BYE")
       \/ /\ "binding" \in r.owes /\ c.run.owes = r.owes \ {"binding"}
          /\ c.run.waiting = Cleaning("register") /\ ~c.run.finished
          /\ Asked(c.sent, c.run, "UNREGISTER")
       \/ /\ r.owes = {} /\ c.run.owes = {}
          /\ c.run.waiting = Nothing /\ c.run.finished

CleansUp(r, obligation, step, method, c) ==
    /\ IsResult(c) /\ c.run \in Run
    /\ c.run.steps = r.steps /\ c.run.decided = r.decided /\ c.run.failed = r.failed
    /\ c.run.owes = r.owes \ {obligation} /\ c.run.finished = r.finished
    /\ c.run.waiting = Cleaning(step)
    /\ Asked(c.sent, c.run, method)

LEMMA CleanUpWithIs ==
  ASSUME NEW r \in Run, NEW obligation, NEW step \in {"bye", "register"}, NEW method, method # "ACK",
         NEW c, c = CleanUpWith(r, obligation, step, method)
  PROVE  CleansUp(r, obligation, step, method, c)
  <1> DEFINE f == Forget(r, obligation)
             n == Numbered(f, method)
             w == [n EXCEPT !.waiting = Cleaning(step)]
  <1>1. f \in Run /\ f.cseq = r.cseq /\ f.owes = r.owes \ {obligation}
        /\ f.steps = r.steps /\ f.decided = r.decided /\ f.failed = r.failed
        /\ f.finished = r.finished
    BY ForgetIs
  <1>2. n \in Run /\ n.owes = f.owes /\ n.steps = f.steps /\ n.decided = f.decided
        /\ n.failed = f.failed /\ n.finished = f.finished
        /\ Asked({Request(f, method)}, n, method)
    <2> HIDE DEF f
    <2> QED BY <1>1, NumberedIs, RequestIs
  <1>3. w \in Run /\ w.owes = n.owes /\ w.steps = n.steps /\ w.decided = n.decided
        /\ w.failed = n.failed /\ w.finished = n.finished /\ w.expects = n.expects
        /\ w.waiting = Cleaning(step)
    <2> HIDE DEF n
    <2>1. Cleaning(step) \in Waits
      BY DEF Waits
    <2> QED BY <1>2, <2>1, WaitingIs
  <1>4. IsResult(c) /\ c.run = w /\ c.sent = {Request(r, method)}
    <2>1. c = Result(w, {Request(r, method)}, {}, {step})
      BY Zenon DEF CleanUpWith
    <2> HIDE DEF w
    <2> QED BY <2>1, ResultIs
  <1>5. Request(f, method) = Request(r, method)
    BY <1>1 DEF Request
  <1> HIDE DEF f, n, w
  <1>6. Asked(c.sent, c.run, method)
    BY <1>2, <1>3, <1>4, <1>5 DEF Asked
  <1> QED BY <1>1, <1>2, <1>3, <1>4, <1>6, Zenon DEF CleansUp

LEMMA CleanupSettles ==
  ASSUME NEW r \in Run, r.decided # None, ~r.finished, NEW c, c = Cleanup(r)
  PROVE  Settles(r, c)
  <1>1. CASE "dialog" \in r.owes
    <2>1. c = CleanUpWith(r, "dialog", "bye", "BYE")
      BY <1>1 DEF Cleanup
    <2>2. "BYE" # "ACK" /\ "bye" \in {"bye", "register"}
      OBVIOUS
    <2>3. CleansUp(r, "dialog", "bye", "BYE", c)
      BY <2>1, <2>2, CleanUpWithIs, Zenon
    <2> QED BY <1>1, <2>3, Zenon DEF Settles, CleansUp
  <1>2. CASE "dialog" \notin r.owes /\ "binding" \in r.owes
    <2>1. c = CleanUpWith(r, "binding", "register", "UNREGISTER")
      BY <1>2 DEF Cleanup
    <2>2. "UNREGISTER" # "ACK" /\ "register" \in {"bye", "register"}
      OBVIOUS
    <2>3. CleansUp(r, "binding", "register", "UNREGISTER", c)
      BY <2>1, <2>2, CleanUpWithIs, Zenon
    <2> QED BY <1>2, <2>3, Zenon DEF Settles, CleansUp
  <1>3. CASE "dialog" \notin r.owes /\ "binding" \notin r.owes
    <2> DEFINE d == IF r.decided = None THEN Inconclusive("internal") ELSE r.decided
               f == [r EXCEPT !.finished = TRUE, !.waiting = Nothing, !.decided = d]
    <2>1. c = Ignore(f)
      BY <1>3 DEF Cleanup, Finish
    <2>2. r.owes = {}
      <3>1. r.owes \in SUBSET Obligations
        BY Zenon DEF Run
      <3> QED BY <1>3, <3>1 DEF Obligations
    <2>3. d = r.decided
      OBVIOUS
    <2> HIDE DEF d
    <2>4. f \in Run /\ f.finished /\ f.waiting = Nothing /\ f.decided = d
          /\ f.owes = r.owes /\ f.steps = r.steps /\ f.failed = r.failed
      BY <2>3, Zenon DEF Run, Waits
    <2> HIDE DEF f
    <2>5. IsResult(c) /\ c.run = f
      BY <2>1, IgnoreIs
    <2> QED BY <2>2, <2>3, <2>4, <2>5 DEF Settles
  <1> QED BY <1>1, <1>2, <1>3

-----------------------------------------------------------------------------
(* What ends a step, or all of it, has settled the run *)

Had(r, step) == \E i \in DOMAIN r.steps : r.steps[i] = <<step, TRUE>>

\* The input ends what r was doing: the verdict stands, some obligations are dismissed
\* without a request, and cleanup goes on from there.
Ends(r, c, verdict, dismissed, failed) ==
    \E d \in Run :
        /\ Settles(d, c)
        /\ d.decided = verdict /\ verdict # None /\ d.owes = r.owes \ dismissed
        /\ d.failed = failed
        /\ r.decided # None => d.steps = r.steps
        /\ \A step \in Steps : Had(d, step) <=> Had(r, step)

LEMMA AppendIs ==
  ASSUME NEW T, NEW seq \in Seq(T), NEW x \in T, NEW longer, longer = Append(seq, x)
  PROVE  /\ DOMAIN longer = DOMAIN seq \cup {Len(seq) + 1}
         /\ \A i \in DOMAIN seq : longer[i] = seq[i]
         /\ longer[Len(seq) + 1] = x
  OBVIOUS

LEMMA ClearingSettles ==
  ASSUME NEW r, NEW b, Settles(r, b), NEW steps, NEW c, c = Clearing(steps, b)
  PROVE  Settles(r, c)
  <1>1. IsResult(b)
    BY Zenon DEF Settles
  <1>2. IsResult(c) /\ c.run = b.run /\ c.sent = b.sent
    BY <1>1, ClearingIs
  <1> QED BY <1>2 DEF Settles

LEMMA ConcludedHad ==
  ASSUME NEW r \in Run, NEW s, s = Conclude(r, FALSE)
  PROVE  \A step \in Steps : Had(s, step) <=> Had(r, step)
  <1>1. r.steps \in Seq(Steps \X BOOLEAN) /\ r.waiting \in Waits
    BY Zenon DEF Run
  <1>2. CASE r.waiting[1] # "step"
    <2>1. s.steps = r.steps
      BY <1>2, ConcludeIs, Zenon
    <2> QED BY <2>1 DEF Had
  <1>3. CASE r.waiting[1] = "step"
    <2>1. PICK one \in Steps : r.waiting = Step(one)
      BY <1>1, <1>3, WaitsDiffer DEF Waits
    <2>2. s.steps = Append(r.steps, <<one, FALSE>>)
      BY <2>1, ConcludeIs, Zenon
    <2>3. /\ DOMAIN s.steps = DOMAIN r.steps \cup {Len(r.steps) + 1}
          /\ \A i \in DOMAIN r.steps : s.steps[i] = r.steps[i]
          /\ s.steps[Len(r.steps) + 1] = <<one, FALSE>>
      <3>1. <<one, FALSE>> \in Steps \X BOOLEAN
        OBVIOUS
      <3> DEFINE T == Steps \X BOOLEAN
                 seq == r.steps
                 x == <<one, FALSE>>
                 longer == s.steps
      <3>2. seq \in Seq(T) /\ x \in T /\ longer = Append(seq, x)
        BY <1>1, <2>2, <3>1
      <3> HIDE DEF T, seq, x, longer
      <3>3. /\ DOMAIN longer = DOMAIN seq \cup {Len(seq) + 1}
            /\ \A i \in DOMAIN seq : longer[i] = seq[i]
            /\ longer[Len(seq) + 1] = x
        BY <3>2, AppendIs
      <3> QED BY <3>3 DEF seq, x, longer
    <2>4. \A step : <<step, TRUE>> # <<one, FALSE>>
      OBVIOUS
    <2> QED BY <2>3, <2>4, Zenon DEF Had
  <1> QED BY <1>2, <1>3

LEMMA VerdictsAre ==
  /\ Pass \in Verdicts
  /\ \A step \in Steps, cause \in Causes : Failing(step, cause) \in Verdicts
  /\ \A fault \in Faults : Inconclusive(fault) \in Verdicts
  /\ None \notin Verdicts
  BY MarkerAssumption DEF Verdicts, Pass, Failing, Inconclusive

LEMMA FailEnds ==
  ASSUME NEW r \in Run, r.decided = None, ~r.finished, NEW step \in Steps, NEW cause \in Causes,
         r.waiting = Step(step) \/ r.waiting = Nothing, NEW c, c = Fail(r, step, cause)
  PROVE  Ends(r, c, Failing(step, cause), IF step = "bye" THEN {"dialog"} ELSE {}, r.failed)
  <1> DEFINE v == Failing(step, cause)
             s == Conclude(r, FALSE)
             d == Decide(s, v)
             e == IF step = "bye" THEN Forget(d, "dialog") ELSE d
  <1>1. v \in Verdicts /\ v # None
    BY VerdictsAre
  <1>2. /\ s \in Run /\ s.decided = None /\ s.owes = r.owes /\ s.failed = r.failed
        /\ s.finished = r.finished /\ \A one \in Steps : Had(s, one) <=> Had(r, one)
    BY ConcludeIs, ConcludedHad, Zenon
  <1>3. c = Clearing({step}, Cleanup(e))
    BY Zenon DEF Fail
  <1> HIDE DEF v, s
  <1>4. d \in Run /\ d.decided = v /\ d.owes = s.owes /\ d.failed = s.failed
        /\ d.finished = s.finished /\ d.steps = s.steps
    BY <1>1, <1>2, DecideIs
  <1> HIDE DEF d
  <1>5. /\ e \in Run /\ e.decided = v /\ e.failed = s.failed
        /\ e.finished = s.finished /\ e.steps = s.steps
        /\ e.owes = s.owes \ (IF step = "bye" THEN {"dialog"} ELSE {})
    <2>1. CASE step = "bye"
      BY <1>4, <2>1, ForgetIs
    <2>2. CASE step # "bye"
      BY <1>4, <2>2
    <2> QED BY <2>1, <2>2
  <1> HIDE DEF e
  <1>6. Settles(e, c)
    <2>1. PICK b : b = Cleanup(e)
      OBVIOUS
    <2>2. Settles(e, b)
      BY <1>1, <1>2, <1>5, <2>1, CleanupSettles, Zenon
    <2>3. c = Clearing({step}, b)
      BY <1>3, <2>1
    <2> QED BY <2>2, <2>3, ClearingSettles, Zenon
  <1>7. \A one \in Steps : Had(e, one) <=> Had(r, one)
    BY <1>2, <1>5 DEF Had
  <1>8. e.owes = r.owes \ (IF step = "bye" THEN {"dialog"} ELSE {}) /\ e.failed = r.failed
    BY <1>2, <1>5
  <1> QED BY <1>1, <1>5, <1>6, <1>7, <1>8, Zenon DEF Ends, v

LEMMA AbandonEnds ==
  ASSUME NEW r \in Run, ~r.finished, r.waiting[1] = "step" => r.decided = None,
         NEW fault \in Faults, NEW c, c = Abandon(r, fault)
  PROVE  Ends(r, c, IF r.decided = None THEN Inconclusive(fault) ELSE r.decided, {}, r.failed)
  <1> DEFINE v == IF r.decided = None THEN Inconclusive(fault) ELSE r.decided
             d == Decide(r, Inconclusive(fault))
  <1>1. v # None /\ Inconclusive(fault) \in Verdicts
    BY VerdictsAre
  <1>2. /\ d \in Run /\ d.decided = v /\ d.owes = r.owes /\ d.failed = r.failed
        /\ d.finished = r.finished /\ d.steps = r.steps /\ d.waiting = r.waiting
    BY <1>1, DecideIs, Zenon
  <1>3. c = IF r.waiting[1] = "step" THEN Clearing({r.waiting[2]}, Cleanup(Conclude(d, FALSE)))
            ELSE Cleanup(d)
    BY Zenon DEF Abandon
  <1> HIDE DEF v, d
  <1>4. CASE r.waiting[1] = "step"
    <2> DEFINE s == Conclude(d, FALSE)
    <2>1. /\ s \in Run /\ s.decided = v /\ s.owes = r.owes /\ s.failed = r.failed
          /\ s.finished = r.finished /\ \A one \in Steps : Had(s, one) <=> Had(d, one)
      BY <1>2, ConcludeIs, ConcludedHad, Zenon
    <2>2. c = Clearing({r.waiting[2]}, Cleanup(s))
      BY <1>3, <1>4
    <2> HIDE DEF s
    <2>3. PICK b : b = Cleanup(s)
      OBVIOUS
    <2>4. Settles(s, b)
      BY <1>1, <2>1, <2>3, CleanupSettles, Zenon
    <2>5. c = Clearing({r.waiting[2]}, b)
      BY <2>2, <2>3
    <2>6. Settles(s, c)
      BY <2>4, <2>5, ClearingSettles, Zenon
    <2>7. \A one \in Steps : Had(s, one) <=> Had(r, one)
      BY <1>2, <2>1 DEF Had
    <2>8. s.owes = r.owes \ {} /\ r.decided = None
      BY <1>4, <2>1
    <2> QED BY <1>1, <2>1, <2>6, <2>7, <2>8, Zenon DEF Ends, v
  <1>5. CASE r.waiting[1] # "step"
    <2>1. c = Cleanup(d)
      BY <1>3, <1>5
    <2>2. Settles(d, c)
      BY <1>1, <1>2, <2>1, CleanupSettles, Zenon
    <2>3. \A one \in Steps : Had(d, one) <=> Had(r, one)
      BY <1>2 DEF Had
    <2>4. d.owes = r.owes \ {}
      BY <1>2
    <2> QED BY <1>1, <1>2, <2>2, <2>3, <2>4, Zenon DEF Ends, v
  <1> QED BY <1>4, <1>5

LEMMA AfterCleanupEnds ==
  ASSUME NEW r \in Run, r.decided # None, ~r.finished, NEW ok \in BOOLEAN, NEW step,
         NEW c, c = AfterCleanup(NoteCleanup(r, ok), step)
  PROVE  \E failed \in BOOLEAN : /\ failed <=> (r.failed \/ ~ok)
                                 /\ Ends(r, c, r.decided, {}, failed)
  <1> DEFINE n == NoteCleanup(r, ok)
             w == [n EXCEPT !.waiting = Nothing]
  <1>1. /\ n \in Run /\ n.steps = r.steps /\ n.decided = r.decided /\ n.owes = r.owes
        /\ (n.failed <=> (r.failed \/ ~ok)) /\ n.finished = r.finished
    BY NoteCleanupIs
  <1>2. c = Clearing({step}, Cleanup(w))
    BY Zenon DEF AfterCleanup
  <1> HIDE DEF n
  <1>3. /\ w \in Run /\ w.steps = r.steps /\ w.decided = r.decided /\ w.owes = r.owes
        /\ w.failed = n.failed /\ w.finished = r.finished
    <2>1. Nothing \in Waits
      BY DEF Waits
    <2> QED BY <1>1, <2>1, WaitingIs
  <1> HIDE DEF w
  <1>4. PICK b : b = Cleanup(w)
    OBVIOUS
  <1>5. Settles(w, b)
    BY <1>3, <1>4, CleanupSettles, Zenon
  <1>6. c = Clearing({step}, b)
    BY <1>2, <1>4
  <1>7. Settles(w, c)
    BY <1>5, <1>6, ClearingSettles, Zenon
  <1>8. /\ \A one \in Steps : Had(w, one) <=> Had(r, one)
        /\ w.owes = r.owes \ {}
    BY <1>3 DEF Had
  <1>9. Ends(r, c, r.decided, {}, n.failed)
    BY <1>3, <1>7, <1>8, Zenon DEF Ends
  <1>10. n.failed \in BOOLEAN
    BY <1>1, Zenon DEF Run
  <1> QED BY <1>1, <1>9, <1>10

-----------------------------------------------------------------------------
(* The engine and what the platform did *)

\* Got, Ok and the verdict's grounds, of any requests and answers.
Replies(S, A, method) == {a \in A : \E q \in S : q.cseq = a.cseq /\ q.method = method}
Agreed(S, A, method) == \E a \in Replies(S, A, method) : a.status = "ok"
EchoHeard(S, A) == \E a \in Replies(S, A, "INVITE") : a.status = "ok" /\ a.marker = Mine
ByeFailed(verdict) == verdict.kind = "fail" /\ verdict.step = "bye"

\* The steps done, all with success.
Prefix(n) == [i \in 1..n |-> <<Plan[i], TRUE>>]

FailureGrounds(v, S, A, H) ==
    \/ /\ v.cause = "mismatch"
       /\ \E a \in Replies(S, A, "INVITE") : a.status = "ok" /\ a.marker # Mine
    \/ /\ v.cause \in {"rejected", "shed"}
       /\ \E a \in Replies(S, A, MethodOf(v.step)) : a.status \in Refusals
    \/ v.cause \notin {"mismatch", "rejected", "shed"} /\ v.step \in H
Grounded(r, S, A, H) ==
    /\ r.decided = Pass => /\ Agreed(S, A, "REGISTER") /\ Agreed(S, A, "BYE")
                           /\ EchoHeard(S, A) /\ r.steps = Prefix(4)
    /\ r.decided # None /\ r.decided.kind = "fail" => FailureGrounds(r.decided, S, A, H)

\* What came about is still owed, being undone, or undone, as long as nothing went wrong.
Undone(r, binding, dialog, S, A, H) ==
    \/ r.failed
    \/ "interrupted" \in H
    \/ /\ Had(r, "register") => binding \/ Agreed(S, A, "UNREGISTER")
       /\ Had(r, "invite") => dialog \/ Agreed(S, A, "BYE") \/ ByeFailed(r.decided)
Accounted(r, S, A, H) ==
    Undone(r, "binding" \in r.owes \/ r.waiting = Cleaning("register"),
              "dialog" \in r.owes \/ r.waiting = Cleaning("bye"), S, A, H)

\* In a step: what was done, what is owed, and which request is out.
Expecting(r, step, done, owes) ==
    /\ r.waiting = Step(step) /\ r.decided = None /\ ~r.finished
    /\ r.steps = Prefix(done) /\ r.owes = owes

Resolving(r, S) == Expecting(r, "resolve", 0, {}) /\ S = {}
Registering(r, S) == Expecting(r, "register", 1, {}) /\ Asked(S, r, "REGISTER")
Inviting(r, S, A) ==
    /\ Expecting(r, "invite", 2, {"binding"}) /\ Asked(S, r, "INVITE")
    /\ Agreed(S, A, "REGISTER")
HangingUp(r, S, A) ==
    /\ Expecting(r, "bye", 3, Obligations) /\ Asked(S, r, "BYE")
    /\ Agreed(S, A, "REGISTER") /\ EchoHeard(S, A)

Unstarted(r, S) ==
    /\ r.waiting = Nothing /\ r.decided = None /\ ~r.finished /\ r.steps = Prefix(0)
    /\ r.owes = {} /\ S = {}
Undoing(r, S) ==
    /\ r.decided # None /\ ~r.finished
    /\ \/ r.waiting = Cleaning("bye") /\ Asked(S, r, "BYE")
       \/ r.waiting = Cleaning("register") /\ Asked(S, r, "UNREGISTER")
Finished(r) == r.finished /\ r.waiting = Nothing /\ r.owes = {} /\ r.decided # None

Placed(r, S, A) ==
    \/ Unstarted(r, S) \/ Resolving(r, S) \/ Registering(r, S) \/ Inviting(r, S, A)
    \/ HangingUp(r, S, A) \/ Undoing(r, S) \/ Finished(r)

EngineInv(r, S, A, H) ==
    r \in Run /\ Placed(r, S, A) /\ Grounded(r, S, A, H) /\ Accounted(r, S, A, H)

\* An answer is to a request.
AnswersInv ==
    \A a \in answers : /\ a.status \in Refusals \cup {"ok", "trying"}
                       /\ \E q \in sent : q.cseq = a.cseq

RunInv == EngineInv(run, sent, answers, happened) /\ AnswersInv

LEMMA SettledKeeps ==
  ASSUME NEW d \in Run, d.decided # None, NEW c, Settles(d, c),
         NEW S, \A q \in c.sent : q \in S, NEW A, NEW H, Grounded(d, S, A, H),
         Undone(d, "binding" \in d.owes, "dialog" \in d.owes, S, A, H)
  PROVE  EngineInv(c.run, S, A, H)
  <1>1. /\ c.run \in Run /\ c.run.steps = d.steps /\ c.run.decided = d.decided
        /\ c.run.failed = d.failed
    BY Zenon DEF Settles
  <1>2. Grounded(c.run, S, A, H)
    BY <1>1, Zenon DEF Grounded
  <1>3. \A step : Had(c.run, step) <=> Had(d, step)
    BY <1>1, Zenon DEF Had
  <1>4. \A method : Asked(c.sent, c.run, method) => Asked(S, c.run, method)
    BY DEF Asked
  <1> DEFINE binding == "binding" \in c.run.owes \/ c.run.waiting = Cleaning("register")
             dialog == "dialog" \in c.run.owes \/ c.run.waiting = Cleaning("bye")
  <1>5. ("binding" \in d.owes => binding) /\ ("dialog" \in d.owes => dialog)
           => Undone(c.run, binding, dialog, S, A, H)
    BY <1>1, <1>3 DEF Undone
  <1> SUFFICES /\ Undoing(c.run, S) \/ Finished(c.run)
               /\ "binding" \in d.owes => binding
               /\ "dialog" \in d.owes => dialog
    BY <1>1, <1>2, <1>5, Zenon DEF EngineInv, Placed, Accounted
  <1>6. CASE /\ "dialog" \in d.owes /\ c.run.owes = d.owes \ {"dialog"}
             /\ c.run.waiting = Cleaning("bye") /\ ~c.run.finished
             /\ Asked(c.sent, c.run, "BYE")
    BY <1>1, <1>4, <1>6 DEF Undoing
  <1>7. CASE /\ "binding" \in d.owes /\ c.run.owes = d.owes \ {"binding"}
             /\ c.run.waiting = Cleaning("register") /\ ~c.run.finished
             /\ Asked(c.sent, c.run, "UNREGISTER")
    BY <1>1, <1>4, <1>7 DEF Undoing
  <1>8. CASE /\ d.owes = {} /\ c.run.owes = {}
             /\ c.run.waiting = Nothing /\ c.run.finished
    BY <1>1, <1>8 DEF Finished
  <1> QED BY <1>6, <1>7, <1>8, Zenon DEF Settles

\* An input takes the engine from one good state to another, and a verdict stands.
Keeps(r, c, S, A, H) ==
    /\ IsResult(c) /\ EngineInv(c.run, S \cup c.sent, A, H)
    /\ r.decided # None => c.run.decided = r.decided /\ c.run.owes \subseteq r.owes

LEMMA MoreRequests ==
  ASSUME NEW S, NEW T, NEW A, NEW H
  PROVE  /\ \A method : Replies(S, A, method) \subseteq Replies(S \cup T, A, method)
         /\ \A method : Agreed(S, A, method) => Agreed(S \cup T, A, method)
         /\ EchoHeard(S, A) => EchoHeard(S \cup T, A)
         /\ \A v : FailureGrounds(v, S, A, H) => FailureGrounds(v, S \cup T, A, H)
         /\ \A r : Grounded(r, S, A, H) => Grounded(r, S \cup T, A, H)
         /\ \A r, b, d : Undone(r, b, d, S, A, H) => Undone(r, b, d, S \cup T, A, H)
         /\ \A r, method : Asked(S, r, method) => Asked(S \cup T, r, method)
  <1>1. \A method : Replies(S, A, method) \subseteq Replies(S \cup T, A, method)
    BY DEF Replies
  <1>2. /\ \A method : Agreed(S, A, method) => Agreed(S \cup T, A, method)
        /\ EchoHeard(S, A) => EchoHeard(S \cup T, A)
    BY <1>1 DEF Agreed, EchoHeard
  <1>3. \A v : FailureGrounds(v, S, A, H) => FailureGrounds(v, S \cup T, A, H)
    BY <1>1 DEF FailureGrounds
  <1>4. \A r : Grounded(r, S, A, H) => Grounded(r, S \cup T, A, H)
    BY <1>2, <1>3, Zenon DEF Grounded
  <1>5. \A r, b, d : Undone(r, b, d, S, A, H) => Undone(r, b, d, S \cup T, A, H)
    BY <1>2, Zenon DEF Undone
  <1>6. \A r, method : Asked(S, r, method) => Asked(S \cup T, r, method)
    BY DEF Asked
  <1> QED BY <1>1, <1>2, <1>3, <1>4, <1>5, <1>6

LEMMA EndsKeeps ==
  ASSUME NEW r \in Run, NEW c, NEW verdict, NEW dismissed, NEW failed \in BOOLEAN,
         Ends(r, c, verdict, dismissed, failed), NEW S, NEW A, NEW H,
         r.decided # None => verdict = r.decided,
         \/ r.decided # None /\ Grounded(r, S, A, H)
         \/ verdict # Pass /\ (verdict.kind = "fail" => FailureGrounds(verdict, S, A, H)),
         \/ failed
         \/ "interrupted" \in H
         \/ /\ Had(r, "register") => "binding" \in r.owes \ dismissed \/ Agreed(S, A, "UNREGISTER")
            /\ Had(r, "invite") => \/ "dialog" \in r.owes \ dismissed
                                   \/ Agreed(S, A, "BYE") \/ ByeFailed(verdict)
  PROVE  Keeps(r, c, S, A, H)
  <1>1. PICK d \in Run :
            /\ Settles(d, c)
            /\ d.decided = verdict /\ verdict # None /\ d.owes = r.owes \ dismissed
            /\ d.failed = failed
            /\ r.decided # None => d.steps = r.steps
            /\ \A step \in Steps : Had(d, step) <=> Had(r, step)
    BY Zenon DEF Ends
  <1>2. Grounded(d, S, A, H)
    BY <1>1, Zenon DEF Grounded
  <1>3. "register" \in Steps /\ "invite" \in Steps
    BY DEF Steps, Plan
  <1>4. Undone(d, "binding" \in d.owes, "dialog" \in d.owes, S, A, H)
    BY <1>1, <1>3 DEF Undone
  <1>5. EngineInv(c.run, S \cup c.sent, A, H)
    BY <1>1, <1>2, <1>4, MoreRequests, SettledKeeps, Zenon
  <1>6. c.run.decided = verdict /\ c.run.owes \subseteq r.owes
    BY <1>1 DEF Settles
  <1> QED BY <1>1, <1>5, <1>6 DEF Keeps, Settles

-----------------------------------------------------------------------------
(* The steps in their order *)

LEMMA PlanIs ==
  /\ DOMAIN Plan = 1..4
  /\ Plan[1] = "resolve" /\ Plan[2] = "register" /\ Plan[3] = "invite" /\ Plan[4] = "bye"
  BY DEF Plan

LEMMA PrefixIs ==
  /\ Prefix(0) = <<>>
  /\ \A n \in 0..3 : Append(Prefix(n), <<Plan[n + 1], TRUE>>) = Prefix(n + 1)
  /\ Prefix(4) = [i \in DOMAIN Plan |-> <<Plan[i], TRUE>>]
  <1> DEFINE done(i) == <<Plan[i], TRUE>>
  <1>1. Prefix(0) = <<>>
    <2>1. Prefix(0) = [i \in 1..0 |-> done(i)]
      BY DEF Prefix
    <2> HIDE DEF done
    <2> QED BY <2>1
  <1>2. ASSUME NEW n \in 0..3
        PROVE  Append(Prefix(n), <<Plan[n + 1], TRUE>>) = Prefix(n + 1)
    <2>1. Prefix(n) = [i \in 1..n |-> done(i)] /\ Prefix(n + 1) = [i \in 1..(n + 1) |-> done(i)]
      BY DEF Prefix
    <2>2. Append(Prefix(n), done(n + 1)) = Prefix(n + 1)
      <3> HIDE DEF done
      <3> QED BY <2>1
    <2> QED BY <2>2
  <1>3. Prefix(4) = [i \in DOMAIN Plan |-> <<Plan[i], TRUE>>]
    BY PlanIs DEF Prefix
  <1> QED BY <1>1, <1>2, <1>3

LEMMA PrefixHad ==
  ASSUME NEW r, NEW n \in 0..4, r.steps = Prefix(n)
  PROVE  (Had(r, "register") => n >= 2) /\ (Had(r, "invite") => n >= 3)
  <1>1. \A step : Had(r, step) => \E i \in 1..n : Plan[i] = step
    BY DEF Had, Prefix
  <1>2. \A i \in 1..4 : (Plan[i] = "register" => i = 2) /\ (Plan[i] = "invite" => i = 3)
    BY PlanIs
  <1> QED BY <1>1, <1>2

\* While the run is undecided, what came about is owed.
LEMMA UndecidedOwes ==
  ASSUME NEW r, NEW S, NEW A, Placed(r, S, A), r.decided = None
  PROVE  /\ ~r.finished /\ r.waiting # Cleaning("bye") /\ r.waiting # Cleaning("register")
         /\ Had(r, "register") => "binding" \in r.owes
         /\ Had(r, "invite") => "dialog" \in r.owes
  <1>1. \A step \in Steps : Step(step) # Cleaning("bye") /\ Step(step) # Cleaning("register")
    BY WaitsDiffer
  <1>2. Nothing # Cleaning("bye") /\ Nothing # Cleaning("register")
    BY WaitsDiffer
  <1>3. {"resolve", "register", "invite", "bye"} \subseteq Steps
    BY DEF Steps, Plan
  <1>4. ~Undoing(r, S) /\ ~Finished(r)
    BY DEF Undoing, Finished
  <1> DEFINE Good == /\ ~r.finished
                     /\ r.waiting # Cleaning("bye") /\ r.waiting # Cleaning("register")
                     /\ Had(r, "register") => "binding" \in r.owes
                     /\ Had(r, "invite") => "dialog" \in r.owes
  <1>5. CASE Unstarted(r, S)
    <2>1. r.steps = Prefix(0) /\ 0 \in 0..4
      BY <1>5 DEF Unstarted
    <2>2. ~Had(r, "register") /\ ~Had(r, "invite")
      BY <2>1, PrefixHad
    <2> QED BY <1>2, <1>5, <2>2 DEF Unstarted
  <1>6. CASE Resolving(r, S)
    <2>1. r.steps = Prefix(0) /\ 0 \in 0..4
      BY <1>6 DEF Resolving, Expecting
    <2>2. ~Had(r, "register") /\ ~Had(r, "invite")
      BY <2>1, PrefixHad
    <2> QED BY <1>1, <1>3, <1>6, <2>2 DEF Resolving, Expecting
  <1>7. CASE Registering(r, S)
    <2>1. r.steps = Prefix(1) /\ 1 \in 0..4
      BY <1>7 DEF Registering, Expecting
    <2>2. ~Had(r, "register") /\ ~Had(r, "invite")
      BY <2>1, PrefixHad
    <2> QED BY <1>1, <1>3, <1>7, <2>2 DEF Registering, Expecting
  <1>8. CASE Inviting(r, S, A)
    <2>1. r.steps = Prefix(2) /\ 2 \in 0..4
      BY <1>8 DEF Inviting, Expecting
    <2>2. ~Had(r, "invite")
      BY <2>1, PrefixHad
    <2> QED BY <1>1, <1>3, <1>8, <2>2 DEF Inviting, Expecting
  <1>9. CASE HangingUp(r, S, A)
    BY <1>1, <1>3, <1>9 DEF HangingUp, Expecting, Obligations
  <1> QED BY <1>4, <1>5, <1>6, <1>7, <1>8, <1>9 DEF Placed

\* The steps that ask something of the platform.
Asking == {"register", "invite", "bye"}

LEMMA AskingIs ==
  /\ "register" \in Asking /\ "invite" \in Asking /\ "bye" \in Asking
  /\ MethodOf("register") = "REGISTER" /\ MethodOf("invite") = "INVITE"
  /\ MethodOf("bye") = "BYE"
  BY DEF Asking, MethodOf

Attempts(r, step, c) ==
    /\ IsResult(c) /\ c.run \in Run /\ c.run.waiting = Step(step)
    /\ c.run.steps = r.steps /\ c.run.decided = r.decided /\ c.run.owes = r.owes
    /\ c.run.failed = r.failed /\ c.run.finished = r.finished
    /\ Asked(c.sent, c.run, MethodOf(step))

LEMMA AttemptIs ==
  ASSUME NEW r \in Run, NEW step \in Asking, NEW c, c = Attempt(r, step)
  PROVE  Attempts(r, step, c)
  <1> DEFINE m == MethodOf(step)
             b == Begin(r, step)
             n == Numbered(b, m)
  <1>1. step \in Steps /\ m # "ACK"
    BY DEF Steps, Plan, MethodOf, Asking
  <1>2. /\ b \in Run /\ b.waiting = Step(step) /\ b.steps = r.steps /\ b.decided = r.decided
        /\ b.owes = r.owes /\ b.failed = r.failed /\ b.finished = r.finished /\ b.cseq = r.cseq
    BY <1>1, BeginIs
  <1>3. c = Result(n, {Request(r, m)}, {}, {step})
    BY Zenon DEF Attempt
  <1> HIDE DEF m, b
  <1>4. /\ n \in Run /\ n.waiting = b.waiting /\ n.steps = b.steps /\ n.decided = b.decided
        /\ n.owes = b.owes /\ n.failed = b.failed /\ n.finished = b.finished
    BY <1>2, NumberedIs
  <1>5. Asked({Request(b, m)}, n, m)
    BY <1>1, <1>2, RequestIs
  <1>6. Request(b, m) = Request(r, m)
    BY <1>2 DEF Request
  <1> HIDE DEF n
  <1>7. IsResult(c) /\ c.run = n /\ c.sent = {Request(r, m)}
    BY <1>3, ResultIs
  <1> QED BY <1>2, <1>4, <1>5, <1>6, <1>7, Zenon DEF m, Attempts

-----------------------------------------------------------------------------
(* Every input keeps the engine right *)

\* An undecided run fails on grounds the platform or the network gave.
LEMMA FailKeeps ==
  ASSUME NEW r, NEW S, NEW A, NEW H, EngineInv(r, S, A, H), NEW step \in Steps,
         r.waiting = Step(step), NEW cause \in Causes,
         FailureGrounds(Failing(step, cause), S, A, H), NEW c, c = Fail(r, step, cause)
  PROVE  Keeps(r, c, S, A, H)
  <1> DEFINE v == Failing(step, cause)
             dismissed == IF step = "bye" THEN {"dialog"} ELSE {}
  <1>1. r \in Run /\ Placed(r, S, A)
    BY DEF EngineInv
  <1>2. r.decided = None /\ ~r.finished
    <2>1. Step(step) # Nothing /\ \A other : Step(step) # Cleaning(other)
      BY WaitsDiffer
    <2> QED BY <1>1, <2>1 DEF Placed, Unstarted, Resolving, Registering, Inviting, HangingUp,
                              Expecting, Undoing, Finished
  <1>3. Ends(r, c, v, dismissed, r.failed)
    BY <1>1, <1>2, FailEnds, Zenon
  <1>4. /\ v # Pass /\ v.kind = "fail"
        /\ step = "bye" => ByeFailed(v)
    BY DEF Failing, Pass, ByeFailed
  <1> HIDE DEF v
  <1>5. /\ Had(r, "register") => "binding" \in r.owes \ dismissed
        /\ Had(r, "invite") => "dialog" \in r.owes \ dismissed \/ ByeFailed(v)
    BY <1>1, <1>2, <1>4, UndecidedOwes
  <1>6. r.failed \in BOOLEAN
    BY <1>1, Zenon DEF Run
  <1> HIDE DEF dismissed
  <1>7. FailureGrounds(v, S, A, H)
    BY DEF v
  <1> QED BY <1>1, <1>2, <1>3, <1>4, <1>5, <1>6, <1>7, EndsKeeps, Zenon

LEMMA AbandonKeeps ==
  ASSUME NEW r, NEW S, NEW A, NEW H, EngineInv(r, S, A, H), ~r.finished,
         r.waiting[1] = "cleanup" => "interrupted" \in H,
         NEW fault \in Faults, NEW c, c = Abandon(r, fault)
  PROVE  Keeps(r, c, S, A, H)
  <1> DEFINE v == IF r.decided = None THEN Inconclusive(fault) ELSE r.decided
  <1>1. r \in Run /\ Placed(r, S, A) /\ Grounded(r, S, A, H)
    BY DEF EngineInv
  <1>2. r.waiting[1] = "step" => r.decided = None
    <2>1. Nothing[1] # "step" /\ \A step : Cleaning(step)[1] # "step"
      BY WaitsDiffer
    <2> QED BY <1>1, <2>1 DEF Placed, Unstarted, Resolving, Registering, Inviting, HangingUp,
                              Expecting, Undoing, Finished
  <1>3. Ends(r, c, v, {}, r.failed)
    BY <1>1, <1>2, AbandonEnds, Zenon
  <1>4. /\ r.decided = None => v # Pass /\ v.kind # "fail"
        /\ r.decided # None => v = r.decided
    BY DEF Inconclusive, Pass
  <1>5. r.decided # None => "interrupted" \in H
    <2>1. \A step : Cleaning(step)[1] = "cleanup"
      BY WaitsDiffer
    <2> QED BY <1>1, <2>1 DEF Placed, Unstarted, Resolving, Registering, Inviting, HangingUp,
                              Expecting, Undoing, Finished
  <1> HIDE DEF v
  <1>6. \/ "interrupted" \in H
        \/ /\ Had(r, "register") => "binding" \in r.owes \ {} \/ Agreed(S, A, "UNREGISTER")
           /\ Had(r, "invite") => \/ "dialog" \in r.owes \ {}
                                  \/ Agreed(S, A, "BYE") \/ ByeFailed(v)
    BY <1>1, <1>5, UndecidedOwes
  <1>7. r.failed \in BOOLEAN
    BY <1>1, Zenon DEF Run
  <1> QED BY <1>1, <1>3, <1>4, <1>6, <1>7, EndsKeeps, Zenon

LEMMA UndecidedKeeps ==
  ASSUME NEW r, r.decided = None, NEW c, IsResult(c), c.run \in Run, c.run.decided = None,
         NEW S, NEW A, NEW H, Placed(c.run, S \cup c.sent, A)
  PROVE  Keeps(r, c, S, A, H)
  <1>1. None # Pass
    BY VerdictsAre
  <1>2. Grounded(c.run, S \cup c.sent, A, H)
    BY <1>1 DEF Grounded
  <1>3. Accounted(c.run, S \cup c.sent, A, H)
    <2> DEFINE T == S \cup c.sent
    <2>1. /\ Had(c.run, "register") => "binding" \in c.run.owes
          /\ Had(c.run, "invite") => "dialog" \in c.run.owes
      BY UndecidedOwes
    <2> QED BY <2>1 DEF Accounted, Undone
  <1> QED BY <1>2, <1>3 DEF Keeps, EngineInv

LEMMA StartKeeps ==
  ASSUME NEW r, NEW S, NEW A, NEW H, EngineInv(r, S, A, H), ~r.finished, r.waiting = Nothing,
         NEW c, c = OnStart(r)
  PROVE  Keeps(r, c, S, A, H)
  <1>1. r \in Run /\ Unstarted(r, S)
    <2>1. Nothing # Cleaning("bye") /\ Nothing # Cleaning("register")
          /\ \A step \in Steps : Nothing # Step(step)
      BY WaitsDiffer
    <2>2. {"resolve", "register", "invite", "bye"} \subseteq Steps
      BY DEF Steps, Plan
    <2> QED BY <2>1, <2>2 DEF EngineInv, Placed, Resolving, Registering, Inviting, HangingUp,
                              Expecting, Undoing, Finished
  <1>2. CASE r.usable
    <2> DEFINE b == Begin(r, "resolve")
    <2>1. c = Result(b, {}, {}, {"resolve"})
      BY <1>2 DEF OnStart
    <2>2. "resolve" \in Steps
      BY DEF Steps, Plan
    <2>3. /\ b \in Run /\ b.waiting = Step("resolve") /\ b.steps = r.steps
          /\ b.decided = r.decided /\ b.owes = r.owes /\ b.failed = r.failed
          /\ b.finished = r.finished
      BY <1>1, <2>2, BeginIs
    <2> HIDE DEF b
    <2>4. IsResult(c) /\ c.run = b /\ c.sent = {}
      BY <2>1, ResultIs
    <2>5. Resolving(b, S) /\ S \cup c.sent = S
      BY <1>1, <2>3, <2>4 DEF Resolving, Expecting, Unstarted
    <2> QED BY <1>1, <2>3, <2>4, <2>5, UndecidedKeeps, Zenon DEF Placed, Unstarted
  <1>3. CASE ~r.usable
    <2>1. c = Abandon(r, "misconfigured")
      BY <1>3, Zenon DEF OnStart
    <2>2. "misconfigured" \in Faults
      BY DEF Faults
    <2>3. r.waiting[1] # "cleanup"
      BY WaitsDiffer
    <2> QED BY <2>1, <2>2, <2>3, AbandonKeeps, Zenon
  <1> QED BY <1>2, <1>3

\* The step r waits for is the one its place says.
LEMMA PlaceIs ==
  ASSUME NEW r, NEW S, NEW A, NEW H, EngineInv(r, S, A, H)
  PROVE  /\ r \in Run /\ Grounded(r, S, A, H) /\ Accounted(r, S, A, H)
         /\ r.waiting = Nothing => Unstarted(r, S) \/ Finished(r)
         /\ r.waiting = Step("resolve") => Resolving(r, S)
         /\ r.waiting = Step("register") => Registering(r, S)
         /\ r.waiting = Step("invite") => Inviting(r, S, A)
         /\ r.waiting = Step("bye") => HangingUp(r, S, A)
         /\ r.waiting[1] = "step" => r.decided = None /\ ~r.finished
         /\ r.waiting[1] = "cleanup" => Undoing(r, S)
         /\ \A step : r.waiting = Cleaning(step) => Undoing(r, S)
         /\ ~r.finished /\ r.decided # None => Undoing(r, S)
  <1>1. {"resolve", "register", "invite", "bye"} \subseteq Steps
    BY DEF Steps, Plan
  <1>2. Placed(r, S, A)
    BY DEF EngineInv
  <1>3. r \in Run /\ Grounded(r, S, A, H) /\ Accounted(r, S, A, H)
    BY DEF EngineInv
  <1>4. CASE Unstarted(r, S) \/ Finished(r)
    BY <1>1, <1>3, <1>4, WaitsDiffer DEF Unstarted, Finished
  <1>5. CASE Resolving(r, S)
    BY <1>1, <1>3, <1>5, WaitsDiffer DEF Resolving, Expecting
  <1>6. CASE Registering(r, S)
    BY <1>1, <1>3, <1>6, WaitsDiffer DEF Registering, Expecting
  <1>7. CASE Inviting(r, S, A)
    BY <1>1, <1>3, <1>7, WaitsDiffer DEF Inviting, Expecting
  <1>8. CASE HangingUp(r, S, A)
    BY <1>1, <1>3, <1>8, WaitsDiffer DEF HangingUp, Expecting
  <1>9. CASE Undoing(r, S)
    BY <1>1, <1>3, <1>9, WaitsDiffer DEF Undoing
  <1> QED BY <1>2, <1>4, <1>5, <1>6, <1>7, <1>8, <1>9, Zenon DEF Placed

\* Step number `m` was concluded with success.
Concluded(r, m, s) ==
    /\ s \in Run /\ s.waiting = Nothing /\ s.steps = Prefix(m)
    /\ s.decided = r.decided /\ s.owes = r.owes
    /\ s.failed = r.failed /\ s.finished = r.finished

LEMMA ConcludedPrefix ==
  ASSUME NEW r \in Run, NEW n \in 0..3, r.steps = Prefix(n), r.waiting = Step(Plan[n + 1])
  PROVE  Concluded(r, n + 1, Conclude(r, TRUE))
  <1> DEFINE m == n + 1
             s == Conclude(r, TRUE)
  <1>1. Plan[m] \in Steps
    BY DEF Steps, Plan
  <1>2. s.steps = Append(r.steps, <<Plan[m], TRUE>>)
    BY <1>1, ConcludeIs, Zenon
  <1>3. s.steps = Prefix(m)
    <2> HIDE DEF s
    <2> QED BY <1>2, PrefixIs
  <1>4. TRUE \in BOOLEAN
    OBVIOUS
  <1> HIDE DEF m
  <1>5. Concluded(r, m, s)
    BY <1>3, <1>4, ConcludeIs, Zenon DEF Concluded
  <1> QED BY <1>5 DEF m

LEMMA ResolvedKeeps ==
  ASSUME NEW r, NEW S, NEW A, NEW H, EngineInv(r, S, A, H), r.waiting = Step("resolve"),
         NEW ok \in BOOLEAN, ~ok => "resolve" \in H, NEW c, c = OnResolved(r, ok)
  PROVE  Keeps(r, c, S, A, H)
  <1>1. r \in Run /\ Resolving(r, S)
    BY PlaceIs
  <1>2. CASE ok
    <2> PICK s : s = Conclude(r, TRUE)
      OBVIOUS
    <2>1. c = Clearing({"resolve"}, Attempt(s, "register"))
      BY <1>2, Zenon DEF OnResolved
    <2>2. r.waiting = Step(Plan[0 + 1]) /\ r.steps = Prefix(0) /\ 0 \in 0..3 /\ 0 + 1 = 1
      BY <1>1, PlanIs DEF Resolving, Expecting
    <2>3. Concluded(r, 1, s)
      BY <1>1, <2>2, ConcludedPrefix
    <2>4. PICK b : b = Attempt(s, "register")
      OBVIOUS
    <2>5. Attempts(s, "register", b)
      BY <2>3, <2>4, AskingIs, AttemptIs, Zenon DEF Concluded
    <2>6. /\ IsResult(b) /\ b.run \in Run /\ b.run.waiting = Step("register")
          /\ b.run.steps = s.steps /\ b.run.decided = s.decided /\ b.run.owes = s.owes
          /\ b.run.finished = s.finished /\ Asked(b.sent, b.run, "REGISTER")
      BY <2>5, AskingIs, Zenon DEF Attempts
    <2>7. IsResult(c) /\ c.run = b.run /\ c.sent = b.sent
      <3>1. c = Clearing({"resolve"}, b)
        BY <2>1, <2>4
      <3> QED BY <2>6, <3>1, ClearingIs
    <2>8. Asked(S \cup c.sent, c.run, "REGISTER")
      BY <2>6, <2>7 DEF Asked
    <2>9. Registering(c.run, S \cup c.sent) /\ r.decided = None /\ c.run.decided = None
      BY <1>1, <2>3, <2>6, <2>7, <2>8, Zenon DEF Registering, Expecting, Resolving, Concluded
    <2> QED BY <2>6, <2>7, <2>9, UndecidedKeeps, Zenon DEF Placed
  <1>3. CASE ~ok
    <2>1. c = Fail(r, "resolve", "unresolved")
      BY <1>3, Zenon DEF OnResolved
    <2>2. FailureGrounds(Failing("resolve", "unresolved"), S, A, H)
      BY <1>3 DEF FailureGrounds, Failing
    <2>3. "resolve" \in Steps
      BY DEF Steps, Plan
    <2>4. "unresolved" \in Causes
      BY DEF Causes
    <2> QED BY <2>1, <2>2, <2>3, <2>4, FailKeeps, Zenon
  <1> QED BY <1>2, <1>3

LEMMA RegisteredKeeps ==
  ASSUME NEW r, NEW S, NEW A, NEW H, EngineInv(r, S, A, H), r.waiting = Step("register"),
         Agreed(S, A, "REGISTER"), NEW marker, NEW c, c = Advance(r, "register", marker)
  PROVE  Keeps(r, c, S, A, H)
  <1>s. PICK s : s = Conclude(r, TRUE)
    OBVIOUS
  <1>o. PICK o : o = Owe(s, "binding")
    OBVIOUS
  <1>b. PICK b : b = Attempt(o, "invite")
    OBVIOUS
  <1>1. c = Clearing({"register"}, b)
    BY <1>s, <1>o, <1>b, Zenon DEF Advance
  <1>2. r \in Run /\ Registering(r, S)
    BY PlaceIs
  <1>3. r.waiting = Step(Plan[1 + 1]) /\ r.steps = Prefix(1) /\ 1 \in 0..3 /\ 1 + 1 = 2
    BY <1>2, PlanIs DEF Registering, Expecting
  <1>4. Concluded(r, 2, s)
    BY <1>2, <1>3, <1>s, ConcludedPrefix
  <1>5. "binding" \in Obligations
    BY DEF Obligations
  <1>6. /\ o \in Run /\ o.steps = s.steps /\ o.decided = s.decided
        /\ o.owes = s.owes \cup {"binding"} /\ o.finished = s.finished
    BY <1>4, <1>5, <1>o, OweIs DEF Concluded
  <1>7. Attempts(o, "invite", b)
    BY <1>6, <1>b, AskingIs, AttemptIs, Zenon
  <1>8. /\ IsResult(b) /\ b.run \in Run /\ b.run.waiting = Step("invite")
        /\ b.run.steps = o.steps /\ b.run.decided = o.decided /\ b.run.owes = o.owes
        /\ b.run.finished = o.finished /\ Asked(b.sent, b.run, "INVITE")
    BY <1>7, AskingIs, Zenon DEF Attempts
  <1>9. IsResult(c) /\ c.run = b.run /\ c.sent = b.sent
    BY <1>1, <1>8, ClearingIs, ZenonT(40)
  <1>10. Asked(S \cup c.sent, c.run, "INVITE") /\ Agreed(S \cup c.sent, A, "REGISTER")
    BY <1>8, <1>9, MoreRequests DEF Asked
  <1>11. c.run.owes = {"binding"}
    BY <1>2, <1>4, <1>6, <1>8, <1>9 DEF Registering, Expecting, Concluded
  <1>12. Inviting(c.run, S \cup c.sent, A) /\ r.decided = None /\ c.run.decided = None
    BY <1>2, <1>4, <1>6, <1>8, <1>9, <1>10, <1>11, Zenon
    DEF Inviting, Registering, Expecting, Concluded
  <1> QED BY <1>8, <1>9, <1>12, UndecidedKeeps, Zenon DEF Placed

LEMMA MisroutedKeeps ==
  ASSUME NEW r, NEW S, NEW A, NEW H, EngineInv(r, S, A, H), r.waiting = Step("invite"),
         NEW a \in Replies(S, A, "INVITE"), a.status = "ok", a.marker # Mine,
         NEW c, c = Advance(r, "invite", a.marker)
  PROVE  Keeps(r, c, S, A, H)
  <1>s. PICK s : s = Conclude(r, TRUE)
    OBVIOUS
  <1>o. PICK o : o = Owe(s, "dialog")
    OBVIOUS
  <1> DEFINE v == Failing("invite", "mismatch")
  <1>1. c = Fail(o, "invite", "mismatch")
    <2>1. "invite" # "register" /\ "invite" # "bye"
      OBVIOUS
    <2> QED BY <2>1, <1>s, <1>o, Zenon DEF Advance
  <1>2. r \in Run /\ Inviting(r, S, A)
    BY PlaceIs
  <1>3. r.waiting = Step(Plan[2 + 1]) /\ r.steps = Prefix(2) /\ 2 \in 0..3 /\ 2 + 1 = 3
    BY <1>2, PlanIs DEF Inviting, Expecting
  <1>4. Concluded(r, 3, s)
    BY <1>2, <1>3, <1>s, ConcludedPrefix
  <1>5. "dialog" \in Obligations
    BY DEF Obligations
  <1>6. /\ o \in Run /\ o.decided = s.decided /\ o.waiting = s.waiting
        /\ o.owes = s.owes \cup {"dialog"} /\ o.finished = s.finished
    BY <1>4, <1>5, <1>o, OweIs DEF Concluded
  <1>7. o.decided = None /\ r.decided = None /\ ~o.finished /\ o.waiting = Nothing
        /\ r.owes = {"binding"}
    BY <1>2, <1>4, <1>6 DEF Inviting, Expecting, Concluded
  <1>8. "binding" \in o.owes /\ "dialog" \in o.owes
    BY <1>4, <1>6, <1>7 DEF Concluded
  <1>9. "invite" \in Steps /\ "mismatch" \in Causes
    BY DEF Steps, Plan, Causes
  <1>10. (IF "invite" = "bye" THEN {"dialog"} ELSE {}) = {}
    OBVIOUS
  <1>11. Ends(o, c, v, {}, o.failed)
    <2>1. Ends(o, c, v, IF "invite" = "bye" THEN {"dialog"} ELSE {}, o.failed)
      BY <1>1, <1>6, <1>7, <1>9, FailEnds
    <2> QED BY <1>10, <2>1
  <1>12. v # Pass /\ FailureGrounds(v, S, A, H)
    BY DEF Failing, Pass, FailureGrounds
  <1>13. o.failed \in BOOLEAN
    BY <1>6, Zenon DEF Run
  <1> HIDE DEF v
  <1>dismissed. PICK dismissed : dismissed = {}
    OBVIOUS
  <1>14. /\ "binding" \in o.owes \ dismissed /\ "dialog" \in o.owes \ dismissed
         /\ Ends(o, c, v, dismissed, o.failed)
    BY <1>8, <1>11, <1>dismissed
  <1> PICK failed \in BOOLEAN : failed = o.failed
    BY <1>13
  <1>15. Keeps(o, c, S, A, H)
    BY <1>6, <1>7, <1>12, <1>14, EndsKeeps, ZenonT(40)
  <1> QED BY <1>7, <1>15, Zenon DEF Keeps

LEMMA ReachedKeeps ==
  ASSUME NEW r, NEW S, NEW A, NEW H, EngineInv(r, S, A, H), r.waiting = Step("invite"),
         EchoHeard(S, A), NEW c, c = Advance(r, "invite", Mine)
  PROVE  Keeps(r, c, S, A, H)
  <1>s. PICK s : s = Conclude(r, TRUE)
    OBVIOUS
  <1>o. PICK o : o = Owe(s, "dialog")
    OBVIOUS
  <1>n. PICK n : n = Numbered(o, "ACK")
    OBVIOUS
  <1>b. PICK b : b = Attempt(n, "bye")
    OBVIOUS
  <1>more. PICK more : more = [b EXCEPT !.sent = @ \cup {Request(s, "ACK")}]
    OBVIOUS
  <1>1. c = Clearing({"invite"}, more)
    <2>1. "invite" # "register" /\ "invite" # "bye"
      OBVIOUS
    <2> QED BY <2>1, <1>s, <1>o, <1>n, <1>b, <1>more, Zenon DEF Advance
  <1>2. r \in Run /\ Inviting(r, S, A)
    BY PlaceIs
  <1>3. r.waiting = Step(Plan[2 + 1]) /\ r.steps = Prefix(2) /\ 2 \in 0..3 /\ 2 + 1 = 3
    BY <1>2, PlanIs DEF Inviting, Expecting
  <1>4. Concluded(r, 3, s)
    BY <1>2, <1>3, <1>s, ConcludedPrefix
  <1>5. "dialog" \in Obligations
    BY DEF Obligations
  <1>6. /\ o \in Run /\ o.decided = s.decided /\ o.steps = s.steps
        /\ o.owes = s.owes \cup {"dialog"} /\ o.finished = s.finished
    BY <1>4, <1>5, <1>o, OweIs DEF Concluded
  <1>7. /\ n \in Run /\ n.decided = o.decided /\ n.steps = o.steps
        /\ n.owes = o.owes /\ n.finished = o.finished
    BY <1>6, <1>n, NumberedIs
  <1>8. Attempts(n, "bye", b)
    BY <1>7, <1>b, AskingIs, AttemptIs, Zenon
  <1>9. /\ IsResult(b) /\ b.run \in Run /\ b.run.waiting = Step("bye")
        /\ b.run.steps = n.steps /\ b.run.decided = n.decided /\ b.run.owes = n.owes
        /\ b.run.finished = n.finished /\ Asked(b.sent, b.run, "BYE")
    BY <1>8, AskingIs, Zenon DEF Attempts
  <1>10. IsResult(more) /\ more.run = b.run /\ b.sent \subseteq more.sent
    BY <1>9, <1>more DEF IsResult
  <1>11. IsResult(c) /\ c.run = b.run /\ b.sent \subseteq c.sent
    <2>1. IsResult(more)
      BY <1>10
    <2>2. IsResult(c) /\ c.run = more.run /\ c.sent = more.sent
      BY <1>1, <2>1, SMT DEF Clearing, IsResult
    <2> QED BY <1>10, <2>2
  <1>12. Asked(S \cup c.sent, c.run, "BYE")
    BY <1>9, <1>11 DEF Asked
  <1>13. Agreed(S \cup c.sent, A, "REGISTER") /\ EchoHeard(S \cup c.sent, A)
    BY <1>2, MoreRequests, Zenon DEF Inviting
  <1>14. c.run.owes = Obligations
    BY <1>2, <1>4, <1>6, <1>7, <1>9, <1>11 DEF Inviting, Expecting, Concluded, Obligations
  <1>15. HangingUp(c.run, S \cup c.sent, A) /\ r.decided = None /\ c.run.decided = None
    BY <1>2, <1>4, <1>6, <1>7, <1>9, <1>11, <1>12, <1>13, <1>14, Zenon
    DEF HangingUp, Inviting, Expecting, Concluded
  <1> QED BY <1>9, <1>11, <1>15, UndecidedKeeps, Zenon DEF Placed

LEMMA HungUpKeeps ==
  ASSUME NEW r, NEW S, NEW A, NEW H, EngineInv(r, S, A, H), r.waiting = Step("bye"),
         Agreed(S, A, "BYE"), NEW marker, NEW c, c = Advance(r, "bye", marker)
  PROVE  Keeps(r, c, S, A, H)
  <1>s. PICK s : s = Conclude(r, TRUE)
    OBVIOUS
  <1>f. PICK f : f = Forget(s, "dialog")
    OBVIOUS
  <1>d. PICK d : d = Decide(f, Pass)
    OBVIOUS
  <1>1. c = Cleanup(d)
    <2>1. "bye" # "register"
      OBVIOUS
    <2> QED BY <2>1, <1>s, <1>f, <1>d, Zenon DEF Advance
  <1>2. r \in Run /\ HangingUp(r, S, A)
    BY PlaceIs
  <1>3. r.waiting = Step(Plan[3 + 1]) /\ r.steps = Prefix(3) /\ 3 \in 0..3 /\ 3 + 1 = 4
    BY <1>2, PlanIs DEF HangingUp, Expecting
  <1>4. Concluded(r, 4, s)
    BY <1>2, <1>3, <1>s, ConcludedPrefix
  <1>5. /\ f \in Run /\ f.decided = s.decided /\ f.steps = s.steps
        /\ f.owes = s.owes \ {"dialog"} /\ f.finished = s.finished
    BY <1>4, <1>f, ForgetIs, Zenon DEF Concluded
  <1>6. r.decided = None /\ f.decided = None /\ ~f.finished /\ f.steps = Prefix(4)
        /\ r.owes = Obligations /\ f.owes = {"binding"}
    BY <1>2, <1>4, <1>5 DEF HangingUp, Expecting, Concluded, Obligations
  <1>7. Pass \in Verdicts /\ Pass # None /\ Pass.kind # "fail"
    BY VerdictsAre DEF Pass
  <1>8. /\ d \in Run /\ d.decided = Pass /\ d.steps = Prefix(4) /\ d.owes = {"binding"}
        /\ ~d.finished
    BY <1>5, <1>6, <1>7, <1>d, DecideIs
  <1>9. Settles(d, c)
    BY <1>1, <1>7, <1>8, CleanupSettles, Zenon
  <1> DEFINE T == S \cup c.sent
  <1>10. Agreed(T, A, "BYE") /\ Agreed(T, A, "REGISTER") /\ EchoHeard(T, A)
    BY <1>2, MoreRequests, Zenon DEF HangingUp
  <1>11. Grounded(d, T, A, H)
    <2> HIDE DEF T
    <2> QED BY <1>7, <1>8, <1>10 DEF Grounded
  <1>12. Undone(d, "binding" \in d.owes, "dialog" \in d.owes, T, A, H)
    <2> HIDE DEF T
    <2> QED BY <1>8, <1>10 DEF Undone
  <1>13. EngineInv(c.run, T, A, H)
    <2>1. \A q \in c.sent : q \in T
      OBVIOUS
    <2> HIDE DEF T
    <2> QED BY <1>7, <1>8, <1>9, <1>11, <1>12, <2>1, SettledKeeps
  <1> QED BY <1>6, <1>9, <1>13, Zenon DEF Keeps, Settles

LEMMA IgnoreKeeps ==
  ASSUME NEW r, NEW S, NEW A, NEW H, EngineInv(r, S, A, H), NEW c, c = Ignore(r)
  PROVE  Keeps(r, c, S, A, H)
  <1>1. IsResult(c) /\ c.run = r /\ c.sent = {}
    BY IgnoreIs
  <1>2. S \cup c.sent = S
    BY <1>1
  <1> QED BY <1>1, <1>2 DEF Keeps

\* A challenge is answered: the step goes on, its request is the new one.
LEMMA RetryKeeps ==
  ASSUME NEW r, NEW S, NEW A, NEW H, EngineInv(r, S, A, H), NEW step \in Asking,
         r.waiting = Step(step), NEW c, c = RetryChallenged(r, step)
  PROVE  Keeps(r, c, S, A, H)
  <1> DEFINE m == MethodOf(step)
             n == Numbered(r, m)
             w == [n EXCEPT !.answered = TRUE]
  <1>1. r \in Run /\ r.decided = None
    <2>1. step \in Steps
      BY DEF Asking, Steps, Plan
    <2>2. r.waiting[1] = "step"
      BY <2>1, WaitsDiffer
    <2> QED BY <2>2, PlaceIs
  <1>2. m # "ACK"
    BY DEF MethodOf, Asking
  <1>3. c = Result(w, {Request(r, m)}, {}, {})
    <2>1. step # "resolve"
      BY DEF Asking
    <2> QED BY <2>1, Zenon DEF RetryChallenged
  <1> HIDE DEF m
  <1>4. /\ n \in Run /\ n.waiting = r.waiting /\ n.steps = r.steps /\ n.decided = r.decided
        /\ n.owes = r.owes /\ n.finished = r.finished
    BY <1>1, NumberedIs
  <1>5. Asked({Request(r, m)}, n, m)
    BY <1>1, <1>2, RequestIs
  <1> HIDE DEF n
  <1>6. /\ w \in Run /\ w.waiting = n.waiting /\ w.steps = n.steps /\ w.decided = n.decided
        /\ w.owes = n.owes /\ w.finished = n.finished /\ w.expects = n.expects
    BY <1>4, Zenon DEF Run
  <1> HIDE DEF w
  <1>7. IsResult(c) /\ c.run = w /\ c.sent = {Request(r, m)}
    BY <1>3, ResultIs
  <1>8. /\ c.run \in Run /\ c.run.waiting = Step(step) /\ c.run.steps = r.steps
        /\ c.run.decided = r.decided /\ c.run.owes = r.owes /\ c.run.finished = r.finished
    BY <1>4, <1>6, <1>7
  <1> DEFINE T == S \cup c.sent
  <1>9. Asked(T, c.run, m)
    BY <1>5, <1>6, <1>7 DEF Asked
  <1>10. /\ \A method : Agreed(S, A, method) => Agreed(T, A, method)
         /\ EchoHeard(S, A) => EchoHeard(T, A)
    BY MoreRequests, Zenon
  <1> HIDE DEF T
  <1>11. Placed(c.run, T, A)
    <2>1. CASE step = "register"
      <3>1. Registering(r, S) /\ m = "REGISTER"
        BY <2>1, PlaceIs, AskingIs DEF m
      <3>2. Registering(c.run, T)
        BY <1>8, <1>9, <2>1, <3>1, Zenon DEF Registering, Expecting
      <3> QED BY <3>2 DEF Placed
    <2>2. CASE step = "invite"
      <3>1. Inviting(r, S, A) /\ m = "INVITE"
        BY <2>2, PlaceIs, AskingIs DEF m
      <3>2. Inviting(c.run, T, A)
        BY <1>8, <1>9, <1>10, <2>2, <3>1, Zenon DEF Inviting, Expecting
      <3> QED BY <3>2 DEF Placed
    <2>3. CASE step = "bye"
      <3>1. HangingUp(r, S, A) /\ m = "BYE"
        BY <2>3, PlaceIs, AskingIs DEF m
      <3>2. HangingUp(c.run, T, A)
        BY <1>8, <1>9, <1>10, <2>3, <3>1, Zenon DEF HangingUp, Expecting
      <3> QED BY <3>2 DEF Placed
    <2> QED BY <2>1, <2>2, <2>3 DEF Asking
  <1> QED BY <1>1, <1>7, <1>8, <1>11, UndecidedKeeps, Zenon DEF T

LEMMA StepResponseKeeps ==
  ASSUME NEW r, NEW S, NEW A, NEW H, EngineInv(r, S, A, H), NEW step \in Asking,
         r.waiting = Step(step), NEW a \in Replies(S, A, MethodOf(step)),
         a.status \in Refusals \cup {"ok"}, NEW c, c = OnStepResponse(r, step, a)
  PROVE  Keeps(r, c, S, A, H)
  <1>1. step \in Steps /\ r.waiting[1] = "step"
    <2>1. step \in Steps
      BY DEF Asking, Steps, Plan
    <2> QED BY <2>1, WaitsDiffer
  <1>2. ~r.finished
    BY <1>1, PlaceIs
  <1>3. CASE a.status = "ok"
    <2>1. c = Advance(r, step, a.marker)
      BY <1>3, Zenon DEF OnStepResponse
    <2>2. Agreed(S, A, MethodOf(step))
      BY <1>3 DEF Agreed
    <2>3. CASE step = "register"
      <3>1. Agreed(S, A, "REGISTER")
        BY <2>2, <2>3, AskingIs
      <3> QED BY <2>1, <2>3, <3>1, RegisteredKeeps, Zenon
    <2>4. CASE step = "invite" /\ a.marker # Mine
      <3>1. a \in Replies(S, A, "INVITE")
        BY <2>4, AskingIs
      <3> QED BY <1>3, <2>1, <2>4, <3>1, MisroutedKeeps, Zenon
    <2>5. CASE step = "invite" /\ a.marker = Mine
      <3>1. EchoHeard(S, A)
        BY <1>3, <2>5, AskingIs DEF EchoHeard
      <3> QED BY <2>1, <2>5, <3>1, ReachedKeeps, Zenon
    <2>6. CASE step = "bye"
      <3>1. Agreed(S, A, "BYE")
        BY <2>2, <2>6, AskingIs
      <3> QED BY <2>1, <2>6, <3>1, HungUpKeeps, Zenon
    <2> QED BY <2>3, <2>4, <2>5, <2>6 DEF Asking
  <1>4. CASE a.status # "ok" /\ a.status # "challenge"
    <2>1. c = Fail(r, step, a.status)
      BY <1>4, Zenon DEF OnStepResponse
    <2>2. a.status \in {"shed", "rejected"}
      BY <1>4 DEF Refusals
    <2>3. a.status \in Causes
      BY <2>2 DEF Causes
    <2>4. FailureGrounds(Failing(step, a.status), S, A, H)
      <3>1. Failing(step, a.status).cause = a.status /\ Failing(step, a.status).step = step
        BY DEF Failing
      <3>2. a.status \in {"rejected", "shed"} /\ a.status \in Refusals
        BY <2>2 DEF Refusals
      <3> QED BY <3>1, <3>2, Zenon DEF FailureGrounds
    <2> QED BY <1>1, <2>1, <2>3, <2>4, FailKeeps, Zenon
  <1>5. CASE a.status = "challenge" /\ ~r.credentials
    <2>1. c = Abandon(r, "no credentials")
      <3>1. "challenge" # "ok"
        OBVIOUS
      <3> QED BY <1>5, <3>1, Zenon DEF OnStepResponse
    <2>2. r.waiting[1] # "cleanup" /\ "no credentials" \in Faults
      BY <1>1 DEF Faults
    <2> QED BY <1>2, <2>1, <2>2, AbandonKeeps, Zenon
  <1>6. CASE a.status = "challenge" /\ r.credentials /\ r.answered
    <2>1. c = Fail(r, step, "rejected")
      <3>1. "challenge" # "ok"
        OBVIOUS
      <3> QED BY <1>6, <3>1, Zenon DEF OnStepResponse
    <2>2. "rejected" \in Causes
      BY DEF Causes
    <2>3. FailureGrounds(Failing(step, "rejected"), S, A, H)
      <3>1. /\ Failing(step, "rejected").cause \in {"rejected", "shed"}
            /\ Failing(step, "rejected").step = step
        BY DEF Failing
      <3>2. a.status \in Refusals
        BY <1>6 DEF Refusals
      <3> QED BY <3>1, <3>2, Zenon DEF FailureGrounds
    <2> QED BY <1>1, <2>1, <2>2, <2>3, FailKeeps, Zenon
  <1>7. CASE a.status = "challenge" /\ r.credentials /\ ~r.answered
    <2>1. c = RetryChallenged(r, step)
      <3>1. "challenge" # "ok"
        OBVIOUS
      <3> QED BY <1>7, <3>1, Zenon DEF OnStepResponse
    <2> QED BY <2>1, RetryKeeps, Zenon
  <1> QED BY <1>3, <1>4, <1>5, <1>6, <1>7

\* What was undone is undone, or the run says that its cleanup failed.
LEMMA CleanupDoneKeeps ==
  ASSUME NEW r, NEW S, NEW A, NEW H, EngineInv(r, S, A, H), r.waiting[1] = "cleanup",
         NEW ok \in BOOLEAN, NEW step,
         ok /\ r.waiting = Cleaning("bye") => Agreed(S, A, "BYE"),
         ok /\ r.waiting = Cleaning("register") => Agreed(S, A, "UNREGISTER"),
         NEW c, c = AfterCleanup(NoteCleanup(r, ok), step)
  PROVE  Keeps(r, c, S, A, H)
  <1>1. /\ r \in Run /\ r.decided # None /\ ~r.finished /\ Grounded(r, S, A, H)
        /\ Accounted(r, S, A, H)
    BY PlaceIs DEF Undoing
  <1>2. PICK failed \in BOOLEAN : /\ failed <=> (r.failed \/ ~ok)
                                  /\ Ends(r, c, r.decided, {}, failed)
    BY <1>1, AfterCleanupEnds, Zenon
  <1> PICK verdict : verdict = r.decided
    OBVIOUS
  <1>dismissed. PICK dismissed : dismissed = {}
    OBVIOUS
  <1>3. Ends(r, c, verdict, dismissed, failed) /\ \A x : x \in r.owes => x \in r.owes \ dismissed
    BY <1>2, <1>dismissed
  <1>4. \/ failed
        \/ "interrupted" \in H
        \/ /\ Had(r, "register") => "binding" \in r.owes \/ Agreed(S, A, "UNREGISTER")
           /\ Had(r, "invite") => \/ "dialog" \in r.owes
                                  \/ Agreed(S, A, "BYE") \/ ByeFailed(verdict)
    BY <1>1, <1>2 DEF Accounted, Undone
  <1> QED BY <1>1, <1>3, <1>4, EndsKeeps, Zenon

LEMMA ResponseKeeps ==
  ASSUME NEW r, NEW S, NEW A, NEW H, EngineInv(r, S, A, H),
         NEW a \in A, \E q \in S : q.cseq = a.cseq, a.status \in Refusals \cup {"ok", "trying"},
         NEW c, c = OnResponse(r, a)
  PROVE  Keeps(r, c, S, A, H)
  <1>1. r \in Run /\ r.waiting \in Waits
    BY Zenon DEF EngineInv, Run
  <1>2. CASE Unrelated(r, a) \/ r.waiting = Nothing
    <2>1. c = Ignore(r)
      BY <1>2, Zenon DEF OnResponse
    <2> QED BY <2>1, IgnoreKeeps, Zenon
  <1>3. ~Unrelated(r, a) => /\ a.status \in Refusals \cup {"ok"}
                            /\ \A m : Asked(S, r, m) => a \in Replies(S, A, m)
    BY DEF Unrelated, Asked, Replies
  <1>4. CASE ~Unrelated(r, a) /\ r.waiting[1] = "step"
    <2>1. PICK step \in Steps : r.waiting = Step(step)
      BY <1>1, <1>4, WaitsDiffer DEF Waits
    <2>2. c = OnStepResponse(r, step, a)
      BY <1>4, <2>1, WaitsDiffer, Zenon DEF OnResponse
    <2>3. step # "resolve"
      BY <2>1, PlaceIs DEF Resolving
    <2>4. step \in Asking
      BY <2>3 DEF Asking, Steps, Plan
    <2>5. Asked(S, r, MethodOf(step))
      BY <2>1, <2>4, PlaceIs, AskingIs DEF Registering, Inviting, HangingUp, Asking
    <2> QED BY <1>3, <1>4, <2>1, <2>2, <2>4, <2>5, StepResponseKeeps, Zenon
  <1>5. CASE ~Unrelated(r, a) /\ r.waiting[1] = "cleanup"
    <2> DEFINE ok == a.status = "ok"
    <2>1. c = AfterCleanup(NoteCleanup(r, ok), r.waiting[2])
      <3>1. r.waiting # Nothing /\ r.waiting[1] # "step"
        BY <1>5, WaitsDiffer
      <3> QED BY <1>5, <3>1, Zenon DEF OnResponse
    <2>2. /\ ok /\ r.waiting = Cleaning("bye") => Agreed(S, A, "BYE")
          /\ ok /\ r.waiting = Cleaning("register") => Agreed(S, A, "UNREGISTER")
      <3>1. Undoing(r, S)
        BY <1>5, PlaceIs
      <3>2. Cleaning("bye") # Cleaning("register")
        BY DEF Cleaning
      <3> QED BY <1>3, <1>5, <3>1, <3>2 DEF Undoing, Agreed
    <2>3. ok \in BOOLEAN
      OBVIOUS
    <2> HIDE DEF ok
    <2> QED BY <1>5, <2>1, <2>2, <2>3, CleanupDoneKeeps, Zenon
  <1>6. r.waiting = Nothing \/ r.waiting[1] = "step" \/ r.waiting[1] = "cleanup"
    BY <1>1, WaitsDiffer DEF Waits
  <1> QED BY <1>2, <1>4, <1>5, <1>6

LEMMA TimeoutKeeps ==
  ASSUME NEW r, NEW S, NEW A, NEW H, EngineInv(r, S, A, H), NEW step \in Steps,
         r.waiting = Step(step) => step \in H, NEW c, c = OnTimeout(r, step)
  PROVE  Keeps(r, c, S, A, H)
  <1>1. CASE r.waiting = Step(step)
    <2>1. c = Fail(r, step, "timeout")
      BY <1>1, Zenon DEF OnTimeout
    <2>2. "timeout" \in Causes
      BY DEF Causes
    <2>3. FailureGrounds(Failing(step, "timeout"), S, A, H)
      BY <1>1 DEF FailureGrounds, Failing
    <2> QED BY <1>1, <2>1, <2>2, <2>3, FailKeeps, Zenon
  <1>2. CASE r.waiting = Cleaning(step)
    <2>1. r.waiting # Step(step) /\ r.waiting[1] = "cleanup"
      BY <1>2, WaitsDiffer
    <2>2. c = AfterCleanup(NoteCleanup(r, FALSE), step)
      BY <1>2, <2>1, Zenon DEF OnTimeout
    <2>3. FALSE \in BOOLEAN
      OBVIOUS
    <2> QED BY <2>1, <2>2, <2>3, CleanupDoneKeeps, Zenon
  <1>3. CASE r.waiting # Step(step) /\ r.waiting # Cleaning(step)
    <2>1. c = Ignore(r)
      BY <1>3, Zenon DEF OnTimeout
    <2> QED BY <2>1, IgnoreKeeps, Zenon
  <1> QED BY <1>1, <1>2, <1>3

LEMMA TransportErrorKeeps ==
  ASSUME NEW r, NEW S, NEW A, NEW H, EngineInv(r, S, A, H),
         r.waiting[1] = "step" => r.waiting[2] \in H, NEW c, c = OnTransportError(r)
  PROVE  Keeps(r, c, S, A, H)
  <1>1. CASE r.waiting[1] = "step"
    <2>1. PICK step \in Steps : r.waiting = Step(step)
      <3>1. r.waiting \in Waits
        BY Zenon DEF EngineInv, Run
      <3> QED BY <1>1, <3>1, WaitsDiffer DEF Waits
    <2>2. r.waiting[2] = step
      BY <2>1, WaitsDiffer
    <2>3. c = Fail(r, step, "unreachable")
      BY <1>1, <2>2, Zenon DEF OnTransportError
    <2>4. "unreachable" \in Causes
      BY DEF Causes
    <2>5. FailureGrounds(Failing(step, "unreachable"), S, A, H)
      BY <1>1, <2>2 DEF FailureGrounds, Failing
    <2> QED BY <2>1, <2>3, <2>4, <2>5, FailKeeps, Zenon
  <1>2. CASE r.waiting[1] = "cleanup"
    <2>1. c = AfterCleanup(NoteCleanup(r, FALSE), r.waiting[2])
      <3>1. "cleanup" # "step"
        OBVIOUS
      <3> QED BY <1>2, <3>1, Zenon DEF OnTransportError
    <2>2. FALSE \in BOOLEAN
      OBVIOUS
    <2> QED BY <1>2, <2>1, <2>2, CleanupDoneKeeps, Zenon
  <1>3. CASE r.waiting[1] # "step" /\ r.waiting[1] # "cleanup"
    <2>1. c = Ignore(r)
      BY <1>3, Zenon DEF OnTransportError
    <2> QED BY <2>1, IgnoreKeeps, Zenon
  <1> QED BY <1>1, <1>2, <1>3

\* What the platform did and what the engine was told is never taken back.
LEMMA MoreFacts ==
  ASSUME NEW r, NEW S, NEW A, NEW H, EngineInv(r, S, A, H), NEW B, NEW G,
         \A a \in A : a \in B, \A h \in H : h \in G
  PROVE  EngineInv(r, S, B, G)
  <1>1. \A method : Replies(S, A, method) \subseteq Replies(S, B, method)
    BY DEF Replies
  <1>2. /\ \A method : Agreed(S, A, method) => Agreed(S, B, method)
        /\ EchoHeard(S, A) => EchoHeard(S, B)
    BY <1>1 DEF Agreed, EchoHeard
  <1>3. \A v : FailureGrounds(v, S, A, H) => FailureGrounds(v, S, B, G)
    BY <1>1 DEF FailureGrounds
  <1>4. Grounded(r, S, B, G)
    BY <1>2, <1>3, Zenon DEF EngineInv, Grounded
  <1>5. Accounted(r, S, B, G)
    BY <1>2, Zenon DEF EngineInv, Accounted, Undone
  <1>6. Placed(r, S, B)
    BY <1>2, Zenon DEF EngineInv, Placed, Inviting, HangingUp
  <1> QED BY <1>4, <1>5, <1>6, Zenon DEF EngineInv

-----------------------------------------------------------------------------
(* The run *)

\* A step of the engine on some input.
Kept ==
    \E c : /\ run' = c.run /\ sent' = sent \cup c.sent /\ answers' = answers
           /\ ~run.finished /\ Keeps(run, c, sent, answers, happened')

LEMMA PerformKeeps ==
  ASSUME NEW c, Perform(c), answers' = answers, ~run.finished,
         Keeps(run, c, sent, answers, happened')
  PROVE  Kept
  BY Zenon DEF Kept, Perform

LEMMA KeptIs ==
  ASSUME RunInv, Kept
  PROVE  RunInv' /\ Contract!Next
  <1>1. PICK c : /\ run' = c.run /\ sent' = sent \cup c.sent /\ answers' = answers
                 /\ ~run.finished /\ Keeps(run, c, sent, answers, happened')
    BY Zenon DEF Kept
  <1>2. EngineInv(run', sent', answers', happened')
    BY <1>1, Zenon DEF Keeps
  <1>3. AnswersInv'
    BY <1>1 DEF RunInv, AnswersInv
  <1>4. run.decided # None => run'.decided = run.decided /\ run'.owes \subseteq run.owes
    BY <1>1, Zenon DEF Keeps
  <1>5. run'.finished => run'.owes = {} /\ run'.decided # None
    <2>1. Placed(run', sent', answers')
      BY <1>2, Zenon DEF EngineInv
    <2> QED BY <2>1 DEF Placed, Unstarted, Resolving, Registering, Inviting, HangingUp, Expecting,
                        Undoing, Finished
  <1>6. Contract!Next
    BY <1>1, <1>4, <1>5 DEF Contract!Next, Contract!Conduct, Contract!CleanUp
  <1> QED BY <1>2, <1>3, <1>6, Zenon DEF RunInv

LEMMA RunInit ==
  ASSUME InitProbe
  PROVE  RunInv /\ Contract!Init
  <1>1. PICK usable \in BOOLEAN, credentials \in BOOLEAN : run = Fresh(usable, credentials)
    BY DEF InitProbe
  <1>2. /\ run.waiting = Nothing /\ run.steps = <<>> /\ run.decided = None /\ run.owes = {}
        /\ run.failed = FALSE /\ run.finished = FALSE
    BY <1>1 DEF Fresh
  <1>3. run \in Run
    <2>1. <<>> \in Seq(Steps \X BOOLEAN) /\ Nothing \in Waits /\ 0 \in Nat
      <3>1. Nothing \in Waits /\ 0 \in Nat
        BY DEF Waits
      <3> DEFINE T == Steps \X BOOLEAN
      <3> HIDE DEF T
      <3>2. <<>> \in Seq(T)
        OBVIOUS
      <3> QED BY <3>1, <3>2 DEF T
    <2> HIDE DEF Nothing
    <2> QED BY <1>1, <2>1, Zenon DEF Run, Fresh
  <1>4. sent = {} /\ answers = {} /\ happened = {}
    BY DEF InitProbe
  <1>5. Unstarted(run, sent)
    BY <1>2, <1>4, PrefixIs DEF Unstarted
  <1>6. Grounded(run, sent, answers, happened)
    BY <1>2, VerdictsAre DEF Grounded
  <1>7. Accounted(run, sent, answers, happened)
    <2>1. ~Had(run, "register") /\ ~Had(run, "invite")
      BY <1>2 DEF Had
    <2> QED BY <2>1 DEF Accounted, Undone
  <1>8. EngineInv(run, sent, answers, happened)
    BY <1>3, <1>5, <1>6, <1>7, Zenon DEF EngineInv, Placed
  <1>9. AnswersInv
    BY <1>4 DEF AnswersInv
  <1> QED BY <1>2, <1>8, <1>9 DEF RunInv, Contract!Init

LEMMA RunNext ==
  ASSUME RunInv, NextProbe
  PROVE  RunInv' /\ (Contract!Next \/ UNCHANGED Contract!vars)
  <1>1. EngineInv(run, sent, answers, happened) /\ AnswersInv
    BY DEF RunInv
  <1>2. \A G : (\A h \in happened : h \in G) => EngineInv(run, sent, answers, G)
    <2> TAKE G
    <2> HAVE \A h \in happened : h \in G
    <2>1. \A a \in answers : a \in answers
      OBVIOUS
    <2> QED BY <1>1, <2>1, MoreFacts, Zenon
  <1>3. \A fact : Told(fact) => fact \in happened' /\ EngineInv(run, sent, answers, happened')
    BY <1>2 DEF Told
  <1>4. happened' = happened => EngineInv(run, sent, answers, happened')
    BY <1>1
  <1>5. CASE Start
    <2>1. Keeps(run, OnStart(run), sent, answers, happened')
      BY <1>4, <1>5, StartKeeps DEF Start, Started
    <2>2. Kept
      BY <1>5, <2>1, PerformKeeps, Zenon DEF Start, Started
    <2> QED BY <2>2, KeptIs, Zenon
  <1>6. ASSUME NEW ok \in BOOLEAN, Resolved(ok)
        PROVE  RunInv' /\ Contract!Next
    <2>1. EngineInv(run, sent, answers, happened') /\ (~ok => "resolve" \in happened')
      <3>1. CASE ok
        BY <1>4, <1>6, <3>1 DEF Resolved
      <3>2. CASE ~ok
        BY <1>3, <1>6, <3>2 DEF Resolved
      <3> QED BY <3>1, <3>2
    <2>2. Keeps(run, OnResolved(run, ok), sent, answers, happened')
      BY <1>6, <2>1, ResolvedKeeps, Zenon DEF Resolved
    <2>3. ~run.finished
      BY <1>1, <1>6, PlaceIs DEF Resolved, Resolving, Expecting
    <2>4. Kept
      BY <1>6, <2>2, <2>3, Zenon DEF Resolved, Perform, Kept
    <2> QED BY <2>4, KeptIs, Zenon
  <1>7. CASE Receive
    <2>1. PICK a \in answers : /\ Running /\ Perform(OnResponse(run, a))
                               /\ UNCHANGED <<answers, happened>>
      BY <1>7, Zenon DEF Receive
    <2>2. (\E q \in sent : q.cseq = a.cseq) /\ a.status \in Refusals \cup {"ok", "trying"}
      BY <1>1 DEF AnswersInv
    <2>3. Keeps(run, OnResponse(run, a), sent, answers, happened')
      <3>1. EngineInv(run, sent, answers, happened')
        BY <1>4, <2>1
      <3> QED BY <2>2, <3>1, ResponseKeeps, Zenon
    <2>4. ~run.finished /\ answers' = answers /\ Perform(OnResponse(run, a))
      BY <2>1 DEF Running
    <2>5. Kept
      BY <2>3, <2>4, PerformKeeps, Zenon
    <2> QED BY <2>5, KeptIs, Zenon
  <1>8. ASSUME NEW step \in Steps, TimerFires(step)
        PROVE  RunInv' /\ Contract!Next
    <2> DEFINE c == OnTimeout(run, step)
               e == [c EXCEPT !.cleared = @ \cup {step}]
    <2>1. EngineInv(run, sent, answers, happened')
          /\ (run.waiting = Step(step) => step \in happened')
      <3>1. CASE run.waiting = Step(step)
        BY <1>3, <1>8, <3>1, Zenon DEF TimerFires
      <3>2. CASE run.waiting # Step(step)
        BY <1>4, <1>8, <3>2 DEF TimerFires
      <3> QED BY <3>1, <3>2
    <2>2. Perform(e) /\ ~run.finished /\ answers' = answers
      BY <1>8, Zenon DEF TimerFires, Running
    <2>3. Keeps(run, c, sent, answers, happened')
      BY <2>1, TimeoutKeeps, Zenon
    <2> HIDE DEF c
    <2>4. e.run = c.run /\ e.sent = c.sent
      BY <2>3 DEF Keeps, IsResult
    <2> HIDE DEF e
    <2>5. Kept
      BY <2>2, <2>3, <2>4, Zenon DEF Kept, Perform
    <2> QED BY <2>5, KeptIs, Zenon
  <1>9. CASE TransportFails
    <2>1. EngineInv(run, sent, answers, happened')
          /\ (run.waiting[1] = "step" => run.waiting[2] \in happened')
      <3>1. CASE run.waiting[1] = "step"
        BY <1>3, <1>9, <3>1, Zenon DEF TransportFails
      <3>2. CASE run.waiting[1] # "step"
        BY <1>4, <1>9, <3>2 DEF TransportFails
      <3> QED BY <3>1, <3>2
    <2>2. Perform(OnTransportError(run)) /\ ~run.finished /\ answers' = answers
      BY <1>9, Zenon DEF TransportFails, Running
    <2>3. Keeps(run, OnTransportError(run), sent, answers, happened')
      BY <2>1, TransportErrorKeeps, Zenon
    <2>4. Kept
      BY <2>2, <2>3, PerformKeeps, Zenon
    <2> QED BY <2>4, KeptIs, Zenon
  <1>10. ASSUME NEW fault \in {"cancelled", "no socket"}, Interrupt(fault)
         PROVE  RunInv' /\ Contract!Next
    <2>1. EngineInv(run, sent, answers, happened')
          /\ (run.waiting[1] = "cleanup" => "interrupted" \in happened')
      <3>1. CASE run.waiting[1] = "cleanup"
        BY <1>3, <1>10, <3>1, Zenon DEF Interrupt
      <3>2. CASE run.waiting[1] # "cleanup"
        BY <1>4, <1>10, <3>2, Zenon DEF Interrupt
      <3> QED BY <3>1, <3>2, Zenon
    <2>2. Perform(Abandon(run, fault)) /\ ~run.finished /\ answers' = answers
      BY <1>10, Zenon DEF Interrupt
    <2>3. fault \in Faults
      BY Zenon DEF Faults
    <2>4. Keeps(run, Abandon(run, fault), sent, answers, happened')
      BY <2>1, <2>2, <2>3, AbandonKeeps, Zenon
    <2>5. Kept
      BY <2>2, <2>4, PerformKeeps, Zenon
    <2> QED BY <2>5, KeptIs, Zenon
  <1>11. ASSUME UNCHANGED <<run, timers, sent, happened>>,
                \E request \in sent, status \in Refusals \cup {"ok", "trying"} : \E marker :
                    answers' = answers \cup
                        {[cseq |-> request.cseq, status |-> status, marker |-> marker]}
         PROVE  RunInv' /\ UNCHANGED Contract!vars
    <2>1. \A a \in answers : a \in answers'
      BY <1>11
    <2>2. run' = run /\ sent' = sent /\ happened' = happened
      BY <1>11
    <2>3. EngineInv(run, sent, answers', happened')
      <3>1. \A h \in happened : h \in happened'
        BY <2>2
      <3> QED BY <1>1, <2>1, <3>1, MoreFacts, Zenon
    <2>4. AnswersInv'
      BY <1>1, <1>11, <2>2 DEF AnswersInv
    <2>5. UNCHANGED Contract!vars
      BY <2>2 DEF Contract!vars
    <2> QED BY <2>2, <2>3, <2>4, <2>5 DEF RunInv
  <1>12. CASE PlatformAnswers
    <2>1. PICK request \in sent :
              /\ \E a \in Answers(request) :
                    answers' = answers \cup
                        {[cseq |-> request.cseq, status |-> a.status, marker |-> a.marker]}
              /\ UNCHANGED <<run, timers, sent, happened>>
      BY <1>12, Zenon DEF PlatformAnswers
    <2>2. \A a \in Answers(request) : a.status \in Refusals \cup {"ok", "trying"}
      BY DEF Answers, EchoAnswer, Refusals
    <2> QED BY <1>11, <2>1, <2>2
  <1>13. CASE PlatformTries
    BY <1>11, <1>13 DEF PlatformTries
  <1>14. CASE Over
    <2>1. UNCHANGED probeVars
      BY <1>14 DEF Over
    <2>2. RunInv'
      BY <1>1, <2>1 DEF RunInv, AnswersInv, probeVars
    <2> QED BY <2>1, <2>2 DEF probeVars, Contract!vars
  <1> QED BY <1>5, <1>6, <1>7, <1>8, <1>9, <1>10, <1>12, <1>13, <1>14, Zenon DEF NextProbe

LEMMA RunInvIsInvariant == SpecProbe => []RunInv
  <1>1. InitProbe => RunInv
    BY RunInit
  <1>2. RunInv /\ [NextProbe]_probeVars => RunInv'
    <2>1. ASSUME RunInv, UNCHANGED probeVars PROVE RunInv'
      BY <2>1 DEF RunInv, AnswersInv, probeVars
    <2> QED BY <2>1, RunNext
  <1> QED BY <1>1, <1>2, PTL DEF SpecProbe

-----------------------------------------------------------------------------
(* Results *)

\* What a finished run reports is true: a pass went through every step and back from the echo,
\* a failure names what the platform or the network did, and a clean end left nothing behind
\* (engine.rs, verdict.rs).
THEOREM ReportTruth == SpecProbe => []ReportIsTrue
  <1>1. ASSUME RunInv PROVE ReportIsTrue
    <2>1. /\ run \in Run /\ Placed(run, sent, answers)
          /\ Grounded(run, sent, answers, happened) /\ Accounted(run, sent, answers, happened)
      BY <1>1 DEF RunInv, EngineInv
    <2>2. /\ \A method : Got(method) = Replies(sent, answers, method)
          /\ \A method : Ok(method) <=> Agreed(sent, answers, method)
      BY DEF Got, Replies, Ok, Agreed
    <2>3. VerdictIsSubstantiated
      BY <2>1, <2>2, PrefixIs
      DEF VerdictIsSubstantiated, Grounded, FailureGrounds, EchoHeard
    <2>4. CleanEndIsClean
      <3>1. SUFFICES ASSUME run.finished, ~run.failed, "interrupted" \notin happened
                     PROVE  /\ Had(run, "register") => Ok("UNREGISTER")
                            /\ Had(run, "invite") => Ok("BYE") \/ ByeFailed(run.decided)
        BY DEF CleanEndIsClean, Had, ByeFailed
      <3>2. Finished(run)
        BY <2>1, <3>1 DEF Placed, Unstarted, Resolving, Registering, Inviting, HangingUp,
                          Expecting, Undoing
      <3>3. Nothing # Cleaning("register") /\ Nothing # Cleaning("bye")
        BY WaitsDiffer
      <3> QED BY <2>1, <2>2, <3>1, <3>2, <3>3 DEF Accounted, Undone, Finished
    <2> QED BY <2>3, <2>4 DEF ReportIsTrue
  <1> QED BY <1>1, RunInvIsInvariant, PTL

\* The engine implements what a run promises: one verdict, cleanup that does not change it and
\* only takes obligations away, and an end with a verdict and nothing owed (engine.rs cleanup;
\* e2e-probe.md S3, S4, V6).
THEOREM EngineKeepsContract == SpecProbe => KeepsContract
  <1>1. InitProbe => Contract!Init
    BY RunInit
  <1>2. RunInv /\ [NextProbe]_probeVars => [Contract!Next]_Contract!vars
    <2>1. UNCHANGED probeVars => UNCHANGED Contract!vars
      BY DEF probeVars, Contract!vars
    <2> QED BY <2>1, RunNext
  <1> QED BY <1>1, <1>2, RunInvIsInvariant, PTL DEF SpecProbe, KeepsContract, Contract!Spec

-----------------------------------------------------------------------------
(* The scheduler *)

StartRecord == [at : Nat, slot : Slots]

\* The starts of `other` while `slot` has been waiting.
Overtaking(slot, other) == {start \in starts : start.slot = other /\ start.at >= due[slot]}

\* What the bound forgets is too old to matter, and what overtook a waiting slot is now due
\* after it.
ScheduleInv ==
    /\ now \in Nat
    /\ due \in [Slots -> Nat]
    /\ starts \subseteq StartRecord
    /\ \A start \in starts : start.at <= now
    /\ recent \subseteq starts /\ IsFiniteSet(recent) /\ Cardinality(recent) <= Runs
    /\ \A start \in starts \ recent : start.at + Per <= now
    /\ \A slot, other \in Slots : slot # other =>
          /\ \A start \in Overtaking(slot, other) :
                due[slot] < due[other] \/ (due[slot] = due[other] /\ slot < other)
          /\ \A first, second \in Overtaking(slot, other) : first = second
    /\ RateIsBounded

\* Trimming keeps the bound and loses nothing that still counts.
LEMMA Trimmed ==
  ASSUME ScheduleInv
  PROVE  /\ Trim(recent) \subseteq recent /\ IsFiniteSet(Trim(recent))
         /\ Cardinality(Trim(recent)) \in Nat /\ Cardinality(Trim(recent)) <= Runs
         /\ \A start \in starts \ Trim(recent) : start.at + Per <= now
  <1>1. Trim(recent) \subseteq recent /\ IsFiniteSet(recent) /\ Cardinality(recent) <= Runs
    BY DEF ScheduleInv, Trim
  <1>2. /\ IsFiniteSet(Trim(recent)) /\ Cardinality(Trim(recent)) <= Cardinality(recent)
        /\ Cardinality(Trim(recent)) \in Nat /\ Cardinality(recent) \in Nat
    BY <1>1, FS_Subset, FS_CardinalityType
  <1>3. ASSUME NEW start \in starts \ Trim(recent) PROVE start.at + Per <= now
    <2>1. start \in StartRecord
      BY DEF ScheduleInv
    <2>2. CASE start \in recent
      BY <1>3, <2>1, <2>2, ScheduleAssumption DEF Trim, StartRecord, ScheduleInv
    <2>3. CASE start \notin recent
      BY <2>3 DEF ScheduleInv
    <2> QED BY <2>2, <2>3
  <1> QED BY <1>1, <1>2, <1>3, ScheduleAssumption

LEMMA ScheduleInit == InitSchedule => ScheduleInv
  <1> SUFFICES ASSUME InitSchedule PROVE ScheduleInv
    OBVIOUS
  <1>1. starts = {} /\ recent = {} /\ now = 0
    BY DEF InitSchedule
  <1>2. IsFiniteSet(recent) /\ Cardinality(recent) = 0
    BY <1>1, FS_EmptySet
  <1>3. due \in [Slots -> Nat]
    <2>1. Stride \in Nat
      BY ScheduleAssumption DEF Stride
    <2>2. \A slot \in Slots : Stride * (slot - 1) \in Nat
      BY <2>1, ScheduleAssumption DEF Slots
    <2> HIDE DEF Stride, Slots
    <2> QED BY <2>2 DEF InitSchedule
  <1> QED BY <1>1, <1>2, <1>3, ScheduleAssumption
          DEF ScheduleInv, Overtaking, RateIsBounded, StartRecord

\* A start within the bound: of every window that reaches it, the bound still knows all starts.
LEMMA StartKeepsRate ==
  ASSUME ScheduleInv, NEW slot \in Slots, Cardinality(Trim(recent)) < Runs,
         recent' = Trim(recent) \cup {[at |-> now, slot |-> slot]},
         starts' = starts \cup {[at |-> now, slot |-> slot]}
  PROVE  RateIsBounded' /\ IsFiniteSet(recent') /\ Cardinality(recent') <= Runs
  <1> DEFINE new == [at |-> now, slot |-> slot]
             Window(set, first) ==
                 {start \in set : start.at \in first.at .. first.at + Per - 1}
  <1>1. /\ IsFiniteSet(recent') /\ Cardinality(recent') \in Nat
        /\ Cardinality(recent') <= Cardinality(Trim(recent)) + 1
    <2> HIDE DEF new
    <2>1. IsFiniteSet(Trim(recent)) /\ recent' = Trim(recent) \cup {new}
      BY Trimmed DEF new
    <2>2. /\ IsFiniteSet(recent')
          /\ Cardinality(recent') = IF new \in Trim(recent) THEN Cardinality(Trim(recent))
                                                           ELSE Cardinality(Trim(recent)) + 1
      BY <2>1, FS_AddElement
    <2> QED BY <2>2, Trimmed, FS_CardinalityType
  <1>2. Cardinality(recent') <= Runs
    BY <1>1, Trimmed, ScheduleAssumption
  <1>3. /\ now \in Nat /\ Per \in Nat \ {0} /\ Runs \in Nat
        /\ starts' \subseteq StartRecord
        /\ \A start \in starts' : start.at \in Nat /\ start.at <= now
    BY ScheduleAssumption DEF ScheduleInv, StartRecord
  <1>4. ASSUME NEW first \in starts' PROVE Cardinality(Window(starts', first)) <= Runs
    <2>1. first.at \in Nat /\ first.at <= now
      BY <1>3
    <2>2. CASE first.at + Per <= now
      <3>1. new \notin Window(starts', first)
        BY <1>3, <2>1, <2>2
      <3>2. Window(starts', first) = Window(starts, first)
        BY <3>1
      <3>3. first # new
        BY <1>3, <2>1, <2>2
      <3> QED BY <3>2, <3>3 DEF ScheduleInv, RateIsBounded
    <2>3. CASE ~(first.at + Per <= now)
      <3>1. Window(starts', first) \subseteq recent'
        <4> SUFFICES ASSUME NEW start \in starts, start.at >= first.at,
                            start \notin Trim(recent)
                     PROVE  FALSE
          BY <1>3, <2>1
        <4> QED BY <1>3, <2>1, <2>3, Trimmed
      <3>2. /\ Cardinality(Window(starts', first)) <= Cardinality(recent')
            /\ Cardinality(Window(starts', first)) \in Nat
        BY <1>1, <3>1, FS_Subset, FS_CardinalityType
      <3> QED BY <1>1, <1>2, <1>3, <3>2
    <2> QED BY <2>2, <2>3
  <1> QED BY <1>1, <1>2, <1>4 DEF RateIsBounded

\* A start puts its slot behind every slot that is waiting.
LEMMA StartKeepsOrder ==
  ASSUME ScheduleInv, NEW taken \in Slots, Next_Due(taken),
         NEW smear \in Nat, due' = [due EXCEPT ![taken] = now + Interval + smear],
         starts' = starts \cup {[at |-> now, slot |-> taken]}
  PROVE  \A slot, other \in Slots : slot # other =>
          /\ \A start \in Overtaking(slot, other)' :
                due'[slot] < due'[other] \/ (due'[slot] = due'[other] /\ slot < other)
          /\ \A first, second \in Overtaking(slot, other)' : first = second
  <1> DEFINE new == [at |-> now, slot |-> taken]
             Before(slot, other) ==
                 due[slot] < due[other] \/ (due[slot] = due[other] /\ slot < other)
  <1>1. /\ now \in Nat /\ Interval \in Nat \ {0} /\ due \in [Slots -> Nat]
        /\ \A start \in starts : start.at \in Nat /\ start.at <= now
        /\ \A slot \in Slots : slot \in Nat
    BY ScheduleAssumption DEF ScheduleInv, StartRecord, Slots
  <1>2. \A slot \in Slots : due'[slot] = IF slot = taken THEN now + Interval + smear ELSE due[slot]
    BY <1>1
  <1> SUFFICES ASSUME NEW slot \in Slots, NEW other \in Slots, slot # other
               PROVE  /\ \A start \in Overtaking(slot, other)' : Before(slot, other)'
                      /\ \A first, second \in Overtaking(slot, other)' : first = second
    OBVIOUS
  <1>3. CASE slot = taken
    <2>1. Overtaking(slot, other)' = {}
      BY <1>1, <1>2, <1>3 DEF Overtaking
    <2> QED BY <2>1
  <1>4. CASE slot # taken /\ other # taken
    <2>1. Overtaking(slot, other)' = Overtaking(slot, other)
      BY <1>2, <1>4 DEF Overtaking
    <2> QED BY <1>2, <1>4, <2>1 DEF ScheduleInv
  <1>5. CASE slot # taken /\ other = taken
    <2>1. CASE due[slot] <= now
      <3>1. Before(other, slot)
        BY <1>5, <2>1 DEF Next_Due
      <3>2. ~Before(slot, other)
        BY <1>1, <3>1
      <3>3. Overtaking(slot, other) = {}
        BY <3>2 DEF ScheduleInv
      <3>4. Overtaking(slot, other)' = {new}
        BY <1>2, <1>5, <2>1, <3>3 DEF Overtaking
      <3>5. due'[slot] < due'[other]
        BY <1>1, <1>2, <1>5, <2>1
      <3> QED BY <3>4, <3>5
    <2>2. CASE due[slot] > now
      <3>1. Overtaking(slot, other)' = {}
        BY <1>1, <1>2, <1>5, <2>2 DEF Overtaking
      <3> QED BY <3>1
    <2> QED BY <1>1, <2>1, <2>2
  <1> QED BY <1>3, <1>4, <1>5

LEMMA ScheduleStep == ScheduleInv /\ [NextSchedule]_scheduleVars => ScheduleInv'
  <1> SUFFICES ASSUME ScheduleInv, [NextSchedule]_scheduleVars PROVE ScheduleInv'
    OBVIOUS
  <1>1. CASE UNCHANGED <<now, schedVars>>
    BY <1>1 DEF schedVars, ScheduleInv, Overtaking, RateIsBounded
  <1>2. CASE Tick
    <2>1. now' = now + 1 /\ UNCHANGED schedVars
      BY <1>2 DEF Tick
    <2>2. ASSUME NEW start \in starts
          PROVE  start.at <= now' /\ (start \notin recent => start.at + Per <= now')
      BY <2>1, ScheduleAssumption DEF ScheduleInv, StartRecord
    <2> QED BY <2>1, <2>2 DEF schedVars, ScheduleInv, Overtaking, RateIsBounded
  <1>3. ASSUME NEW slot \in Slots, TakeDue(slot) PROVE ScheduleInv'
    <2>1. now' = now /\ Next_Due(slot)
      BY <1>3 DEF TakeDue
    <2>2. CASE Cardinality(Trim(recent)) >= Runs
      <3>1. recent' = Trim(recent) /\ UNCHANGED <<due, starts>>
        BY <1>3, <2>2 DEF TakeDue
      <3> QED BY <2>1, <3>1, Trimmed DEF ScheduleInv, Overtaking, RateIsBounded
    <2>3. CASE ~(Cardinality(Trim(recent)) >= Runs)
      <3>1. PICK smear \in 0..Jitter : due' = [due EXCEPT ![slot] = now + Interval + smear]
        BY <1>3, <2>3 DEF TakeDue
      <3>2. /\ recent' = Trim(recent) \cup {[at |-> now, slot |-> slot]}
            /\ starts' = starts \cup {[at |-> now, slot |-> slot]}
        BY <1>3, <2>3 DEF TakeDue
      <3>3. smear \in Nat /\ Interval \in Nat /\ now \in Nat
        BY ScheduleAssumption DEF ScheduleInv
      <3>4. RateIsBounded' /\ IsFiniteSet(recent') /\ Cardinality(recent') <= Runs
        <4>1. Cardinality(Trim(recent)) < Runs
          BY <2>3, Trimmed, ScheduleAssumption
        <4> QED BY <3>2, <4>1, StartKeepsRate, ZenonT(30)
      <3>5. \A one, other \in Slots : one # other =>
              /\ \A start \in Overtaking(one, other)' :
                    due'[one] < due'[other] \/ (due'[one] = due'[other] /\ one < other)
              /\ \A first, second \in Overtaking(one, other)' : first = second
        BY <2>1, <3>1, <3>2, <3>3, StartKeepsOrder
      <3>6. due' \in [Slots -> Nat]
        BY <3>1, <3>3 DEF ScheduleInv
      <3>7. /\ starts' \subseteq StartRecord /\ recent' \subseteq starts'
            /\ \A start \in starts' : start.at <= now
            /\ \A start \in starts' \ recent' : start.at + Per <= now
        BY <3>2, <3>3, Trimmed DEF ScheduleInv, StartRecord
      <3> QED BY <2>1, <3>4, <3>5, <3>6, <3>7 DEF ScheduleInv
    <2> QED BY <2>2, <2>3
  <1>4. CASE Refresh
    BY <1>1, <1>4 DEF Refresh
  <1>5. CASE UNCHANGED scheduleVars
    BY <1>1, <1>5 DEF scheduleVars
  <1> QED BY <1>2, <1>3, <1>4, <1>5 DEF NextSchedule, Stop

LEMMA ScheduleInvariance == SpecSchedule => []ScheduleInv
  BY ScheduleInit, ScheduleStep, PTL DEF SpecSchedule

\* T6, for every cadence and bound: no window of the bound's length holds more starts than
\* the bound (schedule.rs take_due, trim).
THEOREM RateBound == SpecSchedule => []RateIsBounded
  <1>1. ScheduleInv => RateIsBounded
    BY DEF ScheduleInv
  <1> QED BY <1>1, ScheduleInvariance, PTL

\* For every matrix: a target that waits is overtaken by each other target at most once
\* (schedule.rs take_due).
THEOREM NobodyStarves == SpecSchedule => []NoTargetStarves
  <1>1. ScheduleInv => NoTargetStarves
    <2> SUFFICES ASSUME ScheduleInv, NEW slot \in Slots, NEW other \in Slots, slot # other
                 PROVE  Cardinality(Overtaking(slot, other)) <= 1
      BY DEF NoTargetStarves, Overtaking
    <2>1. CASE Overtaking(slot, other) = {}
      BY <2>1, FS_EmptySet
    <2>2. CASE Overtaking(slot, other) # {}
      <3>1. PICK start \in Overtaking(slot, other) : TRUE
        BY <2>2
      <3>2. Overtaking(slot, other) = {start}
        BY <3>1 DEF ScheduleInv
      <3>3. Cardinality({start}) = 1
        BY FS_Singleton
      <3> QED BY <3>2, <3>3
    <2> QED BY <2>1, <2>2
  <1> QED BY <1>1, ScheduleInvariance, PTL

-----------------------------------------------------------------------------
(* The echo *)

\* How long the binding outlives the refresh that is due next.
EchoInv ==
    /\ now \in Nat /\ refresh \in Nat /\ boundUntil \in Nat /\ lost \in BOOLEAN
    /\ now <= refresh
    /\ ~lost => boundUntil = refresh + (Lifetime - RefreshAfter)
    /\ lost => boundUntil = refresh + (Lifetime - RefreshAfter) - RefreshAfter

LEMMA EchoInvariance == SpecSchedule => []EchoInv
  <1> USE ScheduleAssumption
  <1>0. /\ RefreshAfter \in Nat /\ Lifetime - RefreshAfter \in Nat
        /\ RefreshAfter <= Lifetime - RefreshAfter
    BY DEF RefreshAfter
  <1>1. InitSchedule => EchoInv
    <2> SUFFICES ASSUME InitSchedule PROVE EchoInv
      OBVIOUS
    <2>1. now = 0 /\ refresh = RefreshAfter /\ boundUntil = Lifetime /\ lost = FALSE
      BY DEF InitSchedule
    <2>2. lost \in BOOLEAN /\ ~lost
      BY <2>1, Zenon
    <2>3. now \in Nat /\ refresh \in Nat /\ boundUntil \in Nat /\ now <= refresh
      BY <1>0, <2>1
    <2>4. boundUntil = refresh + (Lifetime - RefreshAfter)
      BY <1>0, <2>1
    <2> QED BY <2>2, <2>3, <2>4, Zenon DEF EchoInv
  <1>2. EchoInv /\ [NextSchedule]_scheduleVars => EchoInv'
    <2> SUFFICES ASSUME EchoInv, [NextSchedule]_scheduleVars PROVE EchoInv'
      OBVIOUS
    <2>1. CASE UNCHANGED <<now, echoVars>>
      BY <2>1 DEF echoVars, EchoInv
    <2>2. CASE Tick
      BY <2>2 DEF Tick, echoVars, EchoInv
    <2>3. CASE Refresh
      <3>1. now' = now /\ refresh = now /\ refresh' = now + RefreshAfter
        BY <2>3 DEF Refresh
      <3>2. CASE boundUntil' = now + Lifetime /\ lost' = FALSE
        <4>1. /\ now' \in Nat /\ refresh' \in Nat /\ boundUntil' \in Nat /\ now' <= refresh'
              /\ boundUntil' = refresh' + (Lifetime - RefreshAfter)
          BY <1>0, <3>1, <3>2 DEF EchoInv
        <4>2. lost' \in BOOLEAN /\ ~lost'
          BY <3>2, Zenon
        <4> QED BY <4>1, <4>2, Zenon DEF EchoInv
      <3>3. CASE ~lost /\ lost' = TRUE /\ boundUntil' = boundUntil
        BY <1>0, <3>1, <3>3 DEF EchoInv
      <3> QED BY <2>3, <3>2, <3>3 DEF Refresh
    <2>4. CASE UNCHANGED scheduleVars
      BY <2>1, <2>4 DEF scheduleVars
    <2>5. ASSUME NEW slot \in Slots, TakeDue(slot) PROVE EchoInv'
      BY <2>1, <2>5 DEF TakeDue
    <2> QED BY <2>2, <2>3, <2>4, <2>5 DEF NextSchedule, Stop
  <1> QED BY <1>1, <1>2, PTL DEF SpecSchedule

\* For every lifetime, even or odd, the binding reaches the refresh that follows a lost one: it
\* can only lapse at that very instant, before the refresh is sent (echo.rs register).
THEOREM BindingReachesRefresh == SpecSchedule => []LapseEndsWithRefresh
  <1>1. EchoInv => LapseEndsWithRefresh
    BY ScheduleAssumption DEF EchoInv, RefreshAfter, LapseEndsWithRefresh
  <1> QED BY <1>1, EchoInvariance, PTL

=====================================================================================
