------------------------------- MODULE ProbeEngine -----------------------------
(***************************************************************************)
(* A synthetic probe run against the platform                              *)
(* (crates/sipx-clstr-probe: engine.rs, verdict.rs, marker.rs, and what    *)
(* echo.rs answers).  The engine is a state machine without clock or       *)
(* socket, so every input is an operator from its state to its next state  *)
(* and the effects it asks for.                                            *)
(*                                                                         *)
(* Around it: a platform that may answer, refuse, challenge or misroute    *)
(* each request once, and a network that delivers an answer never, once or *)
(* many times, and as late as it likes (`answers` is never emptied).       *)
(***************************************************************************)
EXTENDS Naturals, Sequences, FiniteSets

CONSTANTS
    Mine, Other,      \* this run's marker and another run's
    None

VARIABLES
    run,         \* the engine
    timers,      \* steps whose timeout is armed
    sent,        \* requests put on the wire
    answers,     \* responses the platform made
    happened     \* history: what else the engine was told

probeVars == <<run, timers, sent, answers, happened>>

Plan == <<"resolve", "register", "invite", "bye">>
Steps == {Plan[i] : i \in DOMAIN Plan}

Step(step) == <<"step", step>>
Cleaning(step) == <<"cleanup", step>>
Nothing == <<"nothing", None>>

Pass == [kind |-> "pass", step |-> None, cause |-> None]
Failing(step, cause) == [kind |-> "fail", step |-> step, cause |-> cause]
Inconclusive(fault) == [kind |-> "inconclusive", step |-> None, cause |-> fault]
Causes == {"timeout", "rejected", "shed", "mismatch", "unreachable", "unresolved"}
Faults == {"no credentials", "misconfigured", "no socket", "cancelled", "internal"}
Verdicts == [kind : {"pass", "fail", "inconclusive"}, step : Steps \cup {None},
             cause : Causes \cup Faults \cup {None}]

ASSUME MarkerAssumption == Mine # Other /\ None \notin {Mine, Other} \cup Verdicts

\* A run of a configuration that is usable or not, with credentials or without.
Fresh(usable, credentials) ==
    [usable |-> usable, credentials |-> credentials, waiting |-> Nothing, steps |-> <<>>,
     decided |-> None, owes |-> {}, failed |-> FALSE, finished |-> FALSE, answered |-> FALSE,
     cseq |-> 0, expects |-> 0]

-----------------------------------------------------------------------------
(* Building blocks: a result is the engine's next state and its effects *)

Result(r, requests, cleared, armed) ==
    [run |-> r, sent |-> requests, cleared |-> cleared, armed |-> armed]
Ignore(r) == Result(r, {}, {}, {})
Clearing(steps, result) == [result EXCEPT !.cleared = @ \cup steps]

Begin(r, step) == [r EXCEPT !.waiting = Step(step)]
Conclude(r, succeeded) ==
    IF r.waiting[1] # "step" THEN [r EXCEPT !.waiting = Nothing]
    ELSE [r EXCEPT !.waiting = Nothing, !.steps = Append(@, <<r.waiting[2], succeeded>>)]

Owe(r, obligation) == [r EXCEPT !.owes = @ \cup {obligation}]
Forget(r, obligation) == [r EXCEPT !.owes = @ \ {obligation}]

\* The next request: numbered, marked, and what is waited for unless it is an ACK.
Numbered(r, method) ==
    [r EXCEPT !.cseq = @ + 1, !.expects = IF method = "ACK" THEN @ ELSE r.cseq + 1]
Request(r, method) == [method |-> method, cseq |-> r.cseq + 1, marker |-> Mine]

MethodOf(step) == [register |-> "REGISTER", invite |-> "INVITE", bye |-> "BYE"][step]

\* Begin a step with its one request and its timeout.
Attempt(r, step) ==
    Result(Numbered(Begin(r, step), MethodOf(step)), {Request(r, MethodOf(step))}, {}, {step})

-----------------------------------------------------------------------------
(* Conclusion *)

Finish(r) ==
    Ignore([r EXCEPT !.finished = TRUE, !.waiting = Nothing,
                     !.decided = IF @ = None THEN Inconclusive("internal") ELSE @])

\* S3 and S4: the dialog before the registration.
CleanUpWith(r, obligation, step, method) ==
    Result([Numbered(Forget(r, obligation), method) EXCEPT !.waiting = Cleaning(step)],
           {Request(r, method)}, {}, {step})
Cleanup_DialogOnly(r) ==
    IF "dialog" \in r.owes THEN CleanUpWith(r, "dialog", "bye", "BYE") ELSE Finish(r)
Cleanup(r) ==
    IF "dialog" \in r.owes THEN CleanUpWith(r, "dialog", "bye", "BYE")
    ELSE IF "binding" \in r.owes THEN CleanUpWith(r, "binding", "register", "UNREGISTER")
    ELSE Finish(r)

AfterCleanup(r, step) == Clearing({step}, Cleanup([r EXCEPT !.waiting = Nothing]))

Decide_Anew(r, verdict) == [r EXCEPT !.decided = verdict]
Decide(r, verdict) == [r EXCEPT !.decided = IF @ = None THEN verdict ELSE @]

\* A BYE that failed has been attempted: it is not sent again.
Fail(r, step, cause) ==
    LET d == Decide(Conclude(r, FALSE), Failing(step, cause))
    IN  Clearing({step}, Cleanup(IF step = "bye" THEN Forget(d, "dialog") ELSE d))

Abandon(r, fault) ==
    LET d == Decide(r, Inconclusive(fault))
    IN  IF r.waiting[1] = "step"
        THEN Clearing({r.waiting[2]}, Cleanup(Conclude(d, FALSE)))
        ELSE Cleanup(d)

-----------------------------------------------------------------------------
(* The inputs *)

OnStart(r) ==
    IF r.usable THEN Result(Begin(r, "resolve"), {}, {}, {"resolve"})
    ELSE Abandon(r, "misconfigured")

OnResolved(r, ok) ==
    IF r.waiting # Step("resolve") THEN Ignore(r)
    ELSE IF ok THEN Clearing({"resolve"}, Attempt(Conclude(r, TRUE), "register"))
    ELSE Fail(r, "resolve", "unresolved")

\* The challenged step again, its timeout still running; to resolve sends nothing again.
RetryChallenged(r, step) ==
    IF step = "resolve" THEN Ignore([r EXCEPT !.answered = TRUE]) ELSE
    Result([Numbered(r, MethodOf(step)) EXCEPT !.answered = TRUE],
           {Request(r, MethodOf(step))}, {}, {})

\* A step succeeded: the next one, with the ACK before the BYE.
Advance(r, step, marker) ==
    LET done == Conclude(r, TRUE)
    IN  IF step = "resolve" THEN Ignore(done)
        ELSE IF step = "register" THEN Clearing({step}, Attempt(Owe(done, "binding"), "invite"))
        ELSE IF step = "bye" THEN Cleanup(Decide(Forget(done, "dialog"), Pass))
        ELSE IF marker # Mine THEN Fail(Owe(done, "dialog"), "invite", "mismatch")
        ELSE LET acked == Numbered(Owe(done, "dialog"), "ACK")
                 bye == Attempt(acked, "bye")
             IN  Clearing({step}, [bye EXCEPT !.sent = @ \cup {Request(done, "ACK")}])

OnStepResponse(r, step, response) ==
    IF response.status = "ok" THEN Advance(r, step, response.marker)
    ELSE IF response.status # "challenge" THEN Fail(r, step, response.status)
    ELSE IF ~r.credentials THEN Abandon(r, "no credentials")
    ELSE IF r.answered THEN Fail(r, step, "rejected")
    ELSE RetryChallenged(r, step)

\* Not an answer to the request outstanding: a duplicate, or late.  Before the first request
\* there is none to compare with, and nothing is left out.
Unrelated_Never(r, response) == response.status = "trying"
Unrelated(r, response) ==
    response.status = "trying" \/ (r.expects # 0 /\ response.cseq # r.expects)

NoteCleanup(r, ok) == [r EXCEPT !.failed = @ \/ ~ok]

OnResponse(r, response) ==
    IF Unrelated(r, response) \/ r.waiting = Nothing THEN Ignore(r)
    ELSE IF r.waiting[1] = "step" THEN OnStepResponse(r, r.waiting[2], response)
    ELSE AfterCleanup(NoteCleanup(r, response.status = "ok"), r.waiting[2])

OnTimeout_Stuck(r, step) ==
    IF r.waiting = Step(step) THEN Fail(r, step, "timeout") ELSE Ignore(r)
OnTimeout(r, step) ==
    IF r.waiting = Step(step) THEN Fail(r, step, "timeout")
    ELSE IF r.waiting = Cleaning(step) THEN AfterCleanup(NoteCleanup(r, FALSE), step)
    ELSE Ignore(r)

OnTransportError(r) ==
    IF r.waiting[1] = "step" THEN Fail(r, r.waiting[2], "unreachable")
    ELSE IF r.waiting[1] = "cleanup" THEN AfterCleanup(NoteCleanup(r, FALSE), r.waiting[2])
    ELSE Ignore(r)

-----------------------------------------------------------------------------
(* The run *)

Perform(result) ==
    /\ run' = result.run
    /\ sent' = sent \cup result.sent
    /\ timers' = (timers \ result.cleared) \cup result.armed

Started == run.finished \/ run.waiting # Nothing
Running == Started /\ ~run.finished
Told(fact) == happened' = happened \cup {fact}

Start == ~Started /\ Perform(OnStart(run)) /\ UNCHANGED <<answers, happened>>

\* A driver that resolves at once answers before it performs the arming that follows, and the
\* timeout of the first step then outlives it.
Resolved(ok) ==
    /\ run.waiting = Step("resolve")
    /\ \/ Perform(OnResolved(run, ok))
       \/ /\ run' = OnResolved(run, ok).run
          /\ sent' = sent \cup OnResolved(run, ok).sent
          /\ timers' = timers \cup OnResolved(run, ok).armed
    /\ (IF ok THEN UNCHANGED happened ELSE Told("resolve"))
    /\ UNCHANGED answers

Receive ==
    \E response \in answers :
        /\ Running /\ Perform(OnResponse(run, response))
        /\ UNCHANGED <<answers, happened>>

\* A timer that fires is armed no longer.
TimerFires(step) ==
    /\ Running /\ step \in timers
    /\ LET result == OnTimeout(run, step)
       IN  Perform([result EXCEPT !.cleared = @ \cup {step}])
    /\ (IF run.waiting = Step(step) THEN Told(step) ELSE UNCHANGED happened)
    /\ UNCHANGED answers

TransportFails ==
    /\ Running
    /\ Perform(OnTransportError(run))
    /\ (IF run.waiting[1] = "step" THEN Told(run.waiting[2]) ELSE UNCHANGED happened)
    /\ UNCHANGED answers

\* Cancelled, or no local socket.
Interrupt(fault) ==
    /\ ~run.finished
    /\ Perform(Abandon(run, fault))
    /\ (IF run.waiting[1] = "cleanup" THEN Told("interrupted") ELSE UNCHANGED happened)
    /\ UNCHANGED answers

\* What the echo answers: a marked call with its marker, and it agrees to a BYE.
EchoAnswer(request) ==
    CASE request.method = "INVITE" /\ request.marker = None -> [status |-> "rejected", marker |-> None]
      [] request.method = "INVITE" /\ request.marker # None ->
            [status |-> "ok", marker |-> request.marker]
      [] OTHER -> [status |-> "ok", marker |-> None]

\* The platform answers a request once: itself, from the echo, or from something else.
Answers(request) ==
    {[status |-> s, marker |-> None] : s \in {"challenge", "shed", "rejected"}}
        \cup {EchoAnswer(request)}
        \cup (IF request.method = "INVITE"
              THEN {[status |-> "ok", marker |-> m] : m \in {None, Other}} ELSE {})

Answered(request) == \E a \in answers : a.cseq = request.cseq /\ a.status # "trying"

PlatformAnswers ==
    \E request \in sent :
        /\ request.method # "ACK" /\ ~Answered(request)
        /\ \E a \in Answers(request) :
              answers' = answers \cup
                  {[cseq |-> request.cseq, status |-> a.status, marker |-> a.marker]}
        /\ UNCHANGED <<run, timers, sent, happened>>

PlatformTries ==
    \E request \in sent :
        /\ request.method = "INVITE" /\ ~Answered(request)
        /\ answers' = answers \cup {[cseq |-> request.cseq, status |-> "trying", marker |-> None]}
        /\ UNCHANGED <<run, timers, sent, happened>>

Over == run.finished /\ UNCHANGED probeVars

InitProbe ==
    /\ \E usable, credentials \in BOOLEAN : run = Fresh(usable, credentials)
    /\ timers = {} /\ sent = {} /\ answers = {} /\ happened = {}

NextProbe ==
    \/ Start \/ Receive \/ TransportFails \/ PlatformAnswers \/ PlatformTries \/ Over
    \/ \E ok \in BOOLEAN : Resolved(ok)
    \/ \E step \in Steps : TimerFires(step)
    \/ \E fault \in {"cancelled", "no socket"} : Interrupt(fault)

SpecProbe ==
    /\ InitProbe /\ [][NextProbe]_probeVars
    /\ WF_probeVars(Start)
    /\ \A step \in Steps : WF_probeVars(TimerFires(step))

-----------------------------------------------------------------------------
(* Properties *)

\* The answers the platform made to a request of this method.
Got(method) == {a \in answers : \E q \in sent : q.cseq = a.cseq /\ q.method = method}
Ok(method) == \E a \in Got(method) : a.status = "ok"
Refusals == {"challenge", "shed", "rejected"}

\* A verdict is about what the platform did: a pass went through every step and back from the
\* echo, and a failure names a step that was refused, misrouted, unreachable or timed out
\* (engine.rs on_response, verdict.rs): an answer to one step is never charged to another.
VerdictIsSubstantiated ==
    LET v == run.decided
    IN  /\ v = Pass => /\ Ok("REGISTER") /\ Ok("BYE")
                       /\ \E a \in Got("INVITE") : a.status = "ok" /\ a.marker = Mine
                       /\ run.steps = [i \in DOMAIN Plan |-> <<Plan[i], TRUE>>]
        /\ v # None /\ v.kind = "fail" =>
              \/ v.cause = "mismatch" /\ \E a \in Got("INVITE") : a.status = "ok" /\ a.marker # Mine
              \/ /\ v.cause \in {"rejected", "shed"}
                 /\ \E a \in Got(MethodOf(v.step)) : a.status \in Refusals
              \/ v.cause \notin {"mismatch", "rejected", "shed"} /\ v.step \in happened

\* A run that reports a clean end and was let finish has undone what it saw come about: the
\* registration was removed, and the dialog ended unless its BYE is the failure reported
\* (engine.rs cleanup, after_cleanup; S3, S4).
CleanEndIsClean ==
    run.finished /\ ~run.failed /\ "interrupted" \notin happened =>
        /\ <<"register", TRUE>> \in {run.steps[i] : i \in DOMAIN run.steps} => Ok("UNREGISTER")
        /\ <<"invite", TRUE>> \in {run.steps[i] : i \in DOMAIN run.steps} =>
               Ok("BYE") \/ (run.decided.kind = "fail" /\ run.decided.step = "bye")

\* What a finished run reports is true, of the platform and of what it left there.
ReportIsTrue == VerdictIsSubstantiated /\ CleanEndIsClean

\* While the engine waits, the timeout that ends the wait is armed, so every run ends whatever
\* is lost (engine.rs, S6).
EveryRunEnds == <>run.finished

\* The run keeps what it promises its reader: one verdict, and cleanup that does not change it.
Contract == INSTANCE ProbeContract
                WITH Undecided <- None, verdict <- run.decided, owed <- run.owes,
                     over <- run.finished
KeepsContract == Contract!Spec

\* e2e-probe.md S4: "The registration created by P2 is removed at the end of the run".
RegistrationIsRemoved ==
    run.finished /\ ~run.failed /\ Ok("REGISTER") => Ok("UNREGISTER")

\* e2e-probe.md S7 and engine.rs fail: one attempt at the BYE.
OneBye ==
    (\A a \in Got("BYE") : a.status # "challenge") =>
        Cardinality({q \in sent : q.method = "BYE"}) <= 1
================================================================================
