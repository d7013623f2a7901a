----------------------------- MODULE ProbeSchedule -----------------------------
(***************************************************************************)
(* When to probe what, and when the echo registers again                   *)
(* (crates/sipx-clstr-probe/src/schedule.rs and echo.rs): the scheduler    *)
(* walks the target matrix one run at a time within a rate bound, and the  *)
(* echo refreshes its registration at half of its lifetime.                *)
(*                                                                         *)
(* Time is a number of units; the scheduler is asked at any moment, and    *)
(* any number of times, but never runs ahead of the clock.                 *)
(***************************************************************************)
EXTENDS Naturals, FiniteSets

CONSTANTS
    Targets,       \* how many targets the matrix has
    Interval, Jitter,
    Runs, Per,     \* RateBound: at most Runs starts within Per
    Lifetime,      \* EchoConfig::register_expires
    MaxTime,       \* bound: the clock stops here
    MaxDeferred    \* bound: how often a full window is asked

ASSUME ScheduleAssumption ==
    /\ Targets \in Nat \ {0} /\ Interval \in Nat \ {0} /\ Jitter \in Nat
    /\ Runs \in Nat \ {0} /\ Per \in Nat \ {0} /\ Lifetime \in Nat \ {0} /\ MaxTime \in Nat
    /\ MaxDeferred \in Nat

VARIABLES
    now,
    due,         \* Slot::due by target, in matrix order
    recent,      \* recent_starts: a set, as no target starts twice at one instant
    deferred,    \* how many runs the bound refused
    starts,      \* history: every start, with its target
    refresh,     \* when the echo's refresh timer fires
    boundUntil,  \* when its binding at the registrar expires
    lost         \* the last REGISTER of the echo was lost

schedVars == <<due, recent, deferred, starts>>
echoVars == <<refresh, boundUntil, lost>>
scheduleVars == <<now, schedVars, echoVars>>

Slots == 1..Targets
Stride == Interval \div Targets

-----------------------------------------------------------------------------
(* Scheduler *)

\* The starts that still count, told without a subtraction that would saturate at zero.
Trim_Saturating(window) ==
    {start \in window : start.at > (IF now > Per THEN now - Per ELSE 0)}
Trim(window) == {start \in window : start.at + Per > now}

\* Earliest due first, ties in matrix order.
Next_ByPosition(slot) ==
    /\ due[slot] <= now
    /\ \A other \in Slots : due[other] <= now => slot <= other
Next_Due(slot) ==
    /\ due[slot] <= now
    /\ \A other \in Slots \ {slot} :
          due[slot] < due[other] \/ (due[slot] = due[other] /\ slot < other)

\* A slot the bound refuses stays due.
TakeDue(slot) ==
    /\ Next_Due(slot)
    /\ IF Cardinality(Trim(recent)) >= Runs
       THEN /\ deferred < MaxDeferred
            /\ deferred' = deferred + 1
            /\ recent' = Trim(recent)
            /\ UNCHANGED <<due, starts>>
       ELSE /\ \E smear \in 0..Jitter : due' = [due EXCEPT ![slot] = now + Interval + smear]
            /\ recent' = Trim(recent) \cup {[at |-> now, slot |-> slot]}
            /\ starts' = starts \cup {[at |-> now, slot |-> slot]}
            /\ UNCHANGED deferred
    /\ UNCHANGED <<now, echoVars>>

-----------------------------------------------------------------------------
(* The echo's registration *)

RefreshAfter_Full == Lifetime
RefreshAfter == Lifetime \div 2

\* The timer fires: a REGISTER goes out, to be granted or lost, never two lost in a row.
Refresh ==
    /\ refresh = now
    /\ refresh' = now + RefreshAfter
    /\ \/ boundUntil' = now + Lifetime /\ lost' = FALSE
       \/ ~lost /\ lost' = TRUE /\ UNCHANGED boundUntil
    /\ UNCHANGED <<now, schedVars>>

Tick ==
    /\ now < MaxTime /\ refresh > now
    /\ now' = now + 1
    /\ UNCHANGED <<schedVars, echoVars>>

Stop == now = MaxTime /\ UNCHANGED scheduleVars

InitSchedule ==
    /\ now = 0
    /\ due = [slot \in Slots |-> Stride * (slot - 1)]
    /\ recent = {} /\ deferred = 0 /\ starts = {}
    /\ refresh = RefreshAfter /\ boundUntil = Lifetime /\ lost = FALSE

NextSchedule == Tick \/ Refresh \/ Stop \/ \E slot \in Slots : TakeDue(slot)

SpecSchedule == InitSchedule /\ [][NextSchedule]_scheduleVars

-----------------------------------------------------------------------------
(* Properties *)

\* No window of the bound's length holds more starts than the bound, early in the scheduler's
\* life as late (schedule.rs trim, T6).
RateIsBounded ==
    \A first \in starts :
        Cardinality({start \in starts : start.at \in first.at .. first.at + Per - 1}) <= Runs

\* A target that waits is overtaken by each other target at most once: the bound delays a
\* target and never starves it (schedule.rs take_due, "a skipped target is a blind spot").
NoTargetStarves ==
    \A slot, other \in Slots : slot # other =>
        Cardinality({start \in starts : start.slot = other /\ start.at >= due[slot]}) <= 1

\* Though every other REGISTER is lost, and whatever the lifetime, the binding holds up to the
\* refresh that follows the lost one: it is expired at no instant but the one at which that
\* refresh goes out (echo.rs register, half of the lifetime; a binding is expired at its expiry
\* instant).
LapseEndsWithRefresh == boundUntil >= now /\ (boundUntil = now => refresh = now)

\* Refuted: the binding never lapses though every other REGISTER is lost (echo.rs register, "so
\* one lost REGISTER does not lapse the binding"). With an even lifetime, such as the 3600 s of
\* the default, the second refresh is due at the very instant of expiry.
EchoStaysRegistered == boundUntil > now
================================================================================
