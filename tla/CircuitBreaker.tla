--------------------------- MODULE CircuitBreaker ---------------------------
(***************************************************************************)
(* One circuit of CircuitBreakerService.                                   *)
(*                                                                         *)
(* execute() looks at the circuit, awaits fn(), and only then records the  *)
(* result: Calls are the executions that may be awaiting at once, and a    *)
(* result is recorded in whatever state the circuit has reached meanwhile. *)
(* The code compares failures and successes with >= only, so each counter  *)
(* stops at its threshold here.  Of the time openedAt the model keeps      *)
(* whether the timeout has elapsed since.  What every module has is named  *)
(* CircuitNext and so on, for modules that extend another one beside it.   *)
(***************************************************************************)
EXTENDS Naturals

CONSTANTS
  Calls,             \* executions that may run at the same time
  FailureThreshold,  \* failures in a row that open the circuit
  SuccessThreshold   \* successes that close it from HALF_OPEN

ASSUME CircuitAssumptions ==
  /\ FailureThreshold \in Nat \ {0}
  /\ SuccessThreshold \in Nat \ {0}

VARIABLES
  state,      \* circuit.state
  failures,   \* circuit.failures, at most FailureThreshold
  successes,  \* circuit.successes, at most SuccessThreshold
  openedAt,   \* null, "recent", or "past" once the timeout has elapsed
  running,    \* the calls that await fn()
  healthy     \* the dependency answers

circuitVars == <<state, failures, successes, openedAt, running, healthy>>

CircuitTypeOK ==
  /\ state \in {"CLOSED", "OPEN", "HALF_OPEN"}
  /\ failures \in 0..FailureThreshold
  /\ successes \in 0..SuccessThreshold
  /\ openedAt \in {"null", "recent", "past"}
  /\ running \in SUBSET Calls
  /\ healthy \in BOOLEAN

\* getOrCreateCircuit.
CircuitInit ==
  /\ state = "CLOSED"
  /\ failures = 0
  /\ successes = 0
  /\ openedAt = "null"
  /\ running = {}
  /\ healthy \in BOOLEAN

-----------------------------------------------------------------------------
\* Counting, as far as the comparison with the threshold can tell.
OneMore(n, threshold) == IF n < threshold THEN n + 1 ELSE n

ShouldAttemptReset == openedAt = "past"

\* execute() up to the await.  A call that is rejected changes nothing and is
\* not a step, whether it throws or takes the fallback.
Execute(c) ==
  /\ c \notin running
  /\ \/ state # "OPEN" /\ UNCHANGED state
     \/ state = "OPEN" /\ ShouldAttemptReset /\ state' = "HALF_OPEN"
  /\ running' = running \cup {c}
  /\ UNCHANGED <<failures, successes, openedAt, healthy>>

\* Mutant of RecordSuccess: openedAt is cleared in every state.
RecordSuccessClearingTime ==
  /\ successes' = OneMore(successes, SuccessThreshold)
  /\ failures' = 0
  /\ openedAt' = "null"
  /\ state' = IF state = "HALF_OPEN" /\ successes' >= SuccessThreshold
              THEN "CLOSED" ELSE state

\* Mutant of RecordSuccess: successes are never counted.
RecordSuccessUncounted ==
  /\ failures' = 0
  /\ UNCHANGED successes
  /\ IF state = "HALF_OPEN" /\ successes' >= SuccessThreshold
     THEN state' = "CLOSED" /\ openedAt' = "null"
     ELSE UNCHANGED <<state, openedAt>>

RecordSuccess ==
  /\ successes' = OneMore(successes, SuccessThreshold)
  /\ failures' = 0
  /\ IF state = "HALF_OPEN" /\ successes' >= SuccessThreshold
     THEN state' = "CLOSED" /\ openedAt' = "null"
     ELSE UNCHANGED <<state, openedAt>>

\* Mutant of RecordFailure: the counters are swapped.
RecordFailureSwapped ==
  /\ successes' = successes + 1
  /\ failures' = 0
  /\ UNCHANGED <<state, openedAt>>

\* Mutant of RecordFailure: a failure while open starts the timeout again.
RecordFailurePostponing ==
  /\ failures' = OneMore(failures, FailureThreshold)
  /\ successes' = 0
  /\ IF failures' >= FailureThreshold
     THEN state' = "OPEN" /\ openedAt' = "recent"
     ELSE UNCHANGED <<state, openedAt>>

\* Mutant of RecordFailure: only a closed circuit opens.
RecordFailureWhenClosed ==
  /\ failures' = OneMore(failures, FailureThreshold)
  /\ successes' = 0
  /\ IF failures' >= FailureThreshold /\ state = "CLOSED"
     THEN state' = "OPEN" /\ openedAt' = "recent"
     ELSE UNCHANGED <<state, openedAt>>

RecordFailure ==
  /\ failures' = OneMore(failures, FailureThreshold)
  /\ successes' = 0
  /\ IF failures' >= FailureThreshold /\ state # "OPEN"
     THEN state' = "OPEN" /\ openedAt' = "recent"
     ELSE UNCHANGED <<state, openedAt>>

\* fn() resolves.
Succeed(c) ==
  /\ c \in running
  /\ healthy
  /\ RecordSuccess
  /\ running' = running \ {c}
  /\ UNCHANGED healthy

\* fn() rejects.
Fail(c) ==
  /\ c \in running
  /\ ~healthy
  /\ RecordFailure
  /\ running' = running \ {c}
  /\ UNCHANGED healthy

\* reset(): openedAt keeps its old value.
Reset ==
  /\ state' = "CLOSED"
  /\ failures' = 0
  /\ successes' = 0
  /\ UNCHANGED <<openedAt, running, healthy>>

\* The timeout elapses.
Elapse ==
  /\ openedAt = "recent"
  /\ openedAt' = "past"
  /\ UNCHANGED <<state, failures, successes, running, healthy>>

\* The dependency breaks down or recovers.
Turn ==
  /\ healthy' = ~healthy
  /\ UNCHANGED <<state, failures, successes, openedAt, running>>

CircuitNext ==
  \/ \E c \in Calls : Execute(c) \/ Succeed(c) \/ Fail(c)
  \/ Reset
  \/ Elapse
  \/ Turn

\* Clients keep calling, every call of the dependency ends, time passes.
CircuitFairness ==
  /\ \A c \in Calls : WF_circuitVars(Execute(c)) /\ WF_circuitVars(Succeed(c) \/ Fail(c))
  /\ WF_circuitVars(Elapse)

CircuitSpec == CircuitInit /\ [][CircuitNext]_circuitVars /\ CircuitFairness

-----------------------------------------------------------------------------
(* Properties.                                                             *)

\* An open circuit knows when it opened, or shouldAttemptReset would reject
\* calls for ever; and one on trial has waited the timeout out.
OpenCanRecover ==
  /\ state = "OPEN" => openedAt # "null"
  /\ state = "HALF_OPEN" => openedAt = "past"

\* A circuit stays open for one whole timeout from each opening, whatever an
\* earlier opening or reset() left behind: until then only reset() ends it, and
\* the late results of calls begun before neither close it nor prolong it.
OpenForOneTimeout ==
  [][/\ state # "OPEN" /\ state' = "OPEN" => openedAt' = "recent"
     /\ state = "OPEN" =>
          \/ state' = "OPEN" /\ (openedAt' = openedAt \/ Elapse)
          \/ state' = "HALF_OPEN" /\ openedAt = "past" /\ running' # running
          \/ Reset]_circuitVars

\* Once the dependency stays healthy, the circuit ends up closed for good.
Recovers == <>[]healthy => <>[](state = "CLOSED")

\* While the dependency stays down and nobody resets it, the circuit is open
\* again and again: a trial never goes on for ever.
Protects == <>[]~healthy /\ <>[][~Reset]_circuitVars => []<>(state = "OPEN")
=============================================================================
