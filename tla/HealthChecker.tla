---------------------------- MODULE HealthChecker ----------------------------
(***************************************************************************)
(* One readiness probe: Checker.Check of internal/health/checker.go.       *)
(*                                                                         *)
(* Check starts one goroutine per dependency.  Each sends its result on a  *)
(* channel; Check selects between the channel and the end of the probe's   *)
(* context (timeout, or the caller hung up), and Go chooses freely when    *)
(* both are ready.  Goroutines outlive a Check that returned on the        *)
(* timeout.                                                                *)
(***************************************************************************)
EXTENDS Naturals, Sequences, FiniteSets

CONSTANT
  Dependency    \* names of the dependencies; the program has two

ASSUME HealthAssumption ==
  /\ IsFiniteSet(Dependency)
  /\ Dependency # {}

VARIABLES
  worker,     \* the goroutine of a dependency: calling, answered, done
  answer,     \* what its check returned: TRUE for a nil error
  results,    \* the channel
  pending,    \* dependencies with no result yet
  reported,   \* report.Dependencies, "none" while the key is absent
  ready,      \* report.Status = StatusReady
  completed,  \* the loop counter
  over,       \* checkContext.Done() is closed
  returned    \* Check has returned its report

checkVars == <<worker, answer, results, pending, reported, ready, completed, over,
          returned>>

Result == [name : Dependency, up : BOOLEAN]

\* Mutant: one slot too few.
CapacityShort == Cardinality(Dependency) - 1

\* make(chan result, len(c.dependencies))
Capacity == Cardinality(Dependency)

CheckInit ==
  /\ worker = [d \in Dependency |-> "calling"]
  /\ answer = [d \in Dependency |-> FALSE]
  /\ results = <<>>
  /\ pending = Dependency
  /\ reported = [d \in Dependency |-> "none"]
  /\ ready = TRUE
  /\ completed = 0
  /\ over = FALSE
  /\ returned = FALSE

\* The dependency answers, or its check gives up; a nil check is an error.
Answer(d) ==
  /\ worker[d] = "calling"
  /\ worker' = [worker EXCEPT ![d] = "answered"]
  /\ \E ok \in BOOLEAN : answer' = [answer EXCEPT ![d] = ok]
  /\ UNCHANGED <<results, pending, reported, ready, completed, over, returned>>

Send(d) ==
  /\ worker[d] = "answered"
  /\ Len(results) < Capacity
  /\ worker' = [worker EXCEPT ![d] = "done"]
  /\ results' = Append(results, [name |-> d, up |-> answer[d]])
  /\ UNCHANGED <<answer, pending, reported, ready, completed, over, returned>>

\* The timeout passes or the caller's context ends.
ContextEnds ==
  /\ ~over
  /\ over' = TRUE
  /\ UNCHANGED <<worker, answer, results, pending, reported, ready, completed,
                 returned>>

Looping == ~returned /\ completed < Cardinality(Dependency)

\* Mutant: a result counts twice.
ReceiveTwice ==
  LET r == Head(results) IN
  /\ Looping
  /\ results # <<>>
  /\ results' = Tail(results)
  /\ pending' = pending \ {r.name}
  /\ reported' = [reported EXCEPT ![r.name] = IF r.up THEN "up" ELSE "down"]
  /\ ready' = (ready /\ r.up)
  /\ completed' = completed + 2
  /\ UNCHANGED <<worker, answer, over, returned>>

Receive ==
  LET r == Head(results) IN
  /\ Looping
  /\ results # <<>>
  /\ results' = Tail(results)
  /\ pending' = pending \ {r.name}
  /\ reported' = [reported EXCEPT ![r.name] = IF r.up THEN "up" ELSE "down"]
  /\ ready' = (ready /\ r.up)
  /\ completed' = completed + 1
  /\ UNCHANGED <<worker, answer, over, returned>>

\* Mutants of GiveUp: the dependencies without a result are left out of the
\* report; the status is left alone; the select does not watch the context.
GiveUpSilently ==
  /\ Looping
  /\ over
  /\ ready' = FALSE
  /\ returned' = TRUE
  /\ UNCHANGED <<worker, answer, results, pending, reported, completed, over>>

GiveUpReady ==
  /\ Looping
  /\ over
  /\ reported' = [d \in Dependency |-> IF d \in pending THEN "down" ELSE reported[d]]
  /\ returned' = TRUE
  /\ UNCHANGED <<worker, answer, results, pending, ready, completed, over>>

GiveUpNever == FALSE /\ UNCHANGED checkVars

\* case <-checkContext.Done()
GiveUp ==
  /\ Looping
  /\ over
  /\ ready' = FALSE
  /\ reported' = [d \in Dependency |-> IF d \in pending THEN "down" ELSE reported[d]]
  /\ returned' = TRUE
  /\ UNCHANGED <<worker, answer, results, pending, completed, over>>

\* The loop is done; the deferred cancel ends the context.
ReturnReport ==
  /\ ~returned
  /\ completed = Cardinality(Dependency)
  /\ returned' = TRUE
  /\ over' = TRUE
  /\ UNCHANGED <<worker, answer, results, pending, reported, ready, completed>>

CheckNext ==
  \/ \E d \in Dependency : Answer(d) \/ Send(d)
  \/ ContextEnds
  \/ Receive
  \/ GiveUp
  \/ ReturnReport

CheckSpec == CheckInit /\ [][CheckNext]_checkVars

-----------------------------------------------------------------------------
\* Every variable holds a value of its Go type.
CheckTypeOK ==
  /\ worker \in [Dependency -> {"calling", "answered", "done"}]
  /\ answer \in [Dependency -> BOOLEAN]
  /\ results \in Seq(Result)
  /\ pending \subseteq Dependency
  /\ reported \in [Dependency -> {"none", "up", "down"}]
  /\ ready \in BOOLEAN
  /\ completed \in 0 .. Cardinality(Dependency)
  /\ over \in BOOLEAN
  /\ returned \in BOOLEAN

\* A probe that says ready heard a success from every dependency, whichever
\* way the select went ("Readiness returns 200 OK only when both PostgreSQL
\* and Redis respond").
ReadyMeansAllUp ==
  returned /\ ready =>
    \A d \in Dependency : worker[d] = "done" /\ answer[d] /\ reported[d] = "up"

\* The report names every dependency: also one that never answered.
EveryDependencyReported ==
  returned => \A d \in Dependency : reported[d] # "none"
=============================================================================
