------------------------------- MODULE Process -------------------------------
(***************************************************************************)
(* Lifecycle and HealthChecker together: a readiness probe is a request of *)
(* the HTTP server (RegisterOperationalRoutes of                           *)
(* internal/server/http/operations.go), its handler runs Check, and the    *)
(* dependencies Check asks are the two clients that main opens and closes. *)
(*                                                                         *)
(* The probe may overlap every step of a shutdown: its handler may be      *)
(* asking a client that is being closed, and the goroutines it started may *)
(* outlive it.                                                             *)
(***************************************************************************)
EXTENDS Lifecycle, HealthChecker

CONSTANT Probe   \* a request for /readyz

ASSUME ProcessAssumption ==
  /\ Probe \in Request \ GRPC
  /\ Dependency = Stores

processVars == <<vars, checkVars>>

\* A closed client answers a ping with an error.
AnswersFrom(open) ==
  \A d \in Dependency : worker[d] = "calling" /\ answer'[d] => d \in open

\* The handler writes the report that Check returned.
HandlerWaits ==
  request[Probe] \in {"active", "cut"} /\ request'[Probe] = "done" => returned

CheckStep ==
  /\ Running
  /\ request[Probe] # "new"
  /\ CheckNext
  /\ AnswersFrom(stores)
  /\ UNCHANGED vars

ServerSide(action) == action /\ HandlerWaits /\ UNCHANGED checkVars

ProcessInit == Init /\ CheckInit

ProcessNext == CheckStep \/ ServerSide(Next)

\* What goes on by itself: main, the timers of the shutdown and of the probe,
\* a server's goroutine that has an error to report, and Check with the
\* goroutines that have a result to send.  No handler is assumed to finish and
\* no store to answer.
Progress ==
  \/ ServerSide(MainStep \/ Deadline \/ \E s \in Server : ReportError(s))
  \/ /\ CheckStep
     /\ ContextEnds \/ Receive \/ GiveUp \/ ReturnReport \/ \E d \in Dependency : Send(d)

\* The Go scheduler runs some goroutine when one can run.  Each step of
\* Progress is taken a bounded number of times and stays enabled until it is
\* taken or made pointless, so this is as strong as fairness to each.
ProcessFairness == WF_processVars(Progress)

ProcessSpec == ProcessInit /\ [][ProcessNext]_processVars /\ ProcessFairness

-----------------------------------------------------------------------------
(***************************************************************************)
(* Properties, beside those of the two modules.                            *)
(***************************************************************************)
\* Every variable holds a value of its type.
ProcessTypeOK == TypeOK /\ CheckTypeOK

\* The probe ends although dependencies may never answer, or the process ends.
ProbeReturns == request[Probe] = "active" ~> returned \/ ~Running

\* No goroutine is left with a result it cannot send, also when Check has
\* returned and nobody receives any more; or the process ends.
GoroutinesEnd ==
  (\E d \in Dependency : worker[d] = "answered") ~>
    (\A d \in Dependency : worker[d] # "answered") \/ ~Running

-----------------------------------------------------------------------------
(***************************************************************************)
(* The guards of Progress, action by action: ENABLED in a form that can be *)
(* reasoned about.                                                         *)
(***************************************************************************)
\* main has its next step, or waits for the deadline, or a goroutine has an
\* error to report.
MainCan ==
  \/ main \in {"startGRPC", "startHTTP", "notify", "httpShutdown", "grpcStop", "closeRedis",
               "closePostgres", "exit"}
  \/ main = "select" /\ (signals > 0 \/ errors > 0)
  \/ \E s \in Server : serving[s] = "failed" /\ errors < ErrorCapacity

\* The context can end, Check receive, give up or return, or a goroutine send.
CheckCan ==
  /\ request[Probe] # "new"
  /\ \/ ~over
     \/ Looping /\ (results # <<>> \/ over)
     \/ ~returned /\ completed = Cardinality(Dependency)
     \/ \E d \in Dependency : worker[d] = "answered" /\ Len(results) < Capacity

CanGoOn == Running /\ (MainCan \/ CheckCan)

\* While main has a step to take, a goroutine an error to report or a result to
\* send, or Check something to do, nothing they wait for in the process holds
\* them back: the guards are all there is to it.
GuardsAreEnabled == CanGoOn <=> ENABLED <<Progress>>_processVars

\* ProcessFairness and ProcessSpec with the guards in place of ENABLED.
GuardedFairness == <>[]CanGoOn => []<><<Progress>>_processVars

GuardedSpec == ProcessInit /\ [][ProcessNext]_processVars /\ GuardedFairness
=============================================================================
