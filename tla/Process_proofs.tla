--------------------------- MODULE Process_proofs ---------------------------
(***************************************************************************)
(* Theorems about Lifecycle, for any number of requests on both servers,   *)
(* about HealthChecker, for any finite set of dependencies, and about      *)
(* Process, which runs the checker inside the life cycle.                  *)
(*                                                                         *)
(* The composed system implements its two parts: seen through the          *)
(* variables of one of them, every behaviour of Process is one of that     *)
(* part.  What is proved of the parts therefore holds of the whole.        *)
(***************************************************************************)
EXTENDS Process, FiniteSetTheorems, SequenceTheorems, TLAPS

-----------------------------------------------------------------------------
(* The life cycle of the process: main, its servers and their requests.    *)

\* Which stores are open follows from where main is.
StoresOpen ==
  /\ main \in {"config", "postgres"} => stores = {}
  /\ main \in {"seed", "redis", "closePostgres"} => stores = {"postgres"}
  /\ main \notin {"config", "postgres", "seed", "redis", "closePostgres", "exit", "exited"}
       => stores = Stores

\* A server's goroutine is started by main, and the requests come after it.
ServersStart ==
  /\ main \in {"config", "postgres", "seed", "redis", "startGRPC"} =>
       serving["grpc"] = "none" /\ \A r \in Request : request[r] = "new"
  /\ main \in {"config", "postgres", "seed", "redis", "startGRPC", "startHTTP"} =>
       serving["http"] = "none"
  /\ \A s \in listening : serving[s] = "serving"

\* A server that was told to stop accepts nothing.
ServersStop ==
  /\ main \notin Startup \cup {"select"} => "http" \notin listening
  /\ stopping \in {"draining", "stopped"} => "grpc" \notin listening
  /\ Closing => listening = {}
  /\ ~Running => listening = {}

\* Signals are heard from the select on.
Hears ==
  /\ main \in Startup => ~notified
  /\ main \notin Startup \cup {"exited"} => notified

\* Until the deadline, nothing is cut off, and a server that was drained has no
\* requests.
Drained ==
  ~expired =>
    /\ Running \/ notified => \A r \in Request : request[r] \in {"new", "active", "done"}
    /\ main \in {"grpcStop"} \cup {"closeRedis", "closePostgres", "exit"} => Active("http") = {}
    /\ stopping = "stopped" /\ Running => Active("grpc") = {}
    /\ main \in {"closeRedis", "closePostgres", "exit"} => stopping = "stopped"
    /\ ~Running /\ notified => Active("http") = {} /\ Active("grpc") = {}

LifecycleInv == TypeOK /\ StoresOpen /\ ServersStart /\ ServersStop /\ Hears /\ Drained

-----------------------------------------------------------------------------
\* Room for the error of each server.
LEMMA ErrorRoom == ErrorCapacity \in Nat
<1>1. IsFiniteSet({})
  BY FS_EmptySet
<1>2. IsFiniteSet({} \cup {"http"})
  BY <1>1, FS_AddElement
<1>3. IsFiniteSet(({} \cup {"http"}) \cup {"grpc"})
  BY <1>2, FS_AddElement
<1>4. Server = ({} \cup {"http"}) \cup {"grpc"}
  BY DEF Server
<1> QED
  BY <1>3, <1>4, FS_CardinalityType DEF ErrorCapacity

\* Every request belongs to one of the two servers.
LEMMA TwoServers == \A r \in Request : ServerOf(r) \in Server
BY DEF ServerOf, Server

\* The invariant holds when main starts.
LEMMA LifecycleStarts == Init => LifecycleInv
<1> SUFFICES ASSUME Init PROVE LifecycleInv
  OBVIOUS
<1> USE DEF Init
<1>1. TypeOK
  <2>1. /\ errors \in 0 .. ErrorCapacity
        /\ signals \in 0 .. SignalCapacity
    BY ErrorRoom DEF SignalCapacity
  <2>2. /\ serving \in [Server -> {"none", "starting", "serving", "failed", "ended"}]
        /\ request \in [Request -> {"new", "active", "cut", "done", "killed"}]
    OBVIOUS
  <2>3. main \in Main /\ stores \subseteq Stores
    BY DEF Main, Startup
  <2> QED
    BY <2>1, <2>2, <2>3 DEF TypeOK
<1>2. StoresOpen /\ ServersStop /\ Hears
  BY DEF StoresOpen, ServersStop, Hears, Startup, Closing, Running
<1>3. ServersStart
  BY DEF ServersStart, Server
<1>4. Drained
  BY DEF Drained, Running, Active
<1> QED
  BY <1>1, <1>2, <1>3, <1>4 DEF LifecycleInv

\* Every step keeps every variable in its type: the position of main and the
\* stores, ...
LEMMA MainTypes ==
  TypeOK /\ [Next]_vars => main' \in Main /\ stores' \subseteq Stores
<1> SUFFICES ASSUME TypeOK, [Next]_vars PROVE main' \in Main /\ stores' \subseteq Stores
  OBVIOUS
<1> USE DEF TypeOK, Main, Startup, Stores
<1>1. CASE StartupStep \/ StartGRPC \/ StartHTTP \/ Notify
  BY <1>1 DEF StartupStep, LoadConfig, OpenPostgres, MigrateAndSeed, OpenRedis, StartGRPC,
              StartHTTP, Notify, Goto, Unchanged
<1>2. CASE BeginShutdown \/ HTTPShutdown \/ GRPCStopped \/ ForceStop \/ CloseRedis
           \/ ClosePostgres \/ Exit
  BY <1>2 DEF BeginShutdown, HTTPShutdown, GRPCStopped, ForceStop, CloseRedis,
              ClosePostgres, Exit
<1>3. CASE \/ \E s \in Server : ServerStep(s)
           \/ \E r \in Request : Accept(r) \/ Finish(r)
  BY <1>3 DEF ServerStep, Listen, ServeFails, ServeEnds, ReportError, Accept, Finish
<1>4. CASE Signal \/ Deadline \/ GracefulStop \/ GRPCDrained \/ UNCHANGED vars
  BY <1>4 DEF Signal, Deadline, GracefulStop, GRPCDrained, vars
<1> QED
  BY <1>1, <1>2, <1>3, <1>4 DEF Next, MainStep

\* ... the two channels, ...
LEMMA ChannelTypes ==
  TypeOK /\ [Next]_vars => errors' \in 0 .. ErrorCapacity /\ signals' \in 0 .. SignalCapacity
<1> SUFFICES ASSUME TypeOK, [Next]_vars
             PROVE  errors' \in 0 .. ErrorCapacity /\ signals' \in 0 .. SignalCapacity
  OBVIOUS
<1> USE ErrorRoom DEF TypeOK, SignalCapacity
<1>1. CASE StartupStep \/ StartGRPC \/ StartHTTP \/ Notify
  BY <1>1 DEF StartupStep, LoadConfig, OpenPostgres, MigrateAndSeed, OpenRedis, StartGRPC,
              StartHTTP, Notify, Unchanged
<1>2. CASE HTTPShutdown \/ GRPCStopped \/ ForceStop \/ CloseRedis \/ ClosePostgres \/ Exit
  BY <1>2 DEF HTTPShutdown, GRPCStopped, ForceStop, CloseRedis, ClosePostgres, Exit
<1>3. CASE BeginShutdown
  BY <1>3 DEF BeginShutdown
<1>4. ASSUME NEW s \in Server, ServerStep(s)
      PROVE  errors' \in 0 .. ErrorCapacity /\ signals' \in 0 .. SignalCapacity
  BY <1>4 DEF ServerStep, Listen, ServeFails, ServeEnds, ReportError
<1>5. CASE \E r \in Request : Accept(r) \/ Finish(r)
  BY <1>5 DEF Accept, Finish
<1>6. CASE Signal \/ Deadline \/ GracefulStop \/ GRPCDrained \/ UNCHANGED vars
  BY <1>6 DEF Signal, Deadline, GracefulStop, GRPCDrained, vars
<1> QED
  BY <1>1, <1>2, <1>3, <1>4, <1>5, <1>6 DEF Next, MainStep

\* ... and everything else.
LEMMA TypesKept == TypeOK /\ [Next]_vars => TypeOK'
<1> SUFFICES ASSUME TypeOK, [Next]_vars PROVE TypeOK'
  OBVIOUS
<1> DEFINE Rest ==
      /\ serving \in [Server -> {"none", "starting", "serving", "failed", "ended"}]
      /\ listening \subseteq Server
      /\ expired \in BOOLEAN
      /\ stopping \in {"none", "started", "draining", "stopped"}
      /\ status \in {"NONE", "SERVING", "NOT_SERVING"}
      /\ request \in [Request -> {"new", "active", "cut", "done", "killed"}]
      /\ notified \in BOOLEAN
<1>1. Rest
  BY DEF TypeOK
<1>2. Rest'
  <2> USE <1>1
  <2>1. CASE StartupStep
    BY <2>1 DEF StartupStep, LoadConfig, OpenPostgres, MigrateAndSeed, OpenRedis, Unchanged
  <2>2. CASE StartGRPC \/ StartHTTP \/ Notify
    BY <2>2 DEF StartGRPC, StartHTTP, Notify, Unchanged
  <2>3. CASE BeginShutdown \/ HTTPShutdown \/ GRPCStopped \/ CloseRedis \/ ClosePostgres
    BY <2>3 DEF BeginShutdown, HTTPShutdown, GRPCStopped, CloseRedis, ClosePostgres
  <2>4. CASE ForceStop \/ Exit
    BY <2>4 DEF ForceStop, Exit
  <2>5. ASSUME NEW s \in Server, ServerStep(s) PROVE Rest'
    BY <2>5 DEF ServerStep, Listen, ServeFails, ServeEnds, ReportError
  <2>6. ASSUME NEW r \in Request, Accept(r) \/ Finish(r) PROVE Rest'
    BY <2>6 DEF Accept, Finish
  <2>7. CASE Signal \/ Deadline \/ GracefulStop \/ GRPCDrained \/ UNCHANGED vars
    BY <2>7 DEF Signal, Deadline, GracefulStop, GRPCDrained, vars
  <2> QED
    BY <2>1, <2>2, <2>3, <2>4, <2>5, <2>6, <2>7 DEF Next, MainStep
<1> QED
  BY <1>2, MainTypes, ChannelTypes DEF TypeOK

\* The steps of the servers' goroutines keep the invariant.
LEMMA ServersKeep ==
  ASSUME LifecycleInv, TypeOK', NEW s \in Server, ServerStep(s)
  PROVE  LifecycleInv'
<1> USE DEF LifecycleInv, TypeOK, Running, Main, Startup, Closing
<1>1. CASE Listen(s)
  <2> USE <1>1 DEF Listen, Stopped
  <2>1. StoresOpen' /\ Hears'
    BY DEF StoresOpen, Hears
  <2>2. ServersStart'
    BY DEF ServersStart, Server
  <2>3. ServersStop'
    BY DEF ServersStop, Server
  <2>4. Drained'
    BY DEF Drained, Active
  <2> QED
    BY <2>1, <2>2, <2>3, <2>4
<1>2. CASE ServeFails(s) \/ ServeEnds(s) \/ ReportError(s)
  <2> USE <1>2 DEF ServeFails, ServeEnds, ReportError
  <2>1. StoresOpen' /\ Hears'
    BY DEF StoresOpen, Hears
  <2>2. ServersStart'
    BY DEF ServersStart, Server
  <2>3. ServersStop'
    BY DEF ServersStop
  <2>4. Drained'
    BY DEF Drained, Active
  <2> QED
    BY <2>1, <2>2, <2>3, <2>4
<1> QED
  BY <1>1, <1>2 DEF ServerStep

\* So do requests that come and go, ...
LEMMA RequestsKeep ==
  ASSUME LifecycleInv, TypeOK', NEW r \in Request, Accept(r) \/ Finish(r)
  PROVE  LifecycleInv'
<1> USE DEF LifecycleInv, TypeOK, Running, Main, Startup, Closing
<1>1. UNCHANGED <<main, serving, listening, expired, stopping, stores, notified>>
  BY DEF Accept, Finish
<1>2. StoresOpen' /\ Hears' /\ ServersStop'
  BY <1>1 DEF StoresOpen, Hears, ServersStop
<1>3. CASE Accept(r)
  <2>1. ServerOf(r) \in listening /\ request' = [request EXCEPT ![r] = "active"]
    BY <1>3 DEF Accept
  <2>2. ServersStart'
    BY <1>1, <2>1, TwoServers DEF ServersStart, Server
  <2>3. Drained'
    <3>1. \A s \in Server : Active(s)' = Active(s) \/ s = ServerOf(r)
      BY <2>1 DEF Active
    <3>2. \A q \in Request : request'[q] \in {request[q], "active"}
      BY <2>1
    <3>3. Running
      BY <1>3 DEF Accept
    <3> QED
      BY <1>1, <2>1, <3>1, <3>2, <3>3 DEF Drained, ServersStop, Server
  <2> QED
    BY <1>2, <2>2, <2>3
<1>4. CASE Finish(r)
  <2>1. /\ request[r] \in {"active", "cut"}
        /\ request' = [request EXCEPT ![r] = "done"]
    BY <1>4 DEF Finish
  <2>2. ServersStart'
    BY <1>1, <2>1 DEF ServersStart
  <2>3. Drained'
    <3>1. \A s \in Server : Active(s)' \subseteq Active(s)
      BY <2>1 DEF Active
    <3>2. \A q \in Request : request'[q] \in {request[q], "done"}
      BY <2>1
    <3> QED
      BY <1>1, <2>1, <3>1, <3>2 DEF Drained, Server
  <2> QED
    BY <1>2, <2>2, <2>3
<1> QED
  BY <1>3, <1>4

\* ... the start of the process, ...
LEMMA StartupKeeps ==
  ASSUME LifecycleInv, TypeOK', StartupStep \/ StartGRPC \/ StartHTTP \/ Notify
  PROVE  LifecycleInv'
<1> USE DEF LifecycleInv, TypeOK, Running, Main, Startup, Closing, Goto, Unchanged,
            StartupStep, LoadConfig, OpenPostgres, MigrateAndSeed, OpenRedis, StartGRPC,
            StartHTTP, Notify
<1>1. StoresOpen'
  BY DEF StoresOpen, Stores
<1>2. ServersStart'
  BY DEF ServersStart, Server
<1>3. ServersStop'
  BY DEF ServersStop
<1>4. Hears'
  BY DEF Hears
<1>5. Drained'
  BY DEF Drained, Active
<1> QED
  BY <1>1, <1>2, <1>3, <1>4, <1>5

\* ... and its end.
LEMMA ShutdownKeeps ==
  ASSUME LifecycleInv, TypeOK',
         \/ Signal \/ Deadline \/ BeginShutdown \/ HTTPShutdown \/ GracefulStop
         \/ GRPCDrained \/ GRPCStopped \/ ForceStop \/ CloseRedis \/ ClosePostgres \/ Exit
  PROVE  LifecycleInv'
<1> USE DEF LifecycleInv, TypeOK, Running, Main, Startup, Closing
<1>1. CASE Signal \/ Deadline \/ GracefulStop \/ GRPCDrained
  BY <1>1 DEF Signal, Deadline, GracefulStop, GRPCDrained, StoresOpen, ServersStart,
              ServersStop, Hears, Drained, Active
<1>2. CASE BeginShutdown \/ HTTPShutdown \/ GRPCStopped
  BY <1>2 DEF BeginShutdown, HTTPShutdown, GRPCStopped, StoresOpen, ServersStart,
              ServersStop, Hears, Drained, Active, Server
<1>3. CASE ForceStop
  BY <1>3 DEF ForceStop, StoresOpen, ServersStart, ServersStop, Hears, Drained, Server
<1>4. CASE CloseRedis \/ ClosePostgres
  BY <1>4 DEF CloseRedis, ClosePostgres, StoresOpen, ServersStart, ServersStop, Hears,
              Drained, Active, Stores
<1>5. CASE Exit
  <2> USE <1>5 DEF Exit
  <2>1. StoresOpen' /\ ServersStart' /\ ServersStop' /\ Hears'
    BY DEF StoresOpen, ServersStart, ServersStop, Hears
  <2>2. Drained'
    <3> SUFFICES ASSUME ~expired, notified
                 PROVE  /\ \A r \in Request : request'[r] \in {"new", "active", "done"}
                        /\ Active("http")' = {} /\ Active("grpc")' = {}
      BY DEF Drained
    <3>1. main \in {"closeRedis", "closePostgres", "exit"}
      BY DEF Hears
    <3>2. Active("http") = {} /\ Active("grpc") = {}
      BY <3>1 DEF Drained
    <3>3. \A r \in Request : request[r] \in {"new", "done"}
      BY <3>2 DEF Drained, Active, ServerOf
    <3> QED
      BY <3>3 DEF Active
  <2> QED
    BY <2>1, <2>2
<1> QED
  BY <1>1, <1>2, <1>3, <1>4, <1>5

\* Every step keeps the invariant.
LEMMA LifecycleKept == LifecycleInv /\ [Next]_vars => LifecycleInv'
<1> SUFFICES ASSUME LifecycleInv, [Next]_vars PROVE LifecycleInv'
  OBVIOUS
<1>1. TypeOK'
  BY TypesKept DEF LifecycleInv
<1>2. CASE UNCHANGED vars
  BY <1>1, <1>2 DEF vars, LifecycleInv, StoresOpen, ServersStart, ServersStop, Hears, Drained,
                    Closing, Running, Active
<1> QED
  BY <1>1, <1>2, ServersKeep, RequestsKeep, StartupKeeps, ShutdownKeeps DEF Next, MainStep

\* The invariant holds in every reachable state.
THEOREM LifecycleInvariance == Spec => []LifecycleInv
BY LifecycleStarts, LifecycleKept, PTL DEF Spec

\* No server accepts requests unless both stores are open and seeded.
THEOREM ServersNeedStores == Spec => []NoRequestWithoutStores
<1>1. LifecycleInv => NoRequestWithoutStores
  BY DEF LifecycleInv, NoRequestWithoutStores, TypeOK, StoresOpen, ServersStart, ServersStop,
         Closing, Running, Main, Startup, Server
<1> QED
  BY <1>1, LifecycleInvariance, PTL

\* No accepted request is lost before the deadline of the shutdown.
THEOREM RequestsKept == Spec => []RequestsGetTheirTime
<1>1. LifecycleInv => RequestsGetTheirTime
  BY DEF LifecycleInv, RequestsGetTheirTime, TypeOK, StoresOpen, ServersStart, Drained, Hears,
         Active, ServerOf, Closing, Running, Main, Startup
<1> QED
  BY <1>1, LifecycleInvariance, PTL

-----------------------------------------------------------------------------
(* One call of Check: the workers, the channel and the deadline.           *)

\* The loop counter counts the dependencies with a result.
Counting == completed + Cardinality(pending) = Cardinality(Dependency)

\* The channel holds one result of each dependency that sent one and was not
\* received yet, and the result says what the dependency answered.
InTheChannel ==
  \A i \in 1 .. Len(results) :
    /\ results[i].name \in pending
    /\ worker[results[i].name] = "done"
    /\ results[i].up = answer[results[i].name]
    /\ \A j \in 1 .. Len(results) : results[i].name = results[j].name => i = j

\* The report says of the dependencies with a result what they answered.
Heard ==
  \A d \in Dependency \ pending :
    /\ worker[d] = "done"
    /\ reported[d] = IF answer[d] THEN "up" ELSE "down"
    /\ ready => answer[d]

\* A report is complete: all dependencies were heard, or those that were not
\* are down and the status is not ready.
Complete ==
  returned =>
    /\ \A d \in Dependency : reported[d] # "none"
    /\ pending = {} \/ ~ready

CheckInv == CheckTypeOK /\ Counting /\ InTheChannel /\ Heard /\ Complete

-----------------------------------------------------------------------------
\* The number of dependencies, and of those that are pending, is a natural number.
LEMMA Sizes ==
  ASSUME NEW S \in SUBSET Dependency
  PROVE  IsFiniteSet(S) /\ Cardinality(S) \in Nat
BY HealthAssumption, FS_Subset, FS_CardinalityType

\* The invariant holds when Check is called.
LEMMA CheckStarts == CheckInit => CheckInv
<1> SUFFICES ASSUME CheckInit PROVE CheckInv
  OBVIOUS
<1> USE DEF CheckInit
<1>1. Cardinality(Dependency) \in Nat
  BY Sizes
<1>2. results \in Seq(Result) /\ Len(results) = 0
  <2>1. <<>> \in Seq(Result) /\ Len(<<>>) = 0
    BY EmptySeq
  <2>2. results = <<>>
    OBVIOUS
  <2> QED
    BY <2>1, <2>2
<1>3. CheckTypeOK
  <2>1. /\ worker \in [Dependency -> {"calling", "answered", "done"}]
        /\ answer \in [Dependency -> BOOLEAN]
        /\ reported \in [Dependency -> {"none", "up", "down"}]
    OBVIOUS
  <2>2. completed \in 0 .. Cardinality(Dependency)
    BY <1>1
  <2>3. results \in Seq(Result) /\ pending \subseteq Dependency
    BY <1>2
  <2> QED
    BY <2>1, <2>2, <2>3 DEF CheckTypeOK
<1>4. Counting
  BY <1>1 DEF Counting
<1>5. InTheChannel /\ Heard /\ Complete
  BY <1>2 DEF InTheChannel, Heard, Complete
<1> QED
  BY <1>3, <1>4, <1>5 DEF CheckInv

\* A dependency that answers was not heard yet.
LEMMA AnswerKeeps ==
  ASSUME CheckInv, NEW d \in Dependency, Answer(d)
  PROVE  CheckInv'
<1> USE DEF CheckInv, Answer
<1>1. CheckTypeOK'
  BY DEF CheckTypeOK
<1>2. Counting' /\ Complete'
  BY DEF Counting, Complete
<1>3. InTheChannel'
  BY DEF InTheChannel, CheckTypeOK
<1>4. Heard'
  BY DEF Heard, CheckTypeOK
<1> QED
  BY <1>1, <1>2, <1>3, <1>4

\* A goroutine sends one result, about its own dependency.
LEMMA SendKeeps ==
  ASSUME CheckInv, NEW d \in Dependency, Send(d)
  PROVE  CheckInv'
<1> DEFINE r == [name |-> d, up |-> answer[d]]
<1> USE DEF CheckInv, Send
<1>1. r \in Result /\ results \in Seq(Result) /\ Len(results) \in Nat
  BY LenProperties DEF CheckTypeOK, Result
<1>2. /\ results' \in Seq(Result)
      /\ Len(results') = Len(results) + 1
      /\ \A i \in 1 .. Len(results) : results'[i] = results[i]
      /\ results'[Len(results) + 1] = r
  BY <1>1
<1>3. CheckTypeOK'
  BY <1>2 DEF CheckTypeOK
<1>4. Counting' /\ Complete'
  BY DEF Counting, Complete
<1>5. d \in pending
  BY DEF Heard, CheckTypeOK
<1>6. \A i \in 1 .. Len(results) : results[i].name # d
  BY DEF InTheChannel
<1>7. InTheChannel'
  <2> SUFFICES ASSUME NEW i \in 1 .. Len(results'), NEW j \in 1 .. Len(results')
               PROVE  /\ results'[i].name \in pending
                      /\ worker'[results'[i].name] = "done"
                      /\ results'[i].up = answer[results'[i].name]
                      /\ results'[i].name = results'[j].name => i = j
    BY DEF InTheChannel
  <2>1. /\ i \in 1 .. Len(results) \/ i = Len(results) + 1
        /\ j \in 1 .. Len(results) \/ j = Len(results) + 1
    BY <1>1, <1>2
  <2>2. CASE i \in 1 .. Len(results)
    BY <1>1, <1>2, <1>6, <2>1, <2>2 DEF InTheChannel, CheckTypeOK
  <2>3. CASE i = Len(results) + 1
    BY <1>1, <1>2, <1>5, <1>6, <2>1, <2>3 DEF CheckTypeOK
  <2> QED
    BY <2>1, <2>2, <2>3
<1>8. Heard'
  BY <1>5 DEF Heard, CheckTypeOK
<1> QED
  BY <1>3, <1>4, <1>7, <1>8

\* Check hears of a dependency it had not heard of.
LEMMA ReceiveKeeps ==
  ASSUME CheckInv, Receive
  PROVE  CheckInv'
<1> DEFINE r == Head(results)
<1> USE DEF CheckInv, Receive
<1>1. results \in Seq(Result) /\ results # <<>> /\ Len(results) \in Nat \ {0}
  BY EmptySeq DEF CheckTypeOK
<1>2. /\ r \in Result
      /\ r = results[1]
      /\ Tail(results) \in Seq(Result)
      /\ Len(Tail(results)) = Len(results) - 1
      /\ \A i \in 1 .. Len(Tail(results)) : Tail(results)[i] = results[i + 1]
  BY <1>1, HeadTailProperties
<1>3. /\ r.name \in pending
      /\ worker[r.name] = "done"
      /\ r.up = answer[r.name]
      /\ \A j \in 2 .. Len(results) : results[j].name # r.name
  BY <1>1, <1>2 DEF InTheChannel
<1>4. r.name \in Dependency /\ r.up \in BOOLEAN
  BY <1>2 DEF Result
<1>5. /\ Cardinality(pending) \in Nat
      /\ Cardinality(pending') \in Nat
      /\ Cardinality(pending') = Cardinality(pending) - 1
      /\ Cardinality(Dependency) \in Nat
  <2>1. IsFiniteSet(pending) /\ pending' \in SUBSET Dependency
    BY Sizes DEF CheckTypeOK
  <2> QED
    BY <1>3, <2>1, Sizes, FS_RemoveElement DEF CheckTypeOK
<1>6. Counting' /\ completed' \in 0 .. Cardinality(Dependency)
  BY <1>5 DEF Counting, CheckTypeOK
<1>7. CheckTypeOK'
  <2>1. reported' \in [Dependency -> {"none", "up", "down"}] /\ ready' \in BOOLEAN
    BY <1>4 DEF CheckTypeOK
  <2> QED
    BY <1>2, <1>6, <2>1 DEF CheckTypeOK
<1>8. InTheChannel'
  <2> SUFFICES ASSUME NEW i \in 1 .. Len(results'), NEW j \in 1 .. Len(results')
               PROVE  /\ results'[i].name \in pending'
                      /\ worker[results'[i].name] = "done"
                      /\ results'[i].up = answer[results'[i].name]
                      /\ results'[i].name = results'[j].name => i = j
    BY DEF InTheChannel
  <2>1. /\ i + 1 \in 2 .. Len(results) /\ results'[i] = results[i + 1]
        /\ j + 1 \in 2 .. Len(results) /\ results'[j] = results[j + 1]
    BY <1>1, <1>2
  <2>2. /\ results[i + 1].name \in pending
        /\ worker[results[i + 1].name] = "done"
        /\ results[i + 1].up = answer[results[i + 1].name]
        /\ results[i + 1].name = results[j + 1].name => i + 1 = j + 1
    BY <1>1, <2>1 DEF InTheChannel
  <2> QED
    BY <1>3, <2>1, <2>2
<1>9. Heard'
  <2> SUFFICES ASSUME NEW d \in Dependency \ pending'
               PROVE  /\ worker[d] = "done"
                      /\ reported'[d] = IF answer[d] THEN "up" ELSE "down"
                      /\ ready' => answer[d]
    BY DEF Heard
  <2>1. CASE d = r.name
    BY <1>3, <1>4, <2>1 DEF CheckTypeOK
  <2>2. CASE d # r.name
    BY <2>2 DEF Heard, CheckTypeOK
  <2> QED
    BY <2>1, <2>2
<1>10. Complete'
  BY DEF Complete, Looping
<1> QED
  BY <1>6, <1>7, <1>8, <1>9, <1>10

\* A Check that gives up reports the dependencies it did not hear of as down.
LEMMA GiveUpKeeps ==
  ASSUME CheckInv, GiveUp
  PROVE  CheckInv'
<1> USE DEF CheckInv, GiveUp
<1>1. CheckTypeOK'
  BY DEF CheckTypeOK
<1>2. Counting' /\ InTheChannel'
  BY DEF Counting, InTheChannel
<1>3. Heard'
  BY DEF Heard, CheckTypeOK
<1>4. Complete'
  <2> SUFFICES ASSUME NEW d \in Dependency PROVE reported'[d] # "none"
    BY DEF Complete
  <2>1. CASE d \in pending
    BY <2>1
  <2>2. CASE d \notin pending
    BY <2>2 DEF Heard
  <2> QED
    BY <2>1, <2>2
<1> QED
  BY <1>1, <1>2, <1>3, <1>4

\* A Check that counted to the end heard every dependency.
LEMMA ReturnKeeps ==
  ASSUME CheckInv, ReturnReport
  PROVE  CheckInv'
<1> USE DEF CheckInv, ReturnReport
<1>1. CheckTypeOK'
  BY DEF CheckTypeOK
<1>2. Counting' /\ InTheChannel' /\ Heard'
  BY DEF Counting, InTheChannel, Heard
<1>3. pending = {}
  <2>1. IsFiniteSet(pending) /\ Cardinality(pending) \in Nat
        /\ Cardinality(Dependency) \in Nat
    BY Sizes DEF CheckTypeOK
  <2>2. Cardinality(pending) = 0
    BY <2>1 DEF Counting
  <2> QED
    BY <2>1, <2>2, FS_EmptySet
<1>4. Complete'
  BY <1>3 DEF Complete, Heard
<1> QED
  BY <1>1, <1>2, <1>4

\* Every step of a probe keeps the invariant.
LEMMA CheckKeeps == CheckInv /\ [CheckNext]_checkVars => CheckInv'
<1> SUFFICES ASSUME CheckInv, [CheckNext]_checkVars PROVE CheckInv'
  OBVIOUS
<1>1. CASE ContextEnds
  BY <1>1 DEF ContextEnds, CheckInv, CheckTypeOK, Counting, InTheChannel, Heard, Complete
<1>2. CASE UNCHANGED checkVars
  BY <1>2 DEF checkVars, CheckInv, CheckTypeOK, Counting, InTheChannel, Heard, Complete
<1> QED
  BY <1>1, <1>2, AnswerKeeps, SendKeeps, ReceiveKeeps, GiveUpKeeps, ReturnKeeps DEF CheckNext

\* The invariant holds in every reachable state.
THEOREM CheckInvariance == CheckSpec => []CheckInv
BY CheckStarts, CheckKeeps, PTL DEF CheckSpec

\* A ready report heard a success from every dependency.
LEMMA ReadyFollows == CheckInv => ReadyMeansAllUp
BY DEF CheckInv, ReadyMeansAllUp, Complete, Heard

\* A probe that says ready heard a success from every dependency.
THEOREM ReadyIsReady == CheckSpec => []ReadyMeansAllUp
BY ReadyFollows, CheckInvariance, PTL

\* Every report names every dependency.
LEMMA CompleteFollows == CheckInv => EveryDependencyReported
BY DEF CheckInv, EveryDependencyReported, Complete

\* The report of a probe names every dependency.
THEOREM ReportsComplete == CheckSpec => []EveryDependencyReported
BY CompleteFollows, CheckInvariance, PTL

-----------------------------------------------------------------------------
(***************************************************************************)
(* The whole process.                                                      *)
(***************************************************************************)
\* A step of the process is a step of its main, servers, requests and signals,
\* or leaves them alone.
LEMMA LifecycleSteps == [ProcessNext]_processVars => [Next]_vars
<1> SUFFICES ASSUME [ProcessNext]_processVars PROVE [Next]_vars
  OBVIOUS
<1>1. CASE CheckStep
  BY <1>1 DEF CheckStep
<1>2. CASE ServerSide(Next)
  BY <1>2 DEF ServerSide
<1>3. CASE UNCHANGED processVars
  BY <1>3 DEF processVars
<1> QED
  BY <1>1, <1>2, <1>3 DEF ProcessNext

\* A step of the process is a step of the readiness check, or leaves it alone.
LEMMA CheckSteps == [ProcessNext]_processVars => [CheckNext]_checkVars
<1> SUFFICES ASSUME [ProcessNext]_processVars PROVE [CheckNext]_checkVars
  OBVIOUS
<1>1. CASE CheckStep
  BY <1>1 DEF CheckStep
<1>2. CASE ServerSide(Next)
  BY <1>2 DEF ServerSide
<1>3. CASE UNCHANGED processVars
  BY <1>3 DEF processVars
<1> QED
  BY <1>1, <1>2, <1>3 DEF ProcessNext

\* With a probe among its requests the process still goes through the life of
\* Lifecycle, whatever the probe does.
THEOREM ImplementsLifecycle == ProcessSpec => Spec
BY LifecycleSteps, PTL DEF ProcessSpec, ProcessInit, Spec

\* A probe inside a process that starts, serves and shuts down is a Check,
\* whatever the process does meanwhile.
THEOREM ImplementsCheck == ProcessSpec => CheckSpec
BY CheckSteps, PTL DEF ProcessSpec, ProcessInit, CheckSpec

\* Both invariants hold throughout the process.
THEOREM ProcessInvariance == ProcessSpec => [](LifecycleInv /\ CheckInv)
BY ImplementsLifecycle, ImplementsCheck, LifecycleInvariance, CheckInvariance, PTL

\* Every variable holds a value of its type.
THEOREM ProcessTypes == ProcessSpec => []ProcessTypeOK
<1>1. LifecycleInv /\ CheckInv => ProcessTypeOK
  BY DEF LifecycleInv, CheckInv, ProcessTypeOK
<1> QED
  BY <1>1, ProcessInvariance, PTL

\* Before the deadline of a shutdown no accepted request is lost.
THEOREM ProcessKeepsRequests == ProcessSpec => []RequestsGetTheirTime
BY ImplementsLifecycle, RequestsKept, PTL

\* No server of the process accepts requests without both stores.
THEOREM ProcessNeedsStores == ProcessSpec => []NoRequestWithoutStores
BY ImplementsLifecycle, ServersNeedStores, PTL

\* A probe of the process that says ready heard a success from both stores.
THEOREM ProbeReady == ProcessSpec => []ReadyMeansAllUp
BY ImplementsCheck, ReadyIsReady, PTL

\* The report of a probe of the process names both stores.
THEOREM ProbeComplete == ProcessSpec => []EveryDependencyReported
BY ImplementsCheck, ReportsComplete, PTL

-----------------------------------------------------------------------------
(***************************************************************************)
(* What eventually happens.  A behaviour takes at most 22 steps of         *)
(* Progress, with or without fairness: the number that is left falls with  *)
(* each and never grows.  And while one of ShutdownEnds, ProbeReturns and  *)
(* GoroutinesEnd waits for something, a step of Progress can be taken.     *)
(*                                                                         *)
(* ENABLED is beyond the provers: the theorem is about GuardedFairness,    *)
(* which is ProcessFairness with the guards of Progress in place of its    *)
(* ENABLED.  That the two agree (GuardsAreEnabled) is left to TLC.         *)
(***************************************************************************)
\* The steps that main has left.
MainLeft ==
  [config |-> 13, postgres |-> 12, seed |-> 11, redis |-> 10, startGRPC |-> 9,
   startHTTP |-> 8, notify |-> 7, select |-> 6, httpShutdown |-> 5, grpcStop |-> 4,
   closeRedis |-> 3, closePostgres |-> 2, exit |-> 1, exited |-> 0][main]

\* Of the goroutine of a server, which may have an error to report, and of the
\* deadline of the shutdown.
ServerLeft(s) == IF serving[s] = "ended" THEN 0 ELSE 1

DeadlineLeft == IF expired THEN 0 ELSE 1

LifecycleLeft == MainLeft + ServerLeft("http") + ServerLeft("grpc") + DeadlineLeft

\* Of Check: a result of each dependency sent, and received, the end of the
\* context, the return.
SendLeft(d) == IF worker[d] = "done" THEN 0 ELSE 1

ContextLeft == IF over THEN 0 ELSE 1

ReturnLeft == IF returned THEN 0 ELSE 1

CheckLeft ==
  SendLeft("redis") + SendLeft("postgres") + (2 - completed) + ContextLeft + ReturnLeft

StepsLeft == LifecycleLeft + CheckLeft

AtMost(n) == StepsLeft <= n

\* A shutdown has a reason: a signal, an error of a server, reported or not, or
\* main is past the select.
ShutdownDue ==
  \/ signals > 0
  \/ errors > 0
  \/ \E s \in Server : serving[s] = "failed"
  \/ main \notin Startup \cup {"select"}

ProbeDue == request[Probe] = "active" /\ ~returned

ResultDue == \E d \in Dependency : worker[d] = "answered"

\* A signal is only heard once they are notified; there is room for the error
\* of each goroutine that has not ended; a worker only runs for a probe that
\* arrived.
ReasonsInv ==
  /\ signals > 0 => notified
  /\ errors + ServerLeft("http") + ServerLeft("grpc") <= 2
  /\ (\E d \in Dependency : worker[d] # "calling") => request[Probe] # "new"

-----------------------------------------------------------------------------
\* The program has two servers and two dependencies.
LEMMA TwoOfEach == ErrorCapacity = 2 /\ Cardinality(Dependency) = 2
<1>1. IsFiniteSet({}) /\ Cardinality({}) = 0
  BY FS_EmptySet
<1>2. \A x, y : x # y => Cardinality({x, y}) = 2
  <2> TAKE x, y
  <2> HAVE x # y
  <2>1. IsFiniteSet({} \cup {x}) /\ Cardinality({} \cup {x}) = 1
    BY <1>1, FS_AddElement
  <2>2. Cardinality(({} \cup {x}) \cup {y}) = 2
    BY <2>1, FS_AddElement
  <2>3. ({} \cup {x}) \cup {y} = {x, y}
    OBVIOUS
  <2> QED
    BY <2>2, <2>3
<1> QED
  BY <1>2, ProcessAssumption DEF ErrorCapacity, Server, Stores

RoomToSend == \A d \in Dependency : worker[d] = "answered" => Len(results) < Capacity

\* A goroutine with a result to send is none of those whose results are in the
\* channel, so there is room for it.
LEMMA RoomFollows == CheckInv => RoomToSend
<1>1. ASSUME CheckInv, NEW d \in Dependency, worker[d] = "answered"
      PROVE  Len(results) < Capacity
  <2> DEFINE others == Dependency \ {d}
             name   == [i \in 1 .. Len(results) |-> results[i].name]
  <2>1. /\ IsFiniteSet(others)
        /\ Cardinality(others) = Cardinality(Dependency) - 1
        /\ Cardinality(Dependency) \in Nat
    BY Sizes, FS_RemoveElement
  <2>2. Len(results) \in Nat
    BY <1>1, LenProperties DEF CheckInv, CheckTypeOK
  <2>3. /\ IsFiniteSet(1 .. Len(results))
        /\ Cardinality(1 .. Len(results)) = Len(results)
    <3>1. 1 \in Int /\ Len(results) \in Int
      BY <2>2
    <3>2. /\ IsFiniteSet(1 .. Len(results))
          /\ Cardinality(1 .. Len(results)) =
               IF 1 > Len(results) THEN 0 ELSE Len(results) - 1 + 1
      BY <3>1, FS_Interval
    <3> QED
      BY <2>2, <3>2
  <2>4. name \in Injection(1 .. Len(results), others)
    <3>1. ASSUME NEW i \in 1 .. Len(results) PROVE results[i].name \in others
      BY <1>1 DEF CheckInv, CheckTypeOK, InTheChannel
    <3>2. \A i, j \in 1 .. Len(results) : name[i] = name[j] => i = j
      BY <1>1 DEF CheckInv, InTheChannel
    <3> QED
      BY <3>1, <3>2 DEF Injection, IsInjective
  <2> QED
    BY <2>1, <2>2, <2>3, <2>4, FS_Injection DEF Capacity
<1> QED
  BY <1>1 DEF RoomToSend

\* No goroutine of a check ever waits for room in the channel, also when Check
\* has returned and nobody receives any more.
THEOREM SendersNeverBlock == CheckSpec => []RoomToSend
BY RoomFollows, CheckInvariance, PTL

-----------------------------------------------------------------------------
\* What is left of the life cycle is a number, ...
LifecycleCounts ==
  /\ MainLeft \in 0 .. 13
  /\ ServerLeft("http") \in 0 .. 1
  /\ ServerLeft("grpc") \in 0 .. 1
  /\ DeadlineLeft \in 0 .. 1
  /\ LifecycleLeft \in 0 .. 16

\* ... in every state with values of the right types, ...
LEMMA LifecycleParts == TypeOK => LifecycleCounts
<1> SUFFICES ASSUME TypeOK PROVE LifecycleCounts
  OBVIOUS
<1>1. MainLeft \in 0 .. 13
  BY DEF TypeOK, Main, Startup, MainLeft
<1>2. ServerLeft("http") \in 0 .. 1 /\ ServerLeft("grpc") \in 0 .. 1
  BY DEF ServerLeft
<1>3. DeadlineLeft \in 0 .. 1
  BY DEF DeadlineLeft
<1> QED
  BY <1>1, <1>2, <1>3 DEF LifecycleLeft, LifecycleCounts

\* ... and so is what is left of Check.
CheckCounts ==
  /\ SendLeft("redis") \in 0 .. 1
  /\ SendLeft("postgres") \in 0 .. 1
  /\ completed \in 0 .. 2
  /\ ContextLeft \in 0 .. 1
  /\ ReturnLeft \in 0 .. 1
  /\ CheckLeft \in 0 .. 6

\* Check's loop ends after two results.
LEMMA CheckParts == CheckTypeOK => CheckCounts
<1> SUFFICES ASSUME CheckTypeOK PROVE CheckCounts
  OBVIOUS
<1>1. completed \in 0 .. 2
  BY TwoOfEach DEF CheckTypeOK
<1>2. SendLeft("redis") \in 0 .. 1 /\ SendLeft("postgres") \in 0 .. 1
  BY DEF SendLeft
<1>3. ContextLeft \in 0 .. 1 /\ ReturnLeft \in 0 .. 1
  BY DEF ContextLeft, ReturnLeft
<1> QED
  BY <1>1, <1>2, <1>3 DEF CheckLeft, CheckCounts

\* A step of main, of the deadline, or of a goroutine that reports its error
\* brings the end of the life cycle nearer.
LEMMA LifecycleFalls ==
  ASSUME LifecycleInv, TypeOK',
         StartupStep \/ MainStep \/ Exit \/ Deadline \/ \E s \in Server : ReportError(s)
  PROVE  LifecycleLeft' < LifecycleLeft
<1> DEFINE Others ==
      /\ ServerLeft("http")' = ServerLeft("http")
      /\ ServerLeft("grpc")' = ServerLeft("grpc")
      /\ DeadlineLeft' = DeadlineLeft
<1> USE DEF LifecycleInv, TypeOK, Server
<1>0. LifecycleCounts /\ LifecycleCounts'
  <2>1. TypeOK' => LifecycleCounts'
    BY LifecycleParts, PTL
  <2> QED
    BY <2>1, LifecycleParts DEF LifecycleInv
<1>1. /\ MainLeft \in Int /\ MainLeft' \in Int
      /\ ServerLeft("http") \in Int /\ ServerLeft("grpc") \in Int /\ DeadlineLeft \in Int
  BY <1>0 DEF LifecycleCounts
<1>2. CASE StartupStep \/ StartGRPC \/ StartHTTP \/ Notify
  <2> USE <1>2 DEF StartupStep, LoadConfig, OpenPostgres, MigrateAndSeed, OpenRedis,
                   StartGRPC, StartHTTP, Notify, Unchanged, Goto
  <2>1. MainLeft' < MainLeft
    BY DEF MainLeft
  <2>2. \A s \in Server :
          serving'[s] = serving[s] \/ (serving[s] = "none" /\ serving'[s] = "starting")
    BY DEF LifecycleInv, ServersStart
  <2>3. Others
    BY <2>2 DEF ServerLeft, DeadlineLeft
  <2> QED
    BY <1>1, <2>1, <2>3 DEF LifecycleLeft
<1>3. CASE \/ BeginShutdown \/ HTTPShutdown \/ GRPCStopped \/ ForceStop
           \/ CloseRedis \/ ClosePostgres \/ Exit
  <2> USE <1>3 DEF BeginShutdown, HTTPShutdown, GRPCStopped, ForceStop, CloseRedis,
                   ClosePostgres, Exit
  <2>1. MainLeft' < MainLeft
    BY DEF MainLeft, Main, Startup, Running
  <2>2. Others
    BY DEF ServerLeft, DeadlineLeft
  <2> QED
    BY <1>1, <2>1, <2>2 DEF LifecycleLeft
<1>4. ASSUME NEW s \in Server, ReportError(s) PROVE LifecycleLeft' < LifecycleLeft
  <2>1. MainLeft' = MainLeft /\ DeadlineLeft' = DeadlineLeft
    BY <1>4 DEF ReportError, MainLeft, DeadlineLeft
  <2>2. /\ ServerLeft(s) = 1 /\ ServerLeft(s)' = 0
        /\ \A o \in Server \ {s} : ServerLeft(o)' = ServerLeft(o)
    BY <1>4 DEF ReportError, ServerLeft
  <2> QED
    BY <1>1, <2>1, <2>2 DEF LifecycleLeft
<1>5. CASE Deadline
  <2>1. /\ MainLeft' = MainLeft
        /\ ServerLeft("http")' = ServerLeft("http")
        /\ ServerLeft("grpc")' = ServerLeft("grpc")
        /\ DeadlineLeft = 1 /\ DeadlineLeft' = 0
    BY <1>5 DEF Deadline, MainLeft, ServerLeft, DeadlineLeft
  <2> QED
    BY <1>1, <2>1 DEF LifecycleLeft
<1> QED
  BY <1>2, <1>3, <1>4, <1>5 DEF MainStep

\* No other step puts it off.
LEMMA LifecycleNeverGrows ==
  LifecycleInv /\ TypeOK' /\ [Next]_vars => LifecycleLeft' <= LifecycleLeft
<1> SUFFICES ASSUME LifecycleInv, TypeOK', [Next]_vars
             PROVE  LifecycleLeft' <= LifecycleLeft
  OBVIOUS
<1>t. TypeOK
  BY DEF LifecycleInv
<1>0. LifecycleCounts /\ LifecycleCounts'
  <2>1. TypeOK' => LifecycleCounts'
    BY LifecycleParts, PTL
  <2> QED
    BY <2>1, <1>t, LifecycleParts
<1>1. /\ MainLeft \in Int /\ LifecycleLeft \in Int /\ LifecycleLeft' \in Int
      /\ ServerLeft("http") \in Int /\ ServerLeft("grpc") \in Int /\ DeadlineLeft \in Int
      /\ ServerLeft("http")' \in Int /\ ServerLeft("grpc")' \in Int
  BY <1>0 DEF LifecycleCounts
<1>2. CASE StartupStep \/ MainStep \/ Exit \/ Deadline \/ \E s \in Server : ReportError(s)
  BY <1>1, <1>2, LifecycleFalls
<1>3. ASSUME NEW s \in Server, Listen(s) \/ ServeFails(s) \/ ServeEnds(s)
      PROVE  LifecycleLeft' <= LifecycleLeft
  <2>1. MainLeft' = MainLeft /\ DeadlineLeft' = DeadlineLeft
    BY <1>3 DEF Listen, ServeFails, ServeEnds, MainLeft, DeadlineLeft
  <2>2. \A o \in Server : ServerLeft(o)' <= ServerLeft(o)
    BY <1>3, <1>t DEF Listen, ServeFails, ServeEnds, ServerLeft, TypeOK
  <2> QED
    BY <1>1, <2>1, <2>2 DEF LifecycleLeft, Server
<1>4. CASE \/ \E r \in Request : Accept(r) \/ Finish(r)
           \/ Signal \/ GracefulStop \/ GRPCDrained \/ UNCHANGED vars
  <2>1. serving' = serving /\ expired' = expired /\ MainLeft' = MainLeft
    BY <1>4 DEF Accept, Finish, Signal, GracefulStop, GRPCDrained, vars, MainLeft
  <2> QED
    BY <1>1, <2>1 DEF LifecycleLeft, ServerLeft, DeadlineLeft
<1> QED
  BY <1>2, <1>3, <1>4 DEF Next, ServerStep

-----------------------------------------------------------------------------
CheckProgress ==
  ContextEnds \/ Receive \/ GiveUp \/ ReturnReport \/ \E d \in Dependency : Send(d)

\* A step of Check that is not a dependency's answer brings its end nearer.
LEMMA CheckFalls ==
  ASSUME CheckTypeOK, CheckTypeOK', CheckProgress
  PROVE  CheckLeft' < CheckLeft
<1>0. CheckCounts /\ CheckCounts'
  <2>1. CheckTypeOK' => CheckCounts'
    BY CheckParts, PTL
  <2> QED
    BY <2>1, CheckParts
<1>1. /\ SendLeft("redis") \in Int /\ SendLeft("postgres") \in Int /\ completed \in Int
      /\ ContextLeft \in 0 .. 1 /\ ReturnLeft \in 0 .. 1
      /\ ContextLeft' \in 0 .. 1 /\ ReturnLeft' \in 0 .. 1
  BY <1>0 DEF CheckCounts
<1>2. CASE ContextEnds \/ Receive \/ GiveUp \/ ReturnReport
  <2> USE <1>2 DEF ContextEnds, Receive, GiveUp, ReturnReport
  <2>1. /\ SendLeft("redis")' = SendLeft("redis")
        /\ SendLeft("postgres")' = SendLeft("postgres")
    BY DEF SendLeft
  <2>2. CASE ContextEnds
    BY <1>1, <2>1, <2>2 DEF CheckLeft, ContextLeft, ReturnLeft
  <2>3. CASE Receive
    BY <1>1, <2>1, <2>3 DEF CheckLeft, ContextLeft, ReturnLeft
  <2>4. CASE GiveUp
    BY <1>1, <2>1, <2>4 DEF CheckLeft, ContextLeft, ReturnLeft, Looping
  <2>5. CASE ReturnReport
    <3>1. /\ ReturnLeft = 1 /\ ReturnLeft' = 0
          /\ ContextLeft' = 0
          /\ completed' = completed
      BY <2>5 DEF ContextLeft, ReturnLeft
    <3> QED
      BY <1>1, <2>1, <3>1 DEF CheckLeft
  <2> QED
    BY <2>2, <2>3, <2>4, <2>5
<1>3. ASSUME NEW d \in Dependency, Send(d) PROVE CheckLeft' < CheckLeft
  <2>1. /\ completed' = completed /\ ContextLeft' = ContextLeft /\ ReturnLeft' = ReturnLeft
    BY <1>3 DEF Send, ContextLeft, ReturnLeft
  <2>2. /\ SendLeft(d) = 1 /\ SendLeft(d)' = 0
        /\ \A o \in Dependency \ {d} : SendLeft(o)' = SendLeft(o)
    BY <1>3 DEF Send, SendLeft, CheckTypeOK
  <2> QED
    BY <1>1, <2>1, <2>2, ProcessAssumption DEF CheckLeft, Stores
<1> QED
  BY <1>2, <1>3 DEF CheckProgress

\* No step puts it off.
LEMMA CheckNeverGrows ==
  CheckTypeOK /\ CheckTypeOK' /\ [CheckNext]_checkVars => CheckLeft' <= CheckLeft
<1> SUFFICES ASSUME CheckTypeOK, CheckTypeOK', [CheckNext]_checkVars
             PROVE  CheckLeft' <= CheckLeft
  OBVIOUS
<1>0. CheckCounts /\ CheckCounts'
  <2>1. CheckTypeOK' => CheckCounts'
    BY CheckParts, PTL
  <2> QED
    BY <2>1, CheckParts
<1>1. CheckLeft \in Int /\ CheckLeft' \in Int
  BY <1>0 DEF CheckCounts
<1>2. CASE CheckProgress
  BY <1>1, <1>2, CheckFalls
<1>3. CASE (\E d \in Dependency : Answer(d)) \/ UNCHANGED checkVars
  <2>1. CheckLeft' = CheckLeft
    <3>1. \A d \in Dependency : SendLeft(d)' = SendLeft(d)
      BY <1>3 DEF Answer, checkVars, SendLeft, CheckTypeOK
    <3>2. completed' = completed /\ ContextLeft' = ContextLeft /\ ReturnLeft' = ReturnLeft
      BY <1>3 DEF Answer, checkVars, ContextLeft, ReturnLeft
    <3> QED
      BY <3>1, <3>2, ProcessAssumption DEF CheckLeft, Stores
  <2> QED
    BY <1>1, <2>1
<1> QED
  BY <1>2, <1>3 DEF CheckNext, CheckProgress

-----------------------------------------------------------------------------
\* The reasons for a shutdown and for a worker to run hold when main starts, ...
LEMMA ReasonsStart == ProcessInit => ReasonsInv
BY DEF ProcessInit, Init, CheckInit, ReasonsInv, ServerLeft, Server

\* ... through the steps of the life cycle, ...
LEMMA LifecycleKeepsReasons ==
  ASSUME LifecycleInv, TypeOK', ReasonsInv, ServerSide(Next)
  PROVE  ReasonsInv'
<1> DEFINE Room == errors + ServerLeft("http") + ServerLeft("grpc") <= 2
<1>0. LifecycleCounts /\ LifecycleCounts' /\ TypeOK /\ errors \in Int /\ errors' \in Int
  <2>1. TypeOK' => LifecycleCounts'
    BY LifecycleParts, PTL
  <2> QED
    BY <2>1, LifecycleParts, ErrorRoom DEF LifecycleInv, TypeOK
<1>1. Probe \in Request /\ worker' = worker /\ Next
  BY ProcessAssumption DEF ServerSide, checkVars
<1>2. signals' > 0 => notified'
  BY <1>0, <1>1 DEF Next, MainStep, StartupStep, LoadConfig, OpenPostgres, MigrateAndSeed,
     OpenRedis, StartGRPC, StartHTTP, Notify, Unchanged, BeginShutdown, HTTPShutdown,
     GRPCStopped, ForceStop, CloseRedis, ClosePostgres, Exit, ServerStep, Listen, ServeFails,
     ServeEnds, ReportError, Accept, Finish, Signal, Deadline, GracefulStop, GRPCDrained,
     TypeOK, SignalCapacity, ReasonsInv
<1>3. request'[Probe] = "new" => request[Probe] = "new"
  BY <1>0, <1>1 DEF Next, MainStep, StartupStep, LoadConfig, OpenPostgres, MigrateAndSeed,
     OpenRedis, StartGRPC, StartHTTP, Notify, Unchanged, BeginShutdown, HTTPShutdown,
     GRPCStopped, ForceStop, CloseRedis, ClosePostgres, Exit, ServerStep, Listen, ServeFails,
     ServeEnds, ReportError, Accept, Finish, Signal, Deadline, GracefulStop, GRPCDrained,
     TypeOK
<1>4. Room'
  <2> USE <1>0 DEF LifecycleCounts, TypeOK
  <2>1. Room
    BY DEF ReasonsInv
  <2>2. CASE BeginShutdown
    <3>1. /\ errors' <= errors
          /\ ServerLeft("http")' = ServerLeft("http")
          /\ ServerLeft("grpc")' = ServerLeft("grpc")
      BY <2>2 DEF BeginShutdown, ServerLeft
    <3> QED
      BY <2>1, <3>1
  <2>3. ASSUME NEW s \in Server, ReportError(s) PROVE Room'
    <3>1. /\ errors' = errors + 1
          /\ ServerLeft(s) = 1 /\ ServerLeft(s)' = 0
          /\ \A o \in Server \ {s} : ServerLeft(o)' = ServerLeft(o)
      BY <2>3 DEF ReportError, ServerLeft
    <3> QED
      BY <2>1, <3>1 DEF Server
  <2>4. ASSUME NEW s \in Server, Listen(s) \/ ServeFails(s) \/ ServeEnds(s) PROVE Room'
    <3>1. /\ errors' = errors
          /\ \A o \in Server : ServerLeft(o)' <= ServerLeft(o)
      BY <2>4 DEF Listen, ServeFails, ServeEnds, ServerLeft
    <3> QED
      BY <2>1, <3>1 DEF Server
  <2>5. CASE StartupStep \/ StartGRPC \/ StartHTTP \/ Notify
    <3>1. /\ errors' = errors
          /\ \A s \in Server :
               serving'[s] = serving[s] \/ (serving[s] = "none" /\ serving'[s] = "starting")
      BY <2>5 DEF StartupStep, LoadConfig, OpenPostgres, MigrateAndSeed, OpenRedis, StartGRPC,
                  StartHTTP, Notify, Unchanged, LifecycleInv, ServersStart, Server, Goto
    <3>2. \A s \in Server : ServerLeft(s)' = ServerLeft(s)
      BY <3>1 DEF ServerLeft
    <3> QED
      BY <2>1, <3>1, <3>2 DEF Server
  <2>6. CASE \/ HTTPShutdown \/ GRPCStopped \/ ForceStop \/ CloseRedis \/ ClosePostgres \/ Exit
             \/ Signal \/ Deadline \/ GracefulStop \/ GRPCDrained
             \/ \E r \in Request : Accept(r) \/ Finish(r)
    <3>1. errors' = errors /\ serving' = serving
      BY <2>6 DEF HTTPShutdown, GRPCStopped, ForceStop, CloseRedis, ClosePostgres, Exit,
                  Signal, Deadline, GracefulStop, GRPCDrained, Accept, Finish
    <3> QED
      BY <2>1, <3>1 DEF ServerLeft
  <2> QED
    BY <1>1, <2>2, <2>3, <2>4, <2>5, <2>6 DEF Next, MainStep, ServerStep
<1> QED
  BY <1>1, <1>2, <1>3, <1>4 DEF ReasonsInv

\* ... and through those of Check.
LEMMA ReasonsKept ==
  LifecycleInv /\ TypeOK' /\ ReasonsInv /\ [ProcessNext]_processVars => ReasonsInv'
<1> SUFFICES ASSUME LifecycleInv, TypeOK', ReasonsInv, [ProcessNext]_processVars
             PROVE  ReasonsInv'
  OBVIOUS
<1>1. CASE CheckStep
  BY <1>1 DEF CheckStep, vars, ReasonsInv, ServerLeft
<1>2. CASE UNCHANGED processVars
  BY <1>2 DEF processVars, vars, checkVars, ReasonsInv, ServerLeft
<1> QED
  BY <1>1, <1>2, LifecycleKeepsReasons DEF ProcessNext

ProcessInv == LifecycleInv /\ CheckInv /\ ReasonsInv

\* All three hold throughout the process.
LEMMA ProcessInvHolds == ProcessInit /\ [][ProcessNext]_processVars => []ProcessInv
<1>1. ProcessInit => ProcessInv
  BY LifecycleStarts, CheckStarts, ReasonsStart DEF ProcessInit, ProcessInv
<1>2. ProcessInv /\ [ProcessNext]_processVars => ProcessInv'
  <2> SUFFICES ASSUME ProcessInv, [ProcessNext]_processVars PROVE ProcessInv'
    OBVIOUS
  <2>1. LifecycleInv' /\ CheckInv'
    BY LifecycleSteps, CheckSteps, LifecycleKept, CheckKeeps DEF ProcessInv
  <2>2. ReasonsInv'
    BY <2>1, ReasonsKept DEF ProcessInv, LifecycleInv
  <2> QED
    BY <2>1, <2>2 DEF ProcessInv
<1> QED
  BY <1>1, <1>2, PTL

-----------------------------------------------------------------------------
\* What is left of the process is a number, falls with every step of Progress,
\* and never grows.
LEMMA ProgressFalls ==
  ASSUME ProcessInv, ProcessInv', [ProcessNext]_processVars
  PROVE  /\ StepsLeft \in 0 .. 22
         /\ StepsLeft' \in 0 .. 22
         /\ StepsLeft' <= StepsLeft
         /\ Progress => StepsLeft' < StepsLeft
<1>1. /\ LifecycleLeft \in 0 .. 16 /\ LifecycleLeft' \in 0 .. 16
      /\ CheckLeft \in 0 .. 6 /\ CheckLeft' \in 0 .. 6
  <2>1. /\ TypeOK' => LifecycleCounts'
        /\ CheckTypeOK' => CheckCounts'
    BY LifecycleParts, CheckParts, PTL
  <2> QED
    BY <2>1, LifecycleParts, CheckParts
       DEF ProcessInv, LifecycleInv, CheckInv, LifecycleCounts, CheckCounts
<1>2. LifecycleLeft' <= LifecycleLeft /\ CheckLeft' <= CheckLeft
  BY LifecycleSteps, CheckSteps, LifecycleNeverGrows, CheckNeverGrows
     DEF ProcessInv, LifecycleInv, CheckInv
<1>3. Progress => LifecycleLeft' < LifecycleLeft \/ CheckLeft' < CheckLeft
  BY LifecycleFalls, CheckFalls
     DEF Progress, ServerSide, CheckProgress, ProcessInv, LifecycleInv, CheckInv
<1>4. PICK l \in 0 .. 16, m \in 0 .. 16, c \in 0 .. 6, d \in 0 .. 6 :
        l = LifecycleLeft /\ m = LifecycleLeft' /\ c = CheckLeft /\ d = CheckLeft'
  BY <1>1
<1>5. m <= l /\ d <= c /\ (Progress => m < l \/ d < c)
  BY <1>2, <1>3, <1>4
<1>6. StepsLeft = l + c /\ StepsLeft' = m + d
  BY <1>4 DEF StepsLeft
<1>7. l + c \in 0 .. 22 /\ m + d \in 0 .. 22 /\ m + d <= l + c
  BY <1>5
<1>8. m < l \/ d < c => m + d < l + c
  BY <1>5
<1> QED
  BY <1>5, <1>6, <1>7, <1>8

\* Every behaviour takes only finitely many steps of Progress.
THEOREM ProgressEnds ==
  ProcessInit /\ [][ProcessNext]_processVars => ~[]<><<Progress>>_processVars
<1>1. ASSUME ProcessInv, ProcessInv', [ProcessNext]_processVars, NEW n \in Nat, AtMost(n)
      PROVE  AtMost(n)' /\ (Progress => n > 0 /\ AtMost(n - 1)')
  <2>1. /\ StepsLeft \in Int /\ StepsLeft' \in Int /\ StepsLeft' >= 0
        /\ StepsLeft' <= StepsLeft
        /\ Progress => StepsLeft' < StepsLeft
    BY <1>1, ProgressFalls
  <2>2. StepsLeft <= n
    BY <1>1 DEF AtMost
  <2> QED
    BY <2>1, <2>2 DEF AtMost
<1>2. ProcessInv /\ ProcessInv' /\ [ProcessNext]_processVars =>
      /\ AtMost(22) /\ [ProcessNext]_processVars => AtMost(22)'
      /\ AtMost(21) /\ [ProcessNext]_processVars => AtMost(21)'
      /\ AtMost(20) /\ [ProcessNext]_processVars => AtMost(20)'
      /\ AtMost(19) /\ [ProcessNext]_processVars => AtMost(19)'
      /\ AtMost(18) /\ [ProcessNext]_processVars => AtMost(18)'
      /\ AtMost(17) /\ [ProcessNext]_processVars => AtMost(17)'
      /\ AtMost(16) /\ [ProcessNext]_processVars => AtMost(16)'
      /\ AtMost(15) /\ [ProcessNext]_processVars => AtMost(15)'
      /\ AtMost(14) /\ [ProcessNext]_processVars => AtMost(14)'
      /\ AtMost(13) /\ [ProcessNext]_processVars => AtMost(13)'
      /\ AtMost(12) /\ [ProcessNext]_processVars => AtMost(12)'
      /\ AtMost(11) /\ [ProcessNext]_processVars => AtMost(11)'
      /\ AtMost(10) /\ [ProcessNext]_processVars => AtMost(10)'
      /\ AtMost(9) /\ [ProcessNext]_processVars => AtMost(9)'
      /\ AtMost(8) /\ [ProcessNext]_processVars => AtMost(8)'
      /\ AtMost(7) /\ [ProcessNext]_processVars => AtMost(7)'
      /\ AtMost(6) /\ [ProcessNext]_processVars => AtMost(6)'
      /\ AtMost(5) /\ [ProcessNext]_processVars => AtMost(5)'
      /\ AtMost(4) /\ [ProcessNext]_processVars => AtMost(4)'
      /\ AtMost(3) /\ [ProcessNext]_processVars => AtMost(3)'
      /\ AtMost(2) /\ [ProcessNext]_processVars => AtMost(2)'
      /\ AtMost(1) /\ [ProcessNext]_processVars => AtMost(1)'
      /\ AtMost(0) /\ [ProcessNext]_processVars => AtMost(0)'
  BY <1>1
<1>3. ProcessInv /\ ProcessInv' /\ [ProcessNext]_processVars =>
      /\ AtMost(22) /\ <<Progress>>_processVars => AtMost(21)'
      /\ AtMost(21) /\ <<Progress>>_processVars => AtMost(20)'
      /\ AtMost(20) /\ <<Progress>>_processVars => AtMost(19)'
      /\ AtMost(19) /\ <<Progress>>_processVars => AtMost(18)'
      /\ AtMost(18) /\ <<Progress>>_processVars => AtMost(17)'
      /\ AtMost(17) /\ <<Progress>>_processVars => AtMost(16)'
      /\ AtMost(16) /\ <<Progress>>_processVars => AtMost(15)'
      /\ AtMost(15) /\ <<Progress>>_processVars => AtMost(14)'
      /\ AtMost(14) /\ <<Progress>>_processVars => AtMost(13)'
      /\ AtMost(13) /\ <<Progress>>_processVars => AtMost(12)'
      /\ AtMost(12) /\ <<Progress>>_processVars => AtMost(11)'
      /\ AtMost(11) /\ <<Progress>>_processVars => AtMost(10)'
      /\ AtMost(10) /\ <<Progress>>_processVars => AtMost(9)'
      /\ AtMost(9) /\ <<Progress>>_processVars => AtMost(8)'
      /\ AtMost(8) /\ <<Progress>>_processVars => AtMost(7)'
      /\ AtMost(7) /\ <<Progress>>_processVars => AtMost(6)'
      /\ AtMost(6) /\ <<Progress>>_processVars => AtMost(5)'
      /\ AtMost(5) /\ <<Progress>>_processVars => AtMost(4)'
      /\ AtMost(4) /\ <<Progress>>_processVars => AtMost(3)'
      /\ AtMost(3) /\ <<Progress>>_processVars => AtMost(2)'
      /\ AtMost(2) /\ <<Progress>>_processVars => AtMost(1)'
      /\ AtMost(1) /\ <<Progress>>_processVars => AtMost(0)'
      /\ ~(AtMost(0) /\ <<Progress>>_processVars)
  BY <1>1
<1>4. ProcessInv => AtMost(22)
  <2> SUFFICES ASSUME ProcessInv PROVE StepsLeft <= 22
    BY DEF AtMost
  <2>1. LifecycleLeft \in 0 .. 16 /\ CheckLeft \in 0 .. 6
    BY LifecycleParts, CheckParts
       DEF ProcessInv, LifecycleInv, CheckInv, LifecycleCounts, CheckCounts
  <2> QED
    BY <2>1 DEF StepsLeft
<1> QED
  BY <1>2, <1>3, <1>4, ProcessInvHolds, PTL

\* While a shutdown, a probe or a result is due, a step of Progress can be
\* taken: main is never stuck, the probe can give up, the channel has room.
LEMMA NeverStuck ==
  ASSUME ProcessInv, Running, ShutdownDue \/ ProbeDue \/ ResultDue
  PROVE  CanGoOn
<1> USE DEF ProcessInv, LifecycleInv, CanGoOn
<1>1. CASE ShutdownDue
  <2>1. main \notin {"config", "postgres", "seed", "redis"}
    <3>1. signals > 0 => main \notin Startup
      BY DEF ReasonsInv, Hears
    <3>2. ASSUME main \in {"config", "postgres", "seed", "redis"}
          PROVE  errors = 0 /\ \A s \in Server : serving[s] # "failed"
      <4>1. serving["grpc"] = "none" /\ serving["http"] = "none"
        BY <3>2 DEF ServersStart
      <4>2. ServerLeft("http") = 1 /\ ServerLeft("grpc") = 1
        BY <4>1 DEF ServerLeft
      <4>3. errors \in Nat
        BY ErrorRoom DEF TypeOK
      <4> QED
        BY <4>1, <4>2, <4>3 DEF ReasonsInv, Server
    <3> QED
      BY <1>1, <3>1, <3>2 DEF ShutdownDue, Startup
  <2>2. CASE main = "select"
    <3>1. ASSUME NEW s \in Server, serving[s] = "failed" PROVE errors < ErrorCapacity
      <4>1. ServerLeft(s) = 1 /\ LifecycleCounts
        BY <3>1, LifecycleParts DEF ServerLeft
      <4>2. errors \in Int
        BY ErrorRoom DEF TypeOK
      <4> QED
        BY <4>1, <4>2, TwoOfEach DEF ReasonsInv, LifecycleCounts, Server
    <3> QED
      BY <1>1, <2>2, <3>1 DEF ShutdownDue, MainCan
  <2> QED
    BY <2>1, <2>2 DEF TypeOK, Main, Startup, MainCan, Running
<1>2. CASE ProbeDue
  BY <1>2, TwoOfEach DEF ProbeDue, CheckCan, Looping, CheckInv, CheckTypeOK
<1>3. CASE ResultDue
  BY <1>3, RoomFollows DEF ResultDue, CheckCan, RoomToSend, ReasonsInv
<1> QED
  BY <1>1, <1>2, <1>3

\* What is due stays due until it is done.
LEMMA DueStays ==
  ASSUME ProcessInv, ProcessInv', [ProcessNext]_processVars
  PROVE  /\ ShutdownDue => ShutdownDue'
         /\ ProbeDue => ProbeDue' \/ returned' \/ ~Running'
<1> USE DEF ProcessInv, LifecycleInv, TypeOK
<1>1. ShutdownDue => ShutdownDue'
  <2> SUFFICES ASSUME ShutdownDue PROVE ShutdownDue'
    OBVIOUS
  <2>1. [Next]_vars /\ errors \in Int /\ errors >= 0
    BY LifecycleSteps, ErrorRoom
  <2>2. CASE StartupStep \/ StartGRPC \/ StartHTTP \/ Notify
    BY <2>2 DEF ShutdownDue, StartupStep, LoadConfig, OpenPostgres, MigrateAndSeed, OpenRedis,
                StartGRPC, StartHTTP, Notify, Unchanged, Goto, Startup, Server, ServersStart
  <2>3. CASE \/ BeginShutdown \/ HTTPShutdown \/ GRPCStopped \/ ForceStop
             \/ CloseRedis \/ ClosePostgres \/ Exit
    BY <2>3 DEF ShutdownDue, BeginShutdown, HTTPShutdown, GRPCStopped, ForceStop, CloseRedis,
                ClosePostgres, Exit, Startup
  <2>4. ASSUME NEW s \in Server, ServerStep(s) PROVE ShutdownDue'
    BY <2>1, <2>4 DEF ShutdownDue, ServerStep, Listen, ServeFails, ServeEnds, ReportError
  <2>5. CASE \/ \E r \in Request : Accept(r) \/ Finish(r)
             \/ Signal \/ Deadline \/ GracefulStop \/ GRPCDrained \/ UNCHANGED vars
    BY <2>5 DEF ShutdownDue, Accept, Finish, Signal, Deadline, GracefulStop, GRPCDrained, vars,
                SignalCapacity
  <2> QED
    BY <2>1, <2>2, <2>3, <2>4, <2>5 DEF Next, MainStep
<1>2. ProbeDue => ProbeDue' \/ returned' \/ ~Running'
  <2> SUFFICES ASSUME request[Probe] = "active", ~returned', Running'
               PROVE  request'[Probe] = "active"
    BY DEF ProbeDue, CheckInv, CheckTypeOK
  <2>1. Probe \in Request /\ ServerOf(Probe) = "http"
    BY ProcessAssumption DEF ServerOf
  <2>2. CASE UNCHANGED request
    BY <2>2
  <2>3. CASE ServerSide(Next)
    <3>1. returned' = returned /\ HandlerWaits /\ Next
      BY <2>3 DEF ServerSide, checkVars
    <3>2. request'[Probe] # "done"
      BY <3>1 DEF HandlerWaits
    <3>3. ASSUME NEW r \in Request, Accept(r) \/ Finish(r) PROVE request'[Probe] = "active"
      BY <2>1, <3>2, <3>3 DEF Accept, Finish
    <3>4. CASE ForceStop
      BY <2>1, <3>4 DEF ForceStop, Active
    <3>5. ~Exit
      BY DEF Exit, Running
    <3>6. ASSUME NEW s \in Server, ServerStep(s) PROVE request' = request
      BY <3>6 DEF ServerStep, Listen, ServeFails, ServeEnds, ReportError
    <3>7. CASE \/ StartupStep \/ StartGRPC \/ StartHTTP \/ Notify
               \/ BeginShutdown \/ HTTPShutdown \/ GRPCStopped
               \/ CloseRedis \/ ClosePostgres
               \/ Signal \/ Deadline \/ GracefulStop \/ GRPCDrained
      BY <3>7 DEF StartupStep, LoadConfig, OpenPostgres, MigrateAndSeed, OpenRedis,
                  StartGRPC, StartHTTP, Notify, Unchanged, BeginShutdown, HTTPShutdown,
                  GRPCStopped, CloseRedis, ClosePostgres, Signal, Deadline, GracefulStop,
                  GRPCDrained
    <3> QED
      BY <3>1, <3>3, <3>4, <3>5, <3>6, <3>7 DEF Next, MainStep
  <2> QED
    BY <2>2, <2>3 DEF ProcessNext, CheckStep, vars, processVars
<1> QED
  BY <1>1, <1>2

\* As Progress stops for good, its guards fail again and again, and with them
\* whatever is due is done: a shutdown that has a reason ends the process, the
\* probe returns, and the goroutines of the check end.
LEMMA WhatIsDueHappens == GuardedSpec => ShutdownEnds /\ ProbeReturns /\ GoroutinesEnd
<1>1. ProcessInv => (Running /\ (ShutdownDue \/ ProbeDue \/ ResultDue) => CanGoOn)
  BY NeverStuck
<1>2. /\ ProcessInv /\ ProcessInv' /\ [ProcessNext]_processVars =>
           (ShutdownDue => ShutdownDue')
      /\ ProcessInv /\ ProcessInv' /\ [ProcessNext]_processVars =>
           (ProbeDue => ProbeDue' \/ returned' \/ ~Running')
  BY DueStays
<1>3. (signals > 0 \/ \E s \in Server : serving[s] = "failed") => ShutdownDue
  BY DEF ShutdownDue
<1>4. ~Running <=> main = "exited"
  BY DEF Running
<1>5. request[Probe] = "active" => ProbeDue \/ returned
  BY DEF ProbeDue
<1>6. ~ResultDue <=> \A d \in Dependency : worker[d] # "answered"
  BY DEF ResultDue
<1> QED
  BY <1>1, <1>2, <1>3, <1>4, <1>5, <1>6, ProcessInvHolds, ProgressEnds, PTL
     DEF GuardedSpec, GuardedFairness, ShutdownEnds, ProbeReturns, GoroutinesEnd

\* A shutdown that has a reason, a signal or a server that failed, ends the process
\* (the select and gracefulShutdown of main.go), whatever the handlers of requests do.
THEOREM ShutdownsEnd == GuardedSpec => ShutdownEnds
BY WhatIsDueHappens

\* The probe of an orchestrator has its answer in the end, unless the process ends
\* first (ReadinessHandler and Check, checker.go).
THEOREM ProbesReturn == GuardedSpec => ProbeReturns
BY WhatIsDueHappens

\* No goroutine of Check waits forever to send a result nobody reads (the channel
\* of checker.go holds one per dependency).
THEOREM NoGoroutineLeaks == GuardedSpec => GoroutinesEnd
BY WhatIsDueHappens
=============================================================================
