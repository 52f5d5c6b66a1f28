------------------------------ MODULE Lifecycle ------------------------------
(***************************************************************************)
(* The life of one process: main and gracefulShutdown of                   *)
(* cmd/server/main.go.                                                     *)
(*                                                                         *)
(* main opens PostgreSQL, migrates and seeds, opens Redis, starts a        *)
(* goroutine per server and listens for signals; then it waits for one, or *)
(* for a server error, drains the HTTP server and after it the gRPC server *)
(* under one 15 second context, and its deferred calls close Redis and     *)
(* PostgreSQL.  Handlers are goroutines of their own and outlive whatever  *)
(* gives up waiting for them.  The two servers themselves (net/http,       *)
(* grpc-go) are external: modelled by what main relies on.                 *)
(***************************************************************************)
EXTENDS Naturals, FiniteSets

CONSTANTS
  Request,   \* requests that may arrive
  GRPC       \* those for the gRPC server; the others are HTTP requests

ASSUME LifecycleAssumption ==
  /\ IsFiniteSet(Request)
  /\ GRPC \subseteq Request

Server == {"http", "grpc"}

VARIABLES
  main,      \* where the main goroutine is
  serving,   \* the goroutine that runs each server
  listening, \* the servers that accept requests
  errors,    \* results in the channel serverErrors
  signals,   \* signals in the channel shutdownSignals
  expired,   \* the shutdown context is done
  stopping,  \* the goroutine that runs GracefulStop
  status,    \* what the gRPC health service says
  stores,    \* the clients of Redis and PostgreSQL that are open
  request,   \* where each request is
  notified   \* signals go to the channel, or went there before the end

vars == <<main, serving, listening, errors, signals, expired, stopping, status,
          stores, request, notified>>

ServerOf(r) == IF r \in GRPC THEN "grpc" ELSE "http"

Active(s) == {r \in Request : ServerOf(r) = s /\ request[r] = "active"}

Startup ==
  {"config", "postgres", "seed", "redis", "startGRPC", "startHTTP", "notify"}

Closing == main \in {"closeRedis", "closePostgres", "exit", "exited"}

Main ==
  Startup \cup {"select", "httpShutdown", "grpcStop", "closeRedis", "closePostgres",
               "exit", "exited"}

Stores == {"redis", "postgres"}

\* make(chan error, 2), make(chan os.Signal, 1)
ErrorCapacity  == Cardinality(Server)
SignalCapacity == 1

Init ==
  /\ main = "config"
  /\ serving = [s \in Server |-> "none"]
  /\ listening = {}
  /\ errors = 0
  /\ signals = 0
  /\ expired = FALSE
  /\ stopping = "none"
  /\ status = "NONE"
  /\ stores = {}
  /\ request = [r \in Request |-> "new"]
  /\ notified = FALSE

Running == main # "exited"

(***************************************************************************)
(* Startup.  A step that fails is log.Fatal (Exit below): the deferred     *)
(* calls do not run.  Tracing is optional and changes nothing here.        *)
(***************************************************************************)
Unchanged(others) == UNCHANGED others /\ UNCHANGED <<errors, signals, expired, stopping,
                                                     request>>

Goto(from, to) == main = from /\ main' = to

LoadConfig ==
  /\ Goto("config", "postgres")
  /\ Unchanged(<<serving, listening, status, stores, notified>>)

OpenPostgres ==
  /\ Goto("postgres", "seed")
  /\ stores' = stores \cup {"postgres"}
  /\ Unchanged(<<serving, listening, status, notified>>)

\* MigrateAndSeed and SeedDemoUsers, the subject of Seeding.
MigrateAndSeed ==
  /\ Goto("seed", "redis")
  /\ Unchanged(<<serving, listening, status, stores, notified>>)

OpenRedis ==
  /\ Goto("redis", "startGRPC")
  /\ stores' = stores \cup {"redis"}
  /\ Unchanged(<<serving, listening, status, notified>>)

\* buildGRPCServer sets SERVING before the goroutine listens.
StartGRPC ==
  /\ Goto("startGRPC", "startHTTP")
  /\ serving' = [serving EXCEPT !["grpc"] = "starting"]
  /\ status' = "SERVING"
  /\ Unchanged(<<listening, stores, notified>>)

StartHTTP ==
  /\ Goto("startHTTP", "notify")
  /\ serving' = [serving EXCEPT !["http"] = "starting"]
  /\ Unchanged(<<listening, status, stores, notified>>)

Notify ==
  /\ Goto("notify", "select")
  /\ notified' = TRUE
  /\ Unchanged(<<serving, listening, status, stores>>)

(***************************************************************************)
(* The goroutines of the servers.                                          *)
(***************************************************************************)
\* Mutant: a server that was told to stop may still start.
NeverStopped(s) == FALSE

\* A server that was told to stop never starts to listen.
Stopped(s) ==
  IF s = "http" THEN main \notin Startup \cup {"select"}
  ELSE Closing \/ stopping \in {"draining", "stopped"}

Listen(s) ==
  /\ Running
  /\ serving[s] = "starting"
  /\ ~Stopped(s)
  /\ serving' = [serving EXCEPT ![s] = "serving"]
  /\ listening' = listening \cup {s}
  /\ UNCHANGED <<main, errors, signals, expired, stopping, status, stores,
                 request, notified>>

\* The port is taken, accepting fails, or gRPC was stopped before it served.
ServeFails(s) ==
  /\ Running
  /\ \/ serving[s] = "serving" /\ s \in listening
     \/ serving[s] = "starting" /\ (Stopped(s) => s = "grpc")
  /\ serving' = [serving EXCEPT ![s] = "failed"]
  /\ listening' = listening \ {s}
  /\ UNCHANGED <<main, errors, signals, expired, stopping, status, stores, request, notified>>

\* Serve returns without an error after a stop (http.ErrServerClosed, nil).
ServeEnds(s) ==
  /\ Running
  /\ \/ serving[s] = "serving" /\ s \notin listening
     \/ s = "http" /\ serving[s] = "starting" /\ Stopped(s)
  /\ serving' = [serving EXCEPT ![s] = "ended"]
  /\ UNCHANGED <<main, listening, errors, signals, expired, stopping, status,
                 stores, request, notified>>

ReportError(s) ==
  /\ Running
  /\ serving[s] = "failed"
  /\ errors < ErrorCapacity
  /\ errors' = errors + 1
  /\ serving' = [serving EXCEPT ![s] = "ended"]
  /\ UNCHANGED <<main, listening, signals, expired, stopping, status, stores,
                 request, notified>>

(***************************************************************************)
(* Requests.  A handler that is cut off may still run.                     *)
(***************************************************************************)
Accept(r) ==
  /\ Running
  /\ request[r] = "new"
  /\ ServerOf(r) \in listening
  /\ request' = [request EXCEPT ![r] = "active"]
  /\ UNCHANGED <<main, serving, listening, errors, signals, expired, stopping,
                 status, stores, notified>>

Finish(r) ==
  /\ Running
  /\ request[r] \in {"active", "cut"}
  /\ request' = [request EXCEPT ![r] = "done"]
  /\ UNCHANGED <<main, serving, listening, errors, signals, expired, stopping,
                 status, stores, notified>>

(***************************************************************************)
(* main.                                                                   *)
(***************************************************************************)
\* Mutant: signals queue up without bound.
SignalQueued ==
  /\ Running
  /\ notified
  /\ signals' = signals + 1
  /\ UNCHANGED <<main, serving, listening, errors, expired, stopping, status,
                 stores, request, notified>>

\* A signal that finds the channel full is dropped.
Signal ==
  /\ Running
  /\ notified
  /\ signals < SignalCapacity
  /\ signals' = signals + 1
  /\ UNCHANGED <<main, serving, listening, errors, expired, stopping, status,
                 stores, request, notified>>

\* The select, NOT_SERVING, and Shutdown closing the HTTP listener.
BeginShutdown ==
  /\ main = "select"
  /\ \/ signals > 0 /\ signals' = signals - 1 /\ errors' = errors
     \/ errors > 0 /\ errors' = errors - 1 /\ signals' = signals
  /\ main' = "httpShutdown"
  /\ status' = "NOT_SERVING"
  /\ listening' = listening \ {"http"}
  /\ UNCHANGED <<serving, expired, stopping, stores, request, notified>>

Deadline ==
  /\ main \in {"httpShutdown", "grpcStop"}
  /\ ~expired
  /\ expired' = TRUE
  /\ UNCHANGED <<main, serving, listening, errors, signals, stopping, status,
                 stores, request, notified>>

\* Mutant: Shutdown has no deadline.
HTTPShutdownWaits ==
  /\ main = "httpShutdown"
  /\ Active("http") = {}
  /\ main' = "grpcStop"
  /\ stopping' = "started"
  /\ UNCHANGED <<serving, listening, errors, signals, expired, status, stores,
                 request, notified>>

\* Shutdown returns; the goroutine of GracefulStop is started.
HTTPShutdown ==
  /\ main = "httpShutdown"
  /\ Active("http") = {} \/ expired
  /\ main' = "grpcStop"
  /\ stopping' = "started"
  /\ UNCHANGED <<serving, listening, errors, signals, expired, status, stores,
                 request, notified>>

GracefulStop ==
  /\ Running
  /\ stopping = "started"
  /\ stopping' = "draining"
  /\ listening' = listening \ {"grpc"}
  /\ UNCHANGED <<main, serving, errors, signals, expired, status, stores,
                 request, notified>>

GRPCDrained ==
  /\ Running
  /\ stopping = "draining"
  /\ Active("grpc") = {}
  /\ stopping' = "stopped"
  /\ UNCHANGED <<main, serving, listening, errors, signals, expired, status,
                 stores, request, notified>>

\* case <-grpcStopped
GRPCStopped ==
  /\ main = "grpcStop"
  /\ stopping = "stopped"
  /\ main' = "closeRedis"
  /\ UNCHANGED <<serving, listening, errors, signals, expired, stopping, status,
                 stores, request, notified>>

\* Mutant: Stop does not wait for the deadline.
ForceStopEarly ==
  /\ main = "grpcStop"
  /\ main' = "closeRedis"
  /\ listening' = listening \ {"grpc"}
  /\ request' = [r \in Request |-> IF r \in Active("grpc") THEN "cut" ELSE request[r]]
  /\ UNCHANGED <<serving, errors, signals, expired, stopping, status, stores, notified>>

\* case <-ctx.Done(): Stop closes the connections and cancels the handlers.
ForceStop ==
  /\ main = "grpcStop"
  /\ expired
  /\ main' = "closeRedis"
  /\ listening' = listening \ {"grpc"}
  /\ request' = [r \in Request |-> IF r \in Active("grpc") THEN "cut" ELSE request[r]]
  /\ UNCHANGED <<serving, errors, signals, expired, stopping, status, stores, notified>>

\* The deferred calls.
CloseRedis ==
  /\ main = "closeRedis"
  /\ main' = "closePostgres"
  /\ stores' = stores \ {"redis"}
  /\ UNCHANGED <<serving, listening, errors, signals, expired, stopping, status,
                 request, notified>>

ClosePostgres ==
  /\ main = "closePostgres"
  /\ main' = "exit"
  /\ stores' = stores \ {"postgres"}
  /\ UNCHANGED <<serving, listening, errors, signals, expired, stopping, status,
                 request, notified>>

\* main returns, a step of the startup is log.Fatal, or a signal comes before
\* signal.Notify or after signal.Stop: the process is gone and every handler
\* with it.
Exit ==
  /\ Running
  /\ main \in Startup \/ Closing
  /\ main' = "exited"
  /\ listening' = {}
  /\ request' = [r \in Request |->
       IF request[r] \in {"active", "cut"} THEN "killed" ELSE request[r]]
  /\ UNCHANGED <<serving, errors, signals, expired, stopping, status, stores,
                 notified>>

-----------------------------------------------------------------------------
ServerStep(s) == Listen(s) \/ ServeFails(s) \/ ServeEnds(s) \/ ReportError(s)

StartupStep == LoadConfig \/ OpenPostgres \/ MigrateAndSeed \/ OpenRedis

MainStep ==
  StartGRPC \/ StartHTTP \/ Notify \/ BeginShutdown \/ HTTPShutdown \/ GRPCStopped \/ ForceStop
    \/ CloseRedis \/ ClosePostgres \/ (Closing /\ Exit)

Next ==
  \/ \E s \in Server : ServerStep(s)
  \/ \E r \in Request : Accept(r) \/ Finish(r)
  \/ Signal
  \/ Deadline
  \/ GracefulStop
  \/ GRPCDrained
  \/ StartupStep
  \/ MainStep
  \/ Exit

Spec == Init /\ [][Next]_vars

-----------------------------------------------------------------------------
(***************************************************************************)
(* Properties.                                                             *)
(***************************************************************************)
\* Every variable holds a value of its type.
TypeOK ==
  /\ main \in Main
  /\ serving \in [Server -> {"none", "starting", "serving", "failed", "ended"}]
  /\ listening \subseteq Server
  /\ errors \in 0 .. ErrorCapacity
  /\ signals \in 0 .. SignalCapacity
  /\ expired \in BOOLEAN
  /\ stopping \in {"none", "started", "draining", "stopped"}
  /\ status \in {"NONE", "SERVING", "NOT_SERVING"}
  /\ stores \subseteq Stores
  /\ request \in [Request -> {"new", "active", "cut", "done", "killed"}]
  /\ notified \in BOOLEAN

\* Within the 15 seconds no accepted request is lost: it is cut off, finds
\* Redis or PostgreSQL closed, or dies with the process only after the
\* deadline.  (A signal that comes before signal.Notify, when the servers may
\* be accepting already, kills the process at once.)
RequestsGetTheirTime ==
  notified /\ ~expired => \A r \in Request :
    /\ request[r] \notin {"cut", "killed"}
    /\ request[r] = "active" => stores = Stores

\* No server accepts requests before both stores are open and the tables are
\* migrated and seeded, nor once they are being closed, not even one whose
\* goroutine comes to listen that late.
NoRequestWithoutStores ==
  listening # {} =>
    /\ stores = Stores
    /\ main \notin {"config", "postgres", "seed", "redis"}
    /\ ~Closing

\* A signal or a failing server ends the process, although handlers may hang.
ShutdownEnds ==
  (signals > 0 \/ \E s \in Server : serving[s] = "failed") ~> main = "exited"
=============================================================================
