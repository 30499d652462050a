------------------------------- MODULE Daemon -------------------------------
(* The executor inside its process: internal/daemon/run.go serves it until a   *)
(* signal or a self-update, and client.go's RunOperation reaches it from CLI   *)
(* processes, which run the operation themselves when no daemon answers.       *)
EXTENDS Executor

CONSTANTS
  TickCalls,   \* upgrades the tick loop starts in the daemon's own process
  Stallers,    \* callers that may stop reading their stream, so that Send blocks
  MaxExits     \* bound: how often the daemon process ends

ASSUME DaemonAssumption ==
  /\ TickCalls \subseteq Calls \ Watchers
  /\ Stallers \subseteq Calls \ TickCalls
  /\ MaxExits \in Nat

VARIABLES
  daemon,    \* "serving", "draining" (GracefulStop) or "down"
  exits,     \* process exits so far
  cli,       \* each call's own process: see CLIStates
  killed     \* history: a process did not end as run.go ends it

daemonVars == <<daemon, exits, cli, killed>>
allVars == <<vars, daemonVars>>

CLIStates == {"new", "probed", "rpc", "local", "done", "lost"}

DaemonInit ==
  /\ Init
  /\ daemon = "serving"
  /\ exits = 0
  /\ cli = [c \in Calls |-> "new"]
  /\ killed = FALSE

-----------------------------------------------------------------------------
(* client.go                                                                   *)

\* daemonReachable: only a refused connection counts as no daemon, and from the
\* moment GracefulStop closes the listener every connection is refused.
Probe(c) ==
  /\ c \notin TickCalls
  /\ cli[c] = "new"
  /\ daemon = "serving"
  /\ cli' = [cli EXCEPT ![c] = "probed"]
  /\ UNCHANGED <<vars, daemon, exits, killed>>

\* runLocal; updater RPCs have no local form.
RunLocal(c) ==
  /\ c \notin TickCalls \union Watchers
  /\ cli[c] = "new"
  /\ daemon # "serving"
  /\ cli' = [cli EXCEPT ![c] = "local"]
  /\ UNCHANGED <<vars, daemon, exits, killed>>

LocalReturns(c) ==
  /\ cli[c] = "local"
  /\ cli' = [cli EXCEPT ![c] = "done"]
  /\ UNCHANGED <<vars, daemon, exits, killed>>

\* streamDaemonOperation on a daemon that still accepts the connection. The app
\* RPCs are never cancelable.
OpenStream(c) ==
  /\ cli[c] = "probed"
  /\ daemon = "serving"
  /\ \/ c \in Watchers /\ \E K \in Filters : SubscribeActive(c, K)
     \/ \E req \in Requests :
          /\ ~req.cancelable
          /\ Attach(c, req) \/ Refuse(c, req) \/ \E r \in RunIds : Start(c, req, r)
  /\ cli' = [cli EXCEPT ![c] = "rpc"]
  /\ UNCHANGED <<daemon, exits, killed>>

\* The probe answered, the stream does not: an error, and no second thought.
OpenFails(c) ==
  /\ cli[c] = "probed"
  /\ daemon # "serving"
  /\ cli' = [cli EXCEPT ![c] = "lost"]
  /\ UNCHANGED <<vars, daemon, exits, killed>>

\* The tick loop calls the executor directly, under signalCtx. sweep looks at no
\* context between its targets, so it starts upgrades after a stop as well.
TickUpgrades(c) ==
  /\ c \in TickCalls
  /\ daemon # "down"
  /\ \E req \in Requests :
       /\ req.key[1] = Upgrade
       /\ Attach(c, req) \/ Refuse(c, req) \/ \E r \in RunIds : Start(c, req, r)
  /\ cli' = [cli EXCEPT ![c] = "rpc"]
  /\ UNCHANGED <<daemon, exits, killed>>

-----------------------------------------------------------------------------
(* The jobs of the process that is up.                                         *)

JobSteps(r) == Job(r) /\ UNCHANGED daemonVars

\* The load monitor cancels a CLI upgrade of the tick loop, the one cancelable kind.
CallSteps(c) ==
  /\ Stream(c) \/ (Cancel(c) /\ (c \in TickCalls => asked[c].cancelable))
  /\ UNCHANGED daemonVars

-----------------------------------------------------------------------------
(* run.go                                                                      *)

\* SIGTERM, an interrupt, or the self-update scheduler's stop(): signalCtx is
\* cancelled, and with it every call of the tick loop, those to come included.
Terminate ==
  /\ daemon = "serving"
  /\ exits < MaxExits
  /\ daemon' = "draining"
  /\ ctx' = [c \in Calls |-> ctx[c] \/ c \in TickCalls]
  /\ UNCHANGED <<runVars, pc, asked, on, seen, failure, exits, cli, killed>>

Streaming == {c \in Calls : pc[c] = "streaming"}

NoRuns == [k \in Keys |-> NoRun]

\* The process is gone, with its executor, its streams and every goroutine in it.
ProcessEnds ==
  /\ daemon' = "down"
  /\ exits' = exits + 1
  /\ runs' = NoRuns
  /\ phase' = [r \in RunIds |-> IF phase[r] \in Live \union {"removed"} THEN "killed" ELSE phase[r]]
  /\ pc' = [c \in Calls |-> IF c \in Streaming THEN "detached" ELSE pc[c]]
  /\ cli' = [c \in Calls |-> IF c \in Streaming \ TickCalls THEN "lost" ELSE cli[c]]
  /\ UNCHANGED <<run, result, log, asked, on, seen, failure, ctx>>

\* Mutant: Stop in place of GracefulStop.
Exit_AtOnce == daemon = "draining" /\ ProcessEnds /\ UNCHANGED killed

\* Mutant: the process waits for the tick loop's upgrades too.
Exit_AfterJobs ==
  /\ daemon = "draining"
  /\ Streaming \subseteq TickCalls
  /\ Registered = {}
  /\ ProcessEnds
  /\ UNCHANGED killed

\* GracefulStop returns when no RPC is in progress, and Run returns with it.
Exit ==
  /\ daemon = "draining"
  /\ Streaming \subseteq TickCalls
  /\ ProcessEnds
  /\ UNCHANGED killed

\* SIGKILL, or the machine stops.
Crash ==
  /\ daemon # "down"
  /\ exits < MaxExits
  /\ ProcessEnds
  /\ killed' = TRUE

\* The calls a tick loop has yet to make are those of a new loop, with a new context.
Relaunch ==
  /\ daemon = "down"
  /\ daemon' = "serving"
  /\ ctx' = [c \in Calls |-> ctx[c] /\ ~(c \in TickCalls /\ pc[c] = "idle")]
  /\ UNCHANGED <<runVars, pc, asked, on, seen, failure, exits, cli, killed>>

-----------------------------------------------------------------------------
CLI(c) ==
  \/ Probe(c) \/ RunLocal(c) \/ LocalReturns(c)
  \/ OpenStream(c) \/ OpenFails(c) \/ TickUpgrades(c)

DaemonNext ==
  \/ \E c \in Calls : CLI(c) \/ CallSteps(c)
  \/ \E r \in RunIds : JobSteps(r)
  \/ Terminate \/ Exit \/ Relaunch \/ Crash

DaemonSpec == DaemonInit /\ [][DaemonNext]_allVars

\* A stream comes back on its own unless its peer has stopped reading: then only the
\* end of its context, or of the process, ends its Send.
StreamReturns(c) == EndOfStream(c) \/ Detach(c) \/ (c \notin Stallers /\ Stream(c))

\* Goroutines that can run do, and Run returns once GracefulStop has. Nothing
\* obliges an operation to return: the daemon sets no deadline on a job, so the body
\* of a job has no fairness.
FairDaemonSpec ==
  /\ DaemonSpec
  /\ \A r \in RunIds : WF_allVars(JobSteps(r) /\ phase[r] \in {"returned", "removed"})
  /\ \A c \in Calls : WF_allVars(StreamReturns(c) /\ UNCHANGED daemonVars)
  /\ WF_allVars(Exit)

-----------------------------------------------------------------------------
\* Types, and that nothing of the executor outlives its process.
DaemonTypeOK ==
  /\ daemon \in {"serving", "draining", "down"}
  /\ exits \in 0..MaxExits
  /\ cli \in [Calls -> CLIStates]
  /\ killed \in BOOLEAN
  /\ phase \in [RunIds -> Phases \union {"killed"}]
  /\ daemon = "down" => Streaming = {} /\ Registered = {}

\* An orderly stop cuts no client off: unless the process is killed, only a call that
\* never got a stream, since the daemon went away between its probe and its request,
\* comes out empty.
OrderlyStopCutsNoStream ==
  ~killed => \A c \in Calls : cli[c] = "lost" => on[c] = {}

\* No operation that c streams is still at work.
NothingToWaitFor(c) == \A r \in on[c] : phase[r] \notin {"started", "working"}

\* GracefulStop is held up by the operations that callers stream and by callers that
\* stopped reading, and by nothing else: neither an upgrade that only the tick loop
\* follows, nor how a job ended, keeps the process from exiting.
DrainEnds ==
  (/\ daemon = "draining"
   /\ \A c \in Streaming \ TickCalls : ctx[c] \/ (c \notin Stallers /\ NothingToWaitFor(c)))
    ~> daemon = "down"

\* However the jobs of its runs ended, a call that reads returns when they have; and one
\* that was cancelled returns whatever its runs, and the callers beside it, do.
CallsReturn ==
  \A c \in Calls :
    (pc[c] = "streaming" /\ (ctx[c] \/ (c \notin Stallers /\ NothingToWaitFor(c))))
      ~> pc[c] # "streaming"
=============================================================================
