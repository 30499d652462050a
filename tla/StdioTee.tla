------------------------------ MODULE StdioTee ------------------------------
(* internal/stdioteeshim: one invocation of the helper that stands in the      *)
(* place of a CLI. It runs the CLI as its child, pumps the three standard      *)
(* streams between the child and the program that started it, logging them on  *)
(* the way, forwards signals, and ends with the child.                          *)
EXTENDS Naturals

CONSTANTS
  Capacity,    \* chunks that fit into a pipe
  MaxSignals   \* bound: signals sent to the helper

ASSUME StdioTeeAssumption ==
  /\ MaxSignals \in Nat
  /\ Capacity \in Nat \ {0}

Outputs == {"stdout", "stderr"}
Streams == Outputs \union {"stdin"}

VARIABLES
  shim,      \* where Run is: see Phases
  child,     \* none, running, or how it ended
  pump,      \* each teePump: before its loop, at src.Read, at dst.Write, done
  pipe,      \* chunks in the pipe between the helper and the child
  writable,  \* the write end of that pipe is open in some process
  readable,  \* so is the read end
  lost,      \* history: what the child wrote to a stream was thrown away
  parent,    \* the parent's end of each stream: open, stalled or closed
  pending,   \* sigCh
  signals,
  exit       \* the helper's exit status

pipes == <<pipe, writable, readable>>
vars == <<shim, child, pump, pipes, lost, parent, pending, signals, exit>>

\* started: the child runs, and signal.Notify has yet to be called.
Phases == {"init", "started", "wait", "drain", "exited", "killed"}
Pumping == {"wait", "drain"}
Statuses == {"ok", "failed", "signalled"}

Init ==
  /\ shim = "init" /\ child = "none"
  /\ pump = [s \in Streams |-> "none"]
  /\ pipe = [s \in Streams |-> 0]
  /\ writable = [s \in Streams |-> FALSE] /\ readable = [s \in Streams |-> FALSE]
  /\ lost = [s \in Outputs |-> FALSE]
  /\ parent = [s \in Streams |-> "open"]
  /\ pending = 0 /\ signals = 0
  /\ exit = "none"

\* The process goes: with it its pumps and its ends of the pipes.
Gone(phase, status) ==
  /\ shim' = phase /\ exit' = status
  /\ pump' = [s \in Streams |-> "done"]
  /\ writable' = [writable EXCEPT !["stdin"] = FALSE]
  /\ readable' = [s \in Streams |-> s = "stdin" /\ readable["stdin"]]
  /\ pending' = 0

-----------------------------------------------------------------------------
\* Run up to the child's start: no .real, no log directory, no log file, no child.
FailToStart ==
  /\ shim = "init"
  /\ Gone("exited", "error")
  /\ UNCHANGED <<child, pipe, lost, parent, signals>>

StartChildProcess ==
  /\ shim = "init"
  /\ shim' = "started" /\ child' = "running"
  /\ writable' = [s \in Streams |-> TRUE] /\ readable' = [s \in Streams |-> TRUE]
  /\ UNCHANGED <<pump, pipe, lost, parent, pending, signals, exit>>

\* startSignalForwarding, startPumpGroup
StartPumpGroup ==
  /\ shim = "started"
  /\ shim' = "wait"
  /\ pump' = [s \in Streams |-> "read"]
  /\ UNCHANGED <<child, pipes, lost, parent, pending, signals, exit>>

-----------------------------------------------------------------------------
(* teePump                                                                     *)

\* Mutant: the child's stdin stays open.
Done_KeepsOpen(s) ==
  /\ pump' = [pump EXCEPT ![s] = "done"]
  /\ UNCHANGED writable

\* The deferred part of teePump: only the child's stdin is closed with its pump.
Done(s) ==
  /\ pump' = [pump EXCEPT ![s] = "done"]
  /\ writable' = [writable EXCEPT !["stdin"] = @ /\ s # "stdin"]

\* Mutant: a chunk that cannot be logged ends the pump.
Logged_OrDone(s) == (pump' = [pump EXCEPT ![s] = "write"] /\ UNCHANGED writable) \/ Done(s)

\* What is read is written to the log, whose failure changes nothing.
Logged(s) == pump' = [pump EXCEPT ![s] = "write"] /\ UNCHANGED writable

ReadInput ==
  /\ shim \in Pumping /\ pump["stdin"] = "read"
  /\ parent["stdin"] = "open"
  /\ Logged("stdin")
  /\ UNCHANGED <<shim, child, pipe, readable, lost, parent, pending, signals, exit>>

ReadOutput(s) ==
  /\ shim \in Pumping /\ pump[s] = "read"
  /\ readable[s] /\ pipe[s] > 0
  /\ pipe' = [pipe EXCEPT ![s] = @ - 1]
  /\ Logged(s)
  /\ UNCHANGED <<shim, child, readable, lost, parent, pending, signals, exit>>

\* End of file: the parent has closed its side, nobody has the pipe's write end any
\* more; or the error of a pipe that cmd.Wait has closed.
ReadEnds(s) ==
  /\ shim \in Pumping /\ pump[s] = "read"
  /\ IF s = "stdin" THEN parent[s] = "closed"
     ELSE ~readable[s] \/ (pipe[s] = 0 /\ ~writable[s])
  /\ Done(s)
  /\ UNCHANGED <<shim, child, pipe, readable, lost, parent, pending, signals, exit>>

\* To the child; a closed end, ours or the child's, ends the pump.
WriteInput ==
  /\ shim \in Pumping /\ pump["stdin"] = "write"
  /\ \/ /\ writable["stdin"] /\ readable["stdin"] /\ pipe["stdin"] < Capacity
        /\ pipe' = [pipe EXCEPT !["stdin"] = @ + 1]
        /\ pump' = [pump EXCEPT !["stdin"] = "read"]
        /\ UNCHANGED writable
     \/ /\ ~writable["stdin"] \/ ~readable["stdin"]
        /\ Done("stdin") /\ UNCHANGED pipe
  /\ UNCHANGED <<shim, child, readable, lost, parent, pending, signals, exit>>

\* To the parent. A broken pipe on descriptors 1 and 2 kills a Go program (SIGPIPE).
WriteOutput(s) ==
  /\ shim \in Pumping /\ pump[s] = "write"
  /\ \/ /\ parent[s] = "open"
        /\ pump' = [pump EXCEPT ![s] = "read"]
        /\ UNCHANGED <<shim, writable, readable, pending, exit>>
     \/ /\ parent[s] = "closed"
        /\ Gone("killed", "signalled")
  /\ UNCHANGED <<child, pipe, lost, parent, signals>>

\* The steps of a pump that has something to do.
Pump(s) ==
  \/ ReadEnds(s)
  \/ s = "stdin" /\ WriteInput
  \/ s # "stdin" /\ (ReadOutput(s) \/ WriteOutput(s))

-----------------------------------------------------------------------------
\* cmd.Wait returns when the child has exited, and closes the helper's ends of the
\* three pipes, whatever is in them.
Wait ==
  /\ shim = "wait"
  /\ child \in Statuses
  /\ shim' = "drain"
  /\ writable' = [writable EXCEPT !["stdin"] = FALSE]
  /\ readable' = [s \in Streams |-> s = "stdin" /\ readable["stdin"]]
  /\ pipe' = [s \in Streams |-> IF s = "stdin" THEN pipe[s] ELSE 0]
  /\ lost' = [s \in Outputs |-> lost[s] \/ pipe[s] > 0]
  /\ UNCHANGED <<child, pump, parent, pending, signals, exit>>

\* Mutant: without the timeout.
WaitForPumps_All ==
  /\ shim = "drain"
  /\ \A s \in Streams : pump[s] = "done"
  /\ Gone("exited", child)
  /\ UNCHANGED <<child, pipe, lost, parent, signals>>

\* waitForPumps, half a second at most, then exitCodeForWaitError.
WaitForPumps ==
  /\ shim = "drain"
  /\ Gone("exited", child)
  /\ UNCHANGED <<child, pipe, lost, parent, signals>>

-----------------------------------------------------------------------------
\* A signal from outside: fatal before Notify, queued from then on.
Signal ==
  /\ signals < MaxSignals
  /\ signals' = signals + 1
  /\ \/ shim \in {"init", "started"} /\ Gone("killed", "signalled")
     \/ /\ shim \in Pumping
        /\ pending' = pending + 1
        /\ UNCHANGED <<shim, pump, writable, readable, exit>>
  /\ UNCHANGED <<child, pipe, lost, parent>>

\* What an exiting child leaves of its pipes: a process it has started may hold on to
\* their other ends.
ChildEnds(status) ==
  /\ child' = status
  /\ \E orphan \in BOOLEAN :
       /\ writable' = [s \in Streams |-> writable[s] /\ (s = "stdin" \/ orphan)]
       /\ readable' = [readable EXCEPT !["stdin"] = @ /\ orphan]

\* The goroutine of startSignalForwarding: the child takes it as it likes.
Forward ==
  /\ shim \in Pumping /\ pending > 0
  /\ pending' = pending - 1
  /\ \/ child = "running" /\ ChildEnds("signalled")
     \/ UNCHANGED <<child, writable, readable>>
  /\ UNCHANGED <<shim, pump, pipe, lost, parent, signals, exit>>

\* The child.
ChildWrites(s) ==
  /\ child = "running"
  /\ readable[s] /\ pipe[s] < Capacity
  /\ pipe' = [pipe EXCEPT ![s] = @ + 1]
  /\ UNCHANGED <<shim, child, pump, writable, readable, lost, parent, pending, signals, exit>>

ChildReads ==
  /\ child = "running" /\ pipe["stdin"] > 0
  /\ pipe' = [pipe EXCEPT !["stdin"] = @ - 1]
  /\ UNCHANGED <<shim, child, pump, writable, readable, lost, parent, pending, signals, exit>>

ChildExits ==
  /\ child = "running"
  /\ \E status \in Statuses : ChildEnds(status)
  /\ UNCHANGED <<shim, pump, pipe, lost, parent, pending, signals, exit>>

\* The parent stops reading for a while, or closes a stream for good.
ParentTurns(s) ==
  /\ \/ s \in Outputs /\ parent[s] = "open" /\ parent' = [parent EXCEPT ![s] = "stalled"]
     \/ parent[s] = "stalled" /\ parent' = [parent EXCEPT ![s] = "open"]
     \/ parent[s] # "closed" /\ parent' = [parent EXCEPT ![s] = "closed"]
  /\ UNCHANGED <<shim, child, pump, pipes, lost, pending, signals, exit>>

-----------------------------------------------------------------------------
Run == FailToStart \/ StartChildProcess \/ StartPumpGroup \/ Wait \/ WaitForPumps
Child == ChildReads \/ ChildExits \/ \E s \in Outputs : ChildWrites(s)

Next ==
  \/ Run \/ Child \/ Signal \/ Forward \/ ReadInput
  \/ \E s \in Streams : Pump(s) \/ ParentTurns(s)

Spec == Init /\ [][Next]_vars

\* Goroutines that can run do, and the timer of waitForPumps fires. The child reads its
\* input as long as it runs; nothing makes it write or exit, nor the parent anything.
FairSpec ==
  /\ Spec
  /\ WF_vars(Run)
  /\ WF_vars(Forward)
  /\ WF_vars(ChildReads)
  /\ \A s \in Streams : WF_vars(Pump(s))

-----------------------------------------------------------------------------
TypeOK ==
  /\ shim \in Phases
  /\ child \in Statuses \union {"none", "running"}
  /\ pump \in [Streams -> {"none", "read", "write", "done"}]
  /\ pipe \in [Streams -> 0..Capacity]
  /\ writable \in [Streams -> BOOLEAN] /\ readable \in [Streams -> BOOLEAN]
  /\ lost \in [Outputs -> BOOLEAN]
  /\ parent \in [Streams -> {"open", "stalled", "closed"}]
  /\ pending \in 0..MaxSignals /\ signals \in 0..MaxSignals
  /\ exit \in Statuses \union {"none", "error"}

\* "exits with the child's termination status": once the child has ended the helper
\* does too, whoever holds a pipe open, stalls or never closes its side.
ShimExits == (child \in Statuses /\ shim \in Pumping) ~> shim \in {"exited", "killed"}

\* "required for the parent-to-child direction so the child sees EOF on its stdin and
\* can exit": when the parent closes its side, the child gets all of the input that was
\* read for it, and then its end.
InputEnds ==
  (parent["stdin"] = "closed" /\ child = "running") ~>
    \/ child # "running"
    \/ pipe["stdin"] = 0 /\ ~writable["stdin"]

\* "if it fails we still must move the real bytes to dst so the child does not stall":
\* a child that waits for room in a pipe gets it, as long as the parent reads that
\* stream, whatever becomes of the log and of the other streams.
OutputFlows ==
  \A s \in Outputs :
    (pipe[s] = Capacity /\ shim \in Pumping) ~>
      pipe[s] < Capacity \/ parent[s] # "open" \/ shim \notin Pumping

\* "teePump copies bytes from src to dst" and "blocks until src returns EOF": when the
\* helper goes on to exit with the child's status, nothing the child wrote to a stream
\* its parent reads has been thrown away.
OutputArrives ==
  \A s \in Outputs : shim \in {"drain", "exited"} /\ parent[s] = "open" => ~lost[s]
=============================================================================
