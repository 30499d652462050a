------------------------------ MODULE AppGuard ------------------------------
(* internal/appguard, as bundlemutate.Mutate asks it before a bundle changes:  *)
(* a background caller gives way to a running app, a foreground one asks it to *)
(* quit, then sends SIGTERM, then SIGKILL, and gives up.                       *)
EXTENDS Naturals

CONSTANTS
  Procs,      \* identities of processes whose command lies in the app's bundle
  MaxFaults   \* bound: failures of operating-system calls, ps and downloads

ASSUME AppGuardAssumption == MaxFaults \in Nat

VARIABLES
  procs,    \* the processes of the app that run
  policy,   \* "defer" (background) or "close" (foreground)
  guard,    \* the next step of Mutate's check, or its answer
  listed,   \* the processes the last list showed
  checked,  \* history: what the latest check since staging saw of the app
  faults,
  clean     \* history: no fault has hit this upgrade

guardVars == <<procs, policy, guard, listed, checked>>
faultVars == <<faults, clean>>

Answers == {"closed", "running", "failed"}
GuardSteps == {"list", "quit", "poll", "term", "termwait", "kill", "killwait"}

GuardInit ==
  /\ procs = {}
  /\ policy = "defer"
  /\ guard = "list"
  /\ listed = {}
  /\ checked = "nothing"
  /\ faults = 0
  /\ clean = TRUE

\* An injected failure of one operating-system call.
Fault ==
  /\ faults < MaxFaults
  /\ faults' = faults + 1
  /\ clean' = FALSE

NoFault == UNCHANGED faultVars

-----------------------------------------------------------------------------
\* PolicyDefer: Running takes a list that fails for an empty one.
Running ==
  /\ guard = "list" /\ policy = "defer"
  /\ \/ procs = {} /\ guard' = "closed" /\ checked' = "closed" /\ NoFault
     \/ procs # {} /\ guard' = "running" /\ checked' = "open" /\ NoFault
     \/ guard' = "closed" /\ checked' = "unknown" /\ Fault
  /\ UNCHANGED <<procs, policy, listed>>

\* Processes, and what EnsureClosed and waitForExit make of it: of the lists they make
\* every 250 ms, the one that ends the wait, which is empty or made at the deadline.
Listing(here, next) ==
  /\ guard = here /\ policy = "close"
  /\ \/ procs = {} /\ guard' = "closed" /\ checked' = "closed" /\ listed' = {} /\ NoFault
     \/ procs # {} /\ guard' = next /\ listed' = procs /\ UNCHANGED checked /\ NoFault
     \/ guard' = "failed" /\ UNCHANGED <<checked, listed>> /\ Fault
  /\ UNCHANGED <<procs, policy>>

\* requestQuit asks the app by each of its bundle ids; one that says no makes
\* osascript fail, one that says yes exits when it likes.
RequestQuit ==
  /\ guard = "quit"
  /\ guard' \in {"poll", "failed"}
  /\ UNCHANGED <<procs, policy, listed, checked>> /\ NoFault

\* signalProcesses: one that has exited counts as signalled, and a failure leaves the
\* rest alone. A process can ignore SIGTERM, but not SIGKILL.
Terminate ==
  /\ guard = "term"
  /\ \/ guard' = "termwait" /\ NoFault
     \/ guard' = "failed" /\ Fault
  /\ UNCHANGED <<procs, policy, listed, checked>>

Kill ==
  /\ guard = "kill"
  /\ \/ procs' = procs \ listed /\ guard' = "killwait" /\ NoFault
     \/ procs' \in {procs \ S : S \in SUBSET listed} /\ guard' = "failed" /\ Fault
  /\ UNCHANGED <<policy, listed, checked>>

EnsureClosed ==
  \/ Listing("list", "quit") \/ RequestQuit
  \/ Listing("poll", "term") \/ Terminate
  \/ Listing("termwait", "kill") \/ Kill
  \/ Listing("killwait", "failed")

\* The check of Mutate, up to its answer.
Mutate == Running \/ EnsureClosed

\* The user and the app: it opens if there is a bundle to open, a process starts
\* another, and any of them exits.
AppActs(there) ==
  /\ \/ \E p \in Procs \ procs : (there \/ procs # {}) /\ procs' = procs \union {p}
     \/ \E p \in procs : procs' = procs \ {p}
  /\ UNCHANGED <<policy, guard, listed, checked, faultVars>>
=============================================================================
