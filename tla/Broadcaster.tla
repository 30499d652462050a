---------------------------- MODULE Broadcaster ----------------------------
(* internal/daemon/broadcaster.go: one run's event history, guarded by a mutex *)
(* and a condition variable, and the goroutines that stream it to subscribers. *)
(* Every critical section starts by taking mu; ctx.Err() and send happen       *)
(* outside it, so a cancellation, an event or the end of the run can fall      *)
(* between any two of a subscriber's steps.                                    *)
EXTENDS Naturals, Sequences

CONSTANTS
  Subscribers,  \* goroutines that call stream
  Readers,      \* those whose peer keeps reading, so that send returns
  Events,       \* the values emitted
  MaxEvents,    \* bound on the events one run emits
  NoOne         \* mu is free

ASSUME BroadcasterAssumption ==
  /\ NoOne \notin Subscribers
  /\ Readers \subseteq Subscribers
  /\ MaxEvents \in Nat

VARIABLES
  mu,         \* broadcaster.mu: the subscriber that holds it, or NoOne
  sleepers,   \* cond's notify list
  events,     \* broadcaster.events
  done,       \* broadcaster.done
  pc,         \* where each subscriber is in stream
  index,      \* stream's local index
  sent,       \* what send has accepted
  cancelled,  \* ctx.Err() # nil
  hook        \* the AfterFunc callback: "unset", "armed", "running", "over"

vars == <<mu, sleepers, events, done, pc, index, sent, cancelled, hook>>
shared == <<mu, sleepers, events, done>>

Returned == {"drained", "detached", "failed"}
PCs == {"idle", "lock", "scan", "towait", "asleep", "check", "send"} \union Returned

Init ==
  /\ mu = NoOne
  /\ sleepers = {}
  /\ events = << >>
  /\ done = FALSE
  /\ pc = [s \in Subscribers |-> "idle"]
  /\ index = [s \in Subscribers |-> 0]
  /\ sent = [s \in Subscribers |-> << >>]
  /\ cancelled = [s \in Subscribers |-> FALSE]
  /\ hook = [s \in Subscribers |-> "unset"]

\* cond.Broadcast
WakeAll == sleepers' = {}

Emit(e) ==
  /\ mu = NoOne
  /\ ~done
  /\ Len(events) < MaxEvents
  /\ events' = Append(events, e)
  /\ WakeAll
  /\ UNCHANGED <<mu, done, pc, index, sent, cancelled, hook>>

\* Mutant: done is set but nobody is told.
Finish_Silent ==
  /\ mu = NoOne
  /\ ~done
  /\ done' = TRUE
  /\ UNCHANGED <<mu, sleepers, events, pc, index, sent, cancelled, hook>>

Finish ==
  /\ mu = NoOne
  /\ ~done
  /\ done' = TRUE
  /\ WakeAll
  /\ UNCHANGED <<mu, events, pc, index, sent, cancelled, hook>>

\* The subscriber's context ends at any time; context starts the AfterFunc
\* callback in a goroutine of its own.
Cancel(s) ==
  /\ ~cancelled[s]
  /\ cancelled' = [cancelled EXCEPT ![s] = TRUE]
  /\ hook' = [hook EXCEPT ![s] = IF @ = "armed" THEN "running" ELSE @]
  /\ UNCHANGED <<shared, pc, index, sent>>

\* Mutant: the callback broadcasts without the lock.
HookWakes_Unlocked(s) ==
  /\ hook[s] = "running"
  /\ WakeAll
  /\ hook' = [hook EXCEPT ![s] = "over"]
  /\ UNCHANGED <<mu, events, done, pc, index, sent, cancelled>>

\* The callback: lock, Broadcast, unlock.
HookWakes(s) ==
  /\ hook[s] = "running"
  /\ mu = NoOne
  /\ WakeAll
  /\ hook' = [hook EXCEPT ![s] = "over"]
  /\ UNCHANGED <<mu, events, done, pc, index, sent, cancelled>>

\* Mutants: a late subscriber gets only what is still to come; nobody watches ctx.
Subscribe_TailOnly(s) ==
  /\ pc[s] = "idle"
  /\ hook' = [hook EXCEPT ![s] = IF cancelled[s] THEN "running" ELSE "armed"]
  /\ pc' = [pc EXCEPT ![s] = "lock"]
  /\ index' = [index EXCEPT ![s] = Len(events)]
  /\ UNCHANGED <<shared, sent, cancelled>>

Subscribe_NoHook(s) ==
  /\ pc[s] = "idle"
  /\ hook' = [hook EXCEPT ![s] = "over"]
  /\ pc' = [pc EXCEPT ![s] = "lock"]
  /\ UNCHANGED <<shared, index, sent, cancelled>>

Subscribe(s) ==
  /\ pc[s] = "idle"
  /\ hook' = [hook EXCEPT ![s] = IF cancelled[s] THEN "running" ELSE "armed"]
  /\ pc' = [pc EXCEPT ![s] = "lock"]
  /\ UNCHANGED <<shared, index, sent, cancelled>>

Lock(s) ==
  /\ pc[s] = "lock"
  /\ mu = NoOne
  /\ mu' = s
  /\ pc' = [pc EXCEPT ![s] = "scan"]
  /\ UNCHANGED <<sleepers, events, done, index, sent, cancelled, hook>>

\* Take the next event and release mu before doing anything with it.
TakeEvent(s) ==
  /\ pc[s] = "scan"
  /\ index[s] < Len(events)
  /\ index' = [index EXCEPT ![s] = @ + 1]
  /\ mu' = NoOne
  /\ pc' = [pc EXCEPT ![s] = "check"]
  /\ UNCHANGED <<sleepers, events, done, sent, cancelled, hook>>

\* return: the deferred stop() disarms a callback that has not started.
Return(s, how) ==
  /\ pc' = [pc EXCEPT ![s] = how]
  /\ hook' = [hook EXCEPT ![s] = IF @ = "armed" THEN "over" ELSE @]

\* Mutant: done is looked at before the backlog.
DrainedReturn_Early(s) ==
  /\ pc[s] = "scan"
  /\ done
  /\ mu' = NoOne
  /\ Return(s, "drained")
  /\ UNCHANGED <<sleepers, events, done, index, sent, cancelled>>

\* Everything is drained: the run is done, or ctx is, or there is more to come.
DrainedReturn(s) ==
  /\ pc[s] = "scan"
  /\ index[s] = Len(events)
  /\ done
  /\ mu' = NoOne
  /\ Return(s, "drained")
  /\ UNCHANGED <<sleepers, events, done, index, sent, cancelled>>

DetachedReturn(s) ==
  /\ pc[s] = "scan"
  /\ index[s] = Len(events)
  /\ ~done
  /\ cancelled[s]
  /\ mu' = NoOne
  /\ Return(s, "detached")
  /\ UNCHANGED <<sleepers, events, done, index, sent, cancelled>>

DecideToWait(s) ==
  /\ pc[s] = "scan"
  /\ index[s] = Len(events)
  /\ ~done
  /\ ~cancelled[s]
  /\ pc' = [pc EXCEPT ![s] = "towait"]
  /\ UNCHANGED <<shared, index, sent, cancelled, hook>>

\* cond.Wait joins the notify list before it releases mu ...
Wait(s) ==
  /\ pc[s] = "towait"
  /\ sleepers' = sleepers \union {s}
  /\ mu' = NoOne
  /\ pc' = [pc EXCEPT ![s] = "asleep"]
  /\ UNCHANGED <<events, done, index, sent, cancelled, hook>>

\* ... and takes it again once a Broadcast has removed the waiter from the list.
Wake(s) ==
  /\ pc[s] = "asleep"
  /\ s \notin sleepers
  /\ mu = NoOne
  /\ mu' = s
  /\ pc' = [pc EXCEPT ![s] = "scan"]
  /\ UNCHANGED <<sleepers, events, done, index, sent, cancelled, hook>>

\* ctx.Err() with an event in hand and mu released.
CheckContext(s) ==
  /\ pc[s] = "check"
  /\ IF cancelled[s]
     THEN Return(s, "detached")
     ELSE pc' = [pc EXCEPT ![s] = "send"] /\ UNCHANGED hook
  /\ UNCHANGED <<shared, index, sent, cancelled>>

SendAccepted(s) ==
  /\ pc[s] = "send"
  /\ sent' = [sent EXCEPT ![s] = Append(@, events[index[s]])]
  /\ pc' = [pc EXCEPT ![s] = "lock"]
  /\ UNCHANGED <<shared, index, cancelled, hook>>

\* Mutant: a failed send only loses its event.
SendFailed_Skips(s) ==
  /\ pc[s] = "send"
  /\ pc' = [pc EXCEPT ![s] = "lock"]
  /\ UNCHANGED <<shared, index, sent, cancelled, hook>>

\* send fails when the transport does, which is also how a stalled peer's
\* cancelled stream gets out of send.
SendFailed(s) ==
  /\ pc[s] = "send"
  /\ Return(s, "failed")
  /\ UNCHANGED <<shared, index, sent, cancelled>>

Step(s) ==
  \/ Subscribe(s) \/ Lock(s) \/ TakeEvent(s)
  \/ DrainedReturn(s) \/ DetachedReturn(s) \/ DecideToWait(s)
  \/ Wait(s) \/ Wake(s) \/ CheckContext(s) \/ SendAccepted(s) \/ SendFailed(s)

Next ==
  \/ \E e \in Events : Emit(e)
  \/ Finish
  \/ \E s \in Subscribers : Step(s) \/ Cancel(s) \/ HookWakes(s)

Spec == Init /\ [][Next]_vars

\* The scheduler runs every goroutine that is not blocked and Go's mutex starves
\* no one. A send comes back if the peer reads or the stream is cancelled; nothing
\* makes a stalled peer's send return otherwise, and nothing makes a caller
\* subscribe or cancel.
Runs(s) ==
  \/ Lock(s) \/ TakeEvent(s) \/ DrainedReturn(s) \/ DetachedReturn(s)
  \/ DecideToWait(s) \/ Wait(s) \/ Wake(s) \/ CheckContext(s)

SendReturns(s) == (s \in Readers \/ cancelled[s]) /\ (SendAccepted(s) \/ SendFailed(s))

StreamFairness ==
  \A s \in Subscribers :
    /\ WF_vars(Runs(s))
    /\ WF_vars(HookWakes(s))
    /\ WF_vars(SendReturns(s))

\* No fairness on Emit or Finish: the job of a run may hang for ever.
FairSpec == Spec /\ StreamFairness

-----------------------------------------------------------------------------
TypeOK ==
  /\ mu \in Subscribers \union {NoOne}
  /\ sleepers \subseteq Subscribers
  /\ events \in Seq(Events)
  /\ done \in BOOLEAN
  /\ pc \in [Subscribers -> PCs]
  /\ index \in [Subscribers -> Nat]
  /\ \A s \in Subscribers : index[s] <= Len(events)
  /\ sent \in [Subscribers -> Seq(Events)]
  /\ cancelled \in [Subscribers -> BOOLEAN]
  /\ hook \in [Subscribers -> {"unset", "armed", "running", "over"}]

\* mu is held exactly by the subscriber that is inside a critical section: no
\* subscriber keeps the run's emit waiting while its peer is slow to read.
LockDiscipline ==
  \A s \in Subscribers : (mu = s) <=> (pc[s] \in {"scan", "towait"})

\* stream replays the full history: whenever a subscriber came, it has been sent
\* the first events of the run, each once and in order.
ReplayInOrder ==
  \A s \in Subscribers :
    /\ Len(sent[s]) <= Len(events)
    /\ \A i \in 1..Len(sent[s]) : sent[s][i] = events[i]

\* A goroutine on cond's notify list has nothing to do and is sure to be woken
\* when it has: it has drained the events, the run goes on, and if its context
\* has ended then the callback that will wake it has yet to run.
NoLostWakeup ==
  \A s \in sleepers :
    /\ pc[s] = "asleep"
    /\ index[s] = Len(events)
    /\ ~done
    /\ cancelled[s] => hook[s] = "running"

\* "each drains the remaining events and returns" (finish): a stream that returned
\* because the run was done has sent every event of the run.
DrainedSawEverything ==
  \A s \in Subscribers : pc[s] = "drained" => done /\ sent[s] = events

\* "Cancelling ctx only detaches this subscriber": a cancelled one always returns,
\* wherever it was, even if the run never emits or ends again; and once the run is done
\* every subscriber whose peer reads drains it and returns. No stalled or cancelled
\* subscriber beside it can prevent either.
StreamsReturn ==
  \A s \in Subscribers :
    (pc[s] # "idle" /\ (cancelled[s] \/ (done /\ s \in Readers))) ~> pc[s] \in Returned

\* What a subscriber at each line of stream is to the log.
Reader(p) ==
  CASE p = "idle" -> "away"
    [] p = "drained" -> "complete"
    [] p \in {"detached", "failed"} -> "left"
    [] OTHER -> "attached"

MappedReader == [s \in Subscribers |-> Reader(pc[s])]

\* The broadcaster implements the log it stands for.
Log == INSTANCE EventLog WITH log <- events, closed <- done, got <- sent, reader <- MappedReader

ImplementsLog == Log!Spec
=============================================================================
