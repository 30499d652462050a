------------------------- MODULE BroadcasterProofs -------------------------
(* The broadcaster's safety for any number of subscribers and events. Inv says *)
(* what each subscriber holds at each line of stream: the mutex, a wait that   *)
(* is still justified, and one event in hand or none.                          *)
EXTENDS Broadcaster, SequenceTheorems, TLAPS

InHand == {"check", "send"}
Waiting(s) == pc[s] = "towait" \/ s \in sleepers
Streaming == PCs \ ({"idle"} \union Returned)

HoldsLock(s) == (mu = s) <=> (pc[s] \in {"scan", "towait"})

\* index counts the events sent and the one in hand.
IndexCounts(s) ==
  /\ Len(sent[s]) <= index[s]
  /\ pc[s] \in InHand => index[s] = Len(sent[s]) + 1
  /\ pc[s] \notin InHand \union {"detached", "failed"} => index[s] = Len(sent[s])

SentPrefix(s) == \A i \in 1..Len(sent[s]) : sent[s][i] = events[i]

\* The AfterFunc callback is armed for as long as it may be needed.
HookArmed(s) == pc[s] \in Streaming /\ ~cancelled[s] => hook[s] = "armed"

\* What DecideToWait saw stays true until a Broadcast: nobody emits, finishes or
\* runs the callback between the decision and the notify list, as mu is held.
WaitJustified(s) ==
  /\ s \in sleepers => pc[s] = "asleep"
  /\ Waiting(s) =>
       /\ index[s] = Len(events)
       /\ ~done
       /\ cancelled[s] => hook[s] = "running"

Drained(s) == pc[s] = "drained" => done /\ sent[s] = events

Sound(s) ==
  /\ HoldsLock(s) /\ IndexCounts(s) /\ SentPrefix(s)
  /\ HookArmed(s) /\ WaitJustified(s) /\ Drained(s)

Inv == TypeOK /\ \A s \in Subscribers : Sound(s)

LEMMA InitInv == Init => Inv
<1> SUFFICES ASSUME Init PROVE Inv
  OBVIOUS
<1> USE BroadcasterAssumption DEF Init
<1>1. TypeOK
  <2>1. events \in Seq(Events) /\ Len(events) = 0
    OBVIOUS
  <2>2. sent \in [Subscribers -> Seq(Events)]
    OBVIOUS
  <2>3. cancelled \in [Subscribers -> BOOLEAN] /\ done \in BOOLEAN
    OBVIOUS
  <2>4. pc \in [Subscribers -> PCs]
    BY DEF PCs
  <2>5. mu \in Subscribers \union {NoOne} /\ sleepers \subseteq Subscribers
    OBVIOUS
  <2>6. index \in [Subscribers -> Nat] /\ \A s \in Subscribers : index[s] <= Len(events)
    BY <2>1
  <2>7. hook \in [Subscribers -> {"unset", "armed", "running", "over"}]
    OBVIOUS
  <2> QED
    BY <2>1, <2>2, <2>3, <2>4, <2>5, <2>6, <2>7 DEF TypeOK
<1>2. ASSUME NEW s \in Subscribers PROVE Sound(s)
  BY DEF Sound, HoldsLock, IndexCounts, SentPrefix, HookArmed, WaitJustified, Waiting, Drained,
         InHand, Streaming
<1> QED
  BY <1>1, <1>2 DEF Inv

-----------------------------------------------------------------------------
(* The run and the callbacks: they need mu, so no subscriber is about to wait. *)

LEMMA NobodyDeciding ==
  ASSUME Inv, mu = NoOne, NEW s \in Subscribers
  PROVE  pc[s] # "towait" /\ pc[s] # "scan"
BY BroadcasterAssumption DEF Inv, Sound, HoldsLock

LEMMA EmitInv ==
  ASSUME Inv, NEW e \in Events, Emit(e)
  PROVE  Inv'
<1> USE DEF Inv, Sound, Emit, WakeAll
<1>1. /\ events \in Seq(Events) /\ events' \in Seq(Events)
      /\ Len(events') = Len(events) + 1
      /\ \A i \in 1..Len(events) : events'[i] = events[i]
  BY DEF TypeOK
<1>2. TypeOK'
  BY <1>1 DEF TypeOK
<1>3. ASSUME NEW s \in Subscribers PROVE Sound(s)'
  <2>1. HoldsLock(s)' /\ IndexCounts(s)' /\ HookArmed(s)'
    BY DEF HoldsLock, IndexCounts, HookArmed
  <2>2. WaitJustified(s)' /\ Drained(s)'
    BY NobodyDeciding DEF WaitJustified, Waiting, Drained
  <2>3. SentPrefix(s)'
    BY <1>1 DEF SentPrefix, IndexCounts, TypeOK
  <2> QED
    BY <2>1, <2>2, <2>3
<1> QED
  BY <1>2, <1>3

LEMMA FinishInv ==
  ASSUME Inv, Finish
  PROVE  Inv'
<1> USE DEF Inv, Sound, Finish, WakeAll
<1>1. TypeOK'
  BY DEF TypeOK
<1>2. ASSUME NEW s \in Subscribers PROVE Sound(s)'
  <2>1. HoldsLock(s)' /\ IndexCounts(s)' /\ SentPrefix(s)' /\ HookArmed(s)'
    BY DEF HoldsLock, IndexCounts, SentPrefix, HookArmed
  <2>2. WaitJustified(s)' /\ Drained(s)'
    BY NobodyDeciding DEF WaitJustified, Waiting, Drained
  <2> QED
    BY <2>1, <2>2
<1> QED
  BY <1>1, <1>2

LEMMA CancelInv ==
  ASSUME Inv, NEW s \in Subscribers, Cancel(s)
  PROVE  Inv'
<1> USE DEF Inv, Sound, Cancel, shared
<1>1. TypeOK'
  BY DEF TypeOK
<1>2. ASSUME NEW q \in Subscribers PROVE Sound(q)'
  <2>1. HoldsLock(q)' /\ IndexCounts(q)' /\ SentPrefix(q)' /\ Drained(q)'
    BY DEF HoldsLock, IndexCounts, SentPrefix, Drained
  <2>2. HookArmed(q)'
    BY DEF HookArmed, TypeOK
  <2>3. WaitJustified(q)'
    BY DEF WaitJustified, Waiting, HookArmed, TypeOK, Streaming, PCs, Returned
  <2> QED
    BY <2>1, <2>2, <2>3
<1> QED
  BY <1>1, <1>2

LEMMA HookWakesInv ==
  ASSUME Inv, NEW s \in Subscribers, HookWakes(s)
  PROVE  Inv'
<1> USE DEF Inv, Sound, HookWakes, WakeAll
<1>1. TypeOK'
  BY DEF TypeOK
<1>2. ASSUME NEW q \in Subscribers PROVE Sound(q)'
  <2>1. HoldsLock(q)' /\ IndexCounts(q)' /\ SentPrefix(q)' /\ Drained(q)'
    BY DEF HoldsLock, IndexCounts, SentPrefix, Drained
  <2>2. HookArmed(q)'
    BY DEF HookArmed, TypeOK
  <2>3. WaitJustified(q)'
    BY NobodyDeciding DEF WaitJustified, Waiting
  <2> QED
    BY <2>1, <2>2, <2>3
<1> QED
  BY <1>1, <1>2

-----------------------------------------------------------------------------
(* A subscriber's own step touches no other subscriber: it takes or releases   *)
(* mu, and joins the notify list by itself.                                    *)

Alone(s) ==
  /\ UNCHANGED <<events, done, cancelled>>
  /\ mu' = mu \/ {mu, mu'} \subseteq {s, NoOne}
  /\ sleepers' \ {s} = sleepers \ {s}
  /\ \A q \in Subscribers \ {s} :
       pc'[q] = pc[q] /\ index'[q] = index[q] /\ sent'[q] = sent[q] /\ hook'[q] = hook[q]

LEMMA StepIsAlone ==
  ASSUME Inv, NEW s \in Subscribers, Step(s)
  PROVE  Alone(s) /\ TypeOK'
<1> USE DEF Inv, Sound, HoldsLock, TypeOK, Alone, shared
<1>1. CASE Subscribe(s)
  BY <1>1 DEF Subscribe, PCs
<1>2. CASE Lock(s)
  BY <1>2 DEF Lock, PCs
<1>3. CASE TakeEvent(s)
  BY <1>3 DEF TakeEvent, PCs
<1>4. CASE DrainedReturn(s)
  BY <1>4 DEF DrainedReturn, Return, PCs, Returned
<1>5. CASE DetachedReturn(s)
  BY <1>5 DEF DetachedReturn, Return, PCs, Returned
<1>6. CASE DecideToWait(s)
  BY <1>6 DEF DecideToWait, PCs
<1>7. CASE Wait(s)
  BY <1>7 DEF Wait, PCs
<1>8. CASE Wake(s)
  BY <1>8 DEF Wake, PCs
<1>9. CASE CheckContext(s)
  BY <1>9 DEF CheckContext, Return, PCs, Returned
<1>10. CASE SendAccepted(s)
  BY <1>10 DEF SendAccepted, PCs, IndexCounts, InHand
<1>11. CASE SendFailed(s)
  BY <1>11 DEF SendFailed, Return, PCs, Returned
<1> QED
  BY <1>1, <1>2, <1>3, <1>4, <1>5, <1>6, <1>7, <1>8, <1>9, <1>10, <1>11 DEF Step

LEMMA OthersStaySound ==
  ASSUME Inv, NEW s \in Subscribers, Alone(s), NEW q \in Subscribers \ {s}
  PROVE  Sound(q)'
<1> USE BroadcasterAssumption DEF Inv, Sound, Alone
<1>1. HoldsLock(q)'
  BY DEF HoldsLock, TypeOK
<1>2. IndexCounts(q)'
  BY DEF IndexCounts
<1>3. SentPrefix(q)' /\ Drained(q)'
  BY DEF SentPrefix, Drained
<1>4. HookArmed(q)' /\ WaitJustified(q)'
  BY DEF HookArmed, WaitJustified, Waiting
<1> QED
  BY <1>1, <1>2, <1>3, <1>4

LEMMA StepKeepsSound ==
  ASSUME Inv, NEW s \in Subscribers, Step(s)
  PROVE  Sound(s)'
<1> USE BroadcasterAssumption DEF Inv, Sound, TypeOK, shared
<1>1. CASE Subscribe(s)
  <2>1. HoldsLock(s)' /\ SentPrefix(s)' /\ Drained(s)'
    BY <1>1 DEF Subscribe, HoldsLock, SentPrefix, Drained
  <2>2. IndexCounts(s)'
    BY <1>1 DEF Subscribe, IndexCounts, InHand
  <2>3. HookArmed(s)' /\ WaitJustified(s)'
    BY <1>1 DEF Subscribe, HoldsLock, IndexCounts, InHand, HookArmed,
              WaitJustified, Waiting, Streaming, PCs, Returned
  <2> QED
    BY <2>1, <2>2, <2>3
<1>2. CASE Lock(s)
  <2>1. HoldsLock(s)' /\ SentPrefix(s)' /\ Drained(s)'
    BY <1>2 DEF Lock, HoldsLock, SentPrefix, Drained
  <2>2. IndexCounts(s)'
    BY <1>2 DEF Lock, IndexCounts, InHand
  <2>3. HookArmed(s)' /\ WaitJustified(s)'
    BY <1>2 DEF Lock, HoldsLock, IndexCounts, InHand, HookArmed,
              WaitJustified, Waiting, Streaming, PCs, Returned
  <2> QED
    BY <2>1, <2>2, <2>3
<1>3. CASE TakeEvent(s)
  <2>1. /\ pc[s] = "scan" /\ pc'[s] = "check" /\ mu' = NoOne
        /\ index'[s] = index[s] + 1 /\ index[s] = Len(sent[s]) /\ index[s] \in Nat
        /\ UNCHANGED <<sleepers, events, done, sent, cancelled, hook>>
    BY <1>3 DEF TakeEvent, IndexCounts, InHand
  <2>2. IndexCounts(s)'
    BY <2>1 DEF IndexCounts, InHand
  <2>3. HoldsLock(s)' /\ SentPrefix(s)' /\ Drained(s)'
    BY <2>1 DEF HoldsLock, SentPrefix, Drained
  <2>4. HookArmed(s)' /\ WaitJustified(s)'
    BY <2>1 DEF HookArmed, WaitJustified, Waiting, Streaming, PCs, Returned
  <2> QED
    BY <2>2, <2>3, <2>4
<1>4. CASE DrainedReturn(s)
  <2>1. sent[s] = events
    <3>1. Len(sent[s]) = Len(events)
      BY <1>4 DEF DrainedReturn, IndexCounts, InHand
    <3> QED
      BY <1>4, <3>1, SeqEqual DEF SentPrefix
  <2> QED
    BY <1>4, <2>1 DEF DrainedReturn, Return, HoldsLock, IndexCounts, SentPrefix, HookArmed,
                      WaitJustified, Waiting, Drained, InHand, Streaming, Returned
<1>5. CASE DetachedReturn(s)
  <2>1. HoldsLock(s)' /\ SentPrefix(s)' /\ Drained(s)'
    BY <1>5 DEF DetachedReturn, Return, HoldsLock, SentPrefix, Drained
  <2>2. IndexCounts(s)'
    BY <1>5 DEF DetachedReturn, Return, IndexCounts, InHand
  <2>3. HookArmed(s)' /\ WaitJustified(s)'
    BY <1>5 DEF DetachedReturn, Return, HoldsLock, IndexCounts, InHand, HookArmed,
              WaitJustified, Waiting, Streaming, PCs, Returned
  <2> QED
    BY <2>1, <2>2, <2>3
<1>6. CASE DecideToWait(s)
  <2>1. HoldsLock(s)' /\ SentPrefix(s)' /\ Drained(s)'
    BY <1>6 DEF DecideToWait, HoldsLock, SentPrefix, Drained
  <2>2. IndexCounts(s)'
    BY <1>6 DEF DecideToWait, IndexCounts, InHand
  <2>3. HookArmed(s)' /\ WaitJustified(s)'
    BY <1>6 DEF DecideToWait, HoldsLock, IndexCounts, InHand, HookArmed,
              WaitJustified, Waiting, Streaming, PCs, Returned
  <2> QED
    BY <2>1, <2>2, <2>3
<1>7. CASE Wait(s)
  <2>1. HoldsLock(s)' /\ SentPrefix(s)' /\ Drained(s)'
    BY <1>7 DEF Wait, HoldsLock, SentPrefix, Drained
  <2>2. IndexCounts(s)'
    BY <1>7 DEF Wait, IndexCounts, InHand
  <2>3. HookArmed(s)' /\ WaitJustified(s)'
    BY <1>7 DEF Wait, HoldsLock, IndexCounts, InHand, HookArmed,
              WaitJustified, Waiting, Streaming, PCs, Returned
  <2> QED
    BY <2>1, <2>2, <2>3
<1>8. CASE Wake(s)
  <2>1. HoldsLock(s)' /\ SentPrefix(s)' /\ Drained(s)'
    BY <1>8 DEF Wake, HoldsLock, SentPrefix, Drained
  <2>2. IndexCounts(s)'
    BY <1>8 DEF Wake, IndexCounts, InHand
  <2>3. HookArmed(s)' /\ WaitJustified(s)'
    BY <1>8 DEF Wake, HoldsLock, IndexCounts, InHand, HookArmed,
              WaitJustified, Waiting, Streaming, PCs, Returned
  <2> QED
    BY <2>1, <2>2, <2>3
<1>9. CASE CheckContext(s)
  <2>1. HoldsLock(s)' /\ SentPrefix(s)' /\ Drained(s)'
    BY <1>9 DEF CheckContext, Return, HoldsLock, SentPrefix, Drained
  <2>2. IndexCounts(s)'
    BY <1>9 DEF CheckContext, Return, IndexCounts, InHand
  <2>3. HookArmed(s)' /\ WaitJustified(s)'
    BY <1>9 DEF CheckContext, Return, HoldsLock, IndexCounts, InHand, HookArmed,
              WaitJustified, Waiting, Streaming, PCs, Returned
  <2> QED
    BY <2>1, <2>2, <2>3
<1>10. CASE SendAccepted(s)
  <2>1. /\ pc[s] = "send" /\ pc'[s] = "lock" /\ index[s] = Len(sent[s]) + 1
        /\ sent'[s] = Append(sent[s], events[index[s]])
        /\ UNCHANGED <<mu, sleepers, events, done, index, cancelled, hook>>
    BY <1>10 DEF SendAccepted, IndexCounts, InHand
  <2>2. /\ Len(sent'[s]) = index[s]
        /\ sent'[s][index[s]] = events[index[s]]
        /\ \A i \in 1..Len(sent[s]) : sent'[s][i] = sent[s][i]
    <3>1. sent[s] \in Seq(Events) /\ events[index[s]] \in Events
      BY <2>1
    <3> QED
      BY <2>1, <3>1
  <2>3. SentPrefix(s)'
    BY <2>1, <2>2 DEF SentPrefix
  <2>4. HoldsLock(s)' /\ Drained(s)'
    BY <2>1 DEF HoldsLock, Drained
  <2>5. IndexCounts(s)'
    BY <2>1, <2>2 DEF IndexCounts, InHand
  <2>6. HookArmed(s)' /\ WaitJustified(s)'
    BY <2>1 DEF HookArmed, WaitJustified, Waiting, Streaming, PCs, Returned
  <2> QED
    BY <2>3, <2>4, <2>5, <2>6
<1>11. CASE SendFailed(s)
  <2>1. HoldsLock(s)' /\ SentPrefix(s)' /\ Drained(s)'
    BY <1>11 DEF SendFailed, Return, HoldsLock, SentPrefix, Drained
  <2>2. IndexCounts(s)'
    BY <1>11 DEF SendFailed, Return, IndexCounts, InHand
  <2>3. HookArmed(s)' /\ WaitJustified(s)'
    BY <1>11 DEF SendFailed, Return, HoldsLock, IndexCounts, InHand, HookArmed,
              WaitJustified, Waiting, Streaming, PCs, Returned
  <2> QED
    BY <2>1, <2>2, <2>3
<1> QED
  BY <1>1, <1>2, <1>3, <1>4, <1>5, <1>6, <1>7, <1>8, <1>9, <1>10, <1>11 DEF Step

\* Inv is inductive.
THEOREM Invariant == Spec => []Inv
<1>1. Inv /\ [Next]_vars => Inv'
  <2> SUFFICES ASSUME Inv, [Next]_vars PROVE Inv'
    OBVIOUS
  <2>1. ASSUME NEW e \in Events, Emit(e) PROVE Inv'
    BY <2>1, EmitInv
  <2>2. CASE Finish
    BY <2>2, FinishInv
  <2>3. ASSUME NEW s \in Subscribers, Step(s) PROVE Inv'
    BY <2>3, StepIsAlone, OthersStaySound, StepKeepsSound DEF Inv
  <2>4. ASSUME NEW s \in Subscribers, Cancel(s) PROVE Inv'
    BY <2>4, CancelInv
  <2>5. ASSUME NEW s \in Subscribers, HookWakes(s) PROVE Inv'
    BY <2>5, HookWakesInv
  <2>6. CASE UNCHANGED vars
    BY <2>6 DEF vars, Inv, TypeOK, Sound, HoldsLock, IndexCounts, SentPrefix, HookArmed,
                WaitJustified, Waiting, Drained
  <2> QED
    BY <2>1, <2>2, <2>3, <2>4, <2>5, <2>6 DEF Next
<1> QED
  BY InitInv, <1>1, PTL DEF Spec

-----------------------------------------------------------------------------
\* stream's index never runs past the events, and every variable keeps its type.
THEOREM TypeCorrect == Spec => []TypeOK
<1>1. Inv => TypeOK
  BY DEF Inv
<1> QED
  BY Invariant, <1>1, PTL

\* emit waits at most for a critical section, never for a peer: whoever holds mu is
\* between mu.Lock and the next mu.Unlock or cond.Wait, and nowhere else.
THEOREM LockIsShort == Spec => []LockDiscipline
<1>1. Inv => LockDiscipline
  BY DEF Inv, Sound, HoldsLock, LockDiscipline
<1> QED
  BY Invariant, <1>1, PTL

\* stream replays the history from its first event, whenever the subscriber came.
THEOREM Replay == Spec => []ReplayInOrder
<1>1. Inv => ReplayInOrder
  <2> SUFFICES ASSUME Inv, NEW s \in Subscribers
               PROVE  /\ Len(sent[s]) <= Len(events)
                      /\ \A i \in 1..Len(sent[s]) : sent[s][i] = events[i]
    BY DEF ReplayInOrder
  <2>1. Len(sent[s]) \in Nat /\ index[s] \in Nat /\ Len(events) \in Nat
    BY DEF Inv, TypeOK
  <2> QED
    BY <2>1 DEF Inv, TypeOK, Sound, IndexCounts, SentPrefix
<1> QED
  BY Invariant, <1>1, PTL

\* The AfterFunc callback and the order of stream's checks leave no window in which
\* a subscriber sleeps through an event, the end of the run or its cancellation.
THEOREM NoWakeupIsLost == Spec => []NoLostWakeup
<1>1. Inv => NoLostWakeup
  <2> SUFFICES ASSUME Inv, NEW s \in sleepers
               PROVE  /\ pc[s] = "asleep" /\ index[s] = Len(events) /\ ~done
                      /\ cancelled[s] => hook[s] = "running"
    BY DEF NoLostWakeup
  <2>1. s \in Subscribers
    BY DEF Inv, TypeOK
  <2> QED
    BY <2>1 DEF Inv, Sound, WaitJustified, Waiting
<1> QED
  BY Invariant, <1>1, PTL

\* "each drains the remaining events and returns": a stream that ended because the
\* run was done has delivered the run's whole history.
THEOREM DrainIsComplete == Spec => []DrainedSawEverything
<1>1. Inv => DrainedSawEverything
  BY DEF Inv, Sound, Drained, DrainedSawEverything
<1> QED
  BY Invariant, <1>1, PTL

-----------------------------------------------------------------------------
(* The broadcaster implements EventLog.                                        *)

LEMMA ReaderCases ==
  /\ Reader("idle") = "away" /\ Reader("drained") = "complete"
  /\ Reader("detached") = "left" /\ Reader("failed") = "left"
  /\ \A p \in Streaming : Reader(p) = "attached"
<1>1. ASSUME NEW p \in Streaming PROVE Reader(p) = "attached"
  BY DEF Reader, Streaming, Returned
<1>2. Reader("idle") = "away" /\ Reader("drained") = "complete"
  BY DEF Reader
<1>3. Reader("detached") = "left" /\ Reader("failed") = "left"
  BY DEF Reader
<1> QED
  BY <1>1, <1>2, <1>3

\* A step within stream is invisible, and each other step is one of the log's.
LEMMA StepImplements ==
  ASSUME Inv, NEW s \in Subscribers, Step(s)
  PROVE  [Log!Next]_Log!logVars
<1> DEFINE Moves(to) == pc' = [pc EXCEPT ![s] = to]
<1>1. UNCHANGED <<events, done>>
  BY StepIsAlone DEF Alone
<1>2. ASSUME NEW to, Moves(to)
      PROVE  /\ MappedReader[s] = Reader(pc[s])
             /\ MappedReader' = [MappedReader EXCEPT ![s] = Reader(to)]
  BY <1>2 DEF MappedReader, Inv, TypeOK
<1>3. {"lock", "scan", "towait", "asleep", "check", "send"} \subseteq Streaming
  BY DEF Streaming, PCs, Returned
<1>4. ASSUME pc[s] \in Streaming, NEW to \in Streaming, Moves(to), sent' = sent
      PROVE  UNCHANGED Log!logVars
  <2>1. MappedReader' = MappedReader
    BY <1>2, <1>4, ReaderCases DEF MappedReader
  <2> QED
    BY <1>1, <1>4, <2>1 DEF Log!logVars
<1>5. ASSUME pc[s] \in Streaming, NEW to \in {"detached", "failed"}, Moves(to), sent' = sent
      PROVE  Log!Leave(s)
  BY <1>1, <1>2, <1>5, ReaderCases DEF Log!Leave
<1>6. CASE Subscribe(s)
  <2>1. pc[s] = "idle" /\ Moves("lock") /\ sent' = sent
    BY <1>6 DEF Subscribe
  <2>2. /\ MappedReader[s] = Reader("idle")
        /\ MappedReader' = [MappedReader EXCEPT ![s] = Reader("lock")]
    BY <1>2, <2>1
  <2>3. Log!Attach(s)
    <3>1. Reader("idle") = "away" /\ Reader("lock") = "attached"
      BY <1>3, ReaderCases
    <3> QED
      BY <1>1, <2>1, <2>2, <3>1 DEF Log!Attach
  <2> QED
    BY <2>3 DEF Log!Next
<1>7. CASE Lock(s) \/ TakeEvent(s) \/ DecideToWait(s) \/ Wait(s) \/ Wake(s)
  <2>1. pc[s] \in Streaming /\ sent' = sent /\ \E to \in Streaming : Moves(to)
    BY <1>3, <1>7 DEF Lock, TakeEvent, DecideToWait, Wait, Wake
  <2> QED
    BY <1>4, <2>1
<1>8. CASE DrainedReturn(s)
  <2>1. pc[s] \in Streaming /\ Moves("drained") /\ sent' = sent /\ done
    BY <1>3, <1>8 DEF DrainedReturn, Return
  <2>2. sent[s] = events
    BY <1>1, <1>8, <2>1, StepKeepsSound DEF DrainedReturn, Return, Sound, Drained, Inv, TypeOK
  <2>3. Log!Complete(s)
    BY <1>1, <1>2, <2>1, <2>2, ReaderCases DEF Log!Complete
  <2> QED
    BY <2>3 DEF Log!Next
<1>9. CASE DetachedReturn(s) \/ SendFailed(s)
  <2>1. /\ pc[s] \in Streaming /\ sent' = sent
        /\ \E to \in {"detached", "failed"} : Moves(to)
    BY <1>3, <1>9 DEF DetachedReturn, SendFailed, Return
  <2> QED
    BY <1>5, <2>1 DEF Log!Next
<1>10. CASE CheckContext(s)
  <2>1. pc[s] \in Streaming /\ sent' = sent /\ (Moves("send") \/ Moves("detached"))
    BY <1>3, <1>10 DEF CheckContext, Return
  <2>2. CASE Moves("send")
    BY <1>3, <1>4, <2>1, <2>2
  <2>3. CASE Moves("detached")
    BY <1>5, <2>1, <2>3 DEF Log!Next
  <2> QED
    BY <2>1, <2>2, <2>3
<1>11. CASE SendAccepted(s)
  <2>1. /\ pc[s] = "send" /\ Moves("lock")
        /\ sent' = [sent EXCEPT ![s] = Append(@, events[index[s]])]
    BY <1>11 DEF SendAccepted
  <2>2. index[s] = Len(sent[s]) + 1 /\ Len(sent[s]) < Len(events)
    BY <2>1 DEF Inv, TypeOK, Sound, IndexCounts, InHand
  <2>3. MappedReader[s] = "attached" /\ MappedReader' = MappedReader
    BY <1>2, <1>3, <2>1, ReaderCases DEF MappedReader
  <2>4. Log!Deliver(s)
    BY <1>1, <2>1, <2>2, <2>3 DEF Log!Deliver
  <2> QED
    BY <2>4 DEF Log!Next
<1> QED
  BY <1>6, <1>7, <1>8, <1>9, <1>10, <1>11 DEF Step

\* The mutex, the condition variable and the callbacks together give every
\* subscriber the log they stand for.
THEOREM Refinement == Spec => ImplementsLog
<1>1. Init => Log!Init
  BY ReaderCases DEF Init, Log!Init, MappedReader
<1>2. Inv /\ [Next]_vars => [Log!Next]_Log!logVars
  <2> SUFFICES ASSUME Inv, [Next]_vars PROVE [Log!Next]_Log!logVars
    OBVIOUS
  <2>1. ASSUME NEW e \in Events, Emit(e) PROVE Log!Append1(e)
    BY <2>1 DEF Emit, Log!Append1, MappedReader
  <2>2. CASE Finish
    BY <2>2 DEF Finish, Log!Close, Log!Next, MappedReader
  <2>3. ASSUME NEW s \in Subscribers, Step(s) PROVE [Log!Next]_Log!logVars
    BY <2>3, StepImplements
  <2>4. ASSUME NEW s \in Subscribers, Cancel(s) \/ HookWakes(s) PROVE UNCHANGED Log!logVars
    BY <2>4 DEF Cancel, HookWakes, shared, Log!logVars, MappedReader
  <2>5. CASE UNCHANGED vars
    BY <2>5 DEF vars, Log!logVars, MappedReader
  <2> QED
    BY <2>1, <2>2, <2>3, <2>4, <2>5 DEF Next, Log!Next
<1> QED
  BY Invariant, <1>1, <1>2, PTL DEF Spec, ImplementsLog, Log!Spec
=============================================================================
