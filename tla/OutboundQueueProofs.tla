------------------------- MODULE OutboundQueueProofs -------------------------
(***************************************************************************)
(* Proofs about OutboundQueue for every set of messages, workers and       *)
(* recipients, every assignment of IDs, and every bound.                   *)
(***************************************************************************)
EXTENDS OutboundQueue, TLAPS

-----------------------------------------------------------------------------
(* The inductive invariant *)

\* The marker of every message in a worker's hands is set, markers belong to
\* held messages, and held messages have different IDs.
Markers ==
  /\ \A w \in Workers : held[w] # None =>
       /\ held[w] \in pending
       /\ held[w] \notin deferred
       /\ held[w] \in picked
       /\ Id[held[w]] \in inFlight
  /\ \A v, w \in Workers :
       v # w /\ held[v] # None /\ held[w] # None => Id[held[v]] # Id[held[w]]
  /\ \A i \in inFlight : \E w \in Workers : held[w] # None /\ Id[held[w]] = i

\* outbound.json is the queue unless the last save failed.
File ==
  /\ lag <= saveFails
  /\ saveFails <= MaxSaveFails
  /\ crashes <= MaxCrashes
  /\ lag = 0 => disk.msgs = pending
  /\ \A m \in Msgs : slot[m] = 0 =>
       /\ m \notin pending /\ m \notin disk.msgs
       /\ sends[m] = 0 /\ acks[m] = 0 /\ attempts[m] = 0 /\ disk.attempts[m] = 0

\* Every worker holding m has not yet returned from SendLXMF for it.
Unsent(m) == \A w \in Workers : held[w] = m => pc[w] \in {"picked", "sending"}

\* No worker holding m is between counting the attempt and making the call.
Uncounted(m) == \A w \in Workers : held[w] = m => pc[w] # "sending"

\* Upper bounds on the sends, in memory and in the file.
Counts ==
  \A m \in Msgs :
    /\ sends[m] <= MaxAttempts + crashes + saveFails
    /\ m \in pending =>
         /\ sends[m] + lag <= attempts[m] + crashes + saveFails
         /\ ~Uncounted(m) => sends[m] + 1 + lag <= attempts[m] + crashes + saveFails
         /\ Unsent(m) => sends[m] + lag < MaxAttempts + crashes + saveFails
    /\ m \in disk.msgs =>
         /\ sends[m] <= disk.attempts[m] + 1 + crashes + saveFails
         /\ Unsent(m) => sends[m] <= disk.attempts[m] + crashes + saveFails

\* Lower bounds on the sends, in memory and in the file.
Effort ==
  /\ \A m \in Msgs :
       /\ m \in pending =>
            /\ attempts[m] <= sends[m] + crashes + 1
            /\ Uncounted(m) => attempts[m] <= sends[m] + crashes
       /\ m \in disk.msgs =>
            /\ disk.attempts[m] <= sends[m] + crashes + 1
            /\ Uncounted(m) => disk.attempts[m] <= sends[m] + crashes
  /\ GivenUpAfterEffort

\* No worker holds m with a successful send.
Unacked(m) == \A w \in Workers : held[w] = m => pc[w] \notin {"ok", "registered"}

Acks ==
  /\ \A m \in Msgs :
       /\ acks[m] <= 1 + crashes
       /\ m \in pending /\ Unacked(m) =>
            /\ acks[m] <= crashes
            /\ m \in attached => acks[m] = 0
  /\ \A w \in Workers : pc[w] \in {"ok", "registered"} => acks[held[w]] > 0

\* A message that was never picked is neither deferred nor about to return.
Order ==
  /\ \A m \in Msgs : slot[m] <= tail
  /\ \A m \in picked : slot[m] > 0
  /\ deferred \subseteq picked
  /\ disk.deferred \subseteq picked
  /\ disk.msgs \ pending \subseteq picked
  /\ FirstTriesInOrder

\* A bubble is registered before the message is removed.
Views ==
  \A w \in Workers :
    pc[w] = "registered" /\ held[w] \in WithBubble \cap attached => held[w] \in views

\* While nobody is known every send ends in ErrRecipientUnknown.
Silence == clock = 0 /\ crashes = 0 /\ pathFails = 0 /\ MaxAttempts > PathlessTries + 1

\* No worker is past the first critical section of attempt with m.
Resting(m) == \A w \in Workers : held[w] = m => pc[w] = "picked"

Asked ==
  Silence =>
    /\ \A r \in Recipients : seen[r] = 0
    /\ \A w \in Workers : pc[w] \notin {"ok", "error", "registered"}
    /\ window \subseteq asked
    /\ \A m \in pending :
         /\ attempts[m] > PathlessTries + 1 => Rcpt[m] \in asked
         /\ Resting(m) /\ attempts[m] > PathlessTries => Rcpt[m] \in asked
    /\ \A m \in failed : Rcpt[m] \in asked

IInv == /\ TypeOK /\ Markers /\ File /\ Counts /\ Effort /\ Acks /\ Order /\ Views
        /\ Asked

-----------------------------------------------------------------------------
(* Type correctness *)

\* PersistLocked leaves outbound.json either as the new queue or untouched.
LEMMA PersistType ==
  ASSUME TypeOK, PersistLocked, pending' \in SUBSET Msgs,
         attempts' \in [Msgs -> Nat], deferred' \in SUBSET Msgs
  PROVE  /\ disk' \in [msgs : SUBSET Msgs, attempts : [Msgs -> Nat], deferred : SUBSET Msgs]
         /\ saveFails' \in Nat
         /\ lag' \in Nat
  BY DEF TypeOK, PersistLocked

\* An announce keeps the table of known identities well formed.
LEMMA AnnounceType ==
  ASSUME TypeOK, NEW r \in Recipients, HearAnnounce(r)
  PROVE  seen' \in [Recipients -> Nat] /\ clock' \in Nat
  BY DEF TypeOK, HearAnnounce

\* Every step keeps the types (all of outbound.go's queue operations).
LEMMA TypeStep == TypeOK /\ [Next]_vars => TypeOK'
  <1> SUFFICES ASSUME TypeOK, [Next]_vars PROVE TypeOK'
    OBVIOUS
  <1> USE MsgAssumption, NoneAssumption
  <1>1. ASSUME NEW m \in Msgs, Enqueue(m) PROVE TypeOK'
    <2>1. pending' \in SUBSET Msgs /\ attempts' \in [Msgs -> Nat] /\ deferred' \in SUBSET Msgs
      BY <1>1 DEF Enqueue, TypeOK
    <2>2. PersistLocked
      BY <1>1 DEF Enqueue
    <2>3. /\ slot' \in [Msgs -> Nat] /\ tail' \in Nat /\ attached' \subseteq Msgs
      BY <1>1 DEF Enqueue, TypeOK
    <2>4. QED
      BY <1>1, <2>1, <2>2, <2>3, PersistType
         DEF Enqueue, TypeOK, netVars, pathVars, histVars
  <1>2. ASSUME NEW w \in Workers, NEW m \in Msgs, PickDue(w, m) PROVE TypeOK'
    BY <1>2 DEF PickDue, Take, TypeOK, Steps, netVars, pathVars, fileVars
  <1>3. ASSUME NEW w \in Workers, NEW m \in Msgs, PickDueRacing(w, m) PROVE TypeOK'
    <2>1. seen' \in [Recipients -> Nat] /\ clock' \in Nat
      BY <1>3, AnnounceType DEF PickDueRacing
    <2>2. QED
      BY <1>3, <2>1 DEF PickDueRacing, Take, TypeOK, Steps, pathVars, fileVars
  <1>4. ASSUME NEW w \in Workers, AttemptBegin(w) PROVE TypeOK'
    BY <1>4 DEF AttemptBegin, TypeOK, Steps, netVars, pathVars, fileVars, histVars
  <1>5. ASSUME NEW w \in Workers, SendLXMF(w) PROVE TypeOK'
    BY <1>5 DEF SendLXMF, Outcomes, TypeOK, Steps, queueVars, netVars, pathVars, fileVars
  <1>6. ASSUME NEW w \in Workers, RegisterView(w) PROVE TypeOK'
    BY <1>6 DEF RegisterView, TypeOK, Steps, queueVars, netVars, pathVars, fileVars, histVars
  <1>7. ASSUME NEW w \in Workers, FinishOk(w) PROVE TypeOK'
    <2>1. pending' \in SUBSET Msgs /\ attempts' \in [Msgs -> Nat] /\ deferred' \in SUBSET Msgs
      BY <1>7 DEF FinishOk, TypeOK
    <2>2. PersistLocked
      BY <1>7 DEF FinishOk
    <2>3. QED
      BY <1>7, <2>1, <2>2, PersistType
         DEF FinishOk, Release, TypeOK, Steps, netVars, pathVars, histVars
  <1>8. ASSUME NEW w \in Workers, FinishFailed(w) PROVE TypeOK'
    <2>1. /\ pending' \in SUBSET Msgs /\ attempts' \in [Msgs -> Nat]
          /\ deferred' \in SUBSET Msgs
          /\ failed' \in SUBSET Msgs
      BY <1>8 DEF FinishFailed, TypeOK
    <2>2. PersistLocked
      BY <1>8 DEF FinishFailed
    <2>3. QED
      BY <1>8, <2>1, <2>2, PersistType
         DEF FinishFailed, Release, TypeOK, Steps, netVars, pathVars
  <1>9. ASSUME NEW w \in Workers, FinishRetry(w) PROVE TypeOK'
    <2>1. pending' \in SUBSET Msgs /\ attempts' \in [Msgs -> Nat] /\ deferred' \in SUBSET Msgs
      BY <1>9 DEF FinishRetry, TypeOK
    <2>2. PersistLocked
      BY <1>9 DEF FinishRetry
    <2>3. held[w] \in Msgs
      BY <1>9 DEF FinishRetry, TypeOK
    <2>4. window' \subseteq Recipients /\ asked' \subseteq Recipients /\ pathFails' \in Nat
      BY <1>9, <2>3 DEF FinishRetry, RequestPath, pathVars, TypeOK
    <2>5. QED
      BY <1>9, <2>1, <2>2, <2>4, PersistType
         DEF FinishRetry, Release, TypeOK, Steps, netVars, histVars
  <1>10. ASSUME NEW m \in Msgs, Elapse(m) PROVE TypeOK'
    BY <1>10 DEF Elapse, TypeOK, netVars, pathVars, fileVars, histVars
  <1>11. ASSUME NEW r \in Recipients, Announce(r) PROVE TypeOK'
    <2>1. seen' \in [Recipients -> Nat] /\ clock' \in Nat
      BY <1>11, AnnounceType DEF Announce
    <2>2. QED
      BY <1>11, <2>1 DEF Announce, TypeOK, queueVars, pathVars, fileVars, histVars
  <1>12. ASSUME NEW r \in Recipients, WindowEnds(r) PROVE TypeOK'
    BY <1>12 DEF WindowEnds, TypeOK, queueVars, netVars, fileVars, histVars
  <1>13. CASE Restart
    <2>1. seen' \in [Recipients -> Nat]
      BY <1>13 DEF Restart, TypeOK
    <2>2. QED
      BY <1>13, <2>1 DEF Restart, TypeOK, Steps
  <1>14. CASE UNCHANGED vars
    BY <1>14 DEF vars, TypeOK, queueVars, netVars, pathVars, fileVars, histVars
  <1>15. QED
    BY <1>1, <1>2, <1>3, <1>4, <1>5, <1>6, <1>7, <1>8, <1>9, <1>10, <1>11, <1>12,
       <1>13, <1>14 DEF Next, Attempt

\* The queue keeps its types in every reachable state.
THEOREM TypeCorrect == Spec => []TypeOK
  <1>1. Init => TypeOK
    BY DEF Init, TypeOK, Steps
  <1>2. QED
    BY <1>1, TypeStep, PTL DEF Spec
-----------------------------------------------------------------------------
(* The parts of the inductive invariant, one lemma each *)

\* A held message stays marked, queued and alone with its ID.
LEMMA MarkersStep == TypeOK /\ Markers /\ [Next]_vars => Markers'
  <1> SUFFICES ASSUME TypeOK, Markers, [Next]_vars PROVE Markers'
    OBVIOUS
  <1> USE MsgAssumption, NoneAssumption, BoundAssumption DEF TypeOK, Markers, Steps, queueVars, netVars, pathVars, fileVars, histVars
  <1>1. ASSUME NEW m \in Msgs, Enqueue(m) PROVE Markers'
    BY <1>1 DEF Enqueue, PersistLocked
  <1>2. ASSUME NEW w \in Workers, NEW m \in Msgs, PickDue(w, m) PROVE Markers'
    BY <1>2 DEF PickDue, Take, Due, Beats
  <1>3. ASSUME NEW w \in Workers, NEW m \in Msgs, PickDueRacing(w, m) PROVE Markers'
    BY <1>3 DEF PickDueRacing, Take, Due, HearAnnounce
  <1>4. ASSUME NEW w \in Workers, AttemptBegin(w) PROVE Markers'
    BY <1>4 DEF AttemptBegin
  <1>5. ASSUME NEW w \in Workers, SendLXMF(w) PROVE Markers'
    BY <1>5 DEF SendLXMF, Outcomes
  <1>6. ASSUME NEW w \in Workers, RegisterView(w) PROVE Markers'
    BY <1>6 DEF RegisterView
  <1>7. ASSUME NEW w \in Workers, FinishOk(w) PROVE Markers'
    BY <1>7 DEF FinishOk, Release, PersistLocked
  <1>8. ASSUME NEW w \in Workers, FinishFailed(w) PROVE Markers'
    BY <1>8 DEF FinishFailed, Release, PersistLocked, Exhausted
  <1>9. ASSUME NEW w \in Workers, FinishRetry(w) PROVE Markers'
    BY <1>9 DEF FinishRetry, Release, PersistLocked, Exhausted
  <1>10. ASSUME NEW m \in Msgs, Elapse(m) PROVE Markers'
    BY <1>10 DEF Elapse
  <1>11. ASSUME NEW r \in Recipients, Announce(r) PROVE Markers'
    BY <1>11 DEF Announce, HearAnnounce
  <1>12. ASSUME NEW r \in Recipients, WindowEnds(r) PROVE Markers'
    BY <1>12 DEF WindowEnds
  <1>13. CASE Restart
    BY <1>13 DEF Restart
  <1>14. CASE UNCHANGED vars
    BY <1>14 DEF vars
  <1>15. QED
    BY <1>1, <1>2, <1>3, <1>4, <1>5, <1>6, <1>7, <1>8, <1>9, <1>10, <1>11, <1>12, <1>13, <1>14 DEF Next, Attempt

\* outbound.json follows the queue unless a save fails.
LEMMA FileStep == TypeOK /\ Markers /\ File /\ [Next]_vars => File'
  <1> SUFFICES ASSUME TypeOK, Markers, File, [Next]_vars PROVE File'
    OBVIOUS
  <1> USE MsgAssumption, NoneAssumption, BoundAssumption DEF TypeOK, Markers, File, Steps, queueVars, netVars, pathVars, fileVars, histVars
  <1>1. ASSUME NEW m \in Msgs, Enqueue(m) PROVE File'
    BY <1>1 DEF Enqueue, PersistLocked
  <1>2. ASSUME NEW w \in Workers, NEW m \in Msgs, PickDue(w, m) PROVE File'
    BY <1>2 DEF PickDue, Take, Due, Beats
  <1>3. ASSUME NEW w \in Workers, NEW m \in Msgs, PickDueRacing(w, m) PROVE File'
    BY <1>3 DEF PickDueRacing, Take, Due, HearAnnounce
  <1>4. ASSUME NEW w \in Workers, AttemptBegin(w) PROVE File'
    BY <1>4 DEF AttemptBegin
  <1>5. ASSUME NEW w \in Workers, SendLXMF(w) PROVE File'
    BY <1>5 DEF SendLXMF, Outcomes
  <1>6. ASSUME NEW w \in Workers, RegisterView(w) PROVE File'
    BY <1>6 DEF RegisterView
  <1>7. ASSUME NEW w \in Workers, FinishOk(w) PROVE File'
    BY <1>7 DEF FinishOk, Release, PersistLocked
  <1>8. ASSUME NEW w \in Workers, FinishFailed(w) PROVE File'
    BY <1>8 DEF FinishFailed, Release, PersistLocked, Exhausted
  <1>9. ASSUME NEW w \in Workers, FinishRetry(w) PROVE File'
    BY <1>9 DEF FinishRetry, Release, PersistLocked, Exhausted
  <1>10. ASSUME NEW m \in Msgs, Elapse(m) PROVE File'
    BY <1>10 DEF Elapse
  <1>11. ASSUME NEW r \in Recipients, Announce(r) PROVE File'
    BY <1>11 DEF Announce, HearAnnounce
  <1>12. ASSUME NEW r \in Recipients, WindowEnds(r) PROVE File'
    BY <1>12 DEF WindowEnds
  <1>13. CASE Restart
    BY <1>13 DEF Restart
  <1>14. CASE UNCHANGED vars
    BY <1>14 DEF vars
  <1>15. QED
    BY <1>1, <1>2, <1>3, <1>4, <1>5, <1>6, <1>7, <1>8, <1>9, <1>10, <1>11, <1>12, <1>13, <1>14 DEF Next, Attempt

\* Sends stay below what the attempt counters account for.
LEMMA CountsStep == TypeOK /\ Markers /\ File /\ Counts /\ [Next]_vars => Counts'
  <1> SUFFICES ASSUME TypeOK, Markers, File, Counts, [Next]_vars PROVE Counts'
    OBVIOUS
  <1> USE MsgAssumption, NoneAssumption, BoundAssumption DEF TypeOK, Markers, File, Counts, Unsent, Uncounted, Steps, queueVars, netVars, pathVars, fileVars, histVars
  <1>1. ASSUME NEW m \in Msgs, Enqueue(m) PROVE Counts'
    BY <1>1 DEF Enqueue, PersistLocked
  <1>2. ASSUME NEW w \in Workers, NEW m \in Msgs, PickDue(w, m) PROVE Counts'
    BY <1>2 DEF PickDue, Take, Due, Beats
  <1>3. ASSUME NEW w \in Workers, NEW m \in Msgs, PickDueRacing(w, m) PROVE Counts'
    BY <1>3 DEF PickDueRacing, Take, Due, HearAnnounce
  <1>4. ASSUME NEW w \in Workers, AttemptBegin(w) PROVE Counts'
    BY <1>4 DEF AttemptBegin
  <1>5. ASSUME NEW w \in Workers, SendLXMF(w) PROVE Counts'
    BY <1>5 DEF SendLXMF, Outcomes
  <1>6. ASSUME NEW w \in Workers, RegisterView(w) PROVE Counts'
    BY <1>6 DEF RegisterView
  <1>7. ASSUME NEW w \in Workers, FinishOk(w) PROVE Counts'
    BY <1>7 DEF FinishOk, Release, PersistLocked
  <1>8. ASSUME NEW w \in Workers, FinishFailed(w) PROVE Counts'
    BY <1>8 DEF FinishFailed, Release, PersistLocked, Exhausted
  <1>9. ASSUME NEW w \in Workers, FinishRetry(w) PROVE Counts'
    BY <1>9 DEF FinishRetry, Release, PersistLocked, Exhausted
  <1>10. ASSUME NEW m \in Msgs, Elapse(m) PROVE Counts'
    BY <1>10 DEF Elapse
  <1>11. ASSUME NEW r \in Recipients, Announce(r) PROVE Counts'
    BY <1>11 DEF Announce, HearAnnounce
  <1>12. ASSUME NEW r \in Recipients, WindowEnds(r) PROVE Counts'
    BY <1>12 DEF WindowEnds
  <1>13. CASE Restart
    BY <1>13 DEF Restart
  <1>14. CASE UNCHANGED vars
    BY <1>14 DEF vars
  <1>15. QED
    BY <1>1, <1>2, <1>3, <1>4, <1>5, <1>6, <1>7, <1>8, <1>9, <1>10, <1>11, <1>12, <1>13, <1>14 DEF Next, Attempt

\* Counted attempts stay below the sends and the crashes.
LEMMA EffortStep == TypeOK /\ Markers /\ File /\ Effort /\ [Next]_vars => Effort'
  <1> SUFFICES ASSUME TypeOK, Markers, File, Effort, [Next]_vars PROVE Effort'
    OBVIOUS
  <1> USE MsgAssumption, NoneAssumption, BoundAssumption DEF TypeOK, Markers, File, Effort, Uncounted, GivenUpAfterEffort, Steps, queueVars, netVars, pathVars, fileVars, histVars
  <1>1. ASSUME NEW m \in Msgs, Enqueue(m) PROVE Effort'
    BY <1>1 DEF Enqueue, PersistLocked
  <1>2. ASSUME NEW w \in Workers, NEW m \in Msgs, PickDue(w, m) PROVE Effort'
    BY <1>2 DEF PickDue, Take, Due, Beats
  <1>3. ASSUME NEW w \in Workers, NEW m \in Msgs, PickDueRacing(w, m) PROVE Effort'
    BY <1>3 DEF PickDueRacing, Take, Due, HearAnnounce
  <1>4. ASSUME NEW w \in Workers, AttemptBegin(w) PROVE Effort'
    BY <1>4 DEF AttemptBegin
  <1>5. ASSUME NEW w \in Workers, SendLXMF(w) PROVE Effort'
    BY <1>5 DEF SendLXMF, Outcomes
  <1>6. ASSUME NEW w \in Workers, RegisterView(w) PROVE Effort'
    BY <1>6 DEF RegisterView
  <1>7. ASSUME NEW w \in Workers, FinishOk(w) PROVE Effort'
    BY <1>7 DEF FinishOk, Release, PersistLocked
  <1>8. ASSUME NEW w \in Workers, FinishFailed(w) PROVE Effort'
    BY <1>8 DEF FinishFailed, Release, PersistLocked, Exhausted
  <1>9. ASSUME NEW w \in Workers, FinishRetry(w) PROVE Effort'
    BY <1>9 DEF FinishRetry, Release, PersistLocked, Exhausted
  <1>10. ASSUME NEW m \in Msgs, Elapse(m) PROVE Effort'
    BY <1>10 DEF Elapse
  <1>11. ASSUME NEW r \in Recipients, Announce(r) PROVE Effort'
    BY <1>11 DEF Announce, HearAnnounce
  <1>12. ASSUME NEW r \in Recipients, WindowEnds(r) PROVE Effort'
    BY <1>12 DEF WindowEnds
  <1>13. CASE Restart
    BY <1>13 DEF Restart
  <1>14. CASE UNCHANGED vars
    BY <1>14 DEF vars
  <1>15. QED
    BY <1>1, <1>2, <1>3, <1>4, <1>5, <1>6, <1>7, <1>8, <1>9, <1>10, <1>11, <1>12, <1>13, <1>14 DEF Next, Attempt

\* A message is accepted at most once per life of the process.
LEMMA AcksStep == TypeOK /\ Markers /\ File /\ Acks /\ [Next]_vars => Acks'
  <1> SUFFICES ASSUME TypeOK, Markers, File, Acks, [Next]_vars PROVE Acks'
    OBVIOUS
  <1> USE MsgAssumption, NoneAssumption, BoundAssumption DEF TypeOK, Markers, File, Acks, Unacked, Steps, queueVars, netVars, pathVars, fileVars, histVars
  <1>1. ASSUME NEW m \in Msgs, Enqueue(m) PROVE Acks'
    BY <1>1 DEF Enqueue, PersistLocked
  <1>2. ASSUME NEW w \in Workers, NEW m \in Msgs, PickDue(w, m) PROVE Acks'
    BY <1>2 DEF PickDue, Take, Due, Beats
  <1>3. ASSUME NEW w \in Workers, NEW m \in Msgs, PickDueRacing(w, m) PROVE Acks'
    BY <1>3 DEF PickDueRacing, Take, Due, HearAnnounce
  <1>4. ASSUME NEW w \in Workers, AttemptBegin(w) PROVE Acks'
    BY <1>4 DEF AttemptBegin
  <1>5. ASSUME NEW w \in Workers, SendLXMF(w) PROVE Acks'
    BY <1>5 DEF SendLXMF, Outcomes
  <1>6. ASSUME NEW w \in Workers, RegisterView(w) PROVE Acks'
    BY <1>6 DEF RegisterView
  <1>7. ASSUME NEW w \in Workers, FinishOk(w) PROVE Acks'
    BY <1>7 DEF FinishOk, Release, PersistLocked
  <1>8. ASSUME NEW w \in Workers, FinishFailed(w) PROVE Acks'
    BY <1>8 DEF FinishFailed, Release, PersistLocked, Exhausted
  <1>9. ASSUME NEW w \in Workers, FinishRetry(w) PROVE Acks'
    BY <1>9 DEF FinishRetry, Release, PersistLocked, Exhausted
  <1>10. ASSUME NEW m \in Msgs, Elapse(m) PROVE Acks'
    BY <1>10 DEF Elapse
  <1>11. ASSUME NEW r \in Recipients, Announce(r) PROVE Acks'
    BY <1>11 DEF Announce, HearAnnounce
  <1>12. ASSUME NEW r \in Recipients, WindowEnds(r) PROVE Acks'
    BY <1>12 DEF WindowEnds
  <1>13. CASE Restart
    BY <1>13 DEF Restart
  <1>14. CASE UNCHANGED vars
    BY <1>14 DEF vars
  <1>15. QED
    BY <1>1, <1>2, <1>3, <1>4, <1>5, <1>6, <1>7, <1>8, <1>9, <1>10, <1>11, <1>12, <1>13, <1>14 DEF Next, Attempt

\* First tries follow the order of the queue.
LEMMA OrderStep == TypeOK /\ Markers /\ File /\ Order /\ [Next]_vars => Order'
  <1> SUFFICES ASSUME TypeOK, Markers, File, Order, [Next]_vars PROVE Order'
    OBVIOUS
  <1> USE MsgAssumption, NoneAssumption, BoundAssumption DEF TypeOK, Markers, File, Order, FirstTriesInOrder, Steps, queueVars, netVars, pathVars, fileVars, histVars
  <1>1. ASSUME NEW m \in Msgs, Enqueue(m) PROVE Order'
    BY <1>1 DEF Enqueue, PersistLocked
  <1>2. ASSUME NEW w \in Workers, NEW m \in Msgs, PickDue(w, m) PROVE Order'
    BY <1>2 DEF PickDue, Take, Due, Beats
  <1>3. ASSUME NEW w \in Workers, NEW m \in Msgs, PickDueRacing(w, m) PROVE Order'
    BY <1>3 DEF PickDueRacing, Take, Due, HearAnnounce
  <1>4. ASSUME NEW w \in Workers, AttemptBegin(w) PROVE Order'
    BY <1>4 DEF AttemptBegin
  <1>5. ASSUME NEW w \in Workers, SendLXMF(w) PROVE Order'
    BY <1>5 DEF SendLXMF, Outcomes
  <1>6. ASSUME NEW w \in Workers, RegisterView(w) PROVE Order'
    BY <1>6 DEF RegisterView
  <1>7. ASSUME NEW w \in Workers, FinishOk(w) PROVE Order'
    BY <1>7 DEF FinishOk, Release, PersistLocked
  <1>8. ASSUME NEW w \in Workers, FinishFailed(w) PROVE Order'
    BY <1>8 DEF FinishFailed, Release, PersistLocked, Exhausted
  <1>9. ASSUME NEW w \in Workers, FinishRetry(w) PROVE Order'
    BY <1>9 DEF FinishRetry, Release, PersistLocked, Exhausted
  <1>10. ASSUME NEW m \in Msgs, Elapse(m) PROVE Order'
    BY <1>10 DEF Elapse
  <1>11. ASSUME NEW r \in Recipients, Announce(r) PROVE Order'
    BY <1>11 DEF Announce, HearAnnounce
  <1>12. ASSUME NEW r \in Recipients, WindowEnds(r) PROVE Order'
    BY <1>12 DEF WindowEnds
  <1>13. CASE Restart
    BY <1>13 DEF Restart
  <1>14. CASE UNCHANGED vars
    BY <1>14 DEF vars
  <1>15. QED
    BY <1>1, <1>2, <1>3, <1>4, <1>5, <1>6, <1>7, <1>8, <1>9, <1>10, <1>11, <1>12, <1>13, <1>14 DEF Next, Attempt

\* A registered view is there when the message is removed.
LEMMA ViewsStep == TypeOK /\ Markers /\ File /\ Views /\ [Next]_vars => Views'
  <1> SUFFICES ASSUME TypeOK, Markers, File, Views, [Next]_vars PROVE Views'
    OBVIOUS
  <1> USE MsgAssumption, NoneAssumption, BoundAssumption DEF TypeOK, Markers, File, Views, Steps, queueVars, netVars, pathVars, fileVars, histVars
  <1>1. ASSUME NEW m \in Msgs, Enqueue(m) PROVE Views'
    BY <1>1 DEF Enqueue, PersistLocked
  <1>2. ASSUME NEW w \in Workers, NEW m \in Msgs, PickDue(w, m) PROVE Views'
    BY <1>2 DEF PickDue, Take, Due, Beats
  <1>3. ASSUME NEW w \in Workers, NEW m \in Msgs, PickDueRacing(w, m) PROVE Views'
    BY <1>3 DEF PickDueRacing, Take, Due, HearAnnounce
  <1>4. ASSUME NEW w \in Workers, AttemptBegin(w) PROVE Views'
    BY <1>4 DEF AttemptBegin
  <1>5. ASSUME NEW w \in Workers, SendLXMF(w) PROVE Views'
    BY <1>5 DEF SendLXMF, Outcomes
  <1>6. ASSUME NEW w \in Workers, RegisterView(w) PROVE Views'
    BY <1>6 DEF RegisterView
  <1>7. ASSUME NEW w \in Workers, FinishOk(w) PROVE Views'
    BY <1>7 DEF FinishOk, Release, PersistLocked
  <1>8. ASSUME NEW w \in Workers, FinishFailed(w) PROVE Views'
    BY <1>8 DEF FinishFailed, Release, PersistLocked, Exhausted
  <1>9. ASSUME NEW w \in Workers, FinishRetry(w) PROVE Views'
    BY <1>9 DEF FinishRetry, Release, PersistLocked, Exhausted
  <1>10. ASSUME NEW m \in Msgs, Elapse(m) PROVE Views'
    BY <1>10 DEF Elapse
  <1>11. ASSUME NEW r \in Recipients, Announce(r) PROVE Views'
    BY <1>11 DEF Announce, HearAnnounce
  <1>12. ASSUME NEW r \in Recipients, WindowEnds(r) PROVE Views'
    BY <1>12 DEF WindowEnds
  <1>13. CASE Restart
    BY <1>13 DEF Restart
  <1>14. CASE UNCHANGED vars
    BY <1>14 DEF vars
  <1>15. QED
    BY <1>1, <1>2, <1>3, <1>4, <1>5, <1>6, <1>7, <1>8, <1>9, <1>10, <1>11, <1>12, <1>13, <1>14 DEF Next, Attempt

\* With nobody announcing, the second failed try asks for a path.
LEMMA AskedStep == TypeOK /\ Markers /\ File /\ Asked /\ [Next]_vars => Asked'
  <1> SUFFICES ASSUME TypeOK, Markers, File, Asked, [Next]_vars PROVE Asked'
    OBVIOUS
  <1> USE MsgAssumption, NoneAssumption, BoundAssumption DEF TypeOK, Markers, File, Asked, Silence, Resting, Steps, queueVars, netVars, pathVars, fileVars, histVars
  <1>1. ASSUME NEW m \in Msgs, Enqueue(m) PROVE Asked'
    BY <1>1 DEF Enqueue, PersistLocked
  <1>2. ASSUME NEW w \in Workers, NEW m \in Msgs, PickDue(w, m) PROVE Asked'
    BY <1>2 DEF PickDue, Take, Due, Beats
  <1>3. ASSUME NEW w \in Workers, NEW m \in Msgs, PickDueRacing(w, m) PROVE Asked'
    BY <1>3 DEF PickDueRacing, Take, Due, HearAnnounce
  <1>4. ASSUME NEW w \in Workers, AttemptBegin(w) PROVE Asked'
    BY <1>4 DEF AttemptBegin
  <1>5. ASSUME NEW w \in Workers, SendLXMF(w) PROVE Asked'
    BY <1>5 DEF SendLXMF, Outcomes
  <1>6. ASSUME NEW w \in Workers, RegisterView(w) PROVE Asked'
    BY <1>6 DEF RegisterView
  <1>7. ASSUME NEW w \in Workers, FinishOk(w) PROVE Asked'
    BY <1>7 DEF FinishOk, Release, PersistLocked
  <1>8. ASSUME NEW w \in Workers, FinishFailed(w) PROVE Asked'
    BY <1>8 DEF FinishFailed, Release, PersistLocked, Exhausted
  <1>9. ASSUME NEW w \in Workers, FinishRetry(w) PROVE Asked'
    BY <1>9 DEF FinishRetry, Release, PersistLocked, Exhausted, RequestPath
  <1>10. ASSUME NEW m \in Msgs, Elapse(m) PROVE Asked'
    BY <1>10 DEF Elapse
  <1>11. ASSUME NEW r \in Recipients, Announce(r) PROVE Asked'
    BY <1>11 DEF Announce, HearAnnounce
  <1>12. ASSUME NEW r \in Recipients, WindowEnds(r) PROVE Asked'
    BY <1>12 DEF WindowEnds
  <1>13. CASE Restart
    BY <1>13 DEF Restart
  <1>14. CASE UNCHANGED vars
    BY <1>14 DEF vars
  <1>15. QED
    BY <1>1, <1>2, <1>3, <1>4, <1>5, <1>6, <1>7, <1>8, <1>9, <1>10, <1>11, <1>12, <1>13, <1>14 DEF Next, Attempt

-----------------------------------------------------------------------------
(* Theorems *)

\* The inductive invariant holds initially and is kept by every step.
THEOREM Invariance == Spec => []IInv
  <1>1. Init => IInv
    <2> SUFFICES ASSUME Init PROVE IInv
      OBVIOUS
    <2> USE MsgAssumption, NoneAssumption, BoundAssumption DEF Init
    <2>1. TypeOK
      BY DEF TypeOK, Steps
    <2>2. Markers /\ File /\ Counts /\ Acks
      BY DEF Markers, File, Counts, Acks
    <2>3. Effort /\ Order /\ Views /\ Asked
      BY DEF Effort, GivenUpAfterEffort, Order, FirstTriesInOrder, Views, Asked
    <2>4. QED
      BY <2>1, <2>2, <2>3 DEF IInv
  <1>2. IInv /\ [Next]_vars => IInv'
    BY TypeStep, MarkersStep, FileStep, CountsStep, EffortStep, AcksStep, OrderStep,
       ViewsStep, AskedStep DEF IInv
  <1>3. QED
    BY <1>1, <1>2, PTL DEF Spec

\* No two workers ever send the same message, even when IDs collide.
THEOREM SingleSender == Spec => []OneSenderPerMessage
  <1>1. IInv => OneSenderPerMessage
    BY NoneAssumption DEF IInv, TypeOK, Markers, OneSenderPerMessage
  <1>2. QED
    BY <1>1, Invariance, PTL

\* Sends of a message are bounded by the attempt limit, crashes and failed saves.
THEOREM BoundedSends == Spec => []SendsBounded
  <1>1. IInv => SendsBounded
    BY DEF IInv, Counts, SendsBounded
  <1>2. QED
    BY <1>1, Invariance, PTL

\* A message is given up only after its attempts were made, less one per crash.
THEOREM EffortBeforeGivingUp == Spec => []GivenUpAfterEffort
  <1>1. IInv => GivenUpAfterEffort
    BY DEF IInv, Effort
  <1>2. QED
    BY <1>1, Invariance, PTL

\* A message is accepted by SendLXMF at most once per life of the process.
THEOREM OneAckPerLife == Spec => []AckedOncePerLife
  <1>1. IInv => AckedOncePerLife
    BY DEF IInv, Acks, AckedOncePerLife
  <1>2. QED
    BY <1>1, Invariance, PTL

\* First tries to one recipient keep the queue's order, announces during a scan
\* and shared IDs aside.
THEOREM OrderedFirstTries == Spec => []FirstTriesInOrder
  <1>1. IInv => FirstTriesInOrder
    BY DEF IInv, Order
  <1>2. QED
    BY <1>1, Invariance, PTL

\* A recipient nobody ever heard of is asked for before its message is dropped.
THEOREM AskedBeforeGivingUp == Spec => []UnreachableWasAsked
  <1>1. IInv => UnreachableWasAsked
    BY DEF IInv, Asked, Silence, UnreachableWasAsked
  <1>2. QED
    BY <1>1, Invariance, PTL

\* What a step may remove from the queue, put back into it, or remove without a
\* registered view.
LEMMA StepEffects ==
  IInv /\ [Next]_vars =>
    /\ \A m \in pending \ pending' : acks[m] > 0 \/ m \in failed' \/ lag > 0
    /\ \A m \in pending' \ pending : slot[m] = 0 \/ lag > 0
    /\ \A m \in pending \ pending' :
         acks[m] > 0 /\ m \in WithBubble \cap attached /\ crashes' = crashes => m \in views
  <1> SUFFICES ASSUME IInv, [Next]_vars
               PROVE  /\ \A m \in pending \ pending' :
                           acks[m] > 0 \/ m \in failed' \/ lag > 0
                      /\ \A m \in pending' \ pending : slot[m] = 0 \/ lag > 0
                      /\ \A m \in pending \ pending' :
                           acks[m] > 0 /\ m \in WithBubble \cap attached
                             /\ crashes' = crashes => m \in views
    OBVIOUS
  <1> USE DEF IInv, TypeOK
  <1>1. CASE \E m \in Msgs : Enqueue(m)
    BY <1>1 DEF Enqueue
  <1>2. CASE \E w \in Workers : FinishOk(w)
    BY <1>2 DEF FinishOk, Acks, Views
  <1>3. CASE \E w \in Workers : FinishFailed(w)
    <2> PICK w \in Workers : FinishFailed(w)
      BY <1>3
    <2>1. held[w] \in Msgs /\ held[w] \in pending
      BY NoneAssumption DEF FinishFailed, Markers
    <2>2. Unacked(held[w])
      BY <2>1, MsgAssumption, NoneAssumption DEF FinishFailed, Markers, Unacked
    <2>3. held[w] \in attached => acks[held[w]] = 0
      BY <2>1, <2>2 DEF Acks
    <2>4. QED
      BY <2>1, <2>3 DEF FinishFailed
  <1>4. CASE Restart
    BY <1>4 DEF Restart, File
  <1>5. CASE pending' = pending
    BY <1>5
  <1>6. QED
    BY <1>1, <1>2, <1>3, <1>4, <1>5
       DEF Next, Attempt, PickDue, PickDueRacing, Take, AttemptBegin, SendLXMF,
           RegisterView, FinishRetry, Elapse, Announce, WindowEnds, vars, queueVars

\* A queued message disappears only sent, given up, or while the file is stale.
THEOREM NoSilentLoss == Spec => LostOnlyWhenStale
  BY StepEffects, Invariance, PTL DEF Spec, LostOnlyWhenStale

\* A settled message returns only while the file is stale.
THEOREM NoResurrection == Spec => BackOnlyWhenStale
  BY StepEffects, Invariance, PTL DEF Spec, BackOnlyWhenStale

\* A bubble's view is registered before its message leaves the queue.
THEOREM RegisteredViews == Spec => ViewBeforeRemoval
  BY StepEffects, Invariance, PTL DEF Spec, ViewBeforeRemoval

-----------------------------------------------------------------------------
(* Refinement *)

\* While saves succeed every step of the queue is a step of the abstract queue
\* or leaves it unchanged.
LEMMA PromiseStep ==
  ASSUME MaxSaveFails = 0
  PROVE  IInv /\ [Next]_vars => [Promise!Next]_(Promise!vars)
  <1> SUFFICES ASSUME IInv, [Next]_vars PROVE [Promise!Next]_(Promise!vars)
    OBVIOUS
  <1> USE MsgAssumption, NoneAssumption, BoundAssumption DEF IInv, TypeOK, Promise!vars
  <1>1. saveFails = 0 /\ lag = 0 /\ disk.msgs = pending /\ crashes <= MaxCrashes
    BY DEF File
  <1>2. ASSUME NEW m \in Msgs, Enqueue(m) PROVE Promise!Accept(m)
    BY <1>2 DEF Enqueue, File, Promise!Accept, Settled, histVars
  <1>3. ASSUME NEW w \in Workers, SendLXMF(w) PROVE Promise!Try(held[w])
    <2>1. held[w] \in Msgs /\ held[w] \in pending
      BY <1>3 DEF SendLXMF, Markers
    <2>2. Unsent(held[w]) /\ Unacked(held[w])
      BY <1>3, <2>1 DEF SendLXMF, Markers, Unsent, Unacked
    <2>3. sends[held[w]] < MaxAttempts + MaxCrashes
      BY <1>1, <2>1, <2>2 DEF Counts
    <2>4. acks[held[w]] <= MaxCrashes
      BY <1>1, <2>1, <2>2 DEF Acks
    <2>5. acks' = acks \/ acks' = [acks EXCEPT ![held[w]] = @ + 1]
      <3> PICK outcome \in Outcomes(Rcpt[held[w]]) :
            acks' = [acks EXCEPT ![held[w]] = IF outcome = "ok" THEN @ + 1 ELSE @]
        BY <1>3 DEF SendLXMF
      <3>1. CASE outcome = "ok"
        BY <3>1
      <3>2. CASE outcome # "ok"
        BY <2>1, <3>2
      <3>3. QED
        BY <3>1, <3>2
    <2>6. QED
      BY <1>3, <2>1, <2>3, <2>4, <2>5 DEF SendLXMF, Promise!Try, Settled, queueVars
  <1>4. ASSUME NEW w \in Workers, FinishOk(w) PROVE Promise!Settle(held[w])
    <2>1. held[w] \in Msgs /\ held[w] \in pending /\ slot[held[w]] > 0
      BY <1>4 DEF FinishOk, Markers, File
    <2>2. acks[held[w]] > 0
      BY <1>4 DEF FinishOk, Acks
    <2>3. Settled' = Settled \cup {held[w]}
      BY <1>4, <2>1 DEF FinishOk, Settled
    <2>4. QED
      BY <1>4, <2>1, <2>2, <2>3 DEF FinishOk, Promise!Settle, histVars
  <1>5. ASSUME NEW w \in Workers, FinishFailed(w) PROVE Promise!Settle(held[w])
    <2>1. held[w] \in Msgs /\ held[w] \in pending /\ slot[held[w]] > 0
      BY <1>5 DEF FinishFailed, Markers, File
    <2>2. Uncounted(held[w])
      BY <1>5, <2>1 DEF FinishFailed, Markers, Uncounted
    <2>3. sends[held[w]] + MaxCrashes >= MaxAttempts
      BY <1>1, <1>5, <2>1, <2>2 DEF FinishFailed, Exhausted, Effort
    <2>4. Settled' = Settled \cup {held[w]}
      BY <1>5, <2>1 DEF FinishFailed, Settled
    <2>5. QED
      BY <1>5, <2>1, <2>3, <2>4 DEF FinishFailed, Promise!Settle
  <1>6. CASE Restart
    BY <1>1, <1>6 DEF Restart, Settled
  <1>7. CASE UNCHANGED <<pending, slot, sends, acks>>
    BY <1>7 DEF Settled
  <1>8. ASSUME NEW w \in Workers, SendLXMF(w) \/ FinishOk(w) \/ FinishFailed(w)
        PROVE  held[w] \in Msgs
    BY <1>8 DEF SendLXMF, FinishOk, FinishFailed
  <1>9. QED
    BY <1>2, <1>3, <1>4, <1>5, <1>6, <1>7, <1>8
       DEF Next, Attempt, PickDue, PickDueRacing, Take, AttemptBegin, RegisterView,
           FinishRetry, Elapse, Announce, WindowEnds, vars, queueVars, histVars,
           Promise!Next

\* With a writable outbound.json the queue implements AtLeastOnce: nothing is
\* lost or settled twice, whatever the interleaving of workers and crashes.
THEOREM Refinement ==
  ASSUME MaxSaveFails = 0
  PROVE  Spec => KeepsPromise
  <1>1. Init => Promise!Init
    BY DEF Init, Promise!Init, Settled
  <1>2. IInv /\ [Next]_vars => [Promise!Next]_(Promise!vars)
    BY PromiseStep
  <1>3. QED
    BY <1>1, <1>2, Invariance, PTL DEF Spec, KeepsPromise, Promise!Spec
=============================================================================
