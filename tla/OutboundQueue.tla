---------------------------- MODULE OutboundQueue ----------------------------
(***************************************************************************)
(* The persistent outbound queue of the relay (internal/service/           *)
(* outbound.go): a pool of workers sends queued LXMF messages with bounded *)
(* retries, one mutex guards the in-memory queue, and the whole queue is   *)
(* rewritten to outbound.json by every change that calls persistLocked.    *)
(*                                                                         *)
(* A step is one critical section of q.mu, one return of SendLXMF (which   *)
(* runs without the mutex), or a process crash followed by Load.  Shutdown *)
(* is a crash too: Service.Run returns on ctx.Done without waiting for the *)
(* workers.                                                                *)
(***************************************************************************)
EXTENDS Integers, FiniteSets

CONSTANTS
  Msgs,          \* the messages callers may enqueue
  Recipients,    \* destination hashes
  Rcpt,          \* Rcpt[m]: the recipient of m
  IDs,           \* values of newMessageID
  Id,            \* Id[m]: the random ID m is given; it may collide
  WithBubble,    \* messages with an idmap bubble to register on success
  Workers,       \* the worker goroutines (outboundWorkers)
  None,          \* a worker holding no message
  MaxAttempts,   \* maxDeliveryAttempts
  PathlessTries, \* maxPathlessTries
  KnownCap,      \* KnownIdentityCapacity of the transport
  MaxAnnounces,  \* bound: announces received
  MaxCrashes,    \* bound: crashes of the process
  MaxSaveFails,  \* bound: failed writes of outbound.json
  MaxPathFails   \* bound: failed broadcasts of a path request

ASSUME MsgAssumption ==
  /\ Rcpt \in [Msgs -> Recipients]
  /\ Id \in [Msgs -> IDs]
  /\ WithBubble \subseteq Msgs

ASSUME NoneAssumption == None \notin Msgs

ASSUME BoundAssumption ==
  /\ MaxAttempts \in Nat \ {0}
  /\ PathlessTries \in Nat
  /\ KnownCap \in Nat \ {0}
  /\ MaxAnnounces \in Nat
  /\ MaxCrashes \in Nat
  /\ MaxSaveFails \in Nat
  /\ MaxPathFails \in Nat

VARIABLES
  \* the queue in memory, guarded by q.mu
  pending,    \* the messages of q.pending
  slot,       \* slot[m]: rank of m's append, hence its place in the slice
  tail,       \* messages appended so far
  attempts,   \* attempts[m]: msg.Attempts
  deferred,   \* messages whose NextAttempt lies in the future
  attached,   \* messages that still carry Fields and Bubble (json:"-")
  inFlight,   \* the IDs in q.inFlight
  \* outbound.json
  disk,
  \* the workers
  pc,         \* where each worker is
  held,       \* the message each worker is attempting
  \* what the queue uses of its neighbours
  seen,       \* seen[r]: when r last announced, 0 if Recall(r) = nil
  clock,      \* announces received
  window,     \* recipients in pathRequestsSent, i.e. asked for in the last 60 s
  asked,      \* recipients a path request was broadcast for
  views,      \* messages whose view was registered in the idmap
  \* history
  sends,      \* sends[m]: calls of SendLXMF for m
  acks,       \* acks[m]: calls that returned nil
  failed,     \* messages dropped by failLocked
  picked,     \* messages pickDue has ever returned
  raced,      \* recipients that announced during a scan of pickDue
  crashes,    \* crashes so far
  pathFails,  \* failed broadcasts of a path request so far
  saveFails,  \* failed saves so far
  lag         \* failed saves since outbound.json was last written or read

queueVars == <<pending, slot, tail, attempts, deferred, attached, inFlight>>
netVars   == <<seen, clock, raced>>
pathVars  == <<window, asked, pathFails>>
histVars  == <<sends, acks, failed, picked, crashes>>
fileVars  == <<disk, saveFails, lag>>
vars == <<queueVars, netVars, pathVars, histVars, fileVars, pc, held, views>>

Steps == {"idle", "picked", "sending", "ok", "unknown", "error", "registered"}

-----------------------------------------------------------------------------
(* Selection *)

\* The messages pickDue may return: in the queue, not marked in flight, and
\* past their NextAttempt.
Due == {m \in pending : Id[m] \notin inFlight /\ m \notin deferred}

\* Mutant of Beats: ties go to the newer entry (seen >= bestSeen).
BeatsNewest(n, m) ==
  \/ seen[Rcpt[n]] > seen[Rcpt[m]]
  \/ seen[Rcpt[n]] = seen[Rcpt[m]] /\ slot[n] > slot[m]

\* The scan prefers n to m: any known recipient beats an unknown one, a more
\* recent announce beats an older one, ties go to the older entry.
Beats(n, m) ==
  \/ seen[Rcpt[n]] > seen[Rcpt[m]]
  \/ seen[Rcpt[n]] = seen[Rcpt[m]] /\ slot[n] < slot[m]

Known == {r \in Recipients : seen[r] > 0}

\* The entry the transport evicts to make room for r: when r is new and the
\* table full, the one heard longest ago.
Evicted(r) ==
  {s \in Known : /\ seen[r] = 0 /\ Cardinality(Known) >= KnownCap
                 /\ \A t \in Known : seen[s] <= seen[t]}

-----------------------------------------------------------------------------
(* Persistence *)

\* persistLocked: rewrite outbound.json with the queue as this step leaves it.
\* Fields and Bubble are not written.  A failed save is only logged and, the
\* write being a rename, leaves the previous file in place.
PersistLocked ==
  \/ /\ disk' = [msgs |-> pending', attempts |-> attempts', deferred |-> deferred']
     /\ lag' = 0
     /\ UNCHANGED saveFails
  \/ /\ saveFails < MaxSaveFails
     /\ saveFails' = saveFails + 1
     /\ lag' = lag + 1
     /\ UNCHANGED disk

-----------------------------------------------------------------------------
(* Operations *)

\* Mutant of Enqueue: append without persistLocked.
EnqueueUnsaved(m) ==
  /\ slot[m] = 0
  /\ pending' = pending \cup {m}
  /\ tail' = tail + 1
  /\ slot' = [slot EXCEPT ![m] = tail + 1]
  /\ attached' = attached \cup {m}
  /\ UNCHANGED <<attempts, deferred, inFlight, fileVars, netVars, pathVars,
                 histVars, pc, held, views>>

\* EnqueueBubble (Enqueue and EnqueueWithFields call it).
Enqueue(m) ==
  /\ slot[m] = 0
  /\ pending' = pending \cup {m}
  /\ tail' = tail + 1
  /\ slot' = [slot EXCEPT ![m] = tail + 1]
  /\ attached' = attached \cup {m}
  /\ UNCHANGED <<attempts, deferred>>
  /\ PersistLocked
  /\ UNCHANGED <<inFlight, netVars, pathVars, histVars, pc, held, views>>

\* Mutant of Take: the in-flight marker is not set.
TakeUnmarked(w, m) ==
  /\ pc[w] = "idle"
  /\ m \in Due
  /\ pc' = [pc EXCEPT ![w] = "picked"]
  /\ held' = [held EXCEPT ![w] = m]
  /\ picked' = picked \cup {m}
  /\ UNCHANGED <<queueVars, fileVars, pathVars, views, sends, acks, failed, crashes>>

\* The tail of pickDue: mark the chosen message and hand it to the worker.
Take(w, m) ==
  /\ pc[w] = "idle"
  /\ m \in Due
  /\ inFlight' = inFlight \cup {Id[m]}
  /\ pc' = [pc EXCEPT ![w] = "picked"]
  /\ held' = [held EXCEPT ![w] = m]
  /\ picked' = picked \cup {m}
  /\ UNCHANGED <<pending, slot, tail, attempts, deferred, attached, fileVars, pathVars,
                 views, sends, acks, failed, crashes>>

\* handleAnnounce of the transport, for the part LastAnnounceFor reads.
HearAnnounce(r) ==
  /\ clock < MaxAnnounces
  /\ clock' = clock + 1
  /\ seen' = [s \in Recipients |->
                IF s = r THEN clock + 1 ELSE IF s \in Evicted(r) THEN 0 ELSE seen[s]]

\* pickDue with no announce during its scan.
PickDue(w, m) ==
  /\ Take(w, m)
  /\ \A n \in Due : ~Beats(n, m)
  /\ UNCHANGED netVars

\* pickDue asks LastAnnounceFor once per entry and the transport does not take
\* q.mu.  When r announces during the scan, entries read before the announce
\* show the old time and entries read after it the new one, so the first entry
\* for r read after it wins, whichever that is.
PickDueRacing(w, m) ==
  /\ Take(w, m)
  /\ HearAnnounce(Rcpt[m])
  /\ raced' = raced \cup {Rcpt[m]}

Announce(r) ==
  /\ HearAnnounce(r)
  /\ UNCHANGED <<queueVars, fileVars, pathVars, histVars, pc, held, views, raced>>

\* attempt, first critical section: count the attempt.  It is not persisted.
AttemptBegin(w) ==
  /\ pc[w] = "picked"
  /\ attempts' = [attempts EXCEPT ![held[w]] = @ + 1]
  /\ pc' = [pc EXCEPT ![w] = "sending"]
  /\ UNCHANGED <<pending, slot, tail, deferred, attached, inFlight, fileVars, netVars,
                 pathVars, histVars, held, views>>

\* What SendLXMF returns: ErrRecipientUnknown when Recall finds nothing, else
\* success or an error (interface down, link timeout, transfer cancelled).
Outcomes(r) == IF seen[r] = 0 THEN {"unknown"} ELSE {"ok", "error"}

SendLXMF(w) ==
  /\ pc[w] = "sending"
  /\ \E outcome \in Outcomes(Rcpt[held[w]]) :
       /\ pc' = [pc EXCEPT ![w] = outcome]
       /\ acks' = [acks EXCEPT ![held[w]] = IF outcome = "ok" THEN @ + 1 ELSE @]
  /\ sends' = [sends EXCEPT ![held[w]] = @ + 1]
  /\ UNCHANGED <<queueVars, fileVars, netVars, pathVars, held, views, failed, picked,
                 crashes>>

\* attempt, between Send and the second critical section: register the view of
\* the recipient when the message still has its bubble.
RegisterView(w) ==
  /\ pc[w] = "ok"
  /\ views' = IF held[w] \in WithBubble \cap attached
              THEN views \cup {held[w]} ELSE views
  /\ pc' = [pc EXCEPT ![w] = "registered"]
  /\ UNCHANGED <<queueVars, fileVars, netVars, pathVars, histVars, held>>

\* Mutant of Release: the marker is never deleted.
ReleaseMarked(w) ==
  /\ pc' = [pc EXCEPT ![w] = "idle"]
  /\ held' = [held EXCEPT ![w] = None]
  /\ UNCHANGED inFlight

\* The deferred delete of the in-flight marker, and the worker's next loop.
Release(w) ==
  /\ inFlight' = inFlight \ {Id[held[w]]}
  /\ pc' = [pc EXCEPT ![w] = "idle"]
  /\ held' = [held EXCEPT ![w] = None]

\* Mutants of FinishOk: the message stays queued; the removal is not saved.
FinishOkKept(w) ==
  /\ pc[w] = "registered"
  /\ UNCHANGED <<pending, slot, tail, attempts, deferred, attached>>
  /\ PersistLocked
  /\ Release(w)
  /\ UNCHANGED <<netVars, pathVars, histVars, views>>

FinishOkUnsaved(w) ==
  /\ pc[w] = "registered"
  /\ pending' = pending \ {held[w]}
  /\ Release(w)
  /\ UNCHANGED <<slot, tail, attempts, deferred, attached, fileVars, netVars,
                 pathVars, histVars, views>>

\* attempt, second critical section, after success: removeLocked, persist.
FinishOk(w) ==
  /\ pc[w] = "registered"
  /\ pending' = pending \ {held[w]}
  /\ UNCHANGED <<slot, tail, attempts, deferred, attached>>
  /\ PersistLocked
  /\ Release(w)
  /\ UNCHANGED <<netVars, pathVars, histVars, views>>

\* Mutants of Exhausted: the limit is one attempt too many, one too few.
ExhaustedLate(m) == attempts[m] > MaxAttempts
ExhaustedEarly(m) == attempts[m] >= MaxAttempts - 1

\* attempt's terminal test.
Exhausted(m) == attempts[m] >= MaxAttempts

\* attempt, after the last failed attempt: failLocked.
FinishFailed(w) ==
  /\ pc[w] \in {"unknown", "error"}
  /\ Exhausted(held[w])
  /\ pending' = pending \ {held[w]}
  /\ failed' = failed \cup {held[w]}
  /\ UNCHANGED <<slot, tail, attempts, deferred, attached>>
  /\ PersistLocked
  /\ Release(w)
  /\ UNCHANGED <<netVars, pathVars, sends, acks, picked, crashes, views>>

\* Mutant of RequestPath: the target is marked, the broadcast forgotten.
RequestPathSilent(r) ==
  /\ window' = window \cup {r}
  /\ UNCHANGED <<asked, pathFails>>

\* Transport.RequestPath: the target enters the dedup window before the
\* broadcast, so a failed broadcast suppresses the next requests as well.
RequestPath(r) ==
  IF r \in window
  THEN UNCHANGED pathVars
  ELSE /\ window' = window \cup {r}
       /\ \/ asked' = asked \cup {r} /\ UNCHANGED pathFails
          \/ /\ pathFails < MaxPathFails
             /\ pathFails' = pathFails + 1
             /\ UNCHANGED asked

\* attempt, after a failure with attempts left: for an unknown recipient ask
\* for a path, except on the first PathlessTries attempts; set NextAttempt
\* (the two waits differ only in length) and persist.
FinishRetry(w) ==
  /\ pc[w] \in {"unknown", "error"}
  /\ ~Exhausted(held[w])
  /\ deferred' = deferred \cup {held[w]}
  /\ UNCHANGED <<pending, slot, tail, attempts, attached>>
  /\ PersistLocked
  /\ Release(w)
  /\ IF pc[w] = "unknown" /\ attempts[held[w]] > PathlessTries
     THEN RequestPath(Rcpt[held[w]])
     ELSE UNCHANGED pathVars
  /\ UNCHANGED <<netVars, histVars, views>>

\* Time passes m's NextAttempt.
Elapse(m) ==
  /\ m \in deferred
  /\ deferred' = deferred \ {m}
  /\ UNCHANGED <<pending, slot, tail, attempts, attached, inFlight, fileVars, netVars,
                 pathVars, histVars, pc, held, views>>

\* A path request leaves the dedup window of RequestPath.
WindowEnds(r) ==
  /\ r \in window
  /\ window' = window \ {r}
  /\ UNCHANGED <<queueVars, fileVars, netVars, asked, pathFails, histVars, pc, held,
                 views>>

\* The process dies between two steps and starts again: Load takes the queue
\* from outbound.json.  Markers, workers, Fields, Bubbles and idmap views are
\* gone; announces.json brings back some of the known identities.
Restart ==
  /\ crashes < MaxCrashes
  /\ crashes' = crashes + 1
  /\ pending' = disk.msgs
  /\ attempts' = disk.attempts
  /\ deferred' = disk.deferred
  /\ attached' = {}
  /\ inFlight' = {}
  /\ pc' = [w \in Workers |-> "idle"]
  /\ held' = [w \in Workers |-> None]
  /\ views' = {}
  /\ window' = {}
  /\ \E kept \in SUBSET Recipients :
       seen' = [r \in Recipients |-> IF r \in kept THEN seen[r] ELSE 0]
  /\ lag' = 0
  /\ UNCHANGED <<slot, tail, disk, saveFails, asked, pathFails, clock, raced, sends, acks, failed, picked>>

-----------------------------------------------------------------------------
Init ==
  /\ pending = {}
  /\ slot = [m \in Msgs |-> 0]
  /\ tail = 0
  /\ attempts = [m \in Msgs |-> 0]
  /\ deferred = {}
  /\ attached = {}
  /\ inFlight = {}
  /\ disk = [msgs |-> {}, attempts |-> [m \in Msgs |-> 0], deferred |-> {}]
  /\ pc = [w \in Workers |-> "idle"]
  /\ held = [w \in Workers |-> None]
  /\ seen = [r \in Recipients |-> 0]
  /\ clock = 0
  /\ views = {}
  /\ window = {}
  /\ asked = {}
  /\ pathFails = 0
  /\ sends = [m \in Msgs |-> 0]
  /\ acks = [m \in Msgs |-> 0]
  /\ failed = {}
  /\ picked = {}
  /\ raced = {}
  /\ crashes = 0
  /\ saveFails = 0
  /\ lag = 0

Attempt(w) ==
  \/ AttemptBegin(w)
  \/ SendLXMF(w)
  \/ RegisterView(w)
  \/ FinishOk(w)
  \/ FinishFailed(w)
  \/ FinishRetry(w)

Next ==
  \/ \E m \in Msgs : Enqueue(m)
  \/ \E w \in Workers, m \in Msgs : PickDue(w, m)
  \/ \E w \in Workers, m \in Msgs : PickDueRacing(w, m)
  \/ \E w \in Workers : Attempt(w)
  \/ \E m \in Msgs : Elapse(m)
  \/ \E r \in Recipients : Announce(r)
  \/ \E r \in Recipients : WindowEnds(r)
  \/ Restart

Spec == Init /\ [][Next]_vars

\* Every worker loops: it picks when something is due, SendLXMF returns
\* (30 s link timeout), and time passes.  Callers, announces and crashes are
\* not fair.
Fairness ==
  /\ \A w \in Workers :
       /\ WF_vars(\E m \in Msgs : PickDue(w, m))
       /\ WF_vars(Attempt(w))
  /\ \A m \in Msgs : WF_vars(Elapse(m))

FairSpec == Spec /\ Fairness

-----------------------------------------------------------------------------
(* Properties *)

\* The queue, the workers and the file keep their types, and a worker holds a
\* message exactly while it is inside attempt.
TypeOK ==
  /\ pending \subseteq Msgs
  /\ slot \in [Msgs -> Nat]
  /\ tail \in Nat
  /\ attempts \in [Msgs -> Nat]
  /\ deferred \subseteq Msgs
  /\ attached \subseteq Msgs
  /\ inFlight \subseteq IDs
  /\ disk \in [msgs : SUBSET Msgs, attempts : [Msgs -> Nat], deferred : SUBSET Msgs]
  /\ pc \in [Workers -> Steps]
  /\ held \in [Workers -> Msgs \cup {None}]
  /\ \A w \in Workers : pc[w] = "idle" <=> held[w] = None
  /\ seen \in [Recipients -> Nat]
  /\ clock \in Nat
  /\ views \subseteq Msgs
  /\ window \subseteq Recipients
  /\ asked \subseteq Recipients
  /\ pathFails \in Nat
  /\ sends \in [Msgs -> Nat]
  /\ acks \in [Msgs -> Nat]
  /\ failed \subseteq Msgs
  /\ picked \subseteq Msgs
  /\ raced \subseteq Recipients
  /\ crashes \in Nat
  /\ saveFails \in Nat
  /\ lag \in Nat

\* No two workers are ever sending the same message, although the in-flight map
\* is keyed by an ID that may collide (pickDue, attempt, newMessageID).
OneSenderPerMessage ==
  \A v, w \in Workers : v # w /\ held[v] # None => held[v] # held[w]

\* A message is sent at most maxDeliveryAttempts times, plus once for every
\* crash and every failed save: the count is bumped in memory before the send
\* and reaches outbound.json only afterwards (attempt, persistLocked).
SendsBounded ==
  \A m \in Msgs : sends[m] <= MaxAttempts + crashes + saveFails

\* A message is given up only after maxDeliveryAttempts calls of SendLXMF, less
\* one per crash: a counted attempt whose send a crash prevents can reach the
\* file through the save of another message (attempt, failLocked).
GivenUpAfterEffort ==
  \A m \in failed : sends[m] + crashes >= MaxAttempts

\* One life of the process has a message accepted at most once: after SendLXMF
\* returned nil it is not sent again before a crash (attempt, removeLocked).
AckedOncePerLife ==
  \A m \in Msgs : acks[m] <= 1 + crashes

\* A queued message disappears only when it was sent or given up, or when the
\* process dies while outbound.json is stale after a failed save.
LostOnlyWhenStale ==
  [][\A m \in pending \ pending' : acks[m] > 0 \/ m \in failed' \/ lag > 0]_vars

\* A message that left the queue comes back only when the process dies while
\* outbound.json is stale (Load after a failed persistLocked).
BackOnlyWhenStale ==
  [][\A m \in pending' \ pending : slot[m] = 0 \/ lag > 0]_vars

\* Messages to one recipient are first attempted in the order they were queued,
\* unless an announce of that recipient landed during a scan or the older
\* message shares its ID with another one (pickDue's FIFO tie-break).
FirstTriesInOrder ==
  \A m, n \in Msgs :
    /\ Rcpt[m] = Rcpt[n] /\ Rcpt[m] \notin raced
    /\ \A k \in Msgs : Id[k] = Id[m] => k = m
    /\ m \in pending /\ slot[m] < slot[n] /\ n \in picked
    => m \in picked

\* When nobody ever announced, nothing crashed and no broadcast failed, a
\* message is given up only after its recipient was asked for (attempt's
\* pathless tries, RequestPath).
UnreachableWasAsked ==
  (clock = 0 /\ crashes = 0 /\ pathFails = 0 /\ MaxAttempts > PathlessTries + 1)
    => \A m \in failed : Rcpt[m] \in asked

\* A sent message that still had its bubble is removed from the queue only
\* after its recipient's view is in the idmap (attempt, RegisterView).
ViewBeforeRemoval ==
  [][\A m \in pending \ pending' :
       acks[m] > 0 /\ m \in WithBubble \cap attached /\ crashes' = crashes
         => m \in views]_vars

\* Every queued message eventually leaves the queue: sent or given up.
Drains == \A m \in Msgs : m \in pending ~> m \notin pending

-----------------------------------------------------------------------------
(* The abstract queue *)

Settled == {m \in Msgs : slot[m] > 0 /\ m \notin pending}

Promise == INSTANCE AtLeastOnce
             WITH queued <- pending, done <- Settled, tries <- sends,
                  MaxTries <- MaxAttempts, Slack <- MaxCrashes

\* As long as outbound.json can be written, the queue with its workers, its file
\* and its crashes implements the at-least-once queue of AtLeastOnce.
KeepsPromise == Promise!Spec
=============================================================================
