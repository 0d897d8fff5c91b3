--------------------------------- MODULE Chat ---------------------------------
(***************************************************************************)
(* The path of a chat message through the service (internal/service inbox, *)
(* forward, rewrite, replay; internal/history; internal/idmap).            *)
(*                                                                         *)
(* Every verified inbound message gets a goroutine of its own.  It asks    *)
(* the roster whether the sender may speak, looks up the bubble an         *)
(* annotation is about, takes a snapshot of the active members, queues one *)
(* copy for each, rewritten to the ids that member knows, and then appends *)
(* the text to the history.  Meanwhile members join, leave, pause and are  *)
(* banned, a joining member's replay reads the history, and the queue's    *)
(* workers send copies and record the ids they got.  A step is one         *)
(* critical section with the local code up to the next one.                *)
(*                                                                         *)
(* The n-th message received is the number n; it is also the number of the *)
(* bubble it may become.  A message id is a pair <<n, u>>: the id under    *)
(* which member u knows the message received as n.  The text of a message  *)
(* is reduced to whether there is any.  Commands are the atomic changes    *)
(* they make to the roster (Membership has their steps); the queue's       *)
(* retries are in OutboundQueue.                                           *)
(***************************************************************************)
EXTENDS IdMap

CONSTANTS
  Users,           \* sender hashes
  NoId,            \* no target, or an id nobody knows
  NoBubble,        \* a lookup that missed
  NoCopy,          \* nothing queued
  Senders,         \* bound: the users who send messages
  Shapes,          \* the messages they may send
  ForwardedFields, \* service.forwarded_fields
  ReplayCount,     \* replay.count, 0 for no replay
  MaxAge,          \* replay.max_age, 0 for no limit
  InitMembers,     \* the members at the start
  InitTextOnly,    \* those of them with the text-only flag
  MaxInbound,      \* bound: messages received
  MaxHandlers,     \* bound: messages handled at the same time
  MaxEvents,       \* bound: messages, commands, ticks, crashes and failed writes
  MaxSends,        \* bound: copies sent
  MaxCmds,         \* bound: commands
  MaxClock,        \* bound: the clock
  MaxCrashes,      \* bound: crashes of the process
  MaxSaveFails     \* bound: failed writes of history.json

\* Fields whose value is a dict with the id of another message in it.
DictFields == {"reaction", "comment", "continuation"}
Fields     == DictFields \cup {"image", "reply", "quote", "originator"}

\* text: has text; fields: its LXMF fields; big: the ones over the size limit;
\* long: over the limit of characters; fits: a copy, if need be without its fields, is
\* within MaxOpportunisticPayload.
Shape == [text : BOOLEAN, fields : SUBSET Fields, big : SUBSET Fields, long : BOOLEAN,
          fits : BOOLEAN]

ASSUME ShapeAssumption ==
  /\ Shapes \subseteq Shape
  /\ \A s \in Shapes : /\ s.big \subseteq s.fields
                       /\ Cardinality(s.fields \cap DictFields) <= 1
                       /\ s.text \/ s.fits
  /\ ForwardedFields \subseteq Fields
  /\ InitTextOnly \subseteq InitMembers
  /\ InitMembers \subseteq Users
  /\ Senders \subseteq Users

ASSUME NumberAssumption ==
  /\ ReplayCount \in Nat
  /\ MaxAge \in Nat
  /\ MaxInbound \in Nat
  /\ MaxHandlers \in Nat
  /\ MaxEvents \in Nat
  /\ MaxSends \in Nat
  /\ MaxCmds \in Nat
  /\ MaxClock \in Nat
  /\ MaxCrashes \in Nat
  /\ MaxSaveFails \in Nat
  /\ Bubbles = 1 .. MaxInbound

VARIABLES
  roster,    \* roster[u]: "absent", "active" or "paused"
  textOnly,  \* members with the text-only flag
  banned,    \* the ban list
  wire,      \* the messages received, in order
  h,         \* h[n]: the goroutine of message n
  copies,    \* copies[n][u]: the copy of n queued for or sent to u
  cache,     \* Service.idmap
  hist,      \* Log.entries
  disk,      \* history.json
  joins,     \* the replay goroutines, one for every /join
  clock,
  \* history
  log,       \* every entry ever appended
  ticks, cmds, crashes, saveFails

vars == <<roster, textOnly, banned, wire, h, copies, cache, hist, disk, joins, clock,
          log, ticks, cmds, crashes, saveFails>>

time     == <<clock, ticks>>
counters == <<time, cmds, crashes>>
people   == <<roster, textOnly, banned>>
past     == <<hist, disk, log, saveFails>>

Inbound == 1 .. MaxInbound
Ids     == Inbound \X Users

\* The copies of a message: with a body and fields while it is queued, then only
\* whether its id is still to be recorded, and whether the recipient has it.
Content == [fields : SUBSET Fields, dict : Ids \cup {NoId}, reply : Ids \cup {NoId}]
Queued  == [st : {"queued"}, body : BOOLEAN, bubble : BOOLEAN, with : Content]
Gone    == [st : {"sent", "done"}, here : BOOLEAN]

ASSUME AbsenceAssumption ==
  /\ NoBubble \notin Inbound
  /\ NoId \notin Ids
  /\ NoCopy \notin Queued \cup Gone

\* A goroutine that does not run: not started, or ended with what it told the
\* sender ("" for nothing).  at: when the message came.
Ended(what, at, target) == [pc |-> "ended", told |-> what, at |-> at, target |-> target]
Idle == Ended("", 0, NoBubble)

Running(n) == h[n].pc # "ended"

\* The goroutine has taken its snapshot and has not appended yet.
Fanning(n) == h[n].pc = "fan"

\* There is room for one more event.
Room == Len(wire) + cmds + ticks + crashes + saveFails < MaxEvents

-----------------------------------------------------------------------------
(* What members see *)

\* SendLXMF returned nil for the copy of n for u.
Sent(n, u) == copies[n][u] # NoCopy /\ copies[n][u].st # "queued"

\* u got it.
Arrived(n, u) == Sent(n, u) /\ copies[n][u].here

\* id is how u knows the message received as id[1], if it reached him: he is its
\* sender, or a copy was sent to him.
Addressed(u, id) ==
  /\ id[2] = u
  /\ id[1] <= Len(wire)
  /\ wire[id[1]].from = u \/ Sent(id[1], u)

\* u has the message on display under this id.
Shows(u, id) == Addressed(u, id) /\ (wire[id[1]].from = u \/ Arrived(id[1], u))

\* The message an id stands for: one received twice has two numbers.
MessageOf(id) == wire[id[1]].msg

-----------------------------------------------------------------------------
(* Roster.  moved collects whom a change touched while a goroutine runs. *)

Touched(u) == [n \in Inbound |->
                 IF Running(n) THEN [h[n] EXCEPT !.moved = @ \cup {u}] ELSE h[n]]

\* A member whose place on the roster changes is not followed any further.
Left(u) == [j \in DOMAIN joins |->
              IF joins[j].user = u THEN [joins[j] EXCEPT !.stayed = FALSE] ELSE joins[j]]

Command == Room /\ cmds < MaxCmds /\ cmds' = cmds + 1

\* Remove, for /leave, /kick and the prune sweep.
RemoveMember(u) ==
  /\ Command
  /\ roster[u] # "absent"
  /\ roster' = [roster EXCEPT ![u] = "absent"]
  /\ textOnly' = textOnly \ {u}
  /\ h' = Touched(u)
  /\ joins' = Left(u)
  /\ UNCHANGED <<banned, wire, copies, cache, past, time, crashes>>

SetPaused(u) ==
  /\ Command
  /\ roster[u] # "absent"
  /\ roster' = [roster EXCEPT ![u] = IF @ = "paused" THEN "active" ELSE "paused"]
  /\ h' = Touched(u)
  /\ joins' = Left(u)
  /\ UNCHANGED <<textOnly, banned, wire, copies, cache, past, time, crashes>>

\* Mutant of SetTextOnly: whether the user is on the roster is not asked.
SetTextOnlyAnyone(u) ==
  /\ Command
  /\ textOnly' = IF u \in textOnly THEN textOnly \ {u} ELSE textOnly \cup {u}
  /\ h' = Touched(u)
  /\ UNCHANGED <<roster, banned, wire, copies, cache, past, joins, time, crashes>>

SetTextOnly(u) ==
  /\ Command
  /\ roster[u] # "absent"
  /\ textOnly' = IF u \in textOnly THEN textOnly \ {u} ELSE textOnly \cup {u}
  /\ h' = Touched(u)
  /\ UNCHANGED <<roster, banned, wire, copies, cache, past, joins, time, crashes>>

Ban(u) ==
  /\ Command
  /\ u \notin banned
  /\ banned' = banned \cup {u}
  /\ roster' = [roster EXCEPT ![u] = "absent"]
  /\ textOnly' = textOnly \ {u}
  /\ h' = Touched(u)
  /\ joins' = Left(u)
  /\ UNCHANGED <<wire, copies, cache, past, time, crashes>>

-----------------------------------------------------------------------------
(* /join and the replay of the history *)

Messages(es) == {es[i].n : i \in DOMAIN es}

\* AddOrUpdate; onJoin starts the replay.  flying: the messages whose snapshot is
\* taken and that are not yet appended; gone: the ones appended that the replay
\* does not owe.
Join(u) ==
  /\ Command
  /\ roster[u] = "absent"
  /\ u \notin banned
  /\ roster' = [roster EXCEPT ![u] = "active"]
  /\ h' = Touched(u)
  /\ joins' = Append(joins,
       [user |-> u, pc |-> IF ReplayCount > 0 THEN "read" ELSE "ended", now |-> clock,
        left |-> <<>>, got |-> {}, stayed |-> TRUE,
        flying |-> {n \in Inbound : Fanning(n)},
        gone |-> Messages(log)])
  /\ UNCHANGED <<textOnly, banned, wire, copies, cache, past, time, crashes>>

\* Mutant of Recent: an entry exactly at the cutoff is too old.
RecentStrict(es, now) ==
  Only(es, {e \in Range(es) : MaxAge = 0 \/ e.at > now - MaxAge})

\* The entries of es at or after the cutoff of a replay that began at now.
Recent(es, now) ==
  Only(es, {e \in Range(es) : MaxAge = 0 \/ e.at >= now - MaxAge})

\* The last k of a sequence.
LastOf(s, k) == SubSeq(s, IF Len(s) > k THEN Len(s) - k + 1 ELSE 1, Len(s))

Capacity == IF ReplayCount < 1 THEN 1 ELSE ReplayCount

\* What a replay that began at now owes: of the last messages ever appended, as
\* many as fit the history, those that are at most MaxAge old.
Due(now) ==
  LET due == {k \in DOMAIN log : /\ k > Len(log) - Capacity
                                 /\ MaxAge > 0 => now - log[k].at <= MaxAge}
  IN  {log[k].n : k \in due}

\* replayHistoryTo: SinceOldest.
ReplayRead(j) ==
  /\ joins[j].pc = "read"
  /\ joins' = [joins EXCEPT
       ![j].pc   = IF Recent(hist, joins[j].now) = <<>> THEN "ended" ELSE "send",
       ![j].left = Recent(hist, joins[j].now),
       ![j].gone = Messages(log) \ Due(joins[j].now)]
  /\ UNCHANGED <<people, wire, h, copies, cache, past, counters>>

\* replayHistoryTo: one Enqueue.
ReplaySend(j) ==
  /\ joins[j].pc = "send"
  /\ joins' = [joins EXCEPT
       ![j].pc   = IF Len(joins[j].left) = 1 THEN "ended" ELSE "send",
       ![j].left = Tail(@),
       ![j].got  = @ \cup {Head(joins[j].left).n}]
  /\ UNCHANGED <<people, wire, h, copies, cache, past, counters>>
-----------------------------------------------------------------------------
(* onLXMFReceived *)

\* The ids a sender can put into a field of a message.
Targets(u, fields) ==
  IF fields = {} THEN {NoId} ELSE {NoId} \cup {id \in Ids : Shows(u, id)}

\* A message arrives, its goroutine starts and drops it if the sender is banned.
Arrives(w) ==
  LET n == Len(wire) + 1
  IN  /\ Room
      /\ n <= MaxInbound
      /\ Cardinality({k \in Inbound : Running(k)}) < MaxHandlers
      /\ wire' = Append(wire, w)
      /\ h' = [h EXCEPT ![n] =
           IF w.from \in banned THEN Ended("", clock, NoBubble)
           ELSE [pc |-> "member", at |-> clock, moved |-> {}, target |-> NoBubble]]
      /\ UNCHANGED <<people, copies, cache, past, joins, counters>>

ReceiveNew ==
  \E u \in Senders, s \in Shapes :
    \E d \in Targets(u, s.fields \cap DictFields), r \in Targets(u, s.fields \cap {"reply"}) :
      Arrives([msg |-> Len(wire) + 1, from |-> u, shape |-> s, dict |-> d, reply |-> r])

\* The sender, or the network, repeats a message.
ReceiveAgain == \E k \in 1 .. Len(wire) : Arrives(wire[k])

\* The goroutine ends here and tells the sender why.
Stop(n, what) == h' = [h EXCEPT ![n] = Ended(what, h[n].at, NoBubble)]

\* The limit on characters, then Has.
CheckMember(n) ==
  /\ h[n].pc = "member"
  /\ IF wire[n].shape.long THEN Stop(n, "over limit")
     ELSE IF roster[wire[n].from] = "absent" THEN Stop(n, "invite")
     ELSE h' = [h EXCEPT ![n].pc = "paused"]
  /\ UNCHANGED <<people, wire, copies, cache, past, joins, counters>>

\* filterAttachments: the fields that pass, and whether a note is added to the body
\* for one that is too large.
Filtered(n) == (wire[n].shape.fields \cap ForwardedFields) \ wire[n].shape.big
Noted(n)    == wire[n].shape.big \cap ForwardedFields # {}
HasBody(n)  == wire[n].shape.text \/ Noted(n)

\* Mutant of CheckPaused: IsPaused is not asked.
CheckPausedNever(n) ==
  /\ h[n].pc = "paused"
  /\ IF ~ HasBody(n) /\ Filtered(n) = {} THEN Stop(n, "")
     ELSE h' = [h EXCEPT ![n].pc = "rewrite"]
  /\ UNCHANGED <<people, wire, copies, cache, past, joins, counters>>

\* IsPaused, which is FALSE for a member who has just left; the attachment policy.
CheckPaused(n) ==
  /\ h[n].pc = "paused"
  /\ IF roster[wire[n].from] = "paused" THEN Stop(n, "paused")
     ELSE IF ~ HasBody(n) /\ Filtered(n) = {} THEN Stop(n, "")
     ELSE h' = [h EXCEPT ![n].pc = "rewrite"]
  /\ UNCHANGED <<people, wire, copies, cache, past, joins, counters>>

HasDict(n)  == Filtered(n) \cap DictFields # {}
HasReply(n) == "reply" \in Filtered(n)

BubbleOf(c, id) == IF Hit(c, id, clock) THEN c.index[id] ELSE NoBubble

\* buildRewrite: one Lookup for every field with a target.
BuildRewrite(n) ==
  LET d == IF HasDict(n) THEN wire[n].dict ELSE NoId
      r == IF HasReply(n) THEN wire[n].reply ELSE NoId
      c == LookedUp(cache, d, clock)
  IN  /\ h[n].pc = "rewrite"
      /\ h' = [h EXCEPT ![n] = [pc |-> "bubble", at |-> h[n].at, moved |-> h[n].moved,
                                target |-> BubbleOf(cache, d), reply |-> BubbleOf(c, r)]]
      /\ cache' = LookedUp(c, r, clock)
      /\ UNCHANGED <<people, wire, copies, past, joins, counters>>

\* isPrimaryBubble
Primary(n) ==
  wire[n].shape.text \/ Filtered(n) \ (DictFields \cup {"reply", "quote"}) # {}

\* Mutant of SenderView: the sender's own id is not recorded.
SenderViewMissing(n) ==
  IF Primary(n) THEN NewBubble(cache, n, clock) ELSE cache

\* newBubbleForForward, and RegisterView for the sender.
SenderView(n) ==
  IF Primary(n)
  THEN RegisterView(NewBubble(cache, n, clock), n, wire[n].from,
                    <<wire[n].msg, wire[n].from>>, clock)
  ELSE cache

RegisterSender(n) ==
  /\ h[n].pc = "bubble"
  /\ cache' = SenderView(n)
  /\ h' = [h EXCEPT ![n].pc = "snapshot"]
  /\ UNCHANGED <<people, wire, copies, past, joins, counters>>

ActiveHashes == {u \in Users : roster[u] = "active"}

\* forwardToRoster: ActiveHashes.
Snapshot(n) ==
  /\ h[n].pc = "snapshot"
  /\ h' = [h EXCEPT ![n] = [pc |-> "fan", at |-> h[n].at, moved |-> h[n].moved,
                            target |-> h[n].target, reply |-> h[n].reply, sent |-> FALSE,
                            todo |-> ActiveHashes \ {wire[n].from}]]
  /\ UNCHANGED <<people, wire, copies, cache, past, joins, counters>>

\* stampReactorIdentity
Stamped(fields) == fields \cup (IF "reaction" \in fields THEN {"originator"} ELSE {})

\* Mutant of Rewritten: the reply's target is left as it came.
RewrittenOnlyDict(n, u) ==
  [fields |-> Stamped(Filtered(n)),
   dict   |-> IF h[n].target = NoBubble THEN wire[n].dict ELSE cache.views[h[n].target][u],
   reply  |-> wire[n].reply]

\* The closure of buildRewrite for recipient u, who has a view of the dict's
\* target: substituteDictTarget, substituteReplyHash, stripReplyHash.
Rewritten(n, u) ==
  LET strip == h[n].reply # NoBubble /\ ~ HasView(cache, h[n].reply, u)
  IN  [fields |-> Stamped(Filtered(n)) \ (IF strip THEN {"reply"} ELSE {}),
       dict   |-> IF h[n].target = NoBubble THEN wire[n].dict
                  ELSE cache.views[h[n].target][u],
       reply  |-> IF strip THEN NoId
                  ELSE IF h[n].reply = NoBubble THEN wire[n].reply
                  ELSE cache.views[h[n].reply][u]]

NoFields == [fields |-> {}, dict |-> NoId, reply |-> NoId]

\* Mutant of Skips: a text-only member gets no message that came with fields.
SkipsTextOnly(n, u) ==
  \/ h[n].target # NoBubble /\ ~ HasView(cache, h[n].target, u)
  \/ u \in textOnly /\ wire[n].shape.fields # {}

\* Mutant of Skips: a text-only member is sent what came without a text.
SkipsNoTextOnly(n, u) == h[n].target # NoBubble /\ ~ HasView(cache, h[n].target, u)

\* The recipient is passed over: no view of what a reaction is about, or text-only
\* and no text.
Skips(n, u) ==
  \/ h[n].target # NoBubble /\ ~ HasView(cache, h[n].target, u)
  \/ u \in textOnly /\ ~ HasBody(n)

\* The copy EnqueueBubble puts in the queue.
Copy(n, u) ==
  [st |-> "queued", body |-> HasBody(n), bubble |-> Primary(n),
   with |-> IF u \in textOnly THEN NoFields ELSE Rewritten(n, u)]

\* forwardToRoster: one recipient.
Forward(n, u) ==
  /\ Fanning(n)
  /\ u \in h[n].todo
  /\ copies' = IF Skips(n, u) THEN copies ELSE [copies EXCEPT ![n][u] = Copy(n, u)]
  /\ h' = [h EXCEPT ![n].todo = @ \ {u}, ![n].sent = @ \/ ~ Skips(n, u)]
  /\ UNCHANGED <<people, wire, cache, past, joins, counters>>

-----------------------------------------------------------------------------
(* History *)

\* persistLocked, whose error the caller ignores.
Persist ==
  \/ disk' = hist' /\ UNCHANGED saveFails
  \/ /\ Room
     /\ saveFails < MaxSaveFails
     /\ saveFails' = saveFails + 1
     /\ UNCHANGED disk

Logged(n) == [n |-> n, at |-> h[n].at]

\* Log.Append
AppendEntry(n) ==
  /\ hist' = LastOf(Append(hist, Logged(n)), Capacity)
  /\ log' = Append(log, Logged(n))
  /\ Persist

\* The goroutine ends; a message that reached somebody goes into the history.
Finish(n) ==
  /\ Fanning(n)
  /\ h[n].todo = {}
  /\ IF h[n].sent /\ wire[n].shape.text THEN AppendEntry(n) ELSE UNCHANGED past
  /\ h' = [h EXCEPT ![n] = Ended("", h[n].at, h[n].target)]
  /\ UNCHANGED <<people, wire, copies, cache, joins, counters>>

Handle(n) ==
  \/ CheckMember(n)
  \/ CheckPaused(n)
  \/ BuildRewrite(n)
  \/ RegisterSender(n)
  \/ Snapshot(n)
  \/ \E u \in Users : Forward(n, u)
  \/ Finish(n)

-----------------------------------------------------------------------------
(* The queue's workers *)

\* SendLXMF returns nil.  Over a link the recipient has proved that he has the copy; a
\* copy that fits one packet is broadcast and no more is heard of it.  A call that
\* fails leaves the copy queued: if the recipient got it all the same, it is under an
\* id nobody else knows.
Deliver(n, u) ==
  /\ Cardinality({id \in Ids : Sent(id[1], id[2])}) < MaxSends
  /\ copies[n][u] # NoCopy
  /\ copies[n][u].st = "queued"
  /\ \E here \in BOOLEAN :
       /\ here \/ wire[n].shape.fits
       /\ copies' = [copies EXCEPT ![n][u] =
            [st |-> IF copies[n][u].bubble THEN "sent" ELSE "done", here |-> here]]
  /\ UNCHANGED <<people, wire, h, cache, past, joins, counters>>

\* attempt: RegisterView for the recipient.
Register(n, u) ==
  /\ copies[n][u] # NoCopy
  /\ copies[n][u].st = "sent"
  /\ cache' = RegisterView(cache, n, u, <<n, u>>, clock)
  /\ copies' = [copies EXCEPT ![n][u].st = "done"]
  /\ UNCHANGED <<people, wire, h, past, joins, counters>>

-----------------------------------------------------------------------------
(* The process *)

\* What a restart finds of a copy in outbound.json: no fields, no bubble.  One that
\* was sent and is sent again has no bubble to record its new id in.
Reloaded(c) ==
  IF c = NoCopy THEN NoCopy
  ELSE IF c.st = "queued" THEN [c EXCEPT !.bubble = FALSE, !.with = NoFields]
  ELSE [c EXCEPT !.st = "done"]

Crash ==
  /\ Room
  /\ crashes < MaxCrashes
  /\ crashes' = crashes + 1
  /\ h' = [n \in Inbound |->
             IF Running(n) THEN Ended("", h[n].at, h[n].target) ELSE h[n]]
  /\ copies' = [n \in Inbound |-> [u \in Users |-> Reloaded(copies[n][u])]]
  /\ cache' = EmptyCache
  /\ hist' = disk
  /\ joins' = [j \in DOMAIN joins |->
                 IF joins[j].pc = "ended" THEN joins[j]
                 ELSE [joins[j] EXCEPT !.pc = "ended", !.stayed = FALSE]]
  /\ UNCHANGED <<people, wire, disk, log, saveFails, time, cmds>>

Tick ==
  /\ Room
  /\ clock' \in (clock + 1) .. MaxClock
  /\ ticks' = ticks + 1
  /\ UNCHANGED <<people, wire, h, copies, cache, past, joins, cmds, crashes>>

Init ==
  /\ roster = [u \in Users |-> IF u \in InitMembers THEN "active" ELSE "absent"]
  /\ textOnly = InitTextOnly
  /\ banned = {}
  /\ wire = <<>>
  /\ h = [n \in Inbound |-> Idle]
  /\ copies = [n \in Inbound |-> [u \in Users |-> NoCopy]]
  /\ cache = EmptyCache
  /\ hist = <<>>
  /\ disk = <<>>
  /\ joins = <<>>
  /\ clock = 0
  /\ log = <<>>
  /\ ticks = 0
  /\ cmds = 0
  /\ crashes = 0
  /\ saveFails = 0

Next ==
  \/ ReceiveNew
  \/ ReceiveAgain
  \/ \E n \in Inbound : Handle(n)
  \/ \E n \in Inbound, u \in Users : Deliver(n, u) \/ Register(n, u)
  \/ \E u \in Users :
       RemoveMember(u) \/ SetPaused(u) \/ SetTextOnly(u) \/ Ban(u) \/ Join(u)
  \/ \E j \in DOMAIN joins : ReplayRead(j) \/ ReplaySend(j)
  \/ Crash
  \/ Tick

Spec == Init /\ [][Next]_vars

-----------------------------------------------------------------------------
(* Properties *)

\* Type correctness.
TypeOK ==
  /\ roster \in [Users -> {"absent", "active", "paused"}]
  /\ textOnly \subseteq {u \in Users : roster[u] # "absent"}
  /\ banned \subseteq Users
  /\ Len(wire) <= MaxInbound
  /\ \A n \in DOMAIN wire : wire[n].msg \in 1 .. n /\ wire[n].from \in Users
  /\ \A n \in Inbound : h[n].target \in Inbound \cup {NoBubble}
  /\ Len(hist) <= Capacity
  /\ Messages(hist) \subseteq Messages(log)
  /\ DOMAIN cache.index \subseteq Ids

\* The gate of onLXMFReceived: although ban list, roster and pause flag are read at
\* different moments, the message of a sender nothing happened to meanwhile is
\* fanned out only if he is an active member.
GateHolds ==
  \A n \in Inbound :
    Fanning(n) /\ wire[n].from \notin h[n].moved
      => roster[wire[n].from] = "active" /\ wire[n].from \notin banned

\* forwardToRoster: when a fan-out is through, every member who was active all the
\* time, and whose flags nobody touched, has a copy queued, unless he is text-only
\* and there is no text, or it is a reaction to a known message; such a reaction
\* reaches at least the author of that message.
Reaches ==
  \A n \in Inbound, u \in Users :
    Fanning(n) /\ h[n].todo = {} =>
      \/ copies[n][u] # NoCopy
      \/ u = wire[n].from
      \/ u \in h[n].moved \/ roster[u] # "active"
      \/ u \in textOnly /\ ~ HasBody(n)
      \/ h[n].target # NoBubble /\ wire[h[n].target].from # u

\* u knows the message meant by this id.  Only a copy that was sent opportunistically
\* may never have come, as no proof is asked for it.
Names(u, id, meant) ==
  /\ Addressed(u, id)
  /\ MessageOf(id) = MessageOf(meant)
  /\ Shows(u, id) \/ wire[id[1]].shape.fits

\* buildRewrite: a copy of an annotation whose target was found names it by the
\* recipient's own id of the very message the sender meant; he has it on display
\* unless it was sent to him in a single packet that was lost, since attempt records
\* the id of such a copy as well.
AnnotationBinds ==
  \A n \in Inbound, u \in Users :
    copies[n][u] # NoCopy /\ copies[n][u].st = "queued" =>
      LET c == copies[n][u].with
      IN  /\ c.dict # NoId /\ h[n].target # NoBubble => Names(u, c.dict, wire[n].dict)
          /\ c.reply # NoId /\ Fanning(n) /\ h[n].reply # NoBubble =>
               Names(u, c.reply, wire[n].reply)

\* idmap: the keys never exceed the cap, whatever is sent late, received twice or
\* evicted meanwhile, since every key belongs to a bubble the LRU list can evict.
CacheConsistent ==
  /\ MaxKeys > 0 => Cardinality(DOMAIN cache.index) <= MaxKeys
  /\ \A id \in DOMAIN cache.index :
       LET b == cache.index[id]
       IN  Contains(cache.lru, b) /\ id \in Range(cache.views[b])

\* /join and replay: a member who stays gets every later message and the messages
\* of the history that are due; he misses one only if its fan-out was under way when
\* he joined.  A reaction's text may pass him over.
JoinerServed ==
  \A j \in DOMAIN joins, n \in Messages(log) :
    joins[j].stayed /\ joins[j].pc = "ended" /\ saveFails = 0 =>
      \/ copies[n][joins[j].user] # NoCopy
      \/ n \in joins[j].got
      \/ wire[n].from = joins[j].user
      \/ n \in joins[j].gone
      \/ n \in joins[j].flying
      \/ h[n].target # NoBubble

\* inbox.go and forward.go want no empty message delivered.  A copy has a body or
\* fields, but for two cases: the message was nothing but a reply to a message this
\* recipient has no view of, or a restart has dropped the fields.
EmptyMeansStripped ==
  \A n \in Inbound, u \in Users :
    copies[n][u] # NoCopy /\ copies[n][u].st = "queued" /\ crashes = 0 =>
      \/ copies[n][u].body \/ copies[n][u].with.fields # {}
      \/ Filtered(n) = {"reply"} /\ wire[n].reply # NoId
=============================================================================
