# Verification of the Reticulum forwarding service

TLA+ modules for the group-chat relay in `src/`: members send LXMF messages to
the service over Reticulum, and the service forwards them to every other active
member through a persistent outbound queue. The modules are checked with TLC on
small instances and, where marked, proved with TLAPS for all values of the
constants.

## 1. Inventory

| Component | Source (`src/internal/`) | State | Operations | What makes it correct |
|---|---|---|---|---|
| Outbound queue | `service/outbound.go` | `pending`, `inFlight`, `outbound.json` | `EnqueueBubble`, `pickDue`, `attempt`, `Load` | no message lost, sent by two workers, or retried for ever; order per recipient; drains |
| Transport | `rns/transport.go` | known identities, path-request window, interfaces | `handleAnnounce`, `RequestPath`, `dispatch`, `SendOverLink` | bounded tables; a path is asked for before a message is given up |
| Roster, bans | `roster/` | users, ban list, `state.json` | `AddOrUpdate`, `Remove`, `Ban`, `Set*`, `Prune` | cap, bans, roles, file equals memory |
| Commands | `commands/` | the `Caller` snapshot of a running command | `/join` … `/unban` | changes only by those entitled to them, although several commands run at once |
| Chat path | `service/inbox.go`, `forward.go`, `replay.go`, `history/` | history ring, `history.json` | `onLXMFReceived`, `forwardToRoster`, `replayHistoryTo` | each active member gets each message; newcomers get it once |
| Presence | `roster/`, `service/service.go` | four timestamps per user | `Touch`, `MarkMessage`, `UpdateLastAnnounce`, `Prune` | inactive members go, active ones stay |
| idmap, rewrite | `idmap/`, `service/rewrite.go` | bubbles and views, bounded | `RegisterView`, `Lookup`, `buildRewrite` | a reaction is rewritten to the recipient's own view |
| Links | `rns/link_state.go`, `link.go`, `link_data.go`, `transport.go` | link table, session keys, proof waiters, activity | `acquireLinkTo`, `SendOverLink`, `HandleLRProof`, `AcceptIncomingLinkRequest`, `handleLinkData`, `sweepLinks`, `CloseLink` | success means delivery; a proof in time wakes its call and no other; links do not pile up; a stale link costs few attempts |
| Resource transfer | `rns/resource_*.go` | parts, windows, hashmap | advertise, request, part, hashmap update, proof, cancel | all parts exactly once, termination |
| TCP interface | `rns/tcp_reconnect.go`, `tcp.go` | current connection, two inboxes, `closed`, `done` | `readLoop`, `pump`, `supervise`, `Send`, `Close` | frames in order, none lost while connected; reconnects; nothing runs after `Close` |
| Announce cache | `service/announces.go` | `announces.json` | `OnAnnounce`, `save`, `load` | a restart neither invents nor revives presence |
| Wire formats, cryptography, config | `rns/packet.go`, `identity.go`, `lxmf/message.go`, `config/` … | none | pure functions | not modelled, section 11 |

Interaction. The transport hands verified LXMF messages to
`onLXMFReceived`, **one goroutine per message** (`lxmf/delivery.go:253`). Commands
go to the dispatcher, which reads and writes the roster in several separate
critical sections; chat messages are fanned out to `ActiveHashes` by enqueueing
one message per recipient. Queue workers call `Delivery.SendWithID`, which sends a
packet or opens a link; announces update the known-identity table that the queue
reads to choose its next message, and the announce tap updates the roster.

What is hard: four workers and any number of handlers interleave; state read in one
critical section is used in the next; JSON files are rewritten after each change
and a failed write is only logged or reported late; the process may die between any
two steps; packets are lost, repeated and late. `PROJECT.json` lists these hazards
at their lines, with the property that would notice each.

## 2. Modules

| Module | Role |
|---|---|
| `OutboundQueue` | the queue, its workers, its file, crashes, and what it uses of the transport |
| `AtLeastOnce` | what the queue promises: the abstract specification it implements |
| `OutboundQueueProofs` | TLAPS proofs about `OutboundQueue` |
| `MCOutboundQueue` + `OutboundQueue*.cfg` | its instances for TLC |
| `Membership` | roster, ban list, `state.json`, the commands that change them, the announce tap, pruning, crashes |
| `MembershipProofs` | TLAPS proofs about `Membership` |
| `MCMembership` + `Membership*.cfg` | its instances for TLC |
| `Resource` | one Resource transfer over a link: sender, receiver, dispatch, transfer registry, network, close |
| `ResourceProofs` | TLAPS proofs about `Resource` |
| `MCResource` + `Resource*.cfg` | its instances for TLC |
| `IdMap` | the message-id cache as a value with its operations |
| `Chat` | a chat message from arrival to history: gate, rewrite, fan-out, replay, and the roster changes, late sends and crashes it meets; extends `IdMap` |
| `IdMapProofs` | what the operators of `IdMap` return, for the proofs about `Chat` |
| `ChatProofs` | TLAPS proofs about `Chat`; extends `IdMapProofs` |
| `MCChat` + `Chat*.cfg` | its instances for TLC |
| `Link` | the links between one process and one peer: callers, dispatcher, sweepers, network, faults |
| `LinkProofs` | TLAPS proofs about `Link` |
| `MCLink` + `LinkFaults.cfg` | its instance for TLC |
| `TcpReconnect` | the TCP interface: readers, pump, supervisor, senders, close, connections that drop |
| `TcpReconnectProofs` | TLAPS proofs about `TcpReconnect` |
| `MCTcpReconnect` + `TcpReconnect.cfg` | its instance for TLC |
| `Presence` | the times of the members, announces, the known-identity table, the prune sweep, both files |
| `PresenceProofs` | TLAPS proofs about `Presence` |
| `MCPresence` + `Presence.cfg` | its instance for TLC |

`Presence`, `Membership` and `Chat` look at the roster from three sides, times, roles
and audience, and each leaves the other two nondeterministic: `Prune` takes any set of
members in `Membership`, and a command is one roster change in `Chat`. In the same way
a send in `OutboundQueue` ends in any outcome, and `Link` and `Resource` show what
stands behind each.

### OutboundQueue

A step is one critical section of `q.mu`, one return of `SendLXMF` (made without
the mutex), or a crash followed by `Load`. `pending` is the slice: `slot[m]` is the
rank of the append, and reloading keeps it, so slice order is order of `slot`.
`disk` is `outbound.json`; `PersistLocked` is a conjunct of every action whose code
calls `persistLocked`, and may fail `MaxSaveFails` times. `attempt` is four steps:
`AttemptBegin` (count, unsaved), `SendLXMF`, `RegisterView`, and one of
`FinishOk`, `FinishFailed`, `FinishRetry`. `Restart` drops what JSON does not keep:
markers, fields, bubbles and idmap views.

`pickDue` is `PickDue` when no announce arrives during its scan. It asks
`LastAnnounceFor` once per entry, under `q.mu` only, and the transport writes
without it: `PickDueRacing` is a scan in which the chosen recipient announces, so
that entries read before and after disagree. An eviction in mid-scan is not
modelled; a torn read of `LastSeen` counts as the old or the new time.

Abstractions: times are `deferred` (before or after `NextAttempt`; the 7 s and 10 s
waits differ only in length) and the order of announces in `seen`; of a message's
content only matters whether it has a bubble (`WithBubble`); a send ends in one of the
outcomes the code distinguishes.

### Membership

A handler goroutine `p` carries `h[p]`: the command, its place, and the `Caller` that
`deriveCaller` read. Each roster call of a command is a step: `/join` is
`DeriveMember`, `JoinIsBanned`, `JoinLen`, `JoinAdd`, `JoinGet`, `JoinLookup`,
`JoinName`; a command on another user is `Resolve` and then an `Act…` step. The code
between two calls, such as the role tests (`Refuses`) and the self-lockout guard, is
part of the step that follows or precedes it. `users[u]` is the roster entry or
`Absent`, as in the Go map. Every mutation ends in `PersistLocked`; a failed save
leaves memory changed (`JoinAdd` then ends the handler with an error).

History variables only record: `raced` (banned while a join was past its ban
check), `peak[p]` (highest role of the sender since the command arrived), `chose`
(named with `/nick`). `Remember` updates them in every step.

Abstractions: nicknames are none, announced or chosen; a user argument is the hash
`Resolve` finds for it; Prune removes any set of members, because timestamps are
in `Presence`. Init is a `state.json` from an earlier run whose members
respect the cap.

### Resource

Both ends of a transfer run this code: `"S"` sends, `"R"` receives. At each end a
dispatcher goroutine (`Dispatch`) takes packets and puts them into the channels of
the goroutine that runs the transfer (`inbox`), which a `select` takes in any order
(`TakeReq`, `TakePart`, …). A packet stays in `net` until it is dispatched, so order
and delay are arbitrary; it may be lost, repeated, or, for the one kind that is not
encrypted, altered. `reg` is the registry of the `LinkManager`, `cancel` the tokens in
`cancelCh`. `CloseLink` and `openResourceReceiver` are two steps each, because the
code releases the link's mutex between them.

`hash[i]` is the map hash of part `i` and any map `BuildHashmap` accepts is allowed,
collisions beyond its guard included. `placed` says which part is in which slot;
`Assembles` is the comparison with the advertised SHA-256.

Abstractions: identical packets under way are one packet; channels are sets with a
capacity (`Cap`), as a `select` among several channels does not keep their common
order; the state "awaiting proof" is left out because nothing reads it; this code
never sends the sender-side cancel (ICL). The loss timer fires when nothing is under
way, and `MaxEarly` times although something is. There is one transfer per link: the
cap on concurrent transfers acts like a duplicate registration. A receiver that
`CloseLink` took out of the registry is taken to have seen its cancel token before a
receiver opened in the same instant starts.

### IdMap and Chat

`IdMap` has the four maps and lists of `idmap.go` in one record, and one operator per
method; each method holds `Cache.mu`, so an operator is a step of whoever uses it. `Only`,
a list without some of its elements, is a recursive function: what `SelectSeq` returns,
whose definition recurses over an operator argument, could be checked but not proved. A
bubble's views survive its eviction, because a handler or a queued message may still
hold the pointer and register or read through it.

`Chat` gives every inbound message a goroutine `h[n]` of its own. Its steps are the
critical sections of `onLXMFReceived`: `Arrives` (ban list), `CheckMember` (`Has`),
`CheckPaused` (`IsPaused`, then attachment policy and the test for an empty message),
`BuildRewrite` (`Lookup` of the targets), `RegisterSender` (new bubble, the sender's
own view), `Snapshot` (`ActiveHashes`), `Forward` once per recipient in any order (the
order of a Go map), and `Finish` (history). Between them members join, leave, pause,
mute attachments and are banned; a replay goroutine (`ReplayRead`, `ReplaySend`) runs
for each `/join`; workers deliver copies and register the ids (`Deliver`, `Register`);
the process crashes, and comes back without cache, fields and bubbles and with the
history of the last save.

`Deliver` is a `SendLXMF` that returns nil, and this does not always mean that the copy
came. A message that needs a link waits for a proof (`SendOverLink`, modelled in `Link`); a
copy of at most `MaxOpportunisticPayload` bytes is broadcast in one packet and no
proof is asked for (`lxmf/delivery.go:90-94`, `144-148`), yet `RegisterView` follows in both
cases (`service/outbound.go:315-322`). `here` says whether the copy came, and may be false
only for a message whose copies can fit a packet (`Shape.fits`). So a view may be
registered of a message its member never got, and an annotation may name that id:
`AnnotationBinds` says the member has the target on display, **or** the target was sent
to him in a single packet.

A message id is `<<n, u>>`: what user `u` calls message `n`. Senders may put any id
they have on display, or one nobody knows, into a reaction or reply. A message that is
received twice has two numbers and one id for its sender, as its hash is the same.

Abstractions: a text is present or not; a message has at most one of reaction, comment
and continuation; its two lookups are one step; a command is the one change it makes
to the roster (its own races are in `Membership`); retries and order of the queue are
in `OutboundQueue`; `Touch` and `MarkMessage` change only times, which nothing here
reads, and are in `Presence`. `ViewFor` reads a Go map that workers may be writing:
such a read either sees the view or not, which the steps' order covers, or ends the
process, which is one of the crashes. A cache that is turned off (`TTL = 0`) is not
modelled.

`moved`, `stayed`, `flying`, `gone` and `log` only record, for the properties, whom a
change touched during a fan-out and what a joining member may expect.

### Link

Callers (`Workers`, the queue's goroutines) run `SendOverLink` for one peer. `pc[w]` is
the place of a call: `Acquire` (reuse an Active link or open one), `StartLink` and
`AwaitActive` (handshake), `Prepare` (waiter registered), `Transmit`, and then `Proven`
or `ProofTimeout`; a payload over the link's MDU becomes a Resource (`Transfer`,
`TransferDone`, `TransferFails`), whose inside is `Resource`. The dispatcher of the
process and of the peer take one packet at a time (`Dispatch`); `handleLRProof` is two
steps, `FindLink` and `HandleLRProof`, as the manager's mutex is released between them. `ist`,
`ikey` is the initiator's end of a link, `rkey` the responder's. `SweepScan` takes the
snapshot of `sweepLinks` and each `SweepStep` carries out one of its actions.

A fault is one of: a packet lost, a packet repeated, an answer later than the deadline,
a `Broadcast` that fails, a Resource transfer that ends in an error other than a
deadline, a restart of the peer (which forgets its links), and its eviction from the
known-identity table. `fails[w]` counts the errors returned to `w`.

A failed transfer closes its link when the error is a deadline, and leaves it open when it
is a cancel of the receiver, a proof that does not match or a failed `Broadcast`
(`rns/transport.go:1016-1028`); `TransferFails` has both. While the peer is not in the
known-identity table no link can be opened, and each call returns an error at once
(`PeerUnknown`: `ErrRecipientUnknown` of `SendWithID`, `lxmf/delivery.go:120-123`, or
`ErrLinkPeerUnknown`, `rns/transport.go:1101-1104`). `refused[w]` counts these apart from
`fails[w]`: the queue counts both as failed attempts, and how many there are depends only
on how often it asks before the peer announces again, which its retry budget bounds and the
fault does not.

Abstractions: the session key is the number of the ephemeral key the responder minted;
what is encrypted with another key is dropped. LRRTT and LINKIDENTIFY are ignored by
this responder and left out. Time is in ticks that matter only to the sweepers. A
deadline passes when no answer can come any more, or as a fault ("slow").

### TcpReconnect

A step is one channel operation, one critical section, one access to an atomic flag or
one call on the socket. `inner[c]` and `inbox` are the channels of the connection and of
the wrapper; a goroutine that waits to send into one has its value at the end of it.
`supervise` goes through `PumpTake`/`PumpPush`/`PumpEnd`, `Withdraw`, `CheckClosed`,
`Backoff`, `Dial`, `Install`. `Close` is three steps, `CloseSwap`, `CloseTake`,
`CloseEnd`, and may fall between any two of the others. A connection drops with an end
of file or silently; the latter is noticed by a write or by the keepalive probes.

Abstractions: a frame is whole or a runt; HDLC escapes and backoff times are left out.

### Presence

The clock ticks in days, the scale of the cutoffs. An entry has the four times of a
`User`; `Touch`, `MarkMessage`, `Join` and `UpdateLastAnnounce` write them. A client emits
announces with the time of its own clock, which is off by anything from `Behind` to `Ahead`
(in the run a day late, right, or a day early; a client that never joins has a right clock,
as nobody reads its time), and any announce once emitted may be
received again at any time. `HandleAnnounce` is the whole handler: eviction, the replay
filter on the random hash, the table, the tap with its clamp to the receive time
(`At`), and the save of `announces.json`. `RunPrune` is the sweep. `Restart` loads both files and
drops announces older than `MaxAge`.

`seen`, `alive` and `spoke` record when a member was really there, announced itself and
wrote a chat message, each from the moment it is received; `forgot` holds members whose
record a failed write and a restart took, or whose message a restart cut short. A sweep
between `Touch` and `MarkMessage` sees the old time of the last message, which is the one
way it may take somebody who has just spoken; `PruneExact` names it.

## 3. Runs

All bounds are CONSTANTS named in the modules. `link_faults` checks for deadlock:
`Finished` is the only state in which nothing needs to happen. In the other runs the
system may rest (an empty queue, no command to handle, a transfer that is over, a
closed interface) and deadlock is not checked.

| Run | Instance | Shows |
|---|---|---|
| `queue_crash` | 2 messages to one recipient, 2 workers, 2 attempts, 2 crashes, 1 failed save, 1 announce | `OneSenderPerMessage`, `SendsBounded`, `GivenUpAfterEffort`, `AckedOncePerLife`, `FirstTriesInOrder`, `LostOnlyWhenStale` |
| `queue_promise` | fair; two messages with colliding IDs to two recipients, a known-table of 1, 3 attempts, 1 pathless try, 1 failed broadcast, 1 crash, no failed save | `KeepsPromise`: refinement of `AtLeastOnce`; `Drains`, `UnreachableWasAsked` |
| `members_roster` | 3 users, 2 handlers, cap 1; `/join /leave /ban /unban`, prune, crash, failed save | `RosterBounded` (at most one member too many), `BannedMemberRaced`, `DiskCurrent` |
| `members_authority` | a config admin and a runtime admin against each other; roles, kicks, nicknames, flags, announces | `AuthorityWasHeld`, `UserModeKeepsSender` |
| `resource_transfer` | 5 parts in segments of 4 and 1, windows of 1, distinct and colliding map hashes; 1 failed send, 1 altered proof, 1 early timer, 1 repeated advertisement, either link closed | `DeliveredIntact`, `SuccessIsDelivery`, `HashmapTrue`, `CorruptMeansCollision`, `CancelHasCause`, `StoppedByClose` |
| `resource_progress` | fair; 3 parts in segments of 2 and 1, windows of 2, 1 packet lost, 1 repeated, 1 early timer | `NeverStuck` |
| `chat_join` | 2 messages handled at once (a text, an image over the limit, a text over the limit, a bare reply), 2 members and a newcomer, 4 events of which 2 are commands, 1 crash and 1 failed save, history of 1 | `TypeOK`, `GateHolds`, `Reaches`, `JoinerServed`, `EmptyMeansStripped` |
| `chat_rewrite` | 3 messages, reactions and replies, one of them repeated; 1 copy sent at any moment (a view of the sender comes with each message besides), a cache of 2 keys that expire, a crash; one member text-only; texts that fit one packet, whose copies may be lost, and one that needs a link | `AnnotationBinds`, `CacheConsistent`, `Reaches` |
| `link_faults` | fair; 2 callers, one also with Resources, 4 links, 1 fault of any of seven kinds, 1 refused call, keepalive after 1 tick, idle after 2 | `SuccessIsDelivered`, `ProofWakes`, `LinksBounded`, `FaultCost`, `Recovers`, `HalfOpenFreed` |
| `tcp_reconnect` | fair; 3 connections, inboxes of 1, 4 frames of which one is a runt, 2 sends, 1 failed dial, a Close at any moment | `FramesIntact`, `Reconnects`, `CloseStops` |
| `presence` | a member and another client, 3 days, cutoffs of 1 and 2 days, clocks right or off by a day, 2 announces received at will, 3 messages, a table of 1, a failed write, a restart | `PruneExact` |

Why these bounds: two workers and two messages exhibit every pair of critical
sections; two attempts separate a first, a last and a retried attempt; two crashes
allow a crash of what a crash left behind; one failed save makes the file stale
once, and the proofs cover any number. For the cap, three users and two handlers
leave room to exceed the bound if the test were missing. Five parts and segments
of four are the smallest transfer with a second, shorter segment in which a map hash
can repeat beyond a guard of two, both at the end of the body and at the end of a
segment.

For the chat, two messages at once and a joining member are what it takes for a fan-out
to be overtaken by a join, its replay and another message's append; a history of one
entry drops something with every second message. The second run handles one message at
a time, since what races there are the workers: three messages are needed to put a
reaction after an eviction, and a cache of two keys evicts with every message. `MaxEvents`
bounds messages, commands, ticks of the clock, crashes and failed saves together, so
that each mixture of four occurs.

For the links, two callers are what it takes to share a link, to open two at once and to
close one under the other; four links let both open a second one after a fault. Three
connections are a first one, one that replaces it and drops again, and one that stays;
inboxes of one are full with the first frame. Three days are more than either cutoff, and
two announces with a table of one allow an announce to be evicted and received again.

One run shows a disagreement between the code and its documentation:

| Run | The text | The behaviour |
|---|---|---|
| `members_nick` | "announce-derived names never overwrite" | a `/nick` between the tap's `Get` and `SetNickname` is lost |

Others are stated as what does hold, in a property of a passing run that names the
exception exactly:

* `BannedMemberRaced`: "future `/join`s … refused" (`README.md:287`) holds but for a ban
  between the ban check of a join and its add.
* `RosterBounded`: "`/join` past the cap is refused" holds up to the number of commands
  handled at once.
* `CancelHasCause`: `HandleCancel` says the receiver "has refused or aborted"; a repeated
  advertisement is also answered with a cancel while its transfer runs
  (`rns/resource_dispatch.go:78`).
* `CancelHasCause`, once more: the comment on `applyHmu` says that after a hashmap segment with
  the wrong index "the caller will RCL and abandon" (`rns/resource_receiver.go:453-454`), and so
  does the security audit (`docs/resource-security-audit.md:216-218`, "log + RCL + abandon"). The
  caller only logs and goes on (`rns/resource_receiver.go:325-328`), and the property holds of
  that: a late or repeated segment cancels nothing. The behaviour in the text would
  end healthy transfers.
* `AnnotationBinds`: "each recipient's own view" of a target (`service/rewrite.go:10`) is registered
  when the copy was sent, which for a copy in a single packet is not when it came.
* `Reconnects`: "No automatic TCP reconnect" under the limitations (`README.md:757-760`) is out of
  date; the log table of the same file (`README.md:546-547`) and `rns/tcp_reconnect.go` have it,
  and the property holds.
* `EmptyMeansStripped`: the test for an empty message (`service/inbox.go:149`) comes before
  the rewrite; a reply with neither text nor quote loses its target for a recipient
  without a view of it, and is queued empty. Nothing else is.
* `CloseStops`: `Close` while `supervise` is dialling leaves the new connection open
  (`rns/tcp_reconnect.go:200-201`), and a reader that waits for room stays.
* `FaultCost`: closing a link that failed, so that the retry opens a fresh one
  (`rns/transport.go:1077-1079`), holds per link: a retry may get another caller's link of
  the same age, and a fault costs up to one attempt per caller. Calls refused because the
  peer is unknown come on top: after an eviction every attempt fails until it announces.

Four smaller observations: a keepalive counts as activity at the end that sends it
(`rns/transport.go:1334-1338`), so an idle initiator link to a peer that forgot it
ends by the time-out of a call and not by the sweep; the comment at
`roster/roster.go:228` says commands count for `LastSpoke`, the code leaves them out,
and `PruneExact` follows the code; and the history is in the order of the appends, which
need not be that of the stamps (`history/log.go:67`), as each message has its goroutine; and
"no `/promote` or `/demote` runtime command", admins and mods "config-only" (`README.md:628`),
dates from before `/usermode`, which `members_authority` runs.
`Reloaded` models that a reaction queued before a restart is sent empty after it, which
`service/outbound.go:51-53` accepts.

## 4. Fairness

`queue_promise`: every worker keeps picking and finishing
attempts (`workerLoop` polls on a ticker and `SendLXMF` is bounded by the link
timeout), and time passes every `NextAttempt`. Callers, announces and crashes are
not fair, and crashes are bounded: a process that dies for ever drains nothing.

`resource_progress`: both transfer goroutines take what is in their channels, both
dispatchers take what the network delivers, and the advertisement and loss timers
fire. Nothing is assumed of deadlines and closes (they are allowed, and end the
transfer), and the network loses at most `MaxLosses` packets: the code's timers are
unbounded retries only as long as some packet gets through.

`link_faults`: each caller goes on (its waits end at a deadline), the dispatchers take
every kind of packet that the network does not lose, the sweepers run and time passes, and an
evicted peer announces itself again, as every node does periodically. Faults are not
fair and bounded by `MaxFaults`.

`tcp_reconnect`: goroutines that can run do, Transport takes frames from the outer inbox,
the operating system probes a silent connection, and `Close`, once called, goes on.
Nothing makes anybody call `Close` or `Send`, and nothing makes a connection drop; a
dial fails at most `MaxDialFails` times, and the last connection of the bound stays.

## 5. Proofs: OutboundQueue

`OutboundQueueProofs` proves, for all messages, workers, IDs (colliding or not) and
bounds, the type invariant, the safety properties of the passing runs, two more
(`BackOnlyWhenStale`, `ViewBeforeRemoval`) and the refinement. Assumptions: the named ASSUMEs of the module; for the
refinement, `MaxSaveFails = 0`.

The inductive invariant `IInv` is needed because none of the properties is
inductive: `Markers` (an ID is in `inFlight` exactly while a worker holds a message
with it) gives one sender per message; `File` says `disk` is the queue unless
`lag > 0`; `Counts` and `Effort` bound sends by attempts from both sides, in memory
and in the file, and distinguish a message whose current attempt has been counted
but not sent; `Acks` says an acknowledged message still queued is held by the worker
that will remove it; `Order`, `Views` and `Asked` carry the remaining three.

## 6. Proofs: Membership

`MembershipProofs` proves the type invariant and all properties of the passing runs for any users,
any number of concurrent handlers, any crashes and failed saves.

* `TypeCorrect`: by one lemma per roster operation and per action.
* `FileIsCurrent`: every step saves, keeps, or reloads.
* `BoundedRoster`: `Cap` counts members **plus** handlers standing between `Len` and
  `AddOrUpdate`: a handler gets there only while the roster is below the cap, and
  there are at most `Cardinality(Procs)` of them; adding turns one into a member. The
  same bound holds of the file, for restarts.
* `OnlyRacingBans`: `Bans` extends the property to the file and to joiners past their
  ban check.
* `OnlyWithAuthority`, `NoSelfLockout`: `Auth` says a handler's role never exceeds what
  its sender held since the command arrived, and that a handler about to act passed
  its tests.

`HandleMoves` and `HandleRoster` summarise what one step of a handler does; the
invariant proofs use only these summaries.

## 7. Proofs: Resource

`ResourceProofs` proves the type invariant and the six invariants of `resource_transfer` for any number of
parts, any segment length, window and guard, any hashmap `BuildHashmap` accepts,
and any number of lost, repeated, altered or late packets.

* `TypeCorrect`, `TrueHashmap`: `Typed` adds to the type invariant that the known
  hashmap is a beginning of the sender's that consists of whole segments or is complete
  (`Prefix`). That last part is what makes `applyHmu` safe: its test of the segment's
  index says nothing once the shorter last segment has arrived, and only the test of
  the length rejects a repetition (`HmuExtends`).
* `IntactDelivery`, `OnlyCollisionsCorrupt`, `DeliveredSuccess`: `Delivery` says that a
  slot holds a part with the slot's map hash, so that parts that do not assemble
  exhibit two equal map hashes; and that a good proof exists, in the network or in
  `prfCh`, only after a body was handed on.
* `CausedCancel`, `ClosedStops`: `Causes` traces each cancel token back to a closed
  link, to parts that did not assemble or to a second advertisement, and says that a
  running transfer is registered or already has its token.

## 8. Proofs: Link, Presence, TcpReconnect

`LinkProofs`, for any number of callers, links, copies and faults:

* `SuccessDelivered`, `ProofsWake`, `TypeCorrect`: `Waiting` says the waiters of a link are
  the current calls of the callers that wait there, and `OnWire` that no packet, proof or
  record of a call exists before its caller has sent it. The second is why registering the
  waiter before `Broadcast` suffices.
* `HandshakeOnce`: a link is opened once and closed once, and an Active link keeps its
  keys, whichever LRPROOFs arrive (`OneHandshake`).
* `BoundedLinks`: `Owner(own)` gives every caller at most one link of the manager, the last it
  opened, and every registered link an owner; a caller about to open one has none. So
  there are at most as many links as callers.
* `FaultsPriced`: `Good(k)` says that the calls on `k` succeed if nothing goes wrong any
  more. It has three parts: the handshake is done or its next packet is on the way with
  the peer's key (`Shakes`); the peer's end is no older than this one or a keepalive is on
  the way, so neither sweeper will close it (`Lives`); each call on it has sealed its packet
  with the peer's key, and the packet or its proof is on the way (`Answers`). Every
  step that is no fault preserves it, and a new link has it if the peer is known. `Spoiled(own, D)`
  is the account: all links are good but those whose owner is in `D`, and for every caller,
  its failures so far (refused calls apart), plus the size of `D`, plus one if the link of its call is closed, are
  at most `faults` times the number of callers. A fault puts everybody into `D`. A call that
  gives up on a link without a further fault, and a sweeper that closes one, prove that the
  link was not good; its owner leaves `D`, which pays for the failures of all calls
  on it. `Still` says that a refused call touches none of this. A link that is not good may have several calls on it, which is why the price of a fault
  is one attempt per caller and not one.

`PresenceProofs`, for any users, cutoffs, clock errors and bounds: `SweepExact` follows from
two invariants in opposite directions. `Claims` says no entry, in memory or in the file, has
a time later than the member's last sign of life (plus the lead of its clock): this is
where the clamp in the tap is needed. `Records` says that an entry not set back by a restart
misses none (minus the lag of its clock), but for a message between `Touch` and `MarkMessage`.

`TcpReconnectProofs`, for any capacities, connections, frames and senders:

* `TypeCorrect` bounds both channels by their capacity and the one frame in a goroutine's
  hand. `InHand` is the strengthening: only a goroutine that waits has its frame beyond the
  capacity. `InOrder` says connections are dialled in order and that all goroutines work on
  dialled ones.
* `IntactFrames`: `Flow` says that what Transport has taken, the inbox of the wrapper, the inbox
  of the current connection and its wire hold, in this order, increasing frames, each older
  than those of the next stage (`Stages`), and that every whole frame of a connection that is up is
  in this pipe; `OneUp` that only the connection `supervise` works on is up, none while it
  redials, and that a connection not yet dialled holds nothing. `supervise` redials only after its
  pump has ended and the old connection is shut, so nothing of the old connection can still
  enter the inbox when the new one starts to fill the pipe.

## 9. Proofs: Chat and IdMap

`IdMapProofs` states what `Only`, `Removed`, `EnforceCap`, `EvictExpired`, `RegisterView` and
`LookedUp` return: types, the views they keep, that every key stays anchored in a bubble of
the LRU list which has a view with that key (`Anchored`), and that the keys stay within the
cap (`Bounded`). Facts about recursive functions over a list are proved by the least index at which
one would fail, as the prover has no induction over an operator.

`LossOfSmallOnly` is proved on top of the invariant: a view is of a message on display, or of one
whose copies fit a single packet. `AnnotationsBind` rests on it.

`ChatProofs` proves all seven invariants of the two runs for any users, messages, ids, commands, crashes,
history capacity and cache size. The invariant `IInv` has

* `Each(n)`, what holds of one message: the checks made so far still hold of a sender nothing
  happened to (`Gate`); nobody has a copy before his turn (`Turns`); past the attachment
  policy something is left to send (`Something`); what a lookup found is what the message is
  about, and its author has a view of it (`Found`, `Pending`); who was active all the time is
  served or still to come (`Reached`); copies name their recipient's ids of the message meant (`Binds`) and are not empty
  (`Strips`); and who joined before the fan-out reads the roster is served (`Later`);
* `Views`: a view is the id of the copy that was sent to its member, and the author's is recorded first.
  This is what `SenderView`, placed before the snapshot, buys: without it `Reached` fails;
* `LogKept`: while every write succeeds the history is the end of the log, in memory and in
  the file, so that a crash changes nothing a replay could read;
* `Replays(j)`: once a replay has read the history, each message of the log is served to its
  member or left to send;
* types, the wire, and the cache (`Anchored`, `Bounded`).

A step is about one message, or about none. `Env` and `Apart` say what it leaves of the
others, from which `ApartKeeps` gives `Each` for all of them at once; `Keeps` and `SameJoin`
do the same for `Replays`. The assumption `AbsenceAssumption` (in `Chat`) says that the values for "no id", "no
bubble" and "no copy" are none of the ids, bubbles and copies, as `nil` is in the code.

## 10. Only model-checked

Liveness, which is outside what TLAPS is used for here: `Drains`, `NeverStuck`, `Recovers`,
`HalfOpenFreed`, `Reconnects`, `CloseStops`. Every invariant and every action property of the passing runs is
proved.

The violation run is a counterexample and has no proof. `TypeOK` of the queue, the
roster, the resources, the links, the TCP interface and the presence is proved and not repeated in a run.

## 11. What is left

Worth proving next: what the liveness properties rest on, such as that a queue with a due
message and an idle worker has an enabled step other than a crash, and that an interface
without a connection is always on its way to a dial.

Worth modelling next: answering path requests for the service's own destination and
opportunistic DATA packets, the parts of the transport no module has.

Not modelled:

* byte layouts, encryption and signatures: no control state, tested against vectors;
* `Resolve`, `SanitizeNickname`, `fitList` and the attachment limits as functions on text:
  they keep no state; their callers are modelled with what they can return;
* configuration parsing and process start: the values are the CONSTANTS;
* logging and reply texts.
