------------------------------ MODULE Resource ------------------------------
(***************************************************************************)
(* One Resource transfer over a Link: the way a message larger than one    *)
(* link packet travels (internal/rns/resource_sender.go, _receiver.go,     *)
(* _dispatch.go and the transfer registry of link_state.go).               *)
(*                                                                         *)
(* Both ends run this code.  "S" is the transport that sends, "R" the one  *)
(* that receives; each has its own view of the link, its own registry, one *)
(* dispatcher goroutine and one goroutine for the transfer.  A packet is   *)
(* in net until the dispatcher of its end takes it, and in inbox while it  *)
(* waits in a channel of the transfer's goroutine.  The order of packets   *)
(* is arbitrary on the way, so channels are sets with a capacity.          *)
(***************************************************************************)
EXTENDS Integers, Sequences, FiniteSets

CONSTANTS
  N,              \* number of parts of the body
  Seg,            \* HashmapMaxLen: map hashes in one hashmap segment
  Window,         \* ReceiverWindowMaxOutstanding: parts asked for in one REQ
  Guard,          \* CollisionGuardSize: slots in which a part is looked for
  Hashmaps,       \* the hashmaps BuildHashmap may return
  Cap,            \* capacity of the channel for each kind of packet
  MaxAdvRetries,  \* advertisements repeated before the first REQ
  MaxLosses,      \* bound: packets lost on the way
  MaxDups,        \* bound: packets delivered twice
  MaxGarbled,     \* bound: proofs altered on the way
  MaxSendFails,   \* bound: calls of Broadcast that fail
  MaxEarly,       \* bound: loss timers that fire with an answer on the way
  Closers,        \* the ends whose link may be closed by someone else
  None            \* no last_map_hash

VARIABLES
  hash,       \* the sender's hashmap, one map hash per part
  link,       \* what each end knows of the link
  snd,        \* state of the sender, or the error Run returned
  retries,    \* Run's advRetries
  rcv,        \* state of the receiver
  map,        \* the receiver's hashmap, as far as it is known
  placed,     \* the receiver's parts: which part is in which slot
  target,     \* pendingTarget
  opening,    \* R's dispatcher is inside openResourceReceiver
  reg,        \* the ends whose transfer is in the LinkManager's registry
  cancel,     \* the ends with a token in cancelCh
  net,        \* packets on the way
  inbox,      \* packets in the channels of the two goroutines
  bodies,     \* what OnAssembled was given
  advs,       \* history: advertisements that reached openResourceReceiver
  losses, dups, garbled, sendFails, early

sender   == <<snd, retries>>
receiver == <<rcv, map, placed, target>>
faults   == <<losses, dups, garbled, sendFails, early>>
vars     == <<hash, link, sender, receiver, opening, reg, cancel, net, inbox,
              bodies, advs, faults>>

Parts  == 1..N
Hashes == UNION {{h[i] : i \in Parts} : h \in Hashmaps}
Kinds  == {"adv", "req", "part", "hmu", "prf", "rcl"}

\* BuildHashmap refuses a map hash that repeats one of the Guard before it.
ASSUME ResourceAssumption ==
  /\ N \in Nat \ {0} /\ Seg \in Nat \ {0} /\ Window \in Nat \ {0}
  /\ Guard \in Nat /\ Guard > Window
  /\ \A h \in Hashmaps :
       /\ h \in Seq(Hashes) /\ Len(h) = N
       /\ \A i, j \in 1..N : i < j /\ j <= i + Guard => h[i] # h[j]
  /\ Cap \in [Kinds -> Nat] /\ MaxAdvRetries \in Nat
  /\ MaxLosses \in Nat /\ MaxDups \in Nat /\ MaxGarbled \in Nat
  /\ MaxSendFails \in Nat /\ MaxEarly \in Nat /\ Closers \subseteq {"S", "R"}
  /\ None \notin Hashes

-----------------------------------------------------------------------------
(* Packets *)

Adv            == [kind |-> "adv"]
Req(want, last) == [kind |-> "req", want |-> want, last |-> last]
Part(i)        == [kind |-> "part", part |-> i]
Hmu(s)         == [kind |-> "hmu", seg |-> s]
Prf(ok)        == [kind |-> "prf", ok |-> ok]
Rcl            == [kind |-> "rcl"]

To(p) == IF p.kind \in {"req", "prf", "rcl"} THEN "S" ELSE "R"

\* Transport.Broadcast of some packets, and its error when an interface fails:
\* the packet may have left through another one.
Broadcast(ps) == net' = net \cup ps /\ UNCHANGED sendFails
BroadcastFails(ps) ==
  /\ ps # {} /\ sendFails < MaxSendFails
  /\ sendFails' = sendFails + 1
  /\ \E sent \in SUBSET ps : net' = net \cup sent

-----------------------------------------------------------------------------
(* The sender: SendResourceOverLink and ResourceSender.Run *)

SenderRuns   == snd \in {"advertised", "transferring"}
ReceiverRuns == rcv = "transferring"
Runs(e)      == IF e = "S" THEN SenderRuns ELSE ReceiverRuns

\* Return from Run: the deferred unregisterResource; the channels are garbage.
SenderReturns(result) ==
  /\ snd' = result
  /\ reg' = reg \ {"S"}
  /\ inbox' = {p \in inbox : To(p) # "S"}

\* NewResourceSender: the link must be active at this moment.
NewResourceSender ==
  /\ snd = "idle" /\ link["S"] = "active"
  /\ snd' = "queued"
  /\ UNCHANGED <<hash, link, retries, receiver, opening, reg, cancel, net, inbox,
                 bodies, advs, faults>>

\* registerResourceSender, then Run up to its loop: the first advertisement.
StartSender ==
  /\ snd = "queued"
  /\ \/ /\ Broadcast({Adv})
        /\ snd' = "advertised" /\ reg' = reg \cup {"S"}
        /\ UNCHANGED inbox
     \/ BroadcastFails({Adv}) /\ SenderReturns("unsent")
  /\ UNCHANGED <<hash, link, retries, receiver, opening, cancel, bodies, advs,
                 losses, dups, garbled, early>>

\* SendOverLink closes the link when the transfer timed out.
TornDown == link' = [link EXCEPT !["S"] = IF @ = "active" THEN "closing" ELSE @]

\* advTimer: repeat the advertisement, at most MaxAdvRetries times.
AdvTimer ==
  /\ snd = "advertised"
  /\ retries' = retries + 1
  /\ \/ /\ retries < MaxAdvRetries
        /\ \/ Broadcast({Adv}) /\ UNCHANGED <<snd, reg, inbox>>
           \/ BroadcastFails({Adv}) /\ SenderReturns("unsent")
        /\ UNCHANGED link
     \/ /\ retries = MaxAdvRetries
        /\ SenderReturns("timeout") /\ TornDown
        /\ UNCHANGED <<net, sendFails>>
  /\ UNCHANGED <<hash, receiver, opening, cancel, bodies, advs, losses, dups, garbled, early>>

\* findPartByMapHash: part i is the first with its map hash.
IsFirst(i) == \A j \in 1..(i - 1) : hash[j] # hash[i]

\* fulfillRequest: the parts a REQ asks for.
Served(p) == {Part(i) : i \in {j \in Parts : IsFirst(j) /\ hash[j] \in p.want}}

\* serveHmu: the segment after part k, where last_map_hash is found.  Part k must
\* end a segment.
Sequenced(k) == k % Seg = 0 /\ k < N
HmuFor(p)    ==
  {Hmu(k \div Seg) : k \in {j \in Parts : IsFirst(j) /\ hash[j] = p.last /\ Sequenced(j)}}

\* A REQ is taken from reqCh: the parts, then the segment if one is asked for.
TakeReq(p) ==
  /\ SenderRuns /\ p \in inbox /\ p.kind = "req"
  /\ \/ /\ p.last = None \/ HmuFor(p) # {}
        /\ Broadcast(Served(p) \cup HmuFor(p))
        /\ snd' = "transferring" /\ inbox' = inbox \ {p} /\ UNCHANGED reg
     \/ /\ p.last # None /\ HmuFor(p) = {}
        /\ Broadcast(Served(p)) /\ SenderReturns("sequencing")
     \/ BroadcastFails(Served(p) \cup HmuFor(p)) /\ SenderReturns("unsent")
  /\ UNCHANGED <<hash, link, retries, receiver, opening, cancel, bodies, advs,
                 losses, dups, garbled, early>>

\* A PRF is taken from prfCh and compared with the expected proof.
TakePrf(p) ==
  /\ SenderRuns /\ p \in inbox /\ p.kind = "prf"
  /\ SenderReturns(IF p.ok THEN "complete" ELSE "mismatch")
  /\ UNCHANGED <<hash, link, retries, receiver, opening, cancel, net, bodies, advs, faults>>

SenderCancelled ==
  /\ SenderRuns /\ "S" \in cancel
  /\ SenderReturns("cancelled")
  /\ cancel' = cancel \ {"S"}
  /\ UNCHANGED <<hash, link, retries, receiver, opening, net, bodies, advs, faults>>

\* ctx.Done: the caller's deadline, after which SendOverLink closes the link.
SenderDeadline ==
  /\ SenderRuns
  /\ SenderReturns("deadline") /\ TornDown
  /\ UNCHANGED <<hash, retries, receiver, opening, cancel, net, bodies, advs, faults>>

-----------------------------------------------------------------------------
(* The receiver: openResourceReceiver and ResourceReceiver.Run *)

ReceiverReturns(result) ==
  /\ rcv' = result
  /\ reg' = reg \ {"R"}

\* requestNextWindow: the first Window missing parts whose map hash is known.
Missing(mp, pl)   == (1..Len(mp)) \ DOMAIN pl
Wanted(mp, pl)    ==
  {i \in Missing(mp, pl) : Cardinality({j \in Missing(mp, pl) : j < i}) < Window}
\* Mutant: requestNextWindow never asks for more of the hashmap.
ExhaustedNever(mp, pl) == FALSE

Exhausted(mp, pl) == Missing(mp, pl) = {} /\ Len(mp) < N
NextReq(mp, pl)   ==
  Req({mp[i] : i \in Wanted(mp, pl)},
      IF Exhausted(mp, pl) THEN mp[Len(mp)] ELSE None)

\* requestNextWindow in the receive loop, where a failing Broadcast is only
\* logged.  There is always something to ask for: the loop runs while a part is
\* missing, and an empty window then means the known hashmap is used up.
RequestNextWindow(mp, pl) ==
  /\ target' = Cardinality(DOMAIN pl) + Cardinality(Wanted(mp, pl))
  /\ Broadcast({NextReq(mp, pl)}) \/ BroadcastFails({NextReq(mp, pl)})

\* broadcastResourceCancel, which the receiver only logs when it fails.
CancelSender ==
  \/ /\ link["R"] = "active"
     /\ Broadcast({Rcl}) \/ BroadcastFails({Rcl})
  \/ link["R"] # "active" /\ UNCHANGED <<net, sendFails>>

\* openResourceReceiver reads the state of the link ...
OpenReceiver(p) ==
  /\ p.kind = "adv" /\ ~opening /\ link["R"] = "active"
  /\ opening' = TRUE
  /\ advs' = advs + 1
  /\ UNCHANGED <<cancel, inbox>>

\* ... and later registers the receiver, which starts with the first segment of
\* the hashmap and its first REQ.  When one is registered already (or too many
\* are), handleResourceAdv answers with a cancel, if the link is still active.
\* A receiver that CloseLink took out of the registry has its cancel token, and is
\* taken to have left before the next one starts.
FirstMap == SubSeq(hash, 1, IF Seg < N THEN Seg ELSE N)

RegisterReceiver ==
  /\ opening /\ opening' = FALSE
  /\ \/ /\ "R" \notin reg
        /\ ~ReceiverRuns
        /\ map' = FirstMap /\ placed' = <<>>
        /\ target' = Cardinality(Wanted(FirstMap, <<>>))
        /\ cancel' = cancel \ {"R"} /\ inbox' = {p \in inbox : To(p) # "R"}
        /\ \/ /\ Broadcast({NextReq(FirstMap, <<>>)})
              /\ rcv' = "transferring" /\ reg' = reg \cup {"R"}
           \/ BroadcastFails({NextReq(FirstMap, <<>>)}) /\ ReceiverReturns("failed")
     \/ /\ "R" \in reg
        /\ CancelSender
        /\ UNCHANGED <<receiver, reg, cancel, inbox>>
  /\ UNCHANGED <<hash, link, sender, bodies, advs, losses, dups, garbled, early>>

\* lossRecoveryInterval without a part: ask again for what is missing.  The timer
\* may fire although the request or its answer is only late.
Pending == {p \in net \cup inbox : p.kind \in {"req", "part", "hmu"}}

LossTimer ==
  /\ ReceiverRuns
  /\ \/ Pending = {} /\ UNCHANGED early
     \/ Pending # {} /\ early < MaxEarly /\ early' = early + 1
  /\ RequestNextWindow(map, placed)
  /\ UNCHANGED <<hash, link, sender, rcv, map, placed, opening, reg, cancel, inbox,
                 bodies, advs, losses, dups, garbled>>

\* placePart: the slots from the frontier on, at most Guard, with the map hash
\* of the part.
Frontier == Cardinality({i \in Parts : 1..i \subseteq DOMAIN placed})
Base     == IF Frontier = 0 THEN 1 ELSE Frontier
\* Mutant: the next free slot, whatever its map hash.
SlotsInOrder(i) == {j \in 1..Len(map) : j >= Base /\ j < Base + Guard}

Slots(i) == {j \in 1..Len(map) : j >= Base /\ j < Base + Guard /\ map[j] = hash[i]}

WindowComplete(pl) == Cardinality(DOMAIN pl) >= target

\* Mutant: assemble without the comparison of hashes.
AssemblesAlways(pl) == TRUE

\* assemble: every part in its place, or the hash of the body differs.
Assembles(pl) == \A i \in Parts : pl[i] = i

\* Mutant: the proof goes out before the body is verified.
AssembleProved(pl) ==
  /\ ReceiverReturns(IF Assembles(pl) THEN "complete" ELSE "corrupt")
  /\ Broadcast({Prf(TRUE)})
  /\ bodies' = IF Assembles(pl) THEN Append(bodies, pl) ELSE bodies
  /\ inbox' = {p \in inbox : To(p) # "R"}
  /\ UNCHANGED target

\* A part that filled the last slot: assemble, then proof and body, or a cancel.
Assemble(pl) ==
  /\ \/ /\ Assembles(pl)
        /\ ReceiverReturns("complete")
        /\ Broadcast({Prf(TRUE)}) \/ BroadcastFails({Prf(TRUE)})
        /\ bodies' = Append(bodies, pl)
     \/ /\ ~Assembles(pl)
        /\ ReceiverReturns("corrupt")
        /\ CancelSender
        /\ UNCHANGED bodies
  /\ inbox' = {p \in inbox : To(p) # "R"}
  /\ UNCHANGED target

\* The receiver's parts with part i in this slot.
Put(slot, i) == [j \in DOMAIN placed \cup {slot} |-> IF j = slot THEN i ELSE placed[j]]

\* Mutant: a part that finds no free slot, as when it is repeated, fails the transfer.
TakePartAborts(p) ==
  /\ ReceiverRuns /\ p \in inbox /\ p.kind = "part"
  /\ LET free == Slots(p.part) \ DOMAIN placed IN
     \/ /\ free = {}
        /\ ReceiverReturns("failed") /\ CancelSender
        /\ inbox' = {q \in inbox : To(q) # "R"}
        /\ UNCHANGED <<placed, target, bodies>>
     \/ \E slot \in free :
          /\ \A j \in free : slot <= j
          /\ placed' = Put(slot, p.part)
          /\ \/ DOMAIN placed' = Parts /\ Assemble(placed')
             \/ /\ DOMAIN placed' # Parts
                /\ \/ WindowComplete(placed') /\ RequestNextWindow(map, placed')
                   \/ ~WindowComplete(placed') /\ UNCHANGED <<target, net, sendFails>>
                /\ inbox' = inbox \ {p}
                /\ UNCHANGED <<rcv, reg, bodies>>
  /\ UNCHANGED <<hash, link, sender, map, opening, cancel, advs, losses, dups, garbled, early>>

\* A part is taken from partCh and put into the first free slot that matches.
TakePart(p) ==
  /\ ReceiverRuns /\ p \in inbox /\ p.kind = "part"
  /\ LET free == Slots(p.part) \ DOMAIN placed IN
     \/ /\ free = {}
        /\ inbox' = inbox \ {p}
        /\ UNCHANGED <<rcv, placed, target, reg, net, sendFails, bodies>>
     \/ \E slot \in free :
          /\ \A j \in free : slot <= j
          /\ placed' = Put(slot, p.part)
          /\ \/ DOMAIN placed' = Parts /\ Assemble(placed')
             \/ /\ DOMAIN placed' # Parts
                /\ \/ WindowComplete(placed') /\ RequestNextWindow(map, placed')
                   \/ ~WindowComplete(placed') /\ UNCHANGED <<target, net, sendFails>>
                /\ inbox' = inbox \ {p}
                /\ UNCHANGED <<rcv, reg, bodies>>
  /\ UNCHANGED <<hash, link, sender, map, opening, cancel, advs, losses, dups, garbled, early>>

\* applyHmu: the segment that follows, no longer than what is missing.
Segment(s) == SubSeq(hash, s * Seg + 1, IF (s + 1) * Seg < N THEN (s + 1) * Seg ELSE N)

\* Mutant: applyHmu without the test of the segment's length.
HmuFitsAnyLength(s) == s = Len(map) \div Seg

HmuFits(s) ==
  /\ s = Len(map) \div Seg
  /\ Len(Segment(s)) <= (IF N - Len(map) < Seg THEN N - Len(map) ELSE Seg)

\* An HMU is taken from hmuCh; one that does not fit is logged and dropped.
TakeHmu(p) ==
  /\ ReceiverRuns /\ p \in inbox /\ p.kind = "hmu"
  /\ inbox' = inbox \ {p}
  /\ \/ /\ HmuFits(p.seg)
        /\ map' = map \o Segment(p.seg)
        /\ RequestNextWindow(map', placed)
     \/ /\ ~HmuFits(p.seg)
        /\ UNCHANGED <<map, target, net, sendFails>>
  /\ UNCHANGED <<hash, link, sender, rcv, placed, opening, reg, cancel, bodies, advs,
                 losses, dups, garbled, early>>

\* ctx.Done of the receiver (resourceTransferTimeout), and cancelCh.
ReceiverStops ==
  /\ ReceiverRuns
  /\ \/ ReceiverReturns("failed") /\ UNCHANGED cancel
     \/ /\ "R" \in cancel /\ cancel' = cancel \ {"R"}
        /\ ReceiverReturns("cancelled")
  /\ inbox' = {p \in inbox : To(p) # "R"}
  /\ UNCHANGED <<hash, link, sender, map, placed, target, opening, net, bodies, advs, faults>>

-----------------------------------------------------------------------------
(* Dispatch, the network and the link *)

\* handleResourceReq, Hmu, Part, Proof: a registered transfer, room in its
\* channel and, except for parts, a link that is still open.
Queues(p) ==
  /\ p.kind \in {"req", "prf", "part", "hmu"} /\ To(p) \in reg
  /\ p.kind = "part" \/ link[To(p)] = "active"
  /\ Cardinality({q \in inbox : q.kind = p.kind}) < Cap[p.kind]

\* handleResourceCancelInbound: an RCL for a registered sender.
Cancels(p) == p.kind = "rcl" /\ link["S"] = "active" /\ "S" \in reg

Opens(p) == p.kind = "adv" /\ link["R"] = "active"

\* The dispatcher of an end takes a packet; the network may keep a copy.
Dispatch(p) ==
  /\ p \in net
  /\ To(p) = "R" => ~opening
  /\ \/ net' = net \ {p} /\ UNCHANGED dups
     \/ dups < MaxDups /\ dups' = dups + 1 /\ UNCHANGED net
  /\ \/ OpenReceiver(p)
     \/ /\ Queues(p)
        /\ inbox' = inbox \cup {p} /\ UNCHANGED <<opening, advs, cancel>>
     \/ /\ Cancels(p)
        /\ cancel' = cancel \cup {"S"} /\ UNCHANGED <<opening, advs, inbox>>
     \/ /\ ~Opens(p) /\ ~Queues(p) /\ ~Cancels(p)
        /\ UNCHANGED <<opening, advs, inbox, cancel>>
  /\ UNCHANGED <<hash, link, sender, receiver, reg, bodies, losses, garbled, sendFails, early>>

Lose(p) ==
  /\ p \in net /\ losses < MaxLosses
  /\ net' = net \ {p} /\ losses' = losses + 1
  /\ UNCHANGED <<hash, link, sender, receiver, opening, reg, cancel, inbox, bodies,
                 advs, dups, garbled, sendFails, early>>

\* A proof is not encrypted: one altered on the way reaches the sender.
Garble ==
  /\ Prf(TRUE) \in net /\ garbled < MaxGarbled
  /\ net' = (net \ {Prf(TRUE)}) \cup {Prf(FALSE)}
  /\ garbled' = garbled + 1
  /\ UNCHANGED <<hash, link, sender, receiver, opening, reg, cancel, inbox, bodies,
                 advs, losses, dups, sendFails, early>>

\* CloseLink by the sweeper or by another sender on the same link: first the
\* state of the link, then closeResourcesForLink.
CloseLink(e) ==
  /\ e \in Closers /\ link[e] = "active"
  /\ link' = [link EXCEPT ![e] = "closing"]
  /\ UNCHANGED <<hash, sender, receiver, opening, reg, cancel, net, inbox, bodies,
                 advs, faults>>

\* Mutant: the transfers are dropped from the registry but not told.
CloseResourcesSilent(e) ==
  /\ link[e] = "closing"
  /\ link' = [link EXCEPT ![e] = "closed"]
  /\ reg' = reg \ {e}
  /\ UNCHANGED <<hash, sender, receiver, opening, cancel, net, inbox, bodies, advs, faults>>

CloseResources(e) ==
  /\ link[e] = "closing"
  /\ link' = [link EXCEPT ![e] = "closed"]
  /\ reg' = reg \ {e}
  /\ cancel' = cancel \cup (reg \cap {e})
  /\ UNCHANGED <<hash, sender, receiver, opening, net, inbox, bodies, advs, faults>>

-----------------------------------------------------------------------------
Init ==
  /\ hash \in Hashmaps
  /\ link = [e \in {"S", "R"} |-> "active"]
  /\ snd = "idle" /\ retries = 0
  /\ rcv = "idle" /\ map = <<>> /\ placed = <<>> /\ target = 0
  /\ opening = FALSE /\ reg = {} /\ cancel = {}
  /\ net = {} /\ inbox = {} /\ bodies = <<>> /\ advs = 0
  /\ losses = 0 /\ dups = 0 /\ garbled = 0 /\ sendFails = 0 /\ early = 0

SenderStep ==
  \/ NewResourceSender \/ StartSender \/ AdvTimer \/ SenderCancelled
  \/ \E p \in inbox : TakeReq(p) \/ TakePrf(p)

ReceiverStep ==
  \/ RegisterReceiver \/ LossTimer
  \/ \E p \in inbox : TakePart(p) \/ TakeHmu(p)

Next ==
  \/ SenderStep \/ SenderDeadline
  \/ ReceiverStep \/ ReceiverStops
  \/ \E p \in net : Dispatch(p) \/ Lose(p)
  \/ Garble
  \/ \E e \in {"S", "R"} : CloseLink(e) \/ CloseResources(e)

Spec == Init /\ [][Next]_vars

\* The two goroutines and the dispatchers keep running and timers fire; the
\* network need not deliver anything but what it does not lose.
Fairness ==
  /\ WF_vars(NewResourceSender) /\ WF_vars(StartSender) /\ WF_vars(AdvTimer)
  /\ WF_vars(SenderCancelled) /\ WF_vars(RegisterReceiver) /\ WF_vars(LossTimer)
  /\ WF_vars(\E p \in inbox : TakeReq(p)) /\ WF_vars(\E p \in inbox : TakePrf(p))
  /\ WF_vars(\E p \in inbox : TakePart(p)) /\ WF_vars(\E p \in inbox : TakeHmu(p))
  /\ \A k \in Kinds : WF_vars(\E p \in net : p.kind = k /\ Dispatch(p))

FairSpec == Spec /\ Fairness

-----------------------------------------------------------------------------
(* Properties *)

Packets ==
  [kind : {"adv", "rcl"}] \cup [kind : {"prf"}, ok : BOOLEAN]
    \cup [kind : {"part"}, part : Parts] \cup [kind : {"hmu"}, seg : Nat]
    \cup [kind : {"req"}, want : SUBSET Hashes, last : Hashes \cup {None}]

\* The states of both goroutines, registries and packets; a sender or receiver
\* is registered only while its Run is under way.
TypeOK ==
  /\ hash \in Hashmaps
  /\ link \in [{"S", "R"} -> {"active", "closing", "closed"}]
  /\ snd \in {"idle", "queued", "advertised", "transferring", "complete", "cancelled",
              "timeout", "deadline", "mismatch", "sequencing", "unsent"}
  /\ rcv \in {"idle", "transferring", "complete", "corrupt", "failed", "cancelled"}
  /\ retries \in 0..(MaxAdvRetries + 1) /\ target \in Nat /\ advs \in Nat
  /\ map \in Seq(Hashes)
  /\ DOMAIN placed \subseteq Parts /\ \A i \in DOMAIN placed : placed[i] \in Parts
  /\ opening \in BOOLEAN
  /\ reg \subseteq {e \in {"S", "R"} : Runs(e)} /\ cancel \subseteq {"S", "R"}
  /\ net \subseteq Packets /\ inbox \subseteq Packets

\* Whatever is lost, repeated, late or mistaken for another part because two map
\* hashes are equal, OnAssembled is given the body that was sent.
DeliveredIntact == \A n \in 1..Len(bodies) : \A i \in Parts : bodies[n][i] = i

\* When no two parts share a map hash, the parts always assemble: none is put
\* into the slot of another, however late, repeated or out of order it comes.
CorruptMeansCollision ==
  rcv = "corrupt" => \E i, j \in Parts : i # j /\ hash[i] = hash[j]

\* SendResourceOverLink returns nil only for a body that was delivered.
SuccessIsDelivery == snd = "complete" => bodies # <<>>

\* However hashmap segments are repeated, delayed or asked for twice, the
\* receiver's hashmap is the beginning of the sender's (applyHmu, serveHmu).
HashmapTrue == Len(map) <= N /\ \A i \in 1..Len(map) : map[i] = hash[i]

\* A sender is told to stop only when its link closed, the parts did not
\* assemble, or an advertisement reached the receiver twice.  In particular a part or
\* a hashmap segment that comes again or too late ends nothing: Run only logs the
\* error of applyHmu, although its comment says that "the caller will RCL and abandon".
CancelHasCause ==
  snd = "cancelled" => link["S"] # "active" \/ rcv = "corrupt" \/ advs > 1

\* CloseLink stops every transfer of the link: one that still runs on a closed
\* link has its cancel token, or it was registered only after
\* closeResourcesForLink had looked (its caller had seen the link active).
StoppedByClose ==
  \A e \in {"S", "R"} : link[e] = "closed" /\ Runs(e) => e \in cancel \cup reg

\* A transfer never gets stuck: unless an end is stopped from outside, the body
\* is delivered or the sender gives up, however packets are reordered, repeated
\* or (up to MaxLosses) lost.
NeverStuck ==
  <>(\/ bodies # <<>>
     \/ snd \notin {"idle", "queued", "advertised", "transferring"}
     \/ rcv \in {"failed", "cancelled"})

=============================================================================
