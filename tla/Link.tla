--------------------------------- MODULE Link ---------------------------------
(***************************************************************************)
(* Reticulum links (internal/rns link_state.go and the link half of        *)
(* transport.go): worker goroutines of one process call SendOverLink for   *)
(* one peer, which runs the same code as the responder.                    *)
(*                                                                         *)
(* A call reuses an Active link or opens one with a LINKREQUEST and waits  *)
(* for the LRPROOF, sends one DATA packet (or a Resource) and waits for    *)
(* the proof of it.  Each wait ends at the deadline of the call.  The      *)
(* network loses, reorders and repeats packets, the peer may restart, and  *)
(* a sweeper on either side ends links that were idle for too long.        *)
(*                                                                         *)
(* A step is one critical section of a mutex with the local code up to the *)
(* next one.  Link ids are numbered in the order the links are opened.     *)
(* The session key of a link is the number of the ephemeral key the peer   *)
(* minted for it; the initiator's half is fixed by the link id.  A call is *)
(* a pair <<w, n>>, the n-th call of w, and stands for the hash of its     *)
(* DATA packet, which is new for every call.  LRRTT and LINKIDENTIFY,      *)
(* which follow an LRPROOF, are ignored by this responder and left out.    *)
(***************************************************************************)
EXTENDS Naturals, FiniteSets

CONSTANTS
  Workers,    \* goroutines that send to the peer
  Big,        \* workers that also have payloads over LinkMDU
  MaxLinks,   \* bound: links opened
  NoLink,     \* a worker without a link
  NoPacket,   \* the dispatcher is between two packets
  MaxMsgs,    \* bound: messages each worker delivers
  Copies,     \* how often an LRPROOF or a proof is sent (three times)
  Ticking,    \* whether time passes, for the sweepers
  Keepalive,  \* DefaultLinkKeepaliveInterval, in ticks
  Idle,       \* DefaultLinkIdleTimeout, in ticks
  FaultKinds, \* the faults that may happen
  MaxFaults,  \* bound: faults
  MaxRefused  \* bound: calls of a worker that find the peer unknown

Faults == {"loss", "duplicate", "restart", "slow", "sendfail", "abort", "evict"}

ASSUME WorkerAssumption == IsFiniteSet(Workers) /\ Big \subseteq Workers

ASSUME LinkAssumption ==
  /\ MaxLinks \in Nat
  /\ NoLink \notin 1 .. MaxLinks
  /\ MaxMsgs \in Nat
  /\ Copies \in Nat \ {0}
  /\ Ticking \in BOOLEAN
  /\ Keepalive \in Nat \ {0}
  /\ Idle \in Nat \ {0}
  /\ Keepalive < Idle
  /\ FaultKinds \subseteq Faults
  /\ MaxFaults \in Nat
  /\ MaxRefused \in Nat

Links == 1 .. MaxLinks
Calls == Workers \X Nat

PacketTypes == {"LINKREQUEST", "LRPROOF", "DATA", "PROOF", "ping", "pong"}

LRReq(k)            == [type |-> "LINKREQUEST", link |-> k]
Data(k, key, call)  == [type |-> "DATA", link |-> k, key |-> key, call |-> call]
Ping(k)             == [type |-> "ping", link |-> k]
Pong(k)             == [type |-> "pong", link |-> k]

\* broadcastWithRetransmits sends an LRPROOF and a proof several times.
LRProofs(k, key) == {[type |-> "LRPROOF", link |-> k, key |-> key, copy |-> n] : n \in 1 .. Copies}
Proofs(k, call)  == {[type |-> "PROOF", link |-> k, call |-> call, copy |-> n] : n \in 1 .. Copies}

Packets ==
  [type : {"LINKREQUEST", "ping", "pong"}, link : Links]
  \cup [type : {"LRPROOF"}, link : Links, key : Nat, copy : 1 .. Copies]
  \cup [type : {"DATA"}, link : Links, key : Nat, call : Calls]
  \cup [type : {"PROOF"}, link : Links, call : Calls, copy : 1 .. Copies]

ASSUME PacketAssumption == NoPacket \notin Packets

VARIABLES
  \* the initiator
  ist,        \* ist[k]: Link.State; "none" before the link is opened
  ikey,       \* ikey[k]: the session key, 0 for none
  iage,       \* iage[k]: ticks since LastActivity
  waiters,    \* waiters[k]: Link.pendingProofs
  opened,     \* links opened so far
  busy,       \* the LRPROOF whose link handleLRProof has found
  sweep,      \* the actions sweepLinks has still to take
  swept,      \* whether it has found anything to do since the last tick
  known,      \* whether Recall(peer) finds the peer
  \* the calls of SendOverLink
  pc,
  at,         \* at[w]: the link of the call
  seal,       \* seal[w]: the key snapshot of the call
  signalled,  \* workers whose proof channel holds a nil
  calls,      \* calls[w]: number of the current or last call that was not refused
  done,       \* done[w]: calls that returned nil
  \* the responder
  rkey,       \* rkey[k]: key of link k, 0 if k is not in the LinkManager
  rage,       \* rage[k]: ticks since LastActivity
  rsweep,     \* links the peer's sweepLinks is about to close
  minted,     \* ephemeral keys the peer has made
  net,        \* packets on their way
  \* history
  got,        \* calls whose payload reached the peer's application
  acked,      \* calls that returned nil
  heard,      \* calls a proof has arrived for
  fails,      \* fails[w]: calls that returned another error than the next
  refused,    \* refused[w]: calls that returned ErrLinkPeerUnknown
  faults      \* faults so far

initVars == <<ist, ikey, iage, waiters, opened, busy, sweep, swept, known>>
callVars == <<pc, at, seal, signalled, calls, done, acked, fails>>
peerVars == <<rkey, rage, rsweep, minted, got>>
vars     == <<initVars, callVars, peerVars, net, heard, refused, faults>>

\* The link is in the initiator's LinkManager: CloseLink both ends and removes it.
Registered(k) == ist[k] \in {"pending", "active"}

\* Both ends hold the link with the same keys.
Agrees(k) == ist[k] = "active" /\ rkey[k] # 0 /\ rkey[k] = ikey[k]

Call(w) == <<w, calls[w]>>

\* One more fault of the kind.
Fault(kind) ==
  /\ kind \in FaultKinds
  /\ faults < MaxFaults
  /\ faults' = faults + 1

-----------------------------------------------------------------------------
Init ==
  /\ ist       = [k \in Links |-> "none"]
  /\ ikey      = [k \in Links |-> 0]
  /\ iage      = [k \in Links |-> 0]
  /\ waiters   = [k \in Links |-> {}]
  /\ opened    = 0
  /\ busy      = NoPacket
  /\ sweep     = {}
  /\ swept     = FALSE
  /\ known     = TRUE
  /\ pc        = [w \in Workers |-> "idle"]
  /\ at        = [w \in Workers |-> NoLink]
  /\ seal      = [w \in Workers |-> 0]
  /\ signalled = {}
  /\ calls     = [w \in Workers |-> 0]
  /\ done      = [w \in Workers |-> 0]
  /\ rkey      = [k \in Links |-> 0]
  /\ rage      = [k \in Links |-> 0]
  /\ rsweep    = {}
  /\ minted    = 0
  /\ net       = {}
  /\ got       = {}
  /\ acked     = {}
  /\ heard     = {}
  /\ fails     = [w \in Workers |-> 0]
  /\ refused   = [w \in Workers |-> 0]
  /\ faults    = 0

-----------------------------------------------------------------------------
(* SendOverLink *)

\* LinkManager.CloseLink: the link leaves the manager for good.  No packet tells
\* the peer.
CloseLink(k) ==
  /\ ist'  = [ist EXCEPT ![k] = IF Registered(k) THEN "closed" ELSE @]
  /\ ikey' = [ikey EXCEPT ![k] = IF Registered(k) THEN 0 ELSE @]

\* The call returns an error; the deferred clearProofWaiter runs.
ReturnError(w) ==
  /\ pc'        = [pc EXCEPT ![w] = "idle"]
  /\ fails'     = [fails EXCEPT ![w] = @ + 1]
  /\ signalled' = signalled \ {w}
  /\ waiters'   = [k \in Links |-> IF k = at[w] THEN waiters[k] \ {Call(w)} ELSE waiters[k]]
  /\ UNCHANGED <<at, seal, calls, done, acked>>

\* The call returns nil.
ReturnNil(w) ==
  /\ pc'        = [pc EXCEPT ![w] = "idle"]
  /\ done'      = [done EXCEPT ![w] = @ + 1]
  /\ acked'     = acked \cup {Call(w)}
  /\ signalled' = signalled \ {w}
  /\ waiters'   = [k \in Links |-> IF k = at[w] THEN waiters[k] \ {Call(w)} ELSE waiters[k]]
  /\ UNCHANGED <<at, seal, calls, fails>>

\* A call begins: acquireLinkTo takes an Active link to the peer, any of them, as
\* ActiveTo ranges over a map, or finds the peer's keys and goes on to open one.
Acquire(w) ==
  /\ pc[w] = "idle"
  /\ done[w] < MaxMsgs
  /\ calls' = [calls EXCEPT ![w] = @ + 1]
  /\ \/ \E k \in Links : /\ ist[k] = "active"
                         /\ at' = [at EXCEPT ![w] = k]
                         /\ pc' = [pc EXCEPT ![w] = "ready"]
     \/ /\ \A k \in Links : ist[k] # "active"
        /\ known
        /\ at' = [at EXCEPT ![w] = NoLink]
        /\ pc' = [pc EXCEPT ![w] = "open"]
  /\ UNCHANGED <<seal, signalled, done, acked, fails, initVars, peerVars, net, heard, refused, faults>>

\* acquireLinkTo finds neither a link nor the peer: ErrLinkPeerUnknown, a failed
\* attempt like any other to the caller.
PeerUnknown(w) ==
  /\ pc[w] = "idle"
  /\ done[w] < MaxMsgs
  /\ refused[w] < MaxRefused
  /\ \A k \in Links : ist[k] # "active"
  /\ ~known
  /\ refused' = [refused EXCEPT ![w] = @ + 1]
  /\ UNCHANGED <<initVars, callVars, peerVars, net, heard, faults>>

\* StartLinkAsInitiator registers a Pending link and the LINKREQUEST goes out.
StartLink(w) ==
  LET k == opened + 1 IN
  /\ pc[w] = "open"
  /\ opened < MaxLinks
  /\ opened' = k
  /\ iage' = [iage EXCEPT ![k] = 0]
  /\ \/ /\ ist' = [ist EXCEPT ![k] = "pending"]
        /\ at'  = [at EXCEPT ![w] = k]
        /\ pc'  = [pc EXCEPT ![w] = "await"]
        /\ net' = net \cup {LRReq(k)}
        /\ UNCHANGED <<waiters, seal, signalled, calls, done, acked, fails, faults>>
     \/ /\ Fault("sendfail")
        /\ ist' = [ist EXCEPT ![k] = "closed"]
        /\ ReturnError(w)
        /\ UNCHANGED net
  /\ UNCHANGED <<ikey, busy, sweep, swept, known, peerVars, heard, refused>>

\* AwaitActive returns: the link is Active, or it was activated and closed since.
AwaitActive(w) ==
  /\ pc[w] = "await"
  /\ \/ /\ ist[at[w]] = "active"
        /\ pc' = [pc EXCEPT ![w] = "ready"]
        /\ UNCHANGED <<ist, ikey, waiters, at, seal, signalled, calls, done, acked, fails>>
     \/ /\ ist[at[w]] = "closed"
        /\ CloseLink(at[w])
        /\ ReturnError(w)
  /\ UNCHANGED <<iage, opened, busy, sweep, swept, known, peerVars, net, heard, refused, faults>>

\* No packet that could still end the wait of w is on its way.
Hopeless(w) ==
  CASE pc[w] = "await"    -> /\ ist[at[w]] = "pending"
                             /\ \A p \in (net \cup {busy}) \ {NoPacket} :
                                  p.link = at[w] => p.type \notin {"LINKREQUEST", "LRPROOF"}
    [] pc[w] = "wait"     -> /\ w \notin signalled
                             /\ \A p \in net : p.type \in {"DATA", "PROOF"} => p.call # Call(w)
    [] pc[w] = "transfer" -> ist[at[w]] = "active" /\ ~Agrees(at[w])
    [] OTHER              -> FALSE

\* The deadline passes.  Unless nothing can answer any more, an answer was slower
\* than the timeout of the call.
Deadline(w) == \/ Hopeless(w) /\ UNCHANGED faults
               \/ ~Hopeless(w) /\ Fault("slow")

\* Mutant of HandshakeTimeout: the Pending link stays in the manager.
HandshakeTimeoutKeeps(w) ==
  /\ pc[w] = "await"
  /\ Deadline(w)
  /\ ReturnError(w)
  /\ UNCHANGED <<ist, ikey, iage, opened, busy, sweep, swept, known, peerVars, net, heard, refused>>

\* The LRPROOF does not come in time.  The link may just have become Active: select
\* may still take the timer.
HandshakeTimeout(w) ==
  /\ pc[w] = "await"
  /\ Deadline(w)
  /\ CloseLink(at[w])
  /\ ReturnError(w)
  /\ UNCHANGED <<iage, opened, busy, sweep, swept, known, peerVars, net, heard, refused>>

\* Mutant of Prepare: a new map of waiters in place of the one of the link.
PrepareAlone(w) ==
  /\ pc[w] = "ready"
  /\ \/ /\ ist[at[w]] = "active"
        /\ seal'    = [seal EXCEPT ![w] = ikey[at[w]]]
        /\ waiters' = [waiters EXCEPT ![at[w]] = {Call(w)}]
        /\ pc'      = [pc EXCEPT ![w] = "armed"]
        /\ UNCHANGED <<at, signalled, calls, done, acked, fails>>
     \/ /\ ist[at[w]] # "active"
        /\ ReturnError(w)
  /\ UNCHANGED <<ist, ikey, iage, opened, busy, sweep, swept, known, peerVars, net, heard, refused, faults>>

\* With a link in hand the call checks that it is still Active, copies the keys and
\* registers the waiter for the proof.
Prepare(w) ==
  /\ pc[w] = "ready"
  /\ \/ /\ ist[at[w]] = "active"
        /\ seal'    = [seal EXCEPT ![w] = ikey[at[w]]]
        /\ waiters' = [waiters EXCEPT ![at[w]] = @ \cup {Call(w)}]
        /\ pc'      = [pc EXCEPT ![w] = "armed"]
        /\ UNCHANGED <<at, signalled, calls, done, acked, fails>>
     \/ /\ ist[at[w]] # "active"
        /\ ReturnError(w)
  /\ UNCHANGED <<ist, ikey, iage, opened, busy, sweep, swept, known, peerVars, net, heard, refused, faults>>

\* The DATA packet is broadcast.  If that fails, or the deadline has passed
\* meanwhile, the call returns and leaves the link alone.
Transmit(w) ==
  /\ pc[w] = "armed"
  /\ \/ /\ net' = net \cup {Data(at[w], seal[w], Call(w))}
        /\ pc'  = [pc EXCEPT ![w] = "wait"]
        /\ UNCHANGED <<waiters, at, seal, signalled, calls, done, acked, fails, faults>>
     \/ /\ Fault("slow")
        /\ net' = net \cup {Data(at[w], seal[w], Call(w))}
        /\ ReturnError(w)
     \/ /\ Fault("sendfail")
        /\ ReturnError(w)
        /\ UNCHANGED net
  /\ UNCHANGED <<ist, ikey, iage, opened, busy, sweep, swept, known, peerVars, heard, refused>>

\* The proof came.
Proven(w) ==
  /\ pc[w] = "wait"
  /\ w \in signalled
  /\ ReturnNil(w)
  /\ UNCHANGED <<ist, ikey, iage, opened, busy, sweep, swept, known, peerVars, net, heard, refused, faults>>

\* Mutant of ProofTimeout: the link stays for the next call.
ProofTimeoutKeeps(w) ==
  /\ pc[w] = "wait"
  /\ Deadline(w)
  /\ ReturnError(w)
  /\ UNCHANGED <<ist, ikey, iage, opened, busy, sweep, swept, known, peerVars, net, heard, refused>>

\* The proof does not come in time: the link is torn down, whoever else uses it.
ProofTimeout(w) ==
  /\ pc[w] = "wait"
  /\ Deadline(w)
  /\ CloseLink(at[w])
  /\ ReturnError(w)
  /\ UNCHANGED <<iage, opened, busy, sweep, swept, known, peerVars, net, heard, refused>>

\* A payload over LinkMDU goes as a Resource (module Resource has the transfer).
Transfer(w) ==
  /\ pc[w] = "ready"
  /\ w \in Big
  /\ ist[at[w]] = "active"
  /\ pc' = [pc EXCEPT ![w] = "transfer"]
  /\ UNCHANGED <<at, seal, signalled, calls, done, acked, fails, initVars, peerVars, net, heard, refused, faults>>

\* The transfer takes place on a link both ends hold.
TransferDone(w) ==
  /\ pc[w] = "transfer"
  /\ Agrees(at[w])
  /\ ReturnNil(w)
  /\ got' = got \cup {Call(w)}
  /\ UNCHANGED <<ist, ikey, iage, opened, busy, sweep, swept, known, rkey, rage, rsweep, minted, net, heard, refused, faults>>

\* Mutant of TransferFails: closing the link does not cancel its transfers.
TransferFailsLate(w) ==
  /\ pc[w] = "transfer"
  /\ \/ Deadline(w) /\ CloseLink(at[w])
     \/ (Fault("sendfail") \/ Fault("abort")) /\ UNCHANGED <<ist, ikey>>
  /\ ReturnError(w)
  /\ UNCHANGED <<iage, opened, busy, sweep, swept, known, peerVars, net, heard, refused>>

\* It ends with ErrResourceTimeout, and the link with it; or it was cancelled by
\* closeResourcesForLink; or a Broadcast failed, the peer cancelled it or its proof did
\* not match, and the link stays.
TransferFails(w) ==
  /\ pc[w] = "transfer"
  /\ \/ Deadline(w) /\ CloseLink(at[w])
     \/ ist[at[w]] = "closed" /\ UNCHANGED <<ist, ikey, faults>>
     \/ (Fault("sendfail") \/ Fault("abort")) /\ UNCHANGED <<ist, ikey>>
  /\ ReturnError(w)
  /\ UNCHANGED <<iage, opened, busy, sweep, swept, known, peerVars, net, heard, refused>>

-----------------------------------------------------------------------------
(* The initiator's dispatcher, one packet at a time *)

\* A packet is taken from the network and answers are sent; the network may repeat
\* the packet.
Take(p, answers) ==
  /\ p \in net
  /\ \/ net' = (net \ {p}) \cup answers /\ UNCHANGED faults
     \/ net' = net \cup answers /\ Fault("duplicate")

\* handleLRProof looks for the link and for the peer's key.
FindLink(p) ==
  /\ busy = NoPacket
  /\ p.type = "LRPROOF"
  /\ Take(p, {})
  /\ busy' = IF Registered(p.link) /\ known THEN p ELSE NoPacket
  /\ UNCHANGED <<ist, ikey, iage, waiters, opened, sweep, swept, known, callVars, peerVars, heard, refused>>

\* HandleLRProof derives the keys if the link is still Pending.
HandleLRProof ==
  /\ busy # NoPacket
  /\ busy' = NoPacket
  /\ \/ /\ ist[busy.link] = "pending"
        /\ ist'  = [ist EXCEPT ![busy.link] = "active"]
        /\ ikey' = [ikey EXCEPT ![busy.link] = busy.key]
        /\ iage' = [iage EXCEPT ![busy.link] = 0]
     \/ /\ ist[busy.link] # "pending"
        /\ UNCHANGED <<ist, ikey, iage>>
  /\ UNCHANGED <<waiters, opened, sweep, swept, known, callVars, peerVars, net, heard, refused, faults>>

\* Mutant of LinkProof: a proof wakes every call that waits on the link.
LinkProofAny(p) ==
  /\ busy = NoPacket
  /\ p.type = "PROOF"
  /\ Take(p, {})
  /\ heard' = heard \cup {p.call}
  /\ \/ /\ ist[p.link] = "active"
        /\ iage'      = [iage EXCEPT ![p.link] = 0]
        /\ waiters'   = [waiters EXCEPT ![p.link] = {}]
        /\ signalled' = signalled \cup {c[1] : c \in waiters[p.link]}
     \/ /\ ist[p.link] # "active"
        /\ UNCHANGED <<iage, waiters, signalled>>
  /\ UNCHANGED <<ist, ikey, opened, busy, sweep, swept, known, pc, at, seal, calls, done, acked, fails, peerVars, refused>>

\* handleLinkProof: the proof of a DATA packet wakes the call that registered it.
\* Without peerEd25519Pub, that is before the link is Active, it is ignored.
LinkProof(p) ==
  /\ busy = NoPacket
  /\ p.type = "PROOF"
  /\ Take(p, {})
  /\ heard' = heard \cup {p.call}
  /\ \/ /\ ist[p.link] = "active"
        /\ iage'      = [iage EXCEPT ![p.link] = 0]
        /\ waiters'   = [waiters EXCEPT ![p.link] = @ \ {p.call}]
        /\ signalled' = IF p.call \in waiters[p.link] THEN signalled \cup {p.call[1]} ELSE signalled
     \/ /\ ist[p.link] # "active"
        /\ UNCHANGED <<iage, waiters, signalled>>
  /\ UNCHANGED <<ist, ikey, opened, busy, sweep, swept, known, pc, at, seal, calls, done, acked, fails, peerVars, refused>>

\* handleLinkData, initiator side: a pong refreshes the link.
LinkPong(p) ==
  /\ busy = NoPacket
  /\ p.type = "pong"
  /\ Take(p, {})
  /\ iage' = [iage EXCEPT ![p.link] = IF Registered(p.link) THEN 0 ELSE @]
  /\ UNCHANGED <<ist, ikey, waiters, opened, busy, sweep, swept, known, callVars, peerVars, heard, refused>>

-----------------------------------------------------------------------------
(* The peer's dispatcher *)

\* handleLinkRequest: AcceptIncomingLinkRequest makes an Active link with fresh keys,
\* in place of one with the same id.
AcceptRequest(p) ==
  LET key == minted + 1 IN
  /\ p.type = "LINKREQUEST"
  /\ minted' = key
  /\ rkey'   = [rkey EXCEPT ![p.link] = key]
  /\ rage'   = [rage EXCEPT ![p.link] = 0]
  /\ Take(p, LRProofs(p.link, key))
  /\ UNCHANGED <<initVars, callVars, rsweep, got, heard, refused>>

\* handleLinkData: LastActivity is set before the packet is decrypted; the payload
\* goes to the application, then the proof is sent.
LinkData(p) ==
  /\ p.type = "DATA"
  /\ rage' = [rage EXCEPT ![p.link] = IF rkey[p.link] # 0 THEN 0 ELSE @]
  /\ \/ /\ rkey[p.link] = p.key
        /\ got' = got \cup {p.call}
        /\ Take(p, Proofs(p.link, p.call))
     \/ /\ rkey[p.link] # p.key
        /\ Take(p, {})
        /\ UNCHANGED got
  /\ UNCHANGED <<initVars, callVars, rkey, rsweep, minted, heard, refused>>

\* handleLinkData, keepalive branch.
LinkPing(p) ==
  /\ p.type = "ping"
  /\ rage' = [rage EXCEPT ![p.link] = IF rkey[p.link] # 0 THEN 0 ELSE @]
  /\ Take(p, IF rkey[p.link] # 0 THEN {Pong(p.link)} ELSE {})
  /\ UNCHANGED <<initVars, callVars, rkey, rsweep, minted, got, heard, refused>>

-----------------------------------------------------------------------------
(* The sweepers *)

\* sweepLinks, first half: what is to be done about each Active link.
SweepScan ==
  /\ sweep = {}
  /\ sweep' = {<<k, "close">> : k \in {j \in Links : ist[j] = "active" /\ iage[j] >= Idle}}
              \cup {<<k, "keepalive">> : k \in {j \in Links : /\ ist[j] = "active"
                                                              /\ iage[j] >= Keepalive
                                                              /\ iage[j] < Idle}}
  /\ sweep' # {}
  /\ swept' = TRUE
  /\ UNCHANGED <<ist, ikey, iage, waiters, opened, busy, known, callVars, peerVars, net, heard, refused, faults>>

\* Second half: a close, or a keepalive, which counts as activity of the link.
SweepStep(a) ==
  /\ a \in sweep
  /\ sweep' = sweep \ {a}
  /\ \/ /\ a[2] = "close"
        /\ CloseLink(a[1])
        /\ UNCHANGED <<iage, net, faults>>
     \/ /\ a[2] = "keepalive"
        /\ net'  = net \cup {Ping(a[1])}
        /\ iage' = [iage EXCEPT ![a[1]] = IF Registered(a[1]) THEN 0 ELSE @]
        /\ UNCHANGED <<ist, ikey, faults>>
     \/ /\ a[2] = "keepalive"
        /\ Fault("sendfail")
        /\ UNCHANGED <<ist, ikey, iage, net>>
  /\ UNCHANGED <<waiters, opened, busy, swept, known, callVars, peerVars, heard, refused>>

\* Mutant of PeerSweepScan: the sweeper looks at the links it opened itself, of which
\* the peer has none.
PeerSweepScanOwn == FALSE /\ UNCHANGED vars

\* The peer's sweeper: its links are responder links, which it only closes.
PeerSweepScan ==
  /\ rsweep = {}
  /\ rsweep' = {k \in Links : rkey[k] # 0 /\ rage[k] >= Idle}
  /\ rsweep' # {}
  /\ UNCHANGED <<initVars, callVars, rkey, rage, minted, got, net, heard, refused, faults>>

PeerSweepStep(k) ==
  /\ k \in rsweep
  /\ rsweep' = rsweep \ {k}
  /\ rkey' = [rkey EXCEPT ![k] = 0]
  /\ UNCHANGED <<initVars, callVars, rage, minted, got, net, heard, refused, faults>>

\* Time passes on both sides.  A tick is minutes long: within one, packets arrive or
\* are lost, calls other than Resource transfers end, and each sweeper has dealt with
\* the links that are due.
Tick ==
  /\ Ticking
  /\ net = {} /\ busy = NoPacket
  /\ \A w \in Workers : pc[w] \in {"idle", "transfer"}
  /\ sweep = {} /\ (swept \/ \A k \in Links : ist[k] = "active" => iage[k] < Keepalive)
  /\ rsweep = {} /\ \A k \in Links : rkey[k] # 0 => rage[k] < Idle
  /\ swept' = FALSE
  /\ iage' = [k \in Links |-> IF ist[k] = "active" THEN iage[k] + 1 ELSE iage[k]]
  /\ rage' = [k \in Links |-> IF rkey[k] # 0 THEN rage[k] + 1 ELSE rage[k]]
  /\ UNCHANGED <<ist, ikey, waiters, opened, busy, sweep, known, callVars, rkey, rsweep, minted, got, net, heard, refused, faults>>

-----------------------------------------------------------------------------
(* The environment *)

\* The network loses all copies of a packet.
Lose(p) ==
  /\ p \in net
  /\ Fault("loss")
  /\ net' = net \ {p}
  /\ UNCHANGED <<initVars, callVars, peerVars, heard, refused>>

\* The peer's process restarts and has no links.
Restart ==
  /\ Fault("restart")
  /\ rkey'   = [k \in Links |-> 0]
  /\ rsweep' = {}
  /\ UNCHANGED <<initVars, callVars, rage, minted, got, net, heard, refused>>

\* The peer falls out of the table of known identities, and announces itself again.
Evict ==
  /\ known
  /\ Fault("evict")
  /\ known' = FALSE
  /\ UNCHANGED <<ist, ikey, iage, waiters, opened, busy, sweep, swept, callVars, peerVars, net, heard, refused>>

Announced ==
  /\ ~known
  /\ known' = TRUE
  /\ UNCHANGED <<ist, ikey, iage, waiters, opened, busy, sweep, swept, callVars, peerVars, net, heard, refused, faults>>

\* All messages are delivered and nothing is on its way.
Finished ==
  /\ \A w \in Workers : pc[w] = "idle" /\ done[w] = MaxMsgs
  /\ net = {}
  /\ busy = NoPacket
  /\ UNCHANGED vars

-----------------------------------------------------------------------------
Sender(w) ==
  \/ Acquire(w)
  \/ StartLink(w)
  \/ AwaitActive(w)
  \/ HandshakeTimeout(w)
  \/ Prepare(w)
  \/ Transmit(w)
  \/ Proven(w)
  \/ ProofTimeout(w)
  \/ Transfer(w)
  \/ TransferDone(w)
  \/ TransferFails(w)

Dispatch(p) ==
  \/ FindLink(p)
  \/ LinkProof(p)
  \/ LinkPong(p)
  \/ AcceptRequest(p)
  \/ LinkData(p)
  \/ LinkPing(p)

Sweepers ==
  \/ SweepScan
  \/ \E a \in sweep : SweepStep(a)
  \/ PeerSweepScan
  \/ \E k \in rsweep : PeerSweepStep(k)

Environment ==
  \/ Tick
  \/ \E p \in net : Lose(p)
  \/ Restart
  \/ Evict
  \/ Announced

Next ==
  \/ \E w \in Workers : Sender(w) \/ PeerUnknown(w)
  \/ \E p \in net : Dispatch(p)
  \/ HandleLRProof
  \/ Sweepers
  \/ Environment
  \/ Finished

Spec == Init /\ [][Next]_vars

\* The code runs every goroutine that can run, the dispatchers take each packet in
\* its turn, and the tickers of the sweepers go on.  No fault has to happen.
Fairness ==
  /\ \A w \in Workers : WF_vars(Sender(w))
  /\ \A t \in PacketTypes : WF_vars(\E p \in net : p.type = t /\ Dispatch(p))
  /\ WF_vars(HandleLRProof)
  /\ WF_vars(SweepScan)
  /\ WF_vars(\E a \in sweep : SweepStep(a))
  /\ WF_vars(PeerSweepScan)
  /\ WF_vars(\E k \in rsweep : PeerSweepStep(k))
  /\ WF_vars(Tick)
  /\ WF_vars(Announced)

FairSpec == Spec /\ Fairness

-----------------------------------------------------------------------------
(* Properties *)

\* The types of the initiator's links, of its calls, of the peer and of the rest.
InitiatorTypes ==
  /\ ist \in [Links -> {"none", "pending", "active", "closed"}]
  /\ ikey \in [Links -> Nat]
  /\ iage \in [Links -> Nat]
  /\ opened \in 0 .. MaxLinks
  /\ busy \in Packets \cup {NoPacket}
  /\ busy # NoPacket => busy.type = "LRPROOF"
  /\ sweep \subseteq Links \X {"close", "keepalive"}

FlagTypes == swept \in BOOLEAN /\ known \in BOOLEAN

CallTypes ==
  /\ pc \in [Workers -> {"idle", "open", "await", "ready", "armed", "wait", "transfer"}]
  /\ at \in [Workers -> Links \cup {NoLink}]
  /\ \A w \in Workers : pc[w] \in {"await", "ready", "armed", "wait", "transfer"} => at[w] \in Links
  /\ waiters \in [Links -> SUBSET Calls]
  /\ seal \in [Workers -> Nat]
  /\ signalled \subseteq Workers
  /\ calls \in [Workers -> Nat]
  /\ done \in [Workers -> Nat]
  /\ acked \subseteq Calls
  /\ fails \in [Workers -> Nat]

PeerTypes ==
  /\ rkey \in [Links -> Nat]
  /\ rage \in [Links -> Nat]
  /\ rsweep \subseteq Links
  /\ minted \in Nat
  /\ got \subseteq Calls

NetTypes ==
  /\ net \subseteq Packets
  /\ heard \subseteq Calls
  /\ refused \in [Workers -> Nat]
  /\ faults \in 0 .. MaxFaults

TypeOK == InitiatorTypes /\ FlagTypes /\ CallTypes /\ PeerTypes /\ NetTypes

\* SendOverLink returns nil only for a payload that the peer's application has been
\* given: the proof of one call never ends the wait of another, and a packet the
\* peer cannot decrypt is not proved.
SuccessIsDelivered == acked \subseteq got

\* A proof that arrives while the call still waits is not lost, even if it is faster
\* than the return of Broadcast, unless another call or the sweeper has torn the link
\* down meanwhile.
ProofWakes ==
  \A w \in Workers :
    pc[w] \in {"armed", "wait"} /\ Call(w) \in heard /\ w \notin signalled
      => ist[at[w]] = "closed"

\* Callers that find no Active link each open their own; still there are never more
\* links than callers, as every error path takes its link out of the manager.
LinksBounded == Cardinality({k \in Links : Registered(k)}) <= Cardinality(Workers)

\* One fault, whatever it is, costs a caller at most as many attempts as there are
\* callers: a link that failed is not offered again.  The one exception is a peer that
\* was evicted and has not announced itself again: until it does, each attempt without
\* a link fails, so what an eviction costs is bounded only by the queue.  (The queue has
\* 4 workers and makes 5 attempts.)
FaultCost ==
  \A w \in Workers :
    /\ fails[w] <= faults * Cardinality(Workers)
    /\ refused[w] > 0 => faults > 0

\* A link is opened once and closed once, and the session keys of an Active link do
\* not change, whichever LRPROOFs arrive, in whatever order, and whoever closes it.
OneHandshake ==
  [][\A k \in Links :
       /\ ist[k] = "closed" => ist'[k] = "closed"
       /\ ist[k] = "active" => ist'[k] = "closed" \/ (ist'[k] = "active" /\ ikey'[k] = ikey[k])]_vars

\* Once the faults are over, every caller that tries again delivers its messages: a
\* link that the peer has forgotten, or that it holds with other keys, does not stay.
Recovers == <>(\A w \in Workers : done[w] = MaxMsgs)

\* A responder does not keep a link whose initiator has closed it, although no packet
\* tells it so: the sweeper closes it when it has been idle.
HalfOpenFreed == <>[](\A k \in Links : rkey[k] # 0 => ist[k] # "closed")

=============================================================================
