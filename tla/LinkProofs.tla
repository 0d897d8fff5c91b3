------------------------------ MODULE LinkProofs ------------------------------
(***************************************************************************)
(* Proofs about Link, for any number of workers, links, copies and faults. *)
(*                                                                         *)
(* The inductive invariant follows one call through the link it waits on:  *)
(* the waiters of a link are the current calls of the workers that wait    *)
(* there (Waiting), and no packet, proof or record of a call exists before *)
(* its worker has sent it (OnWire).  Every link of the manager is the last *)
(* one some worker has opened (Owned).                                     *)
(*                                                                         *)
(* For the cost of a fault, a link is good if its calls succeed unless     *)
(* there is another fault (Good), which every step without one preserves.  *)
(* A fault spoils links that existed, and an account of the links spoilt,  *)
(* the calls doomed and the failures so far is kept (Spoiled).             *)
(***************************************************************************)
EXTENDS Link, FiniteSetTheorems, FunctionTheorems, TLAPS

Places == {"idle", "open", "await", "ready", "armed", "wait", "transfer"}

\* A packet about a call.
Carries(p) == p.type \in {"DATA", "PROOF"}

\* Before the DATA packet of a call is sent.
Early == {"open", "await", "ready", "armed"}

\* Links are opened in order, and a call that has got a link has one that was Active.
LinksOK ==
  /\ \A k \in Links : k > opened => ist[k] = "none"
  /\ \A w \in Workers : pc[w] \in {"ready", "armed", "wait", "transfer"} => ist[at[w]] \in {"active", "closed"}

\* The waiters of a link are the calls that wait on it, unless they were woken; and
\* a call is woken for a payload the peer has.
Waiting ==
  /\ \A k \in Links : \A c \in waiters[k] :
       c[2] = calls[c[1]] /\ pc[c[1]] \in {"armed", "wait"} /\ at[c[1]] = k
  /\ \A w \in Workers : pc[w] \in {"armed", "wait"} => w \in signalled \/ Call(w) \in waiters[at[w]]
  /\ \A w \in signalled : pc[w] \in {"armed", "wait"} /\ Call(w) \in got

\* What is on its way, or has been heard, about a call.
OnWire ==
  /\ \A p \in net : p.type = "PROOF" => p.call \in got
  /\ \A p \in net : Carries(p) =>
       /\ p.call[2] <= calls[p.call[1]]
       /\ p.call[2] = calls[p.call[1]] => /\ pc[p.call[1]] \notin Early
                                          /\ pc[p.call[1]] = "wait" => p.link = at[p.call[1]]
  /\ \A c \in heard :
       /\ c[2] <= calls[c[1]]
       /\ c[2] = calls[c[1]] => pc[c[1]] \notin Early

IInv == TypeOK /\ LinksOK /\ Waiting /\ OnWire /\ SuccessIsDelivered /\ ProofWakes

-----------------------------------------------------------------------------
\* The packets the model sends have their type.
LEMMA PacketTypesOK ==
  ASSUME NEW k \in Links, NEW key \in Nat, NEW c \in Calls
  PROVE  /\ LRReq(k) \in Packets /\ Ping(k) \in Packets /\ Pong(k) \in Packets
         /\ Data(k, key, c) \in Packets
         /\ LRProofs(k, key) \subseteq Packets /\ Proofs(k, c) \subseteq Packets
<1>1. LRReq(k) \in Packets /\ Ping(k) \in Packets /\ Pong(k) \in Packets
  BY DEF LRReq, Ping, Pong, Packets
<1>2. Data(k, key, c) \in Packets
  BY DEF Data, Packets
<1>3. LRProofs(k, key) \subseteq Packets
  BY DEF LRProofs, Packets
<1>4. Proofs(k, c) \subseteq Packets
  BY DEF Proofs, Packets
<1> QED
  BY <1>1, <1>2, <1>3, <1>4

\* The fields of a packet.
LEMMA PacketFields ==
  ASSUME NEW p \in Packets
  PROVE  /\ p.link \in Links
         /\ p.type = "LRPROOF" => p.key \in Nat
         /\ p.type = "DATA" => p.key \in Nat
         /\ Carries(p) => p.call \in Calls /\ p.call[1] \in Workers /\ p.call[2] \in Nat
                          /\ p.call = <<p.call[1], p.call[2]>>
BY DEF Packets, Carries, Calls

\* The current call of a worker.
LEMMA CallType ==
  ASSUME TypeOK, NEW w \in Workers
  PROVE  Call(w) \in Calls /\ Call(w)[1] = w /\ Call(w)[2] = calls[w] /\ calls[w] \in Nat
BY DEF TypeOK, CallTypes, Call, Calls

\* A fault is counted.
LEMMA FaultType ==
  ASSUME TypeOK, NEW kind, Fault(kind) \/ UNCHANGED faults
  PROVE  faults' \in 0 .. MaxFaults
BY LinkAssumption DEF TypeOK, NetTypes, Fault

\* Initially there is no link and no call.
LEMMA InitIInv == Init => IInv
<1> SUFFICES ASSUME Init PROVE IInv
  OBVIOUS
<1>1. TypeOK
  <2>1. InitiatorTypes
    BY LinkAssumption DEF Init, InitiatorTypes
  <2>2. FlagTypes
    BY DEF Init, FlagTypes
  <2>3. CallTypes
    BY DEF Init, CallTypes
  <2>4. PeerTypes
    BY DEF Init, PeerTypes
  <2>5. NetTypes
    BY LinkAssumption DEF Init, NetTypes
  <2> QED
    BY <2>1, <2>2, <2>3, <2>4, <2>5 DEF TypeOK
<1>2. LinksOK /\ Waiting
  BY DEF Init, LinksOK, Waiting
<1>3. OnWire /\ SuccessIsDelivered /\ ProofWakes
  BY DEF Init, OnWire, SuccessIsDelivered, ProofWakes
<1> QED
  BY <1>1, <1>2, <1>3 DEF IInv

-----------------------------------------------------------------------------
(* Types *)

LinkStates == [Links -> {"none", "pending", "active", "closed"}]

\* The end of a call.
LEMMA ReturnTypes ==
  ASSUME TypeOK, NEW w \in Workers, ReturnError(w) \/ ReturnNil(w)
  PROVE  CallTypes'
<1>1. CASE ReturnError(w)
  BY <1>1 DEF ReturnError, TypeOK, CallTypes
<1>2. CASE ReturnNil(w)
  BY <1>2, CallType DEF ReturnNil, TypeOK, CallTypes
<1> QED
  BY <1>1, <1>2

\* CloseLink.
LEMMA CloseTypes ==
  ASSUME TypeOK, NEW k \in Links, CloseLink(k)
  PROVE  ist' \in LinkStates /\ ikey' \in [Links -> Nat]
BY DEF CloseLink, TypeOK, InitiatorTypes, LinkStates

\* A packet is taken from the network.
LEMMA TakeTypes ==
  ASSUME TypeOK, NEW p, NEW A \in SUBSET Packets, Take(p, A)
  PROVE  net' \subseteq Packets /\ faults' \in 0 .. MaxFaults /\ p \in net /\ p \in Packets
         /\ net' \subseteq net \cup A
BY FaultType DEF Take, TypeOK, NetTypes

\* The deadline of a call.
LEMMA DeadlineType ==
  ASSUME TypeOK, NEW w \in Workers, Deadline(w)
  PROVE  faults' \in 0 .. MaxFaults
BY FaultType DEF Deadline

\* The steps of a call keep the types.
LEMMA SenderTypes ==
  ASSUME TypeOK, NEW w \in Workers, Sender(w)
  PROVE  TypeOK'
<1>0. /\ ist \in LinkStates /\ FlagTypes /\ InitiatorTypes /\ CallTypes /\ PeerTypes /\ NetTypes
      /\ MaxLinks \in Nat
  BY LinkAssumption DEF TypeOK, InitiatorTypes, LinkStates
<1>1. CASE Acquire(w)
  <2>1. CallTypes'
    BY <1>0, <1>1 DEF Acquire, CallTypes, initVars
  <2> QED
    BY <1>0, <1>1, <2>1 DEF TypeOK, Acquire, InitiatorTypes, FlagTypes, PeerTypes, NetTypes, initVars, peerVars
<1>2. CASE StartLink(w)
  <2> DEFINE k == opened + 1
  <2>1. k \in Links /\ opened' = k
    BY <1>0, <1>2 DEF StartLink, InitiatorTypes, Links
  <2>2. ist' \in LinkStates /\ iage' \in [Links -> Nat]
    BY <1>0, <1>2, <2>1 DEF StartLink, InitiatorTypes, LinkStates
  <2>3. InitiatorTypes'
    BY <1>0, <1>2, <2>1, <2>2 DEF StartLink, InitiatorTypes, LinkStates, Links
  <2>4. CallTypes'
    <3>1. CASE ReturnError(w)
      BY <3>1, ReturnTypes
    <3>2. CASE ~ReturnError(w)
      BY <1>0, <1>2, <2>1, <3>2 DEF StartLink, CallTypes
    <3> QED
      BY <3>1, <3>2
  <2>5. NetTypes'
    <3>1. LRReq(k) \in Packets
      BY <2>1, PacketTypesOK DEF LRReq, Packets
    <3>2. faults' \in 0 .. MaxFaults
      BY <1>2, FaultType DEF StartLink
    <3> QED
      BY <1>0, <1>2, <3>1, <3>2 DEF StartLink, NetTypes
  <2> QED
    BY <1>0, <1>2, <2>3, <2>4, <2>5 DEF TypeOK, StartLink, FlagTypes, PeerTypes, peerVars
<1>3. CASE AwaitActive(w)
  <2>1. at[w] \in Links
    BY <1>0, <1>3 DEF AwaitActive, CallTypes
  <2>2. ist' \in LinkStates /\ ikey' \in [Links -> Nat]
    BY <1>0, <1>3, <2>1, CloseTypes DEF AwaitActive, InitiatorTypes
  <2>3. CallTypes'
    <3>1. CASE ReturnError(w)
      BY <3>1, ReturnTypes
    <3>2. CASE ~ReturnError(w)
      BY <1>0, <1>3, <3>2 DEF AwaitActive, CallTypes
    <3> QED
      BY <3>1, <3>2
  <2> QED
    BY <1>0, <1>3, <2>2, <2>3 DEF TypeOK, AwaitActive, InitiatorTypes, FlagTypes, PeerTypes, NetTypes, LinkStates, peerVars
<1>4. CASE HandshakeTimeout(w)
  <2>1. at[w] \in Links
    BY <1>0, <1>4 DEF HandshakeTimeout, CallTypes
  <2>2. ist' \in LinkStates /\ ikey' \in [Links -> Nat] /\ CallTypes' /\ faults' \in 0 .. MaxFaults
    BY <1>4, <2>1, CloseTypes, ReturnTypes, DeadlineType DEF HandshakeTimeout
  <2> QED
    BY <1>0, <1>4, <2>2 DEF TypeOK, HandshakeTimeout, InitiatorTypes, FlagTypes, PeerTypes, NetTypes, LinkStates, peerVars
<1>5. CASE Prepare(w)
  <2>1. at[w] \in Links /\ Call(w) \in Calls
    BY <1>0, <1>5, CallType DEF Prepare, CallTypes
  <2>2. CallTypes'
    <3>1. CASE ReturnError(w)
      BY <3>1, ReturnTypes
    <3>2. CASE ~ReturnError(w)
      BY <1>0, <1>5, <2>1, <3>2 DEF Prepare, CallTypes, InitiatorTypes
    <3> QED
      BY <3>1, <3>2
  <2> QED
    BY <1>0, <1>5, <2>2 DEF TypeOK, Prepare, InitiatorTypes, FlagTypes, PeerTypes, NetTypes, peerVars
<1>6. CASE Transmit(w)
  <2>1. at[w] \in Links /\ Call(w) \in Calls /\ seal[w] \in Nat
    BY <1>0, <1>6, CallType DEF Transmit, CallTypes
  <2>2. CallTypes'
    <3>1. CASE ReturnError(w)
      BY <3>1, ReturnTypes
    <3>2. CASE ~ReturnError(w)
      BY <1>0, <1>6, <2>1, <3>2 DEF Transmit, CallTypes
    <3> QED
      BY <3>1, <3>2
  <2>3. net' \subseteq Packets
    BY <1>0, <1>6, <2>1, PacketTypesOK DEF Transmit, NetTypes
  <2>4. faults' \in 0 .. MaxFaults
    BY <1>6, FaultType DEF Transmit
  <2> QED
    BY <1>0, <1>6, <2>2, <2>3, <2>4 DEF TypeOK, Transmit, InitiatorTypes, FlagTypes, PeerTypes, NetTypes, peerVars
<1>7. CASE Proven(w)
  <2>1. CallTypes'
    BY <1>7, ReturnTypes DEF Proven
  <2> QED
    BY <1>0, <1>7, <2>1 DEF TypeOK, Proven, InitiatorTypes, FlagTypes, PeerTypes, NetTypes, peerVars
<1>8. CASE ProofTimeout(w)
  <2>1. at[w] \in Links
    BY <1>0, <1>8 DEF ProofTimeout, CallTypes
  <2>2. ist' \in LinkStates /\ ikey' \in [Links -> Nat] /\ CallTypes' /\ faults' \in 0 .. MaxFaults
    BY <1>8, <2>1, CloseTypes, ReturnTypes, DeadlineType DEF ProofTimeout
  <2> QED
    BY <1>0, <1>8, <2>2 DEF TypeOK, ProofTimeout, InitiatorTypes, FlagTypes, PeerTypes, NetTypes, LinkStates, peerVars
<1>9. CASE Transfer(w)
  <2>1. CallTypes'
    BY <1>0, <1>9 DEF Transfer, CallTypes, initVars
  <2> QED
    BY <1>0, <1>9, <2>1 DEF TypeOK, Transfer, InitiatorTypes, FlagTypes, PeerTypes, NetTypes, initVars, peerVars
<1>10. CASE TransferDone(w)
  <2>1. CallTypes' /\ Call(w) \in Calls
    BY <1>10, ReturnTypes, CallType DEF TransferDone
  <2> QED
    BY <1>0, <1>10, <2>1 DEF TypeOK, TransferDone, InitiatorTypes, FlagTypes, PeerTypes, NetTypes
<1>11. CASE TransferFails(w)
  <2>1. at[w] \in Links
    BY <1>0, <1>11 DEF TransferFails, CallTypes
  <2>2. CallTypes'
    BY <1>11, ReturnTypes DEF TransferFails
  <2>3. ist' \in LinkStates /\ ikey' \in [Links -> Nat]
    BY <1>0, <1>11, <2>1, CloseTypes DEF TransferFails, InitiatorTypes
  <2>4. faults' \in 0 .. MaxFaults
    <3>1. Deadline(w) \/ UNCHANGED faults \/ Fault("sendfail") \/ Fault("abort")
      BY <1>11 DEF TransferFails
    <3> QED
      BY <3>1, DeadlineType, FaultType
  <2> QED
    BY <1>0, <1>11, <2>2, <2>3, <2>4 DEF TypeOK, TransferFails, InitiatorTypes, FlagTypes, PeerTypes, NetTypes, LinkStates, peerVars
<1> QED
  BY <1>1, <1>2, <1>3, <1>4, <1>5, <1>6, <1>7, <1>8, <1>9, <1>10, <1>11 DEF Sender

\* The steps of the dispatchers keep the types.
LEMMA DispatchTypes ==
  ASSUME TypeOK, NEW p \in net, Dispatch(p)
  PROVE  TypeOK'
<1>0. /\ ist \in LinkStates /\ FlagTypes /\ InitiatorTypes /\ CallTypes /\ PeerTypes /\ NetTypes
      /\ p \in Packets /\ p.link \in Links
  BY PacketFields DEF TypeOK, InitiatorTypes, LinkStates, NetTypes
<1>1. CASE FindLink(p)
  <2>1. net' \subseteq Packets /\ faults' \in 0 .. MaxFaults
    BY <1>1, TakeTypes DEF FindLink
  <2>2. InitiatorTypes'
    BY <1>0, <1>1 DEF FindLink, InitiatorTypes
  <2> QED
    BY <1>0, <1>1, <2>1, <2>2 DEF TypeOK, FindLink, FlagTypes, CallTypes, PeerTypes, NetTypes, callVars, peerVars
<1>2. CASE LinkProof(p)
  <2>1. net' \subseteq Packets /\ faults' \in 0 .. MaxFaults
    BY <1>2, TakeTypes DEF LinkProof
  <2>2. p.call \in Calls /\ p.call[1] \in Workers
    BY <1>0, <1>2, PacketFields DEF LinkProof, Carries
  <2>3. InitiatorTypes'
    BY <1>0, <1>2 DEF LinkProof, InitiatorTypes
  <2>4. CallTypes'
    BY <1>0, <1>2, <2>2 DEF LinkProof, CallTypes
  <2> QED
    BY <1>0, <1>2, <2>1, <2>2, <2>3, <2>4 DEF TypeOK, LinkProof, FlagTypes, PeerTypes, NetTypes, peerVars
<1>3. CASE LinkPong(p)
  <2>1. net' \subseteq Packets /\ faults' \in 0 .. MaxFaults
    BY <1>3, TakeTypes DEF LinkPong
  <2>2. InitiatorTypes'
    BY <1>0, <1>3 DEF LinkPong, InitiatorTypes
  <2> QED
    BY <1>0, <1>3, <2>1, <2>2 DEF TypeOK, LinkPong, FlagTypes, CallTypes, PeerTypes, NetTypes, callVars, peerVars
<1>4. CASE AcceptRequest(p)
  <2>1. LRProofs(p.link, minted + 1) \subseteq Packets
    BY <1>0 DEF LRProofs, Packets, PeerTypes
  <2>2. net' \subseteq Packets /\ faults' \in 0 .. MaxFaults
    BY <1>4, <2>1, TakeTypes DEF AcceptRequest
  <2>3. PeerTypes'
    BY <1>0, <1>4 DEF AcceptRequest, PeerTypes
  <2> QED
    BY <1>0, <1>4, <2>2, <2>3 DEF TypeOK, AcceptRequest, InitiatorTypes, FlagTypes, CallTypes, NetTypes, initVars, callVars
<1>5. CASE LinkData(p)
  <2>1. p.call \in Calls
    BY <1>0, <1>5, PacketFields DEF LinkData, Carries
  <2>2. Proofs(p.link, p.call) \subseteq Packets
    BY <1>0, <2>1 DEF Proofs, Packets
  <2>3. net' \subseteq Packets /\ faults' \in 0 .. MaxFaults
    BY <1>5, <2>2, TakeTypes DEF LinkData
  <2>4. PeerTypes'
    BY <1>0, <1>5, <2>1 DEF LinkData, PeerTypes
  <2> QED
    BY <1>0, <1>5, <2>3, <2>4 DEF TypeOK, LinkData, InitiatorTypes, FlagTypes, CallTypes, NetTypes, initVars, callVars
<1>6. CASE LinkPing(p)
  <2>1. {Pong(p.link)} \subseteq Packets
    BY <1>0 DEF Pong, Packets
  <2>2. net' \subseteq Packets /\ faults' \in 0 .. MaxFaults
    BY <1>6, <2>1, TakeTypes DEF LinkPing
  <2>3. PeerTypes'
    BY <1>0, <1>6 DEF LinkPing, PeerTypes
  <2> QED
    BY <1>0, <1>6, <2>2, <2>3 DEF TypeOK, LinkPing, InitiatorTypes, FlagTypes, CallTypes, NetTypes, initVars, callVars
<1> QED
  BY <1>1, <1>2, <1>3, <1>4, <1>5, <1>6 DEF Dispatch

\* The steps of the sweepers keep the types.
LEMMA SweeperTypes ==
  ASSUME TypeOK, Sweepers
  PROVE  TypeOK'
<1>0. /\ ist \in LinkStates /\ FlagTypes /\ InitiatorTypes /\ CallTypes /\ PeerTypes /\ NetTypes
  BY DEF TypeOK, InitiatorTypes, LinkStates
<1>1. CASE SweepScan
  <2>1. InitiatorTypes'
    BY <1>0, <1>1 DEF SweepScan, InitiatorTypes
  <2>2. FlagTypes'
    BY <1>0, <1>1 DEF SweepScan, FlagTypes
  <2> QED
    BY <1>0, <1>1, <2>1, <2>2 DEF TypeOK, SweepScan, CallTypes, PeerTypes, NetTypes, callVars, peerVars
<1>2. ASSUME NEW a \in sweep, SweepStep(a) PROVE TypeOK'
  <2>1. a[1] \in Links
    BY <1>0 DEF InitiatorTypes
  <2>2. ist' \in LinkStates /\ ikey' \in [Links -> Nat]
    BY <1>0, <1>2, <2>1, CloseTypes DEF SweepStep, InitiatorTypes
  <2>3. InitiatorTypes'
    BY <1>0, <1>2, <2>1, <2>2 DEF SweepStep, InitiatorTypes, LinkStates
  <2>4. Ping(a[1]) \in Packets
    BY <2>1 DEF Ping, Packets
  <2>5. NetTypes'
    <3>1. faults' \in 0 .. MaxFaults
      BY <1>2, FaultType DEF SweepStep
    <3> QED
      BY <1>0, <1>2, <2>4, <3>1 DEF SweepStep, NetTypes
  <2> QED
    BY <1>0, <1>2, <2>3, <2>5 DEF TypeOK, SweepStep, FlagTypes, CallTypes, PeerTypes, callVars, peerVars
<1>3. CASE PeerSweepScan
  <2>1. PeerTypes'
    BY <1>0, <1>3 DEF PeerSweepScan, PeerTypes
  <2> QED
    BY <1>0, <1>3, <2>1 DEF TypeOK, PeerSweepScan, InitiatorTypes, FlagTypes, CallTypes, NetTypes, initVars, callVars
<1>4. ASSUME NEW k \in rsweep, PeerSweepStep(k) PROVE TypeOK'
  <2>1. PeerTypes'
    BY <1>0, <1>4 DEF PeerSweepStep, PeerTypes
  <2> QED
    BY <1>0, <1>4, <2>1 DEF TypeOK, PeerSweepStep, InitiatorTypes, FlagTypes, CallTypes, NetTypes, initVars, callVars
<1> QED
  BY <1>1, <1>2, <1>3, <1>4 DEF Sweepers

\* The environment keeps the types.
LEMMA EnvironmentTypes ==
  ASSUME TypeOK, Environment
  PROVE  TypeOK'
<1>0. /\ ist \in LinkStates /\ FlagTypes /\ InitiatorTypes /\ CallTypes /\ PeerTypes /\ NetTypes
  BY DEF TypeOK, InitiatorTypes, LinkStates
<1>1. CASE Tick
  <2>1. InitiatorTypes'
    BY <1>0, <1>1 DEF Tick, InitiatorTypes
  <2>2. FlagTypes'
    BY <1>0, <1>1 DEF Tick, FlagTypes
  <2>3. PeerTypes'
    BY <1>0, <1>1 DEF Tick, PeerTypes
  <2> QED
    BY <1>0, <1>1, <2>1, <2>2, <2>3 DEF TypeOK, Tick, CallTypes, NetTypes, callVars
<1>2. ASSUME NEW p \in net, Lose(p) PROVE TypeOK'
  <2>1. NetTypes'
    BY <1>0, <1>2, FaultType DEF Lose, NetTypes
  <2> QED
    BY <1>0, <1>2, <2>1 DEF TypeOK, Lose, InitiatorTypes, FlagTypes, CallTypes, PeerTypes, initVars, callVars, peerVars
<1>3. CASE Restart
  <2>1. PeerTypes' /\ faults' \in 0 .. MaxFaults
    BY <1>0, <1>3, FaultType DEF Restart, PeerTypes
  <2> QED
    BY <1>0, <1>3, <2>1 DEF TypeOK, Restart, InitiatorTypes, FlagTypes, CallTypes, NetTypes, initVars, callVars
<1>4. CASE Evict
  <2>1. FlagTypes'
    BY <1>0, <1>4 DEF Evict, FlagTypes
  <2>2. faults' \in 0 .. MaxFaults
    BY <1>4, FaultType DEF Evict
  <2> QED
    BY <1>0, <1>4, <2>1, <2>2 DEF TypeOK, Evict, InitiatorTypes, CallTypes, PeerTypes, NetTypes, callVars, peerVars
<1>5. CASE Announced
  <2>1. FlagTypes'
    BY <1>0, <1>5 DEF Announced, FlagTypes
  <2> QED
    BY <1>0, <1>5, <2>1 DEF TypeOK, Announced, InitiatorTypes, CallTypes, PeerTypes, NetTypes, callVars, peerVars
<1> QED
  BY <1>1, <1>2, <1>3, <1>4, <1>5 DEF Environment

\* HandleLRProof keeps the types.
LEMMA LRProofTypes ==
  ASSUME TypeOK, HandleLRProof
  PROVE  TypeOK'
<1>0. /\ ist \in LinkStates /\ FlagTypes /\ InitiatorTypes /\ CallTypes /\ PeerTypes /\ NetTypes
  BY DEF TypeOK, InitiatorTypes, LinkStates
<1>1. busy \in Packets /\ busy.type = "LRPROOF"
  BY <1>0 DEF HandleLRProof, InitiatorTypes
<1>2. busy.link \in Links /\ busy.key \in Nat
  BY <1>1, PacketFields
<1>3. InitiatorTypes'
  BY <1>0, <1>2 DEF HandleLRProof, InitiatorTypes
<1> QED
  BY <1>0, <1>3 DEF HandleLRProof, TypeOK, FlagTypes, CallTypes, PeerTypes, NetTypes, callVars, peerVars

\* Every step keeps the types.
LEMMA TypeStep == TypeOK /\ [Next]_vars => TypeOK'
<1> SUFFICES ASSUME TypeOK, [Next]_vars PROVE TypeOK'
  OBVIOUS
<1>1. CASE UNCHANGED vars
  <2>1. InitiatorTypes' /\ FlagTypes'
    BY <1>1 DEF TypeOK, InitiatorTypes, FlagTypes, vars, initVars
  <2>2. CallTypes' /\ PeerTypes' /\ NetTypes'
    BY <1>1 DEF TypeOK, CallTypes, PeerTypes, NetTypes, vars, initVars, callVars, peerVars
  <2> QED
    BY <2>1, <2>2 DEF TypeOK
<1>2. ASSUME NEW w \in Workers, PeerUnknown(w) PROVE TypeOK'
  <2>1. InitiatorTypes' /\ FlagTypes'
    BY <1>2 DEF PeerUnknown, TypeOK, InitiatorTypes, FlagTypes, initVars
  <2>2. CallTypes' /\ PeerTypes' /\ NetTypes'
    BY <1>2 DEF PeerUnknown, TypeOK, CallTypes, PeerTypes, NetTypes, initVars, callVars, peerVars
  <2> QED
    BY <2>1, <2>2 DEF TypeOK
<1> QED
  BY <1>1, <1>2, SenderTypes, DispatchTypes, SweeperTypes, EnvironmentTypes, LRProofTypes DEF Next, Finished

-----------------------------------------------------------------------------
(* The steps *)

\* A link goes on, or not at all.
Moved(k) ==
  \/ ist'[k] = ist[k]
  \/ ist[k] = "pending" /\ ist'[k] \in {"active", "closed"}
  \/ ist[k] = "active" /\ ist'[k] = "closed"

Held == {"ready", "armed", "wait", "transfer"}

\* CloseLink moves a link, and so does a step that leaves the links alone.
LEMMA CloseMoves ==
  ASSUME TypeOK, NEW j \in Links, CloseLink(j) \/ ist' = ist
  PROVE  \A k \in Links : Moved(k)
BY DEF CloseLink, Registered, Moved, TypeOK, InitiatorTypes

\* LinksOK, when no link is opened.
LEMMA LinksStep ==
  ASSUME TypeOK, TypeOK', LinksOK, opened' = opened,
         \A k \in Links : Moved(k),
         \A w \in Workers : pc'[w] \in Held =>
             (pc[w] \in Held /\ at'[w] = at[w]) \/ ist'[at'[w]] \in {"active", "closed"}
  PROVE  LinksOK'
<1>1. \A k \in Links : k > opened' => ist'[k] = "none"
  BY DEF LinksOK, Moved
<1>2. ASSUME NEW w \in Workers, pc'[w] \in Held PROVE ist'[at'[w]] \in {"active", "closed"}
  <2>1. CASE pc[w] \in Held /\ at'[w] = at[w]
    <3>1. at[w] \in Links /\ ist[at[w]] \in {"active", "closed"}
      BY <2>1 DEF Held, TypeOK, CallTypes, LinksOK
    <3> QED
      BY <2>1, <3>1 DEF Moved
  <2> QED
    BY <1>2, <2>1
<1> QED
  BY <1>1, <1>2 DEF LinksOK, Held

\* A step that is none of a call's: packets move, links move.
LEMMA QuietStep ==
  ASSUME IInv, TypeOK',
         UNCHANGED <<pc, at, calls, waiters, signalled, acked, heard, opened>>,
         \A k \in Links : Moved(k),
         got \subseteq got',
         \A p \in net' \ net : Carries(p) =>
            /\ p.type = "PROOF" => p.call \in got'
            /\ \E q \in net : Carries(q) /\ q.call = p.call /\ q.link = p.link
  PROVE  IInv'
<1>1. LinksOK'
  BY LinksStep DEF IInv
<1>2. Waiting'
  BY DEF IInv, Waiting, Call
<1>3. OnWire'
  <2>1. \A p \in net' : p.type = "PROOF" => p.call \in got'
    BY DEF IInv, OnWire, Carries
  <2>2. \A p \in net' : Carries(p) =>
          /\ p.call[2] <= calls[p.call[1]]
          /\ p.call[2] = calls[p.call[1]] => /\ pc[p.call[1]] \notin Early
                                             /\ pc[p.call[1]] = "wait" => p.link = at[p.call[1]]
    <3> SUFFICES ASSUME NEW p \in net', Carries(p)
                 PROVE  /\ p.call[2] <= calls[p.call[1]]
                        /\ p.call[2] = calls[p.call[1]] => /\ pc[p.call[1]] \notin Early
                                                           /\ pc[p.call[1]] = "wait" => p.link = at[p.call[1]]
      OBVIOUS
    <3>1. PICK q \in net : Carries(q) /\ q.call = p.call /\ q.link = p.link
      OBVIOUS
    <3> QED
      BY <3>1 DEF IInv, OnWire
  <2> QED
    BY <2>1, <2>2 DEF IInv, OnWire
<1>4. SuccessIsDelivered'
  BY DEF IInv, SuccessIsDelivered
<1>5. ProofWakes'
  <2> SUFFICES ASSUME NEW w \in Workers, pc[w] \in {"armed", "wait"}, Call(w) \in heard, w \notin signalled
               PROVE  ist'[at[w]] = "closed"
    BY DEF ProofWakes, Call
  <2>1. ist[at[w]] = "closed" /\ at[w] \in Links
    BY DEF IInv, ProofWakes, TypeOK, CallTypes
  <2> QED
    BY <2>1 DEF Moved
<1> QED
  BY <1>1, <1>2, <1>3, <1>4, <1>5 DEF IInv

\* What the return of a call changes.
LEMMA ReturnEffect ==
  ASSUME TypeOK, NEW w \in Workers, ReturnError(w) \/ ReturnNil(w)
  PROVE  /\ pc' = [pc EXCEPT ![w] = "idle"] /\ at' = at /\ calls' = calls
         /\ signalled' = signalled \ {w}
         /\ waiters' = [k \in Links |-> IF k = at[w] THEN waiters[k] \ {Call(w)} ELSE waiters[k]]
         /\ acked' \subseteq acked \cup {Call(w)}
         /\ pc'[w] = "idle" /\ \A v \in Workers : v # w => pc'[v] = pc[v]
BY DEF ReturnError, ReturnNil, TypeOK, CallTypes

\* A call returns.
LEMMA ReturnStep ==
  ASSUME IInv, TypeOK', NEW w \in Workers, ReturnError(w) \/ ReturnNil(w),
         LinksOK',
         \A k \in Links : ist[k] = "closed" => ist'[k] = "closed",
         got \subseteq got', acked' \subseteq got', heard' = heard,
         \A p \in net' \ net : p.type = "DATA" => p.call = Call(w) /\ p.link = at[w],
         \A p \in net' \ net : p.type # "PROOF"
  PROVE  IInv'
<1>1. /\ pc' = [pc EXCEPT ![w] = "idle"] /\ at' = at /\ calls' = calls
      /\ signalled' = signalled \ {w}
      /\ waiters' = [k \in Links |-> IF k = at[w] THEN waiters[k] \ {Call(w)} ELSE waiters[k]]
      /\ pc'[w] = "idle" /\ \A v \in Workers : v # w => pc'[v] = pc[v]
  BY ReturnEffect DEF IInv
<1>2. \A v \in Workers : Call(v)' = Call(v) /\ Call(v)[1] = v /\ Call(v)[2] = calls[v]
  BY <1>1 DEF Call
<1>3. Waiting'
  <2>1. ASSUME NEW k \in Links, NEW c \in waiters'[k]
        PROVE  c[2] = calls'[c[1]] /\ pc'[c[1]] \in {"armed", "wait"} /\ at'[c[1]] = k
    <3>1. c \in waiters[k] /\ (k = at[w] => c # Call(w)) /\ c \in Calls
      BY <1>1, <2>1 DEF IInv, TypeOK, CallTypes
    <3>2. c[2] = calls[c[1]] /\ pc[c[1]] \in {"armed", "wait"} /\ at[c[1]] = k /\ c[1] \in Workers
          /\ c = <<c[1], c[2]>>
      BY <3>1 DEF IInv, Waiting, Calls
    <3>3. c[1] # w
      BY <3>1, <3>2 DEF Call
    <3> QED
      BY <1>1, <3>2, <3>3
  <2>2. ASSUME NEW v \in Workers, pc'[v] \in {"armed", "wait"}
        PROVE  v \in signalled' \/ Call(v)' \in waiters'[at'[v]]
    <3>1. v # w /\ pc[v] \in {"armed", "wait"} /\ at[v] \in Links
      BY <1>1, <2>2 DEF IInv, TypeOK, CallTypes
    <3>2. v \in signalled \/ Call(v) \in waiters[at[v]]
      BY <3>1 DEF IInv, Waiting
    <3>3. Call(v) # Call(w)
      BY <3>1 DEF Call
    <3> QED
      BY <1>1, <1>2, <3>1, <3>2, <3>3
  <2>3. ASSUME NEW v \in signalled' PROVE pc'[v] \in {"armed", "wait"} /\ Call(v)' \in got'
    <3>1. v \in Workers /\ v # w /\ v \in signalled
      BY <1>1 DEF IInv, TypeOK, CallTypes
    <3> QED
      BY <1>1, <1>2, <3>1 DEF IInv, Waiting
  <2> QED
    BY <2>1, <2>2, <2>3 DEF Waiting
<1>4. OnWire'
  <2>1. \A p \in net' : p.type = "PROOF" => p.call \in got'
    BY DEF IInv, OnWire
  <2>2. ASSUME NEW p \in net', Carries(p)
        PROVE  /\ p.call[2] <= calls'[p.call[1]]
               /\ p.call[2] = calls'[p.call[1]] => /\ pc'[p.call[1]] \notin Early
                                                   /\ pc'[p.call[1]] = "wait" => p.link = at'[p.call[1]]
    <3>1. p.call[1] \in Workers
      BY <2>2, PacketFields DEF TypeOK, NetTypes
    <3>2. CASE p \in net
      <4>1. /\ p.call[2] <= calls[p.call[1]]
            /\ p.call[2] = calls[p.call[1]] => /\ pc[p.call[1]] \notin Early
                                               /\ pc[p.call[1]] = "wait" => p.link = at[p.call[1]]
        BY <2>2, <3>2 DEF IInv, OnWire
      <4> QED
        BY <1>1, <3>1, <4>1 DEF Early
    <3>3. CASE p \notin net
      <4>1. p.call = Call(w)
        BY <2>2, <3>3 DEF Carries
      <4>2. p.call[1] = w /\ p.call[2] = calls[w] /\ calls[w] \in Nat
        BY <4>1, CallType DEF IInv
      <4> QED
        BY <1>1, <4>2 DEF Early
    <3> QED
      BY <3>2, <3>3
  <2>3. ASSUME NEW c \in heard'
        PROVE  c[2] <= calls'[c[1]] /\ (c[2] = calls'[c[1]] => pc'[c[1]] \notin Early)
    <3>1. c[1] \in Workers
      BY DEF TypeOK, NetTypes, Calls
    <3> QED
      BY <1>1, <3>1 DEF IInv, OnWire, Early
  <2> QED
    BY <2>1, <2>2, <2>3 DEF OnWire
<1>5. SuccessIsDelivered'
  BY DEF SuccessIsDelivered
<1>6. ProofWakes'
  <2> SUFFICES ASSUME NEW v \in Workers, pc'[v] \in {"armed", "wait"}, Call(v)' \in heard', v \notin signalled'
               PROVE  ist'[at'[v]] = "closed"
    BY DEF ProofWakes
  <2>1. v # w /\ pc[v] \in {"armed", "wait"} /\ Call(v) \in heard /\ v \notin signalled
    BY <1>1, <1>2
  <2>2. ist[at[v]] = "closed" /\ at[v] \in Links
    BY <2>1 DEF IInv, ProofWakes, TypeOK, CallTypes
  <2> QED
    BY <1>1, <2>2
<1> QED
  BY <1>3, <1>4, <1>5, <1>6 DEF IInv

\* A call goes from one place to another and nothing else happens to the calls.
LEMMA GoStep ==
  ASSUME IInv, TypeOK', NEW w \in Workers, NEW place \in {"open", "await", "ready", "transfer"},
         pc[w] \in {"open", "await", "ready"},
         pc' = [pc EXCEPT ![w] = place],
         \A v \in Workers : v # w => at'[v] = at[v],
         UNCHANGED <<calls, waiters, signalled, acked, heard, got>>,
         LinksOK',
         \A k \in Links : ist[k] = "closed" => ist'[k] = "closed",
         \A p \in net' \ net : ~Carries(p)
  PROVE  IInv'
<1>1. pc'[w] = place /\ \A v \in Workers : v # w => pc'[v] = pc[v]
  BY DEF IInv, TypeOK, CallTypes
<1>2. \A v \in Workers : Call(v)' = Call(v)
  BY DEF Call
<1>3. Waiting'
  <2>1. ASSUME NEW k \in Links, NEW c \in waiters'[k]
        PROVE  c[2] = calls'[c[1]] /\ pc'[c[1]] \in {"armed", "wait"} /\ at'[c[1]] = k
    <3>1. c[1] \in Workers /\ c \in waiters[k]
      BY DEF IInv, TypeOK, CallTypes, Calls
    <3>2. c[1] # w
      BY <3>1 DEF IInv, Waiting
    <3> QED
      BY <1>1, <3>1, <3>2 DEF IInv, Waiting
  <2>2. ASSUME NEW v \in Workers, pc'[v] \in {"armed", "wait"}
        PROVE  v \in signalled' \/ Call(v)' \in waiters'[at'[v]]
    BY <1>1, <1>2, <2>2 DEF IInv, Waiting
  <2>3. ASSUME NEW v \in signalled' PROVE pc'[v] \in {"armed", "wait"} /\ Call(v)' \in got'
    <3>1. v \in Workers /\ v \in signalled /\ v # w
      BY DEF IInv, TypeOK, CallTypes, Waiting
    <3> QED
      BY <1>1, <1>2, <3>1 DEF IInv, Waiting
  <2> QED
    BY <2>1, <2>2, <2>3 DEF Waiting
<1>4. OnWire'
  <2>1. \A p \in net' : p.type = "PROOF" => p.call \in got'
    BY DEF IInv, OnWire, Carries
  <2>2. ASSUME NEW p \in net', Carries(p)
        PROVE  /\ p.call[2] <= calls'[p.call[1]]
               /\ p.call[2] = calls'[p.call[1]] => /\ pc'[p.call[1]] \notin Early
                                                   /\ pc'[p.call[1]] = "wait" => p.link = at'[p.call[1]]
    <3>1. p.call[1] \in Workers /\ p \in net
      BY <2>2, PacketFields DEF TypeOK, NetTypes
    <3>2. /\ p.call[2] <= calls[p.call[1]]
          /\ p.call[2] = calls[p.call[1]] => /\ pc[p.call[1]] \notin Early
                                             /\ pc[p.call[1]] = "wait" => p.link = at[p.call[1]]
      BY <2>2, <3>1 DEF IInv, OnWire
    <3> QED
      BY <1>1, <3>1, <3>2 DEF Early
  <2>3. ASSUME NEW c \in heard'
        PROVE  c[2] <= calls'[c[1]] /\ (c[2] = calls'[c[1]] => pc'[c[1]] \notin Early)
    <3>1. c[1] \in Workers
      BY DEF TypeOK, NetTypes, Calls
    <3> QED
      BY <1>1, <3>1 DEF IInv, OnWire, Early
  <2> QED
    BY <2>1, <2>2, <2>3 DEF OnWire
<1>5. SuccessIsDelivered'
  BY DEF IInv, SuccessIsDelivered
<1>6. ProofWakes'
  <2> SUFFICES ASSUME NEW v \in Workers, pc'[v] \in {"armed", "wait"}, Call(v)' \in heard', v \notin signalled'
               PROVE  ist'[at'[v]] = "closed"
    BY DEF ProofWakes
  <2>1. v # w /\ pc[v] \in {"armed", "wait"} /\ Call(v) \in heard /\ v \notin signalled
    BY <1>1, <1>2
  <2>2. ist[at[v]] = "closed" /\ at[v] \in Links
    BY <2>1 DEF IInv, ProofWakes, TypeOK, CallTypes
  <2> QED
    BY <2>1, <2>2
<1> QED
  BY <1>3, <1>4, <1>5, <1>6 DEF IInv

\* A call begins: it is new.
LEMMA AcquireStep ==
  ASSUME IInv, TypeOK', NEW w \in Workers, Acquire(w)
  PROVE  IInv'
<1>1. /\ pc[w] = "idle" /\ pc'[w] \in {"open", "ready"}
      /\ \A v \in Workers : v # w => pc'[v] = pc[v] /\ at'[v] = at[v] /\ calls'[v] = calls[v]
      /\ calls'[w] = calls[w] + 1 /\ calls[w] \in Nat
      /\ pc'[w] = "ready" => ist[at'[w]] = "active"
  BY DEF Acquire, IInv, TypeOK, CallTypes
<1>2. UNCHANGED <<ist, opened, waiters, signalled, acked, heard, got, net>>
  BY DEF Acquire, initVars, peerVars
<1>3. LinksOK'
  <2>1. \A k \in Links : Moved(k)
    BY <1>2 DEF Moved
  <2>2. \A v \in Workers : pc'[v] \in Held =>
          (pc[v] \in Held /\ at'[v] = at[v]) \/ ist'[at'[v]] \in {"active", "closed"}
    BY <1>1, <1>2 DEF Held
  <2> QED
    BY <1>2, <2>1, <2>2, LinksStep DEF IInv
<1>4. \A v \in Workers : v # w => Call(v)' = Call(v)
  BY <1>1 DEF Call
<1>5. Waiting'
  <2>1. ASSUME NEW k \in Links, NEW c \in waiters'[k]
        PROVE  c[2] = calls'[c[1]] /\ pc'[c[1]] \in {"armed", "wait"} /\ at'[c[1]] = k
    <3>1. c[1] \in Workers /\ c \in waiters[k]
      BY <1>2 DEF IInv, TypeOK, CallTypes, Calls
    <3>2. c[1] # w
      BY <1>1, <3>1 DEF IInv, Waiting
    <3> QED
      BY <1>1, <3>1, <3>2 DEF IInv, Waiting
  <2>2. ASSUME NEW v \in Workers, pc'[v] \in {"armed", "wait"}
        PROVE  v \in signalled' \/ Call(v)' \in waiters'[at'[v]]
    BY <1>1, <1>2, <1>4, <2>2 DEF IInv, Waiting
  <2>3. ASSUME NEW v \in signalled' PROVE pc'[v] \in {"armed", "wait"} /\ Call(v)' \in got'
    <3>1. v \in Workers /\ v \in signalled /\ v # w
      BY <1>1, <1>2 DEF IInv, TypeOK, CallTypes, Waiting
    <3> QED
      BY <1>1, <1>2, <1>4, <3>1 DEF IInv, Waiting
  <2> QED
    BY <2>1, <2>2, <2>3 DEF Waiting
<1>6. OnWire'
  <2>1. \A p \in net' : p.type = "PROOF" => p.call \in got'
    BY <1>2 DEF IInv, OnWire
  <2>2. ASSUME NEW p \in net', Carries(p)
        PROVE  /\ p.call[2] <= calls'[p.call[1]]
               /\ p.call[2] = calls'[p.call[1]] => /\ pc'[p.call[1]] \notin Early
                                                   /\ pc'[p.call[1]] = "wait" => p.link = at'[p.call[1]]
    <3>1. p.call[1] \in Workers /\ p.call[2] \in Nat /\ p \in net
      BY <1>2, <2>2, PacketFields DEF TypeOK, NetTypes
    <3>2. /\ p.call[2] <= calls[p.call[1]]
          /\ p.call[2] = calls[p.call[1]] => /\ pc[p.call[1]] \notin Early
                                             /\ pc[p.call[1]] = "wait" => p.link = at[p.call[1]]
      BY <2>2, <3>1 DEF IInv, OnWire
    <3> QED
      BY <1>1, <3>1, <3>2
  <2>3. ASSUME NEW c \in heard'
        PROVE  c[2] <= calls'[c[1]] /\ (c[2] = calls'[c[1]] => pc'[c[1]] \notin Early)
    <3>1. c[1] \in Workers /\ c[2] \in Nat /\ c \in heard
      BY <1>2 DEF TypeOK, NetTypes, Calls
    <3>2. c[2] <= calls[c[1]] /\ (c[2] = calls[c[1]] => pc[c[1]] \notin Early)
      BY <3>1 DEF IInv, OnWire
    <3> QED
      BY <1>1, <3>1, <3>2
  <2> QED
    BY <2>1, <2>2, <2>3 DEF OnWire
<1>7. SuccessIsDelivered'
  BY <1>2 DEF IInv, SuccessIsDelivered
<1>8. ProofWakes'
  <2> SUFFICES ASSUME NEW v \in Workers, pc'[v] \in {"armed", "wait"}, Call(v)' \in heard', v \notin signalled'
               PROVE  ist'[at'[v]] = "closed"
    BY DEF ProofWakes
  <2>1. v # w /\ pc[v] \in {"armed", "wait"} /\ Call(v) \in heard /\ v \notin signalled
    BY <1>1, <1>2, <1>4
  <2> QED
    BY <1>1, <1>2, <2>1 DEF IInv, ProofWakes
<1> QED
  BY <1>3, <1>5, <1>6, <1>7, <1>8 DEF IInv

\* The waiter is registered before the packet is sent.
LEMMA PrepareStep ==
  ASSUME IInv, TypeOK', NEW w \in Workers, Prepare(w)
  PROVE  IInv'
<1>0. pc[w] = "ready" /\ at[w] \in Links /\ UNCHANGED <<ist, opened, got, net, heard>>
  BY DEF Prepare, IInv, TypeOK, CallTypes, peerVars
<1>1. CASE ReturnError(w)
  <2>1. LinksOK'
    BY <1>0, <1>1, LinksStep, ReturnEffect DEF IInv, Moved, Held
  <2>2. acked' \subseteq got'
    BY <1>0, <1>1 DEF ReturnError, IInv, SuccessIsDelivered
  <2> QED
    BY <1>0, <1>1, <2>1, <2>2, ReturnStep
<1>2. CASE ~ReturnError(w)
  <2>1. /\ waiters' = [waiters EXCEPT ![at[w]] = @ \cup {Call(w)}]
        /\ pc' = [pc EXCEPT ![w] = "armed"]
        /\ UNCHANGED <<at, signalled, calls, acked>> /\ ist[at[w]] = "active"
    BY <1>2 DEF Prepare
  <2>2. pc'[w] = "armed" /\ \A v \in Workers : v # w => pc'[v] = pc[v]
    BY <2>1 DEF IInv, TypeOK, CallTypes
  <2>3. \A v \in Workers : Call(v)' = Call(v) /\ Call(v)[1] = v /\ Call(v)[2] = calls[v]
    BY <2>1 DEF Call
  <2>4. LinksOK'
    <3>1. \A v \in Workers : pc'[v] \in Held => pc[v] \in Held /\ at'[v] = at[v]
      BY <1>0, <2>1, <2>2 DEF Held
    <3> QED
      BY <1>0, <3>1, LinksStep DEF IInv, Moved
  <2>5. Waiting'
    <3>1. ASSUME NEW k \in Links, NEW c \in waiters'[k]
          PROVE  c[2] = calls'[c[1]] /\ pc'[c[1]] \in {"armed", "wait"} /\ at'[c[1]] = k
      <4>1. c \in waiters[k] \/ (k = at[w] /\ c = Call(w))
        BY <1>0, <2>1 DEF IInv, TypeOK, CallTypes
      <4>2. CASE c \in waiters[k]
        <5>1. c[1] \in Workers /\ c[1] # w
          BY <1>0, <4>2 DEF IInv, TypeOK, CallTypes, Calls, Waiting
        <5> QED
          BY <2>1, <2>2, <4>2, <5>1 DEF IInv, Waiting
      <4>3. CASE k = at[w] /\ c = Call(w)
        BY <2>1, <2>2, <2>3, <4>3
      <4> QED
        BY <4>1, <4>2, <4>3
    <3>2. ASSUME NEW v \in Workers, pc'[v] \in {"armed", "wait"}
          PROVE  v \in signalled' \/ Call(v)' \in waiters'[at'[v]]
      <4>1. CASE v = w
        BY <1>0, <2>1, <2>3, <4>1 DEF IInv, TypeOK, CallTypes
      <4>2. CASE v # w
        <5>1. pc[v] \in {"armed", "wait"} /\ at[v] \in Links
          BY <2>2, <3>2, <4>2 DEF IInv, TypeOK, CallTypes
        <5>2. v \in signalled \/ Call(v) \in waiters[at[v]]
          BY <5>1 DEF IInv, Waiting
        <5> QED
          BY <1>0, <2>1, <2>3, <5>1, <5>2 DEF IInv, TypeOK, CallTypes
      <4> QED
        BY <4>1, <4>2
    <3>3. ASSUME NEW v \in signalled' PROVE pc'[v] \in {"armed", "wait"} /\ Call(v)' \in got'
      <4>1. v \in Workers /\ v \in signalled /\ v # w
        BY <1>0, <2>1 DEF IInv, TypeOK, CallTypes, Waiting
      <4> QED
        BY <1>0, <2>2, <2>3, <4>1 DEF IInv, Waiting
    <3> QED
      BY <3>1, <3>2, <3>3 DEF Waiting
  <2>6. OnWire'
    <3>1. ASSUME NEW p \in net', Carries(p)
          PROVE  /\ p.call[2] <= calls'[p.call[1]]
                 /\ p.call[2] = calls'[p.call[1]] => /\ pc'[p.call[1]] \notin Early
                                                     /\ pc'[p.call[1]] = "wait" => p.link = at'[p.call[1]]
      <4>1. p.call[1] \in Workers /\ p \in net
        BY <1>0, <3>1, PacketFields DEF TypeOK, NetTypes
      <4>2. /\ p.call[2] <= calls[p.call[1]]
            /\ p.call[2] = calls[p.call[1]] => /\ pc[p.call[1]] \notin Early
                                               /\ pc[p.call[1]] = "wait" => p.link = at[p.call[1]]
        BY <3>1, <4>1 DEF IInv, OnWire
      <4> QED
        BY <1>0, <2>1, <2>2, <4>1, <4>2 DEF Early
    <3>2. ASSUME NEW c \in heard'
          PROVE  c[2] <= calls'[c[1]] /\ (c[2] = calls'[c[1]] => pc'[c[1]] \notin Early)
      <4>1. c[1] \in Workers /\ c \in heard
        BY <1>0 DEF TypeOK, NetTypes, Calls
      <4>2. c[2] <= calls[c[1]] /\ (c[2] = calls[c[1]] => pc[c[1]] \notin Early)
        BY <4>1 DEF IInv, OnWire
      <4> QED
        BY <1>0, <2>1, <2>2, <4>1, <4>2 DEF Early
    <3> QED
      BY <1>0, <3>1, <3>2 DEF IInv, OnWire
  <2>7. SuccessIsDelivered'
    BY <1>0, <2>1 DEF IInv, SuccessIsDelivered
  <2>8. ProofWakes'
    <3> SUFFICES ASSUME NEW v \in Workers, pc'[v] \in {"armed", "wait"}, Call(v)' \in heard', v \notin signalled'
                 PROVE  ist'[at'[v]] = "closed"
      BY DEF ProofWakes
    <3>1. Call(v) \in heard /\ v \notin signalled
      BY <1>0, <2>1, <2>3
    <3>2. v # w
      BY <1>0, <2>3, <3>1 DEF IInv, OnWire, Early
    <3> QED
      BY <1>0, <2>1, <2>2, <3>1, <3>2 DEF IInv, ProofWakes
  <2> QED
    BY <2>4, <2>5, <2>6, <2>7, <2>8 DEF IInv
<1> QED
  BY <1>1, <1>2

\* The packet is sent.
LEMMA TransmitStep ==
  ASSUME IInv, TypeOK', NEW w \in Workers, Transmit(w)
  PROVE  IInv'
<1>0. /\ pc[w] = "armed" /\ at[w] \in Links /\ UNCHANGED <<ist, opened, got, heard>>
      /\ net' \subseteq net \cup {Data(at[w], seal[w], Call(w))}
  BY DEF Transmit, IInv, TypeOK, CallTypes, peerVars
<1>1. \A p \in net' \ net : p.type = "DATA" /\ p.call = Call(w) /\ p.link = at[w]
  BY <1>0 DEF Data
<1>2. CASE ReturnError(w)
  <2>1. LinksOK'
    BY <1>0, <1>2, LinksStep, ReturnEffect DEF IInv, Moved, Held
  <2>2. acked' \subseteq got'
    BY <1>0, <1>2 DEF ReturnError, IInv, SuccessIsDelivered
  <2> QED
    BY <1>0, <1>1, <1>2, <2>1, <2>2, ReturnStep
<1>3. CASE ~ReturnError(w)
  <2>1. pc' = [pc EXCEPT ![w] = "wait"] /\ UNCHANGED <<waiters, at, signalled, calls, acked>>
    BY <1>3 DEF Transmit
  <2>2. pc'[w] = "wait" /\ \A v \in Workers : v # w => pc'[v] = pc[v]
    BY <2>1 DEF IInv, TypeOK, CallTypes
  <2>3. \A v \in Workers : Call(v)' = Call(v) /\ Call(v)[1] = v /\ Call(v)[2] = calls[v] /\ calls[v] \in Nat
    BY <2>1 DEF Call, IInv, TypeOK, CallTypes
  <2>4. LinksOK'
    <3>1. \A v \in Workers : pc'[v] \in Held => pc[v] \in Held /\ at'[v] = at[v]
      BY <1>0, <2>1, <2>2 DEF Held
    <3> QED
      BY <1>0, <3>1, LinksStep DEF IInv, Moved
  <2>5. Waiting'
    <3>1. \A v \in Workers : pc'[v] \in {"armed", "wait"} <=> pc[v] \in {"armed", "wait"}
      BY <1>0, <2>2
    <3>2. \A k \in Links : \A c \in waiters[k] : c[1] \in Workers
      BY DEF IInv, TypeOK, CallTypes, Calls
    <3>3. signalled \subseteq Workers
      BY DEF IInv, TypeOK, CallTypes
    <3> QED
      BY <1>0, <2>1, <2>3, <3>1, <3>2, <3>3 DEF IInv, Waiting
  <2>6. OnWire'
    <3>1. ASSUME NEW p \in net', Carries(p)
          PROVE  /\ p.call[2] <= calls'[p.call[1]]
                 /\ p.call[2] = calls'[p.call[1]] => /\ pc'[p.call[1]] \notin Early
                                                     /\ pc'[p.call[1]] = "wait" => p.link = at'[p.call[1]]
      <4>1. p.call[1] \in Workers
        BY <3>1, PacketFields DEF TypeOK, NetTypes
      <4>2. CASE p \in net
        <5>1. /\ p.call[2] <= calls[p.call[1]]
              /\ p.call[2] = calls[p.call[1]] => /\ pc[p.call[1]] \notin Early
                                                 /\ pc[p.call[1]] = "wait" => p.link = at[p.call[1]]
          BY <3>1, <4>2 DEF IInv, OnWire
        <5> QED
          BY <1>0, <2>1, <2>2, <4>1, <5>1 DEF Early
      <4>3. CASE p \notin net
        <5>1. p.call[1] = w /\ p.call[2] = calls[w] /\ p.link = at[w]
          BY <1>1, <2>3, <4>3
        <5> QED
          BY <2>1, <2>2, <2>3, <5>1 DEF Early
      <4> QED
        BY <4>2, <4>3
    <3>2. ASSUME NEW c \in heard'
          PROVE  c[2] <= calls'[c[1]] /\ (c[2] = calls'[c[1]] => pc'[c[1]] \notin Early)
      <4>1. c[1] \in Workers /\ c \in heard
        BY <1>0 DEF TypeOK, NetTypes, Calls
      <4>2. c[2] <= calls[c[1]] /\ (c[2] = calls[c[1]] => pc[c[1]] \notin Early)
        BY <4>1 DEF IInv, OnWire
      <4> QED
        BY <2>1, <2>2, <4>1, <4>2 DEF Early
    <3>3. \A p \in net' : p.type = "PROOF" => p.call \in got'
      BY <1>0, <1>1 DEF IInv, OnWire
    <3> QED
      BY <3>1, <3>2, <3>3 DEF OnWire
  <2>7. SuccessIsDelivered'
    BY <1>0, <2>1 DEF IInv, SuccessIsDelivered
  <2>8. ProofWakes'
    <3> SUFFICES ASSUME NEW v \in Workers, pc'[v] \in {"armed", "wait"}, Call(v)' \in heard', v \notin signalled'
                 PROVE  ist'[at'[v]] = "closed"
      BY DEF ProofWakes
    <3>1. Call(v) \in heard /\ v \notin signalled
      BY <1>0, <2>1, <2>3
    <3>2. v # w
      BY <1>0, <2>3, <3>1 DEF IInv, OnWire, Early
    <3> QED
      BY <1>0, <2>1, <2>2, <3>1, <3>2 DEF IInv, ProofWakes
  <2> QED
    BY <2>4, <2>5, <2>6, <2>7, <2>8 DEF IInv
<1> QED
  BY <1>2, <1>3

\* A proof arrives: it wakes the one call it is about, if the link is still there.
LEMMA LinkProofStep ==
  ASSUME IInv, TypeOK', NEW p \in net, LinkProof(p)
  PROVE  IInv'
<1>0. /\ UNCHANGED <<pc, at, calls, acked, ist, opened, got>>
      /\ heard' = heard \cup {p.call} /\ net' \subseteq net
  BY TakeTypes DEF LinkProof, Take, peerVars
<1>1. /\ p \in Packets /\ p.type = "PROOF" /\ Carries(p) /\ p.link \in Links
      /\ p.call \in Calls /\ p.call[1] \in Workers /\ p.call[2] \in Nat /\ p.call = <<p.call[1], p.call[2]>>
  BY PacketFields DEF LinkProof, IInv, TypeOK, NetTypes, Carries
<1>2. /\ p.call \in got /\ p.call[2] <= calls[p.call[1]]
      /\ p.call[2] = calls[p.call[1]] => /\ pc[p.call[1]] \notin Early
                                         /\ pc[p.call[1]] = "wait" => p.link = at[p.call[1]]
  BY <1>1 DEF IInv, OnWire
<1>3. \A v \in Workers : Call(v)' = Call(v) /\ Call(v)[1] = v /\ Call(v)[2] = calls[v]
  BY <1>0 DEF Call
<1>4. LinksOK'
  BY <1>0, LinksStep DEF IInv, Moved, Held
<1>5. OnWire'
  BY <1>0, <1>2 DEF IInv, OnWire
<1>6. SuccessIsDelivered'
  BY <1>0 DEF IInv, SuccessIsDelivered
<1>7. CASE ist[p.link] = "active"
  <2>1. /\ waiters' = [waiters EXCEPT ![p.link] = @ \ {p.call}]
        /\ signalled' = IF p.call \in waiters[p.link] THEN signalled \cup {p.call[1]} ELSE signalled
    BY <1>7 DEF LinkProof
  <2>2. Waiting'
    <3>1. ASSUME NEW k \in Links, NEW c \in waiters'[k]
          PROVE  c[2] = calls'[c[1]] /\ pc'[c[1]] \in {"armed", "wait"} /\ at'[c[1]] = k
      <4>1. c \in waiters[k]
        BY <1>1, <2>1 DEF IInv, TypeOK, CallTypes
      <4> QED
        BY <1>0, <4>1 DEF IInv, Waiting
    <3>2. ASSUME NEW v \in Workers, pc'[v] \in {"armed", "wait"}
          PROVE  v \in signalled' \/ Call(v)' \in waiters'[at'[v]]
      <4>1. at[v] \in Links /\ (v \in signalled \/ Call(v) \in waiters[at[v]])
        BY <1>0, <3>2 DEF IInv, TypeOK, CallTypes, Waiting
      <4>2. CASE Call(v) \in waiters[at[v]] /\ at[v] = p.link /\ Call(v) = p.call
        BY <1>3, <2>1, <4>2
      <4>3. CASE ~(at[v] = p.link /\ Call(v) = p.call)
        BY <1>0, <1>1, <1>3, <2>1, <4>1, <4>3 DEF IInv, TypeOK, CallTypes
      <4> QED
        BY <2>1, <4>1, <4>2, <4>3
    <3>3. ASSUME NEW v \in signalled' PROVE pc'[v] \in {"armed", "wait"} /\ Call(v)' \in got'
      <4>1. CASE v \in signalled
        <5>1. v \in Workers
          BY <4>1 DEF IInv, TypeOK, CallTypes
        <5> QED
          BY <1>0, <1>3, <4>1, <5>1 DEF IInv, Waiting
      <4>2. CASE v \notin signalled
        <5>1. v = p.call[1] /\ p.call \in waiters[p.link]
          BY <2>1, <4>2
        <5>2. p.call[2] = calls[v] /\ pc[v] \in {"armed", "wait"}
          BY <1>1, <5>1 DEF IInv, Waiting
        <5>3. Call(v) = p.call
          BY <1>1, <5>1, <5>2 DEF Call
        <5> QED
          BY <1>0, <1>1, <1>2, <1>3, <5>1, <5>2, <5>3
      <4> QED
        BY <4>1, <4>2
    <3> QED
      BY <3>1, <3>2, <3>3 DEF Waiting
  <2>3. ProofWakes'
    <3> SUFFICES ASSUME NEW v \in Workers, pc'[v] \in {"armed", "wait"}, Call(v)' \in heard', v \notin signalled'
                 PROVE  ist'[at'[v]] = "closed"
      BY DEF ProofWakes
    <3>1. pc[v] \in {"armed", "wait"} /\ v \notin signalled
      BY <1>0, <2>1
    <3>2. CASE Call(v) \in heard
      BY <1>0, <3>1, <3>2 DEF IInv, ProofWakes
    <3>3. CASE Call(v) = p.call
      <4>1. pc[v] = "wait" /\ p.link = at[v]
        BY <1>1, <1>2, <1>3, <3>1, <3>3 DEF Early
      <4>2. Call(v) \in waiters[at[v]]
        BY <3>1 DEF IInv, Waiting
      <4>3. v \in signalled'
        BY <1>3, <2>1, <3>3, <4>1, <4>2
      <4> QED
        BY <4>3
    <3> QED
      BY <1>0, <1>3, <3>2, <3>3
  <2> QED
    BY <1>4, <1>5, <1>6, <2>2, <2>3 DEF IInv
<1>8. CASE ist[p.link] # "active"
  <2>1. waiters' = waiters /\ signalled' = signalled
    BY <1>8 DEF LinkProof
  <2>2. Waiting'
    BY <1>0, <1>3, <2>1 DEF IInv, Waiting, TypeOK, CallTypes
  <2>3. ProofWakes'
    <3> SUFFICES ASSUME NEW v \in Workers, pc'[v] \in {"armed", "wait"}, Call(v)' \in heard', v \notin signalled'
                 PROVE  ist'[at'[v]] = "closed"
      BY DEF ProofWakes
    <3>1. pc[v] \in {"armed", "wait"} /\ v \notin signalled
      BY <1>0, <2>1
    <3>2. CASE Call(v) \in heard
      BY <1>0, <3>1, <3>2 DEF IInv, ProofWakes
    <3>3. CASE Call(v) = p.call
      <4>1. pc[v] = "wait" /\ p.link = at[v]
        BY <1>1, <1>2, <1>3, <3>1, <3>3 DEF Early
      <4> QED
        BY <1>0, <1>8, <4>1 DEF IInv, LinksOK
    <3> QED
      BY <1>0, <1>3, <3>2, <3>3
  <2> QED
    BY <1>4, <1>5, <1>6, <2>2, <2>3 DEF IInv
<1> QED
  BY <1>7, <1>8

\* Every step of a call keeps the invariant.
LEMMA SenderStep ==
  ASSUME IInv, TypeOK', NEW w \in Workers, Sender(w)
  PROVE  IInv'
<1>1. CASE Acquire(w)
  BY <1>1, AcquireStep
<1>2. CASE StartLink(w)
  <2> DEFINE k == opened + 1
  <2>1. k \in Links /\ opened' = k /\ ist[k] = "none" /\ opened \in Nat /\ pc[w] = "open"
    BY <1>2, LinkAssumption DEF StartLink, IInv, TypeOK, InitiatorTypes, Links, LinksOK
  <2>2. /\ UNCHANGED <<got, heard>> /\ ist'[k] \in {"pending", "closed"}
        /\ \A j \in Links : j # k => ist'[j] = ist[j]
    BY <1>2, <2>1 DEF StartLink, peerVars, IInv, TypeOK, InitiatorTypes
  <2>3. \A j \in Links : j > opened' => ist'[j] = "none"
    BY <2>1, <2>2 DEF IInv, LinksOK, Links
  <2>4. \A v \in Workers : v # w => at'[v] = at[v] /\ pc'[v] = pc[v]
    BY <1>2 DEF StartLink, ReturnError, IInv, TypeOK, CallTypes
  <2>5. pc'[w] \in {"await", "idle"}
    BY <1>2 DEF StartLink, ReturnError, IInv, TypeOK, CallTypes
  <2>6. LinksOK'
    <3> SUFFICES ASSUME NEW v \in Workers, pc'[v] \in Held PROVE ist'[at'[v]] \in {"active", "closed"}
      BY <2>3 DEF LinksOK, Held
    <3>1. v # w /\ pc[v] \in Held /\ at'[v] = at[v]
      BY <2>4, <2>5 DEF Held
    <3>2. at[v] \in Links /\ ist[at[v]] \in {"active", "closed"}
      BY <3>1 DEF IInv, LinksOK, Held, TypeOK, CallTypes
    <3> QED
      BY <2>1, <2>2, <3>1, <3>2
  <2>7. \A j \in Links : ist[j] = "closed" => ist'[j] = "closed"
    BY <2>1, <2>2
  <2>8. CASE ReturnError(w)
    <3>1. acked' \subseteq got' /\ net' \subseteq net \cup {LRReq(k)}
      BY <1>2, <2>2, <2>8 DEF StartLink, ReturnError, IInv, SuccessIsDelivered
    <3>2. LRReq(k).type = "LINKREQUEST"
      BY DEF LRReq
    <3>3. \A p \in net' \ net : p.type # "PROOF" /\ p.type # "DATA"
      BY <3>1, <3>2
    <3> QED
      BY <2>2, <2>6, <2>7, <2>8, <3>1, <3>3, ReturnStep
  <2>9. CASE ~ReturnError(w)
    <3>1. /\ pc' = [pc EXCEPT ![w] = "await"] /\ UNCHANGED <<calls, waiters, signalled, acked>>
          /\ net' = net \cup {LRReq(k)}
      BY <1>2, <2>9 DEF StartLink
    <3>2. \A p \in net' \ net : ~Carries(p)
      BY <3>1 DEF LRReq, Carries
    <3> QED
      BY <2>1, <2>2, <2>4, <2>6, <2>7, <3>1, <3>2, GoStep
  <2> QED
    BY <2>8, <2>9
<1>3. CASE AwaitActive(w)
  <2>0. pc[w] = "await" /\ at[w] \in Links /\ UNCHANGED <<opened, got, heard, net>>
    BY <1>3 DEF AwaitActive, IInv, TypeOK, CallTypes, peerVars
  <2>1. CASE ReturnError(w)
    <3>1. \A j \in Links : Moved(j)
      BY <1>3, <2>0, CloseMoves DEF AwaitActive, IInv
    <3>2. LinksOK'
      BY <2>0, <2>1, <3>1, LinksStep, ReturnEffect DEF IInv, Held
    <3>3. acked' \subseteq got'
      BY <2>0, <2>1 DEF ReturnError, IInv, SuccessIsDelivered
    <3> QED
      BY <2>0, <2>1, <3>1, <3>2, <3>3, ReturnStep DEF Moved
  <2>2. CASE ~ReturnError(w)
    <3>1. /\ pc' = [pc EXCEPT ![w] = "ready"] /\ UNCHANGED <<ist, at, calls, waiters, signalled, acked>>
          /\ ist[at[w]] = "active"
      BY <1>3, <2>2 DEF AwaitActive
    <3>2. \A v \in Workers : pc'[v] \in Held =>
            (pc[v] \in Held /\ at'[v] = at[v]) \/ ist'[at'[v]] \in {"active", "closed"}
      BY <3>1 DEF IInv, TypeOK, CallTypes
    <3>3. LinksOK'
      BY <2>0, <3>1, <3>2, LinksStep DEF IInv, Moved
    <3> QED
      BY <2>0, <3>1, <3>3, GoStep
  <2> QED
    BY <2>1, <2>2
<1>4. CASE HandshakeTimeout(w) \/ ProofTimeout(w) \/ TransferFails(w)
  <2>1. at[w] \in Links /\ UNCHANGED <<opened, got, heard, net>> /\ ReturnError(w)
    BY <1>4 DEF HandshakeTimeout, ProofTimeout, TransferFails, IInv, TypeOK, CallTypes, peerVars
  <2>2. \A j \in Links : Moved(j)
    BY <1>4, <2>1, CloseMoves DEF HandshakeTimeout, ProofTimeout, TransferFails, IInv
  <2>3. LinksOK'
    BY <2>1, <2>2, LinksStep, ReturnEffect DEF IInv, Held
  <2>4. acked' \subseteq got'
    BY <2>1 DEF ReturnError, IInv, SuccessIsDelivered
  <2> QED
    BY <2>1, <2>2, <2>3, <2>4, ReturnStep DEF Moved
<1>5. CASE Prepare(w)
  BY <1>5, PrepareStep
<1>6. CASE Transmit(w)
  BY <1>6, TransmitStep
<1>7. CASE Proven(w) \/ TransferDone(w)
  <2>1. ReturnNil(w) /\ UNCHANGED <<ist, opened, heard, net>> /\ got \subseteq got' /\ Call(w) \in got'
    BY <1>7 DEF Proven, TransferDone, peerVars, IInv, Waiting
  <2>2. LinksOK'
    BY <2>1, LinksStep, ReturnEffect DEF IInv, Moved, Held
  <2>3. acked' \subseteq got'
    BY <2>1 DEF ReturnNil, IInv, SuccessIsDelivered
  <2> QED
    BY <2>1, <2>2, <2>3, ReturnStep
<1>8. CASE Transfer(w)
  <2>1. /\ pc[w] = "ready" /\ pc' = [pc EXCEPT ![w] = "transfer"]
        /\ UNCHANGED <<ist, opened, at, calls, waiters, signalled, acked, got, heard, net>>
    BY <1>8 DEF Transfer, initVars, peerVars
  <2>2. \A v \in Workers : pc'[v] \in Held => pc[v] \in Held /\ at'[v] = at[v]
    BY <2>1 DEF IInv, TypeOK, CallTypes, Held
  <2>3. LinksOK'
    BY <2>1, <2>2, LinksStep DEF IInv, Moved
  <2> QED
    BY <2>1, <2>3, GoStep
<1> QED
  BY <1>1, <1>2, <1>3, <1>4, <1>5, <1>6, <1>7, <1>8 DEF Sender

\* The steps that are none of a call's, and what they have in common.
Still == UNCHANGED <<initVars, callVars, peerVars, net, heard, faults>>

Quiet == HandleLRProof \/ Sweepers \/ Environment \/ Still
         \/ \E p \in net : Dispatch(p) /\ ~LinkProof(p)

LeavesCalls ==
  /\ UNCHANGED <<pc, at, calls, waiters, signalled, acked, heard, opened>>
  /\ \A k \in Links : Moved(k)
  /\ \A k \in Links : ist[k] = "active" /\ ist'[k] = "active" => ikey'[k] = ikey[k]
  /\ got \subseteq got'
  /\ \A p \in net' \ net : Carries(p) =>
       /\ p.type = "PROOF" => p.call \in got'
       /\ \E q \in net : Carries(q) /\ q.call = p.call /\ q.link = p.link

\* They leave the calls alone.
LEMMA QuietEffect ==
  ASSUME IInv, Quiet
  PROVE  LeavesCalls
<1>0. TypeOK /\ ist \in LinkStates /\ ikey \in [Links -> Nat]
  BY DEF IInv, TypeOK, InitiatorTypes, LinkStates
<1>1. CASE HandleLRProof
  <2>1. busy \in Packets /\ busy.type = "LRPROOF"
    BY <1>0, <1>1 DEF HandleLRProof, TypeOK, InitiatorTypes
  <2>2. busy.link \in Links
    BY <2>1, PacketFields
  <2> QED
    BY <1>0, <1>1, <2>2 DEF LeavesCalls, HandleLRProof, Moved, LinkStates, callVars, peerVars
<1>2. CASE Sweepers
  <2>1. CASE SweepScan
    BY <2>1 DEF LeavesCalls, SweepScan, Moved, callVars, peerVars
  <2>2. ASSUME NEW a \in sweep, SweepStep(a) PROVE LeavesCalls
    <3>1. a[1] \in Links
      BY <1>0 DEF TypeOK, InitiatorTypes
    <3>2. \A k \in Links : Moved(k)
      BY <1>0, <2>2, <3>1, CloseMoves DEF SweepStep
    <3>3. \A k \in Links : ist[k] = "active" /\ ist'[k] = "active" => ikey'[k] = ikey[k]
      BY <1>0, <2>2, <3>1 DEF SweepStep, CloseLink, Registered, LinkStates
    <3>4. \A p \in net' \ net : ~Carries(p)
      BY <2>2 DEF SweepStep, Ping, Carries
    <3> QED
      BY <2>2, <3>2, <3>3, <3>4 DEF LeavesCalls, SweepStep, callVars, peerVars
  <2>3. CASE PeerSweepScan \/ \E k \in rsweep : PeerSweepStep(k)
    BY <2>3 DEF LeavesCalls, PeerSweepScan, PeerSweepStep, Moved, initVars, callVars
  <2> QED
    BY <1>2, <2>1, <2>2, <2>3 DEF Sweepers
<1>3. CASE Environment
  BY <1>3 DEF LeavesCalls, Environment, Tick, Lose, Restart, Evict, Announced, Moved, initVars, callVars, peerVars
<1>4. CASE Still
  BY <1>4 DEF LeavesCalls, Still, Moved, initVars, callVars, peerVars
<1>5. ASSUME NEW p \in net, Dispatch(p), ~LinkProof(p) PROVE LeavesCalls
  <2>1. CASE FindLink(p)
    BY <2>1 DEF LeavesCalls, FindLink, Take, Moved, callVars, peerVars
  <2>2. CASE LinkPong(p)
    BY <2>2 DEF LeavesCalls, LinkPong, Take, Moved, callVars, peerVars
  <2>3. CASE AcceptRequest(p)
    <3>1. \A q \in LRProofs(p.link, minted + 1) : ~Carries(q)
      BY DEF LRProofs, Carries
    <3>2. net' \subseteq net \cup LRProofs(p.link, minted + 1)
      BY <2>3 DEF AcceptRequest, Take
    <3> QED
      BY <2>3, <3>1, <3>2 DEF LeavesCalls, AcceptRequest, Moved, initVars, callVars
  <2>4. CASE LinkData(p)
    <3>1. \A q \in Proofs(p.link, p.call) : q.call = p.call /\ q.link = p.link
      BY DEF Proofs
    <3>2. /\ net' \subseteq net \cup Proofs(p.link, p.call) /\ got \subseteq got'
          /\ net' \subseteq net \/ p.call \in got'
      BY <2>4 DEF LinkData, Take
    <3>3. Carries(p)
      BY <2>4 DEF LinkData, Carries
    <3> QED
      BY <2>4, <3>1, <3>2, <3>3 DEF LeavesCalls, LinkData, Moved, initVars, callVars
  <2>5. CASE LinkPing(p)
    <3>1. ~Carries(Pong(p.link))
      BY DEF Pong, Carries
    <3>2. net' \subseteq net \cup {Pong(p.link)}
      BY <2>5 DEF LinkPing, Take
    <3> QED
      BY <2>5, <3>1, <3>2 DEF LeavesCalls, LinkPing, Moved, initVars, callVars
  <2> QED
    BY <1>5, <2>1, <2>2, <2>3, <2>4, <2>5 DEF Dispatch
<1> QED
  BY <1>1, <1>2, <1>3, <1>4, <1>5 DEF Quiet

\* Every step is one of a call, the arrival of a proof, or quiet.
LEMMA StepKinds ==
  ASSUME [Next]_vars
  PROVE  (\E w \in Workers : Sender(w)) \/ (\E p \in net : LinkProof(p)) \/ Quiet
BY DEF Next, PeerUnknown, Finished, Quiet, Still, vars

\* Every step keeps the invariant.
LEMMA IInvStep == IInv /\ [Next]_vars => IInv'
<1> SUFFICES ASSUME IInv, [Next]_vars PROVE IInv'
  OBVIOUS
<1>0. TypeOK'
  BY TypeStep DEF IInv
<1>1. ASSUME NEW w \in Workers, Sender(w) PROVE IInv'
  BY <1>0, <1>1, SenderStep
<1>2. ASSUME NEW p \in net, LinkProof(p) PROVE IInv'
  BY <1>0, <1>2, LinkProofStep
<1>3. CASE Quiet
  BY <1>0, <1>3, QuietEffect, QuietStep DEF LeavesCalls
<1> QED
  BY <1>1, <1>2, <1>3, StepKinds

-----------------------------------------------------------------------------
\* In every behaviour the state has its type.
THEOREM TypeCorrect == Spec => []TypeOK
<1>1. IInv => TypeOK
  BY DEF IInv
<1> QED
  BY InitIInv, IInvStep, <1>1, PTL DEF Spec

\* In every behaviour SendOverLink returns nil only for a payload that the peer's
\* application has been given, whatever the network, the peer and other callers do.
THEOREM SuccessDelivered == Spec => []SuccessIsDelivered
<1>1. IInv => SuccessIsDelivered
  BY DEF IInv
<1> QED
  BY InitIInv, IInvStep, <1>1, PTL DEF Spec

\* In every behaviour a proof that arrives in time wakes its call, unless the link was
\* torn down: the waiter is registered before the packet is sent, under the hash of it.
THEOREM ProofsWake == Spec => []ProofWakes
<1>1. IInv => ProofWakes
  BY DEF IInv
<1> QED
  BY InitIInv, IInvStep, <1>1, PTL DEF Spec

\* The links and the keys after a step.
LEMMA LinkLife ==
  ASSUME IInv, [Next]_vars, NEW k \in Links
  PROVE  /\ ist[k] = "closed" => ist'[k] = "closed"
         /\ ist[k] = "active" => ist'[k] = "closed" \/ (ist'[k] = "active" /\ ikey'[k] = ikey[k])
<1>0. /\ TypeOK /\ ist \in LinkStates /\ ikey \in [Links -> Nat] /\ CallTypes
  BY DEF IInv, TypeOK, InitiatorTypes, LinkStates
<1> DEFINE Kept == \A j \in Links :
             /\ ist[j] = "closed" => ist'[j] = "closed"
             /\ ist[j] = "active" => ist'[j] = "closed" \/ (ist'[j] = "active" /\ ikey'[j] = ikey[j])
<1>1. ASSUME NEW w \in Workers, Sender(w) PROVE Kept
  <2>1. CASE StartLink(w)
    <3>1. opened + 1 \in Links /\ ist[opened + 1] = "none"
      BY <2>1, LinkAssumption DEF StartLink, IInv, TypeOK, InitiatorTypes, Links, LinksOK
    <3> QED
      BY <1>0, <2>1, <3>1 DEF StartLink, LinkStates
  <2>2. CASE (ist' = ist /\ ikey' = ikey) \/ CloseLink(at[w])
    BY <1>0, <2>2 DEF CloseLink, Registered, LinkStates
  <2>3. StartLink(w) \/ (ist' = ist /\ ikey' = ikey) \/ CloseLink(at[w])
    BY <1>1 DEF Sender, Acquire, AwaitActive, HandshakeTimeout, Prepare, Transmit, Proven, ProofTimeout,
                Transfer, TransferDone, TransferFails, initVars
  <2> QED
    BY <2>1, <2>2, <2>3
<1>2. ASSUME NEW p \in net, LinkProof(p) PROVE Kept
  BY <1>2 DEF LinkProof
<1>3. CASE Quiet
  BY <1>0, <1>3, QuietEffect DEF LeavesCalls, Moved, LinkStates
<1> QED
  BY <1>1, <1>2, <1>3, StepKinds

\* In every behaviour a link is closed for good, and an Active one keeps its keys.
THEOREM HandshakeOnce == Spec => OneHandshake
<1>1. IInv /\ [Next]_vars =>
        [\A k \in Links :
           /\ ist[k] = "closed" => ist'[k] = "closed"
           /\ ist[k] = "active" => ist'[k] = "closed" \/ (ist'[k] = "active" /\ ikey'[k] = ikey[k])]_vars
  BY LinkLife
<1> QED
  BY InitIInv, IInvStep, <1>1, PTL DEF Spec, OneHandshake

-----------------------------------------------------------------------------
(* The number of links *)

\* own names for each worker the last link it has opened: every link of the manager is
\* among them, a worker about to open one has none, and a Pending link is awaited.
Owner(own) ==
  /\ own \in [Workers -> Links \cup {NoLink}]
  /\ \A k \in Links : Registered(k) => \E w \in Workers : own[w] = k
  /\ \A w \in Workers : pc[w] = "open" => own[w] = NoLink
  /\ \A w \in Workers : own[w] \in Links =>
       /\ own[w] <= opened
       /\ ist[own[w]] = "pending" => pc[w] = "await" /\ at[w] = own[w]

Owned == \E own : Owner(own)

\* NoLink is no link.
LEMMA NoLinkIsNone == NoLink \notin Links
BY LinkAssumption DEF Links

\* The own link of a worker is still its own if it is in the manager after the step.
Follows(own, next) ==
  \A w \in Workers : own[w] \in Links /\ Registered(own[w])' => next[w] = own[w]

\* A step that opens no link and abandons none that is Pending.
LEMMA OwnerKeeps ==
  ASSUME IInv, NEW own, Owner(own), opened' = opened,
         \A k \in Links : Moved(k),
         \A w \in Workers : pc'[w] = "open" => pc[w] = "open",
         \A w \in Workers : pc[w] = "await" /\ ist'[at[w]] = "pending" => pc'[w] = "await" /\ at'[w] = at[w]
  PROVE  Owner(own)'
<1>1. \A k \in Links : Registered(k)' => Registered(k)
  BY DEF Registered, Moved
<1>2. \A k \in Links : ist'[k] = "pending" => ist[k] = "pending"
  BY DEF Moved
<1> QED
  BY <1>1, <1>2 DEF Owner

\* A worker that finds no Active link has none of its own.
LEMMA OwnerAcquire ==
  ASSUME IInv, NEW own, Owner(own), NEW w \in Workers, Acquire(w)
  PROVE  \E next : Owner(next)' /\ Follows(own, next)
<1>0. /\ pc[w] = "idle" /\ pc'[w] \in {"open", "ready"} /\ ist' = ist /\ opened' = opened
      /\ \A v \in Workers : v # w => pc'[v] = pc[v] /\ at'[v] = at[v]
  BY DEF Acquire, IInv, TypeOK, CallTypes, initVars
<1>1. CASE pc'[w] = "ready"
  <2>1. Owner(own)'
    BY <1>0, <1>1, OwnerKeeps DEF Moved
  <2> QED
    BY <2>1 DEF Follows
<1>2. CASE pc'[w] = "open"
  <2>1. \A k \in Links : ist[k] # "active"
    BY <1>2 DEF Acquire, IInv, TypeOK, CallTypes
  <2> DEFINE next == [own EXCEPT ![w] = NoLink]
  <2>3. next \in [Workers -> Links \cup {NoLink}] /\ next[w] = NoLink /\ \A v \in Workers : v # w => next[v] = own[v]
    BY DEF Owner
  <2>4. own[w] \in Links => ~Registered(own[w])
    BY <1>0, <2>1 DEF Owner, Registered
  <2> HIDE DEF next
  <2>5. ASSUME NEW k \in Links, Registered(k)' PROVE \E v \in Workers : next[v] = k
    <3>1. Registered(k)
      BY <1>0, <2>5 DEF Registered
    <3>2. PICK v \in Workers : own[v] = k
      BY <3>1 DEF Owner
    <3>3. v # w
      BY <2>4, <3>1, <3>2
    <3> QED
      BY <2>3, <3>2, <3>3
  <2>6. \A v \in Workers : pc'[v] = "open" => next[v] = NoLink
    BY <1>0, <2>3 DEF Owner
  <2>7. ASSUME NEW v \in Workers, next[v] \in Links
        PROVE  next[v] <= opened' /\ (ist'[next[v]] = "pending" => pc'[v] = "await" /\ at'[v] = next[v])
    <3>1. v # w /\ next[v] = own[v]
      BY <2>3, <2>7, NoLinkIsNone
    <3> QED
      BY <1>0, <2>7, <3>1 DEF Owner
  <2>8. Follows(own, next)
    BY <1>0, <2>3, <2>4 DEF Follows, Registered
  <2>9. Owner(next)'
    BY <2>3, <2>5, <2>6, <2>7 DEF Owner
  <2> QED
    BY <2>8, <2>9
<1> QED
  BY <1>0, <1>1, <1>2

\* A worker opens a link, which is its own, or fails to.
LEMMA OwnerStart ==
  ASSUME IInv, NEW own, Owner(own), NEW w \in Workers, StartLink(w)
  PROVE  \E next : /\ Owner(next)' /\ Follows(own, next)
                   /\ \A k \in Links : k = opened + 1 /\ Registered(k)' => next[w] = k
<1>0. PICK k \in Links : k = opened + 1
  BY LinkAssumption DEF StartLink, IInv, TypeOK, InitiatorTypes, Links
<1>1. k \in Links /\ opened' = k /\ ist[k] = "none" /\ opened \in Nat /\ pc[w] = "open"
  BY <1>0, LinkAssumption DEF StartLink, IInv, TypeOK, InitiatorTypes, Links, LinksOK
<1>2. /\ \A j \in Links : j # k => ist'[j] = ist[j]
      /\ \A v \in Workers : v # w => at'[v] = at[v] /\ pc'[v] = pc[v]
  BY <1>0, <1>1 DEF StartLink, ReturnError, IInv, TypeOK, InitiatorTypes, CallTypes
<1>4. own[w] = NoLink
  BY <1>1 DEF Owner
<1>5. \A v \in Workers : own[v] \in Links => own[v] # k /\ own[v] <= k
  BY <1>0, <1>1 DEF Owner, Links
<1>6. CASE ist'[k] = "pending"
  <2>1. pc'[w] = "await" /\ at'[w] = k
    BY <1>0, <1>1, <1>6 DEF StartLink, IInv, TypeOK, InitiatorTypes, CallTypes
  <2> DEFINE next == [own EXCEPT ![w] = k]
  <2>2. next \in [Workers -> Links \cup {NoLink}] /\ next[w] = k /\ \A v \in Workers : v # w => next[v] = own[v]
    BY <1>1 DEF Owner
  <2> HIDE DEF next
  <2>3. ASSUME NEW j \in Links, Registered(j)' PROVE \E v \in Workers : next[v] = j
    <3>1. CASE j = k
      BY <2>2, <3>1
    <3>2. CASE j # k
      <4>1. Registered(j)
        BY <1>2, <2>3, <3>2 DEF Registered
      <4>2. PICK v \in Workers : own[v] = j
        BY <4>1 DEF Owner
      <4>3. v # w
        BY <1>4, <4>2, NoLinkIsNone
      <4> QED
        BY <2>2, <4>2, <4>3
    <3> QED
      BY <3>1, <3>2
  <2>4. \A v \in Workers : pc'[v] = "open" => next[v] = NoLink
    BY <1>2, <2>1, <2>2 DEF Owner
  <2>5. ASSUME NEW v \in Workers, next[v] \in Links
        PROVE  next[v] <= opened' /\ (ist'[next[v]] = "pending" => pc'[v] = "await" /\ at'[v] = next[v])
    <3>1. CASE v = w
      BY <1>0, <1>1, <2>1, <2>2, <3>1 DEF Links
    <3>2. CASE v # w
      <4>1. next[v] = own[v] /\ own[v] \in Links
        BY <2>2, <2>5, <3>2
      <4> QED
        BY <1>1, <1>2, <1>5, <3>2, <4>1 DEF Owner
    <3> QED
      BY <3>1, <3>2
  <2>6. Follows(own, next)
    BY <1>4, <2>2, NoLinkIsNone DEF Follows
  <2>7. Owner(next)'
    BY <2>2, <2>3, <2>4, <2>5 DEF Owner
  <2> QED
    BY <1>0, <2>2, <2>6, <2>7
<1>7. CASE ist'[k] # "pending"
  <2>1. ist'[k] = "closed" /\ pc'[w] = "idle"
    BY <1>0, <1>1, <1>7 DEF StartLink, ReturnError, IInv, TypeOK, InitiatorTypes, CallTypes
  <2>2. \A j \in Links : Registered(j)' => Registered(j)
    BY <1>2, <2>1 DEF Registered
  <2>3. ASSUME NEW v \in Workers, own[v] \in Links
        PROVE  own[v] <= opened' /\ (ist'[own[v]] = "pending" => pc'[v] = "await" /\ at'[v] = own[v])
    <3>1. v # w /\ own[v] # k /\ own[v] <= k
      BY <1>4, <1>5, <2>3, NoLinkIsNone
    <3> QED
      BY <1>1, <1>2, <2>3, <3>1 DEF Owner
  <2>4. Owner(own)'
    BY <1>2, <2>1, <2>2, <2>3 DEF Owner
  <2>5. Follows(own, own) /\ ~Registered(k)'
    BY <1>1, <2>1 DEF Follows, Registered
  <2> QED
    BY <1>0, <2>4, <2>5
<1> QED
  BY <1>6, <1>7

\* The other steps of a call open no link.
LEMMA OwnerSender ==
  ASSUME IInv, NEW own, Owner(own), NEW w \in Workers, Sender(w), ~Acquire(w), ~StartLink(w)
  PROVE  Owner(own)'
<1>0. TypeOK /\ CallTypes /\ ist \in LinkStates
  BY DEF IInv, TypeOK, InitiatorTypes, LinkStates
<1>1. CASE AwaitActive(w) \/ HandshakeTimeout(w)
  <2>1. pc[w] = "await" /\ at[w] \in Links /\ opened' = opened /\ at' = at
        /\ pc'[w] \in {"ready", "idle"} /\ \A v \in Workers : v # w => pc'[v] = pc[v]
    BY <1>0, <1>1 DEF AwaitActive, HandshakeTimeout, ReturnError, CallTypes
  <2>2. \A k \in Links : Moved(k)
    BY <1>0, <1>1, <2>1, CloseMoves DEF AwaitActive, HandshakeTimeout
  <2>3. ist'[at[w]] # "pending"
    BY <1>0, <1>1, <2>1 DEF AwaitActive, HandshakeTimeout, CloseLink, Registered, LinkStates
  <2> QED
    BY <2>1, <2>2, <2>3, OwnerKeeps
<1>2. CASE Prepare(w) \/ Transmit(w) \/ Proven(w) \/ ProofTimeout(w) \/ Transfer(w) \/ TransferDone(w) \/ TransferFails(w)
  <2>1. pc[w] \in Held /\ at[w] \in Links /\ opened' = opened /\ at' = at
        /\ pc'[w] # "open" /\ \A v \in Workers : v # w => pc'[v] = pc[v]
    BY <1>0, <1>2 DEF Prepare, Transmit, Proven, ProofTimeout, Transfer, TransferDone, TransferFails,
                      ReturnError, ReturnNil, CallTypes, Held, initVars
  <2>2. ist' = ist \/ CloseLink(at[w])
    BY <1>2 DEF Prepare, Transmit, Proven, ProofTimeout, Transfer, TransferDone, TransferFails, initVars
  <2>3. \A k \in Links : Moved(k)
    BY <1>0, <2>1, <2>2, CloseMoves
  <2> QED
    BY <2>1, <2>3, OwnerKeeps DEF Held
<1> QED
  BY <1>1, <1>2 DEF Sender

\* Nor does a step that is none of a call's.
LEMMA OwnerQuiet ==
  ASSUME IInv, NEW own, Owner(own), Quiet \/ \E p \in net : LinkProof(p)
  PROVE  Owner(own)'
<1>1. CASE \E p \in net : LinkProof(p)
  <2>1. UNCHANGED <<ist, opened, pc, at>>
    BY <1>1 DEF LinkProof
  <2> QED
    BY <2>1, OwnerKeeps DEF Moved
<1>2. CASE Quiet
  BY <1>2, QuietEffect, OwnerKeeps DEF LeavesCalls
<1> QED
  BY <1>1, <1>2

\* Every step keeps the ownership.
LEMMA OwnedStep == IInv /\ Owned /\ [Next]_vars => Owned'
<1> SUFFICES ASSUME IInv, Owned, [Next]_vars PROVE Owned'
  OBVIOUS
<1>1. PICK own : Owner(own)
  BY DEF Owned
<1>2. ASSUME NEW w \in Workers, Sender(w) PROVE \E next : Owner(next)'
  BY <1>1, <1>2, OwnerAcquire, OwnerStart, OwnerSender
<1>3. Quiet \/ (\E p \in net : LinkProof(p)) => Owner(own)'
  BY <1>1, OwnerQuiet
<1> QED
  BY <1>2, <1>3, StepKinds DEF Owned

\* As many links as owners, at most.
LEMMA OwnedBounds == IInv /\ Owned => LinksBounded
<1> SUFFICES ASSUME IInv, Owned PROVE LinksBounded
  OBVIOUS
<1>1. PICK own : Owner(own)
  BY DEF Owned
<1> DEFINE R == {k \in Links : Registered(k)}
           W == {w \in Workers : own[w] \in R}
           f == [w \in W |-> own[w]]
<1>2. f \in Surjection(W, R)
  <2>1. f \in [W -> R]
    OBVIOUS
  <2>2. \A k \in R : \E w \in W : f[w] = k
    BY <1>1 DEF Owner
  <2> QED
    BY <2>1, <2>2 DEF Surjection
<1>3. IsFiniteSet(W) /\ Cardinality(W) <= Cardinality(Workers)
  BY WorkerAssumption, FS_Subset
<1>4. IsFiniteSet(R) /\ Cardinality(R) <= Cardinality(W)
  BY <1>2, <1>3, FS_Surjection
<1>5. Cardinality(R) \in Nat /\ Cardinality(W) \in Nat /\ Cardinality(Workers) \in Nat
  BY <1>3, <1>4, WorkerAssumption, FS_CardinalityType
<1> QED
  BY <1>3, <1>4, <1>5 DEF LinksBounded

\* Initially there are no links.
LEMMA InitOwned == Init => Owned
<1> SUFFICES ASSUME Init PROVE Owner([w \in Workers |-> NoLink])
  BY DEF Owned
<1> QED
  BY NoLinkIsNone DEF Init, Owner, Registered

\* In every behaviour there are no more links in the manager than callers, although
\* acquireLinkTo looks for an Active link and opens one in two steps.
THEOREM BoundedLinks == Spec => []LinksBounded
BY InitIInv, IInvStep, InitOwned, OwnedStep, OwnedBounds, PTL DEF Spec

-----------------------------------------------------------------------------
(* What a fault costs *)

\* What there is, on the wire, in a sweeper or awaited, is about links that were opened.
Opened ==
  /\ \A p \in net : p.link <= opened
  /\ \A p \in net : p.type = "DATA" => ist[p.link] \in {"active", "closed"}
  /\ busy # NoPacket => busy.link <= opened
  /\ \A a \in sweep : a[1] <= opened
  /\ \A k \in rsweep : k <= opened
  /\ \A k \in Links : rkey[k] # 0 => k <= opened
  /\ \A w \in Workers : pc[w] = "await" => at[w] <= opened

\* The handshake of k: its request or the answer to it is on the way, with the key of
\* the peer, or is done.
Shakes(k) ==
  /\ \A p \in net : p.link = k /\ p.type = "LRPROOF" => p.key = rkey[k] /\ rkey[k] # 0
  /\ busy # NoPacket /\ busy.link = k => busy.key = rkey[k] /\ rkey[k] # 0
  /\ rkey[k] # 0 => LRReq(k) \notin net
  /\ ist[k] = "pending" =>
       /\ known
       /\ \/ LRReq(k) \in net
          \/ busy # NoPacket /\ busy.link = k
          \/ \E p \in net : p.link = k /\ p.type = "LRPROOF"
  /\ ist[k] = "active" => rkey[k] # 0 /\ rkey[k] = ikey[k]

\* No sweeper closes k: its keepalives are sent and reach the peer in time.
Lives(k) ==
  /\ k \notin rsweep
  /\ <<k, "close">> \notin sweep
  /\ \A p \in net : p.link = k /\ p.type \in {"LRPROOF", "PROOF", "pong"} => rage[k] = 0
  /\ busy # NoPacket /\ busy.link = k => rage[k] = 0
  /\ ist[k] = "active" =>
       /\ iage[k] <= Keepalive /\ rage[k] <= Keepalive
       /\ rage[k] <= iage[k] \/ Ping(k) \in net
       /\ iage[k] = Keepalive /\ swept => <<k, "keepalive">> \in sweep

\* The call of w gets its proof, if it is on k: its packet is sealed for the peer, and
\* the packet or a proof of it is on the way unless the call was woken.
Answers(k, w) ==
  at[w] = k =>
    /\ pc[w] = "armed" => seal[w] = rkey[k]
    /\ pc[w] = "wait" => \/ w \in signalled
                         \/ Data(k, rkey[k], Call(w)) \in net
                         \/ \E p \in net : p.link = k /\ p.type = "PROOF" /\ p.call = Call(w)

Good(k) == Shakes(k) /\ Lives(k) /\ \A w \in Workers : Answers(k, w)

\* The link of the call is gone: the call is going to fail.
Doomed(w) ==
  IF pc[w] \in {"await", "ready", "armed", "wait", "transfer"} /\ ist[at[w]] = "closed" THEN 1 ELSE 0

\* D are the workers whose own link, or the one they are about to open, a fault may
\* have spoiled.  For each fault there are as many failures to come, or come about, as
\* there are workers.
Spoiled(own, D) ==
  /\ D \subseteq Workers
  /\ Owner(own)
  /\ \A k \in Links : Registered(k) => Good(k) \/ \E w \in D : own[w] = k
  /\ ~known => \A w \in Workers : pc[w] = "open" => w \in D
  /\ \A w \in Workers : fails[w] + Cardinality(D) + Doomed(w) <= faults * Cardinality(Workers)

Priced == \E own, D : Spoiled(own, D)

\* Opened, when what is new is about links opened.
LEMMA OpenedFrame ==
  ASSUME IInv, Opened, opened' \in Nat, opened <= opened',
         \A k \in Links : ist[k] \in {"active", "closed"} => ist'[k] \in {"active", "closed"},
         \A p \in net' \ net : p.link <= opened' /\ (p.type = "DATA" => ist'[p.link] \in {"active", "closed"}),
         busy' = busy \/ busy' = NoPacket \/ busy' \in net,
         \A a \in sweep' \ sweep : a[1] \in Links /\ a[1] <= opened',
         \A k \in rsweep' \ rsweep : rkey[k] # 0 /\ k \in Links,
         \A k \in Links : rkey'[k] # 0 /\ rkey[k] = 0 => k <= opened',
         \A w \in Workers : pc'[w] = "await" =>
             (pc[w] = "await" /\ at'[w] = at[w]) \/ (at'[w] \in Links /\ at'[w] <= opened')
  PROVE  Opened'
<1>0. opened \in Nat /\ net \subseteq Packets /\ (busy # NoPacket => busy \in Packets)
      /\ rsweep \subseteq Links /\ \A a \in sweep : a[1] \in Links
  BY LinkAssumption DEF IInv, TypeOK, InitiatorTypes, NetTypes, PeerTypes
<1>1. \A p \in net : p.link \in Links /\ p.link \in Nat
  BY <1>0, PacketFields DEF Links
<1>2. busy # NoPacket => busy.link \in Links /\ busy.link \in Nat
  BY <1>0, PacketFields DEF Links
<1>3. \A p \in net' : p.link <= opened'
  BY <1>0, <1>1 DEF Opened
<1>4. \A p \in net' : p.type = "DATA" => ist'[p.link] \in {"active", "closed"}
  BY <1>1 DEF Opened
<1>5. busy' # NoPacket => busy'.link <= opened'
  BY <1>0, <1>1, <1>2 DEF Opened
<1>6. \A a \in sweep' : a[1] <= opened'
  BY <1>0 DEF Opened, Links
<1>7. ASSUME NEW k \in rsweep' PROVE k <= opened'
  <2>1. k \in Links /\ k <= opened
    <3>1. CASE k \in rsweep
      BY <1>0, <3>1 DEF Opened
    <3>2. CASE k \notin rsweep
      BY <3>2 DEF Opened
    <3> QED
      BY <3>1, <3>2
  <2>2. k \in Nat
    BY <2>1 DEF Links
  <2> QED
    BY <1>0, <2>1, <2>2
<1>8. \A k \in Links : rkey'[k] # 0 => k <= opened'
  BY <1>0 DEF Opened, Links
<1>9. ASSUME NEW w \in Workers, pc'[w] = "await" PROVE at'[w] <= opened'
  <2>1. CASE pc[w] = "await" /\ at'[w] = at[w]
    <3>1. at[w] \in Nat /\ at[w] <= opened
      BY <2>1 DEF Opened, IInv, TypeOK, CallTypes, Links
    <3> QED
      BY <1>0, <2>1, <3>1
  <2> QED
    BY <1>9, <2>1
<1> QED
  BY <1>3, <1>4, <1>5, <1>6, <1>7, <1>8, <1>9 DEF Opened

\* A link that is pending, active or closed was opened.
LEMMA HasOpened ==
  ASSUME IInv, NEW k \in Links, ist[k] # "none"
  PROVE  k <= opened
BY LinkAssumption DEF IInv, TypeOK, InitiatorTypes, LinksOK, Links

\* The steps of a call keep Opened.
LEMMA OpenedSender ==
  ASSUME IInv, Opened, NEW w \in Workers, Sender(w)
  PROVE  Opened'
<1>0. TypeOK /\ CallTypes /\ ist \in LinkStates /\ opened \in Nat
  BY LinkAssumption DEF IInv, TypeOK, InitiatorTypes, LinkStates
<1>1. CASE StartLink(w)
  <2>1. opened' = opened + 1 /\ opened + 1 \in Links /\ ist[opened + 1] = "none"
    BY <1>0, <1>1, LinkAssumption DEF StartLink, Links, IInv, LinksOK, TypeOK, InitiatorTypes
  <2>2. \A k \in Links : ist[k] \in {"active", "closed"} => ist'[k] = ist[k]
    BY <1>0, <1>1, <2>1 DEF StartLink, LinkStates
  <2>3. \A p \in net' \ net : p.link = opened + 1 /\ p.type = "LINKREQUEST"
    BY <1>1 DEF StartLink, LRReq
  <2>4. UNCHANGED <<busy, sweep, rsweep, rkey>>
    BY <1>1 DEF StartLink, peerVars
  <2>5. \A v \in Workers : pc'[v] = "await" => (pc[v] = "await" /\ at'[v] = at[v]) \/ at'[v] = opened + 1
    BY <1>0, <1>1 DEF StartLink, ReturnError, CallTypes
  <2> QED
    BY <1>0, <2>1, <2>2, <2>3, <2>4, <2>5, OpenedFrame
<1>2. CASE Transmit(w)
  <2>1. UNCHANGED <<ist, opened, busy, sweep, rsweep, rkey>> /\ pc[w] = "armed"
    BY <1>2 DEF Transmit, peerVars
  <2>2. at[w] \in Links /\ ist[at[w]] \in {"active", "closed"}
    BY <1>0, <2>1 DEF CallTypes, IInv, LinksOK
  <2>3. \A p \in net' \ net : p.link = at[w]
    BY <1>2 DEF Transmit, Data
  <2>4. \A v \in Workers : pc'[v] = "await" => pc[v] = "await" /\ at'[v] = at[v]
    BY <1>0, <1>2 DEF Transmit, ReturnError, CallTypes
  <2> QED
    BY <1>0, <2>1, <2>2, <2>3, <2>4, HasOpened, OpenedFrame
<1>3. CASE ~StartLink(w) /\ ~Transmit(w)
  <2>1. UNCHANGED <<opened, busy, sweep, rsweep, rkey, net>>
    BY <1>3 DEF Sender, Acquire, AwaitActive, HandshakeTimeout, Prepare, Proven, ProofTimeout,
                Transfer, TransferDone, TransferFails, initVars, peerVars
  <2>2. ist' = ist \/ (at[w] \in Links /\ CloseLink(at[w]))
    BY <1>0, <1>3 DEF Sender, Acquire, AwaitActive, HandshakeTimeout, Prepare, Proven, ProofTimeout,
                      Transfer, TransferDone, TransferFails, initVars, CallTypes
  <2>3. \A k \in Links : Moved(k)
    BY <1>0, <2>2, CloseMoves
  <2>4. \A k \in Links : ist[k] \in {"active", "closed"} => ist'[k] \in {"active", "closed"}
    BY <2>3 DEF Moved
  <2>5. \A v \in Workers : pc'[v] = "await" => pc[v] = "await" /\ at'[v] = at[v]
    BY <1>0, <1>3 DEF Sender, Acquire, AwaitActive, HandshakeTimeout, Prepare, Proven, ProofTimeout,
                Transfer, TransferDone, TransferFails, ReturnError, ReturnNil, CallTypes
  <2> QED
    BY <1>0, <2>1, <2>4, <2>5, OpenedFrame
<1> QED
  BY <1>1, <1>2, <1>3

\* The others open no link.
LEMMA OpenedQuiet ==
  ASSUME IInv, Opened, Quiet \/ \E p \in net : LinkProof(p)
  PROVE  Opened'
<1>0. /\ TypeOK /\ ist \in LinkStates /\ opened \in Nat /\ net \subseteq Packets
      /\ \A a \in sweep : a[1] \in Links
  BY LinkAssumption DEF IInv, TypeOK, InitiatorTypes, LinkStates, NetTypes
<1>1. ASSUME NEW p \in net, LinkProof(p) PROVE Opened'
  <2>1. UNCHANGED <<ist, opened, busy, sweep, rsweep, rkey, pc, at>> /\ net' \subseteq net
    BY <1>1 DEF LinkProof, Take, peerVars
  <2> QED
    BY <1>0, <2>1, OpenedFrame
<1>2. Quiet => UNCHANGED <<opened, pc, at>> /\ \A k \in Links : ist[k] \in {"active", "closed"} => ist'[k] \in {"active", "closed"}
  BY QuietEffect DEF LeavesCalls, Moved
<1>3. CASE HandleLRProof
  <2>1. UNCHANGED <<net, sweep, rsweep, rkey>> /\ busy' = NoPacket
    BY <1>3 DEF HandleLRProof, peerVars
  <2> QED
    BY <1>0, <1>2, <1>3, <2>1, OpenedFrame DEF Quiet
<1>4. CASE Sweepers
  <2>0. Quiet
    BY <1>4 DEF Quiet
  <2>1. CASE SweepScan
    <3>1. UNCHANGED <<net, busy, rsweep, rkey>>
      BY <2>1 DEF SweepScan, peerVars
    <3>2. \A a \in sweep' : a[1] \in Links /\ ist[a[1]] = "active"
      BY <2>1 DEF SweepScan
    <3> QED
      BY <1>0, <1>2, <2>0, <3>1, <3>2, HasOpened, OpenedFrame
  <2>2. ASSUME NEW a \in sweep, SweepStep(a) PROVE Opened'
    <3>1. UNCHANGED <<busy, rsweep, rkey>> /\ sweep' \subseteq sweep
      BY <2>2 DEF SweepStep, peerVars
    <3>2. \A p \in net' \ net : p.link = a[1] /\ p.type = "ping"
      BY <2>2 DEF SweepStep, Ping
    <3>3. a[1] <= opened
      BY DEF Opened
    <3> QED
      BY <1>0, <1>2, <2>0, <3>1, <3>2, <3>3, OpenedFrame
  <2>3. CASE PeerSweepScan \/ \E k \in rsweep : PeerSweepStep(k)
    <3>1. UNCHANGED <<net, busy, sweep>>
      BY <2>3 DEF PeerSweepScan, PeerSweepStep, initVars
    <3>2. \A k \in Links : rkey'[k] # 0 => rkey[k] # 0
      BY <2>3 DEF PeerSweepScan, PeerSweepStep, IInv, TypeOK, PeerTypes
    <3>3. \A k \in rsweep' \ rsweep : rkey[k] # 0 /\ k \in Links
      BY <2>3 DEF PeerSweepScan, PeerSweepStep
    <3> QED
      BY <1>0, <1>2, <2>0, <3>1, <3>2, <3>3, OpenedFrame
  <2> QED
    BY <1>4, <2>1, <2>2, <2>3 DEF Sweepers
<1>5. CASE Environment \/ Still
  <2>1. net' \subseteq net /\ UNCHANGED <<busy, sweep>> /\ rsweep' \subseteq rsweep
    BY <1>5 DEF Environment, Tick, Lose, Restart, Evict, Announced, Still, initVars, peerVars
  <2>2. \A k \in Links : rkey'[k] # 0 => rkey[k] # 0
    BY <1>5 DEF Environment, Tick, Lose, Restart, Evict, Announced, Still, initVars, peerVars
  <2> QED
    BY <1>0, <1>2, <1>5, <2>1, <2>2, OpenedFrame DEF Quiet
<1>6. ASSUME NEW p \in net, Dispatch(p), ~LinkProof(p) PROVE Opened'
  <2>0. Quiet /\ p \in Packets /\ p.link \in Links /\ p.link <= opened
    BY <1>0, <1>6, PacketFields DEF Quiet, Opened
  <2>1. UNCHANGED <<sweep, rsweep>> /\ (busy' = busy \/ busy' = NoPacket \/ busy' \in net)
    BY <1>6 DEF Dispatch, FindLink, LinkPong, AcceptRequest, LinkData, LinkPing, initVars, peerVars
  <2>2. \A q \in net' \ net : q.link = p.link /\ q.type # "DATA"
    BY <1>6 DEF Dispatch, FindLink, LinkPong, AcceptRequest, LinkData, LinkPing, Take, LRProofs, Proofs, Pong
  <2>3. \A k \in Links : k # p.link => rkey'[k] = rkey[k]
    BY <1>6 DEF Dispatch, FindLink, LinkPong, AcceptRequest, LinkData, LinkPing, peerVars,
                IInv, TypeOK, PeerTypes
  <2> QED
    BY <1>0, <1>2, <2>0, <2>1, <2>2, <2>3, OpenedFrame
<1> QED
  BY <1>1, <1>3, <1>4, <1>5, <1>6 DEF Quiet

\* Every step keeps it.
LEMMA OpenedStep == IInv /\ Opened /\ [Next]_vars => Opened'
BY OpenedSender, OpenedQuiet, StepKinds

-----------------------------------------------------------------------------
(* A good link stays good unless there is a fault *)

\* The packets of link k with the types of ts are those there were.
SameOn(k, ts) ==
  /\ \A p \in net : p.link = k /\ p.type \in ts => p \in net'
  /\ \A p \in net' : p.link = k /\ p.type \in ts => p \in net

\* Neither before nor after does the dispatcher have an LRPROOF of k in hand, unless it
\* is the same.
SameHand(k) ==
  \/ busy' = busy
  \/ (busy # NoPacket => busy.link # k) /\ (busy' # NoPacket => busy'.link # k)

\* The handshake of k is not touched.
LEMMA ShakesFrame ==
  ASSUME NEW k \in Links, Shakes(k), ist'[k] = ist[k], ikey'[k] = ikey[k], rkey'[k] = rkey[k],
         known => known', SameOn(k, {"LINKREQUEST", "LRPROOF"}), SameHand(k)
  PROVE  Shakes(k)'
<1>1. LRReq(k).link = k /\ LRReq(k).type = "LINKREQUEST"
  BY DEF LRReq
<1>2. LRReq(k) \in net <=> LRReq(k) \in net'
  BY <1>1 DEF SameOn
<1>3. \A p : p.link = k /\ p.type = "LRPROOF" => (p \in net <=> p \in net')
  BY DEF SameOn
<1>4. busy' # NoPacket /\ busy'.link = k <=> busy # NoPacket /\ busy.link = k
  BY DEF SameHand
<1>5. busy' # NoPacket /\ busy'.link = k => busy' = busy
  BY DEF SameHand
<1>6. LRReq(k)' = LRReq(k)
  BY DEF LRReq
<1> QED
  BY <1>2, <1>3, <1>4, <1>5, <1>6 DEF Shakes

\* The ages of k and what is to refresh it are not touched.
LEMMA LivesFrame ==
  ASSUME NEW k \in Links, Lives(k), ist'[k] = ist[k], iage'[k] = iage[k], rage'[k] = rage[k],
         k \in rsweep' => k \in rsweep,
         <<k, "close">> \in sweep' => <<k, "close">> \in sweep,
         <<k, "keepalive">> \in sweep => <<k, "keepalive">> \in sweep',
         swept' => swept,
         SameOn(k, {"LRPROOF", "PROOF", "ping", "pong"}), SameHand(k)
  PROVE  Lives(k)'
<1>1. Ping(k).link = k /\ Ping(k).type = "ping"
  BY DEF Ping
<1>2. Ping(k) \in net => Ping(k) \in net'
  BY <1>1 DEF SameOn
<1>3. \A p \in net' : p.link = k /\ p.type \in {"LRPROOF", "PROOF", "pong"} => p \in net
  BY DEF SameOn
<1>4. busy' # NoPacket /\ busy'.link = k => busy' = busy
  BY DEF SameHand
<1>5. Ping(k)' = Ping(k)
  BY DEF Ping
<1> QED
  BY <1>2, <1>3, <1>4, <1>5 DEF Lives

\* A call on k is not touched, nor its packet or proof.
LEMMA AnswersFrame ==
  ASSUME NEW k \in Links, NEW w \in Workers, Answers(k, w), rkey'[k] = rkey[k],
         at'[w] = k /\ pc'[w] \in {"armed", "wait"} =>
           /\ at[w] = k /\ pc[w] = pc'[w] /\ seal'[w] = seal[w] /\ calls'[w] = calls[w]
           /\ w \in signalled => w \in signalled',
         \A p \in net : p.link = k /\ p.type \in {"DATA", "PROOF"} => p \in net'
  PROVE  Answers(k, w)'
<1> SUFFICES ASSUME at'[w] = k
             PROVE  /\ pc'[w] = "armed" => seal'[w] = rkey'[k]
                    /\ pc'[w] = "wait" => \/ w \in signalled'
                                          \/ Data(k, rkey'[k], Call(w)') \in net'
                                          \/ \E p \in net' : p.link = k /\ p.type = "PROOF" /\ p.call = Call(w)'
  BY DEF Answers, Data
<1>1. CASE pc'[w] = "armed"
  BY <1>1 DEF Answers
<1>2. CASE pc'[w] = "wait"
  <2>1. at[w] = k /\ pc[w] = "wait" /\ Call(w)' = Call(w) /\ (w \in signalled => w \in signalled')
    BY <1>2 DEF Call
  <2>2. CASE w \in signalled
    BY <1>2, <2>1, <2>2
  <2>3. CASE Data(k, rkey[k], Call(w)) \in net
    <3>1. Data(k, rkey[k], Call(w)).link = k /\ Data(k, rkey[k], Call(w)).type = "DATA"
      BY DEF Data
    <3>2. Data(k, rkey[k], Call(w)) \in net'
      BY <2>3, <3>1
    <3> QED
      BY <1>2, <2>1, <3>2
  <2>4. CASE \E p \in net : p.link = k /\ p.type = "PROOF" /\ p.call = Call(w)
    BY <1>2, <2>1, <2>4
  <2> QED
    BY <2>1, <2>2, <2>3, <2>4 DEF Answers
<1> QED
  BY <1>1, <1>2

\* All three.
LEMMA GoodFrame ==
  ASSUME NEW k \in Links, Good(k), ist'[k] = ist[k], ikey'[k] = ikey[k], iage'[k] = iage[k],
         rkey'[k] = rkey[k], rage'[k] = rage[k], known => known',
         k \in rsweep' => k \in rsweep,
         <<k, "close">> \in sweep' => <<k, "close">> \in sweep,
         <<k, "keepalive">> \in sweep => <<k, "keepalive">> \in sweep',
         swept' => swept,
         UNCHANGED callVars \/ UNCHANGED <<pc, at, seal, calls, signalled>>,
         SameOn(k, PacketTypes), SameHand(k)
  PROVE  Good(k)'
<1>1. SameOn(k, {"LINKREQUEST", "LRPROOF"}) /\ SameOn(k, {"LRPROOF", "PROOF", "ping", "pong"})
      /\ \A p \in net : p.link = k /\ p.type \in {"DATA", "PROOF"} => p \in net'
  BY DEF SameOn, PacketTypes
<1>2. UNCHANGED <<pc, at, seal, calls, signalled>>
  BY DEF callVars
<1> QED
  BY <1>1, <1>2, ShakesFrame, LivesFrame, AnswersFrame DEF Good

\* The links that are still in the manager after a step of a call, the new one apart,
\* are as they were.
LEMMA SenderLeaves ==
  ASSUME IInv, NEW w \in Workers, Sender(w), NEW k \in Links, Registered(k), Registered(k)'
  PROVE  ist'[k] = ist[k] /\ ikey'[k] = ikey[k] /\ iage'[k] = iage[k]
<1>0. TypeOK /\ CallTypes /\ ist \in LinkStates /\ iage \in [Links -> Nat] /\ ikey \in [Links -> Nat]
  BY DEF IInv, TypeOK, InitiatorTypes, LinkStates
<1>1. CASE StartLink(w)
  <2>1. opened + 1 \in Links /\ ist[opened + 1] = "none"
    BY <1>0, <1>1, LinkAssumption DEF StartLink, Links, IInv, LinksOK, TypeOK, InitiatorTypes
  <2> QED
    BY <1>0, <1>1, <2>1 DEF StartLink, Registered, LinkStates
<1>2. CASE ~StartLink(w)
  <2>1. iage' = iage
    BY <1>2 DEF Sender, Acquire, AwaitActive, HandshakeTimeout, Prepare, Transmit, Proven, ProofTimeout,
                Transfer, TransferDone, TransferFails, initVars
  <2>2. (ist' = ist /\ ikey' = ikey) \/ (at[w] \in Links /\ CloseLink(at[w]))
    BY <1>0, <1>2 DEF Sender, Acquire, AwaitActive, HandshakeTimeout, Prepare, Transmit, Proven, ProofTimeout,
                      Transfer, TransferDone, TransferFails, initVars, CallTypes
  <2> QED
    BY <1>0, <2>1, <2>2 DEF CloseLink, Registered, LinkStates
<1> QED
  BY <1>1, <1>2

\* A step of a call keeps a good link good, with a fault or without.
LEMMA SenderGood ==
  ASSUME IInv, NEW w \in Workers, Sender(w), NEW k \in Links, Registered(k), Registered(k)', Good(k)
  PROVE  Good(k)'
<1>0. TypeOK /\ CallTypes /\ ist'[k] = ist[k] /\ ikey'[k] = ikey[k] /\ iage'[k] = iage[k]
  BY SenderLeaves DEF IInv, TypeOK
<1>1. UNCHANGED <<rkey, rage, rsweep, busy, sweep, swept, known>>
  BY DEF Sender, Acquire, StartLink, AwaitActive, HandshakeTimeout, Prepare, Transmit, Proven,
         ProofTimeout, Transfer, TransferDone, TransferFails, initVars, peerVars
<1>2. StartLink(w) => opened + 1 # k
  BY DEF IInv, TypeOK, InitiatorTypes, LinksOK, StartLink, Registered, Links
<1>3. net \subseteq net' /\ \A p \in net' \ net : p.link # k \/ (p.type = "DATA" /\ Transmit(w))
  BY <1>2 DEF Sender, Acquire, StartLink, AwaitActive, HandshakeTimeout, Prepare, Transmit, Proven,
              ProofTimeout, Transfer, TransferDone, TransferFails, initVars, LRReq, Data
<1>4. Shakes(k)'
  <2>1. SameOn(k, {"LINKREQUEST", "LRPROOF"}) /\ SameHand(k)
    BY <1>1, <1>3 DEF SameOn, SameHand
  <2> QED
    BY <1>0, <1>1, <2>1, ShakesFrame DEF Good
<1>5. Lives(k)'
  <2>1. SameOn(k, {"LRPROOF", "PROOF", "ping", "pong"}) /\ SameHand(k)
    BY <1>1, <1>3 DEF SameOn, SameHand
  <2> QED
    BY <1>0, <1>1, <2>1, LivesFrame DEF Good
<1>6. ASSUME NEW v \in Workers PROVE Answers(k, v)'
  <2>0. Answers(k, v)
    BY DEF Good
  <2>1. CASE v # w \/ pc'[w] \notin {"armed", "wait"}
    <3>1. v # w => pc'[v] = pc[v] /\ at'[v] = at[v] /\ seal'[v] = seal[v] /\ calls'[v] = calls[v]
                   /\ (v \in signalled => v \in signalled')
      BY <1>0 DEF Sender, Acquire, StartLink, AwaitActive, HandshakeTimeout, Prepare, Transmit, Proven,
                  ProofTimeout, Transfer, TransferDone, TransferFails, ReturnError, ReturnNil, CallTypes
    <3> QED
      BY <1>1, <1>3, <2>0, <2>1, <3>1, AnswersFrame
  <2>2. CASE v = w /\ pc'[w] = "armed"
    <3>1. Prepare(w) /\ ist[at[w]] = "active" /\ seal'[w] = ikey[at[w]] /\ at'[w] = at[w]
      BY <1>0, <2>2 DEF Sender, Acquire, StartLink, AwaitActive, HandshakeTimeout, Prepare, Transmit, Proven,
                  ProofTimeout, Transfer, TransferDone, TransferFails, ReturnError, ReturnNil, CallTypes
    <3> QED
      BY <1>1, <2>2, <3>1 DEF Answers, Good, Shakes
  <2>3. CASE v = w /\ pc'[w] = "wait"
    <3>1. pc[w] = "armed" /\ Data(at[w], seal[w], Call(w)) \in net' /\ UNCHANGED <<at, seal, calls>>
      BY <1>0, <2>3 DEF Sender, Acquire, StartLink, AwaitActive, HandshakeTimeout, Prepare, Transmit, Proven,
                  ProofTimeout, Transfer, TransferDone, TransferFails, ReturnError, ReturnNil, CallTypes
    <3>2. at[w] = k => seal[w] = rkey[k]
      BY <2>0, <2>3, <3>1 DEF Answers
    <3>3. Call(w)' = Call(w)
      BY <3>1 DEF Call
    <3> QED
      BY <1>1, <2>3, <3>1, <3>2, <3>3 DEF Answers, Data
  <2> QED
    BY <2>1, <2>2, <2>3
<1> QED
  BY <1>4, <1>5, <1>6 DEF Good

\* A packet the network does not repeat.
LEMMA TakeOnce ==
  ASSUME IInv, NEW p, NEW A, Take(p, A), faults' = faults
  PROVE  p \in net /\ net' = (net \ {p}) \cup A
<1>1. faults \in Nat
  BY LinkAssumption DEF IInv, TypeOK, NetTypes
<1> QED
  BY <1>1 DEF Take, Fault

\* The LRPROOF of a Pending link is taken in hand.
LEMMA FindGood ==
  ASSUME IInv, NEW p \in net, FindLink(p), faults' = faults,
         NEW k \in Links, Registered(k), Good(k)
  PROVE  Good(k)'
<1>0. /\ net' = net \ {p} /\ p.type = "LRPROOF" /\ busy = NoPacket /\ p # NoPacket
      /\ busy' = IF Registered(p.link) /\ known THEN p ELSE NoPacket
  <2>1. net' = (net \ {p}) \cup {}
    BY TakeOnce DEF FindLink
  <2> QED
    BY <2>1, PacketAssumption DEF FindLink, IInv, TypeOK, NetTypes
<1>1. UNCHANGED <<ist, ikey, iage, rkey, rage, rsweep, sweep, swept, known, pc, at, seal, calls, signalled>>
  BY DEF FindLink, callVars, peerVars
<1>2. Shakes(k)'
  <2>1. LRReq(k) # p /\ LRReq(k)' = LRReq(k)
    BY <1>0 DEF LRReq
  <2>2. busy' # NoPacket /\ busy'.link = k => busy'.key = rkey[k] /\ rkey[k] # 0
    BY <1>0 DEF Good, Shakes
  <2>3. ist[k] = "pending" =>
          /\ known
          /\ \/ LRReq(k) \in net'
             \/ busy' # NoPacket /\ busy'.link = k
             \/ \E q \in net' : q.link = k /\ q.type = "LRPROOF"
    BY <1>0, <2>1 DEF Good, Shakes
  <2>4. /\ \A q \in net' : q.link = k /\ q.type = "LRPROOF" => q.key = rkey[k] /\ rkey[k] # 0
        /\ rkey[k] # 0 => LRReq(k) \notin net'
        /\ ist[k] = "active" => rkey[k] # 0 /\ rkey[k] = ikey[k]
    BY <1>0 DEF Good, Shakes
  <2> QED
    BY <1>1, <2>1, <2>2, <2>3, <2>4 DEF Shakes
<1>3. Lives(k)'
  <2>1. busy' # NoPacket /\ busy'.link = k => rage[k] = 0
    BY <1>0 DEF Good, Lives
  <2>2. Ping(k) # p /\ Ping(k)' = Ping(k)
    BY <1>0 DEF Ping
  <2> QED
    BY <1>0, <1>1, <2>1, <2>2 DEF Good, Lives
<1>4. ASSUME NEW w \in Workers PROVE Answers(k, w)'
  BY <1>0, <1>1, AnswersFrame DEF Good
<1> QED
  BY <1>2, <1>3, <1>4 DEF Good

\* A proof wakes the call it is for, or one that was woken.
LEMMA ProofGood ==
  ASSUME IInv, NEW p \in net, LinkProof(p), faults' = faults,
         NEW k \in Links, Registered(k), Good(k)
  PROVE  Good(k)'
<1>0. net' = net \ {p} /\ p.type = "PROOF" /\ p.link \in Links /\ TypeOK /\ p.call[1] \in Workers
  <2>1. net' = (net \ {p}) \cup {}
    BY TakeOnce DEF LinkProof
  <2> QED
    BY <2>1, PacketFields DEF LinkProof, IInv, TypeOK, NetTypes, Carries
<1>1. UNCHANGED <<ist, ikey, busy, rkey, rage, rsweep, sweep, swept, known, pc, at, seal, calls>>
  BY DEF LinkProof, peerVars
<1>2. Shakes(k)'
  <2>1. SameOn(k, {"LINKREQUEST", "LRPROOF"}) /\ SameHand(k)
    BY <1>0, <1>1 DEF SameOn, SameHand
  <2> QED
    BY <1>1, <2>1, ShakesFrame DEF Good
<1>3. Lives(k)'
  <2>1. CASE p.link = k
    <3>1. rage[k] = 0
      BY <1>0, <2>1 DEF Good, Lives
    <3>2. ist[k] = "active" => iage'[k] = 0
      BY <1>0, <2>1 DEF LinkProof, TypeOK, InitiatorTypes
    <3> QED
      BY <1>0, <1>1, <3>1, <3>2, LinkAssumption DEF Good, Lives
  <2>2. CASE p.link # k
    <3>1. iage'[k] = iage[k]
      BY <1>0, <2>2 DEF LinkProof, TypeOK, InitiatorTypes
    <3>2. SameOn(k, {"LRPROOF", "PROOF", "ping", "pong"}) /\ SameHand(k)
      BY <1>0, <1>1, <2>2 DEF SameOn, SameHand
    <3> QED
      BY <1>1, <3>1, <3>2, LivesFrame DEF Good
  <2> QED
    BY <2>1, <2>2
<1>4. ASSUME NEW w \in Workers PROVE Answers(k, w)'
  <2>0. Answers(k, w) /\ (w \in signalled => w \in signalled')
    BY DEF Good, LinkProof
  <2>1. CASE p.call # Call(w) \/ p.link # k \/ at[w] # k \/ pc[w] # "wait"
    <3>1. Data(k, rkey[k], Call(w)) # p /\ Call(w)' = Call(w)
      BY <1>0, <1>1 DEF Data, Call
    <3> QED
      BY <1>0, <1>1, <2>0, <2>1, <3>1 DEF Answers, Data
  <2>2. CASE p.call = Call(w) /\ p.link = k /\ at[w] = k /\ pc[w] = "wait"
    <3>1. ist[k] = "active"
      BY <2>2 DEF IInv, LinksOK, Registered
    <3>2. w \in signalled \/ Call(w) \in waiters[k]
      BY <2>2 DEF IInv, Waiting
    <3>3. Call(w)[1] = w
      BY DEF Call
    <3>4. w \in signalled'
      BY <2>2, <3>1, <3>2, <3>3 DEF LinkProof
    <3> QED
      BY <1>1, <2>2, <3>4 DEF Answers
  <2> QED
    BY <2>1, <2>2
<1> QED
  BY <1>2, <1>3, <1>4 DEF Good

\* A pong comes from a peer that has just heard of the link.
LEMMA PongGood ==
  ASSUME IInv, NEW p \in net, LinkPong(p), faults' = faults,
         NEW k \in Links, Registered(k), Good(k)
  PROVE  Good(k)'
<1>0. net' = net \ {p} /\ p.type = "pong" /\ p.link \in Links /\ TypeOK
  <2>1. net' = (net \ {p}) \cup {}
    BY TakeOnce DEF LinkPong
  <2> QED
    BY <2>1, PacketFields DEF LinkPong, IInv, TypeOK, NetTypes
<1>1. UNCHANGED <<ist, ikey, busy, rkey, rage, rsweep, sweep, swept, known, pc, at, seal, calls, signalled>>
  BY DEF LinkPong, callVars, peerVars
<1>2. Shakes(k)'
  <2>1. SameOn(k, {"LINKREQUEST", "LRPROOF"}) /\ SameHand(k)
    BY <1>0, <1>1 DEF SameOn, SameHand
  <2> QED
    BY <1>1, <2>1, ShakesFrame DEF Good
<1>3. Lives(k)'
  <2>1. CASE p.link = k
    <3>1. rage[k] = 0 /\ iage'[k] = 0
      BY <1>0, <2>1 DEF Good, Lives, LinkPong, TypeOK, InitiatorTypes
    <3> QED
      BY <1>0, <1>1, <3>1, LinkAssumption DEF Good, Lives
  <2>2. CASE p.link # k
    <3>1. iage'[k] = iage[k]
      BY <1>0, <2>2 DEF LinkPong, TypeOK, InitiatorTypes
    <3>2. SameOn(k, {"LRPROOF", "PROOF", "ping", "pong"}) /\ SameHand(k)
      BY <1>0, <1>1, <2>2 DEF SameOn, SameHand
    <3> QED
      BY <1>1, <3>1, <3>2, LivesFrame DEF Good
  <2> QED
    BY <2>1, <2>2
<1>4. ASSUME NEW w \in Workers PROVE Answers(k, w)'
  BY <1>0, <1>1, AnswersFrame DEF Good
<1> QED
  BY <1>2, <1>3, <1>4 DEF Good

\* A LINKREQUEST is the record of its link.
LEMMA RequestIs ==
  ASSUME NEW p \in Packets, p.type = "LINKREQUEST"
  PROVE  p = LRReq(p.link)
<1>1. p \in [type : {"LINKREQUEST", "ping", "pong"}, link : Links]
  BY DEF Packets
<1>2. p = [type |-> p.type, link |-> p.link]
  BY <1>1
<1> QED
  BY <1>2 DEF LRReq

\* A step of the peer leaves the links it is not about as they are.
LEMMA PeerLeaves ==
  ASSUME IInv, NEW p \in net, AcceptRequest(p) \/ LinkData(p) \/ LinkPing(p),
         NEW k \in Links, Good(k), k # p.link
  PROVE  Good(k)'
<1>0. TypeOK /\ p \in Packets /\ p.link \in Links
  BY PacketFields DEF IInv, TypeOK, NetTypes
<1>1. UNCHANGED <<ist, ikey, iage, busy, rsweep, sweep, swept, known, pc, at, seal, calls, signalled>>
  BY DEF AcceptRequest, LinkData, LinkPing, initVars, callVars
<1>2. rkey'[k] = rkey[k] /\ rage'[k] = rage[k]
  BY <1>0 DEF AcceptRequest, LinkData, LinkPing, TypeOK, PeerTypes
<1>3. SameOn(k, PacketTypes)
  <2>1. \A q \in LRProofs(p.link, minted + 1) \cup Proofs(p.link, p.call) \cup {Pong(p.link)} : q.link # k
    BY DEF LRProofs, Proofs, Pong
  <2>2. net \ {p} \subseteq net'
    BY DEF AcceptRequest, LinkData, LinkPing, Take
  <2>3. net' \subseteq net \cup LRProofs(p.link, minted + 1) \cup Proofs(p.link, p.call) \cup {Pong(p.link)}
    BY DEF AcceptRequest, LinkData, LinkPing, Take
  <2> QED
    BY <2>1, <2>2, <2>3 DEF SameOn
<1>4. SameHand(k)
  BY <1>1 DEF SameHand
<1> QED
  BY <1>1, <1>2, <1>3, <1>4, GoodFrame

\* The LINKREQUEST of a good link is answered once, with the key the peer keeps.
LEMMA AcceptGood ==
  ASSUME IInv, NEW p \in net, AcceptRequest(p), faults' = faults,
         NEW k \in Links, Registered(k), Good(k)
  PROVE  Good(k)'
<1>0. /\ TypeOK /\ p \in Packets /\ p = LRReq(p.link) /\ p.link \in Links /\ minted \in Nat
      /\ net' = (net \ {p}) \cup LRProofs(p.link, minted + 1)
  <2>1. net' = (net \ {p}) \cup LRProofs(p.link, minted + 1)
    BY TakeOnce DEF AcceptRequest
  <2> QED
    BY <2>1, PacketFields, RequestIs DEF AcceptRequest, IInv, TypeOK, NetTypes, PeerTypes
<1>1. UNCHANGED <<ist, ikey, iage, busy, rsweep, sweep, swept, known, pc, at, seal, calls, signalled>>
  BY DEF AcceptRequest, initVars, callVars
<1>2. CASE k = p.link
  <2>1. rkey[k] = 0 /\ rkey'[k] = minted + 1 /\ rage'[k] = 0
    BY <1>0, <1>2 DEF Good, Shakes, AcceptRequest, TypeOK, PeerTypes
  <2>2. /\ ist[k] = "pending" /\ known /\ ~(busy # NoPacket /\ busy.link = k)
        /\ \A q \in net : q.link = k => q.type # "LRPROOF"
    BY <2>1 DEF Good, Shakes, Registered
  <2>3. \A q \in LRProofs(k, minted + 1) : q.link = k /\ q.type = "LRPROOF" /\ q.key = minted + 1
    BY DEF LRProofs
  <2>4. [type |-> "LRPROOF", link |-> k, key |-> minted + 1, copy |-> 1] \in LRProofs(k, minted + 1)
    BY LinkAssumption DEF LRProofs
  <2>5. LRReq(k) \notin net' /\ LRReq(k)' = LRReq(k)
    BY <1>0, <1>2, <2>3 DEF LRReq
  <2>6. Shakes(k)'
    BY <1>0, <1>1, <1>2, <2>1, <2>2, <2>3, <2>4, <2>5 DEF Shakes
  <2>7. Lives(k)'
    BY <1>1, <2>1, <2>2 DEF Good, Lives
  <2>8. ASSUME NEW w \in Workers, at[w] = k PROVE pc[w] \notin {"armed", "wait"}
    BY <2>2, <2>8 DEF IInv, LinksOK
  <2> QED
    BY <1>1, <2>6, <2>7, <2>8 DEF Good, Answers
<1> QED
  BY <1>2, PeerLeaves

\* A DATA packet of a good link is decrypted and proved, and refreshes the peer's end.
LEMMA DataGood ==
  ASSUME IInv, Opened, NEW p \in net, LinkData(p), faults' = faults,
         NEW k \in Links, Registered(k), Good(k)
  PROVE  Good(k)'
<1>0. TypeOK /\ p \in Packets /\ p.link \in Links /\ p.type = "DATA"
  BY PacketFields DEF LinkData, IInv, TypeOK, NetTypes
<1>1. UNCHANGED <<ist, ikey, iage, rkey, busy, rsweep, sweep, swept, known, pc, at, seal, calls, signalled>>
  BY DEF LinkData, initVars, callVars
<1>2. CASE k = p.link
  <2>1. net' = net \ {p} \/ (rkey[k] = p.key /\ net' = (net \ {p}) \cup Proofs(k, p.call))
    <3>1. CASE rkey[k] = p.key
      BY <1>2, <3>1, TakeOnce DEF LinkData
    <3>2. CASE rkey[k] # p.key
      <4>1. net' = (net \ {p}) \cup {}
        BY <1>2, <3>2, TakeOnce DEF LinkData
      <4> QED
        BY <4>1
    <3> QED
      BY <3>1, <3>2
  <2>2. ist[k] = "active"
    BY <1>0, <1>2 DEF Opened, Registered
  <2>3. rkey[k] # 0 /\ rage'[k] = 0
    BY <1>0, <1>2, <2>2 DEF Good, Shakes, LinkData, TypeOK, PeerTypes
  <2>4. \A q \in Proofs(k, p.call) : q.link = k /\ q.type = "PROOF" /\ q.call = p.call
    BY DEF Proofs
  <2>5. Shakes(k)'
    <3>1. SameOn(k, {"LINKREQUEST", "LRPROOF"}) /\ SameHand(k)
      BY <1>0, <1>1, <2>1, <2>4 DEF SameOn, SameHand
    <3> QED
      BY <1>1, <3>1, ShakesFrame DEF Good
  <2>6. Lives(k)'
    <3>1. iage[k] \in Nat
      BY <1>0 DEF TypeOK, InitiatorTypes
    <3> QED
      BY <1>1, <2>3, <3>1, LinkAssumption DEF Good, Lives
  <2>7. ASSUME NEW w \in Workers PROVE Answers(k, w)'
    <3>0. Answers(k, w) /\ Call(w)' = Call(w)
      BY <1>1 DEF Good, Call
    <3>1. CASE p = Data(k, rkey[k], Call(w))
      <4>1. p.key = rkey[k] /\ p.call = Call(w)
        BY <3>1 DEF Data
      <4>2. [type |-> "PROOF", link |-> k, call |-> Call(w), copy |-> 1] \in net'
        BY <1>2, <4>1, TakeOnce, LinkAssumption DEF LinkData, Proofs
      <4> QED
        BY <1>1, <3>0, <4>2 DEF Answers
    <3>2. CASE p # Data(k, rkey[k], Call(w))
      <4>1. \A q \in net : q # p => q \in net'
        BY <2>1
      <4>2. \A q : q.type = "PROOF" => q # p
        BY <1>0
      <4> QED
        BY <1>1, <3>0, <3>2, <4>1, <4>2 DEF Answers, Data
    <3> QED
      BY <3>1, <3>2
  <2> QED
    BY <2>5, <2>6, <2>7 DEF Good
<1> QED
  BY <1>2, PeerLeaves

\* A keepalive refreshes the peer's end.
LEMMA PingGood ==
  ASSUME IInv, NEW p \in net, LinkPing(p), faults' = faults,
         NEW k \in Links, Registered(k), Good(k)
  PROVE  Good(k)'
<1>0. TypeOK /\ p \in Packets /\ p.link \in Links /\ p.type = "ping"
  BY PacketFields DEF LinkPing, IInv, TypeOK, NetTypes
<1>1. UNCHANGED <<ist, ikey, iage, rkey, busy, rsweep, sweep, swept, known, pc, at, seal, calls, signalled>>
  BY DEF LinkPing, initVars, callVars
<1>2. CASE k = p.link
  <2>1. /\ net \ {p} \subseteq net'
        /\ \A q \in net' : q \in net \/ (q = Pong(k) /\ rkey[k] # 0)
    BY <1>2 DEF LinkPing, Take
  <2>2. Pong(k).type = "pong"
    BY DEF Pong
  <2>3. rkey[k] # 0 => rage'[k] = 0
    BY <1>0, <1>2 DEF LinkPing, TypeOK, PeerTypes
  <2>4. rkey[k] = 0 => rage'[k] = rage[k]
    BY <1>0, <1>2 DEF LinkPing, TypeOK, PeerTypes
  <2>5. Shakes(k)'
    <3>1. SameOn(k, {"LINKREQUEST", "LRPROOF"}) /\ SameHand(k)
      BY <1>0, <1>1, <2>1, <2>2 DEF SameOn, SameHand
    <3> QED
      BY <1>1, <3>1, ShakesFrame DEF Good
  <2>6. Lives(k)'
    <3>1. iage[k] \in Nat
      BY <1>0 DEF TypeOK, InitiatorTypes
    <3>2. ist[k] = "active" => rage'[k] = 0
      BY <2>3 DEF Good, Shakes
    <3>3. \A q \in net' : q.link = k /\ q.type \in {"LRPROOF", "PROOF", "pong"} => rage'[k] = 0
      BY <2>1, <2>2, <2>3, <2>4 DEF Good, Lives
    <3>4. busy # NoPacket /\ busy.link = k => rage'[k] = 0
      BY <2>3, <2>4 DEF Good, Lives
    <3> QED
      BY <1>1, <3>1, <3>2, <3>3, <3>4, LinkAssumption DEF Good, Lives
  <2>7. ASSUME NEW w \in Workers PROVE Answers(k, w)'
    BY <1>0, <1>1, <2>1, AnswersFrame DEF Good
  <2> QED
    BY <2>5, <2>6, <2>7 DEF Good
<1> QED
  BY <1>2, PeerLeaves

\* The LRPROOF in hand has the peer's key, and the peer has just minted it.
LEMMA HandGood ==
  ASSUME IInv, HandleLRProof, NEW k \in Links, Registered(k), Good(k)
  PROVE  Good(k)'
<1>0. TypeOK /\ busy \in Packets /\ busy # NoPacket /\ busy.link \in Links /\ busy' = NoPacket
  BY PacketFields DEF HandleLRProof, IInv, TypeOK, InitiatorTypes
<1>1. UNCHANGED <<net, rkey, rage, rsweep, sweep, swept, known, pc, at, seal, calls, signalled>>
  BY DEF HandleLRProof, callVars, peerVars
<1>2. CASE k = busy.link /\ ist[k] = "pending"
  <2>1. ist'[k] = "active" /\ ikey'[k] = busy.key /\ iage'[k] = 0
    BY <1>0, <1>2 DEF HandleLRProof, TypeOK, InitiatorTypes
  <2>2. rkey[k] = busy.key /\ rkey[k] # 0 /\ rage[k] = 0
    BY <1>0, <1>2 DEF Good, Shakes, Lives
  <2>3. Shakes(k)'
    BY <1>0, <1>1, <2>1, <2>2 DEF Good, Shakes, LRReq
  <2>4. Lives(k)'
    BY <1>0, <1>1, <2>1, <2>2, LinkAssumption DEF Good, Lives
  <2>5. ASSUME NEW w \in Workers PROVE Answers(k, w)'
    BY <1>1, AnswersFrame DEF Good
  <2> QED
    BY <2>3, <2>4, <2>5 DEF Good
<1>3. CASE ~(k = busy.link /\ ist[k] = "pending")
  <2>1. ist'[k] = ist[k] /\ ikey'[k] = ikey[k] /\ iage'[k] = iage[k]
    BY <1>0, <1>3 DEF HandleLRProof, TypeOK, InitiatorTypes
  <2>2. Shakes(k)'
    <3>1. ist[k] = "pending" => \/ LRReq(k) \in net
                                \/ \E p \in net : p.link = k /\ p.type = "LRPROOF"
      BY <1>3 DEF Good, Shakes
    <3> QED
      BY <1>0, <1>1, <2>1, <3>1 DEF Good, Shakes, LRReq
  <2>3. Lives(k)'
    BY <1>0, <1>1, <2>1 DEF Good, Lives, Ping
  <2>4. ASSUME NEW w \in Workers PROVE Answers(k, w)'
    BY <1>1, AnswersFrame DEF Good
  <2> QED
    BY <2>2, <2>3, <2>4 DEF Good
<1> QED
  BY <1>2, <1>3

\* The sweeper finds that a good link needs a keepalive at most.
LEMMA ScanGood ==
  ASSUME IInv, SweepScan, NEW k \in Links, Registered(k), Good(k)
  PROVE  Good(k)'
<1>1. UNCHANGED <<ist, ikey, iage, busy, net, rkey, rage, rsweep, known, pc, at, seal, calls, signalled>>
  BY DEF SweepScan, callVars, peerVars
<1>2. SameOn(k, PacketTypes) /\ SameHand(k)
  BY <1>1 DEF SameOn, SameHand
<1>3. Shakes(k)'
  <2>1. SameOn(k, {"LINKREQUEST", "LRPROOF"})
    BY <1>1 DEF SameOn
  <2> QED
    BY <1>1, <1>2, <2>1, ShakesFrame DEF Good
<1>4. Lives(k)'
  <2>0. iage[k] \in Nat /\ Keepalive \in Nat /\ Idle \in Nat /\ Keepalive < Idle
    BY LinkAssumption DEF IInv, TypeOK, InitiatorTypes
  <2>1. ist[k] = "active" => iage[k] <= Keepalive
    BY DEF Good, Lives
  <2>2. <<k, "close">> \in sweep' => ist[k] = "active" /\ iage[k] >= Idle
    BY DEF SweepScan
  <2>3. <<k, "close">> \notin sweep'
    BY <2>0, <2>1, <2>2
  <2>4. ist[k] = "active" /\ iage[k] = Keepalive => <<k, "keepalive">> \in sweep'
    BY <2>0 DEF SweepScan
  <2> QED
    BY <1>1, <2>3, <2>4 DEF Good, Lives, Ping
<1>5. ASSUME NEW w \in Workers PROVE Answers(k, w)'
  BY <1>1, AnswersFrame DEF Good
<1> QED
  BY <1>3, <1>4, <1>5 DEF Good

\* A keepalive is sent, or a link is closed that is another.
LEMMA SweepGood ==
  ASSUME IInv, NEW a \in sweep, SweepStep(a), faults' = faults,
         NEW k \in Links, Registered(k), Good(k)
  PROVE  Good(k)'
<1>0. /\ TypeOK /\ a[1] \in Links /\ a[2] \in {"close", "keepalive"} /\ a = <<a[1], a[2]>>
      /\ sweep' = sweep \ {a} /\ faults \in Nat
  BY LinkAssumption DEF IInv, TypeOK, InitiatorTypes, NetTypes, SweepStep
<1>1. UNCHANGED <<busy, rkey, rage, rsweep, swept, known, pc, at, seal, calls, signalled>>
  BY DEF SweepStep, callVars, peerVars
<1>2. CASE a[2] = "close"
  <2>1. a[1] # k
    BY <1>0, <1>2 DEF Good, Lives
  <2>2. ist'[k] = ist[k] /\ ikey'[k] = ikey[k] /\ iage' = iage /\ net' = net
    BY <1>0, <1>2, <2>1 DEF SweepStep, CloseLink, TypeOK, InitiatorTypes
  <2>3. SameOn(k, PacketTypes) /\ SameHand(k)
    BY <1>1, <2>2 DEF SameOn, SameHand
  <2>4. <<k, "keepalive">> \in sweep => <<k, "keepalive">> \in sweep'
    BY <1>0, <1>2
  <2> QED
    BY <1>0, <1>1, <2>2, <2>3, <2>4, GoodFrame
<1>3. CASE a[2] = "keepalive"
  <2>1. /\ ist' = ist /\ ikey' = ikey /\ net' = net \cup {Ping(a[1])}
        /\ iage' = [iage EXCEPT ![a[1]] = IF Registered(a[1]) THEN 0 ELSE @]
    BY <1>0, <1>3 DEF SweepStep, Fault
  <2>2. Ping(a[1]).link = a[1] /\ Ping(a[1]).type = "ping"
    BY DEF Ping
  <2>3. CASE a[1] = k
    <3>1. iage'[k] = 0 /\ Ping(k) \in net'
      BY <1>0, <2>1, <2>3 DEF TypeOK, InitiatorTypes
    <3>2. Shakes(k)'
      <4>1. SameOn(k, {"LINKREQUEST", "LRPROOF"}) /\ SameHand(k)
        BY <1>1, <2>1, <2>2 DEF SameOn, SameHand
      <4> QED
        BY <1>1, <2>1, <4>1, ShakesFrame DEF Good
    <3>3. Lives(k)'
      <4>1. \A q \in net' : q.type # "ping" => q \in net
        BY <2>1, <2>2
      <4> QED
        BY <1>0, <1>1, <2>1, <3>1, <4>1, LinkAssumption DEF Good, Lives, Ping
    <3>4. ASSUME NEW w \in Workers PROVE Answers(k, w)'
      BY <1>1, <2>1, AnswersFrame DEF Good
    <3> QED
      BY <3>2, <3>3, <3>4 DEF Good
  <2>4. CASE a[1] # k
    <3>1. iage'[k] = iage[k]
      BY <1>0, <2>1, <2>4 DEF TypeOK, InitiatorTypes
    <3>2. SameOn(k, PacketTypes) /\ SameHand(k)
      BY <1>1, <2>1, <2>2, <2>4 DEF SameOn, SameHand
    <3>3. <<k, "keepalive">> \in sweep => <<k, "keepalive">> \in sweep'
      BY <1>0, <2>4
    <3> QED
      BY <1>0, <1>1, <2>1, <3>1, <3>2, <3>3, GoodFrame
  <2> QED
    BY <2>3, <2>4
<1> QED
  BY <1>0, <1>2, <1>3

\* The peer's sweeper finds no good link, and ends none.
LEMMA PeerSweepGood ==
  ASSUME IInv, PeerSweepScan \/ \E j \in rsweep : PeerSweepStep(j),
         NEW k \in Links, Registered(k), Good(k)
  PROVE  Good(k)'
<1>0. /\ TypeOK /\ rage[k] \in Nat /\ Keepalive \in Nat /\ Idle \in Nat /\ Keepalive < Idle
  BY LinkAssumption DEF IInv, TypeOK, PeerTypes
<1>1. UNCHANGED <<ist, ikey, iage, busy, net, rage, sweep, swept, known, pc, at, seal, calls, signalled>>
  BY DEF PeerSweepScan, PeerSweepStep, initVars, callVars
<1>2. SameOn(k, PacketTypes) /\ SameHand(k)
  BY <1>1 DEF SameOn, SameHand
<1>3. rkey'[k] = rkey[k] /\ k \notin rsweep'
  <2>1. CASE PeerSweepScan
    <3>1. rkey[k] # 0 => rage[k] < Idle
      <4>1. CASE ist[k] = "active"
        BY <1>0, <4>1 DEF Good, Lives
      <4>2. CASE ist[k] = "pending"
        <5>1. rkey[k] # 0 => rage[k] = 0
          BY <4>2 DEF Good, Shakes, Lives
        <5> QED
          BY <1>0, <5>1
      <4> QED
        BY <4>1, <4>2 DEF Registered
    <3> QED
      BY <1>0, <2>1, <3>1 DEF PeerSweepScan
  <2>2. ASSUME NEW j \in rsweep, PeerSweepStep(j) PROVE rkey'[k] = rkey[k] /\ k \notin rsweep'
    <3>1. k \notin rsweep
      BY DEF Good, Lives
    <3> QED
      BY <1>0, <2>2, <3>1 DEF PeerSweepStep, TypeOK, PeerTypes
  <2> QED
    BY <2>1, <2>2
<1> QED
  BY <1>1, <1>2, <1>3, GoodFrame

\* A tick finds nothing on the way, so the peer's end is no older than this one, and
\* this one has been refreshed when its keepalive was due.
LEMMA TickGood ==
  ASSUME IInv, Tick, NEW k \in Links, Registered(k), Good(k)
  PROVE  Good(k)'
<1>0. /\ iage[k] \in Nat /\ rage[k] \in Nat /\ Keepalive \in Nat
      /\ net = {} /\ busy = NoPacket /\ sweep = {}
  BY LinkAssumption DEF IInv, TypeOK, InitiatorTypes, PeerTypes, Tick
<1>1. UNCHANGED <<ist, ikey, net, busy, sweep, known, pc, at, seal, calls, signalled, rkey, rsweep>> /\ swept' = FALSE
  BY DEF Tick, callVars
<1>2. ist[k] = "active" /\ rkey[k] # 0
  BY <1>0 DEF Good, Shakes, Registered
<1>3. iage'[k] = iage[k] + 1 /\ rage'[k] = rage[k] + 1
  BY <1>2 DEF Tick
<1>4. rage[k] <= iage[k] /\ iage[k] < Keepalive
  <2>1. iage[k] <= Keepalive /\ rage[k] <= iage[k] /\ (iage[k] = Keepalive => ~swept)
    BY <1>0, <1>2 DEF Good, Lives
  <2>2. swept \/ iage[k] < Keepalive
    BY <1>2 DEF Tick
  <2> QED
    BY <1>0, <2>1, <2>2
<1>5. Shakes(k)'
  BY <1>0, <1>1, <1>2 DEF Good, Shakes
<1>6. Lives(k)'
  <2>1. iage'[k] <= Keepalive /\ rage'[k] <= Keepalive /\ rage'[k] <= iage'[k]
    BY <1>0, <1>3, <1>4
  <2> QED
    BY <1>0, <1>1, <2>1 DEF Good, Lives
<1>7. ASSUME NEW w \in Workers PROVE Answers(k, w)'
  BY <1>1, AnswersFrame DEF Good
<1> QED
  BY <1>5, <1>6, <1>7 DEF Good

-----------------------------------------------------------------------------
(* The account of the failures *)

\* One more fault pays for one more failure of everybody.
LEMMA Product == \A a, n \in Nat : (a + 1) * n = a * n + n /\ a * n \in Nat
OBVIOUS

\* What is counted are numbers.
LEMMA CostTypes ==
  ASSUME TypeOK
  PROVE  /\ faults \in Nat /\ \A w \in Workers : fails[w] \in Nat
         /\ Cardinality(Workers) \in Nat /\ \A w \in Workers : Cardinality(Workers) >= 1
         /\ \A D \in SUBSET Workers : Cardinality(D) \in Nat /\ Cardinality(D) <= Cardinality(Workers)
<1>1. faults \in Nat /\ \A w \in Workers : fails[w] \in Nat
  BY LinkAssumption DEF TypeOK, NetTypes, CallTypes
<1>2. \A D \in SUBSET Workers : IsFiniteSet(D) /\ Cardinality(D) <= Cardinality(Workers)
  BY WorkerAssumption, FS_Subset
<1>3. \A D \in SUBSET Workers : Cardinality(D) \in Nat
  BY <1>2, FS_CardinalityType
<1>4. Cardinality(Workers) = 0 <=> Workers = {}
  BY WorkerAssumption, FS_EmptySet
<1>5. Cardinality(Workers) \in Nat
  BY WorkerAssumption, FS_CardinalityType
<1>6. \A w \in Workers : Cardinality(Workers) >= 1
  BY <1>4, <1>5
<1> QED
  BY <1>1, <1>2, <1>3, <1>5, <1>6

\* A call is doomed or not.
LEMMA DoomedType ==
  ASSUME NEW w \in Workers
  PROVE  Doomed(w) \in {0, 1} /\ Doomed(w)' \in {0, 1}
BY DEF Doomed

\* A step that spoils no link and closes none that was good.
LEMMA Remains ==
  ASSUME IInv, TypeOK', NEW own, NEW D, Spoiled(own, D), NEW next, Owner(next)', Follows(own, next),
         \A k \in Links : Registered(k) /\ Registered(k)' /\ Good(k) => Good(k)',
         \A k \in Links : ~Registered(k) /\ Registered(k)' => Good(k)' \/ \E w \in D : next[w] = k,
         ~known' => \A w \in Workers : pc'[w] = "open" => w \in D,
         \/ /\ faults' = faults
            /\ \A w \in Workers : fails'[w] + Doomed(w)' <= fails[w] + Doomed(w)
         \/ /\ faults' = faults + 1
            /\ \A w \in Workers : fails'[w] + Doomed(w)' <= fails[w] + Doomed(w) + 1
  PROVE  Spoiled(next, D)'
<1>0. TypeOK /\ D \in SUBSET Workers /\ Owner(own)
  BY DEF IInv, Spoiled
<1>1. ASSUME NEW k \in Links, Registered(k)' PROVE Good(k)' \/ \E w \in D : next[w] = k
  <2>1. CASE Registered(k) /\ ~Good(k)
    <3>1. PICK w \in D : own[w] = k
      BY <2>1 DEF Spoiled
    <3>2. next[w] = k
      BY <1>0, <1>1, <3>1 DEF Follows
    <3> QED
      BY <3>1, <3>2
  <2> QED
    BY <1>1, <2>1
<1>2. ASSUME NEW w \in Workers
      PROVE  fails'[w] + Cardinality(D) + Doomed(w)' <= faults' * Cardinality(Workers)
  <2> DEFINE N == Cardinality(Workers)
             x == fails[w]
             y == fails'[w]
             d == Doomed(w)
             e == Doomed(w)'
             c == Cardinality(D)
             b == faults * N
  <2>1. N \in Nat /\ N >= 1 /\ x \in Nat /\ c \in Nat /\ faults \in Nat /\ b \in Nat /\ d \in Nat /\ e \in Nat
    BY <1>0, CostTypes, DoomedType, Product
  <2>2. y \in Nat
    BY DEF TypeOK, CallTypes
  <2>3. x + c + d <= b
    BY DEF Spoiled
  <2>4. (faults' = faults /\ y + e <= x + d) \/ (faults' = faults + 1 /\ y + e <= x + d + 1)
    OBVIOUS
  <2>5. faults' = faults + 1 => faults' * N = b + N
    BY <2>1, Product
  <2>6. faults' = faults => faults' * N = b
    OBVIOUS
  <2> HIDE DEF N, x, y, d, e, c, b
  <2>7. y + c + e <= faults' * N
    BY <2>1, <2>2, <2>3, <2>4, <2>5, <2>6
  <2> QED
    BY <2>7 DEF N, y, e, c
<1> QED
  BY <1>0, <1>1, <1>2 DEF Spoiled

\* A fault that costs no call anything at once may have spoiled every link.
LEMMA Spoils ==
  ASSUME IInv, TypeOK', NEW own, NEW D, Spoiled(own, D), Owner(own)',
         faults' = faults + 1, fails' = fails, \A w \in Workers : Doomed(w)' <= Doomed(w)
  PROVE  Spoiled(own, Workers)'
<1>0. TypeOK /\ D \in SUBSET Workers
  BY DEF IInv, Spoiled
<1>1. \A k \in Links : Registered(k)' => \E w \in Workers : own[w] = k
  BY DEF Owner
<1>2. ASSUME NEW w \in Workers
      PROVE  fails'[w] + Cardinality(Workers) + Doomed(w)' <= faults' * Cardinality(Workers)
  <2> DEFINE N == Cardinality(Workers)
             x == fails[w]
             d == Doomed(w)
             e == Doomed(w)'
             c == Cardinality(D)
             b == faults * N
  <2>1. N \in Nat /\ x \in Nat /\ c \in Nat /\ faults \in Nat /\ b \in Nat /\ d \in Nat /\ e \in Nat
    BY <1>0, CostTypes, DoomedType, Product
  <2>2. x + c + d <= b
    BY DEF Spoiled
  <2>3. e <= d
    OBVIOUS
  <2>4. faults' * N = b + N
    BY <2>1, Product
  <2> HIDE DEF N, x, d, e, c, b
  <2>5. x + N + e <= faults' * N
    BY <2>1, <2>2, <2>3, <2>4
  <2> QED
    BY <2>5 DEF N, x, e
<1> QED
  BY <1>1, <1>2 DEF Spoiled

\* The end of a link that was not good: its owner has paid for what it costs the calls
\* that are on it.
LEMMA Closes ==
  ASSUME IInv, TypeOK', NEW own, NEW D, Spoiled(own, D), Owner(own)',
         NEW k \in Links, Registered(k), ~Registered(k)', ~Good(k),
         \A j \in Links : Registered(j)' => Registered(j) /\ (Good(j) => Good(j)'),
         known' = known, \A w \in Workers : pc'[w] = "open" => pc[w] = "open",
         faults' = faults,
         \A w \in Workers : fails'[w] + Doomed(w)' <= fails[w] + Doomed(w) + 1
  PROVE  \E E : Spoiled(own, E)'
<1>0. TypeOK /\ D \in SUBSET Workers /\ Owner(own)
  BY DEF IInv, Spoiled
<1>1. PICK o \in D : own[o] = k
  BY DEF Spoiled
<1> DEFINE E == D \ {o}
<1>2. E \subseteq Workers /\ Cardinality(E) = Cardinality(D) - 1
  <2>1. IsFiniteSet(D)
    BY <1>0, WorkerAssumption, FS_Subset
  <2> QED
    BY <1>0, <1>1, <2>1, FS_RemoveElement
<1>3. ASSUME NEW j \in Links, Registered(j)' PROVE Good(j)' \/ \E w \in E : own[w] = j
  <2>1. j # k
    BY <1>3
  <2>2. Good(j) \/ \E w \in D : own[w] = j
    BY <1>3 DEF Spoiled
  <2> QED
    BY <1>1, <1>3, <2>1, <2>2
<1>4. ASSUME ~known', NEW w \in Workers, pc'[w] = "open" PROVE w \in E
  <2>1. w \in D
    BY <1>4 DEF Spoiled
  <2>2. own[w] = NoLink
    BY <1>0, <1>4 DEF Owner
  <2> QED
    BY <1>1, <2>1, <2>2, NoLinkIsNone
<1>5. ASSUME NEW w \in Workers
      PROVE  fails'[w] + Cardinality(E) + Doomed(w)' <= faults' * Cardinality(Workers)
  <2> DEFINE x == fails[w]
             y == fails'[w]
             d == Doomed(w)
             e == Doomed(w)'
             c == Cardinality(D)
             b == faults * Cardinality(Workers)
  <2>1. x \in Nat /\ c \in Nat /\ b \in Nat /\ d \in Nat /\ e \in Nat
    BY <1>0, CostTypes, DoomedType, Product
  <2>2. y \in Nat
    BY DEF TypeOK, CallTypes
  <2>3. x + c + d <= b /\ y + e <= x + d + 1
    BY DEF Spoiled
  <2>4. Cardinality(E) = c - 1
    BY <1>2
  <2>5. faults' * Cardinality(Workers) = b
    OBVIOUS
  <2> HIDE DEF E, x, y, d, e, c, b
  <2>6. y + Cardinality(E) + e <= faults' * Cardinality(Workers)
    BY <2>1, <2>2, <2>3, <2>4, <2>5
  <2> QED
    BY <2>6 DEF y, e
<1>6. Spoiled(own, E)'
  BY <1>2, <1>3, <1>4, <1>5 DEF Spoiled
<1> QED
  BY <1>6

\* What a step of a call, other than its first two, costs: nothing, or the failure it
\* was doomed to; or a fault; or a link that was not good is closed.
LEMMA SenderCost ==
  ASSUME IInv, NEW w \in Workers, Sender(w), ~Acquire(w), ~StartLink(w)
  PROVE  /\ faults' \in {faults, faults + 1}
         /\ \A v \in Workers : fails'[v] + Doomed(v)' <= fails[v] + Doomed(v) + 1
         /\ \/ faults' = faults + 1
            \/ \A v \in Workers : fails'[v] + Doomed(v)' <= fails[v] + Doomed(v)
            \/ \E k \in Links : Registered(k) /\ ~Registered(k)' /\ ~Good(k)
<1>0. /\ TypeOK /\ CallTypes /\ ist \in LinkStates /\ ikey \in [Links -> Nat]
      /\ at' = at /\ \A v \in Workers : v # w => pc'[v] = pc[v]
      /\ at[w] \in Links /\ pc[w] \in {"await", "ready", "armed", "wait", "transfer"}
      /\ \A v \in Workers : fails[v] \in Nat /\ Doomed(v) \in {0, 1} /\ Doomed(v)' \in {0, 1}
  <2>1. TypeOK /\ CallTypes /\ ist \in LinkStates /\ ikey \in [Links -> Nat]
    BY DEF IInv, TypeOK, InitiatorTypes, LinkStates
  <2>2. at' = at /\ pc[w] \in {"await", "ready", "armed", "wait", "transfer"}
        /\ \A v \in Workers : v # w => pc'[v] = pc[v]
    BY <2>1 DEF Sender, AwaitActive, HandshakeTimeout, Prepare, Transmit, Proven,
                ProofTimeout, Transfer, TransferDone, TransferFails, ReturnError, ReturnNil, CallTypes
  <2> QED
    BY <2>1, <2>2, DoomedType DEF CallTypes
<1>1. ASSUME ReturnError(w) PROVE \A v \in Workers : fails'[v] + Doomed(v)' <= fails[v] + Doomed(v) + 1
  <2>1. fails'[w] = fails[w] + 1 /\ Doomed(w)' = 0 /\ \A v \in Workers : v # w => fails'[v] = fails[v]
    BY <1>0, <1>1 DEF ReturnError, CallTypes, Doomed
  <2> QED
    BY <1>0, <2>1
<1>2. ASSUME ReturnError(w), ist' = ist, ist[at[w]] = "closed"
      PROVE  \A v \in Workers : fails'[v] + Doomed(v)' <= fails[v] + Doomed(v)
  <2>1. fails'[w] = fails[w] + 1 /\ Doomed(w)' = 0 /\ Doomed(w) = 1
    BY <1>0, <1>2 DEF ReturnError, CallTypes, Doomed
  <2>2. \A v \in Workers : v # w => fails'[v] = fails[v] /\ Doomed(v)' = Doomed(v)
    BY <1>0, <1>2 DEF ReturnError, CallTypes, Doomed
  <2> QED
    BY <1>0, <2>1, <2>2
<1>3. ASSUME fails' = fails, ist' = ist, pc'[w] = "idle" \/ ist[at[w]] = "active" \/ (pc[w] = "armed" /\ pc'[w] = "wait")
      PROVE  \A v \in Workers : /\ fails'[v] + Doomed(v)' <= fails[v] + Doomed(v)
                                /\ fails'[v] + Doomed(v)' <= fails[v] + Doomed(v) + 1
  <2>1. \A v \in Workers : v # w => Doomed(v)' = Doomed(v)
    BY <1>0, <1>3 DEF Doomed
  <2>2. Doomed(w)' <= Doomed(w)
    BY <1>0, <1>3 DEF Doomed
  <2> QED
    BY <1>0, <1>3, <2>1, <2>2
<1>4. CloseLink(at[w]) => IF Registered(at[w]) THEN ist'[at[w]] = "closed" ELSE ist' = ist
  BY <1>0 DEF CloseLink, LinkStates
<1>5. CASE AwaitActive(w)
  <2>1. CASE ist[at[w]] = "active" /\ fails' = fails /\ ist' = ist
    BY <1>3, <1>5, <2>1 DEF AwaitActive
  <2>2. CASE ist[at[w]] = "closed" /\ CloseLink(at[w]) /\ ReturnError(w)
    BY <1>1, <1>2, <1>4, <1>5, <2>2 DEF AwaitActive, Registered
  <2> QED
    BY <1>5, <2>1, <2>2 DEF AwaitActive
<1>6. CASE Prepare(w)
  <2>1. ist' = ist /\ faults' = faults
    BY <1>6 DEF Prepare
  <2>2. CASE ist[at[w]] = "active" /\ fails' = fails
    BY <1>3, <1>6, <2>1, <2>2
  <2>3. CASE ist[at[w]] # "active" /\ ReturnError(w)
    <3>1. ist[at[w]] = "closed"
      BY <1>6, <2>3 DEF IInv, LinksOK, Prepare
    <3> QED
      BY <1>1, <1>2, <2>1, <2>3, <3>1
  <2> QED
    BY <1>6, <2>2, <2>3 DEF Prepare
<1>7. CASE Transmit(w)
  <2>1. CASE fails' = fails /\ faults' = faults /\ pc[w] = "armed" /\ pc'[w] = "wait"
    BY <1>0, <1>3, <1>7, <2>1 DEF Transmit
  <2>2. CASE faults' = faults + 1 /\ ReturnError(w)
    BY <1>1, <2>2
  <2> QED
    BY <1>0, <1>7, <2>1, <2>2 DEF Transmit, Fault, CallTypes
<1>8. CASE Proven(w) \/ TransferDone(w)
  <2>1. fails' = fails /\ faults' = faults /\ ist' = ist /\ pc'[w] = "idle"
    BY <1>0, <1>8 DEF Proven, TransferDone, ReturnNil, CallTypes
  <2> QED
    BY <1>3, <2>1
<1>9. CASE Transfer(w)
  <2>1. fails' = fails /\ faults' = faults /\ ist' = ist /\ ist[at[w]] = "active"
    BY <1>9 DEF Transfer, initVars
  <2> QED
    BY <1>3, <2>1
<1>10. ASSUME Deadline(w), CloseLink(at[w]), ReturnError(w)
       PROVE  /\ faults' \in {faults, faults + 1}
              /\ \/ faults' = faults + 1
                 \/ \A v \in Workers : fails'[v] + Doomed(v)' <= fails[v] + Doomed(v)
                 \/ \E k \in Links : Registered(k) /\ ~Registered(k)' /\ ~Good(k)
  <2>1. CASE faults' = faults + 1
    BY <2>1
  <2>2. CASE Hopeless(w) /\ faults' = faults
    <3>1. CASE Registered(at[w])
      <4>1. PICK k \in Links : k = at[w]
        BY <1>0
      <4>2. ~Registered(k)'
        BY <1>4, <1>10, <3>1, <4>1 DEF Registered
      <4>3. ~Good(k)
        <5>1. CASE pc[w] = "await"
          <6>1. /\ ist[k] = "pending"
                /\ \A p \in (net \cup {busy}) \ {NoPacket} :
                      p.link = k => p.type \notin {"LINKREQUEST", "LRPROOF"}
            BY <2>2, <4>1, <5>1 DEF Hopeless
          <6>2. busy # NoPacket => busy.type = "LRPROOF"
            BY <1>0 DEF TypeOK, InitiatorTypes
          <6>3. NoPacket \notin net
            BY <1>0, PacketAssumption DEF TypeOK, NetTypes
          <6>4. LRReq(k).link = k /\ LRReq(k).type = "LINKREQUEST"
            BY DEF LRReq
          <6> QED
            BY <6>1, <6>2, <6>3, <6>4 DEF Good, Shakes
        <5>2. CASE pc[w] = "wait"
          <6>1. w \notin signalled /\ \A p \in net : p.type \in {"DATA", "PROOF"} => p.call # Call(w)
            BY <2>2, <5>2 DEF Hopeless
          <6>2. Data(k, rkey[k], Call(w)).type = "DATA" /\ Data(k, rkey[k], Call(w)).call = Call(w)
            BY DEF Data
          <6>3. ~Answers(k, w)
            BY <4>1, <5>2, <6>1, <6>2 DEF Answers
          <6> QED
            BY <6>3 DEF Good
        <5>3. CASE pc[w] = "transfer"
          <6>1. ist[k] = "active" /\ ~Agrees(k)
            BY <2>2, <4>1, <5>3 DEF Hopeless
          <6> QED
            BY <6>1 DEF Good, Shakes, Agrees
        <5> QED
          BY <2>2, <5>1, <5>2, <5>3 DEF Hopeless
      <4> QED
        BY <2>2, <3>1, <4>1, <4>2, <4>3
    <3>2. CASE ~Registered(at[w])
      <4>1. ist[at[w]] = "closed"
        BY <1>0, <2>2, <3>2 DEF Hopeless, Registered, IInv, LinksOK, LinkStates
      <4> QED
        BY <1>2, <1>4, <1>10, <2>2, <3>2, <4>1
    <3> QED
      BY <3>1, <3>2
  <2> QED
    BY <1>10, <2>1, <2>2 DEF Deadline, Fault
<1>11. CASE HandshakeTimeout(w)
  BY <1>1, <1>10, <1>11 DEF HandshakeTimeout
<1>12. CASE ProofTimeout(w)
  BY <1>1, <1>10, <1>12 DEF ProofTimeout
<1>13. CASE TransferFails(w)
  <2>1. CASE Deadline(w) /\ CloseLink(at[w])
    BY <1>1, <1>10, <1>13, <2>1 DEF TransferFails
  <2>2. CASE ist[at[w]] = "closed" /\ UNCHANGED <<ist, ikey, faults>>
    BY <1>1, <1>2, <1>13, <2>2 DEF TransferFails
  <2>3. CASE Fault("sendfail") \/ Fault("abort")
    <3>1. faults' = faults + 1 /\ ReturnError(w)
      BY <1>13, <2>3 DEF TransferFails, Fault
    <3> QED
      BY <1>1, <3>1
  <2> QED
    BY <1>13, <2>1, <2>2, <2>3 DEF TransferFails
<1> QED
  BY <1>5, <1>6, <1>7, <1>8, <1>9, <1>11, <1>12, <1>13 DEF Sender

\* A call begins, and opens a link at no cost.
LEMMA PricedAcquire ==
  ASSUME IInv, TypeOK', NEW own, NEW D, Spoiled(own, D), NEW w \in Workers, Acquire(w)
  PROVE  \E next : Spoiled(next, D)'
<1>0. Owner(own) /\ TypeOK /\ CallTypes
  BY DEF Spoiled, IInv, TypeOK
<1>1. PICK next : Owner(next)' /\ Follows(own, next)
  BY <1>0, OwnerAcquire
<1>2. /\ UNCHANGED <<ist, known, faults, fails>> /\ pc[w] = "idle"
      /\ \A v \in Workers : v # w => pc'[v] = pc[v] /\ at'[v] = at[v]
      /\ pc'[w] = "ready" => ist[at'[w]] = "active"
      /\ pc'[w] \in {"ready", "open"} /\ (pc'[w] = "open" => known)
  BY <1>0 DEF Acquire, initVars, CallTypes
<1>3. \A v \in Workers : Doomed(v)' <= Doomed(v)
  BY <1>2 DEF Doomed
<1>4. \A v \in Workers : fails'[v] + Doomed(v)' <= fails[v] + Doomed(v)
  BY <1>0, <1>2, <1>3, DoomedType DEF CallTypes
<1>5. \A k \in Links : Registered(k) /\ Registered(k)' /\ Good(k) => Good(k)'
  BY SenderGood DEF Sender
<1>6. \A k \in Links : Registered(k)' => Registered(k)
  BY <1>2 DEF Registered
<1>7. ~known' => \A v \in Workers : pc'[v] = "open" => v \in D
  BY <1>2 DEF Spoiled
<1> QED
  BY <1>0, <1>1, <1>2, <1>4, <1>5, <1>6, <1>7, Remains

\* A new link is good, unless the peer was unknown when its LINKREQUEST went out.
LEMMA NewGood ==
  ASSUME IInv, Opened, NEW w \in Workers, StartLink(w), NEW k \in Links, k = opened + 1,
         Registered(k)', known
  PROVE  Good(k)'
<1>0. TypeOK /\ CallTypes /\ ist \in LinkStates /\ opened \in Nat /\ ist[k] = "none" /\ net \subseteq Packets
  <2>1. TypeOK /\ CallTypes /\ InitiatorTypes /\ NetTypes /\ LinksOK
    BY DEF IInv, TypeOK
  <2>2. ist \in LinkStates /\ opened \in Nat /\ net \subseteq Packets
    BY <2>1, LinkAssumption DEF InitiatorTypes, NetTypes, LinkStates
  <2>3. ist[k] = "none"
    BY <2>1, <2>2 DEF LinksOK
  <2> QED
    BY <2>1, <2>2, <2>3
<1>1. /\ ist'[k] = "pending" /\ net' = net \cup {LRReq(k)} /\ pc'[w] = "await"
      /\ \A v \in Workers : v # w => pc'[v] = pc[v] /\ at'[v] = at[v]
  BY <1>0 DEF StartLink, Registered, CallTypes, LinkStates
<1>2. UNCHANGED <<busy, sweep, known, rsweep, rkey, rage>>
  BY DEF StartLink, peerVars
<1>3. \A p \in net : p.link # k
  BY <1>0 DEF Opened
<1>4. busy # NoPacket => busy.link # k
  BY <1>0 DEF Opened
<1>5. rkey[k] = 0 /\ k \notin rsweep /\ <<k, "close">> \notin sweep
  <2>1. rkey[k] = 0 /\ k \notin rsweep
    BY <1>0 DEF Opened
  <2>2. <<k, "close">>[1] = k
    OBVIOUS
  <2>3. <<k, "close">> \notin sweep
    BY <1>0, <2>2 DEF Opened
  <2> QED
    BY <2>1, <2>3
<1>6. LRReq(k).type = "LINKREQUEST" /\ LRReq(k)' = LRReq(k)
  BY DEF LRReq
<1>7. Shakes(k)'
  BY <1>1, <1>2, <1>3, <1>4, <1>5, <1>6 DEF Shakes
<1>8. Lives(k)'
  BY <1>1, <1>2, <1>3, <1>4, <1>5, <1>6 DEF Lives
<1>9. ASSUME NEW v \in Workers PROVE Answers(k, v)'
  <2>1. CASE v = w
    BY <1>1, <2>1 DEF Answers
  <2>2. CASE v # w
    <3>1. pc[v] \in {"armed", "wait"} => at[v] # k
      BY <1>0 DEF IInv, LinksOK
    <3> QED
      BY <1>1, <2>2, <3>1 DEF Answers
  <2> QED
    BY <2>1, <2>2
<1> QED
  BY <1>7, <1>8, <1>9 DEF Good

\* A call opens a link, or the LINKREQUEST fails to go out.
LEMMA PricedStart ==
  ASSUME IInv, Opened, TypeOK', NEW own, NEW D, Spoiled(own, D), NEW w \in Workers, StartLink(w)
  PROVE  \E next : Spoiled(next, D)'
<1>0. /\ Owner(own) /\ TypeOK /\ CallTypes /\ ist \in LinkStates
      /\ opened + 1 \in Links /\ ist[opened + 1] = "none" /\ pc[w] = "open"
  BY LinkAssumption DEF Spoiled, IInv, TypeOK, InitiatorTypes, LinkStates, LinksOK, StartLink, Links
<1>1. PICK next : /\ Owner(next)' /\ Follows(own, next)
                  /\ \A k \in Links : k = opened + 1 /\ Registered(k)' => next[w] = k
  BY <1>0, OwnerStart
<1>2. /\ known' = known /\ \A k \in Links : k # opened + 1 => ist'[k] = ist[k]
      /\ \A v \in Workers : v # w => pc'[v] = pc[v] /\ at'[v] = at[v]
      /\ pc'[w] # "open"
  BY <1>0 DEF StartLink, ReturnError, CallTypes, LinkStates
<1>3. \A k \in Links : Registered(k) /\ Registered(k)' /\ Good(k) => Good(k)'
  BY SenderGood DEF Sender
<1>4. ASSUME NEW k \in Links, ~Registered(k), Registered(k)' PROVE Good(k)' \/ \E v \in D : next[v] = k
  <2>1. k = opened + 1
    BY <1>2, <1>4 DEF Registered
  <2>2. next[w] = k
    BY <1>1, <1>4, <2>1
  <2>3. ~known => w \in D
    BY <1>0 DEF Spoiled
  <2> QED
    BY <1>4, <2>1, <2>2, <2>3, NewGood
<1>5. ~known' => \A v \in Workers : pc'[v] = "open" => v \in D
  BY <1>2 DEF Spoiled
<1>6. \A v \in Workers : v # w => Doomed(v)' = Doomed(v)
  <2>1. \A v \in Workers : pc[v] = "await" => at[v] # opened + 1
    <3>1. opened \in Nat
      BY <1>0, LinkAssumption DEF TypeOK, InitiatorTypes
    <3> QED
      BY <3>1 DEF Opened
  <2>2. \A v \in Workers : pc[v] \in {"ready", "armed", "wait", "transfer"} => at[v] # opened + 1
    BY <1>0 DEF IInv, LinksOK
  <2> QED
    BY <1>0, <1>2, <2>1, <2>2 DEF Doomed, CallTypes
<1>7. Doomed(w)' = 0 /\ Doomed(w) = 0
  BY <1>0 DEF StartLink, ReturnError, Doomed, CallTypes, LinkStates
<1>8. \A v \in Workers : fails[v] \in Nat /\ Doomed(v) \in {0, 1} /\ Doomed(v)' \in {0, 1}
  BY <1>0, DoomedType DEF CallTypes
<1>9. CASE faults' = faults /\ fails' = fails
  <2>1. \A v \in Workers : fails'[v] + Doomed(v)' <= fails[v] + Doomed(v)
    BY <1>6, <1>7, <1>8, <1>9
  <2> QED
    BY <1>1, <1>3, <1>4, <1>5, <1>9, <2>1, Remains
<1>10. CASE faults' = faults + 1 /\ ReturnError(w)
  <2>1. fails'[w] = fails[w] + 1 /\ \A v \in Workers : v # w => fails'[v] = fails[v]
    BY <1>0, <1>10 DEF ReturnError, CallTypes
  <2>2. \A v \in Workers : fails'[v] + Doomed(v)' <= fails[v] + Doomed(v) + 1
    BY <1>6, <1>7, <1>8, <2>1
  <2> QED
    BY <1>1, <1>3, <1>4, <1>5, <1>10, <2>2, Remains
<1> QED
  BY <1>9, <1>10 DEF StartLink, Fault

\* The other steps of a call.
LEMMA PricedSender ==
  ASSUME IInv, Opened, TypeOK', NEW own, NEW D, Spoiled(own, D), NEW w \in Workers, Sender(w)
  PROVE  \E next, E : Spoiled(next, E)'
<1>1. CASE Acquire(w)
  BY <1>1, PricedAcquire
<1>2. CASE StartLink(w)
  BY <1>2, PricedStart
<1>3. CASE ~Acquire(w) /\ ~StartLink(w)
  <2>0. Owner(own) /\ TypeOK /\ CallTypes /\ ist \in LinkStates /\ faults \in Nat
    BY LinkAssumption DEF Spoiled, IInv, TypeOK, InitiatorTypes, LinkStates, NetTypes
  <2>1. Owner(own)' /\ Follows(own, own)
    BY <1>3, <2>0, OwnerSender DEF Follows
  <2>2. known' = known
    BY <1>3 DEF Sender, AwaitActive, HandshakeTimeout, Prepare, Transmit, Proven, ProofTimeout,
                Transfer, TransferDone, TransferFails, initVars
  <2>3. \A v \in Workers : pc'[v] = "open" => pc[v] = "open"
    BY <1>3, <2>0 DEF Sender, AwaitActive, HandshakeTimeout, Prepare, Transmit, Proven, ProofTimeout,
                Transfer, TransferDone, TransferFails, ReturnError, ReturnNil, CallTypes
  <2>4. \A k \in Links : Registered(k)' => Registered(k)
    <3>1. ist' = ist \/ (at[w] \in Links /\ CloseLink(at[w]))
      BY <1>3, <2>0 DEF Sender, AwaitActive, HandshakeTimeout, Prepare, Transmit, Proven, ProofTimeout,
                Transfer, TransferDone, TransferFails, initVars, CallTypes
    <3>2. \A k \in Links : Moved(k)
      BY <2>0, <3>1, CloseMoves
    <3> QED
      BY <3>2 DEF Moved, Registered
  <2>5. \A k \in Links : Registered(k)' /\ Good(k) => Good(k)'
    BY <2>4, SenderGood
  <2>6. ~known' => \A v \in Workers : pc'[v] = "open" => v \in D
    BY <2>2, <2>3 DEF Spoiled
  <2>7. /\ faults' \in {faults, faults + 1}
        /\ \A v \in Workers : fails'[v] + Doomed(v)' <= fails[v] + Doomed(v) + 1
        /\ \/ faults' = faults + 1
           \/ \A v \in Workers : fails'[v] + Doomed(v)' <= fails[v] + Doomed(v)
           \/ \E k \in Links : Registered(k) /\ ~Registered(k)' /\ ~Good(k)
    BY <1>3, SenderCost
  <2>8. CASE faults' = faults + 1
    <3>1. Spoiled(own, D)'
      BY <2>1, <2>4, <2>5, <2>6, <2>7, <2>8, Remains
    <3> QED
      BY <3>1
  <2>9. CASE faults' = faults /\ \A v \in Workers : fails'[v] + Doomed(v)' <= fails[v] + Doomed(v)
    <3>1. Spoiled(own, D)'
      BY <2>1, <2>4, <2>5, <2>6, <2>9, Remains
    <3> QED
      BY <3>1
  <2>10. ASSUME faults' = faults, NEW k \in Links, Registered(k), ~Registered(k)', ~Good(k)
         PROVE  \E next, E : Spoiled(next, E)'
    <3>1. \E E : Spoiled(own, E)'
      BY <2>1, <2>2, <2>3, <2>4, <2>5, <2>7, <2>10, Closes
    <3> QED
      BY <3>1
  <2> QED
    BY <2>7, <2>8, <2>9, <2>10
<1> QED
  BY <1>1, <1>2, <1>3

\* The steps of the dispatchers, the sweepers and the environment that are no fault keep
\* a good link good.
LEMMA QuietGood ==
  ASSUME IInv, Opened, Quiet \/ \E p \in net : LinkProof(p), faults' = faults,
         NEW k \in Links, Registered(k), Good(k)
  PROVE  Good(k)'
<1>0. faults \in Nat
  BY LinkAssumption DEF IInv, TypeOK, NetTypes
<1>1. ASSUME NEW p \in net, Dispatch(p) PROVE Good(k)'
  BY <1>1, FindGood, ProofGood, PongGood, AcceptGood, DataGood, PingGood DEF Dispatch
<1>2. CASE HandleLRProof
  BY <1>2, HandGood
<1>3. CASE Sweepers
  BY <1>3, ScanGood, SweepGood, PeerSweepGood DEF Sweepers
<1>4. CASE Tick
  BY <1>4, TickGood
<1>5. CASE Announced \/ Still
  <2>1. /\ UNCHANGED <<ist, ikey, iage, busy, sweep, swept, pc, at, seal, calls, signalled, rkey, rage, rsweep, net>>
        /\ known => known'
    BY <1>5 DEF Announced, Still, initVars, callVars, peerVars
  <2>2. SameOn(k, PacketTypes) /\ SameHand(k)
    BY <2>1 DEF SameOn, SameHand
  <2> QED
    BY <2>1, <2>2, GoodFrame
<1>6. CASE (\E p \in net : Lose(p)) \/ Restart \/ Evict
  BY <1>0, <1>6 DEF Lose, Restart, Evict, Fault
<1>7. ASSUME NEW p \in net, LinkProof(p) PROVE Good(k)'
  BY <1>1, <1>7 DEF Dispatch
<1> QED
  BY <1>1, <1>2, <1>3, <1>4, <1>5, <1>6, <1>7 DEF Quiet, Environment

\* What they do to the calls: none ends, and none opens a link.  A link the sweeper closes
\* was not good.
LEMMA QuietCost ==
  ASSUME IInv, Quiet \/ \E p \in net : LinkProof(p)
  PROVE  /\ UNCHANGED <<pc, at, fails>>
         /\ faults' \in {faults, faults + 1}
         /\ \A k \in Links : Registered(k)' => Registered(k)
         /\ faults' = faults => (known => known')
         /\ \/ \A k \in Links : ist'[k] = "closed" => ist[k] = "closed"
            \/ /\ faults' = faults /\ known' = known
               /\ \E k \in Links : Registered(k) /\ ~Registered(k)' /\ ~Good(k)
<1>0. TypeOK /\ ist \in LinkStates /\ faults \in Nat
  BY LinkAssumption DEF IInv, TypeOK, InitiatorTypes, LinkStates, NetTypes
<1>1. ASSUME NEW p \in net, LinkProof(p)
      PROVE  UNCHANGED <<pc, at, fails, ist, known>> /\ faults' \in {faults, faults + 1}
  BY <1>1 DEF LinkProof, Take, Fault
<1>2. CASE \E p \in net : LinkProof(p)
  BY <1>1, <1>2 DEF Registered
<1>3. Quiet => UNCHANGED <<pc, at>> /\ \A k \in Links : Moved(k)
  BY QuietEffect DEF LeavesCalls
<1>4. Quiet => \A k \in Links : Registered(k)' => Registered(k)
  BY <1>3 DEF Moved, Registered
<1>5. CASE HandleLRProof
  <2>1. busy.link \in Links
    BY <1>0, <1>5, PacketFields DEF HandleLRProof, TypeOK, InitiatorTypes
  <2>2. UNCHANGED <<fails, faults, known>> /\ \A k \in Links : ist'[k] = "closed" => ist[k] = "closed"
    BY <1>0, <1>5, <2>1 DEF HandleLRProof, callVars, LinkStates
  <2> QED
    BY <1>3, <1>4, <1>5, <2>2 DEF Quiet
<1>6. ASSUME NEW a \in sweep, SweepStep(a)
      PROVE  /\ fails' = fails /\ known' = known /\ faults' \in {faults, faults + 1}
             /\ \/ \A k \in Links : ist'[k] = "closed" => ist[k] = "closed"
                \/ faults' = faults /\ \E k \in Links : Registered(k) /\ ~Registered(k)' /\ ~Good(k)
  <2>1. fails' = fails /\ known' = known /\ faults' \in {faults, faults + 1}
    BY <1>6 DEF SweepStep, callVars, Fault
  <2>2. a[1] \in Links /\ a = <<a[1], a[2]>>
    BY <1>0 DEF TypeOK, InitiatorTypes
  <2>3. CASE a[2] = "close" /\ CloseLink(a[1]) /\ faults' = faults
    <3>1. PICK k \in Links : k = a[1]
      BY <2>2
    <3>2. ~Good(k)
      BY <2>2, <2>3, <3>1 DEF Good, Lives
    <3>3. CASE Registered(k)
      <4>1. ~Registered(k)'
        BY <1>0, <2>3, <3>1, <3>3 DEF CloseLink, Registered, LinkStates
      <4> QED
        BY <2>1, <2>3, <3>2, <3>3, <4>1
    <3>4. CASE ~Registered(k)
      <4>1. ist' = ist
        BY <1>0, <2>3, <3>1, <3>4 DEF CloseLink, LinkStates
      <4> QED
        BY <2>1, <4>1
    <3> QED
      BY <3>3, <3>4
  <2>4. CASE ist' = ist
    BY <2>1, <2>4
  <2> QED
    BY <1>6, <2>3, <2>4 DEF SweepStep
<1>7. CASE \E a \in sweep : SweepStep(a)
  <2>1. Quiet
    BY <1>7 DEF Quiet, Sweepers
  <2> QED
    BY <1>3, <1>4, <1>6, <1>7, <2>1
<1>8. CASE SweepScan \/ PeerSweepScan \/ \E k \in rsweep : PeerSweepStep(k)
  <2>1. UNCHANGED <<pc, at, fails, faults, known, ist>>
    BY <1>8 DEF SweepScan, PeerSweepScan, PeerSweepStep, callVars, initVars
  <2> QED
    BY <2>1 DEF Registered
<1>9. CASE Environment \/ Still
  <2>1. UNCHANGED <<pc, at, fails, ist>> /\ faults' \in {faults, faults + 1}
        /\ (faults' = faults => (known => known'))
    BY <1>0, <1>9 DEF Environment, Tick, Lose, Restart, Evict, Announced, Fault, Still, callVars, initVars
  <2> QED
    BY <2>1 DEF Registered
<1>10. ASSUME NEW p \in net, Dispatch(p)
       PROVE  UNCHANGED <<pc, at, fails, ist, known>> /\ faults' \in {faults, faults + 1}
  BY <1>1, <1>10 DEF Dispatch, FindLink, LinkPong, AcceptRequest, LinkData, LinkPing, Take, Fault,
                     callVars, initVars
<1>11. CASE \E p \in net : Dispatch(p)
  BY <1>10, <1>11 DEF Registered
<1> QED
  BY <1>2, <1>5, <1>7, <1>8, <1>9, <1>11 DEF Quiet, Sweepers

\* So the account is kept by them.
LEMMA PricedQuiet ==
  ASSUME IInv, Opened, TypeOK', NEW own, NEW D, Spoiled(own, D), Quiet \/ \E p \in net : LinkProof(p)
  PROVE  \E E : Spoiled(own, E)'
<1>0. Owner(own) /\ faults \in Nat /\ \A v \in Workers : fails[v] \in Nat
  BY CostTypes DEF Spoiled, IInv
<1>1. Owner(own)' /\ Follows(own, own)
  BY <1>0, OwnerQuiet DEF Follows
<1>2. /\ UNCHANGED <<pc, at, fails>>
      /\ faults' \in {faults, faults + 1}
      /\ \A k \in Links : Registered(k)' => Registered(k)
      /\ faults' = faults => (known => known')
      /\ \/ \A k \in Links : ist'[k] = "closed" => ist[k] = "closed"
         \/ /\ faults' = faults /\ known' = known
            /\ \E k \in Links : Registered(k) /\ ~Registered(k)' /\ ~Good(k)
  BY QuietCost
<1>3. CASE \A k \in Links : ist'[k] = "closed" => ist[k] = "closed"
  <2>1. ASSUME NEW v \in Workers PROVE Doomed(v)' <= Doomed(v)
    <3>1. pc[v] \in {"await", "ready", "armed", "wait", "transfer"} => at[v] \in Links
      BY DEF IInv, TypeOK, CallTypes
    <3> QED
      BY <1>2, <1>3, <3>1 DEF Doomed
  <2>2. CASE faults' = faults + 1
    <3>1. Spoiled(own, Workers)'
      BY <1>1, <1>2, <2>1, <2>2, Spoils
    <3> QED
      BY <3>1
  <2>3. CASE faults' = faults
    <3>1. \A k \in Links : Registered(k) /\ Registered(k)' /\ Good(k) => Good(k)'
      BY <2>3, QuietGood
    <3>2. ~known' => \A v \in Workers : pc'[v] = "open" => v \in D
      BY <1>2, <2>3 DEF Spoiled
    <3>3. \A v \in Workers : fails'[v] + Doomed(v)' <= fails[v] + Doomed(v)
      BY <1>0, <1>2, <2>1, DoomedType
    <3>4. Spoiled(own, D)'
      BY <1>1, <1>2, <2>3, <3>1, <3>2, <3>3, Remains
    <3> QED
      BY <3>4
  <2> QED
    BY <1>2, <2>2, <2>3
<1>4. ASSUME faults' = faults, known' = known, NEW k \in Links, Registered(k), ~Registered(k)', ~Good(k)
      PROVE  \E E : Spoiled(own, E)'
  <2>1. \A j \in Links : Registered(j)' => Registered(j) /\ (Good(j) => Good(j)')
    BY <1>2, <1>4, QuietGood
  <2>2. \A v \in Workers : fails'[v] + Doomed(v)' <= fails[v] + Doomed(v) + 1
    BY <1>0, <1>2, DoomedType
  <2> QED
    BY <1>1, <1>2, <1>4, <2>1, <2>2, Closes
<1> QED
  BY <1>2, <1>3, <1>4

LEMMA PricedStep == IInv /\ Opened /\ Priced /\ [Next]_vars => Priced'
<1> SUFFICES ASSUME IInv, Opened, Priced, [Next]_vars PROVE Priced'
  OBVIOUS
<1>0. TypeOK'
  BY TypeStep DEF IInv
<1>1. PICK own, D : Spoiled(own, D)
  BY DEF Priced
<1>2. ASSUME NEW w \in Workers, Sender(w) PROVE \E next, E : Spoiled(next, E)'
  BY <1>0, <1>1, <1>2, PricedSender
<1>3. Quiet \/ (\E p \in net : LinkProof(p)) => \E E : Spoiled(own, E)'
  BY <1>0, <1>1, PricedQuiet
<1> QED
  BY <1>2, <1>3, StepKinds DEF Priced

\* Initially there are no links, and nothing has failed.
LEMMA InitPriced == Init => Opened /\ Priced
<1> SUFFICES ASSUME Init PROVE Opened /\ Priced
  OBVIOUS
<1>1. Opened
  BY DEF Init, Opened
<1>2. Owner([w \in Workers |-> NoLink])
  BY NoLinkIsNone DEF Init, Owner, Registered
<1>3. \A w \in Workers : fails[w] + Cardinality({}) + Doomed(w) <= faults * Cardinality(Workers)
  <2>1. Cardinality({}) = 0 /\ Cardinality(Workers) \in Nat
    BY WorkerAssumption, FS_EmptySet, FS_CardinalityType
  <2>2. \A w \in Workers : fails[w] = 0 /\ Doomed(w) = 0 /\ faults = 0
    BY DEF Init, Doomed
  <2>3. 0 * Cardinality(Workers) = 0
    BY <2>1
  <2> QED
    BY <2>1, <2>2, <2>3
<1>4. Spoiled([w \in Workers |-> NoLink], {})
  BY <1>2, <1>3 DEF Spoiled, Init, Registered
<1> QED
  BY <1>1, <1>4 DEF Priced

\* The account covers the failures.
LEMMA PricedCovers == IInv /\ Priced => \A w \in Workers : fails[w] <= faults * Cardinality(Workers)
<1> SUFFICES ASSUME IInv, Priced, NEW w \in Workers PROVE fails[w] <= faults * Cardinality(Workers)
  OBVIOUS
<1>1. PICK own, D : Spoiled(own, D)
  BY DEF Priced
<1>2. /\ fails[w] \in Nat /\ Cardinality(D) \in Nat /\ Doomed(w) \in Nat
      /\ faults * Cardinality(Workers) \in Nat
  BY <1>1, CostTypes, DoomedType, Product DEF Spoiled, IInv
<1>3. fails[w] + Cardinality(D) + Doomed(w) <= faults * Cardinality(Workers)
  BY <1>1 DEF Spoiled
<1> QED
  BY <1>2, <1>3

\* The peer is known but for an eviction, which is a fault.
Missing ==
  /\ ~known => faults > 0
  /\ \A w \in Workers : refused[w] > 0 => faults > 0

\* Faults are never taken back, and a step that is none does not forget the peer.
LEMMA FaultsGrow ==
  ASSUME TypeOK, [Next]_vars
  PROVE  /\ faults \in Nat /\ faults' \in {faults, faults + 1}
         /\ faults' = faults => (known => known')
<1>0. faults \in Nat
  BY LinkAssumption DEF TypeOK, NetTypes
<1>1. ASSUME NEW w \in Workers, Sender(w)
      PROVE  known' = known /\ faults' \in {faults, faults + 1}
  BY <1>1 DEF Sender, Acquire, StartLink, AwaitActive, HandshakeTimeout, Prepare, Transmit, Proven, ProofTimeout,
              Transfer, TransferDone, TransferFails, Deadline, Fault, initVars
<1>2. ASSUME NEW p \in net, Dispatch(p)
      PROVE  known' = known /\ faults' \in {faults, faults + 1}
  BY <1>2 DEF Dispatch, FindLink, LinkProof, LinkPong, AcceptRequest, LinkData, LinkPing, Take, Fault, initVars
<1>3. HandleLRProof => known' = known /\ faults' = faults
  BY DEF HandleLRProof
<1>4. Sweepers => known' = known /\ faults' \in {faults, faults + 1}
  BY DEF Sweepers, SweepScan, SweepStep, PeerSweepScan, PeerSweepStep, Fault, initVars
<1>5. Environment => /\ faults' \in {faults, faults + 1}
                     /\ faults' = faults => (known => known')
  BY <1>0 DEF Environment, Tick, Lose, Restart, Evict, Announced, Fault, initVars
<1>6. (\E w \in Workers : PeerUnknown(w)) \/ UNCHANGED vars => known' = known /\ faults' = faults
  BY DEF PeerUnknown, vars, initVars
<1> QED
  BY <1>0, <1>1, <1>2, <1>3, <1>4, <1>5, <1>6 DEF Next, Finished

\* Every step keeps it: a call is refused only while the peer is missing.
LEMMA MissingStep == TypeOK /\ Missing /\ [Next]_vars => Missing'
<1> SUFFICES ASSUME TypeOK, Missing, [Next]_vars PROVE Missing'
  OBVIOUS
<1>1. /\ faults \in Nat /\ faults' \in {faults, faults + 1}
      /\ faults' = faults => (known => known')
  BY FaultsGrow
<1>2. CASE refused' = refused
  BY <1>1, <1>2 DEF Missing
<1>3. CASE \E w \in Workers : PeerUnknown(w)
  BY <1>1, <1>3 DEF PeerUnknown, Missing, initVars
<1> QED
  BY <1>2, <1>3 DEF Next, Sender, Acquire, StartLink, AwaitActive, HandshakeTimeout, Prepare, Transmit, Proven,
     ProofTimeout, Transfer, TransferDone, TransferFails, Dispatch, FindLink, LinkProof, LinkPong, AcceptRequest,
     LinkData, LinkPing, HandleLRProof, Sweepers, SweepScan, SweepStep, PeerSweepScan, PeerSweepStep,
     Environment, Tick, Lose, Restart, Evict, Announced, Finished, vars

\* One fault, of whatever kind, costs a caller at most as many attempts as there are
\* callers, however the handshakes, proofs, keepalives and closes of SendOverLink, the
\* dispatchers and sweepLinks interleave; acquireLinkTo refuses a call only if the peer
\* has been evicted.
THEOREM FaultsPriced == Spec => []FaultCost
<1>1. Init => Missing
  BY DEF Init, Missing
<1>2. IInv => TypeOK
  BY DEF IInv
<1>3. IInv /\ Priced /\ Missing => FaultCost
  BY PricedCovers DEF Missing, FaultCost
<1> QED
  BY InitIInv, IInvStep, InitPriced, OpenedStep, PricedStep, MissingStep, <1>1, <1>2, <1>3, PTL DEF Spec

===============================================================================
