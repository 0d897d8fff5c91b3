---------------------------- MODULE ResourceProofs ----------------------------
(***************************************************************************)
(* Proofs about Resource, for any number of parts, any segment and window  *)
(* length, any map hashes BuildHashmap accepts, and any number of faults.  *)
(***************************************************************************)
EXTENDS Resource, FiniteSetTheorems, SequenceTheorems, TLAPS

-----------------------------------------------------------------------------
(* Sequences of map hashes *)

\* The smaller of two numbers, as the code computes it.
Least(a, b) == IF a < b THEN a ELSE b

\* The sender's hashmap has one map hash per part.
LEMMA HashType ==
  ASSUME hash \in Hashmaps
  PROVE  hash \in Seq(Hashes) /\ Len(hash) = N
BY ResourceAssumption

\* The segment of the hashmap in an advertisement.
LEMMA FirstMapFacts ==
  ASSUME hash \in Hashmaps
  PROVE  /\ FirstMap \in Seq(Hashes)
         /\ Len(FirstMap) = Least(Seg, N)
         /\ \A i \in 1..Len(FirstMap) : FirstMap[i] = hash[i]
<1>1. hash \in Seq(Hashes) /\ Len(hash) = N
  BY HashType
<1>2. Least(Seg, N) \in 1..N
  BY ResourceAssumption DEF Least
<1>3. FirstMap = SubSeq(hash, 1, Least(Seg, N))
  BY DEF FirstMap, Least
<1> QED  BY <1>1, <1>2, <1>3, SubSeqProperties

\* The segment of the hashmap in an HMU packet.
LEMMA SegmentFacts ==
  ASSUME hash \in Hashmaps, NEW s \in Nat, NEW a \in Nat, a = s * Seg, a <= N
  PROVE  /\ Segment(s) \in Seq(Hashes)
         /\ Len(Segment(s)) = Least(Seg, N - a)
         /\ \A i \in 1..Len(Segment(s)) : Segment(s)[i] = hash[a + i]
<1>1. hash \in Seq(Hashes) /\ Len(hash) = N
  BY HashType
<1>2. (s + 1) * Seg = a + Seg
  BY ResourceAssumption
<1> DEFINE e == Least(a + Seg, N)
<1>3. e \in 0..N /\ e >= a /\ e - a = Least(Seg, N - a)
  BY ResourceAssumption DEF Least
<1>4. Segment(s) = SubSeq(hash, a + 1, e)
  BY <1>2 DEF Segment, Least
<1> HIDE DEF e
<1>5. \A i \in (a + 1)..e : hash[i] \in Hashes
  BY <1>1, <1>3
<1>6. /\ Segment(s) \in Seq(Hashes)
      /\ Len(Segment(s)) = IF a + 1 <= e THEN e - (a + 1) + 1 ELSE 0
      /\ \A i \in 1..(e - (a + 1) + 1) : Segment(s)[i] = hash[(a + 1) + i - 1]
  BY <1>3, <1>4, <1>5, SubSeqProperties
<1>7. Len(Segment(s)) = e - a
  BY <1>3, <1>6
<1>8. \A i \in 1..(e - a) : Segment(s)[i] = hash[a + i]
  <2> TAKE i \in 1..(e - a)
  <2>1. i \in 1..(e - (a + 1) + 1) /\ (a + 1) + i - 1 = a + i
    BY <1>3
  <2> QED  BY <1>6, <2>1
<1> QED  BY <1>3, <1>6, <1>7, <1>8
\* Whole segments and what is left of a length.
LEMMA Division ==
  ASSUME NEW n \in Nat
  PROVE  /\ n \div Seg \in Nat
         /\ (n \div Seg) * Seg \in Nat
         /\ (n \div Seg) * Seg <= n
         /\ n < (n \div Seg) * Seg + Seg
<1>1. Seg \in Nat \ {0}
  BY ResourceAssumption
<1>2. n \div Seg \in Nat
  BY <1>1, Z3
<1>3. (n \div Seg) * Seg <= n
  BY <1>1, Z3
<1>4. n < (n \div Seg) * Seg + Seg
  BY <1>1, Z3
<1>5. (n \div Seg) * Seg \in Nat
  BY <1>1, <1>2
<1> QED  BY <1>2, <1>3, <1>4, <1>5

\* A length of s whole segments.
LEMMA WholeSegments ==
  ASSUME NEW s \in Nat
  PROVE  s * Seg \in Nat /\ (s * Seg) \div Seg = s
<1>1. Seg \in Nat \ {0}
  BY ResourceAssumption
<1>2. (s * Seg) \div Seg = s
  BY <1>1, Z3
<1>3. s * Seg \in Nat
  BY <1>1
<1> QED  BY <1>2, <1>3

\* The known hashmap: a beginning of the sender's, in whole segments or complete.
Prefix(mp) ==
  /\ mp \in Seq(Hashes)
  /\ Len(mp) <= N
  /\ \A i \in 1..Len(mp) : mp[i] = hash[i]
  /\ (\E s \in Nat : Len(mp) = s * Seg) \/ Len(mp) = N

\* The first segment is such a beginning.
LEMMA FirstMapPrefix ==
  ASSUME hash \in Hashmaps
  PROVE  Prefix(FirstMap) /\ Len(FirstMap) > 0
<1>1. Len(FirstMap) \in {Seg, N} /\ Len(FirstMap) <= N /\ Len(FirstMap) > 0
  BY FirstMapFacts, ResourceAssumption DEF Least
<1>2. 1 \in Nat /\ Seg = 1 * Seg
  BY ResourceAssumption
<1> QED  BY <1>1, <1>2, FirstMapFacts DEF Prefix

\* applyHmu extends such a beginning to another, however often a segment comes.
LEMMA HmuExtends ==
  ASSUME hash \in Hashmaps, Prefix(map), NEW s, HmuFits(s)
  PROVE  /\ Prefix(map \o Segment(s))
         /\ Len(map \o Segment(s)) >= Len(map)
         /\ \A i \in 1..Len(map) : (map \o Segment(s))[i] = map[i]
<1>1. map \in Seq(Hashes) /\ Len(map) \in Nat /\ Len(map) <= N
  BY DEF Prefix
<1>2. s = Len(map) \div Seg /\ s \in Nat
  BY <1>1, Division DEF HmuFits
<1> DEFINE a == s * Seg
<1>3. a \in Nat /\ a <= Len(map) /\ a <= N
  BY <1>1, <1>2, Division, ResourceAssumption
<1>4. /\ Segment(s) \in Seq(Hashes)
      /\ Len(Segment(s)) = Least(Seg, N - a)
      /\ \A i \in 1..Len(Segment(s)) : Segment(s)[i] = hash[a + i]
  BY <1>2, <1>3, SegmentFacts
<1>5. /\ map \o Segment(s) \in Seq(Hashes)
      /\ Len(map \o Segment(s)) = Len(map) + Len(Segment(s))
      /\ \A i \in 1..(Len(map) + Len(Segment(s))) :
           (map \o Segment(s))[i] = IF i <= Len(map) THEN map[i] ELSE Segment(s)[i - Len(map)]
  BY <1>1, <1>4, ConcatProperties
<1>6. CASE Len(map) = a
  <2>1. Len(map \o Segment(s)) = a + Least(Seg, N - a)
    BY <1>4, <1>5, <1>6
  <2>2. Len(map \o Segment(s)) \in {(s + 1) * Seg, N} /\ Len(map \o Segment(s)) <= N
    <3>1. (s + 1) * Seg = a + Seg
      BY <1>2, ResourceAssumption
    <3> QED  BY <1>3, <2>1, <3>1, ResourceAssumption DEF Least
  <2>3. s + 1 \in Nat
    BY <1>2
  <2>4. \A i \in 1..Len(map \o Segment(s)) : (map \o Segment(s))[i] = hash[i]
    <3> TAKE i \in 1..Len(map \o Segment(s))
    <3>1. CASE i <= Len(map)
      BY <3>1, <1>1, <1>5 DEF Prefix
    <3>2. CASE i > Len(map)
      <4>1. i - Len(map) \in 1..Len(Segment(s)) /\ a + (i - Len(map)) = i
        BY <3>2, <1>1, <1>3, <1>5, <1>6, <1>4
      <4> QED  BY <3>2, <4>1, <1>1, <1>4, <1>5
    <3> QED  BY <3>1, <3>2, <1>1
  <2> QED  BY <1>1, <1>5, <2>2, <2>3, <2>4, <1>4 DEF Prefix
<1>7. CASE Len(map) # a
  <2>1. Len(map) = N
    <3> SUFFICES ASSUME NEW t \in Nat, Len(map) = t * Seg PROVE FALSE
      BY DEF Prefix
    <3>1. t = s
      BY <1>2, WholeSegments
    <3> QED  BY <3>1, <1>7
  <2>2. N < a + Seg
    BY <2>1, <1>1, <1>2, Division
  <2>3. Len(Segment(s)) <= 0
    BY <2>1, ResourceAssumption DEF HmuFits
  <2>4. FALSE
    BY <1>3, <1>4, <1>7, <2>1, <2>2, <2>3, ResourceAssumption DEF Least
  <2> QED  BY <2>4
<1> QED  BY <1>6, <1>7

-----------------------------------------------------------------------------
(* Packets *)

\* What a Broadcast, failed or not, does to the network.
Sends(ps) == net \subseteq net' /\ net' \subseteq net \cup ps

LEMMA BroadcastSends ==
  ASSUME NEW ps, Broadcast(ps) \/ BroadcastFails(ps)
  PROVE  Sends(ps)
BY DEF Broadcast, BroadcastFails, Sends

\* The fields of the packets the two goroutines take.
LEMMA PacketFields ==
  ASSUME NEW p \in Packets
  PROVE  /\ p.kind = "part" => p.part \in Parts
         /\ p.kind = "hmu" => p.seg \in Nat
         /\ p.kind = "req" => p.want \in SUBSET Hashes /\ p.last \in Hashes \cup {None}
         /\ p.kind = "prf" => p.ok \in BOOLEAN /\ p = Prf(p.ok)
         /\ p.kind \in Kinds
BY DEF Packets, Prf, Kinds

\* Advertisements, cancels and proofs.
LEMMA SmallPackets ==
  /\ Adv \in Packets /\ Rcl \in Packets /\ Adv.kind = "adv" /\ Rcl.kind = "rcl"
  /\ \A ok \in BOOLEAN : Prf(ok) \in Packets /\ Prf(ok).kind = "prf" /\ Prf(ok).ok = ok
BY DEF Adv, Rcl, Prf, Packets

\* The parts of the body that are still wanted.
LEMMA WantedFacts ==
  ASSUME NEW mp \in Seq(Hashes), NEW pl
  PROVE  /\ Wanted(mp, pl) \subseteq 1..Len(mp)
         /\ Cardinality(Wanted(mp, pl)) \in Nat
<1>1. Wanted(mp, pl) \subseteq 1..Len(mp)
  BY DEF Wanted, Missing
<1>2. IsFiniteSet(1..Len(mp))
  BY FS_Interval
<1> QED  BY <1>1, <1>2, FS_Subset, FS_CardinalityType

\* A request is a packet for the sender.
LEMMA ReqFacts ==
  ASSUME NEW mp \in Seq(Hashes), Len(mp) > 0, NEW pl
  PROVE  NextReq(mp, pl) \in Packets /\ NextReq(mp, pl).kind = "req"
<1>1. {mp[i] : i \in Wanted(mp, pl)} \in SUBSET Hashes
  BY WantedFacts
<1>2. mp[Len(mp)] \in Hashes
  OBVIOUS
<1>3. (IF Exhausted(mp, pl) THEN mp[Len(mp)] ELSE None) \in Hashes \cup {None}
  BY <1>2
<1>4. \A w \in SUBSET Hashes, l \in Hashes \cup {None} : Req(w, l) \in Packets /\ Req(w, l).kind = "req"
  BY DEF Req, Packets
<1> QED  BY <1>1, <1>3, <1>4 DEF NextReq

\* What a request is answered with.
LEMMA AnswerFacts ==
  ASSUME NEW p
  PROVE  /\ Served(p) \subseteq Packets /\ \A q \in Served(p) : q.kind = "part"
         /\ HmuFor(p) \subseteq Packets /\ \A q \in HmuFor(p) : q.kind = "hmu"
<1>1. \A i \in Parts : Part(i) \in Packets /\ Part(i).kind = "part"
  BY DEF Part, Packets
<1>2. \A k \in Parts : k \div Seg \in Nat
  BY Division, ResourceAssumption DEF Parts
<1>3. \A s \in Nat : Hmu(s) \in Packets /\ Hmu(s).kind = "hmu"
  BY DEF Hmu, Packets
<1> QED  BY <1>1, <1>2, <1>3 DEF Served, HmuFor

\* requestNextWindow sends nothing but a request.
LEMMA WindowFacts ==
  ASSUME NEW mp \in Seq(Hashes), Len(mp) > 0, NEW pl, DOMAIN pl \subseteq Parts,
         RequestNextWindow(mp, pl)
  PROVE  target' \in Nat /\ Sends({NextReq(mp, pl)})
<1>1. IsFiniteSet(Parts)
  BY FS_Interval, ResourceAssumption DEF Parts
<1>2. Cardinality(DOMAIN pl) \in Nat
  BY <1>1, FS_Subset, FS_CardinalityType
<1>3. target' = Cardinality(DOMAIN pl) + Cardinality(Wanted(mp, pl))
  BY DEF RequestNextWindow
<1>4. target' \in Nat
  BY <1>2, <1>3, WantedFacts
<1> QED  BY <1>4, BroadcastSends DEF RequestNextWindow

\* broadcastResourceCancel sends nothing but a cancel.
LEMMA CancelFacts ==
  ASSUME CancelSender
  PROVE  Sends({Rcl})
BY BroadcastSends DEF CancelSender, Sends

-----------------------------------------------------------------------------
(* Types and the receiver's hashmap *)

Bodies == [Parts -> Parts]

\* The type invariant, what OnAssembled was given, and the known hashmap.
Typed ==
  /\ TypeOK
  /\ bodies \in Seq(Bodies)
  /\ Prefix(map)
  /\ ReceiverRuns => Len(map) > 0

SndStates == {"idle", "queued", "advertised", "transferring", "complete", "cancelled",
              "timeout", "deadline", "mismatch", "sequencing", "unsent"}

\* Actions of the sender leave the receiver's state alone and vice versa.
SameReceiver == UNCHANGED <<hash, rcv, map, placed, target, opening, bodies, advs>>
SameSender   == UNCHANGED <<hash, snd, retries>>

\* A step of the sender's goroutine, as far as types are concerned.
LEMMA SenderTyped ==
  ASSUME Typed, SameReceiver,
         snd' \in SndStates, retries' \in 0..(MaxAdvRetries + 1),
         link' \in [{"S", "R"} -> {"active", "closing", "closed"}],
         reg' \subseteq reg \cup {"S"}, "S" \in reg' => SenderRuns',
         cancel' \subseteq cancel, net' \subseteq Packets, inbox' \subseteq inbox
  PROVE  Typed'
<1>1. Prefix(map)'
  BY DEF Typed, SameReceiver, Prefix
<1>2. reg' \subseteq {e \in {"S", "R"} : Runs(e)}'
  BY DEF Typed, TypeOK, SameReceiver, Runs, ReceiverRuns
<1>3. TypeOK'
  BY <1>2, <1>1 DEF Typed, TypeOK, SameReceiver, SndStates, Prefix
<1> QED  BY <1>1, <1>3 DEF Typed, SameReceiver, ReceiverRuns

\* A step of the receiver's goroutine or of its dispatcher.
LEMMA ReceiverTyped ==
  ASSUME Typed, SameSender, link' = link,
         rcv' \in {"idle", "transferring", "complete", "corrupt", "failed", "cancelled"},
         Prefix(map'), ReceiverRuns' => Len(map') > 0,
         target' \in Nat, advs' \in Nat, opening' \in BOOLEAN,
         DOMAIN placed' \subseteq Parts, \A i \in DOMAIN placed' : placed'[i] \in Parts,
         reg' \subseteq reg \cup {"R"}, "R" \in reg' => ReceiverRuns',
         cancel' \subseteq cancel \cup {"S", "R"},
         net' \subseteq Packets, inbox' \subseteq Packets, bodies' \in Seq(Bodies)
  PROVE  Typed'
<1>1. Prefix(map)'
  BY DEF Typed, SameSender, Prefix
<1>2. reg' \subseteq {e \in {"S", "R"} : Runs(e)}'
  BY DEF Typed, TypeOK, SameSender, Runs, SenderRuns
<1>3. TypeOK'
  BY <1>2, <1>1 DEF Typed, TypeOK, SameSender, Prefix
<1> QED  BY <1>1, <1>3 DEF Typed

\* What a sender that returns leaves behind.
LEMMA ReturnsFacts ==
  ASSUME Typed, NEW result \in SndStates \ {"idle", "queued", "advertised", "transferring"},
         SenderReturns(result)
  PROVE  /\ snd' \in SndStates /\ reg' = reg \ {"S"} /\ inbox' \subseteq inbox
         /\ ~SenderRuns'
BY DEF SenderReturns, SenderRuns

\* The sender's goroutine.
LEMMA SenderStepTyped ==
  ASSUME Typed, SenderStep \/ SenderDeadline
  PROVE  Typed'
<1> USE DEF sender, receiver, faults
<1>0. /\ net \subseteq Packets /\ inbox \subseteq Packets
      /\ retries \in 0..(MaxAdvRetries + 1)
      /\ snd \in SndStates
      /\ link \in [{"S", "R"} -> {"active", "closing", "closed"}]
      /\ "S" \in reg => SenderRuns
  BY ResourceAssumption DEF Typed, TypeOK, SndStates, Runs
<1>1. CASE NewResourceSender
  <2>1. "S" \notin reg
    BY <1>0, <1>1 DEF NewResourceSender, SenderRuns
  <2> QED  BY <1>0, <1>1, <2>1, SenderTyped DEF NewResourceSender, SameReceiver, SndStates
<1>2. CASE StartSender
  <2>1. Sends({Adv}) /\ net' \subseteq Packets
    BY <1>0, <1>2, BroadcastSends, SmallPackets DEF StartSender, Sends
  <2>2. \/ snd' = "advertised" /\ reg' = reg \cup {"S"} /\ inbox' = inbox
        \/ SenderReturns("unsent")
    BY <1>2 DEF StartSender
  <2>3. snd' \in SndStates /\ reg' \subseteq reg \cup {"S"} /\ inbox' \subseteq inbox
        /\ ("S" \in reg' => SenderRuns')
    BY <2>2, ReturnsFacts DEF SndStates, SenderRuns
  <2> QED  BY <1>0, <1>2, <2>1, <2>3, SenderTyped DEF StartSender, SameReceiver
<1>3. CASE AdvTimer
  <2>1. net' \subseteq Packets
    BY <1>0, <1>3, BroadcastSends, SmallPackets DEF AdvTimer, Sends
  <2>2. UNCHANGED <<snd, reg, inbox>> \/ SenderReturns("unsent") \/ SenderReturns("timeout")
    BY <1>3 DEF AdvTimer
  <2>3. snd' \in SndStates /\ reg' \subseteq reg \cup {"S"} /\ inbox' \subseteq inbox
        /\ ("S" \in reg' => SenderRuns')
    BY <1>0, <2>2, ReturnsFacts DEF SndStates, SenderRuns
  <2>4. link' \in [{"S", "R"} -> {"active", "closing", "closed"}]
    BY <1>0, <1>3 DEF AdvTimer, TornDown
  <2>5. retries' \in 0..(MaxAdvRetries + 1)
    BY <1>0, <1>3, ResourceAssumption DEF AdvTimer
  <2> QED  BY <1>0, <1>3, <2>1, <2>3, <2>4, <2>5, SenderTyped DEF AdvTimer, SameReceiver
<1>4. CASE SenderCancelled
  <2>1. SenderReturns("cancelled")
    BY <1>4 DEF SenderCancelled
  <2> QED  BY <1>0, <1>4, <2>1, ReturnsFacts, SenderTyped
           DEF SenderCancelled, SameReceiver, SndStates
<1>5. CASE SenderDeadline
  <2>1. SenderReturns("deadline")
    BY <1>5 DEF SenderDeadline
  <2>2. link' \in [{"S", "R"} -> {"active", "closing", "closed"}]
    BY <1>0, <1>5 DEF SenderDeadline, TornDown
  <2> QED  BY <1>0, <1>5, <2>1, <2>2, ReturnsFacts, SenderTyped
           DEF SenderDeadline, SameReceiver, SndStates
<1>6. ASSUME NEW p \in inbox, TakeReq(p) PROVE Typed'
  <2>1. net' \subseteq Packets
    BY <1>0, <1>6, BroadcastSends, AnswerFacts DEF TakeReq, Sends
  <2>2. \/ snd' = "transferring" /\ inbox' = inbox \ {p} /\ reg' = reg
        \/ SenderReturns("sequencing") \/ SenderReturns("unsent")
    BY <1>6 DEF TakeReq
  <2>3. snd' \in SndStates /\ reg' \subseteq reg \cup {"S"} /\ inbox' \subseteq inbox
        /\ ("S" \in reg' => SenderRuns')
    BY <1>0, <2>2, ReturnsFacts DEF SndStates, SenderRuns
  <2> QED  BY <1>0, <1>6, <2>1, <2>3, SenderTyped DEF TakeReq, SameReceiver
<1>7. ASSUME NEW p \in inbox, TakePrf(p) PROVE Typed'
  <2>1. SenderReturns("complete") \/ SenderReturns("mismatch")
    BY <1>7 DEF TakePrf
  <2>2. snd' \in SndStates /\ reg' \subseteq reg \cup {"S"} /\ inbox' \subseteq inbox
        /\ ("S" \in reg' => SenderRuns')
    BY <2>1, ReturnsFacts DEF SndStates
  <2> QED  BY <1>0, <1>7, <2>2, SenderTyped DEF TakePrf, SameReceiver
<1> QED  BY <1>1, <1>2, <1>3, <1>4, <1>5, <1>6, <1>7 DEF SenderStep

\* Filling a slot.
LEMMA PutFacts ==
  ASSUME Typed, NEW i \in Parts, NEW slot \in Slots(i)
  PROVE  /\ slot \in Parts /\ slot \in 1..Len(map) /\ hash[slot] = hash[i]
         /\ DOMAIN Put(slot, i) = DOMAIN placed \cup {slot}
         /\ DOMAIN Put(slot, i) \subseteq Parts
         /\ \A j \in DOMAIN Put(slot, i) :
              /\ Put(slot, i)[j] = IF j = slot THEN i ELSE placed[j]
              /\ Put(slot, i)[j] \in Parts
<1>1. slot \in 1..Len(map) /\ map[slot] = hash[i] /\ map[slot] = hash[slot] /\ Len(map) <= N /\ Len(map) \in Nat
  BY DEF Slots, Typed, Prefix
<1>2. slot \in Parts
  BY <1>1, ResourceAssumption DEF Parts
<1>3. DOMAIN placed \subseteq Parts /\ \A j \in DOMAIN placed : placed[j] \in Parts
  BY DEF Typed, TypeOK
<1> QED  BY <1>1, <1>2, <1>3 DEF Put

\* assemble, and what follows it.
LEMMA AssembleFacts ==
  ASSUME Typed, NEW pl \in Bodies, Assemble(pl)
  PROVE  /\ rcv' \in {"complete", "corrupt"} /\ reg' = reg \ {"R"}
         /\ Sends({Prf(TRUE), Rcl}) /\ net' \subseteq Packets
         /\ inbox' \subseteq inbox /\ target' = target
         /\ bodies' \in Seq(Bodies)
<1>1. bodies \in Seq(Bodies) /\ net \subseteq Packets
  BY DEF Typed, TypeOK
<1>2. bodies' \in Seq(Bodies)
  BY <1>1 DEF Assemble
<1>3. Sends({Prf(TRUE), Rcl})
  <2>1. Sends({Prf(TRUE)}) \/ Sends({Rcl})
    BY BroadcastSends, CancelFacts DEF Assemble
  <2> QED  BY <2>1 DEF Sends
<1>4. net' \subseteq Packets
  BY <1>1, <1>3, SmallPackets DEF Sends
<1>5. rcv' \in {"complete", "corrupt"} /\ reg' = reg \ {"R"}
  BY DEF Assemble, ReceiverReturns
<1> QED  BY <1>2, <1>3, <1>4, <1>5 DEF Assemble

\* The receiver's goroutine takes a part.
LEMMA TakePartTyped ==
  ASSUME Typed, NEW p \in inbox, TakePart(p)
  PROVE  Typed'
<1> USE DEF sender, receiver, faults
<1>0. /\ net \subseteq Packets /\ inbox \subseteq Packets /\ p \in Packets /\ p.part \in Parts
      /\ map \in Seq(Hashes) /\ Len(map) > 0 /\ target \in Nat /\ advs \in Nat
      /\ opening \in BOOLEAN /\ bodies \in Seq(Bodies) /\ Prefix(map)
      /\ DOMAIN placed \subseteq Parts /\ \A i \in DOMAIN placed : placed[i] \in Parts
      /\ rcv = "transferring"
      /\ rcv \in {"idle", "transferring", "complete", "corrupt", "failed", "cancelled"}
  BY PacketFields DEF Typed, TypeOK, TakePart, ReceiverRuns
<1>1. SameSender /\ link' = link /\ map' = map /\ advs' = advs /\ opening' = opening /\ cancel' = cancel
  BY DEF TakePart, SameSender
<1>2. Prefix(map')
  BY <1>0, <1>1 DEF SameSender, Prefix
<1>3. CASE UNCHANGED <<rcv, placed, target, reg, net, bodies>> /\ inbox' \subseteq inbox
  BY <1>0, <1>1, <1>2, <1>3, ReceiverTyped DEF ReceiverRuns
<1>4. ASSUME NEW slot \in Slots(p.part), placed' = Put(slot, p.part),
             \/ DOMAIN placed' = Parts /\ Assemble(placed')
             \/ /\ \/ RequestNextWindow(map, placed')
                   \/ UNCHANGED <<target, net, sendFails>>
                /\ inbox' = inbox \ {p}
                /\ UNCHANGED <<rcv, reg, bodies>>
      PROVE  Typed'
  <2>1. DOMAIN placed' \subseteq Parts /\ \A i \in DOMAIN placed' : placed'[i] \in Parts
    BY <1>0, <1>4, PutFacts
  <2>2. CASE DOMAIN placed' = Parts /\ Assemble(placed')
    <3>1. placed' \in Bodies
      BY <1>4, <2>1, <2>2 DEF Bodies, Put
    <3>2. /\ rcv' \in {"complete", "corrupt"} /\ reg' = reg \ {"R"}
          /\ net' \subseteq Packets
          /\ inbox' \subseteq inbox /\ target' = target
          /\ bodies' \in Seq(Bodies)
      BY <2>2, <3>1, AssembleFacts
    <3> QED  BY <1>0, <1>1, <1>2, <2>1, <3>2, ReceiverTyped DEF ReceiverRuns
  <2>3. CASE RequestNextWindow(map, placed') /\ inbox' = inbox \ {p} /\ UNCHANGED <<rcv, reg, bodies>>
    <3>1. target' \in Nat /\ net' \subseteq Packets
      BY <1>0, <2>1, <2>3, WindowFacts, ReqFacts DEF Sends
    <3> QED  BY <1>0, <1>1, <1>2, <2>1, <2>3, <3>1, ReceiverTyped DEF ReceiverRuns
  <2>4. CASE UNCHANGED <<target, net, sendFails>> /\ inbox' = inbox \ {p} /\ UNCHANGED <<rcv, reg, bodies>>
    BY <1>0, <1>1, <1>2, <2>1, <2>4, ReceiverTyped DEF ReceiverRuns
  <2> QED  BY <1>4, <2>2, <2>3, <2>4
<1> QED  BY <1>3, <1>4 DEF TakePart

\* The receiver's other steps, and its dispatcher inside openResourceReceiver.
LEMMA ReceiverStepTyped ==
  ASSUME Typed, ReceiverStep \/ ReceiverStops
  PROVE  Typed'
<1> USE DEF sender, receiver, faults
<1>0. /\ net \subseteq Packets /\ inbox \subseteq Packets
      /\ map \in Seq(Hashes) /\ target \in Nat /\ advs \in Nat /\ hash \in Hashmaps
      /\ opening \in BOOLEAN /\ bodies \in Seq(Bodies) /\ Prefix(map)
      /\ DOMAIN placed \subseteq Parts /\ \A i \in DOMAIN placed : placed[i] \in Parts
      /\ ReceiverRuns => Len(map) > 0
      /\ rcv \in {"idle", "transferring", "complete", "corrupt", "failed", "cancelled"}
      /\ "R" \in reg => ReceiverRuns
  BY DEF Typed, TypeOK, Runs
<1>1. CASE RegisterReceiver
  <2>1. CASE "R" \notin reg /\ placed' = <<>>
    <3>1. Prefix(FirstMap) /\ FirstMap \in Seq(Hashes) /\ Len(FirstMap) > 0 /\ map' = FirstMap
      BY <1>0, <1>1, <2>1, FirstMapPrefix DEF RegisterReceiver, Prefix
    <3>2. DOMAIN placed' = {}
      BY <2>1
    <3>3. target' \in Nat
      BY <1>1, <2>1, <3>1, WantedFacts DEF RegisterReceiver
    <3>4. net' \subseteq Packets
      BY <1>0, <1>1, <2>1, <3>1, BroadcastSends, ReqFacts DEF RegisterReceiver, Sends
    <3>5. /\ \/ rcv' = "transferring" /\ reg' = reg \cup {"R"}
             \/ rcv' = "failed" /\ reg' = reg \ {"R"}
          /\ SameSender /\ link' = link /\ advs' = advs /\ opening' \in BOOLEAN /\ bodies' = bodies
          /\ cancel' \subseteq cancel /\ inbox' \subseteq inbox
      BY <1>1, <2>1 DEF RegisterReceiver, ReceiverReturns, SameSender
    <3>6. Prefix(map')
      BY <3>1, <3>5 DEF SameSender, Prefix
    <3> QED  BY <1>0, <3>1, <3>2, <3>3, <3>4, <3>5, <3>6, ReceiverTyped DEF ReceiverRuns
  <2>2. CASE "R" \in reg
    <3>1. net' \subseteq Packets
      BY <1>0, <1>1, <2>2, CancelFacts, SmallPackets DEF RegisterReceiver, Sends
    <3>2. Prefix(map')
      BY <1>0, <1>1, <2>2 DEF RegisterReceiver, Prefix
    <3> QED  BY <1>0, <1>1, <2>2, <3>1, <3>2, ReceiverTyped
             DEF RegisterReceiver, SameSender, ReceiverRuns
  <2> QED  BY <1>1, <2>1, <2>2 DEF RegisterReceiver
<1>2. CASE LossTimer
  <2>1. target' \in Nat /\ net' \subseteq Packets
    BY <1>0, <1>2, WindowFacts, ReqFacts DEF LossTimer, Sends
  <2>2. Prefix(map')
    BY <1>0, <1>2 DEF LossTimer, Prefix
  <2> QED  BY <1>0, <1>2, <2>1, <2>2, ReceiverTyped DEF LossTimer, SameSender, ReceiverRuns
<1>3. ASSUME NEW p \in inbox, TakeHmu(p) PROVE Typed'
  <2>1. CASE HmuFits(p.seg) /\ map' = map \o Segment(p.seg) /\ RequestNextWindow(map', placed)
    <3>1. Prefix(map \o Segment(p.seg)) /\ Len(map \o Segment(p.seg)) >= Len(map)
      BY <1>0, <2>1, HmuExtends
    <3>2. map' \in Seq(Hashes) /\ Len(map') > 0
      BY <1>0, <1>3, <2>1, <3>1 DEF TakeHmu, Prefix
    <3>3. target' \in Nat /\ net' \subseteq Packets
      <4>1. target' \in Nat /\ Sends({NextReq(map', placed)})
        BY <1>0, <2>1, <3>2, WindowFacts
      <4>2. NextReq(map', placed) \in Packets
        BY <3>2, ReqFacts
      <4> QED  BY <1>0, <4>1, <4>2 DEF Sends
    <3>4. Prefix(map')
      BY <1>3, <2>1, <3>1 DEF TakeHmu, Prefix
    <3> QED  BY <1>0, <1>3, <3>2, <3>3, <3>4, ReceiverTyped
             DEF TakeHmu, SameSender, ReceiverRuns
  <2>2. CASE UNCHANGED <<map, target, net, sendFails>>
    <3>1. Prefix(map')
      BY <1>0, <1>3, <2>2 DEF TakeHmu, Prefix
    <3> QED  BY <1>0, <1>3, <2>2, <3>1, ReceiverTyped DEF TakeHmu, SameSender, ReceiverRuns
  <2> QED  BY <1>3, <2>1, <2>2 DEF TakeHmu
<1>4. CASE ReceiverStops
  <2>1. Prefix(map')
    BY <1>0, <1>4 DEF ReceiverStops, Prefix
  <2> QED  BY <1>0, <1>4, <2>1, ReceiverTyped
           DEF ReceiverStops, ReceiverReturns, SameSender, ReceiverRuns
<1> QED  BY <1>1, <1>2, <1>3, <1>4, TakePartTyped DEF ReceiverStep

\* The dispatchers, the network and the link.
Environment ==
  \/ \E p \in net : Dispatch(p) \/ Lose(p)
  \/ Garble
  \/ \E e \in {"S", "R"} : CloseLink(e) \/ CloseResources(e)

LEMMA EnvironmentTyped ==
  ASSUME Typed, Environment
  PROVE  Typed'
<1> USE DEF sender, receiver, faults
<1> DEFINE Quiet ==
      /\ UNCHANGED <<hash, snd, retries, rcv, map, placed, target, bodies>>
      /\ net' \subseteq net \cup {Prf(FALSE)} /\ inbox' \subseteq inbox \cup net
      /\ reg' \subseteq reg /\ cancel' \subseteq cancel \cup {"S", "R"}
      /\ advs' = advs \/ advs' = advs + 1
      /\ opening' = opening \/ opening' = TRUE
<1>0. Quiet
  <2>1. ASSUME NEW p \in net, Dispatch(p) PROVE Quiet
    BY <2>1 DEF Dispatch, OpenReceiver
  <2>2. ASSUME NEW p \in net, Lose(p) PROVE Quiet
    BY <2>2 DEF Lose
  <2>3. CASE Garble
    BY <2>3 DEF Garble
  <2>4. ASSUME NEW e \in {"S", "R"}, CloseLink(e) \/ CloseResources(e) PROVE Quiet
    BY <2>4 DEF CloseLink, CloseResources
  <2> QED  BY <2>1, <2>2, <2>3, <2>4 DEF Environment
<1>1. link' \in [{"S", "R"} -> {"active", "closing", "closed"}]
  <2>1. link \in [{"S", "R"} -> {"active", "closing", "closed"}]
    BY DEF Typed, TypeOK
  <2>2. link' = link \/ \E e \in {"S", "R"} : CloseLink(e) \/ CloseResources(e)
    BY DEF Environment, Dispatch, Lose, Garble
  <2> QED  BY <2>1, <2>2 DEF CloseLink, CloseResources
<1>2. Prefix(map)' /\ (ReceiverRuns' => Len(map') > 0)
  BY <1>0 DEF Typed, Prefix, ReceiverRuns
<1>3. reg' \subseteq {e \in {"S", "R"} : Runs(e)}'
  BY <1>0 DEF Typed, TypeOK, Runs, SenderRuns, ReceiverRuns
<1>4. net' \subseteq Packets /\ inbox' \subseteq Packets /\ advs' \in Nat
  <2>1. Prf(FALSE) \in Packets
    BY DEF Prf, Packets
  <2>2. net \subseteq Packets /\ inbox \subseteq Packets /\ advs \in Nat
    BY DEF Typed, TypeOK
  <2>3. net' \subseteq net \cup {Prf(FALSE)} /\ inbox' \subseteq inbox \cup net
    BY <1>0
  <2>4. advs' = advs \/ advs' = advs + 1
    BY <1>0
  <2>5. advs' \in Nat
    BY <2>2, <2>4
  <2> QED  BY <2>1, <2>2, <2>3, <2>5
<1>5. opening' \in BOOLEAN
  <2>1. opening \in BOOLEAN
    BY DEF Typed, TypeOK
  <2> QED  BY <1>0, <2>1
<1>6. TypeOK'
  BY <1>0, <1>1, <1>3, <1>4, <1>5 DEF Typed, TypeOK
<1> QED  BY <1>0, <1>2, <1>6 DEF Typed

\* Nothing has happened yet.
LEMMA InitTyped ==
  ASSUME Init
  PROVE  Typed
<1>1. Prefix(map) /\ ~ReceiverRuns
  <2>1. 0 \in Nat /\ 0 = 0 * Seg /\ 0 <= N
    BY ResourceAssumption
  <2> QED  BY <2>1 DEF Init, Prefix, ReceiverRuns
<1>2. bodies \in Seq(Bodies) /\ map \in Seq(Hashes)
  BY DEF Init
<1>3. DOMAIN placed = {}
  BY DEF Init
<1>4. link \in [{"S", "R"} -> {"active", "closing", "closed"}]
  BY DEF Init
<1>5. opening \in BOOLEAN
  BY DEF Init
<1>6. retries \in 0..(MaxAdvRetries + 1)
  BY ResourceAssumption DEF Init
<1>7. TypeOK
  BY <1>2, <1>3, <1>4, <1>5, <1>6 DEF Init, TypeOK
<1> QED  BY <1>1, <1>2, <1>7 DEF Typed

\* A step that changes nothing.
LEMMA StutterTyped ==
  ASSUME Typed, UNCHANGED vars
  PROVE  Typed'
<1> USE DEF vars, sender, receiver, faults
<1>1. Prefix(map)'
  BY DEF Typed, Prefix
<1>2. TypeOK'
  BY DEF Typed, TypeOK, Runs, SenderRuns, ReceiverRuns
<1> QED  BY <1>1, <1>2 DEF Typed, ReceiverRuns

\* Typed is kept by every step.
LEMMA NextTyped ==
  ASSUME Typed, [Next]_vars
  PROVE  Typed'
BY SenderStepTyped, ReceiverStepTyped, EnvironmentTyped, StutterTyped DEF Next, Environment

\* Both goroutines, the registry and the packets keep their types, and a
\* transfer is registered only while its Run is under way.
THEOREM TypeCorrect == Spec => []TypeOK
<1>1. Init => Typed
  BY InitTyped
<1>2. Typed /\ [Next]_vars => Typed'
  BY NextTyped
<1>3. Typed => TypeOK
  BY DEF Typed
<1> QED  BY <1>1, <1>2, <1>3, PTL DEF Spec

\* The receiver's hashmap is the beginning of the sender's, however often
\* segments are asked for, repeated or delayed (applyHmu, serveHmu).
THEOREM TrueHashmap == Spec => []HashmapTrue
<1>1. Init => Typed
  BY InitTyped
<1>2. Typed /\ [Next]_vars => Typed'
  BY NextTyped
<1>3. Typed => HashmapTrue
  BY DEF Typed, Prefix, HashmapTrue
<1> QED  BY <1>1, <1>2, <1>3, PTL DEF Spec

-----------------------------------------------------------------------------
(* Delivery *)

\* A slot holds a part with its map hash; what was assembled is what was sent;
\* a proof exists only once there is something to prove.
Delivery ==
  /\ \A i \in DOMAIN placed : hash[placed[i]] = hash[i]
  /\ CorruptMeansCollision
  /\ DeliveredIntact
  /\ Prf(TRUE) \in net \cup inbox => bodies # <<>>
  /\ SuccessIsDelivery

\* Steps that fill no slot and end no receiver.
LEMMA DeliveryKept ==
  ASSUME Delivery, hash' = hash, placed' = placed \/ placed' = <<>>, bodies' = bodies,
         rcv' = "corrupt" => rcv = "corrupt",
         Prf(TRUE) \in net' \cup inbox' => Prf(TRUE) \in net \cup inbox,
         snd' = "complete" => snd = "complete" \/ Prf(TRUE) \in inbox
  PROVE  Delivery'
<1>1. CorruptMeansCollision'
  BY DEF Delivery, CorruptMeansCollision
<1>2. DeliveredIntact'
  BY DEF Delivery, DeliveredIntact
<1>3. \A i \in DOMAIN placed' : hash'[placed'[i]] = hash'[i]
  <2>1. CASE placed' = placed
    BY <2>1 DEF Delivery
  <2>2. CASE placed' = <<>>
    <3>1. DOMAIN placed' = {}
      BY <2>2
    <3> QED  BY <3>1
  <2> QED  BY <2>1, <2>2
<1>4. SuccessIsDelivery' /\ (Prf(TRUE) \in net' \cup inbox' => bodies' # <<>>)
  BY DEF Delivery, SuccessIsDelivery
<1> QED  BY <1>1, <1>2, <1>3, <1>4 DEF Delivery, Prf

\* Sets of packets without a good proof.
LEMMA NoProof ==
  ASSUME NEW ps, \A q \in ps : q.kind # "prf", Sends(ps)
  PROVE  Prf(TRUE) \in net' => Prf(TRUE) \in net
BY SmallPackets DEF Sends

\* The sender succeeds only with a proof.
LEMMA SenderDelivery ==
  ASSUME Typed, Delivery, SenderStep \/ SenderDeadline
  PROVE  Delivery'
<1> USE DEF sender, receiver, faults
<1>1. CASE NewResourceSender
  BY <1>1, DeliveryKept DEF NewResourceSender
<1>2. CASE StartSender
  <2>1. Prf(TRUE) \in net' => Prf(TRUE) \in net
    BY <1>2, BroadcastSends, NoProof, SmallPackets DEF StartSender
  <2>2. snd' # "complete" /\ inbox' \subseteq inbox
    BY <1>2 DEF StartSender, SenderReturns
  <2> QED  BY <1>2, <2>1, <2>2, DeliveryKept DEF StartSender
<1>3. CASE AdvTimer
  <2>1. Prf(TRUE) \in net' => Prf(TRUE) \in net
    BY <1>3, BroadcastSends, NoProof, SmallPackets DEF AdvTimer
  <2>2. snd' # "complete" /\ inbox' \subseteq inbox
    BY <1>3 DEF AdvTimer, SenderReturns
  <2> QED  BY <1>3, <2>1, <2>2, DeliveryKept DEF AdvTimer
<1>4. CASE SenderCancelled \/ SenderDeadline
  BY <1>4, DeliveryKept DEF SenderCancelled, SenderDeadline, SenderReturns
<1>5. ASSUME NEW p \in inbox, TakeReq(p) PROVE Delivery'
  <2>1. Sends(Served(p) \cup HmuFor(p))
    BY <1>5, BroadcastSends DEF TakeReq, Sends
  <2>2. Prf(TRUE) \in net' => Prf(TRUE) \in net
    BY <2>1, NoProof, AnswerFacts
  <2>3. snd' # "complete" /\ inbox' \subseteq inbox
    BY <1>5 DEF TakeReq, SenderReturns
  <2> QED  BY <1>5, <2>2, <2>3, DeliveryKept DEF TakeReq
<1>6. ASSUME NEW p \in inbox, TakePrf(p) PROVE Delivery'
  <2>1. p \in Packets
    BY DEF Typed, TypeOK
  <2>2. p = Prf(p.ok)
    BY <1>6, <2>1, PacketFields DEF TakePrf
  <2>3. snd' = "complete" => p.ok
    BY <1>6 DEF TakePrf, SenderReturns
  <2>4. p.ok \in BOOLEAN
    BY <1>6, <2>1, PacketFields DEF TakePrf
  <2>5. snd' = "complete" => Prf(TRUE) \in inbox
    BY <2>2, <2>3, <2>4
  <2> QED  BY <1>6, <2>5, DeliveryKept DEF TakePrf, SenderReturns
<1> QED  BY <1>1, <1>2, <1>3, <1>4, <1>5, <1>6 DEF SenderStep

\* A part goes only into a slot with its map hash.
LEMMA PutRight ==
  ASSUME Typed, Delivery, NEW i \in Parts, NEW slot \in Slots(i)
  PROVE  \A j \in DOMAIN Put(slot, i) : hash[Put(slot, i)[j]] = hash[j]
<1>1. /\ hash[slot] = hash[i]
      /\ DOMAIN Put(slot, i) = DOMAIN placed \cup {slot}
      /\ \A j \in DOMAIN Put(slot, i) : Put(slot, i)[j] = IF j = slot THEN i ELSE placed[j]
  <2>1. DOMAIN placed \subseteq Parts /\ DOMAIN Put(slot, i) = DOMAIN placed \cup {slot}
    BY DEF Put, Typed, TypeOK
  <2> QED  BY <2>1, PutFacts DEF Put
<1>2. ASSUME NEW j \in DOMAIN Put(slot, i) PROVE hash[Put(slot, i)[j]] = hash[j]
  <2>1. CASE j = slot
    BY <1>1, <2>1
  <2>2. CASE j # slot
    BY <1>1, <2>2 DEF Delivery
  <2> QED  BY <2>1, <2>2
<1> QED  BY <1>2

\* When all parts are there, either they are the body, or two map hashes are equal.
LEMMA AssembleDelivery ==
  ASSUME Typed, Delivery, NEW pl \in Bodies, placed' = pl, hash' = hash, snd' = snd,
         \A i \in Parts : hash[pl[i]] = hash[i], Assemble(pl)
  PROVE  Delivery'
<1>1. bodies \in Seq(Bodies)
  BY DEF Typed
<1>2. CASE Assembles(pl)
  <2>1. bodies' = Append(bodies, pl) /\ rcv' = "complete"
    BY <1>2 DEF Assemble, ReceiverReturns
  <2>2. bodies' # <<>>
    BY <1>1, <2>1
  <2>3. DeliveredIntact'
    <3>1. /\ Len(bodies') = Len(bodies) + 1
          /\ \A n \in 1..Len(bodies) : bodies'[n] = bodies[n]
          /\ bodies'[Len(bodies) + 1] = pl
      BY <1>1, <2>1, AppendProperties
    <3> QED  BY <1>1, <1>2, <3>1 DEF Delivery, DeliveredIntact, Assembles
  <2> QED  BY <2>1, <2>2, <2>3 DEF Delivery, CorruptMeansCollision, SuccessIsDelivery, Bodies, Prf
<1>3. CASE ~Assembles(pl)
  <2>1. bodies' = bodies /\ rcv' = "corrupt" /\ Sends({Rcl}) /\ inbox' \subseteq inbox
    BY <1>3, CancelFacts DEF Assemble, ReceiverReturns
  <2>2. \E i, j \in Parts : i # j /\ hash[i] = hash[j]
    <3>1. PICK i \in Parts : pl[i] # i
      BY <1>3 DEF Assembles
    <3>2. pl[i] \in Parts
      BY DEF Bodies
    <3> QED  BY <3>1, <3>2
  <2>3. Prf(TRUE) \in net' => Prf(TRUE) \in net
    BY <2>1, NoProof, SmallPackets
  <2> QED  BY <2>1, <2>2, <2>3 DEF Delivery, CorruptMeansCollision, DeliveredIntact, SuccessIsDelivery, Bodies, Prf
<1> QED  BY <1>2, <1>3

\* The receiver's goroutine.
LEMMA ReceiverDelivery ==
  ASSUME Typed, Delivery, ReceiverStep \/ ReceiverStops
  PROVE  Delivery'
<1> USE DEF sender, receiver, faults
<1>0. map \in Seq(Hashes) /\ hash \in Hashmaps /\ (ReceiverRuns => Len(map) > 0)
      /\ DOMAIN placed \subseteq Parts /\ inbox \subseteq Packets
  BY DEF Typed, TypeOK
<1>1. CASE RegisterReceiver
  <2>1. CASE "R" \notin reg
    <3>1. FirstMap \in Seq(Hashes) /\ Len(FirstMap) > 0
      BY <1>0, FirstMapPrefix DEF Prefix
    <3>2. Sends({NextReq(FirstMap, <<>>)})
      BY <1>1, <2>1, BroadcastSends DEF RegisterReceiver
    <3>3. Prf(TRUE) \in net' => Prf(TRUE) \in net
      BY <3>1, <3>2, NoProof, ReqFacts
    <3> QED  BY <1>1, <2>1, <3>3, DeliveryKept DEF RegisterReceiver, ReceiverReturns
  <2>2. CASE "R" \in reg
    <3>1. Prf(TRUE) \in net' => Prf(TRUE) \in net
      BY <1>1, <2>2, CancelFacts, NoProof, SmallPackets DEF RegisterReceiver
    <3> QED  BY <1>1, <2>2, <3>1, DeliveryKept DEF RegisterReceiver
  <2> QED  BY <2>1, <2>2
<1>2. CASE LossTimer
  <2>1. Sends({NextReq(map, placed)})
    BY <1>0, <1>2, WindowFacts DEF LossTimer
  <2>2. Prf(TRUE) \in net' => Prf(TRUE) \in net
    BY <1>0, <1>2, <2>1, NoProof, ReqFacts DEF LossTimer
  <2> QED  BY <1>2, <2>2, DeliveryKept DEF LossTimer
<1>3. ASSUME NEW p \in inbox, TakeHmu(p) PROVE Delivery'
  <2>1. Prf(TRUE) \in net' => Prf(TRUE) \in net
    <3>1. CASE HmuFits(p.seg) /\ map' = map \o Segment(p.seg) /\ RequestNextWindow(map', placed)
      <4>1. Typed'
        BY <1>3, ReceiverStepTyped DEF ReceiverStep
      <4>2. map' \in Seq(Hashes) /\ Len(map') > 0
        BY <1>3, <4>1 DEF Typed, TypeOK, TakeHmu, ReceiverRuns
      <4>3. Sends({NextReq(map', placed)})
        BY <1>0, <3>1, <4>2, WindowFacts
      <4> QED  BY <4>2, <4>3, NoProof, ReqFacts
    <3>2. CASE net' = net
      BY <3>2
    <3> QED  BY <1>3, <3>1, <3>2 DEF TakeHmu
  <2> QED  BY <1>3, <2>1, DeliveryKept DEF TakeHmu
<1>4. CASE ReceiverStops
  BY <1>4, DeliveryKept DEF ReceiverStops, ReceiverReturns
<1>5. ASSUME NEW p \in inbox, TakePart(p) PROVE Delivery'
  <2>0. p.part \in Parts /\ rcv = "transferring" /\ Len(map) > 0
    BY <1>0, <1>5, PacketFields DEF TakePart, ReceiverRuns
  <2>1. CASE UNCHANGED <<rcv, placed, reg, net, bodies>> /\ inbox' \subseteq inbox
    BY <1>5, <2>1, DeliveryKept DEF TakePart
  <2>2. ASSUME NEW slot \in Slots(p.part), placed' = Put(slot, p.part),
               DOMAIN placed' = Parts, Assemble(placed')
        PROVE  Delivery'
    <3>0. \A j \in DOMAIN Put(slot, p.part) : Put(slot, p.part)[j] \in Parts
      BY <2>0, PutFacts
    <3>1. placed' \in Bodies
      <4>1. \A j \in Parts : placed'[j] \in Parts
        BY <2>2, <3>0
      <4> QED  BY <2>2, <4>1 DEF Bodies, Put
    <3>2. \A j \in Parts : hash[placed'[j]] = hash[j]
      BY <2>0, <2>2, PutRight
    <3>3. hash' = hash /\ snd' = snd
      BY <1>5 DEF TakePart
    <3> QED  BY <2>2, <3>1, <3>2, <3>3, AssembleDelivery
  <2>3. ASSUME NEW slot \in Slots(p.part), placed' = Put(slot, p.part),
               RequestNextWindow(map, placed') \/ net' = net,
               inbox' = inbox \ {p}, UNCHANGED <<rcv, reg, bodies>>
        PROVE  Delivery'
    <3>1. DOMAIN placed' \subseteq Parts
      BY <2>0, <2>3, PutFacts
    <3>2. Prf(TRUE) \in net' => Prf(TRUE) \in net
      BY <1>0, <2>0, <2>3, <3>1, WindowFacts, NoProof, ReqFacts
    <3>3. \A j \in DOMAIN placed' : hash[placed'[j]] = hash[j]
      BY <2>0, <2>3, PutRight
    <3>4. hash' = hash /\ snd' = snd
      BY <1>5 DEF TakePart
    <3> QED  BY <2>3, <3>2, <3>3, <3>4
             DEF Delivery, CorruptMeansCollision, DeliveredIntact, SuccessIsDelivery, Prf
  <2> QED  BY <1>5, <2>1, <2>2, <2>3 DEF TakePart
<1> QED  BY <1>1, <1>2, <1>3, <1>4, <1>5 DEF ReceiverStep

\* Dispatchers, network and closes invent no proof.
LEMMA EnvironmentDelivery ==
  ASSUME Typed, Delivery, Environment
  PROVE  Delivery'
<1> USE DEF sender, receiver, faults
<1>1. ASSUME NEW p \in net, Dispatch(p) PROVE Delivery'
  BY <1>1, DeliveryKept DEF Dispatch, OpenReceiver
<1>2. ASSUME NEW p \in net, Lose(p) PROVE Delivery'
  BY <1>2, DeliveryKept DEF Lose
<1>3. CASE Garble
  BY <1>3, DeliveryKept, SmallPackets DEF Garble
<1>4. ASSUME NEW e \in {"S", "R"}, CloseLink(e) \/ CloseResources(e) PROVE Delivery'
  BY <1>4, DeliveryKept DEF CloseLink, CloseResources
<1> QED  BY <1>1, <1>2, <1>3, <1>4 DEF Environment

\* Delivery holds at the start and is kept by every step.
LEMMA DeliveryInvariant == Spec => [](Typed /\ Delivery)
<1>1. Init => Typed /\ Delivery
  <2> SUFFICES ASSUME Init PROVE Delivery
    BY InitTyped
  <2>1. DOMAIN placed = {} /\ Len(bodies) = 0
    BY DEF Init
  <2> QED  BY <2>1 DEF Init, Delivery, CorruptMeansCollision, DeliveredIntact, SuccessIsDelivery
<1>2. Typed /\ Delivery /\ [Next]_vars => (Typed /\ Delivery)'
  <2> SUFFICES ASSUME Typed, Delivery, [Next]_vars PROVE Delivery'
    BY NextTyped
  <2>1. CASE UNCHANGED vars
    BY <2>1, DeliveryKept DEF vars, sender, receiver
  <2> QED  BY <2>1, SenderDelivery, ReceiverDelivery, EnvironmentDelivery DEF Next, Environment
<1> QED  BY <1>1, <1>2, PTL DEF Spec

\* OnAssembled is given the body that was sent, whatever is lost, repeated, late
\* or taken for another part.
THEOREM IntactDelivery == Spec => []DeliveredIntact
<1>1. Delivery => DeliveredIntact
  BY DEF Delivery
<1> QED  BY <1>1, DeliveryInvariant, PTL

\* Without equal map hashes the parts always assemble.
THEOREM OnlyCollisionsCorrupt == Spec => []CorruptMeansCollision
<1>1. Delivery => CorruptMeansCollision
  BY DEF Delivery
<1> QED  BY <1>1, DeliveryInvariant, PTL

\* SendResourceOverLink returns nil only for a body that was delivered.
THEOREM DeliveredSuccess == Spec => []SuccessIsDelivery
<1>1. Delivery => SuccessIsDelivery
  BY DEF Delivery
<1> QED  BY <1>1, DeliveryInvariant, PTL

-----------------------------------------------------------------------------
(* Cancels *)

\* Why a cancel may be sent, and why a sender may stop.
Refused == rcv = "corrupt" \/ advs > 1
Cause   == link["S"] # "active" \/ Refused

\* Every cancel has a cause, a receiver was opened by an advertisement, a second one
\* by a second advertisement, and what runs can still be told to stop.
Causes ==
  /\ "S" \in cancel \/ snd = "cancelled" => Cause
  /\ Rcl \in net => Refused
  /\ opening \/ rcv # "idle" => advs > 0
  /\ opening /\ rcv # "idle" => advs > 1
  /\ \A e \in {"S", "R"} : Runs(e) => e \in cancel \cup reg

\* Steps after which the reasons given so far still hold.
LEMMA CausesKept ==
  ASSUME Typed, Causes,
         link'["S"] = "active" => link["S"] = "active",
         rcv = "corrupt" => Refused', advs' \in Nat, advs' >= advs,
         "S" \in cancel' => "S" \in cancel \/ Cause',
         snd' = "cancelled" => snd = "cancelled" \/ Cause',
         Rcl \in net' => Rcl \in net \/ Refused',
         opening' \/ rcv' # "idle" => advs' > 0,
         opening' /\ rcv' # "idle" => advs' > 1,
         \A e \in {"S", "R"} : Runs(e)' => e \in (cancel \cup reg)'
  PROVE  Causes'
<1>1. advs \in Nat
  BY DEF Typed, TypeOK
<1>2. (Refused => Refused') /\ (Cause => Cause')
  BY <1>1 DEF Refused, Cause
<1> QED  BY <1>2 DEF Causes, Rcl

\* Sets of packets without a cancel.
LEMMA NoCancel ==
  ASSUME NEW ps, \A q \in ps : q.kind # "rcl", Sends(ps)
  PROVE  Rcl \in net' => Rcl \in net
BY SmallPackets DEF Sends

\* The sender's goroutine.
LEMMA SenderCauses ==
  ASSUME Typed, Causes, SenderStep \/ SenderDeadline
  PROVE  Causes'
<1> USE DEF sender, receiver, faults
<1>0. advs \in Nat /\ link \in [{"S", "R"} -> {"active", "closing", "closed"}]
  BY DEF Typed, TypeOK
<1>1. UNCHANGED <<rcv, opening, advs>> /\ cancel' \subseteq cancel
      /\ reg \ {"S"} \subseteq reg' /\ ("R" \in cancel => "R" \in cancel')
  BY DEF SenderStep, NewResourceSender, StartSender, AdvTimer, SenderCancelled, SenderDeadline,
         TakeReq, TakePrf, SenderReturns
<1>2. link'["S"] = "active" => link["S"] = "active"
  BY <1>0 DEF SenderStep, NewResourceSender, StartSender, AdvTimer, SenderCancelled, SenderDeadline,
         TakeReq, TakePrf, TornDown
<1>3. Rcl \in net' => Rcl \in net
  <2>1. CASE StartSender \/ AdvTimer
    BY <2>1, BroadcastSends, NoCancel, SmallPackets DEF StartSender, AdvTimer
  <2>2. ASSUME NEW p \in inbox, TakeReq(p) PROVE Rcl \in net' => Rcl \in net
    <3>1. Sends(Served(p) \cup HmuFor(p))
      BY <2>2, BroadcastSends DEF TakeReq, Sends
    <3> QED  BY <3>1, NoCancel, AnswerFacts
  <2>3. CASE NewResourceSender \/ SenderCancelled \/ SenderDeadline \/ \E p \in inbox : TakePrf(p)
    BY <2>3 DEF NewResourceSender, SenderCancelled, SenderDeadline, TakePrf
  <2> QED  BY <2>1, <2>2, <2>3 DEF SenderStep
<1>4. SenderRuns' => "S" \in cancel' \cup reg'
  <2>1. CASE StartSender
    BY <2>1 DEF StartSender, SenderReturns, SenderRuns
  <2>2. SenderRuns' /\ ~StartSender => SenderRuns /\ UNCHANGED <<cancel, reg>>
    BY DEF SenderStep, NewResourceSender, AdvTimer, SenderCancelled, SenderDeadline,
           TakeReq, TakePrf, SenderReturns, SenderRuns
  <2> QED  BY <2>1, <2>2 DEF Causes, Runs
<1>5. \A e \in {"S", "R"} : Runs(e)' => e \in (cancel \cup reg)'
  BY <1>1, <1>4 DEF Causes, Runs, ReceiverRuns
<1>6. (Refused => Refused') /\ (Cause /\ link'["S"] = link["S"] => Cause')
  BY <1>1 DEF Refused, Cause
<1>7. snd' = "cancelled" => snd = "cancelled" \/ Cause'
  <2>1. SenderCancelled => link' = link /\ ("S" \in cancel => Cause)
    BY DEF SenderCancelled, Causes
  <2>2. snd' = "cancelled" => snd = "cancelled" \/ SenderCancelled
    BY DEF SenderStep, NewResourceSender, StartSender, AdvTimer, SenderDeadline,
           TakeReq, TakePrf, SenderReturns
  <2>3. SenderCancelled => "S" \in cancel
    BY DEF SenderCancelled
  <2> QED  BY <1>6, <2>1, <2>2, <2>3
<1> QED  BY <1>0, <1>1, <1>2, <1>3, <1>5, <1>6, <1>7, CausesKept DEF Causes, Refused

\* The receiver's goroutine cancels only what does not assemble, and its
\* dispatcher only a repeated advertisement.
LEMMA ReceiverCauses ==
  ASSUME Typed, Causes, ReceiverStep \/ ReceiverStops
  PROVE  Causes'
<1> USE DEF sender, receiver, faults
<1>0. /\ map \in Seq(Hashes) /\ hash \in Hashmaps /\ (ReceiverRuns => Len(map) > 0)
      /\ DOMAIN placed \subseteq Parts /\ inbox \subseteq Packets /\ advs \in Nat
      /\ "R" \in reg => ReceiverRuns
  BY DEF Typed, TypeOK, Runs
<1>1. CASE RegisterReceiver
  <2>1. advs > 0 /\ (rcv # "idle" => advs > 1)
    BY <1>1 DEF RegisterReceiver, Causes
  <2>2. UNCHANGED <<link, snd, advs>> /\ opening' = FALSE /\ cancel' \subseteq cancel
        /\ ("S" \in cancel => "S" \in cancel')
    BY <1>1 DEF RegisterReceiver
  <2>3. Rcl \in net' => Rcl \in net \/ advs > 1
    <3>1. CASE "R" \notin reg
      <4>1. FirstMap \in Seq(Hashes) /\ Len(FirstMap) > 0
        BY <1>0, FirstMapPrefix DEF Prefix
      <4>2. Sends({NextReq(FirstMap, <<>>)})
        BY <1>1, <3>1, BroadcastSends DEF RegisterReceiver
      <4> QED  BY <4>1, <4>2, NoCancel, ReqFacts
    <3>2. CASE "R" \in reg
      BY <1>0, <2>1, <3>2 DEF ReceiverRuns
    <3> QED  BY <3>1, <3>2
  <2>4. \A e \in {"S", "R"} : Runs(e)' => e \in (cancel \cup reg)'
    BY <1>1, <2>2 DEF RegisterReceiver, ReceiverReturns, Causes, Runs, SenderRuns, ReceiverRuns
  <2>5. rcv = "corrupt" => Refused'
    BY <2>1, <2>2 DEF Refused
  <2> QED  BY <1>0, <2>1, <2>2, <2>3, <2>4, <2>5, CausesKept DEF Refused
<1>2. ASSUME ReceiverRuns, UNCHANGED <<link, snd, advs, opening>>, "S" \in cancel' => "S" \in cancel,
             "S" \in cancel => "S" \in cancel', reg \ {"R"} \subseteq reg', rcv' # "idle",
             rcv' = "transferring" => UNCHANGED <<reg, cancel>>,
             Rcl \in net' => Rcl \in net \/ rcv' = "corrupt"
      PROVE  Causes'
  <2>1. \A e \in {"S", "R"} : Runs(e)' => e \in (cancel \cup reg)'
    BY <1>2 DEF Causes, Runs, SenderRuns, ReceiverRuns
  <2>2. advs > 0 /\ (opening => advs > 1)
    BY <1>2 DEF Causes, ReceiverRuns
  <2> QED  BY <1>0, <1>2, <2>1, <2>2, CausesKept DEF Refused, ReceiverRuns
<1>3. CASE LossTimer
  <2>1. Sends({NextReq(map, placed)})
    BY <1>0, <1>3, WindowFacts DEF LossTimer
  <2>2. Rcl \in net' => Rcl \in net
    BY <1>0, <1>3, <2>1, NoCancel, ReqFacts DEF LossTimer
  <2> QED  BY <1>2, <1>3, <2>2 DEF LossTimer, ReceiverRuns
<1>4. ASSUME NEW p \in inbox, TakeHmu(p) PROVE Causes'
  <2>1. Rcl \in net' => Rcl \in net
    <3>1. CASE HmuFits(p.seg) /\ map' = map \o Segment(p.seg) /\ RequestNextWindow(map', placed)
      <4>1. Typed'
        BY <1>4, ReceiverStepTyped DEF ReceiverStep
      <4>2. map' \in Seq(Hashes) /\ Len(map') > 0
        BY <1>4, <4>1 DEF Typed, TypeOK, TakeHmu, ReceiverRuns
      <4>3. Sends({NextReq(map', placed)})
        BY <1>0, <3>1, <4>2, WindowFacts
      <4> QED  BY <4>2, <4>3, NoCancel, ReqFacts
    <3>2. CASE net' = net
      BY <3>2
    <3> QED  BY <1>4, <3>1, <3>2 DEF TakeHmu
  <2> QED  BY <1>2, <1>4, <2>1 DEF TakeHmu, ReceiverRuns
<1>5. CASE ReceiverStops
  BY <1>2, <1>5 DEF ReceiverStops, ReceiverReturns
<1>6. ASSUME NEW p \in inbox, TakePart(p) PROVE Causes'
  <2>0. p.part \in Parts /\ ReceiverRuns /\ UNCHANGED <<link, snd, advs, opening, cancel>>
    BY <1>0, <1>6, PacketFields DEF TakePart
  <2>1. CASE UNCHANGED <<rcv, reg, net>>
    BY <1>2, <2>0, <2>1 DEF ReceiverRuns
  <2>2. CASE Assemble(placed')
    <3>1. rcv' \in {"complete", "corrupt"} /\ reg' = reg \ {"R"}
      BY <2>2 DEF Assemble, ReceiverReturns
    <3>2. Rcl \in net' => Rcl \in net \/ rcv' = "corrupt"
      <4>1. CASE Assembles(placed')
        <5>1. Sends({Prf(TRUE)})
          BY <2>2, <4>1, BroadcastSends DEF Assemble
        <5> QED  BY <5>1, NoCancel, SmallPackets
      <4>2. CASE ~Assembles(placed')
        BY <2>2, <4>2 DEF Assemble, ReceiverReturns
      <4> QED  BY <4>1, <4>2
    <3> QED  BY <1>2, <2>0, <3>1, <3>2
  <2>3. ASSUME NEW slot \in Slots(p.part), placed' = Put(slot, p.part),
               RequestNextWindow(map, placed'), UNCHANGED <<rcv, reg>>
        PROVE  Causes'
    <3>1. DOMAIN placed' \subseteq Parts
      BY <2>0, <2>3, PutFacts
    <3>2. Rcl \in net' => Rcl \in net
      BY <1>0, <2>0, <2>3, <3>1, WindowFacts, NoCancel, ReqFacts
    <3> QED  BY <1>2, <2>0, <2>3, <3>2 DEF ReceiverRuns
  <2> QED  BY <1>6, <2>1, <2>2, <2>3 DEF TakePart
<1> QED  BY <1>1, <1>3, <1>4, <1>5, <1>6 DEF ReceiverStep

\* Dispatchers and closes.
LEMMA EnvironmentCauses ==
  ASSUME Typed, Causes, Environment
  PROVE  Causes'
<1> USE DEF sender, receiver, faults
<1>0. advs \in Nat /\ link \in [{"S", "R"} -> {"active", "closing", "closed"}]
      /\ reg \subseteq {"S", "R"} /\ net \subseteq Packets
  BY DEF Typed, TypeOK
<1>1. ASSUME NEW p \in net, Dispatch(p) PROVE Causes'
  <2>1. UNCHANGED <<link, snd, rcv, reg>> /\ cancel \subseteq cancel' /\ net' \subseteq net
    BY <1>1 DEF Dispatch, OpenReceiver
  <2>2. \A e \in {"S", "R"} : Runs(e)' => e \in (cancel \cup reg)'
    BY <2>1 DEF Causes, Runs, SenderRuns, ReceiverRuns
  <2>3. "S" \in cancel' => "S" \in cancel \/ (p.kind = "rcl" /\ advs' = advs)
    <3>1. CASE OpenReceiver(p) \/ cancel' = cancel
      BY <3>1 DEF OpenReceiver
    <3>2. CASE Cancels(p) /\ advs' = advs
      BY <3>2 DEF Cancels
    <3> QED  BY <1>1, <3>1, <3>2 DEF Dispatch
  <2>4. p.kind = "rcl" => p = Rcl
    BY <1>0 DEF Packets, Rcl
  <2>5. "S" \in cancel' => "S" \in cancel \/ Cause'
    BY <2>1, <2>3, <2>4 DEF Causes, Cause, Refused
  <2>6. \/ UNCHANGED <<opening, advs>>
        \/ ~opening /\ opening' = TRUE /\ advs' = advs + 1
    BY <1>1 DEF Dispatch, OpenReceiver
  <2>7. (opening' \/ rcv' # "idle" => advs' > 0) /\ (opening' /\ rcv' # "idle" => advs' > 1)
    BY <1>0, <2>1, <2>6 DEF Causes
  <2> QED  BY <1>0, <2>1, <2>2, <2>5, <2>6, <2>7, CausesKept DEF Refused
<1>2. ASSUME UNCHANGED <<snd, rcv, opening, advs>>, Rcl \in net' => Rcl \in net,
             link'["S"] = "active" => link["S"] = "active",
             "S" \in cancel' => "S" \in cancel \/ link'["S"] # "active",
             \A e \in {"S", "R"} : e \in cancel \cup reg => e \in cancel' \cup reg'
      PROVE  Causes'
  <2>1. \A e \in {"S", "R"} : Runs(e)' => e \in (cancel \cup reg)'
    BY <1>2 DEF Causes, Runs, SenderRuns, ReceiverRuns
  <2> QED  BY <1>0, <1>2, <2>1, CausesKept DEF Causes, Refused, Cause
<1>3. ASSUME NEW p \in net, Lose(p) PROVE Causes'
  BY <1>2, <1>3 DEF Lose
<1>4. CASE Garble
  BY <1>2, <1>4, SmallPackets DEF Garble
<1>5. ASSUME NEW e \in {"S", "R"}, CloseLink(e) PROVE Causes'
  BY <1>0, <1>2, <1>5 DEF CloseLink
<1>6. ASSUME NEW e \in {"S", "R"}, CloseResources(e) PROVE Causes'
  <2>1. link'["S"] = "active" => link["S"] = "active"
    BY <1>0, <1>6 DEF CloseResources
  <2>2. "S" \in cancel' => "S" \in cancel \/ link'["S"] # "active"
    BY <1>0, <1>6 DEF CloseResources
  <2> QED  BY <1>0, <1>2, <1>6, <2>1, <2>2 DEF CloseResources
<1> QED  BY <1>1, <1>3, <1>4, <1>5, <1>6 DEF Environment

\* Causes holds at the start and is kept by every step.
LEMMA CausesInvariant == Spec => [](Typed /\ Causes)
<1>1. Init => Typed /\ Causes
  <2> SUFFICES ASSUME Init PROVE Causes
    BY InitTyped
  <2> QED  BY DEF Init, Causes, Runs, SenderRuns, ReceiverRuns
<1>2. Typed /\ Causes /\ [Next]_vars => (Typed /\ Causes)'
  <2> SUFFICES ASSUME Typed, Causes, [Next]_vars PROVE Causes'
    BY NextTyped
  <2>1. CASE UNCHANGED vars
    BY <2>1 DEF vars, sender, receiver, Causes, Cause, Refused, Runs, SenderRuns, ReceiverRuns, Rcl
  <2> QED  BY <2>1, SenderCauses, ReceiverCauses, EnvironmentCauses DEF Next, Environment
<1> QED  BY <1>1, <1>2, PTL DEF Spec

\* A sender is told to stop only when its link closed, the parts did not
\* assemble, or an advertisement reached the receiver twice.
THEOREM CausedCancel == Spec => []CancelHasCause
<1>1. Causes => CancelHasCause
  BY DEF Causes, Cause, Refused, CancelHasCause
<1> QED  BY <1>1, CausesInvariant, PTL

\* CloseLink leaves no transfer running without a cancel token, except one that
\* is registered after it looked.
THEOREM ClosedStops == Spec => []StoppedByClose
<1>1. Causes => StoppedByClose
  BY DEF Causes, StoppedByClose
<1> QED  BY <1>1, CausesInvariant, PTL
=============================================================================
