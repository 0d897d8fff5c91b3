-------------------------- MODULE TcpReconnectProofs --------------------------
(***************************************************************************)
(* Proofs about TcpReconnect, for any capacities and any number of         *)
(* connections, frames, senders and failures.                              *)
(*                                                                         *)
(* The capacities hold because a goroutine with a frame in its hand waits: *)
(* only then is a sequence one longer than its channel.                    *)
(*                                                                         *)
(* Frames stay in order because only one connection is up at a time and    *)
(* its reader, the pump and the inbox form one pipe: what has been taken,  *)
(* what waits in the inboxes and what is in the socket is one increasing   *)
(* sequence, and a new connection starts when the old one's part of the    *)
(* pipe can no longer flow into the inbox.                                 *)
(***************************************************************************)
EXTENDS TcpReconnect, FiniteSetTheorems, SequenceTheorems, TLAPS

\* Without a frame in hand the inboxes are within their capacity.
InHand ==
  /\ \A c \in Conns : reader[c] # "hand" => Len(inner[c]) <= InnerCap
  /\ \A c \in Conns : reader[c] = "hand" => inner[c] # <<>>
  /\ sup # "push" => Len(inbox) <= OuterCap
  /\ sup = "push" => inbox # <<>>

\* Connections are dialled in order, the goroutines work on dialled ones, and only
\* those have a reader.
InOrder ==
  /\ \E n \in 0 .. MaxConns : Dialled = 1 .. n
  /\ conn \in Dialled
  /\ cur \in Dialled \cup {NoConn}
  /\ held \in Dialled \cup {NoConn}
  /\ \A s \in Senders : sender[s] \in Dialled \cup {NoConn}
  /\ \A c \in Conns \ Dialled : reader[c] = "none"

Base == TypeOK /\ InHand
IInv == Base /\ InOrder

-----------------------------------------------------------------------------
\* A sequence with elements is not empty.
LEMMA NonEmpty ==
  ASSUME NEW s, Len(s) > 0
  PROVE  s # <<>>
<1>1. ~(Len(<<>>) > 0)
  OBVIOUS
<1> QED
  BY <1>1, Zenon

\* Taking the first element of a channel.
LEMMA HeadTail ==
  ASSUME NEW S, NEW s \in Seq(S), s # <<>>
  PROVE  Head(s) \in S /\ Tail(s) \in Seq(S) /\ Len(Tail(s)) = Len(s) - 1 /\ Len(s) \in Nat /\ Len(s) > 0
OBVIOUS

\* Adding a last element.
LEMMA Appended ==
  ASSUME NEW S, NEW s \in Seq(S), NEW e \in S
  PROVE  Append(s, e) \in Seq(S) /\ Len(Append(s, e)) = Len(s) + 1 /\ Append(s, e) # <<>> /\ Len(s) \in Nat
OBVIOUS

\* A channel without its last element.
LEMMA FrontType ==
  ASSUME NEW S, NEW s \in Seq(S), s # <<>>
  PROVE  Front(s) \in Seq(S) /\ Len(Front(s)) = Len(s) - 1
<1>1. Len(s) \in Nat /\ Len(s) > 0 /\ \A i \in 1 .. Len(s) - 1 : s[i] \in S
  OBVIOUS
<1>2. /\ SubSeq(s, 1, Len(s) - 1) \in Seq(S)
      /\ Len(SubSeq(s, 1, Len(s) - 1)) = IF 1 <= Len(s) - 1 THEN Len(s) - 1 - 1 + 1 ELSE 0
  BY <1>1, SubSeqProperties, Z3
<1>3. \A n \in Nat : n > 0 => (IF 1 <= n - 1 THEN n - 1 - 1 + 1 ELSE 0) = n - 1
  OBVIOUS
<1>4. Front(s) = SubSeq(s, 1, Len(s) - 1)
  BY DEF Front
<1> QED
  BY <1>1, <1>2, <1>3, <1>4, Zenon

\* The next connection.
LEMMA NextConn ==
  ASSUME ConnTypes, Cardinality(Dialled) < MaxConns
  PROVE  Cardinality(Dialled) + 1 \in Conns
<1>1. IsFiniteSet(Conns)
  BY TcpAssumption, FS_Interval DEF Conns
<1>2. Cardinality(Dialled) \in Nat
  BY <1>1, FS_Subset, FS_CardinalityType DEF Dialled
<1> QED
  BY <1>2, TcpAssumption DEF Conns

\* The connections dialled are the first ones.
LEMMA DialledCount ==
  ASSUME InOrder
  PROVE  /\ Cardinality(Dialled) \in Nat
         /\ Dialled = 1 .. Cardinality(Dialled)
         /\ Cardinality(Dialled) + 1 \notin Dialled
<1>1. PICK n \in 0 .. MaxConns : Dialled = 1 .. n
  BY DEF InOrder
<1>2. n \in Nat /\ Cardinality(1 .. n) = n
  BY TcpAssumption, FS_Interval
<1> QED
  BY <1>1, <1>2

\* Initially one connection is up and nothing has been received.
LEMMA InitIInv == Init => IInv
<1> SUFFICES ASSUME Init PROVE IInv
  OBVIOUS
<1>0. 1 \in Conns /\ <<>> \in Seq(Frames) /\ Len(<<>>) = 0 /\ InnerCap \in Nat /\ OuterCap \in Nat
  BY TcpAssumption DEF Conns
<1>1. ConnTypes
  BY <1>0 DEF Init, ConnTypes
<1>2. WrapperTypes
  BY <1>0 DEF Init, WrapperTypes
<1>3. FlagTypes
  BY DEF Init, FlagTypes
<1>4. HistoryTypes
  BY <1>0, TcpAssumption DEF Init, HistoryTypes
<1>5. InHand
  BY <1>0 DEF Init, InHand
<1>6. InOrder
  <2>1. Dialled = 1 .. 1
    BY <1>0 DEF Init, Dialled
  <2>2. 1 \in 0 .. MaxConns
    BY TcpAssumption
  <2> QED
    BY <1>0, <2>1, <2>2 DEF Init, InOrder
<1> QED
  BY <1>1, <1>2, <1>3, <1>4, <1>5, <1>6 DEF IInv, Base, TypeOK

-----------------------------------------------------------------------------
\* The steps of a reader, and of its socket.
LEMMA ConnStep ==
  ASSUME IInv, NEW c \in Conns, ReadLoop(c) \/ Arrive(c) \/ Drop(c) \/ Probe(c)
  PROVE  Base'
<1>0. ConnTypes /\ WrapperTypes /\ FlagTypes /\ HistoryTypes /\ InHand /\ InnerCap \in Nat
  BY TcpAssumption DEF IInv, Base, TypeOK
<1>1. CASE ReadFrame(c)
  <2>1. /\ wire[c] \in Seq(Frames) /\ wire[c] # <<>> /\ inner[c] \in Seq(Frames)
        /\ Len(inner[c]) <= InnerCap /\ reader[c] = "read"
    BY <1>0, <1>1 DEF ReadFrame, ConnTypes, InHand
  <2>2. Head(wire[c]) \in Frames /\ Tail(wire[c]) \in Seq(Frames)
    BY <2>1, HeadTail
  <2> DEFINE s == Append(inner[c], Head(wire[c]))
  <2>3. s \in Seq(Frames) /\ Len(s) <= InnerCap + 1 /\ s # <<>>
    BY <1>0, <2>1, <2>2, Appended
  <2>4. \/ inner' = inner /\ reader' = reader
        \/ inner' = [inner EXCEPT ![c] = s] /\ reader' = [reader EXCEPT ![c] = "hand"]
    BY <1>1 DEF ReadFrame
  <2>5. wire' = [wire EXCEPT ![c] = Tail(@)] /\ sock' = sock
    BY <1>1 DEF ReadFrame
  <2> HIDE DEF s
  <2>6. ConnTypes'
    BY <1>0, <2>2, <2>3, <2>4, <2>5 DEF ConnTypes
  <2>7. InHand'
    BY <1>0, <1>1, <2>3, <2>4 DEF InHand, ReadFrame, ConnTypes
  <2> QED
    BY <1>0, <1>1, <2>6, <2>7 DEF IInv, Base, TypeOK, ReadFrame, WrapperTypes, FlagTypes, HistoryTypes, counts
<1>2. CASE Enqueue(c)
  <2>1. ConnTypes' /\ InHand'
    BY <1>0, <1>2 DEF Enqueue, ConnTypes, InHand
  <2> QED
    BY <1>0, <1>2, <2>1 DEF IInv, Base, TypeOK, Enqueue, WrapperTypes, FlagTypes, HistoryTypes, counts
<1>3. CASE ReadError(c)
  <2>1. ConnTypes' /\ InHand'
    BY <1>0, <1>3 DEF ReadError, ConnTypes, InHand
  <2> QED
    BY <1>0, <1>3, <2>1 DEF IInv, Base, TypeOK, ReadError, WrapperTypes, FlagTypes, HistoryTypes, counts
<1>4. CASE Arrive(c)
  <2>1. frames' \in Frames /\ frames' \in 0 .. MaxFrames
    BY <1>0, <1>4, TcpAssumption DEF Arrive, HistoryTypes, Frames
  <2>2. wire' \in [Conns -> Seq(Frames)]
    BY <1>0, <1>4, <2>1, Appended DEF Arrive, ConnTypes
  <2>3. ConnTypes' /\ InHand'
    BY <1>0, <1>4, <2>2 DEF Arrive, ConnTypes, InHand
  <2>4. HistoryTypes'
    BY <1>0, <1>4, <2>1 DEF Arrive, HistoryTypes
  <2> QED
    BY <1>0, <1>4, <2>3, <2>4 DEF IInv, Base, TypeOK, Arrive, WrapperTypes, FlagTypes
<1>5. CASE Drop(c) \/ Probe(c)
  <2>1. ConnTypes' /\ InHand'
    BY <1>0, <1>5 DEF Drop, Probe, ConnTypes, InHand
  <2> QED
    BY <1>0, <1>5, <2>1 DEF IInv, Base, TypeOK, Drop, Probe, WrapperTypes, FlagTypes, HistoryTypes, counts
<1> QED
  BY <1>1, <1>2, <1>3, <1>4, <1>5 DEF ReadLoop

\* The steps of the supervisor.
LEMMA SuperviseStep ==
  ASSUME IInv, Supervise
  PROVE  Base'
<1>0. ConnTypes /\ WrapperTypes /\ FlagTypes /\ HistoryTypes /\ InHand /\ InnerCap \in Nat /\ OuterCap \in Nat
  BY TcpAssumption DEF IInv, Base, TypeOK
<1>1. CASE PumpTake
  <2>1. conn \in Conns /\ inner[conn] \in Seq(Frames) /\ sup = "pump" /\ inbox \in Seq(Frames) /\ Len(inbox) <= OuterCap
    BY <1>0, <1>1 DEF PumpTake, ConnTypes, WrapperTypes, InHand
  <2>2. inner[conn] # <<>> /\ (reader[conn] = "hand" => Len(inner[conn]) > 1)
    <3>1. CASE reader[conn] = "hand"
      <4>1. inner[conn] # <<>> /\ Front(inner[conn]) # <<>>
        BY <1>0, <1>1, <2>1, <3>1 DEF PumpTake, Queued, InHand
      <4>2. Front(inner[conn]) \in Seq(Frames) /\ Len(Front(inner[conn])) = Len(inner[conn]) - 1
        BY <2>1, <4>1, FrontType
      <4>3. Len(Front(inner[conn])) > 0
        BY <4>1, <4>2, HeadTail
      <4>4. Len(inner[conn]) \in Nat
        BY <2>1
      <4> QED
        BY <4>1, <4>2, <4>3, <4>4
    <3>2. CASE reader[conn] # "hand"
      BY <1>1, <3>2 DEF PumpTake, Queued
    <3> QED
      BY <3>1, <3>2
  <2> DEFINE h == Head(inner[conn])
             t == Tail(inner[conn])
  <2>3. h \in Frames /\ t \in Seq(Frames) /\ Len(t) = Len(inner[conn]) - 1 /\ Len(inner[conn]) \in Nat
    BY <2>1, <2>2, HeadTail
  <2>4. reader[conn] = "hand" => t # <<>>
    <3>1. reader[conn] = "hand" => Len(t) > 0
      BY <2>2, <2>3
    <3> HIDE DEF t
    <3> QED
      BY <3>1, NonEmpty, Zenon
  <2>5. Append(inbox, h) \in Seq(Frames) /\ Len(Append(inbox, h)) <= OuterCap + 1 /\ Append(inbox, h) # <<>>
    BY <1>0, <2>1, <2>3, Appended
  <2>6. /\ inner' = [inner EXCEPT ![conn] = t] /\ inbox' = Append(inbox, h) /\ sup' = "push"
        /\ UNCHANGED <<sock, wire, reader, cur, conn, closer, held, sender>>
    BY <1>1 DEF PumpTake
  <2> HIDE DEF h, t
  <2>7. ConnTypes'
    BY <1>0, <2>1, <2>3, <2>6 DEF ConnTypes
  <2>8. WrapperTypes'
    BY <1>0, <2>5, <2>6 DEF WrapperTypes
  <2>9. InHand'
    BY <1>0, <2>1, <2>3, <2>4, <2>5, <2>6 DEF InHand, ConnTypes
  <2> QED
    BY <1>0, <1>1, <2>7, <2>8, <2>9 DEF IInv, Base, TypeOK, PumpTake, FlagTypes, HistoryTypes, counts
<1>2. CASE PumpPush
  <2>1. inbox \in Seq(Frames) /\ inbox # <<>> /\ Len(inbox) <= OuterCap + 1 /\ Len(inbox) \in Nat
    BY <1>0, <1>2 DEF PumpPush, WrapperTypes, InHand
  <2>2. Front(inbox) \in Seq(Frames) /\ Len(Front(inbox)) = Len(inbox) - 1
    BY <2>1, FrontType
  <2>3. inbox' \in Seq(Frames) /\ Len(inbox') <= OuterCap /\ sup' \in {"pump", "pumped"}
    BY <1>0, <1>2, <2>1, <2>2 DEF PumpPush
  <2>4. WrapperTypes' /\ InHand'
    BY <1>0, <1>2, <2>3 DEF PumpPush, WrapperTypes, InHand, readers
  <2> QED
    BY <1>0, <1>2, <2>4 DEF IInv, Base, TypeOK, PumpPush, ConnTypes, FlagTypes, HistoryTypes, readers, counts
<1>3. CASE PumpEnd \/ CheckClosed \/ Backoff
  <2>1. sup' \in {"pumped", "stopped", "backoff", "dial"} /\ sup # "push" /\ UNCHANGED <<readers, cur, inbox, conn, closer, held, sender>>
    BY <1>3 DEF PumpEnd, CheckClosed, Backoff
  <2>2. WrapperTypes' /\ InHand' /\ ConnTypes'
    BY <1>0, <2>1 DEF WrapperTypes, InHand, ConnTypes, readers
  <2> QED
    BY <1>0, <1>3, <2>2 DEF IInv, Base, TypeOK, PumpEnd, CheckClosed, Backoff, FlagTypes, HistoryTypes, counts
<1>4. CASE Withdraw
  <2>1. /\ sup' \in {"stopped", "redial"} /\ sup # "push" /\ cur' \in {cur, NoConn}
        /\ sock' \in {sock, [sock EXCEPT ![conn] = "shut"]}
        /\ UNCHANGED <<wire, reader, inner, inbox, conn, closer, held, sender>>
    BY <1>4 DEF Withdraw, Shut
  <2>2. WrapperTypes' /\ InHand' /\ ConnTypes'
    BY <1>0, <2>1 DEF WrapperTypes, InHand, ConnTypes
  <2> QED
    BY <1>0, <1>4, <2>2 DEF IInv, Base, TypeOK, Withdraw, FlagTypes, HistoryTypes, counts
<1>5. CASE Dial
  <2>1. /\ UNCHANGED <<wire, inner, cur, inbox, closer, held, sender>> /\ sup = "dial" /\ sup' \in {"install", "redial"}
        /\ \/ /\ conn' \in Conns /\ sock' = [sock EXCEPT ![conn'] = "up"] /\ reader' = [reader EXCEPT ![conn'] = "read"]
              /\ dialFails' = dialFails /\ conn' = Cardinality(Dialled) + 1
           \/ UNCHANGED <<conn, sock, reader>> /\ dialFails' \in 0 .. MaxDialFails
    BY <1>0, <1>5, NextConn, TcpAssumption DEF Dial, HistoryTypes
  <2>2. WrapperTypes' /\ ConnTypes'
    BY <1>0, <2>1 DEF WrapperTypes, ConnTypes
  <2>3. HistoryTypes'
    BY <1>0, <1>5, <2>1 DEF Dial, HistoryTypes
  <2>4. InHand'
    <3>1. conn' = Cardinality(Dialled) + 1 => conn' \notin Dialled
      BY DialledCount, TcpAssumption DEF IInv
    <3>2. conn' \notin Dialled /\ conn' \in Conns => Len(inner[conn']) <= InnerCap
      BY <1>0 DEF IInv, InOrder, InHand
    <3> QED
      BY <1>0, <2>1, <3>1, <3>2 DEF InHand, ConnTypes
  <2> QED
    BY <1>0, <1>5, <2>2, <2>3, <2>4 DEF IInv, Base, TypeOK, Dial, FlagTypes
<1>6. CASE Install
  <2>1. WrapperTypes' /\ InHand' /\ ConnTypes'
    BY <1>0, <1>6 DEF Install, WrapperTypes, InHand, ConnTypes, readers
  <2>2. HistoryTypes'
    BY <1>0, <1>6 DEF Install, HistoryTypes, WrapperTypes
  <2> QED
    BY <1>0, <1>6, <2>1, <2>2 DEF IInv, Base, TypeOK, Install, FlagTypes
<1> QED
  BY <1>1, <1>2, <1>3, <1>4, <1>5, <1>6 DEF Supervise

\* The steps of Send, Close and Transport.
LEMMA UserStep ==
  ASSUME IInv, (\E s \in Senders : SendBegin(s) \/ SendEnd(s)) \/ CloseSwap \/ Close \/ Receive
  PROVE  Base'
<1>0. ConnTypes /\ WrapperTypes /\ FlagTypes /\ HistoryTypes /\ InHand /\ OuterCap \in Nat
  BY TcpAssumption DEF IInv, Base, TypeOK
<1>1. ASSUME NEW s \in Senders, SendBegin(s) PROVE Base'
  <2>1. WrapperTypes' /\ InHand' /\ ConnTypes'
    BY <1>0, <1>1 DEF SendBegin, WrapperTypes, InHand, ConnTypes, readers
  <2>2. HistoryTypes'
    BY <1>0, <1>1, TcpAssumption DEF SendBegin, HistoryTypes
  <2> QED
    BY <1>0, <1>1, <2>1, <2>2 DEF IInv, Base, TypeOK, SendBegin, FlagTypes
<1>2. ASSUME NEW s \in Senders, SendEnd(s) PROVE Base'
  <2>1. WrapperTypes' /\ InHand' /\ ConnTypes'
    BY <1>0, <1>2 DEF SendEnd, Shut, WrapperTypes, InHand, ConnTypes
  <2> QED
    BY <1>0, <1>2, <2>1 DEF IInv, Base, TypeOK, SendEnd, FlagTypes, HistoryTypes, counts
<1>3. CASE CloseSwap
  <2>1. WrapperTypes' /\ InHand' /\ ConnTypes'
    BY <1>0, <1>3 DEF CloseSwap, WrapperTypes, InHand, ConnTypes, readers
  <2>2. FlagTypes'
    BY <1>0, <1>3 DEF CloseSwap, FlagTypes
  <2> QED
    BY <1>0, <1>3, <2>1, <2>2 DEF IInv, Base, TypeOK, CloseSwap, HistoryTypes, counts
<1>4. CASE CloseTake
  <2>1. WrapperTypes' /\ InHand' /\ ConnTypes'
    BY <1>0, <1>4 DEF CloseTake, WrapperTypes, InHand, ConnTypes, readers
  <2> QED
    BY <1>0, <1>4, <2>1 DEF IInv, Base, TypeOK, CloseTake, FlagTypes, HistoryTypes, counts
<1>5. CASE CloseEnd
  <2>1. WrapperTypes' /\ InHand' /\ ConnTypes'
    BY <1>0, <1>5 DEF CloseEnd, Shut, WrapperTypes, InHand, ConnTypes
  <2>2. FlagTypes'
    BY <1>0, <1>5 DEF CloseEnd, FlagTypes
  <2> QED
    BY <1>0, <1>5, <2>1, <2>2 DEF IInv, Base, TypeOK, CloseEnd, HistoryTypes, counts
<1>6. CASE Receive
  <2>1. inbox \in Seq(Frames) /\ inbox # <<>> /\ (sup = "push" => Len(inbox) > 1)
    <3>1. CASE sup = "push"
      <4>1. inbox \in Seq(Frames) /\ inbox # <<>> /\ Front(inbox) # <<>>
        BY <1>0, <1>6, <3>1 DEF Receive, WrapperTypes, InHand
      <4>2. Front(inbox) \in Seq(Frames) /\ Len(Front(inbox)) = Len(inbox) - 1
        BY <4>1, FrontType
      <4>3. Len(Front(inbox)) > 0
        BY <4>1, <4>2, HeadTail
      <4>4. Len(inbox) \in Nat
        BY <4>1
      <4> QED
        BY <4>1, <4>2, <4>3, <4>4
    <3>2. CASE sup # "push"
      BY <1>0, <1>6, <3>2 DEF Receive, WrapperTypes
    <3> QED
      BY <3>1, <3>2
  <2>2. Head(inbox) \in Frames /\ Tail(inbox) \in Seq(Frames) /\ Len(Tail(inbox)) = Len(inbox) - 1 /\ Len(inbox) \in Nat
    BY <2>1, HeadTail
  <2>3. sup = "push" => Tail(inbox) # <<>>
    <3>1. sup = "push" => Len(Tail(inbox)) > 0
      BY <2>1, <2>2
    <3> QED
      BY <3>1, NonEmpty, Zenon
  <2>4. taken' \in Seq(Frames)
    <3>1. CASE sup = "push"
      <4>1. Front(inbox) \in Seq(Frames) /\ Front(inbox) # <<>>
        BY <1>6, <2>1, <3>1, FrontType DEF Receive
      <4>2. Head(Front(inbox)) \in Frames
        BY <4>1, HeadTail
      <4> QED
        BY <1>0, <1>6, <3>1, <4>2, Appended DEF Receive, HistoryTypes
    <3>2. CASE sup # "push"
      BY <1>0, <1>6, <2>2, <3>2, Appended DEF Receive, HistoryTypes
    <3> QED
      BY <3>1, <3>2
  <2>5. inbox' = Tail(inbox) /\ UNCHANGED <<readers, cur, sup, conn, closer, held, sender>>
    BY <1>6 DEF Receive
  <2>6. WrapperTypes' /\ InHand' /\ ConnTypes'
    BY <1>0, <2>2, <2>3, <2>5 DEF WrapperTypes, InHand, ConnTypes, readers
  <2>7. HistoryTypes'
    BY <1>0, <1>6, <2>4 DEF Receive, HistoryTypes
  <2> QED
    BY <1>0, <1>6, <2>6, <2>7 DEF IInv, Base, TypeOK, Receive, FlagTypes
<1> QED
  BY <1>1, <1>2, <1>3, <1>4, <1>5, <1>6 DEF Close

-----------------------------------------------------------------------------
\* No connection is dialled, and the goroutines keep to those that are.
LEMMA OrderKeeps ==
  ASSUME InOrder, Dialled' = Dialled,
         conn' = conn,
         cur' \in {cur, conn, NoConn}, held' \in {held, cur},
         \A s \in Senders : sender'[s] \in {sender[s], cur, NoConn},
         \A c \in Conns : reader[c] = "none" => reader'[c] = "none"
  PROVE  InOrder'
BY DEF InOrder

\* A socket that was dialled changes.
LEMMA SockKeeps ==
  ASSUME ConnTypes, NEW c \in Dialled, NEW v \in {"up", "silent", "eof", "shut"}, sock' = [sock EXCEPT ![c] = v]
  PROVE  Dialled' = Dialled
BY DEF ConnTypes, Dialled

\* Every step keeps the order of the connections.
LEMMA OrderStep ==
  ASSUME IInv, [Next]_vars
  PROVE  InOrder'
<1>0. ConnTypes /\ WrapperTypes /\ InOrder
  BY DEF IInv, Base, TypeOK
<1>1. ASSUME NEW c \in Conns, ReadLoop(c) PROVE InOrder'
  <2>1. /\ sock' = sock /\ conn' = conn /\ cur' = cur /\ held' = held /\ sender' = sender
        /\ \A d \in Conns : reader[d] = "none" => reader'[d] = "none"
    BY <1>0, <1>1 DEF ReadLoop, ReadFrame, Enqueue, ReadError, ConnTypes
  <2>2. Dialled' = Dialled
    BY <2>1 DEF Dialled
  <2> QED
    BY <1>0, <2>1, <2>2, OrderKeeps
<1>2. ASSUME NEW c \in Conns, Arrive(c) \/ Drop(c) \/ Probe(c) PROVE InOrder'
  <2>1. UNCHANGED <<reader, conn, cur, held, sender>>
    BY <1>2 DEF Arrive, Drop, Probe
  <2>2. c \in Dialled
    BY <1>2 DEF Arrive, Drop, Probe, Dialled
  <2>3. Dialled' = Dialled
    <3>1. CASE Arrive(c)
      BY <3>1 DEF Arrive, Dialled
    <3>2. CASE Drop(c) \/ Probe(c)
      BY <1>0, <2>2, <3>2, SockKeeps DEF Drop, Probe
    <3> QED
      BY <1>2, <3>1, <3>2
  <2> QED
    BY <1>0, <2>1, <2>3, OrderKeeps
<1>3. CASE Supervise
  <2>1. CASE PumpTake \/ PumpPush \/ PumpEnd \/ CheckClosed \/ Backoff \/ Install
    <3>1. /\ UNCHANGED <<sock, reader, conn, held, sender>> /\ cur' \in {cur, conn}
      BY <2>1 DEF PumpTake, PumpPush, PumpEnd, CheckClosed, Backoff, Install, readers
    <3>2. Dialled' = Dialled
      BY <3>1 DEF Dialled
    <3> QED
      BY <1>0, <3>1, <3>2, OrderKeeps
  <2>2. CASE Withdraw
    <3>1. /\ UNCHANGED <<reader, conn, held, sender>> /\ cur' \in {cur, NoConn}
          /\ sock' = sock \/ sock' = [sock EXCEPT ![conn] = "shut"]
      BY <2>2 DEF Withdraw, Shut
    <3>2. Dialled' = Dialled
      <4>1. conn \in Dialled
        BY <1>0 DEF InOrder
      <4>2. CASE sock' = sock
        BY <4>2 DEF Dialled
      <4>3. CASE sock' = [sock EXCEPT ![conn] = "shut"]
        BY <1>0, <4>1, <4>3, SockKeeps
      <4> QED
        BY <3>1, <4>2, <4>3
    <3> QED
      BY <1>0, <3>1, <3>2, OrderKeeps
  <2>3. CASE Dial
    <3>1. CASE conn' = conn /\ sock' = sock /\ reader' = reader
      <4>1. UNCHANGED <<cur, held, sender>> /\ Dialled' = Dialled
        BY <2>3, <3>1 DEF Dial, Dialled
      <4> QED
        BY <1>0, <3>1, <4>1, OrderKeeps
    <3>2. CASE ~(conn' = conn /\ sock' = sock /\ reader' = reader)
      <4>1. /\ UNCHANGED <<cur, held, sender>> /\ Cardinality(Dialled) < MaxConns
            /\ conn' = Cardinality(Dialled) + 1 /\ sock' = [sock EXCEPT ![conn'] = "up"]
            /\ reader' = [reader EXCEPT ![conn'] = "read"]
        BY <2>3, <3>2 DEF Dial
      <4>2. conn' \in Conns
        BY <1>0, <4>1, NextConn
      <4>3. Dialled' = Dialled \cup {conn'}
        BY <1>0, <4>1, <4>2 DEF ConnTypes, Dialled
      <4>4. Cardinality(Dialled) + 1 \in 0 .. MaxConns /\ Dialled' = 1 .. (Cardinality(Dialled) + 1)
        BY <1>0, <4>1, <4>2, <4>3, DialledCount, TcpAssumption DEF Conns
      <4>5. \A c \in Conns \ Dialled' : reader'[c] = "none"
        BY <1>0, <4>1, <4>2, <4>3 DEF InOrder, ConnTypes
      <4>6. \E n \in 0 .. MaxConns : Dialled' = 1 .. n
        BY <4>4
      <4> QED
        BY <1>0, <4>1, <4>3, <4>5, <4>6 DEF InOrder
    <3> QED
      BY <3>1, <3>2
  <2> QED
    BY <1>3, <2>1, <2>2, <2>3 DEF Supervise
<1>4. ASSUME NEW s \in Senders, SendBegin(s) \/ SendEnd(s) PROVE InOrder'
  <2>1. /\ UNCHANGED <<reader, conn, cur, held>>
        /\ \A r \in Senders : sender'[r] \in {sender[r], cur, NoConn}
        /\ sock' = sock \/ (sender[s] # NoConn /\ sock' = [sock EXCEPT ![sender[s]] = "shut"])
    BY <1>0, <1>4 DEF SendBegin, SendEnd, Shut, WrapperTypes, readers
  <2>2. Dialled' = Dialled
    <3>1. CASE sock' = sock
      BY <3>1 DEF Dialled
    <3>2. CASE sender[s] # NoConn /\ sock' = [sock EXCEPT ![sender[s]] = "shut"]
      <4>1. sender[s] \in Dialled
        BY <1>0, <3>2 DEF InOrder
      <4> QED
        BY <1>0, <3>2, <4>1, SockKeeps
    <3> QED
      BY <2>1, <3>1, <3>2
  <2> QED
    BY <1>0, <2>1, <2>2, OrderKeeps
<1>5. CASE CloseSwap \/ CloseTake \/ Receive \/ UNCHANGED vars
  <2>1. UNCHANGED <<sock, reader, conn, sender>> /\ cur' \in {cur, NoConn} /\ held' \in {held, cur}
    BY <1>5 DEF CloseSwap, CloseTake, Receive, vars, readers
  <2>2. Dialled' = Dialled
    BY <2>1 DEF Dialled
  <2> QED
    BY <1>0, <2>1, <2>2, OrderKeeps
<1>6. CASE CloseEnd
  <2>1. /\ UNCHANGED <<reader, conn, cur, held, sender>>
        /\ sock' = sock \/ (held # NoConn /\ sock' = [sock EXCEPT ![held] = "shut"])
    BY <1>6 DEF CloseEnd, Shut
  <2>2. Dialled' = Dialled
    <3>1. CASE sock' = sock
      BY <3>1 DEF Dialled
    <3>2. CASE held # NoConn /\ sock' = [sock EXCEPT ![held] = "shut"]
      <4>1. held \in Dialled
        BY <1>0, <3>2 DEF InOrder
      <4> QED
        BY <1>0, <3>2, <4>1, SockKeeps
    <3> QED
      BY <2>1, <3>1, <3>2
  <2> QED
    BY <1>0, <2>1, <2>2, OrderKeeps
<1> QED
  BY <1>1, <1>2, <1>3, <1>4, <1>5, <1>6 DEF Next, Close

\* Every step keeps the invariant.
LEMMA IInvStep == IInv /\ [Next]_vars => IInv'
<1> SUFFICES ASSUME IInv, [Next]_vars PROVE Base'
  BY OrderStep DEF IInv
<1>1. CASE UNCHANGED vars
  BY <1>1 DEF IInv, Base, TypeOK, ConnTypes, WrapperTypes, FlagTypes, HistoryTypes, InHand, vars, readers, counts
<1> QED
  BY <1>1, ConnStep, SuperviseStep, UserStep DEF Next

\* In every behaviour the state has its type, and with it neither inbox of the TCP
\* interface ever holds more than its capacity and the frame in its goroutine's hand.
THEOREM TypeCorrect == Spec => []TypeOK
<1>1. IInv => TypeOK
  BY DEF IInv, Base
<1> QED
  BY InitIInv, IInvStep, <1>1, PTL DEF Spec

-----------------------------------------------------------------------------
(* The frames *)

Inc(s) == \A i, j \in DOMAIN s : i < j => s[i] < s[j]

Before(S, T) == \A x \in S, y \in T : x < y

\* The four stages of the pipeline hold increasing frames, each older than what the
\* next holds, and none that was not sent.
Stages(a, b, c, d) ==
  /\ Inc(a) /\ Inc(b) /\ Inc(c) /\ Inc(d)
  /\ Before(Range(a), Range(b)) /\ Before(Range(a), Range(c)) /\ Before(Range(a), Range(d))
  /\ Before(Range(b), Range(c)) /\ Before(Range(b), Range(d)) /\ Before(Range(c), Range(d))

Contents(a, b, c, d) == Range(a) \cup Range(b) \cup Range(c) \cup Range(d)

InPipe == Contents(taken, inbox, inner[conn], wire[conn])

\* Only the connection supervise works on is up, and none is while it redials; a
\* connection not yet dialled holds nothing; r.done is closed only by Close.
OneUp ==
  /\ \A c \in Conns : sock[c] = "up" => c = conn
  /\ sup \in {"redial", "backoff", "dial"} => sock[conn] = "shut"
  /\ \A c \in Conns \ Dialled : wire[c] = <<>> /\ inner[c] = <<>>
  /\ closer # "none" => closed
  /\ stop => closed

\* Every frame came by a dialled connection, the pipeline holds frames that were sent,
\* in their order, and all those of a connection that is up.
Flow ==
  /\ \A f \in 1 .. frames : via[f] \in Dialled
  /\ Stages(taken, inbox, inner[conn], wire[conn])
  /\ \A f \in InPipe : f <= frames
  /\ \A f \in 1 .. frames :
       ~closed /\ f \notin Runts /\ sock[via[f]] = "up" => f \in InPipe

\* Adding a frame younger than all others.
LEMMA IncAppend ==
  ASSUME NEW s \in Seq(Frames), NEW e \in Frames
  PROVE  /\ Range(Append(s, e)) = Range(s) \cup {e}
         /\ Inc(s) /\ Before(Range(s), {e}) => Inc(Append(s, e))
<1>1. Append(s, e) \in Seq(Frames) /\ Len(Append(s, e)) = Len(s) + 1
  OBVIOUS
<1>2. \A i \in 1 .. Len(s) : Append(s, e)[i] = s[i]
  OBVIOUS
<1>3. Append(s, e)[Len(s) + 1] = e /\ Len(s) \in Nat
  OBVIOUS
<1>4. DOMAIN s = 1 .. Len(s) /\ DOMAIN Append(s, e) = 1 .. Len(s) + 1
  OBVIOUS
<1> DEFINE t == Append(s, e)
<1> HIDE DEF t
<1>5. Range(t) = Range(s) \cup {e}
  BY <1>2, <1>3, <1>4 DEF Range, t
<1>6. ASSUME Inc(s), Before(Range(s), {e}) PROVE Inc(t)
  <2> SUFFICES ASSUME NEW i \in 1 .. Len(s) + 1, NEW j \in 1 .. Len(s) + 1, i < j PROVE t[i] < t[j]
    BY <1>4 DEF Inc, t
  <2>1. i \in 1 .. Len(s) /\ t[i] = s[i] /\ s[i] \in Range(s)
    BY <1>2, <1>3, <1>4 DEF Range, t
  <2>2. CASE j \in 1 .. Len(s)
    BY <2>1, <2>2, <1>2, <1>4, <1>6 DEF Inc, t
  <2>3. CASE j = Len(s) + 1
    BY <2>1, <2>3, <1>3, <1>6 DEF Before, t
  <2> QED
    BY <2>2, <2>3, <1>3
<1> QED
  BY <1>5, <1>6 DEF t

\* Taking the oldest frame.
LEMMA IncTail ==
  ASSUME NEW s \in Seq(Frames), s # <<>>
  PROVE  /\ Range(s) = {Head(s)} \cup Range(Tail(s))
         /\ Inc(s) => Inc(Tail(s)) /\ Before({Head(s)}, Range(Tail(s)))
<1>1. Len(s) \in Nat /\ Len(s) > 0 /\ DOMAIN s = 1 .. Len(s) /\ Head(s) = s[1]
  OBVIOUS
<1>2. DOMAIN Tail(s) = 1 .. (Len(s) - 1) /\ \A i \in 1 .. (Len(s) - 1) : Tail(s)[i] = s[i + 1]
  OBVIOUS
<1> DEFINE t == Tail(s)
<1>3. DOMAIN t = 1 .. (Len(s) - 1) /\ \A i \in 1 .. (Len(s) - 1) : t[i] = s[i + 1]
  BY <1>2
<1> HIDE DEF t
<1>4. Range(s) = {s[1]} \cup Range(t)
  <2>1. ASSUME NEW i \in 1 .. Len(s) PROVE s[i] = s[1] \/ \E k \in 1 .. (Len(s) - 1) : s[i] = t[k]
    <3>1. CASE i = 1
      BY <3>1
    <3>2. CASE i # 1
      <4>1. i - 1 \in 1 .. (Len(s) - 1) /\ (i - 1) + 1 = i
        BY <3>2, <1>1
      <4> QED
        BY <4>1, <1>3
    <3> QED
      BY <3>1, <3>2
  <2>2. \A k \in 1 .. (Len(s) - 1) : k + 1 \in 1 .. Len(s)
    BY <1>1
  <2>3. Range(s) \subseteq {s[1]} \cup Range(t)
    <3> SUFFICES ASSUME NEW x \in Range(s) PROVE x = s[1] \/ x \in Range(t)
      OBVIOUS
    <3>1. PICK i \in 1 .. Len(s) : x = s[i]
      BY <1>1 DEF Range
    <3> QED
      BY <2>1, <3>1, <1>3 DEF Range
  <2>4. {s[1]} \cup Range(t) \subseteq Range(s)
    <3>1. s[1] \in Range(s)
      BY <1>1 DEF Range
    <3>2. ASSUME NEW x \in Range(t) PROVE x \in Range(s)
      <4>1. PICK k \in 1 .. (Len(s) - 1) : x = t[k]
        BY <1>3 DEF Range
      <4>2. k + 1 \in DOMAIN s /\ x = s[k + 1]
        BY <1>1, <1>3, <2>2, <4>1
      <4> QED
        BY <4>2 DEF Range
    <3> QED
      BY <3>1, <3>2
  <2> QED
    BY <2>3, <2>4
<1>5. ASSUME Inc(s) PROVE Inc(t) /\ Before({s[1]}, Range(t))
  <2>1. Inc(t)
    BY <1>1, <1>3, <1>5 DEF Inc
  <2>2. Before({s[1]}, Range(t))
    <3>1. ASSUME NEW k \in 1 .. (Len(s) - 1) PROVE s[1] < t[k]
      <4>1. k + 1 \in 1 .. Len(s) /\ 1 \in 1 .. Len(s) /\ 1 < k + 1
        BY <1>1
      <4> QED
        BY <4>1, <1>1, <1>3, <1>5 DEF Inc
    <3> QED
      BY <3>1, <1>3 DEF Before, Range
  <2> QED
    BY <2>1, <2>2
<1> QED
  BY <1>1, <1>4, <1>5 DEF t

\* Dropping the youngest frame.
LEMMA IncFront ==
  ASSUME NEW s \in Seq(Frames), s # <<>>
  PROVE  /\ Range(Front(s)) \subseteq Range(s)
         /\ Inc(s) => Inc(Front(s))
<1>1. Len(s) \in Nat /\ Len(s) > 0 /\ DOMAIN s = 1 .. Len(s)
  OBVIOUS
<1>2. Front(s) = [i \in 1 .. (Len(s) - 1) |-> s[i]]
  BY <1>1, SubSeqProperties DEF Front
<1> DEFINE t == Front(s)
<1>3. DOMAIN t = 1 .. (Len(s) - 1) /\ \A i \in 1 .. (Len(s) - 1) : t[i] = s[i]
  BY <1>2
<1> HIDE DEF t
<1>4. DOMAIN t \subseteq DOMAIN s /\ \A i \in DOMAIN t : t[i] = s[i]
  BY <1>1, <1>3
<1> QED
  <2>1. Range(t) \subseteq Range(s)
    BY <1>4, Zenon DEF Range
  <2>2. ASSUME Inc(s) PROVE Inc(t)
    <3> SUFFICES ASSUME NEW i \in DOMAIN t, NEW j \in DOMAIN t, i < j PROVE t[i] < t[j]
      BY DEF Inc
    <3>1. s[i] < s[j] /\ t[i] = s[i] /\ t[j] = s[j]
      BY <1>4, <2>2, Zenon DEF Inc
    <3> QED
      BY <3>1
  <2> QED
    BY <2>1, <2>2 DEF t

\* A concatenation is increasing iff its parts are, one before the other.
LEMMA IncConcat ==
  ASSUME NEW s \in Seq(Frames), NEW t \in Seq(Frames),
         Inc(s), Inc(t), Before(Range(s), Range(t))
  PROVE  s \o t \in Seq(Frames) /\ Inc(s \o t) /\ Range(s \o t) = Range(s) \cup Range(t)
<1>1. s \o t \in Seq(Frames) /\ Range(s \o t) = Range(s) \cup Range(t)
  BY RangeConcatenation
<1>2. Len(s) \in Nat /\ Len(t) \in Nat /\ DOMAIN s = 1 .. Len(s) /\ DOMAIN t = 1 .. Len(t)
      /\ DOMAIN (s \o t) = 1 .. (Len(s) + Len(t))
  OBVIOUS
<1> DEFINE r == s \o t
<1>3. \A i \in 1 .. (Len(s) + Len(t)) : r[i] = IF i <= Len(s) THEN s[i] ELSE t[i - Len(s)]
  OBVIOUS
<1>4. DOMAIN r = 1 .. (Len(s) + Len(t))
  BY <1>2
<1> HIDE DEF r
<1>5. Inc(r)
  <2> SUFFICES ASSUME NEW i \in 1 .. (Len(s) + Len(t)), NEW j \in 1 .. (Len(s) + Len(t)), i < j
               PROVE  r[i] < r[j]
    BY <1>4 DEF Inc
  <2>1. CASE j <= Len(s)
    <3>1. i \in DOMAIN s /\ j \in DOMAIN s /\ r[i] = s[i] /\ r[j] = s[j]
      BY <2>1, <1>2, <1>3
    <3> QED
      BY <3>1 DEF Inc
  <2>2. CASE i <= Len(s) /\ ~(j <= Len(s))
    <3>1. i \in DOMAIN s /\ j - Len(s) \in DOMAIN t /\ r[i] = s[i] /\ r[j] = t[j - Len(s)]
      BY <2>2, <1>2, <1>3
    <3>2. s[i] \in Range(s) /\ t[j - Len(s)] \in Range(t)
      BY <3>1 DEF Range
    <3> QED
      BY <3>1, <3>2 DEF Before
  <2>3. CASE ~(i <= Len(s))
    <3>1. i - Len(s) \in DOMAIN t /\ j - Len(s) \in DOMAIN t /\ i - Len(s) < j - Len(s)
          /\ r[i] = t[i - Len(s)] /\ r[j] = t[j - Len(s)]
      BY <2>3, <1>2, <1>3
    <3> QED
      BY <3>1 DEF Inc
  <2> QED
    BY <2>1, <2>2, <2>3, <1>2
<1> QED
  BY <1>1, <1>5 DEF r

\* What the invariant says about the pipeline is the property.
LEMMA FlowIntact ==
  ASSUME Base, Flow
  PROVE  FramesIntact
<1> DEFINE a == taken
           b == inbox
           c == inner[conn]
           d == wire[conn]
<1>0. a \in Seq(Frames) /\ b \in Seq(Frames) /\ c \in Seq(Frames) /\ d \in Seq(Frames)
  BY DEF Base, TypeOK, ConnTypes, WrapperTypes, HistoryTypes
<1>1. Stages(a, b, c, d) /\ \A f \in 1 .. frames :
       ~closed /\ f \notin Runts /\ sock[via[f]] = "up" => f \in Contents(a, b, c, d)
  BY DEF Flow, InPipe
<1>2. Pipeline = a \o b \o c \o d
  BY DEF Pipeline
<1> HIDE DEF a, b, c, d
<1>3. a \o b \in Seq(Frames) /\ Inc(a \o b) /\ Range(a \o b) = Range(a) \cup Range(b)
  BY <1>0, <1>1, IncConcat DEF Stages
<1>4. Before(Range(a \o b), Range(c)) /\ Before(Range(a \o b), Range(d))
  BY <1>1, <1>3 DEF Stages, Before
<1>5. a \o b \o c \in Seq(Frames) /\ Inc(a \o b \o c) /\ Range(a \o b \o c) = Range(a) \cup Range(b) \cup Range(c)
  BY <1>0, <1>1, <1>3, <1>4, IncConcat DEF Stages
<1>6. Before(Range(a \o b \o c), Range(d))
  BY <1>1, <1>4, <1>5 DEF Stages, Before
<1>7. Inc(a \o b \o c \o d) /\ Range(a \o b \o c \o d) = Range(a) \cup Range(b) \cup Range(c) \cup Range(d)
  BY <1>0, <1>1, <1>5, <1>6, IncConcat DEF Stages
<1> QED
  BY <1>1, <1>2, <1>7 DEF FramesIntact, Inc, Contents

\* The first frames.
LEMMA InitFlow == Init => OneUp /\ Flow
<1> SUFFICES ASSUME Init PROVE OneUp /\ Flow
  OBVIOUS
<1>0. 1 \in Conns /\ Range(<<>>) = {} /\ Inc(<<>>) /\ MaxConns \in Nat
  BY TcpAssumption DEF Conns, Range, Inc
<1>1. OneUp
  BY <1>0 DEF Init, OneUp, Dialled
<1>2. taken = <<>> /\ inbox = <<>> /\ inner[conn] = <<>> /\ wire[conn] = <<>> /\ frames = 0
  BY <1>0 DEF Init
<1>3. Flow
  BY <1>0, <1>2 DEF Flow, InPipe, Contents, Stages, Before
<1> QED
  BY <1>1, <1>3

\* Steps that leave the stages alone, bring no frame and no connection up.
LEMMA StagesKeep ==
  ASSUME Flow, HistoryTypes, taken' = taken, inbox' = inbox, conn' = conn,
         inner'[conn] = inner[conn], wire'[conn] = wire[conn], frames' = frames, via' = via,
         closed => closed', Dialled' = Dialled,
         \A f \in 1 .. frames : sock'[via[f]] = "up" => sock[via[f]] = "up"
  PROVE  Flow'
<1>1. InPipe' = InPipe
  BY DEF InPipe, Contents
<1> QED
  BY <1>1 DEF Flow, Stages

\* A step that keeps what is in the pipeline, in another stage.
LEMMA StagesMove ==
  ASSUME Flow, Stages(taken, inbox, inner[conn], wire[conn])', InPipe' \subseteq InPipe,
         \A f \in InPipe \ InPipe' : f \in Runts \/ closed',
         frames' = frames, via' = via, closed' = closed, sock' = sock
  PROVE  Flow'
<1>1. Dialled' = Dialled
  BY DEF Dialled
<1> QED
  BY <1>1 DEF Flow

\* No connection that was not up becomes so, but by Dial.
LEMMA ShutKeeps ==
  ASSUME ConnTypes, NEW c \in Conns, NEW v \in {"silent", "eof", "shut"}, sock' = [sock EXCEPT ![c] = v]
  PROVE  \A k \in Conns : (sock'[k] = "up" => sock[k] = "up") /\ (sock[k] = "shut" /\ v = "shut" => sock'[k] = "shut")
BY DEF ConnTypes

\* Frames are in Conns by way of a dialled connection.
LEMMA ViaConn ==
  ASSUME Flow, HistoryTypes, NEW f \in 1 .. frames
  PROVE  via[f] \in Conns /\ f \in Frames
BY TcpAssumption DEF Flow, HistoryTypes, Dialled, Frames

\* A frame of the socket goes into the connection's inbox, or the read loop ends.
LEMMA ReadStep ==
  ASSUME IInv, OneUp, Flow, NEW c \in Conns, ReadLoop(c)
  PROVE  OneUp' /\ Flow'
<1>0. ConnTypes /\ WrapperTypes /\ HistoryTypes /\ InOrder
  BY DEF IInv, Base, TypeOK
<1>1. CASE Enqueue(c) \/ ReadError(c)
  <2>1. UNCHANGED <<sock, wire, inner, cur, closed, stop, inbox, sup, conn, closer, held, sender, counts>>
    BY <1>1 DEF Enqueue, ReadError
  <2>2. Dialled' = Dialled
    BY <2>1 DEF Dialled
  <2> QED
    BY <1>0, <2>1, <2>2, StagesKeep DEF OneUp, counts
<1>2. CASE ReadFrame(c)
  <2>1. UNCHANGED <<sock, cur, closed, stop, inbox, sup, conn, closer, held, sender, counts>>
    BY <1>2 DEF ReadFrame
  <2>2. Dialled' = Dialled
    BY <2>1 DEF Dialled
  <2>3. c \in Dialled
    BY <1>0, <1>2 DEF ReadFrame, InOrder
  <2>4. \A k \in Conns \ {c} : wire'[k] = wire[k] /\ inner'[k] = inner[k]
    BY <1>0, <1>2 DEF ReadFrame, ConnTypes
  <2>5. OneUp'
    BY <2>1, <2>2, <2>3, <2>4 DEF OneUp
  <2>6. CASE c # conn
    <3>1. conn \in Conns \ {c}
      BY <1>0, <2>6 DEF WrapperTypes
    <3> QED
      BY <1>0, <2>1, <2>2, <2>4, <2>5, <3>1, StagesKeep DEF counts
  <2>7. CASE c = conn
    <3> DEFINE w == wire[conn]
               n == inner[conn]
    <3>1. w \in Seq(Frames) /\ w # <<>> /\ n \in Seq(Frames) /\ Head(w) \in Frames
      BY <1>0, <1>2, <2>7, HeadTail DEF ReadFrame, ConnTypes
    <3>2. wire'[conn'] = Tail(w)
      BY <1>0, <1>2, <2>1, <2>7 DEF ReadFrame, ConnTypes
    <3>3. \/ Head(w) \in Runts /\ inner'[conn'] = n
          \/ inner'[conn'] = Append(n, Head(w))
      BY <1>0, <1>2, <2>1, <2>7 DEF ReadFrame, ConnTypes
    <3>4. Stages(taken, inbox, n, w)
      BY DEF Flow
    <3>5. InPipe = Contents(taken, inbox, n, w) /\ InPipe' = Contents(taken, inbox, inner'[conn'], Tail(w))
      BY <2>1, <3>2 DEF InPipe, counts
    <3>6. Stages(taken, inbox, n, w)' <=> Stages(taken, inbox, inner'[conn'], Tail(w))
      BY <2>1, <3>2 DEF counts
    <3> HIDE DEF w, n
    <3>7. Range(w) = {Head(w)} \cup Range(Tail(w)) /\ Inc(Tail(w)) /\ Before({Head(w)}, Range(Tail(w)))
      BY <3>1, <3>4, IncTail DEF Stages
    <3>8. Before(Range(n), {Head(w)})
      BY <3>4, <3>7 DEF Stages, Before
    <3>9. /\ Stages(taken, inbox, inner'[conn'], Tail(w))
          /\ Contents(taken, inbox, inner'[conn'], Tail(w)) \subseteq Contents(taken, inbox, n, w)
          /\ \A f \in Contents(taken, inbox, n, w) \ Contents(taken, inbox, inner'[conn'], Tail(w)) : f \in Runts
      <4>1. CASE Head(w) \in Runts /\ inner'[conn'] = n
        BY <3>4, <3>7, <4>1 DEF Stages, Before, Contents
      <4>2. CASE inner'[conn'] = Append(n, Head(w))
        <5>1. Range(Append(n, Head(w))) = Range(n) \cup {Head(w)} /\ Inc(Append(n, Head(w)))
          BY <3>1, <3>4, <3>8, IncAppend DEF Stages
        <5> QED
          BY <3>4, <3>7, <4>2, <5>1 DEF Stages, Before, Contents
      <4> QED
        BY <3>3, <4>1, <4>2
    <3>10. Flow'
      BY <2>1, <3>5, <3>6, <3>9, StagesMove DEF counts, n, w
    <3> QED
      BY <2>5, <3>10
  <2> QED
    BY <2>5, <2>6, <2>7
<1> QED
  BY <1>1, <1>2 DEF ReadLoop

\* The peer sends a frame.
LEMMA ArriveStep ==
  ASSUME IInv, OneUp, Flow, NEW c \in Conns, Arrive(c)
  PROVE  OneUp' /\ Flow'
<1>0. ConnTypes /\ WrapperTypes /\ HistoryTypes /\ InOrder
  BY DEF IInv, Base, TypeOK
<1>1. UNCHANGED <<sock, reader, inner, cur, closed, stop, inbox, sup, conn, closer, held, sender, taken, late, sends, dialFails>>
  BY DEF Arrive
<1>2. c = conn /\ c \in Dialled /\ Dialled' = Dialled
  BY <1>1 DEF Arrive, OneUp, Dialled
<1>3. frames' = frames + 1 /\ frames' \in Frames /\ frames \in Nat
  BY <1>0, TcpAssumption DEF Arrive, HistoryTypes, Frames
<1>4. wire' = [wire EXCEPT ![conn] = Append(wire[conn], frames')] /\ via' = [via EXCEPT ![frames'] = conn]
  BY <1>2 DEF Arrive
<1>5. OneUp'
  BY <1>0, <1>1, <1>2, <1>4 DEF OneUp, ConnTypes
<1> DEFINE w == wire[conn]
           n == inner[conn]
<1>6. w \in Seq(Frames) /\ wire'[conn'] = Append(w, frames') /\ inner'[conn'] = n
  BY <1>0, <1>1, <1>4 DEF ConnTypes, WrapperTypes
<1>7. Stages(taken, inbox, n, w) /\ \A f \in Contents(taken, inbox, n, w) : f <= frames
  BY DEF Flow, InPipe
<1>8. Contents(taken, inbox, n, w) \subseteq Frames
  <2>1. n \in Seq(Frames) /\ taken \in Seq(Frames) /\ inbox \in Seq(Frames)
    BY <1>0 DEF ConnTypes, WrapperTypes, HistoryTypes
  <2> HIDE DEF n, w
  <2> QED
    BY <1>6, <2>1, RangeOfSeq DEF Contents
<1>9. InPipe = Contents(taken, inbox, n, w) /\ InPipe' = Contents(taken, inbox, n, Append(w, frames'))
  BY <1>1, <1>6 DEF InPipe
<1>10. Stages(taken, inbox, inner[conn], wire[conn])' <=> Stages(taken, inbox, n, Append(w, frames'))
  BY <1>1, <1>6
<1> HIDE DEF w, n
<1>11. \A f \in Contents(taken, inbox, n, w) : f < frames'
  BY <1>3, <1>7, <1>8 DEF Frames
<1>12. Range(Append(w, frames')) = Range(w) \cup {frames'} /\ Inc(Append(w, frames'))
  <2>1. Before(Range(w), {frames'})
    BY <1>11 DEF Before, Contents
  <2> QED
    BY <1>3, <1>6, <1>7, <2>1, IncAppend DEF Stages
<1>13. Stages(taken, inbox, n, Append(w, frames'))
  BY <1>7, <1>11, <1>12 DEF Stages, Before, Contents
<1>14. InPipe' = InPipe \cup {frames'}
  BY <1>9, <1>12 DEF Contents
<1>15. Flow'
  <2>1. \A f \in InPipe' : f <= frames'
    BY <1>3, <1>8, <1>9, <1>11, <1>14 DEF Frames
  <2>2. ASSUME NEW f \in 1 .. frames' PROVE /\ via'[f] \in Dialled'
                                            /\ ~closed' /\ f \notin Runts /\ sock'[via'[f]] = "up" => f \in InPipe'
    <3>1. CASE f = frames'
      BY <1>0, <1>2, <1>3, <1>4, <1>14, <3>1 DEF HistoryTypes
    <3>2. CASE f # frames'
      <4>1. f \in 1 .. frames /\ f \in Frames
        BY <1>3, <3>2, TcpAssumption DEF Frames
      <4>2. via'[f] = via[f]
        BY <1>0, <1>4, <3>2, <4>1 DEF HistoryTypes
      <4> QED
        BY <1>1, <1>2, <1>14, <4>1, <4>2 DEF Flow
    <3> QED
      BY <3>1, <3>2
  <2> QED
    BY <1>10, <1>13, <2>1, <2>2 DEF Flow
<1> QED
  BY <1>5, <1>15

\* A connection that drops, or whose drop is found.
LEMMA SockStep ==
  ASSUME IInv, OneUp, Flow, NEW c \in Dialled, NEW v \in {"silent", "eof", "shut"},
         sock' = [sock EXCEPT ![c] = v], sock[c] = "shut" => v = "shut",
         UNCHANGED <<wire, inner, closed, stop, inbox, conn, counts>>,
         sup' \in {"redial", "backoff", "dial"} => sup = sup' \/ (c = conn /\ v = "shut"),
         closer' # "none" => closer # "none" \/ closed
  PROVE  OneUp' /\ Flow'
<1>0. ConnTypes /\ WrapperTypes /\ HistoryTypes /\ c \in Conns /\ Dialled' = Dialled
  BY SockKeeps DEF IInv, Base, TypeOK, Dialled
<1>1. \A k \in Conns : sock'[k] = "up" => sock[k] = "up"
  BY <1>0, ShutKeeps
<1>2. \A f \in 1 .. frames : sock'[via[f]] = "up" => sock[via[f]] = "up"
  BY <1>0, <1>1, ViaConn
<1>3. Flow'
  BY <1>0, <1>2, StagesKeep DEF counts
<1>4. sock[conn] = "shut" => sock'[conn] = "shut"
  BY <1>0 DEF ConnTypes, WrapperTypes
<1>5. c = conn /\ v = "shut" => sock'[conn] = "shut"
  BY <1>0 DEF ConnTypes
<1>6. OneUp'
  BY <1>0, <1>1, <1>4, <1>5 DEF OneUp
<1> QED
  BY <1>3, <1>6

\* Steps that touch no socket and no frame.
LEMMA QuietStep ==
  ASSUME Flow, OneUp, HistoryTypes, UNCHANGED <<sock, wire, inner, inbox, conn, frames, taken, via>>,
         closed => closed', closer' # "none" => closed', stop' => closed',
         sup' \in {"redial", "backoff", "dial"} => sup \in {"redial", "backoff", "dial"}
  PROVE  OneUp' /\ Flow'
<1>1. Dialled' = Dialled
  BY DEF Dialled
<1>2. Flow'
  BY <1>1, StagesKeep
<1> QED
  BY <1>1, <1>2 DEF OneUp

\* Frames that leave pump's hand.
LEMMA PumpStep ==
  ASSUME IInv, OneUp, Flow, PumpTake \/ PumpPush
  PROVE  OneUp' /\ Flow'
<1>0. ConnTypes /\ WrapperTypes /\ HistoryTypes /\ InHand
  BY DEF IInv, Base, TypeOK
<1> DEFINE w == wire[conn]
           n == inner[conn]
<1>1. w \in Seq(Frames) /\ n \in Seq(Frames) /\ inbox \in Seq(Frames) /\ conn \in Conns
  BY <1>0 DEF ConnTypes, WrapperTypes
<1>2. Stages(taken, inbox, n, w)
  BY DEF Flow
<1>3. InPipe = Contents(taken, inbox, n, w)
  BY DEF InPipe
<1>4. CASE PumpTake
  <2>1. UNCHANGED <<sock, wire, reader, cur, closed, stop, conn, closer, held, sender, counts>>
    BY <1>4 DEF PumpTake
  <2>2. n # <<>>
    BY <1>0, <1>4 DEF PumpTake, Queued, InHand, ConnTypes, WrapperTypes
  <2>3. inner' = [inner EXCEPT ![conn] = Tail(n)] /\ inbox' = Append(inbox, Head(n)) /\ sup' = "push"
    BY <1>4 DEF PumpTake
  <2>4. inner'[conn'] = Tail(n) /\ wire'[conn'] = w
    BY <1>0, <1>1, <2>1, <2>3 DEF ConnTypes
  <2>5. InPipe' = Contents(taken, Append(inbox, Head(n)), Tail(n), w)
    BY <2>1, <2>3, <2>4 DEF InPipe, counts
  <2>6. Stages(taken, inbox, inner[conn], wire[conn])' <=> Stages(taken, Append(inbox, Head(n)), Tail(n), w)
    BY <2>1, <2>3, <2>4 DEF counts
  <2>7. conn \in Dialled /\ Dialled' = Dialled
    BY <2>1 DEF IInv, InOrder, Dialled
  <2>8. OneUp'
    BY <1>0, <2>1, <2>3, <2>7 DEF OneUp, ConnTypes
  <2> HIDE DEF n, w
  <2>9. Range(n) = {Head(n)} \cup Range(Tail(n)) /\ Inc(Tail(n)) /\ Before({Head(n)}, Range(Tail(n))) /\ Head(n) \in Frames
    BY <1>1, <1>2, <2>2, IncTail, HeadTail DEF Stages
  <2>10. Before(Range(inbox), {Head(n)})
    BY <1>2, <2>9 DEF Stages, Before
  <2>11. Range(Append(inbox, Head(n))) = Range(inbox) \cup {Head(n)} /\ Inc(Append(inbox, Head(n)))
    BY <1>1, <1>2, <2>9, <2>10, IncAppend DEF Stages
  <2>12. Stages(taken, Append(inbox, Head(n)), Tail(n), w)
    BY <1>2, <2>9, <2>11 DEF Stages, Before
  <2>13. InPipe' = InPipe
    BY <1>3, <2>5, <2>9, <2>11 DEF Contents
  <2>14. Flow'
    BY <2>1, <2>6, <2>12, <2>13, StagesMove DEF counts
  <2> QED
    BY <2>8, <2>14
<1>5. CASE PumpPush
  <2>1. UNCHANGED <<readers, cur, closed, stop, conn, closer, held, sender, counts>>
        /\ sup' \notin {"redial", "backoff", "dial"}
    BY <1>5 DEF PumpPush
  <2>2. CASE UNCHANGED inbox
    BY <1>0, <2>1, <2>2, QuietStep DEF readers, counts, OneUp
  <2>3. CASE stop /\ inbox' = Front(inbox)
    <3>1. inbox # <<>> /\ closed'
      BY <1>0, <1>5, <2>1, <2>3 DEF PumpPush, InHand, OneUp
    <3>2. Range(Front(inbox)) \subseteq Range(inbox) /\ Inc(Front(inbox))
      BY <1>1, <1>2, <3>1, IncFront DEF Stages
    <3>3. inner'[conn'] = n /\ wire'[conn'] = w
      BY <2>1 DEF readers
    <3>4. InPipe' = Contents(taken, Front(inbox), n, w)
      BY <2>1, <2>3, <3>3 DEF InPipe, counts
    <3>5. Stages(taken, inbox, inner[conn], wire[conn])' <=> Stages(taken, Front(inbox), n, w)
      BY <2>1, <2>3, <3>3 DEF counts
    <3>6. Dialled' = Dialled
      BY <2>1 DEF Dialled, readers
    <3>7. OneUp'
      BY <2>1, <3>6 DEF OneUp, readers
    <3> HIDE DEF n, w
    <3>8. Stages(taken, Front(inbox), n, w) /\ Contents(taken, Front(inbox), n, w) \subseteq Contents(taken, inbox, n, w)
      BY <1>2, <3>2 DEF Stages, Before, Contents
    <3>9. Flow'
      BY <1>3, <2>1, <3>1, <3>4, <3>5, <3>8, StagesMove DEF counts, readers
    <3> QED
      BY <3>7, <3>9
  <2> QED
    BY <1>5, <2>2, <2>3 DEF PumpPush
<1> QED
  BY <1>4, <1>5

\* A new connection starts empty, when no other is up.
LEMMA DialStep ==
  ASSUME IInv, OneUp, Flow, Dial
  PROVE  OneUp' /\ Flow'
<1>0. ConnTypes /\ WrapperTypes /\ HistoryTypes /\ InOrder
  BY DEF IInv, Base, TypeOK
<1>1. UNCHANGED <<wire, inner, cur, closed, stop, inbox, closer, held, sender, frames, taken, via, late, sends>>
  BY DEF Dial
<1>2. CASE UNCHANGED <<conn, sock>>
  <2>1. sup' \in {"redial", "backoff", "dial"} => sup \in {"redial", "backoff", "dial"}
    BY DEF Dial
  <2> QED
    BY <1>0, <1>1, <1>2, <2>1, QuietStep DEF OneUp
<1>3. CASE /\ Cardinality(Dialled) < MaxConns
           /\ conn' = Cardinality(Dialled) + 1
           /\ sock' = [sock EXCEPT ![conn'] = "up"]
           /\ sup' = "install"
  <2>1. conn' \in Conns /\ conn' \notin Dialled
    BY <1>0, <1>3, NextConn, DialledCount
  <2>2. wire'[conn'] = <<>> /\ inner'[conn'] = <<>>
    BY <1>1, <2>1 DEF OneUp
  <2>3. \A k \in Conns : sock[k] # "up"
    BY <1>0 DEF Dial, OneUp, WrapperTypes
  <2>4. \A k \in Conns : sock'[k] = IF k = conn' THEN "up" ELSE sock[k]
    BY <1>0, <1>3, <2>1 DEF ConnTypes
  <2>5. Dialled' = Dialled \cup {conn'}
    BY <2>1, <2>4 DEF Dialled
  <2>6. OneUp'
    BY <1>1, <1>3, <2>3, <2>4, <2>5 DEF OneUp
  <2>7. Range(<<>>) = {} /\ Inc(<<>>)
    BY DEF Range, Inc
  <2>8. Stages(taken, inbox, inner[conn], wire[conn])'
    BY <1>1, <2>2, <2>7 DEF Flow, Stages, Before
  <2>9. InPipe' \subseteq InPipe
    BY <1>1, <2>2, <2>7 DEF InPipe, Contents
  <2>10. ASSUME NEW f \in 1 .. frames PROVE via[f] \in Dialled' /\ sock'[via[f]] # "up"
    <3>1. via[f] \in Dialled /\ via[f] \in Conns
      BY <1>0, ViaConn DEF Flow
    <3> QED
      BY <2>1, <2>3, <2>4, <2>5, <3>1
  <2>11. Flow'
    BY <1>1, <2>8, <2>9, <2>10 DEF Flow
  <2> QED
    BY <2>6, <2>11
<1> QED
  BY <1>2, <1>3 DEF Dial

\* Transport takes the oldest frame.
LEMMA ReceiveStep ==
  ASSUME IInv, OneUp, Flow, Receive
  PROVE  OneUp' /\ Flow'
<1>0. ConnTypes /\ WrapperTypes /\ HistoryTypes /\ InHand
  BY DEF IInv, Base, TypeOK
<1>1. UNCHANGED <<readers, cur, closed, stop, sup, conn, closer, held, sender, frames, via, late, sends, dialFails>>
  BY DEF Receive
<1>2. inbox \in Seq(Frames) /\ taken \in Seq(Frames)
  BY <1>0 DEF WrapperTypes, HistoryTypes
<1>3. inbox # <<>> /\ inbox' = Tail(inbox) /\ taken' = Append(taken, Head(inbox))
  <2>1. CASE sup = "push"
    <3>1. inbox # <<>> /\ Front(inbox) # <<>>
      BY <1>0, <2>1 DEF Receive, InHand
    <3>2. Len(Front(inbox)) = Len(inbox) - 1 /\ Front(inbox) \in Seq(Frames)
      BY <1>2, <3>1, FrontType
    <3>3. Len(inbox) \in Nat /\ Len(inbox) > 0
      BY <1>2, <3>1
    <3>4. Front(inbox) = [i \in 1 .. (Len(inbox) - 1) |-> inbox[i]]
      BY <1>2, <3>3, SubSeqProperties DEF Front
    <3>5. 1 \in 1 .. (Len(inbox) - 1)
      BY <3>1, <3>2, <3>3
    <3>6. Head(Front(inbox)) = Front(inbox)[1] /\ Head(inbox) = inbox[1]
      BY <1>2, <3>1, <3>2
    <3>7. Head(Front(inbox)) = Head(inbox)
      BY <3>4, <3>5, <3>6
    <3> QED
      BY <2>1, <3>1, <3>7 DEF Receive
  <2>2. CASE sup # "push"
    BY <2>2 DEF Receive
  <2> QED
    BY <2>1, <2>2
<1> DEFINE w == wire[conn]
           n == inner[conn]
<1>4. Stages(taken, inbox, n, w) /\ InPipe = Contents(taken, inbox, n, w)
  BY DEF Flow, InPipe
<1>5. inner'[conn'] = n /\ wire'[conn'] = w
  BY <1>1 DEF readers
<1>6. /\ InPipe' = Contents(Append(taken, Head(inbox)), Tail(inbox), n, w)
      /\ Stages(taken, inbox, inner[conn], wire[conn])' <=> Stages(Append(taken, Head(inbox)), Tail(inbox), n, w)
  BY <1>3, <1>5 DEF InPipe
<1>7. Dialled' = Dialled
  BY <1>1 DEF Dialled, readers
<1>8. OneUp'
  BY <1>1, <1>7 DEF OneUp, readers
<1> HIDE DEF n, w
<1>9. Range(inbox) = {Head(inbox)} \cup Range(Tail(inbox)) /\ Inc(Tail(inbox))
      /\ Before({Head(inbox)}, Range(Tail(inbox))) /\ Head(inbox) \in Frames
  BY <1>2, <1>3, <1>4, IncTail, HeadTail DEF Stages
<1>10. Before(Range(taken), {Head(inbox)})
  BY <1>4, <1>9 DEF Stages, Before
<1>11. Range(Append(taken, Head(inbox))) = Range(taken) \cup {Head(inbox)} /\ Inc(Append(taken, Head(inbox)))
  BY <1>2, <1>4, <1>9, <1>10, IncAppend DEF Stages
<1>12. Stages(Append(taken, Head(inbox)), Tail(inbox), n, w)
  BY <1>4, <1>9, <1>11 DEF Stages, Before
<1>13. InPipe' = InPipe
  BY <1>4, <1>6, <1>9, <1>11 DEF Contents
<1>14. Flow'
  BY <1>1, <1>6, <1>12, <1>13, StagesMove DEF readers
<1> QED
  BY <1>8, <1>14

\* Every step keeps the invariant of the frames.
LEMMA FlowStep ==
  ASSUME IInv, OneUp, Flow, [Next]_vars
  PROVE  OneUp' /\ Flow'
<1>0. ConnTypes /\ WrapperTypes /\ FlagTypes /\ HistoryTypes /\ InOrder
  BY DEF IInv, Base, TypeOK
<1>1. CASE UNCHANGED vars
  BY <1>0, <1>1, QuietStep DEF vars, readers, counts, OneUp
<1>2. ASSUME NEW c \in Conns, ReadLoop(c) \/ Arrive(c) PROVE OneUp' /\ Flow'
  BY <1>2, ReadStep, ArriveStep
<1>3. ASSUME NEW c \in Conns, Drop(c) \/ Probe(c) PROVE OneUp' /\ Flow'
  <2>1. PICK v \in {"silent", "eof", "shut"} : sock' = [sock EXCEPT ![c] = v]
    BY <1>3 DEF Drop, Probe
  <2>2. c \in Dialled /\ sock[c] # "shut"
    BY <1>3 DEF Drop, Probe, Dialled
  <2>3. UNCHANGED <<wire, inner, closed, stop, inbox, sup, conn, closer, counts>>
    BY <1>3 DEF Drop, Probe
  <2> QED
    BY <2>1, <2>2, <2>3, SockStep
<1>4. CASE Supervise
  <2>1. CASE PumpTake \/ PumpPush
    BY <2>1, PumpStep
  <2>2. CASE Dial
    BY <2>2, DialStep
  <2>3. CASE PumpEnd \/ CheckClosed \/ Backoff \/ Install
    <3>1. UNCHANGED <<readers, closed, stop, inbox, conn, closer, frames, taken, via>>
      BY <2>3 DEF PumpEnd, CheckClosed, Backoff, Install, counts
    <3>2. sup' \in {"redial", "backoff", "dial"} => sup \in {"redial", "backoff", "dial"}
      BY <2>3 DEF PumpEnd, CheckClosed, Backoff, Install
    <3> QED
      BY <1>0, <3>1, <3>2, QuietStep DEF readers, OneUp
  <2>4. CASE Withdraw
    <3>1. CASE UNCHANGED sock /\ sup' = "stopped"
      BY <1>0, <2>4, <3>1, QuietStep DEF Withdraw, OneUp, counts
    <3>2. CASE sup' = "redial" /\ sock' = [sock EXCEPT ![conn] = "shut"]
      BY <1>0, <2>4, <3>2, SockStep DEF Withdraw, InOrder
    <3> QED
      BY <2>4, <3>1, <3>2 DEF Withdraw, Shut
  <2> QED
    BY <1>4, <2>1, <2>2, <2>3, <2>4 DEF Supervise
<1>5. ASSUME NEW s \in Senders, SendBegin(s) \/ SendEnd(s) PROVE OneUp' /\ Flow'
  <2>1. CASE UNCHANGED sock
    BY <1>0, <1>5, <2>1, QuietStep DEF SendBegin, SendEnd, OneUp, counts, readers
  <2>2. CASE SendEnd(s) /\ sock' = [sock EXCEPT ![sender[s]] = "shut"]
    <3>1. sender[s] \in Dialled
      BY <1>0, <2>2 DEF SendEnd, InOrder
    <3> QED
      BY <2>2, <3>1, SockStep DEF SendEnd
  <2> QED
    BY <1>5, <2>1, <2>2 DEF SendBegin, SendEnd, Shut, readers
<1>6. CASE CloseSwap \/ CloseTake
  BY <1>0, <1>6, QuietStep DEF CloseSwap, CloseTake, OneUp, counts, readers
<1>7. CASE CloseEnd
  <2>1. closed /\ closed' /\ closer # "none"
    BY <1>7 DEF CloseEnd, OneUp
  <2>2. CASE UNCHANGED sock
    BY <1>0, <1>7, <2>1, <2>2, QuietStep DEF CloseEnd, OneUp, counts, readers
  <2>3. CASE held # NoConn /\ sock' = [sock EXCEPT ![held] = "shut"]
    <3>1. held \in Dialled
      BY <1>0, <2>3 DEF InOrder
    <3>2. OneUp' /\ Flow'
      <4>1. Dialled' = Dialled /\ \A k \in Conns : sock'[k] = "up" => sock[k] = "up"
        BY <1>0, <2>3, <3>1, SockKeeps, ShutKeeps DEF Dialled
      <4>2. Flow'
        BY <1>0, <1>7, <4>1, ViaConn, StagesKeep DEF CloseEnd, counts
      <4>3. sock[conn] = "shut" => sock'[conn] = "shut"
        BY <1>0, <2>3, <3>1 DEF ConnTypes, WrapperTypes
      <4>4. OneUp'
        BY <1>7, <2>1, <4>1, <4>3 DEF CloseEnd, OneUp
      <4> QED
        BY <4>2, <4>4
    <3> QED
      BY <3>2
  <2> QED
    BY <1>7, <2>2, <2>3 DEF CloseEnd, Shut
<1>8. CASE Receive
  BY <1>8, ReceiveStep
<1> QED
  BY <1>1, <1>2, <1>3, <1>4, <1>5, <1>6, <1>7, <1>8 DEF Next, Close

\* Transport gets the frames of all connections in the order they were sent, none
\* twice, and all those of a connection that is up (pump, readLoop and supervise).
THEOREM IntactFrames == Spec => []FramesIntact
<1>1. Init => IInv /\ OneUp /\ Flow
  BY InitIInv, InitFlow
<1>2. IInv /\ OneUp /\ Flow /\ [Next]_vars => (IInv /\ OneUp /\ Flow)'
  BY IInvStep, FlowStep
<1>3. IInv /\ Flow => FramesIntact
  BY FlowIntact DEF IInv
<1> QED
  BY <1>1, <1>2, <1>3, PTL DEF Spec

===============================================================================
