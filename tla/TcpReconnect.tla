----------------------------- MODULE TcpReconnect -----------------------------
(***************************************************************************)
(* The TCP interface (internal/rns tcp.go and tcp_reconnect.go): a wrapper *)
(* that looks like one interface for ever and replaces its connection      *)
(* whenever that drops.                                                    *)
(*                                                                         *)
(* Every connection has a reader goroutine that fills its inbox.  One      *)
(* supervisor moves frames from the inbox of the current connection to the *)
(* outer inbox, and redials when the reader has ended.  Transport takes    *)
(* frames from the outer inbox, any goroutine may call Send, and Close     *)
(* ends it all.  A step is one channel operation, one critical section,    *)
(* one access to an atomic flag or one call of the socket.                 *)
(*                                                                         *)
(* Connections are numbered in the order they are dialled, frames in the   *)
(* order the other end sends them.  How long a backoff lasts is left out.  *)
(***************************************************************************)
EXTENDS Naturals, Sequences, SequencesExt, FiniteSets

CONSTANTS
  Senders,      \* goroutines that call Send
  NoConn,       \* a nil *TCPClient
  InnerCap,     \* capacity of TCPClient.inbox
  OuterCap,     \* capacity of ReconnectingTCPClient.inbox
  Runts,        \* frames shorter than a Reticulum header
  MaxConns,     \* bound: connections
  MaxFrames,    \* bound: frames received
  MaxSends,     \* bound: calls of Send
  MaxDialFails  \* bound: failed dials

Conns  == 1 .. MaxConns
Frames == 1 .. MaxFrames

ASSUME TcpAssumption ==
  /\ MaxConns \in Nat \ {0}
  /\ MaxFrames \in Nat
  /\ NoConn \notin Conns
  /\ InnerCap \in Nat \ {0}
  /\ OuterCap \in Nat \ {0}
  /\ Runts \subseteq Frames
  /\ MaxSends \in Nat
  /\ MaxDialFails \in Nat

VARIABLES
  \* the connections
  sock,       \* sock[c]: "none", "up", "silent" (dropped, and nobody told us), "eof" or "shut"
  wire,       \* wire[c]: frames the socket still holds
  reader,     \* reader[c]: readLoop is reading, has a frame in hand, or has ended
  inner,      \* inner[c]: TCPClient.inbox, and the frame in readLoop's hand last
  \* the wrapper
  cur,        \* r.cur
  closed,     \* r.closed
  stop,       \* r.done is closed
  inbox,      \* r.inbox, and the frame in pump's hand last
  sup,        \* where supervise is
  conn,       \* the connection supervise works on
  closer,     \* where Close is
  held,       \* the connection Close took from r.cur
  sender,     \* sender[s]: the connection Send works on
  \* history
  frames,     \* frames sent by the other end so far
  taken,      \* frames Transport has taken
  via,        \* via[f]: the connection frame f came by
  late,       \* connections made current after Close had begun
  sends, dialFails

readers == <<sock, wire, reader, inner>>
counts  == <<frames, taken, via, late, sends, dialFails>>
vars    == <<readers, cur, closed, stop, inbox, sup, conn, closer, held, sender, counts>>

\* The connections dialled so far.
Dialled == {c \in Conns : sock[c] # "none"}

\* TCPClient.Close.
Shut(c) == sock' = [sock EXCEPT ![c] = "shut"]

-----------------------------------------------------------------------------
\* DialReconnectingTCP has dialled the first connection.
Init ==
  /\ sock      = [c \in Conns |-> IF c = 1 THEN "up" ELSE "none"]
  /\ wire      = [c \in Conns |-> <<>>]
  /\ reader    = [c \in Conns |-> IF c = 1 THEN "read" ELSE "none"]
  /\ inner     = [c \in Conns |-> <<>>]
  /\ cur       = 1
  /\ closed    = FALSE
  /\ stop      = FALSE
  /\ inbox     = <<>>
  /\ sup       = "pump"
  /\ conn      = 1
  /\ closer    = "none"
  /\ held      = NoConn
  /\ sender    = [s \in Senders |-> NoConn]
  /\ frames    = 0
  /\ taken     = <<>>
  /\ via       = [f \in Frames |-> NoConn]
  /\ late      = {}
  /\ sends     = 0
  /\ dialFails = 0

-----------------------------------------------------------------------------
(* readLoop *)

\* NextFrame returns a frame; a runt is skipped.
ReadFrame(c) ==
  /\ reader[c] = "read"
  /\ wire[c] # <<>>
  /\ wire' = [wire EXCEPT ![c] = Tail(@)]
  /\ \/ /\ Head(wire[c]) \in Runts
        /\ UNCHANGED <<reader, inner>>
     \/ /\ Head(wire[c]) \notin Runts
        /\ reader' = [reader EXCEPT ![c] = "hand"]
        /\ inner'  = [inner EXCEPT ![c] = Append(@, Head(wire[c]))]
  /\ UNCHANGED <<sock, cur, closed, stop, inbox, sup, conn, closer, held, sender, counts>>

\* The frame goes into the inbox when there is room.  t.done cannot end the wait: only
\* readLoop itself closes it.
Enqueue(c) ==
  /\ reader[c] = "hand"
  /\ Len(inner[c]) <= InnerCap
  /\ reader' = [reader EXCEPT ![c] = "read"]
  /\ UNCHANGED <<sock, wire, inner, cur, closed, stop, inbox, sup, conn, closer, held, sender, counts>>

\* NextFrame returns an error: done and the inbox are closed.
ReadError(c) ==
  /\ reader[c] = "read"
  /\ sock[c] \in {"eof", "shut"}
  /\ reader' = [reader EXCEPT ![c] = "ended"]
  /\ UNCHANGED <<sock, wire, inner, cur, closed, stop, inbox, sup, conn, closer, held, sender, counts>>

\* The frames in the inbox of c, without the one in readLoop's hand.
Queued(c) == IF reader[c] = "hand" THEN Front(inner[c]) ELSE inner[c]

-----------------------------------------------------------------------------
(* supervise *)

\* pump takes a frame.
PumpTake ==
  /\ sup = "pump"
  /\ Queued(conn) # <<>>
  /\ inner' = [inner EXCEPT ![conn] = Tail(@)]
  /\ inbox' = Append(inbox, Head(inner[conn]))
  /\ sup'   = "push"
  /\ UNCHANGED <<sock, wire, reader, cur, closed, stop, conn, closer, held, sender, counts>>

\* Mutant of PumpPush: a frame that finds the outer inbox full is dropped.
PumpPushDrops ==
  /\ sup = "push"
  /\ \/ Len(inbox) <= OuterCap /\ sup' = "pump" /\ UNCHANGED inbox
     \/ Len(inbox) > OuterCap /\ sup' = "pump" /\ inbox' = Front(inbox)
  /\ UNCHANGED <<readers, cur, closed, stop, conn, closer, held, sender, counts>>

\* The frame goes into the outer inbox when there is room, or pump gives up with it.
PumpPush ==
  /\ sup = "push"
  /\ \/ Len(inbox) <= OuterCap /\ sup' = "pump" /\ UNCHANGED inbox
     \/ stop /\ sup' = "pumped" /\ inbox' = Front(inbox)
  /\ UNCHANGED <<readers, cur, closed, stop, conn, closer, held, sender, counts>>

\* pump returns: the reader has ended, even if frames are left, or Close was called.
PumpEnd ==
  /\ sup = "pump"
  /\ reader[conn] = "ended" \/ stop
  /\ sup' = "pumped"
  /\ UNCHANGED <<readers, cur, closed, stop, inbox, conn, closer, held, sender, counts>>

\* supervise returns, or withdraws the connection and closes it.
Withdraw ==
  /\ sup = "pumped"
  /\ \/ /\ closed
        /\ sup' = "stopped"
        /\ UNCHANGED <<sock, cur>>
     \/ /\ ~closed
        /\ sup' = "redial"
        /\ cur' = NoConn
        /\ Shut(conn)
  /\ UNCHANGED <<wire, reader, inner, closed, stop, inbox, conn, closer, held, sender, counts>>

\* Mutant of CheckClosed: the loop gives up when a dial has failed.
CheckClosedGivesUp ==
  /\ sup = "redial"
  /\ sup' = IF closed \/ dialFails > 0 THEN "stopped" ELSE "backoff"
  /\ UNCHANGED <<readers, cur, closed, stop, inbox, conn, closer, held, sender, counts>>

\* The loop asks r.closed, then waits.
CheckClosed ==
  /\ sup = "redial"
  /\ sup' = IF closed THEN "stopped" ELSE "backoff"
  /\ UNCHANGED <<readers, cur, closed, stop, inbox, conn, closer, held, sender, counts>>

\* The timer fires, or r.done is seen; with both, select takes either.
Backoff ==
  /\ sup = "backoff"
  /\ \/ sup' = "dial"
     \/ stop /\ sup' = "stopped"
  /\ UNCHANGED <<readers, cur, closed, stop, inbox, conn, closer, held, sender, counts>>

\* dial: a new connection with a reader of its own, or an error and another round.
Dial ==
  /\ sup = "dial"
  /\ \/ /\ Cardinality(Dialled) < MaxConns
        /\ conn'   = Cardinality(Dialled) + 1
        /\ sock'   = [sock EXCEPT ![conn'] = "up"]
        /\ reader' = [reader EXCEPT ![conn'] = "read"]
        /\ sup'    = "install"
        /\ UNCHANGED dialFails
     \/ /\ dialFails < MaxDialFails
        /\ dialFails' = dialFails + 1
        /\ sup' = "redial"
        /\ UNCHANGED <<conn, sock, reader>>
  /\ UNCHANGED <<wire, inner, cur, closed, stop, inbox, closer, held, sender, frames, taken, via, late, sends>>

\* The new connection becomes r.cur, without another look at r.closed.
Install ==
  /\ sup = "install"
  /\ cur'  = conn
  /\ late' = IF closer \in {"none", "swapped"} THEN late ELSE late \cup {conn}
  /\ sup'  = "pump"
  /\ UNCHANGED <<readers, closed, stop, inbox, conn, closer, held, sender, frames, taken, via, sends, dialFails>>

-----------------------------------------------------------------------------
(* Send *)

\* Send takes the current connection; without one, or after Close, it fails at once.
SendBegin(s) ==
  /\ sender[s] = NoConn
  /\ sends < MaxSends
  /\ ~closed
  /\ cur # NoConn
  /\ sender' = [sender EXCEPT ![s] = cur]
  /\ sends' = sends + 1
  /\ UNCHANGED <<readers, cur, closed, stop, inbox, sup, conn, closer, held, frames, taken, via, late, dialFails>>

\* The write succeeds, or fails and the connection is closed.  A socket that has
\* dropped may take a write or refuse it.
SendEnd(s) ==
  /\ sender[s] # NoConn
  /\ sender' = [sender EXCEPT ![s] = NoConn]
  /\ \/ sock[sender[s]] # "shut" /\ UNCHANGED sock
     \/ sock[sender[s]] # "up" /\ Shut(sender[s])
  /\ UNCHANGED <<wire, reader, inner, cur, closed, stop, inbox, sup, conn, closer, held, counts>>

-----------------------------------------------------------------------------
(* Close *)

\* The first Close sets r.closed; further calls return.
CloseSwap ==
  /\ closer = "none"
  /\ closer' = "swapped"
  /\ closed' = TRUE
  /\ UNCHANGED <<readers, cur, stop, inbox, sup, conn, held, sender, counts>>

\* It takes r.cur.
CloseTake ==
  /\ closer = "swapped"
  /\ closer' = "took"
  /\ held' = cur
  /\ cur'  = NoConn
  /\ UNCHANGED <<readers, closed, stop, inbox, sup, conn, sender, counts>>

\* Mutant of CloseEnd: the connection is left to the supervisor.
CloseEndDoneOnly ==
  /\ closer = "took"
  /\ closer' = "ended"
  /\ stop' = TRUE
  /\ UNCHANGED <<readers, cur, closed, inbox, sup, conn, held, sender, counts>>

\* It closes r.done and then the connection it took.
CloseEnd ==
  /\ closer = "took"
  /\ closer' = "ended"
  /\ stop' = TRUE
  /\ IF held # NoConn THEN Shut(held) ELSE UNCHANGED sock
  /\ UNCHANGED <<wire, reader, inner, cur, closed, inbox, sup, conn, held, sender, counts>>

-----------------------------------------------------------------------------
(* The environment *)

\* Transport.Run takes a frame from the outer inbox.
Receive ==
  LET there == IF sup = "push" THEN Front(inbox) ELSE inbox IN
  /\ there # <<>>
  /\ taken' = Append(taken, Head(there))
  /\ inbox' = Tail(inbox)
  /\ UNCHANGED <<readers, cur, closed, stop, sup, conn, closer, held, sender, frames, via, late, sends, dialFails>>

\* The other end sends a frame.
Arrive(c) ==
  /\ sock[c] = "up"
  /\ frames < MaxFrames
  /\ frames' = frames + 1
  /\ wire' = [wire EXCEPT ![c] = Append(@, frames')]
  /\ via'  = [via EXCEPT ![frames'] = c]
  /\ UNCHANGED <<sock, reader, inner, cur, closed, stop, inbox, sup, conn, closer, held, sender, taken, late, sends, dialFails>>

\* The connection drops, with an end of file or silently.  The last one dialled
\* under the bound does not.
Drop(c) ==
  /\ sock[c] = "up"
  /\ c < MaxConns
  /\ sock' = [sock EXCEPT ![c] = "eof"] \/ sock' = [sock EXCEPT ![c] = "silent"]
  /\ UNCHANGED <<wire, reader, inner, cur, closed, stop, inbox, sup, conn, closer, held, sender, counts>>

\* SO_KEEPALIVE finds a silent drop.
Probe(c) ==
  /\ sock[c] = "silent"
  /\ sock' = [sock EXCEPT ![c] = "eof"]
  /\ UNCHANGED <<wire, reader, inner, cur, closed, stop, inbox, sup, conn, closer, held, sender, counts>>

-----------------------------------------------------------------------------
ReadLoop(c) == ReadFrame(c) \/ Enqueue(c) \/ ReadError(c)
Supervise   == PumpTake \/ PumpPush \/ PumpEnd \/ Withdraw \/ CheckClosed \/ Backoff \/ Dial \/ Install
Close       == CloseTake \/ CloseEnd

Next ==
  \/ \E c \in Conns : ReadLoop(c) \/ Arrive(c) \/ Drop(c) \/ Probe(c)
  \/ Supervise
  \/ \E s \in Senders : SendBegin(s) \/ SendEnd(s)
  \/ CloseSwap
  \/ Close
  \/ Receive

Spec == Init /\ [][Next]_vars

\* Goroutines that can run do, Transport goes on taking frames, and the operating
\* system probes a silent connection.
Fairness ==
  /\ \A c \in Conns : WF_vars(ReadLoop(c)) /\ WF_vars(Probe(c))
  /\ WF_vars(Supervise)
  /\ WF_vars(Close)
  /\ WF_vars(Receive)

FairSpec == Spec /\ Fairness

-----------------------------------------------------------------------------
(* Properties *)

\* The types of the connections, of the wrapper and of the history.
ConnTypes ==
  /\ sock \in [Conns -> {"none", "up", "silent", "eof", "shut"}]
  /\ wire \in [Conns -> Seq(Frames)]
  /\ reader \in [Conns -> {"none", "read", "hand", "ended"}]
  /\ inner \in [Conns -> Seq(Frames)]
  /\ \A c \in Conns : Len(inner[c]) <= InnerCap + 1

WrapperTypes ==
  /\ cur \in Conns \cup {NoConn}
  /\ inbox \in Seq(Frames)
  /\ Len(inbox) <= OuterCap + 1
  /\ sup \in {"pump", "push", "pumped", "redial", "backoff", "dial", "install", "stopped"}
  /\ conn \in Conns
  /\ closer \in {"none", "swapped", "took", "ended"}
  /\ held \in Conns \cup {NoConn}
  /\ sender \in [Senders -> Conns \cup {NoConn}]

FlagTypes == closed \in BOOLEAN /\ stop \in BOOLEAN

HistoryTypes ==
  /\ frames \in 0 .. MaxFrames
  /\ taken \in Seq(Frames)
  /\ via \in [Frames -> Conns \cup {NoConn}]
  /\ late \subseteq Conns
  /\ sends \in 0 .. MaxSends
  /\ dialFails \in 0 .. MaxDialFails

TypeOK == ConnTypes /\ WrapperTypes /\ FlagTypes /\ HistoryTypes

\* The frames on their way to Transport, the oldest first.
Pipeline == taken \o inbox \o inner[conn] \o wire[conn]

\* Across all reconnects Transport gets the frames in the order they were sent, none
\* twice, and none of an old connection after one of its successor.  As long as a
\* connection is up no frame of it is lost, however full the inboxes are.
FramesIntact ==
  /\ \A i, j \in DOMAIN Pipeline : i < j => Pipeline[i] < Pipeline[j]
  /\ \A f \in 1 .. frames :
       ~closed /\ f \notin Runts /\ sock[via[f]] = "up" => f \in Range(Pipeline)

\* Until Close, the interface always comes back: after a drop that the reader, a
\* writer or the probes find, supervise makes a working connection current.  (README.md
\* 546-547 says so too; its section on limitations still denies it, 757-760.)
Reconnects == []<>(closed \/ (cur # NoConn /\ sock[cur] = "up"))

\* After Close the supervisor stops, every connection is closed and its reader ends,
\* but for a connection made current after Close had looked for one, as supervise was
\* dialling meanwhile, and a reader that waits for room in an inbox nobody empties any
\* more.
CloseStops ==
  closed ~> /\ sup = "stopped"
            /\ \A c \in Dialled \ late :
                 /\ sock[c] = "shut"
                 /\ reader[c] = "ended" \/ (reader[c] = "hand" /\ Len(inner[c]) > InnerCap)

=============================================================================
