------------------------------ MODULE ChatProofs ------------------------------
(***************************************************************************)
(* Proofs about Chat, for any users, messages, commands and crashes, any   *)
(* size of the history and of the cache.                                   *)
(*                                                                         *)
(* The invariant has a part for each message, Each(n), a part for each     *)
(* replay, Replays(j), and what ties them to the wire, the cache and the   *)
(* log.  A step concerns one message, or none: what it leaves of the       *)
(* others is Env and Apart, from which ApartKeeps gives Each of all of     *)
(* them at once, and Keeps and SameJoin give Replays likewise.             *)
(***************************************************************************)
EXTENDS Chat, IdMapProofs

-----------------------------------------------------------------------------
(* Types *)

Targeted == Inbound \cup {NoBubble}
Told     == {"", "over limit", "invite", "paused"}

\* A goroutine that has ended, that has looked nothing up, that has looked up what
\* the message is about, that fans out.
EndedG  == [pc : {"ended"}, told : Told, at : Nat, target : Targeted]
EarlyG  == [pc : {"member", "paused", "rewrite"}, at : Nat, moved : SUBSET Users,
            target : {NoBubble}]
BubbleG == [pc : {"bubble", "snapshot"}, at : Nat, moved : SUBSET Users,
            target : Targeted, reply : Targeted]
FanG    == [pc : {"fan"}, at : Nat, moved : SUBSET Users,
            target : Targeted, reply : Targeted, sent : BOOLEAN, todo : SUBSET Users]

Message == [msg : Inbound, from : Users, shape : Shape, dict : Ids \cup {NoId},
            reply : Ids \cup {NoId}]
Entry   == [n : Inbound, at : Nat]
Replay  == [user : Users, pc : {"read", "send", "ended"}, now : Nat, left : Seq(Entry),
            got : SUBSET Inbound, stayed : BOOLEAN, flying : SUBSET Inbound,
            gone : SUBSET Inbound]

PeopleTypes ==
  /\ roster \in [Users -> {"absent", "active", "paused"}]
  /\ textOnly \subseteq {u \in Users : roster[u] # "absent"}
  /\ banned \subseteq Users

WireTypes == wire \in Seq(Message) /\ Len(wire) <= MaxInbound

HandlerTypes == h \in [Inbound -> EndedG \cup EarlyG \cup BubbleG \cup FanG]

CopyTypes == copies \in [Inbound -> [Users -> Queued \cup Gone \cup {NoCopy}]]

CacheTypes == cache \in CacheOf(Users, Ids)

ReplayTypes == joins \in Seq(Replay)

CountTypes ==
  clock \in Nat /\ ticks \in Nat /\ cmds \in Nat /\ crashes \in Nat /\ saveFails \in Nat

PastTypes ==
  /\ hist \in Seq(Entry) /\ disk \in Seq(Entry) /\ log \in Seq(Entry)
  /\ Len(hist) <= Capacity /\ Len(disk) <= Capacity
  /\ Range(hist) \subseteq Range(log) /\ Range(disk) \subseteq Range(log)

Types ==
  /\ PeopleTypes /\ WireTypes /\ HandlerTypes /\ CopyTypes
  /\ CacheTypes /\ ReplayTypes /\ CountTypes /\ PastTypes

-----------------------------------------------------------------------------
(* The invariant: what holds of each message n *)

Sender(n) == wire[n].from

\* Nothing is known of a message that has not been received.
Unheard(n) ==
  n > Len(wire) =>
    h[n].pc = "ended" /\ h[n].target = NoBubble /\ \A u \in Users : copies[n][u] = NoCopy

\* Of a sender nothing happened to since his message came, every check still holds.
Gate(n) ==
  Running(n) /\ Sender(n) \notin h[n].moved =>
    /\ Sender(n) \notin banned
    /\ h[n].pc # "member" => roster[Sender(n)] # "absent"
    /\ h[n].pc \notin {"member", "paused"} => roster[Sender(n)] = "active"

\* Nobody has a copy before it is his turn, and the sender never has one.
Turns(n) ==
  /\ Running(n) => \A u \in Users :
       copies[n][u] = NoCopy \/ (Fanning(n) /\ u \notin h[n].todo)
  /\ Fanning(n) => Sender(n) \notin h[n].todo
  /\ n <= Len(wire) => copies[n][Sender(n)] = NoCopy

\* Past the attachment policy there is something to send.
Something(n) ==
  h[n].pc \in {"rewrite", "bubble", "snapshot", "fan"} => HasBody(n) \/ Filtered(n) # {}

\* id is an id of the message of bubble b.
About(id, b) ==
  /\ b \in 1 .. Len(wire)
  /\ id \in Ids
  /\ id[1] <= Len(wire)
  /\ MessageOf(id) = wire[b].msg

\* What a goroutine found is what the message is about, and its author has a view.
Found(n) ==
  /\ h[n].pc \in {"bubble", "snapshot", "fan"} =>
       /\ h[n].target # NoBubble =>
            /\ About(wire[n].dict, h[n].target)
            /\ Sender(h[n].target) \in DOMAIN cache.views[h[n].target]
       /\ h[n].reply # NoBubble => About(wire[n].reply, h[n].reply)
  /\ h[n].pc \in {"snapshot", "fan"} /\ Primary(n) => Sender(n) \in DOMAIN cache.views[n]

\* A copy whose id is to be recorded is of a bubble its author has a view of.
Pending(n) ==
  \A u \in Users :
    \/ copies[n][u] = NoCopy
    \/ copies[n][u].st = "done"
    \/ copies[n][u].st = "queued" /\ ~ copies[n][u].bubble
    \/ Sender(n) \in DOMAIN cache.views[n]

\* Whoever was active all the time is served or still to come.
Reached(n) ==
  \A u \in Users :
    Fanning(n) =>
      \/ u \in h[n].todo
      \/ copies[n][u] # NoCopy
      \/ u = Sender(n)
      \/ u \in h[n].moved \/ roster[u] # "active"
      \/ u \in textOnly /\ ~ HasBody(n)
      \/ h[n].target # NoBubble /\ wire[h[n].target].from # u

\* The parts of AnnotationBinds and EmptyMeansStripped about n.
Binds(n) ==
  \A u \in Users :
    copies[n][u] # NoCopy /\ copies[n][u].st = "queued" =>
      LET c == copies[n][u].with
      IN  /\ c.dict # NoId /\ h[n].target # NoBubble =>
               Addressed(u, c.dict) /\ MessageOf(c.dict) = MessageOf(wire[n].dict)
          /\ c.reply # NoId /\ Fanning(n) /\ h[n].reply # NoBubble =>
               Addressed(u, c.reply) /\ MessageOf(c.reply) = MessageOf(wire[n].reply)
          /\ c.dict # NoId /\ h[n].target # NoBubble => wire[n].dict \in Ids
          /\ c.reply # NoId /\ Fanning(n) /\ h[n].reply # NoBubble => wire[n].reply \in Ids

Strips(n) ==
  \A u \in Users :
    copies[n][u] # NoCopy /\ copies[n][u].st = "queued" /\ crashes = 0 =>
      \/ copies[n][u].body \/ copies[n][u].with.fields # {}
      \/ Filtered(n) = {"reply"} /\ wire[n].reply # NoId

\* A member who joined and stayed is served by every later fan-out.
Later(n) ==
  \A j \in DOMAIN joins :
    joins[j].stayed /\ Fanning(n) =>
      \/ n \in joins[j].flying
      \/ joins[j].user \in h[n].todo
      \/ copies[n][joins[j].user] # NoCopy
      \/ Sender(n) = joins[j].user
      \/ h[n].target # NoBubble
      \/ ~ HasBody(n)

Each(n) ==
  /\ Unheard(n) /\ Gate(n) /\ Turns(n) /\ Something(n) /\ Found(n) /\ Pending(n)
  /\ Reached(n) /\ Binds(n) /\ Strips(n) /\ Later(n)

-----------------------------------------------------------------------------
(* The invariant: the rest *)

\* A message that is repeated has the sender of the first, which comes before it; the
\* ids in it are of messages received before.
Wired ==
  \A n \in 1 .. Len(wire) :
    /\ wire[n].msg \in 1 .. n
    /\ wire[wire[n].msg].msg = wire[n].msg
    /\ wire[wire[n].msg].from = wire[n].from
    /\ wire[n].dict # NoId => wire[n].dict[1] <= Len(wire)
    /\ wire[n].reply # NoId => wire[n].reply[1] <= Len(wire)

\* The author's view is recorded first; a view is the id under which the member was
\* sent the message.
Views ==
  \A b \in Inbound : \A u \in DOMAIN cache.views[b] :
    /\ b <= Len(wire)
    /\ Sender(b) \in DOMAIN cache.views[b]
    /\ cache.views[b][u] = <<IF u = Sender(b) THEN wire[b].msg ELSE b, u>>
    /\ u = Sender(b) \/ Sent(b, u)

Cached == Anchored(cache) /\ Bounded(cache)

\* What is in the log was said in a text, by a goroutine that has ended.
LogEnded ==
  \A n \in Messages(log) : n <= Len(wire) /\ wire[n].shape.text /\ h[n].pc = "ended"

\* While every write succeeds the history, in memory and on disk, is the end of the log.
LogKept ==
  saveFails = 0 => hist = LastOf(log, Capacity) /\ disk = hist

\* Who joined and stayed is active.
Stays == \A j \in DOMAIN joins : joins[j].stayed => roster[joins[j].user] = "active"

\* Message n is with the member of join j, or not owed to him.
Served(j, n) ==
  \/ copies[n][joins[j].user] # NoCopy
  \/ n \in joins[j].got
  \/ wire[n].from = joins[j].user
  \/ n \in joins[j].gone
  \/ n \in joins[j].flying
  \/ h[n].target # NoBubble

\* What is in the log is served or left to send, once a replay has read the history.
Replays(j) ==
  /\ joins[j].pc = "ended" /\ joins[j].stayed => joins[j].left = <<>>
  /\ joins[j].pc = "send" => joins[j].left # <<>>
  /\ joins[j].pc # "read" /\ joins[j].stayed /\ saveFails = 0 =>
       \A n \in Messages(log) : Served(j, n) \/ n \in Messages(joins[j].left)

IInv ==
  /\ Types
  /\ \A n \in Inbound : Each(n)
  /\ Wired /\ Views /\ Cached /\ LogEnded /\ LogKept /\ Stays
  /\ \A j \in DOMAIN joins : Replays(j)

-----------------------------------------------------------------------------
(* Steps *)

\* The messages received stay.
Grows ==
  /\ Len(wire) <= Len(wire')
  /\ \A n \in 1 .. Len(wire) : wire'[n] = wire[n]

\* Views, messages and what was sent stay.
Env ==
  /\ Grows
  /\ \A b \in Inbound : DOMAIN cache.views[b] \subseteq DOMAIN cache'.views[b]
  /\ \A n \in Inbound, u \in Users : Sent(n, u) => Sent(n, u)'
  /\ crashes' \in {crashes, crashes + 1}

\* The goroutine of n is where it was; it may have noted that somebody moved.
Like(n) ==
  /\ h'[n].pc = h[n].pc
  /\ h'[n].target = h[n].target
  /\ h[n].pc \in {"bubble", "snapshot", "fan"} => h'[n].reply = h[n].reply
  /\ h[n].pc = "fan" => h'[n].todo = h[n].todo
  /\ h[n].pc # "ended" => h[n].moved \subseteq h'[n].moved

\* The step does not concern n: who changed was noted, who joined is not owed it.
Apart(n) ==
  /\ Like(n)
  /\ copies'[n] = copies[n]
  /\ h[n].pc # "ended" => \A u \in Users \ h'[n].moved :
       /\ roster'[u] = roster[u]
       /\ u \in banned' => u \in banned
       /\ u \in textOnly => u \in textOnly'
  /\ \A j \in DOMAIN joins' : joins'[j].stayed =>
       \/ /\ j \in DOMAIN joins
          /\ joins[j].stayed
          /\ joins'[j].user = joins[j].user
          /\ joins'[j].flying = joins[j].flying
       \/ h[n].pc = "fan" => n \in joins'[j].flying

\* A message that was dealt with stays so, and a copy stays.
Keeps ==
  /\ Grows
  /\ \A n \in 1 .. Len(wire) :
       h[n].pc = "ended" => h'[n].pc = "ended" /\ h'[n].target = h[n].target
  /\ \A n \in Inbound, u \in Users : copies[n][u] # NoCopy => copies'[n][u] # NoCopy

\* Join j goes on where it was, or is followed no further.
SameJoin(j) ==
  /\ j \in DOMAIN joins
  /\ joins'[j].user = joins[j].user
  /\ joins'[j].pc = joins[j].pc
  /\ joins'[j].left = joins[j].left
  /\ joins'[j].got = joins[j].got
  /\ joins'[j].gone = joins[j].gone
  /\ joins'[j].flying = joins[j].flying
  /\ joins'[j].stayed => joins[j].stayed

-----------------------------------------------------------------------------
(* Lemmas *)

\* The record of a goroutine by where it is.
LEMMA Kinds ==
  ASSUME HandlerTypes, NEW n \in Inbound
  PROVE  /\ h[n].pc \in {"ended", "member", "paused", "rewrite", "bubble", "snapshot", "fan"}
         /\ h[n].pc = "ended" => h[n] \in EndedG
         /\ h[n].pc \in {"member", "paused", "rewrite"} => h[n] \in EarlyG
         /\ h[n].pc \in {"bubble", "snapshot"} => h[n] \in BubbleG
         /\ h[n].pc = "fan" => h[n] \in FanG
         /\ h[n].target \in Targeted
         /\ h[n].at \in Nat
         /\ h[n].pc # "ended" => h[n].moved \in SUBSET Users
BY DEF HandlerTypes, EndedG, EarlyG, BubbleG, FanG, Targeted

\* A message that was received.
LEMMA Received ==
  ASSUME WireTypes, NEW n \in 1 .. Len(wire)
  PROVE  /\ n \in Inbound
         /\ wire[n] \in Message
         /\ wire[n].msg \in Inbound /\ wire[n].from \in Users /\ wire[n].shape \in Shape
         /\ wire[n].dict \in Ids \cup {NoId} /\ wire[n].reply \in Ids \cup {NoId}
<1>1. n \in Inbound /\ wire[n] \in Message
  BY NumberAssumption DEF WireTypes, Inbound
<1> QED
  BY <1>1 DEF Message

\* A copy is absent, queued or gone.
LEMMA CopyKinds ==
  ASSUME CopyTypes, NEW n \in Inbound, NEW u \in Users
  PROVE  /\ copies[n][u] \in Queued \cup Gone \cup {NoCopy}
         /\ copies[n][u] # NoCopy => copies[n][u].st \in {"queued", "sent", "done"}
         /\ copies[n][u] # NoCopy /\ copies[n][u].st = "queued" => copies[n][u] \in Queued
BY DEF CopyTypes, Queued, Gone

\* A goroutine that runs has a message.
LEMMA RunningHeard ==
  ASSUME Types, NEW n \in Inbound, Unheard(n), Running(n)
  PROVE  n \in 1 .. Len(wire)
BY NumberAssumption DEF Unheard, Running, Types, WireTypes, Inbound

\* What a message is made of stays.
LEMMA ShapeStays ==
  ASSUME Grows, NEW n \in 1 .. Len(wire)
  PROVE  /\ wire'[n] = wire[n] /\ n \in 1 .. Len(wire')
         /\ Sender(n)' = Sender(n)
         /\ HasBody(n)' = HasBody(n) /\ Filtered(n)' = Filtered(n)
         /\ Primary(n)' = Primary(n)
<1>1. wire'[n] = wire[n] /\ n \in 1 .. Len(wire')
  BY DEF Grows
<1> QED
  BY <1>1 DEF Sender, HasBody, Noted, Filtered, Primary

\* An id somebody knows a message by stays his, and stands for the same message.
LEMMA AddressedStays ==
  ASSUME Types, Env, NEW u \in Users, NEW id \in Ids, Addressed(u, id)
  PROVE  Addressed(u, id)' /\ MessageOf(id)' = MessageOf(id)
<1>1. id[1] \in Inbound /\ id[1] \in 1 .. Len(wire) /\ id[2] = u
  BY NumberAssumption DEF Addressed, Ids, Inbound
<1>2. wire'[id[1]] = wire[id[1]] /\ id[1] <= Len(wire')
  BY <1>1 DEF Env, Grows, Types, WireTypes
<1>3. Sent(id[1], u) => Sent(id[1], u)'
  BY <1>1 DEF Env
<1>4. id' = id
  OBVIOUS
<1> QED
  BY <1>1, <1>2, <1>3 DEF Addressed, MessageOf

\* What an id is about stays.
LEMMA AboutStays ==
  ASSUME Grows, WireTypes, WireTypes', NEW id, NEW b, About(id, b)
  PROVE  About(id, b)'
<1>1. id[1] \in 1 .. Len(wire) /\ b \in 1 .. Len(wire)
  BY NumberAssumption DEF About, Ids, Inbound
<1>2. wire'[id[1]] = wire[id[1]] /\ wire'[b] = wire[b]
  BY <1>1 DEF Grows
<1> QED
  BY <1>1, <1>2 DEF About, MessageOf, Grows, WireTypes

\* The message an id stands for stays.
LEMMA IdStays ==
  ASSUME Grows
  PROVE  \A id \in Ids : id[1] <= Len(wire) => wire'[id[1]] = wire[id[1]]
<1> SUFFICES ASSUME NEW id \in Ids, id[1] <= Len(wire)
             PROVE  wire'[id[1]] = wire[id[1]]
  OBVIOUS
<1>1. id[1] \in 1 .. Len(wire)
  BY NumberAssumption DEF Ids, Inbound
<1> QED
  BY <1>1 DEF Grows

\* What does not concern n leaves what holds of it.
LEMMA ApartKeeps ==
  ASSUME Types, Types', Env, Wired, NEW n \in Inbound, Apart(n), Each(n)
  PROVE  Each(n)'
<1>1. /\ Len(wire) \in Nat /\ Len(wire') \in Nat /\ Len(wire) <= Len(wire') /\ n \in Nat
      /\ n > Len(wire) \/ n \in 1 .. Len(wire)
  BY NumberAssumption DEF Env, Grows, Types, WireTypes, Inbound
<1>2. Like(n) /\ copies'[n] = copies[n]
  BY DEF Apart
<1>3. Unheard(n)'
  BY <1>1, <1>2 DEF Each, Unheard, Like
<1>4. CASE n > Len(wire)
  <2>1. h[n].pc = "ended" /\ h'[n].pc = "ended" /\ \A u \in Users : copies[n][u] = NoCopy
    BY <1>2, <1>4 DEF Each, Unheard, Like
  <2>2. \A u \in Users : copies'[n][u] = NoCopy
    BY <1>2, <2>1
  <2>3. n <= Len(wire') => Sender(n)' \in Users
    <3>1. n <= Len(wire') => n \in 1 .. Len(wire')
      BY <1>1, <1>4
    <3>2. n <= Len(wire') => wire'[n] \in Message
      BY <3>1 DEF Types, WireTypes
    <3> QED
      BY <3>2 DEF Message, Sender
  <2> QED
    BY <1>3, <2>1, <2>2, <2>3 DEF Each, Gate, Turns, Something, Found, Pending, Reached,
       Binds, Strips, Later, Running, Fanning
<1>5. CASE n \in 1 .. Len(wire)
  <2>1. /\ wire'[n] = wire[n] /\ n \in 1 .. Len(wire')
        /\ Sender(n)' = Sender(n)
        /\ HasBody(n)' = HasBody(n) /\ Filtered(n)' = Filtered(n)
        /\ Primary(n)' = Primary(n)
    BY <1>5, ShapeStays DEF Env
  <2>2. Sender(n) \in Users
    BY <1>5, Received DEF Types, Sender
  <2>3. Gate(n)'
    BY <2>1, <2>2 DEF Each, Gate, Apart, Like, Running
  <2>4. Turns(n)'
    BY <1>1, <1>2, <1>5, <2>1 DEF Each, Turns, Like, Running, Fanning
  <2>5. Something(n)'
    BY <1>2, <2>1 DEF Each, Something, Like
  <2>6. Found(n)'
    <3>1. ASSUME NEW b, b \in 1 .. Len(wire), Sender(b) \in DOMAIN cache.views[b]
          PROVE  Sender(b)' \in DOMAIN cache'.views[b]
      <4>1. b \in Inbound /\ Sender(b)' = Sender(b)
        BY <3>1, ShapeStays, Received DEF Env, Types
      <4> QED
        BY <3>1, <4>1 DEF Env
    <3>2. ASSUME NEW id, NEW b, About(id, b)
          PROVE  About(id, b)' /\ b \in 1 .. Len(wire)
      BY <3>2, AboutStays DEF Env, Types, About
    <3>3. h'[n].pc \in {"bubble", "snapshot", "fan"} =>
            /\ h'[n].target # NoBubble =>
                 /\ About(wire[n].dict, h[n].target)'
                 /\ Sender(h[n].target)' \in DOMAIN cache'.views[h[n].target]
            /\ h'[n].reply # NoBubble => About(wire[n].reply, h[n].reply)'
      BY <1>2, <2>1, <3>1, <3>2 DEF Each, Found, Like
    <3> QED
      BY <1>2, <1>5, <2>1, <3>1, <3>3 DEF Each, Found, Like
  <2>7. Pending(n)'
    BY <1>2, <2>1 DEF Each, Pending, Env
  <2>8. Reached(n)'
    <3>1. Fanning(n) /\ h[n].target # NoBubble => wire'[h[n].target] = wire[h[n].target]
      BY ShapeStays DEF Each, Found, About, Fanning, Env
    <3> QED
      BY <1>2, <2>1, <3>1 DEF Each, Reached, Apart, Like, Fanning
  <2>9. Binds(n)'
    <3> SUFFICES ASSUME NEW u \in Users, copies[n][u] # NoCopy, copies[n][u].st = "queued"
                 PROVE  LET c == copies[n][u].with
                        IN  /\ c.dict # NoId /\ h[n].target # NoBubble =>
                                 /\ Addressed(u, c.dict)'
                                 /\ MessageOf(c.dict)' = MessageOf(wire[n].dict)'
                                 /\ wire[n].dict \in Ids
                            /\ c.reply # NoId /\ Fanning(n) /\ h[n].reply # NoBubble =>
                                 /\ Addressed(u, c.reply)'
                                 /\ MessageOf(c.reply)' = MessageOf(wire[n].reply)'
                                 /\ wire[n].reply \in Ids
      BY <1>2, <2>1 DEF Binds, Like, Fanning
    <3> DEFINE c == copies[n][u].with
    <3>1. c.dict \in Ids \cup {NoId} /\ c.reply \in Ids \cup {NoId} /\ c' = c
      BY <1>2, CopyKinds DEF Queued, Content, Types
    <3>2. /\ wire[n].dict \in Ids => MessageOf(wire[n].dict)' = MessageOf(wire[n].dict)
          /\ wire[n].reply \in Ids => MessageOf(wire[n].reply)' = MessageOf(wire[n].reply)
      <4>1. wire[n].dict' = wire[n].dict /\ wire[n].reply' = wire[n].reply
        BY <2>1
      <4>2. /\ wire[n].dict \in Ids => wire[n].dict[1] <= Len(wire)
            /\ wire[n].reply \in Ids => wire[n].reply[1] <= Len(wire)
        BY <1>5, AbsenceAssumption DEF Wired
      <4>3. /\ wire[n].dict \in Ids => wire'[wire[n].dict[1]] = wire[wire[n].dict[1]]
            /\ wire[n].reply \in Ids => wire'[wire[n].reply[1]] = wire[wire[n].reply[1]]
        BY <4>2, IdStays DEF Env
      <4> QED
        BY <4>1, <4>3 DEF MessageOf
    <3>3. c.dict # NoId /\ h[n].target # NoBubble =>
            /\ Addressed(u, c.dict) /\ MessageOf(c.dict) = MessageOf(wire[n].dict)
            /\ wire[n].dict \in Ids
      BY DEF Each, Binds
    <3>4. c.reply # NoId /\ Fanning(n) /\ h[n].reply # NoBubble =>
            /\ Addressed(u, c.reply) /\ MessageOf(c.reply) = MessageOf(wire[n].reply)
            /\ wire[n].reply \in Ids
      BY DEF Each, Binds
    <3>5. /\ Addressed(u, c.dict) /\ c.dict \in Ids =>
               Addressed(u, c.dict)' /\ MessageOf(c.dict)' = MessageOf(c.dict)
          /\ Addressed(u, c.reply) /\ c.reply \in Ids =>
               Addressed(u, c.reply)' /\ MessageOf(c.reply)' = MessageOf(c.reply)
      <4> DEFINE d == c.dict
                 r == c.reply
      <4>1. d' = d /\ r' = r
        BY <3>1
      <4>2. ASSUME NEW CONSTANT id \in Ids, Addressed(u, id)
            PROVE  Addressed(u, id)' /\ MessageOf(id)' = MessageOf(id)
        BY <4>2, AddressedStays
      <4> HIDE DEF d, r
      <4> QED
        BY <4>1, <4>2 DEF Addressed, MessageOf, d, r
    <3> QED
      BY <3>1, <3>2, <3>3, <3>4, <3>5
  <2>10. Strips(n)'
    BY <1>2, <2>1 DEF Each, Strips, Env, Types, CountTypes
  <2>11. Later(n)'
    BY <1>2, <2>1 DEF Each, Later, Apart, Like, Fanning
  <2> QED
    BY <1>3, <2>3, <2>4, <2>5, <2>6, <2>7, <2>8, <2>9, <2>10, <2>11 DEF Each
<1> QED
  BY <1>1, <1>4, <1>5

\* What is in the log is a message that was received.
LEMMA LogHeard ==
  ASSUME Types, LogEnded, NEW n \in Messages(log)
  PROVE  n \in 1 .. Len(wire) /\ n \in Inbound
<1>1. n \in Inbound
  <2>1. PICK i \in DOMAIN log : n = log[i].n
    BY DEF Messages
  <2>2. log[i] \in Entry
    BY <2>1 DEF Types, PastTypes
  <2> QED
    BY <2>1, <2>2 DEF Entry
<1> QED
  BY <1>1, NumberAssumption DEF LogEnded, Inbound

\* The log still holds what it says.
LEMMA LogEndedKeeps ==
  ASSUME Types, LogEnded, Keeps, log' = log
  PROVE  LogEnded'
<1> SUFFICES ASSUME NEW n \in Messages(log)
             PROVE  n <= Len(wire') /\ wire'[n].shape.text /\ h'[n].pc = "ended"
  BY DEF LogEnded, Messages
<1>1. n \in 1 .. Len(wire) /\ n \in Inbound
  BY LogHeard
<1>2. wire'[n] = wire[n] /\ Len(wire) <= Len(wire')
  BY <1>1 DEF Keeps, Grows
<1>3. wire[n].shape.text /\ h[n].pc = "ended"
  BY DEF LogEnded
<1> QED
  BY <1>1, <1>2, <1>3 DEF Keeps, Types, WireTypes

\* A member keeps what he was served.
LEMMA ServedStays ==
  ASSUME Types, LogEnded, Keeps, NEW j, SameJoin(j), NEW n \in Messages(log),
         joins[j].user \in Users, Served(j, n)
  PROVE  Served(j, n)'
<1>1. n \in 1 .. Len(wire) /\ n \in Inbound
  BY LogHeard
<1>2. wire'[n] = wire[n]
  BY <1>1 DEF Keeps, Grows
<1>3. h[n].pc = "ended"
  BY DEF LogEnded
<1>4. h'[n].target = h[n].target
  BY <1>1, <1>3 DEF Keeps
<1>5. copies[n][joins[j].user] # NoCopy => copies'[n][joins[j].user] # NoCopy
  BY <1>1 DEF Keeps
<1> QED
  BY <1>2, <1>4, <1>5 DEF Served, SameJoin

\* A replay the step does not concern.
LEMMA ReplayKeeps ==
  ASSUME Types, LogEnded, Keeps, NEW j, SameJoin(j), Replays(j),
         log' = log, saveFails' = 0 => saveFails = 0
  PROVE  Replays(j)'
<1>1. joins[j].user \in Users
  <2>1. joins[j] \in Replay
    BY DEF SameJoin, Types, ReplayTypes
  <2> QED
    BY <2>1 DEF Replay
<1>2. \A n \in Messages(log) : Served(j, n) => Served(j, n)'
  BY <1>1, ServedStays
<1> QED
  BY <1>2 DEF Replays, SameJoin, Messages

\* Views stay what they are.
LEMMA ViewsKeep ==
  ASSUME Types, Env, Views, cache'.views = cache.views
  PROVE  Views'
<1> SUFFICES ASSUME NEW b \in Inbound, NEW u \in DOMAIN cache.views[b]
             PROVE  /\ b <= Len(wire')
                    /\ Sender(b)' \in DOMAIN cache.views[b]
                    /\ cache.views[b][u] = <<IF u = Sender(b)' THEN wire'[b].msg ELSE b, u>>
                    /\ u = Sender(b)' \/ Sent(b, u)'
  BY DEF Views
<1>1. b \in 1 .. Len(wire)
  BY NumberAssumption DEF Views, Inbound
<1>2. u \in Users
  BY NumberAssumption, CacheFields, MapFacts DEF Types, CacheTypes, Inbound
<1>3. wire'[b] = wire[b] /\ b <= Len(wire') /\ Sender(b)' = Sender(b)
  BY <1>1, ShapeStays DEF Env
<1> QED
  BY <1>2, <1>3 DEF Views, Env

-----------------------------------------------------------------------------
(* Commands *)

\* Who is touched is noted by every goroutine, which is otherwise where it was.
LEMMA TouchedFacts ==
  ASSUME HandlerTypes, NEW u \in Users, h' = Touched(u)
  PROVE  /\ HandlerTypes'
         /\ \A n \in Inbound :
              Like(n) /\ (h[n].pc # "ended" => h'[n].moved = h[n].moved \cup {u})
<1> SUFFICES ASSUME NEW n \in Inbound
             PROVE  /\ h'[n] \in EndedG \cup EarlyG \cup BubbleG \cup FanG
                    /\ Like(n) /\ (h[n].pc # "ended" => h'[n].moved = h[n].moved \cup {u})
  BY DEF HandlerTypes, Touched
<1>1. h'[n] = IF Running(n) THEN [h[n] EXCEPT !.moved = @ \cup {u}] ELSE h[n]
  BY DEF Touched
<1>2. CASE h[n].pc = "ended"
  BY <1>1, <1>2 DEF HandlerTypes, Running, Like
<1>3. CASE h[n].pc \in {"member", "paused", "rewrite"}
  <2>1. h[n] \in EarlyG
    BY <1>3, Kinds
  <2> QED
    BY <1>1, <1>3, <2>1 DEF EarlyG, Running, Like
<1>4. CASE h[n].pc \in {"bubble", "snapshot"}
  <2>1. h[n] \in BubbleG
    BY <1>4, Kinds
  <2> QED
    BY <1>1, <1>4, <2>1 DEF BubbleG, Running, Like
<1>5. CASE h[n].pc = "fan"
  <2>1. h[n] \in FanG
    BY <1>5, Kinds
  <2> QED
    BY <1>1, <1>5, <2>1 DEF FanG, Running, Like
<1> QED
  BY <1>2, <1>3, <1>4, <1>5, Kinds

\* Who left is followed no further.
LEMMA LeftFacts ==
  ASSUME ReplayTypes, NEW u \in Users, joins' = Left(u)
  PROVE  /\ ReplayTypes'
         /\ DOMAIN joins' = DOMAIN joins
         /\ \A j \in DOMAIN joins : /\ SameJoin(j)
                                    /\ joins'[j].stayed => joins[j].user # u
<1>1. DOMAIN joins' = DOMAIN joins /\ DOMAIN joins = 1 .. Len(joins) /\ Len(joins) \in Nat
  BY DEF Left, ReplayTypes
<1>2. ASSUME NEW j \in DOMAIN joins
      PROVE  /\ joins'[j] \in Replay
             /\ SameJoin(j)
             /\ joins'[j].stayed => joins[j].user # u
  <2>1. joins[j] \in Replay
    BY DEF ReplayTypes
  <2>2. joins'[j] = IF joins[j].user = u THEN [joins[j] EXCEPT !.stayed = FALSE] ELSE joins[j]
    BY DEF Left
  <2> QED
    BY <2>1, <2>2 DEF Replay, SameJoin
<1>3. joins' \in [1 .. Len(joins) -> Replay]
  <2>1. joins' = [j \in 1 .. Len(joins) |-> joins'[j]]
    BY <1>1 DEF Left
  <2> QED
    BY <1>1, <1>2, <2>1
<1> QED
  BY <1>1, <1>2, <1>3 DEF ReplayTypes

\* A change to the roster: the one it touches is noted by every goroutine, and he is
\* followed further only if he stays active.
LEMMA PeopleStep ==
  ASSUME IInv, NEW u \in Users, h' = Touched(u), PeopleTypes',
         \A v \in Users \ {u} : /\ roster'[v] = roster[v]
                                /\ v \in banned' => v \in banned
                                /\ v \in textOnly => v \in textOnly',
         joins' = Left(u) \/ (joins' = joins /\ roster' = roster),
         cmds' = cmds + 1, UNCHANGED <<wire, copies, cache, past, time, crashes>>
  PROVE  IInv'
<1>1. /\ HandlerTypes'
      /\ \A n \in Inbound :
           Like(n) /\ (h[n].pc # "ended" => h'[n].moved = h[n].moved \cup {u})
  BY TouchedFacts DEF IInv, Types
<1>2. /\ ReplayTypes' /\ DOMAIN joins' = DOMAIN joins
      /\ \A j \in DOMAIN joins : SameJoin(j)
      /\ Stays'
  <2>1. CASE joins' = joins /\ roster' = roster
    BY <2>1 DEF IInv, Types, ReplayTypes, SameJoin, Stays
  <2>2. CASE joins' = Left(u)
    <3>1. /\ ReplayTypes' /\ DOMAIN joins' = DOMAIN joins
          /\ \A j \in DOMAIN joins : SameJoin(j) /\ (joins'[j].stayed => joins[j].user # u)
      BY <2>2, LeftFacts DEF IInv, Types
    <3>2. \A j \in DOMAIN joins : joins[j].user \in Users
      <4>1. \A j \in DOMAIN joins : joins[j] \in Replay
        BY DEF IInv, Types, ReplayTypes
      <4> QED
        BY <4>1 DEF Replay
    <3>3. Stays'
      BY <3>1, <3>2 DEF IInv, Stays, SameJoin
    <3> QED
      BY <3>1, <3>3
  <2> QED
    BY <2>1, <2>2
<1>3. Types'
  BY <1>1, <1>2 DEF IInv, Types, WireTypes, CopyTypes, CacheTypes, CountTypes, PastTypes,
     past, time
<1>4. Env
  BY DEF Env, Grows, IInv, Types, WireTypes, Sent
<1>5. Keeps
  <2>1. \A n \in 1 .. Len(wire) : n \in Inbound
    BY Received DEF IInv, Types
  <2> QED
    BY <1>1, <2>1 DEF Keeps, Grows, IInv, Types, WireTypes, Like
<1>6. \A n \in Inbound : Apart(n)
  BY <1>1, <1>2 DEF Apart, SameJoin
<1>7. \A n \in Inbound : Each(n)'
  BY <1>3, <1>4, <1>6, ApartKeeps DEF IInv
<1>8. LogEnded'
  BY <1>5, LogEndedKeeps DEF IInv, past
<1>9. \A j \in DOMAIN joins' : Replays(j)'
  BY <1>2, <1>5, ReplayKeeps DEF IInv, past
<1>10. Views'
  BY <1>4, ViewsKeep DEF IInv
<1>11. Wired' /\ Cached' /\ LogKept'
  BY DEF IInv, Wired, Cached, LogKept, past
<1> QED
  BY <1>2, <1>3, <1>7, <1>8, <1>9, <1>10, <1>11 DEF IInv

\* The commands but /join.
LEMMA CommandStep ==
  ASSUME IInv, NEW u \in Users,
         RemoveMember(u) \/ SetPaused(u) \/ SetTextOnly(u) \/ Ban(u)
  PROVE  IInv'
<1>1. CASE RemoveMember(u)
  <2>1. PeopleTypes'
    BY <1>1 DEF IInv, Types, PeopleTypes, RemoveMember
  <2>2. \A v \in Users \ {u} :
          /\ roster'[v] = roster[v]
          /\ v \in banned' => v \in banned
          /\ v \in textOnly => v \in textOnly'
    BY <1>1 DEF IInv, Types, PeopleTypes, RemoveMember
  <2> QED
    BY <1>1, <2>1, <2>2, PeopleStep DEF RemoveMember, Command
<1>2. CASE SetPaused(u)
  <2>1. PeopleTypes'
    BY <1>2 DEF IInv, Types, PeopleTypes, SetPaused
  <2>2. \A v \in Users \ {u} :
          /\ roster'[v] = roster[v]
          /\ v \in banned' => v \in banned
          /\ v \in textOnly => v \in textOnly'
    BY <1>2 DEF IInv, Types, PeopleTypes, SetPaused
  <2> QED
    BY <1>2, <2>1, <2>2, PeopleStep DEF SetPaused, Command
<1>3. CASE SetTextOnly(u)
  <2>1. PeopleTypes'
    BY <1>3 DEF IInv, Types, PeopleTypes, SetTextOnly
  <2>2. \A v \in Users \ {u} :
          /\ roster'[v] = roster[v]
          /\ v \in banned' => v \in banned
          /\ v \in textOnly => v \in textOnly'
    BY <1>3 DEF IInv, Types, PeopleTypes, SetTextOnly
  <2> QED
    BY <1>3, <2>1, <2>2, PeopleStep DEF SetTextOnly, Command
<1>4. CASE Ban(u)
  <2>1. PeopleTypes'
    BY <1>4 DEF IInv, Types, PeopleTypes, Ban
  <2>2. \A v \in Users \ {u} :
          /\ roster'[v] = roster[v]
          /\ v \in banned' => v \in banned
          /\ v \in textOnly => v \in textOnly'
    BY <1>4 DEF IInv, Types, PeopleTypes, Ban
  <2> QED
    BY <1>4, <2>1, <2>2, PeopleStep DEF Ban, Command
<1> QED
  BY <1>1, <1>2, <1>3, <1>4

\* /join: what is being fanned out is not owed, nor what is in the log.
LEMMA JoinStep ==
  ASSUME IInv, NEW u \in Users, Join(u)
  PROVE  IInv'
<1> DEFINE new == [user |-> u, pc |-> IF ReplayCount > 0 THEN "read" ELSE "ended", now |-> clock,
                   left |-> <<>>, got |-> {}, stayed |-> TRUE,
                   flying |-> {n \in Inbound : Fanning(n)},
                   gone |-> Messages(log)]
<1>0. PICK N : N = Len(joins) + 1
  OBVIOUS
<1>1. /\ HandlerTypes'
      /\ \A n \in Inbound :
           Like(n) /\ (h[n].pc # "ended" => h'[n].moved = h[n].moved \cup {u})
  BY TouchedFacts DEF IInv, Types, Join
<1>2. PeopleTypes' /\ \A v \in Users \ {u} : roster'[v] = roster[v]
  BY DEF IInv, Types, PeopleTypes, Join
<1>3. new \in Replay
  <2>1. Messages(log) \subseteq Inbound
    BY LogHeard DEF IInv
  <2>2. <<>> \in Seq(Entry)
    OBVIOUS
  <2> QED
    BY <2>1, <2>2 DEF Replay, IInv, Types, CountTypes
<1> HIDE DEF new
<1>4. /\ joins' = Append(joins, new)
      /\ joins \in Seq(Replay)
  BY DEF Join, new, IInv, Types, ReplayTypes
<1>5. /\ joins' \in Seq(Replay)
      /\ DOMAIN joins' = DOMAIN joins \cup {N}
      /\ joins'[N] = new
      /\ N \notin DOMAIN joins
      /\ \A j \in DOMAIN joins : joins'[j] = joins[j]
  BY <1>0, <1>3, <1>4
<1>6. \A j \in DOMAIN joins : SameJoin(j)
  BY <1>5 DEF SameJoin
<1>7. Types'
  <2>1. ReplayTypes'
    BY <1>5 DEF ReplayTypes
  <2>2. WireTypes' /\ CopyTypes' /\ CacheTypes'
    BY DEF IInv, Types, WireTypes, CopyTypes, CacheTypes, Join
  <2>3. CountTypes'
    <3>1. CountTypes /\ cmds' = cmds + 1 /\ saveFails' = saveFails /\ UNCHANGED <<time, crashes>>
      BY DEF IInv, Types, Join, Command, past
    <3> QED
      BY <3>1 DEF CountTypes, time
  <2>4. PastTypes'
    <3>1. PastTypes /\ UNCHANGED past
      BY DEF IInv, Types, Join
    <3> QED
      BY <3>1 DEF PastTypes, past
  <2> QED
    BY <1>1, <1>2, <2>1, <2>2, <2>3, <2>4 DEF Types
<1>8. Env
  BY DEF Env, Grows, IInv, Types, WireTypes, Sent, Join
<1>9. Keeps
  <2>1. \A n \in 1 .. Len(wire) : n \in Inbound
    BY Received DEF IInv, Types
  <2> QED
    BY <1>1, <2>1 DEF Keeps, Grows, IInv, Types, WireTypes, Like, Join
<1>10. \A n \in Inbound : Apart(n)
  <2> SUFFICES ASSUME NEW n \in Inbound PROVE Apart(n)
    OBVIOUS
  <2>1. \A j \in DOMAIN joins' : joins'[j].stayed =>
       \/ /\ j \in DOMAIN joins
          /\ joins[j].stayed
          /\ joins'[j].user = joins[j].user
          /\ joins'[j].flying = joins[j].flying
       \/ h[n].pc = "fan" => n \in joins'[j].flying
    BY <1>5 DEF new, Fanning
  <2> QED
    BY <1>1, <1>2, <2>1 DEF Apart, Join
<1>11. \A n \in Inbound : Each(n)'
  BY <1>7, <1>8, <1>10, ApartKeeps DEF IInv
<1>12. LogEnded'
  BY <1>9, LogEndedKeeps DEF IInv, past, Join
<1>13. \A j \in DOMAIN joins' : Replays(j)'
  <2>1. \A j \in DOMAIN joins : Replays(j)'
    BY <1>6, <1>9, ReplayKeeps DEF IInv, past, Join
  <2>2. Replays(N)'
    <3>1. /\ joins'[N].left = <<>> /\ joins'[N].pc # "send"
          /\ joins'[N].gone = Messages(log) /\ log' = log
      BY <1>5 DEF new, Join, past
    <3> QED
      BY <3>1 DEF Replays, Served, Messages
  <2> QED
    BY <1>5, <2>1, <2>2
<1>14. Views'
  BY <1>8, ViewsKeep DEF IInv, Join
<1>15. Stays'
  <2>1. \A j \in DOMAIN joins : joins[j].stayed => joins[j].user \in Users /\ joins[j].user # u
    <3>1. \A j \in DOMAIN joins : joins[j] \in Replay
      BY <1>4
    <3>2. roster[u] = "absent"
      BY DEF Join
    <3> QED
      BY <3>1, <3>2 DEF IInv, Stays, Replay
  <2>2. roster'[u] = "active"
    BY DEF Join, IInv, Types, PeopleTypes
  <2> QED
    BY <1>2, <1>5, <2>1, <2>2 DEF Stays, IInv, new
<1>16. Wired' /\ Cached' /\ LogKept'
  BY DEF IInv, Wired, Cached, LogKept, past, Join
<1> QED
  BY <1>7, <1>11, <1>12, <1>13, <1>14, <1>15, <1>16 DEF IInv

-----------------------------------------------------------------------------
(* The clock and the replay *)

\* A step of the clock.
LEMMA TickStep ==
  ASSUME IInv, Tick
  PROVE  IInv'
<1>1. Types'
  BY DEF IInv, Types, Tick, PeopleTypes, WireTypes, HandlerTypes, CopyTypes, CacheTypes,
     ReplayTypes, CountTypes, PastTypes, people, past
<1>2. Env /\ Keeps
  BY DEF Env, Keeps, Grows, IInv, Types, WireTypes, Sent, Tick
<1>3. \A n \in Inbound : Apart(n)
  BY DEF Apart, Like, Tick, people
<1>4. \A n \in Inbound : Each(n)'
  BY <1>1, <1>2, <1>3, ApartKeeps DEF IInv
<1>5. LogEnded'
  BY <1>2, LogEndedKeeps DEF IInv, past, Tick
<1>6. \A j \in DOMAIN joins' : Replays(j)'
  <2>1. \A j \in DOMAIN joins : SameJoin(j)
    BY DEF SameJoin, Tick
  <2> QED
    BY <1>2, <2>1, ReplayKeeps DEF IInv, past, Tick
<1>7. Views'
  BY <1>2, ViewsKeep DEF IInv, Tick
<1>8. Wired' /\ Cached' /\ LogKept' /\ Stays'
  BY DEF IInv, Wired, Cached, LogKept, Stays, past, people, Tick
<1> QED
  BY <1>1, <1>4, <1>5, <1>6, <1>7, <1>8 DEF IInv

\* A step of one replay that keeps whom it serves and what it need not.
LEMMA ReplayStep ==
  ASSUME IInv, NEW j \in DOMAIN joins,
         joins' \in [DOMAIN joins -> Replay],
         \A k \in DOMAIN joins : k # j => joins'[k] = joins[k],
         joins'[j].user = joins[j].user,
         joins'[j].flying = joins[j].flying,
         joins'[j].stayed = joins[j].stayed,
         Replays(j)',
         UNCHANGED <<people, wire, h, copies, cache, past, counters>>
  PROVE  IInv'
<1>1. joins' \in Seq(Replay) /\ DOMAIN joins' = DOMAIN joins
  <2>1. DOMAIN joins = 1 .. Len(joins) /\ Len(joins) \in Nat
    BY DEF IInv, Types, ReplayTypes
  <2> QED
    BY <2>1
<1>2. Types'
  BY <1>1 DEF IInv, Types, PeopleTypes, WireTypes, HandlerTypes, CopyTypes, CacheTypes,
     ReplayTypes, CountTypes, PastTypes, people, past, counters, time
<1>3. Env /\ Keeps
  BY DEF Env, Keeps, Grows, IInv, Types, WireTypes, Sent, counters
<1>4. \A n \in Inbound : Apart(n)
  BY <1>1 DEF Apart, Like, people
<1>5. \A n \in Inbound : Each(n)'
  BY <1>2, <1>3, <1>4, ApartKeeps DEF IInv
<1>6. LogEnded'
  BY <1>3, LogEndedKeeps DEF IInv, past
<1>7. \A k \in DOMAIN joins' : Replays(k)'
  <2>1. \A k \in DOMAIN joins : k # j => SameJoin(k)
    BY <1>1 DEF SameJoin
  <2> QED
    BY <1>1, <1>3, <2>1, ReplayKeeps DEF IInv, past
<1>8. Views'
  BY <1>3, ViewsKeep DEF IInv
<1>9. Wired' /\ Cached' /\ LogKept' /\ Stays'
  BY <1>1 DEF IInv, Wired, Cached, LogKept, Stays, past, people
<1> QED
  BY <1>2, <1>5, <1>6, <1>7, <1>8, <1>9 DEF IInv

\* The elements of the end of a sequence.
LEMMA LastOfFacts ==
  ASSUME NEW S, NEW s \in Seq(S), NEW k \in Nat \ {0}
  PROVE  /\ LastOf(s, k) \in Seq(S)
         /\ Len(LastOf(s, k)) = IF Len(s) > k THEN k ELSE Len(s)
         /\ \A i \in 1 .. Len(LastOf(s, k)) :
              LastOf(s, k)[i] = s[i + Len(s) - Len(LastOf(s, k))]
<1>1. CASE Len(s) > k
  <2> DEFINE m == Len(s) - k + 1
  <2>1. m \in 1 .. Len(s) /\ Len(s) - m + 1 = k /\ Len(s) - k = m - 1
    BY <1>1
  <2>2. LastOf(s, k) = SubSeq(s, m, Len(s))
    BY <1>1 DEF LastOf
  <2> HIDE DEF m
  <2>3. /\ SubSeq(s, m, Len(s)) \in Seq(S)
        /\ Len(SubSeq(s, m, Len(s))) = k
    BY <2>1
  <2>4. \A i \in 1 .. k : SubSeq(s, m, Len(s))[i] = s[i + m - 1]
    BY <2>1
  <2>5. \A i \in 1 .. k : i + Len(s) - k = i + m - 1
    BY <2>1
  <2>6. Len(LastOf(s, k)) = k /\ LastOf(s, k) \in Seq(S)
    BY <2>2, <2>3
  <2>7. \A i \in 1 .. k : LastOf(s, k)[i] = s[i + Len(s) - k]
    BY <2>2, <2>4, <2>5
  <2> QED
    BY <1>1, <2>6, <2>7
<1>2. CASE ~ (Len(s) > k)
  <2>1. LastOf(s, k) = SubSeq(s, 1, Len(s))
    BY <1>2 DEF LastOf
  <2>2. SubSeq(s, 1, Len(s)) = s
    OBVIOUS
  <2>3. \A i \in 1 .. Len(s) : i + Len(s) - Len(s) = i
    OBVIOUS
  <2> QED
    BY <1>2, <2>1, <2>2, <2>3
<1> QED
  BY <1>1, <1>2

\* They are the last ones.
LEMMA LastOfRange ==
  ASSUME NEW S, NEW s \in Seq(S), NEW k \in Nat \ {0}
  PROVE  /\ Range(LastOf(s, k)) \subseteq Range(s)
         /\ \A i \in DOMAIN s : i > Len(s) - k => s[i] \in Range(LastOf(s, k))
<1> DEFINE t == LastOf(s, k)
<1>1. /\ t \in Seq(S)
      /\ Len(t) = IF Len(s) > k THEN k ELSE Len(s)
      /\ \A i \in 1 .. Len(t) : t[i] = s[i + Len(s) - Len(t)]
  BY LastOfFacts
<1> HIDE DEF t
<1>0. Len(s) \in Nat /\ Len(t) \in Nat /\ DOMAIN s = 1 .. Len(s) /\ DOMAIN t = 1 .. Len(t)
  BY <1>1
<1>2. \A i \in 1 .. Len(t) : i + Len(s) - Len(t) \in DOMAIN s /\ t[i] = s[i + Len(s) - Len(t)]
  <2>1. Len(t) = IF Len(s) > k THEN k ELSE Len(s)
    BY <1>1
  <2>2. Len(t) <= Len(s)
    BY <1>0, <2>1
  <2>3. \A i \in 1 .. Len(t) : i + Len(s) - Len(t) \in 1 .. Len(s)
    BY <1>0, <2>2
  <2> QED
    BY <1>0, <1>1, <2>3, Zenon
<1>3. Range(t) \subseteq Range(s)
  <2> SUFFICES ASSUME NEW i \in 1 .. Len(t) PROVE t[i] \in Range(s)
    BY <1>1 DEF Range
  <2> QED
    BY <1>2, Zenon DEF Range
<1>4. ASSUME NEW i \in DOMAIN s, i > Len(s) - k
      PROVE  s[i] \in Range(t)
  <2>1. PICK m \in Int : m = i - Len(s) + Len(t)
    BY <1>0
  <2>2. m \in 1 .. Len(t) /\ m + Len(s) - Len(t) = i
    BY <1>0, <1>1, <1>4, <2>1
  <2>3. t[m] = s[i] /\ m \in DOMAIN t
    BY <1>0, <1>2, <2>2
  <2> QED
    BY <2>3, Zenon DEF Range
<1> QED
  BY <1>3, <1>4 DEF t

\* The end of a sequence can be kept up to date without the rest.
LEMMA LastOfAppend ==
  ASSUME NEW S, NEW s \in Seq(S), NEW e \in S, NEW k \in Nat \ {0}
  PROVE  LastOf(Append(LastOf(s, k), e), k) = LastOf(Append(s, e), k)
<1> DEFINE t == LastOf(s, k)
           a == LastOf(Append(t, e), k)
           b == LastOf(Append(s, e), k)
<1>1. /\ t \in Seq(S)
      /\ Len(t) = IF Len(s) > k THEN k ELSE Len(s)
      /\ \A i \in 1 .. Len(t) : t[i] = s[i + Len(s) - Len(t)]
  BY LastOfFacts
<1> HIDE DEF t
<1>2. /\ Append(t, e) \in Seq(S) /\ Len(Append(t, e)) = Len(t) + 1
      /\ \A i \in 1 .. (Len(t) + 1) : Append(t, e)[i] = IF i = Len(t) + 1 THEN e ELSE t[i]
  BY <1>1
<1>3. /\ Append(s, e) \in Seq(S) /\ Len(Append(s, e)) = Len(s) + 1
      /\ \A i \in 1 .. (Len(s) + 1) : Append(s, e)[i] = IF i = Len(s) + 1 THEN e ELSE s[i]
  OBVIOUS
<1>4. /\ a \in Seq(S)
      /\ Len(a) = IF Len(t) + 1 > k THEN k ELSE Len(t) + 1
      /\ \A i \in 1 .. Len(a) : a[i] = Append(t, e)[i + (Len(t) + 1) - Len(a)]
  <2>1. /\ a \in Seq(S)
        /\ Len(a) = IF Len(Append(t, e)) > k THEN k ELSE Len(Append(t, e))
        /\ \A i \in 1 .. Len(a) : a[i] = Append(t, e)[i + Len(Append(t, e)) - Len(a)]
    BY <1>2, LastOfFacts
  <2> QED
    BY <1>2, <2>1
<1>5. /\ b \in Seq(S)
      /\ Len(b) = IF Len(s) + 1 > k THEN k ELSE Len(s) + 1
      /\ \A i \in 1 .. Len(b) : b[i] = Append(s, e)[i + (Len(s) + 1) - Len(b)]
  <2>1. /\ b \in Seq(S)
        /\ Len(b) = IF Len(Append(s, e)) > k THEN k ELSE Len(Append(s, e))
        /\ \A i \in 1 .. Len(b) : b[i] = Append(s, e)[i + Len(Append(s, e)) - Len(b)]
    BY <1>3, LastOfFacts
  <2> QED
    BY <1>3, <2>1
<1> HIDE DEF a, b
<1>0. /\ Len(s) \in Nat /\ Len(t) \in Nat /\ Len(a) \in Nat /\ Len(b) \in Nat
      /\ Len(t) = IF Len(s) > k THEN k ELSE Len(s)
      /\ Len(a) = IF Len(t) + 1 > k THEN k ELSE Len(t) + 1
      /\ Len(b) = IF Len(s) + 1 > k THEN k ELSE Len(s) + 1
  BY <1>1, <1>4, <1>5
<1>6. Len(a) = Len(b)
  BY <1>1, <1>4, <1>5
<1>7. ASSUME NEW i \in 1 .. Len(a)
      PROVE  a[i] = b[i]
  <2>0. i + (Len(t) + 1) - Len(a) \in Int /\ i + (Len(s) + 1) - Len(b) \in Int /\ i \in 1 .. Len(b)
    BY <1>0, <1>6
  <2>1. PICK x \in Int, y \in Int : x = i + (Len(t) + 1) - Len(a) /\ y = i + (Len(s) + 1) - Len(b)
    BY <2>0, Zenon
  <2>2. /\ x \in 1 .. (Len(t) + 1) /\ y \in 1 .. (Len(s) + 1)
        /\ x = Len(t) + 1 <=> y = Len(s) + 1
        /\ x # Len(t) + 1 => x \in 1 .. Len(t) /\ y = x + Len(s) - Len(t)
    <3> DEFINE ls == Len(s)
               lt == Len(t)
               la == Len(a)
               lb == Len(b)
    <3>1. /\ ls \in Nat /\ lt \in Nat /\ la \in Nat /\ lb \in Nat /\ i \in 1 .. la
          /\ lt = IF ls > k THEN k ELSE ls
          /\ la = IF lt + 1 > k THEN k ELSE lt + 1
          /\ lb = IF ls + 1 > k THEN k ELSE ls + 1
          /\ x = i + (lt + 1) - la /\ y = i + (ls + 1) - lb
      BY <1>0, <2>1
    <3> HIDE DEF ls, lt, la, lb
    <3>2. /\ x \in 1 .. (lt + 1) /\ y \in 1 .. (ls + 1)
          /\ x = lt + 1 <=> y = ls + 1
          /\ x # lt + 1 => x \in 1 .. lt /\ y = x + ls - lt
      BY <3>1
    <3> QED
      BY <3>2 DEF ls, lt
  <2>3. a[i] = Append(t, e)[x] /\ b[i] = Append(s, e)[y]
    BY <1>4, <1>5, <1>6, <2>1
  <2>4. CASE x = Len(t) + 1
    BY <1>2, <1>3, <2>2, <2>3, <2>4
  <2>5. CASE x # Len(t) + 1
    <3>1. x \in 1 .. Len(t) /\ y = x + Len(s) - Len(t)
      BY <2>2, <2>5
    <3>2. t[x] = s[y]
      BY <1>1, <3>1
    <3> QED
      BY <1>2, <1>3, <2>2, <2>3, <2>5, <3>2
  <2> QED
    BY <2>4, <2>5
<1>8. a = b
  <2>1. a = [i \in 1 .. Len(a) |-> a[i]] /\ b = [i \in 1 .. Len(b) |-> b[i]]
    BY <1>4, <1>5
  <2> QED
    BY <1>6, <1>7, <2>1
<1> QED
  BY <1>8 DEF a, b, t

\* The entries of a replay: the ones at or after the cutoff.
LEMMA RecentFacts ==
  ASSUME NEW es \in Seq(Entry), NEW now \in Nat
  PROVE  /\ Recent(es, now) \in Seq(Entry)
         /\ \A e \in Range(es) :
              MaxAge = 0 \/ e.at >= now - MaxAge => e \in Range(Recent(es, now))
BY OnlyRange DEF Recent

\* A message of an entry of a sequence is one of its messages.
LEMMA InMessages ==
  ASSUME NEW s, NEW e \in Range(s)
  PROVE  e.n \in Messages(s)
BY DEF Range, Messages

\* The messages of entries are message numbers.
LEMMA MessagesTyped ==
  ASSUME NEW s \in Seq(Entry)
  PROVE  Messages(s) \subseteq Inbound
<1>1. \A i \in DOMAIN s : s[i] \in Entry
  OBVIOUS
<1> QED
  BY <1>1 DEF Messages, Entry

\* The history has room for one entry at least.
LEMMA CapacityPositive == Capacity \in Nat \ {0}
BY NumberAssumption DEF Capacity

\* While every write succeeded, a replay finds in the history what it owes.
LEMMA DueRead ==
  ASSUME Types, LogKept, saveFails = 0, NEW now \in Nat
  PROVE  Due(now) \subseteq Messages(Recent(hist, now))
<1> SUFFICES ASSUME NEW k \in DOMAIN log, k > Len(log) - Capacity,
                    MaxAge > 0 => now - log[k].at <= MaxAge
             PROVE  log[k].n \in Messages(Recent(hist, now))
  BY DEF Due
<1>1. log \in Seq(Entry) /\ hist \in Seq(Entry) /\ log[k] \in Entry
  BY DEF Types, PastTypes
<1>2. log[k] \in Range(hist)
  BY <1>1, LastOfRange, CapacityPositive DEF LogKept
<1>3. log[k].at \in Nat
  BY <1>1 DEF Entry
<1>4. MaxAge = 0 \/ log[k].at >= now - MaxAge
  BY <1>3, NumberAssumption
<1>5. log[k] \in Range(Recent(hist, now))
  BY <1>1, <1>2, <1>4, RecentFacts
<1> QED
  BY <1>5, InMessages

\* A replay reads the history.
LEMMA ReadStep ==
  ASSUME IInv, NEW j \in DOMAIN joins, ReplayRead(j)
  PROVE  IInv'
<1> DEFINE now == joins[j].now
           rec == Recent(hist, now)
           owed == Messages(log) \ Due(now)
           pc == IF rec = <<>> THEN "ended" ELSE "send"
<1>1. joins[j] \in Replay /\ joins \in [DOMAIN joins -> Replay] /\ now \in Nat
  <2>1. joins \in [DOMAIN joins -> Replay]
    BY DEF IInv, Types, ReplayTypes
  <2> QED
    BY <2>1 DEF Replay
<1>2. rec \in Seq(Entry) /\ owed \in SUBSET Inbound
  <2>1. hist \in Seq(Entry) /\ log \in Seq(Entry)
    BY DEF IInv, Types, PastTypes
  <2> QED
    BY <1>1, <2>1, RecentFacts, MessagesTyped
<1>3. /\ joins' = [joins EXCEPT ![j].pc = pc, ![j].left = rec, ![j].gone = owed]
      /\ joins[j].pc = "read"
      /\ UNCHANGED <<people, wire, h, copies, cache, past, counters>>
  BY DEF ReplayRead
<1>4. pc \in {"ended", "send"} /\ (pc = "ended" <=> rec = <<>>)
  OBVIOUS
<1> HIDE DEF pc
<1>5. saveFails = 0 => Due(now) \subseteq Messages(rec)
  BY <1>1, DueRead DEF IInv
<1> HIDE DEF rec
<1>6. Messages(log) \subseteq owed \cup Due(now)
  OBVIOUS
<1> HIDE DEF owed, now
<1>7. /\ joins' \in [DOMAIN joins -> Replay]
      /\ \A k \in DOMAIN joins : k # j => joins'[k] = joins[k]
      /\ joins'[j].user = joins[j].user
      /\ joins'[j].flying = joins[j].flying
      /\ joins'[j].stayed = joins[j].stayed
      /\ joins'[j].pc = pc
      /\ joins'[j].left = rec
      /\ joins'[j].gone = owed
  BY <1>1, <1>2, <1>3, <1>4 DEF Replay
<1>8. Replays(j)'
  <2>1. pc # "read" /\ log' = log /\ saveFails' = saveFails
    BY <1>3, <1>4 DEF past
  <2>2. saveFails = 0 => \A n \in Messages(log) : n \in owed \/ n \in Messages(rec)
    BY <1>5, <1>6
  <2>3. saveFails = 0 => \A n \in Messages(log) : Served(j, n)' \/ n \in Messages(rec)
    BY <1>7, <2>2 DEF Served
  <2> QED
    BY <1>4, <1>7, <2>1, <2>3 DEF Replays, Messages
<1> QED
  BY <1>3, <1>7, <1>8, ReplayStep

\* A replay sends its next entry.
LEMMA SendStep ==
  ASSUME IInv, NEW j \in DOMAIN joins, ReplaySend(j)
  PROVE  IInv'
<1> DEFINE left == joins[j].left
           pc == IF Len(left) = 1 THEN "ended" ELSE "send"
           got == joins[j].got \cup {Head(left).n}
<1>1. joins[j] \in Replay /\ joins \in [DOMAIN joins -> Replay] /\ left \in Seq(Entry)
  <2>1. joins \in [DOMAIN joins -> Replay]
    BY DEF IInv, Types, ReplayTypes
  <2> QED
    BY <2>1 DEF Replay
<1>2. left # <<>> /\ joins[j].pc = "send"
  BY DEF ReplaySend, IInv, Replays
<1>3. /\ Tail(left) \in Seq(Entry) /\ Head(left) \in Entry
      /\ Tail(left) = <<>> <=> Len(left) = 1
      /\ \A i \in DOMAIN left : i = 1 \/ (i - 1 \in DOMAIN Tail(left) /\ Tail(left)[i - 1] = left[i])
      /\ Head(left) = left[1]
  <2> HIDE DEF left
  <2>1. left \in Seq(Entry) /\ left # <<>>
    BY <1>1, <1>2
  <2>2. /\ Tail(left) \in Seq(Entry) /\ Head(left) = left[1] /\ Len(left) \in Nat \ {0}
        /\ Len(Tail(left)) = Len(left) - 1 /\ DOMAIN left = 1 .. Len(left)
        /\ DOMAIN Tail(left) = 1 .. (Len(left) - 1)
        /\ \A i \in 1 .. (Len(left) - 1) : Tail(left)[i] = left[i + 1]
    BY <2>1
  <2>3. Tail(left) = <<>> <=> Len(left) = 1
    <3> DEFINE s == Tail(left)
    <3>1. s \in Seq(Entry) /\ Len(s) = Len(left) - 1 /\ Len(left) \in Nat
      BY <2>2
    <3> HIDE DEF s
    <3>2. s = <<>> <=> Len(s) = 0
      BY <3>1, EmptySeq
    <3>3. s = <<>> <=> Len(left) = 1
      BY <3>1, <3>2
    <3> QED
      BY <3>3 DEF s
  <2>4. \A i \in 1 .. Len(left) :
          i = 1 \/ (i - 1 \in 1 .. (Len(left) - 1) /\ (i - 1) + 1 = i)
    BY <2>2
  <2>5. left[1] \in Entry
    BY <2>1, <2>2
  <2> QED
    BY <2>2, <2>3, <2>4, <2>5
<1>4. Messages(left) \subseteq Messages(Tail(left)) \cup {Head(left).n}
  <2> HIDE DEF left
  <2>1. ASSUME NEW i \in DOMAIN left
        PROVE  left[i].n = Head(left).n \/ \E k \in DOMAIN Tail(left) : left[i].n = Tail(left)[k].n
    <3>1. CASE i = 1
      BY <1>3, <3>1, Zenon
    <3>2. CASE i # 1
      BY <1>3, <3>2, Zenon
    <3> QED
      BY <3>1, <3>2
  <2> QED
    BY <2>1, Zenon DEF Messages
<1>5. /\ joins' = [joins EXCEPT ![j].pc = pc, ![j].left = Tail(left), ![j].got = got]
      /\ UNCHANGED <<people, wire, h, copies, cache, past, counters>>
  BY DEF ReplaySend
<1>6. got \in SUBSET Inbound
  BY <1>1, <1>3 DEF Replay, Entry
<1>7. pc \in {"ended", "send"} /\ (pc = "ended" <=> Len(left) = 1)
  OBVIOUS
<1> HIDE DEF pc, got, left
<1>8. /\ joins' \in [DOMAIN joins -> Replay]
      /\ \A k \in DOMAIN joins : k # j => joins'[k] = joins[k]
      /\ joins'[j].user = joins[j].user
      /\ joins'[j].flying = joins[j].flying
      /\ joins'[j].stayed = joins[j].stayed
      /\ joins'[j].gone = joins[j].gone
      /\ joins'[j].pc = pc
      /\ joins'[j].left = Tail(left)
      /\ joins'[j].got = got
  BY <1>1, <1>3, <1>5, <1>6, <1>7 DEF Replay
<1>9. Replays(j)'
  <2>1. pc # "read" /\ log' = log /\ saveFails' = saveFails /\ UNCHANGED <<wire, copies, h>>
    BY <1>5, <1>7 DEF past
  <2>2. joins[j].stayed /\ saveFails = 0 =>
          \A n \in Messages(log) : Served(j, n) \/ n \in Messages(left)
    BY <1>2 DEF IInv, Replays, left
  <2>3. joins[j].stayed /\ saveFails = 0 =>
          \A n \in Messages(log) : Served(j, n)' \/ n \in Messages(Tail(left))
    BY <1>4, <1>8, <2>1, <2>2 DEF Served, got
  <2> QED
    BY <1>3, <1>7, <1>8, <2>1, <2>3 DEF Replays, Messages
<1> QED
  BY <1>5, <1>8, <1>9, ReplayStep

-----------------------------------------------------------------------------
(* A message arrives *)

\* A goroutine starts for a message that is new or repeats one.
LEMMA ArrivesStep ==
  ASSUME IInv, NEW w \in Message, Arrives(w),
         \/ w.msg = Len(wire) + 1
         \/ w.msg \in 1 .. Len(wire) /\ wire[w.msg].msg = w.msg /\ wire[w.msg].from = w.from,
         w.dict # NoId => w.dict[1] <= Len(wire),
         w.reply # NoId => w.reply[1] <= Len(wire)
  PROVE  IInv'
<1>0. PICK n : n = Len(wire) + 1
  OBVIOUS
<1> DEFINE g == IF w.from \in banned THEN Ended("", clock, NoBubble)
                ELSE [pc |-> "member", at |-> clock, moved |-> {}, target |-> NoBubble]
<1>1. /\ n \in Inbound /\ n \in Nat /\ Len(wire) \in Nat
      /\ wire' = Append(wire, w)
      /\ h' = [h EXCEPT ![n] = g]
      /\ UNCHANGED <<people, copies, cache, past, joins, counters>>
  <2>1. Len(wire) \in Nat
    BY DEF IInv, Types, WireTypes
  <2>2. n <= MaxInbound
    BY <1>0 DEF Arrives
  <2>3. n \in Inbound /\ n \in Nat
    BY <1>0, <2>1, <2>2, NumberAssumption DEF Inbound
  <2>4. /\ wire' = Append(wire, w)
        /\ h' = [h EXCEPT ![n] = g]
        /\ UNCHANGED <<people, copies, cache, past, joins, counters>>
    BY <1>0, Zenon DEF Arrives
  <2> QED
    BY <1>0, <2>1, <2>3, <2>4, Zenon
<1>2. /\ wire' \in Seq(Message) /\ Len(wire') = n /\ wire'[n] = w
      /\ \A k \in 1 .. Len(wire) : wire'[k] = wire[k]
      /\ n <= MaxInbound
  <2>1. wire \in Seq(Message)
    BY DEF IInv, Types, WireTypes
  <2>2. n <= MaxInbound
    BY <1>0 DEF Arrives
  <2>3. wire' = Append(wire, w)
    BY <1>1
  <2> QED
    BY <1>0, <2>1, <2>2, <2>3
<1>3. /\ g \in EndedG \cup EarlyG
      /\ g.pc \in {"ended", "member"} /\ g.target = NoBubble
      /\ g.pc = "member" => w.from \notin banned
  <2>1. clock \in Nat
    BY DEF IInv, Types, CountTypes
  <2>2. CASE w.from \in banned
    <3>1. PICK what \in Told : what = ""
      BY Zenon DEF Told
    <3>2. g = Ended(what, clock, NoBubble)
      BY <2>2, <3>1, Zenon
    <3> HIDE DEF g
    <3> QED
      BY <2>1, <2>2, <3>2 DEF Ended, EndedG, Targeted
  <2>3. CASE w.from \notin banned
    BY <2>1, <2>3 DEF EarlyG
  <2> QED
    BY <2>2, <2>3
<1> HIDE DEF g
<1>4. /\ HandlerTypes' /\ h'[n] = g
      /\ \A k \in Inbound : k # n => h'[k] = h[k]
  BY <1>1, <1>3 DEF IInv, Types, HandlerTypes
<1>5. Types'
  BY <1>1, <1>2, <1>4 DEF IInv, Types, PeopleTypes, WireTypes, CopyTypes, CacheTypes,
     ReplayTypes, CountTypes, PastTypes, people, past, counters, time
<1>6. Grows
  BY <1>0, <1>1, <1>2 DEF Grows
<1>7. Env /\ Keeps
  <2>1. \A k \in 1 .. Len(wire) : k # n /\ k \in Inbound
    BY <1>0, <1>1, Received DEF IInv, Types
  <2> QED
    BY <1>1, <1>4, <1>6, <2>1 DEF Env, Keeps, Sent, counters
<1>8. ASSUME NEW k \in Inbound, k # n
      PROVE  Each(k)'
  <2>1. Apart(k)
    BY <1>1, <1>4, <1>8 DEF Apart, Like, people
  <2> QED
    BY <1>5, <1>7, <2>1, ApartKeeps DEF IInv
<1>9. Each(n)'
  <2>1. n > Len(wire)
    BY <1>0, <1>1
  <2>2. \A u \in Users : copies[n][u] = NoCopy /\ copies'[n][u] = NoCopy
    BY <1>1, <2>1 DEF IInv, Each, Unheard
  <2>3. Sender(n)' = w.from /\ w.from \in Users
    BY <1>2 DEF Sender, Message
  <2>4. h'[n].pc \in {"ended", "member"} /\ (h'[n].pc = "member" => w.from \notin banned')
    BY <1>1, <1>3, <1>4 DEF people
  <2> QED
    BY <1>2, <2>2, <2>3, <2>4 DEF Each, Unheard, Gate, Turns, Something, Found, Pending, Reached,
       Binds, Strips, Later, Running, Fanning
<1>10. Wired'
  <2> SUFFICES ASSUME NEW k \in 1 .. n
               PROVE  /\ wire'[k].msg \in 1 .. k
                      /\ wire'[wire'[k].msg].msg = wire'[k].msg
                      /\ wire'[wire'[k].msg].from = wire'[k].from
                      /\ wire'[k].dict # NoId => wire'[k].dict[1] <= n
                      /\ wire'[k].reply # NoId => wire'[k].reply[1] <= n
    BY <1>2 DEF Wired
  <2>1. \A id \in Ids : id[1] <= Len(wire) => id[1] <= n
    BY <1>0, <1>1, NumberAssumption DEF Ids, Inbound
  <2>2. CASE k = n
    <3>1. wire'[k] = w /\ w.dict \in Ids \cup {NoId} /\ w.reply \in Ids \cup {NoId}
      BY <1>2, <2>2 DEF Message
    <3>2. w.msg \in 1 .. n /\ wire'[w.msg].msg = w.msg /\ wire'[w.msg].from = w.from
      BY <1>0, <1>1, <1>2
    <3> QED
      BY <2>1, <2>2, <3>1, <3>2
  <2>3. CASE k # n
    <3>1. k \in 1 .. Len(wire) /\ wire'[k] = wire[k]
      BY <1>0, <1>1, <1>2, <2>3
    <3>2. wire[k].dict \in Ids \cup {NoId} /\ wire[k].reply \in Ids \cup {NoId}
      BY <3>1, Received DEF IInv, Types
    <3>3. wire[k].msg \in 1 .. k /\ wire[k].msg \in 1 .. Len(wire)
      BY <1>1, <3>1 DEF IInv, Wired
    <3>4. wire'[wire[k].msg] = wire[wire[k].msg]
      BY <1>2, <3>3
    <3> QED
      BY <2>1, <3>1, <3>2, <3>3, <3>4 DEF IInv, Wired
  <2> QED
    BY <2>2, <2>3
<1>11. LogEnded'
  BY <1>1, <1>7, LogEndedKeeps DEF IInv, past
<1>12. \A j \in DOMAIN joins' : Replays(j)'
  <2>1. \A j \in DOMAIN joins : SameJoin(j)
    BY <1>1 DEF SameJoin
  <2> QED
    BY <1>1, <1>7, <2>1, ReplayKeeps DEF IInv, past
<1>13. Views'
  BY <1>1, <1>7, ViewsKeep DEF IInv
<1>14. Cached' /\ LogKept' /\ Stays'
  BY <1>1 DEF IInv, Cached, LogKept, Stays, past, people
<1> QED
  BY <1>5, <1>8, <1>9, <1>10, <1>11, <1>12, <1>13, <1>14 DEF IInv

\* A new message, about nothing or about what its sender has on display.
LEMMA ReceiveNewStep ==
  ASSUME IInv, ReceiveNew
  PROVE  IInv'
<1>1. PICK u \in Senders, s \in Shapes :
        \E d \in Targets(u, s.fields \cap DictFields), r \in Targets(u, s.fields \cap {"reply"}) :
          Arrives([msg |-> Len(wire) + 1, from |-> u, shape |-> s, dict |-> d, reply |-> r])
  BY DEF ReceiveNew
<1>2. PICK d \in Targets(u, s.fields \cap DictFields), r \in Targets(u, s.fields \cap {"reply"}) :
        Arrives([msg |-> Len(wire) + 1, from |-> u, shape |-> s, dict |-> d, reply |-> r])
  BY <1>1
<1> DEFINE w == [msg |-> Len(wire) + 1, from |-> u, shape |-> s, dict |-> d, reply |-> r]
<1>3. /\ d \in Ids \cup {NoId} /\ (d # NoId => d[1] <= Len(wire))
      /\ r \in Ids \cup {NoId} /\ (r # NoId => r[1] <= Len(wire))
  BY <1>2 DEF Targets, Shows, Addressed
<1>4. Len(wire) + 1 \in Inbound
  <2>1. Len(wire) \in Nat
    BY DEF IInv, Types, WireTypes
  <2>2. Len(wire) + 1 <= MaxInbound
    BY <1>2 DEF Arrives
  <2> QED
    BY <2>1, <2>2, NumberAssumption DEF Inbound
<1>5. w \in Message /\ w.msg = Len(wire) + 1
  BY <1>3, <1>4, ShapeAssumption DEF Message
<1> QED
  BY <1>2, <1>3, <1>5, ArrivesStep

\* A message that comes again.
LEMMA ReceiveAgainStep ==
  ASSUME IInv, ReceiveAgain
  PROVE  IInv'
<1>1. PICK k \in 1 .. Len(wire) : Arrives(wire[k])
  BY DEF ReceiveAgain
<1>2. wire[k] \in Message
  BY Received DEF IInv, Types
<1>3. Len(wire) \in Nat
  BY DEF IInv, Types, WireTypes
<1>4. /\ wire[k].msg \in 1 .. Len(wire) /\ wire[wire[k].msg].msg = wire[k].msg
      /\ wire[wire[k].msg].from = wire[k].from
      /\ wire[k].dict # NoId => wire[k].dict[1] <= Len(wire)
      /\ wire[k].reply # NoId => wire[k].reply[1] <= Len(wire)
  BY <1>3 DEF IInv, Wired
<1>5. \A w : w = wire[k] => IInv'
  <2> SUFFICES ASSUME NEW w, w = wire[k] PROVE IInv'
    OBVIOUS
  <2>1. w \in Message /\ Arrives(w)
    BY <1>1, <1>2
  <2>2. /\ w.msg \in 1 .. Len(wire) /\ wire[w.msg].msg = w.msg /\ wire[w.msg].from = w.from
        /\ w.dict # NoId => w.dict[1] <= Len(wire)
        /\ w.reply # NoId => w.reply[1] <= Len(wire)
    BY <1>4
  <2> QED
    BY <2>1, <2>2, ArrivesStep
<1> QED
  BY <1>5

-----------------------------------------------------------------------------
(* The goroutine of a message *)

\* A step about message n that leaves the roster, the history and the replays alone.
LEMMA OneStep ==
  ASSUME IInv, NEW n \in Inbound, Running(n) \/ h'[n] = h[n],
         HandlerTypes', CopyTypes', CacheTypes',
         \A k \in Inbound : k # n => h'[k] = h[k] /\ copies'[k] = copies[k],
         \A u \in Users :
           /\ copies[n][u] # NoCopy => copies'[n][u] # NoCopy
           /\ Sent(n, u) => Sent(n, u)',
         \A b \in Inbound : DOMAIN cache.views[b] \subseteq DOMAIN cache'.views[b],
         UNCHANGED <<people, wire, past, joins, counters>>
  PROVE  /\ Types' /\ Env /\ Keeps
         /\ Each(n)' /\ Views' /\ Cached' => IInv'
<1>1. Types'
  BY DEF IInv, Types, PeopleTypes, WireTypes, ReplayTypes, CountTypes, PastTypes, people, past,
     counters, time
<1>2. Grows
  BY DEF Grows, IInv, Types, WireTypes
<1>3. Env
  <2>1. \A k \in Inbound, u \in Users : k # n => (Sent(k, u) => Sent(k, u)')
    BY DEF Sent
  <2>2. \A k \in Inbound, u \in Users : Sent(k, u) => Sent(k, u)'
    BY <2>1, Zenon
  <2> QED
    BY <1>2, <2>2 DEF Env, counters
<1>4. Keeps
  <2>1. \A k \in 1 .. Len(wire) : k \in Inbound
    BY Received DEF IInv, Types
  <2>2. \A k \in Inbound :
          h[k].pc = "ended" => h'[k].pc = "ended" /\ h'[k].target = h[k].target
    BY DEF Running
  <2>3. \A k \in Inbound, u \in Users : copies[k][u] # NoCopy => copies'[k][u] # NoCopy
    <3> TAKE k \in Inbound, u \in Users
    <3>1. CASE k = n
      BY <3>1
    <3>2. CASE k # n
      BY <3>2
    <3> QED
      BY <3>1, <3>2
  <2> QED
    BY <1>2, <2>1, <2>2, <2>3 DEF Keeps
<1>5. ASSUME NEW k \in Inbound, k # n
      PROVE  Each(k)'
  <2>1. Apart(k)
    BY <1>5 DEF Apart, Like, people
  <2> QED
    BY <1>1, <1>3, <2>1, ApartKeeps DEF IInv
<1>6. LogEnded'
  BY <1>4, LogEndedKeeps DEF IInv, past
<1>7. \A j \in DOMAIN joins' : Replays(j)'
  <2>1. \A j \in DOMAIN joins : SameJoin(j)
    BY DEF SameJoin
  <2> QED
    BY <1>4, <2>1, ReplayKeeps DEF IInv, past
<1>8. Wired' /\ LogKept' /\ Stays'
  BY DEF IInv, Wired, LogKept, Stays, past, people
<1> QED
  BY <1>1, <1>3, <1>4, <1>5, <1>6, <1>7, <1>8 DEF IInv

\* A step of the goroutine that changes nothing else.
LEMMA PcStep ==
  ASSUME IInv, NEW n \in Inbound, Running(n), HandlerTypes',
         \A k \in Inbound : k # n => h'[k] = h[k],
         UNCHANGED <<people, wire, copies, cache, past, joins, counters>>
  PROVE  Types' /\ (Each(n)' => IInv')
<1>1. CopyTypes' /\ CacheTypes'
  BY DEF IInv, Types, CopyTypes, CacheTypes
<1>2. /\ Types' /\ Env /\ Keeps
      /\ Each(n)' /\ Views' /\ Cached' => IInv'
  BY <1>1, OneStep DEF Sent
<1>3. Views' /\ Cached'
  BY <1>2, ViewsKeep DEF IInv, Cached
<1> QED
  BY <1>2, <1>3

\* The parts of Each about what is queued, which a goroutine before its fan-out has
\* not begun.
LEMMA BeforeFan ==
  ASSUME Types, NEW n \in Inbound, Each(n), Running(n), ~ Fanning(n)
  PROVE  \A u \in Users : copies[n][u] = NoCopy
BY DEF Each, Turns

\* A goroutine ends before its fan-out.
LEMMA StopStep ==
  ASSUME IInv, NEW n \in Inbound, Running(n), ~ Fanning(n),
         NEW what \in Told, Stop(n, what),
         UNCHANGED <<people, wire, copies, cache, past, joins, counters>>
  PROVE  IInv'
<1>1. h[n].at \in Nat
  BY Kinds DEF IInv, Types
<1>2. /\ h' = [h EXCEPT ![n] = Ended(what, h[n].at, NoBubble)]
      /\ Ended(what, h[n].at, NoBubble) \in EndedG
  BY <1>1 DEF Stop, Ended, EndedG, Targeted
<1>3. /\ HandlerTypes' /\ \A k \in Inbound : k # n => h'[k] = h[k]
      /\ h'[n].pc = "ended" /\ h'[n].target = NoBubble
  <2>1. /\ HandlerTypes' /\ \A k \in Inbound : k # n => h'[k] = h[k]
        /\ h'[n] = Ended(what, h[n].at, NoBubble)
    BY <1>2 DEF HandlerTypes, IInv, Types
  <2> QED
    BY <2>1 DEF Ended
<1>4. \A u \in Users : copies'[n][u] = NoCopy
  BY BeforeFan DEF IInv
<1>5. n \in 1 .. Len(wire) /\ Sender(n) \in Users
  <2>1. n \in 1 .. Len(wire)
    BY RunningHeard DEF IInv, Each
  <2> QED
    BY <2>1, Received DEF Sender, IInv, Types
<1>6. Each(n)'
  BY <1>3, <1>4, <1>5 DEF Each, Unheard, Gate, Turns, Something, Found, Pending, Reached, Binds,
     Strips, Later, Running, Fanning, Sender
<1> QED
  BY <1>3, <1>6, PcStep

\* The character limit and the membership check.
LEMMA CheckMemberStep ==
  ASSUME IInv, NEW n \in Inbound, CheckMember(n)
  PROVE  IInv'
<1>1. h[n].pc = "member" /\ Running(n) /\ ~ Fanning(n) /\ h[n] \in EarlyG
  BY Kinds DEF CheckMember, Running, Fanning, IInv, Types
<1>2. UNCHANGED <<people, wire, copies, cache, past, joins, counters>>
  BY DEF CheckMember
<1>3. \/ Stop(n, "over limit")
      \/ Stop(n, "invite")
      \/ roster[wire[n].from] # "absent" /\ h' = [h EXCEPT ![n].pc = "paused"]
  BY DEF CheckMember
<1>4. CASE Stop(n, "over limit") \/ Stop(n, "invite")
  <2>1. "over limit" \in Told /\ "invite" \in Told
    BY Zenon DEF Told
  <2> QED
    BY <1>1, <1>2, <1>4, <2>1, StopStep, Zenon
<1>5. CASE roster[wire[n].from] # "absent" /\ h' = [h EXCEPT ![n].pc = "paused"]
  <2>1. /\ HandlerTypes' /\ \A k \in Inbound : k # n => h'[k] = h[k]
        /\ h'[n].pc = "paused" /\ h'[n].moved = h[n].moved /\ h'[n].target = h[n].target
    BY <1>1, <1>5 DEF HandlerTypes, EarlyG, IInv, Types
  <2>2. \A u \in Users : copies'[n][u] = NoCopy
    BY <1>1, <1>2, BeforeFan DEF IInv
  <2>3. n \in 1 .. Len(wire) /\ Sender(n) \in Users
    <3>1. n \in 1 .. Len(wire)
      BY <1>1, RunningHeard DEF IInv, Each
    <3> QED
      BY <3>1, Received DEF Sender, IInv, Types
  <2>4. Gate(n)'
    BY <1>1, <1>2, <1>5, <2>1 DEF IInv, Each, Gate, Sender, Running, people
  <2>5. Each(n)'
    BY <1>2, <2>1, <2>2, <2>3, <2>4 DEF Each, Unheard, Turns, Something, Found, Pending, Reached,
       Binds, Strips, Later, Running, Fanning, Sender
  <2> QED
    BY <1>1, <1>2, <2>1, <2>5, PcStep
<1> QED
  BY <1>3, <1>4, <1>5

\* The pause flag and the attachment policy.
LEMMA CheckPausedStep ==
  ASSUME IInv, NEW n \in Inbound, CheckPaused(n)
  PROVE  IInv'
<1>1. h[n].pc = "paused" /\ Running(n) /\ ~ Fanning(n) /\ h[n] \in EarlyG
  BY Kinds DEF CheckPaused, Running, Fanning, IInv, Types
<1>2. UNCHANGED <<people, wire, copies, cache, past, joins, counters>>
  BY DEF CheckPaused
<1>3. \/ Stop(n, "paused")
      \/ Stop(n, "")
      \/ /\ roster[wire[n].from] # "paused" /\ (HasBody(n) \/ Filtered(n) # {})
         /\ h' = [h EXCEPT ![n].pc = "rewrite"]
  BY DEF CheckPaused
<1>4. CASE Stop(n, "paused") \/ Stop(n, "")
  <2>1. "paused" \in Told /\ "" \in Told
    BY Zenon DEF Told
  <2> QED
    BY <1>1, <1>2, <1>4, <2>1, StopStep, Zenon
<1>5. CASE /\ roster[wire[n].from] # "paused" /\ (HasBody(n) \/ Filtered(n) # {})
           /\ h' = [h EXCEPT ![n].pc = "rewrite"]
  <2>1. /\ HandlerTypes' /\ \A k \in Inbound : k # n => h'[k] = h[k]
        /\ h'[n].pc = "rewrite" /\ h'[n].moved = h[n].moved /\ h'[n].target = h[n].target
    BY <1>1, <1>5 DEF HandlerTypes, EarlyG, IInv, Types
  <2>2. \A u \in Users : copies'[n][u] = NoCopy
    BY <1>1, <1>2, BeforeFan DEF IInv
  <2>3. n \in 1 .. Len(wire) /\ Sender(n) \in Users
    <3>1. n \in 1 .. Len(wire)
      BY <1>1, RunningHeard DEF IInv, Each
    <3> QED
      BY <3>1, Received DEF Sender, IInv, Types
  <2>4. Gate(n)'
    <3>1. roster[Sender(n)] \in {"absent", "active", "paused"}
      BY <2>3 DEF IInv, Types, PeopleTypes
    <3> QED
      BY <1>1, <1>2, <1>5, <2>1, <3>1 DEF IInv, Each, Gate, Sender, Running, people
  <2>5. Something(n)'
    BY <1>2, <1>5 DEF Something, HasBody, Noted, Filtered
  <2>6. Each(n)'
    BY <1>2, <2>1, <2>2, <2>3, <2>4, <2>5 DEF Each, Unheard, Turns, Found, Pending, Reached,
       Binds, Strips, Later, Running, Fanning, Sender
  <2> QED
    BY <1>1, <1>2, <2>1, <2>6, PcStep
<1> QED
  BY <1>3, <1>4, <1>5

\* A message that Lookup finds.
LEMMA BubbleFound ==
  ASSUME Types, Wired, Views, NEW c \in CacheOf(Users, Ids), Anchored(c), Fewer(c, cache),
         NEW id, BubbleOf(c, id) # NoBubble
  PROVE  /\ BubbleOf(c, id) \in Inbound
         /\ About(id, BubbleOf(c, id))
         /\ Sender(BubbleOf(c, id)) \in DOMAIN cache.views[BubbleOf(c, id)]
<1>1. id \in DOMAIN c.index /\ BubbleOf(c, id) = c.index[id]
  BY DEF BubbleOf, Hit
<1>2. PICK b : b = c.index[id]
  OBVIOUS
<1>3. b \in Inbound /\ id \in Ids
  BY <1>1, <1>2, CacheFields, MapFacts, NumberAssumption DEF Inbound
<1>4. c.views = cache.views /\ id \in Range(cache.views[b])
  BY <1>1, <1>2 DEF Fewer, Anchored
<1>5. PICK u \in DOMAIN cache.views[b] : id = cache.views[b][u]
  BY <1>4 DEF Range
<1>6. /\ b <= Len(wire) /\ Sender(b) \in DOMAIN cache.views[b]
      /\ id = <<IF u = Sender(b) THEN wire[b].msg ELSE b, u>>
  BY <1>3, <1>5 DEF Views
<1>7. b \in 1 .. Len(wire)
  BY <1>3, <1>6, NumberAssumption DEF Inbound
<1>8. /\ wire[b].msg \in 1 .. b /\ wire[wire[b].msg].msg = wire[b].msg
      /\ Len(wire) \in Nat
  BY <1>7 DEF Wired, Types, WireTypes
<1>9. id[1] \in {wire[b].msg, b} /\ id[1] <= Len(wire) /\ wire[id[1]].msg = wire[b].msg
  BY <1>6, <1>7, <1>8
<1> QED
  BY <1>1, <1>2, <1>3, <1>6, <1>7, <1>9 DEF About, MessageOf

\* The lookups of buildRewrite.
LEMMA BuildRewriteStep ==
  ASSUME IInv, NEW n \in Inbound, BuildRewrite(n)
  PROVE  IInv'
<1> DEFINE d == IF HasDict(n) THEN wire[n].dict ELSE NoId
           r == IF HasReply(n) THEN wire[n].reply ELSE NoId
           c == LookedUp(cache, d, clock)
           g == [pc |-> "bubble", at |-> h[n].at, moved |-> h[n].moved,
                 target |-> BubbleOf(cache, d), reply |-> BubbleOf(c, r)]
<1>1. /\ h[n].pc = "rewrite"
      /\ h' = [h EXCEPT ![n] = g]
      /\ cache' = LookedUp(c, r, clock)
      /\ UNCHANGED <<people, wire, copies, past, joins, counters>>
  BY DEF BuildRewrite
<1>2. cache \in CacheOf(Users, Ids) /\ Anchored(cache) /\ Bounded(cache)
  BY DEF IInv, Types, CacheTypes, Cached
<1> HIDE DEF d, r
<1>3. c \in CacheOf(Users, Ids) /\ Anchored(c) /\ Bounded(c) /\ Fewer(c, cache)
  BY <1>2, LookedUpFacts
<1> HIDE DEF c
<1>4. cache' \in CacheOf(Users, Ids) /\ Anchored(cache') /\ Bounded(cache') /\ Fewer(cache', c)
  BY <1>1, <1>3, LookedUpFacts
<1>5. cache'.views = cache.views
  BY <1>3, <1>4 DEF Fewer
<1>6. /\ h[n] \in EarlyG /\ Running(n) /\ ~ Fanning(n)
  BY <1>1, Kinds DEF IInv, Types, Running, Fanning
<1>7. /\ BubbleOf(cache, d) # NoBubble =>
           /\ BubbleOf(cache, d) \in Inbound
           /\ About(d, BubbleOf(cache, d))
           /\ Sender(BubbleOf(cache, d)) \in DOMAIN cache.views[BubbleOf(cache, d)]
      /\ BubbleOf(c, r) # NoBubble =>
           BubbleOf(c, r) \in Inbound /\ About(r, BubbleOf(c, r))
  <2>1. Fewer(cache, cache)
    BY DEF Fewer
  <2> QED
    BY <1>2, <1>3, <2>1, BubbleFound DEF IInv
<1>8. /\ HandlerTypes' /\ h'[n] = g
      /\ \A k \in Inbound : k # n => h'[k] = h[k]
  <2>1. g \in BubbleG
    BY <1>6, <1>7 DEF BubbleG, EarlyG, Targeted
  <2> HIDE DEF g
  <2> QED
    BY <1>1, <2>1 DEF HandlerTypes, IInv, Types
<1>9. /\ Types' /\ Env /\ Keeps
      /\ Each(n)' /\ Views' /\ Cached' => IInv'
  <2>1. CopyTypes' /\ CacheTypes'
    BY <1>1, <1>4 DEF CopyTypes, CacheTypes, IInv, Types
  <2> HIDE DEF g
  <2> QED
    BY <1>1, <1>5, <1>6, <1>8, <2>1, OneStep DEF Sent
<1>10. Views' /\ Cached'
  BY <1>4, <1>5, <1>9, ViewsKeep DEF IInv, Cached
<1>11. n \in 1 .. Len(wire) /\ Sender(n) \in Users
  <2>1. n \in 1 .. Len(wire)
    BY <1>6, RunningHeard DEF IInv, Each
  <2> QED
    BY <2>1, Received DEF Sender, IInv, Types
<1>12. \A u \in Users : copies'[n][u] = NoCopy
  BY <1>1, <1>6, BeforeFan DEF IInv
<1>13. /\ h'[n].pc = "bubble" /\ h'[n].moved = h[n].moved
       /\ h'[n].target = BubbleOf(cache, d) /\ h'[n].reply = BubbleOf(c, r)
  BY <1>8
<1>14. wire' = wire /\ roster' = roster /\ banned' = banned
  BY <1>1 DEF people
<1>15. Found(n)'
  <2>1. d # NoId => d = wire[n].dict
    BY DEF d
  <2>2. r # NoId => r = wire[n].reply
    BY DEF r
  <2>3. \A id, b : About(id, b) => id # NoId
    BY AbsenceAssumption DEF About
  <2>4. /\ h'[n].target # NoBubble =>
             /\ About(wire[n].dict, h'[n].target)
             /\ Sender(h'[n].target) \in DOMAIN cache.views[h'[n].target]
        /\ h'[n].reply # NoBubble => About(wire[n].reply, h'[n].reply)
    BY <1>7, <1>13, <2>1, <2>2, <2>3
  <2> QED
    BY <1>5, <1>13, <1>14, <2>4 DEF Found, About, MessageOf, Sender
<1>16. Gate(n)' /\ Something(n)'
  BY <1>1, <1>6, <1>13, <1>14 DEF IInv, Each, Gate, Something, Sender, Running, HasBody, Noted,
     Filtered
<1>17. Each(n)'
  BY <1>11, <1>12, <1>13, <1>14, <1>15, <1>16 DEF Each, Unheard, Turns, Pending, Reached,
       Binds, Strips, Later, Running, Fanning, Sender
<1> QED
  BY <1>9, <1>10, <1>17

\* The id under which u knows bubble n.
IdFor(n, u) == <<IF u = Sender(n) THEN wire[n].msg ELSE n, u>>

\* A view is recorded: the author's, or that of a member the copy has reached.
LEMMA ViewAdded ==
  ASSUME IInv, NEW n \in 1 .. Len(wire), NEW u \in Users,
         NEW c \in CacheOf(Users, Ids), Anchored(c), Bounded(c), c.views = cache.views,
         cache' = RegisterView(c, n, u, IdFor(n, u), clock),
         u = Sender(n) \/ (Sender(n) \in DOMAIN cache.views[n] /\ Sent(n, u)'),
         wire' = wire,
         \A k \in Inbound, v \in Users : Sent(k, v) => Sent(k, v)'
  PROVE  /\ CacheTypes' /\ Cached' /\ Views'
         /\ \A b \in Inbound : DOMAIN cache.views[b] \subseteq DOMAIN cache'.views[b]
         /\ u \in DOMAIN cache'.views[n]
<1>1. n \in Inbound /\ n \in Bubbles /\ wire[n].msg \in Inbound /\ Sender(n) \in Users
  BY Received, NumberAssumption DEF IInv, Types, Inbound, Sender
<1>2. IdFor(n, u) \in Ids
  BY <1>1 DEF IdFor, Ids
<1>3. u \in DOMAIN c.views[n] => c.views[n][u] = IdFor(n, u)
  BY <1>1 DEF IInv, Views, IdFor
<1> DEFINE w == With(cache.views[n], u, IdFor(n, u))
<1>4. /\ cache' \in CacheOf(Users, Ids) /\ Anchored(cache') /\ Bounded(cache')
      /\ cache'.views = [cache.views EXCEPT ![n] = w]
  <2>0. PICK now : now = clock
    OBVIOUS
  <2>1. PICK id \in Ids : id = IdFor(n, u)
    BY <1>2
  <2>2. cache' = RegisterView(c, n, u, id, now) /\ (u \in DOMAIN c.views[n] => c.views[n][u] = id)
    BY <1>3, <2>0, <2>1
  <2>3. /\ cache' \in CacheOf(Users, Ids) /\ Anchored(cache') /\ Bounded(cache')
        /\ cache'.views = [c.views EXCEPT ![n] = With(c.views[n], u, id)]
    BY <1>1, <2>2, RegisterViewFacts
  <2> QED
    BY <2>1, <2>3
<1>5. cache.views \in [Bubbles -> Map(Users, Ids)] /\ Bubbles = Inbound
  BY CacheFields, NumberAssumption DEF IInv, Types, CacheTypes, Inbound
<1>6. /\ DOMAIN w = DOMAIN cache.views[n] \cup {u}
      /\ w[u] = IdFor(n, u)
      /\ \A v \in DOMAIN cache.views[n] : v # u => w[v] = cache.views[n][v]
  BY DEF With
<1> HIDE DEF w
<1>7. /\ cache'.views[n] = w
      /\ \A b \in Inbound : b # n => cache'.views[b] = cache.views[b]
  BY <1>1, <1>4, <1>5
<1>8. Views'
  <2> SUFFICES ASSUME NEW b \in Inbound, NEW v \in DOMAIN cache'.views[b]
               PROVE  /\ b <= Len(wire)
                      /\ Sender(b) \in DOMAIN cache'.views[b]
                      /\ cache'.views[b][v] = <<IF v = Sender(b) THEN wire[b].msg ELSE b, v>>
                      /\ v = Sender(b) \/ Sent(b, v)'
    BY DEF Views, Sender
  <2>1. CASE b # n
    <3>1. v \in DOMAIN cache.views[b] /\ v \in Users
      BY <1>5, <1>7, <2>1, MapFacts
    <3> QED
      BY <1>7, <2>1, <3>1 DEF IInv, Views
  <2>2. CASE b = n /\ v # u
    <3>1. v \in DOMAIN cache.views[n] /\ v \in Users
      BY <1>1, <1>5, <1>6, <1>7, <2>2, MapFacts
    <3>2. cache'.views[b][v] = cache.views[n][v] /\ DOMAIN cache.views[n] \subseteq DOMAIN cache'.views[n]
      BY <1>6, <1>7, <2>2, <3>1
    <3> QED
      BY <1>1, <2>2, <3>1, <3>2 DEF IInv, Views
  <2>3. CASE b = n /\ v = u
    <3>1. cache'.views[b][v] = IdFor(n, u) /\ n <= Len(wire)
      BY <1>6, <1>7, <2>3
    <3>2. Sender(n) \in DOMAIN cache'.views[n]
      BY <1>6, <1>7
    <3> QED
      BY <2>3, <3>1, <3>2 DEF IdFor
  <2> QED
    BY <2>1, <2>2, <2>3
<1>9. \A b \in Inbound : DOMAIN cache.views[b] \subseteq DOMAIN cache'.views[b]
  BY <1>6, <1>7
<1> QED
  BY <1>4, <1>6, <1>7, <1>8, <1>9 DEF CacheTypes, Cached

\* The sender's id is recorded.
LEMMA RegisterSenderStep ==
  ASSUME IInv, NEW n \in Inbound, RegisterSender(n)
  PROVE  IInv'
<1>1. /\ h[n].pc = "bubble" /\ Running(n) /\ ~ Fanning(n) /\ h[n] \in BubbleG
      /\ h' = [h EXCEPT ![n].pc = "snapshot"] /\ cache' = SenderView(n)
      /\ UNCHANGED <<people, wire, copies, past, joins, counters>>
  BY Kinds DEF RegisterSender, Running, Fanning, IInv, Types
<1>2. n \in 1 .. Len(wire) /\ Sender(n) \in Users
  <2>1. n \in 1 .. Len(wire)
    BY <1>1, RunningHeard DEF IInv, Each
  <2> QED
    BY <2>1, Received DEF Sender, IInv, Types
<1>3. /\ HandlerTypes' /\ \A k \in Inbound : k # n => h'[k] = h[k]
      /\ h'[n].pc = "snapshot" /\ h'[n].moved = h[n].moved
      /\ h'[n].target = h[n].target /\ h'[n].reply = h[n].reply
  BY <1>1 DEF HandlerTypes, BubbleG, IInv, Types
<1>4. \A k \in Inbound, v \in Users : Sent(k, v) => Sent(k, v)'
  BY <1>1 DEF Sent
<1>5. /\ CacheTypes' /\ Cached' /\ Views'
      /\ \A b \in Inbound : DOMAIN cache.views[b] \subseteq DOMAIN cache'.views[b]
      /\ Primary(n) => Sender(n) \in DOMAIN cache'.views[n]
  <2>1. CASE Primary(n)
    <3>1. PICK c : c = NewBubble(cache, n, clock)
      OBVIOUS
    <3>2. /\ c \in CacheOf(Users, Ids) /\ Anchored(c) /\ Bounded(c)
          /\ c.views = cache.views
      BY <3>1, NewBubbleFacts DEF IInv, Types, CacheTypes, CountTypes, Cached
    <3>3. PICK u : u = Sender(n)
      OBVIOUS
    <3>4. cache' = RegisterView(c, n, u, IdFor(n, u), clock)
      BY <1>1, <2>1, <3>1, <3>3 DEF SenderView, IdFor, Sender
    <3> QED
      BY <1>1, <1>2, <1>4, <3>2, <3>3, <3>4, ViewAdded
  <2>2. CASE ~ Primary(n)
    <3>1. cache' = cache
      BY <1>1, <2>2 DEF SenderView
    <3>2. Views'
      BY <1>1, <1>4, <3>1 DEF Views, IInv, Sender, Sent
    <3> QED
      BY <2>2, <3>1, <3>2 DEF IInv, Types, CacheTypes, Cached
  <2> QED
    BY <2>1, <2>2
<1>6. CopyTypes'
  BY <1>1 DEF IInv, Types, CopyTypes
<1>7. /\ Types' /\ Env /\ Keeps
      /\ Each(n)' /\ Views' /\ Cached' => IInv'
  <2>1. \A u \in Users :
          /\ copies[n][u] # NoCopy => copies'[n][u] # NoCopy
          /\ Sent(n, u) => Sent(n, u)'
    BY <1>1, <1>4
  <2> QED
    BY <1>1, <1>3, <1>5, <1>6, <2>1, OneStep
<1>8. \A u \in Users : copies'[n][u] = NoCopy
  BY <1>1, BeforeFan DEF IInv
<1>9. wire' = wire /\ roster' = roster /\ banned' = banned
  BY <1>1 DEF people
<1>10. Found(n)'
  <2>1. \A b \in Inbound : Sender(b)' = Sender(b)
    BY <1>9 DEF Sender
  <2>2. h[n].target # NoBubble => h[n].target \in Inbound
    BY <1>1 DEF BubbleG, Targeted
  <2>3. \A id, b : About(id, b)' <=> About(id, b)
    BY <1>9 DEF About, MessageOf
  <2>4. /\ h[n].target # NoBubble =>
             /\ About(wire[n].dict, h[n].target)
             /\ Sender(h[n].target) \in DOMAIN cache'.views[h[n].target]
        /\ h[n].reply # NoBubble => About(wire[n].reply, h[n].reply)
    BY <1>1, <1>5, <2>2 DEF IInv, Each, Found
  <2>5. Primary(n)' = Primary(n)
    BY <1>9 DEF Primary, Filtered
  <2> QED
    BY <1>3, <1>5, <1>9, <2>4, <2>5 DEF Found, About, MessageOf, Sender
<1>11. Gate(n)' /\ Something(n)'
  BY <1>1, <1>3, <1>9 DEF IInv, Each, Gate, Something, Sender, Running, HasBody, Noted,
     Filtered
<1>12. Each(n)'
  BY <1>2, <1>3, <1>8, <1>9, <1>10, <1>11 DEF Each, Unheard, Turns, Pending, Reached,
       Binds, Strips, Later, Running, Fanning, Sender
<1> QED
  BY <1>5, <1>7, <1>12

\* The snapshot of the active members.
LEMMA SnapshotStep ==
  ASSUME IInv, NEW n \in Inbound, Snapshot(n)
  PROVE  IInv'
<1> DEFINE g == [pc |-> "fan", at |-> h[n].at, moved |-> h[n].moved,
                 target |-> h[n].target, reply |-> h[n].reply, sent |-> FALSE,
                 todo |-> ActiveHashes \ {wire[n].from}]
<1>1. /\ h[n].pc = "snapshot" /\ Running(n) /\ ~ Fanning(n) /\ h[n] \in BubbleG
      /\ h' = [h EXCEPT ![n] = g]
      /\ UNCHANGED <<people, wire, copies, cache, past, joins, counters>>
  BY Kinds DEF Snapshot, Running, Fanning, IInv, Types
<1>2. n \in 1 .. Len(wire) /\ Sender(n) \in Users
  <2>1. n \in 1 .. Len(wire)
    BY <1>1, RunningHeard DEF IInv, Each
  <2> QED
    BY <2>1, Received DEF Sender, IInv, Types
<1>3. g \in FanG
  BY <1>1 DEF FanG, BubbleG, ActiveHashes
<1>4. /\ HandlerTypes' /\ \A k \in Inbound : k # n => h'[k] = h[k]
      /\ h'[n] = g
  <2> HIDE DEF g
  <2> QED
    BY <1>1, <1>3 DEF HandlerTypes, IInv, Types
<1>5. /\ h'[n].pc = "fan" /\ h'[n].moved = h[n].moved /\ h'[n].target = h[n].target
      /\ h'[n].reply = h[n].reply /\ h'[n].todo = ActiveHashes \ {Sender(n)}
  BY <1>4 DEF Sender
<1> HIDE DEF g
<1>6. \A u \in Users : copies'[n][u] = NoCopy
  BY <1>1, BeforeFan DEF IInv
<1>7. /\ wire' = wire /\ roster' = roster /\ banned' = banned /\ textOnly' = textOnly
      /\ joins' = joins /\ cache' = cache
  BY <1>1 DEF people
<1>8. Gate(n)' /\ Something(n)'
  BY <1>1, <1>5, <1>7 DEF IInv, Each, Gate, Something, Sender, Running, HasBody, Noted,
     Filtered
<1>9. Found(n)'
  BY <1>1, <1>5, <1>7 DEF IInv, Each, Found, About, MessageOf, Sender, Primary, Filtered
<1>10. Reached(n)'
  BY <1>5, <1>7 DEF Reached, Fanning, ActiveHashes, Sender
<1>11. Later(n)'
  <2>1. \A j \in DOMAIN joins : joins[j].user \in Users
    <3>1. \A j \in DOMAIN joins : joins[j] \in Replay
      BY DEF IInv, Types, ReplayTypes
    <3> QED
      BY <3>1 DEF Replay
  <2> QED
    BY <1>5, <1>7, <2>1 DEF IInv, Stays, Later, Fanning, ActiveHashes, Sender
<1>12. Each(n)'
  BY <1>2, <1>5, <1>6, <1>7, <1>8, <1>9, <1>10, <1>11 DEF Each, Unheard, Turns, Pending,
     Binds, Strips, Running, Fanning, Sender
<1> QED
  BY <1>1, <1>4, <1>12, PcStep

-----------------------------------------------------------------------------
(* Copies *)

\* A member's view of a bubble is how he knows its message.
LEMMA ViewAddressed ==
  ASSUME IInv, NEW b \in Inbound, NEW u \in DOMAIN cache.views[b]
  PROVE  /\ u \in Users
         /\ cache.views[b][u] \in Ids
         /\ Addressed(u, cache.views[b][u])
         /\ MessageOf(cache.views[b][u]) = wire[b].msg
<1>1. u \in Users /\ cache.views[b][u] \in Ids
  BY NumberAssumption, CacheFields, MapFacts DEF IInv, Types, CacheTypes, Inbound
<1>2. /\ b \in 1 .. Len(wire)
      /\ cache.views[b][u] = <<IF u = Sender(b) THEN wire[b].msg ELSE b, u>>
      /\ u = Sender(b) \/ Sent(b, u)
  BY NumberAssumption DEF IInv, Views, Inbound
<1>3. /\ wire[b].msg \in 1 .. b /\ wire[wire[b].msg].msg = wire[b].msg
      /\ wire[wire[b].msg].from = Sender(b)
      /\ Len(wire) \in Nat
  BY <1>2 DEF IInv, Wired, Types, WireTypes, Sender
<1>4. CASE u = Sender(b)
  <2>1. cache.views[b][u][1] = wire[b].msg /\ cache.views[b][u][2] = u
    BY <1>2, <1>4
  <2>2. wire[b].msg <= Len(wire)
    BY <1>2, <1>3
  <2> QED
    BY <1>1, <1>3, <1>4, <2>1, <2>2 DEF Addressed, MessageOf
<1>5. CASE u # Sender(b)
  <2>1. cache.views[b][u][1] = b /\ cache.views[b][u][2] = u
    BY <1>2, <1>5
  <2> QED
    BY <1>1, <1>2, <1>5, <2>1 DEF Addressed, MessageOf
<1> QED
  BY <1>1, <1>4, <1>5

\* The copy of a fan-out: well formed, about what the sender meant, and empty only
\* where a reply was stripped.
LEMMA CopyFacts ==
  ASSUME IInv, NEW n \in Inbound, Fanning(n), NEW u \in Users, ~ Skips(n, u)
  PROVE  LET c == Copy(n, u)
         IN  /\ c \in Queued
             /\ c.bubble = Primary(n)
             /\ c.with.dict # NoId /\ h[n].target # NoBubble =>
                  /\ Addressed(u, c.with.dict) /\ MessageOf(c.with.dict) = MessageOf(wire[n].dict)
                  /\ wire[n].dict \in Ids
             /\ c.with.reply # NoId /\ h[n].reply # NoBubble =>
                  /\ Addressed(u, c.with.reply) /\ MessageOf(c.with.reply) = MessageOf(wire[n].reply)
                  /\ wire[n].reply \in Ids
             /\ \/ c.body \/ c.with.fields # {}
                \/ Filtered(n) = {"reply"} /\ wire[n].reply # NoId
<1>1. h[n].pc = "fan" /\ h[n] \in FanG /\ Running(n)
  BY Kinds DEF Fanning, Running, IInv, Types
<1>2. n \in 1 .. Len(wire)
  BY <1>1, RunningHeard DEF IInv, Each
<1>3. /\ wire[n].dict \in Ids \cup {NoId} /\ wire[n].reply \in Ids \cup {NoId}
      /\ wire[n].shape \in Shape
  BY <1>2, Received DEF IInv, Types
<1>4. /\ h[n].target \in Inbound \cup {NoBubble} /\ h[n].reply \in Inbound \cup {NoBubble}
  BY <1>1 DEF FanG, Targeted
<1>5. /\ h[n].target # NoBubble => About(wire[n].dict, h[n].target)
      /\ h[n].reply # NoBubble => About(wire[n].reply, h[n].reply)
      /\ HasBody(n) \/ Filtered(n) # {}
  BY <1>1 DEF IInv, Each, Found, Something
<1>6. h[n].target # NoBubble =>
        LET id == cache.views[h[n].target][u]
        IN  /\ id \in Ids /\ Addressed(u, id) /\ MessageOf(id) = MessageOf(wire[n].dict)
            /\ wire[n].dict \in Ids
  BY <1>4, <1>5, ViewAddressed DEF Skips, HasView, About
<1>7. h[n].reply # NoBubble /\ HasView(cache, h[n].reply, u) =>
        LET id == cache.views[h[n].reply][u]
        IN  /\ id \in Ids /\ Addressed(u, id) /\ MessageOf(id) = MessageOf(wire[n].reply)
            /\ wire[n].reply \in Ids
  BY <1>4, <1>5, ViewAddressed DEF HasView, About
<1>8. /\ Filtered(n) \subseteq Fields /\ Filtered(n) \subseteq Stamped(Filtered(n))
      /\ Stamped(Filtered(n)) \subseteq Fields
      /\ HasBody(n) \in BOOLEAN /\ Primary(n) \in BOOLEAN
  <2>1. Filtered(n) \subseteq Fields
    BY <1>3 DEF Filtered, Shape
  <2>2. HasBody(n) \in BOOLEAN /\ Primary(n) \in BOOLEAN
    BY <1>3 DEF HasBody, Noted, Primary, Shape
  <2> QED
    BY <2>1, <2>2 DEF Stamped, Fields
<1>9. h[n].reply # NoBubble => wire[n].reply # NoId
  BY <1>5, AbsenceAssumption DEF About
<1> DEFINE r == Rewritten(n, u)
<1>10. /\ r \in Content
       /\ h[n].target # NoBubble => r.dict = cache.views[h[n].target][u]
       /\ h[n].reply # NoBubble /\ r.reply # NoId =>
            HasView(cache, h[n].reply, u) /\ r.reply = cache.views[h[n].reply][u]
       /\ r.fields = {} /\ Filtered(n) # {} => Filtered(n) = {"reply"} /\ h[n].reply # NoBubble
  BY <1>3, <1>6, <1>7, <1>8 DEF Rewritten, Content
<1> HIDE DEF r
<1>11. CASE u \in textOnly
  <2>1. HasBody(n)
    BY <1>11 DEF Skips
  <2>2. /\ Copy(n, u) \in Queued
        /\ Copy(n, u).with.dict = NoId /\ Copy(n, u).with.reply = NoId
        /\ Copy(n, u).body /\ Copy(n, u).bubble = Primary(n)
    BY <1>8, <1>11, <2>1 DEF Copy, Queued, Content, NoFields
  <2> QED
    BY <2>2
<1>12. CASE u \notin textOnly
  <2>1. /\ Copy(n, u) \in Queued /\ Copy(n, u).with = r
        /\ Copy(n, u).body = HasBody(n) /\ Copy(n, u).bubble = Primary(n)
    BY <1>8, <1>10, <1>12 DEF Copy, Queued, r
  <2> QED
    BY <1>5, <1>6, <1>7, <1>9, <1>10, <2>1
<1> QED
  BY <1>11, <1>12

\* A queued copy is there.
LEMMA CopyThere ==
  \A c \in Queued \cup Gone : c # NoCopy
BY AbsenceAssumption

\* One recipient of a fan-out.
LEMMA ForwardStep ==
  ASSUME IInv, NEW n \in Inbound, NEW u \in Users, Forward(n, u)
  PROVE  IInv'
<1>1. /\ h[n].pc = "fan" /\ h[n] \in FanG /\ Running(n) /\ Fanning(n) /\ u \in h[n].todo
      /\ h' = [h EXCEPT ![n].todo = @ \ {u}, ![n].sent = @ \/ ~ Skips(n, u)]
      /\ copies' = IF Skips(n, u) THEN copies ELSE [copies EXCEPT ![n][u] = Copy(n, u)]
      /\ UNCHANGED <<people, wire, cache, past, joins, counters>>
  BY Kinds DEF Forward, Running, Fanning, IInv, Types
<1>2. n \in 1 .. Len(wire) /\ Sender(n) \in Users
  <2>1. n \in 1 .. Len(wire)
    BY <1>1, RunningHeard DEF IInv, Each
  <2> QED
    BY <2>1, Received DEF Sender, IInv, Types
<1>3. PICK skip \in BOOLEAN : skip = Skips(n, u)
  BY DEF Skips
<1>4. /\ HandlerTypes' /\ \A k \in Inbound : k # n => h'[k] = h[k]
      /\ h'[n].pc = "fan" /\ h'[n].moved = h[n].moved /\ h'[n].target = h[n].target
      /\ h'[n].reply = h[n].reply /\ h'[n].todo = h[n].todo \ {u}
  <2>1. PICK s \in BOOLEAN : s = (h[n].sent \/ ~ skip)
    BY Zenon
  <2>2. h' = [h EXCEPT ![n].todo = h[n].todo \ {u}, ![n].sent = s]
    BY <1>1, <1>3, <2>1, Zenon
  <2>3. h \in [Inbound -> EndedG \cup EarlyG \cup BubbleG \cup FanG]
    BY DEF HandlerTypes, IInv, Types
  <2>4. /\ \A k \in Inbound : k # n => h'[k] = h[k]
        /\ DOMAIN h' = Inbound /\ h' = [k \in Inbound |-> h'[k]]
    BY <2>2, <2>3
  <2>5. /\ h'[n] \in FanG
        /\ h'[n].pc = "fan" /\ h'[n].moved = h[n].moved /\ h'[n].target = h[n].target
        /\ h'[n].reply = h[n].reply /\ h'[n].todo = h[n].todo \ {u}
    <3>1. /\ h'[n].pc = "fan" /\ h'[n].moved = h[n].moved /\ h'[n].target = h[n].target
          /\ h'[n].reply = h[n].reply /\ h'[n].todo = h[n].todo \ {u}
      BY <1>1, <2>2, <2>3
    <3>2. h'[n] = [[h[n] EXCEPT !.todo = h[n].todo \ {u}] EXCEPT !.sent = s]
      BY <2>2, <2>3
    <3>3. [h[n] EXCEPT !.todo = h[n].todo \ {u}] \in FanG
      BY <1>1 DEF FanG
    <3>4. ASSUME NEW f \in FanG
          PROVE  [f EXCEPT !.sent = s] \in FanG
      BY DEF FanG
    <3> QED
      BY <3>1, <3>2, <3>3, <3>4
  <2>6. HandlerTypes'
    BY <2>3, <2>4, <2>5 DEF HandlerTypes
  <2> QED
    BY <2>4, <2>5, <2>6
<1>5. /\ wire' = wire /\ roster' = roster /\ banned' = banned /\ textOnly' = textOnly
      /\ joins' = joins /\ cache' = cache /\ crashes' = crashes
  BY <1>1 DEF people, counters
<1>6. copies[n][u] = NoCopy /\ u # Sender(n) /\ copies[n][Sender(n)] = NoCopy
  BY <1>1, <1>2 DEF IInv, Each, Turns
<1>7. ~ skip => Copy(n, u) \in Queued
  BY <1>1, <1>3, CopyFacts
<1>8. /\ CopyTypes'
      /\ \A k \in Inbound : k # n => copies'[k] = copies[k]
      /\ \A v \in Users : v # u => copies'[n][v] = copies[n][v]
      /\ copies'[n][u] = IF skip THEN NoCopy ELSE Copy(n, u)
  <2>1. copies \in [Inbound -> [Users -> Queued \cup Gone \cup {NoCopy}]]
    BY DEF IInv, Types, CopyTypes
  <2>2. CASE skip
    BY <1>1, <1>3, <1>6, <2>1, <2>2 DEF CopyTypes
  <2>3. CASE ~ skip
    BY <1>1, <1>3, <1>7, <2>1, <2>3 DEF CopyTypes
  <2> QED
    BY <2>2, <2>3
<1>9. \A k \in Inbound, v \in Users : Sent(k, v) => Sent(k, v)'
  BY <1>6, <1>8 DEF Sent
<1>10. /\ Types' /\ Env /\ Keeps
       /\ Each(n)' /\ Views' /\ Cached' => IInv'
  <2>1. \A v \in Users :
          /\ copies[n][v] # NoCopy => copies'[n][v] # NoCopy
          /\ Sent(n, v) => Sent(n, v)'
    BY <1>6, <1>8, <1>9
  <2>2. CacheTypes' /\ \A b \in Inbound : DOMAIN cache.views[b] \subseteq DOMAIN cache'.views[b]
    BY <1>5 DEF IInv, Types, CacheTypes
  <2> QED
    BY <1>1, <1>4, <1>8, <2>1, <2>2, OneStep
<1>11. Views' /\ Cached'
  BY <1>5, <1>10, ViewsKeep DEF IInv, Cached
<1>12. /\ HasBody(n)' = HasBody(n) /\ Filtered(n)' = Filtered(n) /\ Sender(n)' = Sender(n)
       /\ Primary(n)' = Primary(n)
  BY <1>5 DEF HasBody, Noted, Filtered, Sender, Primary
<1>13. ~ skip => Copy(n, u) # NoCopy
  BY <1>7, CopyThere
<1>14. Unheard(n)' /\ Gate(n)' /\ Something(n)'
  BY <1>1, <1>2, <1>4, <1>5, <1>12 DEF IInv, Each, Unheard, Gate, Something, Running
<1>15. Turns(n)'
  <2>1. Turns(n) /\ Running(n) /\ Fanning(n) /\ Running(n)' /\ Fanning(n)'
    BY <1>1, <1>4 DEF IInv, Each, Running, Fanning
  <2>2. ASSUME NEW v \in Users
        PROVE  copies'[n][v] = NoCopy \/ v \notin h'[n].todo
    <3>1. CASE v = u
      BY <1>4, <3>1
    <3>2. CASE v # u
      BY <1>4, <1>8, <2>1, <3>2 DEF Turns
    <3> QED
      BY <3>1, <3>2
  <2>3. Sender(n)' = Sender(n) /\ Sender(n) \notin h'[n].todo
    BY <1>4, <1>12, <2>1 DEF Turns
  <2>4. copies'[n][Sender(n)] = NoCopy
    BY <1>2, <1>6, <1>8
  <2> QED
    BY <2>1, <2>2, <2>3, <2>4 DEF Turns
<1>16. Found(n)'
  BY <1>1, <1>4, <1>5, <1>12 DEF IInv, Each, Found, About, MessageOf, Sender
<1>17. Pending(n)'
  <2>1. ~ skip => Copy(n, u).bubble = Primary(n) /\ Copy(n, u).st = "queued"
    BY <1>1, <1>3, CopyFacts DEF Copy
  <2>2. Primary(n) => Sender(n) \in DOMAIN cache.views[n]
    BY <1>1 DEF IInv, Each, Found
  <2>3. copies'[n][u] = NoCopy \/ (copies'[n][u].st = "queued" /\ copies'[n][u].bubble = Primary(n))
    BY <1>8, <2>1
  <2> QED
    BY <1>5, <1>8, <1>12, <2>2, <2>3 DEF IInv, Each, Pending
<1>18. Reached(n)'
  <2>1. Skips(n, u) => \/ u \in textOnly /\ ~ HasBody(n)
                       \/ h[n].target # NoBubble /\ wire[h[n].target].from # u
    BY <1>1 DEF IInv, Each, Found, Skips, HasView, Sender
  <2> SUFFICES ASSUME NEW v \in Users
               PROVE  \/ v \in h[n].todo \ {u}
                      \/ copies'[n][v] # NoCopy
                      \/ v = Sender(n)
                      \/ v \in h[n].moved \/ roster[v] # "active"
                      \/ v \in textOnly /\ ~ HasBody(n)
                      \/ h[n].target # NoBubble /\ wire[h[n].target].from # v
    BY <1>4, <1>5, <1>12 DEF Reached
  <2>2. CASE v = u
    BY <1>3, <1>8, <1>13, <2>1, <2>2
  <2>3. CASE v # u
    BY <1>1, <1>8, <2>3 DEF IInv, Each, Reached
  <2> QED
    BY <2>2, <2>3
<1>19. Later(n)'
  <2>1. Skips(n, u) => h[n].target # NoBubble \/ ~ HasBody(n)
    BY DEF Skips
  <2>2. \A j \in DOMAIN joins : joins[j].user \in Users
    <3>1. \A j \in DOMAIN joins : joins[j] \in Replay
      BY DEF IInv, Types, ReplayTypes
    <3> QED
      BY <3>1 DEF Replay
  <2> SUFFICES ASSUME NEW j \in DOMAIN joins, joins[j].stayed
               PROVE  \/ n \in joins[j].flying
                      \/ joins[j].user \in h[n].todo \ {u}
                      \/ copies'[n][joins[j].user] # NoCopy
                      \/ Sender(n) = joins[j].user
                      \/ h[n].target # NoBubble
                      \/ ~ HasBody(n)
    BY <1>4, <1>5, <1>12 DEF Later
  <2>3. CASE joins[j].user = u
    BY <1>3, <1>8, <1>13, <2>1, <2>3
  <2>4. CASE joins[j].user # u
    BY <1>1, <1>8, <2>2, <2>4 DEF IInv, Each, Later
  <2> QED
    BY <2>3, <2>4
<1>20. Strips(n)'
  <2>1. ~ skip => \/ Copy(n, u).body \/ Copy(n, u).with.fields # {}
                  \/ Filtered(n) = {"reply"} /\ wire[n].reply # NoId
    BY <1>1, <1>3, CopyFacts
  <2> QED
    BY <1>3, <1>5, <1>8, <1>12, <2>1 DEF IInv, Each, Strips
<1>21. Binds(n)'
  <2> DEFINE Good(v, c) ==
        /\ c.with.dict # NoId /\ h[n].target # NoBubble =>
             /\ Addressed(v, c.with.dict) /\ MessageOf(c.with.dict) = MessageOf(wire[n].dict)
             /\ wire[n].dict \in Ids
        /\ c.with.reply # NoId /\ h[n].reply # NoBubble =>
             /\ Addressed(v, c.with.reply) /\ MessageOf(c.with.reply) = MessageOf(wire[n].reply)
             /\ wire[n].reply \in Ids
  <2>1. ~ skip => Good(u, Copy(n, u))
    BY <1>1, <1>3, CopyFacts
  <2>2. \A v \in Users : copies[n][v] # NoCopy /\ copies[n][v].st = "queued" => Good(v, copies[n][v])
    BY <1>1 DEF IInv, Each, Binds
  <2>3. \A v \in Users : copies'[n][v] # NoCopy /\ copies'[n][v].st = "queued" => Good(v, copies'[n][v])
    <3> HIDE DEF Good
    <3> QED
      BY <1>8, <2>1, <2>2
  <2>4. \A v \in Users, id \in Ids :
          Addressed(v, id) => Addressed(v, id)' /\ MessageOf(id)' = MessageOf(id)
    <3> TAKE v \in Users, id \in Ids
    <3> QED
      BY <1>10, AddressedStays DEF IInv
  <2>5. \A v \in Users : copies'[n][v] # NoCopy /\ copies'[n][v].st = "queued" =>
          copies'[n][v].with.dict \in Ids \cup {NoId} /\ copies'[n][v].with.reply \in Ids \cup {NoId}
    <3> TAKE v \in Users
    <3>1. copies'[n][v] # NoCopy /\ copies'[n][v].st = "queued" => copies'[n][v] \in Queued
      BY <1>8 DEF CopyTypes, Queued, Gone
    <3> QED
      BY <3>1 DEF Queued, Content
  <2> SUFFICES ASSUME NEW v \in Users, NEW c, c = copies'[n][v], c # NoCopy, c.st = "queued"
               PROVE  /\ c.with.dict # NoId /\ h[n].target # NoBubble =>
                           /\ Addressed(v, c.with.dict)'
                           /\ MessageOf(c.with.dict) = MessageOf(wire[n].dict)
                           /\ wire[n].dict \in Ids
                      /\ c.with.reply # NoId /\ h[n].reply # NoBubble =>
                           /\ Addressed(v, c.with.reply)'
                           /\ MessageOf(c.with.reply) = MessageOf(wire[n].reply)
                           /\ wire[n].reply \in Ids
    BY <1>4, <1>5 DEF Binds, Fanning, MessageOf
  <2>6. Good(v, c) /\ c.with.dict \in Ids \cup {NoId} /\ c.with.reply \in Ids \cup {NoId}
    <3> HIDE DEF Good
    <3> QED
      BY <2>3, <2>5
  <2> QED
    BY <2>4, <2>6
<1>22. Each(n)'
  BY <1>14, <1>15, <1>16, <1>17, <1>18, <1>19, <1>20, <1>21 DEF Each
<1> QED
  BY <1>10, <1>11, <1>22

\* The copy of n for u becomes g.
Becomes(n, u, g) == copies' = [copies EXCEPT ![n][u] = g]

\* A copy is sent, or its id recorded.
LEMMA GoneFacts ==
  ASSUME IInv, NEW n \in Inbound, NEW u \in Users, copies[n][u] # NoCopy,
         NEW g \in Gone, Becomes(n, u, g)
  PROVE  /\ n \in 1 .. Len(wire) /\ u # Sender(n)
         /\ CopyTypes'
         /\ \A k \in Inbound : k # n => copies'[k] = copies[k]
         /\ \A v \in Users : v # u => copies'[n][v] = copies[n][v]
         /\ copies'[n][u] = g /\ g # NoCopy /\ g.st \in {"sent", "done"}
         /\ \A k \in Inbound, v \in Users :
              /\ copies[k][v] # NoCopy => copies'[k][v] # NoCopy
              /\ Sent(k, v) => Sent(k, v)'
         /\ Sent(n, u)'
<1>1. copies \in [Inbound -> [Users -> Queued \cup Gone \cup {NoCopy}]]
  BY DEF IInv, Types, CopyTypes
<1>2. g # NoCopy /\ g.st \in {"sent", "done"}
  BY AbsenceAssumption DEF Gone
<1>3. n \in 1 .. Len(wire) /\ u # Sender(n)
  <2>1. Unheard(n) /\ Turns(n) /\ Len(wire) \in Nat
    BY DEF IInv, Each, Types, WireTypes
  <2>2. n \in 1 .. Len(wire)
    BY NumberAssumption, <2>1 DEF Unheard, Inbound
  <2> QED
    BY <2>1, <2>2 DEF Turns
<1>4. /\ \A k \in Inbound : k # n => copies'[k] = copies[k]
      /\ \A v \in Users : v # u => copies'[n][v] = copies[n][v]
      /\ copies'[n][u] = g
  BY <1>1 DEF Becomes
<1>5. CopyTypes'
  BY <1>1 DEF CopyTypes, Becomes
<1>6. Sent(n, u)'
  BY <1>2, <1>4 DEF Sent
<1>7. ASSUME NEW k \in Inbound, NEW v \in Users
      PROVE  /\ copies[k][v] # NoCopy => copies'[k][v] # NoCopy
             /\ Sent(k, v) => Sent(k, v)'
  <2>1. CASE k = n /\ v = u
    BY <1>2, <1>4, <1>6, <2>1
  <2>2. CASE ~ (k = n /\ v = u)
    BY <1>4, <2>2 DEF Sent
  <2> QED
    BY <2>1, <2>2
<1> QED
  BY <1>2, <1>3, <1>4, <1>5, <1>6, <1>7

\* A worker's step on a copy keeps the invariant if the cache's does.
LEMMA GoneStep ==
  ASSUME IInv, NEW n \in Inbound, NEW u \in Users, copies[n][u] # NoCopy,
         NEW g \in Gone, Becomes(n, u, g),
         g.st = "sent" => Sender(n) \in DOMAIN cache.views[n],
         CacheTypes', Cached', Views',
         \A b \in Inbound : DOMAIN cache.views[b] \subseteq DOMAIN cache'.views[b],
         UNCHANGED <<people, wire, h, past, joins, counters>>
  PROVE  IInv'
<1>1. /\ n \in 1 .. Len(wire) /\ u # Sender(n)
      /\ CopyTypes'
      /\ \A k \in Inbound : k # n => copies'[k] = copies[k]
      /\ \A v \in Users : v # u => copies'[n][v] = copies[n][v]
      /\ copies'[n][u] = g /\ g # NoCopy /\ g.st \in {"sent", "done"}
      /\ \A k \in Inbound, v \in Users :
           /\ copies[k][v] # NoCopy => copies'[k][v] # NoCopy
           /\ Sent(k, v) => Sent(k, v)'
  BY GoneFacts
<1>2. HandlerTypes'
  BY DEF IInv, Types, HandlerTypes
<1>3. Types' /\ Env /\ Keeps /\ (Each(n)' => IInv')
  BY <1>1, <1>2, OneStep
<1>4. /\ wire' = wire /\ roster' = roster /\ banned' = banned /\ textOnly' = textOnly
      /\ joins' = joins /\ h' = h /\ crashes' = crashes
  BY DEF people, counters
<1>5. /\ HasBody(n)' = HasBody(n) /\ Filtered(n)' = Filtered(n) /\ Sender(n)' = Sender(n)
      /\ Primary(n)' = Primary(n)
  BY <1>4 DEF HasBody, Noted, Filtered, Sender, Primary
<1>6. Sender(n) \in Users
  BY <1>1, Received DEF IInv, Types, Sender
<1>7. Unheard(n)' /\ Gate(n)' /\ Something(n)'
  BY <1>1, <1>4, <1>5 DEF IInv, Each, Unheard, Gate, Something, Running, Types, WireTypes
<1>8. Turns(n)'
  <2>1. copies'[n][Sender(n)] = NoCopy
    BY <1>1, <1>6 DEF IInv, Each, Turns, Types, WireTypes
  <2>2. ASSUME NEW v \in Users, Running(n)
        PROVE  copies'[n][v] = NoCopy \/ (Fanning(n) /\ v \notin h[n].todo)
    <3>1. copies[n][v] = NoCopy \/ (Fanning(n) /\ v \notin h[n].todo)
      BY <2>2 DEF IInv, Each, Turns
    <3> QED
      BY <1>1, <3>1
  <2>3. Fanning(n) => Sender(n) \notin h[n].todo
    BY DEF IInv, Each, Turns
  <2> QED
    BY <1>4, <1>5, <2>1, <2>2, <2>3 DEF Turns, Running, Fanning
<1>9. Found(n)'
  <2>1. h[n].target \in Targeted
    BY Kinds DEF IInv, Types
  <2>2. Found(n)
    BY DEF IInv, Each
  <2> QED
    BY <1>4, <1>5, <2>1, <2>2 DEF Found, About, MessageOf, Sender, Targeted
<1>10. Pending(n)'
  <2>1. Pending(n)
    BY DEF IInv, Each
  <2>2. ASSUME NEW v \in Users
        PROVE  \/ copies'[n][v] = NoCopy
               \/ copies'[n][v].st = "done"
               \/ copies'[n][v].st = "queued" /\ ~ copies'[n][v].bubble
               \/ Sender(n) \in DOMAIN cache'.views[n]
    <3>1. CASE v = u
      BY <1>1, <3>1
    <3>2. CASE v # u
      BY <1>1, <2>1, <3>2 DEF Pending
    <3> QED
      BY <3>1, <3>2
  <2> QED
    BY <1>5, <2>2 DEF Pending
<1>11. Reached(n)'
  BY <1>1, <1>4, <1>5 DEF IInv, Each, Reached, Fanning
<1>12. Later(n)'
  <2>1. \A j \in DOMAIN joins : joins[j].user \in Users
    <3>1. \A j \in DOMAIN joins : joins[j] \in Replay
      BY DEF IInv, Types, ReplayTypes
    <3> QED
      BY <3>1 DEF Replay
  <2> QED
    BY <1>1, <1>4, <1>5, <2>1 DEF IInv, Each, Later, Fanning
<1>13. Strips(n)'
  BY <1>1, <1>4, <1>5 DEF IInv, Each, Strips
<1>14. Binds(n)'
  <2> SUFFICES ASSUME NEW v \in Users, NEW c, c = copies[n][v], c # NoCopy, c.st = "queued"
               PROVE  /\ c.with.dict # NoId /\ h[n].target # NoBubble =>
                           /\ Addressed(v, c.with.dict)'
                           /\ MessageOf(c.with.dict) = MessageOf(wire[n].dict)
                           /\ wire[n].dict \in Ids
                      /\ c.with.reply # NoId /\ Fanning(n) /\ h[n].reply # NoBubble =>
                           /\ Addressed(v, c.with.reply)'
                           /\ MessageOf(c.with.reply) = MessageOf(wire[n].reply)
                           /\ wire[n].reply \in Ids
    BY <1>1, <1>4 DEF Binds, Fanning, MessageOf
  <2>1. c.with.dict \in Ids \cup {NoId} /\ c.with.reply \in Ids \cup {NoId}
    <3>1. c \in Queued
      BY CopyKinds DEF IInv, Types
    <3> QED
      BY <3>1 DEF Queued, Content
  <2>2. ASSUME NEW id \in Ids, Addressed(v, id)
        PROVE  Addressed(v, id)'
    BY <1>3, <2>2, AddressedStays DEF IInv
  <2> QED
    BY <2>1, <2>2 DEF IInv, Each, Binds
<1> QED
  BY <1>3, <1>7, <1>8, <1>9, <1>10, <1>11, <1>12, <1>13, <1>14 DEF Each

\* A copy is sent.
LEMMA DeliverStep ==
  ASSUME IInv, NEW n \in Inbound, NEW u \in Users, Deliver(n, u)
  PROVE  IInv'
<1>1. /\ copies[n][u] # NoCopy /\ copies[n][u].st = "queued"
      /\ UNCHANGED <<people, wire, h, cache, past, joins, counters>>
  BY DEF Deliver
<1>2. PICK here \in BOOLEAN :
        copies' = [copies EXCEPT ![n][u] =
          [st |-> IF copies[n][u].bubble THEN "sent" ELSE "done", here |-> here]]
  BY DEF Deliver
<1> DEFINE g == [st |-> IF copies[n][u].bubble THEN "sent" ELSE "done", here |-> here]
<1>3. g \in Gone /\ (g.st = "sent" => copies[n][u].bubble)
  BY DEF Gone
<1>4. Becomes(n, u, g)
  BY <1>2 DEF Becomes
<1> HIDE DEF g
<1>5. g.st = "sent" => Sender(n) \in DOMAIN cache.views[n]
  BY <1>1, <1>3 DEF IInv, Each, Pending
<1>6. CacheTypes' /\ Cached'
  BY <1>1 DEF IInv, Types, CacheTypes, Cached
<1>7. Views'
  <2>1. \A k \in Inbound, v \in Users : Sent(k, v) => Sent(k, v)'
    BY <1>1, <1>3, <1>4, GoneFacts
  <2>2. \A b \in Inbound : DOMAIN cache.views[b] \subseteq Users
    BY NumberAssumption, CacheFields, MapFacts DEF IInv, Types, CacheTypes, Inbound
  <2> QED
    BY <1>1, <2>1, <2>2 DEF IInv, Views, Sender
<1> QED
  BY <1>1, <1>3, <1>4, <1>5, <1>6, <1>7, GoneStep

\* The id of a sent copy is recorded.
LEMMA RegisterStep ==
  ASSUME IInv, NEW n \in Inbound, NEW u \in Users, Register(n, u)
  PROVE  IInv'
<1>1. /\ copies[n][u] # NoCopy /\ copies[n][u].st = "sent"
      /\ cache' = RegisterView(cache, n, u, <<n, u>>, clock)
      /\ copies' = [copies EXCEPT ![n][u].st = "done"]
      /\ UNCHANGED <<people, wire, h, past, joins, counters>>
  BY DEF Register
<1> DEFINE g == [copies[n][u] EXCEPT !.st = "done"]
<1>2. copies[n][u] \in Gone
  BY <1>1 DEF IInv, Types, CopyTypes, Queued
<1>3. g \in Gone /\ g.st # "sent"
  BY <1>2 DEF Gone
<1>4. Becomes(n, u, g)
  BY <1>1 DEF Becomes
<1> HIDE DEF g
<1>5. /\ n \in 1 .. Len(wire) /\ u # Sender(n)
      /\ \A k \in Inbound, v \in Users : Sent(k, v) => Sent(k, v)'
      /\ Sent(n, u)'
  BY <1>1, <1>3, <1>4, GoneFacts
<1>6. Sender(n) \in DOMAIN cache.views[n]
  BY <1>1 DEF IInv, Each, Pending
<1>7. cache' = RegisterView(cache, n, u, IdFor(n, u), clock)
  BY <1>1, <1>5 DEF IdFor
<1>8. /\ CacheTypes' /\ Cached' /\ Views'
      /\ \A b \in Inbound : DOMAIN cache.views[b] \subseteq DOMAIN cache'.views[b]
  <2>1. cache \in CacheOf(Users, Ids) /\ Anchored(cache) /\ Bounded(cache)
    BY DEF IInv, Types, CacheTypes, Cached
  <2>2. wire' = wire
    BY <1>1
  <2> QED
    BY <1>5, <1>6, <1>7, <2>1, <2>2, ViewAdded
<1> QED
  BY <1>1, <1>3, <1>4, <1>8, GoneStep

-----------------------------------------------------------------------------
(* The end of a goroutine *)

\* An entry is appended: while every write succeeds the history is the end of the log.
LEMMA AppendFacts ==
  ASSUME IInv, NEW n \in Inbound, AppendEntry(n)
  PROVE  /\ PastTypes' /\ LogKept'
         /\ Messages(log') \subseteq Messages(log) \cup {n}
         /\ saveFails' \in Nat /\ (saveFails' = 0 => saveFails = 0)
<1> DEFINE e == Logged(n)
<1>1. e \in Entry /\ e.n = n
  <2>1. h[n].at \in Nat
    BY Kinds DEF IInv, Types
  <2> QED
    BY <2>1 DEF Logged, Entry
<1>2. /\ hist' = LastOf(Append(hist, e), Capacity) /\ log' = Append(log, e)
      /\ \/ disk' = hist' /\ saveFails' = saveFails
         \/ saveFails' = saveFails + 1 /\ disk' = disk
  BY DEF AppendEntry, Persist
<1> HIDE DEF e
<1>3. /\ hist \in Seq(Entry) /\ disk \in Seq(Entry) /\ log \in Seq(Entry)
      /\ Len(hist) <= Capacity /\ Len(disk) <= Capacity
      /\ Range(hist) \subseteq Range(log) /\ Range(disk) \subseteq Range(log)
      /\ saveFails \in Nat
  BY DEF IInv, Types, PastTypes, CountTypes
<1>4. ASSUME NEW s \in Seq(Entry)
      PROVE  Append(s, e) \in Seq(Entry) /\ Range(Append(s, e)) = Range(s) \cup {e}
  <2>1. /\ DOMAIN s = 1 .. Len(s) /\ DOMAIN Append(s, e) = 1 .. (Len(s) + 1)
        /\ \A i \in 1 .. Len(s) : Append(s, e)[i] = s[i]
        /\ Append(s, e)[Len(s) + 1] = e
        /\ Len(s) \in Nat
    BY <1>1
  <2> QED
    BY <1>1, <2>1 DEF Range
<1>5. /\ hist' \in Seq(Entry) /\ Len(hist') <= Capacity
      /\ Range(hist') \subseteq Range(Append(hist, e))
  <2>1. PICK s \in Seq(Entry) : s = Append(hist, e)
    BY <1>3, <1>4
  <2>2. LastOf(s, Capacity) \in Seq(Entry) /\ Len(LastOf(s, Capacity)) <= Capacity
    <3>1. Len(s) \in Nat
      BY <2>1
    <3> QED
      BY <3>1, CapacityPositive, LastOfFacts
  <2>3. Range(LastOf(s, Capacity)) \subseteq Range(s)
    BY CapacityPositive, LastOfRange
  <2> QED
    BY <1>2, <2>1, <2>2, <2>3
<1>6. PastTypes'
  <2>1. log' \in Seq(Entry) /\ Range(log') = Range(log) \cup {e}
    BY <1>2, <1>3, <1>4
  <2>2. Range(hist') \subseteq Range(log')
    BY <1>3, <1>4, <1>5, <2>1
  <2>3. /\ disk' \in Seq(Entry) /\ Len(disk') <= Capacity
        /\ Range(disk') \subseteq Range(log')
    BY <1>2, <1>3, <1>5, <2>1, <2>2
  <2> QED
    BY <1>5, <2>1, <2>2, <2>3 DEF PastTypes, Capacity
<1>7. LogKept'
  <2> SUFFICES ASSUME saveFails' = 0
               PROVE  hist' = LastOf(log', Capacity) /\ disk' = hist'
    BY DEF LogKept, LastOf, Capacity
  <2>1. saveFails = 0 /\ disk' = hist'
    BY <1>2, <1>3
  <2>2. hist = LastOf(log, Capacity)
    BY <2>1 DEF IInv, LogKept
  <2>3. hist' = LastOf(Append(LastOf(log, Capacity), e), Capacity)
    BY <1>2, <2>2
  <2>4. LastOf(Append(LastOf(log, Capacity), e), Capacity) = LastOf(Append(log, e), Capacity)
    BY <1>1, <1>3, CapacityPositive, LastOfAppend
  <2> QED
    BY <1>2, <2>1, <2>3, <2>4
<1>8. Messages(log') \subseteq Messages(log) \cup {n}
  BY <1>1, <1>2, <1>3 DEF Messages
<1> QED
  BY <1>2, <1>3, <1>6, <1>7, <1>8

\* The goroutine ends after its fan-out.
LEMMA FinishStep ==
  ASSUME IInv, NEW n \in Inbound, Finish(n)
  PROVE  IInv'
<1>1. /\ h[n].pc = "fan" /\ h[n] \in FanG /\ Running(n) /\ Fanning(n) /\ h[n].todo = {}
      /\ UNCHANGED <<people, wire, copies, cache, joins, counters>>
  BY Kinds DEF Finish, Running, Fanning, IInv, Types
<1>2. n \in 1 .. Len(wire)
  BY <1>1, RunningHeard DEF IInv, Each
<1>3. PICK what \in Told : what = ""
  BY Zenon DEF Told
<1>4. h' = [h EXCEPT ![n] = Ended(what, h[n].at, h[n].target)]
  BY <1>3, Zenon DEF Finish
<1>5. /\ HandlerTypes' /\ \A k \in Inbound : k # n => h'[k] = h[k]
      /\ h'[n].pc = "ended" /\ h'[n].target = h[n].target
  <2>1. PICK g : g = Ended(what, h[n].at, h[n].target)
    OBVIOUS
  <2>2. g \in EndedG /\ g.pc = "ended" /\ g.target = h[n].target
    BY <1>1, <2>1 DEF Ended, EndedG, FanG
  <2>3. h' = [h EXCEPT ![n] = g]
    BY <1>4, <2>1
  <2> QED
    BY <2>2, <2>3 DEF HandlerTypes, IInv, Types
<1>6. /\ PastTypes' /\ LogKept'
      /\ Messages(log) \subseteq Messages(log')
      /\ Messages(log') \subseteq Messages(log) \cup {n}
      /\ n \in Messages(log') \ Messages(log) => wire[n].shape.text
      /\ saveFails' \in Nat /\ (saveFails' = 0 => saveFails = 0)
  <2>1. CASE h[n].sent /\ wire[n].shape.text
    <3>1. AppendEntry(n)
      BY <2>1 DEF Finish
    <3>2. Messages(log) \subseteq Messages(log')
      <4>1. log' = Append(log, Logged(n)) /\ log \in Seq(Entry)
        BY <3>1 DEF AppendEntry, IInv, Types, PastTypes
      <4>2. \A i \in DOMAIN log : i \in DOMAIN log' /\ log'[i] = log[i]
        BY <4>1
      <4> QED
        BY <4>2 DEF Messages
    <3> QED
      BY <2>1, <3>1, <3>2, AppendFacts
  <2>2. CASE ~ (h[n].sent /\ wire[n].shape.text)
    <3>1. UNCHANGED past
      BY <2>2 DEF Finish
    <3>2. PastTypes' /\ LogKept'
      BY <3>1 DEF past, IInv, Types, PastTypes, LogKept, Capacity, LastOf
    <3> QED
      BY <3>1, <3>2 DEF past, IInv, Types, CountTypes
  <2> QED
    BY <2>1, <2>2
<1>7. Types'
  BY <1>1, <1>5, <1>6 DEF IInv, Types, PeopleTypes, WireTypes, CopyTypes, CacheTypes,
     ReplayTypes, CountTypes, people, counters, time
<1>8. /\ Grows /\ wire' = wire /\ joins' = joins /\ copies' = copies /\ cache' = cache
      /\ roster' = roster /\ crashes' = crashes
  BY <1>1 DEF Grows, people, counters, IInv, Types, WireTypes
<1>9. Env
  BY <1>8 DEF Env, Sent
<1>10. Keeps
  <2>1. \A k \in 1 .. Len(wire) : k \in Inbound
    BY Received DEF IInv, Types
  <2>2. \A k \in Inbound :
          h[k].pc = "ended" => h'[k].pc = "ended" /\ h'[k].target = h[k].target
    BY <1>5
  <2> QED
    BY <1>8, <2>1, <2>2 DEF Keeps
<1>11. ASSUME NEW k \in Inbound, k # n
       PROVE  Each(k)'
  <2>1. Apart(k)
    BY <1>1, <1>5, <1>8, <1>11 DEF Apart, Like, people
  <2> QED
    BY <1>7, <1>9, <2>1, ApartKeeps DEF IInv
<1>12. Each(n)'
  <2>1. /\ Unheard(n)' /\ Gate(n)' /\ Something(n)' /\ Found(n)' /\ Reached(n)' /\ Later(n)'
    BY <1>2, <1>5, <1>8 DEF Unheard, Gate, Something, Found, Reached, Later, Running, Fanning,
       Types, WireTypes, IInv
  <2>2. Turns(n)' /\ Pending(n)' /\ Strips(n)'
    BY <1>5, <1>8 DEF IInv, Each, Turns, Pending, Strips, Running, Fanning, Sender, Filtered
  <2>3. Binds(n)'
    BY <1>5, <1>8 DEF IInv, Each, Binds, Fanning, Addressed, Sent, MessageOf
  <2> QED
    BY <2>1, <2>2, <2>3 DEF Each
<1>13. Wired' /\ Views' /\ Cached' /\ Stays'
  <2>1. Views'
    BY <1>7, <1>8, <1>9, ViewsKeep DEF IInv
  <2> QED
    BY <1>8, <2>1 DEF IInv, Wired, Cached, Stays
<1>14. LogEnded'
  <2> SUFFICES ASSUME NEW m \in Messages(log')
               PROVE  m <= Len(wire) /\ wire[m].shape.text /\ h'[m].pc = "ended"
    BY <1>8 DEF LogEnded
  <2>1. CASE m \in Messages(log)
    <3>1. m \in 1 .. Len(wire) /\ m \in Inbound
      BY <2>1, LogHeard DEF IInv
    <3> QED
      BY <1>10, <2>1, <3>1 DEF IInv, LogEnded, Keeps
  <2>2. CASE m \notin Messages(log)
    BY <1>2, <1>5, <1>6, <2>2 DEF IInv, Types, WireTypes
  <2> QED
    BY <2>1, <2>2
<1>15. ASSUME NEW j \in DOMAIN joins
       PROVE  Replays(j)'
  <2>1. SameJoin(j)
    BY <1>8 DEF SameJoin
  <2>2. joins[j].user \in Users
    <3>1. joins[j] \in Replay
      BY DEF IInv, Types, ReplayTypes
    <3> QED
      BY <3>1 DEF Replay
  <2>3. Replays(j)
    BY DEF IInv
  <2>4. ASSUME joins[j].pc # "read", joins[j].stayed, saveFails' = 0, NEW m \in Messages(log')
        PROVE  Served(j, m)' \/ m \in Messages(joins[j].left)
    <3>1. CASE m \in Messages(log)
      <4>1. Served(j, m) \/ m \in Messages(joins[j].left)
        BY <1>6, <2>3, <2>4, <3>1 DEF Replays
      <4>2. Served(j, m) => Served(j, m)'
        BY <1>10, <2>1, <2>2, <3>1, ServedStays DEF IInv
      <4> QED
        BY <4>1, <4>2
    <3>2. CASE m \notin Messages(log)
      <4>1. m = n /\ HasBody(n)
        BY <1>6, <2>4, <3>2 DEF HasBody
      <4>2. \/ n \in joins[j].flying
            \/ copies[n][joins[j].user] # NoCopy
            \/ Sender(n) = joins[j].user
            \/ h[n].target # NoBubble
        BY <1>1, <2>4, <4>1 DEF IInv, Each, Later
      <4> QED
        BY <1>5, <1>8, <4>1, <4>2 DEF Served, Sender
    <3> QED
      BY <3>1, <3>2
  <2> QED
    BY <1>8, <2>3, <2>4 DEF Replays
<1> QED
  BY <1>6, <1>7, <1>8, <1>11, <1>12, <1>13, <1>14, <1>15 DEF IInv

-----------------------------------------------------------------------------
(* The process *)

\* What a restart finds of a copy: as much as there was, with no fields, and nothing
\* to record.
LEMMA ReloadedFacts ==
  ASSUME NEW c \in Queued \cup Gone \cup {NoCopy}
  PROVE  /\ Reloaded(c) \in Queued \cup Gone \cup {NoCopy}
         /\ Reloaded(c) = NoCopy <=> c = NoCopy
         /\ c # NoCopy => Reloaded(c).st \in {"queued", "done"}
         /\ c # NoCopy /\ Reloaded(c).st = "queued" =>
              Reloaded(c).bubble = FALSE /\ Reloaded(c).with = NoFields
<1>1. CASE c = NoCopy
  BY <1>1 DEF Reloaded
<1>2. CASE c # NoCopy /\ c \in Gone
  <2>1. Reloaded(c) = [c EXCEPT !.st = "done"]
    BY <1>2 DEF Reloaded, Gone
  <2>2. [c EXCEPT !.st = "done"] \in Gone /\ [c EXCEPT !.st = "done"].st = "done"
    BY <1>2 DEF Gone
  <2> QED
    BY <1>2, <2>1, <2>2, CopyThere
<1>3. CASE c # NoCopy /\ c \in Queued
  <2>1. Reloaded(c) = [[c EXCEPT !.bubble = FALSE] EXCEPT !.with = NoFields]
    BY <1>3 DEF Reloaded, Queued
  <2>2. NoFields \in Content
    BY DEF NoFields, Content
  <2>3. [c EXCEPT !.bubble = FALSE] \in Queued
    BY <1>3 DEF Queued
  <2>4. ASSUME NEW d \in Queued, d.bubble = FALSE
        PROVE  /\ [d EXCEPT !.with = NoFields] \in Queued
               /\ [d EXCEPT !.with = NoFields].st = "queued"
               /\ [d EXCEPT !.with = NoFields].bubble = FALSE
               /\ [d EXCEPT !.with = NoFields].with = NoFields
    BY <2>2, <2>4 DEF Queued
  <2>5. [c EXCEPT !.bubble = FALSE].bubble = FALSE
    BY <1>3 DEF Queued
  <2> HIDE DEF NoFields
  <2>6. /\ Reloaded(c) \in Queued
        /\ Reloaded(c).st = "queued"
        /\ Reloaded(c).bubble = FALSE
        /\ Reloaded(c).with = NoFields
    BY <2>1, <2>3, <2>4, <2>5
  <2> QED
    BY <1>3, <2>6, CopyThere
<1> QED
  BY <1>1, <1>2, <1>3

\* The process crashes and starts again.
LEMMA CrashStep ==
  ASSUME IInv, Crash
  PROVE  IInv'
<1>1. /\ crashes' = crashes + 1 /\ crashes \in Nat
      /\ cache' = EmptyCache /\ hist' = disk
      /\ UNCHANGED <<people, wire, disk, log, saveFails, time, cmds>>
  BY DEF Crash, IInv, Types, CountTypes
<1>2. /\ HandlerTypes'
      /\ \A n \in Inbound : h'[n].pc = "ended" /\ h'[n].target = h[n].target
  <2>1. PICK what \in Told : what = ""
    BY Zenon DEF Told
  <2>2. h' = [n \in Inbound |->
                IF Running(n) THEN Ended(what, h[n].at, h[n].target) ELSE h[n]]
    BY <2>1, Zenon DEF Crash
  <2>3. ASSUME NEW n \in Inbound
        PROVE  h'[n] \in EndedG /\ h'[n].pc = "ended" /\ h'[n].target = h[n].target
    <3>1. h[n].target \in Targeted /\ h[n].at \in Nat /\ (h[n].pc = "ended" => h[n] \in EndedG)
      BY Kinds DEF IInv, Types
    <3>2. CASE Running(n)
      <4>1. h'[n] = Ended(what, h[n].at, h[n].target)
        BY <2>2, <3>2
      <4> QED
        BY <3>1, <4>1 DEF Ended, EndedG
    <3>3. CASE ~ Running(n)
      BY <2>2, <3>1, <3>3 DEF Running
    <3> QED
      BY <3>2, <3>3
  <2>4. DOMAIN h' = Inbound /\ h' = [n \in Inbound |-> h'[n]]
    BY <2>2
  <2> QED
    BY <2>3, <2>4 DEF HandlerTypes
<1>3. /\ CopyTypes'
      /\ \A n \in Inbound, u \in Users :
           /\ copies'[n][u] = NoCopy <=> copies[n][u] = NoCopy
           /\ copies'[n][u] # NoCopy =>
                \/ copies'[n][u].st = "done"
                \/ /\ copies'[n][u].st = "queued"
                   /\ copies'[n][u].bubble = FALSE /\ copies'[n][u].with = NoFields
  <2>1. copies' = [n \in Inbound |-> [u \in Users |-> Reloaded(copies[n][u])]]
    BY DEF Crash
  <2>2. ASSUME NEW n \in Inbound, NEW u \in Users
        PROVE  /\ copies'[n][u] = Reloaded(copies[n][u])
               /\ copies[n][u] \in Queued \cup Gone \cup {NoCopy}
    BY <2>1 DEF IInv, Types, CopyTypes
  <2>3. ASSUME NEW n \in Inbound, NEW u \in Users
        PROVE  /\ copies'[n][u] \in Queued \cup Gone \cup {NoCopy}
               /\ copies'[n][u] = NoCopy <=> copies[n][u] = NoCopy
               /\ copies'[n][u] # NoCopy =>
                    \/ copies'[n][u].st = "done"
                    \/ /\ copies'[n][u].st = "queued"
                       /\ copies'[n][u].bubble = FALSE /\ copies'[n][u].with = NoFields
    <3>1. PICK c \in Queued \cup Gone \cup {NoCopy} : c = copies[n][u] /\ copies'[n][u] = Reloaded(c)
      BY <2>2
    <3> QED
      BY <3>1, ReloadedFacts
  <2>4. CopyTypes'
    BY <2>1, <2>2, <2>3 DEF CopyTypes
  <2> QED
    BY <2>3, <2>4
<1>4. /\ CacheTypes' /\ Cached'
      /\ \A b \in Inbound : DOMAIN cache'.views[b] = {}
  BY <1>1, EmptyCacheFacts, NumberAssumption DEF CacheTypes, Cached, Inbound
<1>5. /\ ReplayTypes' /\ DOMAIN joins' = DOMAIN joins
      /\ \A j \in DOMAIN joins :
           /\ joins[j].pc = "ended" => joins'[j] = joins[j]
           /\ joins[j].pc # "ended" => joins'[j].pc = "ended" /\ joins'[j].stayed = FALSE
  <2>1. joins \in Seq(Replay)
    BY DEF IInv, Types, ReplayTypes
  <2>2. /\ joins' = [j \in DOMAIN joins |-> joins'[j]]
        /\ \A j \in DOMAIN joins :
             joins'[j] = IF joins[j].pc = "ended" THEN joins[j]
                         ELSE [joins[j] EXCEPT !.pc = "ended", !.stayed = FALSE]
    BY DEF Crash
  <2>3. ASSUME NEW j \in DOMAIN joins
        PROVE  /\ joins'[j] \in Replay
               /\ joins[j].pc = "ended" => joins'[j] = joins[j]
               /\ joins[j].pc # "ended" => joins'[j].pc = "ended" /\ joins'[j].stayed = FALSE
    <3>1. joins[j] \in Replay
      BY <2>1
    <3>2. ASSUME NEW r \in Replay
          PROVE  /\ [r EXCEPT !.pc = "ended", !.stayed = FALSE] \in Replay
                 /\ [r EXCEPT !.pc = "ended", !.stayed = FALSE].pc = "ended"
                 /\ [r EXCEPT !.pc = "ended", !.stayed = FALSE].stayed = FALSE
      <4>1. [r EXCEPT !.pc = "ended"] \in Replay
        BY DEF Replay
      <4>2. [r EXCEPT !.pc = "ended", !.stayed = FALSE]
              = [[r EXCEPT !.pc = "ended"] EXCEPT !.stayed = FALSE]
        BY DEF Replay
      <4>3. ASSUME NEW q \in Replay
            PROVE  [q EXCEPT !.stayed = FALSE] \in Replay
        BY DEF Replay
      <4> QED
        BY <4>1, <4>2, <4>3 DEF Replay
    <3> QED
      BY <2>2, <3>1, <3>2
  <2>4. joins' \in Seq(Replay)
    <3>1. DOMAIN joins = 1 .. Len(joins) /\ Len(joins) \in Nat
      BY <2>1
    <3>2. DOMAIN joins' = DOMAIN joins /\ \A j \in DOMAIN joins : joins'[j] \in Replay
      BY <2>2, <2>3
    <3>3. joins' \in [1 .. Len(joins) -> Replay]
      BY <2>2, <3>1, <3>2, Zenon
    <3> QED
      BY <3>1, <3>3
  <2> QED
    BY <2>2, <2>3, <2>4 DEF ReplayTypes
<1>6. Types'
  BY <1>1, <1>2, <1>3, <1>4, <1>5 DEF IInv, Types, PeopleTypes, WireTypes, CountTypes,
     PastTypes, people, time, Capacity
<1>7. wire' = wire /\ roster' = roster /\ log' = log /\ saveFails' = saveFails /\ disk' = disk
  BY <1>1 DEF people
<1>8. Keeps
  <2>1. \A k \in 1 .. Len(wire) : k \in Inbound
    BY Received DEF IInv, Types
  <2>2. Grows
    BY <1>7 DEF Grows, IInv, Types, WireTypes
  <2> QED
    BY <1>2, <1>3, <2>1, <2>2 DEF Keeps
<1>9. ASSUME NEW n \in Inbound
      PROVE  Each(n)'
  <2>1. h'[n].pc = "ended" /\ h'[n].target = h[n].target
    BY <1>2
  <2>2. Unheard(n)'
    BY <1>3, <1>7, <2>1 DEF IInv, Each, Unheard
  <2>3. Gate(n)' /\ Something(n)' /\ Found(n)' /\ Reached(n)' /\ Later(n)'
    BY <2>1 DEF Gate, Something, Found, Reached, Later, Running, Fanning
  <2>4. Turns(n)'
    <3>1. n <= Len(wire) => n \in 1 .. Len(wire)
      BY NumberAssumption DEF Inbound, IInv, Types, WireTypes
    <3>2. n <= Len(wire) => Sender(n) \in Users
      BY <3>1, Received DEF IInv, Types, Sender
    <3> QED
      BY <1>3, <1>7, <2>1, <3>2 DEF IInv, Each, Turns, Running, Fanning, Sender
  <2>5. Pending(n)'
    BY <1>3 DEF Pending
  <2>6. Binds(n)'
    BY <1>3, <2>1 DEF Binds, NoFields
  <2>7. Strips(n)'
    BY <1>1 DEF Strips
  <2> QED
    BY <2>2, <2>3, <2>4, <2>5, <2>6, <2>7 DEF Each
<1>10. Wired' /\ Views'
  BY <1>4, <1>7 DEF IInv, Wired, Views
<1>11. LogEnded'
  BY <1>7, <1>8, LogEndedKeeps DEF IInv
<1>12. LogKept'
  BY <1>1, <1>7 DEF IInv, LogKept, LastOf, Capacity
<1>13. Stays'
  BY <1>5, <1>7 DEF IInv, Stays
<1>14. ASSUME NEW j \in DOMAIN joins
       PROVE  Replays(j)'
  <2>1. CASE joins[j].pc = "ended"
    <3>1. SameJoin(j)
      BY <1>5, <2>1 DEF SameJoin
    <3> QED
      BY <1>7, <1>8, <3>1, ReplayKeeps DEF IInv
  <2>2. CASE joins[j].pc # "ended"
    <3>1. joins'[j].pc = "ended" /\ joins'[j].stayed = FALSE
      BY <1>5, <2>2
    <3> QED
      BY <3>1 DEF Replays
  <2> QED
    BY <2>1, <2>2
<1> QED
  BY <1>4, <1>5, <1>6, <1>9, <1>10, <1>11, <1>12, <1>13, <1>14 DEF IInv

-----------------------------------------------------------------------------
(* The beginning and every step *)

\* Nothing has been received.
LEMMA InitStep ==
  ASSUME Init
  PROVE  IInv
<1>1. /\ wire = <<>> /\ Len(wire) = 0 /\ joins = <<>> /\ hist = <<>> /\ disk = <<>> /\ log = <<>>
      /\ \A n \in Inbound, u \in Users : copies[n][u] = NoCopy
      /\ DOMAIN joins = {} /\ DOMAIN log = {} /\ DOMAIN wire = {}
      /\ crashes = 0 /\ saveFails = 0
  BY DEF Init
<1>2. /\ HandlerTypes
      /\ \A n \in Inbound : h[n].pc = "ended" /\ h[n].target = NoBubble
  <2>1. PICK what \in Told : what = ""
    BY Zenon DEF Told
  <2>2. PICK g : g = Ended(what, 0, NoBubble)
    OBVIOUS
  <2>3. h = [n \in Inbound |-> g]
    BY <2>1, <2>2, Zenon DEF Init, Idle
  <2>4. g \in EndedG /\ g.pc = "ended" /\ g.target = NoBubble
    BY <2>2 DEF Ended, EndedG, Targeted
  <2> QED
    BY <2>3, <2>4 DEF HandlerTypes
<1>3. /\ CacheTypes /\ Cached
      /\ \A b \in Inbound : DOMAIN cache.views[b] = {}
  BY EmptyCacheFacts, NumberAssumption DEF Init, CacheTypes, Cached, Inbound
<1>4. PeopleTypes
  BY ShapeAssumption DEF Init, PeopleTypes
<1>5. CopyTypes
  BY DEF Init, CopyTypes
<1>6. WireTypes /\ ReplayTypes /\ CountTypes
  BY NumberAssumption DEF Init, WireTypes, ReplayTypes, CountTypes
<1>7. PastTypes
  BY <1>1, CapacityPositive DEF PastTypes, Range
<1>8. LogKept
  <2>1. PICK s : s = <<>>
    OBVIOUS
  <2>2. s \in Seq(Entry) /\ Len(s) = 0
    BY <2>1
  <2>3. LastOf(s, Capacity) \in Seq(Entry) /\ Len(LastOf(s, Capacity)) = 0
    <3>1. PICK k \in Nat \ {0} : k = Capacity
      BY CapacityPositive
    <3>2. LastOf(s, k) \in Seq(Entry) /\ Len(LastOf(s, k)) = IF Len(s) > k THEN k ELSE Len(s)
      BY <2>2, LastOfFacts
    <3> QED
      BY <2>2, <3>1, <3>2
  <2>4. LastOf(<<>>, Capacity) = <<>>
    BY <2>1, <2>3
  <2> QED
    BY <1>1, <2>4 DEF LogKept
<1>9. ASSUME NEW n \in Inbound
      PROVE  Each(n)
  <2>1. ~ (n <= Len(wire))
    BY <1>1 DEF Inbound
  <2> QED
    BY <1>1, <1>2, <2>1 DEF Each, Unheard, Gate, Turns, Something, Found, Pending, Reached, Binds,
       Strips, Later, Running, Fanning
<1>10. Wired /\ Views /\ LogEnded /\ Stays /\ \A j \in DOMAIN joins : Replays(j)
  BY <1>1, <1>3 DEF Wired, Views, LogEnded, Stays, Messages
<1> QED
  BY <1>2, <1>3, <1>4, <1>5, <1>6, <1>7, <1>8, <1>9, <1>10 DEF IInv, Types

\* A step of the goroutine of message n.
LEMMA HandleStep ==
  ASSUME IInv, NEW n \in Inbound, Handle(n)
  PROVE  IInv'
BY CheckMemberStep, CheckPausedStep, BuildRewriteStep, RegisterSenderStep, SnapshotStep,
   ForwardStep, FinishStep DEF Handle

\* Nothing happens.
LEMMA StutterStep ==
  ASSUME IInv, UNCHANGED vars
  PROVE  IInv'
<1> USE DEF vars
<1>1. Types'
  BY DEF IInv, Types, PeopleTypes, WireTypes, HandlerTypes, CopyTypes, CacheTypes, ReplayTypes,
     CountTypes, PastTypes, Capacity
<1>2. \A n \in Inbound : Each(n)'
  <2>1. Grows
    BY DEF Grows, IInv, Types, WireTypes
  <2>2. Env
    BY <2>1 DEF Env, Sent
  <2>3. \A n \in Inbound : Apart(n)
    BY DEF Apart, Like
  <2> QED
    BY <1>1, <2>2, <2>3, ApartKeeps DEF IInv
<1>3. Wired' /\ Views' /\ Cached' /\ LogEnded' /\ LogKept' /\ Stays'
  BY DEF IInv, Wired, Views, Cached, LogEnded, LogKept, Stays, Sender, Sent, Messages, LastOf,
     Capacity
<1>4. \A j \in DOMAIN joins' : Replays(j)'
  BY DEF IInv, Replays, Served, Messages
<1> QED
  BY <1>1, <1>2, <1>3, <1>4 DEF IInv

\* Every step keeps the invariant.
LEMMA NextStep ==
  ASSUME IInv, [Next]_vars
  PROVE  IInv'
<1>1. CASE ReceiveNew
  BY <1>1, ReceiveNewStep
<1>2. CASE ReceiveAgain
  BY <1>2, ReceiveAgainStep
<1>3. ASSUME NEW n \in Inbound, Handle(n)
      PROVE  IInv'
  BY <1>3, HandleStep
<1>4. ASSUME NEW n \in Inbound, NEW u \in Users, Deliver(n, u) \/ Register(n, u)
      PROVE  IInv'
  BY <1>4, DeliverStep, RegisterStep
<1>5. ASSUME NEW u \in Users,
             RemoveMember(u) \/ SetPaused(u) \/ SetTextOnly(u) \/ Ban(u)
      PROVE  IInv'
  BY <1>5, CommandStep
<1>6. ASSUME NEW u \in Users, Join(u)
      PROVE  IInv'
  BY <1>6, JoinStep
<1>7. ASSUME NEW j \in DOMAIN joins, ReplayRead(j) \/ ReplaySend(j)
      PROVE  IInv'
  BY <1>7, ReadStep, SendStep
<1>8. CASE Crash
  BY <1>8, CrashStep
<1>9. CASE Tick
  BY <1>9, TickStep
<1>10. CASE UNCHANGED vars
  BY <1>10, StutterStep
<1> QED
  BY <1>1, <1>2, <1>3, <1>4, <1>5, <1>6, <1>7, <1>8, <1>9, <1>10 DEF Next

-----------------------------------------------------------------------------
(* Copies that were sent and did not come *)

\* Only a copy that went in a single packet may be lost.
Lossless ==
  \A n \in Inbound, u \in Users : Sent(n, u) => copies[n][u].here \/ wire[n].shape.fits

\* A step that sends nothing and makes no copy disappear from a display.
LEMMA NoLoss ==
  ASSUME IInv, Lossless, Grows,
         \A n \in Inbound, u \in Users :
           Sent(n, u)' => Sent(n, u) /\ copies'[n][u].here = copies[n][u].here
  PROVE  Lossless'
<1> SUFFICES ASSUME NEW n \in Inbound, NEW u \in Users, Sent(n, u)'
             PROVE  copies'[n][u].here \/ wire'[n].shape.fits
  BY DEF Lossless
<1>1. Sent(n, u) /\ copies'[n][u].here = copies[n][u].here
  OBVIOUS
<1>2. n \in 1 .. Len(wire)
  <2>1. Unheard(n) /\ Len(wire) \in Nat
    BY DEF IInv, Each, Types, WireTypes
  <2> QED
    BY <1>1, <2>1, NumberAssumption DEF Unheard, Sent, Inbound
<1> QED
  BY <1>1, <1>2 DEF Lossless, Grows

\* The copies are what they were.
LEMMA SameCopies ==
  ASSUME IInv, Lossless, Grows, UNCHANGED copies
  PROVE  Lossless'
BY NoLoss DEF Sent

\* A wire that is what it was, or has one message more, grows.
LEMMA WireGrows ==
  ASSUME WireTypes, wire' = wire \/ \E w : wire' = Append(wire, w)
  PROVE  Grows
<1>1. wire \in Seq(Message) /\ Len(wire) \in Nat
  BY DEF WireTypes
<1>2. CASE wire' = wire
  BY <1>1, <1>2 DEF Grows
<1>3. ASSUME NEW w, wire' = Append(wire, w)
      PROVE  Grows
  <2>1. wire \in Seq(Message \cup {w}) /\ w \in Message \cup {w}
    BY <1>1
  <2>2. Len(wire') = Len(wire) + 1 /\ \A n \in 1 .. Len(wire) : wire'[n] = wire[n]
    BY <1>3, <2>1
  <2> QED
    BY <1>1, <2>2 DEF Grows
<1> QED
  BY <1>2, <1>3

\* A message comes, a goroutine goes on, a command, a replay, time.
LEMMA OthersLossless ==
  ASSUME IInv, Lossless,
         \/ ReceiveNew \/ ReceiveAgain \/ Tick \/ UNCHANGED vars
         \/ \E u \in Users :
              RemoveMember(u) \/ SetPaused(u) \/ SetTextOnly(u) \/ Ban(u) \/ Join(u)
         \/ \E j \in DOMAIN joins : ReplayRead(j) \/ ReplaySend(j)
         \/ \E n \in Inbound :
              \/ CheckMember(n) \/ CheckPaused(n) \/ BuildRewrite(n)
              \/ RegisterSender(n) \/ Snapshot(n) \/ Finish(n)
  PROVE  Lossless'
<1>1. UNCHANGED copies
  BY DEF ReceiveNew, ReceiveAgain, Arrives, Tick, vars, RemoveMember, SetPaused, SetTextOnly,
     Ban, Join, ReplayRead, ReplaySend, CheckMember, CheckPaused, BuildRewrite, RegisterSender,
     Snapshot, Finish
<1>2. wire' = wire \/ \E w : wire' = Append(wire, w)
  BY DEF ReceiveNew, ReceiveAgain, Arrives, Tick, vars, RemoveMember, SetPaused, SetTextOnly,
     Ban, Join, ReplayRead, ReplaySend, CheckMember, CheckPaused, BuildRewrite, RegisterSender,
     Snapshot, Finish
<1> QED
  BY <1>1, <1>2, WireGrows, SameCopies DEF IInv, Types

\* One recipient of the fan-out: his copy is queued.
LEMMA ForwardLossless ==
  ASSUME IInv, Lossless, NEW n \in Inbound, NEW u \in Users, Forward(n, u)
  PROVE  Lossless'
<1>1. Grows
  BY WireGrows DEF Forward, IInv, Types
<1>2. copies \in [Inbound -> [Users -> Queued \cup Gone \cup {NoCopy}]]
  BY DEF IInv, Types, CopyTypes
<1>3. copies' = copies \/ copies' = [copies EXCEPT ![n][u] = Copy(n, u)]
  BY DEF Forward
<1>4. Copy(n, u).st = "queued"
  BY DEF Copy
<1> HIDE DEF Copy
<1>5. ASSUME NEW k \in Inbound, NEW v \in Users, Sent(k, v)'
      PROVE  Sent(k, v) /\ copies'[k][v].here = copies[k][v].here
  BY <1>2, <1>3, <1>4, <1>5 DEF Sent
<1> QED
  BY <1>1, <1>5, NoLoss

\* A copy is sent: it comes, or it was a single packet.
LEMMA DeliverLossless ==
  ASSUME IInv, Lossless, NEW n \in Inbound, NEW u \in Users, Deliver(n, u)
  PROVE  Lossless'
<1>1. copies \in [Inbound -> [Users -> Queued \cup Gone \cup {NoCopy}]]
  BY DEF IInv, Types, CopyTypes
<1>2. PICK here \in BOOLEAN :
        /\ here \/ wire[n].shape.fits
        /\ copies' = [copies EXCEPT ![n][u] =
             [st |-> IF copies[n][u].bubble THEN "sent" ELSE "done", here |-> here]]
  BY DEF Deliver
<1>3. wire' = wire
  BY DEF Deliver
<1>4. ASSUME NEW k \in Inbound, NEW v \in Users, Sent(k, v)'
      PROVE  copies'[k][v].here \/ wire[k].shape.fits
  <2>1. CASE k = n /\ v = u
    BY <1>1, <1>2, <2>1
  <2>2. CASE ~ (k = n /\ v = u)
    <3>1. copies'[k][v] = copies[k][v]
      BY <1>1, <1>2, <2>2
    <3> QED
      BY <1>4, <3>1 DEF Sent, Lossless
  <2> QED
    BY <2>1, <2>2
<1> QED
  BY <1>3, <1>4 DEF Lossless

\* The id of a copy is recorded.
LEMMA RegisterLossless ==
  ASSUME IInv, Lossless, NEW n \in Inbound, NEW u \in Users, Register(n, u)
  PROVE  Lossless'
<1>1. Grows
  BY WireGrows DEF Register, IInv, Types
<1>2. copies \in [Inbound -> [Users -> Queued \cup Gone \cup {NoCopy}]]
  BY DEF IInv, Types, CopyTypes
<1>3. /\ copies[n][u] # NoCopy /\ copies[n][u].st = "sent"
      /\ copies' = [copies EXCEPT ![n][u].st = "done"]
  BY DEF Register
<1>4. copies[n][u] \in Gone
  BY <1>2, <1>3 DEF Queued
<1>5. ASSUME NEW k \in Inbound, NEW v \in Users, Sent(k, v)'
      PROVE  Sent(k, v) /\ copies'[k][v].here = copies[k][v].here
  <2>1. CASE k = n /\ v = u
    BY <1>2, <1>3, <1>4, <2>1 DEF Sent, Gone
  <2>2. CASE ~ (k = n /\ v = u)
    BY <1>2, <1>3, <1>5, <2>2 DEF Sent
  <2> QED
    BY <2>1, <2>2
<1> QED
  BY <1>1, <1>5, NoLoss

\* After a crash a queued copy is queued and a sent one sent.
LEMMA CrashLossless ==
  ASSUME IInv, Lossless, Crash
  PROVE  Lossless'
<1>1. Grows
  BY WireGrows DEF Crash, IInv, Types
<1>2. copies \in [Inbound -> [Users -> Queued \cup Gone \cup {NoCopy}]]
  BY DEF IInv, Types, CopyTypes
<1>3. ASSUME NEW k \in Inbound, NEW v \in Users
      PROVE  copies'[k][v] = Reloaded(copies[k][v])
  BY <1>2 DEF Crash
<1>4. ASSUME NEW c \in Queued \cup Gone, Reloaded(c) # NoCopy, Reloaded(c).st # "queued"
      PROVE  c # NoCopy /\ c.st # "queued" /\ Reloaded(c).here = c.here
  <2>1. CASE c \in Queued
    BY <1>4, <2>1, ReloadedFacts, CopyThere DEF Reloaded, Queued
  <2>2. CASE c \in Gone
    BY <2>2, CopyThere DEF Reloaded, Gone
  <2> QED
    BY <1>4, <2>1, <2>2
<1>5. Reloaded(NoCopy) = NoCopy
  BY DEF Reloaded
<1>6. ASSUME NEW k \in Inbound, NEW v \in Users, Sent(k, v)'
      PROVE  Sent(k, v) /\ copies'[k][v].here = copies[k][v].here
  <2>1. copies[k][v] \in Queued \cup Gone \cup {NoCopy}
    BY <1>2
  <2> QED
    BY <1>3, <1>4, <1>5, <1>6, <2>1 DEF Sent
<1> QED
  BY <1>1, <1>6, NoLoss

\* Every step.
LEMMA NextLossless ==
  ASSUME IInv, Lossless, [Next]_vars
  PROVE  Lossless'
BY OthersLossless, ForwardLossless, DeliverLossless, RegisterLossless, CrashLossless
   DEF Next, Handle
-----------------------------------------------------------------------------
(* Theorems *)

\* Types, what holds of each message, of the wire, the views, the log and the replays
\* hold always: through every interleaving of goroutines, workers, commands and
\* crashes.
THEOREM Invariance == Spec => []IInv
<1>1. Init => IInv
  BY InitStep
<1>2. IInv /\ [Next]_vars => IInv'
  BY NextStep
<1> QED
  BY <1>1, <1>2, PTL DEF Spec

\* Type correctness: the history never exceeds its capacity and holds only what was
\* logged, flags belong to members, and a message number is never from the future.
THEOREM TypesCorrect == Spec => []TypeOK
<1>1. IInv => TypeOK
  <2> SUFFICES ASSUME IInv
               PROVE  TypeOK
    OBVIOUS
  <2>1. \A n \in DOMAIN wire : wire[n].msg \in 1 .. n /\ wire[n].from \in Users
    <3>1. DOMAIN wire = 1 .. Len(wire)
      BY DEF IInv, Types, WireTypes
    <3> QED
      BY <3>1, Received DEF IInv, Types, Wired
  <2>2. \A n \in Inbound : h[n].target \in Inbound \cup {NoBubble}
    BY Kinds DEF IInv, Types, Targeted
  <2>3. Messages(hist) \subseteq Messages(log)
    <3> SUFFICES ASSUME NEW i \in DOMAIN hist
                 PROVE  hist[i].n \in Messages(log)
      BY DEF Messages
    <3>1. hist[i] \in Range(log)
      BY DEF IInv, Types, PastTypes, Range
    <3> QED
      BY <3>1, InMessages
  <2>4. DOMAIN cache.index \subseteq Ids
    BY CacheFields, MapFacts DEF IInv, Types, CacheTypes
  <2> QED
    BY <2>1, <2>2, <2>3, <2>4 DEF TypeOK, IInv, Types, PeopleTypes, WireTypes, PastTypes
<1> QED
  BY <1>1, Invariance, PTL

\* The gate of onLXMFReceived: the message of a sender nothing happened to since it
\* came is fanned out only if he is an active member who is not banned.
THEOREM Gated == Spec => []GateHolds
<1>1. IInv => GateHolds
  BY DEF IInv, Each, Gate, GateHolds, Running, Fanning, Sender
<1> QED
  BY <1>1, Invariance, PTL

\* forwardToRoster: a finished fan-out has a copy for everybody who was active all the
\* time, but for what the flags and the target of a reaction rule out.
THEOREM EverybodyReached == Spec => []Reaches
<1>1. IInv => Reaches
  BY DEF IInv, Each, Reached, Reaches, Sender
<1> QED
  BY <1>1, Invariance, PTL

\* A member's view of a message that needs a link is of one he has on display: only a
\* copy that went in a single packet is ever lost after SendLXMF has returned nil.
THEOREM LossOfSmallOnly == Spec => []Lossless
<1>1. Init => Lossless
  BY DEF Init, Lossless, Sent
<1>2. IInv /\ Lossless /\ [Next]_vars => Lossless'
  BY NextLossless
<1> QED
  BY <1>1, <1>2, Invariance, PTL DEF Spec

\* buildRewrite: a queued annotation names its target by its recipient's own id of the
\* message the sender meant, and he has that message on display unless it was sent to
\* him in a single packet that was lost.
THEOREM AnnotationsBind == Spec => []AnnotationBinds
<1>1. ASSUME IInv, Lossless, NEW u \in Users, NEW id \in Ids, Addressed(u, id)
      PROVE  Shows(u, id) \/ wire[id[1]].shape.fits
  BY <1>1 DEF Shows, Addressed, Arrived, Lossless, Ids
<1>2. IInv /\ Lossless => AnnotationBinds
  <2> SUFFICES ASSUME IInv, Lossless, NEW n \in Inbound, NEW u \in Users,
                      copies[n][u] # NoCopy, copies[n][u].st = "queued",
                      NEW c, c = copies[n][u].with
               PROVE  /\ c.dict # NoId /\ h[n].target # NoBubble =>
                           Names(u, c.dict, wire[n].dict)
                      /\ c.reply # NoId /\ Fanning(n) /\ h[n].reply # NoBubble =>
                           Names(u, c.reply, wire[n].reply)
    BY DEF AnnotationBinds
  <2>1. c.dict \in Ids \cup {NoId} /\ c.reply \in Ids \cup {NoId}
    BY CopyKinds DEF IInv, Types, Queued, Content
  <2> QED
    BY <1>1, <2>1 DEF IInv, Each, Binds, Names
<1> QED
  BY <1>2, Invariance, LossOfSmallOnly, PTL

\* inbox.go and forward.go: no copy without a body and fields is queued but where the
\* reply to a message the recipient has no view of was all there was.
THEOREM NothingEmpty == Spec => []EmptyMeansStripped
<1>1. IInv => EmptyMeansStripped
  BY DEF IInv, Each, Strips, EmptyMeansStripped
<1> QED
  BY <1>1, Invariance, PTL

\* idmap: the keys stay within the cap, and every key's bubble is in the LRU list with
\* a view that has the key, whatever is evicted under a queued copy.
THEOREM CacheBounded == Spec => []CacheConsistent
<1>1. IInv => CacheConsistent
  <2> SUFFICES ASSUME IInv
               PROVE  CacheConsistent
    OBVIOUS
  <2>1. Anchored(cache) /\ Bounded(cache) /\ cache.lru \in Seq(Bubbles)
    BY CacheFields DEF IInv, Cached, Types, CacheTypes
  <2> QED
    BY <2>1, ContainsRange DEF CacheConsistent, Anchored, Bounded
<1> QED
  BY <1>1, Invariance, PTL

\* /join and replayHistoryTo: while every write of the history succeeds, a member who
\* joined and stayed has every message of the log that was due at his join or was
\* snapshotted later.
THEOREM JoinersServed == Spec => []JoinerServed
<1>1. IInv => JoinerServed
  <2> SUFFICES ASSUME IInv, NEW j \in DOMAIN joins, NEW n \in Messages(log),
                      joins[j].stayed, joins[j].pc = "ended", saveFails = 0
               PROVE  Served(j, n)
    BY DEF JoinerServed, Served
  <2>1. joins[j].left = <<>> /\ (Served(j, n) \/ n \in Messages(joins[j].left))
    BY DEF IInv, Replays
  <2> QED
    BY <2>1 DEF Messages
<1> QED
  BY <1>1, Invariance, PTL
=============================================================================
