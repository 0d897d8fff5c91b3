------------------------------- MODULE Presence -------------------------------
(***************************************************************************)
(* Who is still there: the times the roster keeps of each member           *)
(* (internal/roster), the announces that refresh them (announceTap and     *)
(* Transport.handleAnnounce) and the prune sweep that goes by them.        *)
(*                                                                         *)
(* A client announces itself with the time of its own clock, which may be  *)
(* behind or ahead; transport nodes repeat old announces at any later      *)
(* time.  state.json and announces.json may fail to be written, and the    *)
(* process restarts from them.                                             *)
(*                                                                         *)
(* The clock ticks in days, the scale of the cutoffs: handlers start and   *)
(* end within a day.  Each step is one critical section of the roster or   *)
(* one announce in the dispatcher.                                         *)
(***************************************************************************)
EXTENDS Integers, FiniteSets

CONSTANTS
  Users,        \* clients that announce themselves
  Joiners,      \* those that come to the chat
  Absent,       \* no entry in a table
  Idle,         \* prune_after
  Silent,       \* prune_silent_after; 0 turns the rule off
  MaxAge,       \* announceStoreMaxAge
  KnownCap,     \* KnownIdentityCapacity
  Behind,       \* a client's clock is at most this late
  Ahead,        \* or this early
  MaxDay,       \* bound: days
  MaxEmits,     \* bound: announces emitted
  MaxMsgs,      \* bound: inbound messages
  MaxSaveFails, \* bound: writes that fail
  MaxCrashes    \* bound: restarts

ASSUME PresenceAssumption ==
  /\ {Idle, MaxAge, KnownCap} \subseteq Nat \ {0}
  /\ {Silent, Behind, Ahead, MaxDay, MaxEmits, MaxMsgs, MaxSaveFails, MaxCrashes} \subseteq Nat
  /\ IsFiniteSet(Users)
  /\ Joiners \subseteq Users

\* The zero time.Time, before everything.
Zero == -1 - Idle - Silent - Behind

Times == Zero .. MaxDay + Ahead

\* The four times of a User.
Entry == [joined : Times, message : Times, announce : Times, command : Times]

\* A verified announce: the random hash, the emission time in it, and the true time.
Announces == [from : Users, random : 1 .. MaxEmits, stamp : Times, real : Times]

\* What the transport keeps of an identity.
KnownIdentity == [random : 1 .. MaxEmits, seen : Times]

ASSUME AbsentAssumption == Absent \notin Entry /\ Absent \notin KnownIdentity

VARIABLES
  now,
  users,      \* Roster.users
  disk,       \* state.json
  known,      \* Transport.known
  cache,      \* announces.json
  marking,    \* users whose chat message is between Touch and MarkMessage
  ether,      \* announces emitted so far; each may arrive any number of times
  \* history
  seen,       \* seen[u]: last join, message or command of a member
  alive,      \* alive[u]: true time of the latest announce heard of a member
  spoke,      \* spoke[u]: last join, or chat message received of a member
  forgot,     \* members whose entry a restart set back, or whose message it cut short
  msgs, saveFails, crashes

roster  == <<users, disk>>
table   == <<known, cache>>
history == <<seen, alive, spoke, forgot>>
counts  == <<msgs, crashes>>
vars    == <<now, roster, table, marking, ether, history, counts, saveFails>>

Members == {u \in Users : users[u] # Absent}

Later(s, t) == IF s > t THEN s ELSE t

\* User.LastSeen: the latest of the four.
LastSeen(e) == Later(Later(Later(e.joined, e.message), e.announce), e.command)

\* User.LastSpoke.
LastSpoke(e) == Later(e.joined, e.message)

-----------------------------------------------------------------------------
Init ==
  /\ now       = 0
  /\ users     = [u \in Users |-> Absent]
  /\ disk      = users
  /\ known     = [u \in Users |-> Absent]
  /\ cache     = known
  /\ marking   = {}
  /\ ether     = {}
  /\ seen      = [u \in Users |-> Zero]
  /\ alive     = [u \in Users |-> Zero]
  /\ spoke     = [u \in Users |-> Zero]
  /\ forgot    = {}
  /\ msgs      = 0
  /\ saveFails = 0
  /\ crashes   = 0

\* The roster becomes r and is saved, unless the write fails.
PersistLocked(r) ==
  /\ users' = r
  /\ \/ disk' = r /\ UNCHANGED saveFails
     \/ /\ saveFails < MaxSaveFails
        /\ saveFails' = saveFails + 1
        /\ UNCHANGED disk

Inbound == msgs < MaxMsgs /\ msgs' = msgs + 1

-----------------------------------------------------------------------------
(* Inbound messages *)

\* AddOrUpdate, from /join.
Join(u) ==
  /\ Inbound
  /\ users[u] = Absent
  /\ PersistLocked([users EXCEPT ![u] =
       [joined |-> now, message |-> now, announce |-> Zero, command |-> Zero]])
  /\ seen'  = [seen EXCEPT ![u] = now]
  /\ spoke' = [spoke EXCEPT ![u] = now]
  /\ UNCHANGED <<now, table, marking, ether, alive, forgot, crashes>>

\* Touch, first thing for any inbound message of a member.  A command, a message
\* that is too long and one of a paused member end here; a chat message goes on.
Touch(u) ==
  /\ Inbound
  /\ u \in Members
  /\ PersistLocked([users EXCEPT ![u].command = now])
  /\ seen' = [seen EXCEPT ![u] = now]
  /\ \/ UNCHANGED <<marking, spoke>>
     \/ /\ marking' = marking \cup {u}
        /\ spoke' = [spoke EXCEPT ![u] = now]
  /\ UNCHANGED <<now, table, ether, alive, forgot, crashes>>

\* MarkMessage: the sender may have left the roster since.
MarkMessage(u) ==
  /\ u \in marking
  /\ marking' = marking \ {u}
  /\ \/ /\ u \in Members
        /\ PersistLocked([users EXCEPT ![u].message = now])
     \/ /\ u \notin Members
        /\ UNCHANGED <<roster, saveFails>>
  /\ UNCHANGED <<now, table, ether, history, counts>>

\* /leave, /kick and /ban.
Remove(u) ==
  /\ Inbound
  /\ u \in Members
  /\ PersistLocked([users EXCEPT ![u] = Absent])
  /\ UNCHANGED <<now, table, marking, ether, history, crashes>>

-----------------------------------------------------------------------------
(* Announces *)

\* How far the clock of a client is off.  Nobody reads the time of one that never joins.
Skews(u) == IF u \in Joiners THEN -Behind .. Ahead ELSE {0}

\* A client announces itself, by its own clock.
Emit(u, skew) ==
  LET n == Cardinality(ether) + 1 IN
  /\ n <= MaxEmits
  /\ ether' = ether \cup {[from |-> u, random |-> n, stamp |-> now + skew, real |-> now]}
  /\ UNCHANGED <<now, roster, table, marking, history, counts, saveFails>>

\* The table with room for one more: at capacity an identity heard longest ago goes.
Evicted ==
  LET there == {u \in Users : known[u] # Absent} IN
  IF Cardinality(there) < KnownCap THEN {known}
  ELSE {[known EXCEPT ![o] = Absent] :
          o \in {v \in there : \A w \in there : known[v].seen <= known[w].seen}}

\* Mutant of At: the time it is received.
AtReceived(a) == now

\* OnAnnounce of the tap: the emission time, or now if that is in the future.
At(a) == IF a.stamp > now THEN now ELSE a.stamp

\* UpdateLastAnnounce: members only, and never backwards.
UpdateLastAnnounce(a) ==
  \/ /\ a.from \in Members
     /\ At(a) > users[a.from].announce
     /\ PersistLocked([users EXCEPT ![a.from].announce = At(a)])
  \/ /\ a.from \in Members => At(a) <= users[a.from].announce
     /\ UNCHANGED <<roster, saveFails>>

\* handleAnnounce: unless it repeats the last announce of its sender, the table is
\* brought up to date, then the tap is called, then the table is saved,
\* if the write does not fail.
HandleAnnounce(a) ==
  /\ known[a.from] # Absent => known[a.from].random # a.random
  /\ \E t \in (IF known[a.from] = Absent THEN Evicted ELSE {known}) :
       known' = [t EXCEPT ![a.from] = [random |-> a.random, seen |-> now]]
  /\ UpdateLastAnnounce(a)
  /\ cache' = known' \/ UNCHANGED cache
  /\ alive' = [alive EXCEPT ![a.from] = IF a.from \in Members THEN Later(@, a.real) ELSE @]
  /\ UNCHANGED <<now, marking, ether, seen, spoke, forgot, counts>>

-----------------------------------------------------------------------------
\* The members Prune finds inactive.
Inactive ==
  {u \in Members : \/ LastSeen(users[u]) < now - Idle
                   \/ Silent > 0 /\ LastSpoke(users[u]) < now - Silent}

\* Roster.Prune, from the ticker; without inactive members nothing is saved.
RunPrune ==
  /\ Inactive # {}
  /\ PersistLocked([u \in Users |-> IF u \in Inactive THEN Absent ELSE users[u]])
  /\ UNCHANGED <<now, table, marking, ether, history, counts>>

\* The process ends and starts again: New loads the roster, and the announce store
\* drops what is too old.
Restart ==
  /\ crashes < MaxCrashes
  /\ crashes' = crashes + 1
  /\ users'   = disk
  /\ forgot'  = forgot \cup marking \cup {u \in Users : disk[u] # users[u]}
  /\ known'   = [u \in Users |-> IF cache[u] # Absent /\ cache[u].seen >= now - MaxAge
                                 THEN cache[u] ELSE Absent]
  /\ marking' = {}
  /\ UNCHANGED <<now, disk, cache, ether, seen, alive, spoke, msgs, saveFails>>

\* A day passes.
Tick ==
  /\ now < MaxDay
  /\ marking = {}
  /\ now' = now + 1
  /\ UNCHANGED <<roster, table, marking, ether, history, msgs, saveFails, crashes>>

-----------------------------------------------------------------------------
Next ==
  \/ \E u \in Joiners : Join(u) \/ Touch(u) \/ MarkMessage(u) \/ Remove(u)
  \/ \E u \in Users : \E skew \in Skews(u) : Emit(u, skew)
  \/ \E a \in ether : HandleAnnounce(a)
  \/ RunPrune
  \/ Restart
  \/ Tick

Spec == Init /\ [][Next]_vars

-----------------------------------------------------------------------------
(* Properties *)

\* The type of the state.
TypeOK ==
  /\ now \in 0 .. MaxDay
  /\ {users, disk} \subseteq [Users -> Entry \cup {Absent}]
  /\ {known, cache} \subseteq [Users -> KnownIdentity \cup {Absent}]
  /\ marking \subseteq Users
  /\ ether \subseteq Announces
  /\ {seen, alive, spoke} \subseteq [Users -> Times]
  /\ forgot \subseteq Users
  /\ msgs \in 0 .. MaxMsgs
  /\ saveFails \in 0 .. MaxSaveFails
  /\ crashes \in 0 .. MaxCrashes

\* A sweep takes no member who has given a sign of life and spoken within the cutoffs,
\* up to the lag of his own clock, unless a restart took the record of it, or his
\* message is just being handled: a sweep between Touch and MarkMessage may take one who
\* had been silent until then.  And whoever a sweep leaves has given a sign of life, up
\* to the lead of his clock, and has spoken.  Announces repeated later, in any order,
\* before or after a restart, keep nobody on the roster longer than that.
PruneExact ==
  \A u \in Members :
    /\ u \in Inactive =>
         \/ u \in forgot
         \/ seen[u] < now - Idle /\ alive[u] < now - Idle + Behind
         \/ Silent > 0 /\ (u \in marking \/ spoke[u] < now - Silent)
    /\ u \notin Inactive =>
         /\ seen[u] >= now - Idle \/ alive[u] >= now - Idle - Ahead
         /\ Silent > 0 => spoke[u] >= now - Silent

=============================================================================
