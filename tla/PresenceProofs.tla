--------------------------- MODULE PresenceProofs ---------------------------
(***************************************************************************)
(* Proofs about Presence, for every set of users, every cutoff, every      *)
(* clock error and every bound.                                            *)
(*                                                                         *)
(* The inductive invariant says how the times of an entry and the history  *)
(* relate: no entry, in memory or in state.json, claims a sign of life     *)
(* later than there was one, up to the lead of the client's clock; and an  *)
(* entry in memory that no restart has set back misses none, but for a     *)
(* message still being handled, up to the lag of the clock.                *)
(***************************************************************************)
EXTENDS Presence, FiniteSetTheorems, TLAPS

\* An announce is as far from its true time as the clocks allow.
EtherOK ==
  /\ IsFiniteSet(ether)
  /\ \A a \in ether : /\ a.real <= now
                      /\ a.real - Behind <= a.stamp
                      /\ a.stamp <= a.real + Ahead

\* The history is not ahead of the clock, and a message between Touch and
\* MarkMessage came today.
HistoryOK ==
  /\ \A u \in Users : seen[u] <= now /\ alive[u] <= now /\ spoke[u] <= now
  /\ \A u \in marking : seen[u] = now /\ spoke[u] = now

\* No entry of the roster r claims more than there was.
Claim(e, sk, sn, al) ==
  /\ e.joined <= sk /\ e.message <= sk
  /\ e.joined <= sn /\ e.message <= sn /\ e.command <= sn
  /\ e.announce <= al + Ahead

Claims(r, sk, sn, al) ==
  \A u \in Users : r[u] # Absent => Claim(r[u], sk[u], sn[u], al[u])

\* The entries of r outside f miss nothing, but for the messages of m.
Record(e, sn, al) ==
  /\ sn <= LastSeen(e)
  /\ al - Behind <= LastSeen(e)

Records(r, f, m, sk, sn, al) ==
  \A u \in Users \ f : r[u] # Absent => /\ Record(r[u], sn[u], al[u])
                                        /\ u \notin m => sk[u] <= LastSpoke(r[u])

IInv ==
  /\ TypeOK
  /\ EtherOK
  /\ HistoryOK
  /\ Claims(users, spoke, seen, alive)
  /\ Claims(disk, spoke, seen, alive)
  /\ Records(users, forgot, marking, spoke, seen, alive)

-----------------------------------------------------------------------------
\* The type of the constants and of the times.
LEMMA Constants ==
  /\ Idle \in Nat /\ Idle > 0
  /\ {Silent, Behind, Ahead, MaxDay, MaxEmits, MaxMsgs, MaxSaveFails, MaxCrashes} \subseteq Nat
  /\ Zero \in Int
  /\ Zero <= -Behind
  /\ Times \subseteq Int
  /\ \A t \in Int : t \in Times <=> Zero <= t /\ t <= MaxDay + Ahead
  /\ \A t \in 0 .. MaxDay : t \in Times /\ t \in Int
BY PresenceAssumption DEF Zero, Times

\* The later of two times.
LEMMA LaterBounds ==
  ASSUME NEW s \in Int, NEW t \in Int
  PROVE  Later(s, t) \in Int /\ s <= Later(s, t) /\ t <= Later(s, t)
         /\ (Later(s, t) = s \/ Later(s, t) = t)
BY DEF Later

\* LastSeen and LastSpoke are the latest of their times.
LEMMA LastTimes ==
  ASSUME NEW e \in Entry
  PROVE  /\ LastSeen(e) \in Int /\ LastSpoke(e) \in Int
         /\ e.joined <= LastSeen(e) /\ e.message <= LastSeen(e)
         /\ e.announce <= LastSeen(e) /\ e.command <= LastSeen(e)
         /\ LastSeen(e) \in {e.joined, e.message, e.announce, e.command}
         /\ e.joined <= LastSpoke(e) /\ e.message <= LastSpoke(e)
         /\ LastSpoke(e) \in {e.joined, e.message}
<1>1. e.joined \in Int /\ e.message \in Int /\ e.announce \in Int /\ e.command \in Int
  BY Constants DEF Entry
<1> QED
  BY <1>1 DEF LastSeen, LastSpoke, Later

\* Initially there is no entry and no announce.
LEMMA InitIInv == Init => IInv
<1> SUFFICES ASSUME Init PROVE IInv
  OBVIOUS
<1>1. TypeOK
  BY Constants, PresenceAssumption DEF Init, TypeOK, Times
<1>2. EtherOK
  BY FS_EmptySet DEF Init, EtherOK
<1>3. HistoryOK
  BY Constants DEF Init, HistoryOK
<1>4. /\ Claims(users, spoke, seen, alive)
      /\ Claims(disk, spoke, seen, alive)
      /\ Records(users, forgot, marking, spoke, seen, alive)
  BY DEF Init, Claims, Records
<1> QED
  BY <1>1, <1>2, <1>3, <1>4 DEF IInv

-----------------------------------------------------------------------------
Rosters == [Users -> Entry \cup {Absent}]
Clocks  == [Users -> Times]

\* An entry claims no more after the history has grown.
LEMMA ClaimsGrow ==
  ASSUME NEW r \in Rosters,
         NEW sk \in Clocks, NEW sn \in Clocks, NEW al \in Clocks,
         NEW sk2 \in Clocks, NEW sn2 \in Clocks, NEW al2 \in Clocks,
         \A u \in Users : sk[u] <= sk2[u] /\ sn[u] <= sn2[u] /\ al[u] <= al2[u],
         Claims(r, sk, sn, al)
  PROVE  Claims(r, sk2, sn2, al2)
<1> SUFFICES ASSUME NEW u \in Users, r[u] # Absent
             PROVE  Claim(r[u], sk2[u], sn2[u], al2[u])
  BY DEF Claims
<1>1. r[u] \in Entry /\ {sk[u], sn[u], al[u], sk2[u], sn2[u], al2[u]} \subseteq Int
  BY Constants DEF Rosters, Clocks
<1>2. {r[u].joined, r[u].message, r[u].command, r[u].announce} \subseteq Int
  BY <1>1, Constants DEF Entry
<1>3. Claim(r[u], sk[u], sn[u], al[u])
  BY DEF Claims
<1>4. Ahead \in Int
  BY Constants
<1> QED
  BY <1>1, <1>2, <1>3, <1>4 DEF Claim

\* What is in the file after a step: the new roster or the old file.
LEMMA Persisted ==
  ASSUME TypeOK, NEW r \in Rosters, PersistLocked(r)
  PROVE  /\ users' = r
         /\ disk' \in {r, disk}
         /\ saveFails' \in 0 .. MaxSaveFails
BY Constants DEF TypeOK, PersistLocked

\* The part of the invariant that every step keeps in the same way.
LEMMA RosterStep ==
  ASSUME IInv,
         TypeOK',
         \A u \in Users : /\ spoke[u] <= spoke'[u]
                          /\ seen[u] <= seen'[u]
                          /\ alive[u] <= alive'[u],
         disk' \in {users', disk},
         Claims(users', spoke', seen', alive')
  PROVE  Claims(disk', spoke', seen', alive')
<1>1. /\ disk \in Rosters
      /\ spoke \in Clocks /\ seen \in Clocks /\ alive \in Clocks
      /\ spoke' \in Clocks /\ seen' \in Clocks /\ alive' \in Clocks
  BY DEF IInv, TypeOK, Rosters, Clocks
<1>2. Claims(disk, spoke', seen', alive')
  <2> HIDE DEF Claims
  <2> QED
    BY <1>1, ClaimsGrow DEF IInv
<1> QED
  BY <1>2

-----------------------------------------------------------------------------
(* Types *)

\* A roster with one entry changed, and the history with one time moved to now.
LEMMA RosterType ==
  ASSUME TypeOK, NEW r \in Rosters, PersistLocked(r)
  PROVE  {users', disk'} \subseteq Rosters /\ saveFails' \in 0 .. MaxSaveFails
<1>1. disk \in Rosters
  BY DEF TypeOK, Rosters
<1> QED
  BY <1>1, Persisted

\* The entry of a member.
LEMMA MemberEntry ==
  ASSUME TypeOK, NEW u \in Members
  PROVE  u \in Users /\ users[u] \in Entry
BY DEF TypeOK, Members

\* A member's entry with one of its times moved.
LEMMA EntryMoved ==
  ASSUME NEW e \in Entry, NEW t \in Times
  PROVE  /\ [e EXCEPT !.command = t] \in Entry
         /\ [e EXCEPT !.message = t] \in Entry
         /\ [e EXCEPT !.announce = t] \in Entry
BY DEF Entry

\* The time an announce is taken for.
LEMMA AtType ==
  ASSUME TypeOK, NEW a \in ether
  PROVE  a.from \in Users /\ At(a) \in Times /\ At(a) <= now /\ At(a) <= a.stamp /\ a.stamp \in Int
         /\ a.real \in Times /\ a.real \in Int /\ (At(a) = now \/ At(a) = a.stamp)
<1>1. a \in Announces /\ now \in Times /\ now \in Int
  BY Constants DEF TypeOK
<1>2. a.stamp \in Times /\ a.stamp \in Int /\ a.real \in Times /\ a.real \in Int /\ a.from \in Users
  BY <1>1, Constants DEF Announces
<1> QED
  BY <1>1, <1>2 DEF At

\* The table after an announce.
LEMMA KnownType ==
  ASSUME TypeOK, NEW a \in ether, HandleAnnounce(a)
  PROVE  {known', cache'} \subseteq [Users -> KnownIdentity \cup {Absent}]
<1>1. /\ a.from \in Users /\ a.random \in 1 .. MaxEmits
      /\ known \in [Users -> KnownIdentity \cup {Absent}]
      /\ cache \in [Users -> KnownIdentity \cup {Absent}]
  BY DEF TypeOK, Announces
<1>2. now \in Times
  BY Constants DEF TypeOK
<1>3. \A t \in Evicted : t \in [Users -> KnownIdentity \cup {Absent}]
  BY <1>1 DEF Evicted
<1>4. [random |-> a.random, seen |-> now] \in KnownIdentity
  BY <1>1, <1>2 DEF KnownIdentity
<1>5. PICK t \in (IF known[a.from] = Absent THEN Evicted ELSE {known}) :
        known' = [t EXCEPT ![a.from] = [random |-> a.random, seen |-> now]]
  BY DEF HandleAnnounce
<1>6. t \in [Users -> KnownIdentity \cup {Absent}]
  BY <1>1, <1>3
<1>7. known' \in [Users -> KnownIdentity \cup {Absent}]
  BY <1>1, <1>4, <1>5, <1>6
<1> QED
  BY <1>1, <1>7 DEF HandleAnnounce

\* How far a clock is off.
LEMMA SkewBounds ==
  ASSUME NEW u, NEW skew \in Skews(u)
  PROVE  skew \in Int /\ -Behind <= skew /\ skew <= Ahead
<1>1. Behind \in Nat /\ Ahead \in Nat
  BY Constants
<1> QED
  BY <1>1 DEF Skews

\* A new announce.
LEMMA EmitType ==
  ASSUME TypeOK, IsFiniteSet(ether), NEW u \in Users, NEW skew \in Skews(u), Emit(u, skew)
  PROVE  /\ ether' \subseteq Announces
         /\ IsFiniteSet(ether')
         /\ \A a \in ether' \ ether : a.real = now /\ a.stamp = now + skew
<1> DEFINE n == Cardinality(ether) + 1
           b == [from |-> u, random |-> n, stamp |-> now + skew, real |-> now]
<1>1. n \in 1 .. MaxEmits
  BY FS_CardinalityType, Constants DEF Emit
<1>2. now + skew \in Times /\ now \in Times
  BY SkewBounds, Constants DEF TypeOK
<1>3. b \in Announces
  BY <1>1, <1>2 DEF Announces
<1>4. ether' = ether \cup {b}
  BY DEF Emit
<1>5. IsFiniteSet(ether \cup {b})
  BY FS_AddElement
<1> QED
  BY <1>3, <1>4, <1>5 DEF TypeOK

\* Every step keeps the type of the state.
LEMMA TypeStep ==
  ASSUME TypeOK, IsFiniteSet(ether), [Next]_vars
  PROVE  TypeOK'
<1>0. /\ now \in Times /\ now \in Int /\ MaxDay \in Nat /\ Zero \in Times
      /\ {users, disk} \subseteq Rosters /\ {seen, alive, spoke} \subseteq Clocks
  BY Constants DEF TypeOK, Rosters, Clocks
<1>1. ASSUME NEW u \in Joiners, Join(u) PROVE TypeOK'
  <2>1. u \in Users
    BY <1>1, PresenceAssumption
  <2> DEFINE e == [joined |-> now, message |-> now, announce |-> Zero, command |-> Zero]
  <2>2. e \in Entry
    BY <1>0 DEF Entry
  <2>3. [users EXCEPT ![u] = e] \in Rosters
    BY <1>0, <2>1, <2>2 DEF Rosters
  <2>4. {users', disk'} \subseteq Rosters /\ saveFails' \in 0 .. MaxSaveFails
    BY <1>1, <2>3, RosterType DEF Join
  <2>5. {seen', alive', spoke'} \subseteq Clocks
    BY <1>0, <1>1, <2>1 DEF Join, Clocks
  <2> QED
    BY <1>1, <2>4, <2>5, Constants DEF TypeOK, Join, Inbound, Rosters, Clocks, table
<1>2. ASSUME NEW u \in Joiners, Touch(u) PROVE TypeOK'
  <2>1. u \in Users /\ users[u] \in Entry
    BY <1>2, MemberEntry DEF Touch
  <2>2. [users EXCEPT ![u].command = now] \in Rosters
    BY <1>0, <2>1, EntryMoved DEF Rosters
  <2>3. {users', disk'} \subseteq Rosters /\ saveFails' \in 0 .. MaxSaveFails
    BY <1>2, <2>2, RosterType DEF Touch
  <2>4. {seen', alive'} \subseteq Clocks
    BY <1>0, <1>2, <2>1 DEF Touch, Clocks
  <2>5. spoke' = spoke \/ spoke' = [spoke EXCEPT ![u] = now]
    BY <1>2 DEF Touch
  <2>6. spoke' \in Clocks
    BY <1>0, <2>1, <2>5 DEF Clocks
  <2>7. marking' \subseteq Users
    BY <1>2, <2>1 DEF Touch, TypeOK
  <2>8. msgs' \in 0 .. MaxMsgs
    BY <1>2, Constants DEF Touch, Inbound, TypeOK
  <2> QED
    BY <1>2, <2>3, <2>4, <2>6, <2>7, <2>8 DEF TypeOK, Touch, Rosters, Clocks, table
<1>3. ASSUME NEW u \in Joiners, MarkMessage(u) PROVE TypeOK'
  <2>1. {users', disk'} \subseteq Rosters /\ saveFails' \in 0 .. MaxSaveFails
    <3>1. CASE u \in Members
      <4>1. u \in Users /\ users[u] \in Entry
        BY <3>1, MemberEntry
      <4>2. [users EXCEPT ![u].message = now] \in Rosters
        BY <1>0, <4>1, EntryMoved DEF Rosters
      <4> QED
        BY <1>3, <3>1, <4>2, RosterType DEF MarkMessage
    <3>2. CASE u \notin Members
      BY <1>0, <1>3, <3>2 DEF MarkMessage, roster, TypeOK
    <3> QED
      BY <3>1, <3>2
  <2> QED
    BY <1>3, <2>1 DEF TypeOK, MarkMessage, Rosters, table, history, counts
<1>4. ASSUME NEW u \in Joiners, Remove(u) PROVE TypeOK'
  <2>1. [users EXCEPT ![u] = Absent] \in Rosters
    BY <1>0 DEF Rosters
  <2>2. {users', disk'} \subseteq Rosters /\ saveFails' \in 0 .. MaxSaveFails
    BY <1>4, <2>1, RosterType DEF Remove
  <2> QED
    BY <1>4, <2>2, Constants DEF TypeOK, Remove, Inbound, Rosters, table, history
<1>5. ASSUME NEW u \in Users, NEW skew \in Skews(u), Emit(u, skew) PROVE TypeOK'
  <2>1. ether' \subseteq Announces
    BY <1>5, EmitType
  <2> QED
    BY <1>5, <2>1 DEF TypeOK, Emit, roster, table, history, counts
<1>6. ASSUME NEW a \in ether, HandleAnnounce(a) PROVE TypeOK'
  <2>1. {known', cache'} \subseteq [Users -> KnownIdentity \cup {Absent}]
    BY <1>6, KnownType
  <2>2. {users', disk'} \subseteq Rosters /\ saveFails' \in 0 .. MaxSaveFails
    <3>1. CASE PersistLocked([users EXCEPT ![a.from].announce = At(a)]) /\ a.from \in Members
      <4>1. users[a.from] \in Entry /\ a.from \in Users /\ At(a) \in Times
        BY <3>1, MemberEntry, AtType
      <4>2. [users EXCEPT ![a.from].announce = At(a)] \in Rosters
        BY <1>0, <4>1, EntryMoved DEF Rosters
      <4> QED
        BY <3>1, <4>2, RosterType
    <3>2. CASE UNCHANGED <<roster, saveFails>>
      BY <1>0, <3>2 DEF roster, TypeOK
    <3> QED
      BY <1>6, <3>1, <3>2 DEF HandleAnnounce, UpdateLastAnnounce
  <2>3. alive' \in Clocks
    BY <1>0, <1>6, AtType DEF HandleAnnounce, Clocks, Later
  <2> QED
    BY <1>6, <2>1, <2>2, <2>3 DEF TypeOK, HandleAnnounce, Rosters, Clocks, counts
<1>7. ASSUME RunPrune PROVE TypeOK'
  <2>1. [u \in Users |-> IF u \in Inactive THEN Absent ELSE users[u]] \in Rosters
    BY <1>0 DEF Rosters
  <2>2. {users', disk'} \subseteq Rosters /\ saveFails' \in 0 .. MaxSaveFails
    BY <1>7, <2>1, RosterType DEF RunPrune
  <2> QED
    BY <1>7, <2>2 DEF TypeOK, RunPrune, Rosters, table, history, counts
<1>8. ASSUME Restart PROVE TypeOK'
  BY <1>8, Constants DEF TypeOK, Restart
<1>9. ASSUME Tick PROVE TypeOK'
  BY <1>9, Constants DEF TypeOK, Tick, roster, table, history
<1>10. ASSUME UNCHANGED vars PROVE TypeOK'
  BY <1>10 DEF TypeOK, vars, roster, table, history, counts
<1> QED
  BY <1>1, <1>2, <1>3, <1>4, <1>5, <1>6, <1>7, <1>8, <1>9, <1>10 DEF Next

-----------------------------------------------------------------------------
(* The steps *)

\* One member's entry changes, and his times with it.
LEMMA EntryStep ==
  ASSUME IInv, TypeOK', NEW u \in Users, NEW e \in Entry,
         users' = [users EXCEPT ![u] = e],
         disk' \in {users', disk},
         forgot' = forgot,
         \A v \in Users : v # u => /\ spoke'[v] = spoke[v]
                                   /\ seen'[v] = seen[v]
                                   /\ alive'[v] = alive[v],
         spoke[u] <= spoke'[u] /\ seen[u] <= seen'[u] /\ alive[u] <= alive'[u],
         Claim(e, spoke'[u], seen'[u], alive'[u]),
         marking \ {u} \subseteq marking',
         u \notin forgot => Record(e, seen'[u], alive'[u]) /\ (u \notin marking' => spoke'[u] <= LastSpoke(e))
  PROVE  /\ Claims(users', spoke', seen', alive')
         /\ Claims(disk', spoke', seen', alive')
         /\ Records(users', forgot', marking', spoke', seen', alive')
<1>1. \A v \in Users : users'[v] = IF v = u THEN e ELSE users[v]
  BY DEF IInv, TypeOK
<1>2. Claims(users', spoke', seen', alive')
  BY <1>1 DEF IInv, Claims
<1>3. Records(users', forgot', marking', spoke', seen', alive')
  BY <1>1 DEF IInv, Records
<1>4. \A v \in Users : spoke[v] <= spoke'[v] /\ seen[v] <= seen'[v] /\ alive[v] <= alive'[v]
  <2> SUFFICES ASSUME NEW v \in Users
               PROVE  spoke[v] <= spoke'[v] /\ seen[v] <= seen'[v] /\ alive[v] <= alive'[v]
    OBVIOUS
  <2>1. spoke[v] \in Int /\ seen[v] \in Int /\ alive[v] \in Int
    BY Constants DEF IInv, TypeOK
  <2> QED
    BY <2>1
<1> QED
  BY <1>2, <1>3, <1>4, RosterStep

\* Entries disappear or stay.
LEMMA FewerStep ==
  ASSUME IInv, TypeOK',
         \A v \in Users : users'[v] \in {users[v], Absent},
         disk' \in {users', disk},
         UNCHANGED <<marking, history>>
  PROVE  /\ Claims(users', spoke', seen', alive')
         /\ Claims(disk', spoke', seen', alive')
         /\ Records(users', forgot', marking', spoke', seen', alive')
<1>1. spoke' = spoke /\ seen' = seen /\ alive' = alive /\ forgot' = forgot
  BY DEF history
<1>2. Claims(users', spoke, seen, alive)
  BY DEF IInv, Claims
<1>3. Records(users', forgot, marking, spoke, seen, alive)
  BY DEF IInv, Records
<1> QED
  BY <1>1, <1>2, <1>3 DEF IInv

\* The integers the steps compute with.
LEMMA Numbers ==
  ASSUME IInv, NEW u \in Users
  PROVE  /\ now \in Int /\ now \in Times /\ Zero <= now
         /\ spoke[u] \in Int /\ seen[u] \in Int /\ alive[u] \in Int
         /\ spoke[u] <= now /\ seen[u] <= now /\ alive[u] <= now
         /\ Zero <= alive[u] /\ Zero <= seen[u]
         /\ Behind \in Nat /\ Ahead \in Nat /\ Zero \in Int /\ Zero \in Times
<1>1. now \in 0 .. MaxDay /\ spoke[u] \in Times /\ seen[u] \in Times /\ alive[u] \in Times
  BY DEF IInv, TypeOK
<1>2. spoke[u] <= now /\ seen[u] <= now /\ alive[u] <= now
  BY DEF IInv, HistoryOK
<1>3. Behind \in Nat /\ Ahead \in Nat /\ MaxDay \in Nat /\ Zero \in Int /\ Zero <= -Behind
  BY Constants
<1>4. \A t \in Int : t \in Times <=> Zero <= t /\ t <= MaxDay + Ahead
  BY Constants
<1>5. spoke[u] \in Int /\ seen[u] \in Int /\ alive[u] \in Int /\ now \in Int
  BY <1>1, Constants
<1> QED
  BY <1>1, <1>2, <1>3, <1>4, <1>5

\* What the invariant says of the entry of a member.
LEMMA EntryNow ==
  ASSUME IInv, NEW u \in Members
  PROVE  /\ u \in Users /\ users[u] \in Entry
         /\ {users[u].joined, users[u].message, users[u].announce, users[u].command} \subseteq Int
         /\ Claim(users[u], spoke[u], seen[u], alive[u])
         /\ LastSpoke(users[u]) \in Int /\ spoke[u] \in Int
         /\ u \notin forgot => Record(users[u], seen[u], alive[u])
         /\ u \notin forgot /\ u \notin marking => spoke[u] <= LastSpoke(users[u])
<1>1. u \in Users /\ users[u] \in Entry /\ users[u] # Absent
  BY MemberEntry DEF IInv, Members
<1>2. {users[u].joined, users[u].message, users[u].announce, users[u].command} \subseteq Int
  BY <1>1, Constants DEF Entry
<1>3. LastSpoke(users[u]) \in Int /\ spoke[u] \in Int
  BY <1>1, LastTimes, Numbers
<1> QED
  BY <1>1, <1>2, <1>3 DEF IInv, Claims, Records

\* A member joins.
LEMMA JoinStep ==
  ASSUME IInv, TypeOK', NEW u \in Joiners, Join(u)
  PROVE  IInv'
<1> DEFINE e == [joined |-> now, message |-> now, announce |-> Zero, command |-> Zero]
<1>1. u \in Users
  BY PresenceAssumption
<1>2. e \in Entry
  BY <1>1, Numbers DEF Entry
<1>3. [users EXCEPT ![u] = e] \in Rosters
  BY <1>1, <1>2 DEF IInv, TypeOK, Rosters
<1>4. users' = [users EXCEPT ![u] = e] /\ disk' \in {users', disk}
  BY <1>3, Persisted DEF Join, IInv
<1>5. /\ spoke' = [spoke EXCEPT ![u] = now] /\ seen' = [seen EXCEPT ![u] = now]
      /\ alive' = alive /\ forgot' = forgot /\ now' = now /\ marking' = marking /\ ether' = ether
  BY DEF Join
<1>6. /\ spoke'[u] = now /\ seen'[u] = now
      /\ \A v \in Users : v # u => spoke'[v] = spoke[v] /\ seen'[v] = seen[v]
  BY <1>1, <1>5 DEF IInv, TypeOK
<1>7. Claim(e, now, now, alive[u]) /\ Record(e, now, alive[u]) /\ now <= LastSpoke(e)
  BY <1>1, <1>2, Numbers, LastTimes DEF Claim, Record
<1>8. /\ Claims(users', spoke', seen', alive')
      /\ Claims(disk', spoke', seen', alive')
      /\ Records(users', forgot', marking', spoke', seen', alive')
  <2> HIDE DEF e
  <2>1. spoke[u] <= spoke'[u] /\ seen[u] <= seen'[u] /\ alive[u] <= alive'[u]
    BY <1>1, <1>5, <1>6, Numbers
  <2>2. Claim(e, spoke'[u], seen'[u], alive'[u]) /\ Record(e, seen'[u], alive'[u]) /\ spoke'[u] <= LastSpoke(e)
    BY <1>5, <1>6, <1>7
  <2>3. \A v \in Users : v # u => /\ spoke'[v] = spoke[v]
                                  /\ seen'[v] = seen[v]
                                  /\ alive'[v] = alive[v]
    BY <1>5, <1>6
  <2> QED
    BY <1>1, <1>2, <1>4, <1>5, <2>1, <2>2, <2>3, EntryStep
<1>9. HistoryOK'
  BY <1>5, <1>6, Numbers DEF IInv, HistoryOK, TypeOK
<1> QED
  BY <1>5, <1>8, <1>9 DEF IInv, EtherOK

\* An inbound message is noted.
LEMMA TouchStep ==
  ASSUME IInv, TypeOK', NEW u \in Joiners, Touch(u)
  PROVE  IInv'
<1> DEFINE e == [users[u] EXCEPT !.command = now]
<1>1. u \in Users /\ u \in Members /\ users[u] \in Entry
  BY EntryNow DEF Touch
<1>2. e \in Entry
  BY <1>1, Numbers, EntryMoved
<1>3. [users EXCEPT ![u].command = now] = [users EXCEPT ![u] = e] /\ [users EXCEPT ![u] = e] \in Rosters
  BY <1>1, <1>2 DEF IInv, TypeOK, Rosters
<1>4. users' = [users EXCEPT ![u] = e] /\ disk' \in {users', disk}
  <2>1. PersistLocked([users EXCEPT ![u] = e])
    BY <1>3 DEF Touch
  <2> QED
    BY <1>3, <2>1, Persisted DEF IInv
<1>5. /\ seen' = [seen EXCEPT ![u] = now] /\ alive' = alive
      /\ forgot' = forgot /\ now' = now /\ ether' = ether
      /\ marking' \subseteq marking \cup {u} /\ marking \subseteq marking'
  BY DEF Touch
<1>6. /\ seen'[u] = now
      /\ spoke'[u] = spoke[u] \/ (spoke'[u] = now /\ u \in marking')
      /\ \A v \in Users : v # u => seen'[v] = seen[v] /\ spoke'[v] = spoke[v]
  BY <1>1, <1>5 DEF Touch, IInv, TypeOK
<1>7. /\ e.joined = users[u].joined /\ e.message = users[u].message
      /\ e.announce = users[u].announce /\ e.command = now
  BY <1>1 DEF Entry
<1>8. Claim(e, spoke'[u], now, alive[u])
  BY <1>1, <1>6, <1>7, Numbers, EntryNow DEF Claim
<1>9. u \notin forgot => Record(e, now, alive[u]) /\ (u \notin marking' => spoke'[u] <= LastSpoke(e))
  <2>1. LastSpoke(e) = LastSpoke(users[u])
    BY <1>7 DEF LastSpoke
  <2>2. now <= LastSeen(e) /\ LastSeen(e) \in Int
    BY <1>2, <1>7, LastTimes
  <2>3. Record(e, now, alive[u])
    <3> HIDE DEF e
    <3> QED
      BY <1>1, <2>2, Numbers DEF Record
  <2>4. u \notin forgot /\ u \notin marking' => spoke'[u] <= LastSpoke(e)
    <3> SUFFICES ASSUME u \notin forgot, u \notin marking'
                 PROVE  spoke'[u] <= LastSpoke(e)
      OBVIOUS
    <3>1. u \notin marking /\ spoke'[u] = spoke[u]
      BY <1>5, <1>6
    <3>2. spoke[u] \in Int /\ LastSpoke(users[u]) \in Int /\ spoke[u] <= LastSpoke(users[u])
      BY <1>1, <3>1, EntryNow
    <3> QED
      BY <2>1, <3>1, <3>2
  <2> QED
    BY <2>3, <2>4
<1>10. /\ Claims(users', spoke', seen', alive')
       /\ Claims(disk', spoke', seen', alive')
       /\ Records(users', forgot', marking', spoke', seen', alive')
  <2> HIDE DEF e
  <2>1. spoke[u] <= spoke'[u] /\ seen[u] <= seen'[u] /\ alive[u] <= alive'[u]
    BY <1>1, <1>5, <1>6, Numbers
  <2>2. /\ Claim(e, spoke'[u], seen'[u], alive'[u])
        /\ u \notin forgot => Record(e, seen'[u], alive'[u]) /\ (u \notin marking' => spoke'[u] <= LastSpoke(e))
    BY <1>5, <1>6, <1>8, <1>9
  <2>3. \A v \in Users : v # u => /\ spoke'[v] = spoke[v]
                                  /\ seen'[v] = seen[v]
                                  /\ alive'[v] = alive[v]
    BY <1>5, <1>6
  <2> QED
    BY <1>1, <1>2, <1>4, <1>5, <2>1, <2>2, <2>3, EntryStep
<1>11. HistoryOK'
  <2>1. \A v \in Users : seen'[v] <= now /\ alive'[v] <= now /\ spoke'[v] <= now
    BY <1>5, <1>6, Numbers DEF IInv, HistoryOK
  <2>2. \A v \in marking' : v # u => v \in marking
    BY <1>5
  <2>3. u \in marking' => spoke'[u] = now
    BY <1>1, <1>6, <2>2 DEF Touch, IInv, HistoryOK, TypeOK
  <2>4. marking' \subseteq Users
    BY DEF TypeOK
  <2> QED
    BY <1>5, <1>6, <2>1, <2>2, <2>3, <2>4 DEF IInv, HistoryOK
<1> QED
  BY <1>5, <1>10, <1>11 DEF IInv, EtherOK

\* The message of a member is recorded.
LEMMA MarkStep ==
  ASSUME IInv, TypeOK', NEW u \in Joiners, MarkMessage(u)
  PROVE  IInv'
<1>0. /\ seen' = seen /\ alive' = alive /\ spoke' = spoke /\ forgot' = forgot /\ now' = now /\ ether' = ether
      /\ marking' = marking \ {u} /\ seen[u] = now /\ spoke[u] = now /\ u \in Users
  BY PresenceAssumption DEF MarkMessage, IInv, HistoryOK, history
<1>1. CASE u \in Members
  <2> DEFINE e == [users[u] EXCEPT !.message = now]
  <2>1. users[u] \in Entry
    BY <1>1, EntryNow
  <2>2. e \in Entry
    BY <1>0, <2>1, Numbers, EntryMoved
  <2>3. [users EXCEPT ![u].message = now] = [users EXCEPT ![u] = e] /\ [users EXCEPT ![u] = e] \in Rosters
    BY <1>0, <2>2 DEF IInv, TypeOK, Rosters
  <2>4. users' = [users EXCEPT ![u] = e] /\ disk' \in {users', disk}
    <3>1. PersistLocked([users EXCEPT ![u] = e])
      BY <1>1, <2>3 DEF MarkMessage
    <3> QED
      BY <2>3, <3>1, Persisted DEF IInv
  <2>7. /\ e.joined = users[u].joined /\ e.message = now
        /\ e.announce = users[u].announce /\ e.command = users[u].command
    BY <2>1 DEF Entry
  <2>8. Claim(e, now, seen[u], alive[u])
    BY <1>0, <1>1, <2>7, Numbers, EntryNow DEF Claim
  <2>9. Record(e, seen[u], alive[u]) /\ now <= LastSpoke(e)
    <3>1. now <= LastSeen(e) /\ LastSeen(e) \in Int /\ now <= LastSpoke(e)
      BY <2>2, <2>7, LastTimes
    <3> QED
      BY <1>0, <3>1, Numbers DEF Record
  <2>10. /\ Claims(users', spoke', seen', alive')
         /\ Claims(disk', spoke', seen', alive')
         /\ Records(users', forgot', marking', spoke', seen', alive')
    <3> HIDE DEF e
    <3>1. spoke[u] <= spoke'[u] /\ seen[u] <= seen'[u] /\ alive[u] <= alive'[u]
      BY <1>0, Numbers
    <3>2. Claim(e, spoke'[u], seen'[u], alive'[u]) /\ Record(e, seen'[u], alive'[u]) /\ spoke'[u] <= LastSpoke(e)
      BY <1>0, <2>8, <2>9
    <3>3. \A v \in Users : v # u => /\ spoke'[v] = spoke[v]
                                    /\ seen'[v] = seen[v]
                                    /\ alive'[v] = alive[v]
      BY <1>0
    <3> QED
      BY <1>0, <2>2, <2>4, <3>1, <3>2, <3>3, EntryStep
  <2>11. HistoryOK'
    BY <1>0 DEF IInv, HistoryOK
  <2> QED
    BY <1>0, <2>10, <2>11 DEF IInv, EtherOK
<1>2. CASE u \notin Members
  <2>1. users' = users /\ disk' = disk
    BY <1>2 DEF MarkMessage, roster
  <2>2. Records(users', forgot', marking', spoke', seen', alive')
    BY <1>0, <1>2, <2>1 DEF IInv, Records, Members
  <2> QED
    BY <1>0, <2>1, <2>2 DEF IInv, EtherOK, HistoryOK
<1> QED
  BY <1>1, <1>2

\* A member leaves, or the sweep takes some.
LEMMA LeaveStep ==
  ASSUME IInv, TypeOK', NEW r \in Rosters, PersistLocked(r),
         \A v \in Users : r[v] \in {users[v], Absent},
         UNCHANGED <<now, marking, ether, history>>
  PROVE  IInv'
<1>1. users' = r /\ disk' \in {users', disk}
  BY Persisted DEF IInv
<1>2. /\ Claims(users', spoke', seen', alive')
      /\ Claims(disk', spoke', seen', alive')
      /\ Records(users', forgot', marking', spoke', seen', alive')
  BY <1>1, FewerStep
<1> QED
  BY <1>2 DEF IInv, EtherOK, HistoryOK, history

\* A client announces itself.
LEMMA EmitStep ==
  ASSUME IInv, TypeOK', NEW u \in Users, NEW skew \in Skews(u), Emit(u, skew)
  PROVE  IInv'
<1>1. IsFiniteSet(ether') /\ \A a \in ether' \ ether : a.real = now /\ a.stamp = now + skew
  BY EmitType DEF IInv, EtherOK
<1>2. now' = now
  BY DEF Emit
<1>3. EtherOK'
  <2> SUFFICES ASSUME NEW a \in ether'
               PROVE  a.real <= now /\ a.real - Behind <= a.stamp /\ a.stamp <= a.real + Ahead
    BY <1>1, <1>2 DEF EtherOK
  <2>1. CASE a \in ether
    BY <2>1 DEF IInv, EtherOK
  <2>2. CASE a \notin ether
    BY <1>1, <2>2, SkewBounds, Numbers
  <2> QED
    BY <2>1, <2>2
<1> QED
  BY <1>3 DEF IInv, HistoryOK, Emit, roster, history

\* An announce arrives, whenever it was emitted.
LEMMA AnnounceStep ==
  ASSUME IInv, TypeOK', NEW a \in ether, HandleAnnounce(a)
  PROVE  IInv'
<1> DEFINE u == a.from
<1>0. /\ seen' = seen /\ spoke' = spoke /\ forgot' = forgot /\ now' = now /\ ether' = ether
      /\ marking' = marking
      /\ alive' = [alive EXCEPT ![u] = IF u \in Members THEN Later(@, a.real) ELSE @]
  BY DEF HandleAnnounce
<1>1. u \in Users /\ At(a) \in Times /\ At(a) \in Int /\ a.real \in Int /\ a.stamp \in Int
  BY AtType, Constants DEF IInv
<1>2. a.real <= now /\ a.real - Behind <= At(a) /\ At(a) <= a.real + Ahead
  BY <1>1, AtType, Numbers DEF IInv, EtherOK
<1>3. CASE u \in Members
  <2>1. alive'[u] = Later(alive[u], a.real) /\ \A v \in Users : v # u => alive'[v] = alive[v]
    BY <1>0, <1>1, <1>3 DEF IInv, TypeOK
  <2>2. alive[u] <= alive'[u] /\ a.real <= alive'[u] /\ alive'[u] \in Int /\ alive'[u] <= now
        /\ alive'[u] \in {alive[u], a.real}
    BY <1>1, <1>2, <2>1, Numbers DEF Later
  <2>3. users[u] \in Entry
    BY <1>3, EntryNow
  <2> DEFINE t == IF At(a) > users[u].announce THEN At(a) ELSE users[u].announce
             e == [users[u] EXCEPT !.announce = t]
  <2>4. users[u].announce \in Int /\ t \in Int /\ At(a) <= t /\ users[u].announce <= t
        /\ t \in {At(a), users[u].announce}
    BY <1>1, <1>3, EntryNow
  <2>5. e \in Entry
    <3>1. t \in Times
      BY <1>1, <2>3 DEF Entry
    <3> QED
      BY <2>3, <3>1, EntryMoved
  <2>6. users' = [users EXCEPT ![u] = e] /\ disk' \in {users', disk}
    <3>1. CASE At(a) > users[u].announce
      <4>1. [users EXCEPT ![u].announce = At(a)] = [users EXCEPT ![u] = e]
            /\ [users EXCEPT ![u] = e] \in Rosters
        BY <1>1, <2>5, <3>1 DEF IInv, TypeOK, Rosters
      <4>2. PersistLocked([users EXCEPT ![u].announce = At(a)])
        BY <1>1, <1>3, <2>4, <3>1 DEF HandleAnnounce, UpdateLastAnnounce
      <4> QED
        BY <4>1, <4>2, Persisted DEF IInv
    <3>2. CASE ~(At(a) > users[u].announce)
      <4>1. users' = users /\ disk' = disk
        BY <3>2 DEF HandleAnnounce, UpdateLastAnnounce, roster
      <4>2. e = users[u]
        BY <2>3, <3>2 DEF Entry
      <4>3. [users EXCEPT ![u] = e] = users
        BY <1>1, <4>2 DEF IInv, TypeOK
      <4> QED
        BY <4>1, <4>3
    <3> QED
      BY <3>1, <3>2
  <2>7. /\ e.joined = users[u].joined /\ e.message = users[u].message
        /\ e.announce = t /\ e.command = users[u].command
    BY <2>3 DEF Entry
  <2> HIDE DEF t
  <2>8. Claim(e, spoke[u], seen[u], alive'[u])
    <3>1. Claim(users[u], spoke[u], seen[u], alive[u])
      BY <1>3, EntryNow
    <3>2. t <= alive'[u] + Ahead
      BY <1>1, <1>2, <2>2, <2>4, <3>1, Numbers DEF Claim
    <3> QED
      BY <2>7, <3>1, <3>2 DEF Claim
  <2>9. u \notin forgot => Record(e, seen[u], alive'[u]) /\ (u \notin marking => spoke[u] <= LastSpoke(e))
    <3> SUFFICES ASSUME u \notin forgot
                 PROVE  Record(e, seen[u], alive'[u]) /\ (u \notin marking => spoke[u] <= LastSpoke(e))
      OBVIOUS
    <3>1. Record(users[u], seen[u], alive[u])
      BY <1>3, EntryNow
    <3>2. u \notin marking => spoke[u] <= LastSpoke(e)
      <4>1. u \notin marking => spoke[u] <= LastSpoke(users[u])
        BY <1>3, EntryNow
      <4>2. LastSpoke(e) = LastSpoke(users[u])
        BY <2>7 DEF LastSpoke
      <4> QED
        BY <4>1, <4>2
    <3>3. t <= LastSeen(e) /\ LastSeen(users[u]) <= LastSeen(e) /\ LastSeen(e) \in Int /\ LastSeen(users[u]) \in Int
      <4>1. LastSeen(users[u]) \in {users[u].joined, users[u].message, users[u].announce, users[u].command}
            /\ LastSeen(users[u]) \in Int
        BY <2>3, LastTimes
      <4>2. /\ LastSeen(e) \in Int /\ e.joined <= LastSeen(e) /\ e.message <= LastSeen(e)
            /\ e.announce <= LastSeen(e) /\ e.command <= LastSeen(e)
        BY <2>5, LastTimes
      <4> HIDE DEF e
      <4> QED
        BY <2>4, <2>7, <4>1, <4>2
    <3> HIDE DEF e
    <3>4. a.real - Behind <= LastSeen(e)
      BY <1>1, <1>2, <2>4, <3>3, Numbers
    <3>5. alive'[u] - Behind <= LastSeen(e)
      BY <1>1, <2>2, <3>1, <3>3, <3>4, Numbers DEF Record
    <3>6. seen[u] <= LastSeen(e)
      BY <1>1, <3>1, <3>3, Numbers DEF Record
    <3> QED
      BY <3>1, <3>2, <3>5, <3>6 DEF Record
  <2>10. /\ Claims(users', spoke', seen', alive')
         /\ Claims(disk', spoke', seen', alive')
         /\ Records(users', forgot', marking', spoke', seen', alive')
    <3> HIDE DEF e, u
    <3>1. spoke[u] <= spoke'[u] /\ seen[u] <= seen'[u] /\ alive[u] <= alive'[u]
      BY <1>0, <1>1, <2>2, Numbers
    <3>2. /\ Claim(e, spoke'[u], seen'[u], alive'[u])
          /\ u \notin forgot => Record(e, seen'[u], alive'[u]) /\ (u \notin marking' => spoke'[u] <= LastSpoke(e))
      BY <1>0, <2>8, <2>9
    <3>3. \A v \in Users : v # u => /\ spoke'[v] = spoke[v]
                                    /\ seen'[v] = seen[v]
                                    /\ alive'[v] = alive[v]
      BY <1>0, <2>1
    <3>4. u \in Users /\ forgot' = forgot /\ marking' = marking
      BY <1>0, <1>1
    <3> QED
      BY <2>5, <2>6, <3>1, <3>2, <3>3, <3>4, EntryStep
  <2>11. HistoryOK'
    BY <1>0, <2>1, <2>2, Numbers DEF IInv, HistoryOK
  <2> QED
    BY <1>0, <2>10, <2>11 DEF IInv, EtherOK
<1>4. CASE u \notin Members
  <2>1. users' = users /\ disk' = disk
    BY <1>4 DEF HandleAnnounce, UpdateLastAnnounce, roster
  <2>2. alive' = alive
    BY <1>0, <1>1, <1>4 DEF IInv, TypeOK
  <2> QED
    BY <1>0, <2>1, <2>2 DEF IInv, EtherOK, HistoryOK
<1> QED
  BY <1>3, <1>4

\* The process restarts: an entry the file does not have as it was is forgotten.
LEMMA RestartStep ==
  ASSUME IInv, TypeOK', Restart
  PROVE  IInv'
<1>1. /\ users' = disk /\ disk' = disk
      /\ \A u \in Users : u \notin forgot' => u \notin forgot /\ u \notin marking /\ disk[u] = users[u]
      /\ seen' = seen /\ alive' = alive /\ spoke' = spoke /\ now' = now /\ ether' = ether /\ marking' = {}
  BY DEF Restart
<1>2. Records(users', forgot', marking', spoke', seen', alive')
  BY <1>1 DEF IInv, Records
<1> QED
  BY <1>1, <1>2 DEF IInv, EtherOK, HistoryOK

\* A day passes when no handler is running.
LEMMA TickStep ==
  ASSUME IInv, TypeOK', Tick
  PROVE  IInv'
<1>1. now' = now + 1 /\ now \in Int /\ marking' = {}
  BY Constants DEF IInv, TypeOK, Tick
<1>2. EtherOK'
  <2>1. \A a \in ether : a.real \in Int
    BY AtType DEF IInv
  <2> QED
    BY <1>1, <2>1 DEF IInv, EtherOK, Tick
<1>3. HistoryOK'
  <2>1. seen' = seen /\ alive' = alive /\ spoke' = spoke
    BY DEF Tick, history
  <2>2. \A u \in Users : seen[u] <= now' /\ alive[u] <= now' /\ spoke[u] <= now'
    BY <1>1, Numbers
  <2> QED
    BY <1>1, <2>1, <2>2 DEF HistoryOK
<1> QED
  BY <1>2, <1>3 DEF IInv, Tick, roster, history

-----------------------------------------------------------------------------
\* Every step keeps the invariant.
LEMMA IInvStep == IInv /\ [Next]_vars => IInv'
<1> SUFFICES ASSUME IInv, [Next]_vars PROVE IInv'
  OBVIOUS
<1>0. TypeOK'
  BY TypeStep DEF IInv, EtherOK
<1>1. ASSUME NEW u \in Joiners, Join(u) PROVE IInv'
  BY <1>0, <1>1, JoinStep
<1>2. ASSUME NEW u \in Joiners, Touch(u) PROVE IInv'
  BY <1>0, <1>2, TouchStep
<1>3. ASSUME NEW u \in Joiners, MarkMessage(u) PROVE IInv'
  BY <1>0, <1>3, MarkStep
<1>4. ASSUME NEW u \in Joiners, Remove(u) PROVE IInv'
  <2>1. [users EXCEPT ![u] = Absent] \in Rosters
        /\ \A v \in Users : [users EXCEPT ![u] = Absent][v] \in {users[v], Absent}
    BY DEF IInv, TypeOK, Rosters
  <2> QED
    BY <1>0, <1>4, <2>1, LeaveStep DEF Remove
<1>5. ASSUME NEW u \in Users, NEW skew \in Skews(u), Emit(u, skew) PROVE IInv'
  BY <1>0, <1>5, EmitStep
<1>6. ASSUME NEW a \in ether, HandleAnnounce(a) PROVE IInv'
  BY <1>0, <1>6, AnnounceStep
<1>7. ASSUME RunPrune PROVE IInv'
  <2> DEFINE r == [u \in Users |-> IF u \in Inactive THEN Absent ELSE users[u]]
  <2>1. r \in Rosters /\ \A v \in Users : r[v] \in {users[v], Absent}
    BY DEF IInv, TypeOK, Rosters
  <2>2. PersistLocked(r) /\ UNCHANGED <<now, marking, ether, history>>
    BY <1>7 DEF RunPrune
  <2> HIDE DEF r
  <2> QED
    BY <1>0, <2>1, <2>2, LeaveStep
<1>8. ASSUME Restart PROVE IInv'
  BY <1>0, <1>8, RestartStep
<1>9. ASSUME Tick PROVE IInv'
  BY <1>0, <1>9, TickStep
<1>10. ASSUME UNCHANGED vars PROVE IInv'
  BY <1>0, <1>10 DEF IInv, EtherOK, HistoryOK, vars, roster, history
<1> QED
  BY <1>1, <1>2, <1>3, <1>4, <1>5, <1>6, <1>7, <1>8, <1>9, <1>10 DEF Next

\* The sweep goes by entries that claim no more than there was and miss nothing.
LEMMA IInvExact == IInv => PruneExact
<1> SUFFICES ASSUME IInv, NEW u \in Members
             PROVE  /\ u \in Inactive =>
                         \/ u \in forgot
                         \/ seen[u] < now - Idle /\ alive[u] < now - Idle + Behind
                         \/ Silent > 0 /\ (u \in marking \/ spoke[u] < now - Silent)
                    /\ u \notin Inactive =>
                         /\ seen[u] >= now - Idle \/ alive[u] >= now - Idle - Ahead
                         /\ Silent > 0 => spoke[u] >= now - Silent
  BY DEF PruneExact
<1>1. /\ u \in Users
      /\ now \in Int /\ spoke[u] \in Int /\ seen[u] \in Int /\ alive[u] \in Int
      /\ Idle \in Int /\ Silent \in Int /\ Behind \in Int /\ Ahead \in Int
  BY EntryNow, Numbers, Constants
<1>2. users[u] \in Entry
  BY EntryNow
<1>3. /\ LastSeen(users[u]) \in Int /\ LastSpoke(users[u]) \in Int
      /\ LastSeen(users[u]) \in {users[u].joined, users[u].message, users[u].announce, users[u].command}
      /\ LastSpoke(users[u]) \in {users[u].joined, users[u].message}
  BY <1>2, LastTimes
<1>4. LastSpoke(users[u]) <= spoke[u]
  BY <1>3, EntryNow DEF Claim
<1>5. LastSeen(users[u]) <= seen[u] \/ LastSeen(users[u]) <= alive[u] + Ahead
  BY <1>3, EntryNow DEF Claim
<1>6. /\ u \notin forgot => Record(users[u], seen[u], alive[u])
      /\ u \notin forgot /\ u \notin marking => spoke[u] <= LastSpoke(users[u])
  BY EntryNow
<1>7. u \in Inactive <=> \/ LastSeen(users[u]) < now - Idle
                         \/ Silent > 0 /\ LastSpoke(users[u]) < now - Silent
  BY DEF Inactive
<1>8. ASSUME u \in Inactive, u \notin forgot
      PROVE  \/ seen[u] < now - Idle /\ alive[u] < now - Idle + Behind
             \/ Silent > 0 /\ (u \in marking \/ spoke[u] < now - Silent)
  <2>1. CASE LastSeen(users[u]) < now - Idle
    BY <1>1, <1>3, <1>6, <1>8, <2>1 DEF Record
  <2>2. CASE Silent > 0 /\ LastSpoke(users[u]) < now - Silent
    BY <1>1, <1>3, <1>6, <1>8, <2>2 DEF Record
  <2> QED
    BY <1>7, <1>8, <2>1, <2>2
<1>9. ASSUME u \notin Inactive
      PROVE  /\ seen[u] >= now - Idle \/ alive[u] >= now - Idle - Ahead
             /\ Silent > 0 => spoke[u] >= now - Silent
  BY <1>1, <1>3, <1>4, <1>5, <1>7, <1>9
<1> QED
  BY <1>8, <1>9

\* In every behaviour the state has its type.
THEOREM TypeCorrect == Spec => []TypeOK
<1>1. IInv => TypeOK
  BY DEF IInv
<1> QED
  BY InitIInv, IInvStep, <1>1, PTL DEF Spec

\* In every behaviour the sweep (Roster.Prune) takes nobody who was there and leaves
\* nobody who was not, up to the error of his own clock: announceTap takes the time of
\* emission, cut at now, UpdateLastAnnounce never goes back, and no repeated announce,
\* failed write or restart makes an entry claim more than there was.
THEOREM SweepExact == Spec => []PruneExact
BY InitIInv, IInvStep, IInvExact, PTL DEF Spec

=============================================================================
