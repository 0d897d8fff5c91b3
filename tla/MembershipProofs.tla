--------------------------- MODULE MembershipProofs ---------------------------
(***************************************************************************)
(* Proofs about Membership, for any users, any number of handlers running  *)
(* at the same time, any crashes and any failed saves.                     *)
(***************************************************************************)
EXTENDS Membership, FiniteSetTheorems, TLAPS

Handlers == [Procs -> {Idle} \cup Job]

-----------------------------------------------------------------------------
(* Types *)

\* A handler that is not idle has a command.
LEMMA HasJob ==
  ASSUME NEW p \in Procs, h \in Handlers, h[p].pc # "idle"
  PROVE  h[p] \in Job
BY DEF Handlers, Idle

\* Moving a busy handler to another place keeps the type of h.
LEMMA GotoType ==
  ASSUME NEW p \in Procs, h \in Handlers, h[p] \in Job, NEW pc \in Places, Goto(p, pc)
  PROVE  h' \in Handlers
BY DEF Handlers, Job, Goto

\* Finishing a handler keeps the type of h.
LEMMA DoneType ==
  ASSUME NEW p \in Procs, h \in Handlers, Done(p)
  PROVE  h' \in Handlers
BY DEF Handlers, Done

\* An effective role is a role.
LEMMA RoleType ==
  ASSUME NEW us \in Rosters, NEW u \in Users
  PROVE  RoleIn(us, u) \in Roles
BY UserAssumption DEF Rosters, Profile, RoleIn

\* The types of what a critical section of the roster leaves behind.
RosterOK ==
  /\ users' \in Rosters
  /\ banned' \subseteq Users
  /\ disk' \in [users : Rosters, banned : SUBSET Users]
  /\ lag' \in Nat
  /\ saveFails' \in Nat

\* Saving, or failing to save, a roster of the right type.
LEMMA SaveType ==
  ASSUME TypeOK, users' \in Rosters, banned' \subseteq Users, PersistLocked \/ NoSave
  PROVE  RosterOK
BY DEF TypeOK, RosterOK, PersistLocked, SaveOk, SaveFails, NoSave

\* A step that leaves roster and file alone.
LEMMA KeepType ==
  ASSUME TypeOK, Keep
  PROVE  RosterOK
BY SaveType DEF TypeOK, Keep

\* Roster.Remove.
LEMMA RemoveType ==
  ASSUME TypeOK, NEW u \in Users, Remove(u)
  PROVE  RosterOK
<1>1. CASE users[u] = Absent
  BY <1>1, KeepType DEF Remove
<1>2. CASE users[u] # Absent
  <2>1. users' \in Rosters /\ banned' \subseteq Users
    BY <1>2 DEF Remove, TypeOK, Rosters
  <2> QED  BY <1>2, <2>1, SaveType DEF Remove
<1> QED  BY <1>1, <1>2

\* SetNickname, SetPaused, SetTextOnly and SetRole.
LEMMA UpdateType ==
  ASSUME TypeOK, NEW u \in Users, NEW new, users[u] # Absent => new \in Profile,
         Update(u, new)
  PROVE  RosterOK
<1>1. CASE users[u] = Absent
  BY <1>1, KeepType DEF Update
<1>2. CASE users[u] # Absent
  <2>1. users' \in Rosters /\ banned' \subseteq Users
    BY <1>2 DEF Update, TypeOK, Rosters
  <2> QED  BY <1>2, <2>1, SaveType DEF Update
<1> QED  BY <1>1, <1>2

\* A member's entry is a profile.
LEMMA MemberProfile ==
  ASSUME TypeOK, NEW u \in Users, users[u] # Absent
  PROVE  users[u] \in Profile
BY DEF TypeOK, Rosters

\* A profile with another role or nickname is a profile.
LEMMA ProfileUpdate ==
  ASSUME NEW r \in Profile, NEW l \in Roles
  PROVE  /\ [r EXCEPT !.role = l] \in Profile
         /\ [r EXCEPT !.nick = "chosen"] \in Profile
         /\ [r EXCEPT !.nick = "announced"] \in Profile
BY DEF Profile

\* A profile with a flag set or cleared is a profile.
LEMMA FlagUpdate ==
  ASSUME NEW r \in Profile, NEW set \in BOOLEAN, NEW f \in {"paused", "textOnly"}
  PROVE  [r EXCEPT !.flags = IF set THEN @ \cup {f} ELSE @ \ {f}] \in Profile
<1>1. r.flags \in SUBSET {"paused", "textOnly"}
  BY DEF Profile
<1>2. \A F \in SUBSET {"paused", "textOnly"} : [r EXCEPT !.flags = F] \in Profile
  BY DEF Profile
<1>3. (IF set THEN r.flags \cup {f} ELSE r.flags \ {f}) \in SUBSET {"paused", "textOnly"}
  BY <1>1
<1> QED  BY <1>2, <1>3

\* Roster.Ban and Roster.Unban.
LEMMA BanType ==
  ASSUME TypeOK, NEW u \in Users, Ban(u) \/ Unban(u)
  PROVE  RosterOK
<1>1. CASE Ban(u)
  <2>1. users' \in Rosters /\ banned' \subseteq Users
    BY <1>1 DEF Ban, TypeOK, Rosters
  <2> QED  BY <1>1, <2>1, SaveType DEF Ban
<1>2. CASE Unban(u) /\ u \notin banned
  BY <1>2, KeepType DEF Unban
<1>3. CASE Unban(u) /\ u \in banned
  <2>1. users' \in Rosters /\ banned' \subseteq Users
    BY <1>3 DEF Unban, TypeOK
  <2> QED  BY <1>3, <2>1, SaveType DEF Unban
<1> QED  BY <1>1, <1>2, <1>3

\* The history variables keep their types.
LEMMA RememberType ==
  ASSUME TypeOK, RosterOK, h' \in Handlers, Remember
  PROVE  raced' \subseteq Users /\ chose' \subseteq Users /\ peak' \in [Procs -> Roles]
<1>1. raced' \subseteq Users /\ chose' \subseteq Users
  BY DEF TypeOK, RosterOK, Remember
<1>2. ASSUME NEW p \in Procs PROVE peak'[p] \in Roles
  <2>1. CASE h'[p].pc = "idle"
    BY <2>1 DEF Remember, Roles
  <2>2. CASE h'[p].pc # "idle"
    <3>1. h'[p].from \in Users
      BY <2>2 DEF Handlers, Idle, Job
    <3>2. RoleIn(users', h'[p].from) \in Roles
      BY <3>1, RoleType DEF RosterOK
    <3> QED  BY <2>2, <3>2 DEF Remember, TypeOK
  <2> QED  BY <2>1, <2>2
<1>3. peak' \in [Procs -> Roles]
  BY <1>2 DEF Remember
<1> QED  BY <1>1, <1>3

\* A step keeps the types once the roster, the handlers and the announce side do.
LEMMA StepType ==
  ASSUME TypeOK, RosterOK, h' \in Handlers, Remember,
         tap' \in {Idle} \cup [pc : {"get", "set"}, user : Users], named' \subseteq Users,
         msgs' \in Nat, announces' \in Nat, prunes' \in Nat, crashes' \in Nat
  PROVE  TypeOK'
<1>1. raced' \subseteq Users /\ chose' \subseteq Users /\ peak' \in [Procs -> Roles]
  BY RememberType
<1> QED  BY <1>1 DEF TypeOK, RosterOK, Handlers

\* One more command.
LEMMA ReceiveType ==
  ASSUME TypeOK, NEW p \in Procs, NEW u \in Users, NEW arg \in Users, NEW cmd \in Cmds,
         NEW level \in Roles, Receive(p, u, cmd, arg, level), Remember
  PROVE  TypeOK'
<1>1. RosterOK
  BY KeepType DEF Receive
<1>2. cmd \in AllCmds
  BY UserAssumption
<1>3. h' \in Handlers
  <2> DEFINE j == [pc |-> "touch", from |-> u, cmd |-> cmd, arg |-> arg, level |-> level,
                   member |-> FALSE, flags |-> {}, role |-> RoleUser]
  <2>1. j \in Job
    BY <1>2 DEF Job, Places, Roles
  <2>2. h' = [h EXCEPT ![p] = j]
    BY DEF Receive
  <2> HIDE DEF j
  <2> QED  BY <2>1, <2>2 DEF TypeOK, Handlers
<1>4. /\ msgs' \in Nat /\ announces' \in Nat /\ prunes' \in Nat /\ crashes' \in Nat
      /\ tap' = tap /\ named' = named
  BY DEF Receive, TypeOK
<1> QED  BY <1>1, <1>3, <1>4, StepType DEF TypeOK

\* One step of a handler: roster, handlers, and nothing else.
HandlerOK == RosterOK /\ h' \in Handlers /\ Outside

\* Every step of a handler keeps the types and leaves the announce side alone.
LEMMA HandleType ==
  ASSUME TypeOK, NEW p \in Procs, Handle(p)
  PROVE  HandlerOK
<1> USE DEF HandlerOK
<1>a. h \in Handlers
  BY DEF TypeOK, Handlers
<1>b. ASSUME ~At(p, "idle")
      PROVE  h[p] \in Job /\ h[p].from \in Users /\ h[p].arg \in Users /\ h[p].level \in Roles
  <2>1. h[p] \in Job
    BY <1>a, <1>b, HasJob DEF At
  <2> QED  BY <2>1 DEF Job
<1>1. CASE Touch(p)
  <2>1. RosterOK
    BY <1>1, SaveType DEF Touch, TypeOK
  <2>2. h' \in Handlers
    BY <1>1, <1>a, <1>b, GotoType DEF Touch, At, Places
  <2> QED  BY <1>1, <2>1, <2>2 DEF Touch
<1>2. CASE DeriveMember(p)
  <2>1. RosterOK
    BY <1>2, KeepType DEF DeriveMember
  <2>2. h[p] \in Job /\ Config[h[p].from] \in Roles
    BY <1>2, <1>b, UserAssumption DEF DeriveMember, At
  <2>3. h' \in Handlers
    BY <1>2, <1>a, <2>2 DEF DeriveMember, Handlers, Job, Places
  <2> QED  BY <1>2, <2>1, <2>3 DEF DeriveMember
<1>3. CASE DeriveProfile(p)
  <2>1. RosterOK
    BY <1>3, KeepType DEF DeriveProfile
  <2>2. h[p] \in Job /\ h[p].from \in Users
    BY <1>3, <1>b DEF DeriveProfile, At
  <2>3. RoleIn(users, h[p].from) \in Roles
    BY <2>2, RoleType DEF TypeOK
  <2>4. (IF users[h[p].from] = Absent THEN {} ELSE users[h[p].from].flags)
           \in SUBSET {"paused", "textOnly"}
    BY <2>2, MemberProfile DEF Profile
  <2>5. h' \in Handlers
    BY <1>3, <1>a, <2>2, <2>3, <2>4 DEF DeriveProfile, Handlers, Job, Places
  <2> QED  BY <1>3, <2>1, <2>5 DEF DeriveProfile
<1>4. CASE Refuse(p) \/ JoinIsBanned(p) \/ JoinLen(p) \/ JoinGet(p) \/ JoinLookup(p)
           \/ Resolve(p) \/ ResolveBanned(p)
  <2>1. Keep /\ Outside /\ ~At(p, "idle")
    BY <1>4 DEF Refuse, JoinIsBanned, JoinLen, JoinGet, JoinLookup, Resolve, ResolveBanned,
                Running, At
  <2>2. Done(p) \/ \E pc \in Places : Goto(p, pc)
    BY <1>4 DEF Refuse, JoinIsBanned, JoinLen, JoinGet, JoinLookup, Resolve, ResolveBanned,
                Places
  <2> QED  BY <2>1, <2>2, <1>a, <1>b, KeepType, GotoType, DoneType
<1>5. CASE JoinAdd(p)
  <2>1. h[p] \in Job /\ h[p].from \in Users
    BY <1>5, <1>b DEF JoinAdd, At
  <2>2. users' \in Rosters /\ banned' \subseteq Users
    BY <1>5, <2>1 DEF JoinAdd, TypeOK, Rosters, Profile, Fresh, Roles
  <2>3. RosterOK
    BY <1>5, <2>2, SaveType DEF JoinAdd, PersistLocked
  <2>4. h' \in Handlers
    BY <1>5, <2>1, <1>a, GotoType, DoneType DEF JoinAdd, Places
  <2> QED  BY <1>5, <2>3, <2>4 DEF JoinAdd
<1>6. CASE JoinName(p)
  <2>1. h[p].from \in Users
    BY <1>6, <1>b DEF JoinName, At
  <2>2. users[h[p].from] # Absent
          => [users[h[p].from] EXCEPT !.nick = "announced"] \in Profile
    BY <2>1, MemberProfile, ProfileUpdate DEF Roles
  <2> QED  BY <1>6, <2>1, <2>2, <1>a, UpdateType, DoneType DEF JoinName
<1>7. CASE HandleLeave(p)
  <2>1. h[p].from \in Users
    BY <1>7, <1>b DEF HandleLeave, Running, At
  <2> QED  BY <1>7, <2>1, <1>a, RemoveType, DoneType DEF HandleLeave
<1>8. CASE HandleFlag(p)
  <2>1. h[p].from \in Users
    BY <1>8, <1>b DEF HandleFlag, Running, At
  <2>2. ASSUME users[h[p].from] # Absent
        PROVE  [users[h[p].from] EXCEPT !.flags =
                  IF h[p].cmd \in {"pause", "textonly"} THEN @ \cup {Flag(h[p].cmd)}
                  ELSE @ \ {Flag(h[p].cmd)}] \in Profile
    <3>1. users[h[p].from] \in Profile
      BY <2>1, <2>2, MemberProfile
    <3>2. Flag(h[p].cmd) \in {"paused", "textOnly"}
      BY DEF Flag
    <3>3. (h[p].cmd \in {"pause", "textonly"}) \in BOOLEAN
      OBVIOUS
    <3> QED  BY <3>1, <3>2, <3>3, FlagUpdate
  <2> QED  BY <1>8, <2>1, <2>2, <1>a, UpdateType, DoneType DEF HandleFlag
<1>9. CASE HandleNick(p)
  <2>1. h[p].from \in Users
    BY <1>9, <1>b DEF HandleNick, Running, At
  <2>2. users[h[p].from] # Absent
          => [users[h[p].from] EXCEPT !.nick = "chosen"] \in Profile
    BY <2>1, MemberProfile, ProfileUpdate DEF Roles
  <2> QED  BY <1>9, <2>1, <2>2, <1>a, UpdateType, DoneType DEF HandleNick
<1>10. CASE ActNick(p) \/ ActUserMode(p)
  <2>1. h[p].arg \in Users /\ h[p].level \in Roles
    BY <1>10, <1>b DEF ActNick, ActUserMode, Act, At
  <2>2. users[h[p].arg] # Absent =>
          /\ [users[h[p].arg] EXCEPT !.nick = "chosen"] \in Profile
          /\ [users[h[p].arg] EXCEPT !.role = h[p].level] \in Profile
    BY <2>1, MemberProfile, ProfileUpdate
  <2> QED  BY <1>10, <2>1, <2>2, <1>a, UpdateType, DoneType DEF ActNick, ActUserMode, Act
<1>11. CASE ActKick(p) \/ ActBan(p) \/ ActUnban(p)
  <2>1. h[p].arg \in Users
    BY <1>11, <1>b DEF ActKick, ActBan, ActUnban, Act, At
  <2> QED  BY <1>11, <2>1, <1>a, RemoveType, BanType, DoneType
              DEF ActKick, ActBan, ActUnban, Act
<1> QED  BY <1>1, <1>2, <1>3, <1>4, <1>5, <1>6, <1>7, <1>8, <1>9, <1>10, <1>11 DEF Handle

\* The announce handler, the prune ticker and a restart keep the types.
LEMMA OtherType ==
  ASSUME TypeOK, Remember,
         \/ \E u \in Users, usable \in BOOLEAN : OnAnnounce(u, usable)
         \/ AdoptGet \/ AdoptSet
         \/ \E S \in SUBSET Users : RunPrune(S)
         \/ Restart
  PROVE  TypeOK'
<1> DEFINE Rest == /\ tap' \in {Idle} \cup [pc : {"get", "set"}, user : Users]
                   /\ named' \subseteq Users
                   /\ msgs' \in Nat /\ announces' \in Nat /\ prunes' \in Nat /\ crashes' \in Nat
                   /\ h' \in Handlers
<1>1. ASSUME NEW u \in Users, NEW usable \in BOOLEAN, OnAnnounce(u, usable)
      PROVE  RosterOK /\ Rest
  <2>1. RosterOK
    BY <1>1, SaveType DEF OnAnnounce, TypeOK
  <2>2. Rest
    BY <1>1 DEF OnAnnounce, TypeOK, Handlers
  <2> QED  BY <2>1, <2>2
<1>2. CASE AdoptGet
  <2>1. tap \in [pc : {"get", "set"}, user : Users]
    <3>1. tap \in {Idle} \cup [pc : {"get", "set"}, user : Users] /\ tap.pc = "get"
      BY <1>2 DEF AdoptGet, TypeOK
    <3> QED  BY <3>1 DEF Idle
  <2>2. Rest
    BY <1>2, <2>1 DEF AdoptGet, TypeOK, Handlers, counters
  <2> QED  BY <1>2, <2>2, KeepType, StepType DEF AdoptGet
<1>3. CASE AdoptSet
  <2>1. tap.user \in Users
    BY <1>3 DEF AdoptSet, TypeOK, Idle
  <2>2. users[tap.user] # Absent => [users[tap.user] EXCEPT !.nick = "announced"] \in Profile
    BY <2>1, MemberProfile, ProfileUpdate DEF Roles
  <2>3. RosterOK
    BY <1>3, <2>1, <2>2, UpdateType DEF AdoptSet
  <2>4. Rest
    BY <1>3 DEF AdoptSet, TypeOK, Handlers, counters
  <2> QED  BY <2>3, <2>4, StepType
<1>4. ASSUME NEW S \in SUBSET Users, RunPrune(S)
      PROVE  RosterOK /\ Rest
  <2>1. users' \in Rosters /\ banned' \subseteq Users
    BY <1>4 DEF RunPrune, TypeOK, Rosters
  <2>2. RosterOK
    BY <1>4, <2>1, SaveType DEF RunPrune
  <2>3. Rest
    BY <1>4 DEF RunPrune, TypeOK, Handlers
  <2> QED  BY <2>2, <2>3
<1>5. CASE Restart
  <2>1. RosterOK
    BY <1>5 DEF Restart, TypeOK, RosterOK
  <2>2. Rest
    BY <1>5 DEF Restart, TypeOK, Handlers
  <2> QED  BY <2>1, <2>2, StepType
<1> QED  BY <1>1, <1>2, <1>3, <1>4, <1>5, StepType

\* Every step keeps the types.
LEMMA NextType ==
  TypeOK /\ [Next]_vars => TypeOK'
<1> SUFFICES ASSUME TypeOK, [Next]_vars PROVE TypeOK'
  OBVIOUS
<1>1. ASSUME NEW p \in Procs, Handle(p), Remember PROVE TypeOK'
  <2>1. RosterOK /\ h' \in Handlers /\ Outside
    BY <1>1, HandleType DEF HandlerOK
  <2> QED  BY <1>1, <2>1, StepType DEF Outside, counters, TypeOK
<1>2. CASE UNCHANGED vars
  BY <1>2 DEF vars, TypeOK
<1> QED  BY <1>1, <1>2, ReceiveType, OtherType DEF Next

\* The state loaded at the start has the right types.
LEMMA InitType ==
  Init => TypeOK
<1> SUFFICES ASSUME Init PROVE TypeOK
  OBVIOUS
<1>1. \A u \in Users : users[u] \in Profile \cup {Absent}
  BY DEF Init, Profile, Fresh, Roles
<1>2. users \in Rosters
  BY <1>1 DEF Init, Rosters
<1> QED  BY <1>2 DEF Init, TypeOK, Roles

\* The roster, the ban list, state.json, the handlers and the announce handler
\* keep their types in every behaviour.
THEOREM TypeCorrect == Spec => []TypeOK
BY InitType, NextType, PTL DEF Spec

-----------------------------------------------------------------------------
(* What one step of a handler does *)

\* Goto changes nothing but the place of one handler.
LEMMA GotoFields ==
  ASSUME NEW p \in Procs, h \in Handlers, h[p] \in Job, NEW pc, Goto(p, pc)
  PROVE  /\ \A q \in Procs : q # p => h'[q] = h[q]
         /\ h'[p].pc = pc /\ h'[p].from = h[p].from /\ h'[p].cmd = h[p].cmd
         /\ h'[p].arg = h[p].arg /\ h'[p].level = h[p].level
         /\ h'[p].role = h[p].role
BY DEF Handlers, Job, Goto

\* Where a handler can be after its step: gone, or one place further on with the
\* same command, and with a role that its sender has at some point of the step.
MovedOn(p) ==
  /\ h'[p].from = h[p].from /\ h'[p].cmd = h[p].cmd
  /\ h'[p].arg = h[p].arg /\ h'[p].level = h[p].level
  /\ h'[p].role \in {h[p].role, Config[h[p].from], RoleIn(users, h[p].from)}

\* How a step of a handler moves it: to its end, or one place on past the tests of
\* the code.
LEMMA HandleMoves ==
  ASSUME TypeOK, NEW p \in Procs, Handle(p)
  PROVE  /\ \A q \in Procs : q # p => h'[q] = h[q]
         /\ h[p] \in Job
         /\ h'[p] = Idle \/ MovedOn(p)
         /\ h'[p].pc = "joinLen" => JoinIsBanned(p) /\ h[p].from \notin banned
         /\ h'[p].pc = "joinAdd" => JoinLen(p) /\ ~Full
         /\ h'[p].pc = "act" => /\ h'[p].role = h[p].role
                               /\ \/ Resolve(p) /\ ~SelfLockout(h[p])
                                  \/ ResolveBanned(p)
<1>a. h \in Handlers
  BY DEF TypeOK, Handlers
<1>b. h[p] \in Job
  <2>1. h[p].pc # "idle"
    BY DEF Handle, Touch, DeriveMember, DeriveProfile, Refuse, JoinIsBanned, JoinLen,
           JoinAdd, JoinGet, JoinLookup, JoinName, HandleLeave, HandleFlag, HandleNick,
           Resolve, ResolveBanned, ActNick, ActUserMode, ActKick, ActBan, ActUnban, Act,
           Running, At
  <2> QED  BY <2>1, <1>a, HasJob
<1>c. ASSUME Done(p)
      PROVE  h'[p] = Idle /\ h'[p].pc = "idle" /\ \A q \in Procs : q # p => h'[q] = h[q]
  BY <1>a, <1>c DEF Done, Handlers, Idle
<1>1. CASE Touch(p)
  BY <1>1, <1>a, <1>b, GotoFields DEF Touch, MovedOn
<1>2. CASE DeriveMember(p)
  <2>1. /\ \A q \in Procs : q # p => h'[q] = h[q]
        /\ h'[p].from = h[p].from /\ h'[p].cmd = h[p].cmd /\ h'[p].arg = h[p].arg
        /\ h'[p].level = h[p].level /\ h'[p].role = Config[h[p].from]
        /\ h'[p].pc \in {"get", "run"}
    BY <1>2, <1>a, <1>b DEF DeriveMember, Handlers, Job
  <2> QED  BY <2>1, <1>b DEF MovedOn
<1>3. CASE DeriveProfile(p)
  <2>1. /\ \A q \in Procs : q # p => h'[q] = h[q]
        /\ h'[p].from = h[p].from /\ h'[p].cmd = h[p].cmd /\ h'[p].arg = h[p].arg
        /\ h'[p].level = h[p].level /\ h'[p].role = RoleIn(users, h[p].from)
        /\ h'[p].pc = "run"
    BY <1>3, <1>a, <1>b DEF DeriveProfile, Handlers, Job
  <2> QED  BY <2>1, <1>b DEF MovedOn
<1>4. CASE JoinIsBanned(p)
  BY <1>4, <1>a, <1>b, <1>c, GotoFields DEF JoinIsBanned, MovedOn
<1>5. CASE JoinLen(p)
  BY <1>5, <1>a, <1>b, <1>c, GotoFields DEF JoinLen, MovedOn
<1>6. CASE JoinAdd(p) \/ JoinGet(p) \/ JoinLookup(p)
  <2>1. Done(p) \/ \E pc \in {"joinGet", "joinLookup", "joinName"} : Goto(p, pc)
    BY <1>6 DEF JoinAdd, JoinGet, JoinLookup
  <2> QED  BY <2>1, <1>a, <1>b, <1>c, GotoFields DEF MovedOn
<1>7. CASE Resolve(p)
  BY <1>7, <1>a, <1>b, <1>c, GotoFields DEF Resolve, MovedOn
<1>8. CASE ResolveBanned(p)
  BY <1>8, <1>a, <1>b, <1>c, GotoFields DEF ResolveBanned, MovedOn
<1>9. CASE Done(p)
  BY <1>9, <1>b, <1>c
<1> QED  BY <1>1, <1>2, <1>3, <1>4, <1>5, <1>6, <1>7, <1>8, <1>9
            DEF Handle, Refuse, JoinName, HandleLeave, HandleFlag, HandleNick,
                ActNick, ActUserMode, ActKick, ActBan, ActUnban, Act

\* What one step of a handler may do to the roster and the ban list.
LEMMA HandleRoster ==
  ASSUME TypeOK, NEW p \in Procs, Handle(p)
  PROVE  /\ PersistLocked \/ Keep
         /\ \A u \in Users :
              /\ users'[u] # users[u] =>
                   u = h[p].from \/ (h[p].pc = "act" /\ h[p].cmd \in ResolvedCmds)
              /\ users[u] = Absent /\ users'[u] # Absent => JoinAdd(p) /\ u = h[p].from
              /\ users[u] # Absent /\ users'[u] # Absent =>
                   users'[u].role = users[u].role \/ ActUserMode(p)
              /\ u \in banned' \ banned => users'[u] = Absent /\ h'[p] = Idle
         /\ banned' # banned => h[p].pc = "act" /\ h[p].cmd \in {"ban", "unban"}
<1>a. h[p] \in Job /\ h[p].from \in Users /\ h[p].arg \in Users
  BY HandleMoves DEF Job
<1>b. users \in [Users -> Profile \cup {Absent}]
  BY DEF TypeOK, Rosters
<1>c. ASSUME NEW u \in Users, Remove(u)
      PROVE  /\ PersistLocked \/ Keep
             /\ banned' = banned
             /\ \A v \in Users : users'[v] = users[v] \/ (v = u /\ users'[v] = Absent)
  BY <1>b, <1>c DEF Remove, Keep
<1>d. ASSUME NEW u \in Users, NEW new, Update(u, new)
      PROVE  /\ PersistLocked \/ Keep
             /\ banned' = banned
             /\ \A v \in Users :
                  \/ users'[v] = users[v]
                  \/ v = u /\ users[v] \in Profile /\ users'[v] = new
  BY <1>b, <1>d DEF Update, Keep
<1>e. ASSUME NEW u \in Users, NEW x
      PROVE  users[u] \in Profile => /\ [users[u] EXCEPT !.nick = x].role = users[u].role
                                     /\ [users[u] EXCEPT !.flags = x].role = users[u].role
  BY DEF Profile
<1>1. CASE Keep \/ (UNCHANGED <<users, banned>> /\ (PersistLocked \/ NoSave))
  BY <1>1 DEF Keep
<1>2. CASE JoinAdd(p)
  <2>1. /\ PersistLocked
        /\ banned' = banned
        /\ \A u \in Users : users'[u] # users[u] => u = h[p].from /\ users[u] = Absent
    BY <1>2, <1>a, <1>b DEF JoinAdd, PersistLocked
  <2> QED  BY <1>2, <2>1
<1>3. CASE HandleLeave(p)
  BY <1>3, <1>a, <1>c DEF HandleLeave
<1>4. CASE JoinName(p) \/ HandleNick(p) \/ HandleFlag(p)
  <2>1. PICK new : /\ Update(h[p].from, new)
                   /\ users[h[p].from] \in Profile => new.role = users[h[p].from].role
    <3>1. CASE JoinName(p) \/ HandleNick(p)
      BY <3>1, <1>a, <1>e DEF JoinName, HandleNick
    <3>2. CASE HandleFlag(p)
      BY <3>2, <1>a, <1>e DEF HandleFlag
    <3> QED  BY <1>4, <3>1, <3>2
  <2> QED  BY <2>1, <1>a, <1>d, AbsentAssumption
<1>5. CASE ActNick(p)
  <2>1. PICK new : /\ Update(h[p].arg, new)
                   /\ users[h[p].arg] \in Profile => new.role = users[h[p].arg].role
    BY <1>5, <1>a, <1>e DEF ActNick
  <2>2. h[p].pc = "act" /\ h[p].cmd \in ResolvedCmds
    BY <1>5 DEF ActNick, Act, At, ResolvedCmds
  <2> QED  BY <2>1, <2>2, <1>a, <1>d, AbsentAssumption
<1>6. CASE ActUserMode(p)
  <2>1. /\ Update(h[p].arg, [users[h[p].arg] EXCEPT !.role = h[p].level])
        /\ h[p].pc = "act" /\ h[p].cmd \in ResolvedCmds
    BY <1>6 DEF ActUserMode, Act, At, ResolvedCmds
  <2> QED  BY <1>6, <2>1, <1>a, <1>d, AbsentAssumption
<1>7. CASE ActKick(p)
  <2>1. Remove(h[p].arg) /\ h[p].pc = "act" /\ h[p].cmd \in ResolvedCmds
    BY <1>7 DEF ActKick, Act, At, ResolvedCmds
  <2> QED  BY <2>1, <1>a, <1>c
<1>8. CASE ActBan(p)
  <2>1. /\ Ban(h[p].arg) /\ h[p].pc = "act" /\ h[p].cmd = "ban" /\ h[p].cmd \in ResolvedCmds
        /\ h'[p] = Idle
    BY <1>8 DEF ActBan, Act, At, ResolvedCmds, Done, TypeOK
  <2>2. \A v \in Users : users'[v] = users[v] \/ (v = h[p].arg /\ users'[v] = Absent)
    BY <2>1, <1>a, <1>b DEF Ban
  <2>3. users'[h[p].arg] = Absent /\ banned' \ banned \subseteq {h[p].arg} /\ PersistLocked
    BY <2>1, <1>a, <1>b DEF Ban
  <2> QED  BY <2>1, <2>2, <2>3
<1>9. CASE ActUnban(p)
  <2>1. Unban(h[p].arg) /\ h[p].pc = "act" /\ h[p].cmd = "unban"
    BY <1>9 DEF ActUnban, Act, At
  <2>2. users' = users /\ (PersistLocked \/ Keep) /\ banned' \subseteq banned
    BY <2>1 DEF Unban, Keep
  <2> QED  BY <2>1, <2>2
<1> QED  BY <1>1, <1>2, <1>3, <1>4, <1>5, <1>6, <1>7, <1>8, <1>9
            DEF Handle, Touch, DeriveMember, DeriveProfile, Refuse, JoinIsBanned, JoinLen,
                JoinGet, JoinLookup, Resolve, ResolveBanned

\* Announces and the prune ticker touch no handler and no ban, and add nobody.
OtherStep ==
  \/ \E u \in Users, usable \in BOOLEAN : OnAnnounce(u, usable)
  \/ AdoptGet \/ AdoptSet
  \/ \E S \in SUBSET Users : RunPrune(S)

\* What announces and the prune ticker do to the roster.
LEMMA OtherRoster ==
  ASSUME TypeOK, OtherStep
  PROVE  /\ PersistLocked \/ Keep
         /\ h' = h /\ banned' = banned /\ crashes' = crashes
         /\ \A u \in Users : users[u] = Absent => users'[u] = Absent
<1>a. users \in [Users -> Profile \cup {Absent}]
  BY DEF TypeOK, Rosters
<1>1. ASSUME NEW u \in Users, NEW usable \in BOOLEAN, OnAnnounce(u, usable)
      PROVE  (PersistLocked \/ Keep) /\ UNCHANGED <<users, banned, h, crashes>>
  BY <1>1 DEF OnAnnounce, Keep
<1>2. CASE AdoptGet
  BY <1>2 DEF AdoptGet, Keep, counters
<1>3. CASE AdoptSet
  <2>1. PICK new : Update(tap.user, new)
    BY <1>3 DEF AdoptSet
  <2>2. /\ PersistLocked \/ Keep
        /\ banned' = banned
        /\ \A u \in Users : users[u] = Absent => users'[u] = Absent
    BY <2>1, <1>a DEF Update, Keep
  <2> QED  BY <1>3, <2>2 DEF AdoptSet, counters
<1>4. ASSUME NEW S \in SUBSET Users, RunPrune(S)
      PROVE  /\ PersistLocked /\ UNCHANGED <<banned, h, crashes>>
             /\ \A u \in Users : users[u] = Absent => users'[u] = Absent
  BY <1>4 DEF RunPrune
<1> QED  BY <1>1, <1>2, <1>3, <1>4 DEF OtherStep

\* The cases of a step.
LEMMA NextCases ==
  ASSUME Next
  PROVE  /\ Remember
         /\ \/ \E p \in Procs, u, arg \in Users, cmd \in Cmds, level \in Roles :
                 Receive(p, u, cmd, arg, level)
            \/ \E p \in Procs : Handle(p)
            \/ OtherStep
            \/ Restart
BY DEF Next, OtherStep

\* Receive gives one idle handler a command and leaves the rest.
LEMMA ReceiveMoves ==
  ASSUME TypeOK, NEW p \in Procs, NEW u \in Users, NEW arg \in Users, NEW cmd \in Cmds,
         NEW level \in Roles, Receive(p, u, cmd, arg, level)
  PROVE  /\ \A q \in Procs : q # p => h'[q] = h[q]
         /\ h'[p].pc = "touch" /\ h'[p].from = u /\ h'[p].role = RoleUser
         /\ h[p].pc = "idle"
         /\ Keep /\ crashes' = crashes
BY DEF Receive, TypeOK, At

-----------------------------------------------------------------------------
(* state.json *)

\* Every step leaves state.json current, or lag positive (persistLocked).
LEMMA DiskStep ==
  TypeOK /\ DiskCurrent /\ [Next]_vars => DiskCurrent'
<1> SUFFICES ASSUME TypeOK, DiskCurrent, [Next]_vars PROVE DiskCurrent'
  OBVIOUS
<1>1. CASE PersistLocked \/ Keep
  BY <1>1 DEF PersistLocked, SaveOk, SaveFails, Keep, NoSave, DiskCurrent, TypeOK
<1>2. CASE Restart
  BY <1>2 DEF Restart, DiskCurrent, TypeOK
<1>3. CASE UNCHANGED vars
  BY <1>3 DEF vars, DiskCurrent
<1> QED  BY <1>1, <1>2, <1>3, NextCases, ReceiveMoves, HandleRoster, OtherRoster

\* state.json is the roster and the ban list in memory unless a save failed since
\* it was last written or read: every operation that changes them saves them.
THEOREM FileIsCurrent == Spec => []DiskCurrent
<1>1. Init => TypeOK /\ DiskCurrent
  BY InitType DEF Init, DiskCurrent
<1>2. TypeOK /\ DiskCurrent /\ [Next]_vars => (TypeOK /\ DiskCurrent)'
  BY NextType, DiskStep
<1> QED  BY <1>1, <1>2, PTL DEF Spec

-----------------------------------------------------------------------------
(* The member cap *)

DiskMembers == {u \in Users : disk.users[u] # Absent}
Adders == {p \in Procs : h[p].pc = "joinAdd"}
Limit == MaxMembers + Cardinality(Procs)

\* Members and handlers about to add one: a handler gets there only while the
\* roster is below the cap, and there are no more handlers than Procs.
Cap ==
  MaxMembers > 0 =>
    /\ Cardinality(Members) + Cardinality(Adders) < Limit
    /\ Cardinality(DiskMembers) < Limit

\* The sets counted by Cap are finite.
LEMMA Finite ==
  /\ IsFiniteSet(Members) /\ Cardinality(Members) \in Nat
  /\ IsFiniteSet(Adders) /\ Cardinality(Adders) \in Nat
  /\ Cardinality(Adders) <= Cardinality(Procs)
  /\ Cardinality(Procs) \in Nat
  /\ IsFiniteSet(DiskMembers) /\ Cardinality(DiskMembers) \in Nat
<1>1. Members \in SUBSET Users /\ Adders \in SUBSET Procs /\ DiskMembers \in SUBSET Users
  BY DEF Members, Adders, DiskMembers
<1> QED  BY <1>1, UserAssumption, ProcAssumption, FS_Subset, FS_CardinalityType

\* So they are after a step.
LEMMA FiniteNext ==
  /\ IsFiniteSet(Members') /\ Cardinality(Members') \in Nat
  /\ IsFiniteSet(Adders') /\ Cardinality(Adders') \in Nat
  /\ Cardinality(Adders') <= Cardinality(Procs)
<1>1. Members' \in SUBSET Users /\ Adders' \in SUBSET Procs
  BY DEF Members, Adders
<1> QED  BY <1>1, UserAssumption, ProcAssumption, FS_Subset, FS_CardinalityType

\* The file after a step is the file before it or the roster after it.
LEMMA CapFile ==
  ASSUME TypeOK, Cap, PersistLocked \/ Keep,
         MaxMembers > 0 => Cardinality(Members') + Cardinality(Adders') < Limit
  PROVE  Cap'
<1>1. DiskMembers' \in {DiskMembers, Members'}
  BY DEF DiskMembers, Members, PersistLocked, SaveOk, SaveFails, Keep, NoSave
<1> QED  BY <1>1, Finite, FiniteNext, CapAssumption DEF Cap, Limit

\* Every step keeps Cap (handleJoin's Len and AddOrUpdate).
LEMMA CapStep ==
  TypeOK /\ Cap /\ [Next]_vars => Cap'
<1> SUFFICES ASSUME TypeOK, Cap, [Next]_vars PROVE Cap'
  OBVIOUS
<1> USE Finite, FiniteNext, CapAssumption
<1>1. ASSUME Members' \subseteq Members, Adders' \subseteq Adders, PersistLocked \/ Keep
      PROVE  Cap'
  <2>1. /\ Cardinality(Members') <= Cardinality(Members)
        /\ Cardinality(Adders') <= Cardinality(Adders)
    BY <1>1, FS_Subset
  <2> QED  BY <1>1, <2>1, CapFile DEF Cap, Limit
<1>2. ASSUME NEW p \in Procs, Handle(p) PROVE Cap'
  <2>a. PersistLocked \/ Keep
    BY <1>2, HandleRoster
  <2>b. h[p] \in Job /\ h[p].from \in Users
    BY <1>2, HandleMoves DEF Job
  <2>1. CASE JoinAdd(p)
    <3>1. Members' \subseteq Members \cup {h[p].from}
      BY <1>2, HandleRoster DEF Members
    <3>2. h'[p].pc # "joinAdd" /\ h[p].pc = "joinAdd"
      BY <1>2, <2>1, HandleMoves DEF JoinAdd, JoinLen, At
    <3>3. Adders' \subseteq Adders \ {p} /\ p \in Adders
      BY <1>2, <3>2, HandleMoves DEF Adders
    <3>4. Cardinality(Members') <= Cardinality(Members) + 1
      <4>0. /\ IsFiniteSet(Members \cup {h[p].from})
            /\ Cardinality(Members \cup {h[p].from}) =
                 IF h[p].from \in Members THEN Cardinality(Members) ELSE Cardinality(Members) + 1
        BY FS_AddElement
      <4>1. /\ IsFiniteSet(Members \cup {h[p].from})
            /\ Cardinality(Members \cup {h[p].from}) <= Cardinality(Members) + 1
        BY <4>0
      <4>2. Cardinality(Members \cup {h[p].from}) \in Nat
        BY <4>1, FS_CardinalityType
      <4> QED  BY <3>1, <4>1, <4>2, FS_Subset
    <3>5. Cardinality(Adders') <= Cardinality(Adders) - 1
      <4>1. IsFiniteSet(Adders \ {p}) /\ Cardinality(Adders \ {p}) = Cardinality(Adders) - 1
        BY <3>3, FS_RemoveElement
      <4> QED  BY <3>3, <4>1, FS_Subset
    <3> QED  BY <2>a, <3>4, <3>5, CapFile DEF Cap, Limit
  <2>2. CASE ~JoinAdd(p) /\ h'[p].pc = "joinAdd"
    <3>1. JoinLen(p) /\ ~Full
      BY <1>2, <2>2, HandleMoves
    <3>2. Members' = Members
      BY <3>1 DEF JoinLen, Keep, Members
    <3> QED  BY <2>a, <3>1, <3>2, CapFile DEF Full, Limit
  <2>3. CASE ~JoinAdd(p) /\ h'[p].pc # "joinAdd"
    <3>1. Members' \subseteq Members
      BY <1>2, <2>3, HandleRoster DEF Members
    <3>2. Adders' \subseteq Adders
      BY <1>2, <2>3, HandleMoves DEF Adders
    <3> QED  BY <2>a, <3>1, <3>2, <1>1
  <2> QED  BY <2>1, <2>2, <2>3
<1>3. ASSUME NEW p \in Procs, NEW u \in Users, NEW arg \in Users, NEW cmd \in Cmds,
             NEW level \in Roles, Receive(p, u, cmd, arg, level)
      PROVE  Cap'
  <2>1. Members' \subseteq Members /\ Adders' \subseteq Adders /\ Keep
    BY <1>3, ReceiveMoves DEF Members, Adders, Keep
  <2> QED  BY <2>1, <1>1
<1>4. CASE OtherStep
  <2>1. Members' \subseteq Members /\ Adders' \subseteq Adders /\ (PersistLocked \/ Keep)
    BY <1>4, OtherRoster DEF Members, Adders
  <2> QED  BY <2>1, <1>1
<1>5. CASE Restart
  <2>1. Members' = DiskMembers /\ DiskMembers' = DiskMembers /\ Adders' = {}
    BY <1>5 DEF Restart, Members, DiskMembers, Adders, Idle
  <2> QED  BY <2>1, FS_EmptySet DEF Cap, Limit
<1>6. CASE UNCHANGED vars
  BY <1>6 DEF vars, Cap, Members, DiskMembers, Adders
<1> QED  BY <1>2, <1>3, <1>4, <1>5, <1>6, NextCases

\* The roster exceeds max_members by less than the number of handlers that run
\* at the same time, whatever joins, crashes and failed saves happen.
THEOREM BoundedRoster == Spec => []RosterBounded
<1>1. Init => Cap
  <2> SUFFICES ASSUME Init PROVE Cap
    OBVIOUS
  <2>1. Members = InitMembers /\ DiskMembers = InitMembers /\ Adders = {}
    BY UserAssumption, AbsentAssumption
       DEF Init, Members, DiskMembers, Adders, Idle, Profile, Fresh, Roles
  <2>2. Cardinality(Procs) \in Nat \ {0}
    BY ProcAssumption, FS_CardinalityType, FS_EmptySet
  <2> QED  BY <2>1, <2>2, Finite, CapAssumption, FS_EmptySet DEF Cap, Limit
<1>2. Cap => RosterBounded
  BY Finite, CapAssumption DEF Cap, Limit, RosterBounded
<1> QED  BY <1>1, <1>2, InitType, NextType, CapStep, PTL DEF Spec

-----------------------------------------------------------------------------
(* Bans *)

\* A banned member, in memory or in the file, raced; and so did a joiner who
\* passed the ban check and is banned now.
Bans ==
  /\ Members \cap banned \subseteq raced
  /\ DiskMembers \cap disk.banned \subseteq raced
  /\ \A p \in Procs : Joining(p) /\ h[p].from \in banned => h[p].from \in raced

\* Every step keeps Bans (handleJoin's IsBanned and AddOrUpdate, Roster.Ban).
LEMMA BansStep ==
  TypeOK /\ Bans /\ [Next]_vars => Bans'
<1> SUFFICES ASSUME TypeOK, Bans, [Next]_vars PROVE Bans'
  OBVIOUS
<1>a. ASSUME Remember PROVE raced \subseteq raced'
  BY <1>a DEF Remember
<1>b. ASSUME PersistLocked \/ Keep, Members' \cap banned' \subseteq raced', raced \subseteq raced'
      PROVE  DiskMembers' \cap disk'.banned \subseteq raced'
  BY <1>b DEF Bans, DiskMembers, Members, PersistLocked, SaveOk, SaveFails, Keep, NoSave
<1>1. ASSUME NEW p \in Procs, Handle(p), Remember PROVE Bans'
  <2>1. Members' \cap banned' \subseteq raced'
    <3> SUFFICES ASSUME NEW u \in Users, users'[u] # Absent, u \in banned' PROVE u \in raced'
      BY DEF Members
    <3>1. u \in banned
      BY <1>1, HandleRoster
    <3>2. CASE users[u] # Absent
      BY <3>1, <3>2, <1>1, <1>a DEF Bans, Members
    <3>3. CASE users[u] = Absent
      <4>1. JoinAdd(p) /\ u = h[p].from
        BY <1>1, <3>3, HandleRoster
      <4> QED  BY <1>1, <1>a, <3>1, <4>1 DEF Bans, Joining, JoinAdd, At
    <3> QED  BY <3>2, <3>3
  <2>2. ASSUME NEW q \in Procs, h'[q].pc \in {"joinLen", "joinAdd"}, h'[q].from \in banned'
        PROVE  h'[q].from \in raced'
    <3>1. h'[q].from = h[q].from
      BY <1>1, <2>2, HandleMoves DEF MovedOn, Idle
    <3>2. CASE h[q].from \in banned
      <4>1. Joining(q)
        BY <1>1, <2>2, <3>2, HandleMoves DEF Joining, JoinIsBanned, JoinLen, At
      <4> QED  BY <1>1, <1>a, <3>1, <3>2, <4>1 DEF Bans
    <3>3. CASE h[q].from \notin banned
      <4>1. h[q].from \in banned' \ banned /\ h[q].from \in Users
        BY <2>2, <3>1, <3>3, <1>1, HandleType DEF HandlerOK, RosterOK
      <4>2. h'[p] = Idle
        BY <1>1, <4>1, HandleRoster
      <4>3. q # p
        BY <2>2, <4>2 DEF Idle
      <4>4. Joining(q)
        BY <1>1, <2>2, <4>3, HandleMoves DEF Joining
      <4> QED  BY <1>1, <3>1, <4>1, <4>4 DEF Remember
    <3> QED  BY <3>2, <3>3
  <2>3. DiskMembers' \cap disk'.banned \subseteq raced'
    BY <1>1, <1>a, <1>b, <2>1, HandleRoster
  <2> QED  BY <2>1, <2>2, <2>3 DEF Bans, Joining
<1>2. ASSUME Remember, PersistLocked \/ Keep, banned' = banned,
             \A u \in Users : users[u] = Absent => users'[u] = Absent,
             \A q \in Procs : h'[q] = h[q] \/ h'[q].pc = "touch"
      PROVE  Bans'
  <2>1. Members' \cap banned' \subseteq raced'
    BY <1>2, <1>a DEF Bans, Members
  <2>2. DiskMembers' \cap disk'.banned \subseteq raced'
    BY <1>2, <1>a, <1>b, <2>1
  <2>3. \A q \in Procs : Joining(q)' /\ h'[q].from \in banned' => h'[q].from \in raced'
    BY <1>2, <1>a DEF Bans, Joining
  <2> QED  BY <2>1, <2>2, <2>3 DEF Bans
<1>3. ASSUME Remember, NEW p \in Procs, NEW u \in Users, NEW arg \in Users,
             NEW cmd \in Cmds, NEW level \in Roles, Receive(p, u, cmd, arg, level)
      PROVE  Bans'
  <2>1. Keep /\ \A q \in Procs : h'[q] = h[q] \/ h'[q].pc = "touch"
    BY <1>3, ReceiveMoves
  <2> QED  BY <1>2, <1>3, <2>1 DEF Keep
<1>4. CASE OtherStep /\ Remember
  BY <1>4, <1>2, OtherRoster
<1>5. CASE Restart /\ Remember
  BY <1>5, <1>a DEF Restart, Bans, Members, DiskMembers, Joining, Idle
<1>6. CASE UNCHANGED vars
  BY <1>6 DEF vars, Bans, Members, DiskMembers, Joining
<1> QED  BY <1>1, <1>3, <1>4, <1>5, <1>6, NextCases

\* A banned user is on the roster only if the ban met one of the user's own
\* joins between its ban check and AddOrUpdate.
THEOREM OnlyRacingBans == Spec => []BannedMemberRaced
<1>1. Init => Bans
  BY DEF Init, Bans, Joining, Idle
<1>2. Bans => BannedMemberRaced
  BY DEF Bans, BannedMemberRaced
<1> QED  BY <1>1, <1>2, InitType, NextType, BansStep, PTL DEF Spec

-----------------------------------------------------------------------------
(* Authority *)

Busy(p) == h[p].pc # "idle"

\* The role a handler goes by, and the role its sender has, are at most the
\* highest one the sender had since the command arrived; a handler about to act
\* passed its tests.
Auth ==
  \A p \in Procs : Busy(p) =>
    /\ RoleIn(users, h[p].from) <= peak[p]
    /\ h[p].role <= peak[p]
    /\ h[p].pc = "act" =>
         /\ h[p].cmd \in ResolvedCmds \cup {"unban"}
         /\ h[p].role >= RoleMod
         /\ h[p].cmd = "usermode" => h[p].role = RoleAdmin
         /\ ~SelfLockout(h[p])

\* What Remember does to peak.
LEMMA PeakGrows ==
  ASSUME TypeOK, TypeOK', Remember, NEW p \in Procs, h'[p].pc # "idle"
  PROVE  /\ h'[p] \in Job
         /\ peak[p] \in Roles /\ peak'[p] \in Roles
         /\ RoleIn(users', h'[p].from) <= peak'[p]
         /\ peak[p] <= peak'[p]
<1>1. h'[p] \in Job /\ h'[p].from \in Users
  BY DEF TypeOK, Idle, Job
<1>2. RoleIn(users', h'[p].from) \in Roles
  BY <1>1, RoleType DEF TypeOK
<1> QED  BY <1>1, <1>2 DEF Remember, TypeOK, Roles, RoleUser, RoleMod, RoleAdmin

\* Every step keeps Auth (deriveCaller, the tests of the commands).
LEMMA AuthStep ==
  TypeOK /\ Auth /\ [Next]_vars => Auth'
<1> SUFFICES ASSUME TypeOK, Auth, [Next]_vars PROVE Auth'
  OBVIOUS
<1>a. TypeOK'
  BY NextType
<1>b. ASSUME Remember, NEW q \in Procs, h'[q] = h[q], h'[q].pc # "idle"
      PROVE  /\ RoleIn(users', h'[q].from) <= peak'[q]
             /\ h'[q].role <= peak'[q]
             /\ h'[q].pc = "act" =>
                  /\ h'[q].cmd \in ResolvedCmds \cup {"unban"}
                  /\ h'[q].role >= RoleMod
                  /\ h'[q].cmd = "usermode" => h'[q].role = RoleAdmin
                  /\ ~SelfLockout(h'[q])
  <2>1. h'[q].role \in Roles
    BY <1>a, <1>b, PeakGrows DEF Job
  <2> QED  BY <1>a, <1>b, <2>1, PeakGrows
              DEF Auth, Busy, Roles, RoleUser, RoleMod, RoleAdmin
<1>1. ASSUME Remember, NEW p \in Procs, Handle(p) PROVE Auth'
  <2> SUFFICES ASSUME NEW q \in Procs, h'[q].pc # "idle"
               PROVE  /\ RoleIn(users', h'[q].from) <= peak'[q]
                      /\ h'[q].role <= peak'[q]
                      /\ h'[q].pc = "act" =>
                           /\ h'[q].cmd \in ResolvedCmds \cup {"unban"}
                           /\ h'[q].role >= RoleMod
                           /\ h'[q].cmd = "usermode" => h'[q].role = RoleAdmin
                           /\ ~SelfLockout(h'[q])
    BY DEF Auth, Busy
  <2>1. CASE q # p
    BY <1>1, <1>b, <2>1, HandleMoves
  <2>2. CASE q = p
    <3>1. MovedOn(p) /\ h[p] \in Job /\ h[p].pc # "idle"
      BY <1>1, <2>2, HandleMoves DEF Idle, Job, Places
    <3>2. /\ h[p].from \in Users /\ h[p].role \in Roles /\ Config[h[p].from] \in Roles
          /\ RoleIn(users, h[p].from) \in Roles
      BY <3>1, RoleType, UserAssumption DEF Job, TypeOK
    <3>3. Config[h[p].from] <= RoleIn(users, h[p].from)
      <4>1. users[h[p].from] # Absent => users[h[p].from].role \in Roles
        BY <3>2, MemberProfile DEF Profile
      <4> QED  BY <3>2, <4>1 DEF RoleIn, Roles, RoleUser, RoleMod, RoleAdmin
    <3>4. h'[p].role <= peak[p]
      BY <1>1, <3>1, <3>2, <3>3, <2>2, <1>a, PeakGrows
         DEF MovedOn, Auth, Busy, Roles, RoleUser, RoleMod, RoleAdmin
    <3>5. h'[p].role \in Roles
      BY <3>1, <3>2 DEF MovedOn
    <3>6. h'[p].role <= peak'[p] /\ RoleIn(users', h'[p].from) <= peak'[p]
      BY <1>1, <1>a, <2>2, <3>4, <3>5, PeakGrows DEF Roles, RoleUser, RoleMod, RoleAdmin
    <3>7. ASSUME h'[p].pc = "act"
          PROVE  /\ h'[p].cmd \in ResolvedCmds \cup {"unban"}
                 /\ h'[p].role >= RoleMod
                 /\ h'[p].cmd = "usermode" => h'[p].role = RoleAdmin
                 /\ ~SelfLockout(h'[p])
      <4>1. h'[p].role = h[p].role /\ ((Resolve(p) /\ ~SelfLockout(h[p])) \/ ResolveBanned(p))
        BY <1>1, <3>7, HandleMoves
      <4>2. /\ h[p].cmd \in ResolvedCmds \cup {"unban"} /\ ~Refuses(h[p])
            /\ h[p].cmd = "unban" \/ ~SelfLockout(h[p])
        BY <4>1 DEF Resolve, ResolveBanned, Running
      <4>3. h[p].role >= RoleMod /\ (h[p].cmd = "usermode" => h[p].role = RoleAdmin)
        BY <4>2, <3>2 DEF Refuses, ResolvedCmds, Roles, RoleUser, RoleMod, RoleAdmin
      <4>4. ~SelfLockout(h'[p])
        BY <3>1, <4>2 DEF SelfLockout, MovedOn
      <4> QED  BY <3>1, <4>1, <4>2, <4>3, <4>4 DEF MovedOn
    <3> QED  BY <2>2, <3>6, <3>7
  <2> QED  BY <2>1, <2>2
<1>2. ASSUME Remember, NEW p \in Procs, NEW u \in Users, NEW arg \in Users,
             NEW cmd \in Cmds, NEW level \in Roles, Receive(p, u, cmd, arg, level)
      PROVE  Auth'
  <2>1. /\ \A q \in Procs : q # p => h'[q] = h[q]
        /\ h'[p].pc = "touch" /\ h'[p].role = RoleUser
    BY <1>2, ReceiveMoves
  <2>2. RoleIn(users', h'[p].from) <= peak'[p] /\ h'[p].role <= peak'[p]
    BY <1>a, <1>2, <2>1, PeakGrows DEF Roles, RoleUser, RoleMod, RoleAdmin
  <2> QED  BY <1>b, <1>2, <2>1, <2>2 DEF Auth, Busy
<1>3. CASE Remember /\ OtherStep
  <2>1. h' = h
    BY <1>3, OtherRoster
  <2> QED  BY <1>b, <1>3, <2>1 DEF Auth, Busy
<1>4. CASE Restart
  BY <1>4 DEF Restart, Auth, Busy, Idle
<1>5. CASE UNCHANGED vars
  BY <1>5 DEF vars, Auth, Busy
<1> QED  BY <1>1, <1>2, <1>3, <1>4, <1>5, NextCases

\* A step in which handler p acts is p's own.
LEMMA ActsAlone ==
  ASSUME TypeOK, Next, NEW p \in Procs, Acts(p)
  PROVE  Handle(p) \/ UNCHANGED <<users, banned>>
<1>1. ASSUME NEW q \in Procs, Handle(q) PROVE Handle(p)
  BY <1>1, HandleMoves DEF Acts
<1>2. ASSUME NEW q \in Procs, NEW u \in Users, NEW arg \in Users, NEW cmd \in Cmds,
             NEW level \in Roles, Receive(q, u, cmd, arg, level)
      PROVE  UNCHANGED <<users, banned>>
  BY <1>2 DEF Receive, Keep
<1>3. CASE OtherStep
  BY <1>3, OtherRoster DEF Acts
<1>4. CASE Restart
  BY <1>4 DEF Restart, Acts, TypeOK
<1> QED  BY <1>1, <1>2, <1>3, <1>4, NextCases

\* The action of AuthorityWasHeld, for one step.
LEMMA AuthorityStep ==
  ASSUME TypeOK, Auth, Next, NEW p \in Procs, Acts(p)
  PROVE  /\ peak[p] < RoleMod =>
              /\ banned' = banned
              /\ \A u \in Users : users'[u] = users[u] \/ u = h[p].from
         /\ peak[p] < RoleAdmin =>
              \A u \in Members : users'[u] # Absent => users'[u].role = users[u].role
<1>1. CASE UNCHANGED <<users, banned>>
  BY <1>1
<1>2. CASE Handle(p)
  <2>1. h[p] \in Job /\ h[p].role \in Roles /\ peak[p] \in Roles /\ h[p].pc # "idle"
    BY <1>2, HandleMoves DEF Job, Places, TypeOK
  <2>2. h[p].pc = "act" => peak[p] >= RoleMod /\ (h[p].cmd = "usermode" => peak[p] >= RoleAdmin)
    BY <2>1 DEF Auth, Busy, Roles, RoleUser, RoleMod, RoleAdmin
  <2>3. peak[p] < RoleMod => h[p].pc # "act"
    BY <2>1, <2>2 DEF Roles, RoleUser, RoleMod, RoleAdmin
  <2>4. peak[p] < RoleAdmin => ~ActUserMode(p)
    BY <2>1, <2>2 DEF ActUserMode, Act, At, Roles, RoleUser, RoleMod, RoleAdmin
  <2> QED  BY <1>2, <2>3, <2>4, HandleRoster DEF Members
<1> QED  BY <1>1, <1>2, ActsAlone

\* A command changes other users or bans only with a mod role, and runtime roles
\* only with an admin role, that its sender held while the command was handled.
THEOREM OnlyWithAuthority == Spec => AuthorityWasHeld
<1>1. Init => Auth
  BY DEF Init, Auth, Busy, Idle
<1>2. TypeOK /\ Auth /\ [Next]_vars =>
        [\A p \in Procs : Acts(p) =>
           /\ peak[p] < RoleMod =>
                /\ banned' = banned
                /\ \A u \in Users : users'[u] = users[u] \/ u = h[p].from
           /\ peak[p] < RoleAdmin =>
                \A u \in Members : users'[u] # Absent => users'[u].role = users[u].role]_vars
  BY AuthorityStep
<1> QED  BY <1>1, <1>2, InitType, NextType, AuthStep, PTL DEF Spec, AuthorityWasHeld

\* The action of UserModeKeepsSender, for one step.
LEMMA UserModeStep ==
  ASSUME TypeOK, Auth, Next, NEW p \in Procs, Acts(p), h[p].pc = "act",
         h[p].cmd = "usermode"
  PROVE  RoleIn(users', h[p].from) >= RoleIn(users, h[p].from)
<1>1. CASE UNCHANGED <<users, banned>>
  <2>1. h[p] \in Job
    BY HasJob DEF TypeOK, Handlers
  <2>2. RoleIn(users, h[p].from) \in Roles
    BY <2>1, RoleType DEF TypeOK, Job
  <2> QED  BY <1>1, <2>2 DEF Roles, RoleUser, RoleMod, RoleAdmin, RoleIn
<1>2. CASE Handle(p)
  <2>1. ActUserMode(p)
    BY <1>2 DEF Handle, Touch, DeriveMember, DeriveProfile, Refuse, JoinIsBanned, JoinLen,
                JoinAdd, JoinGet, JoinLookup, JoinName, HandleLeave, HandleFlag, HandleNick,
                Resolve, ResolveBanned, ActNick, ActKick, ActBan, ActUnban, Act, Running, At
  <2>2. /\ h[p] \in Job /\ h[p].from \in Users /\ h[p].arg \in Users /\ h[p].level \in Roles
        /\ ~SelfLockout(h[p])
    BY <1>2, HandleMoves DEF Job, Auth, Busy
  <2>3. users \in [Users -> Profile \cup {Absent}] /\ Config[h[p].from] \in Roles
    BY <2>2, UserAssumption DEF TypeOK, Rosters
  <2>4. RoleIn(users, h[p].from) \in Roles
    BY <2>2, RoleType DEF TypeOK
  <2>5. CASE users'[h[p].from] = users[h[p].from]
    BY <2>4, <2>5 DEF RoleIn, Roles, RoleUser, RoleMod, RoleAdmin
  <2>6. CASE users'[h[p].from] # users[h[p].from]
    <3>1. /\ h[p].arg = h[p].from /\ users[h[p].from] # Absent
          /\ users'[h[p].from] = [users[h[p].from] EXCEPT !.role = h[p].level]
      BY <2>1, <2>2, <2>3, <2>6 DEF ActUserMode, Update, Keep
    <3>2. users'[h[p].from].role = h[p].level /\ users'[h[p].from] # Absent
      <4>1. users[h[p].from] \in Profile
        BY <2>2, <3>1, MemberProfile
      <4>2. users'[h[p].from] \in Profile
        BY <2>2, <3>1, <4>1, ProfileUpdate
      <4> QED  BY <3>1, <4>1, <4>2, AbsentAssumption DEF Profile
    <3>3. h[p].level = RoleAdmin \/ Config[h[p].from] = RoleAdmin
      BY <2>2, <2>3, <3>1 DEF SelfLockout, Roles, RoleUser, RoleMod, RoleAdmin
    <3> QED  BY <2>2, <2>3, <2>4, <3>2, <3>3 DEF RoleIn, Roles, RoleUser, RoleMod, RoleAdmin
  <2> QED  BY <2>5, <2>6
<1> QED  BY <1>1, <1>2, ActsAlone

\* /usermode never lowers the effective role of its sender.
THEOREM NoSelfLockout == Spec => UserModeKeepsSender
<1>1. Init => Auth
  BY DEF Init, Auth, Busy, Idle
<1>2. TypeOK /\ Auth /\ [Next]_vars =>
        [\A p \in Procs : Acts(p) /\ h[p].pc = "act" /\ h[p].cmd = "usermode" =>
           RoleIn(users', h[p].from) >= RoleIn(users, h[p].from)]_vars
  BY UserModeStep
<1> QED  BY <1>1, <1>2, InitType, NextType, AuthStep, PTL DEF Spec, UserModeKeepsSender
=============================================================================
