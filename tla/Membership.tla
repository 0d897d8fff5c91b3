------------------------------ MODULE Membership ------------------------------
(***************************************************************************)
(* The roster, its ban list and the commands that change them              *)
(* (internal/roster, internal/commands, and the parts of internal/service  *)
(* that call them).                                                        *)
(*                                                                         *)
(* Every verified inbound message gets a goroutine of its own, and a       *)
(* command reads and writes the roster in several separate critical        *)
(* sections of Roster.mu, so the steps of two commands interleave.  A step *)
(* is one critical section together with the local code up to the next     *)
(* one.  Every change rewrites state.json; a failed write is reported to   *)
(* the caller after memory has already changed.                            *)
(*                                                                         *)
(* Timestamps are left out: Prune removes any set of members.  A user      *)
(* argument is the hash that Roster.Resolve finds for it.                  *)
(***************************************************************************)
EXTENDS Integers, FiniteSets

CONSTANTS
  Users,         \* sender hashes
  Absent,        \* users[u] for a hash that is not on the roster
  Config,        \* Config[u]: role granted by the config's admins and mods lists
  Procs,         \* the handler goroutines that can run at the same time
  Cmds,          \* the commands users may send
  MaxMembers,    \* service.max_members, 0 for no cap
  InitMembers,   \* the members state.json holds at the start
  InitAdmins,    \* those of them with a runtime admin role
  MaxMsgs,       \* bound: commands received
  MaxAnnounces,  \* bound: announces received
  MaxPrunes,     \* bound: sweeps of Prune that find someone
  MaxCrashes,    \* bound: crashes of the process
  MaxSaveFails   \* bound: failed writes of state.json

\* Role: RoleUser < RoleMod < RoleAdmin.
RoleUser  == 0
RoleMod   == 1
RoleAdmin == 2
Roles     == {RoleUser, RoleMod, RoleAdmin}

FlagCmds     == {"pause", "resume", "textonly", "showall"}
ResolvedCmds == {"nickof", "usermode", "kick", "ban"}
AllCmds      == {"join", "leave", "nick", "unban"} \cup FlagCmds \cup ResolvedCmds

ASSUME UserAssumption ==
  /\ IsFiniteSet(Users)
  /\ Config \in [Users -> Roles]
  /\ InitAdmins \subseteq InitMembers
  /\ InitMembers \subseteq Users
  /\ Cmds \subseteq AllCmds

ASSUME ProcAssumption == IsFiniteSet(Procs) /\ Procs # {}

ASSUME CapAssumption ==
  /\ MaxMembers \in Nat
  /\ MaxMembers > 0 => Cardinality(InitMembers) <= MaxMembers

ASSUME BoundAssumption ==
  /\ MaxMsgs \in Nat
  /\ MaxAnnounces \in Nat
  /\ MaxPrunes \in Nat
  /\ MaxCrashes \in Nat
  /\ MaxSaveFails \in Nat

\* A roster entry.  nick is "" (none), "announced" (derived from an announce) or
\* "chosen" (set with /nick).
Profile == [nick : {"", "announced", "chosen"}, flags : SUBSET {"paused", "textOnly"},
            role : Roles]

ASSUME AbsentAssumption == Absent \notin Profile

Fresh == [nick |-> "", flags |-> {}, role |-> RoleUser]

VARIABLES
  users,      \* Roster.users
  banned,     \* Roster.banlist
  disk,       \* state.json
  h,          \* h[p]: the command a goroutine handles, and what it has read
  tap,        \* the announce handler
  named,      \* users whose latest announce has a usable display name
  \* history
  raced,      \* users banned while their /join was past its ban check
  peak,       \* peak[p]: highest role of p's sender since its message arrived
  chose,      \* members given a nickname with /nick since they joined
  msgs, announces, prunes, crashes, saveFails,
  lag         \* failed saves since state.json was last written or read

vars == <<users, banned, disk, h, tap, named, raced, peak, chose, msgs, announces,
          prunes, crashes, saveFails, lag>>
counters == <<msgs, announces, prunes, crashes>>

Idle == [pc |-> "idle"]

Members == {u \in Users : users[u] # Absent}

\* The effective role of u with roster us: the runtime role only raises the
\* config's.
RoleIn(us, u) ==
  IF us[u] # Absent /\ us[u].role > Config[u] THEN us[u].role ELSE Config[u]

-----------------------------------------------------------------------------
(* Persistence *)

SaveOk ==
  /\ disk' = [users |-> users', banned |-> banned']
  /\ lag' = 0
  /\ UNCHANGED saveFails

SaveFails ==
  /\ saveFails < MaxSaveFails
  /\ saveFails' = saveFails + 1
  /\ lag' = lag + 1
  /\ UNCHANGED disk

\* persistLocked, where the caller goes on the same way after an error.
PersistLocked == SaveOk \/ SaveFails

NoSave == UNCHANGED <<disk, lag, saveFails>>

-----------------------------------------------------------------------------
(* Roster operations *)

Keep == UNCHANGED <<users, banned>> /\ NoSave

Remove(u) ==
  IF users[u] = Absent THEN Keep
  ELSE /\ users' = [users EXCEPT ![u] = Absent]
       /\ UNCHANGED banned
       /\ PersistLocked

\* SetNickname, SetPaused, SetTextOnly and SetRole: an error for a non-member.
Update(u, new) ==
  IF users[u] = Absent THEN Keep
  ELSE /\ users' = [users EXCEPT ![u] = new]
       /\ UNCHANGED banned
       /\ PersistLocked

\* Mutant of Ban: the user stays on the roster.
BanOnly(u) ==
  /\ banned' = banned \cup {u}
  /\ UNCHANGED users
  /\ PersistLocked

Ban(u) ==
  /\ banned' = banned \cup {u}
  /\ users' = [users EXCEPT ![u] = Absent]
  /\ PersistLocked

\* Mutant of Unban: no persistLocked.
UnbanUnsaved(u) ==
  IF u \notin banned THEN Keep
  ELSE /\ banned' = banned \ {u}
       /\ UNCHANGED users
       /\ NoSave

Unban(u) ==
  IF u \notin banned THEN Keep
  ELSE /\ banned' = banned \ {u}
       /\ UNCHANGED users
       /\ PersistLocked

-----------------------------------------------------------------------------
(* The handler of a command *)

Goto(p, pc) == h' = [h EXCEPT ![p].pc = pc]
Done(p)     == h' = [h EXCEPT ![p] = Idle]
At(p, pc)   == h[p].pc = pc
Outside     == UNCHANGED <<tap, named, counters>>

\* onLXMFReceived: a banned sender is dropped, any other gets its goroutine on to
\* Touch.
Receive(p, u, cmd, arg, level) ==
  /\ At(p, "idle")
  /\ msgs < MaxMsgs
  /\ u \notin banned
  /\ msgs' = msgs + 1
  /\ h' = [h EXCEPT ![p] = [pc |-> "touch", from |-> u, cmd |-> cmd, arg |-> arg,
                            level |-> level, member |-> FALSE, flags |-> {},
                            role |-> RoleUser]]
  /\ Keep
  /\ UNCHANGED <<tap, named, announces, prunes, crashes>>

\* Roster.Touch refreshes a timestamp of a member, and so saves the roster.
Touch(p) ==
  /\ At(p, "touch")
  /\ Goto(p, "has")
  /\ UNCHANGED <<users, banned>>
  /\ IF users[h[p].from] = Absent THEN NoSave ELSE PersistLocked
  /\ Outside

\* deriveCaller reads the roster twice: Has, and for a member Get.
DeriveMember(p) ==
  /\ At(p, "has")
  /\ LET m == users[h[p].from] # Absent
     IN  h' = [h EXCEPT ![p].pc = IF m THEN "get" ELSE "run", ![p].member = m,
                        ![p].role = Config[h[p].from]]
  /\ Keep
  /\ Outside

DeriveProfile(p) ==
  /\ At(p, "get")
  /\ LET u == h[p].from
     IN  h' = [h EXCEPT ![p].pc = "run",
                        ![p].flags = IF users[u] = Absent THEN {} ELSE users[u].flags,
                        ![p].role = RoleIn(users, u)]
  /\ Keep
  /\ Outside

Flag(cmd) == IF cmd \in {"pause", "resume"} THEN "paused" ELSE "textOnly"

\* Mutant of Refuses: the role test of the mod commands is forgotten.
RefusesRoleless(j) ==
  \/ j.cmd = "join" /\ j.member
  \/ j.cmd \in {"leave", "nick"} \cup FlagCmds /\ ~j.member
  \/ j.cmd \in {"pause", "textonly"} /\ Flag(j.cmd) \in j.flags
  \/ j.cmd \in {"resume", "showall"} /\ Flag(j.cmd) \notin j.flags
  \/ j.cmd = "usermode" /\ j.role # RoleAdmin

\* The tests a command makes on its Caller before it touches the roster.
Refuses(j) ==
  \/ j.cmd = "join" /\ j.member
  \/ j.cmd \in {"leave", "nick"} \cup FlagCmds /\ ~j.member
  \/ j.cmd \in {"pause", "textonly"} /\ Flag(j.cmd) \in j.flags
  \/ j.cmd \in {"resume", "showall"} /\ Flag(j.cmd) \notin j.flags
  \/ j.cmd \in {"nickof", "kick", "ban", "unban"} /\ j.role < RoleMod
  \/ j.cmd = "usermode" /\ j.role # RoleAdmin

Running(p, cmds) == At(p, "run") /\ h[p].cmd \in cmds /\ ~Refuses(h[p])

Refuse(p) ==
  /\ At(p, "run")
  /\ Refuses(h[p])
  /\ Done(p)
  /\ Keep
  /\ Outside

\* handleJoin, one critical section after the other: IsBanned,
JoinIsBanned(p) ==
  /\ Running(p, {"join"})
  /\ IF h[p].from \in banned THEN Done(p) ELSE Goto(p, "joinLen")
  /\ Keep
  /\ Outside

Full == MaxMembers > 0 /\ Cardinality(Members) >= MaxMembers

\* Mutant of JoinLen: the cap is not tested.
JoinLenUncapped(p) ==
  /\ At(p, "joinLen")
  /\ Goto(p, "joinAdd")
  /\ Keep
  /\ Outside

\* Len,
JoinLen(p) ==
  /\ At(p, "joinLen")
  /\ IF Full THEN Done(p) ELSE Goto(p, "joinAdd")
  /\ Keep
  /\ Outside

\* AddOrUpdate, whose error ends the handler although the user is on the roster,
JoinAdd(p) ==
  /\ At(p, "joinAdd")
  /\ users' = [users EXCEPT ![h[p].from] = IF @ = Absent THEN Fresh ELSE @]
  /\ UNCHANGED banned
  /\ \/ SaveOk /\ Goto(p, "joinGet")
     \/ SaveFails /\ Done(p)
  /\ Outside

\* Get, looking for a member without a nickname,
JoinGet(p) ==
  /\ At(p, "joinGet")
  /\ IF users[h[p].from] # Absent /\ users[h[p].from].nick = ""
     THEN Goto(p, "joinLookup") ELSE Done(p)
  /\ Keep
  /\ Outside

\* LookupAnnouncedName,
JoinLookup(p) ==
  /\ At(p, "joinLookup")
  /\ IF h[p].from \in named THEN Goto(p, "joinName") ELSE Done(p)
  /\ Keep
  /\ Outside

\* and SetNickname.
JoinName(p) ==
  /\ At(p, "joinName")
  /\ Update(h[p].from, [users[h[p].from] EXCEPT !.nick = "announced"])
  /\ Done(p)
  /\ Outside

HandleLeave(p) ==
  /\ Running(p, {"leave"})
  /\ Remove(h[p].from)
  /\ Done(p)
  /\ Outside

\* handlePause, handleResume, handleTextOnly and handleShowAll.
HandleFlag(p) ==
  /\ Running(p, FlagCmds)
  /\ LET f == {Flag(h[p].cmd)}
     IN  Update(h[p].from, [users[h[p].from] EXCEPT
           !.flags = IF h[p].cmd \in {"pause", "textonly"} THEN @ \cup f ELSE @ \ f])
  /\ Done(p)
  /\ Outside

\* handleNick with one argument.
HandleNick(p) ==
  /\ Running(p, {"nick"})
  /\ Update(h[p].from, [users[h[p].from] EXCEPT !.nick = "chosen"])
  /\ Done(p)
  /\ Outside

\* Mutant of SelfLockout: the guard is gone.
SelfLockoutOff(j) == FALSE

\* The self-lockout guard of handleUserMode.
SelfLockout(j) ==
  /\ j.cmd = "usermode"
  /\ j.arg = j.from
  /\ j.level < RoleAdmin
  /\ Config[j.from] < RoleAdmin

\* Roster.Resolve for the commands with a user argument.
Resolve(p) ==
  /\ Running(p, ResolvedCmds)
  /\ IF users[h[p].arg] = Absent \/ SelfLockout(h[p]) THEN Done(p) ELSE Goto(p, "act")
  /\ Keep
  /\ Outside

\* handleUnban looks the hash up in Banlist.
ResolveBanned(p) ==
  /\ Running(p, {"unban"})
  /\ IF h[p].arg \in banned THEN Goto(p, "act") ELSE Done(p)
  /\ Keep
  /\ Outside

Act(p, cmd) == At(p, "act") /\ h[p].cmd = cmd /\ Done(p) /\ Outside

\* The second critical section of handleNick (two arguments), handleUserMode,
\* handleKick, handleBan and handleUnban.
ActNick(p) ==
  /\ Act(p, "nickof")
  /\ Update(h[p].arg, [users[h[p].arg] EXCEPT !.nick = "chosen"])

ActUserMode(p) ==
  /\ Act(p, "usermode")
  /\ Update(h[p].arg, [users[h[p].arg] EXCEPT !.role = h[p].level])

ActKick(p)  == Act(p, "kick") /\ Remove(h[p].arg)
ActBan(p)   == Act(p, "ban") /\ Ban(h[p].arg)
ActUnban(p) == Act(p, "unban") /\ Unban(h[p].arg)

-----------------------------------------------------------------------------
(* Announces, the prune ticker, crashes *)

\* The transport records the announced name and calls OnAnnounce, whose
\* UpdateLastAnnounce saves when the emission time of a member advances.
OnAnnounce(u, usable) ==
  /\ tap = Idle
  /\ announces < MaxAnnounces
  /\ announces' = announces + 1
  /\ named' = IF usable THEN named \cup {u} ELSE named \ {u}
  /\ tap' = IF usable THEN [pc |-> "get", user |-> u] ELSE Idle
  /\ UNCHANGED <<users, banned>>
  /\ \/ users[u] # Absent /\ PersistLocked
     \/ NoSave
  /\ UNCHANGED <<h, msgs, prunes, crashes>>

\* maybeAdoptAnnouncedNickname: Get,
AdoptGet ==
  /\ tap.pc = "get"
  /\ tap' = IF users[tap.user] # Absent /\ users[tap.user].nick = ""
            THEN [pc |-> "set", user |-> tap.user] ELSE Idle
  /\ Keep
  /\ UNCHANGED <<h, named, counters>>

\* then SetNickname.
AdoptSet ==
  /\ tap.pc = "set"
  /\ Update(tap.user, [users[tap.user] EXCEPT !.nick = "announced"])
  /\ tap' = Idle
  /\ UNCHANGED <<h, named, counters>>

\* runPrune: the inactive members S go.
RunPrune(S) ==
  /\ prunes < MaxPrunes
  /\ S # {}
  /\ S \subseteq Members
  /\ prunes' = prunes + 1
  /\ users' = [u \in Users |-> IF u \in S THEN Absent ELSE users[u]]
  /\ UNCHANGED banned
  /\ PersistLocked
  /\ UNCHANGED <<h, tap, named, msgs, announces, crashes>>

\* The process dies and New loads state.json; announces.json brings back some of
\* the announced names.
Restart ==
  /\ crashes < MaxCrashes
  /\ crashes' = crashes + 1
  /\ users' = disk.users
  /\ banned' = disk.banned
  /\ h' = [p \in Procs |-> Idle]
  /\ tap' = Idle
  /\ named' \in SUBSET named
  /\ lag' = 0
  /\ UNCHANGED <<disk, saveFails, msgs, announces, prunes>>

-----------------------------------------------------------------------------
Init ==
  /\ users = [u \in Users |-> IF u \in InitMembers
                              THEN [Fresh EXCEPT !.role = IF u \in InitAdmins
                                                          THEN RoleAdmin ELSE RoleUser]
                              ELSE Absent]
  /\ banned = {}
  /\ disk = [users |-> users, banned |-> banned]
  /\ h = [p \in Procs |-> Idle]
  /\ tap = Idle
  /\ named = {}
  /\ raced = {}
  /\ peak = [p \in Procs |-> RoleUser]
  /\ chose = {}
  /\ msgs = 0
  /\ announces = 0
  /\ prunes = 0
  /\ crashes = 0
  /\ saveFails = 0
  /\ lag = 0

Handle(p) ==
  \/ Touch(p) \/ DeriveMember(p) \/ DeriveProfile(p) \/ Refuse(p)
  \/ JoinIsBanned(p) \/ JoinLen(p) \/ JoinAdd(p)
  \/ JoinGet(p) \/ JoinLookup(p) \/ JoinName(p)
  \/ HandleLeave(p) \/ HandleFlag(p) \/ HandleNick(p)
  \/ Resolve(p) \/ ResolveBanned(p)
  \/ ActNick(p) \/ ActUserMode(p) \/ ActKick(p) \/ ActBan(p) \/ ActUnban(p)

\* A joiner who passed the ban check and is not yet on the roster.
Joining(p) == h[p].pc \in {"joinLen", "joinAdd"}

\* The history variables follow every step.
Remember ==
  /\ raced' = raced \cup
       {u \in banned' \ banned : \E p \in Procs : Joining(p) /\ h[p].from = u}
  /\ chose' = {u \in Users : /\ users'[u] # Absent
                             /\ u \in chose \/ users'[u].nick = "chosen"}
  /\ peak' = [p \in Procs |->
       IF h'[p].pc = "idle" THEN RoleUser
       ELSE LET now == RoleIn(users', h'[p].from)
            IN  IF now > peak[p] THEN now ELSE peak[p]]

Next ==
  \/ \E p \in Procs, u, arg \in Users, cmd \in Cmds, level \in Roles :
       /\ cmd \in ResolvedCmds \cup {"unban"} \/ arg = u
       /\ cmd = "usermode" \/ level = RoleUser
       /\ Receive(p, u, cmd, arg, level)
       /\ Remember
  \/ \E p \in Procs : Handle(p) /\ Remember
  \/ \E u \in Users, usable \in BOOLEAN : OnAnnounce(u, usable) /\ Remember
  \/ AdoptGet /\ Remember
  \/ AdoptSet /\ Remember
  \/ \E S \in SUBSET Users : RunPrune(S) /\ Remember
  \/ Restart /\ Remember

Spec == Init /\ [][Next]_vars
-----------------------------------------------------------------------------
(* Properties *)

Places == {"touch", "has", "get", "run", "joinLen", "joinAdd", "joinGet", "joinLookup",
           "joinName", "act"}

Job == [pc : Places, from : Users, cmd : AllCmds, arg : Users, level : Roles,
        member : BOOLEAN, flags : SUBSET {"paused", "textOnly"}, role : Roles]

Rosters == [Users -> Profile \cup {Absent}]

\* Roster, ban list, file and handlers keep their types.
TypeOK ==
  /\ users \in Rosters
  /\ banned \subseteq Users
  /\ disk \in [users : Rosters, banned : SUBSET Users]
  /\ h \in [Procs -> {Idle} \cup Job]
  /\ tap \in {Idle} \cup [pc : {"get", "set"}, user : Users]
  /\ named \subseteq Users
  /\ raced \subseteq Users
  /\ peak \in [Procs -> Roles]
  /\ chose \subseteq Users
  /\ msgs \in Nat /\ announces \in Nat /\ prunes \in Nat
  /\ crashes \in Nat /\ saveFails \in Nat /\ lag \in Nat

\* The roster outgrows max_members by at most the number of other handlers
\* running at the same time: Len and AddOrUpdate of handleJoin are two critical
\* sections, and no more joiners than that can stand between them.
RosterBounded ==
  MaxMembers > 0 => Cardinality(Members) < MaxMembers + Cardinality(Procs)

\* A banned user is on the roster only if the ban came while one of the user's
\* own /joins was already past its ban check (handleJoin, Roster.Ban), across
\* crashes and failed saves.
BannedMemberRaced == Members \cap banned \subseteq raced

\* state.json holds exactly the roster and the ban list in memory unless a save
\* has failed since it was last written or read (persistLocked).
DiskCurrent == lag = 0 => disk = [users |-> users, banned |-> banned]

Acts(p) == h'[p] # h[p] /\ crashes' = crashes

\* A command changes another user's entry, or any ban, only if its sender held
\* the mod role at some moment since the command arrived, and a runtime role
\* only if the sender held the admin role (deriveCaller reads the role once; the
\* sender may have been demoted, kicked or banned since).
AuthorityWasHeld ==
  [][\A p \in Procs : Acts(p) =>
       /\ peak[p] < RoleMod =>
            /\ banned' = banned
            /\ \A u \in Users : users'[u] = users[u] \/ u = h[p].from
       /\ peak[p] < RoleAdmin =>
            \A u \in Members : users'[u] # Absent => users'[u].role = users[u].role]_vars

\* /usermode never lowers the effective role of the admin who sends it
\* (handleUserMode's self-lockout guard, the config floor of deriveCaller).
UserModeKeepsSender ==
  [][\A p \in Procs : Acts(p) /\ h[p].pc = "act" /\ h[p].cmd = "usermode" =>
       RoleIn(users', h[p].from) >= RoleIn(users, h[p].from)]_vars

-----------------------------------------------------------------------------
(* Claims of the source that the code does not meet *)

\* An announced name never overwrites a nickname set with /nick.
NickAuthoritative == \A u \in Members : u \in chose => users[u].nick = "chosen"
=============================================================================
