-------------------------- MODULE AntiCheatServer --------------------------
(***************************************************************************)
(* The server plugin's player table: what the SA-MP callbacks, the client  *)
(* RPC handlers, the kick timers, /actoggle and the ban list answers do to *)
(* the CAntiCheat objects of the player slots.                             *)
(*                                                                         *)
(* Every action but LookupAnswered and RecheckBan runs on the server's     *)
(* main thread, inside a callback, and is therefore atomic with respect to *)
(* the others.  The two exceptions are steps of detached threads; they     *)
(* only add to checks and queue.                                           *)
(*                                                                         *)
(* A member of Players is one connection of somebody to the server: who    *)
(* leaves and comes back is another member.  The fields and variables      *)
(* marked "ghost" exist only here, to say whose object, timer, right or    *)
(* answer it is; no guard reads them.                                      *)
(***************************************************************************)
EXTENDS Naturals, Sequences

CONSTANTS
  Slots,        \* player ids, 0 .. MAX_PLAYERS - 1 in the server
  Players,      \* the connections of the run
  ACPlayers,    \* those whose game runs the anti-cheat client
  OldClients,   \* those whose client has another major or minor version
  NPCs,         \* those that are server side bots
  Cheaters,     \* those the web server's ban list holds
  RconAdmins,   \* those sampgdk::IsPlayerAdmin accepts
  NoPlayer,     \* nobody
  NoAC,         \* the NULL CAntiCheat pointer
  MaxKicks,     \* bound: pending kick timers for one slot and occupant
  MaxChecks,    \* bound: ban lookups in flight for one slot and occupant
  MaxQueue,     \* bound: answers waiting for the main thread
  MaxGrants     \* bound: occurrences of one slot in m_Admins

ASSUME ServerConstants ==
  /\ ACPlayers \subseteq Players
  /\ OldClients \subseteq ACPlayers
  /\ NPCs \subseteq Players \ ACPlayers
  /\ RconAdmins \subseteq Players
  /\ NoPlayer \notin Players
  /\ {MaxKicks, MaxChecks, MaxQueue, MaxGrants} \subseteq Nat

VARIABLES
  who,       \* the connection that holds each slot
  stage,     \* how far that connection is
  seen,      \* connections that were given a slot at some time
  played,    \* ghost: connections that joined at some time
  reported,  \* connections whose ON_INITIAL_INFO was received
  ac,        \* CAntiCheatHandler::players
  acOn,      \* ACToggle
  grants,    \* how often each slot occurs in m_Admins
  granted,   \* ghost: connections a script allowed to use /actoggle
  kicks,     \* pending KickPlayer timers per slot and (ghost) target
  checks,    \* lookup threads at work, per slot and subject
  queue      \* callbacks waiting in pMainThreadSync

vars == <<who, stage, seen, played, reported, ac, acOn, grants, granted,
          kicks, checks, queue>>

connVars  == <<who, stage, seen, played>>
objVars   == <<reported, ac>>
adminVars == <<acOn, grants, granted>>
banVars   == <<checks, queue>>

Targets   == Players \cup {NoPlayer}
Stages    == {"free", "attached", "joined", "leaving"}
BanStatus == {"unknown", "clear", "banned"}

\* owner and about are ghosts: who sent the initial information, and whose
\* lookup gave the ban status.
Object == [owner: Players, fresh: BOOLEAN, ban: BanStatus, about: Targets]
Answer == [slot: Slots, about: Players, ischeater: BOOLEAN]

ASSUME NullIsNoObject == NoAC \notin Object

TypeOK ==
  /\ who \in [Slots -> Targets]
  /\ stage \in [Slots -> Stages]
  /\ seen \in SUBSET Players
  /\ played \in SUBSET Targets
  /\ reported \in SUBSET Players
  /\ ac \in [Slots -> Object \cup {NoAC}]
  /\ acOn \in BOOLEAN
  /\ grants \in [Slots -> Nat]
  /\ granted \in SUBSET Targets
  /\ kicks \in [Slots -> [Targets -> Nat]]
  /\ checks \in [Slots -> [Players -> Nat]]
  /\ queue \in Seq(Answer)

Init ==
  /\ who = [s \in Slots |-> NoPlayer]
  /\ stage = [s \in Slots |-> "free"]
  /\ seen = {}
  /\ played = {}
  /\ reported = {}
  /\ ac = [s \in Slots |-> NoAC]
  /\ acOn \in BOOLEAN
  /\ grants = [s \in Slots |-> 0]
  /\ granted = {}
  /\ kicks = [s \in Slots |-> [p \in Targets |-> 0]]
  /\ checks = [s \in Slots |-> [p \in Players |-> 0]]
  /\ queue = <<>>

----------------------------------------------------------------------------
(* Helpers                                                                 *)

IsPlayerConnected(s) == stage[s] \in {"joined", "leaving"}

IsPlayerNPC(s) == who[s] \in NPCs

HasAC(s) == ac[s] # NoAC

CanEnableAC(s) == who[s] \in RconAdmins \/ grants[s] > 0

\* SetTimer(1000, 0, Callback::KickPlayer, s) for every slot of S.
ArmKick(S) ==
  /\ \A s \in S : kicks[s][who[s]] < MaxKicks
  /\ kicks' = [s \in Slots |-> [p \in Targets |->
                IF s \in S /\ p = who[s] THEN kicks[s][p] + 1
                                         ELSE kicks[s][p]]]

\* BanHandler::CheckCheater: a thread that asks about the slot's occupant.
CheckCheater(s) ==
  /\ checks[s][who[s]] < MaxChecks
  /\ checks' = [checks EXCEPT ![s][who[s]] = @ + 1]

\* Mutant: removes the occurrences without shortening the list.
RemoveWithoutErase(s, toggle) ==
  grants' = [grants EXCEPT ![s] = IF toggle THEN @ + 1 ELSE @]

\* Mutant: erases one occurrence without looking for it.
EraseBlindly(s, toggle) ==
  grants' = [grants EXCEPT ![s] = IF toggle THEN @ + 1 ELSE @ - 1]

\* CAntiCheat::ToggleCanEnableAC: push_back, or erase every occurrence.
ToggleCanEnableAC(s, toggle) ==
  grants' = [grants EXCEPT ![s] = IF toggle THEN @ + 1 ELSE 0]

\* Mutant: tests the status before storing the new one.
KickByOldStatus(a) ==
  /\ ac' = [ac EXCEPT ![a.slot].ban = IF a.ischeater THEN "banned"
                                                     ELSE "clear",
                      ![a.slot].about = a.about]
  /\ IF ac[a.slot].ban = "banned" /\ acOn THEN ArmKick({a.slot})
                                          ELSE UNCHANGED kicks

\* CAntiCheat::OnBanChecked for the object in slot a.slot.
OnBanChecked(a) ==
  /\ ac' = [ac EXCEPT ![a.slot].ban = IF a.ischeater THEN "banned"
                                                     ELSE "clear",
                      ![a.slot].about = a.about]
  /\ IF a.ischeater /\ acOn THEN ArmKick({a.slot}) ELSE UNCHANGED kicks

\* The slots /actoggle looks at, when it turns the main checks on.
ToCheck == {s \in Slots : IsPlayerConnected(s) /\ ~IsPlayerNPC(s)}

\* Mutant: the condition is inverted.
RunningAC == {s \in ToCheck : HasAC(s)}

\* Those it gives a kick timer, and those it kicks at once.
NotRunningAC == {s \in ToCheck : ~HasAC(s)}
AC_IsBanned  == {s \in ToCheck : HasAC(s) /\ ac[s].ban = "banned"}

NewObject(p) == [owner |-> p, fresh |-> TRUE, ban |-> "unknown",
                 about |-> NoPlayer]

----------------------------------------------------------------------------
(* Connections                                                             *)

\* RakNet accepts a connection and gives it a free slot.
Attach(p, s) ==
  /\ stage[s] = "free"
  /\ p \notin seen
  /\ who' = [who EXCEPT ![s] = p]
  /\ stage' = [stage EXCEPT ![s] = "attached"]
  /\ seen' = seen \cup {p}
  /\ UNCHANGED <<played, kicks, objVars, adminVars, banVars>>

\* The connection ends before the player joins: no callback is run.
Drop(s) ==
  /\ stage[s] = "attached"
  /\ who' = [who EXCEPT ![s] = NoPlayer]
  /\ stage' = [stage EXCEPT ![s] = "free"]
  /\ UNCHANGED <<seen, played, kicks, objVars, adminVars, banVars>>

\* ON_INITIAL_INFO.  A client sends it once per connection; the network may
\* deliver it on either side of the join.
OnIntialInfoGotten(s) ==
  /\ stage[s] \in {"attached", "joined"}
  /\ who[s] \in ACPlayers \ reported
  /\ reported' = reported \cup {who[s]}
  /\ ac' = [ac EXCEPT ![s] = NewObject(who[s])]
  /\ IF who[s] \in OldClients THEN ArmKick({s}) ELSE UNCHANGED kicks
  /\ UNCHANGED <<connVars, adminVars, banVars>>

\* Two seconds pass after an object's creation.  Only OnPlayerConnect reads
\* the creation tick, so it is of no interest once the player has joined.
CreationTickExpires(s) ==
  /\ ~IsPlayerConnected(s)
  /\ HasAC(s)
  /\ ac[s].fresh
  /\ ac' = [ac EXCEPT ![s].fresh = FALSE]
  /\ UNCHANGED <<reported, kicks, connVars, adminVars, banVars>>

OnPlayerConnect(s) ==
  /\ stage[s] = "attached"
  /\ stage' = [stage EXCEPT ![s] = "joined"]
  /\ played' = played \cup {who[s]}
  /\ ToggleCanEnableAC(s, FALSE)
  /\ \/ /\ IsPlayerNPC(s)
        /\ UNCHANGED <<ac, kicks, checks>>
     \/ /\ ~IsPlayerNPC(s)
        /\ HasAC(s) /\ ac[s].fresh
        /\ CheckCheater(s)
        /\ UNCHANGED <<ac, kicks>>
     \/ /\ ~IsPlayerNPC(s)
        /\ ~(HasAC(s) /\ ac[s].fresh)
        /\ ac' = [ac EXCEPT ![s] = NoAC]
        /\ IF acOn THEN ArmKick({s}) ELSE UNCHANGED kicks
        /\ UNCHANGED checks
  /\ UNCHANGED <<who, seen, reported, acOn, granted, queue>>

\* Mutant: forgets CAntiCheatHandler::Remove.
DisconnectKeepsObject(s) ==
  /\ IsPlayerConnected(s)
  /\ who' = [who EXCEPT ![s] = NoPlayer]
  /\ stage' = [stage EXCEPT ![s] = "free"]
  /\ UNCHANGED <<seen, played, kicks, objVars, adminVars, banVars>>

OnPlayerDisconnect(s) ==
  /\ IsPlayerConnected(s)
  /\ who' = [who EXCEPT ![s] = NoPlayer]
  /\ stage' = [stage EXCEPT ![s] = "free"]
  /\ ac' = [ac EXCEPT ![s] = NoAC]
  /\ UNCHANGED <<seen, played, reported, kicks, adminVars, banVars>>

\* Mutant: kicks only those that run the client.
KickOnlyAC(s, p) ==
  /\ kicks[s][p] > 0
  /\ kicks' = [kicks EXCEPT ![s][p] = @ - 1]
  /\ stage' = IF IsPlayerConnected(s) /\ HasAC(s)
              THEN [stage EXCEPT ![s] = "leaving"] ELSE stage
  /\ UNCHANGED <<who, seen, played, objVars, adminVars, banVars>>

\* The one second timer armed for p fires: it kicks whoever holds the slot.
KickPlayer(s, p) ==
  /\ kicks[s][p] > 0
  /\ kicks' = [kicks EXCEPT ![s][p] = @ - 1]
  /\ stage' = IF IsPlayerConnected(s) THEN [stage EXCEPT ![s] = "leaving"]
                                      ELSE stage
  /\ UNCHANGED <<who, seen, played, objVars, adminVars, banVars>>

----------------------------------------------------------------------------
(* Reports of the client                                                   *)

\* The slot's occupant runs a client that is up and sends RPCs.
Reporting(s) ==
  /\ stage[s] \in {"attached", "joined"}
  /\ who[s] \in reported

\* A report that has somebody kicked changes nothing but the timers.
KickForReport(s) ==
  /\ ArmKick({s})
  /\ UNCHANGED <<connVars, objVars, adminVars, banVars>>

\* The reports that find weapon.dat, a game file or an entry of gta3.img
\* modified; the others only run a PAWN callback.
OnMD5Calculated(s) ==
  Reporting(s) /\ HasAC(s) /\ acOn /\ KickForReport(s)

OnFileCalculated(s) ==
  Reporting(s) /\ HasAC(s) /\ acOn /\ KickForReport(s)

OnImgFileModified(s) ==
  Reporting(s) /\ HasAC(s) /\ acOn /\ KickForReport(s)

\* The verification timer finds the client silent for too long.
WarnUnverifiedClient(s) ==
  IsPlayerConnected(s) /\ HasAC(s) /\ acOn /\ KickForReport(s)

\* Kicks whether or not the main checks are on.
OnTamperAttempt(s) ==
  Reporting(s) /\ HasAC(s) /\ KickForReport(s)

\* Builds older than the plugin announce themselves with VERSION_INCOMPAT2
\* and never send the initial information.
VersionIncompat(s) ==
  /\ stage[s] \in {"attached", "joined"}
  /\ who[s] \in OldClients \ reported
  /\ KickForReport(s)

----------------------------------------------------------------------------
(* /actoggle and the right to use it                                       *)

\* The native SetPlayerCanEnableAC, called by a script.
SetPlayerCanEnableAC(s, toggle) ==
  /\ IsPlayerConnected(s)
  /\ toggle => grants[s] < MaxGrants
  /\ ToggleCanEnableAC(s, toggle)
  /\ granted' = IF toggle THEN granted \cup {who[s]} ELSE granted \ {who[s]}
  /\ UNCHANGED <<acOn, kicks, connVars, objVars, banVars>>

\* /actoggle.  Turning the checks on gives everybody without the client a
\* kick timer and kicks the banned at once.
OnPlayerCommandText(s) ==
  /\ stage[s] = "joined"
  /\ CanEnableAC(s)
  /\ acOn' = ~acOn
  /\ \/ /\ acOn
        /\ UNCHANGED <<kicks, stage>>
     \/ /\ ~acOn
        /\ ArmKick(NotRunningAC)
        /\ stage' = [i \in Slots |-> IF i \in AC_IsBanned THEN "leaving"
                                                          ELSE stage[i]]
  /\ UNCHANGED <<who, seen, played, grants, granted, objVars, banVars>>

----------------------------------------------------------------------------
(* Ban list lookups                                                        *)

\* Mutant: the answer is posted under the player id of another lookup.
AnsweredUnderAnother(s, p) ==
  /\ checks[s][p] > 0
  /\ Len(queue) < MaxQueue
  /\ checks' = [checks EXCEPT ![s][p] = @ - 1]
  /\ \E t \in Slots :
       queue' = Append(queue, [slot |-> t, about |-> p, ischeater |-> FALSE])
  /\ UNCHANGED <<kicks, connVars, objVars, adminVars>>

\* A lookup thread posts its result.  A request that failed posts the same
\* "not a cheater" as one that found nothing.
LookupAnswered(s, p) ==
  /\ checks[s][p] > 0
  /\ Len(queue) < MaxQueue
  /\ checks' = [checks EXCEPT ![s][p] = @ - 1]
  /\ \E ischeater \in BOOLEAN :
       /\ ischeater => p \in Cheaters
       /\ queue' = Append(queue, [slot |-> s, about |-> p,
                                  ischeater |-> ischeater])
  /\ UNCHANGED <<kicks, connVars, objVars, adminVars>>

\* ProcessTick runs the oldest callback: OnCheaterCheckResponse, which hands
\* the answer to the object now in the slot it was asked for.
OnCheaterCheckResponse ==
  /\ queue # <<>>
  /\ queue' = Tail(queue)
  /\ IF HasAC(Head(queue).slot) THEN OnBanChecked(Head(queue))
                                 ELSE UNCHANGED <<ac, kicks>>
  /\ UNCHANGED <<reported, checks, connVars, adminVars>>

\* The queued bans thread asks again about a player, after the web server
\* could be reached again.
RecheckBan(s) ==
  /\ IsPlayerConnected(s)
  /\ ~IsPlayerNPC(s)
  /\ HasAC(s)
  /\ CheckCheater(s)
  /\ UNCHANGED <<kicks, queue, connVars, objVars, adminVars>>

----------------------------------------------------------------------------
(* Specification                                                           *)

SlotStep(s) ==
  \/ \E p \in Players : Attach(p, s)
  \/ Drop(s)
  \/ OnIntialInfoGotten(s)
  \/ CreationTickExpires(s)
  \/ OnPlayerConnect(s)
  \/ OnPlayerDisconnect(s)
  \/ \E p \in Targets : KickPlayer(s, p)
  \/ OnMD5Calculated(s)
  \/ OnFileCalculated(s)
  \/ OnImgFileModified(s)
  \/ WarnUnverifiedClient(s)
  \/ OnTamperAttempt(s)
  \/ VersionIncompat(s)
  \/ \E toggle \in BOOLEAN : SetPlayerCanEnableAC(s, toggle)
  \/ OnPlayerCommandText(s)
  \/ \E p \in Players : LookupAnswered(s, p)
  \/ RecheckBan(s)

Next == OnCheaterCheckResponse \/ \E s \in Slots : SlotStep(s)

Spec == Init /\ [][Next]_vars

\* ProcessTick runs the due timers and the posted callbacks at every server
\* tick, and the server closes the connection of a kicked player.
Fairness ==
  /\ \A s \in Slots, p \in Targets : WF_vars(KickPlayer(s, p))
  /\ \A s \in Slots : WF_vars(stage[s] = "leaving" /\ OnPlayerDisconnect(s))
  /\ WF_vars(OnCheaterCheckResponse)

FairSpec == Spec /\ Fairness

----------------------------------------------------------------------------
(* Safety                                                                  *)

\* While the main checks are on, everybody who plays without the client has
\* a kick timer of their own running, whether they joined while the checks
\* were on or somebody turned the checks on under them.
UnprotectedIsBeingKicked ==
  \A s \in Slots :
    (acOn /\ stage[s] = "joined" /\ ~IsPlayerNPC(s) /\ ~HasAC(s))
      => kicks[s][who[s]] > 0

\* While the main checks are on, nobody plays on after the answer to their
\* own lookup recorded them as banned: the kick timer is running.
BannedIsBeingKicked ==
  \A s \in Slots :
    (/\ acOn /\ stage[s] = "joined"
     /\ HasAC(s) /\ ac[s].ban = "banned" /\ ac[s].about = who[s])
      => kicks[s][who[s]] > 0

\* An object found under somebody else's player id was left there by a
\* connection that never joined: OnPlayerDisconnect removes all others.
InheritedOnlyFromTheNeverJoined ==
  \A s \in Slots :
    (HasAC(s) /\ ac[s].owner # who[s]) => ac[s].owner \notin played

\* What is under way or kept under a player id because of somebody: a kick
\* timer, a lookup, an answer that waits, the ban status of the object.
Concerns(s, p) ==
  \/ kicks[s][p] > 0
  \/ checks[s][p] > 0
  \/ \E i \in 1..Len(queue) : queue[i].slot = s /\ queue[i].about = p
  \/ HasAC(s) /\ ac[s].about = p

\* A kick timer, a lookup or an answer never runs behind a player who is
\* still there: as long as its subject is connected anywhere it finds them
\* under its own player id.  What reaches somebody else's object, or kicks
\* somebody else, comes after its subject has left for good.
MisdirectedOnlyAfterLeaving ==
  \A s \in Slots, p \in Players :
    Concerns(s, p) => /\ p \in seen
                      /\ \A t \in Slots : who[t] = p => t = s

\* The main checks change only on the command of an RCON admin or of a
\* connection that a script allowed to, never of one that was given the
\* player id of such a connection.
OnlyTheAllowedToggle ==
  [][acOn' # acOn =>
       \E s \in Slots : /\ stage[s] = "joined"
                        /\ who[s] \in RconAdmins \cup granted]_vars

\* The slot's occupant is told that the server will kick them.
BeingKicked(s) ==
  /\ IsPlayerConnected(s)
  /\ kicks[s][who[s]] > 0 \/ stage[s] = "leaving"

\* There is no way out of a kick that is due, but to be kicked or to leave:
\* not by a report that arrives late, not by an answer that clears the
\* player, not by turning the main checks off, and a timer that fires for
\* somebody else takes no timer away.
NoReprieve ==
  [][\A s \in Slots :
       BeingKicked(s) => BeingKicked(s)' \/ who'[s] # who[s]]_vars

\* A positive answer to the occupant's own lookup waits for their object.
FoundBanned(s, p) ==
  /\ who[s] = p /\ HasAC(s)
  /\ \E i \in 1..Len(queue) :
       queue[i] = [slot |-> s, about |-> p, ischeater |-> TRUE]

\* Such an answer stays in the queue, with an object to receive it, until it
\* has the player kicked; it is without effect only if the main checks are
\* off, or the player has left, when it is its turn.
FoundBannedIsKicked ==
  [][\A s \in Slots, p \in Players :
       FoundBanned(s, p) => \/ FoundBanned(s, p)'
                            \/ BeingKicked(s)'
                            \/ who'[s] # p
                            \/ ~acOn]_vars

----------------------------------------------------------------------------
(* What the safety properties rest on                                      *)

\* A connection holds one slot in its life, and joins at most once.
Occupancy ==
  /\ \A s \in Slots : stage[s] = "free" <=> who[s] = NoPlayer
  /\ \A s \in Slots : who[s] # NoPlayer => who[s] \in seen
  /\ \A s, t \in Slots : who[s] = who[t] => s = t \/ who[s] = NoPlayer
  /\ played \subseteq seen
  /\ \A s \in Slots : stage[s] = "attached" => who[s] \notin played
  /\ \A s \in Slots : IsPlayerConnected(s) => who[s] \in played

\* Only players who joined, and never a bot, are looked up; every answer and
\* every recorded status is about one of them.
LookedUp ==
  /\ \A s \in Slots, p \in Players : checks[s][p] > 0 => p \in played \ NPCs
  /\ \A i \in 1..Len(queue) : queue[i].about \in played \ NPCs
  /\ \A s \in Slots :
       HasAC(s) => ac[s].about \in (played \ NPCs) \cup {NoPlayer}

\* The entries of m_Admins under a player's id were made for that player.
RightsAreOwn ==
  \A s \in Slots : (IsPlayerConnected(s) /\ grants[s] > 0)
                    => who[s] \in granted

\* Objects are created for connections that were seen, in their slot.
Owners ==
  /\ \A s \in Slots : HasAC(s) => ac[s].owner \in seen
  /\ \A s, t \in Slots : (HasAC(s) /\ ac[s].owner = who[t]) => s = t

----------------------------------------------------------------------------
(* Liveness, under FairSpec                                                *)

\* Whoever plays without the client while the main checks are on leaves,
\* also when the checks are turned off or the client reports before the
\* timer fires.
UnprotectedLeaves ==
  \A s \in Slots, p \in Players \ NPCs :
    (acOn /\ stage[s] = "joined" /\ who[s] = p /\ ~HasAC(s))
      ~> (who[s] # p)

\* A positive answer about a player that still runs the client makes the
\* player leave, unless the main checks are turned off.
BannedLeaves ==
  \A s \in Slots, p \in Players :
    (acOn /\ FoundBanned(s, p)) ~> (who[s] # p \/ ~acOn)

----------------------------------------------------------------------------
(* What the sources say, and the code does not keep                        *)

\* Callback.h:35 describes KickPlayer as "Callback to kick a player on a
\* delay (So they will see the SendClientMessage's before they get kicked)":
\* who is kicked is who was told so when the timer was set.
KickHitsItsTarget ==
  [][\A s \in Slots, p \in Targets :
       (/\ kicks'[s][p] < kicks[s][p]
        /\ stage[s] = "joined" /\ stage'[s] = "leaving")
         => p = who[s]]_vars

=============================================================================
