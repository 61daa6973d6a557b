------------------------------ MODULE FileScan ------------------------------
(***************************************************************************)
(* The scan of the players' game files: a repeating timer per player that  *)
(* asks the client for the checksum of one file of the list at a time.     *)
(*                                                                         *)
(* The timer's parameter is the player id, so it works for whatever object *)
(* the player table holds under that id when it fires.  An object knows    *)
(* the id of the timer it started.  Every action is a callback on the      *)
(* server's main thread.                                                   *)
(***************************************************************************)
EXTENDS Naturals, Sequences, Functions, TLC

CONSTANTS
  Slots,      \* player ids
  TimerIds,   \* the entries of sampgdk's table that scan timers may get
  NoTimer,    \* the timer id 0
  NoSlot,     \* the entry is not used by a scan timer
  NoAC,       \* the NULL CAntiCheat pointer
  Lists,      \* what m_FileNames may be; <<>> when a request failed
  MaxLength   \* bound: length of a list

ASSUME FileScanConstants ==
  /\ NoTimer \notin TimerIds
  /\ NoSlot \notin Slots
  /\ MaxLength \in Nat
  /\ \A l \in Lists : l \in Seq(Range(l)) /\ Len(l) <= MaxLength

VARIABLES
  stage,     \* each slot is "free", or its player "attached" or "joined"
  reported,  \* ON_INITIAL_INFO of this connection was received
  ac,        \* CAntiCheatHandler::players
  timers,    \* the slot each scan timer works for
  names      \* m_FileNames

vars == <<stage, reported, ac, timers, names>>

connVars == <<stage, reported>>

Files   == UNION {Range(l) : l \in Lists}
Indices == 0..MaxLength

\* cur is m_CheckGTAFilesCurFileId.  It is compared with the length of the
\* list, so that larger values need not be told apart.  told and swapped are
\* ghosts: the files asked for since the last CheckGTAFiles, and whether
\* m_FileNames was replaced since then.
Object == [fresh: BOOLEAN, timer: TimerIds \cup {NoTimer}, cur: Indices,
           told: SUBSET Files, swapped: BOOLEAN]

ASSUME NullIsNoScan == NoAC \notin Object

TypeOK ==
  /\ stage \in [Slots -> {"free", "attached", "joined"}]
  /\ reported \in [Slots -> BOOLEAN]
  /\ ac \in [Slots -> Object \cup {NoAC}]
  /\ timers \in [TimerIds -> Slots \cup {NoSlot}]
  /\ names \in Lists

\* Load calls UpdateCheatDatabase.
Init ==
  /\ stage = [s \in Slots |-> "free"]
  /\ reported = [s \in Slots |-> FALSE]
  /\ ac = [s \in Slots |-> NoAC]
  /\ timers = [t \in TimerIds |-> NoSlot]
  /\ names \in Lists

----------------------------------------------------------------------------
(* Helpers                                                                 *)

HasAC(s) == ac[s] # NoAC

Scanning(s) == HasAC(s) /\ ac[s].timer # NoTimer

\* KillTimer does nothing for an entry that is not in use
\* (GDK/sampgdk.c:3270).
KillTimer(t) == [u \in TimerIds |-> IF u = t THEN NoSlot ELSE timers[u]]

\* CAntiCheatHandler::Remove, with the destructor: it kills the timer that
\* the object started.
Remove(s) ==
  /\ ac' = [ac EXCEPT ![s] = NoAC]
  /\ timers' = KillTimer(ac[s].timer)

\* Mutant: keeps the id of the timer it kills.
CleanupKeepsId(s) ==
  /\ timers' = KillTimer(ac[s].timer)
  /\ UNCHANGED ac

Cleanup_CheckGTAFiles(s) ==
  /\ timers' = KillTimer(ac[s].timer)
  /\ ac' = [ac EXCEPT ![s].timer = NoTimer]

\* Mutant: starts where the object's memory says.
StartAnywhere(s) ==
  LET killed == KillTimer(ac[s].timer)
  IN  \E t \in TimerIds :
        /\ killed[t] = NoSlot
        /\ timers' = [killed EXCEPT ![t] = s]
        /\ ac' = [ac EXCEPT ![s].timer = t, ![s].told = {},
                            ![s].swapped = FALSE]

\* Which entry SetTimer takes depends on the other timers of the server.
CheckGTAFiles(s) ==
  LET killed == KillTimer(ac[s].timer)
  IN  \E t \in TimerIds :
        /\ killed[t] = NoSlot
        /\ timers' = [killed EXCEPT ![t] = s]
        /\ ac' = [ac EXCEPT ![s].timer = t, ![s].cur = 0,
                            ![s].told = {}, ![s].swapped = FALSE]

----------------------------------------------------------------------------
(* Connections                                                             *)

Attach(s) ==
  /\ stage[s] = "free"
  /\ stage' = [stage EXCEPT ![s] = "attached"]
  /\ UNCHANGED <<reported, ac, timers, names>>

\* The connection ends before the player joins: no callback is run.
Drop(s) ==
  /\ stage[s] = "attached"
  /\ stage' = [stage EXCEPT ![s] = "free"]
  /\ reported' = [reported EXCEPT ![s] = FALSE]
  /\ UNCHANGED <<ac, timers, names>>

\* CAntiCheatHandler::Init puts a new object in the place of the old one,
\* if there is one: it is not destroyed and its timer goes on.  The new
\* object's index is not initialized.
OnIntialInfoGotten(s) ==
  /\ stage[s] # "free"
  /\ ~reported[s]
  /\ reported' = [reported EXCEPT ![s] = TRUE]
  /\ \E cur \in Indices :
       ac' = [ac EXCEPT ![s] = [fresh |-> TRUE, timer |-> NoTimer,
                                cur |-> cur, told |-> {},
                                swapped |-> FALSE]]
  /\ UNCHANGED <<stage, timers, names>>

\* Two seconds pass.  Only OnPlayerConnect reads the creation tick.
CreationTickExpires(s) ==
  /\ stage[s] # "joined"
  /\ HasAC(s)
  /\ ac[s].fresh
  /\ ac' = [ac EXCEPT ![s].fresh = FALSE]
  /\ UNCHANGED <<connVars, timers, names>>

OnPlayerConnect(s) ==
  /\ stage[s] = "attached"
  /\ stage' = [stage EXCEPT ![s] = "joined"]
  /\ \/ /\ HasAC(s) /\ ac[s].fresh
        /\ CheckGTAFiles(s)
     \/ /\ HasAC(s) /\ ~ac[s].fresh
        /\ Remove(s)
     \/ /\ ~HasAC(s)
        /\ UNCHANGED <<ac, timers>>
  /\ UNCHANGED <<reported, names>>

OnPlayerDisconnect(s) ==
  /\ stage[s] = "joined"
  /\ stage' = [stage EXCEPT ![s] = "free"]
  /\ reported' = [reported EXCEPT ![s] = FALSE]
  /\ IF HasAC(s) THEN Remove(s) ELSE UNCHANGED <<ac, timers>>
  /\ UNCHANGED names

----------------------------------------------------------------------------
(* The scan                                                                *)

\* Mutant: asks for the same file again and again.
AskAgain(s) ==
  /\ ac' = [ac EXCEPT ![s].told = @ \cup {names[ac[s].cur + 1]}]
  /\ UNCHANGED timers

\* Mutant: leaves out every other file.
SkipOne(s) ==
  /\ ac' = [ac EXCEPT ![s].told = @ \cup {names[ac[s].cur + 1]},
                      ![s].cur = @ + 2]
  /\ UNCHANGED timers

\* PlayerSend, and the index of the next file.
AskNext(s) ==
  /\ ac' = [ac EXCEPT ![s].told = @ \cup {names[ac[s].cur + 1]},
                      ![s].cur = @ + 1]
  /\ UNCHANGED timers

\* The timer kills itself when the player is gone, and ends the scan of the
\* player's object, whoever started it, when no file is left.
Timer_CheckGTAFiles(t) ==
  /\ timers[t] # NoSlot
  /\ LET s == timers[t]
     IN  \/ /\ ~HasAC(s)
            /\ timers' = KillTimer(t)
            /\ UNCHANGED ac
         \/ /\ HasAC(s)
            /\ ac[s].cur >= Len(names)
            /\ Cleanup_CheckGTAFiles(s)
         \/ /\ HasAC(s)
            /\ ac[s].cur < Len(names)
            /\ AskNext(s)
  /\ UNCHANGED <<connVars, names>>

\* A callback posted by the work thread replaces the list, also while scans
\* are under way and also by an empty one.
OnCheatsUpdate ==
  /\ names' \in Lists \ {names}
  /\ ac' = [s \in Slots |-> IF Scanning(s)
                            THEN [ac[s] EXCEPT !.swapped = TRUE] ELSE ac[s]]
  /\ UNCHANGED <<connVars, timers>>

----------------------------------------------------------------------------
(* Specification                                                           *)

SlotStep(s) ==
  \/ Attach(s)
  \/ Drop(s)
  \/ OnIntialInfoGotten(s)
  \/ CreationTickExpires(s)
  \/ OnPlayerConnect(s)
  \/ OnPlayerDisconnect(s)

Next ==
  \/ OnCheatsUpdate
  \/ \E t \in TimerIds : Timer_CheckGTAFiles(t)
  \/ \E s \in Slots : SlotStep(s)

Spec == Init /\ [][Next]_vars

\* The server ticks, and sampgdk runs every timer that is due.
FairSpec == Spec /\ \A t \in TimerIds : WF_vars(Timer_CheckGTAFiles(t))

----------------------------------------------------------------------------
(* Properties                                                              *)

\* The timer an object has the id of is still its own, although ids are used
\* again and timers also end on their own: Cleanup_CheckGTAFiles and the
\* destructor never stop the scan of another player.
TimerIsOwn == \A s \in Slots : Scanning(s) => timers[ac[s].timer] = s

\* A scan that ends while its player stays has asked for every file of the
\* list, unless the list was replaced under it.  Timers left by other
\* objects may have moved the same index.
ScanIsComplete ==
  [][\A s \in Slots :
       (Scanning(s) /\ HasAC(s)' /\ ac'[s].timer = NoTimer /\ ~ac[s].swapped
          /\ reported'[s] = reported[s])
         => Range(names) \subseteq ac[s].told]_vars

\* Every scan ends, however often the list is replaced.
ScanEnds ==
  \A s \in Slots, t \in TimerIds :
    (HasAC(s) /\ ac[s].timer = t) ~> ~(HasAC(s) /\ ac[s].timer = t)

----------------------------------------------------------------------------
(* What the properties rest on                                             *)

\* What was asked for is what lies before the index.
ToldBeforeIndex ==
  \A s \in Slots :
    (Scanning(s) /\ ~ac[s].swapped)
      => /\ ac[s].cur <= Len(names)
         /\ ac[s].told = {names[i] : i \in 1..ac[s].cur}

=============================================================================
