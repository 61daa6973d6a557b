------------------------- MODULE ClientVerification -------------------------
(***************************************************************************)
(* VerifiedPacketChecker: the challenges that ask the client of one player *)
(* id, again and again, whether it is still loaded.  The slots share only  *)
(* the timer and are examined one by one, so one slot is modelled, with    *)
(* one player after the other in it.                                       *)
(*                                                                         *)
(* Time passes in ticks.  The timer is set once and keeps its rhythm:      *)
(* sampgdk starts the next period where the last one should have ended,    *)
(* but the callback runs at the first server tick after that, up to        *)
(* MaxLate later.  An answer may take any time; it counts only if it is    *)
(* the answer to the last challenge, whose bytes are in ToVerify.          *)
(***************************************************************************)
EXTENDS Integers

CONSTANTS
  Interval,   \* VERIFY_CLIENTS_INTERVAL
  Slack,      \* the 30 milliseconds that VerifyClients adds to it
  MaxLate,    \* how late the server tick may run a timer
  JoinWithin  \* m_MaxCreationTickDifference

ASSUME VerificationConstants ==
  /\ {Interval, Slack, MaxLate, JoinWithin} \subseteq Nat
  /\ MaxLate <= Slack
  /\ Slack + MaxLate < Interval

\* VerifyClients does not tell longer times from this one.
TooLong == Interval + Slack + 1

\* IsCreationTickValid does not tell longer times from this one.
TooOld == JoinWithin

VARIABLES
  stage,     \* the slot is "free", or its player "attached" or "joined"
  loaded,    \* the player's game has the client module loaded
  reported,  \* ON_INITIAL_INFO of this connection was received
  object,    \* CAntiCheatHandler::IsConnected
  sinceInit, \* getTickCount() - m_CreationTick, up to TooOld
  open,      \* the player has the last challenge and has not answered it
  age,       \* getTickCount() - LastTimeVerifiedClient, up to TooLong
  elapsed,   \* time since the timer's period began
  verified,  \* ghost: an answer of this connection was accepted
  runs,      \* ghost: runs that examined the player since the last answer
             \* that was accepted or warning
  skipped,   \* ghost: the last run met the player before it could examine it
  warned     \* ghost: the player was warned since it last answered

vars == <<stage, loaded, reported, object, sinceInit, open, age, elapsed,
          verified, runs, skipped, warned>>

slotVars  == <<stage, loaded, reported, object, sinceInit>>
ghostVars == <<verified, runs, skipped, warned>>

TypeOK ==
  /\ stage \in {"free", "attached", "joined"}
  /\ loaded \in BOOLEAN
  /\ reported \in BOOLEAN
  /\ object \in BOOLEAN
  /\ sinceInit \in 0..TooOld
  /\ open \in BOOLEAN
  /\ age \in 0..TooLong
  /\ elapsed \in 0..(Interval + MaxLate)
  /\ verified \in BOOLEAN
  /\ runs \in Nat
  /\ skipped \in BOOLEAN
  /\ warned \in BOOLEAN

\* ClientVerification is zeroed, but the tick count starts anywhere.
Init ==
  /\ stage = "free"
  /\ loaded = FALSE
  /\ reported = FALSE
  /\ object = FALSE
  /\ sinceInit = 0
  /\ open = FALSE
  /\ age \in 0..TooLong
  /\ elapsed = 0
  /\ verified = FALSE
  /\ runs = 0
  /\ skipped = FALSE
  /\ warned = FALSE

----------------------------------------------------------------------------
(* Connections                                                             *)

\* A player with or without the client gets the slot.  Nothing resets the
\* verification state of the slot.
Attach ==
  /\ stage = "free"
  /\ stage' = "attached"
  /\ loaded' \in BOOLEAN
  /\ reported' = FALSE
  /\ open' = FALSE
  /\ verified' = FALSE
  /\ runs' = 0
  /\ skipped' = FALSE
  /\ warned' = FALSE
  /\ UNCHANGED <<object, sinceInit, age, elapsed>>

\* VerifyClient stores what the answer must be, in place of the last one.
VerifyClient == open' = TRUE

\* CAntiCheatHandler::Init, and SendVerificationPacket.
OnIntialInfoGotten ==
  /\ stage # "free"
  /\ loaded
  /\ ~reported
  /\ reported' = TRUE
  /\ object' = TRUE
  /\ sinceInit' = 0
  /\ VerifyClient
  /\ UNCHANGED <<stage, loaded, age, elapsed, ghostVars>>

\* OnPlayerConnect removes an object that is too old.
Join ==
  /\ stage = "attached"
  /\ stage' = "joined"
  /\ object' = (object /\ sinceInit < TooOld)
  /\ UNCHANGED <<loaded, reported, sinceInit, open, age, elapsed, ghostVars>>

\* Only the disconnection of a player that joined removes the object.
Leave ==
  /\ stage # "free"
  /\ stage' = "free"
  /\ loaded' = FALSE
  /\ open' = FALSE
  /\ object' = (object /\ stage = "attached")
  /\ UNCHANGED <<reported, sinceInit, age, elapsed, ghostVars>>

\* The client module goes away while the game stays connected.
Unload ==
  /\ loaded
  /\ loaded' = FALSE
  /\ warned' = FALSE
  /\ UNCHANGED <<stage, reported, object, sinceInit, open, age, elapsed,
                 verified, runs, skipped>>

----------------------------------------------------------------------------
(* Challenges                                                              *)

\* The bytes of the answer are those of ToVerify.  Answers to older
\* challenges differ from them and change nothing.
IsVerified == open

SetLastTimeVerifiedClient == age' = 0

OnClientVerified ==
  /\ loaded
  /\ IsVerified
  /\ open' = FALSE
  /\ SetLastTimeVerifiedClient
  /\ verified' = TRUE
  /\ runs' = 0
  /\ warned' = FALSE
  /\ UNCHANGED <<elapsed, skipped, slotVars>>

\* VerifyClients finds a player that has joined and has an object.
Examines == stage = "joined" /\ object

\* Mutant: without the slack.
OverdueAtOnce == Examines /\ age > Interval

\* It has not verified its client for too long.
Overdue == Examines /\ age > Interval + Slack

\* Mutant: returns before it calls anybody.
WarnNobody ==
  /\ Overdue
  /\ age' = 0
  /\ runs' = 0
  /\ skipped' = FALSE
  /\ UNCHANGED <<open, verified, warned>>

\* The first warning is the last one: it calls AC_OnVerificationFail and,
\* with the main checks on, has the player kicked.
WarnUnverifiedClient ==
  /\ Overdue
  /\ age' = 0
  /\ runs' = 0
  /\ skipped' = FALSE
  /\ warned' = TRUE
  /\ UNCHANGED <<open, verified>>

\* Mutant: takes the question for an answer.
ChallengeRefreshes ==
  /\ Examines
  /\ ~Overdue
  /\ VerifyClient
  /\ age' = 0
  /\ runs' = runs + 1
  /\ skipped' = FALSE
  /\ UNCHANGED <<verified, warned>>

Challenge ==
  /\ Examines
  /\ ~Overdue
  /\ VerifyClient
  /\ runs' = runs + 1
  /\ skipped' = FALSE
  /\ UNCHANGED <<age, verified, warned>>

\* Nobody to examine.
PassBy ==
  /\ ~Examines
  /\ skipped' = (skipped \/ (stage # "free"))
  /\ UNCHANGED <<open, age, verified, runs, warned>>

\* Mutant: counts the period twice.
RestartTwice == elapsed' = elapsed - 2 * Interval

\* A repeating timer: sampgdk begins the next period when this one should
\* have ended (GDK/sampgdk.c:3198).
RestartTimer == elapsed' = elapsed - Interval

VerifyClients ==
  /\ elapsed >= Interval
  /\ RestartTimer
  /\ WarnUnverifiedClient \/ Challenge \/ PassBy
  /\ UNCHANGED slotVars

\* One unit of time passes, unless the timer is as late as it may be.
Tick ==
  /\ elapsed < Interval + MaxLate
  /\ elapsed' = elapsed + 1
  /\ age' = IF age < TooLong THEN age + 1 ELSE age
  /\ sinceInit' = IF object /\ stage # "joined" /\ sinceInit < TooOld
                  THEN sinceInit + 1 ELSE sinceInit
  /\ UNCHANGED <<stage, loaded, reported, object, open, ghostVars>>

----------------------------------------------------------------------------
(* Specification                                                           *)

Next ==
  \/ Attach
  \/ OnIntialInfoGotten
  \/ Join
  \/ Leave
  \/ Unload
  \/ OnClientVerified
  \/ VerifyClients
  \/ Tick

Spec == Init /\ [][Next]_vars

\* Time passes, and the timer is served.
FairSpec == Spec /\ WF_vars(Tick) /\ WF_vars(VerifyClients)

----------------------------------------------------------------------------
(* Properties                                                              *)

\* The player is warned in this step.
Warns == VerifyClients /\ Overdue

\* Whoever does not answer is warned by the third run of the timer at the
\* latest: the first may only ask, and so may the second, when the last
\* answer came just before the first.
SilenceIsNoticed == runs <= 2

\* A client that has answered the last challenge is not warned, unless it
\* was not examined by the run before: that run met it between its initial
\* information and its join.
WarnedForACause == [][Warns => open \/ ~verified \/ skipped]_vars

\* A player that goes on without its client is warned, or leaves.
UnloadedIsWarned ==
  (stage = "joined" /\ object /\ ~loaded) ~> (stage = "free" \/ warned)

----------------------------------------------------------------------------
(* What the properties rest on                                             *)

\* Every run adds an Interval to the time since the last answer.
AgeGrowsWithRuns ==
  /\ runs >= 1 => age + MaxLate >= elapsed \/ age = TooLong
  /\ runs >= 2 => age + MaxLate >= elapsed + Interval \/ age = TooLong

\* Who has nothing left to answer has answered since the last run.
AnsweredSinceRun ==
  (stage # "free" /\ verified /\ ~open /\ ~skipped) => age <= elapsed

=============================================================================
