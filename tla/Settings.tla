------------------------------- MODULE Settings -------------------------------
(***************************************************************************)
(* The per-player settings: what the server remembers of a setting         *)
(* (CAntiCheat's member, from which the natives' getters tell), the        *)
(* packets under way, and what the client applies.  The settings do not    *)
(* influence each other: each has its member, its packet and its handler.  *)
(* A behaviour therefore follows one of them, chosen at the beginning,     *)
(* through the connections of one client under one player id.              *)
(***************************************************************************)
EXTENDS Integers, Sequences

CONSTANTS
  SprintLimits, \* the sprint limits of scripts and the configuration, unsigned
  NoAC,         \* no object under the player id
  MaxWire       \* bound: a script calls a native only if fewer packets are under way

Toggles == {"unlimitedSprint", "sprintOnAllSurfaces", "macroLimits",
            "switchReload", "vehicleBlips"}
AllSettings == Toggles \cup {"sprintLimit", "crouchBug", "frameLimit"}

(* The values a script passes and the configuration may hold: 65537 does   *)
(* not fit the 16 bits of a packet, 9999 switches the crouch bug and the   *)
(* frame limiter off.  Members, packets and the client hold a sprint limit *)
(* v as the float nearest to v / 10, which v stands for.  Natives refuse a *)
(* negative limit, the configuration does not.                             *)
Signed == SprintLimits \cup {-v : v \in SprintLimits}
Candidates(k) == IF k \in Toggles THEN {0, 1}
                 ELSE IF k = "sprintLimit" THEN Signed
                 ELSE {1, 9999, 65537}
Values == {0, 1, 9999, 65537} \cup Signed

(* Up to this size, different limits have different floats.                *)
MaxSprintLimit == 1048576

ASSUME SettingsConstants ==
  /\ SprintLimits \subseteq 0..MaxSprintLimit
  /\ NoAC \notin Values
  /\ MaxWire \in Nat \ {0}

VARIABLES
  setting,      \* the setting this behaviour is about
  config,       \* its default, as Callback.cpp's copy has it after OnGameModeInit
  stage,        \* "off", "attached" (RakNet has accepted) or "joined"
  infoDue,      \* the client's initial information is under way
  ac,           \* the object's member, or NoAC
  recent,       \* IsCreationTickValid of the object
  sent,         \* the setting was sent since the object was made (ghost)
  wire,         \* values on their way to the client
  client        \* what the client applies

vars == <<setting, config, stage, infoDue, ac, recent, sent, wire, client>>
-------------------------------------------------------------------------------
(* The game's own behaviour, with which the members of CAntiCheat and      *)
(* those of the client's Misc both begin.                                  *)
Initial == CASE setting \in {"macroLimits", "switchReload", "vehicleBlips"} -> 1
             [] setting \in {"crouchBug", "frameLimit"} -> 9999
             [] OTHER -> 0

(* Every translation unit has its own copy of the defaults of Callback.h,  *)
(* and OnGameModeInit sets those of Callback.cpp.                          *)
FrameLimitInHeader == 9999

(* What the packet keeps of a number: two settings travel in 16 bits.      *)
Written(v) == IF setting \in {"crouchBug", "frameLimit"} THEN v % 65536 ELSE v

BitsSent == CASE setting \in Toggles -> 1
              [] setting = "sprintLimit" -> 32
              [] OTHER -> 16
BitsRead == IF setting \in Toggles THEN 1 ELSE 32

(* Receive gives the handler a stream that is one byte longer than what    *)
(* follows the packet's first byte; the packet itself fills whole bytes.   *)
Fits == BitsRead <= 8 * ((BitsSent + 7) \div 8) + 8

Init ==
  /\ setting \in AllSettings
  /\ config \in Candidates(setting)
  /\ stage = "off" /\ infoDue = FALSE
  /\ ac = NoAC /\ recent = FALSE /\ sent = FALSE
  /\ wire = <<>> /\ client = Initial

(* PlayerSend always sends reliably and in order, whatever it is asked.    *)
PlayerSend(v) == wire' = Append(wire, Written(v)) /\ sent' = TRUE

\* Mutant: the object remembers a value without sending it.
ToggleUnsent(v) == ac' = Written(v) /\ sent' = TRUE /\ UNCHANGED wire

(* The Toggle... members send the value and remember it; ToggleCrouchBug   *)
(* takes an unsigned short.                                                *)
Toggle(v) == PlayerSend(v) /\ ac' = Written(v)

\* Mutant: the constructor forgets the member.
NewObjectUninitialized == ac' = 2

\* Mutant: one copy of the defaults, set by the configuration.
NewObjectFromConfig ==
  ac' = IF setting = "frameLimit" THEN config ELSE Initial

(* CAntiCheatHandler::Init makes a new object, and OnHardwareCalculated    *)
(* looks at its translation unit's default of the frame limit.             *)
NewObject ==
  ac' = IF setting = "frameLimit" /\ FrameLimitInHeader # 9999
        THEN FrameLimitInHeader ELSE Initial
-------------------------------------------------------------------------------
Attach ==
  /\ stage = "off"
  /\ stage' = "attached" /\ infoDue' = TRUE
  /\ UNCHANGED <<setting, config, ac, recent, sent, wire, client>>

OnIntialInfoGotten ==
  /\ infoDue /\ infoDue' = FALSE
  /\ NewObject /\ recent' = TRUE /\ sent' = FALSE
  /\ UNCHANGED <<setting, config, stage, wire, client>>

(* The defaults are sent to who has a recent object.                       *)
OnPlayerConnect ==
  /\ stage = "attached" /\ stage' = "joined"
  /\ \/ /\ ac # NoAC /\ recent
        /\ IF setting = "frameLimit"
           THEN UNCHANGED <<ac, sent, wire>>
           ELSE Toggle(config)
     \/ /\ ac = NoAC \/ ~recent
        /\ ac' = NoAC /\ sent' = FALSE /\ UNCHANGED wire
  /\ UNCHANGED <<setting, config, infoDue, recent, client>>

CreationTickExpires ==
  /\ recent /\ recent' = FALSE
  /\ UNCHANGED <<setting, config, stage, infoDue, ac, sent, wire, client>>

(* The natives of plugin.cpp.                                              *)
CallNative ==
  /\ stage = "joined" /\ ac # NoAC /\ Len(wire) < MaxWire
  /\ \E v \in Candidates(setting) :
       \/ setting \in Toggles \cup {"crouchBug"} /\ Toggle(v)
       \/ setting = "sprintLimit" /\ v >= 0 /\ Toggle(v)
       \/ setting = "frameLimit" /\ v # 0 /\ PlayerSend(v) /\ ac' = v
  /\ UNCHANGED <<setting, config, stage, infoDue, recent, client>>

(* The client's handler: if the read fails, nothing is applied.            *)
Receive ==
  /\ wire # <<>> /\ wire' = Tail(wire)
  /\ client' = IF Fits THEN Head(wire) ELSE client
  /\ UNCHANGED <<setting, config, stage, infoDue, ac, recent, sent>>

(* The end of a connection.  Only who has joined has OnPlayerDisconnect    *)
(* called; the client keeps what it applies.                               *)
OnPlayerDisconnect ==
  /\ stage # "off" /\ stage' = "off"
  /\ infoDue' = FALSE /\ wire' = <<>>
  /\ ac' = IF stage = "joined" THEN NoAC ELSE ac
  /\ sent' = FALSE
  /\ UNCHANGED <<setting, config, recent, client>>

(* The client plays elsewhere in between, where a script sets what it      *)
(* likes.                                                                  *)
PlayElsewhere ==
  /\ stage = "off" /\ Fits
  /\ \E v \in Candidates(setting) : client' = Written(v)
  /\ UNCHANGED <<setting, config, stage, infoDue, ac, recent, sent, wire>>

Next == \/ Attach \/ OnIntialInfoGotten \/ OnPlayerConnect
        \/ CreationTickExpires \/ CallNative \/ Receive
        \/ OnPlayerDisconnect \/ PlayElsewhere

Spec == Init /\ [][Next]_vars
-------------------------------------------------------------------------------
(* The state has its type: the settings, their values, and what is under   *)
(* way (CAntiCheat's members and the client's Misc).                       *)
TypeOK ==
  /\ setting \in AllSettings
  /\ config \in Candidates(setting)
  /\ stage \in {"off", "attached", "joined"}
  /\ infoDue \in BOOLEAN /\ recent \in BOOLEAN /\ sent \in BOOLEAN
  /\ ac \in Values \cup {NoAC}
  /\ wire \in Seq(Values)
  /\ client \in Values

(* A float has 24 significant bits: the one nearest to |v| / 10 is the     *)
(* integer nearest to |v| * 2^e / 10, divided by 2^e, for the e that gives *)
(* it 24 bits.  Is it below |v| / 10?                                      *)
RoundedDown(v) ==
  \E e \in 0..27 : LET n == 2^e * (IF v < 0 THEN -v ELSE v)
                   IN  n \div 10 \in 2^23..(2^24 - 1) /\ n % 10 \in 1..4

TowardsZero(v) == IF v < 0 THEN v + 1 ELSE v - 1

(* What the getter of a member may return.  For the sprint limit it        *)
(* multiplies by 10 and drops the fraction.  The Windows build rounds the  *)
(* product to a float, which gives the limit; the Linux build, without     *)
(* SSE, drops the fraction of the exact product.                           *)
Told(v) ==
  {v} \cup IF setting = "sprintLimit" /\ RoundedDown(v)
          THEN {TowardsZero(v)} ELSE {}

(* What the client applies once everything under way has arrived.          *)
Settled == IF wire = <<>> THEN client ELSE wire[Len(wire)]

(* The server remembers what the client ends up with, as long as the       *)
(* packet fits and something was sent since the object was made: no order  *)
(* of defaults, natives, joins and late packets of an earlier connection   *)
(* separates the two.  A getter tells a script just that, except that the  *)
(* sprint limit may be told as one nearer to 0.  An object made after the  *)
(* join was never told anything: there the getters are guesses.            *)
GettersTellTheTruth ==
  stage = "joined" /\ sent /\ Fits =>
    /\ ac = Settled
    /\ \A n \in Told(ac) :
         n = Settled \/ (setting = "sprintLimit" /\ n = TowardsZero(Settled))

(* OnHardwareCalculated never finds the configured frame limit, and the    *)
(* join does not send it: the server remembers another one than 9999 only  *)
(* after a script's call, and the client never applies any.                *)
FrameLimitComesFromScripts ==
  setting = "frameLimit" =>
    /\ ac \notin {NoAC, 9999} => sent
    /\ client = 9999

(* sampac.inc:81 "PURPOSE: Set a players frame limit." and sampac.inc:105  *)
(* of the crouch bug "the lower the number is, the slower you can crouch   *)
(* after shooting": what a script set, the client applies.                 *)
SettingIsApplied ==
  stage = "joined" /\ sent /\ wire = <<>> => client = ac
===============================================================================
