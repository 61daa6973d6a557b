----------------------- MODULE AntiCheatServerProofs -----------------------
(* Proofs about AntiCheatServer, for every set of slots and connections.   *)
EXTENDS AntiCheatServer, TLAPS

\* The two ways a step is taken by a report of the client.
Reports(s) ==
  \/ OnMD5Calculated(s)
  \/ OnFileCalculated(s)
  \/ OnImgFileModified(s)
  \/ WarnUnverifiedClient(s)
  \/ OnTamperAttempt(s)
  \/ VersionIncompat(s)

\* A kick timer for the slots of S changes kicks within its type, and takes
\* no timer away.
LEMMA ArmKickLemma ==
  ASSUME TypeOK, NEW S \in SUBSET Slots, ArmKick(S)
  PROVE  /\ kicks' \in [Slots -> [Targets -> Nat]]
         /\ \A s \in Slots, p \in Targets : kicks'[s][p] >= kicks[s][p]
         /\ \A s \in S : kicks'[s][who[s]] > 0
<1>1. kicks' = [s \in Slots |-> [p \in Targets |->
                  IF s \in S /\ p = who[s] THEN kicks[s][p] + 1
                                           ELSE kicks[s][p]]]
  BY DEF ArmKick
<1>2. ASSUME NEW s \in Slots, NEW p \in Targets PROVE kicks[s][p] \in Nat
  BY <1>2 DEF TypeOK
<1>3. ASSUME NEW s \in Slots PROVE who[s] \in Targets
  BY <1>3 DEF TypeOK
<1> QED
  BY <1>1, <1>2, <1>3

\* A report leaves everything but the kick timers alone.
LEMMA ReportsLemma ==
  ASSUME TypeOK, NEW s \in Slots, Reports(s)
  PROVE  /\ UNCHANGED <<connVars, objVars, adminVars, banVars>>
         /\ kicks' \in [Slots -> [Targets -> Nat]]
         /\ \A t \in Slots, p \in Targets : kicks'[t][p] >= kicks[t][p]
<1>1. KickForReport(s)
  BY DEF Reports, OnMD5Calculated, OnFileCalculated, OnImgFileModified,
         WarnUnverifiedClient, OnTamperAttempt, VersionIncompat
<1>2. ArmKick({s}) /\ UNCHANGED <<connVars, objVars, adminVars, banVars>>
  BY <1>1 DEF KickForReport
<1>3. {s} \in SUBSET Slots
  OBVIOUS
<1> QED
  BY <1>2, <1>3, ArmKickLemma

\* A lookup adds to checks for the slot's occupant only.
LEMMA CheckCheaterLemma ==
  ASSUME TypeOK, NEW s \in Slots, CheckCheater(s)
  PROVE  /\ checks' \in [Slots -> [Players -> Nat]]
         /\ \A t \in Slots, p \in Players :
              checks'[t][p] > 0 => checks[t][p] > 0 \/ p = who[s]
<1> DEFINE f == [checks[s] EXCEPT ![who[s]] = checks[s][who[s]] + 1]
<1>1. checks' = [checks EXCEPT ![s] = f]
  BY DEF CheckCheater
<1>2. checks \in [Slots -> [Players -> Nat]] /\ checks[s] \in [Players -> Nat]
  BY DEF TypeOK
<1>3. /\ f \in [Players -> Nat]
      /\ \A p \in Players : p # who[s] => f[p] = checks[s][p]
  <2>1. CASE who[s] \in Players
    <3>1. checks[s][who[s]] + 1 \in Nat
      BY <1>2, <2>1
    <3> QED
      BY <3>1, <1>2
  <2>2. CASE who[s] \notin Players
    BY <1>2, <2>2
  <2> QED
    BY <2>1, <2>2
<1> HIDE DEF f
<1> QED
  BY <1>1, <1>2, <1>3

\* The initial information puts a new object into the sender's slot.
LEMMA InfoLemma ==
  ASSUME TypeOK, NEW s \in Slots, OnIntialInfoGotten(s)
  PROVE  /\ who[s] \in Players
         /\ NewObject(who[s]) \in Object
         /\ NewObject(who[s]) # NoAC
         /\ ac' = [ac EXCEPT ![s] = NewObject(who[s])]
         /\ kicks' \in [Slots -> [Targets -> Nat]]
         /\ \A t \in Slots, p \in Targets : kicks'[t][p] >= kicks[t][p]
<1>1. who[s] \in Players
  BY ServerConstants DEF OnIntialInfoGotten
<1>2. NewObject(who[s]) \in Object
  BY <1>1 DEF NewObject, Object, BanStatus, Targets
<1>3. kicks \in [Slots -> [Targets -> Nat]] /\ {s} \in SUBSET Slots
  BY DEF TypeOK
<1>4. /\ kicks' \in [Slots -> [Targets -> Nat]]
      /\ \A t \in Slots, p \in Targets : kicks'[t][p] >= kicks[t][p]
  <2>1. CASE ArmKick({s})
    BY <1>3, <2>1, ArmKickLemma
  <2>2. CASE kicks' = kicks
    BY <1>3, <2>2
  <2> QED
    BY <2>1, <2>2 DEF OnIntialInfoGotten
<1> QED
  BY <1>1, <1>2, <1>4, NullIsNoObject DEF OnIntialInfoGotten

\* An answer changes the ban status of one object, and arms kick timers.
LEMMA AnswerLemma ==
  ASSUME TypeOK, OnCheaterCheckResponse
  PROVE  /\ UNCHANGED <<connVars, reported, adminVars, checks>>
         /\ Head(queue) \in Answer
         /\ queue' = Tail(queue)
         /\ queue' \in Seq(Answer)
         /\ ac' \in [Slots -> Object \cup {NoAC}]
         /\ \A s \in Slots : ac'[s] = NoAC <=> ac[s] = NoAC
         /\ \A s \in Slots : ac[s] # NoAC => ac'[s].owner = ac[s].owner
         /\ \A s \in Slots :
              \/ ac'[s] = ac[s]
              \/ /\ s = Head(queue).slot
                 /\ ac'[s] # NoAC
                 /\ ac'[s].about = Head(queue).about
                 /\ ac'[s].ban = "banned" <=> Head(queue).ischeater
                 /\ Head(queue).ischeater /\ acOn => kicks'[s][who[s]] > 0
         /\ kicks' \in [Slots -> [Targets -> Nat]]
         /\ \A s \in Slots, p \in Targets : kicks'[s][p] >= kicks[s][p]
<1> DEFINE a == Head(queue)
<1>1. /\ queue # <<>>
      /\ queue' = Tail(queue)
      /\ IF HasAC(a.slot) THEN OnBanChecked(a) ELSE UNCHANGED <<ac, kicks>>
      /\ UNCHANGED <<connVars, reported, adminVars, checks>>
  BY DEF OnCheaterCheckResponse, connVars, adminVars
<1>2. /\ queue \in Seq(Answer)
      /\ ac \in [Slots -> Object \cup {NoAC}]
      /\ kicks \in [Slots -> [Targets -> Nat]]
  BY DEF TypeOK
<1>3. a \in Answer /\ Tail(queue) \in Seq(Answer)
  BY <1>1, <1>2
<1>4. a.slot \in Slots /\ a.about \in Players /\ a.ischeater \in BOOLEAN
  BY <1>3 DEF Answer
<1>5. CASE ~HasAC(a.slot)
  BY <1>1, <1>2, <1>3, <1>5
<1>6. CASE HasAC(a.slot)
  <2>1. /\ ac' = [ac EXCEPT ![a.slot].ban = IF a.ischeater THEN "banned"
                                                          ELSE "clear",
                            ![a.slot].about = a.about]
        /\ IF a.ischeater /\ acOn THEN ArmKick({a.slot}) ELSE UNCHANGED kicks
    BY <1>1, <1>6 DEF OnBanChecked
  <2>2. ac[a.slot] \in Object
    BY <1>2, <1>4, <1>6 DEF HasAC
  <2> DEFINE o == [ac[a.slot] EXCEPT !.ban = IF a.ischeater THEN "banned"
                                                          ELSE "clear",
                                     !.about = a.about]
  <2>3. ac' = [ac EXCEPT ![a.slot] = o]
    BY <2>1, <1>2, <1>4
  <2>4. o \in Object /\ o.owner = ac[a.slot].owner /\ o.about = a.about
    BY <2>2, <1>4 DEF Object, BanStatus, Targets
  <2>5. o.ban = "banned" <=> a.ischeater
    BY <2>2, <1>4 DEF Object
  <2>6. o # NoAC
    BY <2>4, NullIsNoObject
  <2>7. /\ kicks' \in [Slots -> [Targets -> Nat]]
        /\ \A s \in Slots, p \in Targets : kicks'[s][p] >= kicks[s][p]
        /\ a.ischeater /\ acOn => kicks'[a.slot][who[a.slot]] > 0
    <3>1. CASE a.ischeater /\ acOn
      <4>1. {a.slot} \in SUBSET Slots
        BY <1>4
      <4> QED
        BY <2>1, <3>1, <4>1, ArmKickLemma
    <3>2. CASE ~(a.ischeater /\ acOn)
      BY <2>1, <3>2, <1>2
    <3> QED
      BY <3>1, <3>2
  <2>8. ac[a.slot] # NoAC
    BY <1>6 DEF HasAC
  <2> HIDE DEF o, a
  <2>9. ac' \in [Slots -> Object \cup {NoAC}]
    BY <2>3, <2>4, <1>2, <1>4
  <2>10. /\ ac'[a.slot] = o
         /\ \A s \in Slots : s # a.slot => ac'[s] = ac[s]
    BY <2>3, <1>2, <1>4
  <2>11. \A s \in Slots : ac'[s] = NoAC <=> ac[s] = NoAC
    BY <2>10, <2>6, <2>8
  <2>12. \A s \in Slots : ac[s] # NoAC => ac'[s].owner = ac[s].owner
    BY <2>10, <2>4
  <2>13. \A s \in Slots :
              \/ ac'[s] = ac[s]
              \/ /\ s = a.slot
                 /\ ac'[s] # NoAC
                 /\ ac'[s].about = a.about
                 /\ ac'[s].ban = "banned" <=> a.ischeater
                 /\ a.ischeater /\ acOn => kicks'[s][who[s]] > 0
    BY <2>10, <2>4, <2>5, <2>6, <2>7
  <2> QED
    BY <1>1, <1>3, <2>7, <2>9, <2>11, <2>12, <2>13 DEF a
<1> QED
  BY <1>5, <1>6

----------------------------------------------------------------------------
\* A step keeps every variable in its type.
LEMMA TypeStep ==
  ASSUME TypeOK, [Next]_vars
  PROVE  TypeOK'
<1> USE DEF connVars, objVars, adminVars, banVars
<1>1. CASE OnCheaterCheckResponse
  BY <1>1, AnswerLemma DEF TypeOK
<1>2. ASSUME NEW s \in Slots, SlotStep(s) PROVE TypeOK'
  <2>1. ASSUME NEW p \in Players, Attach(p, s) PROVE TypeOK'
    BY <2>1 DEF Attach, TypeOK, Targets, Stages
  <2>2. CASE Drop(s)
    BY <2>2 DEF Drop, TypeOK, Targets, Stages
  <2>3. CASE OnIntialInfoGotten(s)
    <3>1. ac' \in [Slots -> Object \cup {NoAC}]
      BY <2>3, InfoLemma DEF TypeOK
    <3>2. reported' \in SUBSET Players
      BY <2>3, InfoLemma DEF OnIntialInfoGotten, TypeOK
    <3> QED
      BY <2>3, <3>1, <3>2, InfoLemma DEF OnIntialInfoGotten, TypeOK
  <2>4. CASE CreationTickExpires(s)
    <3>1. [ac[s] EXCEPT !.fresh = FALSE] \in Object
      BY <2>4 DEF CreationTickExpires, HasAC, TypeOK, Object
    <3>2. ac' = [ac EXCEPT ![s] = [ac[s] EXCEPT !.fresh = FALSE]]
      BY <2>4 DEF CreationTickExpires
    <3> QED
      BY <2>4, <3>1, <3>2 DEF CreationTickExpires, TypeOK
  <2>5. CASE OnPlayerConnect(s)
    <3>1. who[s] \in Targets
      BY DEF TypeOK
    <3>2. kicks' \in [Slots -> [Targets -> Nat]]
      BY <2>5, ArmKickLemma, {s} \in SUBSET Slots
         DEF OnPlayerConnect, TypeOK
    <3>3. ac' \in [Slots -> Object \cup {NoAC}]
      BY <2>5 DEF OnPlayerConnect, TypeOK
    <3>4. checks' \in [Slots -> [Players -> Nat]]
      BY <2>5, CheckCheaterLemma DEF OnPlayerConnect, TypeOK
    <3>5. grants' \in [Slots -> Nat]
      BY <2>5 DEF OnPlayerConnect, ToggleCanEnableAC, TypeOK
    <3>6. played' \in SUBSET Targets
      BY <2>5 DEF OnPlayerConnect, TypeOK
    <3> QED
      BY <2>5, <3>2, <3>3, <3>4, <3>5, <3>6
         DEF OnPlayerConnect, TypeOK, Stages
  <2>6. CASE OnPlayerDisconnect(s)
    BY <2>6 DEF OnPlayerDisconnect, TypeOK, Targets, Stages
  <2>7. ASSUME NEW p \in Targets, KickPlayer(s, p) PROVE TypeOK'
    BY <2>7 DEF KickPlayer, TypeOK, Stages
  <2>8. CASE Reports(s)
    BY <2>8, ReportsLemma DEF TypeOK
  <2>9. ASSUME NEW toggle \in BOOLEAN, SetPlayerCanEnableAC(s, toggle)
        PROVE TypeOK'
    BY <2>9 DEF SetPlayerCanEnableAC, ToggleCanEnableAC, TypeOK
  <2>10. CASE OnPlayerCommandText(s)
    <3>1. NotRunningAC \in SUBSET Slots
      BY DEF NotRunningAC, ToCheck
    <3> QED
      BY <2>10, <3>1, ArmKickLemma DEF OnPlayerCommandText, TypeOK, Stages
  <2>11. ASSUME NEW p \in Players, LookupAnswered(s, p) PROVE TypeOK'
    BY <2>11 DEF LookupAnswered, TypeOK, Answer
  <2>12. CASE RecheckBan(s)
    BY <2>12, CheckCheaterLemma DEF RecheckBan, TypeOK
  <2> QED
    BY <1>2, <2>1, <2>2, <2>3, <2>4, <2>5, <2>6, <2>7, <2>8, <2>9, <2>10,
       <2>11, <2>12 DEF SlotStep, Reports
<1>3. CASE UNCHANGED vars
  BY <1>3 DEF vars, TypeOK
<1> QED
  BY <1>1, <1>2, <1>3 DEF Next

\* Type correctness: every state of the player table is of its type.
THEOREM TypeCorrect == Spec => []TypeOK
<1>1. Init => TypeOK
  BY ServerConstants DEF Init, TypeOK, Targets, Stages
<1>2. TypeOK /\ [Next]_vars => TypeOK'
  BY TypeStep
<1> QED
  BY <1>1, <1>2, PTL DEF Spec

----------------------------------------------------------------------------
\* Who holds a slot: the history of a connection is attach, join, leave.
THEOREM OccupancyCorrect == Spec => []Occupancy
<1>1. Init => Occupancy
  BY DEF Init, Occupancy, IsPlayerConnected
<1>2. TypeOK /\ Occupancy /\ [Next]_vars => Occupancy'
  <2> SUFFICES ASSUME TypeOK, Occupancy, [Next]_vars PROVE Occupancy'
    OBVIOUS
  <2>1. ASSUME UNCHANGED connVars PROVE Occupancy'
    BY <2>1 DEF connVars, Occupancy, IsPlayerConnected
  <2>2. CASE OnCheaterCheckResponse
    BY <2>1, <2>2, AnswerLemma
  <2>3. ASSUME NEW s \in Slots, SlotStep(s) PROVE Occupancy'
    <3> USE DEF TypeOK, Occupancy, IsPlayerConnected, Targets
    <3>1. ASSUME NEW p \in Players, Attach(p, s) PROVE Occupancy'
      BY <3>1, ServerConstants DEF Attach
    <3>2. CASE Drop(s)
      BY <3>2 DEF Drop
    <3>3. CASE OnIntialInfoGotten(s)
      BY <2>1, <3>3 DEF OnIntialInfoGotten
    <3>4. CASE CreationTickExpires(s)
      BY <2>1, <3>4 DEF CreationTickExpires
    <3>5. CASE OnPlayerConnect(s)
      BY <3>5 DEF OnPlayerConnect
    <3>6. CASE OnPlayerDisconnect(s)
      BY <3>6 DEF OnPlayerDisconnect
    <3>7. ASSUME NEW p \in Targets, KickPlayer(s, p) PROVE Occupancy'
      BY <3>7 DEF KickPlayer
    <3>8. CASE Reports(s)
      BY <2>1, <3>8, ReportsLemma
    <3>9. ASSUME NEW toggle \in BOOLEAN, SetPlayerCanEnableAC(s, toggle)
          PROVE Occupancy'
      BY <2>1, <3>9 DEF SetPlayerCanEnableAC
    <3>10. CASE OnPlayerCommandText(s)
      BY <3>10
         DEF OnPlayerCommandText, AC_IsBanned, ToCheck, IsPlayerNPC
    <3>11. ASSUME NEW p \in Players, LookupAnswered(s, p) PROVE Occupancy'
      BY <2>1, <3>11 DEF LookupAnswered
    <3>12. CASE RecheckBan(s)
      BY <2>1, <3>12 DEF RecheckBan
    <3> QED
      BY <2>3, <3>1, <3>2, <3>3, <3>4, <3>5, <3>6, <3>7, <3>8, <3>9, <3>10,
         <3>11, <3>12 DEF SlotStep, Reports
  <2>4. CASE UNCHANGED vars
    BY <2>1, <2>4 DEF vars, connVars
  <2> QED
    BY <2>2, <2>3, <2>4 DEF Next
<1> QED
  BY <1>1, <1>2, TypeCorrect, PTL DEF Spec

----------------------------------------------------------------------------
\* While the main checks are on, whoever plays without the client has a kick
\* timer of their own running.
THEOREM UnprotectedKicked == Spec => []UnprotectedIsBeingKicked
<1>1. Init => UnprotectedIsBeingKicked
  BY DEF Init, UnprotectedIsBeingKicked
<1>2. TypeOK /\ UnprotectedIsBeingKicked /\ [Next]_vars
        => UnprotectedIsBeingKicked'
  <2> SUFFICES ASSUME TypeOK, UnprotectedIsBeingKicked, [Next]_vars
               PROVE  UnprotectedIsBeingKicked'
    OBVIOUS
  <2> DEFINE NoLoss ==
        \A t \in Slots, p \in Targets : kicks'[t][p] >= kicks[t][p]
  <2>0. kicks' \in [Slots -> [Targets -> Nat]] /\ who \in [Slots -> Targets]
        /\ kicks \in [Slots -> [Targets -> Nat]]
    <3>1. TypeOK'
      BY TypeStep
    <3> QED
      BY <3>1 DEF TypeOK
  <2>1. ASSUME NoLoss, who' = who, stage' = stage, acOn' = acOn,
               \A t \in Slots : ac'[t] = NoAC => ac[t] = NoAC
        PROVE  UnprotectedIsBeingKicked'
    <3> SUFFICES ASSUME NEW t \in Slots, acOn, stage[t] = "joined",
                        who[t] \notin NPCs, ac[t] = NoAC
                 PROVE  kicks'[t][who[t]] > 0
      BY <2>1 DEF UnprotectedIsBeingKicked, IsPlayerNPC, HasAC
    <3>1. kicks[t][who[t]] > 0
      BY DEF UnprotectedIsBeingKicked, IsPlayerNPC, HasAC
    <3> QED
      BY <3>1, <2>0, <2>1
  <2>2. CASE OnCheaterCheckResponse
    BY <2>1, <2>2, AnswerLemma DEF connVars, adminVars
  <2>3. ASSUME NEW s \in Slots, SlotStep(s)
        PROVE UnprotectedIsBeingKicked'
    <3> USE DEF UnprotectedIsBeingKicked, IsPlayerConnected, IsPlayerNPC,
                HasAC, connVars, objVars, adminVars, banVars
    <3>1. ASSUME NEW p \in Players, Attach(p, s)
          PROVE UnprotectedIsBeingKicked'
      BY <3>1 DEF Attach, TypeOK
    <3>2. CASE Drop(s)
      BY <3>2 DEF Drop, TypeOK
    <3>3. CASE OnIntialInfoGotten(s)
      <4>1. \A t \in Slots : ac'[t] = NoAC => ac[t] = NoAC
        BY <3>3, InfoLemma DEF TypeOK
      <4>2. NoLoss
        BY <3>3, InfoLemma
      <4> QED
        BY <3>3, <4>1, <4>2, <2>1 DEF OnIntialInfoGotten
    <3>4. CASE CreationTickExpires(s)
      <4>1. [ac[s] EXCEPT !.fresh = FALSE] \in Object
        BY <3>4 DEF CreationTickExpires, TypeOK, Object
      <4>2. ac' = [ac EXCEPT ![s] = [ac[s] EXCEPT !.fresh = FALSE]]
        BY <3>4 DEF CreationTickExpires
      <4>3. \A t \in Slots : ac'[t] = NoAC => ac[t] = NoAC
        BY <4>1, <4>2, NullIsNoObject DEF TypeOK
      <4>4. NoLoss
        BY <3>4, <2>0 DEF CreationTickExpires
      <4> QED
        BY <3>4, <4>3, <4>4, <2>1 DEF CreationTickExpires
    <3>5. CASE OnPlayerConnect(s)
      <4>1. \A t \in Slots \ {s} : ac'[t] = ac[t] /\ stage'[t] = stage[t]
        BY <3>5 DEF OnPlayerConnect, TypeOK
      <4>2. \A t \in Slots, p \in Targets : kicks'[t][p] >= kicks[t][p]
        BY <3>5, <2>0, ArmKickLemma, {s} \in SUBSET Slots DEF OnPlayerConnect
      <4>3. acOn /\ who[s] \notin NPCs /\ ac'[s] = NoAC
              => kicks'[s][who[s]] > 0
        BY <3>5, ArmKickLemma, {s} \in SUBSET Slots
           DEF OnPlayerConnect, TypeOK
      <4>4. acOn' = acOn /\ who' = who
        BY <3>5 DEF OnPlayerConnect
      <4> QED
        BY <4>1, <4>2, <4>3, <4>4, <2>0
    <3>6. CASE OnPlayerDisconnect(s)
      BY <3>6 DEF OnPlayerDisconnect, TypeOK
    <3>7. ASSUME NEW p \in Targets, KickPlayer(s, p)
          PROVE UnprotectedIsBeingKicked'
      <4>1. \A t \in Slots \ {s} : kicks'[t] = kicks[t]
        BY <3>7 DEF KickPlayer, TypeOK
      <4>2. stage'[s] # "joined"
        BY <3>7 DEF KickPlayer, TypeOK
      <4>3. \A t \in Slots \ {s} : stage'[t] = stage[t]
        BY <3>7 DEF KickPlayer, TypeOK
      <4> QED
        BY <3>7, <4>1, <4>2, <4>3 DEF KickPlayer
    <3>8. CASE Reports(s)
      BY <2>1, <3>8, ReportsLemma
    <3>9. ASSUME NEW toggle \in BOOLEAN, SetPlayerCanEnableAC(s, toggle)
          PROVE UnprotectedIsBeingKicked'
      BY <3>9 DEF SetPlayerCanEnableAC
    <3>10. CASE OnPlayerCommandText(s)
      <4>1. CASE acOn
        BY <3>10, <4>1 DEF OnPlayerCommandText
      <4>2. CASE ~acOn
        <5>1. \A t \in NotRunningAC : kicks'[t][who[t]] > 0
          BY <3>10, <4>2, ArmKickLemma, NotRunningAC \in SUBSET Slots
             DEF OnPlayerCommandText, NotRunningAC, ToCheck
        <5>2. \A t \in Slots : stage'[t] = "joined" => stage[t] = "joined"
          BY <3>10, <4>2 DEF OnPlayerCommandText
        <5>3. who' = who /\ ac' = ac
          BY <3>10 DEF OnPlayerCommandText
        <5> QED
          BY <5>1, <5>2, <5>3 DEF NotRunningAC, ToCheck
      <4> QED
        BY <4>1, <4>2, <3>10 DEF TypeOK
    <3>11. ASSUME NEW p \in Players, LookupAnswered(s, p)
           PROVE UnprotectedIsBeingKicked'
      BY <3>11 DEF LookupAnswered
    <3>12. CASE RecheckBan(s)
      BY <3>12 DEF RecheckBan
    <3> QED
      BY <2>3, <3>1, <3>2, <3>3, <3>4, <3>5, <3>6, <3>7, <3>8, <3>9, <3>10,
         <3>11, <3>12 DEF SlotStep, Reports
  <2>4. CASE UNCHANGED vars
    BY <2>4 DEF vars, UnprotectedIsBeingKicked, IsPlayerNPC, HasAC
  <2> QED
    BY <2>2, <2>3, <2>4 DEF Next
<1> QED
  BY <1>1, <1>2, TypeCorrect, PTL DEF Spec

----------------------------------------------------------------------------
\* Whoever may use /actoggle under a player id was given the right
\* themselves: OnPlayerConnect erases what the last holder left.
THEOREM RightsCorrect == Spec => []RightsAreOwn
<1>1. Init => RightsAreOwn
  BY DEF Init, RightsAreOwn, IsPlayerConnected
<1>2. TypeOK /\ Occupancy /\ RightsAreOwn /\ [Next]_vars => RightsAreOwn'
  <2> SUFFICES ASSUME TypeOK, Occupancy, RightsAreOwn, [Next]_vars
               PROVE  RightsAreOwn'
    OBVIOUS
  <2>1. ASSUME who' = who, stage' = stage, grants' = grants,
               granted' = granted
        PROVE  RightsAreOwn'
    BY <2>1 DEF RightsAreOwn, IsPlayerConnected
  <2>2. CASE OnCheaterCheckResponse
    BY <2>1, <2>2, AnswerLemma DEF connVars, adminVars
  <2>3. ASSUME NEW s \in Slots, SlotStep(s) PROVE RightsAreOwn'
    <3> USE DEF TypeOK, RightsAreOwn, IsPlayerConnected, connVars, objVars,
                adminVars, banVars
    <3>1. ASSUME NEW p \in Players, Attach(p, s) PROVE RightsAreOwn'
      BY <3>1 DEF Attach
    <3>2. CASE Drop(s)
      BY <3>2 DEF Drop
    <3>3. CASE OnIntialInfoGotten(s)
      BY <2>1, <3>3 DEF OnIntialInfoGotten
    <3>4. CASE CreationTickExpires(s)
      BY <2>1, <3>4 DEF CreationTickExpires
    <3>5. CASE OnPlayerConnect(s)
      BY <3>5 DEF OnPlayerConnect, ToggleCanEnableAC
    <3>6. CASE OnPlayerDisconnect(s)
      BY <3>6 DEF OnPlayerDisconnect
    <3>7. ASSUME NEW p \in Targets, KickPlayer(s, p) PROVE RightsAreOwn'
      BY <3>7 DEF KickPlayer
    <3>8. CASE Reports(s)
      BY <2>1, <3>8, ReportsLemma
    <3>9. ASSUME NEW toggle \in BOOLEAN, SetPlayerCanEnableAC(s, toggle)
          PROVE RightsAreOwn'
      <4>1. \A t \in Slots \ {s} : grants'[t] = grants[t]
        BY <3>9 DEF SetPlayerCanEnableAC, ToggleCanEnableAC
      <4>2. \A t \in Slots \ {s} :
              IsPlayerConnected(t) => who[t] # who[s]
        BY DEF Occupancy
      <4>3. grants'[s] > 0 => toggle
        BY <3>9 DEF SetPlayerCanEnableAC, ToggleCanEnableAC
      <4> QED
        BY <3>9, <4>1, <4>2, <4>3 DEF SetPlayerCanEnableAC
    <3>10. CASE OnPlayerCommandText(s)
      BY <3>10
         DEF OnPlayerCommandText, AC_IsBanned, ToCheck, IsPlayerNPC
    <3>11. ASSUME NEW p \in Players, LookupAnswered(s, p)
           PROVE RightsAreOwn'
      BY <2>1, <3>11 DEF LookupAnswered
    <3>12. CASE RecheckBan(s)
      BY <2>1, <3>12 DEF RecheckBan
    <3> QED
      BY <2>3, <3>1, <3>2, <3>3, <3>4, <3>5, <3>6, <3>7, <3>8, <3>9, <3>10,
         <3>11, <3>12 DEF SlotStep, Reports
  <2>4. CASE UNCHANGED vars
    BY <2>1, <2>4 DEF vars
  <2> QED
    BY <2>2, <2>3, <2>4 DEF Next
<1> QED
  BY <1>1, <1>2, TypeCorrect, OccupancyCorrect, PTL DEF Spec

\* The main checks change on the command of somebody allowed to, and of
\* nobody who was only given the player id of such a player.
THEOREM TogglesAllowed == Spec => OnlyTheAllowedToggle
<1> DEFINE Toggled == acOn' # acOn =>
                        \E s \in Slots : /\ stage[s] = "joined"
                                         /\ who[s] \in RconAdmins \cup granted
<1>1. TypeOK /\ RightsAreOwn /\ [Next]_vars => [Toggled]_vars
  <2> SUFFICES ASSUME TypeOK, RightsAreOwn, Next, acOn' # acOn
               PROVE  \E s \in Slots : /\ stage[s] = "joined"
                                       /\ who[s] \in RconAdmins \cup granted
    OBVIOUS
  <2>1. ~OnCheaterCheckResponse
    BY AnswerLemma DEF adminVars
  <2>2. PICK s \in Slots : SlotStep(s)
    BY <2>1 DEF Next
  <2>3. ~Reports(s)
    BY ReportsLemma DEF adminVars
  <2>4. OnPlayerCommandText(s)
    BY <2>2, <2>3
       DEF SlotStep, Reports, Attach, Drop, OnIntialInfoGotten,
           CreationTickExpires, OnPlayerConnect, OnPlayerDisconnect,
           KickPlayer, SetPlayerCanEnableAC, LookupAnswered, RecheckBan,
           adminVars
  <2> QED
    BY <2>4
       DEF OnPlayerCommandText, CanEnableAC, RightsAreOwn, IsPlayerConnected
<1> QED
  BY <1>1, TypeCorrect, RightsCorrect, PTL DEF Spec, OnlyTheAllowedToggle

----------------------------------------------------------------------------
\* Lookups, answers and recorded statuses are about players who joined and
\* are no bots.
THEOREM LookupsCorrect == Spec => []LookedUp
<1>1. Init => LookedUp
  BY DEF Init, LookedUp, HasAC
<1>2. TypeOK /\ Occupancy /\ LookedUp /\ [Next]_vars => LookedUp'
  <2> SUFFICES ASSUME TypeOK, Occupancy, LookedUp, [Next]_vars
               PROVE  LookedUp'
    OBVIOUS
  <2> DEFINE AboutKept ==
        \A t \in Slots : \/ ac'[t] = ac[t]
                        \/ ac'[t] = NoAC
                        \/ ac'[t].about = NoPlayer
                        \/ (HasAC(t) /\ ac'[t].about = ac[t].about)
  <2>1. ASSUME played \subseteq played', checks' = checks, queue' = queue,
               AboutKept
        PROVE  LookedUp'
    BY <2>1 DEF LookedUp, HasAC
  <2>2. CASE OnCheaterCheckResponse
    <3> DEFINE Good == (played \ NPCs) \cup {NoPlayer}
    <3>1. queue # <<>> /\ queue \in Seq(Answer)
      BY <2>2 DEF OnCheaterCheckResponse, TypeOK
    <3>2. Head(queue) = queue[1] /\ 1 \in 1..Len(queue)
      BY <3>1
    <3>3. Head(queue).about \in played \ NPCs
      BY <3>2 DEF LookedUp
    <3>4. queue' = Tail(queue)
      BY <2>2, AnswerLemma
    <3>5. \A i \in 1..Len(queue') : queue'[i].about \in played \ NPCs
      <4>1. \A i \in 1..Len(Tail(queue)) :
              /\ i + 1 \in 1..Len(queue)
              /\ Tail(queue)[i] = queue[i + 1]
        BY <3>1
      <4> QED
        BY <3>4, <4>1 DEF LookedUp
    <3>6. played' = played /\ checks' = checks
      BY <2>2, AnswerLemma DEF connVars
    <3>7. \A t \in Slots : ac'[t] # NoAC => ac'[t].about \in Good
      BY <3>3, <2>2, AnswerLemma DEF LookedUp, HasAC
    <3> QED
      BY <3>5, <3>6, <3>7 DEF LookedUp, HasAC
  <2>3. ASSUME NEW s \in Slots, SlotStep(s) PROVE LookedUp'
    <3> USE DEF connVars, objVars, adminVars, banVars
    <3>1. ASSUME NEW p \in Players, Attach(p, s) PROVE LookedUp'
      BY <2>1, <3>1 DEF Attach
    <3>2. CASE Drop(s)
      BY <2>1, <3>2 DEF Drop
    <3>3. CASE OnIntialInfoGotten(s)
      <4>1. NewObject(who[s]).about = NoPlayer
        BY DEF NewObject
      <4>3. \A t \in Slots : ac'[t] = ac[t] \/ ac'[t] = NewObject(who[s])
        BY <3>3 DEF OnIntialInfoGotten, TypeOK
      <4>2. AboutKept
        BY <4>1, <4>3 DEF HasAC
      <4> QED
        BY <2>1, <3>3, <4>2 DEF OnIntialInfoGotten
    <3>4. CASE CreationTickExpires(s)
      <4>1. ac' = [ac EXCEPT ![s] = [ac[s] EXCEPT !.fresh = FALSE]]
        BY <3>4 DEF CreationTickExpires
      <4>2. [ac[s] EXCEPT !.fresh = FALSE].about = ac[s].about
        BY <3>4 DEF CreationTickExpires, HasAC, TypeOK, Object
      <4>3. \A t \in Slots : \/ ac'[t] = ac[t]
                             \/ (HasAC(t) /\ ac'[t].about = ac[t].about)
        BY <3>4, <4>1, <4>2 DEF CreationTickExpires, TypeOK
      <4> QED
        BY <2>1, <3>4, <4>3 DEF CreationTickExpires
    <3>5. CASE OnPlayerConnect(s)
      <4>1. /\ played' = played \cup {who[s]}
            /\ queue' = queue
            /\ \A t \in Slots : ac'[t] = ac[t] \/ ac'[t] = NoAC
        BY <3>5 DEF OnPlayerConnect, TypeOK
      <4>4. AboutKept
        BY <4>1 DEF HasAC
      <4>2. CASE checks' = checks
        <5>1. played \subseteq played'
          BY <4>1
        <5> QED
          BY <2>1, <4>1, <4>2, <4>4, <5>1
      <4>3. CASE ~IsPlayerNPC(s) /\ CheckCheater(s)
        <5>1. \A t \in Slots, p \in Players :
                checks'[t][p] > 0 => checks[t][p] > 0 \/ p = who[s]
          BY <4>3, CheckCheaterLemma
        <5>2. who[s] \in played' \ NPCs /\ played \subseteq played'
          BY <4>1, <4>3 DEF IsPlayerNPC
        <5> QED
          BY <4>1, <5>1, <5>2 DEF LookedUp, HasAC
      <4> QED
        BY <3>5, <4>2, <4>3 DEF OnPlayerConnect
    <3>6. CASE OnPlayerDisconnect(s)
      <4>1. \A t \in Slots : ac'[t] = ac[t] \/ ac'[t] = NoAC
        BY <3>6 DEF OnPlayerDisconnect, TypeOK
      <4>2. AboutKept
        BY <4>1 DEF HasAC
      <4> QED
        BY <2>1, <3>6, <4>2 DEF OnPlayerDisconnect
    <3>7. ASSUME NEW p \in Targets, KickPlayer(s, p) PROVE LookedUp'
      BY <2>1, <3>7 DEF KickPlayer
    <3>8. CASE Reports(s)
      BY <2>1, <3>8, ReportsLemma
    <3>9. ASSUME NEW toggle \in BOOLEAN, SetPlayerCanEnableAC(s, toggle)
          PROVE LookedUp'
      BY <2>1, <3>9 DEF SetPlayerCanEnableAC
    <3>10. CASE OnPlayerCommandText(s)
      BY <2>1, <3>10 DEF OnPlayerCommandText
    <3>11. ASSUME NEW p \in Players, LookupAnswered(s, p) PROVE LookedUp'
      <4>1. p \in played \ NPCs
        BY <3>11 DEF LookupAnswered, LookedUp
      <4>2. PICK a \in Answer : a.about = p /\ queue' = Append(queue, a)
        BY <3>11 DEF LookupAnswered, Answer
      <4>3. queue \in Seq(Answer)
        BY DEF TypeOK
      <4>4. \A i \in 1..Len(queue') :
              \/ i \in 1..Len(queue) /\ queue'[i] = queue[i]
              \/ queue'[i] = a
        BY <4>2, <4>3
      <4>5. \A t \in Slots, q \in Players :
              checks'[t][q] > 0 => checks[t][q] > 0
        BY <3>11 DEF LookupAnswered, TypeOK
      <4>6. played' = played /\ ac' = ac
        BY <3>11 DEF LookupAnswered
      <4> QED
        BY <4>1, <4>2, <4>4, <4>5, <4>6 DEF LookedUp, HasAC
    <3>12. CASE RecheckBan(s)
      <4>1. \A t \in Slots, p \in Players :
              checks'[t][p] > 0 => checks[t][p] > 0 \/ p = who[s]
        BY <3>12, CheckCheaterLemma DEF RecheckBan
      <4>2. who[s] \in played \ NPCs
        BY <3>12 DEF RecheckBan, Occupancy, IsPlayerNPC
      <4>3. played' = played /\ ac' = ac /\ queue' = queue
        BY <3>12 DEF RecheckBan
      <4> QED
        BY <4>1, <4>2, <4>3 DEF LookedUp, HasAC
    <3> QED
      BY <2>3, <3>1, <3>2, <3>3, <3>4, <3>5, <3>6, <3>7, <3>8, <3>9, <3>10,
         <3>11, <3>12 DEF SlotStep, Reports
  <2>4. CASE UNCHANGED vars
    BY <2>1, <2>4 DEF vars
  <2> QED
    BY <2>2, <2>3, <2>4 DEF Next
<1> QED
  BY <1>1, <1>2, TypeCorrect, OccupancyCorrect, PTL DEF Spec

----------------------------------------------------------------------------
\* While the main checks are on, a player recorded as banned by the answer
\* to their own lookup has a kick timer running.
THEOREM BannedKicked == Spec => []BannedIsBeingKicked
<1>1. Init => BannedIsBeingKicked
  BY DEF Init, BannedIsBeingKicked
<1>2. TypeOK /\ Occupancy /\ LookedUp /\ BannedIsBeingKicked /\ [Next]_vars
        => BannedIsBeingKicked'
  <2> SUFFICES ASSUME TypeOK, Occupancy, LookedUp, BannedIsBeingKicked,
                      [Next]_vars
               PROVE  BannedIsBeingKicked'
    OBVIOUS
  <2> DEFINE NoLoss(t) == kicks'[t][who[t]] >= kicks[t][who[t]]
  <2>0. /\ kicks' \in [Slots -> [Targets -> Nat]]
        /\ kicks \in [Slots -> [Targets -> Nat]]
        /\ who \in [Slots -> Targets]
    <3>1. TypeOK'
      BY TypeStep
    <3> QED
      BY <3>1 DEF TypeOK
  <2>1. ASSUME NEW t \in Slots, NoLoss(t), who'[t] = who[t],
               stage'[t] = "joined" => stage[t] = "joined",
               acOn' => acOn,
               ac'[t] = ac[t] \/ ac'[t] = NoAC \/ ac'[t].ban # "banned"
        PROVE  (/\ acOn' /\ stage'[t] = "joined" /\ ac'[t] # NoAC
                /\ ac'[t].ban = "banned" /\ ac'[t].about = who'[t])
                 => kicks'[t][who'[t]] > 0
    BY <2>0, <2>1 DEF BannedIsBeingKicked, HasAC
  <2> DEFINE Same == /\ \A t \in Slots : NoLoss(t)
                     /\ UNCHANGED <<who, stage, acOn>>
                     /\ \A t \in Slots : \/ ac'[t] = ac[t]
                                         \/ ac'[t] = NoAC
                                         \/ ac'[t].ban # "banned"
  <2>2. ASSUME Same PROVE BannedIsBeingKicked'
    BY <2>1, <2>2 DEF BannedIsBeingKicked, HasAC
  <2>3. CASE OnCheaterCheckResponse
    <3>1. UNCHANGED <<who, stage, acOn>>
      BY <2>3, AnswerLemma DEF connVars, adminVars
    <3>2. ASSUME NEW t \in Slots, acOn, stage[t] = "joined",
                 ac'[t] # NoAC, ac'[t].ban = "banned",
                 ac'[t].about = who[t]
          PROVE  kicks'[t][who[t]] > 0
      <4>1. CASE ac'[t] = ac[t]
        <5>1. kicks[t][who[t]] > 0
          BY <3>2, <4>1 DEF BannedIsBeingKicked, HasAC
        <5> QED
          BY <5>1, <2>0, <2>3, AnswerLemma
      <4>2. CASE ac'[t] # ac[t]
        BY <3>2, <4>2, <2>3, AnswerLemma
      <4> QED
        BY <4>1, <4>2
    <3> QED
      BY <3>1, <3>2 DEF BannedIsBeingKicked, HasAC
  <2>4. ASSUME NEW s \in Slots, SlotStep(s) PROVE BannedIsBeingKicked'
    <3> USE DEF connVars, objVars, adminVars, banVars
    <3>0. ASSUME kicks' = kicks PROVE \A t \in Slots : NoLoss(t)
      BY <2>0, <3>0
    <3>1. ASSUME NEW p \in Players, Attach(p, s)
          PROVE BannedIsBeingKicked'
      BY <3>1 DEF Attach, TypeOK, BannedIsBeingKicked, HasAC
    <3>2. CASE Drop(s)
      BY <3>2 DEF Drop, TypeOK, BannedIsBeingKicked, HasAC
    <3>3. CASE OnIntialInfoGotten(s)
      <4>1. NewObject(who[s]).ban # "banned"
        BY DEF NewObject
      <4>2. \A t \in Slots : ac'[t] = ac[t] \/ ac'[t].ban # "banned"
        BY <3>3, <4>1, InfoLemma DEF TypeOK
      <4>3. \A t \in Slots : NoLoss(t)
        BY <3>3, <2>0, InfoLemma
      <4> QED
        BY <2>2, <3>3, <4>2, <4>3 DEF OnIntialInfoGotten
    <3>4. CASE CreationTickExpires(s)
      <4>1. stage[s] # "joined" /\ UNCHANGED <<who, stage, acOn, kicks>>
        BY <3>4 DEF CreationTickExpires, IsPlayerConnected
      <4>2. \A t \in Slots \ {s} : ac'[t] = ac[t]
        BY <3>4 DEF CreationTickExpires, TypeOK
      <4> QED
        BY <4>1, <4>2 DEF BannedIsBeingKicked, HasAC
    <3>5. CASE OnPlayerConnect(s)
      <4>1. UNCHANGED <<who, acOn>>
        BY <3>5 DEF OnPlayerConnect
      <4>2. \A t \in Slots \ {s} : stage'[t] = stage[t] /\ ac'[t] = ac[t]
        BY <3>5 DEF OnPlayerConnect, TypeOK
      <4>3. \A t \in Slots : NoLoss(t)
        <5>1. CASE ArmKick({s})
          BY <5>1, <2>0, ArmKickLemma, {s} \in SUBSET Slots
        <5> QED
          BY <3>5, <3>0, <5>1 DEF OnPlayerConnect
      <4>4. ac'[s] = ac[s] \/ ac'[s] = NoAC
        BY <3>5 DEF OnPlayerConnect, TypeOK
      <4>5. HasAC(s) => ac[s].about # who[s]
        BY <3>5, ServerConstants DEF OnPlayerConnect, Occupancy, LookedUp
      <4> QED
        BY <4>1, <4>2, <4>3, <4>4, <4>5, <2>1
           DEF BannedIsBeingKicked, HasAC
    <3>6. CASE OnPlayerDisconnect(s)
      BY <3>6 DEF OnPlayerDisconnect, TypeOK, BannedIsBeingKicked, HasAC
    <3>7. ASSUME NEW p \in Targets, KickPlayer(s, p)
          PROVE BannedIsBeingKicked'
      <4>1. \A t \in Slots \ {s} :
              kicks'[t] = kicks[t] /\ stage'[t] = stage[t]
        BY <3>7 DEF KickPlayer, TypeOK
      <4>2. stage'[s] # "joined"
        BY <3>7 DEF KickPlayer, TypeOK, IsPlayerConnected
      <4> QED
        BY <3>7, <4>1, <4>2 DEF KickPlayer, BannedIsBeingKicked, HasAC
    <3>8. CASE Reports(s)
      BY <2>0, <2>2, <3>8, ReportsLemma
    <3>9. ASSUME NEW toggle \in BOOLEAN, SetPlayerCanEnableAC(s, toggle)
          PROVE BannedIsBeingKicked'
      BY <2>2, <3>0, <3>9 DEF SetPlayerCanEnableAC
    <3>10. CASE OnPlayerCommandText(s)
      <4>1. CASE acOn
        BY <3>10, <4>1 DEF OnPlayerCommandText, BannedIsBeingKicked
      <4>2. CASE ~acOn
        <5>1. \A t \in Slots :
                /\ stage'[t] = "joined"
                     => stage[t] = "joined" /\ t \notin AC_IsBanned
          BY <3>10, <4>2 DEF OnPlayerCommandText
        <5>2. ASSUME NEW t \in Slots, stage'[t] = "joined", HasAC(t),
                     ac[t].ban = "banned"
              PROVE  ac[t].about # who[t]
          BY <5>1, <5>2, ServerConstants
             DEF AC_IsBanned, ToCheck, IsPlayerConnected, IsPlayerNPC,
                 LookedUp, Occupancy
        <5>3. UNCHANGED <<who, ac>>
          BY <3>10 DEF OnPlayerCommandText
        <5> QED
          BY <5>2, <5>3 DEF BannedIsBeingKicked, HasAC
      <4> QED
        BY <4>1, <4>2 DEF TypeOK
    <3>11. ASSUME NEW p \in Players, LookupAnswered(s, p)
           PROVE BannedIsBeingKicked'
      BY <2>2, <3>0, <3>11 DEF LookupAnswered
    <3>12. CASE RecheckBan(s)
      BY <2>2, <3>0, <3>12 DEF RecheckBan
    <3> QED
      BY <2>4, <3>1, <3>2, <3>3, <3>4, <3>5, <3>6, <3>7, <3>8, <3>9, <3>10,
         <3>11, <3>12 DEF SlotStep, Reports
  <2>5. CASE UNCHANGED vars
    BY <2>0, <2>2, <2>5 DEF vars
  <2> QED
    BY <2>3, <2>4, <2>5 DEF Next
<1> QED
  BY <1>1, <1>2, TypeCorrect, OccupancyCorrect, LookupsCorrect, PTL DEF Spec

----------------------------------------------------------------------------
\* An object found under somebody else's player id belongs to a connection
\* that never joined.  Owners is the strengthening: an object lies in the
\* only slot its owner ever held.
THEOREM InheritanceBounded ==
  Spec => [](Owners /\ InheritedOnlyFromTheNeverJoined)
<1> DEFINE Inv == Owners /\ InheritedOnlyFromTheNeverJoined
<1>1. Init => Inv
  BY DEF Init, Owners, InheritedOnlyFromTheNeverJoined, HasAC
<1>2. TypeOK /\ Occupancy /\ Inv /\ [Next]_vars => Inv'
  <2> SUFFICES ASSUME TypeOK, Occupancy, Inv, [Next]_vars PROVE Inv'
    OBVIOUS
  <2> DEFINE Kept(t) == \/ ac'[t] = NoAC
                        \/ (ac[t] # NoAC /\ ac'[t].owner = ac[t].owner)
  <2>1. ASSUME UNCHANGED connVars, \A t \in Slots : Kept(t) PROVE Inv'
    BY <2>1 DEF connVars, Owners, InheritedOnlyFromTheNeverJoined, HasAC
  <2>2. ASSUME ac' = ac PROVE \A t \in Slots : Kept(t)
    BY <2>2
  <2>3. CASE OnCheaterCheckResponse
    BY <2>1, <2>3, AnswerLemma
  <2>4. ASSUME NEW s \in Slots, SlotStep(s) PROVE Inv'
    <3>1. ASSUME NEW p \in Players, Attach(p, s) PROVE Inv'
      <4>1. /\ who' = [who EXCEPT ![s] = p] /\ p \notin seen
            /\ who[s] = NoPlayer
            /\ seen' = seen \cup {p} /\ played' = played /\ ac' = ac
        BY <3>1 DEF Attach, Occupancy, objVars
      <4>2. who'[s] = p /\ \A t \in Slots \ {s} : who'[t] = who[t]
        BY <4>1 DEF TypeOK
      <4>3. p \notin played
        BY <4>1 DEF Occupancy
      <4>4. \A t \in Slots : HasAC(t) => ac[t].owner # p
        BY <4>1 DEF Owners
      <4>5. \A t \in Slots : HasAC(t) => ac[t].owner \in Players
        BY DEF TypeOK, HasAC, Object
      <4>6. Owners'
        BY <4>1, <4>2, <4>4 DEF Owners, HasAC
      <4>7. InheritedOnlyFromTheNeverJoined'
        <5> SUFFICES ASSUME NEW t \in Slots, HasAC(t), ac[t].owner # who'[t]
                     PROVE  ac[t].owner \notin played
          BY <4>1 DEF InheritedOnlyFromTheNeverJoined, HasAC
        <5>1. ac[t].owner # who[t]
          BY <4>1, <4>2, <4>5, ServerConstants
        <5> QED
          BY <5>1 DEF InheritedOnlyFromTheNeverJoined
      <4> QED
        BY <4>6, <4>7
    <3>2. CASE Drop(s)
      <4>1. /\ who' = [who EXCEPT ![s] = NoPlayer]
            /\ who[s] \notin played
            /\ seen' = seen /\ played' = played /\ ac' = ac
        BY <3>2 DEF Drop, Occupancy, objVars
      <4>2. \A t \in Slots : HasAC(t) => ac[t].owner \in Players
        BY DEF TypeOK, HasAC, Object
      <4>3. who'[s] = NoPlayer /\ \A t \in Slots \ {s} : who'[t] = who[t]
        BY <4>1 DEF TypeOK
      <4>4. Owners'
        BY <4>1, <4>2, <4>3, ServerConstants DEF Owners, HasAC
      <4>5. InheritedOnlyFromTheNeverJoined'
        BY <4>1, <4>3 DEF InheritedOnlyFromTheNeverJoined, HasAC
      <4> QED
        BY <4>4, <4>5
    <3>3. CASE OnIntialInfoGotten(s)
      <4>1. /\ ac'[s] = NewObject(who[s])
            /\ \A t \in Slots \ {s} : ac'[t] = ac[t]
        BY <3>3 DEF OnIntialInfoGotten, TypeOK
      <4>2. NewObject(who[s]).owner = who[s]
        BY DEF NewObject
      <4>3. UNCHANGED <<who, seen, played>>
        BY <3>3 DEF OnIntialInfoGotten, connVars
      <4>4. who[s] \in Players
        BY <3>3, InfoLemma
      <4>5. /\ who[s] \in seen
            /\ \A t \in Slots : who[t] = who[s] => t = s
        BY <4>4, ServerConstants DEF Occupancy
      <4> QED
        BY <4>1, <4>2, <4>3, <4>5
           DEF Owners, InheritedOnlyFromTheNeverJoined, HasAC
    <3>4. CASE CreationTickExpires(s)
      <4>1. ac' = [ac EXCEPT ![s] = [ac[s] EXCEPT !.fresh = FALSE]]
        BY <3>4 DEF CreationTickExpires
      <4>2. [ac[s] EXCEPT !.fresh = FALSE].owner = ac[s].owner
        BY <3>4 DEF CreationTickExpires, HasAC, TypeOK, Object
      <4>3. \A t \in Slots \ {s} : ac'[t] = ac[t]
        BY <4>1 DEF TypeOK
      <4>4. ac'[s].owner = ac[s].owner /\ ac[s] # NoAC
        BY <3>4, <4>1, <4>2 DEF CreationTickExpires, HasAC, TypeOK
      <4>5. \A t \in Slots : Kept(t)
        BY <4>3, <4>4
      <4> QED
        BY <2>1, <3>4, <4>5 DEF CreationTickExpires
    <3>5. CASE OnPlayerConnect(s)
      <4>1. \A t \in Slots : ac'[t] = ac[t] \/ ac'[t] = NoAC
        BY <3>5 DEF OnPlayerConnect, TypeOK
      <4>2. UNCHANGED <<who, seen>> /\ played' = played \cup {who[s]}
        BY <3>5 DEF OnPlayerConnect
      <4>3. Owners'
        BY <4>1, <4>2 DEF Owners, HasAC
      <4>4. InheritedOnlyFromTheNeverJoined'
        BY <4>1, <4>2 DEF Owners, InheritedOnlyFromTheNeverJoined, HasAC
      <4> QED
        BY <4>3, <4>4
    <3>6. CASE OnPlayerDisconnect(s)
      <4>1. /\ ac'[s] = NoAC /\ who'[s] = NoPlayer
            /\ \A t \in Slots \ {s} : ac'[t] = ac[t] /\ who'[t] = who[t]
        BY <3>6 DEF OnPlayerDisconnect, TypeOK
      <4>2. UNCHANGED <<seen, played>>
        BY <3>6 DEF OnPlayerDisconnect
      <4>3. \A t \in Slots : HasAC(t) => ac[t].owner # NoPlayer
        BY ServerConstants DEF TypeOK, HasAC, Object
      <4> QED
        BY <4>1, <4>2, <4>3
           DEF Owners, InheritedOnlyFromTheNeverJoined, HasAC
    <3>7. ASSUME NEW p \in Targets, KickPlayer(s, p) PROVE Inv'
      BY <3>7 DEF KickPlayer, objVars, Owners,
                  InheritedOnlyFromTheNeverJoined, HasAC
    <3>8. CASE Reports(s)
      BY <2>1, <2>2, <3>8, ReportsLemma DEF objVars
    <3>9. ASSUME NEW toggle \in BOOLEAN, SetPlayerCanEnableAC(s, toggle)
          PROVE Inv'
      BY <2>1, <2>2, <3>9 DEF SetPlayerCanEnableAC, objVars
    <3>10. CASE OnPlayerCommandText(s)
      BY <3>10 DEF OnPlayerCommandText, objVars, Owners,
                   InheritedOnlyFromTheNeverJoined, HasAC
    <3>11. ASSUME NEW p \in Players, LookupAnswered(s, p) PROVE Inv'
      BY <2>1, <2>2, <3>11 DEF LookupAnswered, objVars
    <3>12. CASE RecheckBan(s)
      BY <2>1, <2>2, <3>12 DEF RecheckBan, objVars
    <3> QED
      BY <2>4, <3>1, <3>2, <3>3, <3>4, <3>5, <3>6, <3>7, <3>8, <3>9, <3>10,
         <3>11, <3>12 DEF SlotStep, Reports
  <2>5. CASE UNCHANGED vars
    BY <2>1, <2>2, <2>5 DEF vars, connVars
  <2> QED
    BY <2>3, <2>4, <2>5 DEF Next
<1> QED
  BY <1>1, <1>2, TypeCorrect, OccupancyCorrect, PTL DEF Spec
----------------------------------------------------------------------------
(* Kicks, lookups and answers under a player id                            *)

\* Kick timers are only set for who holds the slot.
LEMMA ArmKickForOccupant ==
  ASSUME TypeOK, NEW S \in SUBSET Slots, ArmKick(S),
         NEW s \in Slots, NEW p \in Targets, kicks'[s][p] > 0
  PROVE  kicks[s][p] > 0 \/ p = who[s]
<1>1. kicks'[s][p] = IF s \in S /\ p = who[s] THEN kicks[s][p] + 1
                                             ELSE kicks[s][p]
  BY DEF ArmKick
<1> QED
  BY <1>1

\* A player who was seen is under no player id but the one held so far.
LEMMA NobodyMoves ==
  ASSUME TypeOK, Occupancy, [Next]_vars
  PROVE  /\ seen \subseteq seen'
         /\ \A t \in Slots, p \in seen : who'[t] = p => who[t] = p
<1> DEFINE Fixed == seen \subseteq seen'
                    /\ \A t \in Slots, p \in seen : who'[t] = p => who[t] = p
<1>1. ASSUME UNCHANGED <<who, seen>> PROVE Fixed
  BY <1>1
<1>2. CASE OnCheaterCheckResponse
  BY <1>1, <1>2, AnswerLemma DEF connVars
<1>3. ASSUME NEW s \in Slots, SlotStep(s) PROVE Fixed
  <2>1. ASSUME NEW p \in Players, Attach(p, s) PROVE Fixed
    BY <2>1 DEF Attach, TypeOK
  <2>2. CASE Drop(s) \/ OnPlayerDisconnect(s)
    BY <2>2, ServerConstants DEF Drop, OnPlayerDisconnect, TypeOK
  <2>3. CASE Reports(s)
    BY <1>1, <2>3, ReportsLemma DEF connVars
  <2>4. ASSUME NEW p \in Targets, KickPlayer(s, p) PROVE Fixed
    BY <1>1, <2>4 DEF KickPlayer
  <2>5. ASSUME NEW toggle \in BOOLEAN, SetPlayerCanEnableAC(s, toggle)
        PROVE Fixed
    BY <1>1, <2>5 DEF SetPlayerCanEnableAC, connVars
  <2>6. ASSUME NEW p \in Players, LookupAnswered(s, p) PROVE Fixed
    BY <1>1, <2>6 DEF LookupAnswered, connVars
  <2>7. CASE OnIntialInfoGotten(s) \/ CreationTickExpires(s)
             \/ OnPlayerConnect(s) \/ OnPlayerCommandText(s) \/ RecheckBan(s)
    BY <1>1, <2>7
       DEF OnIntialInfoGotten, CreationTickExpires, OnPlayerConnect,
           OnPlayerCommandText, RecheckBan, connVars
  <2> QED
    BY <1>3, <2>1, <2>2, <2>3, <2>4, <2>5, <2>6, <2>7
       DEF SlotStep, Reports
<1>4. CASE UNCHANGED vars
  BY <1>1, <1>4 DEF vars
<1> QED
  BY <1>2, <1>3, <1>4 DEF Next

\* What is under way or kept under a player id, in four parts.
QueuedFor(s, p) ==
  \E i \in 1..Len(queue) : queue[i].slot = s /\ queue[i].about = p

\* Only the occupant of a slot can become somebody it concerns.
LEMMA ConcernsOnlyOccupants ==
  ASSUME TypeOK, [Next]_vars, NEW s \in Slots, NEW p \in Players, Concerns(s, p)'
  PROVE  Concerns(s, p) \/ p = who[s]
<1> USE DEF connVars, objVars, adminVars, banVars
<1>q. Concerns(s, p) <=> \/ kicks[s][p] > 0 \/ checks[s][p] > 0
                         \/ QueuedFor(s, p)
                         \/ HasAC(s) /\ ac[s].about = p
  BY DEF Concerns, QueuedFor
<1>p. Concerns(s, p)' <=> \/ kicks'[s][p] > 0 \/ checks'[s][p] > 0
                          \/ QueuedFor(s, p)'
                          \/ ac'[s] # NoAC /\ ac'[s].about = p
  BY DEF Concerns, QueuedFor, HasAC
<1>t. p \in Targets /\ p # NoPlayer
  BY ServerConstants DEF Targets
<1> DEFINE AboutKept == ac'[s] # NoAC /\ ac'[s].about = p
                          => ac[s] # NoAC /\ ac[s].about = p
           KicksOwn == kicks'[s][p] > 0 => kicks[s][p] > 0 \/ p = who[s]
           ChecksOwn == checks'[s][p] > 0 => checks[s][p] > 0 \/ p = who[s]
<1>1. ASSUME KicksOwn, ChecksOwn, queue' = queue, AboutKept
      PROVE  Concerns(s, p) \/ p = who[s]
  <2>1. QueuedFor(s, p)' <=> QueuedFor(s, p)
    BY <1>1 DEF QueuedFor
  <2> QED
    BY <1>1, <1>p, <1>q, <2>1 DEF HasAC
<1>2. ASSUME kicks' = kicks PROVE KicksOwn
  BY <1>2
<1>3. ASSUME checks' = checks PROVE ChecksOwn
  BY <1>3
<1>4. ASSUME ac' = ac PROVE AboutKept
  BY <1>4
<1>5. ASSUME NEW S \in SUBSET Slots, ArmKick(S) PROVE KicksOwn
  BY <1>5, <1>t, ArmKickForOccupant
<1>6. CASE OnCheaterCheckResponse
  <2> DEFINE a == Head(queue)
  <2>1. /\ queue # <<>> /\ queue \in Seq(Answer) /\ queue' = Tail(queue)
        /\ checks' = checks
    BY <1>6, AnswerLemma DEF OnCheaterCheckResponse, TypeOK
  <2>2. QueuedFor(s, p)' => QueuedFor(s, p)
    <3> SUFFICES ASSUME NEW i \in 1..Len(queue'), queue'[i].slot = s,
                        queue'[i].about = p
                 PROVE  QueuedFor(s, p)
      BY DEF QueuedFor
    <3>1. i + 1 \in 1..Len(queue) /\ queue'[i] = queue[i + 1]
      BY <2>1
    <3> QED
      BY <3>1 DEF QueuedFor
  <2>3. a.slot = s /\ a.about = p => QueuedFor(s, p)
    <3>1. 1 \in 1..Len(queue) /\ a = queue[1]
      BY <2>1
    <3> QED
      BY <3>1 DEF QueuedFor
  <2>4. AboutKept \/ (a.slot = s /\ a.about = p)
    BY <1>6, AnswerLemma
  <2>5. KicksOwn
    <3>1. CASE HasAC(a.slot) /\ a.ischeater /\ acOn
      <4>1. a.slot \in Slots
        BY <1>6, AnswerLemma DEF Answer
      <4>2. ArmKick({a.slot}) /\ {a.slot} \in SUBSET Slots
        BY <1>6, <3>1, <4>1 DEF OnCheaterCheckResponse, OnBanChecked
      <4> QED
        BY <1>5, <4>2
    <3>2. CASE ~(HasAC(a.slot) /\ a.ischeater /\ acOn)
      BY <1>2, <1>6, <3>2 DEF OnCheaterCheckResponse, OnBanChecked
    <3> QED
      BY <3>1, <3>2
  <2> HIDE DEF a
  <2> QED
    BY <1>3, <1>p, <1>q, <2>1, <2>2, <2>3, <2>4, <2>5 DEF HasAC
<1>7. ASSUME NEW u \in Slots, SlotStep(u)
      PROVE  Concerns(s, p) \/ p = who[s]
  <2>0. {u} \in SUBSET Slots
    OBVIOUS
  <2>1. ASSUME NEW q \in Players, Attach(q, u)
        PROVE  Concerns(s, p) \/ p = who[s]
    BY <1>1, <2>1 DEF Attach
  <2>2. CASE Drop(u)
    BY <1>1, <2>2 DEF Drop
  <2>3. CASE OnIntialInfoGotten(u)
    <3>1. AboutKept
      <4>1. u # s => ac'[s] = ac[s]
        BY <2>3, InfoLemma DEF TypeOK
      <4>2. u = s => ac'[s].about = NoPlayer
        <5>1. u = s => ac'[s] = NewObject(who[s])
          BY <2>3, InfoLemma DEF TypeOK
        <5>2. NewObject(who[s]).about = NoPlayer
          BY DEF NewObject
        <5> QED
          BY <5>1, <5>2
      <4> QED
        BY <4>1, <4>2, <1>t
    <3>2. KicksOwn
      BY <1>2, <1>5, <2>0, <2>3 DEF OnIntialInfoGotten
    <3> QED
      BY <1>1, <1>3, <2>3, <3>1, <3>2 DEF OnIntialInfoGotten
  <2>4. CASE CreationTickExpires(u)
    <3>1. ac' = [ac EXCEPT ![u] = [ac[u] EXCEPT !.fresh = FALSE]]
      BY <2>4 DEF CreationTickExpires
    <3>2. ac[u] # NoAC /\ [ac[u] EXCEPT !.fresh = FALSE].about = ac[u].about
      BY <2>4 DEF CreationTickExpires, HasAC, TypeOK, Object
    <3>3. AboutKept
      BY <3>1, <3>2 DEF TypeOK
    <3> QED
      BY <1>1, <2>4, <3>3 DEF CreationTickExpires
  <2>5. CASE OnPlayerConnect(u)
    <3>1. ac'[s] = ac[s] \/ ac'[s] = NoAC
      BY <2>5 DEF OnPlayerConnect, TypeOK
    <3>2. KicksOwn
      BY <1>2, <1>5, <2>0, <2>5 DEF OnPlayerConnect
    <3>3. ChecksOwn
      <4>1. CASE CheckCheater(u)
        <5>1. \A q \in Players :
                checks'[s][q] > 0 => checks[s][q] > 0 \/ (s = u /\ q = who[u])
          BY <4>1 DEF CheckCheater, TypeOK
        <5> QED
          BY <5>1
      <4> QED
        BY <1>3, <2>5, <4>1 DEF OnPlayerConnect
    <3> QED
      BY <1>1, <2>5, <3>1, <3>2, <3>3 DEF OnPlayerConnect
  <2>6. CASE OnPlayerDisconnect(u)
    <3>1. ac'[s] = ac[s] \/ ac'[s] = NoAC
      BY <2>6 DEF OnPlayerDisconnect, TypeOK
    <3> QED
      BY <1>1, <2>6, <3>1 DEF OnPlayerDisconnect
  <2>7. ASSUME NEW q \in Targets, KickPlayer(u, q)
        PROVE  Concerns(s, p) \/ p = who[s]
    <3>1. KicksOwn
      BY <2>7, <1>t DEF KickPlayer, TypeOK
    <3> QED
      BY <1>1, <2>7, <3>1 DEF KickPlayer
  <2>8. CASE Reports(u)
    <3>1. KickForReport(u)
      BY <2>8 DEF Reports, OnMD5Calculated, OnFileCalculated, OnImgFileModified,
                  WarnUnverifiedClient, OnTamperAttempt, VersionIncompat
    <3>2. KicksOwn
      BY <1>5, <2>0, <3>1 DEF KickForReport
    <3> QED
      BY <1>1, <1>3, <1>4, <3>1, <3>2 DEF KickForReport
  <2>9. ASSUME NEW toggle \in BOOLEAN, SetPlayerCanEnableAC(u, toggle)
        PROVE  Concerns(s, p) \/ p = who[s]
    BY <1>1, <2>9 DEF SetPlayerCanEnableAC
  <2>10. CASE OnPlayerCommandText(u)
    <3>1. NotRunningAC \in SUBSET Slots
      BY DEF NotRunningAC, ToCheck
    <3>2. KicksOwn
      BY <1>2, <1>5, <2>10, <3>1 DEF OnPlayerCommandText
    <3> QED
      BY <1>1, <2>10, <3>2 DEF OnPlayerCommandText
  <2>11. ASSUME NEW q \in Players, LookupAnswered(u, q)
         PROVE  Concerns(s, p) \/ p = who[s]
    <3>1. /\ checks[u][q] > 0 /\ queue \in Seq(Answer)
          /\ \E b \in BOOLEAN :
               queue' = Append(queue, [slot |-> u, about |-> q, ischeater |-> b])
          /\ UNCHANGED <<kicks, ac>>
      BY <2>11 DEF LookupAnswered, TypeOK
    <3>2. PICK a \in Answer : /\ a.slot = u /\ a.about = q
                              /\ queue' = Append(queue, a)
      BY <3>1 DEF Answer
    <3>3. QueuedFor(s, p)' => QueuedFor(s, p) \/ (u = s /\ q = p)
      <4> SUFFICES ASSUME NEW i \in 1..Len(queue'), queue'[i].slot = s,
                          queue'[i].about = p
                   PROVE  QueuedFor(s, p) \/ (u = s /\ q = p)
        BY DEF QueuedFor
      <4>1. \/ i \in 1..Len(queue) /\ queue'[i] = queue[i]
            \/ queue'[i] = a
        BY <3>1, <3>2
      <4> QED
        BY <3>2, <4>1 DEF QueuedFor
    <3>4. checks'[s][p] > 0 => checks[s][p] > 0
      BY <2>11 DEF LookupAnswered, TypeOK
    <3>5. u = s /\ q = p => checks[s][p] > 0
      BY <3>1
    <3> QED
      BY <1>p, <1>q, <3>1, <3>3, <3>4, <3>5 DEF HasAC
  <2>12. CASE RecheckBan(u)
    <3>1. \A q \in Players :
            checks'[s][q] > 0 => checks[s][q] > 0 \/ (s = u /\ q = who[u])
      BY <2>12 DEF RecheckBan, CheckCheater, TypeOK
    <3> QED
      BY <1>1, <2>12, <3>1 DEF RecheckBan
  <2> QED
    BY <1>7, <2>1, <2>2, <2>3, <2>4, <2>5, <2>6, <2>7, <2>8, <2>9, <2>10,
       <2>11, <2>12 DEF SlotStep, Reports
<1>8. CASE UNCHANGED vars
  BY <1>1, <1>8 DEF vars
<1> QED
  BY <1>6, <1>7, <1>8 DEF Next

\* As long as the subject of a kick timer, a lookup, an answer or a status is
\* connected, it is connected under the player id that is meant.
THEOREM NeverBehindWhoIsThere == Spec => []MisdirectedOnlyAfterLeaving
<1>1. Init => MisdirectedOnlyAfterLeaving
  BY DEF Init, MisdirectedOnlyAfterLeaving, Concerns, HasAC, Targets
<1>2. TypeOK /\ Occupancy /\ MisdirectedOnlyAfterLeaving /\ [Next]_vars
        => MisdirectedOnlyAfterLeaving'
  <2> SUFFICES ASSUME TypeOK, Occupancy, MisdirectedOnlyAfterLeaving,
                      [Next]_vars,
                      NEW s \in Slots, NEW p \in Players, Concerns(s, p)'
               PROVE  p \in seen' /\ \A t \in Slots : who'[t] = p => t = s
    BY DEF MisdirectedOnlyAfterLeaving
  <2>1. Concerns(s, p) \/ p = who[s]
    BY ConcernsOnlyOccupants
  <2>2. p \in seen /\ \A t \in Slots : who[t] = p => t = s
    BY <2>1, ServerConstants DEF MisdirectedOnlyAfterLeaving, Occupancy
  <2> QED
    BY <2>2, NobodyMoves
<1> QED
  BY <1>1, <1>2, TypeCorrect, OccupancyCorrect, PTL DEF Spec

\* A kick timer that hits another player than the one it was set for comes
\* after the latter has left for good (KickHitsItsTarget does not hold).
THEOREM WrongKickComesLate ==
  Spec => [][\A s \in Slots, p \in Players :
               (KickPlayer(s, p) /\ p # who[s])
                 => p \in seen /\ \A t \in Slots : who[t] # p]_vars
<1>1. MisdirectedOnlyAfterLeaving =>
        \A s \in Slots, p \in Players :
          (KickPlayer(s, p) /\ p # who[s])
            => p \in seen /\ \A t \in Slots : who[t] # p
  BY DEF MisdirectedOnlyAfterLeaving, KickPlayer, Concerns
<1> QED
  BY <1>1, NeverBehindWhoIsThere, PTL

----------------------------------------------------------------------------
\* A kick that is due ends with its player being kicked, or leaving.
THEOREM NoWayOut == Spec => NoReprieve
<1>1. TypeOK /\ TypeOK' /\ Occupancy /\ [Next]_vars =>
        \A s \in Slots : BeingKicked(s) => BeingKicked(s)' \/ who'[s] # who[s]
  <2> SUFFICES ASSUME TypeOK, TypeOK', Occupancy, [Next]_vars,
                      NEW s \in Slots, BeingKicked(s), who'[s] = who[s]
               PROVE  BeingKicked(s)'
    OBVIOUS
  <2> USE DEF connVars, objVars, adminVars, banVars
  <2>0. /\ kicks[s][who[s]] \in Nat /\ kicks'[s][who[s]] \in Nat
        /\ who[s] \in Targets /\ who[s] # NoPlayer
        /\ stage[s] \in {"joined", "leaving"}
        /\ kicks[s][who[s]] > 0 \/ stage[s] = "leaving"
    BY DEF TypeOK, Occupancy, BeingKicked, IsPlayerConnected
  <2>1. ASSUME stage'[s] = stage[s], kicks'[s][who[s]] >= kicks[s][who[s]]
        PROVE  BeingKicked(s)'
    BY <2>0, <2>1 DEF BeingKicked, IsPlayerConnected
  <2>2. ASSUME stage'[s] = "leaving" PROVE BeingKicked(s)'
    BY <2>2 DEF BeingKicked, IsPlayerConnected
  <2>3. ASSUME kicks' = kicks PROVE kicks'[s][who[s]] >= kicks[s][who[s]]
    BY <2>0, <2>3
  <2>4. ASSUME NEW S \in SUBSET Slots, ArmKick(S)
        PROVE  kicks'[s][who[s]] >= kicks[s][who[s]]
    BY <2>0, <2>4, ArmKickLemma
  <2>5. CASE OnCheaterCheckResponse
    BY <2>0, <2>1, <2>5, AnswerLemma
  <2>6. ASSUME NEW u \in Slots, SlotStep(u) PROVE BeingKicked(s)'
    <3>0. {u} \in SUBSET Slots
      OBVIOUS
    <3>1. ASSUME NEW p \in Players, Attach(p, u) PROVE BeingKicked(s)'
      BY <2>0, <2>1, <2>3, <3>1 DEF Attach, TypeOK
    <3>2. CASE Drop(u)
      BY <2>0, <2>1, <2>3, <3>2 DEF Drop, TypeOK
    <3>3. CASE OnIntialInfoGotten(u)
      BY <2>0, <2>1, <3>3, InfoLemma DEF OnIntialInfoGotten
    <3>4. CASE OnPlayerConnect(u)
      <4>1. u # s /\ stage'[s] = stage[s]
        BY <2>0, <3>4 DEF OnPlayerConnect, TypeOK
      <4>2. kicks'[s][who[s]] >= kicks[s][who[s]]
        BY <2>3, <2>4, <3>0, <3>4 DEF OnPlayerConnect
      <4> QED
        BY <2>1, <4>1, <4>2
    <3>5. CASE OnPlayerDisconnect(u)
      BY <2>0, <2>1, <2>3, <3>5 DEF OnPlayerDisconnect, TypeOK
    <3>6. ASSUME NEW p \in Targets, KickPlayer(u, p) PROVE BeingKicked(s)'
      <4>1. CASE u = s
        BY <2>0, <2>2, <3>6, <4>1 DEF KickPlayer, IsPlayerConnected, TypeOK
      <4>2. CASE u # s
        <5>1. kicks'[s] = kicks[s] /\ stage'[s] = stage[s]
          BY <3>6, <4>2 DEF KickPlayer, TypeOK
        <5> QED
          BY <2>0, <2>1, <5>1
      <4> QED
        BY <4>1, <4>2
    <3>7. CASE Reports(u)
      BY <2>0, <2>1, <3>7, ReportsLemma
    <3>8. CASE OnPlayerCommandText(u)
      <4>1. NotRunningAC \in SUBSET Slots
        BY DEF NotRunningAC, ToCheck
      <4>2. kicks'[s][who[s]] >= kicks[s][who[s]]
        BY <2>3, <2>4, <3>8, <4>1 DEF OnPlayerCommandText
      <4>3. stage'[s] = stage[s] \/ stage'[s] = "leaving"
        BY <3>8 DEF OnPlayerCommandText
      <4> QED
        BY <2>1, <2>2, <4>2, <4>3
    <3>9. ASSUME NEW toggle \in BOOLEAN, SetPlayerCanEnableAC(u, toggle)
          PROVE BeingKicked(s)'
      BY <2>1, <2>3, <3>9 DEF SetPlayerCanEnableAC
    <3>10. ASSUME NEW p \in Players, LookupAnswered(u, p)
           PROVE BeingKicked(s)'
      BY <2>1, <2>3, <3>10 DEF LookupAnswered
    <3>11. CASE CreationTickExpires(u) \/ RecheckBan(u)
      BY <2>1, <2>3, <3>11 DEF CreationTickExpires, RecheckBan
    <3> QED
      BY <2>6, <3>1, <3>2, <3>3, <3>4, <3>5, <3>6, <3>7, <3>8, <3>9, <3>10,
         <3>11 DEF SlotStep, Reports
  <2>7. CASE UNCHANGED vars
    BY <2>1, <2>3, <2>7 DEF vars
  <2> QED
    BY <2>5, <2>6, <2>7 DEF Next
<1> QED
  BY <1>1, TypeCorrect, OccupancyCorrect, PTL DEF NoReprieve, Spec

----------------------------------------------------------------------------
\* Whoever holds a slot and was looked up has joined.
LEMMA LookedUpHasJoined ==
  ASSUME TypeOK, Occupancy, LookedUp, NEW s \in Slots, NEW p \in Players,
         FoundBanned(s, p)
  PROVE  IsPlayerConnected(s)
<1>1. p \in played /\ who[s] = p /\ p # NoPlayer
  BY ServerConstants DEF FoundBanned, LookedUp
<1> QED
  BY <1>1 DEF Occupancy, TypeOK, Stages, IsPlayerConnected

\* A positive answer to the occupant's own lookup is neither lost nor turned
\* away while the player plays on.
THEOREM PositiveAnswerKicks == Spec => FoundBannedIsKicked
<1>1. ASSUME TypeOK, TypeOK', Occupancy, LookedUp, [Next]_vars,
             NEW s \in Slots, NEW p \in Players, FoundBanned(s, p),
             who'[s] = p, acOn
      PROVE  FoundBanned(s, p)' \/ BeingKicked(s)'
  <2> USE <1>1 DEF connVars, objVars, adminVars, banVars
  <2> DEFINE e == [slot |-> s, about |-> p, ischeater |-> TRUE]
  <2>0. /\ who[s] = p /\ ac[s] # NoAC /\ IsPlayerConnected(s)
        /\ p \in Targets /\ p # NoPlayer
    BY LookedUpHasJoined, ServerConstants DEF FoundBanned, HasAC, Targets
  <2>i. PICK i \in 1..Len(queue) : queue[i] = e
    BY DEF FoundBanned
  <2>q. queue \in Seq(Answer)
    BY DEF TypeOK
  <2>1. ASSUME queue' = queue, ac'[s] # NoAC PROVE FoundBanned(s, p)'
    BY <2>1, <2>i DEF FoundBanned, HasAC
  <2>2. CASE OnCheaterCheckResponse
    <3>1. queue # <<>> /\ queue' = Tail(queue) /\ ac'[s] # NoAC
      BY <2>0, <2>2, AnswerLemma DEF OnCheaterCheckResponse
    <3>2. CASE i = 1
      <4>1. Head(queue) = e
        BY <2>i, <2>q, <3>1, <3>2
      <4>2. Head(queue).slot = s /\ Head(queue).ischeater
        BY <4>1
      <4>3. ArmKick({s}) /\ {s} \in SUBSET Slots
        BY <2>0, <2>2, <4>2 DEF OnCheaterCheckResponse, OnBanChecked, HasAC
      <4>4. kicks'[s][who[s]] > 0
        BY <4>3, ArmKickLemma
      <4>5. UNCHANGED <<who, stage>>
        BY <2>2 DEF OnCheaterCheckResponse
      <4> QED
        BY <2>0, <4>4, <4>5 DEF BeingKicked, IsPlayerConnected
    <3>3. CASE i # 1
      <4>1. i - 1 \in 1..Len(queue') /\ queue'[i - 1] = queue[i]
        BY <2>q, <3>1, <3>3
      <4> QED
        BY <2>i, <3>1, <4>1 DEF FoundBanned, HasAC
    <3> QED
      BY <3>2, <3>3
  <2>3. ASSUME NEW u \in Slots, SlotStep(u)
        PROVE  FoundBanned(s, p)' \/ BeingKicked(s)'
    <3>1. ASSUME NEW r \in Players, Attach(r, u) PROVE FoundBanned(s, p)'
      BY <2>0, <2>1, <3>1 DEF Attach
    <3>2. CASE Drop(u)
      BY <2>0, <2>1, <3>2 DEF Drop
    <3>3. CASE OnIntialInfoGotten(u)
      <4>1. ac'[s] # NoAC
        BY <2>0, <3>3, InfoLemma DEF TypeOK
      <4> QED
        BY <2>1, <3>3, <4>1 DEF OnIntialInfoGotten
    <3>4. CASE CreationTickExpires(u)
      <4>1. u # s
        BY <2>0, <3>4 DEF CreationTickExpires
      <4>2. ac'[s] = ac[s]
        BY <3>4, <4>1 DEF CreationTickExpires, TypeOK
      <4> QED
        BY <2>0, <2>1, <3>4, <4>2 DEF CreationTickExpires
    <3>5. CASE OnPlayerConnect(u)
      <4>1. u # s
        BY <2>0, <3>5 DEF OnPlayerConnect, IsPlayerConnected
      <4>2. ac'[s] = ac[s]
        BY <3>5, <4>1 DEF OnPlayerConnect, TypeOK
      <4> QED
        BY <2>0, <2>1, <3>5, <4>2 DEF OnPlayerConnect
    <3>6. CASE OnPlayerDisconnect(u)
      <4>1. u # s
        BY <2>0, <3>6 DEF OnPlayerDisconnect, TypeOK
      <4>2. ac'[s] = ac[s]
        BY <3>6, <4>1 DEF OnPlayerDisconnect, TypeOK
      <4> QED
        BY <2>0, <2>1, <3>6, <4>2 DEF OnPlayerDisconnect
    <3>7. ASSUME NEW t \in Targets, KickPlayer(u, t) PROVE FoundBanned(s, p)'
      BY <2>0, <2>1, <3>7 DEF KickPlayer
    <3>8. CASE Reports(u)
      BY <2>0, <2>1, <3>8, ReportsLemma
    <3>9. ASSUME NEW toggle \in BOOLEAN, SetPlayerCanEnableAC(u, toggle)
          PROVE FoundBanned(s, p)'
      BY <2>0, <2>1, <3>9 DEF SetPlayerCanEnableAC
    <3>10. CASE OnPlayerCommandText(u)
      BY <2>0, <2>1, <3>10 DEF OnPlayerCommandText
    <3>11. ASSUME NEW r \in Players, LookupAnswered(u, r)
           PROVE FoundBanned(s, p)'
      <4>1. PICK a : queue' = Append(queue, a)
        BY <3>11 DEF LookupAnswered
      <4>2. i \in 1..Len(queue') /\ queue'[i] = queue[i]
        BY <2>q, <4>1
      <4> QED
        BY <2>0, <2>i, <3>11, <4>2 DEF LookupAnswered, FoundBanned, HasAC
    <3>12. CASE RecheckBan(u)
      BY <2>0, <2>1, <3>12 DEF RecheckBan
    <3> QED
      BY <2>3, <3>1, <3>2, <3>3, <3>4, <3>5, <3>6, <3>7, <3>8, <3>9, <3>10,
         <3>11, <3>12 DEF SlotStep, Reports
  <2>4. CASE UNCHANGED vars
    BY <2>0, <2>1, <2>4 DEF vars
  <2> QED
    BY <2>2, <2>3, <2>4 DEF Next
<1>2. TypeOK /\ TypeOK' /\ Occupancy /\ LookedUp /\ [Next]_vars =>
        \A s \in Slots, p \in Players :
          FoundBanned(s, p) => \/ FoundBanned(s, p)'
                               \/ BeingKicked(s)'
                               \/ who'[s] # p
                               \/ ~acOn
  BY <1>1
<1> QED
  BY <1>2, TypeCorrect, OccupancyCorrect, LookupsCorrect, PTL
     DEF FoundBannedIsKicked, Spec

=============================================================================
