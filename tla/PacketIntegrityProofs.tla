----------------------- MODULE PacketIntegrityProofs -----------------------
(* Proofs about PacketIntegrity, for any threads, addresses and limits.    *)
EXTENDS PacketIntegrity, TLAPS

LEMMA EntryFacts ==
  ASSUME NEW e \in Entry
  PROVE  /\ e # Free
         /\ e.md5 \in Contents /\ e.by \in Threads \cup {Nobody} /\ e.age \in 0..Old
         /\ [e EXCEPT !.age = Min(@ + 1, Old)] \in Entry
         /\ [e EXCEPT !.by = Nobody] \in Entry
         /\ [e EXCEPT !.age = Min(@ + 1, Old)].md5 = e.md5
         /\ [e EXCEPT !.age = Min(@ + 1, Old)].by = e.by
         /\ [e EXCEPT !.by = Nobody].md5 = e.md5
         /\ [e EXCEPT !.by = Nobody].age = e.age
<1>1. Old \in Nat BY IntegrityConstants DEF Old
<1>2. e.md5 \in Contents /\ e.by \in Threads \cup {Nobody} /\ e.age \in 0..Old BY DEF Entry
<1>3. Min(e.age + 1, Old) \in 0..Old BY <1>1, <1>2 DEF Min
<1>4. e # Free BY FreeIsNoEntry
<1> QED BY <1>2, <1>3, <1>4 DEF Entry

LEMMA NewEntry ==
  ASSUME NEW t \in Threads, NEW m \in Contents
  PROVE  [md5 |-> m, by |-> t, age |-> 0] \in Entry
BY IntegrityConstants DEF Entry, Old

(* What Check finds are addresses with a flag.                             *)
LEMMA FoundType ==
  ASSUME NEW t \in Threads
  PROVE  /\ Found(t) \in SUBSET (Addresses \X BOOLEAN)
         /\ \A a \in Addresses :
              /\ <<a, TRUE>> \in Found(t) <=> a \in Listed /\ Expired(t, a)
              /\ <<a, FALSE>> \in Found(t) <=>
                   a \in Listed /\ ~Expired(t, a) /\ instances[a].md5 = sending[t]
<1> DEFINE L == {x \in Listed : Expired(t, x)}
           E == {x \in Listed : ~Expired(t, x) /\ instances[x].md5 = sending[t]}
<1>1. L \subseteq Addresses /\ E \subseteq Addresses BY Zenon DEF Listed
<1>2. /\ \A a : a \in L <=> a \in Listed /\ Expired(t, a)
      /\ \A a : a \in E <=> a \in Listed /\ ~Expired(t, a) /\ instances[a].md5 = sending[t]
  BY Zenon
<1>3. Found(t) = {<<a, TRUE>> : a \in L} \cup {<<a, FALSE>> : a \in E} BY Zenon DEF Found
<1> HIDE DEF L, E
<1>4. Found(t) \in SUBSET (Addresses \X BOOLEAN)
  <2>1. \A a \in L : <<a, TRUE>> \in Addresses \X BOOLEAN BY <1>1
  <2>2. \A a \in E : <<a, FALSE>> \in Addresses \X BOOLEAN BY <1>1
  <2> QED BY <1>3, <2>1, <2>2, Zenon
<1>5. \A a : /\ <<a, TRUE>> \in Found(t) <=> a \in L
             /\ <<a, FALSE>> \in Found(t) <=> a \in E
  BY <1>3
<1> QED BY <1>2, <1>4, <1>5, Zenon

(* The process ends with the last packet that may be lost.                 *)
BelowLimit == process = "running" => lostPackets < MaxLostPackets

LEMMA TypeStep ==
  ASSUME TypeOK, BelowLimit, [Next]_vars PROVE TypeOK'
<1> USE IntegrityConstants
<1>t. \A a \in Listed : a \in Addresses /\ instances[a] \in Entry
  BY DEF TypeOK, Listed
<1>1. CASE Tick
  <2>1. instances' \in [Addresses -> Entry \cup {Free}]
    BY <1>1, <1>t, EntryFacts DEF Tick
  <2>2. lag' \in [Threads -> 0..MaxLag] BY <1>1 DEF TypeOK, Tick
  <2> QED BY <1>1, <2>1, <2>2, Zenon DEF TypeOK, Tick
<1>2. ASSUME NEW t \in Threads, Announce(t) PROVE TypeOK'
  <2> PICK a \in Addresses \ Listed, m \in Contents :
        /\ instances' = [instances EXCEPT ![a] = [md5 |-> m, by |-> t, age |-> 0]]
        /\ sending' = [sending EXCEPT ![t] = m]
    BY <1>2, Zenon DEF Announce
  <2>1. instances' \in [Addresses -> Entry \cup {Free}] BY NewEntry DEF TypeOK
  <2>2. /\ sending' \in [Threads -> Contents \cup {Other}]
        /\ pc' \in [Threads -> {"idle", "send", "check", "remove"}]
    BY <1>2 DEF TypeOK, Announce
  <2> QED BY <1>2, <2>1, <2>2, Zenon DEF TypeOK, Announce
<1>3. ASSUME NEW t \in Threads, Send(t) PROVE TypeOK'
  <2>1. instances' \in [Addresses -> Entry \cup {Free}]
    <3>1. CASE UNCHANGED instances BY <3>1 DEF TypeOK
    <3>2. CASE ~UNCHANGED instances
      <4>1. instances' = [a \in Addresses |->
              IF a \in Listed /\ instances[a].by = t
              THEN [instances[a] EXCEPT !.by = Nobody] ELSE instances[a]]
        BY <1>3, <3>2, Zenon DEF Send
      <4>2. \A a \in Addresses : instances[a] \in Entry \cup {Free} BY DEF TypeOK
      <4> QED BY <1>t, <4>1, <4>2, EntryFacts
    <3> QED BY <3>1, <3>2
  <2>2. /\ lag' \in [Threads -> 0..MaxLag]
        /\ pc' \in [Threads -> {"idle", "send", "check", "remove"}]
    BY <1>3 DEF TypeOK, Send, Enter
  <2> QED BY <1>3, <2>1, <2>2, Zenon DEF TypeOK, Send
<1>4. CASE GameSend
  BY <1>4 DEF TypeOK, GameSend, Enter
<1>5. ASSUME NEW t \in Threads, Check(t) PROVE TypeOK'
  <2>1. toRemove' \in [Threads -> SUBSET (Addresses \X BOOLEAN)]
    BY <1>5, FoundType, Zenon DEF TypeOK, Check
  <2>2. /\ lag' \in [Threads -> 0..MaxLag]
        /\ pc' \in [Threads -> {"idle", "send", "check", "remove"}]
    BY <1>5 DEF TypeOK, Check
  <2> QED BY <1>5, <2>1, <2>2, Zenon DEF TypeOK, Check
<1>6. ASSUME NEW t \in Threads, Remove(t) PROVE TypeOK'
  <2> PICK a \in Addresses, lost \in BOOLEAN :
       /\ lostPackets' = lostPackets + (IF lost THEN 1 ELSE 0)
       /\ \/ /\ lostPackets' >= MaxLostPackets
             /\ process' = "ended" /\ UNCHANGED <<instances, toRemove, pc>>
          \/ /\ lostPackets' < MaxLostPackets
             /\ process' \in IF a \in Listed THEN {"running"} ELSE {"running", "broken"}
             /\ instances' = [instances EXCEPT ![a] = Free]
             /\ toRemove' = [toRemove EXCEPT ![t] = @ \ {<<a, lost>>}]
             /\ pc' = [pc EXCEPT ![t] = IF toRemove'[t] = {} THEN "idle" ELSE "remove"]
    BY <1>6, Zenon DEF Remove
  <2>1. lostPackets \in Nat /\ lostPackets < MaxLostPackets
    BY <1>6 DEF TypeOK, Remove, BelowLimit
  <2>2. lostPackets' \in 0..MaxLostPackets BY <2>1
  <2>3. instances' \in [Addresses -> Entry \cup {Free}] BY Zenon DEF TypeOK
  <2>4. pc' \in [Threads -> {"idle", "send", "check", "remove"}] BY DEF TypeOK
  <2>5. toRemove' \in [Threads -> SUBSET (Addresses \X BOOLEAN)] BY DEF TypeOK
  <2>6. process' \in {"running", "ended", "broken"} BY Zenon DEF TypeOK
  <2> QED BY <1>6, <2>2, <2>3, <2>4, <2>5, <2>6, Zenon DEF TypeOK, Remove
<1>7. CASE UNCHANGED vars BY <1>7, Zenon DEF TypeOK, vars
<1> QED BY <1>1, <1>2, <1>3, <1>4, <1>5, <1>6, <1>7, Zenon DEF Next

LEMMA LimitStep ==
  ASSUME TypeOK, BelowLimit, [Next]_vars PROVE BelowLimit'
<1>1. CASE \E t \in Threads : Remove(t)
  BY <1>1 DEF Remove, BelowLimit
<1>2. CASE ~\E t \in Threads : Remove(t)
  <2>1. UNCHANGED <<process, lostPackets>>
    BY <1>2, Zenon DEF Next, vars, Tick, Announce, Send, GameSend, Check
  <2> QED BY <2>1 DEF BelowLimit
<1> QED BY <1>1, <1>2

LEMMA TypeInit == Init => TypeOK /\ BelowLimit
BY IntegrityConstants DEF Init, TypeOK, BelowLimit

(* The list, the count of lost packets and the state of every Check keep   *)
(* their types: the count never passes MAX_LOST_PACKETS.                   *)
THEOREM TypeCorrect == Spec => []TypeOK
<1>1. TypeOK /\ BelowLimit /\ [Next]_vars => TypeOK' /\ BelowLimit'
  BY TypeStep, LimitStep
<1> QED BY <1>1, TypeInit, PTL DEF Spec
-----------------------------------------------------------------------------
LEMMA UnsentStep ==
  ASSUME TypeOK, BelowLimit, OnlyUnsentStay, [Next]_vars PROVE OnlyUnsentStay'
<1> USE IntegrityConstants
<1>t. /\ \A a \in Listed : a \in Addresses /\ instances[a] \in Entry
      /\ pc \in [Threads -> {"idle", "send", "check", "remove"}]
      /\ sending \in [Threads -> Contents \cup {Other}]
      /\ instances \in [Addresses -> Entry \cup {Free}]
      /\ toRemove \in [Threads -> SUBSET (Addresses \X BOOLEAN)]
  BY DEF TypeOK, Listed
<1> DEFINE Own(a, t) ==
      \/ pc[t] \in {"send", "check"} /\ sending[t] = instances[a].md5
      \/ pc[t] = "remove" /\ \E lost \in BOOLEAN : <<a, lost>> \in toRemove[t]
<1>o. \A a \in Listed, t \in Threads : instances[a].by = t => Own(a, t)
  BY DEF OnlyUnsentStay, OnItsWay
<1>e. \A e \in Entry : e.by \in Threads \cup {Nobody} BY DEF Entry
<1> SUFFICES ASSUME NEW a \in Listed', NEW t \in Threads, instances'[a].by = t
             PROVE  Own(a, t)'
  <2>1. TypeOK' BY TypeStep
  <2>2. \A a \in Listed' : instances'[a] \in Entry BY <2>1 DEF TypeOK, Listed
  <2>3. \A a \in Listed' : instances'[a].by \in Threads \cup {Nobody} BY <1>e, <2>2
  <2> QED BY <2>3, Zenon DEF OnlyUnsentStay, OnItsWay
<1>a. a \in Addresses /\ instances'[a] # Free /\ t # Nobody BY DEF Listed
<1>1. CASE Tick
  <2>1. /\ a \in Listed /\ instances'[a].by = instances[a].by
        /\ instances'[a].md5 = instances[a].md5
    BY <1>1, <1>a, <1>t, EntryFacts DEF Tick
  <2>2. Own(a, t) BY <1>o, <2>1, Zenon
  <2> QED BY <1>1, <2>1, <2>2, Zenon DEF Tick
<1>2. ASSUME NEW u \in Threads, Announce(u) PROVE Own(a, t)'
  <2> PICK x \in Addresses \ Listed, m \in Contents :
        /\ instances' = [instances EXCEPT ![x] = [md5 |-> m, by |-> u, age |-> 0]]
        /\ sending' = [sending EXCEPT ![u] = m]
    BY <1>2, Zenon DEF Announce
  <2>1. pc' = [pc EXCEPT ![u] = "send"] /\ pc[u] = "idle" /\ UNCHANGED toRemove
    BY <1>2, Zenon DEF Announce
  <2>2. CASE a = x
    <3>1. t = u /\ instances'[a].md5 = m BY <1>t, <2>2
    <3> QED BY <1>t, <2>1, <3>1
  <2>3. CASE a # x
    <3>1. a \in Listed /\ instances'[a] = instances[a] BY <1>a, <1>t, <2>3 DEF Listed
    <3>2. Own(a, t) BY <1>o, <3>1, Zenon
    <3>3. t # u BY <2>1, <3>2
    <3> QED BY <1>t, <2>1, <3>1, <3>2, <3>3
  <2> QED BY <2>2, <2>3
<1>3. ASSUME NEW u \in Threads, Send(u) PROVE Own(a, t)'
  <2>0. UNCHANGED <<sending, toRemove>> /\ pc[u] = "send" BY <1>3, Zenon DEF Send
  <2>1. CASE Enter(u) /\ UNCHANGED instances
    <3>1. a \in Listed BY <1>a, <2>1, Zenon DEF Listed
    <3>2. Own(a, t) BY <1>o, <2>1, <3>1, Zenon
    <3> QED BY <1>t, <2>0, <2>1, <3>2 DEF Enter
  <2>2. CASE ~(Enter(u) /\ UNCHANGED instances)
    <3>1. /\ instances' = [x \in Addresses |->
                IF x \in Listed /\ instances[x].by = u
                THEN [instances[x] EXCEPT !.by = Nobody] ELSE instances[x]]
          /\ pc' = [pc EXCEPT ![u] = "idle"]
      BY <1>3, <2>2, Zenon DEF Send
    <3>2. a \in Listed
      <4>1. CASE a \in Listed /\ instances[a].by = u BY <4>1
      <4>2. CASE ~(a \in Listed /\ instances[a].by = u)
        <5>1. instances'[a] = instances[a] BY <1>a, <3>1, <4>2, Zenon
        <5> QED BY <1>a, <5>1, Zenon DEF Listed
      <4> QED BY <4>1, <4>2
    <3>3. instances[a].by # u
      <4>1. CASE instances[a].by = u
        <5>1. instances'[a] = [instances[a] EXCEPT !.by = Nobody] BY <1>a, <3>1, <3>2, <4>1, Zenon
        <5>2. instances'[a].by = Nobody BY <1>t, <3>2, <5>1 DEF Entry
        <5> QED BY <1>a, <5>2
      <4> QED BY <4>1
    <3>4. instances'[a] = instances[a] BY <1>a, <3>1, <3>3, Zenon
    <3>5. Own(a, t) /\ t # u BY <1>o, <3>2, <3>3, <3>4, Zenon
    <3> QED BY <1>t, <2>0, <3>1, <3>4, <3>5
  <2> QED BY <2>1, <2>2
<1>4. CASE GameSend
  <2>1. /\ a \in Listed /\ UNCHANGED <<instances, toRemove>> /\ pc[Game] = "idle"
        /\ pc' = [pc EXCEPT ![Game] = "check"] /\ sending' = [sending EXCEPT ![Game] = Other]
    BY <1>4, <1>a, Zenon DEF GameSend, Enter, Listed
  <2>2. Own(a, t) BY <1>o, <2>1, Zenon
  <2> QED BY <1>t, <2>1, <2>2
<1>5. ASSUME NEW u \in Threads, Check(u) PROVE Own(a, t)'
  <2>1. a \in Listed /\ UNCHANGED <<instances, sending>> BY <1>5, <1>a, Zenon DEF Check, Listed
  <2>2. Own(a, t) BY <1>o, <2>1, Zenon
  <2>3. CASE t = u
    <3>1. sending[t] = instances[a].md5 BY <1>5, <2>2, <2>3 DEF Check
    <3>2. \E lost \in BOOLEAN : <<a, lost>> \in Found(t)
      BY <1>a, <2>1, <3>1, FoundType, Zenon
    <3>3. pc'[t] = "remove" /\ toRemove'[t] = Found(t)
      BY <1>5, <1>t, <2>3, <3>2, Zenon DEF Check
    <3> QED BY <3>2, <3>3
  <2>4. CASE t # u
    <3>1. pc'[t] = pc[t] /\ toRemove'[t] = toRemove[t] BY <1>5, <1>t, <2>4, Zenon DEF Check
    <3> QED BY <2>1, <2>2, <3>1
  <2> QED BY <2>3, <2>4
<1>6. ASSUME NEW u \in Threads, Remove(u) PROVE Own(a, t)'
  <2> PICK x \in Addresses, lost \in BOOLEAN :
       \/ process' = "ended" /\ UNCHANGED <<instances, toRemove, pc>>
       \/ /\ instances' = [instances EXCEPT ![x] = Free]
          /\ toRemove' = [toRemove EXCEPT ![u] = @ \ {<<x, lost>>}]
          /\ pc' = [pc EXCEPT ![u] = IF toRemove'[u] = {} THEN "idle" ELSE "remove"]
    BY <1>6, Zenon DEF Remove
  <2>0. UNCHANGED sending /\ pc[u] = "remove" BY <1>6, Zenon DEF Remove
  <2>1. CASE UNCHANGED <<instances, toRemove, pc>>
    BY <1>a, <1>o, <2>0, <2>1, Zenon DEF Listed
  <2>2. CASE ~UNCHANGED <<instances, toRemove, pc>>
    <3>1. a # x /\ instances'[a] = instances[a] BY <1>a, <1>t, <2>2
    <3>2. a \in Listed BY <1>a, <3>1, Zenon DEF Listed
    <3>3. Own(a, t) BY <1>o, <3>1, <3>2, Zenon
    <3>4. CASE t = u
      <4>1. PICK l \in BOOLEAN : <<a, l>> \in toRemove[u] BY <2>0, <3>3, <3>4
      <4>2. toRemove'[u] = toRemove[u] \ {<<x, lost>>} BY <1>t, <2>2, Zenon
      <4>3. <<a, l>> # <<x, lost>> BY <3>1
      <4>4. <<a, l>> \in toRemove'[u] BY <4>1, <4>2, <4>3, Zenon
      <4>5. pc'[u] = "remove" BY <1>t, <2>2, <4>4, Zenon
      <4> QED BY <3>4, <4>4, <4>5, Zenon
    <3>5. CASE t # u
      <4>1. pc'[t] = pc[t] /\ toRemove'[t] = toRemove[t] BY <1>t, <2>2, <3>5, Zenon
      <4> QED BY <2>0, <3>1, <3>3, <4>1
    <3> QED BY <3>4, <3>5
  <2> QED BY <2>1, <2>2
<1>7. CASE UNCHANGED vars
  BY <1>7, <1>a, <1>o, Zenon DEF vars, Listed
<1> QED BY <1>1, <1>2, <1>3, <1>4, <1>5, <1>6, <1>7, Zenon DEF Next

(* A packet that RakNet took is not in the list any more when its sender   *)
(* comes back, whoever else looked through the list meanwhile.             *)
THEOREM SentAreForgotten == Spec => []OnlyUnsentStay
<1>1. Init => OnlyUnsentStay BY DEF Init, OnlyUnsentStay, Listed
<1>2. TypeOK /\ BelowLimit /\ OnlyUnsentStay /\ [Next]_vars
        => TypeOK' /\ BelowLimit' /\ OnlyUnsentStay'
  BY TypeStep, LimitStep, UnsentStep
<1> QED BY <1>1, <1>2, TypeInit, PTL DEF Spec
-----------------------------------------------------------------------------
(* A thread in Check has asked for the time after it announced its packet. *)
OwnIsOlder ==
  \A a \in Listed : LET t == instances[a].by IN
    t \in Threads /\ pc[t] = "check" => instances[a].age >= lag[t]

LEMMA OwnStep ==
  ASSUME TypeOK, OwnIsOlder, [Next]_vars PROVE OwnIsOlder'
<1> USE IntegrityConstants
<1>t. /\ \A a \in Listed : a \in Addresses /\ instances[a] \in Entry
      /\ pc \in [Threads -> {"idle", "send", "check", "remove"}]
      /\ lag \in [Threads -> 0..MaxLag]
      /\ instances \in [Addresses -> Entry \cup {Free}]
  BY DEF TypeOK, Listed
<1>e. \A a \in Listed : instances[a].age \in 0..Old BY <1>t, EntryFacts
<1> SUFFICES ASSUME NEW a \in Listed', NEW t \in Threads,
                    instances'[a].by = t, pc'[t] = "check"
             PROVE  instances'[a].age >= lag'[t]
  BY DEF OwnIsOlder
<1>a. a \in Addresses /\ instances'[a] # Free /\ t # Nobody BY DEF Listed
(* If the entry, its sender and the sender's clock stay, it stays so.      *)
<1>s. ASSUME instances'[a] = instances[a], pc'[t] = pc[t], lag'[t] = lag[t]
      PROVE  instances'[a].age >= lag'[t]
  BY <1>a, <1>s DEF OwnIsOlder, Listed
<1>1. CASE Tick
  <2>1. /\ a \in Listed /\ instances'[a].by = instances[a].by
        /\ instances'[a] = [instances[a] EXCEPT !.age = Min(@ + 1, Old)]
    BY <1>1, <1>a, <1>t, EntryFacts DEF Tick
  <2>2. instances'[a].age = Min(instances[a].age + 1, Old)
    BY <1>t, <2>1 DEF Entry
  <2>3. pc[t] = "check" /\ lag'[t] = lag[t] + 1 /\ lag[t] < MaxLag /\ lag[t] \in Nat
    BY <1>1, <1>t DEF Tick
  <2>4. instances[a].age >= lag[t] BY <2>1, <2>3 DEF OwnIsOlder
  <2> QED BY <1>e, <2>1, <2>2, <2>3, <2>4 DEF Min, Old
<1>2. ASSUME NEW u \in Threads, Announce(u) PROVE instances'[a].age >= lag'[t]
  <2> PICK x \in Addresses \ Listed, m \in Contents :
        instances' = [instances EXCEPT ![x] = [md5 |-> m, by |-> u, age |-> 0]]
    BY <1>2, Zenon DEF Announce
  <2>1. pc' = [pc EXCEPT ![u] = "send"] /\ UNCHANGED lag
    BY <1>2, Zenon DEF Announce
  <2>2. t # u BY <1>t, <2>1
  <2>3. a # x BY <1>t, <2>2
  <2> QED BY <1>a, <1>s, <1>t, <2>1, <2>2, <2>3
<1>3. ASSUME NEW u \in Threads, Send(u) PROVE instances'[a].age >= lag'[t]
  <2>1. CASE Enter(u) /\ UNCHANGED instances
    <3>1. a \in Listed BY <1>a, <2>1, Zenon DEF Listed
    <3>2. CASE t = u
      <4>1. lag'[t] = 0 BY <1>t, <2>1, <3>2 DEF Enter
      <4> QED BY <1>e, <2>1, <3>1, <4>1
    <3>3. CASE t # u BY <1>s, <1>t, <2>1, <3>3 DEF Enter
    <3> QED BY <3>2, <3>3
  <2>2. CASE ~(Enter(u) /\ UNCHANGED instances)
    <3>1. /\ instances' = [x \in Addresses |->
                IF x \in Listed /\ instances[x].by = u
                THEN [instances[x] EXCEPT !.by = Nobody] ELSE instances[x]]
          /\ pc' = [pc EXCEPT ![u] = "idle"] /\ UNCHANGED lag
      BY <1>3, <2>2, Zenon DEF Send
    <3>2. t # u BY <1>t, <3>1
    <3>3. ~(a \in Listed /\ instances[a].by = u)
      <4>1. SUFFICES ASSUME a \in Listed, instances[a].by = u PROVE FALSE OBVIOUS
      <4>2. instances'[a] = [instances[a] EXCEPT !.by = Nobody] BY <1>a, <3>1, <4>1, Zenon
      <4>3. instances'[a].by = Nobody BY <1>t, <4>1, <4>2 DEF Entry
      <4> QED BY <1>a, <4>3
    <3>4. instances'[a] = instances[a] BY <1>a, <3>1, <3>3, Zenon
    <3> QED BY <1>s, <1>t, <3>1, <3>2, <3>4
  <2> QED BY <2>1, <2>2
<1>4. CASE GameSend
  <2>1. /\ a \in Listed /\ UNCHANGED instances
        /\ pc' = [pc EXCEPT ![Game] = "check"] /\ lag' = [lag EXCEPT ![Game] = 0]
    BY <1>4, <1>a, Zenon DEF GameSend, Enter, Listed
  <2>2. CASE t = Game BY <1>e, <1>t, <2>1, <2>2
  <2>3. CASE t # Game BY <1>s, <1>t, <2>1, <2>3
  <2> QED BY <2>2, <2>3
<1>5. ASSUME NEW u \in Threads, Check(u) PROVE instances'[a].age >= lag'[t]
  <2>1. /\ UNCHANGED instances /\ lag' = [lag EXCEPT ![u] = 0]
        /\ pc' = [pc EXCEPT ![u] = IF Found(u) = {} THEN "idle" ELSE "remove"]
    BY <1>5, Zenon DEF Check
  <2>2. t # u BY <1>t, <2>1
  <2> QED BY <1>s, <1>t, <2>1, <2>2
<1>6. ASSUME NEW u \in Threads, Remove(u) PROVE instances'[a].age >= lag'[t]
  <2> PICK x \in Addresses, lost \in BOOLEAN :
       \/ UNCHANGED <<instances, pc>>
       \/ /\ instances' = [instances EXCEPT ![x] = Free]
          /\ pc' = [pc EXCEPT ![u] = IF toRemove'[u] = {} THEN "idle" ELSE "remove"]
    BY <1>6, Zenon DEF Remove
  <2>0. UNCHANGED lag BY <1>6, Zenon DEF Remove
  <2>1. CASE UNCHANGED <<instances, pc>> BY <1>s, <2>0, <2>1
  <2>2. CASE ~UNCHANGED <<instances, pc>>
    <3>1. a # x /\ instances'[a] = instances[a] BY <1>a, <1>t, <2>2
    <3>2. t # u BY <1>t, <2>2
    <3> QED BY <1>s, <1>t, <2>0, <2>2, <3>1, <3>2
  <2> QED BY <2>1, <2>2
<1>7. CASE UNCHANGED vars BY <1>7, <1>s, Zenon DEF vars
<1> QED BY <1>1, <1>2, <1>3, <1>4, <1>5, <1>6, <1>7, Zenon DEF Next

(* Whichever threads send, what counts as lost has waited too long and was *)
(* not removed by its own send, or was announced by another thread after   *)
(* this one had asked for the time: it takes that race to count a packet   *)
(* as lost too early.                                                      *)
THEOREM LossesAreExplained == Spec => LossesExplained
<1> USE IntegrityConstants
<1> DEFINE Explained == \A t \in Threads : Check(t) =>
       \A a \in Listed : <<a, TRUE>> \in toRemove'[t] =>
         \/ /\ instances[a].age > MaxTimeDifference
            /\ instances[a].by = Nobody \/ OnItsWay(a)
         \/ instances[a].age < lag[t] /\ instances[a].by # t
<1>1. Init => OwnIsOlder BY DEF Init, OwnIsOlder, Listed
<1>2. TypeOK /\ OwnIsOlder /\ [Next]_vars => OwnIsOlder' BY OwnStep
<1>3. TypeOK /\ OnlyUnsentStay /\ OwnIsOlder /\ [Next]_vars => [Explained]_vars
  <2> SUFFICES ASSUME TypeOK, OnlyUnsentStay, OwnIsOlder, NEW t \in Threads, Check(t),
                      NEW a \in Listed, <<a, TRUE>> \in toRemove'[t]
               PROVE  \/ /\ instances[a].age > MaxTimeDifference
                         /\ instances[a].by = Nobody \/ OnItsWay(a)
                      \/ instances[a].age < lag[t] /\ instances[a].by # t
    BY Zenon
  <2>1. a \in Addresses /\ instances[a] \in Entry /\ lag[t] \in 0..MaxLag
    BY DEF TypeOK, Listed
  <2>2. instances[a].age \in 0..Old BY <2>1, EntryFacts
  <2>3. toRemove'[t] = Found(t) /\ pc[t] = "check" BY Zenon DEF Check, TypeOK
  <2>4. Expired(t, a) BY <2>1, <2>3, FoundType, Zenon
  <2>5. instances[a].by = Nobody \/ OnItsWay(a) BY DEF OnlyUnsentStay
  <2>6. CASE instances[a].age >= lag[t]
    <3>1. instances[a].age > MaxTimeDifference
      BY <2>1, <2>2, <2>4, <2>6 DEF Expired, Difference
    <3> QED BY <2>5, <3>1
  <2>7. CASE ~(instances[a].age >= lag[t])
    <3>1. instances[a].by # t BY <2>3, <2>7 DEF OwnIsOlder
    <3>2. instances[a].age < lag[t] BY <2>1, <2>2, <2>7
    <3> QED BY <3>1, <3>2
  <2> QED BY <2>6, <2>7
<1>4. Spec => [][Explained]_vars
  BY <1>1, <1>2, <1>3, TypeCorrect, SentAreForgotten, PTL DEF Spec
<1> QED BY <1>4, Zenon DEF LossesExplained
=============================================================================
