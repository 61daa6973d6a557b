--------------------------- MODULE FileScanProofs ---------------------------
(***************************************************************************)
(* For any number of players and timers and any lists of files: no object  *)
(* ever stops another player's scan, and a scan that is left alone asks    *)
(* for every file of the list.                                             *)
(***************************************************************************)
EXTENDS FileScan, TLAPS

IInv == TypeOK /\ TimerIsOwn /\ ToldBeforeIndex

\* What a callback does to the player table: it keeps the type, the timers
\* of the objects it keeps, and what their scans have asked for.
Keeps(s) ==
  /\ ac' \in [Slots -> Object \cup {NoAC}]
  /\ timers' \in [TimerIds -> Slots \cup {NoSlot}]
  /\ TimerIsOwn'
  /\ (Scanning(s) /\ ~ac[s].swapped)' =>
       /\ ac'[s].cur <= Len(names)
       /\ ac'[s].told = {names[i] : i \in 1..ac'[s].cur}
  /\ \A r \in Slots : r # s => ac'[r] = ac[r]

\* A list is a sequence of files, no longer than MaxLength.
LEMMA ListsAreShort ==
  \A l \in Lists : /\ Len(l) \in Nat /\ Len(l) <= MaxLength
                   /\ \A i \in 1..Len(l) : l[i] \in Files
  <1> SUFFICES ASSUME NEW l \in Lists
               PROVE  /\ Len(l) \in Nat /\ Len(l) <= MaxLength
                      /\ \A i \in 1..Len(l) : l[i] \in Files
    OBVIOUS
  <1>1. l \in Seq(Range(l)) /\ Len(l) <= MaxLength
    BY FileScanConstants
  <1>2. \A i \in 1..Len(l) : l[i] \in Range(l)
    BY <1>1
  <1>3. Range(l) \subseteq Files
    BY DEF Files
  <1> QED
    BY <1>1, <1>2, <1>3

LEMMA InitIInv == Init => IInv
  BY DEF Init, IInv, TypeOK, TimerIsOwn, ToldBeforeIndex, Scanning, HasAC

\* A step that keeps one slot's part of the table, the list and the others'
\* objects keeps the invariant.
LEMMA KeepsIInv ==
  ASSUME NEW s \in Slots, IInv, Keeps(s), names' = names,
         stage' \in [Slots -> {"free", "attached", "joined"}],
         reported' \in [Slots -> BOOLEAN]
  PROVE  IInv'
  <1>1. TypeOK' /\ TimerIsOwn'
    BY DEF IInv, TypeOK, Keeps
  <1>2. ASSUME NEW r \in Slots, (Scanning(r) /\ ~ac[r].swapped)'
        PROVE  /\ ac'[r].cur <= Len(names)
               /\ ac'[r].told = {names[i] : i \in 1..ac'[r].cur}
    <2>1. CASE r = s
      BY <1>2, <2>1 DEF Keeps
    <2>2. CASE r # s
      <3>1. ac'[r] = ac[r]
        BY <2>2 DEF Keeps
      <3>2. Scanning(r) /\ ~ac[r].swapped
        BY <1>2, <3>1 DEF Scanning, HasAC
      <3> QED
        BY <3>1, <3>2 DEF IInv, ToldBeforeIndex
    <2> QED
      BY <2>1, <2>2
  <1>3. ToldBeforeIndex'
    BY <1>2 DEF ToldBeforeIndex
  <1> QED
    BY <1>1, <1>3 DEF IInv

\* The destructor only kills the timer of its own slot.
LEMMA RemoveKeeps ==
  ASSUME NEW s \in Slots, IInv, HasAC(s), Remove(s)
  PROVE  Keeps(s)
  BY FileScanConstants, NullIsNoScan
  DEF IInv, TypeOK, TimerIsOwn, Remove, KillTimer, Keeps, Scanning, HasAC,
      Object

LEMMA CleanupKeeps ==
  ASSUME NEW s \in Slots, IInv, HasAC(s), Cleanup_CheckGTAFiles(s)
  PROVE  Keeps(s)
  BY FileScanConstants, NullIsNoScan
  DEF IInv, TypeOK, TimerIsOwn, Cleanup_CheckGTAFiles, KillTimer, Keeps,
      Scanning, HasAC, Object

\* A new scan gets a timer that no object has the id of.
LEMMA CheckKeeps ==
  ASSUME NEW s \in Slots, IInv, HasAC(s), CheckGTAFiles(s)
  PROVE  Keeps(s)
  <1>1. PICK t \in TimerIds :
          /\ KillTimer(ac[s].timer)[t] = NoSlot
          /\ timers' = [KillTimer(ac[s].timer) EXCEPT ![t] = s]
          /\ ac' = [ac EXCEPT ![s].timer = t, ![s].cur = 0,
                              ![s].told = {}, ![s].swapped = FALSE]
    BY DEF CheckGTAFiles
  <1>2. ac[s] \in Object /\ ac'[s] = [ac[s] EXCEPT !.timer = t, !.cur = 0,
                                        !.told = {}, !.swapped = FALSE]
    BY <1>1 DEF IInv, TypeOK, HasAC
  <1>3. ac'[s] \in Object /\ ac'[s].timer = t /\ ac'[s].cur = 0
        /\ ac'[s].told = {}
    <2>1. 0 \in Indices /\ {} \in SUBSET Files
      BY FileScanConstants DEF Indices
    <2>2. ac'[s] = [fresh |-> ac[s].fresh, timer |-> t, cur |-> 0,
                    told |-> {}, swapped |-> FALSE]
      BY <1>2 DEF Object
    <2> QED
      BY <1>2, <2>1, <2>2 DEF Object
  <1>4. \A r \in Slots : r # s => ac'[r] = ac[r]
    BY <1>1 DEF IInv, TypeOK
  <1>5. ac' \in [Slots -> Object \cup {NoAC}]
    BY <1>1, <1>3, <1>4 DEF IInv, TypeOK
  <1>6. timers' \in [TimerIds -> Slots \cup {NoSlot}] /\ timers'[t] = s
    BY <1>1 DEF IInv, TypeOK, KillTimer
  <1>7. ASSUME NEW r \in Slots, r # s, Scanning(r)
        PROVE  timers'[ac[r].timer] = r
    <2>1. timers[ac[r].timer] = r /\ ac[r].timer \in TimerIds
      BY <1>7 DEF IInv, TypeOK, TimerIsOwn, Scanning, HasAC, Object
    <2>2. ac[r].timer # ac[s].timer
      <3>1. ac[s].timer \in TimerIds => timers[ac[s].timer] = s
        BY FileScanConstants DEF IInv, TimerIsOwn, Scanning, HasAC
      <3> QED
        BY <1>7, <2>1, <3>1
    <2>3. KillTimer(ac[s].timer)[ac[r].timer] = r
      BY <2>1, <2>2 DEF KillTimer
    <2>4. ac[r].timer # t
      BY <1>1, <1>7, <2>3, FileScanConstants
    <2> QED
      BY <1>1, <2>1, <2>3, <2>4 DEF KillTimer
  <1>8. TimerIsOwn'
    BY <1>3, <1>4, <1>6, <1>7 DEF TimerIsOwn, Scanning, HasAC
  <1>9. 0 <= Len(names) /\ {names[i] : i \in 1..0} = {}
    BY ListsAreShort DEF IInv, TypeOK
  <1> QED
    BY <1>3, <1>4, <1>5, <1>6, <1>8, <1>9 DEF Keeps

\* The next file becomes one of those before the index.
LEMMA AskKeeps ==
  ASSUME NEW s \in Slots, IInv, HasAC(s), ac[s].cur < Len(names), AskNext(s)
  PROVE  Keeps(s)
  <1> DEFINE cur == ac[s].cur
  <1>1. ac[s] \in Object /\ cur \in Indices /\ ac[s].told \in SUBSET Files
    BY DEF IInv, TypeOK, HasAC, Object
  <1>2. Len(names) \in Nat /\ Len(names) <= MaxLength
        /\ \A i \in 1..Len(names) : names[i] \in Files
    BY ListsAreShort DEF IInv, TypeOK
  <1>3. cur \in Nat /\ cur + 1 \in 1..Len(names) /\ cur + 1 \in Indices
    BY <1>1, <1>2, FileScanConstants DEF Indices
  <1>4. names[cur + 1] \in Files
    BY <1>2, <1>3
  <1>5. ac' = [ac EXCEPT ![s] = [ac[s] EXCEPT
                 !.told = ac[s].told \cup {names[cur + 1]},
                 !.cur = cur + 1]]
    BY DEF AskNext, IInv, TypeOK
  <1>6. ac'[s] = [ac[s] EXCEPT !.told = ac[s].told \cup {names[cur + 1]},
                               !.cur = cur + 1]
    BY <1>5 DEF IInv, TypeOK
  <1>7. /\ ac'[s] \in Object
        /\ ac'[s].timer = ac[s].timer /\ ac'[s].swapped = ac[s].swapped
        /\ ac'[s].cur = cur + 1
        /\ ac'[s].told = ac[s].told \cup {names[cur + 1]}
    <2>1. ac[s].told \cup {names[cur + 1]} \in SUBSET Files
      BY <1>1, <1>4
    <2>2. ac'[s] = [fresh |-> ac[s].fresh, timer |-> ac[s].timer,
                    cur |-> cur + 1,
                    told |-> ac[s].told \cup {names[cur + 1]},
                    swapped |-> ac[s].swapped]
      BY <1>1, <1>6 DEF Object
    <2> QED
      BY <1>1, <1>3, <2>1, <2>2 DEF Object
  <1>8. \A r \in Slots : r # s => ac'[r] = ac[r]
    BY <1>5 DEF IInv, TypeOK
  <1>9. ac' \in [Slots -> Object \cup {NoAC}]
    BY <1>5, <1>6, <1>7 DEF IInv, TypeOK
  <1>10. timers' = timers /\ timers' \in [TimerIds -> Slots \cup {NoSlot}]
    BY DEF AskNext, IInv, TypeOK
  <1>11. TimerIsOwn'
    BY <1>7, <1>8, <1>10 DEF IInv, TimerIsOwn, Scanning, HasAC
  <1>12. ASSUME (Scanning(s) /\ ~ac[s].swapped)'
         PROVE  /\ ac'[s].cur <= Len(names)
                /\ ac'[s].told = {names[i] : i \in 1..ac'[s].cur}
    <2>1. Scanning(s) /\ ~ac[s].swapped
      BY <1>7, <1>12 DEF Scanning, HasAC
    <2>2. ac[s].told = {names[i] : i \in 1..cur}
      BY <2>1 DEF IInv, ToldBeforeIndex
    <2>3. 1..(cur + 1) = (1..cur) \cup {cur + 1}
      BY <1>3
    <2>4. {names[i] : i \in 1..(cur + 1)}
            = {names[i] : i \in 1..cur} \cup {names[cur + 1]}
      BY <2>3
    <2> QED
      BY <1>2, <1>3, <1>7, <2>2, <2>4
  <1> QED
    BY <1>8, <1>9, <1>10, <1>11, <1>12 DEF Keeps

\* The callbacks of one connection.
LEMMA SlotIInv ==
  ASSUME NEW s \in Slots, IInv, SlotStep(s)
  PROVE  IInv'
  <1>1. CASE Attach(s)
    BY <1>1 DEF Attach, IInv, TypeOK, TimerIsOwn, ToldBeforeIndex, Scanning,
                HasAC
  <1>2. CASE Drop(s)
    BY <1>2 DEF Drop, IInv, TypeOK, TimerIsOwn, ToldBeforeIndex, Scanning,
                HasAC
  <1>3. CASE OnIntialInfoGotten(s)
    <2>1. Keeps(s)
      <3>1. PICK cur \in Indices :
              ac' = [ac EXCEPT ![s] = [fresh |-> TRUE, timer |-> NoTimer,
                       cur |-> cur, told |-> {}, swapped |-> FALSE]]
        BY <1>3 DEF OnIntialInfoGotten
      <3>2. ac'[s].timer = NoTimer /\ ac'[s] \in Object
        BY <3>1 DEF IInv, TypeOK, Object
      <3>3. \A r \in Slots : r # s => ac'[r] = ac[r]
        BY <3>1 DEF IInv, TypeOK
      <3>4. ac' \in [Slots -> Object \cup {NoAC}] /\ timers' = timers
        BY <1>3, <3>1, <3>2 DEF OnIntialInfoGotten, IInv, TypeOK
      <3> QED
        BY <3>2, <3>3, <3>4
        DEF Keeps, IInv, TypeOK, TimerIsOwn, Scanning, HasAC
    <2>2. stage' = stage /\ reported' \in [Slots -> BOOLEAN] /\ names' = names
      BY <1>3 DEF OnIntialInfoGotten, IInv, TypeOK
    <2> QED
      BY <2>1, <2>2, KeepsIInv DEF IInv, TypeOK
  <1>4. CASE CreationTickExpires(s)
    <2>1. Keeps(s)
      <3>1. ac[s] \in Object /\ ac' = [ac EXCEPT ![s] = [ac[s] EXCEPT
                                                          !.fresh = FALSE]]
        BY <1>4 DEF CreationTickExpires, IInv, TypeOK, HasAC
      <3>2. ac'[s] = [ac[s] EXCEPT !.fresh = FALSE]
        BY <3>1 DEF IInv, TypeOK
      <3>3. /\ ac'[s] \in Object /\ ac'[s].timer = ac[s].timer
            /\ ac'[s].cur = ac[s].cur /\ ac'[s].told = ac[s].told
            /\ ac'[s].swapped = ac[s].swapped
        <4>1. ac'[s] = [fresh |-> FALSE, timer |-> ac[s].timer,
                        cur |-> ac[s].cur, told |-> ac[s].told,
                        swapped |-> ac[s].swapped]
          BY <3>1, <3>2 DEF Object
        <4>2. ac[s] \in Object
          BY <3>1
        <4> QED
          BY <4>1, <4>2 DEF Object
      <3>4. \A r \in Slots : r # s => ac'[r] = ac[r]
        BY <3>1 DEF IInv, TypeOK
      <3>5. ac' \in [Slots -> Object \cup {NoAC}] /\ timers' = timers
        BY <1>4, <3>1, <3>2, <3>3 DEF CreationTickExpires, IInv, TypeOK
      <3>6. HasAC(s)
        BY <1>4 DEF CreationTickExpires
      <3> QED
        BY <3>3, <3>4, <3>5, <3>6
        DEF Keeps, IInv, TypeOK, TimerIsOwn, ToldBeforeIndex, Scanning, HasAC
    <2>2. UNCHANGED <<stage, reported, names>>
      BY <1>4 DEF CreationTickExpires, connVars
    <2> QED
      BY <2>1, <2>2, KeepsIInv DEF IInv, TypeOK
  <1>5. CASE OnPlayerConnect(s)
    <2>1. stage' \in [Slots -> {"free", "attached", "joined"}]
          /\ reported' = reported /\ names' = names
      BY <1>5 DEF OnPlayerConnect, IInv, TypeOK
    <2>2. CASE HasAC(s) /\ CheckGTAFiles(s)
      BY <2>1, <2>2, CheckKeeps, KeepsIInv DEF IInv, TypeOK
    <2>3. CASE HasAC(s) /\ Remove(s)
      BY <2>1, <2>3, RemoveKeeps, KeepsIInv DEF IInv, TypeOK
    <2>4. CASE UNCHANGED <<ac, timers>>
      BY <2>1, <2>4
      DEF IInv, TypeOK, TimerIsOwn, ToldBeforeIndex, Scanning, HasAC
    <2> QED
      BY <1>5, <2>2, <2>3, <2>4 DEF OnPlayerConnect
  <1>6. CASE OnPlayerDisconnect(s)
    <2>1. stage' \in [Slots -> {"free", "attached", "joined"}]
          /\ reported' \in [Slots -> BOOLEAN] /\ names' = names
      BY <1>6 DEF OnPlayerDisconnect, IInv, TypeOK
    <2>2. CASE HasAC(s) /\ Remove(s)
      BY <2>1, <2>2, RemoveKeeps, KeepsIInv
    <2>3. CASE UNCHANGED <<ac, timers>>
      BY <2>1, <2>3
      DEF IInv, TypeOK, TimerIsOwn, ToldBeforeIndex, Scanning, HasAC
    <2> QED
      BY <1>6, <2>2, <2>3 DEF OnPlayerDisconnect
  <1> QED
    BY <1>1, <1>2, <1>3, <1>4, <1>5, <1>6 DEF SlotStep

\* A timer that fires works for the slot it was started for.
LEMMA TimerIInv ==
  ASSUME NEW t \in TimerIds, IInv, Timer_CheckGTAFiles(t)
  PROVE  IInv'
  <1>1. PICK s \in Slots : timers[t] = s
    BY DEF Timer_CheckGTAFiles, IInv, TypeOK
  <1>2. UNCHANGED <<stage, reported, names>>
    BY DEF Timer_CheckGTAFiles, connVars
  <1>3. CASE ~HasAC(s) /\ timers' = KillTimer(t) /\ UNCHANGED ac
    <2>1. timers' \in [TimerIds -> Slots \cup {NoSlot}]
      BY <1>3 DEF IInv, TypeOK, KillTimer
    <2>2. TimerIsOwn'
      <3> SUFFICES ASSUME NEW r \in Slots, Scanning(r)
                   PROVE  timers'[ac[r].timer] = r
        BY <1>3 DEF TimerIsOwn, Scanning, HasAC
      <3>1. timers[ac[r].timer] = r /\ ac[r].timer \in TimerIds
        BY DEF IInv, TypeOK, TimerIsOwn, Scanning, HasAC, Object
      <3>2. ac[r].timer # t
        BY <1>1, <1>3, <3>1 DEF Scanning
      <3> QED
        BY <1>3, <3>1, <3>2 DEF KillTimer
    <2>3. ToldBeforeIndex' /\ TypeOK'
      BY <1>2, <1>3, <2>1 DEF IInv, TypeOK, ToldBeforeIndex, Scanning, HasAC
    <2> QED
      BY <2>2, <2>3 DEF IInv
  <1>4. CASE HasAC(s) /\ Cleanup_CheckGTAFiles(s)
    BY <1>2, <1>4, CleanupKeeps, KeepsIInv DEF IInv, TypeOK
  <1>5. CASE HasAC(s) /\ ac[s].cur < Len(names) /\ AskNext(s)
    BY <1>2, <1>5, AskKeeps, KeepsIInv DEF IInv, TypeOK
  <1> QED
    BY <1>1, <1>3, <1>4, <1>5 DEF Timer_CheckGTAFiles

\* A new list marks every scan under way.
LEMMA UpdateIInv == IInv /\ OnCheatsUpdate => IInv'
  <1> SUFFICES ASSUME IInv, OnCheatsUpdate PROVE IInv'
    OBVIOUS
  <1>1. \A s \in Slots : ac'[s] = IF Scanning(s)
                                  THEN [ac[s] EXCEPT !.swapped = TRUE]
                                  ELSE ac[s]
    BY DEF OnCheatsUpdate
  <1>2. ASSUME NEW s \in Slots, Scanning(s)
        PROVE  /\ ac'[s] \in Object /\ ac'[s].swapped = TRUE
               /\ ac'[s].timer = ac[s].timer
    <2>1. ac[s] \in Object
      BY <1>2 DEF IInv, TypeOK, Scanning, HasAC
    <2>2. ac'[s] = [fresh |-> ac[s].fresh, timer |-> ac[s].timer,
                    cur |-> ac[s].cur, told |-> ac[s].told,
                    swapped |-> TRUE]
      BY <1>1, <1>2, <2>1 DEF Object
    <2> QED
      BY <2>1, <2>2 DEF Object
  <1>3. \A s \in Slots : ac'[s] \in Object \cup {NoAC}
    BY <1>1, <1>2 DEF IInv, TypeOK
  <1>4. ac' \in [Slots -> Object \cup {NoAC}]
    BY <1>3 DEF OnCheatsUpdate
  <1>5. \A s \in Slots : Scanning(s)' => Scanning(s)
    BY <1>1 DEF Scanning, HasAC
  <1>6. TypeOK'
    BY <1>4 DEF OnCheatsUpdate, connVars, IInv, TypeOK
  <1>7. TimerIsOwn'
    BY <1>2, <1>5 DEF OnCheatsUpdate, IInv, TimerIsOwn, Scanning, HasAC
  <1>8. ToldBeforeIndex'
    BY <1>2, <1>5 DEF ToldBeforeIndex
  <1> QED
    BY <1>6, <1>7, <1>8 DEF IInv

\* Every step keeps the invariant.
LEMMA NextIInv == IInv /\ [Next]_vars => IInv'
  <1>1. IInv /\ UNCHANGED vars => IInv'
    BY DEF IInv, TypeOK, TimerIsOwn, ToldBeforeIndex, Scanning, HasAC, vars
  <1> QED
    BY <1>1, SlotIInv, TimerIInv, UpdateIInv DEF Next

\* The scan state keeps its type.
THEOREM TypeCorrect == Spec => []TypeOK
  <1>1. IInv => TypeOK
    BY DEF IInv
  <1> QED
    BY InitIInv, NextIInv, <1>1, PTL DEF Spec

\* The timer an object has the id of is its own: no scan stops another.
THEOREM TimersOwned == Spec => []TimerIsOwn
  <1>1. IInv => TimerIsOwn
    BY DEF IInv
  <1> QED
    BY InitIInv, NextIInv, <1>1, PTL DEF Spec

\* A scan that ends while its player stays, under one list, is complete.
THEOREM ScansComplete == Spec => ScanIsComplete
  <1> DEFINE A == \A s \in Slots :
        (Scanning(s) /\ HasAC(s)' /\ ac'[s].timer = NoTimer /\ ~ac[s].swapped
           /\ reported'[s] = reported[s])
          => Range(names) \subseteq ac[s].told
  <1>1. ASSUME IInv, NEW s \in Slots, Scanning(s), ~ac[s].swapped,
               ac[s].cur >= Len(names)
        PROVE  Range(names) \subseteq ac[s].told
    <2>1. /\ ac[s].cur \in Nat /\ ac[s].cur <= Len(names)
          /\ ac[s].told = {names[i] : i \in 1..ac[s].cur}
      BY <1>1, FileScanConstants
      DEF IInv, ToldBeforeIndex, TypeOK, Scanning, HasAC, Object, Indices
    <2>2. Len(names) \in Nat /\ names \in Seq(Range(names))
      BY <1>1, ListsAreShort, FileScanConstants DEF IInv, TypeOK
    <2>3. ac[s].cur = Len(names)
      BY <1>1, <2>1, <2>2
    <2>4. DOMAIN names = 1..Len(names)
      BY <2>2
    <2> QED
      BY <2>1, <2>3, <2>4 DEF Range
  <1>2. IInv /\ Next => A
    <2> SUFFICES ASSUME IInv, Next, NEW s \in Slots,
                        Scanning(s), HasAC(s)', ac'[s].timer = NoTimer,
                        ~ac[s].swapped, reported'[s] = reported[s]
                 PROVE  Range(names) \subseteq ac[s].told
      OBVIOUS
    <2>1. ac[s] \in Object /\ ac'[s] # ac[s] /\ ac'[s] # NoAC
      BY DEF IInv, TypeOK, Scanning, HasAC
    <2>2. CASE OnCheatsUpdate
      <3>1. ac'[s] = [ac[s] EXCEPT !.swapped = TRUE]
        BY <2>2 DEF OnCheatsUpdate
      <3>2. ac'[s].timer = ac[s].timer
        BY <2>1, <3>1 DEF Object
      <3> QED
        BY <3>2 DEF Scanning
    <2>3. ASSUME NEW t \in TimerIds, Timer_CheckGTAFiles(t)
          PROVE  Range(names) \subseteq ac[s].told
      <3>1. PICK r \in Slots : timers[t] = r
        BY <2>3 DEF Timer_CheckGTAFiles, IInv, TypeOK
      <3>2. CASE UNCHANGED ac
        BY <2>1, <3>2
      <3>3. CASE ac[r].cur >= Len(names) /\ Cleanup_CheckGTAFiles(r)
        <4>1. r = s
          BY <2>1, <3>3 DEF Cleanup_CheckGTAFiles, IInv, TypeOK
        <4> QED
          BY <1>1, <3>3, <4>1
      <3>4. CASE HasAC(r) /\ AskNext(r)
        <4>1. r = s
          BY <2>1, <3>4 DEF AskNext, IInv, TypeOK
        <4>2. ac'[s].timer = ac[s].timer
          BY <2>1, <3>4, <4>1 DEF AskNext, IInv, TypeOK, Object
        <4> QED
          BY <4>2 DEF Scanning
      <3> QED
        BY <2>3, <3>1, <3>2, <3>3, <3>4 DEF Timer_CheckGTAFiles
    <2>4. ASSUME NEW r \in Slots, SlotStep(r)
          PROVE  Range(names) \subseteq ac[s].told
      <3>1. CASE UNCHANGED ac
        BY <2>1, <3>1
      <3>2. CASE Remove(r)
        BY <2>1, <3>2 DEF Remove, IInv, TypeOK
      <3>3. CASE OnIntialInfoGotten(r)
        <4>1. r = s
          BY <2>1, <3>3 DEF OnIntialInfoGotten, IInv, TypeOK
        <4>2. reported'[s] # reported[s]
          BY <3>3, <4>1 DEF OnIntialInfoGotten, IInv, TypeOK
        <4> QED
          BY <4>2
      <3>4. CASE CreationTickExpires(r)
        <4>1. r = s
          BY <2>1, <3>4 DEF CreationTickExpires, IInv, TypeOK
        <4>2. ac'[s].timer = ac[s].timer
          BY <2>1, <3>4, <4>1
          DEF CreationTickExpires, IInv, TypeOK, Object
        <4> QED
          BY <4>2 DEF Scanning
      <3>5. CASE HasAC(r) /\ CheckGTAFiles(r)
        <4>1. PICK t \in TimerIds :
                ac' = [ac EXCEPT ![r].timer = t, ![r].cur = 0,
                                 ![r].told = {}, ![r].swapped = FALSE]
          BY <3>5 DEF CheckGTAFiles
        <4>2. r = s
          BY <2>1, <4>1 DEF IInv, TypeOK
        <4>3. ac'[s].timer = t
          BY <2>1, <4>1, <4>2 DEF IInv, TypeOK, Object
        <4> QED
          BY <4>3, FileScanConstants
      <3> QED
        BY <2>4, <3>1, <3>2, <3>3, <3>4, <3>5
        DEF SlotStep, Attach, Drop, OnPlayerConnect, OnPlayerDisconnect
    <2> QED
      BY <2>2, <2>3, <2>4 DEF Next
  <1>3. IInv /\ [Next]_vars => [A]_vars
    BY <1>2
  <1>4. Spec => []IInv
    BY InitIInv, NextIInv, PTL DEF Spec
  <1>5. Spec => [][A]_vars
    BY <1>3, <1>4, PTL DEF Spec
  <1> QED
    BY <1>5 DEF ScanIsComplete

\* What a callback may do to the scan of a slot: end it, or leave it alone,
\* or move the same object's index forward.
Onward(s) ==
  /\ ac'[s].timer = ac[s].timer
  /\ ac'[s].cur >= ac[s].cur
  /\ ac[s].told \subseteq ac'[s].told

\* Only players that have joined are scanned: no scan outlives its player's
\* connection, and none is under way when an object is handed a new one.
ScansArePlayers == \A s \in Slots : Scanning(s) => stage[s] = "joined"

\* An object that is replaced, updated field by field or left as it is.
LEMMA ObjectUpdates ==
  ASSUME NEW o \in Object, NEW f
  PROVE  /\ o.timer \in TimerIds \cup {NoTimer} /\ o.cur \in Nat /\ o # NoAC
         /\ [o EXCEPT !.fresh = FALSE].timer = o.timer
         /\ [o EXCEPT !.fresh = FALSE].cur = o.cur
         /\ [o EXCEPT !.fresh = FALSE].told = o.told
         /\ [o EXCEPT !.swapped = TRUE].timer = o.timer
         /\ [o EXCEPT !.swapped = TRUE].cur = o.cur
         /\ [o EXCEPT !.swapped = TRUE].told = o.told
         /\ [o EXCEPT !.timer = NoTimer].timer = NoTimer
         /\ [o EXCEPT !.told = @ \cup {f}, !.cur = @ + 1].timer = o.timer
         /\ [o EXCEPT !.told = @ \cup {f}, !.cur = @ + 1].cur = o.cur + 1
         /\ [o EXCEPT !.told = @ \cup {f}, !.cur = @ + 1].told = o.told \cup {f}
  BY FileScanConstants, NullIsNoScan DEF Object, Indices

\* What each step does to one scan that is under way before it.
LEMMA ScanStep ==
  ASSUME IInv, ScansArePlayers, Next, NEW s \in Slots, Scanning(s)
  PROVE  Scanning(s)' => Onward(s) /\ stage'[s] = "joined"
  <1> SUFFICES ASSUME Scanning(s)' PROVE Onward(s) /\ stage'[s] = "joined"
    OBVIOUS
  <1>1. /\ ac[s] \in Object /\ ac[s].timer # NoTimer
        /\ ac'[s] # NoAC /\ ac'[s].timer # NoTimer
        /\ stage[s] = "joined" /\ ac[s].cur \in Nat
    BY ObjectUpdates DEF IInv, TypeOK, Scanning, HasAC, ScansArePlayers
  <1>2. ac'[s] = ac[s] => Onward(s)
    BY <1>1 DEF Onward
  <1>3. CASE OnCheatsUpdate
    <2>1. ac'[s] = [ac[s] EXCEPT !.swapped = TRUE] /\ stage' = stage
      BY <1>3 DEF OnCheatsUpdate, connVars
    <2> QED
      BY <1>1, <2>1, ObjectUpdates DEF Onward
  <1>4. ASSUME NEW t \in TimerIds, Timer_CheckGTAFiles(t)
        PROVE  Onward(s) /\ stage'[s] = "joined"
    <2>1. stage' = stage
      BY <1>4 DEF Timer_CheckGTAFiles, connVars
    <2>2. CASE UNCHANGED ac
      BY <1>1, <1>2, <2>1, <2>2
    <2>3. CASE Cleanup_CheckGTAFiles(timers[t])
      <3>1. timers[t] # s
        BY <1>1, <2>3, ObjectUpdates DEF Cleanup_CheckGTAFiles, IInv, TypeOK
      <3>2. ac'[s] = ac[s]
        BY <2>3, <3>1 DEF Cleanup_CheckGTAFiles, IInv, TypeOK
      <3> QED
        BY <1>1, <1>2, <2>1, <3>2
    <2>4. CASE AskNext(timers[t])
      <3>1. CASE timers[t] = s
        <4>1. ac'[s] = [ac[s] EXCEPT !.told = @ \cup {names[ac[s].cur + 1]},
                                     !.cur = @ + 1]
          BY <2>4, <3>1 DEF AskNext, IInv, TypeOK
        <4> QED
          BY <1>1, <2>1, <4>1, ObjectUpdates DEF Onward
      <3>2. CASE timers[t] # s
        BY <1>1, <1>2, <2>1, <2>4, <3>2 DEF AskNext, IInv, TypeOK
      <3> QED
        BY <3>1, <3>2
    <2> QED
      BY <1>4, <2>2, <2>3, <2>4 DEF Timer_CheckGTAFiles
  <1>5. ASSUME NEW r \in Slots, SlotStep(r)
        PROVE  Onward(s) /\ stage'[s] = "joined"
    <2>1. CASE r = s
      <3>1. CASE OnIntialInfoGotten(s)
        <4>1. ac'[s].timer = NoTimer
          BY <3>1 DEF OnIntialInfoGotten, IInv, TypeOK
        <4> QED
          BY <1>1, <4>1
      <3>2. CASE OnPlayerDisconnect(s)
        <4>1. Remove(s)
          BY <3>2 DEF OnPlayerDisconnect, Scanning
        <4>2. ac'[s] = NoAC
          BY <4>1 DEF Remove, IInv, TypeOK
        <4> QED
          BY <1>1, <4>2
      <3>3. ~Attach(s) /\ ~Drop(s) /\ ~OnPlayerConnect(s) /\ ~CreationTickExpires(s)
        BY <1>1 DEF Attach, Drop, OnPlayerConnect, CreationTickExpires
      <3> QED
        BY <1>5, <2>1, <3>1, <3>2, <3>3 DEF SlotStep
    <2>2. CASE r # s
      <3>1. stage'[s] = stage[s]
        BY <1>5, <2>2
        DEF SlotStep, Attach, Drop, OnIntialInfoGotten, CreationTickExpires,
            OnPlayerConnect, OnPlayerDisconnect, connVars, IInv, TypeOK
      <3>2. ac'[s] = ac[s]
        BY <1>5, <2>2
        DEF SlotStep, Attach, Drop, OnIntialInfoGotten, CreationTickExpires,
            OnPlayerConnect, OnPlayerDisconnect, CheckGTAFiles, Remove,
            IInv, TypeOK
      <3> QED
        BY <1>1, <1>2, <3>1, <3>2
    <2> QED
      BY <2>1, <2>2
  <1> QED
    BY <1>3, <1>4, <1>5 DEF Next

\* A scan begins in OnPlayerConnect and nowhere else.
LEMMA ScanBegins ==
  ASSUME IInv, Next, NEW s \in Slots, ~Scanning(s), Scanning(s)'
  PROVE  OnPlayerConnect(s) /\ stage'[s] = "joined"
  <1>0. /\ ac'[s] # ac[s] /\ ac'[s] # NoAC /\ ac'[s].timer # NoTimer
        /\ ac[s] \in Object => ac[s].timer = NoTimer /\ ac[s] # NoAC
    BY ObjectUpdates DEF Scanning, HasAC
  <1>t. ac \in [Slots -> Object \cup {NoAC}] /\ stage \in [Slots -> {"free", "attached", "joined"}]
    BY DEF IInv, TypeOK
  <1>1. ~OnCheatsUpdate
    BY <1>0 DEF OnCheatsUpdate
  <1>2. ASSUME NEW t \in TimerIds, Timer_CheckGTAFiles(t) PROVE FALSE
    <2>1. timers[t] = s /\ HasAC(s) /\ ac[s] \in Object
      BY <1>0, <1>2, <1>t
      DEF Timer_CheckGTAFiles, Cleanup_CheckGTAFiles, AskNext, HasAC
    <2>2. ac'[s].timer \in {ac[s].timer, NoTimer}
      <3>1. CASE Cleanup_CheckGTAFiles(s)
        BY <1>t, <2>1, <3>1, ObjectUpdates DEF Cleanup_CheckGTAFiles
      <3>2. CASE AskNext(s)
        <4>1. ac'[s] = [ac[s] EXCEPT !.told = @ \cup {names[ac[s].cur + 1]},
                                     !.cur = @ + 1]
          BY <1>t, <3>2 DEF AskNext
        <4> QED
          BY <2>1, <4>1, ObjectUpdates
      <3> QED
        BY <1>0, <1>2, <2>1, <3>1, <3>2 DEF Timer_CheckGTAFiles
    <2> QED
      BY <1>0, <2>1, <2>2
  <1>3. PICK r \in Slots : SlotStep(r)
    BY <1>1, <1>2 DEF Next
  <1>4. r = s
    BY <1>0, <1>3, <1>t
    DEF SlotStep, Attach, Drop, OnIntialInfoGotten, CreationTickExpires,
        OnPlayerConnect, OnPlayerDisconnect, CheckGTAFiles, Remove
  <1>5. ~OnIntialInfoGotten(s)
    BY <1>0, <1>t DEF OnIntialInfoGotten
  <1>6. ~CreationTickExpires(s)
    <2> SUFFICES ASSUME CreationTickExpires(s) PROVE FALSE
      OBVIOUS
    <2>1. ac[s] \in Object /\ ac'[s] = [ac[s] EXCEPT !.fresh = FALSE]
      BY <1>t DEF CreationTickExpires, HasAC
    <2> QED
      BY <1>0, <2>1, ObjectUpdates
  <1>7. ~Attach(s) /\ ~Drop(s)
    BY <1>0 DEF Attach, Drop
  <1>8. ~OnPlayerDisconnect(s)
    BY <1>0, <1>t DEF OnPlayerDisconnect, Remove
  <1>9. OnPlayerConnect(s)
    BY <1>3, <1>4, <1>5, <1>6, <1>7, <1>8 DEF SlotStep
  <1> QED
    BY <1>9, <1>t DEF OnPlayerConnect

\* Every object with a scan belongs to a player that has joined.
THEOREM ScannedHaveJoined == Spec => []ScansArePlayers
  <1>1. Init => ScansArePlayers
    BY DEF Init, ScansArePlayers, Scanning, HasAC
  <1>2. IInv /\ ScansArePlayers /\ [Next]_vars => ScansArePlayers'
    <2> SUFFICES ASSUME IInv, ScansArePlayers, [Next]_vars,
                        NEW s \in Slots, Scanning(s)'
                 PROVE  stage'[s] = "joined"
      BY DEF ScansArePlayers
    <2>1. CASE UNCHANGED vars
      BY <2>1 DEF vars, ScansArePlayers, Scanning, HasAC
    <2>2. CASE Next
      BY <2>2, ScanStep, ScanBegins
    <2> QED
      BY <2>1, <2>2
  <1> QED
    BY <1>1, <1>2, InitIInv, NextIInv, PTL DEF Spec

\* Once begun, a scan only goes forward, whatever the other players, the
\* timers left by other objects and new lists of files do: it is never put
\* back or started anew, and each time its own timer fires it ends or comes
\* one file closer to the end of the list.
THEOREM ScansGoForward ==
  Spec => [][\A s \in Slots : Scanning(s) =>
               /\ Scanning(s)' => Onward(s)
               /\ Timer_CheckGTAFiles(ac[s].timer) =>
                    \/ ~Scanning(s)'
                    \/ ac'[s].cur = ac[s].cur + 1 /\ ac'[s].cur <= Len(names)]_vars
  <1> DEFINE Forward == \A s \in Slots : Scanning(s) =>
               /\ Scanning(s)' => Onward(s)
               /\ Timer_CheckGTAFiles(ac[s].timer) =>
                    \/ ~Scanning(s)'
                    \/ ac'[s].cur = ac[s].cur + 1 /\ ac'[s].cur <= Len(names)
  <1>1. IInv /\ ScansArePlayers /\ [Next]_vars => [Forward]_vars
    <2> SUFFICES ASSUME IInv, ScansArePlayers, Next, NEW s \in Slots, Scanning(s)
                 PROVE  /\ Scanning(s)' => Onward(s)
                        /\ Timer_CheckGTAFiles(ac[s].timer) =>
                             \/ ~Scanning(s)'
                             \/ ac'[s].cur = ac[s].cur + 1 /\ ac'[s].cur <= Len(names)
      OBVIOUS
    <2>1. Scanning(s)' => Onward(s)
      BY ScanStep
    <2>2. ASSUME Timer_CheckGTAFiles(ac[s].timer)
          PROVE  \/ ~Scanning(s)'
                 \/ ac'[s].cur = ac[s].cur + 1 /\ ac'[s].cur <= Len(names)
      <3>1. timers[ac[s].timer] = s /\ HasAC(s) /\ ac[s] \in Object
        BY DEF IInv, TypeOK, TimerIsOwn, Scanning, HasAC
      <3>2. CASE Cleanup_CheckGTAFiles(s)
        <4>1. ac'[s].timer = NoTimer
          BY <3>1, <3>2, ObjectUpdates DEF Cleanup_CheckGTAFiles, IInv, TypeOK
        <4> QED
          BY <4>1 DEF Scanning
      <3>3. CASE AskNext(s) /\ ac[s].cur < Len(names)
        <4>1. ac'[s] = [ac[s] EXCEPT !.told = @ \cup {names[ac[s].cur + 1]},
                                     !.cur = @ + 1]
          BY <3>3 DEF AskNext, IInv, TypeOK
        <4>2. ac'[s].cur = ac[s].cur + 1 /\ ac[s].cur \in Nat
          BY <3>1, <4>1, ObjectUpdates
        <4>3. Len(names) \in Nat
          BY ListsAreShort DEF IInv, TypeOK
        <4> QED
          BY <3>3, <4>2, <4>3
      <3> QED
        BY <2>2, <3>1, <3>2, <3>3 DEF Timer_CheckGTAFiles
    <2> QED
      BY <2>1, <2>2
  <1>2. Spec => []IInv
    BY InitIInv, NextIInv, PTL DEF Spec
  <1>3. Spec => [][Forward]_vars
    BY <1>1, <1>2, ScannedHaveJoined, PTL DEF Spec
  <1> QED
    BY <1>3

=============================================================================
