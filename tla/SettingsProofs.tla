--------------------------- MODULE SettingsProofs ---------------------------
(* Proofs about Settings, for every setting and any bound on the packets   *)
(* under way.                                                              *)
EXTENDS Settings, TLAPS

(* Only connections that have joined are sent settings.                    *)
QuietBeforeJoin == /\ stage # "joined" => wire = <<>>
                   /\ sent => stage = "joined"

(* The two sides agree, or will.                                           *)
Agreed == stage = "joined" /\ sent /\ Fits => ac = Settled

(* The inductive invariant.                                                *)
IInv == /\ TypeOK
        /\ QuietBeforeJoin
        /\ Agreed
        /\ FrameLimitComesFromScripts

-----------------------------------------------------------------------------
(* What the 16 bits of a packet keep is again a value of the model.        *)
LEMMA WrittenIsValue ==
  ASSUME setting \in AllSettings, NEW v \in Candidates(setting)
  PROVE  Written(v) \in Values
BY SMTT(30) DEF Written, Candidates, Values, AllSettings, Toggles

(* The client's read of a frame limit fails.                               *)
LEMMA FrameLimitDoesNotFit == setting = "frameLimit" => ~Fits
BY DEF Fits, BitsRead, BitsSent, Toggles

(* A packet that fits arrives as it was written, also at the end of others. *)
LEMMA LastOfAppend ==
  ASSUME NEW w \in Seq(Values), NEW v \in Values
  PROVE  /\ Append(w, v) \in Seq(Values)
         /\ Append(w, v) # <<>>
         /\ Append(w, v)[Len(Append(w, v))] = v
OBVIOUS

LEMMA LastOfTail ==
  ASSUME NEW w \in Seq(Values), w # <<>>
  PROVE  /\ Tail(w) \in Seq(Values) /\ Head(w) \in Values
         /\ Tail(w) = <<>> => Head(w) = w[Len(w)]
         /\ Tail(w) # <<>> => Tail(w)[Len(Tail(w))] = w[Len(w)]
<1>1. /\ Tail(w) \in Seq(Values) /\ Head(w) \in Values
      /\ Len(Tail(w)) = Len(w) - 1 /\ Len(w) \in Nat \ {0}
      /\ \A i \in 1..Len(Tail(w)) : Tail(w)[i] = w[i + 1]
  OBVIOUS
<1>2. CASE Tail(w) = <<>>
  <2>0. Len(<<>>) = 0 OBVIOUS
  <2>a. Len(Tail(w)) = 0 BY <1>2, <2>0, Zenon
  <2>b. /\ Len(Tail(w)) = Len(w) - 1 /\ Len(w) \in Nat BY <1>1
  <2> HIDE <1>1, <1>2
  <2>1. Len(w) = 1 BY <2>a, <2>b
  <2> QED BY <1>1, <1>2, <2>1
<1>3. CASE Tail(w) # <<>>
  <2>1. Len(Tail(w)) \in 1..Len(Tail(w)) BY <1>1, <1>3
  <2> QED BY <1>1, <1>3, <2>1
<1> QED BY <1>1, <1>2, <1>3

LEMMA InitialIsValue ==
  ASSUME setting \in AllSettings
  PROVE  /\ Initial \in Values
         /\ setting = "frameLimit" => Initial = 9999
BY DEF Initial, Values, AllSettings, Toggles

(* Sending and remembering a value keeps the two sides together.           *)
LEMMA ToggleKeeps ==
  ASSUME IInv, NEW v \in Candidates(setting), Toggle(v)
  PROVE  /\ wire' \in Seq(Values) /\ ac' \in Values /\ sent' = TRUE
         /\ wire' # <<>> /\ wire'[Len(wire')] = ac'
<1>1. Written(v) \in Values BY WrittenIsValue DEF IInv, TypeOK
<1> QED BY <1>1, LastOfAppend DEF IInv, TypeOK, Toggle, PlayerSend

LEMMA InitOK == Init => IInv
<1> SUFFICES ASSUME Init PROVE IInv OBVIOUS
<1>0. Initial \in Values BY InitialIsValue DEF Init
<1>b. infoDue \in BOOLEAN /\ recent \in BOOLEAN /\ sent \in BOOLEAN
  BY DEF Init
<1>1. TypeOK BY <1>0, <1>b DEF Init, TypeOK
<1>2. QuietBeforeJoin /\ Agreed
  BY DEF Init, QuietBeforeJoin, Agreed
<1>3. FrameLimitComesFromScripts
  BY InitialIsValue DEF Init, FrameLimitComesFromScripts
<1> QED BY <1>1, <1>2, <1>3 DEF IInv

LEMMA StepOK == IInv /\ [Next]_vars => IInv'
<1> SUFFICES ASSUME IInv, [Next]_vars PROVE IInv' OBVIOUS
<1> USE DEF IInv
<1> setting' = setting
  BY DEF Next, vars, Attach, OnIntialInfoGotten, OnPlayerConnect, CallNative,
     CreationTickExpires, Receive, OnPlayerDisconnect, PlayElsewhere
<1> setting \in AllSettings BY DEF TypeOK
<1>fit. Fits' = Fits BY DEF Fits, BitsRead, BitsSent
<1>1. CASE Attach
  BY <1>1, <1>fit DEF Attach, TypeOK, QuietBeforeJoin, Agreed,
     FrameLimitComesFromScripts, Settled
<1>2. CASE OnIntialInfoGotten
  <2>1. ac' = Initial BY <1>2 DEF OnIntialInfoGotten, NewObject, FrameLimitInHeader
  <2>b. infoDue' \in BOOLEAN /\ recent' \in BOOLEAN /\ sent' \in BOOLEAN
    BY <1>2 DEF OnIntialInfoGotten, TypeOK
  <2>2. TypeOK' BY <1>2, <2>1, <2>b, InitialIsValue DEF OnIntialInfoGotten, TypeOK
  <2>3. QuietBeforeJoin' /\ Agreed'
    BY <1>2 DEF OnIntialInfoGotten, QuietBeforeJoin, Agreed
  <2>4. FrameLimitComesFromScripts'
    BY <1>2, <2>1, InitialIsValue
    DEF OnIntialInfoGotten, FrameLimitComesFromScripts
  <2> QED BY <2>2, <2>3, <2>4
<1>3. CASE OnPlayerConnect
  <2>0. /\ stage' = "joined"
        /\ UNCHANGED <<config, infoDue, recent, client>>
    BY <1>3 DEF OnPlayerConnect
  <2>1. CASE Toggle(config) /\ setting # "frameLimit"
    <3>1. /\ wire' \in Seq(Values) /\ ac' \in Values /\ sent' = TRUE
          /\ wire' # <<>> /\ wire'[Len(wire')] = ac'
      BY <2>1, ToggleKeeps DEF TypeOK
    <3> QED BY <2>0, <2>1, <3>1
      DEF TypeOK, QuietBeforeJoin, Agreed, Settled,
          FrameLimitComesFromScripts
  <2>2. CASE UNCHANGED <<ac, sent, wire>> /\ stage = "attached"
    BY <2>0, <2>2, <1>fit
    DEF TypeOK, QuietBeforeJoin, Agreed, Settled,
        FrameLimitComesFromScripts
  <2>3. CASE ac' = NoAC /\ sent' = FALSE /\ UNCHANGED wire
    <3>b. sent' \in BOOLEAN BY <2>3
    <3> QED BY <2>0, <2>3, <3>b
      DEF TypeOK, QuietBeforeJoin, Agreed,
          FrameLimitComesFromScripts
  <2> QED BY <1>3, <2>1, <2>2, <2>3 DEF OnPlayerConnect
<1>4. CASE CreationTickExpires
  <2>b. recent' \in BOOLEAN BY <1>4 DEF CreationTickExpires
  <2> QED BY <1>4, <1>fit, <2>b
    DEF CreationTickExpires, TypeOK, QuietBeforeJoin,
        Agreed, Settled, FrameLimitComesFromScripts
<1>5. CASE CallNative
  <2>0. /\ stage = "joined"
        /\ UNCHANGED <<config, stage, infoDue, recent, client>>
    BY <1>5 DEF CallNative
  <2>1. PICK v \in Candidates(setting) :
          \/ setting # "frameLimit" /\ Toggle(v)
          \/ setting = "frameLimit" /\ PlayerSend(v) /\ ac' = v
    BY <1>5 DEF CallNative, Toggles
  <2>2. CASE setting # "frameLimit" /\ Toggle(v)
    <3>1. /\ wire' \in Seq(Values) /\ ac' \in Values /\ sent' = TRUE
          /\ wire' # <<>> /\ wire'[Len(wire')] = ac'
      BY <2>2, ToggleKeeps
    <3> QED BY <2>0, <2>2, <3>1
      DEF TypeOK, QuietBeforeJoin, Agreed, Settled,
          FrameLimitComesFromScripts
  <2>3. CASE setting = "frameLimit" /\ PlayerSend(v) /\ ac' = v
    <3>1. Written(v) \in Values BY WrittenIsValue
    <3>2. wire' \in Seq(Values) /\ sent' = TRUE
      BY <2>3, <3>1, LastOfAppend DEF PlayerSend, TypeOK
    <3>3. v \in Values BY <2>3 DEF Candidates, Values, Toggles
    <3>4. ~Fits' BY <2>3, <1>fit, FrameLimitDoesNotFit
    <3> QED BY <2>0, <2>3, <3>2, <3>3, <3>4
      DEF TypeOK, QuietBeforeJoin, Agreed,
          FrameLimitComesFromScripts
  <2> QED BY <2>1, <2>2, <2>3
<1>6. CASE Receive
  <2>1. /\ wire # <<>> /\ wire \in Seq(Values) /\ wire' = Tail(wire)
        /\ client' = (IF Fits THEN Head(wire) ELSE client)
        /\ UNCHANGED <<config, stage, infoDue, ac, recent, sent>>
    BY <1>6 DEF Receive, TypeOK
  <2>2. TypeOK' BY <2>1, LastOfTail DEF TypeOK
  <2>3. QuietBeforeJoin' BY <2>1 DEF QuietBeforeJoin
  <2>4. Fits => Settled' = Settled
    <3>1. CASE Tail(wire) = <<>>
      BY <2>1, <3>1, LastOfTail DEF Settled
    <3>2. CASE Tail(wire) # <<>>
      BY <2>1, <3>2, LastOfTail DEF Settled
    <3> QED BY <3>1, <3>2
  <2>5. Agreed' BY <2>1, <2>4, <1>fit DEF Agreed
  <2>6. FrameLimitComesFromScripts'
    BY <2>1, FrameLimitDoesNotFit DEF FrameLimitComesFromScripts
  <2> QED BY <2>2, <2>3, <2>5, <2>6
<1>7. CASE OnPlayerDisconnect
  <2>1. infoDue' \in BOOLEAN /\ sent' \in BOOLEAN BY <1>7 DEF OnPlayerDisconnect
  <2>2. wire' \in Seq(Values) BY <1>7 DEF OnPlayerDisconnect
  <2> QED BY <1>7, <2>1, <2>2
    DEF OnPlayerDisconnect, TypeOK, QuietBeforeJoin, Agreed,
        FrameLimitComesFromScripts
<1>8. CASE PlayElsewhere
  <2>1. client' \in Values BY <1>8, WrittenIsValue DEF PlayElsewhere
  <2>2. setting # "frameLimit" /\ stage = "off"
    BY <1>8, FrameLimitDoesNotFit DEF PlayElsewhere
  <2> QED BY <1>8, <2>1, <2>2
    DEF PlayElsewhere, TypeOK, QuietBeforeJoin, Agreed,
        FrameLimitComesFromScripts
<1>9. CASE UNCHANGED vars
  BY <1>9, <1>fit DEF vars, TypeOK, QuietBeforeJoin, Agreed, Settled,
     FrameLimitComesFromScripts
<1> QED BY <1>1, <1>2, <1>3, <1>4, <1>5, <1>6, <1>7, <1>8, <1>9 DEF Next

(* The inductive invariant holds in every behaviour.                       *)
LEMMA Inductive == Spec => []IInv
BY InitOK, StepOK, PTL DEF Spec

(* The settings' state keeps its type.                                     *)
THEOREM TypeCorrect == Spec => []TypeOK
BY Inductive, PTL DEF IInv

(* For every setting whose packet the client can read and any sprint       *)
(* limits: the server remembers what the client applies once everything    *)
(* has arrived, from the first packet sent for the object to the end of    *)
(* the connection, and the getters return it, the sprint limit's up to one *)
(* towards 0.                                                              *)
THEOREM GettersTrue == Spec => []GettersTellTheTruth
<1>1. Agreed => GettersTellTheTruth
  BY DEF Agreed, GettersTellTheTruth, Told
<1> QED BY <1>1, Inductive, PTL DEF IInv

(* A configured frame limit is never used, and no client ever applies one. *)
THEOREM FrameLimitUnused == Spec => []FrameLimitComesFromScripts
BY Inductive, PTL DEF IInv

(* The settings whose packets the client cannot read are those two that    *)
(* the server writes as 16 bits.                                           *)
LEMMA WhatFits ==
  ASSUME setting \in AllSettings
  PROVE  Fits <=> setting \notin {"crouchBug", "frameLimit"}
BY SMTT(30) DEF Fits, BitsRead, BitsSent, AllSettings, Toggles

(* The client applies what it applied when it was started.                 *)
Unread == setting \in {"crouchBug", "frameLimit"} => client = 9999

(* Neither the crouch bug nor the frame limit ever reaches a client,       *)
(* whatever a script sets, the configuration says, or another server of    *)
(* this kind has sent.                                                     *)
THEOREM NeverApplied == Spec => []Unread
<1>1. Init => Unread
  BY DEF Init, Unread, Initial
<1>2. TypeOK /\ Unread /\ [Next]_vars => Unread'
  <2> SUFFICES ASSUME TypeOK, Unread, [Next]_vars PROVE Unread' OBVIOUS
  <2>1. setting' = setting /\ (client' = client \/ Fits)
    BY DEF Next, vars, Attach, OnIntialInfoGotten, OnPlayerConnect, CallNative,
       CreationTickExpires, Receive, OnPlayerDisconnect, PlayElsewhere
  <2> QED BY <2>1, WhatFits DEF Unread, TypeOK
<1> QED BY <1>1, <1>2, TypeCorrect, PTL DEF Spec
=============================================================================
