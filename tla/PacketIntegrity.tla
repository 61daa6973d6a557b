--------------------------- MODULE PacketIntegrity ---------------------------
(* The client's list of announced packets: CustomSend puts a packet's      *)
(* checksum and time into it before it sends the packet, and every packet  *)
(* that RakNet is about to send, the game's own too, is looked up in it by *)
(* the thread that sends.  A packet that stays for too long was lost on    *)
(* its way through RakNet; the third one ends the game.                    *)
(*                                                                         *)
(* Times are differences: the age of an entry, and how long ago a thread   *)
(* in Check asked for the time.  The order in which one Check removes what *)
(* it found, which is that of the list, is left open.                      *)
EXTENDS Integers

CONSTANTS
  Threads,          \* the threads of the client that send reports
  Game,             \* the game's own, one of them
  Addresses,        \* where an entry can be allocated, and be so again
  Contents, Other,  \* checksums of reports, and that of the game's packets
  Free, Nobody,
  MaxTimeDifference, MaxLostPackets,
  Width,            \* of a tick count: a difference is unsigned
  MaxLag            \* bound: ticks between Check's look at the clock and at the list

ASSUME IntegrityConstants ==
  /\ Game \in Threads /\ Nobody \notin Threads /\ Other \notin Contents
  /\ MaxTimeDifference \in Nat /\ MaxLostPackets \in Nat \ {0} /\ MaxLag \in Nat
  /\ Width \in Nat /\ Width > MaxTimeDifference + MaxLag + 1

Old == MaxTimeDifference + MaxLag + 1    \* bound: an age is not told from greater ones
Entry == [md5 : Contents, by : Threads \cup {Nobody}, age : 0..Old]

ASSUME FreeIsNoEntry == Free \notin Entry

VARIABLES
  instances,    \* m_instances, by address; "by" is its sender, or nobody once that gave up
  lostPackets,  \* m_lostPackets
  pc, sending,  \* where each thread is, and what it sends
  lag,          \* ticks since a thread in Check asked for the time
  toRemove,     \* packets_to_remove
  process       \* "running", "ended" by ExitProcess, or "broken" by a double delete

vars == <<instances, lostPackets, pc, sending, lag, toRemove, process>>

Init ==
  /\ instances = [a \in Addresses |-> Free]
  /\ lostPackets = 0 /\ process = "running"
  /\ pc = [t \in Threads |-> "idle"]
  /\ sending = [t \in Threads |-> Other]
  /\ lag = [t \in Threads |-> 0]
  /\ toRemove = [t \in Threads |-> {}]

Listed == {a \in Addresses : instances[a] # Free}
Min(m, n) == IF m < n THEN m ELSE n

Tick ==
  /\ process = "running" /\ \A t \in Threads : pc[t] = "check" => lag[t] < MaxLag
  /\ instances' = [a \in Addresses |->
       IF a \in Listed THEN [instances[a] EXCEPT !.age = Min(@ + 1, Old)] ELSE Free]
  /\ lag' = [t \in Threads |-> IF pc[t] = "check" THEN lag[t] + 1 ELSE lag[t]]
  /\ UNCHANGED <<lostPackets, pc, sending, toRemove, process>>

(* CustomSend, of a thread that is connected: the new entry.               *)
Announce(t) ==
  /\ process = "running" /\ pc[t] = "idle"
  /\ \E a \in Addresses \ Listed, m \in Contents :
       /\ instances' = [instances EXCEPT ![a] = [md5 |-> m, by |-> t, age |-> 0]]
       /\ sending' = [sending EXCEPT ![t] = m]
  /\ pc' = [pc EXCEPT ![t] = "send"]
  /\ UNCHANGED <<lostPackets, lag, toRemove, process>>

(* The hook of SendBuffered: Check asks for the time.                      *)
Enter(t) ==
  /\ pc' = [pc EXCEPT ![t] = "check"] /\ lag' = [lag EXCEPT ![t] = 0]

(* RakNet sends the packet, unless the connection is gone by now.          *)
Send(t) ==
  /\ process = "running" /\ pc[t] = "send"
  /\ \/ Enter(t) /\ UNCHANGED instances
     \/ /\ instances' = [a \in Addresses |->
             IF a \in Listed /\ instances[a].by = t
             THEN [instances[a] EXCEPT !.by = Nobody] ELSE instances[a]]
        /\ pc' = [pc EXCEPT ![t] = "idle"] /\ UNCHANGED lag
  /\ UNCHANGED <<lostPackets, sending, toRemove, process>>

GameSend ==
  /\ process = "running" /\ pc[Game] = "idle"
  /\ sending' = [sending EXCEPT ![Game] = Other]
  /\ Enter(Game)
  /\ UNCHANGED <<instances, lostPackets, toRemove, process>>

(* The entry may be younger than the time that Check has asked for.        *)
Difference(t, a) ==
  instances[a].age - lag[t] + (IF instances[a].age < lag[t] THEN Width ELSE 0)

\* Mutant: does not wait for the last tick.
ExpiredEarly(t, a) == Difference(t, a) >= MaxTimeDifference

Expired(t, a) == Difference(t, a) > MaxTimeDifference

\* Mutant: looks for the packet only if nothing was lost.
FoundOneKind(t) ==
  IF \E a \in Listed : Expired(t, a)
  THEN {<<a, TRUE>> : a \in {x \in Listed : Expired(t, x)}}
  ELSE {<<a, FALSE>> : a \in {x \in Listed : instances[x].md5 = sending[t]}}

\* Mutant: without the look at the time.
FoundEqual(t) == {<<a, FALSE>> : a \in {x \in Listed : instances[x].md5 = sending[t]}}

Found(t) ==
  {<<a, TRUE>> : a \in {x \in Listed : Expired(t, x)}} \cup
  {<<a, FALSE>> : a \in {x \in Listed : ~Expired(t, x) /\ instances[x].md5 = sending[t]}}

(* The look at the list, under the shared lock.                            *)
Check(t) ==
  /\ process = "running" /\ pc[t] = "check"
  /\ toRemove' = [toRemove EXCEPT ![t] = Found(t)]
  /\ pc' = [pc EXCEPT ![t] = IF Found(t) = {} THEN "idle" ELSE "remove"]
  /\ lag' = [lag EXCEPT ![t] = 0]
  /\ UNCHANGED <<instances, lostPackets, sending, process>>

\* Mutant: lets one more packet get lost.
RemoveOneMore(t) ==
  /\ process = "running" /\ pc[t] = "remove"
  /\ \E a \in Addresses, lost \in BOOLEAN :
       /\ <<a, lost>> \in toRemove[t]
       /\ lostPackets' = lostPackets + (IF lost THEN 1 ELSE 0)
       /\ process' = IF lostPackets' > MaxLostPackets THEN "ended" ELSE "running"
       /\ instances' = [instances EXCEPT ![a] = Free]
       /\ toRemove' = [toRemove EXCEPT ![t] = @ \ {<<a, lost>>}]
       /\ pc' = [pc EXCEPT ![t] = IF toRemove'[t] = {} THEN "idle" ELSE "remove"]
  /\ UNCHANGED <<sending, lag>>

(* One of those it found is counted if it was lost, and deleted.  Another  *)
(* thread may have deleted it before; what happens then is undefined.      *)
Remove(t) ==
  /\ process = "running" /\ pc[t] = "remove"
  /\ \E a \in Addresses, lost \in BOOLEAN :
       /\ <<a, lost>> \in toRemove[t]
       /\ lostPackets' = lostPackets + (IF lost THEN 1 ELSE 0)
       /\ \/ /\ lostPackets' >= MaxLostPackets
             /\ process' = "ended" /\ UNCHANGED <<instances, toRemove, pc>>
          \/ /\ lostPackets' < MaxLostPackets
             /\ process' \in IF a \in Listed THEN {"running"} ELSE {"running", "broken"}
             /\ instances' = [instances EXCEPT ![a] = Free]
             /\ toRemove' = [toRemove EXCEPT ![t] = @ \ {<<a, lost>>}]
             /\ pc' = [pc EXCEPT ![t] = IF toRemove'[t] = {} THEN "idle" ELSE "remove"]
  /\ UNCHANGED <<sending, lag>>

Next == \/ Tick \/ GameSend
        \/ \E t \in Threads : Announce(t) \/ Send(t) \/ Check(t) \/ Remove(t)

Spec == Init /\ [][Next]_vars

(* Every thread goes on, and the game sends in one of its next frames,     *)
(* whatever its thread did in between.                                     *)
FairSpec ==
  /\ Spec /\ WF_vars(Tick) /\ SF_vars(GameSend)
  /\ \A t \in Threads : WF_vars(Send(t)) /\ WF_vars(Check(t)) /\ WF_vars(Remove(t))
-----------------------------------------------------------------------------
(* The variables have their types.                                         *)
TypeOK ==
  /\ instances \in [Addresses -> Entry \cup {Free}]
  /\ lostPackets \in 0..MaxLostPackets
  /\ pc \in [Threads -> {"idle", "send", "check", "remove"}]
  /\ sending \in [Threads -> Contents \cup {Other}]
  /\ lag \in [Threads -> 0..MaxLag]
  /\ toRemove \in [Threads -> SUBSET (Addresses \X BOOLEAN)]
  /\ process \in {"running", "ended", "broken"}

(* Nothing that was sent stays in the list: an entry belongs to a thread   *)
(* that is still on its way to SendBuffered or about to remove it there,   *)
(* or to a send that found the connection gone.  So no packet that RakNet  *)
(* took is ever taken for lost later.                                      *)
OnItsWay(a) ==
  LET t == instances[a].by IN
    \/ pc[t] \in {"send", "check"} /\ sending[t] = instances[a].md5
    \/ pc[t] = "remove" /\ \E lost \in BOOLEAN : <<a, lost>> \in toRemove[t]

OnlyUnsentStay == \A a \in Listed : instances[a].by # Nobody => OnItsWay(a)

(* Only the loss of a packet ends the game: what a Check counts as lost    *)
(* has been waiting for longer than MaxTimeDifference.                     *)
LostAreLost ==
  [][\A t \in Threads : Check(t) =>
       \A a \in Listed : <<a, TRUE>> \in toRemove'[t]
         => instances[a].age > MaxTimeDifference]_vars

(* What a Check counts as lost, whichever threads send, has waited longer  *)
(* than MaxTimeDifference, and its send found the connection gone or is    *)
(* still on its way; or it is not the thread's own packet, and was         *)
(* announced after the thread had asked for the time.                      *)
LossesExplained ==
  [][\A t \in Threads : Check(t) =>
       \A a \in Listed : <<a, TRUE>> \in toRemove'[t] =>
         \/ /\ instances[a].age > MaxTimeDifference
            /\ instances[a].by = Nobody \/ OnItsWay(a)
         \/ instances[a].age < lag[t] /\ instances[a].by # t]_vars

(* A packet whose connection was gone does not stay in memory: a later     *)
(* packet of the game's finds it, unless the process has ended.            *)
EveryEntryLeaves ==
  \A a \in Addresses : a \in Listed ~> (a \notin Listed \/ process # "running")
=============================================================================
