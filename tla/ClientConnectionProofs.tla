------------------------ MODULE ClientConnectionProofs ------------------------
(* Proofs about ClientConnection, for any number of sessions and files.    *)
EXTENDS ClientConnection, TLAPS

-------------------------------------------------------------------------------
(* Senders are numbers, and all different.                                 *)
LEMMA SendersFacts ==
  /\ Game \in Senders /\ Loader \in Senders /\ Game # Loader
  /\ Game \notin Threads /\ Loader \notin Threads /\ Threads \subseteq Senders
  /\ 0..MaxSessions \subseteq Senders
  /\ Nobody # Loader
  /\ \A n \in 1..MaxSessions : n \in Threads
  /\ Loose \in Packets
BY ConnectionConstants DEF Senders, Game, Loader, Threads, Nobody, Loose, Packets

(* What can be taken from a queue of packets, and what can be added.       *)
LEMMA QueueFacts ==
  ASSUME NEW q \in Seq(Packets), NEW p \in Packets
  PROVE  /\ Append(q, p) \in Seq(Packets)
         /\ q # <<>> => Tail(q) \in Seq(Packets) /\ Head(q) \in Packets
OBVIOUS

(* CustomSend and its return keep the types of what they write.            *)
LEMMA CustomSendType ==
  ASSUME TypeOK, NEW t \in Senders, NEW p \in Packets, NEW c \in BOOLEAN,
         CustomSend(t, p, c)
  PROVE  /\ pc' \in [Senders -> Places]
         /\ hand' \in [Senders -> Packets]
         /\ since' \in [Senders -> 0..MaxSessions]
<1>1. (IF c THEN "send" ELSE "add") \in Places
  BY Zenon DEF Places, Sending
<1>2. (IF c THEN session ELSE 0) \in 0..MaxSessions
  <2>1. 0 \in 0..MaxSessions /\ session \in 0..MaxSessions
    BY ConnectionConstants DEF TypeOK
  <2> QED BY <2>1, Zenon
<1> QED BY <1>1, <1>2, Zenon DEF TypeOK, CustomSend

LEMMA ReturnType ==
  ASSUME TypeOK, NEW t \in Senders, Return(t)
  PROVE  /\ pc' \in [Senders -> Places]
         /\ hand' \in [Senders -> Packets]
<1>1. {"drain", "done", "idle"} \subseteq Places
  BY Zenon DEF Places
<1> QED BY <1>1, SendersFacts, Zenon DEF TypeOK, Return

(* The Boolean variables stay Boolean.                                     *)
Flags == /\ plugin \in BOOLEAN /\ accepted \in BOOLEAN /\ challenge \in BOOLEAN
         /\ isACServer \in BOOLEAN /\ hasSentInitInfo \in BOOLEAN

LEMMA FlagsStep ==
  ASSUME Flags, [Next]_vars PROVE Flags'
BY Zenon DEF Flags, Next, Connect, Accept, Lose, Disconnect, ReceiveAccepted, ReceiveRPC,
   SendAuthKey, Send, Add, ScanAndProcess, AddFile, Process, ProcessLock, ProcessNext,
   OnConnect, ResendFiles, SendInitialInfo, vars, game
-------------------------------------------------------------------------------
(* The other conjuncts of TypeOK.                                          *)
Others == /\ session \in 0..MaxSessions
          /\ link \in {"off", "asked", "on", "lost"}
          /\ found \in 0..MaxFiles /\ queue \in Seq(Packets)
          /\ holder \in {Nobody, Loader}
          /\ pc \in [Senders -> Places] /\ hand \in [Senders -> Packets]
          /\ next \in [Threads -> 1..(MaxFiles + 1)]
          /\ since \in [Senders -> 0..MaxSessions] /\ got \subseteq Packets

LEMMA TypeStep ==
  ASSUME TypeOK, [Next]_vars PROVE TypeOK'
<1> USE ConnectionConstants
<1>f. Flags' BY FlagsStep, Zenon DEF TypeOK, Flags
<1>o. Others BY Zenon DEF TypeOK, Others
<1> SUFFICES Others' BY <1>f, Zenon DEF TypeOK, Flags, Others
<1>p. {"idle", "done", "waiting", "lock", "drain"} \subseteq Places
  BY Zenon DEF Places
<1>1. CASE Connect \/ Accept \/ Lose \/ Disconnect \/ ReceiveAccepted
  BY <1>o, <1>1 DEF Others, Connect, Accept, Lose, Disconnect, ReceiveAccepted
<1>2. CASE ReceiveRPC
  <2>1. /\ pc' \in [Senders -> Places] /\ hand' \in [Senders -> Packets]
        /\ since' \in [Senders -> 0..MaxSessions]
    <3>1. CASE \E t \in Threads : pc[t] # "none"
      BY <1>o, <1>2, <3>1, CustomSendType, SendersFacts, Zenon DEF ReceiveRPC
    <3>2. CASE ~\E t \in Threads : pc[t] # "none"
      BY <1>o, <1>2, <3>2, Zenon DEF ReceiveRPC, Others
    <3> QED BY <1>o, <3>1, <3>2
  <2> QED BY <1>o, <1>2, <2>1 DEF Others, ReceiveRPC
<1>3. CASE SendAuthKey
  BY <1>o, <1>3, <1>p DEF Others, SendAuthKey, game
<1>4. CASE \E t \in Senders : Send(t)
  <2> PICK t \in Senders : Send(t) BY <1>o, <1>4
  <2>1. pc' \in [Senders -> Places] /\ hand' \in [Senders -> Packets]
    BY ReturnType, Zenon DEF Send
  <2>2. since' \in [Senders -> 0..MaxSessions] /\ got' \subseteq Packets
    BY <1>o DEF Others, Send
  <2> QED BY <1>o, <2>1, <2>2 DEF Others, Send, game
<1>5. CASE \E t \in Senders : Add(t)
  <2> PICK t \in Senders : Add(t) BY <1>o, <1>5
  <2>1. pc' \in [Senders -> Places] /\ hand' \in [Senders -> Packets]
    BY ReturnType, Zenon DEF Add
  <2>2. hand[t] \in Packets BY <1>o DEF Others
  <2>3. queue' \in Seq(Packets) BY <1>o, <2>2, QueueFacts DEF Others, Add
  <2> QED BY <1>o, <2>1, <2>3 DEF Others, Add, game
<1>6. CASE AddFile
  <2>1. found' \in 0..MaxFiles BY <1>o, <1>6 DEF Others, AddFile
  <2>2. IsConnected \in BOOLEAN BY Zenon DEF IsConnected
  <2>3. /\ pc' \in [Senders -> Places] /\ hand' \in [Senders -> Packets]
        /\ since' \in [Senders -> 0..MaxSessions]
    BY <1>o, <1>6, <2>1, <2>2, CustomSendType, SendersFacts, Zenon DEF AddFile, Packets
  <2> QED BY <1>o, <1>6, <2>1, <2>3 DEF Others, AddFile, game
<1>7. CASE Process \/ ProcessLock
  BY <1>o, <1>7, <1>p DEF Others, Process, ProcessLock, game
<1>8. CASE ProcessNext
  <2>1. CASE queue # <<>> /\ CustomSend(Loader, Head(queue), IsConnected)
    <3>1. Head(queue) \in Packets BY <1>o, <2>1 DEF Others
    <3>2. IsConnected \in BOOLEAN BY Zenon DEF IsConnected
    <3>3. /\ pc' \in [Senders -> Places] /\ hand' \in [Senders -> Packets]
          /\ since' \in [Senders -> 0..MaxSessions]
      BY <1>o, <2>1, <3>1, <3>2, CustomSendType, SendersFacts, Zenon
    <3>4. queue \in Seq(Packets) BY <1>o DEF Others
    <3>5. Tail(queue) \in Seq(Packets) BY <2>1, <3>4
    <3>6. queue' = Tail(queue) BY <1>8, <2>1, Zenon DEF ProcessNext
    <3> QED BY <1>o, <1>8, <3>3, <3>5, <3>6 DEF Others, ProcessNext, game
  <2>2. CASE ~(queue # <<>> /\ CustomSend(Loader, Head(queue), IsConnected))
    BY <1>o, <1>8, <1>p, <2>2 DEF Others, ProcessNext, game
  <2> QED BY <1>o, <2>1, <2>2
<1>9. CASE \E t \in Threads : OnConnect(t)
  BY <1>o, <1>9, <1>p DEF Others, OnConnect, game
<1>10. CASE \E t \in Threads : ResendFiles(t)
  <2> PICK t \in Threads : ResendFiles(t) BY <1>o, <1>10
  <2>1. next' \in [Threads -> 1..(MaxFiles + 1)]
    BY <1>o DEF Others, ResendFiles
  <2>2. IsConnected \in BOOLEAN BY Zenon DEF IsConnected
  <2>3. /\ pc' \in [Senders -> Places] /\ hand' \in [Senders -> Packets]
        /\ since' \in [Senders -> 0..MaxSessions]
    <3>1. CASE next[t] <= found /\ CustomSend(t, next[t], IsConnected)
      <4>1. next[t] \in Packets
        <5>1. next[t] \in 0..MaxFiles BY <1>o, <3>1 DEF Others
        <5> QED BY <5>1 DEF Packets
      <4> QED BY <1>o, <2>2, <3>1, <4>1, CustomSendType, SendersFacts, Zenon
    <3>2. CASE CustomSend(t, Loose, IsConnected)
      BY <1>o, <2>2, <3>2, CustomSendType, SendersFacts, Zenon
    <3>3. CASE pc' = [pc EXCEPT ![t] = "done"] /\ UNCHANGED <<hand, since>>
      BY <1>o, <3>3, <1>p DEF Others
    <3> QED BY <1>o, <3>1, <3>2, <3>3 DEF ResendFiles
  <2> QED BY <1>o, <2>1, <2>3 DEF Others, ResendFiles, game
<1>11. CASE UNCHANGED vars
  BY <1>o, <1>11 DEF Others, vars, game
<1> QED BY <1>o, <1>1, <1>2, <1>3, <1>4, <1>5, <1>6, <1>7, <1>8, <1>9, <1>10, <1>11
        DEF Next, ScanAndProcess

(* The constants and the initial state.                                    *)
LEMMA TypeInit == Init => TypeOK
<1> SUFFICES ASSUME Init PROVE TypeOK OBVIOUS
<1>1. Flags BY Zenon DEF Init, Flags
<1>2. {"idle", "none"} \subseteq Places BY Zenon DEF Places
<1>3. Others BY <1>2, ConnectionConstants DEF Init, Others, Packets, Loose
<1> QED BY <1>1, <1>3, Zenon DEF TypeOK, Flags, Others

(* The state of the connection, the list of files, the queue and every     *)
(* thread's place stay in their types: nothing indexes past the list, and  *)
(* no thread gets into a state CustomSend does not know.                   *)
THEOREM TypeCorrect == Spec => []TypeOK
BY TypeInit, TypeStep, PTL DEF Spec
-------------------------------------------------------------------------------
(* What CustomSend and its return do to the thread that calls, and that    *)
(* they leave the other threads alone.                                     *)
LEMMA CustomSendEffect ==
  ASSUME TypeOK, NEW t \in Senders, NEW p, NEW c \in BOOLEAN, CustomSend(t, p, c)
  PROVE  /\ pc'[t] \in Sending /\ hand'[t] = p
         /\ c => pc'[t] = "send" /\ since'[t] = session
         /\ ~c => pc'[t] = "add" /\ since'[t] = 0
         /\ \A u \in Senders \ {t} :
              pc'[u] = pc[u] /\ hand'[u] = hand[u] /\ since'[u] = since[u]
<1>1. /\ pc \in [Senders -> Places] /\ hand \in [Senders -> Packets]
      /\ since \in [Senders -> 0..MaxSessions]
  BY Zenon DEF TypeOK
<1> QED BY <1>1, Zenon DEF CustomSend, Sending

(* Who sends has found itself connected.                                   *)
LEMMA TestedSend ==
  ASSUME TypeOK, NEW t \in Senders, NEW p, CustomSend(t, p, IsConnected)
  PROVE  /\ pc'[t] = "send" => IsConnected
         /\ since'[t] \in {session, 0}
         /\ \A u \in Senders \ {t} : pc'[u] = pc[u] /\ since'[u] = since[u]
<1>1. IsConnected \in BOOLEAN BY Zenon DEF IsConnected
<1>2. /\ IsConnected => since'[t] = session
      /\ ~IsConnected => pc'[t] = "add" /\ since'[t] = 0
  BY <1>1, CustomSendEffect, Zenon
<1>3. \A u \in Senders \ {t} : pc'[u] = pc[u] /\ since'[u] = since[u]
  BY <1>1, CustomSendEffect, Zenon
<1>4. pc'[t] = "send" => IsConnected BY <1>2, Zenon
<1>5. since'[t] \in {session, 0} BY <1>2, Zenon
<1> QED BY <1>3, <1>4, <1>5

LEMMA ReturnEffect ==
  ASSUME TypeOK, NEW t \in Senders, Return(t)
  PROVE  /\ pc'[t] \in {"drain", "done", "idle"}
         /\ t \in Threads /\ hand[t] # Loose => pc'[t] = "idle"
         /\ \A u \in Senders \ {t} : pc'[u] = pc[u] /\ hand'[u] = hand[u]
<1>1. /\ pc \in [Senders -> Places] /\ hand \in [Senders -> Packets]
  BY Zenon DEF TypeOK
<1> QED BY <1>1, SendersFacts, Zenon DEF Return

(* Sessions and their threads: no thread runs before its session, none     *)
(* while its server is still asked, and a resend starts at the first file. *)
SessionInv ==
  /\ link # "off" => session >= 1
  /\ \A t \in Threads : t > session => pc[t] = "none"
  /\ link = "asked" => pc[session] = "none"
  /\ \A t \in Threads : pc[t] \in {"none", "waiting"} => next[t] = 1

(* A step of one sender, or of the loader, that is in the middle of        *)
(* something keeps SessionInv.                                             *)
LEMMA ActorKeepsSession ==
  ASSUME TypeOK, SessionInv, NEW t \in Senders, pc[t] \notin {"none", "waiting"} \/ link = "on",
         pc[t] # "none", pc'[t] \notin {"none", "waiting"},
         \A u \in Senders \ {t} : pc'[u] = pc[u],
         \A u \in Threads \ {t} : next'[u] = next[u],
         session' = session, link' = link
  PROVE  SessionInv'
<1>1. session \in 0..MaxSessions /\ (session >= 1 => session \in Threads)
  BY SendersFacts, ConnectionConstants DEF TypeOK
<1>2. Threads \subseteq Senders BY SendersFacts
<1>3. link = "asked" => pc'[session] = "none"
  BY <1>1, <1>2, Zenon DEF SessionInv
<1> QED BY <1>1, <1>2, <1>3, Zenon DEF SessionInv

LEMMA SessionStep ==
  ASSUME TypeOK, SessionInv, [Next]_vars PROVE SessionInv'
<1> USE ConnectionConstants
<1>t. /\ session \in 0..MaxSessions /\ pc \in [Senders -> Places]
      /\ next \in [Threads -> 1..(MaxFiles + 1)]
  BY Zenon DEF TypeOK
<1>s. session >= 1 => session \in Threads BY <1>t DEF Threads
<1>1. CASE Connect
  <2>1. session' \in Threads /\ session' > session
    BY <1>1, <1>t DEF Connect, Threads
  <2> QED BY <1>1, <1>t, <2>1 DEF Connect, SessionInv, Threads
<1>2. CASE Accept \/ Lose \/ Disconnect \/ ReceiveAccepted
  BY <1>2, <1>t DEF Accept, Lose, Disconnect, ReceiveAccepted, SessionInv
<1>3. CASE ReceiveRPC
  <2>1. CASE \E t \in Threads : pc[t] # "none"
    <3>1. /\ pc'[Game] \in Sending
          /\ \A u \in Senders \ {Game} : pc'[u] = pc[u]
      BY <1>3, <2>1, CustomSendEffect, SendersFacts, Zenon DEF ReceiveRPC
    <3> QED BY <1>3, <3>1, ActorKeepsSession, SendersFacts DEF ReceiveRPC, Sending
  <2>2. CASE ~\E t \in Threads : pc[t] # "none"
    BY <1>3, <2>2 DEF ReceiveRPC, SessionInv
  <2> QED BY <2>1, <2>2
<1>4. CASE SendAuthKey
  <2>1. session \in Threads BY <1>4, <1>s DEF SendAuthKey, SessionInv
  <2> QED BY <1>4, <1>t, <2>1 DEF SendAuthKey, SessionInv, game, Threads
<1>5. CASE \E t \in Senders : Send(t) \/ Add(t)
  <2> PICK t \in Senders : Send(t) \/ Add(t) BY <1>5
  <2>1. Return(t) /\ pc[t] \in Sending BY Zenon DEF Send, Add, Sending
  <2> QED BY <2>1, ReturnEffect, ActorKeepsSession DEF Send, Add, game, Sending
<1>6. CASE AddFile \/ Process \/ ProcessLock \/ ProcessNext
  <2>1. /\ pc[Loader] \in {"idle", "lock", "drain"}
        /\ pc'[Loader] \in {"idle", "lock", "drain"} \cup Sending
        /\ \A u \in Senders \ {Loader} : pc'[u] = pc[u]
    BY <1>6, <1>t, SendersFacts DEF AddFile, Process, ProcessLock, ProcessNext, CustomSend, Sending
  <2> QED BY <1>6, <2>1, ActorKeepsSession, SendersFacts
          DEF AddFile, Process, ProcessLock, ProcessNext, game, Sending
<1>7. CASE \E t \in Threads : OnConnect(t)
  <2> PICK t \in Threads : OnConnect(t) BY <1>7
  <2>1. link = "on" /\ pc[t] = "waiting" /\ t \in Senders
    BY SendersFacts DEF OnConnect, IsConnected
  <2> QED BY <1>t, <2>1, ActorKeepsSession, SendersFacts DEF OnConnect, game
<1>8. CASE \E t \in Threads : ResendFiles(t)
  <2> PICK t \in Threads : ResendFiles(t) BY <1>8
  <2>1. /\ t \in Senders /\ pc[t] = "idle" /\ pc'[t] \in Sending \cup {"done"}
        /\ \A u \in Senders \ {t} : pc'[u] = pc[u]
        /\ \A u \in Threads \ {t} : next'[u] = next[u]
    BY <1>t, SendersFacts DEF ResendFiles, CustomSend, Sending
  <2> QED BY <2>1, ActorKeepsSession DEF ResendFiles, game, Sending
<1>9. CASE UNCHANGED vars BY <1>9 DEF SessionInv, vars, game
<1> QED BY <1>1, <1>2, <1>3, <1>4, <1>5, <1>6, <1>7, <1>8, <1>9 DEF Next, ScanAndProcess
-------------------------------------------------------------------------------
(* What the client believes about the server is true of this session, and  *)
(* who tested the connection of this session relies on it.                 *)
ServerInv ==
  /\ isACServer \/ challenge => link \in {"on", "lost"} /\ plugin /\ hasSentInitInfo
  /\ \A t \in Senders : since[t] <= session
  /\ \A t \in Senders : pc[t] = "send" /\ since[t] = session
       => link # "asked" /\ (link = "on" => isACServer)

(* A step that leaves the connection alone keeps ServerInv, if whoever is  *)
(* then about to send has tested the connection.                           *)
LEMMA ActorKeepsServer ==
  ASSUME TypeOK, ServerInv, UNCHANGED <<session, link, plugin, challenge, isACServer,
         hasSentInitInfo>>, NEW t \in Senders,
         since'[t] <= session, pc'[t] = "send" => IsConnected,
         \A u \in Senders \ {t} : pc'[u] = pc[u] /\ since'[u] = since[u]
  PROVE  ServerInv'
BY DEF ServerInv, IsConnected

LEMMA ServerStep ==
  ASSUME TypeOK, SessionInv, ServerInv, [Next]_vars PROVE ServerInv'
<1> USE ConnectionConstants
<1>t. /\ session \in 0..MaxSessions /\ pc \in [Senders -> Places]
      /\ since \in [Senders -> 0..MaxSessions]
  BY Zenon DEF TypeOK
<1>n. 0 <= session /\ \A t \in Senders : since[t] \in Nat BY <1>t
<1>1. CASE Connect
  <2>1. \A t \in Senders : since'[t] <= session' /\ since'[t] # session'
    BY <1>1, <1>t DEF Connect, ServerInv
  <2>2. ~isACServer' /\ ~challenge' BY <1>1, Zenon DEF Connect, ServerInv
  <2> QED BY <2>1, <2>2, Zenon DEF ServerInv
<1>2. CASE Accept
  <2>1. ~isACServer' /\ ~challenge' BY <1>2, Zenon DEF Accept, ServerInv
  <2>2. \A t \in Senders : pc'[t] = "send" => since'[t] # session'
    BY <1>2, Zenon DEF Accept, ServerInv
  <2> QED BY <1>2, <2>1, <2>2, Zenon DEF Accept, ServerInv
<1>3. CASE Lose \/ Disconnect
  <2>1. link' \in {"lost", "off"} /\ link' # "asked" /\ link' # "on"
    BY <1>3 DEF Lose, Disconnect
  <2>2. CASE Lose BY <2>1, <2>2, Zenon DEF Lose, ServerInv
  <2>3. CASE Disconnect BY <2>1, <2>3, Zenon DEF Disconnect, ServerInv
  <2> QED BY <1>3, <2>2, <2>3
<1>4. CASE ReceiveAccepted
  BY <1>4, Zenon DEF ReceiveAccepted, SendInitialInfo, ServerInv
<1>5. CASE ReceiveRPC
  <2>1. /\ link \in {"on", "lost"} /\ plugin' /\ hasSentInitInfo' /\ isACServer'
        /\ UNCHANGED <<session, link>>
    BY <1>5, Zenon DEF ReceiveRPC, SendInitialInfo, ServerInv
  <2>2. \A u \in Senders : since'[u] <= session
    <3>1. CASE \E t \in Threads : pc[t] # "none"
      <4>1. since'[Game] \in {session, 0}
        BY <1>5, <3>1, CustomSendEffect, SendersFacts, Zenon DEF ReceiveRPC
      <4>2. \A u \in Senders \ {Game} : since'[u] = since[u]
        BY <1>5, <3>1, CustomSendEffect, SendersFacts, Zenon DEF ReceiveRPC
      <4> QED BY <1>n, <1>t, <4>1, <4>2 DEF ServerInv
    <3>2. CASE ~\E t \in Threads : pc[t] # "none"
      BY <1>5, <3>2, Zenon DEF ReceiveRPC, ServerInv
    <3> QED BY <3>1, <3>2
  <2> QED BY <2>1, <2>2, Zenon DEF ServerInv
<1>6. CASE SendAuthKey
  BY <1>6, <1>t, Zenon DEF SendAuthKey, ServerInv, game
<1>7. CASE \E t \in Senders : Send(t) \/ Add(t)
  <2> PICK t \in Senders : Send(t) \/ Add(t) BY <1>7
  <2>1. /\ pc'[t] # "send"
        /\ \A u \in Senders \ {t} : pc'[u] = pc[u]
    BY ReturnEffect DEF Send, Add
  <2>2. /\ since'[t] <= session
        /\ \A u \in Senders \ {t} : since'[u] = since[u]
    BY <1>t, <1>n DEF Send, Add, ServerInv
  <2> QED BY <2>1, <2>2, ActorKeepsServer DEF Send, Add, game
<1>8. CASE AddFile \/ (ProcessNext /\ queue # <<>>)
  <2> DEFINE p == IF AddFile THEN found' ELSE Head(queue)
  <2>1. CustomSend(Loader, p, IsConnected) BY <1>8, Zenon DEF AddFile, ProcessNext
  <2> HIDE DEF p
  <2>3. /\ pc'[Loader] = "send" => IsConnected
        /\ since'[Loader] \in {session, 0}
        /\ \A u \in Senders \ {Loader} : pc'[u] = pc[u] /\ since'[u] = since[u]
    BY <2>1, TestedSend, SendersFacts, Zenon
  <2>4. since'[Loader] <= session BY <1>n, <1>t, <2>3
  <2> QED BY <1>8, <2>3, <2>4, ActorKeepsServer, SendersFacts, Zenon DEF AddFile, ProcessNext, game
<1>9. CASE Process \/ ProcessLock \/ (ProcessNext /\ queue = <<>>)
  <2>1. pc'[Loader] # "send" /\ \A u \in Senders \ {Loader} : pc'[u] = pc[u]
    BY <1>9, <1>t, SendersFacts DEF Process, ProcessLock, ProcessNext
  <2>2. UNCHANGED <<since, game>> BY <1>9, Zenon DEF Process, ProcessLock, ProcessNext
  <2> QED BY <2>1, <2>2, ActorKeepsServer, SendersFacts, Zenon DEF game, ServerInv
<1>10. CASE \E t \in Threads : OnConnect(t)
  <2> PICK t \in Threads : OnConnect(t) BY <1>10
  <2>1. t \in Senders /\ pc'[t] # "send" /\ \A u \in Senders \ {t} : pc'[u] = pc[u]
    BY <1>t, SendersFacts DEF OnConnect
  <2> QED BY <2>1, ActorKeepsServer, Zenon DEF OnConnect, game, ServerInv
<1>11. CASE \E t \in Threads : ResendFiles(t)
  <2> PICK t \in Threads : ResendFiles(t) BY <1>11
  <2>0. t \in Senders BY SendersFacts, Zenon
  <2>1. CASE \E p \in {next[t], Loose} : CustomSend(t, p, IsConnected)
    <3>1. /\ pc'[t] = "send" => IsConnected
          /\ since'[t] \in {session, 0}
          /\ \A u \in Senders \ {t} : pc'[u] = pc[u] /\ since'[u] = since[u]
      BY <2>0, <2>1, TestedSend, Zenon
    <3>2. since'[t] <= session BY <1>n, <1>t, <3>1
    <3> QED BY <2>0, <3>1, <3>2, ActorKeepsServer, Zenon DEF ResendFiles, game
  <2>2. CASE ~\E p \in {next[t], Loose} : CustomSend(t, p, IsConnected)
    <3>1. pc' = [pc EXCEPT ![t] = "done"] /\ UNCHANGED <<hand, since>>
      BY <2>2, Zenon DEF ResendFiles
    <3>2. pc'[t] # "send" /\ \A u \in Senders \ {t} : pc'[u] = pc[u]
      BY <1>t, <2>0, <3>1
    <3> QED BY <2>0, <3>1, <3>2, ActorKeepsServer, Zenon DEF ResendFiles, game, ServerInv
  <2> QED BY <2>1, <2>2
<1>12. CASE UNCHANGED vars BY <1>12, Zenon DEF ServerInv, vars, game
<1> QED BY <1>1, <1>2, <1>3, <1>4, <1>5, <1>6, <1>7, <1>8, <1>9, <1>10, <1>11, <1>12, Zenon
        DEF Next, ScanAndProcess
-------------------------------------------------------------------------------
Told(f) == f \in got \/ Pending(f)

(* What others hold of a file they still hold after a step of t.           *)
LEMMA OthersStillHold ==
  ASSUME NEW t \in Senders, NEW f, Told(f), got \subseteq got',
         \A u \in Senders \ {t} : pc'[u] = pc[u] /\ hand'[u] = hand[u],
         \A u \in Threads \ {t} : next'[u] = next[u],
         \A i \in DOMAIN queue : queue[i] = f => Told(f)',
         InHand(t, f) => Told(f)',
         t \in Threads /\ Ahead(t, f) => Told(f)'
  PROVE  Told(f)'
<1>1. \A u \in Senders : InHand(u, f) => Told(f)'
  BY Zenon DEF InHand, Told, Pending
<1>2. \A u \in Threads : Ahead(u, f) => Told(f)'
  BY SendersFacts, Zenon DEF Ahead, Told, Pending
<1> QED BY <1>1, <1>2, Zenon DEF Told, Pending

(* Queued packets stay in the queue when one is added, and are in hand or  *)
(* still queued when the first is taken.                                   *)
LEMMA QueueKeeps ==
  ASSUME NEW q \in Seq(Packets), NEW p \in Packets, NEW i \in DOMAIN q
  PROVE  /\ i \in DOMAIN Append(q, p) /\ Append(q, p)[i] = q[i]
         /\ Len(q) + 1 \in DOMAIN Append(q, p) /\ Append(q, p)[Len(q) + 1] = p
         /\ i = 1 \/ (i - 1 \in DOMAIN Tail(q) /\ Tail(q)[i - 1] = q[i])
         /\ i = 1 => q[i] = Head(q)
<1>1. i \in 1..Len(q) /\ Len(q) \in Nat OBVIOUS
<1>2. /\ DOMAIN Append(q, p) = 1..(Len(q) + 1)
      /\ Append(q, p)[i] = q[i] /\ Append(q, p)[Len(q) + 1] = p
  BY <1>1
<1>3. q # <<>> BY <1>1
<1>4. DOMAIN Tail(q) = 1..(Len(q) - 1) BY <1>1, <1>3
<1>5. i # 1 => Tail(q)[i - 1] = q[i] BY <1>1, <1>3
<1> QED BY <1>1, <1>2, <1>4, <1>5

LEMMA AppendHas ==
  ASSUME NEW q \in Seq(Packets), NEW p \in Packets
  PROVE  \E i \in DOMAIN Append(q, p) : Append(q, p)[i] = p
<1>1. Len(q) + 1 \in DOMAIN Append(q, p) /\ Append(q, p)[Len(q) + 1] = p OBVIOUS
<1> QED BY <1>1

LEMMA ReportStep ==
  ASSUME TypeOK, SessionInv, NoReportVanishes, [Next]_vars PROVE NoReportVanishes'
<1> USE ConnectionConstants
<1>t. /\ session \in 0..MaxSessions /\ pc \in [Senders -> Places]
      /\ found \in 0..MaxFiles /\ queue \in Seq(Packets)
      /\ next \in [Threads -> 1..(MaxFiles + 1)] /\ hand \in [Senders -> Packets]
  BY Zenon DEF TypeOK
<1>1. CASE Connect \/ Accept \/ Lose \/ Disconnect
  <2>1. link' # "on" \/ (link = "asked" /\ UNCHANGED <<session, pc>>)
    BY <1>1 DEF Connect, Accept, Lose, Disconnect
  <2> QED BY <2>1, Zenon DEF NoReportVanishes, SessionInv
<1>2. CASE ReceiveAccepted \/ UNCHANGED vars
  BY <1>2, Zenon DEF ReceiveAccepted, vars, game, NoReportVanishes, Pending, InHand, Ahead
<1> SUFFICES ASSUME ~Connect, ~Accept, ~Lose, ~Disconnect, ~ReceiveAccepted, ~UNCHANGED vars,
                    link' = "on", pc'[session'] # "none", NEW f \in 1..found'
             PROVE  Told(f)'
  BY <1>1, <1>2, Zenon DEF NoReportVanishes, Told
<1>3. UNCHANGED <<session, link>> /\ got \subseteq got'
  BY DEF Next, ReceiveRPC, SendAuthKey, Send, Add, ScanAndProcess, AddFile, Process,
         ProcessLock, ProcessNext, OnConnect, ResendFiles, game
<1>4. session \in Threads BY <1>3, <1>t DEF SessionInv, Threads
<1>5. CASE SendAuthKey
  <2>1. Ahead(session, f)' BY <1>3, <1>4, <1>5, <1>t, SendersFacts DEF SendAuthKey, Ahead
  <2> QED BY <1>3, <1>4, <2>1, Zenon DEF Told, Pending
<1> SUFFICES ASSUME ~SendAuthKey PROVE Told(f)' BY <1>5
<1>6. pc[session] # "none"
  <2>1. CASE ReceiveRPC
    <3>1. \A u \in Threads : pc'[u] = pc[u]
      BY <2>1, CustomSendEffect, SendersFacts, Zenon DEF ReceiveRPC
    <3> QED BY <1>3, <1>4, <3>1
  <2>2. CASE \E t \in Senders : Send(t) \/ Add(t)
    <3> PICK t \in Senders : Send(t) \/ Add(t) BY <2>2
    <3>1. pc[t] # "none" BY DEF Send, Add
    <3>2. \A u \in Senders \ {t} : pc'[u] = pc[u] BY ReturnEffect, Zenon DEF Send, Add
    <3> QED BY <1>3, <1>4, <3>1, <3>2, SendersFacts, Zenon
  <2>3. CASE ScanAndProcess
    <3>1. \A u \in Threads : pc'[u] = pc[u]
      BY <2>3, <1>t, SendersFacts DEF ScanAndProcess, AddFile, Process, ProcessLock, ProcessNext, CustomSend
    <3> QED BY <1>3, <1>4, <3>1
  <2>4. CASE \E t \in Threads : OnConnect(t) \/ ResendFiles(t)
    <3> PICK t \in Threads : OnConnect(t) \/ ResendFiles(t) BY <2>4
    <3>1. pc[t] # "none" BY DEF OnConnect, ResendFiles
    <3>2. \A u \in Senders \ {t} : pc'[u] = pc[u]
      BY <1>t, SendersFacts DEF OnConnect, ResendFiles, CustomSend
    <3> QED BY <1>3, <1>4, <3>1, <3>2, SendersFacts, Zenon
  <2> QED BY <2>1, <2>2, <2>3, <2>4, Zenon DEF Next, vars
<1>7. f \in 1..found => Told(f)
  BY <1>3, <1>6, Zenon DEF NoReportVanishes, Told
<1>8. CASE ReceiveRPC
  <2>1. f \in 1..found /\ UNCHANGED <<queue, next, got>> BY <1>8, Zenon DEF ReceiveRPC
  <2>2. \A u \in Senders \ {Game} : pc'[u] = pc[u] /\ hand'[u] = hand[u]
    BY <1>8, CustomSendEffect, SendersFacts, Zenon DEF ReceiveRPC
  <2>3. ~InHand(Game, f) BY <1>8 DEF ReceiveRPC, InHand, Sending
  <2>4. \A i \in DOMAIN queue : queue[i] = f => Told(f)' BY <2>1, Zenon DEF Told, Pending
  <2> QED BY <1>7, <2>1, <2>2, <2>3, <2>4, OthersStillHold, SendersFacts, Zenon
<1>9. ASSUME NEW t \in Senders, Send(t) \/ Add(t) PROVE Told(f)'
  <2>1. UNCHANGED <<found, next>> /\ Return(t) /\ pc[t] \in Sending /\ f \in 1..found
    BY <1>9, Zenon DEF Send, Add, game, Sending
  <2>2. \A u \in Senders \ {t} : pc'[u] = pc[u] /\ hand'[u] = hand[u]
    BY <2>1, ReturnEffect, Zenon
  <2>3. \A i \in DOMAIN queue : queue[i] = f => Told(f)'
    <3>1. CASE Send(t) BY <3>1, Zenon DEF Send, Told, Pending
    <3>2. CASE Add(t)
      <4>1. hand[t] \in Packets /\ queue' = Append(queue, hand[t])
        BY <1>t, <3>2, Zenon DEF Add
      <4> QED BY <1>t, <4>1, QueueKeeps, Zenon DEF Told, Pending
    <3> QED BY <1>9, <3>1, <3>2
  <2>4. InHand(t, f) => Told(f)'
    <3>1. CASE Send(t) BY <1>3, <3>1, Zenon DEF Send, InHand, Told
    <3>2. CASE Add(t)
      <4>1. hand[t] \in Packets /\ queue' = Append(queue, hand[t])
        BY <1>t, <3>2, Zenon DEF Add
      <4> QED BY <1>t, <4>1, AppendHas, Zenon DEF InHand, Told, Pending
    <3> QED BY <1>9, <3>1, <3>2
  <2>5. t \in Threads /\ Ahead(t, f) => Told(f)'
    <3> SUFFICES ASSUME t \in Threads, Ahead(t, f) PROVE Told(f)' OBVIOUS
    <3>1. hand[t] # Loose /\ next[t] <= f BY <2>1 DEF Ahead, Sending
    <3>2. pc'[t] = "idle" /\ next'[t] = next[t] BY <2>1, <3>1, ReturnEffect, Zenon
    <3> QED BY <3>1, <3>2, Zenon DEF Ahead, Told, Pending
  <2> QED BY <1>3, <1>7, <2>1, <2>2, <2>3, <2>4, <2>5, OthersStillHold, Zenon
<1>10. CASE AddFile
  <2>0. found' \in Packets /\ IsConnected \in BOOLEAN
    <3>1. found' \in 0..MaxFiles BY <1>10, <1>t DEF AddFile
    <3> QED BY <3>1, Zenon DEF IsConnected, Packets
  <2>1. /\ pc[Loader] = "idle" /\ UNCHANGED <<queue, next, got>>
        /\ pc'[Loader] \in Sending /\ hand'[Loader] = found'
        /\ \A u \in Senders \ {Loader} : pc'[u] = pc[u] /\ hand'[u] = hand[u]
    BY <1>10, <2>0, CustomSendEffect, SendersFacts, Zenon DEF AddFile
  <2>2. CASE f = found'
    BY <2>1, <2>2, SendersFacts, Zenon DEF InHand, Told, Pending
  <2>3. CASE f # found'
    <3>1. f \in 1..found BY <1>10, <1>t, <2>3 DEF AddFile
    <3>2. ~InHand(Loader, f) BY <2>1 DEF InHand, Sending
    <3>3. \A i \in DOMAIN queue : queue[i] = f => Told(f)' BY <2>1, Zenon DEF Told, Pending
    <3> QED BY <1>7, <2>1, <3>1, <3>2, <3>3, OthersStillHold, SendersFacts, Zenon
  <2> QED BY <2>2, <2>3
<1>11. CASE Process \/ ProcessLock \/ (ProcessNext /\ queue = <<>>)
  <2>1. /\ f \in 1..found /\ pc[Loader] \notin Sending /\ UNCHANGED <<queue, next, got>>
        /\ \A u \in Senders \ {Loader} : pc'[u] = pc[u] /\ hand'[u] = hand[u]
    BY <1>11, <1>t, SendersFacts DEF Process, ProcessLock, ProcessNext, Sending
  <2>2. ~InHand(Loader, f) BY <2>1, Zenon DEF InHand
  <2>3. \A i \in DOMAIN queue : queue[i] = f => Told(f)' BY <2>1, Zenon DEF Told, Pending
  <2> QED BY <1>7, <2>1, <2>2, <2>3, OthersStillHold, SendersFacts, Zenon
<1>12. CASE ProcessNext /\ queue # <<>>
  <2>0. IsConnected \in BOOLEAN BY Zenon DEF IsConnected
  <2>1. /\ f \in 1..found /\ pc[Loader] \notin Sending /\ UNCHANGED <<next, got>>
        /\ queue' = Tail(queue) /\ CustomSend(Loader, Head(queue), IsConnected)
    BY <1>12 DEF ProcessNext, Sending
  <2>2. /\ pc'[Loader] \in Sending /\ hand'[Loader] = Head(queue)
        /\ \A u \in Senders \ {Loader} : pc'[u] = pc[u] /\ hand'[u] = hand[u]
    BY <2>0, <2>1, CustomSendEffect, SendersFacts, Zenon
  <2>3. \A i \in DOMAIN queue : queue[i] = f => Told(f)'
    <3> SUFFICES ASSUME NEW i \in DOMAIN queue, queue[i] = f PROVE Told(f)' OBVIOUS
    <3>1. CASE i = 1
      <4>1. Head(queue) = f BY <1>t, <3>1, QueueKeeps, SendersFacts, Zenon
      <4> QED BY <2>2, <4>1, SendersFacts, Zenon DEF InHand, Told, Pending
    <3>2. CASE i # 1
      <4>1. i - 1 \in DOMAIN queue' /\ queue'[i - 1] = f
        BY <1>t, <2>1, <3>2, QueueKeeps, SendersFacts, Zenon
      <4> QED BY <4>1, Zenon DEF Told, Pending
    <3> QED BY <3>1, <3>2
  <2>4. ~InHand(Loader, f) BY <2>1, Zenon DEF InHand
  <2> QED BY <1>7, <2>1, <2>2, <2>3, <2>4, OthersStillHold, SendersFacts, Zenon
<1>13. ASSUME NEW t \in Threads, OnConnect(t) PROVE Told(f)'
  <2>1. /\ f \in 1..found /\ pc[t] = "waiting" /\ pc'[t] = "idle" /\ next[t] = 1
        /\ UNCHANGED <<queue, next, got, hand>> /\ t \in Senders
        /\ \A u \in Senders \ {t} : pc'[u] = pc[u]
    BY <1>13, <1>t, SendersFacts DEF OnConnect, SessionInv
  <2>2. next'[t] <= f BY <1>t, <2>1
  <2>3. Ahead(t, f)' BY <2>1, <2>2, Zenon DEF Ahead
  <2> QED BY <2>3, Zenon DEF Told, Pending
<1>14. ASSUME NEW t \in Threads, ResendFiles(t) PROVE Told(f)'
  <2>0. t \in Senders /\ IsConnected \in BOOLEAN BY SendersFacts, Zenon DEF IsConnected
  <2>1. /\ f \in 1..found /\ pc[t] = "idle" /\ UNCHANGED <<queue, got>>
        /\ \A u \in Threads \ {t} : next'[u] = next[u]
        /\ \A u \in Senders \ {t} : pc'[u] = pc[u] /\ hand'[u] = hand[u]
    BY <1>14, <1>t, <2>0 DEF ResendFiles, CustomSend
  <2>2. ~InHand(t, f) BY <2>1 DEF InHand, Sending
  <2>3. \A i \in DOMAIN queue : queue[i] = f => Told(f)' BY <2>1, Zenon DEF Told, Pending
  <2>4. Ahead(t, f) => Told(f)'
    <3> SUFFICES ASSUME next[t] <= f PROVE Told(f)' BY <2>1 DEF Ahead
    <3>1. next[t] <= found BY <1>t, <2>1
    <3>2. CustomSend(t, next[t], IsConnected) /\ next' = [next EXCEPT ![t] = @ + 1]
      BY <1>14, <1>t, <3>1 DEF ResendFiles
    <3>3. pc'[t] \in Sending /\ hand'[t] = next[t] BY <2>0, <3>2, CustomSendEffect, Zenon
    <3>4. CASE f = next[t] BY <2>0, <3>3, <3>4, Zenon DEF InHand, Told, Pending
    <3>5. CASE f # next[t]
      <4>1. next'[t] <= f /\ hand'[t] # Loose BY <1>t, <2>1, <3>2, <3>3, <3>5 DEF Loose
      <4>2. Ahead(t, f)' BY <3>3, <4>1, Zenon DEF Ahead
      <4> QED BY <4>2, Zenon DEF Told, Pending
    <3> QED BY <3>4, <3>5
  <2> QED BY <1>3, <1>7, <2>0, <2>1, <2>2, <2>3, <2>4, OthersStillHold, Zenon
<1> QED BY <1>8, <1>9, <1>10, <1>11, <1>12, <1>13, <1>14, Zenon DEF Next, ScanAndProcess
-------------------------------------------------------------------------------
(* The inductive invariant.                                                *)
IInv == TypeOK /\ SessionInv /\ ServerInv /\ NoReportVanishes

LEMMA InvInit == Init => IInv
<1> SUFFICES ASSUME Init PROVE SessionInv /\ ServerInv /\ NoReportVanishes
  BY TypeInit, Zenon DEF IInv
<1>1. SessionInv BY DEF Init, SessionInv, Threads, Senders
<1>2. ServerInv BY SendersFacts DEF Init, ServerInv
<1>3. NoReportVanishes BY DEF Init, NoReportVanishes
<1> QED BY <1>1, <1>2, <1>3

LEMMA InvStep == IInv /\ [Next]_vars => IInv'
BY TypeStep, SessionStep, ServerStep, ReportStep, Zenon DEF IInv

(* Once its thread runs, a session loses sight of no file: it has been     *)
(* told, or somebody still holds it.                                       *)
THEOREM ReportsKept == Spec => []NoReportVanishes
<1>1. IInv => NoReportVanishes BY DEF IInv
<1> QED BY <1>1, InvInit, InvStep, PTL DEF Spec

(* Whoever tested the connection of this session sends to a server that    *)
(* runs the plugin and has been sent the initial information.              *)
THEOREM ReportsInOrder == Spec => []ReportsFollowTheInfo
<1>1. IInv => ReportsFollowTheInfo BY DEF IInv, ServerInv, ReportsFollowTheInfo
<1> QED BY <1>1, InvInit, InvStep, PTL DEF Spec

(* A loader that waits for the mutex it holds waits for good, whatever     *)
(* anybody else does.                                                      *)
THEOREM StuckForGood == Spec => [][LoaderStuck => LoaderStuck']_vars
<1>1. TypeOK /\ [Next]_vars => (LoaderStuck => LoaderStuck')
  <2> SUFFICES ASSUME TypeOK, [Next]_vars, LoaderStuck PROVE LoaderStuck' OBVIOUS
  <2>1. /\ pc \in [Senders -> Places] /\ session \in 0..MaxSessions
        /\ pc[Loader] = "add" /\ holder = Loader /\ holder # Nobody
    BY SendersFacts, Zenon DEF TypeOK, LoaderStuck
  <2>2. CASE ReceiveRPC
    <3>1. pc'[Loader] = pc[Loader]
      BY <2>2, CustomSendEffect, SendersFacts, Zenon DEF ReceiveRPC
    <3> QED BY <2>1, <2>2, <3>1 DEF ReceiveRPC, LoaderStuck
  <2>3. ASSUME NEW t \in Senders, Send(t) \/ Add(t) PROVE LoaderStuck'
    <3>1. t # Loader /\ Return(t) /\ holder' = holder BY <2>1, <2>3 DEF Send, Add
    <3>2. pc'[Loader] = pc[Loader] BY <3>1, ReturnEffect, SendersFacts, Zenon
    <3> QED BY <2>1, <3>1, <3>2 DEF LoaderStuck
  <2>4. CASE SendAuthKey
    BY <2>1, <2>4, SendersFacts, ConnectionConstants
       DEF SendAuthKey, LoaderStuck, Loader
  <2>5. CASE ScanAndProcess
    BY <2>1, <2>5 DEF ScanAndProcess, AddFile, Process, ProcessLock, ProcessNext
  <2>6. ASSUME NEW t \in Threads, OnConnect(t) \/ ResendFiles(t) PROVE LoaderStuck'
    <3>1. pc'[Loader] = pc[Loader] /\ holder' = holder
      BY <2>1, <2>6, SendersFacts DEF OnConnect, ResendFiles, CustomSend
    <3> QED BY <2>1, <3>1 DEF LoaderStuck
  <2>7. CASE Connect \/ Accept \/ Lose \/ Disconnect \/ ReceiveAccepted \/ UNCHANGED vars
    BY <2>1, <2>7, Zenon DEF Connect, Accept, Lose, Disconnect, ReceiveAccepted, vars, LoaderStuck
  <2> QED BY <2>2, <2>3, <2>4, <2>5, <2>6, <2>7, Zenon DEF Next
<1> QED BY <1>1, TypeCorrect, PTL DEF Spec
-------------------------------------------------------------------------------
(* The loader holds m_Access exactly while it is inside Process, and nobody *)
(* else ever keeps it beyond one step.                                      *)
AccessInv ==
  /\ pc[Loader] = "drain" => holder = Loader
  /\ holder = Loader => pc[Loader] \in Sending \cup {"drain"}

(* A step that leaves the mutex and the loader's place alone keeps it.     *)
LEMMA AccessKept ==
  ASSUME AccessInv, holder' = holder, pc'[Loader] = pc[Loader] PROVE AccessInv'
BY Zenon DEF AccessInv

LEMMA AccessStep ==
  ASSUME TypeOK, SessionInv, AccessInv, [Next]_vars PROVE AccessInv'
<1>t. /\ pc \in [Senders -> Places] /\ session \in 0..MaxSessions
      /\ holder \in {Nobody, Loader}
  BY Zenon DEF TypeOK
<1>1. CASE Connect \/ Accept \/ Lose \/ Disconnect \/ ReceiveAccepted \/ UNCHANGED vars
  BY <1>1, AccessKept, Zenon
     DEF Connect, Accept, Lose, Disconnect, ReceiveAccepted, vars
<1>2. CASE ReceiveRPC
  <2>1. pc'[Loader] = pc[Loader]
    BY <1>2, CustomSendEffect, SendersFacts, Zenon DEF ReceiveRPC
  <2> QED BY <1>2, <2>1, AccessKept, Zenon DEF ReceiveRPC
<1>3. CASE SendAuthKey
  <2>1. session # Loader
    BY <1>3, <1>t, ConnectionConstants DEF SendAuthKey, SessionInv, Loader
  <2> QED BY <1>3, <1>t, <2>1, AccessKept, SendersFacts, Zenon DEF SendAuthKey
<1>4. ASSUME NEW t \in Senders, Send(t) \/ Add(t) PROVE AccessInv'
  <2>1. Return(t) /\ holder' = holder BY <1>4, Zenon DEF Send, Add
  <2>2. CASE t = Loader
    <3>1. pc'[Loader] = IF holder = Loader THEN "drain" ELSE "idle"
      BY <1>t, <2>1, <2>2, SendersFacts DEF Return
    <3> QED BY <2>1, <3>1 DEF AccessInv
  <2>3. CASE t # Loader
    <3>1. pc'[Loader] = pc[Loader] BY <2>1, <2>3, ReturnEffect, SendersFacts, Zenon
    <3> QED BY <2>1, <3>1, AccessKept, Zenon
  <2> QED BY <2>2, <2>3
<1>5. CASE ScanAndProcess
  <2>1. pc[Loader] \in {"idle", "lock", "drain"}
    BY <1>5, Zenon DEF ScanAndProcess, AddFile, Process, ProcessLock, ProcessNext
  <2>2. CASE AddFile
    <3>1. pc'[Loader] \in Sending /\ holder' = holder
      BY <2>2, <1>t, SendersFacts, Zenon DEF AddFile, CustomSend, Sending
    <3> QED BY <3>1 DEF AccessInv, Sending
  <2>3. CASE Process
    BY <2>3, <1>t, SendersFacts DEF Process, AccessInv, Sending
  <2>4. CASE ProcessLock
    BY <2>4, <1>t, SendersFacts DEF ProcessLock, AccessInv
  <2>5. CASE ProcessNext /\ queue # <<>>
    <3>1. pc'[Loader] \in Sending /\ holder' = holder
      BY <2>5, <1>t, SendersFacts, Zenon DEF ProcessNext, CustomSend, Sending
    <3> QED BY <3>1 DEF AccessInv, Sending
  <2>6. CASE ProcessNext /\ queue = <<>>
    BY <2>6, <1>t, SendersFacts DEF ProcessNext, AccessInv
  <2> QED BY <1>5, <2>2, <2>3, <2>4, <2>5, <2>6, Zenon DEF ScanAndProcess
<1>6. ASSUME NEW t \in Threads, OnConnect(t) \/ ResendFiles(t) PROVE AccessInv'
  <2>1. pc'[Loader] = pc[Loader] /\ holder' = holder
    BY <1>6, <1>t, SendersFacts DEF OnConnect, ResendFiles, CustomSend
  <2> QED BY <2>1, AccessKept, Zenon
<1> QED BY <1>1, <1>2, <1>3, <1>4, <1>5, <1>6, Zenon DEF Next

(* m_Access is held exactly while the loader works off the queue: it is    *)
(* never left locked behind it, so whoever waits in CustomSend waits for a *)
(* loader that still has steps to take, or is the loader stuck.            *)
THEOREM AccessIsGivenBack == Spec => []AccessInv
<1>1. Init => AccessInv BY SendersFacts DEF Init, AccessInv
<1>2. SessionInv /\ TypeOK /\ AccessInv /\ [Next]_vars => AccessInv'
  BY AccessStep, Zenon
<1>3. IInv => SessionInv /\ TypeOK BY Zenon DEF IInv
<1> QED BY <1>1, <1>2, <1>3, InvInit, InvStep, PTL DEF Spec

(* While the loader holds m_Access, the queue only loses its first packet, *)
(* by the loader's own step: what is queued meanwhile cannot mix with what *)
(* is worked off, and the round ends.                                      *)
THEOREM OnlyTheHolderPops ==
  Spec => [][/\ queue' # queue /\ holder = Loader => ProcessNext /\ queue' = Tail(queue)
             /\ queue' # queue /\ holder # Loader
                  => \E t \in Senders : Add(t) /\ queue' = Append(queue, hand[t])]_vars
<1> DEFINE A == /\ queue' # queue /\ holder = Loader => ProcessNext /\ queue' = Tail(queue)
                /\ queue' # queue /\ holder # Loader
                     => \E t \in Senders : Add(t) /\ queue' = Append(queue, hand[t])
<1>1. AccessInv /\ [Next]_vars => [A]_vars
  <2> SUFFICES ASSUME AccessInv, Next, queue' # queue PROVE A
    BY Zenon
  <2>1. (\E t \in Senders : Add(t)) \/ (ProcessNext /\ queue # <<>>)
    BY Zenon DEF Next, Connect, Accept, Lose, Disconnect, ReceiveAccepted, ReceiveRPC,
       SendAuthKey, Send, ScanAndProcess, AddFile, Process, ProcessLock, ProcessNext,
       OnConnect, ResendFiles
  <2>2. CASE \E t \in Senders : Add(t)
    <3> PICK t \in Senders : Add(t) BY <2>2
    <3>1. holder # Loader /\ queue' = Append(queue, hand[t])
      BY SendersFacts, Zenon DEF Add
    <3> QED BY <3>1, Zenon
  <2>3. CASE ProcessNext /\ queue # <<>>
    BY <2>3, Zenon DEF ProcessNext, AccessInv
  <2> QED BY <2>1, <2>2, <2>3, Zenon
<1> QED BY <1>1, AccessIsGivenBack, PTL DEF Spec

(* A stuck loader takes the others along: whoever has to queue a packet    *)
(* stays in CustomSend for good, the game's thread included, and the queue *)
(* never changes again.                                                    *)
THEOREM StuckTakesAllAlong ==
  Spec => [][LoaderStuck => /\ queue' = queue
                            /\ \A t \in Senders : pc[t] = "add" => pc'[t] = "add"]_vars
<1> DEFINE A == LoaderStuck => /\ queue' = queue
                               /\ \A t \in Senders : pc[t] = "add" => pc'[t] = "add"
<1>1. TypeOK /\ SessionInv /\ [Next]_vars => [A]_vars
  <2> SUFFICES ASSUME TypeOK, SessionInv, Next, LoaderStuck
               PROVE  /\ queue' = queue
                      /\ \A t \in Senders : pc[t] = "add" => pc'[t] = "add"
    BY Zenon
  <2>t. /\ pc \in [Senders -> Places] /\ session \in 0..MaxSessions
        /\ pc[Loader] = "add" /\ holder # Nobody
    BY SendersFacts, Zenon DEF TypeOK, LoaderStuck
  <2>1. CASE Connect \/ Accept \/ Lose \/ Disconnect \/ ReceiveAccepted
    BY <2>1, Zenon DEF Connect, Accept, Lose, Disconnect, ReceiveAccepted
  <2>2. CASE ReceiveRPC
    <3>1. pc[Game] = "idle" /\ queue' = queue BY <2>2, Zenon DEF ReceiveRPC
    <3>2. \A u \in Senders \ {Game} : pc'[u] = pc[u]
      BY <2>2, CustomSendEffect, SendersFacts, Zenon DEF ReceiveRPC
    <3> QED BY <3>1, <3>2
  <2>3. CASE SendAuthKey
    BY <2>3, <2>t DEF SendAuthKey
  <2>4. ASSUME NEW t \in Senders, Send(t) \/ Add(t)
        PROVE  queue' = queue /\ \A u \in Senders : pc[u] = "add" => pc'[u] = "add"
    <3>1. Send(t) BY <2>4, <2>t, Zenon DEF Add
    <3>2. pc[t] = "send" /\ Return(t) /\ queue' = queue BY <3>1, Zenon DEF Send
    <3>3. \A u \in Senders \ {t} : pc'[u] = pc[u] BY <3>2, ReturnEffect, Zenon
    <3> QED BY <3>2, <3>3
  <2>5. ~ScanAndProcess
    BY <2>t DEF ScanAndProcess, AddFile, Process, ProcessLock, ProcessNext
  <2>6. ASSUME NEW t \in Threads, OnConnect(t) \/ ResendFiles(t)
        PROVE  queue' = queue /\ \A u \in Senders : pc[u] = "add" => pc'[u] = "add"
    <3>1. pc[t] \in {"waiting", "idle"} /\ queue' = queue
      BY <2>6, Zenon DEF OnConnect, ResendFiles
    <3>2. \A u \in Senders \ {t} : pc'[u] = pc[u]
      BY <2>6, <2>t, SendersFacts DEF OnConnect, ResendFiles, CustomSend
    <3> QED BY <3>1, <3>2
  <2> QED BY <2>1, <2>2, <2>3, <2>4, <2>5, <2>6, Zenon DEF Next
<1>2. IInv => TypeOK /\ SessionInv BY Zenon DEF IInv
<1> QED BY <1>1, <1>2, InvInit, InvStep, PTL DEF Spec
-------------------------------------------------------------------------------
(* Everything that is queued, sent, or has arrived is the number of a file *)
(* that was found, and nobody's index is beyond the one after the last.    *)
OnlyFound ==
  /\ \A i \in DOMAIN queue : queue[i] <= found
  /\ \A t \in Senders : hand[t] <= found
  /\ \A t \in Threads : next[t] <= found + 1
  /\ \A f \in got : f <= found

(* A step of t that leaves the queue, the indices and the server alone     *)
(* keeps it, if what t holds is a file that is found by then.              *)
LEMMA HandKeeps ==
  ASSUME TypeOK, OnlyFound, NEW t \in Senders, found' \in Nat, found' >= found,
         hand'[t] <= found', \A u \in Senders \ {t} : hand'[u] = hand[u],
         UNCHANGED <<queue, next, got>>
  PROVE  OnlyFound'
<1>1. /\ found \in Nat /\ \A u \in Senders : hand[u] \in Nat
      /\ \A u \in Threads : next[u] \in Nat
      /\ \A i \in DOMAIN queue : queue[i] \in Nat
      /\ \A f \in got : f \in Nat
  BY ConnectionConstants DEF TypeOK, Packets
<1> QED BY <1>1 DEF OnlyFound

LEMMA FoundStep ==
  ASSUME TypeOK, OnlyFound, [Next]_vars PROVE OnlyFound'
<1> USE ConnectionConstants
<1>t. /\ pc \in [Senders -> Places] /\ hand \in [Senders -> Packets]
      /\ next \in [Threads -> 1..(MaxFiles + 1)] /\ queue \in Seq(Packets)
      /\ found \in 0..MaxFiles /\ found \in Nat
  BY DEF TypeOK
<1>c. IsConnected \in BOOLEAN BY Zenon DEF IsConnected
<1>p. \A p \in Packets : p \in Nat BY DEF Packets
<1>1. CASE UNCHANGED <<found, queue, hand, next>> /\ got' \subseteq got
  BY <1>1, Zenon DEF OnlyFound
<1>2. CASE Connect \/ Accept \/ Lose \/ Disconnect \/ ReceiveAccepted \/ SendAuthKey
           \/ Process \/ ProcessLock \/ (\E t \in Threads : OnConnect(t)) \/ UNCHANGED vars
  <2>1. UNCHANGED <<found, queue, hand, next>> /\ got' \subseteq got
    BY <1>2 DEF Connect, Accept, Lose, Disconnect, ReceiveAccepted, SendAuthKey, Process,
                ProcessLock, OnConnect, vars
  <2> QED BY <1>1, <2>1
<1>3. CASE ReceiveRPC
  <2>1. CASE \E t \in Threads : pc[t] # "none"
    <3>1. hand'[Game] = Loose /\ \A u \in Senders \ {Game} : hand'[u] = hand[u]
      BY <1>3, <2>1, CustomSendEffect, SendersFacts, Zenon DEF ReceiveRPC
    <3>2. UNCHANGED <<found, queue, next, got>> BY <1>3, Zenon DEF ReceiveRPC
    <3>3. hand'[Game] <= found' BY <1>t, <3>1, <3>2 DEF Loose
    <3>4. found' \in Nat /\ found' >= found BY <1>t, <3>2
    <3> QED BY <3>1, <3>2, <3>3, <3>4, HandKeeps, SendersFacts, Zenon
  <2>2. CASE ~\E t \in Threads : pc[t] # "none"
    BY <1>1, <1>3, <2>2, Zenon DEF ReceiveRPC
  <2> QED BY <2>1, <2>2
<1>4. ASSUME NEW t \in Senders, Send(t) \/ Add(t) PROVE OnlyFound'
  <2>1. Return(t) /\ UNCHANGED <<found, next>> BY <1>4, Zenon DEF Send, Add
  <2>2. hand' = [hand EXCEPT ![t] = Loose] BY <2>1, Zenon DEF Return
  <2>3. \A u \in Senders : hand'[u] <= found'
    BY <1>t, <2>1, <2>2 DEF OnlyFound, Loose
  <2>4. hand[t] <= found BY Zenon DEF OnlyFound
  <2>5. CASE Send(t)
    <3>1. queue' = queue /\ got' \subseteq got \cup {hand[t]} BY <2>5, Zenon DEF Send
    <3> QED BY <2>1, <2>3, <2>4, <3>1, Zenon DEF OnlyFound
  <2>6. CASE Add(t)
    <3>1. got' = got /\ queue' = Append(queue, hand[t]) BY <2>6, Zenon DEF Add
    <3>2. \A i \in DOMAIN queue' : queue'[i] = hand[t] \/ (i \in DOMAIN queue /\ queue'[i] = queue[i])
      <4>1. hand[t] \in Packets BY <1>t
      <4>2. DOMAIN Append(queue, hand[t]) = 1..(Len(queue) + 1) /\ DOMAIN queue = 1..Len(queue)
            /\ Len(queue) \in Nat
        BY <1>t, <4>1
      <4>3. \A i \in 1..(Len(queue) + 1) : i = Len(queue) + 1 \/ i \in 1..Len(queue) BY <4>2
      <4> QED BY <1>t, <3>1, <4>1, <4>2, <4>3
    <3> QED BY <2>1, <2>3, <2>4, <3>1, <3>2, Zenon DEF OnlyFound
  <2> QED BY <1>4, <2>5, <2>6
<1>5. CASE AddFile
  <2>1. found' \in Packets /\ found' = found + 1 /\ UNCHANGED <<queue, next, got>>
    BY <1>5, <1>t DEF AddFile, Packets
  <2>2. hand'[Loader] = found' /\ \A u \in Senders \ {Loader} : hand'[u] = hand[u]
    BY <1>5, <1>c, <2>1, CustomSendEffect, SendersFacts, Zenon DEF AddFile
  <2>3. found' \in Nat /\ found' >= found /\ hand'[Loader] <= found' BY <1>t, <2>1, <2>2
  <2> QED BY <2>1, <2>2, <2>3, HandKeeps, SendersFacts, Zenon
<1>6. CASE ProcessNext
  <2>1. CASE queue = <<>> BY <1>1, <1>6, <2>1, Zenon DEF ProcessNext
  <2>2. CASE queue # <<>>
    <3>1. /\ queue' = Tail(queue) /\ CustomSend(Loader, Head(queue), IsConnected)
          /\ UNCHANGED <<found, next, got>>
      BY <1>6, <2>2, Zenon DEF ProcessNext
    <3>2. hand'[Loader] = Head(queue) /\ \A u \in Senders \ {Loader} : hand'[u] = hand[u]
      BY <1>c, <3>1, CustomSendEffect, SendersFacts, Zenon
    <3>3. Len(queue) \in Nat \ {0} /\ Head(queue) = queue[1] /\ 1 \in DOMAIN queue
      BY <1>t, <2>2
    <3>4. \A i \in DOMAIN Tail(queue) : i + 1 \in DOMAIN queue /\ Tail(queue)[i] = queue[i + 1]
      BY <1>t, <2>2
    <3>5. hand'[Loader] <= found BY <3>2, <3>3, Zenon DEF OnlyFound
    <3>6. \A u \in Senders : hand'[u] <= found BY <3>2, <3>5, Zenon DEF OnlyFound
    <3>7. \A i \in DOMAIN queue' : queue'[i] <= found
      BY <3>1, <3>4, Zenon DEF OnlyFound
    <3> QED BY <3>1, <3>6, <3>7, Zenon DEF OnlyFound
  <2> QED BY <2>1, <2>2
<1>7. ASSUME NEW t \in Threads, ResendFiles(t) PROVE OnlyFound'
  <2>0. t \in Senders /\ UNCHANGED <<found, queue, got>>
    BY <1>7, SendersFacts, Zenon DEF ResendFiles
  <2>1. CASE next[t] <= found
    <3>1. next' = [next EXCEPT ![t] = @ + 1] /\ CustomSend(t, next[t], IsConnected)
      BY <1>7, <1>t, <2>1 DEF ResendFiles
    <3>2. hand'[t] = next[t] /\ \A u \in Senders \ {t} : hand'[u] = hand[u]
      BY <1>c, <2>0, <3>1, CustomSendEffect, Zenon
    <3>3. \A u \in Senders : hand'[u] <= found BY <2>1, <3>2, Zenon DEF OnlyFound
    <3>4. \A u \in Threads : next'[u] <= found + 1
      BY <1>t, <2>1, <3>1 DEF OnlyFound
    <3> QED BY <2>0, <3>3, <3>4, Zenon DEF OnlyFound
  <2>2. CASE ~(next[t] <= found)
    <3>1. UNCHANGED next /\ (CustomSend(t, Loose, IsConnected) \/ UNCHANGED hand)
      BY <1>7, <2>2, Zenon DEF ResendFiles
    <3>2. CASE UNCHANGED hand BY <1>1, <2>0, <3>1, <3>2
    <3>3. CASE CustomSend(t, Loose, IsConnected)
      <4>1. hand'[t] = Loose /\ \A u \in Senders \ {t} : hand'[u] = hand[u]
        BY <1>c, <2>0, <3>3, CustomSendEffect, Zenon
      <4>2. hand'[t] <= found' /\ found' \in Nat /\ found' >= found
        BY <1>t, <2>0, <4>1 DEF Loose
      <4> QED BY <2>0, <3>1, <4>1, <4>2, HandKeeps, Zenon
    <3> QED BY <3>1, <3>2, <3>3
  <2> QED BY <2>1, <2>2
<1> QED BY <1>2, <1>3, <1>4, <1>5, <1>6, <1>7, Zenon DEF Next, ScanAndProcess

(* The server is only told of files that were found: no resend runs past   *)
(* the end of the list, although the list grows under it, and nothing is   *)
(* queued or sent that is in no list.                                      *)
THEOREM ReportsAreFound == Spec => []OnlyFound
<1>1. Init => OnlyFound
  BY ConnectionConstants, SendersFacts DEF Init, OnlyFound, Loose
<1>2. TypeOK /\ OnlyFound /\ [Next]_vars => OnlyFound' BY FoundStep, Zenon
<1> QED BY <1>1, <1>2, TypeCorrect, PTL DEF Spec
===============================================================================
