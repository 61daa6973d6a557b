--------------------------- MODULE ClientConnection ---------------------------
(***************************************************************************)
(* The client's side of a connection: the hooked RakNet interface, the     *)
(* thread that each connection starts to repeat what was found so far, the *)
(* loader thread that finds files and works off the queue of packets, and  *)
(* CustomSend, which all of them use.                                      *)
(*                                                                         *)
(* A packet is the number of the file it reports, in the order in which    *)
(* the files were found; Loose is one that is kept in no list (the answer  *)
(* to a challenge, a report on gta3.img).                                  *)
(***************************************************************************)
EXTENDS Integers, Sequences

CONSTANTS
  MaxSessions,  \* bound: calls of Connect
  MaxFiles,     \* bound: processes and modules to be found
  ImgModified   \* gta3.img differs from the original

ASSUME ConnectionConstants ==
  MaxSessions \in Nat /\ MaxFiles \in Nat /\ ImgModified \in BOOLEAN

Loose == 0
Packets == 0..MaxFiles

Game == -1                     \* the game's thread
Loader == 0                    \* the thread of CLoader::Initialize
Threads == 1..MaxSessions      \* OnConnect, started in the session of that number
Senders == {Game, Loader} \cup Threads
Nobody == -2

VARIABLES
  session,          \* calls of Connect so far
  link,             \* RakNet: "off", "asked", "on", or "lost" and not yet noticed
  plugin,           \* the server of this session runs the plugin
  accepted,         \* ID_CONNECTION_REQUEST_ACCEPTED waits to be received
  challenge,        \* a packet of the plugin waits to be received
  isACServer, hasSentInitInfo,
  found,            \* length of m_FilePaths
  queue,            \* m_Queue
  holder,           \* who has m_Access
  pc, hand,         \* where each thread is, and the packet it sends
  next,             \* index of each OnConnect thread in m_FilePaths
  since,            \* session in which a sender saw that it is connected (ghost)
  got               \* what has reached the server in this session (ghost)

game == <<link, plugin, accepted, challenge, isACServer, hasSentInitInfo, session>>
vars == <<game, found, queue, holder, pc, hand, next, since, got>>

Sending == {"send", "add"}              \* inside CustomSend
Places == Sending \cup {"none", "waiting", "idle", "done", "lock", "drain"}

Init ==
  /\ session = 0 /\ link = "off" /\ plugin = FALSE
  /\ accepted = FALSE /\ challenge = FALSE
  /\ isACServer = FALSE /\ hasSentInitInfo = FALSE
  /\ found = 0 /\ queue = <<>> /\ holder = Nobody
  /\ pc = [t \in Senders |-> IF t \in Threads THEN "none" ELSE "idle"]
  /\ hand = [t \in Senders |-> Loose]
  /\ next = [t \in Threads |-> 1]
  /\ since = [t \in Senders |-> 0]
  /\ got = {}

IsConnected == isACServer /\ link = "on"

(* CustomSend tests the connection first.  The packet is then sent on      *)
(* whatever connection there is, or queued.                                *)
CustomSend(t, packet, connected) ==
  /\ pc' = [pc EXCEPT ![t] = IF connected THEN "send" ELSE "add"]
  /\ hand' = [hand EXCEPT ![t] = packet]
  /\ since' = [since EXCEPT ![t] = IF connected THEN session ELSE 0]

(* CustomSend has returned: where a thread goes on.                        *)
Return(t) ==
  /\ pc' = [pc EXCEPT ![t] = IF t = Loader /\ holder = Loader THEN "drain"
                             ELSE IF t \in Threads /\ hand[t] = Loose THEN "done"
                             ELSE "idle"]
  /\ hand' = [hand EXCEPT ![t] = Loose]

(* The flag is set before the packet is sent, so it is sent at most once.  *)
SendInitialInfo(due) ==
  /\ hasSentInitInfo' = TRUE
  /\ challenge' = (due \/ (~hasSentInitInfo /\ link = "on" /\ plugin))
-------------------------------------------------------------------------------
(* The game's thread and RakNet's own.                                     *)

Connect ==
  /\ link = "off" /\ pc[Game] = "idle" /\ session < MaxSessions
  /\ session' = session + 1 /\ link' = "asked" /\ plugin' \in BOOLEAN
  /\ hasSentInitInfo' = FALSE /\ got' = {}
  /\ UNCHANGED <<accepted, challenge, isACServer, found, queue, holder, pc, hand,
                 next, since>>

Accept ==
  /\ link = "asked"
  /\ \/ link' = "on" /\ accepted' = TRUE
     \/ link' = "off" /\ UNCHANGED accepted
  /\ UNCHANGED <<session, plugin, challenge, isACServer, hasSentInitInfo, found,
                 queue, holder, pc, hand, next, since, got>>

Lose ==
  /\ link = "on" /\ link' = "lost"
  /\ UNCHANGED <<session, plugin, accepted, challenge, isACServer, hasSentInitInfo,
                 found, queue, holder, pc, hand, next, since, got>>

\* Mutant: Disconnect forgets what server it was.
DisconnectKeepsFlag ==
  /\ link # "off" /\ pc[Game] = "idle"
  /\ link' = "off" /\ accepted' = FALSE /\ challenge' = FALSE
  /\ hasSentInitInfo' = FALSE /\ UNCHANGED isACServer
  /\ UNCHANGED <<session, plugin, found, queue, holder, pc, hand, next, since, got>>

(* Called by the player's wish, and by the game when it hears of a loss.   *)
Disconnect ==
  /\ link # "off" /\ pc[Game] = "idle"
  /\ link' = "off" /\ accepted' = FALSE /\ challenge' = FALSE
  /\ isACServer' = FALSE /\ hasSentInitInfo' = FALSE
  /\ UNCHANGED <<session, plugin, found, queue, holder, pc, hand, next, since, got>>

ReceiveAccepted ==
  /\ accepted /\ pc[Game] = "idle"
  /\ accepted' = FALSE
  /\ SendInitialInfo(challenge)
  /\ UNCHANGED <<session, link, plugin, isACServer, found, queue, holder, pc, hand,
                 next, since, got>>

(* A packet of the plugin: the challenge that it answers every initial     *)
(* information with.  Without handlers, which come with the first          *)
(* ID_AUTH_KEY, it only tells what server this is.                         *)
ReceiveRPC ==
  /\ challenge /\ ~accepted /\ pc[Game] = "idle"
  /\ isACServer' = TRUE
  /\ IF \E t \in Threads : pc[t] # "none"
     THEN CustomSend(Game, Loose, link = "on") ELSE UNCHANGED <<pc, hand, since>>
  /\ SendInitialInfo(FALSE)
  /\ UNCHANGED <<session, link, plugin, accepted, found, queue, holder, next, got>>

(* The game sends ID_AUTH_KEY, once per connection.                        *)
SendAuthKey ==
  /\ link = "on" /\ pc[Game] = "idle" /\ pc[session] = "none"
  /\ pc' = [pc EXCEPT ![session] = "waiting"]
  /\ UNCHANGED <<game, found, queue, holder, hand, next, since, got>>
-------------------------------------------------------------------------------
(* The two ends of CustomSend.                                             *)

Send(t) ==
  /\ pc[t] = "send"
  /\ got' = IF link = "on" THEN got \cup {hand[t]} ELSE got
  /\ since' = [since EXCEPT ![t] = 0]
  /\ Return(t)
  /\ UNCHANGED <<game, found, queue, holder, next>>

(* The mutex is not recursive.                                             *)
Add(t) ==
  /\ pc[t] = "add" /\ holder = Nobody
  /\ queue' = Append(queue, hand[t])
  /\ Return(t)
  /\ UNCHANGED <<game, found, holder, next, since, got>>
-------------------------------------------------------------------------------
(* The loader thread: scans, and CPacketQueue::Process.                    *)

\* Mutant: the loader counts a file that it has not put into the list.
AddFileTwice ==
  /\ pc[Loader] = "idle" /\ found < MaxFiles
  /\ found' = found + 2
  /\ CustomSend(Loader, found', IsConnected)
  /\ UNCHANGED <<game, queue, holder, next, got>>

AddFile ==
  /\ pc[Loader] = "idle" /\ found < MaxFiles
  /\ found' = found + 1
  /\ CustomSend(Loader, found', IsConnected)
  /\ UNCHANGED <<game, queue, holder, next, got>>

Process ==
  /\ pc[Loader] = "idle" /\ IsConnected
  /\ pc' = [pc EXCEPT ![Loader] = "lock"]
  /\ UNCHANGED <<game, found, queue, holder, hand, next, since, got>>

ProcessLock ==
  /\ pc[Loader] = "lock" /\ holder = Nobody
  /\ holder' = Loader
  /\ pc' = [pc EXCEPT ![Loader] = "drain"]
  /\ UNCHANGED <<game, found, queue, hand, next, since, got>>

\* Mutant: Process looks at the first packet and does not pop it.
ProcessKeepsPacket ==
  /\ pc[Loader] = "drain"
  /\ \/ queue # <<>> /\ CustomSend(Loader, Head(queue), IsConnected) /\ UNCHANGED holder
     \/ /\ queue = <<>> /\ holder' = Nobody
        /\ pc' = [pc EXCEPT ![Loader] = "idle"] /\ UNCHANGED <<hand, since>>
  /\ UNCHANGED <<game, found, queue, next, got>>

\* Mutant: Process ends without unlocking.
ProcessKeepsLock ==
  /\ pc[Loader] = "drain"
  /\ \/ /\ queue # <<>> /\ queue' = Tail(queue)
        /\ CustomSend(Loader, Head(queue), IsConnected)
     \/ /\ queue = <<>> /\ pc' = [pc EXCEPT ![Loader] = "idle"]
        /\ UNCHANGED <<queue, hand, since>>
  /\ UNCHANGED <<game, found, holder, next, got>>

ProcessNext ==
  /\ pc[Loader] = "drain"
  /\ \/ /\ queue # <<>>
        /\ queue' = Tail(queue) /\ CustomSend(Loader, Head(queue), IsConnected)
        /\ UNCHANGED holder
     \/ /\ queue = <<>>
        /\ holder' = Nobody /\ pc' = [pc EXCEPT ![Loader] = "idle"]
        /\ UNCHANGED <<queue, hand, since>>
  /\ UNCHANGED <<game, found, next, got>>
-------------------------------------------------------------------------------
(* OnConnect and ResendFiles.                                              *)

\* Mutant: OnConnect does not wait for the server to show what it is.
OnConnectAtOnce(t) ==
  /\ pc[t] = "waiting" /\ link = "on"
  /\ pc' = [pc EXCEPT ![t] = "done"]
  /\ UNCHANGED <<game, found, queue, holder, hand, next, since, got>>

OnConnect(t) ==
  /\ pc[t] = "waiting" /\ IsConnected
  /\ pc' = [pc EXCEPT ![t] = "idle"]
  /\ UNCHANGED <<game, found, queue, holder, hand, next, since, got>>

\* Mutant: the resend goes by the length the list had at its beginning.
ResendSkips(t) ==
  /\ pc[t] = "idle"
  /\ \/ /\ next[t] < found
        /\ next' = [next EXCEPT ![t] = @ + 1]
        /\ CustomSend(t, next[t], IsConnected)
     \/ /\ next[t] >= found
        /\ pc' = [pc EXCEPT ![t] = "done"] /\ UNCHANGED <<hand, since, next>>
  /\ UNCHANGED <<game, found, queue, holder, got>>

ResendFiles(t) ==
  /\ pc[t] = "idle"
  /\ \/ /\ next[t] <= found
        /\ next' = [next EXCEPT ![t] = @ + 1]
        /\ CustomSend(t, next[t], IsConnected)
     \/ /\ next[t] > found       \* then gta3.img
        /\ IF ImgModified THEN CustomSend(t, Loose, IsConnected)
           ELSE pc' = [pc EXCEPT ![t] = "done"] /\ UNCHANGED <<hand, since>>
        /\ UNCHANGED next
  /\ UNCHANGED <<game, found, queue, holder, got>>

ScanAndProcess == AddFile \/ Process \/ ProcessLock \/ ProcessNext

Next == \/ Connect \/ Accept \/ Lose \/ Disconnect
        \/ ReceiveAccepted \/ ReceiveRPC \/ SendAuthKey
        \/ \E t \in Senders : Send(t) \/ Add(t)
        \/ ScanAndProcess
        \/ \E t \in Threads : OnConnect(t) \/ ResendFiles(t)

Spec == Init /\ [][Next]_vars

(* Every thread goes on, the game receives and sends its key.  The loader  *)
(* sleeps a second between two rounds, so who waits for m_Access gets it.  *)
FairSpec ==
  /\ Spec
  /\ WF_vars(ReceiveAccepted) /\ WF_vars(ReceiveRPC) /\ WF_vars(SendAuthKey)
  /\ WF_vars(Process) /\ SF_vars(ProcessLock) /\ WF_vars(ProcessNext)
  /\ \A t \in Senders : WF_vars(Send(t)) /\ SF_vars(Add(t))
  /\ \A t \in Threads : WF_vars(OnConnect(t) \/ ResendFiles(t))
-------------------------------------------------------------------------------
(* The variables have their types.                                         *)
TypeOK ==
  /\ session \in 0..MaxSessions
  /\ link \in {"off", "asked", "on", "lost"}
  /\ plugin \in BOOLEAN /\ accepted \in BOOLEAN /\ challenge \in BOOLEAN
  /\ isACServer \in BOOLEAN /\ hasSentInitInfo \in BOOLEAN
  /\ found \in 0..MaxFiles
  /\ queue \in Seq(Packets)
  /\ holder \in {Nobody, Loader}
  /\ pc \in [Senders -> Places]
  /\ hand \in [Senders -> Packets]
  /\ next \in [Threads -> 1..(MaxFiles + 1)]
  /\ since \in [Senders -> 0..MaxSessions]
  /\ got \subseteq Packets

(* No report vanishes: while a connection is up and its OnConnect thread   *)
(* has been started, every file that was found has been reported in this   *)
(* session, or is queued, or in somebody's hand, or lies before an         *)
(* OnConnect thread.  Whatever a lost connection swallowed, and whatever   *)
(* was found between two steps of anybody, is told again.                  *)
InHand(t, f) == pc[t] \in Sending /\ hand[t] = f
Ahead(t, f) ==
  \/ pc[t] = "waiting"
  \/ next[t] <= f /\ (pc[t] = "idle" \/ (pc[t] \in Sending /\ hand[t] # Loose))
Pending(f) ==
  \/ \E i \in DOMAIN queue : queue[i] = f
  \/ \E t \in Senders : InHand(t, f)
  \/ \E t \in Threads : Ahead(t, f)

NoReportVanishes ==
  link = "on" /\ pc[session] # "none" =>
    \A f \in 1..found : f \in got \/ Pending(f)

(* Whoever tested the connection of this session sends to a server with    *)
(* the plugin, after the initial information: isACServer is never left     *)
(* over.  Only who was overtaken by a whole new connection between its     *)
(* test and its send reaches another server.                               *)
ReportsFollowTheInfo ==
  \A t \in Senders :
    pc[t] = "send" /\ since[t] = session /\ link = "on"
      => plugin /\ isACServer /\ hasSentInitInfo

(* The loader is stuck if the connection is lost while it sends a queued   *)
(* packet: CustomSend then calls Add, which locks m_Access a second time.  *)
LoaderStuck == pc[Loader] = "add" /\ holder = Loader

(* A server with the plugin that keeps a client learns of everything that  *)
(* was found before and during the connection, even if the loader is stuck.*)
Kept == link = "on" /\ plugin
EveryFileIsReported ==
  \A f \in 1..MaxFiles : <>[]Kept /\ <>(found >= f) => <>[](f \in got)

(* What was queued while there was no connection is sent, unless the       *)
(* loader is stuck, which is then so for good.                             *)
QueueIsWorkedOff == <>[]Kept => <>[](queue = <<>>) \/ <>[]LoaderStuck

(* The game's thread does not freeze in CustomSend, unless the loader is   *)
(* stuck with m_Access.                                                    *)
GameGoesOn == pc[Game] \in Sending ~> (pc[Game] = "idle" \/ LoaderStuck)
===============================================================================
