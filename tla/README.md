# SAMP_AC_v2: a TLA+ verification project

SAMP_AC_v2 is an anti-cheat for San Andreas Multiplayer: a server plugin
(`src/ACv2_Server`) that the SA-MP server loads, a client DLL (`src/acv2`) that
the game loads, and code that both share (`src/Shared`). The two sides talk
through an RPC layer of their own on top of the game's RakNet connection, and
the server also talks to a web server: for the lists of checksums and for the
ban list.

The project models the part of the plugin that decides who may stay: the player
table and its kick timers, the challenges that prove a client is still loaded,
the ban reports that are queued while the web server is away, the queue between
threads and the server tick, the timers that scan the game files, and the
settings a script gives a player. On the client's side it models the life of a
connection, with the threads that report what was found and the queue of
packets, and the list by which the client notices lost packets. TLC checks each
module on small instances, and TLAPS proves the main safety properties for every
value of the constants.

Contents: 1 inventory, 2 modules and how they correspond to the code, 3 runs and
bounds, 4 fairness, 5 findings, 6 proofs, 7 what is only model-checked or not
modelled, 8 plan, 9 how to run it.

## 1. Inventory

### 1.1 How the parts run and interact

The SA-MP server calls the plugin on one thread: the game callbacks
(`OnPlayerConnect`, `OnPlayerDisconnect`, `OnPlayerCommandText`), the RPC
handlers when a client's packet arrives, the natives when a script calls one,
and `ProcessTick` at every server tick. `ProcessTick` runs `CThreadSync::Process`
and then the due sampgdk timers. All of these are atomic with respect to
each other.

Beside it run detached threads: one per ban lookup (`CheckCheater`), one per ban
report (`AddCheater`, and another one for `AddBanToQueue` if the report failed),
one that reapplies queued bans (`CheckQueuedBans`), and one that downloads the
lists periodically. They talk to the main thread in three ways: through the
callback queue of `CThreadSync`, by reading the player table directly
(`CheckQueuedBans`), and through `queued_bans` with its mutex, condition and flag.

On the client, the loader thread, the threads started at each connection and the
game's own network thread share the file, process and module lists, the packet
queue and the list of announced packets.

### 1.2 Server plugin

| component | state | operations | what is hard | what makes it correct |
|---|---|---|---|---|
| player table: `Callback.cpp`, `CAntiCheat.cpp`, `CAntiCheatHandler.cpp`, `Network/CRPCCallback.cpp` | `CAntiCheat` objects by player id, `ACToggle`, `m_Admins`, one second kick timers, ban statuses | connect, disconnect, command, the client's reports, `OnBanChecked`, `KickPlayer`, `SetPlayerCanEnableAC` | everything is kept by player id, which the next connection reuses; the initial information comes before or after the join; timers and lookups outlive players; `/actoggle` changes the rules under everybody | with the checks on, whoever plays without the client or is known as banned is being kicked and leaves; nobody inherits another player's object, right or kick |
| client verification: `VerifiedPacketChecker.cpp` | per id: last answer, last challenge; one repeating timer | `VerifyClients`, `VerifyClient`, `IsVerified`, `WarnUnverifiedClient` | the timer is late, answers are slow, state survives the connection | a silent client is noticed soon; who answers is not warned |
| ban handler: `BanHandler.cpp` | `queued_bans`, mutex, condition, `BansQueueReady`, `BansQueueWasEmptied` | `AddCheater`, `AddBanToQueue`, `CheckQueuedBans`, `CheckCheater` | unlocked test, mutex held over a request and a sleep, flag on top of the mutex, partial failure | no ban is lost or reported out of order; each is settled; a backlog leads to a new look at all players |
| main thread sync: `CThreadSync.cpp` | `_queue`, `_mutex` | `AddCallbackToQueue` (any thread), `Process` (tick) | the lock of `AddCallbackToQueue` locks nothing | each callback is run once, whole, in order |
| file scan: `CAntiCheat.cpp`, `CThreadSync.cpp` | per object: index in the list, timer id; the global list | `CheckGTAFiles`, `Timer_CheckGTAFiles`, cleanup, `OnCheatsUpdate` | timers belong to ids, objects are replaced without being deleted, timer ids are reused, the list changes under the scan | a scan asks for every file and ends; nobody stops another player's timer |
| settings: `plugin.cpp`, `CAntiCheat.cpp`, with the client's `CRPCCallback.cpp`, `Misc.cpp` | FPS limit, crouch bug, sprint, reload, macro, blip settings per player, as defaults of `ac_config.ini`, and as the client applies them | the setting and getting natives, the `Toggle...` members, the client's handlers | two copies of the defaults; server and client disagree about field widths; the sprint limit goes through a float and back; objects are made late or left behind | what a getter tells is what the client applies |
| memory checks: `Callback.cpp` | none | one request per player and minute | none | reports lead to `OnMD5Calculated` |
| version check: `VersionHelper.cpp` | none | `IsClientCompatible` | none | |
| plugin life cycle: `plugin.cpp` | hooks, threads | `Load`, `Unload`, `ProcessTick` | threads outlive `Unload` | |
| hooks and RPC transport: `Hooks.cpp`, `Network/` | table of handlers | patches, dispatch | none of its own | |

### 1.3 Client and shared code

| component | state | operations | what is hard | what makes it correct |
|---|---|---|---|---|
| connection and packet queue: `CRakClientHandler.cpp`, `HookedRakClient.cpp`, `CPacketQueue.cpp`, `CRPCCallback.cpp`, `CLoader.cpp` | connected to an anti-cheat server or not, initial information sent or not, queued packets | connect, `OnConnect` thread, `CustomSend`, `Add`, `Process` | a thread per connection that waits without end; the connection is tested before it is used; sending under a lock that sending may take | a server with the plugin learns of everything, after the initial information; nobody hangs |
| packet integrity: `CPacketIntegrity.cpp` | list of announced packets, count of lost ones | constructor and destructor, `Check` | two threads in `Check`, packets announced and never sent, a time older than the list | what was sent is not taken for lost; entries do not stay |
| file, process, module lists: `CFileCheck.cpp`, `CProcessList.cpp`, `CDirectoryScanner.cpp`, `CInjectedLibraries.cpp`, `CModuleSecurity.cpp` | what was found and reported | scans, `AddFile`, `ResendFiles` | lists shared by loader and resend threads | every connection learns everything |
| list downloads: `Shared/MD5_Info` | one global answer buffer | `GetWebsiteText` and its users | several threads share the buffer; failed downloads | a list is what one answer says |
| self update: `Shared/SelfUpdater` | files on disk | check, download, compare, move, move | a crash or a failure between two moves | some working client is always in place |
| game patches, loader, launcher, elevator, installers | memory of the game, files | start-up code | no protocol | |

Each hazard of these parts is listed with its source line in `PROJECT.json`,
with the properties that cover it, or the reason why none does.

## 2. Modules

Names of the code are kept for actions and operators. A variable or field
marked "ghost" is no state of the program: it records whose an object, timer,
right or answer is, and no guard reads it. Definitions that begin with the
comment "Mutant:" are not part of any specification; they state the bugs that
each property was seen to notice.

### AntiCheatServer (with AntiCheatServerProofs)

A member of `Players` is one connection, so who comes back is another member;
`Slots` are the player ids. `stage` follows a connection through RakNet's accept
(`Attach`), `OnPlayerConnect`, and the way out. `ac` is
`CAntiCheatHandler::players` with the fields that matter here: whether
`m_CreationTick` is recent enough for `IsCreationTickValid`, and `m_BanStatus`.
`kicks[s][p]` counts the timers set for id `s` while `p` held it; they are
counted per target only to tell who was meant. `checks` are lookup threads under
way, `queue` the results that wait in `pMainThreadSync`.

| action | code |
|---|---|
| `OnIntialInfoGotten` | `CRPCCallback::OnIntialInfoGotten`: version check, `CAntiCheatHandler::Init`; once per connection, before or after the join |
| `OnPlayerConnect` | rights taken back, then one of three branches: bot, recent object (lookup), no or outdated object (removed, kick timer if `ACToggle`) |
| `OnPlayerDisconnect`, `Drop` | with a join the object is removed; without one no callback runs and the object stays |
| `KickPlayer` | the timer's callback: kicks who holds the id |
| `OnMD5Calculated`, `OnFileCalculated`, `OnImgFileModified`, `OnTamperAttempt`, `WarnUnverifiedClient`, `VersionIncompat` | the handlers that may set a kick timer, with their different guards |
| `SetPlayerCanEnableAC`, `OnPlayerCommandText` | `m_Admins` as the number of entries per id; `/actoggle` with both loops over the players |
| `LookupAnswered`, `OnCheaterCheckResponse`, `RecheckBan` | end of a lookup thread, `CThreadSync::OnCheaterCheckResponse` with `OnBanChecked`, the loop of `CheckQueuedBans` |

An answer may be negative for somebody on the ban list: a failed request posts
the same result (`BanHandler.cpp:286`). The initial information may be
processed after the join because RakNet's ordering does not relate it to the
join; a client sends it once per connection (`hasSentInitInfo` in
`HookedRakClient.cpp`).

### BanQueue and BanDelivery (with BanQueueProofs)

`BanQueue` goes through `AddCheater`, `AddBanToQueue_Thread` and
`CheckQueuedBans` step by step; `pc` says where each thread is. The test of
`queued_bans.empty()` happens without the mutex and may see either state of a
push under way (`SeenEmpty`). `Lock` is the `unique_lock` with the loop around
`BansQueueCond.wait`. A request ends in one of four ways: "registered",
"refused" (an HTTP error, which the code takes for success), "unanswered" (the
web server has the ban, the transfer failed) and "unreachable".

`BanDelivery` is the abstract specification: bans are asked for, settled at once
or put on a list, and the list is settled from its front. `BanQueue` implements
it under the mapping asked = threads started, backlog = `queued_bans`, settled =
`answered`: `DeliverySpec`, which the run checks, has its steps and its liveness;
`DeliverySafe` is the first half alone, which the theorem states.

### ClientVerification (with ClientVerificationProofs)

One slot and time. `age` is `getTickCount() - LastTimeVerifiedClient`, cut off
where `VerifyClients` stops telling values apart; `elapsed` is the time since
the timer's period began. The timer keeps its rhythm as `sampgdk_timer_fire`
does, and runs up to `MaxLate` late. `open` says that the player holds the last
challenge and has not answered it: answers to older challenges differ from
`ToVerify` and are ignored by `IsVerified`. Players come and go; nothing resets
the slot.

### ThreadSync and CallbackQueue (with ThreadSyncProofs)

`push`, `empty`, `front` and `pop` of the `std::deque` under `std::queue`, with
nothing between the threads: `AddCallbackToQueue` locks nothing, so pushes
overlap with each other and with `Process` as they like. `build` chooses the
deque. On Linux (libstdc++) a push constructs the element at the finish iterator
(`Construct`) and increments that (`Finish`), a pop increments the start
iterator (`Pop`). On Windows (the deque of Visual C++) there are an offset and a
number of elements, which a push increments and a pop decrements in two steps
(`Decrement`, `Store`). A push that has read an old value writes it back
incremented, and what another thread did in between is lost. The elements lie in
blocks behind a table, which any push may have to replace (`Grow`); when that
happens depends on the length of the queue, so the model leaves it open.

The C++ standard calls each of these races undefined. `Race` names the overlaps
in which two threads touch the same memory to harm: two pushes at a time; on
Windows a push during a pop; a push that replaces the table while the main
thread looks a block up in it (in `pop` on Linux, which frees blocks, in `front`
on Windows). `raced` records that one has happened. From then on the steps go on
as before, and the server may also crash at any moment (`Collapse`). No guard
keeps a race from happening. The rest (an element seen before or after the mark
moves, a test in the middle of a push, on Linux a pop in the middle of a push) is
modelled write by write, in program order, as x86 keeps it.

`CallbackQueue` is the abstract specification, a queue with atomic operations
that runs each callback once and in order, until threads race (`Break`); this is
what `AntiCheatServer` and `FileScan` take the queue for. `ThreadSync` implements
it (`AtomicUntilRace`) under the mapping `Waiting`: the written entries between
the marks, without the one that was called and not popped yet.

### FileScan (with MCFileScan, FileScanProofs)

`timers` is the part of sampgdk's table that scan timers use. A timer knows a
player id, an object knows the id of the timer it started; `KillTimer` of a free
entry does nothing, as in `sampgdk.c`. A new object's index is arbitrary, since
`m_CheckGTAFilesCurFileId` is not initialized, and it takes the place of the old
one without destroying it. The model starts with the lists of the web server,
`Lists`, where `<<>>` stands for a failed download. `told` (the files asked for)
and `swapped` (the list changed under the scan) are ghosts.

### Settings (with SettingsProofs)

The settings do not influence each other, so a behaviour follows one of them,
chosen in `Init`, over any number of connections of one client under one player
id. `ac` is the object's member for it, from which the getters tell; `wire` are the
packets under way, in order, since `PlayerSend` always sends reliably ordered;
`client` is the value in the client's `Misc`, which outlives connections.
`BitsSent` and `BitsRead` are the widths of the field on each side, and `Fits`
says whether the client's read succeeds: `Receive` gives the handler a stream
that is one byte longer than its data. A setting that does not fit is dropped.

The native takes a sprint limit v in tenths and stores v / 10 as a float
(`plugin.cpp:295`); member, packet and client all hold that float, so the model
names it by v (up to `MaxSprintLimit` different limits have different floats).
The getter multiplies by 10 and drops the fraction (`plugin.cpp:311`). The Linux
build, 32 bits without SSE, has the exact product in a register of the x87: if
the float is below the tenth (`RoundedDown`, from the 24 significant bits of a
float), 1 is lost, so that 7 is told as 6 and 9 as 8. The Windows build rounds the
product to a float first, which gives v again. `Told` is what either may return.

| action | code |
|---|---|
| `OnIntialInfoGotten` (`NewObject`) | the constructor's values, then `OnHardwareCalculated`, which looks at its own translation unit's default of the frame limit |
| `OnPlayerConnect` | the defaults of `Callback.cpp` are sent to a recent object; the frame limit is not among them; an outdated or missing object is removed |
| `CallNative` | the natives of `plugin.cpp` with their tests: the object must exist, the sprint limit not be negative, the frame limit not 0 |
| `Receive` | the client's handler of the packet |
| `OnPlayerDisconnect` | end of a connection; without a join no callback runs and the object stays |
| `PlayElsewhere` | another server with the plugin sets what it likes in between |

### ClientConnection (with ClientConnectionProofs)

The game's thread (`Connect`, `Disconnect`, and what `Receive` does with a
packet), the loader thread, and one thread per connection, started when the game
sends `ID_AUTH_KEY`. `link` is RakNet's own state, which the hooked interface
only asks for; `plugin` says what kind of server this is. A packet is the number
of the file it reports, or `Loose` for what is kept in no list.

| action | code |
|---|---|
| `Connect`, `Disconnect` | the two that clear `hasSentInitInfo`; only `Disconnect` clears `isACServer` |
| `ReceiveAccepted`, `ReceiveRPC` | `Receive` with its fall-through: a packet of the plugin sets `isACServer`, is processed, and has the initial information sent too, if it was not |
| `SendAuthKey` | `Send` with `CRPCCallback::Initialize` and the new thread |
| `CustomSend`, then `Send` or `Add` | the test of the connection and what follows it are two steps; a connection may end, and another begin, between them |
| `AddFile` | a scan finds something new: the list grows, then the report goes out |
| `Process`, `ProcessLock`, `ProcessNext` | `CPacketQueue::Process`: test, lock, one packet at a time through `CustomSend`, with the lock held |
| `OnConnect`, `ResendFiles` | wait for a server with the plugin, then go through the list by index, and gta3.img at the end |

`since` (the connection a sender saw) and `got` (what reached the server) are
ghosts. The mutex `m_Access` is not recursive, so a loader that is in "add"
while it holds it stays there: `LoaderStuck`.

### PacketIntegrity (with PacketIntegrityProofs)

`instances` maps an address to the entry that is allocated there; `by` is a
ghost that names its sender until that gave up. `Announce` is the constructor,
called by `CustomSend`; `Send` and `GameSend` lead into the hook of
`SendBuffered`, where `Check` reads the clock (`Enter`), looks through the list
(`Check`, with `Found` as `packets_to_remove`) and deletes (`Remove`). A send
that finds the connection gone never gets there, and its entry stays. Times are
differences: `age` of an entry, `lag` since a thread read the clock. `Difference`
is the unsigned subtraction of the two ticks, modulo `Width`. A second delete of
one entry is undefined: the model goes on or ends in "broken".

## 3. Runs

| run | instance | what it shows |
|---|---|---|
| `server` | 2 ids, 3 connections (old client and banned; no client and RCON admin; bot), 1 kick timer, 1 lookup, 1 answer, 1 grant | the safety of the player table, that nothing runs behind a player who is still there, that no kick is taken back, and that who was decided against leaves |
| `ban_queue` | 3 bans, all four outcomes | queue safety, each ban in it once, absence of waiting, implementation of `BanDelivery`, recheck |
| `verification` | interval 6, slack 1, lateness 1, join within 3 | bounds on silence, reasons for warnings, liveness of warnings |
| `thread_sync` | 3 callbacks, both builds, any overlap | only races do damage; until one, implementation of `CallbackQueue`, and every callback run |
| `file_scan` | 2 ids, 2 timer entries, lists of 0, 1 and 2 files | completeness and end of scans, ownership of timers |
| `settings` | all 8 settings, scripts call while fewer than 3 packets are under way | server and client agree, and the getters tell what they agree on, the sprint limit's up to 1; the configured frame limit is without effect |
| `client_connection` | 2 connections, 1 file, gta3.img modified | reports are not lost and follow the initial information; liveness of reports, queue and game |
| `packet_integrity` | 2 threads, 2 addresses, 2 checksums, limit 1, lag 1, 3 lost packets | only what was not sent stays, and not for ever; why a packet counts as lost |
| `stale_kick` | 1 id, 2 connections | violation, see 5 |
| `callback_race` | 2 callbacks, both builds | violation, see 5 |
| `setting_dropped` | all 8 settings, 1 packet | violation, see 5 |
| `packet_not_lost` | as `packet_integrity` | violation, see 5 |

Why the bounds are enough for the questions asked:

- *Player table.* A connection never comes back, so every interference is
  between the connection that left something behind and one that finds it: two
  connections on one id. The third one and the second id are there for
  `/actoggle`, which looks at all ids. `MaxKicks`, `MaxChecks`, `MaxQueue` and
  `MaxGrants` cut off repetitions: two timers for one player differ from one only
  in that the first may fire and the second be left. The guards that use them
  are in `ArmKick`, `CheckCheater`, `LookupAnswered` and `SetPlayerCanEnableAC`.
  One grant is enough for an id to be inherited with its right; that several
  list entries are taken back at once is in the theorem, which has no bound.
  No symmetry is used, since the run checks liveness.
- *Ban queue.* Three bans allow one at the front, one being pushed and one that
  waits for the mutex at the same time. Nothing is cut off.
- *Verification.* Six ticks to an interval leave room for a slack, a late
  timer and a join in the middle; times above the last threshold are one value.
- *Thread sync.* Three callbacks are two that race and a third that comes after, or
  one that is popped while another is pushed and a third waits. `Capacity` is the
  number of pushes, not a limit of the queue.
- *File scan.* Two timer entries let an id be reused after its owner ended, and
  two timers work for one player at once. When no entry is free `CheckGTAFiles`
  waits: the real table grows.
- *Settings.* The values are one that fits, the one that switches the setting off,
  one that the 16 bits of a packet cut off; for the sprint limit 0, one whose tenth
  is rounded up (1), one whose tenth is rounded down (7), and their negatives, which
  the native refuses and the configuration may hold. Three packets under way are two whose order matters and a late one.
- *Client connection.* Two connections are one that leaves something behind and
  one that finds it: a waiting thread, a flag, a queued packet, a sender between
  test and send. One file is found before, between, or during them; the second
  packet in play is the loose one.
- *Packet integrity.* Two addresses let an entry be freed, allocated again and
  deleted through an old pointer. `MaxLag` bounds how long a thread takes from
  the clock to the list; ages above `Old` are one value; `Width` only has to be
  large against both.

Deadlock is checked in the ban queue, verification, file scan and settings
runs. It is not checked where the instance may have come to its end: the
player table and the client connection, when every connection has come and gone;
packet integrity, when the process has ended; the two runs of `ThreadSync`, in
which a race may end the server.

## 4. Fairness

- `AntiCheatServer`: weak fairness of the kick timers, of the answers in the
  queue and of the disconnection of a player that was kicked. `ProcessTick` runs
  all due timers and the posted callbacks, and the server closes the connection
  of a kicked player. Players and lookup threads need not do anything.
- `BanQueue`: weak fairness of every thread, so the mutex is unfair: a thread in
  "locking" is not always able to go on, and may be overtaken for ever by
  threads that return. Strong fairness only of a reapplied ban being answered:
  the web server is back at some time. Nothing makes the main thread ask.
- `ClientVerification`: time passes and a due timer is served.
- `ThreadSync`: the server ticks, pushing threads go on, and (strong fairness of
  `GoOn`) a tick that finds an entry is not out of its 20 milliseconds every
  time before it looks at the first.
- `FileScan`: each timer fires again and again, as sampgdk runs every due timer.
- `ClientConnection`: every thread goes on, the game receives what waits and sends
  its key. Strong fairness of `Add` and `ProcessLock`: they wait for `m_Access`,
  which the loader holds for one round and then sleeps a second, so a waiting
  thread gets it. Files need not be found, connections need not be made or lost.
- `PacketIntegrity`: time passes, every thread goes on, and (strong fairness of
  `GameSend`) the game sends one of its own packets now and then, whatever its
  thread did in between: it sends one with every frame that has something to tell.

## 5. Findings

Each is a run that TLC ends with a counterexample; what the sources say is quoted
at the property and in `PROJECT.json`.

1. `stale_kick`: nothing cancels the one second kick timer when its player
   leaves, so the next holder of the id is kicked (`Callback.cpp:112`).
2. `callback_race`: the statement that should lock the queue declares a local
   variable instead, and one of two results is overwritten (`CThreadSync.cpp:21`).
3. `setting_dropped`: the crouch bug and the frame limit are written with 16 bits
   and read with 32; the read fails, the client ignores the setting, and the
   getter goes on to return it (`acv2/Network/CRPCCallback.cpp:221`).
4. `packet_not_lost`: `Check` takes the time before it takes the lock. An entry
   that is announced in between is younger than that time, the unsigned
   difference wraps, and a packet that is about to be sent counts as lost; the
   third one ends the game (`CPacketIntegrity.cpp:102`). `LossesExplained` says
   that this is the only way in which a packet counts as lost too early.

The modules also have these behaviours of the code, each a weakness that no run
is devoted to:

- A lookup's answer is stored in the object found under the id when it is
  processed, and may have another player kicked (`CThreadSync.cpp:58`;
  `OnCheaterCheckResponse` of `AntiCheatServer`).
- A failed lookup is recorded as "not banned" (`BanHandler.cpp:286`;
  `LookupAnswered`).
- A client that answered everything fails the verification, if a run of the timer
  fell between its initial information and its join
  (`VerifiedPacketChecker.cpp:67`; `PassBy` of `ClientVerification`). The
  exception in `WarnedForACause` is this one.
- `Init` replaces an object without deleting it, its timer goes on, and two timers
  scan for one player (`CAntiCheatHandler.cpp:13`; `FileScan`).
- The loader locks `m_Access` a second time if the connection is lost while it
  sends queued packets, and never goes on (`CPacketQueue.cpp:34`;
  `LoaderStuck` of `ClientConnection`, the exception in `QueueIsWorkedOff` and
  `GameGoesOn`). The repeated reports still arrive: `EveryFileIsReported` has no
  such exception.
- Two threads in `Check` may delete one entry twice (`CPacketIntegrity.cpp:121`;
  `Remove` of `PacketIntegrity`). No property speaks of it: with two senders,
  which the client always has, it happens.
- The getter of the sprint limit tells some limits as one less on Linux
  (`plugin.cpp:311`; `Told` of `Settings`), although `sampac.inc:186` calls the
  result the "Player's sprint speed limit".

## 6. Proofs

All theorems are for arbitrary values of the constants under the named
assumptions `ServerConstants`, `NullIsNoObject`, `BanQueueConstants`,
`VerificationConstants`, `ThreadSyncConstants`, `FileScanConstants`,
`NullIsNoScan`, `SettingsConstants`, `ConnectionConstants`,
`IntegrityConstants` and `FreeIsNoEntry`. These say that the special values are
different from the ordinary ones, that subsets are subsets and bounds are
naturals. Two have content. `VerificationConstants` says `MaxLate <= Slack` and
`Slack + MaxLate < Interval`. The slack is 30 milliseconds and the interval three
minutes, so the second says nothing new; the first says that no server tick is
more than 30 milliseconds late, without which `WarnedForACause` is false.
`IntegrityConstants` says that `Width`, 2^32 milliseconds, is larger than the
limit of 1.5 seconds and the lag together. TLC evaluates all the assumptions in
the runs. `SettingsConstants` bounds sprint limits by 2^20, up to which their floats
differ. No theorem has a hypothesis of its own beside these.

Every invariant and every action property that a passing run checks is also a
theorem. Where a run checks a temporal property that the prover cannot reach,
the theorems below have what its argument needs of the steps: that what must
happen is never put off, taken back or lost. Some theorems state formulas that
no run has as a property: `DeliverySafe`, `RunInOrder` and `FoundBannedIsKicked`,
which stand in the modules, and those whose formula is in the theorem itself or
beside it (`WrongKickComesLate`, `BacklogLeavesATrace`, `SilenceRunsOut`,
`ScannedHaveJoined`, `ScansGoForward`, `NeverApplied`, `StuckForGood`,
`AccessIsGivenBack`, `OnlyTheHolderPops`, `StuckTakesAllAlong` and
`ReportsAreFound`).

Each proof module proves one inductive invariant, one step per action and under
it one per part the action disturbs, and derives the properties from it.

- **AntiCheatServerProofs.** `TypeOK`; `Occupancy` (a connection holds one id in
  its life and joins at most once); `LookedUp` (only players who joined are
  looked up, so that an answer about the holder of an id is one to its own
  lookup); `RightsAreOwn` (entries of `m_Admins` under a player's id were made
  for that player, since `OnPlayerConnect` takes back the last holder's);
  `Owners` (whose objects lie where). From these: `UnprotectedKicked`,
  `BannedKicked`, `InheritanceBounded` and, as a property of steps,
  `TogglesAllowed`. `BannedIsBeingKicked` alone is not inductive: the step that
  stores an answer needs to know that the object's earlier answers, and the timer
  set for them, belong to the same connection.
  `NeverBehindWhoIsThere` shows that whatever is kept or under way under a player
  id because of somebody (a kick timer, a lookup, an answer, a status) concerns
  either who holds that id or a connection that is gone for good; with
  `Occupancy`, since each step only starts such a thing about the holder of an id
  and no connection moves to another id. `WrongKickComesLate` follows: the kick of
  `stale_kick` is the only kind of wrong kick. `NoWayOut` is the step property
  behind `UnprotectedLeaves` and `BannedLeaves`: a kick that is due ends only with
  its player. `PositiveAnswerKicks` is the step that begins it.
- **BanQueueProofs.** `Exclusion` (who is between lock and unlock holds the
  mutex), `BusyIsHeld` (the flag is down only while somebody holds it),
  `SeenBanStays` (what the unlocked test saw stays at the front: nobody else
  pops) and `Places` (where a ban is while its threads work). From these
  `FrontIsSafe`, `NobodyWaits`, `NoBanIsLost`, and `DeliverySafe`: the initial
  states map to initial states of `BanDelivery` and each step to a step or a
  stutter. `BacklogLeavesATrace` follows `BansQueueWasEmptied` from the pop that
  sets it to the recheck that clears it.
- **ClientVerificationProofs.** `AgeGrowsWithRuns` (each run without an answer
  adds an interval to `age`, up to the lateness) gives `SilenceIsNoticed`;
  `AnsweredSinceRun` gives `WarnedForACause`. `SilenceRunsOut` has both halves of
  why `UnloadedIsWarned` holds: each run counts, and there are no more than three.
- **ThreadSyncProofs.** Nothing is assumed about the scheduling of the threads.
  `Bounds` holds whatever happens: no push leaves the memory, and the number that
  pop decrements on Windows is not 0; with it `TypeOK` is inductive, through races
  too. `BeforeARace` says that until threads race the memory is what a locked queue
  would have: `Window` (what lies between the marks is the end of the sequence of
  finished pushes) and `OnePush` (a push that is under way writes the place behind
  them). That a second push begins, or any other overlap of `Race`, sets `raced` in
  the same step, so the proof of a step may assume `~raced'`. From these
  `DamageNeedsARace` and `RunInOrder`. `ImplementsAtomicQueue` maps the memory to
  `CallbackQueue`: a push is its `Add` in the step that moves the mark, a pass of
  `Process` its `RunOldest` in the step that calls the entry, a race its `Break`; all
  other writes are stutters. Three lemmas say what `Waiting` is, what leaves it
  alone, and that a callback that is about to be added is in neither list
  (`PushIsNew`).
- **FileScanProofs.** `TimerIsOwn` and `ToldBeforeIndex` (what was asked for is
  what lies before the index, whichever timer moved it) give `ScanIsComplete`.
  `ScannedHaveJoined` (a scan begins in `OnPlayerConnect` and nowhere else, and
  ends with its player) is what `ScansGoForward` needs: no second `CheckGTAFiles`
  can put a scan back, so the distance of the index from the end of the list only
  shrinks, by one each time the scan's own timer fires.
- **SettingsProofs.** `Agreed` (the server's value is the one the client ends up
  with) and `QuietBeforeJoin` (nothing is under way to who has not joined, nor was
  anything sent since the object was made), together with
  `FrameLimitComesFromScripts`, are inductive: it is why what an object was told
  begins with the join, also for an object that was left behind. `GettersTrue`
  follows from `Agreed` and the conversion in `Told`, for any sprint limits.
  `NeverApplied` needs the lemma `WhatFits`: exactly the two settings of 16 bits
  do not fit.
- **ClientConnectionProofs.** `SessionInv` (threads of later connections have not
  started, and a thread that has not begun to repeat the list is at its start),
  `ServerInv` (a flag that is set belongs to the connection of now, and so does
  the test of who is about to send) and `NoReportVanishes` itself. The last is
  inductive only because of `Ahead` in its statement: a thread that has not come
  to a file yet stands for its report. A new connection forgets everything that
  was told, and its own thread begins at the start of the list. `AccessInv` (the loader
  holds `m_Access` exactly while it works the queue off, or has locked it twice)
  gives `OnlyTheHolderPops`; together they are why a round ends and whoever waits
  for the mutex may get it. `StuckTakesAllAlong` is the other side: what the
  exceptions in `QueueIsWorkedOff` and `GameGoesOn` leave out is a state that no
  step of anybody repairs. `ReportsAreFound` bounds every index by the list.
- **PacketIntegrityProofs.** `TypeOK` needs `BelowLimit` (a running process has
  not counted up to the limit). `OnlyUnsentStay` is inductive with `TypeOK`: while
  its sender is on its way an entry has the checksum of what is sent, and the
  look at the list puts that very entry among those to be removed. `OwnIsOlder` (a
  thread reads the clock after it has announced its packet) gives
  `LossesAreExplained`, for any number of threads: a difference wraps only for a
  packet of another thread.

## 7. Only model-checked, and not modelled

Only model-checked: everything temporal beyond invariants and steps, that is
`UnprotectedLeaves`, `BannedLeaves`, the liveness of `BanDelivery`
(`DeliverySpec`), `BacklogIsFollowedByRecheck`, `UnloadedIsWarned`,
`RunUnlessRace`, `ScanEnds`, `EveryFileIsReported`, `QueueIsWorkedOff`,
`GameGoesOn` and `EveryEntryLeaves`. Liveness under fairness is out of the
prover's reach: it takes ENABLED for the fairness conditions and an induction over
the measure. The steps of `DeliverySpec` are proved (`ImplementsDelivery`), and
`NoWayOut`, `BacklogLeavesATrace`, `SilenceRunsOut`, `ScansGoForward`,
`OnlyTheHolderPops` and `StuckForGood` are the step halves of the arguments for
the others.

Not modelled, and why:

- A report handler that only calls a PAWN callback changes no state here. What
  scripts do in their callbacks is not part of the repository, except the
  natives they may call, which are actions.
- `CheckQueuedBans` reads the player table from its thread. That it may find a
  wrong object is in the model (`RecheckBan` happens between any two callbacks);
  that a `std::map` read during a write may end the server is not.
- The bytes of challenges: two of them are assumed to differ.
- In `ClientConnection` the lists of processes and of modules, which have the same
  code, are one, and gta3.img gives one report. That `m_FilePaths` is appended to
  by the loader while another thread indexes it is undefined behaviour of the
  vector; the model has the order of their steps, not a corrupted vector. The
  thread of `CModuleSecurity` that a hooked `LoadLibrary` runs on is left out.
- The second part of `CPacketIntegrity::Check` looks at the modules on the stack,
  and may send a report from within the hook. It has a flag of its thread that is
  left set if that report is queued instead of sent. The order in which one
  `Check` removes what it found is that of the list in the code and any order in
  the model. `ClientConnection` and `PacketIntegrity` are not composed: the one
  has what is sent when, the other what becomes of the announcement.
- The self update: one thread goes once through download, compare, move and move.
  A crash or a failure between the two moves leaves no client in place, and a
  wrong checksum does not stop the moves; no code recovers from either, so there
  is no behaviour after it to check. Both are among the hazards.
- Values in the game's memory, code patches, file formats, hashes: functions of
  their input, with nothing to interleave.
- `Load` and `Unload`: before and after everything else. A restart forgets all
  state, the queued bans too; nothing is written that could be recovered.

## 8. Plan

Done: the components above with their theorems: the server's player table,
verification, bans, callbacks, file scan and settings, and the client's
connection, queue, lists and packet integrity.

Next, in this order:

1. A composition of `AntiCheatServer`'s answers with `ThreadSync`, in which the
   answers arrive through the real queue, and a composition of the server's
   verification with the client's connection.
2. The second part of `CPacketIntegrity::Check`, with the report it sends from
   within the hook, composed with `ClientConnection`.
3. Proofs of the refinements of 1, beginning with that the queue of answers in
   `AntiCheatServer` is a `CallbackQueue`, as the memory of `ThreadSync` is.

Each module gets one passing run with its safety and liveness together.

## 9. How to run it

`tlc -workers 2 -config <cfg> <module>.tla` with the module and configuration of
each run in `PROJECT.json`; `tlapm <module>Proofs.tla` for the proofs. The
longest run, `server`, takes a minute and a half; the longest proof,
`AntiCheatServerProofs`, a few minutes from nothing.
