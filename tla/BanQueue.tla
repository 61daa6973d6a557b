------------------------------ MODULE BanQueue ------------------------------
(***************************************************************************)
(* BanHandler: the threads that report bans to the web server, the queue   *)
(* in which AddBanToQueue puts those that failed, and the thread that      *)
(* reapplies them, CheckQueuedBans.                                        *)
(*                                                                         *)
(* A member of Bans is one call of BanHandler::AddCheater and stands for   *)
(* both threads that work for it, one after the other: addCheaterThread    *)
(* and, if the request failed, AddBanToQueue_Thread.  There is one thread  *)
(* that reapplies bans: OnGameModeInit starts it on its first call only.   *)
(* CheckQueuedBans looks at the queue without holding the mutex, and holds *)
(* it during the request and the 30 seconds of sleep that follow.          *)
(***************************************************************************)
EXTENDS Naturals, Sequences

CONSTANTS
  Bans,
  Checker,   \* the thread that runs CheckQueuedBans
  Nobody,    \* no thread holds the mutex
  Outcomes   \* how a request to addcheater.php can end

Threads == Bans \cup {Checker}

\* "registered" and "refused" (an HTTP error) both give CURLE_OK; with
\* "unanswered" the web server has registered the ban, but the answer is
\* lost.
Answers == {"registered", "refused"}

ASSUME BanQueueConstants ==
  /\ Checker \notin Bans
  /\ Nobody \notin Threads
  /\ Outcomes \subseteq Answers \cup {"unanswered", "unreachable"}

VARIABLES
  pc,          \* where each thread is
  mutex,       \* the thread that holds BansQueueMutex
  ready,       \* BansQueueReady
  queued,      \* queued_bans
  wasEmptied,  \* BansQueueWasEmptied
  registered,  \* bans that are in the web server's data base
  answered     \* ghost: bans with a request that gave CURLE_OK

vars == <<pc, mutex, ready, queued, wasEmptied, registered, answered>>

AdderPCs   == {"unasked", "requesting", "locking", "waiting", "pushing",
               "notifying", "done"}
CheckerPCs == {"testing", "locking", "waiting", "reapplying", "sleeping",
               "rechecking", "resting"}

\* A ban waits in the queue once.
NoDuplicates == \A i, j \in 1..Len(queued) : queued[i] = queued[j] => i = j

TypeOK ==
  /\ pc \in [Threads -> AdderPCs \cup CheckerPCs]
  /\ \A b \in Bans : pc[b] \in AdderPCs
  /\ pc[Checker] \in CheckerPCs
  /\ mutex \in Threads \cup {Nobody}
  /\ ready \in BOOLEAN
  /\ queued \in Seq(Bans) /\ NoDuplicates
  /\ wasEmptied \in BOOLEAN
  /\ registered \in SUBSET Bans
  /\ answered \in SUBSET Bans

Init ==
  /\ pc = [t \in Threads |-> IF t = Checker THEN "testing" ELSE "unasked"]
  /\ mutex = Nobody
  /\ ready = TRUE
  /\ queued = <<>>
  /\ wasEmptied = FALSE
  /\ registered = {}
  /\ answered = {}

----------------------------------------------------------------------------
(* Helpers                                                                 *)

Goto(t, label) == pc' = [pc EXCEPT ![t] = label]

\* unique_lock, and the loop around BansQueueCond.wait that follows it.
Lock(t, critical) ==
  /\ mutex = Nobody
  /\ IF ready THEN /\ mutex' = t
                   /\ ready' = FALSE
                   /\ Goto(t, critical)
              ELSE /\ Goto(t, "waiting")
                   /\ UNCHANGED <<mutex, ready>>
  /\ UNCHANGED <<queued, wasEmptied, registered, answered>>

\* notify_all wakes every waiting thread; the caller goes on to label.
NotifyAll(t, label) ==
  pc' = [u \in Threads |-> IF u = t THEN label
                           ELSE IF pc[u] = "waiting" THEN "locking"
                           ELSE pc[u]]

\* Mutant: leaves the queue marked as busy.
StayBusy(t, label) ==
  /\ ready' = FALSE
  /\ NotifyAll(t, label)

\* BansQueueReady = true; BansQueueCond.notify_all();
MarkReady(t, label) ==
  /\ ready' = TRUE
  /\ NotifyAll(t, label)

\* What a request about b leaves on the web server, and what its caller
\* learns: AddCheater returns true for every answer, whatever its status.
Perform(b, outcome) ==
  /\ registered' = IF outcome \in {"registered", "unanswered"}
                   THEN registered \cup {b} ELSE registered
  /\ answered' = IF outcome \in Answers THEN answered \cup {b} ELSE answered

----------------------------------------------------------------------------
(* The threads of one ban                                                  *)

\* BanHandler::AddCheater, on the main thread.
AddCheater(b) ==
  /\ pc[b] = "unasked"
  /\ Goto(b, "requesting")
  /\ UNCHANGED <<mutex, ready, queued, wasEmptied, registered, answered>>

\* Thread_BanHandler::AddCheater with queue = true.
Request(b) ==
  /\ pc[b] = "requesting"
  /\ \E outcome \in Outcomes :
       /\ Perform(b, outcome)
       /\ Goto(b, IF outcome \in Answers THEN "done" ELSE "locking")
  /\ UNCHANGED <<mutex, ready, queued, wasEmptied>>

AddBanToQueue(b) ==
  /\ pc[b] = "locking"
  /\ Lock(b, "pushing")

\* Mutant: the newest ban goes first.
PushFront(b) ==
  /\ pc[b] = "pushing"
  /\ queued' = <<b>> \o queued
  /\ Goto(b, "notifying")
  /\ UNCHANGED <<mutex, ready, wasEmptied, registered, answered>>

Push(b) ==
  /\ pc[b] = "pushing"
  /\ queued' = Append(queued, b)
  /\ Goto(b, "notifying")
  /\ UNCHANGED <<mutex, ready, wasEmptied, registered, answered>>

\* The lock is released by the return that follows notify_all.
Leave(b) ==
  /\ pc[b] = "notifying"
  /\ MarkReady(b, "done")
  /\ mutex' = Nobody
  /\ UNCHANGED <<queued, wasEmptied, registered, answered>>

----------------------------------------------------------------------------
(* CheckQueuedBans                                                         *)

\* queued_bans.empty() is evaluated without the mutex: while a push is under
\* way on an empty queue the result can be either.
SeenEmpty ==
  {empty \in BOOLEAN : \/ empty = (queued = <<>>)
                       \/ ~empty /\ \E b \in Bans : pc[b] = "pushing"}

Test ==
  /\ pc[Checker] = "testing"
  /\ \E empty \in SeenEmpty :
       /\ Goto(Checker, IF ~empty THEN "locking"
                        ELSE IF wasEmptied THEN "rechecking" ELSE "resting")
       /\ wasEmptied' = (wasEmptied /\ ~empty)
  /\ UNCHANGED <<mutex, ready, queued, registered, answered>>

Enter ==
  /\ pc[Checker] = "locking"
  /\ Lock(Checker, "reapplying")

\* Mutant: looks for the empty queue before it pops.
PopAfterTest(outcome) ==
  /\ queued' = IF outcome \in Answers THEN Tail(queued) ELSE queued
  /\ wasEmptied' = (wasEmptied \/ (outcome \in Answers /\ queued = <<>>))

\* Mutant: pops whatever the outcome is.
PopAlways(outcome) ==
  /\ queued' = Tail(queued)
  /\ wasEmptied' = (wasEmptied \/ queued' = <<>>)

\* Mutant: puts a ban that failed again behind the others, and does not take
\* it from the front.
QueueAgain(outcome) ==
  /\ queued' = IF outcome \in Answers THEN Tail(queued)
               ELSE Append(queued, Head(queued))
  /\ wasEmptied' = (wasEmptied \/ (outcome \in Answers /\ queued' = <<>>))

\* A ban that was reapplied with success leaves the queue.
PopOnSuccess(outcome) ==
  /\ queued' = IF outcome \in Answers THEN Tail(queued) ELSE queued
  /\ wasEmptied' = (wasEmptied \/ (outcome \in Answers /\ queued' = <<>>))

\* Thread_BanHandler::AddCheater for the oldest ban, with queue = false.
Reapply(outcome) ==
  /\ pc[Checker] = "reapplying"
  /\ Perform(Head(queued), outcome)
  /\ PopOnSuccess(outcome)
  /\ MarkReady(Checker, "sleeping")
  /\ UNCHANGED mutex

\* Mutant: goes on without looking at the queue again.
WakeUntested ==
  /\ pc[Checker] = "sleeping"
  /\ mutex' = Nobody
  /\ Goto(Checker, "locking")
  /\ UNCHANGED <<ready, queued, wasEmptied, registered, answered>>

\* Thirty seconds later the block ends, and with it the lock.
Wake ==
  /\ pc[Checker] = "sleeping"
  /\ mutex' = Nobody
  /\ Goto(Checker, "testing")
  /\ UNCHANGED <<ready, queued, wasEmptied, registered, answered>>

\* BanHandler::CheckCheater for every player that runs the client.
Recheck ==
  /\ pc[Checker] = "rechecking"
  /\ Goto(Checker, "resting")
  /\ UNCHANGED <<mutex, ready, queued, wasEmptied, registered, answered>>

\* Five minutes later.
Rested ==
  /\ pc[Checker] = "resting"
  /\ Goto(Checker, "testing")
  /\ UNCHANGED <<mutex, ready, queued, wasEmptied, registered, answered>>

----------------------------------------------------------------------------
(* Specification                                                           *)

AdderStep(b) ==
  \/ AddCheater(b)
  \/ Request(b)
  \/ AddBanToQueue(b)
  \/ Push(b)
  \/ Leave(b)

CheckerStep ==
  \/ Test
  \/ Enter
  \/ \E outcome \in Outcomes : Reapply(outcome)
  \/ Wake
  \/ Recheck
  \/ Rested

Next == CheckerStep \/ \E b \in Bans : AdderStep(b)

Spec == Init /\ [][Next]_vars

\* Every thread goes on, the mutex is not assumed to be fair, and a ban that
\* is reapplied again and again is answered at some time.  Nothing makes the
\* main thread ask for a ban.
Fairness ==
  /\ \A b \in Bans :
       WF_vars(Request(b) \/ AddBanToQueue(b) \/ Push(b) \/ Leave(b))
  /\ WF_vars(CheckerStep)
  /\ SF_vars(\E outcome \in Outcomes \cap Answers : Reapply(outcome))

FairSpec == Spec /\ Fairness

----------------------------------------------------------------------------
(* Properties                                                              *)

\* CheckQueuedBans tests the queue before it takes the mutex, yet when it
\* then calls queued_bans.front() the queue is not empty.
FrontIsSafe == pc[Checker] = "reapplying" => queued # <<>>

\* BansQueueReady is only false while the mutex is held: no thread ever
\* waits on the condition variable, so that no wake-up can be missed.
NobodyWaits == \A t \in Threads : pc[t] # "waiting"

\* A ban whose threads have ended was answered, or waits in the queue; one
\* that was answered is in the queue no longer.
NoBanIsLost ==
  /\ \A b \in Bans : pc[b] = "done" =>
       b \in answered \/ \E i \in 1..Len(queued) : queued[i] = b
  /\ \A i \in 1..Len(queued) : queued[i] \notin answered

\* A backlog is followed by a new look at all players, since their lookups
\* may have failed for the same reason.
BacklogIsFollowedByRecheck == queued # <<>> ~> pc[Checker] = "rechecking"

----------------------------------------------------------------------------
(* What the safety properties rest on                                      *)

InQueue(b) == \E i \in 1..Len(queued) : queued[i] = b

\* Who is between lock and unlock holds the mutex.
Exclusion ==
  \A t \in Threads :
    mutex = t <=> pc[t] \in {"pushing", "notifying", "reapplying", "sleeping"}

\* The queue is marked as busy by a thread that has not notified yet.
BusyIsHeld ==
  ~ready <=> \E t \in Threads :
               pc[t] \in {"pushing", "notifying", "reapplying"}

\* Once CheckQueuedBans has seen a ban, only a push that has not ended can
\* stand between it and the front of the queue: nobody else pops.
SeenBanStays ==
  pc[Checker] \in {"locking", "waiting", "reapplying"} =>
    queued # <<>> \/ \E b \in Bans : pc[b] = "pushing"

\* Where a ban is, while and after its threads work.
Places ==
  /\ \A b \in Bans : b \in answered => pc[b] = "done"
  /\ \A b \in Bans : InQueue(b) => pc[b] \in {"notifying", "done"}
  /\ \A b \in Bans : pc[b] = "notifying" => InQueue(b)

----------------------------------------------------------------------------
(* What the handler promises                                               *)

Delivery == INSTANCE BanDelivery WITH
  asked   <- {b \in Bans : pc[b] # "unasked"},
  backlog <- queued,
  settled <- answered

\* The handler keeps the safety part of BanDelivery: no ban is settled
\* before it is asked for, or twice, and those that were put aside are
\* settled in the order of the queue.
DeliverySafe == Delivery!Safe

\* It also keeps the liveness part: every ban that is asked for is settled,
\* however unfair the mutex is, if the web server answers at some time.
DeliverySpec == Delivery!Spec

=============================================================================
