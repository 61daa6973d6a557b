--------------------------- MODULE BanQueueProofs ---------------------------
(* Proofs about BanQueue, for any number of bans.                          *)
EXTENDS BanQueue, TLAPS

\* A thread in its critical section is the only one.
LEMMA OneInside ==
  ASSUME Exclusion, NEW t \in Threads, NEW u \in Threads,
         pc[t] \in {"pushing", "notifying", "reapplying", "sleeping"},
         pc[u] \in {"pushing", "notifying", "reapplying", "sleeping"}
  PROVE  t = u
BY DEF Exclusion

\* What the front of a queue without duplicates looks like, and what is
\* left of the queue without it.
LEMMA TailLemma ==
  ASSUME NEW q \in Seq(Bans), q # <<>>,
         \A i, j \in 1..Len(q) : q[i] = q[j] => i = j
  PROVE  /\ Head(q) \in Bans
         /\ Tail(q) \in Seq(Bans)
         /\ \A b : (\E i \in 1..Len(q) : q[i] = b)
                     <=> b = Head(q) \/ \E i \in 1..Len(Tail(q)) : Tail(q)[i] = b
         /\ \A i \in 1..Len(Tail(q)) : Tail(q)[i] # Head(q)
         /\ \A i, j \in 1..Len(Tail(q)) : Tail(q)[i] = Tail(q)[j] => i = j
<1> DEFINE r == Tail(q)
<1>1. Len(q) \in Nat /\ Len(q) > 0
  OBVIOUS
<1>2. Head(q) = q[1] /\ q[1] \in Bans
  BY <1>1
<1>3. /\ r \in Seq(Bans)
      /\ Len(r) = Len(q) - 1
      /\ \A i \in 1..Len(r) : r[i] = q[i + 1]
  BY <1>1
<1>4. ASSUME NEW b, NEW i \in 1..Len(q), q[i] = b
      PROVE  b = q[1] \/ \E k \in 1..Len(r) : r[k] = b
  <2>1. CASE i = 1
    BY <1>4, <2>1
  <2>2. CASE i # 1
    <3>1. i - 1 \in 1..Len(r) /\ r[i - 1] = q[i]
      BY <1>1, <1>3, <2>2
    <3> QED
      BY <1>4, <3>1
  <2> QED
    BY <2>1, <2>2
<1>5. ASSUME NEW i \in 1..Len(r)
      PROVE  i + 1 \in 1..Len(q) /\ r[i] = q[i + 1]
  BY <1>1, <1>3, <1>5
<1>6. 1 \in 1..Len(q)
  BY <1>1
<1>7. \A i \in 1..Len(r) : r[i] # q[1]
  BY <1>5, <1>6
<1>8. ASSUME NEW i \in 1..Len(r), NEW j \in 1..Len(r), r[i] = r[j]
      PROVE  i = j
  <2>1. i + 1 = j + 1
    BY <1>5, <1>8
  <2> QED
    BY <2>1
<1> HIDE DEF r
<1>9. \A b : (\E i \in 1..Len(q) : q[i] = b)
               <=> b = q[1] \/ \E i \in 1..Len(r) : r[i] = b
  BY <1>4, <1>5, <1>6
<1> QED
  BY <1>2, <1>3, <1>7, <1>8, <1>9 DEF r

\* What a queue looks like after a push.
LEMMA AppendLemma ==
  ASSUME NEW q \in Seq(Bans), NEW b \in Bans
  PROVE  /\ Append(q, b) \in Seq(Bans)
         /\ Append(q, b) # <<>>
         /\ Len(Append(q, b)) = Len(q) + 1
         /\ Append(q, b)[Len(q) + 1] = b
         /\ \A i \in 1..Len(q) : Append(q, b)[i] = q[i]
OBVIOUS

\* The parts of the inductive invariant.
IInv == TypeOK /\ Exclusion /\ BusyIsHeld /\ SeenBanStays /\ Places
          /\ NobodyWaits /\ NoBanIsLost

LEMMA InitIInv == Init => IInv
<1> SUFFICES ASSUME Init PROVE IInv
  OBVIOUS
<1>1. /\ \A b \in Bans : pc[b] = "unasked"
      /\ pc[Checker] = "testing"
      /\ \A t \in Threads : pc[t] \in {"unasked", "testing"} /\ t # mutex
  BY BanQueueConstants DEF Init, Threads
<1>2. queued \in Seq(Bans) /\ 1..Len(queued) = {}
  BY DEF Init
<1>3. pc \in [Threads -> AdderPCs \cup CheckerPCs]
  BY DEF Init, AdderPCs, CheckerPCs
<1>4. TypeOK
  BY <1>1, <1>2, <1>3 DEF Init, TypeOK, NoDuplicates, AdderPCs, CheckerPCs
<1>5. Exclusion /\ BusyIsHeld /\ NobodyWaits /\ SeenBanStays
  BY <1>1 DEF Init, Exclusion, BusyIsHeld, NobodyWaits, SeenBanStays
<1>6. Places /\ NoBanIsLost
  BY <1>1, <1>2 DEF Init, Places, NoBanIsLost, InQueue
<1> QED
  BY <1>4, <1>5, <1>6 DEF IInv

\* The steps that leave the queue and the answers alone move one thread.
LEMMA MoveLemma ==
  ASSUME IInv, UNCHANGED <<queued, answered>>
  PROVE  /\ \A b \in Bans : InQueue(b)' <=> InQueue(b)
         /\ queued' \in Seq(Bans)
         /\ answered' \in SUBSET Bans
BY DEF IInv, TypeOK, InQueue

\* Taking the mutex: no thread is inside, and the queue is not busy.
LEMMA LockLemma ==
  ASSUME IInv, NEW t \in Threads, NEW critical, Lock(t, critical)
  PROVE  /\ \A u \in Threads : pc[u] \notin
              {"pushing", "notifying", "reapplying", "sleeping"}
         /\ mutex' = t
         /\ ready' = FALSE
         /\ pc' = [pc EXCEPT ![t] = critical]
         /\ UNCHANGED <<queued, wasEmptied, registered, answered>>
<1>1. mutex = Nobody
  BY DEF Lock
<1>2. \A u \in Threads : mutex # u
  BY <1>1, BanQueueConstants
<1>3. \A u \in Threads : pc[u] \notin
         {"pushing", "notifying", "reapplying", "sleeping"}
  BY <1>2 DEF IInv, Exclusion
<1>4. ready
  BY <1>3 DEF IInv, BusyIsHeld
<1> QED
  BY <1>3, <1>4 DEF Lock, Goto

\* Nobody waits, so notify_all moves the notifying thread only.
LEMMA NotifyLemma ==
  ASSUME IInv, NEW t \in Threads, NEW label, MarkReady(t, label)
  PROVE  /\ ready' = TRUE
         /\ pc' = [pc EXCEPT ![t] = label]
<1>1. \A u \in Threads : pc[u] # "waiting"
  BY DEF IInv, NobodyWaits
<1>2. pc \in [Threads -> AdderPCs \cup CheckerPCs]
  BY DEF IInv, TypeOK
<1> QED
  BY <1>1, <1>2 DEF MarkReady, NotifyAll

\* A thread that moves outside of the critical section.
LEMMA OutsideLemma ==
  ASSUME IInv, NEW t \in Threads, NEW label,
         pc[t] \notin {"pushing", "notifying", "reapplying", "sleeping"},
         label \notin {"pushing", "notifying", "reapplying", "sleeping",
                       "waiting"},
         Goto(t, label), UNCHANGED <<mutex, ready>>
  PROVE  /\ Exclusion' /\ BusyIsHeld' /\ NobodyWaits'
         /\ \A u \in Threads : pc'[u] = IF u = t THEN label ELSE pc[u]
<1>1. pc \in [Threads -> AdderPCs \cup CheckerPCs]
  BY DEF IInv, TypeOK
<1>2. \A u \in Threads : pc'[u] = IF u = t THEN label ELSE pc[u]
  BY <1>1 DEF Goto
<1>3. Exclusion'
  BY <1>2 DEF IInv, Exclusion
<1>4. BusyIsHeld'
  BY <1>2 DEF IInv, BusyIsHeld
<1>5. NobodyWaits'
  BY <1>2 DEF IInv, NobodyWaits
<1> QED
  BY <1>2, <1>3, <1>4, <1>5

\* Types survive when one thread gets a label of its own.
LEMMA TypeLemma ==
  ASSUME TypeOK, NEW t \in Threads, NEW label,
         pc' = [pc EXCEPT ![t] = label],
         IF t = Checker THEN label \in CheckerPCs ELSE label \in AdderPCs,
         mutex' \in Threads \cup {Nobody}, ready' \in BOOLEAN,
         queued' \in Seq(Bans), queued' = queued \/ NoDuplicates',
         wasEmptied' \in BOOLEAN,
         registered' \in SUBSET Bans, answered' \in SUBSET Bans
  PROVE  TypeOK'
<1>1. \A b \in Bans : b # Checker /\ b \in Threads
  BY BanQueueConstants DEF Threads
<1>2. Checker \in Threads
  BY DEF Threads
<1> QED
  BY <1>1, <1>2 DEF TypeOK, NoDuplicates

LEMMA AddCheaterStep ==
  ASSUME IInv, NEW b \in Bans, AddCheater(b)
  PROVE  IInv'
<1>1. b \in Threads /\ b # Checker /\ Checker \in Threads /\ Bans \subseteq Threads
  BY BanQueueConstants DEF Threads
<1>2. /\ pc[b] = "unasked" /\ Goto(b, "requesting")
      /\ UNCHANGED <<mutex, ready, queued, wasEmptied, registered, answered>>
  BY DEF AddCheater
<1>3. /\ Exclusion' /\ BusyIsHeld' /\ NobodyWaits'
      /\ \A u \in Threads : pc'[u] = IF u = b THEN "requesting" ELSE pc[u]
  BY <1>1, <1>2, OutsideLemma
<1>4. TypeOK'
  <2>1. "requesting" \in AdderPCs
    BY DEF AdderPCs
  <2> QED
    BY <1>1, <1>2, <2>1, TypeLemma DEF Goto, IInv, TypeOK
<1>5. SeenBanStays'
  BY <1>1, <1>2, <1>3 DEF IInv, SeenBanStays
<1>6. Places'
  BY <1>1, <1>2, <1>3, MoveLemma DEF IInv, Places
<1>7. NoBanIsLost'
  BY <1>1, <1>2, <1>3, MoveLemma DEF IInv, NoBanIsLost
<1> QED
  BY <1>3, <1>4, <1>5, <1>6, <1>7 DEF IInv

LEMMA RequestStep ==
  ASSUME IInv, NEW b \in Bans, Request(b)
  PROVE  IInv'
<1>1. b \in Threads /\ b # Checker /\ Checker \in Threads /\ Bans \subseteq Threads
  BY BanQueueConstants DEF Threads
<1>2. PICK outcome \in Outcomes :
        /\ Perform(b, outcome)
        /\ Goto(b, IF outcome \in Answers THEN "done" ELSE "locking")
  BY DEF Request
<1>3. pc[b] = "requesting" /\ UNCHANGED <<mutex, ready, queued, wasEmptied>>
  BY DEF Request
<1> DEFINE label == IF outcome \in Answers THEN "done" ELSE "locking"
<1>4. /\ Exclusion' /\ BusyIsHeld' /\ NobodyWaits'
      /\ \A u \in Threads : pc'[u] = IF u = b THEN label ELSE pc[u]
  BY <1>1, <1>2, <1>3, OutsideLemma
<1>5. /\ registered' \in SUBSET Bans
      /\ answered' = IF outcome \in Answers THEN answered \cup {b} ELSE answered
  BY <1>2 DEF Perform, IInv, TypeOK
<1>6. TypeOK'
  <2>1. label \in AdderPCs
    BY DEF AdderPCs
  <2>2. answered' \in SUBSET Bans
    BY <1>5 DEF IInv, TypeOK
  <2> QED
    BY <1>1, <1>2, <1>3, <1>5, <2>1, <2>2, TypeLemma DEF Goto, IInv, TypeOK
<1>7. SeenBanStays'
  BY <1>1, <1>3, <1>4 DEF IInv, SeenBanStays
<1>8. ~InQueue(b) /\ \A c \in Bans : InQueue(c)' <=> InQueue(c)
  BY <1>1, <1>3 DEF IInv, Places, InQueue
<1>9. Places'
  BY <1>1, <1>3, <1>4, <1>5, <1>8 DEF IInv, Places
<1>10. NoBanIsLost'
  <2>1. \A i \in 1..Len(queued) : queued[i] # b
    BY <1>8 DEF InQueue
  <2> QED
    BY <1>1, <1>3, <1>4, <1>5, <2>1 DEF IInv, NoBanIsLost
<1> QED
  BY <1>4, <1>6, <1>7, <1>9, <1>10 DEF IInv

LEMMA AddBanToQueueStep ==
  ASSUME IInv, NEW b \in Bans, AddBanToQueue(b)
  PROVE  IInv'
<1>1. b \in Threads /\ b # Checker /\ Checker \in Threads /\ Bans \subseteq Threads
  BY BanQueueConstants DEF Threads
<1>2. pc[b] = "locking" /\ Lock(b, "pushing")
  BY DEF AddBanToQueue
<1>3. /\ \A u \in Threads : pc[u] \notin
           {"pushing", "notifying", "reapplying", "sleeping"}
      /\ mutex' = b
      /\ ready' = FALSE
      /\ pc' = [pc EXCEPT ![b] = "pushing"]
      /\ UNCHANGED <<queued, wasEmptied, registered, answered>>
  BY <1>1, <1>2, LockLemma
<1>4. \A u \in Threads : pc'[u] = IF u = b THEN "pushing" ELSE pc[u]
  BY <1>3 DEF IInv, TypeOK
<1>5. TypeOK'
  <2>1. "pushing" \in AdderPCs
    BY DEF AdderPCs
  <2> QED
    BY <1>1, <1>3, <2>1, TypeLemma DEF IInv, TypeOK
<1>6. Exclusion' /\ BusyIsHeld'
  BY <1>1, <1>3, <1>4 DEF Exclusion, BusyIsHeld
<1>7. SeenBanStays' /\ NobodyWaits'
  BY <1>1, <1>4 DEF IInv, SeenBanStays, NobodyWaits
<1>8. Places'
  BY <1>1, <1>2, <1>3, <1>4, MoveLemma DEF IInv, Places
<1>9. NoBanIsLost'
  BY <1>1, <1>3, <1>4 DEF IInv, NoBanIsLost
<1> QED
  BY <1>5, <1>6, <1>7, <1>8, <1>9 DEF IInv

LEMMA PushStep ==
  ASSUME IInv, NEW b \in Bans, Push(b)
  PROVE  IInv'
<1>1. b \in Threads /\ b # Checker /\ Checker \in Threads /\ Bans \subseteq Threads
  BY BanQueueConstants DEF Threads
<1>2. /\ pc[b] = "pushing" /\ pc' = [pc EXCEPT ![b] = "notifying"]
      /\ queued' = Append(queued, b)
      /\ UNCHANGED <<mutex, ready, wasEmptied, registered, answered>>
  BY DEF Push, Goto
<1>3. \A u \in Threads : pc'[u] = IF u = b THEN "notifying" ELSE pc[u]
  BY <1>2 DEF IInv, TypeOK
<1>4. /\ queued' \in Seq(Bans) /\ queued' # <<>>
      /\ Len(queued') = Len(queued) + 1 /\ Len(queued) \in Nat
      /\ queued'[Len(queued) + 1] = b
      /\ \A i \in 1..Len(queued) : queued'[i] = queued[i]
  BY <1>2, AppendLemma DEF IInv, TypeOK
<1>5. \A i \in 1..Len(queued') : i \in 1..Len(queued) \/ i = Len(queued) + 1
  BY <1>4
<1>6. 1..Len(queued) \subseteq 1..Len(queued')
      /\ Len(queued) + 1 \in 1..Len(queued')
  BY <1>4
<1>7. ~InQueue(b) /\ b \notin answered
  BY <1>2 DEF IInv, Places
<1>8. TypeOK'
  <2>1. "notifying" \in AdderPCs
    BY DEF AdderPCs
  <2>2. \A i \in 1..Len(queued) : queued[i] # b
    BY <1>7 DEF InQueue
  <2>3. NoDuplicates'
    BY <1>4, <1>5, <2>2 DEF IInv, TypeOK, NoDuplicates
  <2> QED
    BY <1>1, <1>2, <1>4, <2>1, <2>3, TypeLemma DEF IInv, TypeOK
<1>9. Exclusion' /\ BusyIsHeld'
  BY <1>1, <1>2, <1>3 DEF IInv, Exclusion, BusyIsHeld
<1>10. SeenBanStays' /\ NobodyWaits'
  BY <1>1, <1>3, <1>4 DEF IInv, SeenBanStays, NobodyWaits
<1>11. \A c \in Bans : InQueue(c)' <=> InQueue(c) \/ c = b
  BY <1>4, <1>5, <1>6 DEF InQueue
<1>12. Places'
  BY <1>2, <1>1, <1>3, <1>7, <1>11 DEF IInv, Places
<1>13. NoBanIsLost'
  <2>1. \A c \in Bans : pc'[c] = "done" =>
          c \in answered' \/ \E i \in 1..Len(queued') : queued'[i] = c
    BY <1>1, <1>2, <1>3, <1>4, <1>6 DEF IInv, NoBanIsLost
  <2>2. \A i \in 1..Len(queued') : queued'[i] \notin answered'
    BY <1>2, <1>4, <1>5, <1>7 DEF IInv, NoBanIsLost
  <2> QED
    BY <2>1, <2>2 DEF NoBanIsLost
<1> QED
  BY <1>8, <1>9, <1>10, <1>12, <1>13 DEF IInv

LEMMA LeaveStep ==
  ASSUME IInv, NEW b \in Bans, Leave(b)
  PROVE  IInv'
<1>1. b \in Threads /\ b # Checker /\ Checker \in Threads /\ Bans \subseteq Threads
  BY BanQueueConstants DEF Threads
<1>2. /\ pc[b] = "notifying" /\ MarkReady(b, "done") /\ mutex' = Nobody
      /\ UNCHANGED <<queued, wasEmptied, registered, answered>>
  BY DEF Leave
<1>3. ready' = TRUE /\ pc' = [pc EXCEPT ![b] = "done"]
  BY <1>1, <1>2, NotifyLemma
<1>4. \A u \in Threads : pc'[u] = IF u = b THEN "done" ELSE pc[u]
  BY <1>3 DEF IInv, TypeOK
<1>5. TypeOK'
  <2>1. "done" \in AdderPCs
    BY DEF AdderPCs
  <2> QED
    BY <1>1, <1>2, <1>3, <2>1, TypeLemma DEF IInv, TypeOK
<1>6. \A u \in Threads \ {b} :
        pc[u] \notin {"pushing", "notifying", "reapplying", "sleeping"}
  BY <1>1, <1>2, OneInside DEF IInv
<1>7. Exclusion' /\ BusyIsHeld'
  <2>1. \A u \in Threads : mutex' # u
    BY <1>2, BanQueueConstants
  <2> QED
    BY <1>3, <1>4, <1>6, <2>1 DEF Exclusion, BusyIsHeld
<1>8. SeenBanStays' /\ NobodyWaits'
  BY <1>1, <1>2, <1>4, <1>6 DEF IInv, SeenBanStays, NobodyWaits
<1>9. InQueue(b) /\ \A c \in Bans : InQueue(c)' <=> InQueue(c)
  BY <1>2 DEF IInv, Places, InQueue
<1>10. Places'
  BY <1>1, <1>2, <1>4, <1>9 DEF IInv, Places
<1>11. NoBanIsLost'
  BY <1>1, <1>2, <1>4, <1>9 DEF IInv, NoBanIsLost, InQueue
<1> QED
  BY <1>5, <1>7, <1>8, <1>10, <1>11 DEF IInv

\* The steps of CheckQueuedBans outside of its critical section.
LEMMA OutsideCheckerStep ==
  ASSUME IInv, Test \/ Recheck \/ Rested
  PROVE  IInv'
<1>1. Checker \in Threads /\ Bans \subseteq Threads /\ \A b \in Bans : b # Checker
  BY BanQueueConstants DEF Threads
<1>2. /\ pc[Checker] \in {"testing", "rechecking", "resting"}
      /\ UNCHANGED <<mutex, ready, queued, registered, answered>>
  BY DEF Test, Recheck, Rested
<1>3. PICK label \in {"testing", "locking", "rechecking", "resting"} :
        Goto(Checker, label)
  <2>1. CASE Test
    BY <2>1 DEF Test
  <2>2. CASE Recheck \/ Rested
    BY <2>2 DEF Recheck, Rested
  <2> QED
    BY <2>1, <2>2
<1>4. label = "locking" => queued # <<>> \/ \E b \in Bans : pc[b] = "pushing"
  <2> SUFFICES ASSUME label = "locking"
               PROVE  queued # <<>> \/ \E b \in Bans : pc[b] = "pushing"
    OBVIOUS
  <2>1. pc' = [pc EXCEPT ![Checker] = "locking"]
    BY <1>3 DEF Goto
  <2>2. pc'[Checker] = "locking"
    BY <1>1, <2>1 DEF IInv, TypeOK
  <2>3. Test
    BY <1>1, <2>2 DEF Recheck, Rested, Goto, IInv, TypeOK
  <2>4. PICK empty \in SeenEmpty :
          Goto(Checker, IF ~empty THEN "locking"
                        ELSE IF wasEmptied THEN "rechecking" ELSE "resting")
    BY <2>3 DEF Test
  <2>5. ~empty
    BY <1>1, <2>2, <2>4 DEF Goto, IInv, TypeOK
  <2> QED
    BY <2>5 DEF SeenEmpty
<1>5. /\ Exclusion' /\ BusyIsHeld' /\ NobodyWaits'
      /\ \A u \in Threads : pc'[u] = IF u = Checker THEN label ELSE pc[u]
  BY <1>1, <1>2, <1>3, OutsideLemma
<1>6. TypeOK'
  <2>1. label \in CheckerPCs
    BY <1>3 DEF CheckerPCs
  <2>2. wasEmptied' \in BOOLEAN
    <3>1. CASE Test
      BY <3>1 DEF Test
    <3>2. CASE Recheck \/ Rested
      BY <3>2 DEF Recheck, Rested, IInv, TypeOK
    <3> QED
      BY <3>1, <3>2
  <2> QED
    BY <1>1, <1>2, <1>3, <2>1, <2>2, TypeLemma DEF Goto, IInv, TypeOK
<1>7. SeenBanStays'
  BY <1>1, <1>2, <1>3, <1>4, <1>5 DEF SeenBanStays
<1>8. Places'
  BY <1>1, <1>2, <1>5, MoveLemma DEF IInv, Places
<1>9. NoBanIsLost'
  BY <1>1, <1>2, <1>5 DEF IInv, NoBanIsLost
<1> QED
  BY <1>5, <1>6, <1>7, <1>8, <1>9 DEF IInv

LEMMA EnterStep ==
  ASSUME IInv, Enter
  PROVE  IInv'
<1>1. Checker \in Threads /\ Bans \subseteq Threads /\ \A b \in Bans : b # Checker
  BY BanQueueConstants DEF Threads
<1>2. pc[Checker] = "locking" /\ Lock(Checker, "reapplying")
  BY DEF Enter
<1>3. /\ \A u \in Threads : pc[u] \notin
           {"pushing", "notifying", "reapplying", "sleeping"}
      /\ mutex' = Checker
      /\ ready' = FALSE
      /\ pc' = [pc EXCEPT ![Checker] = "reapplying"]
      /\ UNCHANGED <<queued, wasEmptied, registered, answered>>
  BY <1>1, <1>2, LockLemma
<1>4. \A u \in Threads : pc'[u] = IF u = Checker THEN "reapplying" ELSE pc[u]
  BY <1>3 DEF IInv, TypeOK
<1>5. TypeOK'
  <2>1. "reapplying" \in CheckerPCs
    BY DEF CheckerPCs
  <2> QED
    BY <1>1, <1>3, <2>1, TypeLemma DEF IInv, TypeOK
<1>6. Exclusion' /\ BusyIsHeld'
  BY <1>1, <1>3, <1>4 DEF Exclusion, BusyIsHeld
<1>7. SeenBanStays' /\ NobodyWaits'
  BY <1>1, <1>2, <1>3, <1>4 DEF IInv, SeenBanStays, NobodyWaits
<1>8. Places'
  BY <1>1, <1>3, <1>4, MoveLemma DEF IInv, Places
<1>9. NoBanIsLost'
  BY <1>1, <1>3, <1>4 DEF IInv, NoBanIsLost
<1> QED
  BY <1>5, <1>6, <1>7, <1>8, <1>9 DEF IInv

\* While CheckQueuedBans reapplies a ban, no other thread is inside, and
\* the ban is one that was put aside and not answered.
LEMMA FrontLemma ==
  ASSUME IInv, pc[Checker] = "reapplying"
  PROVE  /\ queued # <<>>
         /\ Head(queued) \in Bans
         /\ \A b \in Bans : pc[b] \notin {"pushing", "notifying"}
         /\ pc[Head(queued)] = "done"
         /\ Head(queued) \notin answered
         /\ Tail(queued) \in Seq(Bans)
<1>1. Checker \in Threads /\ Bans \subseteq Threads /\ \A b \in Bans : b # Checker
  BY BanQueueConstants DEF Threads
<1>2. \A b \in Bans : pc[b] \notin {"pushing", "notifying"}
  BY <1>1, OneInside DEF IInv
<1>3. queued # <<>>
  BY <1>2 DEF IInv, SeenBanStays
<1>4. /\ Head(queued) \in Bans
      /\ Tail(queued) \in Seq(Bans)
      /\ InQueue(Head(queued))
  BY <1>3, TailLemma DEF IInv, TypeOK, NoDuplicates, InQueue
<1> QED
  BY <1>2, <1>3, <1>4 DEF IInv, Places, NoBanIsLost, InQueue

LEMMA ReapplyStep ==
  ASSUME IInv, NEW outcome \in Outcomes, Reapply(outcome)
  PROVE  IInv'
<1>1. Checker \in Threads /\ Bans \subseteq Threads /\ \A b \in Bans : b # Checker
  BY BanQueueConstants DEF Threads
<1> DEFINE h == Head(queued)
<1>2. /\ pc[Checker] = "reapplying"
      /\ Perform(h, outcome)
      /\ PopOnSuccess(outcome)
      /\ mutex' = mutex
  BY DEF Reapply
<1>3. ready' = TRUE /\ pc' = [pc EXCEPT ![Checker] = "sleeping"]
  BY <1>1, NotifyLemma DEF Reapply
<1>4. \A u \in Threads : pc'[u] = IF u = Checker THEN "sleeping" ELSE pc[u]
  BY <1>3 DEF IInv, TypeOK
<1>5. /\ queued # <<>> /\ h \in Bans /\ Tail(queued) \in Seq(Bans)
      /\ \A b \in Bans : pc[b] \notin {"pushing", "notifying"}
      /\ pc[h] = "done"
  BY <1>2, FrontLemma
<1>6. /\ answered' = IF outcome \in Answers THEN answered \cup {h} ELSE answered
      /\ queued' = IF outcome \in Answers THEN Tail(queued) ELSE queued
      /\ wasEmptied' \in BOOLEAN
      /\ registered' \in SUBSET Bans
  BY <1>2, <1>5 DEF Perform, PopOnSuccess, IInv, TypeOK
<1> HIDE DEF h
<1>7. \A i, j \in 1..Len(queued) : queued[i] = queued[j] => i = j
  BY DEF IInv, TypeOK, NoDuplicates
<1>8. NoDuplicates'
  <2>1. CASE outcome \notin Answers
    BY <1>6, <1>7, <2>1 DEF NoDuplicates
  <2>2. CASE outcome \in Answers
    <3>1. \A i, j \in 1..Len(Tail(queued)) :
            Tail(queued)[i] = Tail(queued)[j] => i = j
      BY <1>5, <1>7, TailLemma DEF IInv, TypeOK
    <3> QED
      BY <1>6, <2>2, <3>1 DEF NoDuplicates
  <2> QED
    BY <2>1, <2>2
<1>9. TypeOK'
  <2>1. "sleeping" \in CheckerPCs
    BY DEF CheckerPCs
  <2>2. answered' \in SUBSET Bans /\ queued' \in Seq(Bans)
    BY <1>5, <1>6 DEF IInv, TypeOK
  <2>3. mutex' \in Threads \cup {Nobody} /\ ready' \in BOOLEAN
    BY <1>2, <1>3 DEF IInv, TypeOK
  <2>4. TypeOK
    BY DEF IInv
  <2> QED
    BY <1>1, <1>3, <1>6, <1>8, <2>1, <2>2, <2>3, <2>4, TypeLemma
<1>10. Exclusion' /\ NobodyWaits' /\ SeenBanStays'
  BY <1>1, <1>2, <1>4 DEF IInv, Exclusion, NobodyWaits, SeenBanStays
<1>11. BusyIsHeld'
  BY <1>1, <1>2, <1>3, <1>4, OneInside DEF IInv, BusyIsHeld
<1>12. CASE outcome \notin Answers
  <2>1. queued' = queued /\ answered' = answered
    BY <1>6, <1>12
  <2>2. Places'
    BY <1>1, <1>4, <2>1, MoveLemma DEF IInv, Places
  <2>3. NoBanIsLost'
    BY <1>1, <1>4, <2>1 DEF IInv, NoBanIsLost
  <2> QED
    BY <1>9, <1>10, <1>11, <2>2, <2>3 DEF IInv
<1>13. CASE outcome \in Answers
  <2>1. queued' = Tail(queued) /\ answered' = answered \cup {h}
    BY <1>6, <1>13
  <2>3. /\ \A b : InQueue(b) <=> b = h \/ InQueue(b)'
        /\ \A i \in 1..Len(queued') : queued'[i] # h
    <3> DEFINE r == Tail(queued)
    <3>1. queued \in Seq(Bans)
      BY DEF IInv, TypeOK
    <3>2. /\ \A b : (\E i \in 1..Len(queued) : queued[i] = b)
                   <=> b = h \/ \E i \in 1..Len(r) : r[i] = b
          /\ \A i \in 1..Len(r) : r[i] # h
      BY <1>5, <1>7, <3>1, TailLemma DEF h
    <3>3. queued' = r
      BY <2>1
    <3> HIDE DEF r
    <3>4. \A b : InQueue(b)' <=> \E i \in 1..Len(r) : r[i] = b
      BY <3>3 DEF InQueue
    <3>5. \A b : InQueue(b) <=> b = h \/ InQueue(b)'
      BY <3>2, <3>4 DEF InQueue
    <3> QED
      BY <3>2, <3>3, <3>5
  <2>4. Places'
    BY <1>1, <1>4, <1>5, <2>1, <2>3 DEF IInv, Places
  <2>5. \A i \in 1..Len(queued') : queued'[i] \notin answered'
    <3>1. \A b : InQueue(b) => b \notin answered
      BY DEF IInv, NoBanIsLost, InQueue
    <3>2. \A b : InQueue(b)' => b \notin answered'
      BY <2>1, <2>3, <3>1 DEF InQueue
    <3> QED
      BY <3>2 DEF InQueue
  <2>6. \A b \in Bans : pc'[b] = "done" => b \in answered' \/ InQueue(b)'
    BY <1>1, <1>4, <2>1, <2>3 DEF IInv, NoBanIsLost, InQueue
  <2>7. NoBanIsLost'
    BY <2>3, <2>5, <2>6 DEF NoBanIsLost, InQueue
  <2> QED
    BY <1>9, <1>10, <1>11, <2>4, <2>7 DEF IInv
<1> QED
  BY <1>12, <1>13

LEMMA WakeStep ==
  ASSUME IInv, Wake
  PROVE  IInv'
<1>1. Checker \in Threads /\ Bans \subseteq Threads /\ \A b \in Bans : b # Checker
  BY BanQueueConstants DEF Threads
<1>2. /\ pc[Checker] = "sleeping" /\ mutex' = Nobody
      /\ pc' = [pc EXCEPT ![Checker] = "testing"]
      /\ UNCHANGED <<ready, queued, wasEmptied, registered, answered>>
  BY DEF Wake, Goto
<1>3. \A u \in Threads : pc'[u] = IF u = Checker THEN "testing" ELSE pc[u]
  BY <1>2 DEF IInv, TypeOK
<1>4. TypeOK'
  <2>1. "testing" \in CheckerPCs
    BY DEF CheckerPCs
  <2> QED
    BY <1>1, <1>2, <2>1, TypeLemma DEF IInv, TypeOK
<1>5. \A u \in Threads \ {Checker} :
        pc[u] \notin {"pushing", "notifying", "reapplying", "sleeping"}
  BY <1>1, <1>2, OneInside DEF IInv
<1>6. Exclusion'
  <2>1. \A u \in Threads : mutex' # u
    BY <1>2, BanQueueConstants
  <2> QED
    BY <1>3, <1>5, <2>1 DEF Exclusion
<1>7. BusyIsHeld' /\ NobodyWaits' /\ SeenBanStays'
  BY <1>1, <1>2, <1>3 DEF IInv, BusyIsHeld, NobodyWaits, SeenBanStays
<1>8. Places'
  BY <1>1, <1>2, <1>3, MoveLemma DEF IInv, Places
<1>9. NoBanIsLost'
  BY <1>1, <1>2, <1>3 DEF IInv, NoBanIsLost
<1> QED
  BY <1>4, <1>6, <1>7, <1>8, <1>9 DEF IInv

LEMMA StutterStep ==
  ASSUME IInv, UNCHANGED vars
  PROVE  IInv'
BY DEF vars, IInv, TypeOK, NoDuplicates, Exclusion, BusyIsHeld, SeenBanStays, Places,
       InQueue, NobodyWaits, NoBanIsLost

\* The invariant holds in every reachable state.
THEOREM Invariance == Spec => []IInv
<1>1. IInv /\ [Next]_vars => IInv'
  <2> SUFFICES ASSUME IInv, [Next]_vars PROVE IInv'
    OBVIOUS
  <2>1. CASE CheckerStep
    BY <2>1, OutsideCheckerStep, EnterStep, ReapplyStep, WakeStep
       DEF CheckerStep
  <2>2. ASSUME NEW b \in Bans, AdderStep(b) PROVE IInv'
    BY <2>2, AddCheaterStep, RequestStep, AddBanToQueueStep, PushStep,
       LeaveStep DEF AdderStep
  <2> QED
    BY <2>1, <2>2, StutterStep DEF Next
<1> QED
  BY <1>1, InitIInv, PTL DEF Spec

\* The state of the ban handler keeps its type.
THEOREM TypeCorrect == Spec => []TypeOK
<1>1. IInv => TypeOK
  BY DEF IInv
<1> QED
  BY <1>1, Invariance, PTL

\* CheckQueuedBans takes a reference to the front of a queue that has one,
\* although it tests the queue without the mutex.
THEOREM FrontCorrect == Spec => []FrontIsSafe
<1>1. IInv => FrontIsSafe
  BY FrontLemma DEF FrontIsSafe
<1> QED
  BY <1>1, Invariance, PTL

\* No thread ever blocks on the condition variable.
THEOREM NeverWaits == Spec => []NobodyWaits
<1>1. IInv => NobodyWaits
  BY DEF IInv
<1> QED
  BY <1>1, Invariance, PTL

\* A ban whose threads have ended was answered or is in the queue.
THEOREM NothingLost == Spec => []NoBanIsLost
<1>1. IInv => NoBanIsLost
  BY DEF IInv
<1> QED
  BY <1>1, Invariance, PTL

----------------------------------------------------------------------------
(* BanQueue implements the safety part of BanDelivery.                     *)

Asked == {b \in Bans : pc[b] # "unasked"}

\* Bans whose threads are at work are open for BanDelivery.
LEMMA OpenLemma ==
  ASSUME IInv, NEW b \in Bans, pc[b] \in {"requesting", "pushing"}
  PROVE  b \in Delivery!Open
<1>1. b \notin answered
  BY DEF IInv, Places
<1>2. ~InQueue(b)
  BY DEF IInv, Places
<1>3. queued \in Seq(Bans)
  BY DEF IInv, TypeOK
<1>4. b \notin {queued[i] : i \in DOMAIN queued}
  BY <1>2, <1>3 DEF InQueue
<1> QED
  BY <1>1, <1>4 DEF Delivery!Open, Delivery!Listed

\* A step that moves one thread, and not away from "unasked", asks nothing.
LEMMA AskedLemma ==
  ASSUME IInv, NEW t \in Threads, NEW label, pc[t] # "unasked",
         label # "unasked", pc' = [pc EXCEPT ![t] = label]
  PROVE  Asked' = Asked
BY DEF IInv, TypeOK, Asked, Threads

LEMMA AdderImplements ==
  ASSUME IInv, NEW b \in Bans, AdderStep(b)
  PROVE  Delivery!Next \/ UNCHANGED Delivery!vars
<1>1. b \in Threads
  BY DEF Threads
<1>2. pc \in [Threads -> AdderPCs \cup CheckerPCs]
  BY DEF IInv, TypeOK
<1>3. CASE AddCheater(b)
  <2>1. pc[b] = "unasked" /\ pc' = [pc EXCEPT ![b] = "requesting"]
    BY <1>3 DEF AddCheater, Goto
  <2>2. b \notin Asked /\ Asked' = Asked \cup {b}
    BY <1>1, <1>2, <2>1 DEF Asked, Threads
  <2>3. Delivery!Ask(b)
    BY <1>3, <2>2 DEF AddCheater, Delivery!Ask, Asked
  <2> QED
    BY <2>3 DEF Delivery!Next
<1>4. CASE Request(b)
  <2>1. PICK outcome \in Outcomes :
          /\ Perform(b, outcome)
          /\ Goto(b, IF outcome \in Answers THEN "done" ELSE "locking")
    BY <1>4 DEF Request
  <2>2. pc[b] = "requesting" /\ queued' = queued
    BY <1>4 DEF Request
  <2>3. Asked' = Asked
    BY <1>1, <2>1, <2>2, AskedLemma DEF Goto
  <2>4. CASE outcome \in Answers
    <3>1. answered' = answered \cup {b}
      BY <2>1, <2>4 DEF Perform
    <3>2. Delivery!SettleAtOnce(b)
      BY <2>2, <2>3, <3>1, OpenLemma DEF Delivery!SettleAtOnce, Asked
    <3> QED
      BY <3>2 DEF Delivery!Next
  <2>5. CASE outcome \notin Answers
    BY <2>1, <2>2, <2>3, <2>5 DEF Perform, Delivery!vars, Asked
  <2> QED
    BY <2>4, <2>5
<1>5. CASE AddBanToQueue(b)
  <2>1. /\ pc[b] = "locking" /\ pc' = [pc EXCEPT ![b] = "pushing"]
        /\ UNCHANGED <<queued, answered>>
    BY <1>1, <1>5, LockLemma DEF AddBanToQueue
  <2>2. Asked' = Asked
    BY <1>1, <2>1, AskedLemma
  <2> QED
    BY <2>1, <2>2 DEF Delivery!vars, Asked
<1>6. CASE Push(b)
  <2>1. /\ pc[b] = "pushing" /\ pc' = [pc EXCEPT ![b] = "notifying"]
        /\ queued' = Append(queued, b) /\ answered' = answered
    BY <1>6 DEF Push, Goto
  <2>2. Asked' = Asked
    BY <1>1, <2>1, AskedLemma
  <2>3. Delivery!PutAside(b)
    BY <2>1, <2>2, OpenLemma DEF Delivery!PutAside, Asked
  <2> QED
    BY <2>3 DEF Delivery!Next
<1>7. CASE Leave(b)
  <2>1. /\ pc[b] = "notifying" /\ pc' = [pc EXCEPT ![b] = "done"]
        /\ UNCHANGED <<queued, answered>>
    BY <1>1, <1>7, NotifyLemma DEF Leave
  <2>2. Asked' = Asked
    BY <1>1, <2>1, AskedLemma
  <2> QED
    BY <2>1, <2>2 DEF Delivery!vars, Asked
<1> QED
  BY <1>3, <1>4, <1>5, <1>6, <1>7 DEF AdderStep

LEMMA CheckerImplements ==
  ASSUME IInv, CheckerStep
  PROVE  Delivery!Next \/ UNCHANGED Delivery!vars
<1>1. Checker \in Threads /\ pc[Checker] # "unasked"
  BY DEF Threads, IInv, TypeOK, CheckerPCs
<1>2. CASE Test \/ Recheck \/ Rested \/ Wake
  <2>1. PICK label \in {"testing", "locking", "rechecking", "resting"} :
          pc' = [pc EXCEPT ![Checker] = label]
    <3>1. CASE Test
      BY <3>1 DEF Test, Goto
    <3>2. CASE Recheck \/ Rested \/ Wake
      BY <3>2 DEF Recheck, Rested, Wake, Goto
    <3> QED
      BY <1>2, <3>1, <3>2
  <2>2. UNCHANGED <<queued, answered>>
    BY <1>2 DEF Test, Recheck, Rested, Wake
  <2>3. Asked' = Asked
    BY <1>1, <2>1, AskedLemma
  <2> QED
    BY <2>2, <2>3 DEF Delivery!vars, Asked
<1>3. CASE Enter
  <2>1. /\ pc' = [pc EXCEPT ![Checker] = "reapplying"]
        /\ UNCHANGED <<queued, answered>>
    BY <1>1, <1>3, LockLemma DEF Enter
  <2>2. Asked' = Asked
    BY <1>1, <2>1, AskedLemma
  <2> QED
    BY <2>1, <2>2 DEF Delivery!vars, Asked
<1>4. ASSUME NEW outcome \in Outcomes, Reapply(outcome)
      PROVE  Delivery!Next \/ UNCHANGED Delivery!vars
  <2>1. pc' = [pc EXCEPT ![Checker] = "sleeping"]
    BY <1>1, <1>4, NotifyLemma DEF Reapply
  <2>2. Asked' = Asked
    BY <1>1, <2>1, AskedLemma
  <2>3. queued # <<>>
    BY <1>4, FrontLemma DEF Reapply
  <2>4. CASE outcome \in Answers
    <3>1. /\ answered' = answered \cup {Head(queued)}
          /\ queued' = Tail(queued)
      BY <1>4, <2>4 DEF Reapply, Perform, PopOnSuccess
    <3>2. Delivery!SettleOldest
      BY <2>2, <2>3, <3>1 DEF Delivery!SettleOldest, Asked
    <3> QED
      BY <3>2 DEF Delivery!Next
  <2>5. CASE outcome \notin Answers
    <3>1. answered' = answered /\ queued' = queued
      BY <1>4, <2>5 DEF Reapply, Perform, PopOnSuccess
    <3> QED
      BY <2>2, <3>1 DEF Delivery!vars, Asked
  <2> QED
    BY <2>4, <2>5
<1> QED
  BY <1>2, <1>3, <1>4 DEF CheckerStep

\* The handler settles bans as BanDelivery says: none before it is asked
\* for, none twice, and those that were put aside in their order.
THEOREM ImplementsDelivery == Spec => DeliverySafe
<1>1. Init => Delivery!Init
  <2> SUFFICES ASSUME Init PROVE Delivery!Init
    OBVIOUS
  <2>1. \A b \in Bans : pc[b] = "unasked"
    BY BanQueueConstants DEF Init, Threads
  <2> QED
    BY <2>1 DEF Init, Delivery!Init
<1>2. IInv /\ [Next]_vars => [Delivery!Next]_(Delivery!vars)
  <2> SUFFICES ASSUME IInv, [Next]_vars
               PROVE  Delivery!Next \/ UNCHANGED Delivery!vars
    OBVIOUS
  <2>1. CASE UNCHANGED vars
    BY <2>1 DEF vars, Delivery!vars
  <2> QED
    BY <2>1, AdderImplements, CheckerImplements DEF Next
<1> QED
  BY <1>1, <1>2, Invariance, PTL DEF Spec, DeliverySafe, Delivery!Safe

\* A backlog leaves a trace: the queue does not become empty without
\* BansQueueWasEmptied being set, only the thread's next recheck of the
\* players clears it, and there is no recheck for any other reason, although
\* the queue is looked at without its mutex.
THEOREM BacklogLeavesATrace ==
  Spec => [][/\ queued # <<>> /\ queued' = <<>> => wasEmptied'
             /\ wasEmptied /\ ~wasEmptied' => pc'[Checker] = "rechecking"
             /\ pc[Checker] # "rechecking" /\ pc'[Checker] = "rechecking"
                  => wasEmptied]_vars
  <1> DEFINE A == /\ queued # <<>> /\ queued' = <<>> => wasEmptied'
                  /\ wasEmptied /\ ~wasEmptied' => pc'[Checker] = "rechecking"
                  /\ pc[Checker] # "rechecking" /\ pc'[Checker] = "rechecking"
                       => wasEmptied
  <1>1. IInv /\ [Next]_vars => [A]_vars
    <2> SUFFICES ASSUME IInv, Next PROVE A
      OBVIOUS
    <2>t. pc \in [Threads -> AdderPCs \cup CheckerPCs] /\ queued \in Seq(Bans)
          /\ Checker \in Threads /\ Checker \notin Bans /\ wasEmptied \in BOOLEAN
      BY BanQueueConstants DEF IInv, TypeOK, Threads
    <2>1. CASE Test
      BY <2>1, <2>t DEF Test, SeenEmpty, Goto
    <2>2. ASSUME NEW outcome \in Outcomes, Reapply(outcome) PROVE A
      BY <2>2, <2>t DEF Reapply, PopOnSuccess, MarkReady, NotifyAll
    <2>3. CASE Enter \/ Wake \/ Recheck \/ Rested
      BY <2>3, <2>t DEF Enter, Lock, Wake, Recheck, Rested, Goto
    <2>4. ASSUME NEW b \in Bans, AdderStep(b) PROVE A
      BY <2>4, <2>t DEF AdderStep, AddCheater, Request, AddBanToQueue, Lock, Push,
         Leave, MarkReady, NotifyAll, Goto
    <2> QED
      BY <2>1, <2>2, <2>3, <2>4 DEF Next, CheckerStep
  <1> QED
    BY <1>1, Invariance, PTL DEF Spec

=============================================================================
