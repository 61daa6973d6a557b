---------------------- MODULE ClientVerificationProofs ----------------------
(* Proofs about ClientVerification, for every interval, slack and lateness *)
(* of the timer that VerificationConstants allows.                         *)
EXTENDS ClientVerification, TLAPS

\* The constants as single facts.
LEMMA Constants ==
  /\ Interval \in Nat /\ Slack \in Nat /\ MaxLate \in Nat /\ JoinWithin \in Nat
  /\ MaxLate <= Slack /\ Slack + MaxLate < Interval
  /\ TooLong \in Nat /\ TooLong = Interval + Slack + 1
  /\ TooOld \in Nat
BY VerificationConstants DEF TooLong, TooOld

\* The flags and the counters of TypeOK.
Flags == /\ stage \in {"free", "attached", "joined"}
         /\ {loaded, reported, object, open, verified, skipped, warned}
              \subseteq BOOLEAN

Counters == /\ sinceInit \in 0..TooOld
            /\ age \in 0..TooLong
            /\ elapsed \in 0..(Interval + MaxLate)
            /\ runs \in Nat

LEMMA TypeSplit == TypeOK <=> Flags /\ Counters
BY Zenon DEF TypeOK, Flags, Counters

\* The parts of the inductive invariant.
IInv == TypeOK /\ AgeGrowsWithRuns /\ SilenceIsNoticed /\ AnsweredSinceRun

LEMMA InitIInv == Init => IInv
<1> SUFFICES ASSUME Init PROVE IInv
  OBVIOUS
<1>1. TypeOK
  <2>1. Flags
    BY Zenon DEF Init, Flags
  <2>2. Counters
    BY Constants DEF Init, Counters
  <2> QED
    BY <2>1, <2>2, TypeSplit
<1>2. AgeGrowsWithRuns /\ SilenceIsNoticed /\ AnsweredSinceRun
  BY DEF Init, AgeGrowsWithRuns, SilenceIsNoticed, AnsweredSinceRun
<1> QED
  BY <1>1, <1>2 DEF IInv

\* Steps that leave the clock alone, and the ages, or put them to zero.
LEMMA SlotStep ==
  ASSUME IInv, Attach \/ OnIntialInfoGotten \/ Join \/ Leave \/ Unload
  PROVE  IInv'
<1>1. TypeOK'
  <2>1. Flags /\ Counters
    BY TypeSplit DEF IInv
  <2>2. Flags'
    BY <2>1, Zenon DEF Attach, OnIntialInfoGotten, VerifyClient, Join, Leave,
       Unload, ghostVars, Flags
  <2>3. Counters'
    BY <2>1, Constants DEF Attach, OnIntialInfoGotten, Join, Leave, Unload,
       ghostVars, Counters
  <2> QED
    BY <2>2, <2>3, Zenon DEF TypeOK, Flags, Counters
<1>2. AgeGrowsWithRuns' /\ SilenceIsNoticed'
  BY Constants DEF Attach, OnIntialInfoGotten, Join, Leave, Unload, ghostVars,
     IInv, TypeOK, AgeGrowsWithRuns, SilenceIsNoticed
<1>3. AnsweredSinceRun'
  BY DEF Attach, OnIntialInfoGotten, VerifyClient, Join, Leave, Unload,
     ghostVars, IInv, TypeOK, AnsweredSinceRun
<1> QED
  BY <1>1, <1>2, <1>3 DEF IInv

LEMMA OnClientVerifiedStep ==
  ASSUME IInv, OnClientVerified
  PROVE  IInv'
<1>1. TypeOK'
  <2>1. Flags /\ Counters
    BY TypeSplit DEF IInv
  <2>2. Flags'
    BY <2>1, Zenon DEF OnClientVerified, IsVerified, SetLastTimeVerifiedClient,
       slotVars, Flags
  <2>3. Counters'
    BY <2>1, Constants DEF OnClientVerified, SetLastTimeVerifiedClient,
       slotVars, Counters
  <2> QED
    BY <2>2, <2>3, Zenon DEF TypeOK, Flags, Counters
<1>2. AgeGrowsWithRuns' /\ SilenceIsNoticed' /\ AnsweredSinceRun'
  BY Constants DEF OnClientVerified, IsVerified, SetLastTimeVerifiedClient,
     slotVars, IInv, TypeOK, AgeGrowsWithRuns,
     SilenceIsNoticed, AnsweredSinceRun
<1> QED
  BY <1>1, <1>2 DEF IInv

LEMMA TickStep ==
  ASSUME IInv, Tick
  PROVE  IInv'
<1>1. /\ age \in 0..TooLong /\ elapsed \in 0..(Interval + MaxLate)
      /\ sinceInit \in 0..TooOld /\ runs \in Nat
  BY DEF IInv, TypeOK
<1>2. /\ elapsed < Interval + MaxLate
      /\ elapsed' = elapsed + 1
      /\ age' = IF age < TooLong THEN age + 1 ELSE age
      /\ UNCHANGED <<stage, loaded, reported, object, open, verified, runs,
                     skipped, warned>>
  BY DEF Tick, ghostVars
<1>3. elapsed' \in 0..(Interval + MaxLate) /\ age' \in 0..TooLong
  BY <1>1, <1>2, Constants
<1>4. sinceInit' \in 0..TooOld
  BY <1>1, Constants DEF Tick
<1>5. TypeOK'
  BY <1>2, <1>3, <1>4 DEF IInv, TypeOK
<1>6. AgeGrowsWithRuns'
  BY <1>1, <1>2, Constants DEF IInv, AgeGrowsWithRuns
<1>7. SilenceIsNoticed' /\ AnsweredSinceRun'
  BY <1>1, <1>2, Constants DEF IInv, SilenceIsNoticed, AnsweredSinceRun
<1> QED
  BY <1>5, <1>6, <1>7 DEF IInv

LEMMA VerifyClientsStep ==
  ASSUME IInv, VerifyClients
  PROVE  IInv'
<1>1. /\ age \in 0..TooLong /\ elapsed \in 0..(Interval + MaxLate)
      /\ runs \in Nat /\ open \in BOOLEAN /\ verified \in BOOLEAN
      /\ skipped \in BOOLEAN /\ warned \in BOOLEAN
  BY DEF IInv, TypeOK
<1>2. /\ elapsed >= Interval /\ elapsed' = elapsed - Interval
      /\ UNCHANGED <<stage, loaded, reported, object, sinceInit>>
  BY DEF VerifyClients, RestartTimer, slotVars
<1>3. elapsed' \in 0..MaxLate /\ elapsed' \in 0..(Interval + MaxLate)
  BY <1>1, <1>2, Constants
<1>4. CASE WarnUnverifiedClient
  <2>1. age' = 0 /\ runs' = 0 /\ UNCHANGED <<open, verified>>
        /\ skipped' = FALSE /\ warned' = TRUE
    BY <1>4 DEF WarnUnverifiedClient
  <2>2. TypeOK'
    <3>1. Flags /\ Counters
      BY TypeSplit DEF IInv
    <3>2. Flags'
      BY <1>2, <2>1, <3>1, Zenon DEF Flags
    <3>3. Counters'
      BY <1>2, <1>3, <2>1, <3>1, Constants DEF Counters
    <3> QED
      BY <3>2, <3>3, Zenon DEF TypeOK, Flags, Counters
  <2>3. AgeGrowsWithRuns' /\ SilenceIsNoticed' /\ AnsweredSinceRun'
    BY <1>3, <2>1, Constants
       DEF AgeGrowsWithRuns, SilenceIsNoticed, AnsweredSinceRun
  <2> QED
    BY <2>2, <2>3 DEF IInv
<1>5. CASE Challenge
  <2>1. /\ age <= Interval + Slack
        /\ open' = TRUE /\ runs' = runs + 1 /\ skipped' = FALSE
        /\ UNCHANGED <<age, verified, warned>>
    BY <1>1, <1>5, Constants DEF Challenge, Overdue, VerifyClient
  <2>2. TypeOK'
    <3>1. Flags /\ Counters
      BY TypeSplit DEF IInv
    <3>2. Flags'
      BY <1>2, <2>1, <3>1, Zenon DEF Flags
    <3>3. Counters'
      BY <1>2, <1>3, <2>1, <3>1 DEF Counters
    <3> QED
      BY <3>2, <3>3, Zenon DEF TypeOK, Flags, Counters
  <2>3. age # TooLong
    BY <1>1, <2>1, Constants
  <2>4. runs <= 1
    BY <1>1, <1>2, <2>1, <2>3, Constants
       DEF IInv, AgeGrowsWithRuns
  <2>5. AgeGrowsWithRuns'
    BY <1>1, <1>2, <1>3, <2>1, <2>3, <2>4, Constants
       DEF IInv, AgeGrowsWithRuns
  <2>6. SilenceIsNoticed' /\ AnsweredSinceRun'
    BY <1>1, <2>1, <2>4 DEF SilenceIsNoticed, AnsweredSinceRun
  <2> QED
    BY <2>2, <2>5, <2>6 DEF IInv
<1>6. CASE PassBy
  <2>1. /\ skipped' = (skipped \/ (stage # "free"))
        /\ UNCHANGED <<open, age, verified, runs, warned>>
    BY <1>6 DEF PassBy
  <2>2. TypeOK'
    BY <1>1, <1>2, <1>3, <2>1 DEF IInv, TypeOK
  <2>3. AgeGrowsWithRuns' /\ SilenceIsNoticed'
    BY <1>1, <1>2, <1>3, <2>1, Constants
       DEF IInv, AgeGrowsWithRuns, SilenceIsNoticed
  <2>4. AnsweredSinceRun'
    BY <1>2, <2>1 DEF AnsweredSinceRun
  <2> QED
    BY <2>2, <2>3, <2>4 DEF IInv
<1> QED
  BY <1>4, <1>5, <1>6 DEF VerifyClients

LEMMA NextIInv == IInv /\ [Next]_vars => IInv'
<1> SUFFICES ASSUME IInv, [Next]_vars PROVE IInv'
  OBVIOUS
<1>1. CASE UNCHANGED vars
  BY <1>1 DEF vars, IInv, TypeOK, AgeGrowsWithRuns, SilenceIsNoticed,
              AnsweredSinceRun
<1> QED
  BY <1>1, SlotStep, OnClientVerifiedStep, TickStep, VerifyClientsStep DEF Next

\* The verification state of a slot keeps its type.
THEOREM TypeCorrect == Spec => []TypeOK
<1>1. IInv => TypeOK
  BY DEF IInv
<1> QED
  BY <1>1, InitIInv, NextIInv, PTL DEF Spec

\* Whatever the lateness of the single runs, the third one that examines a
\* silent player is a warning.
THEOREM SilenceNoticed == Spec => []SilenceIsNoticed
<1>1. IInv => SilenceIsNoticed
  BY DEF IInv
<1> QED
  BY <1>1, InitIInv, NextIInv, PTL DEF Spec

\* A client with nothing left to answer is only warned if the last run could
\* not examine it.
THEOREM WarnedRightly == Spec => WarnedForACause
<1>1. IInv /\ Warns => (open \/ ~verified \/ skipped)
  <2> SUFFICES ASSUME IInv, Warns, ~open, verified, ~skipped PROVE FALSE
    BY DEF IInv, TypeOK
  <2>1. age <= elapsed
    BY DEF IInv, AnsweredSinceRun, Warns, Overdue, Examines
  <2>2. age > Interval + Slack
    BY DEF Warns, Overdue
  <2>3. age \in 0..TooLong /\ elapsed \in 0..(Interval + MaxLate)
    BY DEF IInv, TypeOK
  <2> QED
    BY <2>1, <2>2, <2>3, Constants
<1>2. IInv /\ [Next]_vars => [Warns => (open \/ ~verified \/ skipped)]_vars
  BY <1>1
<1> QED
  BY <1>2, InitIInv, NextIInv, PTL DEF Spec, WarnedForACause

\* A player goes on without its client and has not been warned.
Silent == stage = "joined" /\ object /\ ~loaded /\ ~warned

\* Nothing helps who has lost its client: until it leaves or is warned, every
\* run of the timer counts, none is undone, and after the second one there is
\* none left.
THEOREM SilenceRunsOut ==
  Spec => [][Silent => \/ stage' = "free" \/ warned'
                       \/ /\ Silent' /\ runs' >= runs /\ runs' <= 2
                          /\ VerifyClients => runs' = runs + 1]_vars
<1> DEFINE A == Silent => \/ stage' = "free" \/ warned'
                          \/ /\ Silent' /\ runs' >= runs /\ runs' <= 2
                             /\ VerifyClients => runs' = runs + 1
<1>1. IInv /\ IInv' /\ [Next]_vars => [A]_vars
  <2> SUFFICES ASSUME IInv, IInv', Next, Silent, stage' # "free", ~warned'
               PROVE  /\ Silent' /\ runs' >= runs /\ runs' <= 2
                      /\ VerifyClients => runs' = runs + 1
    BY Zenon
  <2>1. runs \in Nat /\ runs' \in Nat /\ runs' <= 2
    BY DEF IInv, TypeOK, SilenceIsNoticed
  <2>2. CASE VerifyClients
    <3>1. Challenge
      <4>1. Examines
        BY DEF Silent, Examines
      <4>2. ~WarnUnverifiedClient
        BY DEF WarnUnverifiedClient
      <4> QED
        BY <2>2, <4>1, <4>2 DEF VerifyClients, PassBy
    <3>2. runs' = runs + 1 /\ Silent'
      BY <2>2, <3>1 DEF VerifyClients, Challenge, slotVars, Silent
    <3> QED
      BY <2>1, <3>2
  <2>3. CASE ~VerifyClients
    <3>1. UNCHANGED <<stage, object, loaded, runs, warned>>
      BY <2>3 DEF Next, Attach, OnIntialInfoGotten, Join, Leave, Unload,
         OnClientVerified, Tick, ghostVars, Silent
    <3> QED
      BY <2>1, <2>3, <3>1 DEF Silent
  <2> QED
    BY <2>2, <2>3
<1>2. Spec => []IInv
  BY InitIInv, NextIInv, PTL DEF Spec
<1>3. Spec => [][A]_vars
  BY <1>1, <1>2, PTL DEF Spec
<1> QED
  BY <1>3

=============================================================================
