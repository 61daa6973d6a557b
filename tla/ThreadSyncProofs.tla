-------------------------- MODULE ThreadSyncProofs --------------------------
(***************************************************************************)
(* What the queue of CThreadSync gives although nothing locks it, for any  *)
(* number of callbacks and both builds: until threads race, in the sense   *)
(* of Race, the main thread may look at the queue at any moment of a push  *)
(* and still runs every callback once, completely written and in order.    *)
(* Nothing is assumed about how the threads are scheduled.                 *)
(***************************************************************************)
EXTENDS ThreadSync, SequenceTheorems, TLAPS

USE DEF Cells

IInv == TypeOK /\ Bounds /\ BeforeARace

----------------------------------------------------------------------------
(* Types, and what holds after a race too                                  *)

LEMMA EndIs ==
  ASSUME TypeOK
  PROVE  End \in Nat /\ mark \in Nat /\ start \in Nat /\ End >= mark
  BY ThreadSyncConstants DEF End, TypeOK

LEMMA InitTyped == Init => TypeOK /\ Bounds
  <1> SUFFICES ASSUME Init PROVE TypeOK /\ Bounds
    OBVIOUS
  <1>1. raced \in BOOLEAN
    BY DEF Init
  <1>2. TypeOK
    BY <1>1, ThreadSyncConstants DEF Init, TypeOK
  <1>3. Bounds
    BY ThreadSyncConstants DEF Init, Bounds, UnderWay
  <1> QED
    BY <1>2, <1>3

LEMMA WatchTyped == Watch => raced' \in BOOLEAN
  BY DEF Watch

\* A push writes a place that exists, and never the last one.
LEMMA PushTyped ==
  ASSUME TypeOK, Bounds, NEW c \in Callbacks, Push(c), Watch
  PROVE  TypeOK' /\ Bounds'
  <1> USE ThreadSyncConstants, EndIs, WatchTyped DEF TypeOK
  <1>1. CASE Begin(c)
    <2>1. End < Capacity /\ End \in Cells /\ mark < Capacity
      BY <1>1 DEF Begin
    <2>2. TypeOK'
      BY <1>1, <2>1 DEF Begin
    <2>3. Bounds'
      BY <1>1, <2>1 DEF Begin, Bounds, UnderWay
    <2> QED
      BY <2>2, <2>3
  <1>2. CASE Grow(c)
    BY <1>2 DEF Grow, Bounds, UnderWay
  <1>3. CASE Construct(c)
    <2>1. TypeOK'
      BY <1>3 DEF Construct
    <2>2. Bounds'
      BY <1>3 DEF Construct, Bounds, UnderWay
    <2> QED
      BY <2>1, <2>2
  <1>4. CASE Finish(c)
    <2>1. mark' \in Cells /\ mark' > 0
      BY <1>4 DEF Finish
    <2>2. pushed' \in Seq(Callbacks)
      BY <1>4 DEF Finish
    <2>3. TypeOK'
      BY <1>4, <2>1, <2>2 DEF Finish
    <2>4. Bounds'
      BY <1>4, <2>1 DEF Finish, Bounds, UnderWay
    <2> QED
      BY <2>3, <2>4
  <1> QED
    BY <1>1, <1>2, <1>3, <1>4 DEF Push, Proceed

\* The main thread stops at memory that was never written.
LEMMA ProcessTyped ==
  ASSUME TypeOK, Bounds, Process \/ Collapse, Watch
  PROVE  TypeOK' /\ Bounds'
  <1> USE ThreadSyncConstants, WatchTyped DEF TypeOK, Bounds, UnderWay, Goto
  <1>1. CASE Tick \/ Return \/ Collapse
    BY <1>1 DEF Tick, Return, Collapse
  <1>2. CASE GoOn
    BY <1>2 DEF GoOn, Empty, End
  <1>3. CASE Call
    <2>1. CASE cells[start] # NoCallback
      <3>1. /\ ran' = Append(ran, cells[start]) /\ main' = "popping"
            /\ UNCHANGED <<build, pc, at, seen, cells, start, mark, left, pushed>>
        BY <1>3, <2>1 DEF Call
      <3>2. ran' \in Seq(Callbacks)
        BY <2>1, <3>1
      <3>3. main = "calling"
        BY <1>3 DEF Call
      <3> QED
        BY <2>1, <3>1, <3>2, <3>3
    <2>2. CASE cells[start] = NoCallback
      BY <1>3, <2>2 DEF Call
    <2> QED
      BY <2>1, <2>2
  <1>4. CASE Pop
    <2>1. start < Capacity
      BY <1>4 DEF Pop
    <2> QED
      BY <1>4, <2>1 DEF Pop
  <1>5. CASE Decrement
    BY <1>5 DEF Decrement
  <1>6. CASE Store
    <2>1. start < Capacity
      BY <1>6 DEF Store
    <2> QED
      BY <1>6, <2>1 DEF Store
  <1> QED
    BY <1>1, <1>2, <1>3, <1>4, <1>5, <1>6 DEF Process

LEMMA StutterTyped ==
  ASSUME TypeOK, Bounds, UNCHANGED vars
  PROVE  TypeOK' /\ Bounds'
  BY DEF TypeOK, Bounds, UnderWay, vars

\* The memory keeps its type, whatever races there are.
THEOREM TypeCorrect == Spec => []TypeOK
  <1>1. TypeOK /\ Bounds /\ [Next]_vars => TypeOK' /\ Bounds'
    BY PushTyped, ProcessTyped, StutterTyped DEF Next
  <1> QED
    BY InitTyped, <1>1, PTL DEF Spec

----------------------------------------------------------------------------
(* Before a race                                                           *)

\* A step after which threads have not raced began before a race.
LEMMA NoRaceYet ==
  ASSUME IInv, Watch, ~raced'
  PROVE  ~raced /\ ~Race' /\ Window /\ OnePush /\ raced' = raced
  <1>1. ~raced /\ ~Race' /\ Window /\ OnePush
    BY DEF IInv, BeforeARace, Watch
  <1>2. raced = FALSE /\ raced' = FALSE
    BY <1>1, WatchTyped DEF IInv, TypeOK
  <1> QED
    BY <1>1, <1>2

\* The queue is empty, and nobody pushes.
LEMMA InitIInv == Init => IInv
  <1>1. Init => Window /\ OnePush
    BY ThreadSyncConstants
    DEF Init, Window, OnePush, Race, UnderWay, First, End, Range
  <1> QED
    BY InitTyped, <1>1 DEF IInv, BeforeARace

\* What Window consists of, with the numbers it is about.
LEMMA WindowFacts ==
  ASSUME TypeOK, Window
  PROVE  /\ First \in Nat /\ End \in Nat /\ First <= End /\ End <= Capacity
         /\ End - First \in Nat
         /\ Len(ran) \in Nat /\ Len(pushed) = Len(ran) + (End - First)
         /\ ran \in Seq(Callbacks) /\ pushed \in Seq(Callbacks)
         /\ \A i \in 1..(End - First) :
              /\ cells[First + i - 1] = pushed[Len(ran) + i]
              /\ pushed[Len(ran) + i] \in Callbacks
  <1>1. First \in Nat /\ End \in Nat /\ First <= End /\ End <= Capacity
    BY ThreadSyncConstants, EndIs DEF Window, First, TypeOK
  <1>2. ran \in Seq(Callbacks) /\ pushed \in Seq(Callbacks) /\ Len(ran) \in Nat
    BY DEF TypeOK
  <1>3. Len(pushed) = Len(ran) + (End - First)
    BY DEF Window
  <1>4. \A i \in 1..(End - First) : Len(ran) + i \in 1..Len(pushed)
    BY <1>1, <1>2, <1>3
  <1>5. \A i \in 1..(End - First) : pushed[Len(ran) + i] \in Callbacks
    BY <1>2, <1>4
  <1> QED
    BY <1>1, <1>2, <1>3, <1>5 DEF Window

\* A step that moves neither end of the queue and writes nothing in it
\* keeps the window.
LEMMA WindowKept ==
  ASSUME TypeOK, Window, main' # "crashed",
         First' = First, End' = End, UNCHANGED <<ran, pushed>>,
         main' = "calling" => First < End,
         main' = "storing" => mark' = left' + 1,
         \A i \in Cells : i < End => cells'[i] = cells[i],
         \A c \in Callbacks : pc'[c] = "done" <=> pc[c] = "done"
  PROVE  Window'
  <1>1. \A i \in 1..(End - First) : First + i - 1 \in Cells /\ First + i - 1 < End
    BY WindowFacts, ThreadSyncConstants
  <1>2. \A i \in 1..(End' - First') : cells'[First' + i - 1] = pushed'[Len(ran') + i]
    BY <1>1, WindowFacts
  <1>3. \A c \in Callbacks : pc'[c] = "done" <=> c \in Range(pushed')
    BY DEF Window
  <1> QED
    BY <1>2, <1>3 DEF Window

\* Before a race, at most one push is under way, and not during a pop that
\* reads the number of elements.
LEMMA Alone ==
  ASSUME OnePush, NEW c \in Callbacks, UnderWay(c)
  PROVE  main # "storing" /\ \A d \in Callbacks : UnderWay(d) => d = c
  BY DEF OnePush, Race

\* A push writes the place behind the last entry, which nobody reads yet.
LEMMA PushBeforeARace ==
  ASSUME IInv, NEW c \in Callbacks, Push(c), Watch
  PROVE  BeforeARace'
  <1> SUFFICES ASSUME ~raced' PROVE Window' /\ OnePush'
    BY DEF BeforeARace
  <1>1. ~Race' /\ Window /\ OnePush /\ TypeOK /\ main # "crashed"
    BY NoRaceYet DEF IInv, Window
  <1> USE <1>1, ThreadSyncConstants
  <1>2. CASE Begin(c)
    <2>1. UNCHANGED <<build, cells, start, mark, main, left, ran, pushed>>
      BY <1>2 DEF Begin
    <2>2. First' = First /\ End' = End
      BY <2>1 DEF First, End
    <2>3. \A d \in Callbacks : d # c => pc'[d] = pc[d] /\ at'[d] = at[d] /\ seen'[d] = seen[d]
      BY <1>2 DEF Begin, TypeOK
    <2>4. at'[c] = End /\ seen'[c] = mark /\ pc[c] = "working"
          /\ pc'[c] \in {"growing", "constructing"}
      BY <1>2 DEF Begin, TypeOK
    <2>5. OnePush'
      BY <2>1, <2>2, <2>3, <2>4 DEF OnePush, UnderWay
    <2>6. \A d \in Callbacks : pc'[d] = "done" <=> pc[d] = "done"
      BY <2>3, <2>4
    <2>7. main' = "calling" => First < End
      BY <2>1 DEF Window
    <2>8. main' = "storing" => mark' = left' + 1
      BY <2>1 DEF Window
    <2>9. Window'
      BY <2>1, <2>2, <2>6, <2>7, <2>8, WindowKept
    <2> QED
      BY <2>5, <2>9
  <1>3. CASE Grow(c)
    <2>1. UNCHANGED <<build, at, seen, cells, start, mark, main, left, ran, pushed>>
          /\ pc[c] = "growing" /\ pc' = [pc EXCEPT ![c] = "constructing"]
      BY <1>3 DEF Grow
    <2>2. First' = First /\ End' = End
      BY <2>1 DEF First, End
    <2>3. \A d \in Callbacks : /\ UnderWay(d)' => UnderWay(d)
                               /\ pc'[d] = "done" <=> pc[d] = "done"
                               /\ pc'[d] = "finishing" => pc[d] = "finishing"
      BY <2>1 DEF UnderWay, TypeOK
    <2>4. OnePush'
      BY <2>1, <2>2, <2>3 DEF OnePush
    <2>5. main' = "calling" => First < End
      BY <2>1 DEF Window
    <2>6. main' = "storing" => mark' = left' + 1
      BY <2>1 DEF Window
    <2>7. Window'
      BY <2>1, <2>2, <2>3, <2>5, <2>6, WindowKept
    <2> QED
      BY <2>4, <2>7
  <1>4. CASE Construct(c)
    <2>1. UNCHANGED <<build, at, seen, start, mark, main, left, ran, pushed>>
          /\ pc[c] = "constructing" /\ pc' = [pc EXCEPT ![c] = "finishing"]
          /\ cells' = [cells EXCEPT ![at[c]] = c]
      BY <1>4 DEF Construct
    <2>2. First' = First /\ End' = End
      BY <2>1 DEF First, End
    <2>3. UnderWay(c) /\ at[c] = End /\ at[c] \in Cells
      BY <2>1 DEF OnePush, UnderWay, TypeOK
    <2>4. \A d \in Callbacks : /\ UnderWay(d)' => UnderWay(d)
                               /\ pc'[d] = "done" <=> pc[d] = "done"
                               /\ pc'[d] = "finishing" => d = c
      <3>1. \A d \in Callbacks : /\ UnderWay(d)' => UnderWay(d)
                                 /\ pc'[d] = "done" <=> pc[d] = "done"
        BY <2>1 DEF UnderWay, TypeOK
      <3>2. \A d \in Callbacks : pc'[d] = "finishing" => UnderWay(d)'
        BY DEF UnderWay
      <3> QED
        BY <2>3, <3>1, <3>2, Alone
    <2>5. cells'[at[c]] = c /\ \A i \in Cells : i < End => cells'[i] = cells[i]
      BY <2>1, <2>3, EndIs DEF TypeOK
    <2>6. OnePush'
      BY <2>1, <2>2, <2>4, <2>5 DEF OnePush
    <2>7. main' = "calling" => First < End
      BY <2>1 DEF Window
    <2>8. main' = "storing" => mark' = left' + 1
      BY <2>1 DEF Window
    <2>9. Window'
      BY <2>1, <2>2, <2>4, <2>5, <2>7, <2>8, WindowKept
    <2> QED
      BY <2>6, <2>9
  <1>5. CASE Finish(c)
    <2>1. /\ UNCHANGED <<build, at, seen, cells, start, main, left, ran>>
          /\ pc[c] = "finishing" /\ pc' = [pc EXCEPT ![c] = "done"]
          /\ pushed' = Append(pushed, c)
      BY <1>5 DEF Finish
    <2>2. UnderWay(c) /\ at[c] = End /\ seen[c] = mark /\ cells[End] = c /\ End < Capacity
      BY <2>1 DEF OnePush, UnderWay, IInv, Bounds
    <2>3. mark' = mark + 1
      BY <1>5, <2>2 DEF Finish
    <2>4. First' = First /\ End' = End + 1
      BY <2>1, <2>3, EndIs DEF First, End, TypeOK
    <2>5. main # "storing" /\ \A d \in Callbacks : ~UnderWay(d)'
      <3>1. main # "storing" /\ \A d \in Callbacks : UnderWay(d) => d = c
        BY <2>2, Alone
      <3>2. \A d \in Callbacks : UnderWay(d)' => UnderWay(d) /\ d # c
        BY <2>1 DEF UnderWay, TypeOK
      <3> QED
        BY <3>1, <3>2
    <2>6. OnePush'
      BY <2>5 DEF OnePush, UnderWay
    <2>7. /\ pushed' \in Seq(Callbacks) /\ Len(pushed') = Len(pushed) + 1
          /\ \A i \in 1..Len(pushed) : pushed'[i] = pushed[i]
          /\ pushed'[Len(pushed) + 1] = c
      <3>1. pushed \in Seq(Callbacks)
        BY DEF TypeOK
      <3> QED
        BY <2>1, <3>1
    <2>8. Range(pushed') = Range(pushed) \cup {c}
      <3> DEFINE n == Len(pushed)
      <3>1. n \in Nat /\ DOMAIN pushed = 1..n /\ DOMAIN pushed' = 1..(n + 1)
        <4>1. pushed \in Seq(Callbacks)
          BY DEF TypeOK
        <4> QED
          BY <2>7, <4>1
      <3> HIDE DEF n
      <3>2. 1..(n + 1) = (1..n) \cup {n + 1}
        BY <3>1
      <3>3. (\A i \in 1..n : pushed'[i] = pushed[i]) /\ pushed'[n + 1] = c
        BY <2>7 DEF n
      <3>4. Range(pushed) = {pushed[i] : i \in 1..n}
            /\ Range(pushed') = {pushed'[i] : i \in 1..(n + 1)}
        BY <3>1 DEF Range
      <3> QED
        BY <3>2, <3>3, <3>4
    <2>9. \A d \in Callbacks : pc'[d] = "done" <=> d \in Range(pushed')
      BY <2>1, <2>8 DEF Window, TypeOK
    <2>10. \A i \in 1..(End' - First') : cells'[First' + i - 1] = pushed'[Len(ran') + i]
      <3> SUFFICES ASSUME NEW i \in 1..(End' - First')
                   PROVE  cells[First + i - 1] = pushed'[Len(ran) + i]
        BY <2>1, <2>4
      <3>1. CASE i <= End - First
        <4>1. i \in 1..(End - First)
          BY <2>4, <3>1, WindowFacts
        <4>2. Len(ran) + i \in 1..Len(pushed)
          BY <4>1, WindowFacts
        <4> QED
          BY <2>7, <4>1, <4>2, WindowFacts
      <3>2. CASE i > End - First
        <4>1. First + i - 1 = End /\ Len(ran) + i = Len(pushed) + 1
          <5>1. /\ First \in Nat /\ End \in Nat /\ First <= End /\ Len(ran) \in Nat
                /\ Len(pushed) = Len(ran) + (End - First)
            BY WindowFacts
          <5>2. i \in 1..((End + 1) - First)
            BY <2>4
          <5> QED
            BY <3>2, <5>1, <5>2
        <4> QED
          BY <2>2, <2>7, <4>1
      <3> QED
        BY <3>1, <3>2, WindowFacts, <2>4
    <2>11. \A i \in 1..Len(ran') : ran'[i] = pushed'[i]
      <3>1. \A i \in 1..Len(ran) : i \in 1..Len(pushed)
        BY WindowFacts
      <3> QED
        BY <2>1, <2>7, <3>1 DEF Window
    <2>12. /\ First' <= End' /\ End' <= Capacity
           /\ main' = "calling" => First' < End'
           /\ Len(pushed') = Len(ran') + (End' - First')
      BY <2>1, <2>2, <2>4, <2>7, WindowFacts DEF TypeOK
    <2>13. Window'
      BY <2>1, <2>5, <2>9, <2>10, <2>11, <2>12 DEF Window
    <2> QED
      BY <2>6, <2>13
  <1> QED
    BY <1>2, <1>3, <1>4, <1>5 DEF Push, Proceed

\* Process only reads what pushes have ended.
LEMMA ProcessBeforeARace ==
  ASSUME IInv, Process \/ Collapse, Watch
  PROVE  BeforeARace'
  <1> SUFFICES ASSUME ~raced' PROVE Window' /\ OnePush'
    BY DEF BeforeARace
  <1>1. ~Race' /\ ~raced /\ Window /\ OnePush /\ TypeOK /\ Bounds
    BY NoRaceYet DEF IInv
  <1>2. Process /\ UNCHANGED <<build, pc, at, seen, cells, pushed>>
    BY <1>1 DEF Process, Collapse, Tick, Return, GoOn, Call, Pop, Decrement, Store
  <1> USE <1>1, <1>2, ThreadSyncConstants
  <1>3. ASSUME End' = End, UNCHANGED mark PROVE OnePush'
    BY <1>3 DEF OnePush, UnderWay
  <1>4. \A c \in Callbacks : pc'[c] = "done" <=> pc[c] = "done"
    OBVIOUS
  <1>5. \A i \in Cells : i < End => cells'[i] = cells[i]
    OBVIOUS
  <1>6. CASE Tick \/ Return \/ GoOn
    <2>1. UNCHANGED <<start, mark, left, ran>>
          /\ First' = First /\ End' = End /\ main' \in {"testing", "elsewhere", "calling"}
      BY <1>6 DEF Tick, Return, GoOn, Goto, First, End
    <2>2. main' = "calling" => First < End
      <3>1. ASSUME main' = "calling" PROVE First = start /\ start # End
        BY <1>6, <3>1 DEF Tick, Return, GoOn, Goto, First, Empty
      <3> QED
        BY <3>1, WindowFacts, EndIs
    <2>3. Window'
      BY <1>4, <1>5, <2>1, <2>2, WindowKept
    <2> QED
      BY <1>3, <2>1, <2>3
  <1>7. CASE Call
    <2>1. main = "calling" /\ First = start /\ start < End
      BY <1>7 DEF Call, Window, First
    <2>2. cells[start] = pushed[Len(ran) + 1] /\ cells[start] \in Callbacks
      <3>1. 1 \in 1..(End - First) /\ First + 1 - 1 = start
        BY <2>1, WindowFacts
      <3> QED
        BY <3>1, WindowFacts
    <2>3. ran' = Append(ran, cells[start]) /\ main' = "popping"
          /\ UNCHANGED <<start, mark, left>>
      BY <1>7, <2>2 DEF Call, Goto
    <2>4. First' = First + 1 /\ End' = End
      BY <2>1, <2>3 DEF First, End
    <2>5. /\ ran' \in Seq(Callbacks) /\ Len(ran') = Len(ran) + 1
          /\ \A i \in 1..Len(ran) : ran'[i] = ran[i]
          /\ ran'[Len(ran) + 1] = cells[start]
      <3>1. ran \in Seq(Callbacks)
        BY WindowFacts
      <3> QED
        BY <2>2, <2>3, <3>1
    <2>6. \A i \in 1..Len(ran') : ran'[i] = pushed'[i]
      <3> SUFFICES ASSUME NEW i \in 1..Len(ran') PROVE ran'[i] = pushed[i]
        OBVIOUS
      <3>1. CASE i <= Len(ran)
        BY <2>5, <3>1 DEF Window
      <3>2. CASE i > Len(ran)
        <4>1. i = Len(ran) + 1
          BY <2>5, <3>2, WindowFacts
        <4> QED
          BY <2>2, <2>5, <4>1
      <3> QED
        BY <3>1, <3>2, WindowFacts
    <2>7. \A i \in 1..(End' - First') : cells'[First' + i - 1] = pushed'[Len(ran') + i]
      <3> SUFFICES ASSUME NEW i \in 1..(End' - First')
                   PROVE  cells[(First + 1) + i - 1] = pushed[(Len(ran) + 1) + i]
        BY <2>4, <2>5
      <3>1. i + 1 \in 1..(End - First)
        BY <2>4, WindowFacts
      <3>2. First + (i + 1) - 1 = (First + 1) + i - 1
            /\ Len(ran) + (i + 1) = (Len(ran) + 1) + i
        BY WindowFacts
      <3> QED
        BY <3>1, <3>2, WindowFacts
    <2>8. /\ First' <= End' /\ End' <= Capacity
          /\ Len(pushed') = Len(ran') + (End' - First')
      BY <2>1, <2>4, <2>5, WindowFacts
    <2>9. Window'
      BY <2>3, <2>6, <2>7, <2>8 DEF Window
    <2> QED
      BY <1>3, <2>3, <2>4, <2>9
  <1>8. CASE Pop
    <2>1. build = "linux" /\ main = "popping" /\ main' = "testing"
          /\ start' = start + 1 /\ UNCHANGED <<mark, left, ran>>
      BY <1>8 DEF Pop, Goto
    <2>2. First' = First /\ End' = End
      BY <2>1 DEF First, End
    <2>3. Window'
      BY <1>4, <1>5, <2>1, <2>2, WindowKept
    <2> QED
      BY <1>3, <2>1, <2>2, <2>3
  <1>9. CASE Decrement
    <2>1. main = "popping" /\ main' = "storing" /\ left' = mark - 1
          /\ build = "windows" /\ UNCHANGED <<start, mark, ran>>
      BY <1>9 DEF Decrement, Goto
    <2>2. First' = First /\ End' = End /\ mark' = left' + 1
      BY <2>1 DEF First, End, TypeOK
    <2>3. Window'
      BY <1>4, <1>5, <2>1, <2>2, WindowKept
    <2> QED
      BY <1>3, <2>1, <2>2, <2>3
  <1>10. CASE Store
    <2>1. main = "storing" /\ main' = "testing" /\ mark' = left /\ build = "windows"
          /\ start' = (IF left = 0 THEN 0 ELSE start + 1) /\ UNCHANGED <<left, ran>>
      BY <1>10 DEF Store, Goto, Bounds
    <2>2. mark = left + 1 /\ End = start + mark /\ First = start + 1
      BY <2>1 DEF Window, End, First
    <2>3. \A c \in Callbacks : ~UnderWay(c)
      BY <2>1 DEF OnePush, Race
    <2>4. OnePush'
      BY <2>3 DEF OnePush, UnderWay
    <2>5. First' = start' /\ End' = start' + left
      BY <2>1 DEF First, End
    <2>6. CASE left = 0
      <3>1. End - First = 0 /\ End' - First' = 0 /\ First' = 0 /\ End' = 0
        BY <2>1, <2>2, <2>5, <2>6 DEF TypeOK
      <3>2. Len(pushed') = Len(ran') + (End' - First')
        BY <2>1, <3>1, WindowFacts
      <3>3. \A i \in 1..(End' - First') : cells'[First' + i - 1] = pushed'[Len(ran') + i]
        BY <3>1
      <3>4. First' <= End' /\ End' <= Capacity
        BY <3>1
      <3> QED
        BY <2>1, <2>4, <3>2, <3>3, <3>4 DEF Window
    <2>7. CASE left # 0
      <3>1. First' = First /\ End' = End
        BY <2>1, <2>2, <2>5, <2>7 DEF TypeOK
      <3>2. Window'
        BY <1>4, <1>5, <2>1, <3>1, WindowKept
      <3> QED
        BY <2>4, <3>2
    <2> QED
      BY <2>6, <2>7
  <1> QED
    BY <1>6, <1>7, <1>8, <1>9, <1>10 DEF Process

\* Every reachable state satisfies the invariant.
THEOREM Invariance == Spec => []IInv
  <1>1. IInv /\ [Next]_vars => IInv'
    <2> SUFFICES ASSUME IInv, [Next]_vars PROVE IInv'
      OBVIOUS
    <2>1. ASSUME NEW c \in Callbacks, Push(c), Watch PROVE IInv'
      BY <2>1, PushTyped, PushBeforeARace DEF IInv
    <2>2. CASE (Process \/ Collapse) /\ Watch
      BY <2>2, ProcessTyped, ProcessBeforeARace DEF IInv
    <2>3. CASE UNCHANGED vars
      BY <2>3 DEF IInv, TypeOK, Bounds, BeforeARace, Window, OnePush, Race,
                  UnderWay, First, End, vars
    <2> QED
      BY <2>1, <2>2, <2>3 DEF Next
  <1> QED
    BY InitIInv, <1>1, PTL DEF Spec

----------------------------------------------------------------------------
(* What follows                                                            *)

\* A callback that was pushed was run, or lies between the iterators.
LEMMA WindowLosesNothing ==
  ASSUME TypeOK, Window
  PROVE  main # "crashed" /\ NothingIsLost
  <1>1. main # "crashed"
    BY DEF Window
  <1>2. ASSUME NEW c \in Callbacks, pc[c] = "done"
        PROVE  c \in Range(ran) \/ InQueue(c)
    <2> USE ThreadSyncConstants
    <2>1. PICK i \in 1..Len(pushed) : pushed[i] = c
      <3>1. c \in Range(pushed) /\ DOMAIN pushed = 1..Len(pushed)
        BY <1>2, WindowFacts DEF Window
      <3> QED
        BY <3>1 DEF Range
    <2>2. CASE i <= Len(ran)
      <3>1. i \in DOMAIN ran /\ ran[i] = c
        BY <2>1, <2>2, WindowFacts DEF Window
      <3> QED
        BY <3>1 DEF Range
    <2>3. CASE i > Len(ran)
      <3> DEFINE k == i - Len(ran)
      <3>1. k \in 1..(End - First) /\ i = Len(ran) + k
        BY <2>1, <2>3, WindowFacts
      <3>2. cells[First + k - 1] = c
        BY <2>1, <3>1, WindowFacts
      <3>3. First + k - 1 \in Cells /\ start <= First + k - 1 /\ First + k - 1 < End
        <4>1. First >= start /\ start \in Nat
          BY EndIs DEF First
        <4> QED
          BY <3>1, <4>1, WindowFacts
      <3> QED
        BY <3>2, <3>3 DEF InQueue
    <2> QED
      BY <2>2, <2>3, WindowFacts
  <1> QED
    BY <1>1, <1>2 DEF NothingIsLost

\* It takes a race to lose a callback or to call what is not completely
\* written: AddCallbackToQueue and Process, for any number of callbacks.
THEOREM OnlyRacesDoDamage == Spec => []DamageNeedsARace
  <1>1. IInv => DamageNeedsARace
    BY WindowLosesNothing DEF IInv, BeforeARace, DamageNeedsARace
  <1> QED
    BY Invariance, <1>1, PTL

\* Before a race Process runs the callbacks in the order in which they were
\* added, each once.
THEOREM InOrder == Spec => []RunInOrder
  <1>1. IInv => RunInOrder
    <2> SUFFICES ASSUME TypeOK, Window
                 PROVE  Len(ran) <= Len(pushed) /\ ran = SubSeq(pushed, 1, Len(ran))
      BY DEF IInv, BeforeARace, RunInOrder
    <2>1. Len(ran) <= Len(pushed)
      BY WindowFacts
    <2>2. ran = SubSeq(pushed, 1, Len(ran))
      BY <2>1, WindowFacts DEF Window
    <2> QED
      BY <2>1, <2>2
  <1> QED
    BY Invariance, <1>1, PTL

----------------------------------------------------------------------------
(***************************************************************************)
(* The deque as an atomic queue.  CallbackQueue's waiting is read off the  *)
(* memory: before a race, a step of a push or of Process is a step of the  *)
(* atomic queue or leaves the entries in the queue as they were.           *)
(***************************************************************************)

\* A function on 1..n with the elements of a sequence is that sequence.
LEMMA SameElements ==
  ASSUME NEW S, NEW n \in Nat, NEW f \in [1..n -> S],
         NEW q \in Seq(S), Len(q) = n, \A i \in 1..n : f[i] = q[i]
  PROVE  f = q
  <1>1. f \in Seq(S) /\ Len(f) = n
    OBVIOUS
  <1> QED
    BY <1>1, SeqEqual, Zenon

LEMMA WaitingIs ==
  ASSUME TypeOK, Window, ~raced
  PROVE  /\ Waiting \in Seq(Callbacks)
         /\ Len(Waiting) = End - First
         /\ \A i \in 1..(End - First) :
              Waiting[i] = cells[First + i - 1] /\ Waiting[i] = pushed[Len(ran) + i]
  <1>1. Waiting = [i \in 1..(End - First) |-> cells[First + i - 1]]
    BY DEF Waiting
  <1>2. /\ End - First \in Nat
        /\ \A i \in 1..(End - First) : cells[First + i - 1] = pushed[Len(ran) + i]
                                       /\ pushed[Len(ran) + i] \in Callbacks
    BY WindowFacts
  <1>3. Waiting \in Seq(Callbacks) /\ Len(Waiting) = End - First
    BY <1>1, <1>2
  <1> QED
    BY <1>1, <1>2, <1>3

\* Steps that move neither end of the queue, and write no element in it,
\* leave it as it was.
LEMMA WaitingKept ==
  ASSUME TypeOK, Window, ~raced, raced' = raced,
         First' = First, End' = End, UNCHANGED ran,
         \A i \in Cells : i < End => cells'[i] = cells[i]
  PROVE  UNCHANGED Queue!vars
  <1>1. \A i \in 1..(End - First) : First + i - 1 \in Cells /\ First + i - 1 < End
    BY WindowFacts, ThreadSyncConstants
  <1>2. Waiting = [i \in 1..(End - First) |-> cells[First + i - 1]]
        /\ Waiting' = [i \in 1..(End - First) |-> cells'[First + i - 1]]
    BY DEF Waiting
  <1>3. Waiting' = Waiting
    BY <1>1, <1>2
  <1> QED
    BY <1>3 DEF Queue!vars

\* A callback whose push has not ended is neither in the queue nor run.
LEMMA PushIsNew ==
  ASSUME TypeOK, Window, ~raced, NEW c \in Callbacks, pc[c] = "finishing"
  PROVE  Queue!IsNew(c)
  <1>1. \A i \in 1..Len(pushed) : pushed[i] # c
    <2>1. c \notin Range(pushed)
      BY DEF Window
    <2>2. pushed \in Seq(Callbacks)
      BY DEF TypeOK
    <2>3. DOMAIN pushed = 1..Len(pushed)
      BY <2>2
    <2> QED
      BY <2>1, <2>3 DEF Range
  <1>2. \A i \in DOMAIN Waiting : Waiting[i] # c
    <2>1. DOMAIN Waiting = 1..(End - First)
      BY WaitingIs, WindowFacts
    <2>2. \A i \in 1..(End - First) : Len(ran) + i \in 1..Len(pushed)
      BY WindowFacts
    <2> QED
      BY <1>1, <2>1, <2>2, WaitingIs
  <1>3. \A i \in DOMAIN ran : ran[i] # c
    <2>1. DOMAIN ran = 1..Len(ran) /\ \A i \in 1..Len(ran) : i \in 1..Len(pushed)
      BY WindowFacts
    <2> QED
      BY <1>1, <2>1 DEF Window
  <1> QED
    BY <1>2, <1>3 DEF Queue!IsNew

\* Only the end of a push adds to the queue.
LEMMA PushRefines ==
  ASSUME IInv, NEW c \in Callbacks, Push(c), Watch, ~raced'
  PROVE  Queue!Add(c) \/ UNCHANGED Queue!vars
  <1>1. ~raced /\ raced' = raced /\ Window /\ OnePush /\ TypeOK
    BY NoRaceYet DEF IInv
  <1> USE <1>1
  <1>2. CASE Begin(c) \/ Grow(c)
    <2>1. First' = First /\ End' = End /\ UNCHANGED <<ran, cells>>
      BY <1>2 DEF Begin, Grow, First, End
    <2> QED
      BY <2>1, WaitingKept
  <1>3. CASE Construct(c)
    <2>1. First' = First /\ End' = End /\ UNCHANGED ran
      BY <1>3 DEF Construct, First, End
    <2>2. at[c] = End
      BY <1>3 DEF Construct, OnePush, UnderWay
    <2>3. \A i \in Cells : i < End => cells'[i] = cells[i]
      BY <1>3, <2>2, EndIs DEF Construct, TypeOK
    <2> QED
      BY <2>1, <2>3, WaitingKept
  <1>4. CASE Finish(c)
    <2>1. /\ at[c] = End /\ seen[c] = mark /\ cells[End] = c /\ End < Capacity
          /\ pc[c] = "finishing"
      BY <1>4 DEF Finish, OnePush, UnderWay, IInv, Bounds
    <2>2. mark' = mark + 1 /\ UNCHANGED <<build, start, main, cells, ran>>
      BY <1>4, <2>1 DEF Finish
    <2>3. First' = First /\ End' = End + 1
      BY <2>2, EndIs DEF First, End
    <2> DEFINE n == End - First
    <2>4. /\ n \in Nat /\ End' - First' = n + 1 /\ First + (n + 1) - 1 = End
          /\ n + 1 \in Nat
      BY <2>3, WindowFacts
    <2>5. Waiting' = [i \in 1..(n + 1) |-> cells[First + i - 1]]
      BY <2>2, <2>3, <2>4 DEF Waiting
    <2>6. /\ Append(Waiting, c) \in Seq(Callbacks)
          /\ Len(Append(Waiting, c)) = n + 1
          /\ \A i \in 1..(n + 1) :
               Append(Waiting, c)[i] = IF i = n + 1 THEN c ELSE Waiting[i]
      BY <2>4, WaitingIs
    <2>7. ASSUME NEW i \in 1..(n + 1)
          PROVE  cells[First + i - 1] = IF i = n + 1 THEN c ELSE Waiting[i]
      <3>1. CASE i = n + 1
        BY <3>1, <2>1, <2>4
      <3>2. CASE i # n + 1
        <4>1. i \in 1..n
          BY <2>4, <3>2
        <4> QED
          BY <3>2, <4>1, WaitingIs
      <3> QED
        BY <3>1, <3>2
    <2>8. \A i \in 1..(n + 1) : /\ Waiting'[i] = Append(Waiting, c)[i]
                                /\ Append(Waiting, c)[i] \in Callbacks
      BY <2>4, <2>5, <2>6, <2>7
    <2>9. Waiting' \in [1..(n + 1) -> Callbacks]
      BY <2>5, <2>8
    <2> HIDE DEF n
    <2>10. Waiting' = Append(Waiting, c)
      BY <2>4, <2>6, <2>8, <2>9, SameElements
    <2>11. Queue!IsNew(c)
      BY <2>1, PushIsNew
    <2> QED
      BY <2>2, <2>10, <2>11 DEF Queue!Add
  <1> QED
    BY <1>2, <1>3, <1>4 DEF Push, Proceed

\* Only the call takes from the queue, although the entry is popped later.
LEMMA ProcessRefines ==
  ASSUME IInv, Process \/ Collapse, Watch, ~raced'
  PROVE  Queue!RunOldest \/ UNCHANGED Queue!vars
  <1>1. ~raced /\ raced' = raced /\ Window /\ OnePush /\ TypeOK /\ Bounds
    BY NoRaceYet DEF IInv
  <1>2. Process
    BY <1>1 DEF Collapse
  <1> USE <1>1
  <1>3. CASE Tick \/ Return \/ GoOn
    <2>1. First' = First /\ End' = End /\ UNCHANGED <<ran, cells>>
      BY <1>3 DEF Tick, Return, GoOn, Goto, First, End
    <2> QED
      BY <2>1, WaitingKept
  <1>4. CASE Pop \/ Decrement
    <2>1. First' = First /\ End' = End /\ UNCHANGED <<ran, cells>>
      BY <1>4 DEF Pop, Decrement, Goto, First, End
    <2> QED
      BY <2>1, WaitingKept
  <1>5. CASE Store
    <2>1. main = "storing" /\ main' = "testing" /\ mark' = left /\ build = "windows"
          /\ start' = (IF left = 0 THEN 0 ELSE start + 1)
          /\ UNCHANGED <<build, cells, ran>>
      BY <1>5 DEF Store, Goto, Bounds
    <2>2. mark = left + 1 /\ End = start + mark /\ First = start + 1
      BY <2>1 DEF Window, End, First
    <2>3. First' = start' /\ End' = start' + left
      BY <2>1 DEF First, End
    <2>4. CASE left = 0
      <3>1. End - First = 0 /\ End' - First' = 0
        BY <2>1, <2>2, <2>3, <2>4 DEF TypeOK
      <3>2. \A i : i \notin 1..0
        OBVIOUS
      <3>3. Waiting' = Waiting
        <4>1. Waiting = [i \in 1..0 |-> cells[First + i - 1]]
              /\ Waiting' = [i \in 1..0 |-> cells'[First' + i - 1]]
          BY <3>1 DEF Waiting
        <4> QED
          BY <3>2, <4>1
      <3> QED
        BY <2>1, <3>3 DEF Queue!vars
    <2>5. CASE left # 0
      <3>1. First' = First /\ End' = End
        BY <2>1, <2>2, <2>3, <2>5 DEF TypeOK
      <3> QED
        BY <2>1, <3>1, WaitingKept
    <2> QED
      BY <2>4, <2>5
  <1>6. CASE Call
    <2>1. main = "calling" /\ First = start /\ start < End /\ End \in Nat /\ start \in Nat
      BY <1>6, EndIs DEF Call, Window, First
    <2> DEFINE n == End - First
    <2>2. n \in Nat /\ n > 0 /\ 1 \in 1..n /\ First + 1 - 1 = start
      BY <2>1
    <2>3. /\ Len(Waiting) = n /\ Waiting \in Seq(Callbacks)
          /\ \A i \in 1..n : Waiting[i] = cells[First + i - 1]
      BY WaitingIs
    <2>4. Waiting # <<>> /\ Head(Waiting) = cells[start] /\ cells[start] \in Callbacks
      <3>1. Waiting[1] = cells[start] /\ Waiting[1] \in Callbacks
        BY <2>2, <2>3
      <3> QED
        BY <2>2, <2>3, <3>1
    <2>5. /\ ran' = Append(ran, cells[start]) /\ main' = "popping"
          /\ UNCHANGED <<build, cells, start, mark>>
      BY <1>6, <2>4, ThreadSyncConstants DEF Call, Goto
    <2>6. First' = First + 1 /\ End' = End /\ End' - First' = n - 1 /\ n - 1 \in Nat
      BY <2>1, <2>2, <2>5 DEF First, End
    <2>7. Waiting' = [i \in 1..(n - 1) |-> cells[First' + i - 1]]
      BY <2>5, <2>6 DEF Waiting
    <2> HIDE DEF n
    <2>8. /\ Tail(Waiting) \in Seq(Callbacks) /\ Len(Tail(Waiting)) = n - 1
          /\ \A i \in 1..(n - 1) : Tail(Waiting)[i] = Waiting[i + 1]
      BY <2>2, <2>3, HeadTailProperties
    <2>9. ASSUME NEW i \in 1..(n - 1)
          PROVE  Waiting'[i] = Tail(Waiting)[i] /\ Waiting'[i] \in Callbacks
      <3>1. i + 1 \in 1..n /\ First' + i - 1 = First + (i + 1) - 1
        BY <2>1, <2>2, <2>6
      <3>2. Waiting'[i] = cells[First + (i + 1) - 1]
        BY <2>7, <3>1
      <3>3. Waiting[i + 1] = cells[First + (i + 1) - 1] /\ Waiting[i + 1] \in Callbacks
        BY <2>3, <3>1
      <3> QED
        BY <2>8, <3>2, <3>3
    <2>10. Waiting' \in [1..(n - 1) -> Callbacks]
      BY <2>7, <2>9
    <2>11. Waiting' = Tail(Waiting)
      BY <2>6, <2>8, <2>9, <2>10, SameElements
    <2> QED
      BY <2>4, <2>5, <2>11 DEF Queue!RunOldest
  <1> QED
    BY <1>2, <1>3, <1>4, <1>5, <1>6 DEF Process

\* Until threads race, the unlocked deque implements an atomic queue, on
\* either build and for any number of callbacks.
THEOREM ImplementsAtomicQueue == Spec => AtomicUntilRace
  <1>1. Init => Queue!Init
    <2> SUFFICES ASSUME Init PROVE Queue!Init
      OBVIOUS
    <2>1. End = 0 /\ First = 0 /\ raced = FALSE /\ ran = <<>>
      BY DEF Init, End, First
    <2>2. Waiting = <<>>
      BY <2>1 DEF Waiting
    <2> QED
      BY <2>1, <2>2 DEF Queue!Init
  <1>2. IInv /\ [Next]_vars => [Queue!Next]_Queue!vars
    <2> SUFFICES ASSUME IInv, [Next]_vars
                 PROVE  Queue!Next \/ UNCHANGED Queue!vars
      OBVIOUS
    <2>1. CASE raced'
      BY <2>1 DEF Queue!Next, Queue!Break
    <2>2. CASE ~raced' /\ Next
      <3>1. ASSUME NEW c \in Callbacks, Push(c), Watch
            PROVE  Queue!Next \/ UNCHANGED Queue!vars
        BY <2>2, <3>1, PushRefines DEF Queue!Next
      <3>2. CASE (Process \/ Collapse) /\ Watch
        BY <2>2, <3>2, ProcessRefines DEF Queue!Next
      <3> QED
        BY <2>2, <3>1, <3>2 DEF Next
    <2>3. CASE UNCHANGED vars
      BY <2>3 DEF vars, Queue!vars, Waiting, First, End
    <2> QED
      BY <2>1, <2>2, <2>3
  <1> QED
    BY <1>1, <1>2, Invariance, PTL DEF Spec, AtomicUntilRace, Queue!Spec

=============================================================================
