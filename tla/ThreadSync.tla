----------------------------- MODULE ThreadSync -----------------------------
(***************************************************************************)
(* CThreadSync: the queue through which the lookup threads and the work    *)
(* thread hand callbacks to the server's main thread.                      *)
(*                                                                         *)
(* AddCallbackToQueue means to lock the queue, but the statement           *)
(* "boost::timed_mutex::scoped_lock(_mutex);" declares a local variable    *)
(* _mutex that is a lock of nothing.  Only Process locks the mutex, so it  *)
(* always gets it at once, and nothing keeps the queue's operations apart. *)
(* They are modelled as the two builds perform them on std::deque:         *)
(*                                                                         *)
(*   Linux    push constructs the element at the finish iterator and       *)
(*            increments that, pop increments the start iterator, empty    *)
(*            compares the two                                             *)
(*   Windows  push constructs the element that many places behind the      *)
(*            offset as there are elements, and increments their number,   *)
(*            pop decrements it and moves the offset, to the beginning if  *)
(*            it took the last element, empty compares the number with 0   *)
(*                                                                         *)
(* The elements lie in blocks that a table points to.  A push that finds   *)
(* the table full replaces it, which any push may do here.  Pop uses the   *)
(* table on Linux, when it gives a block back, and front on Windows.  What *)
(* the deque writes stays in the order of the program, as on x86.          *)
(***************************************************************************)
EXTENDS Naturals, Sequences, Functions

CONSTANTS
  Callbacks,  \* each stands for one call of AddCallbackToQueue
  NoCallback, \* what memory holds that was never written
  Capacity    \* bound: the places the deque's memory has

ASSUME ThreadSyncConstants ==
  /\ NoCallback \notin Callbacks
  /\ Capacity \in Nat

VARIABLES
  build,   \* the build of the server: whose deque it has
  pc,      \* where the thread of each callback is
  at,      \* where it constructs the element
  seen,    \* the mark when it began
  cells,   \* the memory of the deque
  start,   \* the start iterator, or the offset
  mark,    \* the finish iterator on Linux, the number of elements on Windows
  main,    \* where the main thread is in Process
  left,    \* what pop has made of the number of elements, on Windows
  raced,   \* whether two threads have got into each other's way
  ran,     \* ghost: the callbacks that were run, in order
  pushed   \* ghost: the callbacks whose push has ended, in order

vars == <<build, pc, at, seen, cells, start, mark, main, left, raced, ran, pushed>>

Cells == 0..Capacity

TypeOK ==
  /\ build \in {"linux", "windows"}
  /\ pc \in [Callbacks -> {"working", "growing", "constructing", "finishing", "done"}]
  /\ at \in [Callbacks -> Cells]
  /\ seen \in [Callbacks -> Cells]
  /\ cells \in [Cells -> Callbacks \cup {NoCallback}]
  /\ start \in Cells
  /\ mark \in Cells
  /\ main \in {"elsewhere", "testing", "calling", "popping", "storing", "crashed"}
  /\ left \in Cells
  /\ raced \in BOOLEAN
  /\ ran \in Seq(Callbacks)
  /\ pushed \in Seq(Callbacks)

Init ==
  /\ build \in {"linux", "windows"}
  /\ pc = [c \in Callbacks |-> "working"]
  /\ at = [c \in Callbacks |-> 0]
  /\ seen = [c \in Callbacks |-> 0]
  /\ cells = [i \in Cells |-> NoCallback]
  /\ start = 0
  /\ mark = 0
  /\ main = "elsewhere"
  /\ left = 0
  /\ raced = FALSE
  /\ ran = <<>>
  /\ pushed = <<>>

\* Where the next element goes.
End == IF build = "linux" THEN mark ELSE start + mark

Empty == start = End

----------------------------------------------------------------------------
(* AddCallbackToQueue                                                      *)

Begin(c) ==
  /\ pc[c] = "working"
  /\ End < Capacity
  /\ at' = [at EXCEPT ![c] = End]
  /\ seen' = [seen EXCEPT ![c] = mark]
  /\ \E label \in {"growing", "constructing"} : pc' = [pc EXCEPT ![c] = label]
  /\ UNCHANGED <<build, cells, start, mark, main, left, ran, pushed>>

\* The new table has replaced the old one.
Grow(c) ==
  /\ pc[c] = "growing"
  /\ pc' = [pc EXCEPT ![c] = "constructing"]
  /\ UNCHANGED <<build, at, seen, cells, start, mark, main, left, ran, pushed>>

\* Mutant: increments the iterator before it constructs the element.
ConstructLate(c) ==
  /\ pc[c] = "constructing"
  /\ mark' = seen[c] + 1
  /\ pc' = [pc EXCEPT ![c] = "finishing"]
  /\ UNCHANGED <<build, at, seen, cells, start, main, left, ran, pushed>>

Construct(c) ==
  /\ pc[c] = "constructing"
  /\ cells' = [cells EXCEPT ![at[c]] = c]
  /\ pc' = [pc EXCEPT ![c] = "finishing"]
  /\ UNCHANGED <<build, at, seen, start, mark, main, left, ran, pushed>>

\* The value that is incremented may be an old one, so that the increment of
\* another thread is lost.
Finish(c) ==
  /\ pc[c] = "finishing"
  /\ mark' \in {seen[c] + 1, mark + 1} \cap Cells
  /\ pc' = [pc EXCEPT ![c] = "done"]
  /\ pushed' = Append(pushed, c)
  /\ UNCHANGED <<build, at, seen, cells, start, main, left, ran>>

----------------------------------------------------------------------------
(* Process                                                                 *)

Goto(label) == main' = label

\* ProcessTick calls Process.
Tick ==
  /\ main = "elsewhere"
  /\ Goto("testing")
  /\ UNCHANGED <<build, pc, at, seen, cells, start, mark, left, ran, pushed>>

\* The queue is empty, or twenty milliseconds have passed.
Return ==
  /\ main = "testing"
  /\ Goto("elsewhere")
  /\ UNCHANGED <<build, pc, at, seen, cells, start, mark, left, ran, pushed>>

\* Mutant: takes a queue of one entry for an empty one.
GoOnUnlessOne ==
  /\ main = "testing"
  /\ ~Empty
  /\ start + 1 # End
  /\ Goto("calling")
  /\ UNCHANGED <<build, pc, at, seen, cells, start, mark, left, ran, pushed>>

GoOn ==
  /\ main = "testing"
  /\ ~Empty
  /\ Goto("calling")
  /\ UNCHANGED <<build, pc, at, seen, cells, start, mark, left, ran, pushed>>

\* Calling what was never written ends the server.
Call ==
  /\ main = "calling"
  /\ IF cells[start] # NoCallback
     THEN /\ ran' = Append(ran, cells[start])
          /\ Goto("popping")
     ELSE /\ Goto("crashed")
          /\ UNCHANGED ran
  /\ UNCHANGED <<build, pc, at, seen, cells, start, mark, left, pushed>>

\* Mutant: leaves the entry in the queue.
KeepEntry ==
  /\ main = "popping" /\ build = "linux"
  /\ Goto("testing")
  /\ UNCHANGED <<build, pc, at, seen, cells, start, mark, left, ran, pushed>>

\* Mutant: counts the entry twice.
PopTwice ==
  /\ main = "popping" /\ build = "linux"
  /\ start' = start + 2
  /\ Goto("testing")
  /\ UNCHANGED <<build, pc, at, seen, cells, mark, left, ran, pushed>>

\* Pop on Linux.
Pop ==
  /\ main = "popping" /\ build = "linux"
  /\ start' = start + 1
  /\ Goto("testing")
  /\ UNCHANGED <<build, pc, at, seen, cells, mark, left, ran, pushed>>

\* Pop on Windows reads the number of elements, which pushes write too ...
Decrement ==
  /\ main = "popping" /\ build = "windows"
  /\ left' = mark - 1
  /\ Goto("storing")
  /\ UNCHANGED <<build, pc, at, seen, cells, start, mark, ran, pushed>>

\* ... and writes it back; the last element resets the offset.
Store ==
  /\ main = "storing"
  /\ mark' = left
  /\ start' = IF left = 0 THEN 0 ELSE start + 1
  /\ Goto("testing")
  /\ UNCHANGED <<build, pc, at, seen, cells, left, ran, pushed>>

----------------------------------------------------------------------------
(* Races                                                                   *)

UnderWay(c) == pc[c] \in {"growing", "constructing", "finishing"}

\* Two pushes write the same places, a push and a pop on Windows the same
\* number, or a push replaces the table while the main thread looks a block
\* up in it.  Everything else may happen during a push.
Race ==
  \/ \E c, d \in Callbacks : c # d /\ UnderWay(c) /\ UnderWay(d)
  \/ main = "storing" /\ \E c \in Callbacks : UnderWay(c)
  \/ main = (IF build = "linux" THEN "popping" ELSE "calling")
       /\ \E c \in Callbacks : pc[c] = "growing"

Watch == raced' = (raced \/ Race')

\* A deque that threads have raced on may end the server at any time.
Collapse ==
  /\ raced /\ main # "crashed"
  /\ Goto("crashed")
  /\ UNCHANGED <<build, pc, at, seen, cells, start, mark, left, ran, pushed>>

----------------------------------------------------------------------------
(* Specification                                                           *)

\* What a thread does once it has called push.
Proceed(c) ==
  /\ main # "crashed"
  /\ Grow(c) \/ Construct(c) \/ Finish(c)

Push(c) == (main # "crashed" /\ Begin(c)) \/ Proceed(c)

Process == Tick \/ GoOn \/ Return \/ Call \/ Pop \/ Decrement \/ Store

Next == (Process \/ Collapse \/ \E c \in Callbacks : Push(c)) /\ Watch

Spec == Init /\ [][Next]_vars

\* The server ticks and the threads go on; a tick that finds a callback in
\* the queue is not always out of time before it looks.
Fairness ==
  /\ WF_vars(Process /\ Watch)
  /\ SF_vars(GoOn /\ Watch)
  /\ \A c \in Callbacks : WF_vars(Proceed(c) /\ Watch)

FairSpec == Spec /\ Fairness

----------------------------------------------------------------------------
(* Properties                                                              *)

InQueue(c) ==
  \E i \in Cells : start <= i /\ i < End /\ cells[i] = c

\* The result of a lookup is given in OnCheaterCheckResponse, as
\* BanHandler.h:15 says: what was added was run, or waits in the queue.
\* Nothing in AddCallbackToQueue makes it so.
NothingIsLost ==
  \A c \in Callbacks : pc[c] = "done" => c \in Range(ran) \/ InQueue(c)

\* It takes a race to lose a callback or to call what is not completely
\* written.  The main thread looks at the queue without a lock, in the
\* middle of a push and with the push's writes seen in part, and this alone
\* does no harm; on Linux it may also pop.
DamageNeedsARace == raced \/ (main # "crashed" /\ NothingIsLost)

\* Before a race, callbacks are run in the order in which they were added.
\* One whose push has not ended cannot be run.
RunInOrder ==
  raced \/ (Len(ran) <= Len(pushed) /\ ran = SubSeq(pushed, 1, Len(ran)))

\* Every callback is run after some ticks, unless threads race.
RunUnlessRace ==
  \A c \in Callbacks : UnderWay(c) ~> (c \in Range(ran) \/ raced)

----------------------------------------------------------------------------
(* What the properties rest on                                             *)

\* What holds after a race too: memory behind the last place is never
\* written, and the number of elements is not 0 when pop decrements it.
Bounds ==
  /\ cells[Capacity] = NoCallback
  /\ \A c \in Callbacks : UnderWay(c) => at[c] < Capacity /\ seen[c] < Capacity
  /\ main \in {"popping", "storing"} => cells[start] # NoCallback
  /\ main \in {"calling", "popping"} /\ build = "windows" => mark > 0
  /\ main = "storing" => build = "windows"

\* The first element that was not called.
First == IF main \in {"popping", "storing"} THEN start + 1 ELSE start

\* The entries in the queue are the last ones of pushed.
Window ==
  /\ main # "crashed"
  /\ First <= End /\ End <= Capacity
  /\ main = "calling" => First < End
  /\ main = "storing" => mark = left + 1
  /\ Len(pushed) = Len(ran) + (End - First)
  /\ \A i \in 1..(End - First) : cells[First + i - 1] = pushed[Len(ran) + i]
  /\ \A i \in 1..Len(ran) : ran[i] = pushed[i]
  /\ \A c \in Callbacks : pc[c] = "done" <=> c \in Range(pushed)

\* A push that has not ended writes the place behind them.
OnePush ==
  /\ ~Race
  /\ \A c \in Callbacks : UnderWay(c) => at[c] = End /\ seen[c] = mark
  /\ \A c \in Callbacks : pc[c] = "finishing" => cells[at[c]] = c

BeforeARace == ~raced => Window /\ OnePush

----------------------------------------------------------------------------
(* What the queue promises                                                 *)

Waiting ==
  IF raced THEN <<>> ELSE [i \in 1..(End - First) |-> cells[First + i - 1]]

Queue == INSTANCE CallbackQueue WITH waiting <- Waiting

\* The memory of the deque, which the main thread reads without a lock, is
\* an atomic queue until threads race: nothing is run before it is
\* completely written, nothing twice, and nothing out of order.
AtomicUntilRace == Queue!Spec

=============================================================================
