--------------------------- MODULE CallbackQueue ---------------------------
(***************************************************************************)
(* What CThreadSync promises to those that hand it callbacks: a queue with *)
(* atomic operations, out of which the main thread runs each callback      *)
(* once, in the order in which they were added.  Since nothing locks the   *)
(* queue, the promise ends when threads race.                              *)
(***************************************************************************)
EXTENDS Sequences

CONSTANT Callbacks  \* each stands for one call of AddCallbackToQueue

VARIABLES
  waiting,  \* callbacks that were added and not run, oldest first
  ran,      \* those the main thread has run, in order
  raced     \* whether the promise has ended

vars == <<waiting, ran, raced>>

\* A callback is added by one call, so that it is not in either list before.
IsNew(c) == \A s \in {waiting, ran} : \A i \in DOMAIN s : s[i] # c

Init == waiting = <<>> /\ ran = <<>> /\ raced = FALSE

Add(c) ==
  /\ IsNew(c)
  /\ waiting' = Append(waiting, c)
  /\ UNCHANGED <<ran, raced>>

RunOldest ==
  /\ waiting # <<>>
  /\ ran' = Append(ran, Head(waiting))
  /\ waiting' = Tail(waiting)
  /\ UNCHANGED raced

\* What becomes of the callbacks is open, and stays so.
Break == raced'

Next == Break \/ RunOldest \/ \E c \in Callbacks : Add(c)

Spec == Init /\ [][Next]_vars

=============================================================================
