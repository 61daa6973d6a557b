---------------------------- MODULE BanDelivery ----------------------------
(***************************************************************************)
(* What the ban handler promises about the bans it is asked to report to   *)
(* the web server: every one is settled, those that could not be settled   *)
(* at once in the order in which they were put on the list, and none       *)
(* before the web server has answered.  "Settled" means answered with      *)
(* anything: the handler does not look at the HTTP status.                 *)
(***************************************************************************)
EXTENDS Sequences

CONSTANT Bans  \* the calls of BanHandler::AddCheater

VARIABLES
  asked,    \* bans that were asked for
  backlog,  \* those put aside for later, oldest first
  settled   \* those the web server has answered

vars == <<asked, backlog, settled>>

Listed == {backlog[i] : i \in DOMAIN backlog}

\* Neither settled nor put aside yet.
Open == asked \ (settled \cup Listed)

Init ==
  /\ asked = {}
  /\ backlog = <<>>
  /\ settled = {}

Ask(b) ==
  /\ b \notin asked
  /\ asked' = asked \cup {b}
  /\ UNCHANGED <<backlog, settled>>

SettleAtOnce(b) ==
  /\ b \in Open
  /\ settled' = settled \cup {b}
  /\ UNCHANGED <<asked, backlog>>

PutAside(b) ==
  /\ b \in Open
  /\ backlog' = Append(backlog, b)
  /\ UNCHANGED <<asked, settled>>

SettleOldest ==
  /\ backlog # <<>>
  /\ settled' = settled \cup {Head(backlog)}
  /\ backlog' = Tail(backlog)
  /\ UNCHANGED asked

Next ==
  \/ \E b \in Bans : Ask(b) \/ SettleAtOnce(b) \/ PutAside(b)
  \/ SettleOldest

Safe == Init /\ [][Next]_vars

Fairness ==
  /\ \A b \in Bans : WF_vars(SettleAtOnce(b) \/ PutAside(b))
  /\ WF_vars(SettleOldest)

Spec == Safe /\ Fairness

=============================================================================
