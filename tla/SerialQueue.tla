---------------------------- MODULE SerialQueue -----------------------------
(***************************************************************************)
(* What the engine expects of its queue: for each auction the tasks run    *)
(* one at a time, in the order in which they were submitted, and every     *)
(* submitted task runs, whether the ones before it succeed or fail.        *)
(* Different auctions do not wait for each other.                          *)
(***************************************************************************)
EXTENDS Sequences

CONSTANTS Task,       \* the calls of run
          Auction,
          AuctionOf,  \* the auction each call is for
          NoTask

VARIABLES waiting,  \* waiting[a]: tasks not yet started, oldest first
          active    \* active[a]: the task that runs, or NoTask

vars == <<waiting, active>>

Init ==
  /\ waiting = [a \in Auction |-> <<>>]
  /\ active = [a \in Auction |-> NoTask]

Submit(t) ==
  /\ waiting' = [waiting EXCEPT ![AuctionOf[t]] = Append(@, t)]
  /\ UNCHANGED active

Start(a) ==
  /\ active[a] = NoTask /\ waiting[a] # <<>>
  /\ active' = [active EXCEPT ![a] = Head(waiting[a])]
  /\ waiting' = [waiting EXCEPT ![a] = Tail(@)]

End(a) ==
  /\ active[a] # NoTask
  /\ active' = [active EXCEPT ![a] = NoTask]
  /\ UNCHANGED waiting

Next == (\E t \in Task : Submit(t)) \/ (\E a \in Auction : Start(a) \/ End(a))

\* Every task runs in its turn.
Order == Init /\ [][Next]_vars

\* Tasks end, and a waiting task starts once its turn has come.
Spec == Order /\ \A a \in Auction : WF_vars(Start(a)) /\ WF_vars(End(a))
=============================================================================
