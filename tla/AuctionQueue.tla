---------------------------- MODULE AuctionQueue ----------------------------
(***************************************************************************)
(* AuctionQueueService of one API process: a map from auctions to the tail *)
(* of a promise chain.  run(auctionId, task) hangs the task behind the     *)
(* tail it finds, becomes the tail itself, and removes its entry when it   *)
(* has settled and is still the tail.  A task is one call of run; its      *)
(* promise nextTask is the task's identity in the map.                     *)
(*                                                                         *)
(* Between the moment a task settles and the moment its finally callback   *)
(* runs, other code may call run: the two are separate steps here.         *)
(*                                                                         *)
(* MayStart and TailsAfter are preceded by variants with a mistake in      *)
(* them, used by no action; the README says what each of them breaks.      *)
(***************************************************************************)
EXTENDS Naturals, Sequences

CONSTANTS Task,       \* the calls of run, each made at most once
          Auction,
          AuctionOf,  \* the auction each call is for
          NoTask      \* no promise: nothing to wait for

ASSUME QueueAssumption == AuctionOf \in [Task -> Auction] /\ NoTask \notin Task

VARIABLES
  tails,   \* tails[a]: the entry of a, or NoTask when there is none
  behind,  \* behind[t]: the tail t found (previousTail)
  stage,   \* how far t is: "new", "waiting", "running", "settled" or "done"
  failed,  \* tasks that rejected
  ticket,  \* history: ticket[t] numbers the calls for one auction, from 1
  issued,  \* history: issued[a] calls were made for a
  begun    \* history: begun[a] of them were started

vars == <<tails, behind, stage, failed, ticket, issued, begun>>

Stage == {"new", "waiting", "running", "settled", "done"}

Init ==
  /\ tails = [a \in Auction |-> NoTask]
  /\ behind = [t \in Task |-> NoTask]
  /\ stage = [t \in Task |-> "new"]
  /\ failed = {}
  /\ ticket = [t \in Task |-> 0]
  /\ issued = [a \in Auction |-> 0] /\ begun = [a \in Auction |-> 0]

SetStage(t, s) == stage' = [stage EXCEPT ![t] = s]

Run(t) ==
  /\ stage[t] = "new" /\ SetStage(t, "waiting")
  /\ behind' = [behind EXCEPT ![t] = tails[AuctionOf[t]]]
  /\ tails' = [tails EXCEPT ![AuctionOf[t]] = t]
  /\ issued' = [issued EXCEPT ![AuctionOf[t]] = @ + 1]
  /\ ticket' = [ticket EXCEPT ![t] = issued[AuctionOf[t]] + 1]
  /\ UNCHANGED <<failed, begun>>

\* previousTail.catch(() => undefined).then(task): a predecessor counts as
\* finished when its own chain, finally included, is, however it ended.
MayStartAfterSuccess(t) ==
  behind[t] # NoTask => stage[behind[t]] = "done" /\ behind[t] \notin failed
MayStartWhenPredecessorStarted(t) ==
  behind[t] # NoTask => stage[behind[t]] \notin {"new", "waiting"}
MayStart(t) == behind[t] # NoTask => stage[behind[t]] = "done"

StartTask(t) ==
  /\ stage[t] = "waiting" /\ MayStart(t) /\ SetStage(t, "running")
  /\ begun' = [begun EXCEPT ![AuctionOf[t]] = @ + 1]
  /\ UNCHANGED <<tails, behind, failed, ticket, issued>>

\* The task's promise resolves or rejects.
Settle(t) ==
  /\ stage[t] = "running" /\ SetStage(t, "settled")
  /\ failed' \in {failed, failed \union {t}}
  /\ UNCHANGED <<tails, behind, ticket, issued, begun>>

\* The finally callback: forget the chain unless somebody hung on to it.
TailsAfterAlwaysDeleting(t) == [tails EXCEPT ![AuctionOf[t]] = NoTask]
TailsAfter(t) ==
  IF tails[AuctionOf[t]] = t THEN [tails EXCEPT ![AuctionOf[t]] = NoTask] ELSE tails

Cleanup(t) ==
  /\ stage[t] = "settled" /\ SetStage(t, "done")
  /\ tails' = TailsAfter(t)
  /\ UNCHANGED <<behind, failed, ticket, issued, begun>>

Next == \E t \in Task : Run(t) \/ StartTask(t) \/ Settle(t) \/ Cleanup(t)

Spec == Init /\ [][Next]_vars

\* The event loop runs every ready callback, and tasks settle.
FairSpec == Spec /\ \A t \in Task : WF_vars(StartTask(t) \/ Settle(t) \/ Cleanup(t))

-----------------------------------------------------------------------------
(* Properties. *)

TypeOK ==
  /\ tails \in [Auction -> Task \union {NoTask}]
  /\ behind \in [Task -> Task \union {NoTask}]
  /\ stage \in [Task -> Stage]
  /\ failed \subseteq Task
  /\ ticket \in [Task -> Nat]
  /\ issued \in [Auction -> Nat] /\ begun \in [Auction -> Nat]

SameAuction(t, u) == AuctionOf[t] = AuctionOf[u]

\* Tasks of one auction never overlap, not even when a call of run falls
\* between the end of a task and the cleanup of its entry.
MutualExclusion ==
  \A t, u \in Task :
    t # u /\ SameAuction(t, u) => ~(stage[t] = "running" /\ stage[u] = "running")

\* When a task runs, every earlier call for its auction is over.
FirstComeFirstServed ==
  \A t, u \in Task :
    SameAuction(t, u) /\ ticket[t] < ticket[u] /\ stage[t] # "new" /\ stage[u] = "running"
      => stage[t] = "done"

\* The map holds an entry exactly for the auctions with calls under way: it
\* neither grows with finished auctions nor forgets one that is busy.
EntriesAreLive ==
  \A a \in Auction :
    tails[a] # NoTask <=>
      \E t \in Task : AuctionOf[t] = a /\ stage[t] \in {"waiting", "running", "settled"}

\* The promise chains are a serial queue: first come, first served, one at a
\* time, and nobody waits for ever, failures included.  The n-th call for an
\* auction waits while n is above the number of those begun, and the last one
\* begun is the one that runs, if any does.
Nth(a, n) == CHOOSE t \in Task : AuctionOf[t] = a /\ ticket[t] = n

Waiting(a) == [i \in 1..(issued[a] - begun[a]) |-> Nth(a, begun[a] + i)]

Active(a) ==
  IF begun[a] > 0 /\ stage[Nth(a, begun[a])] = "running" THEN Nth(a, begun[a]) ELSE NoTask

Serial == INSTANCE SerialQueue
  WITH waiting <- [a \in Auction |-> Waiting(a)], active <- [a \in Auction |-> Active(a)]
ImplementsSerialQueue == Serial!Spec
=============================================================================
