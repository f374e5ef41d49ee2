------------------------- MODULE AuctionQueueProofs -------------------------
(***************************************************************************)
(* Mutual exclusion, order, the map's entries and the refinement of        *)
(* SerialQueue, for any number of calls and auctions.  The invariant Chain *)
(* says that the calls of an auction which are not over form one line in   *)
(* the order of their tickets, whose last element is the map's entry.      *)
(***************************************************************************)
EXTENDS AuctionQueue, SequenceTheorems, TLAPS

\* t was called before u, for the same auction.
Before(t, u) ==
  /\ SameAuction(t, u) /\ stage[t] # "new" /\ stage[u] # "new"
  /\ ticket[t] < ticket[u]

\* The calls for an auction are numbered from 1 to issued, each number once.
Tickets ==
  /\ \A t \in Task :
       IF stage[t] = "new" THEN ticket[t] = 0 ELSE ticket[t] \in 1..issued[AuctionOf[t]]
  /\ \A t, u \in Task :
       SameAuction(t, u) /\ ticket[t] = ticket[u] /\ ticket[t] # 0 => t = u
  /\ \A a \in Auction : \A n \in 1..issued[a] :
       \E t \in Task : AuctionOf[t] = a /\ ticket[t] = n

\* The calls that were begun are the first ones.
Begun ==
  /\ \A a \in Auction : begun[a] <= issued[a]
  /\ \A t \in Task : stage[t] = "waiting" <=> ticket[t] > begun[AuctionOf[t]]

\* What a call hangs on is the call right before it; without one, all earlier
\* calls are over, as they are once the call runs.
Chain ==
  /\ \A t \in Task : stage[t] # "new" /\ behind[t] # NoTask =>
       /\ Before(behind[t], t)
       /\ \A u \in Task : Before(u, t) => u = behind[t] \/ Before(u, behind[t])
  /\ \A t, u \in Task : Before(u, t) /\ (behind[t] = NoTask \/ stage[t] # "waiting") =>
       stage[u] = "done"

\* The map's entry is the last call of the auction and is not over; without
\* an entry all calls are over.
Tails ==
  \A a \in Auction :
    /\ tails[a] # NoTask =>
         /\ tails[a] \in Task /\ AuctionOf[tails[a]] = a
         /\ stage[tails[a]] \notin {"new", "done"}
         /\ \A u \in Task : AuctionOf[u] = a /\ stage[u] # "new" =>
              u = tails[a] \/ Before(u, tails[a])
    /\ tails[a] = NoTask =>
         \A u \in Task : AuctionOf[u] = a => stage[u] \in {"new", "done"}

QInv == TypeOK /\ Tickets /\ Begun /\ Chain /\ Tails

LEMMA InitQInv == Init => QInv
BY QueueAssumption DEF Init, QInv, TypeOK, Stage, Tickets, Begun, Chain, Tails, Before

LEMMA RunStep ==
  ASSUME QInv, NEW t \in Task, Run(t)
  PROVE  QInv'
<1> DEFINE a == AuctionOf[t]
<1>0. a \in Auction /\ NoTask \notin Task
  BY QueueAssumption
<1> USE QueueAssumption DEF Run, SetStage
<1>1. TypeOK'
  <2>1. tails[a] \in Task \union {NoTask} /\ issued[a] + 1 \in Nat
    BY <1>0 DEF QInv, TypeOK
  <2>2. /\ tails' \in [Auction -> Task \union {NoTask}]
        /\ behind' \in [Task -> Task \union {NoTask}]
    BY <2>1 DEF QInv, TypeOK
  <2>3. /\ stage' \in [Task -> Stage] /\ ticket' \in [Task -> Nat]
        /\ issued' \in [Auction -> Nat]
    BY <2>1 DEF QInv, TypeOK, Stage
  <2> QED
    BY <2>1, <2>2, <2>3 DEF QInv, TypeOK
\* t gets the next number of its auction.
<1>2. /\ ticket'[t] = issued[a] + 1 /\ issued'[a] = issued[a] + 1 /\ stage'[t] = "waiting"
      /\ \A u \in Task \ {t} : ticket'[u] = ticket[u] /\ stage'[u] = stage[u]
      /\ \A b \in Auction \ {a} : issued'[b] = issued[b]
      /\ begun' = begun
  BY <1>0 DEF QInv, TypeOK
<1>3. /\ ticket[t] = 0 /\ issued[a] \in Nat
      /\ \A u \in Task : ticket[u] # 0 => ticket[u] \in 1..issued[AuctionOf[u]]
      /\ \A u \in Task : stage[u] # "new" => ticket[u] \in 1..issued[AuctionOf[u]]
  BY <1>0 DEF QInv, TypeOK, Tickets
<1>4. Tickets' /\ Begun'
  <2>1. Tickets'
    <3>1. ASSUME NEW u \in Task
          PROVE  (IF stage[u] = "new" THEN ticket[u] = 0
                  ELSE ticket[u] \in 1..issued[AuctionOf[u]])'
      BY <1>2, <1>3 DEF QInv, TypeOK, Tickets
    <3>2. ASSUME NEW u \in Task, NEW v \in Task, SameAuction(u, v),
                 ticket'[u] = ticket'[v], ticket'[u] # 0
          PROVE  u = v
      BY <1>2, <1>3, <3>2 DEF QInv, Tickets, SameAuction
    <3>3. ASSUME NEW b \in Auction, NEW n \in 1..issued'[b]
          PROVE  \E u \in Task : AuctionOf[u] = b /\ ticket'[u] = n
      <4>1. CASE b = a /\ n = issued[a] + 1
        BY <1>2, <4>1
      <4>2. CASE ~(b = a /\ n = issued[a] + 1)
        <5>1. n \in 1..issued[b]
          BY <1>2, <1>3, <3>3, <4>2
        <5>2. PICK u \in Task : AuctionOf[u] = b /\ ticket[u] = n
          BY <5>1 DEF QInv, Tickets
        <5> QED
          BY <1>2, <1>3, <5>1, <5>2
      <4> QED
        BY <4>1, <4>2
    <3> QED
      BY <3>1, <3>2, <3>3 DEF Tickets, SameAuction
  <2>2. Begun'
    BY <1>0, <1>2, <1>3 DEF QInv, TypeOK, Begun
  <2> QED
    BY <2>1, <2>2
<1>5. \A u, v \in Task : u # t /\ v # t => (Before(u, v)' <=> Before(u, v))
  BY DEF QInv, TypeOK, Before, SameAuction
<1>6. \A u \in Task : ~Before(t, u)'
  BY <1>2, <1>3 DEF QInv, TypeOK, Before, SameAuction
<1>7. \A u \in Task : Before(u, t)' <=> u # t /\ AuctionOf[u] = a /\ stage[u] # "new"
  BY <1>2, <1>3 DEF QInv, TypeOK, Before, SameAuction
<1>8. Chain'
  <2>1. ASSUME NEW u \in Task, stage'[u] # "new", behind'[u] # NoTask
        PROVE  (/\ Before(behind[u], u)
                /\ \A v \in Task : Before(v, u) => v = behind[u] \/ Before(v, behind[u]))'
    <3>1. CASE u = t
      <4>1. PICK p \in Task : p = tails[a] /\ p # t /\ behind'[t] = p
        <5>1. behind'[t] = tails[a]
          BY DEF QInv, TypeOK
        <5>2. tails[a] # NoTask
          BY <2>1, <3>1, <5>1
        <5> QED
          BY <1>0, <5>1, <5>2 DEF QInv, Tails
      <4>2. AuctionOf[p] = a /\ stage[p] # "new"
        BY <4>1 DEF QInv, Tails
      <4>3. Before(p, t)'
        BY <1>7, <4>1, <4>2
      <4>4. \A v \in Task : Before(v, t)' => v = p \/ Before(v, p)'
        BY <1>5, <1>7, <4>1 DEF QInv, Tails
      <4> QED
        BY <3>1, <4>1, <4>3, <4>4 DEF Before
    <3>2. CASE u # t
      <4>1. PICK p \in Task : p = behind[u] /\ p = behind'[u]
        BY <2>1, <3>2 DEF QInv, TypeOK
      <4>2. stage[u] # "new" /\ p # NoTask
        BY <2>1, <3>2, <4>1 DEF QInv, TypeOK
      <4>3. Before(p, u) /\ \A v \in Task : Before(v, u) => v = p \/ Before(v, p)
        BY <4>1, <4>2 DEF QInv, Chain
      <4>4. p # t
        BY <4>3 DEF Before
      <4>5. Before(p, u)' /\ \A v \in Task : Before(v, u)' => v = p \/ Before(v, p)'
        BY <1>5, <1>6, <3>2, <4>3, <4>4
      <4> QED
        BY <4>1, <4>5 DEF Before
    <3> QED
      BY <3>1, <3>2
  <2>2. ASSUME NEW u \in Task, NEW v \in Task, Before(v, u)',
               behind'[u] = NoTask \/ stage'[u] # "waiting"
        PROVE  stage'[v] = "done"
    <3>1. CASE u = t
      <4>1. tails[a] = NoTask
        BY <2>2, <3>1, <1>2 DEF QInv, TypeOK
      <4>2. v # t /\ AuctionOf[v] = a /\ stage[v] # "new"
        BY <1>7, <2>2, <3>1
      <4> QED
        BY <1>0, <1>2, <4>1, <4>2 DEF QInv, Tails
    <3>2. CASE u # t
      BY <1>5, <1>6, <2>2, <3>2 DEF QInv, TypeOK, Chain
    <3> QED
      BY <3>1, <3>2
  <2> QED
    BY <2>1, <2>2 DEF Chain
<1>9. Tails'
  <2>1. ASSUME NEW b \in Auction, b # a
        PROVE  /\ tails'[b] = tails[b]
               /\ \A u \in Task : AuctionOf[u] = b => u # t /\ stage'[u] = stage[u]
    BY <2>1 DEF QInv, TypeOK
  <2>2. tails'[a] = t /\ stage'[t] = "waiting"
    BY DEF QInv, TypeOK
  <2>3. \A u \in Task : AuctionOf[u] = a /\ stage'[u] # "new" => u = t \/ Before(u, t)'
    BY <1>7 DEF QInv, TypeOK
  <2> QED
    BY <1>5, <2>1, <2>2, <2>3 DEF QInv, Tails
<1> QED
  BY <1>1, <1>4, <1>8, <1>9 DEF QInv

\* The steps that only move a call on: its place in the line stays.
LEMMA MoveStep ==
  ASSUME QInv, NEW t \in Task, NEW s \in Stage \ {"new"}, SetStage(t, s), stage[t] # "new",
         UNCHANGED <<behind, ticket, issued>>
  PROVE  /\ stage' \in [Task -> Stage] /\ Tickets'
         /\ \A u, v \in Task : Before(u, v)' <=> Before(u, v)
         /\ \A u \in Task \ {t} : stage'[u] = stage[u]
         /\ stage'[t] = s
         /\ \A u \in Task : stage'[u] = "new" <=> stage[u] = "new"
BY DEF QInv, TypeOK, SetStage, Tickets, Before, SameAuction

\* A call that waits behind none but calls that are over is the next one.
LEMMA StartsNext ==
  ASSUME QInv, NEW t \in Task, stage[t] = "waiting",
         \A u \in Task : Before(u, t) => stage[u] = "done"
  PROVE  ticket[t] = begun[AuctionOf[t]] + 1
<1> DEFINE a == AuctionOf[t]
           n == ticket[t]
<1>1. a \in Auction /\ begun[a] \in Nat /\ n \in 1..issued[a] /\ n > begun[a]
  BY QueueAssumption DEF QInv, TypeOK, Tickets, Begun
<1>2. SUFFICES ASSUME n > begun[a] + 1 PROVE FALSE
  BY <1>1
<1>3. n - 1 \in 1..issued[a] /\ n - 1 > begun[a] /\ n - 1 < n /\ n - 1 # 0
  BY <1>1, <1>2 DEF QInv, TypeOK
<1>4. PICK u \in Task : AuctionOf[u] = a /\ ticket[u] = n - 1
  BY <1>1, <1>3 DEF QInv, Tickets
<1>5. Before(u, t) /\ stage[u] = "waiting"
  BY <1>3, <1>4 DEF QInv, Tickets, Begun, Before, SameAuction
<1> QED
  BY <1>5

LEMMA StartStep ==
  ASSUME QInv, NEW t \in Task, StartTask(t)
  PROVE  QInv'
<1> USE DEF StartTask
<1>1. /\ stage' \in [Task -> Stage] /\ Tickets'
      /\ \A u, v \in Task : Before(u, v)' <=> Before(u, v)
      /\ \A u \in Task \ {t} : stage'[u] = stage[u]
      /\ stage'[t] = "running"
      /\ \A u \in Task : stage'[u] = "new" <=> stage[u] = "new"
  BY MoveStep DEF Stage
<1>2. TypeOK'
  BY <1>1, QueueAssumption DEF QInv, TypeOK
\* The predecessor is over, hence so are all calls before it.
<1>3. \A u \in Task : Before(u, t) => stage[u] = "done"
  <2>1. CASE behind[t] = NoTask
    BY <2>1 DEF QInv, Chain
  <2>2. CASE behind[t] # NoTask
    <3>1. stage[behind[t]] = "done" /\ behind[t] \in Task
      BY <2>2 DEF MayStart, QInv, TypeOK
    <3> QED
      BY <2>2, <3>1 DEF QInv, Chain
  <2> QED
    BY <2>1, <2>2
<1>4. Chain'
  <2>1. ASSUME NEW u \in Task, NEW v \in Task, Before(v, u)',
               behind'[u] = NoTask \/ stage'[u] # "waiting"
        PROVE  stage'[v] = "done"
    <3>1. stage[v] = "done"
      BY <1>1, <1>3, <2>1 DEF QInv, Chain
    <3> QED
      BY <1>1, <3>1
  <2> QED
    BY <1>1, <2>1 DEF QInv, TypeOK, Chain
<1>5. Tails'
  BY <1>1 DEF QInv, TypeOK, Tails
<1>6. Begun'
  <2> DEFINE a == AuctionOf[t]
  <2>1. a \in Auction /\ begun[a] \in Nat /\ ticket[t] \in 1..issued[a]
    BY QueueAssumption DEF QInv, TypeOK, Tickets
  <2>2. ticket[t] = begun[a] + 1
    BY <1>3, StartsNext
  <2>3. begun'[a] = begun[a] + 1 /\ \A b \in Auction \ {a} : begun'[b] = begun[b]
    BY <2>1 DEF QInv, TypeOK
  <2>4. ASSUME NEW u \in Task, u # t, AuctionOf[u] = a
        PROVE  ticket[u] # begun[a] + 1
    BY <2>1, <2>2, <2>4 DEF QInv, Tickets, SameAuction
  <2>5. ASSUME NEW u \in Task
        PROVE  stage'[u] = "waiting" <=> ticket[u] > begun'[AuctionOf[u]]
    <3>1. AuctionOf[u] \in Auction /\ ticket[u] \in Nat
      BY QueueAssumption DEF QInv, TypeOK
    <3>2. CASE u = t
      BY <1>1, <2>1, <2>2, <2>3, <3>2
    <3>3. CASE u # t
      BY <1>1, <2>1, <2>3, <2>4, <3>1, <3>3 DEF QInv, Begun
    <3> QED
      BY <3>2, <3>3
  <2> QED
    BY <2>1, <2>2, <2>3, <2>5 DEF QInv, TypeOK, Begun
<1> QED
  BY <1>1, <1>2, <1>4, <1>5, <1>6 DEF QInv

LEMMA SettleStep ==
  ASSUME QInv, NEW t \in Task, Settle(t)
  PROVE  QInv'
<1> USE DEF Settle
<1>1. /\ stage' \in [Task -> Stage] /\ Tickets'
      /\ \A u, v \in Task : Before(u, v)' <=> Before(u, v)
      /\ \A u \in Task \ {t} : stage'[u] = stage[u]
      /\ stage'[t] = "settled"
      /\ \A u \in Task : stage'[u] = "new" <=> stage[u] = "new"
  BY MoveStep DEF Stage
<1>2. TypeOK'
  BY <1>1 DEF QInv, TypeOK
<1>3. Chain'
  <2>1. ASSUME NEW u \in Task, NEW v \in Task, Before(v, u)',
               behind'[u] = NoTask \/ stage'[u] # "waiting"
        PROVE  stage'[v] = "done"
    <3>1. stage[v] = "done"
      BY <1>1, <2>1 DEF QInv, Chain
    <3> QED
      BY <1>1, <3>1
  <2> QED
    BY <1>1, <2>1 DEF QInv, TypeOK, Chain
<1>4. Tails'
  BY <1>1 DEF QInv, TypeOK, Tails
<1>5. Begun'
  BY <1>1 DEF QInv, Begun
<1> QED
  BY <1>1, <1>2, <1>3, <1>4, <1>5 DEF QInv

LEMMA CleanupStep ==
  ASSUME QInv, NEW t \in Task, Cleanup(t)
  PROVE  QInv'
<1> DEFINE a == AuctionOf[t]
<1> USE QueueAssumption DEF Cleanup, TailsAfter
<1>1. /\ stage' \in [Task -> Stage] /\ Tickets'
      /\ \A u, v \in Task : Before(u, v)' <=> Before(u, v)
      /\ \A u \in Task \ {t} : stage'[u] = stage[u]
      /\ stage'[t] = "done"
      /\ \A u \in Task : stage'[u] = "new" <=> stage[u] = "new"
  BY MoveStep DEF Stage
<1>2. TypeOK'
  BY <1>1 DEF QInv, TypeOK
<1>3. Chain'
  <2>1. ASSUME NEW u \in Task, NEW v \in Task, Before(v, u)',
               behind'[u] = NoTask \/ stage'[u] # "waiting"
        PROVE  stage'[v] = "done"
    <3>1. stage[v] = "done"
      BY <1>1, <2>1 DEF QInv, Chain
    <3> QED
      BY <1>1, <3>1
  <2> QED
    BY <1>1, <2>1 DEF QInv, TypeOK, Chain
<1>4. Tails'
  <2>1. CASE tails[a] = t
    <3>1. tails' = [tails EXCEPT ![a] = NoTask]
      BY <2>1
    \* t was the last call and runs no more: all calls of a are over.
    <3>2. \A u \in Task : AuctionOf[u] = a => stage'[u] \in {"new", "done"}
      <4>1. \A u \in Task : Before(u, t) => stage[u] = "done"
        BY DEF QInv, Chain
      <4> QED
        BY <1>1, <2>1, <4>1 DEF QInv, Tails
    <3>3. \A b \in Auction \ {a} : tails'[b] = tails[b] /\ tails[b] # t
      BY <2>1, <3>1 DEF QInv, TypeOK, Tails
    <3> QED
      BY <1>1, <3>1, <3>2, <3>3 DEF QInv, TypeOK, Tails
  <2>2. CASE tails[a] # t
    <3>1. tails' = tails /\ \A b \in Auction : tails[b] # t
      BY <2>2 DEF QInv, Tails
    <3> QED
      BY <1>1, <3>1 DEF QInv, TypeOK, Tails
  <2> QED
    BY <2>1, <2>2
<1>5. Begun'
  BY <1>1 DEF QInv, Begun
<1> QED
  BY <1>1, <1>2, <1>3, <1>4, <1>5 DEF QInv

LEMMA NextQInv == QInv /\ [Next]_vars => QInv'
<1>1. QInv /\ UNCHANGED vars => QInv'
  BY DEF vars, QInv, TypeOK, Tickets, Begun, Chain, Tails, Before
<1> QED
  BY <1>1, RunStep, StartStep, SettleStep, CleanupStep DEF Next

\* The calls of an auction that are not over hang on each other in the order
\* of their tickets, and the entry of the map is the last (AuctionBidQueue.run).
THEOREM QueueInvariance == Spec => []QInv
BY InitQInv, NextQInv, PTL DEF Spec

\* Tasks of one auction never overlap, however their calls, ends and cleanups
\* interleave (AuctionQueueService.run).
THEOREM OneTaskAtATime == Spec => []MutualExclusion
<1>1. QInv => MutualExclusion
  BY DEF QInv, TypeOK, Tickets, Chain, Before, MutualExclusion, SameAuction
<1> QED
  BY <1>1, QueueInvariance, PTL

\* A running task has no earlier call of its auction still under way.
THEOREM InOrder == Spec => []FirstComeFirstServed
<1>1. QInv => FirstComeFirstServed
  BY DEF QInv, Chain, Before, FirstComeFirstServed
<1> QED
  BY <1>1, QueueInvariance, PTL

\* The map holds entries for exactly the auctions with calls under way.
THEOREM NoLeakedEntry == Spec => []EntriesAreLive
<1>1. QInv => EntriesAreLive
  BY DEF QInv, TypeOK, Tails, Stage, EntriesAreLive
<1> QED
  BY <1>1, QueueInvariance, PTL
-----------------------------------------------------------------------------
(* The promise chains implement the serial queue: Run submits, StartTask     *)
(* starts, Settle ends, and the cleanup of an entry is a stutter.            *)

\* What waits and what runs, said of the calls instead of the mapping.
MapOK ==
  \A a \in Auction :
    /\ Waiting(a) \in Seq(Task) /\ Len(Waiting(a)) = issued[a] - begun[a]
    /\ \A t \in Task : AuctionOf[t] = a /\ stage[t] = "waiting" =>
         Waiting(a)[ticket[t] - begun[a]] = t
    /\ Active(a) \in Task \union {NoTask}
    /\ \A t \in Task : Active(a) = t <=> AuctionOf[t] = a /\ stage[t] = "running"

LEMMA NthIs ==
  ASSUME QInv, NEW t \in Task, ticket[t] # 0
  PROVE  Nth(AuctionOf[t], ticket[t]) = t
BY DEF QInv, Tickets, SameAuction, Nth

LEMMA NthExists ==
  ASSUME QInv, NEW a \in Auction, NEW n \in 1..issued[a]
  PROVE  Nth(a, n) \in Task /\ AuctionOf[Nth(a, n)] = a /\ ticket[Nth(a, n)] = n
BY DEF QInv, Tickets, Nth

\* The one that runs is the last one begun.
LEMMA RunningIsLast ==
  ASSUME QInv, NEW t \in Task, stage[t] = "running"
  PROVE  /\ ticket[t] = begun[AuctionOf[t]] /\ ticket[t] > 0
         /\ Nth(AuctionOf[t], begun[AuctionOf[t]]) = t
<1> DEFINE a == AuctionOf[t]
<1>1. a \in Auction /\ begun[a] \in Nat /\ issued[a] \in Nat /\ begun[a] <= issued[a]
  BY QueueAssumption DEF QInv, TypeOK, Begun
<1>2. ticket[t] \in 1..issued[a] /\ ticket[t] <= begun[a]
  BY <1>1 DEF QInv, Tickets, Begun
<1>3. ticket[t] = begun[a]
  <2>1. SUFFICES ASSUME ticket[t] < begun[a] PROVE FALSE
    BY <1>1, <1>2
  <2>2. PICK u \in Task : AuctionOf[u] = a /\ ticket[u] = begun[a]
    BY <1>1, <1>2, <2>1 DEF QInv, Tickets
  <2>3. stage[u] # "new" /\ stage[u] # "waiting"
    BY <1>1, <1>2, <2>1, <2>2 DEF QInv, Tickets, Begun
  <2>4. Before(t, u)
    BY <2>1, <2>2, <2>3 DEF Before, SameAuction
  <2> QED
    BY <2>3, <2>4 DEF QInv, Chain
<1> QED
  BY <1>1, <1>2, <1>3, NthIs

LEMMA Mapped == QInv => MapOK
<1> SUFFICES ASSUME QInv, NEW a \in Auction
             PROVE  /\ Waiting(a) \in Seq(Task) /\ Len(Waiting(a)) = issued[a] - begun[a]
                    /\ \A t \in Task : AuctionOf[t] = a /\ stage[t] = "waiting" =>
                         Waiting(a)[ticket[t] - begun[a]] = t
                    /\ Active(a) \in Task \union {NoTask}
                    /\ \A t \in Task :
                         Active(a) = t <=> AuctionOf[t] = a /\ stage[t] = "running"
  BY DEF MapOK
<1>1. begun[a] \in Nat /\ issued[a] \in Nat /\ begun[a] <= issued[a]
  BY DEF QInv, TypeOK, Begun
<1>2. PICK n \in Nat : n = issued[a] - begun[a]
  BY <1>1
<1>3. \A i \in 1..n : Nth(a, begun[a] + i) \in Task
  BY <1>1, <1>2, NthExists
<1>4. Waiting(a) = [i \in 1..n |-> Nth(a, begun[a] + i)]
  BY <1>2 DEF Waiting
<1>5. Waiting(a) \in Seq(Task) /\ Len(Waiting(a)) = n
  BY <1>3, <1>4
<1>6. ASSUME NEW t \in Task, AuctionOf[t] = a, stage[t] = "waiting"
      PROVE  Waiting(a)[ticket[t] - begun[a]] = t
  <2>1. ticket[t] \in 1..issued[a] /\ ticket[t] > begun[a]
    BY <1>6 DEF QInv, Tickets, Begun
  <2>2. PICK i \in 1..n : ticket[t] = begun[a] + i /\ i = ticket[t] - begun[a]
    BY <1>1, <1>2, <2>1
  <2>3. Nth(a, begun[a] + i) = t
    BY <1>6, <2>1, <2>2, NthIs
  <2> QED
    BY <1>4, <2>2, <2>3
<1>7. Active(a) \in Task \union {NoTask}
  BY <1>1, NthExists DEF Active
<1>8. ASSUME NEW t \in Task PROVE Active(a) = t <=> AuctionOf[t] = a /\ stage[t] = "running"
  <2>1. ASSUME Active(a) = t PROVE AuctionOf[t] = a /\ stage[t] = "running"
    BY <1>1, <2>1, NthExists, QueueAssumption DEF Active
  <2>2. ASSUME AuctionOf[t] = a, stage[t] = "running" PROVE Active(a) = t
    BY <2>2, RunningIsLast DEF Active
  <2> QED
    BY <2>1, <2>2
<1> QED
  BY <1>2, <1>5, <1>6, <1>7, <1>8

LEMMA MappedNext == QInv' => MapOK'
BY Mapped, PTL

LEMMA InitOrder == Init => Serial!Init
<1> SUFFICES ASSUME Init PROVE Serial!Init
  OBVIOUS
<1>1. ASSUME NEW a \in Auction PROVE Waiting(a) = <<>> /\ Active(a) = NoTask
  <2>1. issued[a] = 0 /\ begun[a] = 0
    BY DEF Init
  <2>2. Waiting(a) \in Seq(Task) /\ Len(Waiting(a)) = 0
    BY InitQInv, Mapped, <2>1 DEF MapOK
  <2> QED
    BY <2>1, <2>2 DEF Active
<1> QED
  BY <1>1 DEF Serial!Init

\* Two states in which the same calls wait for an auction show the same queue.
LEMMA SameWaiting ==
  ASSUME QInv, QInv', NEW a \in Auction, UNCHANGED <<ticket, issued[a], begun[a]>>
  PROVE  Waiting(a)' = Waiting(a)
BY DEF Waiting, Nth

LEMMA SameActive ==
  ASSUME QInv, QInv', NEW a \in Auction,
         \A t \in Task : AuctionOf[t] = a =>
           (stage'[t] = "running" <=> stage[t] = "running")
  PROVE  Active(a)' = Active(a)
<1>1. MapOK /\ MapOK'
  BY Mapped, MappedNext
<1>2. Active(a) \in Task \union {NoTask} /\ Active(a)' \in Task \union {NoTask}
  BY <1>1 DEF MapOK
<1>3. \A t \in Task : Active(a) = t <=> AuctionOf[t] = a /\ stage[t] = "running"
  BY <1>1 DEF MapOK
<1>4. \A t \in Task : Active(a)' = t <=> AuctionOf[t] = a /\ stage'[t] = "running"
  BY <1>1 DEF MapOK
<1> QED
  BY <1>2, <1>3, <1>4, QueueAssumption

LEMMA RunSubmits ==
  ASSUME QInv, QInv', NEW t \in Task, Run(t)
  PROVE  Serial!Submit(t)
<1> DEFINE a == AuctionOf[t]
<1>1. a \in Auction /\ MapOK /\ MapOK'
  BY QueueAssumption, Mapped, MappedNext
<1>2. /\ stage[t] = "new" /\ stage'[t] = "waiting"
      /\ ticket'[t] = issued[a] + 1 /\ issued'[a] = issued[a] + 1 /\ begun' = begun
      /\ \A u \in Task \ {t} : ticket'[u] = ticket[u] /\ stage'[u] = stage[u]
      /\ \A b \in Auction \ {a} : issued'[b] = issued[b]
  BY <1>1 DEF Run, SetStage, QInv, TypeOK
<1>3. issued[a] \in Nat /\ begun[a] \in Nat /\ begun[a] <= issued[a]
  BY <1>1 DEF QInv, TypeOK, Begun
\* The queue of a grows by t at its end.
<1>4. Waiting(a)' = Append(Waiting(a), t)
  <2>1. PICK w \in Seq(Task) : w = Waiting(a) /\ Len(w) = issued[a] - begun[a]
    BY <1>1 DEF MapOK
  <2>2. PICK v \in Seq(Task) : v = Waiting(a)' /\ Len(v) = Len(w) + 1
    <3>1. Waiting(a)' \in Seq(Task) /\ Len(Waiting(a)') = issued'[a] - begun'[a]
      BY <1>1 DEF MapOK
    <3> QED
      BY <1>2, <1>3, <2>1, <3>1
  <2>3. /\ Append(w, t) \in Seq(Task) /\ Len(Append(w, t)) = Len(w) + 1
        /\ \A i \in 1..Len(w) : Append(w, t)[i] = w[i]
        /\ Append(w, t)[Len(w) + 1] = t
    BY <2>1, AppendProperties
  <2>4. ASSUME NEW i \in 1..Len(v) PROVE v[i] = Append(w, t)[i]
    <3>1. PICK u \in Task : AuctionOf[u] = a /\ ticket'[u] = begun[a] + i
      <4>1. begun'[a] + i \in 1..issued'[a]
        BY <1>2, <1>3, <2>1, <2>2
      <4> QED
        BY <1>1, <1>2, <4>1 DEF QInv, Tickets
    <3>2. stage'[u] = "waiting"
      BY <1>2, <1>3, <2>1, <2>2, <3>1 DEF QInv, Begun
    <3>3. v[ticket'[u] - begun'[a]] = u
      BY <1>1, <2>2, <3>1, <3>2 DEF MapOK
    <3>4. v[i] = u
      BY <1>2, <1>3, <2>1, <2>2, <3>1, <3>3
    <3>5. CASE u = t
      BY <1>2, <1>3, <2>1, <2>3, <3>1, <3>4, <3>5
    <3>6. CASE u # t
      <4>1. ticket[u] = begun[a] + i /\ stage[u] = "waiting"
        BY <1>2, <3>1, <3>2, <3>6
      <4>2. w[ticket[u] - begun[a]] = u /\ ticket[u] \in 1..issued[a]
        BY <1>1, <2>1, <3>1, <4>1 DEF MapOK, QInv, Tickets
      <4>3. w[i] = u /\ i \in 1..Len(w)
        BY <1>3, <2>1, <2>2, <4>1, <4>2
      <4> QED
        BY <2>3, <3>4, <4>3
    <3> QED
      BY <3>5, <3>6
  <2> QED
    BY <2>1, <2>2, <2>3, <2>4, SeqEqual
<1>5. ASSUME NEW b \in Auction, b # a PROVE Waiting(b)' = Waiting(b)
  <2>1. \A u \in Task : AuctionOf[u] = b => ticket'[u] = ticket[u]
    BY <1>2, <1>5
  <2>2. \A n : \A u \in Task :
          AuctionOf[u] = b /\ ticket'[u] = n <=> AuctionOf[u] = b /\ ticket[u] = n
    BY <2>1
  <2> QED
    BY <1>2, <1>5, <2>2 DEF Waiting, Nth
<1>6. \A b \in Auction : Active(b)' = Active(b)
  BY <1>2, SameActive
<1> QED
  BY <1>1, <1>4, <1>5, <1>6 DEF Serial!Submit

LEMMA StartTaskStarts ==
  ASSUME QInv, QInv', NEW t \in Task, StartTask(t)
  PROVE  Serial!Start(AuctionOf[t])
<1> DEFINE a == AuctionOf[t]
<1>1. a \in Auction /\ MapOK /\ MapOK'
  BY QueueAssumption, Mapped, MappedNext
<1>2. /\ stage[t] = "waiting" /\ stage'[t] = "running"
      /\ UNCHANGED <<ticket, issued>>
      /\ begun'[a] = begun[a] + 1
      /\ \A u \in Task \ {t} : stage'[u] = stage[u]
      /\ \A b \in Auction \ {a} : begun'[b] = begun[b]
  BY <1>1 DEF StartTask, SetStage, QInv, TypeOK
<1>3. issued[a] \in Nat /\ begun[a] \in Nat /\ ticket[t] \in 1..issued[a]
  BY <1>1, <1>2 DEF QInv, TypeOK, Tickets
<1>4. \A u \in Task : Before(u, t) => stage[u] = "done"
  <2>1. CASE behind[t] = NoTask
    BY <2>1 DEF QInv, Chain
  <2>2. CASE behind[t] # NoTask
    <3>1. stage[behind[t]] = "done" /\ behind[t] \in Task
      BY <2>2 DEF StartTask, MayStart, QInv, TypeOK
    <3> QED
      BY <1>2, <2>2, <3>1 DEF QInv, Chain
  <2> QED
    BY <2>1, <2>2
<1>5. ticket[t] = begun[a] + 1
  BY <1>2, <1>4, StartsNext
\* Nothing runs: it would be before t.
<1>6. Active(a) = NoTask
  <2>1. SUFFICES ASSUME NEW u \in Task, AuctionOf[u] = a, stage[u] = "running" PROVE FALSE
    BY <1>1 DEF MapOK
  <2>2. ticket[u] = begun[a]
    BY <2>1, RunningIsLast
  <2>3. Before(u, t)
    BY <1>2, <1>3, <1>5, <2>1, <2>2 DEF Before, SameAuction
  <2> QED
    BY <1>4, <2>1, <2>3
<1>7. Active(a)' = t
  BY <1>1, <1>2 DEF MapOK
<1>8. PICK w \in Seq(Task) : w = Waiting(a) /\ Len(w) = issued[a] - begun[a]
  BY <1>1 DEF MapOK
<1>9. w[1] = t /\ w # <<>> /\ Head(w) = t
  <2>1. w[ticket[t] - begun[a]] = t
    BY <1>1, <1>2, <1>8 DEF MapOK
  <2>2. ticket[t] - begun[a] = 1 /\ Len(w) > 0
    BY <1>3, <1>5, <1>8
  <2> QED
    BY <1>8, <2>1, <2>2
<1>10. Waiting(a)' = Tail(w)
  <2>1. PICK v \in Seq(Task) : v = Waiting(a)' /\ Len(v) = Len(w) - 1
    <3>1. Waiting(a)' \in Seq(Task) /\ Len(Waiting(a)') = issued'[a] - begun'[a]
      BY <1>1 DEF MapOK
    <3> QED
      BY <1>2, <1>3, <1>8, <3>1
  <2>2. /\ Tail(w) \in Seq(Task) /\ Len(Tail(w)) = Len(w) - 1
        /\ \A i \in 1..Len(Tail(w)) : Tail(w)[i] = w[i + 1]
    BY <1>8, <1>9
  <2>3. ASSUME NEW i \in 1..Len(v) PROVE v[i] = Tail(w)[i]
    <3>1. PICK u \in Task : AuctionOf[u] = a /\ ticket[u] = begun[a] + 1 + i
      <4>1. begun[a] + 1 + i \in 1..issued[a]
        BY <1>3, <1>8, <2>1
      <4> QED
        BY <1>1, <4>1 DEF QInv, Tickets
    <3>2. stage[u] = "waiting" /\ stage'[u] = "waiting"
      <4>1. stage[u] = "waiting" /\ u # t
        BY <1>3, <1>5, <3>1 DEF QInv, Begun
      <4> QED
        BY <1>2, <4>1
    <3>3. v[ticket'[u] - begun'[a]] = u /\ w[ticket[u] - begun[a]] = u
      BY <1>1, <1>8, <2>1, <3>1, <3>2 DEF MapOK
    <3>4. v[i] = u /\ w[i + 1] = u
      BY <1>2, <1>3, <3>1, <3>3
    <3> QED
      BY <2>1, <2>2, <3>4
  <2> QED
    BY <2>1, <2>2, <2>3, SeqEqual
<1>11. ASSUME NEW b \in Auction, b # a
       PROVE  Waiting(b)' = Waiting(b) /\ Active(b)' = Active(b)
  BY <1>2, <1>11, SameWaiting, SameActive
<1> QED
  BY <1>1, <1>6, <1>7, <1>8, <1>9, <1>10, <1>11 DEF Serial!Start

LEMMA SettleEnds ==
  ASSUME QInv, QInv', NEW t \in Task, Settle(t)
  PROVE  Serial!End(AuctionOf[t])
<1> DEFINE a == AuctionOf[t]
<1>1. a \in Auction /\ MapOK /\ MapOK' /\ NoTask \notin Task
  BY QueueAssumption, Mapped, MappedNext
<1>2. /\ stage[t] = "running" /\ stage'[t] = "settled"
      /\ UNCHANGED <<ticket, issued, begun>>
      /\ \A u \in Task \ {t} : stage'[u] = stage[u]
  BY <1>1 DEF Settle, SetStage, QInv, TypeOK
<1>3. Active(a) = t
  BY <1>1, <1>2 DEF MapOK
<1>4. Active(a)' = NoTask
  <2>1. ASSUME NEW u \in Task, AuctionOf[u] = a, stage'[u] = "running" PROVE FALSE
    <3>1. u # t /\ stage[u] = "running"
      BY <1>2, <2>1
    <3> QED
      BY <1>1, <1>3, <2>1, <3>1 DEF MapOK
  <2>2. Active(a)' \in Task \union {NoTask}
    BY <1>1 DEF MapOK
  <2>3. \A u \in Task : Active(a)' = u <=> AuctionOf[u] = a /\ stage'[u] = "running"
    BY <1>1 DEF MapOK
  <2> QED
    BY <2>1, <2>2, <2>3
<1>5. ASSUME NEW b \in Auction, b # a PROVE Active(b)' = Active(b)
  BY <1>2, <1>5, SameActive
<1>6. \A b \in Auction : Waiting(b)' = Waiting(b)
  BY <1>2, SameWaiting
<1> QED
  BY <1>1, <1>3, <1>4, <1>5, <1>6 DEF Serial!End

LEMMA NextOrder == QInv /\ [Next]_vars => [Serial!Next]_(Serial!vars)
<1> SUFFICES ASSUME QInv, [Next]_vars PROVE [Serial!Next]_(Serial!vars)
  OBVIOUS
<1>0. QInv'
  BY NextQInv
<1>1. CASE UNCHANGED vars
  <2>1. \A a \in Auction : Waiting(a)' = Waiting(a) /\ Active(a)' = Active(a)
    BY <1>0, <1>1, SameWaiting, SameActive DEF vars
  <2> QED
    BY <2>1 DEF Serial!vars
<1>2. ASSUME NEW t \in Task, Cleanup(t) PROVE UNCHANGED Serial!vars
  <2>1. \A u \in Task : stage'[u] = "running" <=> stage[u] = "running"
    BY <1>2 DEF Cleanup, SetStage, QInv, TypeOK
  <2>2. \A a \in Auction : Waiting(a)' = Waiting(a) /\ Active(a)' = Active(a)
    BY <1>0, <1>2, <2>1, SameWaiting, SameActive DEF Cleanup
  <2> QED
    BY <2>2 DEF Serial!vars
<1>3. ASSUME NEW t \in Task, Run(t) \/ StartTask(t) \/ Settle(t) PROVE Serial!Next
  <2>1. AuctionOf[t] \in Auction
    BY QueueAssumption
  <2> QED
    BY <1>0, <1>3, <2>1, RunSubmits, StartTaskStarts, SettleEnds DEF Serial!Next
<1> QED
  BY <1>1, <1>2, <1>3 DEF Next

\* The safety part of ImplementsSerialQueue: for each auction the tasks run
\* one at a time in the order of the calls, whatever they end with.
THEOREM QueueImplementsSerialOrder == Spec => Serial!Order
BY InitOrder, NextOrder, QueueInvariance, PTL DEF Spec, Serial!Order
=============================================================================
