------------------------ MODULE AuctionEngineProofs -------------------------
(***************************************************************************)
(* Theorems about AuctionEngine for any set of processes, any calls, any   *)
(* number of failures.  IInv is inductive; every safety theorem follows    *)
(* from it.  The argument is the version check: SeenOK makes the copy a    *)
(* job writes from equal to the document whenever the filter matches.      *)
(***************************************************************************)
EXTENDS AuctionEngine, FiniteSetTheorems, TLAPS

\* The job of a process that does not move stays consistent when documents
\* are only added and the auction document stays or gets its next version.
LEMMA OtherJobs ==
  ASSUME IInv, NEW t \in Server, job'[t] = job[t],
         bids \subseteq bids', ledger \subseteq ledger', auction' \in Auction,
         \/ auction' = auction
         \/ auction'.version = auction.version + 1 /\ auction.status # "COMPLETED"
  PROVE  JobOK(t)'
<1> USE DEF IInv, TypeOK, Auction
<1>1. JobOK(t)
  BY DEF JobsOK
<1>2. job[t] \in Job
  OBVIOUS
<1>3. job[t].pc \notin {"idle", "load"} => SeenOK(t)'
  BY <1>1, <1>2 DEF JobOK, SeenOK, Job
<1>4. BidJobOK(t)'
  BY <1>1 DEF JobOK, BidJobOK
<1>5. ClosingJobOK(t)'
  BY <1>1 DEF JobOK, ClosingJobOK
<1> QED
  BY <1>3, <1>4, <1>5 DEF JobOK

\* What concerns only the auction and the bids applied to it survives every
\* step that leaves both alone.
LEMMA SameDocument ==
  ASSUME IInv, UNCHANGED <<auction, ledger>>
  PROVE  DocumentOK' /\ LedgerRises' /\ LeaderIsLastBid'
<1> USE DEF IInv
<1>1. DocumentOK'
  BY DEF DocumentOK
<1>2. LedgerRises'
  BY DEF LedgerRises
<1>3. LeaderIsLastBid'
  BY DEF LeaderIsLastBid
<1> QED
  BY <1>1, <1>2, <1>3

\* An idle process satisfies everything asked of a job.
LEMMA IdleOK ==
  ASSUME NEW s \in Server, job'[s] = Idle
  PROVE  JobOK(s)'
BY DEF JobOK, BidJobOK, ClosingJobOK, Idle, LifecycleCall, BidPC, ClosingPC

LEMMA IdleType == Idle \in Job
<1>1. LifecycleCall("start") \in QueuedCall
  BY DEF LifecycleCall, QueuedCall, Call
<1>2. Created(0) \in Auction
  BY EngineAssumption DEF Created, Auction, Status, NoTime
<1> QED
  BY <1>1, <1>2 DEF Idle, Job, PC

LEMMA InitIInv == Init => IInv
<1> SUFFICES ASSUME Init PROVE IInv
  OBVIOUS
<1> USE DEF Init
<1>1. clock \in Nat /\ Created(clock) \in Auction
  BY EngineAssumption DEF Created, Auction, Status, NoTime
<1>2. TypeOK
  <2>1. timeline \subseteq [type : EventType, sequence : Nat, actor : User \union {NoUser}]
    BY EngineAssumption DEF Event, EventType
  <2> QED
    BY <1>1, <2>1, IdleType DEF TypeOK
<1>3. JobsOK
  BY DEF JobsOK, JobOK, BidJobOK, ClosingJobOK, Idle, LifecycleCall, BidPC, ClosingPC
<1>4. DocumentOK /\ LedgerRises /\ LeaderIsLastBid
  <2>1. IsFiniteSet({}) /\ Cardinality({}) = 0
    BY FS_EmptySet
  <2> QED
    BY <1>1, <2>1 DEF DocumentOK, LedgerRises, LeaderIsLastBid, Created
<1>5. ClosingRecordsMatch /\ BidsOK
  BY DEF ClosingRecordsMatch, BidsOK
<1> QED
  BY <1>2, <1>3, <1>4, <1>5 DEF IInv

-----------------------------------------------------------------------------
(* Steps that leave every document and history alone: the environment,       *)
(* Begin, Load, Lookup, FindHighest and the failures.                        *)

\* Such a step keeps the invariant if it keeps the type and the jobs.
LEMMA QuietStep ==
  ASSUME IInv, UNCHANGED <<database, acked, ledger>>, TypeOK', JobsOK'
  PROVE  IInv'
<1> USE DEF database
<1>1. DocumentOK' /\ LedgerRises' /\ LeaderIsLastBid'
  BY SameDocument
<1>2. ClosingRecordsMatch' /\ BidsOK'
  BY DEF IInv, ClosingRecordsMatch, BidsOK
<1> QED
  BY <1>1, <1>2 DEF IInv

\* The jobs after a step of process s alone that adds documents at most.
LEMMA OneJobMoves ==
  ASSUME IInv, NEW s \in Server, \A t \in Server \ {s} : job'[t] = job[t],
         bids \subseteq bids', ledger \subseteq ledger', auction' \in Auction,
         \/ auction' = auction
         \/ auction'.version = auction.version + 1 /\ auction.status # "COMPLETED",
         JobOK(s)'
  PROVE  JobsOK'
<1>1. ASSUME NEW t \in Server, t # s PROVE JobOK(t)'
  BY <1>1, OtherJobs
<1> QED
  BY <1>1 DEF JobsOK

LEMMA SubmitStep ==
  ASSUME IInv, NEW s \in Server, NEW c \in QueuedCall, Submit(s, c)
  PROVE  IInv'
<1> USE DEF Submit, database
<1>1. TypeOK'
  BY DEF IInv, TypeOK, Enqueue
<1>2. JobsOK'
  <2>1. ASSUME NEW t \in Server PROVE JobOK(t)'
    BY OtherJobs DEF IInv, TypeOK
  <2> QED
    BY <2>1 DEF JobsOK
<1> QED
  BY <1>1, <1>2, QuietStep

LEMMA TickStep == IInv /\ Tick => IInv'
<1> SUFFICES ASSUME IInv, Tick PROVE IInv'
  OBVIOUS
<1> USE DEF Tick, database
<1>1. TypeOK'
  BY DEF IInv, TypeOK
<1>2. JobsOK'
  <2>1. ASSUME NEW t \in Server PROVE JobOK(t)'
    BY OtherJobs DEF IInv, TypeOK
  <2> QED
    BY <2>1 DEF JobsOK
<1> QED
  BY <1>1, <1>2, QuietStep

\* A job that ends leaves an idle process behind.
LEMMA FinishStep ==
  ASSUME IInv, NEW s \in Server, Finish(s), UNCHANGED <<clock, database, acked, ledger>>,
         queue' \in [Server -> Seq(QueuedCall)], faults' \in Nat
  PROVE  IInv'
<1> USE DEF Finish, database
<1>1. TypeOK'
  BY IdleType DEF IInv, TypeOK
<1>2. JobsOK'
  <2>1. JobOK(s)' /\ \A t \in Server \ {s} : job'[t] = job[t]
    BY IdleOK DEF IInv, TypeOK
  <2> QED
    BY <2>1, OneJobMoves DEF IInv, TypeOK
<1> QED
  BY <1>1, <1>2, QuietStep

LEMMA FailureSteps ==
  ASSUME IInv, NEW s \in Server, JobFails(s) \/ Crash(s)
  PROVE  IInv'
<1>1. CASE JobFails(s)
  BY <1>1, FinishStep DEF JobFails, database, IInv, TypeOK
<1>2. CASE Crash(s)
  BY <1>2, FinishStep DEF Crash, database, IInv, TypeOK
<1> QED
  BY <1>1, <1>2

LEMMA BeginStep ==
  ASSUME IInv, NEW s \in Server, Begin(s)
  PROVE  IInv'
<1> USE DEF Begin, database
<1>1. Head(queue[s]) \in QueuedCall /\ Tail(queue[s]) \in Seq(QueuedCall)
  BY DEF IInv, TypeOK
<1>2. job' \in [Server -> Job] /\ \A t \in Server \ {s} : job'[t] = job[t]
  BY <1>1 DEF IInv, TypeOK, Job, PC
<1>3. job'[s].pc = "load"
  BY DEF IInv, TypeOK, Job
<1>4. TypeOK'
  BY <1>1, <1>2 DEF IInv, TypeOK
<1>5. JobOK(s)'
  BY <1>3 DEF JobOK, BidJobOK, ClosingJobOK, BidPC, ClosingPC
<1>6. JobsOK'
  BY <1>2, <1>5, OneJobMoves DEF IInv, TypeOK
<1> QED
  BY <1>4, <1>6, QuietStep

LEMMA LoadStep ==
  ASSUME IInv, NEW s \in Server, Load(s)
  PROVE  IInv'
<1> USE DEF Load, database
<1>1. job[s] \in Job /\ auction \in Auction
  BY DEF IInv, TypeOK
<1>2. job[s].call.kind \in {"bid", "start", "finalize"}
  BY <1>1 DEF Job, QueuedCall, Call
<1>3. AfterLoad(job[s].call.kind) \in PC
  BY <1>2 DEF PC, AfterLoad
<1>4. job' \in [Server -> Job] /\ \A t \in Server \ {s} : job'[t] = job[t]
  BY <1>3 DEF IInv, TypeOK, Job
<1>5. /\ job'[s].call = job[s].call /\ job'[s].seen = auction
      /\ job'[s].pc = AfterLoad(job[s].call.kind)
  BY <1>1 DEF IInv, TypeOK, Job
<1>6. TypeOK'
  BY <1>4 DEF IInv, TypeOK
<1>7. JobOK(s)'
  <2>1. SeenOK(s)'
    BY <1>1, <1>5 DEF SeenOK, Auction
  <2>2. BidJobOK(s)' /\ ClosingJobOK(s)'
    BY <1>2, <1>5 DEF BidJobOK, ClosingJobOK, BidPC, ClosingPC, AfterLoad
  <2> QED
    BY <2>1, <2>2 DEF JobOK
<1>8. JobsOK'
  BY <1>4, <1>7, OneJobMoves DEF IInv, TypeOK
<1> QED
  BY <1>6, <1>8, QuietStep

\* What a bid job knows of its call and of the bid it makes of it.
LEMMA BidJobFacts ==
  ASSUME IInv, NEW s \in Server, job[s].pc \in BidPC
  PROVE  /\ job[s] \in Job /\ job[s].call \in BidCall
         /\ job[s].call.bidder \in User /\ job[s].call.requestId \in RequestId
         /\ job[s].call.amount \in Nat \ {0}
         /\ BidOf(job[s].call, job[s].seen.lastSequence + 1) \in Bid
<1>1. job[s] \in Job /\ job[s].call.kind = "bid"
  BY DEF IInv, TypeOK, JobsOK, JobOK, BidJobOK
<1>2. job[s].call \in QueuedCall /\ job[s].seen.lastSequence \in Nat
  BY <1>1 DEF Job, Auction
<1> QED
  BY <1>1, <1>2 DEF QueuedCall, Call, WellFormed, BidOf, Bid

LEMMA LookupStep ==
  ASSUME IInv, NEW s \in Server, Lookup(s)
  PROVE  IInv'
<1> DEFINE c == job[s].call
           seen == job[s].seen
<1>1. job[s].pc = "lookup" /\ UNCHANGED <<clock, queue, database, acked, ledger, faults>>
  BY DEF Lookup, At
<1>2. job[s] \in Job /\ SeenOK(s) /\ c.kind = "bid"
  BY <1>1 DEF IInv, TypeOK, JobsOK, JobOK, BidJobOK, BidPC
<1>3. CASE Finish(s)
  BY <1>1, <1>3, FinishStep DEF IInv, TypeOK, database
<1>4. ASSUME NEW b \in SameRequest(c),
             job' = [job EXCEPT ![s].pc = "reply", ![s].bid = b]
      PROVE  IInv'
  <2>1. b \in bids /\ b \in Bid
    BY <1>4 DEF SameRequest, IInv, TypeOK
  <2>2. job' \in [Server -> Job] /\ \A t \in Server \ {s} : job'[t] = job[t]
    BY <1>4, <2>1 DEF IInv, TypeOK, Job, PC
  <2>3. job'[s].pc = "reply" /\ job'[s].bid = b /\ job'[s].seen = seen
    BY <1>2, <1>4 DEF IInv, TypeOK, Job
  <2>4. TypeOK'
    BY <1>1, <2>2 DEF IInv, TypeOK, database
  <2>5. JobOK(s)'
    BY <1>1, <1>2, <2>1, <2>3
       DEF JobOK, BidJobOK, ClosingJobOK, SeenOK, BidPC, ClosingPC, database
  <2>6. JobsOK'
    BY <1>1, <2>2, <2>5, OneJobMoves DEF IInv, TypeOK, database
  <2> QED
    BY <1>1, <2>4, <2>6, QuietStep
<1>5. ASSUME Admissible(c, seen, clock),
             job' = [job EXCEPT ![s].pc = "apply", ![s].at = clock,
                                ![s].bid = BidOf(c, seen.lastSequence + 1)]
      PROVE  IInv'
  <2>1. PICK b \in Bid : b = BidOf(c, seen.lastSequence + 1)
    BY <1>1, BidJobFacts DEF BidPC
  <2>2. job' \in [Server -> Job] /\ \A t \in Server \ {s} : job'[t] = job[t]
    <3>1. job' = [job EXCEPT ![s].pc = "apply", ![s].at = clock, ![s].bid = b]
      BY <1>5, <2>1
    <3>2. clock \in Nat /\ job \in [Server -> Job]
      BY DEF IInv, TypeOK
    <3>3. /\ job'[s] = [job[s] EXCEPT !.pc = "apply", !.at = clock, !.bid = b]
          /\ \A t \in Server \ {s} : job'[t] = job[t]
          /\ job' = [t \in Server |-> job'[t]]
      BY <3>1, <3>2
    <3>4. job'[s] \in Job
      BY <1>2, <3>2, <3>3 DEF Job, PC
    <3> QED
      BY <3>2, <3>3, <3>4
  <2>3. /\ job'[s].pc = "apply" /\ job'[s].at = clock /\ job'[s].seen = seen
        /\ job'[s].call = c /\ job'[s].bid = BidOf(c, seen.lastSequence + 1)
    BY <1>2, <1>5 DEF IInv, TypeOK, Job
  <2>4. TypeOK'
    BY <1>1, <2>2 DEF IInv, TypeOK, database
  <2>5. JobOK(s)'
    <3>1. SeenOK(s)' /\ ClosingJobOK(s)'
      BY <1>1, <1>2, <2>3 DEF ClosingJobOK, SeenOK, ClosingPC, database
    <3>2. BidJobOK(s)'
      BY <1>2, <1>5, <2>3 DEF BidJobOK, BidPC
    <3> QED
      BY <3>1, <3>2 DEF JobOK
  <2>6. JobsOK'
    BY <1>1, <2>2, <2>5, OneJobMoves DEF IInv, TypeOK, database
  <2> QED
    BY <1>1, <2>4, <2>6, QuietStep
<1> QED
  BY <1>3, <1>4, <1>5 DEF Lookup

LEMMA FindHighestStep ==
  ASSUME IInv, NEW s \in Server, FindHighest(s)
  PROVE  IInv'
<1>1. job[s].pc = "findHighest" /\ UNCHANGED <<clock, queue, database, acked, ledger, faults>>
  BY DEF FindHighest, At
<1>2. job[s] \in Job /\ JobOK(s)
  BY DEF IInv, TypeOK, JobsOK
<1>3. PICK b \in bids \union {NoBid} : job' = [job EXCEPT ![s].pc = "result", ![s].bid = b]
  BY DEF FindHighest
<1>4. b \in Bid \union {NoBid}
  BY <1>3 DEF IInv, TypeOK
<1>5. job' \in [Server -> Job] /\ \A t \in Server \ {s} : job'[t] = job[t]
  BY <1>3, <1>4 DEF IInv, TypeOK, Job, PC
<1>6. job'[s].pc = "result" /\ job'[s].seen = job[s].seen /\ job'[s].call = job[s].call
  BY <1>2, <1>3 DEF IInv, TypeOK, Job
<1>7. TypeOK'
  BY <1>1, <1>5 DEF IInv, TypeOK, database
<1>8. JobOK(s)'
  BY <1>1, <1>2, <1>6
     DEF JobOK, BidJobOK, ClosingJobOK, SeenOK, BidPC, ClosingPC, database
<1>9. JobsOK'
  BY <1>1, <1>5, <1>8, OneJobMoves DEF IInv, TypeOK, database
<1> QED
  BY <1>1, <1>7, <1>9, QuietStep

-----------------------------------------------------------------------------
(* Steps that add a document or a history entry, the auction left alone. *)

\* A step of s that only moves its pc and leaves the auction document alone.
LEMMA GotoFacts ==
  ASSUME IInv, NEW s \in Server, NEW pc \in PC, Goto(s, pc)
  PROVE  /\ job' \in [Server -> Job] /\ \A t \in Server \ {s} : job'[t] = job[t]
         /\ job'[s].pc = pc /\ job'[s].call = job[s].call /\ job'[s].seen = job[s].seen
         /\ job'[s].at = job[s].at /\ job'[s].bid = job[s].bid
         /\ job[s] \in Job /\ JobOK(s)
BY DEF Goto, IInv, TypeOK, Job, JobsOK

LEMMA CreateBidStep ==
  ASSUME IInv, NEW s \in Server, CreateBid(s)
  PROVE  IInv'
<1>1. job[s].pc = "createBid" /\ UNCHANGED <<clock, queue, auction, timeline, results,
                                            payments, acked, ledger, faults>>
  BY DEF CreateBid, At
<1>2. CASE BidIndexRefuses(job[s].bid)
  BY <1>1, <1>2, FinishStep DEF CreateBid, IInv, TypeOK, database
<1>3. CASE ~BidIndexRefuses(job[s].bid)
  <2>1. Goto(s, "bidEvent") /\ bids' = bids \union {job[s].bid}
    BY <1>3 DEF CreateBid
  <2>2. job[s].bid \in ledger /\ job[s].bid \in Bid
    BY <1>1 DEF IInv, TypeOK, JobsOK, JobOK, BidJobOK
  <2>3. TypeOK'
    BY <1>1, <2>1, <2>2, GotoFacts DEF IInv, TypeOK, PC
  <2>4. JobOK(s)'
    BY <1>1, <2>1, GotoFacts
       DEF JobOK, BidJobOK, ClosingJobOK, SeenOK, BidPC, ClosingPC, PC
  <2>5. JobsOK'
    BY <1>1, <2>1, <2>4, GotoFacts, OneJobMoves DEF IInv, TypeOK, PC
  <2>6. DocumentOK' /\ LedgerRises' /\ LeaderIsLastBid'
    BY <1>1, SameDocument
  <2>7. ClosingRecordsMatch' /\ BidsOK'
    BY <1>1, <2>1, <2>2 DEF IInv, ClosingRecordsMatch, BidsOK
  <2> QED
    BY <2>3, <2>5, <2>6, <2>7 DEF IInv
<1> QED
  BY <1>2, <1>3

LEMMA ReplyStep ==
  ASSUME IInv, NEW s \in Server, Reply(s)
  PROVE  IInv'
<1>1. /\ job[s].pc = "reply" /\ job' = [job EXCEPT ![s] = Idle]
      /\ UNCHANGED <<clock, queue, database, ledger, faults>>
  BY DEF Reply, At, Finish
<1>2. acked' \subseteq bids'
  BY <1>1 DEF Reply, IInv, BidsOK, JobsOK, JobOK, BidJobOK, database
<1>3. TypeOK'
  BY <1>1, <1>2, IdleType DEF IInv, TypeOK, database
<1>4. JobsOK'
  <2>1. JobOK(s)' /\ \A t \in Server \ {s} : job'[t] = job[t]
    BY <1>1, IdleOK DEF IInv, TypeOK
  <2> QED
    BY <1>1, <2>1, OneJobMoves DEF IInv, TypeOK, database
<1>5. DocumentOK' /\ LedgerRises' /\ LeaderIsLastBid'
  BY <1>1, SameDocument DEF database
<1>6. ClosingRecordsMatch' /\ BidsOK'
  BY <1>1, <1>2 DEF IInv, ClosingRecordsMatch, BidsOK, database
<1> QED
  BY <1>3, <1>4, <1>5, <1>6 DEF IInv

\* A step that writes to timeline, results or payments only.
LEMMA WriteStep ==
  ASSUME IInv, NEW s \in Server, NEW pc \in PC, Goto(s, pc),
         UNCHANGED <<clock, queue, auction, bids, acked, ledger, faults>>,
         timeline' \subseteq [type : EventType, sequence : Nat, actor : User \union {NoUser}],
         results' \subseteq [winner : User \union {NoUser}, bid : Bid \union {NoBid},
                             amount : Nat],
         payments' \subseteq [winner : User, amount : Nat \ {0}],
         ClosingRecordsMatch', JobOK(s)'
  PROVE  IInv'
<1>1. TypeOK'
  BY GotoFacts DEF IInv, TypeOK
<1>2. JobsOK'
  BY GotoFacts, OneJobMoves DEF IInv, TypeOK
<1>3. DocumentOK' /\ LedgerRises' /\ LeaderIsLastBid'
  BY SameDocument
<1>4. BidsOK'
  BY DEF IInv, BidsOK
<1> QED
  BY <1>1, <1>2, <1>3, <1>4 DEF IInv

LEMMA RecordStep ==
  ASSUME IInv, NEW s \in Server, NEW here, NEW type \in EventType, NEW seq \in Nat,
         NEW actor \in User \union {NoUser}, NEW next \in PC,
         Record(s, here, type, seq, actor, next), JobOK(s)'
  PROVE  IInv'
<1>1. /\ Goto(s, next)
      /\ UNCHANGED <<clock, queue, auction, bids, results, payments, acked, ledger, faults>>
      /\ timeline' = timeline \union {Event(type, seq, actor)}
  BY DEF Record
<1>2. timeline' \subseteq [type : EventType, sequence : Nat, actor : User \union {NoUser}]
  BY <1>1 DEF Event, IInv, TypeOK
<1>3. ClosingRecordsMatch'
  BY <1>1 DEF IInv, ClosingRecordsMatch
<1> QED
  BY <1>1, <1>2, <1>3, WriteStep DEF IInv, TypeOK

LEMMA EventSteps ==
  ASSUME IInv, NEW s \in Server,
         BidEvent(s) \/ StartEvent(s) \/ EndedEvent(s) \/ WinnerEvent(s) \/ PaymentEvent(s)
  PROVE  IInv'
<1> DEFINE seen == job[s].seen
<1>1. /\ job[s] \in Job /\ JobOK(s)
      /\ seen.lastSequence \in Nat /\ seen.highestBidder \in User \union {NoUser}
  BY DEF IInv, TypeOK, Job, JobsOK, Auction
<1> USE DEF EventType, PC
<1>2. CASE BidEvent(s)
  <2>1. job[s].bid \in Bid
    BY <1>1, <1>2
       DEF BidEvent, Record, At, JobOK, BidJobOK, IInv, BidsOK, TypeOK
  <2>2. JobOK(s)'
    BY <1>1, <1>2, GotoFacts
       DEF BidEvent, Record, At, SeenOK, JobOK, BidJobOK, ClosingJobOK, BidPC, ClosingPC
  <2> QED
    BY <1>2, <2>1, <2>2, RecordStep DEF BidEvent, Bid
<1>3. CASE StartEvent(s)
  <2>1. JobOK(s)'
    BY <1>1, <1>3, GotoFacts
       DEF StartEvent, Record, At, SeenOK, JobOK, BidJobOK, ClosingJobOK, BidPC, ClosingPC
  <2>2. PICK seq \in Nat : seq = seen.lastSequence + 1
    BY <1>1
  <2>3. Record(s, "startEvent", "AUCTION_STARTED", seq, NoUser, "reply")
    BY <1>3, <2>2 DEF StartEvent
  <2> QED
    BY <1>1, <2>1, <2>3, RecordStep
<1>4. CASE EndedEvent(s)
  <2> DEFINE next == IF seen.highestBidder # NoUser THEN "winnerEvent" ELSE "reply"
  <2>1. JobOK(s)'
    BY <1>1, <1>4, GotoFacts
       DEF EndedEvent, Record, At, SeenOK, JobOK, BidJobOK, ClosingJobOK, BidPC, ClosingPC
  <2>2. PICK seq \in Nat : seq = seen.lastSequence + 1
    BY <1>1
  <2>3. PICK pc \in PC : pc = next
    OBVIOUS
  <2>4. Record(s, "endedEvent", "AUCTION_ENDED", seq, NoUser, pc)
    BY <1>4, <2>2, <2>3 DEF EndedEvent
  <2> QED
    BY <2>1, <2>4, RecordStep
<1>5. CASE WinnerEvent(s)
  <2>1. JobOK(s)'
    BY <1>1, <1>5, GotoFacts
       DEF WinnerEvent, Record, At, SeenOK, JobOK, BidJobOK, ClosingJobOK, BidPC, ClosingPC
  <2>2. PICK seq \in Nat : seq = seen.lastSequence + 2
    BY <1>1
  <2>3. Record(s, "winnerEvent", "WINNER_DECLARED", seq, seen.highestBidder, "payment")
    BY <1>5, <2>2 DEF WinnerEvent
  <2> QED
    BY <1>1, <2>1, <2>3, RecordStep
<1>6. CASE PaymentEvent(s)
  <2>1. JobOK(s)'
    BY <1>1, <1>6, GotoFacts
       DEF PaymentEvent, Record, At, SeenOK, JobOK, BidJobOK, ClosingJobOK, BidPC, ClosingPC
  <2>2. PICK seq \in Nat : seq = seen.lastSequence + 3
    BY <1>1
  <2>3. Record(s, "paymentEvent", "PAYMENT_PENDING", seq, seen.highestBidder, "reply")
    BY <1>6, <2>2 DEF PaymentEvent
  <2> QED
    BY <1>1, <2>1, <2>3, RecordStep
<1> QED
  BY <1>2, <1>3, <1>4, <1>5, <1>6

LEMMA CreateResultOnceStep ==
  ASSUME IInv, NEW s \in Server, CreateResultOnce(s)
  PROVE  IInv'
<1> DEFINE seen == job[s].seen
           r == ResultOf(seen, job[s].bid)
<1>1. /\ job[s].pc = "result" /\ Goto(s, "endedEvent")
      /\ UNCHANGED <<clock, queue, auction, bids, timeline, payments, acked, ledger, faults>>
      /\ results' \subseteq results \union {r}
  BY DEF CreateResultOnce, At
<1>2. job[s] \in Job /\ JobOK(s)
  BY DEF IInv, TypeOK, JobsOK
<1>3. /\ auction.status = "COMPLETED" /\ seen.highestBidder = auction.winner
      /\ seen.currentHighestBid = auction.currentHighestBid
  BY <1>1, <1>2 DEF JobOK, ClosingJobOK, ClosingPC
<1>4. r \in [winner : User \union {NoUser}, bid : Bid \union {NoBid}, amount : Nat]
  BY <1>2 DEF Job, Auction, ResultOf
<1>5. ClosingRecordsMatch'
  <2>1. r.winner = auction.winner
        /\ (auction.winner # NoUser => r.amount = auction.currentHighestBid)
    BY <1>3 DEF ResultOf
  <2> QED
    BY <1>1, <1>3, <2>1 DEF IInv, ClosingRecordsMatch
<1>6. JobOK(s)'
  BY <1>1, <1>2, GotoFacts
     DEF JobOK, BidJobOK, ClosingJobOK, BidPC, ClosingPC, SeenOK, PC
<1> QED
  BY <1>1, <1>4, <1>5, <1>6, WriteStep DEF IInv, TypeOK, PC

LEMMA CreatePendingForWinnerStep ==
  ASSUME IInv, NEW s \in Server, CreatePendingForWinner(s)
  PROVE  IInv'
<1> DEFINE seen == job[s].seen
           p == [winner |-> seen.highestBidder, amount |-> seen.currentHighestBid]
<1>1. /\ job[s].pc = "payment" /\ Goto(s, "paymentEvent")
      /\ UNCHANGED <<clock, queue, auction, bids, timeline, results, acked, ledger, faults>>
      /\ payments' \subseteq payments \union {p}
  BY DEF CreatePendingForWinner, At
<1>2. job[s] \in Job /\ JobOK(s)
  BY DEF IInv, TypeOK, JobsOK
<1>3. /\ auction.status = "COMPLETED" /\ seen.highestBidder = auction.winner
      /\ seen.currentHighestBid = auction.currentHighestBid
      /\ seen.highestBidder # NoUser
  BY <1>1, <1>2 DEF JobOK, ClosingJobOK, ClosingPC
<1>4. auction.currentHighestBid > 0
  BY <1>3 DEF IInv, DocumentOK, LeaderIsLastBid, TypeOK, Bid
<1>5. p \in [winner : User, amount : Nat \ {0}]
  BY <1>3, <1>4 DEF IInv, TypeOK, Auction
<1>6. ClosingRecordsMatch'
  BY <1>1, <1>3 DEF IInv, ClosingRecordsMatch
<1>7. JobOK(s)'
  BY <1>1, <1>2, GotoFacts
     DEF JobOK, BidJobOK, ClosingJobOK, BidPC, ClosingPC, SeenOK, PC
<1> QED
  BY <1>1, <1>5, <1>6, <1>7, WriteStep DEF IInv, TypeOK, PC

-----------------------------------------------------------------------------
(* The three conditional updates of the auction document. *)

\* A record with the fields of an auction document, each of its type, is one.
LEMMA AuctionFields ==
  ASSUME NEW a,
         a = [status |-> a.status, currentHighestBid |-> a.currentHighestBid,
              highestBidder |-> a.highestBidder, bidCount |-> a.bidCount,
              version |-> a.version, lastSequence |-> a.lastSequence,
              finalizedAt |-> a.finalizedAt, winner |-> a.winner],
         a.status \in Status, a.currentHighestBid \in Nat, a.bidCount \in Nat,
         a.version \in Nat, a.lastSequence \in Nat,
         a.highestBidder \in User \union {NoUser}, a.winner \in User \union {NoUser},
         a.finalizedAt \in Nat \union {NoTime}
  PROVE  a \in Auction
BY DEF Auction

LEMMA StartAuctionStep ==
  ASSUME IInv, NEW s \in Server, StartAuction(s)
  PROVE  IInv'
<1> DEFINE seen == job[s].seen
<1>1. /\ job[s].pc = "start"
      /\ UNCHANGED <<clock, queue, bids, timeline, results, payments, acked, ledger, faults>>
  BY DEF StartAuction, At
<1>2. job[s] \in Job /\ JobOK(s) /\ auction \in Auction
  BY DEF IInv, TypeOK, JobsOK
<1>3. CASE Finish(s) /\ UNCHANGED auction
  BY <1>1, <1>3, FinishStep DEF IInv, TypeOK, database
<1>4. CASE /\ StartFilter(auction, seen, clock) /\ Goto(s, "startEvent")
           /\ auction' = [auction EXCEPT !.status = "ACTIVE",
                                         !.lastSequence = seen.lastSequence + 1,
                                         !.version = seen.version + 1]
  <2>1. seen = auction /\ auction.status = "UPCOMING"
    BY <1>1, <1>2, <1>4 DEF StartFilter, JobOK, SeenOK
  <2>2. /\ auction' \in Auction /\ auction'.version = auction.version + 1
        /\ auction'.lastSequence = auction.lastSequence + 1 /\ auction'.status = "ACTIVE"
        /\ auction'.bidCount = auction.bidCount /\ auction'.winner = auction.winner
        /\ auction'.currentHighestBid = auction.currentHighestBid
        /\ auction'.highestBidder = auction.highestBidder
        /\ auction'.finalizedAt = auction.finalizedAt
    <3>1. auction' = [auction EXCEPT !.status = "ACTIVE",
                                     !.lastSequence = auction.lastSequence + 1,
                                     !.version = auction.version + 1]
      BY <1>4, <2>1
    <3>2. auction' =
             [status |-> auction'.status, currentHighestBid |-> auction'.currentHighestBid,
              highestBidder |-> auction'.highestBidder, bidCount |-> auction'.bidCount,
              version |-> auction'.version, lastSequence |-> auction'.lastSequence,
              finalizedAt |-> auction'.finalizedAt, winner |-> auction'.winner]
      BY <1>2, <3>1 DEF Auction
    <3>3. /\ auction'.status = "ACTIVE" /\ auction'.lastSequence = auction.lastSequence + 1
          /\ auction'.version = auction.version + 1
      BY <1>2, <3>1 DEF Auction
    <3>4. /\ auction'.bidCount = auction.bidCount /\ auction'.winner = auction.winner
          /\ auction'.currentHighestBid = auction.currentHighestBid
          /\ auction'.highestBidder = auction.highestBidder
          /\ auction'.finalizedAt = auction.finalizedAt
      BY <1>2, <3>1 DEF Auction
    <3>5. auction' \in Auction
      <4>1. auction'.version \in Nat /\ auction'.lastSequence \in Nat
        BY <1>2, <3>3 DEF Auction
      <4> QED
        BY <1>2, <3>2, <3>3, <3>4, <4>1, AuctionFields DEF Auction, Status
    <3> QED
      BY <3>3, <3>4, <3>5
  <2>3. TypeOK'
    BY <1>1, <1>4, <2>2, GotoFacts DEF IInv, TypeOK, PC
  <2>4. JobOK(s)'
    BY <1>1, <1>2, <1>4, <2>1, <2>2, GotoFacts
       DEF JobOK, BidJobOK, ClosingJobOK, BidPC, ClosingPC, SeenOK, PC, Auction
  <2>5. JobsOK'
    BY <1>1, <1>4, <2>1, <2>2, <2>4, GotoFacts, OneJobMoves DEF PC
  <2>6. DocumentOK'
    BY <1>1, <1>2, <2>1, <2>2 DEF IInv, TypeOK, Bid, DocumentOK, Auction
  <2>7. LedgerRises' /\ LeaderIsLastBid'
    BY <1>1, <2>2 DEF IInv, LedgerRises, LeaderIsLastBid
  <2>8. ClosingRecordsMatch' /\ BidsOK'
    BY <1>1, <2>1 DEF IInv, ClosingRecordsMatch, BidsOK
  <2> QED
    BY <2>3, <2>5, <2>6, <2>7, <2>8 DEF IInv
<1> QED
  BY <1>3, <1>4 DEF StartAuction

LEMMA FinalizeAuctionStep ==
  ASSUME IInv, NEW s \in Server, FinalizeAuction(s)
  PROVE  IInv'
<1> DEFINE seen == job[s].seen
           next == IF seen.highestBidder # NoUser THEN "findHighest" ELSE "result"
<1>1. /\ job[s].pc = "finalize"
      /\ UNCHANGED <<clock, queue, bids, timeline, results, payments, acked, ledger, faults>>
  BY DEF FinalizeAuction, At
<1>2. job[s] \in Job /\ JobOK(s) /\ auction \in Auction
  BY DEF IInv, TypeOK, JobsOK
<1>3. CASE Finish(s) /\ UNCHANGED auction
  BY <1>1, <1>3, FinishStep DEF IInv, TypeOK, database
<1>4. CASE /\ FinalizeFilter(auction, seen) /\ Goto(s, next)
           /\ auction' = [auction EXCEPT !.status = "COMPLETED",
                                         !.winner = seen.highestBidder,
                                         !.finalizedAt = clock,
                                         !.lastSequence = seen.lastSequence
                                                            + ClosingEvents(seen),
                                         !.version = seen.version + 1]
  <2>1. seen = auction /\ auction.status = "ACTIVE"
    BY <1>1, <1>2, <1>4 DEF FinalizeFilter, JobOK, SeenOK
  <2>2. clock \in Nat /\ ClosingEvents(seen) \in Nat /\ next \in PC
    BY DEF IInv, TypeOK, ClosingEvents, PC
  <2>3. /\ auction' \in Auction /\ auction'.version = auction.version + 1
        /\ auction'.lastSequence >= auction.lastSequence /\ auction'.status = "COMPLETED"
        /\ auction'.bidCount = auction.bidCount /\ auction'.winner = auction.highestBidder
        /\ auction'.currentHighestBid = auction.currentHighestBid
        /\ auction'.highestBidder = auction.highestBidder
    <3>1. PICK n \in Nat : n = ClosingEvents(seen)
      BY <2>2
    <3>2. auction' = [auction EXCEPT !.status = "COMPLETED",
                                     !.winner = auction.highestBidder,
                                     !.finalizedAt = clock,
                                     !.lastSequence = auction.lastSequence + n,
                                     !.version = auction.version + 1]
      BY <1>4, <2>1, <3>1
    <3>3. auction' =
             [status |-> auction'.status, currentHighestBid |-> auction'.currentHighestBid,
              highestBidder |-> auction'.highestBidder, bidCount |-> auction'.bidCount,
              version |-> auction'.version, lastSequence |-> auction'.lastSequence,
              finalizedAt |-> auction'.finalizedAt, winner |-> auction'.winner]
      BY <1>2, <3>2 DEF Auction
    <3>4. /\ auction'.status = "COMPLETED" /\ auction'.lastSequence = auction.lastSequence + n
          /\ auction'.version = auction.version + 1 /\ auction'.finalizedAt = clock
          /\ auction'.winner = auction.highestBidder
      BY <1>2, <3>2 DEF Auction
    <3>5. /\ auction'.bidCount = auction.bidCount
          /\ auction'.currentHighestBid = auction.currentHighestBid
          /\ auction'.highestBidder = auction.highestBidder
      BY <1>2, <3>2 DEF Auction
    <3>6. auction'.version \in Nat /\ auction'.lastSequence \in Nat
          /\ auction'.lastSequence >= auction.lastSequence
      BY <1>2, <3>4 DEF Auction
    <3>7. auction' \in Auction
      BY <1>2, <2>2, <3>3, <3>4, <3>5, <3>6, AuctionFields DEF Auction, Status
    <3> QED
      BY <3>4, <3>5, <3>6, <3>7
  <2>4. TypeOK'
    BY <1>1, <1>4, <2>2, <2>3, GotoFacts DEF IInv, TypeOK
  <2>5. JobOK(s)'
    <3>1. /\ job'[s].pc = next /\ job'[s].seen = auction /\ job'[s].call = job[s].call
      BY <1>4, <2>1, <2>2, GotoFacts
    <3>2. SeenOK(s)'
      BY <1>2, <2>3, <3>1 DEF SeenOK, Auction
    <3>3. BidJobOK(s)'
      BY <3>1 DEF BidJobOK, BidPC
    <3>4. ClosingJobOK(s)'
      BY <1>1, <1>2, <2>1, <2>3, <3>1 DEF JobOK, ClosingJobOK, ClosingPC
    <3> QED
      BY <3>2, <3>3, <3>4 DEF JobOK
  <2>6. JobsOK'
    BY <1>1, <1>4, <2>1, <2>2, <2>3, <2>5, GotoFacts, OneJobMoves
  <2>7. DocumentOK'
    BY <1>1, <1>2, <2>1, <2>3 DEF IInv, TypeOK, Bid, DocumentOK, Auction
  <2>8. LedgerRises' /\ LeaderIsLastBid'
    BY <1>1, <2>3 DEF IInv, LedgerRises, LeaderIsLastBid
  <2>9. ClosingRecordsMatch' /\ BidsOK'
    BY <1>1, <2>1 DEF IInv, ClosingRecordsMatch, BidsOK
  <2> QED
    BY <2>4, <2>6, <2>7, <2>8, <2>9 DEF IInv
<1> QED
  BY <1>3, <1>4 DEF FinalizeAuction

LEMMA ApplyBidStep ==
  ASSUME IInv, NEW s \in Server, ApplyBid(s)
  PROVE  IInv'
<1> DEFINE seen == job[s].seen
           b == job[s].bid
<1>1. /\ job[s].pc = "apply"
      /\ UNCHANGED <<clock, queue, bids, timeline, results, payments, acked, faults>>
  BY DEF ApplyBid, At
<1>2. job[s] \in Job /\ JobOK(s) /\ auction \in Auction
  BY DEF IInv, TypeOK, JobsOK
<1>3. CASE Finish(s) /\ UNCHANGED <<auction, ledger>>
  BY <1>1, <1>3, FinishStep DEF IInv, TypeOK, database
<1>4. CASE /\ BidFilter(auction, seen, job[s].at) /\ Goto(s, "createBid")
           /\ ledger' = ledger \union {b}
           /\ auction' = [auction EXCEPT !.currentHighestBid = b.amount,
                                         !.highestBidder = b.bidder,
                                         !.bidCount = @ + 1,
                                         !.lastSequence = b.sequence,
                                         !.version = seen.version + 1]
  <2>1. seen = auction /\ auction.status = "ACTIVE"
    BY <1>1, <1>2, <1>4 DEF BidFilter, JobOK, SeenOK
  <2>2. /\ b \in Bid /\ b.sequence = auction.lastSequence + 1
        /\ b.amount >= MinimumNextBid(auction)
    BY <1>1, <1>2, <2>1, BidJobFacts
       DEF BidPC, JobOK, BidJobOK, BidOf, Admissible
  <2>3. /\ auction' \in Auction /\ auction'.version = auction.version + 1
        /\ auction'.lastSequence = b.sequence /\ auction'.status = "ACTIVE"
        /\ auction'.bidCount = auction.bidCount + 1 /\ auction'.winner = auction.winner
        /\ auction'.currentHighestBid = b.amount /\ auction'.highestBidder = b.bidder
        /\ auction'.finalizedAt = auction.finalizedAt
    <3>1. PICK n \in Nat, u \in User, q \in Nat :
            n = b.amount /\ u = b.bidder /\ q = b.sequence
      BY <2>2 DEF Bid
    <3>2. auction' = [auction EXCEPT !.currentHighestBid = n, !.highestBidder = u,
                                     !.bidCount = @ + 1, !.lastSequence = q,
                                     !.version = auction.version + 1]
      BY <1>4, <2>1, <3>1
    <3>3. auction' =
             [status |-> auction'.status, currentHighestBid |-> auction'.currentHighestBid,
              highestBidder |-> auction'.highestBidder, bidCount |-> auction'.bidCount,
              version |-> auction'.version, lastSequence |-> auction'.lastSequence,
              finalizedAt |-> auction'.finalizedAt, winner |-> auction'.winner]
      BY <1>2, <3>2 DEF Auction
    <3>4. /\ auction'.currentHighestBid = n /\ auction'.highestBidder = u
          /\ auction'.bidCount = auction.bidCount + 1 /\ auction'.lastSequence = q
          /\ auction'.version = auction.version + 1
      BY <1>2, <3>2 DEF Auction
    <3>5. /\ auction'.status = auction.status /\ auction'.winner = auction.winner
          /\ auction'.finalizedAt = auction.finalizedAt
      BY <1>2, <3>2 DEF Auction
    <3>6. auction'.version \in Nat /\ auction'.bidCount \in Nat
      BY <1>2, <3>4 DEF Auction
    <3>7. auction' \in Auction
      BY <1>2, <3>3, <3>4, <3>5, <3>6, AuctionFields DEF Auction
    <3> QED
      BY <2>1, <3>1, <3>4, <3>5, <3>7
  <2>4. TypeOK'
    BY <1>1, <1>4, <2>2, <2>3, GotoFacts DEF IInv, TypeOK, PC
  <2>5. JobOK(s)'
    <3>1. /\ job'[s].pc = "createBid" /\ job'[s].seen = auction /\ job'[s].call = job[s].call
          /\ job'[s].bid = b
      BY <1>4, <2>1, GotoFacts DEF PC
    <3>2. SeenOK(s)'
      BY <1>2, <2>3, <3>1 DEF SeenOK, Auction
    <3>3. BidJobOK(s)'
      BY <1>1, <1>2, <1>4, <2>1, <3>1 DEF JobOK, BidJobOK, BidPC
    <3>4. ClosingJobOK(s)'
      BY <3>1 DEF ClosingJobOK, ClosingPC
    <3> QED
      BY <3>2, <3>3, <3>4 DEF JobOK
  <2>6. JobsOK'
    BY <1>1, <1>4, <2>1, <2>3, <2>5, GotoFacts, OneJobMoves DEF PC
  \* The new bid is above all earlier ones, in sequence and in amount.
  <2>7. \A o \in ledger : /\ o \in Bid /\ o.sequence < b.sequence
                          /\ o.amount + MinimumIncrement <= b.amount
    <3>1. \A o \in ledger : /\ o \in Bid /\ o.sequence <= auction.lastSequence
                            /\ o.amount <= auction.currentHighestBid
      BY DEF IInv, TypeOK, DocumentOK
    <3>2. ledger # {} => auction.bidCount # 0
      BY FS_EmptySet DEF IInv, DocumentOK, LeaderIsLastBid
    <3> QED
      BY <1>2, <2>2, <3>1, <3>2, EngineAssumption DEF MinimumNextBid, Bid, Auction
  <2>8. DocumentOK'
    <3>1. IsFiniteSet(ledger')
      BY <1>4, FS_AddElement DEF IInv, DocumentOK
    <3>2. \A o \in ledger' : o.sequence <= b.sequence /\ o.amount <= b.amount
      BY <1>4, <2>2, <2>7, EngineAssumption DEF Bid
    <3> QED
      BY <2>1, <2>2, <2>3, <3>1, <3>2, EngineAssumption DEF IInv, DocumentOK, Bid
  <2>9. LedgerRises'
    BY <1>4, <2>2, <2>7, EngineAssumption DEF IInv, LedgerRises, Bid
  <2>10. LeaderIsLastBid'
    <3>1. b \notin ledger
      BY <2>2, <2>7 DEF Bid
    <3>2. Cardinality(ledger') = Cardinality(ledger) + 1
      BY <1>4, <3>1, FS_AddElement DEF IInv, DocumentOK
    <3>3. b \in ledger' /\ \A o \in ledger' : o.sequence <= b.sequence
      BY <1>4, <2>2, <2>7 DEF Bid
    <3> QED
      BY <2>3, <3>2, <3>3 DEF IInv, LeaderIsLastBid
  <2>11. ClosingRecordsMatch' /\ BidsOK'
    BY <1>1, <1>4, <2>1 DEF IInv, ClosingRecordsMatch, BidsOK
  <2> QED
    BY <2>4, <2>6, <2>8, <2>9, <2>10, <2>11 DEF IInv
<1> QED
  BY <1>3, <1>4 DEF ApplyBid

-----------------------------------------------------------------------------
(* The invariant is inductive. *)

LEMMA NextIInv == IInv /\ [Next]_vars => IInv'
<1> SUFFICES ASSUME IInv, [Next]_vars PROVE IInv'
  OBVIOUS
<1>1. CASE UNCHANGED vars
  <2>1. TypeOK'
    BY <1>1 DEF vars, database, IInv, TypeOK
  <2>2. JobsOK'
    BY <1>1 DEF vars, database, IInv, JobsOK, JobOK, SeenOK, BidJobOK, ClosingJobOK
  <2> QED
    BY <1>1, <2>1, <2>2, QuietStep DEF vars, database
<1>2. CASE Tick
  BY <1>2, TickStep
<1>3. ASSUME NEW s \in Server, Step(s) PROVE IInv'
  <2>1. CASE Begin(s) \/ Load(s)
    BY <2>1, BeginStep, LoadStep
  <2>2. CASE BidStep(s)
    BY <2>2, LookupStep, ApplyBidStep, CreateBidStep, EventSteps DEF BidStep
  <2>3. CASE StartStep(s)
    BY <2>3, StartAuctionStep, EventSteps DEF StartStep
  <2>4. CASE FinalizeStep(s)
    BY <2>4, FinalizeAuctionStep, FindHighestStep, CreateResultOnceStep,
       CreatePendingForWinnerStep, EventSteps DEF FinalizeStep
  <2>5. CASE Reply(s)
    BY <2>5, ReplyStep
  <2> QED
    BY <1>3, <2>1, <2>2, <2>3, <2>4, <2>5 DEF Step
<1>4. ASSUME NEW s \in Server, JobFails(s) \/ Crash(s) PROVE IInv'
  BY <1>4, FailureSteps
<1>5. ASSUME NEW s \in Server, NEW c \in BidCall, PlaceBid(s, c) PROVE IInv'
  <2>1. c \in QueuedCall
    BY <1>5, EngineAssumption DEF PlaceBid, QueuedCall
  <2> QED
    BY <1>5, <2>1, SubmitStep DEF PlaceBid
<1>6. ASSUME NEW s \in Server, NEW kind \in {"start", "finalize"}, CallLifecycle(s, kind)
      PROVE  IInv'
  <2>1. LifecycleCall(kind) \in QueuedCall
    BY DEF LifecycleCall, QueuedCall, Call
  <2> QED
    BY <1>6, <2>1, SubmitStep DEF CallLifecycle
<1> QED
  BY <1>1, <1>2, <1>3, <1>4, <1>5, <1>6 DEF Next

\* What a job knows of the document it loaded, and what document, ledger and
\* records have to do with each other, hold in every state (acceptBid,
\* startAuction, finalizeAuction).
THEOREM Invariance == Spec => []IInv
BY InitIInv, NextIInv, PTL DEF Spec

-----------------------------------------------------------------------------
(* The theorems. *)

\* Every variable keeps its type: in particular only well-formed bids by
\* known accounts are ever applied, stored or acknowledged, and every payment
\* has a payer and a positive amount.
THEOREM TypeCorrect == Spec => []TypeOK
BY Invariance, PTL DEF IInv

\* Bids rise with their sequence numbers, each by the increment at least, and
\* no number is used for two of them (placeBidInQueue, applyAcceptedBid).
THEOREM BidsRise == Spec => []LedgerRises
BY Invariance, PTL DEF IInv

\* The price, leader and count of the auction document are those of the bids
\* applied to it: no update is lost, whichever processes overlap and fail.
THEOREM NoLostBid == Spec => []LeaderIsLastBid
BY Invariance, PTL DEF IInv

\* The result and the payment agree with the auction as it closed, although
\* they are written from a copy loaded before (finalizeAuction).
THEOREM ClosingRecordsAgree == Spec => []ClosingRecordsMatch
BY Invariance, PTL DEF IInv

\* A bid that was acknowledged has a document, and nobody wins with less.
THEOREM AcknowledgedBidsAreKept == Spec => []AcknowledgedBidsCount
<1>1. ASSUME IInv PROVE AcknowledgedBidsCount
  <2>1. acked \subseteq bids /\ bids \subseteq ledger
    BY <1>1 DEF IInv, BidsOK
  <2>2. ASSUME auction.status = "COMPLETED", NEW b \in acked
        PROVE  \/ b.amount < auction.currentHighestBid
               \/ b.amount = auction.currentHighestBid /\ b.bidder = auction.winner
    <3>1. b \in ledger /\ b \in Bid /\ ledger \subseteq Bid
      BY <1>1, <2>1 DEF IInv, TypeOK
    <3>2. PICK l \in ledger : /\ \A o \in ledger : o.sequence <= l.sequence
                              /\ l.bidder = auction.highestBidder
                              /\ l.amount = auction.currentHighestBid
      BY <1>1, <3>1 DEF IInv, LeaderIsLastBid
    <3>3. auction.winner = l.bidder
      BY <1>1, <2>2, <3>2 DEF IInv, DocumentOK
    <3>4. CASE b = l
      BY <3>2, <3>3, <3>4
    <3>5. CASE b # l
      <4>1. b.sequence < l.sequence
        BY <1>1, <3>1, <3>2, <3>5 DEF IInv, LedgerRises, Bid
      <4>2. b.amount + MinimumIncrement <= l.amount
        BY <1>1, <3>1, <4>1 DEF IInv, LedgerRises
      <4> QED
        BY <3>1, <3>2, <4>2, EngineAssumption DEF Bid
    <3> QED
      BY <3>4, <3>5
  <2> QED
    BY <2>1, <2>2 DEF AcknowledgedBidsCount
<1> QED
  BY <1>1, Invariance, PTL

\* A completed auction never changes again.
THEOREM CompletedIsFinal == Spec => FrozenOnceCompleted
<1>1. ASSUME [Next]_vars, auction.status = "COMPLETED" PROVE auction' = auction
  BY <1>1 DEF Next, vars, database, Tick, Step, Begin, Load, BidStep, StartStep, FinalizeStep,
     Lookup, ApplyBid, CreateBid, BidEvent, StartAuction, StartEvent, FinalizeAuction,
     FindHighest, CreateResultOnce, EndedEvent, WinnerEvent, CreatePendingForWinner,
     PaymentEvent, Reply, Record, JobFails, Crash, PlaceBid, CallLifecycle, Submit,
     BidFilter, StartFilter, FinalizeFilter
<1> QED
  BY <1>1, PTL DEF Spec, FrozenOnceCompleted

-----------------------------------------------------------------------------
(* The engine implements the abstract auction: the three updates of the      *)
(* document are Open, Bid and Close, everything else stutters.               *)

LEMMA InitRefines == Init => English!Init
<1> SUFFICES ASSUME Init PROVE English!Init
  OBVIOUS
<1>1. clock \in Nat /\ auction = Created(clock)
  BY EngineAssumption DEF Init
<1> QED
  BY <1>1 DEF English!Init, Created

\* A step that leaves clock and document alone is a stutter of the auction.
LEMMA Stutter == UNCHANGED <<clock, auction>> => UNCHANGED English!vars
BY DEF English!vars

LEMMA StartAuctionOpens ==
  ASSUME IInv, NEW s \in Server, StartAuction(s)
  PROVE  [English!Next]_(English!vars)
<1>1. job[s].pc = "start" /\ clock' = clock /\ auction \in Auction
  BY DEF StartAuction, At, IInv, TypeOK
<1>2. CASE UNCHANGED auction
  BY <1>1, <1>2, Stutter
<1>3. CASE /\ StartFilter(auction, job[s].seen, clock)
           /\ auction' = [auction EXCEPT !.status = "ACTIVE",
                                         !.lastSequence = job[s].seen.lastSequence + 1,
                                         !.version = job[s].seen.version + 1]
  <2>1. /\ auction'.status = "ACTIVE" /\ auction'.winner = auction.winner
        /\ auction'.currentHighestBid = auction.currentHighestBid
        /\ auction'.highestBidder = auction.highestBidder
        /\ auction'.bidCount = auction.bidCount
    BY <1>1, <1>3 DEF Auction
  <2> QED
    BY <1>1, <1>3, <2>1 DEF StartFilter, English!Next, English!Open
<1> QED
  BY <1>2, <1>3 DEF StartAuction

LEMMA ApplyBidBids ==
  ASSUME IInv, NEW s \in Server, ApplyBid(s)
  PROVE  [English!Next]_(English!vars)
<1> DEFINE b == job[s].bid
           seen == job[s].seen
<1>1. job[s].pc = "apply" /\ clock' = clock /\ auction \in Auction
  BY DEF ApplyBid, At, IInv, TypeOK
<1>2. CASE UNCHANGED auction
  BY <1>1, <1>2, Stutter
<1>3. CASE /\ BidFilter(auction, seen, job[s].at)
           /\ auction' = [auction EXCEPT !.currentHighestBid = b.amount,
                                         !.highestBidder = b.bidder,
                                         !.bidCount = @ + 1,
                                         !.lastSequence = b.sequence,
                                         !.version = seen.version + 1]
  <2>1. /\ auction'.currentHighestBid = b.amount /\ auction'.highestBidder = b.bidder
        /\ auction'.bidCount = auction.bidCount + 1
        /\ auction'.status = auction.status /\ auction'.winner = auction.winner
    BY <1>1, <1>3 DEF Auction
  <2>2. /\ job[s].call \in BidCall /\ job[s].call.bidder \in User
        /\ job[s].call.amount \in Nat \ {0}
    BY <1>1, BidJobFacts DEF BidPC
  <2>3. /\ JobOK(s) /\ seen \in Auction
    BY DEF IInv, TypeOK, Job, JobsOK
  <2>4. seen = auction
    BY <1>1, <1>3, <2>3 DEF JobOK, SeenOK, BidFilter
  <2>5. /\ b.amount = job[s].call.amount /\ b.bidder = job[s].call.bidder
        /\ Admissible(job[s].call, auction, job[s].at)
    BY <1>1, <2>3, <2>4 DEF JobOK, BidJobOK, BidOf
  <2>6. English!Bid(b.bidder, b.amount)
    BY <1>1, <1>3, <2>1, <2>2, <2>5
       DEF English!Bid, English!Minimum, MinimumNextBid, Admissible, BidFilter
  <2>7. b.bidder \in User /\ b.amount \in {c.amount : c \in BidCall}
    BY <2>2, <2>5
  <2> QED
    BY <2>6, <2>7 DEF English!Next
<1> QED
  BY <1>2, <1>3 DEF ApplyBid

LEMMA FinalizeAuctionCloses ==
  ASSUME IInv, NEW s \in Server, FinalizeAuction(s)
  PROVE  [English!Next]_(English!vars)
<1> DEFINE seen == job[s].seen
<1>1. job[s].pc = "finalize" /\ clock' = clock /\ auction \in Auction /\ clock \in Nat
  BY DEF FinalizeAuction, At, IInv, TypeOK
<1>2. CASE UNCHANGED auction
  BY <1>1, <1>2, Stutter
<1>3. CASE /\ DueToFinalize(seen, clock) /\ FinalizeFilter(auction, seen)
           /\ auction' = [auction EXCEPT !.status = "COMPLETED",
                                         !.winner = seen.highestBidder,
                                         !.finalizedAt = clock,
                                         !.lastSequence = seen.lastSequence
                                                            + ClosingEvents(seen),
                                         !.version = seen.version + 1]
  <2>1. /\ auction'.status = "COMPLETED" /\ auction'.winner = seen.highestBidder
        /\ auction'.currentHighestBid = auction.currentHighestBid
        /\ auction'.highestBidder = auction.highestBidder
        /\ auction'.bidCount = auction.bidCount
    BY <1>1, <1>3 DEF Auction
  <2>2. seen = auction
    BY <1>1, <1>3 DEF IInv, JobsOK, JobOK, SeenOK, FinalizeFilter
  <2>3. EndAt <= clock /\ auction.status = "ACTIVE"
    BY <1>1, <1>3, EngineAssumption DEF DueToFinalize, FinalizeFilter
  <2> QED
    BY <1>1, <2>1, <2>2, <2>3 DEF English!Next, English!Close
<1> QED
  BY <1>2, <1>3 DEF FinalizeAuction

LEMMA NextRefines == IInv /\ [Next]_vars => [English!Next]_(English!vars)
<1> SUFFICES ASSUME IInv, [Next]_vars PROVE [English!Next]_(English!vars)
  OBVIOUS
<1>1. CASE UNCHANGED vars
  BY <1>1, Stutter DEF vars, database
<1>2. CASE Tick
  BY <1>2 DEF Tick, database, English!Next, English!Tick
<1>3. ASSUME NEW s \in Server, Step(s) PROVE [English!Next]_(English!vars)
  <2>1. CASE StartAuction(s) \/ ApplyBid(s) \/ FinalizeAuction(s)
    BY <2>1, StartAuctionOpens, ApplyBidBids, FinalizeAuctionCloses
  <2>2. CASE ~(StartAuction(s) \/ ApplyBid(s) \/ FinalizeAuction(s))
    <3>1. UNCHANGED <<clock, auction>>
      BY <1>3, <2>2 DEF database, Step, Begin, Load, BidStep, StartStep, FinalizeStep,
         Lookup, CreateBid, BidEvent, StartEvent, FindHighest, CreateResultOnce, EndedEvent,
         WinnerEvent, CreatePendingForWinner, PaymentEvent, Reply, Record
    <3> QED
      BY <3>1, Stutter
  <2> QED
    BY <2>1, <2>2
<1>4. ASSUME NEW s \in Server,
             \/ JobFails(s) \/ Crash(s)
             \/ \E c \in BidCall : PlaceBid(s, c)
             \/ \E kind \in {"start", "finalize"} : CallLifecycle(s, kind)
      PROVE  [English!Next]_(English!vars)
  BY <1>4, Stutter DEF JobFails, Crash, PlaceBid, CallLifecycle, Submit, database
<1> QED
  BY <1>1, <1>2, <1>3, <1>4 DEF Next

\* Whatever the queues, the processes and their failures do, the auction
\* document goes through the states of an English auction only.
THEOREM EngineImplementsEnglishAuction == Spec => ImplementsEnglishAuction
BY InitRefines, NextRefines, Invariance, PTL DEF Spec, ImplementsEnglishAuction, English!Spec
-----------------------------------------------------------------------------
(* What the three updates of the document do when their filters match: the   *)
(* job's copy was the document, and the document gets its next version.      *)

LEMMA OpenFacts ==
  ASSUME IInv, NEW s \in Server, StartAuction(s),
         DueToStart(job[s].seen, clock) /\ StartFilter(auction, job[s].seen, clock)
  PROVE  /\ job[s].seen = auction /\ auction \in Auction /\ Goto(s, "startEvent")
         /\ auction.status = "UPCOMING" /\ auction'.status = "ACTIVE"
         /\ auction'.lastSequence = auction.lastSequence + 1
         /\ auction'.version = auction.version + 1
         /\ auction'.winner = auction.winner
         /\ UNCHANGED <<bids, timeline, results, payments, ledger, faults>>
<1>1. job[s].pc = "start" /\ JobOK(s) /\ auction \in Auction
  BY DEF StartAuction, At, IInv, TypeOK, JobsOK
<1>2. job[s].seen = auction
  BY <1>1 DEF StartFilter, JobOK, SeenOK
<1>3. auction' = [auction EXCEPT !.status = "ACTIVE",
                                 !.lastSequence = auction.lastSequence + 1,
                                 !.version = auction.version + 1]
  BY <1>2 DEF StartAuction
<1>4. /\ auction'.status = "ACTIVE" /\ auction'.winner = auction.winner
      /\ auction'.lastSequence = auction.lastSequence + 1
      /\ auction'.version = auction.version + 1
  BY <1>1, <1>3 DEF Auction
<1> QED
  BY <1>1, <1>2, <1>4 DEF StartAuction, StartFilter

LEMMA BidFacts ==
  ASSUME IInv, NEW s \in Server, ApplyBid(s),
         BidFilter(auction, job[s].seen, job[s].at)
  PROVE  /\ job[s].seen = auction /\ auction \in Auction /\ Goto(s, "createBid")
         /\ auction.status = "ACTIVE" /\ auction'.status = "ACTIVE"
         /\ job[s].bid = BidOf(job[s].call, auction.lastSequence + 1) /\ job[s].bid \in Bid
         /\ auction'.lastSequence = auction.lastSequence + 1
         /\ auction'.version = auction.version + 1
         /\ ledger' = ledger \union {job[s].bid}
         /\ UNCHANGED <<bids, timeline, results, payments, faults>>
<1> DEFINE b == job[s].bid
<1>1. job[s].pc = "apply" /\ JobOK(s) /\ auction \in Auction
  BY DEF ApplyBid, At, IInv, TypeOK, JobsOK
<1>2. job[s].seen = auction
  BY <1>1 DEF BidFilter, JobOK, SeenOK
<1>3. b = BidOf(job[s].call, auction.lastSequence + 1) /\ b \in Bid
  BY <1>1, <1>2, BidJobFacts DEF JobOK, BidJobOK, BidPC
<1>4. b.sequence = auction.lastSequence + 1
  BY <1>3 DEF BidOf
<1>5. auction' = [auction EXCEPT !.currentHighestBid = b.amount,
                                 !.highestBidder = b.bidder,
                                 !.bidCount = @ + 1,
                                 !.lastSequence = b.sequence,
                                 !.version = auction.version + 1]
  BY <1>2 DEF ApplyBid
<1>6. /\ auction'.status = auction.status /\ auction'.lastSequence = b.sequence
      /\ auction'.version = auction.version + 1
  BY <1>1, <1>5 DEF Auction
<1> QED
  BY <1>1, <1>2, <1>3, <1>4, <1>6 DEF ApplyBid, BidFilter

LEMMA CloseFacts ==
  ASSUME IInv, NEW s \in Server, FinalizeAuction(s),
         DueToFinalize(job[s].seen, clock) /\ FinalizeFilter(auction, job[s].seen)
  PROVE  /\ job[s].seen = auction /\ auction \in Auction
         /\ Goto(s, IF auction.highestBidder # NoUser THEN "findHighest" ELSE "result")
         /\ auction.status = "ACTIVE" /\ auction'.status = "COMPLETED"
         /\ auction'.lastSequence =
              auction.lastSequence + (IF auction.highestBidder # NoUser THEN 3 ELSE 1)
         /\ auction'.version = auction.version + 1
         /\ auction'.winner = auction.highestBidder
         /\ UNCHANGED <<bids, timeline, results, payments, ledger, faults>>
<1>1. job[s].pc = "finalize" /\ JobOK(s) /\ auction \in Auction
  BY DEF FinalizeAuction, At, IInv, TypeOK, JobsOK
<1>2. job[s].seen = auction
  BY <1>1 DEF FinalizeFilter, JobOK, SeenOK
<1>3. PICK n \in Nat : n = ClosingEvents(auction)
  BY DEF ClosingEvents
<1>4. auction' = [auction EXCEPT !.status = "COMPLETED",
                                 !.winner = auction.highestBidder,
                                 !.finalizedAt = clock,
                                 !.lastSequence = auction.lastSequence + n,
                                 !.version = auction.version + 1]
  BY <1>2, <1>3 DEF FinalizeAuction
<1>5. /\ auction'.status = "COMPLETED" /\ auction'.winner = auction.highestBidder
      /\ auction'.lastSequence = auction.lastSequence + n
      /\ auction'.version = auction.version + 1
  BY <1>1, <1>4 DEF Auction
<1> QED
  BY <1>1, <1>2, <1>3, <1>5 DEF FinalizeAuction, FinalizeFilter, ClosingEvents

\* Every change of the document is its next version.
THEOREM OneVersionPerUpdate ==
  Spec => [][auction' # auction => auction'.version = auction.version + 1]_vars
<1>1. ASSUME IInv, [Next]_vars, auction' # auction
      PROVE  auction'.version = auction.version + 1
  <2>1. PICK s \in Server : StartAuction(s) \/ ApplyBid(s) \/ FinalizeAuction(s)
    BY <1>1 DEF Next, vars, database, Tick, Step, Begin, Load, BidStep, StartStep,
       FinalizeStep, Lookup, CreateBid, BidEvent, StartEvent, FindHighest, CreateResultOnce,
       EndedEvent, WinnerEvent, CreatePendingForWinner, PaymentEvent, Reply, Record,
       JobFails, Crash, PlaceBid, CallLifecycle, Submit
  <2>2. CASE StartAuction(s)
    BY <1>1, <2>2, OpenFacts DEF StartAuction
  <2>3. CASE ApplyBid(s)
    BY <1>1, <2>3, BidFacts DEF ApplyBid
  <2>4. CASE FinalizeAuction(s)
    BY <1>1, <2>4, CloseFacts DEF FinalizeAuction
  <2> QED
    BY <2>1, <2>2, <2>3, <2>4
<1> QED
  BY <1>1, Invariance, PTL DEF Spec

-----------------------------------------------------------------------------
(* No sequence number is given twice.  An update takes the numbers of all    *)
(* its events at once, above every number taken before; each event keeps its *)
(* number while it is owed, and is either recorded under it or lost.         *)

\* What one process owes depends on its job alone.
LEMMA Owing ==
  ASSUME NEW s \in Server, \A t \in Server \ {s} : job'[t] = job[t], NEW New,
         timeline' \union Owed(s)' \subseteq timeline \union Owed(s) \union New,
         timeline \subseteq timeline'
  PROVE  Promised' \subseteq Promised \union New
<1>1. ASSUME NEW t \in Server, t # s PROVE Owed(t)' = Owed(t)
  BY <1>1 DEF Owed
<1> QED
  BY <1>1 DEF Promised

LEMMA Numbering ==
  ASSUME Numbered, NEW New, Promised' \subseteq Promised \union New,
         auction.lastSequence \in Nat, auction'.lastSequence \in Nat,
         auction.lastSequence <= auction'.lastSequence,
         \A e \in New :
           e.sequence \in (auction.lastSequence + 1)..auction'.lastSequence,
         \A e, f \in New : e.sequence = f.sequence => e = f
  PROVE  Numbered'
<1>1. \A e \in Promised' : e.sequence \in 0..auction'.lastSequence
  BY DEF Numbered
<1>2. ASSUME NEW e \in Promised', NEW f \in Promised', e.sequence = f.sequence
      PROVE  e = f
  BY <1>2 DEF Numbered
<1> QED
  BY <1>1, <1>2 DEF Numbered

\* A step of s that makes no promise.
LEMMA NoPromise ==
  ASSUME IInv, Numbered, NEW s \in Server, \A t \in Server \ {s} : job'[t] = job[t],
         timeline' \union Owed(s)' \subseteq timeline \union Owed(s),
         timeline \subseteq timeline', UNCHANGED auction
  PROVE  Numbered'
<1>1. PICK None : None = {}
  OBVIOUS
<1>2. Promised' \subseteq Promised \union None
  BY <1>1, Owing
<1> QED
  BY <1>1, <1>2 DEF Numbered

LEMMA FinishedOwes ==
  ASSUME IInv, Numbered, NEW s \in Server, Finish(s), UNCHANGED <<auction, timeline>>
  PROVE  Numbered'
<1>1. job'[s] = Idle /\ \A t \in Server \ {s} : job'[t] = job[t]
  BY DEF Finish, IInv, TypeOK
<1>2. Owed(s)' = {}
  BY <1>1 DEF Owed, Idle
<1> QED
  BY <1>1, <1>2, NoPromise

\* The same for a step that only moves to a place where no more is owed.
LEMMA GoneOn ==
  ASSUME IInv, Numbered, NEW s \in Server, NEW pc \in PC, Goto(s, pc),
         UNCHANGED <<auction, timeline>>,
         \/ {job[s].pc, pc} \subseteq {"createBid", "bidEvent"}
         \/ {job[s].pc, pc} \subseteq {"findHighest", "result", "endedEvent"}
         \/ {job[s].pc, pc} \subseteq {"payment", "paymentEvent"}
  PROVE  Numbered'
<1>1. Owed(s)' = Owed(s)
  BY GotoFacts DEF Owed
<1> QED
  BY <1>1, GotoFacts, NoPromise

\* Recording an event fulfils a promise.
LEMMA RecordMoves ==
  ASSUME IInv, NEW s \in Server,
         BidEvent(s) \/ StartEvent(s) \/ EndedEvent(s) \/ WinnerEvent(s) \/ PaymentEvent(s)
  PROVE  /\ timeline' \union Owed(s)' = timeline \union Owed(s)
         /\ timeline \subseteq timeline' /\ UNCHANGED auction
         /\ \A t \in Server \ {s} : job'[t] = job[t]
<1>1. JobOK(s) /\ auction' = auction
  BY DEF IInv, JobsOK, BidEvent, StartEvent, EndedEvent, WinnerEvent, PaymentEvent, Record
<1>2. timeline' \union Owed(s)' = timeline \union Owed(s)
  <2>1. CASE BidEvent(s)
    BY <2>1, GotoFacts DEF BidEvent, Record, At, Owed, PC
  <2>2. CASE StartEvent(s)
    BY <2>2, GotoFacts DEF StartEvent, Record, At, Owed, PC
  <2>3. CASE EndedEvent(s)
    BY <2>3, GotoFacts DEF EndedEvent, Record, At, Owed, PC
  <2>4. CASE WinnerEvent(s)
    BY <2>4, GotoFacts DEF WinnerEvent, Record, At, Owed, PC
  <2>5. CASE PaymentEvent(s)
    BY <2>5, GotoFacts DEF PaymentEvent, Record, At, Owed, PC
  <2> QED
    BY <2>1, <2>2, <2>3, <2>4, <2>5
<1>3. timeline \subseteq timeline' /\ \A t \in Server \ {s} : job'[t] = job[t]
  BY DEF BidEvent, StartEvent, EndedEvent, WinnerEvent, PaymentEvent, Record, Goto, IInv, TypeOK
<1> QED
  BY <1>1, <1>2, <1>3

LEMMA RecordKeeps ==
  ASSUME IInv, Numbered, NEW s \in Server,
         BidEvent(s) \/ StartEvent(s) \/ EndedEvent(s) \/ WinnerEvent(s) \/ PaymentEvent(s)
  PROVE  Numbered'
BY RecordMoves, NoPromise

\* The three updates promise events with new numbers.
LEMMA UpdatePromises ==
  ASSUME IInv, Numbered, NEW s \in Server,
         StartAuction(s) \/ ApplyBid(s) \/ FinalizeAuction(s)
  PROVE  Numbered'
<1>1. CASE UNCHANGED auction /\ Finish(s)
  BY <1>1, FinishedOwes DEF StartAuction, ApplyBid, FinalizeAuction
<1> DEFINE n == auction.lastSequence
<1>2. ASSUME NEW pc \in PC, Goto(s, pc), timeline' = timeline, auction'.lastSequence \in Nat,
             n <= auction'.lastSequence,
             \A e \in Owed(s)' : e.sequence \in (n + 1)..auction'.lastSequence,
             \A e, f \in Owed(s)' : e.sequence = f.sequence => e = f
      PROVE  Numbered'
  <2>1. Promised' \subseteq Promised \union Owed(s)'
    BY <1>2, GotoFacts, Owing
  <2> QED
    BY <1>2, <2>1, Numbering DEF IInv, TypeOK, Auction
<1>3. CASE /\ StartAuction(s) /\ DueToStart(job[s].seen, clock)
           /\ StartFilter(auction, job[s].seen, clock)
  <2>1. Owed(s)' = {Event("AUCTION_STARTED", n + 1, NoUser)}
    BY <1>3, OpenFacts, GotoFacts DEF Owed, PC
  <2> QED
    BY <1>2, <1>3, <2>1, OpenFacts DEF Event, PC, Auction
<1>4. CASE ApplyBid(s) /\ BidFilter(auction, job[s].seen, job[s].at)
  <2>1. Owed(s)' = {Event("BID_ACCEPTED", n + 1, job[s].bid.bidder)}
    <3>1. job'[s].pc = "createBid" /\ job'[s].bid = job[s].bid
      BY <1>4, BidFacts, GotoFacts DEF PC
    <3>2. job[s].bid = BidOf(job[s].call, n + 1)
      BY <1>4, BidFacts
    <3> QED
      BY <3>1, <3>2 DEF Owed, BidOf
  <2> QED
    BY <1>2, <1>4, <2>1, BidFacts DEF Event, PC, Auction
<1>5. CASE /\ FinalizeAuction(s) /\ DueToFinalize(job[s].seen, clock)
           /\ FinalizeFilter(auction, job[s].seen)
  <2> DEFINE winner == auction.highestBidder
             ended == Event("AUCTION_ENDED", n + 1, NoUser)
             winning == {Event("WINNER_DECLARED", n + 2, winner),
                         Event("PAYMENT_PENDING", n + 3, winner)}
  <2>1. PICK pc \in PC : /\ pc = IF winner # NoUser THEN "findHighest" ELSE "result"
                         /\ Goto(s, pc)
    BY <1>5, CloseFacts DEF PC
  <2>2. job'[s].pc = pc /\ job'[s].seen = auction
    BY <1>5, <2>1, CloseFacts, GotoFacts
  <2>3. Owed(s)' = {ended} \union (IF winner # NoUser THEN winning ELSE {})
    BY <2>1, <2>2 DEF Owed
  <2>4. /\ auction'.lastSequence \in Nat /\ n \in Nat /\ n <= auction'.lastSequence
        /\ auction'.lastSequence = n + (IF winner # NoUser THEN 3 ELSE 1)
        /\ timeline' = timeline
    BY <1>5, CloseFacts DEF Auction
  <2>5. ended.sequence = n + 1 /\ \A e \in winning : e.sequence \in {n + 2, n + 3}
    BY DEF Event
  <2>6. \A e, f \in winning : e.sequence = f.sequence => e = f
    BY <2>4 DEF Event
  <2>7. \A e \in Owed(s)' : e.sequence \in (n + 1)..auction'.lastSequence
    BY <2>3, <2>4, <2>5
  <2>8. \A e, f \in Owed(s)' : e.sequence = f.sequence => e = f
    BY <2>3, <2>4, <2>5, <2>6
  <2> QED
    BY <1>2, <2>1, <2>4, <2>7, <2>8
<1> QED
  BY <1>1, <1>3, <1>4, <1>5 DEF StartAuction, ApplyBid, FinalizeAuction

LEMMA InitNumbered == Init => Numbered
<1> SUFFICES ASSUME Init PROVE Numbered
  OBVIOUS
<1>1. \A s \in Server : Owed(s) = {}
  BY DEF Init, Owed, Idle
<1>2. Promised = {Event("AUCTION_CREATED", 0, Seller)} /\ auction.lastSequence = 0
  BY <1>1 DEF Init, Promised, Created
<1> QED
  BY <1>2 DEF Numbered, Event

LEMMA NextNumbered == IInv /\ Numbered /\ [Next]_vars => Numbered'
<1> SUFFICES ASSUME IInv, Numbered, [Next]_vars PROVE Numbered'
  OBVIOUS
<1>1. CASE UNCHANGED <<job, auction, timeline>>
  BY <1>1 DEF Numbered, Promised, Owed
<1>2. ASSUME NEW s \in Server, Begin(s) \/ Load(s) \/ Lookup(s)
      PROVE  Numbered'
  <2>1. CASE Finish(s)
    BY <1>2, <2>1, FinishedOwes DEF Begin, Load, Lookup, database
  <2>2. CASE ~Finish(s)
    <3>1. /\ \A t \in Server \ {s} : job'[t] = job[t]
          /\ UNCHANGED <<auction, timeline>>
      BY <1>2, <2>2 DEF Begin, Load, Lookup, database, IInv, TypeOK
    <3>2. job'[s].pc \in {"load", "lookup", "start", "finalize", "reply", "apply"}
      <4>1. job[s] \in Job /\ job[s].call.kind \in {"bid", "start", "finalize"}
        BY DEF IInv, TypeOK, Job, QueuedCall, Call
      <4> QED
        BY <1>2, <2>2, <4>1 DEF Begin, Load, Lookup, AfterLoad, IInv, TypeOK, Job
    <3>3. Owed(s)' = {}
      BY <3>2 DEF Owed
    <3> QED
      BY <3>1, <3>3, NoPromise
  <2> QED
    BY <2>1, <2>2
<1>3. ASSUME NEW s \in Server, CreateBid(s) PROVE Numbered'
  BY <1>3, FinishedOwes, GoneOn DEF CreateBid, At, PC
<1>4. ASSUME NEW s \in Server, FindHighest(s) PROVE Numbered'
  <2>1. /\ \A t \in Server \ {s} : job'[t] = job[t]
        /\ UNCHANGED <<auction, timeline>>
    BY <1>4 DEF FindHighest, database, IInv, TypeOK
  <2>2. job'[s].pc = "result" /\ job'[s].seen = job[s].seen /\ job[s].pc = "findHighest"
    BY <1>4 DEF FindHighest, At, IInv, TypeOK, Job
  <2>3. Owed(s)' = Owed(s)
    BY <2>2 DEF Owed
  <2> QED
    BY <2>1, <2>3, NoPromise
<1>5. ASSUME NEW s \in Server, CreateResultOnce(s) \/ CreatePendingForWinner(s)
      PROVE  Numbered'
  BY <1>5, GoneOn DEF CreateResultOnce, CreatePendingForWinner, At, PC
<1>6. ASSUME NEW s \in Server, Reply(s) \/ JobFails(s) \/ Crash(s) PROVE Numbered'
  BY <1>6, FinishedOwes DEF Reply, JobFails, Crash, database
<1>7. CASE \/ Tick
           \/ \E s \in Server : \/ \E c \in BidCall : PlaceBid(s, c)
                                \/ \E kind \in {"start", "finalize"} : CallLifecycle(s, kind)
           \/ UNCHANGED vars
  BY <1>1, <1>7 DEF Tick, PlaceBid, CallLifecycle, Submit, vars, database
<1> QED
  BY <1>2, <1>3, <1>4, <1>5, <1>6, <1>7, RecordKeeps, UpdatePromises
     DEF Next, Step, BidStep, StartStep, FinalizeStep

\* No two events of the timeline carry the same number, whichever processes
\* overlap and fail between taking a number and writing the event.
THEOREM SequencesUnique == Spec => []TimelineSequencesUnique
<1>1. IInv /\ Numbered => TimelineSequencesUnique
  BY DEF Numbered, Promised, TimelineSequencesUnique
<1> QED
  BY <1>1, InitNumbered, NextNumbered, InitIInv, NextIInv, PTL DEF Spec
-----------------------------------------------------------------------------
(* An undisturbed process.  What it loads stays what the document is, so     *)
(* every update succeeds, every bid it applies is new, and the records of    *)
(* each update are written or still owed by the job that made it.            *)

\* Faults are never taken back, so what is undisturbed has always been.
LEMMA StillUndisturbed ==
  ASSUME IInv, [Next]_vars, Undisturbed'
  PROVE  Undisturbed
<1>1. faults' = faults \/ faults' = faults + 1
  BY DEF Next, vars, Tick, Step, Begin, Load, BidStep, StartStep, FinalizeStep,
     Lookup, ApplyBid, CreateBid, BidEvent, StartAuction, StartEvent, FinalizeAuction,
     FindHighest, CreateResultOnce, EndedEvent, WinnerEvent, CreatePendingForWinner,
     PaymentEvent, Reply, Record, JobFails, Crash, PlaceBid, CallLifecycle, Submit
<1> QED
  BY <1>1 DEF Undisturbed, IInv, TypeOK

LEMMA InitSole == Init => Sole
<1> SUFFICES ASSUME Init PROVE Sole
  OBVIOUS
<1>1. RequestAcceptedOnce /\ ResultNamesWinningBid
  BY DEF Init, RequestAcceptedOnce, ResultNamesWinningBid
<1>2. ASSUME NEW s \in Server PROVE SoleOK(s)
  <2>1. job[s] = Idle /\ job[s].pc = "idle" /\ Owed(s) = {}
    BY DEF Init, Idle, Owed
  <2>2. auction.status # "COMPLETED" /\ auction.lastSequence = 0
    BY DEF Init, Created
  <2>3. SoleNumbers(s)
    BY <2>1, <2>2 DEF Init, Event, SoleNumbers
  <2>4. SoleBid(s) /\ SoleClosing(s)
    BY <2>1, <2>2 DEF Init, SoleBid, SoleClosing
  <2> QED
    BY <2>3, <2>4 DEF SoleOK
<1> QED
  BY <1>1, <1>2 DEF Sole

\* The bids are those applied, but for the one whose document is under way.
LEMMA BidsOfSole ==
  ASSUME NEW s \in Server, SoleBid(s)
  PROVE  /\ job[s].pc # "createBid" => bids = ledger
         /\ job[s].pc = "createBid" => ledger = bids \union {job[s].bid}
BY DEF SoleBid

\* The numbers recorded and owed stay the same when nothing new is promised.
LEMMA SameNumbers ==
  ASSUME NEW s \in Server, SoleNumbers(s), UNCHANGED auction,
         timeline' \union Owed(s)' = timeline \union Owed(s)
  PROVE  SoleNumbers(s)'
BY DEF SoleNumbers

\* A job that ends, or goes where nothing is left to write, from such a place.
LEMMA SoleRests ==
  ASSUME IInv, NEW s \in Server, SoleOK(s), UNCHANGED <<database, ledger>>,
         job[s].pc \in {"idle", "load", "lookup", "apply", "start", "finalize", "reply"},
         job'[s].pc \in {"idle", "load", "reply"}
  PROVE  SoleOK(s)'
<1>1. Owed(s) = {} /\ Owed(s)' = {}
  BY DEF Owed
<1>2. SoleNumbers(s)'
  BY <1>1, SameNumbers DEF SoleOK, database
<1>3. SoleBid(s)'
  BY DEF SoleOK, SoleBid, database
<1>4. SoleClosing(s)'
  BY DEF SoleOK, SoleClosing, database
<1> QED
  BY <1>2, <1>3, <1>4 DEF SoleOK

LEMMA SoleLoad ==
  ASSUME IInv, NEW s \in Server, SoleOK(s), Load(s)
  PROVE  SoleOK(s)'
<1>1. job[s] \in Job /\ job[s].pc = "load" /\ UNCHANGED <<database, ledger>>
  BY DEF Load, At, IInv, TypeOK
<1>2. job[s].call.kind \in {"bid", "start", "finalize"}
  BY <1>1 DEF Job, QueuedCall, Call
<1>3. job'[s].seen = auction /\ job'[s].pc \in {"lookup", "start", "finalize"}
  BY <1>1, <1>2 DEF Load, AfterLoad, IInv, TypeOK, Job
<1>4. Owed(s) = {} /\ Owed(s)' = {}
  BY <1>1, <1>3 DEF Owed
<1>5. SoleNumbers(s)'
  BY <1>1, <1>4, SameNumbers DEF SoleOK, database
<1>6. SoleBid(s)'
  BY <1>1, <1>3 DEF SoleOK, SoleBid, database
<1>7. SoleClosing(s)'
  BY <1>1, <1>3 DEF SoleOK, SoleClosing, database
<1> QED
  BY <1>5, <1>6, <1>7 DEF SoleOK

LEMMA SoleLookup ==
  ASSUME IInv, NEW s \in Server, SoleOK(s), Lookup(s)
  PROVE  SoleOK(s)'
<1> DEFINE c == job[s].call
<1>1. job[s] \in Job /\ job[s].pc = "lookup" /\ UNCHANGED <<database, ledger>>
  BY DEF Lookup, At, IInv, TypeOK
<1>2. CASE Finish(s) \/ \E b \in SameRequest(c) :
             job' = [job EXCEPT ![s].pc = "reply", ![s].bid = b]
  <2>1. job'[s].pc \in {"idle", "reply"}
    BY <1>1, <1>2 DEF Finish, Idle, IInv, TypeOK, Job
  <2> QED
    BY <1>1, <2>1, SoleRests
<1>3. CASE /\ SameRequest(c) = {}
           /\ job' = [job EXCEPT ![s].pc = "apply", ![s].at = clock,
                                 ![s].bid = BidOf(c, job[s].seen.lastSequence + 1)]
  <2>1. job'[s].pc = "apply" /\ job'[s].seen = job[s].seen /\ job'[s].call = c
    BY <1>1, <1>3 DEF IInv, TypeOK, Job
  <2>2. Owed(s) = {} /\ Owed(s)' = {}
    BY <1>1, <2>1 DEF Owed
  <2>3. SoleNumbers(s)'
    BY <1>1, <2>2, SameNumbers DEF SoleOK, database
  <2>4. SoleBid(s)'
    BY <1>1, <1>3, <2>1 DEF SoleOK, SoleBid, SameRequest, database
  <2>5. SoleClosing(s)'
    BY <1>1, <2>1 DEF SoleOK, SoleClosing, database
  <2> QED
    BY <2>3, <2>4, <2>5 DEF SoleOK
<1> QED
  BY <1>2, <1>3 DEF Lookup

\* An applied bid takes the next number and is owed its event; it is none of
\* the bids applied before, by request or by number.
LEMMA SoleApplyBid ==
  ASSUME IInv, NEW s \in Server, SoleOK(s), ApplyBid(s),
         \A a, b \in ledger : a.bidder = b.bidder /\ a.requestId = b.requestId => a = b
  PROVE  /\ SoleOK(s)'
         /\ \A a, b \in ledger' : a.bidder = b.bidder /\ a.requestId = b.requestId => a = b
<1> DEFINE b == job[s].bid
           n == auction.lastSequence
<1>1. job[s] \in Job /\ JobOK(s) /\ job[s].pc = "apply"
  BY DEF ApplyBid, At, IInv, TypeOK, JobsOK
<1>2. CASE ~BidFilter(auction, job[s].seen, job[s].at)
  <2>1. UNCHANGED <<database, ledger>> /\ job'[s].pc = "idle"
    BY <1>2 DEF ApplyBid, Finish, Idle, database, IInv, TypeOK
  <2> QED
    BY <1>1, <2>1, SoleRests
<1>3. CASE BidFilter(auction, job[s].seen, job[s].at)
  <2>1. /\ job'[s].pc = "createBid" /\ job'[s].bid = b
        /\ UNCHANGED <<bids, timeline, results, payments>>
        /\ ledger' = ledger \union {b} /\ b \in Bid
        /\ auction'.lastSequence = n + 1 /\ n \in Nat
        /\ auction'.status # "COMPLETED"
    BY <1>3, BidFacts, GotoFacts DEF PC, Auction
  <2>2. b.bidder = job[s].call.bidder /\ b.requestId = job[s].call.requestId
    BY <1>1 DEF JobOK, BidJobOK, BidOf
  <2>3. b.sequence = n + 1
    <3>1. b = BidOf(job[s].call, n + 1)
      BY <1>3, BidFacts
    <3> QED
      BY <3>1 DEF BidOf
  <2>4. bids = ledger /\ \A o \in ledger : ~(o.bidder = b.bidder /\ o.requestId = b.requestId)
    BY <1>1, <2>2, BidsOfSole DEF SoleOK, SoleBid, SameRequest
  <2>5. SoleBid(s)'
    BY <2>1, <2>4 DEF SoleBid
  <2>6. SoleNumbers(s)'
    <3> DEFINE accepted == Event("BID_ACCEPTED", n + 1, b.bidder)
    <3>1. Owed(s) = {} /\ Owed(s)' = {accepted} /\ accepted.sequence = n + 1
      BY <1>1, <2>1, <2>3 DEF Owed, Event
    <3>2. {e.sequence : e \in timeline' \union Owed(s)'}
            = {e.sequence : e \in timeline \union Owed(s)} \union {n + 1}
      BY <2>1, <3>1
    <3>3. 0..(n + 1) = (0..n) \union {n + 1}
      BY <2>1
    <3> QED
      BY <2>1, <3>2, <3>3 DEF SoleOK, SoleNumbers
  <2>7. SoleClosing(s)'
    BY <2>1 DEF SoleClosing
  <2> QED
    BY <2>1, <2>4, <2>5, <2>6, <2>7 DEF SoleOK
<1> QED
  BY <1>2, <1>3

\* The indexes never refuse a bid of an undisturbed process.
LEMMA SoleCreateBid ==
  ASSUME IInv, NEW s \in Server, SoleOK(s), CreateBid(s),
         \A a, b \in ledger : a.bidder = b.bidder /\ a.requestId = b.requestId => a = b
  PROVE  SoleOK(s)'
<1> DEFINE b == job[s].bid
<1>1. job[s] \in Job /\ job[s].pc = "createBid"
  BY DEF CreateBid, At, IInv, TypeOK
<1>2. ledger = bids \union {b} /\ b \notin bids
  BY <1>1 DEF SoleOK, SoleBid
<1>3. ~BidIndexRefuses(b)
  BY <1>2 DEF BidIndexRefuses, IInv, LedgerRises
<1>4. /\ job'[s].pc = "bidEvent" /\ job'[s].bid = b /\ bids' = bids \union {b}
      /\ UNCHANGED <<auction, timeline, results, payments, ledger>>
  BY <1>3, GotoFacts DEF CreateBid, PC
<1>5. SoleBid(s)'
  BY <1>2, <1>4 DEF SoleBid
<1>6. Owed(s)' = Owed(s)
  BY <1>1, <1>4 DEF Owed
<1>7. SoleNumbers(s)'
  BY <1>4, <1>6, SameNumbers DEF SoleOK
<1>8. SoleClosing(s)'
  BY <1>1, <1>4 DEF SoleOK, SoleClosing
<1> QED
  BY <1>5, <1>7, <1>8 DEF SoleOK

\* When the last event is recorded nothing is missing: a closing job comes to
\* its end only by way of the payment, if there is a winner.
LEMMA SoleEvents ==
  ASSUME IInv, NEW s \in Server, SoleOK(s),
         BidEvent(s) \/ StartEvent(s) \/ EndedEvent(s) \/ WinnerEvent(s) \/ PaymentEvent(s)
  PROVE  SoleOK(s)'
<1>1. SoleNumbers(s)'
  <2>1. /\ timeline' \union Owed(s)' = timeline \union Owed(s)
        /\ UNCHANGED auction
    BY RecordMoves
  <2> QED
    BY <2>1, SameNumbers DEF SoleOK
<1>2. JobOK(s) /\ UNCHANGED <<auction, bids, results, payments, ledger>>
  BY DEF IInv, JobsOK, BidEvent, StartEvent, EndedEvent, WinnerEvent, PaymentEvent, Record
<1>3. \/ job[s].pc \in {"bidEvent", "startEvent", "paymentEvent"} /\ job'[s].pc = "reply"
      \/ /\ job[s].pc = "endedEvent"
         /\ job'[s].pc = IF job[s].seen.highestBidder # NoUser THEN "winnerEvent" ELSE "reply"
      \/ job[s].pc = "winnerEvent" /\ job'[s].pc = "payment"
  BY GotoFacts DEF BidEvent, StartEvent, EndedEvent, WinnerEvent, PaymentEvent, Record, At, PC
<1>4. SoleBid(s)'
  BY <1>2, <1>3 DEF SoleOK, SoleBid
<1>5. SoleClosing(s)'
  BY <1>2, <1>3 DEF SoleOK, SoleClosing, JobOK, ClosingJobOK, ClosingPC
<1> QED
  BY <1>1, <1>4, <1>5 DEF SoleOK

LEMMA SoleStartAuction ==
  ASSUME IInv, NEW s \in Server, SoleOK(s), StartAuction(s)
  PROVE  SoleOK(s)'
<1> DEFINE n == auction.lastSequence
<1>1. job[s] \in Job /\ job[s].pc = "start"
  BY DEF StartAuction, At, IInv, TypeOK
<1>2. CASE ~(DueToStart(job[s].seen, clock) /\ StartFilter(auction, job[s].seen, clock))
  <2>1. UNCHANGED <<database, ledger>> /\ job'[s].pc = "idle"
    BY <1>2 DEF StartAuction, Finish, Idle, database, IInv, TypeOK
  <2> QED
    BY <1>1, <2>1, SoleRests
<1>3. CASE DueToStart(job[s].seen, clock) /\ StartFilter(auction, job[s].seen, clock)
  <2>1. /\ job'[s].pc = "startEvent" /\ job'[s].seen = auction
        /\ UNCHANGED <<bids, timeline, results, payments, ledger>>
        /\ auction'.lastSequence = n + 1 /\ n \in Nat
        /\ auction'.status # "COMPLETED"
    BY <1>3, OpenFacts, GotoFacts DEF PC, Auction
  <2>2. SoleBid(s)'
    BY <1>1, <2>1 DEF SoleOK, SoleBid
  <2>3. SoleNumbers(s)'
    <3> DEFINE started == Event("AUCTION_STARTED", n + 1, NoUser)
    <3>1. Owed(s) = {} /\ Owed(s)' = {started} /\ started.sequence = n + 1
      BY <1>1, <2>1 DEF Owed, Event
    <3>2. {e.sequence : e \in timeline' \union Owed(s)'}
            = {e.sequence : e \in timeline \union Owed(s)} \union {n + 1}
      BY <2>1, <3>1
    <3>3. 0..(n + 1) = (0..n) \union {n + 1}
      BY <2>1
    <3> QED
      BY <2>1, <3>2, <3>3 DEF SoleOK, SoleNumbers
  <2>4. SoleClosing(s)'
    BY <2>1 DEF SoleClosing
  <2> QED
    BY <2>2, <2>3, <2>4 DEF SoleOK
<1> QED
  BY <1>2, <1>3

LEMMA SoleFinalizeAuction ==
  ASSUME IInv, NEW s \in Server, SoleOK(s), FinalizeAuction(s)
  PROVE  SoleOK(s)'
<1> DEFINE n == auction.lastSequence
           winner == auction.highestBidder
<1>1. job[s] \in Job /\ job[s].pc = "finalize"
  BY DEF FinalizeAuction, At, IInv, TypeOK
<1>2. CASE ~(DueToFinalize(job[s].seen, clock) /\ FinalizeFilter(auction, job[s].seen))
  <2>1. UNCHANGED <<database, ledger>> /\ job'[s].pc = "idle"
    BY <1>2 DEF FinalizeAuction, Finish, Idle, database, IInv, TypeOK
  <2> QED
    BY <1>1, <2>1, SoleRests
<1>3. CASE DueToFinalize(job[s].seen, clock) /\ FinalizeFilter(auction, job[s].seen)
  <2>1. PICK pc \in PC : /\ pc = IF winner # NoUser THEN "findHighest" ELSE "result"
                         /\ Goto(s, pc)
    BY <1>3, CloseFacts DEF PC
  <2>2. /\ job'[s].pc = pc /\ job'[s].seen = auction
        /\ UNCHANGED <<bids, timeline, results, payments, ledger>>
        /\ auction'.lastSequence = n + (IF winner # NoUser THEN 3 ELSE 1) /\ n \in Nat
        /\ auction'.winner = winner
    BY <1>3, <2>1, CloseFacts, GotoFacts DEF Auction
  <2>3. SoleBid(s)'
    BY <1>1, <2>1, <2>2 DEF SoleOK, SoleBid
  <2>4. SoleNumbers(s)'
    <3> DEFINE ended == Event("AUCTION_ENDED", n + 1, NoUser)
               declared == Event("WINNER_DECLARED", n + 2, winner)
               pending == Event("PAYMENT_PENDING", n + 3, winner)
    <3>1. ended.sequence = n + 1 /\ declared.sequence = n + 2 /\ pending.sequence = n + 3
      BY DEF Event
    <3>2. Owed(s) = {} /\ timeline' = timeline
      BY <1>1, <2>2 DEF Owed
    <3>3. CASE winner = NoUser
      <4>1. Owed(s)' = {ended}
        BY <2>1, <2>2, <3>3 DEF Owed
      <4>2. {e.sequence : e \in timeline' \union Owed(s)'}
              = {e.sequence : e \in timeline \union Owed(s)} \union {n + 1}
        BY <3>1, <3>2, <4>1
      <4>3. 0..(n + 1) = (0..n) \union {n + 1}
        BY <2>2
      <4> QED
        BY <2>2, <3>3, <4>2, <4>3 DEF SoleOK, SoleNumbers
    <3>4. CASE winner # NoUser
      <4>1. Owed(s)' = {ended, declared, pending}
        BY <2>1, <2>2, <3>4 DEF Owed
      <4>2. {e.sequence : e \in timeline' \union Owed(s)'}
              = {e.sequence : e \in timeline \union Owed(s)} \union {n + 1, n + 2, n + 3}
        BY <3>1, <3>2, <4>1
      <4>3. 0..(n + 3) = (0..n) \union {n + 1, n + 2, n + 3}
        BY <2>2
      <4> QED
        BY <2>2, <3>4, <4>2, <4>3 DEF SoleOK, SoleNumbers
    <3> QED
      BY <3>3, <3>4
  <2>5. SoleClosing(s)'
    BY <2>1, <2>2 DEF SoleClosing
  <2> QED
    BY <2>3, <2>4, <2>5 DEF SoleOK
<1> QED
  BY <1>2, <1>3

\* The bid that ranks first is the last one applied, the leader's.
LEMMA SoleFindHighest ==
  ASSUME IInv, NEW s \in Server, SoleOK(s), FindHighest(s)
  PROVE  SoleOK(s)'
<1>1. /\ job[s] \in Job /\ job[s].pc = "findHighest" /\ JobOK(s)
      /\ UNCHANGED <<database, ledger>>
  BY DEF FindHighest, At, IInv, TypeOK, JobsOK
<1>2. bids = ledger /\ ledger \subseteq Bid
  BY <1>1, BidsOfSole DEF SoleOK, IInv, TypeOK
<1>3. /\ auction.winner = auction.highestBidder /\ auction.highestBidder # NoUser
  BY <1>1 DEF JobOK, ClosingJobOK, ClosingPC, IInv, DocumentOK
<1>4. PICK l \in ledger : /\ \A o \in ledger : o.sequence <= l.sequence
                          /\ l.bidder = auction.highestBidder
                          /\ l.amount = auction.currentHighestBid
  BY <1>3 DEF IInv, LeaderIsLastBid
<1>5. PICK b \in bids : /\ RanksFirst(b)
                        /\ job' = [job EXCEPT ![s].pc = "result", ![s].bid = b]
  BY <1>2, <1>4 DEF FindHighest
<1>6. b = l
  <2>1. SUFFICES ASSUME b # l PROVE FALSE
    OBVIOUS
  <2>2. b \in Bid /\ l \in Bid /\ b.sequence < l.sequence
    BY <1>2, <1>4, <2>1 DEF IInv, LedgerRises, Bid
  <2>3. b.amount + MinimumIncrement <= l.amount
    BY <1>2, <2>2 DEF IInv, LedgerRises
  <2>4. b.amount > l.amount \/ b.amount = l.amount
    BY <1>2, <1>5 DEF RanksFirst
  <2> QED
    BY <2>2, <2>3, <2>4, EngineAssumption DEF Bid
<1>7. job'[s].pc = "result" /\ job'[s].bid = l /\ job'[s].seen = job[s].seen
  BY <1>1, <1>5, <1>6 DEF IInv, TypeOK, Job
<1>8. Owed(s)' = Owed(s)
  BY <1>1, <1>7 DEF Owed
<1>9. SoleNumbers(s)'
  BY <1>1, <1>8, SameNumbers DEF SoleOK, database
<1>10. SoleBid(s)'
  BY <1>1, <1>2, <1>7 DEF SoleBid, database
<1>11. SoleClosing(s)'
  BY <1>1, <1>3, <1>4, <1>7 DEF SoleOK, SoleClosing, database
<1> QED
  BY <1>9, <1>10, <1>11 DEF SoleOK

LEMMA SoleCreateResultOnce ==
  ASSUME IInv, NEW s \in Server, SoleOK(s), CreateResultOnce(s),
         \A r \in results :
           r.winner # NoUser => r.bid.bidder = r.winner /\ r.bid.amount = r.amount
  PROVE  /\ SoleOK(s)'
         /\ \A r \in results' :
              r.winner # NoUser => r.bid.bidder = r.winner /\ r.bid.amount = r.amount
<1> DEFINE r1 == ResultOf(job[s].seen, job[s].bid)
<1>1. /\ job[s] \in Job /\ job[s].pc = "result" /\ JobOK(s)
      /\ UNCHANGED <<auction, bids, timeline, payments, ledger>>
      /\ results' = IF results = {} THEN {r1} ELSE results
  BY DEF CreateResultOnce, At, IInv, TypeOK, JobsOK
<1>2. /\ job'[s].pc = "endedEvent" /\ job'[s].seen = job[s].seen
      /\ job'[s].bid = job[s].bid
  BY GotoFacts DEF CreateResultOnce, PC
<1>3. Owed(s)' = Owed(s)
  BY <1>1, <1>2 DEF Owed
<1>4. SoleNumbers(s)'
  BY <1>1, <1>3, SameNumbers DEF SoleOK
<1>5. SoleBid(s)'
  BY <1>1, <1>2 DEF SoleOK, SoleBid
<1>6. SoleClosing(s)'
  BY <1>1, <1>2 DEF SoleClosing
<1>7. r1.winner # NoUser => r1.bid.bidder = r1.winner /\ r1.bid.amount = r1.amount
  BY <1>1 DEF ResultOf, SoleOK, SoleClosing, JobOK, ClosingJobOK, ClosingPC
<1> QED
  BY <1>1, <1>4, <1>5, <1>6, <1>7 DEF SoleOK

LEMMA SoleCreatePending ==
  ASSUME IInv, NEW s \in Server, SoleOK(s), CreatePendingForWinner(s)
  PROVE  SoleOK(s)'
<1>1. /\ job[s] \in Job /\ job[s].pc = "payment"
      /\ UNCHANGED <<auction, bids, timeline, results, ledger>> /\ payments' # {}
  BY DEF CreatePendingForWinner, At, IInv, TypeOK
<1>2. /\ job'[s].pc = "paymentEvent" /\ job'[s].seen = job[s].seen
  BY GotoFacts DEF CreatePendingForWinner, PC
<1>3. Owed(s)' = Owed(s)
  BY <1>1, <1>2 DEF Owed
<1>4. SoleNumbers(s)'
  BY <1>1, <1>3, SameNumbers DEF SoleOK
<1>5. SoleBid(s)'
  BY <1>1, <1>2 DEF SoleOK, SoleBid
<1>6. SoleClosing(s)'
  BY <1>1, <1>2 DEF SoleOK, SoleClosing
<1> QED
  BY <1>4, <1>5, <1>6 DEF SoleOK

LEMMA NextSole == IInv /\ Sole /\ [Next]_vars => Sole'
<1> SUFFICES ASSUME IInv, Sole, [Next]_vars, Undisturbed' PROVE Sole'
  BY DEF Sole, RequestAcceptedOnce, ResultNamesWinningBid
<1>1. Undisturbed
  BY StillUndisturbed
<1> DEFINE Once == \A a, b \in ledger :
                     a.bidder = b.bidder /\ a.requestId = b.requestId => a = b
           Names == \A r \in results :
                      r.winner # NoUser => r.bid.bidder = r.winner /\ r.bid.amount = r.amount
<1>2. PICK s \in Server : Server = {s}
  BY <1>1 DEF Undisturbed
<1>3. SoleOK(s) /\ Once /\ Names
  BY <1>1 DEF Sole, RequestAcceptedOnce, ResultNamesWinningBid
<1>4. SUFFICES SoleOK(s)' /\ Once' /\ Names'
  BY <1>2 DEF Sole, RequestAcceptedOnce, ResultNamesWinningBid
<1>5. CASE UNCHANGED <<job, database, ledger>>
  <2>1. SoleBid(s)' /\ SoleClosing(s)'
    BY <1>3, <1>5 DEF SoleOK, SoleBid, SoleClosing, SameRequest, database
  <2>2. SoleNumbers(s)'
    BY <1>3, <1>5 DEF SoleOK, SoleNumbers, Owed, database
  <2> QED
    BY <1>3, <1>5, <2>1, <2>2 DEF SoleOK, database
<1>6. CASE JobFails(s) \/ Crash(s)
  BY <1>6 DEF JobFails, Crash, Undisturbed, IInv, TypeOK
<1>7. CASE Begin(s) \/ Reply(s)
  <2>1. /\ job[s].pc \in {"idle", "reply"} /\ job'[s].pc \in {"idle", "load"}
        /\ UNCHANGED <<database, ledger>>
    BY <1>7 DEF Begin, Reply, At, Finish, Idle, IInv, TypeOK, Job
  <2> QED
    BY <1>3, <2>1, SoleRests DEF database
<1>8. CASE Load(s) \/ Lookup(s) \/ FindHighest(s)
  BY <1>3, <1>8, SoleLoad, SoleLookup, SoleFindHighest
     DEF Load, Lookup, FindHighest, database
<1>9. CASE ApplyBid(s)
  BY <1>3, <1>9, SoleApplyBid DEF ApplyBid
<1>10. CASE CreateBid(s)
  BY <1>3, <1>10, SoleCreateBid DEF CreateBid
<1>11. CASE BidEvent(s) \/ StartEvent(s) \/ EndedEvent(s) \/ WinnerEvent(s) \/ PaymentEvent(s)
  BY <1>3, <1>11, SoleEvents
     DEF BidEvent, StartEvent, EndedEvent, WinnerEvent, PaymentEvent, Record
<1>12. CASE StartAuction(s) \/ FinalizeAuction(s)
  BY <1>3, <1>12, SoleStartAuction, SoleFinalizeAuction DEF StartAuction, FinalizeAuction
<1>13. CASE CreateResultOnce(s)
  BY <1>3, <1>13, SoleCreateResultOnce DEF CreateResultOnce
<1>14. CASE CreatePendingForWinner(s)
  BY <1>3, <1>14, SoleCreatePending DEF CreatePendingForWinner
<1>15. CASE \/ Tick \/ UNCHANGED vars
            \/ \E c \in BidCall : PlaceBid(s, c)
            \/ \E kind \in {"start", "finalize"} : CallLifecycle(s, kind)
  BY <1>5, <1>15 DEF Tick, PlaceBid, CallLifecycle, Submit, vars, database
<1> QED
  BY <1>2, <1>6, <1>7, <1>8, <1>9, <1>10, <1>11, <1>12, <1>13, <1>14, <1>15
     DEF Next, Step, BidStep, StartStep, FinalizeStep

\* One process that nothing disturbs has recorded what it did, but for what the
\* job under way still owes (acceptBid, startAuction, finalizeAuction).
THEOREM SoleInvariance == Spec => [](IInv /\ Sole)
BY InitIInv, NextIInv, InitSole, NextSole, PTL DEF Spec

\* A request identifier is accepted once, however often a client sends it.
THEOREM RequestsAcceptedOnce == Spec => []RequestAcceptedOnce
BY SoleInvariance, PTL DEF Sole

\* A result of an auction that somebody won points to the winner's bid.
THEOREM ResultsNameWinningBid == Spec => []ResultNamesWinningBid
BY SoleInvariance, PTL DEF Sole

\* A process at rest has written every record of what it did: no bid without
\* its document, no gap in the timeline, no closed auction without result.
THEOREM RecordsAreComplete == Spec => []RecordsComplete
<1>1. ASSUME IInv, Sole PROVE RecordsComplete
  <2>1. SUFFICES ASSUME Undisturbed, AtRest
                 PROVE  /\ bids = ledger
                        /\ {e.sequence : e \in timeline} = 0..auction.lastSequence
                        /\ auction.status = "COMPLETED" =>
                             results # {} /\ (auction.winner # NoUser => payments # {})
    BY DEF RecordsComplete
  <2>2. PICK s \in Server : SoleOK(s) /\ job[s].pc = "idle"
    BY <1>1, <2>1 DEF Undisturbed, Sole, AtRest, At
  <2>3. Owed(s) = {}
    BY <2>2 DEF Owed
  <2> QED
    BY <2>2, <2>3 DEF SoleOK, SoleBid, SoleNumbers, SoleClosing
<1> QED
  BY <1>1, SoleInvariance, PTL
=============================================================================
