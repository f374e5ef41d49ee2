---------------------------- MODULE AuctionTimer ----------------------------
(***************************************************************************)
(* AuctionTimerService and its surroundings: who asks the engine to start  *)
(* and to finalize one auction, in one API process that may stop and boot  *)
(* again.  Timers live in the memory of the process; the auction document  *)
(* survives it.                                                            *)
(*                                                                         *)
(* The engine appears by the effect of its two lifecycle calls: one        *)
(* conditional update, made by one call at a time (AuctionQueue), and the  *)
(* answer it returns.  How the engine gets there is AuctionEngine.         *)
(*                                                                         *)
(* Some guards are preceded by variants with a mistake in them, used by no *)
(* action; the README says which property each of them breaks.             *)
(***************************************************************************)
EXTENDS Integers, Sequences

CONSTANTS
  Lead, Duration,  \* inputs: time from creation to start, from start to end
  MaxDelay,        \* MAX_TIMEOUT_MS: longer delays are cut to this one
  MaxTime,         \* bound: the clock stops here
  MaxFaults,       \* bound: failed calls
  MaxStops         \* bound: times the process stops

ASSUME TimerAssumption ==
  /\ Lead \subseteq Nat /\ Duration \subseteq Nat \ {0}
  /\ MaxDelay \in Nat \ {0}
  /\ \A d \in Duration : d <= MaxDelay  \* 7 days at most, against 24.8
  /\ MaxTime \in Nat /\ MaxFaults \in Nat /\ MaxStops \in Nat

VARIABLES
  clock,       \* server time
  mode,        \* the process: "down", "booting" or "up"
  auction,     \* the auction document
  timers,      \* the timeouts that are set
  call,        \* call[c]: what caller c has under way
  broadcasts,  \* history: what the marketplace was told, in order
  failed,      \* a call has failed since the process booted
  faults, stops

vars == <<clock, mode, auction, timers, call, broadcasts, failed, faults, stops>>

\* Who calls: createAuction, boot reconciliation, the two timer tasks, and
\* the bid handler when a bid comes after the end.
Caller == {"create", "restore", "startTimer", "endTimer", "bidder"}

Status == {"NONE", "UPCOMING", "ACTIVE", "COMPLETED"}

\* pc: "timeline" while createAuction writes its event, "engine" until the
\* engine has answered, "return" until the caller resumes with the answer.
Call == [pc : {"idle", "timeline", "engine", "return"}, op : {"start", "finalize"},
         status : Status, changed : BOOLEAN]
NoCall == [pc |-> "idle", op |-> "start", status |-> "NONE", changed |-> FALSE]

Asking(op) == [NoCall EXCEPT !.pc = "engine", !.op = op]
Quiet == \A c \in Caller : call[c] = NoCall

Init ==
  /\ clock = 0 /\ mode = "up"
  /\ auction = [status |-> "NONE", startAt |-> 0, endAt |-> 0]
  /\ timers = {} /\ call = [c \in Caller |-> NoCall]
  /\ broadcasts = <<>> /\ failed = FALSE /\ faults = 0 /\ stops = 0

-----------------------------------------------------------------------------
(* Setting timers. *)

\* When a timeout set now for that date fires at the earliest.
Due(date) ==
  IF date <= clock THEN clock ELSE IF date - clock > MaxDelay THEN clock + MaxDelay ELSE date

EndTimer(a) == [kind |-> "end", due |-> Due(a.endAt)]

\* scheduleAuction, for the auction as the caller has it.
Scheduled(a) ==
  CASE a.status = "UPCOMING" -> {[kind |-> "start", due |-> Due(a.startAt)]}
    [] a.status = "ACTIVE" -> {EndTimer(a)}
    [] OTHER -> {}

\* createAuction: insert the document; then write the event.
Create(lead, duration) ==
  /\ mode = "up" /\ auction.status = "NONE"
  /\ clock + lead + duration <= MaxTime
  /\ auction' = [status |-> IF lead = 0 THEN "ACTIVE" ELSE "UPCOMING",
                 startAt |-> clock + lead, endAt |-> clock + lead + duration]
  /\ call' = [call EXCEPT !["create"] =
                [NoCall EXCEPT !.pc = "timeline", !.status = auction'.status]]
  /\ UNCHANGED <<clock, mode, timers, broadcasts, failed, faults, stops>>

\* ... and then set the timer for the auction as it was inserted, and tell.
ScheduleCreated ==
  /\ call["create"].pc = "timeline"
  /\ timers' = Scheduled([auction EXCEPT !.status = call["create"].status])
  /\ broadcasts' = Append(broadcasts, "created")
  /\ call' = [call EXCEPT !["create"] = NoCall]
  /\ UNCHANGED <<clock, mode, auction, failed, faults, stops>>

-----------------------------------------------------------------------------
(* Callers ask, the engine answers, callers resume. *)

\* A timeout fires, at its time or later.
Fire(kind, caller, op) ==
  /\ call[caller] = NoCall
  /\ \E t \in timers : /\ t.kind = kind /\ t.due <= clock
                       /\ timers' = timers \ {t}
  /\ call' = [call EXCEPT ![caller] = Asking(op)]
  /\ UNCHANGED <<clock, mode, auction, broadcasts, failed, faults, stops>>

FireStart == Fire("start", "startTimer", "start")
FireEnd == Fire("end", "endTimer", "finalize")

\* handleBid, after the engine refused a bid with AUCTION_ENDED.
LateBid ==
  /\ mode = "up" /\ call["bidder"] = NoCall
  /\ auction.status = "ACTIVE" /\ clock >= auction.endAt
  /\ call' = [call EXCEPT !["bidder"] = Asking("finalize")]
  /\ UNCHANGED <<clock, mode, auction, timers, broadcasts, failed, faults, stops>>

MayStartAfter(a) == a.status = "UPCOMING" /\ a.startAt < clock
MayStart(a) == a.status = "UPCOMING" /\ a.startAt <= clock
MayFinalizeAfter(a) == a.status = "ACTIVE" /\ clock > a.endAt
MayFinalize(a) == a.status = "ACTIVE" /\ clock >= a.endAt

\* The caller resumes before another call of the engine has its effect.
Engine(c) ==
  LET op == call[c].op
      changed == IF op = "start" THEN MayStart(auction) ELSE MayFinalize(auction)
      next == IF op = "start" THEN "ACTIVE" ELSE "COMPLETED"
  IN /\ call[c].pc = "engine" /\ \A d \in Caller : call[d].pc # "return"
     /\ auction' = IF changed THEN [auction EXCEPT !.status = next] ELSE auction
     /\ call' = [call EXCEPT ![c] = [pc |-> "return", op |-> op, changed |-> changed,
                                     status |-> auction'.status]]
     /\ UNCHANGED <<clock, mode, timers, broadcasts, failed, faults, stops>>

\* emitLifecycle.
AnnouncedWhenAsked(answer) == IF answer.op = "start" THEN <<"started">> ELSE <<"ended">>
Announced(answer) ==
  IF ~answer.changed THEN <<>> ELSE IF answer.op = "start" THEN <<"started">> ELSE <<"ended">>

\* A start that finds the auction active sets the end timer; the end of
\* reconciliation opens the server.
Return(c) ==
  LET answer == call[c]
  IN /\ answer.pc = "return"
     /\ broadcasts' = broadcasts \o Announced(answer)
     /\ timers' = IF answer.op = "start" /\ answer.status = "ACTIVE"
                  THEN timers \union {EndTimer(auction)} ELSE timers
     /\ call' = [call EXCEPT ![c] = NoCall]
     /\ mode' = IF c = "restore" THEN "up" ELSE mode
     /\ UNCHANGED <<clock, auction, failed, faults, stops>>

-----------------------------------------------------------------------------
(* Failures, stops and boots. *)

Die ==
  /\ mode' = "down" /\ timers' = {} /\ call' = [c \in Caller |-> NoCall]

\* A database call of c throws, before or after the update: timer tasks log
\* it and requests answer with an error, but a failed boot ends the process.
Fail(c) ==
  /\ call[c].pc # "idle" /\ faults < MaxFaults
  /\ faults' = faults + 1 /\ failed' = TRUE
  /\ IF c = "restore" THEN Die
     ELSE call' = [call EXCEPT ![c] = NoCall] /\ UNCHANGED <<mode, timers>>
  /\ UNCHANGED <<clock, auction, broadcasts, stops>>

\* A crash or a signal, at any moment.
Stop ==
  /\ mode # "down" /\ stops < MaxStops
  /\ stops' = stops + 1 /\ Die
  /\ UNCHANGED <<clock, auction, broadcasts, failed, faults>>

\* findSchedulableAuctions.
SchedulableWhenOverdue(a) ==
  \/ a.status = "UPCOMING" /\ a.startAt <= clock
  \/ a.status = "ACTIVE" /\ a.endAt <= clock
Schedulable(a) ==
  \/ a.status = "UPCOMING" /\ a.startAt <= clock
  \/ a.status = "ACTIVE"

Overdue(a) == a.status = "ACTIVE" /\ a.endAt <= clock

\* bootstrap: restoreTimers reconciles what it finds before the server opens.
Boot ==
  /\ mode = "down" /\ failed' = FALSE
  /\ IF Schedulable(auction) /\ (auction.status = "UPCOMING" \/ Overdue(auction))
     THEN /\ mode' = "booting" /\ UNCHANGED timers
          /\ call' = [call EXCEPT !["restore"] =
                        Asking(IF Overdue(auction) THEN "finalize" ELSE "start")]
     ELSE /\ mode' = "up" /\ UNCHANGED call
          /\ timers' = IF Schedulable(auction) THEN Scheduled(auction) ELSE timers
  /\ UNCHANGED <<clock, auction, broadcasts, faults, stops>>

Tick ==
  /\ clock < MaxTime /\ clock' = clock + 1
  /\ UNCHANGED <<mode, auction, timers, call, broadcasts, failed, faults, stops>>

-----------------------------------------------------------------------------
Proceed(c) == Engine(c) \/ Return(c)

Next ==
  \/ Tick \/ ScheduleCreated \/ FireStart \/ FireEnd \/ LateBid \/ Stop \/ Boot
  \/ \E lead \in Lead, duration \in Duration : Create(lead, duration)
  \/ \E c \in Caller : Proceed(c) \/ Fail(c)

Spec == Init /\ [][Next]_vars

\* Time passes, due timeouts fire, calls make progress, and somebody starts
\* a stopped process again; nobody is obliged to bid late.
FairSpec ==
  /\ Spec /\ WF_vars(Tick) /\ WF_vars(Boot)
  /\ WF_vars(ScheduleCreated) /\ WF_vars(FireStart) /\ WF_vars(FireEnd)
  /\ \A c \in Caller : WF_vars(Proceed(c))

-----------------------------------------------------------------------------
(* Properties. *)

TypeOK ==
  /\ clock \in Nat /\ mode \in {"down", "booting", "up"}
  /\ auction \in [status : Status, startAt : Nat, endAt : Nat]
  /\ timers \subseteq [kind : {"start", "end"}, due : Nat]
  /\ call \in [Caller -> Call]
  /\ broadcasts \in Seq({"created", "started", "ended"})
  /\ failed \in BOOLEAN /\ faults \in Nat /\ stops \in Nat

\* Timer, reconciliation and late bidder may all finalize, across restarts:
\* clients are told of a start or an end once, and never of a start after
\* the end (emitLifecycle, handleBid).
AnnouncedOnceInOrder ==
  \A i, j \in 1..Len(broadcasts) : i < j =>
    /\ broadcasts[i] # broadcasts[j]
    /\ broadcasts[j] = "started" => broadcasts[i] # "ended"

\* A running process with nothing under way, no call of which has failed,
\* has a timer set that will end the active auction, also when it inherited
\* the auction from an earlier process (restoreTimers).
ActiveAuctionArmed ==
  mode = "up" /\ Quiet /\ ~failed /\ auction.status = "ACTIVE" =>
    \E t \in timers : t.kind = "end" /\ t.due >= auction.endAt

\* The same for an auction that has not started (docs/ARCHITECTURE.md:
\* restores start/end timers on API boot).
UpcomingAuctionArmed ==
  mode = "up" /\ Quiet /\ ~failed /\ auction.status = "UPCOMING" =>
    \E t \in timers : t.kind = "start"

\* An active auction is finalized whatever stops and restarts interrupt it,
\* unless a call fails in the process that runs.
ActiveAuctionCompletes ==
  auction.status = "ACTIVE" ~> (auction.status = "COMPLETED" \/ failed)

\* A start timer whose delay was not cut starts the auction, unless its
\* process stops or a call fails.
ArmedAuctionStarts ==
  (auction.status = "UPCOMING" /\ \E t \in timers : t.kind = "start" /\ t.due >= auction.startAt)
    ~> (auction.status # "UPCOMING" \/ mode # "up" \/ failed)
=============================================================================
