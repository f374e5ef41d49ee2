------------------------- MODULE AuctionTimerProofs -------------------------
(***************************************************************************)
(* For any leads, durations and bounds: an idle process without failed     *)
(* calls has the active auction's end timer set, and starts and ends are   *)
(* announced once and in order.                                            *)
(***************************************************************************)
EXTENDS AuctionTimer, TLAPS

Said(e) == \E i \in 1..Len(broadcasts) : broadcasts[i] = e

\* The auction's status agrees with the clock and with what was announced.
AuctionOK ==
  /\ auction.status = "NONE" => mode # "booting" /\ timers = {} /\ Quiet
  /\ auction.status # "NONE" => \E d \in Duration : auction.endAt = auction.startAt + d
  /\ auction.status \in {"ACTIVE", "COMPLETED"} => clock >= auction.startAt
  /\ Said("created") => auction.status # "NONE"
  /\ Said("started") => auction.status \in {"ACTIVE", "COMPLETED"}
  /\ Said("ended") => auction.status = "COMPLETED"

\* Which callers are busy depends on the mode; while createAuction has not
\* set the timer there is none, and no timer task.
ModeOK ==
  /\ mode = "down" => Quiet /\ timers = {}
  /\ mode = "up" => call["restore"] = NoCall
  /\ mode = "booting" =>
       timers = {} /\ \A c \in Caller \ {"restore"} : call[c] = NoCall
  /\ call["create"] # NoCall =>
       /\ timers = {} /\ call["startTimer"] = NoCall /\ call["endTimer"] = NoCall
       /\ auction.status # "NONE" /\ ~Said("created")
       /\ \/ call["create"].status = "UPCOMING" /\ auction.status = "UPCOMING"
          \/ call["create"].status = "ACTIVE" /\ auction.status \in {"ACTIVE", "COMPLETED"}

\* Only createAuction writes the event; timer tasks and late bids ask for one
\* thing each.
CallsOK ==
  \A c \in Caller :
    /\ call[c].pc = "idle" => call[c] = NoCall
    /\ call[c].pc = "timeline" <=> c = "create" /\ call[c] # NoCall
    /\ call[c] # NoCall =>
         /\ c = "startTimer" => call[c].op = "start"
         /\ c \in {"endTimer", "bidder"} => call[c].op = "finalize"

\* Who asks for the end asks in time, so the answer finds the auction over;
\* boot reconciliation asks for a start in time too.
AskingOK ==
  \A c \in Caller :
    call[c].pc = "engine" =>
      /\ call[c].op = "finalize" =>
           auction.status \in {"ACTIVE", "COMPLETED"} /\ clock >= auction.endAt
      /\ c = "restore" /\ call[c].op = "start" => clock >= auction.startAt

\* One answer at a time waits for its caller; it is still the truth, and its
\* news has not been told.
AnswersOK ==
  /\ \A c, d \in Caller : call[c].pc = "return" /\ call[d].pc = "return" => c = d
  /\ \A c \in Caller :
       call[c].pc = "return" =>
         /\ call[c].status = auction.status
         /\ call[c].op = "finalize" => auction.status = "COMPLETED"
         /\ c = "restore" => auction.status \in {"ACTIVE", "COMPLETED"}
         /\ call[c].changed => ~Said("ended")
         /\ call[c].changed /\ call[c].op = "start" =>
              auction.status = "ACTIVE" /\ ~Said("started")

EndTimersOK ==
  \A t \in timers :
    t.kind = "end" => auction.status \in {"ACTIVE", "COMPLETED"} /\ t.due >= auction.endAt

\* The end of the active auction is on its way: a timer, a call that will set
\* it, or a call that will finalize.
Armed ==
  mode = "up" /\ ~failed /\ auction.status = "ACTIVE" =>
    \/ \E t \in timers : t.kind = "end" /\ t.due >= auction.endAt
    \/ call["create"] # NoCall
    \/ \E c \in Caller : call[c].pc = "engine" /\ call[c].op = "finalize"
    \/ \E c \in Caller : call[c].pc = "return" /\ call[c].op = "start"

TInv ==
  /\ TypeOK /\ AuctionOK /\ ModeOK /\ CallsOK /\ AskingOK /\ AnswersOK /\ EndTimersOK /\ Armed
  /\ AnnouncedOnceInOrder
-----------------------------------------------------------------------------
(* What the helpers return. *)

LEMMA RecordFacts ==
  /\ NoCall \in Call /\ NoCall.pc = "idle"
  /\ \A op \in {"start", "finalize"} :
       /\ Asking(op) \in Call /\ Asking(op).op = op /\ Asking(op).pc = "engine"
       /\ ~Asking(op).changed
BY DEF NoCall, Asking, Call, Status

\* Once the auction has started its end timer is not cut.
LEMMA EndTimerFacts ==
  ASSUME TypeOK, AuctionOK, auction.status \in {"ACTIVE", "COMPLETED"}
  PROVE  /\ EndTimer(auction) \in [kind : {"start", "end"}, due : Nat]
         /\ EndTimer(auction).kind = "end"
         /\ EndTimer(auction).due >= auction.endAt
<1>1. PICK d \in Duration : auction.endAt = auction.startAt + d
  BY DEF AuctionOK
<1>2. d \in Nat /\ d <= MaxDelay /\ MaxDelay \in Nat /\ clock \in Nat
      /\ auction.startAt \in Nat /\ auction.endAt \in Nat /\ auction.startAt <= clock
  BY TimerAssumption DEF TypeOK, AuctionOK
<1>3. Due(auction.endAt) \in Nat /\ Due(auction.endAt) >= auction.endAt
  BY <1>1, <1>2 DEF Due
<1> QED
  BY <1>3 DEF EndTimer

LEMMA DueFacts ==
  ASSUME TypeOK, NEW date \in Nat
  PROVE  Due(date) \in Nat
BY TimerAssumption DEF TypeOK, Due

\* One more announcement.
LEMMA Tell ==
  ASSUME TypeOK, AnnouncedOnceInOrder, NEW e \in {"created", "started", "ended"},
         broadcasts' = Append(broadcasts, e), ~Said(e), e = "started" => ~Said("ended")
  PROVE  /\ broadcasts' \in Seq({"created", "started", "ended"})
         /\ AnnouncedOnceInOrder'
         /\ \A f : Said(f)' <=> Said(f) \/ f = e
<1> DEFINE n == Len(broadcasts)
<1>1. /\ broadcasts \in Seq({"created", "started", "ended"}) /\ n \in Nat
      /\ broadcasts' \in Seq({"created", "started", "ended"})
      /\ Len(broadcasts') = n + 1 /\ broadcasts'[n + 1] = e
      /\ \A i \in 1..n : broadcasts'[i] = broadcasts[i]
  BY DEF TypeOK
<1>2. \A f : Said(f)' <=> Said(f) \/ f = e
  BY <1>1 DEF Said
<1>3. AnnouncedOnceInOrder'
  <2> SUFFICES ASSUME NEW i \in 1..n + 1, NEW j \in 1..n + 1, i < j
               PROVE  /\ broadcasts'[i] # broadcasts'[j]
                      /\ broadcasts'[j] = "started" => broadcasts'[i] # "ended"
    BY <1>1 DEF AnnouncedOnceInOrder
  <2>1. i \in 1..n
    BY <1>1
  <2>2. CASE j \in 1..n
    BY <1>1, <2>1, <2>2 DEF AnnouncedOnceInOrder
  <2>3. CASE j = n + 1
    BY <1>1, <2>1, <2>3 DEF Said
  <2> QED
    BY <1>1, <2>2, <2>3
<1> QED
  BY <1>1, <1>2, <1>3

LEMMA SameBroadcasts ==
  ASSUME UNCHANGED broadcasts
  PROVE  (\A f : Said(f)' <=> Said(f)) /\ (AnnouncedOnceInOrder' <=> AnnouncedOnceInOrder)
BY DEF Said, AnnouncedOnceInOrder

LEMMA InitTInv == Init => TInv
<1> SUFFICES ASSUME Init PROVE TInv
  OBVIOUS
<1>1. /\ broadcasts = <<>> /\ Len(broadcasts) = 0 /\ \A f : ~Said(f)
      /\ \A c \in Caller : call[c] = NoCall
  BY DEF Init, Said
<1>2. TypeOK
  <2>1. failed \in BOOLEAN
    BY Zenon DEF Init
  <2> QED
    BY <2>1, RecordFacts DEF Init, TypeOK, Status
<1>3. AuctionOK /\ ModeOK /\ AnnouncedOnceInOrder
  BY <1>1 DEF Init, AuctionOK, ModeOK, AnnouncedOnceInOrder, Quiet, Caller
<1>4. CallsOK /\ AskingOK /\ AnswersOK /\ EndTimersOK /\ Armed
  BY <1>1, RecordFacts
  DEF Init, CallsOK, AskingOK, AnswersOK, EndTimersOK, Armed, Caller
<1> QED
  BY <1>2, <1>3, <1>4 DEF TInv

-----------------------------------------------------------------------------
(* One lemma per action. *)

LEMMA TickStep == TInv /\ Tick => TInv'
<1> SUFFICES ASSUME TInv, Tick PROVE TInv'
  OBVIOUS
<1>1. \A f : Said(f)' <=> Said(f)
  BY SameBroadcasts DEF Tick
<1>2. clock' \in Nat /\ clock' >= clock /\ clock \in Nat
  BY DEF Tick, TInv, TypeOK
<1>3. AuctionOK' /\ ModeOK'
  BY <1>1, <1>2 DEF Tick, TInv, TypeOK, AuctionOK, ModeOK, Quiet
<1>4. AskingOK'
  BY <1>2 DEF Tick, TInv, TypeOK, AskingOK
<1>5. TypeOK' /\ CallsOK' /\ EndTimersOK' /\ Armed'
  BY <1>2 DEF Tick, TInv, TypeOK, CallsOK, EndTimersOK, Armed
<1>6. AnswersOK' /\ AnnouncedOnceInOrder'
  BY <1>1, SameBroadcasts DEF Tick, TInv, AnswersOK
<1> QED
  BY <1>3, <1>4, <1>5, <1>6 DEF TInv

LEMMA CreateStep ==
  ASSUME TInv, NEW lead \in Lead, NEW duration \in Duration, Create(lead, duration)
  PROVE  TInv'
<1> DEFINE made == [NoCall EXCEPT !.pc = "timeline", !.status = auction'.status]
<1>1. /\ Quiet /\ timers = {} /\ mode = "up"
      /\ ~Said("created") /\ ~Said("started") /\ ~Said("ended")
  BY DEF Create, TInv, AuctionOK
<1>2. /\ lead \in Nat /\ duration \in Nat /\ clock \in Nat
      /\ auction'.startAt = clock + lead /\ auction'.endAt = clock + lead + duration
      /\ auction'.status \in {"UPCOMING", "ACTIVE"}
      /\ auction'.status = "ACTIVE" => lead = 0
      /\ auction' \in [status : Status, startAt : Nat, endAt : Nat]
  BY TimerAssumption DEF Create, TInv, TypeOK, Status
<1>3. /\ made \in Call /\ made.pc = "timeline" /\ made.status = auction'.status
      /\ made # NoCall
  BY <1>2 DEF NoCall, Call, Status
<1>4. /\ call' \in [Caller -> Call] /\ call'["create"] = made
      /\ \A c \in Caller \ {"create"} : call'[c] = NoCall
  BY <1>1, <1>3 DEF Create, TInv, TypeOK, Quiet, Caller
<1>5. \A f : Said(f)' <=> Said(f)
  BY SameBroadcasts DEF Create
<1>6. TypeOK'
  BY <1>2, <1>4 DEF Create, TInv, TypeOK
<1>7. AuctionOK'
  BY <1>1, <1>2, <1>5 DEF Create, AuctionOK
<1>8. ModeOK'
  BY <1>1, <1>2, <1>3, <1>4, <1>5 DEF Create, ModeOK, Caller
<1>9. CallsOK' /\ AskingOK' /\ AnswersOK'
  BY <1>3, <1>4, RecordFacts DEF CallsOK, AskingOK, AnswersOK, Caller
<1>10. EndTimersOK' /\ Armed'
  BY <1>1, <1>3, <1>4 DEF Create, EndTimersOK, Armed
<1>11. AnnouncedOnceInOrder'
  BY SameBroadcasts DEF Create, TInv
<1> QED
  BY <1>6, <1>7, <1>8, <1>9, <1>10, <1>11 DEF TInv

LEMMA ScheduleCreatedStep == TInv /\ ScheduleCreated => TInv'
<1> SUFFICES ASSUME TInv, ScheduleCreated PROVE TInv'
  OBVIOUS
<1> DEFINE made == [auction EXCEPT !.status = call["create"].status]
<1>1. /\ ~Said("created") /\ auction.status # "NONE" /\ timers = {} /\ mode = "up"
      /\ call["startTimer"] = NoCall /\ call["endTimer"] = NoCall /\ call["restore"] = NoCall
      /\ \/ call["create"].status = "UPCOMING" /\ auction.status = "UPCOMING"
         \/ call["create"].status = "ACTIVE" /\ auction.status \in {"ACTIVE", "COMPLETED"}
  BY RecordFacts DEF ScheduleCreated, TInv, TypeOK, ModeOK, Quiet, Caller
<1>2. /\ made.status = call["create"].status
      /\ made.startAt = auction.startAt /\ made.endAt = auction.endAt
      /\ auction.startAt \in Nat /\ auction.endAt \in Nat
  BY DEF TInv, TypeOK
<1>3. /\ call' \in [Caller -> Call] /\ call'["create"] = NoCall
      /\ \A c \in Caller \ {"create"} : call'[c] = call[c]
  BY RecordFacts DEF ScheduleCreated, TInv, TypeOK, Caller
<1>4. /\ broadcasts' \in Seq({"created", "started", "ended"}) /\ AnnouncedOnceInOrder'
      /\ \A f : Said(f)' <=> Said(f) \/ f = "created"
  BY <1>1, Tell DEF ScheduleCreated, TInv
<1>5. /\ timers' \subseteq [kind : {"start", "end"}, due : Nat]
      /\ \A t \in timers' : t.kind = "end" => /\ auction.status \in {"ACTIVE", "COMPLETED"}
                                              /\ t.due >= auction.endAt
      /\ auction.status = "ACTIVE" =>
           \E t \in timers' : t.kind = "end" /\ t.due >= auction.endAt
  <2>1. CASE auction.status = "UPCOMING"
    <3>1. timers' = {[kind |-> "start", due |-> Due(auction.startAt)]}
      BY <1>1, <1>2, <2>1 DEF ScheduleCreated, Scheduled
    <3>2. Due(auction.startAt) \in Nat
      BY <1>2, DueFacts DEF TInv
    <3> QED
      BY <2>1, <3>1, <3>2
  <2>2. CASE auction.status \in {"ACTIVE", "COMPLETED"}
    <3>1. timers' = {EndTimer(auction)}
      BY <1>1, <1>2, <2>2 DEF ScheduleCreated, Scheduled, EndTimer
    <3> QED
      BY <2>2, <3>1, EndTimerFacts DEF TInv
  <2> QED
    BY <1>1, <2>1, <2>2
<1>6. TypeOK'
  BY <1>3, <1>4, <1>5 DEF ScheduleCreated, TInv, TypeOK
<1>7. AuctionOK' /\ ModeOK'
  BY <1>1, <1>3, <1>4 DEF ScheduleCreated, TInv, AuctionOK, ModeOK
<1>8. CallsOK' /\ AskingOK'
  BY <1>3, RecordFacts DEF ScheduleCreated, TInv, CallsOK, AskingOK
<1>9. AnswersOK'
  BY <1>3, <1>4, RecordFacts DEF ScheduleCreated, TInv, AnswersOK
<1>10. EndTimersOK' /\ Armed'
  BY <1>5 DEF ScheduleCreated, EndTimersOK, Armed
<1> QED
  BY <1>4, <1>6, <1>7, <1>8, <1>9, <1>10 DEF TInv

LEMMA LateBidStep == TInv /\ LateBid => TInv'
<1> SUFFICES ASSUME TInv, LateBid PROVE TInv'
  OBVIOUS
<1>1. /\ call' \in [Caller -> Call] /\ call'["bidder"] = Asking("finalize")
      /\ \A c \in Caller \ {"bidder"} : call'[c] = call[c]
  BY RecordFacts DEF LateBid, TInv, TypeOK, Caller
<1>2. \A f : Said(f)' <=> Said(f)
  BY SameBroadcasts DEF LateBid
<1>3. TypeOK'
  BY <1>1 DEF LateBid, TInv, TypeOK
<1>4. AuctionOK' /\ ModeOK'
  BY <1>1, <1>2 DEF LateBid, TInv, AuctionOK, ModeOK, Caller
<1>5. CallsOK' /\ AskingOK'
  BY <1>1, RecordFacts DEF LateBid, TInv, CallsOK, AskingOK
<1>6. AnswersOK' /\ AnnouncedOnceInOrder'
  BY <1>1, <1>2, SameBroadcasts, RecordFacts DEF LateBid, TInv, AnswersOK
<1>7. EndTimersOK' /\ Armed'
  BY <1>1, RecordFacts DEF LateBid, TInv, EndTimersOK, Armed, Caller
<1> QED
  BY <1>3, <1>4, <1>5, <1>6, <1>7 DEF TInv

\* A timeout that fires leaves its call in its place.
LEMMA FireFacts ==
  ASSUME TInv, NEW kind, NEW caller \in {"startTimer", "endTimer"},
         NEW op \in {"start", "finalize"}, Fire(kind, caller, op)
  PROVE  /\ call' \in [Caller -> Call] /\ call'[caller] = Asking(op)
         /\ \A c \in Caller \ {caller} : call'[c] = call[c]
         /\ call["create"] = NoCall /\ mode = "up" /\ auction.status # "NONE"
         /\ timers' \subseteq timers
         /\ \E t \in timers : t.kind = kind /\ t.due <= clock /\ timers' = timers \ {t}
         /\ \A f : Said(f)' <=> Said(f)
         /\ TypeOK' /\ AuctionOK' /\ ModeOK' /\ EndTimersOK' /\ AnnouncedOnceInOrder'
<1>1. /\ call' \in [Caller -> Call] /\ call'[caller] = Asking(op)
      /\ \A c \in Caller \ {caller} : call'[c] = call[c]
  BY RecordFacts DEF Fire, TInv, TypeOK, Caller
<1>2. \E t \in timers : t.kind = kind /\ t.due <= clock /\ timers' = timers \ {t}
  BY DEF Fire
<1>3. timers # {} /\ timers' \subseteq timers
  BY <1>2
<1>4. call["create"] = NoCall /\ mode = "up" /\ auction.status # "NONE"
  BY <1>3 DEF TInv, TypeOK, ModeOK, AuctionOK
<1>5. \A f : Said(f)' <=> Said(f)
  BY SameBroadcasts DEF Fire
<1>6. TypeOK'
  BY <1>1, <1>3 DEF Fire, TInv, TypeOK
<1>7. AuctionOK' /\ ModeOK'
  BY <1>1, <1>4, <1>5 DEF Fire, TInv, AuctionOK, ModeOK, Caller
<1>8. EndTimersOK' /\ AnnouncedOnceInOrder'
  BY <1>3, SameBroadcasts DEF Fire, TInv, EndTimersOK
<1> QED
  BY <1>1, <1>2, <1>3, <1>4, <1>5, <1>6, <1>7, <1>8

LEMMA FireStep == TInv /\ (FireStart \/ FireEnd) => TInv'
<1>1. ASSUME TInv, FireStart PROVE TInv'
  <2>1. Fire("start", "startTimer", "start")
    BY <1>1 DEF FireStart
  <2>2. CallsOK' /\ AskingOK'
    BY <1>1, <2>1, FireFacts, RecordFacts DEF Fire, TInv, CallsOK, AskingOK, Caller
  <2>3. AnswersOK'
    BY <1>1, <2>1, FireFacts, RecordFacts DEF Fire, TInv, AnswersOK
  <2>4. Armed'
    <3>1. \A t \in timers : t.kind = "end" => t \in timers'
      BY <1>1, <2>1, FireFacts
    <3>2. call'["startTimer"].pc = "engine" /\ call["startTimer"] = NoCall
          /\ call["create"] = NoCall
          /\ \A c \in Caller \ {"startTimer"} : call'[c] = call[c]
      BY <1>1, <2>1, FireFacts, RecordFacts DEF Fire
    <3> QED
      BY <1>1, <2>1, <3>1, <3>2, RecordFacts DEF Fire, TInv, Armed, Caller
  <2> QED
    BY <1>1, <2>1, <2>2, <2>3, <2>4, FireFacts DEF TInv
<1>2. ASSUME TInv, FireEnd PROVE TInv'
  <2>1. Fire("end", "endTimer", "finalize")
    BY <1>2 DEF FireEnd
  <2>2. auction.status \in {"ACTIVE", "COMPLETED"} /\ clock >= auction.endAt
    <3>1. PICK t \in timers : t.kind = "end" /\ t.due <= clock
      BY <1>2, <2>1, FireFacts
    <3>2. t.due \in Nat /\ auction.endAt \in Nat /\ clock \in Nat
      BY <1>2 DEF TInv, TypeOK
    <3> QED
      BY <1>2, <3>1, <3>2 DEF TInv, EndTimersOK
  <2>3. CallsOK' /\ AskingOK'
    BY <1>2, <2>1, <2>2, FireFacts, RecordFacts DEF Fire, TInv, CallsOK, AskingOK, Caller
  <2>4. AnswersOK'
    BY <1>2, <2>1, FireFacts, RecordFacts DEF Fire, TInv, AnswersOK
  <2>5. Armed'
    BY <1>2, <2>1, FireFacts, RecordFacts DEF Armed, Caller
  <2> QED
    BY <1>2, <2>1, <2>3, <2>4, <2>5, FireFacts DEF TInv
<1> QED
  BY <1>1, <1>2

\* A call ends without an answer, or everything ends.
LEMMA StopStep ==
  ASSUME TInv, Die, UNCHANGED <<clock, auction, broadcasts>>,
         failed' \in BOOLEAN, faults' \in Nat, stops' \in Nat
  PROVE  TInv'
<1>1. /\ call' \in [Caller -> Call] /\ (\A c \in Caller : call'[c] = NoCall)
      /\ timers' = {} /\ mode' = "down" /\ Quiet'
  BY RecordFacts DEF Die, Quiet
<1>2. \A f : Said(f)' <=> Said(f)
  BY SameBroadcasts
<1>3. TypeOK'
  BY <1>1 DEF TInv, TypeOK
<1>4. AuctionOK'
  BY <1>1, <1>2 DEF TInv, AuctionOK
<1>5. ModeOK' /\ CallsOK' /\ AskingOK' /\ AnswersOK' /\ EndTimersOK' /\ Armed'
  BY <1>1, RecordFacts DEF ModeOK, CallsOK, AskingOK, AnswersOK, EndTimersOK, Armed, Caller
<1>6. AnnouncedOnceInOrder'
  BY SameBroadcasts DEF TInv
<1> QED
  BY <1>3, <1>4, <1>5, <1>6 DEF TInv

LEMMA FailStep ==
  ASSUME TInv, NEW c \in Caller, Fail(c)
  PROVE  TInv'
<1>1. failed' \in BOOLEAN
  BY Zenon DEF Fail
<1>2. faults' \in Nat /\ stops' \in Nat
  BY DEF Fail, TInv, TypeOK
<1>3. CASE c = "restore"
  BY <1>1, <1>2, <1>3, StopStep DEF Fail
<1>4. CASE c # "restore"
  <2>1. /\ call' \in [Caller -> Call] /\ call'[c] = NoCall
        /\ \A d \in Caller \ {c} : call'[d] = call[d]
    BY <1>4, RecordFacts DEF Fail, TInv, TypeOK
  <2>2. \A f : Said(f)' <=> Said(f)
    BY SameBroadcasts DEF Fail
  <2>3. failed'
    BY Zenon DEF Fail
  <2>4. TypeOK'
    BY <1>1, <1>2, <1>4, <2>1 DEF Fail, TInv, TypeOK
  <2>5. AuctionOK' /\ ModeOK'
    BY <1>4, <2>1, <2>2 DEF Fail, TInv, AuctionOK, ModeOK, Quiet, Caller
  <2>6. CallsOK' /\ AskingOK'
    BY <1>4, <2>1, RecordFacts DEF Fail, TInv, CallsOK, AskingOK
  <2>7. AnswersOK' /\ AnnouncedOnceInOrder'
    BY <1>4, <2>1, <2>2, SameBroadcasts, RecordFacts DEF Fail, TInv, AnswersOK
  <2>8. EndTimersOK'
    BY <1>4 DEF Fail, TInv, EndTimersOK
  <2>9. Armed'
    BY <2>3 DEF Armed
  <2> QED
    BY <2>4, <2>5, <2>6, <2>7, <2>8, <2>9 DEF TInv
<1> QED
  BY <1>3, <1>4

LEMMA BootStep == TInv /\ Boot => TInv'
<1> SUFFICES ASSUME TInv, Boot PROVE TInv'
  OBVIOUS
<1>1. Quiet /\ timers = {} /\ mode = "down" /\ UNCHANGED <<clock, auction, broadcasts>>
  BY DEF Boot, TInv, ModeOK
<1>2. failed' \in BOOLEAN
  BY Zenon DEF Boot
<1>3. \A f : Said(f)' <=> Said(f)
  BY <1>1, SameBroadcasts
<1>4. AnnouncedOnceInOrder'
  BY <1>1, SameBroadcasts DEF TInv
<1>5. auction.startAt \in Nat /\ auction.endAt \in Nat /\ clock \in Nat
  BY DEF TInv, TypeOK
<1>6. CASE Schedulable(auction) /\ (auction.status = "UPCOMING" \/ Overdue(auction))
  <2> DEFINE op == IF Overdue(auction) THEN "finalize" ELSE "start"
  <2>1. /\ mode' = "booting" /\ timers' = {} /\ op \in {"start", "finalize"}
        /\ call' = [call EXCEPT !["restore"] = Asking(op)]
    BY <1>1, <1>6 DEF Boot
  <2>2. /\ call' \in [Caller -> Call] /\ call'["restore"] = Asking(op)
        /\ \A c \in Caller \ {"restore"} : call'[c] = NoCall
    BY <1>1, <2>1, RecordFacts DEF TInv, TypeOK, Quiet, Caller
  <2>3. /\ op = "finalize" => auction.status = "ACTIVE" /\ clock >= auction.endAt
        /\ op = "start" => auction.status = "UPCOMING" /\ clock >= auction.startAt
    BY <1>5, <1>6 DEF Schedulable, Overdue
  <2>4. TypeOK'
    BY <1>1, <1>2, <2>1, <2>2 DEF Boot, TInv, TypeOK
  <2>5. AuctionOK' /\ ModeOK' /\ EndTimersOK' /\ Armed'
    BY <1>1, <1>3, <2>1, <2>2, <2>3
    DEF TInv, AuctionOK, ModeOK, EndTimersOK, Armed, Caller
  <2>6. CallsOK' /\ AskingOK' /\ AnswersOK'
    BY <1>1, <2>1, <2>2, <2>3, RecordFacts DEF CallsOK, AskingOK, AnswersOK, Caller
  <2> QED
    BY <1>4, <2>4, <2>5, <2>6 DEF TInv
<1>7. CASE ~(Schedulable(auction) /\ (auction.status = "UPCOMING" \/ Overdue(auction)))
  <2>1. /\ mode' = "up" /\ call' = call
        /\ timers' = IF Schedulable(auction) THEN Scheduled(auction) ELSE {}
    BY <1>1, <1>7 DEF Boot
  <2>2. Schedulable(auction) <=> auction.status = "ACTIVE"
    BY <1>7 DEF Schedulable
  <2>3. /\ timers' \subseteq [kind : {"start", "end"}, due : Nat]
        /\ \A t \in timers' : t.kind = "end" => auction.status = "ACTIVE" /\ t.due >= auction.endAt
        /\ auction.status = "ACTIVE" =>
             \E t \in timers' : t.kind = "end" /\ t.due >= auction.endAt
        /\ auction.status # "ACTIVE" => timers' = {}
    <3>1. CASE auction.status = "ACTIVE"
      <4>1. timers' = {EndTimer(auction)}
        BY <2>1, <2>2, <3>1 DEF Scheduled
      <4> QED
        BY <3>1, <4>1, EndTimerFacts DEF TInv
    <3>2. CASE auction.status # "ACTIVE"
      BY <2>1, <2>2, <3>2
    <3> QED
      BY <3>1, <3>2
  <2>4. TypeOK'
    BY <1>1, <1>2, <2>1, <2>3 DEF Boot, TInv, TypeOK
  <2>5. AuctionOK' /\ ModeOK' /\ EndTimersOK' /\ Armed'
    BY <1>1, <1>3, <2>1, <2>3 DEF TInv, AuctionOK, ModeOK, EndTimersOK, Armed, Quiet, Caller
  <2>6. CallsOK' /\ AskingOK' /\ AnswersOK'
    BY <1>1, <2>1, RecordFacts DEF CallsOK, AskingOK, AnswersOK, Quiet, Caller
  <2> QED
    BY <1>4, <2>4, <2>5, <2>6 DEF TInv
<1> QED
  BY <1>6, <1>7

LEMMA EngineStep ==
  ASSUME TInv, NEW c \in Caller, Engine(c)
  PROVE  TInv'
<1> DEFINE op == call[c].op
           changed == IF op = "start" THEN MayStart(auction) ELSE MayFinalize(auction)
           next == IF op = "start" THEN "ACTIVE" ELSE "COMPLETED"
<1>1. /\ call[c].pc = "engine" /\ op \in {"start", "finalize"} /\ c # "create"
      /\ call[c] # NoCall /\ changed \in BOOLEAN
      /\ clock \in Nat /\ auction.startAt \in Nat /\ auction.endAt \in Nat
      /\ auction.status \in Status /\ auction.status # "NONE"
  BY RecordFacts
  DEF Engine, TInv, TypeOK, CallsOK, AuctionOK, Quiet, Call, MayStart, MayFinalize
<1>2. /\ auction' = IF changed THEN [auction EXCEPT !.status = next] ELSE auction
      /\ call' = [call EXCEPT ![c] = [pc |-> "return", op |-> op, changed |-> changed,
                                      status |-> auction'.status]]
  BY DEF Engine
<1>3. /\ auction'.startAt = auction.startAt /\ auction'.endAt = auction.endAt
      /\ auction'.status = IF changed THEN next ELSE auction.status
      /\ auction' \in [status : Status, startAt : Nat, endAt : Nat]
      /\ auction'.status \in Status \ {"NONE"}
  BY <1>1, <1>2 DEF TInv, TypeOK, Status
<1>4. /\ call' \in [Caller -> Call]
      /\ \A d \in Caller \ {c} : call'[d] = call[d] /\ call[d].pc # "return"
      /\ call'[c].pc = "return" /\ call'[c].op = op
      /\ call'[c].status = auction'.status /\ (call'[c].changed <=> changed)
      /\ call'[c] # NoCall
  BY <1>1, <1>2, <1>3, RecordFacts DEF Engine, TInv, TypeOK, Call
\* The outcome, by what was asked.
<1>5. /\ changed /\ op = "start" =>
           /\ auction.status = "UPCOMING" /\ auction'.status = "ACTIVE"
           /\ clock >= auction.startAt /\ ~Said("started") /\ ~Said("ended")
      /\ changed /\ op = "finalize" =>
           auction.status = "ACTIVE" /\ auction'.status = "COMPLETED" /\ ~Said("ended")
      /\ ~changed => auction'.status = auction.status
      /\ op = "finalize" => auction'.status = "COMPLETED"
      /\ op = "start" /\ c = "restore" => auction'.status \in {"ACTIVE", "COMPLETED"}
  BY <1>1, <1>3 DEF TInv, AuctionOK, AskingOK, MayStart, MayFinalize, Status
<1>6. \A f : Said(f)' <=> Said(f)
  BY SameBroadcasts DEF Engine
<1>7. TypeOK'
  BY <1>3, <1>4 DEF Engine, TInv, TypeOK
<1>8. AuctionOK'
  BY <1>1, <1>3, <1>5, <1>6 DEF Engine, TInv, AuctionOK
<1>9. ModeOK'
  <2>1. mode # "down"
    BY <1>1 DEF TInv, ModeOK, Quiet
  <2>2. mode = "up" => c # "restore"
    BY <1>1 DEF TInv, ModeOK
  <2>3. mode = "booting" => c = "restore"
    BY <1>1 DEF TInv, ModeOK
  <2>4. call["create"] # NoCall => c = "bidder"
    BY <1>1, <2>1, <2>2, <2>3 DEF TInv, TypeOK, ModeOK, Caller
  <2>5. c = "bidder" => op = "finalize"
    BY <1>1 DEF TInv, CallsOK
  <2> QED
    BY <1>1, <1>3, <1>4, <1>5, <1>6, <2>1, <2>2, <2>3, <2>4, <2>5
    DEF Engine, TInv, ModeOK, Caller
<1>10. CallsOK'
  BY <1>1, <1>4, RecordFacts DEF TInv, CallsOK
<1>11. AskingOK'
  BY <1>3, <1>4, <1>5 DEF Engine, TInv, AskingOK
<1>12. AnswersOK'
  BY <1>1, <1>4, <1>5, <1>6 DEF AnswersOK
<1>13. EndTimersOK'
  BY <1>3, <1>5 DEF Engine, TInv, EndTimersOK
<1>14. Armed'
  <2> SUFFICES ASSUME mode = "up", ~failed, auction'.status = "ACTIVE"
               PROVE  Armed'
    BY DEF Engine, Armed
  <2>1. CASE op = "start"
    BY <1>4, <2>1 DEF Armed
  <2>2. CASE op # "start"
    BY <1>1, <1>5, <2>2
  <2> QED
    BY <2>1, <2>2
<1>15. AnnouncedOnceInOrder'
  BY SameBroadcasts DEF Engine, TInv
<1> QED
  BY <1>7, <1>8, <1>9, <1>10, <1>11, <1>12, <1>13, <1>14, <1>15 DEF TInv

LEMMA ReturnStep ==
  ASSUME TInv, NEW c \in Caller, Return(c)
  PROVE  TInv'
<1> DEFINE answer == call[c]
<1>1. /\ answer.pc = "return" /\ c # "create" /\ answer # NoCall
      /\ answer \in Call /\ answer.status = auction.status /\ auction.status # "NONE"
      /\ \A d \in Caller \ {c} : call[d].pc # "return"
  BY RecordFacts DEF Return, TInv, TypeOK, CallsOK, AnswersOK, AuctionOK, Quiet
<1>2. /\ call' \in [Caller -> Call] /\ call'[c] = NoCall
      /\ \A d \in Caller \ {c} : call'[d] = call[d]
  BY RecordFacts DEF Return, TInv, TypeOK
<1>3. mode # "down" /\ (mode = "booting" <=> c = "restore") /\ mode' = "up"
      /\ mode \in {"down", "booting", "up"}
  BY <1>1 DEF Return, TInv, TypeOK, ModeOK, Quiet
\* What is told.
<1>4. /\ broadcasts' \in Seq({"created", "started", "ended"}) /\ AnnouncedOnceInOrder'
      /\ \A f : Said(f) => Said(f)'
      /\ Said("created")' <=> Said("created")
      /\ Said("started")' => Said("started") \/ auction.status \in {"ACTIVE", "COMPLETED"}
      /\ Said("ended")' => Said("ended") \/ auction.status = "COMPLETED"
  <2>1. CASE ~answer.changed
    <3>1. broadcasts' = broadcasts
      BY <2>1 DEF Return, Announced, TInv, TypeOK
    <3> QED
      BY <3>1, SameBroadcasts DEF TInv, TypeOK
  <2>2. CASE answer.changed
    <3> DEFINE e == IF answer.op = "start" THEN "started" ELSE "ended"
    <3>1. broadcasts' = Append(broadcasts, e)
      BY <2>2 DEF Return, Announced, TInv, TypeOK
    <3>2. ~Said(e) /\ (e = "started" => ~Said("ended"))
      BY <1>1, <2>2 DEF TInv, AnswersOK
    <3>3. /\ broadcasts' \in Seq({"created", "started", "ended"}) /\ AnnouncedOnceInOrder'
          /\ \A f : Said(f)' <=> Said(f) \/ f = e
      BY <3>1, <3>2, Tell DEF TInv
    <3>4. /\ e = "ended" => auction.status = "COMPLETED"
          /\ e = "started" => auction.status \in {"ACTIVE", "COMPLETED"}
      BY <1>1, <2>2 DEF TInv, AnswersOK, Call
    <3> QED
      BY <3>3, <3>4
  <2> QED
    BY <2>1, <2>2
<1>5. /\ timers \subseteq timers'
      /\ timers' \subseteq [kind : {"start", "end"}, due : Nat]
      /\ \A t \in timers' : t.kind = "end" => /\ auction.status \in {"ACTIVE", "COMPLETED"}
                                              /\ t.due >= auction.endAt
      /\ answer.op = "start" /\ auction.status = "ACTIVE" =>
           \E t \in timers' : t.kind = "end" /\ t.due >= auction.endAt
  <2>1. CASE answer.op = "start" /\ auction.status = "ACTIVE"
    <3>1. timers' = timers \union {EndTimer(auction)}
      BY <1>1, <2>1 DEF Return
    <3> QED
      BY <2>1, <3>1, EndTimerFacts DEF TInv, TypeOK, EndTimersOK
  <2>2. CASE ~(answer.op = "start" /\ auction.status = "ACTIVE")
    BY <1>1, <2>2 DEF Return, TInv, TypeOK, EndTimersOK
  <2> QED
    BY <2>1, <2>2
<1>6. TypeOK'
  BY <1>2, <1>3, <1>4, <1>5 DEF Return, TInv, TypeOK
<1>7. AuctionOK'
  BY <1>1, <1>4 DEF Return, TInv, AuctionOK
<1>8. ModeOK'
  <2>1. call'["restore"] = NoCall
    BY <1>2, <1>3 DEF TInv, ModeOK, Caller
  <2>2. call'["create"] = call["create"]
    BY <1>1, <1>2 DEF Caller
  <2>3. call["create"] # NoCall => answer.op = "finalize"
    BY <1>1, <1>3 DEF TInv, ModeOK, CallsOK, Caller
  <2>4. call["create"] # NoCall => timers' = timers
    BY <2>3 DEF Return
  <2> QED
    BY <1>1, <1>2, <1>3, <1>4, <2>1, <2>2, <2>4 DEF Return, TInv, ModeOK, Caller
<1>9. CallsOK' /\ AskingOK' /\ AnswersOK'
  BY <1>1, <1>2, RecordFacts DEF Return, TInv, CallsOK, AskingOK, AnswersOK
<1>10. EndTimersOK'
  BY <1>5 DEF Return, EndTimersOK
<1>11. Armed'
  <2> SUFFICES ASSUME ~failed, auction.status = "ACTIVE" PROVE Armed'
    BY DEF Return, Armed
  <2>1. CASE answer.op = "start"
    BY <1>5, <2>1 DEF Return, Armed
  <2>2. CASE answer.op # "start"
    BY <1>1, <2>2 DEF TInv, AnswersOK, Call
  <2> QED
    BY <2>1, <2>2
<1> QED
  BY <1>4, <1>6, <1>7, <1>8, <1>9, <1>10, <1>11 DEF TInv

LEMMA NextTInv == TInv /\ [Next]_vars => TInv'
<1> SUFFICES ASSUME TInv, [Next]_vars PROVE TInv'
  OBVIOUS
<1>1. CASE UNCHANGED vars
  BY <1>1 DEF vars, TInv, TypeOK, AuctionOK, ModeOK, CallsOK, AskingOK, AnswersOK,
    EndTimersOK, Armed, AnnouncedOnceInOrder, Said, Quiet
<1>2. CASE Stop
  <2>1. failed' \in BOOLEAN
    BY <1>2, Zenon DEF Stop, TInv, TypeOK
  <2>2. faults' \in Nat /\ stops' \in Nat
    BY <1>2 DEF Stop, TInv, TypeOK
  <2> QED
    BY <1>2, <2>1, <2>2, StopStep DEF Stop
<1> QED
  BY <1>1, <1>2, TickStep, CreateStep, ScheduleCreatedStep, FireStep, LateBidStep,
     BootStep, EngineStep, ReturnStep, FailStep
  DEF Next, Proceed

-----------------------------------------------------------------------------
(* Theorems. *)

\* The inductive invariant of the timers.
THEOREM TimerInvariance == Spec => []TInv
BY InitTInv, NextTInv, PTL DEF Spec

\* Variables keep their types.
THEOREM TimerTypeCorrect == Spec => []TypeOK
<1>1. TInv => TypeOK
  BY DEF TInv
<1> QED
  BY <1>1, TimerInvariance, PTL

\* Clients are told of a start or an end once, and never of a start after the
\* end, whoever finalizes and however often the process restarts.
THEOREM ToldOnceInOrder == Spec => []AnnouncedOnceInOrder
<1>1. TInv => AnnouncedOnceInOrder
  BY DEF TInv
<1> QED
  BY <1>1, TimerInvariance, PTL

\* An idle process none of whose calls has failed has the end timer of the
\* active auction set, also after a restart.
THEOREM EndTimerIsSet == Spec => []ActiveAuctionArmed
<1>1. TInv => ActiveAuctionArmed
  BY RecordFacts DEF TInv, Armed, ActiveAuctionArmed, Quiet, Caller
<1> QED
  BY <1>1, TimerInvariance, PTL
=============================================================================
