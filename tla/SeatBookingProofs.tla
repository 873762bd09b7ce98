-------------------------- MODULE SeatBookingProofs --------------------------
(***************************************************************************)
(* Proofs about SeatBooking, for any number of requests, users, events,    *)
(* seats, orders, calls, retries and faults.                               *)
(*                                                                         *)
(* Two facts carry the rest.  The rows of an open outer transaction are    *)
(* locked (RowsLocked), so its seats stay held by its user until it ends   *)
(* (OpenConfirmOwnsSeats).  And a booking whose seats are not booked yet   *)
(* belongs to an open transaction that is about to book them, unless that  *)
(* transaction ended early or an acknowledgement was lost (SeatsFollow).   *)
(***************************************************************************)
EXTENDS SeatBooking, SequenceTheorems, TLAPS

-----------------------------------------------------------------------------
(* The inductive invariant *)

LinksOf(r) ==
    /\ pc[r] # "idle" => confirming[r].call \in DOMAIN calls
    /\ confirming[r].open => pc[r] # "idle"
    /\ result[r] # 0 =>
          /\ pc[r] = "release"
          /\ result[r] \in BookingIds
          /\ bookings[result[r]].job = confirming[r].call

\* What a request, its call and its booking know of each other.
SeatLinks ==
    /\ \A r \in Workers : LinksOf(r)
    /\ \A b \in BookingIds :
        /\ bookings[b].job \in DOMAIN calls
        /\ bookings[b].user = calls[bookings[b].job].user
    /\ \A k \in DOMAIN calls : calls[k].order # << >>
    /\ \A c \in Cancellers : cancelling[c] # 0 => cancelling[c] \in BookingIds

\* The rows an outer transaction has updated are locked.
RowsLocked ==
    \A r1, r2 \in Workers :
        confirming[r1].open /\ confirming[r2].open /\ r1 # r2 =>
            ToSet(CallOf(r1).order) \cap ToSet(CallOf(r2).order) = {}

\* An outer transaction is open as long as its request is busy.
OpenWhileBusy == aborts = 0 => \A r \in Workers : pc[r] # "idle" => confirming[r].open

\* A booking has its seats, or the transaction that will book them is open.
SeatsFollow ==
    aborts = 0 /\ lostAcks = 0 =>
        \A b \in BookingIds :
            \/ \A s \in SeatsOf(b) : seat[s].status = "booked"
            \/ \E r \in Workers : confirming[r].open /\ result[r] = b

SeatInv == SeatTypeOK /\ SeatLinks

-----------------------------------------------------------------------------
(* Type correctness *)

\* The list of a call that goes on to createBooking is not empty.
LEMMA InputType ==
    ASSUME SeatInv, NEW r \in Workers, pc[r] # "idle"
    PROVE  /\ confirming[r].call \in DOMAIN calls /\ confirming[r].call \in Nat
           /\ CallOf(r) \in SeatCall
           /\ SeatInput(CallOf(r)) \in CreateBookingInput
           /\ SeatInput(CallOf(r)).seats # 0
<1>1. confirming[r].call \in DOMAIN calls /\ calls \in Seq(SeatCall)
  BY DEF SeatInv, SeatTypeOK, SeatLinks, LinksOf
<1>2. CallOf(r) \in SeatCall /\ CallOf(r).order # << >> /\ confirming[r].call \in Nat
  BY <1>1 DEF CallOf, SeatInv, SeatLinks, LinksOf
<1>3. CallOf(r).order \in Seq(Seats)
  BY <1>2, SeatAssumption DEF SeatCall
<1>4. Len(CallOf(r).order) \in Nat \ {0}
  BY <1>2, <1>3, EmptySeq
<1>5. SeatInput(CallOf(r)) \in CreateBookingInput
  BY <1>2, <1>4 DEF SeatInput, CreateBookingInput, SeatCall
<1>6. QED
  BY <1>1, <1>2, <1>4, <1>5 DEF SeatInput

ControlOK ==
    /\ pc \in [Workers -> Steps]
    /\ attempt \in [Workers -> 0 .. (MaxRetries - 1)]
    /\ result \in [Workers -> Nat]
    /\ lostAcks \in 0 .. MaxLostAcks
    /\ confirming \in [Workers -> [call: 0 .. MaxCalls, open: BOOLEAN]]

\* The catch block of createBooking counts no further than its loop does.
LEMMA CatchErrorType ==
    ASSUME ControlOK, NEW r \in Workers, CatchError(r)
    PROVE  /\ pc' \in [Workers -> Steps]
           /\ attempt' \in [Workers -> 0 .. (MaxRetries - 1)]
           /\ \A x \in Workers : x # r => pc'[x] = pc[x]
           /\ pc'[r] \in {"read", "release"}
<1>1. CASE AttemptsLeft(r)
  <2>1. attempt[r] + 1 \in 0 .. (MaxRetries - 1)
    BY <1>1, ServiceAssumption DEF AttemptsLeft, ControlOK
  <2>2. QED
    BY <1>1, <2>1 DEF CatchError, Goto, ControlOK, Steps
<1>2. CASE ~AttemptsLeft(r)
  BY <1>2 DEF CatchError, Goto, ControlOK, Steps
<1>3. QED
  BY <1>1, <1>2

\* Where a request is after a step of its createBooking: it stays in its call,
\* and has an answer only when its commit was acknowledged.
LEMMA CreateEffect ==
    ASSUME SeatInv, NEW r \in Workers, CreateSeatBooking(r)
    PROVE  /\ pc' \in [Workers -> Steps]
           /\ attempt' \in [Workers -> 0 .. (MaxRetries - 1)]
           /\ \A x \in Workers : x # r => pc'[x] = pc[x]
           /\ pc[r] \in {"read", "commit"} /\ pc'[r] \in {"read", "commit", "release"}
           /\ lostAcks' \in 0 .. MaxLostAcks
           /\ UNCHANGED <<seat, calls, confirming, aborts, available, cancelling>>
           /\ \/ UNCHANGED <<bookings, result, lostAcks>>
              \/ /\ pc[r] = "commit"
                 /\ bookings' = Append(bookings, NewBooking(SeatInput(CallOf(r)), confirming[r].call))
                 /\ \/ /\ result' = [result EXCEPT ![r] = Len(bookings) + 1]
                       /\ pc'[r] = "release"
                       /\ UNCHANGED lostAcks
                    \/ lostAcks' = lostAcks + 1 /\ UNCHANGED result
<1> DEFINE d == SeatInput(CallOf(r))
<1>0. ControlOK /\ d.seatLevel = TRUE
  BY DEF SeatInv, SeatTypeOK, ServiceTypeOK, ControlOK, SeatInput
<1> HIDE DEF d
<1>1. CASE ReadAccepts(r, d)
  BY <1>0, <1>1 DEF ReadAccepts, Goto, ControlOK, Steps, CreateSeatBooking
<1>2. CASE Commit(r, d, confirming[r].call)
  BY <1>0, <1>2 DEF Commit, WriteBooking, Decremented, Goto, ControlOK, Steps, CreateSeatBooking, d
<1>3. CASE CommitUnacknowledged(r, d, confirming[r].call)
  <2>1. lostAcks' \in 0 .. MaxLostAcks
    BY <1>0, <1>3, ServiceAssumption DEF CommitUnacknowledged, ControlOK
  <2>2. CatchError(r)
    BY <1>3 DEF CommitUnacknowledged
  <2>3. QED
    BY <1>0, <1>3, <2>1, <2>2, CatchErrorType
       DEF CommitUnacknowledged, CatchError, WriteBooking, Decremented, CreateSeatBooking, d
<1>4. CASE TransactionFails(r)
  <2>1. CatchError(r)
    BY <1>4 DEF TransactionFails
  <2>2. QED
    BY <1>0, <1>4, <2>1, CatchErrorType DEF TransactionFails, CatchError, CreateSeatBooking, ControlOK
<1>5. QED
  BY <1>1, <1>2, <1>3, <1>4 DEF CreateSeatBooking, d

\* The booking a request inserts is the one its call asked for.
LEMMA SeatInsert ==
    ASSUME SeatInv, NEW r \in Workers, pc[r] # "idle",
           bookings' = Append(bookings, NewBooking(SeatInput(CallOf(r)), confirming[r].call)),
           NEW n, n = Len(bookings) + 1
    PROVE  /\ n \in Nat \ {0} /\ n \notin DOMAIN bookings
           /\ bookings' \in Seq(Booking)
           /\ DOMAIN bookings' = DOMAIN bookings \cup {n}
           /\ \A b \in DOMAIN bookings : bookings'[b] = bookings[b]
           /\ bookings'[n].job = confirming[r].call
           /\ bookings'[n].user = CallOf(r).user
           /\ bookings'[n].status = "confirmed"
<1> DEFINE d == SeatInput(CallOf(r))
           new == NewBooking(d, confirming[r].call)
<1>1. bookings \in Seq(Booking) /\ d \in CreateBookingInput /\ d.seats # 0
      /\ confirming[r].call \in Nat
  BY InputType DEF SeatInv, SeatTypeOK, ServiceTypeOK
<1>2. new \in Booking
  BY <1>1 DEF NewBooking, Booking, CreateBookingInput, Status
<1>3. new.job = confirming[r].call /\ new.user = CallOf(r).user /\ new.status = "confirmed"
  BY DEF NewBooking, SeatInput
<1>4. QED
  BY <1>1, <1>2, <1>3, AppendProperties

\* A cancellation leaves seats, calls and requests alone, and of the bookings
\* it changes one, keeping its user and its call.
LEMMA CancelSeatEffect ==
    ASSUME SeatInv, NEW c \in Cancellers, CancelSeatBooking(c)
    PROVE  /\ UNCHANGED <<seat, calls, confirming, aborts, pc, attempt, result, lostAcks>>
           /\ available' \in [Events -> Int]
           /\ bookings' \in Seq(Booking) /\ DOMAIN bookings' = DOMAIN bookings
           /\ \A b \in DOMAIN bookings :
                 bookings'[b].job = bookings[b].job /\ bookings'[b].user = bookings[b].user
           /\ \/ UNCHANGED bookings
              \/ \E b \in DOMAIN bookings :
                    /\ bookings'[b].status = "cancelled"
                    /\ \A k \in DOMAIN bookings : k # b => bookings'[k] = bookings[k]
           /\ cancelling' \in [Cancellers -> Nat]
           /\ \A x \in Cancellers : cancelling'[x] # 0 => cancelling'[x] \in DOMAIN bookings
<1>0. /\ bookings \in Seq(Booking) /\ available \in [Events -> Int]
      /\ cancelling \in [Cancellers -> Nat]
      /\ \A x \in Cancellers : cancelling[x] # 0 => cancelling[x] \in DOMAIN bookings
  BY DEF SeatInv, SeatTypeOK, ServiceTypeOK, SeatLinks, LinksOf, BookingIds
<1>1. ASSUME NEW u \in Users, NEW b \in BookingIds, CancelRead(c, u, b)
      PROVE  /\ cancelling' \in [Cancellers -> Nat]
             /\ \A x \in Cancellers : cancelling'[x] # 0 => cancelling'[x] \in DOMAIN bookings
  <2>1. b \in Nat /\ b \in DOMAIN bookings
    BY <1>0 DEF BookingIds
  <2>2. QED
    BY <1>0, <1>1, <2>1 DEF CancelRead
<1>2. ASSUME CancelCommit(c) \/ CancelFails(c)
      PROVE  /\ cancelling' \in [Cancellers -> Nat]
             /\ \A x \in Cancellers : cancelling'[x] # 0 => cancelling'[x] \in DOMAIN bookings
  <2>1. cancelling' = [cancelling EXCEPT ![c] = 0]
    BY <1>2 DEF CancelCommit, CancelFails
  <2>2. QED
    BY <1>0, <2>1
<1>3. ASSUME CancelCommit(c), NEW b, b = cancelling[c]
      PROVE  /\ available' \in [Events -> Int]
             /\ bookings' \in Seq(Booking) /\ DOMAIN bookings' = DOMAIN bookings
             /\ \A k \in DOMAIN bookings :
                   bookings'[k].job = bookings[k].job /\ bookings'[k].user = bookings[k].user
             /\ b \in DOMAIN bookings /\ bookings'[b].status = "cancelled"
             /\ \A k \in DOMAIN bookings : k # b => bookings'[k] = bookings[k]
  <2> DEFINE row == [bookings[b] EXCEPT !.status = "cancelled", !.refunds = bookings[b].refunds + 1]
  <2>1. b \in DOMAIN bookings /\ bookings[b] \in Booking
    BY <1>0, <1>3 DEF CancelCommit
  <2>2. bookings[b].refunds + 1 \in Nat /\ bookings[b].seats \in Int
    BY <2>1 DEF Booking
  <2>3. row \in Booking /\ row.job = bookings[b].job /\ row.user = bookings[b].user
        /\ row.status = "cancelled"
    BY <2>1, <2>2 DEF Booking, Status
  <2>4. bookings' = [bookings EXCEPT ![b] = row]
    BY <1>0, <1>3, <2>1 DEF CancelCommit, Booking
  <2>5. /\ bookings' \in Seq(Booking) /\ DOMAIN bookings' = DOMAIN bookings
        /\ \A k \in DOMAIN bookings : bookings'[k] = IF k = b THEN row ELSE bookings[k]
    BY <1>0, <2>1, <2>3, <2>4, ExceptSeq
  <2>6. available' = [available EXCEPT ![bookings[b].event] = @ + bookings[b].seats]
    BY <1>3 DEF CancelCommit, Restored
  <2>7. available' \in [Events -> Int]
    <3>1. \A e \in Events : available[e] + bookings[b].seats \in Int
      BY <1>0, <2>2
    <3>2. QED
      BY <1>0, <2>6, <3>1
  <2>8. QED
    BY <2>1, <2>3, <2>5, <2>7
<1>4. QED
  BY <1>0, <1>1, <1>2, <1>3 DEF CancelSeatBooking, CancelRead, CancelCommit, CancelFails

\* A hold takes seats that were available.
LEMMA HoldEffect ==
    ASSUME SeatInv, NEW u \in Users, NEW e \in EventIds, NEW o \in Orders, HoldSeats(u, e, o)
    PROVE  /\ ToSet(o) \subseteq Seats
           /\ \A s \in ToSet(o) : seat[s] = [status |-> "available", heldBy |-> Nobody]
           /\ seat' = [s \in Seats |-> IF s \in ToSet(o) THEN [status |-> "held", heldBy |-> u]
                                                         ELSE seat[s]]
           /\ UNCHANGED <<calls, confirming, aborts, available, bookings, pc,
                          attempt, result, lostAcks, cancelling>>
<1>1. ToSet(o) \subseteq Holdable(e)
  BY DEF HoldSeats, UpdatesAll
<1>2. \A s \in ToSet(o) : s \in Seats /\ seat[s].status = "available" /\ seat[s] \in Seat
                          /\ seat[s].heldBy = Nobody
  BY <1>1 DEF Holdable, SeatInv, SeatTypeOK
<1>3. \A s \in ToSet(o) : seat[s] = [status |-> "available", heldBy |-> Nobody]
  BY <1>2 DEF Seat
<1>4. QED
  BY <1>2, <1>3 DEF HoldSeats, Updated, serviceVars

\* What the call of a request becomes when it ends, and when it begins.
LEMMA RespondEffect ==
    ASSUME SeatInv, NEW r \in Workers, Respond(r)
    PROVE  /\ pc' \in [Workers -> Steps] /\ attempt' \in [Workers -> 0 .. (MaxRetries - 1)]
           /\ result' \in [Workers -> Nat]
           /\ confirming' \in [Workers -> [call: 0 .. MaxCalls, open: BOOLEAN]]
           /\ pc'[r] = "idle" /\ result'[r] = 0 /\ confirming'[r] = NotConfirming
           /\ ~confirming'[r].open
           /\ \A x \in Workers : x # r =>
                 pc'[x] = pc[x] /\ result'[x] = result[x] /\ confirming'[x] = confirming[x]
           /\ UNCHANGED <<calls, available, bookings, lostAcks, cancelling>>
<1>1. ControlOK
  BY DEF SeatInv, SeatTypeOK, ServiceTypeOK, ControlOK
<1>2. 0 \in 0 .. (MaxRetries - 1) /\ 0 \in 0 .. MaxCalls
  BY ServiceAssumption, SeatAssumption
<1>3. QED
  BY <1>1, <1>2 DEF Respond, Goto, Steps, ControlOK, NotConfirming

LEMMA ConfirmEffect ==
    ASSUME SeatInv, NEW r \in Workers, NEW u \in Users, NEW e \in EventIds, NEW o \in Orders,
           ConfirmSeats(r, u, e, o), NEW k, k = Len(calls) + 1
    PROVE  /\ pc' \in [Workers -> Steps] /\ attempt' \in [Workers -> 0 .. (MaxRetries - 1)]
           /\ k \notin DOMAIN calls /\ k \in 1 .. MaxCalls
           /\ calls' \in Seq(SeatCall) /\ DOMAIN calls' = DOMAIN calls \cup {k} /\ Len(calls') = k
           /\ \A j \in DOMAIN calls : calls'[j] = calls[j]
           /\ calls'[k] = [user |-> u, event |-> e, order |-> o] /\ o # << >>
           /\ confirming' \in [Workers -> [call: 0 .. MaxCalls, open: BOOLEAN]]
           /\ pc[r] = "idle" /\ pc'[r] = "read" /\ result'[r] = 0
           /\ confirming'[r] = [call |-> k, open |-> TRUE]
           /\ \A x \in Workers : x # r => pc'[x] = pc[x] /\ confirming'[x] = confirming[x]
           /\ UNCHANGED <<seat, aborts, available, bookings, result, lostAcks, cancelling>>
           /\ \A s \in ToSet(o) : ~RowLocked(s)
           /\ ToSet(o) \subseteq HeldBy(u, e)
<1>1. ControlOK /\ calls \in Seq(SeatCall) /\ Len(calls) < MaxCalls
  BY DEF SeatInv, SeatTypeOK, ServiceTypeOK, ControlOK, ConfirmSeats
<1>2. k \in 1 .. MaxCalls /\ k \in 0 .. MaxCalls /\ 0 \in 0 .. (MaxRetries - 1)
  BY <1>1, ServiceAssumption, SeatAssumption
<1>3. [user |-> u, event |-> e, order |-> o] \in SeatCall
  BY DEF SeatCall
<1>4. /\ calls' \in Seq(SeatCall) /\ DOMAIN calls' = DOMAIN calls \cup {k} /\ Len(calls') = k
      /\ \A j \in DOMAIN calls : calls'[j] = calls[j]
      /\ calls'[k] = [user |-> u, event |-> e, order |-> o]
      /\ k \notin DOMAIN calls
  BY <1>1, <1>3, AppendProperties DEF ConfirmSeats
<1>5. FirstStep(SeatInput([user |-> u, event |-> e, order |-> o])) = "read"
  BY DEF FirstStep, SeatInput
<1>6. result[r] = 0
  BY DEF SeatInv, SeatLinks, LinksOf, ConfirmSeats
<1>7. /\ pc' = [pc EXCEPT ![r] = "read"]
      /\ attempt' = [attempt EXCEPT ![r] = 0]
      /\ result' = [result EXCEPT ![r] = 0]
      /\ confirming' = [confirming EXCEPT ![r] = [call |-> k, open |-> TRUE]]
  BY <1>5 DEF ConfirmSeats, CallCreateBooking, Goto
<1>8. UNCHANGED <<seat, aborts, available, bookings, lostAcks, cancelling>>
      /\ pc[r] = "idle" /\ o # << >>
      /\ (\A s \in ToSet(o) : ~RowLocked(s)) /\ ToSet(o) \subseteq HeldBy(u, e)
  BY DEF ConfirmSeats, CallCreateBooking, Named, UpdatesAll
<1>9. QED
  BY <1>1, <1>2, <1>4, <1>6, <1>7, <1>8 DEF ControlOK, Steps

\* The outer transaction is gone; its request does not notice.
LEMMA OuterEndsEffect ==
    ASSUME SeatInv, NEW r \in Workers, OuterEnds(r)
    PROVE  /\ confirming' \in [Workers -> [call: 0 .. MaxCalls, open: BOOLEAN]]
           /\ confirming[r].open /\ ~confirming'[r].open
           /\ confirming'[r].call = confirming[r].call
           /\ \A x \in Workers : x # r => confirming'[x] = confirming[x]
           /\ aborts' = aborts + 1 /\ aborts' \in 1 .. MaxAborts
           /\ UNCHANGED <<seat, calls, available, bookings, pc, attempt, result, lostAcks, cancelling>>
<1>1. /\ confirming \in [Workers -> [call: 0 .. MaxCalls, open: BOOLEAN]]
      /\ aborts \in 0 .. MaxAborts
  BY DEF SeatInv, SeatTypeOK
<1>2. aborts' = aborts + 1 /\ aborts' \in 1 .. MaxAborts
  BY <1>1, SeatAssumption DEF OuterEnds
<1> DEFINE gone == [confirming[r] EXCEPT !.open = FALSE]
<1>3. gone \in [call: 0 .. MaxCalls, open: BOOLEAN] /\ ~gone.open /\ gone.call = confirming[r].call
  BY <1>1
<1>4. confirming' = [confirming EXCEPT ![r] = gone]
  BY <1>1 DEF OuterEnds
<1> HIDE DEF gone
<1>5. QED
  BY <1>1, <1>2, <1>3, <1>4 DEF OuterEnds, serviceVars

\* The process dies in the middle of a call: aborts counts it.
LEMMA AbortsType ==
    ASSUME SeatInv, NEW r \in Workers, ConfirmDies(r)
    PROVE  aborts' = aborts + 1 /\ aborts' \in 1 .. MaxAborts
  BY SeatAssumption DEF SeatInv, SeatTypeOK, ConfirmDies

\* What a step of each kind can be, in the terms of the lemmas above.
LEMMA SeatCases ==
    ASSUME SeatNext, NEW Goal,
           ASSUME NEW u \in Users, NEW e \in EventIds, NEW o \in Orders, HoldSeats(u, e, o)
           PROVE Goal,
           ASSUME NEW r \in Workers, NEW u \in Users, NEW e \in EventIds, NEW o \in Orders,
                  ConfirmSeats(r, u, e, o)
           PROVE Goal,
           ASSUME NEW r \in Workers, CreateSeatBooking(r) PROVE Goal,
           ASSUME NEW r \in Workers, ConfirmCommit(r) PROVE Goal,
           ASSUME NEW r \in Workers, ConfirmFails(r) PROVE Goal,
           ASSUME NEW r \in Workers, OuterEnds(r) PROVE Goal,
           ASSUME NEW r \in Workers, ConfirmDies(r) PROVE Goal,
           ASSUME NEW c \in Cancellers, CancelSeatBooking(c) PROVE Goal
    PROVE  Goal
  BY DEF SeatNext, RequestHold

\* What Updated does to the seats of an order, all of which exist.
LEMMA UpdatedType ==
    ASSUME SeatInv, NEW r \in Workers, ConfirmCommit(r)
    PROVE  /\ seat' \in [Seats -> Seat]
           /\ \A s \in Seats : seat'[s] = IF s \in ToSet(CallOf(r).order)
                                            THEN [status |-> "booked", heldBy |-> Nobody]
                                            ELSE seat[s]
           /\ pc[r] = "release" /\ result[r] # 0 /\ confirming[r].open /\ Respond(r)
           /\ UNCHANGED aborts
<1>1. BookedRow(CallOf(r).user) = [status |-> "booked", heldBy |-> Nobody]
      /\ BookedRow(CallOf(r).user) \in Seat
  BY DEF BookedRow, Seat
<1>2. seat \in [Seats -> Seat]
  BY DEF SeatInv, SeatTypeOK
<1>3. QED
  BY <1>1, <1>2 DEF ConfirmCommit, Updated

\* Every step keeps the types and the links.
LEMMA SeatInvStep ==
    ASSUME SeatInv, [SeatNext]_seatVars
    PROVE  SeatInv'
<1> DEFINE Goal == SeatInv'
<1>0. /\ seat \in [Seats -> Seat]
      /\ \A s \in Seats : seat[s].status = "held" <=> seat[s].heldBy # Nobody
      /\ calls \in Seq(SeatCall) /\ Len(calls) <= MaxCalls
      /\ aborts \in 0 .. MaxAborts
      /\ ServiceTypeOK
  BY DEF SeatInv, SeatTypeOK
<1>1. ASSUME NEW u \in Users, NEW e \in EventIds, NEW o \in Orders, HoldSeats(u, e, o)
      PROVE Goal
  <2>1. [status |-> "held", heldBy |-> u] \in Seat /\ u # Nobody
    BY SeatAssumption DEF Seat
  <2>2. seat' = [s \in Seats |-> IF s \in ToSet(o) THEN [status |-> "held", heldBy |-> u]
                                                  ELSE seat[s]]
        /\ UNCHANGED <<calls, confirming, aborts, available, bookings, pc,
                       attempt, result, lostAcks, cancelling>>
    BY <1>1, HoldEffect
  <2>3. seat' \in [Seats -> Seat]
        /\ \A s \in Seats : seat'[s].status = "held" <=> seat'[s].heldBy # Nobody
    BY <1>0, <2>1, <2>2
  <2>4. SeatTypeOK'
    BY <2>2, <2>3 DEF SeatTypeOK, SeatInv, ServiceTypeOK
  <2>5. SeatLinks'
    BY <2>2 DEF SeatLinks, LinksOf, SeatInv, CallOf, BookingIds
  <2>6. QED
    BY <2>4, <2>5 DEF SeatInv
<1>2. ASSUME NEW r \in Workers, NEW u \in Users, NEW e \in EventIds, NEW o \in Orders,
             ConfirmSeats(r, u, e, o)
      PROVE Goal
  <2>1. PICK k : k = Len(calls) + 1
    OBVIOUS
  <2>2. /\ k \in 1 .. MaxCalls /\ k \notin DOMAIN calls
        /\ calls' \in Seq(SeatCall) /\ Len(calls') = k
        /\ DOMAIN calls' = DOMAIN calls \cup {k}
        /\ \A j \in DOMAIN calls : calls'[j] = calls[j]
        /\ calls'[k] = [user |-> u, event |-> e, order |-> o] /\ o # << >>
    BY <1>2, <2>1, ConfirmEffect
  <2>3. /\ pc' \in [Workers -> Steps] /\ attempt' \in [Workers -> 0 .. (MaxRetries - 1)]
        /\ confirming' \in [Workers -> [call: 0 .. MaxCalls, open: BOOLEAN]]
        /\ pc[r] = "idle" /\ pc'[r] = "read" /\ result'[r] = 0
        /\ confirming'[r] = [call |-> k, open |-> TRUE]
        /\ \A x \in Workers : x # r => pc'[x] = pc[x] /\ confirming'[x] = confirming[x]
        /\ UNCHANGED <<seat, aborts, available, bookings, result, lostAcks, cancelling>>
    BY <1>2, <2>1, ConfirmEffect
  <2>4. SeatTypeOK'
    BY <1>0, <2>2, <2>3, SeatAssumption DEF SeatTypeOK, ServiceTypeOK
  <2>5. SeatLinks'
    <3>1. SeatLinks
      BY DEF SeatInv
    <3>2. \A x \in Workers : LinksOf(x)'
      <4>1. LinksOf(r)'
        BY <2>2, <2>3 DEF LinksOf
      <4>2. \A x \in Workers : x # r => LinksOf(x)'
        BY <2>2, <2>3, <3>1 DEF SeatLinks, LinksOf, BookingIds
      <4>3. QED
        BY <4>1, <4>2
    <3>3. (\A b \in BookingIds :
              /\ bookings[b].job \in DOMAIN calls
              /\ bookings[b].user = calls[bookings[b].job].user)'
      BY <2>2, <2>3, <3>1 DEF SeatLinks, LinksOf, BookingIds
    <3>4. (\A j \in DOMAIN calls : calls[j].order # << >>)'
      BY <2>2, <2>3, <3>1 DEF SeatLinks, LinksOf
    <3>5. (\A c \in Cancellers : cancelling[c] # 0 => cancelling[c] \in BookingIds)'
      BY <2>3, <3>1 DEF SeatLinks, LinksOf, BookingIds
    <3>6. QED
      BY <3>2, <3>3, <3>4, <3>5 DEF SeatLinks, LinksOf
  <2>6. QED
    BY <2>4, <2>5 DEF SeatInv
<1>3. ASSUME NEW r \in Workers, CreateSeatBooking(r) PROVE Goal
  <2>1. CASE UNCHANGED <<bookings, result, lostAcks>>
    <3>1. /\ pc' \in [Workers -> Steps] /\ attempt' \in [Workers -> 0 .. (MaxRetries - 1)]
          /\ \A x \in Workers : x # r => pc'[x] = pc[x]
          /\ pc[r] \in {"read", "commit"} /\ pc'[r] \in {"read", "commit", "release"}
          /\ UNCHANGED <<seat, calls, confirming, aborts, available, cancelling>>
      BY <1>3, CreateEffect
    <3>2. SeatTypeOK'
      BY <1>0, <2>1, <3>1 DEF SeatTypeOK, SeatInv, ServiceTypeOK
    <3>3. SeatLinks'
      BY <2>1, <3>1 DEF SeatLinks, LinksOf, SeatInv, CallOf, BookingIds
    <3>4. QED
      BY <3>2, <3>3 DEF SeatInv
  <2>2. CASE bookings' = Append(bookings, NewBooking(SeatInput(CallOf(r)), confirming[r].call))
    <3>1. PICK n : n = Len(bookings) + 1
      OBVIOUS
    <3>2. /\ pc' \in [Workers -> Steps] /\ attempt' \in [Workers -> 0 .. (MaxRetries - 1)]
          /\ lostAcks' \in 0 .. MaxLostAcks
          /\ \A x \in Workers : x # r => pc'[x] = pc[x]
          /\ pc[r] \in {"read", "commit"} /\ pc'[r] \in {"read", "commit", "release"}
          /\ UNCHANGED <<seat, calls, confirming, aborts, available, cancelling>>
      BY <1>3, CreateEffect
    <3>3. \/ result' = [result EXCEPT ![r] = n] /\ pc'[r] = "release"
          \/ UNCHANGED result
          \/ UNCHANGED bookings
      BY <1>3, <3>1, CreateEffect
    <3>4. /\ n \in Nat \ {0} /\ n \notin DOMAIN bookings
          /\ bookings' \in Seq(Booking)
          /\ DOMAIN bookings' = DOMAIN bookings \cup {n}
          /\ \A b \in DOMAIN bookings : bookings'[b] = bookings[b]
          /\ bookings'[n].job = confirming[r].call
          /\ bookings'[n].user = CallOf(r).user
      BY <2>2, <3>1, <3>2, SeatInsert
    <3>5. \/ result' = [result EXCEPT ![r] = n] /\ pc'[r] = "release"
          \/ UNCHANGED result
      BY <3>3, <3>4
    <3>6. SeatTypeOK'
      BY <1>0, <3>2, <3>4, <3>5 DEF SeatTypeOK, SeatInv, ServiceTypeOK
    <3>7. SeatLinks'
      <4>1. SeatLinks /\ result \in [Workers -> Nat]
        BY <1>0 DEF SeatInv, ServiceTypeOK
      <4>2. \A x \in Workers : LinksOf(x)'
        <5>1. LinksOf(r)'
          BY <3>2, <3>4, <3>5, <4>1 DEF SeatLinks, LinksOf, BookingIds
        <5>2. \A x \in Workers : x # r => LinksOf(x)'
          BY <3>2, <3>4, <3>5, <4>1 DEF SeatLinks, LinksOf, BookingIds
        <5>3. QED
          BY <5>1, <5>2
      <4>3. (\A b \in BookingIds :
                /\ bookings[b].job \in DOMAIN calls
                /\ bookings[b].user = calls[bookings[b].job].user)'
        BY <3>2, <3>4, <4>1 DEF SeatLinks, LinksOf, BookingIds, CallOf
      <4>4. QED
        BY <3>2, <3>4, <4>1, <4>2, <4>3 DEF SeatLinks, LinksOf, BookingIds
    <3>8. QED
      BY <3>6, <3>7 DEF SeatInv
  <2>3. QED
    BY <1>3, <2>1, <2>2, CreateEffect
<1>4. ASSUME NEW r \in Workers, Respond(r) PROVE SeatLinks'
  <2>1. /\ pc'[r] = "idle" /\ result'[r] = 0 /\ ~confirming'[r].open
        /\ \A x \in Workers : x # r =>
              pc'[x] = pc[x] /\ result'[x] = result[x] /\ confirming'[x] = confirming[x]
        /\ UNCHANGED <<calls, available, bookings, lostAcks, cancelling>>
    BY <1>4, RespondEffect
  <2>2. LinksOf(r)'
    BY <2>1 DEF LinksOf
  <2>3. \A x \in Workers : x # r => LinksOf(x)'
    BY <2>1 DEF LinksOf, SeatInv, SeatLinks, BookingIds
  <2>4. QED
    BY <2>1, <2>2, <2>3 DEF SeatLinks, LinksOf, SeatInv, BookingIds
<1>5. ASSUME NEW r \in Workers, Respond(r), aborts' \in 0 .. MaxAborts, UNCHANGED seat PROVE Goal
  <2>1. SeatTypeOK'
    BY <1>0, <1>5, RespondEffect DEF SeatTypeOK, ServiceTypeOK
  <2>2. QED
    BY <1>4, <1>5, <2>1 DEF SeatInv
<1>6. ASSUME NEW r \in Workers, ConfirmCommit(r) PROVE Goal
  <2>1. /\ seat' \in [Seats -> Seat] /\ Respond(r) /\ UNCHANGED aborts
        /\ \A s \in Seats : seat'[s] = IF s \in ToSet(CallOf(r).order)
                                         THEN [status |-> "booked", heldBy |-> Nobody]
                                         ELSE seat[s]
    BY <1>6, UpdatedType
  <2>2. \A s \in Seats : seat'[s].status = "held" <=> seat'[s].heldBy # Nobody
    BY <1>0, <2>1
  <2>3. SeatTypeOK'
    BY <1>0, <2>1, <2>2, RespondEffect DEF SeatTypeOK, ServiceTypeOK
  <2>4. QED
    BY <1>4, <2>1, <2>3 DEF SeatInv
<1>7. ASSUME NEW r \in Workers, ConfirmFails(r) PROVE Goal
  BY <1>0, <1>5, <1>7 DEF ConfirmFails
<1>8. ASSUME NEW r \in Workers, OuterEnds(r) PROVE Goal
  <2>1. SeatTypeOK'
    BY <1>0, <1>8, OuterEndsEffect DEF SeatTypeOK, ServiceTypeOK
  <2>2. SeatLinks'
    BY <1>8, OuterEndsEffect DEF SeatLinks, LinksOf, SeatInv, BookingIds
  <2>3. QED
    BY <2>1, <2>2 DEF SeatInv
<1>9. ASSUME NEW r \in Workers, ConfirmDies(r) PROVE Goal
  BY <1>5, <1>9, AbortsType DEF ConfirmDies
<1>10. ASSUME NEW c \in Cancellers, CancelSeatBooking(c) PROVE Goal
  <2>1. SeatTypeOK'
    BY <1>0, <1>10, CancelSeatEffect DEF SeatTypeOK, SeatInv, ServiceTypeOK
  <2>2. SeatLinks'
    BY <1>10, CancelSeatEffect DEF SeatLinks, LinksOf, SeatInv, BookingIds
  <2>3. QED
    BY <2>1, <2>2 DEF SeatInv
<1>11. CASE UNCHANGED seatVars
  <2>1. SeatTypeOK'
    BY <1>0, <1>11 DEF seatVars, SeatInv, SeatTypeOK, ServiceTypeOK
  <2>2. SeatLinks'
    BY <1>11 DEF seatVars, SeatInv, SeatLinks, LinksOf, BookingIds
  <2>3. QED
    BY <2>1, <2>2 DEF SeatInv
<1> HIDE DEF Goal
<1>12. ASSUME SeatNext PROVE Goal
  BY <1>1, <1>2, <1>3, <1>6, <1>7, <1>8, <1>9, <1>10, <1>12, SeatCases
<1>13. QED
  BY <1>11, <1>12 DEF Goal

LEMMA SeatInvInit ==
    ASSUME SeatInit
    PROVE  SeatInv
<1>1. 0 \in 0 .. (MaxRetries - 1) /\ 0 \in 0 .. MaxLostAcks /\ 0 \in 0 .. MaxCalls
      /\ 0 \in 0 .. MaxAborts
  BY ServiceAssumption, SeatAssumption
<1>2. << >> \in Seq(Booking) /\ << >> \in Seq(SeatCall) /\ Len(<< >>) = 0 /\ DOMAIN << >> = {}
  OBVIOUS
<1>3. Capacity \in [Events -> Int]
  BY CapacityAssumption
<1>4. ServiceTypeOK
  BY <1>1, <1>2, <1>3 DEF SeatInit, ServiceInit, ServiceTypeOK, Steps
<1>5. SeatTypeOK
  BY <1>1, <1>2, <1>4 DEF SeatInit, SeatTypeOK, NotConfirming, Seat
<1>6. SeatLinks
  BY <1>2 DEF SeatInit, ServiceInit, SeatLinks, LinksOf, NotConfirming, BookingIds
<1>7. QED
  BY <1>5, <1>6 DEF SeatInv

LEMMA SeatInvariant == SeatSpec => []SeatInv
  BY SeatInvInit, SeatInvStep, PTL DEF SeatSpec

\* Seats, calls and requests are well formed and a seat names its holder
\* exactly while it is held, in every reachable state of confirmSeats.
THEOREM SeatsTypeCorrect == SeatSpec => []SeatTypeOK
<1>1. SeatInv => SeatTypeOK
  BY DEF SeatInv
<1>2. QED
  BY <1>1, SeatInvariant, PTL

-----------------------------------------------------------------------------
(* Rows of open transactions *)

RowsOf(r) == ToSet(CallOf(r).order)

OwnInv == SeatInv /\ RowsLocked /\ OpenConfirmOwnsSeats

\* Nothing can go wrong between open transactions as long as none is opened and
\* the rows of those that stay open are not touched.
LEMMA OpenCallsKept ==
    ASSUME OwnInv,
           \A r \in Workers : confirming'[r].open =>
               /\ confirming[r].open
               /\ CallOf(r)' = CallOf(r)
               /\ \A s \in RowsOf(r) : seat'[s] = seat[s]
    PROVE  (RowsLocked /\ OpenConfirmOwnsSeats)'
<1>1. RowsLocked'
  BY DEF OwnInv, RowsLocked
<1>2. ASSUME NEW r \in Workers, confirming'[r].open
      PROVE  (ToSet(CallOf(r).order) \subseteq HeldBy(CallOf(r).user, CallOf(r).event))'
  <2>1. ToSet(CallOf(r).order) \subseteq HeldBy(CallOf(r).user, CallOf(r).event)
    BY <1>2 DEF OwnInv, OpenConfirmOwnsSeats
  <2>2. CallOf(r)' = CallOf(r) /\ \A s \in ToSet(CallOf(r).order) : seat'[s] = seat[s]
    BY <1>2 DEF RowsOf
  <2>3. ToSet(CallOf(r).order)' = ToSet(CallOf(r).order)
    BY <2>2
  <2>4. QED
    BY <2>1, <2>2, <2>3 DEF HeldBy
<1>3. QED
  BY <1>1, <1>2 DEF OpenConfirmOwnsSeats

\* A call keeps what it asked for.
LEMMA CallKept ==
    ASSUME SeatInv, NEW r \in Workers, confirming[r].open,
           confirming'[r].call = confirming[r].call,
           \A k \in DOMAIN calls : calls'[k] = calls[k]
    PROVE  CallOf(r)' = CallOf(r)
  BY DEF SeatInv, SeatLinks, LinksOf, CallOf

\* A call that opens a transaction got rows that no open one has.
LEMMA OwnConfirm ==
    ASSUME OwnInv, NEW r \in Workers, NEW u \in Users, NEW e \in EventIds, NEW o \in Orders,
           ConfirmSeats(r, u, e, o)
    PROVE  (RowsLocked /\ OpenConfirmOwnsSeats)'
<1>0. SeatInv
  BY DEF OwnInv
<1>1. PICK k : k = Len(calls) + 1
  OBVIOUS
<1>2. /\ \A j \in DOMAIN calls : calls'[j] = calls[j]
      /\ calls'[k] = [user |-> u, event |-> e, order |-> o]
      /\ confirming'[r] = [call |-> k, open |-> TRUE]
      /\ \A x \in Workers : x # r => confirming'[x] = confirming[x]
      /\ UNCHANGED seat
      /\ \A s \in ToSet(o) : ~RowLocked(s)
      /\ ToSet(o) \subseteq HeldBy(u, e)
  BY <1>0, <1>1, ConfirmEffect
<1>3. \A x \in Workers : x # r /\ confirming[x].open => CallOf(x)' = CallOf(x)
  BY <1>0, <1>2, CallKept
<1>4. CallOf(r)' = [user |-> u, event |-> e, order |-> o]
  BY <1>2 DEF CallOf
<1>5. \A x \in Workers : x # r /\ confirming[x].open => ToSet(CallOf(x).order) \cap ToSet(o) = {}
  BY <1>2 DEF RowLocked
<1>6. RowsLocked'
  <2> SUFFICES ASSUME NEW r1 \in Workers, NEW r2 \in Workers, r1 # r2,
                      confirming'[r1].open, confirming'[r2].open
               PROVE  (ToSet(CallOf(r1).order) \cap ToSet(CallOf(r2).order) = {})'
    BY DEF RowsLocked
  <2>1. CASE r1 = r
    BY <1>2, <1>3, <1>4, <1>5, <2>1
  <2>2. CASE r2 = r
    BY <1>2, <1>3, <1>4, <1>5, <2>2
  <2>3. CASE r1 # r /\ r2 # r
    BY <1>2, <1>3, <2>3 DEF OwnInv, RowsLocked
  <2>4. QED
    BY <2>1, <2>2, <2>3
<1>7. OpenConfirmOwnsSeats'
  <2> SUFFICES ASSUME NEW x \in Workers, confirming'[x].open
               PROVE  (ToSet(CallOf(x).order) \subseteq HeldBy(CallOf(x).user, CallOf(x).event))'
    BY DEF OpenConfirmOwnsSeats
  <2>1. CASE x = r
    BY <1>2, <1>4, <2>1 DEF HeldBy
  <2>2. CASE x # r
    BY <1>2, <1>3, <2>2 DEF OwnInv, OpenConfirmOwnsSeats, HeldBy
  <2>3. QED
    BY <2>1, <2>2
<1>8. QED
  BY <1>6, <1>7

LEMMA OwnStep ==
    ASSUME OwnInv, [SeatNext]_seatVars
    PROVE  OwnInv'
<1> DEFINE Goal == (RowsLocked /\ OpenConfirmOwnsSeats)'
<1>0. SeatInv
  BY DEF OwnInv
<1>1. ASSUME NEW u \in Users, NEW e \in EventIds, NEW o \in Orders, HoldSeats(u, e, o)
      PROVE Goal
  <2>1. /\ \A s \in ToSet(o) : seat[s] = [status |-> "available", heldBy |-> Nobody]
        /\ seat' = [s \in Seats |-> IF s \in ToSet(o) THEN [status |-> "held", heldBy |-> u]
                                                      ELSE seat[s]]
        /\ UNCHANGED <<calls, confirming>>
    BY <1>0, <1>1, HoldEffect
  <2>2. ASSUME NEW r \in Workers, confirming'[r].open
        PROVE  /\ confirming[r].open
               /\ CallOf(r)' = CallOf(r)
               /\ \A s \in RowsOf(r) : seat'[s] = seat[s]
    <3>1. confirming[r].open /\ CallOf(r)' = CallOf(r)
      BY <2>1, <2>2 DEF CallOf
    <3>2. \A s \in RowsOf(r) : s \in Seats /\ seat[s].status = "held"
      BY <3>1 DEF OwnInv, OpenConfirmOwnsSeats, HeldBy, RowsOf
    <3>3. QED
      BY <2>1, <3>1, <3>2
  <2>3. QED
    BY <2>2, OpenCallsKept
<1>2. ASSUME NEW r \in Workers, NEW u \in Users, NEW e \in EventIds, NEW o \in Orders,
             ConfirmSeats(r, u, e, o)
      PROVE Goal
  BY <1>2, OwnConfirm
<1>3. ASSUME UNCHANGED <<seat, calls>>,
             NEW r \in Workers, ~confirming'[r].open,
             \A x \in Workers : x # r => confirming'[x] = confirming[x]
      PROVE Goal
  <2>1. ASSUME NEW x \in Workers, confirming'[x].open
        PROVE  /\ confirming[x].open
               /\ CallOf(x)' = CallOf(x)
               /\ \A s \in RowsOf(x) : seat'[s] = seat[s]
    BY <1>3, <2>1 DEF CallOf
  <2>2. QED
    BY <2>1, OpenCallsKept
<1>4. ASSUME UNCHANGED <<seat, calls, confirming>> PROVE Goal
  BY <1>4, OpenCallsKept DEF CallOf
<1>5. ASSUME NEW r \in Workers, CreateSeatBooking(r) PROVE Goal
  BY <1>0, <1>4, <1>5, CreateEffect
<1>6. ASSUME NEW r \in Workers, ConfirmCommit(r) PROVE Goal
  <2>1. /\ confirming[r].open /\ Respond(r)
        /\ \A s \in Seats : seat'[s] = IF s \in ToSet(CallOf(r).order)
                                         THEN [status |-> "booked", heldBy |-> Nobody]
                                         ELSE seat[s]
    BY <1>0, <1>6, UpdatedType
  <2>2. /\ ~confirming'[r].open
        /\ \A x \in Workers : x # r => confirming'[x] = confirming[x]
        /\ UNCHANGED calls
    BY <1>0, <2>1, RespondEffect
  <2>3. ASSUME NEW x \in Workers, confirming'[x].open
        PROVE  /\ confirming[x].open
               /\ CallOf(x)' = CallOf(x)
               /\ \A s \in RowsOf(x) : seat'[s] = seat[s]
    <3>1. x # r /\ confirming[x].open /\ CallOf(x)' = CallOf(x)
      BY <2>2, <2>3 DEF CallOf
    <3>2. RowsOf(x) \cap RowsOf(r) = {}
      BY <2>1, <3>1 DEF OwnInv, RowsLocked, RowsOf
    <3>3. RowsOf(x) \subseteq Seats
      BY <3>1 DEF OwnInv, OpenConfirmOwnsSeats, HeldBy, RowsOf
    <3>4. QED
      BY <2>1, <3>1, <3>2, <3>3 DEF RowsOf
  <2>4. QED
    BY <2>3, OpenCallsKept
<1>7. ASSUME NEW r \in Workers, ConfirmFails(r) PROVE Goal
  <2>1. Respond(r) /\ UNCHANGED seat
    BY <1>7 DEF ConfirmFails
  <2>2. QED
    BY <1>0, <1>3, <2>1, RespondEffect
<1>8. ASSUME NEW r \in Workers, OuterEnds(r) PROVE Goal
  BY <1>0, <1>3, <1>8, OuterEndsEffect
<1>9. ASSUME NEW r \in Workers, ConfirmDies(r) PROVE Goal
  <2>1. Respond(r) /\ UNCHANGED seat
    BY <1>9 DEF ConfirmDies
  <2>2. QED
    BY <1>0, <1>3, <2>1, RespondEffect
<1>10. ASSUME NEW c \in Cancellers, CancelSeatBooking(c) PROVE Goal
  BY <1>0, <1>4, <1>10, CancelSeatEffect
<1>11. ASSUME UNCHANGED seatVars PROVE Goal
  BY <1>4, <1>11 DEF seatVars
<1> HIDE DEF Goal
<1>12. ASSUME SeatNext PROVE Goal
  BY <1>1, <1>2, <1>5, <1>6, <1>7, <1>8, <1>9, <1>10, <1>12, SeatCases
<1>13. SeatInv'
  BY <1>0, SeatInvStep
<1>14. QED
  BY <1>11, <1>12, <1>13 DEF Goal, OwnInv

LEMMA OwnInvariant == SeatSpec => []OwnInv
<1>1. SeatInit => OwnInv
  <2>1. SeatInit => RowsLocked /\ OpenConfirmOwnsSeats
    BY DEF SeatInit, NotConfirming, RowsLocked, OpenConfirmOwnsSeats
  <2>2. QED
    BY <2>1, SeatInvInit DEF OwnInv
<1>2. QED
  BY <1>1, OwnStep, PTL DEF SeatSpec

\* The seats a confirmation found held by its user are still its user's while
\* its transaction is open, however many others hold and confirm meanwhile:
\* the WHERE that confirmSeats evaluated before createBooking does not go stale.
THEOREM OpenConfirmKeepsSeats == SeatSpec => []OpenConfirmOwnsSeats
<1>1. OwnInv => OpenConfirmOwnsSeats
  BY DEF OwnInv
<1>2. QED
  BY <1>1, OwnInvariant, PTL

\* A step that changes a held seat books it, in a call of its holder.
THEOREM HoldersKeepSeats == SeatSpec => HeldSeatNotStolen
<1> DEFINE Goal == \A s \in Seats : seat[s].status = "held" /\ seat'[s] # seat[s] =>
                      /\ seat'[s].status = "booked"
                      /\ \E r \in Workers : /\ confirming[r].open
                                            /\ CallOf(r).user = seat[s].heldBy
                                            /\ s \in ToSet(CallOf(r).order)
<1>1. ASSUME OwnInv, SeatNext PROVE Goal
  <2>0. SeatInv
    BY <1>1 DEF OwnInv
  <2>1. ASSUME NEW u \in Users, NEW e \in EventIds, NEW o \in Orders, HoldSeats(u, e, o)
        PROVE Goal
    <3>1. /\ \A s \in ToSet(o) : seat[s] = [status |-> "available", heldBy |-> Nobody]
          /\ seat' = [s \in Seats |-> IF s \in ToSet(o) THEN [status |-> "held", heldBy |-> u]
                                                        ELSE seat[s]]
      BY <2>0, <2>1, HoldEffect
    <3>2. QED
      BY <3>1
  <2>2. ASSUME NEW r \in Workers, ConfirmCommit(r) PROVE Goal
    <3>1. /\ confirming[r].open
          /\ \A s \in Seats : seat'[s] = IF s \in ToSet(CallOf(r).order)
                                           THEN [status |-> "booked", heldBy |-> Nobody]
                                           ELSE seat[s]
      BY <2>0, <2>2, UpdatedType
    <3>2. \A s \in ToSet(CallOf(r).order) : seat[s].heldBy = CallOf(r).user
      BY <1>1, <3>1 DEF OwnInv, OpenConfirmOwnsSeats, HeldBy
    <3>3. QED
      BY <3>1, <3>2
  <2>3. ASSUME UNCHANGED seat PROVE Goal
    BY <2>3
  <2>4. ASSUME NEW r \in Workers, NEW u \in Users, NEW e \in EventIds, NEW o \in Orders,
               ConfirmSeats(r, u, e, o)
        PROVE Goal
    BY <2>3, <2>4 DEF ConfirmSeats
  <2>5. ASSUME NEW r \in Workers, CreateSeatBooking(r) \/ ConfirmFails(r) \/ OuterEnds(r)
                                  \/ ConfirmDies(r)
        PROVE Goal
    BY <2>3, <2>5 DEF CreateSeatBooking, ConfirmFails, OuterEnds, ConfirmDies
  <2>6. ASSUME NEW c \in Cancellers, CancelSeatBooking(c) PROVE Goal
    BY <2>3, <2>6 DEF CancelSeatBooking
  <2> HIDE DEF Goal
  <2>7. QED
    BY <1>1, <2>1, <2>2, <2>4, <2>5, <2>6, SeatCases
<1>2. ASSUME OwnInv, [SeatNext]_seatVars PROVE [Goal]_seatVars
  BY <1>1, <1>2
<1>3. QED
  BY <1>2, OwnInvariant, PTL DEF SeatSpec, HeldSeatNotStolen

-----------------------------------------------------------------------------
(* Bookings and their seats *)

Sale == [user: Users, seats: SUBSET Seats, status: Status]

\* Bookings name seats that exist.
LEMMA SeatsOfType ==
    ASSUME SeatInv
    PROVE  /\ bookings \in Seq(Booking) /\ BookingIds = 1 .. Len(bookings) /\ Len(bookings) \in Nat
           /\ \A b \in BookingIds : SeatsOf(b) \in SUBSET Seats /\ SaleOf(b) \in Sale
<1>1. bookings \in Seq(Booking) /\ calls \in Seq(SeatCall)
  BY DEF SeatInv, SeatTypeOK, ServiceTypeOK
<1>2. ASSUME NEW b \in BookingIds PROVE SeatsOf(b) \in SUBSET Seats /\ SaleOf(b) \in Sale
  <2>1. PICK j : j = bookings[b].job
    OBVIOUS
  <2>2. j \in DOMAIN calls /\ bookings[b] \in Booking
    BY <1>1, <2>1 DEF SeatInv, SeatLinks, BookingIds
  <2>3. calls[j] \in SeatCall
    BY <1>1, <2>2
  <2>4. calls[j].order \in Seq(Seats)
    BY <2>3, SeatAssumption DEF SeatCall
  <2>5. \A i \in DOMAIN calls[j].order : calls[j].order[i] \in Seats
    BY <2>4
  <2>6. SeatsOf(b) \in SUBSET Seats
    BY <2>1, <2>5 DEF SeatsOf, ToSet
  <2>7. bookings[b].user \in Users /\ bookings[b].status \in Status
    BY <2>2 DEF Booking
  <2>8. QED
    BY <2>6, <2>7 DEF SaleOf, Sale
<1>3. QED
  BY <1>1, <1>2 DEF BookingIds

\* What a booking bought does not change.
LEMMA SeatsOfKept ==
    ASSUME SeatInv, [SeatNext]_seatVars
    PROVE  \A b \in BookingIds : b \in BookingIds' /\ SeatsOf(b)' = SeatsOf(b)
<1> DEFINE Goal == \A b \in BookingIds : b \in BookingIds' /\ SeatsOf(b)' = SeatsOf(b)
<1>1. ASSUME \A b \in DOMAIN bookings : b \in DOMAIN bookings' /\ bookings'[b].job = bookings[b].job,
             \A k \in DOMAIN calls : calls'[k] = calls[k]
      PROVE  Goal
  BY <1>1 DEF SeatInv, SeatLinks, BookingIds, SeatsOf
<1>2. ASSUME UNCHANGED <<bookings, calls>> PROVE Goal
  BY <1>2 DEF BookingIds, SeatsOf
<1>3. ASSUME NEW r \in Workers, NEW u \in Users, NEW e \in EventIds, NEW o \in Orders,
             ConfirmSeats(r, u, e, o)
      PROVE Goal
  <2>1. (\A k \in DOMAIN calls : calls'[k] = calls[k]) /\ UNCHANGED bookings
    BY <1>3, ConfirmEffect
  <2>2. QED
    BY <1>1, <2>1
<1>4. ASSUME NEW r \in Workers, CreateSeatBooking(r) PROVE Goal
  <2>1. CASE UNCHANGED bookings
    BY <1>2, <1>4, <2>1, CreateEffect
  <2>2. CASE bookings' = Append(bookings, NewBooking(SeatInput(CallOf(r)), confirming[r].call))
    <3>1. PICK n : n = Len(bookings) + 1
      OBVIOUS
    <3>2. pc[r] # "idle" /\ UNCHANGED calls
      BY <1>4, CreateEffect
    <3>3. DOMAIN bookings' = DOMAIN bookings \cup {n}
          /\ \A b \in DOMAIN bookings : bookings'[b] = bookings[b]
      BY <2>2, <3>1, <3>2, SeatInsert
    <3>4. QED
      BY <1>1, <3>2, <3>3
  <2>3. QED
    BY <1>4, <2>1, <2>2, CreateEffect
<1>5. ASSUME NEW r \in Workers, Respond(r) PROVE Goal
  BY <1>2, <1>5, RespondEffect
<1>6. ASSUME NEW c \in Cancellers, CancelSeatBooking(c) PROVE Goal
  <2>1. DOMAIN bookings' = DOMAIN bookings /\ UNCHANGED calls
        /\ \A b \in DOMAIN bookings : bookings'[b].job = bookings[b].job
    BY <1>6, CancelSeatEffect
  <2>2. QED
    BY <1>1, <2>1
<1>7. ASSUME NEW u \in Users, NEW e \in EventIds, NEW o \in Orders, HoldSeats(u, e, o)
      PROVE Goal
  BY <1>2, <1>7 DEF HoldSeats, serviceVars
<1>8. ASSUME NEW r \in Workers, OuterEnds(r) PROVE Goal
  BY <1>2, <1>8 DEF OuterEnds, serviceVars
<1> HIDE DEF Goal
<1>9. ASSUME SeatNext PROVE Goal
  BY <1>3, <1>4, <1>5, <1>6, <1>7, <1>8, <1>9, SeatCases
     DEF ConfirmCommit, ConfirmFails, ConfirmDies
<1>10. ASSUME UNCHANGED seatVars PROVE Goal
  BY <1>2, <1>10 DEF seatVars
<1>11. QED
  BY <1>9, <1>10 DEF Goal

\* The seats of the booking a request has made are those its call asked for.
LEMMA SeatsOfResult ==
    ASSUME SeatInv, NEW r \in Workers, result[r] # 0
    PROVE  result[r] \in BookingIds /\ SeatsOf(result[r]) = RowsOf(r)
  BY DEF SeatInv, SeatLinks, LinksOf, SeatsOf, RowsOf, CallOf

\* The only step that makes a booking is the commit of a createBooking.
LEMMA SalesGrow ==
    ASSUME SeatInv, [SeatNext]_seatVars, NEW n, n = Len(bookings) + 1
    PROVE  \/ BookingIds' = BookingIds
           \/ \E r \in Workers :
                /\ CreateSeatBooking(r) /\ pc[r] = "commit" /\ result[r] = 0
                /\ n \notin BookingIds /\ n \in Nat \ {0}
                /\ BookingIds' = BookingIds \cup {n}
                /\ SeatsOf(n)' = RowsOf(r)
                /\ \/ result' = [result EXCEPT ![r] = n] /\ UNCHANGED lostAcks
                   \/ lostAcks' = lostAcks + 1 /\ UNCHANGED result
<1>1. ASSUME NEW r \in Workers, CreateSeatBooking(r),
             bookings' = Append(bookings, NewBooking(SeatInput(CallOf(r)), confirming[r].call)),
             pc[r] = "commit",
             \/ result' = [result EXCEPT ![r] = n] /\ UNCHANGED lostAcks
             \/ lostAcks' = lostAcks + 1 /\ UNCHANGED result
      PROVE  /\ CreateSeatBooking(r) /\ pc[r] = "commit" /\ result[r] = 0
             /\ n \notin BookingIds /\ n \in Nat \ {0}
             /\ BookingIds' = BookingIds \cup {n}
             /\ SeatsOf(n)' = RowsOf(r)
             /\ \/ result' = [result EXCEPT ![r] = n] /\ UNCHANGED lostAcks
                \/ lostAcks' = lostAcks + 1 /\ UNCHANGED result
  <2>1. result[r] = 0 /\ UNCHANGED calls
    BY <1>1, CreateEffect DEF SeatInv, SeatLinks, LinksOf
  <2>2. /\ n \notin DOMAIN bookings /\ n \in Nat \ {0}
        /\ DOMAIN bookings' = DOMAIN bookings \cup {n}
        /\ bookings'[n].job = confirming[r].call
    BY <1>1, SeatInsert
  <2>3. QED
    BY <1>1, <2>1, <2>2 DEF BookingIds, SeatsOf, RowsOf, CallOf
<1>2. ASSUME NEW r \in Workers, CreateSeatBooking(r)
      PROVE  \/ UNCHANGED bookings
             \/ /\ bookings' = Append(bookings, NewBooking(SeatInput(CallOf(r)), confirming[r].call))
                /\ pc[r] = "commit"
                /\ \/ result' = [result EXCEPT ![r] = n] /\ UNCHANGED lostAcks
                   \/ lostAcks' = lostAcks + 1 /\ UNCHANGED result
  BY <1>2, CreateEffect
<1>3. ASSUME NEW c \in Cancellers, CancelSeatBooking(c) PROVE BookingIds' = BookingIds
  BY <1>3, CancelSeatEffect DEF BookingIds
<1>4. QED
  BY <1>1, <1>2, <1>3 DEF SeatNext, RequestHold, HoldSeats, ConfirmSeats, CallCreateBooking,
     ConfirmCommit, ConfirmFails, ConfirmDies, Respond, OuterEnds, BookingIds, serviceVars, seatVars

\* What the steps do to booked seats: only a commit books one, with the booking
\* that its createBooking returned, and nothing unbooks one.
LEMMA BookedBy ==
    ASSUME SeatInv, [SeatNext]_seatVars
    PROVE  \A s \in Seats :
             /\ seat[s].status = "booked" => seat'[s].status = "booked"
             /\ seat'[s].status = "booked" =>
                   \/ seat[s].status = "booked"
                   \/ \E r \in Workers : result[r] # 0 /\ s \in RowsOf(r)
<1>1. ASSUME NEW u \in Users, NEW e \in EventIds, NEW o \in Orders, HoldSeats(u, e, o),
             NEW s \in Seats
      PROVE  /\ seat[s].status = "booked" => seat'[s].status = "booked"
             /\ seat'[s].status = "booked" => seat[s].status = "booked"
  <2>1. /\ \A x \in ToSet(o) : seat[x] = [status |-> "available", heldBy |-> Nobody]
        /\ seat' = [x \in Seats |-> IF x \in ToSet(o) THEN [status |-> "held", heldBy |-> u]
                                                      ELSE seat[x]]
    BY <1>1, HoldEffect
  <2>2. QED
    BY <2>1
<1>2. ASSUME NEW r \in Workers, ConfirmCommit(r), NEW s \in Seats
      PROVE  /\ seat[s].status = "booked" => seat'[s].status = "booked"
             /\ seat'[s].status = "booked" =>
                   seat[s].status = "booked" \/ (result[r] # 0 /\ s \in RowsOf(r))
  BY <1>2, UpdatedType DEF RowsOf
<1>3. UNCHANGED seat \/ (\E u \in Users, e \in EventIds, o \in Orders : HoldSeats(u, e, o))
      \/ (\E r \in Workers : ConfirmCommit(r))
  BY DEF SeatNext, RequestHold, ConfirmSeats, CreateSeatBooking, ConfirmFails, ConfirmDies, OuterEnds,
         CancelSeatBooking, seatVars
<1>4. QED
  BY <1>1, <1>2, <1>3

LEMMA BookedInit ==
    ASSUME SeatInit
    PROVE  BookedSeatHasBooking
  BY DEF SeatInit, BookedSeatHasBooking

\* Whatever createBooking and the outer transaction run into, the row of a
\* booking that names the seat is there before the seat is marked booked.  The
\* row stays; whether it is still confirmed, cancelBooking decides.
THEOREM BookedSeatsHaveBookings == SeatSpec => []BookedSeatHasBooking
<1>1. ASSUME SeatInv, BookedSeatHasBooking, [SeatNext]_seatVars PROVE BookedSeatHasBooking'
  <2> SUFFICES ASSUME NEW s \in Seats, seat'[s].status = "booked"
               PROVE  \E b \in BookingIds' : s \in SeatsOf(b)'
    BY DEF BookedSeatHasBooking
  <2>1. PICK b \in BookingIds : s \in SeatsOf(b)
    <3>1. CASE seat[s].status = "booked"
      BY <1>1, <3>1 DEF BookedSeatHasBooking
    <3>2. CASE \E r \in Workers : result[r] # 0 /\ s \in RowsOf(r)
      BY <1>1, <3>2, SeatsOfResult
    <3>3. QED
      BY <1>1, <3>1, <3>2, BookedBy
  <2>2. QED
    BY <1>1, <2>1, SeatsOfKept
<1>2. QED
  BY <1>1, BookedInit, SeatInvariant, PTL DEF SeatSpec

-----------------------------------------------------------------------------
(* One booking per seat *)

OneInv == OwnInv /\ OpenWhileBusy /\ SeatsFollow /\ OneBookingPerSeat

\* Faults are counted and never forgotten.
LEMMA FaultsStay ==
    ASSUME SeatInv, [SeatNext]_seatVars
    PROVE  (aborts' = 0 => aborts = 0) /\ (lostAcks' = 0 => lostAcks = 0)
<1>1. aborts \in Nat /\ lostAcks \in Nat
  BY SeatAssumption, ServiceAssumption DEF SeatInv, SeatTypeOK, ServiceTypeOK
<1>2. aborts' \in {aborts, aborts + 1}
  BY DEF SeatNext, RequestHold, HoldSeats, ConfirmSeats, CreateSeatBooking, ConfirmCommit, ConfirmFails,
         ConfirmDies, OuterEnds, CancelSeatBooking, seatVars
<1>3. lostAcks' \in {lostAcks, lostAcks + 1}
  <2>1. \A r \in Workers : CreateSeatBooking(r) => lostAcks' \in {lostAcks, lostAcks + 1}
    BY CreateEffect
  <2>2. QED
    BY <2>1 DEF SeatNext, RequestHold, HoldSeats, ConfirmSeats, CallCreateBooking, ConfirmCommit,
       ConfirmFails, ConfirmDies, Respond, OuterEnds, CancelSeatBooking, CancelRead, CancelCommit,
       CancelFails, serviceVars, seatVars
<1>4. QED
  BY <1>1, <1>2, <1>3

\* Without faults a busy request has its transaction open.
LEMMA OpenStep ==
    ASSUME SeatInv, OpenWhileBusy, [SeatNext]_seatVars
    PROVE  OpenWhileBusy'
<1> SUFFICES ASSUME aborts' = 0, NEW x \in Workers, pc'[x] # "idle"
             PROVE  confirming'[x].open
  BY DEF OpenWhileBusy
<1> DEFINE Goal == confirming'[x].open
<1>0. pc[x] # "idle" => confirming[x].open
  BY FaultsStay DEF OpenWhileBusy
<1>1. ASSUME NEW u \in Users, NEW e \in EventIds, NEW o \in Orders, HoldSeats(u, e, o)
      PROVE Goal
  BY <1>0, <1>1, HoldEffect
<1>2. ASSUME NEW r \in Workers, NEW u \in Users, NEW e \in EventIds, NEW o \in Orders,
             ConfirmSeats(r, u, e, o)
      PROVE Goal
  <2>1. PICK k : k = Len(calls) + 1
    OBVIOUS
  <2>2. /\ confirming'[r] = [call |-> k, open |-> TRUE]
        /\ \A y \in Workers : y # r => pc'[y] = pc[y] /\ confirming'[y] = confirming[y]
    BY <1>2, <2>1, ConfirmEffect
  <2>3. QED
    BY <1>0, <2>2
<1>3. ASSUME NEW r \in Workers, CreateSeatBooking(r) PROVE Goal
  BY <1>0, <1>3, CreateEffect
<1>4. ASSUME NEW r \in Workers, Respond(r) PROVE Goal
  BY <1>0, <1>4, RespondEffect
<1>5. ASSUME NEW r \in Workers, OuterEnds(r) PROVE Goal
  BY <1>5, OuterEndsEffect
<1>6. ASSUME NEW c \in Cancellers, CancelSeatBooking(c) PROVE Goal
  BY <1>0, <1>6, CancelSeatEffect
<1>7. ASSUME UNCHANGED seatVars PROVE Goal
  BY <1>0, <1>7 DEF seatVars
<1> HIDE DEF Goal
<1>8. ASSUME SeatNext PROVE Goal
  BY <1>1, <1>2, <1>3, <1>4, <1>5, <1>6, <1>8, SeatCases DEF ConfirmCommit, ConfirmFails, ConfirmDies
<1>9. QED
  BY <1>7, <1>8 DEF Goal

SeatsBooked(b) == \A s \in SeatsOf(b) : seat[s].status = "booked"

SaleOpen(b) == \E r \in Workers : confirming[r].open /\ result[r] = b

\* A step without faults books the seats of a booking, or leaves its
\* transaction open.
LEMMA FollowKept ==
    ASSUME SeatInv, OpenWhileBusy, [SeatNext]_seatVars, aborts' = 0,
           NEW b \in BookingIds, SeatsBooked(b) \/ SaleOpen(b)
    PROVE  (SeatsBooked(b) \/ SaleOpen(b))'
<1> DEFINE Goal == (SeatsBooked(b) \/ SaleOpen(b))'
<1>0. SeatsOf(b)' = SeatsOf(b) /\ SeatsOf(b) \subseteq Seats
  BY SeatsOfKept, SeatsOfType
<1>1. ASSUME SeatsBooked(b) PROVE Goal
  BY <1>0, <1>1, BookedBy DEF SeatsBooked
<1>2. ASSUME NEW r \in Workers, confirming[r].open, result[r] = b,
             confirming'[r].open, result'[r] = b
      PROVE  Goal
  BY <1>2 DEF SaleOpen
<1>3. ASSUME NEW r \in Workers, confirming[r].open, result[r] = b PROVE Goal
  <2>0. b # 0 /\ pc[r] = "release"
    <3>1. bookings \in Seq(Booking)
      BY DEF SeatInv, SeatTypeOK, ServiceTypeOK
    <3>2. b # 0
      BY <3>1 DEF BookingIds
    <3>3. QED
      BY <1>3, <3>2 DEF SeatInv, SeatLinks, LinksOf
  <2>1. ASSUME NEW u \in Users, NEW e \in EventIds, NEW o \in Orders, HoldSeats(u, e, o)
        PROVE Goal
    BY <1>2, <1>3, <2>1, HoldEffect
  <2>2. ASSUME NEW x \in Workers, NEW u \in Users, NEW e \in EventIds, NEW o \in Orders,
               ConfirmSeats(x, u, e, o)
        PROVE Goal
    <3>1. PICK k : k = Len(calls) + 1
      OBVIOUS
    <3>2. pc[x] = "idle" /\ (\A y \in Workers : y # x => confirming'[y] = confirming[y])
          /\ UNCHANGED result
      BY <2>2, <3>1, ConfirmEffect
    <3>3. QED
      BY <1>2, <1>3, <2>0, <3>2
  <2>3. ASSUME NEW x \in Workers, CreateSeatBooking(x) PROVE Goal
    <3>1. pc[x] # "release" /\ UNCHANGED confirming
          /\ (UNCHANGED result \/ \E n : result' = [result EXCEPT ![x] = n])
          /\ result \in [Workers -> Nat]
      BY <2>3, CreateEffect DEF SeatInv, SeatTypeOK, ServiceTypeOK
    <3>2. QED
      BY <1>2, <1>3, <2>0, <3>1
  <2>4. ASSUME NEW x \in Workers, Respond(x), x # r PROVE Goal
    BY <1>2, <1>3, <2>4, RespondEffect
  <2>5. ASSUME NEW x \in Workers, ConfirmCommit(x) PROVE Goal
    <3>1. CASE x = r
      <4>1. SeatsOf(b) = RowsOf(r)
        BY <1>3, <2>0, SeatsOfResult
      <4>2. QED
        BY <1>0, <2>5, <3>1, <4>1, UpdatedType DEF SeatsBooked, RowsOf
    <3>2. QED
      BY <2>4, <2>5, <3>1 DEF ConfirmCommit
  <2>6. ASSUME NEW x \in Workers, ConfirmFails(x) PROVE Goal
    BY <1>3, <2>0, <2>4, <2>6 DEF ConfirmFails
  <2>7. ASSUME NEW x \in Workers, OuterEnds(x) PROVE Goal
    BY <2>7, OuterEndsEffect
  <2>8. ASSUME NEW x \in Workers, ConfirmDies(x) PROVE Goal
    BY <2>8, AbortsType
  <2>9. ASSUME NEW c \in Cancellers, CancelSeatBooking(c) PROVE Goal
    BY <1>2, <1>3, <2>9, CancelSeatEffect
  <2>10. ASSUME UNCHANGED seatVars PROVE Goal
    BY <1>2, <1>3, <2>10 DEF seatVars
  <2> HIDE DEF Goal
  <2>11. ASSUME SeatNext PROVE Goal
    BY <2>1, <2>2, <2>3, <2>5, <2>6, <2>7, <2>8, <2>9, <2>11, SeatCases
  <2>12. QED
    BY <2>10, <2>11
<1>4. QED
  BY <1>1, <1>3 DEF SaleOpen

LEMMA FollowStep ==
    ASSUME SeatInv, OpenWhileBusy, SeatsFollow, [SeatNext]_seatVars
    PROVE  SeatsFollow'
<1> SUFFICES ASSUME aborts' = 0, lostAcks' = 0, NEW b \in BookingIds'
             PROVE  (SeatsBooked(b) \/ SaleOpen(b))'
  BY DEF SeatsFollow, SeatsBooked, SaleOpen
<1>1. aborts = 0 /\ lostAcks = 0
  BY FaultsStay
<1>2. CASE b \in BookingIds
  BY <1>1, <1>2, FollowKept DEF SeatsFollow, SeatsBooked, SaleOpen
<1>3. ASSUME b \notin BookingIds PROVE SaleOpen(b)'
  <2>1. PICK n : n = Len(bookings) + 1
    OBVIOUS
  <2>2. PICK r \in Workers : /\ CreateSeatBooking(r) /\ pc[r] = "commit"
                             /\ BookingIds' = BookingIds \cup {n}
                             /\ \/ result' = [result EXCEPT ![r] = n]
                                \/ lostAcks' = lostAcks + 1
    BY <1>3, <2>1, SalesGrow
  <2>3. b = n /\ result' = [result EXCEPT ![r] = n]
    BY <1>1, <1>3, <2>2
  <2>4. confirming[r].open /\ UNCHANGED confirming
    BY <1>1, <2>2, CreateEffect DEF OpenWhileBusy
  <2>5. result \in [Workers -> Nat]
    BY DEF SeatInv, SeatTypeOK, ServiceTypeOK
  <2>6. QED
    BY <2>3, <2>4, <2>5 DEF SaleOpen
<1>4. QED
  BY <1>2, <1>3

\* Two bookings without a seat in common stay so, and a new one has the seats
\* of an open transaction: they are held and locked, so no booking has them.
LEMMA OneStep ==
    ASSUME OneInv, [SeatNext]_seatVars
    PROVE  OneBookingPerSeat'
<1> SUFFICES ASSUME aborts' = 0, lostAcks' = 0,
                    NEW a \in BookingIds', NEW b \in BookingIds',
                    (SeatsOf(a) \cap SeatsOf(b) # {})'
             PROVE  a = b
  BY DEF OneBookingPerSeat
<1>0. SeatInv /\ OwnInv /\ aborts = 0 /\ lostAcks = 0
  BY FaultsStay DEF OneInv, OwnInv
<1>1. CASE a \in BookingIds /\ b \in BookingIds
  BY <1>0, <1>1, SeatsOfKept DEF OneInv, OneBookingPerSeat
<1>2. ASSUME NEW new, new \notin BookingIds, new \in BookingIds',
             NEW old \in BookingIds, (SeatsOf(new) \cap SeatsOf(old) # {})'
      PROVE  FALSE
  <2>1. PICK n : n = Len(bookings) + 1
    OBVIOUS
  <2>2. PICK r \in Workers : /\ CreateSeatBooking(r) /\ pc[r] = "commit" /\ result[r] = 0
                             /\ BookingIds' = BookingIds \cup {n}
                             /\ SeatsOf(n)' = RowsOf(r)
    BY <1>0, <1>2, <2>1, SalesGrow
  <2>3. PICK s : s \in RowsOf(r) /\ s \in SeatsOf(old)
    BY <1>0, <1>2, <2>2, SeatsOfKept
  <2>4. confirming[r].open
    BY <1>0, <2>2 DEF OneInv, OpenWhileBusy
  <2>5. seat[s].status = "held"
    BY <2>3, <2>4 DEF OneInv, OwnInv, OpenConfirmOwnsSeats, HeldBy, RowsOf
  <2>6. SaleOpen(old)
    BY <1>0, <2>3, <2>5 DEF OneInv, SeatsFollow, SaleOpen
  <2>7. PICK x \in Workers : confirming[x].open /\ result[x] = old
    BY <2>6 DEF SaleOpen
  <2>8. old # 0
    BY <1>0 DEF SeatInv, SeatTypeOK, ServiceTypeOK, BookingIds
  <2>9. x # r /\ SeatsOf(old) = RowsOf(x)
    BY <1>0, <2>2, <2>7, <2>8, SeatsOfResult
  <2>10. QED
    BY <2>3, <2>4, <2>7, <2>9 DEF OneInv, OwnInv, RowsLocked, RowsOf
<1>3. PICK n : n = Len(bookings) + 1
  OBVIOUS
<1>4. BookingIds' \subseteq BookingIds \cup {n}
  BY <1>0, <1>3, SalesGrow
<1>5. QED
  BY <1>1, <1>2, <1>4

LEMMA OneInvariant == SeatSpec => []OneInv
<1>1. ASSUME SeatInit PROVE OneInv
  <2>1. OwnInv
    BY <1>1, SeatInvInit DEF OwnInv, SeatInit, NotConfirming, RowsLocked, OpenConfirmOwnsSeats
  <2>2. OpenWhileBusy /\ SeatsFollow /\ OneBookingPerSeat
    BY <1>1 DEF SeatInit, ServiceInit, OpenWhileBusy, SeatsFollow, OneBookingPerSeat, BookingIds
  <2>3. QED
    BY <2>1, <2>2 DEF OneInv
<1>2. ASSUME OneInv, [SeatNext]_seatVars PROVE OneInv'
  <2>1. SeatInv /\ OwnInv /\ OpenWhileBusy /\ SeatsFollow
    BY <1>2 DEF OneInv, OwnInv
  <2>2. QED
    BY <1>2, <2>1, OwnStep, OpenStep, FollowStep, OneStep DEF OneInv
<1>3. QED
  BY <1>1, <1>2, PTL DEF SeatSpec

\* The row locks of confirmSeats and the WHERE of its update keep two
\* confirmations, overlapping or retried, from selling one seat twice, as long
\* as no outer transaction ends early and no commit looks failed.
THEOREM SeatsSoldOnce == SeatSpec => []OneBookingPerSeat
<1>1. OneInv => OneBookingPerSeat
  BY DEF OneInv
<1>2. QED
  BY <1>1, OneInvariant, PTL

-----------------------------------------------------------------------------
(* The promise of SeatSales *)

Rows == [s \in Seats |-> IF InSale(s) THEN BookedRow(Nobody) ELSE seat[s]]

Sales == [b \in BookingIds |-> SaleOf(b)]

Selling(r) == confirming[r].open /\ result[r] # 0

Available == [status |-> "available", heldBy |-> Nobody]

Booked == [status |-> "booked", heldBy |-> Nobody]

HeldRow(u) == [status |-> "held", heldBy |-> u]

\* Seats that change from one row to another make a turn of SeatSales.
LEMMA TurnOf ==
    ASSUME NEW S \in SUBSET Seats, S # {}, NEW from, NEW to, from # to,
           \A s \in S : Rows[s] = from /\ Rows'[s] = to,
           \A s \in Seats : s \notin S => Rows'[s] = Rows[s]
    PROVE  Promise!Turn(from, to) /\ Promise!Changed = S
<1>1. Promise!Changed = {s \in Seats : Rows'[s] # Rows[s]}
  BY DEF Promise!Changed, Rows
<1>2. Promise!Changed = S
  BY <1>1
<1>3. \A s \in S : Promise!Changed # {} /\ Rows[s] = from /\ Rows'[s] = to
  BY <1>2
<1>4. QED
  BY <1>2, <1>3 DEF Promise!Turn, Rows

LEMMA RowsInSale ==
    \A s \in Seats : Rows[s] = IF \E r \in Workers : Selling(r) /\ s \in RowsOf(r)
                                 THEN Booked ELSE seat[s]
  BY DEF Rows, InSale, Selling, RowsOf, BookedRow, Booked

\* The same in the next state.
LEMMA RowsInSaleNext ==
    \A s \in Seats : Rows'[s] = IF \E r \in Workers : Selling(r)' /\ s \in RowsOf(r)'
                                  THEN Booked ELSE seat'[s]
  BY DEF Rows, InSale, Selling, RowsOf, BookedRow, Booked

\* The seats of open transactions exist, are held by their users, and belong
\* to no other open transaction.
LEMMA OpenRows ==
    ASSUME OwnInv, NEW r \in Workers, confirming[r].open
    PROVE  /\ RowsOf(r) \in SUBSET Seats /\ RowsOf(r) # {}
           /\ CallOf(r).user \in Users /\ CallOf(r).user # Nobody
           /\ \A s \in RowsOf(r) : seat[s] = HeldRow(CallOf(r).user)
           /\ \A x \in Workers : x # r /\ confirming[x].open => RowsOf(x) \cap RowsOf(r) = {}
<1>1. SeatInv /\ pc[r] # "idle"
  BY DEF OwnInv, SeatInv, SeatLinks, LinksOf
<1>2. CallOf(r) \in SeatCall /\ confirming[r].call \in DOMAIN calls
  BY <1>1, InputType
<1>3. CallOf(r).order \in Seq(Seats) /\ CallOf(r).order # << >>
  BY <1>1, <1>2, SeatAssumption DEF SeatCall, SeatInv, SeatLinks, CallOf
<1>4. RowsOf(r) # {}
  <2>1. Len(CallOf(r).order) \in Nat \ {0}
    BY <1>3, EmptySeq
  <2>2. 1 \in DOMAIN CallOf(r).order
    BY <1>3, <2>1
  <2>3. QED
    BY <2>2 DEF RowsOf, ToSet
<1>5. \A s \in RowsOf(r) : s \in Seats /\ seat[s].status = "held" /\ seat[s].heldBy = CallOf(r).user
  BY DEF OwnInv, OpenConfirmOwnsSeats, HeldBy, RowsOf
<1>6. \A s \in RowsOf(r) : seat[s] = HeldRow(CallOf(r).user)
  BY <1>1, <1>5 DEF SeatInv, SeatTypeOK, Seat, HeldRow
<1>7. CallOf(r).user \in Users /\ CallOf(r).user # Nobody
  BY <1>2, SeatAssumption DEF SeatCall
<1>8. QED
  BY <1>4, <1>5, <1>6, <1>7 DEF OwnInv, RowsLocked, RowsOf

\* While the same requests are in the middle of a sale and the committed rows
\* stay, so do the rows that the promise shows.
LEMMA RowsKept ==
    ASSUME UNCHANGED seat,
           \A r \in Workers : Selling(r)' <=> Selling(r),
           \A r \in Workers : Selling(r) => RowsOf(r)' = RowsOf(r)
    PROVE  Rows' = Rows
<1>1. \A s \in Seats : Rows'[s] = Rows[s]
  BY RowsInSale, RowsInSaleNext
<1>2. QED
  BY <1>1 DEF Rows

\* A function on 1 .. n whose values are sales is a list of sales.
LEMMA SaleSeq ==
    ASSUME NEW n \in Nat, NEW f, f = [b \in 1 .. n |-> f[b]], \A b \in 1 .. n : f[b] \in Sale
    PROVE  f \in Seq(Sale) /\ Len(f) = n /\ DOMAIN f = 1 .. n
<1>1. f \in [1 .. n -> Sale]
  OBVIOUS
<1>2. f \in Seq(Sale)
  BY <1>1, SeqDef
<1>3. QED
  BY <1>1, <1>2, LenProperties

LEMMA SaleAppend ==
    ASSUME NEW n \in Nat, NEW f, NEW g, NEW x \in Sale,
           f = [b \in 1 .. n |-> f[b]], \A b \in 1 .. n : f[b] \in Sale,
           g = [b \in 1 .. (n + 1) |-> g[b]],
           \A b \in 1 .. n : g[b] = f[b],
           g[n + 1] = x
    PROVE  g = Append(f, x)
<1>1. f \in Seq(Sale) /\ Len(f) = n
  BY SaleSeq
<1>2. \A b \in 1 .. (n + 1) : g[b] \in Sale
  <2>1. \A b \in 1 .. (n + 1) : b \in 1 .. n \/ b = n + 1
    OBVIOUS
  <2>2. QED
    BY <2>1
<1>3. g \in Seq(Sale) /\ Len(g) = n + 1
  BY <1>2, SaleSeq
<1>4. Append(f, x) \in Seq(Sale) /\ Len(Append(f, x)) = n + 1
      /\ \A b \in 1 .. (n + 1) : Append(f, x)[b] = g[b]
  BY <1>1
<1>5. QED
  BY <1>3, <1>4, SeqEqual

\* A hold is a hold.
LEMMA HoldHolds ==
    ASSUME OwnInv, NEW u \in Users, NEW e \in EventIds, NEW o \in Orders, HoldSeats(u, e, o)
    PROVE  Promise!SalesNext
<1>0. SeatInv
  BY DEF OwnInv
<1>1. /\ ToSet(o) \subseteq Seats
      /\ \A s \in ToSet(o) : seat[s] = Available
      /\ \A s \in Seats : seat'[s] = IF s \in ToSet(o) THEN HeldRow(u) ELSE seat[s]
      /\ UNCHANGED <<calls, confirming, aborts, bookings, result, lostAcks>>
  BY <1>0, HoldEffect DEF Available, HeldRow
<1>2. ToSet(o) # {}
  <2>1. o \in Seq(Seats) /\ o # << >>
    BY SeatAssumption DEF HoldSeats, Named
  <2>2. Len(o) \in Nat \ {0}
    BY <2>1, EmptySeq
  <2>3. 1 \in DOMAIN o
    BY <2>1, <2>2
  <2>4. QED
    BY <2>3 DEF ToSet
<1>3. \A r \in Workers : Selling(r) => \A s \in RowsOf(r) : s \notin ToSet(o)
  <2> SUFFICES ASSUME NEW r \in Workers, confirming[r].open, NEW s \in RowsOf(r)
               PROVE  s \notin ToSet(o)
    BY DEF Selling
  <2>1. seat[s] = HeldRow(CallOf(r).user)
    BY OpenRows
  <2>2. seat[s] # Available
    BY <2>1 DEF HeldRow, Available
  <2>3. QED
    BY <1>1, <2>2
<1>4. \A r \in Workers : Selling(r)' = Selling(r) /\ RowsOf(r)' = RowsOf(r)
  BY <1>1 DEF Selling, RowsOf, CallOf
<1>5. \A s \in ToSet(o) : Rows[s] = Available /\ Rows'[s] = HeldRow(u)
  BY <1>1, <1>3, <1>4, RowsInSale, RowsInSaleNext
<1>6. \A s \in Seats : s \notin ToSet(o) => Rows'[s] = Rows[s]
  BY <1>1, <1>4, RowsInSale, RowsInSaleNext
<1>7. Available # HeldRow(u)
  BY DEF Available, HeldRow
<1>8. Promise!Turn(Available, HeldRow(u))
  BY <1>1, <1>2, <1>5, <1>6, <1>7, TurnOf
<1>9. UNCHANGED <<Sales, aborts + lostAcks>>
  BY <1>1 DEF Sales, SaleOf, SeatsOf, BookingIds
<1>10. Promise!Hold(u)
  BY <1>8, <1>9 DEF Promise!Hold, Promise!Row, Available, HeldRow, Sales
<1>11. QED
  BY <1>10 DEF Promise!SalesNext

\* A commit while the outer transaction is open is the sale of its seats, even
\* before their rows are updated; one that looks failed, or that comes when the
\* outer transaction is gone, is a sale whose seats a fault keeps back.
LEMMA CommitSellsSeats ==
    ASSUME OneInv, NEW r \in Workers, CreateSeatBooking(r), UNCHANGED bookings => FALSE
    PROVE  Promise!SalesNext
<1>0. SeatInv /\ OwnInv /\ [SeatNext]_seatVars
  BY DEF OneInv, OwnInv, SeatNext
<1>1. PICK n \in Nat : n = Len(bookings)
  BY <1>0, SeatsOfType
<1>2. /\ pc[r] = "commit"
      /\ bookings' = Append(bookings, NewBooking(SeatInput(CallOf(r)), confirming[r].call))
      /\ \/ result' = [result EXCEPT ![r] = n + 1] /\ UNCHANGED lostAcks
         \/ lostAcks' = lostAcks + 1 /\ UNCHANGED result
      /\ UNCHANGED <<seat, calls, confirming, aborts>>
  BY <1>0, <1>1, CreateEffect
<1>3. /\ DOMAIN bookings' = DOMAIN bookings \cup {n + 1}
      /\ \A b \in DOMAIN bookings : bookings'[b] = bookings[b]
      /\ bookings'[n + 1].job = confirming[r].call
      /\ bookings'[n + 1].user = CallOf(r).user
      /\ bookings'[n + 1].status = "confirmed"
  <2>1. PICK m : m = Len(bookings) + 1
    OBVIOUS
  <2>2. /\ DOMAIN bookings' = DOMAIN bookings \cup {m}
        /\ \A b \in DOMAIN bookings : bookings'[b] = bookings[b]
        /\ bookings'[m].job = confirming[r].call
        /\ bookings'[m].user = CallOf(r).user
        /\ bookings'[m].status = "confirmed"
    BY <1>0, <1>2, <2>1, SeatInsert
  <2>3. m = n + 1
    BY <1>1, <2>1
  <2>4. QED
    BY <2>2, <2>3
<1>4. pc[r] # "idle" /\ result[r] = 0 /\ result \in [Workers -> Nat]
  BY <1>0, <1>2 DEF SeatInv, SeatTypeOK, ServiceTypeOK, SeatLinks, LinksOf
<1> DEFINE u == CallOf(r).user
           S == RowsOf(r)
           x == [user |-> u, seats |-> S, status |-> "confirmed"]
<1>5. u \in Users /\ S \in SUBSET Seats /\ S # {}
  <2>1. CallOf(r) \in SeatCall /\ confirming[r].call \in DOMAIN calls
    BY <1>0, <1>4, InputType
  <2>2. CallOf(r).order \in Seq(Seats) /\ CallOf(r).order # << >>
    BY <1>0, <2>1, SeatAssumption DEF SeatCall, SeatInv, SeatLinks, CallOf
  <2>3. Len(CallOf(r).order) \in Nat \ {0}
    BY <2>2, EmptySeq
  <2>4. 1 \in DOMAIN CallOf(r).order
    BY <2>2, <2>3
  <2>5. \A i \in DOMAIN CallOf(r).order : CallOf(r).order[i] \in Seats
    BY <2>2
  <2>6. QED
    BY <2>1, <2>4, <2>5 DEF SeatCall, RowsOf, ToSet
<1>6. Sales' = Append(Sales, x)
  <2>1. x \in Sale
    BY <1>5 DEF Sale, Status
  <2>2. BookingIds = 1 .. n /\ BookingIds' = 1 .. (n + 1)
    <3>1. BookingIds = 1 .. n
      BY <1>0, <1>1, SeatsOfType
    <3>2. 1 .. (n + 1) = (1 .. n) \cup {n + 1}
      OBVIOUS
    <3>3. QED
      BY <1>3, <3>1, <3>2 DEF BookingIds
  <2>3. \A b \in 1 .. n : SaleOf(b) \in Sale /\ SaleOf(b)' = SaleOf(b)
    BY <1>0, <1>3, <2>2, SeatsOfType, SeatsOfKept DEF SaleOf, BookingIds
  <2>4. SaleOf(n + 1)' = x
    BY <1>2, <1>3 DEF SaleOf, SeatsOf, RowsOf, CallOf
  <2>5. /\ Sales = [b \in 1 .. n |-> SaleOf(b)]
        /\ Sales' = [b \in 1 .. (n + 1) |-> SaleOf(b)']
    BY <2>2 DEF Sales
  <2>6. /\ Sales = [b \in 1 .. n |-> Sales[b]] /\ \A b \in 1 .. n : Sales[b] \in Sale
        /\ Sales' = [b \in 1 .. (n + 1) |-> Sales'[b]]
        /\ \A b \in 1 .. n : Sales'[b] = Sales[b]
        /\ Sales'[n + 1] = x
    BY <2>3, <2>4, <2>5
  <2> HIDE DEF x
  <2>7. QED
    BY <2>1, <2>6, SaleAppend
<1>7. Promise!Sold(u, S)
  BY <1>6 DEF Promise!Sold, Sales
<1>8. \A y \in Workers : RowsOf(y)' = RowsOf(y) /\ (y # r => (Selling(y)' <=> Selling(y)))
  BY <1>2, <1>4 DEF RowsOf, CallOf, Selling
<1>9. ~Selling(r)
  BY <1>4 DEF Selling
<1>10. aborts \in Nat /\ lostAcks \in Nat
  BY <1>0, SeatAssumption, ServiceAssumption DEF SeatInv, SeatTypeOK, ServiceTypeOK
<1>11. CASE confirming[r].open /\ result' = [result EXCEPT ![r] = n + 1] /\ UNCHANGED lostAcks
  <2>1. Selling(r)'
    BY <1>1, <1>2, <1>4, <1>11 DEF Selling
  <2>2. /\ \A s \in S : seat[s] = HeldRow(u)
        /\ \A y \in Workers : y # r /\ confirming[y].open => RowsOf(y) \cap S = {}
    BY <1>0, <1>11, OpenRows
  <2>3. \A s \in S : Rows[s] = HeldRow(u)
    BY <1>5, <1>9, <2>2, RowsInSale DEF Selling
  <2>4. \A s \in S : Rows'[s] = Booked
    BY <1>5, <1>8, <2>1, RowsInSaleNext
  <2>5. \A s \in Seats : s \notin S => Rows'[s] = Rows[s]
    BY <1>2, <1>8, RowsInSale, RowsInSaleNext
  <2>6. HeldRow(u) # Booked
    BY DEF HeldRow, Booked
  <2>7. Promise!Turn(HeldRow(u), Booked) /\ Promise!Changed = S
    BY <1>5, <2>3, <2>4, <2>5, <2>6, TurnOf
  <2>8. UNCHANGED (aborts + lostAcks)
    BY <1>2, <1>11
  <2>9. Promise!Sell(u)
    BY <1>7, <2>7, <2>8 DEF Promise!Sell, Promise!Row, HeldRow, Booked
  <2>10. QED
    BY <1>5, <2>9 DEF Promise!SalesNext
<1>12. ASSUME Selling(r)' <=> Selling(r),
              lostAcks' = lostAcks + 1 \/ (UNCHANGED lostAcks /\ aborts # 0)
       PROVE  Promise!SalesNext
  <2>1. Rows' = Rows
    BY <1>2, <1>8, <1>12, RowsKept
  <2>2. (aborts + lostAcks)' \in {aborts + lostAcks, aborts + lostAcks + 1}
        /\ (aborts + lostAcks)' > 0
    BY <1>2, <1>10, <1>12
  <2>3. Promise!Strand(u, S)
    BY <1>7, <2>1, <2>2 DEF Promise!Strand, Rows
  <2>4. QED
    BY <1>5, <2>3 DEF Promise!SalesNext
<1>13. CASE ~confirming[r].open /\ UNCHANGED lostAcks
  <2>1. aborts # 0
    BY <1>4, <1>13 DEF OneInv, OpenWhileBusy
  <2>2. ~Selling(r)'
    BY <1>2, <1>13 DEF Selling
  <2>3. QED
    BY <1>9, <1>12, <1>13, <2>1, <2>2
<1>14. CASE lostAcks' = lostAcks + 1 /\ UNCHANGED result
  <2>1. Selling(r)' <=> Selling(r)
    BY <1>2, <1>14 DEF Selling
  <2>2. QED
    BY <1>12, <1>14, <2>1
<1>15. QED
  BY <1>2, <1>11, <1>13, <1>14

\* An outer transaction that ends early is a fault: if its booking is committed
\* already, the seats of that sale are back with their holder.
LEMMA SaleLost ==
    ASSUME OwnInv, NEW r \in Workers,
           ~confirming'[r].open,
           \A x \in Workers : x # r => confirming'[x] = confirming[x] /\ result'[x] = result[x],
           aborts' = aborts + 1,
           UNCHANGED <<seat, calls, bookings, lostAcks>>
    PROVE  Promise!SalesNext
<1>0. SeatInv
  BY DEF OwnInv
<1>1. aborts \in Nat /\ lostAcks \in Nat
  BY <1>0, SeatAssumption, ServiceAssumption DEF SeatInv, SeatTypeOK, ServiceTypeOK
<1>2. (aborts + lostAcks)' = (aborts + lostAcks) + 1
  BY <1>1
<1>3. UNCHANGED Sales
  BY DEF Sales, SaleOf, SeatsOf, BookingIds
<1>4. /\ ~Selling(r)'
      /\ \A x \in Workers : x # r => (Selling(x)' <=> Selling(x)) /\ RowsOf(x)' = RowsOf(x)
  BY DEF Selling, RowsOf, CallOf
<1>5. CASE ~Selling(r)
  <2>1. /\ \A x \in Workers : Selling(x)' <=> Selling(x)
        /\ \A x \in Workers : Selling(x) => RowsOf(x)' = RowsOf(x)
    BY <1>4, <1>5
  <2>2. Rows' = Rows
    BY <2>1, RowsKept
  <2>3. Promise!Fault
    BY <1>2, <1>3, <2>2 DEF Promise!Fault, Rows, Sales
  <2>4. QED
    BY <2>3 DEF Promise!SalesNext
<1>6. CASE Selling(r)
  <2>0. PICK u, S, t : u = CallOf(r).user /\ S = RowsOf(r) /\ t = result[r]
    OBVIOUS
  <2>1. confirming[r].open /\ t # 0
    BY <1>6, <2>0 DEF Selling
  <2>2. /\ S \in SUBSET Seats /\ S # {}
        /\ \A s \in S : seat[s] = HeldRow(u)
        /\ \A x \in Workers : x # r /\ confirming[x].open => RowsOf(x) \cap S = {}
    BY <2>0, <2>1, OpenRows
  <2>3. t \in BookingIds /\ SeatsOf(t) = S
    BY <1>0, <2>0, <2>1, SeatsOfResult
  <2>4. bookings[t].user = u
    BY <1>0, <2>0, <2>1, <2>3 DEF SeatInv, SeatLinks, LinksOf, CallOf
  <2>5. \A s \in S : Rows[s] = Booked
    BY <1>6, <2>0, <2>2, RowsInSale
  <2>6. \A s \in S : Rows'[s] = HeldRow(u)
    BY <1>4, <2>0, <2>2, RowsInSaleNext DEF Selling
  <2>7. \A s \in Seats : s \notin S => Rows'[s] = Rows[s]
    BY <1>4, <2>0, RowsInSale, RowsInSaleNext
  <2>8. Booked # HeldRow(u)
    BY DEF Booked, HeldRow
  <2>9. Promise!Turn(Booked, HeldRow(u)) /\ Promise!Changed = S
    BY <2>2, <2>5, <2>6, <2>7, <2>8, TurnOf
  <2>10. t \in DOMAIN Sales /\ Sales[t].user = u /\ Sales[t].seats = S
    BY <2>3, <2>4 DEF Sales, SaleOf
  <2>11. Promise!Fault
    <3>1. /\ Promise!Changed = S /\ S # {}
          /\ \A s \in S : /\ Rows[s] = Promise!Row("booked", Nobody)
                         /\ Rows'[s] = Promise!Row("held", Sales[t].user)
      BY <2>2, <2>5, <2>6, <2>9, <2>10 DEF Promise!Row, Booked, HeldRow
    <3>2. Promise!Turn(Promise!Row("booked", Nobody), Promise!Row("held", Sales[t].user))
      BY <3>1 DEF Promise!Turn, Rows
    <3>3. \E k \in DOMAIN Sales :
             /\ Promise!Turn(Promise!Row("booked", Nobody), Promise!Row("held", Sales[k].user))
             /\ Promise!Changed = Sales[k].seats
      <4>1. t \in DOMAIN Sales /\ Promise!Changed = Sales[t].seats
        BY <2>9, <2>10
      <4>2. QED
        BY <3>2, <4>1 DEF Promise!Turn
    <3>4. QED
      BY <1>2, <1>3, <3>3 DEF Promise!Fault, Promise!Turn, Sales
  <2>12. QED
    BY <2>11 DEF Promise!SalesNext
<1>7. QED
  BY <1>5, <1>6

\* A cancellation cancels one sale, and the second of two cancels nothing.
LEMMA CancelCancels ==
    ASSUME SeatInv, NEW c \in Cancellers, CancelSeatBooking(c)
    PROVE  Promise!SalesNext \/ UNCHANGED Sales
<1>1. CASE UNCHANGED bookings
  BY <1>1 DEF Sales, SaleOf, SeatsOf, BookingIds, CancelSeatBooking
<1>2. ASSUME NEW t \in DOMAIN bookings,
             bookings'[t].status = "cancelled",
             \A k \in DOMAIN bookings : k # t => bookings'[k] = bookings[k]
      PROVE  Promise!SalesNext \/ UNCHANGED Sales
  <2>1. /\ BookingIds' = BookingIds
        /\ \A b \in BookingIds : SeatsOf(b)' = SeatsOf(b) /\ bookings'[b].user = bookings[b].user
        /\ UNCHANGED <<seat, calls, confirming, aborts, result, lostAcks>>
    BY CancelSeatEffect DEF BookingIds, SeatsOf
  <2>2. /\ SaleOf(t)' = [SaleOf(t) EXCEPT !.status = "cancelled"]
        /\ \A b \in BookingIds : b # t => SaleOf(b)' = SaleOf(b)
    BY <1>2, <2>1 DEF SaleOf, BookingIds
  <2>3. Sales' = [Sales EXCEPT ![t].status = "cancelled"]
    BY <1>2, <2>1, <2>2 DEF Sales, BookingIds
  <2>4. t \in DOMAIN Sales /\ Sales[t].status = bookings[t].status
    BY DEF Sales, SaleOf, BookingIds
  <2>5. bookings[t].status \in {"confirmed", "cancelled"}
    <3>1. bookings \in Seq(Booking)
      BY DEF SeatInv, SeatTypeOK, ServiceTypeOK
    <3>2. bookings[t] \in Booking
      BY <3>1
    <3>3. QED
      BY <3>2 DEF Booking, Status
  <2>6. CASE bookings[t].status = "confirmed"
    <3>1. UNCHANGED <<Rows, aborts + lostAcks>>
      BY <2>1 DEF Rows, InSale, CallOf
    <3>2. Promise!Cancel(t)
      BY <2>3, <2>4, <2>6, <3>1 DEF Promise!Cancel, Rows, Sales
    <3>3. QED
      BY <2>4, <3>2 DEF Promise!SalesNext, Sales
  <2>7. CASE bookings[t].status = "cancelled"
    <3>1. SaleOf(t)' = SaleOf(t)
      BY <1>2, <2>1, <2>7 DEF SaleOf, BookingIds
    <3>2. QED
      BY <2>1, <2>2, <3>1 DEF Sales
  <2>8. QED
    BY <2>5, <2>6, <2>7
<1>3. QED
  BY <1>1, <1>2, CancelSeatEffect

\* Every step of the requests is a step of the promise, or invisible.
LEMMA SalesStep ==
    ASSUME OneInv, [SeatNext]_seatVars
    PROVE  Promise!SalesNext \/ UNCHANGED <<Rows, Sales, aborts + lostAcks>>
<1> DEFINE Goal == Promise!SalesNext \/ UNCHANGED <<Rows, Sales, aborts + lostAcks>>
<1>0. SeatInv /\ OwnInv
  BY DEF OneInv, OwnInv
<1>1. ASSUME UNCHANGED <<aborts, lostAcks, bookings>>,
             \A k \in DOMAIN calls : calls'[k] = calls[k],
             Rows' = Rows
      PROVE  Goal
  <2>1. BookingIds' = BookingIds /\ \A b \in BookingIds : SaleOf(b)' = SaleOf(b)
    BY <1>0, <1>1, SeatsOfKept DEF SaleOf, BookingIds
  <2>2. QED
    BY <1>1, <2>1 DEF Sales
<1>2. ASSUME NEW u \in Users, NEW e \in EventIds, NEW o \in Orders, HoldSeats(u, e, o)
      PROVE Goal
  BY <1>0, <1>2, HoldHolds
<1>3. ASSUME NEW r \in Workers, NEW u \in Users, NEW e \in EventIds, NEW o \in Orders,
             ConfirmSeats(r, u, e, o)
      PROVE Goal
  <2>1. PICK k : k = Len(calls) + 1
    OBVIOUS
  <2>2. /\ \A j \in DOMAIN calls : calls'[j] = calls[j]
        /\ \A x \in Workers : x # r => confirming'[x] = confirming[x]
        /\ result'[r] = 0 /\ pc[r] = "idle"
        /\ UNCHANGED <<seat, aborts, bookings, result, lostAcks>>
    BY <1>0, <1>3, <2>1, ConfirmEffect
  <2>3. ~Selling(r) /\ ~Selling(r)'
    BY <2>2 DEF Selling
  <2>4. ASSUME NEW x \in Workers
        PROVE  (Selling(x)' <=> Selling(x)) /\ (Selling(x) => RowsOf(x)' = RowsOf(x))
    <3>1. CASE x = r
      BY <2>3, <3>1
    <3>2. CASE x # r
      <4>1. Selling(x)' <=> Selling(x)
        BY <2>2, <3>2 DEF Selling
      <4>2. Selling(x) => CallOf(x)' = CallOf(x)
        BY <1>0, <2>2, <3>2, CallKept DEF Selling
      <4>3. QED
        BY <4>1, <4>2 DEF RowsOf
    <3>3. QED
      BY <3>1, <3>2
  <2>5. Rows' = Rows
    BY <2>2, <2>4, RowsKept
  <2>6. QED
    BY <1>1, <2>2, <2>5
<1>4. ASSUME NEW r \in Workers, CreateSeatBooking(r) PROVE Goal
  <2>1. CASE UNCHANGED bookings
    <3>1. UNCHANGED <<seat, calls, confirming, aborts, result, lostAcks>>
      <4>1. bookings' # Append(bookings, NewBooking(SeatInput(CallOf(r)), confirming[r].call))
        <5>1. PICK n : n = Len(bookings) + 1
          OBVIOUS
        <5>2. pc[r] # "idle"
          BY <1>0, <1>4, CreateEffect
        <5>3. QED
          BY <1>0, <2>1, <5>1, <5>2, SeatInsert
      <4>2. QED
        BY <1>0, <1>4, <4>1, CreateEffect
    <3>2. Rows' = Rows
      BY <3>1 DEF Rows, InSale, CallOf
    <3>3. QED
      BY <1>1, <2>1, <3>1, <3>2
  <2>2. QED
    BY <1>4, <2>1, CommitSellsSeats
<1>5. ASSUME NEW r \in Workers, Respond(r), ~Selling(r), UNCHANGED <<seat, aborts>> PROVE Goal
  <2>1. /\ ~confirming'[r].open
        /\ \A x \in Workers : x # r => result'[x] = result[x] /\ confirming'[x] = confirming[x]
        /\ UNCHANGED <<calls, bookings, lostAcks>>
    BY <1>0, <1>5, RespondEffect
  <2>2. /\ \A x \in Workers : Selling(x)' <=> Selling(x)
        /\ \A x \in Workers : Selling(x) => RowsOf(x)' = RowsOf(x)
    BY <1>5, <2>1 DEF Selling, RowsOf, CallOf
  <2>3. Rows' = Rows
    BY <1>5, <2>2, RowsKept
  <2>4. QED
    BY <1>1, <1>5, <2>1, <2>3
<1>6. ASSUME NEW r \in Workers, ConfirmCommit(r) PROVE Goal
  <2>1. /\ \A s \in Seats : seat'[s] = IF s \in RowsOf(r) THEN Booked ELSE seat[s]
        /\ Selling(r) /\ Respond(r) /\ UNCHANGED aborts
    BY <1>0, <1>6, UpdatedType DEF RowsOf, Booked, Selling
  <2>2. /\ ~confirming'[r].open
        /\ \A x \in Workers : x # r => result'[x] = result[x] /\ confirming'[x] = confirming[x]
        /\ UNCHANGED <<calls, bookings, lostAcks>>
    BY <1>0, <2>1, RespondEffect
  <2>3. /\ ~Selling(r)'
        /\ \A x \in Workers : x # r => (Selling(x)' <=> Selling(x)) /\ RowsOf(x)' = RowsOf(x)
    BY <2>2 DEF Selling, RowsOf, CallOf
  <2>4. \A s \in Seats : Rows'[s] = Rows[s]
    BY <2>1, <2>3, RowsInSale, RowsInSaleNext
  <2>5. Rows' = Rows
    BY <2>4 DEF Rows
  <2>6. QED
    BY <1>1, <2>1, <2>2, <2>5
<1>7. ASSUME NEW r \in Workers, ConfirmFails(r) PROVE Goal
  BY <1>5, <1>7 DEF ConfirmFails, Selling
<1>8. ASSUME NEW r \in Workers, OuterEnds(r) PROVE Goal
  <2>1. /\ ~confirming'[r].open
        /\ \A x \in Workers : x # r => confirming'[x] = confirming[x]
        /\ aborts' = aborts + 1
        /\ UNCHANGED <<seat, calls, bookings, lostAcks, result>>
    BY <1>0, <1>8, OuterEndsEffect
  <2>2. QED
    BY <1>0, <2>1, SaleLost
<1>9. ASSUME NEW r \in Workers, ConfirmDies(r) PROVE Goal
  <2>1. /\ ~confirming'[r].open
        /\ \A x \in Workers : x # r => result'[x] = result[x] /\ confirming'[x] = confirming[x]
        /\ UNCHANGED <<calls, bookings, lostAcks>>
    BY <1>0, <1>9, RespondEffect DEF ConfirmDies
  <2>2. aborts' = aborts + 1 /\ UNCHANGED seat
    BY <1>9 DEF ConfirmDies
  <2>3. QED
    BY <1>0, <2>1, <2>2, SaleLost
<1>10. ASSUME NEW c \in Cancellers, CancelSeatBooking(c) PROVE Goal
  <2>1. UNCHANGED <<seat, calls, confirming, aborts, result, lostAcks>>
    BY <1>0, <1>10, CancelSeatEffect
  <2>2. UNCHANGED <<Rows, aborts + lostAcks>>
    BY <2>1 DEF Rows, InSale, CallOf
  <2>3. QED
    BY <1>0, <1>10, <2>2, CancelCancels
<1>11. ASSUME UNCHANGED seatVars PROVE Goal
  <2>1. Rows' = Rows
    BY <1>11 DEF seatVars, Rows, InSale, CallOf
  <2>2. QED
    BY <1>1, <1>11, <2>1 DEF seatVars
<1> HIDE DEF Goal
<1>12. ASSUME SeatNext PROVE Goal
  BY <1>2, <1>3, <1>4, <1>6, <1>7, <1>8, <1>9, <1>10, <1>12, SeatCases
<1>13. QED
  BY <1>11, <1>12 DEF Goal

\* Holding and confirming seats keeps the promise of SeatSales: the two
\* transactions of confirmSeats look like one indivisible sale, with all its
\* seats or none, up to the faults it allows and counts.
THEOREM ImplementsSeatSales == SeatSpec => SellsSeats
<1>1. ASSUME SeatInit PROVE Promise!SalesInit
  <2>1. \A s \in Seats : ~InSale(s)
    BY <1>1 DEF SeatInit, InSale, NotConfirming
  <2>2. Rows = [s \in Seats |-> Available]
    BY <1>1, <2>1 DEF SeatInit, Rows, Available
  <2>3. Sales = << >> /\ aborts + lostAcks = 0
    BY <1>1 DEF SeatInit, ServiceInit, Sales, BookingIds
  <2>4. QED
    BY <2>2, <2>3 DEF Promise!SalesInit, Promise!Row, Available, Rows, Sales
<1>2. ASSUME OneInv, [SeatNext]_seatVars PROVE [Promise!SalesNext]_(Promise!salesVars)
  BY <1>2, SalesStep DEF Promise!salesVars, Rows, Sales
<1>3. QED
  BY <1>1, <1>2, OneInvariant, PTL DEF SeatSpec, SellsSeats, Promise!SalesSpec

==============================================================================
