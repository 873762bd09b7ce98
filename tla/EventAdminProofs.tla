-------------------------- MODULE EventAdminProofs --------------------------
(***************************************************************************)
(* Proofs about EventAdmin, for any number of administrators, customers,   *)
(* workers, events, capacities, edits and bookings.                        *)
(*                                                                         *)
(* Four things are kept apart: the tables, the workers inside createBooking, *)
(* what administrators have offered, and the reports that are being put     *)
(* together.                                                               *)
(***************************************************************************)
EXTENDS EventAdmin, SetSums, SequenceTheorems, FiniteSetTheorems, TLAPS

-----------------------------------------------------------------------------
(* The inductive invariant *)

Row == [event: Events, capacity: Int]

Report == [running: BOOLEAN, counts: [Events -> Nat], todo: SUBSET Events,
           row: Row \cup {NoRow}, stats: SUBSET Stats]

\* The events, the bookings and the cancellations under way.
TablesOK ==
    /\ available \in [Events -> Int]
    /\ bookings \in Seq(Booking)
    /\ cancelling \in [Cancellers -> Nat]
    /\ \A c \in Cancellers : cancelling[c] = 0 \/ cancelling[c] \in BookingIds
    /\ phase \in [Events -> {"new", "listed", "deleted"}]
    /\ capacity \in [Events -> Int]
    /\ BookedEventsListed

WorkersOK ==
    /\ pc \in [Workers -> Steps]
    /\ attempt \in [Workers -> 0 .. (MaxRetries - 1)]
    /\ result \in [Workers -> Nat]
    /\ lostAcks \in 0 .. MaxLostAcks
    /\ task \in [Workers -> Requests \cup {NoTask}]
    /\ \A w \in Workers : pc[w] # "idle" => task[w] \in Requests

OffersOK ==
    /\ edits \in 0 .. MaxEdits
    /\ lapses \in 0 .. MaxLapses
    /\ offered \in [Events -> Int]
    /\ undercut \subseteq Events

\* What a report has counted was there, and is there still.
ReportOK(r) ==
    /\ \A e \in r.todo : r.counts[e] > 0
    /\ r.row # NoRow => r.counts[r.row.event] > 0
    /\ \A e \in Events : r.counts[e] <= Cardinality(BookingsOf(e))

ReportsOK == report \in [Admins -> Report] /\ \A a \in Admins : ReportOK(report[a])

AdminInv == TablesOK /\ WorkersOK /\ OffersOK /\ ReportsOK

-----------------------------------------------------------------------------
(* What the operators return *)

\* Replacing one element of a sequence by another of the same set changes
\* neither its type nor its length.
LEMMA SeqUpdate ==
    ASSUME NEW S, NEW s \in Seq(S), NEW i \in DOMAIN s, NEW v \in S, NEW t,
           t = [s EXCEPT ![i] = v]
    PROVE  /\ t \in Seq(S)
           /\ DOMAIN t = DOMAIN s
           /\ \A k \in DOMAIN s : t[k] = IF k = i THEN v ELSE s[k]
BY ExceptSeq

\* Appending an element to a sequence keeps the elements it had.
LEMMA SeqAppend ==
    ASSUME NEW S, NEW s \in Seq(S), NEW v \in S, NEW t, t = Append(s, v)
    PROVE  /\ t \in Seq(S)
           /\ DOMAIN t = DOMAIN s \cup {Len(s) + 1}
           /\ Len(s) + 1 \notin DOMAIN s
           /\ \A k \in DOMAIN s : t[k] = s[k]
           /\ t[Len(s) + 1] = v
BY AppendProperties

LEMMA BookingRows ==
    ASSUME TablesOK
    PROVE  /\ \A b \in BookingIds : bookings[b] \in Booking
           /\ IsFiniteSet(BookingIds)
           /\ \A S \in SUBSET BookingIds : IsFiniteSet(S)
<1>1. BookingIds = 1 .. Len(bookings) /\ Len(bookings) \in Nat
  BY DEF TablesOK, BookingIds
<1>2. IsFiniteSet(BookingIds)
  BY <1>1, FS_Interval
<1>3. QED
  BY <1>2, FS_Subset DEF TablesOK, BookingIds

-----------------------------------------------------------------------------
(* The tables *)

\* A booking is added for a listed event.
Sale(w) ==
    /\ w \in Workers
    /\ pc[w] = "commit"
    /\ Listed(task[w].event)
    /\ WriteBooking(task[w], 0)
    /\ pc' = [pc EXCEPT ![w] = "release"]
    /\ UNCHANGED <<cancelling, phase, capacity, task, lapses, offers>>

\* Only these steps touch the tables.
LEMMA TableCases ==
    ASSUME [AdminNext]_adminVars
    PROVE  \/ UNCHANGED <<tables, phase, capacity, offers>>
           \/ \E e \in Events, n \in Sizes : CreateRow(e, n)
           \/ \E e \in Events, p \in Payloads : UpdateEvent(e, p)
           \/ \E e \in Events : DeleteEvent(e)
           \/ \E w \in Workers : Sale(w)
           \/ \E c \in Cancellers : Cancel(c)
<1> DEFINE Same == UNCHANGED <<tables, phase, capacity, offers>>
<1>1. ASSUME NEW e \in Events, NEW n \in Sizes, CreateEvent(e, n) \/ CreateUserEvent(e, n)
      PROVE  CreateRow(e, n)
  BY <1>1 DEF CreateEvent, CreateUserEvent
<1>2. ASSUME NEW a \in Admins, NEW r, Goes(a, r) PROVE Same
  BY <1>2 DEF Goes, tables
<1>3. ASSUME NEW w \in Workers, NEW d \in Requests, StartBooking(w, d) PROVE Same
  BY <1>3 DEF StartBooking, CallCreateBooking, tables, offers
<1>4. ASSUME NEW w \in Workers, CreateBooking(w) PROVE Same \/ Sale(w)
  <2>1. ASSUME Listed(task[w].event), Commit(w, task[w], 0) PROVE Sale(w)
    BY <1>4, <2>1 DEF Commit, Goto, Sale, CreateBooking
  <2>2. ASSUME ReadAccepts(w, task[w]) \/ ReadRefuses(w, task[w]) \/ TransactionFails(w) PROVE Same
    BY <1>4, <2>2 DEF CreateBooking, ReadAccepts, ReadRefuses, TransactionFails, CatchError,
                      tables, offers
  <2>3. QED
    BY <1>4, <2>1, <2>2 DEF CreateBooking
<1>5. ASSUME NEW w \in Workers, FinishBooking(w) PROVE Same
  BY <1>5 DEF FinishBooking, tables, offers
<1>6. CASE UNCHANGED adminVars
  BY <1>6 DEF adminVars, tables, offers
<1> HIDE DEF Same
<1>7. QED
  BY <1>1, <1>2, <1>3, <1>4, <1>5, <1>6
     DEF AdminNext, Same, StatsCount, StatsEvent, StatsCancelled, StatsDone, StatsFails

\* The table Booking grows, and what was cancelled stays so.
BookingsGrow ==
    \A b \in BookingIds : b \in BookingIds' /\ bookings'[b].event = bookings[b].event

LEMMA SaleEffect ==
    ASSUME TablesOK, WorkersOK, NEW w, Sale(w)
    PROVE  \E n : /\ n = Len(bookings) + 1
                  /\ n \notin BookingIds
                  /\ BookingIds' = BookingIds \cup {n}
                  /\ bookings' \in Seq(Booking)
                  /\ \A b \in BookingIds : bookings'[b] = bookings[b]
                  /\ bookings'[n] = NewBooking(task[w], 0)
                  /\ task[w] \in Requests /\ task[w].seats \in Nat \ {0}
                  /\ task[w].seatLevel \in BOOLEAN
                  /\ task[w].event \in Events
<1>1. task[w] \in Requests /\ task[w] \in CreateBookingInput
  BY RequestsAssumption DEF Sale, WorkersOK
<1>2. task[w].seats \in Nat \ {0} /\ task[w].seatLevel \in BOOLEAN /\ task[w].event \in Events
  BY <1>1 DEF Sale, WriteBooking, Unset, CreateBookingInput
<1>3. NewBooking(task[w], 0) \in Booking
  BY <1>1, <1>2 DEF NewBooking, Booking, CreateBookingInput, Status
<1>4. bookings \in Seq(Booking) /\ bookings' = Append(bookings, NewBooking(task[w], 0))
  BY DEF Sale, WriteBooking, TablesOK
<1>5. /\ bookings' \in Seq(Booking)
      /\ DOMAIN bookings' = DOMAIN bookings \cup {Len(bookings) + 1}
      /\ Len(bookings) + 1 \notin DOMAIN bookings
      /\ \A b \in DOMAIN bookings : bookings'[b] = bookings[b]
      /\ bookings'[Len(bookings) + 1] = NewBooking(task[w], 0)
  BY <1>3, <1>4, SeqAppend
<1>6. QED
  BY <1>1, <1>2, <1>5 DEF BookingIds

LEMMA CancelEffect ==
    ASSUME TablesOK, NEW c \in Cancellers, CancelCommit(c)
    PROVE  \E b \in BookingIds, r \in Booking :
              /\ b = cancelling[c]
              /\ BookingIds' = BookingIds
              /\ bookings' \in Seq(Booking)
              /\ \A k \in BookingIds : bookings'[k] = IF k = b THEN r ELSE bookings[k]
              /\ r.event = bookings[b].event /\ r.seats = bookings[b].seats
              /\ r.seatLevel = bookings[b].seatLevel
              /\ r.refunds = bookings[b].refunds + 1
              /\ r.status = "cancelled"
              /\ available' = [available EXCEPT ![r.event] = @ + r.seats]
<1>1. PICK b : b = cancelling[c]
  OBVIOUS
<1> DEFINE r == [bookings[b] EXCEPT !.status = "cancelled", !.refunds = bookings[b].refunds + 1]
<1>2. b \in BookingIds /\ bookings \in Seq(Booking) /\ bookings[b] \in Booking
  BY <1>1, BookingRows DEF CancelCommit, TablesOK
<1>3. bookings[b].refunds + 1 \in Nat
  BY <1>2 DEF Booking
<1>4. /\ r \in Booking /\ r.event = bookings[b].event /\ r.seats = bookings[b].seats
      /\ r.seatLevel = bookings[b].seatLevel /\ r.refunds = bookings[b].refunds + 1
      /\ r.status = "cancelled"
  BY <1>2, <1>3 DEF Booking, Status
<1>5. bookings' = [bookings EXCEPT ![b] = r]
  BY <1>1, <1>2 DEF CancelCommit, Booking
<1>6. /\ bookings' \in Seq(Booking) /\ DOMAIN bookings' = DOMAIN bookings
      /\ \A k \in DOMAIN bookings : bookings'[k] = IF k = b THEN r ELSE bookings[k]
  BY <1>2, <1>4, <1>5, SeqUpdate DEF BookingIds
<1>7. available' = [available EXCEPT ![r.event] = @ + r.seats]
  BY <1>1, <1>4 DEF CancelCommit, Restored
<1> HIDE DEF r
<1>8. QED
  BY <1>1, <1>2, <1>4, <1>6, <1>7 DEF BookingIds

LEMMA CounterUpdate ==
    ASSUME NEW f \in [Events -> Int], NEW e, NEW n \in Int
    PROVE  [f EXCEPT ![e] = @ + n] \in [Events -> Int]
<1>1. [f EXCEPT ![e] = @ + n] = [x \in Events |-> IF x = e THEN f[e] + n ELSE f[x]]
  OBVIOUS
<1>2. \A x \in Events : (IF x = e THEN f[e] + n ELSE f[x]) \in Int
  OBVIOUS
<1>3. QED
  BY <1>1, <1>2

\* What an update writes are numbers.
LEMMA PutInt ==
    ASSUME NEW p \in Payloads, NEW column, NEW old \in Int
    PROVE  Put(p, column, old) \in Int
<1>1. PICK named \in SUBSET Columns : p \in [named -> Numbers]
  BY DEF Payloads
<1>2. QED
  BY <1>1, AdminAssumption DEF Put

LEMMA UpdateEffect ==
    ASSUME AdminInv, NEW e \in Events, NEW p \in Payloads, UpdateEvent(e, p)
    PROVE  \E n \in Int, m \in Int :
              /\ available' = [available EXCEPT ![e] = n]
              /\ capacity' = [capacity EXCEPT ![e] = m]
              /\ offered' = [offered EXCEPT ![e] = offered[e] + (n - available[e])]
              /\ undercut' = IF TooFew(e, n) THEN undercut \cup {e} ELSE undercut \ {e}
<1> USE DEF AdminInv
<1> DEFINE n == Put(p, "availableCapacity", available[e])
           m == Put(p, "capacity", capacity[e])
<1>1. /\ available \in [Events -> Int] /\ available[e] \in Int /\ capacity[e] \in Int
      /\ offered \in [Events -> Int] /\ offered[e] \in Int
  BY DEF TablesOK, OffersOK
<1>2. n \in Int /\ m \in Int
  BY <1>1, PutInt
<1>3. "availableCapacity" \notin DOMAIN p => n = available[e]
  BY DEF Put
<1>4. /\ available' = [available EXCEPT ![e] = n] /\ capacity' = [capacity EXCEPT ![e] = m]
      /\ offered' = IF "availableCapacity" \in DOMAIN p
                      THEN [offered EXCEPT ![e] = offered[e] + (n - available[e])]
                      ELSE offered
      /\ undercut' = IF TooFew(e, n) THEN undercut \cup {e} ELSE undercut \ {e}
  BY DEF UpdateEvent
<1> HIDE DEF n, m
<1>5. offered' = [offered EXCEPT ![e] = offered[e] + (n - available[e])]
  <2>1. CASE "availableCapacity" \in DOMAIN p
    BY <1>4, <2>1
  <2>2. CASE "availableCapacity" \notin DOMAIN p
    <3>1. offered[e] + (n - available[e]) = offered[e]
      BY <1>1, <1>2, <1>3, <2>2
    <3>2. offered = [offered EXCEPT ![e] = offered[e]]
      BY <1>1
    <3>3. QED
      BY <1>4, <2>2, <3>1, <3>2
  <2>3. QED
    BY <2>1, <2>2
<1>6. QED
  BY <1>2, <1>4, <1>5

LEMMA TablesStep ==
    ASSUME AdminInv, [AdminNext]_adminVars
    PROVE  TablesOK' /\ BookingsGrow
<1> USE DEF AdminInv
<1> DEFINE Goal == TablesOK' /\ BookingsGrow
<1>1. CASE UNCHANGED <<tables, phase, capacity, offers>>
  BY <1>1 DEF tables, TablesOK, BookingsGrow, BookingIds, Listed, BookedEventsListed
<1>2. ASSUME NEW e \in Events, NEW n \in Sizes, CreateRow(e, n)
      PROVE  Goal
  <2>1. n \in Int
    BY AdminAssumption
  <2>2. /\ available' \in [Events -> Int] /\ capacity' \in [Events -> Int]
        /\ phase' \in [Events -> {"new", "listed", "deleted"}]
        /\ \A x \in Events : x # e => phase'[x] = phase[x]
        /\ phase'[e] = "listed"
    BY <1>2, <2>1 DEF CreateRow, TablesOK
  <2>3. UNCHANGED <<bookings, cancelling>>
    BY <1>2 DEF CreateRow
  <2>4. \A x \in Events : Listed(x) => Listed(x)'
    BY <2>2 DEF Listed
  <2>5. BookedEventsListed'
    BY <2>3, <2>4 DEF BookedEventsListed, BookingIds, TablesOK, Listed
  <2>6. QED
    BY <2>2, <2>3, <2>5 DEF TablesOK, BookingsGrow, BookingIds
<1>3. ASSUME NEW e \in Events, NEW p \in Payloads, UpdateEvent(e, p)
      PROVE  Goal
  <2>1. available' \in [Events -> Int] /\ capacity' \in [Events -> Int]
    BY <1>3, UpdateEffect DEF TablesOK
  <2>2. UNCHANGED <<bookings, cancelling, phase>>
    BY <1>3 DEF UpdateEvent
  <2>3. QED
    BY <2>1, <2>2 DEF TablesOK, BookingsGrow, BookingIds, BookedEventsListed, Listed
<1>4. ASSUME NEW e \in Events, DeleteEvent(e)
      PROVE  Goal
  <2>1. UNCHANGED <<available, bookings, cancelling, capacity>>
    BY <1>4 DEF DeleteEvent, tables
  <2>2. /\ phase' \in [Events -> {"new", "listed", "deleted"}]
        /\ \A x \in Events : x # e => phase'[x] = phase[x]
    BY <1>4 DEF DeleteEvent, TablesOK
  <2>3. \A b \in BookingIds : Listed(bookings[b].event) /\ bookings[b].event # e
    BY <1>4 DEF DeleteEvent, Referenced, TablesOK, BookedEventsListed
  <2>4. BookedEventsListed'
    BY <2>1, <2>2, <2>3 DEF BookedEventsListed, BookingIds, Listed
  <2>5. QED
    BY <2>1, <2>2, <2>4 DEF TablesOK, BookingsGrow, BookingIds
<1>5. ASSUME NEW w \in Workers, Sale(w)
      PROVE  Goal
  <2>1. PICK n : /\ n \notin BookingIds
                 /\ BookingIds' = BookingIds \cup {n}
                 /\ bookings' \in Seq(Booking)
                 /\ \A b \in BookingIds : bookings'[b] = bookings[b]
                 /\ bookings'[n] = NewBooking(task[w], 0)
                 /\ task[w].seats \in Nat \ {0}
    BY <1>5, SaleEffect
  <2>2. UNCHANGED <<cancelling, phase, capacity>> /\ Listed(task[w].event)
    BY <1>5 DEF Sale
  <2>3. available' \in [Events -> Int]
    BY <1>5, <2>1 DEF Sale, WriteBooking, Decremented, TablesOK
  <2>4. \A b \in BookingIds' : Listed(bookings'[b].event)
    <3>1. bookings'[n].event = task[w].event
      BY <2>1 DEF NewBooking
    <3>2. \A b \in BookingIds : Listed(bookings[b].event)
      BY DEF TablesOK, BookedEventsListed
    <3>3. QED
      BY <2>1, <2>2, <3>1, <3>2
  <2>5. BookedEventsListed'
    BY <2>2, <2>4 DEF BookedEventsListed, Listed
  <2>6. QED
    BY <2>1, <2>2, <2>3, <2>5 DEF TablesOK, BookingsGrow, Listed
<1>6. ASSUME NEW c \in Cancellers, Cancel(c)
      PROVE  Goal
  <2>1. ASSUME NEW u \in Users, NEW b \in BookingIds, CancelRead(c, u, b) PROVE Goal
    <3>1. UNCHANGED <<available, bookings, phase, capacity>> /\ b \in Nat
      BY <1>6, <2>1 DEF Cancel, CancelRead, TablesOK, BookingIds
    <3>2. /\ cancelling' \in [Cancellers -> Nat]
          /\ \A d \in Cancellers : cancelling'[d] = 0 \/ cancelling'[d] \in BookingIds
      BY <2>1, <3>1 DEF CancelRead, TablesOK
    <3>3. QED
      BY <3>1, <3>2 DEF TablesOK, BookingsGrow, BookingIds, BookedEventsListed, Listed
  <2>2. ASSUME CancelCommit(c) PROVE Goal
    <3>1. PICK b \in BookingIds, r \in Booking :
              /\ BookingIds' = BookingIds
              /\ bookings' \in Seq(Booking)
              /\ \A k \in BookingIds : bookings'[k] = IF k = b THEN r ELSE bookings[k]
              /\ r.event = bookings[b].event /\ r.seats = bookings[b].seats
              /\ available' = [available EXCEPT ![r.event] = @ + r.seats]
      BY <2>2, CancelEffect
    <3>2. r.seats \in Int
      BY DEF Booking
    <3>3. available' \in [Events -> Int]
      BY <3>1, <3>2, CounterUpdate DEF TablesOK
    <3>4. UNCHANGED <<phase, capacity>>
      BY <1>6 DEF Cancel
    <3>5. /\ cancelling' \in [Cancellers -> Nat]
          /\ \A d \in Cancellers : cancelling'[d] = 0 \/ cancelling'[d] \in BookingIds
      BY <2>2 DEF CancelCommit, TablesOK
    <3>6. \A k \in BookingIds : bookings'[k].event = bookings[k].event
      BY <3>1
    <3>7. BookedEventsListed'
      BY <3>1, <3>4, <3>6 DEF BookedEventsListed, Listed, TablesOK
    <3>8. QED
      BY <3>1, <3>3, <3>4, <3>5, <3>6, <3>7 DEF TablesOK, BookingsGrow, Listed
  <2>3. ASSUME CancelFails(c) PROVE Goal
    <3>1. UNCHANGED <<available, bookings, phase, capacity>>
      BY <1>6, <2>3 DEF Cancel, CancelFails
    <3>2. /\ cancelling' \in [Cancellers -> Nat]
          /\ \A d \in Cancellers : cancelling'[d] = 0 \/ cancelling'[d] \in BookingIds
      BY <2>3, <3>1 DEF CancelFails, TablesOK
    <3>3. QED
      BY <3>1, <3>2 DEF TablesOK, BookingsGrow, BookingIds, BookedEventsListed, Listed
  <2>4. QED
    BY <1>6, <2>1, <2>2, <2>3 DEF Cancel
<1>7. QED
  BY <1>1, <1>2, <1>3, <1>4, <1>5, <1>6, TableCases

-----------------------------------------------------------------------------
(* The workers and the offers *)

\* Only these steps touch the workers.
LEMMA WorkerCases ==
    ASSUME [AdminNext]_adminVars
    PROVE  \/ UNCHANGED workers
           \/ \E w \in Workers, d \in Requests : StartBooking(w, d)
           \/ \E w \in Workers : CreateBooking(w) \/ FinishBooking(w)
           \/ \E c \in Cancellers : Cancel(c)
BY DEF AdminNext, adminVars, workers, CreateEvent, CreateUserEvent, CreateRow, UpdateEvent,
       DeleteEvent, StatsCount, StatsEvent, StatsCancelled, StatsDone, StatsFails, Goes

\* A lapse is counted when a worker starts.
LEMMA LapseCases ==
    ASSUME [AdminNext]_adminVars
    PROVE  \/ lapses' = lapses
           \/ lapses < MaxLapses /\ lapses' = lapses + 1
<1>1. ASSUME NEW w \in Workers, NEW d \in Requests, StartBooking(w, d)
      PROVE  \/ lapses' = lapses
             \/ lapses < MaxLapses /\ lapses' = lapses + 1
  BY <1>1 DEF StartBooking
<1>2. QED
  BY <1>1 DEF AdminNext, adminVars, CreateEvent, CreateUserEvent, CreateRow, UpdateEvent,
              DeleteEvent, CreateBooking, FinishBooking, Cancel, StatsCount, StatsEvent,
              StatsCancelled, StatsDone, StatsFails, Goes

LEMMA WorkersStep ==
    ASSUME AdminInv, [AdminNext]_adminVars
    PROVE  WorkersOK'
<1> USE DEF AdminInv
<1>0. WorkersOK
  OBVIOUS
<1>1. ASSUME UNCHANGED workers PROVE WorkersOK'
  BY <1>0, <1>1 DEF workers, WorkersOK
<1>2. ASSUME NEW w \in Workers, CatchError(w), lostAcks' = lostAcks, task' = task,
             pc[w] \in {"read", "commit"}
      PROVE  WorkersOK'
  <2>1. /\ attempt' \in [Workers -> 0 .. (MaxRetries - 1)]
        /\ pc' \in [Workers -> Steps]
        /\ \A v \in Workers : pc'[v] # "idle" => pc[v] # "idle"
        /\ result' = result
    <3>1. ASSUME AttemptsLeft(w)
          PROVE  attempt' \in [Workers -> 0 .. (MaxRetries - 1)]
      <4>1. attempt[w] + 1 \in 0 .. (MaxRetries - 1)
        BY <1>0, <3>1, ServiceAssumption DEF AttemptsLeft, WorkersOK
      <4>2. attempt' = [attempt EXCEPT ![w] = attempt[w] + 1]
        BY <1>2, <3>1 DEF CatchError
      <4>3. QED
        BY <1>0, <4>1, <4>2 DEF WorkersOK
    <3>2. attempt' \in [Workers -> 0 .. (MaxRetries - 1)]
      BY <1>0, <1>2, <3>1 DEF CatchError, WorkersOK
    <3>3. QED
      BY <1>0, <1>2, <3>2 DEF CatchError, Goto, WorkersOK, Steps
  <2>2. QED
    BY <1>0, <1>2, <2>1 DEF WorkersOK
<1>3. ASSUME NEW w \in Workers, NEW d \in Requests, StartBooking(w, d) PROVE WorkersOK'
  <2>1. FirstStep(d) \in Steps
    BY DEF FirstStep, Steps
  <2>2. 0 \in 0 .. (MaxRetries - 1)
    BY ServiceAssumption
  <2>3. QED
    BY <1>0, <1>3, <2>1, <2>2 DEF StartBooking, CallCreateBooking, Goto, WorkersOK
<1>4. ASSUME NEW w \in Workers, CreateBooking(w) PROVE WorkersOK'
  <2>0. task' = task
    BY <1>4 DEF CreateBooking
  <2>1. ASSUME ReadAccepts(w, task[w]) PROVE WorkersOK'
    BY <1>0, <2>0, <2>1 DEF ReadAccepts, Goto, WorkersOK, Steps
  <2>2. ASSUME ReadRefuses(w, task[w]) \/ TransactionFails(w) PROVE WorkersOK'
    BY <1>2, <2>0, <2>2 DEF ReadRefuses, TransactionFails
  <2>3. ASSUME Commit(w, task[w], 0) PROVE WorkersOK'
    <3>1. Len(bookings) + 1 \in Nat
      BY DEF TablesOK
    <3>2. QED
      BY <1>0, <2>0, <2>3, <3>1 DEF Commit, Goto, WorkersOK, Steps
  <2>4. QED
    BY <1>4, <2>1, <2>2, <2>3 DEF CreateBooking
<1>5. ASSUME NEW w \in Workers, FinishBooking(w) PROVE WorkersOK'
  <2>1. 0 \in 0 .. (MaxRetries - 1)
    BY ServiceAssumption
  <2>2. QED
    BY <1>0, <1>5, <2>1 DEF FinishBooking, Goto, WorkersOK, Steps
<1>6. ASSUME NEW c \in Cancellers, Cancel(c) PROVE WorkersOK'
  BY <1>0, <1>1, <1>6 DEF Cancel, CancelRead, CancelCommit, CancelFails, WorkersOK
<1>7. QED
  BY <1>1, <1>3, <1>4, <1>5, <1>6, WorkerCases

LEMMA OffersStep ==
    ASSUME AdminInv, [AdminNext]_adminVars
    PROVE  OffersOK'
<1> USE DEF AdminInv
<1>1. edits' \in 0 .. MaxEdits /\ offered' \in [Events -> Int] /\ undercut' \subseteq Events
  <2>1. CASE UNCHANGED <<edits, offered, undercut>>
    BY <2>1 DEF OffersOK
  <2>2. ASSUME NEW e \in Events, NEW n \in Sizes, CreateRow(e, n)
        PROVE  UNCHANGED <<edits, undercut>> /\ offered' \in [Events -> Int]
    <3>1. n \in Int
      BY AdminAssumption
    <3>2. QED
      BY <2>2, <3>1 DEF CreateRow, OffersOK
  <2>3. ASSUME NEW e \in Events, NEW p \in Payloads, UpdateEvent(e, p)
        PROVE  /\ edits' \in 0 .. MaxEdits /\ offered' \in [Events -> Int]
               /\ undercut' \subseteq Events
    <3>1. edits' \in 0 .. MaxEdits
      BY <2>3, AdminAssumption DEF UpdateEvent, OffersOK
    <3>2. PICK n \in Int :
              /\ offered' = [offered EXCEPT ![e] = offered[e] + (n - available[e])]
              /\ undercut' = IF TooFew(e, n) THEN undercut \cup {e} ELSE undercut \ {e}
      BY <2>3, UpdateEffect
    <3>3. offered[e] + (n - available[e]) \in Int
      BY DEF TablesOK, OffersOK
    <3>4. QED
      BY <3>1, <3>2, <3>3 DEF OffersOK
  <2>4. ASSUME NEW e \in Events, DeleteEvent(e) PROVE UNCHANGED <<edits, offered, undercut>>
    BY <2>4 DEF DeleteEvent, offers
  <2>5. ASSUME NEW w \in Workers, Sale(w) PROVE UNCHANGED <<edits, offered, undercut>>
    BY <2>5 DEF Sale, offers
  <2>6. ASSUME NEW c \in Cancellers, Cancel(c) PROVE UNCHANGED <<edits, offered, undercut>>
    BY <2>6 DEF Cancel, offers
  <2>7. QED
    BY <2>1, <2>2, <2>3, <2>4, <2>5, <2>6, TableCases DEF OffersOK, offers
<1>2. lapses' \in 0 .. MaxLapses
  BY LapseCases, AdminAssumption DEF OffersOK
<1>3. QED
  BY <1>1, <1>2 DEF OffersOK

-----------------------------------------------------------------------------
(* The reports *)

\* Bookings are never taken out of the table.
LEMMA BookingsOfGrows ==
    ASSUME TablesOK, TablesOK', BookingsGrow, NEW e
    PROVE  /\ Cardinality(BookingsOf(e)) \in Nat /\ Cardinality(BookingsOf(e))' \in Nat
           /\ Cardinality(BookingsOf(e)) <= Cardinality(BookingsOf(e))'
<1>1. BookingsOf(e) \subseteq BookingsOf(e)'
  BY DEF BookingsOf, BookingsGrow
<1>2. IsFiniteSet(BookingsOf(e))
  BY BookingRows DEF BookingsOf
<1>3. IsFiniteSet(BookingsOf(e)')
  <2>1. \A S \in SUBSET BookingIds' : IsFiniteSet(S)
    <3>1. BookingIds' = 1 .. Len(bookings') /\ Len(bookings') \in Nat
      BY DEF TablesOK, BookingIds
    <3>2. IsFiniteSet(BookingIds')
      BY <3>1, FS_Interval
    <3>3. QED
      BY <3>2, FS_Subset
  <2>2. QED
    BY <2>1 DEF BookingsOf
<1>4. QED
  BY <1>1, <1>2, <1>3, FS_Subset, FS_CardinalityType

LEMMA ReportKept ==
    ASSUME TablesOK, TablesOK', BookingsGrow, NEW r \in Report, ReportOK(r)
    PROVE  ReportOK(r)'
<1>1. ASSUME NEW e \in Events PROVE r.counts[e] <= Cardinality(BookingsOf(e))'
  <2>1. r.counts[e] \in Nat /\ r.counts[e] <= Cardinality(BookingsOf(e))
    BY DEF Report, ReportOK
  <2>2. QED
    BY <2>1, BookingsOfGrows
<1>2. QED
  BY <1>1 DEF ReportOK

LEMMA NoReportOK == TablesOK => NoReport \in Report /\ ReportOK(NoReport)
<1> SUFFICES ASSUME TablesOK PROVE NoReport \in Report /\ ReportOK(NoReport)
  OBVIOUS
<1>1. \A e \in Events : Cardinality(BookingsOf(e)) \in Nat
  BY BookingRows, FS_CardinalityType DEF BookingsOf
<1>2. QED
  BY <1>1 DEF NoReport, Report, ReportOK

LEMMA RowNotMissing == \A r \in Row : r # NoRow
BY AdminAssumption DEF Row, NoRow

\* A report goes on to one that is right.
LEMMA ReportGoes ==
    ASSUME ReportsOK, TablesOK, NEW a \in Admins, NEW r \in Report, ReportOK(r), Goes(a, r)
    PROVE  ReportsOK'
<1>1. UNCHANGED bookings
  BY DEF Goes, tables
<1>2. \A x \in Report : ReportOK(x) => ReportOK(x)'
  BY <1>1 DEF ReportOK, BookingsOf, BookingIds
<1>3. report' = [report EXCEPT ![a] = r]
  BY DEF Goes
<1>4. report' \in [Admins -> Report]
  BY <1>3 DEF ReportsOK
<1>5. ASSUME NEW x \in Admins PROVE ReportOK(report[x])'
  <2>1. PICK y \in Report : y = report'[x] /\ ReportOK(y)
    BY <1>3 DEF ReportsOK
  <2>2. ReportOK(y)'
    BY <1>2, <2>1
  <2>3. QED
    BY <2>1, <2>2 DEF ReportOK
<1>6. QED
  BY <1>4, <1>5 DEF ReportsOK

LEMMA CountStep ==
    ASSUME ReportsOK, TablesOK, NEW a \in Admins, NEW from \in 1 .. MaxBookings,
           StatsCount(a, from)
    PROVE  ReportsOK'
<1> DEFINE since(e) == {b \in BookingIds : bookings[b].event = e /\ b >= from}
           count == [e \in Events |-> Cardinality(since(e))]
           r == [running |-> TRUE, counts |-> count, todo |-> Counted(count),
                 row |-> NoRow, stats |-> {}]
<1>1. \A e \in Events : /\ Cardinality(since(e)) \in Nat
                        /\ Cardinality(since(e)) <= Cardinality(BookingsOf(e))
  <2> SUFFICES ASSUME NEW e \in Events
               PROVE  /\ Cardinality(since(e)) \in Nat
                      /\ Cardinality(since(e)) <= Cardinality(BookingsOf(e))
    OBVIOUS
  <2>1. BookingsOf(e) \in SUBSET BookingIds /\ since(e) \in SUBSET BookingsOf(e)
    BY DEF BookingsOf
  <2>2. IsFiniteSet(BookingsOf(e))
    BY <2>1, BookingRows
  <2>3. QED
    BY <2>1, <2>2, FS_Subset, FS_CardinalityType
<1>2. /\ count \in [Events -> Nat]
      /\ \A e \in Events : count[e] <= Cardinality(BookingsOf(e))
  BY <1>1
<1>3. Goes(a, r)
  BY DEF StatsCount
<1> HIDE DEF since, count
<1>4. r \in Report /\ ReportOK(r)
  BY <1>2 DEF Report, ReportOK, Counted
<1> HIDE DEF r
<1>5. QED
  BY <1>3, <1>4, ReportGoes

LEMMA EventStep ==
    ASSUME ReportsOK, TablesOK, NEW a \in Admins, NEW e \in Events, StatsEvent(a, e)
    PROVE  ReportsOK'
<1> DEFINE new == IF Listed(e) THEN [event |-> e, capacity |-> capacity[e]] ELSE NoRow
<1>1. PICK r : r = report[a]
  OBVIOUS
<1>2. r \in Report /\ ReportOK(r) /\ e \in r.todo
  BY <1>1 DEF ReportsOK, StatsEvent
<1>3. new \in Row \cup {NoRow} /\ (new # NoRow => new.event = e)
  BY DEF Row, TablesOK
<1> DEFINE s == [r EXCEPT !.todo = r.todo \ {e}, !.row = new]
<1>4. Goes(a, s)
  BY <1>1 DEF StatsEvent
<1> HIDE DEF new
<1>5. /\ s \in Report /\ s.counts = r.counts /\ s.todo = r.todo \ {e} /\ s.row = new
  BY <1>2, <1>3 DEF Report
<1> HIDE DEF s
<1>6. ReportOK(s)
  BY <1>2, <1>3, <1>5 DEF ReportOK
<1>7. QED
  BY <1>4, <1>5, <1>6, ReportGoes

\* What StatsCancelled adds to the statistics.
LEMMA CancelledEffect ==
    ASSUME ReportsOK, TablesOK, NEW a \in Admins, StatsCancelled(a)
    PROVE  \E r \in Report, e \in Events, x \in Stats, s \in Report :
              /\ r = report[a] /\ ReportOK(r)
              /\ x.event = e /\ x.bookings = r.counts[e]
              /\ x.cancellations = Cardinality(CancelledOf(e))
              /\ s.counts = r.counts /\ s.todo = r.todo /\ s.row = NoRow
              /\ s.stats = r.stats \cup {x}
              /\ Goes(a, s)
<1>1. PICK r : r = report[a]
  OBVIOUS
<1>2. r \in Report /\ ReportOK(r) /\ r.row # NoRow
  BY <1>1 DEF ReportsOK, StatsCancelled
<1>3. PICK row : row = r.row
  OBVIOUS
<1>4. row \in Row /\ row.event \in Events /\ row.capacity \in Int
  BY <1>2, <1>3 DEF Report, Row
<1> DEFINE e == row.event
           x == [event |-> e, bookings |-> r.counts[e],
                 cancellations |-> Cardinality(CancelledOf(e)), capacity |-> row.capacity]
           s == [r EXCEPT !.row = NoRow, !.stats = r.stats \cup {x}]
<1>5. r.counts[e] \in Nat \ {0}
  BY <1>2, <1>3, <1>4 DEF Report, ReportOK
<1>6. Cardinality(CancelledOf(e)) \in Nat
  BY BookingRows, FS_CardinalityType DEF CancelledOf
<1>7. x \in Stats
  BY <1>4, <1>5, <1>6 DEF Stats
<1>8. Goes(a, s)
  BY <1>1, <1>3 DEF StatsCancelled
<1>9. x.event = e /\ x.bookings = r.counts[e] /\ x.cancellations = Cardinality(CancelledOf(e))
  OBVIOUS
<1> HIDE DEF x
<1>10. /\ s \in Report /\ s.counts = r.counts /\ s.todo = r.todo /\ s.row = NoRow
       /\ s.stats = r.stats \cup {x}
  BY <1>2, <1>7 DEF Report
<1> HIDE DEF s
<1>11. QED
  BY <1>1, <1>2, <1>4, <1>7, <1>8, <1>9, <1>10

LEMMA CancelledStep ==
    ASSUME ReportsOK, TablesOK, NEW a \in Admins, StatsCancelled(a)
    PROVE  ReportsOK'
<1>1. PICK r \in Report, s \in Report :
              /\ ReportOK(r)
              /\ s.counts = r.counts /\ s.todo = r.todo /\ s.row = NoRow
              /\ Goes(a, s)
  BY CancelledEffect
<1>2. ReportOK(s)
  BY <1>1 DEF ReportOK
<1>3. QED
  BY <1>1, <1>2, ReportGoes

\* Only these steps touch the reports.
LEMMA ReportCases ==
    ASSUME [AdminNext]_adminVars
    PROVE  \/ UNCHANGED report
           \/ \E a \in Admins, from \in 1 .. MaxBookings : StatsCount(a, from)
           \/ \E a \in Admins, e \in Events : StatsEvent(a, e)
           \/ \E a \in Admins : StatsCancelled(a) \/ Goes(a, NoReport)
BY DEF AdminNext, adminVars, CreateEvent, CreateUserEvent, CreateRow, UpdateEvent, DeleteEvent,
       StartBooking, CreateBooking, FinishBooking, Cancel, StatsDone, StatsFails

LEMMA ReportsStep ==
    ASSUME AdminInv, TablesOK', BookingsGrow, [AdminNext]_adminVars
    PROVE  ReportsOK'
<1> USE DEF AdminInv
<1>1. CASE UNCHANGED report
  <2>1. ASSUME NEW x \in Admins PROVE ReportOK(report[x])'
    <3>1. PICK r \in Report : r = report[x] /\ ReportOK(r)
      BY DEF ReportsOK
    <3>2. ReportOK(r)' /\ report'[x] = r
      BY <1>1, <3>1, ReportKept
    <3>3. QED
      BY <3>2 DEF ReportOK
  <2>2. QED
    BY <1>1, <2>1 DEF ReportsOK
<1>2. ASSUME NEW a \in Admins, Goes(a, NoReport) PROVE ReportsOK'
  BY <1>2, NoReportOK, ReportGoes
<1>3. QED
  BY <1>1, <1>2, CountStep, EventStep, CancelledStep, ReportCases

-----------------------------------------------------------------------------
(* What holds always *)

LEMMA AdminInvInit == AdminInit => AdminInv
<1> SUFFICES ASSUME AdminInit PROVE AdminInv
  OBVIOUS
<1>0. BookingIds = {} /\ bookings \in Seq(Booking)
  BY DEF AdminInit, ServiceInit, BookingIds
<1>1. TablesOK
  BY <1>0, CapacityAssumption
     DEF AdminInit, ServiceInit, TablesOK, BookedEventsListed, Listed
<1>2. WorkersOK
  <2>1. 0 \in 0 .. (MaxRetries - 1) /\ 0 \in 0 .. MaxLostAcks
    BY ServiceAssumption
  <2>2. QED
    BY <2>1 DEF AdminInit, ServiceInit, WorkersOK, Steps
<1>3. OffersOK
  BY AdminAssumption DEF AdminInit, OffersOK
<1>4. ReportsOK
  <2>1. NoReport \in Report /\ ReportOK(NoReport)
    BY <1>1, NoReportOK
  <2>2. report = [a \in Admins |-> NoReport]
    BY DEF AdminInit
  <2> HIDE DEF NoReport
  <2>3. QED
    BY <2>1, <2>2 DEF ReportsOK
<1>5. QED
  BY <1>1, <1>2, <1>3, <1>4 DEF AdminInv

LEMMA AdminInvStep == AdminInv /\ [AdminNext]_adminVars => AdminInv'
<1> SUFFICES ASSUME AdminInv, [AdminNext]_adminVars PROVE AdminInv'
  OBVIOUS
<1>1. TablesOK' /\ BookingsGrow
  BY TablesStep
<1>2. WorkersOK' /\ OffersOK'
  BY WorkersStep, OffersStep
<1>3. ReportsOK'
  BY <1>1, ReportsStep
<1>4. QED
  BY <1>1, <1>2, <1>3 DEF AdminInv

LEMMA AdminInvHolds == AdminSpec => []AdminInv
BY AdminInvInit, AdminInvStep, PTL DEF AdminSpec

\* The variables of admin.service.ts, booking.service.ts and analytics.service.ts
\* stay in their types whatever numbers updates write, and statistics are about
\* events that exist and have bookings.
THEOREM AdminTypeCorrect == AdminSpec => []AdminTypeOK
<1>1. AdminInv => AdminTypeOK
  <2> SUFFICES ASSUME AdminInv PROVE AdminTypeOK
    OBVIOUS
  <2>1. ServiceTypeOK
    BY DEF AdminInv, TablesOK, WorkersOK, ServiceTypeOK
  <2>2. ASSUME NEW a \in Admins
        PROVE  report[a].stats \subseteq Stats /\ report[a].todo \subseteq Events
    BY DEF AdminInv, ReportsOK, Report
  <2>3. QED
    BY <2>1, <2>2 DEF AdminInv, TablesOK, WorkersOK, OffersOK, AdminTypeOK
<1>2. QED
  BY <1>1, AdminInvHolds, PTL

\* No booking, cancelled or not, ever belongs to an event that was deleted or
\* never created, whatever administrators do between createBooking's steps.
THEOREM BookedEventsStayListed == AdminSpec => []BookedEventsListed
<1>1. AdminInv => BookedEventsListed
  BY DEF AdminInv, TablesOK
<1>2. QED
  BY <1>1, AdminInvHolds, PTL

\* getEventStats runs its queries apart from each other, and still never
\* reports more active bookings than there are when it reads the last of them.
THEOREM StatsAreModest == AdminSpec => StatsNeverOverstate
<1> DEFINE Modest == \A a \in Admins : \A x \in report'[a].stats \ report[a].stats :
                        x.bookings - x.cancellations <= Cardinality(Confirmed(x.event)')
<1>1. ASSUME AdminInv, [AdminNext]_adminVars PROVE Modest \/ UNCHANGED adminVars
  <2> USE <1>1 DEF AdminInv
  <2>1. ASSUME NEW a \in Admins, StatsCancelled(a) PROVE Modest
    <3>1. PICK r \in Report, e \in Events, x \in Stats, s \in Report :
              /\ r = report[a] /\ ReportOK(r)
              /\ x.event = e /\ x.bookings = r.counts[e]
              /\ x.cancellations = Cardinality(CancelledOf(e))
              /\ s.stats = r.stats \cup {x}
              /\ Goes(a, s)
      BY <2>1, CancelledEffect
    <3>2. r.counts[e] \in Nat /\ r.counts[e] <= Cardinality(BookingsOf(e))
      BY <3>1 DEF Report, ReportOK
    <3>3. /\ BookingsOf(e) = Confirmed(e) \cup CancelledOf(e)
          /\ Confirmed(e) \cap CancelledOf(e) = {}
          /\ Confirmed(e) \in SUBSET BookingIds /\ CancelledOf(e) \in SUBSET BookingIds
      BY BookingRows DEF BookingsOf, Confirmed, CancelledOf, Booking, Status
    <3>4. IsFiniteSet(Confirmed(e)) /\ IsFiniteSet(CancelledOf(e))
      BY <3>3, BookingRows
    <3>5. /\ Cardinality(BookingsOf(e)) = Cardinality(Confirmed(e)) + Cardinality(CancelledOf(e))
          /\ Cardinality(Confirmed(e)) \in Nat /\ Cardinality(CancelledOf(e)) \in Nat
      <4>1. Cardinality(Confirmed(e)) \in Nat /\ Cardinality(CancelledOf(e)) \in Nat
        BY <3>4, FS_CardinalityType
      <4>2. Cardinality(Confirmed(e) \cup CancelledOf(e))
               = Cardinality(Confirmed(e)) + Cardinality(CancelledOf(e))
                   - Cardinality(Confirmed(e) \cap CancelledOf(e))
        BY <3>4, FS_Union
      <4>3. Cardinality(Confirmed(e) \cap CancelledOf(e)) = 0
        BY <3>3, FS_EmptySet
      <4>4. QED
        BY <3>3, <4>1, <4>2, <4>3
    <3>6. Confirmed(e)' = Confirmed(e)
      BY <3>1 DEF Goes, tables, Confirmed, BookingIds
    <3>7. x.bookings - x.cancellations <= Cardinality(Confirmed(x.event)')
      BY <3>1, <3>2, <3>5, <3>6
    <3>8. \A b \in Admins : report'[b].stats \ report[b].stats \subseteq {x}
      BY <3>1 DEF Goes, ReportsOK
    <3>9. QED
      BY <3>7, <3>8
  <2>2. ASSUME NEW a \in Admins, NEW from \in 1 .. MaxBookings, StatsCount(a, from) PROVE Modest
    <3>1. \A b \in Admins : report'[b].stats \ report[b].stats = {}
      BY <2>2 DEF StatsCount, Goes, ReportsOK
    <3>2. QED
      BY <3>1
  <2>3. ASSUME NEW a \in Admins, NEW e \in Events, StatsEvent(a, e) PROVE Modest
    <3>1. PICK r, s : r \in Report /\ r = report[a] /\ s.stats = r.stats /\ Goes(a, s)
      <4>1. PICK r \in Report : r = report[a]
        BY DEF ReportsOK
      <4> DEFINE s == [r EXCEPT !.todo = @ \ {e},
                                !.row = IF Listed(e) THEN [event |-> e, capacity |-> capacity[e]]
                                                     ELSE NoRow]
      <4>2. Goes(a, s) /\ s.stats = r.stats
        BY <2>3, <4>1 DEF StatsEvent, Report
      <4>3. QED
        BY <4>1, <4>2
    <3>2. \A b \in Admins : report'[b].stats \ report[b].stats = {}
      BY <3>1 DEF Goes, ReportsOK
    <3>3. QED
      BY <3>2
  <2>4. ASSUME NEW a \in Admins, Goes(a, NoReport) PROVE Modest
    <3>1. \A b \in Admins : report'[b].stats \ report[b].stats = {}
      BY <2>4 DEF Goes, ReportsOK, NoReport
    <3>2. QED
      BY <3>1
  <2>5. CASE UNCHANGED report
    BY <2>5
  <2>6. QED
    BY <2>1, <2>2, <2>3, <2>4, <2>5, ReportCases
<1>2. QED
  BY <1>1, AdminInvHolds, PTL DEF AdminSpec, StatsNeverOverstate

-----------------------------------------------------------------------------
(* The counter *)

\* What booking b has left of the counter: the seats it took, less those that
\* were given back.
NetWeight == [b \in BookingIds |-> bookings[b].seats * (bookings[b].refunds - Taken(b))]

\* CounterFollowsOffers, with the sum in the form that SetSums is about.
CounterInv ==
    \A e \in Events : Listed(e) => available[e] = offered[e] + Total(NetWeight, BookingsOf(e))

\* MapThenSumSet over bookings is a sum in the sense of SetSums.
LEMMA NetIsTotal ==
    ASSUME TablesOK, NEW e
    PROVE  MapThenSumSet(LAMBDA b : bookings[b].seats * (bookings[b].refunds - Taken(b)), BookingsOf(e))
              = Total(NetWeight, BookingsOf(e))
<1> DEFINE S == BookingsOf(e)
           c(s) == CHOOSE x \in s : TRUE
           A(g) == g = [s \in SUBSET S |->
                          IF s = {} THEN 0
                          ELSE bookings[c(s)].seats * (bookings[c(s)].refunds - Taken(c(s)))
                                 + g[s \ {c(s)}]]
           h == CHOOSE g : A(g)
<1>0. S \in SUBSET BookingIds
  BY DEF BookingsOf
<1> HIDE DEF S
<1>1. \A s \in SUBSET S : s # {} =>
         NetWeight[Pick(s)] = bookings[c(s)].seats * (bookings[c(s)].refunds - Taken(c(s)))
  BY <1>0, PickIn DEF NetWeight, Pick
<1>2. ASSUME NEW g PROVE A(g) <=> IsSum(g, NetWeight, S)
  BY <1>1 DEF IsSum, Pick
<1>3. IsFiniteSet(S)
  BY <1>0, BookingRows
<1>4. PICK f : IsSum(f, NetWeight, S)
  BY <1>3, SumExists
<1>5. IsSum(h, NetWeight, S)
  <2>1. A(f)
    BY <1>2, <1>4
  <2> HIDE DEF A
  <2>2. A(h)
    BY <2>1
  <2>3. QED
    BY <1>2, <2>2
<1>6. h[S] = Total(NetWeight, S)
  BY <1>3, <1>5, SumIsTotal
<1>7. MapThenSumSet(LAMBDA b : bookings[b].seats * (bookings[b].refunds - Taken(b)), BookingsOf(e)) = h[S]
  BY Zenon DEF MapThenSumSet, MapThenFoldSet, S
<1>8. QED
  BY <1>6, <1>7 DEF S

LEMMA NetType ==
    ASSUME TablesOK, NEW e
    PROVE  /\ \A b \in BookingIds : NetWeight[b] \in Int
           /\ \A b \in BookingsOf(e) : NetWeight[b] \in Int
           /\ BookingsOf(e) \in SUBSET BookingIds /\ IsFiniteSet(BookingsOf(e))
           /\ Total(NetWeight, BookingsOf(e)) \in Int
<1>1. ASSUME NEW b \in BookingIds PROVE NetWeight[b] \in Int
  <2>1. bookings[b].seats \in Int /\ bookings[b].refunds - Taken(b) \in Int
    BY BookingRows DEF Booking, Taken
  <2>2. \A i, k \in Int : i * k \in Int
    OBVIOUS
  <2>3. QED
    BY <2>1, <2>2 DEF NetWeight
<1>2. BookingsOf(e) \in SUBSET BookingIds /\ IsFiniteSet(BookingsOf(e))
  BY BookingRows DEF BookingsOf
<1>3. \A b \in BookingsOf(e) : NetWeight[b] \in Int
  BY <1>1, <1>2
<1>4. Total(NetWeight, BookingsOf(e)) \in Int
  BY <1>2, <1>3, TotalInt
<1>5. QED
  BY <1>1, <1>2, <1>3, <1>4

\* An event that is not listed has no bookings.
LEMMA NothingBooked ==
    ASSUME TablesOK, NEW e, ~Listed(e)
    PROVE  BookingsOf(e) = {} /\ Total(NetWeight, BookingsOf(e)) = 0
<1>1. BookingsOf(e) = {}
  BY DEF TablesOK, BookedEventsListed, BookingsOf
<1>2. Total(NetWeight, {}) = 0
  BY FS_EmptySet, TotalDef
<1>3. QED
  BY <1>1, <1>2

\* A sale takes from the counter what the new booking will have left of it.
LEMMA CounterSale ==
    ASSUME AdminInv, CounterInv, NEW w, Sale(w)
    PROVE  CounterInv'
<1> USE DEF AdminInv
<1> SUFFICES ASSUME NEW e \in Events, Listed(e)'
             PROVE  available'[e] = offered'[e] + Total(NetWeight', BookingsOf(e)')
  BY DEF CounterInv
<1>0. PICK d : d = task[w]
  OBVIOUS
<1>1. PICK n : /\ n \notin BookingIds
               /\ BookingIds' = BookingIds \cup {n}
               /\ \A b \in BookingIds : bookings'[b] = bookings[b]
               /\ bookings'[n] = NewBooking(d, 0)
               /\ d.seats \in Nat \ {0} /\ d.seatLevel \in BOOLEAN
               /\ d.event \in Events
  BY <1>0, SaleEffect
<1> DEFINE taken == IF d.seatLevel THEN 0 ELSE 1
<1>2. available'[d.event] = available[d.event] - d.seats * taken
      /\ \A x \in Events : x # d.event => available'[x] = available[x]
  <2>1. available \in [Events -> Int] /\ available' = Decremented(d)
    BY <1>0 DEF Sale, WriteBooking, TablesOK
  <2>2. d.seats * 0 = 0 /\ d.seats * 1 = d.seats /\ available[d.event] \in Int
    BY <1>1, <2>1
  <2>3. QED
    BY <1>1, <2>1, <2>2 DEF Decremented
<1>3. /\ offered'[e] = offered[e] /\ offered[e] \in Int /\ available[e] \in Int
      /\ available[e] = offered[e] + Total(NetWeight, BookingsOf(e))
  BY DEF Sale, Listed, CounterInv, offers, OffersOK, TablesOK
<1>4. /\ \A b \in BookingIds : NetWeight'[b] = NetWeight[b]
      /\ NetWeight'[n] = 0 - d.seats * taken
  <2>1. \A b \in BookingIds : NetWeight'[b] = NetWeight[b]
    BY <1>1 DEF NetWeight, Taken
  <2>2. NetWeight'[n] = bookings'[n].seats * (bookings'[n].refunds - Taken(n)')
    BY <1>1 DEF NetWeight
  <2>3. bookings'[n].seats = d.seats /\ bookings'[n].refunds = 0 /\ Taken(n)' = taken
    BY <1>1 DEF NewBooking, Taken
  <2>4. d.seats * (0 - taken) = 0 - d.seats * taken
    <3>1. d.seats * (0 - 0) = 0 - d.seats * 0 /\ d.seats * (0 - 1) = 0 - d.seats * 1
      BY <1>1
    <3>2. QED
      BY <3>1
  <2>5. QED
    BY <2>1, <2>2, <2>3, <2>4
<1>5. BookingsOf(e)' = IF d.event = e THEN BookingsOf(e) \cup {n} ELSE BookingsOf(e)
  BY <1>1 DEF BookingsOf, NewBooking
<1>6. /\ IsFiniteSet(BookingsOf(e)) /\ n \notin BookingsOf(e)
      /\ Total(NetWeight, BookingsOf(e)) \in Int
      /\ \A b \in BookingsOf(e) : NetWeight[b] \in Int
      /\ \A b \in BookingsOf(e) : NetWeight'[b] = NetWeight[b]
  BY <1>1, <1>4, NetType
<1>7. d.seats * taken \in Int
  BY <1>1
<1> HIDE DEF taken
<1>8. CASE d.event = e
  <2>1. NetWeight'[n] \in Int
    BY <1>4, <1>7
  <2>2. Total(NetWeight', BookingsOf(e) \cup {n}) = Total(NetWeight, BookingsOf(e)) + NetWeight'[n]
    BY <1>6, <2>1, TotalAdd
  <2>3. QED
    BY <1>2, <1>3, <1>4, <1>5, <1>6, <1>7, <1>8, <2>2
<1>9. CASE d.event # e
  <2>1. Total(NetWeight', BookingsOf(e)) = Total(NetWeight, BookingsOf(e))
    BY <1>6, TotalEqual
  <2>2. QED
    BY <1>2, <1>3, <1>5, <1>9, <2>1
<1>10. QED
  BY <1>8, <1>9

\* A cancellation gives the counter what it takes off its booking.
LEMMA CounterCancel ==
    ASSUME AdminInv, CounterInv, NEW c \in Cancellers, CancelCommit(c),
           UNCHANGED <<phase, offered>>
    PROVE  CounterInv'
<1> USE DEF AdminInv
<1> SUFFICES ASSUME NEW e \in Events, Listed(e)'
             PROVE  available'[e] = offered'[e] + Total(NetWeight', BookingsOf(e)')
  BY DEF CounterInv
<1>1. PICK b \in BookingIds, r \in Booking :
              /\ BookingIds' = BookingIds
              /\ \A k \in BookingIds : bookings'[k] = IF k = b THEN r ELSE bookings[k]
              /\ r.event = bookings[b].event /\ r.seats = bookings[b].seats
              /\ r.seatLevel = bookings[b].seatLevel
              /\ r.refunds = bookings[b].refunds + 1
              /\ available' = [available EXCEPT ![r.event] = @ + r.seats]
  BY CancelEffect
<1>2. r.seats \in Int /\ bookings[b].refunds \in Int /\ Taken(b) \in Int
  BY BookingRows DEF Booking, Taken
<1>3. /\ offered'[e] = offered[e] /\ offered[e] \in Int /\ available \in [Events -> Int]
      /\ available[e] = offered[e] + Total(NetWeight, BookingsOf(e))
  BY DEF Listed, CounterInv, OffersOK, TablesOK
<1>4. BookingsOf(e)' = BookingsOf(e) /\ (b \in BookingsOf(e) <=> r.event = e)
  BY <1>1 DEF BookingsOf
<1>5. /\ \A k \in BookingIds \ {b} : NetWeight'[k] = NetWeight[k]
      /\ NetWeight'[b] = NetWeight[b] + r.seats
      /\ NetWeight[b] \in Int
  <2>1. \A k \in BookingIds \ {b} : NetWeight'[k] = NetWeight[k]
    BY <1>1 DEF NetWeight, Taken
  <2>2. NetWeight'[b] = r.seats * ((bookings[b].refunds + 1) - Taken(b))
    BY <1>1 DEF NetWeight, Taken
  <2>3. NetWeight[b] = r.seats * (bookings[b].refunds - Taken(b))
    BY <1>1 DEF NetWeight
  <2>4. \A i, j, k \in Int : i * ((j + 1) - k) = i * (j - k) + i
    OBVIOUS
  <2>5. QED
    BY <1>1, <1>2, <2>1, <2>2, <2>3, <2>4, NetType
<1>6. /\ IsFiniteSet(BookingsOf(e)) /\ BookingsOf(e) \in SUBSET BookingIds
      /\ Total(NetWeight, BookingsOf(e)) \in Int
      /\ \A k \in BookingsOf(e) : NetWeight[k] \in Int
  BY NetType
<1>7. CASE r.event = e
  <2>1. /\ b \in BookingsOf(e) /\ NetWeight'[b] \in Int
        /\ \A k \in BookingsOf(e) \ {b} : NetWeight'[k] = NetWeight[k]
    BY <1>2, <1>4, <1>5, <1>6, <1>7
  <2>2. Total(NetWeight', BookingsOf(e)) = Total(NetWeight, BookingsOf(e)) + (NetWeight'[b] - NetWeight[b])
    BY <1>6, <2>1, TotalChange
  <2>3. available'[e] = available[e] + r.seats
    BY <1>1, <1>3, <1>7
  <2>4. QED
    BY <1>2, <1>3, <1>4, <1>5, <1>6, <2>2, <2>3
<1>8. CASE r.event # e
  <2>1. \A k \in BookingsOf(e) : NetWeight[k] = NetWeight'[k]
    BY <1>4, <1>5, <1>6, <1>8
  <2>2. Total(NetWeight, BookingsOf(e)) = Total(NetWeight', BookingsOf(e))
    BY <1>6, <2>1, TotalEqual
  <2>3. available'[e] = available[e]
    BY <1>1, <1>3, <1>8
  <2>4. QED
    BY <1>3, <1>4, <2>2, <2>3
<1>9. QED
  BY <1>7, <1>8

LEMMA CounterStep ==
    ASSUME AdminInv, CounterInv, [AdminNext]_adminVars
    PROVE  CounterInv'
<1> USE DEF AdminInv
<1>0. ASSUME UNCHANGED bookings
      PROVE  \A e : Total(NetWeight', BookingsOf(e)') = Total(NetWeight, BookingsOf(e))
  BY <1>0 DEF NetWeight, BookingsOf, BookingIds, Taken
<1>1. CASE UNCHANGED <<tables, phase, capacity, offers>>
  BY <1>0, <1>1 DEF CounterInv, Listed, tables, offers
<1>2. ASSUME NEW e \in Events, NEW n \in Sizes, CreateRow(e, n) PROVE CounterInv'
  <2>1. /\ ~Listed(e) /\ available'[e] = n /\ offered'[e] = n
        /\ UNCHANGED bookings /\ n \in Nat
        /\ \A x \in Events : x # e => /\ available'[x] = available[x]
                                      /\ offered'[x] = offered[x] /\ phase'[x] = phase[x]
    BY <1>2, AdminAssumption DEF CreateRow, Listed, TablesOK, OffersOK
  <2>2. Total(NetWeight', BookingsOf(e)') = 0
    BY <1>0, <2>1, NothingBooked
  <2>3. ASSUME NEW x \in Events, Listed(x)'
        PROVE  available'[x] = offered'[x] + Total(NetWeight', BookingsOf(x)')
    <3>1. CASE x = e
      BY <2>1, <2>2, <3>1
    <3>2. CASE x # e
      BY <1>0, <2>1, <2>3, <3>2 DEF Listed, CounterInv
    <3>3. QED
      BY <3>1, <3>2
  <2>4. QED
    BY <2>3 DEF CounterInv
<1>3. ASSUME NEW e \in Events, NEW p \in Payloads, UpdateEvent(e, p) PROVE CounterInv'
  <2>1. PICK n \in Int :
              /\ available' = [available EXCEPT ![e] = n]
              /\ offered' = [offered EXCEPT ![e] = offered[e] + (n - available[e])]
    BY <1>3, UpdateEffect
  <2>2. UNCHANGED <<bookings, phase>>
    BY <1>3 DEF UpdateEvent
  <2>3. ASSUME NEW x \in Events, Listed(x)'
        PROVE  available'[x] = offered'[x] + Total(NetWeight', BookingsOf(x)')
    <3>1. available[x] = offered[x] + Total(NetWeight, BookingsOf(x))
      BY <2>2, <2>3 DEF Listed, CounterInv
    <3>2. /\ available \in [Events -> Int] /\ offered \in [Events -> Int]
          /\ Total(NetWeight, BookingsOf(x)) \in Int
      BY NetType DEF TablesOK, OffersOK
    <3>3. Total(NetWeight', BookingsOf(x)') = Total(NetWeight, BookingsOf(x))
      BY <1>0, <2>2
    <3>4. CASE x = e
      BY <2>1, <3>1, <3>2, <3>3, <3>4
    <3>5. CASE x # e
      BY <2>1, <3>1, <3>2, <3>3, <3>5
    <3>6. QED
      BY <3>4, <3>5
  <2>4. QED
    BY <2>3 DEF CounterInv
<1>4. ASSUME NEW e \in Events, DeleteEvent(e) PROVE CounterInv'
  <2>1. UNCHANGED <<available, bookings, offered>>
    BY <1>4 DEF DeleteEvent, tables, offers
  <2>2. \A x \in Events : Listed(x)' => Listed(x)
    BY <1>4 DEF DeleteEvent, TablesOK, Listed
  <2>3. QED
    BY <1>0, <2>1, <2>2 DEF CounterInv
<1>5. ASSUME NEW c \in Cancellers, Cancel(c) PROVE CounterInv'
  <2>1. UNCHANGED <<phase, offered>>
    BY <1>5 DEF Cancel, offers
  <2>2. ASSUME UNCHANGED <<available, bookings>> PROVE CounterInv'
    BY <1>0, <2>1, <2>2 DEF CounterInv, Listed
  <2>3. QED
    BY <1>5, <2>1, <2>2, CounterCancel DEF Cancel, CancelRead, CancelFails
<1>6. QED
  BY <1>1, <1>2, <1>3, <1>4, <1>5, CounterSale, TableCases

LEMMA CounterInvHolds == AdminSpec => []CounterInv
<1>1. AdminInit => CounterInv
  BY DEF AdminInit, CounterInv, Listed
<1>2. QED
  BY <1>1, CounterStep, AdminInvHolds, PTL DEF AdminSpec

\* Whatever PUT /api/admin/events/:id writes, availableCapacity is what was put on
\* sale less what bookings took and cancellations did not give back.
THEOREM CounterFollows == AdminSpec => []CounterFollowsOffers
<1>1. AdminInv /\ CounterInv => CounterFollowsOffers
  BY NetIsTotal DEF AdminInv, CounterInv, CounterFollowsOffers
<1>2. QED
  BY <1>1, CounterInvHolds, AdminInvHolds, PTL

-----------------------------------------------------------------------------
(* Sales against the offer, while no lease has lapsed *)

\* One worker per event is inside createBooking.
TasksDiffer ==
    lapses = 0 =>
        \A v, w \in Workers : v # w /\ pc[v] # "idle" /\ pc[w] # "idle" => task[v].event # task[w].event

\* The capacity check found the event.
CheckedCreated == \A w \in Workers, e \in Events : HasChecked(w, e) => phase[e] # "new"

\* What the capacity check found is there still, unless an update took it.
RoomLeft ==
    lapses = 0 =>
        \A w \in Workers : \A e \in Events \ undercut :
            HasChecked(w, e) => available[e] >= task[w].seats

NeverBelowZero == lapses = 0 => \A e \in Events \ undercut : Listed(e) => available[e] >= 0

SaleInv == TasksDiffer /\ CheckedCreated /\ RoomLeft /\ NeverBelowZero

\* A lapse is never taken back.
LEMMA NoLapseBefore ==
    ASSUME AdminInv, [AdminNext]_adminVars, lapses' = 0
    PROVE  lapses = 0
BY LapseCases DEF AdminInv, OffersOK

\* A worker that is inside createBooking was there before, with the same
\* payload, or has just been called.
LEMMA TaskCases ==
    ASSUME AdminInv, [AdminNext]_adminVars
    PROVE  \/ \E w \in Workers, d \in Requests : StartBooking(w, d)
           \/ \A w \in Workers : pc'[w] # "idle" => pc[w] # "idle" /\ task'[w] = task[w]
<1> USE DEF AdminInv
<1> DEFINE Kept == \A w \in Workers : pc'[w] # "idle" => pc[w] # "idle" /\ task'[w] = task[w]
<1>1. ASSUME UNCHANGED <<pc, task>> PROVE Kept
  BY <1>1
<1>2. ASSUME NEW w \in Workers, CreateBooking(w) PROVE Kept
  <2>1. task' = task /\ pc[w] # "idle"
    BY <1>2 DEF CreateBooking, ReadAccepts, ReadRefuses, Commit, TransactionFails
  <2>2. \A v \in Workers : v # w => pc'[v] = pc[v]
    BY <1>2 DEF CreateBooking, ReadAccepts, ReadRefuses, Commit, TransactionFails, CatchError,
                Goto, WorkersOK
  <2>3. QED
    BY <2>1, <2>2
<1>3. ASSUME NEW w \in Workers, FinishBooking(w) PROVE Kept
  BY <1>3 DEF FinishBooking, Goto, WorkersOK
<1>4. ASSUME NEW c \in Cancellers, Cancel(c) PROVE Kept
  BY <1>4 DEF Cancel, CancelRead, CancelCommit, CancelFails
<1> HIDE DEF Kept
<1>5. QED
  BY <1>1, <1>2, <1>3, <1>4, WorkerCases DEF workers, Kept

LEMMA StartEffect ==
    ASSUME AdminInv, NEW w \in Workers, NEW d \in Requests, StartBooking(w, d)
    PROVE  /\ pc'[w] = "read" /\ task'[w] = d
           /\ \A v \in Workers : v # w => pc'[v] = pc[v] /\ task'[v] = task[v]
           /\ lapses' = 0 => \A v \in Workers : task[v].event # d.event
           /\ UNCHANGED <<tables, phase, capacity, offers>>
<1>1. FirstStep(d) = "read"
  BY AdminAssumption DEF FirstStep
<1>2. lapses' = 0 => LeaseFree(d)
  BY DEF StartBooking, AdminInv, OffersOK
<1>3. QED
  BY <1>1, <1>2 DEF AdminInv, WorkersOK, StartBooking, CallCreateBooking, Goto, LeaseFree, tables

LEMMA TasksDifferStep ==
    ASSUME AdminInv, TasksDiffer, [AdminNext]_adminVars
    PROVE  TasksDiffer'
<1> SUFFICES ASSUME lapses' = 0
             PROVE  \A v, w \in Workers :
                       v # w /\ pc'[v] # "idle" /\ pc'[w] # "idle" => task'[v].event # task'[w].event
  BY DEF TasksDiffer
<1>0. \A v, w \in Workers : v # w /\ pc[v] # "idle" /\ pc[w] # "idle" => task[v].event # task[w].event
  BY NoLapseBefore DEF TasksDiffer
<1>1. ASSUME NEW w \in Workers, NEW d \in Requests, StartBooking(w, d)
      PROVE  \A x, v \in Workers :
                x # v /\ pc'[x] # "idle" /\ pc'[v] # "idle" => task'[x].event # task'[v].event
  BY <1>0, <1>1, StartEffect
<1>2. ASSUME \A w \in Workers : pc'[w] # "idle" => pc[w] # "idle" /\ task'[w] = task[w]
      PROVE  \A x, v \in Workers :
                x # v /\ pc'[x] # "idle" /\ pc'[v] # "idle" => task'[x].event # task'[v].event
  BY <1>0, <1>2
<1>3. QED
  BY <1>1, <1>2, TaskCases

\* A worker that has checked had done so before, or does it now.
LEMMA CheckCases ==
    ASSUME AdminInv, [AdminNext]_adminVars, NEW v \in Workers, NEW e \in Events, HasChecked(v, e)'
    PROVE  /\ task'[v] = task[v] /\ task[v].event = e /\ pc[v] # "idle"
           /\ \/ HasChecked(v, e)
              \/ /\ Listed(e) /\ available[e] >= task[v].seats
                 /\ UNCHANGED <<tables, phase, offers>>
<1> USE DEF AdminInv
<1>1. pc'[v] = "commit" /\ task'[v].event = e /\ ~task'[v].seatLevel
  BY DEF HasChecked
<1>2. task'[v] = task[v] /\ pc[v] # "idle"
  BY <1>1, StartEffect, TaskCases
<1>3. CASE pc[v] = "commit"
  BY <1>1, <1>2, <1>3 DEF HasChecked
<1>4. CASE pc[v] # "commit"
  <2>1. ASSUME pc' = pc PROVE FALSE
    BY <1>1, <1>4, <2>1
  <2>2. ASSUME NEW w \in Workers, CreateBooking(w)
        PROVE  Listed(task[v].event) /\ ReadAccepts(v, task[v]) /\ UNCHANGED <<phase, offers>>
    <3>1. \/ Listed(task[w].event) /\ ReadAccepts(w, task[w])
          \/ Goto(w, "read")
          \/ Goto(w, "release")
      BY <2>2 DEF CreateBooking, ReadAccepts, ReadRefuses, Commit, TransactionFails, CatchError
    <3>2. v = w
      BY <1>1, <1>4, <3>1 DEF ReadAccepts, Goto, WorkersOK
    <3>3. Goto(w, "read") \/ Goto(w, "release") => pc'[w] # "commit"
      BY DEF Goto, WorkersOK
    <3>4. QED
      BY <1>1, <2>2, <3>1, <3>2, <3>3 DEF CreateBooking
  <2>3. ASSUME NEW w \in Workers, FinishBooking(w) PROVE FALSE
    BY <1>1, <1>4, <2>3 DEF FinishBooking, Goto, WorkersOK
  <2>4. ASSUME NEW w \in Workers, NEW d \in Requests, StartBooking(w, d) PROVE FALSE
    BY <1>1, <1>4, <2>4, StartEffect
  <2>5. ASSUME NEW c \in Cancellers, Cancel(c) PROVE FALSE
    BY <1>1, <1>4, <2>5 DEF Cancel, CancelRead, CancelCommit, CancelFails
  <2>6. Listed(task[v].event) /\ ReadAccepts(v, task[v]) /\ UNCHANGED <<phase, offers>>
    BY <2>1, <2>2, <2>3, <2>4, <2>5, WorkerCases DEF workers
  <2>7. QED
    BY <1>1, <1>2, <2>6 DEF ReadAccepts, Accepted, tables
<1>5. QED
  BY <1>1, <1>2, <1>3, <1>4

\* What a step does to the counter of an event that was there before, unless
\* it undercuts the event.
LEMMA CounterFalls ==
    ASSUME AdminInv, [AdminNext]_adminVars, NEW e \in Events, e \notin undercut', phase[e] # "new"
    PROVE  /\ phase'[e] # "new" /\ (Listed(e)' => Listed(e))
           /\ \/ e \notin undercut /\ available'[e] >= available[e]
              \/ /\ e \notin undercut /\ UNCHANGED <<phase, task, lapses>>
                 /\ \E w \in Workers : Sale(w) /\ task[w].event = e
              \/ ~TooFew(e, available'[e]) /\ UNCHANGED <<pc, task, lapses, phase>>
<1> USE DEF AdminInv
<1>0. available \in [Events -> Int] /\ available[e] \in Int
      /\ phase \in [Events -> {"new", "listed", "deleted"}]
  BY DEF TablesOK
<1> DEFINE Stays == phase'[e] # "new" /\ (Listed(e)' => Listed(e))
           Rises == e \notin undercut /\ available'[e] >= available[e]
           Sells == /\ e \notin undercut /\ UNCHANGED <<phase, task, lapses>>
                    /\ \E w \in Workers : Sale(w) /\ task[w].event = e
           Writes == ~TooFew(e, available'[e]) /\ UNCHANGED <<pc, task, lapses, phase>>
<1>1. ASSUME UNCHANGED <<tables, phase, capacity, offers>> PROVE Stays /\ Rises
  BY <1>0, <1>1 DEF Listed, tables, offers
<1>2. ASSUME NEW x \in Events, NEW n \in Sizes, CreateRow(x, n) PROVE Stays /\ Rises
  <2>1. x # e
    BY <1>2 DEF CreateRow
  <2>2. available'[e] = available[e] /\ phase'[e] = phase[e] /\ undercut' = undercut
    BY <1>0, <1>2, <2>1 DEF CreateRow
  <2>3. QED
    BY <1>0, <2>2 DEF Listed
<1>3. ASSUME NEW x \in Events, NEW p \in Payloads, UpdateEvent(x, p)
      PROVE  Stays /\ (Rises \/ Writes)
  <2>1. PICK n \in Int :
              /\ available' = [available EXCEPT ![x] = n]
              /\ undercut' = IF TooFew(x, n) THEN undercut \cup {x} ELSE undercut \ {x}
    BY <1>3, UpdateEffect
  <2>2. UNCHANGED <<pc, task, lapses, phase>>
    BY <1>3 DEF UpdateEvent, workers
  <2>3. CASE x = e
    BY <1>0, <2>1, <2>2, <2>3 DEF Listed
  <2>4. CASE x # e
    <3>1. available'[e] = available[e] /\ e \notin undercut
      BY <1>0, <2>1, <2>4
    <3>2. QED
      BY <1>0, <2>2, <3>1 DEF Listed
  <2>5. QED
    BY <2>3, <2>4
<1>4. ASSUME NEW x \in Events, DeleteEvent(x) PROVE Stays /\ Rises
  <2>1. UNCHANGED <<available, undercut>> /\ phase' = [phase EXCEPT ![x] = "deleted"]
    BY <1>4 DEF DeleteEvent, tables, offers
  <2>2. QED
    BY <1>0, <2>1 DEF Listed
<1>5. ASSUME NEW w \in Workers, Sale(w) PROVE Stays /\ (Rises \/ Sells)
  <2>1. UNCHANGED <<phase, task, lapses, undercut>> /\ available' = Decremented(task[w])
    BY <1>5 DEF Sale, WriteBooking, offers
  <2>2. task[w].event # e => available'[e] = available[e]
    BY <1>0, <2>1 DEF Decremented
  <2>3. QED
    BY <1>0, <1>5, <2>1, <2>2 DEF Listed
<1>6. ASSUME NEW c \in Cancellers, Cancel(c) PROVE Stays /\ Rises
  <2>1. UNCHANGED <<phase, undercut>>
    BY <1>6 DEF Cancel, offers
  <2>2. ASSUME CancelCommit(c) PROVE available'[e] >= available[e]
    <3>1. PICK r \in Booking : available' = [available EXCEPT ![r.event] = @ + r.seats]
      BY <2>2, CancelEffect
    <3>2. r.seats \in Nat
      BY DEF Booking
    <3>3. available'[e] = IF r.event = e THEN available[e] + r.seats ELSE available[e]
      BY <1>0, <3>1
    <3>4. QED
      BY <1>0, <3>2, <3>3
  <2>3. available'[e] >= available[e]
    BY <1>0, <1>6, <2>2 DEF Cancel, CancelRead, CancelFails
  <2>4. QED
    BY <2>1, <2>3 DEF Listed
<1> HIDE DEF Stays, Rises, Sells, Writes
<1>7. Stays /\ (Rises \/ Sells \/ Writes)
  BY <1>1, <1>2, <1>3, <1>4, <1>5, <1>6, TableCases
<1>8. QED
  BY <1>7 DEF Stays, Rises, Sells, Writes

\* An event is never new again.
LEMMA PhaseStays ==
    ASSUME AdminInv, [AdminNext]_adminVars, NEW e \in Events, phase[e] # "new"
    PROVE  phase'[e] # "new"
<1> USE DEF AdminInv
<1>1. \A x \in Events, n \in Sizes : CreateRow(x, n) => phase'[e] # "new"
  BY DEF CreateRow, TablesOK
<1>2. \A x \in Events : DeleteEvent(x) => phase'[e] # "new"
  BY DEF DeleteEvent, TablesOK
<1>3. /\ \A x \in Events, p \in Payloads : UpdateEvent(x, p) => phase' = phase
      /\ \A w \in Workers : Sale(w) => phase' = phase
      /\ \A c \in Cancellers : Cancel(c) => phase' = phase
  BY DEF UpdateEvent, Sale, Cancel
<1>4. QED
  BY <1>1, <1>2, <1>3, TableCases

LEMMA CheckedCreatedStep ==
    ASSUME AdminInv, CheckedCreated, [AdminNext]_adminVars
    PROVE  CheckedCreated'
<1> SUFFICES ASSUME NEW v \in Workers, NEW e \in Events, HasChecked(v, e)' PROVE phase'[e] # "new"
  BY DEF CheckedCreated
<1>1. phase[e] # "new"
  BY CheckCases DEF CheckedCreated, Listed
<1>2. QED
  BY <1>1, PhaseStays

LEMMA RoomLeftStep ==
    ASSUME AdminInv, TasksDiffer, CheckedCreated, RoomLeft, [AdminNext]_adminVars
    PROVE  RoomLeft'
<1> USE DEF AdminInv
<1> SUFFICES ASSUME lapses' = 0, NEW v \in Workers, NEW e \in Events, e \notin undercut',
                    HasChecked(v, e)'
             PROVE  available'[e] >= task'[v].seats
  BY DEF RoomLeft
<1>0. lapses = 0 /\ task'[v] = task[v] /\ task[v].event = e /\ pc[v] # "idle"
  BY NoLapseBefore, CheckCases
<1>1. task[v].seats \in Int /\ available[e] \in Int /\ available'[e] \in Int
  <2>1. task[v] \in Requests
    BY <1>0 DEF WorkersOK
  <2>2. task[v].seats \in Int
    BY <2>1, RequestsAssumption DEF CreateBookingInput
  <2>3. QED
    BY <2>2, TablesStep DEF TablesOK
<1>2. CASE HasChecked(v, e)
  <2>0. phase[e] # "new"
    BY <1>2 DEF CheckedCreated
  <2>1. \/ e \notin undercut /\ available'[e] >= available[e]
        \/ e \notin undercut /\ \E w \in Workers : Sale(w) /\ task[w].event = e
        \/ ~TooFew(e, available'[e])
    BY <2>0, CounterFalls
  <2>2. ASSUME e \notin undercut, available'[e] >= available[e]
        PROVE  available'[e] >= task[v].seats
    BY <1>0, <1>1, <1>2, <2>2 DEF RoomLeft
  <2>3. ASSUME NEW w \in Workers, Sale(w), task[w].event = e PROVE FALSE
    <3>1. w # v
      <4>1. pc'[v] = "commit" /\ pc'[w] = "release"
        BY <2>3 DEF HasChecked, Sale, WorkersOK
      <4>2. QED
        BY <4>1
    <3>2. pc[w] # "idle"
      BY <2>3 DEF Sale
    <3>3. QED
      BY <1>0, <2>3, <3>1, <3>2 DEF TasksDiffer
  <2>4. ASSUME ~TooFew(e, available'[e]) PROVE available'[e] >= task[v].seats
    BY <1>1, <1>2, <2>4 DEF TooFew
  <2>5. QED
    BY <1>0, <2>1, <2>2, <2>3, <2>4
<1>3. CASE Listed(e) /\ available[e] >= task[v].seats /\ UNCHANGED <<tables, phase, offers>>
  BY <1>0, <1>3 DEF Listed, tables
<1>4. QED
  BY <1>2, <1>3, CheckCases

LEMMA NeverBelowZeroStep ==
    ASSUME AdminInv, SaleInv, [AdminNext]_adminVars
    PROVE  NeverBelowZero'
<1> USE DEF AdminInv
<1> SUFFICES ASSUME lapses' = 0, NEW e \in Events, e \notin undercut', Listed(e)'
             PROVE  available'[e] >= 0
  BY DEF NeverBelowZero
<1>0. lapses = 0 /\ available[e] \in Int /\ available'[e] \in Int
  BY NoLapseBefore, TablesStep DEF TablesOK
<1>1. CASE phase[e] # "new"
  <2>1. /\ Listed(e)
        /\ \/ e \notin undercut /\ available'[e] >= available[e]
           \/ e \notin undercut /\ \E w \in Workers : Sale(w) /\ task[w].event = e
           \/ ~TooFew(e, available'[e])
    BY <1>1, CounterFalls
  <2>2. e \notin undercut => available[e] >= 0
    BY <1>0, <2>1 DEF SaleInv, NeverBelowZero
  <2>3. ASSUME e \notin undercut, NEW w \in Workers, Sale(w), task[w].event = e
        PROVE  available'[e] >= 0
    <3>1. task[w].seats \in Nat /\ task[w].seatLevel \in BOOLEAN
      BY <2>3, SaleEffect
    <3>2. ~task[w].seatLevel => available[e] >= task[w].seats
      BY <1>0, <2>3 DEF SaleInv, RoomLeft, HasChecked, Sale
    <3>3. available'[e] = IF task[w].seatLevel THEN available[e] ELSE available[e] - task[w].seats
      BY <2>3 DEF Sale, WriteBooking, Decremented, TablesOK
    <3>4. QED
      BY <1>0, <2>2, <2>3, <3>1, <3>2, <3>3
  <2>4. ~TooFew(e, available'[e]) => available'[e] >= 0
    BY <1>0 DEF TooFew
  <2>5. QED
    BY <1>0, <2>1, <2>2, <2>3, <2>4
<1>2. CASE phase[e] = "new"
  <2>1. ASSUME NEW x \in Events, NEW n \in Sizes, CreateRow(x, n) PROVE available'[e] >= 0
    <3>1. x = e /\ n \in Nat
      BY <1>2, <2>1, AdminAssumption DEF CreateRow, TablesOK, Listed
    <3>2. QED
      BY <2>1, <3>1 DEF CreateRow, TablesOK
  <2>2. ASSUME phase' = phase \/ \E x \in Events : DeleteEvent(x) PROVE FALSE
    BY <1>2, <2>2 DEF DeleteEvent, Listed, TablesOK
  <2>3. /\ \A x \in Events, p \in Payloads : UpdateEvent(x, p) => phase' = phase
        /\ \A w \in Workers : Sale(w) => phase' = phase
        /\ \A c \in Cancellers : Cancel(c) => phase' = phase
    BY DEF UpdateEvent, Sale, Cancel
  <2>4. QED
    BY <2>1, <2>2, <2>3, TableCases
<1>3. QED
  BY <1>1, <1>2

LEMMA SaleInvHolds == AdminSpec => []SaleInv
<1>1. AdminInit => SaleInv
  BY DEF AdminInit, ServiceInit, SaleInv, TasksDiffer, CheckedCreated, RoomLeft, HasChecked,
         NeverBelowZero, Listed
<1>2. AdminInv /\ SaleInv /\ [AdminNext]_adminVars => SaleInv'
  BY TasksDifferStep, CheckedCreatedStep, RoomLeftStep, NeverBelowZeroStep DEF SaleInv
<1>3. QED
  BY <1>1, <1>2, AdminInvHolds, PTL DEF AdminSpec

-----------------------------------------------------------------------------
(* What a sum of negated weights is *)

\* Elements that weigh nothing may be left out, and negated weights sum to the
\* negated sum.
LEMMA TotalNegated ==
    ASSUME NEW S, IsFiniteSet(S), NEW T \in SUBSET S, NEW w, NEW v,
           \A x \in T : v[x] \in Int, \A x \in T : w[x] = 0 - v[x], \A x \in S \ T : w[x] = 0
    PROVE  Total(w, S) = 0 - Total(v, T)
<1> DEFINE B == {s \in SUBSET S : Total(w, s) # 0 - Total(v, s \cap T)}
<1>1. ASSUME B # {} PROVE FALSE
  <2>0. B \subseteq SUBSET S
    OBVIOUS
  <2>1. PICK s \in B : \A t \in SUBSET s : t # s => t \notin B
    <3> HIDE DEF B
    <3> QED
      BY <1>1, <2>0, MinimalSet
  <2> DEFINE p == Pick(s)
             t == s \ {p}
  <2>2. Total(w, s) # 0 - Total(v, s \cap T)
    OBVIOUS
  <2>3. s \in SUBSET S /\ IsFiniteSet(s) /\ IsFiniteSet(t) /\ IsFiniteSet(s \cap T) /\ IsFiniteSet(t \cap T)
    BY FS_Subset
  <2>4. Total(w, s) = IF s = {} THEN 0 ELSE w[p] + Total(w, t)
    BY <2>3, TotalDef
  <2>5. /\ \A x \in s \cap T : v[x] \in Int
        /\ \A x \in t \cap T : v[x] \in Int
    OBVIOUS
  <2>6. Total(v, t \cap T) \in Int
    BY <2>3, <2>5, TotalInt
  <2>7. CASE s = {}
    <3>1. Total(v, s \cap T) = 0
      BY <2>3, <2>7, TotalDef
    <3>2. QED
      BY <2>2, <2>4, <2>7, <3>1
  <2>8. CASE s # {}
    <3>1. p \in s
      BY <2>8, PickIn
    <3>2. Total(w, s) = w[p] + (0 - Total(v, t \cap T))
      <4>1. Total(w, t) = 0 - Total(v, t \cap T)
        BY <2>1, <2>3, <3>1
      <4>2. QED
        BY <2>4, <2>8, <4>1
    <3>3. CASE p \in T
      <4>1. Total(v, s \cap T) = v[p] + Total(v, (s \cap T) \ {p})
        <5> DEFINE U == s \cap T
        <5>1. p \in U /\ IsFiniteSet(U) /\ \A x \in U : v[x] \in Int
          BY <2>3, <3>1, <3>3
        <5> HIDE DEF U, p
        <5>2. Total(v, U) = v[p] + Total(v, U \ {p})
          BY <5>1, TotalRemove
        <5>3. QED
          BY <5>2 DEF U
      <4>2. (s \cap T) \ {p} = t \cap T
        OBVIOUS
      <4>3. v[p] \in Int /\ w[p] = 0 - v[p]
        BY <3>3
      <4>4. Total(v, s \cap T) = v[p] + Total(v, t \cap T)
        BY <4>1, <4>2
      <4>5. \A i, k \in Int : (0 - i) + (0 - k) = 0 - (i + k)
        OBVIOUS
      <4> HIDE DEF p, t, B
      <4>6. QED
        BY <2>2, <2>6, <3>2, <4>3, <4>4, <4>5
    <3>4. CASE p \notin T
      <4>1. s \cap T = t \cap T /\ w[p] = 0
        BY <2>3, <3>1, <3>4
      <4>2. Total(v, s \cap T) = Total(v, t \cap T)
        BY <4>1
      <4> HIDE DEF p, t, B
      <4>3. QED
        BY <2>2, <2>6, <3>2, <4>1, <4>2
    <3>5. QED
      BY <3>3, <3>4
  <2>9. QED
    BY <2>7, <2>8
<1>2. S \cap T = T
  OBVIOUS
<1>3. QED
  BY <1>1, <1>2

SoldIds(e) == {b \in Confirmed(e) : ~bookings[b].seatLevel}

SeatsWeight == [b \in BookingIds |-> bookings[b].seats]

LEMMA SoldIsTotal ==
    ASSUME TablesOK, NEW e
    PROVE  Sold(e) = Total(SeatsWeight, SoldIds(e))
<1> DEFINE S == SoldIds(e)
           c(s) == CHOOSE x \in s : TRUE
           A(g) == g = [s \in SUBSET S |-> IF s = {} THEN 0 ELSE bookings[c(s)].seats + g[s \ {c(s)}]]
           h == CHOOSE g : A(g)
<1>0. S \in SUBSET BookingIds
  BY DEF SoldIds, Confirmed
<1> HIDE DEF S
<1>1. \A s \in SUBSET S : s # {} => SeatsWeight[Pick(s)] = bookings[c(s)].seats
  BY <1>0, PickIn DEF SeatsWeight, Pick
<1>2. ASSUME NEW g PROVE A(g) <=> IsSum(g, SeatsWeight, S)
  BY <1>1 DEF IsSum, Pick
<1>3. IsFiniteSet(S)
  BY <1>0, BookingRows
<1>4. PICK f : IsSum(f, SeatsWeight, S)
  BY <1>3, SumExists
<1>5. IsSum(h, SeatsWeight, S)
  <2>1. A(f)
    BY <1>2, <1>4
  <2> HIDE DEF A
  <2>2. A(h)
    BY <2>1
  <2>3. QED
    BY <1>2, <2>2
<1>6. h[S] = Total(SeatsWeight, S)
  BY <1>3, <1>5, SumIsTotal
<1>7. Sold(e) = h[S]
  BY Zenon DEF Sold, SoldIds, MapThenSumSet, MapThenFoldSet, S
<1>8. QED
  BY <1>6, <1>7 DEF S

\* Where refunds were owed, what bookings have left of the counter is what is
\* sold.
LEMMA NetIsSold ==
    ASSUME TablesOK, NEW e, RefundsOwed(e)
    PROVE  /\ Total(NetWeight, BookingsOf(e)) = 0 - Sold(e)
           /\ Sold(e) \in Int
<1>1. SoldIds(e) \in SUBSET BookingsOf(e) /\ IsFiniteSet(BookingsOf(e)) /\ IsFiniteSet(SoldIds(e))
  BY BookingRows DEF SoldIds, Confirmed, BookingsOf
<1>2. \A b \in SoldIds(e) : SeatsWeight[b] \in Int
  BY BookingRows DEF SoldIds, Confirmed, SeatsWeight, Booking
<1>3. ASSUME NEW b \in SoldIds(e) PROVE NetWeight[b] = 0 - SeatsWeight[b]
  <2>1. b \in BookingIds /\ b \in BookingsOf(e) /\ bookings[b].status = "confirmed"
    BY DEF SoldIds, Confirmed, BookingsOf
  <2>2. bookings[b].refunds = 0 /\ Taken(b) = 1 /\ bookings[b].seats \in Int
    BY <2>1, BookingRows DEF RefundsOwed, Taken, SoldIds, Booking
  <2>3. \A i \in Int : i * (0 - 1) = 0 - i
    OBVIOUS
  <2>4. QED
    BY <2>1, <2>2, <2>3 DEF NetWeight, SeatsWeight
<1>4. ASSUME NEW b \in BookingsOf(e) \ SoldIds(e) PROVE NetWeight[b] = 0
  <2>1. b \in BookingIds /\ bookings[b] \in Booking
    BY BookingRows DEF BookingsOf
  <2>2. bookings[b].refunds = Taken(b) /\ Taken(b) \in Int /\ bookings[b].seats \in Int
    BY <2>1 DEF RefundsOwed, Taken, SoldIds, Confirmed, BookingsOf, Booking, Status
  <2>3. \A i, k \in Int : i * (k - k) = 0
    OBVIOUS
  <2>4. QED
    BY <2>1, <2>2, <2>3 DEF NetWeight
<1>5. Total(NetWeight, BookingsOf(e)) = 0 - Total(SeatsWeight, SoldIds(e))
  BY <1>1, <1>2, <1>3, <1>4, TotalNegated
<1>6. Total(SeatsWeight, SoldIds(e)) \in Int
  BY <1>1, <1>2, TotalInt
<1>7. QED
  BY <1>5, <1>6, SoldIsTotal

\* The lease of booking.processor.ts and the relative writes of booking.service.ts
\* keep sales within what administrators put on sale, through updates that ask
\* for no lease, as long as the lease does not lapse and the updates themselves
\* leave what workers have found.
THEOREM SalesStayWithinOffer == AdminSpec => []SoldFromOffer
<1>1. AdminInv /\ CounterInv /\ SaleInv => SoldFromOffer
  <2> SUFFICES ASSUME AdminInv, CounterInv, SaleInv, lapses = 0,
                      NEW e \in Events \ undercut, Listed(e)
               PROVE  available[e] >= 0 /\ (RefundsOwed(e) => Sold(e) <= offered[e])
    BY DEF SoldFromOffer
  <2>1. available[e] >= 0
    BY DEF SaleInv, NeverBelowZero
  <2>2. available[e] = offered[e] + Total(NetWeight, BookingsOf(e))
    BY DEF CounterInv
  <2>3. available[e] \in Int /\ offered[e] \in Int
    BY DEF AdminInv, TablesOK, OffersOK
  <2>4. ASSUME RefundsOwed(e) PROVE Sold(e) <= offered[e]
    <3>1. Total(NetWeight, BookingsOf(e)) = 0 - Sold(e) /\ Sold(e) \in Int
      BY <2>4, NetIsSold DEF AdminInv
    <3>2. QED
      BY <2>1, <2>2, <2>3, <3>1
  <2>5. QED
    BY <2>1, <2>4
<1>2. QED
  BY <1>1, CounterInvHolds, SaleInvHolds, AdminInvHolds, PTL

=============================================================================
