------------------------ MODULE BookingOutcomeProofs ------------------------
(***************************************************************************)
(* What the booking path leaves behind, for any number of workers, users,  *)
(* events, requests, jobs, retries and faults: what the counter of an      *)
(* event says, what became of each job, and the promise of Ticketing.      *)
(***************************************************************************)
EXTENDS BookingSystemProofs, SetSums

\* The table is finite.
LEMMA BookingIdsFinite ==
    ASSUME TypeInv
    PROVE  IsFiniteSet(BookingIds) /\ \A S \in SUBSET BookingIds : IsFiniteSet(S)
<1>1. BookingIds = 1 .. Len(bookings) /\ Len(bookings) \in Nat
  BY DEF TypeInv, TypeOK, ServiceTypeOK, BookingIds
<1>2. IsFiniteSet(BookingIds)
  BY <1>1, FS_Interval
<1>3. QED
  BY <1>2, FS_Subset

-----------------------------------------------------------------------------
(* Seats sold and refunded *)

SeatsWeight == [b \in BookingIds |-> bookings[b].seats]

SurplusWeight == [b \in BookingIds |-> bookings[b].seats * (bookings[b].refunds - Owed(b))]

SoldIds(e) ==
    {b \in BookingIds : /\ bookings[b].event = e
                        /\ bookings[b].status = "confirmed"
                        /\ ~bookings[b].seatLevel}

EventBookings(e) == {b \in BookingIds : bookings[b].event = e}

\* CounterMatchesBookings, with the sums in the form that SetSums is about.
CounterInv ==
    \A e \in Events :
        available[e] = Capacity[e] - Total(SeatsWeight, SoldIds(e))
                                   + Total(SurplusWeight, EventBookings(e))

\* MapThenSumSet over bookings is a sum in the sense of SetSums.
LEMMA SeatsOfIsTotal ==
    ASSUME TypeInv, NEW S \in SUBSET BookingIds
    PROVE  SeatsOf(S) = Total(SeatsWeight, S)
<1> DEFINE A(g) == g = [s \in SUBSET S |->
                          IF s = {} THEN 0
                          ELSE bookings[CHOOSE x \in s : TRUE].seats + g[s \ {CHOOSE x \in s : TRUE}]]
           h == CHOOSE g : A(g)
<1>1. \A s \in SUBSET S : s # {} => SeatsWeight[Pick(s)] = bookings[CHOOSE x \in s : TRUE].seats
  BY PickIn DEF SeatsWeight, Pick
<1>2. ASSUME NEW g PROVE A(g) <=> IsSum(g, SeatsWeight, S)
  BY <1>1 DEF IsSum, Pick
<1>3. IsFiniteSet(S)
  BY BookingIdsFinite
<1>4. PICK f : IsSum(f, SeatsWeight, S)
  BY <1>3, SumExists
<1>5. IsSum(h, SeatsWeight, S)
  <2>1. A(f)
    BY <1>2, <1>4
  <2> HIDE DEF A
  <2>2. A(h)
    BY <2>1
  <2>3. QED
    BY <1>2, <2>2
<1>6. h[S] = Total(SeatsWeight, S)
  BY <1>3, <1>5, SumIsTotal
<1>7. SeatsOf(S) = h[S]
  BY Zenon DEF SeatsOf, MapThenSumSet, MapThenFoldSet
<1>8. QED
  BY <1>6, <1>7

LEMMA SurplusIsTotal ==
    ASSUME TypeInv, NEW e \in Events
    PROVE  SurplusSeats(e) = Total(SurplusWeight, EventBookings(e))
<1> DEFINE S == {b \in BookingIds : bookings[b].event = e}
           c(s) == CHOOSE x \in s : TRUE
           A(g) == g = [s \in SUBSET S |->
                          IF s = {} THEN 0
                          ELSE bookings[c(s)].seats * (bookings[c(s)].refunds - Owed(c(s)))
                                 + g[s \ {c(s)}]]
           h == CHOOSE g : A(g)
<1>1. \A s \in SUBSET S : s # {} =>
         SurplusWeight[Pick(s)] = bookings[c(s)].seats * (bookings[c(s)].refunds - Owed(c(s)))
  BY PickIn DEF SurplusWeight, Pick
<1>2. ASSUME NEW g PROVE A(g) <=> IsSum(g, SurplusWeight, S)
  BY <1>1 DEF IsSum, Pick
<1>3. IsFiniteSet(S)
  BY BookingIdsFinite
<1>4. PICK f : IsSum(f, SurplusWeight, S)
  BY <1>3, SumExists
<1>5. IsSum(h, SurplusWeight, S)
  <2>1. A(f)
    BY <1>2, <1>4
  <2> HIDE DEF A
  <2>2. A(h)
    BY <2>1
  <2>3. QED
    BY <1>2, <2>2
<1>6. h[S] = Total(SurplusWeight, S)
  BY <1>3, <1>5, SumIsTotal
<1>7. SurplusSeats(e) = h[S]
  BY Zenon DEF SurplusSeats, MapThenSumSet, MapThenFoldSet
<1>8. QED
  BY <1>6, <1>7 DEF EventBookings

LEMMA WeightsInt ==
    ASSUME TypeInv
    PROVE  /\ \A b \in BookingIds : bookings[b] \in Booking
           /\ \A b \in BookingIds : SeatsWeight[b] \in Nat /\ SurplusWeight[b] \in Int
           /\ \A e \in Events : /\ SoldIds(e) \in SUBSET BookingIds /\ IsFiniteSet(SoldIds(e))
                                /\ EventBookings(e) \in SUBSET BookingIds
                                /\ IsFiniteSet(EventBookings(e))
           /\ \A e \in Events : /\ Total(SeatsWeight, SoldIds(e)) \in Nat
                                /\ Total(SurplusWeight, EventBookings(e)) \in Int
<1>1. \A b \in BookingIds : bookings[b] \in Booking
  BY DEF TypeInv, TypeOK, ServiceTypeOK, BookingIds
<1>2. ASSUME NEW b \in BookingIds PROVE SeatsWeight[b] \in Nat /\ SurplusWeight[b] \in Int
  <2>1. bookings[b].seats \in Nat /\ bookings[b].refunds \in Nat
    BY <1>1 DEF Booking
  <2>2. bookings[b].refunds - Owed(b) \in Int
    BY <2>1 DEF Owed
  <2>3. QED
    BY <2>1, <2>2 DEF SeatsWeight, SurplusWeight
<1>3. ASSUME NEW e \in Events
      PROVE  /\ SoldIds(e) \in SUBSET BookingIds /\ IsFiniteSet(SoldIds(e))
             /\ EventBookings(e) \in SUBSET BookingIds /\ IsFiniteSet(EventBookings(e))
  <2>1. SoldIds(e) \in SUBSET BookingIds /\ EventBookings(e) \in SUBSET BookingIds
    BY DEF SoldIds, EventBookings
  <2>2. QED
    BY <2>1, BookingIdsFinite
<1>4. ASSUME NEW e \in Events
      PROVE  /\ Total(SeatsWeight, SoldIds(e)) \in Nat
             /\ Total(SurplusWeight, EventBookings(e)) \in Int
  <2>1. \A b \in SoldIds(e) : SeatsWeight[b] \in Nat
    BY <1>2, <1>3
  <2>2. \A b \in EventBookings(e) : SurplusWeight[b] \in Int
    BY <1>2, <1>3
  <2>3. QED
    BY <1>3, <2>1, <2>2, TotalNat, TotalInt
<1>5. QED
  BY <1>1, <1>2, <1>3, <1>4

\* A sale takes its seats from the counter, or none when seats are named.
LEMMA CounterInsert ==
    ASSUME TypeInv, CounterInv,
           NEW w \in Workers, pc[w] = "commit", WriteBooking(Data(w), cur[w])
    PROVE  CounterInv'
<1> SUFFICES ASSUME NEW e \in Events
             PROVE  available'[e] = Capacity[e] - Total(SeatsWeight', SoldIds(e)')
                                                + Total(SurplusWeight', EventBookings(e)')
  BY DEF CounterInv
<1>0. PICK n : n = Len(bookings) + 1
  OBVIOUS
<1> DEFINE d == Data(w)
           general == d.event = e /\ ~d.seatLevel
<1>1. /\ BookingIds' = BookingIds \cup {n} /\ n \notin BookingIds
      /\ \A b \in BookingIds : bookings'[b] = bookings[b]
      /\ bookings'[n] = NewBooking(d, cur[w])
  <2>1. bookings \in Seq(Booking)
    BY DEF TypeInv, TypeOK, ServiceTypeOK
  <2>2. n \notin DOMAIN bookings
    BY <1>0, <2>1
  <2>3. QED
    BY <1>0, <2>2, InsertEffect DEF BookingIds
<1>2. d.seats \in Nat /\ d.seatLevel \in BOOLEAN /\ available \in [Events -> Int]
  BY DataType DEF CreateBookingInput, TypeInv, TypeOK, ServiceTypeOK
<1>3. /\ \A b \in BookingIds : SeatsWeight'[b] = SeatsWeight[b]
      /\ \A b \in BookingIds : SurplusWeight'[b] = SurplusWeight[b]
      /\ SeatsWeight'[n] = d.seats /\ SurplusWeight'[n] = 0
  <2>1. /\ \A b \in BookingIds : SeatsWeight'[b] = SeatsWeight[b]
        /\ \A b \in BookingIds : SurplusWeight'[b] = SurplusWeight[b]
        /\ SeatsWeight'[n] = d.seats
    BY <1>1 DEF SeatsWeight, SurplusWeight, Owed, NewBooking
  <2>2. SurplusWeight'[n] = bookings'[n].seats * (bookings'[n].refunds - Owed(n)')
    BY <1>1 DEF SurplusWeight
  <2>3. Owed(n)' = 0 /\ bookings'[n].refunds = 0 /\ bookings'[n].seats = d.seats
    BY <1>1 DEF Owed, NewBooking
  <2>4. QED
    BY <1>2, <2>1, <2>2, <2>3
<1>4. SoldIds(e)' = IF general THEN SoldIds(e) \cup {n} ELSE SoldIds(e)
  BY <1>1 DEF SoldIds, NewBooking
<1>5. EventBookings(e)' = IF d.event = e THEN EventBookings(e) \cup {n} ELSE EventBookings(e)
  BY <1>1 DEF EventBookings, NewBooking
<1>6. Total(SeatsWeight', SoldIds(e)')
         = Total(SeatsWeight, SoldIds(e)) + (IF general THEN d.seats ELSE 0)
  <2>1. /\ IsFiniteSet(SoldIds(e)) /\ n \notin SoldIds(e)
        /\ \A b \in SoldIds(e) : SeatsWeight[b] \in Int /\ SeatsWeight'[b] = SeatsWeight[b]
        /\ Total(SeatsWeight, SoldIds(e)) \in Nat
    BY <1>1, <1>3, WeightsInt
  <2>2. CASE general
    <3>1. Total(SeatsWeight', SoldIds(e) \cup {n}) = Total(SeatsWeight, SoldIds(e)) + SeatsWeight'[n]
      <4>1. \A b \in SoldIds(e) : SeatsWeight[b] \in Int
        BY <2>1
      <4>2. \A b \in SoldIds(e) : SeatsWeight'[b] = SeatsWeight[b]
        BY <2>1
      <4>3. SeatsWeight'[n] \in Int /\ IsFiniteSet(SoldIds(e)) /\ n \notin SoldIds(e)
        BY <1>2, <1>3, <2>1
      <4>4. QED
        BY <4>1, <4>2, <4>3, TotalAdd
    <3>2. QED
      BY <1>3, <1>4, <2>2, <3>1
  <2>3. CASE ~general
    BY <1>4, <2>1, <2>3, TotalEqual
  <2>4. QED
    BY <2>2, <2>3
<1>7. Total(SurplusWeight', EventBookings(e)') = Total(SurplusWeight, EventBookings(e))
  <2>1. /\ IsFiniteSet(EventBookings(e)) /\ n \notin EventBookings(e)
        /\ \A b \in EventBookings(e) :
              SurplusWeight[b] \in Int /\ SurplusWeight'[b] = SurplusWeight[b]
        /\ Total(SurplusWeight, EventBookings(e)) \in Int
    BY <1>1, <1>3, WeightsInt
  <2>2. CASE d.event = e
    <3>1. Total(SurplusWeight', EventBookings(e) \cup {n})
             = Total(SurplusWeight, EventBookings(e)) + SurplusWeight'[n]
      <4>1. \A b \in EventBookings(e) : SurplusWeight[b] \in Int
        BY <2>1
      <4>2. \A b \in EventBookings(e) : SurplusWeight'[b] = SurplusWeight[b]
        BY <2>1
      <4>3. /\ SurplusWeight'[n] \in Int
            /\ IsFiniteSet(EventBookings(e)) /\ n \notin EventBookings(e)
        BY <1>3, <2>1
      <4>4. QED
        BY <4>1, <4>2, <4>3, TotalAdd
    <3>2. QED
      BY <1>3, <1>5, <2>1, <2>2, <3>1
  <2>3. CASE d.event # e
    BY <1>5, <2>1, <2>3, TotalEqual
  <2>4. QED
    BY <2>2, <2>3
<1>8. available'[e] = available[e] - (IF general THEN d.seats ELSE 0)
  BY <1>2 DEF WriteBooking, Decremented
<1>9. available[e] = Capacity[e] - Total(SeatsWeight, SoldIds(e))
                                 + Total(SurplusWeight, EventBookings(e))
  BY DEF CounterInv
<1>10. Total(SeatsWeight, SoldIds(e)) \in Int /\ Total(SurplusWeight, EventBookings(e)) \in Int
       /\ Capacity[e] \in Int
  BY WeightsInt, CapacityAssumption
<1>11. QED
  BY <1>2, <1>6, <1>7, <1>8, <1>9, <1>10

\* A cancellation gives back seats that were sold, or adds to the surplus.
LEMMA CounterCancel ==
    ASSUME TypeInv, CounterInv, NEW c \in Cancellers, CancelCommit(c)
    PROVE  CounterInv'
<1> SUFFICES ASSUME NEW e \in Events
             PROVE  available'[e] = Capacity[e] - Total(SeatsWeight', SoldIds(e)')
                                                + Total(SurplusWeight', EventBookings(e)')
  BY DEF CounterInv
<1>0. PICK b : b = cancelling[c]
  OBVIOUS
<1> DEFINE r == [bookings[b] EXCEPT !.status = "cancelled", !.refunds = bookings[b].refunds + 1]
           seats == bookings[b].seats
           here == bookings[b].event = e
           sold == b \in SoldIds(e)
           sum == Total(SeatsWeight, SoldIds(e))
           surplus == Total(SurplusWeight, EventBookings(e))
<1>1. /\ b \in BookingIds /\ bookings[b] \in Booking /\ bookings \in Seq(Booking)
      /\ available \in [Events -> Int]
  BY <1>0, WeightsInt DEF CancelCommit, TypeInv, References, TypeOK, ServiceTypeOK, BookingIds
<1>2. /\ BookingIds' = BookingIds
      /\ \A k \in BookingIds : k # b => bookings'[k] = bookings[k]
      /\ bookings'[b] = r
  BY <1>0, <1>1 DEF CancelCommit, Booking, BookingIds
<1>3. /\ seats \in Nat /\ bookings[b].refunds \in Nat
      /\ bookings[b].status \in {"confirmed", "cancelled"} /\ bookings[b].seatLevel \in BOOLEAN
      /\ r.seats = seats /\ r.refunds = bookings[b].refunds + 1 /\ r.status = "cancelled"
      /\ r.event = bookings[b].event /\ r.seatLevel = bookings[b].seatLevel
  BY <1>1 DEF Booking, Status
<1>4. /\ \A k \in BookingIds : SeatsWeight'[k] = SeatsWeight[k]
      /\ \A k \in BookingIds : k # b => SurplusWeight'[k] = SurplusWeight[k]
  BY <1>1, <1>2, <1>3 DEF SeatsWeight, SurplusWeight, Owed
<1>5. SoldIds(e)' = SoldIds(e) \ {b} /\ EventBookings(e)' = EventBookings(e)
  BY <1>1, <1>2, <1>3 DEF SoldIds, EventBookings
<1>6. /\ SoldIds(e) \in SUBSET BookingIds /\ IsFiniteSet(SoldIds(e))
      /\ EventBookings(e) \in SUBSET BookingIds /\ IsFiniteSet(EventBookings(e))
      /\ sum \in Int /\ surplus \in Int
  BY WeightsInt
<1>7. Total(SeatsWeight', SoldIds(e)') = sum - (IF sold THEN seats ELSE 0)
  <2>1. IsFiniteSet(SoldIds(e) \ {b})
    BY <1>6, FS_RemoveElement
  <2>2. \A k \in SoldIds(e) \ {b} : SeatsWeight'[k] = SeatsWeight[k]
    BY <1>4, <1>6
  <2>3. Total(SeatsWeight', SoldIds(e) \ {b}) = Total(SeatsWeight, SoldIds(e) \ {b})
    BY <2>1, <2>2, TotalEqual
  <2>4. CASE sold
    <3>1. \A k \in SoldIds(e) : SeatsWeight[k] \in Int
      BY <1>6, WeightsInt
    <3>2. sum = SeatsWeight[b] + Total(SeatsWeight, SoldIds(e) \ {b})
      BY <1>6, <2>4, <3>1, TotalRemove
    <3>3. Total(SeatsWeight, SoldIds(e) \ {b}) \in Int
      BY <2>1, <3>1, TotalInt
    <3>4. SeatsWeight[b] = seats
      BY <1>1 DEF SeatsWeight
    <3>5. QED
      BY <1>3, <1>5, <1>6, <2>3, <2>4, <3>2, <3>3, <3>4
  <2>5. CASE ~sold
    <3>1. SoldIds(e) \ {b} = SoldIds(e)
      BY <2>5
    <3>2. QED
      BY <1>5, <1>6, <2>3, <2>5, <3>1
  <2>6. QED
    BY <2>4, <2>5
<1>8. SurplusWeight'[b] = seats * ((bookings[b].refunds + 1) - Owed(b)')
  <2>1. SurplusWeight'[b] = bookings'[b].seats * (bookings'[b].refunds - Owed(b)')
    BY <1>1, <1>2 DEF SurplusWeight
  <2>2. bookings'[b].seats = seats /\ bookings'[b].refunds = bookings[b].refunds + 1
    BY <1>2, <1>3
  <2>3. QED
    BY <2>1, <2>2
<1>9. SurplusWeight'[b] - SurplusWeight[b] =
         IF bookings[b].status = "confirmed" /\ ~bookings[b].seatLevel THEN 0 ELSE seats
  <2>1. SurplusWeight[b] = seats * (bookings[b].refunds - Owed(b))
    BY <1>1 DEF SurplusWeight
  <2>2. SurplusWeight'[b] = seats * ((bookings[b].refunds + 1) - Owed(b)')
    BY <1>8
  <2>3. Owed(b)' = IF bookings[b].seatLevel THEN 0 ELSE 1
    BY <1>2, <1>3 DEF Owed
  <2>4. Owed(b) = IF bookings[b].status = "cancelled" /\ ~bookings[b].seatLevel THEN 1 ELSE 0
    BY DEF Owed
  <2>5. \A x \in Nat, y \in Int : x * (y + 1) = x * y + x /\ x * y \in Int
    OBVIOUS
  <2>6. CASE bookings[b].status = "confirmed" /\ ~bookings[b].seatLevel
    BY <1>3, <2>1, <2>2, <2>3, <2>4, <2>6
  <2>7. CASE ~(bookings[b].status = "confirmed" /\ ~bookings[b].seatLevel)
    <3>1. (bookings[b].refunds + 1) - Owed(b)' = (bookings[b].refunds - Owed(b)) + 1
      BY <1>3, <2>3, <2>4, <2>7
    <3>2. bookings[b].refunds - Owed(b) \in Int
      BY <1>3, <2>4
    <3>3. QED
      BY <1>3, <2>1, <2>2, <2>5, <2>7, <3>1, <3>2
  <2>8. QED
    BY <2>6, <2>7
<1>10. Total(SurplusWeight', EventBookings(e)') = surplus + (IF here /\ ~sold THEN seats ELSE 0)
  <2>1. \A k \in EventBookings(e) : SurplusWeight[k] \in Int
    BY <1>6, WeightsInt
  <2>2. sold <=> here /\ bookings[b].status = "confirmed" /\ ~bookings[b].seatLevel
    BY <1>1 DEF SoldIds
  <2>3. CASE here
    <3>1. b \in EventBookings(e)
      BY <1>1, <2>3 DEF EventBookings
    <3>2. \A k \in EventBookings(e) \ {b} : SurplusWeight'[k] = SurplusWeight[k]
      BY <1>4, <1>6
    <3>3. SurplusWeight'[b] \in Int /\ SurplusWeight[b] \in Int
      <4>1. (bookings[b].refunds + 1) - Owed(b)' \in Int
        BY <1>3 DEF Owed
      <4>2. QED
        BY <1>1, <1>3, <1>8, <4>1, WeightsInt
    <3>4. Total(SurplusWeight', EventBookings(e)) = surplus + (SurplusWeight'[b] - SurplusWeight[b])
      BY <1>6, <2>1, <3>1, <3>2, <3>3, TotalChange
    <3>5. QED
      BY <1>3, <1>5, <1>6, <1>9, <2>2, <2>3, <3>4
  <2>4. CASE ~here
    <3>1. \A k \in EventBookings(e) : SurplusWeight[k] = SurplusWeight'[k]
      BY <1>4, <1>6, <2>4 DEF EventBookings
    <3>2. Total(SurplusWeight, EventBookings(e)) = Total(SurplusWeight', EventBookings(e))
      BY <1>6, <3>1, TotalEqual
    <3>3. QED
      BY <1>5, <1>6, <2>4, <3>2
  <2>5. QED
    BY <2>3, <2>4
<1>11. available'[e] = available[e] + (IF here THEN seats ELSE 0)
  BY <1>0, <1>1, <1>3 DEF CancelCommit, Restored
<1>12. available[e] = Capacity[e] - sum + surplus /\ Capacity[e] \in Int
  BY CapacityAssumption DEF CounterInv
<1>13. sold => here
  BY DEF SoldIds
<1>14. QED
  BY <1>3, <1>6, <1>7, <1>10, <1>11, <1>12, <1>13

LEMMA CounterStep ==
    ASSUME TypeInv, CounterInv, [Next]_vars
    PROVE  CounterInv'
<1>1. CASE UNCHANGED <<available, bookings>>
  BY <1>1 DEF CounterInv, SeatsWeight, SurplusWeight, SoldIds, EventBookings, BookingIds, Owed
<1>2. QED
  BY <1>1, TableCases, CounterInsert, CounterCancel

LEMMA CounterInit == Init => CounterInv
<1> SUFFICES ASSUME Init, NEW e \in Events
             PROVE  available[e] = Capacity[e] - Total(SeatsWeight, SoldIds(e))
                                               + Total(SurplusWeight, EventBookings(e))
  BY DEF CounterInv
<1>1. SoldIds(e) = {} /\ EventBookings(e) = {}
  BY DEF Init, ServiceInit, SoldIds, EventBookings, BookingIds
<1>2. Total(SeatsWeight, {}) = 0 /\ Total(SurplusWeight, {}) = 0
  BY FS_EmptySet, TotalDef
<1>3. QED
  BY <1>1, <1>2, CapacityAssumption DEF Init, ServiceInit

LEMMA CounterSums ==
    ASSUME TypeInv, NEW e \in Events
    PROVE  /\ SoldSeats(e) = Total(SeatsWeight, SoldIds(e))
           /\ SurplusSeats(e) = Total(SurplusWeight, EventBookings(e))
<1>1. SoldIds(e) \in SUBSET BookingIds
  BY DEF SoldIds
<1>2. SoldSeats(e) = SeatsOf(SoldIds(e))
  BY DEF SoldSeats, SoldIds
<1>3. QED
  BY <1>1, <1>2, SeatsOfIsTotal, SurplusIsTotal

\* However stale the reads were, availableCapacity is the capacity less what
\* the bookings hold, up to the wrong refunds.
THEOREM CounterIsRight == Spec => []CounterMatchesBookings
<1>1. TypeInv /\ CounterInv /\ [Next]_vars => CounterInv'
  BY CounterStep
<1>2. TypeInv /\ CounterInv => CounterMatchesBookings
  BY CounterSums DEF CounterInv, CounterMatchesBookings
<1>3. QED
  BY CounterInit, <1>1, <1>2, TypeCorrect, PTL DEF Spec

\* While leases hold and refunds are right, no event sells more seats than it has.
THEOREM NeverOversells == Spec => []NoOverselling
<1>1. TypeInv /\ NeverNegative /\ CounterMatchesBookings => NoOverselling
  <2> SUFFICES ASSUME TypeInv, NeverNegative, CounterMatchesBookings, lapses = 0,
                      NEW e \in Events, SurplusSeats(e) = 0
               PROVE  SoldSeats(e) <= Capacity[e]
    BY DEF NoOverselling
  <2>1. SoldSeats(e) \in Int /\ Capacity[e] \in Int /\ available[e] \in Int
    BY CounterSums, WeightsInt, CapacityAssumption DEF TypeInv, TypeOK, ServiceTypeOK
  <2>2. available[e] >= 0 /\ available[e] = Capacity[e] - SoldSeats(e) + SurplusSeats(e)
    BY DEF NeverNegative, CounterMatchesBookings
  <2>3. QED
    BY <2>1, <2>2
<1>2. QED
  BY <1>1, TypeCorrect, CapacityNeverNegative, CounterIsRight, PTL

-----------------------------------------------------------------------------
(* Jobs, answers and bookings *)

\* A worker has a job while it is busy, an answer only once createBooking is
\* over, and looks a key up only when there is one.
JobLocals ==
    \A w \in Workers :
        /\ pc[w] = "idle" => cur[w] = 0
        /\ result[w] # 0 => pc[w] \in {"release", "report"}
        /\ pc[w] = "lookup" => Data(w).key # NoKey

\* Booking v is an answer to job j.
Answers(j, v) ==
    /\ v \in BookingIds
    /\ bookings[v].user = jobs[j].data.user
    /\ bookings[v].event = jobs[j].data.event
    /\ bookings[v].key = jobs[j].data.key
    /\ bookings[v].key = NoKey => bookings[v].job = j

AnswersRight ==
    /\ \A w \in Workers : result[w] # 0 => Answers(cur[w], result[w])
    /\ \A j \in DOMAIN jobs : jobs[j].state = "completed" => Answers(j, jobs[j].value)

BookingsOf(j) == {b \in BookingIds : bookings[b].job = j}

\* Bookings are made by workers, for the job they have.
BookedForJobs == \A b \in BookingIds : bookings[b].job \in DOMAIN jobs

\* Until a job stalls, whoever works on it owns it.
WorkersOwn ==
    \A w \in Workers :
        cur[w] # 0 /\ jobs[cur[w]].stalls = 0 => Owns(w, cur[w])

\* A job that did not stall and has a booking is settled, or its worker has
\* the answer or is dead.
BookedOnce ==
    lostAcks = 0 =>
        \A j \in DOMAIN jobs : jobs[j].stalls = 0 /\ BookingsOf(j) # {} =>
            \/ jobs[j].state = "completed"
            \/ /\ jobs[j].state = "active"
               /\ \A w \in Workers : cur[w] = j => result[w] # 0

\* The workers that may still book for job j.
Pending(j) == {w \in Workers : cur[w] = j /\ result[w] = 0}

\* A waiting job will be given to one worker more.
Queued(j) == IF jobs[j].state = "waiting" THEN 1 ELSE 0

Allowed(j) == 1 + jobs[j].stalls + lostAcks

\* Every booking a job made, and every one that is still to come, is the one
\* it may make or is due to a stall or a lost acknowledgement.
JobBudget ==
    \A j \in DOMAIN jobs :
        /\ IsFiniteSet(Pending(j))
        /\ Cardinality(BookingsOf(j)) + Cardinality(Pending(j)) + Queued(j) <= Allowed(j)

\* What a step may do to the jobs, to who works on them with which answer, and
\* to the bookings made for them.
SameWork == UNCHANGED <<jobs, cur, result, lostAcks>> /\ DOMAIN bookings' = DOMAIN bookings

LEMMA WorkCases ==
    ASSUME TypeInv, JobLocals, [Next]_vars
    PROVE  \/ SameWork
           \/ \E d \in Requests : RequestBooking(d)
           \/ \E w \in Workers, j \in DOMAIN jobs : Fetch(w, j)
           \/ \E w \in Workers : LookupFinds(w, Data(w)) /\ UNCHANGED <<jobs, cur>>
           \/ \E w \in Workers : Commit(w, Data(w), cur[w]) /\ UNCHANGED <<jobs, cur>>
           \/ \E w \in Workers : CommitUnacknowledged(w, Data(w), cur[w]) /\ UNCHANGED <<jobs, cur>>
           \/ \E w \in Workers : Report(w)
           \/ \E w \in Workers : Crash(w)
           \/ \E j \in DOMAIN jobs : StallDetected(j)
<1>0. bookings \in Seq(Booking) /\ result \in [Workers -> Nat]
  BY DEF TypeInv, TypeOK, ServiceTypeOK
<1>1. ASSUME NEW c \in Cancellers, RequestCancel(c) PROVE SameWork
  BY <1>0, <1>1, CancelEffect DEF RequestCancel, CancelRead, CancelCommit, CancelFails, SameWork
<1>2. ASSUME NEW w \in Workers, Acquire(w) PROVE SameWork
  <2>1. result[w] = 0
    BY <1>2 DEF JobLocals, Acquire
  <2>2. QED
    BY <1>0, <1>2, <2>1 DEF Acquire, CallCreateBooking, SameWork
<1>3. ASSUME NEW w \in Workers, AcquireGivesUp(w) \/ Release(w) PROVE SameWork
  BY <1>3 DEF AcquireGivesUp, Release, SameWork
<1>4. ASSUME NEW w \in Workers, CreateBooking(w),
             ~LookupFinds(w, Data(w)), ~Commit(w, Data(w), cur[w]),
             ~CommitUnacknowledged(w, Data(w), cur[w])
      PROVE  SameWork
  BY <1>4 DEF CreateBooking, LookupMisses, LookupFails, ReadAccepts, ReadRefuses,
              TransactionFails, CatchError, SameWork
<1>5. ASSUME NEW e \in EventIds, LeaseExpires(e) PROVE SameWork
  BY <1>5 DEF LeaseExpires, serviceVars, SameWork
<1>6. CASE UNCHANGED vars
  BY <1>6 DEF vars, SameWork
<1>7. ASSUME NEW w \in Workers, CreateBooking(w) PROVE UNCHANGED <<jobs, cur>>
  BY <1>7 DEF CreateBooking
<1>8. QED
  BY <1>1, <1>2, <1>3, <1>4, <1>5, <1>6, <1>7 DEF Next, WorkerStep

\* The locals follow the program counter.
LEMMA JobLocalsStep ==
    ASSUME TypeInv, JobLocals, [Next]_vars
    PROVE  JobLocals'
<1> SUFFICES ASSUME NEW w \in Workers
             PROVE  /\ pc'[w] = "idle" => cur'[w] = 0
                    /\ result'[w] # 0 => pc'[w] \in {"release", "report"}
                    /\ pc'[w] = "lookup" => Data(w)'.key # NoKey
  BY DEF JobLocals
<1>0. ControlTypeOK
  BY DEF TypeInv, TypeOK, ServiceTypeOK, ControlTypeOK
<1> DEFINE Same == pc'[w] = pc[w] /\ cur'[w] = cur[w] /\ result'[w] = result[w]
           Goal == /\ pc'[w] = "idle" => cur'[w] = 0
                   /\ result'[w] # 0 => pc'[w] \in {"release", "report"}
                   /\ pc'[w] = "lookup" => Data(w)'.key # NoKey
<1>1. CASE Same
  BY <1>1, DataKept DEF JobLocals
<1>2. ASSUME NEW x \in Workers, WorkerStep(x) \/ Crash(x), x # w PROVE Same
  BY <1>0, <1>2
     DEF ControlTypeOK, WorkerStep, Fetch, Acquire, AcquireGivesUp, CreateBooking, Release, Report,
         Crash, Leave, CallCreateBooking, LookupFinds, LookupMisses, LookupFails, ReadAccepts,
         ReadRefuses, Commit, CommitUnacknowledged, TransactionFails, CatchError, Goto
<1>3. ASSUME NEW j \in DOMAIN jobs, Fetch(w, j) PROVE Goal
  BY <1>0, <1>3 DEF Fetch, Goto, JobLocals, ControlTypeOK
<1>4. CASE Acquire(w)
  <2>1. pc'[w] = FirstStep(Data(w)) /\ result'[w] = 0 /\ Data(w)' = Data(w)
    BY <1>0, <1>4 DEF Acquire, CallCreateBooking, Goto, ControlTypeOK, Data
  <2>2. QED
    BY <2>1 DEF FirstStep
<1>5. CASE AcquireGivesUp(w) \/ Release(w)
  BY <1>0, <1>5 DEF AcquireGivesUp, Release, Goto, ControlTypeOK
<1>6. CASE CreateBooking(w)
  <2>1. CASE LookupFinds(w, Data(w)) \/ Commit(w, Data(w), cur[w])
    BY <1>0, <2>1 DEF LookupFinds, Commit, Goto, ControlTypeOK
  <2>2. CASE LookupMisses(w, Data(w)) \/ LookupFails(w) \/ ReadAccepts(w, Data(w))
    BY <1>0, <2>2 DEF LookupMisses, LookupFails, ReadAccepts, Goto, JobLocals, ControlTypeOK
  <2>3. CASE \/ ReadRefuses(w, Data(w)) \/ CommitUnacknowledged(w, Data(w), cur[w])
             \/ TransactionFails(w)
    <3>1. pc[w] \in {"read", "commit"} /\ CatchError(w) /\ result' = result
      BY <2>3 DEF ReadRefuses, CommitUnacknowledged, TransactionFails, CatchError
    <3>2. QED
      BY <1>0, <3>1, CatchErrorStep DEF JobLocals
  <2>4. QED
    BY <1>6, <2>1, <2>2, <2>3 DEF CreateBooking
<1>7. CASE Report(w) \/ Crash(w)
  BY <1>0, <1>7 DEF Report, Crash, Leave, Goto, ControlTypeOK
<1>8. CASE \/ \E d \in Requests : RequestBooking(d)
           \/ \E c \in Cancellers : RequestCancel(c)
           \/ \E e \in EventIds : LeaseExpires(e)
           \/ \E j \in DOMAIN jobs : StallDetected(j)
           \/ UNCHANGED vars
  <2>1. UNCHANGED <<pc, cur, result>>
    BY <1>8 DEF RequestBooking, RequestCancel, CancelRead, CancelCommit, CancelFails,
                LeaseExpires, StallDetected, serviceVars, vars
  <2>2. QED
    BY <1>1, <2>1
<1>9. QED
  BY <1>1, <1>2, <1>3, <1>4, <1>5, <1>6, <1>7, <1>8 DEF Next, WorkerStep

-----------------------------------------------------------------------------
(* What a completed job returned *)

LEMMA AnswerKept ==
    ASSUME TypeInv, [Next]_vars, NEW j \in DOMAIN jobs, NEW v, Answers(j, v)
    PROVE  Answers(j, v)'
BY QueueStep, TableStep DEF Answers, JobsKept, BookingsKept, BookingIds

\* What each operation of the queue does to the jobs it knew.
LEMMA FetchEffect ==
    ASSUME TypeInv, NEW w \in Workers, NEW j \in DOMAIN jobs, Fetch(w, j)
    PROVE  /\ DOMAIN jobs' = DOMAIN jobs
           /\ \A k \in DOMAIN jobs : k # j => jobs'[k] = jobs[k]
           /\ jobs[j].state = "waiting" /\ jobs'[j].state = "active"
           /\ jobs'[j].owner = w /\ jobs'[j].stalls = jobs[j].stalls
           /\ cur' = [cur EXCEPT ![w] = j]
           /\ pc[w] = "idle" /\ UNCHANGED <<available, bookings, result, lostAcks>>
<1>1. jobs \in Seq(Job) /\ jobs[j] \in Job
  BY DEF TypeInv, TypeOK, QueueTypeOK
<1>2. QED
  BY <1>1 DEF Fetch, FetchJob, Fetched, Job

LEMMA StallEffect ==
    ASSUME TypeInv, NEW j \in DOMAIN jobs, StallDetected(j)
    PROVE  /\ DOMAIN jobs' = DOMAIN jobs
           /\ \A k \in DOMAIN jobs : k # j => jobs'[k] = jobs[k]
           /\ jobs[j].state = "active" /\ jobs'[j].state \in {"waiting", "failed"}
           /\ jobs[j].stalls \in Nat /\ jobs'[j].stalls = jobs[j].stalls + 1
           /\ UNCHANGED <<available, bookings, cur, result, lostAcks>>
<1>1. jobs \in Seq(Job) /\ jobs[j] \in Job
  BY DEF TypeInv, TypeOK, QueueTypeOK
<1>2. /\ Stalled(j).state \in {"waiting", "failed"}
      /\ jobs[j].stalls \in Nat /\ Stalled(j).stalls = jobs[j].stalls + 1
  BY <1>1 DEF Stalled, Job
<1>3. jobs[j].state = "active" /\ jobs' = [jobs EXCEPT ![j] = Stalled(j)]
  BY DEF StallDetected, JobStalled
<1>4. QED
  BY <1>1, <1>2, <1>3 DEF StallDetected, serviceVars

\* A report settles or requeues the job of a worker that still owns it, and
\* nothing else.
LEMMA ReportEffect ==
    ASSUME TypeInv, NEW w \in Workers, Report(w)
    PROVE  /\ cur[w] \in DOMAIN jobs /\ DOMAIN jobs' = DOMAIN jobs
           /\ \A k \in DOMAIN jobs : k # cur[w] => jobs'[k] = jobs[k]
           /\ jobs'[cur[w]].stalls = jobs[cur[w]].stalls
           /\ ~Owns(w, cur[w]) => jobs' = jobs
           /\ Owns(w, cur[w]) /\ result[w] # 0 =>
                 jobs'[cur[w]].state = "completed" /\ jobs'[cur[w]].value = result[w]
           /\ Owns(w, cur[w]) /\ result[w] = 0 =>
                 jobs'[cur[w]].state \in {"waiting", "failed"}
           /\ cur' = [cur EXCEPT ![w] = 0] /\ result' = [result EXCEPT ![w] = 0]
           /\ UNCHANGED <<available, bookings, lostAcks>>
<1>1. cur[w] \in DOMAIN jobs /\ jobs \in Seq(Job) /\ jobs[cur[w]] \in Job /\ result[w] \in Nat
  BY DEF Report, TypeInv, TypeOK, QueueTypeOK, ServiceTypeOK, References
<1>2. CASE ~Owns(w, cur[w])
  BY <1>1, <1>2 DEF Report, ReportJob, Leave
<1>3. CASE Owns(w, cur[w]) /\ result[w] # 0
  BY <1>1, <1>3 DEF Report, ReportJob, Leave, Succeeded, Job
<1>4. CASE Owns(w, cur[w]) /\ result[w] = 0
  <2>1. /\ AttemptFailed(cur[w]).state \in {"waiting", "failed"}
        /\ AttemptFailed(cur[w]).stalls = jobs[cur[w]].stalls
    BY <1>1 DEF AttemptFailed, Job
  <2>2. jobs' = [jobs EXCEPT ![cur[w]] = AttemptFailed(cur[w])]
    BY <1>4 DEF Report, ReportJob
  <2>3. QED
    BY <1>1, <1>4, <2>1, <2>2 DEF Report, Leave
<1>5. QED
  BY <1>2, <1>3, <1>4

LEMMA EnqueueEffect ==
    ASSUME TypeInv, NEW d \in Requests, RequestBooking(d)
    PROVE  /\ Len(jobs) + 1 \in Nat /\ Len(jobs) + 1 \notin DOMAIN jobs
           /\ DOMAIN jobs' = DOMAIN jobs \cup {Len(jobs) + 1}
           /\ \A k \in DOMAIN jobs : jobs'[k] = jobs[k]
           /\ jobs'[Len(jobs) + 1].state = "waiting" /\ jobs'[Len(jobs) + 1].stalls = 0
           /\ UNCHANGED <<available, bookings, cur, result, lostAcks>>
<1>1. jobs \in Seq(Job) /\ NewJob(d) \in Job
  BY QueueAssumption DEF NewJob, Job, JobStates, TypeInv, TypeOK, QueueTypeOK
<1>2. NewJob(d).state = "waiting" /\ NewJob(d).stalls = 0
  BY DEF NewJob
<1>3. QED
  BY <1>1, <1>2, SeqAppend DEF RequestBooking, EnqueueBookingJob, serviceVars

\* A new booking is an answer to the job it was made for.
LEMMA CommitAnswers ==
    ASSUME TypeInv, [Next]_vars, NEW w \in Workers, Commit(w, Data(w), cur[w]),
           NEW j, j = cur[w], NEW n, n = Len(bookings) + 1
    PROVE  Answers(j, n)'
<1>1. j \in DOMAIN jobs
  BY DataType DEF Commit
<1>2. n \in DOMAIN bookings' /\ bookings'[n] = NewBooking(Data(w), cur[w])
  BY InsertEffect DEF Commit
<1>3. j \in DOMAIN jobs' /\ jobs'[j].data = Data(w)
  BY <1>1, QueueStep DEF JobsKept, Data
<1>4. QED
  BY <1>2, <1>3 DEF Answers, BookingIds, NewBooking

LEMMA AnswersStep ==
    ASSUME TypeInv, JobLocals, AnswersRight, [Next]_vars
    PROVE  AnswersRight'
<1> DEFINE Answer(w) == result'[w] # 0 => Answers(cur[w], result[w])'
           Completed(j) == jobs'[j].state = "completed" => Answers(j, jobs[j].value)'
           Goal == (\A w \in Workers : Answer(w)) /\ (\A j \in DOMAIN jobs' : Completed(j))
<1>0. /\ ControlTypeOK
      /\ \A w \in Workers : result[w] # 0 => cur[w] \in DOMAIN jobs
  BY DEF TypeInv, TypeOK, ServiceTypeOK, ControlTypeOK, References, JobLocals
<1>1. /\ \A w \in Workers : cur'[w] = cur[w] /\ result'[w] = result[w] => Answer(w)
      /\ \A j \in DOMAIN jobs : jobs'[j] = jobs[j] => Completed(j)
  <2>1. ASSUME NEW w \in Workers, cur'[w] = cur[w], result'[w] = result[w], result'[w] # 0
        PROVE  Answers(cur[w], result[w])'
    <3>1. PICK j, v : j = cur[w] /\ v = result[w]
      OBVIOUS
    <3>2. Answers(j, v)'
      BY <1>0, <2>1, <3>1, AnswerKept DEF AnswersRight
    <3>3. QED
      BY <2>1, <3>1, <3>2
  <2>2. ASSUME NEW j \in DOMAIN jobs, jobs'[j] = jobs[j], jobs'[j].state = "completed"
        PROVE  Answers(j, jobs[j].value)'
    <3>1. PICK v : v = jobs[j].value
      OBVIOUS
    <3>2. Answers(j, v)'
      BY <2>2, <3>1, AnswerKept DEF AnswersRight
    <3>3. QED
      BY <2>2, <3>1, <3>2
  <2>3. QED
    BY <2>1, <2>2
<1>2. ASSUME SameWork PROVE Goal
  BY <1>1, <1>2 DEF SameWork
<1>3. ASSUME NEW d \in Requests, RequestBooking(d) PROVE Goal
  BY <1>1, <1>3, EnqueueEffect
<1>4. ASSUME NEW w \in Workers, NEW j \in DOMAIN jobs, Fetch(w, j) PROVE Goal
  <2>1. result'[w] = 0
    BY <1>4, FetchEffect DEF JobLocals
  <2>2. \A x \in Workers : x # w => Answer(x)
    BY <1>0, <1>1, <1>4, FetchEffect DEF ControlTypeOK
  <2>3. \A k \in DOMAIN jobs' : Completed(k)
    BY <1>1, <1>4, FetchEffect
  <2>4. QED
    BY <2>1, <2>2, <2>3
<1>5. ASSUME NEW w \in Workers, LookupFinds(w, Data(w)), UNCHANGED <<jobs, cur>> PROVE Goal
  <2>1. PICK v \in KeyMatches(Data(w)) : result' = [result EXCEPT ![w] = v]
    BY <1>5 DEF LookupFinds
  <2>2. PICK j : j = cur[w]
    OBVIOUS
  <2>3. j \in DOMAIN jobs /\ bookings' = bookings
    BY <1>5, <2>2, DataType DEF LookupFinds
  <2>4. Data(w).key # NoKey
    BY <1>5 DEF JobLocals, LookupFinds
  <2>5. Answers(j, v)
    BY <2>1, <2>2, <2>4 DEF Answers, KeyMatches, Data
  <2>6. Answers(j, v)'
    BY <1>5, <2>3, <2>5 DEF Answers, BookingIds
  <2>7. Answer(w)
    BY <1>0, <1>5, <2>1, <2>2, <2>6 DEF ControlTypeOK
  <2>8. \A x \in Workers : x # w => Answer(x)
    BY <1>0, <1>1, <1>5, <2>1 DEF ControlTypeOK
  <2>9. QED
    BY <1>1, <1>5, <2>7, <2>8
<1>6. ASSUME NEW w \in Workers, Commit(w, Data(w), cur[w]), UNCHANGED <<jobs, cur>> PROVE Goal
  <2>1. PICK j, n : j = cur[w] /\ n = Len(bookings) + 1
    OBVIOUS
  <2>2. Answers(j, n)'
    BY <1>6, <2>1, CommitAnswers
  <2>3. result' = [result EXCEPT ![w] = n]
    BY <1>6, <2>1 DEF Commit
  <2>4. Answer(w)
    BY <1>0, <1>6, <2>1, <2>2, <2>3 DEF ControlTypeOK
  <2>5. \A x \in Workers : x # w => Answer(x)
    BY <1>0, <1>1, <1>6, <2>3 DEF ControlTypeOK
  <2>6. QED
    BY <1>1, <1>6, <2>4, <2>5
<1>7. ASSUME NEW w \in Workers, CommitUnacknowledged(w, Data(w), cur[w]), UNCHANGED <<jobs, cur>>
      PROVE  Goal
  BY <1>1, <1>7 DEF CommitUnacknowledged, CatchError
<1>8. ASSUME NEW w \in Workers, Report(w) PROVE Goal
  <2>1. \A x \in Workers : Answer(x)
    BY <1>0, <1>1, <1>8, ReportEffect DEF ControlTypeOK
  <2>2. PICK j, v : j = cur[w] /\ v = result[w]
    OBVIOUS
  <2>3. CASE ~Owns(w, j)
    BY <1>1, <1>8, <2>1, <2>2, <2>3, ReportEffect
  <2>4. CASE Owns(w, j) /\ v # 0
    <3>1. jobs'[j].value = v /\ DOMAIN jobs' = DOMAIN jobs /\ j \in DOMAIN jobs
      BY <1>8, <2>2, <2>4, ReportEffect
    <3>2. Answers(j, v)'
      BY <2>2, <2>4, <3>1, AnswerKept DEF AnswersRight
    <3>3. Completed(j)
      BY <3>1, <3>2
    <3>4. \A k \in DOMAIN jobs : k # j => Completed(k)
      BY <1>1, <1>8, <2>2, ReportEffect
    <3>5. QED
      BY <2>1, <3>1, <3>3, <3>4
  <2>5. CASE Owns(w, j) /\ v = 0
    BY <1>1, <1>8, <2>1, <2>2, <2>5, ReportEffect
  <2>6. QED
    BY <2>3, <2>4, <2>5
<1>9. ASSUME NEW w \in Workers, Crash(w) PROVE Goal
  BY <1>0, <1>1, <1>9 DEF Crash, Leave, ControlTypeOK
<1>10. ASSUME NEW j \in DOMAIN jobs, StallDetected(j) PROVE Goal
  BY <1>1, <1>10, StallEffect
<1>11. Goal
  BY <1>2, <1>3, <1>4, <1>5, <1>6, <1>7, <1>8, <1>9, <1>10, WorkCases
<1>12. QED
  BY <1>11 DEF AnswersRight

\* Every completed job has the booking it returned.
THEOREM CompletedJobsHaveBookings == Spec => []CompletedHasBooking
<1> DEFINE I == JobLocals /\ AnswersRight
<1>1. Init => I
  BY DEF Init, QueueInit, ServiceInit, JobLocals, AnswersRight
<1>2. TypeInv /\ I /\ [Next]_vars => I'
  BY JobLocalsStep, AnswersStep
<1>3. I => CompletedHasBooking
  BY DEF AnswersRight, Answers, CompletedHasBooking
<1>4. QED
  BY <1>1, <1>2, <1>3, TypeCorrect, PTL DEF Spec

-----------------------------------------------------------------------------
(* How often a job books *)

LEMMA WorkersOwnStep ==
    ASSUME TypeInv, JobLocals, WorkersOwn, [Next]_vars
    PROVE  WorkersOwn'
<1> SUFFICES ASSUME NEW w \in Workers, cur'[w] # 0, jobs'[cur'[w]].stalls = 0
             PROVE  Owns(w, cur[w])'
  BY DEF WorkersOwn
<1>0. /\ ControlTypeOK /\ Nobody \notin Workers
      /\ \A x \in Workers : cur[x] # 0 => cur[x] \in DOMAIN jobs
  BY ParticipantsAssumption
     DEF TypeInv, TypeOK, ServiceTypeOK, ControlTypeOK, References, JobLocals
<1>1. ASSUME cur'[w] = cur[w], jobs'[cur[w]] = jobs[cur[w]] PROVE Owns(w, cur[w])'
  BY <1>1 DEF WorkersOwn, Owns
<1>2. CASE UNCHANGED <<jobs, cur>>
  BY <1>1, <1>2
<1>3. ASSUME NEW d \in Requests, RequestBooking(d) PROVE Owns(w, cur[w])'
  BY <1>0, <1>1, <1>3, EnqueueEffect
<1>4. ASSUME NEW x \in Workers, NEW j \in DOMAIN jobs, Fetch(x, j) PROVE Owns(w, cur[w])'
  <2>1. CASE x = w
    BY <1>0, <1>4, <2>1, FetchEffect DEF Owns, ControlTypeOK
  <2>2. CASE x # w
    <3>1. cur'[w] = cur[w]
      BY <1>0, <1>4, <2>2, FetchEffect DEF ControlTypeOK
    <3>2. CASE cur[w] = j
      <4>1. jobs[j].stalls = 0 /\ jobs[j].state = "waiting"
        BY <1>4, <3>1, <3>2, FetchEffect
      <4>2. QED
        BY <3>1, <3>2, <4>1 DEF WorkersOwn, Owns
    <3>3. CASE cur[w] # j
      BY <1>0, <1>1, <1>4, <3>1, <3>3, FetchEffect
    <3>4. QED
      BY <3>2, <3>3
  <2>3. QED
    BY <2>1, <2>2
<1>5. ASSUME NEW x \in Workers, Report(x) PROVE Owns(w, cur[w])'
  <2>1. x # w /\ cur'[w] = cur[w]
    BY <1>0, <1>5, ReportEffect DEF ControlTypeOK
  <2>2. CASE cur[w] = cur[x]
    <3>1. jobs[cur[w]].stalls = 0 /\ Owns(w, cur[w])
      BY <1>0, <1>5, <2>1, <2>2, ReportEffect DEF WorkersOwn
    <3>2. ~Owns(x, cur[x])
      BY <2>1, <2>2, <3>1 DEF Owns
    <3>3. QED
      BY <1>1, <1>5, <2>1, <3>2, ReportEffect
  <2>3. CASE cur[w] # cur[x]
    BY <1>0, <1>1, <1>5, <2>1, <2>3, ReportEffect
  <2>4. QED
    BY <2>2, <2>3
<1>6. ASSUME NEW x \in Workers, Crash(x) PROVE Owns(w, cur[w])'
  BY <1>0, <1>1, <1>6 DEF Crash, Leave, ControlTypeOK
<1>7. ASSUME NEW j \in DOMAIN jobs, StallDetected(j) PROVE Owns(w, cur[w])'
  BY <1>0, <1>1, <1>7, StallEffect
<1>8. QED
  BY <1>2, <1>3, <1>4, <1>5, <1>6, <1>7, WorkCases DEF SameWork

\* The ways a step may add bookings.
LEMMA BookingsOfStep ==
    ASSUME TypeInv, [Next]_vars,
           DOMAIN bookings' = DOMAIN bookings, NEW j
    PROVE  BookingsOf(j)' = BookingsOf(j)
BY TableStep DEF BookingsOf, BookingIds, BookingsKept

LEMMA BookingsOfInsert ==
    ASSUME TypeInv, [Next]_vars, NEW w \in Workers, pc[w] = "commit", WriteBooking(Data(w), cur[w]),
           NEW j, NEW n, n = Len(bookings) + 1
    PROVE  /\ n \notin BookingsOf(j)
           /\ BookingsOf(j)' = IF j = cur[w] THEN BookingsOf(j) \cup {n} ELSE BookingsOf(j)
<1>1. n \notin BookingIds
  BY DEF BookingIds, TypeInv, TypeOK, ServiceTypeOK
<1>2. /\ BookingIds' = BookingIds \cup {n} /\ bookings'[n] = NewBooking(Data(w), cur[w])
      /\ \A b \in BookingIds : bookings'[b] = bookings[b]
  BY InsertEffect DEF BookingIds
<1>3. bookings'[n].job = cur[w]
  BY <1>2 DEF NewBooking
<1>4. QED
  BY <1>1, <1>2, <1>3 DEF BookingsOf

LEMMA BookedForJobsStep ==
    ASSUME TypeInv, BookedForJobs, [Next]_vars
    PROVE  BookedForJobs'
<1>1. \A b \in DOMAIN bookings : bookings'[b].job \in DOMAIN jobs'
  BY QueueStep, TableStep DEF BookedForJobs, BookingIds, JobsKept, BookingsKept
<1>2. CASE UNCHANGED <<available, bookings>>
  BY <1>1, <1>2 DEF BookedForJobs, BookingIds
<1>3. ASSUME NEW w \in Workers, pc[w] = "commit", WriteBooking(Data(w), cur[w])
      PROVE  BookedForJobs'
  <2>1. cur[w] \in DOMAIN jobs'
    BY <1>3, DataType, QueueStep DEF JobsKept
  <2>2. PICK n : n = Len(bookings) + 1
    OBVIOUS
  <2>3. DOMAIN bookings' = DOMAIN bookings \cup {n} /\ bookings'[n] = NewBooking(Data(w), cur[w])
    BY <1>3, <2>2, InsertEffect
  <2>4. bookings'[n].job = cur[w]
    BY <2>3 DEF NewBooking
  <2>5. QED
    BY <1>1, <2>1, <2>3, <2>4 DEF BookedForJobs, BookingIds
<1>4. ASSUME NEW c \in Cancellers, CancelCommit(c) PROVE BookedForJobs'
  BY <1>1, <1>4, CancelEffect DEF BookedForJobs, BookingIds
<1>5. QED
  BY <1>2, <1>3, <1>4, TableCases

LEMMA BookedOnceStep ==
    ASSUME TypeInv, JobLocals, WorkersOwn, BookedForJobs, BookedOnce, [Next]_vars
    PROVE  BookedOnce'
<1> DEFINE Once(j) == jobs[j].stalls = 0 /\ BookingsOf(j) # {} =>
                         \/ jobs[j].state = "completed"
                         \/ /\ jobs[j].state = "active"
                            /\ \A w \in Workers : cur[w] = j => result[w] # 0
<1> SUFFICES ASSUME lostAcks' = 0, NEW j \in DOMAIN jobs', jobs'[j].stalls = 0,
                    BookingsOf(j)' # {}
             PROVE  \/ jobs'[j].state = "completed"
                    \/ /\ jobs'[j].state = "active"
                       /\ \A w \in Workers : cur'[w] = j => result'[w] # 0
  BY DEF BookedOnce
<1> DEFINE Goal == \/ jobs'[j].state = "completed"
                   \/ /\ jobs'[j].state = "active"
                      /\ \A w \in Workers : cur'[w] = j => result'[w] # 0
<1>0. /\ ControlTypeOK /\ lostAcks = 0 /\ jobs \in Seq(Job) /\ bookings \in Seq(Booking)
      /\ \A k \in DOMAIN jobs : Once(k)
      /\ \A x \in Workers : cur[x] # 0 => cur[x] \in DOMAIN jobs
      /\ 0 \notin DOMAIN jobs
  BY GhostsGrow
     DEF BookedOnce, TypeInv, TypeOK, QueueTypeOK, ServiceTypeOK, ControlTypeOK, References, JobLocals
<1>1. DOMAIN bookings' = DOMAIN bookings => BookingsOf(j)' = BookingsOf(j)
  BY BookingsOfStep
<1>2. ASSUME SameWork PROVE Goal
  BY <1>0, <1>1, <1>2 DEF SameWork
<1>3. ASSUME NEW d \in Requests, RequestBooking(d) PROVE Goal
  <2>1. BookingsOf(j) = BookingsOf(j)' /\ UNCHANGED <<cur, result>>
    BY <1>1, <1>3, EnqueueEffect
  <2>2. j \in DOMAIN jobs
    BY <2>1 DEF BookedForJobs, BookingsOf
  <2>3. QED
    BY <1>0, <1>3, <2>1, <2>2, EnqueueEffect
<1>4. ASSUME NEW w \in Workers, NEW k \in DOMAIN jobs, Fetch(w, k) PROVE Goal
  <2>1. BookingsOf(j) = BookingsOf(j)' /\ j \in DOMAIN jobs
    BY <1>1, <1>4, FetchEffect
  <2>2. j # k
    BY <1>0, <1>4, <2>1, FetchEffect
  <2>3. QED
    BY <1>0, <1>4, <2>1, <2>2, FetchEffect DEF ControlTypeOK
<1>5. ASSUME NEW w \in Workers, LookupFinds(w, Data(w)), UNCHANGED <<jobs, cur>> PROVE Goal
  <2>1. PICK v \in DOMAIN bookings : result' = [result EXCEPT ![w] = v]
    BY <1>5 DEF LookupFinds, KeyMatches, BookingIds
  <2>2. v # 0
    BY <1>0
  <2>3. BookingsOf(j) = BookingsOf(j)'
    BY <1>1, <1>5 DEF LookupFinds
  <2>4. QED
    BY <1>0, <1>5, <2>1, <2>2, <2>3 DEF ControlTypeOK
<1>6. ASSUME NEW w \in Workers, Commit(w, Data(w), cur[w]), UNCHANGED <<jobs, cur>> PROVE Goal
  <2>1. PICK n : n = Len(bookings) + 1
    OBVIOUS
  <2>2. result' = [result EXCEPT ![w] = n] /\ n # 0
    BY <1>0, <1>6, <2>1 DEF Commit
  <2>3. CASE j = cur[w]
    <3>1. \A x \in Workers : cur[x] = j => Owns(x, j)
      BY <1>0, <1>6, <2>3 DEF WorkersOwn
    <3>2. QED
      BY <1>0, <1>6, <2>2, <2>3, <3>1 DEF Owns, ControlTypeOK
  <2>4. CASE j # cur[w]
    <3>1. BookingsOf(j)' = BookingsOf(j)
      BY <1>6, <2>1, <2>4, BookingsOfInsert DEF Commit
    <3>2. QED
      BY <1>0, <1>6, <2>2, <2>4, <3>1 DEF ControlTypeOK
  <2>5. QED
    BY <2>3, <2>4
<1>7. ASSUME NEW w \in Workers, CommitUnacknowledged(w, Data(w), cur[w]) PROVE Goal
  BY <1>0, <1>7 DEF CommitUnacknowledged
<1>8. ASSUME NEW w \in Workers, Report(w) PROVE Goal
  <2>1. BookingsOf(j) = BookingsOf(j)' /\ j \in DOMAIN jobs
    BY <1>1, <1>8, ReportEffect
  <2>2. \A x \in Workers : cur'[x] = j => x # w /\ cur[x] = j /\ result'[x] = result[x]
    BY <1>0, <1>8, <2>1, ReportEffect DEF ControlTypeOK
  <2>3. CASE j # cur[w] \/ ~Owns(w, cur[w])
    BY <1>0, <1>8, <2>1, <2>2, <2>3, ReportEffect
  <2>4. CASE j = cur[w] /\ Owns(w, cur[w])
    <3>1. Once(j) /\ jobs[j].stalls = 0 /\ jobs[j].state = "active"
      BY <1>0, <1>8, <2>1, <2>4, ReportEffect DEF Owns
    <3>2. result[w] # 0
      BY <2>1, <2>4, <3>1
    <3>3. QED
      BY <1>8, <2>4, <3>2, ReportEffect
  <2>5. QED
    BY <2>3, <2>4
<1>9. ASSUME NEW w \in Workers, Crash(w) PROVE Goal
  <2>1. BookingsOf(j) = BookingsOf(j)' /\ jobs' = jobs
    BY <1>1, <1>9 DEF Crash, Leave
  <2>2. \A x \in Workers : cur'[x] = j => cur[x] = j /\ result'[x] = result[x]
    BY <1>0, <1>9, <2>1 DEF Crash, Leave, ControlTypeOK
  <2>3. QED
    BY <1>0, <2>1, <2>2
<1>10. ASSUME NEW k \in DOMAIN jobs, StallDetected(k) PROVE Goal
  <2>1. BookingsOf(j) = BookingsOf(j)' /\ j \in DOMAIN jobs /\ UNCHANGED <<cur, result>>
    BY <1>1, <1>10, StallEffect
  <2>2. j # k
    <3>1. jobs'[k].stalls = jobs[k].stalls + 1 /\ jobs[k].stalls \in Nat
      BY <1>10, StallEffect
    <3>2. QED
      BY <3>1
  <2>3. QED
    BY <1>0, <1>10, <2>1, <2>2, StallEffect
<1>11. QED
  BY <1>2, <1>3, <1>4, <1>5, <1>6, <1>7, <1>8, <1>9, <1>10, WorkCases

\* A job that failed without a stall and without a lost acknowledgement has
\* booked nothing.
THEOREM FailedJobsHaveNoBooking == Spec => []FailedHasNoBooking
<1> DEFINE I == JobLocals /\ WorkersOwn /\ BookedForJobs /\ BookedOnce
<1>1. Init => I
  BY DEF Init, QueueInit, ServiceInit, JobLocals, WorkersOwn, BookedForJobs, BookedOnce, BookingIds
<1>2. TypeInv /\ I /\ [Next]_vars => I'
  BY JobLocalsStep, WorkersOwnStep, BookedForJobsStep, BookedOnceStep
<1>3. I => FailedHasNoBooking
  BY DEF BookedOnce, BookingsOf, FailedHasNoBooking
<1>4. QED
  BY <1>1, <1>2, <1>3, TypeCorrect, PTL DEF Spec

\* Taking a worker off a job frees the booking it might have made.
LEMMA PendingShrinks ==
    ASSUME NEW P, IsFiniteSet(P), NEW w
    PROVE  /\ IsFiniteSet(P \ {w})
           /\ Cardinality(P) \in Nat
           /\ Cardinality(P \ {w}) = IF w \in P THEN Cardinality(P) - 1 ELSE Cardinality(P)
           /\ Cardinality(P \ {w}) <= Cardinality(P)
BY FS_RemoveElement, FS_CardinalityType

LEMMA BookingsOfFinite ==
    ASSUME TypeInv, NEW j
    PROVE  IsFiniteSet(BookingsOf(j)) /\ Cardinality(BookingsOf(j)) \in Nat
<1>1. BookingsOf(j) \in SUBSET BookingIds
  BY DEF BookingsOf
<1>2. QED
  BY <1>1, BookingIdsFinite, FS_CardinalityType

\* What a commit does to the bookings and the workers of job j.
LEMMA BudgetInsert ==
    ASSUME TypeInv, JobLocals, [Next]_vars,
           NEW w \in Workers, pc[w] = "commit", WriteBooking(Data(w), cur[w]), NEW j
    PROVE  /\ IsFiniteSet(BookingsOf(j)')
           /\ Cardinality(BookingsOf(j)') =
                 IF j = cur[w] THEN Cardinality(BookingsOf(j)) + 1 ELSE Cardinality(BookingsOf(j))
           /\ j = cur[w] <=> w \in Pending(j)
<1>1. PICK n : n = Len(bookings) + 1
  OBVIOUS
<1>2. /\ n \notin BookingsOf(j)
      /\ BookingsOf(j)' = IF j = cur[w] THEN BookingsOf(j) \cup {n} ELSE BookingsOf(j)
  BY <1>1, BookingsOfInsert
<1>3. result[w] = 0
  BY DEF JobLocals
<1>4. IsFiniteSet(BookingsOf(j)) /\ (j = cur[w] <=> w \in Pending(j))
  BY <1>3, BookingsOfFinite DEF Pending
<1>5. CASE j = cur[w]
  <2>1. BookingsOf(j)' = BookingsOf(j) \cup {n}
    BY <1>2, <1>5
  <2>2. Cardinality(BookingsOf(j) \cup {n}) = Cardinality(BookingsOf(j)) + 1
        /\ IsFiniteSet(BookingsOf(j) \cup {n})
    BY <1>2, <1>4, FS_AddElement
  <2>3. QED
    BY <1>4, <1>5, <2>1, <2>2
<1>6. CASE j # cur[w]
  BY <1>2, <1>4, <1>6
<1>7. QED
  BY <1>5, <1>6

LEMMA JobBudgetStep ==
    ASSUME TypeInv, JobLocals, BookedForJobs, JobBudget, [Next]_vars
    PROVE  JobBudget'
<1> DEFINE Fits(j) == /\ IsFiniteSet(Pending(j))
                      /\ Cardinality(BookingsOf(j)) + Cardinality(Pending(j)) + Queued(j) <= Allowed(j)
<1> SUFFICES ASSUME NEW j \in DOMAIN jobs' PROVE Fits(j)'
  BY DEF JobBudget
<1>0. /\ ControlTypeOK /\ jobs \in Seq(Job) /\ lostAcks \in Nat /\ bookings \in Seq(Booking)
      /\ \A k \in DOMAIN jobs : Fits(k)
      /\ \A k \in DOMAIN jobs : jobs[k].stalls \in Nat
      /\ \A x \in Workers : cur[x] # 0 => cur[x] \in DOMAIN jobs
      /\ 0 \notin DOMAIN jobs
  <2>1. \A k \in DOMAIN jobs : jobs[k] \in Job
    BY JobChanges
  <2>2. QED
    BY <2>1
       DEF JobBudget, TypeInv, TypeOK, QueueTypeOK, ServiceTypeOK, ControlTypeOK, References,
           JobLocals, Job
<1>1. /\ Cardinality(BookingsOf(j)) \in Nat
      /\ IsFiniteSet(Pending(j)) => Cardinality(Pending(j)) \in Nat
      /\ DOMAIN bookings' = DOMAIN bookings => BookingsOf(j)' = BookingsOf(j)
      /\ Queued(j) \in {0, 1} /\ Queued(j)' \in {0, 1}
      /\ j \in DOMAIN jobs => Allowed(j) \in Nat
  BY <1>0, BookingsOfStep, BookingsOfFinite, FS_CardinalityType DEF Queued, Allowed
<1>2. ASSUME SameWork PROVE Fits(j)'
  <2>1. BookingsOf(j)' = BookingsOf(j) /\ Pending(j)' = Pending(j) /\ j \in DOMAIN jobs
    BY <1>1, <1>2 DEF SameWork, Pending
  <2>2. Queued(j)' = Queued(j) /\ Allowed(j)' = Allowed(j)
    BY <1>2 DEF SameWork, Queued, Allowed
  <2>3. QED
    BY <1>0, <2>1, <2>2
<1>3. ASSUME NEW d \in Requests, RequestBooking(d) PROVE Fits(j)'
  <2>1. BookingsOf(j)' = BookingsOf(j) /\ Pending(j)' = Pending(j)
    BY <1>1, <1>3, EnqueueEffect DEF Pending
  <2>2. CASE j \in DOMAIN jobs
    <3>1. Queued(j)' = Queued(j) /\ Allowed(j)' = Allowed(j)
      BY <1>3, <2>2, EnqueueEffect DEF Queued, Allowed
    <3>2. QED
      BY <1>0, <2>1, <2>2, <3>1
  <2>3. CASE j \notin DOMAIN jobs
    <3>1. BookingsOf(j) = {} /\ Pending(j) = {}
      <4>1. j # 0
        BY <1>0, <1>3, EnqueueEffect
      <4>2. QED
        BY <1>0, <2>3, <4>1 DEF BookedForJobs, BookingsOf, Pending
    <3>2. Queued(j)' = 1 /\ Allowed(j)' = 1 + lostAcks
      BY <1>0, <1>3, <2>3, EnqueueEffect DEF Queued, Allowed
    <3>3. QED
      BY <1>0, <2>1, <3>1, <3>2, FS_EmptySet
  <2>4. QED
    BY <2>2, <2>3
<1>4. ASSUME NEW w \in Workers, NEW k \in DOMAIN jobs, Fetch(w, k) PROVE Fits(j)'
  <2>1. BookingsOf(j)' = BookingsOf(j) /\ j \in DOMAIN jobs /\ Allowed(j)' = Allowed(j)
    BY <1>1, <1>4, FetchEffect DEF Allowed
  <2>2. cur[w] = 0 /\ result[w] = 0
    BY <1>4, FetchEffect DEF JobLocals
  <2>3. CASE j = k
    <3>1. Queued(j) = 1 /\ Queued(j)' = 0
      BY <1>4, <2>3, FetchEffect DEF Queued
    <3>2. Pending(j)' = Pending(j) \cup {w} /\ w \notin Pending(j)
      BY <1>0, <1>4, <2>1, <2>2, <2>3, FetchEffect DEF Pending, ControlTypeOK
    <3>3. IsFiniteSet(Pending(j)')
          /\ Cardinality(Pending(j)') = Cardinality(Pending(j)) + 1
      BY <1>0, <2>1, <3>2, FS_AddElement
    <3>4. QED
      BY <1>0, <1>1, <2>1, <3>1, <3>3
  <2>4. CASE j # k
    <3>1. Queued(j)' = Queued(j)
      BY <1>4, <2>1, <2>4, FetchEffect DEF Queued
    <3>2. Pending(j)' = Pending(j)
      BY <1>0, <1>4, <2>1, <2>2, <2>4, FetchEffect DEF Pending, ControlTypeOK
    <3>3. QED
      BY <1>0, <2>1, <3>1, <3>2
  <2>5. QED
    BY <2>3, <2>4
<1>5. ASSUME NEW w \in Workers, LookupFinds(w, Data(w)), UNCHANGED <<jobs, cur>> PROVE Fits(j)'
  <2>1. /\ BookingsOf(j)' = BookingsOf(j) /\ j \in DOMAIN jobs
        /\ Queued(j)' = Queued(j) /\ Allowed(j)' = Allowed(j)
    BY <1>1, <1>5 DEF LookupFinds, Queued, Allowed
  <2>2. PICK v \in DOMAIN bookings : result' = [result EXCEPT ![w] = v]
    BY <1>5 DEF LookupFinds, KeyMatches, BookingIds
  <2>3. Pending(j)' = Pending(j) \ {w}
    BY <1>0, <1>5, <2>2 DEF Pending, ControlTypeOK
  <2>4. IsFiniteSet(Pending(j)') /\ Cardinality(Pending(j)') <= Cardinality(Pending(j))
    <3>1. IsFiniteSet(Pending(j))
      BY <1>0, <2>1
    <3>2. IsFiniteSet(Pending(j) \ {w}) /\ Cardinality(Pending(j) \ {w}) <= Cardinality(Pending(j))
      BY <3>1, PendingShrinks
    <3>3. QED
      BY <2>3, <3>2
  <2>5. Cardinality(Pending(j)') \in Nat
    BY <2>4, FS_CardinalityType
  <2>6. QED
    BY <1>0, <1>1, <2>1, <2>4, <2>5
<1>6. ASSUME NEW w \in Workers, Commit(w, Data(w), cur[w]), UNCHANGED <<jobs, cur>> PROVE Fits(j)'
  <2>1. j \in DOMAIN jobs /\ Queued(j)' = Queued(j) /\ Allowed(j)' = Allowed(j)
    BY <1>6 DEF Commit, Queued, Allowed
  <2>2. /\ Cardinality(BookingsOf(j)') =
              IF j = cur[w] THEN Cardinality(BookingsOf(j)) + 1 ELSE Cardinality(BookingsOf(j))
        /\ j = cur[w] <=> w \in Pending(j)
    BY <1>6, BudgetInsert DEF Commit
  <2>3. Pending(j)' = Pending(j) \ {w}
    BY <1>0, <1>6 DEF Pending, Commit, ControlTypeOK
  <2>4. /\ IsFiniteSet(Pending(j)')
        /\ Cardinality(Pending(j)') = IF j = cur[w] THEN Cardinality(Pending(j)) - 1
                                                   ELSE Cardinality(Pending(j))
    BY <1>0, <2>1, <2>2, <2>3, PendingShrinks
  <2>5. QED
    BY <1>0, <1>1, <2>1, <2>2, <2>4
<1>7. ASSUME NEW w \in Workers, CommitUnacknowledged(w, Data(w), cur[w]), UNCHANGED <<jobs, cur>>
      PROVE  Fits(j)'
  <2>1. /\ j \in DOMAIN jobs /\ Queued(j)' = Queued(j) /\ Allowed(j)' = Allowed(j) + 1
    <3>1. jobs' = jobs /\ lostAcks' = lostAcks + 1
      BY <1>7 DEF CommitUnacknowledged
    <3>2. j \in DOMAIN jobs /\ jobs[j].stalls \in Nat /\ lostAcks \in Nat
      BY <1>0, <3>1
    <3>3. Queued(j)' = Queued(j)
      BY <3>1 DEF Queued
    <3>4. Allowed(j)' = Allowed(j) + 1
      BY <3>1, <3>2 DEF Allowed
    <3>5. QED
      BY <3>1, <3>2, <3>3, <3>4
  <2>2. Cardinality(BookingsOf(j)') =
              IF j = cur[w] THEN Cardinality(BookingsOf(j)) + 1 ELSE Cardinality(BookingsOf(j))
    BY <1>7, BudgetInsert DEF CommitUnacknowledged
  <2>3. Pending(j)' = Pending(j)
    BY <1>7 DEF Pending, CommitUnacknowledged, CatchError
  <2>4. QED
    BY <1>0, <1>1, <2>1, <2>2, <2>3
<1>8. ASSUME NEW w \in Workers, Report(w) PROVE Fits(j)'
  <2>1. BookingsOf(j)' = BookingsOf(j) /\ j \in DOMAIN jobs /\ Allowed(j)' = Allowed(j)
    BY <1>1, <1>8, ReportEffect DEF Allowed
  <2>2. Pending(j)' = Pending(j) \ {w}
    BY <1>0, <1>8, <2>1, ReportEffect DEF Pending, ControlTypeOK
  <2>3. Queued(j)' <= Queued(j) + (IF w \in Pending(j) THEN 1 ELSE 0)
    <3>1. CASE j # cur[w] \/ ~Owns(w, cur[w])
      BY <1>8, <2>1, <3>1, ReportEffect DEF Queued
    <3>2. CASE j = cur[w] /\ result[w] # 0 /\ Owns(w, cur[w])
      BY <1>8, <2>1, <3>2, ReportEffect DEF Queued
    <3>3. CASE j = cur[w] /\ result[w] = 0
      BY <3>3 DEF Queued, Pending
    <3>4. QED
      BY <3>1, <3>2, <3>3
  <2>4. /\ IsFiniteSet(Pending(j)')
        /\ Cardinality(Pending(j)') = IF w \in Pending(j) THEN Cardinality(Pending(j)) - 1
                                                          ELSE Cardinality(Pending(j))
    BY <1>0, <2>1, <2>2, PendingShrinks
  <2>5. QED
    BY <1>0, <1>1, <2>1, <2>3, <2>4
<1>9. ASSUME NEW w \in Workers, Crash(w) PROVE Fits(j)'
  <2>1. /\ BookingsOf(j)' = BookingsOf(j) /\ j \in DOMAIN jobs
        /\ Queued(j)' = Queued(j) /\ Allowed(j)' = Allowed(j)
    BY <1>1, <1>9 DEF Crash, Leave, Queued, Allowed
  <2>2. Pending(j)' = Pending(j) \ {w}
    BY <1>0, <1>9, <2>1 DEF Crash, Leave, Pending, ControlTypeOK
  <2>3. IsFiniteSet(Pending(j)') /\ Cardinality(Pending(j)') <= Cardinality(Pending(j))
    <3>1. IsFiniteSet(Pending(j))
      BY <1>0, <2>1
    <3>2. IsFiniteSet(Pending(j) \ {w}) /\ Cardinality(Pending(j) \ {w}) <= Cardinality(Pending(j))
      BY <3>1, PendingShrinks
    <3>3. QED
      BY <2>2, <3>2
  <2>4. Cardinality(Pending(j)') \in Nat
    BY <2>3, FS_CardinalityType
  <2>5. QED
    BY <1>0, <1>1, <2>1, <2>3, <2>4
<1>10. ASSUME NEW k \in DOMAIN jobs, StallDetected(k) PROVE Fits(j)'
  <2>1. BookingsOf(j)' = BookingsOf(j) /\ Pending(j)' = Pending(j) /\ j \in DOMAIN jobs
    BY <1>1, <1>10, StallEffect DEF Pending
  <2>2. CASE j # k
    <3>1. Queued(j)' = Queued(j) /\ Allowed(j)' = Allowed(j)
      BY <1>10, <2>1, <2>2, StallEffect DEF Queued, Allowed
    <3>2. QED
      BY <1>0, <2>1, <3>1
  <2>3. CASE j = k
    <3>1. Queued(j) = 0
      BY <1>10, <2>3, StallEffect DEF Queued
    <3>2. /\ jobs'[j].stalls = jobs[j].stalls + 1 /\ jobs[j].stalls \in Nat
          /\ lostAcks' = lostAcks
      BY <1>10, <2>3, StallEffect
    <3>3. Allowed(j)' = Allowed(j) + 1
      BY <1>0, <3>2 DEF Allowed
    <3>4. QED
      BY <1>0, <1>1, <2>1, <3>1, <3>3
  <2>4. QED
    BY <2>2, <2>3
<1>11. QED
  BY <1>2, <1>3, <1>4, <1>5, <1>6, <1>7, <1>8, <1>9, <1>10, WorkCases

\* However often a job is redelivered and createBooking retries, it books once,
\* and once more at most for each stall and each lost acknowledgement.
THEOREM JobsBookWithinBudget == Spec => []BookingsPerJob
<1> DEFINE I == JobLocals /\ BookedForJobs /\ JobBudget
<1>1. Init => I
  BY DEF Init, QueueInit, ServiceInit, JobLocals, BookedForJobs, JobBudget, BookingIds
<1>2. TypeInv /\ I /\ [Next]_vars => I'
  BY JobLocalsStep, BookedForJobsStep, JobBudgetStep
<1>3. TypeInv /\ I => BookingsPerJob
  <2> SUFFICES ASSUME TypeInv, JobBudget, NEW j \in DOMAIN jobs
               PROVE  Cardinality(BookingsOf(j)) <= 1 + jobs[j].stalls + lostAcks
    BY DEF BookingsPerJob, BookingsOf
  <2>1. jobs[j].stalls \in Nat /\ lostAcks \in Nat
    BY JobChanges DEF Job, TypeInv, TypeOK, ServiceTypeOK
  <2>2. Cardinality(BookingsOf(j)) \in Nat /\ Cardinality(Pending(j)) \in Nat
    BY BookingsOfFinite, FS_CardinalityType DEF JobBudget
  <2>3. QED
    BY <2>1, <2>2 DEF JobBudget, Queued, Allowed
<1>4. QED
  BY <1>1, <1>2, <1>3, TypeCorrect, PTL DEF Spec

-----------------------------------------------------------------------------
(* Refinement.  BookingSystem implements Ticketing where the code has no     *)
(* protection of its own: no lease runs out under its holder, no commit      *)
(* looks failed although it took place, cancellations do not overlap, and    *)
(* nobody names seats.  Crashes, stalls, redelivery, retries, rolled back    *)
(* transactions and any number of workers, users, events and jobs are        *)
(* allowed.                                                                  *)

Protected ==
    /\ MaxLapses = 0
    /\ MaxLostAcks = 0
    /\ \A c1, c2 \in Cancellers : c1 = c2
    /\ \A d \in Requests : ~d.seatLevel

\* What cancelBooking read is still true when it writes.
CancelPending ==
    \A c \in Cancellers : cancelling[c] # 0 => bookings[cancelling[c]].status = "confirmed"

\* The two counters of faults stay at their bounds.
LEMMA NoFaults ==
    ASSUME TypeInv, Protected
    PROVE  lapses = 0 /\ lostAcks = 0
BY DEF TypeInv, TypeOK, LockTypeOK, ServiceTypeOK, Protected

LEMMA CancelPendingStep ==
    ASSUME TypeInv, Protected, CancelPending, [Next]_vars
    PROVE  CancelPending'
<1> SUFFICES ASSUME NEW c \in Cancellers, cancelling'[c] # 0
             PROVE  bookings'[cancelling'[c]].status = "confirmed"
  BY DEF CancelPending
<1>0. /\ cancelling \in [Cancellers -> Nat] /\ bookings \in Seq(Booking)
      /\ \A x \in Cancellers : x = c
  BY DEF TypeInv, TypeOK, ServiceTypeOK, Protected
<1>1. CASE \E u \in Users, b \in BookingIds : CancelRead(c, u, b)
  BY <1>0, <1>1 DEF CancelRead, Cancellable
<1>2. CASE cancelling' = cancelling
  <2>1. cancelling[c] \in DOMAIN bookings /\ bookings[cancelling[c]].status = "confirmed"
    BY <1>2 DEF CancelPending, TypeInv, References
  <2>2. CASE UNCHANGED <<available, bookings>>
    BY <1>2, <2>1, <2>2
  <2>3. ASSUME NEW w \in Workers, pc[w] = "commit", WriteBooking(Data(w), cur[w])
        PROVE  bookings'[cancelling[c]] = bookings[cancelling[c]]
    BY <2>1, <2>3, InsertEffect
  <2>4. ASSUME NEW x \in Cancellers, CancelCommit(x) PROVE FALSE
    BY <1>0, <1>2, <2>4 DEF CancelCommit
  <2>5. QED
    BY <1>2, <2>1, <2>2, <2>3, <2>4, TableCases
<1>3. CASE CancelCommit(c) \/ CancelFails(c)
  BY <1>0, <1>3 DEF CancelCommit, CancelFails
<1>4. cancelling' = cancelling \/ \E x \in Cancellers : RequestCancel(x)
  BY DEF Next, vars, RequestBooking, WorkerStep, Fetch, Acquire, AcquireGivesUp,
         CreateBooking, Release, Report, Crash, LeaseExpires, StallDetected, CallCreateBooking,
         LookupFinds, LookupMisses, LookupFails, ReadAccepts, ReadRefuses, Commit, Leave,
         CommitUnacknowledged, TransactionFails, CatchError, serviceVars
<1>5. QED
  BY <1>0, <1>1, <1>2, <1>3, <1>4 DEF RequestCancel

-----------------------------------------------------------------------------
(* The mapping from rows to tickets *)

TicketRows == [user: Users, event: EventIds, seats: Nat \ {0}, key: Keys \cup {NoKey},
               status: Status]

LEMMA TicketsType ==
    ASSUME NEW rows \in Seq(Booking)
    PROVE  /\ TicketsOf(rows) \in Seq(TicketRows)
           /\ Len(TicketsOf(rows)) = Len(rows)
           /\ DOMAIN TicketsOf(rows) = DOMAIN rows
           /\ \A b \in DOMAIN rows : TicketsOf(rows)[b] = TicketOf(rows[b])
<1>1. \A b \in DOMAIN rows : TicketOf(rows[b]) \in TicketRows
  <2> TAKE b \in DOMAIN rows
  <2>1. rows[b] \in Booking
    OBVIOUS
  <2>2. QED
    BY <2>1 DEF Booking, TicketOf, TicketRows
<1>2. DOMAIN rows = 1 .. Len(rows) /\ Len(rows) \in Nat
  OBVIOUS
<1>3. TicketsOf(rows) \in Seq(TicketRows) /\ Len(TicketsOf(rows)) = Len(rows)
  BY <1>1, <1>2, SeqDef DEF TicketsOf
<1>4. QED
  BY <1>3 DEF TicketsOf

LEMMA TicketsAppend ==
    ASSUME NEW rows \in Seq(Booking), NEW b \in Booking
    PROVE  TicketsOf(Append(rows, b)) = Append(TicketsOf(rows), TicketOf(b))
<1> DEFINE s == TicketsOf(Append(rows, b))
           t == Append(TicketsOf(rows), TicketOf(b))
<1>1. Append(rows, b) \in Seq(Booking) /\ Len(Append(rows, b)) = Len(rows) + 1
  OBVIOUS
<1>2. TicketOf(b) \in TicketRows
  BY DEF Booking, TicketOf, TicketRows
<1>3. s \in Seq(TicketRows) /\ Len(s) = Len(rows) + 1
  BY <1>1, TicketsType
<1>4. TicketsOf(rows) \in Seq(TicketRows) /\ Len(TicketsOf(rows)) = Len(rows)
  BY TicketsType
<1>5. t \in Seq(TicketRows) /\ Len(t) = Len(rows) + 1
  BY <1>2, <1>4
<1>6. \A i \in 1 .. Len(rows) + 1 : s[i] = t[i]
  <2> TAKE i \in 1 .. Len(rows) + 1
  <2>1. s[i] = TicketOf(Append(rows, b)[i])
    <3>1. DOMAIN Append(rows, b) = 1 .. Len(rows) + 1
      BY <1>1
    <3>2. QED
      BY <1>1, <3>1, TicketsType
  <2>2. CASE i \in 1 .. Len(rows)
    <3>1. s[i] = TicketOf(rows[i])
      BY <2>1, <2>2
    <3>2. t[i] = TicketsOf(rows)[i] /\ i \in DOMAIN rows
      BY <1>4, <2>2
    <3>3. QED
      BY <3>1, <3>2, TicketsType
  <2>3. CASE i = Len(rows) + 1
    BY <1>4, <2>1, <2>3
  <2>4. QED
    <3>1. i \in 1 .. Len(rows) \/ i = Len(rows) + 1
      BY <1>1
    <3>2. QED
      BY <2>2, <2>3, <3>1
<1>7. QED
  BY <1>3, <1>5, <1>6, SeqEqual

-----------------------------------------------------------------------------
(* Steps *)

\* The commit of createBooking is a sale.
LEMMA CommitSells ==
    ASSUME TypeInv, Protected, RoomLeft, KeyFresh,
           NEW w \in Workers, pc[w] = "commit", WriteBooking(Data(w), cur[w])
    PROVE  \E d \in Requests : Promise!Sell(d)
<1> DEFINE d == Data(w)
<1>1. /\ d \in Requests /\ d \in CreateBookingInput /\ cur[w] \in Nat /\ d.event \in Events
      /\ bookings \in Seq(Booking)
  <2>1. cur[w] \in DOMAIN jobs /\ jobs[cur[w]] \in Job
    BY DataType, JobChanges
  <2>2. QED
    BY <2>1, DataType DEF Data, Job, WriteBooking, TypeInv, TypeOK, ServiceTypeOK
<1>2. ~d.seatLevel
  BY <1>1 DEF Protected
<1>3. available[d.event] >= d.seats
  BY <1>2, NoFaults DEF RoomLeft
<1>4. ~Promise!KeyUsed(d)
  <2>1. d.key # NoKey => KeyMatches(d) = {}
    BY NoFaults DEF KeyFresh
  <2>2. \A b \in DOMAIN bookings : TicketsOf(bookings)[b] = TicketOf(bookings[b])
    BY <1>1, TicketsType
  <2>3. DOMAIN TicketsOf(bookings) = DOMAIN bookings
    BY <1>1, TicketsType
  <2>4. QED
    BY <2>1, <2>2, <2>3 DEF Promise!KeyUsed, KeyMatches, BookingIds, TicketOf
<1>5. available' = [available EXCEPT ![d.event] = @ - d.seats]
  BY <1>2 DEF WriteBooking, Decremented
<1>6. TicketsOf(bookings') = Append(TicketsOf(bookings), Promise!Ticket(d, "confirmed"))
  <2>1. NewBooking(d, cur[w]) \in Booking
    BY <1>1 DEF NewBooking, Booking, CreateBookingInput, Status, WriteBooking, Unset
  <2>2. TicketOf(NewBooking(d, cur[w])) = Promise!Ticket(d, "confirmed")
    BY DEF TicketOf, NewBooking, Promise!Ticket
  <2>3. QED
    BY <1>1, <2>1, <2>2, TicketsAppend DEF WriteBooking
<1>7. QED
  BY <1>1, <1>3, <1>4, <1>5, <1>6 DEF Promise!Sell

\* The commit of cancelBooking is a refund.
LEMMA CancelRefunds ==
    ASSUME TypeInv, CancelPending, NEW c \in Cancellers, CancelCommit(c)
    PROVE  \E t \in DOMAIN TicketsOf(bookings) : Promise!Refund(t)
<1> DEFINE t == cancelling[c]
           old == TicketsOf(bookings)
           r == [bookings[t] EXCEPT !.status = "cancelled", !.refunds = bookings[t].refunds + 1]
<1>1. /\ bookings \in Seq(Booking) /\ t \in DOMAIN bookings /\ bookings[t] \in Booking
      /\ bookings[t].status = "confirmed"
  BY DEF CancelCommit, CancelPending, TypeInv, TypeOK, ServiceTypeOK, References
<1>2. /\ DOMAIN old = DOMAIN bookings
      /\ \A b \in DOMAIN bookings : old[b] = TicketOf(bookings[b])
  BY <1>1, TicketsType
<1>3. old[t] = TicketOf(bookings[t]) /\ old[t].status = "confirmed"
      /\ old[t].event = bookings[t].event /\ old[t].seats = bookings[t].seats
  BY <1>1, <1>2 DEF TicketOf
<1>4. available' = [available EXCEPT ![old[t].event] = @ + old[t].seats]
  BY <1>3 DEF CancelCommit, Restored
<1>5. r \in Booking /\ TicketOf(r) = [TicketOf(bookings[t]) EXCEPT !.status = "cancelled"]
  <2>1. /\ r \in Booking /\ r.user = bookings[t].user /\ r.event = bookings[t].event
        /\ r.key = bookings[t].key /\ r.seats = bookings[t].seats /\ r.status = "cancelled"
    BY <1>1, CancelledRow
  <2>2. QED
    BY <2>1 DEF TicketOf
<1>6. /\ bookings' = [bookings EXCEPT ![t] = r]
      /\ bookings' \in Seq(Booking) /\ DOMAIN bookings' = DOMAIN bookings
      /\ \A b \in DOMAIN bookings : bookings'[b] = IF b = t THEN r ELSE bookings[b]
  <2>1. bookings' = [bookings EXCEPT ![t] = r]
    BY <1>1 DEF CancelCommit, Booking
  <2>2. QED
    BY <1>1, <1>5, <2>1, SeqUpdate
<1>7. TicketsOf(bookings') = [old EXCEPT ![t].status = "cancelled"]
  <2>1. TicketsOf(bookings') = [b \in DOMAIN bookings |-> TicketOf(bookings'[b])]
    BY <1>6 DEF TicketsOf
  <2>2. old = [b \in DOMAIN bookings |-> TicketOf(bookings[b])]
    BY DEF TicketsOf
  <2>3. QED
    BY <1>1, <1>3, <1>5, <1>6, <2>1, <2>2
<1>8. QED
  BY <1>1, <1>2, <1>3, <1>4, <1>7 DEF Promise!Refund

\* The booking path keeps the promise of Ticketing.
THEOREM ImplementsTicketing ==
    ASSUME Protected
    PROVE  Spec => SellsTickets
<1> DEFINE I == LockHeld /\ RoomLeft /\ KeyFresh /\ CancelPending
<1>1. Init => I /\ Promise!TicketingInit
  BY DEF Init, ServiceInit, LockHeld, InCreateBooking, RoomLeft, KeyFresh, CancelPending,
         Promise!TicketingInit, TicketsOf
<1>2. TypeInv /\ I /\ [Next]_vars => I'
  BY LockHeldStep, RoomLeftStep, KeyFreshStep, CancelPendingStep
<1>3. TypeInv /\ I /\ [Next]_vars => [Promise!TicketingNext]_<<available, TicketsOf(bookings)>>
  <2> SUFFICES ASSUME TypeInv, I, [Next]_vars
               PROVE  [Promise!TicketingNext]_<<available, TicketsOf(bookings)>>
    OBVIOUS
  <2>1. CASE UNCHANGED <<available, bookings>>
    BY <2>1
  <2>2. ASSUME NEW w \in Workers, pc[w] = "commit", WriteBooking(Data(w), cur[w])
        PROVE  Promise!TicketingNext
    BY <2>2, CommitSells DEF Promise!TicketingNext
  <2>3. ASSUME NEW c \in Cancellers, CancelCommit(c)
        PROVE  Promise!TicketingNext
    BY <2>3, CancelRefunds DEF Promise!TicketingNext
  <2>4. QED
    BY <2>1, <2>2, <2>3, TableCases
<1>4. QED
  BY <1>1, <1>2, <1>3, TypeCorrect, PTL
     DEF Spec, SellsTickets, Promise!TicketingSpec, Promise!ticketingVars

=============================================================================
