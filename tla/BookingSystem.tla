--------------------------- MODULE BookingSystem ---------------------------
(***************************************************************************)
(* The booking path put together: HTTP requests enqueue jobs, the worker   *)
(* of every server process takes them, holds the lease of the job's event  *)
(* around createBooking, and reports to the queue; other HTTP requests     *)
(* cancel bookings at the same time.  Processes crash, leases run out and  *)
(* jobs stall.                                                             *)
(***************************************************************************)
EXTENDS BookingQueue, EventLock, BookingService, FiniteSetsExt

VARIABLE cur   \* the job each worker is processing, 0 when it is idle

lockVars == <<lock, lapses>>
serviceVars == <<available, bookings, pc, attempt, result, lostAcks, cancelling>>
vars == <<jobs, lock, lapses, available, bookings, pc, attempt, result, lostAcks,
          cancelling, cur>>

Init ==
    /\ QueueInit
    /\ LockInit
    /\ ServiceInit
    /\ cur = [w \in Workers |-> 0]

Data(w) == jobs[cur[w]].data

\* The worker is between redlock.acquire and lock.unlock, inside createBooking.
InCreateBooking(w) == pc[w] \in {"lookup", "read", "commit"}

WorkingOn(w, e) == InCreateBooking(w) /\ Data(w).event = e

-----------------------------------------------------------------------------
(* booking.controller.ts *)

RequestBooking(d) ==
    /\ EnqueueBookingJob(d)
    /\ UNCHANGED <<lockVars, serviceVars, cur>>

RequestCancel(c) ==
    /\ \/ \E u \in Users, b \in BookingIds : CancelRead(c, u, b)
       \/ CancelCommit(c)
       \/ CancelFails(c)
    /\ UNCHANGED <<jobs, lockVars, cur>>

-----------------------------------------------------------------------------
(* booking.processor.ts *)

Fetch(w, j) ==
    /\ pc[w] = "idle"
    /\ FetchJob(w, j)
    /\ cur' = [cur EXCEPT ![w] = j]
    /\ Goto(w, "acquire")
    /\ UNCHANGED <<lockVars, available, bookings, attempt, result, lostAcks, cancelling>>

Acquire(w) ==
    /\ pc[w] = "acquire"
    /\ AcquireLock(w, Data(w).event)
    /\ CallCreateBooking(w, Data(w))
    /\ UNCHANGED <<jobs, cur>>

\* Five retries 200 ms apart were not enough, or Redis did not answer; there
\* is no lock to release.
AcquireGivesUp(w) ==
    /\ pc[w] = "acquire"
    /\ Goto(w, "report")
    /\ UNCHANGED <<jobs, lockVars, available, bookings, attempt, result, lostAcks, cancelling, cur>>

CreateBooking(w) ==
    /\ \/ LookupFinds(w, Data(w))
       \/ LookupMisses(w, Data(w))
       \/ LookupFails(w)
       \/ ReadAccepts(w, Data(w))
       \/ ReadRefuses(w, Data(w))
       \/ Commit(w, Data(w), cur[w])
       \/ CommitUnacknowledged(w, Data(w), cur[w])
       \/ TransactionFails(w)
    /\ UNCHANGED <<jobs, lockVars, cur>>

Release(w) ==
    /\ pc[w] = "release"
    /\ ReleaseLock(w, Data(w).event)
    /\ Goto(w, "report")
    /\ UNCHANGED <<jobs, available, bookings, attempt, result, lostAcks, cancelling, cur>>

\* The processor's locals are gone once it has returned, or died.
Leave(w) ==
    /\ cur' = [cur EXCEPT ![w] = 0]
    /\ attempt' = [attempt EXCEPT ![w] = 0]
    /\ result' = [result EXCEPT ![w] = 0]
    /\ Goto(w, "idle")
    /\ UNCHANGED <<lockVars, available, bookings, lostAcks, cancelling>>

Report(w) ==
    /\ pc[w] = "report"
    /\ ReportJob(w, cur[w], result[w])
    /\ Leave(w)

WorkerStep(w) ==
    \/ \E j \in DOMAIN jobs : Fetch(w, j)
    \/ Acquire(w)
    \/ AcquireGivesUp(w)
    \/ CreateBooking(w)
    \/ Release(w)
    \/ Report(w)

-----------------------------------------------------------------------------
(* Faults *)

\* The process dies: PostgreSQL rolls its transaction back; the job stays
\* active and the lease stays in Redis until somebody notices.  server.ts
\* does the same on SIGTERM, since nothing closes the worker.
Crash(w) ==
    /\ pc[w] # "idle"
    /\ Leave(w)
    /\ UNCHANGED jobs

LeaseExpires(e) ==
    /\ LeaseEnds(e, \E w \in Workers : lock[e] = w /\ WorkingOn(w, e))
    /\ UNCHANGED <<jobs, serviceVars, cur>>

StallDetected(j) ==
    /\ JobStalled(j)
    /\ UNCHANGED <<lockVars, serviceVars, cur>>

\* No process is working on the active job any more.
Orphaned(j) == jobs[j].state = "active" /\ cur[jobs[j].owner] # j

-----------------------------------------------------------------------------
Next ==
    \/ \E d \in Requests : RequestBooking(d)
    \/ \E c \in Cancellers : RequestCancel(c)
    \/ \E w \in Workers : WorkerStep(w) \/ Crash(w)
    \/ \E e \in EventIds : LeaseExpires(e)
    \/ \E j \in DOMAIN jobs : StallDetected(j)

Spec == Init /\ [][Next]_vars

(***************************************************************************)
(* Fairness.  A worker that can go on goes on, a lease whose holder is no  *)
(* longer working runs out (its TTL), and BullMQ's periodic stall check    *)
(* finds a job whose process died.  A crash only takes a worker back to its *)
(* first step: the process is taken to be started again, which somebody     *)
(* outside the repository must do (docker-compose.yaml has no restart       *)
(* policy).  Clients, crashes, failures and false stalls are never required *)
(* to happen.                                                               *)
(***************************************************************************)
Fairness ==
    /\ \A w \in Workers : WF_vars(WorkerStep(w))
    /\ \A e \in EventIds : WF_vars(LeaseExpires(e))
    /\ \A j \in JobIds : WF_vars(j \in DOMAIN jobs /\ Orphaned(j) /\ StallDetected(j))

FairSpec == Spec /\ Fairness

-----------------------------------------------------------------------------
TypeOK ==
    /\ QueueTypeOK
    /\ LockTypeOK
    /\ ServiceTypeOK
    /\ cur \in [Workers -> 0 .. MaxJobs]

-----------------------------------------------------------------------------
(* Safety *)

\* booking.processor.ts says its lock "ensures only one worker can process
\* bookings for the same event at a time": true while no lease runs out under
\* its holder.
OneWorkerPerEvent ==
    lapses = 0 =>
        \A w1, w2 \in Workers :
            /\ InCreateBooking(w1) /\ InCreateBooking(w2)
            /\ Data(w1).event = Data(w2).event
            => w1 = w2

\* createBooking checks the capacity and takes it in two steps; as long as the
\* lease holds, the counter never goes below zero.
NeverNegative == lapses = 0 => \A e \in Events : available[e] >= 0

\* A key is checked before the retry loop and never again, and the table has
\* no unique index on it: as long as leases hold and no commit looks failed,
\* redelivered, retried and repeated requests with one key make one booking.
KeyUsedOnce ==
    lapses = 0 /\ lostAcks = 0 =>
        \A a, b \in BookingIds :
            /\ bookings[a].key # NoKey
            /\ bookings[a].key = bookings[b].key
            /\ bookings[a].user = bookings[b].user
            /\ bookings[a].event = bookings[b].event
            => a = b

SeatsOf(S) == MapThenSumSet(LAMBDA b : bookings[b].seats, S)

\* Seats that confirmed general-admission bookings hold.
SoldSeats(e) ==
    SeatsOf({b \in BookingIds : /\ bookings[b].event = e
                                /\ bookings[b].status = "confirmed"
                                /\ ~bookings[b].seatLevel})

\* Seats that went back to the event without having been taken from it: the
\* second refund of one booking, or the refund of a seat-level booking.
Owed(b) == IF bookings[b].status = "cancelled" /\ ~bookings[b].seatLevel THEN 1 ELSE 0
SurplusSeats(e) ==
    MapThenSumSet(LAMBDA b : bookings[b].seats * (bookings[b].refunds - Owed(b)),
                  {b \in BookingIds : bookings[b].event = e})

\* Every write of availableCapacity is relative, so the counter is what the
\* bookings say even when reads were stale: it differs from capacity by the
\* seats sold and by the surplus of wrong refunds, and by nothing else.
CounterMatchesBookings ==
    \A e \in Events : available[e] = Capacity[e] - SoldSeats(e) + SurplusSeats(e)

\* "Concurrent ticket booking without overselling" (README.md), as far as the
\* code keeps it: no lease ran out under its holder, nothing was refunded wrongly.
NoOverselling ==
    lapses = 0 =>
        \A e \in Events : SurplusSeats(e) = 0 => SoldSeats(e) <= Capacity[e]

\* Retries inside createBooking and attempts of the queue do not book twice:
\* a job makes one booking, plus at most one for every time it was taken for
\* stalled and for every commit that looked failed.
BookingsPerJob ==
    \A j \in DOMAIN jobs :
        Cardinality({b \in BookingIds : bookings[b].job = j})
            <= 1 + jobs[j].stalls + lostAcks

\* A completed job returned a booking of its own user and event: its own, or
\* the one its key already had.
CompletedHasBooking ==
    \A j \in DOMAIN jobs : jobs[j].state = "completed" =>
        /\ jobs[j].value \in BookingIds
        /\ LET b == bookings[jobs[j].value] IN
           /\ b.user = jobs[j].data.user /\ b.event = jobs[j].data.event
           /\ b.key = jobs[j].data.key
           /\ b.key = NoKey => b.job = j

\* A failed job booked nothing, unless it stalled or a commit looked failed.
FailedHasNoBooking ==
    \A j \in DOMAIN jobs :
        jobs[j].state = "failed" /\ jobs[j].stalls = 0 /\ lostAcks = 0 =>
            \A b \in BookingIds : bookings[b].job # j

\* The report of a worker that lost its job to the stall check changes nothing.
SettledIsFinal ==
    [][\A j \in DOMAIN jobs : Settled(j) => jobs'[j] = jobs[j]]_vars

-----------------------------------------------------------------------------
(* Liveness *)

\* Every accepted request (202) is decided: the worker never leaves a job
\* behind, whatever crashes.
EveryJobSettles ==
    \A j \in JobIds : j \in DOMAIN jobs ~> (j \in DOMAIN jobs /\ Settled(j))

\* An event does not stay locked when unlock fails or the holder is dead.
EventUnlocked == \A e \in EventIds : lock[e] # Nobody ~> lock[e] = Nobody

-----------------------------------------------------------------------------
(* Claims of the repository that the code does not keep *)

\* "transactions prevent overselling seats" (booking.service.ts:154).  Checked
\* where a lease may run out under its holder.
NeverOversold == \A e \in Events : SoldSeats(e) <= Capacity[e]

\* Cancelling "with concurrency control" (booking.service.ts:4) restores the
\* capacity a booking took, so never more than the event has.
NeverAboveCapacity == \A e \in Events : available[e] <= Capacity[e]

-----------------------------------------------------------------------------
(* Refinement *)

TicketOf(b) == [user |-> b.user, event |-> b.event, seats |-> b.seats, key |-> b.key,
                status |-> b.status]

TicketsOf(rows) == [b \in DOMAIN rows |-> TicketOf(rows[b])]

Promise == INSTANCE Ticketing WITH left <- available, tickets <- TicketsOf(bookings)

\* While leases hold, no commit looks failed, bookings are cancelled one at a
\* time and nobody names seats, the two-step transactions of createBooking and
\* cancelBooking behave like the indivisible sales and refunds of Ticketing.
SellsTickets == Promise!TicketingSpec

=============================================================================
