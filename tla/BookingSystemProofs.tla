------------------------ MODULE BookingSystemProofs ------------------------
(***************************************************************************)
(* Proofs about BookingSystem, for any number of workers, users, events,   *)
(* requests, jobs, retries and faults.                                     *)
(*                                                                         *)
(* The safety properties rest on one chain: a worker inside createBooking  *)
(* holds the lease of its event unless some lease lapsed (LockHeld), so    *)
(* nobody else takes seats of that event between its capacity check and    *)
(* its commit (RoomLeft), nor books with its key between its lookup and    *)
(* its commit (KeyFresh).                                                  *)
(***************************************************************************)
EXTENDS BookingSystem, SequenceTheorems, TLAPS

-----------------------------------------------------------------------------
(* The inductive invariant *)

\* A job that can still be worked on has attempts and stalls left.
LiveJobs ==
    \A j \in DOMAIN jobs : jobs[j].state \in {"waiting", "active"} =>
        jobs[j].made < Attempts /\ jobs[j].stalls <= MaxStalls

\* A busy worker has a job; a request inside cancelBooking has a booking.
References ==
    /\ \A w \in Workers : pc[w] # "idle" => cur[w] \in DOMAIN jobs
    /\ \A c \in Cancellers : cancelling[c] # 0 => cancelling[c] \in DOMAIN bookings

TypeInv == TypeOK /\ LiveJobs /\ References

LockHeld ==
    lapses = 0 => \A w \in Workers : InCreateBooking(w) => lock[Data(w).event] = w

RoomLeft ==
    lapses = 0 =>
        \A w \in Workers : pc[w] = "commit" /\ ~Data(w).seatLevel =>
            /\ Data(w).event \in Events
            /\ available[Data(w).event] >= Data(w).seats

KeyFresh ==
    lapses = 0 /\ lostAcks = 0 =>
        \A w \in Workers : pc[w] \in {"read", "commit"} /\ Data(w).key # NoKey =>
            KeyMatches(Data(w)) = {}

-----------------------------------------------------------------------------
(* What the operators return *)

\* Replacing one element of a sequence by another of the same set changes
\* neither its type nor its length.
LEMMA SeqUpdate ==
    ASSUME NEW S, NEW s \in Seq(S), NEW i \in DOMAIN s, NEW v \in S, NEW t,
           t = [s EXCEPT ![i] = v]
    PROVE  /\ t \in Seq(S)
           /\ Len(t) = Len(s)
           /\ DOMAIN t = DOMAIN s
           /\ \A k \in DOMAIN s : t[k] = IF k = i THEN v ELSE s[k]
BY ExceptSeq

\* Appending an element to a sequence keeps the elements it had.
LEMMA SeqAppend ==
    ASSUME NEW S, NEW s \in Seq(S), NEW v \in S, NEW t, t = Append(s, v)
    PROVE  /\ t \in Seq(S)
           /\ Len(t) = Len(s) + 1
           /\ DOMAIN t = DOMAIN s \cup {Len(s) + 1}
           /\ \A k \in DOMAIN s : t[k] = s[k]
           /\ t[Len(s) + 1] = v
BY AppendProperties

\* A counter stays an integer when something is added to it.
LEMMA CounterUpdate ==
    ASSUME NEW f \in [Events -> Int], NEW e, NEW n \in Int
    PROVE  [f EXCEPT ![e] = @ + n] \in [Events -> Int]
<1>1. [f EXCEPT ![e] = @ + n] = [x \in Events |-> IF x = e THEN f[e] + n ELSE f[x]]
  OBVIOUS
<1>2. \A x \in Events : (IF x = e THEN f[e] + n ELSE f[x]) \in Int
  OBVIOUS
<1>3. QED
  BY <1>1, <1>2

\* The row cancelBooking writes keeps its identity and its seats.
LEMMA CancelledRow ==
    ASSUME NEW b \in Booking, NEW r, r = [b EXCEPT !.status = "cancelled", !.refunds = b.refunds + 1]
    PROVE  /\ r \in Booking
           /\ r.user = b.user /\ r.event = b.event /\ r.key = b.key /\ r.seats = b.seats
           /\ r.job = b.job /\ r.status = "cancelled"
<1>1. b.refunds + 1 \in Nat
  BY DEF Booking
<1>2. QED
  BY <1>1 DEF Booking, Status

\* What the queue does to a job keeps its type and its payload, and leaves
\* attempts and stalls to every job that is not settled.
LEMMA JobChanges ==
    ASSUME TypeInv, NEW j \in DOMAIN jobs
    PROVE  /\ jobs[j] \in Job
           /\ \A w \in Workers : Fetched(w, j) \in Job
           /\ \A v \in Nat : Succeeded(j, v) \in Job
           /\ jobs[j].state = "active" => AttemptFailed(j) \in Job /\ Stalled(j) \in Job
<1>1. jobs[j] \in Job
  BY DEF TypeInv, TypeOK, QueueTypeOK
<1>2. \A w \in Workers : Fetched(w, j) \in Job
  BY <1>1 DEF Fetched, Job, JobStates
<1>3. \A v \in Nat : Succeeded(j, v) \in Job
  BY <1>1 DEF Succeeded, Job, JobStates
<1>4. ASSUME jobs[j].state = "active" PROVE AttemptFailed(j) \in Job /\ Stalled(j) \in Job
  <2>1. jobs[j].made < Attempts /\ jobs[j].stalls <= MaxStalls
    BY <1>4 DEF TypeInv, LiveJobs
  <2>2. jobs[j].made + 1 \in 0 .. Attempts /\ jobs[j].stalls + 1 \in 0 .. (MaxStalls + 1)
    BY <1>1, <2>1, QueueAssumption DEF Job
  <2>3. AttemptFailed(j) \in Job
    BY <1>1, <2>2 DEF AttemptFailed, Job, JobStates
  <2>4. Stalled(j) \in Job
    BY <1>1, <2>2 DEF Stalled, Job, JobStates
  <2>5. QED
    BY <2>3, <2>4
<1>5. QED
  BY <1>1, <1>2, <1>3, <1>4

-----------------------------------------------------------------------------
(* Type correctness, component by component *)

\* The payload of a job never changes.
JobsKept == \A j \in DOMAIN jobs : j \in DOMAIN jobs' /\ jobs'[j].data = jobs[j].data

\* The ways a step may touch the queue.
LEMMA QueueCases ==
    ASSUME [Next]_vars
    PROVE  \/ jobs' = jobs
           \/ \E d \in Requests : EnqueueBookingJob(d)
           \/ \E w \in Workers, j \in DOMAIN jobs : FetchJob(w, j)
           \/ \E w \in Workers : pc[w] = "report" /\ ReportJob(w, cur[w], result[w])
           \/ \E j \in DOMAIN jobs : JobStalled(j)
BY DEF Next, vars, RequestBooking, RequestCancel, WorkerStep, Fetch, Acquire, AcquireGivesUp,
       CreateBooking, Release, Report, Crash, LeaseExpires, StallDetected

LEMMA ReplaceJob ==
    ASSUME TypeInv, NEW j \in DOMAIN jobs, NEW r \in Job,
           r.data = jobs[j].data,
           r.state \in {"waiting", "active"} => r.made < Attempts /\ r.stalls <= MaxStalls,
           jobs' = [jobs EXCEPT ![j] = r]
    PROVE  QueueTypeOK' /\ LiveJobs' /\ JobsKept
<1>1. /\ jobs' \in Seq(Job) /\ Len(jobs') = Len(jobs) /\ DOMAIN jobs' = DOMAIN jobs
      /\ \A k \in DOMAIN jobs : jobs'[k] = IF k = j THEN r ELSE jobs[k]
  BY SeqUpdate DEF TypeInv, TypeOK, QueueTypeOK
<1>2. QueueTypeOK'
  BY <1>1 DEF TypeInv, TypeOK, QueueTypeOK
<1>3. LiveJobs'
  BY <1>1 DEF TypeInv, LiveJobs
<1>4. JobsKept
  BY <1>1 DEF JobsKept
<1>5. QED
  BY <1>2, <1>3, <1>4

\* Every step keeps the queue well-formed and the payloads of its jobs.
LEMMA QueueStep ==
    ASSUME TypeInv, [Next]_vars
    PROVE  QueueTypeOK' /\ LiveJobs' /\ JobsKept
<1>1. CASE jobs' = jobs
  BY <1>1 DEF TypeInv, TypeOK, QueueTypeOK, LiveJobs, JobsKept
<1>2. ASSUME NEW d \in Requests, EnqueueBookingJob(d)
      PROVE  QueueTypeOK' /\ LiveJobs' /\ JobsKept
  <2>1. NewJob(d) \in Job /\ NewJob(d).made < Attempts /\ NewJob(d).stalls <= MaxStalls
    BY QueueAssumption DEF NewJob, Job, JobStates
  <2>2. /\ jobs' \in Seq(Job) /\ Len(jobs') = Len(jobs) + 1
        /\ DOMAIN jobs' = DOMAIN jobs \cup {Len(jobs) + 1}
        /\ \A k \in DOMAIN jobs : jobs'[k] = jobs[k]
        /\ jobs'[Len(jobs) + 1] = NewJob(d)
    BY <1>2, <2>1, SeqAppend DEF EnqueueBookingJob, TypeInv, TypeOK, QueueTypeOK
  <2>3. QueueTypeOK'
    BY <1>2, <2>2, QueueAssumption DEF EnqueueBookingJob, TypeInv, TypeOK, QueueTypeOK
  <2>4. LiveJobs'
    BY <2>1, <2>2 DEF TypeInv, LiveJobs
  <2>5. JobsKept
    BY <2>2 DEF JobsKept
  <2>6. QED
    BY <2>3, <2>4, <2>5
<1>3. ASSUME NEW w \in Workers, NEW j \in DOMAIN jobs, FetchJob(w, j)
      PROVE  QueueTypeOK' /\ LiveJobs' /\ JobsKept
  <2>1. jobs[j] \in Job /\ Fetched(w, j) \in Job
    BY <1>3, JobChanges DEF FetchJob
  <2>2. /\ Fetched(w, j).data = jobs[j].data
        /\ Fetched(w, j).made < Attempts /\ Fetched(w, j).stalls <= MaxStalls
    BY <1>3, <2>1 DEF FetchJob, Fetched, Job, TypeInv, LiveJobs
  <2>3. QED
    BY <1>3, <2>1, <2>2, ReplaceJob DEF FetchJob
<1>4. ASSUME NEW w \in Workers, pc[w] = "report", ReportJob(w, cur[w], result[w])
      PROVE  QueueTypeOK' /\ LiveJobs' /\ JobsKept
  <2> DEFINE j == cur[w]
             v == result[w]
  <2>1. j \in DOMAIN jobs /\ v \in Nat
    BY <1>4 DEF TypeInv, References, TypeOK, ServiceTypeOK
  <2>2. CASE ~Owns(w, j)
    <3>1. jobs' = jobs
      BY <1>4, <2>2 DEF ReportJob
    <3>2. QED
      BY <3>1, <1>1
  <2>3. CASE Owns(w, j) /\ v > 0
    <3>1. jobs[j] \in Job /\ Succeeded(j, v) \in Job
      BY <2>1, JobChanges
    <3>2. Succeeded(j, v).data = jobs[j].data /\ Succeeded(j, v).state = "completed"
      BY <3>1 DEF Succeeded, Job
    <3>3. jobs' = [jobs EXCEPT ![j] = Succeeded(j, v)]
      BY <1>4, <2>3 DEF ReportJob
    <3>4. QED
      BY <2>1, <3>1, <3>2, <3>3, ReplaceJob
  <2>4. CASE Owns(w, j) /\ ~(v > 0)
    <3>1. jobs[j] \in Job /\ AttemptFailed(j) \in Job
      BY <2>1, <2>4, JobChanges DEF Owns
    <3>2. /\ AttemptFailed(j).data = jobs[j].data
          /\ AttemptFailed(j).state = "waiting" => AttemptFailed(j).made < Attempts
          /\ AttemptFailed(j).stalls = jobs[j].stalls
          /\ AttemptFailed(j).state # "active"
          /\ jobs[j].stalls <= MaxStalls
      BY <2>1, <2>4, <3>1 DEF AttemptFailed, Job, Owns, TypeInv, LiveJobs
    <3>3. jobs' = [jobs EXCEPT ![j] = AttemptFailed(j)]
      BY <1>4, <2>4 DEF ReportJob
    <3>4. QED
      BY <2>1, <3>1, <3>2, <3>3, ReplaceJob
  <2>5. QED
    BY <2>2, <2>3, <2>4
<1>5. ASSUME NEW j \in DOMAIN jobs, JobStalled(j)
      PROVE  QueueTypeOK' /\ LiveJobs' /\ JobsKept
  <2>1. jobs[j] \in Job /\ Stalled(j) \in Job
    BY <1>5, JobChanges DEF JobStalled
  <2>2. /\ Stalled(j).data = jobs[j].data
        /\ Stalled(j).made = jobs[j].made /\ jobs[j].made < Attempts
        /\ Stalled(j).state = "waiting" => jobs[j].stalls < MaxStalls
        /\ Stalled(j).stalls = jobs[j].stalls + 1
        /\ Stalled(j).state # "active"
    BY <1>5, <2>1 DEF JobStalled, Stalled, Job, TypeInv, LiveJobs
  <2>3. Stalled(j).state = "waiting" => Stalled(j).stalls <= MaxStalls
    BY <2>1, <2>2, QueueAssumption DEF Job
  <2>4. QED
    BY <1>5, <2>1, <2>2, <2>3, ReplaceJob DEF JobStalled
<1>6. QED
  BY <1>1, <1>2, <1>3, <1>4, <1>5, QueueCases

\* The columns of a booking that never change.
BookingsKept ==
    \A b \in DOMAIN bookings :
        /\ b \in DOMAIN bookings'
        /\ bookings'[b].user = bookings[b].user
        /\ bookings'[b].event = bookings[b].event
        /\ bookings'[b].key = bookings[b].key
        /\ bookings'[b].job = bookings[b].job

\* The ways a step may touch the two tables.
LEMMA TableCases ==
    ASSUME [Next]_vars
    PROVE  \/ UNCHANGED <<available, bookings>>
           \/ \E w \in Workers : /\ pc[w] = "commit" /\ WriteBooking(Data(w), cur[w])
                                 /\ \/ Goto(w, "release")
                                    \/ CatchError(w) /\ lostAcks' = lostAcks + 1
           \/ \E c \in Cancellers : CancelCommit(c)
BY DEF Next, vars, RequestBooking, RequestCancel, WorkerStep, Fetch, Acquire, AcquireGivesUp,
       CreateBooking, Release, Report, Crash, LeaseExpires, StallDetected, CallCreateBooking,
       LookupFinds, LookupMisses, LookupFails, ReadAccepts, ReadRefuses, Commit,
       CommitUnacknowledged, TransactionFails, CancelRead, CancelFails, Leave,
       lockVars, serviceVars

\* What is known of the job of a busy worker.
LEMMA DataType ==
    ASSUME TypeInv, NEW w \in Workers, pc[w] # "idle"
    PROVE  cur[w] \in DOMAIN jobs /\ cur[w] \in Nat /\ Data(w) \in CreateBookingInput
<1>1. cur[w] \in DOMAIN jobs /\ cur[w] \in Nat
  BY DEF TypeInv, TypeOK, QueueTypeOK, References
<1>2. jobs[cur[w]] \in Job
  BY <1>1, JobChanges
<1>3. QED
  BY <1>1, <1>2, RequestsAssumption DEF Data, Job

\* Every step keeps the tables well-formed and the identity of the bookings.
LEMMA TableStep ==
    ASSUME TypeInv, [Next]_vars
    PROVE  /\ available' \in [Events -> Int]
           /\ bookings' \in Seq(Booking)
           /\ BookingsKept
<1> DEFINE Goal == available' \in [Events -> Int] /\ bookings' \in Seq(Booking) /\ BookingsKept
<1>0. available \in [Events -> Int] /\ bookings \in Seq(Booking)
  BY DEF TypeInv, TypeOK, ServiceTypeOK
<1>1. CASE UNCHANGED <<available, bookings>>
  BY <1>0, <1>1 DEF BookingsKept
<1>2. ASSUME NEW w \in Workers, pc[w] = "commit", WriteBooking(Data(w), cur[w])
      PROVE  Goal
  <2>1. Data(w) \in CreateBookingInput /\ cur[w] \in Nat
    BY <1>2, DataType
  <2>2. NewBooking(Data(w), cur[w]) \in Booking
    BY <1>2, <2>1 DEF NewBooking, Booking, CreateBookingInput, Status, WriteBooking, Unset
  <2>3. /\ bookings' \in Seq(Booking)
        /\ DOMAIN bookings' = DOMAIN bookings \cup {Len(bookings) + 1}
        /\ \A k \in DOMAIN bookings : bookings'[k] = bookings[k]
    BY <1>0, <1>2, <2>2, SeqAppend DEF WriteBooking
  <2>4. available' \in [Events -> Int]
    BY <1>0, <1>2, <2>1 DEF WriteBooking, Decremented, CreateBookingInput
  <2>5. QED
    BY <2>3, <2>4 DEF BookingsKept
<1>3. ASSUME NEW c \in Cancellers, CancelCommit(c)
      PROVE  Goal
  <2> DEFINE b == cancelling[c]
             r == [bookings[b] EXCEPT !.status = "cancelled", !.refunds = bookings[b].refunds + 1]
  <2>1. b \in DOMAIN bookings
    BY <1>3 DEF CancelCommit, TypeInv, References
  <2>2. bookings[b] \in Booking
    BY <1>0, <2>1
  <2>3. r \in Booking /\ r.user = bookings[b].user /\ r.event = bookings[b].event
        /\ r.key = bookings[b].key /\ r.job = bookings[b].job
    BY <2>2, CancelledRow
  <2>4. bookings' = [bookings EXCEPT ![b] = r]
    BY <1>0, <1>3, <2>1, <2>2 DEF CancelCommit, Booking
  <2>5. /\ bookings' \in Seq(Booking) /\ DOMAIN bookings' = DOMAIN bookings
        /\ \A k \in DOMAIN bookings : bookings'[k] = IF k = b THEN r ELSE bookings[k]
    BY <1>0, <2>1, <2>3, <2>4, SeqUpdate
  <2>6. bookings[b].seats \in Int
    BY <2>2 DEF Booking
  <2>7. available' \in [Events -> Int]
    BY <1>0, <1>3, <2>6, CounterUpdate DEF CancelCommit, Restored
  <2>8. QED
    BY <2>3, <2>5, <2>7 DEF BookingsKept
<1>4. QED
  BY <1>1, <1>2, <1>3, TableCases

\* The ways a step may touch the lease of an event.
LEMMA LockCases ==
    ASSUME [Next]_vars
    PROVE  \/ UNCHANGED lockVars
           \/ \E w \in Workers : Acquire(w)
           \/ \E w \in Workers : Release(w)
           \/ \E e \in EventIds : LeaseExpires(e)
BY DEF Next, vars, RequestBooking, RequestCancel, WorkerStep, Fetch, AcquireGivesUp,
       CreateBooking, Report, Crash, StallDetected, Leave, lockVars

\* Every step keeps the leases well-formed.
LEMMA LockStep ==
    ASSUME TypeInv, [Next]_vars
    PROVE  LockTypeOK'
<1>0. LockTypeOK /\ lapses \in Nat
  BY DEF TypeInv, TypeOK, LockTypeOK
<1>1. CASE UNCHANGED lockVars
  BY <1>0, <1>1 DEF lockVars, LockTypeOK
<1>2. ASSUME NEW w \in Workers, Acquire(w) PROVE LockTypeOK'
  BY <1>0, <1>2 DEF Acquire, AcquireLock, LockTypeOK
<1>3. ASSUME NEW w \in Workers, Release(w) PROVE LockTypeOK'
  BY <1>0, <1>3 DEF Release, ReleaseLock, Released, LockTypeOK
<1>4. ASSUME NEW e \in EventIds, LeaseExpires(e) PROVE LockTypeOK'
  BY <1>0, <1>4, LapsesAssumption DEF LeaseExpires, LeaseEnds, LockTypeOK
<1>5. QED
  BY <1>1, <1>2, <1>3, <1>4, LockCases

ControlTypeOK ==
    /\ pc \in [Workers -> Steps]
    /\ attempt \in [Workers -> 0 .. (MaxRetries - 1)]
    /\ result \in [Workers -> Nat]
    /\ lostAcks \in 0 .. MaxLostAcks
    /\ cancelling \in [Cancellers -> Nat]
    /\ cur \in [Workers -> 0 .. MaxJobs]

\* The catch block of createBooking counts no further than its loop does.
LEMMA CatchErrorStep ==
    ASSUME ControlTypeOK, NEW w \in Workers, CatchError(w)
    PROVE  /\ pc' \in [Workers -> Steps]
           /\ attempt' \in [Workers -> 0 .. (MaxRetries - 1)]
           /\ \A x \in Workers : x # w => pc'[x] = pc[x]
           /\ pc'[w] \in {"read", "release"}
<1>1. CASE AttemptsLeft(w)
  <2>1. attempt[w] + 1 \in 0 .. (MaxRetries - 1)
    BY <1>1, ServiceAssumption DEF AttemptsLeft, ControlTypeOK
  <2>2. QED
    BY <1>1, <2>1 DEF CatchError, Goto, ControlTypeOK, Steps
<1>2. CASE ~AttemptsLeft(w)
  BY <1>2 DEF CatchError, Goto, ControlTypeOK, Steps
<1>3. QED
  BY <1>1, <1>2

\* Every step keeps control, locals and counters well-formed.
LEMMA ControlStep ==
    ASSUME TypeInv, [Next]_vars
    PROVE  ControlTypeOK' /\ References'
<1>0. ControlTypeOK /\ References /\ jobs \in Seq(Job) /\ bookings \in Seq(Booking)
      /\ Len(jobs) <= MaxJobs
  BY DEF TypeInv, TypeOK, QueueTypeOK, ServiceTypeOK, ControlTypeOK
<1>1. /\ \A j \in DOMAIN jobs : j \in DOMAIN jobs'
      /\ \A b \in DOMAIN bookings : b \in DOMAIN bookings'
  BY QueueStep, TableStep DEF JobsKept, BookingsKept
<1> DEFINE Goal == ControlTypeOK' /\ References'
<1>2. CASE UNCHANGED vars
  BY <1>0, <1>2 DEF vars, ControlTypeOK, References
<1>3. ASSUME NEW d \in Requests, RequestBooking(d) PROVE Goal
  BY <1>0, <1>1, <1>3 DEF RequestBooking, serviceVars, ControlTypeOK, References
<1>4. ASSUME NEW c \in Cancellers, RequestCancel(c) PROVE Goal
  <2>1. UNCHANGED <<pc, attempt, result, lostAcks, jobs, cur>>
    BY <1>4 DEF RequestCancel, CancelRead, CancelCommit, CancelFails
  <2>2. \/ \E b \in DOMAIN bookings : cancelling' = [cancelling EXCEPT ![c] = b]
        \/ cancelling' = [cancelling EXCEPT ![c] = 0]
    BY <1>4 DEF RequestCancel, CancelRead, CancelCommit, CancelFails, Cancellable, BookingIds
  <2>3. DOMAIN bookings \subseteq Nat /\ 0 \in Nat
    BY <1>0
  <2>4. cancelling' \in [Cancellers -> Nat]
        /\ \A x \in Cancellers : cancelling'[x] # 0 => cancelling'[x] \in DOMAIN bookings
    BY <1>0, <2>2, <2>3 DEF ControlTypeOK, References
  <2>5. QED
    BY <1>0, <1>1, <2>1, <2>4 DEF ControlTypeOK, References
<1>5. ASSUME NEW w \in Workers, NEW j \in DOMAIN jobs, Fetch(w, j) PROVE Goal
  <2>1. j \in 0 .. MaxJobs
    BY <1>0, QueueAssumption
  <2>2. QED
    BY <1>0, <1>1, <1>5, <2>1 DEF Fetch, Goto, ControlTypeOK, References, Steps
<1>6. ASSUME NEW w \in Workers, Acquire(w) PROVE Goal
  <2>1. 0 \in 0 .. (MaxRetries - 1)
    BY ServiceAssumption
  <2>2. FirstStep(Data(w)) \in Steps
    BY DEF FirstStep, Steps
  <2>3. QED
    BY <1>0, <1>1, <1>6, <2>1, <2>2 DEF Acquire, CallCreateBooking, Goto, ControlTypeOK, References
<1>7. ASSUME NEW w \in Workers, AcquireGivesUp(w) PROVE Goal
  BY <1>0, <1>1, <1>7 DEF AcquireGivesUp, Goto, ControlTypeOK, References, Steps
<1>8. ASSUME NEW w \in Workers, CreateBooking(w) PROVE Goal
  <2>1. UNCHANGED <<jobs, cur, cancelling>> /\ pc[w] # "idle"
    BY <1>8 DEF CreateBooking, LookupFinds, LookupMisses, LookupFails, ReadAccepts, ReadRefuses,
                Commit, CommitUnacknowledged, TransactionFails, CatchError
  <2>2. CASE LookupFinds(w, Data(w)) \/ LookupMisses(w, Data(w)) \/ LookupFails(w)
    <3>1. /\ pc' \in [Workers -> Steps] /\ UNCHANGED <<attempt, lostAcks>>
          /\ \A x \in Workers : x # w => pc'[x] = pc[x]
      BY <1>0, <2>2 DEF LookupFinds, LookupMisses, LookupFails, Goto, ControlTypeOK, Steps
    <3>2. result' \in [Workers -> Nat]
      BY <1>0, <2>2 DEF LookupFinds, LookupMisses, LookupFails, KeyMatches, BookingIds, ControlTypeOK
    <3>3. QED
      BY <1>0, <1>1, <2>1, <3>1, <3>2 DEF ControlTypeOK, References
  <2>3. CASE ReadAccepts(w, Data(w))
    BY <1>0, <1>1, <2>1, <2>3 DEF ReadAccepts, Goto, ControlTypeOK, References, Steps
  <2>4. CASE Commit(w, Data(w), cur[w])
    <3>1. Len(bookings) + 1 \in Nat
      BY <1>0
    <3>2. QED
      BY <1>0, <1>1, <2>1, <2>4, <3>1 DEF Commit, Goto, ControlTypeOK, References, Steps
  <2>5. CASE ReadRefuses(w, Data(w)) \/ CommitUnacknowledged(w, Data(w), cur[w]) \/ TransactionFails(w)
    <3>1. CatchError(w) /\ UNCHANGED result
      BY <2>5 DEF ReadRefuses, CommitUnacknowledged, TransactionFails, CatchError
    <3>2. lostAcks' \in 0 .. MaxLostAcks
      BY <1>0, <2>5, ServiceAssumption
         DEF ReadRefuses, CommitUnacknowledged, TransactionFails, ControlTypeOK
    <3>3. QED
      BY <1>0, <1>1, <2>1, <3>1, <3>2, CatchErrorStep DEF ControlTypeOK, References
  <2>6. QED
    BY <1>8, <2>2, <2>3, <2>4, <2>5 DEF CreateBooking
<1>9. ASSUME NEW w \in Workers, Release(w) PROVE Goal
  BY <1>0, <1>1, <1>9 DEF Release, Goto, ControlTypeOK, References, Steps
<1>10. ASSUME NEW w \in Workers, Leave(w) PROVE Goal
  <2>1. 0 \in 0 .. (MaxRetries - 1) /\ 0 \in 0 .. MaxJobs
    BY ServiceAssumption, QueueAssumption
  <2>2. QED
    BY <1>0, <1>1, <1>10, <2>1 DEF Leave, Goto, ControlTypeOK, References, Steps
<1>11. ASSUME NEW e \in EventIds, LeaseExpires(e) PROVE Goal
  BY <1>0, <1>1, <1>11 DEF LeaseExpires, serviceVars, ControlTypeOK, References
<1>12. ASSUME NEW j \in DOMAIN jobs, StallDetected(j) PROVE Goal
  BY <1>0, <1>1, <1>12 DEF StallDetected, serviceVars, ControlTypeOK, References
<1>13. QED
  BY <1>2, <1>3, <1>4, <1>5, <1>6, <1>7, <1>8, <1>9, <1>10, <1>11, <1>12
     DEF Next, WorkerStep, Report, Crash

\* Nothing is assumed of the faults: the state is well-formed whatever fails.
THEOREM TypeCorrect == Spec => []TypeInv
<1>1. Init => TypeInv
  <2>1. << >> \in Seq(Job) /\ << >> \in Seq(Booking) /\ Len(<< >>) = 0 /\ DOMAIN << >> = {}
    OBVIOUS
  <2>2. 0 \in 0 .. (MaxRetries - 1) /\ 0 \in 0 .. MaxJobs /\ 0 \in 0 .. MaxLapses
        /\ 0 \in 0 .. MaxLostAcks /\ 0 <= MaxJobs
    BY ServiceAssumption, QueueAssumption, LapsesAssumption
  <2>3. Capacity \in [Events -> Int]
    BY CapacityAssumption
  <2>4. QED
    BY <2>1, <2>2, <2>3
       DEF Init, QueueInit, LockInit, ServiceInit, TypeInv, TypeOK, QueueTypeOK, LockTypeOK,
           ServiceTypeOK, LiveJobs, References, Steps
<1>2. TypeInv /\ [Next]_vars => TypeInv'
  BY QueueStep, LockStep, TableStep, ControlStep
     DEF TypeInv, TypeOK, ServiceTypeOK, ControlTypeOK
<1>3. QED
  BY <1>1, <1>2, PTL DEF Spec

\* TypeOK alone: no variable leaves its type, for attempts and stalls the
\* range that enqueueBookingJob's options and BullMQ's default allow.
THEOREM WellTyped == Spec => []TypeOK
<1>1. TypeInv => TypeOK
  BY DEF TypeInv
<1>2. QED
  BY <1>1, TypeCorrect, PTL

-----------------------------------------------------------------------------
(* The steps a proof about createBooking has to look at *)

\* How worker w may come to be where it is after a step.
LEMMA WorkerCases ==
    ASSUME TypeInv, [Next]_vars, NEW w \in Workers
    PROVE  \/ pc'[w] = pc[w] /\ cur'[w] = cur[w]
           \/ pc'[w] \in {"idle", "acquire", "release", "report"}
           \/ Acquire(w)
           \/ LookupMisses(w, Data(w)) /\ cur'[w] = cur[w]
           \/ ReadAccepts(w, Data(w)) /\ cur'[w] = cur[w]
           \/ pc[w] \in {"read", "commit"} /\ pc'[w] = "read" /\ cur'[w] = cur[w]
<1> DEFINE Same == pc'[w] = pc[w] /\ cur'[w] = cur[w]
<1>0. pc \in [Workers -> Steps] /\ cur \in [Workers -> 0 .. MaxJobs] /\ ControlTypeOK
  BY DEF TypeInv, TypeOK, ServiceTypeOK, ControlTypeOK
<1>1. CASE UNCHANGED <<pc, cur>>
  BY <1>1
<1>2. ASSUME NEW x \in Workers, WorkerStep(x) \/ Crash(x), x # w
      PROVE  Same
  BY <1>0, <1>2
     DEF WorkerStep, Fetch, Acquire, AcquireGivesUp, CreateBooking, Release, Report, Crash, Leave,
         CallCreateBooking, LookupFinds, LookupMisses, LookupFails, ReadAccepts, ReadRefuses,
         Commit, CommitUnacknowledged, TransactionFails, CatchError, Goto
<1>3. CASE CreateBooking(w)
  <2>1. UNCHANGED cur
    BY <1>3 DEF CreateBooking
  <2>2. CASE LookupFinds(w, Data(w)) \/ LookupFails(w) \/ Commit(w, Data(w), cur[w])
    BY <1>0, <2>2 DEF LookupFinds, LookupFails, Commit, Goto
  <2>3. CASE ReadRefuses(w, Data(w)) \/ CommitUnacknowledged(w, Data(w), cur[w]) \/ TransactionFails(w)
    BY <1>0, <2>1, <2>3, CatchErrorStep DEF ReadRefuses, CommitUnacknowledged, TransactionFails
  <2>4. QED
    BY <1>3, <2>1, <2>2, <2>3 DEF CreateBooking
<1>4. CASE (\E j \in DOMAIN jobs : Fetch(w, j)) \/ AcquireGivesUp(w) \/ Release(w) \/ Report(w)
           \/ Crash(w)
  BY <1>0, <1>4 DEF Fetch, AcquireGivesUp, Release, Report, Crash, Leave, Goto
<1>5. CASE \/ \E d \in Requests : RequestBooking(d)
           \/ \E c \in Cancellers : RequestCancel(c)
           \/ \E e \in EventIds : LeaseExpires(e)
           \/ \E j \in DOMAIN jobs : StallDetected(j)
           \/ UNCHANGED vars
  <2>1. UNCHANGED <<pc, cur>>
    BY <1>5 DEF RequestBooking, RequestCancel, CancelRead, CancelCommit, CancelFails,
                LeaseExpires, StallDetected, serviceVars, vars
  <2>2. QED
    BY <2>1
<1>6. QED
  BY <1>2, <1>3, <1>4, <1>5 DEF Next, WorkerStep

\* A worker that stays on its job keeps its payload.
LEMMA DataKept ==
    ASSUME TypeInv, [Next]_vars, NEW w \in Workers, pc[w] # "idle", cur'[w] = cur[w]
    PROVE  Data(w)' = Data(w)
BY QueueStep, DataType DEF JobsKept, Data

\* A worker inside createBooking was there before, on the same job, or has
\* just got the lease.
LEMMA EnterCreateBooking ==
    ASSUME TypeInv, [Next]_vars, NEW w \in Workers, InCreateBooking(w)'
    PROVE  /\ InCreateBooking(w) \/ Acquire(w)
           /\ pc[w] # "idle" /\ cur'[w] = cur[w] /\ Data(w)' = Data(w)
<1>1. /\ InCreateBooking(w) \/ Acquire(w)
      /\ pc[w] # "idle" /\ cur'[w] = cur[w]
  BY WorkerCases DEF InCreateBooking, LookupMisses, ReadAccepts, Acquire
<1>2. QED
  BY <1>1, DataKept

\* Lapses and lost acknowledgements are only counted up.
LEMMA GhostsGrow ==
    ASSUME TypeInv, [Next]_vars
    PROVE  /\ lapses' = 0 => lapses = 0
           /\ lostAcks' = 0 => lostAcks = 0
<1>0. lapses \in Nat /\ lostAcks \in Nat
  BY DEF TypeInv, TypeOK, LockTypeOK, ServiceTypeOK
<1>1. lapses' = lapses \/ lapses' = lapses + 1
  BY LockCases DEF lockVars, Acquire, AcquireLock, Release, ReleaseLock, LeaseExpires, LeaseEnds
<1>2. lostAcks' = lostAcks \/ lostAcks' = lostAcks + 1
  BY DEF Next, vars, RequestBooking, RequestCancel, WorkerStep, Fetch, Acquire, AcquireGivesUp,
         CreateBooking, Release, Report, Crash, LeaseExpires, StallDetected, CallCreateBooking,
         LookupFinds, LookupMisses, LookupFails, ReadAccepts, ReadRefuses, Commit, Leave,
         CommitUnacknowledged, TransactionFails, CancelRead, CancelCommit, CancelFails, serviceVars
<1>3. QED
  BY <1>0, <1>1, <1>2

-----------------------------------------------------------------------------
(* The lease *)

LEMMA LockHeldStep ==
    ASSUME TypeInv, LockHeld, [Next]_vars
    PROVE  LockHeld'
<1> SUFFICES ASSUME lapses' = 0, NEW w \in Workers, InCreateBooking(w)'
             PROVE  lock'[Data(w).event] = w
  BY EnterCreateBooking DEF LockHeld
<1>0. /\ lock \in [EventIds -> Workers \cup {Nobody}] /\ lapses = 0
      /\ pc[w] # "idle" /\ Data(w).event \in EventIds
      /\ InCreateBooking(w) \/ Acquire(w)
  BY EnterCreateBooking, GhostsGrow, DataType DEF TypeInv, TypeOK, LockTypeOK, CreateBookingInput
<1>1. CASE Acquire(w)
  BY <1>0, <1>1 DEF Acquire, AcquireLock
<1> SUFFICES ASSUME ~Acquire(w), lock[Data(w).event] = w
             PROVE  lock'[Data(w).event] = w
  BY <1>0, <1>1 DEF LockHeld
<1>2. CASE UNCHANGED lockVars
  BY <1>2 DEF lockVars
<1>3. ASSUME NEW x \in Workers, Acquire(x) PROVE lock'[Data(w).event] = w
  <2>1. lock[Data(x).event] = Nobody
    BY <1>3 DEF Acquire, AcquireLock
  <2>2. Data(x).event # Data(w).event
    BY <2>1, ParticipantsAssumption
  <2>3. QED
    BY <1>0, <1>3, <2>2 DEF Acquire, AcquireLock
<1>4. ASSUME NEW x \in Workers, Release(x) PROVE lock'[Data(w).event] = w
  <2>1. x # w
    BY <1>0, <1>4 DEF Release, InCreateBooking
  <2>2. QED
    BY <1>0, <1>4, <2>1 DEF Release, ReleaseLock, Released
<1>5. ASSUME NEW e \in EventIds, LeaseExpires(e) PROVE lock'[Data(w).event] = w
  <2>1. CASE e = Data(w).event
    <3>1. lapses' = lapses + 1
      BY <1>0, <1>5, <2>1 DEF LeaseExpires, LeaseEnds, WorkingOn
    <3>2. QED
      BY <1>0, <3>1
  <2>2. CASE e # Data(w).event
    BY <1>0, <1>5, <2>2 DEF LeaseExpires, LeaseEnds
  <2>3. QED
    BY <2>1, <2>2
<1>6. QED
  BY <1>2, <1>3, <1>4, <1>5, LockCases

\* Mutual exclusion on the event is what the lease means.
LEMMA LockExcludes == TypeInv /\ LockHeld => OneWorkerPerEvent
BY DEF LockHeld, OneWorkerPerEvent

\* As long as no lease ran out under its holder, one worker at most is inside
\* createBooking for an event.
THEOREM MutualExclusion == Spec => []OneWorkerPerEvent
<1>1. Init => LockHeld
  BY DEF Init, ServiceInit, LockHeld, InCreateBooking
<1>2. TypeInv /\ LockHeld /\ [Next]_vars => LockHeld'
  BY LockHeldStep
<1>3. QED
  BY <1>1, <1>2, TypeCorrect, LockExcludes, PTL DEF Spec

-----------------------------------------------------------------------------
(* Capacity *)

\* A worker that has just inserted a booking is past its commit, and back at
\* its read only when the acknowledgement was lost.
LEMMA AfterInsert ==
    ASSUME TypeInv, NEW w \in Workers,
           Goto(w, "release") \/ (CatchError(w) /\ lostAcks' = lostAcks + 1)
    PROVE  /\ pc'[w] # "commit"
           /\ pc'[w] = "read" => lostAcks' # 0
<1>1. ControlTypeOK /\ lostAcks \in Nat
  BY DEF TypeInv, TypeOK, ServiceTypeOK, ControlTypeOK
<1>2. CASE Goto(w, "release")
  BY <1>1, <1>2 DEF Goto, ControlTypeOK
<1>3. CASE CatchError(w) /\ lostAcks' = lostAcks + 1
  BY <1>1, <1>3, CatchErrorStep
<1>4. QED
  BY <1>2, <1>3

\* What a cancellation does to the two tables.
LEMMA CancelEffect ==
    ASSUME TypeInv, NEW c \in Cancellers, CancelCommit(c)
    PROVE  /\ DOMAIN bookings' = DOMAIN bookings
           /\ \A e \in Events : available'[e] >= available[e]
<1> DEFINE b == cancelling[c]
<1>1. available \in [Events -> Int] /\ bookings \in Seq(Booking) /\ b \in DOMAIN bookings
  BY DEF CancelCommit, TypeInv, TypeOK, ServiceTypeOK, References
<1>2. bookings[b].seats \in Nat
  <2>1. bookings[b] \in Booking
    BY <1>1
  <2>2. QED
    BY <2>1 DEF Booking
<1>3. DOMAIN bookings' = DOMAIN bookings
  BY <1>1 DEF CancelCommit
<1>4. \A e \in Events : available'[e] >= available[e]
  BY <1>1, <1>2 DEF CancelCommit, Restored
<1>5. QED
  BY <1>3, <1>4

\* Between a worker's capacity check and its commit, nobody takes seats of the
\* same event.
LEMMA RoomLeftStep ==
    ASSUME TypeInv, LockHeld, RoomLeft, [Next]_vars
    PROVE  RoomLeft'
<1> SUFFICES ASSUME lapses' = 0, NEW w \in Workers, pc'[w] = "commit", ~Data(w)'.seatLevel
             PROVE  /\ Data(w).event \in Events
                    /\ available'[Data(w).event] >= Data(w).seats
  BY EnterCreateBooking DEF RoomLeft, InCreateBooking
<1>0. /\ lapses = 0 /\ available \in [Events -> Int]
      /\ pc[w] # "idle" /\ cur'[w] = cur[w] /\ Data(w)' = Data(w)
      /\ Data(w).seats \in Nat
  BY EnterCreateBooking, GhostsGrow, DataType
     DEF InCreateBooking, TypeInv, TypeOK, ServiceTypeOK, CreateBookingInput
<1>1. CASE ReadAccepts(w, Data(w))
  BY <1>0, <1>1 DEF ReadAccepts, Accepted
<1>2. CASE ~ReadAccepts(w, Data(w))
  <2>1. pc[w] = "commit"
    BY <1>0, <1>2, WorkerCases DEF Acquire, CallCreateBooking, FirstStep, Goto, LookupMisses,
       TypeInv, TypeOK, ServiceTypeOK
  <2>2. Data(w).event \in Events /\ available[Data(w).event] >= Data(w).seats
    BY <1>0, <2>1 DEF RoomLeft
  <2>3. CASE UNCHANGED <<available, bookings>>
    BY <2>2, <2>3
  <2>4. ASSUME NEW x \in Workers, pc[x] = "commit", WriteBooking(Data(x), cur[x]),
               Goto(x, "release") \/ (CatchError(x) /\ lostAcks' = lostAcks + 1)
        PROVE  available'[Data(w).event] >= Data(w).seats
    <3>1. x # w
      BY <2>4, AfterInsert
    <3>2. Data(x).event # Data(w).event
      BY <1>0, <2>1, <2>4, <3>1, LockExcludes DEF OneWorkerPerEvent, InCreateBooking
    <3>3. available'[Data(w).event] = available[Data(w).event]
      BY <1>0, <2>2, <2>4, <3>2 DEF WriteBooking, Decremented
    <3>4. QED
      BY <2>2, <3>3
  <2>5. ASSUME NEW c \in Cancellers, CancelCommit(c)
        PROVE  available'[Data(w).event] >= Data(w).seats
    <3>1. available'[Data(w).event] >= available[Data(w).event]
      BY <2>2, <2>5, CancelEffect
    <3>2. available'[Data(w).event] \in Int /\ available[Data(w).event] \in Int
      BY <1>0, <2>2, TableStep
    <3>3. QED
      BY <1>0, <2>2, <3>1, <3>2
  <2>6. QED
    BY <2>2, <2>3, <2>4, <2>5, TableCases
<1>3. QED
  BY <1>1, <1>2

LEMMA NeverNegativeStep ==
    ASSUME TypeInv, RoomLeft, NeverNegative, [Next]_vars
    PROVE  NeverNegative'
<1> SUFFICES ASSUME lapses' = 0, NEW e \in Events
             PROVE  available'[e] >= 0
  BY DEF NeverNegative
<1>0. lapses = 0 /\ available \in [Events -> Int] /\ available' \in [Events -> Int]
      /\ available[e] >= 0
  BY GhostsGrow, TableStep DEF NeverNegative, TypeInv, TypeOK, ServiceTypeOK
<1>1. CASE UNCHANGED <<available, bookings>>
  BY <1>0, <1>1
<1>2. ASSUME NEW w \in Workers, pc[w] = "commit", WriteBooking(Data(w), cur[w])
      PROVE  available'[e] >= 0
  <2>1. Data(w).seats \in Nat
    BY <1>2, DataType DEF CreateBookingInput
  <2>2. ~Data(w).seatLevel => available[Data(w).event] >= Data(w).seats
    BY <1>0, <1>2 DEF RoomLeft
  <2>3. QED
    BY <1>0, <1>2, <2>1, <2>2 DEF WriteBooking, Decremented
<1>3. ASSUME NEW c \in Cancellers, CancelCommit(c)
      PROVE  available'[e] >= 0
  <2>1. available'[e] >= available[e]
    BY <1>3, CancelEffect
  <2>2. QED
    BY <1>0, <2>1
<1>4. QED
  BY <1>1, <1>2, <1>3, TableCases

\* availableCapacity stays at zero or above while leases hold: the check of
\* createBooking is still true when it decrements.
THEOREM CapacityNeverNegative == Spec => []NeverNegative
<1> DEFINE I == LockHeld /\ RoomLeft /\ NeverNegative
<1>1. Init => I
  BY CapacityAssumption
     DEF Init, ServiceInit, LockHeld, InCreateBooking, RoomLeft, NeverNegative
<1>2. TypeInv /\ I /\ [Next]_vars => I'
  BY LockHeldStep, RoomLeftStep, NeverNegativeStep
<1>3. QED
  BY <1>1, <1>2, TypeCorrect, PTL DEF Spec

-----------------------------------------------------------------------------
(* Idempotency keys *)

SameKey(b, d) ==
    bookings[b].user = d.user /\ bookings[b].event = d.event /\ bookings[b].key = d.key

\* An insertion adds one row and leaves the others alone.
LEMMA InsertEffect ==
    ASSUME TypeInv, NEW w \in Workers, pc[w] = "commit", WriteBooking(Data(w), cur[w])
    PROVE  /\ DOMAIN bookings' = DOMAIN bookings \cup {Len(bookings) + 1}
           /\ \A b \in DOMAIN bookings : bookings'[b] = bookings[b]
           /\ bookings'[Len(bookings) + 1].user = Data(w).user
           /\ bookings'[Len(bookings) + 1].event = Data(w).event
           /\ bookings'[Len(bookings) + 1].key = Data(w).key
           /\ bookings'[Len(bookings) + 1] = NewBooking(Data(w), cur[w])
<1>1. bookings \in Seq(Booking) /\ Data(w) \in CreateBookingInput /\ cur[w] \in Nat
  BY DataType DEF TypeInv, TypeOK, ServiceTypeOK
<1>2. NewBooking(Data(w), cur[w]) \in Booking
  BY <1>1 DEF NewBooking, Booking, CreateBookingInput, Status, WriteBooking, Unset
<1>3. /\ DOMAIN bookings' = DOMAIN bookings \cup {Len(bookings) + 1}
      /\ \A b \in DOMAIN bookings : bookings'[b] = bookings[b]
      /\ bookings'[Len(bookings) + 1] = NewBooking(Data(w), cur[w])
  BY <1>1, <1>2, SeqAppend DEF WriteBooking
<1>4. QED
  BY <1>3 DEF NewBooking

\* Between a worker's lookup and its commit, nobody books with the same key.
LEMMA KeyFreshStep ==
    ASSUME TypeInv, LockHeld, KeyFresh, [Next]_vars
    PROVE  KeyFresh'
<1> SUFFICES ASSUME lapses' = 0, lostAcks' = 0, NEW w \in Workers,
                    pc'[w] \in {"read", "commit"}, Data(w)'.key # NoKey,
                    NEW b \in DOMAIN bookings', SameKey(b, Data(w))'
             PROVE  FALSE
  BY DEF KeyFresh, KeyMatches, BookingIds, SameKey
<1>0. /\ lapses = 0 /\ lostAcks = 0
      /\ pc[w] # "idle" /\ cur'[w] = cur[w] /\ Data(w)' = Data(w)
      /\ pc \in [Workers -> Steps]
  BY EnterCreateBooking, GhostsGrow DEF InCreateBooking, TypeInv, TypeOK, ServiceTypeOK
<1>1. pc[w] \in {"read", "commit"} \/ LookupMisses(w, Data(w))
  BY <1>0, WorkerCases DEF Acquire, CallCreateBooking, FirstStep, Goto, ReadAccepts
<1>2. KeyMatches(Data(w)) = {}
  BY <1>0, <1>1 DEF KeyFresh, LookupMisses
<1>3. \A k \in DOMAIN bookings : ~SameKey(k, Data(w))
  BY <1>2 DEF KeyMatches, BookingIds, SameKey
<1>4. CASE UNCHANGED <<available, bookings>>
  BY <1>0, <1>3, <1>4 DEF SameKey
<1>5. ASSUME NEW x \in Workers, pc[x] = "commit", WriteBooking(Data(x), cur[x]),
             Goto(x, "release") \/ (CatchError(x) /\ lostAcks' = lostAcks + 1)
      PROVE  FALSE
  <2>1. x # w
    BY <1>5, AfterInsert
  <2>2. InCreateBooking(w)
    BY <1>1 DEF InCreateBooking, LookupMisses
  <2>3. Data(x).event # Data(w).event
    BY <1>0, <1>5, <2>1, <2>2, LockExcludes DEF OneWorkerPerEvent, InCreateBooking
  <2>4. QED
    BY <1>0, <1>3, <1>5, <2>3, InsertEffect DEF SameKey
<1>6. ASSUME NEW c \in Cancellers, CancelCommit(c) PROVE FALSE
  <2>1. b \in DOMAIN bookings
    BY <1>6, CancelEffect
  <2>2. SameKey(b, Data(w))
    BY <1>0, <2>1, TableStep DEF BookingsKept, SameKey
  <2>3. QED
    BY <1>3, <2>1, <2>2
<1>7. QED
  BY <1>4, <1>5, <1>6, TableCases

LEMMA KeyUsedOnceStep ==
    ASSUME TypeInv, KeyFresh, KeyUsedOnce, [Next]_vars
    PROVE  KeyUsedOnce'
<1> SUFFICES ASSUME lapses' = 0, lostAcks' = 0,
                    NEW a \in DOMAIN bookings', NEW b \in DOMAIN bookings',
                    bookings'[a].key # NoKey,
                    bookings'[a].key = bookings'[b].key,
                    bookings'[a].user = bookings'[b].user,
                    bookings'[a].event = bookings'[b].event
             PROVE  a = b
  BY DEF KeyUsedOnce, BookingIds
<1>0. lapses = 0 /\ lostAcks = 0
  BY GhostsGrow
<1>1. ASSUME a \in DOMAIN bookings, b \in DOMAIN bookings PROVE a = b
  BY <1>0, <1>1, TableStep DEF KeyUsedOnce, BookingIds, BookingsKept
<1>2. CASE UNCHANGED <<available, bookings>>
  BY <1>1, <1>2
<1>3. ASSUME NEW w \in Workers, pc[w] = "commit", WriteBooking(Data(w), cur[w]) PROVE a = b
  <2>1. Data(w).key # NoKey => \A k \in DOMAIN bookings : ~SameKey(k, Data(w))
    BY <1>0, <1>3 DEF KeyFresh, KeyMatches, BookingIds, SameKey
  <2>2. QED
    BY <1>1, <1>3, <2>1, InsertEffect DEF SameKey
<1>4. ASSUME NEW c \in Cancellers, CancelCommit(c) PROVE a = b
  BY <1>1, <1>4, CancelEffect
<1>5. QED
  BY <1>2, <1>3, <1>4, TableCases

\* An Idempotency-Key books once: between the lookup and the commit nobody else
\* books with it, and the retries follow transactions that wrote nothing.
THEOREM KeysUsedOnce == Spec => []KeyUsedOnce
<1> DEFINE I == LockHeld /\ KeyFresh /\ KeyUsedOnce
<1>1. Init => I
  BY DEF Init, ServiceInit, LockHeld, InCreateBooking, KeyFresh, KeyUsedOnce, BookingIds
<1>2. TypeInv /\ I /\ [Next]_vars => I'
  BY LockHeldStep, KeyFreshStep, KeyUsedOnceStep
<1>3. QED
  BY <1>1, <1>2, TypeCorrect, PTL DEF Spec

-----------------------------------------------------------------------------
(* The queue *)

LEMMA SettledStep ==
    ASSUME TypeInv, [Next]_vars, NEW j \in DOMAIN jobs, Settled(j)
    PROVE  jobs'[j] = jobs[j]
<1>0. jobs \in Seq(Job) /\ jobs[j].state \notin {"waiting", "active"}
  BY DEF Settled, TypeInv, TypeOK, QueueTypeOK
<1>1. CASE jobs' = jobs
  BY <1>1
<1>2. ASSUME NEW d \in Requests, EnqueueBookingJob(d) PROVE jobs'[j] = jobs[j]
  <2>1. NewJob(d) \in Job
    BY QueueAssumption DEF NewJob, Job, JobStates
  <2>2. QED
    BY <1>0, <1>2, <2>1, SeqAppend DEF EnqueueBookingJob
<1>3. ASSUME NEW w \in Workers, NEW k \in DOMAIN jobs, FetchJob(w, k) PROVE jobs'[j] = jobs[j]
  BY <1>0, <1>3 DEF FetchJob
<1>4. ASSUME NEW w \in Workers, pc[w] = "report", ReportJob(w, cur[w], result[w])
      PROVE  jobs'[j] = jobs[j]
  BY <1>0, <1>4 DEF ReportJob, Owns
<1>5. ASSUME NEW k \in DOMAIN jobs, JobStalled(k) PROVE jobs'[j] = jobs[j]
  BY <1>0, <1>5 DEF JobStalled
<1>6. QED
  BY <1>1, <1>2, <1>3, <1>4, <1>5, QueueCases

\* No late report, stall check or fetch touches a job that was settled.
THEOREM SettledJobsAreFinal == Spec => SettledIsFinal
<1>1. TypeInv /\ [Next]_vars => [\A j \in DOMAIN jobs : Settled(j) => jobs'[j] = jobs[j]]_vars
  BY SettledStep
<1>2. QED
  BY <1>1, TypeCorrect, PTL DEF Spec, SettledIsFinal

=============================================================================
