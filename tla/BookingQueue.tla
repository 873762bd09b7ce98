---------------------------- MODULE BookingQueue ----------------------------
(***************************************************************************)
(* The "booking" queue: booking.producer.ts adds jobs to it, the BullMQ    *)
(* Worker of booking.processor.ts takes them.  BullMQ is a library, so its *)
(* side is modelled from the options the code gives it: three attempts     *)
(* with a backoff, nothing removed, the default of one tolerated stall.    *)
(*                                                                         *)
(* Jobs are never removed (removeOnComplete and removeOnFail are false):   *)
(* jobs is the sequence of everything ever enqueued, and a job's id is its *)
(* position.  BullMQ's "delayed" set (a failed attempt waiting out its     *)
(* backoff) and its "wait" list are one state, "waiting", and a worker may *)
(* take any waiting job: backoff makes every order possible.               *)
(***************************************************************************)
EXTENDS Evently

CONSTANTS
    Attempts,    \* attempts: 3
    MaxStalls,   \* maxStalledCount, 1 unless configured
    MaxJobs      \* bound of the model: jobs ever enqueued

ASSUME QueueAssumption ==
    /\ Attempts \in Nat \ {0}
    /\ MaxStalls \in Nat
    /\ MaxJobs \in Nat

VARIABLE jobs

JobStates == {"waiting", "active", "completed", "failed"}

\* made: failed attempts; stalls: times found without a live lock;
\* value: the booking a completed job returned, 0 while there is none.
Job == [data: Requests, state: JobStates, owner: Workers \cup {Nobody},
        made: 0 .. Attempts, stalls: 0 .. (MaxStalls + 1), value: Nat]

JobIds == 1 .. MaxJobs

Settled(j) == jobs[j].state \in {"completed", "failed"}

Owns(w, j) == jobs[j].state = "active" /\ jobs[j].owner = w

QueueInit == jobs = << >>

NewJob(d) ==
    [data |-> d, state |-> "waiting", owner |-> Nobody,
     made |-> 0, stalls |-> 0, value |-> 0]

EnqueueBookingJob(d) ==
    /\ Len(jobs) < MaxJobs
    /\ jobs' = Append(jobs, NewJob(d))

Fetched(w, j) == [jobs[j] EXCEPT !.state = "active", !.owner = w]

FetchJob(w, j) ==
    /\ jobs[j].state = "waiting"
    /\ jobs' = [jobs EXCEPT ![j] = Fetched(w, j)]

\* Mutant of Succeeded: the job is never marked completed.
SucceededRunsAgain(j, v) == [jobs[j] EXCEPT !.state = "waiting", !.owner = Nobody, !.value = v]

Succeeded(j, v) ==
    [jobs[j] EXCEPT !.state = "completed", !.owner = Nobody, !.value = v]

\* Mutant of AttemptFailed: one attempt too many.
AttemptFailedOffByOne(j) ==
    [jobs[j] EXCEPT !.state = IF jobs[j].made < Attempts THEN "waiting" ELSE "failed",
                    !.owner = Nobody, !.made = @ + 1]

\* Mutant of AttemptFailed: attempts are not counted.
AttemptFailedUncounted(j) == [jobs[j] EXCEPT !.state = "waiting", !.owner = Nobody]

\* A failed attempt goes back to the queue while attempts are left.
AttemptFailed(j) ==
    [jobs[j] EXCEPT
        !.state = IF jobs[j].made + 1 < Attempts THEN "waiting" ELSE "failed",
        !.owner = Nobody,
        !.made  = @ + 1]

\* Mutant of ReportJob: a report is accepted from a worker that lost the job.
ReportJobFromAnyone(w, j, v) ==
    jobs' = [jobs EXCEPT ![j] = IF v > 0 THEN Succeeded(j, v) ELSE AttemptFailed(j)]

(***************************************************************************)
(* The processor's promise settled, and BullMQ's worker reports it.  The   *)
(* report counts only from the worker whose lock token the job still       *)
(* carries.  The processor's listeners do no more than log it.             *)
(***************************************************************************)
ReportJob(w, j, v) ==
    jobs' = IF Owns(w, j)
              THEN [jobs EXCEPT ![j] = IF v > 0 THEN Succeeded(j, v)
                                                ELSE AttemptFailed(j)]
              ELSE jobs

\* Back to the queue, or failed for good when it stalled too often.
Stalled(j) ==
    [jobs[j] EXCEPT !.state = IF jobs[j].stalls < MaxStalls THEN "waiting" ELSE "failed",
                    !.owner = Nobody,
                    !.stalls = @ + 1]

(***************************************************************************)
(* The stall check found an active job whose lock was not renewed, because *)
(* its process died or because its event loop was held up: the worker may  *)
(* well be alive, and goes on with the job.                                *)
(***************************************************************************)
JobStalled(j) ==
    /\ jobs[j].state = "active"
    /\ jobs' = [jobs EXCEPT ![j] = Stalled(j)]

QueueTypeOK == jobs \in Seq(Job) /\ Len(jobs) <= MaxJobs

=============================================================================
