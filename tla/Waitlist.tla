------------------------------ MODULE Waitlist ------------------------------
(***************************************************************************)
(* waitlist.service.ts and waitlist.repo.ts.  Joining is a find followed   *)
(* by a create, promoting is a transaction that reads the oldest entry and *)
(* deletes it by id, followed by a job for the booking queue; each await    *)
(* is a step, and any number of calls run at the same time.                *)
(*                                                                         *)
(* An entry carries the time its create was called, which identifies it    *)
(* here (two entries of one millisecond are not modelled), and the ghost   *)
(* late: whether a younger entry had been chosen for promotion before it   *)
(* was inserted.  popNext has no caller in the repository yet; the model    *)
(* lets anybody call it.                                                   *)
(***************************************************************************)
EXTENDS BookingQueue, FiniteSetsExt

CONSTANTS
    Callers,    \* calls of join and popNext that may run at the same time
    MaxJoins,   \* bound of the model: calls of join that reach the insert
    MaxLost,    \* bound of the model: promotions whose queue.add fails
    MaxResends  \* bound of the model: jobs that are added twice

\* The queue takes what popNext adds to it.
ASSUME WaitlistAssumption ==
    /\ [user: Users, event: EventIds, seats: {Unset}, seatLevel: {FALSE}, key: {NoKey}]
          \subseteq Requests
    /\ MaxJoins \in Nat
    /\ MaxLost \in Nat
    /\ MaxResends \in Nat

VARIABLES
    waitlist,   \* table Waitlist
    call,       \* what each caller is doing, and with which entry
    clock,      \* new Date(), one tick for each entry created
    popped,     \* ghost: the entries popNext deleted, in that order
    lost,       \* ghost: promotions whose queue.add failed
    resends     \* ghost: times queue.add was sent again with its job added

waitlistVars == <<jobs, waitlist, call, clock, popped, lost, resends>>

Entry == [user: Users, event: EventIds, at: Nat, late: BOOLEAN]

NoEntry == [user |-> Nobody, event |-> Nobody, at |-> 0, late |-> FALSE]

Calls == {"idle", "create", "delete", "enqueue"}

Doing(c, step, entry) == call' = [call EXCEPT ![c] = [step |-> step, entry |-> entry]]

Return(c) == Doing(c, "idle", NoEntry)

At(c, step) == call[c].step = step

EntriesOf(u, e) == {x \in waitlist : x.user = u /\ x.event = e}

Waiting(e) == {x \in waitlist : x.event = e}

WaitlistInit ==
    /\ QueueInit
    /\ waitlist = {}
    /\ call = [c \in Callers |-> [step |-> "idle", entry |-> NoEntry]]
    /\ clock = 0
    /\ popped = << >>
    /\ lost = 0
    /\ resends = 0

-----------------------------------------------------------------------------
(* join *)

\* WaitlistRepo.find returned nothing; the create that follows takes its
\* timestamp at once.  (A user who is found gets 400 and nothing changes.)
JoinFind(c, u, e) ==
    /\ At(c, "idle")
    /\ clock < MaxJoins
    /\ EntriesOf(u, e) = {}
    /\ clock' = clock + 1
    /\ Doing(c, "create", [user |-> u, event |-> e, at |-> clock + 1, late |-> FALSE])
    /\ UNCHANGED <<jobs, waitlist, popped, lost, resends>>

\* A younger entry was promoted, or is about to be.
Overtaken(x) ==
    \/ \E i \in DOMAIN popped : popped[i].event = x.event /\ popped[i].at > x.at
    \/ \E c \in Callers : At(c, "delete") /\ call[c].entry.event = x.event /\ call[c].entry.at > x.at

\* No unique index stands in the way of a second entry; the foreign key does
\* in the way of an unknown event.
JoinCreate(c) ==
    LET x == call[c].entry IN
    /\ At(c, "create")
    /\ x.event \in Events
    /\ waitlist' = waitlist \cup {[x EXCEPT !.late = Overtaken(x)]}
    /\ Return(c)
    /\ UNCHANGED <<jobs, clock, popped, lost, resends>>

JoinFails(c) ==
    /\ At(c, "create")
    /\ Return(c)
    /\ UNCHANGED <<jobs, waitlist, clock, popped, lost, resends>>

-----------------------------------------------------------------------------
(* leave: deleteMany *)

Leave(u, e) ==
    /\ EntriesOf(u, e) # {}
    /\ waitlist' = waitlist \ EntriesOf(u, e)
    /\ UNCHANGED <<jobs, call, clock, popped, lost, resends>>

-----------------------------------------------------------------------------
(* popNext *)

\* Mutant of FirstInLine: an empty list is not noticed.
FirstInLineOrNothing(e) ==
    IF Waiting(e) = {} THEN {NoEntry}
    ELSE {x \in Waiting(e) : \A y \in Waiting(e) : x.at <= y.at}

\* Mutant of FirstInLine: the youngest first.
LastInLine(e) == {x \in Waiting(e) : \A y \in Waiting(e) : y.at <= x.at}

\* findFirst with orderBy createdAt asc
FirstInLine(e) == {x \in Waiting(e) : \A y \in Waiting(e) : x.at <= y.at}

PopFind(c, e) ==
    /\ At(c, "idle")
    /\ \E x \in FirstInLine(e) : Doing(c, "delete", x)
    /\ UNCHANGED <<jobs, waitlist, clock, popped, lost, resends>>

\* Mutant of StillThere: deleteMany, which does not mind a missing row.
StillThereOrNot(x) == x.event \in EventIds

\* delete by id fails with P2025 when the row is gone
StillThere(x) == x \in waitlist

\* Mutant of PopDelete: the caller is told who is next, nothing is enqueued.
PopDeleteOnly(c) ==
    LET x == call[c].entry IN
    /\ At(c, "delete")
    /\ StillThere(x)
    /\ waitlist' = waitlist \ {x}
    /\ popped' = Append(popped, x)
    /\ Return(c)
    /\ UNCHANGED <<jobs, clock, lost, resends>>

PopDelete(c) ==
    LET x == call[c].entry IN
    /\ At(c, "delete")
    /\ StillThere(x)
    /\ waitlist' = waitlist \ {x}
    /\ popped' = Append(popped, x)
    /\ Doing(c, "enqueue", x)
    /\ UNCHANGED <<jobs, clock, lost, resends>>

\* P2025 or any other database error: the caller gets 500 DB_ERROR.
PopFails(c) ==
    /\ At(c, "delete")
    /\ Return(c)
    /\ UNCHANGED <<jobs, waitlist, clock, popped, lost, resends>>

\* enqueueBookingJob({ eventId, userId }): no seats, no key
Promotion(x) ==
    [user |-> x.user, event |-> x.event, seats |-> Unset, seatLevel |-> FALSE, key |-> NoKey]

PopEnqueue(c) ==
    /\ At(c, "enqueue")
    /\ EnqueueBookingJob(Promotion(call[c].entry))
    /\ Return(c)
    /\ UNCHANGED <<waitlist, clock, popped, lost, resends>>

\* The job is added, the answer is lost, and ioredis sends the command again:
\* the job has no id of its own by which BullMQ could know it.
PopEnqueueUnanswered(c) ==
    /\ At(c, "enqueue")
    /\ resends < MaxResends
    /\ resends' = resends + 1
    /\ EnqueueBookingJob(Promotion(call[c].entry))
    /\ UNCHANGED <<waitlist, call, clock, popped, lost>>

\* Redis does not answer, or the process dies; the entry is gone already.
PopLost(c) ==
    /\ At(c, "enqueue")
    /\ lost < MaxLost
    /\ lost' = lost + 1
    /\ Return(c)
    /\ UNCHANGED <<jobs, waitlist, clock, popped, resends>>

-----------------------------------------------------------------------------
WaitlistNext ==
    \/ \E c \in Callers, u \in Users, e \in EventIds : JoinFind(c, u, e)
    \/ \E u \in Users, e \in EventIds : Leave(u, e)
    \/ \E c \in Callers, e \in EventIds : PopFind(c, e)
    \/ \E c \in Callers : \/ JoinCreate(c) \/ JoinFails(c)
                          \/ PopDelete(c) \/ PopFails(c)
                          \/ PopEnqueue(c) \/ PopEnqueueUnanswered(c) \/ PopLost(c)

WaitlistSpec == WaitlistInit /\ [][WaitlistNext]_waitlistVars

-----------------------------------------------------------------------------
\* Well-formed, and a call that has begun has an entry to work on.
WaitlistTypeOK ==
    /\ QueueTypeOK
    /\ waitlist \subseteq Entry
    /\ call \in [Callers -> [step: Calls, entry: Entry \cup {NoEntry}]]
    /\ \A c \in Callers : call[c].entry = NoEntry <=> At(c, "idle")
    /\ clock \in 0 .. MaxJoins
    /\ popped \in Seq(Entry)
    /\ lost \in 0 .. MaxLost
    /\ resends \in 0 .. MaxResends

\* "Pop the next user from waitlist atomically" (waitlist.repo.ts): however
\* many calls of popNext overlap with each other and with leave, an entry is
\* promoted once, and is off the list then.
PromotedOnce ==
    /\ \A i, j \in DOMAIN popped : popped[i].at = popped[j].at => i = j
    /\ \A i \in DOMAIN popped : \A x \in waitlist : x.at # popped[i].at

\* First come, first served: an entry is promoted after a younger one of the
\* same event only if it reached the table when the younger had been chosen.
PromotedInOrder ==
    \A i, j \in DOMAIN popped :
        /\ i < j
        /\ popped[i].event = popped[j].event
        /\ popped[j].at < popped[i].at
        => popped[j].late

\* The user who was popped gets a job: one for each promotion that has ended,
\* but for those whose queue.add failed when the entry was gone already, and
\* none besides, but for those that were added again.
Promoted(u, e) == {i \in DOMAIN popped : popped[i].user = u /\ popped[i].event = e}
JobsFor(u, e) == {j \in DOMAIN jobs : jobs[j].data.user = u /\ jobs[j].data.event = e}
BeingPromoted(u, e) ==
    {c \in Callers : At(c, "enqueue") /\ call[c].entry.user = u /\ call[c].entry.event = e}

PromotionsReachQueue ==
    \A u \in Users, e \in EventIds :
        LET promoted == Cardinality(Promoted(u, e))
            reached  == Cardinality(JobsFor(u, e)) + Cardinality(BeingPromoted(u, e)) IN
        promoted - lost <= reached /\ reached <= promoted + resends

\* A user who is on the list is told so instead of being added again
\* ("User is already on the waitlist", waitlist.service.ts:24).
OneEntryPerUser ==
    \A x, y \in waitlist : x.user = y.user /\ x.event = y.event => x = y

=============================================================================
