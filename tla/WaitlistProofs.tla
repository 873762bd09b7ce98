--------------------------- MODULE WaitlistProofs ---------------------------
(***************************************************************************)
(* Proofs about Waitlist and WaitlistReader, for any number of calls,      *)
(* users, events, entries and faults, and any size of page.                *)
(*                                                                         *)
(* The time an entry was created identifies it (EntriesDiffer): that is    *)
(* what makes the delete of popNext promote it once.  Whoever is passed by *)
(* a younger entry reached the table after that one had been chosen        *)
(* (OvertakenIsLate, ChosenIsFirst): that is the order popNext keeps.      *)
(* Positions on the list number its entries without a gap (RanksAreTaken): *)
(* that is why a walk sees whoever is not passed by others (ReaderInv).    *)
(***************************************************************************)
EXTENDS WaitlistReader, SequenceTheorems, FiniteSetTheorems, TLAPS

-----------------------------------------------------------------------------
(* The inductive invariant *)

\* Every entry got its time from the clock.
Stamped(x) == x \in Entry /\ x.at \in 1 .. clock

EntriesStamped ==
    /\ \A x \in waitlist : Stamped(x)
    /\ \A i \in DOMAIN popped : Stamped(popped[i])
    /\ \A c \in Callers : ~At(c, "idle") => Stamped(call[c].entry)

\* The time of an entry identifies it, before, on and after the list.
EntriesDiffer ==
    /\ \A x, y \in waitlist : x.at = y.at => x = y
    /\ \A c \in Callers : At(c, "create") =>
          /\ \A x \in waitlist : x.at # call[c].entry.at
          /\ \A i \in DOMAIN popped : popped[i].at # call[c].entry.at
          /\ \A d \in Callers : At(d, "create") /\ d # c => call[d].entry.at # call[c].entry.at

\* Who is still on the list when a younger entry is off it came late.
OvertakenIsLate ==
    \A x \in waitlist : \A i \in DOMAIN popped :
        popped[i].event = x.event /\ x.at < popped[i].at => x.late

\* The same of an entry that popNext has chosen.
ChosenIsFirst ==
    \A x \in waitlist : \A c \in Callers :
        At(c, "delete") /\ call[c].entry.event = x.event /\ x.at < call[c].entry.at => x.late

WaitInv == WaitlistTypeOK /\ EntriesStamped

OnceInv == WaitInv /\ EntriesDiffer /\ PromotedOnce

OrderInv == WaitInv /\ OvertakenIsLate /\ ChosenIsFirst /\ PromotedInOrder

\* Only finitely many calls have begun.
FewBusy == IsFiniteSet({c \in Callers : ~At(c, "idle")})

-----------------------------------------------------------------------------
(* Steps *)

LEMMA DoingEffect ==
    ASSUME WaitInv, NEW c \in Callers, NEW step \in Calls, NEW entry \in Entry \cup {NoEntry},
           Doing(c, step, entry)
    PROVE  /\ call' \in [Callers -> [step: Calls, entry: Entry \cup {NoEntry}]]
           /\ call'[c].step = step /\ call'[c].entry = entry
           /\ \A d \in Callers : d # c => call'[d] = call[d]
  BY DEF WaitInv, WaitlistTypeOK, Doing

\* A stamped entry is an entry.
LEMMA StampedIsEntry ==
    ASSUME NEW x, Stamped(x), clock \in Nat
    PROVE  x # NoEntry /\ x \in Entry \cup {NoEntry} /\ x.at \in Nat \ {0}
  BY DEF Stamped, NoEntry

LEMMA BusyEntry ==
    ASSUME WaitInv, NEW c \in Callers, ~At(c, "idle")
    PROVE  Stamped(call[c].entry) /\ call[c].entry \in Entry /\ call[c].entry # NoEntry
<1>1. Stamped(call[c].entry) /\ clock \in Nat
  BY WaitlistAssumption DEF WaitInv, EntriesStamped, WaitlistTypeOK
<1>2. QED
  BY <1>1, StampedIsEntry DEF Stamped

LEMMA JoinFindEffect ==
    ASSUME WaitInv, NEW c \in Callers, NEW u \in Users, NEW e \in EventIds, JoinFind(c, u, e),
           NEW n, n = clock + 1
    PROVE  /\ At(c, "idle") /\ clock \in Nat /\ n \in Nat /\ n \in 0 .. MaxJoins /\ clock' = n
           /\ call' \in [Callers -> [step: Calls, entry: Entry \cup {NoEntry}]]
           /\ call'[c].step = "create" /\ call'[c].entry \in Entry /\ call'[c].entry.at = n
           /\ \A d \in Callers : d # c => call'[d] = call[d]
           /\ UNCHANGED <<jobs, waitlist, popped, lost, resends>>
<1> DEFINE x == [user |-> u, event |-> e, at |-> n, late |-> FALSE]
<1>1. clock \in Nat /\ n \in Nat /\ n \in 0 .. MaxJoins
  BY WaitlistAssumption DEF WaitInv, WaitlistTypeOK, JoinFind
<1>2. x \in Entry /\ x.at = n
  BY <1>1 DEF Entry
<1>3. Doing(c, "create", x)
  BY DEF JoinFind
<1> HIDE DEF x
<1>4. "create" \in Calls
  BY DEF Calls
<1>5. QED
  BY <1>1, <1>2, <1>3, <1>4, DoingEffect DEF JoinFind

\* The entry a create inserts, with what the model remembers of it.
Inserted(c) == [call[c].entry EXCEPT !.late = Overtaken(call[c].entry)]

LEMMA ReturnEffect ==
    ASSUME WaitInv, NEW c \in Callers, Return(c)
    PROVE  /\ call' \in [Callers -> [step: Calls, entry: Entry \cup {NoEntry}]]
           /\ call'[c].step = "idle" /\ call'[c].entry = NoEntry
           /\ \A d \in Callers : d # c => call'[d] = call[d]
<1>1. "idle" \in Calls /\ NoEntry \in Entry \cup {NoEntry}
  BY DEF Calls
<1>2. QED
  BY <1>1, DoingEffect DEF Return

LEMMA JoinCreateEffect ==
    ASSUME WaitInv, NEW c \in Callers, JoinCreate(c)
    PROVE  /\ At(c, "create")
           /\ Inserted(c) \in Entry /\ Stamped(Inserted(c))
           /\ Inserted(c).at = call[c].entry.at /\ Inserted(c).event = call[c].entry.event
           /\ Inserted(c).late = Overtaken(call[c].entry)
           /\ waitlist' = waitlist \cup {Inserted(c)}
           /\ Return(c)
           /\ UNCHANGED <<jobs, clock, popped, lost, resends>>
<1>1. Stamped(call[c].entry) /\ call[c].entry \in Entry
  BY BusyEntry DEF JoinCreate, At
<1>2. Overtaken(call[c].entry) \in BOOLEAN
  BY DEF Overtaken
<1> DEFINE late == Overtaken(call[c].entry)
<1>3. Inserted(c) = [call[c].entry EXCEPT !.late = late]
  BY DEF Inserted
<1> HIDE DEF late
<1>4. late \in BOOLEAN
  BY <1>2 DEF late
<1>5. /\ Inserted(c) \in Entry /\ Inserted(c).at = call[c].entry.at
      /\ Inserted(c).event = call[c].entry.event /\ Inserted(c).late = late
  BY <1>1, <1>3, <1>4 DEF Entry
<1>6. QED
  BY <1>1, <1>5 DEF JoinCreate, Stamped, Inserted, late

LEMMA PopFindEffect ==
    ASSUME WaitInv, NEW c \in Callers, NEW e \in EventIds, PopFind(c, e)
    PROVE  \E x \in waitlist :
              /\ At(c, "idle") /\ Stamped(x)
              /\ call' \in [Callers -> [step: Calls, entry: Entry \cup {NoEntry}]]
              /\ call'[c].step = "delete" /\ call'[c].entry = x
              /\ \A d \in Callers : d # c => call'[d] = call[d]
              /\ \A y \in waitlist : y.event = x.event => x.at <= y.at
              /\ UNCHANGED <<jobs, waitlist, clock, popped, lost, resends>>
<1>1. PICK x \in FirstInLine(e) : Doing(c, "delete", x)
  BY DEF PopFind
<1>2. x \in waitlist /\ \A y \in waitlist : y.event = x.event => x.at <= y.at
  BY <1>1 DEF FirstInLine, Waiting
<1>3. Stamped(x) /\ x \in Entry \cup {NoEntry}
  BY <1>2 DEF WaitInv, WaitlistTypeOK, EntriesStamped
<1>4. "delete" \in Calls
  BY DEF Calls
<1>5. QED
  BY <1>1, <1>2, <1>3, <1>4, DoingEffect DEF PopFind

LEMMA PopDeleteEffect ==
    ASSUME WaitInv, NEW c \in Callers, PopDelete(c), NEW x, x = call[c].entry,
           NEW n, n = Len(popped) + 1
    PROVE  /\ At(c, "delete") /\ x \in waitlist /\ waitlist' = waitlist \ {x} /\ Stamped(x)
           /\ n \in Nat \ {0} /\ n \notin DOMAIN popped
           /\ popped' \in Seq(Entry) /\ DOMAIN popped' = DOMAIN popped \cup {n} /\ popped'[n] = x
           /\ \A i \in DOMAIN popped : popped'[i] = popped[i] /\ i < n
           /\ call' \in [Callers -> [step: Calls, entry: Entry \cup {NoEntry}]]
           /\ call'[c].step = "enqueue" /\ call'[c].entry = x
           /\ \A d \in Callers : d # c => call'[d] = call[d]
           /\ UNCHANGED <<jobs, clock, lost, resends>>
<1>1. x \in Entry /\ Stamped(x) /\ "enqueue" \in Calls
  BY BusyEntry DEF PopDelete, At, Calls
<1>2. popped \in Seq(Entry) /\ popped' = Append(popped, x)
  BY DEF WaitInv, WaitlistTypeOK, PopDelete
<1>3. /\ n \in Nat \ {0} /\ n \notin DOMAIN popped
      /\ popped' \in Seq(Entry) /\ DOMAIN popped' = DOMAIN popped \cup {n} /\ popped'[n] = x
      /\ \A i \in DOMAIN popped : popped'[i] = popped[i] /\ i < n
  BY <1>1, <1>2, AppendProperties
<1>4. x \in Entry \cup {NoEntry} /\ Doing(c, "enqueue", x)
  BY <1>1 DEF PopDelete
<1>5. QED
  BY <1>1, <1>3, <1>4, DoingEffect DEF PopDelete, StillThere

LEMMA EnqueueEffect ==
    ASSUME WaitInv, NEW c \in Callers, At(c, "enqueue"),
           EnqueueBookingJob(Promotion(call[c].entry)), NEW n, n = Len(jobs) + 1
    PROVE  /\ n \in Nat \ {0} /\ n \notin DOMAIN jobs
           /\ jobs' \in Seq(Job) /\ Len(jobs') <= MaxJobs
           /\ DOMAIN jobs' = DOMAIN jobs \cup {n}
           /\ \A i \in DOMAIN jobs : jobs'[i] = jobs[i]
           /\ jobs'[n].data.user = call[c].entry.user
           /\ jobs'[n].data.event = call[c].entry.event
<1> DEFINE d == Promotion(call[c].entry)
<1>1. call[c].entry \in Entry
  BY BusyEntry DEF At
<1>2. d \in Requests /\ d.user = call[c].entry.user /\ d.event = call[c].entry.event
  BY <1>1, WaitlistAssumption DEF Promotion, Entry
<1> HIDE DEF d
<1>3. 0 \in 0 .. Attempts /\ 0 \in 0 .. (MaxStalls + 1)
  BY QueueAssumption
<1>4. NewJob(d) \in Job /\ NewJob(d).data = d
  BY <1>2, <1>3 DEF NewJob, Job, JobStates
<1>5. jobs \in Seq(Job) /\ Len(jobs) < MaxJobs /\ jobs' = Append(jobs, NewJob(d))
  BY DEF WaitInv, WaitlistTypeOK, QueueTypeOK, EnqueueBookingJob, d
<1>6. /\ n \in Nat \ {0} /\ n \notin DOMAIN jobs
      /\ jobs' \in Seq(Job) /\ Len(jobs') <= MaxJobs
      /\ DOMAIN jobs' = DOMAIN jobs \cup {n}
      /\ \A i \in DOMAIN jobs : jobs'[i] = jobs[i]
      /\ jobs'[n] = NewJob(d)
  <2>1. /\ n \in Nat \ {0} /\ n \notin DOMAIN jobs
        /\ jobs' \in Seq(Job)
        /\ DOMAIN jobs' = DOMAIN jobs \cup {n}
        /\ \A i \in DOMAIN jobs : jobs'[i] = jobs[i]
        /\ jobs'[n] = NewJob(d)
    BY <1>4, <1>5, AppendProperties
  <2>2. Len(jobs') = Len(jobs) + 1 /\ Len(jobs) \in Nat
    BY <1>4, <1>5, AppendProperties
  <2>3. QED
    BY <1>5, <2>1, <2>2, QueueAssumption
<1>7. QED
  BY <1>2, <1>4, <1>6

LEMMA WaitCases ==
    ASSUME WaitlistNext, NEW Goal,
           ASSUME NEW c \in Callers, NEW u \in Users, NEW e \in EventIds, JoinFind(c, u, e)
           PROVE Goal,
           ASSUME NEW u \in Users, NEW e \in EventIds, Leave(u, e) PROVE Goal,
           ASSUME NEW c \in Callers, NEW e \in EventIds, PopFind(c, e) PROVE Goal,
           ASSUME NEW c \in Callers, JoinCreate(c) PROVE Goal,
           ASSUME NEW c \in Callers, JoinFails(c) \/ PopFails(c) \/ PopLost(c) PROVE Goal,
           ASSUME NEW c \in Callers, PopDelete(c) PROVE Goal,
           ASSUME NEW c \in Callers, PopEnqueue(c) PROVE Goal,
           ASSUME NEW c \in Callers, PopEnqueueUnanswered(c) PROVE Goal
    PROVE  Goal
  BY DEF WaitlistNext

\* A call that gives up changes nothing but the number of lost promotions.
LEMMA GiveUpEffect ==
    ASSUME WaitInv, NEW c \in Callers, JoinFails(c) \/ PopFails(c) \/ PopLost(c)
    PROVE  /\ ~At(c, "idle") /\ Return(c)
           /\ lost' \in 0 .. MaxLost
           /\ UNCHANGED lost \/ lost' = lost + 1
           /\ UNCHANGED <<jobs, waitlist, clock, popped, resends>>
  BY WaitlistAssumption DEF JoinFails, PopFails, PopLost, At, WaitInv, WaitlistTypeOK

-----------------------------------------------------------------------------
(* Type correctness *)

LEMMA WaitInvStep ==
    ASSUME WaitInv, [WaitlistNext]_waitlistVars
    PROVE  WaitInv'
<1> DEFINE Goal == WaitInv'
<1>0. /\ QueueTypeOK /\ waitlist \subseteq Entry /\ popped \in Seq(Entry)
      /\ call \in [Callers -> [step: Calls, entry: Entry \cup {NoEntry}]]
      /\ \A c \in Callers : call[c].entry = NoEntry <=> At(c, "idle")
      /\ clock \in Nat /\ clock \in 0 .. MaxJoins /\ lost \in 0 .. MaxLost
      /\ resends \in 0 .. MaxResends
      /\ EntriesStamped
  BY WaitlistAssumption DEF WaitInv, WaitlistTypeOK
<1>1. ASSUME NEW c \in Callers, NEW u \in Users, NEW e \in EventIds, JoinFind(c, u, e)
      PROVE Goal
  <2>1. PICK n : n = clock + 1
    OBVIOUS
  <2>2. /\ n \in Nat /\ n \in 0 .. MaxJoins /\ clock' = n
        /\ call' \in [Callers -> [step: Calls, entry: Entry \cup {NoEntry}]]
        /\ call'[c].step = "create" /\ call'[c].entry \in Entry /\ call'[c].entry.at = n
        /\ \A d \in Callers : d # c => call'[d] = call[d]
        /\ UNCHANGED <<jobs, waitlist, popped, lost, resends>>
    BY <1>1, <2>1, JoinFindEffect
  <2>3. n \in 1 .. n /\ 1 .. clock \subseteq 1 .. n
    BY <1>0, <2>1, <2>2
  <2>4. EntriesStamped'
    BY <1>0, <2>2, <2>3 DEF EntriesStamped, Stamped, At
  <2>5. call'[c].entry # NoEntry
    BY <2>1, <2>2, <1>0 DEF NoEntry
  <2>6. WaitlistTypeOK'
    BY <1>0, <2>2, <2>5 DEF WaitlistTypeOK, QueueTypeOK, At
  <2>7. QED
    BY <2>4, <2>6 DEF WaitInv
<1>2. ASSUME NEW u \in Users, NEW e \in EventIds, Leave(u, e) PROVE Goal
  <2>1. waitlist' \subseteq waitlist /\ UNCHANGED <<jobs, call, clock, popped, lost, resends>>
    BY <1>2 DEF Leave
  <2>2. QED
    BY <1>0, <2>1 DEF WaitInv, WaitlistTypeOK, QueueTypeOK, EntriesStamped, Stamped, At
<1>3. ASSUME NEW c \in Callers, NEW e \in EventIds, PopFind(c, e) PROVE Goal
  <2>1. PICK x \in waitlist :
           /\ Stamped(x)
           /\ call' \in [Callers -> [step: Calls, entry: Entry \cup {NoEntry}]]
           /\ call'[c].step = "delete" /\ call'[c].entry = x
           /\ \A d \in Callers : d # c => call'[d] = call[d]
           /\ UNCHANGED <<jobs, waitlist, clock, popped, lost, resends>>
    BY <1>3, PopFindEffect
  <2>2. x # NoEntry
    BY <1>0, <2>1, StampedIsEntry
  <2>3. EntriesStamped'
    BY <1>0, <2>1 DEF EntriesStamped, Stamped, At
  <2>4. WaitlistTypeOK'
    BY <1>0, <2>1, <2>2 DEF WaitlistTypeOK, QueueTypeOK, At
  <2>5. QED
    BY <2>3, <2>4 DEF WaitInv
<1>4. ASSUME NEW c \in Callers, Return(c), jobs' \in Seq(Job), Len(jobs') <= MaxJobs,
             \A x \in waitlist' : Stamped(x), lost' \in 0 .. MaxLost,
             UNCHANGED <<clock, popped, resends>>
      PROVE Goal
  <2>1. /\ call' \in [Callers -> [step: Calls, entry: Entry \cup {NoEntry}]]
        /\ call'[c].step = "idle" /\ call'[c].entry = NoEntry
        /\ \A d \in Callers : d # c => call'[d] = call[d]
    BY <1>4, ReturnEffect
  <2>2. EntriesStamped'
    BY <1>0, <1>4, <2>1 DEF EntriesStamped, Stamped, At
  <2>3. waitlist' \subseteq Entry
    BY <1>4 DEF Stamped
  <2>4. WaitlistTypeOK'
    BY <1>0, <1>4, <2>1, <2>3 DEF WaitlistTypeOK, QueueTypeOK, At
  <2>5. QED
    BY <2>2, <2>4 DEF WaitInv
<1>5. ASSUME NEW c \in Callers, JoinCreate(c) PROVE Goal
  BY <1>0, <1>4, <1>5, JoinCreateEffect DEF EntriesStamped, QueueTypeOK
<1>6. ASSUME NEW c \in Callers, JoinFails(c) \/ PopFails(c) \/ PopLost(c) PROVE Goal
  BY <1>0, <1>4, <1>6, GiveUpEffect DEF EntriesStamped, QueueTypeOK
<1>7. ASSUME NEW c \in Callers, PopEnqueue(c) PROVE Goal
  <2>1. PICK n : n = Len(jobs) + 1
    OBVIOUS
  <2>2. Return(c) /\ UNCHANGED <<waitlist, clock, popped, lost, resends>>
    BY <1>7 DEF PopEnqueue
  <2>3. jobs' \in Seq(Job) /\ Len(jobs') <= MaxJobs
    BY <1>0, <1>7, <2>1, EnqueueEffect DEF PopEnqueue, WaitInv, WaitlistTypeOK
  <2>4. QED
    BY <1>0, <1>4, <2>2, <2>3 DEF EntriesStamped
<1>8. ASSUME NEW c \in Callers, PopDelete(c) PROVE Goal
  <2>1. PICK x, n : x = call[c].entry /\ n = Len(popped) + 1
    OBVIOUS
  <2>2. /\ waitlist' = waitlist \ {x} /\ Stamped(x)
        /\ popped' \in Seq(Entry) /\ DOMAIN popped' = DOMAIN popped \cup {n} /\ popped'[n] = x
        /\ \A i \in DOMAIN popped : popped'[i] = popped[i]
        /\ call' \in [Callers -> [step: Calls, entry: Entry \cup {NoEntry}]]
        /\ call'[c].step = "enqueue" /\ call'[c].entry = x
        /\ \A d \in Callers : d # c => call'[d] = call[d]
        /\ UNCHANGED <<jobs, clock, lost, resends>>
    BY <1>8, <2>1, PopDeleteEffect
  <2>3. x # NoEntry
    BY <1>0, <2>2, StampedIsEntry
  <2>4. EntriesStamped'
    BY <1>0, <2>2 DEF EntriesStamped, Stamped, At
  <2>5. WaitlistTypeOK'
    BY <1>0, <2>2, <2>3 DEF WaitlistTypeOK, QueueTypeOK, At
  <2>6. QED
    BY <2>4, <2>5 DEF WaitInv
<1>9. ASSUME NEW c \in Callers, PopEnqueueUnanswered(c) PROVE Goal
  <2>1. PICK n : n = Len(jobs) + 1
    OBVIOUS
  <2>2. UNCHANGED <<waitlist, call, clock, popped, lost>> /\ resends' \in 0 .. MaxResends
    BY <1>0, <1>9, WaitlistAssumption DEF PopEnqueueUnanswered
  <2>3. jobs' \in Seq(Job) /\ Len(jobs') <= MaxJobs
    BY <1>0, <1>9, <2>1, EnqueueEffect DEF PopEnqueueUnanswered, WaitInv, WaitlistTypeOK
  <2>4. QED
    BY <1>0, <2>2, <2>3 DEF WaitInv, WaitlistTypeOK, QueueTypeOK, EntriesStamped, Stamped, At
<1>10. ASSUME UNCHANGED waitlistVars PROVE Goal
  BY <1>0, <1>10 DEF waitlistVars, WaitInv, WaitlistTypeOK, QueueTypeOK, EntriesStamped, Stamped, At
<1> HIDE DEF Goal
<1>11. ASSUME WaitlistNext PROVE Goal
  BY <1>1, <1>2, <1>3, <1>5, <1>6, <1>7, <1>8, <1>9, <1>11, WaitCases
<1>12. QED
  BY <1>10, <1>11 DEF Goal

LEMMA WaitInvInit ==
    ASSUME WaitlistInit
    PROVE  WaitInv
<1>1. 0 \in 0 .. MaxJoins /\ 0 \in 0 .. MaxLost /\ 0 \in 0 .. MaxResends
  BY WaitlistAssumption
<1>2. << >> \in Seq(Job) /\ << >> \in Seq(Entry) /\ Len(<< >>) = 0 /\ DOMAIN << >> = {}
      /\ Len(<< >>) <= MaxJobs
  BY QueueAssumption
<1>3. QED
  BY <1>1, <1>2 DEF WaitlistInit, QueueInit, WaitInv, WaitlistTypeOK, QueueTypeOK, Calls, At,
     EntriesStamped

LEMMA WaitInvariant == WaitlistSpec => []WaitInv
  BY WaitInvInit, WaitInvStep, PTL DEF WaitlistSpec

\* The table, the calls in progress, the promotions and the queue are well
\* formed in every reachable state, and a call that has begun has an entry.
THEOREM WaitlistTypeCorrect == WaitlistSpec => []WaitlistTypeOK
<1>1. WaitInv => WaitlistTypeOK
  BY DEF WaitInv
<1>2. QED
  BY <1>1, WaitInvariant, PTL

-----------------------------------------------------------------------------
(* Promoted once *)

LEMMA OnceStep ==
    ASSUME OnceInv, [WaitlistNext]_waitlistVars
    PROVE  (EntriesDiffer /\ PromotedOnce)'
<1> DEFINE Goal == (EntriesDiffer /\ PromotedOnce)'
<1>0. WaitInv /\ EntriesDiffer /\ PromotedOnce /\ EntriesStamped /\ clock \in Nat
  BY WaitlistAssumption DEF OnceInv, WaitInv, WaitlistTypeOK
\* Nothing new on the list or among the promoted, and no new creation.
<1>1. ASSUME waitlist' \subseteq waitlist, UNCHANGED popped,
             \A d \in Callers : call'[d].step = "create" => call'[d] = call[d]
      PROVE  Goal
  BY <1>0, <1>1 DEF EntriesDiffer, PromotedOnce, At
<1>2. ASSUME NEW c \in Callers, NEW u \in Users, NEW e \in EventIds, JoinFind(c, u, e)
      PROVE Goal
  <2>1. PICK n : n = clock + 1
    OBVIOUS
  <2>2. /\ n \in Nat /\ call'[c].entry.at = n /\ call'[c].step = "create"
        /\ \A d \in Callers : d # c => call'[d] = call[d]
        /\ UNCHANGED <<waitlist, popped>>
    BY <1>0, <1>2, <2>1, JoinFindEffect
  <2>3. /\ \A x \in waitlist : x.at # n
        /\ \A i \in DOMAIN popped : popped[i].at # n
        /\ \A d \in Callers : ~At(d, "idle") => call[d].entry.at # n
    BY <1>0, <2>1, <2>2 DEF EntriesStamped, Stamped
  <2>4. \A d \in Callers : At(d, "create") => call[d].entry.at # n
    BY <2>3 DEF At
  <2>5. PromotedOnce'
    BY <1>0, <2>2 DEF PromotedOnce
  <2>6. EntriesDiffer'
    BY <1>0, <2>2, <2>3, <2>4 DEF EntriesDiffer, At
  <2>7. QED
    BY <2>5, <2>6
<1>3. ASSUME NEW u \in Users, NEW e \in EventIds, Leave(u, e) PROVE Goal
  BY <1>1, <1>3 DEF Leave
<1>4. ASSUME NEW c \in Callers, NEW e \in EventIds, PopFind(c, e) PROVE Goal
  <2>1. /\ call'[c].step = "delete" /\ UNCHANGED <<waitlist, popped>>
        /\ \A d \in Callers : d # c => call'[d] = call[d]
    BY <1>0, <1>4, PopFindEffect
  <2>2. QED
    BY <1>1, <2>1
<1>5. ASSUME NEW c \in Callers, JoinCreate(c) PROVE Goal
  <2>1. PICK x : x = Inserted(c)
    OBVIOUS
  <2>2. /\ At(c, "create") /\ x.at = call[c].entry.at
        /\ waitlist' = waitlist \cup {x} /\ UNCHANGED popped
        /\ call'[c].step = "idle" /\ \A d \in Callers : d # c => call'[d] = call[d]
    BY <1>0, <1>5, <2>1, JoinCreateEffect, ReturnEffect
  <2>3. /\ \A y \in waitlist : y.at # x.at
        /\ \A i \in DOMAIN popped : popped[i].at # x.at
        /\ \A d \in Callers : At(d, "create") /\ d # c => call[d].entry.at # x.at
    BY <1>0, <2>2 DEF EntriesDiffer
  <2>4. PromotedOnce'
    BY <1>0, <2>2, <2>3 DEF PromotedOnce
  <2>5. EntriesDiffer'
    BY <1>0, <2>2, <2>3 DEF EntriesDiffer, At
  <2>6. QED
    BY <2>4, <2>5
<1>6. ASSUME NEW c \in Callers, Return(c), UNCHANGED <<waitlist, popped>> PROVE Goal
  <2>1. call'[c].step = "idle" /\ \A d \in Callers : d # c => call'[d] = call[d]
    BY <1>0, <1>6, ReturnEffect
  <2>2. QED
    BY <1>1, <1>6, <2>1
<1>7. ASSUME NEW c \in Callers, JoinFails(c) \/ PopFails(c) \/ PopLost(c) PROVE Goal
  BY <1>0, <1>6, <1>7, GiveUpEffect
<1>8. ASSUME NEW c \in Callers, PopDelete(c) PROVE Goal
  <2>1. PICK x, n : x = call[c].entry /\ n = Len(popped) + 1
    OBVIOUS
  <2>2. /\ x \in waitlist /\ waitlist' = waitlist \ {x}
        /\ DOMAIN popped' = DOMAIN popped \cup {n} /\ popped'[n] = x
        /\ \A i \in DOMAIN popped : popped'[i] = popped[i]
        /\ call'[c].step = "enqueue"
        /\ \A d \in Callers : d # c => call'[d] = call[d]
    BY <1>0, <1>8, <2>1, PopDeleteEffect
  <2>3. /\ \A y \in waitlist : y.at = x.at => y = x
        /\ \A i \in DOMAIN popped : popped[i].at # x.at
        /\ \A d \in Callers : At(d, "create") => call[d].entry.at # x.at
    BY <1>0, <2>2 DEF EntriesDiffer, PromotedOnce
  <2>4. PromotedOnce'
    BY <1>0, <2>2, <2>3 DEF PromotedOnce
  <2>5. EntriesDiffer'
    BY <1>0, <2>2, <2>3 DEF EntriesDiffer, At
  <2>6. QED
    BY <2>4, <2>5
<1>9. ASSUME NEW c \in Callers, PopEnqueue(c) PROVE Goal
  <2>1. Return(c) /\ UNCHANGED <<waitlist, popped>>
    BY <1>9 DEF PopEnqueue
  <2>2. QED
    BY <1>6, <2>1
<1>10. ASSUME NEW c \in Callers, PopEnqueueUnanswered(c) PROVE Goal
  BY <1>1, <1>10 DEF PopEnqueueUnanswered
<1>11. ASSUME UNCHANGED waitlistVars PROVE Goal
  BY <1>1, <1>11 DEF waitlistVars
<1> HIDE DEF Goal
<1>12. ASSUME WaitlistNext PROVE Goal
  BY <1>2, <1>3, <1>4, <1>5, <1>7, <1>8, <1>9, <1>10, <1>12, WaitCases
<1>13. QED
  BY <1>11, <1>12 DEF Goal

LEMMA OnceInvariant == WaitlistSpec => []OnceInv
<1>1. ASSUME WaitlistInit PROVE OnceInv
  <2>1. WaitInv
    BY <1>1, WaitInvInit
  <2>2. EntriesDiffer /\ PromotedOnce
    BY <1>1 DEF WaitlistInit, EntriesDiffer, PromotedOnce, At
  <2>3. QED
    BY <2>1, <2>2 DEF OnceInv
<1>2. ASSUME OnceInv, [WaitlistNext]_waitlistVars PROVE OnceInv'
  <2>1. WaitInv
    BY <1>2 DEF OnceInv
  <2>2. QED
    BY <1>2, <2>1, WaitInvStep, OnceStep DEF OnceInv
<1>3. QED
  BY <1>1, <1>2, PTL DEF WaitlistSpec

\* However many calls of popNext overlap with each other and with leave, an
\* entry is promoted once, and is off the waitlist then: the delete by id fails
\* for all but one of those that chose it.
THEOREM EntriesPromotedOnce == WaitlistSpec => []PromotedOnce
<1>1. OnceInv => PromotedOnce
  BY DEF OnceInv
<1>2. QED
  BY <1>1, OnceInvariant, PTL

-----------------------------------------------------------------------------
(* Promoted in order *)

LEMMA OrderStep ==
    ASSUME OrderInv, [WaitlistNext]_waitlistVars
    PROVE  (OvertakenIsLate /\ ChosenIsFirst /\ PromotedInOrder)'
<1> DEFINE Goal == (OvertakenIsLate /\ ChosenIsFirst /\ PromotedInOrder)'
<1>0. WaitInv /\ OvertakenIsLate /\ ChosenIsFirst /\ PromotedInOrder /\ EntriesStamped
      /\ clock \in Nat /\ popped \in Seq(Entry) /\ waitlist \subseteq Entry
  BY WaitlistAssumption DEF OrderInv, WaitInv, WaitlistTypeOK
\* Nothing new on the list or among the promoted, and nothing new chosen.
<1>1. ASSUME waitlist' \subseteq waitlist, UNCHANGED popped,
             \A d \in Callers : call'[d].step = "delete" => call'[d] = call[d]
      PROVE  Goal
  BY <1>0, <1>1 DEF OvertakenIsLate, ChosenIsFirst, PromotedInOrder, At
<1>2. ASSUME NEW c \in Callers, NEW u \in Users, NEW e \in EventIds, JoinFind(c, u, e)
      PROVE Goal
  <2>1. PICK n : n = clock + 1
    OBVIOUS
  <2>2. call'[c].step = "create" /\ UNCHANGED <<waitlist, popped>>
        /\ \A d \in Callers : d # c => call'[d] = call[d]
    BY <1>0, <1>2, <2>1, JoinFindEffect
  <2>3. QED
    BY <1>1, <2>2
<1>3. ASSUME NEW u \in Users, NEW e \in EventIds, Leave(u, e) PROVE Goal
  BY <1>1, <1>3 DEF Leave
\* The one that is chosen is not younger than any other on the list.
<1>4. ASSUME NEW c \in Callers, NEW e \in EventIds, PopFind(c, e) PROVE Goal
  <2>1. PICK x \in waitlist :
           /\ Stamped(x) /\ call'[c].step = "delete" /\ call'[c].entry = x
           /\ \A d \in Callers : d # c => call'[d] = call[d]
           /\ \A y \in waitlist : y.event = x.event => x.at <= y.at
           /\ UNCHANGED <<waitlist, popped>>
    BY <1>0, <1>4, PopFindEffect
  <2>2. \A y \in waitlist : y.event = x.event => ~(y.at < x.at)
    BY <1>0, <2>1 DEF Entry, Stamped
  <2>3. ChosenIsFirst'
    BY <1>0, <2>1, <2>2 DEF ChosenIsFirst, At
  <2>4. QED
    BY <1>0, <2>1, <2>3 DEF OvertakenIsLate, PromotedInOrder
\* A new entry is marked late if a younger one was chosen or promoted before.
<1>5. ASSUME NEW c \in Callers, JoinCreate(c) PROVE Goal
  <2>1. PICK x, y : x = Inserted(c) /\ y = call[c].entry
    OBVIOUS
  <2>2. /\ x.at = y.at /\ x.event = y.event /\ x.late = Overtaken(y)
        /\ waitlist' = waitlist \cup {x} /\ UNCHANGED popped
        /\ call'[c].step = "idle" /\ \A d \in Callers : d # c => call'[d] = call[d]
        /\ Stamped(x)
    BY <1>0, <1>5, <2>1, JoinCreateEffect, ReturnEffect
  <2>3. \A i \in DOMAIN popped : popped[i].event = x.event /\ x.at < popped[i].at => x.late
    <3>1. \A i \in DOMAIN popped : popped[i].at \in Int /\ x.at \in Int
      BY <1>0, <2>2 DEF EntriesStamped, Stamped
    <3>2. QED
      BY <2>2, <3>1 DEF Overtaken
  <2>4. \A d \in Callers : At(d, "delete") /\ call[d].entry.event = x.event /\ x.at < call[d].entry.at
            => x.late
    <3>1. \A d \in Callers : At(d, "delete") => call[d].entry.at \in Int /\ x.at \in Int
      BY <1>0, <2>2 DEF EntriesStamped, Stamped, At
    <3>2. QED
      BY <2>2, <3>1 DEF Overtaken
  <2>5. OvertakenIsLate'
    BY <1>0, <2>2, <2>3 DEF OvertakenIsLate
  <2>6. ChosenIsFirst'
    BY <1>0, <2>2, <2>4 DEF ChosenIsFirst, At
  <2>7. QED
    BY <1>0, <2>2, <2>5, <2>6 DEF PromotedInOrder
<1>6. ASSUME NEW c \in Callers, Return(c), UNCHANGED <<waitlist, popped>> PROVE Goal
  <2>1. call'[c].step = "idle" /\ \A d \in Callers : d # c => call'[d] = call[d]
    BY <1>0, <1>6, ReturnEffect
  <2>2. QED
    BY <1>1, <1>6, <2>1
<1>7. ASSUME NEW c \in Callers, JoinFails(c) \/ PopFails(c) \/ PopLost(c) PROVE Goal
  BY <1>0, <1>6, <1>7, GiveUpEffect
<1>8. ASSUME NEW c \in Callers, PopDelete(c) PROVE Goal
  <2>1. PICK x, n : x = call[c].entry /\ n = Len(popped) + 1
    OBVIOUS
  <2>2. /\ At(c, "delete") /\ x \in waitlist /\ waitlist' = waitlist \ {x}
        /\ n \notin DOMAIN popped /\ n \in Nat
        /\ DOMAIN popped' = DOMAIN popped \cup {n} /\ popped'[n] = x
        /\ \A i \in DOMAIN popped : popped'[i] = popped[i] /\ i < n
        /\ call'[c].step = "enqueue"
        /\ \A d \in Callers : d # c => call'[d] = call[d]
    BY <1>0, <1>8, <2>1, PopDeleteEffect
  <2>3. \A y \in waitlist : y.event = x.event /\ y.at < x.at => y.late
    BY <1>0, <2>1, <2>2 DEF ChosenIsFirst
  <2>4. OvertakenIsLate'
    BY <1>0, <2>2, <2>3 DEF OvertakenIsLate
  <2>5. ChosenIsFirst'
    BY <1>0, <2>2 DEF ChosenIsFirst, At
  <2>6. PromotedInOrder'
    <3> SUFFICES ASSUME NEW i \in DOMAIN popped', NEW j \in DOMAIN popped',
                        i < j, popped'[i].event = popped'[j].event, popped'[j].at < popped'[i].at
                 PROVE  popped'[j].late
      BY DEF PromotedInOrder
    <3>1. \A k \in DOMAIN popped : k \in Nat
      BY <1>0
    <3>2. i \in DOMAIN popped
      BY <2>2, <3>1
    <3>3. CASE j = n
      BY <1>0, <2>2, <3>2, <3>3 DEF OvertakenIsLate
    <3>4. CASE j \in DOMAIN popped
      BY <1>0, <2>2, <3>2, <3>4 DEF PromotedInOrder
    <3>5. QED
      BY <2>2, <3>3, <3>4
  <2>7. QED
    BY <2>4, <2>5, <2>6
<1>9. ASSUME NEW c \in Callers, PopEnqueue(c) PROVE Goal
  <2>1. Return(c) /\ UNCHANGED <<waitlist, popped>>
    BY <1>9 DEF PopEnqueue
  <2>2. QED
    BY <1>6, <2>1
<1>10. ASSUME NEW c \in Callers, PopEnqueueUnanswered(c) PROVE Goal
  BY <1>1, <1>10 DEF PopEnqueueUnanswered
<1>11. ASSUME UNCHANGED waitlistVars PROVE Goal
  BY <1>1, <1>11 DEF waitlistVars
<1> HIDE DEF Goal
<1>12. ASSUME WaitlistNext PROVE Goal
  BY <1>2, <1>3, <1>4, <1>5, <1>7, <1>8, <1>9, <1>10, <1>12, WaitCases
<1>13. QED
  BY <1>11, <1>12 DEF Goal

\* First come, first served: popNext promotes an entry after a younger one of
\* the same event only if it reached the table when the younger was chosen.
THEOREM OldestPromotedFirst == WaitlistSpec => []PromotedInOrder
<1>1. ASSUME WaitlistInit PROVE OrderInv
  <2>1. WaitInv
    BY <1>1, WaitInvInit
  <2>2. OvertakenIsLate /\ ChosenIsFirst /\ PromotedInOrder
    BY <1>1 DEF WaitlistInit, OvertakenIsLate, ChosenIsFirst, PromotedInOrder
  <2>3. QED
    BY <2>1, <2>2 DEF OrderInv
<1>2. ASSUME OrderInv, [WaitlistNext]_waitlistVars PROVE OrderInv'
  <2>1. WaitInv
    BY <1>2 DEF OrderInv
  <2>2. QED
    BY <1>2, <2>1, WaitInvStep, OrderStep DEF OrderInv
<1>3. OrderInv => PromotedInOrder
  BY DEF OrderInv
<1>4. QED
  BY <1>1, <1>2, <1>3, PTL DEF WaitlistSpec

-----------------------------------------------------------------------------
(* Every promotion becomes a job *)

Busy == {c \in Callers : ~At(c, "idle")}

ReachInv == WaitInv /\ FewBusy /\ PromotionsReachQueue

\* The sets that PromotionsReachQueue counts are finite.
LEMMA CountedFinite ==
    ASSUME WaitInv, FewBusy, NEW u, NEW e
    PROVE  /\ IsFiniteSet(Promoted(u, e)) /\ IsFiniteSet(JobsFor(u, e))
           /\ IsFiniteSet(BeingPromoted(u, e))
           /\ Cardinality(Promoted(u, e)) \in Nat /\ Cardinality(JobsFor(u, e)) \in Nat
           /\ Cardinality(BeingPromoted(u, e)) \in Nat
<1>1. popped \in Seq(Entry) /\ jobs \in Seq(Job)
  BY DEF WaitInv, WaitlistTypeOK, QueueTypeOK
<1>2. DOMAIN popped = 1 .. Len(popped) /\ DOMAIN jobs = 1 .. Len(jobs)
      /\ Len(popped) \in Nat /\ Len(jobs) \in Nat
  BY <1>1
<1>3. IsFiniteSet(DOMAIN popped) /\ IsFiniteSet(DOMAIN jobs)
  BY <1>2, FS_Interval
<1>4. Promoted(u, e) \subseteq DOMAIN popped /\ JobsFor(u, e) \subseteq DOMAIN jobs
      /\ BeingPromoted(u, e) \subseteq Busy /\ IsFiniteSet(Busy)
  BY DEF Promoted, JobsFor, BeingPromoted, Busy, FewBusy, At
<1>5. IsFiniteSet(Promoted(u, e)) /\ IsFiniteSet(JobsFor(u, e)) /\ IsFiniteSet(BeingPromoted(u, e))
  BY <1>3, <1>4, FS_Subset
<1>6. QED
  BY <1>5, FS_CardinalityType

LEMMA FewBusyStep ==
    ASSUME WaitInv, FewBusy, [WaitlistNext]_waitlistVars
    PROVE  FewBusy'
<1>1. ASSUME NEW c \in Callers, \A d \in Callers : d # c => call'[d] = call[d]
      PROVE  FewBusy'
  <2>1. Busy' \subseteq Busy \cup {c}
    BY <1>1 DEF Busy, At
  <2>2. IsFiniteSet(Busy \cup {c})
    BY FS_AddElement DEF FewBusy, Busy
  <2>3. IsFiniteSet(Busy')
    BY <2>1, <2>2, FS_Subset
  <2>4. QED
    BY <2>3 DEF FewBusy, Busy
<1>2. call \in [Callers -> [step: Calls, entry: Entry \cup {NoEntry}]]
  BY DEF WaitInv, WaitlistTypeOK
<1>3. CASE UNCHANGED call
  BY <1>3 DEF FewBusy, At
<1>4. ASSUME NEW c \in Callers, NEW step, NEW entry, Doing(c, step, entry) PROVE FewBusy'
  <2>1. \A d \in Callers : d # c => call'[d] = call[d]
    BY <1>2, <1>4 DEF Doing
  <2>2. QED
    BY <1>1, <2>1
<1>5. QED
  BY <1>3, <1>4 DEF WaitlistNext, JoinFind, Leave, PopFind, JoinCreate, JoinFails, PopDelete,
     PopFails, PopEnqueue, PopEnqueueUnanswered, PopLost, Return, waitlistVars

\* Jobs and calls in between against promotions, for one user and event.
Bounded(u, e) ==
    LET promoted == Cardinality(Promoted(u, e))
        reached  == Cardinality(JobsFor(u, e)) + Cardinality(BeingPromoted(u, e)) IN
    promoted - lost <= reached /\ reached <= promoted + resends

LEMMA ReachStep ==
    ASSUME ReachInv, [WaitlistNext]_waitlistVars
    PROVE  PromotionsReachQueue'
<1> SUFFICES ASSUME NEW u \in Users, NEW e \in EventIds
             PROVE  Bounded(u, e)'
  BY DEF PromotionsReachQueue, Bounded
<1> DEFINE Goal == Bounded(u, e)'
<1>0. WaitInv /\ FewBusy
  BY DEF ReachInv
<1>1. Cardinality(Promoted(u, e)) \in Nat /\ Cardinality(JobsFor(u, e)) \in Nat
      /\ Cardinality(BeingPromoted(u, e)) \in Nat /\ lost \in Nat /\ resends \in Nat
      /\ IsFiniteSet(Promoted(u, e)) /\ IsFiniteSet(JobsFor(u, e))
      /\ IsFiniteSet(BeingPromoted(u, e))
  BY <1>0, CountedFinite, WaitlistAssumption DEF WaitInv, WaitlistTypeOK
<1>2. /\ Cardinality(Promoted(u, e)) - lost <= Cardinality(JobsFor(u, e)) + Cardinality(BeingPromoted(u, e))
      /\ Cardinality(JobsFor(u, e)) + Cardinality(BeingPromoted(u, e)) <= Cardinality(Promoted(u, e)) + resends
  BY DEF ReachInv, PromotionsReachQueue
\* Steps that leave the promotions, the queue and those in between alone.
<1>3. ASSUME UNCHANGED <<popped, jobs, lost, resends>>,
             \A d \in Callers : (call'[d].step = "enqueue") <=> At(d, "enqueue"),
             \A d \in Callers : At(d, "enqueue") => call'[d] = call[d]
      PROVE  Goal
  <2>1. Promoted(u, e)' = Promoted(u, e) /\ JobsFor(u, e)' = JobsFor(u, e)
    BY <1>3 DEF Promoted, JobsFor
  <2>2. BeingPromoted(u, e)' = BeingPromoted(u, e)
    BY <1>3 DEF BeingPromoted, At
  <2>3. QED
    BY <1>2, <1>3, <2>1, <2>2 DEF Bounded
<1>4. ASSUME NEW c \in Callers, ~At(c, "enqueue"), call'[c].step # "enqueue",
             \A d \in Callers : d # c => call'[d] = call[d],
             UNCHANGED <<popped, jobs, lost, resends>>
      PROVE  Goal
  BY <1>3, <1>4 DEF At
<1>5. ASSUME NEW c \in Callers, NEW x \in Users, NEW y \in EventIds, JoinFind(c, x, y)
      PROVE Goal
  <2>1. PICK n : n = clock + 1
    OBVIOUS
  <2>2. At(c, "idle") /\ call'[c].step = "create" /\ UNCHANGED <<popped, jobs, lost, resends>>
        /\ \A d \in Callers : d # c => call'[d] = call[d]
    BY <1>0, <1>5, <2>1, JoinFindEffect
  <2>3. QED
    BY <1>4, <2>2 DEF At
<1>6. ASSUME NEW x \in Users, NEW y \in EventIds, Leave(x, y) PROVE Goal
  BY <1>3, <1>6 DEF Leave, At
<1>7. ASSUME NEW c \in Callers, NEW y \in EventIds, PopFind(c, y) PROVE Goal
  <2>1. At(c, "idle") /\ call'[c].step = "delete" /\ UNCHANGED <<popped, jobs, lost, resends>>
        /\ \A d \in Callers : d # c => call'[d] = call[d]
    BY <1>0, <1>7, PopFindEffect
  <2>2. QED
    BY <1>4, <2>1 DEF At
<1>8. ASSUME NEW c \in Callers, Return(c), ~At(c, "enqueue"), UNCHANGED <<popped, jobs, lost, resends>>
      PROVE Goal
  BY <1>0, <1>4, <1>8, ReturnEffect
<1>9. ASSUME NEW c \in Callers, JoinCreate(c) PROVE Goal
  BY <1>8, <1>9 DEF JoinCreate, At
<1>10. ASSUME NEW c \in Callers, JoinFails(c) \/ PopFails(c) \/ PopLost(c) PROVE Goal
  <2>1. CASE PopLost(c)
    <3>1. /\ At(c, "enqueue") /\ lost' = lost + 1 /\ UNCHANGED <<popped, jobs, resends>>
          /\ call'[c].step = "idle" /\ \A d \in Callers : d # c => call'[d] = call[d]
      BY <1>0, <2>1, ReturnEffect DEF PopLost
    <3>2. Promoted(u, e)' = Promoted(u, e) /\ JobsFor(u, e)' = JobsFor(u, e)
      BY <3>1 DEF Promoted, JobsFor
    <3>3. BeingPromoted(u, e)' = BeingPromoted(u, e) \ {c}
      BY <3>1 DEF BeingPromoted, At
    <3>4. /\ Cardinality(BeingPromoted(u, e)') \in Nat
          /\ Cardinality(BeingPromoted(u, e)') <= Cardinality(BeingPromoted(u, e))
          /\ Cardinality(BeingPromoted(u, e)) <= Cardinality(BeingPromoted(u, e)') + 1
      <4>1. CASE c \in BeingPromoted(u, e)
        <5>1. Cardinality(BeingPromoted(u, e) \ {c}) = Cardinality(BeingPromoted(u, e)) - 1
          BY <1>1, <4>1, FS_RemoveElement
        <5>2. IsFiniteSet(BeingPromoted(u, e) \ {c})
          BY <1>1, FS_Subset
        <5>3. Cardinality(BeingPromoted(u, e) \ {c}) \in Nat
          BY <5>2, FS_CardinalityType
        <5>4. QED
          BY <1>1, <3>3, <5>1, <5>3
      <4>2. CASE c \notin BeingPromoted(u, e)
        <5>1. BeingPromoted(u, e)' = BeingPromoted(u, e)
          BY <3>3, <4>2
        <5>2. QED
          BY <1>1, <5>1
      <4>3. QED
        BY <4>1, <4>2
    <3>5. QED
      BY <1>1, <1>2, <3>1, <3>2, <3>4 DEF Bounded
  <2>2. CASE JoinFails(c) \/ PopFails(c)
    BY <1>8, <2>2 DEF JoinFails, PopFails, At
  <2>3. QED
    BY <1>10, <2>1, <2>2
<1>11. ASSUME NEW c \in Callers, PopDelete(c) PROVE Goal
  <2>1. PICK x, n : x = call[c].entry /\ n = Len(popped) + 1
    OBVIOUS
  <2>2. /\ At(c, "delete") /\ n \notin DOMAIN popped
        /\ DOMAIN popped' = DOMAIN popped \cup {n} /\ popped'[n] = x
        /\ \A i \in DOMAIN popped : popped'[i] = popped[i]
        /\ call'[c].step = "enqueue" /\ call'[c].entry = x
        /\ \A d \in Callers : d # c => call'[d] = call[d]
        /\ UNCHANGED <<jobs, lost, resends>>
    BY <1>0, <1>11, <2>1, PopDeleteEffect
  <2>3. JobsFor(u, e)' = JobsFor(u, e)
    BY <2>2 DEF JobsFor
  <2>4. CASE x.user = u /\ x.event = e
    <3>1. /\ Promoted(u, e)' = Promoted(u, e) \cup {n} /\ n \notin Promoted(u, e)
          /\ BeingPromoted(u, e)' = BeingPromoted(u, e) \cup {c} /\ c \notin BeingPromoted(u, e)
      BY <2>2, <2>4 DEF Promoted, BeingPromoted, At
    <3>2. Cardinality(Promoted(u, e)') = Cardinality(Promoted(u, e)) + 1
      BY <1>1, <3>1, FS_AddElement
    <3>3. Cardinality(BeingPromoted(u, e)') = Cardinality(BeingPromoted(u, e)) + 1
      BY <1>1, <3>1, FS_AddElement
    <3>4. QED
      BY <1>1, <1>2, <2>2, <2>3, <3>2, <3>3 DEF Bounded
  <2>5. CASE ~(x.user = u /\ x.event = e)
    <3>1. Promoted(u, e)' = Promoted(u, e) /\ BeingPromoted(u, e)' = BeingPromoted(u, e)
      BY <2>2, <2>5 DEF Promoted, BeingPromoted, At
    <3>2. QED
      BY <1>2, <2>2, <2>3, <3>1 DEF Bounded
  <2>6. QED
    BY <2>4, <2>5
<1>12. ASSUME NEW c \in Callers, PopEnqueue(c) PROVE Goal
  <2>1. PICK x, n : x = call[c].entry /\ n = Len(jobs) + 1
    OBVIOUS
  <2>2. /\ At(c, "enqueue") /\ n \notin DOMAIN jobs
        /\ DOMAIN jobs' = DOMAIN jobs \cup {n}
        /\ jobs'[n].data.user = x.user /\ jobs'[n].data.event = x.event
        /\ \A i \in DOMAIN jobs : jobs'[i] = jobs[i]
        /\ Return(c)
        /\ UNCHANGED <<popped, lost, resends>>
    BY <1>0, <1>12, <2>1, EnqueueEffect DEF PopEnqueue
  <2>3. call'[c].step = "idle" /\ \A d \in Callers : d # c => call'[d] = call[d]
    BY <1>0, <2>2, ReturnEffect
  <2>4. Promoted(u, e)' = Promoted(u, e)
    BY <2>2 DEF Promoted
  <2>5. CASE x.user = u /\ x.event = e
    <3>1. /\ JobsFor(u, e)' = JobsFor(u, e) \cup {n} /\ n \notin JobsFor(u, e)
          /\ BeingPromoted(u, e)' = BeingPromoted(u, e) \ {c} /\ c \in BeingPromoted(u, e)
      BY <2>1, <2>2, <2>3, <2>5 DEF JobsFor, BeingPromoted, At
    <3>2. Cardinality(JobsFor(u, e)') = Cardinality(JobsFor(u, e)) + 1
      BY <1>1, <3>1, FS_AddElement
    <3>3. Cardinality(BeingPromoted(u, e)') = Cardinality(BeingPromoted(u, e)) - 1
      BY <1>1, <3>1, FS_RemoveElement
    <3>4. QED
      BY <1>1, <1>2, <2>2, <2>4, <3>2, <3>3 DEF Bounded
  <2>6. CASE ~(x.user = u /\ x.event = e)
    <3>1. JobsFor(u, e)' = JobsFor(u, e) /\ BeingPromoted(u, e)' = BeingPromoted(u, e)
      BY <2>1, <2>2, <2>3, <2>6 DEF JobsFor, BeingPromoted, At
    <3>2. QED
      BY <1>2, <2>2, <2>4, <3>1 DEF Bounded
  <2>7. QED
    BY <2>5, <2>6
<1>13. ASSUME NEW c \in Callers, PopEnqueueUnanswered(c) PROVE Goal
  <2>1. PICK x, n : x = call[c].entry /\ n = Len(jobs) + 1
    OBVIOUS
  <2>2. /\ n \notin DOMAIN jobs /\ DOMAIN jobs' = DOMAIN jobs \cup {n}
        /\ jobs'[n].data.user = x.user /\ jobs'[n].data.event = x.event
        /\ \A i \in DOMAIN jobs : jobs'[i] = jobs[i]
        /\ resends' = resends + 1 /\ UNCHANGED <<call, popped, lost>>
    BY <1>0, <1>13, <2>1, EnqueueEffect DEF PopEnqueueUnanswered
  <2>3. Promoted(u, e)' = Promoted(u, e) /\ BeingPromoted(u, e)' = BeingPromoted(u, e)
    BY <2>2 DEF Promoted, BeingPromoted, At
  <2>4. CASE x.user = u /\ x.event = e
    <3>1. JobsFor(u, e)' = JobsFor(u, e) \cup {n} /\ n \notin JobsFor(u, e)
      BY <2>2, <2>4 DEF JobsFor
    <3>2. Cardinality(JobsFor(u, e)') = Cardinality(JobsFor(u, e)) + 1
      BY <1>1, <3>1, FS_AddElement
    <3>3. QED
      BY <1>1, <1>2, <2>2, <2>3, <3>2 DEF Bounded
  <2>5. CASE ~(x.user = u /\ x.event = e)
    <3>1. JobsFor(u, e)' = JobsFor(u, e)
      BY <2>2, <2>5 DEF JobsFor
    <3>2. QED
      BY <1>1, <1>2, <2>2, <2>3, <3>1 DEF Bounded
  <2>6. QED
    BY <2>4, <2>5
<1>14. ASSUME UNCHANGED waitlistVars PROVE Goal
  BY <1>3, <1>14 DEF waitlistVars, At
<1> HIDE DEF Goal
<1>15. ASSUME WaitlistNext PROVE Goal
  BY <1>5, <1>6, <1>7, <1>9, <1>10, <1>11, <1>12, <1>13, <1>15, WaitCases
<1>16. QED
  BY <1>14, <1>15 DEF Goal

\* Promotions and jobs of a user differ by the calls in between, by the calls
\* whose queue.add failed after the entry was deleted, and by the jobs that were
\* added again, and by nothing else.
THEOREM PromotionsBecomeJobs == WaitlistSpec => []PromotionsReachQueue
<1>1. ASSUME WaitlistInit PROVE ReachInv
  <2>1. WaitInv
    BY <1>1, WaitInvInit
  <2>2. FewBusy
    <3>1. {c \in Callers : ~At(c, "idle")} = {}
      BY <1>1 DEF WaitlistInit, At
    <3>2. QED
      BY <3>1, FS_EmptySet DEF FewBusy
  <2>3. \A u \in Users, e \in EventIds :
           Promoted(u, e) = {} /\ JobsFor(u, e) = {} /\ BeingPromoted(u, e) = {}
    BY <1>1 DEF WaitlistInit, QueueInit, Promoted, JobsFor, BeingPromoted, At
  <2>4. Cardinality({}) = 0
    BY FS_EmptySet
  <2>5. lost = 0 /\ resends = 0
    BY <1>1 DEF WaitlistInit
  <2>6. QED
    BY <2>1, <2>2, <2>3, <2>4, <2>5 DEF ReachInv, PromotionsReachQueue
<1>2. ASSUME ReachInv, [WaitlistNext]_waitlistVars PROVE ReachInv'
  <2>1. WaitInv /\ FewBusy
    BY <1>2 DEF ReachInv
  <2>2. QED
    BY <1>2, <2>1, WaitInvStep, FewBusyStep, ReachStep DEF ReachInv
<1>3. ReachInv => PromotionsReachQueue
  BY DEF ReachInv
<1>4. QED
  BY <1>1, <1>2, <1>3, PTL DEF WaitlistSpec

-----------------------------------------------------------------------------
(* Reading the list page after page *)

Walk == [page: Nat, entry: Entry \cup {NoEntry}, shown: Nat, older: SUBSET Entry,
         left: BOOLEAN, came: BOOLEAN]

\* The list as a reader needs it: finite, and in one order.
Listing ==
    /\ IsFiniteSet(waitlist)
    /\ waitlist \subseteq Entry
    /\ \A x, y \in waitlist : x.at = y.at => x = y

\* Unless an older entry left, one that was not shown was behind the last page;
\* unless an older one came, one that was shown is before the next.
WalkOK(w) ==
    /\ w \in Walk
    /\ w.entry \in waitlist
    /\ w.page > 0
    /\ IsFiniteSet(w.older)
    /\ w.shown = 0 /\ ~w.left => Cardinality(w.older) >= Offset(w.page)
    /\ ~w.came => /\ w.shown <= 1
                  /\ w.shown = 1 => Cardinality(w.older) < Offset(w.page)

ReaderInv == walk = NoWalk \/ WalkOK(walk)

\* The walk has its own variable, and disturbs nobody.
LEMMA ReaderChangesNothing == ReaderSpec => WaitlistSpec
<1>1. ReaderInit => WaitlistInit
  BY DEF ReaderInit
<1>2. [ReaderNext]_readerVars => [WaitlistNext]_waitlistVars
  BY DEF ReaderNext, readerVars, waitlistVars, ReadPage, ListChanges
<1>3. QED
  BY <1>1, <1>2, PTL DEF ReaderSpec, WaitlistSpec

LEMMA ListFinite == WaitlistSpec => []IsFiniteSet(waitlist)
<1>1. WaitlistInit => IsFiniteSet(waitlist)
  BY FS_EmptySet DEF WaitlistInit
<1>2. ASSUME WaitInv, IsFiniteSet(waitlist), [WaitlistNext]_waitlistVars
      PROVE  IsFiniteSet(waitlist)'
  <2>1. ASSUME waitlist' \subseteq waitlist PROVE IsFiniteSet(waitlist')
    BY <1>2, <2>1, FS_Subset
  <2>2. ASSUME NEW c \in Callers, JoinCreate(c) PROVE IsFiniteSet(waitlist')
    BY <1>2, <2>2, JoinCreateEffect, FS_AddElement
  <2>3. ASSUME WaitlistNext, \A c \in Callers : ~JoinCreate(c) PROVE waitlist' \subseteq waitlist
    BY <2>3 DEF WaitlistNext, JoinFind, Leave, PopFind, JoinFails, PopDelete, PopFails,
                PopEnqueue, PopEnqueueUnanswered, PopLost
  <2>4. QED
    BY <1>2, <2>1, <2>2, <2>3 DEF waitlistVars
<1>3. QED
  BY <1>1, <1>2, WaitInvariant, PTL DEF WaitlistSpec

-----------------------------------------------------------------------------
(* Positions in the list *)

\* The position of an entry is one more than the number of older ones.
LEMMA RankCounts ==
    ASSUME Listing, NEW x \in waitlist
    PROVE  /\ IsFiniteSet(Older(x)) /\ Older(x) \in SUBSET Waiting(x.event)
           /\ Older(x) \in SUBSET Entry
           /\ Cardinality(Older(x)) \in Nat
           /\ Rank(x) = Cardinality(Older(x)) + 1
<1>1. \A y \in waitlist : y \in Entry /\ y.at \in Nat
  BY DEF Listing, Entry
<1>2. /\ Older(x) \in SUBSET Waiting(x.event) /\ Older(x) \in SUBSET waitlist
      /\ Older(x) \in SUBSET Entry
  BY <1>1 DEF Older, Waiting
<1>3. IsFiniteSet(Older(x))
  BY <1>2, FS_Subset DEF Listing
<1>4. x \notin Older(x)
  BY <1>1 DEF Older
<1>5. {y \in Waiting(x.event) : y.at <= x.at} = Older(x) \cup {x}
  BY <1>1 DEF Older, Waiting, Listing
<1>6. QED
  BY <1>2, <1>3, <1>4, <1>5, FS_AddElement, FS_CardinalityType DEF Rank

LEMMA WaitingFinite ==
    ASSUME Listing, NEW e
    PROVE  /\ IsFiniteSet(Waiting(e)) /\ Cardinality(Waiting(e)) \in Nat
           /\ \A S \in SUBSET Waiting(e) : /\ IsFiniteSet(S) /\ Cardinality(S) \in Nat
                                           /\ Cardinality(S) <= Cardinality(Waiting(e))
<1>1. Waiting(e) \in SUBSET waitlist
  BY DEF Waiting
<1>2. IsFiniteSet(Waiting(e))
  BY <1>1, FS_Subset DEF Listing
<1>3. QED
  BY <1>2, FS_Subset, FS_CardinalityType

\* An older entry is further up.
LEMMA RankOrders ==
    ASSUME Listing, NEW e, NEW x \in Waiting(e), NEW y \in Waiting(e), x.at < y.at
    PROVE  Rank(x) < Rank(y)
<1>1. /\ x \in waitlist /\ y \in waitlist /\ x.event = e /\ y.event = e
      /\ \A z \in waitlist : z.at \in Nat
  BY DEF Waiting, Listing, Entry
<1>2. Older(x) \cup {x} \in SUBSET Older(y)
  BY <1>1 DEF Older, Waiting
<1>3. Cardinality(Older(x) \cup {x}) = Cardinality(Older(x)) + 1
  <2>1. x \notin Older(x)
    BY <1>1 DEF Older
  <2>2. QED
    BY <1>1, <2>1, RankCounts, FS_AddElement
<1>4. Cardinality(Older(x) \cup {x}) <= Cardinality(Older(y))
  BY <1>1, <1>2, RankCounts, FS_Subset
<1>5. QED
  BY <1>1, <1>3, <1>4, RankCounts

\* Every position up to the length of the list is taken, by one entry.
LEMMA RanksAreTaken ==
    ASSUME Listing, NEW e
    PROVE  [x \in Waiting(e) |-> Rank(x)] \in Bijection(Waiting(e), 1 .. Cardinality(Waiting(e)))
<1> DEFINE S == Waiting(e)
           n == Cardinality(S)
           f == [x \in S |-> Rank(x)]
<1>1. IsFiniteSet(S) /\ n \in Nat
  BY WaitingFinite
<1>2. ASSUME NEW x \in S PROVE Rank(x) \in 1 .. n
  <2>1. x \in waitlist /\ x.event = e /\ \A y \in waitlist : y.at \in Nat
    BY DEF Waiting, Listing, Entry
  <2>2. {y \in Waiting(x.event) : y.at <= x.at} \in SUBSET S
    BY <2>1
  <2>3. Rank(x) <= n
    BY <2>2, WaitingFinite DEF Rank
  <2>4. QED
    BY <1>1, <2>1, <2>3, RankCounts
<1>3. ASSUME NEW x \in S, NEW y \in S, Rank(x) = Rank(y) PROVE x = y
  <2>1. x \in waitlist /\ y \in waitlist /\ x.at \in Nat /\ y.at \in Nat
    BY DEF Waiting, Listing, Entry
  <2>2. Rank(x) \in Int /\ Rank(y) \in Int
    BY <1>2
  <2>3. ~(x.at < y.at)
    BY <1>3, <2>2, RankOrders
  <2>4. ~(y.at < x.at)
    BY <1>3, <2>2, RankOrders
  <2>5. x.at = y.at
    BY <2>1, <2>3, <2>4
  <2>6. QED
    BY <2>1, <2>5 DEF Listing
<1>4. f \in Injection(S, 1 .. n)
  BY <1>2, <1>3 DEF Injection, IsInjective
<1>5. IsFiniteSet(1 .. n) /\ Cardinality(1 .. n) = n
  BY <1>1, FS_Interval
<1> HIDE DEF f, S, n
<1>6. f \in Surjection(S, 1 .. n)
  BY <1>4, <1>5, FS_Injection DEF n
<1>7. f \in Bijection(S, 1 .. n)
  BY <1>4, <1>6 DEF Bijection
<1>8. QED
  BY <1>7 DEF f, S, n

LEMMA OffsetGrows ==
    ASSUME NEW k \in Nat \ {0}
    PROVE  /\ Offset(k) \in Nat /\ Offset(k + 1) = Offset(k) + PageSize
           /\ Offset(k + 1) \in Nat /\ Offset(1) = 0
<1>1. k - 1 \in Nat /\ (k + 1) - 1 = (k - 1) + 1 /\ PageSize \in Nat
  BY PageAssumption
<1>2. \A a, b \in Nat : a * b \in Nat /\ (a + 1) * b = a * b + b
  OBVIOUS
<1>3. 0 * PageSize = 0
  BY <1>1
<1>4. QED
  BY <1>1, <1>2, <1>3 DEF Offset

\* A page that ends before some entry is full.
LEMMA PageIsFull ==
    ASSUME Listing, NEW x \in waitlist, NEW k \in Nat \ {0},
           Cardinality(Older(x)) >= Offset(k) + PageSize
    PROVE  Cardinality(Page(x.event, k)) = PageSize
<1> DEFINE S == Waiting(x.event)
           n == Cardinality(S)
           f == [y \in S |-> Rank(y)]
           P == Page(x.event, k)
           I == (Offset(k) + 1) .. (Offset(k) + PageSize)
           g == [y \in P |-> Rank(y)]
<1>1. Offset(k) \in Nat /\ PageSize \in Nat
  BY OffsetGrows, PageAssumption
<1>2. f \in Bijection(S, 1 .. n) /\ n \in Nat
  BY RanksAreTaken, WaitingFinite
<1>3. x \in S /\ f[x] \in 1 .. n /\ f[x] = Cardinality(Older(x)) + 1
      /\ Cardinality(Older(x)) \in Nat
  BY <1>2, RankCounts DEF Waiting, Bijection, Surjection
<1>4. I \subseteq 1 .. n
  BY <1>1, <1>2, <1>3
<1>5. P = {y \in S : f[y] \in I}
  BY DEF Page
<1>6. \A y \in P : g[y] = f[y] /\ g[y] \in I /\ y \in S
  BY <1>5
<1> HIDE DEF f, S, n, P, I
<1>7. \A y, z \in P : g[y] = g[z] => y = z
  BY <1>2, <1>6 DEF Bijection, Injection, IsInjective
<1>8. \A i \in I : \E y \in P : g[y] = i
  <2>1. \A i \in I : \E y \in S : f[y] = i
    BY <1>2, <1>4 DEF Bijection, Surjection
  <2>2. QED
    BY <1>5, <1>6, <2>1
<1>9. g \in Bijection(P, I)
  BY <1>6, <1>7, <1>8 DEF Bijection, Injection, Surjection, IsInjective
<1>10. IsFiniteSet(I) /\ Cardinality(I) = PageSize
  <2>1. /\ Offset(k) + 1 \in Int /\ Offset(k) + PageSize \in Int
        /\ ~(Offset(k) + 1 > Offset(k) + PageSize)
        /\ (Offset(k) + PageSize) - (Offset(k) + 1) + 1 = PageSize
    BY <1>1, PageAssumption
  <2>2. QED
    BY <2>1, FS_Interval DEF I
<1>11. IsFiniteSet(P)
  BY <1>5, WaitingFinite DEF S
<1>12. Cardinality(I) = Cardinality(P)
  BY <1>9, <1>11, FS_Bijection DEF ExistsBijection
<1>13. QED
  BY <1>10, <1>12 DEF P

-----------------------------------------------------------------------------
(* The walk *)

\* Reading a page keeps the account of the walk right.
LEMMA ShownOK ==
    ASSUME Listing, NEW w, WalkOK(w)
    PROVE  /\ WalkOK(Shown(w)) /\ Shown(w) # NoWalk
           /\ Shown(w).older = Older(w.entry) /\ Shown(w).page = w.page + 1
           /\ Shown(w).entry = w.entry
<1>0. PICK x, k : x = w.entry /\ k = w.page
  OBVIOUS
<1>1. /\ w \in Walk /\ x \in waitlist /\ k \in Nat \ {0} /\ w.shown \in Nat
      /\ w.left \in BOOLEAN /\ w.came \in BOOLEAN /\ w.older \in SUBSET Entry
      /\ IsFiniteSet(w.older) /\ Cardinality(w.older) \in Nat
  BY <1>0, FS_CardinalityType DEF WalkOK, Walk
<1>2. /\ IsFiniteSet(Older(x)) /\ Older(x) \in SUBSET Entry /\ Cardinality(Older(x)) \in Nat
      /\ Rank(x) = Cardinality(Older(x)) + 1
  BY <1>1, RankCounts
<1>3. PICK o, m, d, q : /\ o = Older(x) /\ m = Cardinality(o) /\ d = Cardinality(w.older)
                        /\ q = Offset(k)
  OBVIOUS
<1>4. Offset(k + 1) = q + PageSize /\ q \in Nat /\ PageSize \in Nat \ {0}
  BY <1>1, <1>3, OffsetGrows, PageAssumption
<1> DEFINE v == Shown(w)
           seen == x \in Page(x.event, k)
           left == w.left \/ ~(w.older \subseteq o)
           came == w.came \/ ~(o \subseteq w.older)
           shown == IF seen THEN w.shown + 1 ELSE w.shown
<1>5. seen <=> m + 1 > q /\ m + 1 <= q + PageSize
  <2>1. x \in Waiting(x.event)
    BY <1>1 DEF Waiting
  <2>2. seen <=> Rank(x) \in (q + 1) .. (q + PageSize)
    BY <1>3, <2>1 DEF Page
  <2>3. QED
    BY <1>2, <1>3, <1>4, <2>2
<1>6. v = [w EXCEPT !.page = k + 1, !.shown = shown, !.older = o, !.left = left, !.came = came]
  BY <1>0, <1>3 DEF Shown
<1> HIDE DEF seen, v
<1>7. shown \in Nat /\ left \in BOOLEAN /\ came \in BOOLEAN /\ k + 1 \in Nat
  BY <1>1
<1> HIDE DEF left, came, shown
<1>8. /\ v \in Walk /\ v.page = k + 1 /\ v.entry = x /\ v.older = o
      /\ v.shown = shown /\ v.left = left /\ v.came = came
  BY <1>0, <1>1, <1>2, <1>3, <1>6, <1>7 DEF Walk
<1>9. ASSUME v.shown = 0, ~v.left PROVE m >= q + PageSize
  <2>1. ~seen /\ w.shown = 0 /\ ~w.left /\ w.older \subseteq o
    <3>1. shown = 0
      BY <1>8, <1>9
    <3>2. ~seen /\ w.shown = 0
      BY <1>1, <3>1 DEF shown
    <3>3. ~left
      BY <1>8, <1>9
    <3>4. ~w.left /\ w.older \subseteq o
      BY <3>3, Zenon DEF left
    <3>5. QED
      BY <3>2, <3>4
  <2>2. d >= q
    BY <1>0, <1>3, <2>1 DEF WalkOK
  <2>3. d <= m
    BY <1>2, <1>3, <2>1, FS_Subset
  <2>4. QED
    BY <1>1, <1>2, <1>3, <1>4, <1>5, <2>1, <2>2, <2>3
<1>10. ASSUME ~v.came PROVE v.shown <= 1 /\ (v.shown = 1 => m < q + PageSize)
  <2>1. ~w.came /\ o \subseteq w.older
    BY <1>8, <1>10 DEF came
  <2>2. w.shown <= 1 /\ (w.shown = 1 => d < q)
    BY <1>0, <1>3, <2>1 DEF WalkOK
  <2>3. m <= d
    BY <1>1, <1>3, <2>1, FS_Subset
  <2>4. CASE w.shown = 1
    BY <1>1, <1>2, <1>3, <1>4, <1>5, <1>8, <2>2, <2>3, <2>4 DEF shown
  <2>5. CASE w.shown = 0
    BY <1>1, <1>2, <1>3, <1>4, <1>5, <1>8, <2>5 DEF shown
  <2>6. QED
    BY <1>1, <2>2, <2>4, <2>5
<1>11. WalkOK(v)
  <2>1. v.page > 0 /\ IsFiniteSet(v.older) /\ v.entry \in waitlist
    BY <1>1, <1>2, <1>3, <1>8
  <2>2. v.shown = 0 /\ ~v.left => Cardinality(v.older) >= Offset(v.page)
    BY <1>3, <1>4, <1>8, <1>9
  <2>3. ~v.came => v.shown <= 1 /\ (v.shown = 1 => Cardinality(v.older) < Offset(v.page))
    BY <1>3, <1>4, <1>8, <1>10
  <2>4. QED
    BY <1>8, <2>1, <2>2, <2>3 DEF WalkOK
<1>12. v # NoWalk
  BY <1>1, <1>8 DEF NoWalk
<1>13. QED
  BY <1>0, <1>3, <1>8, <1>11, <1>12 DEF v

LEMMA BegunOK ==
    ASSUME Listing, NEW x \in waitlist
    PROVE  WalkOK(Begun(x))
<1> DEFINE w == Begun(x)
<1>1. /\ IsFiniteSet(Older(x)) /\ Older(x) \in SUBSET Entry /\ Cardinality(Older(x)) \in Nat
      /\ x \in Entry
  BY RankCounts DEF Listing
<1>2. /\ w \in Walk /\ w.page = 1 /\ w.entry = x /\ w.older = Older(x) /\ w.shown = 0
      /\ w.left = FALSE /\ w.came = FALSE
  BY <1>1 DEF Begun, NoWalk, Walk
<1>3. Offset(1) = 0
  BY OffsetGrows
<1> HIDE DEF w
<1>4. WalkOK(w)
  BY <1>1, <1>2, <1>3 DEF WalkOK
<1>5. QED
  BY <1>4 DEF w

LEMMA ReaderInvStep ==
    ASSUME Listing, ReaderInv, [ReaderNext]_readerVars
    PROVE  ReaderInv'
<1>1. ASSUME NEW w, WalkOK(w), w.entry \in waitlist' PROVE WalkOK(w)'
  BY <1>1 DEF WalkOK
<1>2. ASSUME NEW w, WalkOK(w), ReadPage(w) PROVE ReaderInv'
  <2>1. PICK v : v = Shown(w)
    OBVIOUS
  <2>2. waitlist' = waitlist /\ (walk' = NoWalk \/ walk' = v)
    BY <1>2, <2>1 DEF ReadPage, waitlistVars
  <2>3. WalkOK(v) /\ v.entry \in waitlist'
    BY <1>2, <2>1, <2>2, ShownOK DEF WalkOK
  <2>4. WalkOK(v)'
    BY <1>1, <2>3
  <2>5. QED
    BY <2>2, <2>4 DEF ReaderInv
<1>3. ASSUME ListChanges PROVE ReaderInv'
  <2>1. CASE walk' = NoWalk
    BY <2>1 DEF ReaderInv
  <2>2. CASE walk' # NoWalk
    <3>1. PICK w : w = walk
      OBVIOUS
    <3>2. walk' = w /\ w.entry \in waitlist' /\ w # NoWalk
      BY <1>3, <2>2, <3>1 DEF ListChanges
    <3>3. WalkOK(w)'
      BY <1>1, <3>1, <3>2 DEF ReaderInv
    <3>4. QED
      BY <3>2, <3>3 DEF ReaderInv
  <2>3. QED
    BY <2>1, <2>2
<1>4. CASE UNCHANGED readerVars
  BY <1>4 DEF readerVars, ReaderInv, WalkOK
<1>5. ASSUME walk = NoWalk, NEW x \in waitlist, ReadPage(Begun(x)) PROVE ReaderInv'
  BY <1>2, <1>5, BegunOK
<1>6. ASSUME walk # NoWalk, ReadPage(walk) PROVE ReaderInv'
  BY <1>2, <1>6 DEF ReaderInv
<1>7. QED
  BY <1>3, <1>4, <1>5, <1>6 DEF ReaderNext

\* getWaitlist cuts its pages by offset from a list that changes meanwhile; an
\* entry that stays is skipped only if an older one left, and shown twice only
\* if an older one reached the table late.
THEOREM WalksSeeStayers == ReaderSpec => WalkSeesStayers
<1> DEFINE Good == walk # NoWalk /\ walk' = NoWalk /\ walk.entry \in waitlist' =>
                      /\ Shown(walk).shown = 0 => Shown(walk).left
                      /\ Shown(walk).shown > 1 => Shown(walk).came
<1>1. ASSUME Listing, ReaderInv, [ReaderNext]_readerVars PROVE Good \/ UNCHANGED readerVars
  <2> SUFFICES ASSUME ReaderNext, walk # NoWalk, walk' = NoWalk, walk.entry \in waitlist'
               PROVE  /\ Shown(walk).shown = 0 => Shown(walk).left
                      /\ Shown(walk).shown > 1 => Shown(walk).came
    BY <1>1
  <2>1. PICK w, v : w = walk /\ v = Shown(walk)
    OBVIOUS
  <2>2. WalkOK(w) /\ WalkOK(v) /\ v # NoWalk
    BY <1>1, <2>1, ShownOK DEF ReaderInv
  <2>3. ~(Cardinality(Page(w.entry.event, w.page)) >= PageSize)
    <3>1. ~ListChanges
      BY DEF ListChanges
    <3>2. ReadPage(walk)
      BY <3>1 DEF ReaderNext
    <3>3. Cardinality(Page(w.entry.event, w.page)) < PageSize
      BY <2>1, <2>2, <3>2 DEF ReadPage
    <3>4. Page(w.entry.event, w.page) \in SUBSET Waiting(w.entry.event)
      BY DEF Page
    <3>5. Cardinality(Page(w.entry.event, w.page)) \in Nat
      BY <1>1, <3>4, WaitingFinite
    <3>6. QED
      BY <3>3, <3>5, PageAssumption
  <2>4. ASSUME v.shown = 0, ~v.left PROVE FALSE
    <3>1. PICK x, k : x = w.entry /\ k = w.page
      OBVIOUS
    <3>2. v.older = Older(x) /\ v.page = k + 1 /\ x \in waitlist /\ k \in Nat \ {0}
      BY <1>1, <2>1, <2>2, <3>1, ShownOK DEF WalkOK, Walk
    <3>3. Cardinality(Older(x)) >= Offset(k + 1)
      BY <2>2, <2>4, <3>2 DEF WalkOK
    <3>4. Cardinality(Older(x)) >= Offset(k) + PageSize
      BY <3>2, <3>3, OffsetGrows
    <3>5. Cardinality(Page(x.event, k)) = PageSize
      BY <1>1, <3>2, <3>4, PageIsFull
    <3>6. QED
      BY <2>3, <3>1, <3>5, PageAssumption
  <2>5. ASSUME v.shown > 1 PROVE v.came
    <3>1. v.shown \in Nat
      BY <2>2 DEF WalkOK, Walk
    <3>2. ~v.came => v.shown <= 1
      BY <2>2 DEF WalkOK
    <3>3. QED
      BY <2>5, <3>1, <3>2
  <2>6. QED
    BY <2>1, <2>4, <2>5
<1>2. ReaderInit => ReaderInv
  BY DEF ReaderInit, ReaderInv
<1>3. OnceInv /\ IsFiniteSet(waitlist) => Listing
  BY DEF OnceInv, WaitInv, WaitlistTypeOK, EntriesDiffer, Listing
<1>4. Listing /\ ReaderInv /\ [ReaderNext]_readerVars => ReaderInv'
  BY ReaderInvStep
<1>5. QED
  BY <1>1, <1>2, <1>3, <1>4, ReaderChangesNothing, ListFinite, OnceInvariant, PTL
     DEF ReaderSpec, WalkSeesStayers

==============================================================================
