------------------------------ MODULE EventLock ------------------------------
(***************************************************************************)
(* The Redlock lease lock:event:{eventId} of booking.processor.ts.  Redis  *)
(* and redlock are libraries, modelled from how the processor uses them:   *)
(* it acquires with a TTL of 3000 ms, never extends the lease, and ignores *)
(* a failure to release it.  Time is not modelled: a lease may end at any  *)
(* moment, and the leases that end while their holder is still working on  *)
(* the event (createBooking may take three transactions of up to five      *)
(* seconds each) are counted in lapses.                                    *)
(***************************************************************************)
EXTENDS Evently

CONSTANT MaxLapses   \* bound of the model: leases that end under their holder

ASSUME LapsesAssumption == MaxLapses \in Nat

VARIABLES
    lock,    \* the holder of each event's key in Redis, or Nobody
    lapses   \* ghost: leases that ended while the holder was still working

LockInit ==
    /\ lock = [e \in EventIds |-> Nobody]
    /\ lapses = 0

\* Mutant of AcquireLock: SET without NX.
AcquireLockAnyway(w, e) ==
    /\ lock' = [lock EXCEPT ![e] = w]
    /\ UNCHANGED lapses

\* SET key token NX PX 3000
AcquireLock(w, e) ==
    /\ lock[e] = Nobody
    /\ lock' = [lock EXCEPT ![e] = w]
    /\ UNCHANGED lapses

\* The release script deletes the key only when it still carries the token.
Released(w, e) ==
    IF lock[e] = w THEN [lock EXCEPT ![e] = Nobody] ELSE lock

\* unlock() works, or it throws and the error is only logged.  The locks of
\* redlock 5 (package.json) have release() and no unlock(): there it always
\* throws, and the key ends by its TTL.  Of redlock 4 it is the method's name.
ReleaseLock(w, e) ==
    /\ lock' \in {Released(w, e), lock}
    /\ UNCHANGED lapses

\* Mutant of LeaseEnds: SET without PX.
LeaseNeverEnds(e, holding) == FALSE /\ UNCHANGED <<lock, lapses>>

\* holding: the holder is still inside its critical section for e.
LeaseEnds(e, holding) ==
    /\ lock[e] # Nobody
    /\ holding => lapses < MaxLapses
    /\ lock' = [lock EXCEPT ![e] = Nobody]
    /\ lapses' = IF holding THEN lapses + 1 ELSE lapses

LockTypeOK ==
    /\ lock \in [EventIds -> Workers \cup {Nobody}]
    /\ lapses \in 0 .. MaxLapses

=============================================================================
