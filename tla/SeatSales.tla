------------------------------ MODULE SeatSales ------------------------------
(***************************************************************************)
(* What holding and confirming seats promises ("Ensures booking + seat     *)
(* update consistency", README.md:200): seats are held all or none, and    *)
(* a sale takes all the seats it names from their holder in one            *)
(* indivisible step.  Only a fault may part the two: it puts the seats of  *)
(* one sale back to held, or leaves a sale that took no seats, and it is   *)
(* counted.  Transactions, row locks and retries are not visible.          *)
(***************************************************************************)
EXTENDS Integers, Sequences

CONSTANTS Seats, Users, Nobody

VARIABLES
    row,      \* status and holder of each seat
    sales,    \* every sale ever made, in that order
    faults    \* faults so far

salesVars == <<row, sales, faults>>

Row(status, u) == [status |-> status, heldBy |-> u]

SalesInit ==
    /\ row = [s \in Seats |-> Row("available", Nobody)]
    /\ sales = << >>
    /\ faults = 0

Changed == {s \in Seats : row'[s] # row[s]}

\* At least one seat, and each of those that change in the same way.
Turn(from, to) ==
    /\ Changed # {}
    /\ \A s \in Changed : row[s] = from /\ row'[s] = to

Sold(u, S) == sales' = Append(sales, [user |-> u, seats |-> S, status |-> "confirmed"])

Hold(u) ==
    /\ UNCHANGED <<sales, faults>>
    /\ Turn(Row("available", Nobody), Row("held", u))

Sell(u) ==
    /\ UNCHANGED faults
    /\ Turn(Row("held", u), Row("booked", Nobody))
    /\ Sold(u, Changed)

\* The seats of a cancelled sale stay booked.
Cancel(t) ==
    /\ UNCHANGED <<row, faults>>
    /\ sales[t].status = "confirmed"
    /\ sales' = [sales EXCEPT ![t].status = "cancelled"]

\* A fault that shows at once, or not yet.
Fault ==
    /\ faults' = faults + 1
    /\ UNCHANGED sales
    /\ \/ UNCHANGED row
       \/ \E t \in DOMAIN sales :
            /\ Turn(Row("booked", Nobody), Row("held", sales[t].user))
            /\ Changed = sales[t].seats

\* A sale whose seats a fault, now or earlier, has kept back.
Strand(u, S) ==
    /\ UNCHANGED row
    /\ faults' \in {faults, faults + 1} /\ faults' > 0
    /\ Sold(u, S)

SalesNext ==
    \/ \E u \in Users : Hold(u) \/ Sell(u)
    \/ \E u \in Users, S \in (SUBSET Seats) \ {{}} : Strand(u, S)
    \/ \E t \in DOMAIN sales : Cancel(t)
    \/ Fault

SalesSpec == SalesInit /\ [][SalesNext]_salesVars

=============================================================================
