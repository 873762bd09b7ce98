----------------------------- MODULE Ticketing -----------------------------
(***************************************************************************)
(* What the booking path promises (README.md: "concurrent ticket booking   *)
(* without overselling"): a ticket is sold in one indivisible step, only    *)
(* while enough seats are left and only once for each key of a user for an *)
(* event; a confirmed ticket may be refunded, once, and its seats go back.  *)
(* Queue, worker, lease and transactions are not visible.                  *)
(***************************************************************************)
EXTENDS Evently

VARIABLES
    left,      \* seats left of each event
    tickets    \* every ticket ever sold, in the order of sale

ticketingVars == <<left, tickets>>

Ticket(d, status) ==
    [user |-> d.user, event |-> d.event, seats |-> d.seats, key |-> d.key, status |-> status]

KeyUsed(d) ==
    /\ d.key # NoKey
    /\ \E t \in DOMAIN tickets : /\ tickets[t].user = d.user
                                 /\ tickets[t].event = d.event
                                 /\ tickets[t].key = d.key

TicketingInit ==
    /\ left = Capacity
    /\ tickets = << >>

Sell(d) ==
    /\ d.event \in Events
    /\ left[d.event] >= d.seats
    /\ ~KeyUsed(d)
    /\ left' = [left EXCEPT ![d.event] = @ - d.seats]
    /\ tickets' = Append(tickets, Ticket(d, "confirmed"))

Refund(t) ==
    /\ tickets[t].status = "confirmed"
    /\ left' = [left EXCEPT ![tickets[t].event] = @ + tickets[t].seats]
    /\ tickets' = [tickets EXCEPT ![t].status = "cancelled"]

TicketingNext ==
    \/ \E d \in Requests : Sell(d)
    \/ \E t \in DOMAIN tickets : Refund(t)

TicketingSpec == TicketingInit /\ [][TicketingNext]_ticketingVars

=============================================================================
