---------------------------- MODULE WaitlistReader ----------------------------
(***************************************************************************)
(* getWaitlist, read page after page while the waitlist changes.  A page   *)
(* is what findMany returns for skip and take; a client asks for the next  *)
(* one until a page is not full.  Nothing ties the pages to one snapshot.  *)
(***************************************************************************)
EXTENDS Waitlist

CONSTANT PageSize   \* limit

ASSUME PageAssumption == PageSize \in Nat \ {0}

\* The walk of one client: the page it asks for next, and as ghosts an entry on
\* the list when it began, how often it was shown, the older ones at the last
\* page, and whether older ones had left and come between two pages.
VARIABLE walk

readerVars == <<jobs, waitlist, call, clock, popped, lost, resends, walk>>

NoWalk == [page |-> 0, entry |-> NoEntry, shown |-> 0, older |-> {}, left |-> FALSE, came |-> FALSE]

ReaderInit == WaitlistInit /\ walk = NoWalk

Rank(x) == Cardinality({y \in Waiting(x.event) : y.at <= x.at})

\* Mutant of Offset: pages are counted from 0.
OffsetFromZero(page) == page * PageSize

Offset(page) == (page - 1) * PageSize

\* orderBy createdAt asc, skip, take
Page(e, page) == {x \in Waiting(e) : Rank(x) \in (Offset(page) + 1) .. (Offset(page) + PageSize)}

Older(x) == {y \in Waiting(x.event) : y.at < x.at}

Begun(x) == [NoWalk EXCEPT !.page = 1, !.entry = x, !.older = Older(x)]

\* The walk w after one more page.
Shown(w) ==
    [w EXCEPT !.page = @ + 1,
              !.shown = IF w.entry \in Page(w.entry.event, w.page) THEN @ + 1 ELSE @,
              !.older = Older(w.entry),
              !.left = @ \/ ~(w.older \subseteq Older(w.entry)),
              !.came = @ \/ ~(Older(w.entry) \subseteq w.older)]

\* A page that is not full is the last.
ReadPage(w) ==
    /\ walk' = IF Cardinality(Page(w.entry.event, w.page)) < PageSize THEN NoWalk ELSE Shown(w)
    /\ UNCHANGED waitlistVars

\* The list changes; the walk of an entry that left is of no interest.
ListChanges ==
    /\ WaitlistNext
    /\ walk' = IF walk.entry \in waitlist' THEN walk ELSE NoWalk

ReaderNext ==
    \/ ListChanges
    \/ walk = NoWalk /\ \E x \in waitlist : ReadPage(Begun(x))
    \/ walk # NoWalk /\ ReadPage(walk)

ReaderSpec == ReaderInit /\ [][ReaderNext]_readerVars

-----------------------------------------------------------------------------
\* Whoever stays on the waitlist while its pages are read is shown in one of
\* them, and in one only, whatever joins, leaves and is promoted meanwhile:
\* an entry is skipped only if an older one left, and shown twice only if an
\* older one reached the table late.
WalkSeesStayers ==
    [][walk # NoWalk /\ walk' = NoWalk /\ walk.entry \in waitlist' =>
          /\ Shown(walk).shown = 0 => Shown(walk).left
          /\ Shown(walk).shown > 1 => Shown(walk).came]_readerVars

=============================================================================
