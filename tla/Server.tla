-------------------------------- MODULE Server --------------------------------
(***************************************************************************)
(* server.ts: processes that start listening, are told to stop by SIGINT   *)
(* or SIGTERM, any number of times, and exit; around the requests of       *)
(* RateLimiter.  Processes share Redis, so that one may start while        *)
(* another stops.                                                          *)
(*                                                                         *)
(* Node 20 (Dockerfile): server.close stops listening and closes the       *)
(* connections that wait for a next request; it calls back when the others *)
(* are closed too.  Until then they may bring requests.  A connection whose *)
(* request has not arrived in full, or whose first one has not begun, does *)
(* not count as waiting, and server.close ends the check that would have   *)
(* closed it after headersTimeout.  Called again, server.close calls back   *)
(* with ERR_SERVER_NOT_RUNNING at that moment, or at once if it is past.    *)
(* What the worker was doing when its process exits is the subject of       *)
(* BookingSystem (Crash).                                                   *)
(***************************************************************************)
EXTENDS RateLimiter

CONSTANTS
    Processes,
    MaxStarts,     \* bound of the model: starts of processes
    MaxCrashes     \* bound of the model: exits that no signal asked for

ASSUME ServerAssumption == MaxStarts \in Nat /\ MaxCrashes \in Nat

VARIABLES
    phase,      \* where each process is between listen and exit
    again,      \* was shutdown called a second time before the server closed
    at,         \* the process each connection leads to
    hits,       \* ghost: requests so far
    starts,     \* ghost: starts so far
    crashes,    \* ghost: exits that no signal asked for
    cut         \* ghost: has an exit cut a request off

ghosts == <<hits, starts, crashes, cut>>
serverVars == <<counter, expires, conn, window, passed, failures,
                phase, again, at, hits, starts, crashes, cut>>

Phases == {"down", "up", "closing", "disconnecting", "closingQueue"}

ServerInit ==
    /\ LimiterInit
    /\ phase = [p \in Processes |-> "down"]
    /\ again = [p \in Processes |-> FALSE]
    /\ at \in [Connections -> Processes]
    /\ hits = 0 /\ starts = 0 /\ crashes = 0
    /\ cut = FALSE

Goto(p, next) == phase' = [phase EXCEPT ![p] = next]

ConnectionsOf(p) == {c \in Connections : at[c] = p /\ conn[c].step # "closed"}

Idle(p) == {c \in ConnectionsOf(p) : conn[c].step = "open"}

InRequest(p) == {c \in ConnectionsOf(p) : conn[c].step \in {"incr", "expire", "handler"}}

Close(cs) == conn' = [c \in Connections |-> IF c \in cs THEN Closed ELSE conn[c]]

-----------------------------------------------------------------------------
(* app.listen, connections and requests *)

Start(p) ==
    /\ phase[p] = "down"
    /\ starts < MaxStarts
    /\ starts' = starts + 1
    /\ Goto(p, "up")
    /\ UNCHANGED <<redisVars, conn, again, at, hits, crashes, cut>>

\* Mutant of Accepting: nobody minds whether the process still listens.
AcceptingAlways(p) == phase[p] \in Phases

Accepting(p) == phase[p] = "up"

Connect(c, p) ==
    /\ conn[c].step = "closed"
    /\ Accepting(p)
    /\ Step(c, "arriving")
    /\ at' = [at EXCEPT ![c] = p]
    /\ UNCHANGED <<redisVars, phase, again, ghosts>>

\* The first bytes of a next request.
NextRequest(c) ==
    /\ conn[c].step = "open"
    /\ Step(c, "arriving")
    /\ UNCHANGED <<redisVars, phase, again, at, ghosts>>

\* The last ones, so that the request reaches the limiter.
Request(c, i) ==
    /\ conn[c].step = "arriving"
    /\ hits < MaxHits
    /\ hits' = hits + 1
    /\ conn' = [conn EXCEPT ![c].step = "incr", ![c].who = i]
    /\ UNCHANGED <<redisVars, phase, again, at, starts, crashes, cut>>

\* The booking handler adds its job and answers, or the error handler does.
Handle(c) ==
    /\ conn[c].step = "handler"
    /\ Answered(c)
    /\ UNCHANGED <<redisVars, phase, again, at, ghosts>>

\* The client closes its connection.
HangUp(c) ==
    /\ conn[c].step \in {"arriving", "open"}
    /\ Close({c})
    /\ UNCHANGED <<redisVars, phase, again, at, ghosts>>

\* keepAliveTimeout, which runs from an answer to the next byte.
KeepAliveTimeout(c) ==
    /\ conn[c].step = "open"
    /\ Close({c})
    /\ UNCHANGED <<redisVars, phase, again, at, ghosts>>

-----------------------------------------------------------------------------
(* shutdown *)

\* process.exit, or the death of the process.
Exit(p) ==
    /\ Goto(p, "down")
    /\ again' = [again EXCEPT ![p] = FALSE]
    /\ Close(ConnectionsOf(p))
    /\ cut' = (cut \/ InRequest(p) # {})
    /\ UNCHANGED <<redisVars, at, hits, starts>>

CloseIdle(p) == Close(Idle(p))

Signal(p) ==
    /\ phase[p] = "up"
    /\ Goto(p, "closing")
    /\ CloseIdle(p)
    /\ UNCHANGED <<redisVars, again, at, ghosts>>

\* Mutant of SignalAgain: the second signal exits at once.
SignalAgainExits(p) ==
    /\ phase[p] \in {"closing", "disconnecting", "closingQueue"}
    /\ Exit(p)
    /\ UNCHANGED crashes

\* The second callback gets an error, and exits with 1 when it does.
SignalAgain(p) ==
    \/ /\ phase[p] = "closing"
       /\ again' = [again EXCEPT ![p] = TRUE]
       /\ CloseIdle(p)
       /\ UNCHANGED <<redisVars, phase, at, ghosts>>
    \/ /\ phase[p] \in {"disconnecting", "closingQueue"}
       /\ Exit(p)
       /\ UNCHANGED crashes

Drained(p) == ConnectionsOf(p) = {}

\* The "close" event: the callbacks run in the order of the calls.
ServerClosed(p) ==
    /\ phase[p] = "closing"
    /\ Drained(p)
    /\ IF again[p]
         THEN Exit(p) /\ UNCHANGED crashes
         ELSE Goto(p, "disconnecting") /\ UNCHANGED <<redisVars, conn, again, at, ghosts>>

\* Mutant of Caught: the shutdown starts over.
CaughtAgain(p) ==
    /\ Goto(p, "disconnecting")
    /\ UNCHANGED <<redisVars, conn, again, at, ghosts>>

\* An error of $disconnect or close is logged, and exit(0) follows.
Caught(p) == Exit(p) /\ UNCHANGED crashes

Disconnect(p) ==
    /\ phase[p] = "disconnecting"
    /\ \/ Goto(p, "closingQueue") /\ UNCHANGED <<redisVars, conn, again, at, ghosts>>
       \/ Caught(p)

CloseQueue(p) ==
    /\ phase[p] = "closingQueue"
    /\ \/ Exit(p) /\ UNCHANGED crashes
       \/ Caught(p)

\* unhandledRejection, uncaughtException, or the process is killed.
Crash(p) ==
    /\ phase[p] # "down"
    /\ crashes < MaxCrashes
    /\ crashes' = crashes + 1
    /\ Exit(p)

-----------------------------------------------------------------------------
Limiter(c) == LimiterStep(c) /\ UNCHANGED <<phase, again, at, ghosts>>

WindowEnds(i) == Elapse(i) /\ UNCHANGED <<phase, again, at, ghosts>>

Stop(p) == ServerClosed(p) \/ Disconnect(p) \/ CloseQueue(p)

ServerNext ==
    \/ \E p \in Processes : Start(p) \/ Signal(p) \/ SignalAgain(p) \/ Stop(p) \/ Crash(p)
    \/ \E c \in Connections, p \in Processes : Connect(c, p)
    \/ \E c \in Connections, i \in Callers : Request(c, i)
    \/ \E c \in Connections :
           NextRequest(c) \/ Limiter(c) \/ Handle(c) \/ HangUp(c) \/ KeepAliveTimeout(c)
    \/ \E i \in Callers : WindowEnds(i)

ServerSpec == ServerInit /\ [][ServerNext]_serverVars

(***************************************************************************)
(* Fairness.  Redis and the handler answer, a connection that waits for a   *)
(* next request is closed after keepAliveTimeout, a key with a lifetime     *)
(* expires, and the calls of shutdown return.  No client, signal, start or  *)
(* failure is ever required.                                                *)
(***************************************************************************)
ServerFairness ==
    /\ \A c \in Connections :
        WF_serverVars(Limiter(c) \/ Handle(c)) /\ WF_serverVars(KeepAliveTimeout(c))
    /\ \A i \in Callers : WF_serverVars(WindowEnds(i))
    /\ \A p \in Processes : WF_serverVars(Stop(p))

FairServerSpec == ServerSpec /\ ServerFairness

-----------------------------------------------------------------------------
\* Well-formed; a connection that is not closed leads to a process that is not
\* down, and a key has a lifetime only if it exists.
ServerTypeOK ==
    /\ counter \in [Callers -> 0 .. (MaxHits + MaxFailures)]
    /\ expires \in [Callers -> BOOLEAN]
    /\ \A i \in Callers : expires[i] => counter[i] > 0
    /\ \A c \in Connections :
        /\ conn[c].step \in Steps
        /\ conn[c].who \in Callers <=> conn[c].step \in {"incr", "expire", "handler"}
        /\ phase[at[c]] = "down" => conn[c].step = "closed"
    /\ window \in [Callers -> Windows]
    /\ passed \in [Callers -> [Windows -> 0 .. MaxHits]]
    /\ phase \in [Processes -> Phases]
    /\ again \in [Processes -> BOOLEAN]
    /\ at \in [Connections -> Processes]

\* "A user/IP can only attempt 10 booking requests per minute": in one life of
\* its key, which is not any minute (two lives may meet in one), but over however
\* many processes and restarts, and one more for every Redis command that went
\* wrong ("fail-open").
WithinLimit == \A i \in Callers, n \in Windows : passed[i][n] <= Limit + failures

\* "Graceful shutdown": however many signals arrive and whenever they do, every
\* request is answered before its process exits, and before it gives up the
\* database and the queue.  Only a crash cuts a request off.
ShutdownCutsNoRequest ==
    crashes = 0 =>
        /\ ~cut
        /\ \A p \in Processes :
              phase[p] \in {"disconnecting", "closingQueue"} => ConnectionsOf(p) = {}

\* No counter stays for good, to block its caller: only a crash or a Redis
\* failure loses the EXPIRE that follows the first INCR, never a shutdown.
CountersExpire ==
    \A i \in Callers : counter[i] > 0 ~> counter[i] = 0 \/ failures > 0 \/ crashes > 0

\* A process that was told to stop does, whatever its requests run into, if each
\* client at some time completes the request it began or hangs up.  Nothing in
\* the process makes it: one client that connects and stays silent, or stops in
\* the middle of a request, keeps the callback of server.close from ever running.
SignalledExits ==
    (\A c \in Connections : []<>(conn[c].step # "arriving"))
        => \A p \in Processes : phase[p] = "closing" ~> phase[p] = "down"

=============================================================================
