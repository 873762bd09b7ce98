----------------------------- MODULE RateLimiter -----------------------------
(***************************************************************************)
(* rateLimit.middleware.ts: a counter per client and path in Redis, counted *)
(* with INCR and given its lifetime by a second command, EXPIRE, when INCR  *)
(* returned 1.  On any Redis error the request is let through.  The two    *)
(* commands of a request are two steps; those of other requests, and of    *)
(* other server processes, come in between.                                *)
(*                                                                         *)
(* No route mounts the limiter.  It is taken as its usage example mounts   *)
(* it, in front of the booking handler; Server has the rest of a request.  *)
(***************************************************************************)
EXTENDS Integers, FiniteSets

CONSTANTS
    Connections,   \* HTTP connections; each carries one request at a time
    Callers,       \* what a key names: a client and a path
    Nobody,        \* no caller
    Limit,         \* the option max
    MaxHits,       \* bound of the model: requests
    MaxFailures    \* bound of the model: Redis commands that go wrong

ASSUME LimiterAssumption ==
    /\ Nobody \notin Callers
    /\ Limit \in Nat /\ MaxHits \in Nat /\ MaxFailures \in Nat

VARIABLES
    counter,    \* value of the caller's key, 0 when there is none
    expires,    \* has the key a lifetime
    conn,       \* what each connection is doing
    window,     \* ghost: which life of its key each caller is in
    passed,     \* ghost: requests let through, by caller and life of the key
    failures    \* ghost: Redis commands that went wrong

redisVars == <<counter, expires, window, passed, failures>>

\* arriving: a request has not arrived in full, or the first one not at all;
\* incr, expire: waiting for that command; handler: let through;
\* open: a request was answered, and no byte of another has come.
Steps == {"closed", "arriving", "incr", "expire", "handler", "open"}

Windows == 1 .. (MaxHits + 1)

Closed == [step |-> "closed", who |-> Nobody, window |-> 1]

LimiterInit ==
    /\ counter = [i \in Callers |-> 0]
    /\ expires = [i \in Callers |-> FALSE]
    /\ conn = [c \in Connections |-> Closed]
    /\ window = [i \in Callers |-> 1]
    /\ passed = [i \in Callers |-> [n \in Windows |-> 0]]
    /\ failures = 0

Step(c, step) == conn' = [conn EXCEPT ![c].step = step]

\* The handler answered, or the error handler did.
Answered(c) == conn' = [conn EXCEPT ![c] = [Closed EXCEPT !.step = "open"]]

\* next()
LetThrough(c, n) ==
    /\ Step(c, "handler")
    /\ passed' = [passed EXCEPT ![conn[c].who][n] = @ + 1]

\* Mutant of OverLimit: off by one.
OverLimitLate(count) == count > Limit + 1

OverLimit(count) == count > Limit

\* next(new ApiError(429, ...)) or next()
Decide(c, count, n) ==
    IF OverLimit(count) THEN Answered(c) /\ UNCHANGED passed ELSE LetThrough(c, n)

\* Mutant of First: the lifetime is set when the limit is reached.
FirstOverLimit(count) == count = Limit

First(count) == count = 1

\* What the middleware does with the number INCR returned.
Counted(c, count) ==
    LET i == conn[c].who IN
    /\ counter' = [counter EXCEPT ![i] = count]
    /\ IF First(count)
         THEN /\ conn' = [conn EXCEPT ![c].step = "expire", ![c].window = window[i]]
              /\ UNCHANGED passed
         ELSE Decide(c, count, window[i])
    /\ UNCHANGED <<expires, window>>

Incr(c) ==
    /\ conn[c].step = "incr"
    /\ Counted(c, counter[conn[c].who] + 1)
    /\ UNCHANGED failures

Expire(c) ==
    /\ conn[c].step = "expire"
    /\ expires' = [expires EXCEPT ![conn[c].who] = TRUE]
    /\ Decide(c, 1, conn[c].window)
    /\ UNCHANGED <<counter, window, failures>>

GoesWrong == failures < MaxFailures /\ failures' = failures + 1

\* The answer was lost and ioredis sent the command again.
IncrTwice(c) ==
    /\ conn[c].step = "incr"
    /\ GoesWrong
    /\ Counted(c, counter[conn[c].who] + 2)

\* An error, whether or not Redis had run the command: "fail-open".
IncrFails(c) ==
    LET i == conn[c].who IN
    /\ conn[c].step = "incr"
    /\ GoesWrong
    /\ \E n \in {0, 1} : counter' = [counter EXCEPT ![i] = @ + n]
    /\ LetThrough(c, window[i])
    /\ UNCHANGED <<expires, window>>

ExpireFails(c) ==
    /\ conn[c].step = "expire"
    /\ GoesWrong
    /\ \E done \in BOOLEAN : expires' = [expires EXCEPT ![conn[c].who] = done]
    /\ LetThrough(c, conn[c].window)
    /\ UNCHANGED <<counter, window>>

\* windowSeconds after EXPIRE.
Elapse(i) ==
    /\ expires[i]
    /\ counter' = [counter EXCEPT ![i] = 0]
    /\ expires' = [expires EXCEPT ![i] = FALSE]
    /\ window' = [window EXCEPT ![i] = @ + 1]
    /\ UNCHANGED <<conn, passed, failures>>

LimiterStep(c) == Incr(c) \/ Expire(c) \/ IncrTwice(c) \/ IncrFails(c) \/ ExpireFails(c)

=============================================================================
