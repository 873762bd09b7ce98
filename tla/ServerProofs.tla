---------------------------- MODULE ServerProofs ----------------------------
(***************************************************************************)
(* Proofs about Server and the RateLimiter under it, for any number of     *)
(* connections, callers, processes, starts, requests and failures, and any *)
(* limit.                                                                  *)
(*                                                                         *)
(* The limit rests on one fact about the two Redis commands: between the   *)
(* INCR that returned 1 and its EXPIRE the key has no lifetime, so that    *)
(* the life of the key cannot end under the request, and no other request  *)
(* of the caller is at its EXPIRE (ConnOK).  The bounds of the ghosts rest *)
(* on counting the requests that are under way (Counts).                   *)
(***************************************************************************)
EXTENDS Server, FiniteSetTheorems, TLAPS

-----------------------------------------------------------------------------
(* The inductive invariants *)

Conn == [step: Steps, who: Callers \cup {Nobody}, window: Windows]

\* Requests that wait for INCR, and for either command.
Asking == {c \in Connections : conn[c].step = "incr"}

Waiting == {c \in Connections : conn[c].step \in {"incr", "expire"}}

Types ==
    /\ counter \in [Callers -> Nat]
    /\ expires \in [Callers -> BOOLEAN]
    /\ window \in [Callers -> Windows]
    /\ passed \in [Callers -> [Windows -> Nat]]
    /\ conn \in [Connections -> Conn]
    /\ \A c \in Connections : conn[c].who \in Callers <=> conn[c].step \in {"incr", "expire", "handler"}
    /\ hits \in 0 .. MaxHits /\ failures \in 0 .. MaxFailures

\* Every life of a key, every count and every request let through took a
\* request of its own.
Counts ==
    /\ IsFiniteSet(Waiting)
    /\ \A i \in Callers :
        /\ counter[i] + Cardinality(Asking) <= hits + failures
        /\ window[i] + Cardinality(Asking) <= hits + 1
        /\ counter[i] > 0 => window[i] + Cardinality(Asking) <= hits
        /\ \A n \in Windows : passed[i][n] + Cardinality(Waiting) <= hits

\* What is known of caller i's key.
KeyOK(i) ==
    /\ expires[i] => counter[i] > 0
    /\ \A n \in Windows : n > window[i] => passed[i][n] = 0
    /\ \A n \in Windows : passed[i][n] <= Limit + failures
    /\ passed[i][window[i]] <= counter[i] + failures

\* A request at its EXPIRE: the life of the key goes on, and the request is
\* counted and not yet let through.
ConnOK(c) ==
    LET i == conn[c].who IN
    conn[c].step = "expire" =>
        /\ counter[i] > 0 /\ ~expires[i]
        /\ conn[c].window = window[i]
        /\ passed[i][window[i]] + 1 <= counter[i] + failures
        /\ Limit > 0 => passed[i][window[i]] + 1 <= Limit + failures
        /\ \A d \in Connections : conn[d].step = "expire" /\ conn[d].who = i => d = c

LimiterInv ==
    /\ Types
    /\ Counts
    /\ \A i \in Callers : KeyOK(i)
    /\ \A c \in Connections : ConnOK(c)

\* The processes and the connections that lead to them.
ProcessInv ==
    /\ phase \in [Processes -> Phases]
    /\ again \in [Processes -> BOOLEAN]
    /\ at \in [Connections -> Processes]
    /\ crashes \in Nat /\ cut \in BOOLEAN
    /\ \A c \in Connections : phase[at[c]] = "down" => conn[c].step = "closed"
    /\ ShutdownCutsNoRequest

-----------------------------------------------------------------------------
(* Counting the requests under way *)

LEMMA WaitingFacts ==
    ASSUME LimiterInv
    PROVE  /\ IsFiniteSet(Waiting) /\ IsFiniteSet(Asking)
           /\ Cardinality(Waiting) \in Nat /\ Cardinality(Asking) \in Nat
           /\ hits \in Nat /\ failures \in Nat
<1>1. IsFiniteSet(Waiting) /\ Asking \subseteq Waiting
  BY DEF LimiterInv, Counts, Asking, Waiting
<1>2. IsFiniteSet(Asking)
  BY <1>1, FS_Subset
<1>3. Cardinality(Waiting) \in Nat /\ Cardinality(Asking) \in Nat
  BY <1>1, <1>2, FS_CardinalityType
<1>4. QED
  BY <1>1, <1>2, <1>3, LimiterAssumption DEF LimiterInv, Types

\* A request leaves a set, or enters it.
LEMMA OneLess ==
    ASSUME NEW S, IsFiniteSet(S), NEW c \in S
    PROVE  IsFiniteSet(S \ {c}) /\ Cardinality(S \ {c}) = Cardinality(S) - 1
  BY FS_RemoveElement

LEMMA OneMore ==
    ASSUME NEW S, IsFiniteSet(S), NEW c, c \notin S
    PROVE  IsFiniteSet(S \cup {c}) /\ Cardinality(S \cup {c}) = Cardinality(S) + 1
  BY FS_AddElement

LEMMA Fewer ==
    ASSUME NEW S, IsFiniteSet(S), NEW R \in SUBSET S
    PROVE  IsFiniteSet(R) /\ Cardinality(R) <= Cardinality(S) /\ Cardinality(R) \in Nat
<1>1. IsFiniteSet(R)
  BY FS_Subset
<1>2. Cardinality(R) <= Cardinality(S)
  BY FS_Subset
<1>3. Cardinality(R) \in Nat
  BY <1>1, FS_CardinalityType
<1>4. QED
  BY <1>1, <1>2, <1>3

-----------------------------------------------------------------------------
(* The steps that leave Redis alone *)

\* Connections open, close and have their requests answered.
LEMMA QuietStep ==
    ASSUME LimiterInv, UNCHANGED <<redisVars, hits>>,
           conn' \in [Connections -> Conn],
           \A d \in Connections : conn'[d].who \in Callers <=> conn'[d].step \in {"incr", "expire", "handler"},
           \A d \in Connections : conn'[d].step \in {"incr", "expire"} => conn'[d] = conn[d]
    PROVE  LimiterInv'
<1>1. Waiting' \in SUBSET Waiting /\ Asking' \in SUBSET Asking
  BY DEF Waiting, Asking
<1>2. /\ IsFiniteSet(Waiting') /\ Cardinality(Waiting') <= Cardinality(Waiting)
      /\ Cardinality(Waiting') \in Nat
  BY <1>1, WaitingFacts, Fewer
<1>3. Cardinality(Asking') <= Cardinality(Asking) /\ Cardinality(Asking') \in Nat
  BY <1>1, WaitingFacts, Fewer
<1>4. Types'
  BY DEF LimiterInv, Types, redisVars
<1>5. Counts'
  <2>1. Types /\ Counts
    BY DEF LimiterInv
  <2>2. \A i \in Callers : counter[i] \in Nat /\ window[i] \in Nat /\ \A n \in Windows : passed[i][n] \in Nat
    BY <2>1, LimiterAssumption DEF Types, Windows
  <2>3. ASSUME NEW i \in Callers
        PROVE  /\ counter[i] + Cardinality(Asking') <= hits + failures
               /\ window[i] + Cardinality(Asking') <= hits + 1
               /\ counter[i] > 0 => window[i] + Cardinality(Asking') <= hits
               /\ \A n \in Windows : passed[i][n] + Cardinality(Waiting') <= hits
    BY <1>2, <1>3, <2>1, <2>2, WaitingFacts DEF Counts
  <2>4. QED
    BY <1>2, <2>3 DEF Counts, redisVars
<1>6. ASSUME NEW i \in Callers PROVE KeyOK(i)'
  BY DEF LimiterInv, KeyOK, redisVars
<1>7. ASSUME NEW c \in Connections PROVE ConnOK(c)'
  BY DEF LimiterInv, ConnOK, redisVars
<1>8. QED
  BY <1>4, <1>5, <1>6, <1>7 DEF LimiterInv

LEMMA ConnTypes ==
    Closed \in Conn /\ Closed.step = "closed" /\ Closed.who = Nobody /\ Closed.who \notin Callers
<1>1. 1 \in Windows
  BY LimiterAssumption DEF Windows
<1>2. QED
  BY <1>1, LimiterAssumption DEF Closed, Conn, Steps

LEMMA CloseQuiet ==
    ASSUME LimiterInv, UNCHANGED <<redisVars, hits>>, NEW cs, Close(cs)
    PROVE  LimiterInv'
<1>1. conn \in [Connections -> Conn]
  BY DEF LimiterInv, Types
<1>2. conn' = [d \in Connections |-> IF d \in cs THEN Closed ELSE conn[d]]
  BY DEF Close
<1>3. conn' \in [Connections -> Conn]
  BY <1>1, <1>2, ConnTypes
<1>4. \A d \in Connections : conn'[d] = Closed \/ conn'[d] = conn[d]
  BY <1>2
<1>5. ASSUME NEW d \in Connections
      PROVE  /\ conn'[d].who \in Callers <=> conn'[d].step \in {"incr", "expire", "handler"}
             /\ conn'[d].step \in {"incr", "expire"} => conn'[d] = conn[d]
  <2>1. CASE conn'[d] = Closed
    BY <2>1, ConnTypes
  <2>2. CASE conn'[d] = conn[d]
    BY <2>2 DEF LimiterInv, Types
  <2>3. QED
    BY <1>4, <2>1, <2>2
<1>6. QED
  BY <1>3, <1>5, QuietStep

LEMMA ConnQuiet ==
    ASSUME LimiterInv, UNCHANGED <<redisVars, hits>>, NEW c \in Connections, NEW y \in Conn,
           conn' = [conn EXCEPT ![c] = y], y.step \in {"open", "arriving"}, y.who = Nobody
    PROVE  LimiterInv'
<1>1. conn \in [Connections -> Conn]
  BY DEF LimiterInv, Types
<1>2. conn' \in [Connections -> Conn]
  BY <1>1
<1>3. ASSUME NEW d \in Connections
      PROVE  /\ conn'[d].who \in Callers <=> conn'[d].step \in {"incr", "expire", "handler"}
             /\ conn'[d].step \in {"incr", "expire"} => conn'[d] = conn[d]
  <2>1. CASE d = c
    BY <1>1, <2>1, LimiterAssumption
  <2>2. CASE d # c
    BY <1>1, <2>2 DEF LimiterInv, Types
  <2>3. QED
    BY <2>1, <2>2
<1>4. QED
  BY <1>2, <1>3, QuietStep

-----------------------------------------------------------------------------
(* The steps of the limiter *)

LEMMA RequestKeeps ==
    ASSUME LimiterInv, NEW c \in Connections, NEW i \in Callers, Request(c, i)
    PROVE  LimiterInv'
<1>1. PICK y : y = [conn[c] EXCEPT !.step = "incr", !.who = i]
  OBVIOUS
<1>2. conn \in [Connections -> Conn] /\ conn[c].step = "arriving"
  BY DEF LimiterInv, Types, Request
<1>3. y \in Conn /\ y.step = "incr" /\ y.who = i
  BY <1>1, <1>2 DEF Conn, Steps
<1>4. conn' = [conn EXCEPT ![c] = y] /\ UNCHANGED redisVars /\ hits' = hits + 1 /\ hits < MaxHits
  BY <1>1 DEF Request
<1>5. /\ conn' \in [Connections -> Conn]
      /\ \A d \in Connections : conn'[d] = IF d = c THEN y ELSE conn[d]
  BY <1>2, <1>3, <1>4
<1>6. Asking' = Asking \cup {c} /\ Waiting' = Waiting \cup {c} /\ c \notin Asking /\ c \notin Waiting
  BY <1>2, <1>3, <1>5 DEF Asking, Waiting
<1>7. IsFiniteSet(Waiting') /\ Cardinality(Waiting') = Cardinality(Waiting) + 1
  BY <1>6, WaitingFacts, OneMore
<1>8. Cardinality(Asking') = Cardinality(Asking) + 1
  BY <1>6, WaitingFacts, OneMore
<1>9. Types'
  <2>1. hits' \in 0 .. MaxHits
    BY <1>4, LimiterAssumption DEF LimiterInv, Types
  <2>2. \A d \in Connections : conn'[d].who \in Callers <=> conn'[d].step \in {"incr", "expire", "handler"}
    BY <1>3, <1>5 DEF LimiterInv, Types
  <2>3. QED
    BY <1>4, <1>5, <2>1, <2>2 DEF LimiterInv, Types, redisVars
<1>10. Counts'
  <2>1. Types /\ Counts
    BY DEF LimiterInv
  <2>2. \A j \in Callers : counter[j] \in Nat /\ window[j] \in Nat /\ \A n \in Windows : passed[j][n] \in Nat
    BY <2>1, LimiterAssumption DEF Types, Windows
  <2>3. ASSUME NEW j \in Callers
        PROVE  /\ counter[j] + Cardinality(Asking') <= hits' + failures
               /\ window[j] + Cardinality(Asking') <= hits' + 1
               /\ counter[j] > 0 => window[j] + Cardinality(Asking') <= hits'
               /\ \A n \in Windows : passed[j][n] + Cardinality(Waiting') <= hits'
    BY <1>4, <1>7, <1>8, <2>1, <2>2, WaitingFacts DEF Counts
  <2>4. QED
    BY <1>4, <1>7, <2>3 DEF Counts, redisVars
<1>11. ASSUME NEW j \in Callers PROVE KeyOK(j)'
  BY <1>4 DEF LimiterInv, KeyOK, redisVars
<1>12. ASSUME NEW d \in Connections PROVE ConnOK(d)'
  BY <1>3, <1>4, <1>5 DEF LimiterInv, ConnOK, redisVars
<1>13. QED
  BY <1>9, <1>10, <1>11, <1>12 DEF LimiterInv

\* A key that has a lifetime has no request at its EXPIRE.
LEMMA ElapseKeeps ==
    ASSUME LimiterInv, NEW i \in Callers, Elapse(i), UNCHANGED hits
    PROVE  LimiterInv'
<1>1. Types /\ Counts /\ KeyOK(i) /\ expires[i] /\ UNCHANGED <<conn, passed, failures, hits>>
  BY DEF LimiterInv, Elapse
<1>2. counter[i] > 0 /\ window[i] + Cardinality(Asking) <= hits
  BY <1>1 DEF KeyOK, Counts
<1>3. window[i] \in Nat /\ hits \in 0 .. MaxHits /\ Cardinality(Asking) \in Nat /\ window[i] >= 1
  BY <1>1, WaitingFacts, LimiterAssumption DEF Types, Windows
<1>4. window[i] + 1 \in Windows /\ window[i] + 1 + Cardinality(Asking) <= hits + 1
  BY <1>2, <1>3, LimiterAssumption DEF Windows
<1>5. /\ counter' = [counter EXCEPT ![i] = 0]
      /\ expires' = [expires EXCEPT ![i] = FALSE]
      /\ window' = [window EXCEPT ![i] = window[i] + 1]
  BY DEF Elapse
<1>6. /\ counter' \in [Callers -> Nat] /\ expires' \in [Callers -> BOOLEAN]
      /\ window' \in [Callers -> Windows]
      /\ counter'[i] = 0 /\ ~expires'[i] /\ window'[i] = window[i] + 1
      /\ \A j \in Callers \ {i} : counter'[j] = counter[j] /\ expires'[j] = expires[j] /\ window'[j] = window[j]
  BY <1>1, <1>4, <1>5 DEF Types
<1>7. Types'
  BY <1>1, <1>6 DEF Types
<1>8. Asking' = Asking /\ Waiting' = Waiting
  BY <1>1 DEF Asking, Waiting
<1>9. Counts'
  <2>1. \A n \in Windows : passed[i][n] + Cardinality(Waiting) <= hits
    BY <1>1 DEF Counts
  <2>2. counter'[i] + Cardinality(Asking) <= hits + failures
    <3>1. counter[i] + Cardinality(Asking) <= hits + failures /\ counter[i] \in Nat /\ failures \in Nat
      BY <1>1, WaitingFacts DEF Counts, Types
    <3>2. QED
      BY <1>3, <1>6, <3>1
  <2>3. ~(counter'[i] > 0) /\ window'[i] + Cardinality(Asking) <= hits + 1
    BY <1>4, <1>6
  <2>4. QED
    BY <1>1, <1>6, <1>8, <2>1, <2>2, <2>3 DEF Counts
<1>10. ASSUME NEW j \in Callers PROVE KeyOK(j)'
  <2>1. CASE j = i
    <3>1. /\ \A n \in Windows : n > window[i] => passed[i][n] = 0
          /\ \A n \in Windows : passed[i][n] <= Limit + failures
      BY <1>1 DEF KeyOK
    <3>2. passed[i][window[i] + 1] = 0 /\ \A n \in Windows : n > window[i] + 1 => passed[i][n] = 0
      BY <1>3, <1>4, <3>1 DEF Windows
    <3>3. failures \in Nat
      BY WaitingFacts
    <3>4. QED
      BY <1>1, <1>6, <2>1, <3>1, <3>2, <3>3 DEF KeyOK
  <2>2. CASE j # i
    BY <1>1, <1>6, <2>2 DEF LimiterInv, KeyOK
  <2>3. QED
    BY <2>1, <2>2
<1>11. ASSUME NEW d \in Connections PROVE ConnOK(d)'
  <2>1. ConnOK(d)
    BY DEF LimiterInv
  <2>2. conn[d].step = "expire" => conn[d].who \in Callers /\ conn[d].who # i
    BY <1>1, <2>1 DEF ConnOK, Types
  <2>3. QED
    BY <1>1, <1>6, <2>1, <2>2 DEF ConnOK
<1>12. QED
  BY <1>7, <1>9, <1>10, <1>11 DEF LimiterInv

\* What a command of request c for caller i comes to, in life w of the key: c
\* goes on as y, the key has value k and lifetime e, p requests were let through
\* in this life, and f commands more have gone wrong.
Command(c, i, w, y, k, e, p, f) ==
    /\ conn[c].who = i /\ conn[c].step \in {"incr", "expire"} /\ window[i] = w
    /\ y.step \in {"open", "expire", "handler"}
    /\ y.step = "open" => y.who = Nobody
    /\ y.step # "open" => y.who = i
    /\ conn' = [conn EXCEPT ![c] = y]
    /\ counter' = [counter EXCEPT ![i] = k]
    /\ expires' = [expires EXCEPT ![i] = e]
    /\ passed' = [passed EXCEPT ![i][w] = p]
    /\ failures' = failures + f /\ failures' <= MaxFailures
    /\ UNCHANGED <<window, hits>>

\* The counts that the command leaves.
Sound(c, i, w, y, k, e, p, f) ==
    /\ e => k > 0
    /\ k >= counter[i] /\ p <= k + failures' /\ p <= Limit + failures'
    /\ conn[c].step = "incr" => k <= counter[i] + 1 + f
    /\ conn[c].step = "expire" => k = counter[i]
    /\ y.step # "expire" => p <= passed[i][w] + 1
    /\ y.step = "expire" => p <= passed[i][w]

\* The requests that it leaves at their EXPIRE: c itself, or another one of i.
Pending(c, i, w, y, k, e, p) ==
    /\ k > 0 /\ ~e
    /\ p + 1 <= k + failures'
    /\ Limit > 0 => p + 1 <= Limit + failures'
    /\ y.step = "expire" => y.window = w

LEMMA RedisStep ==
    ASSUME LimiterInv, NEW c \in Connections, NEW i \in Callers, NEW w \in Windows,
           NEW y \in Conn, NEW k \in Nat, NEW e \in BOOLEAN, NEW p \in Nat, NEW f \in {0, 1},
           Command(c, i, w, y, k, e, p, f), Sound(c, i, w, y, k, e, p, f),
           y.step = "expire" => Pending(c, i, w, y, k, e, p),
           \A d \in Connections \ {c} : conn[d].step = "expire" /\ conn[d].who = i =>
               y.step # "expire" /\ Pending(c, i, w, y, k, e, p)
    PROVE  LimiterInv'
<1>c. /\ conn[c].who = i /\ conn[c].step \in {"incr", "expire"} /\ window[i] = w
      /\ y.step \in {"open", "expire", "handler"}
      /\ y.step = "open" => y.who = Nobody
      /\ y.step # "open" => y.who = i
      /\ conn' = [conn EXCEPT ![c] = y]
      /\ counter' = [counter EXCEPT ![i] = k]
      /\ expires' = [expires EXCEPT ![i] = e]
      /\ passed' = [passed EXCEPT ![i][w] = p]
      /\ failures' = failures + f /\ failures' <= MaxFailures
      /\ UNCHANGED <<window, hits>>
  BY DEF Command
<1>s. /\ e => k > 0
      /\ k >= counter[i] /\ p <= k + failures' /\ p <= Limit + failures'
      /\ conn[c].step = "incr" => k <= counter[i] + 1 + f
      /\ conn[c].step = "expire" => k = counter[i]
      /\ y.step # "expire" => p <= passed[i][w] + 1
      /\ y.step = "expire" => p <= passed[i][w]
  BY DEF Sound
<1>1. Types /\ Counts
  BY <1>c DEF LimiterInv
<1>2. /\ conn' \in [Connections -> Conn] /\ conn'[c] = y
      /\ \A d \in Connections \ {c} : conn'[d] = conn[d]
  BY <1>c, <1>s, <1>1 DEF Types
<1>3. /\ counter' \in [Callers -> Nat] /\ counter'[i] = k
      /\ \A j \in Callers \ {i} : counter'[j] = counter[j]
  BY <1>c, <1>s, <1>1 DEF Types
<1>4. /\ expires' \in [Callers -> BOOLEAN] /\ expires'[i] = e
      /\ \A j \in Callers \ {i} : expires'[j] = expires[j]
  BY <1>c, <1>s, <1>1 DEF Types
<1>5. /\ passed' \in [Callers -> [Windows -> Nat]] /\ passed'[i][w] = p
      /\ \A n \in Windows \ {w} : passed'[i][n] = passed[i][n]
      /\ \A j \in Callers \ {i} : passed'[j] = passed[j]
  BY <1>c, <1>s, <1>1 DEF Types
<1>6. /\ \A j \in Callers : counter[j] \in Nat /\ window[j] \in Nat
      /\ \A j \in Callers, n \in Windows : passed[j][n] \in Nat
      /\ hits \in Nat /\ failures \in Nat /\ failures' \in 0 .. MaxFailures /\ Limit \in Nat
      /\ w \in Nat /\ Windows \subseteq Nat
  BY <1>c, <1>s, <1>1, WaitingFacts, LimiterAssumption DEF Types, Windows
<1>7. Types'
  <2>1. \A d \in Connections : conn'[d].who \in Callers <=> conn'[d].step \in {"incr", "expire", "handler"}
    BY <1>c, <1>s, <1>1, <1>2, LimiterAssumption DEF Types
  <2>2. QED
    BY <1>c, <1>s, <1>1, <1>2, <1>3, <1>4, <1>5, <1>6, <2>1 DEF Types
<1>8. Counts'
  <2>1. IF conn[c].step = "incr" THEN Cardinality(Asking') = Cardinality(Asking) - 1
                                 ELSE Cardinality(Asking') = Cardinality(Asking)
    <3>1. CASE conn[c].step = "incr"
      <4>1. Asking' = Asking \ {c} /\ c \in Asking
        BY <1>c, <1>s, <1>2, <3>1 DEF Asking
      <4>2. QED
        BY <1>c, <1>s, <3>1, <4>1, WaitingFacts, OneLess
    <3>2. CASE conn[c].step = "expire"
      <4>1. Asking' = Asking
        BY <1>c, <1>s, <1>2, <3>2 DEF Asking
      <4>2. QED
        BY <1>c, <1>s, <3>2, <4>1
    <3>3. QED
      BY <1>c, <1>s, <3>1, <3>2
  <2>2. /\ IsFiniteSet(Waiting')
        /\ IF y.step = "expire" THEN Cardinality(Waiting') = Cardinality(Waiting)
                                ELSE Cardinality(Waiting') = Cardinality(Waiting) - 1
    <3>1. CASE y.step = "expire"
      <4>1. Waiting' = Waiting
        BY <1>c, <1>s, <1>2, <3>1 DEF Waiting
      <4>2. QED
        BY <1>c, <1>s, <3>1, <4>1, WaitingFacts
    <3>2. CASE y.step # "expire"
      <4>1. Waiting' = Waiting \ {c} /\ c \in Waiting
        BY <1>c, <1>s, <1>2, <3>2 DEF Waiting
      <4>2. QED
        BY <1>c, <1>s, <3>2, <4>1, WaitingFacts, OneLess
    <3>3. QED
      BY <1>c, <1>s, <3>1, <3>2
  <2>3. Cardinality(Asking) \in Nat /\ Cardinality(Waiting) \in Nat
    BY <1>c, WaitingFacts
  <2>4. PICK q, r : q = Cardinality(Asking') /\ r = Cardinality(Waiting')
    OBVIOUS
  <2>5. /\ q \in Int /\ r \in Int
        /\ q <= Cardinality(Asking) /\ r <= Cardinality(Waiting)
        /\ conn[c].step = "incr" => q = Cardinality(Asking) - 1
        /\ y.step # "expire" => r = Cardinality(Waiting) - 1
    BY <1>c, <1>s, <2>1, <2>2, <2>3, <2>4
  <2>6. /\ counter[i] + Cardinality(Asking) <= hits + failures
        /\ window[i] + Cardinality(Asking) <= hits + 1
        /\ counter[i] > 0 => window[i] + Cardinality(Asking) <= hits
        /\ \A n \in Windows : passed[i][n] + Cardinality(Waiting) <= hits
    BY <1>c, <1>s, <1>1 DEF Counts
  <2>7. k + q <= hits + failures'
    BY <1>c, <1>s, <1>6, <2>3, <2>5, <2>6
  <2>8. w + q <= hits + 1 /\ (k > 0 => w + q <= hits)
    BY <1>c, <1>s, <1>6, <2>3, <2>5, <2>6
  <2>9. p + r <= hits
    <3>1. passed[i][w] + Cardinality(Waiting) <= hits /\ passed[i][w] \in Nat
      BY <1>c, <1>s, <1>6, <2>6
    <3>2. QED
      BY <1>c, <1>s, <1>6, <2>3, <2>5, <3>1
  <2>10. ASSUME NEW j \in Callers, NEW n \in Windows PROVE passed[j][n] + r <= hits
    <3>1. passed[j][n] + Cardinality(Waiting) <= hits /\ passed[j][n] \in Nat
      BY <1>c, <1>s, <1>1, <1>6 DEF Counts
    <3>2. QED
      BY <1>c, <1>s, <1>6, <2>3, <2>5, <3>1
  <2>11. ASSUME NEW j \in Callers, j # i
         PROVE  /\ counter[j] + q <= hits + failures'
                /\ window[j] + q <= hits + 1
                /\ counter[j] > 0 => window[j] + q <= hits
    <3>1. /\ counter[j] + Cardinality(Asking) <= hits + failures
          /\ window[j] + Cardinality(Asking) <= hits + 1
          /\ counter[j] > 0 => window[j] + Cardinality(Asking) <= hits
      BY <1>c, <1>s, <1>1 DEF Counts
    <3>2. counter[j] \in Nat /\ window[j] \in Nat
      BY <1>c, <1>s, <1>6
    <3>3. QED
      BY <1>c, <1>s, <1>6, <2>3, <2>5, <3>1, <3>2
  <2>12. ASSUME NEW j \in Callers
         PROVE  /\ counter'[j] + q <= hits' + failures'
                /\ window'[j] + q <= hits' + 1
                /\ counter'[j] > 0 => window'[j] + q <= hits'
                /\ \A n \in Windows : passed'[j][n] + r <= hits'
    <3>1. CASE j = i
      BY <1>c, <1>s, <1>3, <1>5, <2>7, <2>8, <2>9, <2>10, <3>1
    <3>2. CASE j # i
      BY <1>c, <1>s, <1>3, <1>5, <2>10, <2>11, <3>2
    <3>3. QED
      BY <1>c, <1>s, <3>1, <3>2
  <2>13. QED
    BY <1>c, <1>s, <2>2, <2>4, <2>12 DEF Counts
<1>9. ASSUME NEW j \in Callers PROVE KeyOK(j)'
  <2>1. KeyOK(j)
    BY <1>c DEF LimiterInv
  <2>2. CASE j = i
    <3>1. /\ \A n \in Windows : n > w => passed[i][n] = 0
          /\ \A n \in Windows : passed[i][n] <= Limit + failures
      BY <1>c, <1>s, <2>1, <2>2 DEF KeyOK
    <3>2. ASSUME NEW n \in Windows PROVE passed'[i][n] <= Limit + failures'
      <4>1. CASE n = w
        BY <1>c, <1>s, <1>5, <4>1
      <4>2. CASE n # w
        <5>1. passed'[i][n] = passed[i][n] /\ passed[i][n] \in Nat
          BY <1>c, <1>s, <1>5, <1>6, <4>2
        <5>2. passed[i][n] <= Limit + failures
          BY <1>c, <1>s, <3>1
        <5>3. QED
          BY <1>c, <1>s, <1>6, <5>1, <5>2
      <4>3. QED
        BY <1>c, <1>s, <4>1, <4>2
    <3>3. \A n \in Windows : n > w => passed'[i][n] = 0
      BY <1>c, <1>s, <1>5, <1>6, <3>1
    <3>4. window'[i] = w /\ passed'[i][w] <= counter'[i] + failures'
      BY <1>c, <1>s, <1>3, <1>5
    <3>5. expires'[i] => counter'[i] > 0
      BY <1>c, <1>s, <1>3, <1>4
    <3>6. QED
      BY <1>c, <1>s, <2>2, <3>2, <3>3, <3>4, <3>5 DEF KeyOK
  <2>3. CASE j # i
    <3>1. /\ counter'[j] = counter[j] /\ expires'[j] = expires[j] /\ passed'[j] = passed[j]
          /\ window'[j] = window[j]
      BY <1>c, <1>s, <1>3, <1>4, <1>5, <2>3
    <3>2. ASSUME NEW n \in Windows PROVE passed[j][n] <= Limit + failures'
      <4>1. passed[j][n] <= Limit + failures /\ passed[j][n] \in Nat
        BY <1>c, <1>s, <1>6, <2>1 DEF KeyOK
      <4>2. QED
        BY <1>c, <1>s, <1>6, <4>1
    <3>3. passed[j][window[j]] <= counter[j] + failures'
      <4>1. passed[j][window[j]] <= counter[j] + failures /\ passed[j][window[j]] \in Nat
        BY <1>c, <1>s, <1>1, <1>6, <2>1 DEF KeyOK, Types
      <4>2. counter[j] \in Nat
        BY <1>c, <1>s, <1>6
      <4>3. QED
        BY <1>c, <1>s, <1>6, <4>1, <4>2
    <3>4. QED
      BY <1>c, <1>s, <2>1, <3>1, <3>2, <3>3 DEF KeyOK
  <2>4. QED
    BY <1>c, <1>s, <2>2, <2>3
<1>10. ASSUME NEW d \in Connections PROVE ConnOK(d)'
  <2>1. ConnOK(d) /\ (conn[d].step = "expire" => conn[d].who \in Callers)
    BY <1>c, <1>s, <1>1 DEF LimiterInv, Types
  <2>2. ASSUME d = c, y.step = "expire" PROVE ConnOK(d)'
    <3>1. Pending(c, i, w, y, k, e, p) /\ y.who = i /\ conn'[d] = y /\ window'[i] = w
      BY <1>c, <1>2, <2>2
    <3>2. \A o \in Connections : conn'[o].step = "expire" /\ conn'[o].who = i => o = d
      BY <1>2, <2>2
    <3>3. QED
      BY <1>3, <1>4, <1>5, <3>1, <3>2 DEF ConnOK, Pending
  <2>3. ASSUME d # c, conn[d].who = i, conn[d].step = "expire" PROVE ConnOK(d)'
    <3>1. Pending(c, i, w, y, k, e, p) /\ y.step # "expire" /\ conn'[d] = conn[d] /\ window'[i] = w
      BY <1>c, <1>2, <2>3
    <3>2. /\ conn[d].window = w
          /\ \A o \in Connections : conn[o].step = "expire" /\ conn[o].who = i => o = d
      BY <1>c, <2>1, <2>3 DEF ConnOK
    <3>3. \A o \in Connections : conn'[o].step = "expire" /\ conn'[o].who = i => o = d
      BY <1>2, <3>1, <3>2
    <3>4. QED
      BY <1>3, <1>4, <1>5, <2>3, <3>1, <3>2, <3>3 DEF ConnOK, Pending
  <2>4. ASSUME d # c, conn[d].who # i, conn'[d].step = "expire" PROVE ConnOK(d)'
    <3>1. PICK j : j = conn[d].who
      OBVIOUS
    <3>2. conn'[d] = conn[d] /\ conn[d].step = "expire" /\ j \in Callers /\ j # i
      BY <1>c, <1>s, <1>2, <2>1, <2>4, <3>1
    <3>3. /\ counter'[j] = counter[j] /\ expires'[j] = expires[j] /\ passed'[j] = passed[j]
          /\ window'[j] = window[j]
      BY <1>c, <1>s, <1>3, <1>4, <1>5, <3>2
    <3>4. /\ counter[j] > 0 /\ ~expires[j] /\ conn[d].window = window[j]
          /\ passed[j][window[j]] + 1 <= counter[j] + failures
          /\ Limit > 0 => passed[j][window[j]] + 1 <= Limit + failures
          /\ \A o \in Connections : conn[o].step = "expire" /\ conn[o].who = j => o = d
      BY <1>c, <1>s, <2>1, <3>1, <3>2 DEF ConnOK
    <3>5. passed[j][window[j]] \in Nat /\ counter[j] \in Nat
      BY <1>c, <1>s, <1>1, <1>6, <3>2 DEF Types
    <3>6. /\ passed[j][window[j]] + 1 <= counter[j] + failures'
          /\ Limit > 0 => passed[j][window[j]] + 1 <= Limit + failures'
      BY <1>c, <1>s, <1>6, <3>4, <3>5
    <3>7. \A o \in Connections : conn'[o].step = "expire" /\ conn'[o].who = j => o = d
      BY <1>c, <1>s, <1>2, <3>2, <3>4
    <3>8. QED
      BY <1>c, <1>s, <3>1, <3>2, <3>3, <3>4, <3>6, <3>7 DEF ConnOK
  <2>6. conn'[d].step # "expire" => ConnOK(d)'
    BY <1>c DEF ConnOK
  <2>5. QED
    BY <1>2, <2>2, <2>3, <2>4, <2>6
<1>11. QED
  BY <1>c, <1>s, <1>7, <1>8, <1>9, <1>10 DEF LimiterInv

\* What is known of a request that waits for Redis, and of its caller's key.
LEMMA AskingFacts ==
    ASSUME LimiterInv, NEW c \in Connections, conn[c].step \in {"incr", "expire"},
           NEW i, i = conn[c].who, NEW w, w = window[i]
    PROVE  /\ i \in Callers /\ w \in Windows /\ counter[i] \in Nat /\ passed[i][w] \in Nat
           /\ failures \in 0 .. MaxFailures /\ failures \in Nat /\ Limit \in Nat
           /\ expires[i] \in BOOLEAN /\ (expires[i] => counter[i] > 0)
           /\ passed[i][w] <= Limit + failures
           /\ passed[i][w] <= counter[i] + failures
           /\ conn[c] \in Conn
           /\ counter = [counter EXCEPT ![i] = counter[i]]
           /\ expires = [expires EXCEPT ![i] = expires[i]]
           /\ passed = [passed EXCEPT ![i][w] = passed[i][w]]
<1>1. Types
  BY DEF LimiterInv
<1>2. i \in Callers /\ w \in Windows /\ conn[c] \in Conn
  BY <1>1 DEF Types
<1>3. KeyOK(i)
  BY <1>2 DEF LimiterInv
<1>4. counter[i] \in Nat /\ expires[i] \in BOOLEAN /\ passed[i][w] \in Nat
  BY <1>1, <1>2 DEF Types
<1>5. failures \in 0 .. MaxFailures /\ failures \in Nat /\ Limit \in Nat
  BY <1>1, LimiterAssumption DEF Types
<1>6. /\ counter = [counter EXCEPT ![i] = counter[i]]
      /\ expires = [expires EXCEPT ![i] = expires[i]]
      /\ passed = [passed EXCEPT ![i][w] = passed[i][w]]
  BY <1>1, <1>2 DEF Types
<1>7. QED
  BY <1>2, <1>3, <1>4, <1>5, <1>6 DEF KeyOK

\* A request of the same caller that is at its EXPIRE.
LEMMA AtExpire ==
    ASSUME LimiterInv, NEW d \in Connections, conn[d].step = "expire",
           NEW i, i = conn[d].who, NEW w, w = window[i]
    PROVE  /\ counter[i] > 0 /\ ~expires[i] /\ conn[d].window = w
           /\ passed[i][w] + 1 <= counter[i] + failures
           /\ Limit > 0 => passed[i][w] + 1 <= Limit + failures
           /\ \A o \in Connections : conn[o].step = "expire" /\ conn[o].who = i => o = d
  BY DEF LimiterInv, ConnOK

\* INCR returned f more than one more than the counter was.
LEMMA CountedKeeps ==
    ASSUME LimiterInv, NEW c \in Connections, conn[c].step = "incr",
           NEW f \in {0, 1}, failures' = failures + f, failures' <= MaxFailures, UNCHANGED hits,
           Counted(c, counter[conn[c].who] + (1 + f))
    PROVE  LimiterInv'
<1>1. PICK i, w, k, P : /\ i = conn[c].who /\ w = window[i] /\ k = counter[i] + (1 + f)
                        /\ P = passed[i][w]
  OBVIOUS
<1>2. /\ i \in Callers /\ w \in Windows /\ counter[i] \in Nat /\ P \in Nat
      /\ failures \in Nat /\ Limit \in Nat
      /\ expires[i] \in BOOLEAN /\ (expires[i] => counter[i] > 0)
      /\ P <= Limit + failures /\ P <= counter[i] + failures
      /\ conn[c] \in Conn
      /\ expires = [expires EXCEPT ![i] = expires[i]]
      /\ passed = [passed EXCEPT ![i][w] = P]
  BY <1>1, AskingFacts
<1>3. PICK e : e = expires[i]
  OBVIOUS
<1>4. /\ counter' = [counter EXCEPT ![i] = k] /\ k \in Nat /\ k > 0
      /\ k <= counter[i] + 1 + f /\ k >= counter[i] + 1
      /\ expires' = [expires EXCEPT ![i] = e] /\ e \in BOOLEAN
      /\ UNCHANGED <<window, hits>>
  BY <1>1, <1>2, <1>3 DEF Counted
<1>5. ASSUME NEW d \in Connections \ {c}, conn[d].step = "expire", conn[d].who = i
      PROVE  /\ counter[i] > 0 /\ ~e
             /\ P + 1 <= counter[i] + failures
             /\ Limit > 0 => P + 1 <= Limit + failures
  BY <1>1, <1>3, <1>5, AtExpire
<1>6. ASSUME First(k) PROVE LimiterInv'
  <2>1. counter[i] = 0 /\ k = 1 /\ f = 0
    BY <1>1, <1>2, <1>6 DEF First
  <2>2. PICK y : y = [conn[c] EXCEPT !.step = "expire", !.window = w]
    OBVIOUS
  <2>3. y \in Conn /\ y.step = "expire" /\ y.who = i /\ y.window = w
    BY <1>1, <1>2, <2>2 DEF Conn, Steps
  <2>4. conn' = [conn EXCEPT ![c] = y] /\ passed' = [passed EXCEPT ![i][w] = P]
    BY <1>1, <1>2, <1>6, <2>2 DEF Counted
  <2>5. Command(c, i, w, y, k, e, P, f)
    BY <1>1, <1>4, <2>3, <2>4 DEF Command
  <2>6. Sound(c, i, w, y, k, e, P, f)
    BY <1>1, <1>2, <1>4, <2>1, <2>3 DEF Sound
  <2>7. Pending(c, i, w, y, k, e, P)
    BY <1>2, <1>3, <2>1, <2>3 DEF Pending
  <2>8. \A d \in Connections \ {c} : ~(conn[d].step = "expire" /\ conn[d].who = i)
    BY <1>5, <2>1
  <2>9. QED
    BY <1>2, <1>4, <2>3, <2>5, <2>6, <2>7, <2>8, RedisStep
<1>7. ASSUME ~First(k), OverLimit(k) PROVE LimiterInv'
  <2>1. PICK y : y = [Closed EXCEPT !.step = "open"]
    OBVIOUS
  <2>2. y \in Conn /\ y.step = "open" /\ y.who = Nobody
    BY <2>1, ConnTypes DEF Conn, Steps, Closed
  <2>3. conn' = [conn EXCEPT ![c] = y] /\ passed' = [passed EXCEPT ![i][w] = P]
    BY <1>1, <1>2, <1>7, <2>1 DEF Counted, Decide, Answered
  <2>4. Command(c, i, w, y, k, e, P, f)
    BY <1>1, <1>4, <2>2, <2>3 DEF Command
  <2>5. Sound(c, i, w, y, k, e, P, f)
    BY <1>1, <1>2, <1>4, <2>2 DEF Sound
  <2>6. ASSUME NEW d \in Connections \ {c}, conn[d].step = "expire", conn[d].who = i
        PROVE  y.step # "expire" /\ Pending(c, i, w, y, k, e, P)
    BY <1>2, <1>4, <1>5, <2>2, <2>6 DEF Pending
  <2>7. QED
    BY <1>2, <1>4, <2>2, <2>4, <2>5, <2>6, RedisStep
<1>8. ASSUME ~First(k), ~OverLimit(k) PROVE LimiterInv'
  <2>1. PICK y, p : y = [conn[c] EXCEPT !.step = "handler"] /\ p = P + 1
    OBVIOUS
  <2>2. y \in Conn /\ y.step = "handler" /\ y.who = i
    BY <1>1, <1>2, <2>1 DEF Conn, Steps
  <2>3. conn' = [conn EXCEPT ![c] = y]
    BY <1>1, <1>8, <2>1 DEF Counted, Decide, LetThrough, Step
  <2>4. passed' = [passed EXCEPT ![i][w] = p]
    BY <1>1, <1>2, <1>8, <2>1 DEF Counted, Decide, LetThrough
  <2>5. k <= Limit
    BY <1>2, <1>4, <1>8 DEF OverLimit
  <2>6. Command(c, i, w, y, k, e, p, f) /\ p \in Nat
    BY <1>1, <1>2, <1>4, <2>1, <2>2, <2>3, <2>4 DEF Command
  <2>7. Sound(c, i, w, y, k, e, p, f)
    BY <1>1, <1>2, <1>4, <2>1, <2>2, <2>5 DEF Sound
  <2>8. ASSUME NEW d \in Connections \ {c}, conn[d].step = "expire", conn[d].who = i
        PROVE  y.step # "expire" /\ Pending(c, i, w, y, k, e, p)
    BY <1>2, <1>4, <1>5, <2>1, <2>2, <2>5, <2>8 DEF Pending
  <2>9. QED
    BY <1>2, <1>4, <2>2, <2>6, <2>7, <2>8, RedisStep
<1>9. QED
  BY <1>6, <1>7, <1>8

\* INCR went wrong, and the request was let through whether it was counted or not.
LEMMA IncrFailsKeeps ==
    ASSUME LimiterInv, NEW c \in Connections, IncrFails(c), UNCHANGED hits
    PROVE  LimiterInv'
<1>1. PICK i, w, P : i = conn[c].who /\ w = window[i] /\ P = passed[i][w]
  OBVIOUS
<1>2. /\ i \in Callers /\ w \in Windows /\ counter[i] \in Nat /\ P \in Nat
      /\ failures \in Nat /\ Limit \in Nat
      /\ expires[i] \in BOOLEAN /\ (expires[i] => counter[i] > 0)
      /\ P <= Limit + failures /\ P <= counter[i] + failures
      /\ conn[c] \in Conn
      /\ expires = [expires EXCEPT ![i] = expires[i]]
  BY <1>1, AskingFacts DEF IncrFails
<1>3. PICK n \in {0, 1} : counter' = [counter EXCEPT ![i] = counter[i] + n]
  BY <1>1 DEF IncrFails
<1>4. PICK k, e, p, y : /\ k = counter[i] + n /\ e = expires[i] /\ p = P + 1
                        /\ y = [conn[c] EXCEPT !.step = "handler"]
  OBVIOUS
<1>5. y \in Conn /\ y.step = "handler" /\ y.who = i /\ k \in Nat /\ e \in BOOLEAN /\ p \in Nat
      /\ k >= counter[i] /\ k <= counter[i] + 1
  BY <1>1, <1>2, <1>4 DEF Conn, Steps
<1>6. failures' = failures + 1 /\ failures' <= MaxFailures
  BY <1>2, LimiterAssumption DEF IncrFails, GoesWrong
<1>7. Command(c, i, w, y, k, e, p, 1)
  <2>1. conn' = [conn EXCEPT ![c] = y]
    BY <1>4 DEF IncrFails, LetThrough, Step
  <2>2. passed' = [passed EXCEPT ![i][w] = p]
    BY <1>1, <1>4 DEF IncrFails, LetThrough
  <2>3. QED
    BY <1>1, <1>2, <1>3, <1>4, <1>5, <1>6, <2>1, <2>2 DEF Command, IncrFails
<1>8. Sound(c, i, w, y, k, e, p, 1)
  BY <1>1, <1>2, <1>4, <1>5, <1>6 DEF Sound, IncrFails
<1>9. ASSUME NEW d \in Connections \ {c}, conn[d].step = "expire", conn[d].who = i
      PROVE  y.step # "expire" /\ Pending(c, i, w, y, k, e, p)
  <2>1. /\ counter[i] > 0 /\ ~e
        /\ P + 1 <= counter[i] + failures
        /\ Limit > 0 => P + 1 <= Limit + failures
    BY <1>1, <1>4, <1>9, AtExpire
  <2>2. QED
    BY <1>2, <1>4, <1>5, <1>6, <2>1 DEF Pending
<1>10. QED
  BY <1>2, <1>5, <1>7, <1>8, <1>9, RedisStep

\* EXPIRE was answered, or it went wrong (f = 1) and may have been run (e).
LEMMA ExpireKeeps ==
    ASSUME LimiterInv, NEW c \in Connections, conn[c].step = "expire",
           NEW e \in BOOLEAN, expires' = [expires EXCEPT ![conn[c].who] = e],
           NEW f \in {0, 1}, failures' = failures + f, failures' <= MaxFailures,
           \/ Decide(c, 1, conn[c].window)
           \/ LetThrough(c, conn[c].window) /\ f = 1,
           UNCHANGED <<counter, window, hits>>
    PROVE  LimiterInv'
<1>1. PICK i, w, P, k : i = conn[c].who /\ w = window[i] /\ P = passed[i][w] /\ k = counter[i]
  OBVIOUS
<1>2. /\ i \in Callers /\ w \in Windows /\ k \in Nat /\ P \in Nat
      /\ failures \in Nat /\ Limit \in Nat
      /\ P <= Limit + failures /\ P <= k + failures
      /\ conn[c] \in Conn
      /\ counter = [counter EXCEPT ![i] = k]
      /\ passed = [passed EXCEPT ![i][w] = P]
  BY <1>1, AskingFacts
<1>3. /\ k > 0 /\ conn[c].window = w
      /\ P + 1 <= k + failures
      /\ Limit > 0 => P + 1 <= Limit + failures
      /\ \A o \in Connections : conn[o].step = "expire" /\ conn[o].who = i => o = c
  BY <1>1, AtExpire
<1>4. \A d \in Connections \ {c} : ~(conn[d].step = "expire" /\ conn[d].who = i)
  BY <1>3
<1>5. ASSUME OverLimit(1), Answered(c), UNCHANGED passed PROVE LimiterInv'
  <2>1. PICK y : y = [Closed EXCEPT !.step = "open"]
    OBVIOUS
  <2>2. y \in Conn /\ y.step = "open" /\ y.who = Nobody
    BY <2>1, ConnTypes DEF Conn, Steps, Closed
  <2>3. Command(c, i, w, y, k, e, P, f)
    BY <1>1, <1>2, <1>5, <2>1, <2>2 DEF Command, Answered
  <2>4. Sound(c, i, w, y, k, e, P, f)
    BY <1>1, <1>2, <1>3, <2>2 DEF Sound
  <2>5. QED
    BY <1>2, <1>4, <2>2, <2>3, <2>4, RedisStep
<1>6. ASSUME LetThrough(c, conn[c].window), ~OverLimit(1) \/ f = 1 PROVE LimiterInv'
  <2>1. PICK y, p : y = [conn[c] EXCEPT !.step = "handler"] /\ p = P + 1
    OBVIOUS
  <2>2. y \in Conn /\ y.step = "handler" /\ y.who = i /\ p \in Nat
    BY <1>1, <1>2, <2>1 DEF Conn, Steps
  <2>3. conn' = [conn EXCEPT ![c] = y]
    BY <1>6, <2>1 DEF LetThrough, Step
  <2>4. passed' = [passed EXCEPT ![i][w] = p]
    BY <1>1, <1>3, <1>6, <2>1 DEF LetThrough
  <2>5. Command(c, i, w, y, k, e, p, f)
    BY <1>1, <1>2, <2>2, <2>3, <2>4 DEF Command
  <2>6. p <= Limit + failures'
    BY <1>2, <1>3, <1>6, <2>1 DEF OverLimit
  <2>7. Sound(c, i, w, y, k, e, p, f)
    BY <1>1, <1>2, <1>3, <2>1, <2>2, <2>6 DEF Sound
  <2>8. QED
    BY <1>2, <1>4, <2>2, <2>5, <2>7, RedisStep
<1>7. QED
  BY <1>5, <1>6 DEF Decide

LEMMA LimiterKeeps ==
    ASSUME LimiterInv, NEW c \in Connections, LimiterStep(c), UNCHANGED hits
    PROVE  LimiterInv'
<1>0. failures \in Nat /\ failures <= MaxFailures
  BY WaitingFacts DEF LimiterInv, Types
<1>1. ASSUME Incr(c) PROVE LimiterInv'
  <2>1. failures' = failures + 0 /\ failures' <= MaxFailures /\ conn[c].step = "incr"
    BY <1>0, <1>1 DEF Incr
  <2>2. counter[conn[c].who] + (1 + 0) = counter[conn[c].who] + 1
    OBVIOUS
  <2>3. Counted(c, counter[conn[c].who] + (1 + 0))
    BY <1>1, <2>2 DEF Incr
  <2>4. QED
    BY <2>1, <2>3, CountedKeeps
<1>2. ASSUME IncrTwice(c) PROVE LimiterInv'
  <2>1. failures' = failures + 1 /\ failures' <= MaxFailures /\ conn[c].step = "incr"
    BY <1>0, <1>2, LimiterAssumption DEF IncrTwice, GoesWrong
  <2>2. counter[conn[c].who] + (1 + 1) = counter[conn[c].who] + 2
    OBVIOUS
  <2>3. Counted(c, counter[conn[c].who] + (1 + 1))
    BY <1>2, <2>2 DEF IncrTwice
  <2>4. QED
    BY <2>1, <2>3, CountedKeeps
<1>3. ASSUME IncrFails(c) PROVE LimiterInv'
  BY <1>3, IncrFailsKeeps
<1>4. ASSUME Expire(c) PROVE LimiterInv'
  <2>1. failures' = failures + 0 /\ failures' <= MaxFailures
    BY <1>0, <1>4 DEF Expire
  <2>2. QED
    BY <1>4, <2>1, ExpireKeeps DEF Expire
<1>5. ASSUME ExpireFails(c) PROVE LimiterInv'
  <2>1. failures' = failures + 1 /\ failures' <= MaxFailures
    BY <1>0, <1>5, LimiterAssumption DEF ExpireFails, GoesWrong
  <2>2. PICK done \in BOOLEAN : expires' = [expires EXCEPT ![conn[c].who] = done]
    BY <1>5 DEF ExpireFails
  <2>3. QED
    BY <1>5, <2>1, <2>2, ExpireKeeps DEF ExpireFails
<1>6. QED
  BY <1>1, <1>2, <1>3, <1>4, <1>5 DEF LimiterStep

-----------------------------------------------------------------------------
(* The server around the limiter *)

\* Exit, and the steps of a process that may come to it.
LEMMA ProcessQuiet ==
    ASSUME LimiterInv, NEW p \in Processes,
           Start(p) \/ Signal(p) \/ SignalAgain(p) \/ Stop(p) \/ Crash(p)
    PROVE  LimiterInv'
<1>1. ASSUME NEW cs, Close(cs), UNCHANGED <<redisVars, hits>> PROVE LimiterInv'
  BY <1>1, CloseQuiet
<1>2. ASSUME Exit(p) PROVE LimiterInv'
  BY <1>1, <1>2 DEF Exit
<1>3. ASSUME CloseIdle(p), UNCHANGED <<redisVars, ghosts>> PROVE LimiterInv'
  BY <1>1, <1>3 DEF CloseIdle, ghosts
<1>4. ASSUME UNCHANGED <<redisVars, conn, hits>> PROVE LimiterInv'
  <2>1. \A d \in Connections : conn[d].who \in Callers <=> conn[d].step \in {"incr", "expire", "handler"}
    BY DEF LimiterInv, Types
  <2>2. conn \in [Connections -> Conn]
    BY DEF LimiterInv, Types
  <2>3. QED
    BY <1>4, <2>1, <2>2, QuietStep
<1>5. QED
  BY <1>2, <1>3, <1>4 DEF Start, Signal, SignalAgain, Stop, ServerClosed, Disconnect, CloseQueue,
                          Caught, Crash, ghosts

LEMMA ConnectionQuiet ==
    ASSUME LimiterInv, NEW c \in Connections,
           \/ \E p \in Processes : Connect(c, p)
           \/ NextRequest(c) \/ Handle(c) \/ HangUp(c) \/ KeepAliveTimeout(c)
    PROVE  LimiterInv'
<1>1. ASSUME conn[c].step \in {"closed", "open"}, Step(c, "arriving"), UNCHANGED <<redisVars, ghosts>>
      PROVE  LimiterInv'
  <2>1. PICK y : y = [conn[c] EXCEPT !.step = "arriving"]
    OBVIOUS
  <2>2. conn[c] \in Conn /\ conn[c].who \notin Callers
    BY <1>1 DEF LimiterInv, Types
  <2>3. y \in Conn /\ y.step = "arriving" /\ y.who = Nobody
    BY <2>1, <2>2 DEF Conn, Steps
  <2>4. conn' = [conn EXCEPT ![c] = y] /\ UNCHANGED <<redisVars, hits>>
    BY <1>1, <2>1 DEF Step, ghosts
  <2>5. QED
    BY <2>3, <2>4, ConnQuiet
<1>2. ASSUME Handle(c) PROVE LimiterInv'
  <2>1. PICK y : y = [Closed EXCEPT !.step = "open"]
    OBVIOUS
  <2>2. y \in Conn /\ y.step = "open" /\ y.who = Nobody
    BY <2>1, ConnTypes DEF Conn, Steps, Closed
  <2>3. conn' = [conn EXCEPT ![c] = y] /\ UNCHANGED <<redisVars, hits>>
    BY <1>2, <2>1 DEF Handle, Answered, ghosts
  <2>4. QED
    BY <2>2, <2>3, ConnQuiet
<1>3. ASSUME HangUp(c) \/ KeepAliveTimeout(c) PROVE LimiterInv'
  BY <1>3, CloseQuiet DEF HangUp, KeepAliveTimeout, ghosts
<1>4. QED
  BY <1>1, <1>2, <1>3 DEF Connect, NextRequest

LEMMA LimiterInvHolds == ServerSpec => []LimiterInv
<1>1. ASSUME ServerInit PROVE LimiterInv
  <2>1. /\ counter = [i \in Callers |-> 0] /\ expires = [i \in Callers |-> FALSE]
        /\ conn = [c \in Connections |-> Closed] /\ window = [i \in Callers |-> 1]
        /\ passed = [i \in Callers |-> [n \in Windows |-> 0]] /\ failures = 0 /\ hits = 0
    BY <1>1 DEF ServerInit, LimiterInit
  <2>2. 1 \in Windows
    BY LimiterAssumption DEF Windows
  <2>3. Types
    BY <2>1, <2>2, ConnTypes, LimiterAssumption DEF Types
  <2>4. Waiting = {} /\ Asking = {}
    BY <2>1, ConnTypes DEF Waiting, Asking
  <2>5. IsFiniteSet(Waiting) /\ Cardinality(Waiting) = 0 /\ Cardinality(Asking) = 0
    BY <2>4, FS_EmptySet
  <2>6. Counts
    BY <2>1, <2>2, <2>5 DEF Counts
  <2>7. ASSUME NEW i \in Callers PROVE KeyOK(i)
    BY <2>1, <2>2, LimiterAssumption DEF KeyOK
  <2>8. ASSUME NEW c \in Connections PROVE ConnOK(c)
    BY <2>1, ConnTypes DEF ConnOK
  <2>9. QED
    BY <2>3, <2>6, <2>7, <2>8 DEF LimiterInv
<1>2. ASSUME LimiterInv, [ServerNext]_serverVars PROVE LimiterInv'
  <2>1. ASSUME NEW p \in Processes,
               Start(p) \/ Signal(p) \/ SignalAgain(p) \/ Stop(p) \/ Crash(p)
        PROVE  LimiterInv'
    BY <1>2, <2>1, ProcessQuiet
  <2>2. ASSUME NEW c \in Connections,
               \/ \E p \in Processes : Connect(c, p)
               \/ NextRequest(c) \/ Handle(c) \/ HangUp(c) \/ KeepAliveTimeout(c)
        PROVE  LimiterInv'
    BY <1>2, <2>2, ConnectionQuiet
  <2>3. ASSUME NEW c \in Connections, NEW i \in Callers, Request(c, i) PROVE LimiterInv'
    BY <1>2, <2>3, RequestKeeps
  <2>4. ASSUME NEW c \in Connections, Limiter(c) PROVE LimiterInv'
    BY <1>2, <2>4, LimiterKeeps DEF Limiter, ghosts
  <2>5. ASSUME NEW i \in Callers, WindowEnds(i) PROVE LimiterInv'
    BY <1>2, <2>5, ElapseKeeps DEF WindowEnds, ghosts
  <2>6. ASSUME UNCHANGED serverVars PROVE LimiterInv'
    BY <1>2, <2>6 DEF serverVars, LimiterInv, Types, Counts, KeyOK, ConnOK, Asking, Waiting
  <2>7. QED
    BY <1>2, <2>1, <2>2, <2>3, <2>4, <2>5, <2>6 DEF ServerNext
<1>3. QED
  BY <1>1, <1>2, PTL DEF ServerSpec

-----------------------------------------------------------------------------
(* The processes *)

\* No connection is opened, and no process moves.
LEMMA ConnectionsStay ==
    ASSUME ProcessInv, UNCHANGED <<phase, again, at, crashes, cut>>,
           \A d \in Connections : conn'[d].step # "closed" => conn[d].step # "closed"
    PROVE  ProcessInv'
<1>1. \A p \in Processes : ConnectionsOf(p)' \subseteq ConnectionsOf(p)
  BY DEF ConnectionsOf
<1>2. ShutdownCutsNoRequest'
  BY <1>1 DEF ProcessInv, ShutdownCutsNoRequest
<1>3. QED
  BY <1>2 DEF ProcessInv

\* A request under way goes on.
LEMMA RequestGoesOn ==
    ASSUME ProcessInv, conn \in [Connections -> Conn], NEW c \in Connections,
           UNCHANGED <<phase, again, at, crashes, cut>>, conn[c].step # "closed",
           \A d \in Connections \ {c} : conn'[d] = conn[d]
    PROVE  ProcessInv'
  BY ConnectionsStay

LEMMA LimiterMoves ==
    ASSUME NEW c \in Connections, conn \in [Connections -> Conn], LimiterStep(c) \/ Handle(c)
    PROVE  conn[c].step # "closed" /\ \A d \in Connections \ {c} : conn'[d] = conn[d]
  BY DEF LimiterStep, Incr, IncrTwice, IncrFails, Expire, ExpireFails, Counted, Decide, LetThrough,
         Answered, Step, Handle

LEMMA CloseCloses ==
    ASSUME NEW cs, Close(cs)
    PROVE  \A d \in Connections : /\ conn'[d].step # "closed" => conn[d].step # "closed"
                                  /\ d \in cs => conn'[d].step = "closed"
                                  /\ d \notin cs => conn'[d] = conn[d]
  BY DEF Close, Closed

\* The process is gone, and its connections with it.
LEMMA ExitKeeps ==
    ASSUME ProcessInv, NEW p \in Processes, Exit(p),
           \/ crashes' = crashes + 1
           \/ UNCHANGED crashes /\ (crashes = 0 => InRequest(p) = {})
    PROVE  ProcessInv'
<1>1. /\ phase' = [phase EXCEPT ![p] = "down"] /\ again' = [again EXCEPT ![p] = FALSE]
      /\ cut' = (cut \/ InRequest(p) # {}) /\ UNCHANGED at /\ Close(ConnectionsOf(p))
  BY DEF Exit, Goto
<1>2. \A d \in Connections : /\ conn'[d].step # "closed" => conn[d].step # "closed"
                             /\ at[d] = p => conn'[d].step = "closed"
  BY <1>1, CloseCloses DEF ConnectionsOf
<1>3. phase' \in [Processes -> Phases] /\ again' \in [Processes -> BOOLEAN] /\ cut' \in BOOLEAN
      /\ phase'[p] = "down" /\ \A o \in Processes \ {p} : phase'[o] = phase[o]
  BY <1>1 DEF ProcessInv, Phases
<1>4. \A d \in Connections : at[d] \in Processes
  BY DEF ProcessInv
<1>5. \A d \in Connections : phase'[at'[d]] = "down" => conn'[d].step = "closed"
  BY <1>1, <1>2, <1>3, <1>4 DEF ProcessInv
<1>6. crashes' \in Nat /\ (crashes' = 0 => crashes = 0 /\ InRequest(p) = {})
  BY DEF ProcessInv
<1>7. \A o \in Processes : ConnectionsOf(o)' \subseteq ConnectionsOf(o)
  BY <1>1, <1>2 DEF ConnectionsOf
<1>8. ShutdownCutsNoRequest'
  BY <1>1, <1>3, <1>6, <1>7 DEF ProcessInv, ShutdownCutsNoRequest
<1>9. QED
  BY <1>1, <1>3, <1>5, <1>6, <1>8 DEF ProcessInv

\* A process that has closed its server has no connection to lose.
LEMMA OrderlyExit ==
    ASSUME ProcessInv, NEW p \in Processes, Exit(p), UNCHANGED crashes,
           phase[p] \in {"disconnecting", "closingQueue"} \/ Drained(p)
    PROVE  ProcessInv'
<1>1. crashes = 0 => ConnectionsOf(p) = {}
  BY DEF ProcessInv, ShutdownCutsNoRequest, Drained
<1>2. crashes = 0 => InRequest(p) = {}
  BY <1>1 DEF InRequest
<1>3. QED
  BY <1>2, ExitKeeps

\* Process p goes on, and its connections stay or are closed.
LEMMA GotoKeeps ==
    ASSUME ProcessInv, NEW p \in Processes, NEW next \in Phases \ {"down"}, Goto(p, next),
           UNCHANGED <<again, at, crashes, cut>>,
           \A d \in Connections : conn'[d].step # "closed" => conn[d].step # "closed",
           next \in {"disconnecting", "closingQueue"} /\ crashes = 0 => ConnectionsOf(p) = {}
    PROVE  ProcessInv'
<1>1. phase' = [phase EXCEPT ![p] = next]
  BY DEF Goto
<1>2. phase' \in [Processes -> Phases] /\ phase'[p] = next /\ \A o \in Processes \ {p} : phase'[o] = phase[o]
  BY <1>1 DEF ProcessInv
<1>3. \A d \in Connections : at[d] \in Processes
  BY DEF ProcessInv
<1>4. \A d \in Connections : phase'[at'[d]] = "down" => conn'[d].step = "closed"
  BY <1>2, <1>3 DEF ProcessInv
<1>5. \A o \in Processes : ConnectionsOf(o)' \subseteq ConnectionsOf(o)
  BY DEF ConnectionsOf
<1>6. ShutdownCutsNoRequest'
  BY <1>2, <1>5 DEF ProcessInv, ShutdownCutsNoRequest
<1>7. QED
  BY <1>2, <1>4, <1>6 DEF ProcessInv

LEMMA ProcessStep ==
    ASSUME ProcessInv, NEW p \in Processes,
           Start(p) \/ Signal(p) \/ SignalAgain(p) \/ Stop(p) \/ Crash(p)
    PROVE  ProcessInv'
<1>1. ASSUME UNCHANGED conn \/ CloseIdle(p)
      PROVE  \A d \in Connections : conn'[d].step # "closed" => conn[d].step # "closed"
  BY <1>1, CloseCloses DEF CloseIdle
<1>2. ASSUME Start(p) PROVE ProcessInv'
  <2>1. Goto(p, "up") /\ UNCHANGED <<conn, again, at, crashes, cut>>
    BY <1>2 DEF Start
  <2>2. QED
    BY <1>1, <2>1, GotoKeeps DEF Phases
<1>3. ASSUME Signal(p) PROVE ProcessInv'
  <2>1. Goto(p, "closing") /\ CloseIdle(p) /\ UNCHANGED <<again, at, crashes, cut>>
    BY <1>3 DEF Signal, ghosts
  <2>2. QED
    BY <1>1, <2>1, GotoKeeps DEF Phases
<1>4. ASSUME SignalAgain(p) PROVE ProcessInv'
  <2>1. ASSUME again' = [again EXCEPT ![p] = TRUE], CloseIdle(p), UNCHANGED <<phase, at, crashes, cut>>
        PROVE  ProcessInv'
    <3>1. again' \in [Processes -> BOOLEAN]
      BY <2>1 DEF ProcessInv
    <3>2. \A o \in Processes : ConnectionsOf(o)' \subseteq ConnectionsOf(o)
      BY <1>1, <2>1 DEF ConnectionsOf
    <3>3. ShutdownCutsNoRequest'
      BY <2>1, <3>2 DEF ProcessInv, ShutdownCutsNoRequest
    <3>4. QED
      BY <1>1, <2>1, <3>1, <3>3 DEF ProcessInv
  <2>2. ASSUME phase[p] \in {"disconnecting", "closingQueue"}, Exit(p), UNCHANGED crashes
        PROVE  ProcessInv'
    BY <2>2, OrderlyExit
  <2>3. QED
    BY <1>4, <2>1, <2>2 DEF SignalAgain, ghosts
<1>5. ASSUME ServerClosed(p) PROVE ProcessInv'
  <2>1. ASSUME Exit(p), UNCHANGED crashes PROVE ProcessInv'
    BY <1>5, <2>1, OrderlyExit DEF ServerClosed
  <2>2. ASSUME Goto(p, "disconnecting"), UNCHANGED <<conn, again, at, ghosts>> PROVE ProcessInv'
    <3>1. ConnectionsOf(p) = {}
      BY <1>5 DEF ServerClosed, Drained
    <3>2. QED
      BY <1>1, <2>2, <3>1, GotoKeeps DEF Phases, ghosts
  <2>3. QED
    BY <1>5, <2>1, <2>2 DEF ServerClosed
<1>6. ASSUME Disconnect(p) PROVE ProcessInv'
  <2>1. phase[p] = "disconnecting"
    BY <1>6 DEF Disconnect
  <2>2. ASSUME Goto(p, "closingQueue"), UNCHANGED <<conn, again, at, ghosts>> PROVE ProcessInv'
    <3>1. crashes = 0 => ConnectionsOf(p) = {}
      BY <2>1 DEF ProcessInv, ShutdownCutsNoRequest
    <3>2. QED
      BY <1>1, <2>2, <3>1, GotoKeeps DEF Phases, ghosts
  <2>3. ASSUME Exit(p), UNCHANGED crashes PROVE ProcessInv'
    BY <2>1, <2>3, OrderlyExit
  <2>4. QED
    BY <1>6, <2>2, <2>3 DEF Disconnect, Caught
<1>7. ASSUME CloseQueue(p) PROVE ProcessInv'
  BY <1>7, OrderlyExit DEF CloseQueue, Caught
<1>8. ASSUME Crash(p) PROVE ProcessInv'
  BY <1>8, ExitKeeps DEF Crash
<1>9. QED
  BY <1>2, <1>3, <1>4, <1>5, <1>6, <1>7, <1>8 DEF Stop

LEMMA ConnectKeeps ==
    ASSUME ProcessInv, conn \in [Connections -> Conn],
           NEW c \in Connections, NEW p \in Processes, Connect(c, p)
    PROVE  ProcessInv'
<1>1. /\ phase[p] = "up" /\ at' = [at EXCEPT ![c] = p] /\ conn' = [conn EXCEPT ![c].step = "arriving"]
      /\ UNCHANGED <<phase, again, crashes, cut>>
  BY DEF Connect, Accepting, Step, ghosts
<1>2. at' \in [Connections -> Processes] /\ at'[c] = p
      /\ \A d \in Connections \ {c} : at'[d] = at[d] /\ conn'[d] = conn[d]
  BY <1>1 DEF ProcessInv
<1>3. \A d \in Connections : phase'[at'[d]] = "down" => conn'[d].step = "closed"
  BY <1>1, <1>2 DEF ProcessInv
<1>4. \A o \in Processes \ {p} : ConnectionsOf(o)' \subseteq ConnectionsOf(o)
  BY <1>2 DEF ConnectionsOf
<1>5. ShutdownCutsNoRequest'
  BY <1>1, <1>4 DEF ProcessInv, ShutdownCutsNoRequest
<1>6. QED
  BY <1>1, <1>2, <1>3, <1>5 DEF ProcessInv

LEMMA ProcessInvHolds == ServerSpec => []ProcessInv
<1>1. ASSUME ServerInit PROVE ProcessInv
  <2>1. \A p \in Processes : phase[p] = "down"
    BY <1>1 DEF ServerInit
  <2>2. \A c \in Connections : conn[c].step = "closed"
    BY <1>1 DEF ServerInit, LimiterInit, Closed
  <2>3. QED
    BY <1>1, <2>1, <2>2 DEF ServerInit, ProcessInv, ShutdownCutsNoRequest, Phases
<1>2. ASSUME ProcessInv, LimiterInv, [ServerNext]_serverVars PROVE ProcessInv'
  <2>0. conn \in [Connections -> Conn]
    BY <1>2 DEF LimiterInv, Types
  <2>1. ASSUME NEW p \in Processes,
               Start(p) \/ Signal(p) \/ SignalAgain(p) \/ Stop(p) \/ Crash(p)
        PROVE  ProcessInv'
    BY <1>2, <2>1, ProcessStep
  <2>2. ASSUME NEW c \in Connections, NEW p \in Processes, Connect(c, p) PROVE ProcessInv'
    BY <1>2, <2>0, <2>2, ConnectKeeps
  <2>3. ASSUME NEW c \in Connections, NEW i \in Callers, Request(c, i) PROVE ProcessInv'
    BY <1>2, <2>0, <2>3, RequestGoesOn DEF Request
  <2>4. ASSUME NEW c \in Connections, Limiter(c) \/ Handle(c) PROVE ProcessInv'
    <3>1. UNCHANGED <<phase, again, at, crashes, cut>>
      BY <2>4 DEF Limiter, Handle, ghosts
    <3>2. conn[c].step # "closed" /\ \A d \in Connections \ {c} : conn'[d] = conn[d]
      BY <2>0, <2>4, LimiterMoves DEF Limiter
    <3>3. QED
      BY <1>2, <2>0, <3>1, <3>2, RequestGoesOn
  <2>5. ASSUME NEW c \in Connections, HangUp(c) \/ KeepAliveTimeout(c) PROVE ProcessInv'
    <3>1. Close({c}) /\ UNCHANGED <<phase, again, at, crashes, cut>>
      BY <2>5 DEF HangUp, KeepAliveTimeout, ghosts
    <3>2. QED
      BY <1>2, <3>1, CloseCloses, ConnectionsStay
  <2>6. ASSUME NEW c \in Connections, NextRequest(c) PROVE ProcessInv'
    <3>1. UNCHANGED <<phase, again, at, crashes, cut>> /\ conn[c].step # "closed"
      BY <2>6 DEF NextRequest, ghosts
    <3>2. \A d \in Connections \ {c} : conn'[d] = conn[d]
      BY <2>0, <2>6 DEF NextRequest, Step
    <3>3. QED
      BY <1>2, <2>0, <3>1, <3>2, RequestGoesOn
  <2>7. ASSUME (\E i \in Callers : WindowEnds(i)) \/ UNCHANGED serverVars PROVE ProcessInv'
    <3>1. UNCHANGED <<conn, phase, again, at, crashes, cut>>
      BY <2>7 DEF WindowEnds, Elapse, ghosts, serverVars
    <3>2. QED
      BY <1>2, <3>1, ConnectionsStay
  <2>8. QED
    BY <1>2, <2>1, <2>2, <2>3, <2>4, <2>5, <2>6, <2>7 DEF ServerNext
<1>3. QED
  BY <1>1, <1>2, LimiterInvHolds, PTL DEF ServerSpec

-----------------------------------------------------------------------------
(* The theorems *)

\* The tables of Redis, the connections and the processes are well-formed, and
\* the counters and the lives of a key stay within the bounds, whatever fails.
THEOREM ServerTypeCorrect == ServerSpec => []ServerTypeOK
<1>1. ASSUME LimiterInv, ProcessInv PROVE ServerTypeOK
  <2>1. Types /\ Counts
    BY <1>1 DEF LimiterInv
  <2>2. /\ hits \in 0 .. MaxHits /\ failures \in 0 .. MaxFailures
        /\ MaxHits \in Nat /\ MaxFailures \in Nat
        /\ Cardinality(Asking) \in Nat /\ Cardinality(Waiting) \in Nat
    BY <1>1, <2>1, WaitingFacts, LimiterAssumption DEF Types
  <2>3. ASSUME NEW i \in Callers PROVE counter[i] \in 0 .. (MaxHits + MaxFailures)
    <3>1. counter[i] \in Nat /\ counter[i] + Cardinality(Asking) <= hits + failures
      BY <2>1 DEF Types, Counts
    <3>2. QED
      BY <2>2, <3>1
  <2>4. ASSUME NEW i \in Callers, NEW n \in Windows PROVE passed[i][n] \in 0 .. MaxHits
    <3>1. passed[i][n] \in Nat /\ passed[i][n] + Cardinality(Waiting) <= hits
      BY <2>1 DEF Types, Counts
    <3>2. QED
      BY <2>2, <3>1
  <2>5. \A i \in Callers : expires[i] => counter[i] > 0
    BY <1>1 DEF LimiterInv, KeyOK
  <2>6. ASSUME NEW c \in Connections
        PROVE  /\ conn[c].step \in Steps
               /\ conn[c].who \in Callers <=> conn[c].step \in {"incr", "expire", "handler"}
               /\ phase[at[c]] = "down" => conn[c].step = "closed"
    BY <1>1, <2>1 DEF Types, Conn, ProcessInv
  <2>7. counter \in [Callers -> 0 .. (MaxHits + MaxFailures)]
    BY <2>1, <2>3 DEF Types
  <2>8. passed \in [Callers -> [Windows -> 0 .. MaxHits]]
    BY <2>1, <2>4 DEF Types
  <2>9. QED
    BY <1>1, <2>1, <2>5, <2>6, <2>7, <2>8 DEF ServerTypeOK, Types, ProcessInv
<1>2. QED
  BY <1>1, LimiterInvHolds, ProcessInvHolds, PTL

\* In one life of its key a caller has at most Limit requests let through, and
\* one more for every Redis command that went wrong: over any number of
\* processes and restarts, and however the two commands of its requests mix.
THEOREM LimitIsKept == ServerSpec => []WithinLimit
<1>1. LimiterInv => WithinLimit
  BY DEF LimiterInv, KeyOK, WithinLimit
<1>2. QED
  BY <1>1, LimiterInvHolds, PTL

\* However many signals arrive and whenever they do, only a crash cuts a request
\* off, and the database and the queue are closed after the last connection.
THEOREM ShutdownIsGraceful == ServerSpec => []ShutdownCutsNoRequest
<1>1. ProcessInv => ShutdownCutsNoRequest
  BY DEF ProcessInv
<1>2. QED
  BY <1>1, ProcessInvHolds, PTL

==============================================================================
