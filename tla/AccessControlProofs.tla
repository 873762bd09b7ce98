------------------------ MODULE AccessControlProofs ------------------------
(***************************************************************************)
(* Proofs about AccessControl and the Accounts under it, for any number of *)
(* clients, addresses, passwords, accounts, signups and role changes.      *)
(*                                                                         *)
(* What a request remembers of the tables stays true while it waits: the   *)
(* account it found keeps its address and password, and the roles the      *)
(* account has had since (held) include the one it has (CallOK).           *)
(***************************************************************************)
EXTENDS AccessControl, SequenceTheorems, FiniteSetTheorems, TLAPS

-----------------------------------------------------------------------------
(* The inductive invariant *)

Credentials == [email: Emails, password: Passwords]

Statuses == {0, 200, 201, 401, 403, 409, 500}

SignupAnswer == [who: Credentials, status: {0, 201, 409, 500}]

Call == [step: Steps, status: Statuses, who: Credentials \cup {NobodyYet},
         sub: Nat, claim: Roles \cup {"none"}, route: Routes,
         signedUp: BOOLEAN, held: SUBSET Roles]

\* The unique index on email.
UniqueEmails == \A i, j \in DOMAIN users : users[i].email = users[j].email => i = j

\* Whoever was answered 201 has an account, whoever was answered 409 met one.
AnswerKnown(a) ==
    /\ a.status = 201 => FoundFor(a.who) # {}
    /\ a.status = 409 => WithEmail(a.who.email) # {}

AnswersKnown == \A i \in DOMAIN answers : AnswerKnown(answers[i])

OneWinner ==
    \A i, j \in DOMAIN answers :
        /\ answers[i].status = 201 /\ answers[j].status = 201
        /\ answers[i].who.email = answers[j].who.email
        => i = j

TablesOK ==
    /\ users \in Seq(User) /\ Len(users) <= MaxUsers
    /\ tokens \subseteq Token
    /\ \A t \in tokens : t.sub \in DOMAIN users
    /\ answers \in Seq(SignupAnswer)
    /\ UniqueEmails
    /\ AnswersKnown
    /\ OneWinner

\* What request x knows is true.
CallOK(x) ==
    /\ x.step \in {"find", "create", "login"} => x.who \in Credentials
    /\ x.step \in {"renew", "load"} => x.sub \in DOMAIN users
    /\ x.sub \in {0} \cup DOMAIN users
    /\ x.step = "load" => users[x.sub].role \in x.held
    /\ x.step # "answered" =>
          /\ x.status = 0
          /\ x.signedUp => x.step = "login" /\ FoundFor(x.who) # {}
          /\ Mounts(x.route, "requireAdmin") => x.step = "load"
    /\ x.step = "answered" /\ x.signedUp => x.status # 401
    /\ x.status = 200 /\ Mounts(x.route, "requireAdmin") => "admin" \in x.held
    /\ x.status = 403 => "user" \in x.held

CallsOK == call \in [Clients -> Call] /\ \A c \in Clients : CallOK(call[c])

AccessInv == TablesOK /\ CallsOK

-----------------------------------------------------------------------------
(* What the steps do to the tables *)

\* Accounts are added, the others stay as they are.
RowsKept == \A i \in DOMAIN users : i \in DOMAIN users' /\ users'[i] = users[i]

LEMMA FoundKept ==
    ASSUME RowsKept, NEW who
    PROVE  FoundFor(who) \subseteq FoundFor(who)' /\ WithEmail(who.email) \subseteq WithEmail(who.email)'
  BY DEF RowsKept, FoundFor, WithEmail

LEMMA TableTypes ==
    ASSUME TablesOK
    PROVE  /\ users \in Seq(User) /\ Len(users) \in Nat /\ Len(users) <= MaxUsers
           /\ DOMAIN users = 1 .. Len(users) /\ DOMAIN users \subseteq 1 .. MaxUsers
           /\ 0 \notin DOMAIN users /\ DOMAIN users \subseteq Nat
           /\ \A i \in DOMAIN users : users[i] \in User /\ users[i].role \in Roles
           /\ answers \in Seq(SignupAnswer)
<1>1. users \in Seq(User) /\ Len(users) <= MaxUsers /\ answers \in Seq(SignupAnswer)
  BY DEF TablesOK
<1>2. DOMAIN users = 1 .. Len(users) /\ Len(users) \in Nat
  BY <1>1
<1>3. \A i \in DOMAIN users : users[i] \in User
  BY <1>1
<1>4. \A i \in DOMAIN users : users[i].role \in Roles
  BY <1>3 DEF User
<1>5. DOMAIN users \subseteq 1 .. MaxUsers /\ 0 \notin DOMAIN users /\ DOMAIN users \subseteq Nat
  BY <1>1, <1>2, AccountsAssumption
<1>6. QED
  BY <1>1, <1>2, <1>3, <1>4, <1>5

\* A signup is answered.
LEMMA AnswerAdded ==
    ASSUME TablesOK, RowsKept,
           NEW a \in SignupAnswer, answers' = Append(answers, a),
           a.status = 201 => FoundFor(a.who)' # {} /\ WithEmail(a.who.email) = {},
           a.status = 409 => WithEmail(a.who.email)' # {}
    PROVE  answers' \in Seq(SignupAnswer) /\ AnswersKnown' /\ OneWinner'
<1>1. PICK n : n = Len(answers) + 1
  OBVIOUS
<1>2. answers \in Seq(SignupAnswer)
  BY TableTypes
<1>3. /\ answers' \in Seq(SignupAnswer) /\ DOMAIN answers' = DOMAIN answers \cup {n}
      /\ \A i \in DOMAIN answers : answers'[i] = answers[i]
      /\ answers'[n] = a
  BY <1>1, <1>2, AppendProperties
<1>4. ASSUME NEW i \in DOMAIN answers PROVE AnswerKnown(answers[i])'
  <2>1. PICK old : old = answers[i]
    OBVIOUS
  <2>2. answers'[i] = old
    BY <1>3, <2>1
  <2>3. AnswerKnown(old)
    BY <2>1 DEF TablesOK, AnswersKnown
  <2>4. FoundFor(old.who) \subseteq FoundFor(old.who)'
        /\ WithEmail(old.who.email) \subseteq WithEmail(old.who.email)'
    BY FoundKept
  <2>5. AnswerKnown(old)'
    BY <2>3, <2>4 DEF AnswerKnown
  <2>6. QED
    BY <2>2, <2>5 DEF AnswerKnown, FoundFor, WithEmail
<1>a. AnswerKnown(a)'
  BY DEF AnswerKnown
<1>b. AnswerKnown(answers[n])'
  BY <1>3, <1>a DEF AnswerKnown, FoundFor, WithEmail
<1>5. AnswersKnown'
  BY <1>3, <1>4, <1>b DEF AnswersKnown
<1>6. ASSUME NEW i \in DOMAIN answers, answers[i].status = 201, a.status = 201
      PROVE  answers[i].who.email # a.who.email
  <2>1. FoundFor(answers[i].who) # {}
    BY <1>6 DEF TablesOK, AnswersKnown, AnswerKnown
  <2>2. WithEmail(answers[i].who.email) # {}
    BY <2>1 DEF FoundFor
  <2>3. QED
    BY <1>6, <2>2 DEF WithEmail
<1>7. OneWinner'
  BY <1>3, <1>6 DEF OneWinner, TablesOK
<1>8. QED
  BY <1>3, <1>5, <1>7

\* What was true of the answers stays true.
LEMMA AnswersStay ==
    ASSUME TablesOK, \A who \in Credentials :
               /\ FoundFor(who) \subseteq FoundFor(who)'
               /\ WithEmail(who.email) \subseteq WithEmail(who.email)',
           UNCHANGED answers
    PROVE  answers' \in Seq(SignupAnswer) /\ AnswersKnown' /\ OneWinner'
<1>1. answers \in Seq(SignupAnswer)
  BY TableTypes
<1>2. ASSUME NEW i \in DOMAIN answers PROVE AnswerKnown(answers[i])'
  <2>1. PICK a : a = answers[i]
    OBVIOUS
  <2>2. a \in SignupAnswer
    BY <1>1, <2>1
  <2>3. a.who \in Credentials
    BY <2>2 DEF SignupAnswer
  <2>4. AnswerKnown(a)
    BY <2>1 DEF TablesOK, AnswersKnown
  <2>5. AnswerKnown(a)'
    BY <2>3, <2>4 DEF AnswerKnown
  <2>6. answers'[i] = a
    BY <2>1
  <2>7. QED
    BY <2>5, <2>6 DEF AnswerKnown, FoundFor, WithEmail
<1>3. AnswersKnown'
  BY <1>2 DEF AnswersKnown
<1>4. QED
  BY <1>1, <1>3 DEF OneWinner, TablesOK

\* Tokens that are signed name an account.
LEMMA TokensIssued ==
    ASSUME TablesOK, RowsKept, NEW i \in DOMAIN users', i \in 1 .. MaxUsers, NEW role \in Roles,
           tokens' = Issued(i, role)
    PROVE  tokens' \subseteq Token /\ \A t \in tokens' : t.sub \in DOMAIN users'
<1>1. [sub |-> i, role |-> role] \in Token /\ [sub |-> i, role |-> "none"] \in Token
  BY DEF Token
<1>2. tokens \subseteq Token /\ \A t \in tokens : t.sub \in DOMAIN users'
  BY DEF TablesOK, RowsKept
<1>3. QED
  BY <1>1, <1>2 DEF Issued

-----------------------------------------------------------------------------
(* What the steps do to the requests *)

LEMMA CallKept ==
    ASSUME RowsKept, NEW x, CallOK(x)
    PROVE  CallOK(x)'
<1>1. FoundFor(x.who) \subseteq FoundFor(x.who)'
  BY FoundKept
<1>2. QED
  BY <1>1 DEF CallOK, RowsKept

LEMMA OneCall ==
    ASSUME CallsOK, RowsKept, NEW c \in Clients, NEW x \in Call, CallOK(x)',
           call' = [call EXCEPT ![c] = x]
    PROVE  CallsOK'
<1>1. call' \in [Clients -> Call] /\ call'[c] = x
  BY DEF CallsOK
<1>2. ASSUME NEW d \in Clients PROVE CallOK(call[d])'
  <2>1. CASE d = c
    BY <1>1, <2>1 DEF CallOK, FoundFor, WithEmail
  <2>2. CASE d # c
    <3>1. PICK y : y = call[d]
      OBVIOUS
    <3>2. call'[d] = y /\ CallOK(y)
      BY <2>2, <3>1 DEF CallsOK
    <3>3. CallOK(y)'
      BY <3>2, CallKept
    <3>4. QED
      BY <3>2, <3>3 DEF CallOK, FoundFor, WithEmail
  <2>3. QED
    BY <2>1, <2>2
<1>3. QED
  BY <1>1, <1>2 DEF CallsOK

\* A request is answered.
LEMMA AnswerEffect ==
    ASSUME CallsOK, RowsKept, NEW c \in Clients, call[c].step # "answered",
           NEW s \in Statuses, Answer(c, s),
           call[c].signedUp => s # 401,
           s = 200 /\ Mounts(call[c].route, "requireAdmin") => "admin" \in call[c].held,
           s = 403 => "user" \in call[c].held
    PROVE  CallsOK'
<1>1. PICK x : x = [call[c] EXCEPT !.step = "answered", !.status = s,
                                   !.who = NobodyYet, !.sub = 0, !.claim = "none"]
  OBVIOUS
<1>2. call[c] \in Call /\ call' = [call EXCEPT ![c] = x]
  BY <1>1 DEF CallsOK, Answer
<1>3. /\ x \in Call /\ x.step = "answered" /\ x.status = s /\ x.sub = 0
      /\ x.signedUp = call[c].signedUp /\ x.route = call[c].route /\ x.held = call[c].held
  BY <1>1, <1>2 DEF Call, Steps
<1>4. CallOK(x)'
  BY <1>3 DEF CallOK
<1>5. QED
  BY <1>2, <1>3, <1>4, OneCall

-----------------------------------------------------------------------------
(* The steps of one request *)

LEMMA TablesKept ==
    ASSUME TablesOK, UNCHANGED <<users, answers>>,
           tokens' \subseteq Token, \A t \in tokens' : t.sub \in DOMAIN users'
    PROVE  TablesOK' /\ RowsKept
<1>1. RowsKept
  BY DEF RowsKept
<1>2. answers' \in Seq(SignupAnswer) /\ AnswersKnown' /\ OneWinner'
  BY <1>1, FoundKept, AnswersStay
<1>3. QED
  BY <1>1, <1>2 DEF TablesOK, UniqueEmails

LEMMA TokensKept ==
    ASSUME TablesOK, UNCHANGED <<users, answers, tokens>>
    PROVE  TablesOK' /\ RowsKept
<1>1. tokens' \subseteq Token /\ \A t \in tokens' : t.sub \in DOMAIN users'
  BY DEF TablesOK
<1>2. QED
  BY <1>1, TablesKept

\* A request begins or goes on.
LEMMA CallMoves ==
    ASSUME AccessInv, NEW c \in Clients, NEW x \in Call, CallOK(x),
           call' = [call EXCEPT ![c] = x], UNCHANGED <<users, answers, tokens>>
    PROVE  AccessInv'
<1>1. TablesOK' /\ RowsKept
  BY TokensKept DEF AccessInv
<1>2. CallOK(x)'
  BY <1>1, CallKept
<1>3. CallsOK'
  BY <1>1, <1>2, OneCall DEF AccessInv
<1>4. QED
  BY <1>1, <1>3 DEF AccessInv

\* A request is answered and nothing is written.
LEMMA CallEnds ==
    ASSUME AccessInv, NEW c \in Clients, call[c].step # "answered",
           NEW s \in Statuses, Answer(c, s),
           call[c].signedUp => s # 401,
           s = 200 /\ Mounts(call[c].route, "requireAdmin") => "admin" \in call[c].held,
           s = 403 => "user" \in call[c].held,
           UNCHANGED <<users, answers>>,
           tokens' \subseteq Token, \A t \in tokens' : t.sub \in DOMAIN users'
    PROVE  AccessInv'
<1>1. TablesOK' /\ RowsKept
  BY TablesKept DEF AccessInv
<1>2. CallsOK'
  BY <1>1, AnswerEffect DEF AccessInv
<1>3. QED
  BY <1>1, <1>2 DEF AccessInv

\* A signup is answered and no account is added.
LEMMA SignupEnds ==
    ASSUME AccessInv, NEW c \in Clients, call[c].step \in {"find", "create"},
           NEW s \in {409, 500}, AnswerSignup(c, s),
           s = 409 => WithEmail(call[c].who.email) # {},
           UNCHANGED <<users, tokens>>
    PROVE  AccessInv'
<1>1. call[c] \in Call /\ CallOK(call[c]) /\ TablesOK /\ CallsOK
  BY DEF AccessInv, CallsOK
<1>2. PICK a : a = [who |-> call[c].who, status |-> s]
  OBVIOUS
<1>3. a \in SignupAnswer /\ a.status = s /\ a.who = call[c].who
  BY <1>1, <1>2 DEF CallOK, SignupAnswer
<1>4. RowsKept
  BY DEF RowsKept
<1>5. answers' = Append(answers, a)
  BY <1>2 DEF AnswerSignup
<1>6. a.status = 409 => WithEmail(a.who.email) # {}
  BY <1>3
<1>7. WithEmail(a.who.email) \subseteq WithEmail(a.who.email)'
  BY <1>4, FoundKept
<1>8. answers' \in Seq(SignupAnswer) /\ AnswersKnown' /\ OneWinner'
  BY <1>1, <1>3, <1>4, <1>5, <1>6, <1>7, AnswerAdded
<1>9. TablesOK'
  BY <1>1, <1>8 DEF TablesOK, UniqueEmails
<1>10. CallsOK'
  <2>1. s \in Statuses /\ s # 401 /\ s # 200 /\ s # 403 /\ call[c].step # "answered"
    BY DEF Statuses
  <2>2. QED
    BY <1>1, <1>4, <2>1, AnswerEffect DEF AnswerSignup
<1>11. QED
  BY <1>9, <1>10 DEF AccessInv

\* The account is added, and the signup is answered 201, or not at all.
LEMMA SignupInserts ==
    ASSUME AccessInv, NEW c \in Clients, call[c].step = "create",
           Insertable(call[c].who), users' = Append(users, NewUser(call[c].who)),
           NEW s \in {0, 201}, AnswerSignup(c, s),
           tokens' \in {tokens, Issued(Len(users) + 1, "user")}
    PROVE  AccessInv'
<1>1. call[c] \in Call /\ CallOK(call[c]) /\ TablesOK /\ CallsOK
  BY DEF AccessInv, CallsOK
<1>2. PICK who : who = call[c].who
  OBVIOUS
<1>3. PICK n : n = Len(users) + 1
  OBVIOUS
<1>4. who \in Credentials
  BY <1>1, <1>2 DEF CallOK
<1>5. Insertable(who)
  BY <1>2
<1>f. users' = Append(users, NewUser(who))
  BY <1>2
<1>g. TablesOK
  BY <1>1
<1>6. /\ users' \in Seq(User) /\ Len(users') <= MaxUsers
      /\ n \in DOMAIN users' /\ n \in 1 .. MaxUsers
      /\ RowsKept /\ UniqueEmails'
      /\ FoundFor(who)' # {} /\ WithEmail(who.email) = {}
  <2>1. NewUser(who) \in User /\ NewUser(who).email = who.email
        /\ NewUser(who).password = who.password
    BY <1>4 DEF NewUser, User, Credentials, Roles
  <2>2. users \in Seq(User) /\ Len(users) \in Nat
    BY <1>g, TableTypes
  <2>3. /\ users' \in Seq(User) /\ Len(users') = n
        /\ DOMAIN users' = DOMAIN users \cup {n} /\ n \notin DOMAIN users
        /\ \A i \in DOMAIN users : users'[i] = users[i]
        /\ users'[n] = NewUser(who)
    BY <1>3, <1>f, <2>1, <2>2, AppendProperties
  <2>4. n <= MaxUsers /\ n \in 1 .. MaxUsers
    BY <1>3, <1>5, <2>2, AccountsAssumption DEF Insertable
  <2>5. RowsKept
    BY <2>3 DEF RowsKept
  <2>6. WithEmail(who.email) = {}
    BY <1>5 DEF Insertable
  <2>7. UniqueEmails'
    BY <1>g, <2>1, <2>3, <2>6 DEF UniqueEmails, TablesOK, WithEmail
  <2>8. n \in FoundFor(who)'
    BY <2>1, <2>3 DEF FoundFor, WithEmail
  <2>9. QED
    BY <2>3, <2>4, <2>5, <2>6, <2>7, <2>8
<1>7. PICK a : a = [who |-> who, status |-> s]
  OBVIOUS
<1>8. a \in SignupAnswer /\ a.status = s /\ a.who = who
  BY <1>4, <1>7 DEF SignupAnswer
<1>9. answers' = Append(answers, a)
  BY <1>2, <1>7 DEF AnswerSignup
<1>10. a.status = 201 => FoundFor(a.who)' # {} /\ WithEmail(a.who.email) = {}
  <2>1. FoundFor(who)' # {} /\ WithEmail(who.email) = {}
    BY <1>6
  <2>2. QED
    BY <1>8, <2>1 DEF FoundFor, WithEmail
<1>h. a.status = 409 => WithEmail(a.who.email)' # {}
  BY <1>8
<1>i. RowsKept /\ a \in SignupAnswer
  BY <1>6, <1>8
<1>11. answers' \in Seq(SignupAnswer) /\ AnswersKnown' /\ OneWinner'
  BY <1>9, <1>10, <1>g, <1>h, <1>i, AnswerAdded
<1>12. tokens' \subseteq Token /\ \A t \in tokens' : t.sub \in DOMAIN users'
  <2>1. CASE tokens' = tokens
    BY <1>1, <1>6, <2>1 DEF TablesOK, RowsKept
  <2>2. CASE tokens' = Issued(n, "user")
    <3>1. "user" \in Roles
      BY DEF Roles
    <3>2. QED
      BY <1>1, <1>6, <2>2, <3>1, TokensIssued
  <2>3. QED
    BY <1>3, <2>1, <2>2
<1>13. TablesOK'
  BY <1>6, <1>11, <1>12 DEF TablesOK
<1>14. CallsOK'
  <2>1. s \in Statuses /\ s # 401 /\ s # 200 /\ s # 403 /\ call[c].step # "answered"
    BY DEF Statuses
  <2>2. QED
    BY <1>1, <1>6, <2>1, AnswerEffect DEF AnswerSignup
<1>15. QED
  BY <1>13, <1>14 DEF AccessInv

\* Tokens are issued to an account that exists.
LEMMA TokensFor ==
    ASSUME TablesOK, UNCHANGED users, NEW i \in DOMAIN users, tokens' = Issued(i, users[i].role)
    PROVE  tokens' \subseteq Token /\ \A t \in tokens' : t.sub \in DOMAIN users'
<1>1. i \in DOMAIN users' /\ i \in 1 .. MaxUsers /\ users[i].role \in Roles /\ RowsKept
  BY TableTypes DEF RowsKept
<1>2. QED
  BY <1>1, TokensIssued

-----------------------------------------------------------------------------
(* The invariant is inductive *)

\* Idle, and the requests that begin from it.
LEMMA IdleIsCall ==
    Idle \in Call /\ CallOK(Idle) /\ Idle.sub = 0 /\ Idle.status = 0 /\ ~Idle.signedUp
      /\ Idle.route = << >> /\ ~Mounts(Idle.route, "requireAdmin") /\ Idle.step = "answered"
<1>1. << >> \in Routes
  BY DEF Routes, EventRoutes
<1>2. ~Mounts(<< >>, "requireAdmin")
  BY DEF Mounts
<1>3. QED
  BY <1>1, <1>2 DEF Idle, Call, Steps, Statuses, Roles, CallOK

LEMMA SignupKeeps ==
    ASSUME AccessInv, NEW c \in Clients, NEW who \in Credentials, Signup(c, who)
    PROVE  AccessInv'
<1>1. PICK x : x = [Idle EXCEPT !.step = "find", !.who = who]
  OBVIOUS
<1>2. /\ x \in Call /\ x.step = "find" /\ x.who = who /\ x.sub = 0 /\ x.status = 0
      /\ ~x.signedUp /\ ~Mounts(x.route, "requireAdmin")
  BY <1>1, IdleIsCall DEF Call, Steps
<1>3. CallOK(x)
  BY <1>2 DEF CallOK
<1>4. QED
  BY <1>1, <1>2, <1>3, CallMoves DEF Signup

LEMMA LoginKeeps ==
    ASSUME AccessInv, NEW c \in Clients, NEW who \in Credentials, Login(c, who)
    PROVE  AccessInv'
<1>1. PICK x : x = [Idle EXCEPT !.step = "login", !.who = who, !.signedUp = SignedUp(who)]
  OBVIOUS
<1>2. SignedUp(who) \in BOOLEAN
  BY DEF SignedUp
<1>3. /\ x \in Call /\ x.step = "login" /\ x.who = who /\ x.sub = 0 /\ x.status = 0
      /\ x.signedUp = SignedUp(who) /\ ~Mounts(x.route, "requireAdmin")
  BY <1>1, <1>2, IdleIsCall DEF Call, Steps
<1>4. SignedUp(who) => FoundFor(who) # {}
  BY DEF SignedUp, AccessInv, TablesOK, AnswersKnown, AnswerKnown
<1>5. CallOK(x)
  BY <1>3, <1>4 DEF CallOK
<1>6. QED
  BY <1>1, <1>3, <1>5, CallMoves DEF Login

LEMMA RefreshKeeps ==
    ASSUME AccessInv, NEW c \in Clients, NEW t \in tokens, Refresh(c, t)
    PROVE  AccessInv'
<1>1. PICK x : x = [Idle EXCEPT !.step = "renew", !.sub = t.sub]
  OBVIOUS
<1>2. t.sub \in DOMAIN users /\ DOMAIN users \subseteq Nat
  BY TableTypes DEF AccessInv, TablesOK
<1>3. /\ x \in Call /\ x.step = "renew" /\ x.sub = t.sub /\ x.status = 0
      /\ ~x.signedUp /\ ~Mounts(x.route, "requireAdmin")
  BY <1>1, <1>2, IdleIsCall DEF Call, Steps
<1>4. CallOK(x)
  BY <1>2, <1>3 DEF CallOK
<1>5. QED
  BY <1>1, <1>3, <1>4, CallMoves DEF Refresh

LEMMA EnterKeeps ==
    ASSUME AccessInv, NEW c \in Clients, NEW route \in Routes, NEW t \in tokens, Enter(c, route, t)
    PROVE  AccessInv'
<1>1. PICK x : x = [Idle EXCEPT !.step = "load", !.sub = t.sub, !.claim = t.role,
                                !.route = route, !.held = {users[t.sub].role}]
  OBVIOUS
<1>2. /\ t.sub \in DOMAIN users /\ DOMAIN users \subseteq Nat
      /\ users[t.sub].role \in Roles /\ t.role \in Roles \cup {"none"}
  BY TableTypes DEF AccessInv, TablesOK, Token
<1>3. /\ x \in Call /\ x.step = "load" /\ x.sub = t.sub /\ x.status = 0
      /\ ~x.signedUp /\ x.held = {users[t.sub].role}
  BY <1>1, <1>2, IdleIsCall DEF Call, Steps
<1>4. CallOK(x)
  BY <1>2, <1>3 DEF CallOK
<1>5. QED
  BY <1>1, <1>3, <1>4, CallMoves DEF Enter

LEMMA EnterUnauthenticatedKeeps ==
    ASSUME AccessInv, NEW c \in Clients, NEW route \in Routes, EnterUnauthenticated(c, route)
    PROVE  AccessInv'
<1>1. PICK s : s = IF Mounts(route, "requireAdmin") THEN 401 ELSE 200
  OBVIOUS
<1>2. PICK x : x = [Idle EXCEPT !.status = s, !.route = route]
  OBVIOUS
<1>3. /\ x \in Call /\ x.step = "answered" /\ x.sub = 0 /\ x.status = s
      /\ ~x.signedUp /\ x.route = route
  <2>1. s \in Statuses
    BY <1>1 DEF Statuses
  <2>2. QED
    BY <1>2, <2>1, IdleIsCall DEF Call
<1>4. CallOK(x)
  BY <1>1, <1>3 DEF CallOK
<1>5. call' = [call EXCEPT ![c] = x]
  BY <1>1, <1>2 DEF EnterUnauthenticated
<1>6. QED
  BY <1>3, <1>4, <1>5, CallMoves DEF EnterUnauthenticated

LEMMA SignupFindKeeps ==
    ASSUME AccessInv, NEW c \in Clients, SignupFind(c)
    PROVE  AccessInv'
<1>1. call[c] \in Call /\ CallOK(call[c]) /\ call[c].step = "find"
  BY DEF SignupFind, AccessInv, CallsOK
<1>2. ASSUME WithEmail(call[c].who.email) # {} PROVE AccessInv'
  BY <1>1, <1>2, SignupEnds DEF SignupFind
<1>3. ASSUME WithEmail(call[c].who.email) = {} PROVE AccessInv'
  <2>1. PICK x : x = [call[c] EXCEPT !.step = "create"]
    OBVIOUS
  <2>2. /\ x \in Call /\ x.step = "create" /\ x.status = call[c].status /\ x.who = call[c].who
        /\ x.sub = call[c].sub /\ x.signedUp = call[c].signedUp
        /\ x.route = call[c].route /\ x.held = call[c].held
    BY <1>1, <2>1 DEF Call, Steps
  <2>3. CallOK(x)
    BY <1>1, <2>2 DEF CallOK
  <2>4. call' = [call EXCEPT ![c] = x] /\ UNCHANGED <<users, answers, tokens>>
    BY <1>3, <2>1 DEF SignupFind, Go
  <2>5. QED
    BY <2>2, <2>3, <2>4, CallMoves
<1>4. QED
  BY <1>2, <1>3

LEMMA LoginChecksKeeps ==
    ASSUME AccessInv, NEW c \in Clients, LoginChecks(c)
    PROVE  AccessInv'
<1>1. CallOK(call[c]) /\ call[c].step = "login" /\ TablesOK
  BY DEF LoginChecks, AccessInv, CallsOK
<1>2. /\ call[c].signedUp => FoundFor(call[c].who) # {}
      /\ ~Mounts(call[c].route, "requireAdmin")
      /\ 200 \in Statuses /\ 401 \in Statuses /\ UNCHANGED <<users, answers>>
  BY <1>1 DEF CallOK, Statuses, LoginChecks
<1>3. ASSUME FoundFor(call[c].who) = {} PROVE AccessInv'
  <2>1. tokens' \subseteq Token /\ \A t \in tokens' : t.sub \in DOMAIN users'
    BY <1>1, <1>2, <1>3 DEF LoginChecks, TablesOK
  <2>2. Answer(c, 401)
    BY <1>3 DEF LoginChecks
  <2>3. QED
    BY <1>1, <1>2, <1>3, <2>1, <2>2, CallEnds
<1>4. ASSUME FoundFor(call[c].who) # {} PROVE AccessInv'
  <2>1. PICK i \in FoundFor(call[c].who) : tokens' = Issued(i, users[i].role)
    BY <1>4 DEF LoginChecks
  <2>2. i \in DOMAIN users
    BY <2>1 DEF FoundFor, WithEmail
  <2>3. tokens' \subseteq Token /\ \A t \in tokens' : t.sub \in DOMAIN users'
    BY <1>1, <1>2, <2>1, <2>2, TokensFor
  <2>4. Answer(c, 200)
    BY <1>4 DEF LoginChecks
  <2>5. QED
    BY <1>1, <1>2, <2>3, <2>4, CallEnds
<1>5. QED
  BY <1>3, <1>4

LEMMA RefreshIssuesKeeps ==
    ASSUME AccessInv, NEW c \in Clients, RefreshIssues(c)
    PROVE  AccessInv'
<1>1. CallOK(call[c]) /\ call[c].step = "renew" /\ TablesOK
  BY DEF RefreshIssues, AccessInv, CallsOK
<1>2. /\ ~Mounts(call[c].route, "requireAdmin") /\ call[c].sub \in DOMAIN users
      /\ 200 \in Statuses /\ UNCHANGED <<users, answers>> /\ Answer(c, 200)
  BY <1>1 DEF CallOK, Statuses, RefreshIssues
<1>3. PICK i : i = call[c].sub
  OBVIOUS
<1>4. i \in DOMAIN users /\ tokens' = Issued(i, users[i].role)
  BY <1>2, <1>3 DEF RefreshIssues
<1>5. tokens' \subseteq Token /\ \A t \in tokens' : t.sub \in DOMAIN users'
  BY <1>1, <1>2, <1>4, TokensFor
<1>6. QED
  BY <1>1, <1>2, <1>5, CallEnds

\* The requests that a database error ends, and the one that requireAuth lets in.
LEMMA LoadUserKeeps ==
    ASSUME AccessInv, NEW c \in Clients, LoadUser(c)
    PROVE  AccessInv'
<1>1. CallOK(call[c]) /\ call[c].step = "load" /\ TablesOK
  BY DEF LoadUser, AccessInv, CallsOK
<1>2. /\ users[call[c].sub].role \in call[c].held /\ users[call[c].sub].role \in Roles
      /\ ~call[c].signedUp
  BY <1>1, TableTypes DEF CallOK
<1>3. PICK s : s = IF Mounts(call[c].route, "requireAdmin")
                        /\ RoleOf(call[c].sub, call[c].claim) # "admin" THEN 403 ELSE 200
  OBVIOUS
<1>4. Answer(c, s) /\ s \in Statuses
  BY <1>3 DEF LoadUser, Statuses
<1>5. /\ s = 200 /\ Mounts(call[c].route, "requireAdmin") => "admin" \in call[c].held
      /\ s = 403 => "user" \in call[c].held
  BY <1>2, <1>3 DEF RoleOf, Roles
<1>6. tokens' \subseteq Token /\ (\A t \in tokens' : t.sub \in DOMAIN users')
      /\ UNCHANGED <<users, answers>>
  BY <1>1 DEF LoadUser, TablesOK
<1>7. QED
  BY <1>1, <1>2, <1>4, <1>5, <1>6, CallEnds

LEMMA FailureKeeps ==
    ASSUME AccessInv, NEW c \in Clients, QueryFails(c) \/ LoadFails(c)
    PROVE  AccessInv'
<1>1. CallOK(call[c]) /\ call[c].step # "answered" /\ TablesOK
  BY DEF QueryFails, LoadFails, AccessInv, CallsOK
<1>2. 500 \in Statuses /\ Answer(c, 500) /\ UNCHANGED <<users, answers>> /\ tokens' = tokens
  BY DEF QueryFails, LoadFails, Statuses
<1>3. tokens' \subseteq Token /\ \A t \in tokens' : t.sub \in DOMAIN users'
  BY <1>1, <1>2 DEF TablesOK
<1>4. QED
  BY <1>1, <1>2, <1>3, CallEnds

LEMMA ExpireKeeps ==
    ASSUME AccessInv, NEW t \in tokens, Expire(t)
    PROVE  AccessInv'
<1>1. TablesOK' /\ RowsKept
  <2>1. tokens' \subseteq Token /\ \A u \in tokens' : u.sub \in DOMAIN users'
    BY DEF Expire, AccessInv, TablesOK
  <2>2. QED
    BY <2>1, TablesKept DEF Expire, AccessInv
<1>2. ASSUME NEW d \in Clients PROVE CallOK(call[d])'
  <2>1. PICK y : y = call[d]
    OBVIOUS
  <2>2. CallOK(y)
    BY <2>1 DEF AccessInv, CallsOK
  <2>3. CallOK(y)' /\ call'[d] = y
    BY <1>1, <2>1, <2>2, CallKept DEF Expire
  <2>4. QED
    BY <2>3 DEF CallOK, FoundFor, WithEmail
<1>3. QED
  BY <1>1, <1>2 DEF AccessInv, CallsOK, Expire

\* The role of an account changes, and every request that waits to load the
\* account is noted down to have met it.
LEMMA SetRoleKeeps ==
    ASSUME AccessInv, NEW i \in DOMAIN users, NEW role \in Roles, SetRole(i, role)
    PROVE  AccessInv'
<1>1. TablesOK /\ CallsOK /\ UNCHANGED <<tokens, answers>>
  BY DEF AccessInv, SetRole
<1>2. PICK row : row = [users[i] EXCEPT !.role = role]
  OBVIOUS
<1>3. users \in Seq(User) /\ users[i] \in User
  BY <1>1, TableTypes
<1>4. /\ row \in User /\ row.email = users[i].email /\ row.password = users[i].password
      /\ row.role = role
  BY <1>2, <1>3 DEF User
<1>5. users' = [users EXCEPT ![i] = row]
  BY <1>2 DEF SetRole
<1>6. /\ users' \in Seq(User) /\ Len(users') = Len(users) /\ DOMAIN users' = DOMAIN users
      /\ \A j \in DOMAIN users : users'[j] = IF j = i THEN row ELSE users[j]
  BY <1>3, <1>4, <1>5, ExceptSeq
<1>7. \A j \in DOMAIN users : users'[j].email = users[j].email /\ users'[j].password = users[j].password
  BY <1>4, <1>6
<1>8. ASSUME NEW who PROVE /\ FoundFor(who) = FoundFor(who)'
                           /\ WithEmail(who.email) = WithEmail(who.email)'
  BY <1>6, <1>7 DEF FoundFor, WithEmail
<1>9. answers' \in Seq(SignupAnswer) /\ AnswersKnown' /\ OneWinner'
  BY <1>1, <1>8, AnswersStay
<1>10. TablesOK'
  BY <1>1, <1>6, <1>7, <1>9 DEF TablesOK, UniqueEmails
<1>11. ASSUME NEW d \in Clients PROVE call'[d] \in Call /\ CallOK(call[d])'
  <2>1. PICK x : x = call[d]
    OBVIOUS
  <2>2. x \in Call /\ CallOK(x)
    BY <1>1, <2>1 DEF CallsOK
  <2>3. PICK y : y = IF x.step = "load" /\ x.sub = i THEN [x EXCEPT !.held = @ \cup {role}] ELSE x
    OBVIOUS
  <2>4. call'[d] = y
    BY <2>1, <2>3 DEF SetRole
  <2>5. /\ y \in Call /\ y.step = x.step /\ y.status = x.status /\ y.who = x.who /\ y.sub = x.sub
        /\ y.signedUp = x.signedUp /\ y.route = x.route /\ x.held \subseteq y.held
        /\ y.step = "load" /\ y.sub = i => role \in y.held
    BY <2>2, <2>3 DEF Call
  <2>6. FoundFor(y.who) = FoundFor(y.who)'
    BY <1>8
  <2>7. y.step = "load" => users'[y.sub].role \in y.held
    BY <1>4, <1>6, <2>2, <2>5 DEF CallOK
  <2>8. CallOK(y)'
    BY <1>6, <2>2, <2>5, <2>6, <2>7 DEF CallOK
  <2>9. QED
    BY <2>4, <2>5, <2>8 DEF CallOK, FoundFor, WithEmail
<1>12. call' \in [Clients -> Call]
  BY <1>11 DEF SetRole
<1>13. QED
  BY <1>10, <1>11, <1>12 DEF AccessInv, CallsOK

LEMMA AccessStep ==
    ASSUME AccessInv, [AccessNext]_accessVars
    PROVE  AccessInv'
<1>1. ASSUME NEW c \in Clients, NEW m \in Emails, NEW p \in Passwords,
             \/ Signup(c, [email |-> m, password |-> p])
             \/ Login(c, [email |-> m, password |-> p])
      PROVE  AccessInv'
  <2>1. [email |-> m, password |-> p] \in Credentials
    BY DEF Credentials
  <2>2. QED
    BY <1>1, <2>1, SignupKeeps, LoginKeeps
<1>2. ASSUME NEW c \in Clients, SignupFind(c) PROVE AccessInv'
  BY <1>2, SignupFindKeeps
<1>3. ASSUME NEW c \in Clients, SignupCreate(c) PROVE AccessInv'
  BY <1>3, SignupInserts DEF SignupCreate
<1>4. ASSUME NEW c \in Clients, SignupUnanswered(c) PROVE AccessInv'
  BY <1>4, SignupInserts DEF SignupUnanswered
<1>5. ASSUME NEW c \in Clients, SignupLosesRace(c) \/ SignupFails(c) PROVE AccessInv'
  BY <1>5, SignupEnds DEF SignupLosesRace, SignupFails
<1>6. ASSUME NEW c \in Clients, LoginChecks(c) PROVE AccessInv'
  BY <1>6, LoginChecksKeeps
<1>7. ASSUME NEW c \in Clients, RefreshIssues(c) PROVE AccessInv'
  BY <1>7, RefreshIssuesKeeps
<1>8. ASSUME NEW c \in Clients, QueryFails(c) \/ LoadFails(c) PROVE AccessInv'
  BY <1>8, FailureKeeps
<1>9. ASSUME NEW c \in Clients, NEW t \in tokens, Refresh(c, t) PROVE AccessInv'
  BY <1>9, RefreshKeeps
<1>10. ASSUME NEW t \in tokens, Expire(t) PROVE AccessInv'
  BY <1>10, ExpireKeeps
<1>11. ASSUME NEW c \in Clients, NEW route \in Routes, NEW t \in tokens, Enter(c, route, t)
       PROVE  AccessInv'
  BY <1>11, EnterKeeps
<1>12. ASSUME NEW c \in Clients, NEW route \in Routes, EnterUnauthenticated(c, route)
       PROVE  AccessInv'
  BY <1>12, EnterUnauthenticatedKeeps
<1>13. ASSUME NEW c \in Clients, LoadUser(c) PROVE AccessInv'
  BY <1>13, LoadUserKeeps
<1>14. ASSUME NEW i \in DOMAIN users, NEW role \in Roles, SetRole(i, role) PROVE AccessInv'
  BY <1>14, SetRoleKeeps
<1>15. ASSUME UNCHANGED accessVars PROVE AccessInv'
  BY <1>15 DEF accessVars, AccessInv, TablesOK, CallsOK, CallOK, UniqueEmails, AnswersKnown,
               AnswerKnown, OneWinner, FoundFor, WithEmail
<1>16. ASSUME AccountsNext PROVE AccessInv'
  BY <1>16, <1>1, <1>2, <1>3, <1>4, <1>5, <1>6, <1>7, <1>8, <1>9, <1>10 DEF AccountsNext
<1>17. QED
  BY <1>8, <1>11, <1>12, <1>13, <1>14, <1>15, <1>16 DEF AccessNext

LEMMA AccessInvHolds == AccessSpec => []AccessInv
<1>1. AccessInit => AccessInv
  <2>1. ASSUME AccessInit PROVE AccessInv
    <3>1. TablesOK
      BY <2>1, AccountsAssumption
        DEF AccessInit, AccountsInit, TablesOK, UniqueEmails, AnswersKnown, OneWinner
    <3>2. CallsOK
      BY <2>1, IdleIsCall DEF AccessInit, AccountsInit, CallsOK
    <3>3. QED
      BY <3>1, <3>2 DEF AccessInv
  <2>2. QED
    BY <2>1
<1>2. AccessInv /\ [AccessNext]_accessVars => AccessInv'
  BY AccessStep
<1>3. QED
  BY <1>1, <1>2, PTL DEF AccessSpec

-----------------------------------------------------------------------------
(* The theorems *)

\* The tables and the requests are well-formed, and no token outlives the
\* account it names, whatever the order of signups, logins and refreshes.
THEOREM AccountsTypeCorrect == AccessSpec => []AccountsTypeOK
<1>1. AccessInv => AccountsTypeOK
  <2>1. ASSUME AccessInv PROVE AccountsTypeOK
    <3>1. TablesOK /\ CallsOK
      BY <2>1 DEF AccessInv
    <3>2. ASSUME NEW c \in Clients
          PROVE  /\ call[c].step \in Steps /\ call[c].sub \in {0} \cup DOMAIN users
                 /\ call[c].status \in {0, 200, 201, 401, 403, 409, 500}
      <4>1. call[c] \in Call /\ CallOK(call[c])
        BY <3>1 DEF CallsOK
      <4>2. QED
        BY <4>1 DEF Call, CallOK, Statuses
    <3>3. ASSUME NEW i \in DOMAIN answers PROVE answers[i].status \in {0, 201, 409, 500}
      <4>1. answers \in Seq(SignupAnswer)
        BY <3>1, TableTypes
      <4>2. answers[i] \in SignupAnswer
        BY <4>1
      <4>3. QED
        BY <4>2 DEF SignupAnswer
    <3>4. QED
      BY <3>1, <3>2, <3>3 DEF AccountsTypeOK, TablesOK
  <2>2. QED
    BY <2>1
<1>2. QED
  BY <1>1, AccessInvHolds, PTL

\* A set is a single account when all its accounts have the same address.
LEMMA OneAccount ==
    ASSUME TablesOK, NEW m, NEW S \in SUBSET WithEmail(m), S # {}
    PROVE  Cardinality(S) = 1
<1>1. PICK i : i \in S
  OBVIOUS
<1>2. S = {i}
  BY <1>1 DEF TablesOK, UniqueEmails, WithEmail
<1>3. QED
  BY <1>2, FS_Singleton

\* However many signups for an address overlap, at most one is answered 201,
\* and who is answered 201 or 409 knows of exactly one account: with the
\* password of the winner.  It is the unique index that decides, not the
\* findByEmail before it.
THEOREM SignupsHaveOneWinner == AccessSpec => []OneSignupWins
<1>1. AccessInv => OneSignupWins
  <2>1. ASSUME AccessInv PROVE OneSignupWins
    <3>1. TablesOK
      BY <2>1 DEF AccessInv
    <3>2. ASSUME NEW i \in DOMAIN answers, answers[i].status = 409
          PROVE  Cardinality(WithEmail(answers[i].who.email)) = 1
      BY <3>1, <3>2, OneAccount DEF TablesOK, AnswersKnown, AnswerKnown
    <3>3. ASSUME NEW i \in DOMAIN answers, answers[i].status = 201
          PROVE  Cardinality({k \in WithEmail(answers[i].who.email) :
                                users[k].password = answers[i].who.password}) = 1
      <4>1. FoundFor(answers[i].who) # {}
        BY <3>1, <3>3 DEF TablesOK, AnswersKnown, AnswerKnown
      <4>2. FoundFor(answers[i].who) \in SUBSET WithEmail(answers[i].who.email)
        BY DEF FoundFor
      <4>3. Cardinality(FoundFor(answers[i].who)) = 1
        BY <3>1, <4>1, <4>2, OneAccount
      <4>4. QED
        BY <4>3 DEF FoundFor
    <3>4. OneWinner
      BY <3>1 DEF TablesOK
    <3>5. QED
      BY <3>2, <3>3, <3>4 DEF OneSignupWins, OneWinner
  <2>2. QED
    BY <2>1
<1>2. QED
  BY <1>1, AccessInvHolds, PTL

\* A client that was told 201 and then logs in is never told that the address
\* or the password is wrong: the row is there before the answer leaves.
THEOREM LoginsKnowSignups == AccessSpec => []LoginKnowsSignup
<1>1. AccessInv => LoginKnowsSignup
  BY DEF AccessInv, CallsOK, CallOK, LoginKnowsSignup, Free
<1>2. QED
  BY <1>1, AccessInvHolds, PTL

\* The role that counts is one the account had while the request ran, however
\* old the token and whatever role it claims: whoever a chain with requireAdmin
\* serves was an administrator meanwhile (without requireAuth before it that is
\* nobody), and whoever any chain answers 403 was not one all the time.
THEOREM AdminRoutesServeAdmins == AccessSpec => []AdminsOnly
<1>1. AccessInv => AdminsOnly
  BY DEF AccessInv, CallsOK, CallOK, AdminsOnly
<1>2. QED
  BY <1>1, AccessInvHolds, PTL

==============================================================================
