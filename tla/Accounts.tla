------------------------------ MODULE Accounts ------------------------------
(***************************************************************************)
(* auth.service.ts over table User: signup, login and refresh, with the    *)
(* error each outcome becomes on its way through auth.controller.ts to the *)
(* client.  Every query is a step; hashing and comparing passwords is part *)
(* of the step before it, since nothing else depends on when it happens.   *)
(*                                                                         *)
(* A JWT is what it says (its subject, and the role an access token        *)
(* claims) and is good until it expires.  The three handlers verify tokens *)
(* with one secret and look at nothing else.                               *)
(***************************************************************************)
EXTENDS Integers, Sequences, FiniteSets

CONSTANTS
    Clients,     \* requests that may run at the same time
    Emails,
    Passwords,
    MaxUsers,    \* bound of the model: accounts
    MaxSignups   \* bound of the model: calls of signup

ASSUME AccountsAssumption == MaxUsers \in Nat /\ MaxSignups \in Nat

VARIABLES
    users,      \* table User; a row's id is its position
    tokens,     \* tokens that were issued and have not expired
    call,       \* what each request is doing, or how the last one was answered
    answers     \* ghost: how the calls of signup were answered, in that order

accountVars == <<users, tokens, call, answers>>

Roles == {"user", "admin"}

User == [email: Emails, password: Passwords, role: Roles]

Token == [sub: 1 .. MaxUsers, role: Roles \cup {"none"}]

\* find, create, login, load: the query to come (load is requireAuth's);
\* renew: findById of refreshToken; answered: nothing to do.
Steps == {"find", "create", "login", "renew", "load", "answered"}

NobodyYet == [email |-> "none", password |-> "none"]

\* status: the answer, 0 while there is none or when it was lost; sub and
\* claim: the account and the role a token names; signedUp: had the client been
\* told 201 before it logged in; held: the roles the account has had since the
\* request began.
Idle == [step |-> "answered", status |-> 0, who |-> NobodyYet, sub |-> 0, claim |-> "none",
         route |-> << >>, signedUp |-> FALSE, held |-> {}]

AccountsInit ==
    /\ users = << >>
    /\ tokens = {}
    /\ call = [c \in Clients |-> Idle]
    /\ answers = << >>

WithEmail(m) == {i \in DOMAIN users : users[i].email = m}

Free(c) == call[c].step = "answered"

\* The client was told 201 for this address and password.
SignedUp(who) == \E i \in DOMAIN answers : answers[i] = [who |-> who, status |-> 201]

\* What the handler knew is gone with the answer.
Answer(c, status) ==
    call' = [call EXCEPT ![c] = [@ EXCEPT !.step = "answered", !.status = status,
                                          !.who = NobodyYet, !.sub = 0, !.claim = "none"]]

AnswerSignup(c, status) ==
    /\ Answer(c, status)
    /\ answers' = Append(answers, [who |-> call[c].who, status |-> status])

Go(c, step) == call' = [call EXCEPT ![c].step = step]

\* An access token and a refresh token, which claims no role.
Issued(i, role) == tokens \cup {[sub |-> i, role |-> role], [sub |-> i, role |-> "none"]}

-----------------------------------------------------------------------------
(* signup *)

Signup(c, who) ==
    /\ Free(c)
    /\ Len(answers) + Cardinality({d \in Clients : call[d].step \in {"find", "create"}}) < MaxSignups
    /\ call' = [call EXCEPT ![c] = [Idle EXCEPT !.step = "find", !.who = who]]
    /\ UNCHANGED <<users, tokens, answers>>

SignupFind(c) ==
    /\ call[c].step = "find"
    /\ IF WithEmail(call[c].who.email) # {}
         THEN AnswerSignup(c, 409)
         ELSE Go(c, "create") /\ UNCHANGED answers
    /\ UNCHANGED <<users, tokens>>

\* Mutant of Insertable: no unique index.
InsertableAgain(who) == Len(users) < MaxUsers

\* The unique index on email.
Insertable(who) == Len(users) < MaxUsers /\ WithEmail(who.email) = {}

NewUser(who) == [email |-> who.email, password |-> who.password, role |-> "user"]

SignupCreate(c) ==
    /\ call[c].step = "create"
    /\ Insertable(call[c].who)
    /\ users' = Append(users, NewUser(call[c].who))
    /\ tokens' = Issued(Len(users) + 1, "user")
    /\ AnswerSignup(c, 201)

\* Mutant of SignupLosesRace: the error is swallowed, the tokens are signed.
SignupLosesRaceQuietly(c) ==
    /\ call[c].step = "create"
    /\ WithEmail(call[c].who.email) # {}
    /\ tokens' = Issued(Len(users) + 1, "user")
    /\ AnswerSignup(c, 201)
    /\ UNCHANGED users

\* UserRepo.create turns P2002 into 500 DB_ERROR.
SignupLosesRace(c) ==
    /\ call[c].step = "create"
    /\ WithEmail(call[c].who.email) # {}
    /\ AnswerSignup(c, 500)
    /\ UNCHANGED <<users, tokens>>

\* The row is inserted and the answer is lost.
SignupUnanswered(c) ==
    /\ call[c].step = "create"
    /\ Insertable(call[c].who)
    /\ users' = Append(users, NewUser(call[c].who))
    /\ AnswerSignup(c, 0)
    /\ UNCHANGED tokens

SignupFails(c) ==
    /\ call[c].step \in {"find", "create"}
    /\ AnswerSignup(c, 500)
    /\ UNCHANGED <<users, tokens>>

-----------------------------------------------------------------------------
(* login *)

Login(c, who) ==
    /\ Free(c)
    /\ call' = [call EXCEPT ![c] = [Idle EXCEPT !.step = "login", !.who = who, !.signedUp = SignedUp(who)]]
    /\ UNCHANGED <<users, tokens, answers>>

\* Mutant of FoundFor: the newest account, whatever its address.
FoundForNewest(who) == {i \in DOMAIN users : i = Len(users) /\ users[i].password = who.password}

\* bcrypt.compare on the row findByEmail returned
FoundFor(who) == {i \in WithEmail(who.email) : users[i].password = who.password}

LoginChecks(c) ==
    LET found == FoundFor(call[c].who) IN
    /\ call[c].step = "login"
    /\ IF found = {}
         THEN Answer(c, 401) /\ UNCHANGED tokens
         ELSE /\ Answer(c, 200)
              /\ \E i \in found : tokens' = Issued(i, users[i].role)
    /\ UNCHANGED <<users, answers>>

-----------------------------------------------------------------------------
(* refreshToken *)

\* jwt.verify succeeded.  (Otherwise 401, and nothing changes.)
Refresh(c, t) ==
    /\ Free(c)
    /\ t \in tokens
    /\ call' = [call EXCEPT ![c] = [Idle EXCEPT !.step = "renew", !.sub = t.sub]]
    /\ UNCHANGED <<users, tokens, answers>>

RefreshIssues(c) ==
    LET i == call[c].sub IN
    /\ call[c].step = "renew"
    /\ tokens' = Issued(i, users[i].role)
    /\ Answer(c, 200)
    /\ UNCHANGED <<users, answers>>

\* A database error of login or refresh.
QueryFails(c) ==
    /\ call[c].step \in {"login", "renew"}
    /\ Answer(c, 500)
    /\ UNCHANGED <<users, tokens, answers>>

Expire(t) ==
    /\ tokens' = tokens \ {t}
    /\ UNCHANGED <<users, call, answers>>

-----------------------------------------------------------------------------
AccountsNext ==
    \/ \E c \in Clients, m \in Emails, p \in Passwords :
        \/ Signup(c, [email |-> m, password |-> p])
        \/ Login(c, [email |-> m, password |-> p])
    \/ \E c \in Clients :
        \/ SignupFind(c) \/ SignupCreate(c) \/ SignupLosesRace(c)
        \/ SignupUnanswered(c) \/ SignupFails(c)
        \/ LoginChecks(c) \/ RefreshIssues(c) \/ QueryFails(c)
    \/ \E c \in Clients, t \in tokens : Refresh(c, t)
    \/ \E t \in tokens : Expire(t)

-----------------------------------------------------------------------------
\* Well-formed; a token always names an account.
AccountsTypeOK ==
    /\ users \in Seq(User) /\ Len(users) <= MaxUsers
    /\ tokens \subseteq Token
    /\ \A t \in tokens : t.sub \in DOMAIN users
    /\ \A c \in Clients : /\ call[c].step \in Steps
                          /\ call[c].sub \in {0} \cup DOMAIN users
                          /\ call[c].status \in {0, 200, 201, 401, 403, 409, 500}
    /\ \A i \in DOMAIN answers : answers[i].status \in {0, 201, 409, 500}

\* However many signups for an address overlap, at most one is answered 201
\* ("Email is already registered", auth.service.ts:35): whoever was answered
\* 201 or 409 knows of one account, and it has the winner's password.
OneSignupWins ==
    /\ \A i, j \in DOMAIN answers :
        /\ answers[i].status = 201 /\ answers[j].status = 201
        /\ answers[i].who.email = answers[j].who.email
        => i = j
    /\ \A i \in DOMAIN answers :
        /\ answers[i].status = 409 => Cardinality(WithEmail(answers[i].who.email)) = 1
        /\ answers[i].status = 201 => Cardinality({k \in WithEmail(answers[i].who.email) : users[k].password = answers[i].who.password}) = 1

\* Whoever was told 201 before asking to log in is not told that the address
\* or the password is wrong.
LoginKnowsSignup ==
    \A c \in Clients : Free(c) /\ call[c].signedUp => call[c].status # 401

=============================================================================
