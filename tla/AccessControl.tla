---------------------------- MODULE AccessControl ----------------------------
(***************************************************************************)
(* auth.middlware.ts over the accounts, in the chains in which the routers *)
(* of routes/ mount it: requireAuth loads the user a token names,          *)
(* requireAdmin looks at what requireAuth left in the request.  The roles  *)
(* in the table change under way; the code never changes one, so an        *)
(* operator of the database does.  A route is its chain; validation comes  *)
(* after it and is left out.                                               *)
(***************************************************************************)
EXTENDS Accounts

CONSTANT MaxRoleChanges   \* bound of the model: roles the operator sets

ASSUME AccessAssumption == MaxRoleChanges \in Nat

VARIABLE roleChanges   \* ghost

accessVars == <<users, tokens, call, answers, roleChanges>>

AccessInit == AccountsInit /\ roleChanges = 0

AdminRoutes == {<<"requireAuth", "requireAdmin">>}

\* Alone: nothing has set req.user when requireAdmin runs, so that this chain
\* answers 401 to everybody, administrators too.
AnalyticsRoutes == {<<"requireAdmin">>}

BookingRoutes == {<<"requireAuth">>}

\* Reading the list too, which the comments reserve to organizer and admin.
WaitlistRoutes == {<<"requireAuth">>}

\* Creating an event is protected, listing and reading are not.
EventRoutes == {<<"requireAuth">>, << >>}

\* Holding and confirming are protected, listing is not.
SeatRoutes == {<<"requireAuth">>, << >>}

\* Signup, login and refresh, whose handlers are in Accounts.
AuthRoutes == {<< >>}

Routes == AdminRoutes \cup AnalyticsRoutes \cup BookingRoutes \cup WaitlistRoutes
            \cup EventRoutes \cup SeatRoutes \cup AuthRoutes

Mounts(route, middleware) == \E i \in DOMAIN route : route[i] = middleware

\* requireAuth verified the token.  Without a valid one it answers 401, and
\* nothing changes.
Enter(c, route, t) ==
    /\ Free(c)
    /\ Mounts(route, "requireAuth")
    /\ t \in tokens
    /\ call' = [call EXCEPT ![c] =
                  [Idle EXCEPT !.step = "load", !.sub = t.sub, !.claim = t.role,
                               !.route = route, !.held = {users[t.sub].role}]]
    /\ UNCHANGED <<users, tokens, answers, roleChanges>>

\* No req.user: requireAdmin answers 401 whoever asks.
EnterUnauthenticated(c, route) ==
    /\ Free(c)
    /\ ~Mounts(route, "requireAuth")
    /\ call' = [call EXCEPT ![c] =
                  [Idle EXCEPT !.status = IF Mounts(route, "requireAdmin") THEN 401 ELSE 200,
                               !.route = route]]
    /\ UNCHANGED <<users, tokens, answers, roleChanges>>

\* Mutant of RoleOf: the role of the token comes first.
RoleOfClaim(i, claim) == IF claim # "none" THEN claim ELSE users[i].role

\* user.role ?? role; the column is not nullable.
RoleOf(i, claim) == users[i].role

\* requireAdmin follows without an await, then the handler.
LoadUser(c) ==
    /\ call[c].step = "load"
    /\ Answer(c, IF Mounts(call[c].route, "requireAdmin") /\ RoleOf(call[c].sub, call[c].claim) # "admin"
                   THEN 403 ELSE 200)
    /\ UNCHANGED <<users, tokens, answers, roleChanges>>

LoadFails(c) ==
    /\ call[c].step = "load"
    /\ Answer(c, 500)
    /\ UNCHANGED <<users, tokens, answers, roleChanges>>

SetRole(i, role) ==
    /\ roleChanges < MaxRoleChanges
    /\ users[i].role # role
    /\ roleChanges' = roleChanges + 1
    /\ users' = [users EXCEPT ![i].role = role]
    /\ call' = [c \in Clients |->
                  IF call[c].step = "load" /\ call[c].sub = i
                    THEN [call[c] EXCEPT !.held = @ \cup {role}]
                    ELSE call[c]]
    /\ UNCHANGED <<tokens, answers>>

AccessNext ==
    \/ AccountsNext /\ UNCHANGED roleChanges
    \/ \E c \in Clients : \/ \E route \in Routes, t \in tokens : Enter(c, route, t)
                          \/ \E route \in Routes : EnterUnauthenticated(c, route)
                          \/ LoadUser(c) \/ LoadFails(c)
    \/ \E i \in DOMAIN users, role \in Roles : SetRole(i, role)

AccessSpec == AccessInit /\ [][AccessNext]_accessVars

\* "requireAdmin: enforces admin-only access": what counts is the role an
\* account has while the request runs, not the one it had when its token was
\* signed.  Whoever is served was an administrator meanwhile, which in the chain
\* of requireAdmin alone is nobody; and whoever is answered 403 was not an
\* administrator all the time.  The 401 of that chain says nothing of who asked.
AdminsOnly ==
    \A c \in Clients :
        /\ call[c].status = 200 /\ Mounts(call[c].route, "requireAdmin") => "admin" \in call[c].held
        /\ call[c].status = 403 => "user" \in call[c].held

=============================================================================
