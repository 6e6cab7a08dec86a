----------------------------- MODULE MCAccounts -----------------------------
(***************************************************************************)
(* Accounts and LinkedAccounts for TLC: what is asked for in which         *)
(* scenario, bounds on how much, and the properties.                       *)
(*   "sessions"  a user and a student with the same number sign in, renew  *)
(*               and end sessions while hours pass.                        *)
(*   "passwords" one user changes and resets the password meanwhile, and   *)
(*               an administrator sets a new one.                          *)
(*   "codes"     one user sets up, uses and switches off the second factor.*)
(*   "staff"     administrators create, edit, enable and delete accounts.  *)
(*   "links"     two users link, unlink and sign in with providers.        *)
(* A request is over within an hour, the unit of the clock.                *)
(***************************************************************************)
EXTENDS LinkedAccounts

CONSTANTS Scenarios, MaxStarts, P1, P2

ASSUME MCAccountsAssumption == {1, 2} \subseteq Users

\* Two people at Google, the second of them at GitHub; the first is known to KKU by
\* address alone, by an id, and by the id it used before.
MCIdentities ==
    {[provider |-> "google", pid |-> P1, email |-> 1, former |-> P1],
     [provider |-> "google", pid |-> P2, email |-> 2, former |-> P2],
     [provider |-> "github", pid |-> P2, email |-> 2, former |-> P2],
     [provider |-> "kku", pid |-> Mail(1), email |-> 1, former |-> Mail(1)],
     [provider |-> "kku", pid |-> P1, email |-> 1, former |-> P2],
     [provider |-> "kku", pid |-> P2, email |-> 2, former |-> P2]}

VARIABLES
    scenario, starts,
    root,     \* history: the sign-in each token descends from
    before,   \* history: tokens there were when each request in flight began
    changed,  \* history: tokens there were when a request that changed the password began
    admin,    \* history: the requests that are an administrator's edit of a user
    struck,   \* history: backup codes accepted so far
    raced,    \* history: what two requests held at once
    orphaned  \* history: accounts at a provider with a row whose user was gone

mcvars == << vars, scenario, starts, root, before, changed, admin, struck, raced, orphaned >>

\* What a request in flight is about: users, accounts at a provider.
Held(todo) ==
    UNION {CASE s.do = "revoke" /\ token[s.j].kind = "s" -> {}
             [] s.do = "mint" /\ s.kind = "s" -> {}
             [] s.do \in {"first", "link"} -> {<< "user", s.u >>, << "pid", s.pid >>}
             [] s.do = "point" -> {<< "user", s.u >>, << "pid", s.pid >>}
             [] OTHER -> {<< "user", s.u >>} : s \in ToSet(todo)}

Row(u, email, active, second) ==
    [name |-> u, email |-> email, active |-> active, password |-> 1, must |-> scenario = "passwords",
     second |-> second, codes |-> IF second = "off" THEN {} ELSE {1}, google |-> Unset, here |-> TRUE]

Signed(u, kind) == << [owner |-> u, kind |-> kind, start |-> 0, at |-> 0, live |-> TRUE] >>

Residents(second, email, active) ==
    [u \in Users |-> CASE u = 1 -> Row(1, 1, TRUE, second)
                       [] u = 2 /\ scenario \in {"staff", "links"} -> Row(2, email, active, "off")
                       [] OTHER -> NoUser]

MCUsers ==
    \E second \in CASE scenario = "codes" -> Methods \cup {"off"}
                    [] scenario = "sessions" -> {"totp", "off"}
                    [] OTHER -> {"off"},
       e \in IF scenario = "staff" THEN Emails ELSE {2}, active \in BOOLEAN :
        /\ user = Residents(second, e, active)
        /\ scenario = "staff" => (e = 1 => ~ active)
        /\ scenario = "links" => active

MCInit ==
    /\ scenario \in Scenarios
    /\ starts = IF scenario \in {"staff", "links"} THEN 1 ELSE 0
    /\ MCUsers
    /\ IF scenario = "links" THEN \E kind \in {"u", "s"} : token = Signed(1, kind) \o Signed(2, "u")
       ELSE token = IF scenario \in {"codes", "staff", "passwords"} THEN Signed(1, "u") ELSE << >>
    /\ root = [j \in DOMAIN token |-> j]
    /\ enrolled = [s \in Students |-> TRUE] /\ reset = {} /\ pending = [u \in Users |-> {}]
    /\ nextCode = 2 /\ now = 0 /\ link = {} /\ nextLink = 1
    /\ request = [c \in Requests |-> << >>] /\ before = [c \in Requests |-> 0]
    /\ changed = [u \in Users |-> 0] /\ admin = {} /\ struck = {} /\ raced = {} /\ orphaned = {}

Begins(c) ==
    \/ /\ \/ scenario \in {"sessions", "passwords"} /\ SessionRequest(c)
          \/ scenario = "passwords" /\ (PasswordRequest(c) \/ UpdateProfileHandler(c))
          \/ scenario = "codes" /\ FactorRequest(c)
          \/ scenario = "staff" /\ (AdminRequest(c) \/ UpdateProfileHandler(c))
          \/ scenario = "sessions" /\ CompleteTwoFALogin(c)
       /\ UNCHANGED linkVars
    \/ scenario = "sessions" /\ StudentSignIn(c)
    \/ scenario = "links" /\ LinkRequest(c)

\* An administrator's edit of a user; of the password alone in "passwords".
Administers(c) ==
    /\ UpdateUserHandler(c) /\ UNCHANGED linkVars
    /\ \/ scenario = "staff"
       \/ scenario = "passwords" /\ \E u \in Users, p \in Passwords :
             Present(u) /\ request'[c] = << Save(u, [user[u] EXCEPT !.password = p]) >>

AtOnce ==
    \/ /\ \/ scenario = "sessions" /\ (Logout \/ RevokeSession \/ RevokeAllSessionsHandler \/ SwitchStudent)
          \/ scenario = "codes" /\ PendingExpires
          \/ scenario = "staff" /\ DeleteUserHandler
          \/ scenario = "links" /\ DeleteUserHandler
       /\ UNCHANGED linkVars
    \/ scenario = "links" /\ AdminUnlinkAccountHandler

Hour == scenario \in {"sessions", "passwords"} /\ (\A c \in Requests : Free(c)) /\ Tick /\ UNCHANGED linkVars

\* Histories.
Started(c) == request[c] = << >> /\ request'[c] # << >>
StruckBy(todo) == {<< s.u, s.struck >> : s \in {x \in ToSet(todo) : x.do = "codes" /\ x.struck # 0}}

\* Saves a row of the user with another password than it had, but for an administrator.
ChangesPassword(c, u) ==
    /\ c \notin admin /\ Next1(c, "save") /\ request'[c] # request[c] /\ Head(request[c]).u = u
    /\ user'[u].password # user[u].password

Remember ==
    /\ root' = IF Len(token') = Len(token) THEN root
               ELSE LET s == Head(request[CHOOSE c \in Requests : Next1(c, "mint") /\ request'[c] # request[c]])
                    IN  Append(root, IF s.from = 0 THEN Len(token') ELSE root[s.from])
    /\ before' = [c \in Requests |-> IF Started(c) THEN Len(token) ELSE before[c]]
    /\ changed' = [u \in Users |->
                     Max({changed[u]} \cup {before[c] : c \in {d \in Requests : ChangesPassword(d, u)}})]
    /\ struck' = struck \cup UNION {StruckBy(request'[c]) : c \in {d \in Requests : Started(d)}}
    /\ raced' = raced \cup UNION {Held(request'[p[1]]) \cap Held(request'[p[2]]) :
                                     p \in {q \in Requests \X Requests : q[1] # q[2]}}
    /\ orphaned' = orphaned \cup {<< "pid", r.pid >> : r \in {q \in link' : ~ Present(q.u)'}}

MCNext ==
    /\ \/ /\ starts < MaxStarts /\ starts' = starts + 1
          /\ \/ \E c \in Requests : Begins(c) /\ admin' = admin \ {c}
             \/ \E c \in Requests : Administers(c) /\ admin' = admin \cup {c}
             \/ AtOnce /\ UNCHANGED admin
       \/ /\ UNCHANGED << starts, admin >>
          /\ \/ \E c \in Requests : (Running(c) /\ UNCHANGED linkVars) \/ RunningLinks(c)
             \/ Hour
    /\ Remember
    /\ UNCHANGED scenario

MCSpec == MCInit /\ [][MCNext]_mcvars
-----------------------------------------------------------------------------
\* However often it is renewed, a session is renewed for the last time before it is Cap
\* hours old, counted from its sign-in.
SessionsEndAtCap ==
    \A j \in DOMAIN token : token[j].at < token[root[j]].at + Cap

\* A request has still to end the sessions of the user.
Revoking(u) == \E c \in Requests : RevokeAll(u) \in ToSet(request[c])

\* Once the password in a user's row has changed, no session the user had before is alive
\* or comes back to life when the request that changed it is over.  Excepted are a change
\* that another request of the user overlapped, and a new password an administrator has
\* set: UpdateUserHandler ends no session.
PasswordEndsSessionsSerially ==
    \A j \in DOMAIN token :
        token[j].kind = "u" /\ token[j].live /\ root[j] <= changed[token[j].owner]
        => << "user", token[j].owner >> \in raced \/ Revoking(token[j].owner)

\* A backup code is accepted once, unless requests of its user overlapped.
CodesWorkOnceSerially ==
    [][\A c \in Requests : Started(c) =>
          \A x \in StruckBy(request'[c]) : x \notin struck \/ << "user", x[1] >> \in raced']_mcvars

\* An account at a provider leads to one user, unless two requests about the account
\* overlapped or a row of it outlived its user; and a user has one account at KKU, unless
\* two requests about the user overlapped.
LinksAreUniqueSerially ==
    \A r, q \in link :
        r # q /\ r.provider = q.provider /\ Present(r.u) /\ Present(q.u)
        => /\ r.u # q.u /\ r.pid = q.pid => << "pid", r.pid >> \in raced \cup orphaned
           /\ r.u = q.u /\ r.provider = "kku" => << "user", r.u >> \in raced
=============================================================================
