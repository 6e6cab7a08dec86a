------------------------------ MODULE Accounts ------------------------------
(***************************************************************************)
(* User accounts and their sessions: signing in with a password and a      *)
(* second factor, renewing and ending sessions, changing and resetting     *)
(* passwords, and the administrators' account pages.                       *)
(*                                                                         *)
(* Sources: handlers/auth_handler.go, handlers/twofa_handler.go,           *)
(* handlers/user_handler.go, repositories/token_repo.go,                   *)
(* repositories/user_repo.go and middlewares/auth_middleware.go.           *)
(*                                                                         *)
(* No request runs in a transaction.  A request in flight is the list of   *)
(* the statements it has still to run, with the values it has read: most   *)
(* read a whole user row first and write the whole row back.               *)
(***************************************************************************)
EXTENDS Naturals, Sequences, FiniteSets, SequencesExt, FiniteSetsExt

CONSTANTS
    Users,      \* ids user rows are given, smallest first
    Students,   \* ids of student rows; they share numbers with the users
    Names,      \* user names
    Emails,     \* addresses
    Passwords,  \* passwords people choose
    Pids,       \* ids people have at Google, GitHub or the university
    NoUser,     \* no row with this id yet
    Unset,      \* a column left empty
    Requests,   \* requests the server handles at the same time
    Cap,        \* MaxSessionDuration
    Life,       \* lifetime of a refresh token
    MaxTime,    \* bound on the clock
    MaxTokens,  \* bound: refresh tokens ever created
    MaxCodes    \* bound: backup codes ever generated

ASSUME AccountsAssumption ==
    /\ Users \subseteq Nat /\ Students \subseteq Nat
    /\ Cap \in Nat /\ Life \in Nat /\ 0 < Cap /\ Cap <= Life
    /\ MaxTime \in Nat /\ MaxTokens \in Nat /\ MaxCodes \in Nat
    /\ Unset \notin Nat

VARIABLES
    user,      \* the users rows
    enrolled,  \* is_active of the students rows
    token,     \* the refresh_tokens rows, in the order they were created
    reset,     \* the password_reset_tokens rows
    pending,   \* the two_factor_pendings rows of each user, by method
    nextCode,  \* next backup code
    request,   \* what each request in flight has still to do
    now        \* the clock

accountVars == << user, enrolled, token, reset, pending, nextCode, request, now >>

Methods == {"totp", "email"}

User == [name : Names, email : Emails, active : BOOLEAN, password : Passwords,
         must : BOOLEAN,                        \* must_change_password
         second : Methods \cup {"off"},         \* two_factor_enabled and _method
         codes : SUBSET (1 .. MaxCodes),        \* backup codes not used yet
         google : Pids \cup {Unset},             \* google_id
         here : BOOLEAN]                        \* deleted_at IS NULL

Token == [owner : Users \cup Students, kind : {"u", "s"}, start : 0 .. MaxTime \cup {Unset},
          at : 0 .. MaxTime, live : BOOLEAN]

\* Rows and running requests have the fields the code gives them.
AccountsTypeOK ==
    /\ user \in [Users -> User \cup {NoUser}]
    /\ enrolled \in [Students -> BOOLEAN]
    /\ \A j \in DOMAIN token : token[j] \in Token
    /\ \A r \in reset : r \in [id : Nat, u : Users, at : 0 .. MaxTime, used : BOOLEAN]
    /\ pending \in [Users -> SUBSET Methods]
    /\ now \in 0 .. MaxTime

---------------------------------------------------------------------------
\* Rows

Present(u) == user[u] # NoUser /\ user[u].here
Active(u) == Present(u) /\ user[u].active

\* A name is unique among all rows, deleted ones included.
NameTaken(name, except) ==
    \E v \in Users \ except : user[v] # NoUser /\ user[v].name = name
IsActiveUsernameExists(name, except) == \E v \in Users \ except : Active(v) /\ user[v].name = name
IsActiveEmailExists(email, except) == \E v \in Users \ except : Active(v) /\ user[v].email = email
IsEmailExists(email, except) == \E v \in Users \ except : Present(v) /\ user[v].email = email

\* FindRefreshTokenByJTI
Valid(j) == token[j].live /\ now < token[j].at + Life

\* sessionStartFromToken
SessionStart(j) == IF token[j].start = Unset THEN token[j].at ELSE token[j].start

\* Protected lets a request of the user through while the record of its token is valid;
\* it does not read the user row.
SignedIn(u) == \E j \in DOMAIN token : token[j].owner = u /\ token[j].kind = "u" /\ Valid(j)

---------------------------------------------------------------------------
\* Statements

Free(c) == request[c] = << >>
Start(c, todo) == Free(c) /\ request' = [request EXCEPT ![c] = todo]
Advance(c) == request' = [request EXCEPT ![c] = Tail(@)]
Abort(c) == request' = [request EXCEPT ![c] = << >>]
Next1(c, do) == request[c] # << >> /\ Head(request[c]).do = do

Save(u, row) == [do |-> "save", u |-> u, row |-> row]
Insert(u, row) == [do |-> "insert", u |-> u, row |-> row]
Flip(u) == [do |-> "flip", u |-> u]
Store(u, second, codes) == [do |-> "second", u |-> u, second |-> second, codes |-> codes]
\* The list of backup codes with `struck` taken out, 0 for a new list.
StoreCodes(u, codes, struck) == [do |-> "codes", u |-> u, codes |-> codes, struck |-> struck]
DropPending(u, m) == [do |-> "unpend", u |-> u, m |-> m]
AddPending(u, m) == [do |-> "pend", u |-> u, m |-> m]
Revoke(j) == [do |-> "revoke", u |-> token[j].owner, j |-> j]
RevokeAll(u) == [do |-> "revokeAll", u |-> u]
DropResets(u) == [do |-> "unreset", u |-> u]
AddReset(u) == [do |-> "reset", u |-> u]
MarkUsed(r) == [do |-> "mark", u |-> r.u, id |-> r.id]
\* `from` is the token this one replaces, 0 at a sign-in.
Mint(u, kind, start, from) == [do |-> "mint", u |-> u, kind |-> kind, start |-> start, from |-> from]

\* Save writes every column, and inserts the row again when it was deleted; a name that
\* is taken fails the statement and ends the request.
RunSave(c) ==
    /\ Next1(c, "save") \/ Next1(c, "insert")
    /\ LET s == Head(request[c])
       IN  IF NameTaken(s.row.name, {s.u})
           THEN Abort(c) /\ UNCHANGED user
           ELSE Advance(c) /\ user' = [user EXCEPT ![s.u] = s.row]
    /\ UNCHANGED << enrolled, token, reset, pending, nextCode, now >>

\* ToggleUserStatus reads the row again and saves what it finds, flipped.
RunFlip(c) ==
    /\ Next1(c, "flip")
    /\ LET u == Head(request[c]).u
       IN  IF Present(u)
           THEN request' = [request EXCEPT ![c] = << Save(u, [user[u] EXCEPT !.active = ~ @]) >> \o Tail(@)]
           ELSE Abort(c)
    /\ UNCHANGED << user, enrolled, token, reset, pending, nextCode, now >>

\* An UPDATE of the second factor's columns alone.
RunStore(c) ==
    /\ Next1(c, "second") \/ Next1(c, "codes")
    /\ LET s == Head(request[c])
       IN  user' = IF ~ Present(s.u) THEN user
                   ELSE [user EXCEPT ![s.u].codes = s.codes,
                                     ![s.u].second = IF s.do = "second" THEN s.second ELSE @]
    /\ Advance(c)
    /\ UNCHANGED << enrolled, token, reset, pending, nextCode, now >>

RunPending(c) ==
    /\ Next1(c, "pend") \/ Next1(c, "unpend")
    /\ LET s == Head(request[c])
       IN  pending' = [pending EXCEPT ![s.u] = IF s.do = "pend" THEN @ \cup {s.m} ELSE @ \ {s.m}]
    /\ Advance(c)
    /\ UNCHANGED << user, enrolled, token, reset, nextCode, now >>

RunRevoke(c) ==
    /\ Next1(c, "revoke")
    /\ token' = [token EXCEPT ![Head(request[c]).j].live = FALSE]
    /\ Advance(c)
    /\ UNCHANGED << user, enrolled, reset, pending, nextCode, now >>

\* Mutant: the tokens of the student with this number.
RevokedOther(u, j) == token[j].owner = u /\ token[j].kind = "s"

\* RevokeAllUserRefreshTokens
RevokedWith(u, j) == token[j].owner = u /\ token[j].kind = "u"

RunRevokeAll(c) ==
    /\ Next1(c, "revokeAll")
    /\ token' = [j \in DOMAIN token |->
                   [token[j] EXCEPT !.live = @ /\ ~ RevokedWith(Head(request[c]).u, j)]]
    /\ Advance(c)
    /\ UNCHANGED << user, enrolled, reset, pending, nextCode, now >>

RunMint(c) ==
    /\ Next1(c, "mint")
    /\ Len(token) < MaxTokens
    /\ LET s == Head(request[c])
       IN  token' = Append(token, [owner |-> s.u, kind |-> s.kind, start |-> s.start,
                                   at |-> now, live |-> TRUE])
    /\ Advance(c)
    /\ UNCHANGED << user, enrolled, reset, pending, nextCode, now >>

RunReset(c) ==
    /\ \/ /\ Next1(c, "unreset")
          /\ reset' = {r \in reset : r.u # Head(request[c]).u \/ r.used}
       \/ /\ Next1(c, "reset")
          /\ reset' = reset \cup {[id |-> Max({0} \cup {r.id : r \in reset}) + 1,
                                   u |-> Head(request[c]).u, at |-> now, used |-> FALSE]}
       \/ /\ Next1(c, "mark")
          /\ reset' = {IF r.id = Head(request[c]).id THEN [r EXCEPT !.used = TRUE] ELSE r : r \in reset}
    /\ Advance(c)
    /\ UNCHANGED << user, enrolled, token, pending, nextCode, now >>

Running(c) ==
    \/ RunSave(c) \/ RunFlip(c) \/ RunStore(c) \/ RunPending(c)
    \/ RunRevoke(c) \/ RunRevokeAll(c) \/ RunMint(c) \/ RunReset(c)

Others == << user, enrolled, token, reset, pending, now >>
Begin(c, todo) == Start(c, todo) /\ UNCHANGED Others

---------------------------------------------------------------------------
\* Signing in

SignIn(u) == Mint(u, "u", now, 0)

Login(c) ==
    \E u \in Users :
        /\ Active(u) /\ user[u].second = "off"
        /\ Begin(c, << SignIn(u) >>)
        /\ UNCHANGED nextCode

\* Mutant: a backup code stays in the list.
AcceptingForever(u) == {<< StoreCodes(u, user[u].codes, code) >> : code \in user[u].codes}

\* What accepting a code still has to write: nothing for one of the authenticator's,
\* the pending row is deleted for one sent by mail, a backup code is struck out.
Accepting(u) ==
    (IF user[u].second = "totp" THEN {<< >>} ELSE {})
    \cup (IF user[u].second = "email" /\ "email" \in pending[u] THEN {<< DropPending(u, "email") >>} ELSE {})
    \cup {<< StoreCodes(u, user[u].codes \ {code}, code) >> : code \in user[u].codes}

\* A code is checked for its own sake or to sign in; the token of such a sign-in does
\* not store when the session started.
VerifyLoginWith2FA(c) ==
    \E u \in Users :
        /\ Present(u) /\ user[u].second # "off"
        /\ \E todo \in Accepting(u) : todo # << >> /\ Begin(c, todo)
        /\ UNCHANGED nextCode

CompleteTwoFALogin(c) ==
    \E u \in Users :
        /\ Present(u) /\ user[u].second # "off"
        /\ \E todo \in Accepting(u) : Begin(c, Append(todo, Mint(u, "u", Unset, 0)))
        /\ UNCHANGED nextCode

SendCode(u, m) == << DropPending(u, m), AddPending(u, m) >>

SendLoginCode(c) ==
    \E u \in Users :
        /\ Present(u) /\ user[u].second = "email"
        /\ Begin(c, SendCode(u, "email"))
        /\ UNCHANGED nextCode

\* Before something only a privileged user may do; by mail a code is sent.
RequestStepUpChallenge(c) ==
    \E u \in Users :
        /\ SignedIn(u) /\ Present(u) /\ user[u].second = "email"
        /\ Begin(c, SendCode(u, "email"))
        /\ UNCHANGED nextCode

VerifyStepUpChallenge(c) ==
    \E u \in Users :
        /\ SignedIn(u) /\ Present(u) /\ user[u].second # "off"
        /\ \E todo \in Accepting(u) : todo # << >> /\ Begin(c, todo)
        /\ UNCHANGED nextCode

---------------------------------------------------------------------------
\* Renewing and ending sessions

\* Mutant: the session starts anew with every renewal.
RenewedFromNow(j) == now

\* The start is carried forward from the first sign-in.
Renewed(j) == SessionStart(j)

RefreshHandler(c) ==
    \E j \in DOMAIN token :
        /\ Valid(j)
        /\ LET o == token[j].owner
               k == token[j].kind
           IN  IF now - SessionStart(j) >= Cap
               THEN Begin(c, << Revoke(j) >>)
               ELSE /\ IF k = "s" THEN enrolled[o] ELSE Active(o)
                    /\ Begin(c, << Revoke(j), Mint(o, k, Renewed(j), j) >>)
        /\ UNCHANGED nextCode

Logout ==
    /\ \E j \in DOMAIN token : token[j].live /\ token' = [token EXCEPT ![j].live = FALSE]
    /\ UNCHANGED << user, enrolled, reset, pending, nextCode, request, now >>

\* From the list of one's sessions, which is looked up by number alone.
RevokeSession ==
    /\ \E j \in DOMAIN token :
          /\ \E u \in Users : SignedIn(u) /\ token[j].owner = u
          /\ token[j].live /\ token' = [token EXCEPT ![j].live = FALSE]
    /\ UNCHANGED << user, enrolled, reset, pending, nextCode, request, now >>

RevokeAllSessionsHandler ==
    /\ \E u \in Users :
          /\ SignedIn(u)
          /\ token' = [j \in DOMAIN token |-> [token[j] EXCEPT !.live = @ /\ token[j].owner # u]]
    /\ UNCHANGED << user, enrolled, reset, pending, nextCode, request, now >>

---------------------------------------------------------------------------
\* Passwords and profile

WithPassword(u, p) == [user[u] EXCEPT !.password = p, !.must = FALSE]

ChangePassword(c) ==
    \E u \in Users, p \in Passwords :
        /\ SignedIn(u) /\ Present(u)
        /\ Begin(c, << Save(u, WithPassword(u, p)), RevokeAll(u) >>)
        /\ UNCHANGED nextCode

\* Those who must choose a new password are not asked for the old one.
ForceChangePassword(c) ==
    \E u \in Users, p \in Passwords :
        /\ SignedIn(u) /\ Present(u) /\ user[u].must
        /\ Begin(c, << Save(u, WithPassword(u, p)), RevokeAll(u) >>)
        /\ UNCHANGED nextCode

ForgotPasswordHandler(c) ==
    \E u \in Users :
        /\ Active(u)
        /\ Begin(c, << DropResets(u), AddReset(u) >>)
        /\ UNCHANGED nextCode

\* A link works once and for an hour (one unit of the clock).
ResetPasswordHandler(c) ==
    \E r \in reset, p \in Passwords :
        /\ ~ r.used /\ now <= r.at
        /\ Active(r.u)
        /\ Begin(c, << Save(r.u, WithPassword(r.u, p)), MarkUsed(r), RevokeAll(r.u) >>)
        /\ UNCHANGED nextCode

\* What is not modelled changes, and the whole row is saved.
SaveAsRead(c) ==
    /\ \E u \in Users : SignedIn(u) /\ Present(u) /\ Begin(c, << Save(u, user[u]) >>)
    /\ UNCHANGED nextCode

UpdatePreferencesHandler(c) == SaveAsRead(c)
UploadAvatarHandler(c) == SaveAsRead(c)
RemoveAvatarHandler(c) == SaveAsRead(c)

UpdateProfileHandler(c) ==
    \E u \in Users, e \in Emails :
        /\ SignedIn(u) /\ Present(u)
        /\ e # user[u].email => ~ IsEmailExists(e, {u})
        /\ Begin(c, << Save(u, [user[u] EXCEPT !.email = e]) >>)
        /\ UNCHANGED nextCode

---------------------------------------------------------------------------
\* The second factor

FreshCodes == {nextCode}

Setup2FA(c) ==
    \E u \in Users, m \in Methods :
        /\ SignedIn(u) /\ Present(u) /\ user[u].second = "off"
        /\ Begin(c, SendCode(u, m))
        /\ UNCHANGED nextCode

Verify2FA(c) ==
    \E u \in Users, m \in Methods :
        /\ SignedIn(u) /\ Present(u) /\ m \in pending[u]
        /\ nextCode <= MaxCodes /\ nextCode' = nextCode + 1
        /\ Begin(c, << Store(u, m, FreshCodes), DropPending(u, m) >>)

\* Sent again during setup, or for a step-up.
Resend2FAEmail(c) ==
    \E u \in Users :
        /\ SignedIn(u) /\ Present(u)
        /\ "email" \in pending[u] \/ user[u].second = "email"
        /\ Begin(c, << AddPending(u, "email") >>)
        /\ UNCHANGED nextCode

Disable2FA(c) ==
    \E u \in Users :
        /\ SignedIn(u) /\ Present(u) /\ user[u].second # "off"
        /\ \E todo \in Accepting(u) : Begin(c, Append(todo, Store(u, "off", {})))
        /\ UNCHANGED nextCode

RegenerateBackupCodes(c) ==
    \E u \in Users :
        /\ SignedIn(u) /\ Present(u) /\ user[u].second # "off"
        /\ nextCode <= MaxCodes /\ nextCode' = nextCode + 1
        /\ Begin(c, << StoreCodes(u, FreshCodes, 0) >>)

PendingExpires ==
    /\ \E u \in Users, m \in Methods :
          m \in pending[u] /\ pending' = [pending EXCEPT ![u] = @ \ {m}]
    /\ UNCHANGED << user, enrolled, token, reset, nextCode, request, now >>

---------------------------------------------------------------------------
\* The administrators' pages

NewUser(name, email, active, p) ==
    [name |-> name, email |-> email, active |-> active, password |-> p, must |-> TRUE,
     second |-> "off", codes |-> {}, google |-> Unset, here |-> TRUE]

\* Ids that no row has and no request in flight is about to use.
NextId(u) ==
    LET given == {v \in Users : user[v] # NoUser}
                   \cup {request[c][1].u : c \in {d \in Requests : ~ Free(d) /\ request[d][1].do = "insert"}}
    IN  u \notin given /\ \A v \in Users \ given : u <= v

CreateUserHandler(c) ==
    \E u \in Users, name \in Names, email \in Emails, active \in BOOLEAN, p \in Passwords :
        /\ NextId(u)
        /\ ~ IsActiveUsernameExists(name, {}) /\ ~ IsActiveEmailExists(email, {})
        /\ Begin(c, << Insert(u, NewUser(name, email, active, p)) >>)
        /\ UNCHANGED nextCode

\* A new password may be part of it, and ends no session.
UpdateUserHandler(c) ==
    \E u \in Users, name \in Names, email \in Emails, active \in BOOLEAN, p \in Passwords :
        /\ Present(u)
        /\ name # user[u].name => ~ IsActiveUsernameExists(name, {u})
        /\ email # user[u].email => ~ IsActiveEmailExists(email, {u})
        /\ Begin(c, << Save(u, [user[u] EXCEPT !.name = name, !.email = email,
                                               !.active = active, !.password = p]) >>)
        /\ UNCHANGED nextCode

\* Active accounts that stand in the way of enabling this one: by name, else by mail.
Conflicts(u) ==
    LET byName == {v \in Users \ {u} : Active(v) /\ user[v].name = user[u].name}
    IN  IF byName # {} THEN byName
        ELSE {v \in Users \ {u} : Active(v) /\ user[v].email = user[u].email}

\* With force one conflicting account is disabled first.
ToggleUserStatus(c) ==
    \E u \in Users :
        /\ Present(u)
        /\ IF user[u].active \/ Conflicts(u) = {} THEN Begin(c, << Flip(u) >>)
           ELSE LET v == Min(Conflicts(u))
                IN  Begin(c, << Save(v, [user[v] EXCEPT !.active = FALSE]), Flip(u) >>)
        /\ UNCHANGED nextCode

DeleteUserHandler ==
    /\ \E u \in Users : Present(u) /\ user' = [user EXCEPT ![u].here = FALSE]
    /\ UNCHANGED << enrolled, token, reset, pending, nextCode, request, now >>

\* A student is switched off or on; the tokens stay.
SwitchStudent ==
    /\ \E s \in Students : enrolled' = [enrolled EXCEPT ![s] = ~ @]
    /\ UNCHANGED << user, token, reset, pending, nextCode, request, now >>

Tick ==
    /\ now < MaxTime /\ now' = now + 1
    /\ UNCHANGED << user, enrolled, token, reset, pending, nextCode, request >>

---------------------------------------------------------------------------
SessionRequest(c) == Login(c) \/ RefreshHandler(c)
PasswordRequest(c) ==
    \/ ChangePassword(c) \/ ForceChangePassword(c)
    \/ ForgotPasswordHandler(c) \/ ResetPasswordHandler(c)
    \/ UpdatePreferencesHandler(c) \/ UploadAvatarHandler(c) \/ RemoveAvatarHandler(c)
FactorRequest(c) ==
    \/ VerifyLoginWith2FA(c) \/ CompleteTwoFALogin(c) \/ SendLoginCode(c) \/ Setup2FA(c)
    \/ RequestStepUpChallenge(c) \/ VerifyStepUpChallenge(c)
    \/ Verify2FA(c) \/ Resend2FAEmail(c) \/ Disable2FA(c) \/ RegenerateBackupCodes(c)
AdminRequest(c) == CreateUserHandler(c) \/ ToggleUserStatus(c)
=============================================================================
