--------------------------- MODULE LinkedAccounts ---------------------------
(***************************************************************************)
(* Accounts at Google, GitHub and the university's KKU service: linking    *)
(* them to users, unlinking them, and signing in with them.                *)
(*                                                                         *)
(* Sources: handlers/oauth_handler.go, handlers/google_oauth_handler.go,   *)
(* handlers/github_oauth_handler.go and handlers/kku_sso_handler.go.       *)
(*                                                                         *)
(* What a provider says of a person is an element of Identities: its id    *)
(* for them, their address there, and the id KKU used for them before.     *)
(***************************************************************************)
EXTENDS Accounts

CONSTANTS
    Identities,  \* [provider, pid, email, former] records
    MaxLinks     \* bound: user_oauth_accounts rows ever created

VARIABLES
    link,     \* the user_oauth_accounts rows
    nextLink  \* next value of their id sequence

linkVars == << link, nextLink >>
vars == << accountVars, linkVars >>

Providers == {"google", "github", "kku"}

\* The id stored for somebody of whom only the address was known.
Mail(e) == << e >>

\* Linked rows name users, providers and external ids.
LinkedTypeOK ==
    link \subseteq [id : 1 .. MaxLinks, u : Users, provider : Providers,
                    pid : Pids \cup {Mail(e) : e \in Emails}]

---------------------------------------------------------------------------
\* Rows

With(provider, pid) == {r \in link : r.provider = provider /\ r.pid = pid}
Of(u, provider) == {r \in link : r.u = u /\ r.provider = provider}
First(rows) == CHOOSE r \in rows : \A q \in rows : r.id <= q.id
Lowest(us) == {u \in us : \A v \in us : u <= v}

FirstOrCreate(u, provider, pid) == [do |-> "first", u |-> u, provider |-> provider, pid |-> pid]
AddLink(u, provider, pid) == [do |-> "link", u |-> u, provider |-> provider, pid |-> pid]
Point(r, pid) == [do |-> "point", u |-> r.u, id |-> r.id, pid |-> pid]
DropLink(r) == [do |-> "unlink", u |-> r.u, id |-> r.id]
SetGoogle(u, pid) == [do |-> "google", u |-> u, pid |-> pid]

\* KKU's row is looked for by user and provider: one that is found is given the new id,
\* else one is inserted in a second statement.  Google's and GitHub's is looked for by
\* all it is to contain, with the time of linking: none is found, and one inserted.
Upserting(u, provider, pid) ==
    IF provider = "kku" THEN FirstOrCreate(u, provider, pid) ELSE AddLink(u, provider, pid)

RunFirst(c) ==
    /\ Next1(c, "first")
    /\ LET s == Head(request[c])
           rows == Of(s.u, s.provider)
           next == IF rows = {} THEN AddLink(s.u, s.provider, s.pid) ELSE Point(First(rows), s.pid)
       IN  request' = [request EXCEPT ![c] = << next >> \o Tail(@)]
    /\ UNCHANGED << Others, nextCode, linkVars >>

RunLink(c) ==
    /\ LET s == Head(request[c])
       IN  \/ /\ Next1(c, "link") /\ nextLink <= MaxLinks
              /\ link' = link \cup {[id |-> nextLink, u |-> s.u, provider |-> s.provider, pid |-> s.pid]}
              /\ nextLink' = nextLink + 1
           \/ /\ Next1(c, "point")
              /\ link' = {IF r.id = s.id THEN [r EXCEPT !.pid = s.pid] ELSE r : r \in link}
              /\ UNCHANGED nextLink
           \/ /\ Next1(c, "unlink")
              /\ link' = {r \in link : r.id # s.id}
              /\ UNCHANGED nextLink
    /\ Advance(c)
    /\ UNCHANGED << Others, nextCode >>

RunGoogle(c) ==
    /\ Next1(c, "google")
    /\ LET s == Head(request[c])
       IN  user' = IF Present(s.u) THEN [user EXCEPT ![s.u].google = s.pid] ELSE user
    /\ Advance(c)
    /\ UNCHANGED << enrolled, token, reset, pending, nextCode, now, linkVars >>

RunningLinks(c) == RunFirst(c) \/ RunLink(c) \/ RunGoogle(c)

---------------------------------------------------------------------------
\* Linking and unlinking

\* Mutant: whose account it is does not matter.
LinkAny(u, i) == TRUE

\* Nobody else has the account.
MayLink(u, i) == \A r \in With(i.provider, i.pid) : r = First(With(i.provider, i.pid)) => r.u = u

\* By hand: neither the account nor the user has a link of this provider.
LinkAccountHandler(c) ==
    \E u \in Users, i \in Identities :
        /\ SignedIn(u)
        /\ With(i.provider, i.pid) = {} /\ Of(u, i.provider) = {}
        /\ Begin(c, << AddLink(u, i.provider, i.pid) >>)
        /\ UNCHANGED << nextCode, linkVars >>

\* Every user has a password, so the last link may go too.
UnlinkAccountHandler(c) ==
    \E u \in Users, p \in Providers :
        /\ SignedIn(u) /\ Of(u, p) # {}
        /\ Begin(c, << DropLink(First(Of(u, p))) >>
                    \o (IF p = "google" /\ Present(u) /\ user[u].google # Unset
                        THEN << SetGoogle(u, Unset) >> ELSE << >>))
        /\ UNCHANGED << nextCode, linkVars >>

\* google_id stays.
AdminUnlinkAccountHandler ==
    /\ \E u \in Users, p \in Providers : Of(u, p) # {} /\ link' = link \ Of(u, p)
    /\ UNCHANGED << accountVars, nextLink >>

---------------------------------------------------------------------------
\* Signing in with a provider

\* A person found, and what finding them still has to write.
Found(u, todo) == [u |-> u, todo |-> todo]

Upsert(u, i) == IF MayLink(u, i) THEN << Upserting(u, i.provider, i.pid) >> ELSE << >>

\* findUserByOAuthAccount: by the id, else by a row that only had the address, which is
\* not found either once there is a row with the id, though its user is gone.
ByRow(provider, pid) ==
    LET rows == With(provider, pid)
    IN  {r \in rows : r = First(rows) /\ Present(r.u)}

ByLink(i) ==
    IF With(i.provider, i.pid) # {} THEN {Found(r.u, << >>) : r \in ByRow(i.provider, i.pid)}
    ELSE {Found(r.u, << Point(r, i.pid) >>) : r \in ByRow(i.provider, Mail(i.email))}

\* Google: by google_id, else by the address, which also fills google_id.
ByGoogle(i) ==
    LET own == Lowest({u \in Users : Present(u) /\ user[u].google = i.pid})
        mail == Lowest({u \in Users : Present(u) /\ user[u].email = i.email})
    IN  IF own # {} THEN {Found(u, Upsert(u, i)) : u \in own}
        ELSE {Found(u, (IF user[u].google = Unset THEN << SetGoogle(u, i.pid) >> ELSE << >>)
                         \o Upsert(u, i)) : u \in mail}

\* KKU: by the id it used before, else by the address.
ByKKU(i) ==
    LET rows == IF i.former = i.pid THEN {} ELSE ByRow("kku", i.former)
    IN  IF rows # {} THEN {Found(r.u, << Point(r, i.pid) >>) : r \in rows}
        ELSE {Found(u, << >>) : u \in Lowest({v \in Users : Present(v) /\ user[v].email = i.email})}

\* GitHub: nobody who is not linked.
FindUser(i) ==
    IF ByLink(i) # {} THEN ByLink(i)
    ELSE CASE i.provider = "google" -> ByGoogle(i)
           [] i.provider = "kku" -> ByKKU(i)
           [] i.provider = "github" -> {}

\* Somebody holds a token with the user's number that opens requests for a quarter of
\* an hour, whatever became of the session.  A student's will do: whether it is a user's
\* or a student's is not looked at.
Issued(u) == \E j \in DOMAIN token : token[j].owner = u /\ token[j].at = now

\* Back from the provider's page to link: a row of the user is made or changed, and a
\* new session begins.
Link(c, i) ==
    \E u \in Users :
        /\ Issued(u) /\ Present(u)
        /\ MayLink(u, i)
        /\ Begin(c, << Upserting(u, i.provider, i.pid), SignIn(u) >>)

\* One with a second factor is sent to the code page.
SessionOf(u) == IF user[u].second = "off" THEN << SignIn(u) >> ELSE << >>

\* Back to sign in: an inactive user is turned away, after what finding them writes.
SignInAs(c, f, more) ==
    LET todo == f.todo \o (IF user[f.u].active THEN more \o SessionOf(f.u) ELSE << >>)
    IN  todo # << >> /\ Begin(c, todo)

GoogleCallbackHandler(c) ==
    /\ \E i \in Identities :
          /\ i.provider = "google"
          /\ Link(c, i) \/ \E f \in FindUser(i) : SignInAs(c, f, << >>)
    /\ UNCHANGED << nextCode, linkVars >>

GitHubCallbackHandler(c) ==
    /\ \E i \in Identities :
          /\ i.provider = "github"
          /\ Link(c, i) \/ \E f \in FindUser(i) : SignInAs(c, f, << >>)
    /\ UNCHANGED << nextCode, linkVars >>

\* KKU links whoever signs in.
KKUCallbackHandler(c) ==
    /\ \E i \in Identities :
          /\ i.provider = "kku"
          /\ Link(c, i) \/ \E f \in FindUser(i) : SignInAs(c, f, Upsert(f.u, i))
    /\ UNCHANGED << nextCode, linkVars >>

\* A student is found by address among the students alone.
StudentSignIn(c) ==
    \E s \in Students :
        /\ enrolled[s]
        /\ Begin(c, << Mint(s, "s", now, 0) >>)
        /\ UNCHANGED << nextCode, linkVars >>

LinkRequest(c) ==
    \/ LinkAccountHandler(c) \/ UnlinkAccountHandler(c)
    \/ GoogleCallbackHandler(c) \/ GitHubCallbackHandler(c) \/ KKUCallbackHandler(c)
=============================================================================
