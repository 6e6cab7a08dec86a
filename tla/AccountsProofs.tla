---------------------------- MODULE AccountsProofs ----------------------------
(***************************************************************************)
(* Theorems about Accounts and LinkedAccounts, over the histories that     *)
(* MCAccounts keeps, for any users, students, tokens and requests in       *)
(* flight:                                                                 *)
(*   CapIsKept       however often a session is renewed, its last renewal  *)
(*                   comes before it is Cap hours old                      *)
(*   ChangeEndsAll   no session outlives a change of the password, unless  *)
(*                   another request of the user overlapped the change or  *)
(*                   an administrator made it                              *)
(*   LinksAreUnique  an account at a provider leads to one user, unless    *)
(*                   two requests about it overlapped or a row of it       *)
(*                   outlived its user; a user has one account at KKU      *)
(* None is inductive: what a request will still write was decided when it  *)
(* began.  The invariant says of every statement still to run what the     *)
(* request had found (Fits, MayJoin), of every row still to be saved that  *)
(* its password is the user's or a request that ends the sessions changes  *)
(* it (KeepsPassword), of every token which sign-in it descends from, and  *)
(* that overlapping requests about one user or one account are remembered. *)
(***************************************************************************)
EXTENDS MCAccounts, SequenceTheorems, WellFoundedInduction, TLAPS

Tok == [owner : Users \cup Students, kind : {"u", "s"}, start : Nat \cup {Unset},
        at : Nat, live : BOOLEAN]

IsList(todo) == todo \in Seq(ToSet(todo))

\* What a statement still to run may rely on: a renewal carries the start of the
\* session it renews, and may still be made at this hour.
Fits(s) ==
  /\ s.do = "mint" =>
       /\ s.kind \in {"u", "s"} /\ s.u \in Users \cup Students
       /\ s.kind = "u" => s.u \in Users
       /\ s.from = 0 => s.start \in {now, Unset}
       /\ s.from # 0 => /\ s.from \in 1 .. Len(token)
                        /\ s.start = SessionStart(s.from) /\ now < s.start + Cap
  /\ s.do = "revoke" => s.j \in 1 .. Len(token)
  /\ s.do \in {"first", "link"} => s.u \in Users

\* A request that ends the sessions of its user begins none.
Single(todo) ==
  \A s, t \in ToSet(todo) : ~ (s.do = "revokeAll" /\ t.do = "mint")

Listed == \A c \in Requests : IsList(request[c]) /\ Single(request[c])

AllFit == \A c \in Requests : \A s \in ToSet(request[c]) : Fits(s)

TokensKept ==
  /\ token \in Seq(Tok) /\ now \in Nat
  /\ \A j \in 1 .. Len(token) : token[j].kind = "u" => token[j].owner \in Users

\* A token starts when the sign-in did that it descends from.
Descends ==
  /\ root \in Seq(Nat) /\ Len(root) = Len(token)
  /\ \A j \in 1 .. Len(token) :
       /\ root[j] \in 1 .. Len(token) /\ SessionStart(j) = token[root[j]].at
       /\ token[j].at < SessionStart(j) + Cap

Histories ==
  /\ before \in [Requests -> Nat] /\ changed \in [Users -> Nat]
  /\ \A c \in Requests : before[c] <= Len(token)
  /\ \A u \in Users : changed[u] <= Len(token)

\* The request begins, or ends, sessions of the user.
Concerns(c, u) ==
  \E s \in ToSet(request[c]) : s.u = u /\ (s.do = "revokeAll" \/ (s.do = "mint" /\ s.kind = "u"))

Overlaps ==
  \A c, d \in Requests, u \in Users :
    c # d /\ Concerns(c, u) /\ Concerns(d, u) => << "user", u >> \in raced

\* A request that changes the password of the user and ends the user's sessions: as it
\* begins, and once the row is saved.
ChangeList(todo, u) ==
  \E row, r : todo \in {<< Save(u, row), RevokeAll(u) >>, << Save(u, row), MarkUsed(r), RevokeAll(u) >>}
EndsChange(todo, u) == \E r : todo \in {<< RevokeAll(u) >>, << MarkUsed(r), RevokeAll(u) >>}

\* Whoever still has a session from before a change of the password will have it ended.
Ended ==
  \A j \in 1 .. Len(token) :
    token[j].kind = "u" /\ token[j].live /\ root[j] <= changed[token[j].owner]
    => << "user", token[j].owner >> \in raced \/ \E c \in Requests : EndsChange(request[c], token[j].owner)

\* Nor will a session that the change ends be renewed by a request under way.
NoLateRenewal ==
  \A c \in Requests : \A s \in ToSet(request[c]) :
    s.do = "mint" /\ s.kind = "u" /\ s.from # 0 /\ root[s.from] <= changed[s.u]
    => << "user", s.u >> \in raced

\* A statement that writes a whole row; such a row has a password.
Rewrites(s) == s.do \in {"save", "insert"}
WellMade(s) ==
  /\ Rewrites(s) \/ s.do \in {"flip", "reset"} => s.u \in Users
  /\ Rewrites(s) => "password" \in DOMAIN s.row

\* A row is saved first thing.
SavesFirst(todo) == todo # << >> => \A s \in ToSet(Tail(todo)) : ~ Rewrites(s)

\* The row that is saved has the password the user has, or ends the user's sessions.
SavesWell(todo) ==
  todo # << >> /\ Head(todo).do = "save" =>
    \/ Head(todo).row.password = user[Head(todo).u].password
    \/ ChangeList(todo, Head(todo).u)

KeepsPassword(c) ==
  \/ SavesWell(request[c]) \/ c \in admin
  \/ request[c] # << >> /\ << "user", Head(request[c]).u >> \in raced

\* Requests that write one row at a time are remembered.
SavesMeet ==
  \A c, d \in Requests : c # d =>
    \A s \in ToSet(request[c]), t \in ToSet(request[d]) :
      Rewrites(s) /\ Rewrites(t) /\ s.u = t.u => << "user", s.u >> \in raced

UserRows ==
  /\ user = [u \in Users |-> user[u]]
  /\ \A u \in Users : user[u] # NoUser => "password" \in DOMAIN user[u]

ResetsHaveUsers == \A r \in reset : r.u \in Users

PasswordsInv ==
  /\ UserRows /\ SavesMeet /\ ResetsHaveUsers
  /\ \A c \in Requests : /\ SavesFirst(request[c]) /\ KeepsPassword(c)
                         /\ \A s \in ToSet(request[c]) : WellMade(s)

LinksHaveUsers == \A r \in link : r.u \in Users

Shape == request = [c \in Requests |-> request[c]]

AccountsInv ==
  /\ Shape /\ Listed /\ AllFit /\ TokensKept /\ Descends /\ Histories /\ Overlaps
  /\ Ended /\ NoLateRenewal /\ LinksHaveUsers

\* A statement about an account at a provider.
Joins(s) == s.do \in {"first", "link", "point"}

Excused(pid) == << "pid", pid >> \in raced \cup orphaned

\* Nobody but the user has the account.
Own(u, provider, pid) == \A r \in With(provider, pid) : r.u = u \/ Excused(pid)

NoneAtKKU(u) == << "user", u >> \in raced \/ Of(u, "kku") = {}

\* What a statement about an account may rely on.
MayJoin(s) ==
  /\ s.do \in {"first", "link"} => Own(s.u, s.provider, s.pid)
  /\ s.do = "link" /\ s.provider = "kku" => NoneAtKKU(s.u)
  /\ s.do = "point" =>
       /\ s.id \in Nat /\ s.id < nextLink
       /\ \A r \in link : r.id = s.id => r.u = s.u /\ Own(s.u, r.provider, s.pid)

LinkAtKKU(s) == s.do = "link" /\ s.provider = "kku"

\* A request is about accounts of one user; a row at KKU is inserted first thing.
OfOneUser(todo) ==
  /\ \A s, t \in ToSet(todo) : Joins(s) /\ Joins(t) => s.u = t.u
  /\ todo # << >> => \A s \in ToSet(Tail(todo)) : ~ LinkAtKKU(s)

Joining == \A c \in Requests : OfOneUser(request[c]) /\ \A s \in ToSet(request[c]) : MayJoin(s)

IsRow(r) == r = [id |-> r.id, u |-> r.u, provider |-> r.provider, pid |-> r.pid]

Rows ==
  /\ nextLink \in Nat
  /\ \A r \in link : IsRow(r) /\ r.id \in Nat /\ r.id < nextLink
  /\ \A r, q \in link : r.id = q.id => r = q

OneUser ==
  \A r, q \in link : r.provider = q.provider /\ r.pid = q.pid /\ r.u # q.u => Excused(r.pid)

OneAtKKU ==
  \A r, q \in link :
    r # q /\ r.provider = "kku" /\ q.provider = "kku" /\ r.u = q.u => << "user", r.u >> \in raced

Orphans == \A r \in link : ~ Present(r.u) => Excused(r.pid)

\* Requests about one account that overlap are remembered too.
Meet ==
  \A c, d \in Requests : c # d =>
    \A s \in ToSet(request[c]), t \in ToSet(request[d]) :
      Joins(s) /\ Joins(t) => /\ (s.pid = t.pid => << "pid", s.pid >> \in raced)
                             /\ (s.u = t.u => << "user", s.u >> \in raced)

LinksInv == Rows /\ OneUser /\ OneAtKKU /\ Orphans /\ Joining /\ Meet
-----------------------------------------------------------------------------
(* Lists of statements.                                                     *)

LEMMA AList ==
  ASSUME NEW S, NEW x \in Seq(S)
  PROVE  IsList(x)
<1>1. ToSet(x) = Range(x)
  BY DEF ToSet, Range
<1> QED BY <1>1, SeqOfRange DEF IsList

LEMMA TailOfList ==
  ASSUME NEW x, IsList(x), x # << >>
  PROVE  /\ IsList(Tail(x)) /\ Head(x) \in ToSet(x)
         /\ ToSet(Tail(x)) \subseteq ToSet(x) /\ Tail(x) # x
<1> DEFINE S == ToSet(x)
<1>1. x \in Seq(S)
  BY DEF IsList
<1> HIDE DEF S
<1>2. Head(x) \in S /\ Tail(x) \in Seq(S) /\ Len(Tail(x)) = Len(x) - 1 /\ Len(x) \in Nat
  BY <1>1, HeadTailProperties, LenProperties
<1>3. IsList(Tail(x))
  BY <1>2, AList
<1>4. ToSet(Tail(x)) \subseteq S
  BY <1>2, LenProperties, ElementOfSeq DEF ToSet
<1>5. Tail(x) # x
  <2>1. \A n \in Nat : n - 1 # n
    OBVIOUS
  <2>2. Len(Tail(x)) # Len(x)
    BY <1>2, <2>1
  <2> QED BY <2>2, Zenon
<1> QED BY <1>2, <1>3, <1>4, <1>5 DEF S

LEMMA ConcatOfLists ==
  ASSUME NEW x, NEW y, IsList(x), IsList(y)
  PROVE  IsList(x \o y) /\ ToSet(x \o y) = ToSet(x) \cup ToSet(y)
<1> DEFINE S == ToSet(x) \cup ToSet(y)
<1>1. x \in Seq(S) /\ y \in Seq(S)
  BY SeqMonotonic DEF IsList
<1> HIDE DEF S
<1>2. x \o y \in Seq(S)
  BY <1>1, ConcatProperties
<1>3. Range(x \o y) = Range(x) \cup Range(y)
  BY <1>1, RangeConcatenation
<1> QED BY <1>2, <1>3, AList DEF ToSet, Range

LEMMA AppendToList ==
  ASSUME NEW x, NEW e, IsList(x)
  PROVE  IsList(Append(x, e)) /\ ToSet(Append(x, e)) = ToSet(x) \cup {e}
<1> DEFINE S == ToSet(x) \cup {e}
<1>1. x \in Seq(S) /\ e \in S
  BY SeqMonotonic DEF IsList
<1> HIDE DEF S
<1>2. Append(x, e) = x \o << e >>
  BY <1>1, AppendIsConcat
<1>3. << e >> \in Seq({e}) /\ ToSet(<< e >>) = {e}
  BY DEF ToSet
<1>4. IsList(<< e >>)
  BY <1>3, AList
<1> QED BY <1>2, <1>3, <1>4, ConcatOfLists

LEMMA ListsAssociate ==
  ASSUME NEW x, NEW y, NEW z, IsList(x), IsList(y), IsList(z)
  PROVE  (x \o y) \o z = x \o (y \o z)
<1> DEFINE S == ToSet(x) \cup ToSet(y) \cup ToSet(z)
<1>1. x \in Seq(S) /\ y \in Seq(S) /\ z \in Seq(S)
  BY SeqMonotonic DEF IsList
<1> HIDE DEF S
<1> QED BY <1>1, ConcatAssociative

LEMMA PairOfOnes ==
  ASSUME NEW x, NEW y
  PROVE  << x >> \o << y >> = << x, y >>
<1> DEFINE S == {x, y}
<1>1. /\ << x >> \in Seq(S) /\ << y >> \in Seq(S) /\ << x, y >> \in Seq(S)
      /\ Len(<< x >>) = 1 /\ Len(<< y >>) = 1 /\ Len(<< x, y >>) = 2
  OBVIOUS
<1>2. << x >>[1] = x /\ << y >>[1] = y /\ << x, y >>[1] = x /\ << x, y >>[2] = y
  OBVIOUS
<1> HIDE DEF S
<1>3. /\ << x >> \o << y >> \in Seq(S) /\ Len(<< x >> \o << y >>) = 2
      /\ (<< x >> \o << y >>)[1] = x /\ (<< x >> \o << y >>)[2] = y
  BY <1>1, <1>2, ConcatProperties
<1>4. \A i \in 1 .. 2 : i = 1 \/ i = 2
  OBVIOUS
<1>5. \A i \in 1 .. 2 : (<< x >> \o << y >>)[i] = << x, y >>[i]
  BY <1>2, <1>3, <1>4
<1> QED BY <1>1, <1>3, <1>5, SeqEqual

LEMMA ShortLists ==
  /\ IsList(<< >>) /\ ToSet(<< >>) = {}
  /\ \A e : IsList(<< e >>) /\ ToSet(<< e >>) = {e}
  /\ \A e, f : IsList(<< e, f >>) /\ ToSet(<< e, f >>) = {e, f}
  /\ \A e, f, g : IsList(<< e, f, g >>) /\ ToSet(<< e, f, g >>) = {e, f, g}
<1>1. << >> \in Seq({}) /\ ToSet(<< >>) = {}
  BY DEF ToSet
<1>2. \A e : << e >> \in Seq({e}) /\ ToSet(<< e >>) = {e}
  BY DEF ToSet
<1>3. \A e, f : << e, f >> \in Seq({e, f}) /\ ToSet(<< e, f >>) = {e, f}
  BY DEF ToSet
<1>4. \A e, f, g : << e, f, g >> \in Seq({e, f, g}) /\ ToSet(<< e, f, g >>) = {e, f, g}
  BY DEF ToSet
<1> QED BY <1>1, <1>2, <1>3, <1>4, AList
-----------------------------------------------------------------------------
(* What requests set out to do.                                             *)

\* A statement that leaves sessions and accounts at providers alone.
Harmless(s) == s.do \notin {"mint", "revoke", "revokeAll", "first", "link", "point"}

\* Nor does it write a whole row, or ask for a password to be reset.
Inert(s) == Harmless(s) /\ s.do \notin {"save", "insert", "flip", "reset"}

HarmlessList(todo) == IsList(todo) /\ \A s \in ToSet(todo) : Inert(s)

\* A renewal is asked for with a token that is alive.
Renews(s) ==
  s.do = "mint" /\ s.from # 0 =>
    token[s.from].live /\ token[s.from].owner = s.u /\ token[s.from].kind = s.kind

Proper(todo) ==
  /\ IsList(todo) /\ Single(todo) /\ OfOneUser(todo)
  /\ \A s \in ToSet(todo) : Fits(s) /\ Renews(s) /\ MayJoin(s)

\* What a request may set out to do: a row is saved with its password, or with a new
\* one by a request that ends the sessions.
Saving(todo) == SavesFirst(todo) /\ \A s \in ToSet(todo) : WellMade(s)
Startable(todo) == Proper(todo) /\ Saving(todo) /\ SavesWell(todo)

Arrives(c) == \E todo : Startable(todo) /\ Begin(c, todo)

\* A list of which that is true as well.
NoSave(todo) == IsList(todo) /\ \A s \in ToSet(todo) : s.do \notin {"save", "insert", "flip", "reset"}

LEMMA NoSaveIsWell ==
  ASSUME NEW todo, NoSave(todo)
  PROVE  Saving(todo) /\ SavesWell(todo)
<1>1. todo # << >> => Head(todo) \in ToSet(todo) /\ ToSet(Tail(todo)) \subseteq ToSet(todo)
  BY TailOfList DEF NoSave
<1> QED BY <1>1 DEF NoSave, Saving, SavesFirst, SavesWell, WellMade, Rewrites

\* A proper list without statements about accounts at providers.
Sound(todo) ==
  IsList(todo) /\ Single(todo) /\ \A s \in ToSet(todo) : Fits(s) /\ Renews(s) /\ ~ Joins(s)

LEMMA SoundIsProper ==
  ASSUME NEW todo, Sound(todo)
  PROVE  Proper(todo) /\ (NoSave(todo) => Startable(todo))
<1>1. OfOneUser(todo)
  BY TailOfList DEF Sound, OfOneUser, Joins, LinkAtKKU
<1>2. Proper(todo)
  BY <1>1 DEF Sound, Proper, Joins, MayJoin
<1> QED BY <1>2, NoSaveIsWell DEF Startable

LEMMA HarmlessIsProper ==
  ASSUME NEW todo, HarmlessList(todo)
  PROVE  Startable(todo)
<1>1. Sound(todo)
  BY DEF HarmlessList, Inert, Harmless, Sound, Single, Fits, Renews, Joins
<1>2. NoSave(todo)
  BY DEF HarmlessList, Inert, NoSave
<1> QED BY <1>1, <1>2, SoundIsProper

\* Somebody signs in, after statements that leave sessions alone.
LEMMA SigningInIsSound ==
  ASSUME NEW todo, NEW more, HarmlessList(todo), NEW u \in Users, NEW start \in {now, Unset},
         more \in {Append(todo, Mint(u, "u", start, 0)), todo \o << Mint(u, "u", start, 0) >>}
  PROVE  Startable(more)
<1> DEFINE m == Mint(u, "u", start, 0)
<1>1. IsList(<< m >>) /\ ToSet(<< m >>) = {m}
  BY ShortLists
<1>2. IsList(more) /\ ToSet(more) = ToSet(todo) \cup {m}
  <2>1. IsList(todo)
    BY DEF HarmlessList
  <2>2. CASE more = Append(todo, m)
    BY <2>1, <2>2, AppendToList
  <2>3. CASE more = todo \o << m >>
    BY <1>1, <2>1, <2>3, ConcatOfLists
  <2> QED BY <2>2, <2>3
<1>3. m.do = "mint" /\ m.kind = "u" /\ m.u = u /\ m.from = 0 /\ m.start = start
  BY DEF Mint
<1> HIDE DEF m
<1>4. Sound(more)
  BY <1>2, <1>3 DEF HarmlessList, Inert, Harmless, Sound, Single, Fits, Renews, Joins
<1>5. NoSave(more)
  BY <1>2, <1>3 DEF HarmlessList, Inert, NoSave
<1> QED BY <1>4, <1>5, SoundIsProper

LEMMA PlainStatements ==
  /\ \A u : Inert(DropResets(u))
  /\ \A u, s, codes : Inert(Store(u, s, codes)) /\ Inert(StoreCodes(u, codes, s))
  /\ \A u, m : Inert(DropPending(u, m)) /\ Inert(AddPending(u, m)) /\ Inert(SetGoogle(u, m))
  /\ \A r : Inert(MarkUsed(r)) /\ Inert(DropLink(r))
<1>1. \A u : Inert(DropResets(u))
  BY DEF Inert, Harmless, DropResets
<1>2. \A u, s, codes : Inert(Store(u, s, codes)) /\ Inert(StoreCodes(u, codes, s))
  BY DEF Inert, Harmless, Store, StoreCodes
<1>3. \A u, m : Inert(DropPending(u, m)) /\ Inert(AddPending(u, m)) /\ Inert(SetGoogle(u, m))
  BY DEF Inert, Harmless, DropPending, AddPending, SetGoogle
<1>4. \A r : Inert(MarkUsed(r)) /\ Inert(DropLink(r))
  BY DEF Inert, Harmless, MarkUsed, DropLink
<1> QED BY <1>1, <1>2, <1>3, <1>4

LEMMA HarmlessLists ==
  /\ HarmlessList(<< >>)
  /\ \A e : Inert(e) => HarmlessList(<< e >>)
  /\ \A e, f : Inert(e) /\ Inert(f) => HarmlessList(<< e, f >>)
BY ShortLists DEF HarmlessList

LEMMA HarmlessConcat ==
  ASSUME NEW x, NEW y, HarmlessList(x), HarmlessList(y)
  PROVE  HarmlessList(x \o y)
BY ConcatOfLists DEF HarmlessList

LEMMA HarmlessAppend ==
  ASSUME NEW x, NEW e, HarmlessList(x), Inert(e)
  PROVE  HarmlessList(Append(x, e))
BY AppendToList DEF HarmlessList

LEMMA AcceptingIsHarmless ==
  ASSUME NEW u, NEW todo \in Accepting(u)
  PROVE  HarmlessList(todo)
BY HarmlessLists, PlainStatements DEF Accepting

LEMMA SessionRequests ==
  ASSUME AccountsInv, NEW c, SessionRequest(c)
  PROVE  Arrives(c)
<1>1. ASSUME Login(c) PROVE Arrives(c)
  <2>1. PICK u \in Users : Begin(c, << SignIn(u) >>)
    BY <1>1 DEF Login
  <2> DEFINE m == Mint(u, "u", now, 0)
  <2>2. m.do = "mint" /\ m.kind = "u" /\ m.u = u /\ m.from = 0 /\ m.start = now
    BY DEF Mint
  <2> HIDE DEF m
  <2>3. Sound(<< m >>) /\ NoSave(<< m >>)
    BY <2>2, ShortLists DEF Sound, Single, Fits, Renews, Joins, NoSave
  <2> QED BY <2>1, <2>3, SoundIsProper DEF Arrives, SignIn, m
<1>2. ASSUME RefreshHandler(c) PROVE Arrives(c)
  <2>1. PICK j \in DOMAIN token :
          /\ Valid(j)
          /\ IF now - SessionStart(j) >= Cap
             THEN Begin(c, << Revoke(j) >>)
             ELSE Begin(c, << Revoke(j), Mint(token[j].owner, token[j].kind, Renewed(j), j) >>)
    BY <1>2 DEF RefreshHandler
  <2>2. /\ j \in 1 .. Len(token) /\ token[j] \in Tok /\ now \in Nat /\ token[j].live /\ j # 0
        /\ SessionStart(j) \in Nat
    <3>1. token \in Seq(Tok) /\ now \in Nat
      BY DEF AccountsInv, TokensKept
    <3>2. j \in 1 .. Len(token) /\ token[j] \in Tok
      BY <2>1, <3>1, LenProperties, ElementOfSeq
    <3>3. SessionStart(j) \in Nat
      BY <3>2 DEF SessionStart, Tok
    <3> QED BY <2>1, <3>1, <3>2, <3>3 DEF Valid
  <2>3. token[j].kind = "u" => token[j].owner \in Users
    BY <2>2 DEF AccountsInv, TokensKept
  <2> DEFINE r == Revoke(j)
             m == Mint(token[j].owner, token[j].kind, Renewed(j), j)
  <2>4. r.do = "revoke" /\ r.j = j
    BY DEF Revoke
  <2>5. /\ m.do = "mint" /\ m.kind = token[j].kind /\ m.u = token[j].owner
        /\ m.from = j /\ m.start = SessionStart(j)
    BY DEF Mint, Renewed
  <2> HIDE DEF r, m
  <2>6. Fits(r) /\ Renews(r)
    BY <2>2, <2>4 DEF Fits, Renews
  <2>7. CASE now - SessionStart(j) >= Cap
    <3>1. Sound(<< r >>) /\ NoSave(<< r >>)
      BY <2>4, <2>6, ShortLists DEF Sound, Single, Joins, NoSave
    <3> QED BY <2>1, <2>7, <3>1, SoundIsProper DEF Arrives, r
  <2>8. CASE ~ (now - SessionStart(j) >= Cap)
    <3>1. now < SessionStart(j) + Cap
      BY <2>2, <2>8, AccountsAssumption
    <3>2. Fits(m) /\ Renews(m)
      BY <2>2, <2>3, <2>5, <3>1 DEF Fits, Renews, Tok
    <3>3. Sound(<< r, m >>) /\ NoSave(<< r, m >>)
      BY <2>4, <2>5, <2>6, <3>2, ShortLists DEF Sound, Single, Joins, NoSave
    <3> QED BY <2>1, <2>8, <3>3, SoundIsProper DEF Arrives, r, m
  <2> QED BY <2>7, <2>8
<1> QED BY <1>1, <1>2 DEF SessionRequest


LEMMA SaveStatements ==
  /\ \A u, row : Save(u, row).do = "save" /\ Save(u, row).u = u /\ Save(u, row).row = row
  /\ \A u, row : Insert(u, row).do = "insert" /\ Insert(u, row).u = u /\ Insert(u, row).row = row
  /\ \A u : Flip(u).do = "flip" /\ Flip(u).u = u
  /\ \A u : RevokeAll(u).do = "revokeAll" /\ RevokeAll(u).u = u
  /\ \A r : MarkUsed(r).do = "mark"
BY DEF Save, Insert, Flip, RevokeAll, MarkUsed

LEMMA HeadAndTail ==
  /\ \A e : << e >> # << >> /\ Head(<< e >>) = e /\ Tail(<< e >>) = << >>
  /\ \A e, f : << e, f >> # << >> /\ Head(<< e, f >>) = e /\ Tail(<< e, f >>) = << f >>
  /\ \A e, f, g : << e, f, g >> # << >> /\ Head(<< e, f, g >>) = e /\ Tail(<< e, f, g >>) = << f, g >>
OBVIOUS

\* A list that may write a row first, and flip one or end sessions after that.
LEMMA WritingIsProper ==
  ASSUME NEW todo, IsList(todo),
         \A s \in ToSet(todo) : s.do \in {"save", "insert", "flip", "mark", "revokeAll", "unreset", "reset"} /\ WellMade(s),
         SavesFirst(todo)
  PROVE  Proper(todo) /\ Saving(todo)
<1>1. Sound(todo)
  BY DEF Sound, Single, Fits, Renews, Joins
<1> QED BY <1>1, SoundIsProper DEF Saving

LEMMA OneSave ==
  ASSUME NEW u \in Users, NEW row, "password" \in DOMAIN row
  PROVE  /\ Proper(<< Save(u, row) >>) /\ Saving(<< Save(u, row) >>)
         /\ row.password = user[u].password => Startable(<< Save(u, row) >>)
         /\ Startable(<< Insert(u, row) >>)
<1> DEFINE e == Save(u, row)
           f == Insert(u, row)
<1>1. /\ e.do = "save" /\ e.u = u /\ e.row = row
      /\ f.do = "insert" /\ f.u = u /\ f.row = row
  BY SaveStatements
<1> HIDE DEF e, f
<1>2. SavesFirst(<< e >>) /\ SavesFirst(<< f >>)
  BY HeadAndTail, ShortLists DEF SavesFirst
<1>3. WellMade(e) /\ WellMade(f)
  BY <1>1 DEF WellMade
<1>4. /\ Proper(<< e >>) /\ Saving(<< e >>)
      /\ Proper(<< f >>) /\ Saving(<< f >>)
  BY <1>1, <1>2, <1>3, WritingIsProper, ShortLists
<1>5. row.password = user[u].password => SavesWell(<< e >>)
  BY <1>1, HeadAndTail DEF SavesWell
<1>6. SavesWell(<< f >>)
  BY <1>1, HeadAndTail DEF SavesWell
<1> QED BY <1>4, <1>5, <1>6 DEF Startable, e, f

LEMMA Flipping ==
  ASSUME NEW u \in Users
  PROVE  /\ Startable(<< Flip(u) >>)
         /\ \A v \in Users : \A row : "password" \in DOMAIN row /\ row.password = user[v].password
                               => Startable(<< Save(v, row), Flip(u) >>)
<1> DEFINE f == Flip(u)
<1>1. f.do = "flip" /\ f.u = u
  BY SaveStatements
<1> HIDE DEF f
<1>2. WellMade(f) /\ ~ Rewrites(f)
  BY <1>1 DEF WellMade, Rewrites
<1>3. Startable(<< f >>)
  <2>1. SavesFirst(<< f >>)
    BY HeadAndTail, ShortLists DEF SavesFirst
  <2>2. Proper(<< f >>) /\ Saving(<< f >>)
    BY <1>1, <1>2, <2>1, WritingIsProper, ShortLists
  <2>3. SavesWell(<< f >>)
    BY <1>1, HeadAndTail DEF SavesWell
  <2> QED BY <2>2, <2>3 DEF Startable
<1>4. ASSUME NEW v \in Users, NEW row, "password" \in DOMAIN row, row.password = user[v].password
      PROVE  Startable(<< Save(v, row), f >>)
  <2> DEFINE e == Save(v, row)
  <2>1. e.do = "save" /\ e.u = v /\ e.row = row
    BY SaveStatements
  <2> HIDE DEF e
  <2>2. SavesFirst(<< e, f >>)
    BY <1>2, HeadAndTail, ShortLists DEF SavesFirst
  <2>3. WellMade(e)
    BY <1>4, <2>1 DEF WellMade
  <2>4. Proper(<< e, f >>) /\ Saving(<< e, f >>)
    BY <1>1, <1>2, <2>1, <2>2, <2>3, WritingIsProper, ShortLists
  <2>5. SavesWell(<< e, f >>)
    BY <1>4, <2>1, HeadAndTail DEF SavesWell
  <2> QED BY <2>4, <2>5 DEF Startable, e
<1> QED BY <1>3, <1>4 DEF f

LEMMA Changing ==
  ASSUME NEW u \in Users, NEW row, "password" \in DOMAIN row
  PROVE  /\ Startable(<< Save(u, row), RevokeAll(u) >>)
         /\ \A r : Startable(<< Save(u, row), MarkUsed(r), RevokeAll(u) >>)
<1> DEFINE e == Save(u, row)
           g == RevokeAll(u)
<1>1. e.do = "save" /\ e.u = u /\ e.row = row /\ g.do = "revokeAll"
  BY SaveStatements
<1>2. ASSUME NEW r
      PROVE  ChangeList(<< e, g >>, u) /\ ChangeList(<< e, MarkUsed(r), g >>, u)
  BY DEF ChangeList
<1> HIDE DEF e, g
<1>3. WellMade(e) /\ WellMade(g) /\ ~ Rewrites(g)
  BY <1>1 DEF WellMade, Rewrites
<1>4. Startable(<< e, g >>)
  <2>1. SavesFirst(<< e, g >>)
    BY <1>3, HeadAndTail, ShortLists DEF SavesFirst
  <2>2. Proper(<< e, g >>) /\ Saving(<< e, g >>)
    BY <1>1, <1>3, <2>1, WritingIsProper, ShortLists
  <2>3. SavesWell(<< e, g >>)
    BY <1>1, <1>2, HeadAndTail DEF SavesWell
  <2> QED BY <2>2, <2>3 DEF Startable
<1>5. ASSUME NEW r PROVE Startable(<< e, MarkUsed(r), g >>)
  <2> DEFINE f == MarkUsed(r)
  <2>1. f.do = "mark"
    BY SaveStatements
  <2>2. ChangeList(<< e, f, g >>, u)
    BY <1>2
  <2> HIDE DEF f
  <2>3. WellMade(f) /\ ~ Rewrites(f)
    BY <2>1 DEF WellMade, Rewrites
  <2>4. SavesFirst(<< e, f, g >>)
    BY <1>3, <2>3, HeadAndTail, ShortLists DEF SavesFirst
  <2>5. Proper(<< e, f, g >>) /\ Saving(<< e, f, g >>)
    BY <1>1, <1>3, <2>1, <2>3, <2>4, WritingIsProper, ShortLists
  <2>6. SavesWell(<< e, f, g >>)
    BY <1>1, <2>2, HeadAndTail DEF SavesWell
  <2> QED BY <2>5, <2>6 DEF Startable, f
<1> QED BY <1>4, <1>5 DEF e, g

\* A column of a row changes, its password stays.
LEMMA ColumnsOfRows ==
  ASSUME UserRows, NEW u \in Users, Present(u)
  PROVE  /\ "password" \in DOMAIN user[u]
         /\ \A e : LET row == [user[u] EXCEPT !.email = e]
                  IN  "password" \in DOMAIN row /\ row.password = user[u].password
         /\ \A b : LET row == [user[u] EXCEPT !.active = b]
                  IN  "password" \in DOMAIN row /\ row.password = user[u].password
         /\ \A p : "password" \in DOMAIN WithPassword(u, p)
<1>1. "password" \in DOMAIN user[u]
  BY DEF UserRows, Present
<1> QED BY <1>1 DEF WithPassword

LEMMA PasswordRequests ==
  ASSUME UserRows, ResetsHaveUsers, NEW c, PasswordRequest(c) \/ UpdateProfileHandler(c)
  PROVE  Arrives(c)
<1>1. ASSUME ChangePassword(c) \/ ForceChangePassword(c) PROVE Arrives(c)
  <2>1. PICK u \in Users, p \in Passwords :
          Present(u) /\ Begin(c, << Save(u, WithPassword(u, p)), RevokeAll(u) >>)
    BY <1>1 DEF ChangePassword, ForceChangePassword
  <2>2. "password" \in DOMAIN WithPassword(u, p)
    BY <2>1, ColumnsOfRows
  <2> QED BY <2>1, <2>2, Changing DEF Arrives
<1>2. ASSUME ForgotPasswordHandler(c) PROVE Arrives(c)
  <2>1. PICK u \in Users : Begin(c, << DropResets(u), AddReset(u) >>)
    BY <1>2 DEF ForgotPasswordHandler
  <2> DEFINE e == DropResets(u)
             f == AddReset(u)
  <2>2. e.do = "unreset" /\ f.do = "reset" /\ f.u = u
    BY DEF DropResets, AddReset
  <2> HIDE DEF e, f
  <2>3. WellMade(e) /\ WellMade(f) /\ ~ Rewrites(f)
    BY <2>2 DEF WellMade, Rewrites
  <2>4. SavesFirst(<< e, f >>)
    BY <2>3, HeadAndTail, ShortLists DEF SavesFirst
  <2>5. Proper(<< e, f >>) /\ Saving(<< e, f >>)
    BY <2>2, <2>3, <2>4, WritingIsProper, ShortLists
  <2>6. SavesWell(<< e, f >>)
    BY <2>2, HeadAndTail DEF SavesWell
  <2> QED BY <2>1, <2>5, <2>6 DEF Arrives, Startable, e, f
<1>3. ASSUME ResetPasswordHandler(c) PROVE Arrives(c)
  <2>1. PICK r \in reset, p \in Passwords :
          Active(r.u) /\ Begin(c, << Save(r.u, WithPassword(r.u, p)), MarkUsed(r), RevokeAll(r.u) >>)
    BY <1>3 DEF ResetPasswordHandler
  <2>2. r.u \in Users
    BY <2>1 DEF ResetsHaveUsers
  <2>3. "password" \in DOMAIN WithPassword(r.u, p)
    BY <2>1, <2>2, ColumnsOfRows DEF Active
  <2> QED BY <2>1, <2>2, <2>3, Changing DEF Arrives
<1>4. ASSUME SaveAsRead(c) PROVE Arrives(c)
  <2>1. PICK u \in Users : Present(u) /\ Begin(c, << Save(u, user[u]) >>)
    BY <1>4 DEF SaveAsRead
  <2> QED BY <2>1, OneSave, ColumnsOfRows DEF Arrives
<1>5. ASSUME UpdateProfileHandler(c) PROVE Arrives(c)
  <2>1. PICK u \in Users, e \in Emails :
          Present(u) /\ Begin(c, << Save(u, [user[u] EXCEPT !.email = e]) >>)
    BY <1>5 DEF UpdateProfileHandler
  <2> QED BY <2>1, OneSave, ColumnsOfRows DEF Arrives
<1> QED BY <1>1, <1>2, <1>3, <1>4, <1>5
        DEF PasswordRequest, UpdatePreferencesHandler, UploadAvatarHandler, RemoveAvatarHandler

LEMMA FactorRequests ==
  ASSUME NEW c, FactorRequest(c)
  PROVE  Arrives(c)
<1>1. ASSUME VerifyLoginWith2FA(c) \/ VerifyStepUpChallenge(c) PROVE Arrives(c)
  <2>1. PICK u \in Users : \E todo \in Accepting(u) : Begin(c, todo)
    BY <1>1 DEF VerifyLoginWith2FA, VerifyStepUpChallenge
  <2> QED BY <2>1, AcceptingIsHarmless, HarmlessIsProper DEF Arrives
<1>2. ASSUME CompleteTwoFALogin(c) PROVE Arrives(c)
  <2>1. PICK u \in Users : \E todo \in Accepting(u) : Begin(c, Append(todo, Mint(u, "u", Unset, 0)))
    BY <1>2 DEF CompleteTwoFALogin
  <2>0. PICK todo \in Accepting(u) : Begin(c, Append(todo, Mint(u, "u", Unset, 0)))
    BY <2>1
  <2>2. HarmlessList(todo)
    BY AcceptingIsHarmless
  <2>3. Startable(Append(todo, Mint(u, "u", Unset, 0)))
    BY <2>2, SigningInIsSound
  <2> QED BY <2>0, <2>3 DEF Arrives
<1>3. ASSUME SendLoginCode(c) \/ RequestStepUpChallenge(c) \/ Setup2FA(c) PROVE Arrives(c)
  <2>1. \E u, m : Begin(c, << DropPending(u, m), AddPending(u, m) >>)
    BY <1>3 DEF SendLoginCode, RequestStepUpChallenge, Setup2FA, SendCode
  <2> QED BY <2>1, HarmlessLists, HarmlessIsProper, PlainStatements DEF Arrives
<1>4. ASSUME Verify2FA(c) PROVE Arrives(c)
  <2>1. \E u, m, codes : Begin(c, << Store(u, m, codes), DropPending(u, m) >>)
    BY <1>4 DEF Verify2FA
  <2> QED BY <2>1, HarmlessLists, HarmlessIsProper, PlainStatements DEF Arrives
<1>5. ASSUME Resend2FAEmail(c) PROVE Arrives(c)
  <2>1. \E u : Begin(c, << AddPending(u, "email") >>)
    BY <1>5 DEF Resend2FAEmail
  <2> QED BY <2>1, HarmlessLists, HarmlessIsProper, PlainStatements DEF Arrives
<1>6. ASSUME Disable2FA(c) PROVE Arrives(c)
  <2>0. PICK u \in Users : \E todo \in Accepting(u) : Begin(c, Append(todo, Store(u, "off", {})))
    BY <1>6 DEF Disable2FA
  <2>1. PICK todo \in Accepting(u) : Begin(c, Append(todo, Store(u, "off", {})))
    BY <2>0
  <2>2. HarmlessList(Append(todo, Store(u, "off", {})))
    BY AcceptingIsHarmless, HarmlessAppend, PlainStatements
  <2> QED BY <2>1, <2>2, HarmlessIsProper DEF Arrives
<1>7. ASSUME RegenerateBackupCodes(c) PROVE Arrives(c)
  <2>1. \E u, codes : Begin(c, << StoreCodes(u, codes, 0) >>)
    BY <1>7 DEF RegenerateBackupCodes
  <2> QED BY <2>1, HarmlessLists, HarmlessIsProper, PlainStatements DEF Arrives
<1> QED BY <1>1, <1>2, <1>3, <1>4, <1>5, <1>6, <1>7 DEF FactorRequest

LEMMA LeastNumber ==
  ASSUME NEW T, T \subseteq Nat, T # {}
  PROVE  \E x \in T : \A y \in T : x <= y
<1>1. PICK R : R = OpToRel(<, Nat)
  OBVIOUS
<1>2. IsWellFoundedOn(R, Nat)
  BY <1>1, NatLessThanWellFounded
<1>3. \A x, y \in Nat : y < x => << y, x >> \in R
  BY <1>1 DEF OpToRel
<1>4. PICK x \in T : \A y \in T : ~ (<< y, x >> \in R)
  BY <1>2, WFMin
<1>5. ASSUME NEW y \in T PROVE x <= y
  <2>1. x \in Nat /\ y \in Nat /\ ~ (y < x)
    BY <1>3, <1>4
  <2> QED BY <2>1
<1> QED BY <1>5

LEMMA LeastUser ==
  ASSUME NEW T, T \subseteq Users, T # {}
  PROVE  Min(T) \in T
<1>1. T \subseteq Nat
  BY AccountsAssumption
<1>2. \E x \in T : \A y \in T : x <= y
  BY <1>1, LeastNumber
<1> QED BY <1>2 DEF Min

LEMMA AdminRequests ==
  ASSUME UserRows, NEW c, AdminRequest(c)
  PROVE  Arrives(c)
<1>1. ASSUME CreateUserHandler(c) PROVE Arrives(c)
  <2>1. PICK u \in Users, name \in Names, email \in Emails, active \in BOOLEAN, p \in Passwords :
          Begin(c, << Insert(u, NewUser(name, email, active, p)) >>)
    BY <1>1 DEF CreateUserHandler
  <2>2. "password" \in DOMAIN NewUser(name, email, active, p)
    BY DEF NewUser
  <2> QED BY <2>1, <2>2, OneSave DEF Arrives
<1>2. ASSUME ToggleUserStatus(c) PROVE Arrives(c)
  <2>1. PICK u \in Users :
          /\ Present(u)
          /\ IF user[u].active \/ Conflicts(u) = {} THEN Begin(c, << Flip(u) >>)
             ELSE LET v == Min(Conflicts(u))
                  IN  Begin(c, << Save(v, [user[v] EXCEPT !.active = FALSE]), Flip(u) >>)
    BY <1>2 DEF ToggleUserStatus
  <2>2. CASE user[u].active \/ Conflicts(u) = {}
    BY <2>1, <2>2, Flipping DEF Arrives
  <2>3. CASE ~ (user[u].active \/ Conflicts(u) = {})
    <3>1. PICK v : v = Min(Conflicts(u))
      OBVIOUS
    <3>2. Conflicts(u) \subseteq {w \in Users : Present(w)}
      BY DEF Conflicts, Active
    <3>3. v \in Conflicts(u)
      BY <2>3, <3>1, <3>2, LeastUser
    <3>4. v \in Users /\ Present(v)
      BY <3>2, <3>3
    <3> DEFINE row == [user[v] EXCEPT !.active = FALSE]
    <3>5. "password" \in DOMAIN row /\ row.password = user[v].password
      BY <3>4, ColumnsOfRows
    <3>6. Begin(c, << Save(v, row), Flip(u) >>)
      BY <2>1, <2>3, <3>1
    <3> HIDE DEF row
    <3> QED BY <3>4, <3>5, <3>6, Flipping DEF Arrives
  <2> QED BY <2>2, <2>3
<1> QED BY <1>1, <1>2 DEF AdminRequest

\* An administrator's edit of a user may save another password.
LEMMA EditIsProper ==
  ASSUME UserRows, NEW c, UpdateUserHandler(c)
  PROVE  \E todo : Proper(todo) /\ Saving(todo) /\ Begin(c, todo)
<1>1. PICK u \in Users, name \in Names, email \in Emails, active \in BOOLEAN, p \in Passwords :
        /\ Present(u)
        /\ Begin(c, << Save(u, [user[u] EXCEPT !.name = name, !.email = email,
                                               !.active = active, !.password = p]) >>)
  BY DEF UpdateUserHandler
<1> DEFINE row == [user[u] EXCEPT !.name = name, !.email = email, !.active = active, !.password = p]
<1>2. "password" \in DOMAIN row
  BY <1>1, ColumnsOfRows
<1> HIDE DEF row
<1> QED BY <1>1, <1>2, OneSave DEF row

LEMMA StudentsSignIn ==
  ASSUME NEW c, StudentSignIn(c)
  PROVE  Arrives(c)
<1>1. PICK s \in Students : Begin(c, << Mint(s, "s", now, 0) >>)
  BY DEF StudentSignIn
<1> DEFINE m == Mint(s, "s", now, 0)
<1>2. m.do = "mint" /\ m.kind = "s" /\ m.u = s /\ m.from = 0 /\ m.start = now
  BY DEF Mint
<1> HIDE DEF m
<1>3. Sound(<< m >>) /\ NoSave(<< m >>)
  BY <1>2, ShortLists DEF Sound, Single, Fits, Renews, Joins, NoSave
<1> QED BY <1>1, <1>3, SoundIsProper DEF Arrives, m

-----------------------------------------------------------------------------
(* What requests about accounts at providers set out to do.                 *)

LEMMA FirstIsThere ==
  ASSUME Rows, NEW rows, rows \subseteq link, rows # {}
  PROVE  First(rows) \in rows
<1> DEFINE T == {r.id : r \in rows}
<1>1. T \subseteq Nat /\ T # {}
  BY DEF Rows
<1>2. PICK x \in T : \A y \in T : x <= y
  BY <1>1, LeastNumber
<1>3. \E r \in rows : \A q \in rows : r.id <= q.id
  BY <1>2
<1> QED BY <1>3 DEF First

\* Who may link an account is the only one who has it.
LEMMA MayLinkIsOwn ==
  ASSUME LinksInv, NEW u, NEW i, MayLink(u, i)
  PROVE  Own(u, i.provider, i.pid)
<1> DEFINE rows == With(i.provider, i.pid)
<1>1. \A r \in rows : r \in link /\ r.provider = i.provider /\ r.pid = i.pid
  BY DEF With
<1>2. CASE rows = {}
  BY <1>2 DEF Own
<1>3. CASE rows # {}
  <2>1. First(rows) \in rows
    BY <1>1, <1>3, FirstIsThere DEF LinksInv
  <2>2. First(rows).u = u
    BY <2>1 DEF MayLink
  <2> HIDE DEF rows
  <2>3. \A r \in rows : r.u = u \/ Excused(i.pid)
    BY <1>1, <2>1, <2>2 DEF LinksInv, OneUser
  <2> QED BY <2>3 DEF Own, rows
<1> QED BY <1>2, <1>3

\* Statements about the accounts of one user that rely on what holds now.
JoinsFor(u, s) ==
  /\ Inert(s) \/ (Joins(s) /\ s.u = u /\ MayJoin(s))
  /\ ~ LinkAtKKU(s)

JoinList(u, todo) == IsList(todo) /\ \A s \in ToSet(todo) : JoinsFor(u, s)

LEMMA HarmlessJoins ==
  ASSUME NEW u, NEW todo, HarmlessList(todo)
  PROVE  JoinList(u, todo)
BY DEF HarmlessList, JoinList, JoinsFor, Inert, Harmless, LinkAtKKU

LEMMA JoinConcat ==
  ASSUME NEW u, NEW x, NEW y, JoinList(u, x), JoinList(u, y)
  PROVE  JoinList(u, x \o y)
BY ConcatOfLists DEF JoinList

LEMMA JoiningOne ==
  ASSUME NEW u, NEW s, JoinsFor(u, s)
  PROVE  JoinList(u, << s >>)
BY ShortLists DEF JoinList

\* Such a list may be started, with or without a sign-in at its end.
LEMMA JoinIsProper ==
  ASSUME NEW u \in Users, NEW todo, JoinList(u, todo)
  PROVE  Startable(todo) /\ Startable(todo \o << SignIn(u) >>)
<1> DEFINE m == Mint(u, "u", now, 0)
           more == todo \o << m >>
<1>1. m.do = "mint" /\ m.kind = "u" /\ m.u = u /\ m.from = 0 /\ m.start = now
  BY DEF Mint
<1>2. more = todo \o << SignIn(u) >>
  BY DEF SignIn
<1> HIDE DEF m
<1>3. IsList(todo) /\ IsList(more) /\ ToSet(more) = ToSet(todo) \cup {m}
  BY ConcatOfLists, ShortLists DEF JoinList
<1> HIDE DEF more
<1>4. ASSUME NEW x \in {todo, more} PROVE Startable(x)
  <2>1. IsList(x) /\ \A s \in ToSet(x) : JoinsFor(u, s) \/ s = m
    BY <1>3 DEF JoinList
  <2>2. \A s \in ToSet(x) : Fits(s) /\ Renews(s) /\ MayJoin(s) /\ s.do # "revokeAll"
                            /\ (Joins(s) => s.u = u) /\ ~ LinkAtKKU(s)
    BY <1>1, <2>1 DEF JoinsFor, Inert, Harmless, Joins, Fits, Renews, MayJoin, LinkAtKKU
  <2>3. OfOneUser(x)
    BY <2>1, <2>2, TailOfList DEF OfOneUser
  <2>4. NoSave(x)
    BY <1>1, <2>1 DEF JoinsFor, Inert, Joins, NoSave
  <2> QED BY <2>1, <2>2, <2>3, <2>4, NoSaveIsWell DEF Proper, Single, Startable
<1> QED BY <1>2, <1>4

\* A person found at a provider, and what finding them still has to write.
FoundWell(f) == f.u \in Users /\ JoinList(f.u, f.todo)

LEMMA UpsertingJoins ==
  ASSUME NEW u, NEW provider, NEW pid, Own(u, provider, pid)
  PROVE  JoinList(u, << Upserting(u, provider, pid) >>)
<1> DEFINE s == Upserting(u, provider, pid)
<1>1. /\ s.do = (IF provider = "kku" THEN "first" ELSE "link")
      /\ s.u = u /\ s.provider = provider /\ s.pid = pid
  BY DEF Upserting, FirstOrCreate, AddLink
<1> HIDE DEF s
<1>2. JoinsFor(u, s)
  BY <1>1 DEF JoinsFor, Joins, MayJoin, LinkAtKKU
<1> QED BY <1>2, JoiningOne DEF s

LEMMA UpsertJoins ==
  ASSUME LinksInv, NEW u, NEW i
  PROVE  JoinList(u, Upsert(u, i))
<1>1. CASE MayLink(u, i)
  BY <1>1, MayLinkIsOwn, UpsertingJoins DEF Upsert
<1>2. CASE ~ MayLink(u, i)
  BY <1>2, HarmlessLists, HarmlessJoins DEF Upsert
<1> QED BY <1>1, <1>2

\* A row is pointed at an account that nobody else has.
LEMMA PointJoins ==
  ASSUME LinksInv, NEW r \in link, NEW pid, Own(r.u, r.provider, pid)
  PROVE  JoinList(r.u, << Point(r, pid) >>)
<1> DEFINE s == Point(r, pid)
<1>1. s.do = "point" /\ s.u = r.u /\ s.id = r.id /\ s.pid = pid
  BY DEF Point
<1> HIDE DEF s
<1>2. s.id \in Nat /\ s.id < nextLink /\ \A q \in link : q.id = s.id => q = r
  BY <1>1 DEF LinksInv, Rows
<1>3. JoinsFor(r.u, s)
  BY <1>1, <1>2 DEF JoinsFor, Joins, MayJoin, LinkAtKKU
<1> QED BY <1>3, JoiningOne DEF s

LEMMA FindsUsers ==
  ASSUME LinksHaveUsers, LinksInv, NEW i, NEW f \in FindUser(i), i.provider \in Providers
  PROVE  FoundWell(f)
<1>1. \A u \in Users : \A todo : JoinList(u, todo) => FoundWell(Found(u, todo))
  BY DEF FoundWell, Found
<1>2. \A provider, pid : \A r \in ByRow(provider, pid) :
        r \in link /\ r.provider = provider /\ r.u \in Users /\ r = First(With(provider, pid)) /\ Present(r.u)
  BY DEF ByRow, With, LinksHaveUsers
<1>3. \A u : JoinList(u, << >>)
  BY HarmlessLists, HarmlessJoins
<1>4. ASSUME f \in ByLink(i) PROVE FoundWell(f)
  <2>1. CASE With(i.provider, i.pid) # {}
    <3>1. PICK r \in ByRow(i.provider, i.pid) : f = Found(r.u, << >>)
      BY <1>4, <2>1 DEF ByLink
    <3> QED BY <1>1, <1>2, <1>3, <3>1
  <2>2. CASE With(i.provider, i.pid) = {}
    <3>1. PICK r \in ByRow(i.provider, Mail(i.email)) : f = Found(r.u, << Point(r, i.pid) >>)
      BY <1>4, <2>2 DEF ByLink
    <3>2. Own(r.u, r.provider, i.pid)
      BY <1>2, <2>2, <3>1 DEF Own
    <3> QED BY <1>1, <1>2, <3>1, <3>2, PointJoins
  <2> QED BY <2>1, <2>2
<1>5. ASSUME f \in ByGoogle(i) PROVE FoundWell(f)
  <2>1. \/ \E u \in Users : f = Found(u, Upsert(u, i))
        \/ \E u \in Users : f = Found(u, (IF user[u].google = Unset THEN << SetGoogle(u, i.pid) >>
                                         ELSE << >>) \o Upsert(u, i))
    BY <1>5 DEF ByGoogle, Lowest
  <2>2. ASSUME NEW u \in Users
        PROVE  /\ JoinList(u, Upsert(u, i))
               /\ JoinList(u, (IF user[u].google = Unset THEN << SetGoogle(u, i.pid) >>
                               ELSE << >>) \o Upsert(u, i))
    <3>1. JoinList(u, << SetGoogle(u, i.pid) >>)
      BY PlainStatements, HarmlessLists, HarmlessJoins
    <3> QED BY <1>3, <3>1, UpsertJoins, JoinConcat
  <2> QED BY <1>1, <2>1, <2>2
<1>6. ASSUME f \in ByKKU(i), ByLink(i) = {}, i.provider = "kku" PROVE FoundWell(f)
  <2>1. CASE \E r \in ByRow("kku", i.former) : f = Found(r.u, << Point(r, i.pid) >>)
    <3>1. PICK r \in ByRow("kku", i.former) : f = Found(r.u, << Point(r, i.pid) >>)
      BY <2>1
    <3>2. Own(r.u, "kku", i.pid)
      <4> DEFINE rows == With("kku", i.pid)
      <4>1. CASE rows = {}
        BY <4>1 DEF Own
      <4>2. CASE rows # {}
        <5>1. First(rows) \in rows /\ rows \subseteq link /\ \A q \in rows : q.pid = i.pid
          BY <4>2, FirstIsThere DEF LinksInv, With
        <5>2. ByRow("kku", i.pid) = {}
          BY <1>6, <4>2 DEF ByLink
        <5>3. ~ Present(First(rows).u)
          BY <5>1, <5>2 DEF ByRow
        <5>4. Excused(i.pid)
          BY <5>1, <5>3 DEF LinksInv, Orphans
        <5> QED BY <5>4 DEF Own
      <4> QED BY <4>1, <4>2
    <3> QED BY <1>1, <1>2, <3>1, <3>2, PointJoins
  <2>2. CASE \E u \in Users : f = Found(u, << >>)
    BY <1>1, <1>3, <2>2
  <2> QED BY <1>6, <2>1, <2>2 DEF ByKKU, Lowest
<1>7. CASE i.provider = "google"
  BY <1>4, <1>5, <1>7 DEF FindUser
<1>8. CASE i.provider = "kku"
  BY <1>4, <1>6, <1>8 DEF FindUser
<1>9. CASE i.provider = "github"
  BY <1>4, <1>9 DEF FindUser
<1> QED BY <1>7, <1>8, <1>9 DEF Providers

LEMMA ProviderRequests ==
  ASSUME LinksHaveUsers, LinksInv, NEW c, NEW i, i.provider \in Providers
  PROVE  /\ Link(c, i) => Arrives(c)
         /\ \A f \in FindUser(i) : \A more :
              JoinList(f.u, more) /\ SignInAs(c, f, more) => Arrives(c)
<1>1. ASSUME Link(c, i) PROVE Arrives(c)
  <2>1. PICK u \in Users : /\ MayLink(u, i)
                           /\ Begin(c, << Upserting(u, i.provider, i.pid), SignIn(u) >>)
    BY <1>1 DEF Link
  <2>2. JoinList(u, << Upserting(u, i.provider, i.pid) >>)
    BY <2>1, MayLinkIsOwn, UpsertingJoins
  <2>3. Startable(<< Upserting(u, i.provider, i.pid) >> \o << SignIn(u) >>)
    BY <2>2, JoinIsProper
  <2> QED BY <2>1, <2>3, PairOfOnes DEF Arrives
<1>2. ASSUME NEW f \in FindUser(i), NEW more, JoinList(f.u, more), SignInAs(c, f, more)
      PROVE  Arrives(c)
  <2>1. f.u \in Users /\ JoinList(f.u, f.todo)
    BY FindsUsers DEF FoundWell
  <2>2. Begin(c, f.todo \o (IF user[f.u].active THEN more \o SessionOf(f.u) ELSE << >>))
    BY <1>2 DEF SignInAs
  <2>3. JoinList(f.u, << >>)
    BY HarmlessLists, HarmlessJoins
  <2>4. CASE ~ user[f.u].active
    <3>1. JoinList(f.u, f.todo \o << >>)
      BY <2>1, <2>3, JoinConcat
    <3> QED BY <2>1, <2>2, <2>4, <3>1, JoinIsProper DEF Arrives
  <2>5. CASE user[f.u].active /\ user[f.u].second # "off"
    <3>1. JoinList(f.u, more \o << >>)
      BY <1>2, <2>3, JoinConcat
    <3>2. JoinList(f.u, f.todo \o (more \o << >>))
      BY <2>1, <3>1, JoinConcat
    <3> QED BY <2>1, <2>2, <2>5, <3>2, JoinIsProper DEF Arrives, SessionOf
  <2>6. CASE user[f.u].active /\ user[f.u].second = "off"
    <3>1. JoinList(f.u, f.todo \o more)
      BY <1>2, <2>1, JoinConcat
    <3>2. Startable((f.todo \o more) \o << SignIn(f.u) >>)
      BY <2>1, <3>1, JoinIsProper
    <3>3. (f.todo \o more) \o << SignIn(f.u) >> = f.todo \o (more \o << SignIn(f.u) >>)
      <4> DEFINE x == f.todo
                 m == << SignIn(f.u) >>
      <4>1. IsList(x) /\ IsList(more) /\ IsList(m)
        BY <1>2, <2>1, ShortLists DEF JoinList
      <4> HIDE DEF x, m
      <4>2. (x \o more) \o m = x \o (more \o m)
        BY <4>1, ListsAssociate
      <4> QED BY <4>2 DEF x, m
    <3> QED BY <2>2, <2>6, <3>2, <3>3 DEF Arrives, SessionOf
  <2> QED BY <2>4, <2>5, <2>6
<1> QED BY <1>1, <1>2

LEMMA LinkRequests ==
  ASSUME LinksHaveUsers, LinksInv, NEW c, LinkRequest(c)
  PROVE  Arrives(c) /\ UNCHANGED linkVars
<1>1. UNCHANGED linkVars
  BY DEF LinkRequest, LinkAccountHandler, UnlinkAccountHandler, GoogleCallbackHandler,
         GitHubCallbackHandler, KKUCallbackHandler
<1>2. ASSUME LinkAccountHandler(c) PROVE Arrives(c)
  <2>1. PICK u \in Users, i \in Identities :
          /\ With(i.provider, i.pid) = {} /\ Of(u, i.provider) = {}
          /\ Begin(c, << AddLink(u, i.provider, i.pid) >>)
    BY <1>2 DEF LinkAccountHandler
  <2> DEFINE s == AddLink(u, i.provider, i.pid)
  <2>2. s.do = "link" /\ s.u = u /\ s.provider = i.provider /\ s.pid = i.pid
    BY DEF AddLink
  <2> HIDE DEF s
  <2>3. MayJoin(s)
    BY <2>1, <2>2 DEF MayJoin, Own, NoneAtKKU
  <2>4. Fits(s) /\ Renews(s)
    BY <2>2 DEF Fits, Renews
  <2>5. OfOneUser(<< s >>)
    <3>1. Tail(<< s >>) = << >>
      OBVIOUS
    <3> QED BY <3>1, ShortLists DEF OfOneUser
  <2>6. Proper(<< s >>) /\ NoSave(<< s >>)
    BY <2>2, <2>3, <2>4, <2>5, ShortLists DEF Proper, Single, NoSave
  <2> QED BY <2>1, <2>6, NoSaveIsWell DEF Arrives, Startable, s
<1>3. ASSUME UnlinkAccountHandler(c) PROVE Arrives(c)
  <2>1. PICK r, more : more \in {<< >>} \cup {<< SetGoogle(u, Unset) >> : u \in Users}
                       /\ Begin(c, << DropLink(r) >> \o more)
    BY <1>3 DEF UnlinkAccountHandler
  <2>2. HarmlessList(<< DropLink(r) >>) /\ HarmlessList(more)
    BY <2>1, HarmlessLists, PlainStatements
  <2>3. HarmlessList(<< DropLink(r) >> \o more)
    BY <2>2, HarmlessConcat
  <2> QED BY <2>1, <2>3, HarmlessIsProper DEF Arrives
<1>4. ASSUME GoogleCallbackHandler(c) \/ GitHubCallbackHandler(c) PROVE Arrives(c)
  <2>1. PICK i \in Identities :
          /\ i.provider \in Providers
          /\ Link(c, i) \/ \E f \in FindUser(i) : SignInAs(c, f, << >>)
    BY <1>4 DEF GoogleCallbackHandler, GitHubCallbackHandler, Providers
  <2>2. CASE Link(c, i)
    BY <2>1, <2>2, ProviderRequests
  <2>3. CASE \E f \in FindUser(i) : SignInAs(c, f, << >>)
    BY <2>1, <2>3, ProviderRequests, HarmlessLists, HarmlessJoins
  <2> QED BY <2>1, <2>2, <2>3
<1>5. ASSUME KKUCallbackHandler(c) PROVE Arrives(c)
  <2>1. PICK i \in Identities :
          /\ i.provider \in Providers
          /\ Link(c, i) \/ \E f \in FindUser(i) : SignInAs(c, f, Upsert(f.u, i))
    BY <1>5 DEF KKUCallbackHandler, Providers
  <2>2. CASE Link(c, i)
    BY <2>1, <2>2, ProviderRequests
  <2>3. ASSUME NEW f \in FindUser(i), SignInAs(c, f, Upsert(f.u, i))
        PROVE  Arrives(c)
    <3>1. JoinList(f.u, Upsert(f.u, i))
      BY UpsertJoins
    <3> QED BY <2>1, <2>3, <3>1, ProviderRequests
  <2> QED BY <2>1, <2>2, <2>3
<1> QED BY <1>1, <1>2, <1>3, <1>4, <1>5 DEF LinkRequest
-----------------------------------------------------------------------------
(* Steps that begin no session and end none on account of a password.       *)

\* Tokens only cease to be valid.
Falls ==
  /\ token' \in Seq(Tok) /\ Len(token') = Len(token)
  /\ \A j \in 1 .. Len(token) :
       /\ token'[j].owner = token[j].owner /\ token'[j].kind = token[j].kind
       /\ token'[j].start = token[j].start /\ token'[j].at = token[j].at
       /\ token'[j].live => token[j].live

\* What may take the place of the statement a request has come to.
Follows(c, x) ==
  \/ Harmless(x)
  \/ /\ Joins(x) /\ MayJoin(x) /\ x.u \in Users
     /\ Joins(Head(request[c])) /\ x.u = Head(request[c]).u

\* A request begins, goes on, or is not concerned.
Goes(c) ==
  \/ request'[c] = request[c]
  \/ Free(c) /\ Proper(request'[c])
  \/ /\ request[c] # << >> /\ Head(request[c]).do # "revokeAll"
     /\ \/ request'[c] = Tail(request[c])
        \/ /\ Head(request[c]).do # "mark"
           /\ \/ request'[c] = << >>
              \/ \E x : Follows(c, x) /\ request'[c] = << x >> \o Tail(request[c])

Quiet ==
  /\ Shape' /\ Falls /\ now' = now /\ LinksHaveUsers'
  /\ \A c \in Requests : Goes(c)

\* When a password has changed, the sessions from before are about to be ended.
Grows ==
  \A u \in Users :
    \/ changed'[u] = changed[u]
    \/ /\ changed'[u] \in Nat /\ changed'[u] <= Len(token)
       /\ << "user", u >> \in raced' \/ \E c \in Requests : EndsChange(request'[c], u)

LEMMA TailOfJoined ==
  ASSUME NEW x, NEW z, IsList(z)
  PROVE  Tail(<< x >> \o z) = z
<1> DEFINE S == ToSet(z) \cup {x}
           y == << x >> \o z
<1>1. z \in Seq(S) /\ << x >> \in Seq(S) /\ y \in Seq(S) /\ y # << >>
      /\ Len(y) = Len(z) + 1 /\ Len(z) \in Nat /\ \A j \in 1 .. Len(z) : y[j + 1] = z[j]
  <2>1. z \in Seq(S) /\ << x >> \in Seq(S)
    <3>1. z \in Seq(ToSet(z))
      BY DEF IsList
    <3>2. x \in S
      OBVIOUS
    <3> QED BY <3>1, <3>2, SeqMonotonic
  <2> HIDE DEF S
  <2>2. y \in Seq(S) /\ Len(y) = Len(z) + 1 /\ Len(z) \in Nat
        /\ \A k \in 1 .. Len(z) + 1 : y[k] = IF k <= 1 THEN << x >>[k] ELSE z[k - 1]
    BY <2>1, ConcatProperties, LenProperties
  <2>3. \A j \in 1 .. Len(z) : j + 1 \in 1 .. Len(z) + 1 /\ ~ (j + 1 <= 1) /\ (j + 1) - 1 = j
    BY <2>2
  <2> QED BY <2>1, <2>2, <2>3
<1> HIDE DEF S, y
<1>2. Tail(y) \in Seq(S) /\ Len(Tail(y)) = Len(z) /\ \A j \in 1 .. Len(z) : Tail(y)[j] = z[j]
  BY <1>1, HeadTailProperties
<1> QED BY <1>1, <1>2, SeqEqual DEF y

\* What a request has to do next, it had to do before, or just set out to do.
LEMMA GoesOn ==
  ASSUME NEW c, IsList(request[c]), Single(request[c]), OfOneUser(request[c]), Goes(c)
  PROVE  /\ IsList(request'[c]) /\ Single(request'[c]) /\ OfOneUser(request'[c])
         /\ \A s \in ToSet(request'[c]) :
              s \in ToSet(request[c]) \/ Harmless(s) \/ (Fits(s) /\ Renews(s) /\ MayJoin(s))
<1> DEFINE rest == Tail(request[c])
<1>0. request[c] # << >> =>
        /\ IsList(rest) /\ ToSet(rest) \subseteq ToSet(request[c])
        /\ Head(request[c]) \in ToSet(request[c])
        /\ \A s \in ToSet(rest) : ~ LinkAtKKU(s)
  BY TailOfList DEF OfOneUser
<1>1. CASE request'[c] = request[c]
  BY <1>1
<1>2. CASE Proper(request'[c])
  BY <1>2 DEF Proper
<1>3. CASE request'[c] = << >>
  BY <1>3, ShortLists DEF Single, OfOneUser
<1>4. CASE request[c] # << >> /\ request'[c] = Tail(request[c])
  <2>1. OfOneUser(rest)
    BY <1>0, <1>4, TailOfList DEF OfOneUser
  <2> QED BY <1>0, <1>4, <2>1 DEF Single
<1>5. CASE request[c] # << >> /\ \E x : Follows(c, x) /\ request'[c] = << x >> \o Tail(request[c])
  <2>1. PICK x : Follows(c, x) /\ request'[c] = << x >> \o Tail(request[c])
    BY <1>5
  <2>2. /\ IsList(request'[c]) /\ ToSet(request'[c]) = {x} \cup ToSet(rest)
        /\ Tail(request'[c]) = rest
    BY <1>0, <1>5, <2>1, ShortLists, ConcatOfLists, TailOfJoined
  <2>3. x.do # "mint" /\ x.do # "revokeAll"
    BY <2>1 DEF Follows, Harmless, Joins
  <2>4. Single(request'[c])
    BY <1>0, <1>5, <2>2, <2>3 DEF Single
  <2>5. Harmless(x) \/ (Fits(x) /\ Renews(x) /\ MayJoin(x))
    BY <2>1, <2>3 DEF Follows, Joins, Fits, Renews
  <2>6. \A s \in ToSet(rest) : Joins(s) /\ Joins(x) => s.u = x.u
    BY <1>0, <1>5, <2>1 DEF Follows, Harmless, Joins, OfOneUser
  <2>7. OfOneUser(request'[c])
    BY <1>0, <1>5, <2>2, <2>6 DEF OfOneUser
  <2> HIDE DEF rest
  <2> QED BY <1>0, <1>5, <2>2, <2>4, <2>5, <2>7
<1> QED BY <1>1, <1>2, <1>3, <1>4, <1>5 DEF Goes

LEMMA HeldByStatement ==
  ASSUME NEW todo, NEW s \in ToSet(todo)
  PROVE  /\ (s.do = "revokeAll" \/ (s.do = "mint" /\ s.kind = "u") \/ Joins(s) \/ Rewrites(s))
              => << "user", s.u >> \in Held(todo)
         /\ Joins(s) => << "pid", s.pid >> \in Held(todo)
<1> DEFINE about == CASE s.do = "revoke" /\ token[s.j].kind = "s" -> {}
                      [] s.do = "mint" /\ s.kind = "s" -> {}
                      [] s.do \in {"first", "link"} -> {<< "user", s.u >>, << "pid", s.pid >>}
                      [] s.do = "point" -> {<< "user", s.u >>, << "pid", s.pid >>}
                      [] OTHER -> {<< "user", s.u >>}
<1>1. about \subseteq Held(todo)
  BY DEF Held
<1>2. (s.do = "revokeAll" \/ (s.do = "mint" /\ s.kind = "u") \/ Rewrites(s)) => << "user", s.u >> \in about
  BY DEF Rewrites
<1>3. Joins(s) => << "user", s.u >> \in about /\ << "pid", s.pid >> \in about
  BY DEF Joins
<1> QED BY <1>1, <1>2, <1>3

\* Requests about one user or one account that overlap are remembered, and so is an
\* account with a row whose user is gone, whatever the step.
LEMMA OverlapsAreSeen ==
  ASSUME Remember
  PROVE  /\ raced \subseteq raced' /\ orphaned \subseteq orphaned'
         /\ Overlaps' /\ Meet' /\ SavesMeet' /\ Orphans'
<1>1. raced' = raced \cup UNION {Held(request'[p[1]]) \cap Held(request'[p[2]]) :
                                   p \in {q \in Requests \X Requests : q[1] # q[2]}}
  BY DEF Remember
<1>2. ASSUME NEW c \in Requests, NEW d \in Requests, c # d,
             NEW x \in Held(request'[c]) \cap Held(request'[d])
      PROVE  x \in raced'
  <2> DEFINE p == << c, d >>
  <2>1. p \in {q \in Requests \X Requests : q[1] # q[2]} /\ p[1] = c /\ p[2] = d
    BY <1>2
  <2> HIDE DEF p
  <2> QED BY <1>1, <1>2, <2>1
<1>3. Overlaps'
  <2>1. ASSUME NEW c \in Requests, NEW u \in Users, Concerns(c, u)'
        PROVE  << "user", u >> \in Held(request'[c])
    BY <2>1, HeldByStatement DEF Concerns
  <2> QED BY <1>2, <2>1 DEF Overlaps
<1>4. Meet'
  <2> SUFFICES ASSUME NEW c \in Requests, NEW d \in Requests, c # d,
                      NEW s \in ToSet(request'[c]), NEW t \in ToSet(request'[d]), Joins(s), Joins(t)
               PROVE  /\ s.pid = t.pid => << "pid", s.pid >> \in raced'
                      /\ s.u = t.u => << "user", s.u >> \in raced'
    BY DEF Meet
  <2>1. /\ << "user", s.u >> \in Held(request'[c]) /\ << "pid", s.pid >> \in Held(request'[c])
        /\ << "user", t.u >> \in Held(request'[d]) /\ << "pid", t.pid >> \in Held(request'[d])
    BY HeldByStatement
  <2> QED BY <1>2, <2>1
<1>5. orphaned' = orphaned \cup {<< "pid", r.pid >> : r \in {q \in link' : ~ Present(q.u)'}}
  BY DEF Remember
<1>6. Orphans'
  BY <1>5 DEF Orphans, Excused
<1>7. SavesMeet'
  <2>1. ASSUME NEW c \in Requests, NEW x \in ToSet(request'[c]), Rewrites(x)
        PROVE  << "user", x.u >> \in Held(request'[c])
    BY <2>1, HeldByStatement
  <2> QED BY <1>2, <2>1 DEF SavesMeet
<1> QED BY <1>1, <1>3, <1>4, <1>5, <1>6, <1>7

LEMMA MaxOfTwo ==
  ASSUME NEW a \in Nat, NEW b \in Nat
  PROVE  Max({a}) = a /\ Max({a, b}) \in {a, b}
<1>1. \E x \in {a, b} : \A y \in {a, b} : x >= y
  OBVIOUS
<1>2. \E x \in {a} : \A y \in {a} : x >= y
  OBVIOUS
<1> QED BY <1>1, <1>2 DEF Max

\* Who has not just had the password changed keeps the count from the last change.
LEMMA CountsKept ==
  ASSUME Remember, Histories, NEW u \in Users, \A d \in Requests : ~ ChangesPassword(d, u)
  PROVE  changed'[u] = changed[u]
<1>1. {d \in Requests : ChangesPassword(d, u)} = {}
  OBVIOUS
<1>2. changed'[u] = Max({changed[u]} \cup {before[c] : c \in {}})
  BY <1>1 DEF Remember
<1>3. {changed[u]} \cup {before[c] : c \in {}} = {changed[u]}
  OBVIOUS
<1> QED BY <1>2, <1>3, MaxOfTwo DEF Histories

\* The count is that of some request, there being one that goes on.
LEMMA CountsBound ==
  ASSUME Remember, Histories, NEW u \in Users, NEW c,
         \A d \in Requests : d # c => ~ ChangesPassword(d, u)
  PROVE  changed'[u] \in Nat /\ changed'[u] <= Len(token)
<1> DEFINE D == {d \in Requests : ChangesPassword(d, u)}
           S == {changed[u]} \cup {before[d] : d \in D}
<1>1. changed'[u] = Max(S)
  BY DEF Remember
<1>2. D = {} \/ (D = {c} /\ c \in Requests)
  OBVIOUS
<1>3. changed[u] \in Nat /\ changed[u] <= Len(token)
  BY DEF Histories
<1>4. c \in Requests => before[c] \in Nat /\ before[c] <= Len(token)
  BY DEF Histories
<1> HIDE DEF D
<1>5. S = {changed[u]} \/ (S = {changed[u], before[c]} /\ c \in Requests)
  BY <1>2
<1> HIDE DEF S
<1> QED BY <1>1, <1>3, <1>4, <1>5, MaxOfTwo

LEMMA HistoriesKept ==
  ASSUME Remember, Histories, TokensKept, Len(token') \in Nat, Len(token) <= Len(token'),
         \A u \in Users : changed'[u] \in Nat /\ changed'[u] <= Len(token)
  PROVE  Histories'
<1>1. before' = [c \in Requests |-> IF Started(c) THEN Len(token) ELSE before[c]]
  BY DEF Remember
<1>2. \E f : changed' = [u \in Users |-> f[u]]
  <2>1. changed' = [u \in Users |-> changed'[u]]
    BY DEF Remember
  <2> QED BY <2>1
<1>3. Len(token) \in Nat
  BY LenProperties DEF TokensKept
<1>4. changed' \in [Users -> Nat]
  BY <1>2
<1>5. before' \in [Requests -> Nat] /\ \A c \in Requests : before'[c] <= Len(token')
  BY <1>1, <1>3 DEF Histories
<1> QED BY <1>3, <1>4, <1>5 DEF Histories

\* No row is saved: no password changes.
LEMMA NothingChanges ==
  ASSUME Remember, Histories, UNCHANGED user
  PROVE  \A u \in Users : changed'[u] = changed[u]
BY CountsKept DEF ChangesPassword

\* What lists that change the password consist of.
LEMMA ChangeIsAList ==
  ASSUME NEW todo, NEW u
  PROVE  /\ EndsChange(todo, u) =>
              /\ todo # << >> /\ IsList(todo) /\ RevokeAll(u) \in ToSet(todo)
              /\ \A s \in ToSet(todo) : s.do \in {"mark", "revokeAll"}
              /\ \/ Head(todo) = RevokeAll(u)
                 \/ Head(todo).do = "mark" /\ EndsChange(Tail(todo), u)
         /\ ChangeList(todo, u) => EndsChange(Tail(todo), u)
<1>1. ASSUME EndsChange(todo, u)
      PROVE  /\ todo # << >> /\ IsList(todo) /\ RevokeAll(u) \in ToSet(todo)
             /\ \A s \in ToSet(todo) : s.do \in {"mark", "revokeAll"}
             /\ \/ Head(todo) = RevokeAll(u)
                \/ Head(todo).do = "mark" /\ EndsChange(Tail(todo), u)
  <2>1. PICK r : todo \in {<< RevokeAll(u) >>, << MarkUsed(r), RevokeAll(u) >>}
    BY <1>1 DEF EndsChange
  <2> DEFINE f == MarkUsed(r)
             g == RevokeAll(u)
  <2>2. f.do = "mark" /\ g.do = "revokeAll"
    BY SaveStatements
  <2>3. EndsChange(<< g >>, u)
    BY DEF EndsChange
  <2> HIDE DEF f, g
  <2>4. todo = << g >> \/ todo = << f, g >>
    BY <2>1 DEF f, g
  <2>5. CASE todo = << g >>
    <3>1. todo # << >> /\ Head(todo) = g
      BY <2>5
    <3>2. IsList(todo) /\ ToSet(todo) = {g}
      BY <2>5, ShortLists
    <3> QED BY <2>2, <3>1, <3>2 DEF g
  <2>6. CASE todo = << f, g >>
    <3>1. todo # << >> /\ Head(todo) = f /\ Tail(todo) = << g >>
      BY <2>6
    <3>2. IsList(todo) /\ ToSet(todo) = {f, g}
      BY <2>6, ShortLists
    <3> QED BY <2>2, <2>3, <3>1, <3>2 DEF g
  <2> QED BY <2>4, <2>5, <2>6
<1>2. ASSUME ChangeList(todo, u) PROVE EndsChange(Tail(todo), u)
  <2>1. PICK row, r : todo \in {<< Save(u, row), RevokeAll(u) >>, << Save(u, row), MarkUsed(r), RevokeAll(u) >>}
    BY <1>2 DEF ChangeList
  <2> DEFINE e == Save(u, row)
             f == MarkUsed(r)
             g == RevokeAll(u)
  <2>2. EndsChange(<< g >>, u) /\ EndsChange(<< f, g >>, u)
    BY DEF EndsChange
  <2> HIDE DEF e, f, g
  <2>3. todo = << e, g >> \/ todo = << e, f, g >>
    BY <2>1 DEF e, f, g
  <2>4. CASE todo = << e, g >>
    <3>1. Tail(todo) = << g >>
      BY <2>4
    <3> QED BY <2>2, <3>1
  <2>5. CASE todo = << e, f, g >>
    <3>1. Tail(todo) = << f, g >>
      BY <2>5
    <3> QED BY <2>2, <3>1
  <2> QED BY <2>3, <2>4, <2>5
<1> QED BY <1>1, <1>2

LEMMA StaysFit ==
  ASSUME TokensKept, Falls, now' = now, NEW s, Fits(s)
  PROVE  Fits(s)'
<1>1. \A j \in 1 .. Len(token) : SessionStart(j)' = SessionStart(j)
  BY DEF Falls, SessionStart
<1> QED BY <1>1 DEF Fits, Falls

\* A request that is about to end sessions is so until it does.
LEMMA EndsChangeStays ==
  ASSUME NEW c, NEW u, Goes(c), EndsChange(request[c], u)
  PROVE  EndsChange(request'[c], u)
<1>1. request[c] # << >> /\ (Head(request[c]) = RevokeAll(u)
                            \/ (Head(request[c]).do = "mark" /\ EndsChange(Tail(request[c]), u)))
  BY ChangeIsAList
<1> QED BY <1>1, SaveStatements DEF Goes, Free

LEMMA QuietStep ==
  ASSUME AccountsInv, LinksInv, Remember, Quiet, Grows
  PROVE  AccountsInv'
<1> USE DEF AccountsInv
<1>0. /\ \A c \in Requests : /\ IsList(request'[c]) /\ Single(request'[c])
                            /\ \A s \in ToSet(request'[c]) :
                                 s \in ToSet(request[c]) \/ Harmless(s) \/ (Fits(s) /\ Renews(s))
      /\ Len(token) \in Nat /\ Len(token') = Len(token)
  BY GoesOn, LenProperties DEF Quiet, Listed, TokensKept, Falls, LinksInv, Joining
<1>1. Shape' /\ LinksHaveUsers'
  BY DEF Quiet
<1>2. Listed'
  BY <1>0 DEF Listed, Single
<1>3. AllFit'
  <2>1. ASSUME NEW s, Fits(s) PROVE Fits(s)'
    BY <2>1, StaysFit DEF Quiet
  <2>2. ASSUME NEW s, Harmless(s) PROVE Fits(s)
    BY <2>2 DEF Harmless, Fits
  <2> QED BY <1>0, <2>1, <2>2 DEF AllFit
<1>4. TokensKept'
  BY DEF Quiet, Falls, TokensKept
<1>5. root' = root
  BY <1>0 DEF Remember
<1>6. Descends'
  <2>1. \A j \in 1 .. Len(token) : SessionStart(j)' = SessionStart(j)
    BY DEF Quiet, Falls, SessionStart
  <2> QED BY <1>0, <1>5, <2>1 DEF Descends, Quiet, Falls
<1>8. Histories'
  <2>1. \A u \in Users : changed'[u] \in Nat /\ changed'[u] <= Len(token)
    BY DEF Grows, Histories
  <2> QED BY <1>0, <2>1, HistoriesKept
<1>9. raced \subseteq raced' /\ Overlaps'
  BY OverlapsAreSeen
<1>7. DOMAIN token = 1 .. Len(token) /\ \A j \in 1 .. Len(token) : token[j].kind = "u" => token[j].owner \in Users
  BY LenProperties DEF TokensKept
<1>10. Ended'
  <2> SUFFICES ASSUME NEW j \in 1 .. Len(token), NEW o \in Users, o = token[j].owner,
                      token[j].kind = "u", token[j].live, root[j] <= changed'[o]
               PROVE  << "user", o >> \in raced' \/ \E c \in Requests : EndsChange(request'[c], o)
    BY <1>0, <1>5, <1>7 DEF Ended, Quiet, Falls
  <2>1. CASE changed'[o] = changed[o]
    <3>1. << "user", o >> \in raced \/ \E c \in Requests : EndsChange(request[c], o)
      BY <2>1 DEF Ended
    <3>2. \A c \in Requests : EndsChange(request[c], o) => EndsChange(request'[c], o)
      BY EndsChangeStays DEF Quiet
    <3> QED BY <1>9, <3>1, <3>2
  <2> QED BY <2>1 DEF Grows
<1>11. NoLateRenewal'
  <2> SUFFICES ASSUME NEW c \in Requests, NEW s \in ToSet(request'[c]),
                      s.do = "mint", s.kind = "u", s.from # 0, root[s.from] <= changed'[s.u]
               PROVE  << "user", s.u >> \in raced'
    BY <1>5 DEF NoLateRenewal
  <2>0. s \in ToSet(request[c]) \/ (Fits(s) /\ Renews(s))
    BY <1>0 DEF Harmless
  <2>1. s.u \in Users /\ s.from \in 1 .. Len(token)
    BY <2>0 DEF AllFit, Fits
  <2>2. ASSUME NEW d \in Requests, EndsChange(request'[d], s.u) PROVE << "user", s.u >> \in raced'
    <3>1. RevokeAll(s.u) \in ToSet(request'[d]) /\ \A t \in ToSet(request'[d]) : t.do # "mint"
      BY <2>2, ChangeIsAList
    <3>2. d # c
      BY <3>1
    <3>3. Concerns(c, s.u)' /\ Concerns(d, s.u)'
      BY <3>1, SaveStatements DEF Concerns
    <3> QED BY <1>9, <2>1, <3>2, <3>3 DEF Overlaps
  <2>3. CASE changed'[s.u] = changed[s.u]
    <3>1. CASE s \in ToSet(request[c])
      BY <1>9, <2>3, <3>1 DEF NoLateRenewal
    <3>2. CASE Fits(s) /\ Renews(s)
      <4>1. token[s.from].live /\ token[s.from].owner = s.u /\ token[s.from].kind = "u"
        BY <3>2 DEF Renews
      <4>2. << "user", s.u >> \in raced \/ \E d \in Requests : EndsChange(request[d], s.u)
        BY <2>1, <2>3, <4>1 DEF Ended
      <4>3. \A d \in Requests : EndsChange(request[d], s.u) => EndsChange(request'[d], s.u)
        BY EndsChangeStays DEF Quiet
      <4> QED BY <1>9, <2>2, <4>2, <4>3
    <3> QED BY <2>0, <3>1, <3>2
  <2> QED BY <1>9, <2>1, <2>2, <2>3 DEF Grows
<1> QED BY <1>1, <1>2, <1>3, <1>4, <1>6, <1>8, <1>9, <1>10, <1>11

-----------------------------------------------------------------------------
(* Steps that begin sessions or end them on account of a password.          *)

LEMMA RunMintStep ==
  ASSUME AccountsInv, Remember, NEW c \in Requests, RunMint(c), UNCHANGED linkVars
  PROVE  AccountsInv'
<1> USE DEF AccountsInv
<1>0. PICK n : n = Len(token) + 1
  OBVIOUS
<1> DEFINE s == Head(request[c])
           new == [owner |-> s.u, kind |-> s.kind, start |-> s.start, at |-> now, live |-> TRUE]
<1>1. /\ request[c] # << >> /\ s.do = "mint" /\ token' = Append(token, new) /\ now' = now
      /\ request' = [request EXCEPT ![c] = Tail(@)] /\ UNCHANGED link
  BY DEF RunMint, Next1, Advance, linkVars
<1>2. /\ IsList(Tail(request[c])) /\ s \in ToSet(request[c])
      /\ ToSet(Tail(request[c])) \subseteq ToSet(request[c]) /\ Tail(request[c]) # request[c]
  BY <1>1, TailOfList DEF Listed
<1>3. request'[c] = Tail(request[c]) /\ \A d \in Requests \ {c} : request'[d] = request[d]
  BY <1>1 DEF Shape
<1>4. Fits(s)
  BY <1>2 DEF AllFit
<1>5. Len(token) \in Nat /\ now \in Nat /\ \A j \in 1 .. Len(token) : token[j] \in Tok
  BY LenProperties, ElementOfSeq DEF TokensKept
<1>6. \A j \in 1 .. Len(token) : SessionStart(j) \in Nat
  BY <1>5 DEF SessionStart, Tok
<1>7. new \in Tok /\ (s.kind = "u" => s.u \in Users)
  BY <1>4, <1>5, <1>6, <1>1 DEF Fits, Tok
<1>8. new.owner = s.u /\ new.kind = s.kind /\ new.start = s.start /\ new.at = now
  OBVIOUS
<1> HIDE DEF s, new
<1>9. /\ token' \in Seq(Tok) /\ Len(token') = n /\ token'[n] = new
      /\ \A j \in 1 .. Len(token) : token'[j] = token[j]
  BY <1>0, <1>1, <1>5, <1>7, AppendProperties DEF TokensKept
<1>10. \A j \in 1 .. Len(token) : SessionStart(j)' = SessionStart(j)
  BY <1>9 DEF SessionStart
<1>11. root' = Append(root, IF s.from = 0 THEN n ELSE root[s.from])
  <2>1. c = CHOOSE d \in Requests : Next1(d, "mint") /\ request'[d] # request[d]
    BY <1>1, <1>2, <1>3 DEF Next1, s
  <2>2. Len(token') # Len(token)
    BY <1>0, <1>5, <1>9
  <2> QED BY <1>9, <2>1, <2>2 DEF Remember, s
<1>12. /\ root' \in Seq(Nat) /\ Len(root') = n
       /\ root'[n] = (IF s.from = 0 THEN n ELSE root[s.from])
       /\ \A j \in 1 .. Len(token) : root'[j] = root[j] /\ root[j] \in 1 .. Len(token)
  <2>1. (IF s.from = 0 THEN n ELSE root[s.from]) \in Nat
    BY <1>0, <1>1, <1>4, <1>5 DEF Fits, Descends
  <2> QED BY <1>0, <1>5, <1>11, <2>1, AppendProperties DEF Descends
<1>13. Shape' /\ LinksHaveUsers'
  BY <1>1 DEF Shape, LinksHaveUsers
<1>14. Listed'
  BY <1>2, <1>3 DEF Listed, Single
<1>15. \A d \in Requests : ToSet(request'[d]) \subseteq ToSet(request[d])
  BY <1>2, <1>3
<1>16. AllFit'
  <2>1. ASSUME NEW t, Fits(t) PROVE Fits(t)'
    BY <1>0, <1>1, <1>5, <1>9, <1>10, <2>1 DEF Fits
  <2> QED BY <1>15, <2>1 DEF AllFit
<1>17. TokensKept'
  BY <1>0, <1>1, <1>5, <1>7, <1>8, <1>9 DEF TokensKept
<1>18. Descends'
  <2>1. \A j \in 1 .. Len(token) :
          /\ root'[j] \in 1 .. n /\ SessionStart(j)' = token'[root'[j]].at
          /\ token'[j].at < SessionStart(j)' + Cap
    BY <1>0, <1>5, <1>9, <1>10, <1>12 DEF Descends
  <2>2. SessionStart(n)' = IF s.start = Unset THEN now ELSE s.start
    BY <1>8, <1>9 DEF SessionStart
  <2>3. CASE s.from = 0
    BY <1>0, <1>1, <1>4, <1>5, <1>8, <1>9, <1>12, <2>1, <2>2, <2>3, AccountsAssumption DEF Fits, Descends
  <2>4. CASE s.from # 0
    <3>1. /\ s.from \in 1 .. Len(token) /\ s.start = SessionStart(s.from) /\ now < s.start + Cap
          /\ s.start \in Nat
      BY <1>1, <1>4, <1>6, <2>4 DEF Fits
    <3>2. SessionStart(n)' = s.start
      BY <2>2, <3>1, AccountsAssumption
    <3>3. root'[n] \in 1 .. Len(token) /\ token'[root'[n]].at = s.start
      <4>1. root'[n] = root[s.from]
        BY <1>12, <2>4
      <4>2. root[s.from] \in 1 .. Len(token) /\ s.start = token[root[s.from]].at
        BY <3>1 DEF Descends
      <4> QED BY <1>9, <4>1, <4>2
    <3>4. /\ root'[n] \in 1 .. n /\ SessionStart(n)' = token'[root'[n]].at
          /\ token'[n].at < SessionStart(n)' + Cap
      BY <1>0, <1>5, <1>8, <1>9, <3>1, <3>2, <3>3
    <3>5. \A j \in 1 .. n : j \in 1 .. Len(token) \/ j = n
      BY <1>0, <1>5
    <3> QED BY <1>9, <1>12, <2>1, <3>4, <3>5 DEF Descends
  <2> QED BY <2>3, <2>4
<1>19. \A u \in Users : changed'[u] = changed[u]
  BY NothingChanges DEF RunMint
<1>20. Histories'
  BY <1>0, <1>5, <1>9, <1>19, HistoriesKept DEF Histories
<1>21. raced \subseteq raced' /\ Overlaps'
  BY OverlapsAreSeen
<1>22. Ended'
  <2>1. \A d \in Requests : \A u : EndsChange(request[d], u) => EndsChange(request'[d], u)
    <3>1. \A u : ~ EndsChange(request[c], u)
      BY <1>1, <1>2, ChangeIsAList
    <3> QED BY <1>3, <3>1
  <2>2. ASSUME NEW j \in 1 .. Len(token), NEW o \in Users, o = token[j].owner,
               token[j].kind = "u", token[j].live, root[j] <= changed[o]
        PROVE  << "user", o >> \in raced' \/ \E d \in Requests : EndsChange(request'[d], o)
    BY <1>21, <2>1, <2>2 DEF Ended
  <2>3. ASSUME s.kind = "u", root'[n] <= changed[s.u]
        PROVE  << "user", s.u >> \in raced'
    <3>1. s.u \in Users /\ changed[s.u] \in Nat /\ changed[s.u] <= Len(token)
      BY <1>7, <2>3 DEF Histories
    <3>2. s.from # 0
      BY <1>0, <1>5, <1>12, <2>3, <3>1
    <3> QED BY <1>1, <1>2, <1>12, <1>21, <2>3, <3>1, <3>2 DEF NoLateRenewal
  <2>4. \A j \in 1 .. n : j \in 1 .. Len(token) \/ j = n
    BY <1>0, <1>5
  <2> SUFFICES ASSUME NEW j \in 1 .. n, token'[j].kind = "u", token'[j].live,
                      root'[j] <= changed'[token'[j].owner]
               PROVE  \/ << "user", token'[j].owner >> \in raced'
                      \/ \E d \in Requests : EndsChange(request'[d], token'[j].owner)
    BY <1>9 DEF Ended
  <2>5. CASE j \in 1 .. Len(token)
    <3>1. token'[j] = token[j] /\ root'[j] = root[j] /\ token[j].owner \in Users
      BY <1>9, <1>12, <2>5 DEF TokensKept
    <3> QED BY <1>19, <2>2, <2>5, <3>1
  <2>6. CASE j = n
    <3>1. s.u \in Users
      BY <1>7, <1>8, <1>9, <2>6
    <3> QED BY <1>8, <1>9, <1>19, <2>3, <2>6, <3>1
  <2> QED BY <2>4, <2>5, <2>6
<1>23. NoLateRenewal'
  <2> SUFFICES ASSUME NEW d \in Requests, NEW t \in ToSet(request[d]),
                      t.do = "mint", t.kind = "u", t.from # 0, root'[t.from] <= changed'[t.u]
               PROVE  << "user", t.u >> \in raced'
    BY <1>15 DEF NoLateRenewal
  <2>1. t.u \in Users /\ t.from \in 1 .. Len(token)
    BY DEF AllFit, Fits
  <2> QED BY <1>12, <1>19, <1>21, <2>1 DEF NoLateRenewal
<1> QED BY <1>13, <1>14, <1>16, <1>17, <1>18, <1>20, <1>21, <1>22, <1>23

LEMMA RunRevokeAllStep ==
  ASSUME AccountsInv, Remember, NEW c \in Requests, RunRevokeAll(c), UNCHANGED linkVars
  PROVE  AccountsInv'
<1> USE DEF AccountsInv
<1> DEFINE s == Head(request[c])
<1>1. /\ request[c] # << >> /\ s.do = "revokeAll" /\ now' = now
      /\ token' = [j \in DOMAIN token |-> [token[j] EXCEPT !.live = @ /\ ~ RevokedWith(s.u, j)]]
      /\ request' = [request EXCEPT ![c] = Tail(@)] /\ UNCHANGED link
  BY DEF RunRevokeAll, Next1, Advance, linkVars
<1>2. /\ IsList(Tail(request[c])) /\ s \in ToSet(request[c])
      /\ ToSet(Tail(request[c])) \subseteq ToSet(request[c])
  BY <1>1, TailOfList DEF Listed
<1>3. request'[c] = Tail(request[c]) /\ \A d \in Requests \ {c} : request'[d] = request[d]
  BY <1>1 DEF Shape
<1> HIDE DEF s
<1>4. /\ Len(token) \in Nat /\ DOMAIN token = 1 .. Len(token)
      /\ \A j \in 1 .. Len(token) : token[j] \in Tok
  BY LenProperties, ElementOfSeq DEF TokensKept
<1>5. \A j \in 1 .. Len(token) :
        /\ token'[j] \in Tok
        /\ token'[j].owner = token[j].owner /\ token'[j].kind = token[j].kind
        /\ token'[j].start = token[j].start /\ token'[j].at = token[j].at
        /\ token'[j].live = (token[j].live /\ ~ (token[j].owner = s.u /\ token[j].kind = "u"))
  BY <1>1, <1>4 DEF RevokedWith, Tok
<1>6. token' \in Seq(Tok) /\ Len(token') = Len(token) /\ DOMAIN token' = 1 .. Len(token)
  <2>1. token' \in [1 .. Len(token) -> Tok]
    BY <1>1, <1>4, <1>5
  <2> QED BY <1>4, <2>1, IsASeq, LenProperties
<1>7. Falls
  BY <1>5, <1>6 DEF Falls
<1>8. Shape' /\ LinksHaveUsers'
  BY <1>1 DEF Shape, LinksHaveUsers
<1>9. Listed' /\ \A d \in Requests : ToSet(request'[d]) \subseteq ToSet(request[d])
  BY <1>2, <1>3 DEF Listed, Single
<1>10. AllFit'
  BY <1>1, <1>7, <1>9, StaysFit DEF AllFit
<1>11. TokensKept' /\ root' = root
  BY <1>1, <1>5, <1>6 DEF TokensKept, Remember
<1>12. Descends'
  <2>1. \A j \in 1 .. Len(token) : SessionStart(j)' = SessionStart(j)
    BY <1>5 DEF SessionStart
  <2> QED BY <1>5, <1>6, <1>11, <2>1 DEF Descends
<1>13. \A u \in Users : changed'[u] = changed[u]
  BY NothingChanges DEF RunRevokeAll
<1>15. Histories'
  BY <1>4, <1>6, <1>13, HistoriesKept DEF Histories
<1>16. raced \subseteq raced' /\ Overlaps'
  BY OverlapsAreSeen
<1>17. Ended'
  <2> SUFFICES ASSUME NEW j \in 1 .. Len(token), NEW o, o = token[j].owner,
                      token[j].kind = "u", token'[j].live, root[j] <= changed'[o]
               PROVE  << "user", o >> \in raced' \/ \E d \in Requests : EndsChange(request'[d], o)
    BY <1>5, <1>6, <1>11 DEF Ended
  <2>1. o \in Users /\ o # s.u /\ token[j].live
    BY <1>5 DEF TokensKept
  <2>2. << "user", o >> \in raced \/ \E d \in Requests : EndsChange(request[d], o)
    BY <1>13, <2>1 DEF Ended
  <2>3. ~ EndsChange(request[c], o)
    <3>1. s # RevokeAll(o) /\ s.do # "mark"
      BY <1>1, <2>1, SaveStatements
    <3> QED BY <3>1, ChangeIsAList DEF s
  <2> QED BY <1>3, <1>16, <2>2, <2>3
<1>18. NoLateRenewal'
  <2> SUFFICES ASSUME NEW d \in Requests, NEW t \in ToSet(request'[d]),
                      t.do = "mint", t.kind = "u", t.from # 0, root[t.from] <= changed'[t.u]
               PROVE  << "user", t.u >> \in raced'
    BY <1>11 DEF NoLateRenewal
  <2>1. t \in ToSet(request[d]) /\ t.u \in Users
    BY <1>9 DEF AllFit, Fits
  <2> QED BY <1>13, <1>16, <2>1 DEF NoLateRenewal
<1> QED BY <1>8, <1>9, <1>10, <1>11, <1>12, <1>15, <1>16, <1>17, <1>18

-----------------------------------------------------------------------------
(* Every step.                                                              *)

LEMMA TokensAlone ==
  ASSUME TokensKept, UNCHANGED token
  PROVE  Falls
BY LenProperties DEF TokensKept, Falls

\* One request begins or goes on.
LEMMA OneGoesOn ==
  ASSUME Shape, NEW c \in Requests, NEW todo, request' = [request EXCEPT ![c] = todo],
         \/ Free(c) /\ Proper(todo)
         \/ /\ request[c] # << >> /\ Head(request[c]).do # "revokeAll"
            /\ \/ todo = Tail(request[c])
               \/ /\ Head(request[c]).do # "mark"
                  /\ \/ todo = << >>
                     \/ \E x : Follows(c, x) /\ todo = << x >> \o Tail(request[c]),
         Falls, now' = now, LinksHaveUsers'
  PROVE  Quiet
<1>1. Shape' /\ request'[c] = todo /\ \A d \in Requests : d # c => request'[d] = request[d]
  BY DEF Shape
<1>2. \A d \in Requests : Goes(d)
  BY <1>1 DEF Goes
<1> QED BY <1>1, <1>2 DEF Quiet

LEMMA ArrivalsAreQuiet ==
  ASSUME AccountsInv, NEW c \in Requests, NEW todo, Proper(todo), Begin(c, todo), UNCHANGED link
  PROVE  Quiet
<1>2. Free(c) /\ request' = [request EXCEPT ![c] = todo] /\ UNCHANGED token /\ now' = now
  BY DEF Begin, Start, Others
<1>3. LinksHaveUsers' /\ Falls /\ Shape
  BY <1>2, TokensAlone DEF AccountsInv, LinksHaveUsers
<1> QED BY <1>2, <1>3, OneGoesOn

LEMMA TokenGone ==
  ASSUME TokensKept, NEW j \in 1 .. Len(token), token' = [token EXCEPT ![j].live = FALSE]
  PROVE  Falls
<1>1. Len(token) \in Nat /\ DOMAIN token = 1 .. Len(token) /\ \A k \in 1 .. Len(token) : token[k] \in Tok
  BY LenProperties, ElementOfSeq DEF TokensKept
<1>2. \A k \in 1 .. Len(token) :
        /\ token'[k] \in Tok
        /\ token'[k].owner = token[k].owner /\ token'[k].kind = token[k].kind
        /\ token'[k].start = token[k].start /\ token'[k].at = token[k].at
        /\ token'[k].live => token[k].live
  BY <1>1 DEF Tok
<1>3. token' \in [1 .. Len(token) -> Tok]
  BY <1>1, <1>2
<1>4. token' \in Seq(Tok) /\ Len(token') = Len(token)
  BY <1>1, <1>3, IsASeq, LenProperties
<1> QED BY <1>2, <1>4 DEF Falls

\* FirstOrCreate goes on to write what it may.
LEMMA FirstFollows ==
  ASSUME LinksInv, NEW s, MayJoin(s), s.do = "first"
  PROVE  LET rows == Of(s.u, s.provider)
             x == IF rows = {} THEN AddLink(s.u, s.provider, s.pid) ELSE Point(First(rows), s.pid)
         IN  Joins(x) /\ MayJoin(x) /\ x.u = s.u
<1> DEFINE rows == Of(s.u, s.provider)
           a == AddLink(s.u, s.provider, s.pid)
           p == Point(First(rows), s.pid)
<1>1. Own(s.u, s.provider, s.pid)
  BY DEF MayJoin
<1>2. CASE rows = {}
  <2>1. a.do = "link" /\ a.u = s.u /\ a.provider = s.provider /\ a.pid = s.pid
    BY DEF AddLink
  <2> HIDE DEF a
  <2>2. Joins(a) /\ MayJoin(a) /\ a.u = s.u
    BY <1>1, <1>2, <2>1 DEF Joins, MayJoin, NoneAtKKU
  <2> QED BY <1>2, <2>2 DEF a
<1>3. CASE rows # {}
  <2>1. PICK r : r = First(rows)
    OBVIOUS
  <2>2. r \in link /\ r.u = s.u /\ r.provider = s.provider
    BY <1>3, <2>1, FirstIsThere DEF LinksInv, Of
  <2>3. p.do = "point" /\ p.u = r.u /\ p.id = r.id /\ p.pid = s.pid
    BY <2>1 DEF Point
  <2> HIDE DEF p
  <2>4. p.id \in Nat /\ p.id < nextLink /\ \A q \in link : q.id = p.id => q = r
    BY <2>2, <2>3 DEF LinksInv, Rows
  <2>5. Joins(p) /\ MayJoin(p) /\ p.u = s.u
    BY <1>1, <2>2, <2>3, <2>4 DEF Joins, MayJoin
  <2> QED BY <1>3, <2>5 DEF p
<1> QED BY <1>2, <1>3

LEMMA RunningIsQuiet ==
  ASSUME AccountsInv, LinksInv, NEW c \in Requests,
         \/ Running(c) /\ ~ RunMint(c) /\ ~ RunRevokeAll(c) /\ UNCHANGED linkVars
         \/ RunningLinks(c)
  PROVE  Quiet
<1> USE DEF AccountsInv
<1>1. ASSUME NEW todo, request' = [request EXCEPT ![c] = todo],
             request[c] # << >>, Head(request[c]).do # "revokeAll",
             \/ todo = Tail(request[c])
             \/ /\ Head(request[c]).do # "mark"
                /\ \/ todo = << >>
                   \/ \E x : Follows(c, x) /\ todo = << x >> \o Tail(request[c]),
             UNCHANGED << token, now >>, LinksHaveUsers'
      PROVE  Quiet
  BY <1>1, OneGoesOn, TokensAlone
<1>2. UNCHANGED linkVars => LinksHaveUsers'
  BY DEF linkVars, LinksHaveUsers
<1>3. request[c] # << >> => Head(request[c]) \in ToSet(request[c]) /\ Fits(Head(request[c]))
  BY TailOfList DEF Listed, AllFit
<1>4. ASSUME RunSave(c), UNCHANGED linkVars PROVE Quiet
  BY <1>1, <1>2, <1>4 DEF RunSave, Next1, Abort, Advance
<1>5. ASSUME RunFlip(c), UNCHANGED linkVars PROVE Quiet
  <2>1. request[c] # << >> /\ Head(request[c]).do = "flip" /\ UNCHANGED << token, now >>
    BY <1>5 DEF RunFlip, Next1
  <2>2. \/ \E u, row : request' = [request EXCEPT ![c] = << Save(u, row) >> \o Tail(request[c])]
        \/ request' = [request EXCEPT ![c] = << >>]
    BY <1>5 DEF RunFlip, Abort
  <2>3. \A u, row : Harmless(Save(u, row))
    BY SaveStatements DEF Harmless
  <2> QED BY <1>1, <1>2, <1>5, <2>1, <2>2, <2>3 DEF Follows
<1>6. ASSUME RunStore(c) \/ RunPending(c) \/ RunReset(c), UNCHANGED linkVars PROVE Quiet
  <2>1. /\ request[c] # << >> /\ Head(request[c]).do # "revokeAll" /\ UNCHANGED << token, now >>
        /\ request' = [request EXCEPT ![c] = Tail(request[c])]
    BY <1>6 DEF RunStore, RunPending, RunReset, Next1, Advance
  <2> QED BY <1>1, <1>2, <1>6, <2>1
<1>7. ASSUME RunRevoke(c), UNCHANGED linkVars PROVE Quiet
  <2>1. /\ request[c] # << >> /\ Head(request[c]).do = "revoke" /\ now' = now
        /\ request' = [request EXCEPT ![c] = Tail(request[c])]
        /\ token' = [token EXCEPT ![Head(request[c]).j].live = FALSE]
    BY <1>7 DEF RunRevoke, Next1, Advance
  <2>2. Head(request[c]).j \in 1 .. Len(token)
    BY <1>3, <2>1 DEF Fits
  <2>3. Falls
    BY <2>1, <2>2, TokenGone
  <2> QED BY <1>2, <1>7, <2>1, <2>3, OneGoesOn
<1>8. ASSUME RunFirst(c) PROVE Quiet
  <2> DEFINE s == Head(request[c])
  <2>1. request[c] # << >> /\ s.do = "first" /\ UNCHANGED << token, now >> /\ UNCHANGED linkVars
    BY <1>8 DEF RunFirst, Next1, Others
  <2> DEFINE x == IF Of(s.u, s.provider) = {} THEN AddLink(s.u, s.provider, s.pid)
                   ELSE Point(First(Of(s.u, s.provider)), s.pid)
  <2>2. s.u \in Users /\ MayJoin(s)
    BY <1>3, <2>1 DEF Fits, LinksInv, Joining
  <2>3. request' = [request EXCEPT ![c] = << x >> \o Tail(request[c])]
    BY <1>8 DEF RunFirst
  <2>4. Joins(x) /\ MayJoin(x) /\ x.u = s.u
    BY <2>1, <2>2, FirstFollows
  <2>5. Joins(s)
    BY <2>1 DEF Joins
  <2> HIDE DEF x
  <2>6. Follows(c, x)
    BY <2>2, <2>4, <2>5 DEF Follows
  <2> QED BY <1>1, <1>2, <2>1, <2>3, <2>6, Zenon
<1>9. ASSUME RunLink(c) PROVE Quiet
  <2> DEFINE s == Head(request[c])
  <2>1. /\ request[c] # << >> /\ s.do \in {"link", "point", "unlink"} /\ UNCHANGED << token, now >>
        /\ request' = [request EXCEPT ![c] = Tail(request[c])]
    BY <1>9 DEF RunLink, Next1, Others, Advance
  <2>2. s.do = "link" => s.u \in Users
    BY <1>3, <2>1 DEF Fits
  <2>3. LinksHaveUsers'
    <3>1. CASE s.do = "link" /\ link' = link \cup {[id |-> nextLink, u |-> s.u, provider |-> s.provider,
                                                   pid |-> s.pid]}
      BY <2>2, <3>1 DEF LinksHaveUsers
    <3>2. CASE link' = {IF r.id = s.id THEN [r EXCEPT !.pid = s.pid] ELSE r : r \in link}
      <4>1. ASSUME NEW q \in link' PROVE q.u \in Users
        <5>1. PICK r \in link : q = IF r.id = s.id THEN [r EXCEPT !.pid = s.pid] ELSE r
          BY <3>2, <4>1
        <5> QED BY <5>1 DEF LinksHaveUsers
      <4> QED BY <4>1 DEF LinksHaveUsers
    <3>3. CASE link' = {r \in link : r.id # s.id}
      BY <3>3 DEF LinksHaveUsers
    <3> QED BY <1>9, <3>1, <3>2, <3>3 DEF RunLink, Next1
  <2> QED BY <1>1, <2>1, <2>3
<1>10. ASSUME RunGoogle(c) PROVE Quiet
  <2>1. /\ request[c] # << >> /\ Head(request[c]).do # "revokeAll" /\ UNCHANGED << token, now >>
        /\ request' = [request EXCEPT ![c] = Tail(request[c])] /\ UNCHANGED linkVars
    BY <1>10 DEF RunGoogle, Next1, Advance
  <2> QED BY <1>1, <1>2, <2>1
<1> QED BY <1>4, <1>5, <1>6, <1>7, <1>8, <1>9, <1>10 DEF Running, RunningLinks

LEMMA BeginsWell ==
  ASSUME AccountsInv, LinksInv, PasswordsInv, NEW c \in Requests, Begins(c)
  PROVE  Arrives(c) /\ UNCHANGED linkVars
<1>1. LinksHaveUsers /\ UserRows /\ ResetsHaveUsers
  BY DEF AccountsInv, PasswordsInv
<1>2. CASE SessionRequest(c) /\ UNCHANGED linkVars
  BY <1>2, SessionRequests
<1>3. CASE (PasswordRequest(c) \/ UpdateProfileHandler(c)) /\ UNCHANGED linkVars
  BY <1>1, <1>3, PasswordRequests
<1>4. CASE FactorRequest(c) /\ UNCHANGED linkVars
  BY <1>4, FactorRequests
<1>5. CASE AdminRequest(c) /\ UNCHANGED linkVars
  BY <1>1, <1>5, AdminRequests
<1>6. CASE StudentSignIn(c)
  <2>1. UNCHANGED linkVars
    BY <1>6 DEF StudentSignIn
  <2> QED BY <1>6, <2>1, StudentsSignIn
<1>7. CASE LinkRequest(c)
  BY <1>1, <1>7, LinkRequests
<1>8. CASE CompleteTwoFALogin(c) /\ UNCHANGED linkVars
  BY <1>4, <1>8 DEF FactorRequest
<1> QED BY <1>2, <1>3, <1>4, <1>5, <1>6, <1>7, <1>8 DEF Begins

LEMMA BeginsIsQuiet ==
  ASSUME AccountsInv, LinksInv, PasswordsInv, NEW c \in Requests, Begins(c) \/ Administers(c)
  PROVE  Quiet /\ UNCHANGED linkVars
<1>1. UNCHANGED linkVars
  BY BeginsWell DEF Administers
<1>2. PICK todo : Proper(todo) /\ Begin(c, todo)
  BY BeginsWell, EditIsProper DEF Administers, Arrives, Startable, PasswordsInv
<1> QED BY <1>1, <1>2, ArrivalsAreQuiet DEF linkVars

LEMMA AtOnceIsQuiet ==
  ASSUME AccountsInv, AtOnce
  PROVE  Quiet /\ link' \subseteq link /\ UNCHANGED nextLink
<1> USE DEF AccountsInv
<1>1. Len(token) \in Nat /\ DOMAIN token = 1 .. Len(token) /\ \A k \in 1 .. Len(token) : token[k] \in Tok
  BY LenProperties, ElementOfSeq DEF TokensKept
<1>2. UNCHANGED request /\ now' = now
  BY DEF AtOnce, Logout, RevokeSession, RevokeAllSessionsHandler, SwitchStudent, PendingExpires,
         DeleteUserHandler, AdminUnlinkAccountHandler, accountVars
<1>3. Shape' /\ \A c \in Requests : Goes(c)
  BY <1>2 DEF Shape, Goes
<1>6. link' \subseteq link /\ UNCHANGED nextLink
  BY DEF AtOnce, linkVars, AdminUnlinkAccountHandler
<1>4. LinksHaveUsers'
  BY <1>6 DEF LinksHaveUsers
<1>5. Falls
  <2>1. CASE Logout \/ RevokeSession
    <3>1. PICK j \in 1 .. Len(token) : token' = [token EXCEPT ![j].live = FALSE]
      BY <1>1, <2>1 DEF Logout, RevokeSession
    <3> QED BY <3>1, TokenGone
  <2>2. CASE RevokeAllSessionsHandler
    <3>1. PICK u : token' = [j \in DOMAIN token |->
                               [token[j] EXCEPT !.live = @ /\ token[j].owner # u]]
      BY <2>2 DEF RevokeAllSessionsHandler
    <3>2. \A j \in 1 .. Len(token) :
            /\ token'[j] \in Tok
            /\ token'[j].owner = token[j].owner /\ token'[j].kind = token[j].kind
            /\ token'[j].start = token[j].start /\ token'[j].at = token[j].at
            /\ token'[j].live => token[j].live
      BY <1>1, <3>1 DEF Tok
    <3>3. token' \in [1 .. Len(token) -> Tok]
      BY <1>1, <3>1, <3>2
    <3>4. token' \in Seq(Tok) /\ Len(token') = Len(token)
      BY <1>1, <3>3, IsASeq, LenProperties
    <3> QED BY <3>2, <3>4 DEF Falls
  <2>3. CASE UNCHANGED token
    BY <2>3, TokensAlone
  <2>4. \/ Logout \/ RevokeSession \/ RevokeAllSessionsHandler \/ UNCHANGED token
    BY DEF AtOnce, SwitchStudent, PendingExpires, DeleteUserHandler,
           AdminUnlinkAccountHandler, accountVars
  <2> QED BY <2>1, <2>2, <2>3, <2>4
<1> QED BY <1>2, <1>3, <1>4, <1>5, <1>6 DEF Quiet

LEMMA HourStep ==
  ASSUME AccountsInv, Remember, Hour
  PROVE  AccountsInv'
<1> USE DEF AccountsInv
<1>1. /\ \A c \in Requests : request'[c] = << >>
      /\ UNCHANGED << request, token, link >> /\ now' = now + 1
  BY DEF Hour, Free, Tick, linkVars
<1>2. Shape' /\ Listed' /\ LinksHaveUsers'
  BY <1>1 DEF Shape, Listed, LinksHaveUsers
<1>3. AllFit' /\ NoLateRenewal'
  <2>1. \A c \in Requests : ToSet(request'[c]) = {}
    BY <1>1, ShortLists
  <2> QED BY <2>1 DEF AllFit, NoLateRenewal
<1>4. TokensKept' /\ Len(token) \in Nat
  BY <1>1, LenProperties DEF TokensKept
<1>5. root' = root
  BY <1>1 DEF Remember
<1>6. Descends'
  BY <1>1, <1>5 DEF Descends, SessionStart
<1>7. \A u \in Users : changed'[u] = changed[u]
  BY NothingChanges DEF Hour, Tick
<1>8. Histories'
  BY <1>1, <1>4, <1>7, HistoriesKept DEF Histories
<1>9. raced \subseteq raced' /\ Overlaps'
  BY OverlapsAreSeen
<1>10. Ended'
  BY <1>1, <1>5, <1>7, <1>9 DEF Ended, TokensKept
<1> QED BY <1>2, <1>3, <1>4, <1>6, <1>8, <1>9, <1>10

-----------------------------------------------------------------------------
(* Accounts at providers.                                                   *)

\* What is excused stays so.
LEMMA ExcusedStays ==
  ASSUME Remember
  PROVE  \A pid : Excused(pid) => Excused(pid)'
BY OverlapsAreSeen DEF Excused

\* A step that adds and changes no row, of requests that rely on what held before it.
LEMMA LinksKept ==
  ASSUME LinksInv, Remember, link' \subseteq link, nextLink' = nextLink,
         \A c \in Requests :
           /\ OfOneUser(request'[c])
           /\ \A s \in ToSet(request'[c]) : s \in ToSet(request[c]) \/ Harmless(s) \/ MayJoin(s)
  PROVE  LinksInv'
<1>1. /\ Meet' /\ Orphans' /\ raced \subseteq raced'
      /\ \A pid : Excused(pid) => Excused(pid)'
  BY OverlapsAreSeen, ExcusedStays
<1>2. Rows' /\ OneAtKKU'
  BY <1>1 DEF LinksInv, Rows, OneAtKKU
<1>3. OneUser'
  BY <1>1 DEF LinksInv, OneUser
<1>4. ASSUME NEW s, MayJoin(s) PROVE MayJoin(s)'
  <2>1. ASSUME NEW u, NEW provider, NEW pid, Own(u, provider, pid) PROVE Own(u, provider, pid)'
    BY <1>1, <2>1 DEF Own, With
  <2>2. ASSUME NEW u, NoneAtKKU(u) PROVE NoneAtKKU(u)'
    BY <1>1, <2>2 DEF NoneAtKKU, Of
  <2> QED BY <1>4, <2>1, <2>2 DEF MayJoin
<1>5. ASSUME NEW s, Harmless(s) PROVE MayJoin(s)
  BY <1>5 DEF Harmless, MayJoin
<1>6. Joining'
  <2>1. \A c \in Requests : \A s \in ToSet(request'[c]) : MayJoin(s)
    BY <1>5 DEF LinksInv, Joining
  <2> QED BY <1>4, <2>1 DEF Joining, OfOneUser
<1> QED BY <1>1, <1>2, <1>3, <1>6 DEF LinksInv

\* What a statement t relies on outlives the insertion, or the change, of a row of s.u
\* for the account s.pid.
LEMMA RelianceStays ==
  ASSUME LinksInv, Remember, NEW s, NEW t, MayJoin(t),
         nextLink \in Nat, nextLink' \in Nat, nextLink <= nextLink',
         \A q \in link' : q \in link \/ (q.u = s.u /\ q.pid = s.pid),
         \A q \in link' : \/ \E r \in link : r.id = q.id /\ r.u = q.u /\ r.provider = q.provider
                          \/ q.id = nextLink /\ q.u = s.u,
         \/ t.u = s.u /\ ~ LinkAtKKU(t)
         \/ /\ t.pid = s.pid => Excused(s.pid)
            /\ t.u = s.u => << "user", s.u >> \in raced
  PROVE  MayJoin(t)'
<1>1. raced \subseteq raced' /\ \A pid : Excused(pid) => Excused(pid)'
  BY OverlapsAreSeen, ExcusedStays
<1>2. ASSUME NEW provider, Own(t.u, provider, t.pid) PROVE Own(t.u, provider, t.pid)'
  <2> SUFFICES ASSUME NEW q \in link', q.provider = provider, q.pid = t.pid
               PROVE  q.u = t.u \/ Excused(t.pid)'
    BY DEF Own, With
  <2>1. CASE q \in link
    BY <1>1, <1>2, <2>1 DEF Own, With
  <2>2. CASE q.u = s.u /\ q.pid = s.pid
    BY <1>1, <2>2
  <2> QED BY <2>1, <2>2
<1>3. ASSUME t.do = "link", t.provider = "kku", NoneAtKKU(t.u) PROVE NoneAtKKU(t.u)'
  <2> SUFFICES ASSUME NEW q \in link', q.u = t.u, q.provider = "kku"
               PROVE  << "user", t.u >> \in raced'
    BY DEF NoneAtKKU, Of
  <2>1. t.u = s.u => << "user", s.u >> \in raced
    BY <1>3 DEF LinkAtKKU
  <2>2. CASE \E r \in link : r.id = q.id /\ r.u = q.u /\ r.provider = q.provider
    BY <1>1, <1>3, <2>2 DEF NoneAtKKU, Of
  <2> QED BY <1>1, <2>1, <2>2
<1>4. ASSUME t.do = "point" PROVE MayJoin(t)'
  <2>1. t.id < nextLink /\ \A r \in link : r.id = t.id => r.u = t.u /\ Own(t.u, r.provider, t.pid)
    BY <1>4 DEF MayJoin
  <2>2. ASSUME NEW q \in link', q.id = t.id PROVE q.u = t.u /\ Own(t.u, q.provider, t.pid)'
    <3>1. q.id # nextLink
      BY <2>1, <2>2
    <3> QED BY <1>2, <2>1, <2>2, <3>1
  <2>3. t.id \in Nat /\ t.id < nextLink'
    BY <1>4, <2>1 DEF MayJoin
  <2> QED BY <1>4, <2>2, <2>3 DEF MayJoin
<1> QED BY <1>2, <1>3, <1>4 DEF MayJoin

\* A row is inserted or changed.
LEMMA RunLinkStep ==
  ASSUME AccountsInv, LinksInv, Remember, NEW c \in Requests, RunLink(c), ~ Next1(c, "unlink")
  PROVE  LinksInv'
<1> DEFINE s == Head(request[c])
           new == [id |-> nextLink, u |-> s.u, provider |-> s.provider, pid |-> s.pid]
<1>1. /\ request[c] # << >> /\ request' = [request EXCEPT ![c] = Tail(request[c])]
      /\ \/ s.do = "link" /\ link' = link \cup {new} /\ nextLink' = nextLink + 1
         \/ /\ s.do = "point" /\ nextLink' = nextLink
            /\ link' = {IF r.id = s.id THEN [r EXCEPT !.pid = s.pid] ELSE r : r \in link}
  BY DEF RunLink, Next1, Advance
<1>2. /\ s \in ToSet(request[c]) /\ IsList(Tail(request[c]))
      /\ ToSet(Tail(request[c])) \subseteq ToSet(request[c])
  BY <1>1, TailOfList DEF AccountsInv, Listed
<1>3. request'[c] = Tail(request[c]) /\ \A d \in Requests \ {c} : request'[d] = request[d]
  BY <1>1 DEF AccountsInv, Shape
<1>4. new.id = nextLink /\ new.u = s.u /\ new.provider = s.provider /\ new.pid = s.pid
  OBVIOUS
<1>5. Joins(s) /\ MayJoin(s)
  BY <1>1, <1>2 DEF Joins, LinksInv, Joining
<1> HIDE DEF s, new
<1>6. /\ Meet' /\ Orphans' /\ raced \subseteq raced'
      /\ \A pid : Excused(pid) => Excused(pid)'
  BY OverlapsAreSeen, ExcusedStays
<1>7. nextLink \in Nat /\ nextLink' \in Nat /\ nextLink <= nextLink'
  BY <1>1 DEF LinksInv, Rows
<1>8. Joining'
  <2> SUFFICES ASSUME \A q \in link' : q \in link \/ (q.u = s.u /\ q.pid = s.pid),
                      \A q \in link' :
                        \/ \E r \in link : r.id = q.id /\ r.u = q.u /\ r.provider = q.provider
                        \/ q.id = nextLink /\ q.u = s.u
               PROVE  Joining'
    <3>1. CASE s.do = "link"
      BY <1>1, <1>4, <3>1
    <3>2. CASE s.do = "point"
      <4>1. ASSUME NEW q \in link'
            PROVE  /\ q \in link \/ (q.u = s.u /\ q.pid = s.pid)
                   /\ \E r \in link : r.id = q.id /\ r.u = q.u /\ r.provider = q.provider
        <5>1. PICK r \in link : q = IF r.id = s.id THEN [r EXCEPT !.pid = s.pid] ELSE r
          BY <1>1, <3>2
        <5>2. r.id = s.id => r.u = s.u
          BY <1>5, <3>2 DEF MayJoin
        <5>3. r = [id |-> r.id, u |-> r.u, provider |-> r.provider, pid |-> r.pid]
          BY DEF LinksInv, Rows, IsRow
        <5> QED BY <5>1, <5>2, <5>3
      <4> QED BY <4>1
    <3> QED BY <1>1, <3>1, <3>2
  <2>1. ASSUME NEW d \in Requests, NEW t \in ToSet(request'[d]) PROVE MayJoin(t)'
    <3>1. t \in ToSet(request[d]) /\ MayJoin(t)
      BY <1>2, <1>3 DEF LinksInv, Joining
    <3>2. CASE ~ Joins(t)
      BY <3>2 DEF Joins, MayJoin
    <3>3. CASE d = c /\ Joins(t)
      <4>1. t.u = s.u /\ ~ LinkAtKKU(t)
        BY <1>1, <1>2, <1>3, <1>5, <3>1, <3>3 DEF LinksInv, Joining, OfOneUser
      <4> QED BY <1>7, <3>1, <4>1, RelianceStays
    <3>4. CASE d # c /\ Joins(t)
      <4>1. (s.pid = t.pid => << "pid", s.pid >> \in raced) /\ (s.u = t.u => << "user", s.u >> \in raced)
        BY <1>2, <1>5, <3>1, <3>4 DEF LinksInv, Meet
      <4> QED BY <1>7, <3>1, <4>1, RelianceStays DEF Excused
    <3> QED BY <3>2, <3>3, <3>4
  <2>2. OfOneUser(Tail(request[c]))
    BY <1>1, <1>2, TailOfList DEF LinksInv, Joining, OfOneUser
  <2>3. \A d \in Requests : OfOneUser(request'[d])
    BY <1>3, <2>2 DEF LinksInv, Joining
  <2> QED BY <2>1, <2>3 DEF Joining, OfOneUser
<1>9. CASE s.do = "link"
  <2>1. link' = link \cup {new} /\ nextLink' = nextLink + 1
    BY <1>1, <1>9
  <2>2. \A q \in link : q.id # nextLink
    BY <1>7 DEF LinksInv, Rows
  <2>3. Rows'
    <3>1. IsRow(new)
      BY DEF new, IsRow
    <3> QED BY <1>4, <1>7, <2>1, <2>2, <3>1 DEF LinksInv, Rows
  <2>4. \A q \in link : q.provider = new.provider /\ q.pid = new.pid /\ q.u # new.u => Excused(new.pid)
    BY <1>4, <1>5, <1>9 DEF MayJoin, Own, With
  <2>5. OneUser'
    <3> SUFFICES ASSUME NEW r \in link', NEW q \in link', r.provider = q.provider, r.pid = q.pid, r.u # q.u
                 PROVE  Excused(r.pid)'
      BY DEF OneUser
    <3>1. r \in link /\ q \in link => Excused(r.pid)
      BY DEF LinksInv, OneUser
    <3> QED BY <1>6, <2>1, <2>4, <3>1
  <2>6. \A q \in link : q.provider = "kku" /\ new.provider = "kku" /\ q.u = new.u => << "user", new.u >> \in raced
    BY <1>4, <1>5, <1>9 DEF MayJoin, NoneAtKKU, Of
  <2>7. OneAtKKU'
    <3> SUFFICES ASSUME NEW r \in link', NEW q \in link', r # q, r.provider = "kku", q.provider = "kku", r.u = q.u
                 PROVE  << "user", r.u >> \in raced'
      BY DEF OneAtKKU
    <3>1. r \in link /\ q \in link => << "user", r.u >> \in raced
      BY DEF LinksInv, OneAtKKU
    <3> QED BY <1>6, <2>1, <2>6, <3>1
  <2> QED BY <1>6, <1>8, <2>3, <2>5, <2>7 DEF LinksInv
<1>10. CASE s.do = "point"
  <2> DEFINE moved(r) == IF r.id = s.id THEN [r EXCEPT !.pid = s.pid] ELSE r
  <2>1. link' = {moved(r) : r \in link} /\ nextLink' = nextLink
    BY <1>1, <1>10
  <2>2. ASSUME NEW r \in link
        PROVE  /\ moved(r).id = r.id /\ moved(r).u = r.u /\ moved(r).provider = r.provider
               /\ moved(r).pid = IF r.id = s.id THEN s.pid ELSE r.pid
    <3>1. r = [id |-> r.id, u |-> r.u, provider |-> r.provider, pid |-> r.pid]
      BY DEF LinksInv, Rows, IsRow
    <3> QED BY <3>1
  <2>6. ASSUME NEW r \in link PROVE IsRow(moved(r))
    <3>1. r = [id |-> r.id, u |-> r.u, provider |-> r.provider, pid |-> r.pid]
      BY DEF LinksInv, Rows, IsRow
    <3> QED BY <3>1 DEF IsRow
  <2> HIDE DEF moved
  <2>3. Rows'
    <3>1. \A r \in link : \A q \in link : r.id = q.id => moved(r) = moved(q)
      BY DEF LinksInv, Rows
    <3> QED BY <2>1, <2>2, <2>6, <3>1 DEF LinksInv, Rows
  <2>4. OneUser'
    <3> SUFFICES ASSUME NEW r \in link, NEW q \in link, NEW pid, r.provider = q.provider,
                        moved(r).pid = pid, moved(q).pid = pid, r.u # q.u
                 PROVE  Excused(pid)'
      BY <2>1, <2>2 DEF OneUser
    <3>1. r.id # q.id
      BY DEF LinksInv, Rows
    <3>2. \A x \in link : x.id = s.id => x.u = s.u /\ Own(s.u, x.provider, s.pid)
      BY <1>5, <1>10 DEF MayJoin
    <3>3. CASE r.id # s.id /\ q.id # s.id
      BY <1>6, <2>2, <3>3 DEF LinksInv, OneUser
    <3>4. CASE r.id = s.id
      BY <1>6, <2>2, <3>1, <3>2, <3>4 DEF Own, With
    <3>5. CASE q.id = s.id
      BY <1>6, <2>2, <3>1, <3>2, <3>5 DEF Own, With
    <3> QED BY <3>3, <3>4, <3>5
  <2>5. OneAtKKU'
    <3> SUFFICES ASSUME NEW r \in link, NEW q \in link, moved(r) # moved(q),
                        r.provider = "kku", q.provider = "kku", r.u = q.u
                 PROVE  << "user", r.u >> \in raced'
      BY <2>1, <2>2 DEF OneAtKKU
    <3> QED BY <1>6 DEF LinksInv, OneAtKKU
  <2> QED BY <1>6, <1>8, <2>3, <2>4, <2>5 DEF LinksInv
<1> QED BY <1>1, <1>9, <1>10

LEMMA AccountsInvInit ==
  ASSUME MCInit
  PROVE  AccountsInv
<1>1. /\ \/ \E kind \in {"u", "s"} : token = Signed(1, kind) \o Signed(2, "u")
         \/ token = Signed(1, "u") \/ token = << >>
      /\ root = [j \in DOMAIN token |-> j]
      /\ now = 0 /\ link = {} /\ request = [c \in Requests |-> << >>]
      /\ before = [c \in Requests |-> 0] /\ changed = [u \in Users |-> 0]
  BY DEF MCInit
<1> DEFINE T == {t \in Tok : t.owner \in Users /\ t.start = 0 /\ t.at = 0}
<1>2. token \in Seq(T)
  <2>1. \A u \in {1, 2}, kind \in {"u", "s"} : Signed(u, kind) \in Seq(T)
    BY MCAccountsAssumption DEF Signed, Tok
  <2> HIDE DEF T
  <2>2. \A kind \in {"u", "s"} : Signed(1, kind) \o Signed(2, "u") \in Seq(T)
    BY <2>1, ConcatProperties
  <2>3. << >> \in Seq(T)
    BY EmptySeq
  <2> QED BY <1>1, <2>1, <2>2, <2>3
<1> HIDE DEF T
<1>3. Len(token) \in Nat /\ DOMAIN token = 1 .. Len(token) /\ \A j \in 1 .. Len(token) : token[j] \in T
  BY <1>2, LenProperties, ElementOfSeq
<1> USE DEF T
<1>4. token \in Seq(Tok)
  BY <1>2, SeqMonotonic
<1>5. Shape /\ LinksHaveUsers /\ TokensKept
  BY <1>1, <1>3, <1>4 DEF Shape, LinksHaveUsers, TokensKept
<1>6. Listed /\ AllFit /\ NoLateRenewal /\ Overlaps
  <2>1. \A c \in Requests : IsList(request[c]) /\ ToSet(request[c]) = {}
    BY <1>1, ShortLists
  <2> QED BY <2>1 DEF Listed, Single, AllFit, NoLateRenewal, Overlaps, Concerns
<1>7. Descends
  <2>1. root \in [1 .. Len(token) -> Nat]
    <3>1. root = [j \in 1 .. Len(token) |-> j]
      BY <1>1, <1>3
    <3> QED BY <1>3, <3>1
  <2>2. root \in Seq(Nat) /\ Len(root) = Len(token)
    BY <1>3, <2>1, IsASeq, LenProperties
  <2>3. \A j \in 1 .. Len(token) : SessionStart(j) = 0 /\ token[j].at = 0 /\ root[j] = j
    BY <1>1, <1>3, AccountsAssumption DEF SessionStart
  <2> QED BY <1>3, <2>2, <2>3, AccountsAssumption DEF Descends
<1>8. Histories
  <2> HIDE DEF T
  <2>1. before \in [Requests -> Nat] /\ changed \in [Users -> Nat]
    BY <1>1
  <2>2. \A c \in Requests : before[c] = 0
    BY <1>1
  <2>3. \A u \in Users : changed[u] = 0
    BY <1>1
  <2>4. 0 <= Len(token)
    BY <1>3
  <2> QED BY <2>1, <2>2, <2>3, <2>4 DEF Histories
<1>9. Ended
  <2>1. \A j \in 1 .. Len(token) : root[j] = j /\ token[j].owner \in Users
    BY <1>1, <1>3
  <2>2. \A u \in Users : changed[u] = 0
    BY <1>1
  <2>3. \A j \in 1 .. Len(token) : ~ (root[j] <= changed[token[j].owner])
    BY <2>1, <2>2
  <2> QED BY <1>3, <2>3 DEF Ended
<1> QED BY <1>5, <1>6, <1>7, <1>8, <1>9 DEF AccountsInv

LEMMA LinksInvInit ==
  ASSUME MCInit
  PROVE  LinksInv
<1>1. link = {} /\ nextLink = 1 /\ request = [c \in Requests |-> << >>]
  BY DEF MCInit
<1>2. \A c \in Requests : request[c] = << >> /\ ToSet(request[c]) = {}
  BY <1>1, ShortLists
<1>3. Joining /\ Meet
  BY <1>2 DEF Joining, Meet, OfOneUser
<1> QED BY <1>1, <1>3 DEF LinksInv, Rows, OneUser, OneAtKKU, Orphans

LEMMA PasswordsInvInit ==
  ASSUME MCInit
  PROVE  PasswordsInv
<1>1. /\ user = [u \in Users |-> user[u]] /\ reset = {}
      /\ request = [c \in Requests |-> << >>]
      /\ \A u \in Users : user[u] = NoUser \/ \E v, e, b, m : user[u] = Row(v, e, b, m)
  <2>1. PICK second, e, active : user = Residents(second, e, active)
    <3>1. MCUsers
      BY DEF MCInit
    <3> QED BY <3>1, Zenon DEF MCUsers
  <2> DEFINE a == Row(1, 1, TRUE, second)
             b == Row(2, e, active, "off")
  <2>5. (\E v, x, y, m : a = Row(v, x, y, m)) /\ (\E v, x, y, m : b = Row(v, x, y, m))
    BY Zenon
  <2> HIDE DEF a, b
  <2>2. user = [u \in Users |-> CASE u = 1 -> a [] u = 2 /\ scenario \in {"staff", "links"} -> b
                                  [] OTHER -> NoUser]
    BY <2>1 DEF a, b, Residents
  <2>6. \A u \in Users : user[u] \in {a, b, NoUser}
    BY <2>2
  <2>3. user = [u \in Users |-> user[u]]
    BY <2>2
  <2>4. \A u \in Users : user[u] = NoUser \/ \E v, x, y, m : user[u] = Row(v, x, y, m)
    BY <2>5, <2>6, Zenon
  <2> QED BY <2>3, <2>4 DEF MCInit
<1>2. \A v, e, b, m : "password" \in DOMAIN Row(v, e, b, m)
  BY DEF Row
<1>3. \A c \in Requests : request[c] = << >> /\ ToSet(request[c]) = {}
  BY <1>1, ShortLists
<1>4. \A c \in Requests : SavesFirst(request[c]) /\ KeepsPassword(c)
  BY <1>3 DEF SavesFirst, KeepsPassword, SavesWell
<1>5. UserRows
  BY <1>1, <1>2 DEF UserRows
<1> QED BY <1>1, <1>3, <1>4, <1>5 DEF PasswordsInv, SavesMeet, ResetsHaveUsers

\* Requests go on, and what they will save still has the password, or others that write
\* the row are remembered.
LEMMA PasswordsKept ==
  ASSUME PasswordsInv, Listed, Remember, UserRows', ResetsHaveUsers',
         \A c \in Requests :
           \/ Saving(request'[c]) /\ (SavesWell(request[c])' \/ c \in admin')
           \/ /\ request'[c] = request[c] /\ (c \in admin => c \in admin')
              /\ \A s \in ToSet(request[c]) :
                   Rewrites(s) => << "user", s.u >> \in raced \/ user'[s.u].password = user[s.u].password
  PROVE  PasswordsInv'
<1>1. raced \subseteq raced' /\ SavesMeet'
  BY OverlapsAreSeen
<1>2. ASSUME NEW c \in Requests
      PROVE  /\ SavesFirst(request'[c]) /\ KeepsPassword(c)'
             /\ \A s \in ToSet(request'[c]) : WellMade(s)
  <2>1. CASE Saving(request'[c]) /\ (SavesWell(request[c])' \/ c \in admin')
    BY <2>1 DEF Saving, KeepsPassword
  <2>2. CASE /\ request'[c] = request[c] /\ (c \in admin => c \in admin')
             /\ \A s \in ToSet(request[c]) :
                  Rewrites(s) => << "user", s.u >> \in raced \/ user'[s.u].password = user[s.u].password
    <3>1. SavesFirst(request[c]) /\ KeepsPassword(c) /\ \A s \in ToSet(request[c]) : WellMade(s)
      BY DEF PasswordsInv
    <3>2. request[c] # << >> => Head(request[c]) \in ToSet(request[c])
      BY TailOfList DEF Listed
    <3>3. KeepsPassword(c)'
      <4>1. CASE c \in admin
        BY <2>2, <4>1 DEF KeepsPassword
      <4>2. CASE request[c] # << >> /\ << "user", Head(request[c]).u >> \in raced
        BY <1>1, <2>2, <4>2 DEF KeepsPassword
      <4>3. CASE SavesWell(request[c])
        <5>1. CASE request[c] # << >> /\ Head(request[c]).do = "save"
          <6>1. Rewrites(Head(request[c]))
            BY <5>1 DEF Rewrites
          <6>2. \/ << "user", Head(request[c]).u >> \in raced'
                \/ user'[Head(request[c]).u].password = user[Head(request[c]).u].password
            BY <1>1, <2>2, <3>2, <5>1, <6>1
          <6> QED BY <2>2, <4>3, <5>1, <6>2 DEF KeepsPassword, SavesWell
        <5>2. CASE ~ (request[c] # << >> /\ Head(request[c]).do = "save")
          BY <2>2, <5>2 DEF KeepsPassword, SavesWell
        <5> QED BY <5>1, <5>2
      <4> QED BY <3>1, <4>1, <4>2, <4>3 DEF KeepsPassword
    <3> QED BY <2>2, <3>1, <3>3
  <2> QED BY <2>1, <2>2
<1> QED BY <1>1, <1>2 DEF PasswordsInv

\* A row is written.
LEMMA RowWritten ==
  ASSUME UserRows, NEW u, NEW row, user' = [user EXCEPT ![u] = row], u \in Users => "password" \in DOMAIN row
  PROVE  /\ UserRows' /\ (u \in Users => user'[u] = row)
         /\ \A v \in Users : v # u => user'[v] = user[v]
<1>1. user = [v \in Users |-> user[v]]
  BY DEF UserRows
<1>2. user' = [v \in Users |-> IF v = u THEN row ELSE user[v]]
  BY <1>1
<1>3. \A v \in Users : user'[v] = IF v = u THEN row ELSE user[v]
  BY <1>2
<1>4. user' = [v \in Users |-> user'[v]]
  BY <1>2, <1>3
<1> QED BY <1>3, <1>4 DEF UserRows

LEMMA TailSaves ==
  ASSUME NEW todo, IsList(todo), Saving(todo), todo # << >>
  PROVE  /\ Saving(Tail(todo))
         /\ Tail(todo) # << >> => Head(Tail(todo)).do # "save"
         /\ Saving(<< >>)
         /\ \A x : WellMade(x) => Saving(<< x >> \o Tail(todo)) /\ Head(<< x >> \o Tail(todo)) = x
<1> DEFINE rest == Tail(todo)
<1>1. IsList(rest) /\ ToSet(rest) \subseteq ToSet(todo) /\ \A s \in ToSet(rest) : ~ Rewrites(s)
  BY TailOfList DEF Saving, SavesFirst
<1>2. rest # << >> => Head(rest) \in ToSet(rest) /\ ToSet(Tail(rest)) \subseteq ToSet(rest)
  BY <1>1, TailOfList
<1>3. Saving(rest) /\ (rest # << >> => Head(rest).do # "save")
  BY <1>1, <1>2 DEF Saving, SavesFirst, Rewrites
<1>4. Saving(<< >>)
  BY ShortLists DEF Saving, SavesFirst
<1>5. ASSUME NEW x, WellMade(x) PROVE Saving(<< x >> \o rest) /\ Head(<< x >> \o rest) = x
  <2> HIDE DEF rest
  <2>1. Tail(<< x >> \o rest) = rest /\ ToSet(<< x >> \o rest) = {x} \cup ToSet(rest)
    BY <1>1, TailOfJoined, ConcatOfLists, ShortLists
  <2>2. Head(<< x >> \o rest) = x
    <3> DEFINE S == ToSet(rest) \cup {x}
    <3>1. rest \in Seq(S) /\ << x >> \in Seq(S)
      <4>1. rest \in Seq(ToSet(rest))
        BY <1>1 DEF IsList
      <4> QED BY <4>1, SeqMonotonic
    <3>2. Len(<< x >>) = 1 /\ << x >>[1] = x
      OBVIOUS
    <3> HIDE DEF S
    <3>3. /\ << x >> \o rest \in Seq(S) /\ Len(<< x >> \o rest) = 1 + Len(rest)
          /\ Len(rest) \in Nat /\ (<< x >> \o rest)[1] = x
      BY <3>1, <3>2, ConcatProperties, LenProperties
    <3>4. << x >> \o rest # << >>
      BY <3>3
    <3> QED BY <3>3, <3>4, HeadTailProperties
  <2>3. \A s \in ToSet(<< x >> \o rest) : WellMade(s)
    BY <1>3, <1>5, <2>1 DEF Saving
  <2> QED BY <1>1, <2>1, <2>2, <2>3 DEF Saving, SavesFirst
<1> QED BY <1>3, <1>4, <1>5

\* The request goes on to its next statement.
LEMMA GoesOnSaving ==
  ASSUME AccountsInv, PasswordsInv, Remember, UNCHANGED admin, UserRows', ResetsHaveUsers',
         NEW c \in Requests, NEW todo, request[c] # << >>, request' = [request EXCEPT ![c] = todo],
         \/ todo \in {Tail(request[c]), << >>}
         \/ \E x : /\ WellMade(x) /\ todo = << x >> \o Tail(request[c])
                   /\ x.do = "save" => x.row.password = user'[x.u].password,
         \A d \in Requests \ {c} : \A s \in ToSet(request[d]) :
           Rewrites(s) => << "user", s.u >> \in raced \/ user'[s.u].password = user[s.u].password
  PROVE  PasswordsInv'
<1>1. request'[c] = todo /\ \A d \in Requests \ {c} : request'[d] = request[d]
  BY DEF AccountsInv, Shape
<1>2. IsList(request[c]) /\ Saving(request[c])
  BY DEF AccountsInv, Listed, PasswordsInv, Saving
<1>3. Saving(todo) /\ SavesWell(request[c])'
  <2>1. CASE todo = Tail(request[c])
    BY <1>1, <1>2, <2>1, TailSaves DEF SavesWell
  <2>2. CASE todo = << >>
    BY <1>1, <1>2, <2>2, TailSaves DEF SavesWell
  <2>3. CASE \E x : /\ WellMade(x) /\ todo = << x >> \o Tail(request[c])
                    /\ x.do = "save" => x.row.password = user'[x.u].password
    <3>1. PICK x : /\ WellMade(x) /\ todo = << x >> \o Tail(request[c])
                   /\ x.do = "save" => x.row.password = user'[x.u].password
      BY <2>3
    <3>2. Saving(todo) /\ Head(todo) = x
      BY <1>2, <3>1, TailSaves
    <3> QED BY <1>1, <3>1, <3>2 DEF SavesWell
  <2> QED BY <2>1, <2>2, <2>3
<1>4. Listed
  BY DEF AccountsInv
<1> QED BY <1>1, <1>3, <1>4, PasswordsKept

\* All passwords stay.
LEMMA PasswordsStay ==
  ASSUME PasswordsInv, \A u \in Users : user'[u].password = user[u].password
  PROVE  \A c \in Requests : \A s \in ToSet(request[c]) :
           Rewrites(s) => user'[s.u].password = user[s.u].password
BY DEF PasswordsInv, WellMade

\* A statement changes columns of a row that is there.
LEMMA ColumnsWritten ==
  ASSUME UserRows, NEW u, NEW row, user' = user \/ (Present(u) /\ user' = [user EXCEPT ![u] = row]),
         u \in Users /\ Present(u) => "password" \in DOMAIN row /\ row.password = user[u].password
  PROVE  UserRows' /\ \A v \in Users : user'[v].password = user[v].password
<1>1. CASE user' = user
  BY <1>1 DEF UserRows
<1>2. CASE Present(u) /\ user' = [user EXCEPT ![u] = row]
  BY <1>2, RowWritten
<1> QED BY <1>1, <1>2

\* Two columns of a row, written together.
LEMMA StoredRow ==
  ASSUME UserRows, NEW u, NEW codes, NEW second, Present(u), u \in Users => "password" \in DOMAIN user[u],
         user' = [user EXCEPT ![u].codes = codes, ![u].second = second]
  PROVE  user' = [user EXCEPT ![u] = [user[u] EXCEPT !.codes = codes, !.second = second]]
BY DEF UserRows

LEMMA RunningKeepsPasswords ==
  ASSUME AccountsInv, PasswordsInv, Remember, UNCHANGED admin, NEW c \in Requests,
         Running(c) \/ RunningLinks(c)
  PROVE  PasswordsInv'
<1> DEFINE s == Head(request[c])
<1>0. /\ UserRows /\ ResetsHaveUsers
      /\ request[c] # << >> => s \in ToSet(request[c]) /\ WellMade(s)
  BY TailOfList DEF AccountsInv, Listed, PasswordsInv
<1>1. ASSUME RunSave(c) PROVE PasswordsInv'
  <2>1. request[c] # << >> /\ Rewrites(s) /\ UNCHANGED reset
    BY <1>1 DEF RunSave, Next1, Rewrites
  <2>2. s.u \in Users /\ "password" \in DOMAIN s.row
    BY <1>0, <2>1 DEF WellMade
  <2>3. \/ request' = [request EXCEPT ![c] = << >>] /\ UNCHANGED user
        \/ request' = [request EXCEPT ![c] = Tail(request[c])] /\ user' = [user EXCEPT ![s.u] = s.row]
    BY <1>1 DEF RunSave, Abort, Advance
  <2>4. UserRows' /\ \A v \in Users : v # s.u => user'[v] = user[v]
    BY <1>0, <2>2, <2>3, RowWritten DEF UserRows
  <2>5. ASSUME NEW d \in Requests \ {c}, NEW t \in ToSet(request[d]), Rewrites(t)
        PROVE  << "user", t.u >> \in raced \/ user'[t.u].password = user[t.u].password
    <3>1. t.u \in Users
      BY <2>5 DEF PasswordsInv, WellMade
    <3>2. t.u = s.u => << "user", t.u >> \in raced
      BY <1>0, <2>1, <2>5 DEF PasswordsInv, SavesMeet
    <3> QED BY <2>4, <3>1, <3>2
  <2>6. ResetsHaveUsers'
    BY <1>0, <2>1 DEF ResetsHaveUsers
  <2> QED BY <2>1, <2>3, <2>4, <2>5, <2>6, GoesOnSaving
<1>2. ASSUME RunFlip(c) PROVE PasswordsInv'
  <2>1. request[c] # << >> /\ s.do = "flip" /\ UNCHANGED << user, reset >>
    BY <1>2 DEF RunFlip, Next1
  <2>2. s.u \in Users
    BY <1>0, <2>1 DEF WellMade
  <2>3. UserRows' /\ ResetsHaveUsers'
    BY <1>0, <2>1 DEF UserRows, ResetsHaveUsers
  <2>4. \/ request' = [request EXCEPT ![c] = << >>]
        \/ /\ Present(s.u)
           /\ request' = [request EXCEPT ![c] =
                            << Save(s.u, [user[s.u] EXCEPT !.active = ~ user[s.u].active]) >> \o Tail(request[c])]
    BY <1>2 DEF RunFlip, Abort
  <2>5. CASE request' = [request EXCEPT ![c] = << >>]
    BY <2>1, <2>3, <2>5, GoesOnSaving
  <2>6. CASE Present(s.u) /\ request' = [request EXCEPT ![c] =
                 << Save(s.u, [user[s.u] EXCEPT !.active = ~ user[s.u].active]) >> \o Tail(request[c])]
    <3> DEFINE row == [user[s.u] EXCEPT !.active = ~ user[s.u].active]
               x == Save(s.u, row)
    <3>1. "password" \in DOMAIN row /\ row.password = user[s.u].password
      BY <1>0, <2>2, <2>6, ColumnsOfRows
    <3>2. x.do = "save" /\ x.u = s.u /\ x.row = row
      BY SaveStatements
    <3>3. request' = [request EXCEPT ![c] = << x >> \o Tail(request[c])]
      BY <2>6
    <3> HIDE DEF x, row
    <3>4. WellMade(x) /\ x.row.password = user'[x.u].password
      BY <2>1, <2>2, <3>1, <3>2 DEF WellMade
    <3> HIDE DEF s
    <3> QED BY <2>1, <2>3, <3>3, <3>4, GoesOnSaving
  <2> QED BY <2>4, <2>5, <2>6
<1>3. ASSUME RunStore(c) \/ RunGoogle(c) PROVE PasswordsInv'
  <2>1. /\ request[c] # << >> /\ UNCHANGED reset
        /\ request' = [request EXCEPT ![c] = Tail(request[c])]
    BY <1>3 DEF RunStore, RunGoogle, Next1, Advance
  <2>2. \E row : /\ user' = user \/ (Present(s.u) /\ user' = [user EXCEPT ![s.u] = row])
                 /\ s.u \in Users /\ Present(s.u) => "password" \in DOMAIN row /\ row.password = user[s.u].password
    <3>1. s.u \in Users /\ Present(s.u) => "password" \in DOMAIN user[s.u]
      BY <1>0, ColumnsOfRows
    <3>2. CASE RunGoogle(c)
      <4> DEFINE row == [user[s.u] EXCEPT !.google = s.pid]
      <4>1. user' = user \/ (Present(s.u) /\ user' = [user EXCEPT ![s.u] = row])
        BY <3>2 DEF RunGoogle
      <4>2. s.u \in Users /\ Present(s.u) => "password" \in DOMAIN row /\ row.password = user[s.u].password
        BY <3>1
      <4> HIDE DEF row
      <4> QED BY <4>1, <4>2
    <3>3. CASE RunStore(c)
      <4> DEFINE second == IF s.do = "second" THEN s.second ELSE user[s.u].second
                 mid == [user EXCEPT ![s.u].codes = s.codes]
                 row == [user[s.u] EXCEPT !.codes = s.codes, !.second = second]
      <4>1. user' = user \/ (Present(s.u) /\ user' = [user EXCEPT ![s.u] = row])
        BY <1>0, <3>3, <3>1, StoredRow DEF RunStore
      <4>2. s.u \in Users /\ Present(s.u) => "password" \in DOMAIN row /\ row.password = user[s.u].password
        BY <3>1
      <4> HIDE DEF row
      <4> QED BY <4>1, <4>2
    <3> QED BY <1>3, <3>2, <3>3
  <2>3. UserRows' /\ \A v \in Users : user'[v].password = user[v].password
    BY <1>0, <2>2, ColumnsWritten
  <2>4. ResetsHaveUsers'
    BY <1>0, <2>1 DEF ResetsHaveUsers
  <2> QED BY <2>1, <2>3, <2>4, PasswordsStay, GoesOnSaving
<1>4. ASSUME RunReset(c) PROVE PasswordsInv'
  <2>1. /\ request[c] # << >> /\ UNCHANGED user
        /\ request' = [request EXCEPT ![c] = Tail(request[c])]
    BY <1>4 DEF RunReset, Next1, Advance
  <2>2. s.do = "reset" => s.u \in Users
    BY <1>0, <2>1 DEF WellMade
  <2>3. ASSUME NEW q \in reset' PROVE q.u \in Users
    <3>1. CASE Next1(c, "unreset")
      <4>1. reset' \subseteq reset \/ ~ (reset' \subseteq reset)
        OBVIOUS
      <4>2. q \in reset \/ Next1(c, "reset") \/ Next1(c, "mark")
        BY <1>4 DEF RunReset
      <4> QED BY <1>0, <3>1, <4>2 DEF ResetsHaveUsers, Next1
    <3>2. CASE Next1(c, "reset")
      <4>1. reset' = reset \cup {[id |-> Max({0} \cup {r.id : r \in reset}) + 1,
                                  u |-> s.u, at |-> now, used |-> FALSE]}
        BY <1>4, <3>2 DEF RunReset, Next1
      <4> QED BY <1>0, <2>2, <3>2, <4>1 DEF ResetsHaveUsers, Next1
    <3>3. CASE Next1(c, "mark")
      <4>1. reset' = {IF r.id = s.id THEN [r EXCEPT !.used = TRUE] ELSE r : r \in reset}
        BY <1>4, <3>3 DEF RunReset, Next1
      <4>2. PICK r \in reset : q = IF r.id = s.id THEN [r EXCEPT !.used = TRUE] ELSE r
        BY <4>1
      <4>3. q.u = r.u
        BY <4>2
      <4> QED BY <1>0, <4>3 DEF ResetsHaveUsers
    <3> QED BY <1>4, <3>1, <3>2, <3>3 DEF RunReset
  <2>4. ResetsHaveUsers' /\ UserRows'
    BY <1>0, <2>1, <2>3 DEF ResetsHaveUsers, UserRows
  <2> QED BY <2>1, <2>4, PasswordsStay, GoesOnSaving
<1>5. ASSUME RunPending(c) \/ RunRevoke(c) \/ RunRevokeAll(c) \/ RunMint(c) \/ RunLink(c) PROVE PasswordsInv'
  <2>1. /\ request[c] # << >> /\ UNCHANGED << user, reset >>
        /\ request' = [request EXCEPT ![c] = Tail(request[c])]
    BY <1>5 DEF RunPending, RunRevoke, RunRevokeAll, RunMint, RunLink, Others, Next1, Advance
  <2>2. UserRows' /\ ResetsHaveUsers'
    BY <1>0, <2>1 DEF UserRows, ResetsHaveUsers
  <2> QED BY <2>1, <2>2, PasswordsStay, GoesOnSaving
<1>6. ASSUME RunFirst(c) PROVE PasswordsInv'
  <2>0. request[c] # << >> /\ UNCHANGED << user, reset >>
    BY <1>6 DEF RunFirst, Next1, Others
  <2> DEFINE x == IF Of(s.u, s.provider) = {} THEN AddLink(s.u, s.provider, s.pid)
                   ELSE Point(First(Of(s.u, s.provider)), s.pid)
  <2>5. request' = [request EXCEPT ![c] = << x >> \o Tail(request[c])]
    BY <1>6 DEF RunFirst
  <2>1. x.do \in {"link", "point"}
    <3>1. \A u, provider, pid : AddLink(u, provider, pid).do = "link"
      BY DEF AddLink
    <3>2. \A r, pid : Point(r, pid).do = "point"
      BY DEF Point
    <3> QED BY <3>1, <3>2
  <2> HIDE DEF x
  <2>2. UserRows' /\ ResetsHaveUsers'
    BY <1>0, <2>0 DEF UserRows, ResetsHaveUsers
  <2>3. WellMade(x) /\ x.do # "save"
    BY <2>1 DEF WellMade, Rewrites
  <2>4. \A d \in Requests : \A t \in ToSet(request[d]) :
          Rewrites(t) => user'[t.u].password = user[t.u].password
    BY <2>0, PasswordsStay
  <2> HIDE DEF s
  <2> QED BY <2>0, <2>2, <2>3, <2>4, <2>5, GoesOnSaving
<1> QED BY <1>1, <1>2, <1>3, <1>4, <1>5, <1>6 DEF Running, RunningLinks

LEMMA PasswordsInvStep ==
  ASSUME AccountsInv, LinksInv, PasswordsInv, MCNext
  PROVE  PasswordsInv'
<1>0. Remember /\ Listed /\ UserRows /\ ResetsHaveUsers
  BY DEF MCNext, AccountsInv, PasswordsInv
<1>1. ASSUME NEW c \in Requests, Begins(c), admin' = admin \ {c} PROVE PasswordsInv'
  <2>1. PICK todo : Startable(todo) /\ Begin(c, todo)
    BY <1>1, BeginsWell DEF Arrives
  <2>2. /\ request'[c] = todo /\ \A d \in Requests \ {c} : request'[d] = request[d]
        /\ UNCHANGED << user, reset >>
    BY <2>1 DEF Begin, Start, Others, AccountsInv, Shape
  <2>3. UserRows' /\ ResetsHaveUsers'
    BY <1>0, <2>2 DEF UserRows, ResetsHaveUsers
  <2>4. Saving(request'[c]) /\ SavesWell(request[c])'
    BY <2>1, <2>2 DEF Startable, SavesWell
  <2> QED BY <1>0, <1>1, <2>2, <2>3, <2>4, PasswordsKept
<1>2. ASSUME NEW c \in Requests, Administers(c), admin' = admin \cup {c} PROVE PasswordsInv'
  <2>1. PICK todo : Saving(todo) /\ Begin(c, todo)
    BY <1>0, <1>2, EditIsProper DEF Administers
  <2>2. /\ request'[c] = todo /\ \A d \in Requests \ {c} : request'[d] = request[d]
        /\ UNCHANGED << user, reset >>
    BY <2>1 DEF Begin, Start, Others, AccountsInv, Shape
  <2>3. UserRows' /\ ResetsHaveUsers'
    BY <1>0, <2>2 DEF UserRows, ResetsHaveUsers
  <2> QED BY <1>0, <1>2, <2>1, <2>2, <2>3, PasswordsKept
<1>3. ASSUME AtOnce, UNCHANGED admin PROVE PasswordsInv'
  <2>1. UNCHANGED << request, reset >>
    BY <1>3 DEF AtOnce, Logout, RevokeSession, RevokeAllSessionsHandler, SwitchStudent, PendingExpires,
           DeleteUserHandler, AdminUnlinkAccountHandler, accountVars
  <2>2. UserRows' /\ \A v \in Users : user'[v].password = user[v].password
    <3>1. CASE UNCHANGED user
      BY <1>0, <3>1 DEF UserRows
    <3>2. CASE DeleteUserHandler
      <4>1. PICK u \in Users : Present(u) /\ user' = [user EXCEPT ![u].here = FALSE]
        BY <3>2 DEF DeleteUserHandler
      <4> DEFINE row == [user[u] EXCEPT !.here = FALSE]
      <4>2. "password" \in DOMAIN row /\ row.password = user[u].password
        BY <1>0, <4>1, ColumnsOfRows
      <4>3. user' = [user EXCEPT ![u] = row]
        BY <4>1
      <4> HIDE DEF row
      <4> QED BY <1>0, <4>1, <4>2, <4>3, ColumnsWritten
    <3> QED BY <1>3, <3>1, <3>2
            DEF AtOnce, Logout, RevokeSession, RevokeAllSessionsHandler, SwitchStudent, PendingExpires,
                AdminUnlinkAccountHandler, accountVars
  <2>3. ResetsHaveUsers'
    BY <1>0, <2>1 DEF ResetsHaveUsers
  <2> QED BY <1>0, <1>3, <2>1, <2>2, <2>3, PasswordsStay, PasswordsKept
<1>4. ASSUME NEW c \in Requests, Running(c) \/ RunningLinks(c), UNCHANGED admin PROVE PasswordsInv'
  BY <1>0, <1>4, RunningKeepsPasswords
<1>5. ASSUME Hour, UNCHANGED admin PROVE PasswordsInv'
  <2>1. UNCHANGED << request, reset, user >>
    BY <1>5 DEF Hour, Tick
  <2>2. UserRows' /\ ResetsHaveUsers'
    BY <1>0, <2>1 DEF UserRows, ResetsHaveUsers
  <2> QED BY <1>0, <1>5, <2>1, <2>2, PasswordsKept
<1> QED BY <1>1, <1>2, <1>3, <1>4, <1>5 DEF MCNext

\* Only a request that ends the sessions changes a password, or an overlap is remembered.
LEMMA PasswordsGrow ==
  ASSUME AccountsInv, LinksInv, PasswordsInv, MCNext
  PROVE  Grows
<1>0. Remember /\ Histories /\ Shape
  BY DEF MCNext, AccountsInv
<1>1. ASSUME \A d \in Requests, u \in Users : ~ ChangesPassword(d, u) PROVE Grows
  BY <1>0, <1>1, CountsKept DEF Grows
<1>2. ASSUME NEW c \in Requests, Begins(c) \/ Administers(c) PROVE Grows
  <2>1. PICK todo : Begin(c, todo)
    BY <1>2, BeginsWell, EditIsProper DEF Administers, Arrives, PasswordsInv
  <2>2. UNCHANGED user
    BY <2>1 DEF Begin, Others
  <2> QED BY <1>0, <2>2, NothingChanges DEF Grows
<1>3. ASSUME UNCHANGED request PROVE Grows
  BY <1>1, <1>3 DEF ChangesPassword
<1>4. AtOnce \/ Hour => UNCHANGED request
  BY DEF AtOnce, Logout, RevokeSession, RevokeAllSessionsHandler, SwitchStudent, PendingExpires,
         DeleteUserHandler, AdminUnlinkAccountHandler, accountVars, Hour, Tick
<1>5. ASSUME NEW c \in Requests, Running(c) \/ RunningLinks(c), ~ Next1(c, "save") PROVE Grows
  <2>1. \E todo : request' = [request EXCEPT ![c] = todo]
    BY <1>5 DEF Running, RunSave, RunFlip, RunStore, RunPending, RunRevoke, RunRevokeAll, RunMint, RunReset,
           RunningLinks, RunFirst, RunLink, RunGoogle, Advance, Abort
  <2>2. \A d \in Requests \ {c} : request'[d] = request[d]
    BY <1>0, <2>1 DEF Shape
  <2> QED BY <1>1, <1>5, <2>2 DEF ChangesPassword
<1>6. ASSUME NEW c \in Requests, Running(c) \/ RunningLinks(c), Next1(c, "save") PROVE Grows
  <2> DEFINE s == Head(request[c])
  <2>1. RunSave(c)
    BY <1>6 DEF Running, RunFlip, RunStore, RunPending, RunRevoke, RunRevokeAll, RunMint, RunReset,
           RunningLinks, RunFirst, RunLink, RunGoogle, Next1
  <2>2. CASE UNCHANGED user
    BY <1>0, <2>2, NothingChanges DEF Grows
  <2>3. CASE user' # user
    <3>1. /\ request' = [request EXCEPT ![c] = Tail(request[c])] /\ user' = [user EXCEPT ![s.u] = s.row]
          /\ request[c] # << >> /\ s.do = "save"
      BY <1>6, <2>1, <2>3 DEF RunSave, Abort, Advance, Next1
    <3>2. request'[c] = Tail(request[c]) /\ \A d \in Requests \ {c} : request'[d] = request[d]
      BY <1>0, <3>1 DEF Shape
    <3>3. s \in ToSet(request[c]) /\ WellMade(s) /\ KeepsPassword(c) /\ UserRows
      BY <3>1, TailOfList DEF AccountsInv, Listed, PasswordsInv
    <3>4. s.u \in Users /\ "password" \in DOMAIN s.row
      BY <3>1, <3>3 DEF WellMade, Rewrites
    <3>5. user'[s.u] = s.row
      BY <3>1, <3>3, <3>4, RowWritten
    <3>6. raced \subseteq raced'
      BY <1>0, OverlapsAreSeen
    <3> SUFFICES ASSUME NEW u \in Users
                 PROVE  \/ changed'[u] = changed[u]
                        \/ /\ changed'[u] \in Nat /\ changed'[u] <= Len(token)
                           /\ << "user", u >> \in raced' \/ \E d \in Requests : EndsChange(request'[d], u)
      BY DEF Grows
    <3>7. \A d \in Requests : d # c => ~ ChangesPassword(d, u)
      BY <3>2 DEF ChangesPassword
    <3>8. CASE ~ ChangesPassword(c, u)
      BY <1>0, <3>7, <3>8, CountsKept
    <3>9. CASE ChangesPassword(c, u)
      <4>1. u = s.u /\ c \notin admin /\ user'[u].password # user[u].password
        BY <3>9 DEF ChangesPassword
      <4>2. << "user", u >> \in raced \/ ChangeList(request[c], u)
        BY <3>1, <3>3, <3>5, <4>1 DEF KeepsPassword, SavesWell
      <4>3. ChangeList(request[c], u) => EndsChange(request'[c], u)
        BY <3>2, ChangeIsAList
      <4>4. changed'[u] \in Nat /\ changed'[u] <= Len(token)
        BY <1>0, <3>7, CountsBound
      <4> QED BY <3>6, <4>2, <4>3, <4>4
    <3> QED BY <3>8, <3>9
  <2> QED BY <2>2, <2>3
<1> QED BY <1>2, <1>3, <1>4, <1>5, <1>6 DEF MCNext

LEMMA LinksInvStep ==
  ASSUME AccountsInv, LinksInv, PasswordsInv, MCNext
  PROVE  LinksInv'
<1>1. Remember
  BY DEF MCNext
<1>2. ASSUME Quiet, link' \subseteq link, nextLink' = nextLink PROVE LinksInv'
  <2>1. \A c \in Requests :
          /\ OfOneUser(request'[c])
          /\ \A s \in ToSet(request'[c]) : s \in ToSet(request[c]) \/ Harmless(s) \/ MayJoin(s)
    BY <1>2, GoesOn DEF Quiet, AccountsInv, Listed, LinksInv, Joining
  <2> QED BY <1>1, <1>2, <2>1, LinksKept
<1>3. ASSUME NEW c \in Requests, Begins(c) \/ Administers(c) PROVE LinksInv'
  BY <1>2, <1>3, BeginsIsQuiet DEF linkVars
<1>4. ASSUME AtOnce PROVE LinksInv'
  BY <1>2, <1>4, AtOnceIsQuiet
<1>5. ASSUME NEW c \in Requests, RunMint(c) \/ RunRevokeAll(c), UNCHANGED linkVars PROVE LinksInv'
  <2>1. request[c] # << >> /\ request' = [request EXCEPT ![c] = Tail(request[c])]
    BY <1>5 DEF RunMint, RunRevokeAll, Next1, Advance
  <2>2. /\ IsList(request[c]) /\ ToSet(Tail(request[c])) \subseteq ToSet(request[c])
        /\ OfOneUser(Tail(request[c]))
    BY <2>1, TailOfList DEF AccountsInv, Listed, LinksInv, Joining, OfOneUser
  <2>3. request'[c] = Tail(request[c]) /\ \A d \in Requests \ {c} : request'[d] = request[d]
    BY <2>1 DEF AccountsInv, Shape
  <2>4. \A d \in Requests : OfOneUser(request'[d]) /\ ToSet(request'[d]) \subseteq ToSet(request[d])
    BY <2>2, <2>3 DEF LinksInv, Joining
  <2> QED BY <1>1, <1>5, <2>4, LinksKept DEF linkVars
<1>6. ASSUME NEW c \in Requests, Running(c), ~ RunMint(c), ~ RunRevokeAll(c), UNCHANGED linkVars
      PROVE  LinksInv'
  BY <1>2, <1>6, RunningIsQuiet DEF linkVars
<1>7. ASSUME NEW c \in Requests, RunFirst(c) \/ RunGoogle(c) PROVE LinksInv'
  <2>1. UNCHANGED linkVars
    BY <1>7 DEF RunFirst, RunGoogle, linkVars
  <2> QED BY <1>2, <1>7, <2>1, RunningIsQuiet DEF RunningLinks, linkVars
<1>8. ASSUME NEW c \in Requests, RunLink(c) PROVE LinksInv'
  <2>1. CASE Next1(c, "unlink")
    <3>1. link' \subseteq link /\ nextLink' = nextLink
      BY <1>8, <2>1 DEF RunLink, Next1
    <3> QED BY <1>2, <1>8, <3>1, RunningIsQuiet DEF RunningLinks
  <2> QED BY <1>1, <1>8, <2>1, RunLinkStep
<1>9. ASSUME Hour PROVE LinksInv'
  <2>1. UNCHANGED << request, link, nextLink >>
    BY <1>9 DEF Hour, Tick, linkVars
  <2> QED BY <1>1, <2>1, LinksKept DEF LinksInv, Joining
<1> QED BY <1>3, <1>4, <1>5, <1>6, <1>7, <1>8, <1>9 DEF MCNext, RunningLinks

LEMMA AccountsInvStep ==
  ASSUME AccountsInv, LinksInv, PasswordsInv, [MCNext]_mcvars
  PROVE  AccountsInv' /\ LinksInv' /\ PasswordsInv'
<1>1. CASE UNCHANGED mcvars
  <2>1. /\ UNCHANGED << user, token, request, now, link, nextLink >>
        /\ UNCHANGED << root, before, changed, admin, raced, orphaned, reset >>
    BY <1>1 DEF mcvars, vars, accountVars, linkVars
  <2>2. AccountsInv'
    BY <2>1 DEF AccountsInv, Shape, Listed, AllFit, Fits, SessionStart, TokensKept, Descends, Histories,
       Overlaps, Concerns, Ended, NoLateRenewal, LinksHaveUsers
  <2>3. LinksInv'
    BY <2>1 DEF LinksInv, Rows, OneUser, OneAtKKU, Orphans, Present, Joining, MayJoin, Own, NoneAtKKU,
       Excused, With, Of, Meet
  <2>4. PasswordsInv'
    BY <2>1 DEF PasswordsInv, UserRows, SavesMeet, ResetsHaveUsers, KeepsPassword, SavesWell
  <2> QED BY <2>2, <2>3, <2>4
<1>2. CASE MCNext
  <2>1. Remember /\ Grows
    BY <1>2, PasswordsGrow DEF MCNext
  <2>2. ASSUME NEW c \in Requests, Begins(c) \/ Administers(c) PROVE AccountsInv'
    BY <2>1, <2>2, BeginsIsQuiet, QuietStep
  <2>3. ASSUME AtOnce PROVE AccountsInv'
    BY <2>1, <2>3, AtOnceIsQuiet, QuietStep
  <2>4. ASSUME NEW c \in Requests, (Running(c) /\ UNCHANGED linkVars) \/ RunningLinks(c)
        PROVE  AccountsInv'
    <3>1. CASE RunMint(c) /\ UNCHANGED linkVars
      BY <2>1, <3>1, RunMintStep
    <3>2. CASE RunRevokeAll(c) /\ UNCHANGED linkVars
      BY <2>1, <3>2, RunRevokeAllStep
    <3>3. CASE \/ Running(c) /\ ~ RunMint(c) /\ ~ RunRevokeAll(c) /\ UNCHANGED linkVars
               \/ RunningLinks(c)
      BY <2>1, <3>3, RunningIsQuiet, QuietStep
    <3> QED BY <2>4, <3>1, <3>2, <3>3
  <2>5. ASSUME Hour PROVE AccountsInv'
    BY <2>1, <2>5, HourStep
  <2>6. LinksInv' /\ PasswordsInv'
    BY <1>2, LinksInvStep, PasswordsInvStep
  <2> QED BY <1>2, <2>2, <2>3, <2>4, <2>5, <2>6 DEF MCNext
<1> QED BY <1>1, <1>2

\* A session that is renewed again and again is renewed for the last time before it is Cap
\* hours old, counted from the sign-in: RefreshHandler carries the start forward, and
\* falls back on the creation time of a token that stored none.
THEOREM CapIsKept == MCSpec => []SessionsEndAtCap
<1>1. AccountsInv => SessionsEndAtCap
  <2> SUFFICES ASSUME AccountsInv PROVE SessionsEndAtCap
    OBVIOUS
  <2>1. DOMAIN token = 1 .. Len(token)
    BY LenProperties DEF AccountsInv, TokensKept
  <2> QED BY <2>1 DEF AccountsInv, Descends, SessionsEndAtCap
<1>2. MCInit => AccountsInv /\ LinksInv /\ PasswordsInv
  BY AccountsInvInit, LinksInvInit, PasswordsInvInit
<1>3. AccountsInv /\ LinksInv /\ PasswordsInv /\ [MCNext]_mcvars => AccountsInv' /\ LinksInv' /\ PasswordsInv'
  BY AccountsInvStep
<1> QED BY <1>1, <1>2, <1>3, PTL DEF MCSpec

\* Once ChangePassword, ForceChangePassword or ResetPasswordHandler, which alone give a
\* user another password but for an administrator's UpdateUserHandler, has run, no session
\* from before is alive, nor is one renewed later, unless another request of the user was
\* in flight with the change.
THEOREM ChangeEndsAll == MCSpec => []PasswordEndsSessionsSerially
<1>1. AccountsInv => PasswordEndsSessionsSerially
  <2> SUFFICES ASSUME AccountsInv PROVE PasswordEndsSessionsSerially
    OBVIOUS
  <2>1. DOMAIN token = 1 .. Len(token)
    BY LenProperties DEF AccountsInv, TokensKept
  <2>2. \A u : (\E c \in Requests : EndsChange(request[c], u)) => Revoking(u)
    BY ChangeIsAList DEF Revoking
  <2> QED BY <2>1, <2>2 DEF AccountsInv, Ended, PasswordEndsSessionsSerially
<1>2. MCInit => AccountsInv /\ LinksInv /\ PasswordsInv
  BY AccountsInvInit, LinksInvInit, PasswordsInvInit
<1>3. AccountsInv /\ LinksInv /\ PasswordsInv /\ [MCNext]_mcvars => AccountsInv' /\ LinksInv' /\ PasswordsInv'
  BY AccountsInvStep
<1> QED BY <1>1, <1>2, <1>3, PTL DEF MCSpec

\* Whoever signs in with an account at a provider is the user it was linked to, and a
\* user has one account at KKU: the lookups before each link and each change of a row,
\* unless requests overlapped or a row outlived its user, whom findUserByOAuthAccount
\* then no longer finds.
THEOREM LinksAreUnique == MCSpec => []LinksAreUniqueSerially
<1>1. LinksInv => LinksAreUniqueSerially
  BY DEF LinksInv, OneUser, OneAtKKU, Excused, LinksAreUniqueSerially
<1>2. MCInit => AccountsInv /\ LinksInv /\ PasswordsInv
  BY AccountsInvInit, LinksInvInit, PasswordsInvInit
<1>3. AccountsInv /\ LinksInv /\ PasswordsInv /\ [MCNext]_mcvars => AccountsInv' /\ LinksInv' /\ PasswordsInv'
  BY AccountsInvStep
<1> QED BY <1>1, <1>2, <1>3, PTL DEF MCSpec
=============================================================================
