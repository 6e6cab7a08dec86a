---------------------------- MODULE Announcements ----------------------------
(***************************************************************************)
(* Announcements of the administrators: written, edited, published, taken  *)
(* down and deleted; shown on every page to those they address, who        *)
(* acknowledge or dismiss them; and told, when they are published, to      *)
(* inboxes and by mail, from a goroutine that outlives the request.        *)
(*                                                                         *)
(* Sources: handlers/system_settings_handler.go,                           *)
(* repositories/system_settings_repo.go,                                   *)
(* handlers/user_notification_handler.go.                                  *)
(*                                                                         *)
(* Titles, texts, pictures, severity, priority and pages are left out.     *)
(***************************************************************************)
EXTENDS Naturals, FiniteSets

CONSTANTS
  Admins,     \* requests of administrators the server handles at the same time
  Writer,     \* the user who makes each of them
  People,     \* the active users
  Pupils,     \* those who sign in as students, and have no inbox
  RoleOf,     \* the role of each user, as the table has it
  Spelled,    \* roles as a client may send them: the role each is, trimmed and lower-cased
  Empty,      \* what is left of one that is blank
  Payloads,   \* what the composer may send
  MaxNotices, \* bound: announcements written
  MaxFanouts, \* bound: fan-outs of one announcement
  BatchLimit, \* AnnouncementBatchLimit
  Chunk,      \* insertChunkSize
  LastHour,   \* bound: the clock
  Unset       \* a field left out

ASSUME NoticeAssumption ==
  /\ MaxNotices \in Nat /\ MaxFanouts \in Nat /\ LastHour \in Nat
  /\ BatchLimit \in Nat \ {0} /\ Chunk \in Nat \ {0}
  /\ Writer \in [Admins -> People] /\ IsFiniteSet(People)

\* The table has every role trimmed and in lower case, and none that is blank.
ASSUME SpellingAssumption ==
  \A role \in {"all", "student"} \cup {RoleOf[u] : u \in People} :
    role \notin DOMAIN Spelled /\ role # Empty

VARIABLES
  now,
  posted,    \* system_announcements by id
  lastId,    \* the sequence of their ids
  acked,     \* system_announcement_acks: a unique index makes them a set
  dismissed, \* system_announcement_dismissals, likewise
  inbox,     \* notifications written: per announcement and user, how many
  mailed,    \* likewise, mails sent
  edit,      \* what the request of each administrator has read and will write
  click,     \* the same of each reader's
  fanout,    \* the goroutines: the k-th fan-out of announcement n is <<n, k>>
  spread,    \* history: fan-outs begun of each
  withdrawn, \* history: how often each stopped being active
  addressed, \* history: the users each was published to
  cut,       \* history: announcements with a fan-out that a failure or crash ended
  editedTwice, \* history: announcements that two edits held at once
  overtaken  \* history: those that an edit and a change of status held at once

noticeVars == <<now, posted, lastId, acked, dismissed, inbox, mailed, edit, click,
                fanout, spread, withdrawn, addressed, cut, editedTwice, overtaken>>
histories == <<spread, withdrawn, addressed, cut>>
marks == <<acked, dismissed>>
outbox == <<inbox, mailed, fanout>>

Notices == 1 .. MaxNotices
Fanouts == Notices \X (1 .. MaxFanouts)
Readers == People \cup Pupils
Statuses == {"draft", "scheduled", "published", "archived"}
Still == [step |-> "still"]
Never == LastHour + 1    \* no expires_at

Role(v) == IF v \in People THEN RoleOf[v] ELSE "student"
Roles == {"all"} \cup {Role(v) : v \in Readers}
Audiences == SUBSET (Roles \cup DOMAIN Spelled)    \* as sent, and as stored

NoticeRow == [status : Statuses, active : BOOLEAN, starts : 0 .. LastHour,
              ends : 0 .. Never, audience : Audiences, dismissible : BOOLEAN,
              requires : BOOLEAN, inbox : BOOLEAN]

\* What a request asks for; 0 is no start.
Input == [status : Statuses \cup {"unstated"}, active : BOOLEAN, starts : 0 .. LastHour,
          ends : 0 .. Never, audience : Audiences, dismissible : BOOLEAN,
          requires : BOOLEAN, inbox : BOOLEAN, mail : BOOLEAN]

EditState ==
  {Still}
  \cup [step : {"find"}, id : Notices, input : Input, was : BOOLEAN]
  \cup [step : {"update"}, id : Notices, row : NoticeRow, was : BOOLEAN, mail : BOOLEAN]
  \cup [step : {"set"}, id : Notices, status : Statuses]

FanoutState ==
  {Still}
  \cup [step : {"resolve"}, actor : People, audience : Audiences, mail : BOOLEAN]
  \cup [step : {"mail", "insert"}, left : SUBSET People]

\* Rows have the shape of their table, ids come from the sequence, and what a
\* fan-out still has to do is about an announcement there was and users there are.
NoticeTypeOK ==
  /\ now \in 0 .. LastHour /\ lastId \in 0 .. MaxNotices
  /\ DOMAIN posted \subseteq 1 .. lastId /\ \A n \in DOMAIN posted : posted[n] \in NoticeRow
  /\ acked \subseteq Notices \X Readers /\ dismissed \subseteq Notices \X Readers
  /\ inbox \in [Notices -> [People -> Nat]] /\ mailed \in [Notices -> [People -> Nat]]
  /\ edit \in [Admins -> EditState] /\ \A a \in Admins : edit[a] # Still => edit[a].id <= lastId
  /\ click \in [Readers -> {Still} \cup [step : {"ack", "dismiss"}, id : Notices]]
  /\ fanout \in [Fanouts -> FanoutState]
  /\ spread \in [Notices -> 0 .. MaxFanouts] /\ withdrawn \in [Notices -> Nat]
  /\ addressed \in [Notices -> SUBSET People] /\ cut \subseteq Notices
  /\ \A n \in Notices : n > lastId => spread[n] = 0
  /\ \A f \in Fanouts : fanout[f] # Still => f[2] <= spread[f[1]]

NoticeInit ==
  /\ now = 0 /\ posted = << >> /\ lastId = 0
  /\ acked = {} /\ dismissed = {}
  /\ inbox = [n \in Notices |-> [u \in People |-> 0]] /\ mailed = inbox
  /\ edit = [a \in Admins |-> Still] /\ click = [v \in Readers |-> Still]
  /\ fanout = [f \in Fanouts |-> Still]
  /\ spread = [n \in Notices |-> 0] /\ withdrawn = spread /\ cut = {}
  /\ addressed = [n \in Notices |-> {}] /\ editedTwice = {} /\ overtaken = {}
-----------------------------------------------------------------------------
(* What is stored.                                                          *)

\* toAnnouncementInput: what the composer leaves out; "unstated" is the empty status.
Defaults == [status |-> "unstated", active |-> TRUE, starts |-> 0, ends |-> Never,
             audience |-> {}, dismissible |-> TRUE, requires |-> FALSE,
             inbox |-> TRUE, mail |-> FALSE]

\* Every field is of its type or left out, as an empty list is.
WellFormed(p) ==
  /\ p.status \in Statuses \cup {"unstated", Unset} /\ p.starts \in (0 .. LastHour) \cup {Unset}
  /\ p.ends \in (0 .. Never) \cup {Unset} /\ p.audience \in (Audiences \ {{}}) \cup {Unset}
  /\ {p.active, p.dismissible, p.requires, p.inbox, p.mail} \subseteq BOOLEAN \cup {Unset}
  /\ DOMAIN p = DOMAIN Defaults

ASSUME PayloadAssumption == \A p \in Payloads : WellFormed(p)

\* mergeAnnouncementPayload.
Filled(payload, defaults) ==
  [field \in DOMAIN payload |->
     IF payload[field] = Unset THEN defaults[field] ELSE payload[field]]

AnnouncementInput(payload) == Filled(payload, Defaults)

\* validateAnnouncementInput, of what is modelled; 0 is no start.
Valid(input) == input.starts = 0 \/ input.ends >= input.starts

AnnouncementStatusIsLive(status) == status \in {"published", "scheduled"}

\* Mutant of ResolveAnnouncementStatus: the start is not looked at.
StatusAsSent(status, active, starts) ==
  CASE status # "unstated" -> status [] active -> "published" [] OTHER -> "archived"

\* An explicit status wins over the flag of older clients.
ResolveAnnouncementStatus(status, active, starts) ==
  IF status \in {"draft", "archived"} THEN status
  ELSE IF status = "unstated" /\ ~active THEN "archived"
  ELSE IF starts > now THEN "scheduled" ELSE "published"

\* The roles are stored as they were sent.
BuildAnnouncement(input) ==
  LET status == ResolveAnnouncementStatus(input.status, input.active, input.starts) IN
  [status |-> status, active |-> AnnouncementStatusIsLive(status),
   starts |-> input.starts, ends |-> input.ends,
   audience |-> IF input.audience = {} THEN {"all"} ELSE input.audience,
   dismissible |-> input.dismissible, requires |-> input.requires, inbox |-> input.inbox]

\* Rows replaced or added under their ids.
Store(rows) == posted' = [n \in DOMAIN posted \cup DOMAIN rows |->
                            IF n \in DOMAIN rows THEN rows[n] ELSE posted[n]]

\* History: the rows that stop being active, the deleted ones not among them.
CountWithdrawn ==
  withdrawn' = [n \in Notices |->
    IF n \in DOMAIN posted \cap DOMAIN posted' /\ posted[n].active /\ ~posted'[n].active
    THEN withdrawn[n] + 1 ELSE withdrawn[n]]
-----------------------------------------------------------------------------
(* publishAnnouncement: the goroutine is begun with the row just written.   *)

Normal(audience) ==
  {IF role \in DOMAIN Spelled THEN Spelled[role] ELSE role : role \in audience} \ {Empty}

UsersOf(roles) == IF "all" \in roles THEN People ELSE {u \in People : RoleOf[u] \in roles}

\* Blank roles reach nobody.
AudienceUserIDs(audience) == UsersOf(Normal(audience))

ToTell(row) == row.active /\ row.inbox /\ row.starts <= now

\* One for each announcement of published that is to be told of.
PublishAnnouncements(a, published, mails) ==
  LET begun == {n \in DOMAIN published : ToTell(published[n])} IN
  /\ \A n \in begun : spread[n] < MaxFanouts
  /\ spread' = [n \in Notices |-> IF n \in begun THEN spread[n] + 1 ELSE spread[n]]
  /\ addressed' = [n \in Notices |->
       IF n \in begun
       THEN addressed[n] \cup (AudienceUserIDs(published[n].audience) \ {Writer[a]})
       ELSE addressed[n]]
  /\ fanout' = [f \in Fanouts |->
       IF f[1] \in begun /\ f[2] = spread[f[1]] + 1
       THEN [step |-> "resolve", actor |-> Writer[a],
             audience |-> published[f[1]].audience, mail |-> mails[f[1]]]
       ELSE fanout[f]]
-----------------------------------------------------------------------------
(* The composer and the list screen.                                        *)

\* CreateAnnouncementsBatchHandler: all rows in one transaction.
Create(a, inputs, ids) ==
  LET rows == [n \in ids |-> BuildAnnouncement(inputs[n])]
      mails == [n \in ids |-> inputs[n].mail]
  IN
  /\ edit[a] = Still /\ \A n \in ids : Valid(inputs[n])
  /\ lastId' = lastId + Cardinality(ids) /\ lastId' <= MaxNotices
  /\ Store(rows) /\ PublishAnnouncements(a, rows, mails)
  /\ UNCHANGED <<now, marks, inbox, mailed, edit, click, withdrawn, cut>>

CreateAnnouncementHandler(a) ==
  \E p \in Payloads : Create(a, [n \in {lastId + 1} |-> AnnouncementInput(p)], {lastId + 1})

CreateAnnouncementsBatchHandler(a) ==
  \E k \in 2 .. BatchLimit, d \in Payloads :
    LET ids == lastId + 1 .. lastId + k IN
    \E items \in [ids -> Payloads] :
      Create(a, [n \in ids |-> AnnouncementInput(Filled(items[n], d))], ids)

\* Whether it was active is read before anything else.
UpdateAnnouncementHandler(a) ==
  /\ edit[a] = Still
  /\ \E n \in DOMAIN posted, p \in Payloads :
       edit' = [edit EXCEPT ![a] =
         [step |-> "find", id |-> n, input |-> AnnouncementInput(p), was |-> posted[n].active]]
  /\ UNCHANGED <<now, posted, lastId, marks, outbox, click, histories>>

\* UpdateAnnouncement, its First: the new row is made up here.
FindToUpdate(a) ==
  /\ edit[a].step = "find"
  /\ IF edit[a].id \in DOMAIN posted /\ Valid(edit[a].input)
     THEN edit' = [edit EXCEPT ![a] =
            [step |-> "update", id |-> @.id, row |-> BuildAnnouncement(@.input),
             was |-> @.was, mail |-> @.input.mail]]
     ELSE edit' = [edit EXCEPT ![a] = Still]
  /\ UNCHANGED <<now, posted, lastId, marks, outbox, click, histories>>

\* Mutant of BecomesLive: every edit of a live announcement tells of it.
AlwaysLive(was, row) == row.active

\* An announcement that was live already is not told of again.
BecomesLive(was, row) == ~was /\ row.active

\* The UPDATE, by id: it is no error that the row is gone.
UpdateAnnouncement(a) ==
  LET e == edit[a] IN
  /\ e.step = "update"
  /\ edit' = [edit EXCEPT ![a] = Still]
  /\ Store([n \in {e.id} \cap DOMAIN posted |-> e.row]) /\ CountWithdrawn
  /\ PublishAnnouncements(a, [n \in {m \in {e.id} : BecomesLive(e.was, e.row)} |-> e.row],
                          [n \in {e.id} |-> e.mail])
  /\ UNCHANGED <<now, lastId, marks, inbox, mailed, click, cut>>

\* SetAnnouncementStatus: the status is resolved with the start read here.
SetAnnouncementStatusHandler(a) ==
  /\ edit[a] = Still
  /\ \E n \in DOMAIN posted, status \in Statuses :
       edit' = [edit EXCEPT ![a] =
         [step |-> "set", id |-> n,
          status |-> ResolveAnnouncementStatus(status, AnnouncementStatusIsLive(status),
                                               posted[n].starts)]]
  /\ UNCHANGED <<now, posted, lastId, marks, outbox, click, histories>>

\* Only these two columns; nobody is told.
SetAnnouncementStatus(a) ==
  LET e == edit[a] IN
  /\ e.step = "set"
  /\ edit' = [edit EXCEPT ![a] = Still]
  /\ Store([n \in {e.id} \cap DOMAIN posted |->
              [posted[n] EXCEPT !.status = e.status,
                                !.active = AnnouncementStatusIsLive(e.status)]])
  /\ CountWithdrawn
  /\ UNCHANGED <<now, lastId, marks, outbox, click, spread, addressed, cut>>

\* One transaction; who had read the row before it may still write about it.
DeleteAnnouncement(n) ==
  /\ posted' = [m \in DOMAIN posted \ {n} |-> posted[m]]
  /\ acked' = acked \ ({n} \X Readers) /\ dismissed' = dismissed \ ({n} \X Readers)

DeleteAnnouncementHandler(a) ==
  /\ edit[a] = Still
  /\ \E n \in DOMAIN posted : DeleteAnnouncement(n)
  /\ UNCHANGED <<now, lastId, outbox, edit, click, histories>>
-----------------------------------------------------------------------------
(* Readers.                                                                 *)

\* AcknowledgeAnnouncement: of what is active, shown or not.
AcknowledgeAnnouncementHandler(v) ==
  /\ click[v] = Still
  /\ \E n \in DOMAIN posted :
       /\ posted[n].active /\ <<n, v>> \notin acked
       /\ click' = [click EXCEPT ![v] = [step |-> "ack", id |-> n]]
  /\ UNCHANGED <<now, posted, lastId, marks, outbox, edit, histories>>

MayBeDismissed(row) == row.dismissible /\ ~row.requires

DismissAnnouncementHandler(v) ==
  /\ click[v] = Still
  /\ \E n \in DOMAIN posted :
       /\ MayBeDismissed(posted[n])
       /\ click' = [click EXCEPT ![v] = [step |-> "dismiss", id |-> n]]
  /\ UNCHANGED <<now, posted, lastId, marks, outbox, edit, histories>>

\* A row that is there already is what was wanted.
InsertMark(v) ==
  LET mark == {<<click[v].id, v>>} IN
  /\ click[v] # Still
  /\ click' = [click EXCEPT ![v] = Still]
  /\ acked' = IF click[v].step = "ack" THEN acked \cup mark ELSE acked
  /\ dismissed' = IF click[v].step = "dismiss" THEN dismissed \cup mark ELSE dismissed
  /\ UNCHANGED <<now, posted, lastId, outbox, edit, histories>>

\* ListActiveAnnouncementsForUser: the stored roles are matched as they are.
ActiveAnnouncementsFor(v) ==
  {n \in DOMAIN posted :
     LET row == posted[n] IN
     /\ row.active /\ AnnouncementStatusIsLive(row.status)
     /\ row.starts <= now /\ row.ends > now
     /\ row.audience \cap {"all", Role(v)} # {}
     /\ ~(<<n, v>> \in dismissed /\ MayBeDismissed(row))}
-----------------------------------------------------------------------------
(* fanoutAnnouncementNotification.                                          *)

\* The administrator who publishes is not told.
ResolveAudience(f) ==
  LET g == fanout[f]
      to == AudienceUserIDs(g.audience) \ {g.actor}
  IN
  /\ g.step = "resolve"
  /\ fanout' = [fanout EXCEPT ![f] =
       IF to = {} THEN Still
       ELSE [step |-> IF g.mail THEN "mail" ELSE "insert", left |-> to]]
  /\ UNCHANGED <<now, posted, lastId, marks, inbox, mailed, edit, click, histories>>

\* One mail after the other, all of them before the first notification; one that is
\* refused is logged.
SendAnnouncementEmails(f) ==
  /\ fanout[f].step = "mail"
  /\ \E sent \in SUBSET fanout[f].left :
       mailed' = [mailed EXCEPT ![f[1]] =
                    [u \in People |-> IF u \in sent THEN @[u] + 1 ELSE @[u]]]
  /\ fanout' = [fanout EXCEPT ![f].step = "insert"]
  /\ UNCHANGED <<now, posted, lastId, marks, inbox, edit, click, histories>>

\* CreateUserNotifications of the next chunk, in no particular order.
InsertChunk(f) ==
  LET left == fanout[f].left IN
  /\ fanout[f].step = "insert"
  /\ \E told \in SUBSET left :
       /\ Cardinality(told) = IF Cardinality(left) < Chunk THEN Cardinality(left) ELSE Chunk
       /\ inbox' = [inbox EXCEPT ![f[1]] =
                      [u \in People |-> IF u \in told THEN @[u] + 1 ELSE @[u]]]
       /\ fanout' = [fanout EXCEPT ![f] =
            IF told = left THEN Still ELSE [step |-> "insert", left |-> left \ told]]
  /\ UNCHANGED <<now, posted, lastId, marks, mailed, edit, click, histories>>

\* The audience cannot be read, or a chunk is not written: the rest is not told.
FanoutFails(f) ==
  /\ fanout[f].step \in {"resolve", "insert"}
  /\ fanout' = [fanout EXCEPT ![f] = Still] /\ cut' = cut \cup {f[1]}
  /\ UNCHANGED <<now, posted, lastId, marks, inbox, mailed, edit, click, spread, withdrawn,
                 addressed>>

\* A deployment: nothing writes down what was still to be told.
ServerStops ==
  /\ edit' = [a \in Admins |-> Still] /\ click' = [v \in Readers |-> Still]
  /\ fanout' = [f \in Fanouts |-> Still]
  /\ cut' = cut \cup {f[1] : f \in {g \in Fanouts : fanout[g] # Still}}
  /\ UNCHANGED <<now, posted, lastId, marks, inbox, mailed, spread, withdrawn, addressed>>

HourPasses ==
  /\ now < LastHour /\ now' = now + 1
  /\ UNCHANGED <<posted, lastId, marks, outbox, edit, click, histories>>
-----------------------------------------------------------------------------
(* What the administrators are shown of its reach.                          *)

\* Of nothing but blank roles it makes everybody.
decodeAnnouncementAudience(audience) ==
  IF Normal(audience) = {} THEN {"all"} ELSE Normal(audience)

MarkedBy(set, n) == {v \in Readers : <<n, v>> \in set}

\* The screen of one: the users it addresses, by what they have done.
GetAnnouncementStats(n) ==
  LET to == UsersOf(decodeAnnouncementAudience(posted[n].audience)) IN
  [acknowledged |-> to \cap MarkedBy(acked, n), pending |-> to \ MarkedBy(acked, n)]
-----------------------------------------------------------------------------
AdminAsks(a) ==
  \/ CreateAnnouncementHandler(a) \/ CreateAnnouncementsBatchHandler(a)
  \/ UpdateAnnouncementHandler(a) \/ SetAnnouncementStatusHandler(a)
  \/ DeleteAnnouncementHandler(a)

AdminSteps(a) == FindToUpdate(a) \/ UpdateAnnouncement(a) \/ SetAnnouncementStatus(a)

ReaderAsks(v) == AcknowledgeAnnouncementHandler(v) \/ DismissAnnouncementHandler(v)

FanoutSteps(f) == ResolveAudience(f) \/ SendAnnouncementEmails(f) \/ InsertChunk(f)

NoticeStep ==
  \/ \E a \in Admins : AdminAsks(a) \/ AdminSteps(a)
  \/ \E v \in Readers : ReaderAsks(v) \/ InsertMark(v)
  \/ \E f \in Fanouts : FanoutSteps(f) \/ FanoutFails(f)
  \/ ServerStops \/ HourPasses

HeldBy(a, steps) == IF edit[a].step \in steps THEN {edit[a].id} ELSE {}
Edits == {"find", "update"}
Meet(one, other) ==
  UNION {HeldBy(p[1], one) \cap HeldBy(p[2], other) : p \in {q \in Admins \X Admins : q[1] # q[2]}}

Remembers ==
  /\ editedTwice' = editedTwice \cup Meet(Edits, Edits)'
  /\ overtaken' = overtaken \cup Meet(Edits, {"set"})'

NoticeNext == NoticeStep /\ Remembers

NoticeSpec == NoticeInit /\ [][NoticeNext]_noticeVars
-----------------------------------------------------------------------------
Owed(n, u) ==
  \E k \in 1 .. MaxFanouts :
    LET g == fanout[<<n, k>>] IN
    \/ g.step = "resolve" /\ u \in AudienceUserIDs(g.audience) \ {g.actor}
    \/ g.step \in {"mail", "insert"} /\ u \in g.left

\* Whoever an announcement was published to finds it in the inbox, or a fan-out under
\* way has yet to write it there, unless a failure or a stop of the server ended one;
\* and nobody is told twice, in the inbox or by mail, unless it was taken down in
\* between or two edits published it at once (what UpdateAnnouncementHandler looks at
\* is_active for): wording fixes, withdrawals and republishing tell nobody again.
ToldOnceEach ==
  \A n \in Notices, u \in People :
    /\ u \in addressed[n] => inbox[n][u] > 0 \/ Owed(n, u) \/ n \in cut
    /\ n \notin editedTwice =>
         inbox[n][u] <= 1 + withdrawn[n] /\ mailed[n][u] <= 1 + withdrawn[n]

\* The statistics count with the roles the pages look for.
AsMatched(audience) == decodeAnnouncementAudience(audience) \subseteq audience

\* The screens of administrators and readers agree, though each decides by columns of
\* its own.  is_active says what the status says.  What is listed as published, or
\* scheduled for a start that has come, is on the pages of everybody it addresses and
\* of everybody the administrators wait for, until it ends; only who dismissed what
\* may be dismissed misses it, so a demand to acknowledge overrides what was dismissed
\* before it was made.  Whoever is shown it is one the statistics count.  (What was
\* listed by a change of status that met an edit of the start need not have begun; and
\* of an audience stored in another spelling, like "TA", the statistics wait for users
\* no page shows it to.)
LiveIsShown ==
  \A n \in DOMAIN posted, v \in Readers :
    LET row == posted[n]
        stats == GetAnnouncementStats(n)
    IN
    /\ row.active <=> AnnouncementStatusIsLive(row.status)
    /\ /\ \/ row.status = "published" /\ n \notin overtaken
          \/ row.status \in {"published", "scheduled"} /\ row.starts <= now
       /\ now < row.ends
       /\ \/ row.audience \cap {"all", Role(v)} # {}
          \/ v \in stats.pending /\ AsMatched(row.audience)
       => \/ n \in ActiveAnnouncementsFor(v)
          \/ <<n, v>> \in dismissed /\ row.dismissible /\ ~row.requires
    /\ n \in ActiveAnnouncementsFor(v) /\ v \in People
       => v \in stats.pending \cup stats.acknowledged
=============================================================================
