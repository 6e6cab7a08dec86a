---------------------------- MODULE DeferredMail ----------------------------
(***************************************************************************)
(* Mails to instructors.  Outside a window of the day they wait in         *)
(* deferred_emails; every minute the process that leads sends those that   *)
(* are due, one after the other, and writes down for each what came of it. *)
(*                                                                         *)
(* Sources: services/email_quiet_hours.go, services/email_service.go and   *)
(* the job in cmd/api/main.go.  The clock is reduced to whether the window *)
(* is open and which mails are due, leadership (LeaderElection) to who     *)
(* believes to lead.                                                       *)
(***************************************************************************)
EXTENDS Naturals, FiniteSets

CONSTANTS
  Mails,
  Senders,      \* the processes
  MaxAttempts,  \* deferredEmailMaxAttempts
  Limit         \* of the mails sent in one minute

ASSUME MailAssumption ==
  MaxAttempts \in Nat \ {0} /\ Limit \in Nat \ {0} /\ IsFiniteSet(Senders)

VARIABLES
  mail,     \* per mail: not raised yet, its row, or done with
  window,   \* InstructorEmailWindowOpen
  due,      \* the rows whose send_after has come
  leading,  \* the processes that believe to lead
  flush,    \* per process, the rows it has listed and the one it is at
  copies    \* history: how often a mail went out

mailVars == << mail, window, due, leading, flush, copies >>

Row(status, attempts) == [status |-> status, attempts |-> attempts]
Unraised == Row("unraised", 0)
Over == [step |-> "over", left |-> {}]

\* Rows wait, are done with, or were never written; who sends has listed rows.
MailTypeOK ==
  /\ mail \in [Mails -> [status: {"unraised", "waiting", "sent", "failed", "direct"},
                         attempts: 0 .. MaxAttempts]]
  /\ window \in BOOLEAN /\ due \subseteq Mails /\ leading \subseteq Senders
  /\ \A s \in Senders : flush[s].left \subseteq Mails \X (0 .. MaxAttempts - 1)

MailInit ==
  /\ mail = [m \in Mails |-> Unraised]
  /\ window \in BOOLEAN /\ due = {} /\ leading \in {{}} \cup {{s} : s \in Senders}
  /\ flush = [s \in Senders |-> Over] /\ copies = [m \in Mails |-> 0]

\* sendNotificationEmail, to an instructor: now if the window is open (or nobody can
\* tell who is an instructor), else a row for the next morning; a failure of either
\* is the caller's to report.
SendNotificationEmail(m, known) ==
  /\ mail[m] = Unraised
  /\ IF window \/ ~ known
     THEN /\ mail' = [mail EXCEPT ![m] = Row("direct", 0)]
          /\ copies' \in {copies, [copies EXCEPT ![m] = 1]}
     ELSE /\ mail' \in {[mail EXCEPT ![m] = Row(s, 0)] : s \in {"waiting", "direct"}}
          /\ UNCHANGED copies
  /\ UNCHANGED << window, due, leading, flush >>

\* Mutant of Listed: what has been sent is not left out.
ListedAgain == {m \in due : mail[m].status \in {"waiting", "sent"}}

Listed == {m \in due : mail[m].status = "waiting"}

\* FlushDeferredEmails: the window is looked at once, and each row as it was listed.
FlushDeferredEmails(s) ==
  /\ flush[s] = Over /\ s \in leading /\ window /\ Listed # {}
  /\ \E rows \in SUBSET Listed :
       /\ Cardinality(rows) = IF Cardinality(Listed) < Limit THEN Cardinality(Listed) ELSE Limit
       /\ flush' = [flush EXCEPT ![s] =
            [step |-> "send", left |-> {<< m, mail[m].attempts >> : m \in rows}]]
  /\ UNCHANGED << mail, window, due, leading, copies >>

\* sendEmail, whatever has happened to the row since.
SendEmail(s, out, answer) ==
  /\ flush[s].step = "send"
  /\ \E row \in flush[s].left :
       /\ copies' = IF out THEN [copies EXCEPT ![row[1]] = @ + 1] ELSE copies
       /\ flush' = [flush EXCEPT ![s] = [step |-> answer, row |-> row, left |-> @.left \ {row}]]
  /\ UNCHANGED << mail, window, due, leading >>

\* The answer of the provider, or of the relay to QUIT, is lost after the mail was taken.
SendUnanswered(s) == SendEmail(s, TRUE, "unsent")

Continue(s) ==
  flush' = [flush EXCEPT ![s] = IF @.left = {} THEN Over
                                ELSE [step |-> "send", left |-> @.left]]

\* After a failure the row waits for longer each time, and in the end for good.
AfterFailure(status, n) ==
  IF n >= MaxAttempts THEN Row("failed", n) ELSE Row(status, n)

\* The update, by id: a row already sent stays sent.
NoteOutcome(s) ==
  LET m == flush[s].row[1]
      n == flush[s].row[2] + 1
  IN /\ flush[s].step \in {"sent", "unsent"}
     /\ mail' = [mail EXCEPT ![m] =
          IF flush[s].step = "sent" THEN Row("sent", n)
          ELSE IF @.status = "sent" THEN Row("sent", n) ELSE AfterFailure(@.status, n)]
     /\ due' = IF flush[s].step = "unsent" THEN due \ {m} ELSE due
     /\ Continue(s)
     /\ UNCHANGED << window, leading, copies >>

\* Its error is not looked at.
NoteIsLost(s) ==
  /\ flush[s].step \in {"sent", "unsent"}
  /\ Continue(s)
  /\ UNCHANGED << mail, window, due, leading, copies >>

\* In the morning everything that waits is due, and a retry within the day.
WindowOpens ==
  /\ ~ window /\ window' = TRUE
  /\ due' = due \cup {m \in Mails : mail[m].status = "waiting"}
  /\ UNCHANGED << mail, leading, flush, copies >>

WindowCloses ==
  /\ window /\ window' = FALSE
  /\ UNCHANGED << mail, due, leading, flush, copies >>

ComesDue(m) ==
  /\ window /\ mail[m].status = "waiting" /\ m \notin due
  /\ due' = due \cup {m}
  /\ UNCHANGED << mail, window, leading, flush, copies >>

CrashSender(s) ==
  /\ flush[s] # Over /\ flush' = [flush EXCEPT ![s] = Over]
  /\ leading' = leading \ {s} /\ UNCHANGED << mail, window, due, copies >>

Leads(who) == leading' = who /\ UNCHANGED << mail, window, due, flush, copies >>

TakesLead(s) == s \notin leading /\ Leads(leading \cup {s})

LosesLead(s) == s \in leading /\ Leads(leading \ {s})

MailStep ==
  \/ \E m \in Mails : ComesDue(m) \/ \E known \in BOOLEAN : SendNotificationEmail(m, known)
  \/ \E s \in Senders :
       \/ FlushDeferredEmails(s) \/ NoteOutcome(s)
       \/ SendEmail(s, TRUE, "sent") \/ SendEmail(s, FALSE, "unsent")
       \/ leading = {} /\ TakesLead(s)
       \/ flush[s] = Over /\ LosesLead(s)
  \/ WindowOpens \/ WindowCloses

\* A stalled leader does not see at once that its lease has passed to another; one
\* that sees it in the middle of a flush finishes the flush.
MailFault ==
  \E s \in Senders :
    \/ SendUnanswered(s) \/ NoteIsLost(s) \/ CrashSender(s)
    \/ leading # {} /\ TakesLead(s)
    \/ flush[s] # Over /\ LosesLead(s)
=============================================================================
