----------------------------- MODULE ExamPublish -----------------------------
(***************************************************************************)
(* Exam results: a draft until an instructor, or the minute job at a       *)
(* scheduled time, publishes them; students are then told by mail, now or  *)
(* when their own result is entered later, and opening the page counts as  *)
(* a view of this announcement.                                            *)
(*                                                                         *)
(* Sources: handlers/exam_handler.go, handlers/exam_publish_handler.go,    *)
(* repositories/exam_repo.go and repositories/exam_publish_repo.go.        *)
(*                                                                         *)
(* Every handler reads the setting in one statement and writes in a later  *)
(* one, by id alone.  Mails go out in background goroutines.               *)
(***************************************************************************)
EXTENDS Naturals, Sequences, FiniteSets, SequencesExt, FiniteSetsExt, Functions

CONSTANTS
  Exams,        \* the exam components of a course
  Pupils,       \* the enrolled students, all with an address
  Clerks,       \* requests the server handles at the same time
  Nil,          \* no row; no scheduled time; a field left out
  MaxRounds,    \* bound: announcements counted
  MaxMinute     \* bound: the clock that scheduled times are compared with

ASSUME ExamAssumption == MaxRounds \in Nat /\ MaxMinute \in Nat /\ Nil \notin Clerks

VARIABLES
  exam,     \* the exam_settings rows
  marks,    \* per exam and pupil, the exam_scores rows in id order
  viewed,   \* exam_score_views: the announcement each view row was made under
  round,    \* announcements made of each exam
  notices,  \* exam_score_notifications: the mails sent, with their announcement
  fanout,   \* mail goroutines that have not run yet
  clerk,    \* what each request in flight has read and will write
  minute,   \* the clock
  sweep     \* the publishing job: due exams it has listed, and where it is

examVars == <<exam, marks, viewed, round, notices, fanout, clerk, minute, sweep>>

Times == 1 .. MaxMinute
ExamRow == [active : BOOLEAN, visible : BOOLEAN, at : Times \cup {Nil}, notify : BOOLEAN]
Results == {"none", "score", "absent"}
Rest == [op |-> "rest"]
Swept == [step |-> "swept", left |-> << >>]

\* Settings and results have the shape of their tables.
ExamTypeOK ==
  /\ exam \in [Exams -> ExamRow \cup {Nil}]
  /\ \A e \in Exams, p \in Pupils : marks[e][p] \in Seq(Results)
  /\ viewed \in [Exams -> [Pupils -> 0 .. MaxRounds]]
  /\ round \in [Exams -> 0 .. MaxRounds]
  /\ minute \in 0 .. MaxMinute
  /\ DOMAIN clerk = Clerks

\* GetOrCreateExamSettings inserts the rows no course page has asked for yet;
\* an advisory lock makes it one step.
NewSetting == [active |-> FALSE, visible |-> FALSE, at |-> Nil, notify |-> TRUE]

\* The components of a course nobody has opened, or already in use.
ExamInit ==
  /\ exam \in [Exams -> {Nil, [NewSetting EXCEPT !.active = TRUE]}]
  /\ marks = [e \in Exams |-> [p \in Pupils |-> << >>]]
  /\ viewed = [e \in Exams |-> [p \in Pupils |-> 0]]
  /\ round = [e \in Exams |-> 0]
  /\ notices = {} /\ fanout = {}
  /\ clerk = [c \in Clerks |-> Rest]
  /\ minute = 0 /\ sweep = Swept

GetOrCreateExamSettings ==
  /\ \E e \in Exams : exam[e] = Nil
  /\ exam' = [e \in Exams |-> IF exam[e] = Nil THEN NewSetting ELSE exam[e]]
  /\ UNCHANGED <<marks, viewed, round, notices, fanout, clerk, minute, sweep>>
-----------------------------------------------------------------------------
(* Steps of a request.                                                      *)

Exists(e) == exam[e] # Nil
Asks(c, r) == clerk[c] = Rest /\ clerk' = [clerk EXCEPT ![c] = r]
Goes(c, f) == clerk' = [clerk EXCEPT ![c] = f @@ @]
Ends(c) == clerk' = [clerk EXCEPT ![c] = Rest]

\* A result: a score, or an absence.
HasResult(rows) == \E i \in DOMAIN rows : rows[i] # "none"
HasMark(e, p) == HasResult(marks[e][p])
HasViewed(e, p) == viewed[e][p] > 0

Mail(e, kind, to) == [exam |-> e, kind |-> kind, to |-> to]
-----------------------------------------------------------------------------
(* Publishing, by hand and by the minute job.                               *)

Publishable(e) == exam[e].active /\ ~exam[e].visible

\* PublishExamSetting's transaction: the row and its views change together.
Published(e, notify) ==
  /\ exam' = [exam EXCEPT ![e] = [@ EXCEPT !.visible = TRUE, !.at = Nil, !.notify = notify]]
  /\ round' = [round EXCEPT ![e] = @ + 1]
  /\ viewed' = [viewed EXCEPT ![e] = [p \in Pupils |-> 0]]

\* PublishExamSettingHandler: a time that has not come yet makes it a schedule.
PublishExamSettingHandler(c) ==
  \E e \in Exams, at \in {Nil} \cup {t \in Times : t > minute}, notify \in BOOLEAN :
    /\ Exists(e)
    /\ Asks(c, [op |-> IF at = Nil THEN "publish" ELSE "schedule",
                exam |-> e, step |-> "check", at |-> at, notify |-> notify])
    /\ UNCHANGED <<exam, marks, viewed, round, notices, fanout, minute, sweep>>

\* The check of ScheduleExamSettingPublish and PublishExamSetting.
CheckPublishable(c) ==
  /\ clerk[c].op \in {"publish", "schedule"} /\ clerk[c].step = "check"
  /\ IF Publishable(clerk[c].exam) THEN Goes(c, [step |-> "write"]) ELSE Ends(c)
  /\ UNCHANGED <<exam, marks, viewed, round, notices, fanout, minute, sweep>>

PublishExamSetting(c) ==
  /\ clerk[c].op = "publish" /\ clerk[c].step = "write"
  /\ round[clerk[c].exam] < MaxRounds
  /\ Published(clerk[c].exam, clerk[c].notify)
  /\ fanout' = IF clerk[c].notify
               THEN fanout \cup {Mail(clerk[c].exam, "published", Pupils)} ELSE fanout
  /\ Ends(c)
  /\ UNCHANGED <<marks, notices, minute, sweep>>

ScheduleExamSettingPublish(c) ==
  /\ clerk[c].op = "schedule" /\ clerk[c].step = "write"
  /\ exam' = [exam EXCEPT ![clerk[c].exam] = [@ EXCEPT !.at = clerk[c].at, !.notify = clerk[c].notify]]
  /\ Ends(c)
  /\ UNCHANGED <<marks, viewed, round, notices, fanout, minute, sweep>>

\* CancelExamSettingSchedule: no condition.
Unscheduled(e) == exam' = [exam EXCEPT ![e].at = Nil]

\* GetDueScheduledExamSettings, in order of their times.
DueExams ==
  SetToSortSeq({e \in Exams : /\ Exists(e) /\ Publishable(e)
                              /\ exam[e].at # Nil /\ exam[e].at <= minute},
               LAMBDA d, e : exam[d].at < exam[e].at)

\* PublishDueExamSettings, once a minute on the leader.
ListDueExams ==
  /\ sweep.step = "idle"
  /\ sweep' = [step |-> "check", left |-> [i \in DOMAIN DueExams |->
                 [exam |-> DueExams[i], notify |-> exam[DueExams[i]].notify]]]
  /\ UNCHANGED <<exam, marks, viewed, round, notices, fanout, clerk, minute>>

SweepNext == [step |-> "check", left |-> Tail(sweep.left)]

PublishDueExam ==
  LET next == Head(sweep.left) IN
  /\ sweep.left # << >>
  /\ \/ /\ sweep.step = "check" /\ Publishable(next.exam)
        /\ sweep' = [sweep EXCEPT !.step = "write"]
        /\ UNCHANGED <<exam, round, viewed>>
     \/ /\ sweep.step = "write" /\ round[next.exam] < MaxRounds
        /\ Published(next.exam, next.notify)
        /\ sweep' = IF next.notify THEN [sweep EXCEPT !.step = "mail"] ELSE SweepNext
     \/ /\ sweep.step = "check" /\ ~Publishable(next.exam)     \* refused: clear the schedule
        /\ Unscheduled(next.exam)
        /\ sweep' = SweepNext
        /\ UNCHANGED <<round, viewed>>
  /\ UNCHANGED <<marks, notices, fanout, clerk, minute>>

SweepEnds ==
  /\ sweep.step = "check" /\ sweep.left = << >>
  /\ sweep' = Swept
  /\ UNCHANGED <<exam, marks, viewed, round, notices, fanout, clerk, minute>>
-----------------------------------------------------------------------------
(* Taking results back.                                                     *)

HideExamSettingHandler(c) ==
  \E e \in Exams, tell \in BOOLEAN :
    /\ Exists(e)
    /\ Asks(c, [op |-> "hide", exam |-> e, step |-> "look", tell |-> tell])
    /\ UNCHANGED <<exam, marks, viewed, round, notices, fanout, minute, sweep>>

\* What is visible is to be hidden, with the list of those who saw it; what is
\* only scheduled is to be taken off the schedule.
LookAtVisible(c) ==
  LET e == clerk[c].exam IN
  /\ clerk[c].op = "hide" /\ clerk[c].step = "look"
  /\ \/ /\ exam[e].visible
        /\ Goes(c, [step |-> "check", to |-> {p \in Pupils : HasViewed(e, p)}])
     \/ ~exam[e].visible /\ exam[e].at # Nil /\ Goes(c, [step |-> "cancel"])
     \/ ~exam[e].visible /\ exam[e].at = Nil /\ Ends(c)
  /\ UNCHANGED <<exam, marks, viewed, round, notices, fanout, minute, sweep>>

CancelExamSettingSchedule(c) ==
  /\ clerk[c].op = "hide" /\ clerk[c].step = "cancel"
  /\ Unscheduled(clerk[c].exam) /\ Ends(c)
  /\ UNCHANGED <<marks, viewed, round, notices, fanout, minute, sweep>>

\* HideExamSetting reads the row again, then writes by id.
CheckStillVisible(c) ==
  /\ clerk[c].op = "hide" /\ clerk[c].step = "check"
  /\ IF exam[clerk[c].exam].visible THEN Goes(c, [step |-> "write"]) ELSE Ends(c)
  /\ UNCHANGED <<exam, marks, viewed, round, notices, fanout, minute, sweep>>

HideExamSetting(c) ==
  /\ clerk[c].op = "hide" /\ clerk[c].step = "write"
  /\ exam' = [exam EXCEPT ![clerk[c].exam] = [@ EXCEPT !.visible = FALSE, !.at = Nil]]
  /\ fanout' = IF clerk[c].tell /\ clerk[c].to # {}
               THEN fanout \cup {Mail(clerk[c].exam, "hidden", clerk[c].to)} ELSE fanout
  /\ Ends(c)
  /\ UNCHANGED <<marks, viewed, round, notices, minute, sweep>>
-----------------------------------------------------------------------------
(* The settings form: the maximum and whether the component is in use.      *)

UpdateExamSettingHandler(c) ==
  \E e \in Exams, active \in BOOLEAN \cup {Nil} :
    /\ Exists(e)
    /\ Asks(c, [op |-> "update", exam |-> e, row |-> [exam[e] EXCEPT !.active =
                                                        IF active = Nil THEN @ ELSE active]])
    /\ UNCHANGED <<exam, marks, viewed, round, notices, fanout, minute, sweep>>

\* Save writes every column of the row as it was read.
SaveExamSetting(c) ==
  /\ clerk[c].op = "update"
  /\ exam' = [exam EXCEPT ![clerk[c].exam] = clerk[c].row]
  /\ Ends(c)
  /\ UNCHANGED <<marks, viewed, round, notices, fanout, minute, sweep>>
-----------------------------------------------------------------------------
(* Results.  One, or a list of them with the setting read once.             *)

EnterResults(c) ==
  \E e \in Exams, entries \in {<<p>> : p \in Pupils} \cup SetToSeqs(Pupils), result \in Results :
    /\ Exists(e)
    /\ Asks(c, [op |-> "grade", exam |-> e, step |-> "find", left |-> entries, result |-> result,
                tells |-> exam[e].visible /\ exam[e].notify])
    /\ UNCHANGED <<exam, marks, viewed, round, notices, fanout, minute, sweep>>

\* The first row of the pupil, if there is one.
FindExamScore(c) ==
  /\ clerk[c].op = "grade" /\ clerk[c].step = "find"
  /\ Goes(c, [step |-> "store", rows |-> marks[clerk[c].exam][Head(clerk[c].left)]])
  /\ UNCHANGED <<exam, marks, viewed, round, notices, fanout, minute, sweep>>

\* Nothing keeps two requests that found no row from inserting one each.
Stored(rows, found, result) ==
  IF found = << >> THEN Append(rows, result) ELSE [rows EXCEPT ![1] = result]

\* Mutant of FirstResult: a pupil whose row was there had a result.
NoRowYet(found, result) == result # "none" /\ found = << >>

\* The pupil had no result and has one now.
FirstResult(found, result) ==
  result # "none" /\ (found = << >> \/ Head(found) = "none")

\* notifyLateExamResult judges by the setting as the request read it.
SaveExamScore(c) ==
  LET e == clerk[c].exam  p == Head(clerk[c].left)  result == clerk[c].result IN
  /\ clerk[c].op = "grade" /\ clerk[c].step = "store"
  /\ marks' = [marks EXCEPT ![e][p] = Stored(@, clerk[c].rows, result)]
  /\ fanout' = IF FirstResult(clerk[c].rows, result) /\ clerk[c].tells
               THEN fanout \cup {Mail(e, "published", {p})} ELSE fanout
  /\ IF Len(clerk[c].left) = 1 THEN Ends(c)
     ELSE Goes(c, [step |-> "find", left |-> Tail(clerk[c].left)])
  /\ UNCHANGED <<exam, viewed, round, notices, minute, sweep>>
-----------------------------------------------------------------------------
(* Students and their mail.                                                 *)

\* RecordExamScoreViews: one statement for every exam the student can see.
RecordExamScoreViews(p) ==
  LET seen == {e \in Exams : Exists(e) /\ exam[e].active /\ exam[e].visible} IN
  /\ seen # {}
  /\ viewed' = [e \in Exams |-> IF e \in seen /\ viewed[e][p] = 0
                                THEN [viewed[e] EXCEPT ![p] = round[e]] ELSE viewed[e]]
  /\ UNCHANGED <<exam, marks, round, notices, fanout, clerk, minute, sweep>>

Sent(mail, to) ==
  notices' = notices \cup {[exam |-> mail.exam, kind |-> mail.kind, pupil |-> p,
                            round |-> round[mail.exam]] : p \in to}

\* "published" mails look the results up when they go out; the others were
\* addressed when they were asked for.
SendExamEmails ==
  \E mail \in fanout :
    /\ Sent(mail, IF mail.kind = "published" THEN {p \in mail.to : HasMark(mail.exam, p)} ELSE mail.to)
    /\ fanout' = fanout \ {mail}
    /\ UNCHANGED <<exam, marks, viewed, round, clerk, minute, sweep>>

\* The minute job sends its own before it goes on.
SendDueEmails ==
  LET e == Head(sweep.left).exam IN
  /\ sweep.step = "mail"
  /\ Sent(Mail(e, "published", Pupils), {p \in Pupils : HasMark(e, p)})
  /\ sweep' = SweepNext
  /\ UNCHANGED <<exam, marks, viewed, round, fanout, clerk, minute>>

RemindExamSettingViewersHandler(c) ==
  \E e \in Exams :
    /\ Exists(e) /\ exam[e].visible /\ clerk[c] = Rest
    /\ LET late == {p \in Pupils : HasMark(e, p) /\ ~HasViewed(e, p)} IN
       late # {} /\ fanout' = fanout \cup {Mail(e, "reminder", late)}
    /\ UNCHANGED <<exam, marks, viewed, round, notices, clerk, minute, sweep>>
-----------------------------------------------------------------------------
MinutePasses ==
  /\ minute < MaxMinute /\ sweep = Swept
  /\ minute' = minute + 1
  /\ sweep' = [Swept EXCEPT !.step = "idle"]
  /\ UNCHANGED <<exam, marks, viewed, round, notices, fanout, clerk>>

ExamRequest(c) ==
  \/ PublishExamSettingHandler(c) \/ HideExamSettingHandler(c)
  \/ UpdateExamSettingHandler(c) \/ EnterResults(c)
  \/ RemindExamSettingViewersHandler(c)

ExamStep(c) ==
  \/ CheckPublishable(c) \/ PublishExamSetting(c) \/ ScheduleExamSettingPublish(c)
  \/ LookAtVisible(c) \/ CancelExamSettingSchedule(c) \/ CheckStillVisible(c)
  \/ HideExamSetting(c) \/ SaveExamSetting(c) \/ FindExamScore(c) \/ SaveExamScore(c)

\* What happens without a request of the staff.
ExamBackground ==
  \/ GetOrCreateExamSettings \/ SendExamEmails \/ SendDueEmails
  \/ PublishDueExam \/ SweepEnds \/ MinutePasses
  \/ \E p \in Pupils : RecordExamScoreViews(p)
-----------------------------------------------------------------------------

\* Results become visible only by being published: by hand or at their time
\* ("saving a max score can never accidentally reveal scores to students",
\* exam_handler.go).
RevealedOnlyByPublishing ==
  [][\A e \in Exams : Exists(e) /\ ~exam[e].visible /\ exam'[e].visible
                      => round'[e] = round[e] + 1]_examVars

\* Everybody with a result of a published exam has been told, since it was
\* announced, once nothing is under way.
EverybodyTold ==
  (fanout = {} /\ sweep.step \in {"swept", "idle"} /\ \A c \in Clerks : clerk[c] = Rest) =>
    \A e \in Exams : Exists(e) /\ exam[e].visible /\ exam[e].notify =>
      \A p \in Pupils : HasMark(e, p) =>
        [exam |-> e, kind |-> "published", pupil |-> p, round |-> round[e]] \in notices
=============================================================================
