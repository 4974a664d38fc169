----------------------------- MODULE Curriculum -----------------------------
(***************************************************************************)
(* Courses, the lessons that cite claims, and the credentials that courses *)
(* award, as concurrent database sessions change them.  The claim ledger   *)
(* is the environment: a claim may move at any time (ClaimLedger says how).*)
(*                                                                         *)
(* Sessions follow the rules of ClaimLedger: what is read is not locked,   *)
(* an UPDATE holds its row to the end of the transaction, and it names     *)
(* only the columns whose value the session changed, so a column that was  *)
(* set to the value it had when it was loaded keeps what others committed. *)
(* Modules (the chapters of a course) carry no rule and are left out: a    *)
(* lesson belongs to its course.                                           *)
(***************************************************************************)
EXTENDS MovingClaims

CONSTANTS
  Course, Lesson, Credential  \* ids that requests may ever allot

ASSUME NilIsNoCourse == Nil \notin Course

VARIABLES
  courses,      \* committed rows of courses
  lessons,      \* committed lessons: their course and the claims they cite
  credentials,  \* committed credentials
  request       \* what each session is doing

vars == <<status, courses, lessons, credentials, request, onceVerified>>

\* No operation assigns "verified" or "restricted".
PublishingState == {"draft", "verified", "approved", "published", "restricted",
                    "deprecated", "superseded", "archived"}

\* approved and dated stand for approved_by/approved_at and published_at.
CourseRow == [state : PublishingState, live : BOOLEAN, approved : BOOLEAN,
              dated : BOOLEAN, successor : Course \cup {Nil}]

NewCourse == [state |-> "draft", live |-> FALSE, approved |-> FALSE,
              dated |-> FALSE, successor |-> Nil]

LessonRow == [course : Course, cites : SUBSET Claim]
CredentialRow == [course : Course, revoked : BOOLEAN]

ASSUME NilIsNoRow == Nil \notin CourseRow \cup CredentialRow

\* A course edit: the row as loaded, and as the session has changed it.
CourseEdit == [kind : {"edit", "sentEdit"}, course : Course,
               read : CourseRow, mine : CourseRow]

\* A lesson in the making: the claims asked for and those found verified.
LessonDraft == [kind : {"lesson"}, lesson : Lesson, course : Course,
                asked : SUBSET Claim, checked : SUBSET Claim]

Issue == [kind : {"issue"}, course : Course, credential : Credential]
Revocation == [kind : {"revoke", "sentRevoke"}, credential : Credential]

Request == {Idle} \cup CourseEdit \cup LessonDraft \cup Issue \cup Revocation

\* Rows and requests keep their types.
TypeOK ==
  /\ ClaimsTypeOK
  /\ courses \in [Course -> CourseRow \cup {Nil}]
  /\ lessons \in [Lesson -> LessonRow \cup {Nil}]
  /\ credentials \in [Credential -> CredentialRow \cup {Nil}]
  /\ request \in [Session -> Request]

Init ==
  /\ ClaimsInit
  /\ courses = [k \in Course |-> Nil]
  /\ lessons = [l \in Lesson |-> Nil]
  /\ credentials = [d \in Credential |-> Nil]
  /\ request = [s \in Session |-> Idle]

tables == <<courses, lessons, credentials>>

Become(s, r) == request' = [request EXCEPT ![s] = r]

LedgerMoves(c, new) == ClaimMoves(c, new) /\ UNCHANGED <<tables, request>>

-----------------------------------------------------------------------------
(***************************************************************************)
(* Courses.                                                                *)
(***************************************************************************)

CreateCourse(k) ==
  /\ courses[k] = Nil
  /\ courses' = [courses EXCEPT ![k] = NewCourse]
  /\ UNCHANGED <<lessons, credentials, request, claimsOnly>>

LessonsOf(k) == {l \in Lesson : lessons[l] # Nil /\ lessons[l].course = k}

\* Every lesson of the course cites a claim; a course without lessons passes.
CourseIntegrity(k) == \A l \in LessonsOf(k) : lessons[l].cites # {}

\* Load the course and change the loaded object to mine.
LoadCourse(s, k, mine) ==
  /\ request[s] = Idle
  /\ courses[k] # Nil
  /\ Become(s, [kind |-> "edit", course |-> k,
                read |-> courses[k], mine |-> mine])
  /\ UNCHANGED <<tables, claimsOnly>>

PublishCourse(s, k) ==
  /\ courses[k] # Nil /\ CourseIntegrity(k)
  /\ LoadCourse(s, k, [courses[k] EXCEPT !.state = "published",
                                         !.live = TRUE, !.dated = TRUE])

ApproveCourse(s, k) ==
  /\ courses[k] # Nil /\ courses[k].state \in {"draft", "verified"}
  /\ CourseIntegrity(k)
  /\ LoadCourse(s, k, [courses[k] EXCEPT !.state = "approved",
                                         !.approved = TRUE])

\* Mutated form: the successor is not recorded.
SupersedeCourseUnlinked(s, k, n) ==
  /\ courses[k] # Nil /\ courses[n] # Nil
  /\ LoadCourse(s, k, [courses[k] EXCEPT !.state = "superseded"])

\* Nothing requires the successor to be another course.
SupersedeCourse(s, k, n) ==
  /\ courses[k] # Nil /\ courses[n] # Nil
  /\ LoadCourse(s, k, [courses[k] EXCEPT !.state = "superseded",
                                         !.successor = n])

DeprecateCourse(s, k) ==
  /\ courses[k] # Nil
  /\ LoadCourse(s, k, [courses[k] EXCEPT !.state = "deprecated",
                                         !.live = FALSE])

\* Mutated form: the archived course stays published.
ArchiveCourseLive(s, k) ==
  /\ courses[k] # Nil
  /\ LoadCourse(s, k, [courses[k] EXCEPT !.state = "archived"])

ArchiveCourse(s, k) ==
  /\ courses[k] # Nil
  /\ LoadCourse(s, k, [courses[k] EXCEPT !.state = "archived",
                                         !.live = FALSE])

\* published_at is a new time whenever a course is published, so publishing
\* always sends an UPDATE; other edits only if they change something.
Writes(e) == e.mine # e.read \/ e.mine.state = "published"

CourseLocked(s, k) ==
  \E t \in Session \ {s} :
    request[t].kind = "sentEdit" /\ request[t].course = k /\ Writes(request[t])

SendCourse(s) ==
  /\ request[s].kind = "edit"
  /\ Writes(request[s]) => ~CourseLocked(s, request[s].course)
  /\ Become(s, [request[s] EXCEPT !.kind = "sentEdit"])
  /\ UNCHANGED <<tables, claimsOnly>>

\* The columns the session changed, over the row as it is now.
MergeColumns(e, row) ==
  [col \in DOMAIN row |->
     IF e.mine[col] # e.read[col] THEN e.mine[col] ELSE row[col]]

CommitCourse(s) ==
  LET e == request[s] IN
  /\ e.kind = "sentEdit"
  /\ courses' = [courses EXCEPT ![e.course] = MergeColumns(e, courses[e.course])]
  /\ Become(s, Idle)
  /\ UNCHANGED <<lessons, credentials, claimsOnly>>

-----------------------------------------------------------------------------
(***************************************************************************)
(* Lessons.                                                                *)
(***************************************************************************)
UnusedLesson(l) ==
  lessons[l] = Nil /\ \A s \in Session : request[s].kind = "lesson" => request[s].lesson # l

\* Nothing asks for the state of the course: published and archived courses
\* take lessons too.
StartLesson(s, l, k, asked) ==
  /\ request[s] = Idle
  /\ UnusedLesson(l) /\ courses[k] # Nil /\ asked # {}
  /\ Become(s, [kind |-> "lesson", lesson |-> l, course |-> k,
                asked |-> asked, checked |-> {}])
  /\ UNCHANGED <<tables, claimsOnly>>

\* Mutated form: any claim that exists may be cited.
CheckClaimExists(s, c) ==
  /\ request[s].kind = "lesson"
  /\ c \in request[s].asked \ request[s].checked
  /\ Become(s, [request[s] EXCEPT !.checked = @ \cup {c}])
  /\ UNCHANGED <<tables, claimsOnly>>

\* One SELECT per claim; a claim that is not verified refuses the lesson.
CheckClaim(s, c) ==
  /\ request[s].kind = "lesson"
  /\ c \in request[s].asked \ request[s].checked
  /\ status[c] = "verified"
  /\ Become(s, [request[s] EXCEPT !.checked = @ \cup {c}])
  /\ UNCHANGED <<tables, claimsOnly>>

\* The lesson and its citations become visible together.
CommitLesson(s) ==
  LET d == request[s] IN
  /\ d.kind = "lesson" /\ d.checked = d.asked
  /\ lessons' = [lessons EXCEPT ![d.lesson] =
                   [course |-> d.course, cites |-> d.checked]]
  /\ Become(s, Idle)
  /\ UNCHANGED <<courses, credentials, claimsOnly>>

-----------------------------------------------------------------------------
(***************************************************************************)
(* Credentials.                                                            *)
(***************************************************************************)
UnusedCredential(d) ==
  credentials[d] = Nil /\ \A s \in Session : request[s].kind = "issue" => request[s].credential # d

\* Mutated form: any course that exists awards credentials.
StartIssueUnchecked(s, k, d) ==
  /\ request[s] = Idle /\ UnusedCredential(d)
  /\ courses[k] # Nil
  /\ Become(s, [kind |-> "issue", course |-> k, credential |-> d])
  /\ UNCHANGED <<tables, claimsOnly>>

StartIssue(s, k, d) ==
  /\ request[s] = Idle /\ UnusedCredential(d)
  /\ courses[k] # Nil /\ courses[k].state \in {"published", "restricted"}
  /\ Become(s, [kind |-> "issue", course |-> k, credential |-> d])
  /\ UNCHANGED <<tables, claimsOnly>>

CommitIssue(s) ==
  LET r == request[s] IN
  /\ r.kind = "issue"
  /\ credentials' = [credentials EXCEPT ![r.credential] =
                       [course |-> r.course, revoked |-> FALSE]]
  /\ Become(s, Idle)
  /\ UNCHANGED <<courses, lessons, claimsOnly>>

StartRevoke(s, d) ==
  /\ request[s] = Idle
  /\ credentials[d] # Nil /\ ~credentials[d].revoked
  /\ Become(s, [kind |-> "revoke", credential |-> d])
  /\ UNCHANGED <<tables, claimsOnly>>

SendRevoke(s) ==
  /\ request[s].kind = "revoke"
  /\ \A t \in Session \ {s} : request[t].kind = "sentRevoke" =>
       request[t].credential # request[s].credential
  /\ Become(s, [request[s] EXCEPT !.kind = "sentRevoke"])
  /\ UNCHANGED <<tables, claimsOnly>>

CommitRevoke(s) ==
  LET r == request[s] IN
  /\ r.kind = "sentRevoke"
  /\ credentials' = [credentials EXCEPT ![r.credential].revoked = TRUE]
  /\ Become(s, Idle)
  /\ UNCHANGED <<courses, lessons, claimsOnly>>

-----------------------------------------------------------------------------
Rollback(s) ==
  /\ request[s] # Idle
  /\ Become(s, Idle)
  /\ UNCHANGED <<tables, claimsOnly>>

Next ==
  \/ \E c \in Claim, new \in ClaimTargets : LedgerMoves(c, new)
  \/ \E k \in Course : CreateCourse(k)
  \/ \E s \in Session, k \in Course :
       \/ PublishCourse(s, k) \/ ApproveCourse(s, k)
       \/ DeprecateCourse(s, k) \/ ArchiveCourse(s, k)
       \/ \E n \in Course : SupersedeCourse(s, k, n)
       \/ \E l \in Lesson, asked \in SUBSET Claim : StartLesson(s, l, k, asked)
       \/ \E d \in Credential : StartIssue(s, k, d)
  \/ \E s \in Session :
       \/ SendCourse(s) \/ CommitCourse(s)
       \/ \E c \in Claim : CheckClaim(s, c)
       \/ CommitLesson(s)
       \/ CommitIssue(s)
       \/ \E d \in Credential : StartRevoke(s, d)
       \/ SendRevoke(s) \/ CommitRevoke(s)
       \/ Rollback(s)

Spec == Init /\ [][Next]_vars

-----------------------------------------------------------------------------
(***************************************************************************)
(* Properties that hold however sessions overlap.                          *)
(***************************************************************************)

\* A state of the publishing lifecycle keeps its evidence: an approved course
\* names its approver, a superseded one its successor, and a published one
\* its date, although columns are merged from edits of stale rows.
StateHasEvidence ==
  \A k \in Course : courses[k] # Nil =>
    /\ courses[k].state = "approved" => courses[k].approved
    /\ courses[k].state = "superseded" => courses[k].successor # Nil
    /\ courses[k].state = "published" => courses[k].dated
    /\ courses[k].live => courses[k].dated

\* The no-hallucination rule as far as the code can keep it: every lesson
\* cites a claim, and every cited claim has been verified before.
CitationsWereVerified ==
  \A l \in Lesson : lessons[l] # Nil =>
    lessons[l].cites # {} /\ lessons[l].cites \subseteq onceVerified

\* Credentials exist only for courses that have been published, even when
\* the course was withdrawn while the credential was made.
CredentialsFollowPublication ==
  \A d \in Credential :
    credentials[d] # Nil => courses[credentials[d].course].dated

\* An edit whose course was not edited since it loaded it commits on the row
\* it has read.
CommitsFreshCourse(s) ==
  /\ request[s].kind = "sentEdit" /\ request'[s] = Idle
  /\ courses' # courses
  /\ courses[request[s].course] = request[s].read

\* is_published agrees with the publishing state; a superseded course keeps
\* what it had.
LiveAgrees(row) ==
  /\ row.state = "published" => row.live
  /\ row.live => row.state \in {"published", "superseded"}

\* Only an edit of a stale row can make is_published disagree with the state:
\* two edits that overlap are merged column by column into a row that neither
\* of them asked for.
FreshEditsKeepLive ==
  [][\A s \in Session :
       CommitsFreshCourse(s) =>
         LET k == request[s].course
         IN  LiveAgrees(courses[k]) => LiveAgrees(courses'[k])]_vars

-----------------------------------------------------------------------------
(***************************************************************************)
(* The inductive invariant behind the safety properties.                   *)
(***************************************************************************)

\* The evidence of one row; no row is restricted.
Evidence(row) ==
  /\ row.state = "approved" => row.approved
  /\ row.state = "superseded" => row.successor # Nil
  /\ row.state = "published" => row.dated
  /\ row.live => row.dated
  /\ row.state # "restricted"

\* What a course has been given it keeps: approver, date and a successor.
Grows(old, new) ==
  /\ old.approved => new.approved
  /\ old.dated => new.dated
  /\ old.successor # Nil => new.successor # Nil

\* An edit goes from a row with its evidence to another, and the row as it is
\* now has kept what the edit has read.
EditSound(e) ==
  /\ courses[e.course] # Nil
  /\ Evidence(e.read) /\ Evidence(e.mine)
  /\ Grows(e.read, e.mine) /\ Grows(e.read, courses[e.course])
  /\ LiveAgrees(e.read) => LiveAgrees(e.mine)

\* Every request rests on rows that are there, a lesson on claims that were
\* verified when they were checked, a credential on a course with a date.
RequestSound(r) ==
  /\ r.kind \in {"edit", "sentEdit"} => EditSound(r)
  /\ r.kind = "lesson" => r.asked # {} /\ r.checked \subseteq onceVerified
  /\ r.kind = "issue" => courses[r.course] # Nil /\ courses[r.course].dated
  /\ r.kind \in {"revoke", "sentRevoke"} => credentials[r.credential] # Nil

IInv ==
  /\ TypeOK
  /\ \A c \in Claim : status[c] = "verified" => c \in onceVerified
  /\ \A k \in Course : courses[k] # Nil => Evidence(courses[k])
  /\ \A s \in Session : RequestSound(request[s])
  /\ CitationsWereVerified
  /\ \A d \in Credential : credentials[d] # Nil =>
       /\ courses[credentials[d].course] # Nil
       /\ courses[credentials[d].course].dated

-----------------------------------------------------------------------------
(***************************************************************************)
(* What the documentation says and requests that overlap do not keep.      *)
(***************************************************************************)

\* "Every claim cited in a lesson must be in VERIFIED state at the time the
\* lesson is written."
CitesVerifiedWhenWritten ==
  [][\A l \in Lesson :
       lessons[l] = Nil /\ lessons'[l] # Nil =>
         \A c \in lessons'[l].cites : status[c] = "verified"]_vars
=============================================================================
