-------------------------- MODULE Curriculum_proofs --------------------------
(***************************************************************************)
(* Theorems about Curriculum for every set of claims, courses, lessons,    *)
(* credentials and sessions.                                               *)
(***************************************************************************)
EXTENDS Curriculum, TLAPS

-----------------------------------------------------------------------------
(***************************************************************************)
(* Requests and rows.                                                      *)
(***************************************************************************)

\* The kind of a request tells its record.
LEMMA RequestOfKind ==
  ASSUME NEW r \in Request
  PROVE  /\ r.kind \in {"edit", "sentEdit"} => r \in CourseEdit
         /\ r.kind = "lesson" => r \in LessonDraft
         /\ r.kind = "issue" => r \in Issue
         /\ r.kind \in {"revoke", "sentRevoke"} => r \in Revocation
BY DEF Request, Idle, CourseEdit, LessonDraft, Issue, Revocation

\* The column-by-column merge of an edit, spelled out.
LEMMA MergeRow ==
  ASSUME NEW e \in CourseEdit, NEW row \in CourseRow
  PROVE  LET m == MergeColumns(e, row) IN
         /\ m \in CourseRow
         /\ m.state = IF e.mine.state # e.read.state
                        THEN e.mine.state ELSE row.state
         /\ m.live = IF e.mine.live # e.read.live THEN e.mine.live ELSE row.live
         /\ m.approved = IF e.mine.approved # e.read.approved
                           THEN e.mine.approved ELSE row.approved
         /\ m.dated = IF e.mine.dated # e.read.dated
                        THEN e.mine.dated ELSE row.dated
         /\ m.successor = IF e.mine.successor # e.read.successor
                            THEN e.mine.successor ELSE row.successor
<1>1. e.mine \in CourseRow /\ e.read \in CourseRow
  BY DEF CourseEdit
<1>2. DOMAIN row = {"state", "live", "approved", "dated", "successor"}
  BY DEF CourseRow
<1>. DEFINE m == MergeColumns(e, row)
<1>3. m = [state |-> IF e.mine.state # e.read.state
                       THEN e.mine.state ELSE row.state,
           live |-> IF e.mine.live # e.read.live THEN e.mine.live ELSE row.live,
           approved |-> IF e.mine.approved # e.read.approved
                          THEN e.mine.approved ELSE row.approved,
           dated |-> IF e.mine.dated # e.read.dated
                       THEN e.mine.dated ELSE row.dated,
           successor |-> IF e.mine.successor # e.read.successor
                           THEN e.mine.successor ELSE row.successor]
  BY <1>2 DEF MergeColumns
<1>. HIDE DEF m
<1>. QED
  BY <1>1, <1>3 DEF CourseRow, m

\* A merge keeps the evidence of the row, although neither of the two edits
\* that it puts together has seen the other.
LEMMA MergeSound ==
  ASSUME NEW e \in CourseEdit, NEW row \in CourseRow,
         Evidence(e.mine), Evidence(row),
         Grows(e.read, e.mine), Grows(e.read, row)
  PROVE  /\ Evidence(MergeColumns(e, row))
         /\ Grows(row, MergeColumns(e, row))
<1>1. e.mine \in CourseRow /\ e.read \in CourseRow
  BY DEF CourseEdit
<1>. DEFINE m == MergeColumns(e, row)
<1>2. /\ m.state = IF e.mine.state # e.read.state
                     THEN e.mine.state ELSE row.state
      /\ m.live = IF e.mine.live # e.read.live THEN e.mine.live ELSE row.live
      /\ m.approved = IF e.mine.approved # e.read.approved
                        THEN e.mine.approved ELSE row.approved
      /\ m.dated = IF e.mine.dated # e.read.dated
                     THEN e.mine.dated ELSE row.dated
      /\ m.successor = IF e.mine.successor # e.read.successor
                         THEN e.mine.successor ELSE row.successor
  BY MergeRow
<1>. HIDE DEF m
<1>3. Grows(row, m)
  BY <1>1, <1>2 DEF Grows, CourseRow
<1>4. Evidence(m)
  BY <1>1, <1>2 DEF Evidence, Grows, CourseRow
<1>. QED
  BY <1>3, <1>4 DEF m

-----------------------------------------------------------------------------
(***************************************************************************)
(* The inductive invariant: first the steps that change one request and no *)
(* table, then the others.                                                 *)
(***************************************************************************)

\* Empty tables and idle sessions satisfy the inductive invariant.
THEOREM InitIInv == Init => IInv
BY DEF Init, ClaimsInit, IInv, TypeOK, ClaimsTypeOK, Status, Request, RequestSound, Idle,
       CitationsWereVerified

\* A request that becomes another sound one changes nothing else.
LEMMA BecomeIInv ==
  ASSUME IInv, NEW s \in Session, NEW r \in Request, RequestSound(r),
         Become(s, r), UNCHANGED <<tables, claimsOnly>>
  PROVE  IInv'
<1>1. UNCHANGED <<status, courses, lessons, credentials, onceVerified>>
  BY DEF tables, claimsOnly
<1>2. request' \in [Session -> Request]
  BY DEF Become, IInv, TypeOK, ClaimsTypeOK
<1>3. ASSUME NEW t \in Session
      PROVE  RequestSound(request[t])'
  <2>1. RequestSound(request'[t])
    BY DEF Become, IInv, TypeOK, ClaimsTypeOK
  <2>. QED
    BY <1>1, <2>1 DEF RequestSound, EditSound
<1>. QED
  BY <1>1, <1>2, <1>3 DEF IInv, TypeOK, ClaimsTypeOK, CitationsWereVerified

\* An idle session has nothing to be sound about.
LEMMA IdleSound == Idle \in Request /\ RequestSound(Idle)
BY DEF Idle, Request, RequestSound

\* publish_course, approve_course and the others, up to the flush.
LEMMA LoadCourseIInv ==
  ASSUME IInv, NEW s \in Session, NEW k \in Course, NEW mine \in CourseRow,
         LoadCourse(s, k, mine),
         Evidence(mine), Grows(courses[k], mine),
         LiveAgrees(courses[k]) => LiveAgrees(mine)
  PROVE  IInv'
<1>. DEFINE r == [kind |-> "edit", course |-> k,
                  read |-> courses[k], mine |-> mine]
<1>1. courses[k] # Nil /\ courses[k] \in CourseRow /\ Evidence(courses[k])
  BY DEF LoadCourse, IInv, TypeOK, ClaimsTypeOK
<1>2. r \in Request
  BY <1>1 DEF Request, CourseEdit
<1>3. RequestSound(r)
  BY <1>1 DEF RequestSound, EditSound, Grows
<1>. QED
  BY <1>2, <1>3, BecomeIInv DEF LoadCourse

\* What each operation makes of a row keeps its evidence, and the flag
\* is_published agrees with the new state if it agreed with the old one.
LEMMA OperationsIInv ==
  ASSUME IInv, NEW s \in Session, NEW k \in Course,
         \/ PublishCourse(s, k) \/ ApproveCourse(s, k)
         \/ DeprecateCourse(s, k) \/ ArchiveCourse(s, k)
         \/ \E n \in Course : SupersedeCourse(s, k, n)
  PROVE  IInv'
<1>1. courses[k] \in CourseRow /\ Evidence(courses[k])
  BY DEF PublishCourse, ApproveCourse, DeprecateCourse, ArchiveCourse,
         SupersedeCourse, IInv, TypeOK, ClaimsTypeOK
<1>. DEFINE row == courses[k]
<1>. HIDE DEF row
<1>2. row \in CourseRow /\ Evidence(row)
  BY <1>1 DEF row
<1>3. CASE PublishCourse(s, k)
  <2>. DEFINE mine == [row EXCEPT !.state = "published",
                                  !.live = TRUE, !.dated = TRUE]
  <2>1. mine \in CourseRow /\ Evidence(mine) /\ Grows(row, mine)
    BY <1>2 DEF CourseRow, PublishingState, Evidence, Grows
  <2>2. LiveAgrees(mine)
    BY <1>2 DEF CourseRow, LiveAgrees
  <2>3. LoadCourse(s, k, mine)
    BY <1>3 DEF PublishCourse, row
  <2>. QED
    BY <2>1, <2>2, <2>3, LoadCourseIInv DEF row
<1>4. CASE ApproveCourse(s, k)
  <2>. DEFINE mine == [row EXCEPT !.state = "approved", !.approved = TRUE]
  <2>1. mine \in CourseRow /\ Evidence(mine) /\ Grows(row, mine)
    BY <1>2 DEF CourseRow, PublishingState, Evidence, Grows
  <2>2. LiveAgrees(row) => LiveAgrees(mine)
    BY <1>2, <1>4 DEF CourseRow, LiveAgrees, ApproveCourse, row
  <2>3. LoadCourse(s, k, mine)
    BY <1>4 DEF ApproveCourse, row
  <2>. QED
    BY <2>1, <2>2, <2>3, LoadCourseIInv DEF row
<1>5. CASE DeprecateCourse(s, k)
  <2>. DEFINE mine == [row EXCEPT !.state = "deprecated", !.live = FALSE]
  <2>1. mine \in CourseRow /\ Evidence(mine) /\ Grows(row, mine)
    BY <1>2 DEF CourseRow, PublishingState, Evidence, Grows
  <2>2. LiveAgrees(mine)
    BY <1>2 DEF CourseRow, LiveAgrees
  <2>3. LoadCourse(s, k, mine)
    BY <1>5 DEF DeprecateCourse, row
  <2>. QED
    BY <2>1, <2>2, <2>3, LoadCourseIInv DEF row
<1>6. CASE ArchiveCourse(s, k)
  <2>. DEFINE mine == [row EXCEPT !.state = "archived", !.live = FALSE]
  <2>1. mine \in CourseRow /\ Evidence(mine) /\ Grows(row, mine)
    BY <1>2 DEF CourseRow, PublishingState, Evidence, Grows
  <2>2. LiveAgrees(mine)
    BY <1>2 DEF CourseRow, LiveAgrees
  <2>3. LoadCourse(s, k, mine)
    BY <1>6 DEF ArchiveCourse, row
  <2>. QED
    BY <2>1, <2>2, <2>3, LoadCourseIInv DEF row
<1>7. ASSUME NEW n \in Course, SupersedeCourse(s, k, n)
      PROVE  IInv'
  <2>. DEFINE mine == [row EXCEPT !.state = "superseded", !.successor = n]
  <2>1. mine \in CourseRow /\ Evidence(mine) /\ Grows(row, mine)
    BY <1>2, NilIsNoCourse DEF CourseRow, PublishingState, Evidence, Grows
  <2>2. LiveAgrees(row) => LiveAgrees(mine)
    BY <1>2 DEF CourseRow, LiveAgrees
  <2>3. LoadCourse(s, k, mine)
    BY <1>7 DEF SupersedeCourse, row
  <2>. QED
    BY <2>1, <2>2, <2>3, LoadCourseIInv DEF row
<1>. QED
  BY <1>3, <1>4, <1>5, <1>6, <1>7

\* The steps of a request between its first statement and its commit.
LEMMA RequestsIInv ==
  ASSUME IInv, NEW s \in Session,
         \/ SendCourse(s) \/ SendRevoke(s) \/ Rollback(s)
         \/ \E c \in Claim : CheckClaim(s, c)
         \/ \E l \in Lesson, k \in Course, asked \in SUBSET Claim :
              StartLesson(s, l, k, asked)
         \/ \E k \in Course, d \in Credential : StartIssue(s, k, d)
         \/ \E d \in Credential : StartRevoke(s, d)
  PROVE  IInv'
<1>1. /\ request[s] \in Request /\ RequestSound(request[s])
      /\ \A c \in Claim : status[c] = "verified" => c \in onceVerified
      /\ \A k \in Course : courses[k] \in CourseRow \cup {Nil}
  BY DEF IInv, TypeOK, ClaimsTypeOK
<1>2. CASE SendCourse(s)
  <2>. DEFINE r == [request[s] EXCEPT !.kind = "sentEdit"]
  <2>1. request[s] \in CourseEdit /\ EditSound(request[s])
    BY <1>1, <1>2, RequestOfKind DEF SendCourse, RequestSound
  <2>2. r \in Request
    BY <2>1 DEF Request, CourseEdit
  <2>3. EditSound(r) /\ r.kind = "sentEdit"
    BY <2>1 DEF EditSound, CourseEdit
  <2>4. RequestSound(r)
    BY <2>3 DEF RequestSound
  <2>. QED
    BY <1>2, <2>2, <2>4, BecomeIInv DEF SendCourse
<1>3. CASE SendRevoke(s)
  <2>. DEFINE r == [request[s] EXCEPT !.kind = "sentRevoke"]
  <2>1. request[s] \in Revocation /\ credentials[request[s].credential] # Nil
    BY <1>1, <1>3, RequestOfKind DEF SendRevoke, RequestSound
  <2>2. r \in Request
    BY <2>1 DEF Request, Revocation
  <2>3. RequestSound(r)
    BY <2>1 DEF RequestSound, Revocation
  <2>. QED
    BY <1>3, <2>2, <2>3, BecomeIInv DEF SendRevoke
<1>4. CASE Rollback(s)
  BY <1>4, IdleSound, BecomeIInv DEF Rollback
<1>5. ASSUME NEW c \in Claim, CheckClaim(s, c)
      PROVE  IInv'
  <2>. DEFINE r == [request[s] EXCEPT !.checked = @ \cup {c}]
  <2>1. request[s] \in LessonDraft
    BY <1>1, <1>5, RequestOfKind DEF CheckClaim
  <2>2. r \in Request
    BY <2>1 DEF Request, LessonDraft
  <2>3. /\ request[s].asked # {} /\ request[s].checked \subseteq onceVerified
        /\ c \in onceVerified
    BY <1>1, <1>5 DEF CheckClaim, RequestSound
  <2>4. RequestSound(r)
    BY <2>1, <2>3 DEF RequestSound, LessonDraft
  <2>. QED
    BY <1>5, <2>2, <2>4, BecomeIInv DEF CheckClaim
<1>6. ASSUME NEW l \in Lesson, NEW k \in Course, NEW asked \in SUBSET Claim,
             StartLesson(s, l, k, asked)
      PROVE  IInv'
  <2>. DEFINE r == [kind |-> "lesson", lesson |-> l, course |-> k,
                    asked |-> asked, checked |-> {}]
  <2>1. r \in Request
    BY DEF Request, LessonDraft
  <2>2. RequestSound(r)
    BY <1>6 DEF RequestSound, StartLesson
  <2>. QED
    BY <1>6, <2>1, <2>2, BecomeIInv DEF StartLesson
<1>7. ASSUME NEW k \in Course, NEW d \in Credential, StartIssue(s, k, d)
      PROVE  IInv'
  <2>. DEFINE r == [kind |-> "issue", course |-> k, credential |-> d]
  <2>1. r \in Request
    BY DEF Request, Issue
  <2>2. courses[k] # Nil /\ courses[k].dated
    BY <1>7 DEF StartIssue, IInv, Evidence
  <2>3. RequestSound(r)
    BY <2>2 DEF RequestSound
  <2>. QED
    BY <1>7, <2>1, <2>3, BecomeIInv DEF StartIssue
<1>8. ASSUME NEW d \in Credential, StartRevoke(s, d)
      PROVE  IInv'
  <2>. DEFINE r == [kind |-> "revoke", credential |-> d]
  <2>1. r \in Request
    BY DEF Request, Revocation
  <2>2. RequestSound(r)
    BY <1>8 DEF RequestSound, StartRevoke
  <2>. QED
    BY <1>8, <2>1, <2>2, BecomeIInv DEF StartRevoke
<1>. QED
  BY <1>2, <1>3, <1>4, <1>5, <1>6, <1>7, <1>8

\* What a request rests on is never taken away: rows stay and grow, and a
\* claim that was verified once stays so.
LEMMA StaysSound ==
  ASSUME IInv, NEW t \in Session, request'[t] \in {request[t], Idle},
         onceVerified \subseteq onceVerified',
         \A k \in Course : courses[k] # Nil =>
           courses'[k] # Nil /\ Grows(courses[k], courses'[k]),
         \A d \in Credential : credentials[d] # Nil => credentials'[d] # Nil
  PROVE  RequestSound(request[t])'
<1>. DEFINE r == request[t]
<1>1. r \in Request /\ RequestSound(r)
  BY DEF IInv, TypeOK, ClaimsTypeOK
<1>2. CASE request'[t] = Idle
  BY <1>2 DEF RequestSound, Idle
<1>3. CASE request'[t] = r
  <2>. HIDE DEF r
  <2>1. r.kind \in {"edit", "sentEdit"} => EditSound(r)'
    <3>. SUFFICES ASSUME r.kind \in {"edit", "sentEdit"} PROVE EditSound(r)'
      OBVIOUS
    <3>1. r \in CourseEdit /\ EditSound(r)
      BY <1>1, RequestOfKind DEF RequestSound
    <3>2. r.course \in Course
      BY <3>1 DEF CourseEdit
    <3>3. courses'[r.course] # Nil /\ Grows(courses[r.course], courses'[r.course])
      BY <3>1, <3>2 DEF EditSound
    <3>4. Grows(r.read, courses'[r.course])
      BY <3>1, <3>3 DEF EditSound, Grows
    <3>5. r' = r
      BY <1>3 DEF r
    <3>. QED
      BY <3>1, <3>3, <3>4, <3>5 DEF EditSound
  <2>2. r.kind = "lesson" => r.asked # {} /\ r.checked \subseteq onceVerified'
    BY <1>1 DEF RequestSound
  <2>3. r.kind = "issue" => courses'[r.course] # Nil /\ courses'[r.course].dated
    <3>. SUFFICES ASSUME r.kind = "issue"
                  PROVE  courses'[r.course] # Nil /\ courses'[r.course].dated
      OBVIOUS
    <3>1. r.course \in Course /\ courses[r.course] # Nil /\ courses[r.course].dated
      BY <1>1, RequestOfKind DEF RequestSound, Issue
    <3>. QED
      BY <3>1 DEF Grows
  <2>4. r.kind \in {"revoke", "sentRevoke"} => credentials'[r.credential] # Nil
    BY <1>1, RequestOfKind DEF RequestSound, Revocation
  <2>5. r' = r
    BY <1>3 DEF r
  <2>6. RequestSound(r)'
    BY <2>1, <2>2, <2>3, <2>4, <2>5 DEF RequestSound
  <2>. QED
    BY <2>6 DEF r
<1>. QED
  BY <1>2, <1>3

\* A table of courses whose rows keep their evidence and only grow.
LEMMA CoursesGrow ==
  ASSUME IInv, courses' \in [Course -> CourseRow \cup {Nil}],
         \A k \in Course : courses'[k] # Nil => Evidence(courses'[k]),
         \A k \in Course : courses[k] # Nil =>
           courses'[k] # Nil /\ Grows(courses[k], courses'[k]),
         request' \in [Session -> Request],
         \A t \in Session : request'[t] \in {request[t], Idle},
         UNCHANGED <<lessons, credentials, claimsOnly>>
  PROVE  IInv'
<1>1. UNCHANGED <<status, lessons, credentials, onceVerified>>
  BY DEF claimsOnly
<1>2. TypeOK' /\ CitationsWereVerified'
  BY <1>1 DEF IInv, TypeOK, ClaimsTypeOK, CitationsWereVerified
<1>3. ASSUME NEW t \in Session
      PROVE  RequestSound(request[t])'
  BY <1>1, StaysSound
<1>4. ASSUME NEW d \in Credential, credentials[d] # Nil
      PROVE  /\ courses'[credentials[d].course] # Nil
             /\ courses'[credentials[d].course].dated
  <2>1. credentials[d] \in CredentialRow
    BY <1>4 DEF IInv, TypeOK, ClaimsTypeOK
  <2>2. credentials[d].course \in Course
    BY <2>1 DEF CredentialRow
  <2>3. /\ courses[credentials[d].course] # Nil
        /\ courses[credentials[d].course].dated
    BY <1>4 DEF IInv
  <2>. QED
    BY <2>2, <2>3 DEF Grows
<1>. QED
  BY <1>1, <1>2, <1>3, <1>4 DEF IInv

\* create_course; a row that is not there has nothing to keep.
LEMMA CreateCourseIInv ==
  ASSUME IInv, NEW k \in Course, CreateCourse(k)
  PROVE  IInv'
<1>1. NewCourse \in CourseRow /\ Evidence(NewCourse)
  BY DEF NewCourse, CourseRow, PublishingState, Evidence
<1>2. /\ courses \in [Course -> CourseRow \cup {Nil}]
      /\ request \in [Session -> Request]
      /\ \A j \in Course : courses[j] # Nil => Evidence(courses[j])
  BY DEF IInv, TypeOK, ClaimsTypeOK
<1>3. courses' = [courses EXCEPT ![k] = NewCourse] /\ courses[k] = Nil
  BY DEF CreateCourse
<1>4. courses' \in [Course -> CourseRow \cup {Nil}]
  BY <1>1, <1>2, <1>3
<1>5. \A j \in Course : courses'[j] # Nil => Evidence(courses'[j])
  BY <1>1, <1>2, <1>3
<1>6. \A j \in Course : courses[j] # Nil =>
        courses'[j] # Nil /\ Grows(courses[j], courses'[j])
  BY <1>2, <1>3 DEF Grows
<1>7. UNCHANGED <<lessons, credentials, claimsOnly, request>>
  BY DEF CreateCourse
<1>. QED
  BY <1>2, <1>4, <1>5, <1>6, <1>7, CoursesGrow

\* The commit of an edit, over whatever others have committed meanwhile.
LEMMA CommitCourseIInv ==
  ASSUME IInv, NEW s \in Session, CommitCourse(s)
  PROVE  IInv'
<1>. DEFINE e == request[s]
            new == MergeColumns(e, courses[e.course])
<1>1. e \in Request /\ RequestSound(e) /\ e.kind = "sentEdit"
  BY DEF CommitCourse, IInv, TypeOK, ClaimsTypeOK
<1>2. e \in CourseEdit /\ EditSound(e)
  BY <1>1, RequestOfKind DEF RequestSound
<1>3. /\ courses \in [Course -> CourseRow \cup {Nil}]
      /\ request \in [Session -> Request]
      /\ \A j \in Course : courses[j] # Nil => Evidence(courses[j])
  BY DEF IInv, TypeOK, ClaimsTypeOK
<1>4. courses' = [courses EXCEPT ![e.course] = new]
  BY DEF CommitCourse
<1>. HIDE DEF e
<1>5. e.course \in Course /\ courses[e.course] \in CourseRow
  BY <1>2, <1>3 DEF CourseEdit, EditSound
<1>6. new \in CourseRow
  BY <1>2, <1>5, MergeRow
<1>7. Evidence(new) /\ Grows(courses[e.course], new)
  BY <1>2, <1>3, <1>5, MergeSound, NilIsNoRow DEF EditSound
<1>8. new # Nil
  BY <1>6, NilIsNoRow
<1>. HIDE DEF new
<1>9. courses' \in [Course -> CourseRow \cup {Nil}]
  BY <1>3, <1>4, <1>5, <1>6
<1>10. \A j \in Course : courses'[j] # Nil => Evidence(courses'[j])
  BY <1>3, <1>4, <1>5, <1>7
<1>11. \A j \in Course : courses[j] # Nil =>
         courses'[j] # Nil /\ Grows(courses[j], courses'[j])
  BY <1>3, <1>4, <1>5, <1>7, <1>8 DEF Grows
<1>12. /\ request' = [request EXCEPT ![s] = Idle]
       /\ UNCHANGED <<lessons, credentials, claimsOnly>>
  BY DEF CommitCourse, Become
<1>13. /\ request' \in [Session -> Request]
       /\ \A t \in Session : request'[t] \in {request[t], Idle}
  BY <1>3, <1>12, IdleSound
<1>. QED
  BY <1>9, <1>10, <1>11, <1>12, <1>13, CoursesGrow

\* A claim that moves into "verified" is remembered.
LEMMA LedgerMovesIInv ==
  ASSUME IInv, NEW c \in Claim, NEW new \in ClaimTargets, LedgerMoves(c, new)
  PROVE  IInv'
<1>1. /\ status' = [status EXCEPT ![c] = new]
      /\ onceVerified' = IF new = "verified" THEN onceVerified \cup {c}
                         ELSE onceVerified
      /\ UNCHANGED <<courses, lessons, credentials, request>>
  BY DEF LedgerMoves, ClaimMoves, tables
<1>2. TypeOK /\ new \in Status
  BY ClaimTargetsAreStatuses DEF IInv
<1>3. onceVerified \subseteq onceVerified'
  BY <1>1
<1>4. TypeOK'
  BY <1>1, <1>2 DEF TypeOK, ClaimsTypeOK
<1>5. \A d \in Claim : status'[d] = "verified" => d \in onceVerified'
  BY <1>1, <1>2 DEF IInv, TypeOK, ClaimsTypeOK
<1>6. ASSUME NEW t \in Session
      PROVE  RequestSound(request[t])'
  <2>1. \A k \in Course : courses[k] # Nil =>
          courses'[k] # Nil /\ Grows(courses[k], courses'[k])
    BY <1>1 DEF Grows
  <2>. QED
    BY <1>1, <1>3, <2>1, StaysSound
<1>7. CitationsWereVerified'
  BY <1>1, <1>3 DEF IInv, CitationsWereVerified
<1>. QED
  BY <1>1, <1>4, <1>5, <1>6, <1>7 DEF IInv

\* A lesson commits with exactly the claims that were found verified.
LEMMA CommitLessonIInv ==
  ASSUME IInv, NEW s \in Session, CommitLesson(s)
  PROVE  IInv'
<1>. DEFINE d == request[s]
            row == [course |-> d.course, cites |-> d.checked]
<1>1. d \in LessonDraft /\ d.asked # {} /\ d.checked \subseteq onceVerified
  <2>1. d \in Request /\ RequestSound(d) /\ d.kind = "lesson"
    BY DEF CommitLesson, IInv, TypeOK, ClaimsTypeOK
  <2>. QED
    BY <2>1, RequestOfKind DEF RequestSound
<1>2. /\ d.checked = d.asked
      /\ lessons' = [lessons EXCEPT ![d.lesson] = row]
      /\ request' = [request EXCEPT ![s] = Idle]
      /\ UNCHANGED <<status, courses, credentials, onceVerified>>
  BY DEF CommitLesson, Become, claimsOnly
<1>. HIDE DEF d
<1>3. row \in LessonRow /\ d.lesson \in Lesson
  BY <1>1 DEF LessonRow, LessonDraft
<1>4. TypeOK'
  BY <1>2, <1>3, IdleSound DEF IInv, TypeOK, ClaimsTypeOK
<1>5. CitationsWereVerified'
  <2>1. row.cites # {} /\ row.cites \subseteq onceVerified
    BY <1>1, <1>2
  <2>. HIDE DEF row
  <2>. QED
    BY <1>2, <1>3, <2>1 DEF IInv, TypeOK, ClaimsTypeOK, CitationsWereVerified
<1>6. ASSUME NEW t \in Session
      PROVE  RequestSound(request[t])'
  <2>1. request'[t] \in {request[t], Idle}
    BY <1>2 DEF IInv, TypeOK, ClaimsTypeOK
  <2>2. \A k \in Course : courses[k] # Nil =>
          courses'[k] # Nil /\ Grows(courses[k], courses'[k])
    BY <1>2 DEF Grows
  <2>. QED
    BY <1>2, <2>1, <2>2, StaysSound
<1>. QED
  BY <1>2, <1>4, <1>5, <1>6 DEF IInv

\* Credentials: a new one is of a course with a date, a revoked one is still
\* of the same course.
LEMMA CommitCredentialIInv ==
  ASSUME IInv, NEW s \in Session, CommitIssue(s) \/ CommitRevoke(s)
  PROVE  IInv'
<1>. DEFINE r == request[s]
            old == credentials[r.credential]
            new == IF r.kind = "issue"
                     THEN [course |-> r.course, revoked |-> FALSE]
                     ELSE [old EXCEPT !.revoked = TRUE]
<1>1. r \in Request /\ RequestSound(r) /\ r.kind \in {"issue", "sentRevoke"}
  BY DEF CommitIssue, CommitRevoke, IInv, TypeOK, ClaimsTypeOK
<1>2. /\ credentials' = [credentials EXCEPT ![r.credential] = new]
      /\ request' = [request EXCEPT ![s] = Idle]
      /\ UNCHANGED <<status, courses, lessons, onceVerified>>
  <2>1. CASE CommitIssue(s)
    BY <2>1 DEF CommitIssue, Become, claimsOnly
  <2>2. CASE CommitRevoke(s)
    <3>1. credentials' = [credentials EXCEPT ![r.credential].revoked = TRUE]
          /\ r.kind # "issue"
      BY <2>2 DEF CommitRevoke
    <3>. QED
      BY <2>2, <3>1 DEF CommitRevoke, Become, claimsOnly
  <2>. QED
    BY <2>1, <2>2
<1>. HIDE DEF r
<1>3. /\ r.credential \in Credential /\ new \in CredentialRow
      /\ courses[new.course] # Nil /\ courses[new.course].dated
  <2>1. CASE r.kind = "issue"
    BY <1>1, <2>1, RequestOfKind DEF RequestSound, Issue, CredentialRow
  <2>2. CASE r.kind = "sentRevoke"
    <3>1. r.credential \in Credential /\ old # Nil
      BY <1>1, <2>2, RequestOfKind DEF RequestSound, Revocation
    <3>2. /\ old \in CredentialRow
          /\ courses[old.course] # Nil /\ courses[old.course].dated
      BY <3>1 DEF IInv, TypeOK, ClaimsTypeOK
    <3>3. new = [old EXCEPT !.revoked = TRUE]
      BY <2>2
    <3>. HIDE DEF old, new
    <3>4. new \in CredentialRow /\ new.course = old.course
      BY <3>2, <3>3 DEF CredentialRow
    <3>. QED
      BY <3>1, <3>2, <3>4
  <2>. QED
    BY <1>1, <2>1, <2>2
<1>. HIDE DEF new
<1>4. TypeOK'
  BY <1>2, <1>3, IdleSound DEF IInv, TypeOK, ClaimsTypeOK
<1>5. CitationsWereVerified'
  BY <1>2 DEF IInv, CitationsWereVerified
<1>6. ASSUME NEW t \in Session
      PROVE  RequestSound(request[t])'
  <2>1. request'[t] \in {request[t], Idle}
    BY <1>2 DEF IInv, TypeOK, ClaimsTypeOK
  <2>2. \A k \in Course : courses[k] # Nil =>
          courses'[k] # Nil /\ Grows(courses[k], courses'[k])
    BY <1>2 DEF Grows
  <2>3. \A d \in Credential : credentials[d] # Nil => credentials'[d] # Nil
    BY <1>2, <1>3, NilIsNoRow DEF IInv, TypeOK, ClaimsTypeOK
  <2>. QED
    BY <1>2, <2>1, <2>2, <2>3, StaysSound
<1>7. ASSUME NEW d \in Credential, credentials'[d] # Nil
      PROVE  /\ courses[credentials'[d].course] # Nil
             /\ courses[credentials'[d].course].dated
  BY <1>2, <1>3, <1>7 DEF IInv, TypeOK, ClaimsTypeOK
<1>. QED
  BY <1>2, <1>4, <1>5, <1>6, <1>7 DEF IInv

\* Every step keeps the inductive invariant.
THEOREM NextIInv == IInv /\ [Next]_vars => IInv'
<1>. SUFFICES ASSUME IInv, [Next]_vars PROVE IInv'
  OBVIOUS
<1>1. CASE UNCHANGED vars
  BY <1>1 DEF vars, IInv, TypeOK, ClaimsTypeOK, RequestSound, EditSound,
              CitationsWereVerified
<1>2. ASSUME NEW c \in Claim, NEW new \in ClaimTargets, LedgerMoves(c, new)
      PROVE  IInv'
  BY <1>2, LedgerMovesIInv
<1>3. ASSUME NEW k \in Course, CreateCourse(k)
      PROVE  IInv'
  BY <1>3, CreateCourseIInv
<1>4. ASSUME NEW s \in Session, NEW k \in Course,
             \/ PublishCourse(s, k) \/ ApproveCourse(s, k)
             \/ DeprecateCourse(s, k) \/ ArchiveCourse(s, k)
             \/ \E n \in Course : SupersedeCourse(s, k, n)
      PROVE  IInv'
  BY <1>4, OperationsIInv
<1>5. ASSUME NEW s \in Session, NEW k \in Course,
             \/ \E l \in Lesson, asked \in SUBSET Claim :
                  StartLesson(s, l, k, asked)
             \/ \E d \in Credential : StartIssue(s, k, d)
      PROVE  IInv'
  BY <1>5, RequestsIInv
<1>6. ASSUME NEW s \in Session,
             \/ SendCourse(s)
             \/ \E c \in Claim : CheckClaim(s, c)
             \/ \E d \in Credential : StartRevoke(s, d)
             \/ SendRevoke(s) \/ Rollback(s)
      PROVE  IInv'
  BY <1>6, RequestsIInv
<1>7. ASSUME NEW s \in Session, CommitCourse(s)
      PROVE  IInv'
  BY <1>7, CommitCourseIInv
<1>8. ASSUME NEW s \in Session, CommitLesson(s)
      PROVE  IInv'
  BY <1>8, CommitLessonIInv
<1>9. ASSUME NEW s \in Session, CommitIssue(s) \/ CommitRevoke(s)
      PROVE  IInv'
  BY <1>9, CommitCredentialIInv
<1>. QED
  BY <1>1, <1>2, <1>3, <1>4, <1>5, <1>6, <1>7, <1>8, <1>9 DEF Next

\* The inductive invariant holds in every reachable state.
THEOREM Inductive == Spec => []IInv
BY InitIInv, NextIInv, PTL DEF Spec

-----------------------------------------------------------------------------
(***************************************************************************)
(* What follows from it.                                                   *)
(***************************************************************************)

\* Rows and requests keep their types.
THEOREM TypeCorrect == Spec => []TypeOK
<1>1. IInv => TypeOK
  BY DEF IInv
<1>. QED
  BY <1>1, Inductive, PTL

\* A course in a state has the evidence of that state, whatever edits of
\* stale rows were merged into it.
THEOREM EvidenceSafe == Spec => []StateHasEvidence
<1>1. IInv => StateHasEvidence
  BY DEF IInv, StateHasEvidence, Evidence
<1>. QED
  BY <1>1, Inductive, PTL

\* Every lesson cites a claim, and only claims that have been verified.
THEOREM CitationsSafe == Spec => []CitationsWereVerified
<1>1. IInv => CitationsWereVerified
  BY DEF IInv
<1>. QED
  BY <1>1, Inductive, PTL

\* A credential is of a course that has been published.
THEOREM CredentialsSafe == Spec => []CredentialsFollowPublication
<1>1. IInv => CredentialsFollowPublication
  BY DEF IInv, CredentialsFollowPublication
<1>. QED
  BY <1>1, Inductive, PTL

\* Only the commit of its own edit makes a session idle and changes a course.
LEMMA FreshCommit ==
  ASSUME IInv, Next, NEW s \in Session, CommitsFreshCourse(s)
  PROVE  CommitCourse(s)
<1>1. /\ request[s].kind = "sentEdit" /\ request'[s] = Idle
      /\ courses' # courses /\ request \in [Session -> Request]
  BY DEF CommitsFreshCourse, IInv, TypeOK, ClaimsTypeOK
<1>2. request'[s] # request[s]
  BY <1>1 DEF Idle
<1>3. ASSUME NEW t \in Session, CommitCourse(t)
      PROVE  t = s
  BY <1>1, <1>2, <1>3 DEF CommitCourse, Become
<1>4. ASSUME NEW k \in Course, CreateCourse(k)
      PROVE  FALSE
  BY <1>2, <1>4 DEF CreateCourse
<1>5. ASSUME NEW t \in Session, NEW k \in Course,
             \/ PublishCourse(t, k) \/ ApproveCourse(t, k)
             \/ DeprecateCourse(t, k) \/ ArchiveCourse(t, k)
             \/ \E n \in Course : SupersedeCourse(t, k, n)
             \/ \E l \in Lesson, asked \in SUBSET Claim :
                  StartLesson(t, l, k, asked)
             \/ \E d \in Credential : StartIssue(t, k, d)
      PROVE  FALSE
  BY <1>1, <1>5 DEF PublishCourse, ApproveCourse, DeprecateCourse,
     ArchiveCourse, SupersedeCourse, LoadCourse, StartLesson, StartIssue, tables
<1>6. ASSUME NEW t \in Session,
             \/ SendCourse(t) \/ SendRevoke(t) \/ Rollback(t)
             \/ CommitLesson(t) \/ CommitIssue(t) \/ CommitRevoke(t)
             \/ \E c \in Claim : CheckClaim(t, c)
             \/ \E d \in Credential : StartRevoke(t, d)
      PROVE  FALSE
  BY <1>1, <1>6 DEF SendCourse, SendRevoke, Rollback, CommitLesson,
     CommitIssue, CommitRevoke, CheckClaim, StartRevoke, tables
<1>7. ASSUME NEW c \in Claim, NEW new \in ClaimTargets, LedgerMoves(c, new)
      PROVE  FALSE
  BY <1>1, <1>7 DEF LedgerMoves, ClaimMoves, tables
<1>. QED
  BY <1>3, <1>4, <1>5, <1>6, <1>7 DEF Next

\* An edit of the row that is still there commits the row as the session
\* changed it, so is_published agrees with the state if it did before.
LEMMA FreshStep ==
  ASSUME IInv, Next, NEW s \in Session, CommitsFreshCourse(s),
         NEW k, k = request[s].course, LiveAgrees(courses[k])
  PROVE  LiveAgrees(courses'[k])
<1>. DEFINE e == request[s]
            m == MergeColumns(e, courses[k])
<1>1. CommitCourse(s)
  BY FreshCommit
<1>2. e \in CourseEdit /\ EditSound(e) /\ e.course = k
  <2>1. e \in Request /\ RequestSound(e) /\ e.kind = "sentEdit"
    BY <1>1 DEF CommitCourse, IInv, TypeOK, ClaimsTypeOK
  <2>. QED
    BY <2>1, RequestOfKind DEF RequestSound
<1>3. courses' = [courses EXCEPT ![k] = m]
  BY <1>1, <1>2 DEF CommitCourse
<1>4. courses[k] = e.read
  BY <1>2 DEF CommitsFreshCourse
<1>. HIDE DEF e
<1>5. /\ courses \in [Course -> CourseRow \cup {Nil}]
      /\ e.read \in CourseRow /\ e.mine \in CourseRow /\ k \in Course
      /\ LiveAgrees(e.read) => LiveAgrees(e.mine)
  BY <1>2 DEF IInv, TypeOK, ClaimsTypeOK, CourseEdit, EditSound
<1>6. m.state = e.mine.state /\ m.live = e.mine.live
  BY <1>2, <1>4, <1>5, MergeRow
<1>. HIDE DEF m
<1>7. LiveAgrees(m)
  BY <1>4, <1>5, <1>6 DEF LiveAgrees
<1>. QED
  BY <1>3, <1>5, <1>7

\* is_published and the publishing state part only when edits overlap.
THEOREM FreshEditsSafe == Spec => FreshEditsKeepLive
<1>. DEFINE Fresh ==
       \A s \in Session :
         CommitsFreshCourse(s) =>
           LET k == request[s].course
           IN  LiveAgrees(courses[k]) => LiveAgrees(courses'[k])
<1>1. IInv /\ Next => Fresh
  BY FreshStep
<1>2. IInv /\ [Next]_vars => [Fresh]_vars
  BY <1>1
<1>. QED
  BY <1>2, Inductive, PTL DEF Spec, FreshEditsKeepLive
=============================================================================
