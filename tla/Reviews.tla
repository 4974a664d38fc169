------------------------------- MODULE Reviews -------------------------------
(***************************************************************************)
(* Audits, escalations and human reviews: the verification engine, the     *)
(* governance manager's agent runs and escalation, and the integrity       *)
(* auditor that drives both.  An audit is one request with one database    *)
(* session: it asks one query after the other, keeps what it inserts to    *)
(* itself, and commits everything or nothing.                              *)
(*                                                                         *)
(* Nothing in the schema keeps flags or logs apart: conflict_flags and     *)
(* verification_logs have no key but their ids.  _flag_exists and the      *)
(* search for a human log expect at most one row, and raise if there are   *)
(* two; the request then rolls back.                                       *)
(***************************************************************************)
EXTENDS Integers, FiniteSets, Bags

CONSTANTS
  Reviewable,   \* the claims under review
  Conflicting,  \* the pairs of claims of one concept that contradict
  Confident,    \* claims at or above the threshold of mandatory review
  Auditor,      \* the concurrent database sessions that audit
  Plans,        \* the parts that audits are asked for (bounds the model)
  MaxLogs,      \* no request starts when this many logs are committed
  NoAudit       \* the audit of a session that runs none

ASSUME ConflictingArePairs ==
  Conflicting \subseteq {{a, b} : a, b \in Reviewable}
ASSUME ConfidentAreReviewable == Confident \subseteq Reviewable
ASSUME AuditorFinite == IsFiniteSet(Auditor)

VARIABLES
  verified,  \* claims with the status VERIFIED
  flags,     \* committed rows of conflict_flags, per pair
  logs,      \* the bag of committed rows of verification_logs
  runs,      \* the statuses found in agent_runs
  audit      \* what each session has found and inserted, or NoAudit

reviewTables == <<verified, flags, logs, runs>>
reviewVars == <<verified, flags, logs, runs, audit>>

ReviewStatus == {"pending", "approved", "rejected", "escalated"}
AgentRunStatus == {"queued", "running", "completed", "failed"}
Log == [claim : Reviewable, status : ReviewStatus, human : BOOLEAN]
IsBagOfLogs(b) == IsABag(b) /\ BagToSet(b) \subseteq Log

\* The parts of an audit, in the order in which they run.
Part == {"conflicts", "outdated", "escalation"}

ASSUME PlansAreParts == Plans \subseteq SUBSET Part

\* The record of an audit: pairs and claims are still to be looked up, and
\* belong to the part that has begun; flags and logs are inserted and not
\* committed; chosen are the claims the escalation selected.
AuditTypeOK(a) ==
  /\ DOMAIN a = {"plan", "left", "pairs", "flags", "claims", "chosen", "logs"}
  /\ a.plan \subseteq Part
  /\ a.left \subseteq a.plan
  /\ a.pairs \cup a.flags \subseteq Conflicting
  /\ a.pairs # {} => "conflicts" \in a.plan \ a.left
  /\ a.chosen \subseteq Confident
  /\ a.claims \subseteq a.chosen
  /\ a.chosen # {} => a.left = {}
  /\ IsBagOfLogs(a.logs)
  /\ \A r \in BagToSet(a.logs) : ~r.human

\* Tables and sessions keep their types.
ReviewTypeOK ==
  /\ verified \subseteq Reviewable
  /\ flags \in [Conflicting -> Nat]
  /\ IsBagOfLogs(logs)
  /\ runs \subseteq AgentRunStatus
  /\ DOMAIN audit = Auditor
  /\ \A s \in Auditor : audit[s] # NoAudit => AuditTypeOK(audit[s])

ReviewInit ==
  /\ verified \in SUBSET Reviewable
  /\ flags = [p \in Conflicting |-> 0]
  /\ logs = EmptyBag
  /\ runs = {}
  /\ audit = [s \in Auditor |-> NoAudit]

\* The rows a log goes through: asked for by the engine or the escalation,
\* answered by a human.
FlagClaimForReview(c) == [claim |-> c, status |-> "pending", human |-> FALSE]
Escalated(c) == [claim |-> c, status |-> "escalated", human |-> FALSE]
Reviewed(c, verdict) == [claim |-> c, status |-> verdict, human |-> TRUE]

\* A table without a key is a bag of rows.
Insert(bag, r) == bag (+) SetToBag({r})
DeleteRow(bag, r) == bag (-) SetToBag({r})

\* How often a row is in a bag of rows (CopiesIn is not in every edition of
\* the module Bags).
Copies(r, bag) == IF BagIn(r, bag) THEN bag[r] ELSE 0

\* The rows the escalation finds for a claim.
HumanLogs(c) ==
  Copies(Reviewed(c, "approved"), logs) + Copies(Reviewed(c, "rejected"), logs)

-----------------------------------------------------------------------------
(***************************************************************************)
(* An audit.                                                               *)
(***************************************************************************)

\* POST /verification/run, or the integrity auditor through its own route.
\* Every set of parts is the plan of some mode.
RunVerification(s, plan) ==
  /\ audit[s] = NoAudit /\ BagCardinality(logs) < MaxLogs
  /\ audit' = [audit EXCEPT ![s] =
       [plan |-> plan, left |-> plan,
        pairs |-> {}, flags |-> {}, claims |-> {}, chosen |-> {},
        logs |-> EmptyBag]]
  /\ UNCHANGED reviewTables

\* A new part begins when everything is looked up for the one before.
Begins(s, part) ==
  /\ audit[s] # NoAudit
  /\ audit[s].pairs = {} /\ audit[s].claims = {}
  /\ part \in audit[s].left

\* The pairs of verified claims whose statements contradict.
LikelyConflicts == {p \in Conflicting : p \subseteq verified}

DetectConflicts(s) ==
  /\ Begins(s, "conflicts")
  /\ audit' = [audit EXCEPT ![s].left = @ \ {"conflicts"},
                            ![s].pairs = LikelyConflicts]
  /\ UNCHANGED reviewTables

\* Only the mode conflicts_only asks for a review of one claim of each new
\* flag; the full audit reports its flags.
NewFlag(s, p) ==
  /\ flags[p] = 0
  /\ \E a \in p :
       audit' = [audit EXCEPT
         ![s].pairs = @ \ {p},
         ![s].flags = @ \cup {p},
         ![s].logs = IF "outdated" \in audit[s].plan
                       THEN @ ELSE Insert(@, FlagClaimForReview(a))]

KnownFlag(s, p) ==
  /\ flags[p] = 1
  /\ audit' = [audit EXCEPT ![s].pairs = @ \ {p}]

\* Mutated form: the pair is flagged without a look at earlier flags.
AskFlagBlind(s, p) ==
  /\ audit[s] # NoAudit /\ p \in audit[s].pairs
  /\ audit' = [audit EXCEPT ![s].pairs = @ \ {p}, ![s].flags = @ \cup {p}]
  /\ UNCHANGED reviewTables

\* _flag_exists finds at most one row of a pair; on two it raises, and only
\* Fail is left.
AskFlag(s, p) ==
  /\ audit[s] # NoAudit /\ p \in audit[s].pairs
  /\ NewFlag(s, p) \/ KnownFlag(s, p)
  /\ UNCHANGED reviewTables

\* One log for each verified claim not updated since the cutoff, whether or
\* not one is pending.  There is no clock here: any of them may be that old.
DetectOutdatedClaims(s) ==
  /\ Begins(s, "outdated") /\ "conflicts" \notin audit[s].left
  /\ \E old \in SUBSET verified :
       audit' = [audit EXCEPT
         ![s].left = @ \ {"outdated"},
         ![s].logs = @ (+) SetToBag({FlagClaimForReview(c) : c \in old})]
  /\ UNCHANGED reviewTables

EscalateHighConfidenceClaims(s) ==
  /\ Begins(s, "escalation") /\ audit[s].left = {"escalation"}
  /\ audit' = [audit EXCEPT ![s].left = {},
                            ![s].claims = verified \cap Confident,
                            ![s].chosen = verified \cap Confident]
  /\ UNCHANGED reviewTables

\* Mutated form: the search does not ask for the claim.
AskHumanLogAnyClaim(s, c) ==
  /\ audit[s] # NoAudit /\ c \in audit[s].claims
  /\ HumanLogs(c) <= 1
  /\ audit' = [audit EXCEPT
       ![s].claims = @ \ {c},
       ![s].logs = IF \A d \in Reviewable : HumanLogs(d) = 0
                     THEN Insert(@, Escalated(c)) ELSE @]
  /\ UNCHANGED reviewTables

\* The search for a human log of a claim finds at most one row; on two it
\* raises, and only Fail is left.  It does not look for an earlier
\* escalation: each run adds another until a human has answered one.
AskHumanLog(s, c) ==
  /\ audit[s] # NoAudit /\ c \in audit[s].claims
  /\ HumanLogs(c) <= 1
  /\ audit' = [audit EXCEPT
       ![s].claims = @ \ {c},
       ![s].logs = IF HumanLogs(c) = 0 THEN Insert(@, Escalated(c)) ELSE @]
  /\ UNCHANGED reviewTables

\* Everything is looked up.
Complete(s) ==
  /\ audit[s] # NoAudit
  /\ audit[s].left = {} /\ audit[s].pairs = {} /\ audit[s].claims = {}

\* Only the full audit, which is conflicts and outdated, also runs without an
\* agent, that is without a row of agent_runs in its session.
WithoutAgent(s) == audit[s].plan = {"conflicts", "outdated"}
RunRows(s) == {{"completed"}} \cup (IF WithoutAgent(s) THEN {{}} ELSE {})

\* The agent's run is completed, the report is written, the session commits.
CommitAudit(s) ==
  /\ Complete(s)
  /\ flags' = [p \in Conflicting |->
                 IF p \in audit[s].flags THEN flags[p] + 1 ELSE flags[p]]
  /\ logs' = logs (+) audit[s].logs
  /\ \E rows \in RunRows(s) : runs' = runs \cup rows
  /\ audit' = [audit EXCEPT ![s] = NoAudit]
  /\ UNCHANGED verified

\* Any exception, of a query that finds two rows or any other: the base agent
\* marks its run FAILED in the session and raises again, and the session
\* dependency rolls everything back.
Fail(s) ==
  /\ audit[s] # NoAudit
  /\ audit' = [audit EXCEPT ![s] = NoAudit]
  /\ UNCHANGED reviewTables

-----------------------------------------------------------------------------
(***************************************************************************)
(* Humans.                                                                 *)
(***************************************************************************)

\* A human approves or rejects a log, whatever its status is, and the claim
\* stays as it is.  Two answers to one log write columns of one row, each of
\* the ones it changes; both columns end as if the answers had come one after
\* the other, so an answer is one step.
AnswerReview(r, verdict) ==
  /\ BagIn(r, logs)
  /\ logs' = Insert(DeleteRow(logs, r), Reviewed(r.claim, verdict))
  /\ UNCHANGED <<verified, flags, runs, audit>>

ApproveReview(r) == AnswerReview(r, "approved")
RejectReview(r) == AnswerReview(r, "rejected")

\* An override by the governance manager (its sessions are in ClaimLedger):
\* whatever the claim's status becomes, an approved human log is added.
LogOverride(c, valid) ==
  /\ BagCardinality(logs) < MaxLogs
  /\ verified' = IF valid THEN verified \cup {c} ELSE verified \ {c}
  /\ logs' = Insert(logs, Reviewed(c, "approved"))
  /\ UNCHANGED <<flags, runs, audit>>

-----------------------------------------------------------------------------
(***************************************************************************)
(* The rest of the system.                                                 *)
(***************************************************************************)

\* The ledger verifies, contests or deprecates a claim.
ClaimMoves(c) ==
  /\ verified' = IF c \in verified THEN verified \ {c} ELSE verified \cup {c}
  /\ UNCHANGED <<flags, logs, runs, audit>>

ReviewNext ==
  \/ \E s \in Auditor :
       \/ \E plan \in Plans : RunVerification(s, plan)
       \/ DetectConflicts(s)
       \/ \E p \in Conflicting : AskFlag(s, p)
       \/ DetectOutdatedClaims(s)
       \/ EscalateHighConfidenceClaims(s)
       \/ \E c \in Reviewable : AskHumanLog(s, c)
       \/ CommitAudit(s)
       \/ Fail(s)
  \/ \E r \in BagToSet(logs) : ApproveReview(r) \/ RejectReview(r)
  \/ \E c \in Reviewable :
       \/ \E valid \in BOOLEAN : LogOverride(c, valid)
       \/ ClaimMoves(c)

ReviewSpec == ReviewInit /\ [][ReviewNext]_reviewVars

-----------------------------------------------------------------------------
(***************************************************************************)
(* Properties.                                                             *)
(***************************************************************************)

\* Overlapping audits may flag one pair of claims twice (the lookup of
\* _flag_exists is not repeated at the insert), but no session ever does so
\* again: there are never more flags of a pair than sessions.
FlagsPerRace ==
  \A p \in Conflicting :
    flags[p]
      + Cardinality({s \in Auditor : audit[s] # NoAudit /\ p \in audit[s].flags})
      <= Cardinality(Auditor)

\* An escalation that is about to commit leaves none of the claims it
\* selected out: each has a review by a human, or an escalated log, be it new
\* or from an earlier run.
EscalationLeavesNoneOut ==
  \A s \in Auditor : Complete(s) =>
    \A c \in audit[s].chosen :
      HumanLogs(c) > 0 \/ BagIn(Escalated(c), logs (+) audit[s].logs)

-----------------------------------------------------------------------------
(***************************************************************************)
(* The inductive invariant behind them.                                    *)
(***************************************************************************)

\* Every claim the escalation has looked up so far has a review, or a log to
\* be inserted.
EscalationSound(a) ==
  \A c \in a.chosen \ a.claims : HumanLogs(c) > 0 \/ BagIn(Escalated(c), a.logs)

ReviewInv ==
  /\ ReviewTypeOK
  /\ FlagsPerRace
  /\ \A s \in Auditor : audit[s] # NoAudit => EscalationSound(audit[s])

-----------------------------------------------------------------------------
(***************************************************************************)
(* What the documentation and the tests say and the code does not keep.    *)
(***************************************************************************)

\* "All agent runs are logged": when a run of an agent ends, agent_runs says
\* how.
RunsAreLogged ==
  [][\A s \in Auditor :
       audit[s] # NoAudit /\ audit'[s] = NoAudit /\ ~WithoutAgent(s) =>
         \/ CommitAudit(s) /\ "completed" \in runs'
         \/ ~CommitAudit(s) /\ "failed" \in runs']_reviewVars

\* Escalation flags the claims that lack a human review, and passes over those
\* that have one: no claim it selected stops it, for itself or for others.
ReviewsDoNotStopEscalation ==
  \A s \in Auditor : audit[s] # NoAudit =>
    \A c \in audit[s].claims : ENABLED AskHumanLog(s, c)

\* "Running escalation twice should not create duplicate review logs": an
\* escalation that looks up a claim with an escalated log adds none.
NoSecondEscalation ==
  [][\A s \in Auditor, c \in Reviewable :
       AskHumanLog(s, c) /\ BagIn(Escalated(c), logs) =>
         audit'[s].logs = audit[s].logs]_reviewVars
=============================================================================
