# Universal Academy Engine in TLA+

The Universal Academy Engine (UAE) is a FastAPI service that turns registered
sources into *claims*, lets claims be verified, contested and overridden under
governance rules, builds courses whose lessons cite verified claims, awards
credentials for published courses, and exchanges claims with other academy
nodes. This directory models the parts whose correctness depends on the order
in which requests, messages and failures arrive, model-checks them on small
instances, and proves the most important results for all instances.

## The system: inventory

One process serves HTTP requests on an asyncio event loop. Every request gets
one database session (`src/database/connection.py:55`): the handler reads,
decides in Python, flushes; the dependency commits at the end, or rolls back on
any exception. The database is PostgreSQL at READ COMMITTED in production. No
query takes a lock (`with_for_update` occurs nowhere), no version column is
compared, and an ORM `UPDATE` names only the columns whose value changed in the
session. The federation queue, the peer table and the replay cache are objects
in memory.

| Component | State | Operations | Interacts with | What is hard | What makes it correct |
|---|---|---|---|---|---|
| Claim ledger (`core/ingestion/claim_ledger.py`) | `claims`, `claim_revisions` | create, verify, update status, history | every other component reads claims | overlapping sessions decide on stale rows; `count(*)+1` numbering; waiting on rows and unique keys | every status is explained by the history; numbers without gap or double; every request ends |
| Governance (`core/governance`) | `agent_runs`, `verification_logs`, and claims | agent runs, escalation, human override, audit trail | ledger, agents | overrides race with ledger edits; a failed run is rolled back with its record | an override wins; no silent transition; agent runs are logged |
| Verification engine (`core/verification`) | `conflict_flags`, `verification_logs`, `integrity_reports` | detect conflicts and outdated claims, flag, approve, reject | claims, governance, auditor agent | check-then-insert of flags in audits that commit at their end; lookups that expect one row | no more flags of a pair than overlapping audits; no confident claim left out of an escalation |
| Curriculum engine (`core/curriculum_engine`) | `courses`, `modules`, `lessons`, `lesson_claims` | create, approve, publish, supersede, deprecate, archive; add lesson | claims | columns of overlapping edits are merged; claims move between check and commit | a state keeps its evidence; lessons cite claims that were verified |
| Credential issuer (`core/credentials`) | `credentials` | issue, revoke, verify, export | courses, node keys | the course is withdrawn while the credential is made; hash over a second clock reading | credentials follow publication; a verdict on a credential stands |
| Federation transport (`core/federation/sync_queue.py`, `transport_client.py`, `transport_server.py`) | queue, item status, trusted peers | enqueue, start, stop, process, post, receive, dispatch | replay protection, handshake, claim federation | two levels of retries, lost and late posts, two loops, restarts | nothing lost inside the sender, at least once, every item settles |
| Replay protection (`core/federation/replay_protection.py`) | remembered message ids | `check_and_record` | transport server | window boundary, clocks that disagree, full cache, restart | a message is accepted once, or twice if its sender's clock is ahead; the cache is bounded |
| Handshake, node manager, signing (`core/federation/node_*.py`, `message_signing.py`) | trusted peers; `academy_nodes`, policies | receive HELLO; register, admit, deactivate | transport, claim federation | a late HELLO replaces a key; re-admission | only trusted, active nodes act |
| Claim federation (`core/federation/claim_federation.py`) | `claim_category`, `federated_claim_records` | publish, import, contest, adopt | ledger, doctrine, transport handlers | category and status are checked and written without a lock; a handler's error is answered 200 | the records explain the category |
| Doctrine (`core/doctrine`) | none; `doctrine_dependency` of claims | precedence, conflicts, impact of a change | federation import, workers | cycles and a depth bound in one walk; two places that decide what needs a review | monotone authority; an impact report lists what depends on the claim |
| Knowledge graph (`core/knowledge_graph`) | `concepts`, `concept_relationships` | get-or-create, relate, neighbours, subgraph | claims, cartographer | look-then-insert under a unique name, and without one for edges; rings of waiting sessions; a walk asks its queries while the graph grows | requests end; one concept per name; a subgraph is a ball |
| Source registry, standards, nodes, reviewer keys | `sources`, `standards`, `academy_nodes`, policies, `reviewer_keys` | register | everything | the same look-then-insert | one row per key |
| Memory (`core/memory`) | archive entries; the ledger's revisions | record, history, integrity; state at a time, snapshot | ledger | late commits under earlier time stamps; limits; a snapshot read claim by claim | the past is final; a snapshot is of one moment |
| Audit reports (`core/audit`) | `audit_reports` | audit of a claim, course, node; export | reads all tables | each query sees another moment | the history in a report explains its claim |
| Attestations (`core/attestation`) | `reviewer_keys`, `verification_attestations` | register key, payload, sign, attest, verify again | claims | late signatures, new keys | an attestation keeps its verdict |
| Keys, revocations (`core/security`) | files | create, rotate; revoke | signing, transport | several files written in place; a crash in between | no key that was given out is lost; a revocation is not forgotten |
| Content storage (`core/storage`) | files by digest, registry | put, get, delete, register | sources | writes in place, failed saves, crashes | an address keeps its content |
| Agents (`agents/`) | rows of `agent_runs` | four pipelines and their workers | all | one failing claim rolls back a run with its record | only what committed is seen |
| Competencies, auth, API models, migrations | rows and reads | insertions, token checks | - | - | no rule that spans steps |

`PROJECT.json` lists the same components with their status, and every hazard
at its line with the properties that would catch it going wrong.

## Modules

| Module | Models |
|---|---|
| `ClaimRecords` | the rows of `claims` and `claim_revisions` that matter, the statuses and `_ALLOWED_TRANSITIONS` |
| `ClaimLifecycle` | the abstract specification of the ledger: create, advance along the graph, override; each one step |
| `ClaimLedger` | the ledger and the human override as concurrent database sessions; refines `ClaimLifecycle` when sessions do not overlap |
| `ClaimLedger_proofs` | the inductive invariant of `ClaimLedger`, its safety and action properties, and the numbering |
| `Audits_proofs` | the refinement of `ClaimLifecycle`, and what readers of the ledger see |
| `MovingClaims` | what the next two see of the ledger: statuses that other sessions move |
| `Curriculum` | courses, lessons and credentials as concurrent sessions |
| `Curriculum_proofs` | its inductive invariant, three safety properties and the action property |
| `Outbox` | the abstract specification of delivery: accept, try, handle, deliver, give up |
| `SyncQueue` | sender's queue and loops, HTTP client, network, receiving endpoint; refines `Outbox` |
| `SyncQueue_proofs` | its inductive invariant, its safety properties and the refinement |
| `ReplayWindow` | the replay cache over time, with senders' clocks that are late or ahead |
| `Doctrine` | source precedence, conflict detection and the workers' safeguard as pure operators |
| `FederatedClaims` | publish, import, contest and adopt as concurrent sessions, with the nodes' policies as environment |
| `FederatedClaims_proofs` | the inductive invariant of `FederatedClaims`, its safety properties and two facts about `Doctrine` |
| `Audits` | readers of the ledger that take several queries: `audit_claim` and `snapshot_at` |
| `Reviews` | audits, escalations, agent runs and human answers over flags and logs |
| `Reviews_proofs` | its inductive invariant and all its safety properties |
| `Registrations` | look-then-insert under unique keys and without: sources, standards, nodes, reviewer keys, concepts, edges |
| `Subgraph` | `get_subgraph`, a breadth-first walk whose graph grows under it |
| `Impact` | the search for dependent claims, a depth-first walk under which claims are deprecated and revived |
| `Paths` | paths in a graph, for what the two walks should find |
| `Registrations_proofs` | the inductive invariants of `Registrations`, `Subgraph` and `Impact`, and their safety properties |
| `KeyStore` | creation and rotation of a key in files, with crashes |
| `FileStores` | revocation store, registry of addresses and file backend, with failed writes and crashes |
| `Credentials` | the signed document, its verification, revocation and tokens |
| `Attestations` | reviewer keys, payloads, signatures and their verdicts |
| `Archive` | the institutional archive: time stamps, late commits, limited answers, hashes |
| `NodeState_proofs` | the invariants of `ReplayWindow`, `KeyStore`, `FileStores`, `Credentials`, `Attestations` and `Archive`, and their properties |
| `MC*` | instances for TLC; `MCMovingClaims` joins `Curriculum` and `FederatedClaims`, `MCRequests` joins `SyncQueue` and `Registrations`, `MCNodeState` joins `Audits` with a single session of the ledger, `Reviews`, and the eight small modules that are about one object or one walk |

### ClaimLedger

State: the committed tables `claims` and `revisions`, and per session its
`phase`, the `edit` it has decided on, the `batch` of rows it has inserted but
not committed, and the claim number it has `counted`.

| Action | Code |
|---|---|
| `VerifyClaim`, `UpdateClaimStatus`, `HumanOverrideClaim` | the three methods up to their flush: one SELECT, the check, the assignments on the loaded object |
| `FlushEdit` | the UPDATE is sent; it waits while another open transaction has updated the row |
| `CommitEdit` | the session dependency commits. `UpdatedRow` writes `version` from the loaded row and `status` only if it changed in the session; `RevisionOf` is the revision built from the loaded status |
| `NumberClaim`, `InsertClaim`, `InsertConflict`, `CommitCreated` | `create_claim`: count, insert under the unique `claim_number`, the IntegrityError, the commit of one claim or of an agent's batch |
| `Rollback` | any exception or lost connection before the commit |

Requests that are refused before they write (unknown claim, wrong status) leave
no trace and are not steps. The verification log of an override is left out;
its revision is not. Revisions are kept in the order in which their
transactions held the row: the UPDATE of the claim is sent before the INSERT of
the revision, whose time stamp is taken after the row was obtained.

What holds under every overlap: `NumbersDense`, `VersionNotAhead` (increments
can be lost, never invented), `StatusExplained` (the status is where the last
*moving* revision left it), `NoSilentTransition`, and `FreshEditsObeyGraph`
(whoever commits on the history it has read obeys the graph and records the
truth, so each departure takes a stale read). What holds only when sessions do
not overlap: `ImplementsLifecycle` and `HistoryExplainsClaim` (the audit trail
is one chain from draft to the current status, the version counts it, and only
a human leaves `deprecated`). What the documentation promises and overlapping
sessions break: `HumanOverrideWins` (see Findings); two ledger updates that
overlap can likewise leave `deprecated`.

### Curriculum

State: `courses`, `lessons`, `credentials`, what each session is doing
(`request`), and from `MovingClaims` the committed `status` of claims and the
ones that were verified at some time (history). A course edit loads the row,
changes the loaded object, sends the UPDATE (which waits for another open one)
and commits: `MergeColumns` writes the columns that differ from what was loaded
over the row as it is now. `CheckClaim` is one query of
`_load_and_validate_claims`; the claims may move between any two of them and
before `CommitLesson`. `archive_course`, `approve_course`, `supersede_course`
and `deprecate_course` have no route; scripts and other code call them with a
session of their own, under the same rules.

Two consequences of the code are not findings of a run but worth knowing:
archiving a course while another session publishes it leaves `is_published`
true on an archived course (`FreshEditsKeepLive` says that this takes a stale
row), and nothing stops a publication of an archived course
(`src/docs/curriculum_publishing_lifecycle.md:137` calls ARCHIVED terminal) or a
credential whose course is deprecated between its check and its commit.

### SyncQueue and Outbox

The sender's items, `asyncio.Queue`, `_running` flag and loops; the client's
posts (each attempt of an item is a message with a new id, posted up to
`MaxRetries` times); requests and replies under way; the receiver's trusted
peer, remembered ids and running handlers, all of which a restart loses. A
reply to a post the client has given up on is dropped. A handler either
completes (`DispatchDone`, also when it answers 200 with an error body) or its
commit fails (`DispatchFails`). Times are left out: anything may time out at
any moment. The wait between posts blocks the event loop in the code
(`time.sleep`), which here is only a longer pause.

`Outbox` is what the rest of the node may rely on: an item is accepted, tried at
most `MaxAttempts` times, delivered only when the peer has handled its latest
try, and given up only when the tries are used up. The peer may handle any try
at any time, also again after a restart and also after the item has failed: the
code promises no more. `SyncQueue` implements it (`ImplementsOutbox`): in flight
counts as pending, attempts are the tries, and a put-back, a post, a lost
request, a reply in itself, a handshake or a restart is no step at all. A
duplicate (409) must not count as delivery, though it means that the receiver
knows the message: its handler may have failed.

### ReplayWindow

The receiver's clock, the time stamp of each message, and the cache. The wall
clock (stamps) and the monotonic clock (memory) advance together; a sender's
clock says what it likes (`Send`), and `InWindow` is the code's `abs()`: a
message is acceptable from a window before the time it bears to a window after
it. Its id is remembered for one window from when it came. So a message that
comes ahead of its time can be forgotten while its copies are still acceptable,
and passes twice (`NeverTwice`, see Findings). That is all that can go wrong:
`ReplaysBounded` says that no message passes three times, and none twice that
did not come ahead of its time at first, unless an id was dropped because the
cache was full (`overflowed`).

### FederatedClaims and Doctrine

State: the columns of a claim that the protocol writes (`federated`: category,
publisher, review flag), `records` (`federated_claim_records`), `policy` per
node, the open `operation` of each session, and what `MovingClaims` has.
`profile` is chosen by `Init`: no code under `src/` writes a claim's origin
node or a source's type after creation, and no operation of this module does.

| Action | Code |
|---|---|
| `PublishClaim`, `ImportClaim`, `ContestClaim`, `AdoptClaim` | the four methods of `ClaimFederationProtocol` up to their flush: checks, assignments on the loaded object, the record added to the session |
| `Send`, `Commit`, `RollbackOperation` | flush, end of the request's session (or of a transport handler's), any exception |
| `LedgerMovesClaim`, `UpdateGovernancePolicy` | the environment |

An operation reads its claim and a policy one after the other; here the reads
are one step, and what they showed may be out of date by the commit. `core` is
what the detector's query for verified claims of an immutable source returns:
either answer, since other claims are not modelled here. `Flagged` composes
`Doctrine!ImportConflicts`, a translation of `PrecedenceEngine.check` and
`ConflictDetector.detect`, with the cross-node check of the import. The hash of
the statement (it never changes) and the snapshot kept in a record are left out.

The records explain the category (`CategoryIsRecorded`: an imported claim has an
import or an adoption, whichever the code or its documents let set the
category) and every flag survives, although columns of stale rows are merged.
`CategoryFollowsProtocol` states the two edges of the category graph in which
the documentation and the code differ, for a session whose row nobody changed,
and is violated (see Findings): an import takes the claim to `imported`
(`src/docs/claim_federation_protocol.md:27`, `:75`), and a contest ends only
by an adoption (`:94`). In the code an import leaves the category as it was,
and a contested claim can be published again. The run's trace is the shortest,
so it shows the import.

A worker that is not part of the protocol has a check of its own:
`CheckDoctrineSafeguards` flags proposals by classification and source type.
`SafeguardCoversPrecedence` compares it with the precedence engine: it covers
all that the engine would send to a review, except a proposal to *deprecate*
(`deprecated_by`) a claim of the immutable core from outside the protected
sources, which `src/agents/base_worker.py:38` leaves out.

### Audits

The reader is one request beside those of `ClaimLedger`, and each action is one
of its queries: `LoadAudited`, `ReadRevisions` and `StoreReport` for
`audit_claim` (the queries for sources, logs, attestations, federation events
and citations follow the revisions in the same way and are left out),
`StartSnapshot` and one `SnapshotClaim` per claim for `snapshot_at`, which
rebuilds a status from the last revision up to a time (`StateAt`).

A report mixes moments, but in one way only (`ReportsAreExplained`). A snapshot
does not (`SnapshotsAreOfOneMoment`), if no edit was between its flush and its
commit at the time asked for: such a revision bears an earlier time than the
commit that makes it visible, so asking again about that time may give another
answer. Version, confidence and statement in a snapshot are today's. Beyond 500
claims a snapshot is cut without an order. Where edits overlap each other the
last revision need not name the status (`StatusExplained`), and neither need
the view. The reports on courses and nodes are built alike;
`src/docs/curriculum_publishing_lifecycle.md:191` says that every state
transition is captured in the report on a course, but the code records the
present state only, and the verified claims of a node are counted after all of
them, so the rate can exceed one (`src/core/audit/audit_manager.py:341`).

### Reviews

State: which claims are `verified`, the `flags` and `logs` that are committed,
the statuses found in `agent_runs`, and per session (`Auditor`) the `audit` it
runs: the parts left, the pairs and claims still to look up, what it has
inserted.

| Action | Code |
|---|---|
| `RunVerification` | a mode of `POST /verification/run` or of the integrity auditor: any plan of parts |
| `DetectConflicts`, `AskFlag` | `detect_conflicts`: all likely conflicts, then per pair `_flag_exists` and the insertion |
| `DetectOutdatedClaims` | a log for each claim not updated since the cutoff; without a clock, for any of the verified ones |
| `EscalateHighConfidenceClaims`, `AskHumanLog` | the selection, then per claim the search for a human log |
| `CommitAudit`, `Fail` | end of the session; `Fail` is what is left when a lookup finds two rows |
| `ApproveReview`, `RejectReview`, `LogOverride`, `ClaimMoves` | humans and the ledger |

`EscalationLeavesNoneOut` asks that every selected claim has a human review or
an escalated log when the escalation commits, be the log new or old. Three
statements of the repository do not hold.

- All agent runs are logged (`RunsAreLogged`, see Findings): the FAILED record
  of a run is rolled back with the run.
- Escalation flags the claims that lack a human review
  (`ReviewsDoNotStopEscalation`, see Findings): once a claim has two human
  logs, by two answers or by an override and an answer, `scalar_one_or_none`
  raises and every later escalation fails for all claims.
- A second escalation adds no second log (`NoSecondEscalation`, see Findings):
  the code looks for logs by humans only, and its own are not.

Besides, `list_pending` returns only PENDING logs, so escalated ones are not in
the queue that `src/docs/governance.md` says holds all items for human review;
the mode `full` has no escalation; a rejection leaves the claim as it is.

### Registrations

State: the unique keys of committed rows, the number of rows per edge, and per
session its `work`: what it still looks for, whether it just missed, what it
has inserted. `Look` is one SELECT, `InsertRow` and `InsertEdge` one flush.
`UniqueViolation` and `Deadlock` are the two ways in which the database ends a
session that lost a race; `Refuse` are the two in which the code does. A run of
the cartographer (`Ingest`) does many lookups in one session.
`NewConceptsKeepEdgesUnique` says where the missing key of
`concept_relationships` cannot hurt: when one of the sessions also makes one of
the concepts. Otherwise two sessions can insert one edge twice, and from then on
relating the two concepts raises.

The tables are those of `models.py`. A database made by the migrations alone
has no unique names of concepts and standards
(`src/database/migrations/versions/001_initial_schema.py:140`), but also lacks
columns that every query names (`claims.citation_location`,
`sources.is_active`, ...), so the program cannot run on it; the database has to
be made by `create_all` first.

`src/core/ingestion/source_registry.py:66` says that a duplicate raises; the
code returns the existing row, retired or not.

### Subgraph and Impact

Both walks ask the database once per node and keep their bookkeeping in local
variables, so under READ COMMITTED every query may see another graph.

| Action | Code |
|---|---|
| `GetSubgraph`, `SkipConcept`, `TakeConcept`, `ReturnSubgraph` | `get_subgraph`: the queue with its root; an entry that is passed over; an entry that is taken, with its query; the answer |
| `CommitLinks` | the environment: sessions of `Registrations` commit relationships; no code deletes one |
| `ImpactAnalysis`, `NextCandidate`, `EndOfCandidates`, `ReportImpact` | `_find_dependent_claims`: the call for the subject; the loop over the rows of the innermost `_traverse`, with the nested call; its return; the report |
| `Deprecate`, `Revive` | the environment: an update or an override; the queries see no deprecated claims |

`SubgraphIsBall` puts the answer between two balls: all that was within the
depth when the walk began, no further away than it was then, and nothing that
is not as near as it says by the end. Where nothing is committed meanwhile,
these are the least distances. `DependentsFound`: what is listed depends on the
subject, in as many steps as it says. It is complete, and each claim is listed
once, if the depth is not below the number of claims, for claims that depend on
the subject through claims that were live throughout (`steady`). For smaller
depths the depth-first search misses claims that are near, because it has
visited something on a longer way before, and lists claims at the bound twice,
so that `total_affected` counts too many. The curriculum part of the report is
that of the subject only.

### KeyStore and FileStores

A rotation is six writes in place: three files of the archived key, three of
the new one. `OpenFile` cuts the next file, `FillFile` completes it,
`CrashOfKeys` ends the process anywhere. `KeysKept` holds until a rotation
starts from the mixed files of an interrupted one, or a key is created again
under an id that exists (both are `spoiled`): nothing looks whether the three
files belong together, so the archive is then written over by a mixture.
`create_key` starts an existing id over at v1, and an archived key says that it
is active.

`FileStores` has the three stores that save a whole state or object with one
write: memory first, then the file, and a failed write raises but keeps the
memory. `RevocationsNotForgotten` holds because a file that was cut stops the
store from opening (`Readable`), which is safe but needs an operator. A
registration whose save failed is answered from memory when it is repeated, and
never saved unless another one is; an object cut by a crash is taken as present
by every later put. `RevocationStore` calls itself thread-safe without a lock.
In-memory mode is not modelled; none of these stores is wired into a route.

### Credentials, Attestations, Archive

`Credentials`: the clock is read for the document and again for the row, and
verification rebuilds the document from the row without an expiry date. So a
credential verifies only if the two readings agree and it never expires,
although `src/tests/test_credentials.py:259` and
`src/docs/credential_framework.md:156` expect a new credential to verify until
it expires. No run shows that; `VerdictsStand` does not depend on it. It says
that the verdict is fixed when the row is flushed, whatever happens to the
course: what verifies does so until it is revoked or expires (`Expired` in the
formula), what does not never will. Two overlapping revocations keep the last
reason and date, about which no document decides. A token never learns of a
later revocation.

`Attestations`: a key, once registered, stays; signatures are checked as RSA
whatever their algorithm says, so Ed25519 and ECDSA signatures, which the
documentation lists, are stored as not verified. `AttestationsHold` says that a
verdict survives what reviewers do later. `ReviewerKeyFound` shows that
`get_reviewer_key` raises when a reviewer has two keys. `is_active` and
`valid_until` are never consulted.

`Archive`: entries are stamped at the flush and appear at the commit.
`PastIsFinal` says that what histories and snapshots say of a time no longer
changes once the transactions of that time have ended; the oldest entries are
returned first and the limit cuts the newest, although
`src/core/memory/institutional_archive.py:133` says "all". The hash covers the
texts as given, the row has them stripped, so an entry given with blanks around
a text fails its integrity check for ever.

## Runs

| Run | Question | Bounds | Result |
|---|---|---|---|
| `claims` | What do stale edits and overrides leave intact, are numbers dense, and does every request end? | either one claim that two sessions edit and override to every status, no new edit after three revisions (up to four); or two claims, one edit each (two when they overlap), overrides to verified | holds |
| `claims_override` | Does a human override always win? | one claim, two sessions | violated |
| `readers` | What survives overlapping edits, lessons and credentials, and overlapping publications, imports, contests and adoptions, while the ledger moves the claims? | either two claims, one course, lesson and credential; or one claim, two nodes, no operation starts on three records (up to four); two sessions, two claim statuses | holds |
| `lesson_cites` | Is each cited claim verified when the lesson is written? | one claim | violated |
| `federation_protocol` | Do imports and contests move the category as documented? | one claim, two nodes, two sessions | violated |
| `requests` | Does everything end that was begun? Is a message lost or doubled, and is what a sender sees the `Outbox`? What keeps rows apart? | either one item, two loops, two attempts of two posts, one restart; or three concepts, three edges of which two meet and one joins a concept to itself, one document, one node, two sessions, no request starts at five rows | holds |
| `queue_order` | Are messages delivered in order? | two items, one loop | violated |
| `node_state` | Does what a node keeps agree with what it tells: do requests one at a time implement the life cycle, and what do readers beside them see; what survives crashes, late requests and lost ids; do the walks find what they should; what do overlapping audits, escalations and answers leave? | ledger: two claims, one session, two override targets, two edits, one reader; replay: three messages with any stamp up to 5, window 2, cache 2, clock to 5; keys: five pairs; files: two entities, addresses, objects; credentials: one, two clerks, clock to 3; attestations: two claims, reviewers, three pairs (two RSA), two signatures; archive: three entries, answers of two; walks: four concepts, five links, three claims, five dependencies, depths to 3; reviews: two claims that conflict, one confident, two sessions, three plans, no request starts at two logs | holds |
| `replay_once` | Is a message accepted only once? | two messages, window 2, clock to 5 | violated |
| `agent_runs` | Does every agent run leave a row? | as `reviews` above | violated |
| `escalation_stops` | Does an escalation get past claims that humans have reviewed? | as `reviews` above | violated |
| `escalation_repeats` | Does a second escalation leave escalated claims alone? | as `reviews` above | violated |

Two sessions are enough for every hazard listed: each is a race of one pair of
requests for one row or number; a third waits like the second. Two loops arise
from one double start. A clock to 5 is two windows and a tick: a message that
comes a window ahead of its time comes again after it was forgotten, and the
third time is out of reach only because of the window. Five key pairs allow a
crash in a second rotation and two rotations after it. Standards and reviewer
keys go the way of sources, one look and one insert under a unique key, and have
no names in the instance. Components that write different tables share an MC
module, and a behaviour drives one of them (`part`). Deadlock checking is off
where the instance runs out of claims, edits or time, and on elsewhere;
`MCRequests!Full` is the stutter of an instance whose rows are used up and whose
requests have all ended.

*Fairness.* `claims` and the registrations of `requests` assume strong fairness
of each session's steps: the event loop runs every ready handler, and the
database grants a row or key to its waiters in turn, so a handler that can again
and again take its next step takes it; the database finds a ring of waiting
sessions and ends one of them (`Deadlock` is such a step). New requests and
rollbacks are not promised. The queue of `requests` assumes weak fairness of
each loop's steps: the event loop runs every ready task, posts time out (10 s)
and waits end. Nothing is assumed of network and receiver. Where a behaviour
drives one of two parts, the fairness of the other asks for nothing, since it
has no step to take.

The type invariants of all modules are proved. They take part in no run but
`requests` and `node_state`, where they also say that keys are held once and
that an index agrees with its entries.

## Findings

- `claims_override`: an override that confirms the status it read does not
  write the status column, so an update that commits in between wins, although
  `src/docs/architecture.md:169` says "Human override always wins".
- `lesson_cites`: a lesson can cite a claim that is no longer verified when the
  lesson is committed, against
  `src/docs/curriculum_publishing_lifecycle.md:147`.
- `queue_order`: a retried message is delivered after later ones, against
  `src/core/federation/sync_queue.py:9`.
- `federation_protocol`: an import leaves the category of the claim as it was,
  against `src/core/federation/claim_federation.py:116` and
  `src/docs/claim_federation_protocol.md:75`; the property also has the end of a
  contest by a publication, against `:94`.
- `replay_once`: a message from a clock that is ahead is accepted again after its
  id was forgotten, against `src/docs/federation_transport_protocol.md:81`.
- `agent_runs`: a failed run leaves no row in `agent_runs`, against
  `src/docs/architecture.md:171` and `src/tests/test_agents.py:141`.
- `escalation_stops`: a claim with two human reviews stops the escalation of all
  claims, against `src/core/governance/governance_manager.py:112`.
- `escalation_repeats`: a second escalation adds a second log, against
  `src/tests/test_governance.py:100`.

## Proofs

Every invariant and every action property that a passing run checks is also a
theorem, for every set of claims, sessions, nodes, messages and keys, and all
bounds. Almost none is inductive as it stands: that a status is explained by
the history needs to know what an open edit remembers, and so on. Each module
that is proved about therefore ends in the invariant behind its properties,
which TLC checked on small instances first. The proofs have a lemma for
each action, or for each group of actions with one effect, and a theorem
`Inductive` (or `...Inductive`); the safety properties follow from it. Facts
about sequences, bags and numbers that several steps need are lemmas at the
head of each module.

### ClaimLedger (`ClaimLedger_proofs`)

`IInv` adds to the properties that edits are of claims that exist, only those
have histories, uncommitted rows have ids of their own, and `EditsRemember`: an
edit saw a length the history has had, holds a version that length allows, and,
if the history has not grown, the row as it is. The central lemma is
`ExplainsAppend`: a revision appended to a history takes the explanation over
if it moves the claim and leaves it alone if it does not. From it:
`VersionSafe`, `StatusIsExplained`, `FreshEditsSafe`, `NoSilentSafe`,
`TypeCorrect`.

`NumbersSafe` (no gap, no double) has an invariant of its own, `NumberingInv`:
at most one session has uncommitted rows (`OneBatch`), they hold the numbers
that follow the committed ones (`BatchFollows`), and a number that was counted
is the next one or has been taken since (`CountedInReach`). A session that
counted too early therefore waits for the holder of its number and then fails
on the unique key; it cannot insert beyond a gap.

Assumptions: `ClaimFinite`, `OverrideTargetsAreStatuses`, `MaxEditsNat`,
`NilIsNoEdit`.

### Requests that do not overlap, and readers (`Audits_proofs`)

`Refinement`: with one session the ledger implements `ClaimLifecycle`. The
hypothesis `OneSession` says just that, and is what the run `node_state`
instantiates; with two sessions the statement is false (`claims_override`, and
the departures that `FreshEditsObeyGraph` delimits). It gives `EditsAreCurrent`
(nobody writes between load and commit), with which each step is one step of
the life cycle or none. `HistoryIsComplete` follows the same way. `ReportsSafe`
and `SnapshotsSafe` are about readers that overlap the edits: each thing they
have read so far was true of the history as it stood then, and that is a prefix
of the history now.

### Curriculum (`Curriculum_proofs`)

Sessions merge columns of stale rows. `IInv` says that every committed course
has the `Evidence` of its state, that every request rests on rows that exist
and have only gained evidence since it read them (`Grows`), and that what it is
about to write is justified by what it read (`EditSound`, `RequestSound`). So
each column of a merge may come from either side. From it: `EvidenceSafe`,
`CitationsSafe`, `CredentialsSafe`, `FreshEditsSafe`. Assumptions:
`NilIsNoCourse`, `NilIsNoRow`, and `ClaimTargetsAreStatuses` of `MovingClaims`.

### SyncQueue (`SyncQueue_proofs`)

The invariant has a part for the sender (`LoopsWork`, `AttemptsLeft`,
`StatusTold`, `Places`), one for the network (`AnswersTrue`) and one for the
receiver (`HandledOnce`, `WithinBudget`), and each action disturbs one or two of
them. `Places` says `OnePlace` without counting: no two loops on one item, no
item twice in the queue, none in both. `WithinBudget` counts the lives of the
receiver: a message is handled once per restart, plus once in the present life
if its id is recorded and no handler runs. From it: `OnePlaceSafe`,
`DeliveredSafe`, `OncePerMessageSafe`, for any number of items, loops, attempts,
posts and restarts.

`OutboxRefinement` shows step by step that `SyncQueue` implements `Outbox`.
`SenderChanges` lists the five ways in which a step may change an item; each is
an action of `Outbox` or, when the item is put back, a stutter. A delivery
needs `AnswersTrue` (a 200 tells that this very attempt was handled), a handler
that ends needs `PostsBegun` (what is under way belongs to an attempt that was
counted), which is inductive beside `IInv`. Assumptions: `MaxAttemptsPos`,
`MaxRetriesPos`, `MaxRestartsNat`, `NilIsNoItem`.

### FederatedClaims (`FederatedClaims_proofs`)

`IInv` says that every committed row has the records that its values need
(`EvidenceOf`), that each record rests on earlier ones (`HistoriesAreOrdered`),
and that every open operation has decided on a row that had its evidence, whose
flag and publisher have not gone since (`OperationsRemember`). Evidence only
grows, so the proof of the commit (`CommitKeeps`) can take each column from
either side. From it: `CategoryIsExplained`, `ImportSourcesPublished`,
`PublicationSafe`, `ImportFlagSafe`, `TypeCorrect`.
`AuthorityMonotone` states that the review checks respect the order of sources,
and `SafeguardCovers` compares the workers' safeguard with the precedence
engine, by cases of the check. Assumptions: `NilIsNoNode`, `OriginsAreNodes`,
`TypesAreSourceTypes`, `ClassificationsExist`, and `ClaimTargetsAreStatuses`.

### Reviews (`Reviews_proofs`)

`FlagsPerRace` counts flags, committed and about to be inserted: a session that
is about to flag a pair looked it up when there was none, so their number is at
most that of the sessions (lemmas on copies in bags, and on finite sets of
sessions). `EscalationSound` says that every claim an escalation has looked up
has a review, or a log to come from this run. From it: `FlagsSafe`,
`EscalationSafe`. Assumptions: `AuditorFinite`, `ConflictingArePairs`,
`ConfidentAreReviewable`, `PlansAreParts`.

### Registrations, Subgraph, Impact (`Registrations_proofs`)

`Registrations`: sessions hold disjoint keys (part of `RegistrationTypeOK`), a
session comes to an edge only after its two concepts (`TodosSound`, from the
order in which the scripts list them), and committed edges join committed
concepts. So whoever inserts a concept is the only session that can insert its
edges: `NewEdgesUnique`. `KeysUnique` is the type invariant with the unique
keys. A concept may be related to itself. Assumption: `TriplesAreOfConcepts`.

`Subgraph`: the queue is sorted by depth and spans two depths (`QueueSorted`),
each entry was found through a visited concept one step nearer
(`FoundThrough`), and each end of an edge that was read is in the answer, or in
the queue, in time (`Due`). The lower ball needs an argument along a path,
which the provers cannot make by induction over its length; it is made by the
first vertex of the path that fails (`AlongPath`, from `HasFirst`, the least
element of a set of numbers). `SubgraphSafe` holds for any graph that grows,
any depth and any order of rows. Assumptions: `LinksJoinVertices`,
`SubgraphBounds`.

`Impact`: the open calls are nested, each of a claim of its own (`CallsNested`),
and what depends on a visited claim is visited or still a candidate of its call
(`DependentsSeen`). That needs that no call was cut off: the open calls are of
distinct visited claims, so there are fewer than claims (`CallsAreFew`), and
with a depth that is not smaller the cut-off is never reached. `DependentsSafe`
follows along a path as before. Assumptions: `DependenciesJoinTenets`,
`TenetsFinite`, `MaxSearchNat`.

### A node's own state (`NodeState_proofs`)

- `ReplayWindow`: `PassesAccounted` relates how often a message has passed to
  when its id was recorded last. After one pass that was at its stamp or later,
  or up to a window before it if the message was ahead; after two, at its stamp
  or later. An id recorded since `t` is remembered or more than a window old
  (`RecordedSince`), so a third pass would have to come after the message has
  left the window: `ReplaySafe` (which states `ReplaysBounded`). The stamps are
  any natural numbers in the type invariant, `ReplayTypeCorrect`; `CacheSafe` is
  about the size of the cache. Assumptions: `WindowNat`, `MaxCacheNat`.
- `KeyStore`: `KeysKept` alone is not inductive. While the current files are
  being replaced, the keys given out must all be in the archive (`Replacing`);
  while the old key is archived it must still be the current one (`Archiving`);
  and the archive must not be written over, because the key in use has a higher
  version than all others given out (`NewestInUse`): `KeysSafe`. Assumptions:
  `MaxPairsNat`, `NoContents`.
- `FileStores`: a file that can be read has all that returned
  (`FileHasRevocations`), an address once (`FileHasAddressesOnce`), and what is
  being written is in memory or not yet stored (`Saving`): `FilesTypeCorrect`,
  `RevocationsSafe`, `ObjectsSafe`. Assumptions: `CidsAreNoStores`,
  `ContentIsAFile`, `SetsAreFiles`.
- `Credentials`: a token never says too much (`TokensAgree`), and a row changes
  only by its date of revocation: `VerdictsSafe`. Assumptions:
  `NeverIsNoTime`, `CredentialBounds`.
- `Attestations` and `Archive`: the type invariants are enough for
  `AttestationsSafe` and `PastIsSafe`; the latter needs the least element of a
  set of numbers, as above. Assumptions: `RsaPairsArePairs`, `LimitNat`.

### Only model-checked

The liveness properties `RequestsFinish`, `EverySettles` and `RequestsEnd`
(liveness under fairness is out of the prover's reach), and of course the eight
violations. The assumptions on constants above hold of every instance: TLC
evaluates them in the runs. Bounds such as `MaxEdits`, `MaxDepth` or `Limit`
are numbers without a value in the proofs.

## Plan

1. Admission and deactivation of nodes and the handshake's peers, joined with
   `FederatedClaims`' policies.
2. The handlers of the transport with their error bodies, joined with
   `SyncQueue`: what a sender takes for delivered and the receiver refused.
3. Proofs across modules: that the environment of `Subgraph` is what
   `Registrations` does, and that of `Curriculum` and `FederatedClaims` what
   `ClaimLedger` does, as refinements.

## Not modelled

Statements, confidence, tags and other data of a claim; text extraction and
language models; cryptography (a signature is right or the message is refused);
tokens and roles; listings and filters; the reports on courses and nodes;
bundles of sources; keys in memory or in the environment; modules, quizzes and
display orders of a course; migrations; SQLite, which serialises writers. Two
answers to one review that overlap are one after the other in `Reviews`, though
their columns could be merged. `PROJECT.json` gives the reason for each
component that is left out or modelled in part.
