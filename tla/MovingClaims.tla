---------------------------- MODULE MovingClaims -----------------------------
(***************************************************************************)
(* What Curriculum and FederatedClaims see of the claim ledger: sessions   *)
(* of theirs read the status of a claim that other sessions move at any    *)
(* time (ClaimLedger says how).                                            *)
(***************************************************************************)
EXTENDS ClaimRecords

CONSTANTS
  Claim,        \* the claims
  Session,      \* the concurrent database sessions
  ClaimTargets, \* the statuses claims move to (bounds the environment)
  Nil           \* no row, no node, no successor

ASSUME ClaimTargetsAreStatuses == ClaimTargets \subseteq Status

VARIABLES
  status,       \* the committed status of every claim
  onceVerified  \* claims that have been verified at some time (history)

claimsOnly == <<status, onceVerified>>

ClaimsTypeOK == status \in [Claim -> Status] /\ onceVerified \subseteq Claim

ClaimsInit == status = [c \in Claim |-> "draft"] /\ onceVerified = {}

\* A session of the ledger commits a move.
ClaimMoves(c, new) ==
  /\ status[c] # new
  /\ status' = [status EXCEPT ![c] = new]
  /\ onceVerified' = IF new = "verified" THEN onceVerified \cup {c}
                     ELSE onceVerified

\* A session of theirs that does nothing.
Idle == [kind |-> "idle"]
=============================================================================
