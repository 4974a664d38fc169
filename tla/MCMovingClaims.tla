--------------------------- MODULE MCMovingClaims ---------------------------
(***************************************************************************)
(* A small instance of the two components that read the status of claims   *)
(* while the ledger moves them: Curriculum and FederatedClaims.  They      *)
(* write different tables, so a behaviour drives one of them; where it is  *)
(* the federation, it has one claim.                                       *)
(***************************************************************************)
EXTENDS Curriculum, FederatedClaims, TLC

VARIABLE part  \* "curriculum", or the one claim that is federated

ReadersInit ==
  /\ Init /\ FederationInit
  /\ part \in {"curriculum"} \cup Claim
  /\ \A c, d \in Claim : profile[c] = profile[d]
  /\ part = "curriculum" =>
       \A c \in Claim : profile[c] = CHOOSE p \in Profile : TRUE

DriveCurriculum ==
  /\ part = "curriculum" /\ Next
  /\ UNCHANGED <<profile, federated, records, policy, operation>>

DriveFederation ==
  /\ part # "curriculum" /\ FederationNext
  /\ \A s \in Session : operation'[s] # Idle => operation'[s].claim = part
  /\ \A c \in Claim \ {part} : status'[c] = status[c]
  /\ UNCHANGED <<courses, lessons, credentials, request>>

ReadersNext == (DriveCurriculum \/ DriveFederation) /\ UNCHANGED part

readerVars == <<vars, federationVars, part>>

ReadersSpec == ReadersInit /\ [][ReadersNext]_readerVars

Symmetry == Permutations(Session) \cup Permutations(Claim)
            \cup Permutations(Lesson) \cup Permutations(Credential)
=============================================================================
