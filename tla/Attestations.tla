---------------------------- MODULE Attestations ----------------------------
(***************************************************************************)
(* AttestationManager: reviewers register public keys, fetch the payload   *)
(* of a claim, sign it where their private keys are, and submit the        *)
(* signature; the node checks it against the registered key, keeps the     *)
(* attestation whatever the check says, and checks it again on request.    *)
(* A request may be late: keys are registered and payloads are signed in   *)
(* between.  No code changes the statement of a claim, so the id of a      *)
(* claim stands for its hash; no code retires a key.                       *)
(***************************************************************************)
EXTENDS Integers, FiniteSets

CONSTANTS
  AttestedClaim,  \* the claims
  Signer,         \* the reviewers
  SigningPair,    \* key pairs; the public half stands for its fingerprint
  RsaPair,        \* those that are RSA keys
  MaxMade         \* bound on the signatures made, and on the attestations

ASSUME RsaPairsArePairs == RsaPair \subseteq SigningPair

VARIABLES
  reviewerKeys,  \* reviewer_keys: whose key a registered pair is
  signatures,    \* the signatures that reviewers made
  attestations   \* verification_attestations

attestationVars == <<reviewerKeys, signatures, attestations>>

Payload == [claim : AttestedClaim, reviewer : Signer]
Signature == [pair : SigningPair, payload : Payload]
Attestation == [key : SigningPair, signed_payload : Payload,
                reviewer_signature : Signature, signature_verified : BOOLEAN]

KnownKeys == DOMAIN reviewerKeys

\* Keys, signatures and attestations keep their types.
AttestationTypeOK ==
  /\ reviewerKeys \in UNION {[K -> Signer] : K \in SUBSET SigningPair}
  /\ signatures \subseteq Signature
  /\ attestations \subseteq Attestation
  /\ \A a \in attestations : a.key \in KnownKeys

AttestationInit ==
  /\ reviewerKeys = [p \in {} |-> 0]
  /\ signatures = {}
  /\ attestations = {}

-----------------------------------------------------------------------------

\* Mutated form: a new key takes the place of the reviewer's old one.
RegisterKeyInPlace(r, p) ==
  /\ p \notin KnownKeys
  /\ LET others == {q \in KnownKeys : reviewerKeys[q] # r} IN
     /\ reviewerKeys' = [q \in others \cup {p} |-> IF q = p THEN r ELSE reviewerKeys[q]]
     /\ attestations' = {[a EXCEPT !.key = IF reviewerKeys[a.key] = r THEN p ELSE a.key] :
                           a \in attestations}
  /\ UNCHANGED signatures

\* A key is registered once; the second time its row is returned, also to
\* another reviewer.
RegisterKey(r, p) ==
  /\ p \notin KnownKeys
  /\ reviewerKeys' = [q \in KnownKeys \cup {p} |->
                        IF q = p THEN r ELSE reviewerKeys[q]]
  /\ UNCHANGED <<signatures, attestations>>

\* build_signing_payload, as the route hands it out and as the node rebuilds
\* it from the claim.
SigningPayload(c, r) == [claim |-> c, reviewer |-> r]

\* sign_payload, at the reviewer's: of the payload as fetched.
SignPayload(p, c, r) ==
  /\ Cardinality(signatures) < MaxMade
  /\ signatures' = signatures \cup {[pair |-> p, payload |-> SigningPayload(c, r)]}
  /\ UNCHANGED <<reviewerKeys, attestations>>

\* Whatever the algorithm says, the check is that of RSA: another key raises,
\* and that counts as a wrong signature.
VerifySignature(p, payload, signature) ==
  p \in RsaPair /\ signature = [pair |-> p, payload |-> payload]

\* A signature may be submitted for another claim, under another key.
CreateAttestation(c, p, r, signature) ==
  /\ Cardinality(attestations) < MaxMade
  /\ p \in KnownKeys
  /\ LET payload == SigningPayload(c, r) IN
     attestations' = attestations \cup
       {[key                |-> p,
         signed_payload     |-> payload,
         reviewer_signature |-> signature,
         signature_verified |-> VerifySignature(p, payload, signature)]}
  /\ UNCHANGED <<reviewerKeys, signatures>>

AttestationNext ==
  \E r \in Signer, p \in SigningPair :
    \/ RegisterKey(r, p)
    \/ \E c \in AttestedClaim :
         \/ SignPayload(p, c, r)
         \/ \E signature \in signatures : CreateAttestation(c, p, r, signature)

AttestationSpec == AttestationInit /\ [][AttestationNext]_attestationVars

-----------------------------------------------------------------------------

\* verify_attestation: against the key as it is registered now.
VerifyAttestation(a) ==
  /\ a.key \in KnownKeys
  /\ VerifySignature(a.key, a.signed_payload, a.reviewer_signature)

\* get_reviewer_key: scalar_one_or_none finds one, finds none, or raises.
ReviewerKeyFound(r) == Cardinality({p \in KnownKeys : reviewerKeys[p] = r}) <= 1

-----------------------------------------------------------------------------
(***************************************************************************)
(* Properties.                                                             *)
(***************************************************************************)

\* "Any attestation can be re-verified at any time", with the verdict it was
\* stored with: reviewers go on to register keys and to sign, and no key that
\* an attestation was made under is lost.
AttestationsHold ==
  \A a \in attestations : a.signature_verified = VerifyAttestation(a)
=============================================================================
