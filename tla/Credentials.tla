---------------------------- MODULE Credentials -----------------------------
(***************************************************************************)
(* What a credential vouches for: the document that is hashed and signed   *)
(* when it is issued, the row that is kept of it, the document that        *)
(* verify_credential rebuilds from the row, its revocation and its         *)
(* portable tokens.  Curriculum says which courses award one.              *)
(*                                                                         *)
(* The clock is read twice when a credential is issued: for issuanceDate   *)
(* in the document, and again for the default of the issue_date column     *)
(* when the row is flushed.                                                *)
(***************************************************************************)
EXTENDS Integers, FiniteSets

CONSTANTS
  Award,           \* the ids of the credentials that may be issued
  Clerk,           \* the requests that may revoke at one time
  MaxReading,      \* bound on the clock
  MaxMappings,     \* bound on the competencies mapped to the course
  Never            \* no expiry date, no revocation

ASSUME NeverIsNoTime == Never \notin Int
ASSUME CredentialBounds == MaxReading \in Nat /\ MaxMappings \in Nat

VARIABLES
  reading,     \* the clock
  competencies,  \* how many are mapped to the course or its lessons
  signing,     \* documents that are signed and not saved, per credential
  awards,      \* the rows of credentials
  revoking,    \* the credential that each clerk has loaded, unrevoked
  tokens       \* the tokens exported so far

credentialVars == <<reading, competencies, signing, awards, revoking, tokens>>

Reading == 0 .. MaxReading
Document == [issued : Reading, expires : Reading \cup {Never},
             subject : 0 .. MaxMappings]
AwardRow == [issue_date : Reading, expiry_date : Reading \cup {Never},
              credential_subject : 0 .. MaxMappings,
              credential_hash : Document, revoked_at : Reading \cup {Never}]

Issued == DOMAIN awards
IsRevoked(c) == awards[c].revoked_at # Never

\* Rows, documents and tokens keep their types.
CredentialTypeOK ==
  /\ reading \in Reading /\ competencies \in 0 .. MaxMappings
  /\ DOMAIN signing \subseteq Award \ Issued /\ Issued \subseteq Award
  /\ \A c \in DOMAIN signing : signing[c] \in Document
  /\ \A c \in Issued : awards[c] \in AwardRow
  /\ DOMAIN revoking \subseteq Clerk
  /\ \A w \in DOMAIN revoking : revoking[w] \in Issued
  /\ tokens \subseteq [credential : Issued, revoked : BOOLEAN]

CredentialInit ==
  /\ reading = 0 /\ competencies = 0
  /\ signing = [c \in {} |-> 0] /\ awards = [c \in {} |-> 0]
  /\ revoking = [w \in {} |-> 0]
  /\ tokens = {}

-----------------------------------------------------------------------------

With(f, x, y) == [z \in DOMAIN f \cup {x} |-> IF z = x THEN y ELSE f[z]]
Without(f, x) == [z \in DOMAIN f \ {x} |-> f[z]]

ClockTicks ==
  /\ reading < MaxReading
  /\ reading' = reading + 1
  /\ UNCHANGED <<competencies, signing, awards, revoking, tokens>>

\* map_course_to_competency and map_lesson_to_competency: what a subject says
\* of the course grows.  No code changes its title or version.
MapCompetency ==
  /\ competencies < MaxMappings
  /\ competencies' = competencies + 1
  /\ UNCHANGED <<reading, signing, awards, revoking, tokens>>

\* issue_credential up to the hash.
SignCredential(c, expiry) ==
  /\ c \in Award \ (Issued \cup DOMAIN signing)
  /\ signing' = With(signing, c, [issued  |-> reading,
                                  expires |-> expiry,
                                  subject |-> competencies])
  /\ UNCHANGED <<reading, competencies, awards, revoking, tokens>>

\* The flush and the commit.
SaveCredential(c) ==
  /\ c \in DOMAIN signing
  /\ awards' = With(awards, c, [issue_date         |-> reading,
                                expiry_date        |-> signing[c].expires,
                                credential_subject |-> signing[c].subject,
                                credential_hash    |-> signing[c],
                                revoked_at         |-> Never])
  /\ signing' = Without(signing, c)
  /\ UNCHANGED <<reading, competencies, revoking, tokens>>

\* revoke_credential finds the credential unrevoked.
LoadForRevocation(w, c) ==
  /\ w \notin DOMAIN revoking
  /\ c \in Issued /\ ~IsRevoked(c)
  /\ revoking' = With(revoking, w, c)
  /\ UNCHANGED <<reading, competencies, signing, awards, tokens>>

\* A second revocation that was loaded in time moves the date.
WriteRevocation(w) ==
  /\ w \in DOMAIN revoking
  /\ awards' = [awards EXCEPT ![revoking[w]].revoked_at = reading]
  /\ revoking' = Without(revoking, w)
  /\ UNCHANGED <<reading, competencies, signing, tokens>>

\* export_json, and export_portable_token of the same document: it says what
\* the row says at that moment and never learns of a later revocation.
ExportToken(c) ==
  /\ c \in Issued
  /\ tokens' = tokens \cup {[credential |-> c, revoked |-> IsRevoked(c)]}
  /\ UNCHANGED <<reading, competencies, signing, awards, revoking>>

CredentialNext ==
  \/ ClockTicks \/ MapCompetency
  \/ \E c \in Award :
       \/ \E expiry \in Reading \cup {Never} : SignCredential(c, expiry)
       \/ SaveCredential(c) \/ ExportToken(c)
  \/ \E w \in Clerk : WriteRevocation(w) \/ \E c \in Award : LoadForRevocation(w, c)

CredentialSpec == CredentialInit /\ [][CredentialNext]_credentialVars

-----------------------------------------------------------------------------
(***************************************************************************)
(* verify_credential.                                                      *)
(***************************************************************************)

\* Mutated form: the subject is rebuilt from the course as it is now.
RebuiltDocumentOfCourse(row) ==
  [issued |-> row.issue_date, expires |-> Never, subject |-> competencies]

\* The document is rebuilt with the row's date and without the expiry date, so
\* a new credential verifies only if it never expires and the clock read the
\* same when it was signed and when it was flushed.
RebuiltDocument(row) ==
  [issued |-> row.issue_date, expires |-> Never, subject |-> row.credential_subject]

Expired(row) == row.expiry_date # Never /\ reading > row.expiry_date

Verifies(c) ==
  /\ ~IsRevoked(c)
  /\ ~Expired(awards[c])
  /\ RebuiltDocument(awards[c]) = awards[c].credential_hash

-----------------------------------------------------------------------------
(***************************************************************************)
(* Properties.                                                             *)
(***************************************************************************)

KeepsVerdicts ==
  /\ \A c \in Issued :
       /\ Verifies(c)' => Verifies(c)
       /\ Verifies(c) => Verifies(c)' \/ IsRevoked(c)' \/ Expired(awards[c])'
  /\ \A t \in tokens : t.revoked => ~Verifies(t.credential)'

\* Whatever happens to its course, a credential that verifies does so until it
\* is revoked or expires, and one that does not never will again; a token that
\* says "revoked" is right for ever, although two requests may revoke one
\* credential at the same time.
VerdictsStand == [][KeepsVerdicts]_credentialVars

-----------------------------------------------------------------------------
(***************************************************************************)
(* The inductive invariant behind it.                                      *)
(***************************************************************************)

\* A token that says "revoked" is of a credential that is.
TokensAgree == \A t \in tokens : t.revoked => IsRevoked(t.credential)

CredentialInv == CredentialTypeOK /\ TokensAgree
=============================================================================
