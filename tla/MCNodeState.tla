---------------------------- MODULE MCNodeState -----------------------------
(***************************************************************************)
(* Small instances of what a node keeps and what it tells of it.  The      *)
(* ledger, whose requests do not overlap here, with the readers of Audits; *)
(* the ids of ReplayWindow in memory, the keys of KeyStore and the stores  *)
(* of FileStores on disk, the rows of Credentials, Attestations, Archive   *)
(* and Reviews, and the graphs that the walks of Subgraph and Impact read. *)
(* They share no state, so a behaviour drives one of them.                 *)
(***************************************************************************)
EXTENDS Audits, ReplayWindow, KeyStore, FileStores, Credentials, Attestations,
        Archive, Subgraph, Impact, MCReviews, TLC

CONSTANTS x1, x2, x3, x4, y1, y2, y3

\* Graphs with a cycle, and with ways of different lengths.
MCLink == {<<x1, x2>>, <<x1, x3>>, <<x2, x3>>, <<x3, x4>>, <<x4, x1>>}
MCDependency == {<<y1, y2>>, <<y2, y3>>, <<y1, y3>>, <<y3, y1>>, <<y3, y2>>}

VARIABLE part  \* the one that is driven

\* What the other parts start from; only one has to choose.
NoImpactYet == depends = {} /\ live = {} /\ impact = NoImpact

StateInit ==
  /\ AuditInit /\ ReplayInit /\ KeyInit /\ FileInit
  /\ CredentialInit /\ AttestationInit /\ ArchiveInit /\ SubgraphInit
  /\ part \in {"ledger", "replay", "keys", "files", "credentials",
              "attestations", "archive", "subgraph", "impact", "reviews"}
  /\ IF part = "impact" THEN ImpactInit ELSE NoImpactYet
  /\ ReviewInit /\ (part # "reviews" => verified = {})

ledgerVars == <<vars, reader>>

DriveLedger == part = "ledger" /\ AuditNext
  /\ UNCHANGED <<replayVars, keyVars, fileVars, credentialVars,
                 attestationVars, archiveVars, subgraphVars,
                 impactVars, reviewVars>>
DriveReplay == part = "replay" /\ ReplayNext
  /\ UNCHANGED <<ledgerVars, keyVars, fileVars, credentialVars,
                 attestationVars, archiveVars, subgraphVars,
                 impactVars, reviewVars>>
DriveKeys == part = "keys" /\ KeyNext
  /\ UNCHANGED <<ledgerVars, replayVars, fileVars, credentialVars,
                 attestationVars, archiveVars, subgraphVars,
                 impactVars, reviewVars>>
DriveFiles == part = "files" /\ FileNext
  /\ UNCHANGED <<ledgerVars, replayVars, keyVars, credentialVars,
                 attestationVars, archiveVars, subgraphVars,
                 impactVars, reviewVars>>
DriveCredentials == part = "credentials" /\ CredentialNext
  /\ UNCHANGED <<ledgerVars, replayVars, keyVars, fileVars,
                 attestationVars, archiveVars, subgraphVars,
                 impactVars, reviewVars>>
DriveAttestations == part = "attestations" /\ AttestationNext
  /\ UNCHANGED <<ledgerVars, replayVars, keyVars, fileVars,
                 credentialVars, archiveVars, subgraphVars,
                 impactVars, reviewVars>>
DriveArchive == part = "archive" /\ ArchiveNext
  /\ UNCHANGED <<ledgerVars, replayVars, keyVars, fileVars,
                 credentialVars, attestationVars, subgraphVars,
                 impactVars, reviewVars>>
DriveSubgraph == part = "subgraph" /\ SubgraphNext
  /\ UNCHANGED <<ledgerVars, replayVars, keyVars, fileVars,
                 credentialVars, attestationVars, archiveVars,
                 impactVars, reviewVars>>
DriveImpact == part = "impact" /\ ImpactNext
  /\ UNCHANGED <<ledgerVars, replayVars, keyVars, fileVars,
                 credentialVars, attestationVars, archiveVars,
                 subgraphVars, reviewVars>>
DriveReviews == part = "reviews" /\ ReviewNext
  /\ UNCHANGED <<ledgerVars, replayVars, keyVars, fileVars,
                 credentialVars, attestationVars, archiveVars,
                 subgraphVars, impactVars>>

StateNext ==
  /\ \/ DriveLedger \/ DriveReplay \/ DriveKeys \/ DriveFiles
     \/ DriveCredentials \/ DriveAttestations \/ DriveArchive
     \/ DriveSubgraph \/ DriveImpact \/ DriveReviews
  /\ UNCHANGED part

stateVars ==
  <<ledgerVars, replayVars, keyVars, fileVars, credentialVars, attestationVars,
    archiveVars, subgraphVars, impactVars, reviewVars, part>>

StateSpec == StateInit /\ [][StateNext]_stateVars

Symmetry == Permutations(Auditor) \cup Permutations(Cid)
=============================================================================
