------------------------------ MODULE Archive -------------------------------
(***************************************************************************)
(* InstitutionalArchive: requests add entries about subjects, each hashed  *)
(* over its fields as given and stored with its texts stripped of blanks,  *)
(* and stamped by the clock when it is flushed.  Transactions end in any   *)
(* order, so an entry can appear in front of entries that were read        *)
(* before it.  Entries are never changed.                                  *)
(***************************************************************************)
EXTENDS Integers, FiniteSets

CONSTANTS
  ArchiveEntry,  \* entry ids
  Subject,       \* subject ids, without blanks around them
  Limit,         \* the entries an answer has at most
  MaxStamps      \* bound on the clock

ASSUME LimitNat == Limit \in Nat

VARIABLES
  archived,  \* the committed entries
  writing,   \* those flushed by open transactions
  stamps     \* the time stamps given so far; each flush has one of its own

archiveVars == <<archived, writing, stamps>>

\* A text is given with blanks around it or without.
Given == [text : Subject, blanks : BOOLEAN]

Stripped(given) == [given EXCEPT !.blanks = FALSE]

\* The id as stored, the hash over the id as given, and the time stamp.
EntryRow == [subject_id : Given, content_hash : Given, timestamp : Nat]

ArchiveTypeOK ==
  /\ DOMAIN archived \subseteq ArchiveEntry
  /\ DOMAIN writing \subseteq ArchiveEntry \ DOMAIN archived
  /\ \A e \in DOMAIN archived : archived[e] \in EntryRow
  /\ \A e \in DOMAIN writing : writing[e] \in EntryRow
  /\ stamps \in Nat

ArchiveInit ==
  /\ archived = [e \in {} |-> 0] /\ writing = [e \in {} |-> 0]
  /\ stamps = 0

-----------------------------------------------------------------------------

\* record(): one subject id stands for the three texts that are stripped.
Record(e, given) ==
  /\ stamps < MaxStamps
  /\ e \notin DOMAIN archived \cup DOMAIN writing
  /\ writing' = [f \in DOMAIN writing \cup {e} |->
                   IF f = e THEN [subject_id   |-> Stripped(given),
                                  content_hash |-> given,
                                  timestamp    |-> stamps]
                   ELSE writing[f]]
  /\ stamps' = stamps + 1
  /\ UNCHANGED archived

EndTransaction(e) ==
  /\ e \in DOMAIN writing
  /\ writing' = [f \in DOMAIN writing \ {e} |-> writing[f]]

CommitEntry(e) ==
  /\ EndTransaction(e)
  /\ archived' = [f \in DOMAIN archived \cup {e} |->
                    IF f = e THEN writing[e] ELSE archived[f]]
  /\ UNCHANGED stamps

RollbackEntry(e) == EndTransaction(e) /\ UNCHANGED <<archived, stamps>>

ArchiveNext ==
  \E e \in ArchiveEntry :
    \/ \E given \in Given : Record(e, given)
    \/ CommitEntry(e) \/ RollbackEntry(e)

ArchiveSpec == ArchiveInit /\ [][ArchiveNext]_archiveVars

-----------------------------------------------------------------------------

EntriesAbout(subject) ==
  {e \in DOMAIN archived : archived[e].subject_id = [text |-> subject, blanks |-> FALSE]}

Earlier(entries, e) == {f \in entries : archived[f].timestamp < archived[e].timestamp}
Later(entries, e) == {f \in entries : archived[f].timestamp > archived[e].timestamp}

\* Mutated form: the newest Limit entries, as get_by_event_type returns them.
GetHistoryNewest(subject) ==
  {e \in EntriesAbout(subject) : Cardinality(Later(EntriesAbout(subject), e)) < Limit}

\* get_history: the oldest Limit entries.
GetHistory(subject) ==
  {e \in EntriesAbout(subject) : Cardinality(Earlier(EntriesAbout(subject), e)) < Limit}

\* TemporalKnowledgeView: the oldest Limit events of all subjects until then.
DoctrineEventsUntil(time) ==
  LET events == {e \in DOMAIN archived : archived[e].timestamp <= time} IN
  {e \in events : Cardinality(Earlier(events, e)) < Limit}

\* verify_entry_integrity: the hash over the fields as stored.
VerifyEntryIntegrity(e) == archived[e].subject_id = archived[e].content_hash

-----------------------------------------------------------------------------
(***************************************************************************)
(* Properties.                                                             *)
(***************************************************************************)

Until(entries, time) == {e \in entries : archived[e].timestamp <= time}

\* No open transaction can put an entry in front of this time.
SettledUntil(time) == \A e \in DOMAIN writing : writing[e].timestamp > time

KeepsPast ==
  /\ \A time \in 0 .. stamps - 1 :
       SettledUntil(time) =>
         /\ DoctrineEventsUntil(time)' = DoctrineEventsUntil(time)
         /\ \A subject \in Subject :
              Until(GetHistory(subject), time)' = Until(GetHistory(subject), time)
  /\ \A e \in DOMAIN archived : VerifyEntryIntegrity(e)' = VerifyEntryIntegrity(e)

\* What the archive says of the past is final once the transactions that were
\* open then have ended: later entries neither join nor push out those of a
\* history or of the events up to that time, however many there are, and the
\* check of an entry does not change its verdict.
PastIsFinal == [][KeepsPast]_archiveVars
=============================================================================
