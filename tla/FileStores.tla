----------------------------- MODULE FileStores -----------------------------
(***************************************************************************)
(* The stores a node keeps in files: the revocations and the registry of   *)
(* content addresses, each a dictionary in memory that is written to one   *)
(* JSON file after every change, and the content-addressed objects, a file *)
(* each.  All files are written in place: a crash or a full disk leaves a  *)
(* file cut short.  A store is opened by reading its file.                 *)
(***************************************************************************)
EXTENDS Integers, Sequences

CONSTANTS
  Entity,      \* what may be revoked: credentials, keys and nodes
  Cid,         \* content addresses
  Object,      \* the objects that addresses are registered for
  NoFile,      \* a file that does not exist
  Partial,     \* the content of a file whose writing was cut short
  Content,     \* the content an object file should have
  None         \* no address, and no write under way

ASSUME CidsAreNoStores == Cid \cap {"revocations", "registry"} = {}
ASSUME ContentIsAFile == Content # NoFile
ASSUME SetsAreFiles == \A S \in SUBSET Entity : S # NoFile /\ S # Partial

VARIABLES
  open,      \* the stores that have been opened since the last crash
  revoked,   \* RevocationStore._store
  entries,   \* CIDRegistry._store: a dictionary in the order of insertion
  byObject,  \* CIDRegistry._by_object
  files,     \* the two JSON files and the object files
  saving,    \* the file being written and what it is written for, or None
  acked,     \* the entities whose revocation returned
  kept       \* the objects that were stored and not deleted since

fileVars == <<open, revoked, entries, byObject, files, saving, acked, kept>>

Entry == [cid : Cid, object : Object]
Store == {"revocations", "registry"}

Registered == {entries[i].cid : i \in DOMAIN entries}

\* The addresses of objects: of several entries the last one counts.
NoIndex == [o \in Object |-> None]
PlacesOf(es, o) == {i \in DOMAIN es : es[i].object = o}
LastPlace(es, o) == CHOOSE i \in PlacesOf(es, o) : \A j \in PlacesOf(es, o) : j <= i
Index(es) ==
  [o \in Object |-> IF PlacesOf(es, o) = {} THEN None ELSE es[LastPlace(es, o)].cid]

AddressesOnce(es) == \A i, j \in DOMAIN es : es[i].cid = es[j].cid => i = j

\* Stores keep their types; the registry has an address once, and finds an
\* object by the address that is registered for it, the last of several: what
\* it will also find after a restart.
FileTypeOK ==
  /\ open \subseteq Store
  /\ revoked \subseteq Entity
  /\ entries \in Seq(Entry) /\ AddressesOnce(entries)
  /\ byObject = Index(entries)
  /\ DOMAIN files = Store \cup Cid
  /\ files["revocations"] \in {NoFile, Partial} \cup SUBSET Entity
  /\ files["registry"] \in {NoFile, Partial} \cup Seq(Entry)
  /\ \A c \in Cid : files[c] \in {NoFile, Partial, Content}
  /\ saving \in {None} \cup [file : Store \cup Cid, item : Entity \cup Cid]
  /\ acked \subseteq Entity
  /\ kept \subseteq Cid

FileInit ==
  /\ open = {}
  /\ revoked = {} /\ entries = <<>> /\ byObject = NoIndex
  /\ files = [f \in Store \cup Cid |-> NoFile]
  /\ saving = None
  /\ acked = {} /\ kept = {}

-----------------------------------------------------------------------------
(***************************************************************************)
(* Opening a store.                                                        *)
(***************************************************************************)

\* Mutated form: a file that cannot be parsed counts as empty.
ReadableAnyhow(s) == TRUE

\* json.loads raises on a file that was cut short, and so does the store.
Readable(s) == files[s] # Partial

Loaded(s, empty) == IF files[s] \in {NoFile, Partial} THEN empty ELSE files[s]

OpenRevocations ==
  /\ "revocations" \notin open /\ Readable("revocations")
  /\ open' = open \cup {"revocations"}
  /\ revoked' = Loaded("revocations", {})
  /\ UNCHANGED <<entries, byObject, files, saving, acked, kept>>

OpenRegistry ==
  /\ "registry" \notin open /\ Readable("registry")
  /\ open' = open \cup {"registry"}
  /\ entries' = Loaded("registry", <<>>)
  /\ byObject' = Index(Loaded("registry", <<>>))
  /\ UNCHANGED <<revoked, files, saving, acked, kept>>

-----------------------------------------------------------------------------
(***************************************************************************)
(* Operations: memory first, then the file.                                *)
(***************************************************************************)

Save(f, item) == saving' = [file |-> f, item |-> item]

Revoke(e) ==
  /\ "revocations" \in open /\ saving = None
  /\ revoked' = revoked \cup {e}
  /\ Save("revocations", e)
  /\ UNCHANGED <<open, entries, byObject, files, acked, kept>>

\* Mutated form: an address that is known is registered for the new object.
RegisterAnew(c, o) ==
  /\ "registry" \in open /\ saving = None
  /\ entries' = IF c \in Registered
                  THEN [i \in DOMAIN entries |->
                          IF entries[i].cid = c THEN [cid |-> c, object |-> o]
                          ELSE entries[i]]
                  ELSE Append(entries, [cid |-> c, object |-> o])
  /\ byObject' = [byObject EXCEPT ![o] = c]
  /\ Save("registry", c)
  /\ UNCHANGED <<open, revoked, files, acked, kept>>

\* A known address is answered from memory.
Register(c, o) ==
  /\ "registry" \in open /\ saving = None
  /\ c \notin Registered
  /\ entries' = Append(entries, [cid |-> c, object |-> o])
  /\ byObject' = [byObject EXCEPT ![o] = c]
  /\ Save("registry", c)
  /\ UNCHANGED <<open, revoked, files, acked, kept>>

\* Mutated form: an object is written again.
PutAgain(c) ==
  /\ saving = None
  /\ Save(c, c)
  /\ UNCHANGED <<open, revoked, entries, byObject, files, acked, kept>>

\* An object whose file exists counts as stored, whatever is in the file.
Put(c) ==
  /\ saving = None
  /\ files[c] = NoFile
  /\ Save(c, c)
  /\ UNCHANGED <<open, revoked, entries, byObject, files, acked, kept>>

Delete(c) ==
  /\ saving = None
  /\ files[c] # NoFile
  /\ files' = [files EXCEPT ![c] = NoFile]
  /\ kept' = kept \ {c}
  /\ UNCHANGED <<open, revoked, entries, byObject, saving, acked>>

-----------------------------------------------------------------------------
(***************************************************************************)
(* Writing a file, and what may come in between.                           *)
(***************************************************************************)

WholeContent(f) ==
  CASE f = "revocations" -> revoked
    [] f = "registry"    -> entries
    [] OTHER             -> Content

TruncateFile ==
  /\ saving # None /\ files[saving.file] # Partial
  /\ files' = [files EXCEPT ![saving.file] = Partial]
  /\ UNCHANGED <<open, revoked, entries, byObject, saving, acked, kept>>

WriteFile ==
  /\ saving # None /\ files[saving.file] = Partial
  /\ files' = [files EXCEPT ![saving.file] = WholeContent(saving.file)]
  /\ acked' = IF saving.file = "revocations" THEN acked \cup {saving.item} ELSE acked
  /\ kept' = IF saving.file \in Cid THEN kept \cup {saving.item} ELSE kept
  /\ saving' = None
  /\ UNCHANGED <<open, revoked, entries, byObject>>

\* The call raises; the dictionary keeps what it was to save.
WriteFails ==
  /\ saving # None
  /\ saving' = None
  /\ UNCHANGED <<open, revoked, entries, byObject, files, acked, kept>>

CrashOfFiles ==
  /\ open' = {}
  /\ revoked' = {} /\ entries' = <<>> /\ byObject' = NoIndex
  /\ saving' = None
  /\ UNCHANGED <<files, acked, kept>>

FileNext ==
  \/ OpenRevocations \/ OpenRegistry
  \/ \E e \in Entity : Revoke(e)
  \/ \E c \in Cid, o \in Object : Register(c, o)
  \/ \E c \in Cid : Put(c) \/ Delete(c)
  \/ TruncateFile \/ WriteFile \/ WriteFails \/ CrashOfFiles

FileSpec == FileInit /\ [][FileNext]_fileVars

-----------------------------------------------------------------------------
(***************************************************************************)
(* Properties.                                                             *)
(***************************************************************************)

\* A revocation that returned is never forgotten: a store that can be opened
\* knows it, after any number of crashes and failed writes in between.
RevocationsNotForgotten == "revocations" \in open => acked \subseteq revoked

\* "Objects are immutable once written": an object that was stored is whole
\* until it is deleted, although it is stored again and crashes come in
\* between.
KeptUntilDeleted == \A c \in kept : files[c] = Content

-----------------------------------------------------------------------------
(***************************************************************************)
(* The inductive invariant behind them.                                    *)
(***************************************************************************)

\* The file of revocations, if it can be read, has all that returned.
FileHasRevocations ==
  Readable("revocations") => acked \subseteq Loaded("revocations", {})

\* The registry's file has an address once.
FileHasAddressesOnce == AddressesOnce(Loaded("registry", <<>>))

\* What is being written: a revocation that is in memory, or an object that
\* is not stored.
Saving ==
  saving # None =>
    /\ saving.file = "revocations" =>
         "revocations" \in open /\ saving.item \in revoked
    /\ saving.file \in Cid => saving.item = saving.file /\ saving.file \notin kept

FileInv ==
  /\ FileTypeOK /\ RevocationsNotForgotten /\ KeptUntilDeleted
  /\ FileHasRevocations /\ FileHasAddressesOnce /\ Saving
=============================================================================
