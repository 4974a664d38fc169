------------------------------ MODULE KeyStore ------------------------------
(***************************************************************************)
(* LocalKeyProvider with a key directory: one signing key of a node, its   *)
(* archived versions, and the rotation that moves it there.  A key is a    *)
(* directory of three files, written one after the other in place, so a    *)
(* crash leaves a file cut short and the ones after it as they were.       *)
(* Nothing but the three files outlives a crash, and no later call looks   *)
(* whether they belong together.                                           *)
(***************************************************************************)
EXTENDS Integers

CONSTANTS
  MaxPairs,  \* key pairs that may be generated (bounds the model)
  Missing,   \* a file that does not exist
  Cut        \* the content of a file whose writing was cut short

ASSUME MaxPairsNat == MaxPairs \in Nat
ASSUME NoContents == Missing \notin Nat /\ Cut \notin Nat /\ Missing # Cut

VARIABLES
  keyFiles,   \* the files of the key's directories
  versionOf,  \* the version each key pair was generated for, 0 if it was not
  generated,  \* the number of key pairs generated; pairs are numbered
  step,       \* the file that the call at work writes next, 0 if none
  old,        \* the key it has loaded
  given,      \* the pairs whose creation or rotation returned
  spoiled     \* a call was started that the code does not protect old keys from

keyVars == <<keyFiles, versionOf, generated, step, old, given, spoiled>>

Pair == 1 .. MaxPairs
Version == 1 .. MaxPairs

\* {key_id} is the key in use, {key_id}__archived__v{n} is n here.
Current == 0
Directory == {Current} \cup Version

KeyFiles == [private : Pair \cup {Missing, Cut},
             public : Pair \cup {Missing, Cut},
             meta : Version \cup {Missing, Cut}]
NoKey == [private |-> Missing, public |-> Missing, meta |-> Missing]

\* Files, pairs and calls keep their types.
KeyTypeOK ==
  /\ keyFiles \in [Directory -> KeyFiles]
  /\ generated \in 0 .. MaxPairs
  /\ versionOf \in [Pair -> 0 .. generated]
  /\ \A p \in 1 .. generated : versionOf[p] \in Version
  /\ \A d \in Directory : keyFiles[d].meta \in 1 .. generated \cup {Missing, Cut}
  /\ step \in 0 .. 6
  /\ old \in KeyFiles
  /\ step \in 1 .. 3 => old.meta \in 1 .. generated
  /\ old.meta \in 1 .. generated \cup {Missing, Cut}
  /\ step # 0 => generated # 0
  /\ given \subseteq 1 .. generated
  /\ spoiled \in BOOLEAN

KeyInit ==
  /\ keyFiles = [d \in Directory |-> NoKey]
  /\ versionOf = [p \in Pair |-> 0]
  /\ generated = 0
  /\ step = 0
  /\ old = NoKey
  /\ given = {}
  /\ spoiled = FALSE

-----------------------------------------------------------------------------

KeyOf(p) == [private |-> p, public |-> p, meta |-> versionOf[p]]

\* The directory holds pair p under its version.
Whole(d, p) == keyFiles[d] = KeyOf(p)

\* _load_key finds every file and can read the last one; the other two are
\* taken as they are.
Loadable(d) ==
  /\ keyFiles[d].private # Missing /\ keyFiles[d].public # Missing
  /\ keyFiles[d].meta \notin {Missing, Cut}

\* Mutated form: one archive for all versions.
ArchiveIdOnly(version) == 1

ArchiveId(version) == version

\* A call that generates a pair for this version starts to write.  Old keys
\* are safe from it if there is none, or if it rotates a directory whose
\* files belong together.
StartCall(version, first, safe) ==
  /\ step = 0 /\ generated < MaxPairs
  /\ generated' = generated + 1
  /\ versionOf' = [versionOf EXCEPT ![generated + 1] = version]
  /\ step' = first
  /\ old' = keyFiles[Current]
  /\ spoiled' = (spoiled \/ ~safe)
  /\ UNCHANGED <<keyFiles, given>>

\* Every key starts as v1, also one that exists.
CreateKey == StartCall(1, 4, given = {})

RotateKey ==
  /\ Loadable(Current)
  /\ StartCall(keyFiles[Current].meta + 1, 1,
               \E p \in 1 .. generated : Whole(Current, p))

\* The loaded key is stored in the archive first (1 to 3), then the new one
\* in its place (4 to 6).
FileAt(i) ==
  IF i \in {1, 4} THEN "private" ELSE IF i \in {2, 5} THEN "public" ELSE "meta"
DirectoryAt(i) == IF i <= 3 THEN ArchiveId(old.meta) ELSE Current
ContentAt(i) == IF i <= 3 THEN old[FileAt(i)] ELSE KeyOf(generated)[FileAt(i)]

\* write_text truncates the file and then fills it.
OpenFile ==
  /\ step # 0
  /\ keyFiles[DirectoryAt(step)][FileAt(step)] # Cut
  /\ keyFiles' = [keyFiles EXCEPT ![DirectoryAt(step)][FileAt(step)] = Cut]
  /\ UNCHANGED <<versionOf, generated, step, old, given, spoiled>>

\* With the last file the call returns the new key.
FillFile ==
  /\ step # 0
  /\ keyFiles[DirectoryAt(step)][FileAt(step)] = Cut
  /\ keyFiles' = [keyFiles EXCEPT ![DirectoryAt(step)][FileAt(step)] = ContentAt(step)]
  /\ \/ step < 6 /\ step' = step + 1 /\ UNCHANGED given
     \/ step = 6 /\ step' = 0 /\ given' = given \cup {generated}
  /\ UNCHANGED <<versionOf, generated, old, spoiled>>

\* Also an exception in a write.
CrashOfKeys ==
  /\ step # 0
  /\ step' = 0
  /\ UNCHANGED <<keyFiles, versionOf, generated, old, given, spoiled>>

KeyNext == CreateKey \/ RotateKey \/ OpenFile \/ FillFile \/ CrashOfKeys

KeySpec == KeyInit /\ [][KeyNext]_keyVars

-----------------------------------------------------------------------------
(***************************************************************************)
(* Properties.                                                             *)
(***************************************************************************)

\* "Keeps retired public keys available for verifying historical signatures":
\* a key pair that was given out is whole on the disk, in use or archived
\* under its version, at every moment of a rotation and after a crash in it,
\* also after a rotation that is tried again -- until a key is created anew
\* under the same id, or a rotation starts from files that a crash has left
\* of different keys.
KeysKept ==
  ~spoiled =>
    \A p \in given : Whole(Current, p) \/ Whole(ArchiveId(versionOf[p]), p)

-----------------------------------------------------------------------------
(***************************************************************************)
(* The inductive invariant behind KeysKept.                                *)
(***************************************************************************)

\* The key in use is the newest one given out.
NewestInUse ==
  \A p \in 1 .. generated : Whole(Current, p) =>
    \A g \in given \ {p} : versionOf[g] < versionOf[p]

\* While the loaded key is archived, it is still in use.
Archiving ==
  step \in 1 .. 3 =>
    \E p \in 1 .. generated - 1 :
      /\ Whole(Current, p) /\ old = KeyOf(p)
      /\ versionOf[generated] = versionOf[p] + 1
      /\ step > 1 => keyFiles[versionOf[p]].private = p
      /\ step > 2 => keyFiles[versionOf[p]].public = p

\* While it is replaced, every key given out is archived.
Replacing ==
  step \in 4 .. 6 =>
    /\ \A g \in given :
         Whole(versionOf[g], g) /\ versionOf[g] < versionOf[generated]
    /\ step > 4 => keyFiles[Current].private = generated
    /\ step > 5 => keyFiles[Current].public = generated

KeyInv ==
  /\ KeyTypeOK
  /\ ~spoiled =>
       KeysKept /\ NewestInUse /\ Archiving /\ Replacing
       /\ (step # 0 => generated \notin given)
=============================================================================
