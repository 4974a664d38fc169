--------------------------- MODULE NodeState_proofs --------------------------
(***************************************************************************)
(* Proofs about what a node keeps beside its claims: the replay cache, the *)
(* files, credentials, attestations and the archive, each for every value  *)
(* of its constants.                                                       *)
(***************************************************************************)
EXTENDS ReplayWindow, KeyStore, FileStores, Credentials, Attestations, Archive,
        FiniteSetTheorems, WellFoundedInduction, TLAPS

-----------------------------------------------------------------------------
(***************************************************************************)
(* ReplayWindow: types.                                                    *)
(***************************************************************************)

\* Evicting leaves a part of the ids.
LEMMA EvictSubset ==
  ASSUME NEW these, EvictOldest(these)
  PROVE  /\ seen' \subseteq these
         /\ ~overflowed' => seen' = these /\ ~overflowed
BY DEF EvictOldest

\* What check_and_record leaves of the remembered ids, and the new one.
LEMMA RecordSubset ==
  ASSUME NEW m \in Message, CheckAndRecord(m)
  PROVE  \A e \in seen' : e \in seen \/ e = [id |-> m, at |-> now]
<1>1. seen' \subseteq EvictExpired(seen) \cup {[id |-> m, at |-> now]}
  BY EvictSubset DEF CheckAndRecord
<1>. QED
  BY <1>1 DEF EvictExpired

\* The receiver starts with a well-typed, empty cache.
THEOREM ReplayInitType == ReplayInit => ReplayTypeOK
<1>. SUFFICES ASSUME ReplayInit PROVE ReplayTypeOK
  OBVIOUS
<1>1. stamp \in [Message -> Nat \cup {-1}]
  BY DEF ReplayInit
<1>2. passes \in [Message -> 0 .. 3]
  BY DEF ReplayInit
<1>. QED
  BY <1>1, <1>2 DEF ReplayInit, ReplayTypeOK

\* Ticks, sends and checks keep the types; above all no id is recorded in the
\* future.
THEOREM ReplayNextType == ReplayTypeOK /\ [ReplayNext]_replayVars => ReplayTypeOK'
<1>. SUFFICES ASSUME ReplayTypeOK, [ReplayNext]_replayVars PROVE ReplayTypeOK'
  OBVIOUS
<1>1. CASE Tick
  BY <1>1 DEF ReplayTypeOK, Tick
<1>2. ASSUME NEW m \in Message, CheckAndRecord(m)
      PROVE  ReplayTypeOK'
  <2>1. seen' \subseteq [id : Message, at : 0 .. now]
    <3>1. [id |-> m, at |-> now] \in [id : Message, at : 0 .. now]
      BY DEF ReplayTypeOK
    <3>. QED
      BY <1>2, <3>1, RecordSubset DEF ReplayTypeOK
  <2>2. overflowed' \in BOOLEAN
    BY <1>2 DEF ReplayTypeOK, CheckAndRecord, EvictOldest
  <2>3. passes' \in [Message -> 0 .. 3]
    BY <1>2 DEF ReplayTypeOK, CheckAndRecord
  <2>4. ahead' \subseteq Message
    BY <1>2 DEF ReplayTypeOK, CheckAndRecord
  <2>. QED
    BY <1>2, <2>1, <2>2, <2>3, <2>4 DEF ReplayTypeOK, CheckAndRecord
<1>3. ASSUME NEW m \in Message, NEW t, Send(m, t)
      PROVE  ReplayTypeOK'
  BY <1>3 DEF ReplayTypeOK, Send
<1>4. CASE UNCHANGED replayVars
  BY <1>4 DEF ReplayTypeOK, replayVars
<1>. QED
  BY <1>1, <1>2, <1>3, <1>4 DEF ReplayNext

\* Clock, time stamps and remembered ids keep their types, and no id was
\* recorded in the future.
THEOREM ReplayTypeCorrect == ReplaySpec => []ReplayTypeOK
BY ReplayInitType, ReplayNextType, PTL DEF ReplaySpec

-----------------------------------------------------------------------------
(***************************************************************************)
(* How often a message can be accepted.                                    *)
(***************************************************************************)

\* The id of m was recorded at t or later, and is remembered or so old that
\* time is more than a window past t.
RecordedSince(m, t) ==
  (\E e \in seen : e.id = m /\ t <= e.at) \/ now > t + Window

\* A message accepted once was recorded no earlier than its stamp or, if it
\* came ahead of that, than a window before; accepted again, it was recorded
\* after its stamp, and its copies leave the window before its id is forgotten.
PassesAccounted(m) ==
  /\ passes[m] # 0 => m \in Sent
  /\ passes[m] = 1 =>
       \/ RecordedSince(m, stamp[m])
       \/ m \in ahead /\ RecordedSince(m, stamp[m] - Window)
  /\ passes[m] = 2 => m \in ahead /\ RecordedSince(m, stamp[m])
  /\ passes[m] # 3

WindowInv ==
  ReplayTypeOK /\ (~overflowed => \A m \in Message : PassesAccounted(m))

\* Forgetting what is expired does not lose an id before its time.
LEMMA RecordKeepsSince ==
  ASSUME ReplayTypeOK, NEW m \in Message, CheckAndRecord(m), ~overflowed',
         NEW k \in Message, NEW t \in Int, RecordedSince(k, t)
  PROVE  RecordedSince(k, t)'
<1>1. /\ seen' = EvictExpired(seen) \cup {[id |-> m, at |-> now]}
      /\ now' = now /\ now \in Int
  BY EvictSubset DEF CheckAndRecord, ReplayTypeOK
<1>2. CASE now > t + Window
  BY <1>1, <1>2 DEF RecordedSince
<1>3. CASE \E e \in seen : e.id = k /\ t <= e.at
  <2>1. PICK e \in seen : e.id = k /\ t <= e.at
    BY <1>3
  <2>2. e.at \in Int
    BY DEF ReplayTypeOK
  <2>3. CASE e.at < now - Window
    BY <1>1, <2>1, <2>2, <2>3, WindowNat DEF RecordedSince
  <2>4. CASE ~(e.at < now - Window)
    <3>1. e \in seen'
      BY <1>1, <2>4 DEF EvictExpired
    <3>. QED
      BY <2>1, <3>1 DEF RecordedSince
  <2>. QED
    BY <2>3, <2>4
<1>. QED
  BY <1>2, <1>3 DEF RecordedSince

\* The message that passes is recorded now.
LEMMA RecordedNow ==
  ASSUME ReplayTypeOK, NEW m \in Message, CheckAndRecord(m), ~overflowed',
         NEW t \in Int, t <= now
  PROVE  RecordedSince(m, t)'
<1>. DEFINE new == [id |-> m, at |-> now]
<1>1. new \in seen' /\ new.id = m /\ t <= new.at
  BY EvictSubset DEF CheckAndRecord
<1>. QED
  BY <1>1 DEF RecordedSince

\* check_and_record keeps the account of every message.
LEMMA RecordKeeps ==
  ASSUME WindowInv, NEW m \in Message, CheckAndRecord(m), ~overflowed',
         NEW k \in Message
  PROVE  PassesAccounted(k)'
<1>1. /\ ~overflowed /\ PassesAccounted(k)
      /\ stamp' = stamp /\ now' = now /\ now \in Nat
      /\ stamp[k] \in Int /\ passes[k] \in 0 .. 3
      /\ \A t \in Int : RecordedSince(k, t) => RecordedSince(k, t)'
  <2>1. ~overflowed /\ stamp' = stamp /\ now' = now
    BY EvictSubset DEF CheckAndRecord
  <2>2. now \in Nat /\ stamp[k] \in Int /\ passes[k] \in 0 .. 3
    BY DEF WindowInv, ReplayTypeOK
  <2>3. \A t \in Int : RecordedSince(k, t) => RecordedSince(k, t)'
    BY RecordKeepsSince DEF WindowInv
  <2>. QED
    BY <2>1, <2>2, <2>3 DEF WindowInv
<1>2. stamp[k] - Window \in Int
  BY <1>1, WindowNat
<1>3. Sent' = Sent
  BY <1>1 DEF Sent
<1>4. ahead \subseteq ahead'
  BY DEF CheckAndRecord
<1>5. CASE k # m
  <2>1. passes'[k] = passes[k]
    BY <1>5 DEF CheckAndRecord, WindowInv, ReplayTypeOK
  <2>2. passes[k] = 1 =>
          \/ RecordedSince(k, stamp[k])'
          \/ k \in ahead' /\ RecordedSince(k, stamp[k] - Window)'
    BY <1>1, <1>2, <1>4 DEF PassesAccounted
  <2>3. passes[k] = 2 => k \in ahead' /\ RecordedSince(k, stamp[k])'
    BY <1>1, <1>4 DEF PassesAccounted
  <2>. QED
    BY <1>1, <1>3, <2>1, <2>2, <2>3 DEF PassesAccounted
<1>6. CASE k = m
  <2>1. /\ m \in Sent /\ m \notin SeenIds
        /\ now - stamp[m] <= Window /\ stamp[m] - now <= Window
        /\ passes'[m] = IF passes[m] < 3 THEN passes[m] + 1 ELSE 3
        /\ stamp[m] > now => m \in ahead'
    BY DEF CheckAndRecord, InWindow, WindowInv, ReplayTypeOK
  <2>2. \A t \in Int : RecordedSince(m, t) => now > t + Window
    BY <2>1 DEF RecordedSince, SeenIds
  <2>3. ~RecordedSince(m, stamp[m])
    BY <1>1, <1>6, <2>1, <2>2, WindowNat
  <2>4. CASE passes[m] = 0
    <3>1. passes'[m] = 1
      BY <2>1, <2>4
    <3>2. CASE stamp[m] <= now
      BY <1>1, <1>3, <1>6, <2>1, <3>1, <3>2, RecordedNow
      DEF PassesAccounted, WindowInv
    <3>3. CASE stamp[m] > now
      <4>1. stamp[m] - Window <= now
        BY <1>1, <1>6, <2>1, WindowNat
      <4>2. RecordedSince(m, stamp[m] - Window)'
        BY <1>1, <1>2, <1>6, <4>1, RecordedNow DEF WindowInv
      <4>. QED
        BY <1>1, <1>3, <1>6, <2>1, <3>1, <3>3, <4>2 DEF PassesAccounted
    <3>. QED
      BY <1>1, <1>6, <3>2, <3>3
  <2>5. CASE passes[m] = 1
    \* It came ahead of its stamp, and that has passed since.
    <3>1. m \in ahead /\ RecordedSince(m, stamp[m] - Window)
      BY <1>1, <1>6, <2>3, <2>5 DEF PassesAccounted
    <3>2. now > (stamp[m] - Window) + Window
      BY <1>2, <1>6, <2>2, <3>1
    <3>3. RecordedSince(m, stamp[m])'
      BY <1>1, <1>6, <3>2, WindowNat, RecordedNow DEF WindowInv
    <3>4. passes'[m] = 2
      BY <2>1, <2>5
    <3>. QED
      BY <1>1, <1>3, <1>4, <1>6, <2>1, <3>1, <3>3, <3>4 DEF PassesAccounted
  <2>6. passes[m] = 0 \/ passes[m] = 1
    BY <1>1, <1>6, <2>3 DEF PassesAccounted
  <2>. QED
    BY <2>4, <2>5, <2>6
<1>. QED
  BY <1>5, <1>6

\* The account survives a tick, a new message and a stutter.
LEMMA OthersKeep ==
  ASSUME WindowInv, ~overflowed, NEW k \in Message,
         Tick \/ (\E m \in Message, t \in 0 .. MaxTime : Send(m, t))
           \/ UNCHANGED replayVars
  PROVE  PassesAccounted(k)'
<1>1. PassesAccounted(k) /\ now \in Nat /\ stamp[k] \in Int
  BY DEF WindowInv, ReplayTypeOK
<1>2. CASE Tick
  <2>1. /\ UNCHANGED <<stamp, seen, passes, ahead>> /\ now' = now + 1
        /\ Sent' = Sent
    BY <1>2 DEF Tick, Sent
  <2>2. \A t \in Int : RecordedSince(k, t) => RecordedSince(k, t)'
    BY <1>1, <2>1, WindowNat DEF RecordedSince
  <2>3. stamp[k] - Window \in Int
    BY <1>1, WindowNat
  <2>4. /\ RecordedSince(k, stamp[k]) => RecordedSince(k, stamp[k])'
        /\ RecordedSince(k, stamp[k] - Window) =>
             RecordedSince(k, stamp[k] - Window)'
    BY <1>1, <2>1, <2>2, <2>3
  <2>. QED
    BY <1>1, <2>1, <2>4 DEF PassesAccounted
<1>3. ASSUME NEW m \in Message, NEW t \in 0 .. MaxTime, Send(m, t)
      PROVE  PassesAccounted(k)'
  <2>1. UNCHANGED <<now, seen, passes, ahead>>
    BY <1>3 DEF Send
  <2>2. CASE k \in Sent
    <3>1. k \in Sent' /\ stamp'[k] = stamp[k]
      BY <1>3, <2>2 DEF WindowInv, ReplayTypeOK, Send, Sent
    <3>. QED
      BY <1>1, <2>1, <3>1 DEF PassesAccounted, RecordedSince
  <2>3. CASE k \notin Sent
    BY <1>1, <2>1, <2>3 DEF PassesAccounted
  <2>. QED
    BY <2>2, <2>3
<1>4. CASE UNCHANGED replayVars
  BY <1>1, <1>4 DEF replayVars, PassesAccounted, RecordedSince, Sent
<1>. QED
  BY <1>2, <1>3, <1>4

\* As long as the cache is large enough for the messages of one window, no
\* message passes the replay check three times, and none passes it twice
\* unless it first came ahead of the time it bears.
THEOREM ReplaySafe == ReplaySpec => []ReplaysBounded
<1>1. ReplayInit => WindowInv
  <2>1. ReplayInit => \A m \in Message : passes[m] = 0
    BY DEF ReplayInit
  <2>. QED
    BY <2>1, ReplayInitType DEF WindowInv, PassesAccounted
<1>2. WindowInv /\ [ReplayNext]_replayVars => WindowInv'
  <2>. SUFFICES ASSUME WindowInv, [ReplayNext]_replayVars PROVE WindowInv'
    OBVIOUS
  <2>1. ReplayTypeOK'
    BY ReplayNextType DEF WindowInv
  <2>2. ASSUME ~overflowed', NEW k \in Message
        PROVE  PassesAccounted(k)'
    <3>1. CASE \E m \in Message : CheckAndRecord(m)
      BY <2>2, <3>1, RecordKeeps
    <3>2. CASE Tick \/ (\E m \in Message, t \in 0 .. MaxTime : Send(m, t))
                 \/ UNCHANGED replayVars
      <4>1. ~overflowed
        BY <2>2, <3>2 DEF Tick, Send, replayVars
      <4>. QED
        BY <3>2, <4>1, OthersKeep
    <3>. QED
      BY <3>1, <3>2 DEF ReplayNext
  <2>. QED
    BY <2>1, <2>2 DEF WindowInv
<1>3. WindowInv => ReplaysBounded
  <2>. SUFFICES ASSUME WindowInv, ~overflowed, NEW m \in Message
                PROVE  passes[m] <= 2 /\ (passes[m] = 2 => m \in ahead)
    BY DEF ReplaysBounded
  <2>1. passes[m] \in 0 .. 3 /\ PassesAccounted(m)
    BY DEF WindowInv, ReplayTypeOK
  <2>. QED
    BY <2>1 DEF PassesAccounted
<1>. QED
  BY <1>1, <1>2, <1>3, PTL DEF ReplaySpec

-----------------------------------------------------------------------------
(***************************************************************************)
(* The cache keeps its size and holds no id twice.                         *)
(***************************************************************************)
CacheInv == ReplayTypeOK /\ CacheBounded /\ IsFiniteSet(seen)

\* check_and_record keeps the cache finite, within its maximum, and without
\* doubles.
LEMMA RecordCache ==
  ASSUME CacheInv, NEW m \in Message, CheckAndRecord(m)
  PROVE  CacheBounded' /\ IsFiniteSet(seen')
<1>. DEFINE fresh == EvictExpired(seen)
            new == [id |-> m, at |-> now]
            these == fresh \cup {new}
<1>1. fresh \subseteq seen
  BY DEF EvictExpired
<1>2. IsFiniteSet(fresh) /\ Cardinality(fresh) <= Cardinality(seen)
  BY <1>1, FS_Subset DEF CacheInv
<1>3. new \notin fresh
  BY <1>1 DEF CheckAndRecord, SeenIds
<1>4. /\ IsFiniteSet(these)
      /\ Cardinality(these) = Cardinality(fresh) + 1
  BY <1>2, <1>3, FS_AddElement
<1>5. Cardinality(seen) \in Nat /\ Cardinality(fresh) \in Nat
  BY <1>2, FS_CardinalityType DEF CacheInv
<1>6. EvictOldest(these)
  BY DEF CheckAndRecord
<1>7. \A e, f \in these : e.id = f.id => e = f
  BY <1>1 DEF CacheInv, CacheBounded, CheckAndRecord, SeenIds
<1>. HIDE DEF fresh, new, these
<1>8. CASE Cardinality(these) <= MaxCache /\ seen' = these
  BY <1>4, <1>7, <1>8 DEF CacheBounded
<1>9. CASE \E e \in these : seen' = these \ {e}
  <2>1. PICK e \in these : seen' = these \ {e}
    BY <1>9
  <2>2. IsFiniteSet(seen') /\ Cardinality(seen') = Cardinality(these) - 1
    BY <1>4, <2>1, FS_RemoveElement
  <2>3. Cardinality(seen') <= MaxCache
    BY <1>2, <1>4, <1>5, <2>2, MaxCacheNat DEF CacheInv, CacheBounded
  <2>. QED
    BY <1>7, <2>1, <2>2, <2>3 DEF CacheBounded
<1>. QED
  BY <1>6, <1>8, <1>9 DEF EvictOldest

\* However many messages arrive, the cache holds at most MaxCache ids, each
\* of them once.
THEOREM CacheSafe == ReplaySpec => []CacheBounded
<1>1. ReplayInit => CacheInv
  <2>1. IsFiniteSet({}) /\ Cardinality({}) = 0
    BY FS_EmptySet
  <2>. QED
    BY <2>1, ReplayInitType, MaxCacheNat DEF ReplayInit, CacheInv, CacheBounded
<1>2. CacheInv /\ [ReplayNext]_replayVars => CacheInv'
  <2>. SUFFICES ASSUME CacheInv, [ReplayNext]_replayVars PROVE CacheInv'
    OBVIOUS
  <2>1. ReplayTypeOK'
    BY ReplayNextType DEF CacheInv
  <2>2. CASE \E m \in Message : CheckAndRecord(m)
    BY <2>1, <2>2, RecordCache DEF CacheInv
  <2>3. CASE UNCHANGED seen
    BY <2>1, <2>3 DEF CacheInv, CacheBounded
  <2>. QED
    BY <2>2, <2>3 DEF ReplayNext, Tick, Send, replayVars
<1>3. CacheInv => CacheBounded
  BY DEF CacheInv
<1>. QED
  BY <1>1, <1>2, <1>3, PTL DEF ReplaySpec

-----------------------------------------------------------------------------
(***************************************************************************)
(* FileStores: no revocation is forgotten and no object lost.              *)
(***************************************************************************)

\* All stores are empty at first.
LEMMA FileInitInv == FileInit => FileInv
<1>. SUFFICES ASSUME FileInit PROVE FileInv
  OBVIOUS
<1>1. Index(<<>>) = NoIndex /\ AddressesOnce(<<>>) /\ <<>> \in Seq(Entry)
  BY DEF Index, NoIndex, PlacesOf, AddressesOnce
<1>2. \A f \in Store \cup Cid : files[f] = NoFile
  BY DEF FileInit
<1>3. "revocations" \in Store /\ "registry" \in Store
  BY DEF Store
<1>4. FileTypeOK
  BY <1>1, <1>2, <1>3 DEF FileTypeOK, FileInit
<1>5. Loaded("registry", <<>>) = <<>> /\ Loaded("revocations", {}) = {}
  BY <1>2, <1>3 DEF Loaded
<1>. QED
  BY <1>1, <1>4, <1>5 DEF FileInv, FileInit, RevocationsNotForgotten,
    KeptUntilDeleted, FileHasRevocations, FileHasAddressesOnce, Saving

\* Of places there is a last one.
LEMMA HasLast ==
  ASSUME NEW n \in Nat, NEW T \in SUBSET (1 .. n), T # {}
  PROVE \E i \in T : \A j \in T : j <= i
<1>. DEFINE R == OpToRel(<, Nat)
            U == {n - i : i \in T}
<1>1. \A i \in T : i \in 1 .. n /\ n - i \in Nat
  OBVIOUS
<1>2. U \subseteq Nat /\ U # {}
  <2>1. PICK i : i \in T
    OBVIOUS
  <2>2. n - i \in U
    BY <2>1
  <2>. QED
    BY <1>1, <2>2
<1>3. IsWellFoundedOn(R, Nat)
  BY NatLessThanWellFounded
<1>4. PICK x \in U : \A y \in U : ~ (<<y, x>> \in R)
  <2>. HIDE DEF R, U
  <2>. QED BY <1>2, <1>3, WFMin
<1>5. \A y \in U : ~ (y < x)
  <2>1. \A y \in U : <<y, x>> \in R <=> y < x
    BY <1>2 DEF OpToRel
  <2>. QED
    BY <1>4, <2>1
<1>6. PICK i \in T : x = n - i
  BY <1>4
<1>7. ASSUME NEW j \in T PROVE j <= i
  <2>1. ~ (n - j < n - i)
    BY <1>5, <1>6
  <2>. QED
    BY <2>1, <1>1
<1>. QED
  BY <1>7

\* An entry at the end is the last one of its object and of no other.
LEMMA IndexOfAppend ==
  ASSUME NEW es \in Seq(Entry), NEW c \in Cid, NEW o \in Object
  PROVE  Index(Append(es, [cid |-> c, object |-> o])) = [Index(es) EXCEPT ![o] = c]
<1>. DEFINE e == [cid |-> c, object |-> o]
            more == Append(es, e)
<1>1. /\ DOMAIN es = 1 .. Len(es) /\ Len(es) \in Nat
      /\ DOMAIN more = 1 .. Len(es) + 1
      /\ \A i \in DOMAIN es : more[i] = es[i]
      /\ more[Len(es) + 1] = e
  BY DEF Entry
<1>2. ASSUME NEW p \in Object
      PROVE  Index(more)[p] = IF p = o THEN c ELSE Index(es)[p]
  <2>1. CASE p = o
    <3>1. PlacesOf(more, o) \subseteq 1 .. Len(es) + 1 /\ Len(es) + 1 \in PlacesOf(more, o)
      BY <1>1 DEF PlacesOf
    <3>2. LastPlace(more, o) = Len(es) + 1
      <4>1. \A i \in PlacesOf(more, o) :
              (\A j \in PlacesOf(more, o) : j <= i) <=> i = Len(es) + 1
        BY <3>1, <1>1
      <4>. QED
        BY <4>1, <3>1 DEF LastPlace
    <3>. QED
      BY <2>1, <3>1, <3>2, <1>1 DEF Index
  <2>2. CASE p # o
    <3>1. PlacesOf(more, p) = PlacesOf(es, p)
      <4>1. Len(es) + 1 \notin PlacesOf(more, p) /\ Len(es) + 1 \notin PlacesOf(es, p)
        BY <2>2, <1>1 DEF PlacesOf
      <4>2. \A i \in 1 .. Len(es) : i \in PlacesOf(more, p) <=> i \in PlacesOf(es, p)
        BY <1>1 DEF PlacesOf
      <4>. QED
        BY <4>1, <4>2, <1>1 DEF PlacesOf
    <3>2. LastPlace(more, p) = LastPlace(es, p)
      BY <3>1 DEF LastPlace
    <3>3. CASE PlacesOf(es, p) # {}
      <4>1. \E i \in PlacesOf(es, p) : \A j \in PlacesOf(es, p) : j <= i
        BY <3>3, HasLast, <1>1 DEF PlacesOf
      <4>2. LastPlace(es, p) \in DOMAIN es
        BY <4>1 DEF LastPlace, PlacesOf
      <4>. QED
        BY <4>2, <3>1, <3>2, <3>3, <2>2, <1>1 DEF Index
    <3>4. CASE PlacesOf(es, p) = {}
      BY <3>4, <3>1, <2>2 DEF Index
    <3>. QED
      BY <3>3, <3>4
  <2>. QED
    BY <2>1, <2>2
<1>. QED
  BY <1>2 DEF Index

\* The files that are there.
LEMMA Names ==
  /\ "revocations" \in Store /\ "registry" \in Store
  /\ "revocations" \notin Cid /\ "registry" \notin Cid
  /\ \A f \in Store \cup Cid : f \notin Cid => f = "revocations" \/ f = "registry"
BY CidsAreNoStores DEF Store

\* What a store reads from its file.
LEMMA LoadedTyped ==
  ASSUME FileTypeOK
  PROVE  /\ Loaded("revocations", {}) \subseteq Entity
         /\ Loaded("registry", <<>>) \in Seq(Entry)
BY DEF FileTypeOK, Loaded

\* Opening reads what is acknowledged, and an index of what is read.
LEMMA OpenKeeps ==
  ASSUME FileInv, OpenRevocations \/ OpenRegistry
  PROVE  FileInv'
<1>1. CASE OpenRevocations
  <2>1. FileTypeOK'
    BY <1>1, LoadedTyped, Names DEF FileInv, FileTypeOK, OpenRevocations, Index, PlacesOf, LastPlace,
      AddressesOnce
  <2>2. RevocationsNotForgotten' /\ Saving'
    BY <1>1 DEF FileInv, OpenRevocations, RevocationsNotForgotten, FileHasRevocations, Saving
  <2>. QED
    BY <1>1, <2>1, <2>2 DEF FileInv, OpenRevocations, KeptUntilDeleted, FileHasRevocations,
      FileHasAddressesOnce, Readable, Loaded, AddressesOnce
<1>2. CASE OpenRegistry
  <2>1. FileTypeOK'
    <3>1. AddressesOnce(entries')
      BY <1>2 DEF OpenRegistry, FileInv, FileHasAddressesOnce
    <3>2. byObject' = Index(entries')
      BY <1>2 DEF OpenRegistry
    <3>3. entries' \in Seq(Entry)
      BY <1>2, LoadedTyped DEF OpenRegistry, FileInv
    <3>. HIDE DEF AddressesOnce, Index
    <3>. QED
      BY <1>2, <3>1, <3>2, <3>3, Names DEF FileInv, FileTypeOK, OpenRegistry
  <2>2. RevocationsNotForgotten' /\ Saving'
    BY <1>2 DEF FileInv, OpenRegistry, RevocationsNotForgotten, Saving, Store
  <2>. QED
    BY <1>2, <2>1, <2>2 DEF FileInv, OpenRegistry, KeptUntilDeleted, FileHasRevocations,
      FileHasAddressesOnce, Readable, Loaded, AddressesOnce
<1>. QED
  BY <1>1, <1>2

\* A revocation is in memory before it is written.
LEMMA RevokeKeeps ==
  ASSUME FileInv, NEW e \in Entity, Revoke(e)
  PROVE  FileInv'
<1>1. FileTypeOK'
  <2>1. [file |-> "revocations", item |-> e] \in [file : Store \cup Cid, item : Entity \cup Cid]
    BY Names
  <2>. QED
    BY <2>1 DEF FileInv, FileTypeOK, Revoke, Save, Index, PlacesOf, LastPlace, AddressesOnce
<1>2. RevocationsNotForgotten'
  BY DEF FileInv, Revoke, RevocationsNotForgotten
<1>3. Saving'
  BY Names DEF Revoke, Save, Saving
<1>. QED
  BY <1>1, <1>2, <1>3 DEF FileInv, Revoke, KeptUntilDeleted, FileHasRevocations,
    FileHasAddressesOnce, Readable, Loaded, AddressesOnce

\* A new address is found by its object.
LEMMA RegisterKeeps ==
  ASSUME FileInv, NEW c \in Cid, NEW o \in Object, Register(c, o)
  PROVE  FileInv'
<1>. DEFINE e == [cid |-> c, object |-> o]
<1>1. FileTypeOK'
  <2>1. [file |-> "registry", item |-> c] \in [file : Store \cup Cid, item : Entity \cup Cid]
    BY Names
  <2>2. e \in Entry /\ entries \in Seq(Entry) /\ entries' = Append(entries, e)
    BY DEF FileInv, FileTypeOK, Register, Entry
  <2>3. AddressesOnce(entries')
    <3>1. AddressesOnce(entries) /\ \A i \in DOMAIN entries : entries[i].cid # c
      BY DEF FileInv, FileTypeOK, Register, Registered
    <3>2. /\ DOMAIN entries = 1 .. Len(entries) /\ Len(entries) \in Nat
          /\ DOMAIN entries' = 1 .. Len(entries) + 1
          /\ \A i \in DOMAIN entries : entries'[i] = entries[i]
          /\ entries'[Len(entries) + 1] = e
      <4>. HIDE DEF e
      <4>. QED
        BY <2>2
    <3>3. SUFFICES ASSUME NEW i \in DOMAIN entries', NEW j \in DOMAIN entries',
                          entries'[i].cid = entries'[j].cid
                   PROVE  i = j
      BY DEF AddressesOnce
    <3>4. /\ i \in DOMAIN entries \/ i = Len(entries) + 1
          /\ j \in DOMAIN entries \/ j = Len(entries) + 1
      BY <3>2
    <3>. QED
      BY <3>1, <3>2, <3>3, <3>4 DEF AddressesOnce
  <2>4. byObject' = Index(entries')
    BY <2>2, IndexOfAppend DEF Register, FileInv, FileTypeOK
  <2>5. entries' \in Seq(Entry)
    BY <2>2
  <2>. QED
    BY <2>1, <2>3, <2>4, <2>5 DEF FileInv, FileTypeOK, Register, Save
<1>2. RevocationsNotForgotten'
  BY DEF FileInv, Register, RevocationsNotForgotten
<1>3. Saving'
  BY Names DEF Register, Save, Saving
<1>. QED
  BY <1>1, <1>2, <1>3 DEF FileInv, Register, KeptUntilDeleted, FileHasRevocations,
    FileHasAddressesOnce, Readable, Loaded, AddressesOnce

\* An object is only written if its file does not exist.
LEMMA PutKeeps ==
  ASSUME FileInv, NEW c \in Cid, Put(c)
  PROVE  FileInv'
<1>1. FileTypeOK'
  <2>1. [file |-> c, item |-> c] \in [file : Store \cup Cid, item : Entity \cup Cid]
    OBVIOUS
  <2>. QED
    BY <2>1 DEF FileInv, FileTypeOK, Put, Save, Index, PlacesOf, LastPlace, AddressesOnce
<1>2. RevocationsNotForgotten'
  BY DEF FileInv, Put, RevocationsNotForgotten
<1>3. Saving'
  BY Names, ContentIsAFile DEF Put, Save, Saving, FileInv, KeptUntilDeleted
<1>. QED
  BY <1>1, <1>2, <1>3 DEF FileInv, Put, KeptUntilDeleted, FileHasRevocations,
    FileHasAddressesOnce, Readable, Loaded, AddressesOnce

\* A step that changes one file leaves the others, and what is read from them.
LEMMA OtherFiles ==
  ASSUME FileInv, NEW f \in Store \cup Cid, NEW content,
         files' = [files EXCEPT ![f] = content]
  PROVE  /\ DOMAIN files' = Store \cup Cid /\ files'[f] = content
         /\ \A g \in (Store \cup Cid) \ {f} :
              /\ files'[g] = files[g]
              /\ Readable(g)' <=> Readable(g)
              /\ \A empty : Loaded(g, empty)' = Loaded(g, empty)
<1>1. /\ DOMAIN files' = Store \cup Cid /\ files'[f] = content
      /\ \A g \in (Store \cup Cid) \ {f} : files'[g] = files[g]
  BY DEF FileInv, FileTypeOK
<1>. QED
  BY <1>1 DEF Readable, Loaded

\* A deleted object is no longer to be kept.
LEMMA DeleteKeeps ==
  ASSUME FileInv, NEW c \in Cid, Delete(c)
  PROVE  FileInv'
<1>1. files' = [files EXCEPT ![c] = NoFile]
  BY DEF Delete
<1>2. /\ DOMAIN files' = Store \cup Cid /\ files'[c] = NoFile
      /\ \A g \in (Store \cup Cid) \ {c} :
           /\ files'[g] = files[g]
           /\ Readable(g)' <=> Readable(g)
           /\ \A empty : Loaded(g, empty)' = Loaded(g, empty)
  BY <1>1, OtherFiles
<1>3. c # "revocations" /\ c # "registry"
  BY Names
<1>4. FileTypeOK'
  BY <1>2, <1>3, Names
    DEF FileInv, FileTypeOK, Delete, Index, PlacesOf, LastPlace, AddressesOnce
<1>5. RevocationsNotForgotten' /\ KeptUntilDeleted' /\ Saving'
  BY <1>2 DEF FileInv, FileTypeOK, Delete, RevocationsNotForgotten, KeptUntilDeleted, Saving
<1>6. FileHasRevocations' /\ FileHasAddressesOnce'
  BY <1>2, <1>3, Names DEF FileInv, Delete, FileHasRevocations, FileHasAddressesOnce, AddressesOnce
<1>. QED
  BY <1>4, <1>5, <1>6 DEF FileInv

\* The file that is cut short is not that of an object to be kept.
LEMMA TruncateKeeps ==
  ASSUME FileInv, TruncateFile
  PROVE  FileInv'
<1>. DEFINE f == saving.file
<1>1. f \in Store \cup Cid /\ files' = [files EXCEPT ![f] = Partial]
  BY DEF TruncateFile, FileInv, FileTypeOK
<1>2. /\ DOMAIN files' = Store \cup Cid /\ files'[f] = Partial
      /\ \A g \in (Store \cup Cid) \ {f} :
           /\ files'[g] = files[g]
           /\ Readable(g)' <=> Readable(g)
           /\ \A empty : Loaded(g, empty)' = Loaded(g, empty)
  BY <1>1, OtherFiles
<1>. HIDE DEF f
<1>3. FileTypeOK'
  BY <1>1, <1>2, Names
    DEF FileInv, FileTypeOK, TruncateFile, Index, PlacesOf, LastPlace, AddressesOnce
<1>4. KeptUntilDeleted'
  <2>1. f \in Cid => f \notin kept
    BY DEF f, FileInv, TruncateFile, Saving
  <2>. QED
    BY <1>1, <1>2, <2>1 DEF FileInv, FileTypeOK, TruncateFile, KeptUntilDeleted
<1>5. RevocationsNotForgotten' /\ Saving'
  BY DEF FileInv, TruncateFile, RevocationsNotForgotten, Saving
<1>6. FileHasRevocations'
  <2>1. f = "revocations" => ~Readable("revocations")'
    BY <1>2 DEF Readable
  <2>. QED
    BY <1>1, <1>2, <2>1, Names DEF FileInv, TruncateFile, FileHasRevocations
<1>7. FileHasAddressesOnce'
  <2>1. f = "registry" => Loaded("registry", <<>>)' = <<>>
    BY <1>2 DEF Loaded
  <2>. QED
    BY <1>1, <1>2, <2>1, Names DEF FileInv, TruncateFile, FileHasAddressesOnce, AddressesOnce
<1>. QED
  BY <1>3, <1>4, <1>5, <1>6, <1>7 DEF FileInv

\* What is written is in memory, and acknowledged only then.
LEMMA WriteKeeps ==
  ASSUME FileInv, WriteFile
  PROVE  FileInv'
<1>. DEFINE f == saving.file
            i == saving.item
<1>1. /\ f \in Store \cup Cid /\ i \in Entity \cup Cid
      /\ files' = [files EXCEPT ![f] = WholeContent(f)]
  BY DEF WriteFile, FileInv, FileTypeOK
<1>2. /\ DOMAIN files' = Store \cup Cid /\ files'[f] = WholeContent(f)
      /\ \A g \in (Store \cup Cid) \ {f} :
           /\ files'[g] = files[g]
           /\ Readable(g)' <=> Readable(g)
           /\ \A empty : Loaded(g, empty)' = Loaded(g, empty)
  BY <1>1, OtherFiles
<1>3. /\ f = "revocations" => "revocations" \in open /\ i \in revoked
      /\ f \in Cid => i = f /\ f \notin kept
  BY DEF FileInv, WriteFile, Saving
<1>4. /\ acked' = IF f = "revocations" THEN acked \cup {i} ELSE acked
      /\ kept' = IF f \in Cid THEN kept \cup {i} ELSE kept
      /\ saving' = None
      /\ open' = open /\ revoked' = revoked /\ entries' = entries /\ byObject' = byObject
  BY DEF WriteFile
<1>5. /\ open \subseteq Store /\ revoked \subseteq Entity
      /\ acked \subseteq Entity /\ kept \subseteq Cid
      /\ entries \in Seq(Entry) /\ AddressesOnce(entries) /\ byObject = Index(entries)
      /\ files["revocations"] \in {NoFile, Partial} \cup SUBSET Entity
      /\ files["registry"] \in {NoFile, Partial} \cup Seq(Entry)
      /\ \A c \in Cid : files[c] \in {NoFile, Partial, Content}
  BY DEF FileInv, FileTypeOK
<1>6. /\ f = "revocations" => WholeContent(f) = revoked
      /\ f = "registry" => WholeContent(f) = entries
      /\ f \in Cid => WholeContent(f) = Content
  BY Names DEF WholeContent
<1>. HIDE DEF f, i
<1>7. FileTypeOK'
  <2>1. acked' \subseteq Entity /\ kept' \subseteq Cid
    BY <1>3, <1>4, <1>5
  <2>2. files'["revocations"] \in {NoFile, Partial} \cup SUBSET Entity
    BY <1>1, <1>2, <1>5, <1>6, Names
  <2>3. files'["registry"] \in {NoFile, Partial} \cup Seq(Entry)
    BY <1>1, <1>2, <1>5, <1>6, Names
  <2>4. \A c \in Cid : files'[c] \in {NoFile, Partial, Content}
    BY <1>1, <1>2, <1>5, <1>6, Names
  <2>. QED
    BY <1>2, <1>4, <1>5, <2>1, <2>2, <2>3, <2>4 DEF FileTypeOK
<1>8. RevocationsNotForgotten'
  BY <1>3, <1>4 DEF FileInv, RevocationsNotForgotten
<1>9. KeptUntilDeleted'
  BY <1>1, <1>2, <1>3, <1>4, <1>5, <1>6 DEF FileInv, KeptUntilDeleted
<1>10. FileHasRevocations'
  <2>1. CASE f = "revocations"
    <3>1. Loaded("revocations", {})' = revoked
      BY <1>2, <1>5, <1>6, <2>1, SetsAreFiles DEF Loaded
    <3>2. acked \cup {i} \subseteq revoked
      BY <1>3, <2>1 DEF FileInv, RevocationsNotForgotten
    <3>. QED
      BY <1>4, <2>1, <3>1, <3>2 DEF FileHasRevocations
  <2>2. CASE f # "revocations"
    BY <1>2, <1>4, <2>2, Names DEF FileInv, FileHasRevocations
  <2>. QED
    BY <2>1, <2>2
<1>11. FileHasAddressesOnce'
  <2>1. CASE f = "registry"
    <3>1. Loaded("registry", <<>>)' \in {<<>>, entries}
      BY <1>2, <1>6, <2>1 DEF Loaded
    <3>. QED
      BY <1>5, <3>1 DEF FileHasAddressesOnce, AddressesOnce
  <2>2. CASE f # "registry"
    BY <1>2, <1>4, <2>2, Names DEF FileInv, FileHasAddressesOnce, AddressesOnce
  <2>. QED
    BY <2>1, <2>2
<1>12. Saving'
  BY <1>4 DEF Saving
<1>. QED
  BY <1>7, <1>8, <1>9, <1>10, <1>11, <1>12 DEF FileInv

\* A failed write and a crash lose memory, no file.
LEMMA FailureKeeps ==
  ASSUME FileInv, WriteFails \/ CrashOfFiles
  PROVE  FileInv'
<1>1. CASE WriteFails
  BY <1>1 DEF FileInv, FileTypeOK, WriteFails, RevocationsNotForgotten, KeptUntilDeleted,
    FileHasRevocations, FileHasAddressesOnce, Readable, Loaded, AddressesOnce, Saving,
    Index, PlacesOf, LastPlace
<1>2. CASE CrashOfFiles
  <2>1. Index(<<>>) = NoIndex /\ AddressesOnce(<<>>) /\ <<>> \in Seq(Entry)
    BY DEF Index, NoIndex, PlacesOf, AddressesOnce
  <2>2. FileTypeOK'
    BY <1>2, <2>1 DEF FileInv, FileTypeOK, CrashOfFiles
  <2>. QED
    BY <1>2, <2>2 DEF FileInv, CrashOfFiles, RevocationsNotForgotten, KeptUntilDeleted,
      FileHasRevocations, FileHasAddressesOnce, Readable, Loaded, AddressesOnce, Saving
<1>. QED
  BY <1>1, <1>2

\* Every step keeps the invariant.
THEOREM FileStep == FileInv /\ [FileNext]_fileVars => FileInv'
<1>. SUFFICES ASSUME FileInv, [FileNext]_fileVars PROVE FileInv'
  OBVIOUS
<1>1. CASE UNCHANGED fileVars
  BY <1>1 DEF FileInv, FileTypeOK, fileVars, RevocationsNotForgotten, KeptUntilDeleted,
    FileHasRevocations, FileHasAddressesOnce, Readable, Loaded, AddressesOnce, Saving,
    Index, PlacesOf, LastPlace
<1>2. CASE FileNext
  BY <1>2, OpenKeeps, RevokeKeeps, RegisterKeeps, PutKeeps, DeleteKeeps, TruncateKeeps,
    WriteKeeps, FailureKeeps DEF FileNext
<1>. QED
  BY <1>1, <1>2

\* For any number of entities, objects and addresses, with writes that fail
\* and crashes at every moment: FileInv.
THEOREM FilesInductive == FileSpec => []FileInv
BY FileInitInv, FileStep, PTL DEF FileSpec

\* FileTypeOK: the registry has an address once, and its index is the one that
\* reading the file again would give.
THEOREM FilesTypeCorrect == FileSpec => []FileTypeOK
<1>1. FileInv => FileTypeOK
  BY DEF FileInv
<1>. QED
  BY <1>1, FilesInductive, PTL

\* RevocationsNotForgotten: a revocation that returned is known to every store
\* that can be opened later.
THEOREM RevocationsSafe == FileSpec => []RevocationsNotForgotten
<1>1. FileInv => RevocationsNotForgotten
  BY DEF FileInv
<1>. QED
  BY <1>1, FilesInductive, PTL

\* KeptUntilDeleted: an object that was stored stays whole until it is deleted.
THEOREM ObjectsSafe == FileSpec => []KeptUntilDeleted
<1>1. FileInv => KeptUntilDeleted
  BY DEF FileInv
<1>. QED
  BY <1>1, FilesInductive, PTL

-----------------------------------------------------------------------------
(***************************************************************************)
(* Credentials: only revocation and expiry change a verdict.               *)
(***************************************************************************)

\* There are no rows and no tokens at first.
LEMMA CredentialInitInv == CredentialInit => CredentialInv
<1>1. 0 \in Reading /\ 0 \in 0 .. MaxMappings
  BY CredentialBounds DEF Reading
<1>. QED
  BY <1>1 DEF CredentialInit, CredentialInv, CredentialTypeOK, TokensAgree, Issued

\* What a step does to the rows: a revocation that is written, a row that is
\* new, or nothing.
RowRevoked ==
  \E w \in DOMAIN revoking :
    /\ DOMAIN awards' = Issued
    /\ awards'[revoking[w]] = [awards[revoking[w]] EXCEPT !.revoked_at = reading]
    /\ \A d \in Issued \ {revoking[w]} : awards'[d] = awards[d]

RowSaved ==
  \E c \in DOMAIN signing :
    /\ DOMAIN awards' = Issued \cup {c}
    /\ awards'[c] = [issue_date         |-> reading,
                     expiry_date        |-> signing[c].expires,
                     credential_subject |-> signing[c].subject,
                     credential_hash    |-> signing[c],
                     revoked_at         |-> Never]
    /\ \A d \in Issued : awards'[d] = awards[d]

\* Each action changes the rows in one of these ways.
LEMMA RowsAfter ==
  ASSUME CredentialInv, CredentialNext
  PROVE  RowRevoked \/ RowSaved \/ awards' = awards
<1>1. ASSUME NEW c \in Award, SaveCredential(c) PROVE RowSaved
  BY <1>1 DEF SaveCredential, With, RowSaved, CredentialInv, CredentialTypeOK, Issued
<1>2. ASSUME NEW w \in Clerk, WriteRevocation(w) PROVE RowRevoked
  BY <1>2 DEF WriteRevocation, RowRevoked, CredentialInv, CredentialTypeOK, Issued
<1>. QED
  BY <1>1, <1>2 DEF CredentialNext, ClockTicks, MapCompetency, SignCredential, ExportToken,
    LoadForRevocation

\* Rows stay, apart from the date of revocation; no revocation is undone.
LEMMA RowsStay ==
  ASSUME CredentialInv, [CredentialNext]_credentialVars
  PROVE  /\ Issued \subseteq Issued'
         /\ \A c \in Issued :
              /\ awards'[c].expiry_date = awards[c].expiry_date
              /\ awards'[c].credential_hash = awards[c].credential_hash
              /\ RebuiltDocument(awards'[c]) = RebuiltDocument(awards[c])
              /\ IsRevoked(c) => IsRevoked(c)'
              /\ IsRevoked(c)' \/ awards'[c].revoked_at = awards[c].revoked_at
<1>1. \A c \in Issued : awards[c] \in AwardRow
  BY DEF CredentialInv, CredentialTypeOK
<1>2. reading # Never
  BY NeverIsNoTime DEF CredentialInv, CredentialTypeOK, Reading
<1>3. CASE awards' = awards
  BY <1>3 DEF Issued, IsRevoked, RebuiltDocument
<1>4. CASE RowSaved
  BY <1>4 DEF RowSaved, Issued, IsRevoked, RebuiltDocument
<1>5. CASE RowRevoked
  <2>1. PICK w \in DOMAIN revoking :
          /\ DOMAIN awards' = Issued
          /\ awards'[revoking[w]] = [awards[revoking[w]] EXCEPT !.revoked_at = reading]
          /\ \A d \in Issued \ {revoking[w]} : awards'[d] = awards[d]
    BY <1>5 DEF RowRevoked
  <2>2. revoking[w] \in Issued
    BY DEF CredentialInv, CredentialTypeOK
  <2>. DEFINE c == revoking[w]
  <2>3. /\ awards'[c].expiry_date = awards[c].expiry_date
        /\ awards'[c].credential_hash = awards[c].credential_hash
        /\ awards'[c].issue_date = awards[c].issue_date
        /\ awards'[c].credential_subject = awards[c].credential_subject
        /\ awards'[c].revoked_at = reading
    BY <1>1, <2>1, <2>2 DEF AwardRow
  <2>. HIDE DEF c
  <2>. QED
    BY <1>2, <2>1, <2>2, <2>3 DEF Issued, IsRevoked, RebuiltDocument, c
<1>. QED
  BY <1>3, <1>4, <1>5, RowsAfter DEF credentialVars

\* Types, action by action.
LEMMA CredentialTypeStep ==
  ASSUME CredentialInv, [CredentialNext]_credentialVars
  PROVE  CredentialTypeOK'
<1>1. CredentialTypeOK
  BY DEF CredentialInv
<1>2. CASE ClockTicks \/ MapCompetency \/ UNCHANGED credentialVars
  BY <1>1, <1>2, CredentialBounds
    DEF CredentialTypeOK, ClockTicks, MapCompetency, Reading, Issued, credentialVars
<1>3. ASSUME NEW c \in Award, NEW expiry \in Reading \cup {Never}, SignCredential(c, expiry)
      PROVE  CredentialTypeOK'
  <2>. DEFINE document == [issued |-> reading, expires |-> expiry, subject |-> competencies]
  <2>1. document \in Document
    BY <1>1 DEF CredentialTypeOK, Document
  <2>. HIDE DEF document
  <2>2. /\ DOMAIN signing' = DOMAIN signing \cup {c}
        /\ \A d \in DOMAIN signing' :
             signing'[d] = IF d = c THEN document ELSE signing[d]
    BY <1>3 DEF SignCredential, With, document
  <2>. QED
    BY <1>1, <1>3, <2>1, <2>2 DEF CredentialTypeOK, SignCredential, Issued
<1>4. ASSUME NEW c \in Award, SaveCredential(c)
      PROVE  CredentialTypeOK'
  <2>. DEFINE row == [issue_date         |-> reading,
                      expiry_date        |-> signing[c].expires,
                      credential_subject |-> signing[c].subject,
                      credential_hash    |-> signing[c],
                      revoked_at         |-> Never]
  <2>1. row \in AwardRow
    BY <1>1, <1>4 DEF CredentialTypeOK, SaveCredential, AwardRow, Document
  <2>. HIDE DEF row
  <2>2. /\ DOMAIN awards' = DOMAIN awards \cup {c}
        /\ \A d \in DOMAIN awards' : awards'[d] = IF d = c THEN row ELSE awards[d]
        /\ DOMAIN signing' = DOMAIN signing \ {c}
        /\ \A d \in DOMAIN signing' : signing'[d] = signing[d]
    BY <1>4 DEF SaveCredential, With, Without, row
  <2>. QED
    BY <1>1, <1>4, <2>1, <2>2 DEF CredentialTypeOK, SaveCredential, Issued
<1>5. ASSUME NEW w \in Clerk, NEW c \in Award, LoadForRevocation(w, c)
      PROVE  CredentialTypeOK'
  BY <1>1, <1>5 DEF CredentialTypeOK, LoadForRevocation, Issued, With
<1>6. ASSUME NEW w \in Clerk, WriteRevocation(w)
      PROVE  CredentialTypeOK'
  <2>1. /\ revoking[w] \in Issued /\ awards[revoking[w]] \in AwardRow
        /\ reading \in Reading
    BY <1>1, <1>6 DEF CredentialTypeOK, WriteRevocation
  <2>2. [awards[revoking[w]] EXCEPT !.revoked_at = reading] \in AwardRow
    BY <2>1 DEF AwardRow
  <2>3. /\ DOMAIN awards' = DOMAIN awards
        /\ \A d \in DOMAIN awards' : awards'[d] \in AwardRow
    BY <1>1, <1>6, <2>1, <2>2 DEF CredentialTypeOK, WriteRevocation, Issued
  <2>4. /\ DOMAIN revoking' = DOMAIN revoking \ {w}
        /\ \A v \in DOMAIN revoking' : revoking'[v] = revoking[v]
    BY <1>6 DEF WriteRevocation, Without
  <2>. QED
    BY <1>1, <1>6, <2>3, <2>4 DEF CredentialTypeOK, WriteRevocation, Issued
<1>7. ASSUME NEW c \in Award, ExportToken(c)
      PROVE  CredentialTypeOK'
  <2>1. [credential |-> c, revoked |-> IsRevoked(c)] \in [credential : Issued, revoked : BOOLEAN]
    BY <1>7 DEF ExportToken, IsRevoked
  <2>. QED
    BY <1>1, <1>7, <2>1 DEF CredentialTypeOK, ExportToken, Issued
<1>. QED
  BY <1>2, <1>3, <1>4, <1>5, <1>6, <1>7 DEF CredentialNext

\* Every step keeps the invariant.
LEMMA CredentialStep ==
  ASSUME CredentialInv, [CredentialNext]_credentialVars
  PROVE  CredentialInv'
<1>1. /\ Issued \subseteq Issued'
      /\ \A c \in Issued : IsRevoked(c) => IsRevoked(c)'
  BY RowsStay
<1>2. TokensAgree'
  <2>1. \A t \in tokens : t.credential \in Issued
    BY DEF CredentialInv, CredentialTypeOK
  <2>2. ASSUME NEW c \in Award, ExportToken(c), NEW t \in tokens' \ tokens, t.revoked
        PROVE  IsRevoked(t.credential)'
    <3>1. t = [credential |-> c, revoked |-> IsRevoked(c)] /\ c \in Issued
      BY <2>2 DEF ExportToken
    <3>2. t.credential = c /\ IsRevoked(c)
      BY <2>2, <3>1
    <3>. QED
      BY <1>1, <3>1, <3>2
  <2>3. tokens' = tokens \/ \E c \in Award : ExportToken(c)
    BY DEF CredentialNext, ClockTicks, MapCompetency, SignCredential, SaveCredential,
      LoadForRevocation, WriteRevocation, credentialVars
  <2>. QED
    BY <1>1, <2>1, <2>2, <2>3 DEF CredentialInv, TokensAgree
<1>. QED
  BY <1>2, CredentialTypeStep DEF CredentialInv

\* Types, and that tokens agree with the rows.
THEOREM CredentialsInductive == CredentialSpec => []CredentialInv
<1>1. CredentialInv /\ [CredentialNext]_credentialVars => CredentialInv'
  BY CredentialStep
<1>. QED
  BY <1>1, CredentialInitInv, PTL DEF CredentialSpec

\* VerdictsStand: for any number of credentials, clerks and competencies, a
\* credential verifies from when it is issued until it is revoked or expires,
\* or never; and none of which a token says that it is revoked does.
THEOREM VerdictsSafe == CredentialSpec => VerdictsStand
<1>1. CredentialInv /\ CredentialNext => KeepsVerdicts
  <2>. SUFFICES ASSUME CredentialInv, CredentialNext PROVE KeepsVerdicts
    OBVIOUS
  <2>1. /\ reading \in Int /\ reading' \in Int /\ reading <= reading'
        /\ \A c \in Issued : awards[c].expiry_date \in Int \cup {Never}
    <3>1. reading \in Int /\ \A c \in Issued : awards[c].expiry_date \in Int \cup {Never}
      BY DEF CredentialInv, CredentialTypeOK, AwardRow, Reading
    <3>2. reading' = reading \/ reading' = reading + 1
      BY DEF CredentialNext, ClockTicks, MapCompetency, SignCredential, SaveCredential,
        ExportToken, LoadForRevocation, WriteRevocation
    <3>. QED
      BY <3>1, <3>2
  <2>2. /\ Issued \subseteq Issued'
        /\ \A c \in Issued :
             /\ awards'[c].expiry_date = awards[c].expiry_date
             /\ awards'[c].credential_hash = awards[c].credential_hash
             /\ RebuiltDocument(awards'[c]) = RebuiltDocument(awards[c])
             /\ IsRevoked(c) => IsRevoked(c)'
             /\ IsRevoked(c)' \/ awards'[c].revoked_at = awards[c].revoked_at
    BY RowsStay
  <2>3. ASSUME NEW c \in Issued, Verifies(c)'
        PROVE  Verifies(c)
    BY <2>1, <2>2, <2>3 DEF Verifies, Expired
  <2>4. ASSUME NEW c \in Issued, Verifies(c), ~IsRevoked(c)', ~Expired(awards[c])'
        PROVE  Verifies(c)'
    BY <2>2, <2>4 DEF Verifies
  <2>5. ASSUME NEW t \in tokens, t.revoked
        PROVE  ~Verifies(t.credential)'
    BY <2>2, <2>5 DEF CredentialInv, CredentialTypeOK, TokensAgree, Verifies
  <2>. QED
    BY <2>3, <2>4, <2>5 DEF KeepsVerdicts
<1>2. CredentialInv /\ [CredentialNext]_credentialVars => [KeepsVerdicts]_credentialVars
  BY <1>1
<1>. QED
  BY <1>2, CredentialsInductive, PTL DEF CredentialSpec, VerdictsStand

-----------------------------------------------------------------------------
(***************************************************************************)
(* Attestations: stored verdicts hold.                                     *)
(***************************************************************************)

\* Rows keep their types, and keys are not lost.
LEMMA AttestationTypeStep ==
  AttestationTypeOK /\ [AttestationNext]_attestationVars =>
    AttestationTypeOK' /\ KnownKeys \subseteq KnownKeys'
<1>. SUFFICES ASSUME AttestationTypeOK, [AttestationNext]_attestationVars
              PROVE  AttestationTypeOK' /\ KnownKeys \subseteq KnownKeys'
  OBVIOUS
<1>1. /\ DOMAIN reviewerKeys \subseteq SigningPair
      /\ reviewerKeys \in [KnownKeys -> Signer]
  BY DEF AttestationTypeOK, KnownKeys
<1>2. ASSUME NEW r \in Signer, NEW p \in SigningPair, RegisterKey(r, p)
      PROVE  AttestationTypeOK' /\ KnownKeys \subseteq KnownKeys'
  <2>1. /\ reviewerKeys' \in [KnownKeys \cup {p} -> Signer]
        /\ KnownKeys' = KnownKeys \cup {p}
    BY <1>1, <1>2 DEF RegisterKey, KnownKeys
  <2>2. reviewerKeys' \in UNION {[K -> Signer] : K \in SUBSET SigningPair}
    <3>1. KnownKeys \cup {p} \in SUBSET SigningPair
      BY <1>1 DEF KnownKeys
    <3>. QED
      BY <2>1, <3>1
  <2>. QED
    BY <1>2, <2>1, <2>2 DEF AttestationTypeOK, RegisterKey
<1>3. ASSUME NEW r \in Signer, NEW p \in SigningPair, NEW c \in AttestedClaim,
             SignPayload(p, c, r)
      PROVE  AttestationTypeOK' /\ KnownKeys \subseteq KnownKeys'
  BY <1>3 DEF AttestationTypeOK, KnownKeys, SignPayload, SigningPayload, Payload, Signature
<1>4. ASSUME NEW r \in Signer, NEW p \in SigningPair, NEW c \in AttestedClaim,
             NEW signature \in signatures, CreateAttestation(c, p, r, signature)
      PROVE  AttestationTypeOK' /\ KnownKeys \subseteq KnownKeys'
  <2>. DEFINE a == [key                |-> p,
                    signed_payload     |-> SigningPayload(c, r),
                    reviewer_signature |-> signature,
                    signature_verified |->
                      VerifySignature(p, SigningPayload(c, r), signature)]
  <2>1. a \in Attestation
    BY DEF Attestation, AttestationTypeOK, Payload, SigningPayload, VerifySignature
  <2>2. attestations' = attestations \cup {a} /\ a.key \in KnownKeys
    BY <1>4 DEF CreateAttestation
  <2>. HIDE DEF a
  <2>. QED
    BY <1>4, <2>1, <2>2 DEF AttestationTypeOK, CreateAttestation, KnownKeys
<1>5. CASE UNCHANGED attestationVars
  BY <1>5 DEF AttestationTypeOK, KnownKeys, attestationVars
<1>. QED
  BY <1>2, <1>3, <1>4, <1>5 DEF AttestationNext

\* There are no keys, signatures and attestations at first.
LEMMA AttestationInitType == AttestationInit => AttestationTypeOK
<1>1. [p \in {} |-> 0] \in [{} -> Signer] /\ {} \in SUBSET SigningPair
  OBVIOUS
<1>. QED
  BY <1>1 DEF AttestationInit, AttestationTypeOK, KnownKeys

\* AttestationTypeOK, for any number of reviewers, keys and claims.
THEOREM AttestationsTypeCorrect == AttestationSpec => []AttestationTypeOK
BY AttestationInitType, AttestationTypeStep, PTL DEF AttestationSpec

\* AttestationsHold: however keys are registered and signatures are made
\* later, an attestation verifies again as it did when it was stored.
THEOREM AttestationsSafe == AttestationSpec => []AttestationsHold
<1>1. AttestationInit => AttestationsHold
  BY DEF AttestationInit, AttestationsHold
<1>2. AttestationTypeOK /\ AttestationsHold /\ [AttestationNext]_attestationVars =>
        AttestationsHold'
  <2>. SUFFICES ASSUME AttestationTypeOK, AttestationsHold,
                       [AttestationNext]_attestationVars
                PROVE  AttestationsHold'
    OBVIOUS
  <2>1. \A a \in attestations : VerifyAttestation(a)' = VerifyAttestation(a)
    BY AttestationTypeStep DEF VerifyAttestation, VerifySignature, AttestationTypeOK
  <2>2. ASSUME NEW r \in Signer, NEW p \in SigningPair, NEW c \in AttestedClaim,
               NEW signature \in signatures, CreateAttestation(c, p, r, signature),
               NEW a \in attestations' \ attestations
        PROVE  a.signature_verified = VerifyAttestation(a)'
    <3>. DEFINE payload == SigningPayload(c, r)
                verdict == VerifySignature(p, payload, signature)
    <3>1. a = [key |-> p, signed_payload |-> payload, reviewer_signature |-> signature,
               signature_verified |-> verdict]
      BY <2>2 DEF CreateAttestation
    <3>2. p \in KnownKeys' /\ verdict \in BOOLEAN
      BY <2>2, AttestationTypeStep DEF CreateAttestation, VerifySignature
    <3>. HIDE DEF payload, verdict
    <3>3. /\ a.key = p /\ a.signed_payload = payload
          /\ a.reviewer_signature = signature /\ a.signature_verified = verdict
      BY <3>1
    <3>4. VerifyAttestation(a)' <=> VerifySignature(p, payload, signature)
      BY <3>2, <3>3 DEF VerifyAttestation, VerifySignature
    <3>5. VerifyAttestation(a)' \in BOOLEAN
      BY DEF VerifyAttestation, VerifySignature
    <3>. QED
      BY <3>2, <3>3, <3>4, <3>5 DEF verdict
  <2>3. \/ attestations' = attestations
        \/ \E r \in Signer, p \in SigningPair, c \in AttestedClaim :
             \E signature \in signatures : CreateAttestation(c, p, r, signature)
    BY DEF AttestationNext, RegisterKey, SignPayload, attestationVars
  <2>. QED
    BY <2>1, <2>2, <2>3 DEF AttestationsHold
<1>. QED
  BY <1>1, <1>2, AttestationsTypeCorrect, PTL DEF AttestationSpec

-----------------------------------------------------------------------------
(***************************************************************************)
(* Archive: the past is final.                                             *)
(***************************************************************************)

\* An entry that is flushed has its types.
LEMMA RecordTyped ==
  ASSUME ArchiveTypeOK, NEW e \in ArchiveEntry, NEW text \in Given, Record(e, text)
  PROVE  ArchiveTypeOK'
<1>. DEFINE row == [subject_id   |-> Stripped(text),
                    content_hash |-> text,
                    timestamp    |-> stamps]
<1>1. row \in EntryRow
  BY DEF ArchiveTypeOK, EntryRow, Stripped, Given
<1>. HIDE DEF row
<1>2. /\ DOMAIN writing' = DOMAIN writing \cup {e}
      /\ \A f \in DOMAIN writing' : writing'[f] = IF f = e THEN row ELSE writing[f]
      /\ stamps' = stamps + 1 /\ archived' = archived /\ e \notin DOMAIN archived
  BY DEF Record, row
<1>. QED
  BY <1>1, <1>2 DEF ArchiveTypeOK

\* An entry that is committed keeps them.
LEMMA CommitTyped ==
  ASSUME ArchiveTypeOK, NEW e \in ArchiveEntry, CommitEntry(e) \/ RollbackEntry(e)
  PROVE  ArchiveTypeOK'
<1>1. /\ e \in DOMAIN writing /\ stamps' = stamps
      /\ DOMAIN writing' = DOMAIN writing \ {e}
      /\ \A f \in DOMAIN writing' : writing'[f] = writing[f]
  BY DEF CommitEntry, RollbackEntry, EndTransaction
<1>2. CASE CommitEntry(e)
  <2>1. /\ DOMAIN archived' = DOMAIN archived \cup {e}
        /\ \A f \in DOMAIN archived' :
             archived'[f] = IF f = e THEN writing[e] ELSE archived[f]
    BY <1>2 DEF CommitEntry
  <2>. QED
    BY <1>1, <2>1 DEF ArchiveTypeOK
<1>3. CASE RollbackEntry(e)
  BY <1>1, <1>3 DEF ArchiveTypeOK, RollbackEntry
<1>. QED
  BY <1>2, <1>3

\* Entries keep their types, for any number of entries and transactions.
THEOREM ArchiveTypeCorrect == ArchiveSpec => []ArchiveTypeOK
<1>1. ArchiveInit => ArchiveTypeOK
  BY DEF ArchiveInit, ArchiveTypeOK
<1>2. ArchiveTypeOK /\ [ArchiveNext]_archiveVars => ArchiveTypeOK'
  <2>1. ArchiveTypeOK /\ UNCHANGED archiveVars => ArchiveTypeOK'
    BY DEF ArchiveTypeOK, archiveVars
  <2>. QED
    BY <2>1, RecordTyped, CommitTyped DEF ArchiveNext
<1>. QED
  BY <1>1, <1>2, PTL DEF ArchiveSpec

\* What a commit adds when the past is settled: one entry that is later.
LEMMA CommitIsLater ==
  ASSUME ArchiveTypeOK, NEW e \in ArchiveEntry, CommitEntry(e),
         NEW time \in 0 .. stamps - 1, SettledUntil(time)
  PROVE  /\ DOMAIN archived' = DOMAIN archived \cup {e} /\ e \notin DOMAIN archived
         /\ \A f \in DOMAIN archived : archived'[f] = archived[f]
         /\ archived'[e].timestamp \in Nat /\ archived'[e].timestamp > time
BY DEF CommitEntry, EndTransaction, ArchiveTypeOK, EntryRow, SettledUntil

\* The entries before one that is not after the time are the same.
LEMMA EarlierStays ==
  ASSUME ArchiveTypeOK, NEW e \in ArchiveEntry, CommitEntry(e),
         NEW time \in 0 .. stamps - 1, SettledUntil(time),
         NEW these \in SUBSET DOMAIN archived,
         NEW more, more \in {these, these \cup {e}},
         NEW f \in DOMAIN archived, archived[f].timestamp <= time
  PROVE  {g \in more : archived'[g].timestamp < archived'[f].timestamp}
           = Earlier(these, f)
<1>1. /\ DOMAIN archived' = DOMAIN archived \cup {e} /\ e \notin DOMAIN archived
      /\ \A g \in DOMAIN archived : archived'[g] = archived[g]
      /\ archived'[e].timestamp \in Nat /\ archived'[e].timestamp > time
  BY CommitIsLater
<1>2. /\ archived[f].timestamp \in Nat
      /\ ~ (archived'[e].timestamp < archived'[f].timestamp)
  BY <1>1 DEF ArchiveTypeOK, EntryRow
<1>. QED
  BY <1>1, <1>2 DEF Earlier

\* A commit leaves the events until a settled time.
LEMMA EventsStay ==
  ASSUME ArchiveTypeOK, NEW e \in ArchiveEntry, CommitEntry(e),
         NEW time \in 0 .. stamps - 1, SettledUntil(time)
  PROVE  DoctrineEventsUntil(time)' = DoctrineEventsUntil(time)
<1>. DEFINE events == {f \in DOMAIN archived : archived[f].timestamp <= time}
<1>1. /\ DOMAIN archived' = DOMAIN archived \cup {e} /\ e \notin DOMAIN archived
      /\ \A f \in DOMAIN archived : archived'[f] = archived[f]
      /\ archived'[e].timestamp \in Nat /\ archived'[e].timestamp > time
  BY CommitIsLater
<1>2. {f \in DOMAIN archived' : archived'[f].timestamp <= time} = events
  BY <1>1
<1>3. ASSUME NEW f \in events
      PROVE  Earlier(events, f)' = Earlier(events, f)
  <2>1. {g \in events : archived'[g].timestamp < archived'[f].timestamp}
          = Earlier(events, f)
    BY EarlierStays
  <2>. QED
    BY <1>2, <2>1 DEF Earlier
<1>. QED
  BY <1>2, <1>3 DEF DoctrineEventsUntil

\* A commit leaves the histories until a settled time.
LEMMA HistoryStays ==
  ASSUME ArchiveTypeOK, NEW e \in ArchiveEntry, CommitEntry(e),
         NEW time \in 0 .. stamps - 1, SettledUntil(time), NEW subject \in Subject
  PROVE  Until(GetHistory(subject), time)' = Until(GetHistory(subject), time)
<1>. DEFINE about == EntriesAbout(subject)
<1>1. /\ DOMAIN archived' = DOMAIN archived \cup {e} /\ e \notin DOMAIN archived
      /\ \A f \in DOMAIN archived : archived'[f] = archived[f]
      /\ archived'[e].timestamp \in Nat /\ archived'[e].timestamp > time
  BY CommitIsLater
<1>2. about' \in {about, about \cup {e}} /\ about \subseteq DOMAIN archived
  BY <1>1 DEF EntriesAbout
<1>3. ASSUME NEW f \in about, archived[f].timestamp <= time
      PROVE  Earlier(about, f)' = Earlier(about, f)
  <2>1. {g \in about' : archived'[g].timestamp < archived'[f].timestamp}
          = Earlier(about, f)
    <3>. HIDE DEF about
    <3>. QED
      BY <1>2, <1>3, EarlierStays
  <2>. QED
    BY <2>1 DEF Earlier
<1>4. \A f \in about' : archived'[f].timestamp <= time =>
        f \in about /\ archived[f].timestamp <= time
  BY <1>1, <1>2
<1>5. \A f \in about : archived'[f] = archived[f] /\ f \in about'
  BY <1>1, <1>2
<1>. QED
  BY <1>3, <1>4, <1>5 DEF Until, GetHistory

\* PastIsFinal: for any number of these, subjects and open transactions,
\* the history of a subject up to a time, the events up to it and the
\* verdict on an entry are the same for ever once no transaction is open that
\* was stamped by then.
THEOREM PastIsSafe == ArchiveSpec => PastIsFinal
<1>1. ArchiveTypeOK /\ ArchiveNext => KeepsPast
  <2>. SUFFICES ASSUME ArchiveTypeOK, ArchiveNext PROVE KeepsPast
    OBVIOUS
  <2>1. CASE archived' = archived
    BY <2>1 DEF KeepsPast, DoctrineEventsUntil, Earlier, Until, GetHistory, EntriesAbout,
      VerifyEntryIntegrity
  <2>2. ASSUME NEW e \in ArchiveEntry, CommitEntry(e)
        PROVE  KeepsPast
    <3>1. \A f \in DOMAIN archived : VerifyEntryIntegrity(f)' = VerifyEntryIntegrity(f)
      BY <2>2 DEF CommitEntry, EndTransaction, ArchiveTypeOK, VerifyEntryIntegrity
    <3>2. \A time \in 0 .. stamps - 1 :
            SettledUntil(time) => DoctrineEventsUntil(time)' = DoctrineEventsUntil(time)
      BY <2>2, EventsStay
    <3>3. \A time \in 0 .. stamps - 1, subject \in Subject :
            SettledUntil(time) =>
              Until(GetHistory(subject), time)' = Until(GetHistory(subject), time)
      BY <2>2, HistoryStays
    <3>. QED
      BY <3>1, <3>2, <3>3 DEF KeepsPast
  <2>. QED
    BY <2>1, <2>2 DEF ArchiveNext, Record, RollbackEntry
<1>2. ArchiveTypeOK /\ [ArchiveNext]_archiveVars => [KeepsPast]_archiveVars
  BY <1>1
<1>. QED
  BY <1>2, ArchiveTypeCorrect, PTL DEF ArchiveSpec, PastIsFinal

-----------------------------------------------------------------------------
(***************************************************************************)
(* KeyStore: types.                                                        *)
(***************************************************************************)

USE MaxPairsNat, NoContents

\* The files of a call are those of a key, and their contents are of the
\* right type.
LEMMA CallTargets ==
  ASSUME KeyTypeOK, step \in 1 .. 6
  PROVE  /\ FileAt(step) \in {"private", "public", "meta"}
         /\ DirectoryAt(step) \in Directory
         /\ generated \in Pair
         /\ FileAt(step) = "meta" => ContentAt(step) \in 1 .. generated \cup {Missing, Cut}
         /\ FileAt(step) # "meta" => ContentAt(step) \in Pair \cup {Missing, Cut}
<1>1. FileAt(step) \in {"private", "public", "meta"}
  BY DEF FileAt
<1>2. generated \in Pair
  BY DEF KeyTypeOK, Pair
<1>3. CASE step \in 1 .. 3
  <2>1. DirectoryAt(step) = old.meta /\ ContentAt(step) = old[FileAt(step)]
    BY <1>3 DEF DirectoryAt, ContentAt, ArchiveId
  <2>2. old.meta \in 1 .. generated /\ old \in KeyFiles
    BY <1>3 DEF KeyTypeOK
  <2>. QED
    BY <1>1, <1>2, <2>1, <2>2 DEF Directory, Version, KeyFiles, Pair
<1>4. CASE step \in 4 .. 6
  <2>1. DirectoryAt(step) = Current /\ ContentAt(step) = KeyOf(generated)[FileAt(step)]
    BY <1>4 DEF DirectoryAt, ContentAt
  <2>2. versionOf[generated] \in 1 .. generated
    BY <1>2 DEF KeyTypeOK, Pair, Version
  <2>. QED
    BY <1>1, <1>2, <2>1, <2>2 DEF Directory, KeyOf
<1>. QED
  BY <1>3, <1>4

\* Writing one file keeps the types of all.
LEMMA FileTyped ==
  ASSUME KeyTypeOK, step \in 1 .. 6, NEW content,
         content = Cut \/ content = ContentAt(step),
         keyFiles' = [keyFiles EXCEPT ![DirectoryAt(step)][FileAt(step)] = content]
  PROVE  /\ keyFiles' \in [Directory -> KeyFiles]
         /\ \A d \in Directory : keyFiles'[d].meta \in 1 .. generated \cup {Missing, Cut}
<1>. DEFINE d == DirectoryAt(step)  f == FileAt(step)
<1>1. d \in Directory /\ f \in {"private", "public", "meta"}
  BY CallTargets
<1>2. /\ f = "meta" => content \in 1 .. generated \cup {Missing, Cut}
      /\ f # "meta" => content \in Pair \cup {Missing, Cut}
  BY CallTargets
<1>3. keyFiles \in [Directory -> KeyFiles] /\ generated \in 0 .. MaxPairs
  BY DEF KeyTypeOK
<1>4. 1 .. generated \subseteq Version
  BY <1>3 DEF Version
<1>5. [keyFiles[d] EXCEPT ![f] = content] \in KeyFiles
  BY <1>1, <1>2, <1>3, <1>4 DEF KeyFiles
<1>6. keyFiles' = [keyFiles EXCEPT ![d] = [keyFiles[d] EXCEPT ![f] = content]]
  OBVIOUS
<1>. HIDE DEF d, f
<1>7. keyFiles' \in [Directory -> KeyFiles]
  BY <1>1, <1>3, <1>5, <1>6
<1>8. ASSUME NEW e \in Directory
      PROVE  keyFiles'[e].meta \in 1 .. generated \cup {Missing, Cut}
  <2>1. CASE e = d
    BY <1>1, <1>2, <1>3, <1>6, <2>1 DEF KeyTypeOK, KeyFiles
  <2>2. CASE e # d
    BY <1>1, <1>3, <1>6, <2>2 DEF KeyTypeOK
  <2>. QED
    BY <2>1, <2>2
<1>. QED
  BY <1>7, <1>8

\* The start of a call keeps the types.
LEMMA StartTyped ==
  ASSUME KeyTypeOK, NEW version \in Version, version <= generated + 1,
         NEW first \in {1, 4}, NEW safe,
         first = 1 => keyFiles[Current].meta \in 1 .. generated,
         StartCall(version, first, safe)
  PROVE  KeyTypeOK'
<1>1. generated' = generated + 1 /\ generated + 1 \in Pair /\ generated \in Nat
  BY DEF StartCall, KeyTypeOK, Pair
<1>. DEFINE new == generated + 1
<1>2. /\ versionOf \in [Pair -> 0 .. generated]
      /\ versionOf' = [versionOf EXCEPT ![new] = version]
  BY DEF StartCall, KeyTypeOK
<1>3. version \in 0 .. new
  BY <1>1 DEF Version
<1>4. \A p \in Pair : versionOf[p] \in 0 .. new
  BY <1>1, <1>2
<1>5. versionOf' \in [Pair -> 0 .. generated']
  <2>1. versionOf' \in [Pair -> 0 .. new]
    <3>. HIDE DEF new
    <3>. QED
      BY <1>2, <1>3, <1>4
  <2>. QED
    BY <1>1, <2>1
<1>6. \A p \in 1 .. generated' : versionOf'[p] \in Version
  <2>1. \A p \in 1 .. generated : versionOf[p] \in Version
    BY DEF KeyTypeOK
  <2>2. \A p \in 1 .. generated' : p \in Pair /\ (p = new \/ p \in 1 .. generated)
    BY <1>1 DEF Pair
  <2>. HIDE DEF new
  <2>. QED
    BY <1>2, <2>1, <2>2
<1>7. keyFiles[Current] \in KeyFiles
      /\ keyFiles[Current].meta \in 1 .. generated \cup {Missing, Cut}
  BY DEF KeyTypeOK, Directory
<1>8. spoiled' \in BOOLEAN
  BY DEF StartCall, KeyTypeOK
<1>. QED
  BY <1>1, <1>5, <1>6, <1>7, <1>8 DEF StartCall, KeyTypeOK

\* Types hold, of every step.
THEOREM KeyTypeStep == KeyTypeOK /\ [KeyNext]_keyVars => KeyTypeOK'
<1>. SUFFICES ASSUME KeyTypeOK, [KeyNext]_keyVars PROVE KeyTypeOK'
  OBVIOUS
<1>1. CASE CreateKey
  <2>1. 1 \in Version /\ 1 <= generated + 1
    BY <1>1 DEF CreateKey, StartCall, KeyTypeOK, Version
  <2>. QED
    BY <1>1, <2>1, StartTyped DEF CreateKey
<1>2. CASE RotateKey
  <2>1. keyFiles[Current].meta \in 1 .. generated
    BY <1>2 DEF RotateKey, Loadable, KeyTypeOK, Directory
  <2>2. keyFiles[Current].meta + 1 \in Version /\ keyFiles[Current].meta + 1 <= generated + 1
    BY <1>2, <2>1 DEF RotateKey, StartCall, KeyTypeOK, Version
  <2>. QED
    BY <1>2, <2>1, <2>2, StartTyped DEF RotateKey
<1>3. CASE OpenFile
  <2>1. step \in 1 .. 6
    BY <1>3 DEF OpenFile, KeyTypeOK
  <2>2. /\ keyFiles' \in [Directory -> KeyFiles]
        /\ \A d \in Directory : keyFiles'[d].meta \in 1 .. generated \cup {Missing, Cut}
    BY <1>3, <2>1, FileTyped DEF OpenFile
  <2>. QED
    BY <1>3, <2>2 DEF OpenFile, KeyTypeOK
<1>4. CASE FillFile
  <2>1. step \in 1 .. 6
    BY <1>4 DEF FillFile, KeyTypeOK
  <2>2. /\ keyFiles' \in [Directory -> KeyFiles]
        /\ \A d \in Directory : keyFiles'[d].meta \in 1 .. generated \cup {Missing, Cut}
    BY <1>4, <2>1, FileTyped DEF FillFile
  <2>3. step' \in 0 .. 6 /\ (step' \in 1 .. 3 => step \in 1 .. 3)
    BY <1>4, <2>1 DEF FillFile
  <2>4. generated \in 1 .. MaxPairs /\ given \subseteq 1 .. generated
    BY <2>1 DEF KeyTypeOK
  <2>5. given' \subseteq 1 .. generated
    BY <1>4, <2>4 DEF FillFile
  <2>. QED
    BY <1>4, <2>1, <2>2, <2>3, <2>4, <2>5 DEF FillFile, KeyTypeOK
<1>5. CASE CrashOfKeys
  BY <1>5 DEF CrashOfKeys, KeyTypeOK
<1>6. CASE UNCHANGED keyVars
  BY <1>6 DEF keyVars, KeyTypeOK
<1>. QED
  BY <1>1, <1>2, <1>3, <1>4, <1>5, <1>6 DEF KeyNext

\* There are no files and no pairs at first.
LEMMA KeyInitTyped == ASSUME KeyInit PROVE KeyTypeOK
<1>1. NoKey \in KeyFiles /\ NoKey.meta = Missing
  BY DEF NoKey, KeyFiles
<1>2. keyFiles \in [Directory -> KeyFiles] /\ old \in KeyFiles
  BY <1>1 DEF KeyInit
<1>3. versionOf \in [Pair -> 0 .. generated] /\ generated = 0
  BY DEF KeyInit
<1>4. \A p \in 1 .. generated : versionOf[p] \in Version
  BY <1>3
<1>5. \A d \in Directory : keyFiles[d].meta \in 1 .. generated \cup {Missing, Cut}
  BY <1>1 DEF KeyInit
<1>6. /\ generated \in 0 .. MaxPairs /\ step = 0
      /\ old.meta \in 1 .. generated \cup {Missing, Cut}
  BY <1>1, <1>3 DEF KeyInit
<1>7. given \subseteq 1 .. generated /\ spoiled \in BOOLEAN
  BY DEF KeyInit
<1>. QED
  BY <1>2, <1>3, <1>4, <1>5, <1>6, <1>7 DEF KeyTypeOK

\* Files, pairs and calls of the key store keep their types.
THEOREM KeysTypeCorrect == KeySpec => []KeyTypeOK
<1>1. KeyInit => KeyTypeOK
  BY KeyInitTyped
<1>. QED
  BY <1>1, KeyTypeStep, PTL DEF KeySpec

-----------------------------------------------------------------------------
(***************************************************************************)
(* No key is lost: each step preserves KeyInv.                             *)
(***************************************************************************)

Unspoiled ==
  /\ KeysKept /\ NewestInUse /\ Archiving /\ Replacing
  /\ step # 0 => generated \notin given

\* A file that is written differs from what it was; all others stay.
LEMMA OneFile ==
  ASSUME KeyTypeOK, NEW d \in Directory, NEW f \in {"private", "public", "meta"},
         NEW content, keyFiles' = [keyFiles EXCEPT ![d][f] = content]
  PROVE  /\ keyFiles'[d][f] = content
         /\ \A g \in {"private", "public", "meta"} \ {f} : keyFiles'[d][g] = keyFiles[d][g]
         /\ \A e \in Directory \ {d} : keyFiles'[e] = keyFiles[e]
<1>1. keyFiles \in [Directory -> KeyFiles] /\ keyFiles[d] \in KeyFiles
  BY DEF KeyTypeOK
<1>2. keyFiles' = [keyFiles EXCEPT ![d] = [keyFiles[d] EXCEPT ![f] = content]]
  OBVIOUS
<1>3. keyFiles'[d] = [keyFiles[d] EXCEPT ![f] = content]
  BY <1>1, <1>2
<1>. QED
  BY <1>1, <1>2, <1>3 DEF KeyFiles

\* A key's directory is known by its files.
LEMMA ThreeFiles ==
  ASSUME NEW own \in KeyFiles, NEW p, own.private = p, own.public = p,
         own.meta = versionOf[p]
  PROVE  own = KeyOf(p)
BY DEF KeyFiles, KeyOf

\* A key that is created replaces none.
LEMMA CreateKeeps ==
  ASSUME KeyTypeOK, ~spoiled => Unspoiled, CreateKey, ~spoiled'
  PROVE  Unspoiled'
<1>1. given' = {} /\ step' = 4
  BY DEF CreateKey, StartCall
<1>. QED
  BY <1>1 DEF Unspoiled, KeysKept, NewestInUse, Archiving, Replacing

\* A rotation starts from the key in use.
LEMMA RotateKeeps ==
  ASSUME KeyTypeOK, ~spoiled => Unspoiled, RotateKey, ~spoiled'
  PROVE  Unspoiled'
<1>1. ~spoiled /\ Unspoiled /\ \E p \in 1 .. generated : Whole(Current, p)
  BY DEF RotateKey, StartCall
<1>2. PICK p \in 1 .. generated : keyFiles[Current] = KeyOf(p)
  BY <1>1 DEF Whole
<1>3. /\ keyFiles' = keyFiles /\ given' = given /\ step' = 1
      /\ old' = keyFiles[Current] /\ generated' = generated + 1
      /\ versionOf' = [versionOf EXCEPT ![generated + 1] = versionOf[p] + 1]
  BY <1>2 DEF RotateKey, StartCall, KeyOf
<1>4. /\ generated \in Nat /\ generated + 1 \in Pair /\ given \subseteq 1 .. generated
      /\ versionOf \in [Pair -> 0 .. generated] /\ 1 .. generated \subseteq Pair
  BY DEF RotateKey, StartCall, KeyTypeOK, Pair
<1>5. \A q \in 1 .. generated : versionOf'[q] = versionOf[q] /\ KeyOf(q)' = KeyOf(q)
  BY <1>3, <1>4 DEF KeyOf
<1>6. versionOf'[generated'] = versionOf'[p] + 1
  BY <1>3, <1>4, <1>5
<1>7. KeysKept'
  BY <1>1, <1>3, <1>4, <1>5 DEF Unspoiled, KeysKept, Whole, ArchiveId
<1>8. NewestInUse'
  <2>. SUFFICES ASSUME NEW q \in 1 .. generated', Whole(Current, q)',
                       NEW g \in given' \ {q}
                PROVE  versionOf'[g] < versionOf'[q]
    BY DEF NewestInUse
  <2>1. q = p
    BY <1>2, <1>3 DEF Whole, KeyOf
  <2>2. versionOf[g] < versionOf[p]
    BY <1>1, <1>2, <1>3, <2>1 DEF Unspoiled, NewestInUse, Whole
  <2>. QED
    BY <1>3, <1>4, <1>5, <2>1, <2>2
<1>9. Archiving'
  <2>1. p \in 1 .. generated' - 1
    BY <1>3, <1>4
  <2>2. Whole(Current, p)' /\ old' = KeyOf(p)'
    BY <1>2, <1>3, <1>5 DEF Whole
  <2>. QED
    BY <1>3, <1>6, <2>1, <2>2 DEF Archiving
<1>10. Replacing' /\ generated' \notin given'
  BY <1>3, <1>4 DEF Replacing
<1>. QED
  BY <1>7, <1>8, <1>9, <1>10 DEF Unspoiled

\* While the old key is archived under its version m, every other key given
\* out is archived elsewhere.
LEMMA OthersElsewhere ==
  ASSUME KeyTypeOK, ~spoiled, Unspoiled, NEW p \in 1 .. generated, Whole(Current, p),
         NEW g \in given \ {p}
  PROVE  /\ Whole(versionOf[g], g)
         /\ versionOf[g] \in Directory \ {Current, versionOf[p]}
         /\ versionOf[g] < versionOf[p]
<1>1. g \in 1 .. generated /\ versionOf[g] \in Version /\ versionOf[p] \in Version
  BY DEF KeyTypeOK
<1>2. versionOf[g] < versionOf[p]
  BY DEF Unspoiled, NewestInUse
<1>3. ~Whole(Current, g)
  BY DEF Whole, KeyOf
<1>4. Whole(versionOf[g], g)
  BY <1>3 DEF Unspoiled, KeysKept, ArchiveId
<1>. QED
  BY <1>1, <1>2, <1>4 DEF Version, Directory, Current

\* A step that writes into the archive.
LEMMA ArchiveWrite ==
  ASSUME KeyTypeOK, ~spoiled, Unspoiled, step \in 1 .. 3, OpenFile \/ FillFile
  PROVE  Unspoiled'
<1>0. PICK f \in {"private", "public", "meta"} : f = FileAt(step)
  BY DEF FileAt
<1>1. PICK p \in 1 .. generated - 1 :
        /\ Whole(Current, p) /\ old = KeyOf(p)
        /\ versionOf[generated] = versionOf[p] + 1
        /\ step > 1 => keyFiles[versionOf[p]].private = p
        /\ step > 2 => keyFiles[versionOf[p]].public = p
  BY DEF Unspoiled, Archiving
<1>2. /\ generated \in Pair /\ p \in 1 .. generated /\ generated \in 1 .. generated
      /\ versionOf[p] \in Version /\ generated \in Nat
  BY <1>1 DEF KeyTypeOK, Pair
<1>3. /\ DirectoryAt(step) = versionOf[p]
      /\ f \in {"private", "public", "meta"}
      /\ ContentAt(step) = KeyOf(p)[f]
  BY <1>0, <1>1 DEF DirectoryAt, ContentAt, FileAt, ArchiveId, KeyOf
<1>4. versionOf[p] \in Directory \ {Current}
  BY <1>2 DEF Directory, Version, Current
<1>5. keyFiles' = [keyFiles EXCEPT ![versionOf[p]][f] = Cut]
      \/ keyFiles' = [keyFiles EXCEPT ![versionOf[p]][f] = KeyOf(p)[f]]
  BY <1>0, <1>3 DEF OpenFile, FillFile
<1>6. /\ versionOf' = versionOf /\ generated' = generated /\ given' = given
      /\ old' = old /\ spoiled' = spoiled
      /\ step' = step \/ step' = step + 1
  BY DEF OpenFile, FillFile
<1>7. /\ \A e \in Directory \ {versionOf[p]} : keyFiles'[e] = keyFiles[e]
      /\ \A h \in {"private", "public", "meta"} \ {f} :
           keyFiles'[versionOf[p]][h] = keyFiles[versionOf[p]][h]
  <2>1. CASE keyFiles' = [keyFiles EXCEPT ![versionOf[p]][f] = Cut]
    BY <1>4, <2>1, OneFile
  <2>2. CASE keyFiles' = [keyFiles EXCEPT ![versionOf[p]][f] = KeyOf(p)[f]]
    BY <1>4, <2>2, OneFile
  <2>. QED
    BY <1>5, <2>1, <2>2
<1>8. Whole(Current, p)' /\ keyFiles'[Current] = keyFiles[Current]
  BY <1>1, <1>4, <1>6, <1>7 DEF Whole, KeyOf, Directory
<1>9. \A g \in given \ {p} : Whole(versionOf[g], g)' /\ versionOf[g] < versionOf[p]
  BY <1>1, <1>2, <1>6, <1>7, OthersElsewhere DEF Whole, KeyOf
<1>10. KeysKept'
  BY <1>6, <1>8, <1>9 DEF KeysKept, ArchiveId, Whole, KeyOf
<1>11. NewestInUse'
  <2>. SUFFICES ASSUME NEW q \in 1 .. generated, Whole(Current, q)', NEW g \in given \ {q}
                PROVE  versionOf[g] < versionOf[q]
    BY <1>6 DEF NewestInUse
  <2>1. q = p
    BY <1>8 DEF Whole, KeyOf
  <2>. QED
    BY <1>9, <2>1
<1>12. CASE OpenFile
  <2>1. step' = step
    BY <1>12 DEF OpenFile
  <2>2. /\ step > 1 => f # "private"
        /\ step > 2 => f # "public"
    BY <1>0 DEF FileAt
  <2>3. /\ step > 1 => keyFiles'[versionOf[p]].private = p
        /\ step > 2 => keyFiles'[versionOf[p]].public = p
    BY <1>1, <1>7, <2>2
  <2>4. Archiving'
    BY <1>1, <1>6, <1>8, <2>1, <2>3 DEF Archiving, KeyOf
  <2>. QED
    BY <1>6, <1>10, <1>11, <2>1, <2>4 DEF Unspoiled, Replacing
<1>13. CASE FillFile
  <2>1. step' = step + 1
    BY <1>13 DEF FillFile
  <2>2. keyFiles'[versionOf[p]][f] = KeyOf(p)[f]
    <3>1. keyFiles' = [keyFiles EXCEPT ![versionOf[p]][f] = KeyOf(p)[f]]
      BY <1>0, <1>3, <1>13 DEF FillFile
    <3>. QED
      BY <1>4, <3>1 DEF KeyTypeOK, KeyFiles
  <2>3. /\ step >= 1 => keyFiles'[versionOf[p]].private = p
        /\ step >= 2 => keyFiles'[versionOf[p]].public = p
        /\ step >= 3 => keyFiles'[versionOf[p]].meta = versionOf[p]
    <3>1. CASE step = 1
      BY <1>0, <2>2, <3>1 DEF FileAt, KeyOf
    <3>2. CASE step = 2
      BY <1>0, <1>1, <1>7, <2>2, <3>2 DEF FileAt, KeyOf
    <3>3. CASE step = 3
      BY <1>0, <1>1, <1>7, <2>2, <3>3 DEF FileAt, KeyOf
    <3>. QED
      BY <3>1, <3>2, <3>3
  <2>4. Archiving'
    BY <1>1, <1>6, <1>8, <2>1, <2>3 DEF Archiving, KeyOf
  <2>5. Replacing'
    <3>. SUFFICES ASSUME step' \in 4 .. 6
                  PROVE  /\ \A g \in given' :
                              Whole(versionOf[g], g)' /\ versionOf'[g] < versionOf'[generated']
                         /\ ~(step' > 4)
      BY DEF Replacing
    <3>1. step = 3 /\ step' = 4
      BY <2>1
    <3>2. keyFiles'[versionOf[p]] \in KeyFiles
      BY <1>4, <1>13, KeyTypeStep DEF KeyNext, KeyTypeOK
    <3>3. Whole(versionOf[p], p)'
      BY <1>6, <2>3, <3>1, <3>2, ThreeFiles DEF Whole, KeyOf
    <3>4. \A g \in given : versionOf[g] \in Nat /\ versionOf[g] <= versionOf[p]
      <4>1. \A g \in given : versionOf[g] \in Version
        BY DEF KeyTypeOK
      <4>. QED
        BY <1>2, <1>9, <4>1 DEF Version
    <3>. QED
      BY <1>1, <1>2, <1>6, <1>9, <3>1, <3>3, <3>4 DEF Version
  <2>. QED
    BY <1>6, <1>10, <1>11, <2>4, <2>5 DEF Unspoiled
<1>. QED
  BY <1>12, <1>13

\* A step that writes the new key.
LEMMA ReplaceWrite ==
  ASSUME KeyTypeOK, ~spoiled, Unspoiled, step \in 4 .. 6, OpenFile \/ FillFile
  PROVE  Unspoiled'
<1>0. PICK f \in {"private", "public", "meta"} : f = FileAt(step)
  BY DEF FileAt
<1>1. /\ \A g \in given :
           Whole(versionOf[g], g) /\ versionOf[g] < versionOf[generated]
      /\ step > 4 => keyFiles[Current].private = generated
      /\ step > 5 => keyFiles[Current].public = generated
      /\ generated \notin given
  BY DEF Unspoiled, Replacing
<1>2. /\ DirectoryAt(step) = Current /\ Current \in Directory
      /\ f \in {"private", "public", "meta"}
      /\ ContentAt(step) = KeyOf(generated)[f]
  BY <1>0 DEF DirectoryAt, ContentAt, FileAt, Directory
<1>3. /\ generated \in Nat /\ generated \in 1 .. generated /\ given \subseteq 1 .. generated
      /\ \A q \in 1 .. generated : versionOf[q] \in Version
  BY DEF KeyTypeOK
<1>4. /\ versionOf' = versionOf /\ generated' = generated /\ old' = old
      /\ spoiled' = spoiled
  BY DEF OpenFile, FillFile
<1>5. \A g \in given : versionOf[g] \in Directory \ {Current}
  BY <1>3 DEF Directory, Version, Current
<1>6. CASE OpenFile
  <2>1. step' = step /\ given' = given /\ keyFiles' = [keyFiles EXCEPT ![Current][f] = Cut]
    BY <1>0, <1>2, <1>6 DEF OpenFile
  <2>2. /\ keyFiles'[Current][f] = Cut
        /\ \A h \in {"private", "public", "meta"} \ {f} :
             keyFiles'[Current][h] = keyFiles[Current][h]
        /\ \A e \in Directory \ {Current} : keyFiles'[e] = keyFiles[e]
    BY <1>2, <2>1 DEF KeyTypeOK, KeyFiles
  <2>3. \A g \in given : Whole(versionOf[g], g)'
    BY <1>1, <1>4, <1>5, <2>2 DEF Whole, KeyOf
  <2>4. KeysKept'
    BY <1>4, <2>1, <2>3 DEF KeysKept, ArchiveId, Whole, KeyOf
  <2>5. \A q \in 1 .. generated : ~Whole(Current, q)'
    <3>. SUFFICES ASSUME NEW q \in 1 .. generated, keyFiles'[Current] = KeyOf(q)
                  PROVE  FALSE
      BY <1>4 DEF Whole, KeyOf
    <3>1. q \in Nat /\ versionOf[q] \in Nat
      BY <1>3 DEF Version
    <3>2. KeyOf(q)[f] \in Nat
      BY <1>2, <3>1 DEF KeyOf
    <3>. QED
      BY <2>2, <3>2
  <2>6. NewestInUse'
    BY <1>4, <2>5 DEF NewestInUse
  <2>7. /\ step > 4 => f # "private"
        /\ step > 5 => f # "public"
    BY <1>0 DEF FileAt
  <2>8. Replacing'
    BY <1>1, <1>4, <2>1, <2>2, <2>3, <2>7 DEF Replacing
  <2>. QED
    BY <1>1, <1>4, <2>1, <2>4, <2>6, <2>8 DEF Unspoiled, Archiving
<1>7. CASE FillFile
  <2>1. keyFiles' = [keyFiles EXCEPT ![Current][f] = KeyOf(generated)[f]]
    BY <1>0, <1>2, <1>7 DEF FillFile
  <2>2. /\ keyFiles'[Current][f] = KeyOf(generated)[f]
        /\ \A h \in {"private", "public", "meta"} \ {f} :
             keyFiles'[Current][h] = keyFiles[Current][h]
        /\ \A e \in Directory \ {Current} : keyFiles'[e] = keyFiles[e]
    BY <1>2, <2>1 DEF KeyTypeOK, KeyFiles
  <2>3. \A g \in given : Whole(versionOf[g], g)'
    BY <1>1, <1>4, <1>5, <2>2 DEF Whole, KeyOf
  <2>4. /\ keyFiles'[Current].private = generated
        /\ step >= 5 => keyFiles'[Current].public = generated
        /\ step >= 6 => keyFiles'[Current].meta = versionOf[generated]
    <3>1. CASE step = 4
      BY <1>0, <2>2, <3>1 DEF FileAt, KeyOf
    <3>2. CASE step = 5
      BY <1>0, <1>1, <2>2, <3>2 DEF FileAt, KeyOf
    <3>3. CASE step = 6
      BY <1>0, <1>1, <2>2, <3>3 DEF FileAt, KeyOf
    <3>. QED
      BY <3>1, <3>2, <3>3
  <2>5. \A q \in 1 .. generated : Whole(Current, q)' => q = generated
    BY <2>4 DEF Whole, KeyOf
  <2>6. CASE step < 6
    <3>1. step' = step + 1 /\ given' = given
      BY <1>7, <2>6 DEF FillFile
    <3>2. KeysKept'
      BY <1>4, <2>3, <3>1 DEF KeysKept, ArchiveId, Whole, KeyOf
    <3>3. NewestInUse'
      BY <1>1, <1>4, <2>5, <3>1 DEF NewestInUse
    <3>4. Replacing'
      BY <1>1, <1>4, <2>3, <2>4, <3>1 DEF Replacing
    <3>. QED
      BY <1>1, <1>4, <3>1, <3>2, <3>3, <3>4 DEF Unspoiled, Archiving
  <2>7. CASE step = 6
    <3>1. step' = 0 /\ given' = given \cup {generated}
      BY <1>7, <2>7 DEF FillFile
    <3>2. keyFiles'[Current] \in KeyFiles
      BY <1>2, <1>7, KeyTypeStep DEF KeyNext, KeyTypeOK
    <3>3. Whole(Current, generated)'
      BY <1>4, <2>4, <2>7, <3>2, ThreeFiles DEF Whole, KeyOf
    <3>4. KeysKept'
      BY <1>4, <2>3, <3>1, <3>3 DEF KeysKept, ArchiveId, Whole, KeyOf
    <3>5. NewestInUse'
      BY <1>1, <1>4, <2>5, <3>1 DEF NewestInUse
    <3>. QED
      BY <3>1, <3>4, <3>5 DEF Unspoiled, Archiving, Replacing
  <2>. QED
    BY <2>6, <2>7
<1>. QED
  BY <1>6, <1>7

\* A crash leaves all files.
LEMMA CrashKeeps ==
  ASSUME Unspoiled, CrashOfKeys
  PROVE  Unspoiled'
BY DEF CrashOfKeys, Unspoiled, KeysKept, NewestInUse, Archiving, Replacing, Whole, KeyOf, ArchiveId

\* Every reachable state satisfies the inductive invariant: the newest key is
\* in use, whole, until all keys that were given out are in the archive.
THEOREM KeysInductive == KeySpec => []KeyInv
<1>1. KeyInit => KeyInv
  <2>. SUFFICES ASSUME KeyInit PROVE KeyInv
    OBVIOUS
  <2>1. KeyTypeOK
    BY KeyInitTyped
  <2>2. given = {} /\ step = 0
    BY DEF KeyInit
  <2>. QED
    BY <2>1, <2>2 DEF KeyInv, KeysKept, NewestInUse, Archiving, Replacing
<1>2. KeyInv /\ [KeyNext]_keyVars => KeyInv'
  <2>. SUFFICES ASSUME KeyInv, [KeyNext]_keyVars PROVE KeyInv'
    OBVIOUS
  <2>1. KeyTypeOK /\ KeyTypeOK' /\ (~spoiled => Unspoiled)
    BY KeyTypeStep DEF KeyInv, Unspoiled
  <2>2. ASSUME ~spoiled' PROVE Unspoiled'
    <3>1. CASE CreateKey
      BY <2>1, <2>2, <3>1, CreateKeeps
    <3>2. CASE RotateKey
      BY <2>1, <2>2, <3>2, RotateKeeps
    <3>3. CASE OpenFile \/ FillFile
      <4>1. ~spoiled /\ step \in 1 .. 6
        BY <2>1, <2>2, <3>3 DEF OpenFile, FillFile, KeyTypeOK
      <4>2. step \in 1 .. 3 \/ step \in 4 .. 6
        BY <4>1
      <4>. QED
        BY <2>1, <3>3, <4>1, <4>2, ArchiveWrite, ReplaceWrite
    <3>4. CASE CrashOfKeys
      <4>1. ~spoiled
        BY <2>2, <3>4 DEF CrashOfKeys
      <4>. QED
        BY <2>1, <3>4, <4>1, CrashKeeps
    <3>5. CASE UNCHANGED keyVars
      <4>1. ~spoiled
        BY <2>2, <3>5 DEF keyVars
      <4>. QED
        BY <2>1, <3>5, <4>1 DEF keyVars, Unspoiled, KeysKept, NewestInUse, Archiving,
           Replacing, Whole, KeyOf, ArchiveId
    <3>. QED
      BY <3>1, <3>2, <3>3, <3>4, <3>5 DEF KeyNext
  <2>. QED
    BY <2>1, <2>2 DEF KeyInv, Unspoiled
<1>. QED
  BY <1>1, <1>2, PTL DEF KeySpec

\* For any number of key pairs and any crashes: a key that was given out is
\* whole on the disk until it is created anew or a rotation starts from mixed
\* files.
THEOREM KeysSafe == KeySpec => []KeysKept
<1>1. KeyInv => KeysKept
  BY DEF KeyInv, KeysKept
<1>. QED
  BY <1>1, KeysInductive, PTL
=============================================================================
