---------------------------- MODULE ReplayWindow ----------------------------
(***************************************************************************)
(* ReplayProtection over time: message ids are remembered for the length   *)
(* of the acceptance window and forgotten afterwards, or earlier when the  *)
(* cache is full.  SyncQueue uses it with ids that are never forgotten;    *)
(* this module is about the forgetting.                                    *)
(*                                                                         *)
(* One time stands for the receiver's wall clock (time stamps) and its     *)
(* monotonic clock (_seen); they run at one rate and the wall clock is not *)
(* set back.  Senders' clocks may be late or ahead of it.                  *)
(***************************************************************************)
EXTENDS Integers, FiniteSets

CONSTANTS
  Message,    \* message ids
  Window,     \* UAE_FEDERATION_REPLAY_WINDOW_SECS
  MaxCache,   \* UAE_FEDERATION_NONCE_CACHE_SIZE
  MaxTime     \* bound on the clock

ASSUME WindowNat == Window \in Nat
ASSUME MaxCacheNat == MaxCache \in Nat

VARIABLES
  now,        \* the receiver's clock
  stamp,      \* the time stamp in the header of each message, -1 if not sent
  seen,       \* _seen: the remembered ids, with the time they were recorded
  passes,     \* how often each message passed the check, at most 3 (history)
  ahead,      \* those that passed it before the time they bear (history)
  overflowed  \* an id was dropped because the cache was full (history)

replayVars == <<now, stamp, seen, passes, ahead, overflowed>>

Sent == {m \in Message : stamp[m] # -1}
SeenIds == {e.id : e \in seen}

\* Clock and cache keep their types; no id is recorded in the future.
ReplayTypeOK ==
  /\ now \in Nat
  /\ stamp \in [Message -> Nat \cup {-1}]
  /\ seen \subseteq [id : Message, at : 0 .. now]
  /\ passes \in [Message -> 0 .. 3] /\ ahead \subseteq Message
  /\ overflowed \in BOOLEAN

ReplayInit ==
  /\ now = 0
  /\ stamp = [m \in Message |-> -1]
  /\ seen = {}
  /\ passes = [m \in Message |-> 0] /\ ahead = {}
  /\ overflowed = FALSE

Tick ==
  /\ now < MaxTime
  /\ now' = now + 1
  /\ UNCHANGED <<stamp, seen, passes, ahead, overflowed>>

\* A sender stamps a message with its own clock, whatever that says.
Send(m, t) ==
  /\ m \notin Sent /\ t \in Nat
  /\ stamp' = [stamp EXCEPT ![m] = t]
  /\ UNCHANGED <<now, seen, passes, ahead, overflowed>>

\* abs(now - msg_time) <= window_secs
InWindow(m) == now - stamp[m] <= Window /\ stamp[m] - now <= Window

\* Mutated form: an id as old as the window is forgotten too.
EvictExpiredEarly(entries) == {e \in entries : now - e.at < Window}

\* _evict_expired: entries are in the order of their times, so dropping old
\* ones from the front drops all that are older than the window.
EvictExpired(entries) == {e \in entries : ~(e.at < now - Window)}

\* popitem(last=False) until the cache fits; one id came in, so one goes out.
EvictOldest(entries) ==
  \/ /\ Cardinality(entries) <= MaxCache
     /\ seen' = entries /\ UNCHANGED overflowed
  \/ /\ Cardinality(entries) > MaxCache
     /\ \E e \in entries :
          /\ \A f \in entries : e.at <= f.at
          /\ seen' = entries \ {e}
     /\ overflowed' = TRUE

\* check_and_record on any copy of a message, however late; a copy outside
\* the window or with a remembered id is refused and changes nothing.
CheckAndRecord(m) ==
  /\ m \in Sent
  /\ InWindow(m)
  /\ m \notin SeenIds
  /\ passes' = [passes EXCEPT ![m] = IF @ < 3 THEN @ + 1 ELSE 3]
  /\ ahead' = IF stamp[m] > now THEN ahead \cup {m} ELSE ahead
  /\ EvictOldest(EvictExpired(seen) \cup {[id |-> m, at |-> now]})
  /\ UNCHANGED <<now, stamp>>

ReplayNext ==
  \/ Tick
  \/ \E m \in Message : CheckAndRecord(m) \/ \E t \in 0 .. MaxTime : Send(m, t)

ReplaySpec == ReplayInit /\ [][ReplayNext]_replayVars

-----------------------------------------------------------------------------
\* While the cache is large enough, a message passes the replay check once; or
\* twice, and then only because it first passed before the time it bears: its
\* id is remembered for one window from then, its copies pass for up to two.
ReplaysBounded ==
  ~overflowed => \A m \in Message :
                   passes[m] <= 2 /\ (passes[m] = 2 => m \in ahead)

\* docs/federation_transport_protocol.md:81, "message_id is stored until it ages
\* out of the window", and a copy is answered with 409: while the cache is
\* large enough no message passes the replay check again.
NeverTwice == ~overflowed => \A m \in Message : passes[m] <= 1

\* The cache never holds more than its maximum, nor an id twice.
CacheBounded ==
  /\ Cardinality(seen) <= MaxCache
  /\ \A e, f \in seen : e.id = f.id => e = f
=============================================================================
