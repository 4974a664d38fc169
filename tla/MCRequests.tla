----------------------------- MODULE MCRequests ------------------------------
(***************************************************************************)
(* Small instances of the two modules in which everything that was begun   *)
(* has to end: the sessions of Registrations, which wait for each other's  *)
(* keys, and the loops and posts of SyncQueue.  They share no state, so a  *)
(* behaviour drives one of them.                                           *)
(***************************************************************************)
EXTENDS SyncQueue, Registrations

CONSTANTS a, b, c

\* Two that meet in their order of concepts, and one of a concept with itself.
MCTriple == {<<a, b>>, <<c, a>>, <<b, b>>}

VARIABLE part  \* the one that is driven

RequestsInit ==
  /\ Init /\ RegistrationInit
  /\ part \in {"queue", "registrations"}

\* The instance is full, and every request has ended.
Full ==
  /\ MaxRows <= CommittedRows /\ \A s \in Session : work[s] = NoWork
  /\ UNCHANGED registrationVars

RequestsNext ==
  \/ part = "queue" /\ Next /\ UNCHANGED <<registrationVars, part>>
  \/ part = "registrations" /\ (RegistrationNext \/ Full)
     /\ UNCHANGED <<vars, part>>

\* Nothing is promised of the part that is not driven: it can take no step.
RequestsSpec ==
  /\ RequestsInit /\ [][RequestsNext]_<<vars, registrationVars, part>>
  /\ \A l \in Loop : WF_vars(LoopStep(l))
  /\ \A s \in Session : SF_registrationVars(Progress(s))
=============================================================================
