--------------------------- MODULE MCClaimLedger ----------------------------
(***************************************************************************)
(* A small instance of ClaimLedger for TLC, with two ways to be small: a   *)
(* behaviour edits one claim at length, or creates two and edits each a    *)
(* little.  Only the start of a request is bounded, never its steps.       *)
(***************************************************************************)
EXTENDS ClaimLedger, TLC

CONSTANTS
  c1,         \* the claim that is edited at length
  FewTargets  \* what overrides ask for where there are two claims

VARIABLE bound

AllStatuses == Status

LedgerInit == Init /\ bound \in {"one claim", "two claims"}

OneClaim ==
  \A s \in Session :
    /\ phase'[s] = "numbered" /\ phase[s] # "numbered" =>
         Existing = {} /\ Inserted(s) = {}
    /\ Inserted(s)' \subseteq {c1}

FewEdits ==
  \A s \in Session : phase[s] = "idle" /\ phase'[s] = "loaded" =>
    /\ edit'[s].seen = 0
    /\ edit'[s].by = "human" => edit'[s].new \in FewTargets

LedgerNext ==
  /\ Next
  /\ IF bound = "one claim" THEN OneClaim ELSE FewEdits
  /\ UNCHANGED bound

ledgerVars == <<vars, bound>>
LedgerSpec ==
  /\ LedgerInit /\ [][LedgerNext]_ledgerVars
  /\ \A s \in Session : SF_ledgerVars(SessionStep(s) /\ UNCHANGED bound)
=============================================================================
