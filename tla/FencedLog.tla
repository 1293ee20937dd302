------------------------------ MODULE FencedLog ------------------------------
(***************************************************************************)
(* What the VDSO contracts promise of each object, whoever writes it and   *)
(* whatever is paused, replaced or delayed: a log of executions with an    *)
(* exclusive claim on it.  An execution enters one log, once.  While an    *)
(* object is claimed, only its claim may write it, and ends with that      *)
(* write or with none.                                                     *)
(***************************************************************************)
EXTENDS Naturals, Sequences

CONSTANTS Logs, Entries, Claims, NoClaim

VARIABLES
  log,        \* what was applied to an object, in order
  claim,      \* the claim on an object
  outcome,    \* what became of a claim
  claimsMade  \* how often an object was claimed: the latest claim's token

vars == <<log, claim, outcome, claimsMade>>

Init ==
  /\ log = [o \in Logs |-> <<>>]
  /\ claim = [o \in Logs |-> NoClaim]
  /\ outcome = [c \in Claims |-> "none"]
  /\ claimsMade = [o \in Logs |-> 0]

Claim(o, c) ==
  /\ claim[o] = NoClaim
  /\ outcome[c] = "none"
  /\ claim' = [claim EXCEPT ![o] = c]
  /\ outcome' = [outcome EXCEPT ![c] = "open"]
  /\ claimsMade' = [claimsMade EXCEPT ![o] = @ + 1]
  /\ UNCHANGED log

New(e) == \A o \in Logs : \A n \in DOMAIN log[o] : log[o][n] # e

Apply(o, e) == New(e) /\ log' = [log EXCEPT ![o] = Append(@, e)]

Write(o, e) ==
  /\ claim[o] = NoClaim
  /\ Apply(o, e)
  /\ UNCHANGED <<claim, outcome, claimsMade>>

End(o, c, how) ==
  /\ claim[o] = c
  /\ outcome[c] = "open"
  /\ claim' = [claim EXCEPT ![o] = NoClaim]
  /\ outcome' = [outcome EXCEPT ![c] = how]
  /\ UNCHANGED claimsMade

Commit(o, c, e) == End(o, c, "committed") /\ Apply(o, e)

Abort(o, c) == End(o, c, "aborted") /\ UNCHANGED log

Next ==
  \E o \in Logs :
    \/ \E e \in Entries : Write(o, e)
    \/ \E c \in Claims : Claim(o, c) \/ Abort(o, c)
    \/ \E c \in Claims, e \in Entries : Commit(o, c, e)

Spec == Init /\ [][Next]_vars
=============================================================================
