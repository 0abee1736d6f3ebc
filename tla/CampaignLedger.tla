---------------------------- MODULE CampaignLedger ----------------------------
(***************************************************************************)
(* What campaign funding promises, and nothing about how: an approved      *)
(* donation adds its net to its campaign exactly once.  A step counts a    *)
(* set of donations none of which was counted before.                      *)
(***************************************************************************)
CONSTANTS
  Collections,  \* donations made to campaigns, by collection id
  Campaigns,
  Concept,      \* the campaign each donation was made to
  Net(_)        \* the net of a set of donations

VARIABLES ledger, raised

For(S, c) == {k \in S : Concept[k] = c}

Init ==
  /\ ledger = {}
  /\ raised = [c \in Campaigns |-> 0]

Count(S) ==
  /\ S \subseteq Collections \ ledger
  /\ ledger' = ledger \cup S
  /\ raised' = [c \in Campaigns |-> Net(For(ledger \cup S, c))]

Next == \E S \in SUBSET Collections : Count(S)

Spec == Init /\ [][Next]_<<ledger, raised>>
=============================================================================
