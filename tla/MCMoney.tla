-------------------------------- MODULE MCMoney --------------------------------
(* Instances of the two components that handle a donation's money, checked *)
(* by one run: a behaviour is one of exactly one of them, part says of     *)
(* which, and the other stays as it began.                                 *)
EXTENDS Donations, CampaignFunding, TLC

VARIABLE part

moneyVars == <<part, vars, fundingVars>>

(* One campaign.                                                           *)
MCConcept == [k \in Collections |-> CHOOSE c \in Campaigns : TRUE]

(* Every donation of 1: MaxInteger is the number that fit the column.      *)
MCAmount == [k \in Collections |-> 1]

MoneyInit ==
  /\ part \in {"donations", "funding"}
  /\ Init
  /\ part = "funding" => ~eligible
  /\ FundingInit

MoneyNext ==
  /\ UNCHANGED part
  /\ \/ part = "donations" /\ Next /\ UNCHANGED fundingVars
     \/ part = "funding" /\ FundingNext /\ UNCHANGED vars

(* The fairness of the component that stands still asks nothing: as they   *)
(* begin, nothing is due, no webhook is being served and no transaction    *)
(* runs, so that none of its fair actions is enabled.                      *)
MoneySpec == MoneyInit /\ [][MoneyNext]_moneyVars /\ Fairness /\ FundingFairness
=============================================================================
