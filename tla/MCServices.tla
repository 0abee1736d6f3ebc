------------------------------ MODULE MCServices ------------------------------
(* Instances of six components that share nothing, checked by one run: a   *)
(* behaviour is one of exactly one of them, part says of which, and the    *)
(* others stay as they began.                                              *)
EXTENDS Resources, Volunteering, PaymentBreakdown, Sessions, Formalization,
  CampaignFunding, TLC

VARIABLE part

servicesVars ==
  <<part, resourceVars, volunteeringVars, vars, sessionVars, formalizationVars, fundingVars>>

(* The smallest amounts, those about the minimum, and a range in which all *)
(* four commissions round together.                                        *)
MCAmounts == (1 .. 60) \cup (890 .. 1100) \cup (6900 .. 7000)

(* One document of each type.                                              *)
MCDocuments == {"rut", "certificate"}
MCTypeOf    == [d \in MCDocuments |-> d]

MCSlotHours == {1, 2}

(* One campaign, and every donation of 1: MaxInteger is the number that    *)
(* fit the column.                                                         *)
MCConcept == [k \in Collections |-> CHOOSE c \in Campaigns : TRUE]
MCAmount  == [k \in Collections |-> 1]

(* The components share no state, so that one pair of model values can     *)
(* stand for offers, slots, tabs and jobs, and another for staff, office,  *)
(* reviewers and transactions: each is one that its own component cannot   *)
(* tell apart.                                                             *)
Symmetry == Permutations(Offers) \cup Permutations(Staff)

ServicesInit ==
  /\ part \in {"resources", "proofs", "volunteering", "breakdown", "sessions", "formalization",
              "review", "funding"}
  /\ ResourcesInit
  /\ need.needed = MaxQuantity
  /\ VolunteeringInit
  /\ Init
  /\ part # "breakdown" => intended = 1 /\ commissionPayer = "donor"
  /\ SessionsInit
  /\ FormalizationInit
  /\ FundingInit

(* The resource bank is explored in two parts, since proofs of donation    *)
(* and the quantity of the need have nothing to do with each other: one    *)
(* in which nobody attaches a proof, one in which nothing is applied.      *)
(* Formalization is explored in two parts: one reviewer at a time, who     *)
(* refuses nothing, beside the whole of it, and two reviewers beside       *)
(* everything but the queue.                                               *)
OneApproves ==
  /\ \E r \in Reviewers : \A q \in Reviewers \ {r} : reviewer[q] = Quiet
  /\ \A r \in Reviewers : reviewer[r].at = "deciding" => reviewer[r].to = "approved"

ServicesNext ==
  /\ UNCHANGED part
  /\ \/ /\ part = "resources" /\ ResourcesNext /\ proof' = proof
        /\ UNCHANGED <<volunteeringVars, vars, sessionVars, formalizationVars, fundingVars>>
     \/ /\ part = "proofs" /\ ResourcesNext /\ need' = need /\ applied' = applied
        /\ UNCHANGED <<volunteeringVars, vars, sessionVars, formalizationVars, fundingVars>>
     \/ /\ part = "volunteering" /\ VolunteeringNext
        /\ UNCHANGED <<resourceVars, vars, sessionVars, formalizationVars, fundingVars>>
     \/ /\ part = "breakdown" /\ Next
        /\ UNCHANGED <<resourceVars, volunteeringVars, sessionVars, formalizationVars, fundingVars>>
     \/ /\ part = "sessions" /\ SessionsNext
        /\ UNCHANGED <<resourceVars, volunteeringVars, vars, formalizationVars, fundingVars>>
     \/ /\ part = "formalization" /\ FormalizationNext /\ OneApproves'
        /\ UNCHANGED <<resourceVars, volunteeringVars, vars, sessionVars, fundingVars>>
     \/ /\ part = "review" /\ FormalizationNext /\ job' = job
        /\ UNCHANGED <<resourceVars, volunteeringVars, vars, sessionVars, fundingVars>>
     \/ /\ part = "funding" /\ FundingNext
        /\ UNCHANGED <<resourceVars, volunteeringVars, vars, sessionVars, formalizationVars>>

ServicesSpec == ServicesInit /\ [][ServicesNext]_servicesVars

(* Every variable of the six components keeps its type.                    *)
ServicesTypeOK ==
  /\ ResourcesTypeOK
  /\ VolunteeringTypeOK
  /\ TypeOK
  /\ SessionsTypeOK
  /\ FormalizationTypeOK
  /\ FundingTypeOK
=============================================================================
