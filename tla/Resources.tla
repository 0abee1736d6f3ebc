------------------------------- MODULE Resources -------------------------------
(***************************************************************************)
(* The resource bank: one published need, the offers donors make to cover  *)
(* it, the deliveries of accepted offers, and the proofs of donation       *)
(* attached to an offer.                                                   *)
(*                                                                         *)
(* A member of the organization reads a row in a transaction at READ       *)
(* COMMITTED, checks it, and writes it by its id: staff holds the note of  *)
(* what was read.  Completing a delivery takes three steps: the read; the  *)
(* UPDATE that locks the delivery, the application inserted under its      *)
(* unique key and the need as it is read then; and the absolute quantity   *)
(* and status written with the commit.                                     *)
(*                                                                         *)
(* The donors' functions are each one step: their one INSERT or UPDATE     *)
(* stands under a condition or a lock.  The quantity offered is only the   *)
(* default of the one delivered, which may be any; method and date of a    *)
(* delivery, and the photographs of it, change nothing that is modelled.   *)
(* Proofs are not counted: at their limit attach only refuses, as it may   *)
(* here at any time.                                                       *)
(***************************************************************************)
EXTENDS Integers, FiniteSets, Functions

CONSTANTS
  Offers,         \* offers donors may make to the need
  Staff,          \* tabs of members of the organization
  MaxQuantity     \* bound: quantities asked for and delivered

ASSUME ResourcesAssumption ==
  /\ IsFiniteSet(Offers)
  /\ MaxQuantity \in Nat \ {0}

VARIABLES
  need,       \* the row of resource_needs
  offer,      \* table resource_offers: status
  delivery,   \* table resource_deliveries: status, by its unique offer
  applied,    \* table resource_fulfillment_applications: quantity, 0 for no row
  proof,      \* proof_status of an offer, none before its first proof
  staff       \* operations between two of their statements

resourceVars == <<need, offer, delivery, applied, proof, staff>>

Quantities == 1 .. MaxQuantity

NeedStatus     == {"needed", "partially_fulfilled", "fulfilled", "cancelled"}
OfferStatus    == {"none", "offered", "accepted", "declined", "cancelled"}
DeliveryStatus == {"none", "scheduled", "completed", "cancelled"}
ProofStatus    == {"none", "pending", "approved", "rejected"}

Need == [needed : Quantities, fulfilled : Nat, status : NeedStatus]

Note ==
  [at : {"idle"}]
    \cup [at : {"deciding"}, of : Offers, to : {"accepted", "declined"}]
    \cup [at : {"cancelling"}, of : Offers]
    \cup [at : {"completing"}, of : Offers, quantity : Quantities]
    \cup [at : {"applying"}, of : Offers, quantity : Quantities, copy : Need]
    \cup [at : {"validating"}, of : Offers, to : {"approved", "rejected"}]

AtDesk == [at |-> "idle"]

ResourcesInit ==
  /\ need \in [needed : Quantities, fulfilled : {0}, status : {"needed"}]
  /\ offer = [o \in Offers |-> "none"]
  /\ delivery = [o \in Offers |-> "none"]
  /\ applied = [o \in Offers |-> 0]
  /\ proof = [o \in Offers |-> "none"]
  /\ staff = [m \in Staff |-> AtDesk]

Take(m, note) ==
  /\ staff[m] = AtDesk
  /\ staff' = [staff EXCEPT ![m] = note]
  /\ UNCHANGED <<need, offer, delivery, applied, proof>>

Leave(m) == staff' = [staff EXCEPT ![m] = AtDesk]

(* Mutant: nobody waits for a row another transaction has written.         *)
NeverLocked(o) == FALSE

(* The transaction of another member holds the delivery's row.             *)
Locked(o) == \E m \in Staff : staff[m].at = "applying" /\ staff[m].of = o

(***************************************************************************)
(* ResourceNeedsService.update: quantityNeeded, or the status cancelled.   *)
(***************************************************************************)
ChangeQuantity(n) ==
  /\ n # need.needed
  /\ need' = [need EXCEPT !.needed = n]
  /\ UNCHANGED <<offer, delivery, applied, proof, staff>>

CancelNeed ==
  /\ need.status # "cancelled"
  /\ need' = [need EXCEPT !.status = "cancelled"]
  /\ UNCHANGED <<offer, delivery, applied, proof, staff>>

(***************************************************************************)
(* The donors: create_resource_offer, cancel_resource_offer                *)
(***************************************************************************)
NeedAcceptsOffers == need.status \in {"needed", "partially_fulfilled"}

MakeOffer(o) ==
  /\ NeedAcceptsOffers
  /\ offer[o] = "none"
  /\ offer' = [offer EXCEPT ![o] = "offered"]
  /\ UNCHANGED <<need, delivery, applied, proof, staff>>

WithdrawOffer(o) ==
  /\ offer[o] = "offered"
  /\ offer' = [offer EXCEPT ![o] = "cancelled"]
  /\ UNCHANGED <<need, delivery, applied, proof, staff>>

(***************************************************************************)
(* ResourceOffersService.decide                                            *)
(***************************************************************************)
DecideRead(m, o, to) ==
  /\ offer[o] = "offered"
  /\ Take(m, [at |-> "deciding", of |-> o, to |-> to])

(* A second delivery of one offer meets the unique key, and the            *)
(* transaction is undone.                                                  *)
DecideWrite(m) ==
  LET o == staff[m].of IN
  /\ staff[m].at = "deciding"
  /\ IF staff[m].to = "accepted" /\ delivery[o] # "none"
       THEN UNCHANGED <<offer, delivery>>
       ELSE /\ offer' = [offer EXCEPT ![o] = staff[m].to]
            /\ delivery' =
                 [delivery EXCEPT ![o] = IF staff[m].to = "accepted" THEN "scheduled" ELSE @]
  /\ Leave(m)
  /\ UNCHANGED <<need, applied, proof>>

(***************************************************************************)
(* ResourceDeliveriesService.cancel                                        *)
(***************************************************************************)
CancelRead(m, o) ==
  /\ delivery[o] = "scheduled"
  /\ Take(m, [at |-> "cancelling", of |-> o])

CancelWrite(m) ==
  LET o == staff[m].of IN
  /\ staff[m].at = "cancelling"
  /\ ~Locked(o)
  /\ delivery' = [delivery EXCEPT ![o] = "cancelled"]
  /\ Leave(m)
  /\ UNCHANGED <<need, offer, applied, proof>>

(***************************************************************************)
(* ResourceDeliveriesService.complete                                      *)
(***************************************************************************)
DeriveNeedStatus(fulfilled, needed, current) ==
  IF current = "cancelled" THEN "cancelled"
  ELSE IF fulfilled >= needed THEN "fulfilled"
  ELSE IF fulfilled > 0 THEN "partially_fulfilled"
  ELSE "needed"

(* What was really delivered, or without it what was offered.              *)
CompleteDeliveryRead(m, o, n) ==
  /\ delivery[o] = "scheduled"
  /\ Take(m, [at |-> "completing", of |-> o, quantity |-> n])

(* Mutant: the applications have no unique key.                            *)
NeverApplied(o) == TRUE

(* With a row there already the insert fails and, caught or not, its       *)
(* transaction with it.                                                    *)
NotApplied(o) == applied[o] = 0

CompleteDeliveryApply(m) ==
  LET o == staff[m].of IN
  /\ staff[m].at = "completing"
  /\ ~Locked(o)
  /\ staff' = [staff EXCEPT ![m] =
       IF NotApplied(o)
         THEN [at |-> "applying", of |-> o, quantity |-> @.quantity, copy |-> need]
         ELSE AtDesk]
  /\ UNCHANGED <<need, offer, delivery, applied, proof>>

Credit(copy, quantity) ==
  [need EXCEPT !.fulfilled = copy.fulfilled + quantity,
               !.status = DeriveNeedStatus(copy.fulfilled + quantity, copy.needed, copy.status)]

CompleteDeliveryCommit(m) ==
  LET o == staff[m].of IN
  /\ staff[m].at = "applying"
  /\ delivery' = [delivery EXCEPT ![o] = "completed"]
  /\ applied' = [applied EXCEPT ![o] = staff[m].quantity]
  /\ need' = Credit(staff[m].copy, staff[m].quantity)
  /\ Leave(m)
  /\ UNCHANGED <<offer, proof>>

(***************************************************************************)
(* ResourceOfferProofsService: attach (add_resource_offer_proof), validate *)
(***************************************************************************)
CanAttachProof(o) ==
  /\ offer[o] \in {"offered", "accepted"}
  /\ proof[o] # "approved"

AttachProof(o) ==
  /\ CanAttachProof(o)
  /\ proof' = [proof EXCEPT ![o] = "pending"]
  /\ UNCHANGED <<need, offer, delivery, applied, staff>>

ValidateRead(m, o, to) ==
  /\ proof[o] = "pending"
  /\ Take(m, [at |-> "validating", of |-> o, to |-> to])

(* Mutant: written by the offer's id alone.                                *)
Decided(m) ==
  LET o == staff[m].of IN
  /\ staff[m].at = "validating"
  /\ proof' = [proof EXCEPT ![o] = staff[m].to]
  /\ Leave(m)
  /\ UNCHANGED <<need, offer, delivery, applied>>

(* updateMany, where the proof is still pending: 400 when it is not.       *)
ValidateWrite(m) ==
  LET o == staff[m].of IN
  /\ staff[m].at = "validating"
  /\ proof' = [proof EXCEPT ![o] = IF @ = "pending" THEN staff[m].to ELSE @]
  /\ Leave(m)
  /\ UNCHANGED <<need, offer, delivery, applied>>

Publishing ==
  \/ \E n \in Quantities : ChangeQuantity(n)
  \/ CancelNeed

Donating ==
  \E o \in Offers :
    \/ MakeOffer(o)
    \/ WithdrawOffer(o)
    \/ AttachProof(o)

Deciding ==
  \E m \in Staff :
    \/ \E o \in Offers, to \in {"accepted", "declined"} : DecideRead(m, o, to)
    \/ DecideWrite(m)
    \/ \E o \in Offers, to \in {"approved", "rejected"} : ValidateRead(m, o, to)
    \/ ValidateWrite(m)

Delivering ==
  \E m \in Staff :
    \/ \E o \in Offers : CancelRead(m, o)
    \/ CancelWrite(m)
    \/ \E o \in Offers, n \in Quantities : CompleteDeliveryRead(m, o, n)
    \/ CompleteDeliveryApply(m)
    \/ CompleteDeliveryCommit(m)

ResourcesNext == Publishing \/ Donating \/ Deciding \/ Delivering

ResourcesSpec == ResourcesInit /\ [][ResourcesNext]_resourceVars

(***************************************************************************)
(* Properties                                                              *)
(***************************************************************************)
ResourcesTypeOK ==
  /\ need \in Need
  /\ offer \in [Offers -> OfferStatus]
  /\ delivery \in [Offers -> DeliveryStatus]
  /\ applied \in [Offers -> 0 .. MaxQuantity]
  /\ proof \in [Offers -> ProofStatus]
  /\ staff \in [Staff -> Note]

(* No quantity counts twice: however completions overlap, each writing     *)
(* over what the other one wrote, the need shows no more than the          *)
(* applications of its deliveries add up to.  This is the half of          *)
(* AppliesExactlyOnce that the code keeps.                                 *)
NeverOvercounts ==
  need.fulfilled <= SumFunctionOnSet(applied, Offers)

(* "`complete()` aplica la cantidad a la necesidad EXACTAMENTE una vez"    *)
(* (resource-deliveries.service.ts:41): what the need shows is what the    *)
(* applications of its deliveries add up to.                               *)
AppliesExactlyOnce ==
  need.fulfilled = SumFunctionOnSet(applied, Offers)

(* A delivery counts once, whoever completes it again: the row of its      *)
(* application is never replaced, and each completed delivery has one.     *)
AppliedOnce ==
  [][\A o \in Offers :
       /\ applied[o] # 0 => applied'[o] = applied[o]
       /\ delivery'[o] = "completed" => applied'[o] # 0]_resourceVars

(* An approval is final: neither a decision taken on what the offer was    *)
(* before it, nor the donor's next file, changes what was approved.        *)
ApprovedProofFinal ==
  [][\A o \in Offers : proof[o] = "approved" => proof'[o] = "approved"]_resourceVars

(* "`cancelled` is sticky: once cancelled, completing a stray delivery     *)
(* never revives it" (resource-fulfillment.ts:29).                         *)
CancelledIsSticky ==
  [][need.status = "cancelled" => need'.status = "cancelled"]_resourceVars
=============================================================================
