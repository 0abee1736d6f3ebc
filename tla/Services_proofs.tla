--------------------------- MODULE Services_proofs ---------------------------
(***************************************************************************)
(* Proofs about the services one run checks side by side: the resource     *)
(* bank, volunteering and the commission breakdown, for any number of      *)
(* offers, members, enrollments, sessions and amounts; and that the run's  *)
(* behaviours are behaviours of each of its components, so that what is    *)
(* proved of them, here and in the modules of sessions and formalization,  *)
(* holds of the run for every value of the constants.                      *)
(***************************************************************************)
EXTENDS MCServices, Sums_proofs, Sessions_proofs, Formalization_proofs, CampaignFunding_proofs

(***************************************************************************)
(* The resource bank                                                       *)
(***************************************************************************)
(* What the notes of each operation hold.                                  *)
LEMMA NoteFields ==
  ASSUME NEW n \in Note
  PROVE  /\ n.at \in {"deciding", "cancelling", "completing", "applying", "validating"}
              => n.of \in Offers
         /\ n.at = "deciding" => n.to \in {"accepted", "declined"}
         /\ n.at \in {"completing", "applying"} => n.quantity \in Quantities
         /\ n.at = "applying" => n.copy \in Need
         /\ n.at = "validating" => n.to \in {"approved", "rejected"}
  BY DEF Note

(* The desk of one member changes, to a note.                              *)
LEMMA DeskTyped ==
  ASSUME NEW m \in Staff, NEW note \in Note, staff \in [Staff -> Note],
         staff' = [staff EXCEPT ![m] = note]
  PROVE  staff' \in [Staff -> Note]
  OBVIOUS

LEMMA AtDeskIsNote == AtDesk \in Note
  BY DEF AtDesk, Note

(* Credit keeps the type of a need.                                        *)
LEMMA CreditTyped ==
  ASSUME need \in Need, NEW copy \in Need, NEW quantity \in Quantities
  PROVE  Credit(copy, quantity) \in Need
<1> DEFINE total  == copy.fulfilled + quantity
           status == DeriveNeedStatus(total, copy.needed, copy.status)
<1>1. total \in Nat
  BY ResourcesAssumption DEF Need, Quantities
<1>2. status \in NeedStatus
  BY DEF DeriveNeedStatus, NeedStatus
<1>3. Credit(copy, quantity) = [need EXCEPT !.fulfilled = total, !.status = status]
  BY DEF Credit
<1> HIDE DEF total, status
<1> QED
  BY <1>1, <1>2, <1>3 DEF Need

(* The initial states are typed.                                           *)
LEMMA ResourcesTypeInit == ResourcesInit => ResourcesTypeOK
  BY ResourcesAssumption, AtDeskIsNote
     DEF ResourcesInit, ResourcesTypeOK, Need, NeedStatus, OfferStatus, DeliveryStatus, ProofStatus

(* Every step keeps every type.                                            *)
LEMMA ResourcesTypeStep == ResourcesTypeOK /\ [ResourcesNext]_resourceVars => ResourcesTypeOK'
<1> SUFFICES ASSUME ResourcesTypeOK, [ResourcesNext]_resourceVars PROVE ResourcesTypeOK'
  OBVIOUS
<1> USE DEF ResourcesTypeOK
<1>1. ASSUME NEW n \in Quantities, ChangeQuantity(n) PROVE ResourcesTypeOK'
  BY <1>1 DEF ChangeQuantity, Need
<1>2. ASSUME CancelNeed PROVE ResourcesTypeOK'
  BY <1>2 DEF CancelNeed, Need, NeedStatus
<1>3. ASSUME NEW o \in Offers, MakeOffer(o) \/ WithdrawOffer(o) \/ AttachProof(o)
      PROVE  ResourcesTypeOK'
  BY <1>3 DEF MakeOffer, WithdrawOffer, AttachProof, OfferStatus, ProofStatus
<1>4. ASSUME NEW m \in Staff, NEW o \in Offers, NEW to \in {"accepted", "declined"},
             DecideRead(m, o, to)
      PROVE  ResourcesTypeOK'
  <2> DEFINE note == [at |-> "deciding", of |-> o, to |-> to]
  <2>1. note \in Note
    BY DEF Note
  <2> HIDE DEF note
  <2> QED
    BY <1>4, <2>1, DeskTyped DEF DecideRead, Take, note
<1>5. ASSUME NEW m \in Staff, DecideWrite(m) PROVE ResourcesTypeOK'
  <2>1. staff[m].of \in Offers /\ staff[m].to \in OfferStatus
    BY <1>5, NoteFields DEF DecideWrite, OfferStatus
  <2>2. staff' \in [Staff -> Note]
    BY <1>5, AtDeskIsNote DEF DecideWrite, Leave
  <2>3. offer' \in [Offers -> OfferStatus]
    BY <1>5, <2>1 DEF DecideWrite
  <2>4. delivery' \in [Offers -> DeliveryStatus]
    BY <1>5, <2>1 DEF DecideWrite, DeliveryStatus
  <2> QED
    BY <1>5, <2>2, <2>3, <2>4 DEF DecideWrite
<1>6. ASSUME NEW m \in Staff, NEW o \in Offers, NEW to \in {"approved", "rejected"},
             ValidateRead(m, o, to)
      PROVE  ResourcesTypeOK'
  <2> DEFINE note == [at |-> "validating", of |-> o, to |-> to]
  <2>1. note \in Note
    BY DEF Note
  <2> HIDE DEF note
  <2> QED
    BY <1>6, <2>1, DeskTyped DEF ValidateRead, Take, note
<1>7. ASSUME NEW m \in Staff, ValidateWrite(m) PROVE ResourcesTypeOK'
  <2>1. staff[m].of \in Offers /\ staff[m].to \in ProofStatus
    BY <1>7, NoteFields DEF ValidateWrite, ProofStatus
  <2>2. staff' \in [Staff -> Note]
    BY <1>7, AtDeskIsNote DEF ValidateWrite, Leave
  <2> QED
    BY <1>7, <2>1, <2>2 DEF ValidateWrite
<1>8. ASSUME NEW m \in Staff, NEW o \in Offers, CancelRead(m, o) PROVE ResourcesTypeOK'
  <2> DEFINE note == [at |-> "cancelling", of |-> o]
  <2>1. note \in Note
    BY DEF Note
  <2> HIDE DEF note
  <2> QED
    BY <1>8, <2>1, DeskTyped DEF CancelRead, Take, note
<1>9. ASSUME NEW m \in Staff, CancelWrite(m) PROVE ResourcesTypeOK'
  <2>1. staff' \in [Staff -> Note]
    BY <1>9, AtDeskIsNote DEF CancelWrite, Leave
  <2> QED
    BY <1>9, <2>1 DEF CancelWrite, DeliveryStatus
<1>10. ASSUME NEW m \in Staff, NEW o \in Offers, NEW n \in Quantities, CompleteDeliveryRead(m, o, n)
       PROVE  ResourcesTypeOK'
  <2> DEFINE note == [at |-> "completing", of |-> o, quantity |-> n]
  <2>1. note \in Note
    BY DEF Note
  <2> HIDE DEF note
  <2> QED
    BY <1>10, <2>1, DeskTyped DEF CompleteDeliveryRead, Take, note
<1>11. ASSUME NEW m \in Staff, CompleteDeliveryApply(m) PROVE ResourcesTypeOK'
  <2> DEFINE note == [at |-> "applying", of |-> staff[m].of, quantity |-> staff[m].quantity,
                      copy |-> need]
             next == IF NotApplied(staff[m].of) THEN note ELSE AtDesk
  <2>1. staff[m].of \in Offers /\ staff[m].quantity \in Quantities
    BY <1>11, NoteFields DEF CompleteDeliveryApply
  <2>2. note \in Note
    BY <2>1 DEF Note
  <2>3. next \in Note
    BY <2>2, AtDeskIsNote
  <2>4. staff' = [staff EXCEPT ![m] = next]
    BY <1>11 DEF CompleteDeliveryApply
  <2> HIDE DEF note, next
  <2> QED
    BY <1>11, <2>3, <2>4 DEF CompleteDeliveryApply
<1>12. ASSUME NEW m \in Staff, CompleteDeliveryCommit(m) PROVE ResourcesTypeOK'
  <2>1. /\ staff[m].of \in Offers
        /\ staff[m].quantity \in Quantities
        /\ staff[m].copy \in Need
    BY <1>12, NoteFields DEF CompleteDeliveryCommit
  <2>2. need' \in Need
    BY <1>12, <2>1, CreditTyped DEF CompleteDeliveryCommit
  <2>3. staff' \in [Staff -> Note]
    BY <1>12, AtDeskIsNote DEF CompleteDeliveryCommit, Leave
  <2>4. applied' \in [Offers -> 0 .. MaxQuantity]
    BY <1>12, <2>1 DEF CompleteDeliveryCommit, Quantities
  <2>5. delivery' \in [Offers -> DeliveryStatus]
    BY <1>12 DEF CompleteDeliveryCommit, DeliveryStatus
  <2> QED
    BY <1>12, <2>2, <2>3, <2>4, <2>5 DEF CompleteDeliveryCommit
<1>13. CASE UNCHANGED resourceVars
  BY <1>13 DEF resourceVars
<1> QED
  BY <1>1, <1>2, <1>3, <1>4, <1>5, <1>6, <1>7, <1>8, <1>9, <1>10, <1>11, <1>12, <1>13
     DEF ResourcesNext, Publishing, Donating, Deciding, Delivering

(* Every variable keeps its type.                                          *)
THEOREM ResourcesTypeCorrect == ResourcesSpec => []ResourcesTypeOK
  BY ResourcesTypeInit, ResourcesTypeStep, PTL DEF ResourcesSpec

(***************************************************************************)
(* A delivery counts once                                                  *)
(***************************************************************************)
(* Between the insert of an application and its commit its row is held by  *)
(* one member alone, who found none before; a completed delivery has one.  *)
ApplicationsInv ==
  /\ \A o \in Offers : delivery[o] = "completed" => applied[o] # 0
  /\ \A m \in Staff : staff[m].at = "applying" => applied[staff[m].of] = 0
  /\ \A m, n \in Staff :
       staff[m].at = "applying" /\ staff[n].at = "applying" /\ staff[m].of = staff[n].of => m = n

LEMMA ApplicationsInit == ResourcesInit => ApplicationsInv
  BY DEF ResourcesInit, ApplicationsInv, AtDesk

(* A step that touches no application, completes no delivery and brings    *)
(* nobody to the insert.                                                   *)
LEMMA ApplicationsKept ==
  ASSUME ResourcesTypeOK, ApplicationsInv, applied' = applied,
         \A o \in Offers : delivery'[o] = "completed" => delivery[o] = "completed",
         \A m \in Staff : staff'[m].at = "applying" => staff'[m] = staff[m]
  PROVE  ApplicationsInv'
  BY DEF ApplicationsInv

LEMMA TakeSteady ==
  ASSUME ResourcesTypeOK, NEW m \in Staff, NEW note \in Note, Take(m, note),
         note.at # "applying"
  PROVE  \A n \in Staff : staff'[n].at = "applying" => staff'[n] = staff[n]
  BY DEF Take, ResourcesTypeOK

LEMMA LeaveSteady ==
  ASSUME ResourcesTypeOK, NEW m \in Staff, Leave(m)
  PROVE  \A n \in Staff : staff'[n].at = "applying" => staff'[n] = staff[n]
  BY DEF Leave, AtDesk, ResourcesTypeOK

LEMMA ApplicationsStep ==
  ResourcesTypeOK /\ ApplicationsInv /\ [ResourcesNext]_resourceVars => ApplicationsInv'
<1> SUFFICES ASSUME ResourcesTypeOK, ApplicationsInv, [ResourcesNext]_resourceVars
             PROVE  ApplicationsInv'
  OBVIOUS
<1>1. ASSUME NEW n \in Quantities, ChangeQuantity(n) PROVE ApplicationsInv'
  BY <1>1, ApplicationsKept DEF ChangeQuantity
<1>2. CASE CancelNeed
  BY <1>2, ApplicationsKept DEF CancelNeed
<1>3. ASSUME NEW o \in Offers, MakeOffer(o) \/ WithdrawOffer(o) \/ AttachProof(o)
      PROVE  ApplicationsInv'
  BY <1>3, ApplicationsKept DEF MakeOffer, WithdrawOffer, AttachProof
<1>4. ASSUME NEW m \in Staff, NEW o \in Offers, NEW to \in {"accepted", "declined"},
             DecideRead(m, o, to)
      PROVE  ApplicationsInv'
  <2> DEFINE note == [at |-> "deciding", of |-> o, to |-> to]
  <2>1. note \in Note /\ note.at # "applying"
    BY DEF Note
  <2>2. Take(m, note)
    BY <1>4 DEF DecideRead
  <2> HIDE DEF note
  <2> QED
    BY <2>1, <2>2, TakeSteady, ApplicationsKept DEF Take
<1>5. ASSUME NEW m \in Staff, DecideWrite(m) PROVE ApplicationsInv'
  <2>1. staff[m].of \in Offers
    BY <1>5, NoteFields DEF DecideWrite, ResourcesTypeOK
  <2>2. \A o \in Offers : delivery'[o] = "completed" => delivery[o] = "completed"
    BY <1>5, <2>1 DEF DecideWrite, ResourcesTypeOK
  <2> QED
    BY <1>5, <2>2, LeaveSteady, ApplicationsKept DEF DecideWrite
<1>6. ASSUME NEW m \in Staff, NEW o \in Offers, NEW to \in {"approved", "rejected"},
             ValidateRead(m, o, to)
      PROVE  ApplicationsInv'
  <2> DEFINE note == [at |-> "validating", of |-> o, to |-> to]
  <2>1. note \in Note /\ note.at # "applying"
    BY DEF Note
  <2>2. Take(m, note)
    BY <1>6 DEF ValidateRead
  <2> HIDE DEF note
  <2> QED
    BY <2>1, <2>2, TakeSteady, ApplicationsKept DEF Take
<1>7. ASSUME NEW m \in Staff, ValidateWrite(m) PROVE ApplicationsInv'
  BY <1>7, LeaveSteady, ApplicationsKept DEF ValidateWrite
<1>8. ASSUME NEW m \in Staff, NEW o \in Offers, CancelRead(m, o) PROVE ApplicationsInv'
  <2> DEFINE note == [at |-> "cancelling", of |-> o]
  <2>1. note \in Note /\ note.at # "applying"
    BY DEF Note
  <2>2. Take(m, note)
    BY <1>8 DEF CancelRead
  <2> HIDE DEF note
  <2> QED
    BY <2>1, <2>2, TakeSteady, ApplicationsKept DEF Take
<1>9. ASSUME NEW m \in Staff, CancelWrite(m) PROVE ApplicationsInv'
  <2>1. \A o \in Offers : delivery'[o] = "completed" => delivery[o] = "completed"
    BY <1>9 DEF CancelWrite, ResourcesTypeOK
  <2> QED
    BY <1>9, <2>1, LeaveSteady, ApplicationsKept DEF CancelWrite
<1>10. ASSUME NEW m \in Staff, NEW o \in Offers, NEW n \in Quantities, CompleteDeliveryRead(m, o, n)
       PROVE  ApplicationsInv'
  <2> DEFINE note == [at |-> "completing", of |-> o, quantity |-> n]
  <2>1. note \in Note /\ note.at # "applying"
    BY DEF Note
  <2>2. Take(m, note)
    BY <1>10 DEF CompleteDeliveryRead
  <2> HIDE DEF note
  <2> QED
    BY <2>1, <2>2, TakeSteady, ApplicationsKept DEF Take
<1>11. ASSUME NEW m \in Staff, CompleteDeliveryApply(m) PROVE ApplicationsInv'
  <2> DEFINE note == [at |-> "applying", of |-> staff[m].of, quantity |-> staff[m].quantity,
                      copy |-> need]
  <2>1. CASE NotApplied(staff[m].of)
    <3>1. staff' = [staff EXCEPT ![m] = note]
      BY <1>11, <2>1 DEF CompleteDeliveryApply
    <3>2. note.at = "applying" /\ note.of = staff[m].of
      OBVIOUS
    <3>3. \A n \in Staff : staff[n].at = "applying" => staff[n].of # staff[m].of
      BY <1>11 DEF CompleteDeliveryApply, Locked
    <3>4. applied[staff[m].of] = 0
      BY <2>1 DEF NotApplied
    <3> HIDE DEF note
    <3> QED
      BY <1>11, <3>1, <3>2, <3>3, <3>4
         DEF CompleteDeliveryApply, ApplicationsInv, ResourcesTypeOK
  <2>2. CASE ~NotApplied(staff[m].of)
    <3>1. Leave(m)
      BY <1>11, <2>2 DEF CompleteDeliveryApply, Leave
    <3> QED
      BY <1>11, <3>1, LeaveSteady, ApplicationsKept DEF CompleteDeliveryApply
  <2> QED
    BY <2>1, <2>2
<1>12. ASSUME NEW m \in Staff, CompleteDeliveryCommit(m) PROVE ApplicationsInv'
  <2>1. staff[m].of \in Offers /\ staff[m].quantity # 0 /\ staff[m].at = "applying"
    BY <1>12, NoteFields DEF CompleteDeliveryCommit, ResourcesTypeOK, Quantities
  <2>2. \A n \in Staff :
          staff'[n].at = "applying" => staff'[n] = staff[n] /\ staff[n].of # staff[m].of
    BY <1>12, <2>1, LeaveSteady
       DEF CompleteDeliveryCommit, Leave, AtDesk, ApplicationsInv, ResourcesTypeOK
  <2>3. \A n \in Staff : staff'[n].at = "applying" => staff[n].of \in Offers
    BY <2>2, NoteFields DEF ResourcesTypeOK
  <2>4. \A o \in Offers : delivery'[o] = "completed" => applied'[o] # 0
    BY <1>12, <2>1 DEF CompleteDeliveryCommit, ApplicationsInv, ResourcesTypeOK
  <2>5. \A n \in Staff : staff'[n].at = "applying" => applied'[staff'[n].of] = 0
    BY <1>12, <2>1, <2>2, <2>3 DEF CompleteDeliveryCommit, ApplicationsInv, ResourcesTypeOK
  <2> QED
    BY <2>2, <2>4, <2>5 DEF ApplicationsInv
<1>13. CASE UNCHANGED resourceVars
  BY <1>13, ApplicationsKept DEF resourceVars
<1> QED
  BY <1>1, <1>2, <1>3, <1>4, <1>5, <1>6, <1>7, <1>8, <1>9, <1>10, <1>11, <1>12, <1>13
     DEF ResourcesNext, Publishing, Donating, Deciding, Delivering

(* Only the commit of a completion writes an application, and it finds     *)
(* none there.                                                             *)
LEMMA ApplicationWritten ==
  ASSUME ResourcesTypeOK, ApplicationsInv, [ResourcesNext]_resourceVars,
         NEW o \in Offers, applied[o] # 0
  PROVE  applied'[o] = applied[o]
<1>1. ASSUME NEW m \in Staff, CompleteDeliveryCommit(m) PROVE applied'[o] = applied[o]
  <2>1. staff[m].of # o
    BY <1>1 DEF CompleteDeliveryCommit, ApplicationsInv
  <2> QED
    BY <1>1, <2>1 DEF CompleteDeliveryCommit, ResourcesTypeOK
<1>2. CASE ~ \E m \in Staff : CompleteDeliveryCommit(m)
  BY <1>2
     DEF ResourcesNext, Publishing, Donating, Deciding, Delivering, ChangeQuantity, CancelNeed,
         MakeOffer, WithdrawOffer, AttachProof, DecideRead, DecideWrite, ValidateRead,
         ValidateWrite, CancelRead, CancelWrite, CompleteDeliveryRead, CompleteDeliveryApply,
         Take, resourceVars
<1> QED
  BY <1>1, <1>2

(* A delivery counts once, whoever completes it again.                     *)
THEOREM CountsOnce == ResourcesSpec => AppliedOnce
<1> DEFINE Step == \A o \in Offers :
             /\ applied[o] # 0 => applied'[o] = applied[o]
             /\ delivery'[o] = "completed" => applied'[o] # 0
<1>1. ResourcesTypeOK /\ ApplicationsInv /\ [ResourcesNext]_resourceVars /\ ApplicationsInv'
        => [Step]_resourceVars
  BY ApplicationWritten DEF ApplicationsInv
<1> QED
  BY <1>1, ResourcesTypeInit, ResourcesTypeStep, ApplicationsInit, ApplicationsStep, PTL
     DEF ResourcesSpec, AppliedOnce

(***************************************************************************)
(* The approval of a proof                                                 *)
(***************************************************************************)
(* An approval is final.                                                   *)
THEOREM ApprovalFinal == ResourcesSpec => ApprovedProofFinal
<1> DEFINE Step == \A o \in Offers : proof[o] = "approved" => proof'[o] = "approved"
<1>1. ASSUME ResourcesTypeOK, ResourcesNext PROVE Step
  <2> TAKE o \in Offers
  <2> HAVE proof[o] = "approved"
  <2>1. ASSUME NEW p \in Offers, AttachProof(p) PROVE proof'[o] = "approved"
    BY <2>1 DEF AttachProof, CanAttachProof, ResourcesTypeOK
  <2>2. ASSUME NEW m \in Staff, ValidateWrite(m) PROVE proof'[o] = "approved"
    BY <2>2 DEF ValidateWrite, ResourcesTypeOK
  <2>3. CASE proof' = proof
    BY <2>3
  <2> QED
    BY <1>1, <2>1, <2>2, <2>3
       DEF ResourcesNext, Publishing, Donating, Deciding, Delivering, ChangeQuantity, CancelNeed,
           MakeOffer, WithdrawOffer, DecideRead, DecideWrite, ValidateRead, CancelRead,
           CancelWrite, CompleteDeliveryRead, CompleteDeliveryApply, CompleteDeliveryCommit, Take
<1>2. ResourcesTypeOK /\ [ResourcesNext]_resourceVars => [Step]_resourceVars
  BY <1>1
<1> QED
  BY <1>2, ResourcesTypeInit, ResourcesTypeStep, PTL DEF ResourcesSpec, ApprovedProofFinal

(***************************************************************************)
(* A need shows no more than its deliveries add up to                      *)
(***************************************************************************)
(* A completion may credit the need on a copy of it that is stale: the     *)
(* sum of the applications only grows, so it is still no less than what    *)
(* the copy showed.                                                        *)
CreditedInv ==
  /\ NeverOvercounts
  /\ \A m \in Staff : staff[m].at = "applying" =>
       staff[m].copy.fulfilled <= SumFunctionOnSet(applied, Offers)

LEMMA CreditedInit == ResourcesInit => CreditedInv
<1> SUFFICES ASSUME ResourcesInit PROVE CreditedInv
  OBVIOUS
<1>1. \A o \in Offers : applied[o] \in Nat
  BY DEF ResourcesInit
<1>2. SumFunctionOnSet(applied, Offers) \in Nat
  BY <1>1, SumType, ResourcesAssumption
<1> QED
  BY <1>2 DEF ResourcesInit, CreditedInv, NeverOvercounts, AtDesk

(* A step that credits nothing, and copies the need as it is if at all.    *)
LEMMA CreditedKept ==
  ASSUME ResourcesTypeOK, CreditedInv, applied' = applied, need'.fulfilled = need.fulfilled,
         \A m \in Staff : staff'[m].at = "applying" =>
           staff'[m] = staff[m] \/ staff'[m].copy = need
  PROVE  CreditedInv'
  BY DEF CreditedInv, NeverOvercounts

LEMMA CreditedStep ==
  ASSUME ResourcesTypeOK, ApplicationsInv, CreditedInv, [ResourcesNext]_resourceVars
  PROVE  CreditedInv'
<1> DEFINE Sum == SumFunctionOnSet(applied, Offers)
<1>1. ASSUME NEW m \in Staff, CompleteDeliveryCommit(m) PROVE CreditedInv'
  <2> DEFINE o == staff[m].of
             q == staff[m].quantity
  <2>1. staff[m] \in Note /\ staff[m].at = "applying"
    BY <1>1 DEF CompleteDeliveryCommit, ResourcesTypeOK
  <2>2. /\ o \in Offers /\ q \in Nat
        /\ staff[m].copy.fulfilled \in Nat /\ staff[m].copy.fulfilled <= Sum
    BY <2>1, NoteFields DEF Quantities, Need, CreditedInv
  <2>3. applied[o] = 0 /\ \A p \in Offers : applied[p] \in Int
    BY <2>1 DEF ApplicationsInv, ResourcesTypeOK
  <2>4. applied'[o] = q /\ \A p \in Offers \ {o} : applied'[p] = applied[p]
    BY <1>1, <2>2 DEF CompleteDeliveryCommit, ResourcesTypeOK
  <2>5. need'.fulfilled = staff[m].copy.fulfilled + q
    BY <1>1 DEF CompleteDeliveryCommit, Credit, ResourcesTypeOK, Need
  <2>6. \A n \in Staff : staff'[n].at = "applying" => staff'[n] = staff[n]
    BY <1>1, LeaveSteady DEF CompleteDeliveryCommit
  <2>7. \A n \in Staff : staff[n].at = "applying" => staff[n].copy.fulfilled \in Nat
    BY NoteFields DEF ResourcesTypeOK, Need
  <2> HIDE DEF o, q
  <2>8. \A p \in Offers : applied[p] \in Int /\ applied'[p] \in Int
    BY <2>2, <2>3, <2>4
  <2>9. Sum' = Sum - applied[o] + applied'[o]
    <3> DEFINE g == applied'
    <3>1. \A p \in Offers : applied[p] \in Int /\ g[p] \in Int
      BY <2>8
    <3>2. \A p \in Offers \ {o} : g[p] = applied[p]
      BY <2>4
    <3>3. o \in Offers /\ IsFiniteSet(Offers)
      BY <2>2, ResourcesAssumption
    <3> HIDE DEF g
    <3>4. SumFunctionOnSet(g, Offers) = SumFunctionOnSet(applied, Offers) - applied[o] + g[o]
      BY ONLY <3>1, <3>2, <3>3, SumChange
    <3> QED
      BY <3>4 DEF g
  <2>10. Sum \in Int
    BY <2>8, SumType, ResourcesAssumption
  <2> HIDE DEF Sum
  <2>11. Sum' = Sum + q
    BY <2>2, <2>3, <2>4, <2>9, <2>10
  <2>12. need'.fulfilled <= Sum'
    BY <2>2, <2>5, <2>10, <2>11
  <2>13. ASSUME NEW n \in Staff, staff'[n].at = "applying"
         PROVE  staff'[n].copy.fulfilled <= Sum'
    <3>1. staff'[n] = staff[n] /\ staff[n].copy.fulfilled <= Sum
      BY <2>6, <2>13 DEF CreditedInv, Sum
    <3> QED
      BY <3>1, <2>2, <2>7, <2>10, <2>11, <2>13
  <2> QED
    BY <2>12, <2>13 DEF CreditedInv, NeverOvercounts, Sum
<1>2. ASSUME NEW m \in Staff, CompleteDeliveryApply(m) PROVE CreditedInv'
  <2>1. \A n \in Staff : staff'[n].at = "applying" => staff'[n] = staff[n] \/ staff'[n].copy = need
    BY <1>2 DEF CompleteDeliveryApply, AtDesk, ResourcesTypeOK
  <2> QED
    BY <1>2, <2>1, CreditedKept DEF CompleteDeliveryApply
<1>3. ASSUME NEW m \in Staff, NEW note, Take(m, note), note.at # "applying" PROVE CreditedInv'
  <2>1. \A n \in Staff : staff'[n].at = "applying" => staff'[n] = staff[n]
    BY <1>3 DEF Take, ResourcesTypeOK
  <2> QED
    BY <1>3, <2>1, CreditedKept DEF Take
<1>4. CASE Publishing
  <2>1. applied' = applied /\ staff' = staff /\ need'.fulfilled = need.fulfilled
    BY <1>4 DEF Publishing, ChangeQuantity, CancelNeed, ResourcesTypeOK, Need
  <2> QED
    BY <2>1, CreditedKept
<1>5. CASE Donating
  BY <1>5, CreditedKept DEF Donating, MakeOffer, WithdrawOffer, AttachProof
<1>6. CASE Deciding
  <2>1. ASSUME NEW m \in Staff, DecideWrite(m) \/ ValidateWrite(m) PROVE CreditedInv'
    BY <2>1, LeaveSteady, CreditedKept DEF DecideWrite, ValidateWrite
  <2>2. ASSUME NEW m \in Staff, NEW o \in Offers, NEW to, DecideRead(m, o, to) PROVE CreditedInv'
    BY <1>3, <2>2 DEF DecideRead
  <2>3. ASSUME NEW m \in Staff, NEW o \in Offers, NEW to, ValidateRead(m, o, to) PROVE CreditedInv'
    BY <1>3, <2>3 DEF ValidateRead
  <2> QED
    BY <1>6, <2>1, <2>2, <2>3 DEF Deciding
<1>7. CASE Delivering
  <2>1. ASSUME NEW m \in Staff, CancelWrite(m) PROVE CreditedInv'
    BY <2>1, LeaveSteady, CreditedKept DEF CancelWrite
  <2>2. ASSUME NEW m \in Staff, NEW o \in Offers, CancelRead(m, o) PROVE CreditedInv'
    BY <1>3, <2>2 DEF CancelRead
  <2>3. ASSUME NEW m \in Staff, NEW o \in Offers, NEW n, CompleteDeliveryRead(m, o, n)
        PROVE  CreditedInv'
    BY <1>3, <2>3 DEF CompleteDeliveryRead
  <2> QED
    BY <1>1, <1>2, <1>7, <2>1, <2>2, <2>3 DEF Delivering
<1>8. CASE UNCHANGED resourceVars
  BY <1>8, CreditedKept DEF resourceVars
<1> QED
  BY <1>4, <1>5, <1>6, <1>7, <1>8 DEF ResourcesNext

(* Completions that overlap lose a quantity at worst: the need never shows *)
(* more than the applications of its deliveries add up to.                 *)
THEOREM OvercountsNever == ResourcesSpec => []NeverOvercounts
<1>1. CreditedInv => NeverOvercounts
  BY DEF CreditedInv
<1>2. ResourcesTypeOK /\ ApplicationsInv /\ CreditedInv /\ [ResourcesNext]_resourceVars
        => CreditedInv'
  BY CreditedStep
<1> QED
  BY <1>1, <1>2, ResourcesTypeInit, ResourcesTypeStep, ApplicationsInit, ApplicationsStep,
     CreditedInit, PTL DEF ResourcesSpec

(***************************************************************************)
(* Volunteering                                                            *)
(***************************************************************************)
(* What the errands of each operation hold.                                *)
LEMMA ErrandFields ==
  ASSUME NEW n \in Errand
  PROVE  /\ n.at = "moving" =>
              n.of \in Enrollments /\ n.to \in {"accepted", "rejected", "completed"}
         /\ n.at = "judging" => n.of \in Entries /\ n.to \in {"approved", "rejected"}
         /\ n.at = "issuing" =>
              n.of \in Enrollments /\ n.bitacora \in SUBSET Entries /\ n.total \in Nat
  BY DEF Errand

LEMMA NoErrandTyped == NoErrand \in Errand
  BY DEF NoErrand, Errand

(* The sessions of one enrollment are finitely many, and their hours add   *)
(* up to a number.                                                         *)
LEMMA HoursAddUp ==
  ASSUME VolunteeringTypeOK, NEW e \in Enrollments, NEW S \in SUBSET ({e} \X Slots)
  PROVE  IsFiniteSet(S) /\ SumHours(S) \in Nat
<1>1. IsFiniteSet({e} \X Slots)
  BY VolunteeringAssumption, FS_Singleton, FS_Product
<1>2. IsFiniteSet(S)
  BY <1>1, FS_Subset
<1>3. \A k \in S : entry[k].hours \in Nat
  <2>1. \A k \in S : k \in Entries
    BY DEF Entries
  <2>2. \A k \in S : entry[k] \in Entry
    BY <2>1 DEF VolunteeringTypeOK
  <2>3. SlotHours \cup {0} \subseteq Nat
    BY VolunteeringAssumption
  <2> QED
    BY <2>2, <2>3 DEF Entry
<1> HIDE DEF VolunteeringTypeOK
<1>4. SumFunctionOnSet([x \in S |-> entry[x].hours], S) \in Nat
  BY <1>2, <1>3, SumType
<1> QED
  BY <1>2, <1>4 DEF SumHours

LEMMA ApprovedEntriesOf ==
  ASSUME NEW e \in Enrollments
  PROVE  ApprovedEntries(e) \in SUBSET ({e} \X Slots) /\ ApprovedEntries(e) \in SUBSET Entries
  BY DEF ApprovedEntries, EntriesOf, Entries

(* The initial states are typed.                                           *)
LEMMA VolunteeringTypeInit == VolunteeringInit => VolunteeringTypeOK
  BY NoErrandTyped
     DEF VolunteeringInit, VolunteeringTypeOK, EnrollmentStatus, Kinds, Entry, EntryStatus,
         NoEntry, Certificate, NoCertificate

(* Every step keeps every type.                                            *)
LEMMA VolunteeringTypeStep ==
  VolunteeringTypeOK /\ [VolunteeringNext]_volunteeringVars => VolunteeringTypeOK'
<1> SUFFICES ASSUME VolunteeringTypeOK, [VolunteeringNext]_volunteeringVars
             PROVE  VolunteeringTypeOK'
  OBVIOUS
<1>s. ASSUME NEW m \in Office, NEW errand \in Errand, Start(m, errand) PROVE VolunteeringTypeOK'
  BY <1>s DEF Start, VolunteeringTypeOK
<1>1. ASSUME NEW e \in Enrollments, NEW kind \in Kinds, Enroll(e, kind) PROVE VolunteeringTypeOK'
  BY <1>1 DEF Enroll, VolunteeringTypeOK, EnrollmentStatus
<1>2. ASSUME NEW k \in Entries, NEW hours \in SlotHours, LogCheck(k, hours)
      PROVE  VolunteeringTypeOK'
  BY <1>2 DEF LogCheck, VolunteeringTypeOK
<1>3. ASSUME NEW l \in logging, LogInsert(l) PROVE VolunteeringTypeOK'
  <2>1. l.of \in Entries /\ l.hours \in SlotHours
    BY DEF VolunteeringTypeOK
  <2>2. [status |-> "pending", hours |-> l.hours] \in Entry
    BY <2>1 DEF Entry, EntryStatus
  <2> QED
    BY <1>3, <2>2 DEF LogInsert, VolunteeringTypeOK
<1>4. CASE UpdateOpportunity
  BY <1>4 DEF UpdateOpportunity, VolunteeringTypeOK
<1>5. ASSUME NEW m \in Office, NEW e \in Enrollments, NEW to, EnrollmentRead(m, e, to)
      PROVE  VolunteeringTypeOK'
  <2> DEFINE errand == [at |-> "moving", of |-> e, to |-> to]
  <2>1. to \in {"accepted", "rejected", "completed"}
    BY <1>5 DEF EnrollmentRead, EnrollmentTransitions
  <2>2. errand \in Errand
    BY <2>1 DEF Errand
  <2>3. Start(m, errand)
    BY <1>5 DEF EnrollmentRead
  <2> HIDE DEF errand
  <2> QED
    BY <2>2, <2>3, <1>s
<1>6. ASSUME NEW m \in Office, EnrollmentWrite(m) PROVE VolunteeringTypeOK'
  <2>1. office[m].of \in Enrollments /\ office[m].to \in EnrollmentStatus
    BY <1>6, ErrandFields DEF EnrollmentWrite, VolunteeringTypeOK, EnrollmentStatus
  <2>2. enrollment' \in [Enrollments -> [status : EnrollmentStatus, kind : Kinds]]
    BY <1>6, <2>1 DEF EnrollmentWrite, VolunteeringTypeOK
  <2> QED
    BY <1>6, <2>2, NoErrandTyped DEF EnrollmentWrite, Finish, VolunteeringTypeOK
<1>7. ASSUME NEW m \in Office, NEW k \in Entries, NEW to \in {"approved", "rejected"},
             DecideHoursRead(m, k, to)
      PROVE  VolunteeringTypeOK'
  <2> DEFINE errand == [at |-> "judging", of |-> k, to |-> to]
  <2>1. errand \in Errand
    BY DEF Errand
  <2>2. Start(m, errand)
    BY <1>7 DEF DecideHoursRead
  <2> HIDE DEF errand
  <2> QED
    BY <2>1, <2>2, <1>s
<1>8. ASSUME NEW m \in Office, DecideHoursWrite(m) PROVE VolunteeringTypeOK'
  <2>1. office[m].of \in Entries /\ office[m].to \in EntryStatus
    BY <1>8, ErrandFields DEF DecideHoursWrite, VolunteeringTypeOK, EntryStatus
  <2>2. entry' \in [Entries -> Entry]
    BY <1>8, <2>1 DEF DecideHoursWrite, VolunteeringTypeOK, Entry
  <2>3. approved' \in SUBSET Entries
    BY <1>8, <2>1 DEF DecideHoursWrite, VolunteeringTypeOK
  <2> QED
    BY <1>8, <2>2, <2>3, NoErrandTyped DEF DecideHoursWrite, Finish, VolunteeringTypeOK
<1>9. ASSUME NEW m \in Office, NEW e \in Enrollments, IssueRead(m, e) PROVE VolunteeringTypeOK'
  <2> DEFINE errand == [at |-> "issuing", of |-> e, bitacora |-> ApprovedEntries(e),
                        total |-> SumHours(ApprovedEntries(e))]
  <2>1. SumHours(ApprovedEntries(e)) \in Nat
    BY HoursAddUp, ApprovedEntriesOf
  <2>2. errand \in Errand
    BY <2>1, ApprovedEntriesOf DEF Errand
  <2>3. Start(m, errand)
    BY <1>9 DEF IssueRead
  <2> HIDE DEF errand
  <2> QED
    BY <2>2, <2>3, <1>s
<1>10. ASSUME NEW m \in Office, IssueWrite(m) PROVE VolunteeringTypeOK'
  <2> DEFINE issued == [issued |-> TRUE, bitacora |-> office[m].bitacora, total |-> office[m].total]
  <2>1. issued \in Certificate
    BY <1>10, ErrandFields DEF IssueWrite, VolunteeringTypeOK, Certificate
  <2> HIDE DEF issued
  <2>2. certificate' \in [Enrollments -> Certificate]
    BY <1>10, <2>1 DEF IssueWrite, VolunteeringTypeOK, issued
  <2> QED
    BY <1>10, <2>2, NoErrandTyped DEF IssueWrite, Finish, VolunteeringTypeOK
<1>11. CASE UNCHANGED volunteeringVars
  BY <1>11 DEF volunteeringVars, VolunteeringTypeOK
<1> QED
  BY <1>1, <1>2, <1>3, <1>4, <1>5, <1>6, <1>7, <1>8, <1>9, <1>10, <1>11
     DEF VolunteeringNext, Volunteers, Coordination

(* Every variable of volunteering keeps its type.                          *)
THEOREM VolunteeringTypeCorrect == VolunteeringSpec => []VolunteeringTypeOK
  BY VolunteeringTypeInit, VolunteeringTypeStep, PTL DEF VolunteeringSpec

(***************************************************************************)
(* A certificate is of approved hours                                      *)
(***************************************************************************)
(* What the operations between two of their statements may rely on: an     *)
(* entry to be inserted is not there and is inserted once; whatever was    *)
(* approved, is judged or is moved has been there before.                  *)
Recorded ==
  /\ \A k \in Entries : entry[k].status = "approved" => k \in approved
  /\ \A k \in approved : entry[k].status # "none"
  /\ \A l \in logging : entry[l.of] = NoEntry
  /\ \A l, n \in logging : l.of = n.of => l = n
  /\ \A m \in Office :
       /\ office[m].at = "moving" => enrollment[office[m].of].status # "none"
       /\ office[m].at = "judging" => entry[office[m].of].status # "none"

(* What a certificate of these sessions would need, now and for ever.      *)
Earned(e, bitacora, total) ==
  /\ bitacora \subseteq approved \cap ({e} \X Slots)
  /\ total = SumHours(bitacora)
  /\ enrollment[e].status # "none"
  /\ enrollment[e].kind = "student" => total >= MinHours
  /\ enrollment[e].kind # "orphan"

CertificatesInv ==
  /\ Recorded
  /\ \A e \in Enrollments :
       certificate[e].issued => Earned(e, certificate[e].bitacora, certificate[e].total)
  /\ \A m \in Office :
       office[m].at = "issuing" => Earned(office[m].of, office[m].bitacora, office[m].total)

LEMMA CertificatesInit == VolunteeringInit => CertificatesInv
  BY DEF VolunteeringInit, CertificatesInv, Recorded, NoErrand, NoEntry, NoCertificate

(* No step forgets an approval, changes the hours of what was approved, or *)
(* changes what an enrollment is for once it has been made.                *)
Lasting ==
  /\ approved \subseteq approved'
  /\ \A k \in approved : entry'[k].hours = entry[k].hours
  /\ \A e \in Enrollments : enrollment[e].status # "none" =>
       enrollment'[e].status # "none" /\ enrollment'[e].kind = enrollment[e].kind

(* The same of the state a step leads to.                                  *)
EarnedNext(e, bitacora, total) ==
  /\ bitacora \subseteq approved' \cap ({e} \X Slots)
  /\ total = SumFunctionOnSet([k \in bitacora |-> entry'[k].hours], bitacora)
  /\ enrollment'[e].status # "none"
  /\ enrollment'[e].kind = "student" => total >= MinHours
  /\ enrollment'[e].kind # "orphan"

LEMMA EarnedLasts ==
  ASSUME Lasting, NEW e \in Enrollments, NEW bitacora, NEW total, Earned(e, bitacora, total)
  PROVE  EarnedNext(e, bitacora, total)
<1>1. bitacora \subseteq approved /\ total = SumHours(bitacora)
  BY DEF Earned
<1>2. [k \in bitacora |-> entry[k].hours] = [k \in bitacora |-> entry'[k].hours]
  BY <1>1 DEF Lasting
<1>3. total = SumFunctionOnSet([k \in bitacora |-> entry'[k].hours], bitacora)
  BY <1>1, <1>2 DEF SumHours
<1> QED
  BY <1>1, <1>3 DEF Earned, EarnedNext, Lasting

LEMMA CertificatesNext ==
  ASSUME Recorded',
         \A e \in Enrollments : certificate'[e].issued =>
           EarnedNext(e, certificate'[e].bitacora, certificate'[e].total),
         \A m \in Office : office'[m].at = "issuing" =>
           EarnedNext(office'[m].of, office'[m].bitacora, office'[m].total)
  PROVE  CertificatesInv'
  BY DEF CertificatesInv, Earned, EarnedNext, SumHours

(* The certificates and those about to be issued are as they were.         *)
LEMMA CertificatesKept ==
  ASSUME VolunteeringTypeOK, CertificatesInv, Lasting, Recorded', certificate' = certificate,
         \A m \in Office : office'[m].at = "issuing" => office'[m] = office[m]
  PROVE  CertificatesInv'
<1>1. ASSUME NEW e \in Enrollments, certificate'[e].issued
      PROVE  EarnedNext(e, certificate'[e].bitacora, certificate'[e].total)
  BY <1>1, EarnedLasts DEF CertificatesInv
<1>2. ASSUME NEW m \in Office, office'[m].at = "issuing"
      PROVE  EarnedNext(office'[m].of, office'[m].bitacora, office'[m].total)
  <2>1. office[m].of \in Enrollments /\ office'[m] = office[m]
    BY <1>2, ErrandFields DEF VolunteeringTypeOK
  <2>2. Earned(office[m].of, office[m].bitacora, office[m].total)
    BY <1>2, <2>1 DEF CertificatesInv
  <2> QED
    BY <2>1, <2>2, EarnedLasts
<1> QED
  BY <1>1, <1>2, CertificatesNext

(* Beginning an errand other than a certificate.                           *)
LEMMA StartKeeps ==
  ASSUME VolunteeringTypeOK, CertificatesInv, NEW m \in Office, NEW errand,
         Start(m, errand), errand.at \in {"moving", "judging"},
         errand.at = "moving" => enrollment[errand.of].status # "none",
         errand.at = "judging" => entry[errand.of].status # "none"
  PROVE  CertificatesInv'
<1>1. office'[m] = errand /\ \A n \in Office \ {m} : office'[n] = office[n]
  BY DEF Start, VolunteeringTypeOK
<1>2. Lasting
  BY DEF Start, Lasting
<1>3. Recorded'
  BY <1>1 DEF Start, CertificatesInv, Recorded
<1>4. \A n \in Office : office'[n].at = "issuing" => office'[n] = office[n]
  BY <1>1
<1> QED
  BY <1>2, <1>3, <1>4, CertificatesKept DEF Start

LEMMA CertificatesStep ==
  ASSUME VolunteeringTypeOK, CertificatesInv, [VolunteeringNext]_volunteeringVars
  PROVE  CertificatesInv'
<1>1. ASSUME NEW e \in Enrollments, NEW kind \in Kinds, Enroll(e, kind) PROVE CertificatesInv'
  <2>1. Lasting
    BY <1>1 DEF Enroll, Lasting, VolunteeringTypeOK
  <2>2. Recorded'
    BY <1>1, ErrandFields DEF Enroll, CertificatesInv, Recorded, VolunteeringTypeOK
  <2> QED
    BY <1>1, <2>1, <2>2, CertificatesKept DEF Enroll
<1>2. ASSUME NEW k \in Entries, NEW hours \in SlotHours, LogCheck(k, hours)
      PROVE  CertificatesInv'
  <2>1. Lasting
    BY <1>2 DEF LogCheck, Lasting
  <2>2. Recorded'
    BY <1>2 DEF LogCheck, CertificatesInv, Recorded
  <2> QED
    BY <1>2, <2>1, <2>2, CertificatesKept DEF LogCheck
<1>3. ASSUME NEW l \in logging, LogInsert(l) PROVE CertificatesInv'
  <2>1. /\ l.of \in Entries /\ entry[l.of].status = "none" /\ l.of \notin approved
        /\ \A n \in logging : n.of \in Entries
    BY DEF VolunteeringTypeOK, CertificatesInv, Recorded, NoEntry
  <2>2. /\ entry'[l.of].status = "pending"
        /\ \A k \in Entries \ {l.of} : entry'[k] = entry[k]
    BY <1>3, <2>1 DEF LogInsert, VolunteeringTypeOK
  <2>3. approved \in SUBSET Entries
    BY DEF VolunteeringTypeOK
  <2>4. Lasting
    BY <1>3, <2>1, <2>2, <2>3 DEF LogInsert, Lasting
  <2>5. \A n \in logging' : n \in logging /\ n.of # l.of
    BY <1>3 DEF LogInsert, CertificatesInv, Recorded
  <2>6. \A m \in Office : office[m].at = "judging" => office[m].of \in Entries
    BY ErrandFields DEF VolunteeringTypeOK
  <2>7. Recorded'
    BY <1>3, <2>1, <2>2, <2>3, <2>5, <2>6 DEF LogInsert, CertificatesInv, Recorded
  <2> QED
    BY <1>3, <2>4, <2>7, CertificatesKept DEF LogInsert
<1>4. CASE UpdateOpportunity
  <2>1. Lasting /\ Recorded'
    BY <1>4 DEF UpdateOpportunity, Lasting, CertificatesInv, Recorded
  <2> QED
    BY <1>4, <2>1, CertificatesKept DEF UpdateOpportunity
<1>5. ASSUME NEW m \in Office, NEW e \in Enrollments, NEW to, EnrollmentRead(m, e, to)
      PROVE  CertificatesInv'
  <2> DEFINE errand == [at |-> "moving", of |-> e, to |-> to]
  <2>1. enrollment[e].status # "none" /\ Start(m, errand)
    BY <1>5 DEF EnrollmentRead, EnrollmentTransitions
  <2>2. errand.at = "moving" /\ errand.of = e
    OBVIOUS
  <2> HIDE DEF errand
  <2> QED
    BY <2>1, <2>2, StartKeeps
<1>6. ASSUME NEW m \in Office, EnrollmentWrite(m) PROVE CertificatesInv'
  <2> DEFINE e == office[m].of
  <2>1. /\ e \in Enrollments /\ office[m].to # "none" /\ enrollment[e].status # "none"
    BY <1>6, ErrandFields DEF EnrollmentWrite, VolunteeringTypeOK, CertificatesInv, Recorded
  <2>2. /\ enrollment'[e].status = office[m].to /\ enrollment'[e].kind = enrollment[e].kind
        /\ \A d \in Enrollments \ {e} : enrollment'[d] = enrollment[d]
    BY <1>6, <2>1 DEF EnrollmentWrite, VolunteeringTypeOK
  <2>3. office'[m].at = "idle" /\ \A n \in Office \ {m} : office'[n] = office[n]
    BY <1>6 DEF EnrollmentWrite, Finish, NoErrand, VolunteeringTypeOK
  <2>4. Lasting
    BY <1>6, <2>1, <2>2 DEF EnrollmentWrite, Lasting
  <2>5. \A n \in Office : office'[n].at # "idle" => office'[n] = office[n]
    BY <2>3
  <2>6. \A n \in Office : office[n].at = "moving" => office[n].of \in Enrollments
    BY ErrandFields DEF VolunteeringTypeOK
  <2> HIDE DEF e
  <2>7. Recorded'
    BY <1>6, <2>1, <2>2, <2>5, <2>6 DEF EnrollmentWrite, CertificatesInv, Recorded
  <2> QED
    BY <1>6, <2>4, <2>5, <2>7, CertificatesKept DEF EnrollmentWrite
<1>7. ASSUME NEW m \in Office, NEW k \in Entries, NEW to \in {"approved", "rejected"},
             DecideHoursRead(m, k, to)
      PROVE  CertificatesInv'
  <2> DEFINE errand == [at |-> "judging", of |-> k, to |-> to]
  <2>1. entry[k].status # "none" /\ Start(m, errand)
    BY <1>7 DEF DecideHoursRead
  <2>2. errand.at = "judging" /\ errand.of = k
    OBVIOUS
  <2> HIDE DEF errand
  <2> QED
    BY <2>1, <2>2, StartKeeps
<1>8. ASSUME NEW m \in Office, DecideHoursWrite(m) PROVE CertificatesInv'
  <2> DEFINE k == office[m].of
  <2>1. /\ k \in Entries /\ office[m].to # "none" /\ entry[k].status # "none"
    BY <1>8, ErrandFields DEF DecideHoursWrite, VolunteeringTypeOK, CertificatesInv, Recorded
  <2>2. /\ entry'[k].status = office[m].to /\ entry'[k].hours = entry[k].hours
        /\ \A x \in Entries \ {k} : entry'[x] = entry[x]
    BY <1>8, <2>1 DEF DecideHoursWrite, VolunteeringTypeOK, Entry
  <2>3. office'[m].at = "idle" /\ \A n \in Office \ {m} : office'[n] = office[n]
    BY <1>8 DEF DecideHoursWrite, Finish, NoErrand, VolunteeringTypeOK
  <2>4. /\ approved \subseteq approved' /\ approved' \subseteq approved \cup {k}
        /\ office[m].to = "approved" => k \in approved'
    BY <1>8 DEF DecideHoursWrite
  <2>5. approved \in SUBSET Entries /\ \A l \in logging : l.of \in Entries
    BY DEF VolunteeringTypeOK
  <2>6. \A n \in Office : office'[n].at # "idle" => office'[n] = office[n]
    BY <2>3
  <2>7. \A n \in Office : office[n].at = "judging" => office[n].of \in Entries
    BY ErrandFields DEF VolunteeringTypeOK
  <2>8. \A l \in logging : l.of # k
    BY <2>1 DEF CertificatesInv, Recorded, NoEntry
  <2> HIDE DEF k
  <2>9. Lasting
    BY <1>8, <2>2, <2>4, <2>5 DEF DecideHoursWrite, Lasting
  <2>10. Recorded'
    BY <1>8, <2>1, <2>2, <2>4, <2>5, <2>6, <2>7, <2>8 DEF DecideHoursWrite, CertificatesInv, Recorded
  <2> QED
    BY <1>8, <2>6, <2>9, <2>10, CertificatesKept DEF DecideHoursWrite
<1>9. ASSUME NEW m \in Office, NEW e \in Enrollments, IssueRead(m, e) PROVE CertificatesInv'
  <2> DEFINE errand == [at |-> "issuing", of |-> e, bitacora |-> ApprovedEntries(e),
                        total |-> SumHours(ApprovedEntries(e))]
  <2>1. Start(m, errand)
    BY <1>9 DEF IssueRead
  <2>2. Earned(e, ApprovedEntries(e), SumHours(ApprovedEntries(e)))
    <3>1. ApprovedEntries(e) \subseteq approved \cap ({e} \X Slots)
      BY DEF ApprovedEntries, EntriesOf, Entries, CertificatesInv, Recorded
    <3>2. /\ enrollment[e].status # "none"
          /\ Eligible(enrollment[e].kind, SumHours(ApprovedEntries(e)))
      BY <1>9 DEF IssueRead
    <3> QED
      BY <3>1, <3>2 DEF Earned, Eligible
  <2>3. /\ errand.at = "issuing" /\ errand.of = e /\ errand.bitacora = ApprovedEntries(e)
        /\ errand.total = SumHours(ApprovedEntries(e))
    OBVIOUS
  <2> HIDE DEF errand
  <2>4. office'[m] = errand /\ \A n \in Office \ {m} : office'[n] = office[n]
    BY <2>1 DEF Start, VolunteeringTypeOK
  <2>5. UNCHANGED <<opportunity, enrollment, entry, certificate, logging, approved>>
    BY <2>1 DEF Start
  <2>6. Lasting
    BY <2>5 DEF Lasting
  <2>7. Recorded'
    BY <2>3, <2>4, <2>5 DEF CertificatesInv, Recorded
  <2>8. \A d \in Enrollments :
          certificate'[d].issued => EarnedNext(d, certificate'[d].bitacora, certificate'[d].total)
    BY <2>5, <2>6, EarnedLasts DEF CertificatesInv
  <2>9. EarnedNext(errand.of, errand.bitacora, errand.total)
    BY <2>2, <2>3, <2>6, EarnedLasts
  <2>10. ASSUME NEW n \in Office, office'[n].at = "issuing"
         PROVE  EarnedNext(office'[n].of, office'[n].bitacora, office'[n].total)
    <3>1. CASE n = m
      BY <2>4, <2>9, <3>1
    <3>2. CASE n # m
      <4>1. office'[n] = office[n] /\ office[n].of \in Enrollments
        BY <2>4, <2>10, <3>2, ErrandFields DEF VolunteeringTypeOK
      <4>2. Earned(office[n].of, office[n].bitacora, office[n].total)
        BY <2>10, <4>1 DEF CertificatesInv
      <4> QED
        BY <2>6, <4>1, <4>2, EarnedLasts
    <3> QED
      BY <3>1, <3>2
  <2> QED
    BY <2>7, <2>8, <2>10, CertificatesNext
<1>10. ASSUME NEW m \in Office, IssueWrite(m) PROVE CertificatesInv'
  <2> DEFINE e == office[m].of
  <2>1. e \in Enrollments /\ office[m].at = "issuing"
    BY <1>10, ErrandFields DEF IssueWrite, VolunteeringTypeOK
  <2>2. Earned(e, office[m].bitacora, office[m].total)
    BY <2>1 DEF CertificatesInv
  <2>3. office'[m].at = "idle" /\ \A n \in Office \ {m} : office'[n] = office[n]
    BY <1>10 DEF IssueWrite, Finish, NoErrand, VolunteeringTypeOK
  <2>4. UNCHANGED <<opportunity, enrollment, entry, logging, approved>>
    BY <1>10 DEF IssueWrite
  <2>5. Lasting
    BY <2>4 DEF Lasting
  <2>6. Recorded'
    BY <2>3, <2>4 DEF CertificatesInv, Recorded
  <2>7. /\ certificate[e].issued => certificate'[e] = certificate[e]
        /\ ~certificate[e].issued =>
             certificate'[e].bitacora = office[m].bitacora /\ certificate'[e].total = office[m].total
        /\ \A d \in Enrollments \ {e} : certificate'[d] = certificate[d]
    BY <1>10, <2>1 DEF IssueWrite, VolunteeringTypeOK
  <2> HIDE DEF e
  <2>8. ASSUME NEW d \in Enrollments, certificate'[d].issued
        PROVE  Earned(d, certificate'[d].bitacora, certificate'[d].total)
    BY <2>2, <2>7, <2>8 DEF CertificatesInv
  <2>9. ASSUME NEW n \in Office, office'[n].at = "issuing"
        PROVE  /\ office'[n].of \in Enrollments
               /\ Earned(office'[n].of, office'[n].bitacora, office'[n].total)
    <3>1. office'[n] = office[n]
      BY <2>3, <2>9
    <3> QED
      BY <2>9, <3>1, ErrandFields DEF VolunteeringTypeOK, CertificatesInv
  <2>10. \A d \in Enrollments : certificate'[d].issued =>
           EarnedNext(d, certificate'[d].bitacora, certificate'[d].total)
    BY <2>5, <2>8, EarnedLasts
  <2>11. \A n \in Office : office'[n].at = "issuing" =>
           EarnedNext(office'[n].of, office'[n].bitacora, office'[n].total)
    BY <2>5, <2>9, EarnedLasts
  <2> QED
    BY <2>6, <2>10, <2>11, CertificatesNext
<1>11. CASE UNCHANGED volunteeringVars
  <2>1. Lasting /\ Recorded'
    BY <1>11 DEF volunteeringVars, Lasting, CertificatesInv, Recorded
  <2> QED
    BY <1>11, <2>1, CertificatesKept DEF volunteeringVars
<1> QED
  BY <1>1, <1>2, <1>3, <1>4, <1>5, <1>6, <1>7, <1>8, <1>9, <1>10, <1>11
     DEF VolunteeringNext, Volunteers, Coordination

(* Each session in a certificate was approved for its enrollment, its      *)
(* total is the sum of their hours, and for the student service it is the  *)
(* minimum of someone whose guardian is known.                             *)
THEOREM CertificatesEarned == VolunteeringSpec => []CertificateEarned
<1>1. CertificatesInv => CertificateEarned
  BY DEF CertificatesInv, CertificateEarned, Earned
<1>2. VolunteeringTypeOK /\ CertificatesInv /\ [VolunteeringNext]_volunteeringVars => CertificatesInv'
  BY CertificatesStep
<1> QED
  BY <1>1, <1>2, VolunteeringTypeInit, VolunteeringTypeStep, CertificatesInit, PTL
     DEF VolunteeringSpec

(* A certificate that was issued is never replaced.                        *)
THEOREM CertificatesFinal == VolunteeringSpec => CertificateFinal
<1> DEFINE Step == \A e \in Enrollments : certificate[e].issued => certificate'[e] = certificate[e]
<1>1. ASSUME VolunteeringTypeOK, VolunteeringNext PROVE Step
  <2>1. ASSUME NEW m \in Office, IssueWrite(m) PROVE Step
    <3>1. office[m].at = "issuing" /\ office[m] \in Errand
      BY <1>1, <2>1 DEF IssueWrite, VolunteeringTypeOK
    <3>2. office[m].of \in Enrollments
      BY <3>1, ErrandFields
    <3> QED
      BY <1>1, <2>1, <3>2 DEF IssueWrite, VolunteeringTypeOK
  <2>2. CASE certificate' = certificate
    BY <2>2
  <2> QED
    BY <1>1, <2>1, <2>2
       DEF VolunteeringNext, Volunteers, Coordination, Enroll, LogCheck, LogInsert,
           UpdateOpportunity, EnrollmentRead, EnrollmentWrite, DecideHoursRead, DecideHoursWrite,
           IssueRead, Start
<1>2. VolunteeringTypeOK /\ [VolunteeringNext]_volunteeringVars => [Step]_volunteeringVars
  BY <1>1
<1> QED
  BY <1>2, VolunteeringTypeInit, VolunteeringTypeStep, PTL DEF VolunteeringSpec, CertificateFinal

(***************************************************************************)
(* The commission breakdown for every amount.  Each rounding moves a       *)
(* fraction by one half at most; what is left is linear arithmetic.        *)
(***************************************************************************)
LEMMA RoundingOfHundredths ==
  ASSUME NEW n \in Nat
  PROVE  /\ RoundPesosHalfUp(n, 100) \in Nat
         /\ 200 * RoundPesosHalfUp(n, 100) \in 2 * n - 99 .. 2 * n + 100
BY SMTT(20) DEF RoundPesosHalfUp

LEMMA RoundingOfGatewayFee ==
  ASSUME NEW n \in Nat
  PROVE  /\ RoundPesosHalfUp(n, 2000) \in Nat
         /\ 4000 * RoundPesosHalfUp(n, 2000) \in 2 * n - 1999 .. 2 * n + 2000
BY SMTT(20) DEF RoundPesosHalfUp

LEMMA RoundingOfGross ==
  ASSUME NEW n \in Nat
  PROVE  /\ RoundPesosHalfUp(n, 184173) \in Nat
         /\ 368346 * RoundPesosHalfUp(n, 184173) \in 2 * n - 184172 .. 2 * n + 184173
BY SMTT(20) DEF RoundPesosHalfUp

LEMMA FixedIs833 == Fixed = 833
<1>1. RoundPesosHalfUp(13300, 100) = 133
  BY DEF RoundPesosHalfUp
<1> QED BY <1>1 DEF Fixed, Iva, GatewayFixed

LEMMA IvaOfFee ==
  ASSUME NEW fee \in Nat
  PROVE  /\ Iva(fee) \in Nat
         /\ 200 * Iva(fee) \in 38 * fee - 99 .. 38 * fee + 100
<1> DEFINE n == 19 * fee
<1>1. n \in Nat /\ 2 * n = 38 * fee /\ Iva(fee) = RoundPesosHalfUp(n, 100)
  BY DEF Iva
<1> HIDE DEF n
<1>2. /\ RoundPesosHalfUp(n, 100) \in Nat
      /\ 200 * RoundPesosHalfUp(n, 100) \in 2 * n - 99 .. 2 * n + 100
  BY <1>1, RoundingOfHundredths
<1> QED BY SMTT(20), <1>1, <1>2

LEMMA PlatformFeeOf ==
  ASSUME NEW g \in Nat
  PROVE  /\ PlatformFee(g) \in Nat
         /\ 200 * PlatformFee(g) \in 8 * g - 99 .. 8 * g + 100
<1> DEFINE n == 4 * g
<1>1. n \in Nat /\ 2 * n = 8 * g /\ PlatformFee(g) = RoundPesosHalfUp(n, 100)
  BY DEF PlatformFee
<1> HIDE DEF n
<1>2. /\ RoundPesosHalfUp(n, 100) \in Nat
      /\ 200 * RoundPesosHalfUp(n, 100) \in 2 * n - 99 .. 2 * n + 100
  BY <1>1, RoundingOfHundredths
<1> QED BY SMTT(20), <1>1, <1>2

LEMMA GatewayFeeOf ==
  ASSUME NEW g \in Nat
  PROVE  /\ GatewayFee(g) \in Nat
         /\ 4000 * (GatewayFee(g) - 700) \in 106 * g - 1999 .. 106 * g + 2000
<1> DEFINE n == 53 * g
<1>1. /\ n \in Nat /\ 2 * n = 106 * g
      /\ GatewayFee(g) = RoundPesosHalfUp(n, 2000) + 700
  BY DEF GatewayFee, GatewayFixed
<1> HIDE DEF n
<1>2. /\ RoundPesosHalfUp(n, 2000) \in Nat
      /\ 4000 * RoundPesosHalfUp(n, 2000) \in 2 * n - 1999 .. 2 * n + 2000
  BY SMTT(20), <1>1, RoundingOfGatewayFee
<1> QED BY SMTT(20), <1>1, <1>2

(* The commissions of a gross are 7.9135 % of it and 833 pesos; their four *)
(* roundings add up to 2.19 pesos at most.                                 *)
LEMMA Drift ==
  ASSUME NEW g \in Nat
  PROVE  /\ FeesFromGross(g) \in Nat
         /\ 1000000 * FeesFromGross(g)
              \in 79135 * g + 833000000 - 2190000 .. 79135 * g + 833000000 + 2190000
<1> DEFINE pf == PlatformFee(g)
           gf == GatewayFee(g)
           pi == Iva(pf)
           gi == Iva(gf)
<1>1. pf \in Nat /\ 200 * pf \in 8 * g - 99 .. 8 * g + 100
  BY PlatformFeeOf
<1>2. gf \in Nat /\ 4000 * (gf - 700) \in 106 * g - 1999 .. 106 * g + 2000
  BY SMTT(20), GatewayFeeOf
<1>3. pi \in Nat /\ 200 * pi \in 38 * pf - 99 .. 38 * pf + 100
  <2> HIDE DEF pf
  <2> QED BY <1>1, IvaOfFee
<1>4. gi \in Nat /\ 200 * gi \in 38 * gf - 99 .. 38 * gf + 100
  <2> HIDE DEF gf
  <2> QED BY SMTT(20), <1>2, IvaOfFee
<1>5. FeesFromGross(g) = pf + pi + gf + gi
  BY DEF FeesFromGross
<1> HIDE DEF pf, gf, pi, gi
<1> QED BY SMTT(20), <1>1, <1>2, <1>3, <1>4, <1>5

(* What a donor who covers the commissions is charged for i pesos.         *)
LEMMA GrossOfDonor ==
  ASSUME NEW i \in Nat \ {0}
  PROVE  /\ Gross(i, "donor") \in Nat
         /\ 368346 * (Gross(i, "donor") - i - 833)
              \in 31654 * (i + 833) - 184172 .. 31654 * (i + 833) + 184173
<1> DEFINE n == 15827 * (i + 833)
<1>1. n \in Nat /\ 2 * n = 31654 * (i + 833)
  BY SMTT(20)
<1>2. Gross(i, "donor") = i + 833 + RoundPesosHalfUp(n, 184173)
  BY SMTT(20), FixedIs833 DEF Gross
<1> HIDE DEF n
<1>3. /\ RoundPesosHalfUp(n, 184173) \in Nat
      /\ 368346 * RoundPesosHalfUp(n, 184173) \in 2 * n - 184172 .. 2 * n + 184173
  BY SMTT(20), <1>1, RoundingOfGross
<1> DEFINE r == RoundPesosHalfUp(n, 184173)
<1>4. /\ r \in Nat
      /\ 368346 * r \in 2 * n - 184172 .. 2 * n + 184173
      /\ Gross(i, "donor") = i + 833 + r
  BY SMTT(20), <1>2, <1>3
<1> HIDE DEF r
<1> QED BY SMTT(20), <1>1, <1>4

LEMMA NetOfGross ==
  ASSUME NEW i \in Nat, NEW payer, Gross(i, payer) \in Nat
  PROVE  /\ Net(i, payer) \in Int
         /\ 1000000 * Net(i, payer)
              \in 920865 * Gross(i, payer) - 833000000 - 2190000
                  .. 920865 * Gross(i, payer) - 833000000 + 2190000
<1> DEFINE g == Gross(i, payer)
<1> HIDE DEF g
<1>1. g \in Nat /\ Net(i, payer) = g - FeesFromGross(g)
  BY DEF Net, g
<1>2. 1000000 * FeesFromGross(g)
        \in 79135 * g + 833000000 - 2190000 .. 79135 * g + 833000000 + 2190000
  BY SMTT(20), <1>1, Drift
<1>3. FeesFromGross(g) \in Nat
  BY SMTT(20), <1>1, Drift
<1> QED BY SMTT(20), <1>1, <1>2, <1>3 DEF g

LEMMA NetOfDonor ==
  ASSUME NEW i \in Nat \ {0}
  PROVE  /\ Net(i, "donor") \in Int
         /\ Net(i, "donor") - i \in -2 .. 2
<1> DEFINE g == Gross(i, "donor")
           net == Net(i, "donor")
<1>1. /\ g \in Nat
      /\ 368346 * (g - i - 833) >= 31654 * (i + 833) - 184172
      /\ 368346 * (g - i - 833) <= 31654 * (i + 833) + 184173
  BY SMTT(20), GrossOfDonor
<1>2. /\ net \in Int
      /\ 1000000 * net >= 920865 * g - 835190000
      /\ 1000000 * net <= 920865 * g - 830810000
  BY SMTT(20), <1>1, NetOfGross
<1> HIDE DEF g, net
<1>3. 920865 * g <= 1000000 * (i + 833) + 460433
  BY SMTT(20), <1>1
<1>4. 920865 * g >= 1000000 * (i + 833) - 460430
  BY SMTT(20), <1>1
<1>5. 1000000 * net < 1000000 * (i + 3) /\ 1000000 * net > 1000000 * (i - 3)
  BY SMTT(20), <1>1, <1>2, <1>3, <1>4
<1>6. net < i + 3 /\ net > i - 3
  BY SMTT(20), <1>2, <1>5
<1> QED BY SMTT(20), <1>2, <1>6 DEF net

LEMMA NetOfOrganization ==
  ASSUME NEW i \in Nat \ {0}
  PROVE  /\ Net(i, "organization") \in Int
         /\ 1000000 * Net(i, "organization")
              \in 920865 * i - 833000000 - 2190000 .. 920865 * i - 833000000 + 2190000
<1>1. Gross(i, "organization") = i
  BY DEF Gross
<1> QED BY SMTT(20), <1>1, NetOfGross

LEMMA BreakdownTypeCorrect == Spec => []TypeOK
<1>1. Init => TypeOK
  BY DEF Init, TypeOK
<1>2. TypeOK /\ [Next]_vars => TypeOK'
  BY DEF TypeOK, Next, EnterAmount, ToggleCover, vars
<1> QED BY <1>1, <1>2, PTL DEF Spec

(* The organization receives what the donor meant it to, to two pesos, for *)
(* any amount the donor who covers the commissions may choose.             *)
THEOREM ReachesIntended == Spec => []NetReachesIntended
<1>1. TypeOK => NetReachesIntended
  BY NetOfDonor, BreakdownAssumption DEF TypeOK, NetReachesIntended
<1> QED BY <1>1, BreakdownTypeCorrect, PTL

(* From 907 pesos on, and so from any minimum the form may have, the       *)
(* commissions never take a whole donation.                                *)
THEOREM AlwaysPositive == Spec => []NetIsPositive
<1>1. TypeOK => NetIsPositive
  <2> SUFFICES ASSUME TypeOK, intended >= MinDonationAmount
               PROVE  Net(intended, commissionPayer) > 0
    BY DEF NetIsPositive
  <2>1. intended \in Nat \ {0} /\ intended >= 907
    BY BreakdownAssumption DEF TypeOK
  <2> DEFINE i == intended
  <2>2. CASE commissionPayer = "donor"
    <3>1. Net(i, "donor") \in Int /\ Net(i, "donor") - i \in -2 .. 2
      BY <2>1, NetOfDonor
    <3>2. Net(i, "donor") > 0
      BY SMTT(20), <2>1, <3>1
    <3> QED BY <2>2, <3>2
  <2>3. CASE commissionPayer = "organization"
    <3>1. /\ Net(i, "organization") \in Int
          /\ 1000000 * Net(i, "organization") >= 920865 * i - 835190000
      BY SMTT(20), <2>1, NetOfOrganization
    <3>2. Net(i, "organization") > 0
      BY SMTT(20), <2>1, <3>1
    <3> QED BY <2>3, <3>2
  <2> QED BY <2>2, <2>3 DEF TypeOK
<1> QED BY <1>1, BreakdownTypeCorrect, PTL

(* Giving more, or covering the commissions, never leaves the organization *)
(* with less than three pesos below what it would have had.                *)
THEOREM NeverCosts == Spec => GivingMoreNeverCosts
<1> DEFINE Step ==
      /\ intended' >= intended /\ commissionPayer' = commissionPayer
           => Net(intended', commissionPayer') >= Net(intended, commissionPayer) - 3
      /\ commissionPayer' = "donor" /\ commissionPayer = "organization"
           => Net(intended', commissionPayer') > Net(intended, commissionPayer)
<1>1. TypeOK /\ TypeOK' /\ Next => Step
  <2> SUFFICES ASSUME TypeOK, TypeOK', Next
               PROVE  Step
    OBVIOUS
  <2> DEFINE i == intended
             j == intended'
  <2>1. i \in Nat \ {0} /\ j \in Nat \ {0}
    BY BreakdownAssumption DEF TypeOK
  <2>2. CASE EnterAmount
    <3>1. commissionPayer' = commissionPayer
      BY <2>2 DEF EnterAmount
    <3>2. j >= i => Net(j, "donor") >= Net(i, "donor") - 3
      <4> HIDE DEF i, j
      <4>0. CASE j = i
        BY SMTT(20), <2>1, <4>0, NetOfDonor
      <4>1. CASE j > i
        BY SMTT(20), <2>1, <4>1, NetOfDonor
      <4> QED BY <2>1, <4>0, <4>1
    <3>3. j >= i => Net(j, "organization") >= Net(i, "organization") - 3
      <4> HIDE DEF i, j
      <4>0. CASE j = i
        BY SMTT(20), <2>1, <4>0, NetOfOrganization
      <4>1. CASE j > i
        BY SMTT(20), <2>1, <4>1, NetOfOrganization
      <4> QED BY <2>1, <4>0, <4>1
    <3> QED BY <3>1, <3>2, <3>3 DEF TypeOK
  <2>3. CASE ToggleCover
    <3>1. j = i
      BY <2>3 DEF ToggleCover
    <3>2. Net(i, "donor") > Net(i, "organization")
      <4> HIDE DEF i
      <4>1. Net(i, "donor") \in Int /\ Net(i, "donor") >= i - 2
        BY SMTT(20), <2>1, NetOfDonor
      <4>2. /\ Net(i, "organization") \in Int
            /\ 1000000 * Net(i, "organization") <= 920865 * i - 830810000
        BY SMTT(20), <2>1, NetOfOrganization
      <4>3. Net(i, "organization") < i - 2
        BY SMTT(20), <2>1, <4>2
      <4> QED BY SMTT(20), <2>1, <4>1, <4>2, <4>3
    <3>3. commissionPayer' # commissionPayer
      BY <2>3 DEF ToggleCover, TypeOK
    <3> QED BY <3>1, <3>2, <3>3
  <2> QED BY <2>2, <2>3 DEF Next
<1> HIDE DEF Step
<1>2. TypeOK /\ TypeOK' /\ [Next]_vars => [Step]_vars
  BY <1>1
<1>3. Spec => [][Step]_vars
  BY <1>2, BreakdownTypeCorrect, PTL DEF Spec
<1> QED BY <1>3 DEF GivingMoreNeverCosts, Step

(***************************************************************************)
(* The run                                                                 *)
(***************************************************************************)
(* The run is of each component: it begins where the component begins, and *)
(* a step is a step of the component or leaves it alone.                   *)
LEMMA ServicesStep ==
  ServicesNext => /\ [ResourcesNext]_resourceVars
                  /\ [VolunteeringNext]_volunteeringVars
                  /\ [Next]_vars
                  /\ [SessionsNext]_sessionVars
                  /\ [FormalizationNext]_formalizationVars
                  /\ [FundingNext]_fundingVars
  BY DEF ServicesNext

(* Whatever is proved of a component is proved of the run it is checked in.*)
THEOREM RunsEachComponent ==
  ServicesSpec => /\ ResourcesSpec /\ VolunteeringSpec /\ Spec
                  /\ SessionsSpec /\ FormalizationSpec /\ FundingSpec
<1>1. ServicesInit => /\ ResourcesInit /\ VolunteeringInit /\ Init
                      /\ SessionsInit /\ FormalizationInit /\ FundingInit
  BY DEF ServicesInit
<1>2. [ServicesNext]_servicesVars => /\ [ResourcesNext]_resourceVars
                                     /\ [VolunteeringNext]_volunteeringVars
                                     /\ [Next]_vars
                                     /\ [SessionsNext]_sessionVars
                                     /\ [FormalizationNext]_formalizationVars
                                     /\ [FundingNext]_fundingVars
  BY ServicesStep DEF servicesVars
<1> QED
  BY <1>1, <1>2, PTL
     DEF ServicesSpec, ResourcesSpec, VolunteeringSpec, Spec, SessionsSpec, FormalizationSpec,
         FundingSpec

(* Every variable of the six components keeps its type.                   *)
THEOREM ServicesTypeCorrect == ServicesSpec => []ServicesTypeOK
<1>1. ServicesTypeOK <=>
        /\ ResourcesTypeOK
        /\ VolunteeringTypeOK
        /\ TypeOK
        /\ SessionsTypeOK
        /\ FormalizationTypeOK
        /\ FundingTypeOK
  BY DEF ServicesTypeOK
<1> QED
  BY <1>1, RunsEachComponent, ResourcesTypeCorrect, VolunteeringTypeCorrect,
     BreakdownTypeCorrect, SessionsTypeCorrect, FormalizationTypeCorrect, TypeCorrect, PTL
=============================================================================
