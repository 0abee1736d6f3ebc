---------------------------- MODULE Donations_proofs ----------------------------
(***************************************************************************)
(* Proofs about Donations, for any number of donations, requests, webhooks *)
(* and certificate requests.                                               *)
(***************************************************************************)
EXTENDS Donations, TLAPS

(* What a webhook between two of its steps knows: the status it was told   *)
(* is final if it is terminal, and the donation it approved is approved.   *)
WebhookKnows(w) ==
  /\ webhook[w].at = "applying" /\ webhook[w].status \in Terminal
       => order[webhook[w].event[1]] = webhook[w].status
  /\ webhook[w].at \in {"certifying", "linking"} => donation[webhook[w].event[1]] = "approved"

OfficerKnows(o) == officer[o].at = "issuing" => donation[officer[o].for] = "approved"

Inv ==
  /\ TypeOK
  /\ \A w \in Webhooks : WebhookKnows(w)
  /\ \A o \in Officers : OfficerKnows(o)
  /\ AgreesWithGateway
  /\ PapersMatch

(***************************************************************************)
(* Type correctness                                                        *)
(***************************************************************************)
LEMMA RequestAt ==
  ASSUME TypeOK, NEW r \in Requests, request[r].at \in {"charging", "recording"}
  PROVE  request[r] \in [at : {"charging", "recording"}, for : Donations]
BY DEF TypeOK, Request

LEMMA WebhookAt ==
  ASSUME TypeOK, NEW w \in Webhooks, webhook[w].at \in {"applying", "certifying", "linking"}
  PROVE  /\ webhook[w] \in [at : {"applying", "certifying", "linking"}, event : Event, status : OrderStatus]
         /\ webhook[w].event[1] \in Donations
<1>1. webhook[w] \in [at : {"applying", "certifying", "linking"}, event : Event, status : OrderStatus]
  BY DEF TypeOK, Webhook
<1> QED
  BY <1>1 DEF Event

LEMMA OfficerAt ==
  ASSUME TypeOK, NEW o \in Officers, officer[o].at = "issuing"
  PROVE  officer[o] \in [at : {"issuing"}, for : Donations]
BY DEF TypeOK, Officer

LEMMA IdleTypes == Idle \in Request /\ Idle \in Webhook /\ Idle \in Officer
BY DEF Idle, Request, Webhook, Officer

LEMMA MakeOrderTypes ==
  ASSUME TypeOK, NEW d \in Donations, NEW status \in OrderStatus \ {"none"}, MakeOrder(d, status)
  PROVE  order' \in [Donations -> OrderStatus] /\ due' \subseteq Event
<1>1. <<d, status>> \in Event
  BY DEF Event
<1> QED
  BY <1>1 DEF MakeOrder, gateway, TypeOK

LEMMA InitType == Init => TypeOK
BY IdleTypes, DonationAssumption DEF Init, TypeOK, OrderStatus, DonationStatus

LEMMA StepType == TypeOK /\ [Next]_vars => TypeOK'
<1> SUFFICES ASSUME TypeOK, [Next]_vars PROVE TypeOK'
  OBVIOUS
<1> USE IdleTypes DEF gateway, tables
<1>1. CASE UNCHANGED vars
  BY <1>1 DEF vars, TypeOK
<1>2. ASSUME NEW r \in Requests, NEW d \in Donations, PreCheck(r, d) PROVE TypeOK'
  <2>1. [at |-> "charging", for |-> d] \in Request
    BY DEF Request
  <2> QED
    BY <1>2, <2>1 DEF PreCheck, TypeOK
<1>3. ASSUME NEW r \in Requests, CreateCollection(r) PROVE TypeOK'
  <2>1. request[r] \in [at : {"charging", "recording"}, for : Donations]
    BY <1>3, RequestAt DEF CreateCollection
  <2>2. [request[r] EXCEPT !.at = "recording"] \in Request
    BY <2>1 DEF Request
  <2>3. request' \in [Requests -> Request]
    BY <1>3, <2>2 DEF CreateCollection, TypeOK
  <2>4. order' \in [Donations -> OrderStatus] /\ due' \subseteq Event
    BY <1>3, <2>1, MakeOrderTypes DEF CreateCollection
  <2> QED
    BY <1>3, <2>3, <2>4 DEF CreateCollection, TypeOK
<1>4. ASSUME NEW r \in Requests, CreateCollectionThrows(r) PROVE TypeOK'
  <2>1. request[r] \in [at : {"charging", "recording"}, for : Donations]
    BY <1>4, RequestAt DEF CreateCollectionThrows
  <2>2. order' \in [Donations -> OrderStatus] /\ due' \subseteq Event
    BY <1>4, <2>1, MakeOrderTypes DEF CreateCollectionThrows, TypeOK
  <2>3. faults' \in 0 .. MaxFaults
    BY <1>4, DonationAssumption DEF CreateCollectionThrows, TypeOK
  <2> QED
    BY <1>4, <2>2, <2>3 DEF CreateCollectionThrows, TypeOK
<1>5. ASSUME NEW r \in Requests, CreateDonation(r) PROVE TypeOK'
  BY <1>5 DEF CreateDonation, TypeOK, DonationStatus
<1>6. ASSUME NEW w \in Webhooks, NEW e \in Event, VerifyAndNormalizeWebhook(w, e) PROVE TypeOK'
  <2>1. e[1] \in Donations
    BY DEF Event
  <2>2. [at |-> "applying", event |-> e, status |-> order[e[1]]] \in Webhook
    BY <2>1 DEF Webhook, TypeOK
  <2> QED
    BY <1>6, <2>2 DEF VerifyAndNormalizeWebhook, TypeOK
<1>7. ASSUME NEW w \in Webhooks, ApplyApproved(w) PROVE TypeOK'
  <2>1. /\ webhook[w] \in [at : {"applying", "certifying", "linking"}, event : Event, status : OrderStatus]
        /\ webhook[w].event[1] \in Donations
    BY <1>7, WebhookAt DEF ApplyApproved
  <2>2. [webhook[w] EXCEPT !.at = "certifying"] \in Webhook
    BY <2>1 DEF Webhook
  <2>3. webhook' \in [Webhooks -> Webhook]
    BY <1>7, <2>2 DEF ApplyApproved, TypeOK
  <2> QED
    BY <1>7, <2>1, <2>3 DEF ApplyApproved, TypeOK, DonationStatus
<1>8. ASSUME NEW w \in Webhooks, ApplyDeclined(w) PROVE TypeOK'
  BY <1>8 DEF ApplyDeclined, Acknowledge, TypeOK, DonationStatus
<1>9. ASSUME NEW w \in Webhooks, ApplyNothing(w) PROVE TypeOK'
  BY <1>9 DEF ApplyNothing, Acknowledge, TypeOK
<1>10. ASSUME NEW w \in Webhooks, TryIssueForApprovedDonation(w) PROVE TypeOK'
  <2>1. webhook[w] \in [at : {"applying", "certifying", "linking"}, event : Event, status : OrderStatus]
    BY <1>10, WebhookAt DEF TryIssueForApprovedDonation
  <2>2. [webhook[w] EXCEPT !.at = "linking"] \in Webhook
    BY <2>1 DEF Webhook
  <2>3. webhook' \in [Webhooks -> Webhook]
    BY <1>10, <2>2 DEF TryIssueForApprovedDonation, TypeOK
  <2> QED
    BY <1>10, <2>3 DEF TryIssueForApprovedDonation, Issue, TypeOK
<1>11. ASSUME NEW w \in Webhooks, IssueGuestAccessLink(w) PROVE TypeOK'
  BY <1>11, WebhookAt DEF IssueGuestAccessLink, Acknowledge, TypeOK
<1>12. ASSUME NEW o \in Officers, NEW d \in Donations, GenerateForOrganization(o, d) PROVE TypeOK'
  <2>1. [at |-> "issuing", for |-> d] \in Officer
    BY DEF Officer
  <2> QED
    BY <1>12, <2>1 DEF GenerateForOrganization, TypeOK
<1>13. ASSUME NEW o \in Officers, IssueForOrganization(o) PROVE TypeOK'
  BY <1>13 DEF IssueForOrganization, Issue, TypeOK
<1>14. ASSUME NEW d \in Donations, OrderSettles(d) PROVE TypeOK'
  BY <1>14 DEF OrderSettles, Terminal, OrderStatus, Event, TypeOK
<1>15. CASE ProfileChanges
  BY <1>15 DEF ProfileChanges, TypeOK
<1>16. CASE Crash
  BY <1>16, DonationAssumption DEF Crash, TypeOK
<1> QED
  BY <1>1, <1>2, <1>3, <1>4, <1>5, <1>6, <1>7, <1>8, <1>9, <1>10, <1>11, <1>12, <1>13, <1>14, <1>15, <1>16
     DEF Next, RequestStep, WebhookStep

(* Every reachable state is well typed. *)
THEOREM TypeCorrect == Spec => []TypeOK
BY InitType, StepType, PTL DEF Spec

(***************************************************************************)
(* What no step undoes: a settled order, a settled donation.               *)
(***************************************************************************)
LEMMA OrderIsFinal ==
  ASSUME TypeOK, [Next]_vars, NEW d \in Donations, order[d] \in Terminal
  PROVE  order'[d] = order[d]
<1> USE DEF gateway, Terminal
<1>1. ASSUME NEW r \in Requests, NEW status, MakeOrder(request[r].for, status), request[r].at = "charging"
      PROVE  order'[d] = order[d]
  BY <1>1, RequestAt DEF MakeOrder, TypeOK
<1>2. ASSUME NEW e \in Donations, OrderSettles(e) PROVE order'[d] = order[d]
  BY <1>2 DEF OrderSettles, TypeOK
<1> QED
  BY <1>1, <1>2 DEF Next, RequestStep, WebhookStep, vars, PreCheck, CreateCollection,
     CreateCollectionThrows, CreateDonation, VerifyAndNormalizeWebhook, ApplyApproved,
     ApplyDeclined, ApplyNothing, TryIssueForApprovedDonation, IssueGuestAccessLink,
     GenerateForOrganization, IssueForOrganization, ProfileChanges, Crash

LEMMA DonationIsFinal ==
  ASSUME TypeOK, [Next]_vars, NEW d \in Donations, donation[d] \in Terminal
  PROVE  donation'[d] = donation[d]
<1> USE DEF tables, Terminal
<1>1. ASSUME NEW r \in Requests, CreateDonation(r) PROVE donation'[d] = donation[d]
  BY <1>1, RequestAt DEF CreateDonation, TypeOK
<1>2. ASSUME NEW w \in Webhooks, ApplyApproved(w) PROVE donation'[d] = donation[d]
  BY <1>2 DEF ApplyApproved, Settles, TypeOK
<1>3. ASSUME NEW w \in Webhooks, ApplyDeclined(w) PROVE donation'[d] = donation[d]
  BY <1>3 DEF ApplyDeclined, Settles, TypeOK
<1> QED
  BY <1>1, <1>2, <1>3 DEF Next, RequestStep, WebhookStep, vars, PreCheck, CreateCollection,
     CreateCollectionThrows, VerifyAndNormalizeWebhook, ApplyNothing,
     TryIssueForApprovedDonation, IssueGuestAccessLink, GenerateForOrganization,
     IssueForOrganization, OrderSettles, ProfileChanges, Crash

(* A donation is only settled by a webhook that was told so. *)
LEMMA SettledByWebhook ==
  ASSUME TypeOK, [Next]_vars, NEW d \in Donations,
         donation'[d] \in Terminal, donation[d] \notin Terminal
  PROVE  \E w \in Webhooks :
           /\ webhook[w].at = "applying"
           /\ webhook[w].event[1] = d
           /\ webhook[w].status = donation'[d]
<1> USE DEF tables, Terminal
<1>1. ASSUME NEW r \in Requests, CreateDonation(r) PROVE FALSE
  BY <1>1, RequestAt DEF CreateDonation, TypeOK
<1>2. ASSUME NEW w \in Webhooks, ApplyApproved(w)
      PROVE  webhook[w].at = "applying" /\ webhook[w].event[1] = d /\ webhook[w].status = donation'[d]
  BY <1>2, WebhookAt DEF ApplyApproved, TypeOK
<1>3. ASSUME NEW w \in Webhooks, ApplyDeclined(w)
      PROVE  webhook[w].at = "applying" /\ webhook[w].event[1] = d /\ webhook[w].status = donation'[d]
  BY <1>3, WebhookAt DEF ApplyDeclined, TypeOK
<1> QED
  BY <1>1, <1>2, <1>3 DEF Next, RequestStep, WebhookStep, vars, PreCheck, CreateCollection,
     CreateCollectionThrows, VerifyAndNormalizeWebhook, ApplyNothing,
     TryIssueForApprovedDonation, IssueGuestAccessLink, GenerateForOrganization,
     IssueForOrganization, OrderSettles, ProfileChanges, Crash

(***************************************************************************)
(* The invariant                                                           *)
(***************************************************************************)
LEMMA StepAgrees == Inv /\ [Next]_vars => AgreesWithGateway'
<1> SUFFICES ASSUME Inv, [Next]_vars, NEW d \in Donations, donation'[d] \in Terminal
             PROVE  order'[d] = donation'[d]
  BY DEF AgreesWithGateway, Terminal
<1>1. CASE donation[d] \in Terminal
  BY <1>1, OrderIsFinal, DonationIsFinal DEF Inv, AgreesWithGateway
<1>2. CASE donation[d] \notin Terminal
  <2>1. order[d] = donation'[d]
    BY <1>2, SettledByWebhook DEF Inv, WebhookKnows
  <2> QED
    BY <2>1, OrderIsFinal DEF Inv
<1> QED
  BY <1>1, <1>2

LEMMA StepWebhook ==
  ASSUME Inv, [Next]_vars, NEW w \in Webhooks
  PROVE  WebhookKnows(w)'
<1>1. CASE webhook'[w] = webhook[w]
  <2>1. CASE webhook[w].at = "applying"
    BY <1>1, <2>1, OrderIsFinal, WebhookAt DEF Inv, WebhookKnows
  <2>2. CASE webhook[w].at \in {"certifying", "linking"}
    <3>1. donation[webhook[w].event[1]] = "approved" /\ webhook[w].event[1] \in Donations
      BY <2>2, WebhookAt DEF Inv, WebhookKnows
    <3> QED
      BY <1>1, <2>2, <3>1, DonationIsFinal DEF Inv, WebhookKnows, Terminal
  <2> QED
    BY <1>1, <2>1, <2>2 DEF WebhookKnows
<1>2. CASE webhook'[w] = Idle
  BY <1>2 DEF WebhookKnows, Idle
<1>3. ASSUME NEW e \in Event, VerifyAndNormalizeWebhook(w, e) PROVE WebhookKnows(w)'
  BY <1>3 DEF VerifyAndNormalizeWebhook, gateway, WebhookKnows, Inv, TypeOK
<1>4. CASE ApplyApproved(w)
  <2>1. webhook[w].event[1] \in Donations
    BY <1>4, WebhookAt DEF ApplyApproved, Inv
  <2>2. webhook'[w].at = "certifying" /\ webhook'[w].event = webhook[w].event
    BY <1>4 DEF ApplyApproved, Inv, TypeOK
  <2>3. donation'[webhook[w].event[1]] = "approved"
    BY <1>4, <2>1 DEF ApplyApproved, Inv, TypeOK
  <2> QED
    BY <2>2, <2>3 DEF WebhookKnows
<1>5. CASE TryIssueForApprovedDonation(w)
  <2>1. webhook'[w].at = "linking" /\ webhook'[w].event = webhook[w].event
    BY <1>5 DEF TryIssueForApprovedDonation, Inv, TypeOK
  <2>2. donation' = donation /\ donation[webhook[w].event[1]] = "approved"
    BY <1>5 DEF TryIssueForApprovedDonation, Inv, WebhookKnows
  <2> QED
    BY <2>1, <2>2 DEF WebhookKnows
<1>6. CASE Crash
  BY <1>2, <1>6 DEF Crash
<1>7. CASE UNCHANGED webhook
  BY <1>1, <1>7
<1>8. ASSUME NEW v \in Webhooks, v # w \/ ApplyDeclined(v) \/ ApplyNothing(v) \/ IssueGuestAccessLink(v),
             WebhookStep(v) \/ \E e \in Event : VerifyAndNormalizeWebhook(v, e)
      PROVE  webhook'[w] = webhook[w] \/ webhook'[w] = Idle
  BY <1>8 DEF WebhookStep, VerifyAndNormalizeWebhook, ApplyApproved, ApplyDeclined, ApplyNothing,
     TryIssueForApprovedDonation, IssueGuestAccessLink, Acknowledge, Inv, TypeOK
<1> QED
  BY <1>1, <1>2, <1>3, <1>4, <1>5, <1>6, <1>7, <1>8 DEF Next, RequestStep, WebhookStep, vars, PreCheck,
     CreateCollection, CreateCollectionThrows, CreateDonation, GenerateForOrganization,
     IssueForOrganization, OrderSettles, ProfileChanges

LEMMA StepOfficer ==
  ASSUME Inv, [Next]_vars, NEW o \in Officers
  PROVE  OfficerKnows(o)'
<1>1. CASE officer'[o] = officer[o]
  BY <1>1, OfficerAt, DonationIsFinal DEF Inv, OfficerKnows, Terminal
<1>2. CASE officer'[o] = Idle
  BY <1>2 DEF OfficerKnows, Idle
<1>3. ASSUME NEW d \in Donations, GenerateForOrganization(o, d) PROVE OfficerKnows(o)'
  BY <1>3 DEF GenerateForOrganization, tables, OfficerKnows, Inv, TypeOK
<1>4. ASSUME NEW u \in Officers, NEW d \in Donations, GenerateForOrganization(u, d), u # o
      PROVE  officer'[o] = officer[o]
  BY <1>4 DEF GenerateForOrganization, Inv, TypeOK
<1>5. ASSUME NEW u \in Officers, IssueForOrganization(u)
      PROVE  officer'[o] = officer[o] \/ officer'[o] = Idle
  BY <1>5 DEF IssueForOrganization, Inv, TypeOK
<1>6. CASE Crash
  BY <1>2, <1>6 DEF Crash
<1>7. CASE UNCHANGED officer
  BY <1>1, <1>7
<1> QED
  BY <1>1, <1>2, <1>3, <1>4, <1>5, <1>6, <1>7 DEF Next, RequestStep, WebhookStep, vars, PreCheck,
     CreateCollection, CreateCollectionThrows, CreateDonation, VerifyAndNormalizeWebhook,
     ApplyApproved, ApplyDeclined, ApplyNothing, TryIssueForApprovedDonation,
     IssueGuestAccessLink, OrderSettles, ProfileChanges

LEMMA StepPapers == Inv /\ [Next]_vars => PapersMatch'
<1> SUFFICES ASSUME Inv, [Next]_vars PROVE PapersMatch'
  OBVIOUS
<1> USE DEF tables, Inv
<1>1. CASE UNCHANGED <<donation, receipt, certificate, link>>
  BY <1>1 DEF PapersMatch
<1>2. ASSUME NEW r \in Requests, CreateDonation(r) PROVE PapersMatch'
  BY <1>2, RequestAt DEF CreateDonation, PapersMatch, TypeOK
<1>3. ASSUME NEW w \in Webhooks, ApplyApproved(w) PROVE PapersMatch'
  BY <1>3, WebhookAt DEF ApplyApproved, PapersMatch, TypeOK
<1>4. ASSUME NEW w \in Webhooks, ApplyDeclined(w) PROVE PapersMatch'
  BY <1>4, WebhookAt DEF ApplyDeclined, Settles, PapersMatch, TypeOK
<1>5. ASSUME NEW w \in Webhooks, TryIssueForApprovedDonation(w) PROVE PapersMatch'
  <2>1. donation[webhook[w].event[1]] = "approved"
    BY <1>5 DEF TryIssueForApprovedDonation, WebhookKnows
  <2> QED
    BY <1>5, <2>1, WebhookAt DEF TryIssueForApprovedDonation, Issue, PapersMatch, TypeOK
<1>6. ASSUME NEW w \in Webhooks, IssueGuestAccessLink(w) PROVE PapersMatch'
  <2>1. donation[webhook[w].event[1]] = "approved"
    BY <1>6 DEF IssueGuestAccessLink, WebhookKnows
  <2> QED
    BY <1>6, <2>1, WebhookAt DEF IssueGuestAccessLink, PapersMatch, TypeOK
<1>7. ASSUME NEW o \in Officers, IssueForOrganization(o) PROVE PapersMatch'
  <2>1. donation[officer[o].for] = "approved"
    BY <1>7 DEF IssueForOrganization, OfficerKnows
  <2> QED
    BY <1>7, <2>1, OfficerAt DEF IssueForOrganization, Issue, PapersMatch, TypeOK
<1> QED
  BY <1>1, <1>2, <1>3, <1>4, <1>5, <1>6, <1>7 DEF Next, RequestStep, WebhookStep, vars, PreCheck,
     CreateCollection, CreateCollectionThrows, VerifyAndNormalizeWebhook, ApplyNothing,
     GenerateForOrganization, OrderSettles, ProfileChanges, Crash

LEMMA InitInv == Init => Inv
BY InitType DEF Init, Inv, WebhookKnows, OfficerKnows, Idle, AgreesWithGateway, PapersMatch, Terminal

THEOREM Invariance == Spec => []Inv
<1>1. Inv /\ [Next]_vars => Inv'
  BY StepType, StepWebhook, StepOfficer, StepAgrees, StepPapers DEF Inv
<1> QED
  BY <1>1, InitInv, PTL DEF Spec

(* The donations table never says of the money what the gateway does not. *)
THEOREM AlwaysAgrees == Spec => []AgreesWithGateway
BY Invariance, PTL DEF Inv

(* Receipts stand for the approved donations, no more and no fewer. *)
THEOREM AlwaysPapersMatch == Spec => []PapersMatch
BY Invariance, PTL DEF Inv

(* No step replaces a certificate. *)
THEOREM Sealed == Spec => CertificateIsSealed
<1>1. ASSUME TypeOK, [Next]_vars, NEW d \in Donations, certificate[d] # "none"
      PROVE  certificate'[d] = certificate[d]
  BY <1>1 DEF Next, RequestStep, WebhookStep, vars, tables, PreCheck, CreateCollection,
     CreateCollectionThrows, CreateDonation, VerifyAndNormalizeWebhook, ApplyApproved,
     ApplyDeclined, ApplyNothing, TryIssueForApprovedDonation, IssueGuestAccessLink,
     GenerateForOrganization, IssueForOrganization, Issue, OrderSettles, ProfileChanges, Crash, TypeOK
<1>2. TypeOK /\ [Next]_vars
        => [\A d \in Donations : certificate[d] # "none" => certificate'[d] = certificate[d]]_vars
  BY <1>1
<1> QED
  BY <1>2, TypeCorrect, PTL DEF Spec, CertificateIsSealed
=============================================================================
