------------------------------- MODULE Donations -------------------------------
(***************************************************************************)
(* A donation from the donor's click to its receipt, certificate and guest *)
(* link.                                                                   *)
(*                                                                         *)
(* The API charges the card first (an order at the gateway, made once per  *)
(* idempotency key) and records the donation afterwards, always as         *)
(* pending.  Only the gateway's notifications settle it: each change of an *)
(* order is notified until the API answers 2xx, possibly more than once    *)
(* and in any order, and the API asks the gateway what the order's status  *)
(* is now.                                                                 *)
(*                                                                         *)
(* One step is one database transaction or one gateway call.               *)
(***************************************************************************)
EXTENDS Integers, FiniteSets

CONSTANTS
  Donations,  \* by idempotency key, and so by collection id
  Guests,     \* those made without an account, with an e-mail
  Requests,   \* requests POST /donations being served
  Webhooks,   \* requests POST /donations/webhook being served
  Officers,   \* organization users asking for a certificate
  MaxFaults   \* bound: restarts of the API process and calls that time out

ASSUME DonationAssumption ==
  /\ Guests \subseteq Donations
  /\ MaxFaults \in Nat

VARIABLES
  order,        \* the gateway's orders
  due,          \* notifications the API has not acknowledged
  donation,     \* table donations: status
  receipt,      \* table donation_receipts
  certificate,  \* table donation_certificates: who had it issued
  link,         \* table donation_access_links
  eligible,     \* the organization is an ESAL with a valid RTE and a NIT
  request,      \* requests between two of their steps
  webhook,      \* webhooks between two of their steps
  officer,      \* certificate requests between two of their steps
  faults

gateway == <<order, due>>
tables  == <<donation, receipt, certificate, link, eligible>>
vars    == <<gateway, tables, request, webhook, officer, faults>>

OrderStatus    == {"none", "pending", "approved", "declined"}
DonationStatus == {"none", "pending", "approved", "declined"}
Terminal       == {"approved", "declined"}

(* A notification, by the dedupKey <order id>-<status>.                    *)
Event == Donations \X (OrderStatus \ {"none"})

(* A request is about to charge a donation, or to record one it charged.   *)
Request == [at : {"idle"}] \cup [at : {"charging", "recording"}, for : Donations]

(* A webhook has asked the order's status and is about to apply it, or has *)
(* approved the donation and is about to issue its certificate, its link.  *)
Webhook == [at : {"idle"}]
             \cup [at : {"applying", "certifying", "linking"}, event : Event, status : OrderStatus]

Officer == [at : {"idle"}] \cup [at : {"issuing"}, for : Donations]

Idle == [at |-> "idle"]

Init ==
  /\ order = [d \in Donations |-> "none"]
  /\ due = {}
  /\ donation = [d \in Donations |-> "none"]
  /\ receipt = {}
  /\ certificate = [d \in Donations |-> "none"]
  /\ link = {}
  /\ eligible \in BOOLEAN
  /\ request = [r \in Requests |-> Idle]
  /\ webhook = [w \in Webhooks |-> Idle]
  /\ officer = [o \in Officers |-> Idle]
  /\ faults = 0

(***************************************************************************)
(* DonationsService.create                                                 *)
(***************************************************************************)
(* A retry finds the donation and ends here.                               *)
PreCheck(r, d) ==
  /\ request[r] = Idle
  /\ donation[d] = "none"
  /\ request' = [request EXCEPT ![r] = [at |-> "charging", for |-> d]]
  /\ UNCHANGED <<gateway, tables, webhook, officer, faults>>

(* The gateway answers a key it has seen with the order it made then.      *)
MakeOrder(d, status) ==
  IF order[d] = "none"
    THEN /\ order' = [order EXCEPT ![d] = status]
         /\ due' = due \cup {<<d, status>>}
    ELSE UNCHANGED gateway

CreateCollection(r) ==
  /\ request[r].at = "charging"
  /\ \E status \in OrderStatus \ {"none"} : MakeOrder(request[r].for, status)
  /\ request' = [request EXCEPT ![r].at = "recording"]
  /\ UNCHANGED <<tables, webhook, officer, faults>>

(* createCollection throws; a call that timed out has made its order.      *)
CreateCollectionThrows(r) ==
  /\ request[r].at = "charging"
  /\ \/ UNCHANGED <<gateway, faults>>
     \/ /\ faults < MaxFaults
        /\ faults' = faults + 1
        /\ \E status \in OrderStatus \ {"none"} : MakeOrder(request[r].for, status)
  /\ request' = [request EXCEPT ![r] = Idle]
  /\ UNCHANGED <<tables, webhook, officer>>

(* Mutant: the gateway's immediate answer is stored.                       *)
RecordSettled(r) ==
  LET d == request[r].for IN
  /\ request[r].at = "recording"
  /\ donation' = [donation EXCEPT ![d] = IF @ = "none" THEN order[d] ELSE @]
  /\ request' = [request EXCEPT ![r] = Idle]
  /\ UNCHANGED <<gateway, receipt, certificate, link, eligible, webhook, officer, faults>>

(* Mutant: ... as the gateway spells it.                                   *)
RecordUnmapped(r) ==
  /\ request[r].at = "recording"
  /\ donation' = [donation EXCEPT ![request[r].for] = IF @ = "none" THEN "processed" ELSE @]
  /\ request' = [request EXCEPT ![r] = Idle]
  /\ UNCHANGED <<gateway, receipt, certificate, link, eligible, webhook, officer, faults>>

(* create_donation: ON CONFLICT DO NOTHING, always as pending.             *)
CreateDonation(r) ==
  LET d == request[r].for IN
  /\ request[r].at = "recording"
  /\ donation' = [donation EXCEPT ![d] = IF @ = "none" THEN "pending" ELSE @]
  /\ request' = [request EXCEPT ![r] = Idle]
  /\ UNCHANGED <<gateway, receipt, certificate, link, eligible, webhook, officer, faults>>

(***************************************************************************)
(* DonationsService.applyWebhook                                           *)
(***************************************************************************)
(* A notification arrives, for the first time or again; its order's status *)
(* is asked.  (When that call fails the answer is 403 and nothing changes.)*)
VerifyAndNormalizeWebhook(w, e) ==
  /\ webhook[w] = Idle
  /\ e \in due \/ (order[e[1]] = e[2] /\ e[2] # "none")
  /\ webhook' = [webhook EXCEPT ![w] = [at |-> "applying", event |-> e, status |-> order[e[1]]]]
  /\ UNCHANGED <<gateway, tables, request, officer, faults>>

(* Mutant: an acknowledgement is for the order, not for its change.        *)
AcknowledgeOrder(w) ==
  /\ due' = {e \in due : e[1] # webhook[w].event[1]}
  /\ webhook' = [webhook EXCEPT ![w] = Idle]

(* The answer is 2xx: the gateway will not send this notification again.   *)
Acknowledge(w) ==
  /\ due' = due \ {webhook[w].event}
  /\ webhook' = [webhook EXCEPT ![w] = Idle]

(* Where apply_donation_webhook finds a row: WHERE status = 'pending'.     *)
Settles(d) == donation[d] = "pending"

(* The donation and its receipt in one transaction.                        *)
ApplyApproved(w) ==
  LET d == webhook[w].event[1] IN
  /\ webhook[w].at = "applying"
  /\ webhook[w].status = "approved"
  /\ Settles(d)
  /\ donation' = [donation EXCEPT ![d] = "approved"]
  /\ receipt' = receipt \cup {d}
  /\ webhook' = [webhook EXCEPT ![w].at = "certifying"]
  /\ UNCHANGED <<gateway, certificate, link, eligible, request, officer, faults>>

(* Mutant: what is not approved is declined.                               *)
ApplyNotApproved(w) ==
  LET d == webhook[w].event[1] IN
  /\ webhook[w].at = "applying"
  /\ webhook[w].status # "approved"
  /\ Settles(d)
  /\ donation' = [donation EXCEPT ![d] = "declined"]
  /\ Acknowledge(w)
  /\ UNCHANGED <<order, receipt, certificate, link, eligible, request, officer, faults>>

ApplyDeclined(w) ==
  LET d == webhook[w].event[1] IN
  /\ webhook[w].at = "applying"
  /\ webhook[w].status = "declined"
  /\ Settles(d)
  /\ donation' = [donation EXCEPT ![d] = "declined"]
  /\ Acknowledge(w)
  /\ UNCHANGED <<order, receipt, certificate, link, eligible, request, officer, faults>>

(* Unknown or settled donation, or an order that is still pending: a no-op *)
(* that is acknowledged all the same.                                      *)
ApplyNothing(w) ==
  /\ webhook[w].at = "applying"
  /\ webhook[w].status \in Terminal => ~Settles(webhook[w].event[1])
  /\ Acknowledge(w)
  /\ UNCHANGED <<order, tables, request, officer, faults>>

(* Mutant: the certificate is issued whether there is one or not.          *)
IssueAgain(d, who) ==
  certificate' = [certificate EXCEPT ![d] = who]

(* donation_id is unique: a certificate that exists is not replaced.       *)
Issue(d, who) ==
  certificate' = [certificate EXCEPT ![d] = IF @ = "none" THEN who ELSE @]

(* Best effort: nothing is issued when the organization is not eligible.   *)
TryIssueForApprovedDonation(w) ==
  /\ webhook[w].at = "certifying"
  /\ IF eligible THEN Issue(webhook[w].event[1], "webhook") ELSE UNCHANGED certificate
  /\ webhook' = [webhook EXCEPT ![w].at = "linking"]
  /\ UNCHANGED <<gateway, donation, receipt, link, eligible, request, officer, faults>>

IssueGuestAccessLink(w) ==
  /\ webhook[w].at = "linking"
  /\ link' = link \cup ({webhook[w].event[1]} \cap Guests)
  /\ Acknowledge(w)
  /\ UNCHANGED <<order, donation, receipt, certificate, eligible, request, officer, faults>>

(***************************************************************************)
(* DonationCertificatesService.generateForOrganization                     *)
(***************************************************************************)
(* The transaction reads the donation, its certificate and the profile: it *)
(* ends here unless it goes on to issue one.                               *)
GenerateForOrganization(o, d) ==
  /\ officer[o] = Idle
  /\ donation[d] = "approved"
  /\ certificate[d] = "none"
  /\ eligible
  /\ officer' = [officer EXCEPT ![o] = [at |-> "issuing", for |-> d]]
  /\ UNCHANGED <<gateway, tables, request, webhook, faults>>

(* The unique key ends a transaction that comes second with an error.      *)
IssueForOrganization(o) ==
  /\ officer[o].at = "issuing"
  /\ Issue(officer[o].for, "organization")
  /\ officer' = [officer EXCEPT ![o] = Idle]
  /\ UNCHANGED <<gateway, donation, receipt, link, eligible, request, webhook, faults>>

(***************************************************************************)
(* Environment                                                             *)
(***************************************************************************)
(* The gateway settles a pending order and notifies the change.            *)
OrderSettles(d) ==
  /\ order[d] = "pending"
  /\ \E status \in Terminal :
       /\ order' = [order EXCEPT ![d] = status]
       /\ due' = due \cup {<<d, status>>}
  /\ UNCHANGED <<tables, request, webhook, officer, faults>>

(* The organization gains or loses what a certificate requires.            *)
ProfileChanges ==
  /\ eligible' = ~eligible
  /\ UNCHANGED <<gateway, donation, receipt, certificate, link, request, webhook, officer, faults>>

(* The process restarts: what is between two steps is gone, and a webhook  *)
(* that was not answered will be sent again.                               *)
Crash ==
  /\ faults < MaxFaults
  /\ faults' = faults + 1
  /\ request' = [r \in Requests |-> Idle]
  /\ webhook' = [w \in Webhooks |-> Idle]
  /\ officer' = [o \in Officers |-> Idle]
  /\ UNCHANGED <<gateway, tables>>

RequestStep(r) == CreateCollection(r) \/ CreateCollectionThrows(r) \/ CreateDonation(r)

WebhookStep(w) ==
  \/ ApplyApproved(w) \/ ApplyDeclined(w) \/ ApplyNothing(w)
  \/ TryIssueForApprovedDonation(w) \/ IssueGuestAccessLink(w)

Next ==
  \/ \E r \in Requests : RequestStep(r) \/ \E d \in Donations : PreCheck(r, d)
  \/ \E w \in Webhooks : WebhookStep(w) \/ \E e \in Event : VerifyAndNormalizeWebhook(w, e)
  \/ \E o \in Officers : IssueForOrganization(o) \/ \E d \in Donations : GenerateForOrganization(o, d)
  \/ \E d \in Donations : OrderSettles(d)
  \/ ProfileChanges
  \/ Crash

Spec == Init /\ [][Next]_vars

(* The gateway goes on sending what was not acknowledged, and the API ends *)
(* every webhook it has begun.  Nobody else has to act.                    *)
Fairness ==
  /\ \A e \in Event : SF_vars(e \in due /\ \E w \in Webhooks : VerifyAndNormalizeWebhook(w, e))
  /\ \A w \in Webhooks : WF_vars(WebhookStep(w))

FairSpec == Spec /\ Fairness

(***************************************************************************)
(* Properties                                                              *)
(***************************************************************************)
(* Every variable keeps its type. *)
TypeOK ==
  /\ order \in [Donations -> OrderStatus]
  /\ due \subseteq Event
  /\ donation \in [Donations -> DonationStatus]
  /\ receipt \subseteq Donations
  /\ certificate \in [Donations -> {"none", "webhook", "organization"}]
  /\ link \subseteq Donations
  /\ eligible \in BOOLEAN
  /\ request \in [Requests -> Request]
  /\ webhook \in [Webhooks -> Webhook]
  /\ officer \in [Officers -> Officer]
  /\ faults \in 0 .. MaxFaults

(* The donations table never says of the money what the gateway does not:  *)
(* late, repeated and reordered notifications included.                    *)
AgreesWithGateway ==
  \A d \in Donations : donation[d] \in Terminal => order[d] = donation[d]

(* A receipt stands for an approved donation, and every approved donation  *)
(* has its receipt; certificates and guest links are of such donations.    *)
PapersMatch ==
  \A d \in Donations :
    /\ d \in receipt <=> donation[d] = "approved"
    /\ certificate[d] # "none" \/ d \in link => d \in receipt

(* "Nunca se acuña un segundo": a certificate that was issued stays the    *)
(* one it is, whoever asks for it again and whoever asked at the same time.*)
CertificateIsSealed ==
  [][\A d \in Donations : certificate[d] # "none" => certificate'[d] = certificate[d]]_vars

(* A recorded donation whose order has been settled is settled too, as     *)
(* long as the gateway still has the notification to deliver.              *)
NotifiedIsSettled ==
  \A d \in Donations :
    (donation[d] = "pending" /\ <<d, order[d]>> \in due /\ order[d] \in Terminal)
      ~> donation[d] \in Terminal

(* An approval that the charge already returned still gets confirmed by    *)
(* the notification (mercadopago-payment.adapter.ts, createCollection).    *)
ApprovedIsConfirmed ==
  \A d \in Donations :
    (donation[d] = "pending" /\ order[d] = "approved") ~> donation[d] = "approved"
=============================================================================
