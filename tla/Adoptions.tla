------------------------------- MODULE Adoptions -------------------------------
(***************************************************************************)
(* An adoption request and its contract, up to the seal.                   *)
(*                                                                         *)
(* The services read a row, check it, and then write it by its id, with no *)
(* lock in between: a manager's operation is a read that leaves a note in  *)
(* manager, and a write that acts on the note whatever the row says now.   *)
(* A signature is taken on a copy of the contract that was read outside    *)
(* any transaction; the copy, with one signature more, is then written     *)
(* back whole.  Two things are checked at the write itself: the SQL        *)
(* function's condition on the status, and the trigger that freezes a      *)
(* signed contract.                                                        *)
(***************************************************************************)
EXTENDS Integers, FiniteSets

CONSTANTS
  Requests,    \* adoption requests, each of an applicant for an animal
  Managers,    \* tabs of the organization's managers
  Rep,         \* the signer organization_representative of every contract
  Adopter,     \* the signer adopter of every contract
  Additional,  \* signers a manager may add
  CoReps,      \* the additional ones whose role is organization_representative
  Texts,       \* contents a contract may have
  NoText,      \* no content
  MaxSigning   \* bound: signatures being taken at a time

ASSUME AdoptionsAssumption ==
  /\ Rep # Adopter
  /\ {Rep, Adopter} \cap Additional = {}
  /\ CoReps \subseteq Additional
  /\ NoText \notin Texts
  /\ MaxSigning \in Nat

VARIABLES
  request,     \* table adoption_requests: status
  contract,    \* table adoption_contracts, by request
  registered,  \* the organization has a legal representative's signature
  manager,     \* managers' operations between their read and their write
  signing,     \* signatures taken on a copy of a contract, not written yet
  accepted     \* signatures the API has answered with 200

adoptionVars == <<request, contract, registered, manager, signing, accepted>>

Parties == {Rep, Adopter} \cup Additional

RequestStatus  == {"none", "new", "in_review", "approved", "rejected"}
ContractStatus == {"none", "draft", "pending_signatures", "signed", "cancelled"}

Contract == [status  : ContractStatus,
             parties : SUBSET Parties,
             signed  : SUBSET Parties,         \* signers with a signedAt
             text    : Texts \cup {NoText},    \* payload
             hash    : Texts \cup {NoText}]    \* contentHash, by what it was computed of

NoContract ==
  [status |-> "none", parties |-> {}, signed |-> {}, text |-> NoText, hash |-> NoText]

(* As generate inserts it.                                                 *)
Draft(more, text) ==
  [status |-> "draft", parties |-> {Rep, Adopter} \cup more, signed |-> {},
   text |-> text, hash |-> NoText]

Operation ==
  [at : {"idle"}]
    \cup [at : {"evaluating"}, of : Requests, to : RequestStatus]
    \cup [at : {"generating"}, of : Requests]
    \cup [at : {"moving"}, of : Requests, to : ContractStatus]
    \cup [at : {"editing"}, of : Requests, text : Texts]

Idle == [at |-> "idle"]

Signature == [of : Requests, by : Parties, copy : SUBSET Parties, parties : SUBSET Parties,
              text : Texts \cup {NoText}]

AdoptionInit ==
  /\ request = [q \in Requests |-> "none"]
  /\ contract = [q \in Requests |-> NoContract]
  /\ registered \in BOOLEAN
  /\ manager = [m \in Managers |-> Idle]
  /\ signing = {}
  /\ accepted = {}

Begin(m, operation) ==
  /\ manager[m] = Idle
  /\ manager' = [manager EXCEPT ![m] = operation]
  /\ UNCHANGED <<request, contract, registered, signing, accepted>>

End(m) == manager' = [manager EXCEPT ![m] = Idle]

(* The row of a request's contract becomes c, unless it is frozen: the     *)
(* trigger adoption_contract_freeze raises, and the transaction is undone. *)
Unfrozen(q, c) ==
  contract' = [contract EXCEPT ![q] = IF @.status = "signed" THEN @ ELSE c]

UpdateContract(q, c) == Unfrozen(q, c)

(***************************************************************************)
(* AdoptionsService: an applicant applies, a manager moves the request on. *)
(***************************************************************************)
(* Mutant: the row gets the default status of a contract.                  *)
CreateAsDraft(q) ==
  /\ request[q] = "none"
  /\ request' = [request EXCEPT ![q] = "draft"]
  /\ UNCHANGED <<contract, registered, manager, signing, accepted>>

Create(q) ==
  /\ request[q] = "none"
  /\ request' = [request EXCEPT ![q] = "new"]
  /\ UNCHANGED <<contract, registered, manager, signing, accepted>>

AdoptionTransitions ==
  {<<"new", "in_review">>, <<"in_review", "approved">>, <<"in_review", "rejected">>}

EvaluateRead(m, q, to) ==
  /\ <<request[q], to>> \in AdoptionTransitions
  /\ Begin(m, [at |-> "evaluating", of |-> q, to |-> to])

EvaluateWrite(m) ==
  /\ manager[m].at = "evaluating"
  /\ request' = [request EXCEPT ![manager[m].of] = manager[m].to]
  /\ End(m)
  /\ UNCHANGED <<contract, registered, signing, accepted>>

(***************************************************************************)
(* AdoptionContractsService.generate                                       *)
(***************************************************************************)
GenerateRead(m, q) ==
  /\ request[q] = "approved"
  /\ contract[q].status = "none"
  /\ Begin(m, [at |-> "generating", of |-> q])

(* Mutant: the unique key (request, version) is missing, and the later row *)
(* is the one that is read.                                                *)
GenerateTwice(m, more, text) ==
  /\ manager[m].at = "generating"
  /\ UpdateContract(manager[m].of, Draft(more, text))
  /\ End(m)
  /\ UNCHANGED <<request, registered, signing, accepted>>

(* The loser of two requests meets the unique key: 409.                    *)
GenerateWrite(m, more, text) ==
  LET q == manager[m].of IN
  /\ manager[m].at = "generating"
  /\ IF contract[q].status = "none"
       THEN UpdateContract(q, Draft(more, text))
       ELSE UNCHANGED contract
  /\ End(m)
  /\ UNCHANGED <<request, registered, signing, accepted>>

(***************************************************************************)
(* AdoptionContractsService.transition, updateData                         *)
(***************************************************************************)
(* Those of the table a manager may ask for; the seal is not among them.   *)
ContractTransitions ==
  {<<"draft", "pending_signatures">>, <<"draft", "cancelled">>,
   <<"pending_signatures", "cancelled">>}

TransitionRead(m, q, to) ==
  /\ <<contract[q].status, to>> \in ContractTransitions
  /\ to = "pending_signatures" => Rep \in contract[q].signed
  /\ Begin(m, [at |-> "moving", of |-> q, to |-> to])

TransitionWrite(m) ==
  LET q == manager[m].of IN
  /\ manager[m].at = "moving"
  /\ UpdateContract(q, [contract[q] EXCEPT !.status = manager[m].to])
  /\ End(m)
  /\ UNCHANGED <<request, registered, signing, accepted>>

UpdateDataRead(m, q, text) ==
  /\ contract[q].status = "draft"
  /\ contract[q].signed = {}
  /\ Begin(m, [at |-> "editing", of |-> q, text |-> text])

UpdateDataWrite(m) ==
  LET q == manager[m].of IN
  /\ manager[m].at = "editing"
  /\ UpdateContract(q, [contract[q] EXCEPT !.text = manager[m].text])
  /\ End(m)
  /\ UNCHANGED <<request, registered, signing, accepted>>

(***************************************************************************)
(* AdoptionContractsService.sign                                           *)
(***************************************************************************)
RegisterRepresentative ==
  /\ ~registered
  /\ registered' = TRUE
  /\ UNCHANGED <<request, contract, manager, signing, accepted>>

IsRepresentative(p) == p \in {Rep} \cup CoReps

(* Mutant: the order of the signatures is left to the page.                *)
MaySignInAnyOrder(c, p) == IF IsRepresentative(p) THEN registered ELSE c.status # "none"

(* Representatives sign with the organization's registered signature, the  *)
(* others once the contract was sent and the representative has signed.    *)
MaySign(c, p) ==
  IF IsRepresentative(p)
    THEN registered
    ELSE c.status = "pending_signatures" /\ Rep \in c.signed

SignRead(q, p) ==
  LET c == contract[q] IN
  /\ Cardinality(signing) < MaxSigning
  /\ c.status \in {"draft", "pending_signatures"}
  /\ p \in c.parties \ c.signed
  /\ MaySign(c, p)
  /\ signing' = signing \cup
       {[of |-> q, by |-> p, copy |-> c.signed, parties |-> c.parties, text |-> c.text]}
  /\ UNCHANGED <<request, contract, registered, manager, accepted>>

(* Mutant: a witness may sign later.                                       *)
BothSigned(s) == {Rep, Adopter} \subseteq s.copy \cup {s.by}

AllSigned(s) == s.copy \cup {s.by} = s.parties

(* adoption_contract_apply_signatures: the array as it was read, with one  *)
(* signature more, and the seal if that makes it complete.                 *)
Apply(c, s) ==
  [status  |-> IF AllSigned(s) THEN "signed" ELSE c.status,
   parties |-> c.parties,
   signed  |-> s.copy \cup {s.by},
   text    |-> c.text,
   hash    |-> IF AllSigned(s) THEN s.text ELSE c.hash]

SignWrite(s) ==
  /\ s \in signing
  /\ IF contract[s.of].status \in {"draft", "pending_signatures"}
       THEN /\ UpdateContract(s.of, Apply(contract[s.of], s))
            /\ accepted' = accepted \cup {<<s.of, s.by>>}
       ELSE UNCHANGED <<contract, accepted>>
  /\ signing' = signing \ {s}
  /\ UNCHANGED <<request, registered, manager>>

Applying == \E q \in Requests : Create(q)

Evaluation ==
  \E m \in Managers :
    \/ \E q \in Requests, to \in RequestStatus : EvaluateRead(m, q, to)
    \/ EvaluateWrite(m)

Drafting ==
  \E m \in Managers :
    \/ \E q \in Requests : GenerateRead(m, q)
    \/ \E more \in SUBSET Additional, text \in Texts : GenerateWrite(m, more, text)
    \/ \E q \in Requests, to \in ContractStatus : TransitionRead(m, q, to)
    \/ TransitionWrite(m)
    \/ \E q \in Requests, text \in Texts : UpdateDataRead(m, q, text)
    \/ UpdateDataWrite(m)

Signing ==
  \/ RegisterRepresentative
  \/ \E q \in Requests, p \in Parties : SignRead(q, p)
  \/ \E s \in signing : SignWrite(s)

AdoptionNext == Applying \/ Evaluation \/ Drafting \/ Signing

AdoptionSpec == AdoptionInit /\ [][AdoptionNext]_adoptionVars

(***************************************************************************)
(* Properties                                                              *)
(***************************************************************************)
AdoptionTypeOK ==
  /\ request \in [Requests -> RequestStatus]
  /\ contract \in [Requests -> Contract]
  /\ registered \in BOOLEAN
  /\ manager \in [Managers -> Operation]
  /\ signing \in SUBSET Signature
  /\ accepted \in SUBSET (Requests \X Parties)

(* The order sign() enforces survives every overwritten array: wherever    *)
(* the adopter or a witness has signed, the representative has.            *)
RepresentativeFirst ==
  \A q \in Requests :
    (\E p \in contract[q].signed : ~IsRepresentative(p)) => Rep \in contract[q].signed

(* Where the representative and the adopter are the only parties, no two   *)
(* signatures can erase each other: each one the API accepted is there,    *)
(* and with the second the contract is sealed.                             *)
NoSignatureLost ==
  \A q \in Requests :
    contract[q].parties = {Rep, Adopter} =>
      /\ \A p \in Parties : <<q, p>> \in accepted => p \in contract[q].signed
      /\ contract[q].signed = {Rep, Adopter} => contract[q].status = "signed"

(* "payload sellado por contentHash" (adoptions.ts:282): the hash of a      *)
(* sealed contract is that of the payload beside it.                       *)
SealMatchesText ==
  \A q \in Requests : contract[q].status = "signed" => contract[q].hash = contract[q].text
=============================================================================
