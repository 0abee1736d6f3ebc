---------------------------- MODULE FollowUp_proofs ----------------------------
(***************************************************************************)
(* Proofs about Adoptions and FollowUp, for any number of requests,        *)
(* managers, parties, milestones, answers and restarts: types, the order   *)
(* of the signatures, that none is lost where two parties sign, that an    *)
(* alert is sent once, and that both together keep AdoptionPromise.        *)
(***************************************************************************)
EXTENDS FollowUp, TLAPS

(***************************************************************************)
(* Types of the adoption                                                   *)
(***************************************************************************)
LEMMA OperationFields ==
  ASSUME NEW n \in Operation
  PROVE  /\ n.at \in {"evaluating", "generating", "moving", "editing"} => n.of \in Requests
         /\ n.at = "evaluating" => n.to \in RequestStatus
         /\ n.at = "moving" => n.to \in ContractStatus
         /\ n.at = "editing" => n.text \in Texts
  BY DEF Operation

LEMMA IdleIsOperation == Idle \in Operation
  BY DEF Idle, Operation

LEMMA BeginTyped ==
  ASSUME AdoptionTypeOK, NEW m \in Managers, NEW n \in Operation, Begin(m, n)
  PROVE  AdoptionTypeOK'
  BY DEF Begin, AdoptionTypeOK

LEMMA EndTyped ==
  ASSUME AdoptionTypeOK, NEW m \in Managers, End(m)
  PROVE  manager' \in [Managers -> Operation]
  BY IdleIsOperation DEF End, AdoptionTypeOK

(* A frozen contract stays, any other becomes the new one.                 *)
LEMMA UpdateOne ==
  ASSUME AdoptionTypeOK, NEW q \in Requests, NEW c \in Contract, UpdateContract(q, c)
  PROVE  /\ contract' \in [Requests -> Contract]
         /\ contract'[q] = IF contract[q].status = "signed" THEN contract[q] ELSE c
         /\ \A r \in Requests \ {q} : contract'[r] = contract[r]
<1> DEFINE new == IF contract[q].status = "signed" THEN contract[q] ELSE c
<1>1. new \in Contract
  BY DEF AdoptionTypeOK
<1>2. contract' = [contract EXCEPT ![q] = new]
  BY DEF UpdateContract, Unfrozen
<1> HIDE DEF new
<1>3. contract' \in [Requests -> Contract] /\ contract'[q] = new
      /\ \A r \in Requests \ {q} : contract'[r] = contract[r]
  BY <1>1, <1>2 DEF AdoptionTypeOK
<1> QED
  BY <1>3 DEF new

(* What generate inserts.                                                 *)
LEMMA DraftFields ==
  ASSUME NEW more \in SUBSET Additional, NEW text \in Texts
  PROVE  /\ Draft(more, text) \in Contract
         /\ Draft(more, text).status = "draft"
         /\ Draft(more, text).parties = {Rep, Adopter} \cup more
         /\ Draft(more, text).signed = {}
         /\ Draft(more, text).text = text
  BY DEF Draft, Contract, ContractStatus, Parties

(* What the other writes make of a contract.                               *)
LEMMA MovedFields ==
  ASSUME NEW c \in Contract, NEW to \in ContractStatus
  PROVE  /\ [c EXCEPT !.status = to] \in Contract
         /\ [c EXCEPT !.status = to].status = to
         /\ [c EXCEPT !.status = to].parties = c.parties
         /\ [c EXCEPT !.status = to].signed = c.signed
  BY DEF Contract

LEMMA EditedFields ==
  ASSUME NEW c \in Contract, NEW text \in Texts
  PROVE  /\ [c EXCEPT !.text = text] \in Contract
         /\ [c EXCEPT !.text = text].status = c.status
         /\ [c EXCEPT !.text = text].parties = c.parties
         /\ [c EXCEPT !.text = text].signed = c.signed
         /\ [c EXCEPT !.text = text].hash = c.hash
  BY DEF Contract

LEMMA ApplyFields ==
  ASSUME NEW c \in Contract, NEW s \in Signature
  PROVE  /\ Apply(c, s) \in Contract
         /\ Apply(c, s).status = IF AllSigned(s) THEN "signed" ELSE c.status
         /\ Apply(c, s).parties = c.parties
         /\ Apply(c, s).signed = s.copy \cup {s.by}
         /\ Apply(c, s).hash = IF AllSigned(s) THEN s.text ELSE c.hash
<1> DEFINE status == IF AllSigned(s) THEN "signed" ELSE c.status
           signed == s.copy \cup {s.by}
           hash   == IF AllSigned(s) THEN s.text ELSE c.hash
<1>1. /\ status \in ContractStatus
      /\ signed \in SUBSET Parties
      /\ hash \in Texts \cup {NoText}
  BY DEF Contract, Signature, ContractStatus
<1>2. Apply(c, s) = [status |-> status, parties |-> c.parties, signed |-> signed,
                     text |-> c.text, hash |-> hash]
  BY DEF Apply
<1> HIDE DEF status, signed, hash
<1>3. /\ Apply(c, s) \in Contract
      /\ Apply(c, s).status = status
      /\ Apply(c, s).parties = c.parties
      /\ Apply(c, s).signed = signed
      /\ Apply(c, s).hash = hash
  BY <1>1, <1>2 DEF Contract
<1> QED
  BY <1>3 DEF status, signed, hash

LEMMA AdoptionTypeInit == AdoptionInit => AdoptionTypeOK
  BY IdleIsOperation
     DEF AdoptionInit, AdoptionTypeOK, NoContract, Contract, ContractStatus, RequestStatus

LEMMA AdoptionTypeStep == AdoptionTypeOK /\ AdoptionNext => AdoptionTypeOK'
<1> SUFFICES ASSUME AdoptionTypeOK, AdoptionNext PROVE AdoptionTypeOK'
  OBVIOUS
<1>1. ASSUME NEW q \in Requests, Create(q) PROVE AdoptionTypeOK'
  BY <1>1 DEF Create, AdoptionTypeOK, RequestStatus
<1>2. ASSUME NEW m \in Managers, NEW q \in Requests, NEW to \in RequestStatus, EvaluateRead(m, q, to)
      PROVE  AdoptionTypeOK'
  <2> DEFINE n == [at |-> "evaluating", of |-> q, to |-> to]
  <2>1. n \in Operation
    BY DEF Operation
  <2> QED
    BY <1>2, <2>1, BeginTyped DEF EvaluateRead
<1>3. ASSUME NEW m \in Managers, EvaluateWrite(m) PROVE AdoptionTypeOK'
  <2>1. manager[m].of \in Requests /\ manager[m].to \in RequestStatus
    BY <1>3, OperationFields DEF EvaluateWrite, AdoptionTypeOK
  <2>2. request' \in [Requests -> RequestStatus]
    BY <1>3, <2>1 DEF EvaluateWrite, AdoptionTypeOK
  <2> QED
    BY <1>3, <2>2, EndTyped DEF EvaluateWrite, AdoptionTypeOK
<1>4. ASSUME NEW m \in Managers, NEW q \in Requests, GenerateRead(m, q) PROVE AdoptionTypeOK'
  <2> DEFINE n == [at |-> "generating", of |-> q]
  <2>1. n \in Operation
    BY DEF Operation
  <2> QED
    BY <1>4, <2>1, BeginTyped DEF GenerateRead
<1>5. ASSUME NEW m \in Managers, NEW more \in SUBSET Additional, NEW text \in Texts,
             GenerateWrite(m, more, text)
      PROVE  AdoptionTypeOK'
  <2>1. manager[m].of \in Requests
    BY <1>5, OperationFields DEF GenerateWrite, AdoptionTypeOK
  <2>2. contract' = contract \/ UpdateContract(manager[m].of, Draft(more, text))
    BY <1>5 DEF GenerateWrite
  <2>3. contract' \in [Requests -> Contract]
    BY <2>1, <2>2, UpdateOne, DraftFields DEF AdoptionTypeOK
  <2> QED
    BY <1>5, <2>3, EndTyped DEF GenerateWrite, AdoptionTypeOK
<1>6. ASSUME NEW m \in Managers, NEW q \in Requests, NEW to \in ContractStatus,
             TransitionRead(m, q, to)
      PROVE  AdoptionTypeOK'
  <2> DEFINE n == [at |-> "moving", of |-> q, to |-> to]
  <2>1. n \in Operation
    BY DEF Operation
  <2> QED
    BY <1>6, <2>1, BeginTyped DEF TransitionRead
<1>7. ASSUME NEW m \in Managers, TransitionWrite(m) PROVE AdoptionTypeOK'
  <2>1. manager[m].of \in Requests /\ manager[m].to \in ContractStatus
    BY <1>7, OperationFields DEF TransitionWrite, AdoptionTypeOK
  <2>2. contract[manager[m].of] \in Contract
    BY <2>1 DEF AdoptionTypeOK
  <2>3. contract' \in [Requests -> Contract]
    BY <1>7, <2>1, <2>2, UpdateOne, MovedFields DEF TransitionWrite
  <2> QED
    BY <1>7, <2>3, EndTyped DEF TransitionWrite, AdoptionTypeOK
<1>8. ASSUME NEW m \in Managers, NEW q \in Requests, NEW text \in Texts, UpdateDataRead(m, q, text)
      PROVE  AdoptionTypeOK'
  <2> DEFINE n == [at |-> "editing", of |-> q, text |-> text]
  <2>1. n \in Operation
    BY DEF Operation
  <2> QED
    BY <1>8, <2>1, BeginTyped DEF UpdateDataRead
<1>9. ASSUME NEW m \in Managers, UpdateDataWrite(m) PROVE AdoptionTypeOK'
  <2>1. manager[m].of \in Requests /\ manager[m].text \in Texts
    BY <1>9, OperationFields DEF UpdateDataWrite, AdoptionTypeOK
  <2>2. contract[manager[m].of] \in Contract
    BY <2>1 DEF AdoptionTypeOK
  <2>3. contract' \in [Requests -> Contract]
    BY <1>9, <2>1, <2>2, UpdateOne, EditedFields DEF UpdateDataWrite
  <2> QED
    BY <1>9, <2>3, EndTyped DEF UpdateDataWrite, AdoptionTypeOK
<1>10. CASE RegisterRepresentative
  BY <1>10 DEF RegisterRepresentative, AdoptionTypeOK
<1>11. ASSUME NEW q \in Requests, NEW p \in Parties, SignRead(q, p) PROVE AdoptionTypeOK'
  BY <1>11 DEF SignRead, AdoptionTypeOK, Signature, Contract
<1>12. ASSUME NEW s \in signing, SignWrite(s) PROVE AdoptionTypeOK'
  <2>1. s \in Signature /\ s.of \in Requests /\ s.by \in Parties
    BY DEF AdoptionTypeOK, Signature
  <2>2. contract[s.of] \in Contract
    BY <2>1 DEF AdoptionTypeOK
  <2>3. contract' = contract \/ UpdateContract(s.of, Apply(contract[s.of], s))
    BY <1>12 DEF SignWrite
  <2>4. contract' \in [Requests -> Contract]
    BY <2>1, <2>2, <2>3, UpdateOne, ApplyFields DEF AdoptionTypeOK
  <2> QED
    BY <1>12, <2>1, <2>4 DEF SignWrite, AdoptionTypeOK
<1> QED
  BY <1>1, <1>2, <1>3, <1>4, <1>5, <1>6, <1>7, <1>8, <1>9, <1>10, <1>11, <1>12
     DEF AdoptionNext, Applying, Evaluation, Drafting, Signing

(***************************************************************************)
(* The invariant of the adoption                                           *)
(***************************************************************************)
TwoParties(c) == c.parties = {Rep, Adopter}

ContractInv(c) ==
  /\ c.status = "none" => c.parties = {} /\ c.signed = {}
  /\ c.status # "none" => {Rep, Adopter} \subseteq c.parties /\ c.text \in Texts
  /\ c.signed \subseteq c.parties
  /\ (\E p \in c.signed : ~IsRepresentative(p)) => Rep \in c.signed
  /\ c.status = "signed" => c.signed = c.parties /\ c.hash \in Texts
  /\ TwoParties(c) /\ Adopter \in c.signed => c.status = "signed"

(* What a signature's copy says of a contract that may have moved on.      *)
SignatureInv(s) ==
  /\ contract[s.of].status # "none"
  /\ s.parties = contract[s.of].parties
  /\ s.text \in Texts
  /\ s.by \in s.parties
  /\ s.copy \subseteq s.parties
  /\ (\E p \in s.copy \cup {s.by} : ~IsRepresentative(p)) => Rep \in s.copy
  /\ s.parties = {Rep, Adopter} => Adopter \notin s.copy

ManagerInv(n) ==
  /\ n.at \in {"moving", "editing"} => contract[n.of].status # "none"
  /\ n.at = "moving" => n.to \in {"pending_signatures", "cancelled"}

AcceptedInv(x) ==
  /\ contract[x[1]].status # "none"
  /\ TwoParties(contract[x[1]]) => x[2] \in contract[x[1]].signed

AdoptionInv ==
  /\ AdoptionTypeOK
  /\ \A q \in Requests : ContractInv(contract[q])
  /\ \A s \in signing : SignatureInv(s)
  /\ \A m \in Managers : ManagerInv(manager[m])
  /\ \A x \in accepted : AcceptedInv(x)

(* A contract goes from old to new without invalidating what was noted of  *)
(* it.                                                                     *)
Develops(old, new) ==
  old.status # "none" =>
    /\ new.status # "none"
    /\ new.parties = old.parties
    /\ TwoParties(old) => old.signed \subseteq new.signed

ContractsDevelop ==
  \A q \in Requests : contract'[q] = contract[q]
                      \/ (ContractInv(contract'[q]) /\ Develops(contract[q], contract'[q]))

NewSigningsHold == \A s \in signing' : s \in signing \/ SignatureInv(s)'
NewNotesHold    == \A m \in Managers : manager'[m] = manager[m] \/ ManagerInv(manager[m])'
NewAnswersHold  == \A x \in accepted' : x \in accepted \/ AcceptedInv(x)'

LEMMA Unchanged ==
  /\ UNCHANGED contract => ContractsDevelop
  /\ UNCHANGED signing => NewSigningsHold
  /\ UNCHANGED manager => NewNotesHold
  /\ UNCHANGED accepted => NewAnswersHold
<1>1. UNCHANGED contract => ContractsDevelop
  BY DEF ContractsDevelop
<1>2. UNCHANGED signing => NewSigningsHold
  BY DEF NewSigningsHold
<1>3. UNCHANGED manager => NewNotesHold
  BY DEF NewNotesHold
<1>4. UNCHANGED accepted => NewAnswersHold
  BY DEF NewAnswersHold
<1> QED
  BY <1>1, <1>2, <1>3, <1>4

LEMMA Combine ==
  ASSUME AdoptionInv, AdoptionTypeOK',
         ContractsDevelop, NewSigningsHold, NewNotesHold, NewAnswersHold
  PROVE  AdoptionInv'
<1> USE DEF ContractsDevelop, NewSigningsHold, NewNotesHold, NewAnswersHold
<1>1. \A q \in Requests : ContractInv(contract'[q]) /\ Develops(contract[q], contract'[q])
  BY DEF AdoptionInv, Develops
<1>2. \A q \in Requests : ContractInv(contract[q])'
  BY <1>1 DEF ContractInv, TwoParties, IsRepresentative
<1>3. ASSUME NEW s \in signing' PROVE SignatureInv(s)'
  <2>1. CASE s \in signing
    <3>1. s.of \in Requests
      BY <2>1 DEF AdoptionInv, AdoptionTypeOK, Signature
    <3>2. SignatureInv(s) /\ Develops(contract[s.of], contract'[s.of])
      BY <1>1, <2>1, <3>1 DEF AdoptionInv
    <3> QED
      BY <3>2 DEF SignatureInv, Develops, IsRepresentative
  <2> QED
    BY <2>1
<1>4. ASSUME NEW m \in Managers PROVE ManagerInv(manager[m])'
  <2>1. CASE manager'[m] = manager[m]
    <3>1. manager[m].at \in {"moving", "editing"} => manager[m].of \in Requests
      BY OperationFields DEF AdoptionInv, AdoptionTypeOK
    <3>2. ManagerInv(manager[m])
      BY DEF AdoptionInv
    <3> QED
      BY <1>1, <2>1, <3>1, <3>2 DEF ManagerInv, Develops
  <2> QED
    BY <2>1 DEF ManagerInv
<1>5. ASSUME NEW x \in accepted' PROVE AcceptedInv(x)'
  <2>1. CASE x \in accepted
    <3>1. x[1] \in Requests
      BY <2>1 DEF AdoptionInv, AdoptionTypeOK
    <3>2. AcceptedInv(x) /\ Develops(contract[x[1]], contract'[x[1]])
      BY <1>1, <2>1, <3>1 DEF AdoptionInv
    <3> QED
      BY <3>2 DEF AcceptedInv, Develops, TwoParties
  <2> QED
    BY <2>1
<1> QED
  BY <1>2, <1>3, <1>4, <1>5 DEF AdoptionInv

LEMMA BeginKeeps ==
  ASSUME AdoptionInv, NEW m \in Managers, NEW n \in Operation, Begin(m, n), ManagerInv(n)
  PROVE  AdoptionInv'
<1>1. AdoptionTypeOK'
  BY BeginTyped DEF AdoptionInv
<1>2. NewNotesHold
  BY DEF Begin, AdoptionInv, AdoptionTypeOK, ManagerInv, NewNotesHold
<1> QED
  BY <1>1, <1>2, Unchanged, Combine DEF Begin

LEMMA EndKeeps ==
  ASSUME AdoptionTypeOK, NEW m \in Managers, End(m)
  PROVE  NewNotesHold
  BY DEF End, AdoptionTypeOK, ManagerInv, Idle, NewNotesHold

(* A contract that is not frozen becomes c, or its write is undone.        *)
LEMMA UpdateKeeps ==
  ASSUME AdoptionInv, NEW q \in Requests, NEW c \in Contract, UpdateContract(q, c),
         contract[q].status # "signed" => ContractInv(c) /\ Develops(contract[q], c)
  PROVE  ContractsDevelop
<1>1. AdoptionTypeOK
  BY DEF AdoptionInv
<1>2. /\ contract'[q] = IF contract[q].status = "signed" THEN contract[q] ELSE c
      /\ \A r \in Requests \ {q} : contract'[r] = contract[r]
  BY <1>1, UpdateOne
<1>3. contract'[q] = contract[q]
      \/ (ContractInv(contract'[q]) /\ Develops(contract[q], contract'[q]))
  BY <1>2
<1> QED
  BY <1>2, <1>3 DEF ContractsDevelop

LEMMA AdoptionInvInit == AdoptionInit => AdoptionInv
<1> SUFFICES ASSUME AdoptionInit PROVE AdoptionInv
  OBVIOUS
<1>1. \A q \in Requests : ContractInv(contract[q])
  BY DEF AdoptionInit, ContractInv, NoContract
<1>2. \A m \in Managers : ManagerInv(manager[m])
  BY DEF AdoptionInit, ManagerInv, Idle
<1> QED
  BY <1>1, <1>2, AdoptionTypeInit DEF AdoptionInit, AdoptionInv

LEMMA AdoptionInvStep == AdoptionInv /\ AdoptionNext => AdoptionInv'
<1> SUFFICES ASSUME AdoptionInv, AdoptionNext PROVE AdoptionInv'
  OBVIOUS
<1> AdoptionTypeOK /\ AdoptionTypeOK'
  BY AdoptionTypeStep DEF AdoptionInv
<1>1. ASSUME NEW q \in Requests, Create(q) PROVE AdoptionInv'
  BY <1>1, Unchanged, Combine DEF Create
<1>2. ASSUME NEW m \in Managers, NEW q \in Requests, NEW to \in RequestStatus, EvaluateRead(m, q, to)
      PROVE  AdoptionInv'
  <2> DEFINE n == [at |-> "evaluating", of |-> q, to |-> to]
  <2>1. n \in Operation /\ ManagerInv(n)
    BY DEF Operation, ManagerInv
  <2> QED
    BY <1>2, <2>1, BeginKeeps DEF EvaluateRead
<1>3. ASSUME NEW m \in Managers, EvaluateWrite(m) PROVE AdoptionInv'
  BY <1>3, EndKeeps, Unchanged, Combine DEF EvaluateWrite
<1>4. ASSUME NEW m \in Managers, NEW q \in Requests, GenerateRead(m, q) PROVE AdoptionInv'
  <2> DEFINE n == [at |-> "generating", of |-> q]
  <2>1. n \in Operation /\ ManagerInv(n)
    BY DEF Operation, ManagerInv
  <2> QED
    BY <1>4, <2>1, BeginKeeps DEF GenerateRead
<1>5. ASSUME NEW m \in Managers, NEW more \in SUBSET Additional, NEW text \in Texts,
             GenerateWrite(m, more, text)
      PROVE  AdoptionInv'
  <2> DEFINE q == manager[m].of
             c == Draft(more, text)
  <2>1. q \in Requests
    BY <1>5, OperationFields DEF GenerateWrite, AdoptionTypeOK
  <2>2. c \in Contract /\ ContractInv(c)
    <3>1. /\ c \in Contract /\ c.status = "draft" /\ c.parties = {Rep, Adopter} \cup more
          /\ c.signed = {} /\ c.text = text
      BY DraftFields
    <3> HIDE DEF c
    <3> QED
      BY <3>1 DEF ContractInv, TwoParties
  <2>3. ContractsDevelop
    <3>1. CASE contract[q].status = "none"
      <4>1. UpdateContract(q, c) /\ Develops(contract[q], c)
        BY <1>5, <3>1 DEF GenerateWrite, Develops
      <4> HIDE DEF q, c
      <4> QED
        BY <2>1, <2>2, <4>1, UpdateKeeps
    <3>2. CASE contract[q].status # "none"
      BY <1>5, <3>2, Unchanged DEF GenerateWrite
    <3> QED
      BY <3>1, <3>2
  <2> QED
    BY <1>5, <2>3, EndKeeps, Unchanged, Combine DEF GenerateWrite
<1>6. ASSUME NEW m \in Managers, NEW q \in Requests, NEW to \in ContractStatus,
             TransitionRead(m, q, to)
      PROVE  AdoptionInv'
  <2> DEFINE n == [at |-> "moving", of |-> q, to |-> to]
  <2>1. contract[q].status # "none" /\ to \in {"pending_signatures", "cancelled"}
    BY <1>6 DEF TransitionRead, ContractTransitions
  <2>2. n \in Operation /\ ManagerInv(n)
    BY <2>1 DEF Operation, ManagerInv
  <2> QED
    BY <1>6, <2>2, BeginKeeps DEF TransitionRead
<1>7. ASSUME NEW m \in Managers, TransitionWrite(m) PROVE AdoptionInv'
  <2> DEFINE q  == manager[m].of
             to == manager[m].to
             c  == [contract[q] EXCEPT !.status = to]
  <2>1. q \in Requests /\ contract[q].status # "none" /\ to \in {"pending_signatures", "cancelled"}
    BY <1>7, OperationFields DEF TransitionWrite, AdoptionInv, AdoptionTypeOK, ManagerInv
  <2>2. contract[q] \in Contract /\ ContractInv(contract[q])
    BY <2>1 DEF AdoptionInv, AdoptionTypeOK
  <2>3. /\ c \in Contract
        /\ c.status = to /\ c.parties = contract[q].parties /\ c.signed = contract[q].signed
        /\ c.text = contract[q].text
    BY <2>1, <2>2 DEF Contract, ContractStatus
  <2>4. UpdateContract(q, c)
    BY <1>7 DEF TransitionWrite
  <2> HIDE DEF q, c, to
  <2>5. contract[q].status # "signed" => ContractInv(c) /\ Develops(contract[q], c)
    BY <2>1, <2>2, <2>3 DEF ContractInv, Develops, TwoParties
  <2>6. ContractsDevelop
    BY <2>1, <2>3, <2>4, <2>5, UpdateKeeps
  <2> QED
    BY <1>7, <2>6, EndKeeps, Unchanged, Combine DEF TransitionWrite
<1>8. ASSUME NEW m \in Managers, NEW q \in Requests, NEW text \in Texts, UpdateDataRead(m, q, text)
      PROVE  AdoptionInv'
  <2> DEFINE n == [at |-> "editing", of |-> q, text |-> text]
  <2>1. n \in Operation /\ ManagerInv(n)
    BY <1>8 DEF Operation, ManagerInv, UpdateDataRead
  <2> QED
    BY <1>8, <2>1, BeginKeeps DEF UpdateDataRead
<1>9. ASSUME NEW m \in Managers, UpdateDataWrite(m) PROVE AdoptionInv'
  <2> DEFINE q    == manager[m].of
             text == manager[m].text
             c    == [contract[q] EXCEPT !.text = text]
  <2>1. q \in Requests /\ contract[q].status # "none" /\ text \in Texts
    BY <1>9, OperationFields DEF UpdateDataWrite, AdoptionInv, AdoptionTypeOK, ManagerInv
  <2>2. contract[q] \in Contract /\ ContractInv(contract[q])
    BY <2>1 DEF AdoptionInv, AdoptionTypeOK
  <2>3. /\ c \in Contract
        /\ c.status = contract[q].status /\ c.parties = contract[q].parties
        /\ c.signed = contract[q].signed /\ c.text = text
    BY <2>1, <2>2 DEF Contract
  <2>4. UpdateContract(q, c)
    BY <1>9 DEF UpdateDataWrite
  <2> HIDE DEF q, c, text
  <2>5. contract[q].status # "signed" => ContractInv(c) /\ Develops(contract[q], c)
    BY <2>1, <2>2, <2>3 DEF ContractInv, Develops, TwoParties
  <2>6. ContractsDevelop
    BY <2>1, <2>3, <2>4, <2>5, UpdateKeeps
  <2> QED
    BY <1>9, <2>6, EndKeeps, Unchanged, Combine DEF UpdateDataWrite
<1>10. CASE RegisterRepresentative
  BY <1>10, Unchanged, Combine DEF RegisterRepresentative
<1>11. ASSUME NEW q \in Requests, NEW p \in Parties, SignRead(q, p) PROVE AdoptionInv'
  <2> DEFINE c == contract[q]
             s == [of |-> q, by |-> p, copy |-> c.signed, parties |-> c.parties, text |-> c.text]
  <2>1. ContractInv(c) /\ c.status \in {"draft", "pending_signatures"}
        /\ p \in c.parties \ c.signed /\ MaySign(c, p)
    BY <1>11 DEF AdoptionInv, SignRead
  <2>2. signing' = signing \cup {s} /\ contract' = contract
    BY <1>11 DEF SignRead
  <2>3. SignatureInv(s)
    BY <2>1 DEF SignatureInv, ContractInv, MaySign, TwoParties
  <2>4. NewSigningsHold
    BY <2>2, <2>3 DEF SignatureInv, IsRepresentative, NewSigningsHold
  <2> QED
    BY <1>11, <2>4, Unchanged, Combine DEF SignRead
<1>12. ASSUME NEW s \in signing, SignWrite(s) PROVE AdoptionInv'
  <2> DEFINE q == s.of
             c == contract[q]
             n == Apply(c, s)
  <2>1. s \in Signature /\ q \in Requests
    BY DEF AdoptionTypeOK, Signature
  <2>2. c \in Contract /\ ContractInv(c) /\ SignatureInv(s)
    BY <2>1 DEF AdoptionInv, AdoptionTypeOK
  <2>3. /\ n \in Contract
        /\ n.status = IF AllSigned(s) THEN "signed" ELSE c.status
        /\ n.parties = c.parties
        /\ n.signed = s.copy \cup {s.by}
        /\ n.text = c.text
        /\ n.hash = IF AllSigned(s) THEN s.text ELSE c.hash
    BY <2>1, <2>2, ApplyFields DEF Apply
  <2>4. CASE c.status \in {"draft", "pending_signatures"}
    <3>1. UpdateContract(q, n) /\ accepted' = accepted \cup {<<q, s.by>>}
      BY <1>12, <2>4 DEF SignWrite
    <3> HIDE DEF n
    <3>2. ContractInv(n)
      <4>1. ~IsRepresentative(Adopter)
        BY AdoptionsAssumption DEF IsRepresentative
      <4>2. n.signed \subseteq n.parties
        BY <2>2, <2>3 DEF SignatureInv
      <4>3. {Rep, Adopter} \subseteq n.parties /\ n.text \in Texts
        BY <2>2, <2>3, <2>4 DEF ContractInv
      <4>4. (\E p \in n.signed : ~IsRepresentative(p)) => Rep \in n.signed
        BY <2>2, <2>3 DEF SignatureInv
      <4>5. n.status = "signed" => n.signed = n.parties /\ n.hash \in Texts
        BY <2>2, <2>3, <2>4 DEF SignatureInv, AllSigned
      <4>6. TwoParties(n) /\ Adopter \in n.signed => n.status = "signed"
        BY <2>2, <2>3, <4>1, <4>4 DEF SignatureInv, TwoParties, AllSigned
      <4>7. n.status # "none"
        BY <2>3, <2>4
      <4> QED
        BY <4>2, <4>3, <4>4, <4>5, <4>6, <4>7 DEF ContractInv
    <3>3. Develops(c, n)
      <4>1. c.signed \subseteq {Rep, Adopter} \ {Adopter} \/ ~TwoParties(c)
        BY <2>2, <2>4 DEF ContractInv, TwoParties
      <4>2. TwoParties(c) => Rep \in n.signed
        <5>1. s.by = Rep \/ ~TwoParties(c) \/ s.by = Adopter
          BY <2>2 DEF SignatureInv, TwoParties
        <5>2. ~IsRepresentative(Adopter)
          BY AdoptionsAssumption DEF IsRepresentative
        <5> QED
          BY <2>2, <2>3, <5>1, <5>2 DEF SignatureInv
      <4> QED
        BY <2>3, <2>4, <4>1, <4>2 DEF Develops
    <3>4. ContractsDevelop
      BY <2>1, <2>3, <3>1, <3>2, <3>3, UpdateKeeps
    <3>5. contract'[q] = n
      BY <2>1, <2>3, <2>4, <3>1, UpdateOne
    <3>6. AcceptedInv(<<q, s.by>>)'
      <4>1. n.status # "none" /\ s.by \in n.signed
        BY <2>3, <2>4
      <4> QED
        BY <3>5, <4>1 DEF AcceptedInv
    <3>7. NewAnswersHold
      BY <3>1, <3>6 DEF NewAnswersHold
    <3>8. NewSigningsHold
      BY <1>12 DEF SignWrite, NewSigningsHold
    <3> QED
      BY <1>12, <3>4, <3>7, <3>8, Unchanged, Combine DEF SignWrite
  <2>5. CASE c.status \notin {"draft", "pending_signatures"}
    <3>1. NewSigningsHold
      BY <1>12 DEF SignWrite, NewSigningsHold
    <3> QED
      BY <1>12, <2>5, <3>1, Unchanged, Combine DEF SignWrite
  <2> QED
    BY <2>4, <2>5
<1> QED
  BY <1>1, <1>2, <1>3, <1>4, <1>5, <1>6, <1>7, <1>8, <1>9, <1>10, <1>11, <1>12
     DEF AdoptionNext, Applying, Evaluation, Drafting, Signing

(***************************************************************************)
(* Types and invariant of the follow-up                                    *)
(***************************************************************************)
Noticed == {"overdue", "completed"}

AlertInv(k) ==
  /\ milestone[k] = "none" => k \notin due
  /\ alerts[k] \in {0, 1}
  /\ k \in alerting => alerts[k] = 0
  /\ k \in alerting \/ alerts[k] = 1 => k \in due /\ milestone[k] \in Noticed

FollowUpInv ==
  /\ TypeOK
  /\ \A a \in answering : milestone[a.for] # "none"
  /\ \A k \in closing : milestone[k] # "none"
  /\ \A k \in Milestones : AlertInv(k)

Inv == AdoptionInv /\ FollowUpInv

LEMMA AnswerFields ==
  ASSUME NEW a \in Answer
  PROVE  a.for \in Milestones /\ a.complete \in BOOLEAN
         /\ [a EXCEPT !.at = "selected"] \in Answer
         /\ [a EXCEPT !.at = "selected"].for = a.for
  BY DEF Answer

LEMMA TypeInit == Init => TypeOK
  BY AdoptionTypeInit, FollowUpAssumption DEF Init, FollowUpInit, TypeOK, MilestoneStatus

LEMMA FollowUpTypeStep == TypeOK /\ FollowUpNext => TypeOK'
<1> SUFFICES ASSUME TypeOK, FollowUpNext PROVE TypeOK'
  OBVIOUS
<1>1. UNCHANGED adoptionVars => AdoptionTypeOK'
  BY DEF TypeOK, AdoptionTypeOK, adoptionVars
<1>2. ASSUME NEW k \in Milestones, Schedule(k) PROVE TypeOK'
  <2>1. k[1] \in Requests
    BY DEF Milestones
  <2> QED
    BY <1>1, <1>2, <2>1 DEF Schedule, TypeOK, MilestoneStatus
<1>3. ASSUME NEW k \in Milestones, FallDue(k) PROVE TypeOK'
  BY <1>1, <1>3 DEF FallDue, TypeOK
<1>4. ASSUME NEW k \in Milestones, NEW complete \in BOOLEAN, SubmitLoad(k, complete) PROVE TypeOK'
  <2>1. [at |-> "loaded", for |-> k, complete |-> complete] \in Answer
    BY DEF Answer
  <2> QED
    BY <1>1, <1>4, <2>1 DEF SubmitLoad, TypeOK
<1>5. ASSUME NEW a \in answering, SubmitSelect(a) PROVE TypeOK'
  <2>1. [a EXCEPT !.at = "selected"] \in Answer
    BY AnswerFields DEF TypeOK
  <2>2. answering' \in SUBSET Answer
    BY <1>5, <2>1 DEF SubmitSelect, TypeOK
  <2> QED
    BY <1>1, <1>5, <2>2 DEF SubmitSelect, TypeOK
<1>6. ASSUME NEW a \in answering, SubmitCommit(a) PROVE TypeOK'
  <2>1. a.for \in Milestones
    BY AnswerFields DEF TypeOK
  <2>2. milestone' \in [Milestones -> MilestoneStatus]
    BY <1>6, <2>1 DEF SubmitCommit, TypeOK, MilestoneStatus
  <2> QED
    BY <1>1, <1>6, <2>1, <2>2 DEF SubmitCommit, TypeOK
<1>7. ASSUME NEW k \in Milestones, CompleteRead(k) PROVE TypeOK'
  BY <1>1, <1>7 DEF CompleteRead, TypeOK
<1>8. ASSUME NEW k \in Milestones, CompleteWrite(k) PROVE TypeOK'
  BY <1>1, <1>8 DEF CompleteWrite, TypeOK, MilestoneStatus
<1>9. CASE MarkOverdue
  BY <1>1, <1>9 DEF MarkOverdue, PastDue, TypeOK, MilestoneStatus
<1>10. ASSUME NEW k \in Milestones, Alert(k) PROVE TypeOK'
  BY <1>1, <1>10 DEF Alert, TypeOK
<1>11. CASE Restart
  BY <1>1, <1>11, FollowUpAssumption DEF Restart, TypeOK
<1> QED
  BY <1>2, <1>3, <1>4, <1>5, <1>6, <1>7, <1>8, <1>9, <1>10, <1>11
     DEF FollowUpNext, Tracking, Scan

LEMMA FollowUpInvInit == Init => FollowUpInv
  BY TypeInit DEF Init, FollowUpInit, FollowUpInv, AlertInv

LEMMA FollowUpInvStep == FollowUpInv /\ FollowUpNext => FollowUpInv'
<1> SUFFICES ASSUME FollowUpInv, FollowUpNext PROVE FollowUpInv'
  OBVIOUS
<1> TypeOK /\ TypeOK'
  BY FollowUpTypeStep DEF FollowUpInv
<1>1. /\ \A a \in answering : a.for \in Milestones /\ milestone[a.for] # "none"
      /\ \A k \in closing : k \in Milestones /\ milestone[k] # "none"
      /\ \A k \in Milestones : AlertInv(k)
  BY AnswerFields DEF FollowUpInv, TypeOK
<1>2. ASSUME NEW k \in Milestones, Schedule(k) PROVE FollowUpInv'
  BY <1>1, <1>2 DEF Schedule, TypeOK, FollowUpInv, AlertInv, Noticed
<1>3. ASSUME NEW k \in Milestones, FallDue(k) PROVE FollowUpInv'
  BY <1>1, <1>3 DEF FallDue, FollowUpInv, AlertInv
<1>4. ASSUME NEW k \in Milestones, NEW complete \in BOOLEAN, SubmitLoad(k, complete)
      PROVE  FollowUpInv'
  <2>1. \A a \in answering' : milestone'[a.for] # "none"
    BY <1>1, <1>4 DEF SubmitLoad, Answerable
  <2> QED
    BY <1>1, <1>4, <2>1 DEF SubmitLoad, FollowUpInv, AlertInv
<1>5. ASSUME NEW a \in answering, SubmitSelect(a) PROVE FollowUpInv'
  <2>1. \A b \in answering' : milestone'[b.for] # "none"
    <3>1. [a EXCEPT !.at = "selected"].for = a.for
      BY AnswerFields DEF TypeOK
    <3> QED
      BY <1>1, <1>5, <3>1 DEF SubmitSelect
  <2> QED
    BY <1>1, <1>5, <2>1 DEF SubmitSelect, FollowUpInv, AlertInv
<1>6. ASSUME NEW a \in answering, SubmitCommit(a) PROVE FollowUpInv'
  <2>1. /\ a.for \in Milestones
        /\ \A k \in Milestones :
             milestone'[k] = IF k = a.for /\ a.complete THEN "completed" ELSE milestone[k]
    BY <1>1, <1>6 DEF SubmitCommit, TypeOK
  <2>2. \A k \in Milestones : AlertInv(k)'
    BY <1>1, <1>6, <2>1 DEF SubmitCommit, AlertInv, Noticed
  <2> QED
    BY <1>1, <1>6, <2>1, <2>2 DEF SubmitCommit, FollowUpInv
<1>7. ASSUME NEW k \in Milestones, CompleteRead(k) PROVE FollowUpInv'
  BY <1>1, <1>7 DEF CompleteRead, FollowUpInv, AlertInv, Answerable
<1>8. ASSUME NEW k \in Milestones, CompleteWrite(k) PROVE FollowUpInv'
  BY <1>1, <1>8 DEF CompleteWrite, TypeOK, FollowUpInv, AlertInv, Noticed
<1>9. CASE MarkOverdue
  <2>1. \A k \in Milestones : milestone'[k] = IF k \in PastDue THEN "overdue" ELSE milestone[k]
    BY <1>9 DEF MarkOverdue
  <2>2. \A k \in Milestones : AlertInv(k)'
    BY <1>1, <1>9, <2>1 DEF MarkOverdue, PastDue, AlertInv, Noticed
  <2> QED
    BY <1>1, <1>9, <2>1, <2>2 DEF MarkOverdue, FollowUpInv
<1>10. ASSUME NEW k \in Milestones, Alert(k) PROVE FollowUpInv'
  <2>1. \A j \in Milestones : AlertInv(j)'
    BY <1>1, <1>10 DEF Alert, TypeOK, AlertInv
  <2> QED
    BY <1>1, <1>10, <2>1 DEF Alert, FollowUpInv
<1>11. CASE Restart
  BY <1>1, <1>11 DEF Restart, FollowUpInv, AlertInv
<1> QED
  BY <1>2, <1>3, <1>4, <1>5, <1>6, <1>7, <1>8, <1>9, <1>10, <1>11
     DEF FollowUpNext, Tracking, Scan

LEMMA FollowUpInvSteady ==
  FollowUpInv /\ AdoptionTypeOK' /\ UNCHANGED followUpVars => FollowUpInv'
  BY DEF FollowUpInv, TypeOK, AlertInv, followUpVars

LEMMA AdoptionInvSteady == AdoptionInv /\ UNCHANGED adoptionVars => AdoptionInv'
<1> SUFFICES ASSUME AdoptionInv, UNCHANGED adoptionVars PROVE AdoptionInv'
  OBVIOUS
<1>1. AdoptionTypeOK'
  BY DEF AdoptionInv, AdoptionTypeOK, adoptionVars
<1> QED
  BY <1>1, Unchanged, Combine DEF adoptionVars

LEMMA FollowUpMovesOnly == FollowUpNext => UNCHANGED adoptionVars
  BY DEF FollowUpNext, Tracking, Scan, Schedule, FallDue, SubmitLoad, SubmitSelect, SubmitCommit,
         CompleteRead, CompleteWrite, MarkOverdue, Alert, Restart

LEMMA InvInit == Init => Inv
  BY AdoptionInvInit, FollowUpInvInit DEF Init, Inv

LEMMA InvStep == Inv /\ [Next]_vars => Inv'
<1> SUFFICES ASSUME Inv, [Next]_vars PROVE Inv'
  OBVIOUS
<1>1. CASE AdoptionNext /\ UNCHANGED followUpVars
  <2>1. AdoptionInv'
    BY <1>1, AdoptionInvStep DEF Inv
  <2> QED
    BY <1>1, <2>1, FollowUpInvSteady DEF Inv, AdoptionInv
<1>2. CASE FollowUpNext
  BY <1>2, FollowUpMovesOnly, AdoptionInvSteady, FollowUpInvStep DEF Inv
<1>3. CASE UNCHANGED vars
  <2>1. UNCHANGED adoptionVars /\ UNCHANGED followUpVars
    BY <1>3 DEF vars
  <2> QED
    BY <2>1, AdoptionInvSteady, FollowUpInvSteady DEF Inv, AdoptionInv
<1> QED
  BY <1>1, <1>2, <1>3 DEF Next

LEMMA InvHolds == Spec => []Inv
  BY InvInit, InvStep, PTL DEF Spec

(***************************************************************************)
(* The steps, as the promise sees them                                     *)
(***************************************************************************)
LEMMA SealsOfSealed ==
  ASSUME Inv, NEW q \in Requests
  PROVE  /\ drawn[q] = contract[q].parties /\ seals[q] = SealOf(q)
         /\ contract[q].status = "signed" =>
              /\ contract[q].hash \in Texts
              /\ SealOf(q) = [signers |-> contract[q].parties, hash |-> contract[q].hash]
         /\ contract[q].status = "signed" <=> SealOf(q) # Promise!NotSealed
<1>1. ContractInv(contract[q])
  BY DEF Inv, AdoptionInv
<1>2. ASSUME contract[q].status = "signed"
      PROVE  /\ contract[q].hash \in Texts
             /\ SealOf(q) = [signers |-> contract[q].parties, hash |-> contract[q].hash]
  BY <1>1, <1>2 DEF ContractInv, SealOf
<1>3. contract[q].status = "signed" => SealOf(q).hash # NoText
  BY <1>2, AdoptionsAssumption
<1>4. contract[q].status # "signed" => SealOf(q) = Promise!NotSealed
  BY DEF SealOf, Promise!NotSealed
<1> QED
  BY <1>2, <1>3, <1>4 DEF Promise!NotSealed, drawn, seals

(* A write to one contract draws it up, seals it with the signatures of    *)
(* its parties, or changes neither.                                        *)
LEMMA UpdateSeals ==
  ASSUME Inv, Inv', NEW q \in Requests, NEW c \in Contract, UpdateContract(q, c),
         UNCHANGED milestone,
         contract[q].status = "none" => c.status = "draft",
         contract[q].status # "none" => c.parties = contract[q].parties
  PROVE  [Promise!Next]_<<drawn, seals, open, closed>>
<1>1. /\ contract'[q] = IF contract[q].status = "signed" THEN contract[q] ELSE c
      /\ \A r \in Requests \ {q} : contract'[r] = contract[r]
  BY UpdateOne DEF Inv, AdoptionInv
<1>2. \A r \in Requests \ {q} : SealOf(r)' = SealOf(r)
  BY <1>1 DEF SealOf
<1>3. UNCHANGED <<open, closed>>
  BY DEF open, closed
<1>4. ContractInv(contract[q]) /\ ContractInv(contract'[q])
  BY DEF Inv, AdoptionInv, ContractInv, TwoParties, IsRepresentative
<1>5. CASE contract[q].status = "none"
  <2>1. contract'[q] = c /\ ContractInv(c) /\ c.status = "draft"
    BY <1>1, <1>4, <1>5
  <2>2. SealOf(q)' = SealOf(q)
    BY <1>5, <2>1 DEF SealOf
  <2>3. seals' = seals
    BY <1>2, <2>2 DEF seals
  <2>4. drawn[q] = {}
    BY <1>4, <1>5 DEF ContractInv, drawn
  <2>5. {Rep, Adopter} \subseteq c.parties /\ c.parties \in SUBSET Parties
    BY <2>1 DEF ContractInv, Contract
  <2>6. drawn' = [drawn EXCEPT ![q] = c.parties]
    BY <1>1, <2>1 DEF drawn
  <2>7. Promise!Draw(q)
    BY <1>3, <2>3, <2>4, <2>5, <2>6 DEF Promise!Draw
  <2> QED
    BY <2>7 DEF Promise!Next
<1>6. CASE contract[q].status # "none"
  <2>1. contract'[q].parties = contract[q].parties
    BY <1>1, <1>6
  <2>2. drawn' = drawn
    BY <1>1, <2>1 DEF drawn
  <2>3. CASE SealOf(q)' = SealOf(q)
    <3>1. seals' = seals
      BY <1>2, <2>3 DEF seals
    <3> QED
      BY <1>3, <2>2, <3>1
  <2>4. CASE SealOf(q)' # SealOf(q)
    <3>1. contract[q].status # "signed"
      BY <1>1, <2>4 DEF SealOf
    <3>2. contract'[q] = c /\ c.status = "signed" /\ ContractInv(c)
      BY <1>1, <1>4, <2>4, <3>1 DEF SealOf
    <3>3. c.hash \in Texts /\ SealOf(q)' = [signers |-> contract[q].parties, hash |-> c.hash]
      BY <2>1, <3>2 DEF ContractInv, SealOf
    <3>4. seals[q] = Promise!NotSealed /\ drawn[q] = contract[q].parties
      BY <3>1, SealsOfSealed
    <3>5. seals' = [seals EXCEPT ![q] = SealOf(q)']
      BY <1>2 DEF seals
    <3>6. drawn[q] # {}
      BY <1>4, <1>6, <3>4 DEF ContractInv
    <3>7. Promise!Seal(q)
      BY <1>3, <2>2, <3>3, <3>4, <3>5, <3>6 DEF Promise!Seal
    <3> QED
      BY <3>7 DEF Promise!Next
  <2> QED
    BY <2>3, <2>4
<1> QED
  BY <1>5, <1>6

LEMMA ContractSteps ==
  Inv /\ Inv' /\ AdoptionNext /\ UNCHANGED followUpVars => [Promise!Next]_<<drawn, seals, open, closed>>
<1> SUFFICES ASSUME Inv, Inv', AdoptionNext, UNCHANGED followUpVars
             PROVE  [Promise!Next]_<<drawn, seals, open, closed>>
  OBVIOUS
<1> AdoptionTypeOK
  BY DEF Inv, AdoptionInv
<1>1. UNCHANGED milestone
  BY DEF followUpVars
<1>2. UNCHANGED contract => UNCHANGED <<drawn, seals, open, closed>>
  BY <1>1 DEF drawn, seals, SealOf, open, closed
<1>3. ASSUME NEW m \in Managers, NEW more \in SUBSET Additional, NEW text \in Texts,
             GenerateWrite(m, more, text)
      PROVE  [Promise!Next]_<<drawn, seals, open, closed>>
  <2>1. manager[m].of \in Requests
    BY <1>3, OperationFields DEF GenerateWrite, AdoptionTypeOK
  <2>2. \/ UNCHANGED contract
        \/ UpdateContract(manager[m].of, Draft(more, text)) /\ contract[manager[m].of].status = "none"
    BY <1>3 DEF GenerateWrite
  <2>3. Draft(more, text) \in Contract /\ Draft(more, text).status = "draft"
    BY DraftFields
  <2>4. CASE UNCHANGED contract
    BY <1>2, <2>4
  <2>5. CASE UpdateContract(manager[m].of, Draft(more, text)) /\ contract[manager[m].of].status = "none"
    BY <1>1, <2>1, <2>3, <2>5, UpdateSeals
  <2> QED
    BY <2>2, <2>4, <2>5
<1>4. ASSUME NEW m \in Managers, TransitionWrite(m)
      PROVE  [Promise!Next]_<<drawn, seals, open, closed>>
  <2>1. manager[m].of \in Requests /\ manager[m].to \in ContractStatus
    BY <1>4, OperationFields DEF TransitionWrite, AdoptionTypeOK
  <2>2. contract[manager[m].of] \in Contract /\ contract[manager[m].of].status # "none"
    BY <1>4, <2>1 DEF TransitionWrite, Inv, AdoptionInv, AdoptionTypeOK, ManagerInv
  <2> QED
    BY <1>1, <1>4, <2>1, <2>2, MovedFields, UpdateSeals DEF TransitionWrite
<1>5. ASSUME NEW m \in Managers, UpdateDataWrite(m)
      PROVE  [Promise!Next]_<<drawn, seals, open, closed>>
  <2>1. manager[m].of \in Requests /\ manager[m].text \in Texts
    BY <1>5, OperationFields DEF UpdateDataWrite, AdoptionTypeOK
  <2>2. contract[manager[m].of] \in Contract /\ contract[manager[m].of].status # "none"
    BY <1>5, <2>1 DEF UpdateDataWrite, Inv, AdoptionInv, AdoptionTypeOK, ManagerInv
  <2> QED
    BY <1>1, <1>5, <2>1, <2>2, EditedFields, UpdateSeals DEF UpdateDataWrite
<1>6. ASSUME NEW s \in signing, SignWrite(s)
      PROVE  [Promise!Next]_<<drawn, seals, open, closed>>
  <2>1. s \in Signature /\ s.of \in Requests
    BY DEF AdoptionTypeOK, Signature
  <2>2. /\ Apply(contract[s.of], s) \in Contract /\ contract[s.of].status # "none"
        /\ Apply(contract[s.of], s).parties = contract[s.of].parties
    BY <2>1, ApplyFields DEF Inv, AdoptionInv, AdoptionTypeOK, SignatureInv
  <2>3. UNCHANGED contract \/ UpdateContract(s.of, Apply(contract[s.of], s))
    BY <1>6 DEF SignWrite
  <2> QED
    BY <1>1, <1>2, <2>1, <2>2, <2>3, UpdateSeals
<1>7. \/ UNCHANGED contract
      \/ \E m \in Managers : TransitionWrite(m) \/ UpdateDataWrite(m)
      \/ \E m \in Managers, more \in SUBSET Additional, text \in Texts : GenerateWrite(m, more, text)
      \/ \E s \in signing : SignWrite(s)
  BY DEF AdoptionNext, Applying, Evaluation, Drafting, Signing, Create, EvaluateRead, EvaluateWrite,
         GenerateRead, TransitionRead, UpdateDataRead, Begin, RegisterRepresentative, SignRead
<1> QED
  BY <1>2, <1>3, <1>4, <1>5, <1>6, <1>7

LEMMA MilestoneSteps ==
  Inv /\ FollowUpNext => [Promise!Next]_<<drawn, seals, open, closed>>
<1> SUFFICES ASSUME Inv, FollowUpNext PROVE [Promise!Next]_<<drawn, seals, open, closed>>
  OBVIOUS
<1> TypeOK
  BY DEF Inv, FollowUpInv
<1>1. UNCHANGED <<drawn, seals>>
  BY FollowUpMovesOnly DEF drawn, seals, SealOf, adoptionVars
<1>2. UNCHANGED milestone => UNCHANGED <<drawn, seals, open, closed>>
  BY <1>1 DEF open, closed
<1>3. ASSUME NEW k \in Milestones, Schedule(k) PROVE Promise!Open(k)
  <2>1. k[1] \in Requests /\ contract[k[1]].status = "signed"
    BY <1>3 DEF Schedule, Milestones
  <2>2. seals[k[1]] # Promise!NotSealed
    BY <2>1, SealsOfSealed DEF seals
  <2>3. k \notin open \cup closed /\ open' = open \cup {k} /\ closed' = closed
    BY <1>3 DEF Schedule, TypeOK, open, closed, Answerable
  <2> QED
    BY <1>1, <2>2, <2>3 DEF Promise!Open
<1>4. ASSUME NEW k \in Milestones, milestone[k] # "none",
             milestone' = [milestone EXCEPT ![k] = "completed"]
      PROVE  Promise!Close(k) \/ UNCHANGED <<drawn, seals, open, closed>>
  <2>1. milestone[k] \in MilestoneStatus \ {"none"}
    BY <1>4 DEF TypeOK
  <2>2. CASE milestone[k] = "completed"
    BY <1>2, <1>4, <2>2 DEF TypeOK
  <2>3. CASE milestone[k] \in Answerable
    <3>1. k \in open /\ open' = open \ {k} /\ closed' = closed \cup {k}
      BY <1>4, <2>3 DEF TypeOK, open, closed, Answerable
    <3> QED
      BY <1>1, <3>1 DEF Promise!Close
  <2> QED
    BY <2>1, <2>2, <2>3 DEF MilestoneStatus, Answerable
<1>5. ASSUME NEW a \in answering, SubmitCommit(a)
      PROVE  Promise!Close(a.for) \/ UNCHANGED <<drawn, seals, open, closed>>
  <2>1. a.for \in Milestones /\ milestone[a.for] # "none"
    BY AnswerFields DEF Inv, FollowUpInv, TypeOK
  <2>2. UNCHANGED milestone \/ milestone' = [milestone EXCEPT ![a.for] = "completed"]
    BY <1>5 DEF SubmitCommit, TypeOK
  <2> QED
    BY <1>2, <1>4, <2>1, <2>2
<1>6. ASSUME NEW k \in Milestones, CompleteWrite(k)
      PROVE  Promise!Close(k) \/ UNCHANGED <<drawn, seals, open, closed>>
  BY <1>4, <1>6 DEF CompleteWrite, Inv, FollowUpInv
<1>7. ASSUME MarkOverdue PROVE UNCHANGED <<drawn, seals, open, closed>>
  <2>1. \A k \in Milestones :
          /\ milestone'[k] \in Answerable <=> milestone[k] \in Answerable
          /\ milestone'[k] = "completed" <=> milestone[k] = "completed"
    BY <1>7 DEF MarkOverdue, PastDue, Answerable
  <2> QED
    BY <1>1, <2>1 DEF open, closed
<1>8. \/ UNCHANGED milestone
      \/ \E k \in Milestones : Schedule(k) \/ CompleteWrite(k)
      \/ \E a \in answering : SubmitCommit(a)
      \/ MarkOverdue
  BY DEF FollowUpNext, Tracking, Scan, FallDue, SubmitLoad, SubmitSelect, CompleteRead, Alert, Restart
<1>9. \A a \in answering : a.for \in Milestones
  BY AnswerFields DEF TypeOK
<1> QED
  BY <1>2, <1>3, <1>5, <1>6, <1>7, <1>8, <1>9 DEF Promise!Next

LEMMA PromiseStep == Inv /\ Inv' /\ [Next]_vars => [Promise!Next]_<<drawn, seals, open, closed>>
<1>1. UNCHANGED vars => UNCHANGED <<drawn, seals, open, closed>>
  BY DEF vars, adoptionVars, followUpVars, drawn, seals, SealOf, open, closed
<1> QED
  BY <1>1, ContractSteps, MilestoneSteps DEF Next

(***************************************************************************)
(* Theorems                                                                *)
(***************************************************************************)
(* Every table and everything the handlers hold in memory keep their types. *)
THEOREM TypeCorrect == Spec => []TypeOK
<1>1. Inv => TypeOK
  BY DEF Inv, FollowUpInv
<1> QED
  BY <1>1, InvHolds, PTL

(* Whatever copies are written back over each other, no adopter or witness *)
(* stands on a contract that the representative has not signed.            *)
THEOREM RepresentativeSignsFirst == Spec => []RepresentativeFirst
<1>1. Inv => RepresentativeFirst
  BY DEF Inv, AdoptionInv, ContractInv, RepresentativeFirst
<1> QED
  BY <1>1, InvHolds, PTL

(* On a contract of two parties every signature answered with 200 stays,   *)
(* and the contract with both is sealed.                                   *)
THEOREM AcceptedSignaturesStay == Spec => []NoSignatureLost
<1>1. Inv => NoSignatureLost
  <2> SUFFICES ASSUME Inv, NEW q \in Requests, contract[q].parties = {Rep, Adopter}
               PROVE  /\ \A p \in Parties : <<q, p>> \in accepted => p \in contract[q].signed
                      /\ contract[q].signed = {Rep, Adopter} => contract[q].status = "signed"
    BY DEF NoSignatureLost
  <2>1. ContractInv(contract[q])
    BY DEF Inv, AdoptionInv
  <2>2. ASSUME NEW p \in Parties, <<q, p>> \in accepted PROVE p \in contract[q].signed
    <3>1. AcceptedInv(<<q, p>>)
      BY <2>2 DEF Inv, AdoptionInv
    <3> QED
      BY <3>1 DEF AcceptedInv, TwoParties
  <2> QED
    BY <2>1, <2>2 DEF ContractInv, TwoParties
<1> QED
  BY <1>1, InvHolds, PTL

(* Scans, answers, closings and restarts in any order alert an adopter of  *)
(* a milestone at most once, and only of one that fell due.                *)
THEOREM AlertsOnce == Spec => []AlertedOnce
<1>1. Inv => AlertedOnce
  BY DEF Inv, FollowUpInv, AlertInv, AlertedOnce, Noticed
<1> QED
  BY <1>1, InvHolds, PTL

(* Services, SQL functions and the freezing trigger implement the promise: *)
(* one seal by all parties, follow-up of sealed adoptions, nothing         *)
(* reopened.                                                               *)
THEOREM Implements == Spec => KeepsPromise
<1>1. Init => Promise!Init
  BY DEF Init, AdoptionInit, FollowUpInit, Promise!Init, Promise!NotSealed, NoContract,
         drawn, seals, SealOf, open, closed, Answerable
<1> QED
  BY <1>1, PromiseStep, InvHolds, PTL DEF Spec, KeepsPromise, Promise!Spec, Promise!promiseVars
=============================================================================
