------------------------------- MODULE FollowUp -------------------------------
(***************************************************************************)
(* Adoptions with the follow-up of those whose contract is signed: the     *)
(* organization schedules milestones, the adopter answers them, the        *)
(* organization closes them, and a daily scan marks those past their date  *)
(* as overdue and alerts the adopter of each.                              *)
(*                                                                         *)
(* The scan's alerts are sent from memory, one by one, after its UPDATE    *)
(* has committed: a restart of the worker forgets those not yet sent.      *)
(***************************************************************************)
EXTENDS Adoptions

CONSTANTS
  Titles,        \* of the milestones of one contract
  MaxAnswering,  \* bound: the adopter's answers in flight
  MaxRestarts    \* bound: restarts of the worker

ASSUME FollowUpAssumption ==
  /\ MaxAnswering \in Nat
  /\ MaxRestarts \in Nat

VARIABLES
  milestone,   \* table adoption_followup_milestones: status
  tracked,     \* requests with a trackingRef
  evidence,    \* milestones with an adoption_followup_evidence
  due,         \* milestones past their date
  answering,   \* the adopter's answers between two of their steps
  closing,     \* milestones an organization's user has read and will complete
  alerting,    \* overdue milestones the scan holds in memory
  alerts,      \* alerts sent or attempted, by milestone
  restarts

followUpVars ==
  <<milestone, tracked, evidence, due, answering, closing, alerting, alerts, restarts>>
vars == <<adoptionVars, followUpVars>>

Milestones == Requests \X Titles

MilestoneStatus == {"none", "scheduled", "overdue", "completed"}
Answerable      == {"scheduled", "overdue"}

(* An answer of which the API has read its milestone, or of which the SQL  *)
(* function has.                                                           *)
Answer == [at : {"loaded", "selected"}, for : Milestones, complete : BOOLEAN]

FollowUpInit ==
  /\ milestone = [k \in Milestones |-> "none"]
  /\ tracked = {}
  /\ evidence = {}
  /\ due = {}
  /\ answering = {}
  /\ closing = {}
  /\ alerting = {}
  /\ alerts = [k \in Milestones |-> 0]
  /\ restarts = 0

Init == AdoptionInit /\ FollowUpInit

Schedule(k) ==
  /\ contract[k[1]].status = "signed"
  /\ milestone[k] = "none"
  /\ milestone' = [milestone EXCEPT ![k] = "scheduled"]
  /\ tracked' = tracked \cup {k[1]}
  /\ UNCHANGED <<adoptionVars, evidence, due, answering, closing, alerting, alerts, restarts>>

(* The milestone's date comes.                                             *)
FallDue(k) ==
  /\ milestone[k] # "none" /\ k \notin due
  /\ due' = due \cup {k}
  /\ UNCHANGED <<adoptionVars, milestone, tracked, evidence, answering, closing, alerting, alerts,
                 restarts>>

(***************************************************************************)
(* FollowUpService.submit and adoption_followup_submit                     *)
(***************************************************************************)
SubmitLoad(k, complete) ==
  /\ Cardinality(answering) < MaxAnswering
  /\ milestone[k] \in Answerable
  /\ answering' = answering \cup {[at |-> "loaded", for |-> k, complete |-> complete]}
  /\ UNCHANGED <<adoptionVars, milestone, tracked, evidence, due, closing, alerting, alerts,
                 restarts>>

(* The function's SELECT; when it finds nothing the answer is 409.         *)
SubmitSelect(a) ==
  /\ a \in answering /\ a.at = "loaded"
  /\ answering' = (answering \ {a}) \cup
       IF milestone[a.for] \in Answerable THEN {[a EXCEPT !.at = "selected"]} ELSE {}
  /\ UNCHANGED <<adoptionVars, milestone, tracked, evidence, due, closing, alerting, alerts,
                 restarts>>

(* ... and its INSERT and UPDATE, whatever was committed meanwhile.        *)
SubmitCommit(a) ==
  /\ a \in answering /\ a.at = "selected"
  /\ answering' = answering \ {a}
  /\ evidence' = evidence \cup {a.for}
  /\ milestone' = [milestone EXCEPT ![a.for] = IF a.complete THEN "completed" ELSE @]
  /\ UNCHANGED <<adoptionVars, tracked, due, closing, alerting, alerts, restarts>>

(***************************************************************************)
(* FollowUpService.complete                                                *)
(***************************************************************************)
CompleteRead(k) ==
  /\ milestone[k] \in Answerable
  /\ closing' = closing \cup {k}
  /\ UNCHANGED <<adoptionVars, milestone, tracked, evidence, due, answering, alerting, alerts,
                 restarts>>

CompleteWrite(k) ==
  /\ k \in closing
  /\ closing' = closing \ {k}
  /\ milestone' = [milestone EXCEPT ![k] = "completed"]
  /\ UNCHANGED <<adoptionVars, tracked, evidence, due, answering, alerting, alerts, restarts>>

(***************************************************************************)
(* FollowUpService.runOverdueScan and adoption_followups_mark_overdue      *)
(***************************************************************************)
(* Mutant: every open milestone past its date is returned.                 *)
DueOrOverdue == {k \in due : milestone[k] \in Answerable}

(* Mutant: those with an answer are left out.                              *)
DueUnanswered == {k \in due \ evidence : milestone[k] = "scheduled"}

PastDue == {k \in due : milestone[k] = "scheduled"}

(* One statement; the queue runs one scan at a time.                       *)
MarkOverdue ==
  /\ alerting = {} /\ PastDue # {}
  /\ milestone' = [k \in Milestones |-> IF k \in PastDue THEN "overdue" ELSE milestone[k]]
  /\ alerting' = PastDue
  /\ UNCHANGED <<adoptionVars, tracked, evidence, due, answering, closing, alerts, restarts>>

(* Sent, or tried and given up: the audit tells which.                     *)
Alert(k) ==
  /\ k \in alerting
  /\ alerting' = alerting \ {k}
  /\ alerts' = [alerts EXCEPT ![k] = @ + 1]
  /\ UNCHANGED <<adoptionVars, milestone, tracked, evidence, due, answering, closing, restarts>>

Restart ==
  /\ alerting # {} /\ restarts < MaxRestarts
  /\ alerting' = {}
  /\ restarts' = restarts + 1
  /\ UNCHANGED <<adoptionVars, milestone, tracked, evidence, due, answering, closing, alerts>>

Scan == MarkOverdue \/ (\E k \in Milestones : Alert(k)) \/ Restart

Tracking ==
  \/ \E k \in Milestones :
       \/ Schedule(k)
       \/ FallDue(k)
       \/ \E complete \in BOOLEAN : SubmitLoad(k, complete)
       \/ CompleteRead(k)
       \/ CompleteWrite(k)
  \/ \E a \in answering : SubmitSelect(a) \/ SubmitCommit(a)

FollowUpNext == Tracking \/ Scan

Next == (AdoptionNext /\ UNCHANGED followUpVars) \/ FollowUpNext

Spec == Init /\ [][Next]_vars

(* The scan is a repeated job: it runs again whenever it can, and goes     *)
(* through what it holds.                                                  *)
Fairness == WF_vars(MarkOverdue) /\ \A k \in Milestones : WF_vars(Alert(k))

FairSpec == Spec /\ Fairness

(***************************************************************************)
(* Properties                                                              *)
(***************************************************************************)
TypeOK ==
  /\ AdoptionTypeOK
  /\ milestone \in [Milestones -> MilestoneStatus]
  /\ tracked \in SUBSET Requests
  /\ evidence \in SUBSET Milestones
  /\ due \in SUBSET Milestones
  /\ answering \in SUBSET Answer
  /\ closing \in SUBSET Milestones
  /\ alerting \in SUBSET Milestones
  /\ alerts \in [Milestones -> Nat]
  /\ restarts \in 0 .. MaxRestarts

(* What adoption and follow-up together promise: a seal with the signature *)
(* of every party the contract was drawn up with, witnesses included, and  *)
(* which nothing changes, milestones of sealed contracts only, and no      *)
(* milestone reopened once it was completed.                               *)
SealOf(q) ==
  IF contract[q].status = "signed"
    THEN [signers |-> contract[q].signed, hash |-> contract[q].hash]
    ELSE [signers |-> {}, hash |-> NoText]

drawn  == [q \in Requests |-> contract[q].parties]
seals  == [q \in Requests |-> SealOf(q)]
open   == {k \in Milestones : milestone[k] \in Answerable}
closed == {k \in Milestones : milestone[k] = "completed"}

Promise == INSTANCE AdoptionPromise WITH
  Adoptions <- Requests,
  Milestones <- Milestones,
  Parties <- Parties,
  Required <- {Rep, Adopter},
  Texts <- Texts,
  NoText <- NoText,
  parties <- drawn,
  seal <- seals,
  open <- open,
  closed <- closed

KeepsPromise == Promise!Spec

(* However scans, answers and restarts overlap, the adopter is alerted of  *)
(* a milestone once at most, and only of one that fell due.                *)
AlertedOnce ==
  \A k \in Milestones :
    /\ alerts[k] + (IF k \in alerting THEN 1 ELSE 0) <= 1
    /\ alerts[k] = 1 => k \in due /\ milestone[k] # "scheduled"

(* A milestone past its date does not stay scheduled: it is answered, or   *)
(* the scan finds it.                                                      *)
DueIsNoticed ==
  \A k \in Milestones :
    k \in due /\ milestone[k] = "scheduled" ~> milestone[k] \in {"overdue", "completed"}
=============================================================================
