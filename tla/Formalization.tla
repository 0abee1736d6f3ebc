----------------------------- MODULE Formalization -----------------------------
(***************************************************************************)
(* An organization's way to a legal entity: its formalization state, the   *)
(* documents the platform reviews, the verification level computed of      *)
(* both, and the DIAN verification a queue retries.                        *)
(*                                                                         *)
(* A transition reads the profile and writes it with an upsert by id, the  *)
(* level recomputed within; the queue hears of it after the commit, from   *)
(* memory.  A reviewer's decision commits alone, and recomputes the level  *)
(* in a second transaction that may fail.  An attempt writes its result    *)
(* whatever other attempts wrote; BullMQ, told by an exception, counts it  *)
(* afterwards.                                                             *)
(***************************************************************************)
EXTENDS Integers, Sequences

CONSTANTS
  Documents,    \* versions of documents the organization may upload
  TypeOf,       \* their DocumentType
  Owners,       \* tabs of the organization's owner
  Reviewers,    \* tabs of the platform's reviewers
  Nits,         \* tax numbers the profile may have
  NoNit,        \* none yet
  Jobs,         \* bound: jobs of the queue dian-verification
  MaxAttempts,  \* DIAN_VERIFICATION_MAX_ATTEMPTS
  MaxStalls     \* bound: workers that stop between an attempt and its end

ASSUME FormalizationAssumption ==
  /\ TypeOf \in [Documents -> {"rut", "certificate"}]
  /\ NoNit \notin Nits
  /\ MaxAttempts \in Nat \ {0}
  /\ MaxStalls \in Nat

VARIABLES
  profile,     \* the row of organization_profiles
  document,    \* table organization_documents: status, "expired" past its date
  owner,       \* transitions between their read and their write, or to enqueue
  reviewer,    \* decisions between the function's SELECT and the level's write
  job,         \* the queue
  confirmed,   \* tax numbers the DIAN has confirmed
  stalls

formalizationVars ==
  <<profile, document, owner, reviewer, job, confirmed, stalls>>

FormalizationSequence == <<"informal", "en_proceso", "formalizada", "esal", "esal_rte">>
FormalizationState    == {FormalizationSequence[i] : i \in 1 .. 5}

DocumentStatus == {"none", "pending", "refused", "approved", "expired"}
DianStatus     == {"pending", "retrying", "verified", "failed"}

Profile == [state : FormalizationState, rteVigente : BOOLEAN, level : 0 .. 4,
            dian : DianStatus, nit : Nits \cup {NoNit}]

OwnerNote ==
  [at : {"idle"}]
    \cup [at : {"moving"}, to : FormalizationState, nit : Nits \cup {NoNit}]
    \cup [at : {"enqueueing"}, nit : Nits]

ReviewerNote ==
  [at : {"idle"}]
    \cup [at : {"deciding"}, of : Documents, to : {"approved", "refused"}]
    \cup [at : {"decided"}]
    \cup [at : {"recomputing"}, level : 0 .. 4]

Job ==
  [at : {"free"}, nit : {NoNit}, made : {0}]
    \cup [at : {"waiting", "succeeded", "failed", "over"}, nit : Nits, made : 0 .. MaxAttempts - 1]

Free == [at |-> "free", nit |-> NoNit, made |-> 0]
Quiet == [at |-> "idle"]

FormalizationInit ==
  /\ profile = [state |-> "informal", rteVigente |-> FALSE, level |-> 0, dian |-> "pending",
                nit |-> NoNit]
  /\ document = [d \in Documents |-> "none"]
  /\ owner = [o \in Owners |-> Quiet]
  /\ reviewer = [r \in Reviewers |-> Quiet]
  /\ job = [j \in Jobs |-> Free]
  /\ confirmed = {}
  /\ stalls = 0

(***************************************************************************)
(* computeVerificationLevel                                                *)
(***************************************************************************)
Satisfied(type) == \E d \in Documents : TypeOf[d] = type /\ document[d] = "approved"

Level(state) ==
  CASE ~Satisfied("rut")                               -> 0
    [] Satisfied("rut") /\ ~Satisfied("certificate")   -> 1
    [] OTHER -> CASE state \in {"informal", "en_proceso"} -> 2
                  [] state \in {"formalizada", "esal"}    -> 3
                  [] OTHER                                -> 4

(***************************************************************************)
(* FormalizationService.transition                                         *)
(***************************************************************************)
Adjacent(from, to) ==
  \E i \in 1 .. 4 :
    {from, to} = {FormalizationSequence[i], FormalizationSequence[i + 1]}

(* Mutant: an absent status means ungated.                                 *)
UngatedTransition(from, to) ==
  /\ Adjacent(from, to)
  /\ to = "esal_rte" => profile.dian \in {"verified", "pending"}

(* The catalog of documents a step requires is empty.                      *)
CheckTransition(from, to) ==
  /\ Adjacent(from, to)
  /\ to = "esal_rte" => profile.dian = "verified"

MoveRead(o, to) ==
  /\ owner[o] = Quiet
  /\ CheckTransition(profile.state, to)
  /\ owner' = [owner EXCEPT ![o] = [at |-> "moving", to |-> to, nit |-> profile.nit]]
  /\ UNCHANGED <<profile, document, reviewer, job, confirmed, stalls>>

MoveWrite(o) ==
  LET to  == owner[o].to
      nit == owner[o].nit
  IN
  /\ owner[o].at = "moving"
  /\ profile' = [profile EXCEPT !.state = to, !.rteVigente = (to = "esal_rte"),
                                !.level = Level(to)]
  /\ owner' = [owner EXCEPT ![o] =
       IF to = "esal" /\ nit # NoNit THEN [at |-> "enqueueing", nit |-> nit] ELSE Quiet]
  /\ UNCHANGED <<document, reviewer, job, confirmed, stalls>>

(* The API stops between the commit and the queue.                         *)
ForgetToEnqueue(o) ==
  /\ owner[o].at = "enqueueing"
  /\ owner' = [owner EXCEPT ![o] = Quiet]
  /\ UNCHANGED <<profile, document, reviewer, job, confirmed, stalls>>

(* OrgProfileService.updateProfile                                         *)
UpdateNit(nit) ==
  /\ nit # profile.nit
  /\ profile' = [profile EXCEPT !.nit = nit]
  /\ UNCHANGED <<document, owner, reviewer, job, confirmed, stalls>>

(***************************************************************************)
(* DocumentsService.upload, PlatformDocumentsService.decide                *)
(***************************************************************************)
Upload(d) ==
  /\ document[d] = "none"
  /\ document' = [document EXCEPT ![d] = "pending"]
  /\ UNCHANGED <<profile, owner, reviewer, job, confirmed, stalls>>

(* Nobody recomputes the level when a document's date passes.              *)
Expire(d) ==
  /\ document[d] = "approved"
  /\ document' = [document EXCEPT ![d] = "expired"]
  /\ UNCHANGED <<profile, owner, reviewer, job, confirmed, stalls>>

(* Mutant: nothing freezes a decided row.                                  *)
NeverFrozen(d) == FALSE

(* organization_documents_freeze_decision: no decided row is updated.      *)
Frozen(d) == document[d] # "pending"

DecideSelect(r, d, to) ==
  /\ reviewer[r] = Quiet
  /\ document[d] = "pending"
  /\ reviewer' = [reviewer EXCEPT ![r] = [at |-> "deciding", of |-> d, to |-> to]]
  /\ UNCHANGED <<profile, document, owner, job, confirmed, stalls>>

DecideUpdate(r) ==
  LET d == reviewer[r].of IN
  /\ reviewer[r].at = "deciding"
  /\ document' = [document EXCEPT ![d] = IF Frozen(d) THEN @ ELSE reviewer[r].to]
  /\ reviewer' = [reviewer EXCEPT ![r] = IF Frozen(d) THEN Quiet ELSE [at |-> "decided"]]
  /\ UNCHANGED <<profile, owner, job, confirmed, stalls>>

RecomputeRead(r) ==
  /\ reviewer[r].at = "decided"
  /\ reviewer' = [reviewer EXCEPT ![r] = [at |-> "recomputing", level |-> Level(profile.state)]]
  /\ UNCHANGED <<profile, document, owner, job, confirmed, stalls>>

RecomputeWrite(r) ==
  /\ reviewer[r].at = "recomputing"
  /\ profile' = [profile EXCEPT !.level = reviewer[r].level]
  /\ reviewer' = [reviewer EXCEPT ![r] = Quiet]
  /\ UNCHANGED <<document, owner, job, confirmed, stalls>>

(* "Best-effort": the decision stays, the level too.                       *)
RecomputeFails(r) ==
  /\ reviewer[r].at \in {"decided", "recomputing"}
  /\ reviewer' = [reviewer EXCEPT ![r] = Quiet]
  /\ UNCHANGED <<profile, document, owner, job, confirmed, stalls>>

(***************************************************************************)
(* DianVerificationService and its queue                                   *)
(***************************************************************************)
Add(j, nit) ==
  /\ job[j] = Free
  /\ job' = [job EXCEPT ![j] = [at |-> "waiting", nit |-> nit, made |-> 0]]

Enqueue(o, j) ==
  /\ owner[o].at = "enqueueing"
  /\ Add(j, owner[o].nit)
  /\ owner' = [owner EXCEPT ![o] = Quiet]
  /\ UNCHANGED <<profile, document, reviewer, confirmed, stalls>>

RetryManually(j) ==
  /\ profile.state = "esal" /\ profile.nit # NoNit
  /\ Add(j, profile.nit)
  /\ UNCHANGED <<profile, document, owner, reviewer, confirmed, stalls>>

(* Mutant: made counts the attempt that is running.                        *)
IsLastOfAll(made) == made >= MaxAttempts

IsFinalDianAttempt(made) == made >= MaxAttempts - 1

(* deriveDianAttemptOutcome                                                *)
Outcome(verified, made) ==
  CASE verified                                 -> "verified"
    [] ~verified /\ IsFinalDianAttempt(made)    -> "failed"
    [] OTHER                                    -> "retrying"

AttemptVerification(j, verified) ==
  /\ job[j].at = "waiting"
  /\ profile' = [profile EXCEPT !.dian = Outcome(verified, job[j].made)]
  /\ job' = [job EXCEPT ![j].at = IF verified THEN "succeeded" ELSE "failed"]
  /\ confirmed' = IF verified THEN confirmed \cup {job[j].nit} ELSE confirmed
  /\ UNCHANGED <<document, owner, reviewer, stalls>>

(* Mutant: attempts counts the retries.                                    *)
RetriesExhausted(j) == job[j].made + 1 > MaxAttempts

Exhausted(j) == job[j].made + 1 >= MaxAttempts

Ended(j) == [job[j] EXCEPT !.at = "over"]

NextAttempt(j) == [at |-> "waiting", nit |-> job[j].nit, made |-> job[j].made + 1]

(* BullMQ: the job has ended, or waits for its next attempt.               *)
Conclude(j) ==
  /\ job[j].at \in {"succeeded", "failed"}
  /\ job' = [job EXCEPT ![j] =
       IF job[j].at = "succeeded" \/ Exhausted(j) THEN Ended(j) ELSE NextAttempt(j)]
  /\ UNCHANGED <<profile, document, owner, reviewer, confirmed, stalls>>

(* The worker stops before BullMQ hears of the attempt; the job is stalled *)
(* and runs again with the count it had.                                   *)
Stall(j) ==
  /\ job[j].at \in {"succeeded", "failed"} /\ stalls < MaxStalls
  /\ job' = [job EXCEPT ![j].at = "waiting"]
  /\ stalls' = stalls + 1
  /\ UNCHANGED <<profile, document, owner, reviewer, confirmed>>

Owning ==
  \/ \E o \in Owners :
       \/ \E to \in FormalizationState : MoveRead(o, to)
       \/ MoveWrite(o)
       \/ ForgetToEnqueue(o)
       \/ \E j \in Jobs : Enqueue(o, j)
  \/ \E nit \in Nits : UpdateNit(nit)
  \/ \E d \in Documents : Upload(d) \/ Expire(d)
  \/ \E j \in Jobs : RetryManually(j)

Reviewing ==
  \E r \in Reviewers :
    \/ \E d \in Documents, to \in {"approved", "refused"} : DecideSelect(r, d, to)
    \/ DecideUpdate(r)
    \/ RecomputeRead(r)
    \/ RecomputeWrite(r)
    \/ RecomputeFails(r)

Attempt(j) == \E verified \in BOOLEAN : AttemptVerification(j, verified)

Verifying == \E j \in Jobs : Attempt(j) \/ Conclude(j) \/ Stall(j)

FormalizationNext == Owning \/ Reviewing \/ Verifying

FormalizationSpec == FormalizationInit /\ [][FormalizationNext]_formalizationVars

(***************************************************************************)
(* Properties                                                              *)
(***************************************************************************)
FormalizationTypeOK ==
  /\ profile \in Profile
  /\ document \in [Documents -> DocumentStatus]
  /\ owner \in [Owners -> OwnerNote]
  /\ reviewer \in [Reviewers -> ReviewerNote]
  /\ job \in [Jobs -> Job]
  /\ confirmed \in SUBSET Nits
  /\ stalls \in 0 .. MaxStalls

(* However transitions, retries and stale levels overlap: an organization  *)
(* that is, or is shown at the level of, an ESAL with RTE has had a tax    *)
(* number confirmed by the DIAN.                                           *)
RteIsEarned ==
  /\ profile.state = "esal_rte" => confirmed # {}
  /\ profile.level = 4 => confirmed # {}
  /\ profile.rteVigente <=> profile.state = "esal_rte"

(* The profile says "retrying" only while the queue holds a job that will: *)
(* no order of two ladders' attempts, restarts of the worker among them,   *)
(* leaves the promise of a retry that never comes.                         *)
RetryingHasAJob ==
  profile.dian = "retrying" =>
    \E j \in Jobs : job[j].at \in {"waiting", "failed", "succeeded"}

(* Two reviewers may open one document; what the first decides stays, and  *)
(* the level is computed of it: an approval only ever expires.             *)
DecidedOnce ==
  [][\A d \in Documents :
       /\ document[d] = "refused" => document'[d] = "refused"
       /\ document[d] = "approved" => document'[d] \in {"approved", "expired"}
       /\ document[d] = "expired" => document'[d] = "expired"]_formalizationVars
=============================================================================
