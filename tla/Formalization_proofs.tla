------------------------- MODULE Formalization_proofs -------------------------
(***************************************************************************)
(* Proofs about Formalization, for any number of documents, tabs, tax      *)
(* numbers, jobs, attempts and restarts: its type invariant, that nobody   *)
(* gets to the tax status, or is shown at its level, without the DIAN, and *)
(* that "retrying" is only shown while an attempt is to come.              *)
(***************************************************************************)
EXTENDS Formalization, TLAPS

(***************************************************************************)
(* The operators                                                           *)
(***************************************************************************)
LEMMA StateValues ==
  FormalizationState = {"informal", "en_proceso", "formalizada", "esal", "esal_rte"}
<1>1. \A i \in 1 .. 5 : i = 1 \/ i = 2 \/ i = 3 \/ i = 4 \/ i = 5
  OBVIOUS
<1>2. /\ FormalizationSequence[1] = "informal"
      /\ FormalizationSequence[2] = "en_proceso"
      /\ FormalizationSequence[3] = "formalizada"
      /\ FormalizationSequence[4] = "esal"
      /\ FormalizationSequence[5] = "esal_rte"
  BY DEF FormalizationSequence
<1>3. 1 \in 1 .. 5 /\ 2 \in 1 .. 5 /\ 3 \in 1 .. 5 /\ 4 \in 1 .. 5 /\ 5 \in 1 .. 5
  OBVIOUS
<1> QED
  BY <1>1, <1>2, <1>3 DEF FormalizationState

(* The level of a state; only the last one reaches the fourth.             *)
LEMMA LevelTyped ==
  ASSUME NEW state \in FormalizationState
  PROVE  Level(state) \in 0 .. 4 /\ (Level(state) = 4 => state = "esal_rte")
  BY StateValues DEF Level

LEMMA OutcomeTyped ==
  ASSUME NEW verified \in BOOLEAN, NEW made \in Nat
  PROVE  /\ Outcome(verified, made) \in DianStatus
         /\ Outcome(verified, made) = "verified" => verified
         /\ Outcome(verified, made) = "retrying" => ~verified /\ made < MaxAttempts - 1
  BY FormalizationAssumption DEF Outcome, DianStatus, IsFinalDianAttempt

LEMMA OwnerFields ==
  ASSUME NEW n \in OwnerNote
  PROVE  /\ n.at = "moving" => n.to \in FormalizationState /\ n.nit \in Nits \cup {NoNit}
         /\ n.at = "enqueueing" => n.nit \in Nits
  BY DEF OwnerNote

LEMMA ReviewerFields ==
  ASSUME NEW n \in ReviewerNote
  PROVE  /\ n.at = "deciding" => n.of \in Documents /\ n.to \in {"approved", "refused"}
         /\ n.at = "recomputing" => n.level \in 0 .. 4
  BY DEF ReviewerNote

LEMMA JobFields ==
  ASSUME NEW n \in Job
  PROVE  n.made \in 0 .. MaxAttempts - 1 /\ (n.at # "free" => n.nit \in Nits)
  BY FormalizationAssumption DEF Job

LEMMA QuietIsNote == Quiet \in OwnerNote /\ Quiet \in ReviewerNote
  BY DEF Quiet, OwnerNote, ReviewerNote

(***************************************************************************)
(* Type correctness                                                        *)
(***************************************************************************)
LEMMA FormalizationTypeInit == FormalizationInit => FormalizationTypeOK
<1>1. Free \in Job
  BY FormalizationAssumption DEF Free, Job
<1> QED
  BY <1>1, FormalizationAssumption, StateValues, QuietIsNote
     DEF FormalizationInit, FormalizationTypeOK, Profile, DianStatus, DocumentStatus

LEMMA OwningTyped ==
  ASSUME FormalizationTypeOK, Owning PROVE FormalizationTypeOK'
<1> USE DEF FormalizationTypeOK
<1>1. ASSUME NEW o \in Owners, NEW to \in FormalizationState, MoveRead(o, to)
      PROVE  FormalizationTypeOK'
  <2> DEFINE note == [at |-> "moving", to |-> to, nit |-> profile.nit]
  <2>1. note \in OwnerNote
    BY DEF OwnerNote, Profile
  <2>2. owner' = [owner EXCEPT ![o] = note]
    BY <1>1 DEF MoveRead
  <2> HIDE DEF note
  <2> QED
    BY <1>1, <2>1, <2>2 DEF MoveRead
<1>2. ASSUME NEW o \in Owners, MoveWrite(o) PROVE FormalizationTypeOK'
  <2> DEFINE to   == owner[o].to
             row  == [profile EXCEPT !.state = to, !.rteVigente = (to = "esal_rte"), !.level = Level(to)]
             note == [at |-> "enqueueing", nit |-> owner[o].nit]
             next == IF to = "esal" /\ owner[o].nit # NoNit THEN note ELSE Quiet
  <2>1. to \in FormalizationState /\ owner[o].nit \in Nits \cup {NoNit}
    BY <1>2, OwnerFields DEF MoveWrite
  <2>2. Level(to) \in 0 .. 4
    BY <2>1, LevelTyped
  <2>3. row \in Profile
    BY <2>1, <2>2 DEF Profile
  <2>4. next \in OwnerNote
    BY <2>1, QuietIsNote DEF OwnerNote
  <2>5. profile' = row /\ owner' = [owner EXCEPT ![o] = next]
    BY <1>2 DEF MoveWrite
  <2> HIDE DEF to, row, note, next
  <2> QED
    BY <1>2, <2>3, <2>4, <2>5 DEF MoveWrite
<1>3. ASSUME NEW o \in Owners, ForgetToEnqueue(o) PROVE FormalizationTypeOK'
  BY <1>3, QuietIsNote DEF ForgetToEnqueue
<1>4. ASSUME NEW o \in Owners, NEW j \in Jobs, Enqueue(o, j) PROVE FormalizationTypeOK'
  <2> DEFINE new == [at |-> "waiting", nit |-> owner[o].nit, made |-> 0]
  <2>1. new \in Job
    BY <1>4, OwnerFields, FormalizationAssumption DEF Enqueue, Job
  <2>2. job' = [job EXCEPT ![j] = new]
    BY <1>4 DEF Enqueue, Add
  <2> HIDE DEF new
  <2> QED
    BY <1>4, <2>1, <2>2, QuietIsNote DEF Enqueue
<1>5. ASSUME NEW nit \in Nits, UpdateNit(nit) PROVE FormalizationTypeOK'
  BY <1>5 DEF UpdateNit, Profile
<1>6. ASSUME NEW d \in Documents, Upload(d) \/ Expire(d) PROVE FormalizationTypeOK'
  BY <1>6 DEF Upload, Expire, DocumentStatus
<1>7. ASSUME NEW j \in Jobs, RetryManually(j) PROVE FormalizationTypeOK'
  <2> DEFINE new == [at |-> "waiting", nit |-> profile.nit, made |-> 0]
  <2>1. new \in Job
    BY <1>7, FormalizationAssumption DEF RetryManually, Profile, Job
  <2>2. job' = [job EXCEPT ![j] = new]
    BY <1>7 DEF RetryManually, Add
  <2> HIDE DEF new
  <2> QED
    BY <1>7, <2>1, <2>2 DEF RetryManually
<1> QED
  BY <1>1, <1>2, <1>3, <1>4, <1>5, <1>6, <1>7 DEF Owning

LEMMA ReviewingTyped ==
  ASSUME FormalizationTypeOK, Reviewing PROVE FormalizationTypeOK'
<1> USE DEF FormalizationTypeOK
<1>1. ASSUME NEW r \in Reviewers, NEW d \in Documents, NEW to \in {"approved", "refused"},
             DecideSelect(r, d, to)
      PROVE  FormalizationTypeOK'
  <2> DEFINE note == [at |-> "deciding", of |-> d, to |-> to]
  <2>1. note \in ReviewerNote
    BY DEF ReviewerNote
  <2>2. reviewer' = [reviewer EXCEPT ![r] = note]
    BY <1>1 DEF DecideSelect
  <2> HIDE DEF note
  <2> QED
    BY <1>1, <2>1, <2>2 DEF DecideSelect
<1>2. ASSUME NEW r \in Reviewers, DecideUpdate(r) PROVE FormalizationTypeOK'
  <2> DEFINE note == IF Frozen(reviewer[r].of) THEN Quiet ELSE [at |-> "decided"]
  <2>1. note \in ReviewerNote
    BY DEF ReviewerNote, Quiet
  <2>2. reviewer' = [reviewer EXCEPT ![r] = note]
    BY <1>2 DEF DecideUpdate
  <2>3. document' \in [Documents -> DocumentStatus]
    BY <1>2, ReviewerFields DEF DecideUpdate, DocumentStatus
  <2> HIDE DEF note
  <2> QED
    BY <1>2, <2>1, <2>2, <2>3 DEF DecideUpdate
<1>3. ASSUME NEW r \in Reviewers, RecomputeRead(r) PROVE FormalizationTypeOK'
  <2> DEFINE note == [at |-> "recomputing", level |-> Level(profile.state)]
  <2>1. Level(profile.state) \in 0 .. 4
    BY LevelTyped DEF Profile
  <2>2. note \in ReviewerNote
    BY <2>1 DEF ReviewerNote
  <2>3. reviewer' = [reviewer EXCEPT ![r] = note]
    BY <1>3 DEF RecomputeRead
  <2> HIDE DEF note
  <2> QED
    BY <1>3, <2>2, <2>3 DEF RecomputeRead
<1>4. ASSUME NEW r \in Reviewers, RecomputeWrite(r) PROVE FormalizationTypeOK'
  <2>1. reviewer[r].level \in 0 .. 4
    BY <1>4, ReviewerFields DEF RecomputeWrite
  <2>2. profile' \in Profile
    BY <1>4, <2>1 DEF RecomputeWrite, Profile
  <2> QED
    BY <1>4, <2>2, QuietIsNote DEF RecomputeWrite
<1>5. ASSUME NEW r \in Reviewers, RecomputeFails(r) PROVE FormalizationTypeOK'
  BY <1>5, QuietIsNote DEF RecomputeFails
<1> QED
  BY <1>1, <1>2, <1>3, <1>4, <1>5 DEF Reviewing

LEMMA VerifyingTyped ==
  ASSUME FormalizationTypeOK, Verifying PROVE FormalizationTypeOK'
<1> USE DEF FormalizationTypeOK
<1>1. ASSUME NEW j \in Jobs, NEW verified \in BOOLEAN, AttemptVerification(j, verified)
      PROVE  FormalizationTypeOK'
  <2> DEFINE end == IF verified THEN "succeeded" ELSE "failed"
             new == [job[j] EXCEPT !.at = end]
             out == Outcome(verified, job[j].made)
             row == [profile EXCEPT !.dian = out]
  <2>1. job[j].made \in Nat /\ job[j].nit \in Nits
    BY <1>1, JobFields DEF AttemptVerification
  <2>2. out \in DianStatus
    BY <2>1, OutcomeTyped
  <2>3. row \in Profile
    BY <2>2 DEF Profile
  <2>4. new \in Job
    BY <1>1 DEF AttemptVerification, Job
  <2>5. profile' = row /\ job' = [job EXCEPT ![j] = new]
    BY <1>1 DEF AttemptVerification
  <2>6. confirmed' \in SUBSET Nits
    BY <1>1, <2>1 DEF AttemptVerification
  <2> HIDE DEF end, new, out, row
  <2> QED
    BY <1>1, <2>3, <2>4, <2>5, <2>6 DEF AttemptVerification
<1>2. ASSUME NEW j \in Jobs, Conclude(j) PROVE FormalizationTypeOK'
  <2> DEFINE new == IF job[j].at = "succeeded" \/ Exhausted(j) THEN Ended(j) ELSE NextAttempt(j)
  <2>1. Ended(j) \in Job
    BY <1>2 DEF Conclude, Job, Ended
  <2>2. ~Exhausted(j) => NextAttempt(j) \in Job
    BY <1>2, FormalizationAssumption, JobFields DEF Conclude, Job, Exhausted, NextAttempt
  <2>3. new \in Job
    BY <2>1, <2>2
  <2>4. job' = [job EXCEPT ![j] = new]
    BY <1>2 DEF Conclude
  <2> HIDE DEF new
  <2> QED
    BY <1>2, <2>3, <2>4 DEF Conclude
<1>3. ASSUME NEW j \in Jobs, Stall(j) PROVE FormalizationTypeOK'
  <2> DEFINE new == [job[j] EXCEPT !.at = "waiting"]
  <2>1. new \in Job
    BY <1>3 DEF Stall, Job
  <2>2. job' = [job EXCEPT ![j] = new]
    BY <1>3 DEF Stall
  <2>3. stalls' \in 0 .. MaxStalls
    BY <1>3, FormalizationAssumption DEF Stall
  <2> HIDE DEF new
  <2> QED
    BY <1>3, <2>1, <2>2, <2>3 DEF Stall
<1> QED
  BY <1>1, <1>2, <1>3 DEF Verifying, Attempt

LEMMA FormalizationTypeStep ==
  FormalizationTypeOK /\ [FormalizationNext]_formalizationVars => FormalizationTypeOK'
<1> SUFFICES ASSUME FormalizationTypeOK, [FormalizationNext]_formalizationVars
             PROVE  FormalizationTypeOK'
  OBVIOUS
<1>1. CASE UNCHANGED formalizationVars
  BY <1>1 DEF formalizationVars, FormalizationTypeOK
<1> QED
  BY <1>1, OwningTyped, ReviewingTyped, VerifyingTyped DEF FormalizationNext

(* Every variable keeps its type.                                          *)
THEOREM FormalizationTypeCorrect == FormalizationSpec => []FormalizationTypeOK
  BY FormalizationTypeInit, FormalizationTypeStep, PTL DEF FormalizationSpec

(***************************************************************************)
(* The tax status is earned                                                *)
(***************************************************************************)
(* What the state, the level and the notes of the operations under way say *)
(* of the DIAN is what it once has confirmed.                              *)
EarnedInv ==
  /\ RteIsEarned
  /\ profile.dian = "verified" => confirmed # {}
  /\ \A o \in Owners : owner[o].at = "moving" /\ owner[o].to = "esal_rte" => confirmed # {}
  /\ \A r \in Reviewers :
       reviewer[r].at = "recomputing" /\ reviewer[r].level = 4 => confirmed # {}

LEMMA EarnedInit == FormalizationInit => EarnedInv
  BY DEF FormalizationInit, EarnedInv, RteIsEarned, Quiet

(* A step that touches neither profile nor notes, or puts notes away.      *)
LEMMA EarnedKept ==
  ASSUME FormalizationTypeOK, EarnedInv, confirmed' = confirmed,
         profile'.state = profile.state, profile'.level = profile.level,
         profile'.rteVigente = profile.rteVigente, profile'.dian = profile.dian,
         \A o \in Owners : owner'[o].at = "moving" => owner'[o] = owner[o],
         \A r \in Reviewers : reviewer'[r].at = "recomputing" => reviewer'[r] = reviewer[r]
  PROVE  EarnedInv'
  BY DEF EarnedInv, RteIsEarned

LEMMA OwningEarned ==
  ASSUME FormalizationTypeOK, EarnedInv, Owning PROVE EarnedInv'
<1> USE DEF FormalizationTypeOK
<1>1. ASSUME NEW o \in Owners, NEW to \in FormalizationState, MoveRead(o, to) PROVE EarnedInv'
  <2>1. to = "esal_rte" => confirmed # {}
    BY <1>1 DEF MoveRead, CheckTransition, EarnedInv
  <2> DEFINE note == [at |-> "moving", to |-> to, nit |-> profile.nit]
  <2>2. owner' = [owner EXCEPT ![o] = note] /\ note.to = to
    BY <1>1 DEF MoveRead
  <2> HIDE DEF note
  <2> QED
    BY <1>1, <2>1, <2>2 DEF MoveRead, EarnedInv, RteIsEarned
<1>2. ASSUME NEW o \in Owners, MoveWrite(o) PROVE EarnedInv'
  <2> DEFINE to   == owner[o].to
             note == [at |-> "enqueueing", nit |-> owner[o].nit]
             next == IF to = "esal" /\ owner[o].nit # NoNit THEN note ELSE Quiet
  <2>1. to \in FormalizationState
    BY <1>2, OwnerFields DEF MoveWrite
  <2>2. to = "esal_rte" => confirmed # {}
    BY <1>2 DEF MoveWrite, EarnedInv
  <2>3. /\ profile'.state = to
        /\ profile'.rteVigente = (to = "esal_rte")
        /\ profile'.level = Level(to)
        /\ profile'.dian = profile.dian
    BY <1>2 DEF MoveWrite, Profile
  <2>4. Level(to) = 4 => to = "esal_rte"
    BY <2>1, LevelTyped
  <2>5. owner' = [owner EXCEPT ![o] = next] /\ next.at # "moving"
    BY <1>2 DEF MoveWrite, Quiet
  <2> HIDE DEF to, note, next
  <2> QED
    BY <1>2, <2>2, <2>3, <2>4, <2>5 DEF MoveWrite, EarnedInv, RteIsEarned
<1>3. ASSUME NEW o \in Owners, ForgetToEnqueue(o) PROVE EarnedInv'
  BY <1>3, EarnedKept DEF ForgetToEnqueue, Quiet
<1>4. ASSUME NEW o \in Owners, NEW j \in Jobs, Enqueue(o, j) PROVE EarnedInv'
  BY <1>4, EarnedKept DEF Enqueue, Quiet
<1>5. ASSUME NEW nit \in Nits, UpdateNit(nit) PROVE EarnedInv'
  BY <1>5, EarnedKept DEF UpdateNit, Profile
<1>6. ASSUME NEW d \in Documents, Upload(d) \/ Expire(d) PROVE EarnedInv'
  BY <1>6, EarnedKept DEF Upload, Expire
<1>7. ASSUME NEW j \in Jobs, RetryManually(j) PROVE EarnedInv'
  BY <1>7, EarnedKept DEF RetryManually
<1> QED
  BY <1>1, <1>2, <1>3, <1>4, <1>5, <1>6, <1>7 DEF Owning

LEMMA ReviewingEarned ==
  ASSUME FormalizationTypeOK, EarnedInv, Reviewing PROVE EarnedInv'
<1> USE DEF FormalizationTypeOK
<1>1. ASSUME NEW r \in Reviewers, NEW d \in Documents, NEW to \in {"approved", "refused"},
             DecideSelect(r, d, to)
      PROVE  EarnedInv'
  BY <1>1, EarnedKept DEF DecideSelect
<1>2. ASSUME NEW r \in Reviewers, DecideUpdate(r) PROVE EarnedInv'
  BY <1>2, EarnedKept DEF DecideUpdate, Quiet
<1>3. ASSUME NEW r \in Reviewers, RecomputeRead(r) PROVE EarnedInv'
  <2>1. Level(profile.state) = 4 => confirmed # {}
    BY LevelTyped DEF Profile, EarnedInv, RteIsEarned
  <2> QED
    BY <1>3, <2>1 DEF RecomputeRead, EarnedInv, RteIsEarned
<1>4. ASSUME NEW r \in Reviewers, RecomputeWrite(r) PROVE EarnedInv'
  <2>1. reviewer[r].level = 4 => confirmed # {}
    BY <1>4 DEF RecomputeWrite, EarnedInv
  <2>2. /\ profile'.state = profile.state
        /\ profile'.rteVigente = profile.rteVigente
        /\ profile'.dian = profile.dian
        /\ profile'.level = reviewer[r].level
    BY <1>4 DEF RecomputeWrite, Profile
  <2>3. \A s \in Reviewers : reviewer'[s].at = "recomputing" => reviewer'[s] = reviewer[s]
    BY <1>4 DEF RecomputeWrite, Quiet
  <2> QED
    BY <1>4, <2>1, <2>2, <2>3 DEF RecomputeWrite, EarnedInv, RteIsEarned
<1>5. ASSUME NEW r \in Reviewers, RecomputeFails(r) PROVE EarnedInv'
  BY <1>5, EarnedKept DEF RecomputeFails, Quiet
<1> QED
  BY <1>1, <1>2, <1>3, <1>4, <1>5 DEF Reviewing

LEMMA VerifyingEarned ==
  ASSUME FormalizationTypeOK, EarnedInv, Verifying PROVE EarnedInv'
<1> USE DEF FormalizationTypeOK
<1>1. ASSUME NEW j \in Jobs, NEW verified \in BOOLEAN, AttemptVerification(j, verified)
      PROVE  EarnedInv'
  <2>1. job[j].made \in Nat
    BY JobFields, FormalizationAssumption
  <2>2. /\ profile'.state = profile.state
        /\ profile'.level = profile.level
        /\ profile'.rteVigente = profile.rteVigente
        /\ profile'.dian = Outcome(verified, job[j].made)
    BY <1>1 DEF AttemptVerification, Profile
  <2>3. profile'.dian = "verified" => verified
    BY <2>1, <2>2, OutcomeTyped
  <2>4. confirmed' = IF verified THEN confirmed \cup {job[j].nit} ELSE confirmed
    BY <1>1 DEF AttemptVerification
  <2>5. (confirmed # {} => confirmed' # {}) /\ (verified => confirmed' # {})
    BY <2>4
  <2> QED
    BY <1>1, <2>2, <2>3, <2>5 DEF AttemptVerification, EarnedInv, RteIsEarned
<1>2. ASSUME NEW j \in Jobs, Conclude(j) \/ Stall(j) PROVE EarnedInv'
  BY <1>2, EarnedKept DEF Conclude, Stall
<1> QED
  BY <1>1, <1>2 DEF Verifying, Attempt

LEMMA EarnedStep ==
  FormalizationTypeOK /\ EarnedInv /\ [FormalizationNext]_formalizationVars => EarnedInv'
<1> SUFFICES ASSUME FormalizationTypeOK, EarnedInv, [FormalizationNext]_formalizationVars
             PROVE  EarnedInv'
  OBVIOUS
<1>1. CASE UNCHANGED formalizationVars
  BY <1>1, EarnedKept DEF formalizationVars
<1> QED
  BY <1>1, OwningEarned, ReviewingEarned, VerifyingEarned DEF FormalizationNext

(* Nobody is, or is shown at the level of, an ESAL with RTE without the    *)
(* DIAN having confirmed a tax number.                                     *)
THEOREM RteAlwaysEarned == FormalizationSpec => []RteIsEarned
<1>1. EarnedInv => RteIsEarned
  BY DEF EarnedInv
<1> QED
  BY <1>1, FormalizationTypeInit, FormalizationTypeStep, EarnedInit, EarnedStep, PTL DEF FormalizationSpec

(***************************************************************************)
(* A promised retry comes                                                  *)
(***************************************************************************)
(* The job that will: it waits, or failed an attempt that was not its last.*)
Promised(j) == job[j].at = "waiting" \/ (job[j].at = "failed" /\ ~Exhausted(j))

RetryInv == profile.dian = "retrying" => \E j \in Jobs : Promised(j)

(* A step that leaves the status alone, and every promise.                 *)
LEMMA PromisesKept ==
  ASSUME RetryInv, profile'.dian = profile.dian,
         \A j \in Jobs : Promised(j) => Promised(j)'
  PROVE  RetryInv'
  BY DEF RetryInv

LEMMA AddKeeps ==
  ASSUME FormalizationTypeOK, NEW k \in Jobs, NEW nit, Add(k, nit)
  PROVE  \A j \in Jobs : Promised(j) => Promised(j)'
  BY DEF Add, Free, Promised, Exhausted, FormalizationTypeOK

LEMMA RetryStep ==
  FormalizationTypeOK /\ RetryInv /\ [FormalizationNext]_formalizationVars => RetryInv'
<1> SUFFICES ASSUME FormalizationTypeOK, RetryInv, [FormalizationNext]_formalizationVars
             PROVE  RetryInv'
  OBVIOUS
<1>1. CASE Owning
  <2>1. ASSUME NEW o \in Owners, MoveWrite(o) PROVE RetryInv'
    BY <2>1, PromisesKept DEF MoveWrite, Promised, Exhausted, FormalizationTypeOK, Profile
  <2>2. ASSUME NEW o \in Owners, NEW j \in Jobs, Enqueue(o, j) PROVE RetryInv'
    <3>1. Add(j, owner[o].nit) /\ profile' = profile
      BY <2>2 DEF Enqueue
    <3> QED
      BY <3>1, AddKeeps, PromisesKept
  <2>3. ASSUME NEW j \in Jobs, RetryManually(j) PROVE RetryInv'
    <3>1. Add(j, profile.nit) /\ profile' = profile
      BY <2>3 DEF RetryManually
    <3> QED
      BY <3>1, AddKeeps, PromisesKept
  <2>4. ASSUME NEW nit \in Nits, UpdateNit(nit) PROVE RetryInv'
    BY <2>4, PromisesKept DEF UpdateNit, Promised, Exhausted, FormalizationTypeOK, Profile
  <2>5. CASE UNCHANGED <<profile, job>>
    BY <2>5, PromisesKept DEF Promised, Exhausted
  <2> QED
    BY <1>1, <2>1, <2>2, <2>3, <2>4, <2>5 DEF Owning, MoveRead, ForgetToEnqueue, Upload, Expire
<1>2. CASE Reviewing
  <2>1. ASSUME NEW r \in Reviewers, RecomputeWrite(r) PROVE RetryInv'
    BY <2>1, PromisesKept DEF RecomputeWrite, Promised, Exhausted, FormalizationTypeOK, Profile
  <2>2. CASE UNCHANGED <<profile, job>>
    BY <2>2, PromisesKept DEF Promised, Exhausted
  <2> QED
    BY <1>2, <2>1, <2>2 DEF Reviewing, DecideSelect, DecideUpdate, RecomputeRead, RecomputeFails
<1>3. ASSUME NEW j \in Jobs, NEW verified \in BOOLEAN, AttemptVerification(j, verified)
      PROVE  RetryInv'
  <2>1. SUFFICES ASSUME profile'.dian = "retrying" PROVE Promised(j)'
    BY DEF RetryInv
  <2>2. job[j].made \in Nat
    BY JobFields, FormalizationAssumption DEF FormalizationTypeOK
  <2>3. profile'.dian = Outcome(verified, job[j].made)
    BY <1>3 DEF AttemptVerification, FormalizationTypeOK, Profile
  <2>4. ~verified /\ job[j].made < MaxAttempts - 1
    BY <2>1, <2>2, <2>3, OutcomeTyped
  <2>5. job'[j].at = "failed" /\ job'[j].made = job[j].made
    BY <1>3, <2>4 DEF AttemptVerification, FormalizationTypeOK, Job
  <2> QED
    BY <2>2, <2>4, <2>5, FormalizationAssumption DEF Promised, Exhausted
<1>4. ASSUME NEW j \in Jobs, Conclude(j) PROVE RetryInv'
  <2>1. profile' = profile
    BY <1>4 DEF Conclude
  <2>2. \A k \in Jobs : k # j => job'[k] = job[k]
    BY <1>4 DEF Conclude, FormalizationTypeOK
  <2>3. Promised(j) => job'[j] = NextAttempt(j)
    BY <1>4 DEF Conclude, Promised, FormalizationTypeOK
  <2>4. Promised(j) => Promised(j)'
    BY <2>3 DEF Promised, NextAttempt
  <2>5. \A k \in Jobs : Promised(k) => Promised(k)'
    BY <2>2, <2>4 DEF Promised, Exhausted
  <2> QED
    BY <2>1, <2>5, PromisesKept
<1>5. ASSUME NEW j \in Jobs, Stall(j) PROVE RetryInv'
  <2>1. job'[j].at = "waiting"
    BY <1>5 DEF Stall, FormalizationTypeOK, Job
  <2>2. \A k \in Jobs : k # j => job'[k] = job[k]
    BY <1>5 DEF Stall, FormalizationTypeOK
  <2>3. \A k \in Jobs : Promised(k) => Promised(k)'
    BY <2>1, <2>2 DEF Promised, Exhausted
  <2> QED
    BY <1>5, <2>3, PromisesKept DEF Stall
<1>6. CASE UNCHANGED formalizationVars
  BY <1>6, PromisesKept DEF formalizationVars, Promised, Exhausted
<1> QED
  BY <1>1, <1>2, <1>3, <1>4, <1>5, <1>6 DEF FormalizationNext, Verifying, Attempt

(* "retrying" is only shown while the queue holds a job that will.         *)
THEOREM RetryingAlwaysHasAJob == FormalizationSpec => []RetryingHasAJob
<1>1. FormalizationInit => RetryInv
  BY DEF FormalizationInit, RetryInv
<1>2. RetryInv => RetryingHasAJob
  BY DEF RetryInv, RetryingHasAJob, Promised
<1> QED
  BY <1>1, <1>2, FormalizationTypeInit, FormalizationTypeStep, RetryStep, PTL DEF FormalizationSpec

(***************************************************************************)
(* A document is decided once                                              *)
(***************************************************************************)
(* Only a pending document can be decided or uploaded anew, whatever the   *)
(* reviewers read before.                                                  *)
DecisionStays(d) ==
  /\ document[d] = "refused" => document'[d] = "refused"
  /\ document[d] = "approved" => document'[d] \in {"approved", "expired"}
  /\ document[d] = "expired" => document'[d] = "expired"

LEMMA DecisionStep ==
  ASSUME FormalizationTypeOK, [FormalizationNext]_formalizationVars, NEW d \in Documents
  PROVE  DecisionStays(d)
<1> USE DEF FormalizationTypeOK, DecisionStays
<1>1. ASSUME NEW e \in Documents, Upload(e) \/ Expire(e) PROVE DecisionStays(d)
  BY <1>1 DEF Upload, Expire
<1>2. ASSUME NEW r \in Reviewers, DecideUpdate(r) PROVE DecisionStays(d)
  BY <1>2, ReviewerFields DEF DecideUpdate, Frozen
<1>3. CASE UNCHANGED document
  BY <1>3
<1>4. CASE Owning
  BY <1>1, <1>3, <1>4
  DEF Owning, MoveRead, MoveWrite, ForgetToEnqueue, Enqueue, UpdateNit, RetryManually
<1>5. CASE Reviewing
  BY <1>2, <1>3, <1>5
  DEF Reviewing, DecideSelect, RecomputeRead, RecomputeWrite, RecomputeFails
<1>6. CASE Verifying
  BY <1>3, <1>6 DEF Verifying, Attempt, AttemptVerification, Conclude, Stall
<1>7. CASE UNCHANGED formalizationVars
  BY <1>3, <1>7 DEF formalizationVars
<1> QED
  BY <1>4, <1>5, <1>6, <1>7 DEF FormalizationNext

(* Of two decisions on one document the first stays.                       *)
THEOREM DecisionsStay == FormalizationSpec => DecidedOnce
<1>1. FormalizationTypeOK /\ [FormalizationNext]_formalizationVars
        => [\A d \in Documents : DecisionStays(d)]_formalizationVars
  BY DecisionStep
<1> QED
  BY <1>1, FormalizationTypeInit, FormalizationTypeStep, PTL DEF FormalizationSpec, DecidedOnce, DecisionStays
=============================================================================
