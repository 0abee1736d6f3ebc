----------------------------- MODULE Volunteering -----------------------------
(***************************************************************************)
(* Volunteering: enrollments in an opportunity, the hours a volunteer logs *)
(* and the organization approves, and the certificate of those hours.      *)
(*                                                                         *)
(* The organization's operations read a row in a transaction at READ       *)
(* COMMITTED, check it, and write it by its id; office holds the note of   *)
(* what was read.  The volunteer's hours are inserted by a SQL function    *)
(* that looks for an accepted enrollment without a certificate first and   *)
(* locks nothing: logging holds the entries it is about to insert.         *)
(*                                                                         *)
(* A slot stands for a row still to be inserted.  issue is two steps: what *)
(* it reads, at one instant, and the certificate it inserts.               *)
(***************************************************************************)
EXTENDS Integers, FiniteSets, Functions

CONSTANTS
  Enrollments,   \* one for each volunteer of the opportunity
  Slots,         \* rows of hours a volunteer may log for one enrollment
  Office,        \* tabs of members of the organization
  SlotHours,     \* hours a session may take
  MinHours       \* STUDENT_SERVICE_MIN_HOURS

ASSUME VolunteeringAssumption ==
  /\ IsFiniteSet(Slots)
  /\ SlotHours \subseteq Nat \ {0}
  /\ MinHours \in Nat \ {0}

VARIABLES
  opportunity,   \* its status
  enrollment,    \* table volunteer_enrollments: status, and for what it is
  entry,         \* table service_hours
  certificate,   \* table volunteer_certificates, by its unique enrollment
  office,        \* operations between two of their statements
  logging,       \* entries checked, not inserted yet
  approved       \* entries that were approved at some time

volunteeringVars ==
  <<opportunity, enrollment, entry, certificate, office, logging, approved>>

Entries == Enrollments \X Slots

EnrollmentStatus == {"none", "pending", "accepted", "rejected", "completed"}
EntryStatus      == {"none", "pending", "approved", "rejected"}

(* appliesToStudentService with isMinor and the guardian's data: "orphan"  *)
(* is the student service of a minor without a guardian named.             *)
Kinds == {"general", "student", "orphan"}

Entry == [status : EntryStatus, hours : SlotHours \cup {0}]

Certificate == [issued : BOOLEAN, bitacora : SUBSET Entries, total : Nat]

NoEntry       == [status |-> "none", hours |-> 0]
NoCertificate == [issued |-> FALSE, bitacora |-> {}, total |-> 0]

Errand ==
  [at : {"idle"}]
    \cup [at : {"moving"}, of : Enrollments, to : {"accepted", "rejected", "completed"}]
    \cup [at : {"judging"}, of : Entries, to : {"approved", "rejected"}]
    \cup [at : {"issuing"}, of : Enrollments, bitacora : SUBSET Entries, total : Nat]

NoErrand == [at |-> "idle"]

VolunteeringInit ==
  /\ opportunity = "active"
  /\ enrollment = [e \in Enrollments |-> [status |-> "none", kind |-> "general"]]
  /\ entry = [k \in Entries |-> NoEntry]
  /\ certificate = [e \in Enrollments |-> NoCertificate]
  /\ office = [m \in Office |-> NoErrand]
  /\ logging = {}
  /\ approved = {}

Start(m, errand) ==
  /\ office[m] = NoErrand
  /\ office' = [office EXCEPT ![m] = errand]
  /\ UNCHANGED <<opportunity, enrollment, entry, certificate, logging, approved>>

Finish(m) == office' = [office EXCEPT ![m] = NoErrand]

(* VolunteerOpportunitiesService.update                                    *)
UpdateOpportunity ==
  /\ opportunity' = IF opportunity = "active" THEN "closed" ELSE "active"
  /\ UNCHANGED <<enrollment, entry, certificate, office, logging, approved>>

(***************************************************************************)
(* VolunteerEnrollmentsService                                             *)
(***************************************************************************)
Enroll(e, kind) ==
  /\ opportunity = "active"
  /\ enrollment[e].status = "none"
  /\ enrollment' = [enrollment EXCEPT ![e] = [status |-> "pending", kind |-> kind]]
  /\ UNCHANGED <<opportunity, entry, certificate, office, logging, approved>>

EnrollmentTransitions ==
  {<<"pending", "accepted">>, <<"pending", "rejected">>, <<"accepted", "completed">>}

(* decide and complete.                                                    *)
EnrollmentRead(m, e, to) ==
  /\ <<enrollment[e].status, to>> \in EnrollmentTransitions
  /\ Start(m, [at |-> "moving", of |-> e, to |-> to])

EnrollmentWrite(m) ==
  /\ office[m].at = "moving"
  /\ enrollment' = [enrollment EXCEPT ![office[m].of].status = office[m].to]
  /\ Finish(m)
  /\ UNCHANGED <<opportunity, entry, certificate, logging, approved>>

(***************************************************************************)
(* ServiceHoursService                                                     *)
(***************************************************************************)
LogCheck(k, hours) ==
  /\ enrollment[k[1]].status = "accepted"
  /\ ~certificate[k[1]].issued
  /\ entry[k] = NoEntry
  /\ \A l \in logging : l.of # k
  /\ logging' = logging \cup {[of |-> k, hours |-> hours]}
  /\ UNCHANGED <<opportunity, enrollment, entry, certificate, office, approved>>

LogInsert(l) ==
  /\ l \in logging
  /\ logging' = logging \ {l}
  /\ entry' = [entry EXCEPT ![l.of] = [status |-> "pending", hours |-> l.hours]]
  /\ UNCHANGED <<opportunity, enrollment, certificate, office, approved>>

DecideHoursRead(m, k, to) ==
  /\ entry[k].status = "pending"
  /\ Start(m, [at |-> "judging", of |-> k, to |-> to])

DecideHoursWrite(m) ==
  LET k == office[m].of IN
  /\ office[m].at = "judging"
  /\ entry' = [entry EXCEPT ![k].status = office[m].to]
  /\ approved' = approved \cup (IF office[m].to = "approved" THEN {k} ELSE {})
  /\ Finish(m)
  /\ UNCHANGED <<opportunity, enrollment, certificate, logging>>

(***************************************************************************)
(* VolunteerCertificatesService.issue                                      *)
(***************************************************************************)
EntriesOf(e) == {k \in {e} \X Slots : entry[k].status # "none"}

SumHours(S) == SumFunctionOnSet([k \in S |-> entry[k].hours], S)

(* Mutant: every session that was logged is certified.                     *)
LoggedEntries(e) == EntriesOf(e)

ApprovedEntries(e) == {k \in EntriesOf(e) : entry[k].status = "approved"}

Eligible(kind, hours) == kind # "orphan" /\ (kind = "general" \/ hours >= MinHours)

IssueRead(m, e) ==
  /\ enrollment[e].status \in {"accepted", "completed"}
  /\ ~certificate[e].issued
  /\ EntriesOf(e) # {}
  /\ \A k \in EntriesOf(e) : entry[k].status # "pending"
  /\ Eligible(enrollment[e].kind, SumHours(ApprovedEntries(e)))
  /\ Start(m, [at |-> "issuing", of |-> e, bitacora |-> ApprovedEntries(e),
             total |-> SumHours(ApprovedEntries(e))])

(* Mutant: without the unique key the later certificate is the one read.   *)
ReplaceCertificate(m) ==
  /\ office[m].at = "issuing"
  /\ certificate' = [certificate EXCEPT ![office[m].of] =
       [issued |-> TRUE, bitacora |-> office[m].bitacora, total |-> office[m].total]]
  /\ Finish(m)
  /\ UNCHANGED <<opportunity, enrollment, entry, logging, approved>>

(* A second certificate of one enrollment meets the unique key.            *)
IssueWrite(m) ==
  LET e == office[m].of IN
  /\ office[m].at = "issuing"
  /\ certificate' = [certificate EXCEPT ![e] =
       IF @.issued THEN @
       ELSE [issued |-> TRUE, bitacora |-> office[m].bitacora, total |-> office[m].total]]
  /\ Finish(m)
  /\ UNCHANGED <<opportunity, enrollment, entry, logging, approved>>

Volunteers ==
  \/ \E e \in Enrollments, kind \in Kinds : Enroll(e, kind)
  \/ \E k \in Entries, hours \in SlotHours : LogCheck(k, hours)
  \/ \E l \in logging : LogInsert(l)

Coordination ==
  \/ UpdateOpportunity
  \/ \E m \in Office :
       \/ \E e \in Enrollments, to \in EnrollmentStatus : EnrollmentRead(m, e, to)
       \/ EnrollmentWrite(m)
       \/ \E k \in Entries, to \in {"approved", "rejected"} : DecideHoursRead(m, k, to)
       \/ DecideHoursWrite(m)
       \/ \E e \in Enrollments : IssueRead(m, e)
       \/ IssueWrite(m)

VolunteeringNext == Volunteers \/ Coordination

VolunteeringSpec == VolunteeringInit /\ [][VolunteeringNext]_volunteeringVars

(***************************************************************************)
(* Properties                                                              *)
(***************************************************************************)
VolunteeringTypeOK ==
  /\ opportunity \in {"active", "closed"}
  /\ enrollment \in [Enrollments -> [status : EnrollmentStatus, kind : Kinds]]
  /\ entry \in [Entries -> Entry]
  /\ certificate \in [Enrollments -> Certificate]
  /\ office \in [Office -> Errand]
  /\ logging \in SUBSET [of : Entries, hours : SlotHours]
  /\ approved \in SUBSET Entries

(* Whatever is decided while a certificate is made: each session in its    *)
(* bitácora was logged for that enrollment and approved, its total is the  *)
(* sum of their hours, and for the student service that is the minimum     *)
(* ("las instituciones no certifican horas parciales") of someone whose    *)
(* guardian is known.                                                      *)
CertificateEarned ==
  \A e \in Enrollments :
    LET c == certificate[e] IN
    c.issued =>
      /\ c.bitacora \subseteq approved \cap ({e} \X Slots)
      /\ c.total = SumHours(c.bitacora)
      /\ enrollment[e].kind = "student" => c.total >= MinHours
      /\ enrollment[e].kind # "orphan"

(* A certificate that was issued is never replaced, although two requests  *)
(* may each have found none and read different sessions approved.          *)
CertificateFinal ==
  [][\A e \in Enrollments :
       certificate[e].issued => certificate'[e] = certificate[e]]_volunteeringVars
=============================================================================
