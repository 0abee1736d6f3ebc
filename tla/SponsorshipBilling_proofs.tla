----------------------- MODULE SponsorshipBilling_proofs -----------------------
(***************************************************************************)
(* Proofs about SponsorshipBilling, for any number of sponsorships,        *)
(* workers, months and attempts, any ladder settings and any calendar.     *)
(***************************************************************************)
EXTENDS SponsorshipBilling, TLAPS

LEMMA MonthTypes ==
  /\ Len(MonthStart) \in Nat
  /\ \A m \in 1 .. Len(MonthStart) : MonthStart[m] \in Nat
BY BillingAssumption

LEMMA ConstantTypes ==
  /\ MaxAttempts \in Nat /\ MaxAttempts >= 3
  /\ 1 \in Attempts
  /\ MaxFaults \in Nat
  /\ Days \subseteq Nat
  /\ 0 \in Days
BY BillingAssumption DEF Attempts

(* The calendar's two operators are defined on every day. *)
LEMMA CalendarTypes ==
  ASSUME NEW d \in Days
  PROVE  BillingPeriod(d) \in Periods /\ AddMonth(d) \in Nat
<1>1. BillingPeriod(d) \in Periods /\ MonthStart[BillingPeriod(d)] <= d
  BY BillingAssumption DEF BillingPeriod
<1>2. /\ BillingPeriod(d) \in 1 .. Len(MonthStart)
      /\ BillingPeriod(d) + 1 \in 1 .. Len(MonthStart)
  BY <1>1, MonthTypes DEF Periods
<1>3. /\ MonthStart[BillingPeriod(d)] \in Nat
      /\ MonthStart[BillingPeriod(d) + 1] \in Nat
      /\ d \in Nat
  BY <1>2, MonthTypes, ConstantTypes
<1>4. AddMonth(d) \in Nat
  BY <1>1, <1>3 DEF AddMonth
<1> QED
  BY <1>1, <1>4

(* A new attempt is only made after attempts 1 and 2, failure follows 3.   *)
LEMMA LadderWalks ==
  ASSUME NEW count, NEW reminders, NEW elapsed
  PROVE  /\ "next" \in NextLadderAction(count, reminders, elapsed) => count \in {1, 2}
         /\ "fail" \in NextLadderAction(count, reminders, elapsed) => count = 3
BY DEF NextLadderAction, Rungs

(***************************************************************************)
(* Type correctness                                                        *)
(***************************************************************************)
LEMMA NoJobType == NoJob \in Job
BY DEF NoJob, Job, Stages

LEMMA InitType == Init => TypeOK
<1> SUFFICES ASSUME Init PROVE TypeOK
  OBVIOUS
<1> USE ConstantTypes DEF Init
<1>1. sponsorship \in [Sponsorships -> SponsorshipRow]
  BY DEF SponsorshipRow, SponsorshipStatus, SuspensionReason
<1>2. payment \in [PeriodKey -> PaymentRow]
  BY DEF PaymentRow, PaymentStatus
<1>3. attempt \in [Key -> AttemptRow]
  BY DEF AttemptRow, AttemptResult
<1>4. http \in Requests
  BY DEF Requests, Calm
<1> QED
  BY <1>1, <1>2, <1>3, <1>4, NoJobType DEF TypeOK

LEMMA KeyTypes ==
  /\ \A k \in Key : PeriodOf(k) \in PeriodKey /\ k[1] \in Sponsorships /\ k[3] \in Attempts
  /\ \A c \in PeriodKey : c[1] \in Sponsorships
  /\ \A c \in PeriodKey, n \in Attempts : AttemptKey(c, n) \in Key
BY DEF Key, PeriodKey, PeriodOf, AttemptKey

LEMMA SponsorType ==
  ASSUME TypeOK, SponsorStep
  PROVE  TypeOK'
<1> USE ConstantTypes
<1>1. ASSUME NEW s \in Sponsorships, Subscribe(s) PROVE TypeOK'
  <2>1. today \in Nat
    BY DEF TypeOK
  <2>2. [status |-> "active", nextBilling |-> today, suspendedFor |-> "none"] \in SponsorshipRow
    BY <2>1 DEF SponsorshipRow, SponsorshipStatus, SuspensionReason
  <2>3. http' \in Requests
    BY <1>1 DEF TypeOK, Subscribe, Requests
  <2> QED
    BY <1>1, <2>2, <2>3 DEF TypeOK, Subscribe
<1>2. ASSUME NEW s \in Sponsorships, FirstChargeAnswered(s) PROVE TypeOK'
  <2>1. BillingPeriod(today) \in Periods
    BY CalendarTypes DEF TypeOK
  <2>2. PICK status \in ChargeStatus :
          /\ charge' = [charge EXCEPT ![<<s, BillingPeriod(today), 1>>] = status]
          /\ http' = [http EXCEPT !.subscribing = @ \ {s},
                        !.first = @ \cup {[s |-> s, day |-> today, status |-> status]}]
    BY <1>2 DEF FirstChargeAnswered
  <2>3. charge' \in [Key -> ChargeStatus \cup {"none"}]
    BY <2>2 DEF TypeOK
  <2>4. [s |-> s, day |-> today, status |-> status] \in FirstCharge
    BY DEF TypeOK, FirstCharge
  <2>5. http' \in Requests
    BY <2>2, <2>4 DEF TypeOK, Requests
  <2> QED
    BY <1>2, <2>3, <2>5 DEF TypeOK, FirstChargeAnswered
<1>3. ASSUME NEW s \in Sponsorships, FirstChargeThrows(s) PROVE TypeOK'
  <2>1. charge' \in [Key -> ChargeStatus \cup {"none"}]
    BY <1>3 DEF TypeOK, FirstChargeThrows
  <2>2. http' \in Requests
    BY <1>3 DEF TypeOK, FirstChargeThrows, Requests
  <2> QED
    BY <1>3, <2>1, <2>2 DEF TypeOK, FirstChargeThrows
<1>4. ASSUME NEW s \in Sponsorships, RetryPayment(s) PROVE TypeOK'
  <2>1. PICK p \in Periods :
          /\ payment[<<s, p>>].count < MaxAttempts
          /\ http' = [http EXCEPT !.retrying = @ \cup {<<s, p, payment[<<s, p>>].count + 1>>}]
    BY <1>4 DEF RetryPayment, FailedPeriods
  <2>2. payment[<<s, p>>].count \in 0 .. MaxAttempts
    BY DEF TypeOK, PaymentRow, PeriodKey
  <2>3. <<s, p, payment[<<s, p>>].count + 1>> \in Key
    BY <2>1, <2>2 DEF Key, Attempts
  <2>4. http' \in Requests
    BY <2>1, <2>3 DEF TypeOK, Requests
  <2> QED
    BY <1>4, <2>4 DEF TypeOK, RetryPayment
<1>5. ASSUME NEW f \in http.first, FirstChargeDeclined(f) PROVE TypeOK'
  <2>1. f.s \in Sponsorships
    BY DEF TypeOK, Requests, FirstCharge
  <2>2. [s |-> f.s, to |-> "cancelled"] \in Transition
    BY <2>1 DEF Transition, SponsorshipStatus
  <2>3. http' \in Requests
    BY <1>5, <2>2 DEF TypeOK, FirstChargeDeclined, Requests
  <2> QED
    BY <1>5, <2>3 DEF TypeOK, FirstChargeDeclined
<1>6. ASSUME NEW f \in http.first, RecordFirstPayment(f) PROVE TypeOK'
  <2> DEFINE c == <<f.s, BillingPeriod(f.day)>>
             k == <<f.s, BillingPeriod(f.day), 1>>
             paid == f.status = "approved"
             newPayment == [status |-> IF paid THEN "paid" ELSE "pending",
                            startedAt |-> f.day, count |-> 1, reminders |-> 0]
             newAttempt == [result |-> IF paid THEN "paid" ELSE "pending", real |-> TRUE]
  <2>1. f.s \in Sponsorships /\ f.day \in Days /\ f.day \in Nat
    BY DEF TypeOK, Requests, FirstCharge
  <2>2. AddMonth(f.day) \in Nat
    BY <2>1, CalendarTypes
  <2>3. newPayment \in PaymentRow /\ newAttempt \in AttemptRow
    BY <2>1 DEF PaymentRow, AttemptRow, PaymentStatus, AttemptResult
  <2>4. http' \in Requests
    BY <1>6 DEF TypeOK, RecordFirstPayment, Requests
  <2>5. payment' = payment \/ payment' = [payment EXCEPT ![c] = newPayment]
    BY <1>6 DEF RecordFirstPayment
  <2>6. attempt' = attempt \/ attempt' = [attempt EXCEPT ![k] = newAttempt]
    BY <1>6 DEF RecordFirstPayment
  <2>7. sponsorship' = sponsorship \/ sponsorship' = [sponsorship EXCEPT ![f.s].nextBilling = AddMonth(f.day)]
    BY <1>6 DEF RecordFirstPayment
  <2> HIDE DEF newPayment, newAttempt, c, k
  <2>8. payment' \in [PeriodKey -> PaymentRow]
    BY <2>3, <2>5 DEF TypeOK
  <2>9. attempt' \in [Key -> AttemptRow]
    BY <2>3, <2>6 DEF TypeOK
  <2>10. sponsorship' \in [Sponsorships -> SponsorshipRow]
    BY <2>1, <2>2, <2>7 DEF TypeOK, SponsorshipRow
  <2> QED
    BY <1>6, <2>4, <2>8, <2>9, <2>10 DEF TypeOK, RecordFirstPayment
<1>7. ASSUME NEW k \in http.retrying, RetryChargeAnswered(k) \/ RetryChargeThrows(k) PROVE TypeOK'
  <2>1. k \in Key
    BY DEF TypeOK, Requests
  <2>2. charge' \in [Key -> ChargeStatus \cup {"none"}]
    BY <1>7, <2>1 DEF TypeOK, RetryChargeAnswered, RetryChargeThrows
  <2>3. http' = [http EXCEPT !.retrying = @ \ {k}, !.retried = @ \cup {k}]
        \/ http' = [http EXCEPT !.retrying = @ \ {k}]
    BY <1>7 DEF RetryChargeAnswered, RetryChargeThrows
  <2>4. http' \in Requests
    <3>1. CASE http' = [http EXCEPT !.retrying = @ \ {k}]
      BY <3>1 DEF TypeOK, Requests
    <3>2. CASE http' = [http EXCEPT !.retrying = @ \ {k}, !.retried = @ \cup {k}]
      BY <2>1, <3>2 DEF TypeOK, Requests
    <3> QED
      BY <2>3, <3>1, <3>2
  <2> QED
    BY <1>7, <2>2, <2>4 DEF TypeOK, RetryChargeAnswered, RetryChargeThrows
<1>8. ASSUME NEW k \in http.retried, RecordRetry(k) PROVE TypeOK'
  <2>1. k \in Key /\ PeriodOf(k) \in PeriodKey /\ k[3] \in 0 .. MaxAttempts
    BY KeyTypes DEF TypeOK, Requests, Attempts
  <2>2. http' \in Requests
    BY <1>8 DEF TypeOK, RecordRetry, Requests
  <2>3. [result |-> "pending", real |-> TRUE] \in AttemptRow
    BY DEF AttemptRow, AttemptResult
  <2>4. attempt' \in [Key -> AttemptRow]
    BY <1>8, <2>3 DEF TypeOK, RecordRetry
  <2>5. payment' \in [PeriodKey -> PaymentRow]
    BY <1>8, <2>1 DEF TypeOK, RecordRetry, PaymentRow
  <2> QED
    BY <1>8, <2>2, <2>4, <2>5 DEF TypeOK, RecordRetry
<1> QED
  BY <1>1, <1>2, <1>3, <1>4, <1>5, <1>6, <1>7, <1>8 DEF SponsorStep

LEMMA ScanType ==
  ASSUME TypeOK, NEW w \in Workers, ScanStep(w)
  PROVE  TypeOK'
<1> USE ConstantTypes, KeyTypes
<1> DEFINE J == job[w]
<1>0. J \in Job
  BY DEF TypeOK
<1> HIDE DEF J
<1>a. ASSUME NEW j \in Job, job' = [job EXCEPT ![w] = j] PROVE job' \in [Workers -> Job]
  BY <1>a DEF TypeOK
<1>1. ASSUME StartScan(w) PROVE TypeOK'
  <2>1. [NoJob EXCEPT !.stage = "opening",
           !.due = {s \in Sponsorships : /\ sponsorship[s].status = "active"
                                         /\ sponsorship[s].nextBilling <= today}] \in Job
    BY DEF NoJob, Job, Stages
  <2> QED
    BY <1>1, <1>a, <2>1 DEF TypeOK, StartScan
<1>2. ASSUME StartAdvance(w) PROVE TypeOK'
  <2> DEFINE open == {[at |-> c, count |-> payment[c].count, reminders |-> payment[c].reminders] :
                        c \in {x \in PeriodKey : payment[x].status = "pending"}}
  <2>1. ASSUME NEW c \in PeriodKey, payment[c].status = "pending"
        PROVE  [at |-> c, count |-> payment[c].count, reminders |-> payment[c].reminders] \in OpenRow
    BY <2>1 DEF TypeOK, OpenRow, PaymentRow
  <2>2. open \subseteq OpenRow
    BY <2>1
  <2>3. job' = [job EXCEPT ![w] = [J EXCEPT !.stage = "advancing", !.rows = open]]
    BY <1>2 DEF StartAdvance, J, TypeOK
  <2>4. [J EXCEPT !.stage = "advancing", !.rows = open] \in Job
    BY <1>0, <2>2 DEF Job, Stages
  <2> QED
    BY <1>2, <1>a, <2>3, <2>4 DEF TypeOK, StartAdvance
<1>3. ASSUME FinishScan(w) PROVE TypeOK'
  BY <1>3, NoJobType DEF TypeOK, FinishScan
<1>4. ASSUME NEW s \in J.due, OpenPeriodFor(w, s) PROVE TypeOK'
  <2> DEFINE p == BillingPeriod(today)
             newPayment == [status |-> "pending", startedAt |-> today, count |-> 1, reminders |-> 0]
             newAttempt == [result |-> "pending", real |-> FALSE]
  <2>1. today \in Days /\ today \in Nat /\ s \in Sponsorships /\ AddMonth(today) \in Nat
    BY <1>0, CalendarTypes DEF TypeOK, Job
  <2>2. newPayment \in PaymentRow /\ newAttempt \in AttemptRow
    BY <2>1 DEF PaymentRow, AttemptRow, PaymentStatus, AttemptResult
  <2>3. /\ payment' = payment \/ payment' = [payment EXCEPT ![<<s, p>>] = newPayment]
        /\ attempt' = attempt \/ attempt' = [attempt EXCEPT ![<<s, p, 1>>] = newAttempt]
        /\ sponsorship' = sponsorship \/ sponsorship' = [sponsorship EXCEPT ![s].nextBilling = AddMonth(today)]
    BY <1>4 DEF OpenPeriodFor
  <2> HIDE DEF newPayment, newAttempt, p
  <2>4. payment' \in [PeriodKey -> PaymentRow] /\ attempt' \in [Key -> AttemptRow]
    BY <2>2, <2>3 DEF TypeOK
  <2>5. sponsorship' \in [Sponsorships -> SponsorshipRow]
    <3> DEFINE row == [sponsorship[s] EXCEPT !.nextBilling = AddMonth(today)]
    <3>1. row \in SponsorshipRow
      BY <2>1 DEF TypeOK, SponsorshipRow
    <3>2. sponsorship' = sponsorship \/ sponsorship' = [sponsorship EXCEPT ![s] = row]
      BY <2>3
    <3> HIDE DEF row
    <3> QED
      BY <3>1, <3>2 DEF TypeOK
  <2>6. job' = [job EXCEPT ![w] = [J EXCEPT !.due = @ \ {s}]]
    BY <1>4 DEF OpenPeriodFor, J, TypeOK
  <2>7. [J EXCEPT !.due = @ \ {s}] \in Job
    BY <1>0 DEF Job
  <2> QED
    BY <1>4, <1>a, <2>4, <2>5, <2>6, <2>7 DEF TypeOK, OpenPeriodFor
<1>5. ASSUME NEW r \in J.rows, TakeRow(w, r) PROVE TypeOK'
  <2>1. job' = [job EXCEPT ![w] = [J EXCEPT !.rows = @ \ {r}, !.row = {r}]]
    BY <1>5 DEF TakeRow, J, TypeOK
  <2>2. [J EXCEPT !.rows = @ \ {r}, !.row = {r}] \in Job
    BY <1>0 DEF Job
  <2> QED
    BY <1>5, <1>a, <2>1, <2>2 DEF TypeOK, TakeRow
<1>6. ASSUME NEW r \in J.row PROVE r \in OpenRow /\ r.at \in PeriodKey /\ r.at[1] \in Sponsorships
                                    /\ r.count \in 0 .. MaxAttempts /\ r.reminders \in Nat
  BY <1>0 DEF Job, OpenRow
<1>7. ASSUME NEW r \in J.row, SendReminder(w, r) PROVE TypeOK'
  <2>1. payment' \in [PeriodKey -> PaymentRow]
    <3> DEFINE row == [payment[r.at] EXCEPT !.reminders = @ + 1]
    <3>0. payment[r.at] \in PaymentRow
      BY <1>6 DEF TypeOK
    <3>1. row \in PaymentRow
      BY <3>0 DEF PaymentRow
    <3>2. payment' = [payment EXCEPT ![r.at] = row]
      BY <1>7 DEF SendReminder
    <3> HIDE DEF row
    <3> QED
      BY <3>1, <3>2 DEF TypeOK
  <2>2. [r EXCEPT !.reminders = @ + 1] \in OpenRow
    BY <1>6 DEF OpenRow
  <2>3. job' = [job EXCEPT ![w] = [J EXCEPT !.row = {[r EXCEPT !.reminders = @ + 1]}]]
    BY <1>7 DEF SendReminder, J, TypeOK
  <2>4. [J EXCEPT !.row = {[r EXCEPT !.reminders = @ + 1]}] \in Job
    BY <1>0, <2>2 DEF Job
  <2> QED
    BY <1>7, <1>a, <2>1, <2>3, <2>4 DEF TypeOK, SendReminder
<1>8. ASSUME NEW r \in J.row, ExpireAndCreateNextAttempt(w, r) PROVE TypeOK'
  <2> DEFINE old == AttemptKey(r.at, r.count)
             new == AttemptKey(r.at, r.count + 1)
  <2>1. r.count \in {1, 2}
    BY <1>8, LadderWalks DEF ExpireAndCreateNextAttempt, Walking
  <2>2. old \in Key /\ new \in Key /\ r.count + 1 \in 0 .. MaxAttempts
    BY <1>6, <2>1 DEF Attempts
  <2>3. CASE attempt[new].result = "none"
    <3>1. /\ attempt' = [attempt EXCEPT ![old].result = IF @ = "pending" THEN "expired" ELSE @,
                                        ![new] = [result |-> "pending", real |-> FALSE]]
          /\ payment' = [payment EXCEPT ![r.at].count = r.count + 1]
          /\ job' = [job EXCEPT ![w] = [J EXCEPT !.row = {[r EXCEPT !.count = @ + 1]}]]
      BY <1>8, <2>3 DEF ExpireAndCreateNextAttempt, J, TypeOK
    <3>2. attempt' \in [Key -> AttemptRow]
      BY <2>2, <3>1 DEF TypeOK, AttemptRow, AttemptResult
    <3>3. payment' \in [PeriodKey -> PaymentRow]
      BY <1>6, <2>2, <3>1 DEF TypeOK, PaymentRow
    <3>4. [r EXCEPT !.count = @ + 1] \in OpenRow
      BY <1>6, <2>2 DEF OpenRow
    <3>5. [J EXCEPT !.row = {[r EXCEPT !.count = @ + 1]}] \in Job
      BY <1>0, <3>4 DEF Job
    <3> QED
      BY <1>8, <1>a, <3>1, <3>2, <3>3, <3>5 DEF TypeOK, ExpireAndCreateNextAttempt
  <2>4. CASE attempt[new].result # "none"
    BY <1>8, <1>a, <2>4, NoJobType DEF TypeOK, ExpireAndCreateNextAttempt
  <2> QED
    BY <2>3, <2>4
<1>9. ASSUME NEW r \in J.row, BeginFailPeriod(w, r) PROVE TypeOK'
  <2>1. \/ job' = [job EXCEPT ![w] = [J EXCEPT !.stage = "failing"]]
        \/ job' = [job EXCEPT ![w] = NoJob]
    BY <1>9 DEF BeginFailPeriod, J, TypeOK
  <2>2. [J EXCEPT !.stage = "failing"] \in Job
    BY <1>0 DEF Job, Stages
  <2> QED
    BY <1>9, <1>a, <2>1, <2>2, NoJobType DEF TypeOK, BeginFailPeriod
<1>10. ASSUME NEW r \in J.row, CommitFailPeriod(w, r) PROVE TypeOK'
  <2>1. attempt' \in [Key -> AttemptRow]
    BY <1>10 DEF TypeOK, CommitFailPeriod, AttemptRow, AttemptResult
  <2>2. payment' \in [PeriodKey -> PaymentRow]
    BY <1>6, <1>10 DEF TypeOK, CommitFailPeriod, PaymentRow, PaymentStatus
  <2>3. sponsorship' \in [Sponsorships -> SponsorshipRow]
    BY <1>6, <1>10 DEF TypeOK, CommitFailPeriod, SponsorshipRow, SponsorshipStatus, SuspensionReason
  <2>4. job' = [job EXCEPT ![w] = [J EXCEPT !.stage = "advancing", !.row = {}]]
    BY <1>10 DEF CommitFailPeriod, J, TypeOK
  <2>5. [J EXCEPT !.stage = "advancing", !.row = {}] \in Job
    BY <1>0 DEF Job, Stages
  <2> QED
    BY <1>10, <1>a, <2>1, <2>2, <2>3, <2>4, <2>5 DEF TypeOK, CommitFailPeriod
<1>11. ASSUME NEW r \in J.row, FinishRow(w, r) PROVE TypeOK'
  <2>1. job' = [job EXCEPT ![w] = [J EXCEPT !.row = {}]]
    BY <1>11 DEF FinishRow, J, TypeOK
  <2>2. [J EXCEPT !.row = {}] \in Job
    BY <1>0 DEF Job
  <2> QED
    BY <1>11, <1>a, <2>1, <2>2 DEF TypeOK, FinishRow
<1> QED
  BY <1>1, <1>2, <1>3, <1>4, <1>5, <1>7, <1>8, <1>9, <1>10, <1>11 DEF ScanStep, J

LEMMA PollType ==
  ASSUME TypeOK, NEW w \in Workers, PollStep(w)
  PROVE  TypeOK'
<1> USE ConstantTypes, KeyTypes
<1> DEFINE J == job[w]
<1>0. J \in Job
  BY DEF TypeOK
<1> HIDE DEF J
<1>a. ASSUME NEW j \in Job, job' = [job EXCEPT ![w] = j] PROVE job' \in [Workers -> Job]
  BY <1>a DEF TypeOK
<1>b. ASSUME NEW k \in Key, MarkPaid(k)
      PROVE  attempt' \in [Key -> AttemptRow] /\ payment' \in [PeriodKey -> PaymentRow]
  BY <1>b DEF TypeOK, MarkPaid, AttemptRow, AttemptResult, PaymentRow, PaymentStatus
<1>1. ASSUME StartPoll(w) PROVE TypeOK'
  <2>1. [NoJob EXCEPT !.stage = "polling", !.polls = {k \in Key : attempt[k].result = "pending"}] \in Job
    BY DEF NoJob, Job, Stages
  <2> QED
    BY <1>1, <1>a, <2>1 DEF TypeOK, StartPoll
<1>2. ASSUME FinishPoll(w) PROVE TypeOK'
  BY <1>2, <1>a, NoJobType DEF TypeOK, FinishPoll
<1>3. ASSUME NEW k \in J.polls, PollApproved(w, k) PROVE TypeOK'
  <2>1. k \in Key
    BY <1>0 DEF Job
  <2>2. \/ job' = [job EXCEPT ![w] = [J EXCEPT !.polls = @ \ {k}]]
        \/ job' = [job EXCEPT ![w] = [J EXCEPT !.polls = @ \ {k}, !.poll = {k}, !.stage = "confirming"]]
    BY <1>3 DEF PollApproved, J, TypeOK
  <2>3. /\ [J EXCEPT !.polls = @ \ {k}] \in Job
        /\ [J EXCEPT !.polls = @ \ {k}, !.poll = {k}, !.stage = "confirming"] \in Job
    BY <1>0, <2>1 DEF Job, Stages
  <2>4. MarkPaid(k) \/ UNCHANGED <<attempt, payment>>
    BY <1>3 DEF PollApproved
  <2>5. job' \in [Workers -> Job]
    BY <1>a, <2>2, <2>3
  <2>6. attempt' \in [Key -> AttemptRow] /\ payment' \in [PeriodKey -> PaymentRow]
    BY <1>b, <2>1, <2>4 DEF TypeOK
  <2>7. UNCHANGED <<today, sponsorship, charge, http, faults>>
    BY <1>3 DEF PollApproved
  <2> QED
    BY <1>3, <2>5, <2>6, <2>7 DEF TypeOK
<1>4. ASSUME NEW k \in J.polls, GatewayOutage(w, k) PROVE TypeOK'
  <2>1. job' = [job EXCEPT ![w] = [J EXCEPT !.polls = @ \ {k}]]
    BY <1>4 DEF GatewayOutage, J, TypeOK
  <2>2. [J EXCEPT !.polls = @ \ {k}] \in Job
    BY <1>0 DEF Job
  <2>3. job' \in [Workers -> Job]
    BY <1>a, <2>1, <2>2
  <2>4. faults' \in 0 .. MaxFaults
    BY <1>4 DEF TypeOK, GatewayOutage
  <2> QED
    BY <1>4, <2>3, <2>4 DEF TypeOK, GatewayOutage
<1>5. ASSUME NEW k \in J.poll, CommitReactivation(w, k) PROVE TypeOK'
  <2>1. k \in Key
    BY <1>0 DEF Job
  <2>2. job' = [job EXCEPT ![w] = [J EXCEPT !.stage = "polling", !.poll = {}]]
    BY <1>5 DEF CommitReactivation, J, TypeOK
  <2>3. [J EXCEPT !.stage = "polling", !.poll = {}] \in Job
    BY <1>0 DEF Job, Stages
  <2>4. sponsorship' \in [Sponsorships -> SponsorshipRow]
    BY <1>5, <2>1 DEF TypeOK, CommitReactivation, SponsorshipRow, SponsorshipStatus
  <2> QED
    BY <1>5, <1>a, <1>b, <2>1, <2>2, <2>3, <2>4 DEF TypeOK, CommitReactivation
<1>6. ASSUME NEW k \in J.poll, ReactivationRefused(w, k) PROVE TypeOK'
  BY <1>6, <1>a, NoJobType DEF TypeOK, ReactivationRefused
<1> QED
  BY <1>1, <1>2, <1>3, <1>4, <1>5, <1>6 DEF PollStep, J

LEMMA StepType ==
  ASSUME TypeOK, [Next]_vars
  PROVE  TypeOK'
<1> USE ConstantTypes, KeyTypes
<1>1. ASSUME OrganizationStep PROVE TypeOK'
  <2>1. PICK s \in Sponsorships, to \in SponsorshipStatus : ReadTransition(s, to)
    BY <1>1 DEF OrganizationStep
  <2>2. [s |-> s, to |-> to] \in Transition
    BY DEF Transition
  <2>3. http' \in Requests
    BY <2>1, <2>2 DEF TypeOK, ReadTransition, Requests
  <2> QED
    BY <2>1, <2>3 DEF TypeOK, ReadTransition
<1>2. ASSUME TransitionStep PROVE TypeOK'
  <2>1. PICK t \in http.transitions : CommitTransition(t)
    BY <1>2 DEF TransitionStep
  <2>2. t \in Transition /\ t.s \in Sponsorships /\ t.to \in SponsorshipStatus
    BY DEF TypeOK, Requests, Transition
  <2>3. sponsorship' \in [Sponsorships -> SponsorshipRow]
    <3> DEFINE reason == IF t.to = "suspended" THEN "organization" ELSE sponsorship[t.s].suspendedFor
               row == [sponsorship[t.s] EXCEPT !.status = t.to, !.suspendedFor = reason]
    <3>1. reason \in SuspensionReason
      BY <2>2 DEF TypeOK, SponsorshipRow, SuspensionReason
    <3>2. sponsorship' = [sponsorship EXCEPT ![t.s] = row]
      BY <2>1, <2>2 DEF TypeOK, CommitTransition
    <3> HIDE DEF reason
    <3>3. row \in SponsorshipRow
      BY <2>2, <3>1 DEF TypeOK, SponsorshipRow
    <3> HIDE DEF row
    <3> QED
      BY <2>2, <3>2, <3>3 DEF TypeOK
  <2>4. http' \in Requests
    BY <2>1 DEF TypeOK, CommitTransition, Requests
  <2> QED
    BY <2>1, <2>3, <2>4 DEF TypeOK, CommitTransition
<1>3. ASSUME GatewayStep PROVE TypeOK'
  BY <1>3 DEF TypeOK, GatewayStep, GatewaySettles, ChargeStatus
<1>4. ASSUME Crash PROVE TypeOK'
  <2>1. Calm \in Requests
    BY DEF Calm, Requests
  <2> QED
    BY <1>4, <2>1, NoJobType DEF TypeOK, Crash
<1>5. ASSUME NextDay PROVE TypeOK'
  BY <1>5 DEF TypeOK, NextDay
<1>6. ASSUME UNCHANGED vars PROVE TypeOK'
  BY <1>6 DEF TypeOK, vars
<1> QED
  BY <1>1, <1>2, <1>3, <1>4, <1>5, <1>6, SponsorType, ScanType, PollType DEF Next

(* Every reachable state is well typed. *)
THEOREM TypeCorrect == Spec => []TypeOK
<1>1. TypeOK /\ [Next]_vars => TypeOK'
  BY StepType
<1> QED
  BY InitType, <1>1, PTL DEF Spec

(***************************************************************************)
(* A suspended sponsor can pay.  The steps that touch neither the status   *)
(* of a sponsorship nor a period are set aside first; of the others, only  *)
(* an approved payment takes a period off the failed ones, and it does so  *)
(* either for a sponsorship not suspended for billing, or together with    *)
(* its reactivation.                                                       *)
(***************************************************************************)
LEMMA LedgerSteps ==
  ASSUME [Next]_vars
  PROVE  \/ UNCHANGED <<sponsorship, payment, attempt>>
         \/ \E s \in Sponsorships : Subscribe(s)
         \/ \E f \in http.first : RecordFirstPayment(f)
         \/ \E k \in http.retried : RecordRetry(k)
         \/ \E t \in http.transitions : CommitTransition(t)
         \/ \E w \in Workers :
              \/ \E s \in job[w].due : OpenPeriodFor(w, s)
              \/ \E r \in job[w].row : \/ SendReminder(w, r)
                                       \/ ExpireAndCreateNextAttempt(w, r)
                                       \/ CommitFailPeriod(w, r)
              \/ \E k \in job[w].polls : PollApproved(w, k)
              \/ \E k \in job[w].poll : CommitReactivation(w, k)
<1>1. CASE SponsorStep
  BY <1>1 DEF SponsorStep, FirstChargeAnswered, FirstChargeThrows, RetryPayment,
     FirstChargeDeclined, RetryChargeAnswered, RetryChargeThrows
<1>2. CASE OrganizationStep
  BY <1>2 DEF OrganizationStep, ReadTransition
<1>3. CASE TransitionStep
  BY <1>3 DEF TransitionStep
<1>4. ASSUME NEW w \in Workers, ScanStep(w)
      PROVE  \/ UNCHANGED <<sponsorship, payment, attempt>>
             \/ \E s \in job[w].due : OpenPeriodFor(w, s)
             \/ \E r \in job[w].row : \/ SendReminder(w, r)
                                      \/ ExpireAndCreateNextAttempt(w, r)
                                      \/ CommitFailPeriod(w, r)
  BY <1>4 DEF ScanStep, StartScan, StartAdvance, FinishScan, TakeRow, BeginFailPeriod, FinishRow
<1>5. ASSUME NEW w \in Workers, PollStep(w)
      PROVE  \/ UNCHANGED <<sponsorship, payment, attempt>>
             \/ \E k \in job[w].polls : PollApproved(w, k)
             \/ \E k \in job[w].poll : CommitReactivation(w, k)
  BY <1>5 DEF PollStep, StartPoll, FinishPoll, GatewayOutage, ReactivationRefused
<1>6. CASE GatewayStep
  BY <1>6 DEF GatewayStep, GatewaySettles
<1>7. CASE Crash \/ NextDay \/ UNCHANGED vars
  BY <1>7 DEF Crash, NextDay, vars
<1> QED
  BY <1>1, <1>2, <1>3, <1>4, <1>5, <1>6, <1>7 DEF Next

LEMMA RecoverableStep ==
  ASSUME TypeOK, SuspensionIsRecoverable, [Next]_vars
  PROVE  SuspensionIsRecoverable'
<1> SUFFICES ASSUME NEW s \in Sponsorships, SuspendedForBilling(s)'
             PROVE  \E p \in Periods : payment'[<<s, p>>].status = "failed"
  BY DEF SuspensionIsRecoverable, FailedPeriods
<1>a. ASSUME SuspendedForBilling(s)
      PROVE  \E p \in Periods : payment[<<s, p>>].status = "failed"
  BY <1>a DEF SuspensionIsRecoverable, FailedPeriods
<1>b. \A p \in Periods : <<s, p>> \in PeriodKey
  BY DEF PeriodKey
<1> DEFINE FailedStays == \A p \in Periods :
             payment[<<s, p>>].status = "failed" => payment'[<<s, p>>].status = "failed"
<1>c. ASSUME SuspendedForBilling(s), FailedStays
      PROVE  \E p \in Periods : payment'[<<s, p>>].status = "failed"
  BY <1>a, <1>c
<1> HIDE DEF FailedStays
<1>1. CASE UNCHANGED <<sponsorship, payment>>
  BY <1>1, <1>c DEF SuspendedForBilling, FailedStays
<1>2. ASSUME NEW x \in Sponsorships, Subscribe(x)
      PROVE  \E p \in Periods : payment'[<<s, p>>].status = "failed"
  <2>1. SuspendedForBilling(s)
    BY <1>2 DEF TypeOK, Subscribe, SuspendedForBilling
  <2> QED
    BY <1>2, <1>c, <2>1 DEF Subscribe, FailedStays
<1>3. ASSUME NEW f \in http.first, RecordFirstPayment(f)
      PROVE  \E p \in Periods : payment'[<<s, p>>].status = "failed"
  <2>0. \/ sponsorship' = sponsorship
        \/ sponsorship' = [sponsorship EXCEPT ![f.s].nextBilling = AddMonth(f.day)]
    BY <1>3 DEF RecordFirstPayment
  <2>1. SuspendedForBilling(s)
    BY <2>0 DEF TypeOK, SuspendedForBilling, SponsorshipRow
  <2>2. FailedStays
    BY <1>3, <1>b DEF TypeOK, RecordFirstPayment, FailedStays
  <2> QED
    BY <1>c, <2>1, <2>2
<1>4. ASSUME NEW k \in http.retried, RecordRetry(k)
      PROVE  \E p \in Periods : payment'[<<s, p>>].status = "failed"
  <2>1. FailedStays
    BY <1>4, <1>b DEF TypeOK, RecordRetry, FailedStays, PaymentRow
  <2> QED
    BY <1>4, <1>c, <2>1 DEF RecordRetry, SuspendedForBilling
<1>5. ASSUME NEW t \in http.transitions, CommitTransition(t)
      PROVE  \E p \in Periods : payment'[<<s, p>>].status = "failed"
  <2>1. SuspendedForBilling(s)
    BY <1>5 DEF TypeOK, CommitTransition, SuspendedForBilling, SponsorshipRow
  <2> QED
    BY <1>5, <1>c, <2>1 DEF CommitTransition, FailedStays
<1>6. ASSUME NEW w \in Workers, NEW x \in job[w].due, OpenPeriodFor(w, x)
      PROVE  \E p \in Periods : payment'[<<s, p>>].status = "failed"
  <2>0. \/ sponsorship' = sponsorship
        \/ sponsorship' = [sponsorship EXCEPT ![x].nextBilling = AddMonth(today)]
    BY <1>6 DEF OpenPeriodFor
  <2>1. SuspendedForBilling(s)
    BY <2>0 DEF TypeOK, SuspendedForBilling, SponsorshipRow
  <2>2. FailedStays
    BY <1>6, <1>b DEF TypeOK, OpenPeriodFor, FailedStays
  <2> QED
    BY <1>c, <2>1, <2>2
<1>7. ASSUME NEW w \in Workers, NEW r \in job[w].row,
             SendReminder(w, r) \/ ExpireAndCreateNextAttempt(w, r)
      PROVE  \E p \in Periods : payment'[<<s, p>>].status = "failed"
  <2>1. FailedStays
    BY <1>7, <1>b DEF TypeOK, SendReminder, ExpireAndCreateNextAttempt, FailedStays, PaymentRow
  <2> QED
    BY <1>7, <1>c, <2>1 DEF SendReminder, ExpireAndCreateNextAttempt, SuspendedForBilling
<1>8. ASSUME NEW w \in Workers, NEW r \in job[w].row, CommitFailPeriod(w, r)
      PROVE  \E p \in Periods : payment'[<<s, p>>].status = "failed"
  <2>1. r.at \in PeriodKey /\ payment' = [payment EXCEPT ![r.at].status = "failed"]
    BY <1>8 DEF TypeOK, CommitFailPeriod, Job, OpenRow
  <2>2. CASE r.at[1] = s
    BY <2>1, <2>2 DEF TypeOK, PeriodKey, PaymentRow
  <2>3. CASE r.at[1] # s
    <3>0. sponsorship'[s] = sponsorship[s]
      BY <1>8, <2>3 DEF TypeOK, CommitFailPeriod
    <3>1. SuspendedForBilling(s)
      BY <3>0 DEF SuspendedForBilling
    <3>2. FailedStays
      BY <1>b, <2>1 DEF TypeOK, FailedStays, PaymentRow
    <3> QED
      BY <1>c, <3>1, <3>2
  <2> QED
    BY <2>2, <2>3
<1>9. ASSUME NEW k, MarkPaid(k), k[1] # s
      PROVE  FailedStays
  BY <1>9, <1>b DEF TypeOK, MarkPaid, PeriodOf, FailedStays
<1>10. ASSUME NEW w \in Workers, NEW k \in job[w].polls, PollApproved(w, k)
      PROVE  \E p \in Periods : payment'[<<s, p>>].status = "failed"
  <2>1. SuspendedForBilling(s)
    BY <1>10 DEF PollApproved, SuspendedForBilling
  <2>2. UNCHANGED payment \/ (MarkPaid(k) /\ k[1] # s)
    BY <1>10, <2>1 DEF PollApproved
  <2> QED
    BY <1>9, <1>c, <2>1, <2>2 DEF FailedStays
<1>11. ASSUME NEW w \in Workers, NEW k \in job[w].poll, CommitReactivation(w, k)
      PROVE  \E p \in Periods : payment'[<<s, p>>].status = "failed"
  <2>1. sponsorship' = [sponsorship EXCEPT ![k[1]].status = "active"]
    BY <1>11 DEF CommitReactivation
  <2>2. k[1] # s
    BY <2>1 DEF TypeOK, SuspendedForBilling, SponsorshipRow
  <2>3. sponsorship'[s] = sponsorship[s]
    BY <2>1, <2>2 DEF TypeOK
  <2>4. SuspendedForBilling(s)
    BY <2>3 DEF SuspendedForBilling
  <2> QED
    BY <1>9, <1>11, <1>c, <2>2, <2>4 DEF CommitReactivation
<1> QED
  BY LedgerSteps, <1>1, <1>2, <1>3, <1>4, <1>5, <1>6, <1>7, <1>8, <1>10, <1>11

(* A sponsor suspended for non-payment always has a failed period that     *)
(* "pagar de nuevo" can charge, for any number of sponsorships, periods,   *)
(* workers and restarts.                                                   *)
THEOREM RecoverableAlways == Spec => []SuspensionIsRecoverable
<1>1. Init => SuspensionIsRecoverable
  BY DEF Init, SuspensionIsRecoverable, SuspendedForBilling
<1>2. TypeOK /\ SuspensionIsRecoverable /\ [Next]_vars => SuspensionIsRecoverable'
  BY RecoverableStep
<1> QED
  BY TypeCorrect, <1>1, <1>2, PTL DEF Spec

(***************************************************************************)
(* The ledger.  What its invariants say is said of one period at a time,   *)
(* and a step changes one period.                                          *)
(***************************************************************************)
LEMMA KeyParts ==
  /\ \A k \in Key : k = AttemptKey(PeriodOf(k), k[3])
  /\ \A c \in PeriodKey, n \in Attempts :
       PeriodOf(AttemptKey(c, n)) = c /\ AttemptKey(c, n)[3] = n
  /\ \A c, d \in PeriodKey, n, m \in Attempts : AttemptKey(c, n) = AttemptKey(d, m) => c = d /\ n = m
BY DEF Key, PeriodKey, PeriodOf, AttemptKey

PeriodSound(c) ==
  /\ payment[c].status = "none" <=> payment[c].count = 0
  /\ payment[c].status = "paid" => \E n \in Attempts : attempt[AttemptKey(c, n)].result = "paid"
  /\ \A n \in Attempts :
       /\ attempt[AttemptKey(c, n)].result # "none" <=> n <= payment[c].count
       /\ payment[c].status = "pending" /\ attempt[AttemptKey(c, n)].result = "pending"
            => n = payment[c].count
       /\ attempt[AttemptKey(c, n)].result = "paid"
            => payment[c].status = "paid" /\ Approved(AttemptKey(c, n))

Tables == \A c \in PeriodKey : PeriodSound(c)

LEMMA TablesMean == Tables => AttemptsContiguous /\ OneOpenAttempt /\ PaidMeansApproved
<1> SUFFICES ASSUME Tables PROVE AttemptsContiguous /\ OneOpenAttempt /\ PaidMeansApproved
  OBVIOUS
<1>1. \A k \in Key : /\ PeriodOf(k) \in PeriodKey /\ k[3] \in Attempts
                     /\ PeriodSound(PeriodOf(k)) /\ k = AttemptKey(PeriodOf(k), k[3])
  BY KeyTypes, KeyParts DEF Tables
<1>2. AttemptsContiguous
  BY <1>1 DEF AttemptsContiguous, PeriodSound
<1>3. OneOpenAttempt
  BY <1>1 DEF OneOpenAttempt, PeriodSound
<1>4. PaidMeansApproved
  BY <1>1 DEF PaidMeansApproved, PeriodSound, Tables
<1> QED
  BY <1>2, <1>3, <1>4

(* What the gateway approved of a recorded order it does not take back.    *)
ApprovalStays ==
  \A k \in Key : attempt[k].real /\ charge[k] = "approved" => charge'[k] = "approved"

(* The period c of a typed ledger and its attempts.                        *)
LEMMA Rows ==
  ASSUME TypeOK, NEW c \in PeriodKey
  PROVE  /\ payment[c] \in PaymentRow /\ payment[c].count \in Nat /\ payment[c].count <= MaxAttempts
         /\ \A n \in Attempts : /\ AttemptKey(c, n) \in Key /\ attempt[AttemptKey(c, n)] \in AttemptRow
                                /\ n \in Nat /\ 1 <= n
         /\ MaxAttempts \in Nat /\ 1 \in Attempts
BY ConstantTypes, KeyTypes DEF TypeOK, PaymentRow, Attempts

(* A period no step touches.                                               *)
LEMMA PeriodRests ==
  ASSUME ApprovalStays, NEW c \in PeriodKey, PeriodSound(c), payment'[c] = payment[c],
         \A n \in Attempts : attempt'[AttemptKey(c, n)] = attempt[AttemptKey(c, n)]
  PROVE  PeriodSound(c)'
<1>1. \A n \in Attempts : AttemptKey(c, n) \in Key
  BY KeyTypes
<1> QED
  BY <1>1 DEF PeriodSound, Approved, ApprovalStays

(* A step touches the period c only.                                       *)
LEMMA TablesAt ==
  ASSUME TypeOK, Tables, ApprovalStays, NEW c \in PeriodKey, NEW row, payment' = [payment EXCEPT ![c] = row],
         \A k \in Key : PeriodOf(k) # c => attempt'[k] = attempt[k],
         PeriodSound(c)'
  PROVE  Tables'
<1> SUFFICES ASSUME NEW d \in PeriodKey, d # c PROVE PeriodSound(d)'
  BY DEF Tables
<1>1. \A n \in Attempts : AttemptKey(d, n) \in Key /\ PeriodOf(AttemptKey(d, n)) = d
  BY KeyTypes, KeyParts
<1>2. payment'[d] = payment[d]
  OBVIOUS
<1> QED
  BY <1>1, <1>2, PeriodRests DEF Tables

LEMMA TablesRest ==
  ASSUME Tables, UNCHANGED <<payment, attempt>>, ApprovalStays
  PROVE  Tables'
BY PeriodRests DEF Tables

(* A period opens with its first attempt.                                  *)
LEMMA TablesOpen ==
  ASSUME TypeOK, Tables, NEW c \in PeriodKey, payment[c].status = "none", charge' = charge,
         NEW status \in {"pending", "paid"}, NEW start \in Nat, NEW real \in BOOLEAN,
         payment' = [payment EXCEPT ![c] =
                       [status |-> status, startedAt |-> start, count |-> 1, reminders |-> 0]],
         attempt' = [attempt EXCEPT ![AttemptKey(c, 1)] = [result |-> status, real |-> real]],
         status = "paid" => real /\ charge[AttemptKey(c, 1)] = "approved"
  PROVE  Tables'
<1> USE Rows, KeyParts
<1>1. PeriodSound(c)
  BY DEF Tables
<1>2. /\ payment'[c].status = status /\ payment'[c].count = 1
      /\ attempt'[AttemptKey(c, 1)] = [result |-> status, real |-> real]
      /\ \A n \in Attempts : n # 1 => attempt'[AttemptKey(c, n)] = attempt[AttemptKey(c, n)]
      /\ \A k \in Key : PeriodOf(k) # c => attempt'[k] = attempt[k]
  BY DEF TypeOK
<1>3. \A n \in Attempts : n # 1 => n > 1 /\ attempt'[AttemptKey(c, n)].result = "none"
  BY <1>1, <1>2 DEF PeriodSound
<1>4. PeriodSound(c)'
  BY <1>2, <1>3 DEF PeriodSound, Approved
<1> QED
  BY <1>2, <1>4, TablesAt DEF ApprovalStays

(* A retry's attempt, after the last one of a period off its ladder.       *)
LEMMA TablesRetry ==
  ASSUME TypeOK, Tables, NEW k \in Key, charge' = charge,
         payment[PeriodOf(k)].status \in {"failed", "paid"},
         k[3] <= payment[PeriodOf(k)].count + 1, attempt[k].result = "none",
         payment' = [payment EXCEPT ![PeriodOf(k)].count = k[3]],
         attempt' = [attempt EXCEPT ![k] = [result |-> "pending", real |-> TRUE]]
  PROVE  Tables' /\ k[3] = payment[PeriodOf(k)].count + 1
<1> DEFINE c == PeriodOf(k)
<1>0. c \in PeriodKey /\ k[3] \in Attempts /\ k = AttemptKey(c, k[3])
  BY KeyTypes, KeyParts
<1> USE Rows, KeyParts, <1>0
<1>1. PeriodSound(c)
  BY DEF Tables
<1>2. k[3] = payment[c].count + 1
  BY <1>1 DEF PeriodSound
<1>3. /\ payment'[c].status = payment[c].status /\ payment'[c].count = k[3]
      /\ attempt'[k].result = "pending"
      /\ \A n \in Attempts : n # k[3] => attempt'[AttemptKey(c, n)] = attempt[AttemptKey(c, n)]
      /\ \A l \in Key : PeriodOf(l) # c => attempt'[l] = attempt[l]
      /\ payment' = [payment EXCEPT ![c] = [payment[c] EXCEPT !.count = k[3]]]
  BY DEF TypeOK, PaymentRow
<1> HIDE DEF c
<1>4. PeriodSound(c)'
  <2>1. payment'[c].status = "none" <=> payment'[c].count = 0
    BY <1>1, <1>2, <1>3 DEF c
  <2>2. payment'[c].status = "paid" => \E n \in Attempts : attempt'[AttemptKey(c, n)].result = "paid"
    BY <1>1, <1>2, <1>3 DEF PeriodSound, c
  <2>3. ASSUME NEW n \in Attempts
        PROVE  /\ attempt'[AttemptKey(c, n)].result # "none" <=> n <= payment'[c].count
               /\ ~(payment'[c].status = "pending" /\ attempt'[AttemptKey(c, n)].result = "pending")
               /\ attempt'[AttemptKey(c, n)].result = "paid"
                    => payment'[c].status = "paid" /\ Approved(AttemptKey(c, n))'
    <3>1. CASE n = k[3]
      BY <1>1, <1>2, <1>3, <3>1 DEF c
    <3>2. CASE n # k[3]
      BY <1>1, <1>2, <1>3, <3>2 DEF PeriodSound, Approved, c
    <3> QED
      BY <3>1, <3>2
  <2> QED
    BY <2>1, <2>2, <2>3 DEF PeriodSound
<1> QED
  BY <1>2, <1>3, <1>4, TablesAt DEF ApprovalStays, c

(* The walk expires the last attempt and makes the next.                   *)
LEMMA TablesNext ==
  ASSUME TypeOK, Tables, NEW c \in PeriodKey, charge' = charge, NEW n \in Attempts, n + 1 \in Attempts,
         n <= payment[c].count, attempt[AttemptKey(c, n + 1)].result = "none",
         payment' = [payment EXCEPT ![c].count = n + 1],
         attempt' = [attempt EXCEPT
           ![AttemptKey(c, n)].result = IF @ = "pending" THEN "expired" ELSE @,
           ![AttemptKey(c, n + 1)] = [result |-> "pending", real |-> FALSE]]
  PROVE  Tables' /\ payment[c].count = n
<1> USE Rows, KeyParts
<1>1. PeriodSound(c)
  BY DEF Tables
<1>2. payment[c].count = n
  BY <1>1 DEF PeriodSound
<1> DEFINE old == attempt[AttemptKey(c, n)]
<1>3. /\ payment'[c].status = payment[c].status /\ payment'[c].count = n + 1
      /\ payment' = [payment EXCEPT ![c] = [payment[c] EXCEPT !.count = n + 1]]
  BY DEF TypeOK, PaymentRow
<1>4. AttemptKey(c, n) \in Key /\ AttemptKey(c, n + 1) \in Key /\ AttemptKey(c, n) # AttemptKey(c, n + 1)
      /\ n # n + 1
  BY KeyTypes
<1>5. /\ attempt'[AttemptKey(c, n + 1)].result = "pending"
      /\ attempt'[AttemptKey(c, n)].result = (IF old.result = "pending" THEN "expired" ELSE old.result)
      /\ attempt'[AttemptKey(c, n)].real = old.real
      /\ \A k \in Key \ {AttemptKey(c, n), AttemptKey(c, n + 1)} : attempt'[k] = attempt[k]
  BY <1>4 DEF TypeOK, AttemptRow
<1>6. /\ \A k \in Key : PeriodOf(k) # c => attempt'[k] = attempt[k]
      /\ \A m \in Attempts \ {n, n + 1} : attempt'[AttemptKey(c, m)] = attempt[AttemptKey(c, m)]
  <2>1. ASSUME NEW k \in Key, PeriodOf(k) # c PROVE attempt'[k] = attempt[k]
    <3>1. k # AttemptKey(c, n) /\ k # AttemptKey(c, n + 1)
      BY <2>1
    <3> QED
      BY <3>1, <1>5
  <2>2. ASSUME NEW m \in Attempts \ {n, n + 1}
        PROVE  attempt'[AttemptKey(c, m)] = attempt[AttemptKey(c, m)]
    <3>1. AttemptKey(c, m) \in Key /\ AttemptKey(c, m) # AttemptKey(c, n)
          /\ AttemptKey(c, m) # AttemptKey(c, n + 1)
      BY <2>2
    <3> QED
      BY <3>1, <1>5
  <2> QED
    BY <2>1, <2>2
<1> HIDE DEF old
<1>7. \A m \in Attempts : attempt'[AttemptKey(c, m)].result = "paid" =>
          m # n + 1 /\ attempt[AttemptKey(c, m)].result = "paid"
                    /\ attempt'[AttemptKey(c, m)].real = attempt[AttemptKey(c, m)].real
  <2> SUFFICES ASSUME NEW m \in Attempts, attempt'[AttemptKey(c, m)].result = "paid"
               PROVE  m # n + 1 /\ attempt[AttemptKey(c, m)].result = "paid"
                                /\ attempt'[AttemptKey(c, m)].real = attempt[AttemptKey(c, m)].real
    OBVIOUS
  <2>1. m # n + 1
    BY <1>5
  <2>2. CASE m = n
    <3>1. attempt'[AttemptKey(c, n)].result = "paid"
      BY <2>2
    <3>2. old.result = "paid" /\ attempt'[AttemptKey(c, n)].real = old.real
      BY ONLY <3>1, <1>5
    <3> QED
      BY <2>1, <2>2, <3>2 DEF old
  <2>3. CASE m # n
    BY <1>6, <2>1, <2>3
  <2> QED
    BY <2>1, <2>2, <2>3
<1>8. PeriodSound(c)'
  <2>1. payment'[c].status = "none" <=> payment'[c].count = 0
    BY <1>1, <1>2, <1>3 DEF PeriodSound
  <2>2. payment'[c].status = "paid" => \E m \in Attempts : attempt'[AttemptKey(c, m)].result = "paid"
    <3> SUFFICES ASSUME payment[c].status = "paid"
                 PROVE  \E m \in Attempts : attempt'[AttemptKey(c, m)].result = "paid"
      BY <1>3
    <3>1. PICK m \in Attempts : attempt[AttemptKey(c, m)].result = "paid"
      BY <1>1 DEF PeriodSound
    <3>2. m # n + 1
      BY <3>1
    <3> QED
      BY <3>1, <3>2, <1>5, <1>6 DEF old
  <2>3. ASSUME NEW m \in Attempts
        PROVE  /\ attempt'[AttemptKey(c, m)].result # "none" <=> m <= n + 1
               /\ payment'[c].status = "pending" /\ attempt'[AttemptKey(c, m)].result = "pending"
                    => m = n + 1
    <3>1. CASE m = n + 1
      BY <1>5, <3>1
    <3>2. CASE m = n
      <4>1. old.result # "none"
        BY <1>1, <1>2 DEF PeriodSound, old
      <4>2. attempt'[AttemptKey(c, m)].result # "none" /\ attempt'[AttemptKey(c, m)].result # "pending"
        BY <1>5, <3>2, <4>1
      <4> QED
        BY <3>2, <4>2
    <3>3. CASE m # n /\ m # n + 1
      <4>1. attempt'[AttemptKey(c, m)] = attempt[AttemptKey(c, m)]
        BY <1>6, <3>3
      <4>2. /\ attempt[AttemptKey(c, m)].result # "none" <=> m <= n
            /\ payment[c].status = "pending" /\ attempt[AttemptKey(c, m)].result = "pending" => m = n
        BY <1>1, <1>2 DEF PeriodSound
      <4>3. m \in Nat /\ n \in Nat
        OBVIOUS
      <4> QED
        BY ONLY <4>1, <4>2, <4>3, <3>3, <1>3
    <3> QED
      BY <3>1, <3>2, <3>3
  <2>4. ASSUME NEW m \in Attempts, attempt'[AttemptKey(c, m)].result = "paid"
        PROVE  payment'[c].status = "paid" /\ Approved(AttemptKey(c, m))'
    BY <1>1, <1>3, <1>7, <2>4 DEF PeriodSound, Approved
  <2> QED
    BY <1>3, <2>1, <2>2, <2>3, <2>4 DEF PeriodSound
<1> QED
  BY <1>2, <1>3, <1>6, <1>8, TablesAt DEF ApprovalStays

(* The ladder ends without a payment.                                      *)
LEMMA TablesFail ==
  ASSUME TypeOK, Tables, NEW c \in PeriodKey, charge' = charge, NEW n \in Attempts,
         payment[c].status \in {"pending", "failed"},
         payment' = [payment EXCEPT ![c].status = "failed"],
         attempt' = [attempt EXCEPT
           ![AttemptKey(c, n)].result = IF @ = "pending" THEN "expired" ELSE @]
  PROVE  Tables'
<1> USE Rows, KeyParts
<1>1. PeriodSound(c)
  BY DEF Tables
<1>2. /\ payment'[c].status = "failed" /\ payment'[c].count = payment[c].count
      /\ payment' = [payment EXCEPT ![c] = [payment[c] EXCEPT !.status = "failed"]]
  BY DEF TypeOK, PaymentRow
<1>3. AttemptKey(c, n) \in Key
  BY KeyTypes
<1>4. /\ attempt'[AttemptKey(c, n)].result \in
           (IF attempt[AttemptKey(c, n)].result = "pending" THEN {"expired"}
            ELSE {attempt[AttemptKey(c, n)].result})
      /\ \A k \in Key \ {AttemptKey(c, n)} : attempt'[k] = attempt[k]
  BY <1>3 DEF TypeOK, AttemptRow
<1>5. /\ \A k \in Key : PeriodOf(k) # c => attempt'[k] = attempt[k]
      /\ \A m \in Attempts :
           /\ attempt'[AttemptKey(c, m)].result = "none" <=> attempt[AttemptKey(c, m)].result = "none"
           /\ attempt'[AttemptKey(c, m)].result = "paid" <=> attempt[AttemptKey(c, m)].result = "paid"
  BY <1>3, <1>4
<1>6. PeriodSound(c)'
  BY <1>1, <1>2, <1>5 DEF PeriodSound
<1> QED
  BY <1>2, <1>5, <1>6, TablesAt DEF ApprovalStays

(* An approved attempt pays its period.                                    *)
LEMMA TablesPay ==
  ASSUME TypeOK, Tables, NEW k \in Key, charge' = charge, attempt[k].result # "none",
         Approved(k), MarkPaid(k)
  PROVE  Tables'
<1> DEFINE c == PeriodOf(k)
<1>0. c \in PeriodKey /\ k[3] \in Attempts /\ k = AttemptKey(c, k[3])
  BY KeyTypes, KeyParts
<1> USE Rows, KeyParts, <1>0
<1>1. PeriodSound(c)
  BY DEF Tables
<1>2. /\ payment'[c].status = "paid" /\ payment'[c].count = payment[c].count
      /\ payment' = [payment EXCEPT ![c] = [payment[c] EXCEPT !.status = "paid"]]
  BY DEF TypeOK, PaymentRow, MarkPaid
<1>3. /\ attempt'[k].result = "paid" /\ attempt'[k].real = attempt[k].real
      /\ \A l \in Key \ {k} : attempt'[l] = attempt[l]
  BY DEF TypeOK, AttemptRow, MarkPaid
<1>4. /\ \A l \in Key : PeriodOf(l) # c => attempt'[l] = attempt[l]
      /\ \A n \in Attempts \ {k[3]} : attempt'[AttemptKey(c, n)] = attempt[AttemptKey(c, n)]
  BY <1>3
<1> HIDE DEF c
<1>5. PeriodSound(c)'
  <2>1. payment'[c].count # 0
    BY <1>1, <1>2 DEF PeriodSound
  <2>2. ASSUME NEW n \in Attempts
        PROVE  /\ attempt'[AttemptKey(c, n)].result # "none" <=> n <= payment'[c].count
               /\ attempt'[AttemptKey(c, n)].result = "paid" => Approved(AttemptKey(c, n))'
    <3>1. CASE n = k[3]
      BY <1>1, <1>2, <1>3, <3>1 DEF PeriodSound, Approved
    <3>2. CASE n # k[3]
      BY <1>1, <1>2, <1>4, <3>2 DEF PeriodSound, Approved
    <3> QED
      BY <3>1, <3>2
  <2> QED
    BY <1>2, <1>3, <2>1, <2>2 DEF PeriodSound
<1> QED
  BY <1>2, <1>4, <1>5, TablesAt DEF ApprovalStays

LEMMA TablesRemind ==
  ASSUME TypeOK, Tables, NEW c \in PeriodKey, UNCHANGED <<attempt, charge>>,
         payment' = [payment EXCEPT ![c].reminders = @ + 1]
  PROVE  Tables'
<1>1. payment' = [payment EXCEPT ![c] = [payment[c] EXCEPT !.reminders = @ + 1]]
  OBVIOUS
<1>2. payment'[c].status = payment[c].status /\ payment'[c].count = payment[c].count
  BY Rows, <1>1 DEF TypeOK, PaymentRow
<1>3. PeriodSound(c)'
  BY <1>2 DEF Tables, PeriodSound, Approved
<1> QED
  BY <1>1, <1>3, TablesAt DEF ApprovalStays

(***************************************************************************)
(* What requests and jobs know of the ledger between two of their steps    *)
(***************************************************************************)
(* A copy a scan made may be behind its period, never ahead of it.         *)
Follows(r) == 1 <= r.count /\ r.count <= payment[r.at].count

Copies == \A w \in Workers : \A r \in job[w].rows \cup job[w].row : Follows(r)

(* A retry is of a period whose ladder is over, and skips no number.       *)
Appends(k) ==
  /\ 2 <= k[3] /\ k[3] <= payment[PeriodOf(k)].count + 1
  /\ payment[PeriodOf(k)].status \in {"failed", "paid"}

Retries == \A k \in http.retrying \cup http.retried : Appends(k)

(* The first charge is answered once, before the table has an order of it; *)
(* what it answered is the gateway's word.                                 *)
Unrecorded(s) == sponsorship[s].status = "none" \/ s \in http.subscribing

FirstOrders ==
  /\ \A s \in Sponsorships :
       Unrecorded(s) => /\ \A f \in http.first : f.s # s
                        /\ \A p \in Periods : ~attempt[<<s, p, 1>>].real
  /\ \A s \in http.subscribing : sponsorship[s].status # "none"
  /\ \A f \in http.first :
       f.status = "approved" => charge[<<f.s, BillingPeriod(f.day), 1>>] = "approved"
  /\ \A t \in http.transitions : t.to # "none"

(* A scan works on one row.                                                *)
OneRow == \A w \in Workers : \A r, q \in job[w].row : r = q

(* One transaction at a time holds a period, and finds it as it read it.   *)
Holds(w, c) ==
  \/ job[w].stage = "failing" /\ \E r \in job[w].row : r.at = c
  \/ job[w].stage = "confirming" /\ \E k \in job[w].poll : PeriodOf(k) = c

Informed(w) ==
  /\ job[w].stage = "failing" => \A r \in job[w].row : payment[r.at].status \in {"pending", "failed"}
  /\ job[w].stage = "confirming" => \A k \in job[w].poll : attempt[k].result = "pending" /\ Approved(k)

Exclusive == \A v, w \in Workers, c \in PeriodKey : Holds(v, c) /\ Holds(w, c) => v = w

Held == Exclusive /\ \A w \in Workers : Informed(w)

LedgerInv == Tables /\ Copies /\ Retries /\ FirstOrders /\ OneRow /\ Held

(* A period goes forward only.                                             *)
Grows ==
  \A c \in PeriodKey :
    /\ payment[c].count <= payment'[c].count
    /\ payment[c].status \in {"failed", "paid"} => payment'[c].status \in {"failed", "paid"}

Untouched(c) ==
  /\ payment'[c].status = payment[c].status
  /\ \A k \in Key : PeriodOf(k) = c => attempt'[k] = attempt[k]

LEMMA JobRows ==
  ASSUME TypeOK, NEW w \in Workers
  PROVE  /\ job[w] \in Job
         /\ \A r \in job[w].rows \cup job[w].row :
              /\ r \in OpenRow /\ r.at \in PeriodKey /\ r.at[1] \in Sponsorships /\ r.count \in Nat
         /\ \A k \in job[w].polls \cup job[w].poll : k \in Key /\ PeriodOf(k) \in PeriodKey
BY KeyTypes DEF TypeOK, Job, OpenRow

LEMMA Counts ==
  ASSUME TypeOK
  PROVE  \A c \in PeriodKey : payment[c].count \in Nat
BY DEF TypeOK, PaymentRow

LEMMA CopiesKept ==
  ASSUME TypeOK, TypeOK', Copies, Grows,
         \A w \in Workers : \A r \in job'[w].rows \cup job'[w].row :
           r \in job[w].rows \cup job[w].row \/ Follows(r)'
  PROVE  Copies'
<1> SUFFICES ASSUME NEW w \in Workers, NEW r \in job'[w].rows \cup job'[w].row,
                    r \in job[w].rows \cup job[w].row
             PROVE  Follows(r)'
  BY DEF Copies
<1>1. r.at \in PeriodKey /\ r.count \in Nat /\ Follows(r)
  BY JobRows DEF Copies
<1>2. payment[r.at].count \in Nat /\ payment'[r.at].count \in Nat
      /\ payment[r.at].count <= payment'[r.at].count
  BY <1>1 DEF Grows, TypeOK, PaymentRow
<1> QED
  BY <1>1, <1>2 DEF Follows

LEMMA RetriesKept ==
  ASSUME TypeOK, TypeOK', Retries, Grows,
         \A k \in http'.retrying \cup http'.retried :
           k \in http.retrying \cup http.retried \/ Appends(k)'
  PROVE  Retries'
<1> SUFFICES ASSUME NEW k \in http'.retrying \cup http'.retried,
                    k \in http.retrying \cup http.retried
             PROVE  Appends(k)'
  BY DEF Retries
<1>1. k \in Key /\ PeriodOf(k) \in PeriodKey /\ k[3] \in Nat /\ Appends(k)
  BY KeyTypes DEF Retries, TypeOK, Requests, Attempts
<1>2. /\ payment[PeriodOf(k)].count \in Nat /\ payment'[PeriodOf(k)].count \in Nat
      /\ payment[PeriodOf(k)].count <= payment'[PeriodOf(k)].count
      /\ payment[PeriodOf(k)].status \in {"failed", "paid"}
           => payment'[PeriodOf(k)].status \in {"failed", "paid"}
  BY <1>1 DEF Grows, TypeOK, PaymentRow
<1> QED
  BY <1>1, <1>2 DEF Appends

(* Nothing new is asked of the gateway for a first time.                   *)
LEMMA FirstOrdersKept ==
  ASSUME TypeOK, FirstOrders,
         http'.first \subseteq http.first, http'.subscribing \subseteq http.subscribing,
         \A t \in http'.transitions : t \in http.transitions \/ t.to # "none",
         \A s \in Sponsorships : sponsorship[s].status # "none" => sponsorship'[s].status # "none",
         \A s \in Sponsorships, p \in Periods :
           attempt'[<<s, p, 1>>].real => attempt[<<s, p, 1>>].real \/ ~Unrecorded(s),
         \A k \in Key : charge[k] = "approved" => charge'[k] = "approved"
  PROVE  FirstOrders'
<1>1. \A s \in Sponsorships : Unrecorded(s)' => Unrecorded(s)
  BY DEF Unrecorded
<1>2. \A s \in http.subscribing : s \in Sponsorships
  BY DEF TypeOK, Requests
<1>3. \A f \in http.first : <<f.s, BillingPeriod(f.day), 1>> \in Key
  BY CalendarTypes, ConstantTypes DEF TypeOK, Requests, FirstCharge, Key
<1>4. \A s \in Sponsorships :
        Unrecorded(s)' => /\ \A f \in http'.first : f.s # s
                          /\ \A p \in Periods : ~attempt'[<<s, p, 1>>].real
  BY <1>1 DEF FirstOrders
<1>5. \A s \in http'.subscribing : sponsorship'[s].status # "none"
  BY <1>2 DEF FirstOrders
<1>6. \A f \in http'.first :
        f.status = "approved" => charge'[<<f.s, BillingPeriod(f.day), 1>>] = "approved"
  BY <1>3 DEF FirstOrders
<1>7. \A t \in http'.transitions : t.to # "none"
  BY DEF FirstOrders
<1> QED
  BY <1>4, <1>5, <1>6, <1>7 DEF FirstOrders

LEMMA InformedKept ==
  ASSUME TypeOK, ApprovalStays, NEW v \in Workers, Informed(v), job'[v] = job[v],
         \A c \in PeriodKey : Holds(v, c) => Untouched(c)
  PROVE  Informed(v)'
<1>1. ASSUME job[v].stage = "failing", NEW r \in job[v].row
      PROVE  payment'[r.at].status \in {"pending", "failed"}
  BY <1>1, JobRows DEF Holds, Untouched, Informed
<1>2. ASSUME job[v].stage = "confirming", NEW k \in job[v].poll
      PROVE  attempt'[k].result = "pending" /\ Approved(k)'
  <2>1. k \in Key /\ PeriodOf(k) \in PeriodKey /\ Holds(v, PeriodOf(k))
    BY <1>2, JobRows DEF Holds
  <2>2. attempt'[k] = attempt[k]
    BY <2>1 DEF Untouched
  <2> QED
    BY <1>2, <2>1, <2>2 DEF Informed, Approved, ApprovalStays
<1> QED
  BY <1>1, <1>2 DEF Informed

(* A request's step touches no period that a transaction holds.            *)
LEMMA HeldByOthers ==
  ASSUME TypeOK, ApprovalStays, Held, job' = job,
         \A c \in PeriodKey : Locked(c) => Untouched(c)
  PROVE  Held'
<1>1. \A v \in Workers, c \in PeriodKey : Holds(v, c) => Untouched(c)
  BY DEF Locked, Holds
<1>2. \A v \in Workers : Informed(v)'
  BY <1>1, InformedKept DEF Held
<1>3. Exclusive'
  BY DEF Held, Exclusive, Holds
<1> QED
  BY <1>2, <1>3 DEF Held

(* A job touches a period that it holds, or that nobody does.              *)
LEMMA HeldByJob ==
  ASSUME TypeOK, ApprovalStays, Held, NEW w \in Workers,
         \A v \in Workers \ {w} : job'[v] = job[v],
         \A c \in PeriodKey : Locked(c) /\ ~Holds(w, c) => Untouched(c),
         \A c \in PeriodKey : Holds(w, c)' => Holds(w, c) \/ ~Locked(c),
         Informed(w)'
  PROVE  Held'
<1>1. ASSUME NEW v \in Workers \ {w}, NEW c \in PeriodKey, Holds(v, c)
      PROVE  Locked(c) /\ ~Holds(w, c)
  BY <1>1 DEF Locked, Holds, Held, Exclusive
<1>2. \A v \in Workers : Informed(v)'
  BY <1>1, InformedKept DEF Held
<1>3. \A v \in Workers \ {w}, c \in PeriodKey : Holds(v, c)' <=> Holds(v, c)
  BY DEF Holds
<1>4. \A v, u \in Workers, c \in PeriodKey : Holds(v, c)' /\ Holds(u, c)' => v = u
  BY <1>1, <1>3 DEF Held, Exclusive
<1> QED
  BY <1>2, <1>4 DEF Held, Exclusive

(* Nobody holds a period that does not exist.                              *)
LEMMA NoneHeld ==
  ASSUME TypeOK, Tables, Held, NEW c \in PeriodKey, payment[c].status = "none"
  PROVE  ~Locked(c)
<1>1. ASSUME NEW w \in Workers, Holds(w, c) PROVE FALSE
  <2>1. CASE job[w].stage = "failing"
    BY <1>1, <2>1 DEF Holds, Held, Informed
  <2>2. CASE job[w].stage = "confirming"
    <3>1. PICK k \in job[w].poll : PeriodOf(k) = c
      BY <1>1, <2>2 DEF Holds
    <3>2. attempt[k].result = "pending" /\ k \in Key
      BY <2>2, JobRows DEF Held, Informed
    <3>3. k[3] <= payment[c].count /\ payment[c].count = 0 /\ k[3] \in Attempts
      BY <3>1, <3>2, TablesMean, KeyTypes DEF AttemptsContiguous, Tables, PeriodSound
    <3> QED
      BY <3>3 DEF Attempts
  <2> QED
    BY <1>1, <2>1, <2>2 DEF Holds
<1> QED
  BY <1>1 DEF Locked, Holds

(***************************************************************************)
(* The steps                                                               *)
(***************************************************************************)
LEMMA RequestOnly ==
  ASSUME TypeOK, TypeOK', LedgerInv, UNCHANGED <<payment, attempt, job>>, ApprovalStays, FirstOrders',
         \A k \in http'.retrying \cup http'.retried :
           k \in http.retrying \cup http.retried \/ Appends(k)
  PROVE  LedgerInv'
<1> USE DEF LedgerInv
<1>1. Grows /\ \A c : Untouched(c)
  BY Counts DEF Grows, Untouched
<1>2. \A k : Appends(k)' <=> Appends(k)
  BY DEF Appends
<1>3. Tables' /\ Copies' /\ Retries' /\ Held'
  BY <1>1, <1>2, TablesRest, CopiesKept, RetriesKept, HeldByOthers
<1>4. OneRow'
  BY DEF OneRow
<1> QED
  BY <1>3, <1>4

(* A job takes note of what it read; it takes a period only if it is free. *)
LEMMA JobOnly ==
  ASSUME TypeOK, TypeOK', LedgerInv, NEW w \in Workers, NEW j, job' = [job EXCEPT ![w] = j],
         UNCHANGED <<sponsorship, payment, attempt, charge, http>>,
         \A r \in j.rows \cup j.row : r \in job[w].rows \cup job[w].row \/ Follows(r),
         \A r, q \in j.row : r = q,
         j.stage = "failing" => \A r \in j.row :
           payment[r.at].status \in {"pending", "failed"} /\ ~Locked(r.at),
         j.stage = "confirming" => \A k \in j.poll :
           attempt[k].result = "pending" /\ Approved(k) /\ ~Locked(PeriodOf(k))
  PROVE  LedgerInv'
<1> USE DEF LedgerInv
<1>1. /\ Grows /\ ApprovalStays
      /\ \A c : Untouched(c)
      /\ \A r : Follows(r)' <=> Follows(r)
  BY Counts DEF Grows, Untouched, ApprovalStays, Follows
<1>2. job'[w] = j /\ \A v \in Workers \ {w} : job'[v] = job[v]
  BY DEF TypeOK
<1>3. Tables' /\ Retries'
  BY <1>1, TablesRest, RetriesKept
<1>4. Copies'
  <2>1. \A v \in Workers : \A r \in job'[v].rows \cup job'[v].row :
          r \in job[v].rows \cup job[v].row \/ Follows(r)'
    BY <1>1, <1>2
  <2> QED
    BY <1>1, <2>1, CopiesKept
<1>5. OneRow'
  BY <1>2 DEF OneRow
<1>6. FirstOrders'
  BY DEF FirstOrders, Unrecorded
<1>7. Informed(w)' /\ \A c \in PeriodKey : Holds(w, c)' => ~Locked(c)
  BY <1>2 DEF Informed, Holds, Approved
<1>8. Held'
  BY <1>1, <1>2, <1>7, HeldByJob
<1> QED
  BY <1>3, <1>4, <1>5, <1>6, <1>8

LEMMA Stays ==
  ASSUME charge' = charge
  PROVE  ApprovalStays /\ \A k \in Key : charge[k] = "approved" => charge'[k] = "approved"
BY DEF ApprovalStays

LEMMA RequestSteps ==
  ASSUME TypeOK, TypeOK', LedgerInv,
         \/ \E s \in Sponsorships :
              Subscribe(s) \/ FirstChargeAnswered(s) \/ FirstChargeThrows(s) \/ RetryPayment(s)
         \/ \E f \in http.first : FirstChargeDeclined(f)
         \/ \E k \in http.retrying : RetryChargeAnswered(k) \/ RetryChargeThrows(k)
         \/ OrganizationStep \/ TransitionStep \/ GatewayStep
  PROVE  LedgerInv'
<1> USE DEF LedgerInv
<1>1. ASSUME NEW s \in Sponsorships, Subscribe(s) PROVE LedgerInv'
  <2>1. /\ http'.first = http.first /\ http'.transitions = http.transitions
        /\ http'.subscribing = http.subscribing \cup {s}
        /\ http'.retrying = http.retrying /\ http'.retried = http.retried
    BY <1>1 DEF Subscribe, TypeOK, Requests
  <2>2. /\ sponsorship'[s].status = "active" /\ sponsorship[s].status = "none"
        /\ \A x \in Sponsorships : x # s => sponsorship'[x] = sponsorship[x]
    BY <1>1 DEF Subscribe, TypeOK
  <2>3. \A x \in Sponsorships : Unrecorded(x)' => Unrecorded(x)
    BY <2>1, <2>2 DEF Unrecorded
  <2>4. \A x \in http'.subscribing : sponsorship'[x].status # "none"
    BY <2>1, <2>2 DEF FirstOrders, TypeOK, Requests
  <2>5. FirstOrders'
    BY <1>1, <2>1, <2>3, <2>4 DEF FirstOrders, Subscribe
  <2> QED
    BY <1>1, <2>1, <2>5, Stays, RequestOnly DEF Subscribe
<1>2. ASSUME NEW s \in Sponsorships, FirstChargeAnswered(s) \/ FirstChargeThrows(s)
      PROVE  LedgerInv'
  <2> DEFINE a == <<s, BillingPeriod(today), 1>>
  <2>0. a \in Key /\ today \in Days /\ BillingPeriod(today) \in Periods
    BY CalendarTypes, ConstantTypes DEF TypeOK, Key
  <2>1. /\ s \in http.subscribing /\ UNCHANGED <<sponsorship, payment, attempt, job>>
        /\ \A k \in Key : k # a => charge'[k] = charge[k]
    BY <1>2 DEF FirstChargeAnswered, FirstChargeThrows, TypeOK
  <2>2. /\ http'.subscribing = http.subscribing \ {s} /\ http'.transitions = http.transitions
        /\ http'.retrying = http.retrying /\ http'.retried = http.retried
        /\ \A f \in http'.first : f \in http.first
             \/ (f.s = s /\ f.day = today /\ f.status = charge'[a])
    <3>1. CASE FirstChargeAnswered(s)
      <4>1. PICK status \in ChargeStatus :
              /\ charge' = [charge EXCEPT ![a] = status]
              /\ http' = [http EXCEPT !.subscribing = @ \ {s},
                            !.first = @ \cup {[s |-> s, day |-> today, status |-> status]}]
        BY <3>1 DEF FirstChargeAnswered
      <4>2. charge'[a] = status
        BY <2>0, <4>1 DEF TypeOK
      <4> HIDE DEF a
      <4> QED
        BY <4>1, <4>2 DEF TypeOK, Requests
    <3>2. CASE FirstChargeThrows(s)
      BY <3>2 DEF FirstChargeThrows, TypeOK, Requests
    <3> QED
      BY <1>2, <3>1, <3>2
  <2>3. Unrecorded(s)
    BY <2>1 DEF Unrecorded
  <2>4. sponsorship[s].status # "none" /\ ~Unrecorded(s)'
    BY <2>1, <2>2 DEF Unrecorded, FirstOrders
  <2>5. ApprovalStays
    BY <2>0, <2>1, <2>3 DEF ApprovalStays, FirstOrders
  <2>6. \A f \in http'.first :
          f.status = "approved" => charge'[<<f.s, BillingPeriod(f.day), 1>>] = "approved"
    <3> SUFFICES ASSUME NEW f \in http'.first, f.status = "approved"
                 PROVE  charge'[<<f.s, BillingPeriod(f.day), 1>>] = "approved"
      OBVIOUS
    <3>1. CASE f \in http.first
      <4>1. f.s # s /\ f.s \in Sponsorships /\ f.day \in Days
        BY <2>3, <3>1 DEF FirstOrders, TypeOK, Requests, FirstCharge
      <4>2. <<f.s, BillingPeriod(f.day), 1>> \in Key /\ <<f.s, BillingPeriod(f.day), 1>> # a
        BY <4>1, CalendarTypes, ConstantTypes DEF Key
      <4> QED
        BY <2>1, <3>1, <4>2 DEF FirstOrders
    <3>2. CASE f.s = s /\ f.day = today /\ f.status = charge'[a]
      BY <3>2
    <3> QED
      BY <2>2, <3>1, <3>2
  <2>7. \A x \in Sponsorships :
          Unrecorded(x)' => /\ \A f \in http'.first : f.s # x
                            /\ \A p \in Periods : ~attempt'[<<x, p, 1>>].real
    <3> SUFFICES ASSUME NEW x \in Sponsorships, Unrecorded(x)'
                 PROVE  /\ \A f \in http'.first : f.s # x
                        /\ \A p \in Periods : ~attempt[<<x, p, 1>>].real
      BY <2>1
    <3>1. x # s /\ Unrecorded(x)
      BY <2>1, <2>2, <2>4 DEF Unrecorded
    <3> QED
      BY <2>2, <3>1 DEF FirstOrders
  <2>8. FirstOrders'
    BY <2>1, <2>2, <2>6, <2>7 DEF FirstOrders
  <2> QED
    BY <2>1, <2>2, <2>5, <2>8, RequestOnly
<1>3. ASSUME NEW s \in Sponsorships, RetryPayment(s) PROVE LedgerInv'
  <2>1. PICK p \in FailedPeriods(s) :
          http' = [http EXCEPT !.retrying = @ \cup {<<s, p, payment[<<s, p>>].count + 1>>}]
    BY <1>3 DEF RetryPayment
  <2> DEFINE k == <<s, p, payment[<<s, p>>].count + 1>>
  <2>2. <<s, p>> \in PeriodKey /\ payment[<<s, p>>].status = "failed"
    BY DEF FailedPeriods, PeriodKey
  <2>3. Appends(k)
    <3>1. payment[<<s, p>>].count \in Nat /\ payment[<<s, p>>].count # 0
      BY <2>2, Counts DEF Tables, PeriodSound
    <3> QED
      BY <2>2, <3>1 DEF Appends, PeriodOf
  <2> HIDE DEF k
  <2>4. /\ http'.first = http.first /\ http'.subscribing = http.subscribing
        /\ http'.transitions = http.transitions
        /\ http'.retrying = http.retrying \cup {k} /\ http'.retried = http.retried
    BY <2>1 DEF k, TypeOK, Requests
  <2>5. UNCHANGED <<sponsorship, payment, attempt, charge, job>>
    BY <1>3 DEF RetryPayment
  <2>6. FirstOrders'
    BY <2>4, <2>5, FirstOrdersKept
  <2> QED
    BY <2>3, <2>4, <2>5, <2>6, Stays, RequestOnly
<1>4. ASSUME NEW f \in http.first, FirstChargeDeclined(f) PROVE LedgerInv'
  <2>1. /\ http'.first \subseteq http.first /\ http'.subscribing = http.subscribing
        /\ \A t \in http'.transitions : t \in http.transitions \/ t.to = "cancelled"
        /\ http'.retrying = http.retrying /\ http'.retried = http.retried
    <3> DEFINE t == [s |-> f.s, to |-> "cancelled"]
    <3>1. /\ t.to = "cancelled"
          /\ \E T \in {http.transitions, http.transitions \cup {t}} :
               http' = [http EXCEPT !.first = @ \ {f}, !.transitions = T]
      BY <1>4 DEF FirstChargeDeclined
    <3> HIDE DEF t
    <3> QED
      BY <3>1 DEF TypeOK, Requests
  <2>2. FirstOrders'
    BY <1>4, <2>1, FirstOrdersKept DEF FirstChargeDeclined
  <2> QED
    BY <1>4, <2>1, <2>2, Stays, RequestOnly DEF FirstChargeDeclined
<1>5. ASSUME NEW k \in http.retrying, RetryChargeAnswered(k) \/ RetryChargeThrows(k)
      PROVE  LedgerInv'
  <2>1. /\ http'.first = http.first /\ http'.subscribing = http.subscribing
        /\ http'.transitions = http.transitions
        /\ http'.retrying \cup http'.retried \subseteq http.retrying \cup http.retried
    <3>1. \E K \in {{}, {k}} : http' = [http EXCEPT !.retrying = @ \ {k}, !.retried = @ \cup K]
      <4>1. [http EXCEPT !.retrying = @ \ {k}] = [http EXCEPT !.retrying = @ \ {k}, !.retried = @ \cup {}]
        BY DEF TypeOK, Requests
      <4> QED
        BY <1>5, <4>1 DEF RetryChargeAnswered, RetryChargeThrows
    <3> QED
      BY <3>1 DEF TypeOK, Requests
  <2>2. \A l \in Key : charge[l] = "approved" => charge'[l] = "approved"
    BY <1>5 DEF RetryChargeAnswered, RetryChargeThrows, TypeOK
  <2>3. UNCHANGED <<sponsorship, payment, attempt, job>>
    BY <1>5 DEF RetryChargeAnswered, RetryChargeThrows
  <2>4. FirstOrders'
    BY <2>1, <2>2, <2>3, FirstOrdersKept
  <2> QED
    BY <2>1, <2>2, <2>3, <2>4, RequestOnly DEF ApprovalStays
<1>6. CASE OrganizationStep
  <2>1. PICK s \in Sponsorships, to \in SponsorshipStatus : ReadTransition(s, to)
    BY <1>6 DEF OrganizationStep
  <2>2. to # "none"
    BY <2>1 DEF ReadTransition, CanTransition
  <2>3. /\ http'.first = http.first /\ http'.subscribing = http.subscribing
        /\ http'.transitions = http.transitions \cup {[s |-> s, to |-> to]}
        /\ http'.retrying = http.retrying /\ http'.retried = http.retried
    BY <2>1 DEF ReadTransition, TypeOK, Requests
  <2>4. UNCHANGED <<sponsorship, payment, attempt, charge, job>>
    BY <2>1 DEF ReadTransition
  <2>5. FirstOrders'
    BY <2>2, <2>3, <2>4, FirstOrdersKept
  <2> QED
    BY <2>3, <2>4, <2>5, Stays, RequestOnly
<1>7. CASE TransitionStep
  <2>1. PICK t \in http.transitions : CommitTransition(t)
    BY <1>7 DEF TransitionStep
  <2>2. /\ http'.first = http.first /\ http'.subscribing = http.subscribing
        /\ http'.transitions \subseteq http.transitions
        /\ http'.retrying = http.retrying /\ http'.retried = http.retried
    BY <2>1 DEF CommitTransition, TypeOK, Requests
  <2>3. t.s \in Sponsorships /\ t.to # "none"
    BY DEF TypeOK, Requests, Transition, FirstOrders
  <2>4. \A s \in Sponsorships : sponsorship[s].status # "none" => sponsorship'[s].status # "none"
    BY <2>1, <2>3 DEF CommitTransition, TypeOK, SponsorshipRow
  <2>5. UNCHANGED <<payment, attempt, charge, job>>
    BY <2>1 DEF CommitTransition
  <2>6. FirstOrders'
    BY <2>2, <2>4, <2>5, FirstOrdersKept
  <2> QED
    BY <2>2, <2>5, <2>6, Stays, RequestOnly
<1>8. CASE GatewayStep
  <2>1. \A l \in Key : charge[l] = "approved" => charge'[l] = "approved"
    BY <1>8 DEF GatewayStep, GatewaySettles, TypeOK
  <2>2. UNCHANGED <<sponsorship, payment, attempt, http, job>>
    BY <1>8 DEF GatewayStep, GatewaySettles
  <2>3. FirstOrders'
    BY <2>1, <2>2, FirstOrdersKept
  <2> QED
    BY <2>1, <2>2, <2>3, RequestOnly DEF ApprovalStays
<1> QED
  BY <1>1, <1>2, <1>3, <1>4, <1>5, <1>6, <1>7, <1>8

LEMMA JobSteps ==
  ASSUME TypeOK, TypeOK', LedgerInv, NEW w \in Workers,
         \/ StartScan(w) \/ StartAdvance(w) \/ FinishScan(w)
         \/ \E r \in job[w].rows : TakeRow(w, r)
         \/ \E r \in job[w].row : BeginFailPeriod(w, r) \/ FinishRow(w, r)
         \/ StartPoll(w) \/ FinishPoll(w)
         \/ \E k \in job[w].polls : GatewayOutage(w, k)
         \/ \E k \in job[w].poll : ReactivationRefused(w, k)
  PROVE  LedgerInv'
<1> USE DEF LedgerInv
<1> DEFINE J == job[w]
<1>0. J \in Job /\ \A r, q \in J.row : r = q
  BY JobRows DEF OneRow
<1>n. NoJob.stage = "idle" /\ NoJob.rows = {} /\ NoJob.row = {} /\ NoJob.poll = {}
  BY DEF NoJob
<1>i. ASSUME job' = [job EXCEPT ![w] = NoJob], UNCHANGED <<sponsorship, payment, attempt, charge, http>>
      PROVE  LedgerInv'
  BY <1>i, <1>n, JobOnly
<1>1. CASE StartScan(w) \/ StartPoll(w)
  <2>1. PICK j \in {[NoJob EXCEPT !.stage = "opening",
                       !.due = {s \in Sponsorships : /\ sponsorship[s].status = "active"
                                                     /\ sponsorship[s].nextBilling <= today}],
                    [NoJob EXCEPT !.stage = "polling",
                       !.polls = {k \in Key : attempt[k].result = "pending"}]} :
          job' = [job EXCEPT ![w] = j]
    BY <1>1 DEF StartScan, StartPoll
  <2>2. j.stage \in {"opening", "polling"} /\ j.rows = {} /\ j.row = {}
    BY DEF NoJob
  <2> QED
    BY <1>1, <2>1, <2>2, JobOnly DEF StartScan, StartPoll
<1>2. CASE StartAdvance(w)
  <2> DEFINE open == {[at |-> c, count |-> payment[c].count, reminders |-> payment[c].reminders] :
                        c \in {x \in PeriodKey : payment[x].status = "pending"}}
             j == [J EXCEPT !.stage = "advancing", !.rows = open]
  <2>1. job' = [job EXCEPT ![w] = j]
    BY <1>2 DEF StartAdvance, TypeOK
  <2>2. \A r \in open : Follows(r)
    <3> SUFFICES ASSUME NEW c \in PeriodKey, payment[c].status = "pending"
                 PROVE  1 <= payment[c].count /\ payment[c].count <= payment[c].count
      BY DEF Follows
    <3> QED
      BY Counts DEF Tables, PeriodSound
  <2> HIDE DEF open
  <2>3. j.stage = "advancing" /\ j.rows = open /\ j.row = J.row
    BY <1>0 DEF Job
  <2> HIDE DEF j
  <2>4. UNCHANGED <<sponsorship, payment, attempt, charge, http>>
    BY <1>2 DEF StartAdvance
  <2>5. /\ \A r \in j.rows \cup j.row : r \in J.rows \cup J.row \/ Follows(r)
        /\ \A r, q \in j.row : r = q
        /\ j.stage # "failing" /\ j.stage # "confirming"
    BY <1>0, <2>2, <2>3
  <2> HIDE DEF J
  <2> QED
    BY <2>1, <2>4, <2>5, JobOnly DEF J
<1>3. CASE FinishScan(w) \/ FinishPoll(w) \/ \E k \in J.poll : ReactivationRefused(w, k)
  BY <1>3, <1>i DEF FinishScan, FinishPoll, ReactivationRefused
<1>4. ASSUME NEW r \in J.rows, TakeRow(w, r) PROVE LedgerInv'
  <2> DEFINE j == [J EXCEPT !.rows = @ \ {r}, !.row = {r}]
  <2>1. job' = [job EXCEPT ![w] = j]
    BY <1>4 DEF TakeRow, TypeOK
  <2>2. j.stage = "advancing" /\ j.rows = J.rows \ {r} /\ j.row = {r}
    BY <1>0, <1>4 DEF Job, TakeRow
  <2> HIDE DEF j
  <2>3. UNCHANGED <<sponsorship, payment, attempt, charge, http>>
    BY <1>4 DEF TakeRow
  <2> QED
    BY <2>1, <2>2, <2>3, JobOnly
<1>5. ASSUME NEW r \in J.row, BeginFailPeriod(w, r) PROVE LedgerInv'
  <2> DEFINE j == [J EXCEPT !.stage = "failing"]
  <2>1. /\ UNCHANGED <<sponsorship, payment, attempt, charge, http>> /\ ~Locked(r.at)
        /\ \/ /\ job' = [job EXCEPT ![w] = j]
              /\ PaymentMayBecome(payment[r.at].status, "failed")
           \/ job' = [job EXCEPT ![w] = NoJob]
    BY <1>5 DEF BeginFailPeriod, TypeOK
  <2>2. PaymentMayBecome(payment[r.at].status, "failed") => payment[r.at].status \in {"pending", "failed"}
    BY DEF PaymentMayBecome
  <2>3. j.stage = "failing" /\ j.rows = J.rows /\ j.row = J.row /\ \A q \in J.row : q = r
    BY <1>0 DEF Job
  <2> HIDE DEF j
  <2> QED
    BY <1>0, <1>i, <2>1, <2>2, <2>3, JobOnly
<1>6. ASSUME NEW r \in J.row, FinishRow(w, r) PROVE LedgerInv'
  <2> DEFINE j == [J EXCEPT !.row = {}]
  <2>1. job' = [job EXCEPT ![w] = j]
    BY <1>6 DEF FinishRow, TypeOK
  <2>2. j.stage = "advancing" /\ j.rows = J.rows /\ j.row = {}
    BY <1>0, <1>6 DEF Job, FinishRow
  <2> HIDE DEF j
  <2>3. UNCHANGED <<sponsorship, payment, attempt, charge, http>>
    BY <1>6 DEF FinishRow
  <2> QED
    BY <2>1, <2>2, <2>3, JobOnly
<1>7. ASSUME NEW k \in J.polls, GatewayOutage(w, k) PROVE LedgerInv'
  <2> DEFINE j == [J EXCEPT !.polls = @ \ {k}]
  <2>1. job' = [job EXCEPT ![w] = j]
    BY <1>7 DEF GatewayOutage, TypeOK
  <2>2. j.stage = "polling" /\ j.rows = J.rows /\ j.row = J.row
    BY <1>0, <1>7 DEF Job, GatewayOutage
  <2> HIDE DEF j
  <2>3. UNCHANGED <<sponsorship, payment, attempt, charge, http>>
    BY <1>7 DEF GatewayOutage
  <2>4. /\ \A r \in j.rows \cup j.row : r \in J.rows \cup J.row
        /\ \A r, q \in j.row : r = q
        /\ j.stage # "failing" /\ j.stage # "confirming"
    BY <1>0, <2>2
  <2> QED
    BY <2>1, <2>3, <2>4, JobOnly
<1> QED
  BY <1>1, <1>2, <1>3, <1>4, <1>5, <1>6, <1>7

LEMMA OtherSteps ==
  ASSUME TypeOK, TypeOK', LedgerInv, Crash \/ NextDay \/ UNCHANGED vars
  PROVE  LedgerInv'
<1> USE DEF LedgerInv
<1>0. UNCHANGED <<sponsorship, payment, attempt, charge>>
  BY DEF Crash, NextDay, vars
<1>1. CASE Crash
  <2>1. /\ http'.first = {} /\ http'.subscribing = {} /\ http'.transitions = {}
        /\ http'.retrying = {} /\ http'.retried = {}
        /\ \A w \in Workers : job'[w].rows = {} /\ job'[w].row = {} /\ job'[w].stage = "idle"
    BY <1>1 DEF Crash, Calm, NoJob
  <2>2. FirstOrders'
    BY <1>0, <2>1, FirstOrdersKept
  <2>3. Copies' /\ Retries' /\ OneRow'
    BY <2>1 DEF Copies, Retries, OneRow
  <2>4. Held'
    BY <2>1 DEF Held, Exclusive, Holds, Informed
  <2> QED
    BY <1>0, <2>2, <2>3, <2>4, Stays, TablesRest
<1>2. CASE UNCHANGED <<http, job>>
  <2>1. FirstOrders'
    BY <1>0, <1>2, FirstOrdersKept
  <2> QED
    BY <1>0, <1>2, <2>1, Stays, RequestOnly
<1> QED
  BY <1>1, <1>2 DEF NextDay, vars

(* A request writes to the ledger.                                         *)
LEMMA RequestWrites ==
  ASSUME TypeOK, TypeOK', LedgerInv, Tables', Grows, UNCHANGED <<charge, job>>,
         http'.first \subseteq http.first, http'.subscribing = http.subscribing,
         http'.transitions = http.transitions,
         http'.retrying = http.retrying, http'.retried \subseteq http.retried,
         \A s \in Sponsorships : sponsorship'[s].status = sponsorship[s].status,
         \A s \in Sponsorships, p \in Periods :
           attempt'[<<s, p, 1>>].real => attempt[<<s, p, 1>>].real \/ ~Unrecorded(s),
         \A c \in PeriodKey : Locked(c) => Untouched(c)
  PROVE  LedgerInv'
<1> USE DEF LedgerInv
<1>1. Copies' /\ Retries'
  BY CopiesKept, RetriesKept
<1>2. FirstOrders' /\ Held'
  BY Stays, FirstOrdersKept, HeldByOthers
<1>3. OneRow'
  BY DEF OneRow
<1> QED
  BY <1>1, <1>2, <1>3

(* A job writes to the ledger.                                             *)
LEMMA JobWrites ==
  ASSUME TypeOK, TypeOK', LedgerInv, Tables', Grows, UNCHANGED <<charge, http>>,
         NEW w \in Workers, NEW j, job' = [job EXCEPT ![w] = j],
         \A s \in Sponsorships : sponsorship[s].status # "none" => sponsorship'[s].status # "none",
         \A s \in Sponsorships, p \in Periods :
           attempt'[<<s, p, 1>>].real => attempt[<<s, p, 1>>].real,
         \A r \in j.rows \cup j.row : r \in job[w].rows \cup job[w].row \/ Follows(r)',
         \A r, q \in j.row : r = q,
         j.stage \notin {"failing", "confirming"},
         \A c \in PeriodKey : Locked(c) /\ ~Holds(w, c) => Untouched(c)
  PROVE  LedgerInv'
<1> USE DEF LedgerInv
<1>1. job'[w] = j /\ \A v \in Workers \ {w} : job'[v] = job[v]
  BY DEF TypeOK
<1>2. \A v \in Workers : \A r \in job'[v].rows \cup job'[v].row :
        r \in job[v].rows \cup job[v].row \/ Follows(r)'
  BY <1>1
<1>3. Copies' /\ Retries'
  BY <1>2, CopiesKept, RetriesKept
<1>4. FirstOrders'
  BY Stays, FirstOrdersKept
<1>5. OneRow'
  BY <1>1 DEF OneRow
<1>6. Informed(w)' /\ \A c \in PeriodKey : ~Holds(w, c)'
  BY <1>1 DEF Informed, Holds
<1>7. Held'
  BY <1>1, <1>6, Stays, HeldByJob
<1> QED
  BY <1>3, <1>4, <1>5, <1>7

(* What a step that opens the period c does.                               *)
LEMMA Opening ==
  ASSUME TypeOK, LedgerInv, NEW c \in PeriodKey, payment[c].status = "none", charge' = charge,
         NEW status \in {"pending", "paid"}, NEW start \in Nat, NEW real \in BOOLEAN,
         payment' = [payment EXCEPT ![c] =
                       [status |-> status, startedAt |-> start, count |-> 1, reminders |-> 0]],
         attempt' = [attempt EXCEPT ![AttemptKey(c, 1)] = [result |-> status, real |-> real]],
         status = "paid" => real /\ charge[AttemptKey(c, 1)] = "approved"
  PROVE  /\ Tables' /\ Grows
         /\ \A d \in PeriodKey : Locked(d) => Untouched(d)
         /\ \A k \in Key : k # AttemptKey(c, 1) => attempt'[k] = attempt[k]
         /\ attempt'[AttemptKey(c, 1)].real = real
<1> USE DEF LedgerInv
<1>1. Tables'
  BY TablesOpen
<1>2. payment[c].count = 0
  BY DEF Tables, PeriodSound
<1>3. /\ payment'[c].count = 1 /\ \A d \in PeriodKey : d # c => payment'[d] = payment[d]
      /\ \A k \in Key : k # AttemptKey(c, 1) => attempt'[k] = attempt[k]
      /\ attempt'[AttemptKey(c, 1)].real = real
  BY KeyTypes, ConstantTypes DEF TypeOK
<1>4. Grows
  BY <1>2, <1>3, Counts DEF Grows
<1>5. \A d \in PeriodKey : Locked(d) => d # c
  BY NoneHeld
<1>6. \A d \in PeriodKey : d # c => Untouched(d)
  BY <1>3, KeyParts, ConstantTypes DEF Untouched
<1> QED
  BY <1>1, <1>3, <1>4, <1>5, <1>6

LEMMA WritingRequests ==
  ASSUME TypeOK, TypeOK', LedgerInv,
         \/ \E f \in http.first : RecordFirstPayment(f)
         \/ \E k \in http.retried : RecordRetry(k)
  PROVE  LedgerInv'
<1> USE DEF LedgerInv
<1>1. ASSUME NEW f \in http.first, RecordFirstPayment(f) PROVE LedgerInv'
  <2> DEFINE c == <<f.s, BillingPeriod(f.day)>>
             status == IF f.status = "approved" THEN "paid" ELSE "pending"
  <2>1. f.s \in Sponsorships /\ f.day \in Days /\ f.day \in Nat
    BY ConstantTypes DEF TypeOK, Requests, FirstCharge
  <2>2. c \in PeriodKey /\ AttemptKey(c, 1) = <<f.s, BillingPeriod(f.day), 1>>
    BY <2>1, CalendarTypes DEF PeriodKey, AttemptKey
  <2>3. /\ http'.first \subseteq http.first /\ http'.subscribing = http.subscribing
        /\ http'.transitions = http.transitions
        /\ http'.retrying = http.retrying /\ http'.retried = http.retried
    BY <1>1 DEF RecordFirstPayment, TypeOK, Requests
  <2>4. ~Unrecorded(f.s)
    BY <2>1 DEF FirstOrders
  <2>5. UNCHANGED <<charge, job>>
    BY <1>1 DEF RecordFirstPayment
  <2>6. CASE payment[c].status = "none"
    <3>1. /\ payment' = [payment EXCEPT ![c] =
                [status |-> status, startedAt |-> f.day, count |-> 1, reminders |-> 0]]
          /\ attempt' = [attempt EXCEPT ![AttemptKey(c, 1)] = [result |-> status, real |-> TRUE]]
          /\ sponsorship' = [sponsorship EXCEPT ![f.s].nextBilling = AddMonth(f.day)]
      BY <1>1, <2>2, <2>6 DEF RecordFirstPayment
    <3>2. status \in {"pending", "paid"} /\ (status = "paid" => charge[AttemptKey(c, 1)] = "approved")
      BY <2>2 DEF FirstOrders
    <3>3. \A s \in Sponsorships : sponsorship'[s].status = sponsorship[s].status
      BY <3>1, <2>1 DEF TypeOK, SponsorshipRow
    <3> HIDE DEF c, status
    <3>4. /\ Tables' /\ Grows
          /\ \A d \in PeriodKey : Locked(d) => Untouched(d)
          /\ \A k \in Key : k # AttemptKey(c, 1) => attempt'[k] = attempt[k]
      BY <2>1, <2>2, <2>5, <2>6, <3>1, <3>2, Opening
    <3>5. \A s \in Sponsorships, p \in Periods :
            attempt'[<<s, p, 1>>].real => attempt[<<s, p, 1>>].real \/ ~Unrecorded(s)
      <4> SUFFICES ASSUME NEW s \in Sponsorships, NEW p \in Periods, s # f.s
                   PROVE  attempt'[<<s, p, 1>>] = attempt[<<s, p, 1>>]
        BY <2>4
      <4>1. <<s, p, 1>> \in Key /\ <<s, p, 1>> # AttemptKey(c, 1)
        BY <2>2, ConstantTypes DEF Key
      <4> QED
        BY <3>4, <4>1
    <3> QED
      BY <2>3, <2>5, <3>3, <3>4, <3>5, RequestWrites
  <2>7. CASE payment[c].status # "none"
    <3>1. UNCHANGED <<sponsorship, payment, attempt>>
      BY <1>1, <2>7 DEF RecordFirstPayment
    <3>2. FirstOrders'
      BY <2>3, <2>5, <3>1, FirstOrdersKept
    <3> QED
      BY <2>3, <2>5, <3>1, <3>2, Stays, RequestOnly
  <2> QED
    BY <2>6, <2>7
<1>2. ASSUME NEW k \in http.retried, RecordRetry(k) PROVE LedgerInv'
  <2> DEFINE c == PeriodOf(k)
  <2>1. k \in Key /\ c \in PeriodKey /\ k[3] \in Nat /\ ~Locked(c) /\ Appends(k)
    BY <1>2, KeyTypes DEF TypeOK, Requests, Attempts, Retries, RecordRetry
  <2>2. /\ http'.first = http.first /\ http'.subscribing = http.subscribing
        /\ http'.transitions = http.transitions
        /\ http'.retrying = http.retrying /\ http'.retried \subseteq http.retried
    BY <1>2 DEF RecordRetry, TypeOK, Requests
  <2>3. UNCHANGED <<sponsorship, charge, job>>
    BY <1>2 DEF RecordRetry
  <2>4. CASE attempt[k].result = "none"
    <3>1. /\ attempt' = [attempt EXCEPT ![k] = [result |-> "pending", real |-> TRUE]]
          /\ payment' = [payment EXCEPT ![c].count = k[3]]
      BY <1>2, <2>4 DEF RecordRetry
    <3>2. Tables' /\ k[3] = payment[c].count + 1
      BY <2>1, <2>3, <2>4, <3>1, TablesRetry DEF Appends
    <3>3. /\ payment'[c].count = k[3] /\ payment'[c].status = payment[c].status
          /\ \A d \in PeriodKey : d # c => payment'[d] = payment[d]
          /\ \A l \in Key : l # k => attempt'[l] = attempt[l]
      BY <2>1, <3>1 DEF TypeOK, PaymentRow
    <3>4. Grows
      BY <2>1, <3>2, <3>3, Counts DEF Grows
    <3>5. \A d \in PeriodKey : Locked(d) => Untouched(d)
      BY <2>1, <3>3 DEF Untouched
    <3>6. \A s \in Sponsorships, p \in Periods : attempt'[<<s, p, 1>>] = attempt[<<s, p, 1>>]
      <4> SUFFICES ASSUME NEW s \in Sponsorships, NEW p \in Periods
                   PROVE  attempt'[<<s, p, 1>>] = attempt[<<s, p, 1>>]
        OBVIOUS
      <4>1. <<s, p, 1>> \in Key /\ <<s, p, 1>>[3] = 1 /\ k[3] # 1
        BY <2>1, ConstantTypes DEF Key, Appends
      <4> QED
        BY <3>3, <4>1
    <3> QED
      BY <2>2, <2>3, <3>2, <3>4, <3>5, <3>6, RequestWrites
  <2>5. CASE attempt[k].result # "none"
    <3>1. UNCHANGED <<payment, attempt>>
      BY <1>2, <2>5 DEF RecordRetry
    <3>2. FirstOrders'
      BY <2>2, <2>3, <3>1, FirstOrdersKept
    <3> QED
      BY <2>2, <2>3, <3>1, <3>2, Stays, RequestOnly
  <2> QED
    BY <2>4, <2>5
<1> QED
  BY <1>1, <1>2

(* What paying the period of k does.                                       *)
LEMMA Paying ==
  ASSUME TypeOK, LedgerInv, NEW k \in Key, charge' = charge, attempt[k].result = "pending",
         Approved(k), MarkPaid(k)
  PROVE  /\ Tables' /\ Grows
         /\ \A d \in PeriodKey : d # PeriodOf(k) => Untouched(d)
         /\ \A l \in Key : attempt'[l].real = attempt[l].real
<1> USE DEF LedgerInv
<1>0. PeriodOf(k) \in PeriodKey
  BY KeyTypes
<1>1. Tables'
  BY TablesPay
<1>2. /\ payment'[PeriodOf(k)].status = "paid" /\ payment'[PeriodOf(k)].count = payment[PeriodOf(k)].count
      /\ \A d \in PeriodKey : d # PeriodOf(k) => payment'[d] = payment[d]
  BY <1>0 DEF MarkPaid, TypeOK, PaymentRow
<1>3. /\ \A l \in Key : l # k => attempt'[l] = attempt[l]
      /\ attempt'[k].real = attempt[k].real
  BY DEF MarkPaid, TypeOK, AttemptRow
<1>4. Grows
  BY <1>2, Counts DEF Grows
<1> QED
  BY <1>1, <1>2, <1>3, <1>4 DEF Untouched

LEMMA WritingJobs ==
  ASSUME TypeOK, TypeOK', LedgerInv, NEW w \in Workers,
         \/ \E s \in job[w].due : OpenPeriodFor(w, s)
         \/ \E r \in job[w].row : \/ SendReminder(w, r)
                                  \/ ExpireAndCreateNextAttempt(w, r)
                                  \/ CommitFailPeriod(w, r)
         \/ \E k \in job[w].polls : PollApproved(w, k)
         \/ \E k \in job[w].poll : CommitReactivation(w, k)
  PROVE  LedgerInv'
<1> USE DEF LedgerInv
<1> DEFINE J == job[w]
<1>0. J \in Job /\ \A r, q \in J.row : r = q
  BY JobRows DEF OneRow
<1>k. \A s \in Sponsorships, p \in Periods : <<s, p, 1>> \in Key
  BY ConstantTypes DEF Key
<1>r. ASSUME NEW j, j.rows = J.rows, j.row = J.row
      PROVE  /\ \A r \in j.rows \cup j.row : r \in job[w].rows \cup job[w].row
             /\ \A r, q \in j.row : r = q
  BY <1>0, <1>r
<1>1. ASSUME NEW s \in J.due, OpenPeriodFor(w, s) PROVE LedgerInv'
  <2> DEFINE c == <<s, BillingPeriod(today)>>
             j == [J EXCEPT !.due = @ \ {s}]
  <2>1. s \in Sponsorships /\ today \in Days /\ today \in Nat /\ c \in PeriodKey
        /\ AttemptKey(c, 1) = <<s, BillingPeriod(today), 1>>
    BY <1>0, CalendarTypes, ConstantTypes DEF TypeOK, Job, PeriodKey, AttemptKey
  <2>2. job' = [job EXCEPT ![w] = j] /\ UNCHANGED <<charge, http>>
    BY <1>1 DEF OpenPeriodFor, TypeOK
  <2>3. /\ j.stage \notin {"failing", "confirming"}
        /\ \A r \in j.rows \cup j.row : r \in job[w].rows \cup job[w].row
        /\ \A r, q \in j.row : r = q
    <3>1. j.stage = "opening" /\ j.rows = J.rows /\ j.row = J.row
      BY <1>0, <1>1 DEF Job, OpenPeriodFor
    <3> HIDE DEF j
    <3> QED
      BY <1>r, <3>1
  <2> HIDE DEF j
  <2>4. CASE payment[c].status = "none"
    <3>1. /\ payment' = [payment EXCEPT ![c] =
                [status |-> "pending", startedAt |-> today, count |-> 1, reminders |-> 0]]
          /\ attempt' = [attempt EXCEPT ![AttemptKey(c, 1)] = [result |-> "pending", real |-> FALSE]]
          /\ sponsorship' = [sponsorship EXCEPT ![s].nextBilling = AddMonth(today)]
      BY <1>1, <2>1, <2>4 DEF OpenPeriodFor
    <3>2. \A x \in Sponsorships : sponsorship'[x].status = sponsorship[x].status
      BY <3>1, <2>1 DEF TypeOK, SponsorshipRow
    <3> HIDE DEF c
    <3>3. /\ Tables' /\ Grows
          /\ \A d \in PeriodKey : Locked(d) => Untouched(d)
          /\ \A k \in Key : k # AttemptKey(c, 1) => attempt'[k] = attempt[k]
          /\ attempt'[AttemptKey(c, 1)].real = FALSE
      BY <2>1, <2>2, <2>4, <3>1, Opening
    <3>4. \A x \in Sponsorships, p \in Periods :
            attempt'[<<x, p, 1>>].real => attempt[<<x, p, 1>>].real
      BY <1>k, <3>3
    <3> QED
      BY <2>2, <2>3, <3>2, <3>3, <3>4, JobWrites
  <2>5. CASE payment[c].status # "none"
    <3>1. UNCHANGED <<sponsorship, payment, attempt>>
      BY <1>1, <2>5 DEF OpenPeriodFor
    <3> QED
      BY <2>2, <2>3, <3>1, JobOnly
  <2> QED
    BY <2>4, <2>5
<1>2. ASSUME NEW r \in J.row
      PROVE  /\ r \in OpenRow /\ r.at \in PeriodKey /\ r.count \in Nat /\ Follows(r)
             /\ r.reminders \in Nat
  BY <1>0 DEF Job, OpenRow, Copies
<1>3. ASSUME NEW r \in J.row, SendReminder(w, r) PROVE LedgerInv'
  <2> DEFINE q == [r EXCEPT !.reminders = @ + 1]
             j == [J EXCEPT !.row = {q}]
  <2>1. job' = [job EXCEPT ![w] = j] /\ UNCHANGED <<sponsorship, attempt, charge, http>>
        /\ ~Locked(r.at) /\ payment' = [payment EXCEPT ![r.at].reminders = @ + 1]
    BY <1>3 DEF SendReminder, TypeOK
  <2>2. q.at = r.at /\ q.count = r.count
    BY <1>2 DEF OpenRow
  <2>3. j.stage = "advancing" /\ j.rows = J.rows /\ j.row = {q}
    BY <1>0, <1>3 DEF Job, SendReminder, Walking
  <2> HIDE DEF q, j
  <2>4. \A c \in PeriodKey : payment'[c].status = payment[c].status /\ payment'[c].count = payment[c].count
    BY <1>2, <2>1 DEF TypeOK, PaymentRow
  <2>5. Tables'
    BY <1>2, <2>1, TablesRemind
  <2>6. Grows /\ \A c \in PeriodKey : Untouched(c)
    BY <2>1, <2>4, Counts DEF Grows, Untouched
  <2>7. Follows(q)'
    BY <1>2, <2>2, <2>4 DEF Follows
  <2>8. /\ \A x \in j.rows \cup j.row : x \in job[w].rows \cup job[w].row \/ Follows(x)'
        /\ \A x, y \in j.row : x = y
        /\ j.stage \notin {"failing", "confirming"}
    BY <2>3, <2>7
  <2> QED
    BY <2>1, <2>5, <2>6, <2>8, JobWrites
<1>4. ASSUME NEW r \in J.row, ExpireAndCreateNextAttempt(w, r) PROVE LedgerInv'
  <2> DEFINE c == r.at
             q == [r EXCEPT !.count = @ + 1]
             j == [J EXCEPT !.row = {q}]
  <2>0. r.count \in Attempts /\ r.count + 1 \in Attempts
    <3>1. r.count \in {1, 2}
      BY <1>4, LadderWalks DEF ExpireAndCreateNextAttempt, Walking
    <3> QED
      BY <3>1, ConstantTypes DEF Attempts
  <2>1. UNCHANGED <<sponsorship, charge, http>> /\ ~Locked(c)
    BY <1>4 DEF ExpireAndCreateNextAttempt
  <2>2. CASE attempt[AttemptKey(c, r.count + 1)].result = "none"
    <3>1. /\ attempt' = [attempt EXCEPT
               ![AttemptKey(c, r.count)].result = IF @ = "pending" THEN "expired" ELSE @,
               ![AttemptKey(c, r.count + 1)] = [result |-> "pending", real |-> FALSE]]
          /\ payment' = [payment EXCEPT ![c].count = r.count + 1]
          /\ job' = [job EXCEPT ![w] = j]
      BY <1>4, <2>2 DEF ExpireAndCreateNextAttempt, TypeOK
    <3>2. Tables' /\ payment[c].count = r.count
      BY <1>2, <2>0, <2>1, <2>2, <3>1, TablesNext DEF Follows
    <3>3. q.at = c /\ q.count = r.count + 1
      BY <1>2 DEF OpenRow
    <3>4. j.stage = "advancing" /\ j.rows = J.rows /\ j.row = {q}
      BY <1>0, <1>4 DEF Job, ExpireAndCreateNextAttempt, Walking
    <3>5. /\ payment'[c].count = r.count + 1 /\ payment'[c].status = payment[c].status
          /\ \A d \in PeriodKey : d # c => payment'[d] = payment[d]
      BY <1>2, <3>1 DEF TypeOK, PaymentRow
    <3>6. /\ \A k \in Key : k # AttemptKey(c, r.count) /\ k # AttemptKey(c, r.count + 1) =>
               attempt'[k] = attempt[k]
          /\ \A k \in Key : attempt'[k].real => attempt[k].real
      <4>1. AttemptKey(c, r.count) \in Key /\ AttemptKey(c, r.count + 1) \in Key
        BY <1>2, <2>0, KeyTypes
      <4>2. attempt[AttemptKey(c, r.count)] \in AttemptRow
        BY <4>1 DEF TypeOK
      <4>3. attempt[AttemptKey(c, r.count)].real \in BOOLEAN
        BY <4>2 DEF AttemptRow
      <4> DEFINE old == AttemptKey(c, r.count)
                 new == AttemptKey(c, r.count + 1)
                 res == IF attempt[old].result = "pending" THEN "expired" ELSE attempt[old].result
                 mid == [attempt EXCEPT ![old].result = res]
      <4>4. attempt' = [mid EXCEPT ![new] = [result |-> "pending", real |-> FALSE]]
        BY <3>1
      <4>5. /\ \A k \in Key : mid[k].real = attempt[k].real /\ (k # old => mid[k] = attempt[k])
            /\ DOMAIN mid = Key
        <5> HIDE DEF res
        <5> QED
          BY <4>1, <4>2 DEF TypeOK, AttemptRow
      <4> HIDE DEF mid, old, new
      <4> QED
        BY <4>4, <4>5 DEF old, new
    <3>7. \A d \in PeriodKey : d # c => Untouched(d)
      BY <1>2, <2>0, <3>5, <3>6, KeyParts DEF Untouched
    <3>8. Grows
      BY <1>2, <3>2, <3>5, Counts DEF Grows
    <3>9. Follows(q)'
      BY <1>2, <3>3, <3>5 DEF Follows
    <3> HIDE DEF q, j
    <3>10. \A s \in Sponsorships, p \in Periods :
             attempt'[<<s, p, 1>>].real => attempt[<<s, p, 1>>].real
      BY <1>k, <3>6
    <3> QED
      <4>1. /\ \A x \in j.rows \cup j.row : x \in job[w].rows \cup job[w].row \/ Follows(x)'
            /\ \A x, y \in j.row : x = y
            /\ j.stage \notin {"failing", "confirming"}
        BY <3>4, <3>9
      <4>2. \A d \in PeriodKey : Locked(d) => Untouched(d)
        BY <2>1, <3>7
      <4> QED
        BY <2>1, <3>1, <3>2, <3>8, <3>10, <4>1, <4>2, JobWrites
  <2>3. CASE attempt[AttemptKey(c, r.count + 1)].result # "none"
    <3>1. job' = [job EXCEPT ![w] = NoJob] /\ UNCHANGED <<payment, attempt>>
      BY <1>4, <2>3 DEF ExpireAndCreateNextAttempt
    <3>2. NoJob.stage = "idle" /\ NoJob.rows = {} /\ NoJob.row = {}
      BY DEF NoJob
    <3> QED
      BY <2>1, <3>1, <3>2, JobOnly
  <2> QED
    BY <2>2, <2>3
<1>5. ASSUME NEW r \in J.row, CommitFailPeriod(w, r) PROVE LedgerInv'
  <2> DEFINE c == r.at
             j == [J EXCEPT !.stage = "advancing", !.row = {}]
  <2>1. /\ job' = [job EXCEPT ![w] = j] /\ UNCHANGED <<charge, http>>
        /\ payment' = [payment EXCEPT ![c].status = "failed"]
        /\ attempt' = [attempt EXCEPT
             ![AttemptKey(c, r.count)].result = IF @ = "pending" THEN "expired" ELSE @]
        /\ sponsorship' = [sponsorship EXCEPT ![c[1]].status = "suspended", ![c[1]].suspendedFor = "billing"]
    BY <1>5 DEF CommitFailPeriod, TypeOK
  <2>2. j.stage = "advancing" /\ j.rows = J.rows /\ j.row = {}
    BY <1>0 DEF Job
  <2> HIDE DEF j
  <2>3. payment[c].status \in {"pending", "failed"} /\ Holds(w, c)
    BY <1>5 DEF CommitFailPeriod, Held, Informed, Holds
  <2>4. r.count \in Attempts
    BY <1>2, Rows, Counts DEF Follows, Attempts
  <2>5. Tables'
    BY <1>2, <2>1, <2>3, <2>4, TablesFail
  <2>6. /\ payment'[c].count = payment[c].count /\ payment'[c].status = "failed"
        /\ \A d \in PeriodKey : d # c => payment'[d] = payment[d]
    BY <1>2, <2>1 DEF TypeOK, PaymentRow
  <2>7. /\ \A k \in Key : k # AttemptKey(c, r.count) => attempt'[k] = attempt[k]
        /\ \A k \in Key : attempt'[k].real = attempt[k].real
    BY <1>2, <2>1, <2>4, KeyTypes DEF TypeOK, AttemptRow
  <2>8. \A d \in PeriodKey : d # c => Untouched(d)
    BY <1>2, <2>4, <2>6, <2>7, KeyParts DEF Untouched
  <2>9. Grows
    BY <1>2, <2>6, Counts DEF Grows
  <2>10. \A s \in Sponsorships : sponsorship[s].status # "none" => sponsorship'[s].status # "none"
    BY <1>2, <2>1, KeyTypes DEF TypeOK, SponsorshipRow
  <2>11. \A s \in Sponsorships, p \in Periods :
           attempt'[<<s, p, 1>>].real => attempt[<<s, p, 1>>].real
    BY <1>k, <2>7
  <2> QED
    BY <2>1, <2>2, <2>3, <2>5, <2>8, <2>9, <2>10, <2>11, JobWrites
<1>6. ASSUME NEW k \in J.polls, PollApproved(w, k) PROVE LedgerInv'
  <2>1. k \in Key /\ PeriodOf(k) \in PeriodKey
    BY <1>0, KeyTypes DEF Job
  <2>2. /\ UNCHANGED <<sponsorship, charge, http>> /\ Approved(k) /\ ~Locked(PeriodOf(k))
        /\ J.stage = "polling"
    BY <1>6 DEF PollApproved
  <2> DEFINE j == [J EXCEPT !.polls = @ \ {k}]
             i == [J EXCEPT !.polls = @ \ {k}, !.poll = {k}, !.stage = "confirming"]
  <2>3. \/ job' = [job EXCEPT ![w] = j] /\ UNCHANGED <<attempt, payment>>
        \/ job' = [job EXCEPT ![w] = i] /\ UNCHANGED <<attempt, payment>> /\ attempt[k].result = "pending"
        \/ job' = [job EXCEPT ![w] = j] /\ MarkPaid(k) /\ attempt[k].result = "pending"
    BY <1>6 DEF PollApproved, TypeOK
  <2>4. /\ j.stage = "polling" /\ j.rows = J.rows /\ j.row = J.row
        /\ i.stage = "confirming" /\ i.rows = J.rows /\ i.row = J.row /\ i.poll = {k}
    BY <1>0, <2>2 DEF Job
  <2> HIDE DEF j, i
  <2>a. /\ \A r \in j.rows \cup j.row : r \in job[w].rows \cup job[w].row
        /\ \A r, q \in j.row : r = q
        /\ \A r \in i.rows \cup i.row : r \in job[w].rows \cup job[w].row
        /\ \A r, q \in i.row : r = q
        /\ j.stage \notin {"failing", "confirming"} /\ i.stage # "failing"
    BY <2>4, <1>r
  <2>5. CASE job' = [job EXCEPT ![w] = j] /\ UNCHANGED <<attempt, payment>>
    BY <2>2, <2>a, <2>5, JobOnly
  <2>6. CASE job' = [job EXCEPT ![w] = i] /\ UNCHANGED <<attempt, payment>> /\ attempt[k].result = "pending"
    BY <2>2, <2>4, <2>a, <2>6, JobOnly
  <2>7. CASE job' = [job EXCEPT ![w] = j] /\ MarkPaid(k) /\ attempt[k].result = "pending"
    <3>1. /\ Tables' /\ Grows
          /\ \A d \in PeriodKey : Locked(d) => Untouched(d)
          /\ \A l \in Key : attempt'[l].real = attempt[l].real
      BY <2>1, <2>2, <2>7, Paying
    <3>2. \A s \in Sponsorships, p \in Periods :
            attempt'[<<s, p, 1>>].real => attempt[<<s, p, 1>>].real
      BY <1>k, <3>1
    <3> QED
      BY <2>2, <2>a, <2>7, <3>1, <3>2, JobWrites
  <2> QED
    BY <2>3, <2>5, <2>6, <2>7
<1>7. ASSUME NEW k \in J.poll, CommitReactivation(w, k) PROVE LedgerInv'
  <2> DEFINE j == [J EXCEPT !.stage = "polling", !.poll = {}]
  <2>1. k \in Key /\ PeriodOf(k) \in PeriodKey /\ k[1] \in Sponsorships
    BY <1>0, KeyTypes DEF Job
  <2>2. /\ job' = [job EXCEPT ![w] = j] /\ UNCHANGED <<charge, http>> /\ MarkPaid(k)
        /\ sponsorship' = [sponsorship EXCEPT ![k[1]].status = "active"]
        /\ J.stage = "confirming"
    BY <1>7 DEF CommitReactivation, TypeOK
  <2>3. /\ j.stage \notin {"failing", "confirming"}
        /\ \A r \in j.rows \cup j.row : r \in job[w].rows \cup job[w].row
        /\ \A r, q \in j.row : r = q
    <3>1. j.stage = "polling" /\ j.rows = J.rows /\ j.row = J.row
      BY <1>0 DEF Job
    <3> HIDE DEF j
    <3> QED
      BY <1>r, <3>1
  <2> HIDE DEF j
  <2>4. attempt[k].result = "pending" /\ Approved(k) /\ Holds(w, PeriodOf(k))
    BY <2>2 DEF Held, Informed, Holds
  <2>5. /\ Tables' /\ Grows
        /\ \A d \in PeriodKey : d # PeriodOf(k) => Untouched(d)
        /\ \A l \in Key : attempt'[l].real = attempt[l].real
    BY <2>1, <2>2, <2>4, Paying
  <2>6. \A s \in Sponsorships : sponsorship[s].status # "none" => sponsorship'[s].status # "none"
    BY <2>1, <2>2 DEF TypeOK, SponsorshipRow
  <2>7. \A s \in Sponsorships, p \in Periods :
          attempt'[<<s, p, 1>>].real => attempt[<<s, p, 1>>].real
    BY <1>k, <2>5
  <2> QED
    <3>1. \A d \in PeriodKey : Locked(d) /\ ~Holds(w, d) => Untouched(d)
      BY <2>4, <2>5
    <3> QED
      BY <2>2, <2>3, <2>5, <2>6, <2>7, <3>1, JobWrites
<1> QED
  BY <1>1, <1>3, <1>4, <1>5, <1>6, <1>7

(***************************************************************************)
(* The theorems                                                            *)
(***************************************************************************)
LEMMA LedgerInvInit == Init => LedgerInv
<1> SUFFICES ASSUME Init PROVE LedgerInv
  OBVIOUS
<1>1. Tables
  <2>1. ASSUME NEW c \in PeriodKey PROVE PeriodSound(c)
    <3>1. /\ payment[c].status = "none" /\ payment[c].count = 0
          /\ \A n \in Attempts : attempt[AttemptKey(c, n)].result = "none" /\ ~(n <= 0)
      BY KeyTypes DEF Init, Attempts
    <3> QED
      BY <3>1 DEF PeriodSound
  <2> QED
    BY <2>1 DEF Tables
<1>2. Copies /\ OneRow /\ Held
  BY DEF Init, NoJob, Copies, OneRow, Held, Exclusive, Holds, Informed
<1>3. Retries
  BY DEF Init, Calm, Retries
<1>4. FirstOrders
  <2>1. \A s \in Sponsorships, p \in Periods : <<s, p, 1>> \in Key
    BY ConstantTypes DEF Key
  <2> QED
    BY <2>1 DEF Init, Calm, FirstOrders
<1> QED
  BY <1>1, <1>2, <1>3, <1>4 DEF LedgerInv

LEMMA LedgerInvKept ==
  ASSUME TypeOK, LedgerInv, [Next]_vars
  PROVE  LedgerInv'
<1> TypeOK'
  BY StepType
<1>1. CASE SponsorStep
  BY <1>1, RequestSteps, WritingRequests DEF SponsorStep
<1>2. CASE OrganizationStep \/ TransitionStep \/ GatewayStep
  BY <1>2, RequestSteps
<1>3. ASSUME NEW w \in Workers, ScanStep(w) \/ PollStep(w) PROVE LedgerInv'
  BY <1>3, JobSteps, WritingJobs DEF ScanStep, PollStep
<1>4. CASE Crash \/ NextDay \/ UNCHANGED vars
  BY <1>4, OtherSteps
<1> QED
  BY <1>1, <1>2, <1>3, <1>4 DEF Next

LEMMA LedgerAlways == Spec => [](TypeOK /\ LedgerInv)
<1>1. Init => TypeOK /\ LedgerInv
  BY InitType, LedgerInvInit
<1>2. TypeOK /\ LedgerInv /\ [Next]_vars => (TypeOK /\ LedgerInv)'
  BY StepType, LedgerInvKept
<1> QED
  BY <1>1, <1>2, PTL DEF Spec

(* No attempt number is skipped or forgotten, for any number of workers on *)
(* stale copies, concurrent retries and restarts.                          *)
THEOREM AlwaysContiguous == Spec => []AttemptsContiguous
<1>1. LedgerInv => AttemptsContiguous
  BY TablesMean DEF LedgerInv
<1> QED
  BY <1>1, LedgerAlways, PTL

(* While a period is on the ladder only its newest attempt is payable.     *)
THEOREM AlwaysOneOpen == Spec => []OneOpenAttempt
<1>1. LedgerInv => OneOpenAttempt
  BY TablesMean DEF LedgerInv
<1> QED
  BY <1>1, LedgerAlways, PTL

(* A period is shown as paid only with an order the gateway approved, and  *)
(* an attempt that is paid has paid its period.                            *)
THEOREM AlwaysApproved == Spec => []PaidMeansApproved
<1>1. LedgerInv => PaidMeansApproved
  BY TablesMean DEF LedgerInv
<1> QED
  BY <1>1, LedgerAlways, PTL

LEMMA PaidStays ==
  ASSUME TypeOK, LedgerInv, [Next]_vars, NEW c \in PeriodKey, payment[c].status = "paid"
  PROVE  payment'[c].status = "paid"
<1> USE DEF LedgerInv
<1>1. ASSUME payment'[c] = payment[c] PROVE payment'[c].status = "paid"
  BY <1>1
<1>2. CASE UNCHANGED <<sponsorship, payment>> \/ (\E s \in Sponsorships : Subscribe(s))
           \/ (\E t \in http.transitions : CommitTransition(t))
  BY <1>2 DEF Subscribe, CommitTransition
<1>3. ASSUME NEW f \in http.first, RecordFirstPayment(f) PROVE payment'[c].status = "paid"
  BY <1>3 DEF RecordFirstPayment, TypeOK
<1>4. ASSUME NEW k \in http.retried, RecordRetry(k) PROVE payment'[c].status = "paid"
  BY <1>4 DEF RecordRetry, TypeOK, PaymentRow
<1>5. ASSUME NEW w \in Workers, NEW s \in job[w].due, OpenPeriodFor(w, s)
      PROVE  payment'[c].status = "paid"
  BY <1>5 DEF OpenPeriodFor, TypeOK
<1>6. ASSUME NEW w \in Workers, NEW r \in job[w].row,
             SendReminder(w, r) \/ ExpireAndCreateNextAttempt(w, r)
      PROVE  payment'[c].status = "paid"
  BY <1>6 DEF SendReminder, ExpireAndCreateNextAttempt, TypeOK, PaymentRow
<1>7. ASSUME NEW w \in Workers, NEW r \in job[w].row, CommitFailPeriod(w, r)
      PROVE  payment'[c].status = "paid"
  <2>1. payment[r.at].status \in {"pending", "failed"}
    BY <1>7 DEF CommitFailPeriod, Held, Informed
  <2>2. payment' = [payment EXCEPT ![r.at].status = "failed"]
    BY <1>7 DEF CommitFailPeriod
  <2> QED
    BY <2>1, <2>2 DEF TypeOK
<1>8. ASSUME NEW w \in Workers, NEW k \in job[w].polls \cup job[w].poll,
             PollApproved(w, k) \/ CommitReactivation(w, k)
      PROVE  payment'[c].status = "paid"
  BY <1>8 DEF PollApproved, CommitReactivation, MarkPaid, TypeOK, PaymentRow
<1> QED
  BY <1>2, <1>3, <1>4, <1>5, <1>6, <1>7, <1>8, LedgerSteps

(* No scan, however stale, fails a period that has been paid.              *)
THEOREM PaidForGood == Spec => PaidIsFinal
<1>1. TypeOK /\ LedgerInv /\ [Next]_vars =>
        [\A c \in PeriodKey : payment[c].status = "paid" => payment'[c].status = "paid"]_vars
  BY PaidStays
<1> QED
  BY <1>1, LedgerAlways, PTL DEF Spec, PaidIsFinal

(***************************************************************************)
(* The tables implement the promise                                        *)
(***************************************************************************)
(* What the gateway approved of an order on file it does not take back.    *)
LEMMA ApprovalKept ==
  ASSUME TypeOK, LedgerInv, [Next]_vars
  PROVE  ApprovalStays
<1>1. CASE charge' = charge
  BY <1>1, Stays
<1>2. ASSUME NEW s \in Sponsorships, FirstChargeAnswered(s) \/ FirstChargeThrows(s)
      PROVE  ApprovalStays
  <2> DEFINE p == BillingPeriod(today)
  <2>1. p \in Periods
    BY CalendarTypes DEF TypeOK
  <2>2. ~attempt[<<s, p, 1>>].real
    BY <1>2, <2>1 DEF FirstChargeAnswered, FirstChargeThrows, LedgerInv, FirstOrders, Unrecorded
  <2>3. \A k \in Key : k # <<s, p, 1>> => charge'[k] = charge[k]
    BY <1>2 DEF FirstChargeAnswered, FirstChargeThrows, TypeOK
  <2> QED
    BY <2>2, <2>3 DEF ApprovalStays
<1>3. ASSUME NEW k \in http.retrying, RetryChargeAnswered(k) \/ RetryChargeThrows(k)
      PROVE  ApprovalStays
  BY <1>3 DEF RetryChargeAnswered, RetryChargeThrows, TypeOK, ApprovalStays
<1>4. ASSUME NEW k \in Key, GatewaySettles(k) PROVE ApprovalStays
  BY <1>4 DEF GatewaySettles, TypeOK, ApprovalStays
<1>5. CASE SponsorStep
  BY <1>1, <1>2, <1>3, <1>5
     DEF SponsorStep, Subscribe, FirstChargeDeclined, RecordFirstPayment, RetryPayment, RecordRetry
<1>6. CASE OrganizationStep \/ TransitionStep \/ Crash \/ NextDay \/ UNCHANGED vars
  BY <1>1, <1>6
     DEF OrganizationStep, ReadTransition, TransitionStep, CommitTransition, Crash, NextDay, vars
<1>7. ASSUME NEW w \in Workers, ScanStep(w) PROVE ApprovalStays
  BY <1>1, <1>7
     DEF ScanStep, StartScan, StartAdvance, FinishScan, OpenPeriodFor, TakeRow, SendReminder,
         ExpireAndCreateNextAttempt, BeginFailPeriod, CommitFailPeriod, FinishRow
<1>8. ASSUME NEW w \in Workers, PollStep(w) PROVE ApprovalStays
  BY <1>1, <1>8
     DEF PollStep, StartPoll, FinishPoll, GatewayOutage, ReactivationRefused, PollApproved,
         CommitReactivation
<1> QED
  BY <1>4, <1>5, <1>6, <1>7, <1>8 DEF Next, GatewayStep

(* A step that changes one month's row, and no order on file but by its    *)
(* result, is seen in that month alone.                                    *)
Filed == \A k \in Key : attempt[k].result # "none" =>
           attempt'[k].result # "none" /\ attempt'[k].real = attempt[k].real

LEMMA ApprovedGrow ==
  ASSUME ApprovalStays, Filed
  PROVE  approved \subseteq approved' /\ approved' \subseteq Promise!Orders
<1>1. \A o \in PeriodKey \X Attempts : AttemptKey(o[1], o[2]) \in Key
  BY KeyTypes
<1>2. approved \subseteq approved'
  BY <1>1 DEF approved, Approved, ApprovalStays, Filed
<1>3. approved' \subseteq Promise!Orders
  BY DEF approved, Promise!Orders, Attempts
<1> QED
  BY <1>2, <1>3

LEMMA MonthWritten ==
  ASSUME NEW c \in PeriodKey, NEW status, NEW count,
         payment'[c].status = status, payment'[c].count = count,
         \A d \in PeriodKey : d # c => payment'[d] = payment[d]
  PROVE  /\ months' = [months EXCEPT ![c] = status]
         /\ tries' = [tries EXCEPT ![c] = count]
  BY DEF months, tries

LEMMA CreditsKept ==
  ASSUME \A k \in Key : attempt'[k].result = "paid" <=> attempt[k].result = "paid"
  PROVE  credited' = credited
<1>1. \A o \in PeriodKey \X Attempts : AttemptKey(o[1], o[2]) \in Key
  BY KeyTypes
<1> QED
  BY <1>1 DEF credited

(* One attempt more is paid.                                               *)
LEMMA CreditsGrow ==
  ASSUME NEW c \in PeriodKey, NEW n \in Attempts,
         attempt'[AttemptKey(c, n)].result = "paid",
         \A k \in Key : k # AttemptKey(c, n) => attempt'[k].result = attempt[k].result
  PROVE  credited' = credited \cup {<<c, n>>}
<1>1. ASSUME NEW o \in PeriodKey \X Attempts
      PROVE  /\ AttemptKey(o[1], o[2]) \in Key
             /\ AttemptKey(o[1], o[2]) = AttemptKey(c, n) => o = <<c, n>>
  BY KeyTypes, KeyParts
<1>2. credited' \subseteq credited \cup {<<c, n>>}
  BY <1>1 DEF credited
<1>3. credited \subseteq credited'
  BY <1>1 DEF credited
<1>4. <<c, n>> \in credited'
  BY DEF credited
<1> QED
  BY <1>2, <1>3, <1>4

(* What a step may do to the months, and to the orders on file.            *)
Seen ==
  /\ UNCHANGED <<months, tries, credited>> \/ \E c \in PeriodKey : Promise!Progress(c)
  /\ Filed

LEMMA SeenResting ==
  ASSUME \A c \in PeriodKey : payment'[c].status = payment[c].status /\ payment'[c].count = payment[c].count,
         UNCHANGED attempt
  PROVE  Seen
<1>1. UNCHANGED <<months, tries>>
  BY DEF months, tries
<1>2. UNCHANGED credited
  BY CreditsKept
<1> QED
  BY <1>1, <1>2 DEF Seen, Filed

LEMMA SeenOpening ==
  ASSUME TypeOK, LedgerInv, NEW c \in PeriodKey, payment[c].status = "none", charge' = charge,
         NEW status \in {"pending", "paid"}, NEW start \in Nat, NEW real \in BOOLEAN,
         payment' = [payment EXCEPT ![c] =
                       [status |-> status, startedAt |-> start, count |-> 1, reminders |-> 0]],
         attempt' = [attempt EXCEPT ![AttemptKey(c, 1)] = [result |-> status, real |-> real]],
         status = "paid" => real /\ charge[AttemptKey(c, 1)] = "approved"
  PROVE  Seen
<1> DEFINE k == AttemptKey(c, 1)
<1>1. k \in Key /\ 1 \in Attempts
  BY Rows
<1>2. attempt[k].result = "none"
  <2>1. payment[c].count = 0 /\ (attempt[k].result # "none" <=> 1 <= payment[c].count)
    BY <1>1 DEF LedgerInv, Tables, PeriodSound
  <2> QED
    BY <2>1
<1>3. /\ attempt'[k].result = status /\ attempt'[k].real = real
      /\ \A l \in Key : l # k => attempt'[l] = attempt[l]
  BY <1>1 DEF TypeOK
<1>4. Filed
  BY <1>2, <1>3 DEF Filed
<1>5. /\ months[c] = "none"
      /\ months' = [months EXCEPT ![c] = status]
      /\ tries' = [tries EXCEPT ![c] = 1]
  <2>1. months[c] = "none"
    BY DEF months
  <2>2. /\ payment'[c].status = status /\ payment'[c].count = 1
        /\ \A d \in PeriodKey : d # c => payment'[d] = payment[d]
    BY DEF TypeOK
  <2> QED
    BY <2>1, <2>2, MonthWritten
<1>6. CASE status = "pending"
  <2>1. UNCHANGED credited
    BY <1>2, <1>3, <1>6, CreditsKept
  <2>2. Promise!Open(c)
    BY <1>5, <1>6, <2>1 DEF Promise!Open
  <2> QED
    BY <1>4, <2>2 DEF Seen, Promise!Progress
<1>7. CASE status = "paid"
  <2>1. credited' = credited \cup {<<c, 1>>}
    BY <1>1, <1>3, <1>7, CreditsGrow
  <2>2. <<c, 1>> \in approved'
    BY <1>1, <1>3, <1>7 DEF approved, Approved
  <2>3. Promise!OpenPaid(c)
    BY <1>5, <1>7, <2>1, <2>2 DEF Promise!OpenPaid
  <2> QED
    BY <1>4, <2>3 DEF Seen, Promise!Progress
<1> QED
  BY <1>6, <1>7

(* One number more.                                                        *)
LEMMA SeenTrying ==
  ASSUME TypeOK, LedgerInv, NEW c \in PeriodKey, payment[c].status # "none",
         NEW n \in Attempts, n = payment[c].count + 1,
         payment' = [payment EXCEPT ![c].count = n],
         Filed,
         \A k \in Key : attempt'[k].result = "paid" <=> attempt[k].result = "paid"
  PROVE  Seen
<1>1. /\ payment'[c].status = payment[c].status /\ payment'[c].count = n
      /\ \A d \in PeriodKey : d # c => payment'[d] = payment[d]
  BY DEF TypeOK, PaymentRow
<1>2. months' = [months EXCEPT ![c] = payment[c].status] /\ tries' = [tries EXCEPT ![c] = n]
  BY <1>1, MonthWritten
<1>3. months[c] = payment[c].status /\ tries[c] = payment[c].count
  BY DEF months, tries
<1>4. UNCHANGED months
  BY <1>2, <1>3 DEF months
<1>5. tries' = [tries EXCEPT ![c] = @ + 1] /\ tries[c] < MaxAttempts
  BY <1>2, <1>3, Rows DEF Attempts
<1>6. UNCHANGED credited
  BY CreditsKept
<1>7. Promise!TryAgain(c)
  BY <1>3, <1>4, <1>5, <1>6 DEF Promise!TryAgain
<1> QED
  BY <1>7 DEF Seen, Promise!Progress

(* An approved order pays its month.                                       *)
LEMMA SeenPaying ==
  ASSUME TypeOK, LedgerInv, NEW k \in Key, attempt[k].result = "pending", Approved(k), MarkPaid(k)
  PROVE  Seen
<1> DEFINE c == PeriodOf(k)
           n == k[3]
<1>1. c \in PeriodKey /\ n \in Attempts /\ k = AttemptKey(c, n)
  BY KeyTypes, KeyParts
<1>2. /\ attempt'[k].result = "paid"
      /\ attempt'[k].real = attempt[k].real
      /\ \A l \in Key : l # k => attempt'[l] = attempt[l]
  BY DEF MarkPaid, TypeOK, AttemptRow
<1>3. Filed
  BY <1>2 DEF Filed
<1>4. /\ payment'[c].status = "paid" /\ payment'[c].count = payment[c].count
      /\ \A d \in PeriodKey : d # c => payment'[d] = payment[d]
  BY <1>1 DEF MarkPaid, TypeOK, PaymentRow
<1> HIDE DEF c, n
<1>5. months' = [months EXCEPT ![c] = "paid"] /\ tries' = [tries EXCEPT ![c] = payment[c].count]
  BY <1>1, <1>4, MonthWritten
<1>6. UNCHANGED tries
  BY <1>1, <1>5 DEF tries
<1>7. credited' = credited \cup {<<c, n>>}
  BY <1>1, <1>2, CreditsGrow
<1>8. <<c, n>> \in approved \ credited
  BY <1>1 DEF approved, credited
<1>9. n <= tries[c]
  BY <1>1 DEF LedgerInv, Tables, PeriodSound, tries
<1>10. Promise!Credit(c, n)
  BY <1>5, <1>6, <1>7, <1>8, <1>9 DEF Promise!Credit
<1> QED
  BY <1>1, <1>3, <1>10 DEF Seen, Promise!Progress, Attempts

(* The end of the ladder; a month that has failed already is left as it is.*)
LEMMA SeenFailing ==
  ASSUME TypeOK, LedgerInv, NEW w \in Workers, NEW r \in job[w].row, CommitFailPeriod(w, r)
  PROVE  Seen
<1> DEFINE c == r.at
           k == AttemptKey(c, r.count)
<1>1. c \in PeriodKey /\ r.count \in Nat /\ payment[c].status \in {"pending", "failed"}
  BY JobRows DEF CommitFailPeriod, LedgerInv, Held, Informed
<1>2. r.count \in Attempts
  BY <1>1, Rows, Counts DEF LedgerInv, Copies, Follows, Attempts
<1>3. k \in Key /\ attempt[k] \in AttemptRow
  BY <1>1, <1>2, Rows
<1>4. attempt' = [attempt EXCEPT ![k].result = IF @ = "pending" THEN "expired" ELSE @]
  BY DEF CommitFailPeriod
<1>5. /\ \A l \in Key : l # k => attempt'[l] = attempt[l]
      /\ attempt'[k].real = attempt[k].real
      /\ attempt'[k].result = IF attempt[k].result = "pending" THEN "expired" ELSE attempt[k].result
  BY <1>3, <1>4 DEF TypeOK, AttemptRow
<1>6. Filed
  BY <1>5 DEF Filed
<1>7. UNCHANGED credited
  BY <1>5, CreditsKept
<1>8. /\ payment'[c].status = "failed" /\ payment'[c].count = payment[c].count
      /\ \A d \in PeriodKey : d # c => payment'[d] = payment[d]
  BY <1>1 DEF CommitFailPeriod, TypeOK, PaymentRow
<1> HIDE DEF c
<1>9. months' = [months EXCEPT ![c] = "failed"] /\ tries' = [tries EXCEPT ![c] = payment[c].count]
  BY <1>1, <1>8, MonthWritten
<1>10. months[c] = payment[c].status
  BY <1>1 DEF months
<1>11. UNCHANGED tries
  BY <1>1, <1>9 DEF tries
<1>12. CASE payment[c].status = "pending"
  <2>1. Promise!Fail(c)
    BY <1>7, <1>9, <1>10, <1>11, <1>12 DEF Promise!Fail
  <2> QED
    BY <1>1, <1>6, <2>1 DEF Seen, Promise!Progress
<1>13. CASE payment[c].status = "failed"
  <2>1. UNCHANGED months
    BY <1>1, <1>9, <1>13 DEF months
  <2> QED
    BY <1>6, <1>7, <1>11, <2>1 DEF Seen
<1> QED
  BY <1>1, <1>12, <1>13

(* The walk's next attempt, unless its number is taken.                    *)
LEMMA SeenWalking ==
  ASSUME TypeOK, LedgerInv, NEW w \in Workers, NEW r \in job[w].row, ExpireAndCreateNextAttempt(w, r)
  PROVE  Seen
<1> DEFINE c == r.at
           old == AttemptKey(c, r.count)
           new == AttemptKey(c, r.count + 1)
<1>1. c \in PeriodKey /\ r.count \in Nat /\ r.reminders \in Nat /\ Follows(r)
  BY JobRows DEF LedgerInv, Copies, OpenRow
<1>2. r.count \in Attempts /\ r.count + 1 \in Attempts
  <2>1. r.count \in {1, 2}
    BY <1>1, LadderWalks DEF ExpireAndCreateNextAttempt, Walking
  <2> QED
    BY <2>1, ConstantTypes DEF Attempts
<1>3. old \in Key /\ new \in Key /\ old # new /\ attempt[old] \in AttemptRow
  BY <1>1, <1>2, Rows, KeyParts
<1>4. CASE attempt[new].result = "none"
  <2>1. /\ attempt' = [attempt EXCEPT
             ![old].result = IF @ = "pending" THEN "expired" ELSE @,
             ![new] = [result |-> "pending", real |-> FALSE]]
        /\ payment' = [payment EXCEPT ![c].count = r.count + 1]
        /\ charge' = charge
    BY <1>4 DEF ExpireAndCreateNextAttempt
  <2>2. payment[c].count = r.count
    BY <1>1, <1>2, <1>4, <2>1, TablesNext DEF Follows, LedgerInv
  <2>3. payment[c].status # "none"
    BY <1>1, <2>2, Rows DEF LedgerInv, Tables, PeriodSound, Follows
  <2>4. /\ \A l \in Key : l # old /\ l # new => attempt'[l] = attempt[l]
        /\ attempt'[new].result = "pending"
        /\ attempt'[old].real = attempt[old].real
        /\ attempt'[old].result = IF attempt[old].result = "pending" THEN "expired" ELSE attempt[old].result
    <3> HIDE DEF old, new
    <3> QED
      BY <1>3, <2>1 DEF TypeOK, AttemptRow
  <2> HIDE DEF c, old, new
  <2>5. Filed
    BY <1>4, <2>4 DEF Filed
  <2>6. \A k \in Key : attempt'[k].result = "paid" <=> attempt[k].result = "paid"
    BY <1>4, <2>4
  <2> QED
    BY <1>1, <1>2, <2>1, <2>2, <2>3, <2>5, <2>6, SeenTrying
<1>5. CASE attempt[new].result # "none"
  BY <1>5, SeenResting DEF ExpireAndCreateNextAttempt
<1> QED
  BY <1>4, <1>5

LEMMA SeenStep ==
  ASSUME TypeOK, LedgerInv, [Next]_vars
  PROVE  Seen
<1>1. CASE UNCHANGED <<payment, attempt>>
  BY <1>1, SeenResting
<1>2. ASSUME NEW f \in http.first, RecordFirstPayment(f) PROVE Seen
  <2> DEFINE c == <<f.s, BillingPeriod(f.day)>>
             status == IF f.status = "approved" THEN "paid" ELSE "pending"
  <2>1. f.s \in Sponsorships /\ f.day \in Days /\ f.day \in Nat
    BY ConstantTypes DEF TypeOK, Requests, FirstCharge
  <2>2. c \in PeriodKey /\ AttemptKey(c, 1) = <<f.s, BillingPeriod(f.day), 1>>
    BY <2>1, CalendarTypes DEF PeriodKey, AttemptKey
  <2>3. CASE payment[c].status = "none"
    <3>1. /\ payment' = [payment EXCEPT ![c] =
                [status |-> status, startedAt |-> f.day, count |-> 1, reminders |-> 0]]
          /\ attempt' = [attempt EXCEPT ![AttemptKey(c, 1)] = [result |-> status, real |-> TRUE]]
          /\ charge' = charge
      BY <1>2, <2>2, <2>3 DEF RecordFirstPayment
    <3>2. status \in {"pending", "paid"} /\ (status = "paid" => charge[AttemptKey(c, 1)] = "approved")
      BY <2>2 DEF LedgerInv, FirstOrders
    <3> HIDE DEF c, status
    <3> QED
      BY <2>1, <2>2, <2>3, <3>1, <3>2, SeenOpening
  <2>4. CASE payment[c].status # "none"
    BY <1>1, <1>2, <2>4 DEF RecordFirstPayment
  <2> QED
    BY <2>3, <2>4
<1>3. ASSUME NEW k \in http.retried, RecordRetry(k) PROVE Seen
  <2>1. k \in Key /\ PeriodOf(k) \in PeriodKey /\ k[3] \in Attempts /\ Appends(k)
    BY KeyTypes DEF TypeOK, Requests, LedgerInv, Retries
  <2>2. CASE attempt[k].result = "none"
    <3>1. /\ attempt' = [attempt EXCEPT ![k] = [result |-> "pending", real |-> TRUE]]
          /\ payment' = [payment EXCEPT ![PeriodOf(k)].count = k[3]]
          /\ charge' = charge
      BY <1>3, <2>2 DEF RecordRetry
    <3>2. k[3] = payment[PeriodOf(k)].count + 1 /\ payment[PeriodOf(k)].status # "none"
      BY <2>1, <2>2, <3>1, TablesRetry DEF Appends, LedgerInv
    <3>3. /\ \A l \in Key : l # k => attempt'[l] = attempt[l]
          /\ attempt'[k].result = "pending"
      BY <2>1, <3>1 DEF TypeOK
    <3>4. Filed /\ \A l \in Key : attempt'[l].result = "paid" <=> attempt[l].result = "paid"
      BY <2>2, <3>3 DEF Filed
    <3> QED
      BY <2>1, <3>1, <3>2, <3>4, SeenTrying
  <2>3. CASE attempt[k].result # "none"
    BY <1>1, <1>3, <2>3 DEF RecordRetry
  <2> QED
    BY <2>2, <2>3
<1>4. ASSUME NEW w \in Workers, NEW s \in job[w].due, OpenPeriodFor(w, s) PROVE Seen
  <2> DEFINE c == <<s, BillingPeriod(today)>>
  <2>1. s \in Sponsorships /\ today \in Days /\ today \in Nat /\ c \in PeriodKey
        /\ AttemptKey(c, 1) = <<s, BillingPeriod(today), 1>>
    BY JobRows, CalendarTypes, ConstantTypes DEF TypeOK, Job, PeriodKey, AttemptKey
  <2>2. CASE payment[c].status = "none"
    <3>1. /\ payment' = [payment EXCEPT ![c] =
                [status |-> "pending", startedAt |-> today, count |-> 1, reminders |-> 0]]
          /\ attempt' = [attempt EXCEPT ![AttemptKey(c, 1)] = [result |-> "pending", real |-> FALSE]]
          /\ charge' = charge
      BY <1>4, <2>1, <2>2 DEF OpenPeriodFor
    <3> HIDE DEF c
    <3> QED
      BY <2>1, <2>2, <3>1, SeenOpening
  <2>3. CASE payment[c].status # "none"
    BY <1>1, <1>4, <2>3 DEF OpenPeriodFor
  <2> QED
    BY <2>2, <2>3
<1>5. ASSUME NEW w \in Workers, NEW r \in job[w].row, SendReminder(w, r) PROVE Seen
  <2>1. /\ \A c \in PeriodKey : /\ payment'[c].status = payment[c].status
                                /\ payment'[c].count = payment[c].count
        /\ UNCHANGED attempt
    BY <1>5, JobRows DEF SendReminder, TypeOK, PaymentRow
  <2> QED
    BY <2>1, SeenResting
<1>6. ASSUME NEW w \in Workers, NEW k \in job[w].polls, PollApproved(w, k) PROVE Seen
  <2>1. k \in Key /\ Approved(k)
    BY <1>6, JobRows DEF PollApproved
  <2>2. \/ UNCHANGED <<payment, attempt>>
        \/ MarkPaid(k) /\ attempt[k].result = "pending"
    BY <1>6 DEF PollApproved
  <2> QED
    BY <1>1, <2>1, <2>2, SeenPaying
<1>7. ASSUME NEW w \in Workers, NEW k \in job[w].poll, CommitReactivation(w, k) PROVE Seen
  <2>1. k \in Key /\ attempt[k].result = "pending" /\ Approved(k) /\ MarkPaid(k)
    BY <1>7, JobRows DEF CommitReactivation, LedgerInv, Held, Informed
  <2> QED
    BY <2>1, SeenPaying
<1>8. CASE (\E s \in Sponsorships : Subscribe(s)) \/ (\E t \in http.transitions : CommitTransition(t))
  BY <1>1, <1>8 DEF Subscribe, CommitTransition
<1> QED
  BY <1>1, <1>2, <1>3, <1>4, <1>5, <1>6, <1>7, <1>8, SeenFailing, SeenWalking, LedgerSteps

LEMMA PromiseStep ==
  ASSUME TypeOK, LedgerInv, [Next]_vars
  PROVE  Promise!Next
<1>1. Seen /\ ApprovalStays
  BY SeenStep, ApprovalKept
<1>2. approved \subseteq approved' /\ approved' \subseteq Promise!Orders
  BY <1>1, ApprovedGrow DEF Seen
<1> QED
  BY <1>1, <1>2 DEF Seen, Promise!Next

LEMMA PromiseInit == Init => Promise!Init
<1> SUFFICES ASSUME Init PROVE Promise!Init
  OBVIOUS
<1>1. \A o \in PeriodKey \X Attempts : AttemptKey(o[1], o[2]) \in Key
  BY KeyTypes
<1>2. months = [c \in PeriodKey |-> "none"] /\ tries = [c \in PeriodKey |-> 0]
  BY DEF Init, months, tries
<1>3. approved = {} /\ credited = {}
  BY <1>1 DEF Init, approved, credited
<1> QED
  BY <1>2, <1>3 DEF Promise!Init

(* Whatever scans, polls, requests, crashes and gateway answers overlap,   *)
(* the tables show months that go forward, attempts numbered one by one,   *)
(* and approved orders credited once.                                      *)
THEOREM ImplementsPromise == Spec => KeepsBillingPromise
<1>1. Init => Promise!Init
  BY PromiseInit
<1>2. TypeOK /\ LedgerInv /\ [Next]_vars => [Promise!Next]_<<months, tries, approved, credited>>
  BY PromiseStep
<1> QED
  BY <1>1, <1>2, LedgerAlways, PTL DEF Spec, KeepsBillingPromise, Promise!Spec

(***************************************************************************)
(* With one worker the copies of a scan never are behind an open period,   *)
(* since nobody else walks the ladder.                                     *)
(***************************************************************************)
OnRung(count, reminders) == \E r \in Rungs : r.count = count /\ r.reminders = reminders

InStep(r) ==
  payment[r.at].status = "pending" =>
    r.count = payment[r.at].count /\ r.reminders = payment[r.at].reminders

LadderInv ==
  /\ OnLadder
  /\ \A w \in Workers :
       /\ \A r \in job[w].rows \cup job[w].row : InStep(r)
       /\ \A r, q \in job[w].rows : r.at = q.at => r = q
       /\ \A r \in job[w].rows, q \in job[w].row : r.at # q.at

(* A row is taken after the periods have been opened.                      *)
OpeningHoldsNoRow == \A w \in Workers : job[w].stage = "opening" => job[w].row = {}

LEMMA OpeningHoldsNoRowKept ==
  ASSUME TypeOK, OpeningHoldsNoRow, [Next]_vars
  PROVE  OpeningHoldsNoRow'
<1> USE DEF OpeningHoldsNoRow
<1>1. CASE UNCHANGED job
  BY <1>1
<1>2. CASE Crash
  BY <1>2 DEF Crash, NoJob
<1>3. ASSUME NEW w \in Workers, ScanStep(w) \/ PollStep(w) PROVE OpeningHoldsNoRow'
  <2>1. PICK j : job' = [job EXCEPT ![w] = j]
    BY <1>3 DEF ScanStep, PollStep, StartScan, StartAdvance, FinishScan, OpenPeriodFor, TakeRow,
       SendReminder, ExpireAndCreateNextAttempt, BeginFailPeriod, CommitFailPeriod, FinishRow,
       StartPoll, FinishPoll, PollApproved, GatewayOutage, CommitReactivation, ReactivationRefused
  <2>2. job[w] \in Job /\ job'[w] = j /\ \A v \in Workers \ {w} : job'[v] = job[v]
    BY <2>1 DEF TypeOK
  <2> DEFINE Kept == j.stage = "opening" => j.row = {}
  <2>3. job[w].stage = "opening" => job[w].row = {}
    OBVIOUS
  <2>4. CASE StartScan(w) \/ StartPoll(w)
    BY <2>2, <2>4 DEF StartScan, StartPoll, NoJob, TypeOK
  <2>5. CASE StartAdvance(w) \/ FinishScan(w) \/ FinishPoll(w)
    BY <2>2, <2>5 DEF StartAdvance, FinishScan, FinishPoll, Job, NoJob, TypeOK
  <2>6. ASSUME NEW s \in job[w].due, OpenPeriodFor(w, s) PROVE Kept
    BY <2>2, <2>3, <2>6 DEF OpenPeriodFor, Job, TypeOK
  <2>7. ASSUME NEW r \in job[w].rows, TakeRow(w, r) PROVE Kept
    BY <2>2, <2>7 DEF TakeRow, Job, TypeOK
  <2>8. ASSUME NEW r \in job[w].row,
               SendReminder(w, r) \/ ExpireAndCreateNextAttempt(w, r) \/ BeginFailPeriod(w, r)
                 \/ CommitFailPeriod(w, r) \/ FinishRow(w, r)
        PROVE  Kept
    BY <2>2, <2>8 DEF SendReminder, ExpireAndCreateNextAttempt, Walking, BeginFailPeriod,
       CommitFailPeriod, FinishRow, Job, NoJob, TypeOK
  <2>9. ASSUME NEW k \in job[w].polls, PollApproved(w, k) \/ GatewayOutage(w, k) PROVE Kept
    BY <2>2, <2>9 DEF PollApproved, GatewayOutage, Job, TypeOK
  <2>10. ASSUME NEW k \in job[w].poll, CommitReactivation(w, k) \/ ReactivationRefused(w, k)
         PROVE  Kept
    BY <2>2, <2>10 DEF CommitReactivation, ReactivationRefused, Job, NoJob, TypeOK
  <2>11. Kept
    BY <1>3, <2>4, <2>5, <2>6, <2>7, <2>8, <2>9, <2>10, <2>2 DEF ScanStep, PollStep
  <2> QED
    BY <2>2, <2>11
<1> QED
  BY <1>1, <1>2, <1>3 DEF Next, SponsorStep, OrganizationStep, TransitionStep, GatewayStep,
     GatewaySettles, NextDay, ReadTransition, CommitTransition, Subscribe, FirstChargeAnswered,
     FirstChargeThrows, FirstChargeDeclined, RecordFirstPayment, RetryPayment,
     RetryChargeAnswered, RetryChargeThrows, RecordRetry, vars

LEMMA RungsFollow ==
  ASSUME NEW count, NEW reminders, NEW elapsed
  PROVE  /\ OnRung(1, 0)
         /\ "remind" \in NextLadderAction(count, reminders, elapsed) => OnRung(count, reminders + 1)
         /\ "next" \in NextLadderAction(count, reminders, elapsed) => OnRung(count + 1, reminders)
<1>1. /\ OnRung(1, 0) /\ OnRung(1, 1) /\ OnRung(2, 1) /\ OnRung(2, 2) /\ OnRung(3, 2) /\ OnRung(3, 3)
  BY DEF OnRung, Rungs
<1>2. "remind" \in NextLadderAction(count, reminders, elapsed) =>
        <<count, reminders>> \in {<<1, 0>>, <<2, 1>>, <<3, 2>>}
  BY DEF NextLadderAction, Rungs
<1>3. "next" \in NextLadderAction(count, reminders, elapsed) =>
        <<count, reminders>> \in {<<1, 1>>, <<2, 2>>}
  BY DEF NextLadderAction, Rungs
<1>4. 0 + 1 = 1 /\ 1 + 1 = 2 /\ 2 + 1 = 3
  OBVIOUS
<1> QED
  BY <1>1, <1>2, <1>3, <1>4

(* A step that walks no period.                                            *)
LEMMA LadderRests ==
  ASSUME TypeOK, LedgerInv, LadderInv,
         \A c \in PeriodKey : payment'[c].status = "pending" =>
           \/ /\ payment[c].status = "pending" /\ payment'[c].count = payment[c].count
              /\ payment'[c].reminders = payment[c].reminders
           \/ payment[c].status = "none" /\ payment'[c].count = 1 /\ payment'[c].reminders = 0,
         \A w \in Workers : job'[w].rows \subseteq job[w].rows /\ job'[w].row \subseteq job[w].row
  PROVE  LadderInv'
<1>1. OnLadder'
  BY RungsFollow DEF LadderInv, OnLadder, OnRung
<1>2. ASSUME NEW w \in Workers, NEW r \in job'[w].rows \cup job'[w].row PROVE InStep(r)'
  <2>1. r \in job[w].rows \cup job[w].row
    OBVIOUS
  <2>2. r.at \in PeriodKey /\ r.count \in Nat /\ InStep(r) /\ Follows(r)
    BY <2>1, JobRows DEF LadderInv, LedgerInv, Copies
  <2>3. payment[r.at].status # "none"
    BY <2>2, Counts DEF LedgerInv, Tables, PeriodSound, Follows
  <2> QED
    BY <2>2, <2>3 DEF InStep
<1>3. \A w \in Workers :
        /\ \A r, q \in job'[w].rows : r.at = q.at => r = q
        /\ \A r \in job'[w].rows, q \in job'[w].row : r.at # q.at
  BY DEF LadderInv
<1> QED
  BY <1>1, <1>2, <1>3 DEF LadderInv

(* The only worker walks the row it holds from r to q.                     *)
LEMMA LadderWalked ==
  ASSUME TypeOK, TypeOK', LedgerInv, LadderInv, \A v, w \in Workers : v = w,
         NEW w \in Workers, NEW r \in job[w].row, NEW q, q.at = r.at,
         job'[w].rows = job[w].rows, job'[w].row = {q},
         \A c \in PeriodKey : c # r.at => payment'[c] = payment[c],
         payment'[r.at].status = payment[r.at].status,
         payment[r.at].status = "pending" =>
           /\ OnRung(q.count, q.reminders)
           /\ q.count = payment'[r.at].count /\ q.reminders = payment'[r.at].reminders
  PROVE  LadderInv'
<1>0. r.at \in PeriodKey
  BY JobRows
<1>1. OnLadder'
  BY <1>0 DEF LadderInv, OnLadder, OnRung
<1>2. InStep(q)'
  BY <1>0 DEF InStep
<1>3. ASSUME NEW x \in job[w].rows PROVE InStep(x)' /\ x.at # q.at
  <2>1. x.at \in PeriodKey /\ x.at # r.at /\ InStep(x)
    BY JobRows DEF LadderInv
  <2> QED
    BY <2>1 DEF InStep
<1>4. \A v \in Workers : \A x \in job'[v].rows \cup job'[v].row : InStep(x)'
  BY <1>2, <1>3
<1>5. \A v \in Workers :
        /\ \A x, y \in job'[v].rows : x.at = y.at => x = y
        /\ \A x \in job'[v].rows, y \in job'[v].row : x.at # y.at
  BY <1>3 DEF LadderInv
<1> QED
  BY <1>1, <1>4, <1>5 DEF LadderInv

LEMMA LadderInvKept ==
  ASSUME \A v, w \in Workers : v = w, TypeOK, LedgerInv, OpeningHoldsNoRow, LadderInv, [Next]_vars
  PROVE  LadderInv'
<1>t. TypeOK'
  BY StepType
<1>s. ASSUME UNCHANGED payment,
             \A w \in Workers : job'[w].rows \subseteq job[w].rows /\ job'[w].row \subseteq job[w].row
      PROVE  LadderInv'
  BY <1>s, LadderRests
<1>n. NoJob.rows = {} /\ NoJob.row = {}
  BY DEF NoJob
<1>1. CASE SponsorStep
  <2>1. ASSUME NEW s \in Sponsorships,
               Subscribe(s) \/ FirstChargeAnswered(s) \/ FirstChargeThrows(s) \/ RetryPayment(s)
        PROVE  LadderInv'
    BY <2>1, <1>s DEF Subscribe, FirstChargeAnswered, FirstChargeThrows, RetryPayment
  <2>2. ASSUME NEW f \in http.first, FirstChargeDeclined(f) PROVE LadderInv'
    BY <2>2, <1>s DEF FirstChargeDeclined
  <2>3. ASSUME NEW f \in http.first, RecordFirstPayment(f) PROVE LadderInv'
    BY <2>3, LadderRests DEF RecordFirstPayment, TypeOK
  <2>4. ASSUME NEW k \in http.retrying, RetryChargeAnswered(k) \/ RetryChargeThrows(k)
        PROVE  LadderInv'
    BY <2>4, <1>s DEF RetryChargeAnswered, RetryChargeThrows
  <2>5. ASSUME NEW k \in http.retried, RecordRetry(k) PROVE LadderInv'
    <3>1. payment[PeriodOf(k)].status \in {"failed", "paid"}
      BY DEF LedgerInv, Retries, Appends
    <3> QED
      BY <2>5, <3>1, LadderRests DEF RecordRetry, TypeOK, PaymentRow
  <2> QED
    BY <1>1, <2>1, <2>2, <2>3, <2>4, <2>5 DEF SponsorStep
<1>2. CASE OrganizationStep \/ TransitionStep \/ GatewayStep \/ NextDay \/ UNCHANGED vars
  BY <1>2, <1>s DEF OrganizationStep, ReadTransition, TransitionStep, CommitTransition,
     GatewayStep, GatewaySettles, NextDay, vars
<1>3. CASE Crash
  BY <1>3, <1>n, <1>s DEF Crash
<1>4. ASSUME NEW w \in Workers, ScanStep(w) PROVE LadderInv'
  <2> DEFINE J == job[w]
  <2>0. J \in Job /\ \A r, q \in J.row : r = q
    BY JobRows DEF LedgerInv, OneRow
  <2>a. ASSUME NEW j, job' = [job EXCEPT ![w] = j], j.rows \subseteq J.rows, j.row \subseteq J.row
        PROVE  \A v \in Workers : job'[v].rows \subseteq job[v].rows /\ job'[v].row \subseteq job[v].row
    BY <2>a DEF TypeOK
  <2>b. ASSUME NEW r \in J.row
        PROVE  /\ r \in OpenRow /\ r.at \in PeriodKey /\ r.count \in Nat /\ r.reminders \in Nat
               /\ InStep(r)
    BY <2>0 DEF Job, OpenRow, LadderInv
  <2>1. CASE StartScan(w)
    <3> DEFINE due == {s \in Sponsorships : /\ sponsorship[s].status = "active"
                                            /\ sponsorship[s].nextBilling <= today}
               j == [NoJob EXCEPT !.stage = "opening", !.due = due]
    <3>1. job' = [job EXCEPT ![w] = j]
      BY <2>1 DEF StartScan, TypeOK
    <3>2. j.rows = {} /\ j.row = {}
      BY DEF NoJob
    <3> HIDE DEF j
    <3> QED
      BY <2>1, <2>a, <3>1, <3>2, <1>s DEF StartScan
  <2>2. CASE StartAdvance(w)
    <3> DEFINE open == {[at |-> c, count |-> payment[c].count, reminders |-> payment[c].reminders] :
                          c \in {x \in PeriodKey : payment[x].status = "pending"}}
               j == [J EXCEPT !.stage = "advancing", !.rows = open]
    <3>1. job' = [job EXCEPT ![w] = j] /\ payment' = payment
      BY <2>2 DEF StartAdvance, TypeOK
    <3>2. j.rows = open /\ j.row = J.row
      BY <2>0 DEF Job
    <3>3. job'[w] = j
      BY <3>1 DEF TypeOK
    <3>4. (\A r \in open : InStep(r)') /\ \A r, q \in open : r.at = q.at => r = q
      BY <3>1 DEF InStep
    <3>5. J.row = {}
      BY <2>2 DEF StartAdvance, OpeningHoldsNoRow
    <3> QED
      BY <3>1, <3>2, <3>3, <3>4, <3>5 DEF LadderInv, OnLadder
  <2>3. CASE FinishScan(w)
    BY <2>3, <2>a, <1>n, <1>s DEF FinishScan
  <2>4. ASSUME NEW s \in J.due, OpenPeriodFor(w, s) PROVE LadderInv'
    <3> DEFINE j == [J EXCEPT !.due = @ \ {s}]
    <3>1. job' = [job EXCEPT ![w] = j] /\ j.rows = J.rows /\ j.row = J.row
      BY <2>4, <2>0 DEF OpenPeriodFor, Job, TypeOK
    <3>2. \A v \in Workers : job'[v].rows \subseteq job[v].rows /\ job'[v].row \subseteq job[v].row
      BY <3>1, <2>a
    <3> QED
      BY <2>4, <3>2, LadderRests DEF OpenPeriodFor, TypeOK
  <2>5. ASSUME NEW r \in J.rows, TakeRow(w, r) PROVE LadderInv'
    <3> DEFINE j == [J EXCEPT !.rows = @ \ {r}, !.row = {r}]
    <3>1. job' = [job EXCEPT ![w] = j] /\ payment' = payment
      BY <2>5 DEF TakeRow, TypeOK
    <3>2. job'[w].rows = J.rows \ {r} /\ job'[w].row = {r}
      BY <3>1, <2>0 DEF Job, TypeOK
    <3> QED
      BY <3>1, <3>2 DEF LadderInv, OnLadder, InStep
  <2>6. ASSUME NEW r \in J.row, SendReminder(w, r) PROVE LadderInv'
    <3> DEFINE q == [r EXCEPT !.reminders = @ + 1]
               j == [J EXCEPT !.row = {q}]
    <3>1. /\ job' = [job EXCEPT ![w] = j]
          /\ payment' = [payment EXCEPT ![r.at].reminders = @ + 1]
          /\ "remind" \in NextLadderAction(r.count, r.reminders, Elapsed(r.at))
      BY <2>6 DEF SendReminder, Walking, TypeOK
    <3>2. job'[w].rows = J.rows /\ job'[w].row = {q}
      BY <3>1, <2>0 DEF Job, TypeOK
    <3>3. q.at = r.at /\ q.count = r.count /\ q.reminders = r.reminders + 1
      BY <2>b DEF OpenRow
    <3>4. /\ payment'[r.at].status = payment[r.at].status
          /\ payment'[r.at].count = payment[r.at].count
          /\ payment'[r.at].reminders = payment[r.at].reminders + 1
          /\ \A c \in PeriodKey : c # r.at => payment'[c] = payment[c]
      BY <3>1, <2>b DEF TypeOK, PaymentRow
    <3>5. OnRung(q.count, q.reminders)
      BY <3>1, <3>3, RungsFollow
    <3>6. payment[r.at].status = "pending" =>
            q.count = payment'[r.at].count /\ q.reminders = payment'[r.at].reminders
      BY <2>b, <3>3, <3>4 DEF InStep
    <3> HIDE DEF q
    <3> QED
      BY <1>t, <3>2, <3>3, <3>4, <3>5, <3>6, LadderWalked
  <2>7. ASSUME NEW r \in J.row, ExpireAndCreateNextAttempt(w, r) PROVE LadderInv'
    <3>1. CASE attempt[AttemptKey(r.at, r.count + 1)].result # "none"
      BY <2>7, <3>1, <2>a, <1>n, <1>s DEF ExpireAndCreateNextAttempt
    <3>2. CASE attempt[AttemptKey(r.at, r.count + 1)].result = "none"
      <4> DEFINE q == [r EXCEPT !.count = @ + 1]
                 j == [J EXCEPT !.row = {q}]
      <4>1. /\ job' = [job EXCEPT ![w] = j]
            /\ payment' = [payment EXCEPT ![r.at].count = r.count + 1]
            /\ "next" \in NextLadderAction(r.count, r.reminders, Elapsed(r.at))
        BY <2>7, <3>2 DEF ExpireAndCreateNextAttempt, Walking, TypeOK
      <4>2. job'[w].rows = J.rows /\ job'[w].row = {q}
        BY <4>1, <2>0 DEF Job, TypeOK
      <4>3. q.at = r.at /\ q.count = r.count + 1 /\ q.reminders = r.reminders
        BY <2>b DEF OpenRow
      <4>4. /\ payment'[r.at].status = payment[r.at].status
            /\ payment'[r.at].count = r.count + 1
            /\ payment'[r.at].reminders = payment[r.at].reminders
            /\ \A c \in PeriodKey : c # r.at => payment'[c] = payment[c]
        BY <4>1, <2>b DEF TypeOK, PaymentRow
      <4>5. OnRung(q.count, q.reminders)
        BY <4>1, <4>3, RungsFollow
      <4>6. payment[r.at].status = "pending" =>
              q.count = payment'[r.at].count /\ q.reminders = payment'[r.at].reminders
        BY <2>b, <4>3, <4>4 DEF InStep
      <4> HIDE DEF q
      <4> QED
        BY <1>t, <4>2, <4>3, <4>4, <4>5, <4>6, LadderWalked
    <3> QED
      BY <3>1, <3>2
  <2>8. ASSUME NEW r \in J.row, BeginFailPeriod(w, r) PROVE LadderInv'
    <3>1. PICK j : job' = [job EXCEPT ![w] = j] /\ j \in {[J EXCEPT !.stage = "failing"], NoJob}
      BY <2>8 DEF BeginFailPeriod, TypeOK
    <3>2. j.rows \subseteq J.rows /\ j.row \subseteq J.row
      BY <3>1, <1>n, <2>0 DEF Job
    <3> QED
      BY <2>8, <2>a, <3>1, <3>2, <1>s DEF BeginFailPeriod
  <2>9. ASSUME NEW r \in J.row, CommitFailPeriod(w, r) PROVE LadderInv'
    <3>1. job' = [job EXCEPT ![w] = [J EXCEPT !.stage = "advancing", !.row = {}]]
      BY <2>9 DEF CommitFailPeriod, TypeOK
    <3>2. \A v \in Workers : job'[v].rows \subseteq job[v].rows /\ job'[v].row \subseteq job[v].row
      BY <3>1, <2>a, <2>0 DEF Job
    <3>3. payment' = [payment EXCEPT ![r.at].status = "failed"]
      BY <2>9 DEF CommitFailPeriod
    <3>4. \A c \in PeriodKey : payment'[c].status = "pending" => payment'[c] = payment[c]
      BY <3>3, <2>b DEF TypeOK, PaymentRow
    <3> QED
      BY <3>2, <3>4, LadderRests
  <2>10. ASSUME NEW r \in J.row, FinishRow(w, r) PROVE LadderInv'
    <3>1. job' = [job EXCEPT ![w] = [J EXCEPT !.row = {}]]
      BY <2>10 DEF FinishRow, TypeOK
    <3>2. \A v \in Workers : job'[v].rows \subseteq job[v].rows /\ job'[v].row \subseteq job[v].row
      BY <3>1, <2>a, <2>0 DEF Job
    <3> QED
      BY <2>10, <3>2, <1>s DEF FinishRow
  <2> QED
    BY <1>4, <2>1, <2>2, <2>3, <2>4, <2>5, <2>6, <2>7, <2>8, <2>9, <2>10 DEF ScanStep
<1>5. ASSUME NEW w \in Workers, PollStep(w) PROVE LadderInv'
  <2> DEFINE J == job[w]
  <2>0. J \in Job
    BY DEF TypeOK
  <2>a. ASSUME NEW j, job' = [job EXCEPT ![w] = j], j.rows \subseteq J.rows, j.row \subseteq J.row
        PROVE  \A v \in Workers : job'[v].rows \subseteq job[v].rows /\ job'[v].row \subseteq job[v].row
    BY <2>a DEF TypeOK
  <2>1. CASE StartPoll(w) \/ FinishPoll(w)
    <3>1. PICK j \in {[NoJob EXCEPT !.stage = "polling", !.polls = {k \in Key : attempt[k].result = "pending"}],
                     NoJob} : job' = [job EXCEPT ![w] = j]
      BY <2>1 DEF StartPoll, FinishPoll, TypeOK
    <3>2. j.rows = {} /\ j.row = {}
      BY <3>1, <1>n DEF NoJob
    <3> QED
      BY <2>1, <2>a, <3>1, <3>2, <1>s DEF StartPoll, FinishPoll
  <2>2. ASSUME NEW k \in J.polls, GatewayOutage(w, k) PROVE LadderInv'
    <3>1. job' = [job EXCEPT ![w] = [J EXCEPT !.polls = @ \ {k}]]
      BY <2>2 DEF GatewayOutage, TypeOK
    <3>2. \A v \in Workers : job'[v].rows \subseteq job[v].rows /\ job'[v].row \subseteq job[v].row
      BY <3>1, <2>a, <2>0 DEF Job
    <3> QED
      BY <2>2, <3>2, <1>s DEF GatewayOutage
  <2>3. ASSUME NEW k \in J.poll, ReactivationRefused(w, k) PROVE LadderInv'
    BY <2>3, <2>a, <1>n, <1>s DEF ReactivationRefused
  <2>4. ASSUME NEW k \in Key, payment' = [payment EXCEPT ![PeriodOf(k)].status = "paid"]
        PROVE  \A c \in PeriodKey : payment'[c].status = "pending" => payment'[c] = payment[c]
    BY <2>4, KeyParts DEF TypeOK, PaymentRow
  <2>5. ASSUME NEW k \in J.polls, PollApproved(w, k) PROVE LadderInv'
    <3>1. PICK j : /\ job' = [job EXCEPT ![w] = j]
                   /\ j \in {[J EXCEPT !.polls = @ \ {k}],
                             [J EXCEPT !.polls = @ \ {k}, !.poll = {k}, !.stage = "confirming"]}
      BY <2>5 DEF PollApproved, TypeOK
    <3>2. j.rows = J.rows /\ j.row = J.row
      BY <3>1, <2>0 DEF Job
    <3>3. \A v \in Workers : job'[v].rows \subseteq job[v].rows /\ job'[v].row \subseteq job[v].row
      BY <3>1, <3>2, <2>a
    <3>4. k \in Key
      BY <2>0 DEF Job
    <3>5. \A c \in PeriodKey : payment'[c].status = "pending" => payment'[c] = payment[c]
      BY <2>5, <2>4, <3>4 DEF PollApproved, MarkPaid
    <3> QED
      BY <3>3, <3>5, LadderRests
  <2>6. ASSUME NEW k \in J.poll, CommitReactivation(w, k) PROVE LadderInv'
    <3>1. job' = [job EXCEPT ![w] = [J EXCEPT !.stage = "polling", !.poll = {}]]
      BY <2>6 DEF CommitReactivation, TypeOK
    <3>2. \A v \in Workers : job'[v].rows \subseteq job[v].rows /\ job'[v].row \subseteq job[v].row
      BY <3>1, <2>a, <2>0 DEF Job
    <3>3. \A c \in PeriodKey : payment'[c].status = "pending" => payment'[c] = payment[c]
      BY <2>6, <2>4, <2>0 DEF CommitReactivation, MarkPaid, Job
    <3> QED
      BY <3>2, <3>3, LadderRests
  <2> QED
    BY <1>5, <2>1, <2>2, <2>3, <2>5, <2>6 DEF PollStep
<1> QED
  BY <1>1, <1>2, <1>3, <1>4, <1>5 DEF Next

(***************************************************************************)
(* An open period always stands on a rung, as long as one worker serves    *)
(* the queue: a scan that stops, and the next one, find it where the       *)
(* ladder left it.                                                         *)
(***************************************************************************)
THEOREM LadderNeverLost ==
  ASSUME \A v, w \in Workers : v = w
  PROVE  Spec => []OnLadder
<1>1. Init => OpeningHoldsNoRow /\ LadderInv
  BY DEF Init, OpeningHoldsNoRow, LadderInv, OnLadder, NoJob
<1>2. TypeOK /\ LedgerInv /\ OpeningHoldsNoRow /\ LadderInv /\ [Next]_vars
        => OpeningHoldsNoRow' /\ LadderInv'
  BY LadderInvKept, OpeningHoldsNoRowKept
<1>3. LadderInv => OnLadder
  BY DEF LadderInv
<1> QED
  BY <1>1, <1>2, <1>3, LedgerAlways, PTL DEF Spec
=============================================================================
