-------------------------- MODULE SponsorshipBilling --------------------------
(***************************************************************************)
(* Recurring billing of sponsorships (apadrinamientos).                    *)
(*                                                                         *)
(* Three kinds of process share the tables `sponsorships',                 *)
(* `sponsorship_payments' (one row per month) and                          *)
(* `sponsorship_payment_attempts':                                         *)
(*   - HTTP requests of sponsors (subscribe, "pagar de nuevo") and of the  *)
(*     organization (suspend, reactivate, cancel);                         *)
(*   - the daily scan, which opens the month's period of every due         *)
(*     sponsorship and then walks a ladder of reminders and attempts;      *)
(*   - the poller, which asks the payment gateway about pending attempts.  *)
(*                                                                         *)
(* One step is one database transaction, one gateway call, or one read     *)
(* whose result a later step uses.  Transactions run at READ COMMITTED: a  *)
(* row read without having been written may change before the commit.      *)
(***************************************************************************)
EXTENDS Integers, Sequences, FiniteSets

CONSTANTS
  Sponsorships,   \* the subscriptions that may be made
  Workers,        \* job workers on the sponsorship-billing queue, one job each
  Ladder,         \* the SPONSORSHIP_*_DAY settings, in days since a period opened
  MonthStart,     \* first day of each month, the last entry closing the calendar
  Days,           \* bound: the days on which anything happens
  MaxAttempts,    \* bound: attempts per period, sponsor retries included
  MaxInFlight,    \* bound: HTTP requests between two of their steps
  MaxFaults       \* bound: restarts of the API process and gateway outages

Periods  == 1 .. Len(MonthStart) - 1
Attempts == 1 .. MaxAttempts

LadderFields ==
  {"reminder1", "expire1", "reminder2", "expire2", "reminderFinal", "expire3"}

(* Every day belongs to a month; the ladder creates three attempts.  The   *)
(* settings are positive, but nothing in the code orders them.             *)
ASSUME BillingAssumption ==
  /\ MonthStart \in Seq(Nat)
  /\ Days \subseteq Nat
  /\ 0 \in Days
  /\ \A d \in Days : \E m \in Periods : MonthStart[m] <= d /\ d < MonthStart[m + 1]
  /\ Ladder \in [LadderFields -> Nat \ {0}]
  /\ MaxAttempts \in Nat /\ MaxAttempts >= 3
  /\ MaxInFlight \in Nat
  /\ MaxFaults \in Nat

VARIABLES
  today,        \* the day on every clock
  sponsorship,  \* table sponsorships, with the reason of the last suspension
  payment,      \* table sponsorship_payments
  attempt,      \* table sponsorship_payment_attempts
  charge,       \* the gateway's orders, by the idempotency key that made them
  http,         \* requests between two of their steps
  job,          \* the job each worker is running
  faults

vars == <<today, sponsorship, payment, attempt, charge, http, job, faults>>

(***************************************************************************)
(* Values                                                                  *)
(***************************************************************************)
SponsorshipStatus == {"none", "active", "suspended", "cancelled"}
SuspensionReason  == {"none", "billing", "organization"}
PaymentStatus     == {"none", "pending", "paid", "failed"}
AttemptResult     == {"none", "pending", "paid", "expired"}
ChargeStatus      == {"pending", "approved", "declined"}

(* A period of a sponsorship, and an attempt at it: the columns of the     *)
(* unique keys, and what buildAttemptIdempotencyKey is made of.            *)
PeriodKey == Sponsorships \X Periods
Key       == Sponsorships \X Periods \X Attempts
PeriodOf(k)      == <<k[1], k[2]>>
AttemptKey(c, n) == <<c[1], c[2], n>>

SponsorshipRow == [status : SponsorshipStatus, nextBilling : Nat, suspendedFor : SuspensionReason]
PaymentRow == [status : PaymentStatus, startedAt : Nat, count : 0 .. MaxAttempts, reminders : Nat]
AttemptRow == [result : AttemptResult, real : BOOLEAN]

(* Requests between two steps: waiting for the first charge, holding its   *)
(* answer, about to write a status, about to charge and record a retry.    *)
FirstCharge == [s : Sponsorships, day : Days, status : ChargeStatus]
Transition  == [s : Sponsorships, to : SponsorshipStatus]
Requests    == [subscribing : SUBSET Sponsorships, first : SUBSET FirstCharge,
                transitions : SUBSET Transition, retrying : SUBSET Key, retried : SUBSET Key]

(* A job holds the rows its queries returned and the one it is working on. *)
OpenRow == [at : PeriodKey, count : 0 .. MaxAttempts, reminders : Nat]
Stages  == {"idle", "opening", "advancing", "failing", "polling", "confirming"}
Job     == [stage : Stages, due : SUBSET Sponsorships, rows : SUBSET OpenRow,
            row : SUBSET OpenRow, polls : SUBSET Key, poll : SUBSET Key]

NoJob  == [stage |-> "idle", due |-> {}, rows |-> {}, row |-> {}, polls |-> {}, poll |-> {}]
Calm   == [subscribing |-> {}, first |-> {}, transitions |-> {}, retrying |-> {}, retried |-> {}]

(***************************************************************************)
(* Calendar.  A period is the month of the day it is opened on.  Adding a  *)
(* month keeps the day of the month, and setUTCMonth carries a day the     *)
(* next month does not have into the month after it.                       *)
(***************************************************************************)
BillingPeriod(d) == CHOOSE m \in Periods : MonthStart[m] <= d /\ d < MonthStart[m + 1]
AddMonth(d) == MonthStart[BillingPeriod(d) + 1] + (d - MonthStart[BillingPeriod(d)])

(***************************************************************************)
(* The ladder: the rung each (attempts, reminders) pair stands on, the day *)
(* it falls due and what is done then.                                     *)
(***************************************************************************)
Rungs ==
  { [count |-> 1, reminders |-> 0, day |-> Ladder["reminder1"],     act |-> "remind"],
    [count |-> 1, reminders |-> 1, day |-> Ladder["expire1"],       act |-> "next"],
    [count |-> 2, reminders |-> 1, day |-> Ladder["reminder2"],     act |-> "remind"],
    [count |-> 2, reminders |-> 2, day |-> Ladder["expire2"],       act |-> "next"],
    [count |-> 3, reminders |-> 2, day |-> Ladder["reminderFinal"], act |-> "remind"],
    [count |-> 3, reminders |-> 3, day |-> Ladder["expire3"],       act |-> "fail"] }

(* Mutant: a rung acts on its very day only, so that downtime skips it.    *)
NextLadderActionOnItsDay(count, reminders, elapsed) ==
  { r.act : r \in {x \in Rungs : x.count = count /\ x.reminders = reminders /\ elapsed = x.day} }

NextLadderAction(count, reminders, elapsed) ==
  { r.act : r \in {x \in Rungs : x.count = count /\ x.reminders = reminders /\ elapsed >= x.day} }

(* The state machine of a sponsorship's status; cancelled is terminal.     *)
CanTransition(from, to) ==
  <<from, to>> \in { <<"active", "suspended">>, <<"suspended", "active">>,
                     <<"active", "cancelled">>, <<"suspended", "cancelled">> }

(* Mutant: the trigger is missing.                                         *)
PaymentMayBecomeAnything(from, to) == {from, to} \subseteq PaymentStatus

(* What the trigger on sponsorship_payments lets a status become.          *)
PaymentMayBecome(from, to) ==
  from = to \/ <<from, to>> \in { <<"pending", "paid">>, <<"pending", "failed">>, <<"failed", "paid">> }

(* The transaction of this job has written the period's row, not committed.*)
Locked(c) ==
  \E w \in Workers :
    \/ job[w].stage = "failing" /\ \E r \in job[w].row : r.at = c
    \/ job[w].stage = "confirming" /\ \E k \in job[w].poll : PeriodOf(k) = c

InFlight == Cardinality(http.subscribing) + Cardinality(http.first)
              + Cardinality(http.transitions) + Cardinality(http.retrying)
              + Cardinality(http.retried)

Elapsed(c) == today - payment[c].startedAt

Init ==
  /\ today = 0
  /\ sponsorship = [s \in Sponsorships |->
                      [status |-> "none", nextBilling |-> 0, suspendedFor |-> "none"]]
  /\ payment = [c \in PeriodKey |->
                  [status |-> "none", startedAt |-> 0, count |-> 0, reminders |-> 0]]
  /\ attempt = [k \in Key |-> [result |-> "none", real |-> FALSE]]
  /\ charge = [k \in Key |-> "none"]
  /\ http = Calm
  /\ job = [w \in Workers |-> NoJob]
  /\ faults = 0

(***************************************************************************)
(* The sponsor subscribes: SponsorshipsService.subscribe.  The row commits *)
(* as active, the gateway is called outside any transaction, and a last    *)
(* transaction records the outcome.                                        *)
(***************************************************************************)
Subscribe(s) ==
  /\ sponsorship[s].status = "none"
  /\ InFlight < MaxInFlight
  /\ sponsorship' = [sponsorship EXCEPT ![s] =
                       [status |-> "active", nextBilling |-> today, suspendedFor |-> "none"]]
  /\ http' = [http EXCEPT !.subscribing = @ \cup {s}]
  /\ UNCHANGED <<today, payment, attempt, charge, job, faults>>

(* createCollection answers with the order's status.                       *)
FirstChargeAnswered(s) ==
  /\ s \in http.subscribing
  /\ \E status \in ChargeStatus :
       /\ charge' = [charge EXCEPT ![<<s, BillingPeriod(today), 1>>] = status]
       /\ http' = [http EXCEPT !.subscribing = @ \ {s},
                     !.first = @ \cup {[s |-> s, day |-> today, status |-> status]}]
  /\ UNCHANGED <<today, sponsorship, payment, attempt, job, faults>>

(* createCollection throws: no card token, a 4xx, or a timeout that may    *)
(* leave an order behind.  The request ends with an error.                 *)
FirstChargeThrows(s) ==
  /\ s \in http.subscribing
  /\ \/ UNCHANGED charge
     \/ \E status \in ChargeStatus : charge' = [charge EXCEPT ![<<s, BillingPeriod(today), 1>>] = status]
  /\ http' = [http EXCEPT !.subscribing = @ \ {s}]
  /\ UNCHANGED <<today, sponsorship, payment, attempt, job, faults>>

(* A declined first charge cancels the sponsorship: the status is read, and*)
(* written by CommitTransition.                                            *)
FirstChargeDeclined(f) ==
  /\ f \in http.first
  /\ f.status = "declined"
  /\ http' = [http EXCEPT !.first = @ \ {f},
                !.transitions = IF CanTransition(sponsorship[f.s].status, "cancelled")
                                  THEN @ \cup {[s |-> f.s, to |-> "cancelled"]} ELSE @]
  /\ UNCHANGED <<today, sponsorship, payment, attempt, charge, job, faults>>

(* Any other outcome opens the first period, unless the daily scan has     *)
(* opened it meanwhile: then the unique key on (sponsorship, period) fails *)
(* the whole transaction.                                                  *)
RecordFirstPayment(f) ==
  LET p == BillingPeriod(f.day)
      paid == f.status = "approved"
  IN
  /\ f \in http.first
  /\ f.status # "declined"
  /\ http' = [http EXCEPT !.first = @ \ {f}]
  /\ IF payment[<<f.s, p>>].status = "none"
       THEN /\ payment' = [payment EXCEPT ![<<f.s, p>>] =
                             [status |-> IF paid THEN "paid" ELSE "pending",
                              startedAt |-> f.day, count |-> 1, reminders |-> 0]]
            /\ attempt' = [attempt EXCEPT ![<<f.s, p, 1>>] =
                             [result |-> IF paid THEN "paid" ELSE "pending", real |-> TRUE]]
            /\ sponsorship' = [sponsorship EXCEPT ![f.s].nextBilling = AddMonth(f.day)]
       ELSE UNCHANGED <<sponsorship, payment, attempt>>
  /\ UNCHANGED <<today, charge, job, faults>>

(***************************************************************************)
(* The organization suspends, reactivates or cancels: transition() checks  *)
(* the status it read and updates the row by id alone.                     *)
(***************************************************************************)
ReadTransition(s, to) ==
  /\ InFlight < MaxInFlight
  /\ CanTransition(sponsorship[s].status, to)
  /\ http' = [http EXCEPT !.transitions = @ \cup {[s |-> s, to |-> to]}]
  /\ UNCHANGED <<today, sponsorship, payment, attempt, charge, job, faults>>

CommitTransition(t) ==
  /\ t \in http.transitions
  /\ http' = [http EXCEPT !.transitions = @ \ {t}]
  /\ sponsorship' = [sponsorship EXCEPT ![t.s].status = t.to,
                       ![t.s].suspendedFor = IF t.to = "suspended" THEN "organization" ELSE @]
  /\ UNCHANGED <<today, payment, attempt, charge, job, faults>>

(***************************************************************************)
(* The sponsor pays again: retryPayment, against the last failed period of *)
(* a sponsorship suspended for billing.                                    *)
(***************************************************************************)
FailedPeriods(s) == {p \in Periods : payment[<<s, p>>].status = "failed"}

RetryPayment(s) ==
  /\ InFlight < MaxInFlight
  /\ sponsorship[s].status = "suspended"
  /\ sponsorship[s].suspendedFor = "billing"
  /\ \E p \in FailedPeriods(s) :
       /\ \A q \in FailedPeriods(s) : q <= p
       /\ payment[<<s, p>>].count < MaxAttempts
       /\ http' = [http EXCEPT !.retrying = @ \cup {<<s, p, payment[<<s, p>>].count + 1>>}]
  /\ UNCHANGED <<today, sponsorship, payment, attempt, charge, job, faults>>

(* The gateway returns the order an idempotency key already made.          *)
RetryChargeAnswered(k) ==
  /\ k \in http.retrying
  /\ \E status \in ChargeStatus :
       charge' = [charge EXCEPT ![k] = IF @ = "none" THEN status ELSE @]
  /\ http' = [http EXCEPT !.retrying = @ \ {k}, !.retried = @ \cup {k}]
  /\ UNCHANGED <<today, sponsorship, payment, attempt, job, faults>>

RetryChargeThrows(k) ==
  /\ k \in http.retrying
  /\ \/ UNCHANGED charge
     \/ \E status \in ChargeStatus :
          charge' = [charge EXCEPT ![k] = IF @ = "none" THEN status ELSE @]
  /\ http' = [http EXCEPT !.retrying = @ \ {k}]
  /\ UNCHANGED <<today, sponsorship, payment, attempt, job, faults>>

(* Mutant: the new attempt is not counted.                                 *)
RecordRetryUncounted(k) ==
  /\ k \in http.retried
  /\ ~Locked(PeriodOf(k))
  /\ http' = [http EXCEPT !.retried = @ \ {k}]
  /\ attempt' = [attempt EXCEPT ![k] = IF @.result = "none" THEN [result |-> "pending", real |-> TRUE] ELSE @]
  /\ UNCHANGED <<today, sponsorship, payment, charge, job, faults>>

(* The attempt is recorded as pending whatever the gateway answered.  A    *)
(* concurrent retry that took the number first fails this one.             *)
RecordRetry(k) ==
  /\ k \in http.retried
  /\ ~Locked(PeriodOf(k))
  /\ http' = [http EXCEPT !.retried = @ \ {k}]
  /\ IF attempt[k].result = "none"
       THEN /\ attempt' = [attempt EXCEPT ![k] = [result |-> "pending", real |-> TRUE]]
            /\ payment' = [payment EXCEPT ![PeriodOf(k)].count = k[3]]
       ELSE UNCHANGED <<attempt, payment>>
  /\ UNCHANGED <<today, sponsorship, charge, job, faults>>

(* Environment: the gateway settles a pending order.                       *)
GatewaySettles(k) ==
  /\ charge[k] = "pending"
  /\ \E status \in {"approved", "declined"} : charge' = [charge EXCEPT ![k] = status]
  /\ UNCHANGED <<today, sponsorship, payment, attempt, http, job, faults>>

(***************************************************************************)
(* The daily scan, first pass: openDuePeriods.                             *)
(***************************************************************************)
StartScan(w) ==
  /\ job[w].stage = "idle"
  /\ job' = [job EXCEPT ![w] = [NoJob EXCEPT !.stage = "opening",
               !.due = {s \in Sponsorships : /\ sponsorship[s].status = "active"
                                             /\ sponsorship[s].nextBilling <= today}]]
  /\ UNCHANGED <<today, sponsorship, payment, attempt, charge, http, faults>>

(* The row is not read again: the sponsorship may no longer be active.  A  *)
(* period that exists is left alone, its next billing date with it.        *)
OpenPeriodFor(w, s) ==
  LET p == BillingPeriod(today) IN
  /\ job[w].stage = "opening"
  /\ s \in job[w].due
  /\ job' = [job EXCEPT ![w].due = @ \ {s}]
  /\ IF payment[<<s, p>>].status = "none"
       THEN /\ payment' = [payment EXCEPT ![<<s, p>>] =
                             [status |-> "pending", startedAt |-> today, count |-> 1, reminders |-> 0]]
            /\ attempt' = [attempt EXCEPT ![<<s, p, 1>>] = [result |-> "pending", real |-> FALSE]]
            /\ sponsorship' = [sponsorship EXCEPT ![s].nextBilling = AddMonth(today)]
       ELSE UNCHANGED <<sponsorship, payment, attempt>>
  /\ UNCHANGED <<today, charge, http, faults>>

(***************************************************************************)
(* Second pass: advanceOpenPeriods reads every open period once and walks  *)
(* each on the copy it read.  An exception ends the scan, rows not yet     *)
(* visited included.                                                       *)
(***************************************************************************)
StartAdvance(w) ==
  /\ job[w].stage = "opening"
  /\ job[w].due = {}
  /\ job' = [job EXCEPT ![w].stage = "advancing",
               ![w].rows = {[at |-> c, count |-> payment[c].count, reminders |-> payment[c].reminders] :
                             c \in {x \in PeriodKey : payment[x].status = "pending"}}]
  /\ UNCHANGED <<today, sponsorship, payment, attempt, charge, http, faults>>

TakeRow(w, r) ==
  /\ job[w].stage = "advancing"
  /\ job[w].row = {}
  /\ r \in job[w].rows
  /\ job' = [job EXCEPT ![w].rows = @ \ {r}, ![w].row = {r}]
  /\ UNCHANGED <<today, sponsorship, payment, attempt, charge, http, faults>>

Walking(w, r, act) ==
  /\ job[w].stage = "advancing"
  /\ r \in job[w].row
  /\ act \in NextLadderAction(r.count, r.reminders, Elapsed(r.at))

(* Mutant: the walk goes on from the state the query returned.             *)
SendReminderFromStaleState(w, r) ==
  /\ Walking(w, r, "remind")
  /\ ~Locked(r.at)
  /\ payment' = [payment EXCEPT ![r.at].reminders = @ + 1]
  /\ UNCHANGED <<today, sponsorship, attempt, charge, http, job, faults>>

SendReminder(w, r) ==
  /\ Walking(w, r, "remind")
  /\ ~Locked(r.at)
  /\ payment' = [payment EXCEPT ![r.at].reminders = @ + 1]
  /\ job' = [job EXCEPT ![w].row = {[r EXCEPT !.reminders = @ + 1]}]
  /\ UNCHANGED <<today, sponsorship, attempt, charge, http, faults>>

(* Mutant: the next attempt is created without expiring the last.          *)
CreateNextAttemptOnly(w, r) ==
  /\ Walking(w, r, "next")
  /\ ~Locked(r.at)
  /\ attempt[AttemptKey(r.at, r.count + 1)].result = "none"
  /\ attempt' = [attempt EXCEPT ![AttemptKey(r.at, r.count + 1)] = [result |-> "pending", real |-> FALSE]]
  /\ payment' = [payment EXCEPT ![r.at].count = r.count + 1]
  /\ job' = [job EXCEPT ![w].row = {[r EXCEPT !.count = @ + 1]}]
  /\ UNCHANGED <<today, sponsorship, charge, http, faults>>

(* The old attempt expires if still pending; the next one is a placeholder *)
(* no order at the gateway stands behind.  Its number may be taken: the    *)
(* unique key then throws.                                                 *)
ExpireAndCreateNextAttempt(w, r) ==
  /\ Walking(w, r, "next")
  /\ ~Locked(r.at)
  /\ IF attempt[AttemptKey(r.at, r.count + 1)].result = "none"
       THEN /\ attempt' = [attempt EXCEPT
                 ![AttemptKey(r.at, r.count)].result = IF @ = "pending" THEN "expired" ELSE @,
                 ![AttemptKey(r.at, r.count + 1)] = [result |-> "pending", real |-> FALSE]]
            /\ payment' = [payment EXCEPT ![r.at].count = r.count + 1]
            /\ job' = [job EXCEPT ![w].row = {[r EXCEPT !.count = @ + 1]}]
       ELSE /\ job' = [job EXCEPT ![w] = NoJob]
            /\ UNCHANGED <<attempt, payment>>
  /\ UNCHANGED <<today, sponsorship, charge, http, faults>>

(* The last transaction of the ladder up to its read of the sponsorship:   *)
(* it throws when the period is already paid (trigger) or when the         *)
(* sponsorship cannot become suspended.                                    *)
BeginFailPeriod(w, r) ==
  /\ Walking(w, r, "fail")
  /\ ~Locked(r.at)
  /\ job' = [job EXCEPT ![w] =
               IF /\ PaymentMayBecome(payment[r.at].status, "failed")
                  /\ CanTransition(sponsorship[r.at[1]].status, "suspended")
                 THEN [@ EXCEPT !.stage = "failing"] ELSE NoJob]
  /\ UNCHANGED <<today, sponsorship, payment, attempt, charge, http, faults>>

CommitFailPeriod(w, r) ==
  /\ job[w].stage = "failing"
  /\ r \in job[w].row
  /\ attempt' = [attempt EXCEPT ![AttemptKey(r.at, r.count)].result = IF @ = "pending" THEN "expired" ELSE @]
  /\ payment' = [payment EXCEPT ![r.at].status = "failed"]
  /\ sponsorship' = [sponsorship EXCEPT ![r.at[1]].status = "suspended", ![r.at[1]].suspendedFor = "billing"]
  /\ job' = [job EXCEPT ![w].stage = "advancing", ![w].row = {}]
  /\ UNCHANGED <<today, charge, http, faults>>

FinishRow(w, r) ==
  /\ job[w].stage = "advancing"
  /\ r \in job[w].row
  /\ NextLadderAction(r.count, r.reminders, Elapsed(r.at)) = {}
  /\ job' = [job EXCEPT ![w].row = {}]
  /\ UNCHANGED <<today, sponsorship, payment, attempt, charge, http, faults>>

FinishScan(w) ==
  /\ job[w].stage = "advancing"
  /\ job[w].rows = {} /\ job[w].row = {}
  /\ job' = [job EXCEPT ![w] = NoJob]
  /\ UNCHANGED <<today, sponsorship, payment, attempt, charge, http, faults>>

(* Mutant: only the attempts of open periods are polled.                   *)
StartPollOpenPeriods(w) ==
  /\ job[w].stage = "idle"
  /\ job' = [job EXCEPT ![w] = [NoJob EXCEPT !.stage = "polling",
               !.polls = {k \in Key : attempt[k].result = "pending" /\ payment[PeriodOf(k)].status = "pending"}]]
  /\ UNCHANGED <<today, sponsorship, payment, attempt, charge, http, faults>>

(***************************************************************************)
(* The poller: pollPending.  The gateway knows nothing of a placeholder.   *)
(***************************************************************************)
StartPoll(w) ==
  /\ job[w].stage = "idle"
  /\ job' = [job EXCEPT ![w] = [NoJob EXCEPT !.stage = "polling",
               !.polls = {k \in Key : attempt[k].result = "pending"}]]
  /\ UNCHANGED <<today, sponsorship, payment, attempt, charge, http, faults>>

(* Mutant: whatever was not declined counts as paid.                       *)
NotDeclined(k) == attempt[k].real /\ charge[k] # "declined"

Approved(k) == attempt[k].real /\ charge[k] = "approved"

(* Mutant: the gateway's word is stored where the table has its own.       *)
MarkApproved(k) ==
  /\ attempt' = [attempt EXCEPT ![k].result = "approved"]
  /\ payment' = [payment EXCEPT ![PeriodOf(k)].status = "paid"]

MarkPaid(k) ==
  /\ attempt' = [attempt EXCEPT ![k].result = "paid"]
  /\ payment' = [payment EXCEPT ![PeriodOf(k)].status = "paid"]

SuspendedForBilling(s) ==
  sponsorship[s].status = "suspended" /\ sponsorship[s].suspendedFor = "billing"

(* An approved attempt that is no longer pending is left alone; one that   *)
(* is pays its period, which no payment status forbids.  A sponsorship     *)
(* read as suspended for billing is reactivated by the same transaction.   *)
PollApproved(w, k) ==
  /\ job[w].stage = "polling"
  /\ k \in job[w].polls
  /\ Approved(k)
  /\ ~Locked(PeriodOf(k))
  /\ IF attempt[k].result # "pending"
       THEN /\ job' = [job EXCEPT ![w].polls = @ \ {k}]
            /\ UNCHANGED <<attempt, payment>>
       ELSE IF SuspendedForBilling(k[1])
         THEN /\ job' = [job EXCEPT ![w].polls = @ \ {k}, ![w].poll = {k}, ![w].stage = "confirming"]
              /\ UNCHANGED <<attempt, payment>>
         ELSE /\ MarkPaid(k)
              /\ job' = [job EXCEPT ![w].polls = @ \ {k}]
  /\ UNCHANGED <<today, sponsorship, charge, http, faults>>

(* Mutant: the payment is recorded, the sponsorship stays suspended.       *)
CommitPaymentOnly(w, k) ==
  /\ job[w].stage = "confirming"
  /\ k \in job[w].poll
  /\ MarkPaid(k)
  /\ job' = [job EXCEPT ![w].stage = "polling", ![w].poll = {}]
  /\ UNCHANGED <<today, sponsorship, charge, http, faults>>

CommitReactivation(w, k) ==
  /\ job[w].stage = "confirming"
  /\ k \in job[w].poll
  /\ MarkPaid(k)
  /\ sponsorship' = [sponsorship EXCEPT ![k[1]].status = "active"]
  /\ job' = [job EXCEPT ![w].stage = "polling", ![w].poll = {}]
  /\ UNCHANGED <<today, charge, http, faults>>

(* applySystemTransition reads the status again: if it has changed since,  *)
(* the exception rolls the payment back and ends the poll.                 *)
ReactivationRefused(w, k) ==
  /\ job[w].stage = "confirming"
  /\ k \in job[w].poll
  /\ ~CanTransition(sponsorship[k[1]].status, "active")
  /\ job' = [job EXCEPT ![w] = NoJob]
  /\ UNCHANGED <<today, sponsorship, payment, attempt, charge, http, faults>>

(* getCollectionStatus throws: the attempt waits for the next poll.        *)
GatewayOutage(w, k) ==
  /\ faults < MaxFaults
  /\ job[w].stage = "polling"
  /\ k \in job[w].polls
  /\ faults' = faults + 1
  /\ job' = [job EXCEPT ![w].polls = @ \ {k}]
  /\ UNCHANGED <<today, sponsorship, payment, attempt, charge, http>>

(* The attempts left have no approved order and change nothing.            *)
FinishPoll(w) ==
  /\ job[w].stage = "polling"
  /\ \A k \in job[w].polls : ~Approved(k)
  /\ job' = [job EXCEPT ![w] = NoJob]
  /\ UNCHANGED <<today, sponsorship, payment, attempt, charge, http, faults>>

(***************************************************************************)
(* Environment                                                             *)
(***************************************************************************)
(* The process restarts: open transactions roll back, every request and    *)
(* job between two steps is gone.                                          *)
Crash ==
  /\ faults < MaxFaults
  /\ faults' = faults + 1
  /\ http' = Calm
  /\ job' = [w \in Workers |-> NoJob]
  /\ UNCHANGED <<today, sponsorship, payment, attempt, charge>>

(* A job takes minutes, the days visited lie days apart.                   *)
NextDay ==
  /\ \A w \in Workers : job[w].stage = "idle"
  /\ \E d \in Days : /\ d > today
                     /\ \A e \in Days : e > today => d <= e
                     /\ today' = d
  /\ UNCHANGED <<sponsorship, payment, attempt, charge, http, job, faults>>

SponsorStep ==
  \/ \E s \in Sponsorships :
       Subscribe(s) \/ FirstChargeAnswered(s) \/ FirstChargeThrows(s) \/ RetryPayment(s)
  \/ \E f \in http.first : FirstChargeDeclined(f) \/ RecordFirstPayment(f)
  \/ \E k \in http.retrying : RetryChargeAnswered(k) \/ RetryChargeThrows(k)
  \/ \E k \in http.retried : RecordRetry(k)

OrganizationStep ==
  \E s \in Sponsorships, to \in SponsorshipStatus : ReadTransition(s, to)

TransitionStep == \E t \in http.transitions : CommitTransition(t)

ScanStep(w) ==
  \/ StartScan(w) \/ StartAdvance(w) \/ FinishScan(w)
  \/ \E s \in job[w].due : OpenPeriodFor(w, s)
  \/ \E r \in job[w].rows : TakeRow(w, r)
  \/ \E r \in job[w].row : \/ SendReminder(w, r)
                           \/ ExpireAndCreateNextAttempt(w, r)
                           \/ BeginFailPeriod(w, r)
                           \/ CommitFailPeriod(w, r)
                           \/ FinishRow(w, r)

PollStep(w) ==
  \/ StartPoll(w) \/ FinishPoll(w)
  \/ \E k \in job[w].polls : PollApproved(w, k) \/ GatewayOutage(w, k)
  \/ \E k \in job[w].poll : CommitReactivation(w, k) \/ ReactivationRefused(w, k)

GatewayStep == \E k \in Key : GatewaySettles(k)

Next ==
  \/ SponsorStep \/ OrganizationStep \/ TransitionStep
  \/ \E w \in Workers : ScanStep(w) \/ PollStep(w)
  \/ GatewayStep \/ Crash \/ NextDay

Spec == Init /\ [][Next]_vars

(* Both jobs repeat for ever on a queue that serves them in turn, and a job*)
(* that has begun goes on.  Nobody else has to act.                        *)
JobStep(w) == job[w].stage # "idle" /\ (ScanStep(w) \/ PollStep(w))

Fairness ==
  \A w \in Workers :
    /\ SF_vars(StartScan(w))
    /\ SF_vars(StartPoll(w))
    /\ WF_vars(JobStep(w))

FairSpec == Spec /\ Fairness

(***************************************************************************)
(* Properties                                                              *)
(***************************************************************************)
(* Every variable keeps its type. *)
TypeOK ==
  /\ today \in Days
  /\ sponsorship \in [Sponsorships -> SponsorshipRow]
  /\ payment \in [PeriodKey -> PaymentRow]
  /\ attempt \in [Key -> AttemptRow]
  /\ charge \in [Key -> ChargeStatus \cup {"none"}]
  /\ http \in Requests
  /\ job \in [Workers -> Job]
  /\ faults \in 0 .. MaxFaults

(* A period's attempt counter is the number of its last attempt, and no    *)
(* number is skipped: two scans working on stale copies, a scan and a      *)
(* retry, or two retries never leave a gap or a forgotten attempt.         *)
AttemptsContiguous ==
  \A k \in Key : attempt[k].result # "none" <=> k[3] <= payment[PeriodOf(k)].count

(* While a period is on the ladder only its newest attempt is payable: the *)
(* scan never opens an attempt beside one that is still pending.           *)
OneOpenAttempt ==
  \A k \in Key :
    payment[PeriodOf(k)].status = "pending" /\ attempt[k].result = "pending"
      => k[3] = payment[PeriodOf(k)].count

(* The ledger never shows money the gateway has not approved: a paid period*)
(* has a paid attempt, a paid attempt pays its period, and behind it stands*)
(* an approved order, never a placeholder.                                 *)
PaidMeansApproved ==
  /\ \A c \in PeriodKey :
       payment[c].status = "paid" => \E n \in Attempts : attempt[AttemptKey(c, n)].result = "paid"
  /\ \A k \in Key :
       attempt[k].result = "paid" => payment[PeriodOf(k)].status = "paid" /\ Approved(k)

(* A sponsor suspended for non-payment always has a failed period to pay,  *)
(* so "pagar de nuevo" finds something to recover: no late payment,        *)
(* reactivation or second open period leaves the suspension without one.   *)
SuspensionIsRecoverable ==
  \A s \in Sponsorships : SuspendedForBilling(s) => FailedPeriods(s) # {}

(* A paid period stays paid: a scan that read it as open cannot fail it.   *)
PaidIsFinal ==
  [][\A c \in PeriodKey : payment[c].status = "paid" => payment'[c].status = "paid"]_vars

(* The three tables implement a ledger of months that only go forward,     *)
(* whose attempts are numbered one by one, and in which an order is        *)
(* credited once, after the gateway approved it: no overlap of scans,      *)
(* polls, retries and restarts is seen in them.                            *)
months   == [c \in PeriodKey |-> payment[c].status]
tries    == [c \in PeriodKey |-> payment[c].count]
approved == {o \in PeriodKey \X Attempts : /\ attempt[AttemptKey(o[1], o[2])].result # "none"
                                          /\ Approved(AttemptKey(o[1], o[2]))}
credited == {o \in PeriodKey \X Attempts : attempt[AttemptKey(o[1], o[2])].result = "paid"}

Promise == INSTANCE BillingPromise WITH
  Months <- PeriodKey,
  MaxTries <- MaxAttempts,
  month <- months,
  tries <- tries,
  approved <- approved,
  credited <- credited

KeepsBillingPromise == Promise!Spec

(* With one job at a time an open period always stands on a rung of the    *)
(* ladder, so that a later scan still knows what to do with it.            *)
OnLadder ==
  \A c \in PeriodKey :
    payment[c].status = "pending" =>
      \E r \in Rungs : r.count = payment[c].count /\ r.reminders = payment[c].reminders

(* Money recovered is credited: an attempt of a failed period that the     *)
(* gateway has approved ends up paying that period, whatever the sponsor,  *)
(* the organization and the scan do meanwhile.                             *)
ApprovedRetryIsCredited ==
  \A k \in Key :
    (/\ payment[PeriodOf(k)].status = "failed"
     /\ attempt[k].result = "pending"
     /\ Approved(k)) ~> payment[PeriodOf(k)].status = "paid"

(* The ladder comes to an end: once its last day has passed, the open      *)
(* period of an active sponsorship is closed, or the sponsorship itself    *)
(* stops being active.                                                     *)
Overdue(c) ==
  payment[c].status = "pending" /\ Elapsed(c) >= Ladder["expire3"]

OverduePeriodSettles ==
  \A c \in PeriodKey :
    (Overdue(c) /\ sponsorship[c[1]].status = "active")
      ~> (payment[c].status # "pending" \/ sponsorship[c[1]].status # "active")

(* One row's failure never keeps the scan from the others: a scan that ends*)
(* while the process runs on has visited every row it read.                *)
ScanVisitsEveryRow ==
  [][\A w \in Workers :
       job[w].stage = "advancing" /\ job'[w].stage = "idle" /\ faults' = faults
         => job[w].rows = {}]_vars

(* A cancelled sponsorship is never active or suspended again              *)
(* (sponsorship-status.ts: cancelled is terminal, without reactivation).   *)
CancelledIsTerminal ==
  [][\A s \in Sponsorships :
       sponsorship[s].status = "cancelled" => sponsorship'[s].status = "cancelled"]_vars
=============================================================================
