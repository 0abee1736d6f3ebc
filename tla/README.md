# AdoptaFácil: formal model

TLA+ specifications of AdoptaFácil V2.0, the TLC configurations that model-check
them and proofs checked by TLAPS. The code is the reference: each definition is
translated from it and `PROJECT.json` ("map") names its lines. Paths below are
relative to the repository root (`src/` in `PROJECT.json`); `modules/` is short
for `apps/api/src/modules/`, `core/` for `apps/api/src/core/`.

| file | what it is |
| --- | --- |
| `SponsorshipBilling.tla` | recurring billing of sponsorships: requests, daily scan, poller |
| `BillingPromise.tla` | abstract: months go forward, attempts are numbered, an approved order is credited once |
| `Donations.tla` | one donation: charge, row, webhook, receipt, certificate, guest link |
| `CampaignFunding.tla` | the two SQL functions that fund campaigns, statement by statement |
| `CampaignLedger.tla` | abstract: each approved donation is counted exactly once |
| `PaymentBreakdown.tla` | commissions in whole pesos, both payment modes |
| `Adoptions.tla` | adoption requests and their contracts, up to the seal |
| `FollowUp.tla` | adoptions with the follow-up of the sealed ones: milestones, answers, overdue scan |
| `AdoptionPromise.tla` | abstract: parties settled when a contract is drawn up, one seal by all of them, follow-up of sealed adoptions, nothing reopened |
| `Resources.tla` | the resource bank: need, offers, deliveries, proofs of donation |
| `Volunteering.tla` | enrollments, hours, certificate of hours |
| `Sessions.tla` | refresh tokens, password reset, and the browser tabs that hold the tokens |
| `Formalization.tla` | formalization state, documents under review, verification level, DIAN verification with its queue |
| `MC*.tla`, `MC*.cfg` | instances for TLC |
| `*_proofs.tla` | theorems and proofs about the module they are named for |
| `Sums_proofs.tla` | lemmas on the sum of a function over a finite set, used by `CampaignFunding_proofs` and `Services_proofs` |
| `Services_proofs.tla` | theorems and proofs about `Resources`, `Volunteering`, `PaymentBreakdown`, and the run that composes them with `Sessions`, `Formalization` and `CampaignFunding` |

Contents: 1 inventory, 2 plan, 3 how a module corresponds to the code,
4 runs, 5 disagreements found, 6 proofs, 7 limits.

## 1. Inventory

A pnpm monorepo: a NestJS API (`apps/api`), a React client (`apps/web`), shared
schemas and arithmetic (`packages/contracts`), PostgreSQL migrations with a good
part of the logic in functions and triggers (`prisma/migrations`). All state is in
PostgreSQL and, for jobs, in Redis (BullMQ). The API is one Node process
(`docs/ARQUITECTURA.md:239-240`), so that two pieces of JavaScript never run at the
same instant; but every `await` lets another request, job or webhook in.

What makes this system hard, nearly everywhere:

- Transactions run at READ COMMITTED, and most services read a row, validate in
  JavaScript and then `update({ where: { id } })` without a status condition.
  Whether that is safe depends on a trigger, a unique key or a `FOR UPDATE`
  further down, and not all such writes have one.
- The payment gateway is called outside any transaction, before or after the row
  that speaks about it; either may survive a restart without the other.
- The gateway notifies at least once and in any order.
- Jobs are retried and repeated, and work on the rows a first query returned.

| component | state | operations | hard part | what makes it correct |
| --- | --- | --- | --- | --- |
| Sponsorship billing (`modules/sponsorships`) | `sponsorships`, `sponsorship_payments` (one per month), `sponsorship_payment_attempts` | subscribe, suspend / reactivate / cancel, "pagar de nuevo", daily scan, poll | scan, poll and requests on stale reads; partial failure; downtime | attempts without gaps, one payable attempt, money only where the gateway approved it, ladder terminates, a suspended sponsor can pay |
| Donations (`modules/donations`) | `donations`, `donation_receipts`, `donation_certificates`, `donation_access_links` | create, webhook, certificate on demand, claim of a guest link | order before row, repeated and reordered notifications, two issuers of a certificate | tables agree with the gateway, papers agree with donations, a certificate never changes |
| Campaign funding (`modules/campaigns`) | `campaigns.raised_amount`, `campaign_funding_applications` | apply on approval, reconcile an organization | concurrent transactions, deadlock, overflow, lost call | each donation counted exactly once, reconciliation catches up |
| Campaigns (`modules/campaigns`) | `campaigns`, evidences | create, edit, list | an edit beside funding | covered by funding; evidences are append-only |
| Commission breakdown (`packages/contracts/src/payments.ts`) | none | `computeBreakdown` | five roundings, inversion | the organization gets what was intended, up to 2 pesos |
| Payouts (`modules/payments/payouts.*`) | `payouts`, queue | request, dispatch job, webhook | gateway called inside a transaction, repeated jobs, webhook before commit | one dispatch per payout; final status = gateway's |
| MercadoPago connection (`modules/payments/mercadopago-connect.service.ts`) | encrypted OAuth tokens per organization | connect, callback, disconnect, refresh job | refresh against reconnect; token rotated and lost | stored token belongs to the stored account |
| Gateway adapter (`core/payments`) | none | createCollection, status, webhook verification | timeouts that made an order | idempotency: one order per key |
| Authentication (`core/auth`) | users, `refresh_tokens`, reset codes | login, rotate, logout, reset, change password | revoke and create in separate statements | only sessions begun since the last reset are alive (intended; a rotation under way survives it, section 5); a tab never uses a token twice |
| Adoptions and contracts (`modules/adoptions`) | requests, contracts with a JSON array of signers, follow-up visits | evaluate, generate, edit, send, sign, cancel; overdue scan | whole-array overwrite, edit against signature, competing applicants | no signature lost; text signed = text sealed; a frozen contract stays |
| Animals and clinical records (`modules/animals`) | animals, clinical rows, carnets | CRUD, death registration, import | death suspends sponsorships, all or nothing | no active sponsorship of a dead animal |
| Clinical reminders (`modules/animals/reminders.*`) | `clinical_reminders`, queue | scan, send, acknowledge, dismiss | enqueue after store; send by id | each due reminder is sent; dismissed stays dismissed |
| Organizations and formalization (`modules/org`) | formalization state, documents, DIAN verifications | advance / step back, upload and decide documents, verification with backoff | two ladders of attempts, enqueue after commit | ESAL+RTE only when verified; history is a path |
| Volunteering (`modules/volunteering`) | enrollments, `service_hours`, certificates | enrol, decide, log and decide hours, certify | hours beside their certificate | certificate = approved hours; nothing after it |
| Resources (`modules/resources`) | needs, offers, deliveries, applications, proofs | offer, accept, cancel, complete | read-modify-write of the quantity, accept against cancel | each delivery counted once in the need, cancelled is sticky (both intended; two overlapping requests break them, section 5) |
| Marketplace, Community, Reviews | listings; posts and likes; reviews | CRUD, moderation | single-row, triggers and unique keys | a review needs a completed interaction |
| Portals, dashboards | themes | reads | none | - |
| Tenant isolation (`core/tenant`, RLS policies) | session variable per transaction | every query | declarative | every query has an organization |
| Storage, notifications, audit, crypto | files, outbox of e-mails, audit rows | adapters | best effort | - |
| Web client (`apps/web`) | access token in memory | pages, refresh on 401 | refresh by two tabs | a valid session survives a refresh |

How they interact. A sponsorship or donation asks `PaymentPort.createCollection`
with an idempotency key. The donation webhook approves the donation with its
receipt, then calls, each in a transaction of its own and best effort, campaign
funding, the certificate service and the guest link. `animals.registerDeath`
suspends sponsorships through `SponsorshipsService.applySystemTransition`, which
the billing job and the poller use as well. Accepting a resource offer creates its
delivery, completing a delivery writes the need. The formalization service enqueues
DIAN verification, whose result it needs for the last state. Donation certificates
read the formalization state.

`PROJECT.json` ("hazards") lists what is hard to test, at its line. A hazard without
a property has a note that says why. Left out there, for being lesser cases of one that
is listed or of a component that is not modelled, are: two decisions on one enrollment,
or of an offer that its donor withdraws; a sign-in beside another (two tokens of the user may both
stay alive); a certificate code that is taken; the file limit of an
offer's proofs, checked again in SQL; a restart between a formalization step and its queue,
or between a decision on a document and the level computed of it; the payout hazards
(a repeated dispatch, a webhook before the commit), which no gateway can show yet; an
OAuth refresh beside a reconnection; a reminder reopened by the job that was sending it; a
death that cannot be registered because one sponsorship is already suspended; a gateway
order that is cancelled, whose donation stays pending; 31 January plus one month.

## 2. Plan

Order: where money moves first, then signatures and sessions, then quantities.

| step | module | abstracts / composes | states | status |
| --- | --- | --- | --- | --- |
| 1 | `SponsorshipBilling`, `BillingPromise` | three processes over three tables; implements an abstract promise | ledger invariants, ladder liveness, recoverability | done |
| 2 | `Donations` | gateway, API, webhooks, officers | agreement with the gateway, papers | done |
| 3 | `CampaignFunding`, `CampaignLedger` | detailed SQL implements the abstract ledger; takes over where `Donations` approves | exactly once, catch-up | done |
| 4 | `PaymentBreakdown` | pure arithmetic | drift, positivity, monotonicity | done |
| 5 | `Adoptions`, `FollowUp`, `AdoptionPromise` | representative, adopter, witness and managers on one contract, then its follow-up; implements an abstract promise | order of signatures, lost signature, seal by all parties, one alert | done |
| 6 | `Sessions` | sign-ins, rotations, a reset and two tabs | which sessions survive a reset, a tab never refuses itself | done |
| 7 | `Resources` | need, offers, deliveries, proofs | applied once, exact sum (broken), never overcounted | done |
| 8 | `Volunteering` | enrollment, hours, certificate | the certificate is of approved hours, and final | done |
| 9 | `Formalization` | transitions, review, level, DIAN queue | RTE is earned, a promised retry comes | done |

The abstract specifications are `BillingPromise`, `CampaignLedger` and `AdoptionPromise`, of the
components whose detail (statements, copies written back) is farthest from what they promise. No
module uses RECURSIVE operators, so that each can be proved about. The components that share
nothing (7, 8, 4, 6, 9, and the safety of 3) share the run `services`, which chooses one of them
in its initial state, so that their state spaces add up instead of multiplying; 2 and the
liveness of 3 share the run `money` in the same way.

Every safety and action property of the runs that pass is proved, and so are the three
refinements. What is left: modules for payouts (once the gateway has them), the OAuth
connection and reminders, whose operations each write one row by id.

## 3. Correspondence

Everywhere: a step is one database transaction, one gateway call, or one read
whose result a later step uses (in `CampaignFunding`, one SQL statement). What a
request, job or webhook remembers between two steps is in a variable of its own
(`http`, `job`, `request`, `webhook`, `officer`, `tx`); `Crash` empties it and keeps
the tables and the gateway. Definitions introduced by "Mutant:" in a comment are
plausible bugs that `Spec` never uses; each property is shown to fail under one.

### SponsorshipBilling

| model | code |
| --- | --- |
| `sponsorship` | table `sponsorships`; `suspendedFor` is the reason of the newest suspension in `sponsorship_status_history`, `none` until the first |
| `payment`, `attempt` | tables `sponsorship_payments`, `sponsorship_payment_attempts`, by their unique keys; `real` = not a placeholder `provider_collection_id` |
| `charge` | the gateway's orders by idempotency key; changed by requests and by `GatewaySettles` |
| `Subscribe`, `FirstChargeAnswered`, `FirstChargeThrows`, `FirstChargeDeclined`, `RecordFirstPayment` | the parts of `SponsorshipsService.subscribe` between its awaits |
| `ReadTransition`, `CommitTransition` | `transition()`: read and check, update by id |
| `RetryPayment`, `RetryChargeAnswered`, `RetryChargeThrows`, `RecordRetry` | `retryPayment`: context, charge, record |
| `StartScan`, `OpenPeriodFor` | `openDuePeriods` |
| `StartAdvance`, `TakeRow`, `SendReminder`, `ExpireAndCreateNextAttempt`, `BeginFailPeriod`, `CommitFailPeriod`, `FinishRow`, `FinishScan` | `advanceOpenPeriods`, `advanceOnePeriod` and its three steps |
| `StartPoll`, `PollApproved`, `CommitReactivation`, `ReactivationRefused`, `GatewayOutage`, `FinishPoll` | `pollPending` |
| `Rungs`, `NextLadderAction` | `nextLadderAction` |
| `CanTransition`, `PaymentMayBecome` | `sponsorship-status.ts`, trigger `sponsorship_payments_validate_transition` |
| `Locked` | the row lock of a transaction that has written a period and not committed |

The transaction that fails a period and the one that confirms a late payment write
the period first and read the sponsorship afterwards; the model splits both at
that read (stages `failing`, `confirming`), because the organization may change
the sponsorship in between, and keeps the period locked until the commit. Days
are abstract: a period is the month a day is in, and `AddMonth` carries day 31 into
the month after next as `setUTCMonth` does. All jobs end before the day changes.

`BillingPromise` knows months, the number of the last attempt of each, the orders on file
that the gateway has approved and those that have been credited. The mapping reads `month`
and `tries` from the row of the period, `approved` from recorded attempts with an approved
order, `credited` from attempts that are paid. Opening a period, a retry or the walk's next
attempt, the end of the ladder and a credited payment are its steps; subscriptions, status
changes, reminders, reads, charges and crashes are stutters but for approvals. The order of
a subscription may be approved before it is on file, hence `OpenPaid`.

### Donations

| model | code |
| --- | --- |
| `order`, `due` | the gateway's orders, and the notifications it has not had a 2xx for |
| `donation`, `receipt`, `certificate`, `link` | tables of the same names |
| `eligible` | the profile that a certificate requires (ESAL, RTE valid, NIT), which may change at any time |
| `PreCheck`, `CreateCollection`, `CreateCollectionThrows`, `CreateDonation` | `DonationsService.create` |
| `VerifyAndNormalizeWebhook` | adapter's webhook verification, which asks for the order's status; the answer may be stale when applied |
| `ApplyApproved`, `ApplyDeclined`, `ApplyNothing` | `apply_donation_webhook` and the receipt, one transaction |
| `TryIssueForApprovedDonation`, `IssueGuestAccessLink` | the best-effort steps after it |
| `GenerateForOrganization`, `IssueForOrganization` | `DonationCertificatesService`: read, then insert under a unique key |

Donations to a campaign go on in `CampaignFunding!Approve`, which is the moment
`ApplyApproved` commits; funding does not read or write anything else of a
donation, and donations read nothing of funding, so that the two are not composed.

### CampaignFunding and CampaignLedger

`ledger` and `raised` are committed state; a running transaction (`tx`) holds the
rows still to visit, the one it is at (`loop`: status check, `insert`, `update`)
and those it has counted, whose ledger entries and campaign rows it holds locked.
`WaitsFor` is PostgreSQL's: an insert waits for an uncommitted entry of the same
unique key, an update for the lock on the campaign row, and `DeadlockVictim` rolls
one of a cycle back. `Amount` is the net of each donation, `NetOf` the sum over a set of
them; a sum above `MaxInteger` throws (`UpdateOverflows`) and takes its transaction with it. `closed` stands for every status except `active`.
`CampaignLedger` has the two committed variables and one action, `Count(S)`: a set
of donations, none counted before, is counted. The refinement mapping is the identity on
both, every step but `Commit` being a stutter.

### PaymentBreakdown

`computeBreakdown` of `packages/contracts/src/payments.ts`, in exact fractions:
`Gross`, the four commissions of `FeesFromGross`, `Net`. Two actions change the
amount and the mode, as the donor does in the form (`donate-form.tsx`), so that
properties may compare two inputs. The program computes with doubles; the rates and
half-up rounding were compared with exact fractions and give the same pesos.

### Adoptions, FollowUp and AdoptionPromise

| model | code |
| --- | --- |
| `request`, `contract`, `milestone` | `adoption_requests`, `adoption_contracts` by request, `adoption_followup_milestones` by contract and title |
| `manager` | an operation of the organization that has read a row and not written it |
| `signing` | a signature taken on a copy of the contract: `sign()` between its read and `adoption_contract_apply_signatures` |
| `accepted` | history: signatures answered with 200 |
| `EvaluateRead`, `EvaluateWrite` | `AdoptionsService.transition` |
| `GenerateRead`, `GenerateWrite` | `generate`, with the unique key (request, version) |
| `TransitionRead/Write`, `UpdateDataRead/Write` | `transition`, `updateData` of the contract |
| `SignRead`, `MaySign`, `SignWrite`, `Apply` | `sign`, and the SQL function with its condition on the status |
| `UpdateContract` | any UPDATE of the row, under the trigger that freezes a signed contract |
| `Schedule`, `SubmitLoad/Select/Commit`, `CompleteRead/Write` | `FollowUpService`, `adoption_followup_submit` |
| `MarkOverdue`, `Alert`, `Restart` | `runOverdueScan`: one UPDATE, then the alerts from memory |

A contract's text is one of a few contents and `hash` the content it was computed of. Only
the parties matter of the array of signers, and which of them have signed. A row is
written whole, from the copy that was read (`Apply`): this is what the properties are about.

`AdoptionPromise` knows the parties of each contract, settled when it is drawn up, seals, and
open and closed milestones. The mapping reads the parties of the contract (`drawn`), the
signers and the hash of a signed one, and classes the milestones: the promise's `Seal` sets the signers
to all the parties, a witness included if there is one. Requests, drafts, copies, scans and
alerts are stutters.

### Resources

`need`, `offer`, `delivery`, `applied` and `proof` are the tables' rows; `staff` holds
what a member of the organization has read. `complete` is three steps
(`CompleteDeliveryRead`, `CompleteDeliveryApply`, `CompleteDeliveryCommit`): the read, the
UPDATE of the delivery (whose row lock is `Locked`) with the insert under the unique
key and the read of the need, and the need written as an absolute quantity. A cancellation
or an acceptance is a read and a write. The donors' SQL functions are one step each.

### Volunteering

`LogCheck` and `LogInsert` are the SELECT and the INSERT of `create_service_hours`, which locks
nothing. `IssueRead` is what `issue` reads, taken at one instant, `IssueWrite` its insert
under the unique enrollment. A kind of enrollment stands for what
`volunteer-certificate-eligibility.ts` tells apart: no student service, student service,
student service of a minor without guardian data. `approved` is history.

### Sessions

| model | code |
| --- | --- |
| `token` | `refresh_tokens`; `revokedBy`, `of` (resets when its session began) and `caught` (the last reset that was committed within a rotation of the session) are history |
| `tab`, `cookie` | what `TokenStore` and `SessionProvider` hold in each tab, the cookie `af_refresh` they share |
| `call` | HTTP calls from the request to its answer; `seen` (resets when a rotation read its token) is history |
| `Open`, `SignIn`, `RefreshOnce`, `SignOut`, `Answer`, `Lose` | `session-context.tsx`, `api-client.ts` |
| `RotateRead`, `RotateCreate`, `RotateRevoke` | `TokenService.rotate`, three statements |
| `SignInCheck`, `SignInRevoke`, `SignInCreate` | `login` (`googleSignIn` the same), `issueTokens` |
| `Logout`, `ConfirmPasswordReset` | `revoke`, `confirmPasswordReset` |

`refused` records the tabs that presented a token one of their own rotations had used up.
A sign-in begins its session when its token is created, even if the password was
checked before a reset. Access tokens expire at any time, so that they need no state.

### Formalization

`MoveRead` and `MoveWrite` are `FormalizationService.transition`, `Enqueue` and
`ForgetToEnqueue` what follows the commit. `DecideSelect` and `DecideUpdate` are the two
statements of `platform_document_decide`, `Frozen` the trigger of the row; `RecomputeRead`,
`RecomputeWrite` and `RecomputeFails` are the second transaction. `Level` is
`computeVerificationLevel`, documents expired by their date included. `AttemptVerification`
is one attempt, `Conclude` BullMQ's counting after it, `Stall` a worker that stops between
the two. The catalog of documents a transition requires is empty in the code, and so
here. A job stands for one `add` to the queue with its attempts; `confirmed` is history.

## 4. Runs

| run | instance and bounds | what it shows |
| --- | --- | --- |
| `sponsorship_ledger` | 1 sponsorship, 2 workers, one month, days 0/10/30, 4 attempts, 1 request in flight or 2 retries, 1 fault; 446,344 states | `AttemptsContiguous`, `OneOpenAttempt`, `PaidMeansApproved`, `KeepsBillingPromise` (refinement of the abstract promise, in which a paid month stays paid): scans, polls and requests on stale copies keep the ledger consistent |
| `sponsorship_ladder` | 1 sponsorship, 1 worker, months of 30 and 31 days, days 0/30, fair; 28,266 states | `SuspensionIsRecoverable`, `OnLadder`, and under fairness `ApprovedRetryIsCredited`, `OverduePeriodSettles` |
| `sponsorship_isolation` | 2 sponsorships, 1 worker, no fault | violated: `ScanVisitsEveryRow` |
| `sponsorship_terminal` | 1 sponsorship, 2 requests in flight | violated: `CancelledIsTerminal` |
| `money` | one of two components per behaviour, fair; 33,316 states | see below |
| `donations_confirmed` | 1 donation, 1 request, 1 webhook, no fault, fair | violated: `ApprovedIsConfirmed` |
| `adoption` | 1 request, 2 managers, the two parties and a witness, 2 texts, 2 signatures being taken, 1 milestone, 1 answer, 1 restart, fair; 584,684 states | `RepresentativeFirst`, `NoSignatureLost`, `AlertedOnce`, `KeepsPromise` (refinement of the abstract promise), `DueIsNoticed` |
| `adoption_seal` | the same, without fairness | violated: `SealMatchesText` |
| `services` | one of six components per behaviour; 733,077 states | see below |
| `resources_sticky` | `Resources` alone, as in `services` | violated: `CancelledIsSticky` |
| `resources_exact` | the same | violated: `AppliesExactlyOnce` |
| `sessions_reset` | `Sessions` alone, as in `services` | violated: `OldSessionsFall` |

The components of `money`:

| component | instance and bounds | what it shows |
| --- | --- | --- |
| Donations | 1 guest donation, 2 requests, 2 webhooks, 1 officer, 1 fault | `AgreesWithGateway`, `PapersMatch`, `CertificateIsSealed`, `NotifiedIsSettled` |
| CampaignFunding | 2 donations of 1 to one campaign, 2 transactions, column of 1, 1 restart | `TransactionsEnd`, `CatchUp` |

The components of `services`:

| component | instance and bounds | what it shows |
| --- | --- | --- |
| Resources | 2 offers, 2 members, quantities 1 and 2, 2 needed at first | `NeverOvercounts`, `AppliedOnce`, `ApprovedProofFinal` |
| Volunteering | 1 enrollment, 2 sessions of 1 or 2 hours, minimum 3, 2 members | `CertificateEarned`, `CertificateFinal` |
| Sessions | 2 tabs, 3 tokens, 2 calls at a time, 1 reset or lost answer | `NeverRefusesItself`, `SurvivorsWereCaught` |
| Formalization | a document of each of the two types, 1 owner, 2 reviewers, 1 tax number, 2 jobs of 2 attempts, 1 stall | `RteIsEarned`, `RetryingHasAJob`, `DecidedOnce` |
| CampaignFunding | 3 donations of 1 to one campaign, 2 transactions, column of 2, 1 restart | `RaisedIsLedger`, `CountedApart`, `CountsExactlyOnce` (refinement of the abstract ledger) |
| PaymentBreakdown | 372 amounts (1-60, 890-1100, 6900-7000) in two modes, all pairs | `NetReachesIntended`, `NetIsPositive`, `GivingMoreNeverCosts` |

Deadlock is checked in the runs of sponsorships and in `money`. An adoption or
one of the services may come to its end: a contract cancelled, every offer decided, every
bound reached.

Why the bounds are enough. Sponsorships meet only in the scan's loop, so that one
suffices for the ledger and two for `ScanVisitsEveryRow`. Two workers give every
pair of scan and poll; the deployment has one worker per queue, and two are what
overlapping instances (a deployment, a second API process) would be. The ladder
makes three attempts by itself; the fourth is the sponsor's retry, and day 30 is past its
last rung, so that downtime over several rungs occurs, while day 10 lies between.
In the two-month calendar the second period opens on the very day the first one
fails, which is the overlap the properties are about. One donation suffices since
nothing relates two; two requests and two webhooks give each of them a rival. Two
transactions over three donations give deadlocks through two ledger entries or an entry and the
campaign's row, with a donation besides; three or more transactions at a time are covered by the
theorems. A column smaller than the sum makes the overflow happen. In `sponsorship_ledger` other
requests come one at a time, but the sponsor's retries may overlap, and compute the same attempt number
(`OnlyRetriesOverlap`). Symmetry is used only in runs without liveness. In `adoption` two managers and
two signatures in flight give each write a rival that read the same row; the witness is
the third party whose absence `NoSignatureLost` is about, two texts are what an edit needs.
In `services` two members, tabs, reviewers and jobs do the same; two offers are needed for
one need to be written twice. Two model values serve as offers, slots, tabs and jobs, and two as
members, office and reviewers: components share no state, so that a permutation is a
symmetry of each. Resources and formalization are each explored in two parts, where
the whole would be too large and the parts do not meet: proofs of donation beside the need's
quantity; the queue with one reviewer who refuses nothing, beside two reviewers without
the queue (`MCServices.tla`).

Fairness.

- Scan and poll are repeatable BullMQ jobs on one queue served in turn:
  `SF(StartScan)`, `SF(StartPoll)`; a job that has begun goes on: `WF(JobStep)`.
  Nothing is assumed of sponsors, the organization or the gateway, nor that days
  pass: the liveness properties start from a day already reached.
- The gateway sends a notification again until it gets a 2xx, so that one that stays
  due is eventually taken up though webhooks may be busy: `SF` on its delivery;
  `WF` on the steps of a webhook that has begun.
- The overdue scan is a repeatable job with one worker that goes through what it holds:
  `WF(MarkOverdue)`, `WF(Alert(k))`. Adopters and managers may never answer.
- PostgreSQL serves transactions waiting for a row in order and breaks
  deadlocks: `SF(TxStep(t))`. `CatchUp` supposes in its formula that
  reconciliations go on completing; nothing in the code starts them.
- In `money` the fairness of both components is assumed of every behaviour; of the component
  that stands still it asks nothing, since none of its fair actions is enabled.

## 5. Disagreements found

Each is a run that TLC must find violated; `PROJECT.json` ("findings") quotes both sides.

1. `sponsorship_isolation`: the second pass of the daily scan has no per-row
   `try/catch` (`sponsorship-billing.service.ts:187`); an open period of a suspended
   sponsorship makes its last rung throw, every day, and the rows after it starve.
   `OverduePeriodSettles` holds in `sponsorship_ladder` because one sponsorship has no
   row before its own that throws while it is active.
2. `sponsorship_terminal`: two status changes whose reads precede both writes
   revive a cancelled sponsorship (`sponsorships.service.ts:455`).
3. `donations_confirmed`: a notification handled before the row is inserted is
   acknowledged and lost; the paid donation stays pending (`donations.service.ts:357`).
4. `adoption_seal`: an edit that found no signature is written after one was taken
   (`adoption-contracts.service.ts:389`): the sealed hash is of another text than the
   payload beside it.
5. `resources_sticky`: a delivery whose transaction read the need before it was cancelled
   writes the status derived from that copy (`resource-deliveries.service.ts:183`): the
   cancelled need is revived.
6. `resources_exact`: two deliveries of one need completed at once read the same sum and
   write it back by id (`resource-deliveries.service.ts:176`): both are applied, one quantity
   is missing from the need. `NeverOvercounts` is the half of the promise that holds.
7. `sessions_reset`: a rotation that read its token before a password reset creates the
   replacement after it (`token.service.ts:113`), and the old session lives on.
   `SurvivorsWereCaught` says that nothing else lets a session survive.

Not a run, since it needs one step only: a first charge that throws leaves an active
sponsorship without an order (`sponsorships.service.ts:235`).

## 6. Proofs

Every theorem holds for all values of the constants that satisfy the module's
`ASSUME`, and TLC evaluates each assumption in the runs.

| module | theorems | argument |
| --- | --- | --- |
| `SponsorshipBilling_proofs` | `TypeCorrect`, `RecoverableAlways`, `AlwaysContiguous`, `AlwaysOneOpen`, `AlwaysApproved`, `PaidForGood`, `ImplementsPromise`, `LadderNeverLost` | The ladder has three attempts and `MaxAttempts >= 3`, hence a next attempt exists (`LadderWalks`). For recoverability `LedgerSteps` sets aside the steps that touch neither table; a failed period stays failed (`FailedStays`) unless a payment is credited, and that happens either to a sponsorship not suspended for billing or together with its reactivation. The ledger needs `LedgerInv`, and the ladder `LadderInv`, below. `ImplementsPromise` shows for each writing step that what is seen of it is one step of the promise (`SeenOpening`, `SeenTrying`, `SeenFailing`, `SeenPaying`), or nothing (`SeenResting`), and for every step that no approval of an order on file is lost (`ApprovalKept`). |
| `Donations_proofs` | `TypeCorrect`, `AlwaysAgrees`, `AlwaysPapersMatch`, `Sealed` | `Inv` adds what a webhook or officer between two steps knows: a terminal status it was told is still the order's (`WebhookKnows`), the donation it works on is approved (`OfficerKnows`). Without them a late step could contradict the gateway. |
| `CampaignFunding_proofs` | `TypeCorrect`, `AlwaysCountedApart`, `AlwaysRaisedIsLedger`, `Implements` | `Inv` adds `OneRow` (a transaction visits one row at a time) and, for the bound, that the entries of a campaign are counted by one transaction at a time (`OneHolder`) whose sum fits the column (`HeldFits`). An entry is held only if no other transaction holds it and the ledger has it not; so at `Commit` two disjoint sets are united and their nets add up (`NetsAdd` by `SumUnion`, `CommitAdds`). `Implements` maps `Commit` to `Count(counted)`, everything else to a stutter. |
| `FollowUp_proofs` | `TypeCorrect`, `RepresentativeSignsFirst`, `AcceptedSignaturesStay`, `AlertsOnce`, `Implements` | `AdoptionInv` says of each contract, copy, note and accepted signature what `Develops` preserves: parties never change, a copy is of signatures that were there, the adopter's is taken only on a sent contract the representative signed. A contract is signed only when all its parties have (`ContractInv`). With two parties their order leaves no room for two rival copies. `Implements` maps the creation of a contract to `Draw`, the write that completes the signatures to `Seal` by all the parties drawn, schedulings to `Open`, completions to `Close`, and uses the freeze for the rest. |
| `Services_proofs`: resources | `ResourcesTypeCorrect`, `CountsOnce`, `ApprovalFinal`, `OvercountsNever` | `ApplicationsInv`: of the members between insert and commit no two hold one delivery (`Locked`), whose application is not there yet. `CreditedInv`: what the need shows, and what any member between read and commit read of it, is no more than the sum of the applications; a stale copy stays below, since the sum only grows. |
| `Services_proofs`: volunteering | `VolunteeringTypeCorrect`, `CertificatesEarned`, `CertificatesFinal` | `CertificatesInv`: each certificate issued, and each one an officer has computed and not inserted, is of sessions that were approved, adds up to their hours and has what its kind of enrollment asks for. Approved is history, so that a session decided again afterwards does not unmake it. |
| `Services_proofs`: commissions | `ReachesIntended`, `AlwaysPositive`, `NeverCosts` | Each rounding is bounded by linear inequalities (`RoundingOf...`), their sum by `Drift`; the bounds for one and for two amounts follow by linear arithmetic. `MinDonationAmount >= 907` is where these bounds leave a positive net (the exact threshold is 906); the program has 1000. |
| `Services_proofs`: the run | `RunsEachComponent`, `ServicesTypeCorrect` | The run `services` lets one component move and the others stutter, so that its specification implies each component's, and with it all that is proved of them. |
| `Formalization_proofs` | `FormalizationTypeCorrect`, `RteAlwaysEarned`, `RetryingAlwaysHasAJob`, `DecisionsStay` | `EarnedInv` carries the confirmation through what owners and reviewers have read: a stale move to RTE or a stale level 4 was computed when it was already earned. `RetryInv`: the status is "retrying" only beside a job whose last attempt is not over. |
| `Sessions_proofs` | `SessionsTypeCorrect`, `NeverRefusedByItself`, `OnlyCaughtSessionsSurvive` | `OnceInv`: no two calls of one tab present, or bring, the same token, and a token a tab has rotated away is held by it only while the refresh that replaces it is under way (`UsedUp`, `Covered`), so that it is not presented again. Three lemmas stand for the actions: a tab sends a call (`Sending`), a call ends for its tab (`Ending`), the API goes on with one (`GoesOn`). `ResetInv`: each live token is of a session begun since the last reset, or of one caught by it (`Current`), and a rotation that has read either read such a token after that reset, or before it, and then its replacement will be caught (`RotationInv`). With any number of resets. |

Assumptions: the calendar covers the days and the ladder's settings are
positive integers, in no particular order (`BillingAssumption`); donations, offers and
sessions are finite sets and nets are integers (`FundingAssumption`, `ResourcesAssumption`,
`VolunteeringAssumption`); guests are donations (`DonationAssumption`); amounts
are positive integers (`BreakdownAssumption`).

Sums. `NetOf`, `NeverOvercounts` and `CertificateEarned` are about the sum of a function over a
finite set, which the library defines by recursion and which would be proved about by
induction over sets. The library's induction theorem takes a predicate and cannot be
instantiated here; `Sums_proofs` argues by the smallest counterexample instead: proper
inclusion of finite sets is well founded (`FS_StrictSubsetOrderingWellFounded`), hence a
non-empty set of subsets on which a fact fails has a minimal one (`WFMin`), and taking an
element from it leads to a smaller one. `SumUnion` (disjoint sets add up) and the lemmas
beside it are what the three proofs cite.

Only model-checked. Liveness (`ApprovedRetryIsCredited`, `OverduePeriodSettles`,
`NotifiedIsSettled`, `TransactionsEnd`, `CatchUp`, `DueIsNoticed`) is out of the prover's
reach, since fairness is defined by ENABLED.

`LedgerInv` is what the tables say (`Tables`: a period exists iff its counter is
positive, its attempts are 1 to the counter, only the last of an open period is
pending, paid means approved) together with what requests and jobs remember.
Without the second half a step on a stale copy could break the first:

- `Copies`: a row a scan holds is of an existing period whose counter is at least
  the one copied;
- `Retries`: a retry in flight is of a failed or paid period, with a number from 2
  to counter + 1;
- `FirstOrders`: a subscription still without its first record has no attempt that
  is a real order, and an approved answer in flight is the gateway's;
- `OneRow`, `Held`: a worker walks one row; at most one transaction holds a period, one
  that is failing it finds it pending or failed, one that is confirming it finds its
  attempt recorded and approved.

`LadderNeverLost` assumes one worker, and is false without it: two scans on copies
of one period can send a reminder twice. `LadderInv` adds that the copies of
that worker's scan are of different periods and, while a period is open, equal
to its row (`InStep`), so that each walk starts on a rung and `RungsFollow` ends it on one.

## 7. Limits

- Transient database errors are covered only as `Crash`. Gateway statuses are
  `pending`, `approved` and `declined`; cancelled, expired and refunded orders,
  which the adapter maps to `voided` or `error` and no table follows, are left out.
- Idempotency keys are unique per sponsorship, period and attempt, or per donation;
  one key used by two organizations is not modelled.
- E-mails, notifications, audit rows and PDF contents are left out: nothing
  that is modelled reads them back. A reminder of the ladder is its counter.
- Sponsorship plans and the creation of campaigns are plain CRUD. The profile check
  of a donor precedes every step of a donation and only rejects it.
- Row-level security is taken as given: each model is of one organization.
- Bounds (`Days`, `MaxAttempts`, `MaxInFlight`, `MaxFaults`) are in guards and named in
  each module; the sponsor's retries have no bound in the code.
- `RetryingHasAJob` and the other properties of formalization suppose that BullMQ keeps
  its jobs; the cooldown between manual retries is left out, so that more of them overlap.
- In `Sessions` a tab whose refresh succeeded may still fail the `me()` that follows; and
  the cookie of a lost answer is not set, though a browser may keep it. One user; users share
  nothing. Roles, guards and two-factor codes do not touch these tables.
- `issue` reads hours, enrollment and opportunity in several statements, taken here at one
  instant; the reads in between only refuse.
- A mutant in the comment of a definition is one plausible bug, not a proof that
  no other would go unnoticed.

Not modelled, and why.

- Payouts: the gateway's `createPayout` is a stub that throws
  (`mercadopago-payment.adapter.ts:441`), so that no payout is ever dispatched and no
  webhook comes; what the two do together is not decided in this code yet.
- MercadoPago connection: a row of encrypted tokens, written by the callback and the refresh
  job by id; what a token is worth only the gateway knows.
- Clinical reminders: one row written by id by the job and the user; nothing reads it.
- Animals, marketplace, community, reviews, campaigns' creation: rows inserted and updated one
  by one, under unique keys; a model would restate each statement.
- Portals and dashboards: reads. Storage, e-mail, audit and crypto: adapters without state.
- Tenant isolation: declared in SQL policies, one per table; it has no behaviour in time.
- Web client: about half of the repository's lines are pages, forms and routes over the API.
  Only the session client keeps state that others depend on, and is in `Sessions`.
