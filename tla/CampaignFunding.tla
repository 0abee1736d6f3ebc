---------------------------- MODULE CampaignFunding ----------------------------
(***************************************************************************)
(* Funding of campaigns: apply_campaign_funding, run by the webhook of a   *)
(* donation that has just been approved, and                               *)
(* reconcile_org_campaign_funding, which the organization runs to catch up *)
(* and which calls the former for each row of its query.                   *)
(*                                                                         *)
(* Each call is one PostgreSQL transaction at READ COMMITTED, several run  *)
(* at once.  A step is one statement: it sees what has been committed, it  *)
(* waits for the transaction that holds the row it writes, and the rows it *)
(* writes stay held until its own transaction commits.                     *)
(***************************************************************************)
EXTENDS Integers, FiniteSets, Functions

CONSTANTS
  Collections,   \* donations made to campaigns, by collection id
  Campaigns,
  Concept,       \* the campaign each donation was made to
  Amount,        \* the net of each donation, in pesos
  Transactions,  \* the database sessions that may run funding
  MaxInteger,    \* the largest value of the column raised_amount
  MaxCrashes     \* bound: restarts of the API process

For(S, c) == {k \in S : Concept[k] = c}

(* The net of a set of donations.                                          *)
NetOf(S) == SumFunctionOnSet(Amount, S)

ASSUME FundingAssumption ==
  /\ Concept \in [Collections -> Campaigns]
  /\ IsFiniteSet(Collections)
  /\ Amount \in [Collections -> Int]
  /\ MaxInteger \in Nat
  /\ MaxCrashes \in Nat

VARIABLES
  approvals, \* table donations: those approved
  campaign,  \* table campaigns: status
  raised,    \* table campaigns: raised_amount
  ledger,    \* table campaign_funding_applications
  called,    \* donations whose webhook is about to call applyApprovedCollection
  tx,        \* the funding transactions that are running
  crashes

fundingVars == <<approvals, campaign, raised, ledger, called, tx, crashes>>

(* "closed" stands for every status that is not "active".                  *)
CampaignStatus == {"active", "closed"}

(* A transaction holds the rows its query returned and still has to visit, *)
(* the one it is visiting, and those it has counted.                       *)
Tx == [caller : {"none", "webhook", "reconcile"},
       at     : {"loop", "insert", "update"},
       todo   : SUBSET Collections,
       row    : SUBSET Collections,
       counted : SUBSET Collections]

NoTx == [caller |-> "none", at |-> "loop", todo |-> {}, row |-> {}, counted |-> {}]

Running(t) == tx[t].caller # "none"

(* The rows a transaction has written: ledger entries and campaigns.       *)
HeldEntries(t) == tx[t].counted \cup (IF tx[t].at = "update" THEN tx[t].row ELSE {})
HeldCampaigns(t) == {Concept[k] : k \in tx[t].counted}

(* Mutant: collection_id is not a unique key.                              *)
WaitsForCampaignOnly(t, u) ==
  /\ t # u
  /\ tx[t].at = "update" /\ {Concept[k] : k \in tx[t].row} \cap HeldCampaigns(u) # {}

(* t waits for u to end before its next write.                             *)
WaitsFor(t, u) ==
  /\ t # u
  /\ \/ tx[t].at = "insert" /\ tx[t].row \cap HeldEntries(u) # {}
     \/ tx[t].at = "update" /\ {Concept[k] : k \in tx[t].row} \cap HeldCampaigns(u) # {}

Blocked(t) == \E u \in Transactions : WaitsFor(t, u)

(* Only an approved donation to an active campaign counts.                 *)
Countable(k) == k \in approvals /\ campaign[Concept[k]] = "active"

FundingInit ==
  /\ approvals = {}
  /\ campaign = [c \in Campaigns |-> "active"]
  /\ raised = [c \in Campaigns |-> 0]
  /\ ledger = {}
  /\ called = {}
  /\ tx = [t \in Transactions |-> NoTx]
  /\ crashes = 0

(***************************************************************************)
(* The callers                                                             *)
(***************************************************************************)
(* The webhook approves the donation, then calls applyApprovedCollection.  *)
Approve(k) ==
  /\ k \notin approvals
  /\ approvals' = approvals \cup {k}
  /\ called' = called \cup {k}
  /\ UNCHANGED <<campaign, raised, ledger, tx, crashes>>

ApplyApprovedCollection(t, k) ==
  /\ ~Running(t)
  /\ k \in called
  /\ called' = called \ {k}
  /\ tx' = [tx EXCEPT ![t] = [NoTx EXCEPT !.caller = "webhook", !.todo = {k}]]
  /\ UNCHANGED <<approvals, campaign, raised, ledger, crashes>>

(* Mutant: the query looks for the donations the ledger has.               *)
ReconcileCounted(t) ==
  /\ ~Running(t)
  /\ tx' = [tx EXCEPT ![t] = [NoTx EXCEPT !.caller = "reconcile",
              !.todo = {k \in Collections : Countable(k) /\ k \in ledger}]]
  /\ UNCHANGED <<approvals, campaign, raised, ledger, called, crashes>>

ReconcileMyOrg(t) ==
  /\ ~Running(t)
  /\ tx' = [tx EXCEPT ![t] = [NoTx EXCEPT !.caller = "reconcile",
              !.todo = {k \in Collections : Countable(k) /\ k \notin ledger}]]
  /\ UNCHANGED <<approvals, campaign, raised, ledger, called, crashes>>

(* The organization edits the campaign: any status may follow any other.   *)
UpdateCampaign(c) ==
  /\ \A t \in Transactions : c \notin HeldCampaigns(t)
  /\ \E status \in CampaignStatus : campaign' = [campaign EXCEPT ![c] = status]
  /\ UNCHANGED <<approvals, raised, ledger, called, tx, crashes>>

(***************************************************************************)
(* apply_campaign_funding, once per row                                    *)
(***************************************************************************)
(* Mutant: the loop stays at the row it skips.                             *)
CheckRowAgain(t, k) ==
  /\ Running(t)
  /\ tx[t].at = "loop"
  /\ k \in tx[t].todo
  /\ tx' = [tx EXCEPT ![t].todo = IF Countable(k) THEN @ \ {k} ELSE @,
                      ![t].row = IF Countable(k) THEN {k} ELSE {},
                      ![t].at = IF Countable(k) THEN "insert" ELSE "loop"]
  /\ UNCHANGED <<approvals, campaign, raised, ledger, called, crashes>>

CheckRow(t, k) ==
  /\ Running(t)
  /\ tx[t].at = "loop"
  /\ k \in tx[t].todo
  /\ tx' = [tx EXCEPT ![t].todo = @ \ {k},
                      ![t].row = IF Countable(k) THEN {k} ELSE {},
                      ![t].at = IF Countable(k) THEN "insert" ELSE "loop"]
  /\ UNCHANGED <<approvals, campaign, raised, ledger, called, crashes>>

(* Mutant: the result of the insert is not looked at.                      *)
InsertEntryUnchecked(t, k) ==
  /\ tx[t].at = "insert"
  /\ k \in tx[t].row
  /\ ~Blocked(t)
  /\ tx' = [tx EXCEPT ![t].at = "update"]
  /\ UNCHANGED <<approvals, campaign, raised, ledger, called, crashes>>

(* ON CONFLICT DO NOTHING: an entry that exists ends the row.  One that    *)
(* another transaction has written, and not committed, makes it wait.      *)
InsertEntry(t, k) ==
  /\ tx[t].at = "insert"
  /\ k \in tx[t].row
  /\ ~Blocked(t)
  /\ tx' = [tx EXCEPT ![t] = IF k \in ledger
                               THEN [@ EXCEPT !.at = "loop", !.row = {}]
                               ELSE [@ EXCEPT !.at = "update"]]
  /\ UNCHANGED <<approvals, campaign, raised, ledger, called, crashes>>

(* raised_amount as the transaction sees it: committed, and its own.       *)
RaisedIn(t, c) == raised[c] + NetOf(For(tx[t].counted, c))

(* Mutant: the column is as wide as need be.                               *)
UpdateRaisedUnbounded(t, k) ==
  /\ tx[t].at = "update"
  /\ k \in tx[t].row
  /\ ~Blocked(t)
  /\ tx' = [tx EXCEPT ![t].at = "loop", ![t].row = {}, ![t].counted = @ \cup {k}]
  /\ UNCHANGED <<approvals, campaign, raised, ledger, called, crashes>>

UpdateRaised(t, k) ==
  /\ tx[t].at = "update"
  /\ k \in tx[t].row
  /\ ~Blocked(t)
  /\ RaisedIn(t, Concept[k]) + Amount[k] <= MaxInteger
  /\ tx' = [tx EXCEPT ![t].at = "loop", ![t].row = {}, ![t].counted = @ \cup {k}]
  /\ UNCHANGED <<approvals, campaign, raised, ledger, called, crashes>>

(* "integer out of range": the statement throws, all of the call with it.  *)
UpdateOverflows(t, k) ==
  /\ tx[t].at = "update"
  /\ k \in tx[t].row
  /\ ~Blocked(t)
  /\ RaisedIn(t, Concept[k]) + Amount[k] > MaxInteger
  /\ tx' = [tx EXCEPT ![t] = NoTx]
  /\ UNCHANGED <<approvals, campaign, raised, ledger, called, crashes>>

Commit(t) ==
  /\ Running(t)
  /\ tx[t].at = "loop" /\ tx[t].todo = {}
  /\ ledger' = ledger \cup tx[t].counted
  /\ raised' = [c \in Campaigns |-> RaisedIn(t, c)]
  /\ tx' = [tx EXCEPT ![t] = NoTx]
  /\ UNCHANGED <<approvals, campaign, called, crashes>>

(***************************************************************************)
(* Environment                                                             *)
(***************************************************************************)
(* The server finds transactions waiting on each other and rolls one back: *)
(* the loop has no ORDER BY, so that two reconciliations may visit rows in *)
(* opposite orders.                                                        *)
Deadlocked(t) ==
  \E W \in SUBSET Transactions :
    /\ t \in W
    /\ \A u \in W : /\ \E v \in W : WaitsFor(u, v)
                    /\ \E v \in W : WaitsFor(v, u)

DeadlockVictim(t) ==
  /\ Deadlocked(t)
  /\ tx' = [tx EXCEPT ![t] = NoTx]
  /\ UNCHANGED <<approvals, campaign, raised, ledger, called, crashes>>

(* The process restarts: its transactions roll back, its calls are lost.   *)
FundingCrash ==
  /\ crashes < MaxCrashes
  /\ crashes' = crashes + 1
  /\ tx' = [t \in Transactions |-> NoTx]
  /\ called' = {}
  /\ UNCHANGED <<approvals, campaign, raised, ledger>>

TxStep(t) ==
  \/ \E k \in tx[t].todo : CheckRow(t, k)
  \/ \E k \in tx[t].row : InsertEntry(t, k) \/ UpdateRaised(t, k) \/ UpdateOverflows(t, k)
  \/ Commit(t)
  \/ DeadlockVictim(t)

FundingNext ==
  \/ \E k \in Collections : Approve(k)
  \/ \E t \in Transactions :
       \/ \E k \in called : ApplyApprovedCollection(t, k)
       \/ ReconcileMyOrg(t)
       \/ TxStep(t)
  \/ \E c \in Campaigns : UpdateCampaign(c)
  \/ FundingCrash

FundingSpec == FundingInit /\ [][FundingNext]_fundingVars

(* The server goes on with every transaction it has begun, and serves those*)
(* that wait for a row in the order they came.                             *)
FundingFairness == \A t \in Transactions : SF_fundingVars(TxStep(t))

(***************************************************************************)
(* Properties                                                              *)
(***************************************************************************)
(* Every variable keeps its type. *)
FundingTypeOK ==
  /\ approvals \subseteq Collections
  /\ campaign \in [Campaigns -> CampaignStatus]
  /\ raised \in [Campaigns -> Int]
  /\ ledger \subseteq Collections
  /\ called \subseteq Collections
  /\ tx \in [Transactions -> Tx]
  /\ crashes \in 0 .. MaxCrashes

(* The amount a campaign shows is the net of the donations the ledger says *)
(* were counted, no more and no less, and never past what its column       *)
(* holds: whatever webhooks, reconciliations, overflows, deadlocks and     *)
(* restarts come between, and though a transaction adds its rows up one by *)
(* one and all of them appear with its commit.                             *)
RaisedIsLedger ==
  \A c \in Campaigns :
    /\ raised[c] = NetOf(For(ledger, c))
    /\ raised[c] <= MaxInteger

(* Two transactions never count the same donation, nor one the ledger has. *)
CountedApart ==
  \A t \in Transactions :
    /\ HeldEntries(t) \cap ledger = {}
    /\ \A u \in Transactions \ {t} : HeldEntries(t) \cap HeldEntries(u) = {}

(* EXACTLY ONCE (comment at the head of the migration): the tables and     *)
(* functions implement a ledger that counts each donation once.            *)
Ledger == INSTANCE CampaignLedger WITH Net <- NetOf
CountsExactlyOnce == Ledger!Spec

(* Every funding call comes to an end: transactions that wait for each     *)
(* other's rows do not wait for ever.                                      *)
TransactionsEnd ==
  \A t \in Transactions : Running(t) ~> ~Running(t)

(* The catch-up catches up: while reconciliations go on completing, a      *)
(* donation whose webhook never got to count it is counted, unless its     *)
(* campaign stops being active.                                            *)
Reconciled ==
  \E t \in Transactions : tx[t].caller = "reconcile" /\ Commit(t)

CatchUp ==
  []<><<Reconciled>>_fundingVars
    => \A k \in Collections :
         (k \in approvals /\ campaign[Concept[k]] = "active")
           ~> (k \in ledger \/ campaign[Concept[k]] # "active")
=============================================================================
