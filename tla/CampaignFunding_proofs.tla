------------------------ MODULE CampaignFunding_proofs ------------------------
(***************************************************************************)
(* Proofs about CampaignFunding, for any number of donations, campaigns    *)
(* and transactions and any nets.                                          *)
(***************************************************************************)
EXTENDS CampaignFunding, Sums_proofs

(* A transaction visits one row at a time, and each row once. *)
OneRow ==
  \A t \in Transactions :
    /\ \A j, k \in tx[t].row : j = k
    /\ tx[t].row \cap (tx[t].todo \cup tx[t].counted) = {}
    /\ tx[t].todo \cap tx[t].counted = {}

(* The row of a campaign is held by one transaction at most, ... *)
OneHolder ==
  \A t \in Transactions : \A u \in Transactions \ {t} :
    HeldCampaigns(t) \cap HeldCampaigns(u) = {}

(* ... which has checked what the amount will be once it commits. *)
HeldFits ==
  \A t \in Transactions : \A c \in HeldCampaigns(t) : RaisedIn(t, c) <= MaxInteger

Inv == FundingTypeOK /\ OneRow /\ CountedApart /\ OneHolder /\ HeldFits /\ RaisedIsLedger

LEMMA NoTxType == NoTx \in Tx
BY DEF NoTx, Tx

LEMMA TxFields ==
  ASSUME FundingTypeOK, NEW t \in Transactions
  PROVE  /\ tx[t] \in Tx
         /\ tx[t].todo \subseteq Collections
         /\ tx[t].row \subseteq Collections
         /\ tx[t].counted \subseteq Collections
         /\ HeldEntries(t) \subseteq Collections
<1>1. tx[t] \in Tx
  BY DEF FundingTypeOK
<1> QED
  BY <1>1 DEF Tx, HeldEntries

LEMMA ForSubset ==
  ASSUME NEW A \in SUBSET Collections, NEW c \in Campaigns
  PROVE  /\ For(A, c) \subseteq A
         /\ IsFiniteSet(For(A, c))
         /\ \A k \in For(A, c) : Amount[k] \in Int
<1>1. For(A, c) \subseteq A /\ For(A, c) \subseteq Collections
  BY DEF For
<1> QED
  BY <1>1, FundingAssumption, FS_Subset

(* The nets of disjoint sets of donations add up, campaign by campaign.    *)
LEMMA NetsAdd ==
  ASSUME NEW A \in SUBSET Collections, NEW B \in SUBSET Collections,
         A \cap B = {}, NEW c \in Campaigns
  PROVE  NetOf(For(A \cup B, c)) = NetOf(For(A, c)) + NetOf(For(B, c))
<1> DEFINE P == For(A, c)
           Q == For(B, c)
<1>1. P \cap Q = {} /\ For(A \cup B, c) = P \cup Q
  BY DEF For
<1>2. IsFiniteSet(P) /\ IsFiniteSet(Q) /\ \A k \in P \cup Q : Amount[k] \in Int
  BY ForSubset
<1> HIDE DEF P, Q
<1>3. SumFunctionOnSet(Amount, P \cup Q)
        = SumFunctionOnSet(Amount, P) + SumFunctionOnSet(Amount, Q)
  BY ONLY <1>1, <1>2, SumUnion
<1> QED
  BY <1>1, <1>3 DEF NetOf, P, Q

LEMMA NetType ==
  ASSUME NEW A \in SUBSET Collections, NEW c \in Campaigns
  PROVE  NetOf(For(A, c)) \in Int
  BY ForSubset, SumType DEF NetOf

LEMMA NetEmpty == NetOf({}) = 0
BY SumEmpty DEF NetOf

(* Of a campaign it does not hold, a transaction sees what is committed. *)
LEMMA NotHeld ==
  ASSUME FundingTypeOK, NEW t \in Transactions, NEW c \in Campaigns, c \notin HeldCampaigns(t)
  PROVE  RaisedIn(t, c) = raised[c]
<1>1. For(tx[t].counted, c) = {}
  BY DEF For, HeldCampaigns
<1> QED
  BY <1>1, NetEmpty DEF RaisedIn, FundingTypeOK

LEMMA HeldAreCampaigns ==
  ASSUME FundingTypeOK, NEW t \in Transactions
  PROVE  HeldCampaigns(t) \subseteq Campaigns
BY TxFields, FundingAssumption DEF HeldCampaigns

(* A call begins with nothing written, and a rollback leaves nothing.      *)
Fresh(r) == r.row = {} /\ r.counted = {} /\ r.at = "loop"

LEMMA NoTxFresh == Fresh(NoTx)
BY DEF Fresh, NoTx

LEMMA WebhookBegins ==
  ASSUME NEW t \in Transactions, NEW k, ApplyApprovedCollection(t, k)
  PROVE  \E r : Fresh(r) /\ tx' = [tx EXCEPT ![t] = r]
<1> DEFINE r == [NoTx EXCEPT !.caller = "webhook", !.todo = {k}]
<1>1. Fresh(r)
  BY DEF Fresh, NoTx
<1>2. tx' = [tx EXCEPT ![t] = r]
  BY DEF ApplyApprovedCollection
<1> QED
  BY <1>1, <1>2

LEMMA ReconcileBegins ==
  ASSUME NEW t \in Transactions, ReconcileMyOrg(t)
  PROVE  \E r : Fresh(r) /\ tx' = [tx EXCEPT ![t] = r]
<1> DEFINE r == [NoTx EXCEPT !.caller = "reconcile",
                   !.todo = {k \in Collections : Countable(k) /\ k \notin ledger}]
<1>1. Fresh(r)
  BY DEF Fresh, NoTx
<1>2. tx' = [tx EXCEPT ![t] = r]
  BY DEF ReconcileMyOrg
<1> QED
  BY <1>1, <1>2

(***************************************************************************)
(* Type correctness                                                        *)
(***************************************************************************)
LEMMA InitType == FundingInit => FundingTypeOK
BY NoTxType, FundingAssumption DEF FundingInit, FundingTypeOK, CampaignStatus

LEMMA RowType ==
  ASSUME FundingTypeOK, NEW t \in Transactions, NEW r \in Tx, tx' = [tx EXCEPT ![t] = r]
  PROVE  tx' \in [Transactions -> Tx]
BY DEF FundingTypeOK

LEMMA StepType == FundingTypeOK /\ [FundingNext]_fundingVars => FundingTypeOK'
<1> SUFFICES ASSUME FundingTypeOK, [FundingNext]_fundingVars PROVE FundingTypeOK'
  OBVIOUS
<1> USE NoTxType
<1>1. CASE UNCHANGED fundingVars
  BY <1>1 DEF fundingVars, FundingTypeOK
<1>2. ASSUME NEW k \in Collections, Approve(k) PROVE FundingTypeOK'
  BY <1>2 DEF Approve, FundingTypeOK
<1>3. ASSUME NEW t \in Transactions, NEW k \in called, ApplyApprovedCollection(t, k) PROVE FundingTypeOK'
  <2>1. [NoTx EXCEPT !.caller = "webhook", !.todo = {k}] \in Tx
    BY <1>3 DEF FundingTypeOK, NoTx, Tx
  <2>2. tx' \in [Transactions -> Tx]
    BY <1>3, <2>1, RowType DEF ApplyApprovedCollection
  <2> QED
    BY <1>3, <2>2 DEF ApplyApprovedCollection, FundingTypeOK
<1>4. ASSUME NEW t \in Transactions, ReconcileMyOrg(t) PROVE FundingTypeOK'
  <2> DEFINE todo == {k \in Collections : Countable(k) /\ k \notin ledger}
  <2>1. todo \subseteq Collections
    BY DEF FundingTypeOK
  <2>2. [NoTx EXCEPT !.caller = "reconcile", !.todo = todo] \in Tx
    BY <2>1 DEF NoTx, Tx
  <2>3. tx' = [tx EXCEPT ![t] = [NoTx EXCEPT !.caller = "reconcile", !.todo = todo]]
    BY <1>4 DEF ReconcileMyOrg
  <2> HIDE DEF todo
  <2>4. tx' \in [Transactions -> Tx]
    BY <2>2, <2>3, RowType
  <2> QED
    BY <1>4, <2>4 DEF ReconcileMyOrg, FundingTypeOK
<1>5. ASSUME NEW t \in Transactions, NEW k \in tx[t].todo, CheckRow(t, k) PROVE FundingTypeOK'
  <2>1. k \in Collections
    BY <1>5, TxFields
  <2> DEFINE r == [tx[t] EXCEPT !.todo = @ \ {k},
                     !.row = IF Countable(k) THEN {k} ELSE {},
                     !.at = IF Countable(k) THEN "insert" ELSE "loop"]
  <2>4. r \in Tx
    BY <2>1, TxFields DEF Tx
  <2>5. tx' = [tx EXCEPT ![t] = r]
    BY <1>5 DEF CheckRow, FundingTypeOK
  <2> HIDE DEF r
  <2>6. tx' \in [Transactions -> Tx]
    BY <2>4, <2>5, RowType
  <2> QED
    BY <1>5, <2>6 DEF CheckRow, FundingTypeOK
<1>6. ASSUME NEW t \in Transactions, NEW k \in tx[t].row, InsertEntry(t, k) PROVE FundingTypeOK'
  <2>1. [tx[t] EXCEPT !.at = "loop", !.row = {}] \in Tx
    BY TxFields DEF Tx
  <2>2. [tx[t] EXCEPT !.at = "update"] \in Tx
    BY TxFields DEF Tx
  <2> DEFINE r == IF k \in ledger THEN [tx[t] EXCEPT !.at = "loop", !.row = {}]
                                  ELSE [tx[t] EXCEPT !.at = "update"]
  <2>4. r \in Tx /\ tx' = [tx EXCEPT ![t] = r]
    BY <1>6, <2>1, <2>2 DEF InsertEntry
  <2> HIDE DEF r
  <2>5. tx' \in [Transactions -> Tx]
    BY <2>4, RowType
  <2> QED
    BY <1>6, <2>5 DEF InsertEntry, FundingTypeOK
<1>7. ASSUME NEW t \in Transactions, NEW k \in tx[t].row, UpdateRaised(t, k) PROVE FundingTypeOK'
  <2>1. k \in Collections
    BY <1>7, TxFields
  <2>2. [tx[t] EXCEPT !.at = "loop", !.row = {}, !.counted = @ \cup {k}] \in Tx
    BY <2>1, TxFields DEF Tx
  <2>3. tx' = [tx EXCEPT ![t] = [tx[t] EXCEPT !.at = "loop", !.row = {}, !.counted = @ \cup {k}]]
    BY <1>7 DEF UpdateRaised, FundingTypeOK
  <2>4. tx' \in [Transactions -> Tx]
    BY <2>2, <2>3, RowType
  <2> QED
    BY <1>7, <2>4 DEF UpdateRaised, FundingTypeOK
<1>8. ASSUME NEW t \in Transactions, NEW k \in tx[t].row, UpdateOverflows(t, k) PROVE FundingTypeOK'
  BY <1>8 DEF UpdateOverflows, FundingTypeOK
<1>9. ASSUME NEW t \in Transactions, Commit(t) PROVE FundingTypeOK'
  <2>1. \A c \in Campaigns : RaisedIn(t, c) \in Int
    BY TxFields, NetType DEF RaisedIn, FundingTypeOK
  <2> QED
    BY <1>9, <2>1, TxFields DEF Commit, FundingTypeOK
<1>10. ASSUME NEW t \in Transactions, DeadlockVictim(t) PROVE FundingTypeOK'
  BY <1>10 DEF DeadlockVictim, FundingTypeOK
<1>11. ASSUME NEW c \in Campaigns, UpdateCampaign(c) PROVE FundingTypeOK'
  BY <1>11 DEF UpdateCampaign, FundingTypeOK
<1>12. CASE FundingCrash
  BY <1>12, FundingAssumption DEF FundingCrash, FundingTypeOK
<1> QED
  BY <1>1, <1>2, <1>3, <1>4, <1>5, <1>6, <1>7, <1>8, <1>9, <1>10, <1>11, <1>12 DEF FundingNext, TxStep

(* Every reachable state is well typed. *)
THEOREM TypeCorrect == FundingSpec => []FundingTypeOK
BY InitType, StepType, PTL DEF FundingSpec

(***************************************************************************)
(* The invariant.  What a transaction holds only grows by the row it has   *)
(* just inserted, which nobody else holds and the ledger has not.          *)
(***************************************************************************)
(* The steps of one transaction that leave the ledger alone. *)
LEMMA ApartStep ==
  ASSUME CountedApart, NEW t \in Transactions, ledger' = ledger,
         \A u \in Transactions \ {t} : tx'[u] = tx[u],
         HeldEntries(t)' \cap ledger = {},
         \A u \in Transactions \ {t} : HeldEntries(t)' \cap HeldEntries(u) = {}
  PROVE  CountedApart'
<1>1. \A u \in Transactions \ {t} : HeldEntries(u)' = HeldEntries(u)
  BY DEF HeldEntries
<1> QED
  BY <1>1 DEF CountedApart

LEMMA ApartShrinks ==
  ASSUME CountedApart, NEW t \in Transactions, ledger' = ledger,
         \A u \in Transactions \ {t} : tx'[u] = tx[u],
         HeldEntries(t)' \subseteq HeldEntries(t)
  PROVE  CountedApart'
BY ApartStep DEF CountedApart

LEMMA StepRows == FundingTypeOK /\ OneRow /\ [FundingNext]_fundingVars => OneRow'
<1> SUFFICES ASSUME FundingTypeOK, OneRow, [FundingNext]_fundingVars PROVE OneRow'
  OBVIOUS
<1> USE DEF OneRow
<1>1. CASE UNCHANGED tx
  BY <1>1
<1>2. ASSUME NEW t \in Transactions, NEW r, tx' = [tx EXCEPT ![t] = r],
             Fresh(r)
      PROVE  OneRow'
  BY <1>2 DEF FundingTypeOK, Fresh
<1>3. ASSUME NEW t \in Transactions, NEW k \in called, ApplyApprovedCollection(t, k) PROVE OneRow'
  BY <1>3, <1>2, WebhookBegins
<1>4. ASSUME NEW t \in Transactions, ReconcileMyOrg(t) PROVE OneRow'
  BY <1>4, <1>2, ReconcileBegins
<1>5. ASSUME NEW t \in Transactions, NEW k \in tx[t].todo, CheckRow(t, k) PROVE OneRow'
  BY <1>5, TxFields DEF CheckRow, FundingTypeOK, Tx
<1>6. ASSUME NEW t \in Transactions, NEW k \in tx[t].row, InsertEntry(t, k) PROVE OneRow'
  BY <1>6, TxFields DEF InsertEntry, FundingTypeOK, Tx
<1>7. ASSUME NEW t \in Transactions, NEW k \in tx[t].row, UpdateRaised(t, k) PROVE OneRow'
  BY <1>7, TxFields DEF UpdateRaised, FundingTypeOK, Tx
<1>8. ASSUME NEW t \in Transactions, tx' = [tx EXCEPT ![t] = NoTx] PROVE OneRow'
  BY <1>8, <1>2, NoTxFresh
<1>9. CASE FundingCrash
  BY <1>9 DEF FundingCrash, NoTx
<1> QED
  BY <1>1, <1>3, <1>4, <1>5, <1>6, <1>7, <1>8, <1>9
     DEF FundingNext, TxStep, fundingVars, Approve, UpdateCampaign, UpdateOverflows, Commit, DeadlockVictim

LEMMA StepApart == FundingTypeOK /\ OneRow /\ CountedApart /\ [FundingNext]_fundingVars => CountedApart'
<1> SUFFICES ASSUME FundingTypeOK, OneRow, CountedApart, [FundingNext]_fundingVars PROVE CountedApart'
  OBVIOUS
<1>1. CASE UNCHANGED <<tx, ledger>>
  BY <1>1 DEF CountedApart, HeldEntries
<1>2. ASSUME NEW t \in Transactions, NEW r, tx' = [tx EXCEPT ![t] = r], ledger' = ledger,
             Fresh(r)
      PROVE  CountedApart'
  <2>1. tx'[t] = r /\ \A u \in Transactions \ {t} : tx'[u] = tx[u]
    BY <1>2 DEF FundingTypeOK
  <2>2. HeldEntries(t)' = {}
    BY <1>2, <2>1 DEF HeldEntries, Fresh
  <2> QED
    BY <1>2, <2>1, <2>2, ApartShrinks
<1>3. ASSUME NEW t \in Transactions, NEW k \in called, ApplyApprovedCollection(t, k) PROVE CountedApart'
  BY <1>3, <1>2, WebhookBegins DEF ApplyApprovedCollection
<1>4. ASSUME NEW t \in Transactions, ReconcileMyOrg(t) PROVE CountedApart'
  BY <1>4, <1>2, ReconcileBegins DEF ReconcileMyOrg
<1>5. ASSUME NEW t \in Transactions, NEW k \in tx[t].todo, CheckRow(t, k) PROVE CountedApart'
  <2>1. /\ tx'[t].counted = tx[t].counted
        /\ tx'[t].at # "update"
        /\ \A u \in Transactions \ {t} : tx'[u] = tx[u]
    BY <1>5, TxFields DEF CheckRow, FundingTypeOK, Tx
  <2>2. HeldEntries(t)' \subseteq HeldEntries(t)
    BY <2>1 DEF HeldEntries
  <2> QED
    BY <1>5, <2>1, <2>2, ApartShrinks DEF CheckRow
<1>6. ASSUME NEW t \in Transactions, NEW k \in tx[t].row, InsertEntry(t, k) PROVE CountedApart'
  <2>1. /\ tx'[t].counted = tx[t].counted
        /\ tx'[t].at = "update" => tx'[t].row = tx[t].row /\ k \notin ledger
        /\ \A u \in Transactions \ {t} : tx'[u] = tx[u]
    BY <1>6, TxFields DEF InsertEntry, FundingTypeOK, Tx
  <2>2. tx[t].row = {k}
    BY DEF OneRow
  <2>3. \A u \in Transactions \ {t} : k \notin HeldEntries(u)
    BY <1>6, <2>2 DEF InsertEntry, Blocked, WaitsFor
  <2>4. HeldEntries(t)' \subseteq tx[t].counted \cup (IF k \in ledger THEN {} ELSE {k})
    BY <2>1, <2>2 DEF HeldEntries
  <2>5. tx[t].counted \subseteq HeldEntries(t)
    BY DEF HeldEntries
  <2>6. HeldEntries(t)' \cap ledger = {}
    BY <2>4, <2>5 DEF CountedApart
  <2>7. \A u \in Transactions \ {t} : HeldEntries(t)' \cap HeldEntries(u) = {}
    BY <2>3, <2>4, <2>5 DEF CountedApart
  <2> QED
    BY <1>6, <2>1, <2>6, <2>7, ApartStep DEF InsertEntry
<1>7. ASSUME NEW t \in Transactions, NEW k \in tx[t].row, UpdateRaised(t, k) PROVE CountedApart'
  <2>1. /\ tx'[t].counted = tx[t].counted \cup {k}
        /\ tx'[t].at = "loop"
        /\ \A u \in Transactions \ {t} : tx'[u] = tx[u]
    BY <1>7, TxFields DEF UpdateRaised, FundingTypeOK, Tx
  <2>2. HeldEntries(t)' \subseteq HeldEntries(t)
    BY <1>7, <2>1 DEF UpdateRaised, HeldEntries
  <2> QED
    BY <1>7, <2>1, <2>2, ApartShrinks DEF UpdateRaised
<1>8. ASSUME NEW t \in Transactions, tx' = [tx EXCEPT ![t] = NoTx], ledger' = ledger PROVE CountedApart'
  BY <1>8, <1>2, NoTxFresh
<1>9. ASSUME NEW t \in Transactions, Commit(t) PROVE CountedApart'
  <2>1. /\ tx'[t] = NoTx
        /\ \A u \in Transactions \ {t} : tx'[u] = tx[u]
        /\ ledger' = ledger \cup tx[t].counted
    BY <1>9 DEF Commit, FundingTypeOK
  <2>2. HeldEntries(t)' = {}
    BY <2>1 DEF HeldEntries, NoTx
  <2>3. \A u \in Transactions \ {t} : HeldEntries(u)' = HeldEntries(u)
    BY <2>1 DEF HeldEntries
  <2>4. tx[t].counted \subseteq HeldEntries(t)
    BY DEF HeldEntries
  <2> QED
    BY <2>1, <2>2, <2>3, <2>4 DEF CountedApart
<1>10. CASE FundingCrash
  <2>1. \A t \in Transactions : HeldEntries(t)' = {}
    BY <1>10 DEF FundingCrash, HeldEntries, NoTx
  <2> QED
    BY <1>10, <2>1 DEF CountedApart
<1> QED
  BY <1>1, <1>3, <1>4, <1>5, <1>6, <1>7, <1>8, <1>9, <1>10
     DEF FundingNext, TxStep, fundingVars, Approve, UpdateCampaign, UpdateOverflows, DeadlockVictim

(* A commit counts its donations on top of those the ledger has. *)
LEMMA CommitAdds ==
  ASSUME FundingTypeOK, CountedApart, RaisedIsLedger, NEW t \in Transactions, Commit(t)
  PROVE  /\ tx[t].counted \subseteq Collections \ ledger
         /\ raised' = [c \in Campaigns |-> NetOf(For(ledger \cup tx[t].counted, c))]
<1>1. tx[t].counted \subseteq Collections \ ledger
  BY TxFields DEF CountedApart, HeldEntries
<1>2. \A c \in Campaigns :
        RaisedIn(t, c) = NetOf(For(ledger, c)) + NetOf(For(tx[t].counted, c))
  BY DEF RaisedIn, RaisedIsLedger
<1>3. \A c \in Campaigns : RaisedIn(t, c) = NetOf(For(ledger \cup tx[t].counted, c))
  <2> SUFFICES ASSUME NEW c \in Campaigns
               PROVE  RaisedIn(t, c) = NetOf(For(ledger \cup tx[t].counted, c))
    OBVIOUS
  <2> QED
    BY <1>1, <1>2, NetsAdd DEF FundingTypeOK
<1> QED
  BY <1>1, <1>3 DEF Commit

(* The steps of one transaction that leave the amounts alone, and add no   *)
(* campaign to those it holds.                                             *)
LEMMA HolderShrinks ==
  ASSUME FundingTypeOK, OneHolder, HeldFits, NEW t \in Transactions, raised' = raised,
         \A u \in Transactions \ {t} : tx'[u] = tx[u],
         tx'[t].counted \in {tx[t].counted, {}}
  PROVE  OneHolder' /\ HeldFits'
<1>1. \A u \in Transactions : HeldCampaigns(u)' \subseteq HeldCampaigns(u)
  BY DEF HeldCampaigns
<1>2. \A u \in Transactions : \A c \in HeldCampaigns(u)' : RaisedIn(u, c)' = RaisedIn(u, c)
  BY DEF HeldCampaigns, RaisedIn, For
<1> QED
  BY <1>1, <1>2 DEF OneHolder, HeldFits

LEMMA UpdateHolds ==
  ASSUME FundingTypeOK, OneRow, OneHolder, HeldFits,
         NEW t \in Transactions, NEW k \in tx[t].row, UpdateRaised(t, k)
  PROVE  OneHolder' /\ HeldFits'
<1> DEFINE c == Concept[k]
<1>1. /\ tx'[t].counted = tx[t].counted \cup {k}
      /\ \A u \in Transactions \ {t} : tx'[u] = tx[u]
      /\ raised' = raised
  BY TxFields DEF UpdateRaised, FundingTypeOK, Tx
<1>2. /\ HeldCampaigns(t)' = HeldCampaigns(t) \cup {c}
      /\ \A u \in Transactions \ {t} : HeldCampaigns(u)' = HeldCampaigns(u)
  BY <1>1 DEF HeldCampaigns
<1>3. \A u \in Transactions \ {t} : c \notin HeldCampaigns(u)
  BY DEF UpdateRaised, Blocked, WaitsFor
<1>4. OneHolder'
  BY <1>2, <1>3 DEF OneHolder
<1>5. k \in Collections \ tx[t].counted /\ c \in Campaigns
  BY TxFields, FundingAssumption DEF OneRow
<1>6. RaisedIn(t, c)' = RaisedIn(t, c) + Amount[k]
  <2>1. NetOf(For(tx[t].counted \cup {k}, c)) = NetOf(For(tx[t].counted, c)) + NetOf(For({k}, c))
    BY <1>5, NetsAdd, TxFields
  <2>2. For({k}, c) = {k}
    BY DEF For
  <2>3. NetOf({k}) = Amount[k]
    <3>1. IsFiniteSet({}) /\ Amount[k] \in Int /\ {} \cup {k} = {k}
      BY <1>5, FS_EmptySet, FundingAssumption
    <3>2. SumFunctionOnSet(Amount, {} \cup {k}) = Amount[k] + SumFunctionOnSet(Amount, {})
      BY <3>1, SumAddElement
    <3> QED
      BY <3>1, <3>2, SumEmpty DEF NetOf
  <2>4. NetOf(For(tx[t].counted, c)) \in Int /\ raised[c] \in Int /\ Amount[k] \in Int
    BY <1>5, NetType, TxFields, FundingAssumption DEF FundingTypeOK
  <2> HIDE DEF c
  <2>5. RaisedIn(t, c)' = raised[c] + NetOf(For(tx[t].counted \cup {k}, c))
    BY <1>1 DEF RaisedIn, For
  <2>6. NetOf(For(tx[t].counted \cup {k}, c)) = NetOf(For(tx[t].counted, c)) + Amount[k]
    BY <2>1, <2>2, <2>3
  <2>7. RaisedIn(t, c) = raised[c] + NetOf(For(tx[t].counted, c))
    BY DEF RaisedIn
  <2> QED
    BY <2>4, <2>5, <2>6, <2>7
<1>7. \A b \in HeldCampaigns(t) \ {c} : RaisedIn(t, b)' = RaisedIn(t, b)
  <2>1. \A b \in HeldCampaigns(t) \ {c} : For(tx[t].counted \cup {k}, b) = For(tx[t].counted, b)
    BY DEF For
  <2>2. \A b \in HeldCampaigns(t) : RaisedIn(t, b)' = raised[b] + NetOf(For(tx[t].counted \cup {k}, b))
    BY <1>1 DEF RaisedIn, For
  <2> QED
    BY <2>1, <2>2 DEF RaisedIn
<1>8. \A u \in Transactions \ {t} : \A b \in HeldCampaigns(u) : RaisedIn(u, b)' = RaisedIn(u, b)
  BY <1>1 DEF RaisedIn, For
<1>9. RaisedIn(t, c) + Amount[k] <= MaxInteger
  BY DEF UpdateRaised
<1> HIDE DEF c
<1>10. HeldFits'
  BY <1>2, <1>6, <1>7, <1>8, <1>9 DEF HeldFits
<1> QED
  BY <1>4, <1>10

(* A commit leaves the amounts of campaigns held by others as they were.   *)
LEMMA CommitHolds ==
  ASSUME FundingTypeOK, OneHolder, HeldFits, NEW t \in Transactions, Commit(t)
  PROVE  OneHolder' /\ HeldFits'
<1>1. /\ tx'[t] = NoTx
      /\ \A u \in Transactions \ {t} : tx'[u] = tx[u]
      /\ raised' = [c \in Campaigns |-> RaisedIn(t, c)]
  BY DEF Commit, FundingTypeOK
<1>2. /\ HeldCampaigns(t)' = {}
      /\ \A u \in Transactions \ {t} : HeldCampaigns(u)' = HeldCampaigns(u)
  BY <1>1 DEF HeldCampaigns, NoTx
<1>3. \A u \in Transactions \ {t} : \A c \in HeldCampaigns(u) : raised'[c] = raised[c]
  BY <1>1, NotHeld, HeldAreCampaigns DEF OneHolder
<1>4. \A u \in Transactions \ {t} : \A c \in HeldCampaigns(u) : RaisedIn(u, c)' = RaisedIn(u, c)
  BY <1>1, <1>3 DEF RaisedIn, For
<1> QED
  BY <1>2, <1>4 DEF OneHolder, HeldFits

LEMMA StepHolds ==
  FundingTypeOK /\ OneRow /\ OneHolder /\ HeldFits /\ [FundingNext]_fundingVars
    => OneHolder' /\ HeldFits'
<1> SUFFICES ASSUME FundingTypeOK, OneRow, OneHolder, HeldFits, [FundingNext]_fundingVars
             PROVE  OneHolder' /\ HeldFits'
  OBVIOUS
<1>1. CASE UNCHANGED <<tx, raised>>
  <2>1. \A u \in Transactions : HeldCampaigns(u)' = HeldCampaigns(u)
    BY <1>1 DEF HeldCampaigns
  <2>2. \A u \in Transactions : \A c \in HeldCampaigns(u) : RaisedIn(u, c)' = RaisedIn(u, c)
    BY <1>1 DEF RaisedIn, For
  <2> QED
    BY <2>1, <2>2 DEF OneHolder, HeldFits
<1>2. ASSUME NEW t \in Transactions, NEW r, tx' = [tx EXCEPT ![t] = r], raised' = raised, Fresh(r)
      PROVE  OneHolder' /\ HeldFits'
  <2>1. tx'[t] = r /\ \A u \in Transactions \ {t} : tx'[u] = tx[u]
    BY <1>2 DEF FundingTypeOK
  <2> QED
    BY <1>2, <2>1, HolderShrinks DEF Fresh
<1>3. ASSUME NEW t \in Transactions, NEW k \in called, ApplyApprovedCollection(t, k)
      PROVE  OneHolder' /\ HeldFits'
  BY <1>3, <1>2, WebhookBegins DEF ApplyApprovedCollection
<1>4. ASSUME NEW t \in Transactions, ReconcileMyOrg(t) PROVE OneHolder' /\ HeldFits'
  BY <1>4, <1>2, ReconcileBegins DEF ReconcileMyOrg
<1>5. ASSUME NEW t \in Transactions, NEW k \in tx[t].todo, CheckRow(t, k)
      PROVE  OneHolder' /\ HeldFits'
  <2>1. tx'[t].counted = tx[t].counted /\ \A u \in Transactions \ {t} : tx'[u] = tx[u]
    BY <1>5, TxFields DEF CheckRow, FundingTypeOK, Tx
  <2> QED
    BY <1>5, <2>1, HolderShrinks DEF CheckRow
<1>6. ASSUME NEW t \in Transactions, NEW k \in tx[t].row, InsertEntry(t, k)
      PROVE  OneHolder' /\ HeldFits'
  <2>1. tx'[t].counted = tx[t].counted /\ \A u \in Transactions \ {t} : tx'[u] = tx[u]
    BY <1>6, TxFields DEF InsertEntry, FundingTypeOK, Tx
  <2> QED
    BY <1>6, <2>1, HolderShrinks DEF InsertEntry
<1>7. ASSUME NEW t \in Transactions, NEW k \in tx[t].row, UpdateRaised(t, k)
      PROVE  OneHolder' /\ HeldFits'
  BY <1>7, UpdateHolds
<1>8. ASSUME NEW t \in Transactions, tx' = [tx EXCEPT ![t] = NoTx], raised' = raised
      PROVE  OneHolder' /\ HeldFits'
  BY <1>8, <1>2, NoTxFresh
<1>9. ASSUME NEW t \in Transactions, Commit(t) PROVE OneHolder' /\ HeldFits'
  BY <1>9, CommitHolds
<1>10. CASE FundingCrash
  <2>1. \A t \in Transactions : HeldCampaigns(t)' = {}
    BY <1>10 DEF FundingCrash, HeldCampaigns, NoTx
  <2> QED
    BY <2>1 DEF OneHolder, HeldFits
<1> QED
  BY <1>1, <1>3, <1>4, <1>5, <1>6, <1>7, <1>8, <1>9, <1>10
     DEF FundingNext, TxStep, fundingVars, Approve, UpdateCampaign, UpdateOverflows, DeadlockVictim

LEMMA StepRaised ==
  FundingTypeOK /\ CountedApart /\ HeldFits /\ RaisedIsLedger /\ [FundingNext]_fundingVars
    => RaisedIsLedger'
<1> SUFFICES ASSUME FundingTypeOK, CountedApart, HeldFits, RaisedIsLedger, [FundingNext]_fundingVars
             PROVE  RaisedIsLedger'
  OBVIOUS
<1>1. CASE UNCHANGED <<raised, ledger>>
  BY <1>1 DEF RaisedIsLedger, For
<1>2. ASSUME NEW t \in Transactions, Commit(t) PROVE RaisedIsLedger'
  <2>1. \A c \in Campaigns : raised'[c] <= MaxInteger
    <3>1. \A c \in Campaigns : raised'[c] = RaisedIn(t, c)
      BY <1>2 DEF Commit
    <3> QED
      BY <3>1, NotHeld DEF HeldFits, RaisedIsLedger
  <2>2. \A c \in Campaigns : raised'[c] = NetOf(For(ledger', c))
    BY <1>2, CommitAdds DEF For, Commit
  <2> QED
    BY <2>1, <2>2 DEF RaisedIsLedger, For
<1> QED
  BY <1>1, <1>2 DEF FundingNext, TxStep, fundingVars, Approve, ApplyApprovedCollection, ReconcileMyOrg,
     UpdateCampaign, CheckRow, InsertEntry, UpdateRaised, UpdateOverflows, DeadlockVictim, FundingCrash

LEMMA InitInv == FundingInit => Inv
<1> SUFFICES ASSUME FundingInit PROVE Inv
  OBVIOUS
<1>1. OneRow /\ CountedApart /\ OneHolder /\ HeldFits
  BY DEF FundingInit, NoTx, OneRow, CountedApart, HeldEntries, OneHolder, HeldFits, HeldCampaigns
<1>2. \A c \in Campaigns : For({}, c) = {}
  BY DEF For
<1>4. RaisedIsLedger
  BY <1>2, NetEmpty, FundingAssumption DEF FundingInit, RaisedIsLedger
<1> QED
  BY <1>1, <1>4, InitType DEF Inv

THEOREM Invariance == FundingSpec => []Inv
<1>1. Inv /\ [FundingNext]_fundingVars => Inv'
  BY StepType, StepRows, StepApart, StepHolds, StepRaised DEF Inv
<1> QED
  BY <1>1, InitInv, PTL DEF FundingSpec

(* No donation is being counted twice, by two transactions or again. *)
THEOREM AlwaysCountedApart == FundingSpec => []CountedApart
BY Invariance, PTL DEF Inv

(* The amount every campaign shows is the net of the donations counted,    *)
(* and is within what its column holds.                                    *)
THEOREM AlwaysRaisedIsLedger == FundingSpec => []RaisedIsLedger
BY Invariance, PTL DEF Inv

(***************************************************************************)
(* The tables and functions implement the ledger that counts once.         *)
(***************************************************************************)
LEMMA ImplementsStep ==
  Inv /\ [FundingNext]_fundingVars => [Ledger!Next]_<<ledger, raised>>
<1> SUFFICES ASSUME Inv, [FundingNext]_fundingVars PROVE [Ledger!Next]_<<ledger, raised>>
  OBVIOUS
<1>1. ASSUME NEW t \in Transactions, Commit(t) PROVE Ledger!Next
  <2>1. Ledger!Count(tx[t].counted)
    BY <1>1, CommitAdds DEF Ledger!Count, Ledger!For, For, Commit, Inv
  <2>2. tx[t].counted \in SUBSET Collections
    BY TxFields DEF Inv
  <2> QED
    BY <2>1, <2>2 DEF Ledger!Next
<1> QED
  BY <1>1 DEF FundingNext, TxStep, fundingVars, Approve, ApplyApprovedCollection, ReconcileMyOrg,
     UpdateCampaign, CheckRow, InsertEntry, UpdateRaised, UpdateOverflows, DeadlockVictim, FundingCrash

(* Each approved donation is counted at most once, with its net. *)
THEOREM Implements == FundingSpec => CountsExactlyOnce
<1>1. FundingInit => Ledger!Init
  BY DEF FundingInit, Ledger!Init
<1> QED
  BY <1>1, ImplementsStep, Invariance, PTL DEF FundingSpec, CountsExactlyOnce, Ledger!Spec
=============================================================================
