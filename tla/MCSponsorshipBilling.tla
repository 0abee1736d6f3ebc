------------------------ MODULE MCSponsorshipBilling ------------------------
(* Instances of SponsorshipBilling for TLC.                                *)
EXTENDS SponsorshipBilling, TLC

(* The default settings, in days. *)
MCLadder == [reminder1 |-> 5, expire1 |-> 10, reminder2 |-> 15, expire2 |-> 20,
             reminderFinal |-> 25, expire3 |-> 30]

(* A month of 30 days and one of 31.  A sponsor of day 0 sees the second   *)
(* period open on day 30, the very day the first one fails.                *)
MCMonthStart == <<0, 30, 61>>
MCDays == {0, 30}

(* One month, longer than the ladder. *)
OneMonthStart == <<0, 40>>
OneMonthDays == {0, 10, 30}

(* The ledger is explored with one request in flight at a time, except     *)
(* that the sponsor's retries may overlap.                                 *)
OnlyRetriesOverlap ==
  InFlight <= 1 \/ InFlight = Cardinality(http.retrying) + Cardinality(http.retried)

Symmetry == Permutations(Sponsorships) \cup Permutations(Workers)
=============================================================================
