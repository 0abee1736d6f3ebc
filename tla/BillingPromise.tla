----------------------------- MODULE BillingPromise -----------------------------
(***************************************************************************)
(* What recurring billing promises of the months it bills, and nothing     *)
(* about scans, polls and requests.  A month is opened once and goes       *)
(* forward only; its attempts are numbered one by one; and it is paid by   *)
(* an order on file that the gateway approved, each such order once.       *)
(***************************************************************************)
EXTENDS Integers

CONSTANTS
  Months,     \* months of sponsorships
  MaxTries

VARIABLES
  month,      \* none, pending, failed or paid
  tries,      \* the number of its last attempt
  approved,   \* orders on file that the gateway has approved
  credited    \* orders that have paid their month

Orders == Months \X (1 .. MaxTries)

Init ==
  /\ month = [c \in Months |-> "none"]
  /\ tries = [c \in Months |-> 0]
  /\ approved = {}
  /\ credited = {}

Open(c) ==
  /\ month[c] = "none"
  /\ month' = [month EXCEPT ![c] = "pending"]
  /\ tries' = [tries EXCEPT ![c] = 1]
  /\ UNCHANGED credited

(* The first month, whose order may be approved before it is on file.      *)
OpenPaid(c) ==
  /\ month[c] = "none"
  /\ <<c, 1>> \in approved'
  /\ month' = [month EXCEPT ![c] = "paid"]
  /\ tries' = [tries EXCEPT ![c] = 1]
  /\ credited' = credited \cup {<<c, 1>>}

TryAgain(c) ==
  /\ month[c] # "none"
  /\ tries[c] < MaxTries
  /\ tries' = [tries EXCEPT ![c] = @ + 1]
  /\ UNCHANGED <<month, credited>>

Fail(c) ==
  /\ month[c] = "pending"
  /\ month' = [month EXCEPT ![c] = "failed"]
  /\ UNCHANGED <<tries, credited>>

Credit(c, n) ==
  /\ n <= tries[c]
  /\ <<c, n>> \in approved \ credited
  /\ month' = [month EXCEPT ![c] = "paid"]
  /\ credited' = credited \cup {<<c, n>>}
  /\ UNCHANGED tries

Progress(c) ==
  \/ Open(c) \/ OpenPaid(c) \/ TryAgain(c) \/ Fail(c)
  \/ \E n \in 1 .. MaxTries : Credit(c, n)

(* The gateway approves when it likes, and takes no approval back.         *)
Next ==
  /\ approved \subseteq approved' /\ approved' \subseteq Orders
  /\ UNCHANGED <<month, tries, credited>> \/ \E c \in Months : Progress(c)

Spec == Init /\ [][Next]_<<month, tries, approved, credited>>
=============================================================================
