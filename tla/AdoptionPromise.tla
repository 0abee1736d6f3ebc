---------------------------- MODULE AdoptionPromise ----------------------------
(***************************************************************************)
(* What the adoption component promises, and nothing about how.  The       *)
(* parties of a contract are settled when it is drawn up; it is sealed     *)
(* once, with the signature of every one of them, over one content, and    *)
(* the seal is never taken back or changed.  Only a sealed adoption is     *)
(* followed up, and a milestone that was closed stays closed.              *)
(***************************************************************************)
CONSTANTS
  Adoptions,
  Milestones,  \* pairs of an adoption and a title
  Parties,
  Required,    \* parties every contract has
  Texts,
  NoText

VARIABLES
  parties, \* of each adoption's contract, {} without one
  seal,    \* who signed each adoption's contract, over which content
  open,    \* milestones to be answered
  closed

promiseVars == <<parties, seal, open, closed>>

NotSealed == [signers |-> {}, hash |-> NoText]

Init ==
  /\ parties = [q \in Adoptions |-> {}]
  /\ seal = [q \in Adoptions |-> NotSealed]
  /\ open = {}
  /\ closed = {}

Draw(q) ==
  /\ parties[q] = {}
  /\ \E S \in SUBSET Parties : Required \subseteq S /\ parties' = [parties EXCEPT ![q] = S]
  /\ UNCHANGED <<seal, open, closed>>

Seal(q) ==
  /\ parties[q] # {} /\ seal[q] = NotSealed
  /\ \E text \in Texts : seal' = [seal EXCEPT ![q] = [signers |-> parties[q], hash |-> text]]
  /\ UNCHANGED <<parties, open, closed>>

Open(k) ==
  /\ seal[k[1]] # NotSealed
  /\ k \notin open \cup closed
  /\ open' = open \cup {k}
  /\ UNCHANGED <<parties, seal, closed>>

Close(k) ==
  /\ k \in open
  /\ open' = open \ {k}
  /\ closed' = closed \cup {k}
  /\ UNCHANGED <<parties, seal>>

Next ==
  \/ \E q \in Adoptions : Draw(q) \/ Seal(q)
  \/ \E k \in Milestones : Open(k) \/ Close(k)

Spec == Init /\ [][Next]_promiseVars
=============================================================================
