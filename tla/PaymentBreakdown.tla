--------------------------- MODULE PaymentBreakdown ---------------------------
(***************************************************************************)
(* computeBreakdown: what a donor is charged, what platform and gateway    *)
(* take of it and what is left for the organization, in whole pesos.       *)
(*                                                                         *)
(* The rates are written as exact fractions.  The program has them as      *)
(* doubles; half-up rounding gives the same pesos for every amount an      *)
(* INTEGER column holds, the ties included.                                *)
(***************************************************************************)
EXTENDS Integers

CONSTANTS
  Amounts,           \* the amounts a donor considers
  MinDonationAmount  \* MIN_DONATION_AMOUNT

ASSUME BreakdownAssumption ==
  /\ Amounts \subseteq Nat \ {0}
  /\ MinDonationAmount \in Nat /\ MinDonationAmount >= 907

VARIABLES
  intended,        \* intendedAmount
  commissionPayer

vars == <<intended, commissionPayer>>

(* Mutant: fractions of a peso are dropped.                                *)
RoundedDown(n, d) == n \div d

(* n/d rounded to the nearest peso, half up; n >= 0.                       *)
RoundPesosHalfUp(n, d) == (2 * n + d) \div (2 * d)

(* Mutant: the public reference of 800 pesos the TODO in the source quotes. *)
GatewayFixedReference == 800

GatewayFixed == 700

PlatformFee(gross) == RoundPesosHalfUp(4 * gross, 100)
GatewayFee(gross)  == RoundPesosHalfUp(53 * gross, 2000) + GatewayFixed
Iva(fee)           == RoundPesosHalfUp(19 * fee, 100)

(* Mutant: the IVA of the gateway's commission is forgotten.               *)
FeesWithoutGatewayIva(gross) ==
  PlatformFee(gross) + Iva(PlatformFee(gross)) + GatewayFee(gross)

FeesFromGross(gross) ==
  PlatformFee(gross) + Iva(PlatformFee(gross)) + GatewayFee(gross) + Iva(GatewayFee(gross))

(* The fixed commission with its IVA: 833.                                 *)
Fixed == GatewayFixed + Iva(GatewayFixed)

(* Mutant: the two modes are exchanged.                                    *)
GrossExchanged(i, payer) ==
  IF payer = "donor" THEN i
  ELSE i + Fixed + RoundPesosHalfUp(15827 * (i + Fixed), 184173)

(* (i + 833) / 0.920865, rounded; 1/0.920865 is 1 + 15827/184173.          *)
Gross(i, payer) ==
  IF payer = "organization" THEN i
  ELSE i + Fixed + RoundPesosHalfUp(15827 * (i + Fixed), 184173)

Net(i, payer) == Gross(i, payer) - FeesFromGross(Gross(i, payer))

Init ==
  /\ intended \in Amounts
  /\ commissionPayer \in {"organization", "donor"}

(* The donor changes the amount, or ticks "I cover the commissions".       *)
EnterAmount ==
  /\ intended' \in Amounts
  /\ UNCHANGED commissionPayer

ToggleCover ==
  /\ commissionPayer' = IF commissionPayer = "donor" THEN "organization" ELSE "donor"
  /\ UNCHANGED intended

Next == EnterAmount \/ ToggleCover

Spec == Init /\ [][Next]_vars

(***************************************************************************)
(* Properties                                                              *)
(***************************************************************************)
TypeOK ==
  /\ intended \in Amounts
  /\ commissionPayer \in {"organization", "donor"}

(* "net lands on the intended amount within a couple pesos of rounding     *)
(* drift" when the donor covers the commissions: five roundings, one of    *)
(* them of a gross the other four are taken of, never add up to three.     *)
NetReachesIntended ==
  commissionPayer = "donor" =>
    Net(intended, commissionPayer) - intended \in -2 .. 2

(* No donation the form accepts is eaten up by its commissions.            *)
NetIsPositive ==
  intended >= MinDonationAmount => Net(intended, commissionPayer) > 0

(* Two amounts of which one is larger: the larger never leaves the         *)
(* organization with less, but for up to three pesos of rounding; and the  *)
(* donor who covers the commissions never leaves it with less than the one *)
(* who does not.                                                           *)
GivingMoreNeverCosts ==
  [][/\ intended' >= intended /\ commissionPayer' = commissionPayer
          => Net(intended', commissionPayer') >= Net(intended, commissionPayer) - 3
     /\ commissionPayer' = "donor" /\ commissionPayer = "organization"
          => Net(intended', commissionPayer') > Net(intended, commissionPayer)]_vars
=============================================================================
