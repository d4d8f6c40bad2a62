-------------------------------- MODULE Saas --------------------------------
(***************************************************************************)
(* The commercial services of backend/services/saas: invoices and their    *)
(* payments (BillingService), subscriptions and affiliates.  The built-in  *)
(* providers answer a charge without ever suspending; a provider added by  *)
(* register_provider (external) takes the charge while other calls run.    *)
(***************************************************************************)
EXTENDS Integers, FiniteSets, FiniteSetsExt

CONSTANTS
  Invoice,      \* the invoices that can be created
  Member,       \* the users that subscribe, refer and are referred
  Payment,      \* the process_payment calls that wait for a provider
  MaxDay,       \* bound: the last day
  MaxCharges,   \* bound on successful charges
  NeedsKey,     \* the built-in providers that fail without a key
  NoMember      \* in referredBy: nobody

VARIABLES
  invoices,     \* [Invoice -> InvoiceRecord]
  keyed,        \* the built-in providers registered with a key
  payment,      \* [Payment -> PaymentRecord]
  succeeded,    \* payments_succeeded of the metrics
  taken,        \* [Invoice -> Nat]: money a provider took (external)
  lost,         \* invoices of which a provider took money and then raised
  today,        \* the clock, in days
  subs,         \* [Member -> subscription]
  bought,       \* [Member -> Nat]: days paid for since it was created
  affiliates,   \* the members that are affiliates, with their counters
  referredBy    \* _referred_by

saasVars == <<invoices, keyed, payment, succeeded, taken, lost, today, subs,
              bought, affiliates, referredBy>>

billing == <<invoices, keyed, payment, succeeded, taken, lost>>
accounts == <<today, subs, bought, affiliates, referredBy>>

PLAN_HIERARCHY == <<"free", "starter", "pro", "enterprise">>

NoSubscription == [tier |-> 0, start |-> 0, ends |-> 0, is_active |-> FALSE,
                   auto_renew |-> FALSE]

NotAffiliate ==
  [registered |-> FALSE, is_active |-> FALSE, referrals |-> 0]

Idle == [at |-> "idle", invoice |-> CHOOSE i \in Invoice : TRUE]

Init ==
  /\ invoices = [i \in Invoice |-> "none"]
  /\ keyed = {}
  /\ payment = [p \in Payment |-> Idle]
  /\ succeeded = 0
  /\ taken = [i \in Invoice |-> 0]
  /\ lost = {}
  /\ today = 0
  /\ subs = [m \in Member |-> NoSubscription]
  /\ bought = [m \in Member |-> 0]
  /\ affiliates = [m \in Member |-> NotAffiliate]
  /\ referredBy = [m \in Member |-> NoMember]

-----------------------------------------------------------------------------
(* Invoices and payments. *)

CreateInvoice ==
  \E i \in Invoice :
    /\ invoices[i] = "none"
    /\ invoices' = [invoices EXCEPT ![i] = "pending"]
    /\ UNCHANGED <<keyed, payment, succeeded, taken, lost>>

(* A Stripe, Midtrans or Xendit provider with or without its key. *)
RegisterProvider ==
  \E p \in NeedsKey :
    /\ keyed' \in {keyed \cup {p}, keyed \ {p}}
    /\ UNCHANGED <<invoices, payment, succeeded, taken, lost>>

Charged == MapThenSumSet(LAMBDA i : taken[i], Invoice)

One(status) == IF status = "success" THEN 1 ELSE 0

(* What process_payment writes once charge has answered: it does not look  *)
(* at the status the invoice has meanwhile.                                 *)
Settle(i, status) ==
  /\ invoices' = [invoices EXCEPT
                    ![i] = IF status = "success" THEN "paid" ELSE "failed"]
  /\ succeeded' = succeeded + One(status)

BuiltInCharge(p) ==
  IF p = "manual" \/ p \in keyed THEN "success" ELSE "failed"

ProcessPayment ==
  \E i \in Invoice, p \in NeedsKey \cup {"manual"} :
    /\ invoices[i] # "none"
    /\ Charged < MaxCharges
    /\ Settle(i, BuiltInCharge(p))
    /\ taken' = [taken EXCEPT ![i] = @ + One(BuiltInCharge(p))]
    /\ UNCHANGED <<keyed, payment, lost>>

(* process_payment through a provider that suspends. *)
PaymentStarts ==
  \E p \in Payment, i \in Invoice :
    /\ payment[p] = Idle
    /\ invoices[i] # "none"
    /\ payment' = [payment EXCEPT ![p] = [at |-> "asked", invoice |-> i]]
    /\ UNCHANGED <<invoices, keyed, succeeded, taken, lost>>

ProviderDecides ==
  \E p \in Payment, status \in {"success", "failed"} :
    /\ payment[p].at = "asked"
    /\ status = "success" => Charged < MaxCharges
    /\ payment' = [payment EXCEPT ![p].at = status]
    /\ taken' = [taken EXCEPT ![payment[p].invoice] = @ + One(status)]
    /\ UNCHANGED <<invoices, keyed, succeeded, lost>>

PaymentAnswered ==
  \E p \in Payment :
    /\ payment[p].at \in {"success", "failed"}
    /\ Settle(payment[p].invoice, payment[p].at)
    /\ payment' = [payment EXCEPT ![p] = Idle]
    /\ UNCHANGED <<keyed, taken, lost>>

(* charge raises: process_payment ends there and writes nothing. *)
ProviderRaises ==
  \E p \in Payment :
    /\ payment[p] # Idle
    /\ payment' = [payment EXCEPT ![p] = Idle]
    /\ lost' = IF payment[p].at = "success"
               THEN lost \cup {payment[p].invoice}
               ELSE lost
    /\ UNCHANGED <<invoices, keyed, succeeded, taken>>

CancellableUnpaid(status) == status \in {"pending", "failed"}
Cancellable(status) == status = "pending"

CancelInvoice ==
  \E i \in Invoice :
    /\ Cancellable(invoices[i])
    /\ invoices' = [invoices EXCEPT ![i] = "cancelled"]
    /\ UNCHANGED <<keyed, payment, succeeded, taken, lost>>

BillingStep ==
  /\ \/ CreateInvoice \/ RegisterProvider \/ ProcessPayment \/ PaymentStarts
     \/ ProviderDecides \/ PaymentAnswered \/ ProviderRaises \/ CancelInvoice
  /\ UNCHANGED accounts

-----------------------------------------------------------------------------
(* Subscriptions: one per user, the tier as its place in PLAN_HIERARCHY. *)

Duration == {1, 2}

Has(m) == subs[m].tier # 0

CreateSubscription ==
  \E m \in Member, tier \in DOMAIN PLAN_HIERARCHY, days \in Duration,
     renews \in BOOLEAN :
    /\ today + days <= MaxDay
    /\ subs' = [subs EXCEPT ![m] =
                  [tier |-> tier, start |-> today, ends |-> today + days,
                   is_active |-> TRUE, auto_renew |-> renews]]
    /\ bought' = [bought EXCEPT ![m] = days]
    /\ UNCHANGED <<today, affiliates, referredBy>>

Upgrade ==
  \E m \in Member, tier \in DOMAIN PLAN_HIERARCHY :
    /\ Has(m) /\ tier > subs[m].tier
    /\ subs' = [subs EXCEPT ![m].tier = tier]
    /\ UNCHANGED <<today, bought, affiliates, referredBy>>

Downgrade ==
  \E m \in Member, tier \in DOMAIN PLAN_HIERARCHY :
    /\ Has(m) /\ tier < subs[m].tier
    /\ subs' = [subs EXCEPT ![m].tier = tier]
    /\ UNCHANGED <<today, bought, affiliates, referredBy>>

Cancel ==
  \E m \in Member :
    /\ Has(m)
    /\ subs' = [subs EXCEPT ![m].is_active = FALSE, ![m].auto_renew = FALSE]
    /\ UNCHANGED <<today, bought, affiliates, referredBy>>

(* check_active switches a subscription off that has run out. *)
CheckActive ==
  \E m \in Member :
    /\ subs[m].is_active /\ today > subs[m].ends
    /\ subs' = [subs EXCEPT ![m].is_active = FALSE]
    /\ UNCHANGED <<today, bought, affiliates, referredBy>>

RenewedUntil(m, days) == Max({subs[m].ends, today}) + days

Renew ==
  \E m \in Member, days \in Duration :
    /\ Has(m)
    /\ RenewedUntil(m, days) <= MaxDay
    /\ subs' = [subs EXCEPT ![m].ends = RenewedUntil(m, days),
                            ![m].is_active = TRUE]
    /\ bought' = [bought EXCEPT ![m] = @ + days]
    /\ UNCHANGED <<today, affiliates, referredBy>>

DayPasses ==
  /\ today < MaxDay
  /\ today' = today + 1
  /\ UNCHANGED <<subs, bought, affiliates, referredBy>>

SubscriptionStep ==
  /\ \/ CreateSubscription \/ Upgrade \/ Downgrade \/ Cancel \/ CheckActive
     \/ Renew \/ DayPasses
  /\ UNCHANGED billing

-----------------------------------------------------------------------------
(* Affiliates.  An affiliate's id, code and user stand for one another. *)

RegisterAffiliate ==
  \E m \in Member :
    /\ ~affiliates[m].registered
    /\ affiliates' = [affiliates EXCEPT ![m].registered = TRUE,
                                        ![m].is_active = TRUE]
    /\ UNCHANGED <<today, subs, bought, referredBy>>

(* track_referral asks neither whether the affiliate is active nor whether *)
(* the members are two.                                                     *)
TrackReferral ==
  \E a, m \in Member :
    /\ affiliates[a].registered /\ referredBy[m] = NoMember
    /\ referredBy' = [referredBy EXCEPT ![m] = a]
    /\ affiliates' = [affiliates EXCEPT ![a].referrals = @ + 1]
    /\ UNCHANGED <<today, subs, bought>>

DeactivateAffiliate ==
  \E a \in Member :
    /\ affiliates[a].registered
    /\ affiliates' = [affiliates EXCEPT ![a].is_active = FALSE]
    /\ UNCHANGED <<today, subs, bought, referredBy>>

GetDownline(a) == {m \in Member : referredBy[m] = a}

ReferralStep ==
  /\ RegisterAffiliate \/ TrackReferral \/ DeactivateAffiliate
  /\ UNCHANGED billing

Next == BillingStep \/ SubscriptionStep \/ ReferralStep
Spec == Init /\ [][Next]_saasVars

-----------------------------------------------------------------------------
InvoiceTellsCharge ==
  /\ \A i \in Invoice \ lost :
       (\A p \in Payment : payment[p] = Idle \/ payment[p].invoice # i) =>
         /\ invoices[i] = "paid" => taken[i] > 0
         /\ taken[i] > 0 => invoices[i] \in {"paid", "failed"}
  /\ succeeded + Cardinality(lost) <= Charged

MemberBooks ==
  /\ \A m \in Member : subs[m].ends >= subs[m].start + bought[m]
  /\ \A a \in Member : affiliates[a].referrals = Cardinality(GetDownline(a))

(* When no payment of it waits and none raised after the money was taken,  *)
(* a "paid" invoice was charged and a charged one shows "paid" or the      *)
(* "failed" of a later try: a cancel_invoice that overtakes the charge     *)
(* never leaves a charged invoice cancelled, and successful payments never *)
(* exceed the charges that took money.  However upgrades, cancellations,   *)
(* expiries and renewals follow one another, a subscription never ends     *)
(* before the days paid for are over, and an affiliate's referral count is *)
(* the size of its downline.                                               *)
SaasBooks == InvoiceTellsCharge /\ MemberBooks
=============================================================================
