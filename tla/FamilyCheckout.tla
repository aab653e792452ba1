--------------------------- MODULE FamilyCheckout ---------------------------
(***************************************************************************)
(* How a family buys a review: the buy page (buy/page.tsx) takes the        *)
(* acknowledgment of the terms, a promo code, and a checkout session; the   *)
(* code is checked when it is typed, when the buyer is known and when the   *)
(* session is made, and redeemed before a free review but after a paid one; *)
(* and the staff may change all of it but what it takes off at any time.    *)
(* Several pages of several buyers meet in one code and in one buyer's       *)
(* acknowledgments, which the first case made takes all.                    *)
(***************************************************************************)
EXTENDS Naturals, FiniteSets, FiniteSetsExt

CONSTANTS
  Pages,      \* visits to the buy page, one purchase each at most
  BuyerOf,    \* Pages -> the account
  Amount,     \* the review's price
  Offs,       \* what the code may take off
  Redemptions, \* the maxRedemptions the code is made with
  Monthly,    \* its maxRedemptionsPerMonth; everything happens in one month
  Caps,       \* what the staff may set the two to; NoCap is null
  MaxRare     \* bounds the staff's edits of the code, the refunds, and the handlers that die, together
NoCap == 0

ASSUME CodeAssumption ==
  /\ IsFiniteSet(Pages) /\ Amount \in Nat /\ Offs \subseteq 1 .. Amount
  /\ Redemptions \in Nat /\ Monthly \in Nat /\ Caps \subseteq Nat

VARIABLES
  code,     \* the PromoCode row
  page,     \* Pages -> the page: where it is, and the total it shows
  acks,     \* DisclosureAck rows without a case, by page that posted them
  session,  \* Pages -> the checkout session
  bound,    \* Pages -> the acknowledgments of its case
  returned, \* the payments that are SUCCEEDED no longer
  rare,
  beside,   \* history: Pages -> the code's other sessions not paid yet when it was checked
  capped    \* history: the caps that have been in force

saleVars == <<page, acks, session, bound, returned, beside>>
checkoutVars == <<code, saleVars, rare, capped>>

NoSession == [state |-> "none", coded |-> FALSE, amount |-> 0]
CheckoutInit ==
  /\ \E off \in Offs : code = [off |-> off, active |-> TRUE, valid |-> TRUE,
                               slots |-> Redemptions, monthly |-> Monthly, redeemed |-> 0]
  /\ page = [p \in Pages |-> [pc |-> "terms", coded |-> FALSE]]
  /\ acks = {} /\ session = [p \in Pages |-> NoSession]
  /\ bound = [p \in Pages |-> {}]
  /\ returned = {} /\ rare = 0 /\ beside = [p \in Pages |-> {}]
  /\ capped = [slots |-> {Redemptions}, monthly |-> {Monthly}]
-----------------------------------------------------------------------------
Total(coded) == IF coded THEN Amount - code.off ELSE Amount
Paid == {p \in Pages : session[p].state \in {"fulfilled", "late"}}
Spent == {p \in Paid : session[p].coded}
\* monthRedemptions counts the payments that are SUCCEEDED.
Used == Spent \ returned
Under(p) == {q \in Pages : session[q].coded /\ session[q].state \in {"checked", "redeemed", "open", "paid"}}

\* checkPromoCode: what is true of the code whoever asks; and checkPromo, for one account,
\* which has used it whatever became of the payment.
CodeIsGood ==
  /\ code.active /\ code.valid
  /\ code.slots = NoCap \/ code.redeemed < code.slots
  /\ code.monthly = NoCap \/ Cardinality(Used) < code.monthly
IsGoodFor(p) == CodeIsGood /\ \A q \in Spent : BuyerOf[q] /= BuyerOf[p]

Goes(p, pc) == page' = [page EXCEPT ![p].pc = pc]
\* The code field stands before the account: signed out, only the code itself is checked.
ApplyPromo(p) ==
  /\ page[p].pc = "terms" /\ ~page[p].coded /\ CodeIsGood
  /\ page' = [page EXCEPT ![p].coded = TRUE]
  /\ UNCHANGED <<code, acks, session, bound, returned, rare, beside, capped>>

\* The code is taken off again.
RemovePromo(p) ==
  /\ page[p].pc = "terms" /\ page[p].coded
  /\ page' = [page EXCEPT ![p].coded = FALSE]
  /\ UNCHANGED <<code, acks, session, bound, returned, rare, beside, capped>>

\* Mutant: a buyer who acknowledged these terms before is not asked again.
PostAckFlawed(p) ==
  IF \E q \in Pages : BuyerOf[q] = BuyerOf[p] /\ (q \in acks \/ q \in UNION Range(bound))
  THEN UNCHANGED acks ELSE acks' = acks \cup {p}
\* One acknowledgment per purchase, even of terms acknowledged before.
PostAck(p) == acks' = acks \cup {p}
Acknowledge(p) ==
  /\ page[p].pc = "terms" /\ Goes(p, "confirm")
  /\ PostAck(p)
  /\ UNCHANGED <<code, session, bound, returned, rare, beside, capped>>

\* confirmPromoWithIdentity: a code that does not hold sends the family back to the price.
ConfirmPromo(p) ==
  /\ page[p].pc = "confirm"
  /\ page' = [page EXCEPT ![p] = IF ~@.coded \/ IsGoodFor(p) THEN [@ EXCEPT !.pc = "session"]
                                 ELSE [pc |-> "terms", coded |-> FALSE]]
  /\ UNCHANGED <<code, acks, session, bound, returned, rare, beside, capped>>

Acknowledged(p) ==
  \E q \in Pages : BuyerOf[q] = BuyerOf[p] /\ (q \in acks \/ \E r \in Pages : q \in bound[r])
\* POST /checkout/session: the acknowledgment, the code, and where the two paths part.
SessionRead(p) ==
  /\ page[p].pc = "session"
  /\ IF Acknowledged(p) /\ (page[p].coded => IsGoodFor(p))
     THEN /\ session' = [session EXCEPT ![p] =
               [coded |-> page[p].coded, amount |-> Total(page[p].coded),
                state |-> IF Total(page[p].coded) = 0 THEN "checked" ELSE "open"]]
          /\ beside' = [beside EXCEPT ![p] = IF page[p].coded THEN Under(p) ELSE {}]
          /\ Goes(p, "away")
     ELSE Goes(p, "terms") /\ UNCHANGED <<session, beside>>
  /\ UNCHANGED <<code, acks, bound, returned, rare, capped>>

\* redeemPromo: one guarded update, which asks neither for the date, the audience nor the month.
\* Mutant: the last slot is not looked at.
HasSlotFlawed == code.active
HasSlot == code.active /\ (code.slots = NoCap \/ code.redeemed < code.slots)
Redeemed == code' = IF HasSlot THEN [code EXCEPT !.redeemed = @ + 1] ELSE code
\* The free path: a slot, or the same refusal as an unknown code.
RedeemFirst(p) ==
  /\ session[p].state = "checked"
  /\ Redeemed
  /\ IF HasSlot THEN session' = [session EXCEPT ![p].state = "redeemed"] /\ UNCHANGED page
     ELSE session' = [session EXCEPT ![p] = NoSession] /\ Goes(p, "terms")
  /\ UNCHANGED <<acks, bound, returned, rare, beside, capped>>

\* fulfillCheckoutSession: the payment, the case, and every acknowledgment of the buyer
\* that has no case yet.
Fulfil(p) ==
  /\ session[p].state \in {"redeemed", "paid"}
  /\ session' = [session EXCEPT ![p].state = IF session[p].coded /\ session[p].amount > 0 THEN "late" ELSE "fulfilled"]
  /\ bound' = [bound EXCEPT ![p] = {q \in acks : BuyerOf[q] = BuyerOf[p]}]
  /\ acks' = {q \in acks : BuyerOf[q] /= BuyerOf[p]}
  /\ UNCHANGED <<code, page, returned, rare, beside, capped>>
\* After a paid review: what the redemption answers is not looked at.
RedeemLate(p) ==
  /\ session[p].state = "late"
  /\ Redeemed
  /\ session' = [session EXCEPT ![p].state = "fulfilled"]
  /\ UNCHANGED <<page, acks, bound, returned, rare, beside, capped>>

\* Stripe: the family pays, or turns back to the page it left.
PayOrReturn(p) ==
  /\ session[p].state = "open"
  /\ \/ session' = [session EXCEPT ![p].state = "paid"] /\ UNCHANGED page
     \/ session' = [session EXCEPT ![p] = NoSession] /\ page' = [page EXCEPT ![p] = [pc |-> "terms", coded |-> FALSE]]
  /\ UNCHANGED <<code, acks, bound, returned, rare, beside, capped>>

\* A death after the redemption of a free review, or before that of a paid one: a paid
\* session found fulfilled is not redeemed by whoever delivers it next.
Dies(p) ==
  /\ rare < MaxRare /\ rare' = rare + 1
  /\ \/ session[p].state = "redeemed" /\ session' = [session EXCEPT ![p] = NoSession] /\ Goes(p, "terms")
     \/ session[p].state = "late" /\ session' = [session EXCEPT ![p].state = "fulfilled"] /\ UNCHANGED page
  /\ UNCHANGED <<code, acks, bound, returned, beside, capped>>

\* PATCH /ops/promos/:id: on or off, the date and the audience, the two caps, whatever was
\* redeemed.
EditCode ==
  /\ rare < MaxRare /\ rare' = rare + 1
  /\ \E active, valid \in BOOLEAN, slots \in Caps \cup {code.slots}, monthly \in Caps \cup {code.monthly} :
       /\ code' = [code EXCEPT !.active = active, !.valid = valid, !.slots = slots, !.monthly = monthly]
       /\ capped' = [slots |-> capped.slots \cup {slots}, monthly |-> capped.monthly \cup {monthly}]
  /\ UNCHANGED saleVars
\* A refund, whole or in part, or a dispute.
GiveBack(p) ==
  /\ rare < MaxRare /\ rare' = rare + 1
  /\ p \in Paid \ returned /\ session[p].amount > 0
  /\ returned' = returned \cup {p}
  /\ UNCHANGED <<code, page, acks, session, bound, beside, capped>>

CheckoutNext ==
  \/ \E p \in Pages :
       \/ ApplyPromo(p) \/ RemovePromo(p) \/ Acknowledge(p) \/ ConfirmPromo(p) \/ SessionRead(p) \/ RedeemFirst(p)
       \/ Fulfil(p) \/ RedeemLate(p) \/ PayOrReturn(p) \/ Dies(p) \/ GiveBack(p)
  \/ EditCode

CheckoutSpec == CheckoutInit /\ [][CheckoutNext]_checkoutVars
-----------------------------------------------------------------------------
Raced(p, q) == q \in beside[p] \/ p \in beside[q]

\* Some cap that was in force allows it.
Within(n, caps) == NoCap \in caps \/ \E cap \in caps : n <= cap

\* "Two racers for the last slot cannot both win" (promo.service.ts): never more is redeemed
\* than the largest cap the staff ever set, and every free review took a slot. An account
\* uses a code once, and a month counts no more than the largest of its caps, but for
\* sessions that were open side by side.
CodeWithinBounds ==
  /\ Within(code.redeemed, capped.slots)
  /\ Cardinality({p \in Spent : session[p].amount = 0}) <= code.redeemed
  /\ \A p, q \in Spent : p /= q /\ BuyerOf[p] = BuyerOf[q] => Raced(p, q)
  /\ ~Within(Cardinality(Used), capped.monthly) => \E p, q \in Used : p /= q /\ Raced(p, q)

\* What is paid is what the page showed when the family went to pay, and a case has the
\* acknowledgment of its purchase ("one per purchase", checkout.ts), or another case of
\* the same buyer took it along with its own.
AgreedAsBought ==
  \A p \in Paid :
    /\ session[p].amount = Total(page[p].coded)
    /\ bound[p] = {} => \E q \in Paid : BuyerOf[q] = BuyerOf[p] /\ p \in bound[q] /\ q /= p

\* A purchase keeps to its code's bounds and to what the family was shown and agreed to.
BoughtAsAgreed == CodeWithinBounds /\ AgreedAsBought
=============================================================================
