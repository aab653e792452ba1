----------------------------- MODULE ReviewProofs ----------------------------
(***************************************************************************)
(* A family's review from its purchase to the report it reads, for every    *)
(* value of the constants: it is bought as agreed (FamilyCheckout), and     *)
(* what the family reads has passed (FindingsReview). Each of them has an   *)
(* inductive invariant, a lemma for each action that disturbs it, and the   *)
(* properties as theorems.                                                  *)
(***************************************************************************)
EXTENDS FamilyCheckout, FindingsReview, FiniteSetTheorems, Integers, TLAPS
-----------------------------------------------------------------------------
(***************************************************************************)
(* FamilyCheckout                                                           *)
(***************************************************************************)
SessionStates == {"none", "checked", "redeemed", "open", "paid", "late", "fulfilled"}
CodeRow == [off : Offs, active : BOOLEAN, valid : BOOLEAN, slots : Nat, monthly : Nat, redeemed : Nat]
PurchaseTypes ==
  /\ code \in CodeRow
  /\ page \in [Pages -> [pc : {"terms", "confirm", "session", "away"}, coded : BOOLEAN]]
  /\ session \in [Pages -> [state : SessionStates, coded : BOOLEAN, amount : Nat]]
  /\ acks \subseteq Pages
  /\ bound \in [Pages -> SUBSET Pages] /\ beside \in [Pages -> SUBSET Pages]
  /\ code.slots \in capped.slots /\ code.monthly \in capped.monthly

\* A session is made of what its page shows, and only while the page waits for it; a
\* free one is redeemed first, one that costs something is paid first.
OfPage(p) ==
  /\ session[p].state = "none" => ~session[p].coded
  /\ session[p].state /= "none" =>
       page[p].pc = "away" /\ session[p].coded = page[p].coded /\ session[p].amount = Total(page[p].coded)
  /\ session[p].state \in {"checked", "redeemed"} => session[p].amount = 0
  /\ session[p].state \in {"open", "paid", "late"} => session[p].amount > 0
SessionOfPage == \A p \in Pages : OfPage(p)

\* The sessions with the code, from their check on, and those that hold a slot for a free review.
Coded == {p \in Pages : session[p].coded}
Free == {p \in Coded : session[p].amount = 0 /\ session[p].state \in {"redeemed", "fulfilled"}}
SlotsAreTaken == Within(code.redeemed, capped.slots) /\ Cardinality(Free) <= code.redeemed

\* Two sessions of one account raced; and sessions none of which raced another are no
\* more than a month allowed, because the last to be checked counted all the others that
\* are counted still.
AccountRaced == \A p, q \in Coded : p /= q /\ BuyerOf[p] = BuyerOf[q] => Raced(p, q)
Apart(S) == \A p, q \in S : p /= q => ~Raced(p, q)
MonthIsKept == \A S \in SUBSET (Coded \ returned) : Apart(S) => Within(Cardinality(S), capped.monthly)
\* A cap is never forgotten, nor what was given back.
NothingForgotten == returned \subseteq returned' /\ capped.slots \subseteq capped'.slots /\ capped.monthly \subseteq capped'.monthly

\* The acknowledgment a page posted waits for a case, or a case of its buyer has it; it
\* does not wait beyond its own case.
AckIsKept ==
  /\ \A p \in Pages : page[p].pc /= "terms" =>
       p \in acks \/ \E q \in Paid : BuyerOf[q] = BuyerOf[p] /\ p \in bound[q]
  /\ acks \cap Paid = {}

PurchaseInv == PurchaseTypes /\ SessionOfPage /\ SlotsAreTaken /\ AccountRaced /\ MonthIsKept /\ AckIsKept

\* Sessions that lose the code, or keep it, leave the two counting rules alone.
LEMMA NoNewSession ==
  ASSUME PurchaseInv, UNCHANGED beside, NothingForgotten, \A p \in Pages : session'[p].coded => session[p].coded
  PROVE  AccountRaced' /\ MonthIsKept'
<1>1. Coded' \subseteq Coded
  BY DEF Coded
<1>2. \A p, q : Raced(p, q)' <=> Raced(p, q)
  BY DEF Raced
<1>3. AccountRaced'
  BY <1>1, <1>2 DEF PurchaseInv, AccountRaced
<1>4. MonthIsKept'
  <2> SUFFICES ASSUME NEW S \in SUBSET (Coded' \ returned'), Apart(S)' PROVE Within(Cardinality(S), capped'.monthly)
    BY DEF MonthIsKept, Within
  <2>1. Apart(S)
    BY <1>2 DEF Apart
  <2>2. Within(Cardinality(S), capped.monthly)
    BY <1>1, <2>1 DEF PurchaseInv, MonthIsKept, NothingForgotten
  <2> QED BY <2>2 DEF Within, NothingForgotten
<1> QED BY <1>3, <1>4

\* Nothing but the page that moves changes in what its session was made of.
LEMMA OthersAgree ==
  ASSUME PurchaseInv, NEW p \in Pages, code'.off = code.off, OfPage(p)',
         \A q \in Pages : q /= p => page'[q] = page[q] /\ session'[q] = session[q]
  PROVE  SessionOfPage'
<1> SUFFICES ASSUME NEW q \in Pages, q /= p PROVE OfPage(q)'
  BY DEF SessionOfPage
<1>1. page'[q] = page[q] /\ session'[q] = session[q] /\ OfPage(q)
  BY DEF PurchaseInv, SessionOfPage
<1> QED BY <1>1 DEF OfPage, Total

LEMMA PurchaseStarts == CheckoutInit => PurchaseInv
<1> SUFFICES ASSUME CheckoutInit PROVE PurchaseInv
  OBVIOUS
<1> USE CodeAssumption
<1>1. PurchaseTypes
  BY DEF CheckoutInit, PurchaseTypes, CodeRow, SessionStates, NoSession
<1>2. SessionOfPage
  BY DEF CheckoutInit, SessionOfPage, OfPage, NoSession
<1>3. Coded = {}
  BY DEF CheckoutInit, Coded, NoSession
<1>4. SlotsAreTaken
  <2>1. Free = {}
    BY <1>3 DEF Free
  <2> QED BY <2>1, FS_EmptySet DEF CheckoutInit, SlotsAreTaken, Within
<1>5. AccountRaced
  BY <1>3 DEF AccountRaced
<1>6. MonthIsKept
  <2>1. \A S \in SUBSET (Coded \ returned) : S = {}
    BY <1>3
  <2>2. Within(0, capped.monthly)
    <3>1. capped.monthly = {Monthly}
      BY DEF CheckoutInit
    <3> QED BY <3>1 DEF Within
  <2>3. \A S \in SUBSET (Coded \ returned) : Cardinality(S) = 0
    BY <2>1, FS_EmptySet
  <2> QED BY <2>2, <2>3 DEF MonthIsKept
<1>7. AckIsKept
  BY DEF CheckoutInit, AckIsKept, Paid, NoSession
<1> QED BY <1>1, <1>2, <1>4, <1>5, <1>6, <1>7 DEF PurchaseInv

\* A slot is held as long as no session takes one without its redemption.
LEMMA NoNewFree ==
  ASSUME PurchaseInv, PurchaseTypes', Free' \subseteq Free,
         Within(code'.redeemed, capped'.slots), code'.redeemed >= code.redeemed
  PROVE  SlotsAreTaken'
<1>1. IsFiniteSet(Free) /\ IsFiniteSet(Free')
  BY CodeAssumption, FS_Subset DEF Free, Coded
<1>2. Cardinality(Free') <= Cardinality(Free) /\ Cardinality(Free) \in Nat /\ Cardinality(Free') \in Nat
  BY <1>1, FS_Subset, FS_CardinalityType
<1>3. Cardinality(Free) <= code.redeemed /\ code.redeemed \in Nat /\ code'.redeemed \in Nat
  BY DEF PurchaseInv, PurchaseTypes, CodeRow, SlotsAreTaken
<1> QED BY <1>2, <1>3 DEF SlotsAreTaken, Within

\* An acknowledgment is kept as long as none is dropped and no case gives one up.
LEMMA AcksStand ==
  ASSUME PurchaseInv, acks \subseteq acks', UNCHANGED bound, Paid \subseteq Paid', acks' \cap Paid' = {},
         \A p \in Pages : page'[p].pc /= "terms" => page[p].pc /= "terms" \/ p \in acks'
  PROVE  AckIsKept'
<1> SUFFICES ASSUME NEW p \in Pages, page'[p].pc /= "terms"
             PROVE  p \in acks' \/ \E q \in Paid' : BuyerOf[q] = BuyerOf[p] /\ p \in bound[q]
  BY DEF AckIsKept
<1>1. CASE page[p].pc /= "terms"
  BY <1>1 DEF PurchaseInv, AckIsKept
<1>2. CASE p \in acks'
  BY <1>2
<1> QED BY <1>1, <1>2

\* The page alone moves: no session, no slot.
PageMoves(p) ==
  \/ ApplyPromo(p) \/ RemovePromo(p) \/ Acknowledge(p) \/ ConfirmPromo(p)
LEMMA PageMovesKeep == ASSUME PurchaseInv, NEW p \in Pages, PageMoves(p) PROVE PurchaseInv'
<1> USE DEF PurchaseInv
<1>1. page[p].pc \in {"terms", "confirm"} /\ UNCHANGED <<code, session, bound, beside, returned, capped>> /\ acks \subseteq acks'
  BY DEF PageMoves, ApplyPromo, RemovePromo, Acknowledge, ConfirmPromo, PostAck
<1>2. PurchaseTypes'
  <2>1. page' \in [Pages -> [pc : {"terms", "confirm", "session", "away"}, coded : BOOLEAN]]
    <3>1. CASE ConfirmPromo(p)
      <4>1. page' = [page EXCEPT ![p] = IF ~page[p].coded \/ IsGoodFor(p)
                                        THEN [page[p] EXCEPT !.pc = "session"]
                                        ELSE [pc |-> "terms", coded |-> FALSE]]
        BY <3>1 DEF ConfirmPromo
      <4>2. page[p] \in [pc : {"terms", "confirm", "session", "away"}, coded : BOOLEAN]
        BY DEF PurchaseTypes
      <4> QED BY <4>1, <4>2 DEF PurchaseTypes
    <3>2. CASE Acknowledge(p)
      BY <3>2 DEF Acknowledge, Goes, PurchaseTypes
    <3>3. CASE ApplyPromo(p) \/ RemovePromo(p)
      <4>1. PICK c \in BOOLEAN : page' = [page EXCEPT ![p].coded = c]
        BY <3>3 DEF ApplyPromo, RemovePromo
      <4> QED BY <4>1 DEF PurchaseTypes
    <3> QED BY <3>1, <3>2, <3>3 DEF PageMoves
  <2>2. acks' \subseteq Pages
    BY DEF PageMoves, ApplyPromo, RemovePromo, Acknowledge, ConfirmPromo, PostAck, PurchaseTypes
  <2> QED BY <1>1, <2>1, <2>2 DEF PurchaseTypes
<1>3. \A q \in Pages : q /= p => page'[q] = page[q]
  BY DEF PageMoves, ApplyPromo, RemovePromo, Acknowledge, ConfirmPromo, Goes, PurchaseTypes
<1>4. session[p].state = "none"
  BY <1>1 DEF SessionOfPage, OfPage
<1>5. SessionOfPage'
  <2>1. OfPage(p)'
    BY <1>1, <1>4 DEF SessionOfPage, OfPage
  <2> QED BY <1>1, <1>3, <2>1, OthersAgree
<1>6. SlotsAreTaken'
  BY <1>1 DEF SlotsAreTaken, Free, Coded, Within
<1>7. AccountRaced' /\ MonthIsKept'
  BY <1>1, NoNewSession DEF NothingForgotten
<1>8. AckIsKept'
  <2>1. page'[p].pc /= "terms" => page[p].pc /= "terms" \/ p \in acks'
    BY DEF PageMoves, ApplyPromo, RemovePromo, Acknowledge, ConfirmPromo, PostAck, Goes, PurchaseTypes
  <2>2. Paid' = Paid
    BY <1>1 DEF Paid
  <2>3. acks' \subseteq acks \cup {p} /\ p \notin Paid /\ acks \cap Paid = {}
    BY <1>4 DEF PageMoves, ApplyPromo, RemovePromo, Acknowledge, ConfirmPromo, PostAck, Paid, AckIsKept
  <2> QED BY <1>1, <1>3, <2>1, <2>2, <2>3, AcksStand
<1> QED BY <1>2, <1>5, <1>6, <1>7, <1>8

\* The check of a code counts the paid reviews under it and remembers the others: a
\* session of the same account is one it raced, and those it did not race are few.
LEMMA SessionReadKeeps == ASSUME PurchaseInv, NEW p \in Pages, SessionRead(p) PROVE PurchaseInv'
<1> USE DEF PurchaseInv
<1>1. page[p].pc = "session" /\ UNCHANGED <<code, acks, bound, returned, rare, capped>> /\ session[p].state = "none" /\ ~session[p].coded
  BY DEF SessionRead, SessionOfPage, OfPage
<1>2. CASE UNCHANGED <<session, beside>>
  <2>1. Goes(p, "terms") \/ Goes(p, "away")
    BY DEF SessionRead
  <2>2. PurchaseTypes'
    <3>1. PICK to \in {"terms", "away"} : page' = [page EXCEPT ![p].pc = to]
      BY <2>1 DEF Goes
    <3> QED BY <1>1, <1>2, <3>1 DEF PurchaseTypes
  <2>3. \A q \in Pages : q /= p => page'[q] = page[q]
    BY <2>1 DEF PurchaseTypes, Goes
  <2>4. SessionOfPage'
    <3>1. OfPage(p)'
      BY <1>1, <1>2 DEF SessionOfPage, OfPage
    <3> QED BY <1>1, <1>2, <2>3, <3>1, OthersAgree
  <2>5. SlotsAreTaken' /\ AccountRaced' /\ MonthIsKept'
    BY <1>1, <1>2, NoNewSession DEF SlotsAreTaken, Free, Coded, Within, NothingForgotten
  <2>6. AckIsKept'
    <3>1. Paid' = Paid
      BY <1>2 DEF Paid
    <3> QED BY <1>1, <2>3, <3>1, AcksStand DEF AckIsKept
  <2> QED BY <2>2, <2>4, <2>5, <2>6
<1>3. CASE ~UNCHANGED <<session, beside>>
  <2> DEFINE total == Total(page[p].coded)
             made == [coded |-> page[p].coded, amount |-> total, state |-> IF total = 0 THEN "checked" ELSE "open"]
  <2>1. /\ session' = [session EXCEPT ![p] = made]
        /\ beside' = [beside EXCEPT ![p] = IF page[p].coded THEN Under(p) ELSE {}]
        /\ Goes(p, "away") /\ (page[p].coded => IsGoodFor(p))
    BY <1>3 DEF SessionRead
  <2>2. total \in Nat /\ page[p].coded \in BOOLEAN
    <3>1. code.off \in 1 .. Amount /\ Amount \in Nat
      BY CodeAssumption DEF PurchaseTypes, CodeRow
    <3>2. page[p].coded \in BOOLEAN
      BY DEF PurchaseTypes
    <3> QED BY <3>1, <3>2 DEF Total
  <2>3. made \in [state : SessionStates, coded : BOOLEAN, amount : Nat]
    BY <2>2 DEF SessionStates
  <2> HIDE DEF total
  <2>4. /\ session'[p] = made /\ page'[p] = [page[p] EXCEPT !.pc = "away"]
        /\ \A q \in Pages : q /= p => page'[q] = page[q] /\ session'[q] = session[q] /\ beside'[q] = beside[q]
        /\ beside'[p] = IF page[p].coded THEN Under(p) ELSE {}
    BY <2>1 DEF PurchaseTypes, Goes
  <2>5. PurchaseTypes'
    <3>1. session' \in [Pages -> [state : SessionStates, coded : BOOLEAN, amount : Nat]]
      BY <2>1, <2>3 DEF PurchaseTypes
    <3>2. page' \in [Pages -> [pc : {"terms", "confirm", "session", "away"}, coded : BOOLEAN]]
      BY <2>1 DEF PurchaseTypes, Goes
    <3>3. beside' \in [Pages -> SUBSET Pages]
      BY <2>1 DEF PurchaseTypes, Under
    <3> QED BY <1>1, <3>1, <3>2, <3>3 DEF PurchaseTypes
  <2>6. SessionOfPage'
    <3>1. page'[p].pc = "away" /\ page'[p].coded = page[p].coded
      BY <2>4 DEF PurchaseTypes
    <3>2. OfPage(p)'
      BY <1>1, <2>2, <2>4, <3>1 DEF OfPage, Total, total
    <3> QED BY <1>1, <2>4, <3>2, OthersAgree
  <2>7. Coded' \subseteq Coded \cup {p} /\ (p \in Coded' => page[p].coded)
    BY <2>4 DEF Coded
  <2>8. SlotsAreTaken'
    <3>1. Free' \subseteq Free
      BY <2>4, <2>7 DEF Free, Coded
    <3>2. Within(code'.redeemed, capped'.slots) /\ code'.redeemed >= code.redeemed
      BY <1>1 DEF SlotsAreTaken, PurchaseTypes, CodeRow
    <3> QED BY <2>5, <3>1, <3>2, NoNewFree
  <2>9. \A q \in Coded : q \in Spent \/ (page[p].coded => q \in beside'[p])
    <3> SUFFICES ASSUME NEW q \in Coded, page[p].coded PROVE q \in Spent \/ q \in Under(p)
      BY <2>4
    <3>1. q \in Pages /\ session[q].coded /\ session[q].state \in SessionStates \ {"none"}
      BY DEF Coded, SessionOfPage, OfPage, PurchaseTypes
    <3> QED BY <3>1 DEF Spent, Paid, Under, SessionStates
  <2>10. \A q, r \in Pages \ {p} : Raced(q, r)' <=> Raced(q, r)
    BY <2>4 DEF Raced
  <2>11. p \notin Coded
    BY <1>1 DEF Coded
  <2>12. AccountRaced'
    <3> SUFFICES ASSUME NEW q \in Coded', NEW r \in Coded', q /= r, BuyerOf[q] = BuyerOf[r] PROVE Raced(q, r)'
      BY DEF AccountRaced
    <3>1. CASE q /= p /\ r /= p
      BY <2>7, <2>10, <3>1 DEF AccountRaced, Coded
    <3>2. CASE q = p \/ r = p
      <4>1. PICK s \in Coded : {q, r} = {p, s} /\ BuyerOf[s] = BuyerOf[p]
        BY <2>7, <3>2
      <4>2. page[p].coded /\ IsGoodFor(p)
        BY <2>1, <2>7, <3>2
      <4>3. s \notin Spent
        BY <4>1, <4>2 DEF IsGoodFor
      <4>4. s \in beside'[p]
        BY <2>9, <4>2, <4>3
      <4> QED BY <4>1, <4>4 DEF Raced
    <3> QED BY <3>1, <3>2
  <2>13. MonthIsKept'
    <3> SUFFICES ASSUME NEW S \in SUBSET (Coded' \ returned'), Apart(S)' PROVE Within(Cardinality(S), capped'.monthly)
      BY DEF MonthIsKept, Within
    <3>1. CASE p \notin S
      <4>1. S \subseteq Coded \ returned
        BY <1>1, <2>7, <3>1
      <4>2. Apart(S)
        BY <2>10, <3>1, <4>1 DEF Apart, Coded
      <4> QED BY <1>1, <4>1, <4>2 DEF MonthIsKept
    <3>2. CASE p \in S
      <4>1. page[p].coded /\ (code.monthly = NoCap \/ Cardinality(Used) < code.monthly)
        BY <2>1, <2>7, <3>2 DEF IsGoodFor, CodeIsGood
      <4>2. S \ {p} \subseteq Used
        <5> SUFFICES ASSUME NEW q \in S, q /= p PROVE q \in Used
          OBVIOUS
        <5>1. q \in Coded /\ q \notin returned
          BY <1>1, <2>7
        <5>2. q \notin beside'[p]
          BY <3>2 DEF Apart, Raced
        <5> QED BY <2>9, <4>1, <5>1, <5>2 DEF Used
      <4>3. IsFiniteSet(Used) /\ IsFiniteSet(S \ {p}) /\ IsFiniteSet(S)
        BY CodeAssumption, FS_Subset DEF Used, Spent, Paid, Coded
      <4>4. Cardinality(S \ {p}) <= Cardinality(Used) /\ Cardinality(S \ {p}) = Cardinality(S) - 1
        BY <3>2, <4>2, <4>3, FS_Subset, FS_RemoveElement
      <4>5. Cardinality(S) \in Nat /\ Cardinality(Used) \in Nat
        BY <4>3, FS_CardinalityType
      <4>6. code.monthly \in Nat /\ code.monthly \in capped'.monthly
        BY <1>1 DEF PurchaseTypes, CodeRow
      <4> QED BY <4>1, <4>4, <4>5, <4>6 DEF Within
    <3> QED BY <3>1, <3>2
  <2>14. AckIsKept'
    <3>1. Paid = Paid'
      BY <1>1, <2>4 DEF Paid
    <3>2. \A q \in Pages : page'[q].pc /= "terms" => page[q].pc /= "terms"
      BY <1>1, <2>4
    <3> QED BY <1>1, <3>1, <3>2, AcksStand DEF AckIsKept
  <2> QED BY <2>5, <2>6, <2>8, <2>12, <2>13, <2>14
<1> QED BY <1>2, <1>3

\* A session goes on, or is given up, without the code being counted anew.
SessionMoves(p) == RedeemFirst(p) \/ Fulfil(p) \/ RedeemLate(p) \/ PayOrReturn(p) \/ (Dies(p) /\ UNCHANGED code)
LEMMA MovesKeepTypes ==
  ASSUME PurchaseInv, NEW p \in Pages, SessionMoves(p)
  PROVE  /\ PurchaseTypes' /\ code'.off = code.off /\ Within(code'.redeemed, capped'.slots) /\ code'.redeemed >= code.redeemed
         /\ UNCHANGED <<beside, returned, capped>>
         /\ \A q \in Pages : q /= p => page'[q] = page[q] /\ session'[q] = session[q]
         /\ \/ session'[p] = NoSession /\ page'[p].pc = "terms" /\ session[p].state \in {"checked", "open", "redeemed"}
            \/ \E to \in SessionStates \ {"none", "checked", "open"} :
                 session'[p] = [session[p] EXCEPT !.state = to] /\ page'[p] = page[p] /\ session[p].state /= "none"
<1> USE DEF PurchaseInv
<1>1. /\ code \in CodeRow /\ code.slots \in capped.slots
      /\ session \in [Pages -> [state : SessionStates, coded : BOOLEAN, amount : Nat]]
      /\ page \in [Pages -> [pc : {"terms", "confirm", "session", "away"}, coded : BOOLEAN]]
      /\ Within(code.redeemed, capped.slots)
  BY DEF PurchaseTypes, SlotsAreTaken
<1>2. UNCHANGED <<beside, returned, capped>>
  BY DEF SessionMoves, RedeemFirst, Fulfil, RedeemLate, PayOrReturn, Dies
<1>3. /\ code' \in CodeRow /\ code'.slots = code.slots /\ code'.monthly = code.monthly
      /\ code'.off = code.off /\ Within(code'.redeemed, capped'.slots) /\ code'.redeemed >= code.redeemed
  <2>1. CASE code' = code
    BY <1>1, <1>2, <2>1 DEF CodeRow
  <2>2. CASE Redeemed
    <3>1. CASE HasSlot
      <4>1. code' = [code EXCEPT !.redeemed = code.redeemed + 1] /\ (code.slots = NoCap \/ code.redeemed < code.slots)
        BY <2>2, <3>1 DEF Redeemed, HasSlot
      <4>2. code'.redeemed = code.redeemed + 1 /\ code' \in CodeRow /\ code'.slots = code.slots
            /\ code'.monthly = code.monthly /\ code'.off = code.off
        BY <1>1, <4>1 DEF CodeRow
      <4>3. Within(code'.redeemed, capped'.slots)
        <5>1. code.redeemed \in Nat /\ code.slots \in Nat
          BY <1>1 DEF CodeRow
        <5> QED BY <1>1, <1>2, <4>1, <4>2, <5>1 DEF Within
      <4> QED BY <1>1, <4>2, <4>3 DEF CodeRow
    <3>2. CASE ~HasSlot
      BY <1>1, <1>2, <2>2, <3>2 DEF Redeemed, CodeRow
    <3> QED BY <3>1, <3>2
  <2> QED BY <2>1, <2>2 DEF SessionMoves, RedeemFirst, Fulfil, RedeemLate, PayOrReturn
<1>4. \/ /\ session' = [session EXCEPT ![p] = NoSession] /\ session[p].state \in {"checked", "open", "redeemed"}
         /\ Goes(p, "terms") \/ page' = [page EXCEPT ![p] = [pc |-> "terms", coded |-> FALSE]]
      \/ \E to \in SessionStates \ {"none", "checked", "open"} :
           session' = [session EXCEPT ![p].state = to] /\ UNCHANGED page /\ session[p].state /= "none"
  <2>1. CASE RedeemFirst(p)
    BY <2>1 DEF RedeemFirst, SessionStates
  <2>2. CASE Fulfil(p)
    BY <2>2 DEF Fulfil, SessionStates
  <2>3. CASE RedeemLate(p)
    BY <2>3 DEF RedeemLate, SessionStates
  <2>4. CASE PayOrReturn(p)
    BY <2>4 DEF PayOrReturn, SessionStates
  <2>5. CASE Dies(p)
    BY <2>5 DEF Dies, SessionStates
  <2> QED BY <2>1, <2>2, <2>3, <2>4, <2>5 DEF SessionMoves
<1>5. acks' \subseteq Pages /\ bound' \in [Pages -> SUBSET Pages]
  BY DEF SessionMoves, RedeemFirst, Fulfil, RedeemLate, PayOrReturn, Dies, PurchaseTypes
<1>6. CASE /\ session' = [session EXCEPT ![p] = NoSession] /\ session[p].state \in {"checked", "open", "redeemed"}
           /\ Goes(p, "terms") \/ page' = [page EXCEPT ![p] = [pc |-> "terms", coded |-> FALSE]]
  <2>1. PICK c \in BOOLEAN : page' = [page EXCEPT ![p] = [pc |-> "terms", coded |-> c]]
    <3>1. CASE Goes(p, "terms")
      <4>1. PICK r \in [pc : {"terms", "confirm", "session", "away"}, coded : BOOLEAN] : r = page[p]
        BY <1>1
      <4>2. [r EXCEPT !.pc = "terms"] = [pc |-> "terms", coded |-> r.coded] /\ r.coded \in BOOLEAN
        OBVIOUS
      <4>3. page' = [page EXCEPT ![p] = [r EXCEPT !.pc = "terms"]]
        BY <1>1, <3>1, <4>1 DEF Goes
      <4> QED BY <4>2, <4>3
    <3> QED BY <1>6, <3>1
  <2>2. NoSession \in [state : SessionStates, coded : BOOLEAN, amount : Nat]
    BY DEF NoSession, SessionStates
  <2>3. PurchaseTypes'
    BY <1>1, <1>2, <1>3, <1>5, <1>6, <2>1, <2>2 DEF PurchaseTypes
  <2> QED BY <1>1, <1>2, <1>3, <1>6, <2>1, <2>3
<1>7. CASE \E to \in SessionStates \ {"none", "checked", "open"} :
             session' = [session EXCEPT ![p].state = to] /\ UNCHANGED page /\ session[p].state /= "none"
  <2>1. PICK to \in SessionStates \ {"none", "checked", "open"} :
             session' = [session EXCEPT ![p].state = to] /\ UNCHANGED page /\ session[p].state /= "none"
    BY <1>7
  <2>2. PurchaseTypes'
    BY <1>1, <1>2, <1>3, <1>5, <2>1 DEF PurchaseTypes
  <2>3. session'[p] = [session[p] EXCEPT !.state = to] /\ \A q \in Pages : q /= p => session'[q] = session[q]
    BY <1>1, <2>1
  <2> QED BY <1>2, <1>3, <2>1, <2>2, <2>3
<1> QED BY <1>4, <1>6, <1>7

\* A slot is taken by the redemption, an acknowledgment by the case: what a session
\* that goes on relies on was put there by the step before it.
LEMMA MovesKeep == ASSUME PurchaseInv, NEW p \in Pages, SessionMoves(p) PROVE PurchaseInv'
<1>1. /\ PurchaseTypes' /\ code'.off = code.off /\ Within(code'.redeemed, capped'.slots) /\ code'.redeemed >= code.redeemed
      /\ UNCHANGED <<beside, returned, capped>>
      /\ \A q \in Pages : q /= p => page'[q] = page[q] /\ session'[q] = session[q]
      /\ \/ session'[p] = NoSession /\ page'[p].pc = "terms" /\ session[p].state \in {"checked", "open", "redeemed"}
         \/ \E to \in SessionStates \ {"none", "checked", "open"} :
              session'[p] = [session[p] EXCEPT !.state = to] /\ page'[p] = page[p] /\ session[p].state /= "none"
  BY MovesKeepTypes
<1> USE DEF PurchaseInv
<1>2. session[p] \in [state : SessionStates, coded : BOOLEAN, amount : Nat] /\ OfPage(p)
  BY DEF PurchaseTypes, SessionOfPage
<1>3. /\ session'[p].coded => session[p].coded
      /\ session'[p].state /= "none" =>
           /\ session[p].state /= "none" /\ page'[p] = page[p]
           /\ session'[p].coded = session[p].coded /\ session'[p].amount = session[p].amount
      /\ session'[p].state \notin {"checked", "open"}
  <2>1. CASE session'[p] = NoSession
    BY <2>1 DEF NoSession
  <2>2. CASE \E to \in SessionStates \ {"none", "checked", "open"} :
               session'[p] = [session[p] EXCEPT !.state = to] /\ page'[p] = page[p] /\ session[p].state /= "none"
    BY <1>2, <2>2
  <2> QED BY <1>1, <2>1, <2>2
<1>4. /\ session'[p].state = "redeemed" => session[p].state = "checked" /\ RedeemFirst(p) /\ HasSlot
      /\ session'[p].state = "paid" => session[p].state = "open"
      /\ session'[p].state = "late" => session[p].amount > 0
      /\ session'[p].state = "fulfilled" => session[p].state = "redeemed" \/ ~session[p].coded \/ session[p].amount > 0
  <2>1. CASE RedeemFirst(p)
    BY <2>1 DEF RedeemFirst, PurchaseTypes, NoSession
  <2>2. CASE Fulfil(p)
    <3>1. session'[p].state = (IF session[p].coded /\ session[p].amount > 0 THEN "late" ELSE "fulfilled")
          /\ session[p].state \in {"redeemed", "paid"}
      BY <2>2 DEF Fulfil, PurchaseTypes
    <3> QED BY <1>2, <3>1 DEF OfPage
  <2>3. CASE RedeemLate(p)
    BY <1>2, <2>3 DEF RedeemLate, PurchaseTypes, OfPage
  <2>4. CASE PayOrReturn(p)
    BY <2>4 DEF PayOrReturn, PurchaseTypes, NoSession
  <2>5. CASE Dies(p)
    BY <1>2, <2>5 DEF Dies, PurchaseTypes, NoSession, OfPage
  <2> QED BY <2>1, <2>2, <2>3, <2>4, <2>5 DEF SessionMoves
<1>5. SessionOfPage'
  <2>1. OfPage(p)'
    <3>1. CASE session'[p].state = "none"
      <4>1. session'[p] = NoSession
        BY <1>1, <3>1, <1>2
      <4> QED BY <4>1 DEF OfPage, NoSession
    <3>2. CASE session'[p].state /= "none"
      BY <1>1, <1>2, <1>3, <1>4, <3>2 DEF OfPage, Total
    <3> QED BY <3>1, <3>2
  <2> QED BY <1>1, <2>1, OthersAgree
<1>6. SlotsAreTaken'
  <2>1. CASE session'[p].state = "redeemed"
    <3>1. code'.redeemed = code.redeemed + 1
      BY <1>4, <2>1 DEF RedeemFirst, Redeemed, PurchaseTypes, CodeRow
    <3>2. Free' \subseteq Free \cup {p}
      BY <1>1 DEF Free, Coded
    <3>3. IsFiniteSet(Free) /\ IsFiniteSet(Free') /\ IsFiniteSet(Free \cup {p})
      BY CodeAssumption, FS_Subset, FS_AddElement DEF Free, Coded
    <3>4. Cardinality(Free') <= Cardinality(Free \cup {p}) /\ Cardinality(Free \cup {p}) <= Cardinality(Free) + 1
      BY <3>2, <3>3, FS_Subset, FS_AddElement, FS_CardinalityType
    <3>5. Cardinality(Free) \in Nat /\ Cardinality(Free') \in Nat /\ Cardinality(Free \cup {p}) \in Nat
      BY <3>3, FS_CardinalityType
    <3>6. code.redeemed \in Nat /\ Cardinality(Free) <= code.redeemed
      BY DEF PurchaseTypes, CodeRow, SlotsAreTaken
    <3>7. Within(code'.redeemed, capped'.slots)
      BY <1>1
    <3> QED BY <3>1, <3>4, <3>5, <3>6, <3>7 DEF SlotsAreTaken, Within
  <2>2. CASE session'[p].state /= "redeemed"
    <3>1. Free' \subseteq Free
      <4> SUFFICES ASSUME NEW q \in Free' PROVE q \in Free
        OBVIOUS
      <4>1. CASE q /= p
        BY <1>1, <4>1 DEF Free, Coded
      <4>2. CASE q = p
        <5>1. session'[p].coded /\ session'[p].amount = 0 /\ session'[p].state = "fulfilled"
          BY <2>2, <4>2 DEF Free, Coded
        <5>2. session[p].coded /\ session[p].amount = 0 /\ session[p].state = "redeemed"
          BY <1>3, <1>4, <5>1
        <5> QED BY <4>2, <5>2 DEF Free, Coded
      <4> QED BY <4>1, <4>2
    <3> QED BY <1>1, <3>1, NoNewFree
  <2> QED BY <2>1, <2>2
<1>7. AccountRaced' /\ MonthIsKept'
  BY <1>1, <1>3, NoNewSession DEF NothingForgotten
<1>8. Paid \subseteq Paid' /\ Paid' \subseteq Paid \cup {p}
  <2>1. \A q \in Pages : q /= p => session'[q] = session[q]
    BY <1>1
  <2>2. ASSUME p \in Paid PROVE p \in Paid'
    <3>1. session[p].state \in {"fulfilled", "late"}
      BY <2>2 DEF Paid
    <3>2. session'[p] /= NoSession
      BY <3>1 DEF SessionMoves, RedeemFirst, Fulfil, RedeemLate, PayOrReturn, Dies, PurchaseTypes, NoSession
    <3>3. session'[p].state \in SessionStates \ {"none", "checked", "open"}
      BY <1>1, <1>2, <3>2
    <3>4. session'[p].state \notin {"redeemed", "paid"}
      BY <1>4, <3>1
    <3> QED BY <3>3, <3>4 DEF Paid, SessionStates
  <2> QED BY <2>1, <2>2 DEF Paid
<1>9. \A q \in Pages : page'[q].pc /= "terms" => page[q].pc /= "terms"
  BY <1>1
<1>10. AckIsKept'
  <2>1. CASE Fulfil(p)
    <3> SUFFICES ASSUME NEW q \in Pages, page'[q].pc /= "terms"
                 PROVE  q \in acks' \/ \E r \in Paid' : BuyerOf[r] = BuyerOf[q] /\ q \in bound'[r]
      <4>1. acks' \cap Paid' = {}
        BY <1>8, <2>1 DEF Fulfil, AckIsKept
      <4> QED BY <4>1 DEF AckIsKept
    <3>1. /\ bound' = [bound EXCEPT ![p] = {r \in acks : BuyerOf[r] = BuyerOf[p]}]
          /\ acks' = {r \in acks : BuyerOf[r] /= BuyerOf[p]}
          /\ p \in Paid' /\ p \notin Paid
      BY <2>1 DEF Fulfil, Paid, PurchaseTypes
    <3>2. CASE q \in acks
      BY <3>1, <3>2 DEF PurchaseTypes
    <3>3. CASE q \notin acks
      <4>1. PICK r \in Paid : BuyerOf[r] = BuyerOf[q] /\ q \in bound[r]
        BY <1>9, <3>3 DEF AckIsKept
      <4>2. r /= p /\ r \in Pages /\ bound'[r] = bound[r]
        BY <3>1, <4>1 DEF PurchaseTypes, Paid
      <4> QED BY <1>8, <4>1, <4>2
    <3> QED BY <3>2, <3>3
  <2>2. CASE ~Fulfil(p)
    <3>1. UNCHANGED <<acks, bound>>
      BY <2>2 DEF SessionMoves, RedeemFirst, RedeemLate, PayOrReturn, Dies
    <3>2. Paid' = Paid
      <4>1. p \in Paid' => p \in Paid
        BY <2>2, <1>2 DEF SessionMoves, RedeemFirst, RedeemLate, PayOrReturn, Dies, PurchaseTypes, Paid, NoSession
      <4> QED BY <1>8, <4>1
    <3> QED BY <1>8, <1>9, <3>1, <3>2, AcksStand DEF AckIsKept
  <2> QED BY <2>1, <2>2
<1> QED BY <1>1, <1>5, <1>6, <1>7, <1>10

\* Whatever the staff set, the caps that were in force stay among those that bound it; and
\* a payment given back leaves the month's count.
LEMMA EditsKeep == ASSUME PurchaseInv, EditCode \/ \E p \in Pages : GiveBack(p) PROVE PurchaseInv'
<1> USE DEF PurchaseInv
<1>1. UNCHANGED <<page, acks, session, bound, beside>>
  BY DEF EditCode, GiveBack, saleVars
<1>2. code \in CodeRow /\ code.slots \in capped.slots /\ code.monthly \in capped.monthly
  BY DEF PurchaseTypes
<1>3. /\ code' \in CodeRow /\ code'.slots \in capped'.slots /\ code'.monthly \in capped'.monthly
      /\ code'.off = code.off /\ code'.redeemed = code.redeemed /\ NothingForgotten
  <2>1. CASE EditCode
    <3>1. PICK active \in BOOLEAN, valid \in BOOLEAN,
               slots \in Caps \cup {code.slots}, monthly \in Caps \cup {code.monthly} :
            /\ code' = [code EXCEPT !.active = active, !.valid = valid, !.slots = slots, !.monthly = monthly]
            /\ capped' = [slots |-> capped.slots \cup {slots}, monthly |-> capped.monthly \cup {monthly}]
      BY <2>1 DEF EditCode
    <3>2. slots \in Nat /\ monthly \in Nat
      BY <1>2, CodeAssumption DEF CodeRow
    <3>3. returned' = returned
      BY <2>1 DEF EditCode, saleVars
    <3> QED BY <1>2, <3>1, <3>2, <3>3 DEF CodeRow, NothingForgotten
  <2>2. CASE \E p \in Pages : GiveBack(p)
    BY <1>2, <2>2 DEF GiveBack, NothingForgotten
  <2> QED BY <2>1, <2>2
<1>4. PurchaseTypes'
  BY <1>1, <1>3 DEF PurchaseTypes
<1>5. SessionOfPage'
  BY <1>1, <1>3 DEF SessionOfPage, OfPage, Total
<1>6. SlotsAreTaken'
  <2>1. Free' = Free
    BY <1>1 DEF Free, Coded
  <2>2. Within(code.redeemed, capped.slots) => Within(code'.redeemed, capped'.slots)
    BY <1>3 DEF Within, NothingForgotten
  <2> QED BY <1>3, <2>1, <2>2 DEF SlotsAreTaken, Within
<1>7. AccountRaced' /\ MonthIsKept'
  BY <1>1, <1>3, NoNewSession
<1>8. AckIsKept'
  BY <1>1 DEF AckIsKept, Paid
<1> QED BY <1>4, <1>5, <1>6, <1>7, <1>8

LEMMA PurchaseStep == ASSUME PurchaseInv, CheckoutNext PROVE PurchaseInv'
<1>1. CASE EditCode
  BY <1>1, EditsKeep
<1>2. ASSUME NEW p \in Pages,
             \/ ApplyPromo(p) \/ RemovePromo(p) \/ Acknowledge(p) \/ ConfirmPromo(p) \/ SessionRead(p) \/ RedeemFirst(p)
             \/ Fulfil(p) \/ RedeemLate(p) \/ PayOrReturn(p) \/ Dies(p) \/ GiveBack(p)
      PROVE  PurchaseInv'
  <2>1. CASE PageMoves(p)
    BY <2>1, PageMovesKeep
  <2>2. CASE SessionRead(p)
    BY <2>2, SessionReadKeeps
  <2>3. CASE SessionMoves(p)
    BY <2>3, MovesKeep
  <2>4. Dies(p) => UNCHANGED code
    BY DEF Dies
  <2>5. CASE GiveBack(p)
    BY <2>5, EditsKeep
  <2> QED BY <1>2, <2>1, <2>2, <2>3, <2>4, <2>5 DEF PageMoves, SessionMoves
<1> QED BY <1>1, <1>2 DEF CheckoutNext

\* Every step of the buy page, of a checkout session and of its payment keeps what is known
\* of them: a session is of its page, its slot was taken, two of one account raced each
\* other, and its acknowledgment waits or went to a case (checkout.ts, promo.service.ts).
THEOREM PurchaseStands == CheckoutSpec => []PurchaseInv
<1>1. ASSUME PurchaseInv, UNCHANGED checkoutVars PROVE PurchaseInv'
  BY <1>1 DEF checkoutVars, saleVars, PurchaseInv, PurchaseTypes, CodeRow, Within, SessionOfPage, OfPage, Total, SlotsAreTaken, Free, Coded,
              AccountRaced, Raced, MonthIsKept, Apart, AckIsKept, Paid
<1> QED BY <1>1, PurchaseStarts, PurchaseStep, PTL DEF CheckoutSpec

LEMMA PurchaseMeansAgreed == PurchaseInv => BoughtAsAgreed
<1> SUFFICES ASSUME PurchaseInv PROVE BoughtAsAgreed
  OBVIOUS
<1> USE DEF PurchaseInv
<1>1. Spent \subseteq Coded /\ Used \subseteq Coded \ returned
  BY DEF Spent, Used, Paid, Coded
<1>2. Cardinality({p \in Spent : session[p].amount = 0}) <= code.redeemed
  <2>1. {p \in Spent : session[p].amount = 0} \subseteq Free
    BY DEF Spent, Paid, Free, Coded, SessionOfPage, OfPage
  <2>2. IsFiniteSet(Free)
    BY CodeAssumption, FS_Subset DEF Free, Coded
  <2>3. /\ Cardinality({p \in Spent : session[p].amount = 0}) <= Cardinality(Free)
        /\ IsFiniteSet({p \in Spent : session[p].amount = 0})
    BY <2>1, <2>2, FS_Subset
  <2>4. Cardinality(Free) \in Nat /\ Cardinality({p \in Spent : session[p].amount = 0}) \in Nat /\ code.redeemed \in Nat
    BY <2>2, <2>3, FS_CardinalityType DEF PurchaseTypes, CodeRow
  <2> QED BY <2>3, <2>4 DEF SlotsAreTaken
<1>3. ~Within(Cardinality(Used), capped.monthly) => \E p, q \in Used : p /= q /\ Raced(p, q)
  <2> SUFFICES ASSUME ~\E p, q \in Used : p /= q /\ Raced(p, q) PROVE Within(Cardinality(Used), capped.monthly)
    OBVIOUS
  <2>1. Apart(Used)
    BY DEF Apart
  <2> QED BY <1>1, <2>1 DEF MonthIsKept
<1>4. CodeWithinBounds
  BY <1>1, <1>2, <1>3 DEF CodeWithinBounds, SlotsAreTaken, AccountRaced
<1>5. AgreedAsBought
  <2> SUFFICES ASSUME NEW p \in Paid
               PROVE  /\ session[p].amount = Total(page[p].coded)
                      /\ bound[p] = {} => \E q \in Paid : BuyerOf[q] = BuyerOf[p] /\ p \in bound[q] /\ q /= p
    BY DEF AgreedAsBought
  <2>1. /\ session[p].amount = Total(page[p].coded) /\ page[p].pc = "away" /\ p \in Pages
    BY DEF Paid, SessionOfPage, OfPage
  <2>2. p \in acks \/ \E q \in Paid : BuyerOf[q] = BuyerOf[p] /\ p \in bound[q]
    BY <2>1 DEF AckIsKept
  <2>3. p \notin acks
    BY DEF AckIsKept
  <2> QED BY <2>1, <2>2, <2>3
<1> QED BY <1>4, <1>5 DEF BoughtAsAgreed

\* A purchase keeps to its code's bounds and to what the family was shown and agreed to:
\* no slot is redeemed twice or for nothing, a second use by one account or above the
\* month's cap was open beside the first, the price paid is the price shown, and a case
\* has its acknowledgment or another case of the buyer took it (checkout.ts, promo.service.ts).
THEOREM BoughtIsAgreed == CheckoutSpec => []BoughtAsAgreed
BY PurchaseStands, PurchaseMeansAgreed, PTL
-----------------------------------------------------------------------------
(***************************************************************************)
(* FindingsReview                                                           *)
(***************************************************************************)
\* What the records are made of; what the fields of a row hold is its model's say.
IsRow(r) ==
  r = [screen |-> r.screen, category |-> r.category, weight |-> r.weight, preserved |-> r.preserved,
       harm |-> r.harm, partA |-> r.partA, vehicle |-> r.vehicle, edition |-> r.edition]
IsRun(w) ==
  /\ w = [pc |-> w.pc, at |-> w.at, frozen |-> w.frozen, dropped |-> w.dropped,
          touched |-> w.touched, kept |-> w.kept]
  /\ w.pc \in {"screens", "gate", "release"} /\ w.touched \in BOOLEAN
ReportRows == [run : Nat, ver : Nat, by : {"auto_qa", "staff"}, advises : BOOLEAN, seen : BOOLEAN]
IsRequest(d) ==
  \/ d = NoWork
  \/ /\ d = [pc |-> "patch", run |-> d.run, of |-> d.of, row |-> d.row, change |-> d.change]
     /\ d.run \in Nat /\ d.of \in Passages /\ IsRow(d.row) /\ d.change \in Changes
  \/ d = [pc |-> d.pc, at |-> d.at] /\ d.pc \in {"approve", "reject", "rerun"} /\ d.at \in Nat
  \/ d = [pc |-> d.pc, at |-> d.at, draft |-> d.draft] /\ d.pc \in {"count", "numbered", "write"} /\ d.at \in Nat /\ d.draft \in ReportRows
  \/ d = [pc |-> "reissue", at |-> d.at, from |-> d.from] /\ d.at \in Nat /\ d.from \in ReportRows
ReviewTypes ==
  /\ runNo \in Nat
  /\ engine = NoWork \/ IsRun(engine)
  /\ finding = [q \in Passages |-> finding[q]]
  /\ \A q \in Passages : finding[q] = NoRow \/ IsRow(finding[q])
  /\ desk = [x \in Desks |-> desk[x]] /\ \A x \in Desks : IsRequest(desk[x])
  /\ released \in Seq(ReportRows)

\* A correction in flight is of a run there was; the row it corrects is there as long as the
\* run is the latest.
CorrectsARow ==
  \A e \in Staff : desk[e].pc = "patch" =>
    desk[e].run <= runNo /\ (desk[e].run = runNo => finding[desk[e].of] /= NoRow)
\* What the worker remembers is a row.
RemembersRows ==
  engine.pc = "screens" =>
    /\ engine.kept = [q \in Passages |-> engine.kept[q]]
    /\ \A q \in Passages : engine.kept[q] /= NoRow => finding[q] /= NoRow
\* What the gate let through advises only if it was corrected since.
LetThrough == engine.pc = "release" /\ ~engine.touched => Advising = {}
\* A version is a count that was true once, or one more than a report there was.
Counted == \A i \in 1 .. Len(released) : released[i].ver <= i /\ released[i].run <= runNo
\* What the last release was not beside of is behind it.
LastLeads ==
  ~overtaken => \A i \in 1 .. Len(released) - 1 :
    /\ released[i].ver < released[Len(released)].ver
    /\ released[i].run <= released[Len(released)].run
\* What is about to be released leads whatever was there when it began.
Ahead(d) ==
  /\ d.pc \in {"approve", "count", "numbered", "write", "reissue"} => d.at <= Len(released)
  /\ d.pc \in {"count", "numbered", "write"} =>
       d.draft.run <= runNo /\ \A i \in 1 .. d.at : released[i].run <= d.draft.run
  /\ d.pc \in {"numbered", "write"} => d.at < d.draft.ver /\ d.draft.ver <= Len(released) + 1
  /\ d.pc = "reissue" =>
       /\ \E i \in 1 .. d.at : released[i] = d.from
       /\ \A i \in 1 .. d.at : released[i].ver <= d.from.ver
DraftsLead == \A x \in Desks : Ahead(desk[x])
\* What the gate is about to release advises only if it was corrected since the look; and
\* only the gate signs as the gate.
DraftsHeld ==
  \A x \in Desks : desk[x].pc \in {"count", "numbered", "write"} =>
    ~(desk[x].draft.by = "auto_qa" /\ desk[x].draft.advises /\ desk[x].draft.seen)
GateIsOpen == desk[Gate].pc /= "idle" => desk[Gate].pc \in {"approve", "count", "numbered", "write"} /\ engine.pc = "release"
Numbered == Counted /\ LastLeads /\ DraftsLead /\ DraftsHeld /\ GateIsOpen

ReviewInv ==
  ReviewTypes /\ CorrectsARow /\ RemembersRows /\ LetThrough /\ Numbered /\ AdviceIsHeld /\ VehicleFollows

LEMMA RowIsNotNone == ASSUME NEW r, IsRow(r) PROVE r /= NoRow
<1> SUFFICES ASSUME r = NoRow PROVE FALSE
  OBVIOUS
<1>1. "screen" \in DOMAIN r
  BY DEF IsRow
<1>2. "screen" \notin DOMAIN NoRow
  BY DEF NoRow
<1> QED BY <1>1, <1>2

LEMMA DerivedHolds ==
  ASSUME NEW f, IsRow(f)
  PROVE  /\ IsRow(Derived(f))
         /\ Derived(f) = Derived(Derived(f))
<1>1. PICK v : v = VehicleFor(f)
  OBVIOUS
<1>2. Derived(f) = [f EXCEPT !.vehicle = v]
  BY <1>1 DEF Derived
<1>3. PICK r : r = [f EXCEPT !.vehicle = v]
  OBVIOUS
<1>4. IsRow(r) /\ r.vehicle = v
  BY <1>3 DEF IsRow
<1>5. r.screen = f.screen /\ r.category = f.category /\ r.preserved = f.preserved /\ r.harm = f.harm
  BY <1>3 DEF IsRow
<1>6. VehicleFor(r) = v
  BY <1>1, <1>5 DEF VehicleFor
<1>7. [r EXCEPT !.vehicle = v] = r
  BY <1>4 DEF IsRow
<1> QED BY <1>2, <1>3, <1>4, <1>6, <1>7 DEF Derived

LEMMA StructuredIsDerived ==
  ASSUME NEW a, NEW screen, NEW edition
  PROVE  /\ IsRow(StructuredFields(a, screen, edition))
         /\ StructuredFields(a, screen, edition) = Derived(StructuredFields(a, screen, edition))
<1>1. PICK f : f = [screen |-> screen, category |-> a.category, weight |-> a.weight, preserved |-> a.preserved,
           harm |-> a.harm, partA |-> a.partA, vehicle |-> "", edition |-> edition]
  OBVIOUS
<1>2. IsRow(f)
  BY <1>1 DEF IsRow
<1>3. StructuredFields(a, screen, edition) = Derived(f)
  BY <1>1 DEF StructuredFields
<1> QED BY <1>2, <1>3, DerivedHolds

LEMMA SetIsRow ==
  ASSUME NEW row, IsRow(row), NEW field \in {"preserved", "harm", "partA"}, NEW to
  PROVE  /\ IsRow([row EXCEPT ![field] = to])
         /\ \A x \in {"screen", "category", "preserved", "harm"} :
              [row EXCEPT ![field] = to][x] = IF x = field THEN to ELSE row[x]
<1>1. CASE field = "preserved"
  <2>1. PICK r : r = [row EXCEPT !.preserved = to]
    OBVIOUS
  <2>2. IsRow(r)
    BY <2>1 DEF IsRow
  <2>3. r.screen = row.screen /\ r.category = row.category /\ r.preserved = to /\ r.harm = row.harm
    BY <2>1 DEF IsRow
  <2>4. [row EXCEPT ![field] = to] = r
    BY <1>1, <2>1
  <2>5. \A x \in {"screen", "category", "preserved", "harm"} : r[x] = IF x = field THEN to ELSE row[x]
    BY <1>1, <2>3
  <2> QED BY <2>2, <2>4, <2>5
<1>2. CASE field = "harm"
  <2>1. PICK r : r = [row EXCEPT !.harm = to]
    OBVIOUS
  <2>2. IsRow(r)
    BY <2>1 DEF IsRow
  <2>3. r.screen = row.screen /\ r.category = row.category /\ r.preserved = row.preserved /\ r.harm = to
    BY <2>1 DEF IsRow
  <2>4. [row EXCEPT ![field] = to] = r
    BY <1>2, <2>1
  <2>5. \A x \in {"screen", "category", "preserved", "harm"} : r[x] = IF x = field THEN to ELSE row[x]
    BY <1>2, <2>3
  <2> QED BY <2>2, <2>4, <2>5
<1>3. CASE field = "partA"
  <2>1. PICK r : r = [row EXCEPT !.partA = to]
    OBVIOUS
  <2>2. IsRow(r)
    BY <2>1 DEF IsRow
  <2>3. r.screen = row.screen /\ r.category = row.category /\ r.preserved = row.preserved /\ r.harm = row.harm
    BY <2>1 DEF IsRow
  <2>4. [row EXCEPT ![field] = to] = r
    BY <1>3, <2>1
  <2>5. \A x \in {"screen", "category", "preserved", "harm"} : r[x] = IF x = field THEN to ELSE row[x]
    BY <1>3, <2>3
  <2> QED BY <2>2, <2>4, <2>5
<1> QED BY <1>1, <1>2, <1>3

LEMMA CorrectedIsRow ==
  ASSUME NEW row, IsRow(row), NEW was, NEW change \in Changes
  PROVE  IsRow(Corrected(row, was, change))
<1>1. change.field \in {"preserved", "harm", "partA"}
  BY ReviewAssumption DEF ReviewAssumption
<1>2. PICK v : v = VehicleFor([was EXCEPT ![change.field] = change.to])
  OBVIOUS
<1>3. PICK s : s = [row EXCEPT ![change.field] = change.to]
  OBVIOUS
<1>4. IsRow(s)
  BY <1>1, <1>3, SetIsRow
<1>5. IsRow([s EXCEPT !.vehicle = v])
  BY <1>4 DEF IsRow
<1> QED BY <1>2, <1>3, <1>4, <1>5 DEF Corrected

\* A correction of the row that was read, or of one that agrees with it in all the vehicle is
\* derived from but the corrected field, writes what its vehicle follows from.
LEMMA CorrectedFollows ==
  ASSUME NEW row, IsRow(row), NEW was, IsRow(was), NEW change \in Changes, Moves(change),
         Basis(row, change.field) = Basis(was, change.field)
  PROVE  Corrected(row, was, change) = Derived(Corrected(row, was, change))
<1>1. change.field \in {"preserved", "harm"}
  BY DEF Moves
<1>2. PICK s : s = [row EXCEPT ![change.field] = change.to]
  OBVIOUS
<1>3. PICK t : t = [was EXCEPT ![change.field] = change.to]
  OBVIOUS
<1>4. IsRow(s) /\ IsRow(t)
  BY <1>1, <1>2, <1>3, SetIsRow
<1>5. \A x \in {"screen", "category", "preserved", "harm"} \ {change.field} : row[x] = was[x]
  BY DEF Basis
<1>6. \A x \in {"screen", "category", "preserved", "harm"} : s[x] = t[x]
  BY <1>1, <1>2, <1>3, <1>5, SetIsRow
<1>7. s.screen = t.screen /\ s.category = t.category /\ s.preserved = t.preserved /\ s.harm = t.harm
  BY <1>6
<1>8. VehicleFor(s) = VehicleFor(t)
  BY <1>7 DEF VehicleFor
<1>9. Corrected(row, was, change) = [s EXCEPT !.vehicle = VehicleFor(t)]
  BY <1>2, <1>3 DEF Corrected
<1>10. Corrected(row, was, change) = Derived(s)
  BY <1>8, <1>9 DEF Derived
<1> QED BY <1>4, <1>10, DerivedHolds

\* What the report is worded with is not what the vehicle is derived from.
LEMMA RewordedFollows ==
  ASSUME NEW row, IsRow(row), NEW was, NEW change \in Changes, ~Moves(change), row = Derived(row)
  PROVE  Corrected(row, was, change) = Derived(Corrected(row, was, change))
<1>1. change.field = "partA"
  BY ReviewAssumption DEF ReviewAssumption, Moves
<1>2. PICK s : s = [row EXCEPT !.partA = change.to]
  OBVIOUS
<1>3. Corrected(row, was, change) = s
  BY <1>1, <1>2 DEF Corrected, Moves
<1>4. IsRow(s) /\ s.vehicle = row.vehicle
  BY <1>2 DEF IsRow
<1>5. s.screen = row.screen /\ s.category = row.category /\ s.preserved = row.preserved /\ s.harm = row.harm
  BY <1>2 DEF IsRow
<1>6. VehicleFor(s) = VehicleFor(row)
  BY <1>5 DEF VehicleFor
<1>7. row.vehicle = VehicleFor(row)
  <2>1. PICK v : v = VehicleFor(row)
    OBVIOUS
  <2>2. row = [row EXCEPT !.vehicle = v]
    BY <2>1 DEF Derived
  <2> QED BY <2>1, <2>2 DEF IsRow
<1>8. PICK v : v = s.vehicle
  OBVIOUS
<1>9. [s EXCEPT !.vehicle = v] = s
  BY <1>4, <1>8 DEF IsRow
<1> QED BY <1>3, <1>4, <1>6, <1>7, <1>8, <1>9 DEF Derived

-----------------------------------------------------------------------------
\* What a request is made of, by what it is for.
LEMMA RequestKinds ==
  ASSUME NEW d, IsRequest(d)
  PROVE  /\ d.pc = "patch" => d.run \in Nat /\ d.of \in Passages /\ IsRow(d.row) /\ d.change \in Changes
         /\ d.pc \in {"approve", "count", "numbered", "write", "reissue"} => d.at \in Nat
         /\ d.pc \in {"count", "numbered", "write"} => d.draft \in ReportRows
         /\ d.pc = "reissue" => d.from \in ReportRows
<1>1. CASE d = NoWork
  BY <1>1 DEF NoWork
<1>2. CASE /\ d = [pc |-> "patch", run |-> d.run, of |-> d.of, row |-> d.row, change |-> d.change]
           /\ d.run \in Nat /\ d.of \in Passages /\ IsRow(d.row) /\ d.change \in Changes
  <2>1. d.pc = "patch"
    BY <1>2
  <2> QED BY <1>2, <2>1
<1>3. CASE d.pc \in {"approve", "reject", "rerun"} /\ d.at \in Nat
  BY <1>3
<1>4. CASE d.pc \in {"count", "numbered", "write"} /\ d.at \in Nat /\ d.draft \in ReportRows
  BY <1>4
<1>5. CASE d = [pc |-> "reissue", at |-> d.at, from |-> d.from] /\ d.at \in Nat /\ d.from \in ReportRows
  <2>1. d.pc = "reissue"
    BY <1>5
  <2> QED BY <1>5, <2>1
<1> QED BY <1>1, <1>2, <1>3, <1>4, <1>5 DEF IsRequest

\* As long as nothing is released and no request goes on, what was released stands, and
\* what is about to be.
LEMMA ReportsStand ==
  ASSUME ReviewInv, UNCHANGED <<released, overtaken>>, runNo' \in Nat, runNo <= runNo',
         \A x \in Desks : desk'[x] = desk[x] \/ desk'[x].pc \notin {"approve", "count", "numbered", "write", "reissue"},
         engine.pc = "release" => engine'.pc = "release" \/ desk'[Gate] = NoWork,
         desk'[Gate] = desk[Gate] \/ desk'[Gate] = NoWork
  PROVE  Numbered' /\ AdviceIsHeld'
<1> USE DEF ReviewInv, Numbered
<1>1. AdviceIsHeld'
  BY DEF AdviceIsHeld
<1>2. Counted'
  <2>1. runNo \in Nat /\ \A i \in 1 .. Len(released) : released[i] \in ReportRows
    BY DEF ReviewTypes
  <2>2. \A i \in 1 .. Len(released) : released[i].run \in Nat
    BY <2>1 DEF ReportRows
  <2> QED BY <2>1, <2>2 DEF Counted
<1>3. LastLeads'
  BY DEF LastLeads
<1>4. DraftsLead'
  <2> SUFFICES ASSUME NEW x \in Desks, desk'[x] = desk[x] PROVE Ahead(desk[x])'
    BY DEF DraftsLead, Ahead
  <2>1. Ahead(desk[x]) /\ IsRequest(desk[x])
    BY DEF DraftsLead, ReviewTypes
  <2>2. desk[x].pc \in {"count", "numbered", "write"} => desk[x].draft.run \in Nat
    BY <2>1 DEF IsRequest, NoWork, ReportRows
  <2> QED BY <2>1, <2>2 DEF Ahead, ReviewTypes
<1>5. DraftsHeld'
  BY DEF DraftsHeld
<1>6. GateIsOpen'
  <2>1. NoWork.pc = "idle"
    BY DEF NoWork
  <2> QED BY <2>1 DEF GateIsOpen
<1> QED BY <1>1, <1>2, <1>3, <1>4, <1>5, <1>6

\* Who leaves a desk leaves nothing on it, and the others as they were.
LEMMA DesksLeft ==
  ASSUME ReviewInv, NEW x \in Desks, desk' = [desk EXCEPT ![x] = NoWork]
  PROVE  /\ desk' = [y \in Desks |-> desk'[y]] /\ \A y \in Desks : IsRequest(desk'[y])
         /\ desk'[x] = NoWork /\ \A y \in Desks : y /= x => desk'[y] = desk[y]
         /\ \A y \in Desks : desk'[y] = desk[y] \/ desk'[y].pc \notin {"approve", "count", "numbered", "write", "reissue"}
<1>1. desk' = [y \in Desks |-> IF y = x THEN NoWork ELSE desk[y]]
  BY DEF ReviewInv, ReviewTypes
<1> QED BY <1>1 DEF ReviewInv, ReviewTypes, IsRequest, NoWork

LEMMA DeskTaken ==
  ASSUME ReviewInv, NEW x \in Desks, NEW d, IsRequest(d), desk' = [desk EXCEPT ![x] = d]
  PROVE  /\ desk' = [y \in Desks |-> desk'[y]] /\ \A y \in Desks : IsRequest(desk'[y])
         /\ desk'[x] = d /\ \A y \in Desks : y /= x => desk'[y] = desk[y]
<1>1. desk' = [y \in Desks |-> IF y = x THEN d ELSE desk[y]]
  BY DEF ReviewInv, ReviewTypes
<1> QED BY <1>1 DEF ReviewInv, ReviewTypes

\* As long as no row is written, each says what it said.
LEMMA RowsSay ==
  ASSUME ReviewInv, UNCHANGED <<finding, asserted>>
  PROVE  VehicleFollows' /\ Advising' = Advising /\ Found' = Found
<1>1. Found' = Found
  BY DEF Found
<1>2. VehicleFollows'
  BY <1>1 DEF ReviewInv, VehicleFollows
<1> QED BY <1>1, <1>2 DEF Advising

LEMMA ReviewStarts == ASSUME ReviewInit PROVE ReviewInv
<1> USE DEF ReviewInit
<1>1. ReviewTypes
  BY DEF ReviewTypes, IsRequest, IsRow
<1>2. CorrectsARow /\ RemembersRows /\ LetThrough
  BY DEF CorrectsARow, RemembersRows, LetThrough, NoWork, Desks
<1>3. Numbered /\ AdviceIsHeld
  <2>1. Len(released) = 0
    OBVIOUS
  <2>2. \A x \in Desks : desk[x].pc = "idle"
    BY DEF NoWork
  <2>3. Gate \in Desks
    BY DEF Desks
  <2> QED BY <2>1, <2>2, <2>3 DEF Numbered, Counted, LastLeads, DraftsLead, Ahead, DraftsHeld, GateIsOpen, AdviceIsHeld, Range
<1>4. VehicleFollows
  BY DEF VehicleFollows, Found
<1> QED BY <1>1, <1>2, <1>3, <1>4 DEF ReviewInv

LEMMA RunStarts == ASSUME ReviewInv, StartRun PROVE ReviewInv'
<1> USE DEF ReviewInv
<1>1. runNo \in Nat /\ runNo' = runNo + 1
  BY DEF ReviewTypes, StartRun
<1>2. IsRun(engine')
  <2>1. PICK w : w = engine'
    OBVIOUS
  <2>2. w = [pc |-> "screens", at |-> 1, frozen |-> text, dropped |-> 0, touched |-> FALSE,
                kept |-> [q \in Passages |-> NoRow]]
    BY <2>1 DEF StartRun
  <2>3. IsRun(w)
    BY <2>2 DEF IsRun
  <2> QED BY <2>1, <2>3
<1>3. ReviewTypes'
  BY <1>1, <1>2 DEF ReviewTypes, StartRun
<1>4. CorrectsARow'
  <2> SUFFICES ASSUME NEW e \in Staff, desk[e].pc = "patch" PROVE desk[e].run <= runNo
    <3>1. \A e \in Staff : desk[e].pc = "patch" => desk[e].run \in Nat
      BY RequestKinds DEF ReviewTypes, Desks
    <3> QED BY <1>1, <3>1 DEF CorrectsARow, StartRun
  <2> QED BY DEF CorrectsARow
<1>5. RemembersRows'
  BY DEF RemembersRows, StartRun
<1>6. LetThrough'
  BY DEF LetThrough, StartRun
<1>7. VehicleFollows'
  BY DEF VehicleFollows, Found, StartRun
<1>8. runNo' \in Nat /\ runNo <= runNo'
  BY <1>1
<1>9. UNCHANGED <<released, overtaken, desk>> /\ engine.pc /= "release"
  BY DEF StartRun, NoWork
<1>10. Numbered' /\ AdviceIsHeld'
  BY <1>8, <1>9, ReportsStand
<1> QED BY <1>3, <1>4, <1>5, <1>6, <1>7, <1>10

\* A screen writes rows that follow, and leaves those it merges into following, but for the
\* ones it strengthens the call of without their text.
LEMMA WrittenFollows ==
  ASSUME ReviewInv, engine.pc = "screens", NEW q \in Passages, NEW a, NEW screen
  PROVE  LET row == Written(q, a, screen) IN
         /\ row = NoRow \/ IsRow(row)
         /\ finding[q] /= NoRow => row /= NoRow
         /\ Remembered(q, a, screen) /= NoRow => row /= NoRow
         /\ row /= NoRow /\ ~Unfollowed(q, a) => row = Derived(row)
<1> USE DEF ReviewInv
<1>1. finding[q] = NoRow \/ IsRow(finding[q])
  BY DEF ReviewTypes
<1>2. engine.kept[q] /= NoRow => finding[q] /= NoRow
  BY DEF RemembersRows
<1>3. q \notin asserted /\ finding[q] /= NoRow => finding[q] = Derived(finding[q])
  BY DEF VehicleFollows, Found
<1>4. CASE a = NoRow
  BY <1>1, <1>2, <1>3, <1>4 DEF Written, Remembered, Unfollowed
<1>5. CASE a /= NoRow /\ engine.kept[q] = NoRow
  BY <1>5, StructuredIsDerived, RowIsNotNone DEF Written
<1>6. CASE a /= NoRow /\ engine.kept[q] /= NoRow /\ IsStronger(a, engine.kept[q])
  BY <1>6, StructuredIsDerived, RowIsNotNone DEF Written, Merged
<1>7. CASE a /= NoRow /\ engine.kept[q] /= NoRow /\ ~IsStronger(a, engine.kept[q])
  <2>1. IsRow(finding[q])
    BY <1>1, <1>2, <1>7
  <2>2. PICK p : p = StrongerPreserved(engine.kept[q].preserved, a.preserved)
    OBVIOUS
  <2>3. Written(q, a, screen) = [finding[q] EXCEPT !.preserved = p]
    BY <1>7, <2>2 DEF Written, Merged
  <2>4. PICK f : f = finding[q]
    OBVIOUS
  <2>5. IsRow([f EXCEPT !.preserved = p])
    BY <2>1, <2>4 DEF IsRow
  <2>6. f.preserved = p => [f EXCEPT !.preserved = p] = f
    BY <2>1, <2>4 DEF IsRow
  <2>7. ~Unfollowed(q, a) => q \notin asserted /\ f.preserved = p
    BY <1>7, <2>2, <2>4 DEF Unfollowed
  <2> QED BY <1>1, <1>3, <2>1, <2>3, <2>4, <2>5, <2>6, <2>7, RowIsNotNone
<1> QED BY <1>4, <1>5, <1>6, <1>7

LEMMA ScreenSaves == ASSUME ReviewInv, SaveScreen PROVE ReviewInv'
<1> USE DEF ReviewInv
<1>1. PICK said \in [Passages -> SeqOf(Answers, Samples)] :
        LET union == [q \in Passages |-> GroundUnion(said[q])]
            screen == Plan[engine.at]
        IN  /\ finding' = [q \in Passages |-> Written(q, union[q], screen)]
            /\ engine' = [engine EXCEPT
                 !.at = @ + 1, !.kept = [q \in Passages |-> Remembered(q, union[q], screen)],
                 !.dropped = @ + MapThenSumSet(LAMBDA q : Ungrounded(said[q]), Passages)]
            /\ asserted' = {q \in Passages : Unfollowed(q, union[q])}
  BY DEF SaveScreen
<1>2. PICK screen : screen = Plan[engine.at]
  OBVIOUS
<1>3. PICK union : union = [q \in Passages |-> GroundUnion(said[q])]
  OBVIOUS
<1>4. /\ finding' = [q \in Passages |-> Written(q, union[q], screen)]
      /\ asserted' = {q \in Passages : Unfollowed(q, union[q])}
  BY <1>1, <1>2, <1>3
<1>5. PICK dropped : dropped = engine.dropped + MapThenSumSet(LAMBDA q : Ungrounded(said[q]), Passages)
  OBVIOUS
<1>6. PICK kept : kept = [q \in Passages |-> Remembered(q, union[q], screen)]
  OBVIOUS
<1>7. engine' = [engine EXCEPT !.at = engine.at + 1, !.kept = kept, !.dropped = dropped]
  BY <1>1, <1>2, <1>3, <1>5, <1>6
<1>8. engine.pc = "screens" /\ IsRun(engine)
  BY DEF SaveScreen, ReviewTypes, NoWork
<1>9. PICK w : w = engine'
  OBVIOUS
<1>10. IsRun(w) /\ w.pc = "screens" /\ w.kept = kept
  BY <1>7, <1>8, <1>9 DEF IsRun
<1>11. \A q \in Passages :
         /\ finding'[q] = NoRow \/ IsRow(finding'[q])
         /\ finding[q] /= NoRow => finding'[q] /= NoRow
         /\ kept[q] /= NoRow => finding'[q] /= NoRow
         /\ finding'[q] /= NoRow /\ q \notin asserted' => finding'[q] = Derived(finding'[q])
  BY <1>4, <1>6, <1>8, WrittenFollows
<1>12. UNCHANGED <<runNo, desk, released, overtaken>>
  BY DEF SaveScreen
<1>13. ReviewTypes'
  BY <1>4, <1>9, <1>10, <1>11, <1>12 DEF ReviewTypes
<1>14. CorrectsARow'
  <2>1. \A e \in Staff : desk[e].pc = "patch" => desk[e].of \in Passages
    BY RequestKinds DEF ReviewTypes, Desks
  <2> QED BY <1>11, <1>12, <2>1 DEF CorrectsARow
<1>15. RemembersRows'
  BY <1>6, <1>9, <1>10, <1>11 DEF RemembersRows
<1>16. LetThrough'
  BY <1>9, <1>10 DEF LetThrough
<1>17. VehicleFollows'
  BY <1>11 DEF VehicleFollows, Found
<1>18. runNo' \in Nat /\ runNo <= runNo'
  BY <1>12 DEF ReviewTypes
<1>19. Numbered' /\ AdviceIsHeld'
  BY <1>8, <1>12, <1>18, ReportsStand
<1> QED BY <1>13, <1>14, <1>15, <1>16, <1>17, <1>19

LEMMA HandsOff == ASSUME ReviewInv, HandOff PROVE ReviewInv'
<1> USE DEF ReviewInv
<1>1. UNCHANGED <<runNo, finding, desk, released, asserted, overtaken>>
  BY DEF HandOff
<1>2. PICK w : w = engine'
  OBVIOUS
<1>3. w = NoWork \/ (w = [engine EXCEPT !.pc = "gate"] /\ IsRun(engine))
  BY <1>2 DEF HandOff, ReviewTypes, NoWork
<1>4. w = NoWork \/ (IsRun(w) /\ w.pc = "gate")
  BY <1>3 DEF IsRun
<1>5. ReviewTypes'
  BY <1>1, <1>2, <1>4 DEF ReviewTypes
<1>6. CorrectsARow'
  BY <1>1 DEF CorrectsARow
<1>7. RemembersRows' /\ LetThrough'
  BY <1>2, <1>4 DEF RemembersRows, LetThrough, NoWork
<1>8. runNo' \in Nat /\ runNo <= runNo'
  BY <1>1 DEF ReviewTypes
<1>9. Numbered' /\ AdviceIsHeld'
  <2>1. engine.pc = "screens"
    BY DEF HandOff
  <2> QED BY <1>1, <1>8, <2>1, ReportsStand
<1> QED BY <1>1, <1>5, <1>6, <1>7, <1>9, RowsSay

LEMMA GateLooks == ASSUME ReviewInv, GateLook PROVE ReviewInv'
<1> USE DEF ReviewInv
<1>1. UNCHANGED <<runNo, finding, desk, released, asserted, overtaken>>
  BY DEF GateLook
<1>2. CorrectsARow'
  BY <1>1 DEF CorrectsARow
<1>3. runNo' \in Nat /\ runNo <= runNo'
  BY <1>1 DEF ReviewTypes
<1>4. ReviewTypes' /\ RemembersRows' /\ LetThrough'
  <2>1. CASE engine' = NoWork
    BY <1>1, <2>1 DEF ReviewTypes, RemembersRows, LetThrough, NoWork
  <2>2. CASE ~Held /\ engine' = [engine EXCEPT !.pc = "release"]
    <3>1. PICK w : w = engine'
      OBVIOUS
    <3>2. IsRun(engine)
      BY DEF GateLook, ReviewTypes, NoWork
    <3>3. IsRun(w) /\ w.pc = "release"
      BY <2>2, <3>1, <3>2 DEF IsRun
    <3>4. Advising' = {}
      BY <1>1, <2>2, RowsSay DEF Held
    <3> QED BY <1>1, <3>1, <3>3, <3>4 DEF ReviewTypes, RemembersRows, LetThrough
  <2> QED BY <2>1, <2>2 DEF GateLook
<1>5. Numbered' /\ AdviceIsHeld'
  <2>1. engine.pc = "gate"
    BY DEF GateLook
  <2> QED BY <1>1, <1>3, <2>1, ReportsStand
<1> QED BY <1>1, <1>2, <1>4, <1>5, RowsSay

\* A desk takes its next step in a release: nothing is released by it.
LEMMA DeskSteps ==
  ASSUME ReviewInv, UNCHANGED <<runNo, finding, released, asserted, overtaken>>,
         engine' = engine, NEW x \in Desks, NEW d, IsRequest(d), desk' = [desk EXCEPT ![x] = d],
         d.pc /= "patch", Ahead(d),
         d.pc \in {"count", "numbered", "write"} => ~(d.draft.by = "auto_qa" /\ d.draft.advises /\ d.draft.seen),
         x = Gate => d.pc \in {"approve", "count", "numbered", "write"} /\ engine.pc = "release"
  PROVE  ReviewInv'
<1> USE DEF ReviewInv
<1>1. /\ desk' = [y \in Desks |-> desk'[y]] /\ \A y \in Desks : IsRequest(desk'[y])
      /\ desk'[x] = d /\ \A y \in Desks : y /= x => desk'[y] = desk[y]
  BY DeskTaken
<1>2. ReviewTypes'
  BY <1>1 DEF ReviewTypes
<1>3. CorrectsARow'
  BY <1>1 DEF CorrectsARow, Desks
<1>4. RemembersRows' /\ LetThrough'
  BY RowsSay DEF RemembersRows, LetThrough
<1>5. Counted' /\ LastLeads'
  BY DEF Numbered, Counted, LastLeads
<1>6. DraftsLead'
  <2>1. Ahead(d)'
    BY <1>1 DEF Ahead
  <2>2. ASSUME NEW y \in Desks, y /= x PROVE Ahead(desk[y])'
    BY <1>1, <2>2 DEF Numbered, DraftsLead, Ahead
  <2> QED BY <1>1, <2>1, <2>2 DEF DraftsLead, Ahead
<1>7. DraftsHeld'
  BY <1>1 DEF Numbered, DraftsHeld
<1>8. GateIsOpen'
  BY <1>1 DEF Numbered, GateIsOpen, Desks
<1>9. AdviceIsHeld'
  BY DEF AdviceIsHeld
<1> QED BY <1>2, <1>3, <1>4, <1>5, <1>6, <1>7, <1>8, <1>9, RowsSay DEF Numbered

\* What begins, begins after all that was released.
LEMMA BegunIsAhead ==
  ASSUME ReviewInv, NEW what \in {"approve", "reject", "rerun"}
  PROVE  IsRequest(Begun(what)) /\ Ahead(Begun(what)) /\ Begun(what).pc = what
<1>1. PICK d : d = Begun(what)
  OBVIOUS
<1>2. d = [pc |-> what, at |-> Len(released)] /\ Len(released) \in Nat
  BY <1>1 DEF Begun, ReviewInv, ReviewTypes
<1>3. IsRequest(d) /\ d.pc = what /\ d.at = Len(released)
  BY <1>2 DEF IsRequest
<1>4. Ahead(d)
  BY <1>2, <1>3 DEF Ahead
<1> QED BY <1>1, <1>3, <1>4

LEMMA Decides ==
  ASSUME ReviewInv, NEW e \in Staff, NEW what \in {"approve", "reject", "rerun"}, Decide(e, what) PROVE ReviewInv'
<1>1. PICK d : d = Begun(what)
  OBVIOUS
<1>2. IsRequest(d) /\ Ahead(d) /\ d.pc = what
  BY <1>1, BegunIsAhead
<1>3. desk' = [desk EXCEPT ![e] = d] /\ UNCHANGED <<runNo, finding, released, asserted, overtaken>> /\ engine' = engine
  BY <1>1 DEF Decide
<1>4. e \in Desks /\ e /= Gate
  BY ReviewAssumption DEF Desks, Gate
<1> QED BY <1>2, <1>3, <1>4, DeskSteps

\* A worker that ends, and takes its transaction along.
LEMMA WorkerEnds ==
  ASSUME ReviewInv, engine' = NoWork, UNCHANGED <<runNo, finding, released, asserted, overtaken>>,
         desk'[Gate] = NoWork, desk' = desk \/ desk' = [desk EXCEPT ![Gate] = NoWork]
  PROVE  ReviewInv'
<1> USE DEF ReviewInv
<1>1. Gate \in Desks /\ Gate \notin Staff
  BY ReviewAssumption DEF Desks, Gate
<1>2. /\ desk' = [y \in Desks |-> desk'[y]] /\ \A y \in Desks : IsRequest(desk'[y])
      /\ \A y \in Desks : y /= Gate => desk'[y] = desk[y]
  <2>1. CASE desk' = desk
    BY <2>1 DEF ReviewTypes
  <2>2. CASE desk' = [desk EXCEPT ![Gate] = NoWork]
    BY <1>1, <2>2, DesksLeft
  <2> QED BY <2>1, <2>2
<1>3. \A y \in Desks : desk'[y] = desk[y] \/ desk'[y].pc \notin {"approve", "count", "numbered", "write", "reissue"}
  BY <1>2 DEF NoWork
<1>4. ReviewTypes'
  BY <1>2 DEF ReviewTypes
<1>5. CorrectsARow'
  BY <1>1, <1>2 DEF CorrectsARow, Desks
<1>6. RemembersRows' /\ LetThrough'
  BY DEF RemembersRows, LetThrough, NoWork
<1>7. runNo' \in Nat /\ runNo <= runNo'
  BY DEF ReviewTypes
<1>8. Numbered' /\ AdviceIsHeld'
  BY <1>3, <1>7, ReportsStand
<1> QED BY <1>4, <1>5, <1>6, <1>8, RowsSay

LEMMA GateBegins == ASSUME ReviewInv, GateOpens PROVE ReviewInv'
<1>1. UNCHANGED <<runNo, finding, released, asserted, overtaken>>
  BY DEF GateOpens
<1>2. CASE stage = "QA_REVIEW"
  <2>1. PICK d : d = Begun("approve")
    OBVIOUS
  <2>2. IsRequest(d) /\ Ahead(d) /\ d.pc = "approve"
    BY <2>1, BegunIsAhead
  <2>3. desk' = [desk EXCEPT ![Gate] = d] /\ engine' = engine /\ engine.pc = "release" /\ Gate \in Desks
    BY <1>2, <2>1 DEF GateOpens, Desks
  <2> QED BY <1>1, <2>2, <2>3, DeskSteps
<1>3. CASE stage /= "QA_REVIEW"
  <2>1. engine' = NoWork /\ desk' = desk /\ desk[Gate] = NoWork
    BY <1>3 DEF GateOpens
  <2> QED BY <1>1, <2>1, WorkerEnds
<1> QED BY <1>2, <1>3

\* A desk is left without a release: the gate's with its worker.
LEMMA LeavesKeep ==
  ASSUME ReviewInv, NEW x \in Desks, Leaves(x), UNCHANGED <<runNo, finding, released, asserted, overtaken>>
  PROVE  ReviewInv'
<1> USE DEF ReviewInv
<1>1. /\ desk' = [y \in Desks |-> desk'[y]] /\ \A y \in Desks : IsRequest(desk'[y])
      /\ desk'[x] = NoWork /\ \A y \in Desks : y /= x => desk'[y] = desk[y]
      /\ \A y \in Desks : desk'[y] = desk[y] \/ desk'[y].pc \notin {"approve", "count", "numbered", "write", "reissue"}
  BY DesksLeft DEF Leaves
<1>2. CASE x = Gate
  BY <1>1, <1>2, WorkerEnds DEF Leaves
<1>3. CASE x /= Gate
  <2>1. engine' = engine /\ Gate \in Desks /\ desk'[Gate] = desk[Gate]
    BY <1>1, <1>3 DEF Leaves, Desks
  <2>2. ReviewTypes'
    BY <1>1, <2>1 DEF ReviewTypes
  <2>3. CorrectsARow'
    <3>1. \A e \in Staff : e \in Desks
      BY DEF Desks
    <3>2. \A e \in Staff : desk'[e].pc = "patch" => desk'[e] = desk[e]
      BY <1>1, <3>1 DEF NoWork
    <3> QED BY <3>2 DEF CorrectsARow
  <2>4. RemembersRows' /\ LetThrough'
    BY <2>1, RowsSay DEF RemembersRows, LetThrough
  <2>5. runNo' \in Nat /\ runNo <= runNo'
    BY DEF ReviewTypes
  <2> QED BY <1>1, <2>1, <2>2, <2>3, <2>4, <2>5, ReportsStand, RowsSay
<1> QED BY <1>2, <1>3

LEMMA SnapshotReads == ASSUME ReviewInv, NEW x \in Desks, SnapshotRead(x) PROVE ReviewInv'
<1> USE DEF ReviewInv
<1>1. UNCHANGED <<runNo, finding, released, asserted, overtaken>> /\ desk[x].pc = "approve"
  BY DEF SnapshotRead
<1>2. CASE ~Verified
  BY <1>1, <1>2, LeavesKeep DEF SnapshotRead
<1>3. CASE Verified
  <2>1. desk' = [desk EXCEPT ![x] = [pc |-> "count", at |-> desk[x].at, draft |-> Draft(x)]] /\ engine' = engine
    BY <1>3 DEF SnapshotRead
  <2>2. PICK draft : draft = Draft(x)
    OBVIOUS
  <2>3. PICK at : at = desk[x].at
    OBVIOUS
  <2>4. at \in Nat /\ at <= Len(released)
    <3>1. IsRequest(desk[x]) /\ Ahead(desk[x])
      BY DEF ReviewTypes, Numbered, DraftsLead
    <3> QED BY <1>1, <2>3, <3>1 DEF IsRequest, NoWork, Ahead
  <2>5. PICK advises \in BOOLEAN : advises = (Advising /= {})
    BY Zenon
  <2>6. PICK seen \in BOOLEAN : seen = (x = Gate => ~engine.touched)
    BY Zenon
  <2>7. PICK by \in {"auto_qa", "staff"} : by = IF x = Gate THEN "auto_qa" ELSE "staff"
    OBVIOUS
  <2>8. draft = [run |-> runNo, ver |-> 0, by |-> by, advises |-> advises, seen |-> seen]
    BY <2>2, <2>5, <2>6, <2>7 DEF Draft
  <2>9. draft \in ReportRows /\ draft.run = runNo
    BY <2>8 DEF ReportRows, ReviewTypes
  <2>10. x = Gate => engine.pc = "release"
    BY <1>1 DEF Numbered, GateIsOpen
  <2>11. ~(draft.by = "auto_qa" /\ draft.advises /\ draft.seen)
    <3>1. CASE x = Gate /\ seen
      BY <2>5, <2>6, <2>8, <2>10, <3>1 DEF LetThrough
    <3>2. CASE ~(x = Gate /\ seen)
      BY <2>7, <2>8, <3>2
    <3> QED BY <3>1, <3>2
  <2>12. PICK d : d = [pc |-> "count", at |-> at, draft |-> draft]
    OBVIOUS
  <2>13. IsRequest(d) /\ d.pc = "count" /\ d.at = at /\ d.draft = draft
    BY <2>4, <2>9, <2>12 DEF IsRequest
  <2>14. Ahead(d)
    <3>1. \A i \in 1 .. at : released[i].run <= runNo
      BY <2>4 DEF Numbered, Counted, ReviewTypes
    <3> QED BY <2>4, <2>9, <2>13, <3>1 DEF Ahead, ReviewTypes
  <2>15. desk' = [desk EXCEPT ![x] = d]
    BY <2>1, <2>2, <2>3, <2>12
  <2> QED BY <1>1, <2>1, <2>10, <2>11, <2>13, <2>14, <2>15, DeskSteps
<1> QED BY <1>2, <1>3

LEMMA VersionReads == ASSUME ReviewInv, NEW x \in Desks, VersionRead(x) PROVE ReviewInv'
<1> USE DEF ReviewInv
<1>1. UNCHANGED <<runNo, finding, released, asserted, overtaken>> /\ engine' = engine /\ desk[x].pc = "count"
  BY DEF VersionRead
<1>2. PICK old : old = desk[x]
  OBVIOUS
<1>3. /\ IsRequest(old) /\ Ahead(old) /\ old.pc = "count"
      /\ ~(old.draft.by = "auto_qa" /\ old.draft.advises /\ old.draft.seen)
  BY <1>1, <1>2 DEF ReviewTypes, Numbered, DraftsLead, DraftsHeld
<1>4. old.at \in Nat /\ old.draft \in ReportRows
  BY <1>3 DEF IsRequest, NoWork
<1>5. PICK draft : draft = [old.draft EXCEPT !.ver = Len(released) + 1]
  OBVIOUS
<1>6. Len(released) \in Nat
  BY DEF ReviewTypes
<1>7. /\ draft \in ReportRows /\ draft.ver = Len(released) + 1 /\ draft.run = old.draft.run
      /\ draft.by = old.draft.by /\ draft.advises = old.draft.advises /\ draft.seen = old.draft.seen
  BY <1>4, <1>5, <1>6 DEF ReportRows
<1>8. PICK d : d = [pc |-> "numbered", at |-> old.at, draft |-> draft]
  OBVIOUS
<1>9. IsRequest(d) /\ d.pc = "numbered" /\ d.at = old.at /\ d.draft = draft
  BY <1>4, <1>7, <1>8 DEF IsRequest
<1>10. Ahead(d)
  BY <1>3, <1>4, <1>6, <1>7, <1>9 DEF Ahead
<1>11. desk' = [desk EXCEPT ![x] = d]
  BY <1>2, <1>5, <1>8 DEF VersionRead, NextVersion
<1>12. x = Gate => engine.pc = "release"
  BY <1>1 DEF Numbered, GateIsOpen
<1> QED BY <1>1, <1>3, <1>7, <1>9, <1>10, <1>11, <1>12, DeskSteps

LEMMA Rechecks == ASSUME ReviewInv, NEW x \in Desks, Recheck(x) PROVE ReviewInv'
<1> USE DEF ReviewInv
<1>1. UNCHANGED <<runNo, finding, released, asserted, overtaken>> /\ desk[x].pc = "numbered"
  BY DEF Recheck
<1>2. CASE stage /= "QA_REVIEW"
  BY <1>1, <1>2, LeavesKeep DEF Recheck
<1>3. CASE stage = "QA_REVIEW"
  <2>1. PICK old : old = desk[x]
    OBVIOUS
  <2>2. /\ IsRequest(old) /\ Ahead(old) /\ old.pc = "numbered"
        /\ ~(old.draft.by = "auto_qa" /\ old.draft.advises /\ old.draft.seen)
    BY <1>1, <2>1 DEF ReviewTypes, Numbered, DraftsLead, DraftsHeld
  <2>3. PICK d : d = [old EXCEPT !.pc = "write"]
    OBVIOUS
  <2>4. old = [pc |-> old.pc, at |-> old.at, draft |-> old.draft] /\ old.at \in Nat /\ old.draft \in ReportRows
    BY <2>2 DEF IsRequest, NoWork
  <2>5. d = [pc |-> "write", at |-> old.at, draft |-> old.draft]
    BY <2>3, <2>4
  <2>6. IsRequest(d) /\ d.pc = "write" /\ d.at = old.at /\ d.draft = old.draft
    BY <2>4, <2>5 DEF IsRequest
  <2>7. Ahead(d)
    BY <2>2, <2>6 DEF Ahead
  <2>8. desk' = [desk EXCEPT ![x] = d] /\ engine' = engine
    BY <1>3, <2>1, <2>3 DEF Recheck
  <2>9. x = Gate => engine.pc = "release"
    BY <1>1 DEF Numbered, GateIsOpen
  <2> QED BY <1>1, <2>2, <2>6, <2>7, <2>8, <2>9, DeskSteps
<1> QED BY <1>2, <1>3

\* A report more: what was about to be released leads what it led, and its version is still
\* one there may be.
LEMMA OneMore ==
  ASSUME ReviewInv, NEW r \in ReportRows, released' = Append(released, r), UNCHANGED runNo,
         r.ver <= Len(released) + 1, r.run <= runNo, ~(r.by = "auto_qa" /\ r.advises /\ r.seen),
         \A x \in Desks : desk'[x] = desk[x] \/ desk'[x] = NoWork
  PROVE  released' \in Seq(ReportRows) /\ Counted' /\ DraftsLead' /\ DraftsHeld' /\ AdviceIsHeld'
<1> USE DEF ReviewInv
<1>1. released \in Seq(ReportRows) /\ runNo \in Nat
  BY DEF ReviewTypes
<1>2. released' \in Seq(ReportRows) /\ Len(released') = Len(released) + 1 /\ released'[Len(released) + 1] = r
      /\ \A i \in 1 .. Len(released) : released'[i] = released[i]
  BY <1>1
<1>3. Counted'
  <2> SUFFICES ASSUME NEW i \in 1 .. Len(released') PROVE released'[i].ver <= i /\ released'[i].run <= runNo
    BY DEF Counted
  <2>1. CASE i = Len(released) + 1
    BY <1>2, <2>1
  <2>2. CASE i \in 1 .. Len(released)
    BY <1>2, <2>2 DEF Numbered, Counted
  <2> QED BY <1>1, <1>2, <2>1, <2>2
<1>4. AdviceIsHeld'
  <2>1. \A y \in Range(released') : y \in Range(released) \/ y = r
    BY <1>1, <1>2 DEF Range
  <2> QED BY <2>1 DEF AdviceIsHeld
<1>5. DraftsLead'
  <2> SUFFICES ASSUME NEW x \in Desks PROVE Ahead(desk[x])'
    BY DEF DraftsLead
  <2>1. CASE desk'[x] = NoWork
    BY <2>1 DEF Ahead, NoWork
  <2>2. CASE desk'[x] = desk[x]
    <3>1. PICK d : d = desk[x]
      OBVIOUS
    <3>2. Ahead(d) /\ IsRequest(d)
      BY <3>1 DEF Numbered, DraftsLead, ReviewTypes
    <3>3. d.pc \in {"approve", "count", "numbered", "write", "reissue"} => d.at \in Nat
      BY <3>2 DEF IsRequest, NoWork
    <3>4. d.pc \in {"numbered", "write"} => d.draft.ver \in Nat
      BY <3>2 DEF IsRequest, NoWork, ReportRows
    <3>5. d.pc \in {"approve", "count", "numbered", "write", "reissue"} => \A i \in 1 .. d.at : released'[i] = released[i]
      BY <1>1, <1>2, <3>2, <3>3 DEF Ahead
    <3>6. d.pc \in {"approve", "count", "numbered", "write", "reissue"} => d.at <= Len(released')
      BY <1>1, <1>2, <3>2, <3>3 DEF Ahead
    <3>7. d.pc \in {"numbered", "write"} => d.at < d.draft.ver /\ d.draft.ver <= Len(released') + 1
      BY <1>1, <1>2, <3>2, <3>3, <3>4 DEF Ahead
    <3>8. d.pc \in {"count", "numbered", "write"} =>
            d.draft.run <= runNo' /\ \A i \in 1 .. d.at : released'[i].run <= d.draft.run
      BY <3>2, <3>5 DEF Ahead
    <3>9. d.pc = "reissue" =>
            /\ \E i \in 1 .. d.at : released'[i] = d.from
            /\ \A i \in 1 .. d.at : released'[i].ver <= d.from.ver
      BY <3>2, <3>5 DEF Ahead
    <3> QED BY <2>2, <3>1, <3>6, <3>7, <3>8, <3>9 DEF Ahead
  <2> QED BY <2>1, <2>2
<1>6. DraftsHeld'
  <2> SUFFICES ASSUME NEW x \in Desks, desk'[x] = desk[x]
               PROVE  desk[x].pc \in {"count", "numbered", "write"} =>
                        ~(desk[x].draft.by = "auto_qa" /\ desk[x].draft.advises /\ desk[x].draft.seen)
    BY DEF DraftsHeld, NoWork
  <2> QED BY DEF Numbered, DraftsHeld
<1> QED BY <1>2, <1>3, <1>4, <1>5, <1>6

\* A release that nothing was released beside has the highest version and the newest run.
LEMMA Releases == ASSUME ReviewInv, NEW x \in Desks, Release(x) PROVE ReviewInv'
<1> USE DEF ReviewInv
<1>1. UNCHANGED <<runNo, finding, asserted>> /\ Leaves(x) /\ desk[x].pc = "write"
  BY DEF Release
<1>2. PICK d : d = desk[x]
  OBVIOUS
<1>3. IsRequest(d) /\ Ahead(d) /\ d.pc = "write" /\ ~(d.draft.by = "auto_qa" /\ d.draft.advises /\ d.draft.seen)
  BY <1>1, <1>2 DEF ReviewTypes, Numbered, DraftsLead, DraftsHeld
<1>4. PICK r : r = d.draft
  OBVIOUS
<1>5. d.at \in Nat /\ r \in ReportRows
  BY <1>3, <1>4 DEF IsRequest, NoWork
<1>6. released' = Append(released, r) /\ overtaken' = (Len(released) /= d.at)
  BY <1>2, <1>4 DEF Release
<1>7. r.ver <= Len(released) + 1 /\ r.run <= runNo /\ ~(r.by = "auto_qa" /\ r.advises /\ r.seen)
  BY <1>3, <1>4 DEF Ahead
<1>8. /\ desk' = [y \in Desks |-> desk'[y]] /\ \A y \in Desks : IsRequest(desk'[y])
      /\ desk'[x] = NoWork /\ \A y \in Desks : y /= x => desk'[y] = desk[y]
  BY <1>1, DesksLeft DEF Leaves
<1>9. released' \in Seq(ReportRows) /\ Counted' /\ DraftsLead' /\ DraftsHeld' /\ AdviceIsHeld'
  BY <1>1, <1>5, <1>6, <1>7, <1>8, OneMore
<1>10. LastLeads'
  <2> SUFFICES ASSUME Len(released) = d.at, NEW i \in 1 .. Len(released') - 1
               PROVE  /\ released'[i].ver < released'[Len(released')].ver
                      /\ released'[i].run <= released'[Len(released')].run
    BY <1>6 DEF LastLeads
  <2>1. /\ Len(released') = Len(released) + 1 /\ released'[Len(released')] = r /\ Len(released) \in Nat
        /\ \A k \in 1 .. Len(released) : released'[k] = released[k] /\ released[k] \in ReportRows
    BY <1>6 DEF ReviewTypes
  <2>2. i \in 1 .. Len(released)
    BY <2>1
  <2>3. released[i].ver <= i /\ released[i].ver \in Nat /\ r.ver \in Nat
    BY <1>5, <2>1, <2>2 DEF Numbered, Counted, ReportRows
  <2>4. d.at < r.ver /\ released[i].run <= r.run
    BY <1>3, <1>4, <2>2 DEF Ahead
  <2> QED BY <2>1, <2>2, <2>3, <2>4
<1>11. ReviewTypes' /\ CorrectsARow' /\ RemembersRows' /\ LetThrough' /\ GateIsOpen'
  <2>1. CASE x = Gate
    <3>1. engine' = NoWork
      BY <1>1, <2>1 DEF Leaves
    <3>2. ReviewTypes'
      BY <1>1, <1>8, <1>9, <3>1 DEF ReviewTypes
    <3>3. CorrectsARow'
      BY <1>1, <1>8 DEF CorrectsARow, NoWork, Desks
    <3>4. RemembersRows' /\ LetThrough'
      BY <3>1 DEF RemembersRows, LetThrough, NoWork
    <3>5. GateIsOpen'
      BY <1>8, <2>1 DEF GateIsOpen, NoWork
    <3> QED BY <3>2, <3>3, <3>4, <3>5
  <2>2. CASE x /= Gate
    <3>1. engine' = engine /\ desk'[Gate] = desk[Gate]
      BY <1>1, <1>8, <2>2 DEF Leaves, Desks
    <3>2. ReviewTypes'
      BY <1>1, <1>8, <1>9, <3>1 DEF ReviewTypes
    <3>3. CorrectsARow'
      BY <1>1, <1>8 DEF CorrectsARow, NoWork, Desks
    <3>4. RemembersRows' /\ LetThrough'
      BY <1>1, <3>1, RowsSay DEF RemembersRows, LetThrough
    <3>5. GateIsOpen'
      BY <3>1 DEF Numbered, GateIsOpen
    <3> QED BY <3>2, <3>3, <3>4, <3>5
  <2> QED BY <2>1, <2>2
<1> QED BY <1>1, <1>9, <1>10, <1>11, RowsSay DEF Numbered

LEMMA WorkerDeathKeeps == ASSUME ReviewInv, WorkerDies PROVE ReviewInv'
<1>1. UNCHANGED <<runNo, finding, released, asserted, overtaken>> /\ Leaves(Gate) /\ Gate \in Desks
  BY DEF WorkerDies, Desks
<1> QED BY <1>1, LeavesKeep

LEMMA Rejects == ASSUME ReviewInv, NEW e \in Staff, Reject(e) PROVE ReviewInv'
<1>1. e \in Desks /\ e /= Gate
  BY ReviewAssumption DEF Desks, Gate
<1>2. Leaves(e) /\ UNCHANGED <<runNo, finding, released, asserted, overtaken>>
  BY <1>1 DEF Reject, Leaves
<1> QED BY <1>1, <1>2, LeavesKeep

\* Steps of the case and of its record that leave the rows, the worker and the staff alone.
LEMMA Bystanders ==
  ASSUME ReviewInv, UNCHANGED <<engine, runNo, finding, desk, released, asserted, overtaken>>
  PROVE  ReviewInv'
<1> USE DEF ReviewInv
<1>1. ReviewTypes' /\ CorrectsARow' /\ RemembersRows'
  BY DEF ReviewTypes, CorrectsARow, RemembersRows
<1>2. LetThrough'
  BY RowsSay DEF LetThrough
<1>3. runNo' \in Nat /\ runNo <= runNo'
  BY DEF ReviewTypes
<1> QED BY <1>1, <1>2, <1>3, ReportsStand, RowsSay

LEMMA PatchReads ==
  ASSUME ReviewInv, NEW e \in Staff, NEW q \in Passages, NEW change \in Changes, PatchRead(e, q, change)
  PROVE  ReviewInv'
<1> USE DEF ReviewInv
<1>1. UNCHANGED <<engine, runNo, finding, released, asserted, overtaken>>
  BY DEF PatchRead
<1>2. PICK d : d = [pc |-> "patch", run |-> runNo, of |-> q, row |-> finding[q], change |-> change]
  OBVIOUS
<1>3. desk' = [desk EXCEPT ![e] = d] /\ finding[q] /= NoRow
  BY <1>2 DEF PatchRead, Found
<1>4. IsRequest(d)
  BY <1>2, <1>3 DEF IsRequest, ReviewTypes
<1>5. e \in Desks /\ e /= Gate /\ d.pc = "patch"
  BY <1>2, ReviewAssumption DEF Desks, Gate
<1>6. /\ desk' = [y \in Desks |-> desk'[y]] /\ \A y \in Desks : IsRequest(desk'[y])
      /\ desk'[e] = d /\ \A y \in Desks : y /= e => desk'[y] = desk[y]
  BY <1>3, <1>4, <1>5, DeskTaken
<1>9. ReviewTypes'
  BY <1>1, <1>6 DEF ReviewTypes
<1>10. CorrectsARow'
  BY <1>1, <1>2, <1>3, <1>6 DEF CorrectsARow, ReviewTypes, Desks
<1>11. desk'[Gate] = desk[Gate]
  BY <1>5, <1>6 DEF Desks
<1>7. RemembersRows'
  BY <1>1 DEF RemembersRows
<1>8. LetThrough'
  BY <1>1, RowsSay DEF LetThrough
<1>12. runNo' \in Nat /\ runNo <= runNo'
  BY DEF PatchRead, ReviewTypes
<1> QED BY <1>1, <1>5, <1>6, <1>7, <1>8, <1>9, <1>10, <1>11, <1>12, ReportsStand, RowsSay

LEMMA PatchCommits == ASSUME ReviewInv, NEW e \in Staff, PatchCommit(e) PROVE ReviewInv'
<1> USE DEF ReviewInv
<1>1. PICK d : d = desk[e]
  OBVIOUS
<1>2. UNCHANGED <<runNo, released, overtaken>> /\ desk' = [desk EXCEPT ![e] = NoWork] /\ d.pc = "patch"
  BY <1>1 DEF PatchCommit
<1>3. /\ d.run \in Nat /\ d.of \in Passages /\ IsRow(d.row) /\ d.change \in Changes
  BY <1>1, <1>2, RequestKinds DEF ReviewTypes, Desks
<1>4. runNo' \in Nat /\ runNo <= runNo'
  BY <1>2 DEF ReviewTypes
<1>5. e \in Desks /\ Gate \in Desks /\ e /= Gate
  BY ReviewAssumption DEF Desks, Gate
<1>6. /\ desk' = [y \in Desks |-> desk'[y]] /\ \A y \in Desks : IsRequest(desk'[y])
      /\ \A y \in Desks : desk'[y] = NoWork \/ desk'[y] = desk[y]
      /\ \A y \in Desks : desk'[y] = desk[y] \/ desk'[y].pc \notin {"approve", "count", "numbered", "write", "reissue"}
      /\ desk'[Gate] = desk[Gate]
  BY <1>2, <1>5, DesksLeft
<1>7. CASE UNCHANGED <<finding, asserted, engine>>
  <2>1. ReviewTypes'
    BY <1>2, <1>6, <1>7 DEF ReviewTypes
  <2>2. CorrectsARow'
    BY <1>2, <1>6, <1>7 DEF CorrectsARow, NoWork, Desks
  <2>3. RemembersRows' /\ LetThrough'
    BY <1>7, RowsSay DEF RemembersRows, LetThrough
  <2> QED BY <1>2, <1>4, <1>6, <1>7, <2>1, <2>2, <2>3, ReportsStand, RowsSay
<1>8. ASSUME d.run = runNo,
             finding' = [finding EXCEPT ![d.of] = Corrected(finding[d.of], d.row, d.change)],
             asserted' = IF ~Moves(d.change) THEN asserted
                         ELSE IF Basis(finding[d.of], d.change.field) = Basis(d.row, d.change.field)
                         THEN asserted \ {d.of} ELSE asserted \cup {d.of},
             engine' = IF engine.pc = "release" THEN [engine EXCEPT !.touched = TRUE] ELSE engine
      PROVE  ReviewInv'
  <2>1. PICK row : row = Corrected(finding[d.of], d.row, d.change)
    OBVIOUS
  <2>2. IsRow(finding[d.of])
    BY <1>1, <1>2, <1>3, <1>8 DEF ReviewTypes, CorrectsARow
  <2>3. IsRow(row) /\ row /= NoRow
    BY <1>3, <2>1, <2>2, CorrectedIsRow, RowIsNotNone
  <2>4. finding' = [q \in Passages |-> IF q = d.of THEN row ELSE finding[q]]
    BY <1>8, <2>1 DEF ReviewTypes
  <2>5. engine' = engine \/ (IsRun(engine') /\ engine'.pc = "release" /\ engine'.touched)
    <3>1. CASE engine.pc = "release"
      <4>1. PICK w : w = engine'
        OBVIOUS
      <4>2. w = [engine EXCEPT !.touched = TRUE] /\ IsRun(engine)
        BY <1>8, <3>1, <4>1 DEF ReviewTypes, NoWork
      <4>3. IsRun(w) /\ w.pc = "release" /\ w.touched
        BY <3>1, <4>2 DEF IsRun
      <4> QED BY <4>1, <4>3
    <3>2. CASE engine.pc /= "release"
      BY <1>8, <3>2
    <3> QED BY <3>1, <3>2
  <2>6. ReviewTypes'
    BY <1>2, <1>6, <2>3, <2>4, <2>5 DEF ReviewTypes
  <2>7. CorrectsARow'
    <3>1. \A f \in Staff : desk[f].pc = "patch" => desk[f].of \in Passages
      BY RequestKinds DEF ReviewTypes, Desks
    <3> QED BY <1>2, <1>6, <2>3, <2>4, <3>1 DEF CorrectsARow, NoWork, Desks
  <2>8. RemembersRows'
    BY <2>3, <2>4, <2>5 DEF RemembersRows
  <2>9. LetThrough'
    BY <1>8, <2>5 DEF LetThrough
  <2>10. VehicleFollows'
    <3> SUFFICES ASSUME NEW q \in Passages, finding'[q] /= NoRow, q \notin asserted'
                 PROVE  finding'[q] = Derived(finding'[q])
      BY DEF VehicleFollows, Found
    <3>1. CASE q /= d.of
      BY <1>8, <2>4, <3>1 DEF VehicleFollows, Found
    <3>2. CASE q = d.of /\ Moves(d.change)
      <4>1. Basis(finding[d.of], d.change.field) = Basis(d.row, d.change.field)
        BY <1>8, <3>2
      <4> QED BY <1>3, <2>1, <2>2, <2>4, <3>2, <4>1, CorrectedFollows
    <3>3. CASE q = d.of /\ ~Moves(d.change)
      <4>1. finding[d.of] = Derived(finding[d.of])
        BY <1>3, <1>8, <2>2, <3>3, RowIsNotNone DEF VehicleFollows, Found
      <4> QED BY <1>3, <2>1, <2>2, <2>4, <3>3, <4>1, RewordedFollows
    <3> QED BY <3>1, <3>2, <3>3
  <2> QED BY <1>2, <1>4, <1>6, <2>5, <2>6, <2>7, <2>8, <2>9, <2>10, ReportsStand
<1> QED BY <1>1, <1>7, <1>8 DEF PatchCommit

LEMMA ReissueReads == ASSUME ReviewInv, NEW e \in Staff, ReissueRead(e) PROVE ReviewInv'
<1> USE DEF ReviewInv
<1>1. UNCHANGED <<runNo, finding, released, asserted, overtaken>> /\ engine' = engine
  BY DEF ReissueRead
<1>2. PICK r \in Latest : desk' = [desk EXCEPT ![e] = [pc |-> "reissue", at |-> Len(released), from |-> r]]
  BY DEF ReissueRead
<1>3. PICK i \in 1 .. Len(released) : released[i] = r
  BY DEF Latest, Range, ReviewTypes
<1>4. r \in ReportRows /\ Len(released) \in Nat /\ \A j \in 1 .. Len(released) : released[j].ver <= r.ver
  BY <1>3 DEF Latest, Range, ReviewTypes
<1>5. PICK d : d = [pc |-> "reissue", at |-> Len(released), from |-> r]
  OBVIOUS
<1>6. desk' = [desk EXCEPT ![e] = d] /\ IsRequest(d) /\ d.pc = "reissue" /\ d.at = Len(released) /\ d.from = r
  BY <1>2, <1>4, <1>5 DEF IsRequest
<1>7. Ahead(d)
  BY <1>3, <1>4, <1>6 DEF Ahead
<1>8. e \in Desks /\ e /= Gate
  BY ReviewAssumption DEF Desks, Gate
<1> QED BY <1>1, <1>6, <1>7, <1>8, DeskSteps

\* The latest report is the last, as long as the last was released beside no other.
LEMMA LatestIsLast ==
  ASSUME ReviewInv, ~overtaken, NEW r \in Latest
  PROVE  Len(released) > 0 /\ r = released[Len(released)]
<1>1. PICK i \in 1 .. Len(released) : r = released[i]
  BY DEF Latest, Range, ReviewInv, ReviewTypes
<1>2. Len(released) \in Nat /\ \A j \in 1 .. Len(released) : released[j].ver \in Nat
  <2>1. released \in Seq(ReportRows)
    BY DEF ReviewInv, ReviewTypes
  <2>2. \A j \in 1 .. Len(released) : released[j] \in ReportRows
    BY <2>1
  <2> QED BY <2>1, <2>2 DEF ReportRows
<1>3. released[Len(released)] \in Range(released)
  BY <1>1, <1>2 DEF ReviewInv, ReviewTypes, Range
<1>4. released[Len(released)].ver <= released[i].ver
  BY <1>1, <1>3 DEF Latest
<1>5. i /= Len(released) => released[i].ver < released[Len(released)].ver
  BY <1>1, <1>2 DEF ReviewInv, Numbered, LastLeads
<1> QED BY <1>1, <1>2, <1>4, <1>5

LEMMA ReissueCommits == ASSUME ReviewInv, NEW e \in Staff, ReissueCommit(e) PROVE ReviewInv'
<1> USE DEF ReviewInv
<1>1. /\ UNCHANGED <<runNo, finding, asserted>> /\ engine' = engine
      /\ desk' = [desk EXCEPT ![e] = NoWork] /\ desk[e].pc = "reissue"
  BY DEF ReissueCommit
<1>2. e \in Desks /\ e /= Gate
  BY ReviewAssumption DEF Desks, Gate
<1>3. PICK d : d = desk[e]
  OBVIOUS
<1>4. d.pc = "reissue" /\ IsRequest(d) /\ Ahead(d)
  BY <1>1, <1>2, <1>3 DEF ReviewTypes, Numbered, DraftsLead
<1>5. PICK from : from = d.from
  OBVIOUS
<1>6. d.at \in Nat /\ from \in ReportRows /\ d.at <= Len(released)
  BY <1>4, <1>5 DEF IsRequest, NoWork, Ahead
<1>7. PICK r : r = [from EXCEPT !.ver = from.ver + 1, !.by = "staff"]
  OBVIOUS
<1>8. r \in ReportRows /\ r.by = "staff" /\ r.ver = from.ver + 1 /\ r.run = from.run
  <2>1. r = [run |-> from.run, ver |-> from.ver + 1, by |-> "staff", advises |-> from.advises,
             seen |-> from.seen]
    BY <1>6, <1>7 DEF ReportRows
  <2> QED BY <1>6, <2>1 DEF ReportRows
<1>9. released' = Append(released, r) /\ released \in Seq(ReportRows) /\ runNo \in Nat
  BY <1>3, <1>5, <1>7 DEF ReissueCommit, Again, ReviewTypes
<1>10. PICK i \in 1 .. d.at : released[i] = from
  BY <1>4, <1>5 DEF Ahead
<1>11. i \in 1 .. Len(released) /\ Len(released) \in Nat
  BY <1>6, <1>9, <1>10
<1>12. r.ver <= Len(released) + 1 /\ r.run <= runNo
  <2>1. from.ver <= i /\ from.run <= runNo /\ from.ver \in Nat
    BY <1>6, <1>10, <1>11 DEF Numbered, Counted, ReportRows
  <2> QED BY <1>8, <1>11, <2>1
<1>13. /\ desk' = [y \in Desks |-> desk'[y]] /\ \A y \in Desks : IsRequest(desk'[y])
       /\ desk'[e] = NoWork /\ \A y \in Desks : y /= e => desk'[y] = desk[y]
  BY <1>1, <1>2, DesksLeft
<1>14. released' \in Seq(ReportRows) /\ Counted' /\ DraftsLead' /\ DraftsHeld' /\ AdviceIsHeld'
  BY <1>1, <1>8, <1>9, <1>12, <1>13, OneMore
<1>15. ReviewTypes'
  BY <1>1, <1>13, <1>14 DEF ReviewTypes
<1>16. CorrectsARow'
  BY <1>1, <1>13 DEF CorrectsARow, NoWork, Desks
<1>17. RemembersRows' /\ LetThrough'
  BY <1>1, RowsSay DEF RemembersRows, LetThrough
<1>18. GateIsOpen'
  BY <1>1, <1>2, <1>13 DEF Numbered, GateIsOpen, Desks
<1>19. LastLeads'
  <2> SUFFICES ASSUME ~overtaken, Len(released) = d.at, NEW j \in 1 .. Len(released') - 1
               PROVE  /\ released'[j].ver < released'[Len(released')].ver
                      /\ released'[j].run <= released'[Len(released')].run
    BY <1>3 DEF LastLeads, ReissueCommit
  <2>1. /\ Len(released') = Len(released) + 1 /\ released'[Len(released')] = r
        /\ \A k \in 1 .. Len(released) : released'[k] = released[k] /\ released[k] \in ReportRows
    BY <1>9
  <2>2. j \in 1 .. Len(released)
    BY <1>11, <2>1
  <2>3. released[j].ver <= from.ver /\ released[j].ver \in Nat /\ from.ver \in Nat /\ released[j].run \in Nat
    BY <1>4, <1>5, <1>6, <2>1, <2>2 DEF Ahead, ReportRows
  <2>4. i = Len(released)
    <3> SUFFICES ASSUME i /= Len(released) PROVE FALSE
      OBVIOUS
    <3>1. released[i].ver < released[Len(released)].ver
      BY <1>11 DEF Numbered, LastLeads
    <3>2. released[Len(released)].ver <= from.ver
      BY <1>4, <1>5, <1>11 DEF Ahead
    <3>3. released[Len(released)].ver \in Nat
      BY <1>11, <2>1 DEF ReportRows
    <3>4. from.ver \in Nat
      BY <1>6 DEF ReportRows
    <3> QED BY <1>10, <3>1, <3>2, <3>3, <3>4
  <2>5. released[j].run <= from.run
    <3>1. CASE j = Len(released)
      BY <1>10, <2>3, <2>4, <3>1
    <3>2. CASE j /= Len(released)
      <4>1. j \in 1 .. Len(released) - 1
        BY <1>11, <2>2, <3>2
      <4> QED BY <1>10, <2>4, <4>1 DEF Numbered, LastLeads
    <3> QED BY <3>1, <3>2
  <2> QED BY <1>8, <2>1, <2>2, <2>3, <2>5
<1> QED BY <1>1, <1>14, <1>15, <1>16, <1>17, <1>18, <1>19, RowsSay DEF Numbered

\* A case's rows, reports and requests are what their makers left them, for any record, any
\* screens that answer anything of it and any staff: FindingsReview's invariant is kept by
\* every step of the worker (analysis.service.ts), of the gate (qa-service.ts) and of the
\* staff (qa.ts, ops.ts).
THEOREM ReviewStands == ReviewSpec => []ReviewInv
<1>1. ReviewInit => ReviewInv
  BY ReviewStarts
<1>2. ReviewInv /\ [ReviewNext]_reviewVars => ReviewInv'
  <2> SUFFICES ASSUME ReviewInv, [ReviewNext]_reviewVars PROVE ReviewInv'
    OBVIOUS
  <2>1. CASE StartRun \/ SaveScreen \/ HandOff \/ GateLook \/ GateOpens \/ WorkerDies
    BY <2>1, RunStarts, ScreenSaves, HandsOff, GateLooks, GateBegins, WorkerDeathKeeps
  <2>2. CASE RerunBought \/ \E q \in Passages : Redigitize(q)
    BY <2>2, Bystanders DEF RerunBought, Redigitize
  <2>3. CASE \E e \in Staff : PatchCommit(e) \/ Reject(e) \/ ReissueRead(e) \/ ReissueCommit(e)
    BY <2>3, PatchCommits, Rejects, ReissueReads, ReissueCommits
  <2>6. CASE \E x \in Desks : SnapshotRead(x) \/ VersionRead(x) \/ Recheck(x) \/ Release(x)
    BY <2>6, SnapshotReads, VersionReads, Rechecks, Releases
  <2>7. CASE \E e \in Staff, what \in {"approve", "reject", "rerun"} : Decide(e, what)
    BY <2>7, Decides
  <2>4. CASE \E e \in Staff, q \in Passages, c \in Changes : PatchRead(e, q, c)
    BY <2>4, PatchReads
  <2>5. CASE UNCHANGED reviewVars
    BY <2>5, Bystanders DEF reviewVars
  <2> QED BY <2>1, <2>2, <2>3, <2>4, <2>5, <2>6, <2>7 DEF ReviewNext
<1> QED BY <1>1, <1>2, PTL DEF ReviewSpec

\* A finding goes through the door that what its row says leads to (vehicleFor,
\* analysis-fields.ts), through any merges and any corrections, for any answers of the
\* model: but for the two ways VehicleFollows leaves out.
THEOREM DoorsFollow == ReviewSpec => []VehicleFollows
<1>1. ReviewInv => VehicleFollows
  BY DEF ReviewInv
<1> QED BY <1>1, ReviewStands, PTL

\* What a family reads was looked through for advice or released by a person (the gate,
\* auto-qa.service.ts), is of the newest run that was released, and is the one report of
\* the highest version (intake.ts), however many runs, corrections and re-releases: from
\* every approval that no other release overlapped, until two releases overlap again.
THEOREM WhatIsReadHasPassed == ReviewSpec => []FamilyReadsWhatPassed
<1>1. ReviewInv => AdviceIsHeld
  BY DEF ReviewInv
<1>2. ReviewInv => NewestRunIsShown
  <2> SUFFICES ASSUME ReviewInv, ~overtaken
               PROVE  /\ Cardinality(Latest) <= 1
                      /\ \A r \in Latest, other \in Range(released) : other.run <= r.run
    BY DEF NewestRunIsShown
  <2>1. Cardinality(Latest) <= 1
    <3>1. CASE Latest = {}
      BY <3>1, FS_EmptySet
    <3>2. CASE Latest /= {}
      <4>1. PICK r \in Latest : TRUE
        BY <3>2
      <4>2. \A other \in Latest : other = r
        BY LatestIsLast
      <4>3. Latest = {r}
        BY <4>2
      <4> QED BY <4>3, FS_Singleton
    <3> QED BY <3>1, <3>2
  <2>2. ASSUME NEW r \in Latest, NEW other \in Range(released) PROVE other.run <= r.run
    <3>1. r = released[Len(released)] /\ Len(released) > 0 /\ Len(released) \in Nat
      BY LatestIsLast DEF ReviewInv, ReviewTypes
    <3>2. PICK j \in 1 .. Len(released) : other = released[j]
      BY DEF Range, ReviewInv, ReviewTypes
    <3>3. j /= Len(released) => released[j].run <= released[Len(released)].run
      BY <3>1 DEF ReviewInv, Numbered, LastLeads
    <3>4. r.run \in Nat
      <4>1. r \in ReportRows
        BY <3>1 DEF ReviewInv, ReviewTypes
      <4> QED BY <4>1 DEF ReportRows
    <3> QED BY <3>1, <3>2, <3>3, <3>4
  <2> QED BY <2>1, <2>2
<1> QED BY <1>1, <1>2, ReviewStands, PTL DEF FamilyReadsWhatPassed
=============================================================================
