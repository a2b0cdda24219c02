-------------------------- MODULE WalletApp_proofs --------------------------
(***************************************************************************)
(* Proofs about the wallet page, for any currencies, rates and number of   *)
(* payments: the quote on display is current once React has run its effect,*)
(* and one payment is being signed at a time.                              *)
(***************************************************************************)
EXTENDS WalletApp, FiniteSetTheorems, TLAPS

\* What the button knows of the handlers that are under way, and that each of them
\* belongs to a payment that was initiated.
Signing ==
  /\ clicks \in Nat
  /\ signing \subseteq 1..clicks
  /\ isSigning \in BOOLEAN
  /\ IF isSigning THEN \E n \in 1..clicks : signing = {n} ELSE signing = {}

\* A blank form has no quote, at whatever rates.
LEMMA BlankHasNoQuote == ASSUME NEW v PROVE QuoteFor(BlankForm, v) = {}
  BY DEF QuoteFor, BlankForm, Positive

\* The quote depends on the form through the fields the effect depends on.
LEMMA QuoteDependsOnThese ==
  ASSUME NEW f, NEW g, NEW v, ~AffectsQuote(f, g)
  PROVE  QuoteFor(f, v) = QuoteFor(g, v)
  BY DEF AffectsQuote, QuoteFor

-----------------------------------------------------------------------------
\* An edit leaves the quote current or marks the effect to run.
LEMMA SetFormKeepsQuote ==
  ASSUME QuoteIsCurrent, NEW form, SetForm(form), quote' = quote, fxJitter' = fxJitter
  PROVE  QuoteIsCurrent'
<1> SUFFICES ASSUME ~stale' PROVE quote' = QuoteFor(form, fxJitter)
  BY DEF QuoteIsCurrent, SetForm
<1>1. ~stale /\ ~AffectsQuote(sendForm, form)
  BY DEF SetForm
<1> QED
  BY <1>1, QuoteDependsOnThese DEF QuoteIsCurrent

\* QuoteIsCurrent is inductive as it stands.
LEMMA NextQuoteIsCurrent ==
  ASSUME QuoteIsCurrent, [Next]_vars
  PROVE  QuoteIsCurrent'
<1>1. CASE EditField
  BY <1>1, SetFormKeepsQuote, Zenon DEF EditField
<1>2. CASE MoveRates
  BY <1>2 DEF MoveRates, QuoteIsCurrent
<1>3. CASE ComputeQuote
  BY <1>3 DEF ComputeQuote, QuoteIsCurrent
<1>4. CASE Announcing
  <2> PICK n \in 1..MaxClicks : Announce(n)
    BY <1>4 DEF Announcing
  <2> QED
    BY BlankHasNoQuote DEF Announce, SetForm, QuoteIsCurrent
<1>5. CASE Look \/ ClickSend \/ ClearToast \/ UNCHANGED vars
  <2>1. UNCHANGED <<stale, quote, sendForm, fxJitter>>
    BY <1>5 DEF Look, Navigate, OpenDetail, CloseDetail, ClickSend, ClearToast, vars
  <2> QED
    BY <2>1 DEF QuoteIsCurrent
<1> QED
  BY <1>1, <1>2, <1>3, <1>4, <1>5 DEF Next

\* QuoteIsCurrent holds of every behaviour: after the effect has run, what is shown is
\* the quote for the form shown at the current rates.
THEOREM QuoteCorrect == Spec => []QuoteIsCurrent
<1>1. Init => QuoteIsCurrent
  BY BlankHasNoQuote DEF Init, QuoteIsCurrent
<1> QED
  BY <1>1, NextQuoteIsCurrent, PTL DEF Spec

-----------------------------------------------------------------------------
\* Signing holds of every behaviour.
LEMMA SigningInvariant == Spec => []Signing
<1>1. ASSUME Init PROVE Signing
  <2>1. clicks = 0 /\ signing = {} /\ ~isSigning /\ isSigning \in BOOLEAN
    BY <1>1, Zenon DEF Init
  <2> QED
    BY <2>1 DEF Signing
<1>2. ASSUME Signing, [Next]_vars PROVE Signing'
  <2>1. CASE ClickSend
    <3>1. ~isSigning /\ signing = {} /\ isSigning' /\ clicks' = clicks + 1 /\ signing' = {clicks'}
      BY <1>2, <2>1 DEF ClickSend, ButtonEnabled, Signing
    <3>2. isSigning' \in BOOLEAN
      BY <2>1 DEF ClickSend
    <3> QED
      BY <1>2, <3>1, <3>2 DEF Signing
  <2>2. CASE Announcing
    <3> PICK n \in 1..MaxClicks : Announce(n)
      BY <2>2 DEF Announcing
    <3>1. signing = {n}
      BY <1>2 DEF Announce, Signing
    <3> QED
      BY <1>2, <3>1 DEF Announce, Signing
  <2>3. CASE Look \/ EditField \/ MoveRates \/ ComputeQuote \/ ClearToast \/ UNCHANGED vars
    <3>1. UNCHANGED <<isSigning, signing, clicks>>
      BY <2>3 DEF Look, Navigate, OpenDetail, CloseDetail, EditField, MoveRates, ComputeQuote, ClearToast, vars
    <3> QED
      BY <1>2, <3>1 DEF Signing
  <2> QED
    BY <1>2, <2>1, <2>2, <2>3 DEF Next
<1> QED
  BY <1>1, <1>2, PTL DEF Spec

\* OneSigningAtATime holds of every behaviour: the page's flag says exactly whether a
\* payment is being signed, and there is never a second one.
THEOREM OneSigningCorrect == Spec => []OneSigningAtATime
<1>1. Signing => OneSigningAtATime
  BY FS_EmptySet, FS_Singleton DEF Signing, OneSigningAtATime
<1> QED
  BY <1>1, SigningInvariant, PTL

-----------------------------------------------------------------------------
\* Every time-out that is pending belongs to a payment that was announced.
Counts ==
  /\ fxJitter \in 0..MaxJitter /\ clicks \in 0..MaxClicks
  /\ toast \in 0..clicks /\ signing \subseteq 1..clicks
  /\ clearing \in Nat
  /\ clearing <= clicks
  /\ isSigning => clearing < clicks

Screen == activeTab \in Tab /\ selectedTx \in Tx \cup {NoTx} /\ sendForm \in Form

Flags == isSigning \in BOOLEAN /\ stale \in BOOLEAN

LEMMA BlankIsForm == BlankForm \in Form
  BY CurrencyAssumption DEF BlankForm, Form, Amount

LEMMA ScreenStep ==
  ASSUME Screen, [Next]_vars
  PROVE  Screen'
<1>1. ASSUME Look PROVE Screen'
  <2>1. sendForm' \in Form
    BY <1>1, Zenon DEF Look, Navigate, OpenDetail, CloseDetail, Screen
  <2>2. activeTab' \in Tab /\ selectedTx' \in Tx \cup {NoTx}
    BY <1>1 DEF Look, Navigate, OpenDetail, CloseDetail, Screen
  <2> QED
    BY <2>1, <2>2 DEF Screen
<1>2. ASSUME EditField PROVE Screen'
  <2>1. \E form \in Form : sendForm' = form
    BY <1>2 DEF EditField, SetForm, Screen, Form
  <2> QED
    BY <1>2, <2>1, Zenon DEF EditField, Screen, ui
<1>3. ASSUME Announcing PROVE Screen'
  BY <1>3, BlankIsForm, Zenon DEF Announcing, Announce, SetForm, Screen, ui
<1>4. CASE MoveRates \/ ComputeQuote \/ ClickSend \/ ClearToast \/ UNCHANGED vars
  BY <1>4, Zenon DEF MoveRates, ComputeQuote, ClickSend, ClearToast, vars, Screen, ui
<1> QED
  BY <1>1, <1>2, <1>3, <1>4, Zenon DEF Next

LEMMA FlagsStep ==
  ASSUME Flags, [Next]_vars
  PROVE  Flags'
<1>1. \A form : SetForm(form) => stale' \in BOOLEAN
  BY Zenon DEF SetForm, Flags
<1>2. CASE Look \/ ClearToast \/ UNCHANGED vars
  BY <1>2, Zenon DEF Look, Navigate, OpenDetail, CloseDetail, ClearToast, vars, Flags
<1>3. CASE EditField \/ Announcing
  BY <1>1, <1>3, Zenon DEF EditField, Announcing, Announce, Flags
<1>4. CASE MoveRates \/ ComputeQuote \/ ClickSend
  BY <1>4, Zenon DEF MoveRates, ComputeQuote, ClickSend, Flags
<1> QED
  BY <1>2, <1>3, <1>4, Zenon DEF Next

LEMMA CountsStep ==
  ASSUME Counts, Signing, [Next]_vars
  PROVE  Counts'
<1> USE BoundAssumption DEF Counts
<1>1. CASE Look \/ EditField \/ ComputeQuote \/ UNCHANGED vars
  <2>1. UNCHANGED <<fxJitter, clicks, toast, signing, clearing, isSigning>>
    BY <1>1, Zenon DEF Look, Navigate, OpenDetail, CloseDetail, EditField, ComputeQuote, vars
  <2> QED
    BY <2>1
<1>2. CASE MoveRates
  BY <1>2 DEF MoveRates
<1>3. CASE ClickSend
  BY <1>3 DEF ClickSend
<1>4. CASE Announcing
  <2> PICK n \in 1..MaxClicks : Announce(n)
    BY <1>4 DEF Announcing
  <2>1. isSigning /\ signing' \subseteq 1..clicks /\ n \in 1..clicks
    BY DEF Announce, Signing
  <2> QED
    BY <2>1 DEF Announce
<1>5. CASE ClearToast
  BY <1>5 DEF ClearToast
<1> QED
  BY <1>1, <1>2, <1>3, <1>4, <1>5, Zenon DEF Next

\* TypeOK holds of every behaviour; that the time-outs are bounded needs the counting.
THEOREM TypeCorrect == Spec => []TypeOK
<1>1. Init => Screen /\ Flags
  BY BlankIsForm DEF Init, Screen, Flags, Tab
<1>2. Init => Counts
  BY BoundAssumption DEF Init, Counts
<1>3. Screen /\ Flags /\ Counts => TypeOK
  BY BoundAssumption DEF Screen, Flags, Counts, TypeOK
<1> QED
  BY <1>1, <1>2, <1>3, ScreenStep, FlagsStep, CountsStep, SigningInvariant, PTL DEF Spec
=============================================================================
