----------------------------- MODULE WalletApp -----------------------------
(***************************************************************************)
(* The customer's wallet page (src/EAC/EACPay_Wallet.jsx): the form that   *)
(* sends money, the quote an effect computes from it and from the moving   *)
(* rates, the simulated signing and the toast that announces a payment.    *)
(* Events of the user, timers and effects interleave.                      *)
(*                                                                         *)
(* The payment itself is mocked: the page calls neither the backend nor a  *)
(* contract.                                                               *)
(***************************************************************************)
EXTENDS Naturals, FiniteSets

CONSTANTS
  Currency,
  Known,       \* the pairs of currencies FX_RATES has a rate for
  HomeFrom,    \* the currencies of a blank form
  HomeTo,
  Tx,          \* the listed transactions
  NoTx,
  MaxJitter,   \* bound: how often the rates move
  MaxClicks    \* bound: how many payments are initiated

ASSUME CurrencyAssumption ==
  /\ Known \subseteq Currency \X Currency
  /\ HomeFrom \in Currency /\ HomeTo \in Currency
ASSUME BoundAssumption == MaxJitter \in Nat /\ MaxClicks \in Nat /\ NoTx \notin Tx

Tab == {"overview", "send", "transactions", "fx", "security"}

\* What the amount field may hold: nothing, nothing positive, or an amount.
Amount == {"", "0", "50", "200"}
Positive == {"50", "200"}

\* The fields of the form; name and narration are free text nothing depends on.
Form == [recipient : BOOLEAN, bank : BOOLEAN, amount : Amount, from : Currency, to : Currency]

BlankForm == [recipient |-> FALSE, bank |-> FALSE, amount |-> "", from |-> HomeFrom, to |-> HomeTo]

VARIABLES
  activeTab, sendForm,
  quote,       \* null ({}) or the one quote on display
  isSigning,
  toast,       \* null (0) or the number of the payment it announces
  selectedTx,
  fxJitter,    \* how often the rates have moved
  stale,       \* a dependency of the quote's effect changed since it last ran
  clicks,      \* payments initiated
  signing,     \* of those, the ones whose handler waits for the signature
  clearing     \* time-outs that will clear the toast

ui == <<activeTab, selectedTx>>
vars == <<ui, sendForm, quote, isSigning, toast, fxJitter, stale, clicks, signing, clearing>>

\* The rates of a pair once the rates have moved v times: none or one.
Rate(s, d, v) ==
  IF s = d THEN {[key |-> <<s, d>>, inverse |-> FALSE, version |-> 0]}
  ELSE IF <<s, d>> \in Known THEN {[key |-> <<s, d>>, inverse |-> FALSE, version |-> v]}
  ELSE IF <<d, s>> \in Known THEN {[key |-> <<d, s>>, inverse |-> TRUE, version |-> v]}
  ELSE {}

\* Fee and amount received follow from the amount and the rate.
QuoteFor(form, v) ==
  {[rate |-> r, amount |-> form.amount, destCurrency |-> form.to] :
     r \in {x \in Rate(form.from, form.to, v) : form.amount \in Positive}}

Init ==
  /\ activeTab = "overview" /\ selectedTx = NoTx
  /\ sendForm = BlankForm
  /\ quote = {} /\ isSigning = FALSE /\ toast = 0
  /\ fxJitter = 0 /\ stale = FALSE
  /\ clicks = 0 /\ signing = {} /\ clearing = 0

-----------------------------------------------------------------------------
(* The user looks around.                                                  *)

Navigate(t) ==
  /\ activeTab' = t
  /\ UNCHANGED <<selectedTx, sendForm, quote, isSigning, toast, fxJitter, stale, clicks, signing, clearing>>

\* A row of the recent or of all transactions.
OpenDetail(tx) ==
  /\ activeTab \in {"overview", "transactions"}
  /\ selectedTx' = tx
  /\ UNCHANGED <<activeTab, sendForm, quote, isSigning, toast, fxJitter, stale, clicks, signing, clearing>>

CloseDetail ==
  /\ selectedTx # NoTx /\ selectedTx' = NoTx
  /\ UNCHANGED <<activeTab, sendForm, quote, isSigning, toast, fxJitter, stale, clicks, signing, clearing>>

-----------------------------------------------------------------------------
(* The form and its quote.                                                 *)

\* Mutant: the effect does not depend on the currency received.
AffectsQuoteNotTo(f, g) == f.amount # g.amount \/ f.from # g.from

\* The dependencies of the effect in the form.
AffectsQuote(f, g) == f.amount # g.amount \/ f.from # g.from \/ f.to # g.to

SetForm(form) ==
  /\ sendForm' = form
  /\ stale' = (stale \/ AffectsQuote(sendForm, form))

\* One field changes; the list of destinations leaves the source out.
EditField ==
  /\ activeTab = "send"
  /\ \/ \E b \in BOOLEAN : SetForm([sendForm EXCEPT !.recipient = b])
     \/ \E b \in BOOLEAN : SetForm([sendForm EXCEPT !.bank = b])
     \/ \E a \in Amount : SetForm([sendForm EXCEPT !.amount = a])
     \/ \E c \in Currency : SetForm([sendForm EXCEPT !.from = c])
     \/ \E c \in Currency \ {sendForm.from} : SetForm([sendForm EXCEPT !.to = c])
  /\ UNCHANGED <<ui, quote, isSigning, toast, fxJitter, clicks, signing, clearing>>

\* Every four seconds.
MoveRates ==
  /\ fxJitter < MaxJitter
  /\ fxJitter' = fxJitter + 1 /\ stale' = TRUE
  /\ UNCHANGED <<ui, sendForm, quote, isSigning, toast, clicks, signing, clearing>>

\* React runs the effect some time after the change.
ComputeQuote ==
  /\ stale /\ stale' = FALSE
  /\ quote' = QuoteFor(sendForm, fxJitter)
  /\ UNCHANGED <<ui, sendForm, isSigning, toast, fxJitter, clicks, signing, clearing>>

-----------------------------------------------------------------------------
(* Sending.                                                                *)

\* Mutant: the button stays enabled while a payment is being signed.
ButtonAlwaysEnabled == sendForm.amount # "" /\ sendForm.recipient /\ sendForm.bank

ButtonEnabled == sendForm.amount # "" /\ sendForm.recipient /\ sendForm.bank /\ ~isSigning

\* Without a quote the handler returns at once, and says nothing.
ClickSend ==
  /\ activeTab = "send" /\ ButtonEnabled /\ clicks < MaxClicks
  /\ quote # {}
  /\ clicks' = clicks + 1 /\ signing' = signing \cup {clicks + 1}
  /\ isSigning' = TRUE
  /\ UNCHANGED <<ui, sendForm, quote, toast, fxJitter, stale, clearing>>

\* Mutant: the payment is announced only where the form still shows.
AnnounceOnSendTab(n) ==
  /\ n \in signing /\ signing' = signing \ {n}
  /\ isSigning' = FALSE
  /\ IF activeTab = "send" THEN toast' = n /\ clearing' = clearing + 1 ELSE UNCHANGED <<toast, clearing>>
  /\ SetForm(BlankForm) /\ quote' = {}
  /\ UNCHANGED <<ui, fxJitter, clicks>>

\* Mutant: the form is cleared and its currencies with it.
AnnounceAndForgetCurrencies(n) ==
  /\ n \in signing /\ signing' = signing \ {n}
  /\ isSigning' = FALSE
  /\ toast' = n /\ clearing' = clearing + 1
  /\ SetForm([BlankForm EXCEPT !.from = "", !.to = ""]) /\ quote' = {}
  /\ UNCHANGED <<ui, fxJitter, clicks>>

\* The rest of the handler, 1.8 s later: whatever was typed meanwhile is gone.
Announce(n) ==
  /\ n \in signing /\ signing' = signing \ {n}
  /\ isSigning' = FALSE
  /\ toast' = n /\ clearing' = clearing + 1
  /\ SetForm(BlankForm) /\ quote' = {}
  /\ UNCHANGED <<ui, fxJitter, clicks>>

\* Five seconds after any toast, whichever is shown now.
ClearToast ==
  /\ clearing > 0 /\ clearing' = clearing - 1
  /\ toast' = 0
  /\ UNCHANGED <<ui, sendForm, quote, isSigning, fxJitter, stale, clicks, signing>>

-----------------------------------------------------------------------------
Look ==
  \/ \E t \in Tab : Navigate(t)
  \/ \E tx \in Tx : OpenDetail(tx)
  \/ CloseDetail

Announcing == \E n \in 1..MaxClicks : Announce(n)

Next ==
  \/ Look
  \/ EditField \/ MoveRates \/ ComputeQuote
  \/ ClickSend \/ Announcing \/ ClearToast

\* The browser runs its timers; nothing is assumed of the user.
Spec == Init /\ [][Next]_vars /\ WF_vars(Announcing) /\ WF_vars(ClearToast)

-----------------------------------------------------------------------------
(***************************************************************************)
(* Properties.                                                             *)
(***************************************************************************)

\* Every variable holds values of its declared kind.
TypeOK ==
  /\ activeTab \in Tab /\ selectedTx \in Tx \cup {NoTx}
  /\ sendForm \in Form
  /\ isSigning \in BOOLEAN /\ stale \in BOOLEAN
  /\ fxJitter \in 0..MaxJitter /\ clicks \in 0..MaxClicks
  /\ toast \in 0..clicks /\ signing \subseteq 1..clicks
  /\ clearing \in 0..MaxClicks

\* Once React has run the effect, the quote on display is that of the form on
\* display at the current rates, whichever of the user's edits, the moving rates
\* and the end of a payment came last.
QuoteIsCurrent == ~stale => quote = QuoteFor(sendForm, fxJitter)

\* The button guards the handler: one payment is being signed at a time, and the
\* page says so for as long as it is.
OneSigningAtATime == Cardinality(signing) = IF isSigning THEN 1 ELSE 0

\* A payment that was initiated is announced, wherever the user went meanwhile.
PaymentIsAnnounced == \A n \in 1..MaxClicks : n \in signing ~> toast = n
=============================================================================
