\* Two payments on a page whose rates move twice.
SPECIFICATION Spec
CONSTANTS
  Currency <- Currencies
  Known <- KnownPairs
  HomeFrom = "KES"
  HomeTo = "TZS"
  Tx = {t1}
  NoTx = notx
  MaxJitter = 2
  MaxClicks = 2
INVARIANTS TypeOK QuoteIsCurrent OneSigningAtATime
PROPERTY PaymentIsAnnounced
