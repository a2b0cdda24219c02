-------------------------- MODULE PaymentLifecycle --------------------------
(***************************************************************************)
(* What the settlement contract promises the banks about one payment,      *)
(* without roles, signatures, pausing or counters: a payment is opened     *)
(* once with a due time in the future, and leaves the open phase at most   *)
(* once.  It settles no later than its due time, lapses only after it, and *)
(* may be cancelled at any time while it is open.  EACSettlement implements*)
(* this specification (see Lifecycle in EACSettlement.tla).                *)
(***************************************************************************)
EXTENDS Naturals

CONSTANT TxId

VARIABLES phase,   \* phase[t]: where the payment is in its life
          due,     \* due[t]: the last time at which it may still settle
          clock    \* block time

Phase == {"none", "open", "settled", "cancelled", "lapsed"}

Init ==
  /\ phase = [t \in TxId |-> "none"]
  /\ due = [t \in TxId |-> 0]
  /\ clock \in Nat

Open(t) ==
  /\ phase[t] = "none"
  /\ due' \in [TxId -> Nat]
  /\ due'[t] > clock
  /\ \A u \in TxId \ {t} : due'[u] = due[u]
  /\ phase' = [phase EXCEPT ![t] = "open"]
  /\ UNCHANGED clock

Leave(t, to) ==
  /\ phase[t] = "open"
  /\ phase' = [phase EXCEPT ![t] = to]
  /\ UNCHANGED <<due, clock>>

Settle(t) == clock <= due[t] /\ Leave(t, "settled")

Cancel(t) == Leave(t, "cancelled")

Lapse(t) == clock > due[t] /\ Leave(t, "lapsed")

Advance == /\ clock' \in Nat
           /\ clock' > clock
           /\ UNCHANGED <<phase, due>>

Next ==
  \/ \E t \in TxId : Open(t) \/ Settle(t) \/ Cancel(t) \/ Lapse(t)
  \/ Advance

Spec == Init /\ [][Next]_<<phase, due, clock>>
=============================================================================
