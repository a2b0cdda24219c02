--------------------------- MODULE RelayedTransfer ---------------------------
(***************************************************************************)
(* What the backend promises a client about one transfer it relays, with   *)
(* no process, nonces, pool or receipts.  A request is answered once.  An  *)
(* accepted one is paid at most once, and not before the client can see it *)
(* as broadcasting.  The status the client polls goes forward; it says     *)
(* confirmed only of a payment made, and failed only of one that will not  *)
(* be, unless a query or a call failed under it and the backend may be in  *)
(* doubt.  TransferService implements this specification (see Relay in     *)
(* TransferService.tla).                                                   *)
(***************************************************************************)
EXTENDS Naturals

CONSTANT Request

VARIABLES answer,    \* the HTTP answer
          status,    \* what the client sees, "absent" before anything is stored
          payments,  \* payments[r]: how often the contract has paid r
          doubted    \* requests under which a query or a call failed

vars == <<answer, status, payments, doubted>>

Init ==
  /\ answer = [r \in Request |-> "none"]
  /\ status = [r \in Request |-> "absent"]
  /\ payments = [r \in Request |-> 0]
  /\ doubted = {}

Answer(r, what) == answer[r] = "none" /\ answer' = [answer EXCEPT ![r] = what]

Show(r, value) == status' = [status EXCEPT ![r] = value]

Doubt(r) == doubted' = doubted \cup {r}

Refuse(r) ==
  /\ Answer(r, "refused")
  /\ status[r] = "absent"
  /\ UNCHANGED <<status, payments, doubted>>

\* What is stored is not promised yet: no answer may ever come.
Store(r) ==
  /\ answer[r] = "none"
  /\ status[r] = "absent" /\ Show(r, "signing")
  /\ UNCHANGED <<answer, payments, doubted>>

Accept(r) ==
  /\ Answer(r, "accepted")
  /\ status[r] = "signing"
  /\ UNCHANGED <<status, payments, doubted>>

\* Something may have been stored all the same; it is never relayed.
Error(r) == Answer(r, "error") /\ Doubt(r) /\ UNCHANGED <<status, payments>>

\* The contract pays, perhaps before the backend knows that it was asked to.
Settle(r) ==
  /\ answer[r] = "accepted"
  /\ payments[r] = 0
  /\ \/ status[r] \in {"broadcasting", "pending_chain"}
     \/ status[r] = "failed" /\ r \in doubted
  /\ payments' = [payments EXCEPT ![r] = 1]
  /\ UNCHANGED <<answer, status, doubted>>

\* The status moves; the update that moves it may report an error.
Move(r, from, to) ==
  /\ answer[r] = "accepted"
  /\ status[r] \in from /\ Show(r, to)
  /\ UNCHANGED doubted \/ Doubt(r)
  /\ UNCHANGED <<answer, payments>>

Progress(r) == Move(r, {"signing"}, "broadcasting") \/ Move(r, {"broadcasting"}, "pending_chain")

Confirm(r) == payments[r] = 1 /\ Move(r, {"pending_chain"}, "confirmed")

\* A confirmed transfer is paid: only in doubt does it end as failed.
Fail(r) ==
  /\ Move(r, {"broadcasting", "pending_chain", "confirmed"}, "failed")
  /\ payments[r] = 0 \/ r \in doubted'

\* A query or a call fails, and the client sees nothing of it.
Falter(r) == answer[r] = "accepted" /\ Doubt(r) /\ UNCHANGED <<answer, status, payments>>

Next ==
  \E r \in Request :
    \/ Refuse(r) \/ Store(r) \/ Accept(r) \/ Error(r) \/ Settle(r)
    \/ Progress(r) \/ Confirm(r) \/ Fail(r) \/ Falter(r)

Spec == Init /\ [][Next]_vars
=============================================================================
