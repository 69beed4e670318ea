---------------------------- MODULE EventDelivery ----------------------------
(***************************************************************************)
(* What the event publisher of Geodesy-Web-Services promises, without its  *)
(* threads, columns and transactions.                                      *)
(*                                                                         *)
(* A delivery is one (event, subscriber) pair: the publisher stores a row  *)
(* of DOMAIN_EVENT for each.  A delivery is announced by a committed       *)
(* transaction, claimed once by the event loop, its handler is called at   *)
(* most once, and it ends done or failed, or stays where a crash left it.  *)
(* Nothing ever goes back: there is no second claim and no second call.    *)
(***************************************************************************)
EXTENDS Naturals

CONSTANT Rows    \* the deliveries

VARIABLES
    status,      \* where each delivery has got to
    calls        \* how often the subscriber's handler has been called for it

deliveryVars == <<status, calls>>

Status == {"absent", "pending", "claimed", "done", "failed"}

Init ==
    /\ status = [r \in Rows |-> "absent"]
    /\ calls = [r \in Rows |-> 0]

\* Delivery r goes from one status to another.
Goes(r, old, new) == status[r] = old /\ status'[r] = new

\* Each delivery of S stays as it is or is announced.
Announced(S) ==
    \A r \in S : status'[r] = status[r] \/ Goes(r, "absent", "pending")

\* A transaction that publishes an event commits.
Announce ==
    /\ Announced(Rows)
    /\ UNCHANGED calls

\* The loop takes the delivery for itself, durably.
Claim(r) ==
    /\ Goes(r, "pending", "claimed")
    /\ \A x \in Rows \ {r} : status'[x] = status[x]
    /\ UNCHANGED calls

\* The one call of the handler, before its outcome is known.
Call(r) ==
    /\ status[r] = "claimed"
    /\ calls[r] = 0
    /\ calls' = [calls EXCEPT ![r] = 1]
    /\ UNCHANGED status

\* The handler's work commits, together with the events it published.
Complete(r) ==
    /\ calls[r] = 1
    /\ Goes(r, "claimed", "done")
    /\ Announced(Rows \ {r})
    /\ UNCHANGED calls

\* The handler's failure is recorded.
Fail(r) ==
    /\ calls[r] = 1
    /\ Goes(r, "claimed", "failed")
    /\ \A x \in Rows \ {r} : status'[x] = status[x]
    /\ UNCHANGED calls

Next ==
    /\ status' \in [Rows -> Status]
    /\ \/ Announce
       \/ \E r \in Rows : Claim(r) \/ Call(r) \/ Complete(r) \/ Fail(r)

Spec == Init /\ [][Next]_deliveryVars

TypeOK ==
    /\ status \in [Rows -> Status]
    /\ calls \in [Rows -> 0..1]

==============================================================================
