---------------------------- MODULE AtomicUpdate ----------------------------
(***************************************************************************)
(* What the executable-update engine promises its users, with no files, no *)
(* phases and no locks: at most one update is on offer, it can be          *)
(* withdrawn until it is approved, and only an approved one is installed,  *)
(* in one step.  An approved update is given up only if its payload was    *)
(* lost.                                                                   *)
(***************************************************************************)
EXTENDS Naturals

CONSTANT MaxVersion

Versions == 0 .. MaxVersion

Payloads == {"present", "lost"}

NoOffer == [version |-> 0, state |-> "none", payload |-> "lost"]

VARIABLES
  installed,    \* the version the stable path executes
  offer         \* the update on offer: its version, state and payload

vars == <<installed, offer>>

Init ==
  /\ installed \in Versions
  /\ offer = NoOffer

Offer(v) ==
  /\ offer = NoOffer
  /\ v # installed
  /\ \E payload \in Payloads :      \* deleted by somebody else before the offer
       offer' = [version |-> v, state |-> "offered", payload |-> payload]
  /\ UNCHANGED installed

LosePayload ==
  /\ offer.payload = "present"
  /\ offer' = [offer EXCEPT !.payload = "lost"]
  /\ UNCHANGED installed

Withdraw ==
  /\ offer.state = "offered"
  /\ offer.payload = "lost"
  /\ offer' = NoOffer
  /\ UNCHANGED installed

(* The files are checked before the approval is written, so a payload lost  *)
(* in between does not stop the approval.                                   *)
Approve ==
  /\ offer.state = "offered"
  /\ offer' = [offer EXCEPT !.state = "approved"]
  /\ UNCHANGED installed

Install ==
  /\ offer.state = "approved"
  /\ offer.payload = "present"
  /\ installed' = offer.version
  /\ offer' = NoOffer

GiveUp ==
  /\ offer.state = "approved"
  /\ offer.payload = "lost"
  /\ offer' = NoOffer
  /\ UNCHANGED installed

Next ==
  \/ \E v \in Versions : Offer(v)
  \/ LosePayload \/ Withdraw \/ Approve \/ Install \/ GiveUp

Spec == Init /\ [][Next]_vars
=============================================================================
