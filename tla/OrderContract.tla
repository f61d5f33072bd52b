---------------------------- MODULE OrderContract ----------------------------
(***************************************************************************)
(* What the order documents promise to everyone who reads them: an order   *)
(* is decided on only after it was placed under its id, an order with a    *)
(* driver counts as accepted, and neither an acceptance, nor a rejection,  *)
(* nor having a driver is ever undone.  Acceptance and rejection do not    *)
(* exclude each other, and the driver may be replaced by another: the      *)
(* blind updates of the devices promise no more.                           *)
(***************************************************************************)
CONSTANTS Orders, Drivers, NoDriver

VARIABLES
  placed,    \* orders written with their id
  accepted,  \* orders whose status is beyond the first
  rejected,  \* orders with isRejected
  owner      \* [Orders -> driverId]

contractVars == <<placed, accepted, rejected, owner>>

Init ==
  /\ placed = {} /\ accepted = {} /\ rejected = {}
  /\ owner = [o \in Orders |-> NoDriver]

Place(o) ==
  /\ placed' = placed \cup {o}
  /\ UNCHANGED <<accepted, rejected, owner>>

Accept(o) ==
  /\ o \in placed
  /\ accepted' = accepted \cup {o}
  /\ UNCHANGED <<placed, rejected, owner>>

Reject(o) ==
  /\ o \in placed
  /\ rejected' = rejected \cup {o}
  /\ UNCHANGED <<placed, accepted, owner>>

Take(o, d) ==
  /\ o \in placed
  /\ accepted' = accepted \cup {o}
  /\ owner' = [owner EXCEPT ![o] = d]
  /\ UNCHANGED <<placed, rejected>>

Next ==
  \E o \in Orders :
    \/ Place(o)
    \/ Accept(o)
    \/ Reject(o)
    \/ \E d \in Drivers : Take(o, d)

Spec == Init /\ [][Next]_contractVars

=============================================================================
