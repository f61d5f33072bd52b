---------------------------- MODULE EventContract ----------------------------
(***************************************************************************)
(* What the events of a farm promise to everyone who reads or books them,  *)
(* whatever copies the devices act on: an event is offered once, after it  *)
(* was posted, and removed for good; a booking counts against an event     *)
(* that is or was offered, is counted before it is written, and is settled *)
(* once.  A booking may still be counted and written after its event was   *)
(* removed, and may be counted and lost: the two writes of a booking and   *)
(* the farmer's writes know nothing of each other.                         *)
(***************************************************************************)
CONSTANTS Events, NoEvent, Bookings

VARIABLES
  posted,   \* events ever written
  offered,  \* events written with their id and not removed
  removed,  \* events deleted, by the farmer or as expired
  counted,  \* [Bookings -> the event the booking was counted against]
  booked,   \* bookings written
  lost      \* bookings counted whose write failed

contractVars == <<posted, offered, removed, counted, booked, lost>>

Init ==
  /\ posted = {} /\ offered = {} /\ removed = {}
  /\ counted = [k \in Bookings |-> NoEvent]
  /\ booked = {} /\ lost = {}

Post(e) ==
  /\ e \notin posted
  /\ posted' = posted \cup {e}
  /\ UNCHANGED <<offered, removed, counted, booked, lost>>

Offer(e) ==
  /\ e \in posted \ (offered \cup removed)
  /\ offered' = offered \cup {e}
  /\ UNCHANGED <<posted, removed, counted, booked, lost>>

Remove(e) ==
  /\ e \in posted \ removed
  /\ removed' = removed \cup {e}
  /\ offered' = offered \ {e}
  /\ UNCHANGED <<posted, counted, booked, lost>>

Count(k, e) ==
  /\ counted[k] = NoEvent
  /\ e \in offered \cup removed
  /\ counted' = [counted EXCEPT ![k] = e]
  /\ UNCHANGED <<posted, offered, removed, booked, lost>>

Pending(k) == counted[k] # NoEvent /\ k \notin booked \cup lost

Book(k) ==
  /\ Pending(k)
  /\ booked' = booked \cup {k}
  /\ UNCHANGED <<posted, offered, removed, counted, lost>>

Lose(k) ==
  /\ Pending(k)
  /\ lost' = lost \cup {k}
  /\ UNCHANGED <<posted, offered, removed, counted, booked>>

Next ==
  \/ \E e \in Events : Post(e) \/ Offer(e) \/ Remove(e)
  \/ \E k \in Bookings :
       \/ \E e \in Events : Count(k, e)
       \/ Book(k)
       \/ Lose(k)

Spec == Init /\ [][Next]_contractVars

=============================================================================
