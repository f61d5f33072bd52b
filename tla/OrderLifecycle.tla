--------------------------- MODULE OrderLifecycle ---------------------------
(***************************************************************************)
(* The life of an order: the customer's device (CustomerWait), the         *)
(* farmer's and the drivers' devices (OrderDesk) and the documents they    *)
(* share (OrderStore).  The devices interleave freely; they communicate    *)
(* only through the documents.                                             *)
(***************************************************************************)
EXTENDS CustomerWait, OrderDesk

vars == <<storeVars, waitVars, deskVars>>

Init == StoreInit /\ WaitInit /\ DeskInit

Next ==
  \/ WaitNext /\ UNCHANGED deskVars
  \/ DeskNext /\ UNCHANGED waitVars

(***************************************************************************)
(* Users owe nothing.  A periodic timer keeps firing and a Firestore call  *)
(* returns or throws, so each kind of program step is weakly fair.         *)
(***************************************************************************)
Fairness ==
  /\ WF_vars(Tick /\ UNCHANGED deskVars)
  /\ WF_vars(Expire /\ UNCHANGED deskVars)
  /\ \A o \in Orders :
       /\ WF_vars(PollReadsStatus(o) /\ UNCHANGED deskVars)
       /\ WF_vars(PollConfirms(o) /\ UNCHANGED deskVars)
       /\ WF_vars(PollReadsRejected(o) /\ UNCHANGED deskVars)
       /\ WF_vars(AutoRejectReturns(o) /\ UNCHANGED deskVars)

Spec == Init /\ [][Next]_vars

FairSpec == Spec /\ Fairness

TypeOK == StoreTypeOK /\ WaitTypeOK /\ DeskTypeOK

-----------------------------------------------------------------------------
(***************************************************************************)
(* Safety.                                                                 *)
(***************************************************************************)

(***************************************************************************)
(* An order leaves its first status, and is carried by a driver, only when *)
(* the farmer's acceptance was written before.  The driver's list does not *)
(* ensure it (refreshed from the detail page it holds unaccepted orders    *)
(* too, orders_controller.dart:90); his Accept button, decided on an old   *)
(* copy of the order, has to.  The one way round it is the await in that   *)
(* button: it opens the delivery page of whatever is selected when the     *)
(* update returns (orders_widgets.dart:595).                               *)
(***************************************************************************)
DeliveryNeedsAcceptance ==
  \A o \in Orders :
    (doc[o].status # Placed \/ doc[o].driverId # NoDriver) =>
      log[o].accepted \/ misled[o] # {}

(***************************************************************************)
(* The driverId of an order is that of a driver who tapped Accept on it,   *)
(* or whom a late Accept of another order brought to its delivery page,    *)
(* through every takeover by a second driver, every stale home page and    *)
(* every delivery update, each of which writes the writer's own uid over   *)
(* whoever is there (firebase_helper.dart:1284).                           *)
(***************************************************************************)
DriverTookOrder ==
  \A o \in Orders :
    doc[o].driverId # NoDriver => doc[o].driverId \in log[o].takers \cup misled[o]

(***************************************************************************)
(* An order is rejected only if the farmer tapped Reject on it or the      *)
(* customer watched a full countdown for this very order, although         *)
(* rejectOrder checks nothing and one countdown controller serves, and     *)
(* outlives, several orders.                                               *)
(***************************************************************************)
RejectionHasCause ==
  \A o \in Orders :
    doc[o].isRejected => log[o].refused \/ log[o].ticks = Countdown

(***************************************************************************)
(* An order whose second write (orderID) is missing stays as it was        *)
(* placed: no device can accept, reject, take or time it out.              *)
(***************************************************************************)
IdlessUntouched ==
  \A o \in Orders :
    ~doc[o].hasId => /\ doc[o].status = Placed
                     /\ ~doc[o].isRejected
                     /\ doc[o].driverId = NoDriver

(***************************************************************************)
(* What a poll told the customer is true, however late the poll: the       *)
(* order confirmed was accepted, the order reported rejected is rejected.  *)
(***************************************************************************)
PollVerdictTrue ==
  \A o \in Orders :
    /\ "confirmed" \in told[o] => log[o].accepted
    /\ "rejected" \in told[o] => doc[o].isRejected

(***************************************************************************)
(* The countdown of an order runs exactly as long as its customer has no   *)
(* answer and no rejection is on its way: no countdown expires after an    *)
(* answer, and none stops and leaves its customer waiting.  Overlapping    *)
(* polls answer out of order, and a second countdown page is given the     *)
(* first one's controller (orders_timer_controller.dart:28-81).            *)
(***************************************************************************)
CountdownUntilAnswer ==
  ctl.order # NoOrder =>
    (ctl.on <=> told[ctl.order] = {} /\ ~rejecting[ctl.order])

(***************************************************************************)
(* A customer who is told that his order timed out has watched its full    *)
(* countdown, and the order is rejected, unless a Firestore call failed:   *)
(* the dialog is shown when rejectOrder has swallowed its exception, too   *)
(* (orders_timer_controller.dart:84-94).                                   *)
(***************************************************************************)
TimeoutVerdictTrue ==
  \A o \in Orders :
    "timeout" \in told[o] =>
      log[o].ticks = Countdown /\ (doc[o].isRejected \/ faults > 0)

(***************************************************************************)
(* No countdown runs for a page that is gone (onClose cancels the timer),  *)
(* and a running countdown belongs to an order that exists under its id.   *)
(***************************************************************************)
TimerHasPage ==
  ctl.on => HasTimer(stack) /\ ctl.order \in Orders /\ doc[ctl.order].hasId

(***************************************************************************)
(* The status of an order goes backwards only when a device writes from an *)
(* out-of-date copy: every Accept tap and every delivery tap advances the  *)
(* status that its device had last seen (map_view_widgets.dart:115).       *)
(***************************************************************************)
RegressOnlyFromStaleCopy ==
  [][\A o \in Orders :
       doc'[o].status < doc[o].status =>
         \E u \in Users : /\ pend[u] # <<>>
                          /\ Head(pend[u]).order = o
                          /\ Head(pend[u]).seen # doc[o].status]_vars

-----------------------------------------------------------------------------
(***************************************************************************)
(* The inductive strengthening: what each piece of a device's state says   *)
(* about the documents, although it was copied from them at some earlier   *)
(* time.  Only facts that never become false again survive that delay.     *)
(***************************************************************************)

\* The documents themselves.
DocInv ==
  \A o \in Orders :
    /\ doc[o].hasId => doc[o].exists
    /\ log[o].ticks > 0 => doc[o].hasId
    /\ log[o].accepted => doc[o].status # Placed
    /\ doc[o].status = Accepted => log[o].accepted
    /\ log[o].takers # {} => log[o].accepted

\* The countdown and the polls of the customer's device.
WaitInv ==
  /\ Len(stack) > 0
  /\ checkout.step = "added" =>
       checkout.order \in Orders /\ doc[checkout.order].exists
  /\ checkout.order # NoOrder =>
       /\ doc[checkout.order].exists
       /\ checkout.step = "done" => doc[checkout.order].hasId
       /\ log[checkout.order].ticks = 0
       /\ ctl.order # checkout.order
  /\ ctl.order # NoOrder =>
       /\ doc[ctl.order].hasId
       /\ ctl.remaining + log[ctl.order].ticks = Countdown
  /\ \A o \in Orders :
       /\ rejecting[o] => doc[o].hasId /\ log[o].ticks = Countdown
       /\ polls[o].accepted > 0 => log[o].accepted

\* The list and the detail page of user u.
ListInv(u) ==
  /\ \A o \in Orders : rows[u][o] # NoRow =>
       /\ rows[u][o].hasId => doc[o].hasId
       /\ rows[u][o].status = Accepted => log[o].accepted
  /\ detail[u] \/ selId[u] => sel[u] \in Orders
  /\ selId[u] => doc[sel[u]].hasId
  /\ u \in Drivers /\ detail[u] /\ showAccept[u] => log[sel[u]].accepted

\* An update w that user u has in flight.
WriteInv(u, w) ==
  /\ doc[w.order].hasId
  /\ IF w.kind = "reject"
       THEN log[w.order].refused
       ELSE w.seen < w.status
  /\ w.status = Accepted => u = Farmer
  /\ u \in Drivers => w.kind # "reject" /\ u \in log[w.order].takers \cup misled[w.order]

\* The home page and the delivery page of driver d.
MapInv(d) ==
  /\ map[d] # NoOrder =>
       doc[map[d]].hasId /\ d \in log[map[d]].takers \cup misled[map[d]]
  /\ map[d] = NoOrder => mapRead[d] = "none"
  /\ \A o \in Orders :
       mine[d][o] # NoRow => doc[o].hasId /\ d \in log[o].takers \cup misled[o]

DeskInv ==
  /\ \A u \in Users :
       /\ ListInv(u)
       /\ showReject[u] => u = Farmer
       /\ \A i \in 1 .. Len(pend[u]) : WriteInv(u, pend[u][i])
  /\ \A d \in Drivers : MapInv(d)

IInv ==
  /\ TypeOK
  /\ DocInv
  /\ WaitInv
  /\ DeskInv
  /\ DeliveryNeedsAcceptance
  /\ DriverTookOrder
  /\ IdlessUntouched
  /\ RejectionHasCause
  /\ PollVerdictTrue
  /\ TimerHasPage

\* No countdown has done anything for order o yet.
Unserved(o) == told[o] = {} /\ ~rejecting[o] /\ InFlight(o) = 0

\* Inductive beside IInv: a new countdown finds its order unserved.
AnswerInv ==
  /\ CountdownUntilAnswer
  /\ TimeoutVerdictTrue
  /\ \A o \in Orders : Unserved(o) \/ (doc[o].hasId /\ checkout.order # o)

-----------------------------------------------------------------------------
(***************************************************************************)
(* The order documents keep the contract, whatever the devices do.         *)
(***************************************************************************)
Contract == INSTANCE OrderContract WITH
  placed <- {o \in Orders : doc[o].hasId},
  accepted <- {o \in Orders : doc[o].status # Placed},
  rejected <- {o \in Orders : doc[o].isRejected},
  owner <- [o \in Orders |-> doc[o].driverId]

(***************************************************************************)
(* The devices implement OrderContract: each of their steps places,        *)
(* accepts, rejects or takes at most one order, in an order the contract   *)
(* allows, and undoes nothing.                                             *)
(***************************************************************************)
KeepsContract == Contract!Spec

-----------------------------------------------------------------------------
(***************************************************************************)
(* Liveness.                                                               *)
(***************************************************************************)

(***************************************************************************)
(* A customer who watches the countdown of an order is told its fate,      *)
(* unless the countdown page is closed: polls that read an accepted, a     *)
(* rejected or an already travelling order, failed reads and a failed      *)
(* rejection included.                                                     *)
(***************************************************************************)
AnswerOrLeave ==
  \A o \in Orders :
    (ctl.on /\ ctl.order = o) ~> (told[o] # {} \/ ctl.order # o)

(***************************************************************************)
(* The message that a farmer's or a driver's button sends to the customer  *)
(* ("... has accepted your order (ID: ...)", orders_controller.dart:370)   *)
(* names the order that the button was tapped for.                         *)
(***************************************************************************)
NoticeNamesOrder ==
  [][\A u \in Users :
       (pend[u] # <<>> /\ Head(pend[u]).kind # "deliver" /\ pend'[u] = Tail(pend[u]))
         => NotifiedOrder(u) = Head(pend[u]).order]_vars

(***************************************************************************)
(* The dialog of an expired countdown says the order was rejected "due to  *)
(* no response" (orders_timer_controller.dart:88), so a rejection written  *)
(* by the countdown should find the order unaccepted.                      *)
(***************************************************************************)
TimeoutMeansNoResponse ==
  [][\A o \in Orders :
       (rejecting[o] /\ ~rejecting'[o] /\ doc'[o].isRejected)
         => doc[o].status = Placed]_vars

=============================================================================
