---------------------------- MODULE CustomerWait ----------------------------
(***************************************************************************)
(* The customer's device from the moment the order is written to the       *)
(* moment its fate is shown: FirebaseHelper.placeOrder, the countdown page *)
(* and OrdersTimerController.                                              *)
(*                                                                         *)
(* Each tick of the countdown starts a poll without awaiting it, so        *)
(* several polls overlap; a poll reads the order twice, the status first   *)
(* and the rejection flag after it.  GetX keeps one OrdersTimerController  *)
(* for as long as a countdown page is on the navigation stack; a second    *)
(* countdown page is given the first one's controller.                     *)
(***************************************************************************)
EXTENDS OrderStore

CONSTANTS
  Countdown,  \* countdownSeconds
  MaxPolls    \* bound on the polls of one order in flight

ASSUME WaitAssumption ==
  /\ Countdown \in Nat
  /\ MaxPolls \in Nat \ {0}

VARIABLES
  checkout,   \* [step, order]: the placeOrder call under way
  stack,      \* navigation stack; "home" is the dashboard and what it opens
  ctl,        \* [order, remaining, on]: OrdersTimerController
  polls,      \* [Orders -> polls in flight, by what they have read]
  rejecting,  \* [Orders -> BOOLEAN], _autoRejectOrder awaits its update
  told        \* [Orders -> what dialogs told the customer], history

waitVars == <<checkout, stack, ctl, polls, rejecting, told>>

Pages == {"home", "timer", "track"}
Verdicts == {"confirmed", "rejected", "timeout"}
OrderId == Orders \cup {NoOrder}

\* started: awaiting the status; other, accepted: the status is read (it was
\* Accepted or it was not) and the rejection flag is awaited.
PollCount == [started : Nat, other : Nat, accepted : Nat]

InFlight(o) == polls[o].started + polls[o].other + polls[o].accepted

WaitTypeOK ==
  /\ checkout \in [step : {"idle", "added", "done"}, order : OrderId]
  /\ stack \in Seq(Pages)
  /\ ctl \in [order : OrderId, remaining : 0 .. Countdown, on : BOOLEAN]
  /\ polls \in [Orders -> PollCount]
  /\ rejecting \in [Orders -> BOOLEAN]
  /\ told \in [Orders -> SUBSET Verdicts]

Idle == [step |-> "idle", order |-> NoOrder]
NoController == [order |-> NoOrder, remaining |-> Countdown, on |-> FALSE]

WaitInit ==
  /\ checkout = Idle
  /\ stack = <<"home">>
  /\ ctl = NoController
  /\ polls = [o \in Orders |-> [started |-> 0, other |-> 0, accepted |-> 0]]
  /\ rejecting = [o \in Orders |-> FALSE]
  /\ told = [o \in Orders |-> {}]

-----------------------------------------------------------------------------
(***************************************************************************)
(* Navigation (GetX).                                                      *)
(***************************************************************************)
Top == stack[Len(stack)]

\* Get.toNamed: the page that is already on top is not pushed again.
Push(page) == IF Top = page THEN stack ELSE Append(stack, page)

\* Get.back n times; the last page is never popped.
Pop(n) == SubSeq(stack, 1, IF Len(stack) > n THEN Len(stack) - n ELSE 1)

HasTimer(s) == \E i \in 1 .. Len(s) : s[i] = "timer"

\* Mutant of ShowStack: onClose forgets timer?.cancel().
ShowStackKeepsTimer(s) ==
  /\ stack' = s
  /\ ctl' = ctl

\* The stack becomes s; onClose cancels the timer when the countdown page goes.
ShowStack(s) ==
  /\ stack' = s
  /\ ctl' = IF HasTimer(s) THEN ctl ELSE NoController

-----------------------------------------------------------------------------
(***************************************************************************)
(* Placing an order.  placeOrder returns the id, or '' when either of its  *)
(* two writes fails.                                                       *)
(***************************************************************************)
PlaceOrder(o) ==
  /\ checkout.step = "idle"
  /\ Top = "home"
  /\ ~doc[o].exists
  /\ \/ /\ Succeeds
        /\ AddOrder(o)
        /\ checkout' = [step |-> "added", order |-> o]
     \/ /\ Fails
        /\ UNCHANGED doc
        /\ checkout' = [step |-> "done", order |-> NoOrder]
  /\ UNCHANGED <<log, stack, ctl, polls, rejecting, told>>

\* Mutant of PlaceOrderSetsID: the id is returned although its write failed.
PlaceOrderReturnsIDAnyway ==
  /\ checkout.step = "added"
  /\ \/ Succeeds /\ SetOrderID(checkout.order)
     \/ Fails /\ UNCHANGED doc
  /\ checkout' = [checkout EXCEPT !.step = "done"]
  /\ UNCHANGED <<log, stack, ctl, polls, rejecting, told>>

PlaceOrderSetsID ==
  /\ checkout.step = "added"
  /\ \/ /\ Succeeds
        /\ SetOrderID(checkout.order)
        /\ checkout' = [checkout EXCEPT !.step = "done"]
     \/ /\ Fails
        /\ UNCHANGED doc
        /\ checkout' = [step |-> "done", order |-> NoOrder]
  /\ UNCHANGED <<log, stack, ctl, polls, rejecting, told>>

\* Mutant of TimerController: a reused controller takes the new id over and
\* restarts its timer, but the seconds left are not reset.
TimerControllerNoReset(id) ==
  IF HasTimer(stack)
    THEN [ctl EXCEPT !.order = id, !.on = id # NoOrder]
    ELSE [order |-> id, remaining |-> Countdown, on |-> id # NoOrder]

\* Get.put(OrdersTimerController()): the controller of a countdown page for id.
\* onInit and startTimer run only when there is no controller yet; without an
\* id no timer is started.
TimerController(id) ==
  IF HasTimer(stack)
    THEN ctl
    ELSE [order |-> id, remaining |-> Countdown, on |-> id # NoOrder]

\* placeOrder of the cart, last statement: the countdown page opens.
OpenTimer ==
  /\ checkout.step = "done"
  /\ checkout' = Idle
  /\ stack' = Push("timer")
  /\ ctl' = TimerController(checkout.order)
  /\ UNCHANGED <<polls, rejecting, told, storeVars>>

-----------------------------------------------------------------------------
(***************************************************************************)
(* The countdown.                                                          *)
(***************************************************************************)

\* Mutant of Tick: `< 0' for `<= 0', one tick too many.
TickPastZero ==
  /\ ctl.on
  /\ InFlight(ctl.order) < MaxPolls
  /\ ctl' = [ctl EXCEPT !.remaining = @ - 1]
  /\ polls' = [polls EXCEPT ![ctl.order].started = @ + 1]
  /\ log' = [log EXCEPT ![ctl.order].ticks = @ + 1]
  /\ UNCHANGED <<checkout, stack, rejecting, told, doc, faults>>

\* The periodic callback while time is left.
Tick ==
  /\ ctl.on
  /\ ctl.remaining > 0
  /\ InFlight(ctl.order) < MaxPolls
  /\ ctl' = [ctl EXCEPT !.remaining = @ - 1]
  /\ polls' = [polls EXCEPT ![ctl.order].started = @ + 1]
  /\ log' = [log EXCEPT ![ctl.order].ticks = @ + 1]
  /\ UNCHANGED <<checkout, stack, rejecting, told, doc, faults>>

\* The periodic callback when no time is left: cancel, _autoRejectOrder.
Expire ==
  /\ ctl.on
  /\ ctl.remaining <= 0
  /\ ctl' = [ctl EXCEPT !.on = FALSE]
  /\ rejecting' = [rejecting EXCEPT ![ctl.order] = TRUE]
  /\ UNCHANGED <<checkout, stack, polls, told, storeVars>>

\* One poll of p has read the status, which was Accepted or was not.
StatusRead(p, isAccepted) ==
  [started |-> p.started - 1,
   other |-> IF isAccepted THEN p.other ELSE p.other + 1,
   accepted |-> IF isAccepted THEN p.accepted + 1 ELSE p.accepted]

\* _checkOrderStatus, first read; a failed read yields the empty status.
PollReadsStatus(o) ==
  /\ polls[o].started > 0
  /\ \E isAccepted \in BOOLEAN :
       /\ \/ Succeeds /\ isAccepted = (doc[o].status = Accepted)
          \/ Fails /\ isAccepted = FALSE
       /\ polls' = [polls EXCEPT ![o] = StatusRead(@, isAccepted)]
  /\ UNCHANGED <<checkout, stack, ctl, rejecting, told, doc, log>>

\* Mutant of Tell: the timer is not cancelled.
TellKeepsTimer(o, verdict, page) ==
  /\ told' = [told EXCEPT ![o] = @ \cup {verdict}]
  /\ ctl' = ctl
  /\ stack' = Push(page)

\* A dialog tells the verdict on o, the timer of o is cancelled, a page opens.
Tell(o, verdict, page) ==
  /\ told' = [told EXCEPT ![o] = @ \cup {verdict}]
  /\ ctl' = IF ctl.order = o THEN [ctl EXCEPT !.on = FALSE] ELSE ctl
  /\ stack' = Push(page)

\* _checkOrderStatus after the second read, when the first one was Accepted.
PollConfirms(o) ==
  /\ polls[o].accepted > 0
  /\ polls' = [polls EXCEPT ![o].accepted = @ - 1]
  /\ Tell(o, "confirmed", "track")
  /\ UNCHANGED <<checkout, rejecting, storeVars>>

\* Mutant of PollReadsRejected: a failed read counts as a rejection.
PollFailureRejects(o) ==
  /\ polls[o].other > 0
  /\ polls' = [polls EXCEPT ![o].other = @ - 1]
  /\ \/ Succeeds /\ doc[o].isRejected /\ Tell(o, "rejected", "home")
     \/ Fails /\ Tell(o, "rejected", "home")
     \/ Succeeds /\ ~doc[o].isRejected /\ UNCHANGED <<stack, ctl, told>>
  /\ UNCHANGED <<checkout, rejecting, doc, log>>

\* _checkOrderStatus after the second read otherwise; a failed read is FALSE.
PollReadsRejected(o) ==
  /\ polls[o].other > 0
  /\ polls' = [polls EXCEPT ![o].other = @ - 1]
  /\ \/ Succeeds /\ doc[o].isRejected /\ Tell(o, "rejected", "home")
     \/ /\ Succeeds /\ ~doc[o].isRejected
        /\ UNCHANGED <<stack, ctl, told>>
     \/ Fails /\ UNCHANGED <<stack, ctl, told>>
  /\ UNCHANGED <<checkout, rejecting, doc, log>>

\* Mutant of AutoRejectReturns: an exception skips the dialog and the page.
AutoRejectGivesUp(o) ==
  /\ rejecting[o]
  /\ rejecting' = [rejecting EXCEPT ![o] = FALSE]
  /\ \/ Succeeds /\ RejectOrder(o) /\ Tell(o, "timeout", "home")
     \/ Fails /\ UNCHANGED <<doc, told, ctl, stack>>
  /\ UNCHANGED <<checkout, polls, log>>

\* Mutant of AutoRejectReturns: an order accepted meanwhile is not rejected,
\* but the dialog is shown all the same.
AutoRejectSparesAccepted(o) ==
  /\ rejecting[o]
  /\ rejecting' = [rejecting EXCEPT ![o] = FALSE]
  /\ \/ /\ Succeeds
        /\ IF doc[o].status = Placed THEN RejectOrder(o) ELSE UNCHANGED doc
     \/ Fails /\ UNCHANGED doc
  /\ Tell(o, "timeout", "home")
  /\ UNCHANGED <<checkout, polls, log>>

\* _autoRejectOrder after its await: the dialog is shown either way.
AutoRejectReturns(o) ==
  /\ rejecting[o]
  /\ rejecting' = [rejecting EXCEPT ![o] = FALSE]
  /\ \/ Succeeds /\ RejectOrder(o)
     \/ Fails /\ UNCHANGED doc
  /\ Tell(o, "timeout", "home")
  /\ UNCHANGED <<checkout, polls, log>>

-----------------------------------------------------------------------------
(***************************************************************************)
(* The customer leaves a page.                                             *)
(***************************************************************************)

\* The arrow of the countdown page: Get.offAllNamed(dashBoard).
LeaveTimer ==
  /\ Top = "timer"
  /\ ShowStack(<<"home">>)
  /\ UNCHANGED <<checkout, polls, rejecting, told, storeVars>>

\* The device's back button; the dashboard ignores it.
Back ==
  /\ Top # "home"
  /\ ShowStack(Pop(1))
  /\ UNCHANGED <<checkout, polls, rejecting, told, storeVars>>

\* The button of the tracking page: Get.back twice.
LeaveTrack ==
  /\ Top = "track"
  /\ ShowStack(Pop(2))
  /\ UNCHANGED <<checkout, polls, rejecting, told, storeVars>>

\* What the program does by itself: timers fire, Firestore calls return.
WaitProgram ==
  \/ PlaceOrderSetsID
  \/ OpenTimer
  \/ Tick
  \/ Expire
  \/ \E o \in Orders :
       \/ PollReadsStatus(o)
       \/ PollConfirms(o)
       \/ PollReadsRejected(o)
       \/ AutoRejectReturns(o)

\* What the customer does.
WaitUser ==
  \/ \E o \in Orders : PlaceOrder(o)
  \/ LeaveTimer
  \/ Back
  \/ LeaveTrack

WaitNext == WaitProgram \/ WaitUser

=============================================================================
