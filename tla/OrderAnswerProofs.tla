------------------------- MODULE OrderAnswerProofs -------------------------
(***************************************************************************)
(* Proofs about the answer the customer gets: how long the countdown of an *)
(* order runs, and what it means to be told that it has run out.           *)
(***************************************************************************)
EXTENDS OrderLifecycleProofs

(***************************************************************************)
(* AnswerInv in parts, so that a step is charged only with what it         *)
(* disturbs.                                                               *)
(***************************************************************************)
FreshOrServed == \A o \in Orders : Unserved(o) \/ (doc[o].hasId /\ checkout.order # o)

LEMMA AnswerInvParts ==
  AnswerInv <=> CountdownUntilAnswer /\ TimeoutVerdictTrue /\ FreshOrServed
  BY DEF AnswerInv, FreshOrServed

\* No failed call is forgotten.
FaultsGrow == faults > 0 => faults' > 0

LEMMA CallsCount ==
  ASSUME StoreTypeOK, Succeeds \/ Fails
  PROVE  FaultsGrow
  BY DEF StoreTypeOK, Succeeds, Fails, FaultsGrow

LEMMA StepCounts ==
  ASSUME StoreTypeOK, Next
  PROVE  FaultsGrow
<1>1. CASE UNCHANGED faults
  BY <1>1 DEF FaultsGrow
<1>2. UNCHANGED faults \/ Succeeds \/ Fails
  <2>1. CASE WaitNext
    BY <2>1 DEF WaitNext, WaitProgram, WaitUser, PlaceOrder, PlaceOrderSetsID,
       OpenTimer, Tick, Expire, PollReadsStatus, PollConfirms, PollReadsRejected,
       AutoRejectReturns, LeaveTimer, Back, LeaveTrack, storeVars
  <2>2. CASE DeskNext
    BY <2>2 DEF DeskNext, GetOrders, GetOrdersListReturns, NavigateToDetailsPage,
       BackToList, TapAccept, TapReject, ButtonReturns, RefreshHome,
       HomeFetchReturns, OpenMap, MapReadReturns, TapStatus, StatusReturns, CloseMap,
       storeVars
  <2> QED BY <2>1, <2>2 DEF Next
<1> QED BY <1>1, <1>2, CallsCount

(***************************************************************************)
(* A verdict that was true stays true: a countdown that has run its course *)
(* ticks no more, and a rejection is not taken back.                       *)
(***************************************************************************)
Lasting ==
  \A o \in Orders :
    log[o].ticks = Countdown => log'[o].ticks = Countdown

LEMMA TimeoutFrame ==
  ASSUME IInv, TimeoutVerdictTrue, Grows, FaultsGrow, Lasting,
         \A o \in Orders : "timeout" \in told'[o] => "timeout" \in told[o]
  PROVE  TimeoutVerdictTrue'
  BY DEF FaultsGrow, TimeoutVerdictTrue, Grows, Lasting

LEMMA FreshFrame ==
  ASSUME FreshOrServed, Grows, checkout' = checkout,
         UNCHANGED <<told, rejecting, polls>>
  PROVE  FreshOrServed'
  BY DEF FreshOrServed, Grows, Unserved, InFlight

\* A step that disturbs only an order that already has its countdown.
LEMMA ServedFrame ==
  ASSUME FreshOrServed, Grows, checkout' = checkout,
         NEW o \in Orders, doc[o].hasId, checkout.order # o,
         \A q \in Orders : q # o => /\ told'[q] = told[q]
                                    /\ rejecting'[q] = rejecting[q]
                                    /\ polls'[q] = polls[q]
  PROVE  FreshOrServed'
  BY DEF FreshOrServed, Grows, Unserved, InFlight

\* Another order's dialog leaves the countdown alone; its own stops it.
LEMMA TellStops ==
  ASSUME IInv, CountdownUntilAnswer, NEW o \in Orders, NEW v, NEW p, Tell(o, v, p),
         \A q \in Orders : q # o => rejecting'[q] = rejecting[q]
  PROVE  CountdownUntilAnswer'
<1>1. /\ ctl \in [order : OrderId, remaining : 0 .. Countdown, on : BOOLEAN]
      /\ told \in [Orders -> SUBSET Verdicts]
  BY DEF IInv, TypeOK, WaitTypeOK
<1>2. CASE ctl.order = o
  <2>1. ~ctl'.on /\ ctl'.order = o
    BY <1>1, <1>2 DEF Tell
  <2>2. told'[o] # {}
    BY <1>1 DEF Tell
  <2> QED BY <2>1, <2>2 DEF CountdownUntilAnswer
<1>3. CASE ctl.order # o
  <2>1. ctl' = ctl
    BY <1>3 DEF Tell
  <2>2. \A q \in Orders : q # o => told'[q] = told[q]
    BY <1>1 DEF Tell
  <2>3. ctl.order \in Orders \cup {NoOrder}
    BY <1>1 DEF OrderId
  <2> QED BY <1>3, <2>1, <2>2, <2>3 DEF CountdownUntilAnswer
<1> QED BY <1>2, <1>3

(***************************************************************************)
(* A desk does not touch the customer's device.                            *)
(***************************************************************************)
LEMMA DeskKeepsAnswers ==
  ASSUME IInv, AnswerInv, Grows, FaultsGrow, UNCHANGED waitVars,
         \A o \in Orders : log'[o].ticks = log[o].ticks
  PROVE  AnswerInv'
<1>1. UNCHANGED <<checkout, ctl, polls, rejecting, told>>
  BY DEF waitVars
<1>2. CountdownUntilAnswer /\ TimeoutVerdictTrue /\ FreshOrServed
  BY AnswerInvParts
<1>3. CountdownUntilAnswer'
  BY <1>1, <1>2 DEF CountdownUntilAnswer
<1>4. TimeoutVerdictTrue'
  BY <1>1, <1>2, TimeoutFrame DEF Lasting
<1>5. FreshOrServed'
  BY <1>1, <1>2, FreshFrame
<1> QED BY <1>3, <1>4, <1>5 DEF AnswerInv, FreshOrServed, CountdownUntilAnswer,
     TimeoutVerdictTrue

(***************************************************************************)
(* Every step of the customer's device keeps the answers.                  *)
(***************************************************************************)
LEMMA WaitKeepsAnswers ==
  ASSUME IInv, AnswerInv, WaitNext, Grows, WaitEffect, FaultsGrow
  PROVE  CountdownUntilAnswer' /\ TimeoutVerdictTrue' /\ FreshOrServed'
<1> DEFINE Goal == CountdownUntilAnswer' /\ TimeoutVerdictTrue' /\ FreshOrServed'
<1>a. /\ CountdownUntilAnswer /\ TimeoutVerdictTrue /\ FreshOrServed
      /\ CheckoutInv /\ ControllerInv /\ PollInv
  BY AnswerInvParts, WaitInvParts DEF IInv
<1>b. /\ ctl \in [order : OrderId, remaining : 0 .. Countdown, on : BOOLEAN]
      /\ polls \in [Orders -> PollCount]
      /\ rejecting \in [Orders -> BOOLEAN]
      /\ told \in [Orders -> SUBSET Verdicts]
      /\ checkout.order \in Orders \cup {NoOrder}
      /\ ctl.order \in Orders \cup {NoOrder}
      /\ doc \in [Orders -> Doc] /\ log \in [Orders -> LogEntry]
  BY DEF IInv, TypeOK, WaitTypeOK, StoreTypeOK, OrderId
<1>c. Lasting
  <2> SUFFICES ASSUME NEW o \in Orders, log[o].ticks = Countdown
               PROVE  log'[o].ticks = Countdown
    BY DEF Lasting
  <2>1. o = ctl.order => ~(ctl.remaining > 0)
    BY <1>a, <1>b, StoreAssumption, WaitAssumption DEF ControllerInv
  <2> QED BY <2>1 DEF WaitEffect
<1>d. \A o \in Orders : InFlight(o) > 0 => doc[o].hasId /\ checkout.order # o
  BY <1>a DEF FreshOrServed, Unserved
<1>e. \A o \in Orders : InFlight(o) \in Nat /\ InFlight(o) >= polls[o].started
                          /\ InFlight(o) >= polls[o].other
                          /\ InFlight(o) >= polls[o].accepted
  BY <1>b DEF InFlight, PollCount
<1>1. ASSUME NEW o \in Orders, PlaceOrder(o)
      PROVE  Goal
  <2>1. UNCHANGED <<ctl, polls, rejecting, told>>
    BY <1>1 DEF PlaceOrder
  <2>2. Unserved(o)
    BY <1>1, <1>a DEF PlaceOrder, FreshOrServed, IInv, DocInv
  <2>3. checkout'.order = o \/ checkout'.order = NoOrder
    BY <1>1 DEF PlaceOrder
  <2>4. FreshOrServed'
    BY <1>a, <2>1, <2>2, <2>3, StoreAssumption
    DEF FreshOrServed, Unserved, InFlight, Grows
  <2>5. CountdownUntilAnswer'
    BY <1>a, <2>1 DEF CountdownUntilAnswer
  <2> QED BY <1>a, <1>c, <2>1, <2>4, <2>5, TimeoutFrame
<1>2. CASE PlaceOrderSetsID
  <2>1. UNCHANGED <<ctl, polls, rejecting, told>>
    BY <1>2 DEF PlaceOrderSetsID
  <2>3. checkout'.order = checkout.order \/ checkout'.order = NoOrder
    BY <1>2 DEF PlaceOrderSetsID, IInv, TypeOK, WaitTypeOK
  <2>4. FreshOrServed'
    BY <1>a, <2>1, <2>3, StoreAssumption DEF FreshOrServed, Unserved, InFlight, Grows
  <2>5. CountdownUntilAnswer'
    BY <1>a, <2>1 DEF CountdownUntilAnswer
  <2> QED BY <1>a, <1>c, <2>1, <2>4, <2>5, TimeoutFrame
<1>3. CASE OpenTimer
  <2>1. /\ UNCHANGED <<doc, polls, rejecting, told>>
        /\ checkout' = Idle
        /\ ctl' = TimerController(checkout.order)
    BY <1>3 DEF OpenTimer, storeVars
  <2>2. FreshOrServed'
    BY <1>a, <2>1, StoreAssumption DEF FreshOrServed, Unserved, InFlight, Idle
  <2>3. CountdownUntilAnswer'
    <3>1. CASE HasTimer(stack)
      BY <1>a, <2>1, <3>1 DEF TimerController, CountdownUntilAnswer
    <3>2. CASE ~HasTimer(stack)
      <4>1. /\ ctl'.order = checkout.order
            /\ ctl'.on <=> checkout.order # NoOrder
        BY <2>1, <3>2 DEF TimerController
      <4>2. checkout.order # NoOrder => Unserved(checkout.order)
        BY <1>a, <1>b DEF FreshOrServed
      <4> QED BY <2>1, <4>1, <4>2 DEF CountdownUntilAnswer, Unserved
    <3> QED BY <3>1, <3>2
  <2> QED BY <1>a, <1>c, <2>1, <2>2, <2>3, TimeoutFrame
<1>4. CASE Tick
  <2>1. /\ ctl.order \in Orders /\ ctl.order # NoOrder
        /\ doc[ctl.order].hasId
        /\ UNCHANGED <<checkout, rejecting, told>>
        /\ ctl' = [ctl EXCEPT !.remaining = @ - 1]
        /\ polls' = [polls EXCEPT ![ctl.order].started = @ + 1]
    BY <1>4, StoreAssumption DEF Tick, IInv, TimerHasPage
  <2>2. ctl'.order = ctl.order /\ ctl'.on = ctl.on
    BY <1>b, <2>1
  <2>3. CountdownUntilAnswer'
    BY <1>a, <2>1, <2>2 DEF CountdownUntilAnswer
  <2>4. checkout.order # ctl.order
    BY <1>a, <2>1 DEF CheckoutInv
  <2>5. \A q \in Orders : q # ctl.order => polls'[q] = polls[q]
    BY <1>b, <2>1
  <2>6. FreshOrServed'
    BY <1>a, <2>1, <2>4, <2>5, ServedFrame
  <2> QED BY <1>a, <1>c, <2>1, <2>3, <2>6, TimeoutFrame
<1>5. CASE Expire
  <2>1. /\ ctl.order \in Orders /\ ctl.order # NoOrder
        /\ doc[ctl.order].hasId
        /\ UNCHANGED <<checkout, polls, told>>
        /\ ctl' = [ctl EXCEPT !.on = FALSE]
        /\ rejecting' = [rejecting EXCEPT ![ctl.order] = TRUE]
    BY <1>5, StoreAssumption DEF Expire, IInv, TimerHasPage
  <2>2. ctl'.order = ctl.order /\ ~ctl'.on /\ rejecting'[ctl.order]
    BY <1>b, <2>1
  <2>3. CountdownUntilAnswer'
    BY <2>2 DEF CountdownUntilAnswer
  <2>4. checkout.order # ctl.order
    BY <1>a, <2>1 DEF CheckoutInv
  <2>5. \A q \in Orders : q # ctl.order => rejecting'[q] = rejecting[q]
    BY <1>b, <2>1
  <2>6. FreshOrServed'
    BY <1>a, <2>1, <2>4, <2>5, ServedFrame
  <2> QED BY <1>a, <1>c, <2>1, <2>3, <2>6, TimeoutFrame
<1>6. ASSUME NEW o \in Orders, PollReadsStatus(o)
      PROVE  Goal
  <2>1. /\ UNCHANGED <<checkout, ctl, rejecting, told>>
        /\ polls[o].started > 0
        /\ \E b : polls' = [polls EXCEPT ![o] = b]
    BY <1>6 DEF PollReadsStatus
  <2>2. doc[o].hasId /\ checkout.order # o
    BY <1>b, <1>d, <1>e, <2>1 DEF PollCount
  <2>3. \A q \in Orders : q # o => polls'[q] = polls[q]
    BY <1>b, <2>1
  <2>4. FreshOrServed'
    BY <1>a, <2>1, <2>2, <2>3, ServedFrame
  <2>5. CountdownUntilAnswer'
    BY <1>a, <2>1 DEF CountdownUntilAnswer
  <2> QED BY <1>a, <1>c, <2>1, <2>4, <2>5, TimeoutFrame
<1>7. ASSUME NEW o \in Orders, PollConfirms(o) \/ PollReadsRejected(o)
      PROVE  Goal
  <2>1. /\ UNCHANGED <<checkout, rejecting>>
        /\ polls[o].accepted > 0 \/ polls[o].other > 0
        /\ \E b : polls' = [polls EXCEPT ![o] = b]
        /\ \/ UNCHANGED <<ctl, told>>
           \/ \E v \in {"confirmed", "rejected"} : \E p : Tell(o, v, p)
    BY <1>7 DEF PollConfirms, PollReadsRejected
  <2>2. doc[o].hasId /\ checkout.order # o
    BY <1>b, <1>d, <1>e, <2>1 DEF PollCount
  <2>3. \A q \in Orders : q # o => polls'[q] = polls[q]
    BY <1>b, <2>1
  <2>4. /\ \A q \in Orders : q # o => told'[q] = told[q]
        /\ \A q \in Orders : "timeout" \in told'[q] => "timeout" \in told[q]
    BY <1>b, <2>1 DEF Tell
  <2>5. FreshOrServed'
    BY <1>a, <2>1, <2>2, <2>3, <2>4, ServedFrame
  <2>6. CountdownUntilAnswer'
    <3>1. CASE UNCHANGED <<ctl, told>>
      BY <1>a, <2>1, <3>1 DEF CountdownUntilAnswer
    <3>2. CASE \E v \in {"confirmed", "rejected"} : \E p : Tell(o, v, p)
      BY <1>a, <2>1, <3>2, TellStops
    <3> QED BY <2>1, <3>1, <3>2
  <2> QED BY <1>a, <1>c, <2>4, <2>5, <2>6, TimeoutFrame
<1>8. ASSUME NEW o \in Orders, AutoRejectReturns(o)
      PROVE  Goal
  <2>1. /\ UNCHANGED <<checkout, polls, log>>
        /\ rejecting[o]
        /\ rejecting' = [rejecting EXCEPT ![o] = FALSE]
        /\ RejectOrder(o) \/ Fails
        /\ Tell(o, "timeout", "home")
    BY <1>8 DEF AutoRejectReturns
  <2>2. doc[o].hasId /\ checkout.order # o /\ log[o].ticks = Countdown
    BY <1>a, <2>1 DEF PollInv, FreshOrServed, Unserved
  <2>3. \A q \in Orders : q # o => /\ rejecting'[q] = rejecting[q]
                                   /\ told'[q] = told[q]
    BY <1>b, <2>1 DEF Tell
  <2>4. FreshOrServed'
    BY <1>a, <2>1, <2>2, <2>3, ServedFrame
  <2>5. CountdownUntilAnswer'
    BY <1>a, <2>1, <2>3, TellStops
  <2>6. doc'[o].isRejected \/ faults' > 0
    <3>1. CASE RejectOrder(o)
      BY <3>1, RejectEffect DEF IInv, TypeOK
    <3>2. CASE Fails
      BY <3>2 DEF Fails, IInv, TypeOK, StoreTypeOK
    <3> QED BY <2>1, <3>1, <3>2
  <2>7. TimeoutVerdictTrue'
    BY <1>a, <1>c, <2>1, <2>2, <2>3, <2>6
    DEF TimeoutVerdictTrue, Lasting, Grows, FaultsGrow
  <2> QED BY <2>4, <2>5, <2>7
<1>9. CASE LeaveTimer \/ Back \/ LeaveTrack
  <2>1. /\ UNCHANGED <<checkout, polls, rejecting, told>>
        /\ \E s : ShowStack(s)
    BY <1>9 DEF LeaveTimer, Back, LeaveTrack
  <2>2. ctl' = ctl \/ ctl'.order = NoOrder
    BY <2>1, ShowStackController
  <2>3. CountdownUntilAnswer'
    BY <1>a, <2>1, <2>2 DEF CountdownUntilAnswer
  <2> QED BY <1>a, <1>c, <2>1, <2>3, FreshFrame, TimeoutFrame
<1> QED
  BY <1>1, <1>2, <1>3, <1>4, <1>5, <1>6, <1>7, <1>8, <1>9
  DEF WaitNext, WaitProgram, WaitUser

-----------------------------------------------------------------------------
(***************************************************************************)
(* The invariant of the customer's answers is inductive beside IInv.       *)
(***************************************************************************)
LEMMA InitAnswers == Init => AnswerInv
  BY DEF Init, WaitInit, StoreInit, AnswerInv, CountdownUntilAnswer, NoController,
     TimeoutVerdictTrue, Unserved, InFlight

LEMMA NextAnswers == IInv /\ AnswerInv /\ [Next]_vars => AnswerInv'
<1> SUFFICES ASSUME IInv, AnswerInv, [Next]_vars PROVE AnswerInv'
  OBVIOUS
<1>0. TypeOK /\ StoreTypeOK /\ DeskTypeOK /\ DocInv /\ DeskInv
  BY DEF IInv, TypeOK
<1>1. CASE WaitNext /\ UNCHANGED deskVars
  <2>1. Grows /\ WaitEffect
    BY <1>1, WaitStepEffect DEF deskVars
  <2>2. FaultsGrow
    BY <1>0, <1>1, StepCounts DEF Next
  <2>3. CountdownUntilAnswer' /\ TimeoutVerdictTrue' /\ FreshOrServed'
    BY <1>1, <2>1, <2>2, WaitKeepsAnswers
  <2> QED BY <2>3 DEF AnswerInv, FreshOrServed
<1>2. CASE DeskNext /\ UNCHANGED waitVars
  <2>1. Grows /\ DeskEffect
    BY <1>0, <1>2, DeskStepEffect
  <2>2. FaultsGrow
    BY <1>0, <1>2, StepCounts DEF Next
  <2> QED BY <1>2, <2>1, <2>2, DeskKeepsAnswers DEF DeskEffect
<1>3. CASE UNCHANGED vars
  <2>1. UNCHANGED <<doc, log, faults>> /\ UNCHANGED waitVars /\ UNCHANGED misled
    BY <1>3 DEF vars, storeVars, deskVars
  <2> QED BY <2>1, DeskKeepsAnswers DEF Grows, FaultsGrow
<1> QED BY <1>1, <1>2, <1>3 DEF Next

LEMMA SpecAnswers == Spec => []AnswerInv
  BY SpecInv, InitAnswers, NextAnswers, PTL DEF Spec

(***************************************************************************)
(* While its page is open, the countdown of an order runs if and only if   *)
(* the customer has no answer and no rejection is on its way, however the  *)
(* polls of this order and of earlier ones overlap: none expires after an  *)
(* answer, and none stops without one or a rejection, which is the         *)
(* safety half of AnswerOrLeave (orders_timer_controller.dart:28-81).      *)
(***************************************************************************)
THEOREM Countdowns == Spec => []CountdownUntilAnswer
  BY SpecAnswers, PTL DEF AnswerInv

(***************************************************************************)
(* A customer is told of a timeout only after the full countdown of that   *)
(* order, and then the order is rejected for good, unless a call has       *)
(* failed (orders_timer_controller.dart:84-94).                            *)
(***************************************************************************)
THEOREM TimeoutVerdicts == Spec => []TimeoutVerdictTrue
  BY SpecAnswers, PTL DEF AnswerInv

=============================================================================
