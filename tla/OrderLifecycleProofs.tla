------------------------ MODULE OrderLifecycleProofs ------------------------
(***************************************************************************)
(* Proofs about OrderLifecycle, for every set of orders and drivers, every *)
(* length of the countdown and of the status list, and every bound.        *)
(***************************************************************************)
EXTENDS OrderLifecycle, TLAPS

(***************************************************************************)
(* The navigation stack always has a page, and it keeps its type when      *)
(* pages are pushed and popped.                                            *)
(***************************************************************************)
StackOK == stack \in Seq(Pages) /\ Len(stack) > 0

LEMMA PushOK ==
  ASSUME StackOK, NEW p \in Pages
  PROVE  Push(p) \in Seq(Pages) /\ Len(Push(p)) > 0
  BY DEF StackOK, Push

LEMMA PopOK ==
  ASSUME StackOK, NEW n \in Nat \ {0}
  PROVE  Pop(n) \in Seq(Pages) /\ Len(Pop(n)) > 0
<1> DEFINE k == IF Len(stack) > n THEN Len(stack) - n ELSE 1
<1>1. k \in 1 .. Len(stack)
  BY DEF StackOK
<1>2. SubSeq(stack, 1, k) \in Seq(Pages) /\ Len(SubSeq(stack, 1, k)) = k
  BY <1>1 DEF StackOK
<1> QED BY <1>1, <1>2 DEF Pop

Typed == TypeOK /\ Len(stack) > 0

LEMMA TypedInit == Init => Typed
<1> SUFFICES ASSUME Init PROVE Typed
  OBVIOUS
<1> USE StoreAssumption, WaitAssumption, DeskAssumption
<1>1. StoreTypeOK
  BY DEF Init, StoreInit, StoreTypeOK, Doc, NewDoc, LogEntry, NoLog, Status, Placed
<1>2. WaitTypeOK /\ Len(stack) > 0
  BY DEF Init, WaitInit, WaitTypeOK, Idle, NoController, OrderId, PollCount, Pages
<1>3. DeskTypeOK
  BY DEF Init, DeskInit, DeskTypeOK, NoRows, Users
<1> QED BY <1>1, <1>2, <1>3 DEF Typed, TypeOK

(***************************************************************************)
(* What a step does to the documents preserves their type.                 *)
(***************************************************************************)
LEMMA FaultsTyped ==
  ASSUME StoreTypeOK, Succeeds \/ Fails
  PROVE  faults' \in 0 .. MaxFaults
  BY StoreAssumption DEF StoreTypeOK, Succeeds, Fails

LEMMA DocTyped ==
  ASSUME StoreTypeOK, NEW o \in Orders, NEW s \in Status,
         NEW d \in Drivers \cup {NoDriver},
         AddOrder(o) \/ SetOrderID(o) \/ UpdateOrderStatus(o, s, d)
           \/ RejectOrder(o) \/ UNCHANGED doc
  PROVE  doc' \in [Orders -> Doc]
<1> USE DEF StoreTypeOK, Doc
<1>1. CASE AddOrder(o)
  BY <1>1 DEF AddOrder
<1>2. CASE SetOrderID(o)
  BY <1>2 DEF SetOrderID
<1>3. CASE UpdateOrderStatus(o, s, d)
  <2> DEFINE w == IF d = NoDriver THEN doc[o].driverId ELSE d
  <2>1. doc[o] \in Doc
    OBVIOUS
  <2>2. w \in Drivers \cup {NoDriver}
    BY <2>1
  <2> HIDE DEF w
  <2>3. [doc[o] EXCEPT !.status = s, !.driverId = w] \in Doc
    BY <2>1, <2>2
  <2>4. doc' = [doc EXCEPT ![o] = [doc[o] EXCEPT !.status = s, !.driverId = w]]
    BY <1>3, <2>1 DEF UpdateOrderStatus, w
  <2> QED BY <2>3, <2>4
<1>4. CASE RejectOrder(o)
  BY <1>4 DEF RejectOrder
<1>5. CASE UNCHANGED doc
  BY <1>5
<1> QED BY <1>1, <1>2, <1>3, <1>4, <1>5

LEMMA PlacedIsStatus == Placed \in Status
  BY StoreAssumption DEF Placed, Status

LEMMA TellTyped ==
  ASSUME WaitTypeOK, Len(stack) > 0, NEW o \in Orders, NEW v \in Verdicts,
         NEW p \in Pages, Tell(o, v, p)
  PROVE  /\ told' \in [Orders -> SUBSET Verdicts]
         /\ ctl' \in [order : OrderId, remaining : 0 .. Countdown, on : BOOLEAN]
         /\ stack' \in Seq(Pages) /\ Len(stack') > 0
<1>1. stack' \in Seq(Pages) /\ Len(stack') > 0
  BY PushOK DEF WaitTypeOK, StackOK, Tell
<1>2. told' \in [Orders -> SUBSET Verdicts]
  BY DEF WaitTypeOK, Tell
<1>3. ctl' \in [order : OrderId, remaining : 0 .. Countdown, on : BOOLEAN]
  BY DEF WaitTypeOK, Tell
<1> QED BY <1>1, <1>2, <1>3

LEMMA ShowStackTyped ==
  ASSUME WaitTypeOK, NEW s \in Seq(Pages), Len(s) > 0, ShowStack(s)
  PROVE  /\ ctl' \in [order : OrderId, remaining : 0 .. Countdown, on : BOOLEAN]
         /\ stack' \in Seq(Pages) /\ Len(stack') > 0
  BY WaitAssumption DEF WaitTypeOK, ShowStack, NoController, OrderId

(***************************************************************************)
(* Every step of the customer's device preserves the types of its own      *)
(* state and of the documents.                                             *)
(***************************************************************************)
LEMMA WaitTyped ==
  ASSUME StoreTypeOK, WaitTypeOK, Len(stack) > 0, WaitNext,
         \* a running timer has an order, see WaitInv below
         ctl.on => ctl.order \in Orders,
         checkout.step = "added" => checkout.order \in Orders
  PROVE  StoreTypeOK' /\ WaitTypeOK' /\ Len(stack') > 0
<1> USE StoreAssumption, WaitAssumption
<1>1. ASSUME NEW o \in Orders, PlaceOrder(o)
      PROVE  StoreTypeOK' /\ WaitTypeOK' /\ Len(stack') > 0
  <2>1. doc' \in [Orders -> Doc] /\ faults' \in 0 .. MaxFaults
    BY <1>1, DocTyped, FaultsTyped, PlacedIsStatus DEF PlaceOrder
  <2>2. checkout' \in [step : {"idle", "added", "done"}, order : OrderId]
    BY <1>1 DEF PlaceOrder, OrderId
  <2> QED BY <1>1, <2>1, <2>2 DEF PlaceOrder, StoreTypeOK, WaitTypeOK
<1>2. CASE PlaceOrderSetsID
  <2>1. checkout.order \in Orders
    BY <1>2 DEF PlaceOrderSetsID
  <2>2. doc' \in [Orders -> Doc] /\ faults' \in 0 .. MaxFaults
    BY <1>2, <2>1, DocTyped, FaultsTyped, PlacedIsStatus DEF PlaceOrderSetsID
  <2>3. checkout' \in [step : {"idle", "added", "done"}, order : OrderId]
    <3>1. checkout.order \in OrderId /\ NoOrder \in OrderId
      BY <2>1 DEF OrderId
    <3>2. ASSUME NEW k \in [step : {"idle", "added", "done"}, order : OrderId]
          PROVE  /\ [k EXCEPT !.step = "done"]
                      \in [step : {"idle", "added", "done"}, order : OrderId]
                 /\ [step |-> "done", order |-> NoOrder]
                      \in [step : {"idle", "added", "done"}, order : OrderId]
      BY <3>1
    <3> QED BY <1>2, <3>2 DEF PlaceOrderSetsID, WaitTypeOK
  <2> QED BY <1>2, <2>2, <2>3 DEF PlaceOrderSetsID, StoreTypeOK, WaitTypeOK
<1>3. CASE OpenTimer
  <2>1. stack' \in Seq(Pages) /\ Len(stack') > 0
    BY <1>3, PushOK DEF OpenTimer, WaitTypeOK, StackOK, Pages
  <2>2. ctl' \in [order : OrderId, remaining : 0 .. Countdown, on : BOOLEAN]
    BY <1>3 DEF OpenTimer, TimerController, WaitTypeOK
  <2> QED BY <1>3, <2>1, <2>2
    DEF OpenTimer, StoreTypeOK, WaitTypeOK, storeVars, Idle, OrderId
<1>4. CASE Tick
  <2>1. ctl.order \in Orders
    BY <1>4 DEF Tick
  <2>2. log' \in [Orders -> LogEntry]
    <3>1. log[ctl.order] \in LogEntry
      BY <2>1 DEF StoreTypeOK
    <3>2. ASSUME NEW r \in LogEntry PROVE [r EXCEPT !.ticks = @ + 1] \in LogEntry
      BY DEF LogEntry
    <3> QED BY <1>4, <2>1, <3>1, <3>2 DEF Tick, StoreTypeOK
  <2>3. polls' \in [Orders -> PollCount]
    <3>1. polls[ctl.order] \in PollCount
      BY <2>1 DEF WaitTypeOK
    <3>2. ASSUME NEW r \in PollCount PROVE [r EXCEPT !.started = @ + 1] \in PollCount
      BY DEF PollCount
    <3> QED BY <1>4, <2>1, <3>1, <3>2 DEF Tick, WaitTypeOK
  <2>4. ctl' \in [order : OrderId, remaining : 0 .. Countdown, on : BOOLEAN]
    <3>1. ctl.remaining - 1 \in 0 .. Countdown
      BY <1>4 DEF Tick, WaitTypeOK
    <3> QED BY <1>4, <3>1 DEF Tick, WaitTypeOK
  <2> QED BY <1>4, <2>2, <2>3, <2>4 DEF Tick, StoreTypeOK, WaitTypeOK
<1>5. CASE Expire
  <2>1. ctl' \in [order : OrderId, remaining : 0 .. Countdown, on : BOOLEAN]
    BY <1>5 DEF Expire, WaitTypeOK
  <2> QED BY <1>5, <2>1 DEF Expire, StoreTypeOK, WaitTypeOK, storeVars
<1>6. ASSUME NEW o \in Orders, PollReadsStatus(o)
      PROVE  StoreTypeOK' /\ WaitTypeOK' /\ Len(stack') > 0
  <2>1. polls' \in [Orders -> PollCount]
    <3>1. polls[o] \in PollCount /\ polls[o].started > 0
      BY <1>6 DEF WaitTypeOK, PollReadsStatus
    <3>2. \A b \in BOOLEAN : StatusRead(polls[o], b) \in PollCount
      BY <3>1 DEF PollCount, StatusRead
    <3> QED BY <1>6, <3>2 DEF PollReadsStatus, WaitTypeOK
  <2>2. faults' \in 0 .. MaxFaults
    BY <1>6, FaultsTyped DEF PollReadsStatus
  <2> QED BY <1>6, <2>1, <2>2 DEF PollReadsStatus, StoreTypeOK, WaitTypeOK
<1>7. ASSUME NEW o \in Orders, PollConfirms(o)
      PROVE  StoreTypeOK' /\ WaitTypeOK' /\ Len(stack') > 0
  <2>1. polls' \in [Orders -> PollCount]
    <3>1. polls[o] \in PollCount /\ polls[o].accepted > 0
      BY <1>7 DEF WaitTypeOK, PollConfirms
    <3>2. ASSUME NEW r \in PollCount, r.accepted > 0
          PROVE  [r EXCEPT !.accepted = @ - 1] \in PollCount
      <4>1. r.accepted - 1 \in Nat
        BY <3>2 DEF PollCount
      <4>2. ASSUME NEW n \in Nat PROVE [r EXCEPT !.accepted = n] \in PollCount
        BY <3>2 DEF PollCount
      <4> QED BY <4>1, <4>2
    <3> QED BY <1>7, <3>1, <3>2 DEF PollConfirms, WaitTypeOK
  <2>2. /\ told' \in [Orders -> SUBSET Verdicts]
        /\ ctl' \in [order : OrderId, remaining : 0 .. Countdown, on : BOOLEAN]
        /\ stack' \in Seq(Pages) /\ Len(stack') > 0
    BY <1>7, TellTyped DEF PollConfirms, Verdicts, Pages
  <2> QED BY <1>7, <2>1, <2>2 DEF PollConfirms, StoreTypeOK, WaitTypeOK, storeVars
<1>8. ASSUME NEW o \in Orders, PollReadsRejected(o)
      PROVE  StoreTypeOK' /\ WaitTypeOK' /\ Len(stack') > 0
  <2>1. polls' \in [Orders -> PollCount]
    <3>1. polls[o] \in PollCount /\ polls[o].other > 0
      BY <1>8 DEF WaitTypeOK, PollReadsRejected
    <3>2. ASSUME NEW r \in PollCount, r.other > 0
          PROVE  [r EXCEPT !.other = @ - 1] \in PollCount
      <4>1. r.other - 1 \in Nat
        BY <3>2 DEF PollCount
      <4>2. ASSUME NEW n \in Nat PROVE [r EXCEPT !.other = n] \in PollCount
        BY <3>2 DEF PollCount
      <4> QED BY <4>1, <4>2
    <3> QED BY <1>8, <3>1, <3>2 DEF PollReadsRejected, WaitTypeOK
  <2>2. faults' \in 0 .. MaxFaults
    BY <1>8, FaultsTyped DEF PollReadsRejected
  <2>3. /\ told' \in [Orders -> SUBSET Verdicts]
        /\ ctl' \in [order : OrderId, remaining : 0 .. Countdown, on : BOOLEAN]
        /\ stack' \in Seq(Pages) /\ Len(stack') > 0
    <3>1. CASE Tell(o, "rejected", "home")
      BY <3>1, TellTyped DEF Verdicts, Pages
    <3>2. CASE UNCHANGED <<stack, ctl, told>>
      BY <3>2 DEF WaitTypeOK
    <3> QED BY <1>8, <3>1, <3>2 DEF PollReadsRejected
  <2> QED BY <1>8, <2>1, <2>2, <2>3 DEF PollReadsRejected, StoreTypeOK, WaitTypeOK
<1>9. ASSUME NEW o \in Orders, AutoRejectReturns(o)
      PROVE  StoreTypeOK' /\ WaitTypeOK' /\ Len(stack') > 0
  <2>1. doc' \in [Orders -> Doc] /\ faults' \in 0 .. MaxFaults
    BY <1>9, DocTyped, FaultsTyped, PlacedIsStatus DEF AutoRejectReturns
  <2>2. /\ told' \in [Orders -> SUBSET Verdicts]
        /\ ctl' \in [order : OrderId, remaining : 0 .. Countdown, on : BOOLEAN]
        /\ stack' \in Seq(Pages) /\ Len(stack') > 0
    BY <1>9, TellTyped DEF AutoRejectReturns, Verdicts, Pages
  <2> QED BY <1>9, <2>1, <2>2 DEF AutoRejectReturns, StoreTypeOK, WaitTypeOK
<1>10. CASE LeaveTimer
  <2>1. <<"home">> \in Seq(Pages) /\ Len(<<"home">>) > 0
    BY DEF Pages
  <2> QED BY <1>10, <2>1, ShowStackTyped
    DEF LeaveTimer, StoreTypeOK, WaitTypeOK, storeVars
<1>11. CASE Back
  <2>1. Pop(1) \in Seq(Pages) /\ Len(Pop(1)) > 0
    BY PopOK DEF WaitTypeOK, StackOK
  <2> QED BY <1>11, <2>1, ShowStackTyped DEF Back, StoreTypeOK, WaitTypeOK, storeVars
<1>12. CASE LeaveTrack
  <2>1. Pop(2) \in Seq(Pages) /\ Len(Pop(2)) > 0
    <3>1. StackOK
      BY DEF WaitTypeOK, StackOK
    <3> QED BY <3>1, PopOK DEF StackOK
  <2> QED BY <1>12, <2>1, ShowStackTyped
    DEF LeaveTrack, StoreTypeOK, WaitTypeOK, storeVars
<1> QED
  BY <1>1, <1>2, <1>3, <1>4, <1>5, <1>6, <1>7, <1>8, <1>9, <1>10, <1>11, <1>12
  DEF WaitNext, WaitProgram, WaitUser

(***************************************************************************)
(* The status list of a driver: indices and statuses correspond.           *)
(***************************************************************************)
LEMMA StatusRanges ==
  /\ Placed \in Status /\ Accepted \in Status
  /\ \A s \in Status : DriverIndex(s) \in -1 .. DriverLen - 1
  /\ \A i \in 0 .. DriverLen - 1 : DriverStatus(i) \in Status
  /\ DriverStatus(0) \in Status
  /\ \A i \in -1 .. DriverLen - 1 : i + 2 \in Status
  BY StoreAssumption DEF Placed, Accepted, Status, DriverIndex, DriverStatus

(***************************************************************************)
(* The queue of updates in flight keeps its type when an update is issued  *)
(* and when the first one returns.                                         *)
(***************************************************************************)
LEMMA IssueTyped ==
  ASSUME DeskTypeOK, NEW u \in Users, NEW w \in Write, Issue(u, w)
  PROVE  pend' \in [Users -> Seq(Write)]
<1>1. Append(pend[u], w) \in Seq(Write)
  BY DEF DeskTypeOK
<1> QED BY <1>1 DEF DeskTypeOK, Issue

LEMMA ReturnTyped ==
  ASSUME DeskTypeOK, NEW u \in Users, pend[u] # <<>>,
         pend' = [pend EXCEPT ![u] = Tail(@)]
  PROVE  pend' \in [Users -> Seq(Write)] /\ Head(pend[u]) \in Write
<1>1. Tail(pend[u]) \in Seq(Write) /\ Head(pend[u]) \in Write
  BY DEF DeskTypeOK
<1> QED BY <1>1 DEF DeskTypeOK

LEMMA ApplyTyped ==
  ASSUME StoreTypeOK, NEW u \in Users, NEW w \in Write,
         Apply(u, w) \/ UNCHANGED <<doc, log>>
  PROVE  doc' \in [Orders -> Doc] /\ log' \in [Orders -> LogEntry]
<1>1. w.order \in Orders /\ w.status \in Status
  BY DEF Write
<1>2. CASE UNCHANGED <<doc, log>>
  BY <1>2 DEF StoreTypeOK
<1>3. CASE Apply(u, w) /\ w.kind = "reject"
  BY <1>1, <1>3, DocTyped DEF Apply, StoreTypeOK
<1>4. CASE Apply(u, w) /\ w.kind # "reject"
  <2>1. doc' \in [Orders -> Doc]
    BY <1>1, <1>4, DocTyped DEF Apply, Users
  <2>2. log[w.order] \in LogEntry
    BY <1>1 DEF StoreTypeOK
  <2>3. [log[w.order] EXCEPT !.accepted = @ \/ u = Farmer] \in LogEntry
    BY <2>2 DEF LogEntry
  <2> QED BY <1>1, <1>4, <2>1, <2>3 DEF Apply, StoreTypeOK
<1> QED BY <1>2, <1>3, <1>4

(***************************************************************************)
(* Every step of the farmer's and the drivers' devices preserves the types *)
(* of their state and of the documents.                                    *)
(***************************************************************************)
LEMMA DeskTyped ==
  ASSUME StoreTypeOK, DeskTypeOK, DeskInv, DeskNext
  PROVE  StoreTypeOK' /\ DeskTypeOK'
<1> USE StoreAssumption, DeskAssumption
<1>0. /\ NoRows \in [Orders -> Row \cup {NoRow}]
      /\ NoRows \in [Orders -> Status \cup {NoRow}]
  BY DEF NoRows
<1>a. \A u \in Users : detail[u] \/ selId[u] => sel[u] \in Orders
  BY DEF DeskInv, ListInv
<1>b. \A d \in Drivers : map[d] = NoOrder => mapRead[d] = "none"
  BY DEF DeskInv, MapInv
<1>c. ASSUME NEW d \in Drivers, StartHomeFetch(d) \/ UNCHANGED homeVars
      PROVE  /\ mine' \in [Drivers -> [Orders -> Status \cup {NoRow}]]
             /\ homeFetch' \in [Drivers -> BOOLEAN]
  <2>1. CASE StartHomeFetch(d)
    <3>1. mine' \in [Drivers -> [Orders -> Status \cup {NoRow}]]
      BY <1>0, <2>1 DEF StartHomeFetch, DeskTypeOK
    <3>2. homeFetch' \in [Drivers -> BOOLEAN]
      BY <2>1 DEF StartHomeFetch, DeskTypeOK
    <3> QED BY <3>1, <3>2
  <2>2. CASE UNCHANGED homeVars
    BY <2>2 DEF homeVars, DeskTypeOK
  <2> QED BY <1>c, <2>1, <2>2
<1>1. ASSUME NEW u \in Users, GetOrders(u)
      PROVE  StoreTypeOK' /\ DeskTypeOK'
  <2>1. /\ detail' \in [Users -> BOOLEAN]
        /\ showAccept' \in [Users -> BOOLEAN]
        /\ showReject' \in [Users -> BOOLEAN]
    BY <1>1 DEF GetOrders, CloseDetails, DeskTypeOK
  <2>2. /\ rows' \in [Users -> [Orders -> Row \cup {NoRow}]]
        /\ fetching' \in [Users -> BOOLEAN]
    BY <1>0, <1>1 DEF GetOrders, StartGetOrdersList, DeskTypeOK
  <2> QED BY <1>1, <2>1, <2>2
    DEF GetOrders, DeskTypeOK, StoreTypeOK, mapVars, homeVars, storeVars
<1>2. ASSUME NEW u \in Users, GetOrdersListReturns(u)
      PROVE  StoreTypeOK' /\ DeskTypeOK'
  <2>1. faults' \in 0 .. MaxFaults
    BY <1>2, FaultsTyped DEF GetOrdersListReturns
  <2>2. \A o \in Orders : [status |-> doc[o].status,
                           isRejected |-> doc[o].isRejected,
                           hasId |-> doc[o].hasId] \in Row
    BY DEF StoreTypeOK, Doc, Row
  <2>3. Query(u) \in [Orders -> Row \cup {NoRow}]
    BY <2>2 DEF Query
  <2>4. rows' \in [Users -> [Orders -> Row \cup {NoRow}]]
    BY <1>2, <2>3 DEF GetOrdersListReturns, DeskTypeOK
  <2> QED BY <1>2, <2>1, <2>4
    DEF GetOrdersListReturns, DeskTypeOK, StoreTypeOK, mapVars, homeVars
<1>3. ASSUME NEW u \in Users, NEW o \in Orders, NavigateToDetailsPage(u, o)
      PROVE  StoreTypeOK' /\ DeskTypeOK'
  <2>1. rows[u][o] \in Row
    BY <1>3 DEF NavigateToDetailsPage, DeskTypeOK
  <2>2. rows[u][o].hasId \in BOOLEAN
    BY <2>1 DEF Row
  <2>3. /\ MayAccept(u, rows[u][o]) \in BOOLEAN
        /\ MayReject(u, rows[u][o]) \in BOOLEAN
    BY Zenon DEF MayAccept, MayReject
  <2> QED BY <1>3, <2>2, <2>3
    DEF NavigateToDetailsPage, DeskTypeOK, StoreTypeOK, mapVars, homeVars, storeVars
<1>4. ASSUME NEW u \in Users, BackToList(u)
      PROVE  StoreTypeOK' /\ DeskTypeOK'
  BY <1>4 DEF BackToList, CloseDetails, DeskTypeOK, StoreTypeOK, mapVars, homeVars, storeVars
<1>5. ASSUME NEW u \in Users, TapAccept(u)
      PROVE  StoreTypeOK' /\ DeskTypeOK'
  <2>1. sel[u] \in Orders
    BY <1>a, <1>5 DEF TapAccept
  <2>2. pend' \in [Users -> Seq(Write)]
    <3>1. /\ [order |-> sel[u], kind |-> "accept", status |-> DriverStatus(0),
              seen |-> Accepted] \in Write
          /\ [order |-> sel[u], kind |-> "accept", status |-> Accepted,
              seen |-> Placed] \in Write
      BY <2>1, StatusRanges DEF Write
    <3> QED BY <1>5, <3>1, IssueTyped DEF TapAccept
  <2>3. log' \in [Orders -> LogEntry]
    <3>1. log[sel[u]] \in LogEntry
      BY <2>1 DEF StoreTypeOK
    <3>2. u \in Drivers => [log[sel[u]] EXCEPT !.takers = @ \cup {u}] \in LogEntry
      BY <3>1 DEF LogEntry
    <3> QED BY <1>5, <2>1, <3>2 DEF TapAccept, StoreTypeOK
  <2> QED BY <1>5, <2>2, <2>3
    DEF TapAccept, DeskTypeOK, StoreTypeOK, mapVars, homeVars, listVars
<1>6. ASSUME NEW u \in Users, TapReject(u)
      PROVE  StoreTypeOK' /\ DeskTypeOK'
  <2>1. sel[u] \in Orders
    BY <1>a, <1>6 DEF TapReject
  <2>2. pend' \in [Users -> Seq(Write)]
    <3>1. [order |-> sel[u], kind |-> "reject", status |-> Placed,
           seen |-> Placed] \in Write
      BY <2>1, StatusRanges DEF Write
    <3> QED BY <1>6, <3>1, IssueTyped DEF TapReject
  <2>3. log' \in [Orders -> LogEntry]
    <3>1. log[sel[u]] \in LogEntry
      BY <2>1 DEF StoreTypeOK
    <3>2. [log[sel[u]] EXCEPT !.refused = TRUE] \in LogEntry
      BY <3>1 DEF LogEntry
    <3> QED BY <1>6, <2>1, <3>2 DEF TapReject, StoreTypeOK
  <2> QED BY <1>6, <2>2, <2>3
    DEF TapReject, DeskTypeOK, StoreTypeOK, mapVars, homeVars, listVars
<1>7. ASSUME NEW u \in Users, ButtonReturns(u)
      PROVE  StoreTypeOK' /\ DeskTypeOK'
  <2> DEFINE w == Head(pend[u])
  <2>1. pend' \in [Users -> Seq(Write)] /\ w \in Write
    BY <1>7, ReturnTyped DEF ButtonReturns
  <2>2. doc' \in [Orders -> Doc] /\ log' \in [Orders -> LogEntry]
    BY <1>7, <2>1, ApplyTyped DEF ButtonReturns
  <2>3. faults' \in 0 .. MaxFaults
    BY <1>7, FaultsTyped DEF ButtonReturns
  <2>4. /\ rows' \in [Users -> [Orders -> Row \cup {NoRow}]]
        /\ fetching' \in [Users -> BOOLEAN]
    BY <1>0, <1>7 DEF ButtonReturns, StartGetOrdersList, DeskTypeOK
  <2>5. /\ map' \in [Drivers -> Orders \cup {NoOrder}]
        /\ mapIdx' \in [Drivers -> -1 .. DriverLen - 1]
        /\ mapRead' \in [Drivers -> {"none", "open", "after"}]
        /\ misled' \in [Orders -> SUBSET Drivers]
    <3>1. CASE UNCHANGED <<mapVars, misled>>
      BY <3>1 DEF mapVars, DeskTypeOK
    <3>2. CASE ~UNCHANGED <<mapVars, misled>>
      <4>0. u \in Drivers /\ OpenSelected(u, w)
        BY <1>7, <3>2 DEF ButtonReturns
      <4> HIDE DEF w
      <4>1. /\ selId[u]
            /\ map' = [map EXCEPT ![u] = sel[u]]
            /\ mapIdx' = [mapIdx EXCEPT ![u] = -1]
            /\ mapRead' = [mapRead EXCEPT ![u] = "open"]
            /\ \/ misled' = [misled EXCEPT ![sel[u]] = @]
               \/ misled' = [misled EXCEPT ![sel[u]] = @ \cup {u}]
        <5>1. map[u] = NoOrder /\ selId[u]
          BY <3>2, <4>0 DEF OpenSelected
        <5>2. CASE sel[u] = w.order
          BY <4>0, <5>1, <5>2 DEF OpenSelected
        <5>3. CASE sel[u] # w.order
          BY <4>0, <5>1, <5>3 DEF OpenSelected
        <5> QED BY <5>2, <5>3
      <4>2. sel[u] \in Orders
        BY <1>a, <4>1
      <4>3. misled' \in [Orders -> SUBSET Drivers]
        <5>1. /\ misled[sel[u]] \in SUBSET Drivers
              /\ misled[sel[u]] \cup {u} \in SUBSET Drivers
          BY <4>0, <4>2 DEF DeskTypeOK
        <5>2. CASE misled' = [misled EXCEPT ![sel[u]] = @]
          BY <5>1, <5>2 DEF DeskTypeOK
        <5>3. CASE misled' = [misled EXCEPT ![sel[u]] = @ \cup {u}]
          BY <5>1, <5>3 DEF DeskTypeOK
        <5> QED BY <4>1, <5>2, <5>3
      <4>4. -1 \in -1 .. DriverLen - 1
        OBVIOUS
      <4> QED BY <4>0, <4>1, <4>2, <4>3, <4>4 DEF DeskTypeOK
    <3> QED BY <3>1, <3>2
  <2>6. /\ showAccept' \in [Users -> BOOLEAN]
        /\ showReject' \in [Users -> BOOLEAN]
        /\ UNCHANGED <<detail, sel, selId, mine, homeFetch>>
    BY <1>7 DEF ButtonReturns, DeskTypeOK, homeVars
  <2> QED BY <2>1, <2>2, <2>3, <2>4, <2>5, <2>6 DEF DeskTypeOK, StoreTypeOK
<1>8. ASSUME NEW d \in Drivers, NEW o \in Orders, OpenMap(d, o)
      PROVE  StoreTypeOK' /\ DeskTypeOK'
  <2>1. mine[d][o] \in Status
    BY <1>8 DEF OpenMap, DeskTypeOK
  <2>2. DriverIndex(mine[d][o]) \in -1 .. DriverLen - 1
    BY <2>1, StatusRanges
  <2> QED BY <1>8, <2>2
    DEF OpenMap, DeskTypeOK, StoreTypeOK, listVars, homeVars, storeVars
<1>9. ASSUME NEW d \in Drivers, MapReadReturns(d)
      PROVE  StoreTypeOK' /\ DeskTypeOK'
  <2>1. faults' \in 0 .. MaxFaults
    BY <1>9, FaultsTyped DEF MapReadReturns
  <2>2. mapIdx' \in [Drivers -> -1 .. DriverLen - 1]
    <3>0. -1 \in -1 .. DriverLen - 1
      OBVIOUS
    <3>1. map[d] \in Orders
      BY <1>b, <1>9 DEF MapReadReturns, DeskTypeOK
    <3>2. DriverIndex(doc[map[d]].status) \in -1 .. DriverLen - 1
      BY <3>1, StatusRanges DEF StoreTypeOK, Doc
    <3> QED BY <1>9, <3>0, <3>2 DEF MapReadReturns, DeskTypeOK
  <2>3. /\ mine' \in [Drivers -> [Orders -> Status \cup {NoRow}]]
        /\ homeFetch' \in [Drivers -> BOOLEAN]
    BY <1>9, <1>c DEF MapReadReturns
  <2>4. mapRead' \in [Drivers -> {"none", "open", "after"}]
    BY <1>9 DEF MapReadReturns, DeskTypeOK
  <2> QED BY <1>9, <2>1, <2>2, <2>3, <2>4
    DEF MapReadReturns, DeskTypeOK, StoreTypeOK, listVars
<1>10. ASSUME NEW d \in Drivers, NEW i \in 0 .. DriverLen - 1, TapStatus(d, i)
       PROVE  StoreTypeOK' /\ DeskTypeOK'
  <2>1. map[d] \in Orders
    BY <1>10 DEF TapStatus, DeskTypeOK
  <2>2. [order |-> map[d], kind |-> "deliver", status |-> DriverStatus(i),
         seen |-> mapIdx[d] + 2] \in Write
    BY <2>1, StatusRanges DEF Write, DeskTypeOK
  <2>3. pend' \in [Users -> Seq(Write)]
    BY <1>10, <2>2, IssueTyped DEF TapStatus, Users
  <2> QED BY <1>10, <2>3
    DEF TapStatus, DeskTypeOK, StoreTypeOK, listVars, mapVars, homeVars, storeVars
<1>11. ASSUME NEW d \in Drivers, StatusReturns(d)
       PROVE  StoreTypeOK' /\ DeskTypeOK'
  <2>0. d \in Users
    BY DEF Users
  <2>1. pend' \in [Users -> Seq(Write)] /\ Head(pend[d]) \in Write
    BY <1>11, <2>0, ReturnTyped DEF StatusReturns
  <2>2. doc' \in [Orders -> Doc] /\ log' \in [Orders -> LogEntry]
    BY <1>11, <2>0, <2>1, ApplyTyped DEF StatusReturns
  <2>3. faults' \in 0 .. MaxFaults
    BY <1>11, FaultsTyped DEF StatusReturns
  <2>4. mapRead' \in [Drivers -> {"none", "open", "after"}]
    BY <1>11 DEF StatusReturns, DeskTypeOK
  <2>5. /\ mine' \in [Drivers -> [Orders -> Status \cup {NoRow}]]
        /\ homeFetch' \in [Drivers -> BOOLEAN]
    BY <1>11, <1>c DEF StatusReturns
  <2> QED BY <1>11, <2>1, <2>2, <2>3, <2>4, <2>5
    DEF StatusReturns, DeskTypeOK, StoreTypeOK, listVars
<1>12. ASSUME NEW d \in Drivers, CloseMap(d)
       PROVE  StoreTypeOK' /\ DeskTypeOK'
  <2>1. /\ mine' \in [Drivers -> [Orders -> Status \cup {NoRow}]]
        /\ homeFetch' \in [Drivers -> BOOLEAN]
    BY <1>12, <1>c DEF CloseMap
  <2>2. /\ map' \in [Drivers -> Orders \cup {NoOrder}]
        /\ mapIdx' \in [Drivers -> -1 .. DriverLen - 1]
        /\ mapRead' \in [Drivers -> {"none", "open", "after"}]
    BY <1>12 DEF CloseMap, DeskTypeOK
  <2> QED BY <1>12, <2>1, <2>2 DEF CloseMap, DeskTypeOK, StoreTypeOK, listVars, storeVars
<1>13. ASSUME NEW d \in Drivers, HomeFetchReturns(d)
       PROVE  StoreTypeOK' /\ DeskTypeOK'
  <2>1. faults' \in 0 .. MaxFaults
    BY <1>13, FaultsTyped DEF HomeFetchReturns
  <2>2. HisOrders(d) \in [Orders -> Status \cup {NoRow}]
    <3>1. \A o \in Orders : doc[o].status \in Status
      BY DEF StoreTypeOK, Doc
    <3> QED BY <3>1 DEF HisOrders
  <2>3. mine' \in [Drivers -> [Orders -> Status \cup {NoRow}]]
    BY <1>13, <2>2 DEF HomeFetchReturns, DeskTypeOK
  <2>4. homeFetch' \in [Drivers -> BOOLEAN]
    BY <1>13 DEF HomeFetchReturns, DeskTypeOK
  <2> QED BY <1>13, <2>1, <2>3, <2>4
    DEF HomeFetchReturns, DeskTypeOK, StoreTypeOK, listVars, mapVars
<1>14. ASSUME NEW d \in Drivers, RefreshHome(d)
       PROVE  StoreTypeOK' /\ DeskTypeOK'
  <2>1. /\ mine' \in [Drivers -> [Orders -> Status \cup {NoRow}]]
        /\ homeFetch' \in [Drivers -> BOOLEAN]
    BY <1>14, <1>c DEF RefreshHome
  <2> QED BY <1>14, <2>1
    DEF RefreshHome, DeskTypeOK, StoreTypeOK, listVars, mapVars, storeVars
<1> QED
  BY <1>1, <1>2, <1>3, <1>4, <1>5, <1>6, <1>7, <1>8, <1>9, <1>10, <1>11, <1>12,
     <1>13, <1>14
  DEF DeskNext

-----------------------------------------------------------------------------
(***************************************************************************)
(* What each operation on the documents changes, field by field.           *)
(***************************************************************************)
LEMMA AddEffect ==
  ASSUME StoreTypeOK, NEW o \in Orders, AddOrder(o)
  PROVE  /\ doc'[o].exists
         /\ \A p \in Orders :
              /\ doc[p].exists => doc'[p].exists
              /\ doc'[p].hasId = doc[p].hasId
              /\ doc'[p].isRejected = doc[p].isRejected
              /\ doc'[p].status = doc[p].status
              /\ doc'[p].driverId = doc[p].driverId
  BY DEF StoreTypeOK, Doc, AddOrder

LEMMA SetIdEffect ==
  ASSUME StoreTypeOK, NEW o \in Orders, SetOrderID(o)
  PROVE  /\ doc'[o].hasId
         /\ \A p \in Orders :
              /\ doc'[p].exists = doc[p].exists
              /\ doc[p].hasId => doc'[p].hasId
              /\ p # o => doc'[p].hasId = doc[p].hasId
              /\ doc'[p].isRejected = doc[p].isRejected
              /\ doc'[p].status = doc[p].status
              /\ doc'[p].driverId = doc[p].driverId
  BY DEF StoreTypeOK, Doc, SetOrderID

LEMMA RejectEffect ==
  ASSUME StoreTypeOK, NEW o \in Orders, RejectOrder(o)
  PROVE  /\ doc'[o].isRejected
         /\ \A p \in Orders :
              /\ doc'[p].exists = doc[p].exists
              /\ doc'[p].hasId = doc[p].hasId
              /\ doc[p].isRejected => doc'[p].isRejected
              /\ p # o => doc'[p].isRejected = doc[p].isRejected
              /\ doc'[p].status = doc[p].status
              /\ doc'[p].driverId = doc[p].driverId
  BY DEF StoreTypeOK, Doc, RejectOrder

LEMMA UpdateEffect ==
  ASSUME StoreTypeOK, NEW o \in Orders, NEW s \in Status,
         NEW d \in Drivers \cup {NoDriver}, UpdateOrderStatus(o, s, d)
  PROVE  /\ doc'[o].status = s
         /\ doc'[o].driverId = IF d = NoDriver THEN doc[o].driverId ELSE d
         /\ \A p \in Orders :
              /\ doc'[p].exists = doc[p].exists
              /\ doc'[p].hasId = doc[p].hasId
              /\ doc'[p].isRejected = doc[p].isRejected
              /\ p # o => /\ doc'[p].status = doc[p].status
                          /\ doc'[p].driverId = doc[p].driverId
  BY DEF StoreTypeOK, Doc, UpdateOrderStatus

(***************************************************************************)
(* The facts about an order that no step undoes.                           *)
(***************************************************************************)
Grows ==
  \A o \in Orders :
    /\ doc[o].exists => doc'[o].exists
    /\ doc[o].hasId => doc'[o].hasId
    /\ doc[o].isRejected => doc'[o].isRejected
    /\ log[o].accepted => log'[o].accepted
    /\ log[o].refused => log'[o].refused
    /\ log[o].takers \subseteq log'[o].takers
    /\ misled[o] \subseteq misled'[o]

MisledGrows == \A o \in Orders : misled[o] \subseteq misled'[o]

(***************************************************************************)
(* The steps of a desk on the documents: nothing, or the update at the     *)
(* head of a queue, or a tap that is only logged.                          *)
(***************************************************************************)
LEMMA ApplyGrows ==
  ASSUME StoreTypeOK, MisledGrows, NEW u \in Users, NEW w \in Write, Apply(u, w)
  PROVE  /\ Grows
         /\ \A o \in Orders : /\ doc'[o].exists = doc[o].exists
                              /\ doc'[o].hasId = doc[o].hasId
                              /\ log'[o].ticks = log[o].ticks
                              /\ log'[o].refused = log[o].refused
                              /\ log'[o].takers = log[o].takers
<1>1. w.order \in Orders /\ w.status \in Status
  BY DEF Write
<1>2. CASE w.kind = "reject"
  BY <1>1, <1>2, RejectEffect DEF Apply, Grows, MisledGrows
<1>3. CASE w.kind # "reject"
  <2>1. UpdateOrderStatus(w.order, w.status, IF u \in Drivers THEN u ELSE NoDriver)
    BY <1>3 DEF Apply
  <2>2. \A p \in Orders :
          /\ doc'[p].exists = doc[p].exists
          /\ doc'[p].hasId = doc[p].hasId
          /\ doc'[p].isRejected = doc[p].isRejected
    BY <1>1, <2>1, UpdateEffect
  <2>3. log' = [log EXCEPT ![w.order].accepted = @ \/ u = Farmer]
    BY <1>3 DEF Apply
  <2>4. \A p \in Orders :
          /\ log[p].accepted => log'[p].accepted
          /\ log'[p].refused = log[p].refused
          /\ log'[p].ticks = log[p].ticks
          /\ log'[p].takers = log[p].takers
    BY <1>1, <2>3 DEF StoreTypeOK, LogEntry
  <2> QED BY <2>2, <2>4 DEF Grows, MisledGrows
<1> QED BY <1>2, <1>3

(***************************************************************************)
(* What a step of a desk does to an order: it changes nothing that only    *)
(* the customer's device may change, and each change has its cause.        *)
(***************************************************************************)
DeskEffect ==
  \A o \in Orders :
    /\ doc'[o].exists = doc[o].exists
    /\ doc'[o].hasId = doc[o].hasId
    /\ log'[o].ticks = log[o].ticks
    /\ doc'[o].isRejected = doc[o].isRejected \/ (doc[o].hasId /\ log[o].refused)
    /\ \/ doc'[o].status = doc[o].status /\ log'[o].accepted = log[o].accepted
       \/ /\ doc[o].hasId /\ doc'[o].status # Placed
          /\ log'[o].accepted \/ misled[o] # {}
          /\ doc'[o].status = Accepted => log'[o].accepted
    /\ \/ doc'[o].driverId = doc[o].driverId
       \/ doc[o].hasId /\ doc'[o].driverId \in log[o].takers \cup misled[o]
    /\ log'[o].takers = log[o].takers \/ log[o].accepted

LEMMA ApplyEffect ==
  ASSUME StoreTypeOK, DocInv, MisledGrows, NEW u \in Users, NEW w \in Write,
         WriteInv(u, w), Apply(u, w)
  PROVE  Grows /\ DeskEffect
<1>1. w.order \in Orders /\ w.status \in Status /\ w.seen \in Status
  BY DEF Write
<1>2. /\ Grows
      /\ \A o \in Orders : /\ doc'[o].exists = doc[o].exists
                           /\ doc'[o].hasId = doc[o].hasId
                           /\ log'[o].ticks = log[o].ticks
                           /\ log'[o].takers = log[o].takers
  BY ApplyGrows
<1>3. CASE w.kind = "reject"
  <2>1. RejectOrder(w.order) /\ log' = log
    BY <1>3 DEF Apply
  <2>2. log[w.order].refused /\ doc[w.order].hasId
    BY <1>3 DEF WriteInv
  <2>3. \A p \in Orders :
          /\ p # w.order => doc'[p].isRejected = doc[p].isRejected
          /\ doc'[p].status = doc[p].status
          /\ doc'[p].driverId = doc[p].driverId
    BY <1>1, <2>1, RejectEffect
  <2> QED BY <1>2, <2>1, <2>2, <2>3 DEF DeskEffect
<1>4. CASE w.kind # "reject"
  <2> DEFINE d == IF u \in Drivers THEN u ELSE NoDriver
  <2>1. UpdateOrderStatus(w.order, w.status, d)
    BY <1>4 DEF Apply
  <2>2. log' = [log EXCEPT ![w.order].accepted = @ \/ u = Farmer]
    BY <1>4 DEF Apply
  <2>3. d \in Drivers \cup {NoDriver}
    OBVIOUS
  <2>4. w.status # Placed /\ doc[w.order].hasId
    BY <1>1, <1>4 DEF WriteInv, Status, Placed
  <2>5. /\ u \in Drivers => /\ u \in log[w.order].takers \cup misled[w.order]
                            /\ w.status # Accepted
        /\ u \notin Drivers => u = Farmer /\ d = NoDriver
    BY DeskAssumption DEF WriteInv, Users
  <2>6. log'[w.order].accepted = (log[w.order].accepted \/ u = Farmer)
    BY <1>1, <2>2 DEF StoreTypeOK, LogEntry
  <2>7. \A p \in Orders : p # w.order => log'[p] = log[p]
    BY <1>1, <2>2 DEF StoreTypeOK, LogEntry
  <2>8. /\ doc'[w.order].status = w.status
        /\ doc'[w.order].driverId = IF d = NoDriver THEN doc[w.order].driverId ELSE d
        /\ \A p \in Orders :
             /\ doc'[p].isRejected = doc[p].isRejected
             /\ p # w.order => /\ doc'[p].status = doc[p].status
                               /\ doc'[p].driverId = doc[p].driverId
    <3> HIDE DEF d
    <3> QED BY <1>1, <2>1, <2>3, UpdateEffect
  <2>9. \/ doc'[w.order].driverId = doc[w.order].driverId
        \/ doc'[w.order].driverId \in log[w.order].takers \cup misled[w.order]
    BY <2>5, <2>8
  <2>10. /\ log'[w.order].accepted \/ misled[w.order] # {}
         /\ doc'[w.order].status = Accepted => log'[w.order].accepted
    BY <1>1, <2>5, <2>6, <2>8 DEF DocInv
  <2> QED BY <1>2, <2>4, <2>7, <2>8, <2>9, <2>10 DEF DeskEffect
<1> QED BY <1>3, <1>4

\* A queue of updates whose head is applied or lost, and the taps that are logged.
LEMMA DeskStepEffect ==
  ASSUME StoreTypeOK, DeskTypeOK, DocInv, DeskInv, DeskNext
  PROVE  Grows /\ DeskEffect
<1>a. \A u \in Users : detail[u] \/ selId[u] => sel[u] \in Orders
  BY DEF DeskInv, ListInv
<1>0. MisledGrows
  <2>1. CASE misled' = misled
    BY <2>1 DEF MisledGrows
  <2>2. ASSUME NEW u \in Users, ButtonReturns(u), misled' # misled
        PROVE  MisledGrows
    <3>1. PICK w : w = Head(pend[u])
      OBVIOUS
    <3>2. u \in Drivers /\ OpenSelected(u, w) /\ selId[u]
      BY <2>2, <3>1 DEF ButtonReturns, OpenSelected
    <3>3. sel[u] \in Orders
      BY <1>a, <3>2
    <3>4. sel[u] # w.order
      BY <2>2, <3>2, <3>3 DEF OpenSelected, DeskTypeOK
    <3>5. misled' = [misled EXCEPT ![sel[u]] = @ \cup {u}]
      BY <2>2, <3>2, <3>4 DEF OpenSelected
    <3> QED BY <3>3, <3>5 DEF MisledGrows, DeskTypeOK
  <2>3. misled' = misled \/ \E u \in Users : ButtonReturns(u)
    BY DEF DeskNext, GetOrders, GetOrdersListReturns, NavigateToDetailsPage,
       BackToList, TapAccept, TapReject, RefreshHome, HomeFetchReturns, OpenMap,
       MapReadReturns, TapStatus, StatusReturns, CloseMap
  <2> QED BY <2>1, <2>2, <2>3
<1>1. CASE UNCHANGED <<doc, log>>
  BY <1>0, <1>1 DEF Grows, MisledGrows, DeskEffect
<1>2. ASSUME NEW u \in Users, TapAccept(u)
      PROVE  Grows /\ DeskEffect
  <2>1. sel[u] \in Orders /\ doc' = doc
    BY <1>a, <1>2 DEF TapAccept
  <2>2. \/ log' = log
        \/ /\ log' = [log EXCEPT ![sel[u]].takers = @ \cup {u}]
           /\ log[sel[u]].accepted
    BY <1>2 DEF TapAccept, DeskInv, ListInv
  <2>3. \A o \in Orders : /\ log'[o].accepted = log[o].accepted
                          /\ log'[o].refused = log[o].refused
                          /\ log'[o].ticks = log[o].ticks
                          /\ log[o].takers \subseteq log'[o].takers
                          /\ log'[o].takers = log[o].takers \/ log[o].accepted
    BY <2>1, <2>2 DEF StoreTypeOK, LogEntry
  <2> QED BY <1>0, <2>1, <2>3 DEF Grows, MisledGrows, DeskEffect
<1>3. ASSUME NEW u \in Users, TapReject(u)
      PROVE  Grows /\ DeskEffect
  <2>1. sel[u] \in Orders /\ doc' = doc
    BY <1>a, <1>3 DEF TapReject
  <2>2. log' = [log EXCEPT ![sel[u]].refused = TRUE]
    BY <1>3 DEF TapReject
  <2>3. \A o \in Orders : /\ log'[o].accepted = log[o].accepted
                          /\ log[o].refused => log'[o].refused
                          /\ log'[o].ticks = log[o].ticks
                          /\ log'[o].takers = log[o].takers
    BY <2>1, <2>2 DEF StoreTypeOK, LogEntry
  <2> QED BY <1>0, <2>1, <2>3 DEF Grows, MisledGrows, DeskEffect
<1>4. ASSUME NEW u \in Users, pend[u] # <<>>, Apply(u, Head(pend[u]))
      PROVE  Grows /\ DeskEffect
  <2>1. /\ Head(pend[u]) = pend[u][1]
        /\ Head(pend[u]) \in Write
        /\ 1 \in 1 .. Len(pend[u])
    BY <1>4 DEF DeskTypeOK
  <2>2. WriteInv(u, Head(pend[u]))
    BY <2>1 DEF DeskInv
  <2> QED BY <1>0, <1>4, <2>1, <2>2, ApplyEffect
<1>5. ASSUME NEW u \in Users, ButtonReturns(u)
      PROVE  Grows /\ DeskEffect
  BY <1>1, <1>4, <1>5 DEF ButtonReturns
<1>6. ASSUME NEW d \in Drivers, StatusReturns(d)
      PROVE  Grows /\ DeskEffect
  BY <1>1, <1>4, <1>6 DEF StatusReturns, Users
<1>7. UNCHANGED <<doc, log>> \/ (\E u \in Users : TapAccept(u) \/ TapReject(u) \/ ButtonReturns(u))
        \/ (\E d \in Drivers : StatusReturns(d))
  BY DEF DeskNext, GetOrders, GetOrdersListReturns, NavigateToDetailsPage,
     BackToList, RefreshHome, HomeFetchReturns, OpenMap, MapReadReturns, TapStatus,
     CloseMap, storeVars
<1> QED BY <1>1, <1>2, <1>3, <1>5, <1>6, <1>7

(***************************************************************************)
(* A step of a desk preserves everything that is said of the documents and *)
(* of the customer's device.                                               *)
(***************************************************************************)
LEMMA DeskKeepsDocs ==
  ASSUME IInv, Grows, DeskEffect, UNCHANGED waitVars
  PROVE  /\ DocInv' /\ WaitInv' /\ DeliveryNeedsAcceptance' /\ DriverTookOrder'
         /\ IdlessUntouched' /\ RejectionHasCause' /\ PollVerdictTrue'
         /\ TimerHasPage'
<1> USE DEF IInv, Grows, DeskEffect
<1>1. DocInv'
  <2> SUFFICES ASSUME NEW o \in Orders
               PROVE  /\ doc'[o].hasId => doc'[o].exists
                      /\ log'[o].ticks > 0 => doc'[o].hasId
                      /\ log'[o].accepted => doc'[o].status # Placed
                      /\ doc'[o].status = Accepted => log'[o].accepted
                      /\ log'[o].takers # {} => log'[o].accepted
    BY DEF DocInv
  <2> QED BY DEF DocInv
<1>2. WaitInv'
  <2>1. /\ checkout.order \in Orders \cup {NoOrder}
        /\ ctl.order \in Orders \cup {NoOrder}
    BY DEF TypeOK, WaitTypeOK, OrderId
  <2>2. UNCHANGED <<checkout, stack, ctl, polls, rejecting>>
    BY DEF waitVars
  <2>3. (checkout.step = "added" =>
          checkout.order \in Orders /\ doc[checkout.order].exists)'
    BY <2>2 DEF WaitInv
  <2>4. (checkout.order # NoOrder =>
          /\ doc[checkout.order].exists
          /\ checkout.step = "done" => doc[checkout.order].hasId
          /\ log[checkout.order].ticks = 0
          /\ ctl.order # checkout.order)'
    BY <2>1, <2>2 DEF WaitInv
  <2>5. (ctl.order # NoOrder =>
          /\ doc[ctl.order].hasId
          /\ ctl.remaining + log[ctl.order].ticks = Countdown)'
    BY <2>1, <2>2 DEF WaitInv
  <2>6. (\A o \in Orders :
          /\ rejecting[o] => doc[o].hasId /\ log[o].ticks = Countdown
          /\ polls[o].accepted > 0 => log[o].accepted)'
    BY <2>2 DEF WaitInv
  <2> QED BY <2>2, <2>3, <2>4, <2>5, <2>6 DEF WaitInv
<1>3. DeliveryNeedsAcceptance'
  <2> SUFFICES ASSUME NEW o \in Orders,
                      doc'[o].status # Placed \/ doc'[o].driverId # NoDriver
               PROVE  log'[o].accepted \/ misled'[o] # {}
    BY DEF DeliveryNeedsAcceptance
  <2>1. log[o].accepted \/ misled[o] # {} \/ log'[o].accepted
    BY DEF DeliveryNeedsAcceptance, DocInv
  <2> QED BY <2>1
<1>4. DriverTookOrder'
  BY DEF DriverTookOrder
<1>5. IdlessUntouched'
  BY DEF IdlessUntouched
<1>6. RejectionHasCause'
  BY DEF RejectionHasCause
<1>7. PollVerdictTrue'
  BY DEF PollVerdictTrue, waitVars
<1>8. TimerHasPage'
  <2>1. UNCHANGED <<stack, ctl>>
    BY DEF waitVars
  <2> QED BY <2>1 DEF TimerHasPage, HasTimer
<1> QED BY <1>1, <1>2, <1>3, <1>4, <1>5, <1>6, <1>7, <1>8

(***************************************************************************)
(* What a step of the customer's device does to an order.                  *)
(***************************************************************************)
WaitEffect ==
  \A o \in Orders :
    /\ doc'[o].status = doc[o].status
    /\ doc'[o].driverId = doc[o].driverId
    /\ log'[o].accepted = log[o].accepted
    /\ log'[o].refused = log[o].refused
    /\ log'[o].takers = log[o].takers
    /\ doc'[o].isRejected = doc[o].isRejected \/ rejecting[o]
    /\ doc'[o].hasId = doc[o].hasId \/ doc[o].exists
    /\ \/ log'[o].ticks = log[o].ticks
       \/ /\ o = ctl.order /\ ctl.remaining > 0
          /\ log'[o].ticks = log[o].ticks + 1

LEMMA WaitStepEffect ==
  ASSUME IInv, WaitNext, UNCHANGED misled
  PROVE  Grows /\ WaitEffect
<1> USE DEF IInv, TypeOK
<1>1. CASE UNCHANGED <<doc, log>>
  BY <1>1 DEF Grows, WaitEffect
<1>2. ASSUME NEW o \in Orders, PlaceOrder(o)
      PROVE  Grows /\ WaitEffect
  <2>1. CASE AddOrder(o) /\ log' = log
    BY <2>1, AddEffect DEF Grows, WaitEffect
  <2> QED BY <1>1, <1>2, <2>1 DEF PlaceOrder
<1>3. CASE PlaceOrderSetsID
  <2>1. checkout.order \in Orders /\ doc[checkout.order].exists
    BY <1>3 DEF PlaceOrderSetsID, WaitInv
  <2>2. CASE SetOrderID(checkout.order) /\ log' = log
    BY <2>1, <2>2, SetIdEffect DEF Grows, WaitEffect
  <2> QED BY <1>1, <1>3, <2>2 DEF PlaceOrderSetsID
<1>4. CASE Tick
  <2>1. ctl.order \in Orders
    BY <1>4 DEF Tick, TimerHasPage
  <2>2. /\ log'[ctl.order].ticks = log[ctl.order].ticks + 1
        /\ \A o \in Orders : o # ctl.order => log'[o] = log[o]
        /\ \A o \in Orders : /\ log'[o].accepted = log[o].accepted
                             /\ log'[o].refused = log[o].refused
                             /\ log'[o].takers = log[o].takers
    BY <1>4, <2>1 DEF Tick, StoreTypeOK, LogEntry
  <2>3. doc' = doc /\ ctl.remaining > 0
    BY <1>4 DEF Tick
  <2> QED BY <2>2, <2>3 DEF Grows, WaitEffect
<1>5. ASSUME NEW o \in Orders, AutoRejectReturns(o)
      PROVE  Grows /\ WaitEffect
  <2>1. CASE RejectOrder(o) /\ log' = log /\ rejecting[o]
    BY <2>1, RejectEffect DEF Grows, WaitEffect
  <2> QED BY <1>1, <1>5, <2>1 DEF AutoRejectReturns
<1>6. \/ UNCHANGED <<doc, log>> \/ PlaceOrderSetsID \/ Tick
      \/ \E o \in Orders : PlaceOrder(o) \/ AutoRejectReturns(o)
  BY DEF WaitNext, WaitProgram, WaitUser, OpenTimer, Expire, PollReadsStatus,
     PollConfirms, PollReadsRejected, LeaveTimer, Back, LeaveTrack, storeVars
<1> QED BY <1>1, <1>2, <1>3, <1>4, <1>5, <1>6

LEMMA WaitKeepsDocs ==
  ASSUME IInv, Grows, WaitEffect, TypeOK'
  PROVE  /\ DocInv' /\ DeliveryNeedsAcceptance' /\ DriverTookOrder'
         /\ IdlessUntouched' /\ RejectionHasCause'
<1> USE DEF IInv, Grows, WaitEffect
<1>1. DocInv'
  <2> SUFFICES ASSUME NEW o \in Orders
               PROVE  /\ doc'[o].hasId => doc'[o].exists
                      /\ log'[o].ticks > 0 => doc'[o].hasId
                      /\ log'[o].accepted => doc'[o].status # Placed
                      /\ doc'[o].status = Accepted => log'[o].accepted
                      /\ log'[o].takers # {} => log'[o].accepted
    BY DEF DocInv
  <2>1. o = ctl.order => doc[o].hasId
    BY StoreAssumption DEF WaitInv
  <2>2. log[o].ticks \in Nat
    BY DEF TypeOK, StoreTypeOK, LogEntry
  <2> QED BY <2>1, <2>2 DEF DocInv
<1>2. DeliveryNeedsAcceptance'
  BY DEF DeliveryNeedsAcceptance
<1>3. DriverTookOrder'
  BY DEF DriverTookOrder
<1>4. IdlessUntouched'
  BY DEF IdlessUntouched, WaitInv
<1>5. RejectionHasCause'
  <2> SUFFICES ASSUME NEW o \in Orders, doc'[o].isRejected
               PROVE  log'[o].refused \/ log'[o].ticks = Countdown
    BY DEF RejectionHasCause
  <2>1. log[o].refused \/ log[o].ticks = Countdown
    BY DEF RejectionHasCause, WaitInv
  <2>2. o = ctl.order => ctl.remaining + log[o].ticks = Countdown
    BY StoreAssumption DEF WaitInv
  <2>3. log[o].ticks \in Nat /\ ctl.remaining \in Int
    BY DEF TypeOK, StoreTypeOK, LogEntry, WaitTypeOK
  <2>4. log'[o].ticks = log[o].ticks \/ log[o].ticks # Countdown
    BY <2>2, <2>3, WaitAssumption
  <2> QED BY <2>1, <2>4
<1> QED BY <1>1, <1>2, <1>3, <1>4, <1>5

(***************************************************************************)
(* WaitInv in parts, so that a step is charged only with what it disturbs. *)
(***************************************************************************)
CheckoutInv ==
  /\ checkout.step = "added" =>
       checkout.order \in Orders /\ doc[checkout.order].exists
  /\ checkout.order # NoOrder =>
       /\ doc[checkout.order].exists
       /\ checkout.step = "done" => doc[checkout.order].hasId
       /\ log[checkout.order].ticks = 0
       /\ ctl.order # checkout.order

ControllerInv ==
  ctl.order # NoOrder =>
    /\ doc[ctl.order].hasId
    /\ ctl.remaining + log[ctl.order].ticks = Countdown

PollInv ==
  \A o \in Orders :
    /\ rejecting[o] => doc[o].hasId /\ log[o].ticks = Countdown
    /\ polls[o].accepted > 0 => log[o].accepted

LEMMA WaitInvParts ==
  WaitInv <=> Len(stack) > 0 /\ CheckoutInv /\ ControllerInv /\ PollInv
  BY DEF WaitInv, CheckoutInv, ControllerInv, PollInv

\* Pushing a page hides no countdown page, and pushing the countdown page shows one.
LEMMA PushKeepsTimer ==
  ASSUME StackOK, NEW p \in Pages
  PROVE  /\ HasTimer(stack) => HasTimer(Push(p))
         /\ HasTimer(Push("timer"))
<1>1. ASSUME NEW q \in Pages
      PROVE  /\ HasTimer(stack) => HasTimer(Append(stack, q))
             /\ HasTimer(Append(stack, "timer"))
  BY DEF StackOK, HasTimer, Pages
<1>2. Top = "timer" => HasTimer(stack)
  BY DEF StackOK, HasTimer, Top
<1> QED BY <1>1, <1>2 DEF Push, Pages

\* What Tell and ShowStack do to the controller.
LEMMA TellKeepsController ==
  ASSUME IInv, NEW o \in Orders, NEW v, NEW p \in Pages, Tell(o, v, p)
  PROVE  /\ ctl'.order = ctl.order /\ ctl'.remaining = ctl.remaining
         /\ ctl'.on => ctl.on /\ HasTimer(stack')
         /\ \A q \in Orders : told'[q] = IF q = o THEN told[q] \cup {v} ELSE told[q]
<1>1. StackOK
  BY DEF IInv, WaitInv, TypeOK, WaitTypeOK, StackOK
<1>2. stack' = Push(p) /\ (HasTimer(stack) => HasTimer(Push(p)))
  BY <1>1, PushKeepsTimer DEF Tell
<1>3. /\ ctl'.order = ctl.order /\ ctl'.remaining = ctl.remaining
      /\ ctl'.on => ctl.on
  BY DEF Tell, IInv, TypeOK, WaitTypeOK
<1>4. \A q \in Orders : told'[q] = IF q = o THEN told[q] \cup {v} ELSE told[q]
  BY DEF Tell, IInv, TypeOK, WaitTypeOK
<1>5. HasTimer(stack) => HasTimer(stack')
  BY <1>2 DEF HasTimer
<1> QED BY <1>3, <1>4, <1>5 DEF IInv, TimerHasPage

LEMMA ShowStackController ==
  ASSUME NEW s, ShowStack(s)
  PROVE  \/ ctl' = ctl /\ HasTimer(stack')
         \/ ctl'.order = NoOrder /\ ~ctl'.on
<1>1. stack' = s
  BY DEF ShowStack
<1>2. CASE HasTimer(s)
  BY <1>1, <1>2 DEF ShowStack, HasTimer
<1>3. CASE ~HasTimer(s)
  BY <1>3 DEF ShowStack, NoController
<1> QED BY <1>2, <1>3

(***************************************************************************)
(* The parts of WaitInv survive a step that leaves alone the state they    *)
(* are about, since what they say of the documents is never undone.        *)
(***************************************************************************)
LEMMA CheckoutFrame ==
  ASSUME IInv, Grows, log' = log, checkout' = checkout,
         ctl'.order = ctl.order \/ ctl'.order = NoOrder
  PROVE  CheckoutInv'
<1>1. checkout.order \in Orders \cup {NoOrder}
  BY DEF IInv, TypeOK, WaitTypeOK, OrderId
<1>2. CheckoutInv
  BY WaitInvParts DEF IInv
<1> QED BY <1>1, <1>2 DEF CheckoutInv, Grows

LEMMA ControllerFrame ==
  ASSUME IInv, Grows, log' = log,
         \/ ctl'.order = ctl.order /\ ctl'.remaining = ctl.remaining
         \/ ctl'.order = NoOrder
  PROVE  ControllerInv'
<1>1. ctl.order \in Orders \cup {NoOrder}
  BY DEF IInv, TypeOK, WaitTypeOK, OrderId
<1>2. ControllerInv
  BY WaitInvParts DEF IInv
<1> QED BY <1>1, <1>2 DEF ControllerInv, Grows

LEMMA PollFrame ==
  ASSUME IInv, Grows, log' = log,
         \A o \in Orders : /\ rejecting'[o] => rejecting[o]
                           /\ polls'[o].accepted > 0 => polls[o].accepted > 0
  PROVE  PollInv'
<1>1. PollInv
  BY WaitInvParts DEF IInv
<1> QED BY <1>1 DEF PollInv, Grows

LEMMA VerdictFrame ==
  ASSUME IInv, Grows, told' = told
  PROVE  PollVerdictTrue'
  BY DEF IInv, PollVerdictTrue, Grows

LEMMA TimerFrame ==
  ASSUME IInv, Grows, ctl'.order = ctl.order, ctl'.on => ctl.on /\ HasTimer(stack')
  PROVE  TimerHasPage'
<1>1. ctl.on => ctl.order \in Orders /\ doc[ctl.order].hasId
  BY DEF IInv, TimerHasPage
<1>2. ctl'.on => HasTimer(stack') /\ ctl'.order \in Orders /\ doc'[ctl'.order].hasId
  BY <1>1 DEF Grows
<1> QED BY <1>2 DEF TimerHasPage, HasTimer

\* No step but Tick touches the history of the countdown.
LEMMA StackKept ==
  ASSUME IInv, UNCHANGED stack
  PROVE  (ctl.on => HasTimer(stack')) /\ (HasTimer(stack) => HasTimer(stack'))
  BY DEF IInv, TimerHasPage, HasTimer

(***************************************************************************)
(* Every step of the customer's device preserves what is said of that      *)
(* device.                                                                 *)
(***************************************************************************)
LEMMA WaitKeepsWait ==
  ASSUME IInv, WaitNext, Grows, WaitEffect
  PROVE  CheckoutInv' /\ ControllerInv' /\ PollInv' /\ PollVerdictTrue' /\ TimerHasPage'
<1> DEFINE Goal == CheckoutInv' /\ ControllerInv' /\ PollInv' /\ PollVerdictTrue'
                     /\ TimerHasPage'
<1>a. /\ CheckoutInv /\ ControllerInv /\ PollInv
      /\ StackOK
      /\ checkout.order \in Orders \cup {NoOrder}
      /\ ctl.order \in Orders \cup {NoOrder}
  BY WaitInvParts DEF IInv, TypeOK, WaitTypeOK, OrderId, StackOK
<1>b. /\ ctl \in [order : OrderId, remaining : 0 .. Countdown, on : BOOLEAN]
      /\ polls \in [Orders -> PollCount]
      /\ rejecting \in [Orders -> BOOLEAN]
      /\ told \in [Orders -> SUBSET Verdicts]
      /\ doc \in [Orders -> Doc] /\ log \in [Orders -> LogEntry]
  BY DEF IInv, TypeOK, WaitTypeOK, StoreTypeOK
<1>1. ASSUME NEW o \in Orders, PlaceOrder(o)
      PROVE  Goal
  <2>1. UNCHANGED <<log, stack, ctl, polls, rejecting, told>>
    BY <1>1 DEF PlaceOrder
  <2>2. ~doc[o].hasId /\ log[o].ticks = 0 /\ ctl.order # o
    <3>1. ~doc[o].hasId /\ ~(log[o].ticks > 0)
      BY <1>1 DEF PlaceOrder, IInv, DocInv
    <3>2. log[o].ticks \in Nat
      BY <1>b DEF LogEntry
    <3> QED BY <3>1, <3>2, <1>a, StoreAssumption DEF ControllerInv
  <2>3. CheckoutInv'
    <3>1. CASE checkout' = [step |-> "added", order |-> o] /\ AddOrder(o)
      <4>1. doc'[o].exists
        BY <3>1, AddEffect DEF IInv, TypeOK
      <4> QED BY <2>1, <2>2, <3>1, <4>1 DEF CheckoutInv
    <3>2. CASE checkout' = [step |-> "done", order |-> NoOrder]
      BY <3>2 DEF CheckoutInv
    <3> QED BY <1>1, <3>1, <3>2 DEF PlaceOrder
  <2>4. ControllerInv' /\ PollInv' /\ PollVerdictTrue' /\ TimerHasPage'
    BY <2>1, ControllerFrame, PollFrame, VerdictFrame, TimerFrame, StackKept
  <2> QED BY <2>3, <2>4
<1>2. CASE PlaceOrderSetsID
  <2>1. UNCHANGED <<log, stack, ctl, polls, rejecting, told>>
    BY <1>2 DEF PlaceOrderSetsID
  <2>2. CheckoutInv'
    <3>0. checkout.order \in Orders /\ checkout.order # NoOrder
      BY <1>a, <1>2, StoreAssumption DEF PlaceOrderSetsID, CheckoutInv
    <3>1. CASE checkout' = [checkout EXCEPT !.step = "done"] /\ SetOrderID(checkout.order)
      <4>1. doc'[checkout.order].hasId /\ doc'[checkout.order].exists
        BY <1>a, <3>0, <3>1, SetIdEffect DEF IInv, TypeOK, CheckoutInv
      <4>2. checkout'.order = checkout.order /\ checkout'.step = "done"
        BY <3>1 DEF IInv, TypeOK, WaitTypeOK
      <4> QED BY <1>a, <2>1, <3>0, <4>1, <4>2 DEF CheckoutInv
    <3>2. CASE checkout' = [step |-> "done", order |-> NoOrder]
      BY <3>2 DEF CheckoutInv
    <3> QED BY <1>2, <3>1, <3>2 DEF PlaceOrderSetsID
  <2>3. ControllerInv' /\ PollInv' /\ PollVerdictTrue' /\ TimerHasPage'
    BY <2>1, ControllerFrame, PollFrame, VerdictFrame, TimerFrame, StackKept
  <2> QED BY <2>2, <2>3
<1>3. CASE OpenTimer
  <2>1. /\ UNCHANGED <<log, doc, polls, rejecting, told>>
        /\ checkout' = Idle /\ stack' = Push("timer")
        /\ ctl' = TimerController(checkout.order)
        /\ checkout.step = "done"
    BY <1>3 DEF OpenTimer, storeVars
  <2>2. CheckoutInv'
    BY <2>1 DEF CheckoutInv, Idle
  <2>3. HasTimer(stack')
    <3>1. "timer" \in Pages
      BY DEF Pages
    <3>2. HasTimer(Push("timer"))
      BY <1>a, <3>1, PushKeepsTimer
    <3> QED BY <2>1, <3>2 DEF HasTimer
  <2>4. ControllerInv' /\ TimerHasPage'
    <3>1. CASE HasTimer(stack)
      <4>1. ctl' = ctl
        BY <2>1, <3>1 DEF TimerController
      <4> QED BY <2>1, <2>3, <4>1, ControllerFrame, TimerFrame
    <3>2. CASE ~HasTimer(stack)
      <4>1. ctl' = [order |-> checkout.order, remaining |-> Countdown,
                    on |-> checkout.order # NoOrder]
        BY <2>1, <3>2 DEF TimerController
      <4>2. /\ ctl'.order = checkout.order /\ ctl'.remaining = Countdown
            /\ ctl'.on <=> checkout.order # NoOrder
        BY <4>1
      <4>3. checkout.order # NoOrder =>
              doc[checkout.order].hasId /\ log[checkout.order].ticks = 0
        BY <1>a, <2>1 DEF CheckoutInv
      <4>4. ControllerInv'
        BY <2>1, <4>2, <4>3, WaitAssumption DEF ControllerInv
      <4>5. ctl'.on => HasTimer(stack') /\ ctl'.order \in Orders /\ doc'[ctl'.order].hasId
        BY <1>a, <2>1, <2>3, <4>2, <4>3
      <4>6. TimerHasPage'
        BY <4>5 DEF TimerHasPage, HasTimer
      <4> QED BY <4>4, <4>6
    <3> QED BY <3>1, <3>2
  <2>5. PollInv' /\ PollVerdictTrue'
    BY <2>1, PollFrame, VerdictFrame
  <2> QED BY <2>2, <2>4, <2>5
<1>4. CASE Tick
  <2>1. /\ ctl.order \in Orders /\ ctl.order # NoOrder
        /\ ctl.remaining > 0 /\ ctl.on
        /\ UNCHANGED <<checkout, stack, rejecting, told, doc>>
        /\ ctl' = [ctl EXCEPT !.remaining = @ - 1]
        /\ log' = [log EXCEPT ![ctl.order].ticks = @ + 1]
        /\ polls' = [polls EXCEPT ![ctl.order].started = @ + 1]
    BY <1>4, StoreAssumption DEF Tick, IInv, TimerHasPage
  <2>2. /\ ctl'.order = ctl.order /\ ctl'.on = ctl.on
        /\ ctl'.remaining = ctl.remaining - 1
    BY <1>b, <2>1
  <2>3. /\ log'[ctl.order].ticks = log[ctl.order].ticks + 1
        /\ \A o \in Orders : o # ctl.order => log'[o].ticks = log[o].ticks
        /\ log[ctl.order].ticks \in Nat /\ ctl.remaining \in Nat
    BY <1>b, <2>1 DEF LogEntry
  <2>4. CheckoutInv'
    BY <1>a, <2>1, <2>2, <2>3 DEF CheckoutInv
  <2>5. ControllerInv'
    BY <1>a, <2>1, <2>2, <2>3, WaitAssumption DEF ControllerInv
  <2>6. PollInv'
    <3> SUFFICES ASSUME NEW o \in Orders
                 PROVE  /\ rejecting'[o] => doc'[o].hasId /\ log'[o].ticks = Countdown
                        /\ polls'[o].accepted > 0 => log'[o].accepted
      BY DEF PollInv
    <3>1. polls'[o].accepted = polls[o].accepted
      BY <1>b, <2>1 DEF PollCount
    <3>2. o = ctl.order => log[o].ticks # Countdown
      BY <1>a, <2>1, <2>3, WaitAssumption DEF ControllerInv
    <3> QED BY <1>a, <2>1, <2>3, <3>1, <3>2 DEF PollInv, Grows
  <2>7. PollVerdictTrue' /\ TimerHasPage'
    BY <2>1, <2>2, VerdictFrame, TimerFrame, StackKept
  <2> QED BY <2>4, <2>5, <2>6, <2>7
<1>5. CASE Expire
  <2>1. /\ ctl.order \in Orders /\ ctl.order # NoOrder
        /\ ctl.remaining <= 0
        /\ UNCHANGED <<checkout, stack, told, polls, doc, log>>
        /\ ctl' = [ctl EXCEPT !.on = FALSE]
        /\ rejecting' = [rejecting EXCEPT ![ctl.order] = TRUE]
    BY <1>5, StoreAssumption DEF Expire, IInv, TimerHasPage, storeVars
  <2>2. ctl'.order = ctl.order /\ ctl'.remaining = ctl.remaining /\ ~ctl'.on
    BY <1>b, <2>1
  <2>3. CheckoutInv' /\ ControllerInv' /\ PollVerdictTrue' /\ TimerHasPage'
    BY <2>1, <2>2, CheckoutFrame, ControllerFrame, VerdictFrame, TimerFrame
  <2>4. doc[ctl.order].hasId /\ log[ctl.order].ticks = Countdown
    <3>1. log[ctl.order].ticks \in Nat /\ ctl.remaining = 0
      BY <1>b, <2>1 DEF LogEntry
    <3> QED BY <1>a, <2>1, <3>1, WaitAssumption DEF ControllerInv
  <2>5. PollInv'
    BY <1>a, <1>b, <2>1, <2>4 DEF PollInv
  <2> QED BY <2>3, <2>5
<1>6. ASSUME NEW o \in Orders, PollReadsStatus(o)
      PROVE  Goal
  <2>1. UNCHANGED <<checkout, stack, ctl, rejecting, told, doc, log>>
    BY <1>6 DEF PollReadsStatus
  <2>2. CheckoutInv' /\ ControllerInv' /\ PollVerdictTrue' /\ TimerHasPage'
    BY <2>1, CheckoutFrame, ControllerFrame, VerdictFrame, TimerFrame, StackKept
  <2>3. PICK b \in BOOLEAN : /\ b => doc[o].status = Accepted
                             /\ polls' = [polls EXCEPT ![o] = StatusRead(@, b)]
    BY <1>6 DEF PollReadsStatus
  <2>4. b => log[o].accepted
    BY <2>3 DEF IInv, DocInv
  <2>5. polls'[o].accepted = IF b THEN polls[o].accepted + 1 ELSE polls[o].accepted
    BY <1>b, <2>3 DEF StatusRead
  <2>6. \A q \in Orders : q # o => polls'[q] = polls[q]
    BY <1>b, <2>3
  <2>7. PollInv'
    BY <1>a, <2>1, <2>4, <2>5, <2>6 DEF PollInv
  <2> QED BY <2>2, <2>7
<1>7. ASSUME NEW o \in Orders, PollConfirms(o)
      PROVE  Goal
  <2>1. /\ UNCHANGED <<checkout, rejecting, doc, log>>
        /\ polls[o].accepted > 0
        /\ polls' = [polls EXCEPT ![o].accepted = @ - 1]
        /\ Tell(o, "confirmed", "track")
    BY <1>7 DEF PollConfirms, storeVars
  <2>2. /\ ctl'.order = ctl.order /\ ctl'.remaining = ctl.remaining
        /\ ctl'.on => ctl.on /\ HasTimer(stack')
        /\ \A q \in Orders : told'[q] = IF q = o THEN told[q] \cup {"confirmed"} ELSE told[q]
    BY <2>1, TellKeepsController DEF Pages
  <2>3. \A q \in Orders : polls'[q].accepted > 0 => polls[q].accepted > 0
    BY <1>b, <2>1 DEF PollCount
  <2>4. CheckoutInv' /\ ControllerInv' /\ PollInv' /\ TimerHasPage'
    BY <2>1, <2>2, <2>3, CheckoutFrame, ControllerFrame, PollFrame, TimerFrame
  <2>5. PollVerdictTrue'
    BY <1>a, <2>1, <2>2 DEF PollVerdictTrue, IInv, PollInv
  <2> QED BY <2>4, <2>5
<1>8. ASSUME NEW o \in Orders, PollReadsRejected(o)
      PROVE  Goal
  <2>1. /\ UNCHANGED <<checkout, rejecting, doc, log>>
        /\ polls' = [polls EXCEPT ![o].other = @ - 1]
        /\ \/ doc[o].isRejected /\ Tell(o, "rejected", "home")
           \/ UNCHANGED <<stack, ctl, told>>
    BY <1>8 DEF PollReadsRejected
  <2>2. \A q \in Orders : polls'[q].accepted = polls[q].accepted
    BY <1>b, <2>1 DEF PollCount
  <2>3. CASE doc[o].isRejected /\ Tell(o, "rejected", "home")
    <3>1. /\ ctl'.order = ctl.order /\ ctl'.remaining = ctl.remaining
          /\ ctl'.on => ctl.on /\ HasTimer(stack')
          /\ \A q \in Orders : told'[q] = IF q = o THEN told[q] \cup {"rejected"} ELSE told[q]
      BY <2>3, TellKeepsController DEF Pages
    <3>2. CheckoutInv' /\ ControllerInv' /\ PollInv' /\ TimerHasPage'
      BY <2>1, <2>2, <3>1, CheckoutFrame, ControllerFrame, PollFrame, TimerFrame
    <3>3. PollVerdictTrue'
      BY <2>1, <2>3, <3>1 DEF PollVerdictTrue, IInv
    <3> QED BY <3>2, <3>3
  <2>4. CASE UNCHANGED <<stack, ctl, told>>
    BY <2>1, <2>2, <2>4, CheckoutFrame, ControllerFrame, PollFrame, VerdictFrame,
       TimerFrame, StackKept
  <2> QED BY <2>1, <2>3, <2>4
<1>9. ASSUME NEW o \in Orders, AutoRejectReturns(o)
      PROVE  Goal
  <2>1. /\ UNCHANGED <<checkout, polls, log>>
        /\ rejecting' = [rejecting EXCEPT ![o] = FALSE]
        /\ Tell(o, "timeout", "home")
    BY <1>9 DEF AutoRejectReturns
  <2>2. /\ ctl'.order = ctl.order /\ ctl'.remaining = ctl.remaining
        /\ ctl'.on => ctl.on /\ HasTimer(stack')
        /\ \A q \in Orders : told'[q] = IF q = o THEN told[q] \cup {"timeout"} ELSE told[q]
    BY <2>1, TellKeepsController DEF Pages
  <2>3. \A q \in Orders : rejecting'[q] => rejecting[q]
    BY <1>b, <2>1
  <2>4. CheckoutInv' /\ ControllerInv' /\ PollInv' /\ TimerHasPage'
    BY <2>1, <2>2, <2>3, CheckoutFrame, ControllerFrame, PollFrame, TimerFrame
  <2>5. PollVerdictTrue'
    <3>1. \A q \in Orders : /\ "confirmed" \in told'[q] => "confirmed" \in told[q]
                            /\ "rejected" \in told'[q] => "rejected" \in told[q]
      <4> SUFFICES ASSUME NEW q \in Orders
                   PROVE  /\ "confirmed" \in told'[q] => "confirmed" \in told[q]
                          /\ "rejected" \in told'[q] => "rejected" \in told[q]
        OBVIOUS
      <4>1. told'[q] = told[q] \/ told'[q] = told[q] \cup {"timeout"}
        BY <2>2
      <4>2. "confirmed" # "timeout" /\ "rejected" # "timeout"
        OBVIOUS
      <4> QED BY <4>1, <4>2
    <3> QED BY <3>1 DEF PollVerdictTrue, IInv, Grows
  <2> QED BY <2>4, <2>5
<1>10. CASE LeaveTimer \/ Back \/ LeaveTrack
  <2>1. /\ UNCHANGED <<checkout, polls, rejecting, told, doc, log>>
        /\ \E s : ShowStack(s)
    BY <1>10 DEF LeaveTimer, Back, LeaveTrack, storeVars
  <2>2. \/ ctl' = ctl /\ HasTimer(stack')
        \/ ctl'.order = NoOrder /\ ~ctl'.on
    BY <2>1, ShowStackController
  <2>3. CheckoutInv' /\ ControllerInv' /\ PollInv' /\ PollVerdictTrue'
    BY <2>1, <2>2, CheckoutFrame, ControllerFrame, PollFrame, VerdictFrame
  <2>4. TimerHasPage'
    <3>1. CASE ctl' = ctl /\ HasTimer(stack')
      BY <3>1, TimerFrame
    <3>2. CASE ~ctl'.on
      BY <3>2 DEF TimerHasPage
    <3> QED BY <2>2, <3>1, <3>2
  <2> QED BY <2>3, <2>4
<1> QED
  BY <1>1, <1>2, <1>3, <1>4, <1>5, <1>6, <1>7, <1>8, <1>9, <1>10
  DEF WaitNext, WaitProgram, WaitUser

(***************************************************************************)
(* What a desk keeps about the documents survives every step that does not *)
(* touch that desk's own state.                                            *)
(***************************************************************************)
LEMMA ListFrame ==
  ASSUME DeskTypeOK, Grows, NEW u \in Users, ListInv(u),
         rows'[u] = rows[u] \/ rows'[u] = NoRows,
         detail'[u] => detail[u], sel'[u] = sel[u], selId'[u] = selId[u],
         showAccept'[u] => showAccept[u]
  PROVE  ListInv(u)'
<1>1. sel[u] \in Orders \cup {NoOrder}
  BY DEF DeskTypeOK
<1>2. (\A o \in Orders : rows[u][o] # NoRow =>
         /\ rows[u][o].hasId => doc[o].hasId
         /\ rows[u][o].status = Accepted => log[o].accepted)'
  BY DEF ListInv, Grows, NoRows
<1>3. (/\ detail[u] \/ selId[u] => sel[u] \in Orders
       /\ selId[u] => doc[sel[u]].hasId
       /\ u \in Drivers /\ detail[u] /\ showAccept[u] => log[sel[u]].accepted)'
  BY <1>1 DEF ListInv, Grows
<1> QED BY <1>2, <1>3 DEF ListInv

LEMMA WriteFrame ==
  ASSUME Grows, NEW u \in Users, NEW w \in Write, WriteInv(u, w)
  PROVE  WriteInv(u, w)'
<1>1. w.order \in Orders
  BY DEF Write
<1> QED BY <1>1 DEF WriteInv, Grows

LEMMA QueueFrame ==
  ASSUME DeskTypeOK, Grows, NEW u \in Users,
         \A i \in 1 .. Len(pend[u]) : WriteInv(u, pend[u][i]),
         pend'[u] = pend[u]
  PROVE  (\A i \in 1 .. Len(pend[u]) : WriteInv(u, pend[u][i]))'
<1> SUFFICES ASSUME NEW i \in 1 .. Len(pend[u])
             PROVE  WriteInv(u, pend[u][i])'
  OBVIOUS
<1>1. pend[u][i] \in Write /\ WriteInv(u, pend[u][i])
  BY DEF DeskTypeOK
<1> QED BY <1>1, WriteFrame DEF WriteInv

LEMMA MapFrame ==
  ASSUME DeskTypeOK, Grows, NEW d \in Drivers, MapInv(d),
         map'[d] = map[d] \/ map'[d] = NoOrder,
         map'[d] = NoOrder => mapRead'[d] = "none",
         mine'[d] = mine[d] \/ mine'[d] = NoRows
  PROVE  MapInv(d)'
<1>1. map[d] \in Orders \cup {NoOrder}
  BY DEF DeskTypeOK
<1>2. (map[d] # NoOrder =>
         doc[map[d]].hasId /\ d \in log[map[d]].takers \cup misled[map[d]])'
  BY <1>1 DEF MapInv, Grows
<1>3. (\A o \in Orders :
         mine[d][o] # NoRow => doc[o].hasId /\ d \in log[o].takers \cup misled[o])'
  BY DEF MapInv, Grows, NoRows
<1> QED BY <1>2, <1>3 DEF MapInv

(***************************************************************************)
(* The parts of DeskInv under the steps of the desks.                      *)
(***************************************************************************)
ListsInv == \A u \in Users : ListInv(u) /\ (showReject[u] => u = Farmer)
QueuesInv == \A u \in Users : \A i \in 1 .. Len(pend[u]) : WriteInv(u, pend[u][i])
MapsInv == \A d \in Drivers : MapInv(d)

LEMMA DeskInvParts == DeskInv <=> ListsInv /\ QueuesInv /\ MapsInv
  BY DEF DeskInv, ListsInv, QueuesInv, MapsInv

\* A step leaves the list and the detail page of user v alone.
SameList(v) ==
  /\ rows'[v] = rows[v]
  /\ detail'[v] = detail[v]
  /\ sel'[v] = sel[v]
  /\ selId'[v] = selId[v]
  /\ showAccept'[v] = showAccept[v]
  /\ showReject'[v] = showReject[v]

\* A step leaves the delivery page of driver d alone, or closes it.
SameMap(d) ==
  /\ map'[d] = map[d] \/ map'[d] = NoOrder
  /\ map'[d] = NoOrder => mapRead'[d] = "none"
  /\ mine'[d] = mine[d] \/ mine'[d] = NoRows

LEMMA ListsKept ==
  ASSUME DeskTypeOK, ListsInv, Grows, \A u \in Users : SameList(u)
  PROVE  ListsInv'
<1> SUFFICES ASSUME NEW u \in Users PROVE ListInv(u)' /\ (showReject'[u] => u = Farmer)
  BY DEF ListsInv
<1> QED BY ListFrame DEF ListsInv, SameList

LEMMA QueuesKept ==
  ASSUME DeskTypeOK, QueuesInv, Grows, UNCHANGED pend
  PROVE  QueuesInv'
<1> SUFFICES ASSUME NEW u \in Users
             PROVE  (\A i \in 1 .. Len(pend[u]) : WriteInv(u, pend[u][i]))'
  BY DEF QueuesInv
<1> QED BY QueueFrame DEF QueuesInv

LEMMA MapsKept ==
  ASSUME DeskTypeOK, MapsInv, Grows, \A d \in Drivers : SameMap(d)
  PROVE  MapsInv'
  BY MapFrame DEF MapsInv, SameMap

\* Only driver d's delivery page changes, and his new one is sound.
LEMMA MapStep ==
  ASSUME DeskTypeOK, MapsInv, Grows, NEW d \in Drivers, MapInv(d)',
         \A e \in Drivers : e # d => SameMap(e)
  PROVE  MapsInv'
<1> SUFFICES ASSUME NEW e \in Drivers PROVE MapInv(e)'
  BY DEF MapsInv
<1>1. CASE e = d
  BY <1>1
<1>2. CASE e # d
  BY <1>2, MapFrame DEF MapsInv, SameMap
<1> QED BY <1>1, <1>2

LEMMA SameWhenUnchanged ==
  /\ UNCHANGED <<rows, detail, sel, selId, showAccept, showReject>> =>
       \A u \in Users : SameList(u)
  /\ MapsInv /\ UNCHANGED <<map, mapRead, mine>> => \A d \in Drivers : SameMap(d)
  BY DEF SameList, SameMap, MapsInv, MapInv

LEMMA WaitKeepsDesk ==
  ASSUME IInv, Grows, UNCHANGED deskVars
  PROVE  DeskInv'
<1>1. UNCHANGED <<rows, detail, sel, selId, showAccept, showReject, pend, map, mapRead, mine>>
  BY DEF deskVars, listVars, mapVars, homeVars
<1>2. ListsInv /\ QueuesInv /\ MapsInv /\ DeskTypeOK
  BY DeskInvParts DEF IInv, TypeOK
<1>3. ListsInv' /\ QueuesInv' /\ MapsInv'
  BY <1>1, <1>2, SameWhenUnchanged, ListsKept, QueuesKept, MapsKept
<1> QED BY <1>3 DEF DeskInv, ListsInv, QueuesInv, MapsInv

\* An update is issued that satisfies WriteInv.
LEMMA QueueIssue ==
  ASSUME DeskTypeOK, QueuesInv, Grows, NEW u \in Users, NEW w \in Write,
         Issue(u, w), WriteInv(u, w)'
  PROVE  QueuesInv'
<1> SUFFICES ASSUME NEW v \in Users, NEW i \in 1 .. Len(pend'[v])
             PROVE  WriteInv(v, pend[v][i])'
  BY DEF QueuesInv
<1>1. /\ pend'[u] = Append(pend[u], w) /\ pend[u] \in Seq(Write)
      /\ v # u => pend'[v] = pend[v]
      /\ pend[v] \in Seq(Write)
  BY DEF Issue, DeskTypeOK
<1>2. CASE i \in 1 .. Len(pend[v])
  <2>1. pend[v][i] \in Write /\ WriteInv(v, pend[v][i]) /\ pend'[v][i] = pend[v][i]
    BY <1>1, <1>2 DEF QueuesInv
  <2>2. WriteInv(v, pend[v][i])
    BY <2>1
  <2> DEFINE x == pend[v][i]
  <2>3. x \in Write /\ WriteInv(v, x) /\ pend'[v][i] = x
    BY <2>1
  <2> QED BY <2>3, WriteFrame DEF WriteInv
<1>3. CASE i \notin 1 .. Len(pend[v])
  <2>1. v = u /\ i = Len(pend[u]) + 1
    BY <1>1, <1>3
  <2>2. pend'[v][i] = w
    BY <1>1, <2>1
  <2> QED BY <2>1, <2>2 DEF WriteInv
<1> QED BY <1>2, <1>3

\* The update at the head of a queue returns.
LEMMA QueueReturn ==
  ASSUME DeskTypeOK, QueuesInv, Grows, NEW u \in Users, pend[u] # <<>>,
         pend' = [pend EXCEPT ![u] = Tail(@)]
  PROVE  QueuesInv'
<1> SUFFICES ASSUME NEW v \in Users, NEW i \in 1 .. Len(pend'[v])
             PROVE  WriteInv(v, pend[v][i])'
  BY DEF QueuesInv
<1>1. /\ pend'[u] = Tail(pend[u]) /\ pend[u] \in Seq(Write)
      /\ v # u => pend'[v] = pend[v]
      /\ pend[v] \in Seq(Write)
  BY DEF DeskTypeOK
<1>2. PICK j \in 1 .. Len(pend[v]) : pend'[v][i] = pend[v][j]
  <2>1. CASE v = u
    <3> DEFINE q == pend[u]
    <3>1. q \in Seq(Write) /\ q # <<>> /\ pend'[v] = Tail(q) /\ pend[v] = q
      BY <1>1, <2>1
    <3> HIDE DEF q
    <3>2. Len(Tail(q)) = Len(q) - 1 /\ Len(q) \in Nat
      BY <3>1
    <3>3. i \in 1 .. Len(Tail(q))
      BY <3>1
    <3>4. i + 1 \in 1 .. Len(q) /\ Tail(q)[i] = q[i + 1]
      BY <3>1, <3>2, <3>3
    <3> QED BY <3>1, <3>4
  <2>2. CASE v # u
    BY <1>1, <2>2
  <2> QED BY <2>1, <2>2
<1> DEFINE x == pend[v][j]
<1>3. x \in Write /\ WriteInv(v, x) /\ pend'[v][i] = x
  BY <1>1, <1>2 DEF QueuesInv
<1> QED BY <1>3, WriteFrame DEF WriteInv

\* Only user u's list or detail page changes, and his new ones are sound.
LEMMA ListStep ==
  ASSUME DeskTypeOK, ListsInv, Grows, NEW u \in Users, ListInv(u)',
         showReject'[u] => u = Farmer,
         \A v \in Users : v # u => SameList(v)
  PROVE  ListsInv'
<1> SUFFICES ASSUME NEW v \in Users PROVE ListInv(v)' /\ (showReject'[v] => v = Farmer)
  BY DEF ListsInv
<1>1. CASE v = u
  BY <1>1
<1>2. CASE v # u
  BY <1>2, ListFrame DEF ListsInv, SameList
<1> QED BY <1>1, <1>2

(***************************************************************************)
(* Every step of the desks preserves DeskInv.                              *)
(***************************************************************************)
LEMMA DeskKeepsDesk ==
  ASSUME IInv, DeskNext, Grows
  PROVE  ListsInv' /\ QueuesInv' /\ MapsInv'
<1> DEFINE Goal == ListsInv' /\ QueuesInv' /\ MapsInv'
<1>a. ListsInv /\ QueuesInv /\ MapsInv /\ DeskTypeOK /\ StoreTypeOK
  BY DeskInvParts DEF IInv, TypeOK
<1>b. \A u \in Users : /\ ListInv(u)
                       /\ showReject[u] => u = Farmer
                       /\ detail[u] \/ selId[u] => sel[u] \in Orders
  BY <1>a DEF ListsInv, ListInv
<1>c. UNCHANGED <<map, mapRead, mine>> => MapsInv'
  BY <1>a, SameWhenUnchanged, MapsKept
<1>d. UNCHANGED listVars => ListsInv'
  BY <1>a, SameWhenUnchanged, ListsKept DEF listVars
<1>1. ASSUME NEW u \in Users, GetOrders(u) \/ BackToList(u)
      PROVE  Goal
  <2>1. QueuesInv' /\ MapsInv'
    BY <1>a, <1>c, <1>1, QueuesKept DEF GetOrders, BackToList, mapVars, homeVars
  <2>2. /\ rows'[u] = NoRows \/ rows'[u] = rows[u]
        /\ detail'[u] => detail[u]
        /\ sel' = sel /\ selId' = selId
        /\ showAccept'[u] => showAccept[u]
        /\ showReject'[u] => showReject[u]
    BY <1>a, <1>1 DEF GetOrders, BackToList, StartGetOrdersList, CloseDetails, DeskTypeOK
  <2>3. ListInv(u)'
    BY <1>a, <1>b, <2>2, ListFrame
  <2>4. \A v \in Users : v # u => SameList(v)
    BY <1>a, <1>1
    DEF GetOrders, BackToList, StartGetOrdersList, CloseDetails, DeskTypeOK, SameList
  <2> QED BY <1>a, <1>b, <2>1, <2>2, <2>3, <2>4, ListStep
<1>2. ASSUME NEW u \in Users, GetOrdersListReturns(u)
      PROVE  Goal
  <2>1. /\ UNCHANGED <<detail, sel, selId, showAccept, showReject, pend, doc, log>>
        /\ UNCHANGED <<map, mapRead, mine>>
        /\ rows' = rows \/ rows' = [rows EXCEPT ![u] = Query(u)]
    BY <1>2 DEF GetOrdersListReturns, mapVars, homeVars
  <2>2. QueuesInv' /\ MapsInv'
    BY <1>a, <1>c, <2>1, QueuesKept
  <2>3. CASE rows' = rows
    BY <1>a, <2>1, <2>2, <2>3, SameWhenUnchanged, ListsKept
  <2>4. CASE rows' = [rows EXCEPT ![u] = Query(u)]
    <3>1. rows'[u] = Query(u) /\ \A v \in Users : v # u => rows'[v] = rows[v]
      BY <1>a, <2>4 DEF DeskTypeOK
    <3>2. \A o \in Orders : Query(u)[o] # NoRow =>
            /\ Query(u)[o].hasId => doc[o].hasId
            /\ Query(u)[o].status = Accepted => log[o].accepted
      BY DEF Query, IInv, DocInv
    <3>3. ListInv(u)'
      BY <1>b, <2>1, <3>1, <3>2 DEF ListInv
    <3>4. \A v \in Users : v # u => SameList(v)
      BY <2>1, <3>1 DEF SameList
    <3> QED BY <1>a, <1>b, <2>1, <2>2, <3>3, <3>4, ListStep
  <2> QED BY <2>1, <2>3, <2>4
<1>3. ASSUME NEW u \in Users, NEW o \in Orders, NavigateToDetailsPage(u, o)
      PROVE  Goal
  <2>1. UNCHANGED <<rows, pend, map, mapRead, mine, doc, log>>
    BY <1>3 DEF NavigateToDetailsPage, mapVars, homeVars, storeVars
  <2>2. QueuesInv' /\ MapsInv'
    BY <1>a, <1>c, <2>1, QueuesKept
  <2>3. /\ sel'[u] = o
        /\ selId'[u] = rows[u][o].hasId
        /\ showAccept'[u] = MayAccept(u, rows[u][o])
        /\ showReject'[u] = MayReject(u, rows[u][o])
        /\ rows[u][o] # NoRow
    BY <1>a, <1>3 DEF NavigateToDetailsPage, DeskTypeOK
  <2>4. \A v \in Users : v # u => SameList(v)
    BY <1>a, <1>3 DEF NavigateToDetailsPage, DeskTypeOK, SameList
  <2>5. /\ rows[u][o].hasId => doc[o].hasId
        /\ rows[u][o].status = Accepted => log[o].accepted
    BY <1>b, <2>3 DEF ListInv
  <2>6. u \in Drivers /\ showAccept'[u] => log[o].accepted
    <3>1. showAccept'[u] => MayAccept(u, rows[u][o])
      BY <2>3, Zenon
    <3>2. u \in Drivers /\ MayAccept(u, rows[u][o]) => rows[u][o].status = Accepted
      BY DEF MayAccept
    <3> QED BY <2>5, <3>1, <3>2
  <2>7. ListInv(u)'
    BY <1>b, <2>1, <2>3, <2>5, <2>6 DEF ListInv
  <2>8. showReject'[u] => u = Farmer
    BY <2>3 DEF MayReject
  <2> QED BY <1>a, <2>2, <2>4, <2>7, <2>8, ListStep
<1>4. ASSUME NEW u \in Users, TapAccept(u)
      PROVE  Goal
  <2>1. /\ UNCHANGED <<listVars, map, mapRead, mine, misled, doc>>
        /\ detail[u] /\ selId[u] /\ showAccept[u]
    BY <1>4 DEF TapAccept, mapVars, homeVars
  <2>2. ListsInv' /\ MapsInv'
    BY <1>c, <1>d, <2>1
  <2>3. sel[u] \in Orders /\ doc[sel[u]].hasId
    BY <1>b, <2>1 DEF ListInv
  <2>4. CASE u \in Drivers
    <3>1. PICK w \in Write : w = [order |-> sel[u], kind |-> "accept",
                                 status |-> DriverStatus(0), seen |-> Accepted]
      BY <2>3, StatusRanges DEF Write
    <3>2. log' = [log EXCEPT ![sel[u]].takers = @ \cup {u}] /\ Issue(u, w)
      BY <1>4, <2>4, <3>1 DEF TapAccept
    <3>3. u \in log'[sel[u]].takers
      BY <1>a, <2>3, <3>2 DEF StoreTypeOK, LogEntry
    <3>4. WriteInv(u, w)'
      <4>1. /\ w.order = sel[u] /\ w.kind = "accept" /\ w.seen < w.status
            /\ w.status # Accepted
        BY <3>1 DEF DriverStatus, Accepted
      <4> QED BY <2>1, <2>3, <3>3, <4>1 DEF WriteInv
    <3> QED BY <1>a, <2>2, <3>2, <3>4, QueueIssue
  <2>5. CASE u \notin Drivers
    <3>1. PICK w \in Write : w = [order |-> sel[u], kind |-> "accept",
                                 status |-> Accepted, seen |-> Placed]
      BY <2>3, StatusRanges DEF Write
    <3>2. Issue(u, w)
      BY <1>4, <2>5, <3>1 DEF TapAccept
    <3>3. WriteInv(u, w)'
      <4>1. w.order = sel[u] /\ w.kind = "accept" /\ w.seen < w.status
        BY <3>1 DEF Placed, Accepted
      <4>2. u = Farmer
        BY <2>5 DEF Users
      <4> QED BY <2>1, <2>3, <2>5, <4>1, <4>2 DEF WriteInv
    <3> QED BY <1>a, <2>2, <3>2, <3>3, QueueIssue
  <2> QED BY <2>4, <2>5
<1>5. ASSUME NEW u \in Users, TapReject(u)
      PROVE  Goal
  <2>1. /\ UNCHANGED <<listVars, map, mapRead, mine, misled, doc>>
        /\ detail[u] /\ selId[u] /\ showReject[u]
        /\ log' = [log EXCEPT ![sel[u]].refused = TRUE]
    BY <1>5 DEF TapReject, mapVars, homeVars
  <2>2. ListsInv' /\ MapsInv'
    BY <1>c, <1>d, <2>1
  <2>3. sel[u] \in Orders /\ doc[sel[u]].hasId /\ u = Farmer
    BY <1>b, <2>1 DEF ListInv
  <2>4. log'[sel[u]].refused
    BY <1>a, <2>1, <2>3 DEF StoreTypeOK, LogEntry
  <2>5. PICK w \in Write : w = [order |-> sel[u], kind |-> "reject",
                               status |-> Placed, seen |-> Placed]
    BY <2>3, StatusRanges DEF Write
  <2>6. Issue(u, w)
    BY <1>5, <2>5 DEF TapReject
  <2>7. WriteInv(u, w)'
    <3>1. w.order = sel[u] /\ w.kind = "reject" /\ u \notin Drivers
      BY <2>3, <2>5, DeskAssumption
    <3> QED BY <2>1, <2>3, <2>4, <3>1 DEF WriteInv
  <2> QED BY <1>a, <2>2, <2>6, <2>7, QueueIssue
<1>6. ASSUME NEW u \in Users, ButtonReturns(u)
      PROVE  Goal
  <2>1. PICK w \in Write : w = Head(pend[u])
    BY <1>a, <1>6 DEF ButtonReturns, DeskTypeOK
  <2>2. pend[u] # <<>> /\ pend' = [pend EXCEPT ![u] = Tail(@)]
    BY <1>6 DEF ButtonReturns
  <2>3. QueuesInv'
    BY <1>a, <2>2, QueueReturn
  <2>4. WriteInv(u, w)
    <3>1. w = pend[u][1] /\ 1 \in 1 .. Len(pend[u])
      BY <1>a, <2>1, <2>2 DEF DeskTypeOK
    <3> QED BY <1>a, <3>1 DEF QueuesInv
  <2>5. MapsInv'
    <3>0. mine' = mine
      BY <1>6 DEF ButtonReturns, homeVars
    <3>1. CASE UNCHANGED mapVars
      BY <1>c, <3>0, <3>1 DEF mapVars
    <3>2. CASE ~UNCHANGED mapVars
      <4>1. u \in Drivers /\ OpenSelected(u, w)
        BY <1>6, <2>1, <3>2 DEF ButtonReturns
      <4>2. /\ selId[u]
            /\ map' = [map EXCEPT ![u] = sel[u]]
            /\ mapRead' = [mapRead EXCEPT ![u] = "open"]
            /\ misled' = [misled EXCEPT ![sel[u]] =
                            IF sel[u] = w.order THEN @ ELSE @ \cup {u}]
        BY <3>2, <4>1 DEF OpenSelected
      <4>3. sel[u] \in Orders /\ doc[sel[u]].hasId
        BY <1>b, <4>2 DEF ListInv
      <4>4. u \in log'[sel[u]].takers \cup misled'[sel[u]]
        <5>1. CASE sel[u] = w.order
          BY <2>4, <4>1, <4>3, <5>1 DEF WriteInv, Grows
        <5>2. CASE sel[u] # w.order
          BY <1>a, <4>2, <4>3, <5>2 DEF DeskTypeOK
        <5> QED BY <5>1, <5>2
      <4>5. map'[u] = sel[u] /\ doc'[sel[u]].hasId /\ map'[u] # NoOrder
        BY <1>a, <4>1, <4>2, <4>3, StoreAssumption DEF DeskTypeOK, Grows
      <4>6. (\A o \in Orders :
               mine[u][o] # NoRow => doc[o].hasId /\ u \in log[o].takers \cup misled[o])'
        BY <1>a, <3>0, <4>1 DEF MapsInv, MapInv, Grows
      <4>7. MapInv(u)'
        BY <4>4, <4>5, <4>6 DEF MapInv
      <4>8. \A e \in Drivers : e # u => SameMap(e)
        BY <1>a, <3>0, <4>2 DEF DeskTypeOK, SameMap, MapsInv, MapInv
      <4> QED BY <1>a, <4>1, <4>7, <4>8, MapStep
    <3> QED BY <3>1, <3>2
  <2>6. /\ UNCHANGED <<detail, sel, selId>>
        /\ rows' = [rows EXCEPT ![u] = NoRows]
        /\ showAccept' = [showAccept EXCEPT ![u] = FALSE]
        /\ showReject' = [showReject EXCEPT ![u] = FALSE]
    BY <1>6 DEF ButtonReturns, StartGetOrdersList
  <2>7. /\ rows'[u] = NoRows /\ ~showAccept'[u] /\ ~showReject'[u]
        /\ \A v \in Users : v # u => SameList(v)
    BY <1>a, <2>6 DEF DeskTypeOK, SameList
  <2>8. ListInv(u)'
    BY <1>a, <1>b, <2>6, <2>7, ListFrame
  <2> QED BY <1>a, <2>3, <2>5, <2>7, <2>8, ListStep
<1>7. ASSUME NEW d \in Drivers, NEW o \in Orders, OpenMap(d, o)
      PROVE  Goal
  <2>1. /\ UNCHANGED <<listVars, pend, mine, misled, doc, log>>
        /\ mine[d][o] # NoRow
        /\ map' = [map EXCEPT ![d] = o]
        /\ mapRead' = [mapRead EXCEPT ![d] = "open"]
    BY <1>7 DEF OpenMap, homeVars, storeVars
  <2>2. ListsInv' /\ QueuesInv'
    BY <1>a, <1>d, <2>1, QueuesKept
  <2>3. MapInv(d)
    BY <1>a DEF MapsInv
  <2>4. map'[d] = o /\ o # NoOrder
    BY <1>a, <2>1, StoreAssumption DEF DeskTypeOK
  <2>5. MapInv(d)'
    BY <2>1, <2>3, <2>4 DEF MapInv
  <2>6. \A e \in Drivers : e # d => SameMap(e)
    BY <1>a, <2>1 DEF DeskTypeOK, SameMap, MapsInv, MapInv
  <2> QED BY <1>a, <2>2, <2>5, <2>6, MapStep
<1>e. ASSUME NEW d \in Drivers, StartHomeFetch(d) \/ UNCHANGED homeVars
      PROVE  \A e \in Drivers : mine'[e] = mine[e] \/ mine'[e] = NoRows
  BY <1>a, <1>e DEF StartHomeFetch, homeVars, DeskTypeOK
<1>8. ASSUME NEW d \in Drivers, MapReadReturns(d) \/ CloseMap(d)
      PROVE  Goal
  <2>1. /\ UNCHANGED <<listVars, pend>>
        /\ map' = map \/ map' = [map EXCEPT ![d] = NoOrder]
        /\ mapRead' = [mapRead EXCEPT ![d] = "none"]
        /\ StartHomeFetch(d) \/ UNCHANGED homeVars
    BY <1>8 DEF MapReadReturns, CloseMap
  <2>2. \A e \in Drivers : map[e] = NoOrder => mapRead[e] = "none"
    BY <1>a DEF MapsInv, MapInv
  <2>3. \A e \in Drivers : SameMap(e)
    BY <1>a, <1>e, <2>1, <2>2 DEF DeskTypeOK, SameMap
  <2> QED BY <1>a, <1>d, <2>1, <2>3, QueuesKept, MapsKept
<1>9. ASSUME NEW d \in Drivers, NEW i \in 0 .. DriverLen - 1, TapStatus(d, i)
       PROVE  Goal
  <2>1. /\ UNCHANGED <<listVars, map, mapRead, mine, misled, doc, log>>
        /\ map[d] # NoOrder /\ i > mapIdx[d]
    BY <1>9 DEF TapStatus, mapVars, homeVars, storeVars
  <2>2. ListsInv' /\ MapsInv'
    BY <1>c, <1>d, <2>1
  <2>3. /\ map[d] \in Orders /\ mapIdx[d] \in -1 .. DriverLen - 1 /\ d \in Users
        /\ doc[map[d]].hasId /\ d \in log[map[d]].takers \cup misled[map[d]]
    BY <1>a, <2>1 DEF DeskTypeOK, MapsInv, MapInv, Users
  <2>4. PICK w \in Write : w = [order |-> map[d], kind |-> "deliver",
                               status |-> DriverStatus(i), seen |-> mapIdx[d] + 2]
    BY <2>3, StatusRanges DEF Write
  <2>5. Issue(d, w)
    BY <1>9, <2>4 DEF TapStatus
  <2>6. WriteInv(d, w)'
    <3>1. /\ w.order = map[d] /\ w.kind = "deliver" /\ w.seen < w.status
          /\ w.status # Accepted
      BY <2>1, <2>3, <2>4, StoreAssumption DEF DriverStatus, Accepted
    <3> QED BY <2>1, <2>3, <3>1 DEF WriteInv
  <2> QED BY <1>a, <2>2, <2>3, <2>5, <2>6, QueueIssue
<1>10. ASSUME NEW d \in Drivers, StatusReturns(d)
       PROVE  Goal
  <2>1. /\ UNCHANGED <<listVars, map>>
        /\ pend[d] # <<>> /\ pend' = [pend EXCEPT ![d] = Tail(@)]
        /\ StartHomeFetch(d) \/ UNCHANGED homeVars
        /\ IF map[d] = NoOrder THEN UNCHANGED mapRead
                               ELSE mapRead' = [mapRead EXCEPT ![d] = "after"]
    BY <1>10 DEF StatusReturns
  <2>2. d \in Users
    BY DEF Users
  <2>3. \A e \in Drivers : map[e] = NoOrder => mapRead[e] = "none"
    BY <1>a DEF MapsInv, MapInv
  <2>4. \A e \in Drivers : SameMap(e)
    BY <1>a, <1>e, <2>1, <2>3 DEF DeskTypeOK, SameMap
  <2> QED BY <1>a, <1>d, <2>1, <2>2, <2>4, MapsKept, QueueReturn
<1>11. ASSUME NEW d \in Drivers, HomeFetchReturns(d)
       PROVE  Goal
  <2>1. /\ UNCHANGED <<listVars, pend, map, mapRead, misled, doc, log>>
        /\ mine' = mine \/ mine' = [mine EXCEPT ![d] = HisOrders(d)]
    BY <1>11 DEF HomeFetchReturns, mapVars
  <2>2. ListsInv' /\ QueuesInv'
    BY <1>a, <1>d, <2>1, QueuesKept
  <2>3. CASE mine' = mine
    BY <1>c, <2>1, <2>2, <2>3
  <2>4. CASE mine' = [mine EXCEPT ![d] = HisOrders(d)]
    <3>1. mine'[d] = HisOrders(d)
      BY <1>a, <2>4 DEF DeskTypeOK
    <3>2. \A o \in Orders : HisOrders(d)[o] # NoRow =>
            doc[o].hasId /\ d \in log[o].takers \cup misled[o]
      BY StoreAssumption DEF HisOrders, IInv, IdlessUntouched, DriverTookOrder
    <3>3. MapInv(d)
      BY <1>a DEF MapsInv
    <3>4. MapInv(d)'
      BY <2>1, <3>1, <3>2, <3>3 DEF MapInv
    <3>5. \A e \in Drivers : e # d => SameMap(e)
      BY <1>a, <2>1, <2>4 DEF DeskTypeOK, SameMap, MapsInv, MapInv
    <3> QED BY <1>a, <2>2, <3>4, <3>5, MapStep
  <2> QED BY <2>1, <2>3, <2>4
<1>12. ASSUME NEW d \in Drivers, RefreshHome(d)
       PROVE  Goal
  <2>1. /\ UNCHANGED <<listVars, pend, map, mapRead>>
        /\ StartHomeFetch(d)
    BY <1>12 DEF RefreshHome, mapVars
  <2>2. \A e \in Drivers : map[e] = NoOrder => mapRead[e] = "none"
    BY <1>a DEF MapsInv, MapInv
  <2>3. \A e \in Drivers : SameMap(e)
    BY <1>a, <1>e, <2>1, <2>2 DEF DeskTypeOK, SameMap
  <2> QED BY <1>a, <1>d, <2>1, <2>3, QueuesKept, MapsKept
<1> QED
  BY <1>1, <1>2, <1>3, <1>4, <1>5, <1>6, <1>7, <1>8, <1>9, <1>10, <1>11, <1>12
     DEF DeskNext

-----------------------------------------------------------------------------
LEMMA InitInv == Init => IInv
<1> SUFFICES ASSUME Init PROVE IInv
  OBVIOUS
<1> USE StoreAssumption, WaitAssumption, DeskAssumption
<1>1. TypeOK /\ Len(stack) > 0
  BY TypedInit DEF Typed
<1>2. /\ DocInv /\ DeliveryNeedsAcceptance /\ DriverTookOrder /\ IdlessUntouched
      /\ RejectionHasCause
  BY DEF Init, StoreInit, NewDoc, NoLog, DocInv, DeliveryNeedsAcceptance,
     DriverTookOrder, IdlessUntouched, RejectionHasCause, Placed, Accepted
<1>3. WaitInv
  BY <1>1 DEF Init, WaitInit, WaitInv, Idle, NoController
<1>4. PollVerdictTrue /\ TimerHasPage
  BY DEF Init, WaitInit, PollVerdictTrue, TimerHasPage, NoController
<1>5. DeskInv
  BY DEF Init, DeskInit, DeskInv, ListInv, NoRows, MapInv
<1> QED BY <1>1, <1>2, <1>3, <1>4, <1>5 DEF IInv

(***************************************************************************)
(* The strengthened invariant is inductive: a step of the customer's       *)
(* device, a step of a desk, or no step.                                   *)
(***************************************************************************)
LEMMA NextInv == IInv /\ [Next]_vars => IInv'
<1> SUFFICES ASSUME IInv, [Next]_vars PROVE IInv'
  OBVIOUS
<1>1. CASE WaitNext /\ UNCHANGED deskVars
  <2>1. StoreTypeOK' /\ WaitTypeOK' /\ Len(stack') > 0
    BY <1>1, WaitTyped DEF IInv, TypeOK, WaitInv, TimerHasPage
  <2>2. TypeOK'
    <3>1. DeskTypeOK'
      BY <1>1 DEF IInv, TypeOK, DeskTypeOK, deskVars, listVars, mapVars, homeVars
    <3> QED BY <2>1, <3>1 DEF TypeOK
  <2>3. Grows /\ WaitEffect
    BY <1>1, WaitStepEffect DEF deskVars
  <2>4. DocInv' /\ DeliveryNeedsAcceptance' /\ DriverTookOrder' /\ IdlessUntouched'
          /\ RejectionHasCause'
    BY <2>2, <2>3, WaitKeepsDocs
  <2>5. CheckoutInv' /\ ControllerInv' /\ PollInv' /\ PollVerdictTrue' /\ TimerHasPage'
    BY <1>1, <2>3, WaitKeepsWait
  <2>6. WaitInv'
    BY <2>1, <2>5 DEF WaitInv, CheckoutInv, ControllerInv, PollInv
  <2>7. DeskInv'
    BY <1>1, <2>3, WaitKeepsDesk
  <2> QED BY <2>2, <2>4, <2>5, <2>6, <2>7 DEF IInv
<1>2. CASE DeskNext /\ UNCHANGED waitVars
  <2>1. StoreTypeOK' /\ DeskTypeOK'
    BY <1>2, DeskTyped DEF IInv, TypeOK
  <2>2. TypeOK'
    <3>1. WaitTypeOK'
      BY <1>2 DEF IInv, TypeOK, WaitTypeOK, waitVars
    <3> QED BY <2>1, <3>1 DEF TypeOK
  <2>3. Grows /\ DeskEffect
    BY <1>2, DeskStepEffect DEF IInv, TypeOK
  <2>4. /\ DocInv' /\ WaitInv' /\ DeliveryNeedsAcceptance' /\ DriverTookOrder'
        /\ IdlessUntouched' /\ RejectionHasCause' /\ PollVerdictTrue'
        /\ TimerHasPage'
    BY <1>2, <2>3, DeskKeepsDocs
  <2>5. ListsInv' /\ QueuesInv' /\ MapsInv'
    BY <1>2, <2>3, DeskKeepsDesk
  <2>6. DeskInv'
    BY <2>5 DEF DeskInv, ListsInv, QueuesInv, MapsInv
  <2> QED BY <2>2, <2>4, <2>6 DEF IInv
<1>3. CASE UNCHANGED vars
  <2>1. UNCHANGED <<doc, log>> /\ UNCHANGED waitVars /\ UNCHANGED deskVars /\ UNCHANGED faults
    BY <1>3 DEF vars, storeVars
  <2>2. Grows /\ DeskEffect
    BY <2>1 DEF Grows, DeskEffect, deskVars
  <2>3. TypeOK'
    BY <2>1 DEF IInv, TypeOK, StoreTypeOK, WaitTypeOK, DeskTypeOK, waitVars, deskVars,
       listVars, mapVars, homeVars
  <2> QED BY <2>1, <2>2, <2>3, DeskKeepsDocs, WaitKeepsDesk DEF IInv
<1> QED BY <1>1, <1>2, <1>3 DEF Next

LEMMA SpecInv == Spec => []IInv
  BY InitInv, NextInv, PTL DEF Spec

(***************************************************************************)
(* Every device and every document stays well typed: the countdown never   *)
(* goes below zero, no delivery index leaves the status list, no failed    *)
(* read puts a status into the program that the list does not have.        *)
(***************************************************************************)
THEOREM TypeCorrect == Spec => []TypeOK
  BY SpecInv, PTL DEF IInv

(***************************************************************************)
(* No order is carried, and none has a delivery status, that the farmer    *)
(* has not accepted: the driver's Accept button decides on an old copy of  *)
(* the order, but acceptance is never undone (orders_controller.dart:199). *)
(* The exceptions are the orders to whose delivery page the late return of *)
(* an Accept of another order brought a driver (orders_widgets.dart:595).  *)
(***************************************************************************)
THEOREM Acceptance == Spec => []DeliveryNeedsAcceptance
  BY SpecInv, PTL DEF IInv

(***************************************************************************)
(* The driverId of an order is that of a driver who tapped Accept on it or *)
(* was misled to its delivery page, however many drivers overwrite each    *)
(* other and however stale their home pages (firebase_helper.dart:1272).   *)
(***************************************************************************)
THEOREM Ownership == Spec => []DriverTookOrder
  BY SpecInv, PTL DEF IInv

(***************************************************************************)
(* A rejected order was refused by the farmer, or its own countdown ran    *)
(* for its full length (orders_timer_controller.dart:30).                  *)
(***************************************************************************)
THEOREM Rejections == Spec => []RejectionHasCause
  BY SpecInv, PTL DEF IInv

(***************************************************************************)
(* An order without its id is touched by no device.                        *)
(***************************************************************************)
THEOREM Idless == Spec => []IdlessUntouched
  BY SpecInv, PTL DEF IInv

(***************************************************************************)
(* What the polls of the countdown tell the customer is true, however      *)
(* many of them overlap (orders_timer_controller.dart:48).                 *)
(***************************************************************************)
THEOREM PollVerdicts == Spec => []PollVerdictTrue
  BY SpecInv, PTL DEF IInv

(***************************************************************************)
(* No countdown outlives its page (orders_timer_controller.dart:96).       *)
(***************************************************************************)
THEOREM Timers == Spec => []TimerHasPage
  BY SpecInv, PTL DEF IInv

-----------------------------------------------------------------------------
(***************************************************************************)
(* Each update of a queue advances the status its device had seen, so a    *)
(* status goes backwards only when that copy was out of date.              *)
(***************************************************************************)
Regress(o) ==
  doc'[o].status < doc[o].status =>
    \E u \in Users : /\ pend[u] # <<>>
                     /\ Head(pend[u]).order = o
                     /\ Head(pend[u]).seen # doc[o].status

LEMMA ApplyRegress ==
  ASSUME IInv, NEW u \in Users, pend[u] # <<>>, Apply(u, Head(pend[u])), NEW o \in Orders
  PROVE  Regress(o)
<1>1. PICK w \in Write : w = Head(pend[u])
  BY DEF IInv, TypeOK, DeskTypeOK
<1>2. WriteInv(u, w)
  <2>1. w = pend[u][1] /\ 1 \in 1 .. Len(pend[u])
    BY <1>1 DEF IInv, TypeOK, DeskTypeOK
  <2> QED BY <2>1 DEF IInv, DeskInv
<1>3. /\ w.order \in Orders /\ w.status \in Status /\ w.seen \in Status
      /\ doc[o].status \in Status
  BY DEF Write, IInv, TypeOK, StoreTypeOK, Doc
<1>4. CASE w.kind = "reject"
  BY <1>1, <1>3, <1>4, RejectEffect DEF Apply, IInv, TypeOK, Regress, Status
<1>5. CASE w.kind # "reject"
  <2>1. UpdateOrderStatus(w.order, w.status, IF u \in Drivers THEN u ELSE NoDriver)
    BY <1>1, <1>5 DEF Apply
  <2>2. /\ doc'[w.order].status = w.status
        /\ o # w.order => doc'[o].status = doc[o].status
    BY <1>3, <2>1, UpdateEffect DEF IInv, TypeOK
  <2>3. w.seen < w.status
    BY <1>2, <1>5 DEF WriteInv
  <2>4. doc'[o].status < doc[o].status => o = w.order /\ w.seen # doc[o].status
    BY <1>3, <2>2, <2>3 DEF Status
  <2> QED BY <1>1, <2>4 DEF Regress
<1> QED BY <1>4, <1>5

\* A desk writes only the update at the head of a queue.
LEMMA DeskWrites ==
  ASSUME DeskNext
  PROVE  \/ UNCHANGED doc
         \/ \E u \in Users : pend[u] # <<>> /\ Apply(u, Head(pend[u]))
<1>1. ASSUME NEW d \in Drivers, StatusReturns(d)
      PROVE  \/ UNCHANGED doc
             \/ \E u \in Users : pend[u] # <<>> /\ Apply(u, Head(pend[u]))
  BY <1>1 DEF StatusReturns, Users
<1>2. ASSUME NEW u \in Users, ButtonReturns(u)
      PROVE  \/ UNCHANGED doc
             \/ \E v \in Users : pend[v] # <<>> /\ Apply(v, Head(pend[v]))
  BY <1>2 DEF ButtonReturns
<1> QED BY <1>1, <1>2 DEF DeskNext, GetOrders, GetOrdersListReturns,
    NavigateToDetailsPage, BackToList, TapAccept, TapReject, RefreshHome,
    HomeFetchReturns, OpenMap, MapReadReturns, TapStatus, CloseMap, storeVars

LEMMA StepRegress ==
  ASSUME IInv, [Next]_vars, NEW o \in Orders
  PROVE  Regress(o)
<1>0. doc[o].status \in Status
  BY DEF IInv, TypeOK, StoreTypeOK, Doc
<1>1. CASE doc'[o].status = doc[o].status
  BY <1>0, <1>1 DEF Regress, Status
<1>2. CASE WaitNext /\ UNCHANGED deskVars
  <2>1. doc'[o].status = doc[o].status
    BY <1>2, WaitStepEffect DEF WaitEffect, deskVars
  <2> QED BY <1>1, <2>1
<1>3. CASE DeskNext
  <2>1. \/ UNCHANGED doc
        \/ \E u \in Users : pend[u] # <<>> /\ Apply(u, Head(pend[u]))
    BY <1>3, DeskWrites
  <2> QED BY <1>1, <2>1, ApplyRegress
<1> QED BY <1>1, <1>2, <1>3 DEF Next, vars, storeVars

(***************************************************************************)
(* No device moves an order's status backwards from an up-to-date copy     *)
(* (map_view_widgets.dart:115, orders_controller.dart:199).                *)
(***************************************************************************)
THEOREM Regressions == Spec => RegressOnlyFromStaleCopy
<1>1. IInv /\ [Next]_vars =>
        [\A o \in Orders :
           doc'[o].status < doc[o].status =>
             \E u \in Users : /\ pend[u] # <<>>
                              /\ Head(pend[u]).order = o
                              /\ Head(pend[u]).seen # doc[o].status]_vars
  BY StepRegress DEF Regress
<1> QED BY <1>1, SpecInv, PTL DEF Spec, RegressOnlyFromStaleCopy

-----------------------------------------------------------------------------
(***************************************************************************)
(* The contract.  A step maps to a step of OrderContract on the order it   *)
(* writes, or to no step.                                                  *)
(***************************************************************************)
LEMMA ApplyContract ==
  ASSUME IInv, NEW u \in Users, pend[u] # <<>>, Apply(u, Head(pend[u]))
  PROVE  [Contract!Next]_(Contract!contractVars)
<1>1. PICK w \in Write : w = Head(pend[u])
  BY DEF IInv, TypeOK, DeskTypeOK
<1>2. WriteInv(u, w)
  <2>1. w = pend[u][1] /\ 1 \in 1 .. Len(pend[u])
    BY <1>1 DEF IInv, TypeOK, DeskTypeOK
  <2> QED BY <2>1 DEF IInv, DeskInv
<1>3. /\ w.order \in Orders /\ w.status \in Status /\ w.seen \in Status
      /\ doc[w.order].hasId
      /\ StoreTypeOK
  BY <1>2 DEF Write, IInv, TypeOK, WriteInv
<1>4. CASE w.kind = "reject"
  <2>1. RejectOrder(w.order)
    BY <1>1, <1>4 DEF Apply
  <2>2. /\ doc'[w.order].isRejected
        /\ \A p \in Orders : /\ doc'[p].hasId = doc[p].hasId
                             /\ p # w.order => doc'[p].isRejected = doc[p].isRejected
                             /\ doc'[p].status = doc[p].status
                             /\ doc'[p].driverId = doc[p].driverId
    BY <1>3, <2>1, RejectEffect
  <2>3. {o \in Orders : doc'[o].isRejected}
          = {o \in Orders : doc[o].isRejected} \cup {w.order}
    BY <1>3, <2>2
  <2>4. /\ {o \in Orders : doc'[o].hasId} = {o \in Orders : doc[o].hasId}
        /\ {o \in Orders : doc'[o].status # Placed} = {o \in Orders : doc[o].status # Placed}
        /\ [o \in Orders |-> doc'[o].driverId] = [o \in Orders |-> doc[o].driverId]
    BY <2>2
  <2>5. Contract!Reject(w.order)
    BY <1>3, <2>3, <2>4 DEF Contract!Reject
  <2> QED BY <1>3, <2>5 DEF Contract!Next
<1>5. CASE w.kind # "reject"
  <2>1. UpdateOrderStatus(w.order, w.status, IF u \in Drivers THEN u ELSE NoDriver)
    BY <1>1, <1>5 DEF Apply
  <2>2. /\ doc'[w.order].status = w.status
        /\ doc'[w.order].driverId = IF u \in Drivers THEN u ELSE doc[w.order].driverId
        /\ \A p \in Orders : /\ doc'[p].hasId = doc[p].hasId
                             /\ doc'[p].isRejected = doc[p].isRejected
                             /\ p # w.order => /\ doc'[p].status = doc[p].status
                                               /\ doc'[p].driverId = doc[p].driverId
    BY <1>3, <2>1, UpdateEffect, StoreAssumption
  <2>3. w.status # Placed
    BY <1>2, <1>3, <1>5 DEF WriteInv, Status, Placed
  <2>4. /\ {o \in Orders : doc'[o].hasId} = {o \in Orders : doc[o].hasId}
        /\ {o \in Orders : doc'[o].isRejected} = {o \in Orders : doc[o].isRejected}
        /\ {o \in Orders : doc'[o].status # Placed}
             = {o \in Orders : doc[o].status # Placed} \cup {w.order}
    BY <1>3, <2>2, <2>3
  <2>5. CASE u \in Drivers
    <3>1. [o \in Orders |-> doc'[o].driverId]
            = [[o \in Orders |-> doc[o].driverId] EXCEPT ![w.order] = u]
      BY <1>3, <2>2, <2>5
    <3>2. Contract!Take(w.order, u)
      BY <1>3, <2>4, <3>1 DEF Contract!Take
    <3> QED BY <1>3, <2>5, <3>2 DEF Contract!Next
  <2>6. CASE u \notin Drivers
    <3>1. [o \in Orders |-> doc'[o].driverId] = [o \in Orders |-> doc[o].driverId]
      BY <1>3, <2>2, <2>6
    <3>2. Contract!Accept(w.order)
      BY <1>3, <2>4, <3>1 DEF Contract!Accept
    <3> QED BY <1>3, <3>2 DEF Contract!Next
  <2> QED BY <2>5, <2>6
<1> QED BY <1>4, <1>5

LEMMA StepContract ==
  ASSUME IInv, [Next]_vars
  PROVE  [Contract!Next]_(Contract!contractVars)
<1>0. StoreTypeOK
  BY DEF IInv, TypeOK
<1>1. CASE UNCHANGED doc
  BY <1>1 DEF Contract!contractVars
<1>2. ASSUME NEW o \in Orders, AddOrder(o)
      PROVE  [Contract!Next]_(Contract!contractVars)
  <2>1. \A p \in Orders : /\ doc'[p].hasId = doc[p].hasId
                          /\ doc'[p].isRejected = doc[p].isRejected
                          /\ doc'[p].status = doc[p].status
                          /\ doc'[p].driverId = doc[p].driverId
    BY <1>0, <1>2, AddEffect
  <2>2. /\ {q \in Orders : doc'[q].hasId} = {q \in Orders : doc[q].hasId}
        /\ {q \in Orders : doc'[q].status # Placed} = {q \in Orders : doc[q].status # Placed}
        /\ {q \in Orders : doc'[q].isRejected} = {q \in Orders : doc[q].isRejected}
        /\ [q \in Orders |-> doc'[q].driverId] = [q \in Orders |-> doc[q].driverId]
    BY <2>1
  <2> QED BY <2>2 DEF Contract!contractVars
<1>3. ASSUME NEW o \in Orders, SetOrderID(o)
      PROVE  [Contract!Next]_(Contract!contractVars)
  <2>1. /\ doc'[o].hasId
        /\ \A p \in Orders : /\ p # o => doc'[p].hasId = doc[p].hasId
                             /\ doc'[p].isRejected = doc[p].isRejected
                             /\ doc'[p].status = doc[p].status
                             /\ doc'[p].driverId = doc[p].driverId
    BY <1>0, <1>3, SetIdEffect
  <2>2. /\ {q \in Orders : doc'[q].hasId} = {q \in Orders : doc[q].hasId} \cup {o}
        /\ {q \in Orders : doc'[q].status # Placed} = {q \in Orders : doc[q].status # Placed}
        /\ {q \in Orders : doc'[q].isRejected} = {q \in Orders : doc[q].isRejected}
        /\ [q \in Orders |-> doc'[q].driverId] = [q \in Orders |-> doc[q].driverId]
    BY <2>1
  <2> QED BY <2>2 DEF Contract!Next, Contract!Place
<1>4. ASSUME NEW o \in Orders, RejectOrder(o), doc[o].hasId
      PROVE  [Contract!Next]_(Contract!contractVars)
  <2>1. /\ doc'[o].isRejected
        /\ \A p \in Orders : /\ doc'[p].hasId = doc[p].hasId
                             /\ p # o => doc'[p].isRejected = doc[p].isRejected
                             /\ doc'[p].status = doc[p].status
                             /\ doc'[p].driverId = doc[p].driverId
    BY <1>0, <1>4, RejectEffect
  <2>2. /\ {q \in Orders : doc'[q].hasId} = {q \in Orders : doc[q].hasId}
        /\ {q \in Orders : doc'[q].status # Placed} = {q \in Orders : doc[q].status # Placed}
        /\ {q \in Orders : doc'[q].isRejected} = {q \in Orders : doc[q].isRejected} \cup {o}
        /\ [q \in Orders |-> doc'[q].driverId] = [q \in Orders |-> doc[q].driverId]
    BY <2>1
  <2> QED BY <1>4, <2>2 DEF Contract!Next, Contract!Reject
<1>5. CASE WaitNext
  <2>1. \/ UNCHANGED doc
        \/ \E o \in Orders : \/ AddOrder(o)
                             \/ SetOrderID(o)
                             \/ RejectOrder(o) /\ doc[o].hasId
    <3>1. CASE PlaceOrderSetsID
      BY <3>1 DEF PlaceOrderSetsID, IInv, WaitInv
    <3>2. ASSUME NEW o \in Orders, AutoRejectReturns(o)
          PROVE  UNCHANGED doc \/ (RejectOrder(o) /\ doc[o].hasId)
      BY <3>2 DEF AutoRejectReturns, IInv, WaitInv
    <3>3. ASSUME NEW o \in Orders, PlaceOrder(o)
          PROVE  UNCHANGED doc \/ AddOrder(o)
      BY <3>3 DEF PlaceOrder
    <3> QED BY <1>5, <3>1, <3>2, <3>3 DEF WaitNext, WaitProgram, WaitUser, OpenTimer,
        Tick, Expire, PollReadsStatus, PollConfirms, PollReadsRejected, LeaveTimer,
        Back, LeaveTrack, storeVars
  <2> QED BY <1>1, <1>2, <1>3, <1>4, <2>1
<1>6. CASE DeskNext
  <2>1. \/ UNCHANGED doc
        \/ \E u \in Users : pend[u] # <<>> /\ Apply(u, Head(pend[u]))
    BY <1>6, DeskWrites
  <2> QED BY <1>1, <2>1, ApplyContract
<1> QED BY <1>1, <1>5, <1>6 DEF Next, vars, storeVars

(***************************************************************************)
(* The devices implement OrderContract: an order is decided on only under  *)
(* its id, an order with a driver counts as accepted, and neither an       *)
(* acceptance nor a rejection nor having a driver is ever undone           *)
(* (firebase_helper.dart:1272, 1294).                                      *)
(***************************************************************************)
THEOREM Refinement == Spec => KeepsContract
<1>1. Init => Contract!Init
  BY DEF Init, StoreInit, NewDoc, Placed, Contract!Init
<1>2. IInv /\ [Next]_vars => [Contract!Next]_(Contract!contractVars)
  BY StepContract
<1> QED BY <1>1, <1>2, SpecInv, PTL DEF Spec, KeepsContract, Contract!Spec

=============================================================================
