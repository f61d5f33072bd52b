------------------------------ MODULE OrderDesk ------------------------------
(***************************************************************************)
(* The farmer's and the drivers' devices: OrdersController (the order list *)
(* and the detail page with its Accept and Reject buttons) and, for a      *)
(* driver, the home page with his own orders and OrderDetailMapController  *)
(* (the delivery page that advances the status of an order).               *)
(*                                                                         *)
(* A device is a sequential Dart isolate: a tap runs until its first       *)
(* await.  The updates a device has issued reach Firestore in order        *)
(* (pend); the code after the await runs when the update returns.  Buttons *)
(* and delivery taps are decided on what the device read earlier, and they *)
(* stay usable while an update is in flight (the loading mask is one       *)
(* shared overlay that any stopLoading dismisses).  The list fetches that  *)
(* a device has in flight are merged into one.                             *)
(***************************************************************************)
EXTENDS OrderStore

CONSTANTS
  Farmer,    \* the farmer's device
  NoRow,     \* the order is not in the list
  MaxTaps    \* bound on the updates one device has in flight

ASSUME DeskAssumption ==
  /\ Farmer \notin Drivers
  /\ Farmer # NoDriver
  /\ MaxTaps \in Nat \ {0}

VARIABLES
  rows,        \* [Users -> [Orders -> Row or NoRow]], ordersList
  fetching,    \* [Users -> BOOLEAN], a getOrdersList has not returned
  detail,      \* [Users -> BOOLEAN], pageName = "detailPage"
  sel,         \* [Users -> Orders or NoOrder], selectedOrder; it stays when
               \* the user returns to the list
  selId,       \* [Users -> BOOLEAN], selectedOrder["orderID"] is not null
  showAccept,  \* [Users -> BOOLEAN], showAcceptBtn
  showReject,  \* [Users -> BOOLEAN], showRejectBtn
  pend,        \* [Users -> Seq(Write)], updates in flight
  map,         \* [Drivers -> Orders or NoOrder], order of the delivery page
  mapIdx,      \* [Drivers -> index], currentStatusIndex
  mapRead,     \* [Drivers -> read in flight on the delivery page]
  mine,        \* [Drivers -> [Orders -> status or NoRow]], orders on the home page
  homeFetch,   \* [Drivers -> BOOLEAN], the home page's fetch has not returned
  misled       \* [Orders -> SUBSET Drivers], history: the drivers whom the
               \* Accept of another order brought to this order's delivery page

listVars == <<rows, fetching, detail, sel, selId, showAccept, showReject>>
mapVars == <<map, mapIdx, mapRead>>
homeVars == <<mine, homeFetch>>
deskVars == <<listVars, pend, mapVars, homeVars, misled>>

Users == {Farmer} \cup Drivers

Row == [status : Status, isRejected : BOOLEAN, hasId : BOOLEAN]

\* An update in flight: `seen' is the status the device believed in when it
\* was issued.
Write == [order : Orders, kind : {"accept", "reject", "deliver"},
          status : Status, seen : Status]

DeskTypeOK ==
  /\ rows \in [Users -> [Orders -> Row \cup {NoRow}]]
  /\ fetching \in [Users -> BOOLEAN]
  /\ detail \in [Users -> BOOLEAN]
  /\ sel \in [Users -> Orders \cup {NoOrder}]
  /\ selId \in [Users -> BOOLEAN]
  /\ showAccept \in [Users -> BOOLEAN]
  /\ showReject \in [Users -> BOOLEAN]
  /\ pend \in [Users -> Seq(Write)]
  /\ map \in [Drivers -> Orders \cup {NoOrder}]
  /\ mapIdx \in [Drivers -> -1 .. DriverLen - 1]
  /\ mapRead \in [Drivers -> {"none", "open", "after"}]
  /\ mine \in [Drivers -> [Orders -> Status \cup {NoRow}]]
  /\ homeFetch \in [Drivers -> BOOLEAN]
  /\ misled \in [Orders -> SUBSET Drivers]

NoRows == [o \in Orders |-> NoRow]

\* Every page fetches when it is created (getOrders, getData), so the devices
\* start with their fetches in flight.
DeskInit ==
  /\ rows = [u \in Users |-> NoRows]
  /\ fetching = [u \in Users |-> TRUE]
  /\ detail = [u \in Users |-> FALSE]
  /\ sel = [u \in Users |-> NoOrder]
  /\ selId = [u \in Users |-> FALSE]
  /\ showAccept = [u \in Users |-> FALSE]
  /\ showReject = [u \in Users |-> FALSE]
  /\ pend = [u \in Users |-> <<>>]
  /\ map = [d \in Drivers |-> NoOrder]
  /\ mapIdx = [d \in Drivers |-> 0]
  /\ mapRead = [d \in Drivers |-> "none"]
  /\ mine = [d \in Drivers |-> NoRows]
  /\ homeFetch = [d \in Drivers |-> TRUE]
  /\ misled = [o \in Orders |-> {}]

-----------------------------------------------------------------------------
(***************************************************************************)
(* The order list.                                                         *)
(***************************************************************************)

\* The orders page is in front: no delivery page covers it.
OnDesk(u) == u \in Drivers => map[u] = NoOrder

\* getOrdersList up to its await: both lists are emptied, a query is sent.
StartGetOrdersList(u) ==
  /\ rows' = [rows EXCEPT ![u] = NoRows]
  /\ fetching' = [fetching EXCEPT ![u] = TRUE]

\* pageName = "": the detail page of u closes and its buttons with it.
CloseDetails(u) ==
  /\ detail' = [detail EXCEPT ![u] = FALSE]
  /\ showAccept' = [showAccept EXCEPT ![u] = FALSE]
  /\ showReject' = [showReject EXCEPT ![u] = FALSE]

\* getOrders (pull to refresh).  For a driver it also runs fetchDriverOrders,
\* which returns the page to the list.
GetOrders(u) ==
  /\ OnDesk(u)
  /\ StartGetOrdersList(u)
  /\ IF u \in Drivers
       THEN CloseDetails(u)
       ELSE UNCHANGED <<detail, showAccept, showReject>>
  /\ UNCHANGED <<sel, selId, pend, mapVars, homeVars, misled, storeVars>>

\* fetchOrders' query: the farmer's own orders, or those without a driver.
\* Only on the list page does a driver keep just the accepted ones.
Listed(u, o) ==
  /\ doc[o].exists
  /\ u \in Drivers =>
       /\ doc[o].driverId = NoDriver
       /\ ~detail[u] => doc[o].status = Accepted

Query(u) ==
  [o \in Orders |->
     IF Listed(u, o)
       THEN [status |-> doc[o].status, isRejected |-> doc[o].isRejected,
             hasId |-> doc[o].hasId]
       ELSE NoRow]

\* getOrdersList after its await; a failed query leaves the list empty.
GetOrdersListReturns(u) ==
  /\ fetching[u]
  /\ fetching' = [fetching EXCEPT ![u] = FALSE]
  /\ \/ /\ Succeeds
        /\ rows' = [rows EXCEPT ![u] = Query(u)]
     \/ Fails /\ UNCHANGED rows
  /\ UNCHANGED <<detail, sel, selId, showAccept, showReject, pend, mapVars,
                 homeVars, misled, doc, log>>

\* Mutant of MayAccept: a driver may accept whatever his list shows.
MayAcceptListed(u, row) ==
  ~row.isRejected /\ (u \in Drivers \/ row.status = Placed)

\* sortDriverFarmerAcceptReject: the buttons of the detail page.
MayAccept(u, row) ==
  ~row.isRejected /\ row.status = (IF u \in Drivers THEN Accepted ELSE Placed)

MayReject(u, row) ==
  ~row.isRejected /\ u = Farmer /\ row.status = Placed

\* navigateToDetailsPage on a row of the list.
NavigateToDetailsPage(u, o) ==
  /\ OnDesk(u)
  /\ rows[u][o] # NoRow
  /\ ~detail[u]
  /\ detail' = [detail EXCEPT ![u] = TRUE]
  /\ sel' = [sel EXCEPT ![u] = o]
  /\ selId' = [selId EXCEPT ![u] = rows[u][o].hasId]
  /\ showAccept' = [showAccept EXCEPT ![u] = MayAccept(u, rows[u][o])]
  /\ showReject' = [showReject EXCEPT ![u] = MayReject(u, rows[u][o])]
  /\ UNCHANGED <<rows, fetching, pend, mapVars, homeVars, misled, storeVars>>

\* The back arrow of the detail page.
BackToList(u) ==
  /\ OnDesk(u)
  /\ detail[u]
  /\ CloseDetails(u)
  /\ UNCHANGED <<rows, fetching, sel, selId, pend, mapVars, homeVars, misled,
                 storeVars>>

-----------------------------------------------------------------------------
(***************************************************************************)
(* The Accept and Reject buttons.  With a null orderID the call throws     *)
(* before anything is written.                                             *)
(***************************************************************************)
Issue(u, w) ==
  /\ Len(pend[u]) < MaxTaps
  /\ pend' = [pend EXCEPT ![u] = Append(@, w)]

\* acceptBtnClick up to its await.
TapAccept(u) ==
  /\ OnDesk(u)
  /\ detail[u] /\ selId[u] /\ showAccept[u]
  /\ IF u \in Drivers
       THEN /\ Issue(u, [order |-> sel[u], kind |-> "accept",
                         status |-> DriverStatus(0), seen |-> Accepted])
            /\ log' = [log EXCEPT ![sel[u]].takers = @ \cup {u}]
       ELSE /\ Issue(u, [order |-> sel[u], kind |-> "accept",
                         status |-> Accepted, seen |-> Placed])
            /\ UNCHANGED log
  /\ UNCHANGED <<listVars, mapVars, homeVars, misled, doc, faults>>

\* rejectBtnClick up to its await.
TapReject(u) ==
  /\ OnDesk(u)
  /\ detail[u] /\ selId[u] /\ showReject[u]
  /\ Issue(u, [order |-> sel[u], kind |-> "reject",
               status |-> Placed, seen |-> Placed])
  /\ log' = [log EXCEPT ![sel[u]].refused = TRUE]
  /\ UNCHANGED <<listVars, mapVars, homeVars, misled, doc, faults>>

\* The update of a device that is first in line is applied.
Apply(u, w) ==
  IF w.kind = "reject"
    THEN RejectOrder(w.order) /\ UNCHANGED log
    ELSE /\ UpdateOrderStatus(w.order, w.status,
                              IF u \in Drivers THEN u ELSE NoDriver)
         /\ log' = [log EXCEPT ![w.order].accepted = @ \/ u = Farmer]

\* Where the Accept button takes driver d after its await: to the delivery page
\* of whatever selectedOrder is by then, unless a delivery page is in front
\* already.  The page of an order without id is inert.  No order of a driver's
\* list has a driver's status, so the page starts at index -1.
OpenSelected(d, w) ==
  IF map[d] = NoOrder /\ selId[d]
    THEN /\ map' = [map EXCEPT ![d] = sel[d]]
         /\ mapIdx' = [mapIdx EXCEPT ![d] = -1]
         /\ mapRead' = [mapRead EXCEPT ![d] = "open"]
         /\ misled' = [misled EXCEPT ![sel[d]] =
                         IF sel[d] = w.order THEN @ ELSE @ \cup {d}]
    ELSE UNCHANGED <<mapVars, misled>>

\* acceptBtnClick / rejectBtnClick after the await: the buttons go, the list
\* is fetched again, and a driver is taken to a delivery page.
ButtonReturns(u) ==
  LET w == Head(pend[u]) IN
  /\ pend[u] # <<>>
  /\ w.kind # "deliver"
  /\ pend' = [pend EXCEPT ![u] = Tail(@)]
  /\ \/ Succeeds /\ Apply(u, w)
     \/ Fails /\ UNCHANGED <<doc, log>>
  /\ showAccept' = [showAccept EXCEPT ![u] = FALSE]
  /\ showReject' = [showReject EXCEPT ![u] = FALSE]
  /\ StartGetOrdersList(u)
  /\ IF u \in Drivers
       THEN OpenSelected(u, w)
       ELSE UNCHANGED <<mapVars, misled>>
  /\ UNCHANGED <<detail, sel, selId, homeVars>>

\* The order that fetchFcmTokenById is given after the await, to name it to the
\* customer it belongs to.
NotifiedOrder(u) == sel[u]

-----------------------------------------------------------------------------
(***************************************************************************)
(* The home page of a driver, which lists the orders under his driverId.   *)
(* It is fetched when it is created, when it is pulled down and after each *)
(* delivery update.                                                        *)
(***************************************************************************)

\* HomeViewController.fetchDriverOrders up to its await: the lists are emptied.
StartHomeFetch(d) ==
  /\ mine' = [mine EXCEPT ![d] = NoRows]
  /\ homeFetch' = [homeFetch EXCEPT ![d] = TRUE]

\* Pull to refresh: getDatas.
RefreshHome(d) ==
  /\ map[d] = NoOrder
  /\ StartHomeFetch(d)
  /\ UNCHANGED <<listVars, pend, mapVars, misled, storeVars>>

\* Mutant of HisOrders: the home page lists every order that was accepted.
HisOrdersAnyDriver(d) ==
  [o \in Orders |->
     IF doc[o].exists /\ doc[o].status # Placed THEN doc[o].status ELSE NoRow]

\* fetchOrdersWithDriverId.
HisOrders(d) ==
  [o \in Orders |->
     IF doc[o].exists /\ doc[o].driverId = d THEN doc[o].status ELSE NoRow]

\* fetchDriverOrders after its await; a failed query leaves the lists empty.
HomeFetchReturns(d) ==
  /\ homeFetch[d]
  /\ homeFetch' = [homeFetch EXCEPT ![d] = FALSE]
  /\ \/ /\ Succeeds
        /\ mine' = [mine EXCEPT ![d] = HisOrders(d)]
     \/ Fails /\ UNCHANGED mine
  /\ UNCHANGED <<listVars, pend, mapVars, misled, doc, log>>

(***************************************************************************)
(* The delivery page of a driver.                                          *)
(***************************************************************************)

\* The driver opens it from the home page, with the copy listed there.
OpenMap(d, o) ==
  /\ map[d] = NoOrder
  /\ mine[d][o] # NoRow
  /\ map' = [map EXCEPT ![d] = o]
  /\ mapIdx' = [mapIdx EXCEPT ![d] = DriverIndex(mine[d][o])]
  /\ mapRead' = [mapRead EXCEPT ![d] = "open"]
  /\ UNCHANGED <<listVars, pend, homeVars, misled, storeVars>>

\* The read that follows: getOrdersList of the page, or getOrderById after an
\* update, which goes on to fetch the home page.  When it fails the first keeps
\* the index, while the second yields an empty map whose status is not in the
\* list.
MapReadReturns(d) ==
  /\ mapRead[d] # "none"
  /\ mapRead' = [mapRead EXCEPT ![d] = "none"]
  /\ \/ /\ Succeeds
        /\ mapIdx' = [mapIdx EXCEPT ![d] = DriverIndex(doc[map[d]].status)]
     \/ /\ Fails
        /\ mapIdx' = [mapIdx EXCEPT ![d] = IF mapRead[d] = "after" THEN -1 ELSE @]
  /\ IF mapRead[d] = "after" THEN StartHomeFetch(d) ELSE UNCHANGED homeVars
  /\ UNCHANGED <<listVars, pend, map, misled, doc, log>>

\* Mutant of TapStatus: every status but the current one can be tapped.
TapOtherStatus(d, i) ==
  /\ map[d] # NoOrder
  /\ i # mapIdx[d]
  /\ Issue(d, [order |-> map[d], kind |-> "deliver",
               status |-> DriverStatus(i), seen |-> mapIdx[d] + 2])
  /\ UNCHANGED <<listVars, mapVars, homeVars, misled, storeVars>>

\* A tap on status i is honoured when it is beyond the index the page knows.
\* Without an index the copy shows Accepted or less, here Accepted.
TapStatus(d, i) ==
  /\ map[d] # NoOrder
  /\ i > mapIdx[d]
  /\ Issue(d, [order |-> map[d], kind |-> "deliver",
               status |-> DriverStatus(i), seen |-> mapIdx[d] + 2])
  /\ UNCHANGED <<listVars, mapVars, homeVars, misled, storeVars>>

\* updateDeliveryStatus after the update: it reads the order again.  When the
\* page is gone that read shows nowhere and only the home page is fetched.
StatusReturns(d) ==
  LET w == Head(pend[d]) IN
  /\ pend[d] # <<>>
  /\ w.kind = "deliver"
  /\ pend' = [pend EXCEPT ![d] = Tail(@)]
  /\ \/ Succeeds /\ Apply(d, w)
     \/ Fails /\ UNCHANGED <<doc, log>>
  /\ IF map[d] = NoOrder
       THEN StartHomeFetch(d) /\ UNCHANGED mapRead
       ELSE mapRead' = [mapRead EXCEPT ![d] = "after"] /\ UNCHANGED homeVars
  /\ UNCHANGED <<listVars, map, mapIdx, misled>>

\* The page is left; an update's read that is under way goes on to the home page.
CloseMap(d) ==
  /\ map[d] # NoOrder
  /\ map' = [map EXCEPT ![d] = NoOrder]
  /\ mapRead' = [mapRead EXCEPT ![d] = "none"]
  /\ mapIdx' = [mapIdx EXCEPT ![d] = 0]
  /\ IF mapRead[d] = "after" THEN StartHomeFetch(d) ELSE UNCHANGED homeVars
  /\ UNCHANGED <<listVars, pend, misled, storeVars>>

DeskNext ==
  \/ \E u \in Users :
       \/ GetOrders(u)
       \/ GetOrdersListReturns(u)
       \/ \E o \in Orders : NavigateToDetailsPage(u, o)
       \/ BackToList(u)
       \/ TapAccept(u)
       \/ TapReject(u)
       \/ ButtonReturns(u)
  \/ \E d \in Drivers :
       \/ RefreshHome(d)
       \/ HomeFetchReturns(d)
       \/ \E o \in Orders : OpenMap(d, o)
       \/ MapReadReturns(d)
       \/ \E i \in 0 .. DriverLen - 1 : TapStatus(d, i)
       \/ StatusReturns(d)
       \/ CloseMap(d)

=============================================================================
