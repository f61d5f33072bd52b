----------------------------- MODULE OrderStore -----------------------------
(***************************************************************************)
(* The `order' collection of Firestore and the operations that             *)
(* FirebaseHelper performs on it.  Every Firestore update of one document  *)
(* is atomic; no operation of the program spans two documents or two       *)
(* updates atomically, and none runs in a transaction.                     *)
(*                                                                         *)
(* Every FirebaseHelper method catches its exceptions, so a failed call    *)
(* looks to the caller like a successful one (writes) or like an empty     *)
(* answer (reads).  The number of failed calls is bounded by MaxFaults.    *)
(***************************************************************************)
EXTENDS Integers, FiniteSets, Sequences

CONSTANTS
  Orders,     \* document ids of orders
  NoOrder,    \* the empty order id: no order
  Drivers,    \* uids of drivers
  NoDriver,   \* driverId = "": no driver has taken the order
  DriverLen,  \* length of Constants.orderStatusListOfDriver
  MaxFaults   \* bound on failed Firestore calls

ASSUME StoreAssumption ==
  /\ DriverLen \in Nat \ {0}
  /\ MaxFaults \in Nat
  /\ NoDriver \notin Drivers
  /\ NoOrder \notin Orders

VARIABLES
  doc,     \* [Orders -> Doc], the documents
  faults,  \* number of calls that failed so far
  log      \* history, for properties only: who really did what to an order

storeVars == <<doc, faults, log>>

(***************************************************************************)
(* Order statuses are ranked.  orderStatusListOfFarmer = <<Placed,         *)
(* Accepted>> (the code uses its [0], [1], first and last) and             *)
(* orderStatusListOfDriver[i] = DriverStatus(i).                           *)
(***************************************************************************)
Placed == 0
Accepted == 1
DriverStatus(i) == i + 2
Status == 0 .. DriverLen + 1

\* orderStatusListOfDriver.indexWhere: -1 when the status is not in the list.
DriverIndex(s) == IF s >= 2 THEN s - 2 ELSE -1

Doc == [exists : BOOLEAN, hasId : BOOLEAN, status : Status,
        isRejected : BOOLEAN, driverId : Drivers \cup {NoDriver}]

NewDoc == [exists |-> FALSE, hasId |-> FALSE, status |-> Placed,
           isRejected |-> FALSE, driverId |-> NoDriver]

\* accepted: an acceptance by the farmer was written; refused: the farmer
\* tapped Reject; ticks: seconds the customer's countdown ran for this order;
\* takers: the drivers who tapped Accept.
LogEntry == [accepted : BOOLEAN, refused : BOOLEAN, ticks : Nat,
             takers : SUBSET Drivers]

NoLog == [accepted |-> FALSE, refused |-> FALSE, ticks |-> 0, takers |-> {}]

StoreTypeOK ==
  /\ doc \in [Orders -> Doc]
  /\ faults \in 0 .. MaxFaults
  /\ log \in [Orders -> LogEntry]

StoreInit ==
  /\ doc = [o \in Orders |-> NewDoc]
  /\ faults = 0
  /\ log = [o \in Orders |-> NoLog]

(***************************************************************************)
(* Whether the call that an action makes succeeds.                         *)
(***************************************************************************)
Succeeds == UNCHANGED faults

Fails ==
  /\ faults < MaxFaults
  /\ faults' = faults + 1

(***************************************************************************)
(* Single-document operations of FirebaseHelper.                           *)
(***************************************************************************)

\* placeOrder, first write: add({...orderData, 'orderID': null}).
AddOrder(o) == doc' = [doc EXCEPT ![o].exists = TRUE]

\* placeOrder, second write: update({'orderID': docRef.id}).
SetOrderID(o) == doc' = [doc EXCEPT ![o].hasId = TRUE]

\* Mutant of UpdateOrderStatus: the farmer's update clears driverId.
UpdateOrderStatusNoOwner(o, s, d) ==
  doc' = [doc EXCEPT ![o].status = s, ![o].driverId = d]

\* updateOrderStatus: an unconditional update; a driver's also writes driverId.
UpdateOrderStatus(o, s, d) ==
  doc' = [doc EXCEPT ![o].status = s,
                     ![o].driverId = IF d = NoDriver THEN @ ELSE d]

\* rejectOrder: an unconditional update.
RejectOrder(o) == doc' = [doc EXCEPT ![o].isRejected = TRUE]

=============================================================================
