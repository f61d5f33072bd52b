# Gherass: a verification project

Gherass is a Flutter application in which customers buy from farms, farmers
accept or reject the orders, and drivers deliver them.  There is no server
program: every device reads and writes Firestore documents directly, with no
transactions, and all coordination between people happens through those
documents.  This directory models that coordination in TLA+, checks it with
TLC on small instances and proves the main results with TLAPS for every
number of orders, drivers, events, products, customers, users, seconds and
updates.

Paths below are relative to `src/lib`.

## 1. Inventory

### How the program runs

* A device is one Dart isolate.  A handler runs without interruption until its
  first `await`; other handlers of the same device, timers and list refreshes
  run while it waits.  GetX controllers hold the state; views only show it.
* `apiservice/firebase_helper.dart` is the only access to Firestore.  A call
  touches one document at a time, unconditionally.  Nearly every method catches
  its exceptions: a failed write looks like a successful one, a failed read
  like an empty answer.
* `widgets/loader.dart` masks the screen while a call runs, but it is one shared
  overlay and any `stopLoading` removes it, so buttons stay usable while a call
  is in flight.

### Components

| Component | State | Operations | Hard behaviour | What makes it correct |
|---|---|---|---|---|
| Order documents (`firebase_helper.dart` 555-581, 701-725, 1132-1148, 1251-1383) | status, isRejected, driverId, orderID of each order | placeOrder (two writes), updateOrderStatus, rejectOrder, reads | blind updates, lost second write, silent failures | decisions are never undone; an order without id is never decided on |
| Order desk of farmer and driver (`module/orders`) | order list, selected order, two buttons, calls in flight | refresh, open, back, accept, reject | buttons decided on old copies, selection re-read after an await, two taps in flight | a driver carries only accepted orders; messages name the right order |
| Driver's home and delivery pages (`module/home/driver_home.dart`, `order_detail_map_controller.dart`) | own orders as last fetched, order of the page, status index | open, tap a status, read back, leave | takeovers by another driver, index from a stale or failed read | statuses advance from what the device saw; driverId names a taker |
| Customer's countdown (`module/track_orders`) | seconds left, timer, overlapping polls, page stack | tick, poll, expire, leave, go back | a late accept against the timeout, polls that overlap, a controller shared by two pages | a verdict shown is true; a rejection has a cause; who waits is answered |
| Cart, checkout, stock (`module/cart`, `firebase_helper.dart` 780-1005, 1385-1406) | cart documents, shared Product objects of the page, product quantity | add, change, remove, reload, validate, place the order, take the stock, delete the cart | read-then-write decrement, unawaited validations, unawaited loop over a list that is emptied, a cart deletion that leaves its items | no stock disappears; a checkout takes what it ordered; a sold-out product is not offered |
| Event booking (`product_contoller.dart` 81-196, `product_widgets.dart` 350-593, `module/events`, `firebase_helper.dart` 316-339, 465-480, 528-656, 768-778) | tickets left and capacity of each event, bookings, copies on every device | open the farm, open an event, book, create, edit, delete, expire | counts written from a cache, a booking of two writes, a button decided once | no ticket sold twice, none lost |
| Inventory and promotions (`module/add_product`, `module/promotions`, `module/inventory`) | product documents, the farmer's list and selected product | add, edit, delete, promote | whole cached products written back over later sales | a product is hidden when sold out and not shown again by an old copy |
| Session (`module/login`, `module/createaccount`, `module/splash`, `firebase_helper.dart` 15-226, 731-754, 1007-1037) | Firebase session, stored isLogin and login type, user documents | sign up, log in, log out, delete the account, start | three stores written at their own moments, a listener left subscribed, the process ending between writes | a user's document is his own; the dashboard is behind a session and under the user's type |
| Delivery addresses (`module/delivery_address`) | address list, current address | add, edit, delete, select | two documents written separately | the current address is one of the list |
| Notifications (`helper/notification.dart`) | tokens, messages | send, route a tap | unreliable delivery, key names that differ | a message names its order |
| Ratings, statistics, search | derived values | compute | parsing of dates | equals its definition |
| Views, themes, locale, platform shells, pods | none of their own | layout | none | not modelled |

### Interaction

Devices share only documents.  The order of a customer's checkout appears in
the farmer's list when that list is next fetched; the farmer's acceptance makes
it appear in the drivers' lists; polls bring the acceptance or the rejection
back to the customer.  Each device therefore acts on copies of different ages,
and what can be promised are facts that never become false again.
The hazards are listed, each at its line, in `PROJECT.json`.

## 2. Plan

1. **Done**: the order lifecycle (OrderStore, OrderDesk, CustomerWait, composed
   by OrderLifecycle), its contract (OrderContract), the inductive invariant and
   its proofs (OrderLifecycleProofs, and OrderAnswerProofs for what the customer
   is told).
2. **Done**: EventBooking, customers with cached counts against the farmer's
   edits, its contract (EventContract), and its proofs (EventBookingProofs,
   EventContractProofs).
3. **Done**: the shop.  ProductStore (product and cart documents), CartPage (the
   customers' devices, with the checkout), Inventory (the farmer's device with
   the promotions), composed by Shop, and its proofs (ShopProofs).  Next: a
   contract of the stock, as there is for orders, events and users.
4. **Done**: Session, sign-up, login, logout, deletion and restarts on one
   device, its contract (UserContract), and its proofs (SessionProofs,
   SessionContractProofs).
5. Next: delivery addresses, whose list and current address are two documents
   written separately; notification routing.
6. Pure operators: status partition, average rating, sales per month, each
   against a reference definition over bounded inputs.

## 3. The order lifecycle

### Modules

* **OrderStore**: the documents and the single-document operations.  Statuses
  are ranks: `Placed` and `Accepted` are the farmer's list, `DriverStatus(i)`
  the driver's.  `Succeeds` and `Fails` say whether the Firestore call of an
  action took effect.  `log` is history for the properties: whether an
  acceptance was written, whether the farmer tapped Reject, how many seconds
  the order's own countdown ran, and who tapped Accept as a driver.
* **OrderDesk**: one action per handler of the farmer's and the drivers'
  devices.  A tap (`TapAccept`, `TapReject`, `TapStatus`) runs to its `await`
  and queues the update; `ButtonReturns` and `StatusReturns` apply it and run
  the code after the `await`.  `selectedOrder` (`sel`) survives a return to the
  list, and `OpenSelected` and `NotifiedOrder` read it after the `await`, as the
  code does (`orders_widgets.dart` 589-599, `orders_controller.dart` 322-328).
  `mine` is the driver's home page, a copy renewed only by its own fetches,
  which start when the page is pulled down (`RefreshHome`) and after a status
  was written.  `misled` is history: the drivers whom the late return of one
  order's Accept brought to another order's delivery page.
* **CustomerWait**: `PlaceOrder`/`PlaceOrderSetsID` are the two writes,
  `OpenTimer` the countdown page, `Tick` and `Expire` the two branches of the
  periodic callback, `PollReadsStatus`, `PollConfirms` and `PollReadsRejected`
  the two awaits of a poll.  Polls of one order are counted by what they have
  read, since nothing else distinguishes them.  `TimerController` models
  `Get.put`: while a countdown page is on the stack a second one is given the
  existing controller, and `onInit` does not run.
* **OrderContract**: what the documents promise a reader, without devices.
* **OrderLifecycle**: the composition, the properties, the inductive invariant
  `IInv`, and `Contract`, the refinement mapping.
* **MCOrderLifecycle**: symmetry sets for TLC.
* **OrderLifecycleProofs** and **OrderAnswerProofs**: the theorems.

### What is abstracted

Names, products, amounts, dates, wording and layout.  Fetches of one list in
flight at the same time are merged into one.  The updates of a device are
applied in the order in which they were issued (the Firestore client queues
them).  A farmer's desk is one device, as is the customer's; drivers are many.
GetX navigation is modelled from its use: a page already on top is not pushed
again, `Get.back` removes one page, `offAllNamed` all.

Also left out:

* A driver's list of past orders (`orders_widgets.dart` 50-53): orders he has
  delivered himself can be opened again, and one that is opened while his Accept
  of another is in flight is where that Accept would lead (as `misled` has it for
  the orders of the list).
* `fetchFcmTokenById` awaits the customer's token before it reads the order's id
  from `selectedOrder` (`orders_controller.dart` 351-370).  `NotifiedOrder` takes
  the order when `selectedOrder` is handed over, so the code has still more ways
  to violate `NoticeNamesOrder`.
* The lists of status names are read at start (`home_controller.dart` 309-332) and
  are taken to be there.  On a device whose read of them failed, the checkout and
  the page of an order throw or show no button, so it writes nothing to the orders.

### Runs

| Run | Instance | Shows |
|---|---|---|
| `order_race` | 1 order, 1 driver, 2 delivery statuses, 2 updates in flight per device | a status goes back only from a stale copy; `KeepsContract` |
| `order_drivers` | 1 order, 2 drivers (symmetric) | `DriverTookOrder` through takeovers and stale home pages |
| `order_list` | 2 orders (symmetric), 1 driver | `DeliveryNeedsAcceptance` with unfiltered lists and misled drivers |
| `order_sequence` | 2 orders (symmetric) of one customer, 2 seconds, 2 overlapping polls | `RejectionHasCause`, `TimerHasPage`, `CountdownUntilAnswer` with a shared controller |
| `order_live` | 1 order, 1 driver, 2 seconds, 2 overlapping polls, one failing call anywhere, fair program steps | types, `IdlessUntouched`, `PollVerdictTrue`, `TimeoutVerdictTrue`, `AnswerOrLeave` |
| `order_timeout` | 1 order, 1 second | **violated**: the countdown rejects an order that was accepted |
| `order_notice` | 2 orders, farmer only | **violated**: the message after Accept names another order |

Bounds.  Two orders are needed to confuse one with another, two drivers for a
takeover, two delivery statuses for a status to go back, two updates in flight
for a double tap, two polls for an overlap, one fault to lose any single call.
`Countdown` is 0 where the timer only has to be able to reject and 2 where
polls overlap.  Deadlock is checked in every run.

Fairness.  `FairSpec` makes the program's own steps weakly fair, each kind by
itself: a periodic timer keeps firing and a Firestore call returns or throws.
Nothing is assumed of any user, and nothing of the farmer's and drivers'
devices.

### Findings

* `order_timeout`: `_autoRejectOrder` (`orders_timer_controller.dart` 84-94)
  rejects without reading the order again.  An order accepted after the last
  poll's read, or already taken by a driver (the poll compares only with
  `orderStatusListOfFarmer[1]`, line 60), is rejected, and the customer reads
  "rejected due to no response".
* `order_notice`: `acceptBtnClick` and `rejectBtnClick` evaluate `selectedOrder`
  after the `await`.  The farmer who has opened another order by then has its
  customer notified.
* The same re-read after a driver's Accept opens the delivery page of an order
  that he did not accept and that no farmer need have accepted.  The properties
  name this exception (`misled`) rather than hide it: without it
  `DeliveryNeedsAcceptance` and `DriverTookOrder` do not hold.

### Proofs

`OrderLifecycleProofs` proves, with no assumption but the named ones on the
constants (`StoreAssumption`, `WaitAssumption`, `DeskAssumption`), for every
value of the constants:

* `TypeCorrect`, `Acceptance`, `Ownership`, `Rejections`, `Idless`,
  `PollVerdicts`, `Timers`: the invariants of the runs;
* `Regressions`: the action property `RegressOnlyFromStaleCopy`;
* `Refinement`: the devices implement `OrderContract`.

None of the invariants is inductive.  A device acts on a copy, so the proof
needs to know what an old copy still says of the document now.  `IInv` states
exactly the facts that survive the delay: a listed id is still an id, a copy
that shows `Accepted` means an acceptance was written (`ListInv`); an update in
flight advances what its device saw and comes from a driver who took or was
misled to the order (`WriteInv`); the delivery page and the home page name such
orders (`MapInv`); `remaining + ticks = Countdown` for the order of the
controller (`WaitInv`).  The argument has three parts: what a step does to the
documents (`DeskEffect`, `WaitEffect`), that what is known of documents only
grows (`Grows`), and that each device's part of `IInv` survives growth and each
of its own steps.  TLC checked `IInv` on the instances above before it was
proved.

`OrderAnswerProofs` builds on this invariant and proves two statements about
the customer's device, without any bound on polls, seconds or faults:

* `Countdowns`: while its page is open, the countdown of an order runs if and
  only if its customer has no answer and no rejection is on its way
  (`CountdownUntilAnswer`).  So no countdown expires once its customer has an
  answer, and none stops with its customer still waiting, not through a poll of
  an earlier order that answers late either.  An answer that arrives while the
  rejection is on its way does not stop the rejection (`order_timeout`).  This
  is the safety half of `AnswerOrLeave`: what is left to fairness is that the
  running countdown ticks and that the call under way returns.
* `TimeoutVerdicts`: who is told of a timeout has watched the full countdown of
  *that* order, and the order is rejected, unless a call failed
  (`TimeoutVerdictTrue`).  A failed `rejectOrder` shows the same dialog
  (`orders_timer_controller.dart` 84-94), hence the exception.

They are inductive together and beside `IInv` (`AnswerInv`).  Neither the second
countdown page, which is given the first one's controller, nor an order placed
again may start a countdown for an order that has an answer; an
order whose id is not written, or that is still being placed, is `Unserved`: its
customer has no answer, and no poll and no rejection is under way.

Only model-checked: `AnswerOrLeave` (liveness is beyond the prover) and the two
violations.

## 4. Event booking

### Modules

* **EventBooking**: the event documents, `ProductController` on the customers'
  devices and `EventController` on the farmer's.  `call[k]` is one call of
  `bookEvents` between its awaits: `BookEvents` runs to the first,
  `UpdateEventTicketCount` is the write of the count, `AddToBookEvents` the
  write of the booking and what follows.  `list`, `booked` and `page` are what
  a customer's device shows; `flist`, `form` and `saves` are the farmer's list,
  the edit form and his calls in flight.  A *copy* is what a device knows of an
  event: its id, the tickets left and the capacity.
* **EventContract**: what events and bookings promise a reader, without devices:
  an event is posted, offered once and removed for good; a booking is counted
  against an event that was offered, then written or lost, once.
* **MCEventBooking**: symmetry.
* **EventBookingProofs** and **EventContractProofs**: the theorems.

How the actions follow the code:

* The page of an event is not inside an `Obx`, so the condition of its button
  (`MayBook`) is evaluated when the page is built (`OpenEvent`) or rebuilt by
  a change of the screen (`RebuildPage`).
* The "Sold Out" branch of `bookEvents` tests the same map as the button and
  nothing changes that map, so it is a guard of `BookEvents`.
* Taps while a call is in flight are possible because any `stopLoading` removes
  the shared mask; count writes of one device arrive in the order in which
  they were issued (`ahead`).
* A list is fetched in one step, and the fetches of one list under way at the
  same time are merged.  A fetch of zero documents returns null, which keeps
  the old list.
* An event whose second write (its id) failed is listed but can be neither
  booked nor edited, as both need the id; it is left out of the lists.
* `removeExpiredDoc` compares formatted dates (`dd MMM h:mm a`) as strings, so
  an event of any date may be deleted by a farmer's refresh.  Called by a
  customer it looks under the customer's own uid and deletes nothing.
* The capacity is stored as the text of a field that takes any decimal
  (`event_controller.dart` 129-133, `event_widgets.dart` 202-216).  `Capacities` is
  a set of natural numbers: with a fraction `int.parse` (266, and
  `product_widgets.dart` 568) throws, and a negative number is never bookable.
  That no count of tickets is negative (`TypeOK`) rests on what farmers enter.
* `booking_id`, the second write of `addToBookEvents`, is read nowhere, and is
  part of `AddToBookEvents`.
* `fresh` and `short` are history: whether every write of an event was computed
  from values still current, and whether a booking was made from a copy with a
  smaller capacity than the event's.

### Runs

| Run | Instance | Shows |
|---|---|---|
| `event_edit` | 1 event, capacities 1 and 2, 1 customer, 1 booking, 1 farmer's call in flight, one failing call | types, `NoTicketLost`, `WithinCapacity`, `KeepsContract` |
| `event_oversell` | 1 ticket, 2 customers | **violated**: both book the last ticket |

Bounds.  One ticket and two customers are the smallest race; two capacities are
needed to raise and to lower one; one fault loses any single call.  In
`event_edit` one booking from a copy of any age meets any sequence of edits, and
in `event_oversell` two customers meet; both together, and every larger instance,
is for the proofs, which have none of these bounds.  `WithinCapacity` speaks of
events whose writes were all computed from current copies (`fresh`): the booking
from an old copy is what `event_oversell` shows, and what is left for a run to
find is a count that does not follow from a current copy.

`KeepsContract` says that the devices implement `EventContract`, with the
mapping `Contract`: the documents' states are `posted`, `offered` and `removed`,
the steps of the calls are `counted`, `booked` and `lost`.  It would be broken by
a write that revives a deleted event, which is what an update that sets the
document would do (the mutant `UpdateEventsSets`).

### Findings

* `event_oversell`: the count is written from the customer's copy without
  looking at the document (`product_contoller.dart` 161-165).
* The button that should read 'Booked' (`product_widgets.dart` 567, 583) is not
  rebuilt after a booking, so a customer can book the same event twice.  The
  model has it (`MayBook`); no property forbids it.
* `addToBookEvents` swallows its exception (`firebase_helper.dart` 595): the
  ticket is taken, no booking is written (a call that ends in `lost`), and the
  customer reads "The event has been successfully booked."
* Two things the properties name rather than hide.  A booking from a copy older
  than a raise of the capacity undoes the raise (`short`).  A capacity lowered
  below what is sold is cut off at zero left (`event_controller.dart` 267); a
  later raise then offers the cut-off tickets again (`FaithfulUpdate` fails, so
  `fresh` is lost).

### Proofs

`EventBookingProofs` proves `TypeCorrect`, `TicketsKept` and `CapacityKept`
from `EventAssumption` alone, for any number of events, customers, bookings,
capacities and faults.

`NoTicketLost` is not inductive: a write puts the values of an old copy back
into the document.  `CopiesCover` says it of every copy wherever it waits (in a
list, on a page, in the form, in a write in flight): its tickets and what has
been spent *by now* cover the capacity it was taken under.  Spending only
grows, so a copy stays good; a count write lowers its copy by one and adds its
own call to what is spent; an edit moves tickets and capacity together or cuts
off at zero, which only adds tickets.  `HeldWereOffered` says that no list, page,
form or call in flight, a farmer's or a customer's, holds an event that was not
offered first; so nothing has been spent of an event when it is posted.
`HandlersReady` gives that a call in flight has a copy with a ticket to take.
`WithinCapacity` is inductive beside them.

`EventContractProofs` proves from the same invariant:

* `Refinement`: the devices implement `EventContract` (`KeepsContract`).  What a
  step does to the documents and what it does to the calls are separate moves
  (`DocMoves`, `SameCall`), and each step makes at most one of them, which is an
  action of the contract.  `HeldWereOffered` is what `Count` and `Remove` need:
  whatever a customer books or the farmer deletes was offered.
* `OversellNeedsStaleCopy`: bookings fit the maximum number of visitors while
  every count was written from a current copy.  This is what remains true of
  `NoOversell`, which `event_oversell` refutes; it counts the bookings written,
  where `WithinCapacity` counts the tickets taken.

Only model-checked: the violation.

## 5. The shop

### Modules

* **ProductStore**: the products of one farmer and the carts of his customers,
  with what `FirebaseHelper` does to them.  `WriteStock` is the second half of
  `updateProductQty`, `SaveProduct` and `WriteCopy` are the two uses of
  `updateProductToFarmer` (the product form, which sends its own fields, and the
  promotions, which send a listed product's whole map).  `supply`, `taken` and
  `raced` are history: what the farmer has put on sale, what checkouts took, and
  whether a copy older than the farmer's last edit was written after it.
* **CartPage**: `MyCartController` on each customer's device.  `myCartList`
  holds shared mutable `Product` objects, so changing an object changes it
  wherever it is held (`Subst`): in the list, in the hands of a validation whose
  list is gone (`late`), and in what `updateProduct` has still to iterate
  (`todo`).  `ReloadWith` is the part of `getCartProducts` before its await,
  which empties the list in place and so breaks an `updateProduct` iterating it
  (`tied`).  The fetch then awaits one read after the other
  (`firebase_helper.dart` 905-957), and anything may happen between them:
  `ReadCart` looks for the cart document, `FindNothing` gives up on a cart
  without items, and `Land` is the last read, of the items, with the answer it
  gives, which starts a validation per item.  `fetches` counts the fetches at
  each of these points.  `stage` is where `placeOrder()` is: placing the order,
  deleting the cart, showing the dialog for five seconds.  `owed`, `placed` and
  `moved` are history: what the order lists and has not been taken yet, whether
  its document exists, and whether the list was emptied or replaced while it was
  placed; so is `crossed`: whether a fetch had found the cart when `cartDelete`
  deleted it.  An `updateProductQty` is `TakeNext` (the call, with the quantity
  the object has then), `TakeRead` (the stock) and `TakeWrite`; a
  `removeFromCart` deletes twice (`SetRemoved`, `DropAgain`) before it clears
  the list (`Sweep`).
* **Inventory**: the farmer's list (`rows`), the selected product of the
  promotions, the product form.
* **Shop**: the composition and its properties.  **MCShop**: symmetry.
  **ShopProofs**: the theorems.

### What is abstracted

* One farmer's products; prices, discounts, pictures and the promotion documents
  are left out.  Delivery date, time and address are taken as filled in.
* A customer has one button handler under way at a time, next to any number of
  reloads and validations; the checkout may start while a handler is under way,
  and the cart page be used while the checkout is.  Products are added, on the
  product page, only outside a checkout.  One `updateProduct` is over before the
  next checkout completes.
* An object is known by its value, so that two reloads' objects of one document
  with the same quantity are one in the model.  The steps of a device are at its
  awaits; where the code goes on at once with the next call (`TakeNext`), the
  model allows other steps between, and a fetch's last answer is used when it is
  read.
* `MyCartController` is taken to live as long as the device: opening the cart is
  a refresh.
* The reads of `postOrderComplete`, which compare the stock with nothing, are
  part of `Complete`.  `placeOrder`'s second write and the retries of an order
  are in CustomerWait; here the order exists or does not.
* A cart is written by its own customer's device only, and a Firestore client
  sees its own pending writes, so a cart write counts from when it is issued.
  The `id` update after a cart or product document was added is part of the
  adding.

### Runs

| Run | Instance | Shows |
|---|---|---|
| `shop_race` | 2 customers (symmetric), 1 product with up to 2 pieces, carts of 1 item of up to 2 pieces, 2 taps each, no failing call | `StockAccounted`, `TakesOnlyWhatItOrdered` under two checkouts at once |
| `shop_cart` | 1 customer, 2 products of 1 piece, carts of up to 2 items, 3 taps, one upset | types, `StockAccounted`, `SoldOutHidden`, `HiddenForGood`, `TakesOnlyWhatItOrdered`, `EmptiedCartShowsNothing`, `FailureOnlyAfterReload` |

Bounds.  Two customers are the smallest race for the stock, and two pieces let one
of them take a part.  Two taps are an item in the cart and a checkout; the third is
another item, a changed quantity or a reload at any moment of the checkout.  Two
products are needed for an `updateProduct` that is overtaken between its items.  An
*upset* is one failing call or one write of the farmer: a failed read (which answers
-1), a lost write, an edit, a deletion or a promotion from an old copy.  The taps
bound the runs, so they may stop and deadlock is not checked.  What the bounds leave
out is covered by the proofs.

### What holds and what does not

Two customers can buy the same piece: nothing ties the read of the stock to its
write.  What does hold is that no piece *disappears*: what is left and what
checkouts took cover what the farmer put on sale (`StockAccounted`), with one
exception it names, a copy older than his last edit that is written after it
(`raced`: a promotion made from a list fetched before, or an `updateProductQty`
under way).  `TakesOnlyWhatItOrdered` needs the order to exist (`placed`:
`postOrderComplete` returns true for the empty id as well) and the list not to
have been reloaded meanwhile (`moved`).  When it was, `myCartList.first` throws
after the order was placed and the customer is told to try again
(`FailureOnlyAfterReload`).  `EmptiedCartShowsNothing` says that a deleted cart
shows nothing although `cartDelete` leaves the documents of its items in place,
because every fetch looks for the cart first.  It names one exception: a fetch
that had found the cart before its deletion and reads the items after it
(`crossed`) shows what was ordered once more, on a page that says nothing of it,
and the customer can order it again.  The documents left come back in any case
with the next product added.  `HiddenForGood` states a consequence of
`add_prod_controller.dart` 294: every edit hides the product, the restocking one
too.

### Proofs

`ShopProofs` proves each of these properties from `StoreAssumption` and
`TapAssumption`, for any number of customers and products and any bounds.

`StockAccounted` and `SoldOutHidden` are inductive only together with what every
copy says that may still be written: `StockInv` adds that a listed or selected
product and a read of the stock not yet written account for the stock by what
was taken *by now* (`CopyAccounted`, `ReadAccounted`), and `taken` only grows.
`TakesOnlyWhatItOrdered` rests on `CheckoutInv`: there is one object per product
in the list and in `todo`, what they ask for is owed, and validations only lower
it (`AtLeast0Monotone`).  `EmptiedCartShowsNothing` rests on `EmptiedInv`: as
long as a cart is deleted, and was not crossed, no fetch is about to read what
lies below it, whatever the stage of the checkout.

## 6. The session

### Modules

**Session** is one device on which several people register and log in.  Three
things say who uses the app: `session` (Firebase's currentUser), `isLogin` in
the local storage, and `logType`, the login type chosen last, which names the
collection of the user's document.  `logins[u]` is u's `login` call between its
awaits (sign-in, `getUserType`, `isUidPresent`), each of which reads `logType`
again; `signUps[u]` a `createUserWithEmailAndPassword` on its way; `forms` the
listeners that earlier sign-ups left behind and `due` those whose event is not
yet handled; `ending` where `logout` or `deleteCurrentUser` is.  `Restart` ends
the process at any point: the Firebase session and the local storage survive,
calls and listeners do not.  `mixed`, `signedUp` and `cut` are history.
**UserContract** says what accounts and users' documents promise a reader,
without device, pages or calls. **MCSession** has the symmetry;
**SessionProofs** and **SessionContractProofs** have the theorems.

A fresh installation is assumed, with users who may have registered elsewhere.
The login page's buttons are not masked while a call runs, so that calls of
different users overlap.  `logout` is called on the profile page and, on any
page, by `onTokenRefresh` (`helper/notification.dart` 153).  Whether Firebase
reports a sign-in of the user already signed in is left open.  The timers of
splash screens opened in a row are merged, and so are the events that wait for one
listener (`due`).  The FCM token and the other fields of the forms are left out.

A call to Firebase Authentication that throws is taken to have had no effect
(`NotCreated`, `UserNotDeleted`): a reply lost after the server has created or
deleted the account is not modelled.  A change of the language opens the splash page
without a restart (`basecontroller.dart` 59-73); it is left out, and a restart
reaches the same page.

### Run

`session`: two people (symmetric), two login types with a registration form, six
taps, and any number of restarts, answers and failures between them.  Six taps
are two choices of a type, a sign-up, a login of somebody else, a logout or
deletion, and one more of any.  Deadlock is checked.

* `OwnDocument`: the document of a user is the one he registered with.  The
  exception is named, not hidden: somebody who signs in while another user's
  sign-up listener is there (`mixed`) has that user's form written over his
  document (`firebase_helper.dart` 34-39).
* `KeepsContract`: the device implements `UserContract` (mapping `Contract`).  One
  person gets one account, a deleted account is not signed in to again, and a
  document is written or erased only for the user of the session, with a form
  somebody registered with.
* `LoginKeepsType`: a login opens the dashboard only for a type its user
  registered as, although it reads the type three times around two awaits.
* `SessionBehindLogin`: nobody is led to the dashboard without a session, unless
  the session is just being ended, or the process ended between its end and the
  reset of `isLogin`, or a login or listener was in flight then (`cut`).

### Proofs

`SessionProofs` proves the four from `TypesAssumption`, for any users, types and
bound.  `OwnInv` is the invariant behind the first two: listeners carry forms
that gave somebody his account, and those there are while u is signed in are his
own or u is `mixed`; then every document is its user's, and a type read from it
is one he registered as (`FoundTypes`).  `EndInv` strengthens `SessionBehindLogin`
by the calls in flight that would open the dashboard.

`SessionContractProofs` adds `AccountInv`: who has an account is who registered,
with one form; a sign-up that waits for its account has none yet; and the account
of a session is in use.  With it:

* `Refinement`: the device implements `UserContract`, for any users and types.
* `DocumentsOnlyInSession`: a document changes only while its own user is signed
  in.  Listeners, calls and deletions that outlive a session are stopped by the
  test of `currentUser` in the listener and reach at most the document of whoever
  is signed in then.

`UserContract` promises no more: a document may be missing for a user with an
account (the listener's write fails silently), may outlive the account (the
listener writes it between the two steps of the deletion), and may lie in a
collection other than its form's type.

Only model-checked: nothing.

## 7. Not modelled

* Delivery addresses, the routing of notifications, ratings and statistics: see
  the plan.  Read-only pages (order tracking, booked events, order history) write
  nothing another actor relies on.
* The Dart views, themes and translations (`lib/module/*/view`, `lib/theme`,
  `lib/locale`): layout and wording.  A handler in a view that changes state is
  modelled with its controller.
* The platform projects and the pods under `ios`: Firestore, gRPC, BoringSSL,
  Abseil and other third-party C and C++ the application only links.  They are
  almost all of the repository's C and C++ lines, and none of the program's own
  logic; Firestore, Firebase Authentication, FCM and GetX appear in the models as
  `lib` uses them.
