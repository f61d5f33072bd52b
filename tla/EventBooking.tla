---------------------------- MODULE EventBooking ----------------------------
(***************************************************************************)
(* A farm's events and the customers who book them: ProductController on   *)
(* the customers' devices, EventController on the farmer's, and the event  *)
(* documents they share.                                                   *)
(*                                                                         *)
(* The tickets left are a field of the event document.  Nobody ever        *)
(* decrements it: a customer writes the number his copy shows minus one,   *)
(* the farmer the number that follows from his copy.  A booking is two     *)
(* writes to two documents, the count first.  FirebaseHelper catches every *)
(* exception, so a write that failed is followed by the same steps as one  *)
(* that succeeded; MaxFaults bounds the failed calls.                      *)
(***************************************************************************)
EXTENDS Integers, FiniteSets, Sequences

CONSTANTS
  Events,      \* ids of event documents
  NoEvent,     \* no event
  Customers,   \* uids of customers
  NoCustomer,  \* nobody
  Bookings,    \* calls of bookEvents; a finite set, so it bounds them
  Capacities,  \* numbers of visitors the farmer enters
  MaxSaves,    \* bound on the farmer's calls in flight
  MaxFaults    \* bound on failed Firestore calls

ASSUME EventAssumption ==
  /\ NoEvent \notin Events
  /\ NoCustomer \notin Customers
  /\ IsFiniteSet(Bookings)
  /\ Capacities \subseteq Nat
  /\ MaxSaves \in Nat
  /\ MaxFaults \in Nat

VARIABLES
  event,       \* [Events -> [state, left, max]], the documents
  call,        \* [Bookings -> a call of bookEvents]
  list,        \* [Customers -> farmerEvents]: listed event -> copy
  booked,      \* [Customers -> bookedEvents], as sets of events
  page,        \* [Customers -> farmerEventItem and the Book button]
  fetching,    \* [Customers -> the lists a fetch is under way for]
  flist,       \* the farmer's farmerEvents: listed event -> copy
  form,        \* what updateFields put in the farmer's form
  editing,     \* is the edit page on top
  posting,     \* the event whose id postEvents is about to write
  saves,       \* the farmer's calls in flight, in order
  refreshing,  \* the farmer's getEventList is under way
  faults,      \* number of calls that failed so far
  fresh,       \* history: events written only from copies still current
  short        \* history: events booked from a copy of a smaller capacity

customerVars == <<call, list, booked, page, fetching>>
farmerVars == <<flist, form, editing, posting, saves, refreshing>>
vars == <<event, customerVars, farmerVars, faults, fresh, short>>

\* A copy of an event document, and no copy.
Copy == [event : Events, left : Nat, max : Nat]
NoCopy == [event |-> NoEvent, left |-> 0, max |-> 0]

\* idless: added, and the second write, of the id, has not taken effect.
Doc == [state : {"unused", "idless", "live", "deleted"}, left : Nat, max : Nat]

\* count, add: awaiting the write of the count, of the booking; lost: the
\* booking could not be written.  ahead: earlier count writes of the device.
Call == [step : {"idle", "count", "add", "booked", "lost"},
         customer : Customers \cup {NoCustomer}, copy : Copy \cup {NoCopy},
         ahead : SUBSET Bookings]

\* copy: what the new values were computed from.
Save == [kind : {"update", "delete"}, copy : Copy, left : Nat, max : Nat]

\* The types, and what no single device maintains alone: no count is ever
\* negative, whoever wrote it and from whichever copy
\* (event_controller.dart:267-271, product_contoller.dart:152).
TypeOK ==
  /\ event \in [Events -> Doc]
  /\ call \in [Bookings -> Call]
  /\ list \in [Customers -> SUBSET Copy]
  /\ booked \in [Customers -> SUBSET Events]
  /\ page \in [Customers -> [copy : Copy \cup {NoCopy}, enabled : BOOLEAN]]
  /\ fetching \in [Customers -> SUBSET {"events", "booked"}]
  /\ flist \in SUBSET Copy
  /\ form \in Copy \cup {NoCopy}
  /\ editing \in BOOLEAN
  /\ posting \in Events \cup {NoEvent}
  /\ saves \in Seq(Save)
  /\ refreshing \in BOOLEAN
  /\ faults \in 0 .. MaxFaults
  /\ fresh \in [Events -> BOOLEAN]
  /\ short \in [Events -> BOOLEAN]

NoPage == [copy |-> NoCopy, enabled |-> FALSE]
NoCall == [step |-> "idle", customer |-> NoCustomer, copy |-> NoCopy, ahead |-> {}]

Init ==
  /\ event = [e \in Events |-> [state |-> "unused", left |-> 0, max |-> 0]]
  /\ call = [k \in Bookings |-> NoCall]
  /\ list = [c \in Customers |-> {}]
  /\ booked = [c \in Customers |-> {}]
  /\ page = [c \in Customers |-> NoPage]
  /\ fetching = [c \in Customers |-> {}]
  /\ flist = {}
  /\ form = NoCopy
  /\ editing = FALSE
  /\ posting = NoEvent
  /\ saves = <<>>
  /\ refreshing = FALSE
  /\ faults = 0
  /\ fresh = [e \in Events |-> TRUE]
  /\ short = [e \in Events |-> FALSE]

-----------------------------------------------------------------------------
(***************************************************************************)
(* Firestore.                                                              *)
(***************************************************************************)
Succeeds == UNCHANGED faults

Fails ==
  /\ faults < MaxFaults
  /\ faults' = faults + 1

Exists(e) == event[e].state \in {"idless", "live"}
CopyOf(e) == [event |-> e, left |-> event[e].left, max |-> event[e].max]

\* fetchFarmerEvents: null, which keeps the old list, when there is none.  A
\* row without id is left out: it can be neither booked nor edited.
FarmerEvents(old) ==
  IF \E e \in Events : Exists(e)
  THEN {CopyOf(e) : e \in {x \in Events : event[x].state = "live"}}
  ELSE old

\* The bookings written for customer c.
BookedBy(c) == {k \in Bookings : call[k].step = "booked" /\ call[k].customer = c}

\* fetchBookedEvents, with the same null.
BookedEvents(c) ==
  IF BookedBy(c) = {} THEN booked[c] ELSE {call[k].copy.event : k \in BookedBy(c)}

-----------------------------------------------------------------------------
(***************************************************************************)
(* The customer.                                                           *)
(***************************************************************************)

\* The farm page is opened: a new ProductController, whose onInit fetches.
EnterFarm(c) ==
  /\ list' = [list EXCEPT ![c] = {}]
  /\ booked' = [booked EXCEPT ![c] = {}]
  /\ page' = [page EXCEPT ![c] = NoPage]
  /\ fetching' = [fetching EXCEPT ![c] = {"events", "booked"}]
  /\ UNCHANGED <<event, call, farmerVars, faults, fresh, short>>

\* getEventList.  Its removeExpiredDoc queries the customer's own uid under
\* `farmer' and finds nothing.
FetchEvents(c) ==
  /\ "events" \in fetching[c]
  /\ fetching' = [fetching EXCEPT ![c] = @ \ {"events"}]
  /\ \/ Succeeds /\ list' = [list EXCEPT ![c] = FarmerEvents(@)]
     \/ Fails /\ UNCHANGED list
  /\ UNCHANGED <<event, call, booked, page, farmerVars, fresh, short>>

\* getBookedEventsList.
FetchBooked(c) ==
  /\ "booked" \in fetching[c]
  /\ fetching' = [fetching EXCEPT ![c] = @ \ {"booked"}]
  /\ \/ Succeeds /\ booked' = [booked EXCEPT ![c] = BookedEvents(c)]
     \/ Fails /\ UNCHANGED booked
  /\ UNCHANGED <<event, call, list, page, farmerVars, fresh, short>>

\* The condition of the Book button, evaluated when the page is built.
MayBook(c, copy) == copy.event \notin booked[c] /\ copy.left > 0

\* A row is tapped: farmerEventItem takes it and EventDetailsPage is built.
OpenEvent(c, copy) ==
  /\ page[c] = NoPage
  /\ page' = [page EXCEPT ![c] = [copy |-> copy, enabled |-> MayBook(c, copy)]]
  /\ UNCHANGED <<event, call, list, booked, fetching, farmerVars, faults, fresh, short>>

\* No Obx surrounds the page: it is rebuilt only when the screen changes.
RebuildPage(c) ==
  /\ page[c] # NoPage
  /\ page' = [page EXCEPT ![c].enabled = MayBook(c, page[c].copy)]
  /\ UNCHANGED <<event, call, list, booked, fetching, farmerVars, faults, fresh, short>>

ClosePage(c) ==
  /\ page[c] # NoPage
  /\ page' = [page EXCEPT ![c] = NoPage]
  /\ UNCHANGED <<event, call, list, booked, fetching, farmerVars, faults, fresh, short>>

\* bookEvents to its first await.  The Sold Out return repeats the test the
\* button made on the same map, which nothing changes, so it is a guard here.
BookEvents(c, k) ==
  /\ page[c].enabled
  /\ page[c].copy.left > 0
  /\ call[k].step = "idle"
  /\ call' = [call EXCEPT ![k] =
       [step |-> "count", customer |-> c, copy |-> page[c].copy,
        ahead |-> {j \in Bookings : call[j].step = "count" /\ call[j].customer = c}]]
  /\ UNCHANGED <<event, list, booked, page, fetching, farmerVars, faults, fresh, short>>

\* Mutant of TicketsAfterBooking: the count is passed on as it was read.
TicketsAfterBookingUnchanged(copy) == copy.left

\* The count bookEvents passes on.
TicketsAfterBooking(copy) == copy.left - 1

\* updateEventTicketCount: the copy's count minus one; an update of a deleted
\* document fails.  What follows is the same when it fails.
UpdateEventTicketCount(k) ==
  LET seen == call[k].copy
      e == seen.event
  IN
  /\ call[k].step = "count"
  /\ \A j \in call[k].ahead : call[j].step # "count"
  /\ call' = [call EXCEPT ![k].step = "add", ![k].ahead = {}]
  /\ \/ /\ event[e].state = "live" /\ Succeeds
        /\ event' = [event EXCEPT ![e].left = TicketsAfterBooking(seen)]
        /\ fresh' = [fresh EXCEPT ![e] = @ /\ seen = CopyOf(e)]
        /\ short' = [short EXCEPT ![e] = @ \/ seen.max < event[e].max]
     \/ /\ \/ event[e].state = "live" /\ Fails
           \/ event[e].state # "live" /\ Succeeds
        /\ fresh' = [fresh EXCEPT ![e] = FALSE]
        /\ UNCHANGED <<event, short>>
  /\ UNCHANGED <<list, booked, page, fetching, farmerVars>>

\* addToBookEvents, then the two fetches and the dialog "The event has been
\* successfully booked."
AddToBookEvents(k) ==
  /\ call[k].step = "add"
  /\ \/ Succeeds /\ call' = [call EXCEPT ![k].step = "booked"]
     \/ Fails /\ call' = [call EXCEPT ![k].step = "lost"]
  /\ fetching' = [fetching EXCEPT ![call[k].customer] = {"events", "booked"}]
  /\ UNCHANGED <<event, list, booked, page, farmerVars, fresh, short>>

-----------------------------------------------------------------------------
(***************************************************************************)
(* The farmer.                                                             *)
(***************************************************************************)

\* postEvents to the end of the add.  A failed add leaves nothing, and
\* postEvents returns: Get.back leaves the page on top.
PostEvents(e, n) ==
  /\ posting = NoEvent
  /\ event[e].state = "unused"
  /\ \/ /\ Succeeds
        /\ event' = [event EXCEPT ![e] = [state |-> "idless", left |-> n, max |-> n]]
        /\ posting' = e
        /\ UNCHANGED <<editing, refreshing>>
     \/ /\ Fails
        /\ editing' = FALSE
        /\ refreshing' = TRUE
        /\ UNCHANGED <<event, posting>>
  /\ UNCHANGED <<customerVars, flist, form, saves, fresh, short>>

\* addEventsToFarmer's second write, then postEvents leaves the page and
\* refreshes.
PostEventsSetsID ==
  /\ posting # NoEvent
  /\ \/ Succeeds /\ event' = [event EXCEPT ![posting].state =
                                IF @ = "idless" THEN "live" ELSE @]
     \/ Fails /\ UNCHANGED event
  /\ posting' = NoEvent
  /\ editing' = FALSE
  /\ refreshing' = TRUE
  /\ UNCHANGED <<customerVars, flist, form, saves, fresh, short>>

\* onInit and the pull to refresh.
StartGetEventList ==
  /\ ~refreshing
  /\ refreshing' = TRUE
  /\ UNCHANGED <<event, customerVars, flist, form, editing, posting, saves, faults, fresh, short>>

\* removeExpiredDoc deletes what compares less than today as a string, which
\* an event of any date may.
RemoveExpiredDoc(e) ==
  /\ refreshing
  /\ Exists(e)
  /\ event' = [event EXCEPT ![e].state = "deleted"]
  /\ UNCHANGED <<customerVars, farmerVars, faults, fresh, short>>

GetEventListReturns ==
  /\ refreshing
  /\ refreshing' = FALSE
  /\ \/ Succeeds /\ flist' = FarmerEvents(flist)
     \/ Fails /\ UNCHANGED flist
  /\ UNCHANGED <<event, customerVars, form, editing, posting, saves, fresh, short>>

\* The pen of a row: updateFields, and the edit page.
UpdateFields(copy) ==
  /\ ~editing
  /\ form' = copy
  /\ editing' = TRUE
  /\ UNCHANGED <<event, customerVars, flist, posting, saves, refreshing, faults, fresh, short>>

LeaveForm ==
  /\ editing
  /\ editing' = FALSE
  /\ UNCHANGED <<event, customerVars, flist, form, posting, saves, refreshing, faults, fresh, short>>

\* Mutants of UpdateRemainTickets: the balance is not cut off at zero; the
\* change of capacity is forgotten.
UpdateRemainTicketsUncut(n) == form.left + (n - form.max)
UpdateRemainTicketsUnmoved(n) == form.left

\* updateRemainTickets: the form's count moved by the change of capacity.
UpdateRemainTickets(n) ==
  LET balance == form.left + (n - form.max) IN IF balance >= 0 THEN balance ELSE 0

\* updateEvents to its await.
UpdateEvents(n) ==
  /\ editing
  /\ Len(saves) < MaxSaves
  /\ saves' = Append(saves, [kind |-> "update", copy |-> form,
                             left |-> UpdateRemainTickets(n), max |-> n])
  /\ UNCHANGED <<event, customerVars, flist, form, editing, posting, refreshing, faults, fresh, short>>

\* Was the tickets' count moved by exactly the change of capacity, from values
\* still current?
FaithfulUpdate(w) ==
  /\ w.copy = CopyOf(w.copy.event)
  /\ w.left = w.copy.left + (w.max - w.copy.max)

\* Mutant of UpdateEventsReturns: the document is set, not updated, so the
\* update of a deleted event writes it anew.
UpdateEventsSets ==
  /\ saves # <<>> /\ Head(saves).kind = "update"
  /\ saves' = Tail(saves)
  /\ editing' = FALSE
  /\ refreshing' = TRUE
  /\ LET w == Head(saves)
         e == w.copy.event
     IN
     \/ /\ Succeeds
        /\ event' = [event EXCEPT ![e] = [state |-> "live", left |-> w.left, max |-> w.max]]
        /\ fresh' = [fresh EXCEPT ![e] = @ /\ FaithfulUpdate(w)]
     \/ Fails /\ UNCHANGED <<event, fresh>>
  /\ UNCHANGED <<customerVars, flist, form, posting, short>>

\* updateEventsToFarmer and the rest of updateEvents, which leaves the page.
UpdateEventsReturns ==
  /\ saves # <<>> /\ Head(saves).kind = "update"
  /\ saves' = Tail(saves)
  /\ editing' = FALSE
  /\ refreshing' = TRUE
  /\ LET w == Head(saves)
         e == w.copy.event
     IN
     \/ /\ event[e].state = "live" /\ Succeeds
        /\ event' = [event EXCEPT ![e].left = w.left, ![e].max = w.max]
        /\ fresh' = [fresh EXCEPT ![e] = @ /\ FaithfulUpdate(w)]
     \/ /\ \/ event[e].state = "live" /\ Fails
           \/ event[e].state # "live" /\ Succeeds
        /\ UNCHANGED <<event, fresh>>
  /\ UNCHANGED <<customerVars, flist, form, posting, short>>

\* deleteEvent to its await.
DeleteEvent ==
  /\ editing
  /\ Len(saves) < MaxSaves
  /\ saves' = Append(saves, [kind |-> "delete", copy |-> form,
                             left |-> form.left, max |-> form.max])
  /\ UNCHANGED <<event, customerVars, flist, form, editing, posting, refreshing, faults, fresh, short>>

\* deleteFarmEvent and the rest of deleteEvent, which reads eventId again and
\* closes only the dialog.
DeleteEventReturns ==
  /\ saves # <<>> /\ Head(saves).kind = "delete"
  /\ saves' = Tail(saves)
  /\ \/ Succeeds /\ event' = [event EXCEPT ![Head(saves).copy.event].state = "deleted"]
     \/ Fails /\ UNCHANGED event
  /\ flist' = {copy \in flist : copy.event # form.event}
  /\ refreshing' = TRUE
  /\ UNCHANGED <<customerVars, form, editing, posting, fresh, short>>

-----------------------------------------------------------------------------
CustomerNext(c) ==
  \/ EnterFarm(c)
  \/ FetchEvents(c)
  \/ FetchBooked(c)
  \/ \E copy \in list[c] : OpenEvent(c, copy)
  \/ RebuildPage(c)
  \/ ClosePage(c)
  \/ \E k \in Bookings : BookEvents(c, k)

CallNext(k) == UpdateEventTicketCount(k) \/ AddToBookEvents(k)

FarmerNext ==
  \/ \E e \in Events, n \in Capacities : PostEvents(e, n)
  \/ PostEventsSetsID
  \/ StartGetEventList
  \/ \E e \in Events : RemoveExpiredDoc(e)
  \/ GetEventListReturns
  \/ \E copy \in flist : UpdateFields(copy)
  \/ LeaveForm
  \/ \E n \in Capacities : UpdateEvents(n)
  \/ UpdateEventsReturns
  \/ DeleteEvent
  \/ DeleteEventReturns

Next ==
  \/ \E c \in Customers : CustomerNext(c)
  \/ \E k \in Bookings : CallNext(k)
  \/ FarmerNext

Spec == Init /\ [][Next]_vars

-----------------------------------------------------------------------------
(***************************************************************************)
(* Properties.                                                             *)
(***************************************************************************)

\* Calls that have passed the write of the count, and those that ended in a
\* booking.
Spent(e) == {k \in Bookings : call[k].copy.event = e /\ call[k].step \in {"add", "booked", "lost"}}
Booked(e) == {k \in Bookings : call[k].copy.event = e /\ call[k].step = "booked"}

\* No ticket disappears: what is left and what was spent always cover the
\* capacity, through lost updates, edits in flight and failed calls, unless a
\* customer booked from a copy older than a raise of the capacity, whose
\* count write undoes the raise (product_contoller.dart:161-165).
NoTicketLost ==
  \A e \in Events : (Exists(e) /\ ~short[e]) =>
    event[e].left + Cardinality(Spent(e)) >= event[e].max

\* An event is oversold only through a count computed from a copy that was no
\* longer current, a failed count write, or a capacity lowered below what is
\* sold: while every write came from a current copy, bookings fit the capacity
\* (product_contoller.dart:148-165, event_controller.dart:263-274).
WithinCapacity ==
  \A e \in Events : (Exists(e) /\ fresh[e]) =>
    event[e].left + Cardinality(Spent(e)) <= event[e].max

(***************************************************************************)
(* The inductive invariant.  NoTicketLost is not inductive: a write puts   *)
(* an old copy's values back, so every copy, wherever it waits, has to     *)
(* cover the capacity it was taken under with what has been spent by now.  *)
(***************************************************************************)
Covers(copy) ==
  ~short[copy.event] => copy.left + Cardinality(Spent(copy.event)) >= copy.max

Written(w) == [event |-> w.copy.event, left |-> w.left, max |-> w.max]

\* Every place a copy can be in: the documents, the customers' lists and
\* pages, counts in flight, the farmer's list, form and updates in flight.
DocCopies == {CopyOf(e) : e \in Events}
CustomerCopies ==
  (UNION {list[c] : c \in Customers}) \cup {page[c].copy : c \in Customers}
CountCopies == {call[k].copy : k \in {j \in Bookings : call[j].step = "count"}}
FarmerCopies == flist \cup {form}
UpdateCopies ==
  {Written(saves[i]) : i \in {j \in 1 .. Len(saves) : saves[j].kind = "update"}}
Copies ==
  DocCopies \cup CustomerCopies \cup CountCopies \cup FarmerCopies \cup UpdateCopies

CopiesCover == \A copy \in Copies \ {NoCopy} : Covers(copy)

\* An enabled button and an open form have an event; a call has its customer
\* and, before its count is written, a ticket to take.
HandlersReady ==
  /\ \A c \in Customers : page[c].enabled => page[c].copy # NoCopy
  /\ editing => form # NoCopy
  /\ \A k \in Bookings : call[k].step # "idle" =>
       /\ call[k].customer \in Customers
       /\ call[k].copy # NoCopy
       /\ call[k].step = "count" => call[k].copy.left > 0

\* Nobody holds a copy of an event that was not posted under its id.
SaveCopies == {saves[i].copy : i \in 1 .. Len(saves)}
Held == CustomerCopies \cup {call[k].copy : k \in Bookings} \cup FarmerCopies
          \cup SaveCopies
Offered(e) == event[e].state \in {"live", "deleted"}
HeldWereOffered == \A copy \in Held \ {NoCopy} : Offered(copy.event)

IInv ==
  /\ TypeOK
  /\ HandlersReady
  /\ HeldWereOffered
  /\ CopiesCover
  /\ WithinCapacity

-----------------------------------------------------------------------------
(***************************************************************************)
(* The devices implement EventContract: each of their steps posts, offers, *)
(* removes, counts, books or loses at most one thing.  No write revives a  *)
(* removed event, none of the late answers settles a booking twice, and    *)
(* nobody books or deletes what was never offered, although every device   *)
(* acts on copies that the others have outdated                            *)
(* (event_controller.dart:220-289, product_contoller.dart:161-166).        *)
(***************************************************************************)
Contract == INSTANCE EventContract WITH
  posted <- {e \in Events : event[e].state # "unused"},
  offered <- {e \in Events : event[e].state = "live"},
  removed <- {e \in Events : event[e].state = "deleted"},
  counted <- [k \in Bookings |->
                IF call[k].step \in {"idle", "count"} THEN NoEvent ELSE call[k].copy.event],
  booked <- {k \in Bookings : call[k].step = "booked"},
  lost <- {k \in Bookings : call[k].step = "lost"}

KeepsContract == Contract!Spec

-----------------------------------------------------------------------------
(***************************************************************************)
(* What the program says of itself and does not keep.                      *)
(***************************************************************************)

\* The form asks the farmer for the "Maximum number of visitors"
\* (event_widgets.dart:32): no more bookings than that.
NoOversell ==
  \A e \in Events : Exists(e) => Cardinality(Booked(e)) <= event[e].max

=============================================================================
