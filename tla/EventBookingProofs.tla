------------------------- MODULE EventBookingProofs -------------------------
(***************************************************************************)
(* Proofs about EventBooking, for every set of events and customers, every *)
(* finite number of bookings and all capacities.                           *)
(***************************************************************************)
EXTENDS EventBooking, FiniteSetTheorems, TLAPS

(***************************************************************************)
(* Types.  TypeOK is not inductive: a count stays non-negative because the *)
(* button and the call in flight had a ticket to take.                     *)
(***************************************************************************)
Typed == TypeOK /\ HandlersReady

LEMMA NoCopyIsNone == NoCopy \notin Copy
  BY EventAssumption DEF NoCopy, Copy

LEMMA TypedInit == Init => Typed
<1> SUFFICES ASSUME Init PROVE Typed
  OBVIOUS
<1> USE EventAssumption DEF Init
<1>1. event \in [Events -> Doc]
  BY DEF Doc
<1>2. call \in [Bookings -> Call]
  BY DEF Call, NoCall
<1>3. page \in [Customers -> [copy : Copy \cup {NoCopy}, enabled : BOOLEAN]]
  BY DEF NoPage
<1>4. /\ list \in [Customers -> SUBSET Copy] /\ booked \in [Customers -> SUBSET Events]
      /\ fetching \in [Customers -> SUBSET {"events", "booked"}]
  OBVIOUS
<1>5. fresh \in [Events -> BOOLEAN] /\ short \in [Events -> BOOLEAN]
  OBVIOUS
<1>6. /\ saves \in Seq(Save) /\ faults \in 0 .. MaxFaults
      /\ posting \in Events \cup {NoEvent}
  OBVIOUS
<1>7. editing \in BOOLEAN /\ refreshing \in BOOLEAN
  BY Zenon
<1>8. flist \in SUBSET Copy /\ form \in Copy \cup {NoCopy}
  BY Zenon
<1>9. TypeOK
  <2> HIDE DEF Init
  <2> QED BY <1>1, <1>2, <1>3, <1>4, <1>5, <1>6, <1>7, <1>8 DEF TypeOK
<1>10. HandlersReady
  BY DEF HandlersReady, NoPage, NoCall
<1> QED BY <1>9, <1>10 DEF Typed

LEMMA FaultsTyped ==
  ASSUME TypeOK, Succeeds \/ Fails
  PROVE  faults' \in 0 .. MaxFaults
  BY EventAssumption DEF TypeOK, Succeeds, Fails

LEMMA CopyOfTyped ==
  ASSUME TypeOK, NEW e \in Events
  PROVE  CopyOf(e) \in Copy
  BY DEF TypeOK, Doc, CopyOf, Copy

LEMMA FarmerEventsTyped ==
  ASSUME TypeOK, NEW old \in SUBSET Copy
  PROVE  FarmerEvents(old) \in SUBSET Copy
  BY CopyOfTyped DEF FarmerEvents

LEMMA BookedEventsTyped ==
  ASSUME Typed, NEW c \in Customers
  PROVE  BookedEvents(c) \in SUBSET Events
<1>1. \A k \in BookedBy(c) : call[k].copy.event \in Events
  BY DEF BookedBy, Typed, TypeOK, HandlersReady, Call, Copy
<1> QED BY <1>1 DEF BookedEvents, Typed, TypeOK

\* A step of the customers that leaves the calls and the documents alone.
LEMMA TypedCustomer ==
  ASSUME Typed, NEW c \in Customers,
         \/ EnterFarm(c) \/ FetchEvents(c) \/ FetchBooked(c)
         \/ \E copy \in list[c] : OpenEvent(c, copy)
         \/ RebuildPage(c) \/ ClosePage(c)
  PROVE  Typed'
<1> USE DEF Typed
<1>0. UNCHANGED <<event, call, farmerVars, fresh, short>>
  BY DEF EnterFarm, FetchEvents, FetchBooked, OpenEvent, RebuildPage, ClosePage
<1>1. faults' \in 0 .. MaxFaults
  BY FaultsTyped DEF EnterFarm, FetchEvents, FetchBooked, OpenEvent, RebuildPage,
     ClosePage, Succeeds, TypeOK
<1> SUFFICES /\ list' \in [Customers -> SUBSET Copy]
             /\ booked' \in [Customers -> SUBSET Events]
             /\ page' \in [Customers -> [copy : Copy \cup {NoCopy}, enabled : BOOLEAN]]
             /\ fetching' \in [Customers -> SUBSET {"events", "booked"}]
             /\ \A d \in Customers : page'[d].enabled => page'[d].copy # NoCopy
  BY <1>0, <1>1 DEF TypeOK, HandlersReady, farmerVars
<1>2. CASE EnterFarm(c)
  BY <1>2 DEF EnterFarm, TypeOK, HandlersReady, NoPage
<1>3. CASE FetchEvents(c)
  <2>1. FarmerEvents(list[c]) \in SUBSET Copy
    BY FarmerEventsTyped DEF TypeOK
  <2> QED BY <1>3, <2>1 DEF FetchEvents, TypeOK, HandlersReady
<1>4. CASE FetchBooked(c)
  BY <1>4, BookedEventsTyped DEF FetchBooked, TypeOK, HandlersReady
<1>5. CASE \E copy \in list[c] : OpenEvent(c, copy)
  <2>1. PICK copy \in list[c] : OpenEvent(c, copy)
    BY <1>5
  <2>2. copy \in Copy /\ MayBook(c, copy) \in BOOLEAN
    BY DEF TypeOK, MayBook
  <2>3. [copy |-> copy, enabled |-> MayBook(c, copy)]
          \in [copy : Copy \cup {NoCopy}, enabled : BOOLEAN]
    BY <2>2
  <2> QED BY <2>1, <2>2, <2>3, NoCopyIsNone DEF OpenEvent, TypeOK, HandlersReady
<1>6. CASE RebuildPage(c)
  <2> DEFINE on == MayBook(c, page[c].copy)
  <2>1. on \in BOOLEAN /\ (on => page[c].copy # NoCopy)
    BY DEF MayBook, NoCopy
  <2>2. page' = [page EXCEPT ![c].enabled = on]
    BY <1>6 DEF RebuildPage
  <2>3. page' \in [Customers -> [copy : Copy \cup {NoCopy}, enabled : BOOLEAN]]
    BY <2>1, <2>2 DEF TypeOK
  <2>4. \A d \in Customers : page'[d].enabled => page'[d].copy # NoCopy
    BY <2>1, <2>2 DEF TypeOK, HandlersReady
  <2> QED BY <1>6, <2>3, <2>4 DEF RebuildPage, TypeOK
<1>7. CASE ClosePage(c)
  BY <1>7 DEF ClosePage, TypeOK, HandlersReady, NoPage
<1> QED BY <1>2, <1>3, <1>4, <1>5, <1>6, <1>7

LEMMA TypedBookEvents ==
  ASSUME Typed, NEW c \in Customers, NEW k \in Bookings, BookEvents(c, k)
  PROVE  Typed'
<1> USE DEF Typed
<1> DEFINE new == [step |-> "count", customer |-> c, copy |-> page[c].copy,
                   ahead |-> {j \in Bookings : call[j].step = "count"
                                               /\ call[j].customer = c}]
<1>1. page[c].copy \in Copy /\ page[c].copy # NoCopy /\ page[c].copy.left > 0
  BY DEF BookEvents, TypeOK, HandlersReady
<1>2. new \in Call
  BY <1>1 DEF Call
<1>3. call' = [call EXCEPT ![k] = new]
  BY DEF BookEvents
<1>4. call' \in [Bookings -> Call]
  BY <1>2, <1>3 DEF TypeOK
<1>5. TypeOK'
  BY <1>4 DEF BookEvents, TypeOK, farmerVars
<1>6. \A j \in Bookings : call'[j].step # "idle" =>
        /\ call'[j].customer \in Customers
        /\ call'[j].copy # NoCopy
        /\ call'[j].step = "count" => call'[j].copy.left > 0
  BY <1>1, <1>3 DEF TypeOK, HandlersReady
<1>7. HandlersReady'
  BY <1>6 DEF HandlersReady, BookEvents, farmerVars
<1> QED BY <1>5, <1>7

\* A call whose count write is next: what it takes from and for whom.
LEMMA CountReady ==
  ASSUME Typed, NEW k \in Bookings, call[k].step = "count"
  PROVE  /\ call[k].copy \in Copy /\ call[k].copy.event \in Events
         /\ call[k].copy.left \in Nat /\ call[k].copy.left > 0
         /\ call[k].copy.max \in Nat
  BY DEF Typed, TypeOK, HandlersReady, Call, Copy

LEMMA TypedCall ==
  ASSUME Typed, NEW k \in Bookings, CallNext(k)
  PROVE  Typed'
<1> USE DEF Typed
<1>1. CASE UpdateEventTicketCount(k)
  <2> DEFINE seen == call[k].copy
             e == seen.event
  <2>1. /\ seen \in Copy /\ e \in Events /\ seen.left \in Nat /\ seen.left > 0
        /\ call[k].step = "count"
    BY <1>1, CountReady DEF UpdateEventTicketCount
  <2>2. call' = [call EXCEPT ![k].step = "add", ![k].ahead = {}]
    BY <1>1 DEF UpdateEventTicketCount
  <2>3. [call[k] EXCEPT !.step = "add", !.ahead = {}] \in Call
    <3>1. call[k] \in Call
      BY DEF TypeOK
    <3> QED BY <3>1 DEF Call
  <2>4. call' \in [Bookings -> Call]
    BY <2>2, <2>3 DEF TypeOK
  <2>5. event' \in [Events -> Doc]
    <3>1. CASE event' = [event EXCEPT ![e].left = TicketsAfterBooking(seen)]
      <4>1. TicketsAfterBooking(seen) \in Nat
        BY <2>1 DEF TicketsAfterBooking
      <4> HIDE DEF seen, e
      <4>2. PICK n \in Nat : event' = [event EXCEPT ![e].left = n]
        BY <3>1, <4>1
      <4>3. event \in [Events -> Doc] /\ event[e] \in Doc
        BY <2>1 DEF TypeOK
      <4>4. [event[e] EXCEPT !.left = n] \in Doc
        BY <4>3 DEF Doc
      <4>5. event' = [event EXCEPT ![e] = [event[e] EXCEPT !.left = n]]
        BY <4>2
      <4> QED BY <4>3, <4>4, <4>5
    <3>2. CASE UNCHANGED event
      BY <3>2 DEF TypeOK
    <3> QED BY <1>1, <3>1, <3>2 DEF UpdateEventTicketCount
  <2>6. fresh' \in [Events -> BOOLEAN] /\ short' \in [Events -> BOOLEAN]
    <3>1. (fresh[e] /\ seen = CopyOf(e)) \in BOOLEAN
          /\ (short[e] \/ seen.max < event[e].max) \in BOOLEAN
      OBVIOUS
    <3>2. \/ /\ fresh' = [fresh EXCEPT ![e] = @ /\ seen = CopyOf(e)]
             /\ short' = [short EXCEPT ![e] = @ \/ seen.max < event[e].max]
          \/ fresh' = [fresh EXCEPT ![e] = FALSE] /\ UNCHANGED short
      BY <1>1 DEF UpdateEventTicketCount
    <3> QED BY <2>1, <3>1, <3>2, Zenon DEF TypeOK
  <2>7. faults' \in 0 .. MaxFaults
    BY <1>1, FaultsTyped DEF UpdateEventTicketCount
  <2>8. TypeOK'
    BY <1>1, <2>4, <2>5, <2>6, <2>7 DEF UpdateEventTicketCount, TypeOK, farmerVars
  <2>9. HandlersReady'
    <3>1. /\ UNCHANGED <<page, editing, form>>
      BY <1>1 DEF UpdateEventTicketCount, farmerVars
    <3>2. \A j \in Bookings : j # k => call'[j] = call[j]
      BY <2>2 DEF TypeOK
    <3>3. /\ call'[k].step = "add" /\ call'[k].customer = call[k].customer
          /\ call'[k].copy = call[k].copy
      <4>1. call'[k] = [call[k] EXCEPT !.step = "add", !.ahead = {}]
        BY <2>2 DEF TypeOK
      <4>2. call[k] \in Call
        BY DEF TypeOK
      <4> QED BY <4>1, <4>2 DEF Call
    <3>4. call[k].customer \in Customers /\ call[k].copy # NoCopy
      BY <2>1 DEF HandlersReady
    <3> HIDE DEF seen, e
    <3> QED BY <3>1, <3>2, <3>3, <3>4 DEF HandlersReady
  <2> QED BY <2>8, <2>9
<1>2. CASE AddToBookEvents(k)
  <2>1. PICK s \in {"booked", "lost"} : call' = [call EXCEPT ![k].step = s]
    BY <1>2 DEF AddToBookEvents
  <2>2. [call[k] EXCEPT !.step = s] \in Call
    <3>1. call[k] \in Call
      BY DEF TypeOK
    <3> QED BY <3>1 DEF Call
  <2>3. call' \in [Bookings -> Call]
    BY <2>1, <2>2 DEF TypeOK
  <2>4. fetching' \in [Customers -> SUBSET {"events", "booked"}]
    BY <1>2 DEF AddToBookEvents, TypeOK
  <2>5. faults' \in 0 .. MaxFaults
    BY <1>2, FaultsTyped DEF AddToBookEvents
  <2>6. TypeOK'
    BY <1>2, <2>3, <2>4, <2>5 DEF AddToBookEvents, TypeOK, farmerVars
  <2>7. call[k].step # "idle" /\ s # "idle" /\ s # "count"
    BY <1>2 DEF AddToBookEvents
  <2>8. HandlersReady'
    BY <1>2, <2>1, <2>7 DEF HandlersReady, AddToBookEvents, TypeOK, Call, farmerVars
  <2> QED BY <2>6, <2>8
<1> QED BY <1>1, <1>2 DEF CallNext

\* The farmer's handlers.
LEMMA TypedPost ==
  ASSUME Typed,
         \/ \E e \in Events, n \in Capacities : PostEvents(e, n)
         \/ PostEventsSetsID
         \/ \E e \in Events : RemoveExpiredDoc(e)
  PROVE  Typed'
<1> USE DEF Typed
<1>1. event' \in [Events -> Doc]
  <2>1. CASE \E e \in Events, n \in Capacities : PostEvents(e, n)
    <3>1. PICK e \in Events, n \in Capacities : PostEvents(e, n)
      BY <2>1
    <3>2. [state |-> "idless", left |-> n, max |-> n] \in Doc
      BY EventAssumption DEF Doc
    <3> QED BY <3>1, <3>2 DEF PostEvents, TypeOK
  <2>2. CASE PostEventsSetsID
    <3>1. posting \in Events
      BY <2>2 DEF PostEventsSetsID, TypeOK
    <3>2. [event[posting] EXCEPT !.state = IF @ = "idless" THEN "live" ELSE @] \in Doc
      <4>1. event[posting] \in Doc
        BY <3>1 DEF TypeOK
      <4> QED BY <4>1 DEF Doc
    <3> QED BY <2>2, <3>1, <3>2 DEF PostEventsSetsID, TypeOK
  <2>3. CASE \E e \in Events : RemoveExpiredDoc(e)
    <3>1. PICK e \in Events : RemoveExpiredDoc(e)
      BY <2>3
    <3>2. [event[e] EXCEPT !.state = "deleted"] \in Doc
      <4>1. event[e] \in Doc
        BY DEF TypeOK
      <4> QED BY <4>1 DEF Doc
    <3> QED BY <3>1, <3>2 DEF RemoveExpiredDoc, TypeOK
  <2> QED BY <2>1, <2>2, <2>3
<1>2. posting' \in Events \cup {NoEvent} /\ refreshing' \in BOOLEAN
  BY DEF PostEvents, PostEventsSetsID, RemoveExpiredDoc, TypeOK, farmerVars
<1>3. faults' \in 0 .. MaxFaults
  BY FaultsTyped DEF PostEvents, PostEventsSetsID, RemoveExpiredDoc, TypeOK
<1>4. UNCHANGED <<customerVars, flist, form, saves, fresh, short>>
  BY DEF PostEvents, PostEventsSetsID, RemoveExpiredDoc, farmerVars
<1>4a. editing' \in BOOLEAN /\ (editing' => editing)
  <2>1. CASE \E e \in Events, n \in Capacities : PostEvents(e, n)
    <3>1. editing' = editing \/ editing' = FALSE
      BY <2>1 DEF PostEvents
    <3>2. CASE editing' = editing
      BY <3>2 DEF TypeOK
    <3>3. CASE editing' = FALSE
      BY <3>3, Zenon
    <3> QED BY <3>1, <3>2, <3>3
  <2>2. CASE PostEventsSetsID
    BY <2>2, Zenon DEF PostEventsSetsID
  <2>3. CASE \E e \in Events : RemoveExpiredDoc(e)
    <3>1. editing' = editing
      BY <2>3 DEF RemoveExpiredDoc, farmerVars
    <3> QED BY <3>1, Zenon DEF TypeOK
  <2> QED BY <2>1, <2>2, <2>3
<1>5. TypeOK'
  BY <1>1, <1>2, <1>3, <1>4, <1>4a DEF TypeOK, customerVars
<1>6. HandlersReady'
  BY <1>4, <1>4a DEF HandlersReady, customerVars
<1> QED BY <1>5, <1>6

LEMMA TypedForm ==
  ASSUME Typed,
         \/ StartGetEventList \/ GetEventListReturns
         \/ \E copy \in flist : UpdateFields(copy)
         \/ LeaveForm
         \/ \E n \in Capacities : UpdateEvents(n)
         \/ DeleteEvent
  PROVE  Typed'
<1> USE DEF Typed
<1>0. UNCHANGED <<event, customerVars, posting, fresh, short>>
  BY DEF StartGetEventList, GetEventListReturns, UpdateFields, LeaveForm, UpdateEvents,
     DeleteEvent
<1>1. faults' \in 0 .. MaxFaults
  BY FaultsTyped DEF StartGetEventList, GetEventListReturns, UpdateFields, LeaveForm,
     UpdateEvents, DeleteEvent, TypeOK
<1>2. saves' \in Seq(Save)
  <2>1. CASE \E n \in Capacities : UpdateEvents(n)
    <3>1. PICK n \in Capacities : UpdateEvents(n)
      BY <2>1
    <3>2. form \in Copy
      BY <3>1 DEF UpdateEvents, TypeOK, HandlersReady
    <3>3. UpdateRemainTickets(n) \in Nat
      BY <3>2, EventAssumption DEF UpdateRemainTickets, Copy
    <3>4. [kind |-> "update", copy |-> form, left |-> UpdateRemainTickets(n), max |-> n]
            \in Save
      BY <3>2, <3>3, EventAssumption DEF Save
    <3> QED BY <3>1, <3>4 DEF UpdateEvents, TypeOK
  <2>2. CASE DeleteEvent
    <3>1. form \in Copy
      BY <2>2 DEF DeleteEvent, TypeOK, HandlersReady
    <3>2. [kind |-> "delete", copy |-> form, left |-> form.left, max |-> form.max] \in Save
      BY <3>1 DEF Save, Copy
    <3> QED BY <2>2, <3>2 DEF DeleteEvent, TypeOK
  <2>3. CASE UNCHANGED saves
    BY <2>3 DEF TypeOK
  <2> QED BY <2>1, <2>2, <2>3 DEF StartGetEventList, GetEventListReturns, UpdateFields,
          LeaveForm
<1>3. flist' \in SUBSET Copy
  <2>1. FarmerEvents(flist) \in SUBSET Copy
    BY FarmerEventsTyped DEF TypeOK
  <2> QED BY <2>1 DEF StartGetEventList, GetEventListReturns, UpdateFields, LeaveForm,
          UpdateEvents, DeleteEvent, TypeOK
<1>4. editing' \in BOOLEAN /\ refreshing' \in BOOLEAN
  BY Zenon DEF StartGetEventList, GetEventListReturns, UpdateFields, LeaveForm,
     UpdateEvents, DeleteEvent, TypeOK
<1>5. form' \in Copy \cup {NoCopy} /\ (editing' => form' # NoCopy)
  <2>1. CASE \E copy \in flist : UpdateFields(copy)
    <3>1. PICK copy \in flist : UpdateFields(copy)
      BY <2>1
    <3>2. copy \in Copy
      BY DEF TypeOK
    <3> QED BY <3>1, <3>2, NoCopyIsNone DEF UpdateFields
  <2>2. CASE UNCHANGED form /\ (editing' => editing)
    BY <2>2 DEF TypeOK, HandlersReady
  <2>3. \/ \E copy \in flist : UpdateFields(copy)
        \/ UNCHANGED form /\ (editing' => editing)
    BY Zenon DEF StartGetEventList, GetEventListReturns, LeaveForm, UpdateEvents, DeleteEvent
  <2> QED BY <2>1, <2>2, <2>3
<1>6. TypeOK'
  BY <1>0, <1>1, <1>2, <1>3, <1>4, <1>5 DEF TypeOK, customerVars
<1>7. HandlersReady'
  BY <1>0, <1>5 DEF HandlersReady, customerVars
<1> QED BY <1>6, <1>7

LEMMA HeadTyped ==
  ASSUME TypeOK, saves # <<>>
  PROVE  /\ Head(saves) \in Save /\ Tail(saves) \in Seq(Save)
         /\ Head(saves).copy.event \in Events /\ Head(saves).left \in Nat
         /\ Head(saves).max \in Nat
<1>1. saves \in Seq(Save) /\ Len(saves) > 0
  BY DEF TypeOK
<1>2. Head(saves) \in Save /\ Tail(saves) \in Seq(Save)
  BY <1>1
<1> QED BY <1>2 DEF Save, Copy

LEMMA TypedReturn ==
  ASSUME Typed, UpdateEventsReturns \/ DeleteEventReturns
  PROVE  Typed'
<1> USE DEF Typed
<1> DEFINE w == Head(saves)
           e == w.copy.event
<1>1. /\ w \in Save /\ saves' \in Seq(Save)
      /\ e \in Events /\ w.left \in Nat /\ w.max \in Nat
  BY HeadTyped DEF UpdateEventsReturns, DeleteEventReturns
<1>2. event' \in [Events -> Doc]
  <2>1. \/ event' = [event EXCEPT ![e].left = w.left, ![e].max = w.max]
        \/ event' = [event EXCEPT ![e].state = "deleted"]
        \/ UNCHANGED event
    BY DEF UpdateEventsReturns, DeleteEventReturns
  <2>2. event[e] \in Doc
    BY <1>1 DEF TypeOK
  <2>3. /\ [event[e] EXCEPT !.left = w.left, !.max = w.max] \in Doc
        /\ [event[e] EXCEPT !.state = "deleted"] \in Doc
    BY <1>1, <2>2 DEF Doc
  <2> HIDE DEF e, w
  <2> QED BY <1>1, <2>1, <2>3 DEF TypeOK
<1>3. fresh' \in [Events -> BOOLEAN]
  <2>1. (fresh[e] /\ FaithfulUpdate(w)) \in BOOLEAN
    OBVIOUS
  <2>2. fresh' = [fresh EXCEPT ![e] = @ /\ FaithfulUpdate(w)] \/ UNCHANGED fresh
    BY DEF UpdateEventsReturns, DeleteEventReturns
  <2> QED BY <1>1, <2>1, <2>2, Zenon DEF TypeOK
<1>4. faults' \in 0 .. MaxFaults
  BY FaultsTyped DEF UpdateEventsReturns, DeleteEventReturns
<1>5. flist' \in SUBSET Copy
  BY DEF UpdateEventsReturns, DeleteEventReturns, TypeOK
<1>6. editing' \in BOOLEAN /\ refreshing' \in BOOLEAN
  BY Zenon DEF UpdateEventsReturns, DeleteEventReturns, TypeOK
<1>7. UNCHANGED form /\ (editing' => form # NoCopy)
  <2>1. UNCHANGED form /\ (editing' = FALSE \/ editing' = editing)
    BY DEF UpdateEventsReturns, DeleteEventReturns
  <2>2. editing => form # NoCopy
    BY DEF HandlersReady
  <2> QED BY <2>1, <2>2
<1>8. UNCHANGED <<customerVars, posting, short>>
  BY DEF UpdateEventsReturns, DeleteEventReturns
<1>9. TypeOK'
  BY <1>1, <1>2, <1>3, <1>4, <1>5, <1>6, <1>7, <1>8 DEF TypeOK, customerVars
<1>10. HandlersReady'
  BY <1>7, <1>8 DEF HandlersReady, customerVars
<1> QED BY <1>9, <1>10

LEMMA TypedStep == Typed /\ [Next]_vars => Typed'
<1> SUFFICES ASSUME Typed, [Next]_vars PROVE Typed'
  OBVIOUS
<1>1. ASSUME NEW c \in Customers, CustomerNext(c) PROVE Typed'
  BY <1>1, TypedCustomer, TypedBookEvents DEF CustomerNext
<1>2. ASSUME NEW k \in Bookings, CallNext(k) PROVE Typed'
  BY <1>2, TypedCall
<1>3. CASE FarmerNext
  BY <1>3, TypedPost, TypedForm, TypedReturn DEF FarmerNext
<1>4. CASE UNCHANGED vars
  BY <1>4 DEF Typed, TypeOK, HandlersReady, vars, customerVars, farmerVars
<1> QED BY <1>1, <1>2, <1>3, <1>4 DEF Next

\* In every behaviour the variables keep their types: no count is ever
\* negative, however old the copy it was computed from.
THEOREM TypeCorrect == Spec => []TypeOK
<1>1. Typed => TypeOK
  BY DEF Typed
<1> QED BY TypedInit, TypedStep, <1>1, PTL DEF Spec

-----------------------------------------------------------------------------
(***************************************************************************)
(* Spending.  Only the write of a count spends, and it spends one ticket   *)
(* of the event of its copy.                                               *)
(***************************************************************************)
LEMMA SpentCount ==
  ASSUME NEW e
  PROVE  IsFiniteSet(Spent(e)) /\ Cardinality(Spent(e)) \in Nat
<1>1. Spent(e) \subseteq Bookings
  BY DEF Spent
<1> QED BY <1>1, EventAssumption, FS_Subset, FS_CardinalityType

LEMMA SpentByWrite ==
  ASSUME Typed, NEW k \in Bookings, UpdateEventTicketCount(k), NEW e
  PROVE  Cardinality(Spent(e))' = Cardinality(Spent(e))
                                    + (IF e = call[k].copy.event THEN 1 ELSE 0)
<1>1. call' = [call EXCEPT ![k].step = "add", ![k].ahead = {}] /\ call[k].step = "count"
  BY DEF UpdateEventTicketCount
<1>2. /\ call'[k].step = "add" /\ call'[k].copy = call[k].copy
      /\ \A j \in Bookings \ {k} : call'[j] = call[j]
  BY <1>1 DEF Typed, TypeOK, Call
<1>3. CASE e = call[k].copy.event
  <2>1. Spent(e)' = Spent(e) \cup {k}
    BY <1>2, <1>3 DEF Spent
  <2>2. k \notin Spent(e)
    BY <1>1 DEF Spent
  <2>3. Cardinality(Spent(e) \cup {k}) = Cardinality(Spent(e)) + 1
    BY <2>2, SpentCount, FS_AddElement
  <2> QED BY <1>3, <2>1, <2>3
<1>4. CASE e # call[k].copy.event
  <2>1. Spent(e)' = Spent(e)
    BY <1>2, <1>1, <1>4 DEF Spent
  <2> QED BY <1>4, <2>1, SpentCount
<1> QED BY <1>3, <1>4

LEMMA SpentOtherwise ==
  ASSUME Typed, [Next]_vars, \A k \in Bookings : ~UpdateEventTicketCount(k), NEW e
  PROVE  Spent(e)' = Spent(e)
<1>1. CASE \E c \in Customers, k \in Bookings : BookEvents(c, k)
  <2>1. PICK c \in Customers, k \in Bookings : BookEvents(c, k)
    BY <1>1
  <2>2. /\ call'[k].step = "count" /\ call[k].step = "idle"
        /\ \A j \in Bookings \ {k} : call'[j] = call[j]
    BY <2>1 DEF BookEvents, Typed, TypeOK
  <2> QED BY <2>2 DEF Spent
<1>2. CASE \E k \in Bookings : AddToBookEvents(k)
  <2>1. PICK k \in Bookings, s \in {"booked", "lost"} :
          call[k].step = "add" /\ call' = [call EXCEPT ![k].step = s]
    BY <1>2 DEF AddToBookEvents
  <2>2. /\ call'[k].step = s /\ call'[k].copy = call[k].copy
        /\ \A j \in Bookings \ {k} : call'[j] = call[j]
    BY <2>1 DEF Typed, TypeOK, Call
  <2> QED BY <2>1, <2>2 DEF Spent
<1>3. CASE UNCHANGED call
  BY <1>3 DEF Spent
<1>4. \/ \E c \in Customers, k \in Bookings : BookEvents(c, k)
      \/ \E k \in Bookings : AddToBookEvents(k)
      \/ UNCHANGED call
  <2>1. ASSUME NEW c \in Customers, CustomerNext(c),
               \A k \in Bookings : ~BookEvents(c, k)
        PROVE  UNCHANGED call
    BY <2>1 DEF CustomerNext, EnterFarm, FetchEvents, FetchBooked, OpenEvent, RebuildPage,
       ClosePage
  <2>2. CASE FarmerNext
    BY <2>2 DEF FarmerNext, PostEvents, PostEventsSetsID, StartGetEventList, RemoveExpiredDoc,
       GetEventListReturns, UpdateFields, LeaveForm, UpdateEvents, UpdateEventsReturns,
       DeleteEvent, DeleteEventReturns, customerVars
  <2> QED BY <2>1, <2>2 DEF Next, CallNext, vars, customerVars
<1> QED BY <1>1, <1>2, <1>3, <1>4

(***************************************************************************)
(* What a copy covers it goes on covering: spending only grows and an      *)
(* event once short stays short.                                           *)
(***************************************************************************)
LEMMA CoversGrows ==
  ASSUME Typed, [Next]_vars, NEW copy \in Copy, Covers(copy)
  PROVE  Covers(copy)'
<1> DEFINE e == copy.event
<1>1. /\ Cardinality(Spent(e)) \in Nat /\ Cardinality(Spent(e))' \in Nat
      /\ Cardinality(Spent(e))' >= Cardinality(Spent(e))
  <2>1. CASE \E k \in Bookings : UpdateEventTicketCount(k)
    <3>1. PICK k \in Bookings : UpdateEventTicketCount(k)
      BY <2>1
    <3>2. Cardinality(Spent(e))' = Cardinality(Spent(e))
                                     + (IF e = call[k].copy.event THEN 1 ELSE 0)
      BY <3>1, SpentByWrite
    <3> QED BY <3>2, SpentCount
  <2>2. CASE \A k \in Bookings : ~UpdateEventTicketCount(k)
    <3>1. Spent(e)' = Spent(e)
      BY <2>2, SpentOtherwise
    <3> QED BY <3>1, SpentCount
  <2> QED BY <2>1, <2>2
<1>2. short[e] => short'[e]
  <2>1. ASSUME NEW k \in Bookings, UpdateEventTicketCount(k) PROVE short[e] => short'[e]
    <3> DEFINE b == call[k].copy.event
               late == call[k].copy.max < event[b].max
    <3>1. short' = [short EXCEPT ![b] = @ \/ late] \/ UNCHANGED short
      BY <2>1 DEF UpdateEventTicketCount
    <3>2. short \in [Events -> BOOLEAN] /\ e \in Events
      BY DEF Typed, TypeOK, Copy
    <3> HIDE DEF e, b, late
    <3>3. CASE short' = [short EXCEPT ![b] = @ \/ late]
      <4>1. short'[e] = IF e = b THEN short[b] \/ late ELSE short[e]
        BY <3>2, <3>3, Zenon
      <4> QED BY <4>1, Zenon
    <3>4. CASE UNCHANGED short
      BY <3>4
    <3> QED BY <3>1, <3>3, <3>4
  <2>2. CASE UNCHANGED short
    BY <2>2
  <2>3. (\E k \in Bookings : UpdateEventTicketCount(k)) \/ UNCHANGED short
    BY DEF Next, CustomerNext, CallNext, EnterFarm, FetchEvents, FetchBooked, OpenEvent,
       RebuildPage, ClosePage, BookEvents, AddToBookEvents, FarmerNext, PostEvents,
       PostEventsSetsID, StartGetEventList, RemoveExpiredDoc, GetEventListReturns,
       UpdateFields, LeaveForm, UpdateEvents, UpdateEventsReturns, DeleteEvent,
       DeleteEventReturns, vars
  <2> QED BY <2>1, <2>2, <2>3
<1>3. copy.left \in Nat /\ copy.max \in Nat
  BY DEF Copy
<1> QED BY <1>1, <1>2, <1>3 DEF Covers

-----------------------------------------------------------------------------
(***************************************************************************)
(* Where a copy can be.                                                    *)
(***************************************************************************)
LEMMA CopiesNow ==
  ASSUME NEW copy,
         \/ \E e \in Events : copy = [event |-> e, left |-> event[e].left, max |-> event[e].max]
         \/ \E c \in Customers : copy \in list[c] \/ copy = page[c].copy
         \/ \E k \in Bookings : call[k].step = "count" /\ copy = call[k].copy
         \/ copy \in flist
         \/ copy = form
         \/ \E i \in 1 .. Len(saves) : saves[i].kind = "update" /\ copy = Written(saves[i])
  PROVE  copy \in Copies
<1>1. CASE \E e \in Events : copy = [event |-> e, left |-> event[e].left, max |-> event[e].max]
  <2>1. copy \in DocCopies
    BY <1>1 DEF DocCopies, CopyOf
  <2> QED BY <2>1 DEF Copies
<1>2. CASE \E c \in Customers : copy \in list[c] \/ copy = page[c].copy
  <2>1. copy \in CustomerCopies
    BY <1>2 DEF CustomerCopies
  <2> QED BY <2>1 DEF Copies
<1>3. CASE \E k \in Bookings : call[k].step = "count" /\ copy = call[k].copy
  <2>1. copy \in CountCopies
    BY <1>3 DEF CountCopies
  <2> QED BY <2>1 DEF Copies
<1>4. CASE copy \in flist \/ copy = form
  <2>1. copy \in FarmerCopies
    BY <1>4 DEF FarmerCopies
  <2> QED BY <2>1 DEF Copies
<1>5. CASE \E i \in 1 .. Len(saves) : saves[i].kind = "update" /\ copy = Written(saves[i])
  <2>1. copy \in UpdateCopies
    BY <1>5 DEF UpdateCopies
  <2> QED BY <2>1 DEF Copies
<1> QED BY <1>1, <1>2, <1>3, <1>4, <1>5

LEMMA CopiesNext ==
  ASSUME NEW copy, copy \in Copies'
  PROVE
    \/ \E e \in Events : copy = [event |-> e, left |-> event'[e].left, max |-> event'[e].max]
    \/ \E c \in Customers : copy \in list'[c] \/ copy = page'[c].copy
    \/ \E k \in Bookings : call'[k].step = "count" /\ copy = call'[k].copy
    \/ copy \in flist'
    \/ copy = form'
    \/ \E i \in 1 .. Len(saves') : saves'[i].kind = "update" /\ copy = Written(saves'[i])
<1>1. CASE copy \in DocCopies'
  BY <1>1 DEF DocCopies, CopyOf
<1>2. CASE copy \in CustomerCopies'
  BY <1>2 DEF CustomerCopies
<1>3. CASE copy \in CountCopies'
  BY <1>3 DEF CountCopies
<1>4. CASE copy \in FarmerCopies'
  BY <1>4 DEF FarmerCopies
<1>5. CASE copy \in UpdateCopies'
  BY <1>5 DEF UpdateCopies
<1> QED BY <1>1, <1>2, <1>3, <1>4, <1>5 DEF Copies

LEMMA CopiesTyped ==
  ASSUME Typed
  PROVE  Copies \subseteq Copy \cup {NoCopy}
<1> USE DEF Typed
<1>1. DocCopies \subseteq Copy
  BY CopyOfTyped DEF DocCopies
<1>2. CustomerCopies \subseteq Copy \cup {NoCopy}
  BY DEF TypeOK, CustomerCopies
<1>3. CountCopies \subseteq Copy \cup {NoCopy}
  BY DEF TypeOK, Call, CountCopies
<1>4. FarmerCopies \subseteq Copy \cup {NoCopy}
  BY DEF TypeOK, FarmerCopies
<1>5. UpdateCopies \subseteq Copy
  <2>1. ASSUME NEW i \in 1 .. Len(saves) PROVE Written(saves[i]) \in Copy
    <3>1. saves[i] \in Save
      BY DEF TypeOK
    <3> QED BY <3>1 DEF Save, Copy, Written
  <2> QED BY <2>1 DEF UpdateCopies
<1> QED BY <1>1, <1>2, <1>3, <1>4, <1>5 DEF Copies

LEMMA FarmerEventsCopies ==
  ASSUME NEW old, NEW copy \in FarmerEvents(old)
  PROVE  copy \in old \/ copy \in Copies
<1>1. CASE copy \in old
  BY <1>1
<1>2. CASE \E e \in Events : copy = CopyOf(e)
  BY <1>2, CopiesNow DEF CopyOf
<1> QED BY <1>1, <1>2 DEF FarmerEvents

(***************************************************************************)
(* Only three steps make a copy that was nowhere before: a new event, the  *)
(* write of a count and an edit.                                           *)
(***************************************************************************)
LEMMA CustomerStepCopies ==
  ASSUME Typed, NEW c \in Customers, CustomerNext(c), NEW copy \in Copies'
  PROVE  copy \in Copies \/ copy = NoCopy
<1> USE DEF Typed
<1>1. UNCHANGED <<event, flist, form, saves>>
  BY DEF CustomerNext, EnterFarm, FetchEvents, FetchBooked, OpenEvent, RebuildPage,
     ClosePage, BookEvents, farmerVars
<1>2. \A d \in Customers : copy \in list'[d] => copy \in Copies
  <2>1. ASSUME NEW d \in Customers, copy \in list'[d] PROVE copy \in Copies
    <3>1. CASE copy \in list[d]
      BY <3>1, CopiesNow
    <3>2. CASE copy \in FarmerEvents(list[d])
      BY <3>1, <3>2, FarmerEventsCopies
    <3>3. copy \in list[d] \/ copy \in FarmerEvents(list[d])
      BY <2>1 DEF CustomerNext, EnterFarm, FetchEvents, FetchBooked, OpenEvent,
         RebuildPage, ClosePage, BookEvents, TypeOK
    <3> QED BY <3>1, <3>2, <3>3
  <2> QED BY <2>1
<1>3. \A d \in Customers : copy = page'[d].copy => copy \in Copies \/ copy = NoCopy
  <2>1. ASSUME NEW d \in Customers, copy = page'[d].copy
        PROVE  copy \in Copies \/ copy = NoCopy
    <3>1. \/ page'[d].copy = page[d].copy
          \/ page'[d].copy \in list[d]
          \/ page'[d].copy = NoCopy
      BY DEF CustomerNext, EnterFarm, FetchEvents, FetchBooked, OpenEvent, RebuildPage,
         ClosePage, BookEvents, TypeOK, NoPage
    <3> QED BY <2>1, <3>1, CopiesNow
  <2> QED BY <2>1
<1>4. \A k \in Bookings : call'[k].step = "count" /\ copy = call'[k].copy => copy \in Copies
  <2>1. ASSUME NEW k \in Bookings, call'[k].step = "count", copy = call'[k].copy
        PROVE  copy \in Copies
    <3>1. call'[k] = call[k] \/ call'[k].copy = page[c].copy
      BY DEF CustomerNext, EnterFarm, FetchEvents, FetchBooked, OpenEvent, RebuildPage,
         ClosePage, BookEvents, TypeOK
    <3> QED BY <2>1, <3>1, CopiesNow
  <2> QED BY <2>1
<1> QED BY <1>1, <1>2, <1>3, <1>4, CopiesNext, CopiesNow

LEMMA CallStepCopies ==
  ASSUME Typed, NEW k \in Bookings, CallNext(k), NEW copy \in Copies'
  PROVE  \/ copy \in Copies
         \/ /\ UpdateEventTicketCount(k)
            /\ event' # event
            /\ copy = [event |-> call[k].copy.event,
                       left |-> TicketsAfterBooking(call[k].copy),
                       max |-> event[call[k].copy.event].max]
<1> USE DEF Typed
<1>1. UNCHANGED <<list, page, flist, form, saves>>
  BY DEF CallNext, UpdateEventTicketCount, AddToBookEvents, farmerVars
<1>2. \A j \in Bookings : call'[j].step = "count" => call'[j] = call[j]
  <2>1. CASE UpdateEventTicketCount(k)
    BY <2>1 DEF UpdateEventTicketCount, TypeOK, Call
  <2>2. CASE AddToBookEvents(k)
    BY <2>2 DEF AddToBookEvents, TypeOK, Call
  <2> QED BY <2>1, <2>2 DEF CallNext
<1>3. CASE UNCHANGED event
  BY <1>1, <1>2, <1>3, CopiesNext, CopiesNow
<1>4. CASE ~UNCHANGED event
  <2> DEFINE b == call[k].copy.event
  <2>1. /\ UpdateEventTicketCount(k) /\ event[b].state = "live"
        /\ event' = [event EXCEPT ![b].left = TicketsAfterBooking(call[k].copy)]
    BY <1>4 DEF CallNext, UpdateEventTicketCount, AddToBookEvents
  <2>2. b \in Events
    BY <2>1, CountReady DEF UpdateEventTicketCount
  <2>3. /\ event'[b].left = TicketsAfterBooking(call[k].copy) /\ event'[b].max = event[b].max
        /\ \A e \in Events \ {b} : event'[e] = event[e]
    BY <2>1, <2>2 DEF TypeOK, Doc
  <2> HIDE DEF b
  <2>4. \A e \in Events : copy = [event |-> e, left |-> event'[e].left, max |-> event'[e].max] =>
          \/ copy \in Copies
          \/ copy = [event |-> b, left |-> TicketsAfterBooking(call[k].copy),
                     max |-> event[b].max]
    BY <2>3, CopiesNow
  <2>5. \/ copy \in Copies
        \/ copy = [event |-> b, left |-> TicketsAfterBooking(call[k].copy),
                   max |-> event[b].max]
    BY <1>1, <1>2, <2>4, CopiesNext, CopiesNow
  <2> QED BY <1>4, <2>1, <2>5 DEF b
<1> QED BY <1>3, <1>4

\* The copy an edit queues: the count the form showed, moved with the capacity.
EditCopy(n) == [event |-> form.event, left |-> UpdateRemainTickets(n), max |-> n]

LEMMA FarmerStepCopies ==
  ASSUME Typed, FarmerNext, NEW copy \in Copies'
  PROVE  \/ copy \in Copies
         \/ \E e \in Events, n \in Capacities :
              PostEvents(e, n) /\ copy = [event |-> e, left |-> n, max |-> n]
         \/ \E n \in Capacities : UpdateEvents(n) /\ copy = EditCopy(n)
<1> USE DEF Typed
<1>0. UNCHANGED customerVars
  BY DEF FarmerNext, PostEvents, PostEventsSetsID, StartGetEventList, RemoveExpiredDoc,
     GetEventListReturns, UpdateFields, LeaveForm, UpdateEvents, UpdateEventsReturns,
     DeleteEvent, DeleteEventReturns
<1>1. CASE \E e \in Events, n \in Capacities : PostEvents(e, n)
  <2>1. PICK e \in Events, n \in Capacities : PostEvents(e, n)
    BY <1>1
  <2>2. UNCHANGED <<flist, form, saves>>
    BY <2>1 DEF PostEvents
  <2>3. UNCHANGED event
        \/ event' = [event EXCEPT ![e] = [state |-> "idless", left |-> n, max |-> n]]
    BY <2>1 DEF PostEvents
  <2>4. \A x \in Events : copy = [event |-> x, left |-> event'[x].left, max |-> event'[x].max] =>
          copy \in Copies \/ copy = [event |-> e, left |-> n, max |-> n]
    <3>1. \A x \in Events : \/ event'[x] = event[x]
                            \/ (x = e /\ event'[x].left = n /\ event'[x].max = n)
      BY <2>3 DEF TypeOK
    <3> QED BY <3>1, CopiesNow
  <2> QED BY <1>0, <2>1, <2>2, <2>4, CopiesNext, CopiesNow DEF customerVars
<1>2. CASE PostEventsSetsID \/ \E e \in Events : RemoveExpiredDoc(e)
  <2>1. UNCHANGED <<flist, form, saves>>
    BY <1>2 DEF PostEventsSetsID, RemoveExpiredDoc, farmerVars
  <2>2. \A x \in Events : event'[x].left = event[x].left /\ event'[x].max = event[x].max
    <3>1. CASE PostEventsSetsID
      <4> DEFINE s == IF event[posting].state = "idless" THEN "live"
                      ELSE event[posting].state
      <4>1. UNCHANGED event \/ event' = [event EXCEPT ![posting].state = s]
        BY <3>1 DEF PostEventsSetsID
      <4> HIDE DEF s
      <4>2. CASE event' = [event EXCEPT ![posting].state = s]
        <5>1. \A x \in Events :
                /\ event[x] \in Doc
                /\ event'[x] = event[x] \/ event'[x] = [event[x] EXCEPT !.state = s]
          BY <4>2 DEF TypeOK
        <5> QED BY <5>1 DEF Doc
      <4> QED BY <4>1, <4>2
    <3>2. CASE \E e \in Events : RemoveExpiredDoc(e)
      BY <3>2 DEF RemoveExpiredDoc, TypeOK, Doc
    <3> QED BY <1>2, <3>1, <3>2
  <2> QED BY <1>0, <2>1, <2>2, CopiesNext, CopiesNow DEF customerVars
<1>3. CASE \/ StartGetEventList \/ GetEventListReturns \/ LeaveForm
           \/ \E row \in flist : UpdateFields(row)
  <2>1. UNCHANGED <<event, saves>>
    BY <1>3 DEF StartGetEventList, GetEventListReturns, LeaveForm, UpdateFields
  <2>2. copy \in flist' => copy \in Copies
    <3>1. flist' = flist \/ flist' = FarmerEvents(flist)
      BY <1>3 DEF StartGetEventList, GetEventListReturns, LeaveForm, UpdateFields
    <3> QED BY <3>1, FarmerEventsCopies, CopiesNow
  <2>3. form' = form \/ form' \in flist
    BY <1>3 DEF StartGetEventList, GetEventListReturns, LeaveForm, UpdateFields
  <2> QED BY <1>0, <2>1, <2>2, <2>3, CopiesNext, CopiesNow DEF customerVars
<1>4. CASE \E n \in Capacities : UpdateEvents(n)
  <2>1. PICK n \in Capacities : UpdateEvents(n)
    BY <1>4
  <2> DEFINE w == [kind |-> "update", copy |-> form, left |-> UpdateRemainTickets(n),
                   max |-> n]
  <2>2. saves' = Append(saves, w) /\ UNCHANGED <<event, flist, form>>
    BY <2>1 DEF UpdateEvents
  <2>3. ASSUME NEW i \in 1 .. Len(saves'), saves'[i].kind = "update",
               copy = Written(saves'[i])
        PROVE  copy \in Copies \/ copy = EditCopy(n)
    <3>1. saves \in Seq(Save)
      BY DEF TypeOK
    <3>2. (i \in 1 .. Len(saves) /\ saves'[i] = saves[i]) \/ saves'[i] = w
      BY <2>2, <3>1
    <3>3. Written(w) = EditCopy(n)
      BY DEF Written, EditCopy
    <3> HIDE DEF w
    <3> QED BY <2>3, <3>2, <3>3, CopiesNow
  <2> HIDE DEF w
  <2> QED BY <1>0, <2>1, <2>2, <2>3, CopiesNext, CopiesNow DEF customerVars
<1>5. CASE DeleteEvent
  <2> DEFINE w == [kind |-> "delete", copy |-> form, left |-> form.left, max |-> form.max]
  <2>1. saves' = Append(saves, w) /\ UNCHANGED <<event, flist, form>>
    BY <1>5 DEF DeleteEvent
  <2>2. \A i \in 1 .. Len(saves') : saves'[i].kind = "update" =>
          i \in 1 .. Len(saves) /\ saves'[i] = saves[i]
    BY <2>1 DEF TypeOK
  <2> QED BY <1>0, <2>1, <2>2, CopiesNext, CopiesNow DEF customerVars
<1>6. CASE UpdateEventsReturns \/ DeleteEventReturns
  <2> DEFINE w == Head(saves)
  <2>1. saves # <<>> /\ saves' = Tail(saves) /\ UNCHANGED form /\ flist' \subseteq flist
    BY <1>6 DEF UpdateEventsReturns, DeleteEventReturns
  <2>2. \A i \in 1 .. Len(saves') : i + 1 \in 1 .. Len(saves) /\ saves'[i] = saves[i + 1]
    BY <2>1 DEF TypeOK
  <2>3. 1 \in 1 .. Len(saves) /\ w = saves[1]
    BY <2>1 DEF TypeOK
  <2>4. \A x \in Events : copy = [event |-> x, left |-> event'[x].left, max |-> event'[x].max] =>
          copy \in Copies
    <3>1. CASE w.kind = "update"
               /\ event' = [event EXCEPT ![w.copy.event].left = w.left,
                                         ![w.copy.event].max = w.max]
      <4>1. w.copy.event \in Events
        BY <2>1, HeadTyped
      <4>2. Written(w) \in Copies
        BY <2>3, <3>1, CopiesNow
      <4>3. Written(w) = [event |-> w.copy.event, left |-> w.left, max |-> w.max]
        BY DEF Written
      <4> HIDE DEF w
      <4> QED BY <3>1, <4>1, <4>2, <4>3, CopiesNow DEF TypeOK, Doc
    <3>2. CASE event' = [event EXCEPT ![w.copy.event].state = "deleted"]
      <4> HIDE DEF w
      <4> QED BY <3>2, CopiesNow DEF TypeOK, Doc
    <3>3. CASE UNCHANGED event
      BY <3>3, CopiesNow
    <3> QED BY <1>6, <3>1, <3>2, <3>3 DEF UpdateEventsReturns, DeleteEventReturns
  <2> HIDE DEF w
  <2> QED BY <1>0, <2>1, <2>2, <2>4, CopiesNext, CopiesNow DEF customerVars
<1> QED BY <1>1, <1>2, <1>3, <1>4, <1>5, <1>6 DEF FarmerNext

(***************************************************************************)
(* Each of the three new copies covers its capacity.                       *)
(***************************************************************************)
LEMMA PostCovers ==
  ASSUME Typed, NEW e \in Events, NEW n \in Capacities, PostEvents(e, n)
  PROVE  Covers([event |-> e, left |-> n, max |-> n])'
<1>1. Spent(e)' = Spent(e)
  BY DEF PostEvents, Spent, customerVars
<1>2. n \in Nat
  BY EventAssumption
<1> QED BY <1>1, <1>2, SpentCount DEF Covers

LEMMA EditCovers ==
  ASSUME Typed, CopiesCover, NEW n \in Capacities, UpdateEvents(n)
  PROVE  Covers([event |-> form.event, left |-> UpdateRemainTickets(n), max |-> n])'
<1>1. form \in Copy /\ form # NoCopy
  BY DEF UpdateEvents, Typed, TypeOK, HandlersReady
<1>2. Covers(form)
  BY <1>1, CopiesNow DEF CopiesCover
<1>3. /\ form' = form /\ short' = short /\ Spent(form.event)' = Spent(form.event)
      /\ UpdateRemainTickets(n)' = UpdateRemainTickets(n)
  BY DEF UpdateEvents, Spent, customerVars, UpdateRemainTickets
<1>4. /\ form.left \in Nat /\ form.max \in Nat /\ n \in Nat
      /\ Cardinality(Spent(form.event)) \in Nat
  BY <1>1, SpentCount, EventAssumption DEF Copy
<1>5. ~short[form.event] =>
        UpdateRemainTickets(n) + Cardinality(Spent(form.event)) >= n
  BY <1>2, <1>4 DEF Covers, UpdateRemainTickets
<1> QED BY <1>3, <1>5 DEF Covers

LEMMA CountCovers ==
  ASSUME Typed, CopiesCover, NEW k \in Bookings, UpdateEventTicketCount(k),
         event' # event,
         NEW b \in Events, NEW left \in Nat, NEW max \in Nat,
         b = call[k].copy.event, left = TicketsAfterBooking(call[k].copy), max = event[b].max
  PROVE  Covers([event |-> b, left |-> left, max |-> max])'
<1> DEFINE seen == call[k].copy
<1>1. /\ seen \in Copy /\ seen # NoCopy /\ seen.left \in Nat /\ seen.max \in Nat
      /\ call[k].step = "count"
  BY CountReady, NoCopyIsNone DEF UpdateEventTicketCount
<1>2. Covers(seen)
  BY <1>1, CopiesNow DEF CopiesCover
<1>3. Cardinality(Spent(b))' = Cardinality(Spent(b)) + 1
  BY SpentByWrite
<1>4. ~short'[b] => ~short[b] /\ ~(seen.max < max)
  <2> DEFINE late == seen.max < event[b].max
  <2>1. short' = [short EXCEPT ![b] = @ \/ late]
    BY DEF UpdateEventTicketCount
  <2>2. short \in [Events -> BOOLEAN]
    BY DEF Typed, TypeOK
  <2> HIDE DEF late
  <2>3. short'[b] = (short[b] \/ late)
    BY <2>1, <2>2, Zenon
  <2> QED BY <2>3 DEF late
<1> QED BY <1>1, <1>2, <1>3, <1>4, SpentCount DEF Covers, TicketsAfterBooking

LEMMA CopiesCoverStep ==
  ASSUME Typed, CopiesCover, [Next]_vars
  PROVE  CopiesCover'
<1> SUFFICES ASSUME NEW copy \in Copies', copy # NoCopy PROVE Covers(copy)'
  BY DEF CopiesCover, NoCopy
<1>1. CASE copy \in Copies
  <2>1. copy \in Copy /\ Covers(copy)
    BY <1>1, CopiesTyped DEF CopiesCover
  <2> QED BY <2>1, CoversGrows
<1>2. ASSUME NEW c \in Customers, CustomerNext(c) PROVE copy \in Copies
  BY <1>2, CustomerStepCopies
<1>3. ASSUME NEW k \in Bookings, CallNext(k), copy \notin Copies PROVE Covers(copy)'
  <2>1. /\ UpdateEventTicketCount(k) /\ event' # event
        /\ copy = [event |-> call[k].copy.event, left |-> TicketsAfterBooking(call[k].copy),
                   max |-> event[call[k].copy.event].max]
    BY <1>3, CallStepCopies
  <2>2. /\ call[k].copy.event \in Events /\ TicketsAfterBooking(call[k].copy) \in Nat
        /\ event[call[k].copy.event].max \in Nat
    <3>1. /\ call[k].copy.event \in Events /\ call[k].copy.left \in Nat
          /\ call[k].copy.left > 0
      BY <2>1, CountReady DEF UpdateEventTicketCount, Typed
    <3>2. event[call[k].copy.event] \in Doc
      BY <3>1 DEF Typed, TypeOK
    <3>3. event[call[k].copy.event].max \in Nat
      BY <3>2 DEF Doc
    <3> QED BY <3>1, <3>3 DEF TicketsAfterBooking
  <2>3. PICK b \in Events, left \in Nat, max \in Nat :
          /\ b = call[k].copy.event /\ left = TicketsAfterBooking(call[k].copy)
          /\ max = event[b].max
    BY <2>2
  <2>4. copy = [event |-> b, left |-> left, max |-> max]
    BY <2>1, <2>3
  <2>5. Covers([event |-> b, left |-> left, max |-> max])'
    BY <2>1, <2>3, CountCovers
  <2> QED BY <2>4, <2>5
<1>4. ASSUME FarmerNext, copy \notin Copies PROVE Covers(copy)'
  <2>1. CASE \E e \in Events, n \in Capacities :
               PostEvents(e, n) /\ copy = [event |-> e, left |-> n, max |-> n]
    BY <2>1, PostCovers
  <2>2. CASE \E n \in Capacities : UpdateEvents(n) /\ copy = EditCopy(n)
    <3>1. PICK n \in Capacities : UpdateEvents(n) /\ copy = EditCopy(n)
      BY <2>2
    <3>2. Covers([event |-> form.event, left |-> UpdateRemainTickets(n), max |-> n])'
      BY <3>1, EditCovers
    <3>3. copy = [event |-> form.event, left |-> UpdateRemainTickets(n), max |-> n]'
      BY <3>1 DEF UpdateEvents, EditCopy, UpdateRemainTickets
    <3> QED BY <3>2, <3>3
  <2> QED BY <1>4, <2>1, <2>2, FarmerStepCopies
<1>5. CASE UNCHANGED vars
  BY <1>5, CopiesNow, CopiesNext, <1>1 DEF vars, customerVars, farmerVars
<1> QED BY <1>1, <1>2, <1>3, <1>4, <1>5 DEF Next

LEMMA CopiesCoverInit == Init => CopiesCover
<1> SUFFICES ASSUME Init, NEW copy \in Copies, copy # NoCopy PROVE Covers(copy)
  BY DEF CopiesCover
<1>1. copy \in DocCopies
  BY DEF Init, Copies, CustomerCopies, CountCopies, FarmerCopies, UpdateCopies, NoPage, NoCall
<1>2. copy.left = 0 /\ copy.max = 0
  BY <1>1 DEF Init, DocCopies, CopyOf
<1> QED BY <1>2, SpentCount DEF Covers

-----------------------------------------------------------------------------
(***************************************************************************)
(* Nobody holds a copy of an event that was not offered, so a new event has *)
(* no tickets spent.                                                       *)
(***************************************************************************)
LEMMA HeldNow ==
  ASSUME NEW copy,
         \/ \E c \in Customers : copy \in list[c] \/ copy = page[c].copy
         \/ \E k \in Bookings : copy = call[k].copy
         \/ copy \in flist
         \/ copy = form
         \/ \E i \in 1 .. Len(saves) : copy = saves[i].copy
  PROVE  copy \in Held
<1>1. CASE \E c \in Customers : copy \in list[c] \/ copy = page[c].copy
  <2>1. copy \in CustomerCopies
    BY <1>1 DEF CustomerCopies
  <2> QED BY <2>1 DEF Held
<1>2. CASE \E k \in Bookings : copy = call[k].copy
  BY <1>2 DEF Held
<1>3. CASE copy \in flist \/ copy = form
  <2>1. copy \in FarmerCopies
    BY <1>3 DEF FarmerCopies
  <2> QED BY <2>1 DEF Held
<1>4. CASE \E i \in 1 .. Len(saves) : copy = saves[i].copy
  <2>1. copy \in SaveCopies
    BY <1>4 DEF SaveCopies
  <2> QED BY <2>1 DEF Held
<1> QED BY <1>1, <1>2, <1>3, <1>4

LEMMA HeldNext ==
  ASSUME NEW copy, copy \in Held'
  PROVE  \/ \E c \in Customers : copy \in list'[c] \/ copy = page'[c].copy
         \/ \E k \in Bookings : copy = call'[k].copy
         \/ copy \in flist'
         \/ copy = form'
         \/ \E i \in 1 .. Len(saves') : copy = saves'[i].copy
<1>1. CASE copy \in CustomerCopies'
  BY <1>1 DEF CustomerCopies
<1>2. CASE copy \in FarmerCopies'
  BY <1>2 DEF FarmerCopies
<1>3. CASE copy \in {call'[k].copy : k \in Bookings}
  BY <1>3
<1>4. CASE copy \in SaveCopies'
  BY <1>4 DEF SaveCopies
<1> QED BY <1>1, <1>2, <1>3, <1>4 DEF Held

LEMMA HeldTyped ==
  ASSUME Typed, NEW copy \in Held, copy # NoCopy
  PROVE  copy \in Copy
<1> USE DEF Typed
<1>1. CASE copy \in CustomerCopies
  BY <1>1 DEF TypeOK, CustomerCopies
<1>2. CASE copy \in FarmerCopies
  BY <1>2 DEF TypeOK, FarmerCopies
<1>3. CASE \E k \in Bookings : copy = call[k].copy
  BY <1>3 DEF TypeOK, Call
<1>4. CASE \E i \in 1 .. Len(saves) : copy = saves[i].copy
  <2>1. \A i \in 1 .. Len(saves) : saves[i] \in Save
    BY DEF TypeOK
  <2> QED BY <1>4, <2>1 DEF Save
<1>5. CASE copy \in SaveCopies
  BY <1>4, <1>5 DEF SaveCopies
<1> QED BY <1>1, <1>2, <1>3, <1>5 DEF Held

LEMMA OfferedStays ==
  ASSUME Typed, [Next]_vars, NEW e \in Events, Offered(e)
  PROVE  event'[e].state \in {"live", "deleted"}
<1> USE DEF Typed, Offered
<1>0. event \in [Events -> Doc] /\ event[e] \in Doc
  BY DEF TypeOK
<1>1. CASE UNCHANGED event
  BY <1>1
<1>2. ASSUME NEW k \in Bookings, UpdateEventTicketCount(k)
      PROVE  event'[e].state \in {"live", "deleted"}
  <2>1. PICK b, n : UNCHANGED event \/ event' = [event EXCEPT ![b].left = n]
    BY <1>2 DEF UpdateEventTicketCount
  <2>2. event'[e] = event[e] \/ event'[e] = [event[e] EXCEPT !.left = n]
    BY <1>0, <2>1
  <2> QED BY <1>0, <2>2 DEF Doc
<1>3. ASSUME NEW x \in Events, NEW n \in Capacities, PostEvents(x, n)
      PROVE  event'[e].state \in {"live", "deleted"}
  <2>1. \/ UNCHANGED event
        \/ /\ event[x].state = "unused"
           /\ event' = [event EXCEPT ![x] = [state |-> "idless", left |-> n, max |-> n]]
    BY <1>3 DEF PostEvents
  <2> QED BY <1>0, <2>1
<1>4. CASE PostEventsSetsID
  <2>1. CASE UNCHANGED event
    BY <2>1
  <2>2. ASSUME event' = [event EXCEPT ![posting].state =
                            IF @ = "idless" THEN "live" ELSE @]
        PROVE  event'[e].state \in {"live", "deleted"}
    <3>1. CASE e = posting
      <4>1. event'[e] = [event[e] EXCEPT !.state =
                            IF @ = "idless" THEN "live" ELSE @]
        BY <1>0, <2>2, <3>1
      <4>2. event[e] \in Doc
        BY <1>0
      <4>3. event'[e].state = IF event[e].state = "idless" THEN "live"
                              ELSE event[e].state
        BY <4>1, <4>2 DEF Doc
      <4> QED
        BY <4>3
    <3>2. CASE e # posting
      BY <1>0, <2>2, <3>2
    <3> QED
      BY <3>1, <3>2
  <2> QED
    BY <1>4, <2>1, <2>2 DEF PostEventsSetsID
<1>5. ASSUME NEW x \in Events, RemoveExpiredDoc(x)
      PROVE  event'[e].state \in {"live", "deleted"}
  <2>1. event' = [event EXCEPT ![x].state = "deleted"]
    BY <1>5 DEF RemoveExpiredDoc
  <2>2. event'[e] = event[e] \/ event'[e] = [event[e] EXCEPT !.state = "deleted"]
    BY <1>0, <2>1
  <2> QED BY <1>0, <2>2 DEF Doc
<1>6. CASE UpdateEventsReturns
  <2> DEFINE w == Head(saves)
             b == w.copy.event
  <2>1. UNCHANGED event \/ event' = [event EXCEPT ![b].left = w.left, ![b].max = w.max]
    BY <1>6 DEF UpdateEventsReturns
  <2> HIDE DEF w, b
  <2>2. event[e] \in Doc
    BY DEF TypeOK
  <2>3. event'[e] = event[e] \/ event'[e] = [event[e] EXCEPT !.left = w.left, !.max = w.max]
    BY <2>1 DEF TypeOK
  <2> QED BY <2>2, <2>3 DEF Doc
<1>7. CASE DeleteEventReturns
  <2> DEFINE b == Head(saves).copy.event
  <2>1. UNCHANGED event \/ event' = [event EXCEPT ![b].state = "deleted"]
    BY <1>7 DEF DeleteEventReturns
  <2> HIDE DEF b
  <2>2. event'[e] = event[e] \/ event'[e] = [event[e] EXCEPT !.state = "deleted"]
    BY <1>0, <2>1
  <2> QED BY <1>0, <2>2 DEF Doc
<1>8. ASSUME NEW c \in Customers, CustomerNext(c) PROVE UNCHANGED event
  BY <1>8 DEF CustomerNext, EnterFarm, FetchEvents, FetchBooked, OpenEvent, RebuildPage,
     ClosePage, BookEvents
<1>9. ASSUME NEW k \in Bookings, AddToBookEvents(k) PROVE UNCHANGED event
  BY <1>9 DEF AddToBookEvents
<1>10. CASE \/ StartGetEventList \/ GetEventListReturns \/ LeaveForm \/ DeleteEvent
            \/ \E copy \in flist : UpdateFields(copy)
            \/ \E n \in Capacities : UpdateEvents(n)
  BY <1>1, <1>10 DEF StartGetEventList, GetEventListReturns, LeaveForm, DeleteEvent,
     UpdateFields, UpdateEvents
<1>11. CASE FarmerNext
  BY <1>11, <1>3, <1>4, <1>5, <1>6, <1>7, <1>10 DEF FarmerNext
<1>12. CASE UNCHANGED vars
  BY <1>1, <1>12 DEF vars
<1> QED BY <1>1, <1>2, <1>8, <1>9, <1>11, <1>12 DEF Next, CallNext

LEMMA FarmerEventsOffered ==
  ASSUME NEW old, NEW copy \in FarmerEvents(old)
  PROVE  \/ copy \in old
         \/ \E e \in Events : copy = CopyOf(e) /\ event[e].state = "live"
  BY DEF FarmerEvents

\* The farmer's calls are about the event in the form when they were issued.
LEMMA SavesStep ==
  ASSUME Typed, FarmerNext
  PROVE  \A i \in 1 .. Len(saves') :
           \/ saves'[i].copy = form
           \/ \E j \in 1 .. Len(saves) : saves'[i] = saves[j]
<1>0. saves \in Seq(Save)
  BY DEF Typed, TypeOK
<1>1. \/ UNCHANGED saves
      \/ saves # <<>> /\ saves' = Tail(saves)
      \/ \E w : saves' = Append(saves, w) /\ w.copy = form
  <2>1. CASE \E n \in Capacities : UpdateEvents(n)
    BY <2>1 DEF UpdateEvents
  <2>2. CASE DeleteEvent
    BY <2>2 DEF DeleteEvent
  <2>3. CASE ~(\E n \in Capacities : UpdateEvents(n)) /\ ~DeleteEvent
    BY <2>3 DEF FarmerNext, PostEvents, PostEventsSetsID, StartGetEventList,
       RemoveExpiredDoc, GetEventListReturns, UpdateFields, LeaveForm,
       UpdateEventsReturns, DeleteEventReturns, farmerVars
  <2> QED BY <2>1, <2>2, <2>3
<1>2. CASE UNCHANGED saves
  BY <1>2
<1>3. CASE saves # <<>> /\ saves' = Tail(saves)
  <2>1. \A i \in 1 .. Len(saves') : i + 1 \in 1 .. Len(saves) /\ saves'[i] = saves[i + 1]
    BY <1>0, <1>3
  <2> QED BY <2>1
<1>4. ASSUME NEW w, saves' = Append(saves, w), w.copy = form
      PROVE  \A i \in 1 .. Len(saves') :
               \/ saves'[i].copy = form
               \/ \E j \in 1 .. Len(saves) : saves'[i] = saves[j]
  <2>1. \A i \in 1 .. Len(saves') :
          saves'[i] = w \/ (i \in 1 .. Len(saves) /\ saves'[i] = saves[i])
    BY <1>0, <1>4
  <2> QED BY <1>4, <2>1
<1> QED BY <1>1, <1>2, <1>3, <1>4

LEMMA HeldStep ==
  ASSUME Typed, [Next]_vars, NEW copy \in Held'
  PROVE  \/ copy \in Held \/ copy = NoCopy
         \/ \E e \in Events : copy = CopyOf(e) /\ event[e].state = "live"
<1> USE DEF Typed
<1> DEFINE live == \E e \in Events : copy = CopyOf(e) /\ event[e].state = "live"
<1>1. ASSUME NEW c \in Customers, CustomerNext(c) PROVE copy \in Held \/ copy = NoCopy \/ live
  <2>1. ASSUME NEW d \in Customers, copy \in list'[d] PROVE copy \in Held \/ live
    <3>1. copy \in list[d] \/ copy \in FarmerEvents(list[d])
      BY <1>1, <2>1 DEF CustomerNext, EnterFarm, FetchEvents, FetchBooked, OpenEvent,
         RebuildPage, ClosePage, BookEvents, TypeOK
    <3> QED BY <3>1, FarmerEventsOffered, HeldNow
  <2>2. ASSUME NEW d \in Customers, copy = page'[d].copy PROVE copy \in Held \/ copy = NoCopy
    <3>1. \/ page'[d].copy = page[d].copy \/ page'[d].copy \in list[d]
          \/ page'[d].copy = NoCopy
      BY <1>1 DEF CustomerNext, EnterFarm, FetchEvents, FetchBooked, OpenEvent, RebuildPage,
         ClosePage, BookEvents, TypeOK, NoPage
    <3> QED BY <2>2, <3>1, HeldNow
  <2>3. ASSUME NEW k \in Bookings, copy = call'[k].copy PROVE copy \in Held
    <3>1. call'[k] = call[k] \/ call'[k].copy = page[c].copy
      BY <1>1 DEF CustomerNext, EnterFarm, FetchEvents, FetchBooked, OpenEvent, RebuildPage,
         ClosePage, BookEvents, TypeOK
    <3> QED BY <2>3, <3>1, HeldNow
  <2>4. UNCHANGED <<flist, form, saves>>
    BY <1>1 DEF CustomerNext, EnterFarm, FetchEvents, FetchBooked, OpenEvent, RebuildPage,
       ClosePage, BookEvents, farmerVars
  <2> HIDE DEF live
  <2> QED BY <2>1, <2>2, <2>3, <2>4, HeldNext, HeldNow
<1>2. ASSUME NEW k \in Bookings, CallNext(k) PROVE copy \in Held
  <2>1. \A j \in Bookings : call'[j].copy = call[j].copy
    <3>1. CASE UpdateEventTicketCount(k)
      BY <3>1 DEF UpdateEventTicketCount, TypeOK, Call
    <3>2. CASE AddToBookEvents(k)
      <4>1. PICK s \in {"booked", "lost"} : call' = [call EXCEPT ![k].step = s]
        BY <3>2 DEF AddToBookEvents
      <4> QED BY <4>1 DEF TypeOK, Call
    <3> QED BY <1>2, <3>1, <3>2 DEF CallNext
  <2>2. UNCHANGED <<list, page, flist, form, saves>>
    BY <1>2 DEF CallNext, UpdateEventTicketCount, AddToBookEvents, farmerVars
  <2> QED BY <2>1, <2>2, HeldNext, HeldNow
<1>3. ASSUME FarmerNext PROVE copy \in Held \/ live
  <2>1. UNCHANGED customerVars
    BY <1>3 DEF FarmerNext, PostEvents, PostEventsSetsID, StartGetEventList,
       RemoveExpiredDoc, GetEventListReturns, UpdateFields, LeaveForm, UpdateEvents,
       UpdateEventsReturns, DeleteEvent, DeleteEventReturns
  <2>2. flist' = FarmerEvents(flist) \/ flist' \subseteq flist
    BY <1>3 DEF FarmerNext, PostEvents, PostEventsSetsID, StartGetEventList,
       RemoveExpiredDoc, GetEventListReturns, UpdateFields, LeaveForm, UpdateEvents,
       UpdateEventsReturns, DeleteEvent, DeleteEventReturns, farmerVars
  <2>3. form' = form \/ form' \in flist
    BY <1>3 DEF FarmerNext, PostEvents, PostEventsSetsID, StartGetEventList,
       RemoveExpiredDoc, GetEventListReturns, UpdateFields, LeaveForm, UpdateEvents,
       UpdateEventsReturns, DeleteEvent, DeleteEventReturns, farmerVars
  <2>4. copy \in flist' => copy \in Held \/ live
    BY <2>2, FarmerEventsOffered, HeldNow
  <2>5. \A i \in 1 .. Len(saves') :
          \/ saves'[i].copy = form
          \/ \E j \in 1 .. Len(saves) : saves'[i] = saves[j]
    BY <1>3, SavesStep
  <2> HIDE DEF live
  <2> QED BY <2>1, <2>3, <2>4, <2>5, HeldNext, HeldNow DEF customerVars
<1>4. CASE UNCHANGED vars
  BY <1>4, HeldNext, HeldNow DEF vars, customerVars, farmerVars
<1> QED BY <1>1, <1>2, <1>3, <1>4 DEF Next

LEMMA HeldOfferedStep ==
  ASSUME Typed, HeldWereOffered, [Next]_vars
  PROVE  HeldWereOffered'
<1> SUFFICES ASSUME NEW copy \in Held', copy # NoCopy
             PROVE  event'[copy.event].state \in {"live", "deleted"}
  BY DEF HeldWereOffered, Offered, NoCopy
<1>1. CASE copy \in Held
  <2>1. copy.event \in Events /\ Offered(copy.event)
    BY <1>1, HeldTyped DEF HeldWereOffered, Copy
  <2> QED BY <2>1, OfferedStays
<1>2. CASE \E e \in Events : copy = CopyOf(e) /\ event[e].state = "live"
  <2>1. PICK e \in Events : copy = CopyOf(e) /\ event[e].state = "live"
    BY <1>2
  <2>2. copy.event = e /\ Offered(e)
    BY <2>1 DEF CopyOf, Offered
  <2> QED BY <2>2, OfferedStays
<1> QED BY <1>1, <1>2, HeldStep

LEMMA HeldOfferedInit == Init => HeldWereOffered
<1> SUFFICES ASSUME Init, NEW copy \in Held PROVE copy = NoCopy
  BY DEF HeldWereOffered
<1> QED BY DEF Init, Held, CustomerCopies, FarmerCopies, SaveCopies, NoPage, NoCall

LEMMA UnusedUnspent ==
  ASSUME Typed, HeldWereOffered, NEW e \in Events, event[e].state = "unused"
  PROVE  Cardinality(Spent(e)) = 0
<1>1. ASSUME NEW k \in Spent(e) PROVE FALSE
  <2>1. k \in Bookings /\ call[k].copy.event = e /\ call[k].step # "idle"
    BY DEF Spent
  <2>2. call[k].copy \in Held /\ call[k].copy # NoCopy
    BY <2>1, HeldNow DEF Typed, HandlersReady
  <2> QED BY <2>1, <2>2 DEF HeldWereOffered, Offered
<1>2. Spent(e) = {}
  BY <1>1
<1> QED BY <1>2, FS_EmptySet

-----------------------------------------------------------------------------
(***************************************************************************)
(* Bookings fit the capacity while every write comes from a current copy.  *)
(***************************************************************************)
LEMMA WithinCapacityInit == Init => WithinCapacity
  BY DEF Init, WithinCapacity, Exists

\* Steps other than these three leave counts and capacities alone.
LEMMA OldEvents ==
  ASSUME Typed, [Next]_vars, NEW e \in Events,
         \A k \in Bookings : ~UpdateEventTicketCount(k), ~UpdateEventsReturns,
         ~\E x \in Events, n \in Capacities : PostEvents(x, n)
  PROVE  /\ event'[e].left = event[e].left /\ event'[e].max = event[e].max
         /\ Exists(e)' => Exists(e)
<1> USE DEF Typed
<1>1. CASE UNCHANGED event
  BY <1>1 DEF Exists
<1>2. CASE PostEventsSetsID
  <2> DEFINE s == IF event[posting].state = "idless" THEN "live" ELSE event[posting].state
  <2>1. UNCHANGED event \/ event' = [event EXCEPT ![posting].state = s]
    BY <1>2 DEF PostEventsSetsID
  <2>2. posting \in Events
    BY <1>2 DEF PostEventsSetsID, TypeOK
  <2>3. CASE event' = [event EXCEPT ![posting].state = s]
    <3>1. \/ event'[e] = event[e]
          \/ e = posting /\ event'[e] = [event[e] EXCEPT !.state = s]
      BY <2>3 DEF TypeOK
    <3>2. CASE event'[e] = event[e]
      BY <3>2 DEF Exists
    <3>3. CASE e = posting /\ event'[e] = [event[e] EXCEPT !.state = s]
      <4>1. event[e] \in Doc
        BY DEF TypeOK
      <4> QED BY <3>3, <4>1 DEF Exists, Doc
    <3> QED BY <3>1, <3>2, <3>3
  <2> QED BY <1>1, <2>1, <2>3
<1>3. CASE DeleteEventReturns \/ \E x \in Events : RemoveExpiredDoc(x)
  <2>1. \A x : event' = [event EXCEPT ![x].state = "deleted"] =>
          /\ event'[e].left = event[e].left /\ event'[e].max = event[e].max
          /\ Exists(e)' => Exists(e)
    BY DEF TypeOK, Doc, Exists
  <2> QED BY <1>1, <1>3, <2>1 DEF DeleteEventReturns, RemoveExpiredDoc
<1>4. \/ UNCHANGED event \/ PostEventsSetsID \/ DeleteEventReturns
      \/ \E x \in Events : RemoveExpiredDoc(x)
  BY DEF Next, CustomerNext, CallNext, EnterFarm, FetchEvents, FetchBooked, OpenEvent,
     RebuildPage, ClosePage, BookEvents, AddToBookEvents, FarmerNext, StartGetEventList,
     GetEventListReturns, UpdateFields, LeaveForm, UpdateEvents, DeleteEvent, vars
<1> QED BY <1>1, <1>2, <1>3, <1>4

LEMMA WithinCapacityStep ==
  ASSUME Typed, HeldWereOffered, WithinCapacity, [Next]_vars
  PROVE  WithinCapacity'
<1> SUFFICES ASSUME NEW e \in Events, Exists(e)', fresh'[e]
             PROVE  event'[e].left + Cardinality(Spent(e))' <= event'[e].max
  BY DEF WithinCapacity
<1>0. /\ event[e].left \in Nat /\ event[e].max \in Nat /\ Cardinality(Spent(e)) \in Nat
      /\ fresh \in [Events -> BOOLEAN]
  BY SpentCount DEF Typed, TypeOK, Doc
<1>1. CASE \E k \in Bookings : UpdateEventTicketCount(k)
  <2>1. PICK k \in Bookings : UpdateEventTicketCount(k)
    BY <1>1
  <2> DEFINE seen == call[k].copy
             b == seen.event
             same == seen = CopyOf(b)
  <2>2. /\ b \in Events /\ seen.left \in Nat
        /\ Cardinality(Spent(e))' = Cardinality(Spent(e)) + (IF e = b THEN 1 ELSE 0)
    BY <2>1, CountReady, SpentByWrite DEF UpdateEventTicketCount
  <2>3. CASE e # b
    <3>1. event'[e] = event[e] /\ fresh'[e] = fresh[e]
      BY <2>1, <2>3 DEF UpdateEventTicketCount, Typed, TypeOK
    <3> QED BY <1>0, <2>2, <2>3, <3>1 DEF WithinCapacity, Exists
  <2>4. CASE e = b
    <3>1. \/ /\ fresh' = [fresh EXCEPT ![b] = @ /\ same]
             /\ event[b].state = "live"
             /\ event' = [event EXCEPT ![b].left = TicketsAfterBooking(seen)]
          \/ fresh' = [fresh EXCEPT ![b] = FALSE]
      BY <2>1 DEF UpdateEventTicketCount
    <3> HIDE DEF b, same
    <3>2. /\ fresh[b] /\ same /\ event[b].state = "live"
          /\ event' = [event EXCEPT ![b].left = TicketsAfterBooking(seen)]
      BY <1>0, <2>2, <2>4, <3>1, Zenon
    <3>3. seen.left = event[b].left
      BY <3>2 DEF same, CopyOf
    <3>4. event'[b].left = event[b].left - 1 /\ event'[b].max = event[b].max
      BY <2>2, <3>2, <3>3 DEF TicketsAfterBooking, Typed, TypeOK, Doc
    <3>5. event[b].left + Cardinality(Spent(b)) <= event[b].max
      BY <2>2, <3>2 DEF WithinCapacity, Exists
    <3> QED BY <1>0, <2>2, <2>4, <3>4, <3>5
  <2> QED BY <2>3, <2>4
<1>2. CASE \A k \in Bookings : ~UpdateEventTicketCount(k)
  <2>1. Cardinality(Spent(e))' = Cardinality(Spent(e))
    <3>1. Spent(e)' = Spent(e)
      BY <1>2, SpentOtherwise
    <3> QED BY <3>1
  <2>2. CASE UpdateEventsReturns
    <3> DEFINE w == Head(saves)
               b == w.copy.event
               good == FaithfulUpdate(w)
    <3>1. b \in Events /\ w.left \in Nat /\ w.max \in Nat
      BY <2>2, HeadTyped DEF UpdateEventsReturns, Typed
    <3>2. \/ /\ event[b].state = "live"
             /\ event' = [event EXCEPT ![b].left = w.left, ![b].max = w.max]
             /\ fresh' = [fresh EXCEPT ![b] = @ /\ good]
          \/ UNCHANGED <<event, fresh>>
      BY <2>2 DEF UpdateEventsReturns
    <3>3. CASE UNCHANGED <<event, fresh>>
      BY <2>1, <3>3 DEF WithinCapacity, Exists
    <3>4. CASE /\ event[b].state = "live"
               /\ event' = [event EXCEPT ![b].left = w.left, ![b].max = w.max]
               /\ fresh' = [fresh EXCEPT ![b] = @ /\ good]
      <4> HIDE DEF w, b, good
      <4>1. CASE e # b
        BY <1>0, <2>1, <3>4, <4>1 DEF WithinCapacity, Exists, Typed, TypeOK
      <4>2. CASE e = b
        <5>1. fresh[b] /\ good
          BY <1>0, <3>1, <3>4, <4>2, Zenon
        <5>2. w.left = event[b].left + (w.max - event[b].max)
          BY <5>1 DEF good, FaithfulUpdate, CopyOf, b
        <5>3. event[b].left + Cardinality(Spent(b)) <= event[b].max
          BY <3>1, <3>4, <5>1 DEF WithinCapacity, Exists
        <5>4. event'[b].left = w.left /\ event'[b].max = w.max
          BY <3>1, <3>4 DEF Typed, TypeOK, Doc
        <5> QED BY <1>0, <2>1, <3>1, <4>2, <5>2, <5>3, <5>4
      <4> QED BY <4>1, <4>2
    <3> QED BY <3>2, <3>3, <3>4
  <2>3. CASE \E x \in Events, n \in Capacities : PostEvents(x, n)
    <3>1. PICK x \in Events, n \in Capacities : PostEvents(x, n)
      BY <2>3
    <3>2. CASE event'[e] = event[e]
      BY <2>1, <3>1, <3>2 DEF PostEvents, WithinCapacity, Exists
    <3>3. CASE event'[e] # event[e]
      <4>1. /\ e = x /\ event[e].state = "unused"
            /\ event'[e].left = n /\ event'[e].max = n
        BY <3>1, <3>3 DEF PostEvents, Typed, TypeOK
      <4>2. Cardinality(Spent(e)) = 0 /\ n \in Nat
        BY <4>1, UnusedUnspent, EventAssumption
      <4> QED BY <2>1, <4>1, <4>2
    <3> QED BY <3>2, <3>3
  <2>4. CASE ~UpdateEventsReturns /\ ~\E x \in Events, n \in Capacities : PostEvents(x, n)
    <3>1. UNCHANGED fresh
      BY <1>2, <2>4 DEF Next, CustomerNext, CallNext, EnterFarm, FetchEvents, FetchBooked,
         OpenEvent, RebuildPage, ClosePage, BookEvents, AddToBookEvents, FarmerNext,
         PostEventsSetsID, StartGetEventList, RemoveExpiredDoc, GetEventListReturns,
         UpdateFields, LeaveForm, UpdateEvents, DeleteEvent, DeleteEventReturns, vars
    <3>2. /\ event'[e].left = event[e].left /\ event'[e].max = event[e].max
          /\ Exists(e)' => Exists(e)
      BY <1>2, <2>4, OldEvents
    <3> QED BY <1>0, <2>1, <3>1, <3>2 DEF WithinCapacity
  <2> QED BY <2>2, <2>3, <2>4
<1> QED BY <1>1, <1>2

(***************************************************************************)
(* The invariant and what follows.                                         *)
(***************************************************************************)
LEMMA IInvInit == Init => IInv
  BY TypedInit, HeldOfferedInit, CopiesCoverInit, WithinCapacityInit DEF IInv, Typed

LEMMA IInvStep == IInv /\ [Next]_vars => IInv'
<1> SUFFICES ASSUME IInv, [Next]_vars PROVE IInv'
  OBVIOUS
<1>1. Typed
  BY DEF IInv, Typed
<1>2. Typed'
  BY <1>1, TypedStep
<1>3. HeldWereOffered' /\ CopiesCover' /\ WithinCapacity'
  BY <1>1, HeldOfferedStep, CopiesCoverStep, WithinCapacityStep DEF IInv
<1> QED BY <1>2, <1>3 DEF IInv, Typed

\* No ticket of an event disappears, for any number of customers booking and
\* of edits by the farmer, except where a booking undid a raise.
THEOREM TicketsKept == Spec => []NoTicketLost
<1>1. IInv => NoTicketLost
  <2> SUFFICES ASSUME IInv, NEW e \in Events, ~short[e]
               PROVE  event[e].left + Cardinality(Spent(e)) >= event[e].max
    BY DEF NoTicketLost
  <2>1. CopyOf(e) \in Copies /\ CopyOf(e) \in Copy
    BY CopiesNow, CopyOfTyped DEF IInv, CopyOf
  <2>2. Covers(CopyOf(e))
    BY <2>1, NoCopyIsNone DEF IInv, CopiesCover
  <2> QED BY <2>2 DEF Covers, CopyOf
<1> QED BY IInvInit, IInvStep, <1>1, PTL DEF Spec

\* Bookings exceed the capacity only after a write from a copy that was no
\* longer current, a failed write, or a capacity lowered below what is sold.
THEOREM CapacityKept == Spec => []WithinCapacity
<1>1. IInv => WithinCapacity
  BY DEF IInv
<1> QED BY IInvInit, IInvStep, <1>1, PTL DEF Spec

=============================================================================
