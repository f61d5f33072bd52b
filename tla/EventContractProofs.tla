------------------------ MODULE EventContractProofs ------------------------
(***************************************************************************)
(* The devices of the event pages implement EventContract, and what can    *)
(* still be said of the capacity in terms of bookings alone.               *)
(***************************************************************************)
EXTENDS EventBookingProofs

(***************************************************************************)
(* What the contract sees of a step.                                       *)
(***************************************************************************)
SameDocs == \A e \in Events : event'[e].state = event[e].state

\* The state of the document of e changes from one of s to t, no other does.
DocMoves(e, s, t) ==
  /\ event[e].state \in s /\ event'[e].state = t
  /\ \A x \in Events \ {e} : event'[x].state = event[x].state

Counted(k) == IF call[k].step \in {"idle", "count"} THEN NoEvent ELSE call[k].copy.event

SameCall(k) ==
  /\ Counted(k)' = Counted(k)
  /\ call'[k].step = "booked" <=> call[k].step = "booked"
  /\ call'[k].step = "lost" <=> call[k].step = "lost"

SameCalls == \A k \in Bookings : SameCall(k)

\* The call k moves from step s to step t for the event of its copy.
CallMoves(k, s, t) ==
  /\ call[k].step = s /\ call'[k].step = t
  /\ call'[k].copy = call[k].copy
  /\ \A j \in Bookings \ {k} : SameCall(j)

LEMMA DocTyped ==
  ASSUME TypeOK
  PROVE  event \in [Events -> Doc] /\ \A e \in Events : event[e] \in Doc
  BY DEF TypeOK

\* A document whose state is written.
LEMMA StateWritten ==
  ASSUME TypeOK, NEW e \in Events, NEW t, event' = [event EXCEPT ![e].state = t]
  PROVE  /\ event'[e].state = t
         /\ \A x \in Events \ {e} : event'[x].state = event[x].state
<1>1. event \in [Events -> Doc] /\ event[e] \in Doc
  BY DocTyped
<1>2. event'[e] = [event[e] EXCEPT !.state = t]
  BY <1>1
<1>3. \A x \in Events \ {e} : event'[x] = event[x]
  BY <1>1
<1> QED BY <1>1, <1>2, <1>3 DEF Doc

\* A document whose numbers are written.
LEMMA NumbersWritten ==
  ASSUME TypeOK, NEW e \in Events, NEW n, NEW m,
         \/ event' = [event EXCEPT ![e].left = n]
         \/ event' = [event EXCEPT ![e].left = n, ![e].max = m]
  PROVE  SameDocs
<1>1. event \in [Events -> Doc] /\ event[e] \in Doc
  BY DocTyped
<1>2. \/ event'[e] = [event[e] EXCEPT !.left = n]
      \/ event'[e] = [event[e] EXCEPT !.left = n, !.max = m]
  BY <1>1
<1>3. \A x \in Events \ {e} : event'[x] = event[x]
  BY <1>1
<1>4. event'[e].state = event[e].state
  BY <1>1, <1>2 DEF Doc
<1> QED BY <1>3, <1>4 DEF SameDocs

(***************************************************************************)
(* The farmer's steps move one document or none.  A removed event stays    *)
(* removed: its update fails, and its second write finds no document.      *)
(***************************************************************************)
LEMMA FarmerMoves ==
  ASSUME IInv, FarmerNext
  PROVE  /\ SameCalls
         /\ \/ SameDocs
            \/ \E e \in Events : \/ DocMoves(e, {"unused"}, "idless")
                                 \/ DocMoves(e, {"idless"}, "live")
                                 \/ DocMoves(e, {"idless", "live"}, "deleted")
<1> DEFINE Moves ==
      \/ SameDocs
      \/ \E e \in Events : \/ DocMoves(e, {"unused"}, "idless")
                           \/ DocMoves(e, {"idless"}, "live")
                           \/ DocMoves(e, {"idless", "live"}, "deleted")
<1>0. TypeOK /\ event \in [Events -> Doc] /\ \A e \in Events : event[e] \in Doc
  BY DocTyped DEF IInv
<1>1. SameCalls
  <2>1. UNCHANGED call
    BY DEF FarmerNext, PostEvents, PostEventsSetsID, StartGetEventList,
       RemoveExpiredDoc, GetEventListReturns, UpdateFields, LeaveForm, UpdateEvents,
       UpdateEventsReturns, DeleteEvent, DeleteEventReturns, customerVars
  <2> QED BY <2>1 DEF SameCalls, SameCall, Counted
<1> SUFFICES Moves
  BY <1>1
<1>2. CASE UNCHANGED event
  BY <1>2 DEF SameDocs
<1>3. ASSUME NEW e \in Events, NEW n \in Capacities, PostEvents(e, n)
      PROVE  Moves
  <2>1. \/ UNCHANGED event
        \/ /\ event[e].state = "unused"
           /\ event' = [event EXCEPT ![e] = [state |-> "idless", left |-> n, max |-> n]]
    BY <1>3 DEF PostEvents
  <2>2. UNCHANGED event \/ DocMoves(e, {"unused"}, "idless")
    BY <1>0, <2>1 DEF DocMoves
  <2> QED BY <1>2, <2>2
<1>4. CASE PostEventsSetsID
  <2> DEFINE t == IF event[posting].state = "idless" THEN "live" ELSE event[posting].state
  <2>1. posting \in Events /\ (UNCHANGED event \/ event' = [event EXCEPT ![posting].state = t])
    BY <1>0, <1>4 DEF PostEventsSetsID, TypeOK
  <2>2. CASE event' = [event EXCEPT ![posting].state = t]
    <3>1. /\ event'[posting].state = t
          /\ \A x \in Events \ {posting} : event'[x].state = event[x].state
      <4> HIDE DEF t
      <4> QED BY <1>0, <2>1, <2>2, StateWritten
    <3>2. CASE event[posting].state = "idless"
      BY <2>1, <3>1, <3>2 DEF DocMoves
    <3>3. CASE event[posting].state # "idless"
      BY <3>1, <3>3 DEF SameDocs
    <3> QED BY <3>2, <3>3
  <2> QED BY <1>2, <2>1, <2>2
<1>5. ASSUME NEW e \in Events, event' = [event EXCEPT ![e].state = "deleted"],
             event[e].state # "unused"
      PROVE  Moves
  <2>1. /\ event'[e].state = "deleted"
        /\ \A x \in Events \ {e} : event'[x].state = event[x].state
    BY <1>0, <1>5, StateWritten
  <2>2. CASE event[e].state = "deleted"
    BY <2>1, <2>2 DEF SameDocs
  <2>3. CASE event[e].state # "deleted"
    <3>1. event[e].state \in {"idless", "live"}
      BY <1>0, <1>5, <2>3 DEF Doc
    <3>2. DocMoves(e, {"idless", "live"}, "deleted")
      BY <2>1, <3>1 DEF DocMoves
    <3> QED BY <3>2
  <2> QED BY <2>2, <2>3
<1>6. ASSUME NEW e \in Events, RemoveExpiredDoc(e)
      PROVE  Moves
  <2>1. event' = [event EXCEPT ![e].state = "deleted"] /\ event[e].state # "unused"
    BY <1>6 DEF RemoveExpiredDoc, Exists
  <2> HIDE DEF Moves
  <2> QED BY <1>5, <2>1
<1>7. CASE UpdateEventsReturns
  <2> DEFINE w == Head(saves)
  <2>1. /\ w.copy.event \in Events
        /\ \/ UNCHANGED event
           \/ event' = [event EXCEPT ![w.copy.event].left = w.left,
                                     ![w.copy.event].max = w.max]
    BY <1>0, <1>7, HeadTyped DEF UpdateEventsReturns
  <2> HIDE DEF w
  <2> QED BY <1>0, <1>2, <2>1, NumbersWritten
<1>8. CASE DeleteEventReturns
  <2> DEFINE w == Head(saves)
  <2>1. /\ w.copy.event \in Events /\ w \in Save
        /\ UNCHANGED event \/ event' = [event EXCEPT ![w.copy.event].state = "deleted"]
    BY <1>0, <1>8, HeadTyped DEF DeleteEventReturns
  <2>2. w.copy \in Held
    <3>1. w = saves[1] /\ 1 \in 1 .. Len(saves)
      BY <1>0, <1>8 DEF DeleteEventReturns, TypeOK
    <3> QED BY <3>1, HeldNow
  <2>3. w.copy # NoCopy
    BY <2>1, NoCopyIsNone DEF Save
  <2>4. event[w.copy.event].state # "unused"
    BY <2>2, <2>3 DEF IInv, HeldWereOffered, Offered
  <2> HIDE DEF w, Moves
  <2> QED BY <1>2, <1>5, <2>1, <2>4
<1>9. CASE \/ StartGetEventList \/ GetEventListReturns \/ LeaveForm \/ DeleteEvent
           \/ \E copy \in flist : UpdateFields(copy)
           \/ \E n \in Capacities : UpdateEvents(n)
  BY <1>2, <1>9 DEF StartGetEventList, GetEventListReturns, LeaveForm, DeleteEvent,
     UpdateFields, UpdateEvents
<1> HIDE DEF Moves
<1> QED BY <1>3, <1>4, <1>6, <1>7, <1>8, <1>9 DEF FarmerNext

\* A step of a customer's pages decides nothing: a new call is not counted yet.
LEMMA CustomerMoves ==
  ASSUME IInv, NEW c \in Customers, CustomerNext(c)
  PROVE  SameDocs /\ SameCalls
<1>1. UNCHANGED event
  BY DEF CustomerNext, EnterFarm, FetchEvents, FetchBooked, OpenEvent, RebuildPage,
     ClosePage, BookEvents
<1>2. CASE UNCHANGED call
  BY <1>1, <1>2 DEF SameDocs, SameCalls, SameCall, Counted
<1>3. ASSUME NEW k \in Bookings, BookEvents(c, k)
      PROVE  SameCalls
  <2>1. /\ call[k].step = "idle" /\ call'[k].step = "count"
        /\ \A j \in Bookings \ {k} : call'[j] = call[j]
    BY <1>3 DEF BookEvents, IInv, TypeOK
  <2> QED BY <2>1 DEF SameCalls, SameCall, Counted
<1>4. UNCHANGED call \/ \E k \in Bookings : BookEvents(c, k)
  BY DEF CustomerNext, EnterFarm, FetchEvents, FetchBooked, OpenEvent, RebuildPage,
     ClosePage
<1>5. SameDocs
  BY <1>1 DEF SameDocs
<1> QED BY <1>2, <1>3, <1>4, <1>5

\* The two writes of a booking.
LEMMA BookingMoves ==
  ASSUME IInv, NEW k \in Bookings, CallNext(k)
  PROVE  /\ SameDocs
         /\ \/ CallMoves(k, "count", "add")
            \/ CallMoves(k, "add", "booked")
            \/ CallMoves(k, "add", "lost")
<1>0. TypeOK /\ call \in [Bookings -> Call] /\ call[k] \in Call
  BY DEF IInv, TypeOK
<1>1. ASSUME NEW t, \/ call' = [call EXCEPT ![k].step = t]
                    \/ call' = [call EXCEPT ![k].step = t, ![k].ahead = {}]
      PROVE  /\ call'[k].step = t /\ call'[k].copy = call[k].copy
             /\ \A j \in Bookings \ {k} : SameCall(j)
  <2>1. \/ call'[k] = [call[k] EXCEPT !.step = t]
        \/ call'[k] = [call[k] EXCEPT !.step = t, !.ahead = {}]
    BY <1>0, <1>1
  <2>2. \A j \in Bookings \ {k} : call'[j] = call[j]
    BY <1>0, <1>1
  <2>3. call'[k].step = t /\ call'[k].copy = call[k].copy
    BY <1>0, <2>1 DEF Call
  <2>4. \A j \in Bookings \ {k} : SameCall(j)
    BY <2>2 DEF SameCall, Counted
  <2> QED BY <2>3, <2>4
<1>2. CASE UpdateEventTicketCount(k)
  <2>1. call[k].step = "count" /\ call' = [call EXCEPT ![k].step = "add", ![k].ahead = {}]
    BY <1>2 DEF UpdateEventTicketCount
  <2>2. call[k].copy.event \in Events
    BY <2>1 DEF IInv, TypeOK, HandlersReady, Call, Copy
  <2> DEFINE e == call[k].copy.event
             n == TicketsAfterBooking(call[k].copy)
  <2>3. UNCHANGED event \/ event' = [event EXCEPT ![e].left = n]
    BY <1>2 DEF UpdateEventTicketCount
  <2>4. SameDocs
    <3> HIDE DEF e, n
    <3>1. e \in Events
      BY <2>2 DEF e
    <3> QED BY <1>0, <2>3, <3>1, NumbersWritten DEF SameDocs
  <2>5. CallMoves(k, "count", "add")
    BY <1>1, <2>1 DEF CallMoves
  <2> QED BY <2>4, <2>5
<1>3. CASE AddToBookEvents(k)
  <2>1. /\ UNCHANGED event /\ call[k].step = "add"
        /\ \E t \in {"booked", "lost"} : call' = [call EXCEPT ![k].step = t]
    BY <1>3 DEF AddToBookEvents
  <2>2. CallMoves(k, "add", "booked") \/ CallMoves(k, "add", "lost")
    BY <1>1, <2>1 DEF CallMoves
  <2> QED BY <2>1, <2>2 DEF SameDocs
<1> QED BY <1>2, <1>3 DEF CallNext

-----------------------------------------------------------------------------
(***************************************************************************)
(* The refinement.  Each kind of move is a step of the contract.           *)
(***************************************************************************)
LEMMA DocsInContract ==
  ASSUME SameDocs
  PROVE  /\ {e \in Events : event'[e].state # "unused"}
              = {e \in Events : event[e].state # "unused"}
         /\ {e \in Events : event'[e].state = "live"}
              = {e \in Events : event[e].state = "live"}
         /\ {e \in Events : event'[e].state = "deleted"}
              = {e \in Events : event[e].state = "deleted"}
  BY DEF SameDocs

LEMMA CallsInContract ==
  ASSUME SameCalls
  PROVE  /\ [k \in Bookings |->
              IF call'[k].step \in {"idle", "count"} THEN NoEvent ELSE call'[k].copy.event]
              = [k \in Bookings |->
                  IF call[k].step \in {"idle", "count"} THEN NoEvent ELSE call[k].copy.event]
         /\ {k \in Bookings : call'[k].step = "booked"}
              = {k \in Bookings : call[k].step = "booked"}
         /\ {k \in Bookings : call'[k].step = "lost"}
              = {k \in Bookings : call[k].step = "lost"}
<1>1. \A k \in Bookings :
        (IF call'[k].step \in {"idle", "count"} THEN NoEvent ELSE call'[k].copy.event)
          = IF call[k].step \in {"idle", "count"} THEN NoEvent ELSE call[k].copy.event
  BY DEF SameCalls, SameCall, Counted
<1>2. \A k \in Bookings : /\ call'[k].step = "booked" <=> call[k].step = "booked"
                          /\ call'[k].step = "lost" <=> call[k].step = "lost"
  BY DEF SameCalls, SameCall
<1> QED BY <1>1, <1>2

LEMMA FarmerContract ==
  ASSUME IInv, SameCalls, NEW e \in Events,
         \/ DocMoves(e, {"unused"}, "idless")
         \/ DocMoves(e, {"idless"}, "live")
         \/ DocMoves(e, {"idless", "live"}, "deleted")
  PROVE  Contract!Next
<1>1. CASE DocMoves(e, {"unused"}, "idless")
  <2>1. /\ {x \in Events : event'[x].state # "unused"}
             = {x \in Events : event[x].state # "unused"} \cup {e}
        /\ {x \in Events : event'[x].state = "live"}
             = {x \in Events : event[x].state = "live"}
        /\ {x \in Events : event'[x].state = "deleted"}
             = {x \in Events : event[x].state = "deleted"}
        /\ e \notin {x \in Events : event[x].state # "unused"}
    BY <1>1 DEF DocMoves
  <2>2. Contract!Post(e)
    BY <2>1, CallsInContract DEF Contract!Post
  <2> QED BY <2>2 DEF Contract!Next
<1>2. CASE DocMoves(e, {"idless"}, "live")
  <2>1. /\ {x \in Events : event'[x].state # "unused"}
             = {x \in Events : event[x].state # "unused"}
        /\ {x \in Events : event'[x].state = "live"}
             = {x \in Events : event[x].state = "live"} \cup {e}
        /\ {x \in Events : event'[x].state = "deleted"}
             = {x \in Events : event[x].state = "deleted"}
        /\ e \in {x \in Events : event[x].state # "unused"}
        /\ e \notin {x \in Events : event[x].state = "live"}
        /\ e \notin {x \in Events : event[x].state = "deleted"}
    BY <1>2 DEF DocMoves
  <2>2. Contract!Offer(e)
    BY <2>1, CallsInContract DEF Contract!Offer
  <2> QED BY <2>2 DEF Contract!Next
<1>3. CASE DocMoves(e, {"idless", "live"}, "deleted")
  <2>1. /\ {x \in Events : event'[x].state # "unused"}
             = {x \in Events : event[x].state # "unused"}
        /\ {x \in Events : event'[x].state = "live"}
             = {x \in Events : event[x].state = "live"} \ {e}
        /\ {x \in Events : event'[x].state = "deleted"}
             = {x \in Events : event[x].state = "deleted"} \cup {e}
        /\ e \in {x \in Events : event[x].state # "unused"}
        /\ e \notin {x \in Events : event[x].state = "deleted"}
    BY <1>3 DEF DocMoves
  <2>2. Contract!Remove(e)
    BY <2>1, CallsInContract DEF Contract!Remove
  <2> QED BY <2>2 DEF Contract!Next
<1> QED BY <1>1, <1>2, <1>3

LEMMA BookingContract ==
  ASSUME IInv, SameDocs, NEW k \in Bookings,
         \/ CallMoves(k, "count", "add")
         \/ CallMoves(k, "add", "booked")
         \/ CallMoves(k, "add", "lost")
  PROVE  Contract!Next
<1> DEFINE counted == [j \in Bookings |->
             IF call[j].step \in {"idle", "count"} THEN NoEvent ELSE call[j].copy.event]
           countedNext == [j \in Bookings |->
             IF call'[j].step \in {"idle", "count"} THEN NoEvent ELSE call'[j].copy.event]
           e == call[k].copy.event
<1>1. /\ call[k].step # "idle" /\ call'[k].copy = call[k].copy
      /\ \A j \in Bookings \ {k} : SameCall(j)
  BY DEF CallMoves
<1>2. e \in Events /\ Offered(e)
  <2>1. call[k].copy # NoCopy /\ call[k].copy \in Copy /\ call[k].copy \in Held
    BY <1>1, HeldNow DEF IInv, TypeOK, HandlersReady, Call
  <2> QED BY <2>1 DEF IInv, HeldWereOffered, Copy
<1>3. \A j \in Bookings \ {k} :
        (IF call'[j].step \in {"idle", "count"} THEN NoEvent ELSE call'[j].copy.event)
          = IF call[j].step \in {"idle", "count"} THEN NoEvent ELSE call[j].copy.event
  BY <1>1 DEF SameCall, Counted
<1>4. \A j \in Bookings \ {k} : /\ call'[j].step = "booked" <=> call[j].step = "booked"
                                /\ call'[j].step = "lost" <=> call[j].step = "lost"
  BY <1>1 DEF SameCall
<1>5. CASE CallMoves(k, "count", "add")
  <2>1. counted[k] = NoEvent /\ countedNext = [counted EXCEPT ![k] = e]
    BY <1>1, <1>3, <1>5 DEF CallMoves
  <2>2. /\ {j \in Bookings : call'[j].step = "booked"}
             = {j \in Bookings : call[j].step = "booked"}
        /\ {j \in Bookings : call'[j].step = "lost"}
             = {j \in Bookings : call[j].step = "lost"}
    BY <1>4, <1>5 DEF CallMoves
  <2>3. e \in {x \in Events : event[x].state = "live"}
                \cup {x \in Events : event[x].state = "deleted"}
    BY <1>2 DEF Offered
  <2>4. PICK x \in Events : x = e
    BY <1>2
  <2>5. Contract!Count(k, x)
    BY <2>1, <2>2, <2>3, <2>4, DocsInContract DEF Contract!Count
  <2> QED BY <2>5 DEF Contract!Next
<1>6. CASE CallMoves(k, "add", "booked") \/ CallMoves(k, "add", "lost")
  <2>1. counted[k] # NoEvent /\ countedNext = counted
    BY <1>1, <1>2, <1>3, <1>6, EventAssumption DEF CallMoves
  <2>2. k \notin {j \in Bookings : call[j].step = "booked"}
                   \cup {j \in Bookings : call[j].step = "lost"}
    BY <1>6 DEF CallMoves
  <2>3. Contract!Pending(k)
    BY <2>1, <2>2 DEF Contract!Pending
  <2>4. CASE CallMoves(k, "add", "booked")
    <3>1. /\ {j \in Bookings : call'[j].step = "booked"}
               = {j \in Bookings : call[j].step = "booked"} \cup {k}
          /\ {j \in Bookings : call'[j].step = "lost"}
               = {j \in Bookings : call[j].step = "lost"}
      BY <1>4, <2>4 DEF CallMoves
    <3>2. Contract!Book(k)
      BY <2>1, <2>3, <3>1, DocsInContract DEF Contract!Book
    <3> QED BY <3>2 DEF Contract!Next
  <2>5. CASE CallMoves(k, "add", "lost")
    <3>1. /\ {j \in Bookings : call'[j].step = "booked"}
               = {j \in Bookings : call[j].step = "booked"}
          /\ {j \in Bookings : call'[j].step = "lost"}
               = {j \in Bookings : call[j].step = "lost"} \cup {k}
      BY <1>4, <2>5 DEF CallMoves
    <3>2. Contract!Lose(k)
      BY <2>1, <2>3, <3>1, DocsInContract DEF Contract!Lose
    <3> QED BY <3>2 DEF Contract!Next
  <2> QED BY <1>6, <2>4, <2>5
<1> QED BY <1>5, <1>6

LEMMA StepContract ==
  ASSUME IInv, [Next]_vars
  PROVE  [Contract!Next]_(Contract!contractVars)
<1>1. ASSUME SameDocs, SameCalls
      PROVE  UNCHANGED Contract!contractVars
  BY <1>1, DocsInContract, CallsInContract DEF Contract!contractVars
<1>2. CASE FarmerNext
  BY <1>1, <1>2, FarmerMoves, FarmerContract
<1>3. ASSUME NEW c \in Customers, CustomerNext(c)
      PROVE  UNCHANGED Contract!contractVars
  BY <1>1, <1>3, CustomerMoves
<1>4. ASSUME NEW k \in Bookings, CallNext(k)
      PROVE  Contract!Next
  BY <1>4, BookingMoves, BookingContract
<1>5. CASE UNCHANGED vars
  <2>1. UNCHANGED <<event, call>>
    BY <1>5 DEF vars, customerVars
  <2> QED BY <1>1, <2>1 DEF SameDocs, SameCalls, SameCall, Counted
<1> QED BY <1>2, <1>3, <1>4, <1>5 DEF Next

(***************************************************************************)
(* The devices implement EventContract: a removed event is never revived   *)
(* by a late update, a booking is counted once against an event that was   *)
(* offered and settled once, and nobody books or deletes what was never    *)
(* offered (event_controller.dart:220-289, product_contoller.dart:161-166).*)
(***************************************************************************)
THEOREM Refinement == Spec => KeepsContract
<1>1. Init => Contract!Init
  <2> SUFFICES ASSUME Init PROVE Contract!Init
    OBVIOUS
  <2>1. \A e \in Events : event[e].state = "unused"
    BY DEF Init
  <2>2. \A k \in Bookings : call[k].step = "idle"
    BY DEF Init, NoCall
  <2> QED BY <2>1, <2>2 DEF Contract!Init
<1>2. IInv /\ [Next]_vars => [Contract!Next]_(Contract!contractVars)
  BY StepContract
<1> QED BY <1>1, <1>2, IInvInit, IInvStep, PTL DEF Spec, KeepsContract, Contract!Spec

-----------------------------------------------------------------------------
(***************************************************************************)
(* The form asks for the "Maximum number of visitors"                      *)
(* (event_widgets.dart:32), which NoOversell refutes in general.  It is    *)
(* kept as long as every count was written from a copy still current:      *)
(* overselling needs a stale copy, a failed count write, or a capacity     *)
(* lowered below what is sold.                                             *)
(***************************************************************************)
THEOREM OversellNeedsStaleCopy ==
  Spec => [](\A e \in Events :
               Exists(e) /\ fresh[e] => Cardinality(Booked(e)) <= event[e].max)
<1>1. IInv => \A e \in Events :
                Exists(e) /\ fresh[e] => Cardinality(Booked(e)) <= event[e].max
  <2> SUFFICES ASSUME IInv, NEW e \in Events, Exists(e), fresh[e]
               PROVE  Cardinality(Booked(e)) <= event[e].max
    OBVIOUS
  <2>1. event[e].left + Cardinality(Spent(e)) <= event[e].max
    BY DEF IInv, WithinCapacity
  <2>2. event[e].left \in Nat /\ event[e].max \in Nat
    BY DEF IInv, TypeOK, Doc
  <2>3. IsFiniteSet(Spent(e)) /\ Booked(e) \subseteq Spent(e)
    <3>1. Spent(e) \subseteq Bookings /\ Booked(e) \subseteq Spent(e)
      BY DEF Spent, Booked
    <3> QED BY <3>1, EventAssumption, FS_Subset
  <2>4. /\ Cardinality(Spent(e)) \in Nat /\ Cardinality(Booked(e)) \in Nat
        /\ Cardinality(Booked(e)) <= Cardinality(Spent(e))
    BY <2>3, FS_Subset, FS_CardinalityType
  <2> QED BY <2>1, <2>2, <2>4
<1> QED BY <1>1, IInvInit, IInvStep, PTL DEF Spec

=============================================================================
