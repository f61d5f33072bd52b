------------------------------ MODULE CartPage ------------------------------
(***************************************************************************)
(* MyCartController on a customer's device: filling the cart, changing     *)
(* quantities, and the checkout.                                           *)
(*                                                                         *)
(* A device is a sequential Dart isolate: an action runs to its next       *)
(* await.  myCartList is a list of shared mutable Product objects, and     *)
(* getCartProducts empties it in place at once and replaces it when its    *)
(* answer arrives.  What runs unawaited keeps its reference: a             *)
(* validateQuantity to its object, updateProduct to its iterator, which    *)
(* throws once the list it iterates has been emptied.                      *)
(*                                                                         *)
(* One controller serves a device all the time; its opening is a refresh.  *)
(* Delivery date, time and address are taken as filled in.                 *)
(***************************************************************************)
EXTENDS ProductStore

CONSTANT MaxTaps  \* bound on what one customer does in his cart

ASSUME TapAssumption == MaxTaps \in Nat

VARIABLES
  list,     \* [Customers -> SUBSET Item], myCartList
  late,     \* [Customers -> SUBSET Item], objects that left the list while
            \* their validateQuantity was waiting for the stock
  fetches,  \* [Customers -> [FetchStage -> Nat]], how many getCartProducts
            \* have not returned, by what they have read so far
  op,       \* [Customers -> Op], the button handler that has not returned
  taps,     \* [Customers -> 0 .. MaxTaps]
  stage,    \* [Customers -> Stage], where placeOrder() is
  owed,     \* [Customers -> [Products -> Int]], history: the quantities of
            \* the order being checked out, minus what was taken for it
  placed,   \* [Customers -> BOOLEAN], history: that order's document exists
  moved,    \* [Customers -> BOOLEAN], history: the list was emptied or
            \* replaced while that order was being placed, or a quantity
            \* handler changed an item that updateProduct had yet to reach
  todo,     \* [Customers -> SUBSET Item], items updateProduct has not reached
  tied,     \* [Customers -> BOOLEAN], updateProduct iterates the current list
  taking,   \* [Customers -> Taking], the updateProductQty under way
  crossed   \* [Customers -> BOOLEAN], history: when the cart was last deleted,
            \* a fetch had already found it and would read the items below it

pageVars == <<list, late, fetches, op, taps>>
checkoutVars == <<stage, owed, placed, moved, todo, tied, taking, crossed>>
cartPageVars == <<pageVars, checkoutVars>>

\* A Product object; id 0 is the empty id of a product added on the product
\* page; checking: a validateQuantity of it waits for the stock.
Item == [id : 0 .. MaxItems, prod : Products, qty : CartQty, checking : BOOLEAN]

Op ==
  [kind : {"none", "reload"}]
    \cup [kind : {"add"}, prod : Products, qty : Nat]
    \cup [kind : {"set"}, item : Item, qty : Int]
    \cup [kind : {"drop", "sweep"}, id : 0 .. MaxItems]

NoOp == [kind |-> "none"]
ReloadNext == [kind |-> "reload"]

\* An updateProductQty: what it was called with, has it read the stock, what
\* it found (left), and has the farmer edited the product since (old).
Taking ==
  [on : {FALSE}]
    \cup [on : {TRUE}, prod : Products, qty : CartQty,
          read : BOOLEAN, left : Nat, old : BOOLEAN]

NoTaking == [on |-> FALSE]

Stage == {"idle", "placing", "emptying", "dialog"}

\* A fetch is to read the cart's documents; has found the cart and is to read
\* its items; or has found nothing and will show an empty cart.
FetchStage == {"cart", "items", "nothing"}

NoFetch == [f \in FetchStage |-> 0]

CartPageTypeOK ==
  /\ list \in [Customers -> SUBSET Item]
  /\ late \in [Customers -> SUBSET Item]
  /\ fetches \in [Customers -> [FetchStage -> Nat]]
  /\ op \in [Customers -> Op]
  /\ taps \in [Customers -> 0 .. MaxTaps]
  /\ stage \in [Customers -> Stage]
  /\ owed \in [Customers -> [Products -> Int]]
  /\ placed \in [Customers -> BOOLEAN]
  /\ moved \in [Customers -> BOOLEAN]
  /\ todo \in [Customers -> SUBSET Item]
  /\ tied \in [Customers -> BOOLEAN]
  /\ taking \in [Customers -> Taking]
  /\ crossed \in [Customers -> BOOLEAN]

CartPageInit ==
  /\ list = [c \in Customers |-> {}]
  /\ late = [c \in Customers |-> {}]
  /\ fetches = [c \in Customers |-> NoFetch]
  /\ op = [c \in Customers |-> NoOp]
  /\ taps = [c \in Customers |-> 0]
  /\ stage = [c \in Customers |-> "idle"]
  /\ owed = [c \in Customers |-> [p \in Products |-> 0]]
  /\ placed = [c \in Customers |-> FALSE]
  /\ moved = [c \in Customers |-> FALSE]
  /\ todo = [c \in Customers |-> {}]
  /\ tied = [c \in Customers |-> FALSE]
  /\ taking = [c \in Customers |-> NoTaking]
  /\ crossed = [c \in Customers |-> FALSE]

----------------------------------------------------------------------------
\* Product objects are shared: what is done to object i shows in every set
\* that holds it, and in the handler that works on it.
Subst(S, i, j) == IF i \in S THEN (S \ {i}) \cup {j} ELSE S

SubstOp(o, i, j) ==
  IF o.kind = "set" THEN [o EXCEPT !.item = IF @ = i THEN j ELSE @] ELSE o

\* The synchronous part of getCartProducts: the list is emptied in place,
\* which breaks an updateProduct that iterates it, and the fetch is on its
\* way.  Just before it the caller has turned object i into j.
ReloadWith(c, i, j) ==
  /\ list' = [list EXCEPT ![c] = {}]
  /\ late' = [late EXCEPT ![c] =
         {k \in Subst(@, i, j) \cup Subst(list[c], i, j) : k.checking}]
  /\ fetches' = [fetches EXCEPT ![c]["cart"] = @ + 1]
  /\ todo' = [todo EXCEPT ![c] = IF tied[c] THEN {} ELSE Subst(@, i, j)]
  /\ moved' = [moved EXCEPT ![c] =
         @ \/ stage[c] = "placing" \/ (~tied[c] /\ i \in todo[c])]
  /\ UNCHANGED <<stage, owed, placed, tied, taking, crossed>>

Reload(c) == ReloadWith(c, NoDoc, NoDoc)

\* fetchCustomerCartProducts awaits one read after the other, and a device's
\* own steps come between them.
FetchMoves(c, from, to) ==
  /\ fetches[c][from] > 0
  /\ fetches' = [fetches EXCEPT ![c][from] = @ - 1, ![c][to] = @ + 1]
  /\ UNCHANGED <<productVars, cartVars, list, late, op, taps, checkoutVars>>

\* Mutant of ReadCart: the items are read without asking for their cart.
ReadCartUnasked(c) ==
  \/ FetchMoves(c, "cart", "items") /\ Succeeds
  \/ FetchMoves(c, "cart", "nothing") /\ Fails

\* fetchInitialCart's read of the cart documents.
ReadCart(c) ==
  \/ FetchMoves(c, "cart", IF parent[c] THEN "items" ELSE "nothing") /\ Succeeds
  \/ FetchMoves(c, "cart", "nothing") /\ Fails

\* Its read of the items of the cart it found: with none, or failing, the
\* fetch goes on with the id null, below which there is nothing.  With some
\* it reads them again, which changes nothing that its second read, Land,
\* does not see.
FindNothing(c) ==
  /\ FetchMoves(c, "items", "nothing")
  /\ (InCart(c) = {} /\ Succeeds) \/ Fails

\* The answer of getCartProducts: the list becomes one object per product
\* (`kept'), each validated without awaiting it, and the documents of
\* duplicates are deleted.  A failed fetch shows an empty cart.
NewList(c, f, ids) ==
  /\ fetches[c][f] > 0
  /\ fetches' = [fetches EXCEPT ![c][f] = @ - 1]
  /\ list' = [list EXCEPT ![c] =
         {[id |-> i, prod |-> cart[c][i].prod, qty |-> cart[c][i].qty,
           checking |-> TRUE] : i \in ids}]
  /\ late' = [late EXCEPT ![c] = @ \cup {i \in list[c] : i.checking}]
  /\ tied' = [tied EXCEPT ![c] = FALSE]
  /\ moved' = [moved EXCEPT ![c] = @ \/ stage[c] = "placing"]
  /\ UNCHANGED <<op, taps, stage, owed, placed, todo, taking, crossed>>

\* Its last read has returned.
Land(c) ==
  /\ \E kept \in SUBSET InCart(c) :
       /\ \A i \in InCart(c) :
            \E k \in kept : cart[c][k].prod = cart[c][i].prod
       /\ \A j, k \in kept : cart[c][j].prod = cart[c][k].prod => j = k
       /\ NewList(c, "items", kept)
       /\ DropDocs(c, InCart(c) \ kept)
  /\ Succeeds
  /\ UNCHANGED <<productVars, parent, nextId>>

LandEmpty(c) ==
  /\ \/ NewList(c, "nothing", {}) /\ Succeeds
     \/ NewList(c, "items", {}) /\ Fails
  /\ UNCHANGED <<productVars, cartVars>>

\* Mutant of Validated: `<' for `>', quantities are raised to the stock.
ValidatedSwapped(c, i, n) ==
  LET v == IF i.qty < n THEN n ELSE i.qty
      j == [i EXCEPT !.qty = v, !.checking = FALSE]
  IN /\ list' = [list EXCEPT ![c] = Subst(@, i, j)]
     /\ late' = [late EXCEPT ![c] = @ \ {i}]
     /\ todo' = [todo EXCEPT ![c] = Subst(@, i, j)]
     /\ op' = [op EXCEPT ![c] = SubstOp(@, i, j)]
     /\ PutDoc(c, i.id, i.prod, v)
     /\ UNCHANGED <<productVars, parent, nextId, fetches, taps,
                    stage, owed, placed, moved, tied, taking, crossed>>

\* validateQuantity after its read found the total quantity n: the object is
\* capped at n, wherever it is, and written to the cart, in the cart or not.
Validated(c, i, n) ==
  LET v == IF i.qty > n THEN n ELSE i.qty
      j == [i EXCEPT !.qty = v, !.checking = FALSE]
  IN /\ list' = [list EXCEPT ![c] = Subst(@, i, j)]
     /\ late' = [late EXCEPT ![c] = @ \ {i}]
     /\ todo' = [todo EXCEPT ![c] = Subst(@, i, j)]
     /\ op' = [op EXCEPT ![c] = SubstOp(@, i, j)]
     /\ PutDoc(c, i.id, i.prod, v)
     /\ UNCHANGED <<productVars, parent, nextId, fetches, taps,
                    stage, owed, placed, moved, tied, taking, crossed>>

Validate(c, i) ==
  /\ i.checking
  /\ \E n \in {TotalQty(i.prod), -1} :
       ReadsTotal(i.prod, n) /\ Validated(c, i, n)

----------------------------------------------------------------------------
\* The customer's buttons.  One handler is under way at a time, the checkout
\* apart: the loading mask is one shared overlay, which whoever is done first
\* removes, so the cart page can be used during a checkout and the checkout
\* started while a handler is under way.  Products are added, on the product
\* page, only outside a checkout.

Tap(c) ==
  /\ taps[c] < MaxTaps
  /\ taps' = [taps EXCEPT ![c] = @ + 1]

\* Pull to refresh, or opening the cart.
Refresh(c) ==
  /\ Tap(c)
  /\ op[c] = NoOp
  /\ Reload(c)
  /\ UNCHANGED <<storeVars, op>>

\* addToCart of n pieces.  The product page holds a copy of the product from
\* any earlier time, which bounds n by no stock there is now (MaxAdd does).
\* The object is new for the list if the list has no such product with an id.
AddNew(c, p, n) ==
  /\ Tap(c)
  /\ stage[c] = "idle"
  /\ op[c] = NoOp
  /\ product[p].status # "none"
  /\ nextId[c] <= MaxItems \/ \E i \in InCart(c) : cart[c][i].prod = p
  /\ \A i \in list[c] : i.prod = p => i.id = 0
  /\ list' = [list EXCEPT ![c] =
         @ \cup {[id |-> 0, prod |-> p, qty |-> n, checking |-> FALSE]}]
  /\ parent' = [parent EXCEPT ![c] = TRUE]
  /\ op' = [op EXCEPT ![c] = [kind |-> "add", prod |-> p, qty |-> n]]
  /\ UNCHANGED <<productVars, cart, nextId, upsets, late, fetches, checkoutVars>>

\* Otherwise its quantity is raised; updateProductInCart reloads the list
\* first and then writes.
AddMore(c, i, n) ==
  /\ Tap(c)
  /\ stage[c] = "idle"
  /\ op[c] = NoOp
  /\ i.id # 0
  /\ LET j == [i EXCEPT !.qty = @ + n] IN
       /\ ReloadWith(c, i, j)
       /\ PutDoc(c, i.id, i.prod, j.qty)
  /\ op' = [op EXCEPT ![c] = ReloadNext]
  /\ UNCHANGED <<productVars, parent, nextId, upsets>>

\* addProductsToCart after its first await, or failing there.
AddWrite(c) ==
  /\ op[c].kind = "add"
  /\ \/ AddDoc(c, op[c].prod, op[c].qty) /\ Succeeds
     \/ UNCHANGED <<cart, nextId>> /\ Fails
  /\ op' = [op EXCEPT ![c] = ReloadNext]
  /\ UNCHANGED <<productVars, parent, list, late, fetches, taps, checkoutVars>>

\* The getCartProducts with which addToCart and updateQuantity end.
ReloadLast(c) ==
  /\ op[c] = ReloadNext
  /\ Reload(c)
  /\ op' = [op EXCEPT ![c] = NoOp]
  /\ UNCHANGED <<storeVars, taps>>

\* The - and + buttons: updateQuantity up to its read of the stock.
SetQty(c, i, q) ==
  /\ Tap(c)
  /\ op[c] = NoOp
  /\ q \in {i.qty - 1, i.qty + 1}
  /\ op' = [op EXCEPT ![c] = [kind |-> "set", item |-> i, qty |-> q]]
  /\ UNCHANGED <<storeVars, list, late, fetches, checkoutVars>>

\* What it does when the stock is known to be n.
SetRefused(c, n) ==
  /\ op[c].qty > n
  /\ op' = [op EXCEPT ![c] = NoOp]
  /\ UNCHANGED <<cart, list, late, fetches, checkoutVars>>

SetWritten(c, n) ==
  LET i == op[c].item
  IN /\ op[c].qty <= n
     /\ op[c].qty > 0
     /\ ReloadWith(c, i, [i EXCEPT !.qty = op[c].qty])
     /\ PutDoc(c, i.id, i.prod, op[c].qty)
     /\ op' = [op EXCEPT ![c] = ReloadNext]

\* removeFromCart deletes the document now and once more after its await; it
\* does nothing if the list no longer has the item.
SetRemoved(c, n) ==
  LET id == op[c].item.id
      found == \E i \in list[c] : i.id = id
  IN /\ op[c].qty <= n
     /\ op[c].qty <= 0
     /\ DropDocs(c, IF found THEN {id} ELSE {})
     /\ Reload(c)
     /\ op' = [op EXCEPT ![c] =
                   IF found THEN [kind |-> "drop", id |-> id] ELSE NoOp]

SetAnswered(c) ==
  /\ op[c].kind = "set"
  /\ \E n \in {TotalQty(op[c].item.prod), -1} :
       /\ ReadsTotal(op[c].item.prod, n)
       /\ SetRefused(c, n) \/ SetWritten(c, n) \/ SetRemoved(c, n)
  /\ UNCHANGED <<productVars, parent, nextId, taps>>

DropAgain(c) ==
  /\ op[c].kind = "drop"
  /\ DropDocs(c, {op[c].id})
  /\ op' = [op EXCEPT ![c].kind = "sweep"]
  /\ UNCHANGED <<productVars, parent, nextId, upsets, list, late, fetches, taps,
                 checkoutVars>>

\* The end of removeFromCart, after its second deletion: whatever has this id
\* leaves the list, which a reload may have filled meanwhile.
Sweep(c) ==
  /\ op[c].kind = "sweep"
  /\ list' = [list EXCEPT ![c] = {i \in @ : i.id # op[c].id}]
  /\ late' = [late EXCEPT ![c] =
         @ \cup {i \in list[c] : i.id = op[c].id /\ i.checking}]
  /\ op' = [op EXCEPT ![c] = NoOp]
  /\ todo' = [todo EXCEPT ![c] =
         IF tied[c] /\ list'[c] # list[c] THEN {} ELSE @]
  /\ moved' = [moved EXCEPT ![c] =
         @ \/ (stage[c] = "placing" /\ list'[c] # list[c])]
  /\ UNCHANGED <<storeVars, fetches, taps, stage, owed, placed, tied, taking,
                 crossed>>

----------------------------------------------------------------------------
\* The checkout: placeOrder().

\* The stock that an order of this list asks of a product.
Ordered(items, p) ==
  IF \E i \in items : i.prod = p
  THEN AtLeast0((CHOOSE i \in items : i.prod = p).qty)
  ELSE 0

\* Mutant of Complete: an empty cart is not refused.
CompleteUnchecked(c) ==
  /\ Tap(c)
  /\ stage[c] = "idle"
  /\ todo[c] = {}
  /\ taking[c] = NoTaking
  /\ stage' = [stage EXCEPT ![c] = "placing"]
  /\ owed' = [owed EXCEPT ![c] = [p \in Products |-> Ordered(list[c], p)]]
  /\ placed' = [placed EXCEPT ![c] = FALSE]
  /\ moved' = [moved EXCEPT ![c] = FALSE]
  /\ UNCHANGED <<storeVars, list, late, fetches, op, todo, tied, taking, crossed>>

\* postOrderComplete up to the call that places the order.  It reads the
\* stock of every item into the order but compares it with nothing.  The
\* updateProduct of an earlier checkout is over by then.
Complete(c) ==
  /\ Tap(c)
  /\ stage[c] = "idle"
  /\ list[c] # {}
  /\ todo[c] = {}
  /\ taking[c] = NoTaking
  /\ stage' = [stage EXCEPT ![c] = "placing"]
  /\ owed' = [owed EXCEPT ![c] = [p \in Products |-> Ordered(list[c], p)]]
  /\ placed' = [placed EXCEPT ![c] = FALSE]
  /\ moved' = [moved EXCEPT ![c] = FALSE]
  /\ UNCHANGED <<storeVars, list, late, fetches, op, todo, tied, taking, crossed>>

\* FirebaseHelper.placeOrder has returned, with the order's id or, failing,
\* with the empty id, which is not told apart.  Then myCartList.first throws
\* if the list has been emptied meanwhile, and the customer is told to try
\* again; otherwise updateProduct starts on the list as it is now.
Placed(c) ==
  /\ stage[c] = "placing"
  /\ \/ placed' = [placed EXCEPT ![c] = TRUE] /\ Succeeds
     \/ UNCHANGED placed /\ Fails
  /\ stage' = [stage EXCEPT ![c] = IF list[c] = {} THEN "idle" ELSE "emptying"]
  /\ todo' = [todo EXCEPT ![c] = IF list[c] = {} THEN @ ELSE list[c]]
  /\ tied' = [tied EXCEPT ![c] = IF list[c] = {} THEN @ ELSE TRUE]
  /\ UNCHANGED <<productVars, cartVars, pageVars, owed, moved, taking, crossed>>

\* cartDelete: the cart document is deleted; the documents below it stay.
EmptyCart(c) ==
  /\ stage[c] = "emptying"
  /\ \/ /\ parent' = [parent EXCEPT ![c] = FALSE]
        /\ crossed' = [crossed EXCEPT ![c] = fetches[c]["items"] > 0]
        /\ Succeeds
     \/ UNCHANGED <<parent, crossed>> /\ Fails
  /\ stage' = [stage EXCEPT ![c] = "dialog"]
  /\ UNCHANGED <<productVars, cart, nextId, pageVars,
                 owed, placed, moved, todo, tied, taking>>

\* The next iteration of updateProduct, to its await: the quantity passed on
\* is the object's at the call.
TakeNext(c, i) ==
  /\ taking[c] = NoTaking
  /\ todo' = [todo EXCEPT ![c] = @ \ {i}]
  /\ taking' = [taking EXCEPT ![c] =
         [on |-> TRUE, prod |-> i.prod, qty |-> i.qty,
          read |-> FALSE, left |-> 0, old |-> FALSE]]
  /\ UNCHANGED <<storeVars, pageVars, stage, owed, placed, moved, tied, crossed>>

\* updateProductQty reads the stock; it gives up if the product is not there
\* or the read fails.
TakeRead(c) ==
  LET t == taking[c] IN
  /\ t.on /\ ~t.read
  /\ \/ /\ Listed(t.prod)
        /\ taking' = [taking EXCEPT ![c] =
               [t EXCEPT !.read = TRUE, !.left = product[t.prod].qty]]
        /\ Succeeds
     \/ /\ taking' = [taking EXCEPT ![c] = NoTaking]
        /\ (~Listed(t.prod) /\ Succeeds) \/ Fails
  /\ UNCHANGED <<productVars, cartVars, pageVars,
                 stage, owed, placed, moved, todo, tied, crossed>>

\* Mutant of TakeWrite: a failed update is retried although it took effect.
TakeWriteRetried(c) ==
  LET t == taking[c] IN
  /\ t.on /\ t.read
  /\ WriteStock(t.prod, t.left, t.qty, t.old)
  /\ owed' = [owed EXCEPT ![c][t.prod] = @ - AtLeast0(t.qty)]
  /\ \/ taking' = [taking EXCEPT ![c] = NoTaking] /\ Succeeds
     \/ UNCHANGED taking /\ Fails
  /\ UNCHANGED <<cartVars, pageVars, stage, placed, moved, todo, tied, crossed>>

\* It writes what is left of what it read.
TakeWrite(c) ==
  LET t == taking[c] IN
  /\ t.on /\ t.read
  /\ \/ /\ WriteStock(t.prod, t.left, t.qty, t.old)
        /\ owed' = [owed EXCEPT ![c][t.prod] = @ - AtLeast0(t.qty)]
        /\ Succeeds
     \/ UNCHANGED <<productVars, owed>> /\ Fails
  /\ taking' = [taking EXCEPT ![c] = NoTaking]
  /\ UNCHANGED <<cartVars, pageVars, stage, placed, moved, todo, tied, crossed>>

\* Five seconds later: the list is emptied in place and the page is left.
Finish(c) ==
  /\ stage[c] = "dialog"
  /\ stage' = [stage EXCEPT ![c] = "idle"]
  /\ list' = [list EXCEPT ![c] = {}]
  /\ late' = [late EXCEPT ![c] = @ \cup {i \in list[c] : i.checking}]
  /\ todo' = [todo EXCEPT ![c] = IF tied[c] THEN {} ELSE @]
  /\ UNCHANGED <<storeVars, fetches, op, taps, owed, placed, moved, tied, taking,
                 crossed>>

=============================================================================
