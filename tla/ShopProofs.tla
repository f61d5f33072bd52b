----------------------------- MODULE ShopProofs -----------------------------
(***************************************************************************)
(* Proofs about Shop, for any number of customers and products and any     *)
(* bounds.                                                                 *)
(***************************************************************************)
EXTENDS Shop, TLAPS

----------------------------------------------------------------------------
\* Lemmas about the operators.

LEMMA AtLeast0Nat == \A n \in Int : AtLeast0(n) \in Nat /\ AtLeast0(n) >= n
BY DEF AtLeast0

LEMMA AtLeast0Monotone ==
  \A m, n \in Int : m <= n => AtLeast0(m) <= AtLeast0(n)
BY DEF AtLeast0

\* A capped or changed object is an object again.
LEMMA ItemQty ==
  ASSUME NEW i \in Item, NEW q \in CartQty
  PROVE  /\ [i EXCEPT !.qty = q] \in Item
         /\ [i EXCEPT !.qty = q, !.checking = FALSE] \in Item
         /\ [i EXCEPT !.qty = q].prod = i.prod
         /\ [i EXCEPT !.qty = q, !.checking = FALSE].prod = i.prod
         /\ [i EXCEPT !.qty = q].id = i.id
         /\ [i EXCEPT !.qty = q, !.checking = FALSE].id = i.id
         /\ [i EXCEPT !.qty = q].qty = q
         /\ [i EXCEPT !.qty = q, !.checking = FALSE].qty = q
BY DEF Item

LEMMA SubstItems ==
  ASSUME NEW S \in SUBSET Item, NEW i, NEW j, j \in Item \/ i = j
  PROVE  Subst(S, i, j) \in SUBSET Item
BY DEF Subst

LEMMA SubstSelf == \A S, i : Subst(S, i, i) = S
BY DEF Subst

\* Whatever a read of the stock answers is a quantity a cart may hold.
LEMMA TotalQtyType ==
  ASSUME TypeOK, NEW p \in Products
  PROVE  TotalQty(p) \in CartQty /\ -1 \in CartQty
<1>1. product[p] \in Product
  BY DEF TypeOK, StoreTypeOK
<1> QED
  BY <1>1 DEF TotalQty, Product, CartQty

----------------------------------------------------------------------------
\* Type correctness.

\* The variables that getCartProducts and its answer change.
ListTypeOK ==
  /\ list \in [Customers -> SUBSET Item]
  /\ late \in [Customers -> SUBSET Item]
  /\ fetches \in [Customers -> [FetchStage -> Nat]]
  /\ stage \in [Customers -> Stage]
  /\ owed \in [Customers -> [Products -> Int]]
  /\ placed \in [Customers -> BOOLEAN]
  /\ moved \in [Customers -> BOOLEAN]
  /\ todo \in [Customers -> SUBSET Item]
  /\ tied \in [Customers -> BOOLEAN]
  /\ taking \in [Customers -> Taking]
  /\ crossed \in [Customers -> BOOLEAN]

ButtonTypeOK ==
  /\ op \in [Customers -> Op]
  /\ taps \in [Customers -> 0 .. MaxTaps]

LEMMA CartPageTypeParts == CartPageTypeOK <=> ListTypeOK /\ ButtonTypeOK
BY DEF CartPageTypeOK, ListTypeOK, ButtonTypeOK

LEMMA CartPageTypeParts2 == CartPageTypeOK' <=> ListTypeOK' /\ ButtonTypeOK'
BY DEF CartPageTypeOK, ListTypeOK, ButtonTypeOK

LEMMA ReloadType ==
  ASSUME ListTypeOK, NEW c \in Customers, NEW i, NEW j, j \in Item \/ i = j,
         ReloadWith(c, i, j)
  PROVE  ListTypeOK'
<1>1. Subst(late[c], i, j) \in SUBSET Item /\ Subst(list[c], i, j) \in SUBSET Item
      /\ Subst(todo[c], i, j) \in SUBSET Item
  BY SubstItems DEF ListTypeOK
<1>2. list' \in [Customers -> SUBSET Item]
  BY DEF ListTypeOK, ReloadWith
<1>3. late' \in [Customers -> SUBSET Item]
  BY <1>1 DEF ListTypeOK, ReloadWith
<1>4. fetches' \in [Customers -> [FetchStage -> Nat]]
  BY DEF ListTypeOK, ReloadWith, FetchStage
<1>5. todo' \in [Customers -> SUBSET Item]
  BY <1>1 DEF ListTypeOK, ReloadWith
<1>6. moved' \in [Customers -> BOOLEAN]
  BY DEF ListTypeOK, ReloadWith
<1> QED
  BY <1>2, <1>3, <1>4, <1>5, <1>6 DEF ListTypeOK, ReloadWith

LEMMA DocType ==
  ASSUME StoreTypeOK, NEW c \in Customers, NEW id, NEW p \in Products,
         NEW n \in CartQty, PutDoc(c, id, p, n)
  PROVE  cart' \in [Customers -> [Ids -> CartDoc \cup {NoDoc}]]
<1>1. [prod |-> p, qty |-> n] \in CartDoc
  BY DEF CartDoc
<1> QED
  BY <1>1 DEF StoreTypeOK, PutDoc

LEMMA DropType ==
  ASSUME StoreTypeOK, NEW c \in Customers, NEW ids, DropDocs(c, ids)
  PROVE  cart' \in [Customers -> [Ids -> CartDoc \cup {NoDoc}]]
<1>1. [i \in Ids |-> IF i \in ids THEN NoDoc ELSE cart[c][i]]
        \in [Ids -> CartDoc \cup {NoDoc}]
  BY DEF StoreTypeOK
<1> QED
  BY <1>1 DEF StoreTypeOK, DropDocs

LEMMA UpsetType ==
  ASSUME StoreTypeOK, Succeeds \/ Fails \/ Upset
  PROVE  upsets' \in 0 .. MaxUpsets
BY StoreAssumption DEF StoreTypeOK, Succeeds, Fails, Upset

LEMMA NewListType ==
  ASSUME ListTypeOK, StoreTypeOK, NEW c \in Customers, NEW f \in FetchStage,
         NEW ids \in SUBSET InCart(c), NewList(c, f, ids)
  PROVE  ListTypeOK' /\ UNCHANGED <<op, taps>>
<1>1. \A i \in ids : i \in Ids /\ cart[c][i] \in CartDoc
  BY DEF InCart, StoreTypeOK
<1>2. \A i \in ids : [id |-> i, prod |-> cart[c][i].prod,
                      qty |-> cart[c][i].qty, checking |-> TRUE] \in Item
  BY <1>1, StoreAssumption DEF Item, CartDoc, Ids
<1>3. {[id |-> i, prod |-> cart[c][i].prod, qty |-> cart[c][i].qty,
        checking |-> TRUE] : i \in ids} \in SUBSET Item
  BY <1>2
<1>4. list' \in [Customers -> SUBSET Item]
  BY <1>3 DEF ListTypeOK, NewList
<1>5. late' \in [Customers -> SUBSET Item]
  BY DEF ListTypeOK, NewList
<1>6. fetches' \in [Customers -> [FetchStage -> Nat]]
  <2>1. fetches[c][f] - 1 \in Nat
    BY DEF ListTypeOK, NewList
  <2> QED
    BY <2>1 DEF ListTypeOK, NewList
<1>7. tied' \in [Customers -> BOOLEAN] /\ moved' \in [Customers -> BOOLEAN]
  BY DEF ListTypeOK, NewList
<1> QED
  BY <1>4, <1>5, <1>6, <1>7 DEF ListTypeOK, NewList

\* The customer's device.  Each lemma: one action keeps the types of the
\* store and of the cart page.

LEMMA FetchMovesTypes ==
  ASSUME TypeOK, NEW c \in Customers, ReadCart(c) \/ FindNothing(c)
  PROVE  StoreTypeOK' /\ CartPageTypeOK'
<1>1. PICK from \in FetchStage, to \in FetchStage :
        FetchMoves(c, from, to) /\ (Succeeds \/ Fails)
  BY DEF ReadCart, FindNothing, FetchStage
<1>2. fetches' \in [Customers -> [FetchStage -> Nat]]
  <2>1. fetches[c] \in [FetchStage -> Nat] /\ fetches[c][from] - 1 \in Nat
    BY <1>1 DEF TypeOK, CartPageTypeOK, FetchMoves
  <2>2. fetches[c][to] + 1 \in Nat
    BY <2>1
  <2> QED
    BY <1>1, <2>1, <2>2 DEF TypeOK, CartPageTypeOK, FetchMoves
<1>3. CartPageTypeOK'
  BY <1>1, <1>2 DEF TypeOK, CartPageTypeOK, FetchMoves, checkoutVars
<1>4. StoreTypeOK'
  BY <1>1, UpsetType DEF TypeOK, StoreTypeOK, FetchMoves, productVars, cartVars
<1> QED
  BY <1>3, <1>4

LEMMA LandTypes ==
  ASSUME TypeOK, NEW c \in Customers, Land(c) \/ LandEmpty(c)
  PROVE  StoreTypeOK' /\ CartPageTypeOK'
<1> USE DEF TypeOK, FetchStage
<1>1. CASE Land(c)
  <2>1. PICK kept \in SUBSET InCart(c) :
          NewList(c, "items", kept) /\ DropDocs(c, InCart(c) \ kept)
    BY <1>1 DEF Land
  <2>2. ListTypeOK' /\ UNCHANGED <<op, taps>>
    <3>1. UNCHANGED <<op, taps>>
      BY <2>1 DEF NewList
    <3> QED
      BY <2>1, <3>1, NewListType, CartPageTypeParts
  <2>3. StoreTypeOK'
    BY <1>1, <2>1, DropType, UpsetType DEF Land, StoreTypeOK, productVars
  <2> QED
    BY <2>2, <2>3, CartPageTypeParts, CartPageTypeParts2 DEF ButtonTypeOK
<1>2. CASE LandEmpty(c)
  <2>1. PICK f \in FetchStage : NewList(c, f, {}) /\ (Succeeds \/ Fails)
    BY <1>2 DEF LandEmpty
  <2>2. ListTypeOK' /\ UNCHANGED <<op, taps>>
    <3>1. {} \in SUBSET InCart(c)
      OBVIOUS
    <3> QED
      BY <2>1, <3>1, NewListType, CartPageTypeParts
  <2>3. StoreTypeOK'
    BY <1>2, <2>1, UpsetType DEF LandEmpty, StoreTypeOK, productVars, cartVars
  <2> QED
    BY <2>2, <2>3, CartPageTypeParts, CartPageTypeParts2 DEF ButtonTypeOK
<1> QED
  BY <1>1, <1>2

\* A handler stays a handler when its object is changed.
LEMMA SubstOpType ==
  ASSUME NEW o \in Op, NEW i, NEW j \in Item
  PROVE  SubstOp(o, i, j) \in Op /\ SubstOp(o, i, j).kind = o.kind
<1>1. CASE o.kind = "set"
  <2>1. o \in [kind : {"set"}, item : Item, qty : Int]
    BY <1>1 DEF Op
  <2> QED
    BY <1>1, <2>1 DEF Op, SubstOp
<1>2. CASE o.kind # "set"
  BY <1>2 DEF SubstOp
<1> QED
  BY <1>1, <1>2

LEMMA ValidateTypes ==
  ASSUME TypeOK, NEW c \in Customers, NEW i \in list[c] \cup late[c], Validate(c, i)
  PROVE  StoreTypeOK' /\ CartPageTypeOK'
<1>1. i \in Item
  BY DEF TypeOK, CartPageTypeOK
<1>2. i.prod \in Products /\ i.qty \in CartQty
  BY <1>1 DEF Item
<1>3. PICK n \in {TotalQty(i.prod), -1} :
        ReadsTotal(i.prod, n) /\ Validated(c, i, n)
  BY DEF Validate
<1>4. n \in CartQty
  BY <1>2, <1>3, TotalQtyType
<1> DEFINE v == IF i.qty > n THEN n ELSE i.qty
           j == [i EXCEPT !.qty = v, !.checking = FALSE]
<1>5. v \in CartQty
  BY <1>2, <1>4
<1>6. j \in Item
  BY <1>1, <1>5, ItemQty
<1>7. /\ list' = [list EXCEPT ![c] = Subst(list[c], i, j)]
      /\ todo' = [todo EXCEPT ![c] = Subst(todo[c], i, j)]
      /\ late' = [late EXCEPT ![c] = late[c] \ {i}]
      /\ op' = [op EXCEPT ![c] = SubstOp(op[c], i, j)]
      /\ PutDoc(c, i.id, i.prod, v)
  BY <1>3 DEF Validated
<1> HIDE DEF j, v
<1>8. Subst(list[c], i, j) \in SUBSET Item /\ Subst(todo[c], i, j) \in SUBSET Item
  BY <1>6, SubstItems DEF TypeOK, CartPageTypeOK
<1>9. CartPageTypeOK'
  <2>1. list' \in [Customers -> SUBSET Item]
    BY <1>7, <1>8 DEF TypeOK, CartPageTypeOK
  <2>2. todo' \in [Customers -> SUBSET Item]
    BY <1>7, <1>8 DEF TypeOK, CartPageTypeOK
  <2>3. late' \in [Customers -> SUBSET Item]
    BY <1>7 DEF TypeOK, CartPageTypeOK
  <2>4. op' \in [Customers -> Op]
    BY <1>6, <1>7, SubstOpType DEF TypeOK, CartPageTypeOK
  <2> QED
    BY <1>3, <2>1, <2>2, <2>3, <2>4 DEF TypeOK, CartPageTypeOK, Validated
<1>10. StoreTypeOK'
  <2>1. cart' \in [Customers -> [Ids -> CartDoc \cup {NoDoc}]]
    BY <1>2, <1>5, <1>7, DocType DEF TypeOK
  <2>2. upsets' \in 0 .. MaxUpsets
    BY <1>3, UpsetType DEF TypeOK, ReadsTotal
  <2> QED
    BY <1>3, <2>1, <2>2 DEF TypeOK, StoreTypeOK, Validated, productVars
<1> QED
  BY <1>9, <1>10

LEMMA TapType ==
  ASSUME CartPageTypeOK, NEW c \in Customers, Tap(c)
  PROVE  taps' \in [Customers -> 0 .. MaxTaps]
BY TapAssumption DEF CartPageTypeOK, Tap

LEMMA OpTypes ==
  /\ NoOp \in Op /\ ReloadNext \in Op
  /\ \A p \in Products, n \in Nat : [kind |-> "add", prod |-> p, qty |-> n] \in Op
  /\ \A i \in Item, n \in Int : [kind |-> "set", item |-> i, qty |-> n] \in Op
  /\ \A id \in 0 .. MaxItems : [kind |-> "drop", id |-> id] \in Op
  /\ \A o \in Op : o.kind = "drop" => [o EXCEPT !.kind = "sweep"] \in Op
BY DEF Op, NoOp, ReloadNext

LEMMA RefreshTypes ==
  ASSUME TypeOK, NEW c \in Customers, Refresh(c)
  PROVE  StoreTypeOK' /\ CartPageTypeOK'
<1>1. ListTypeOK'
  BY ReloadType, CartPageTypeParts DEF TypeOK, Refresh, Reload
<1>2. ButtonTypeOK'
  BY TapType DEF TypeOK, Refresh, ButtonTypeOK, CartPageTypeOK
<1>3. StoreTypeOK'
  BY DEF TypeOK, Refresh, StoreTypeOK, storeVars, productVars, cartVars
<1> QED
  BY <1>1, <1>2, <1>3, CartPageTypeParts2

LEMMA AddNewTypes ==
  ASSUME TypeOK, NEW c \in Customers, NEW p \in Products, NEW n \in 1 .. MaxAdd,
         AddNew(c, p, n)
  PROVE  StoreTypeOK' /\ CartPageTypeOK'
<1>1. [id |-> 0, prod |-> p, qty |-> n, checking |-> FALSE] \in Item
  BY StoreAssumption DEF Item, CartQty
<1>2. list' \in [Customers -> SUBSET Item]
  BY <1>1 DEF TypeOK, CartPageTypeOK, AddNew
<1>3. op' \in [Customers -> Op]
  BY OpTypes DEF TypeOK, CartPageTypeOK, AddNew
<1>4. taps' \in [Customers -> 0 .. MaxTaps]
  BY TapType DEF TypeOK, AddNew
<1>5. CartPageTypeOK'
  BY <1>2, <1>3, <1>4 DEF TypeOK, CartPageTypeOK, AddNew, checkoutVars
<1>6. StoreTypeOK'
  BY DEF TypeOK, StoreTypeOK, AddNew, productVars
<1> QED
  BY <1>5, <1>6

LEMMA AddMoreTypes ==
  ASSUME TypeOK, NEW c \in Customers, NEW i \in list[c], NEW n \in 1 .. MaxAdd,
         AddMore(c, i, n)
  PROVE  StoreTypeOK' /\ CartPageTypeOK'
<1>1. i \in Item
  BY DEF TypeOK, CartPageTypeOK
<1>2. i.prod \in Products /\ i.qty + n \in CartQty
  BY <1>1 DEF Item, CartQty
<1>3. PICK j : j = [i EXCEPT !.qty = i.qty + n]
  OBVIOUS
<1>4. ReloadWith(c, i, j) /\ PutDoc(c, i.id, i.prod, j.qty)
  BY <1>3 DEF AddMore
<1>5. j \in Item /\ j.qty = i.qty + n
  BY <1>1, <1>2, <1>3, ItemQty
<1>6. ListTypeOK'
  BY <1>4, <1>5, ReloadType, CartPageTypeParts DEF TypeOK
<1>7. ButtonTypeOK'
  BY TapType, OpTypes DEF TypeOK, AddMore, ButtonTypeOK, CartPageTypeOK
<1>8. cart' \in [Customers -> [Ids -> CartDoc \cup {NoDoc}]]
  BY <1>2, <1>4, <1>5, DocType DEF TypeOK
<1>9. StoreTypeOK'
  BY <1>8 DEF TypeOK, StoreTypeOK, AddMore, productVars
<1> QED
  BY <1>6, <1>7, <1>9, CartPageTypeParts2

LEMMA AddWriteTypes ==
  ASSUME TypeOK, NEW c \in Customers, AddWrite(c)
  PROVE  StoreTypeOK' /\ CartPageTypeOK'
<1>1. op[c] \in Op /\ op[c].kind = "add"
  BY DEF TypeOK, CartPageTypeOK, AddWrite
<1>2. op[c].prod \in Products /\ op[c].qty \in Nat
  BY <1>1 DEF Op
<1>3. PICK p \in Products, n \in Nat : p = op[c].prod /\ n = op[c].qty
  BY <1>2
<1>4. CartPageTypeOK'
  BY OpTypes DEF TypeOK, CartPageTypeOK, AddWrite, checkoutVars
<1>5. cart' \in [Customers -> [Ids -> CartDoc \cup {NoDoc}]]
      /\ nextId' \in [Customers -> 1 .. MaxItems + 1]
  <2>1. CASE AddDoc(c, p, n)
    <3>1. CASE \E i \in InCart(c) :
                 /\ cart[c][i].prod = p
                 /\ cart' = [cart EXCEPT ![c][i] =
                                [prod |-> p, qty |-> cart[c][i].qty + n]]
                 /\ UNCHANGED nextId
      <4>1. PICK i \in InCart(c) :
              cart' = [cart EXCEPT ![c][i] = [prod |-> p, qty |-> cart[c][i].qty + n]]
        BY <3>1
      <4>2. cart[c][i] \in CartDoc
        BY DEF TypeOK, StoreTypeOK, InCart
      <4>3. [prod |-> p, qty |-> cart[c][i].qty + n] \in CartDoc
        BY <4>2 DEF CartDoc, CartQty
      <4> QED
        BY <3>1, <4>1, <4>3 DEF TypeOK, StoreTypeOK, InCart
    <3>2. CASE /\ nextId[c] <= MaxItems
               /\ cart' = [cart EXCEPT ![c][nextId[c]] = [prod |-> p, qty |-> n]]
               /\ nextId' = [nextId EXCEPT ![c] = @ + 1]
      <4>1. nextId[c] \in Ids /\ nextId[c] + 1 \in 1 .. MaxItems + 1
        BY <3>2, StoreAssumption DEF TypeOK, StoreTypeOK, Ids
      <4>2. [prod |-> p, qty |-> n] \in CartDoc
        BY DEF CartDoc, CartQty
      <4> QED
        BY <3>2, <4>1, <4>2 DEF TypeOK, StoreTypeOK
    <3> QED
      BY <2>1, <3>1, <3>2 DEF AddDoc
  <2>2. CASE UNCHANGED <<cart, nextId>>
    BY <2>2 DEF TypeOK, StoreTypeOK
  <2> QED
    BY <1>3, <2>1, <2>2 DEF AddWrite
<1>6. upsets' \in 0 .. MaxUpsets
  BY UpsetType DEF TypeOK, AddWrite
<1>7. StoreTypeOK'
  BY <1>5, <1>6 DEF TypeOK, StoreTypeOK, AddWrite, productVars
<1> QED
  BY <1>4, <1>7

LEMMA ReloadLastTypes ==
  ASSUME TypeOK, NEW c \in Customers, ReloadLast(c)
  PROVE  StoreTypeOK' /\ CartPageTypeOK'
<1>1. ListTypeOK'
  BY ReloadType, CartPageTypeParts DEF TypeOK, ReloadLast, Reload
<1>2. ButtonTypeOK'
  BY OpTypes DEF TypeOK, ReloadLast, ButtonTypeOK, CartPageTypeOK
<1>3. StoreTypeOK'
  BY DEF TypeOK, ReloadLast, StoreTypeOK, storeVars, productVars, cartVars
<1> QED
  BY <1>1, <1>2, <1>3, CartPageTypeParts2

LEMMA SetQtyTypes ==
  ASSUME TypeOK, NEW c \in Customers, NEW i \in list[c], NEW q, SetQty(c, i, q)
  PROVE  StoreTypeOK' /\ CartPageTypeOK'
<1>1. i \in Item
  BY DEF TypeOK, CartPageTypeOK
<1>2. q \in Int
  BY <1>1 DEF SetQty, Item, CartQty
<1>3. op' \in [Customers -> Op]
  BY <1>1, <1>2, OpTypes DEF TypeOK, CartPageTypeOK, SetQty
<1>4. taps' \in [Customers -> 0 .. MaxTaps]
  BY TapType DEF TypeOK, SetQty
<1>5. CartPageTypeOK'
  BY <1>3, <1>4 DEF TypeOK, CartPageTypeOK, SetQty, checkoutVars
<1>6. StoreTypeOK'
  BY DEF TypeOK, StoreTypeOK, SetQty, storeVars, productVars, cartVars
<1> QED
  BY <1>5, <1>6

LEMMA SetAnsweredTypes ==
  ASSUME TypeOK, NEW c \in Customers, SetAnswered(c)
  PROVE  StoreTypeOK' /\ CartPageTypeOK'
<1>1. op[c] \in Op /\ op[c].kind = "set"
  BY DEF TypeOK, CartPageTypeOK, SetAnswered
<1>2. op[c].item \in Item /\ op[c].qty \in Int
  BY <1>1 DEF Op
<1>3. PICK i \in Item, q \in Int : i = op[c].item /\ q = op[c].qty
  BY <1>2
<1>4. i.prod \in Products /\ i.id \in 0 .. MaxItems
  BY DEF Item
<1>5. PICK n : /\ ReadsTotal(i.prod, n)
               /\ SetRefused(c, n) \/ SetWritten(c, n) \/ SetRemoved(c, n)
  BY <1>3 DEF SetAnswered
<1>6. UNCHANGED <<productVars, parent, nextId, taps>>
  BY DEF SetAnswered
<1>7. upsets' \in 0 .. MaxUpsets
  BY <1>5, UpsetType DEF TypeOK, ReadsTotal
<1>8. ListTypeOK' /\ cart' \in [Customers -> [Ids -> CartDoc \cup {NoDoc}]]
      /\ op' \in [Customers -> Op]
  <2>1. CASE SetRefused(c, n)
    BY <2>1, OpTypes DEF TypeOK, CartPageTypeOK, StoreTypeOK, ListTypeOK, SetRefused,
       checkoutVars
  <2>2. CASE SetWritten(c, n)
    <3>1. PICK j : j = [i EXCEPT !.qty = q]
      OBVIOUS
    <3>2. q \in CartQty
      BY <1>3, <2>2 DEF SetWritten, CartQty
    <3>3. j \in Item
      BY <3>1, <3>2, ItemQty
    <3>4. ReloadWith(c, i, j) /\ PutDoc(c, i.id, i.prod, q)
      BY <1>3, <2>2, <3>1 DEF SetWritten
    <3>5. ListTypeOK'
      BY <3>3, <3>4, ReloadType, CartPageTypeParts DEF TypeOK
    <3>6. cart' \in [Customers -> [Ids -> CartDoc \cup {NoDoc}]]
      BY <1>4, <3>2, <3>4, DocType DEF TypeOK
    <3> QED
      BY <2>2, <3>5, <3>6, OpTypes DEF TypeOK, CartPageTypeOK, SetWritten
  <2>3. CASE SetRemoved(c, n)
    <3>1. ListTypeOK'
      BY <2>3, ReloadType, CartPageTypeParts DEF TypeOK, SetRemoved, Reload
    <3>2. cart' \in [Customers -> [Ids -> CartDoc \cup {NoDoc}]]
      BY <2>3, DropType DEF TypeOK, SetRemoved
    <3>3. op' \in [Customers -> Op]
      BY <1>3, <1>4, <2>3, OpTypes DEF TypeOK, CartPageTypeOK, SetRemoved
    <3> QED
      BY <3>1, <3>2, <3>3
  <2> QED
    BY <1>5, <2>1, <2>2, <2>3
<1>9. CartPageTypeOK'
  BY <1>6, <1>8, CartPageTypeParts2 DEF TypeOK, CartPageTypeOK, ButtonTypeOK
<1>10. StoreTypeOK'
  BY <1>6, <1>7, <1>8 DEF TypeOK, StoreTypeOK, productVars
<1> QED
  BY <1>9, <1>10

LEMMA DropAgainTypes ==
  ASSUME TypeOK, NEW c \in Customers, DropAgain(c)
  PROVE  StoreTypeOK' /\ CartPageTypeOK'
<1>1. op' \in [Customers -> Op]
  BY OpTypes DEF TypeOK, CartPageTypeOK, DropAgain
<1>2. CartPageTypeOK'
  BY <1>1 DEF TypeOK, CartPageTypeOK, DropAgain, checkoutVars
<1>3. cart' \in [Customers -> [Ids -> CartDoc \cup {NoDoc}]]
  BY DropType DEF TypeOK, DropAgain
<1>4. StoreTypeOK'
  BY <1>3 DEF TypeOK, StoreTypeOK, DropAgain, productVars
<1> QED
  BY <1>2, <1>4

LEMMA SweepTypes ==
  ASSUME TypeOK, NEW c \in Customers, Sweep(c)
  PROVE  StoreTypeOK' /\ CartPageTypeOK'
<1>1. list' \in [Customers -> SUBSET Item] /\ late' \in [Customers -> SUBSET Item]
      /\ todo' \in [Customers -> SUBSET Item] /\ moved' \in [Customers -> BOOLEAN]
  BY DEF TypeOK, CartPageTypeOK, Sweep
<1>2. op' \in [Customers -> Op]
  BY OpTypes DEF TypeOK, CartPageTypeOK, Sweep
<1>3. CartPageTypeOK'
  BY <1>1, <1>2 DEF TypeOK, CartPageTypeOK, Sweep
<1>4. StoreTypeOK'
  BY DEF TypeOK, StoreTypeOK, Sweep, storeVars, productVars, cartVars
<1> QED
  BY <1>3, <1>4

LEMMA OrderedType ==
  ASSUME NEW items \in SUBSET Item, NEW p
  PROVE  Ordered(items, p) \in Int /\ Ordered(items, p) >= 0
<1>1. CASE \E i \in items : i.prod = p
  <2>1. (CHOOSE i \in items : i.prod = p) \in Item
    BY <1>1
  <2>2. (CHOOSE i \in items : i.prod = p).qty \in Int
    BY <2>1 DEF Item, CartQty
  <2> QED
    BY <1>1, <2>2, AtLeast0Nat DEF Ordered
<1>2. CASE ~ \E i \in items : i.prod = p
  BY <1>2 DEF Ordered
<1> QED
  BY <1>1, <1>2

LEMMA CompleteTypes ==
  ASSUME TypeOK, NEW c \in Customers, Complete(c)
  PROVE  StoreTypeOK' /\ CartPageTypeOK'
<1>1. list[c] \in SUBSET Item
  BY DEF TypeOK, CartPageTypeOK
<1>2. [p \in Products |-> Ordered(list[c], p)] \in [Products -> Int]
  BY <1>1, OrderedType
<1>3. owed' \in [Customers -> [Products -> Int]]
  BY <1>2 DEF TypeOK, CartPageTypeOK, Complete
<1>4. taps' \in [Customers -> 0 .. MaxTaps]
  BY TapType DEF TypeOK, Complete
<1>5. CartPageTypeOK'
  BY <1>3, <1>4 DEF TypeOK, CartPageTypeOK, Complete, Stage
<1>6. StoreTypeOK'
  BY DEF TypeOK, StoreTypeOK, Complete, storeVars, productVars, cartVars
<1> QED
  BY <1>5, <1>6

LEMMA PlacedTypes ==
  ASSUME TypeOK, NEW c \in Customers, Placed(c)
  PROVE  StoreTypeOK' /\ CartPageTypeOK'
<1>1. stage' \in [Customers -> Stage] /\ todo' \in [Customers -> SUBSET Item]
      /\ tied' \in [Customers -> BOOLEAN]
  BY DEF TypeOK, CartPageTypeOK, Placed, Stage
<1>2. placed' \in [Customers -> BOOLEAN]
  BY DEF TypeOK, CartPageTypeOK, Placed
<1>3. CartPageTypeOK'
  BY <1>1, <1>2 DEF TypeOK, CartPageTypeOK, Placed, pageVars
<1>4. StoreTypeOK'
  BY UpsetType DEF TypeOK, StoreTypeOK, Placed, productVars, cartVars
<1> QED
  BY <1>3, <1>4

LEMMA EmptyCartTypes ==
  ASSUME TypeOK, NEW c \in Customers, EmptyCart(c)
  PROVE  StoreTypeOK' /\ CartPageTypeOK'
<1>1. crossed' \in [Customers -> BOOLEAN]
  <2>1. (fetches[c]["items"] > 0) \in BOOLEAN
    OBVIOUS
  <2>2. PICK b \in BOOLEAN : b = (fetches[c]["items"] > 0)
    BY <2>1, Zenon
  <2>3. crossed' = [crossed EXCEPT ![c] = b] \/ UNCHANGED crossed
    BY <2>2, Zenon DEF EmptyCart
  <2> QED
    BY <2>3 DEF TypeOK, CartPageTypeOK
<1>2. CartPageTypeOK'
  BY <1>1 DEF TypeOK, CartPageTypeOK, EmptyCart, Stage, pageVars
<1>3. StoreTypeOK'
  BY UpsetType DEF TypeOK, StoreTypeOK, EmptyCart, productVars
<1> QED
  BY <1>2, <1>3

LEMMA TakeNextTypes ==
  ASSUME TypeOK, NEW c \in Customers, NEW i \in todo[c], TakeNext(c, i)
  PROVE  StoreTypeOK' /\ CartPageTypeOK'
<1>1. i \in Item
  BY DEF TypeOK, CartPageTypeOK
<1>2. [on |-> TRUE, prod |-> i.prod, qty |-> i.qty,
       read |-> FALSE, left |-> 0, old |-> FALSE] \in Taking
  BY <1>1 DEF Taking, Item
<1>3. taking' \in [Customers -> Taking]
  BY <1>2 DEF TypeOK, CartPageTypeOK, TakeNext
<1>4. CartPageTypeOK'
  BY <1>3 DEF TypeOK, CartPageTypeOK, TakeNext, pageVars
<1>5. StoreTypeOK'
  BY DEF TypeOK, StoreTypeOK, TakeNext, storeVars, productVars, cartVars
<1> QED
  BY <1>4, <1>5

\* What an update of the stock is made of.
LEMMA TakingType ==
  ASSUME TypeOK, NEW c \in Customers, taking[c].on
  PROVE  /\ taking[c].prod \in Products /\ taking[c].qty \in Int
         /\ taking[c].left \in Nat /\ taking[c].old \in BOOLEAN
         /\ product[taking[c].prod] \in Product
<1>1. taking[c] \in Taking
  BY DEF TypeOK, CartPageTypeOK
<1> QED
  BY <1>1 DEF Taking, CartQty, TypeOK, StoreTypeOK

LEMMA TakeReadTypes ==
  ASSUME TypeOK, NEW c \in Customers, TakeRead(c)
  PROVE  StoreTypeOK' /\ CartPageTypeOK'
<1>1. PICK t : t = taking[c]
  OBVIOUS
<1>2. t \in Taking /\ t.on
  BY <1>1 DEF TypeOK, CartPageTypeOK, TakeRead
<1>3. product[t.prod].qty \in Nat
  BY <1>1, <1>2, TakingType DEF Product
<1>4. [t EXCEPT !.read = TRUE, !.left = product[t.prod].qty] \in Taking
      /\ NoTaking \in Taking
  BY <1>2, <1>3 DEF Taking, NoTaking
<1>5. taking' \in [Customers -> Taking]
  BY <1>1, <1>4 DEF TypeOK, CartPageTypeOK, TakeRead
<1>6. CartPageTypeOK'
  BY <1>5 DEF TypeOK, CartPageTypeOK, TakeRead, pageVars
<1>7. StoreTypeOK'
  BY UpsetType DEF TypeOK, StoreTypeOK, TakeRead, productVars, cartVars
<1> QED
  BY <1>6, <1>7

LEMMA TakeWriteTypes ==
  ASSUME TypeOK, NEW c \in Customers, TakeWrite(c)
  PROVE  StoreTypeOK' /\ CartPageTypeOK'
<1>1. taking[c].on
  BY DEF TakeWrite
<1>2. PICK p \in Products, n \in Int, left \in Nat, old \in BOOLEAN :
        p = taking[c].prod /\ n = taking[c].qty /\ left = taking[c].left
        /\ old = taking[c].old
  BY <1>1, TakingType
<1>3. AtLeast0(n) \in Nat /\ AtLeast0(left - n) \in Nat
  BY AtLeast0Nat
<1>4. taking' \in [Customers -> Taking]
  BY DEF TypeOK, CartPageTypeOK, TakeWrite, NoTaking, Taking
<1>5. owed' \in [Customers -> [Products -> Int]]
  <2>1. owed[c][p] - AtLeast0(n) \in Int /\ owed[c] \in [Products -> Int]
    BY <1>3 DEF TypeOK, CartPageTypeOK
  <2>2. CASE owed' = [owed EXCEPT ![c][p] = owed[c][p] - AtLeast0(n)]
    <3>1. [owed[c] EXCEPT ![p] = owed[c][p] - AtLeast0(n)] \in [Products -> Int]
      BY <2>1
    <3> QED
      BY <2>2, <3>1 DEF TypeOK, CartPageTypeOK
  <2>3. CASE UNCHANGED owed
    BY <2>3 DEF TypeOK, CartPageTypeOK
  <2> QED
    BY <1>2, <2>2, <2>3 DEF TakeWrite
<1>6. CartPageTypeOK'
  BY <1>4, <1>5 DEF TypeOK, CartPageTypeOK, TakeWrite, pageVars
<1>7. /\ product' \in [Products -> Product] /\ taken' \in [Products -> Nat]
      /\ raced' \in [Products -> BOOLEAN] /\ supply' \in [Products -> Nat]
  <2>1. CASE WriteStock(p, left, n, old) /\ Listed(p)
    <3>1. [status |-> "listed", qty |-> AtLeast0(left - n),
           hidden |-> product[p].hidden \/ AtLeast0(left - n) = 0] \in Product
      BY <1>3 DEF Product, TypeOK, StoreTypeOK
    <3>2. product' \in [Products -> Product]
      BY <2>1, <3>1 DEF TypeOK, StoreTypeOK, WriteStock
    <3>3. taken' \in [Products -> Nat]
      BY <1>3, <2>1 DEF TypeOK, StoreTypeOK, WriteStock
    <3>4. raced' \in [Products -> BOOLEAN] /\ supply' \in [Products -> Nat]
      BY <2>1 DEF TypeOK, StoreTypeOK, WriteStock
    <3> QED
      BY <3>2, <3>3, <3>4
  <2>2. CASE UNCHANGED productVars
    BY <2>2 DEF TypeOK, StoreTypeOK, productVars
  <2> QED
    BY <1>2, <2>1, <2>2 DEF TakeWrite, WriteStock
<1>8. upsets' \in 0 .. MaxUpsets
  BY UpsetType DEF TypeOK, TakeWrite
<1>9. StoreTypeOK'
  BY <1>7, <1>8 DEF TypeOK, StoreTypeOK, TakeWrite, cartVars
<1> QED
  BY <1>6, <1>9

LEMMA FinishTypes ==
  ASSUME TypeOK, NEW c \in Customers, Finish(c)
  PROVE  StoreTypeOK' /\ CartPageTypeOK'
<1>1. CartPageTypeOK'
  BY DEF TypeOK, CartPageTypeOK, Finish, Stage
<1>2. StoreTypeOK'
  BY DEF TypeOK, StoreTypeOK, Finish, storeVars, productVars, cartVars
<1> QED
  BY <1>1, <1>2

\* The farmer's device.

LEMMA CopyTypes ==
  ASSUME TypeOK, NEW p \in Products
  PROVE  /\ CopyOf(p) \in Copy /\ NoCopy \in Copy /\ CopyOf(p) # NoCopy
         /\ \A copy \in Copy : Older(copy) \in Copy
<1>1. product[p] \in Product
  BY DEF TypeOK, StoreTypeOK
<1> QED
  BY <1>1 DEF CopyOf, Copy, NoCopy, Older, Product

LEMMA FetchInventoryTypes ==
  ASSUME TypeOK, FetchInventory
  PROVE  StoreTypeOK' /\ InventoryTypeOK'
<1>1. StoreTypeOK'
  BY DEF TypeOK, StoreTypeOK, FetchInventory, storeVars, productVars, cartVars
<1>2. InventoryTypeOK'
  BY CopyTypes DEF TypeOK, InventoryTypeOK, FetchInventory
<1> QED
  BY <1>1, <1>2

LEMMA FarmerStepTypes ==
  ASSUME TypeOK, NEW p \in Products, FarmerStep(p)
  PROVE  StoreTypeOK' /\ InventoryTypeOK'
<1>1. product[p] \in Product /\ rows[p] \in Copy /\ selected[p] \in Copy
  BY DEF TypeOK, StoreTypeOK, InventoryTypeOK
<1>2. CASE Select(p)
  BY <1>1, <1>2, CopyTypes DEF TypeOK, StoreTypeOK, InventoryTypeOK, Select, storeVars,
     productVars, cartVars
<1>3. CASE WritePromotion(p)
  <2>1. selected[p].qty \in Nat /\ selected[p].hidden \in BOOLEAN
        /\ selected[p].old \in BOOLEAN
    BY <1>1, <1>3 DEF WritePromotion, Copy, NoCopy
  <2>2. [status |-> "listed", qty |-> selected[p].qty,
         hidden |-> product[p].hidden \/ selected[p].hidden] \in Product
    BY <1>1, <2>1 DEF Product
  <2>3. /\ product' \in [Products -> Product] /\ raced' \in [Products -> BOOLEAN]
        /\ UNCHANGED <<supply, taken>>
    BY <1>3, <2>2 DEF TypeOK, StoreTypeOK, WritePromotion, WriteCopy, productVars
  <2>4. StoreTypeOK'
    BY <1>3, <2>3, UpsetType DEF TypeOK, StoreTypeOK, WritePromotion, cartVars
  <2> QED
    BY <1>3, <2>4 DEF TypeOK, InventoryTypeOK, WritePromotion
<1>4. ASSUME NEW n \in 1 .. MaxQty, PostProduct(p, n)
      PROVE  StoreTypeOK' /\ InventoryTypeOK'
  <2>1. [status |-> "listed", qty |-> n, hidden |-> FALSE] \in Product
    BY DEF Product
  <2>2. StoreTypeOK'
    BY <1>4, <2>1, UpsetType DEF TypeOK, StoreTypeOK, PostProduct, AddProduct, cartVars
  <2> QED
    BY <1>4, <2>2 DEF TypeOK, InventoryTypeOK, PostProduct
<1>5. CASE RemoveProduct(p)
  <2>1. [status |-> "deleted", qty |-> 0, hidden |-> FALSE] \in Product
    BY DEF Product
  <2>2. StoreTypeOK'
    BY <1>5, <2>1, UpsetType DEF TypeOK, StoreTypeOK, RemoveProduct, DeleteProduct, cartVars
  <2>3. NoCopy \in Copy
    BY DEF NoCopy, Copy
  <2> QED
    BY <1>5, <2>2, <2>3 DEF TypeOK, InventoryTypeOK, RemoveProduct
<1> QED
  BY <1>2, <1>3, <1>4, <1>5 DEF FarmerStep

LEMMA FarmerSavesTypes ==
  ASSUME TypeOK, NEW p \in Products, NEW n \in 1 .. MaxQty, FarmerSaves(p, n)
  PROVE  TypeOK'
<1>1. [status |-> "listed", qty |-> n, hidden |-> TRUE] \in Product
  BY DEF Product
<1>2. n + taken[p] \in Nat
  BY DEF TypeOK, StoreTypeOK
<1>3. StoreTypeOK'
  BY <1>1, <1>2, UpsetType DEF TypeOK, StoreTypeOK, FarmerSaves, UpdateProduct,
     SaveProduct, cartVars
<1>4. InventoryTypeOK'
  BY CopyTypes DEF TypeOK, InventoryTypeOK, FarmerSaves, UpdateProduct
<1>5. \A c \in Customers : taking[c].on => [taking[c] EXCEPT !.old = TRUE] \in Taking
  <2> SUFFICES ASSUME NEW c \in Customers, taking[c].on
               PROVE  [taking[c] EXCEPT !.old = TRUE] \in Taking
    OBVIOUS
  <2>1. taking[c] \in Taking
    BY DEF TypeOK, CartPageTypeOK
  <2> QED
    BY <2>1 DEF Taking
<1>6. taking' \in [Customers -> Taking]
  BY <1>5 DEF TypeOK, CartPageTypeOK, FarmerSaves
<1>7. CartPageTypeOK'
  BY <1>6 DEF TypeOK, CartPageTypeOK, FarmerSaves, pageVars
<1> QED
  BY <1>3, <1>4, <1>7 DEF TypeOK

LEMMA InitTypes == Init => TypeOK
<1> SUFFICES ASSUME Init PROVE TypeOK
  OBVIOUS
<1>1. product \in [Products -> Product] /\ \A p \in Products : product[p].qty \in Nat
  <2>1. \A n \in 1 .. MaxQty : [status |-> "listed", qty |-> n, hidden |-> FALSE] \in Product
    BY DEF Product
  <2>2. [status |-> "none", qty |-> 0, hidden |-> FALSE] \in Product
    BY DEF Product
  <2>3. product \in [Products -> Product]
    <3>1. ASSUME NEW p \in Products PROVE product[p] \in Product
      <4>1. \/ product[p] = [status |-> "none", qty |-> 0, hidden |-> FALSE]
            \/ \E n \in 1 .. MaxQty :
                 product[p] = [status |-> "listed", qty |-> n, hidden |-> FALSE]
        BY DEF Init, StoreInit
      <4> QED BY <2>1, <2>2, <4>1
    <3>2. product = [p \in Products |-> product[p]]
      BY DEF Init, StoreInit
    <3> QED BY <3>1, <3>2
  <2> QED
    BY <2>3 DEF Product
<1>2. StoreTypeOK
  BY <1>1, StoreAssumption DEF Init, StoreInit, StoreTypeOK
<1>3. CartPageTypeOK
  BY OpTypes, TapAssumption DEF Init, CartPageInit, CartPageTypeOK, Stage, Taking,
     NoTaking, NoFetch
<1>4. InventoryTypeOK
  BY DEF Init, InventoryInit, InventoryTypeOK, Copy, NoCopy
<1> QED
  BY <1>2, <1>3, <1>4 DEF TypeOK

LEMMA CustomerStepTypes ==
  ASSUME TypeOK, NEW c \in Customers, CustomerStep(c)
  PROVE  StoreTypeOK' /\ CartPageTypeOK'
<1>1. CASE ReadCart(c) \/ FindNothing(c)
  BY <1>1, FetchMovesTypes
<1>2. CASE Land(c) \/ LandEmpty(c)
  BY <1>2, LandTypes
<1>3. CASE \E i \in list[c] \cup late[c] : Validate(c, i)
  BY <1>3, ValidateTypes
<1>4. CASE Refresh(c)
  BY <1>4, RefreshTypes
<1>5. CASE \E p \in Products, n \in 1 .. MaxAdd : AddNew(c, p, n)
  BY <1>5, AddNewTypes
<1>6. CASE \E i \in list[c], n \in 1 .. MaxAdd : AddMore(c, i, n)
  BY <1>6, AddMoreTypes
<1>7. CASE AddWrite(c)
  BY <1>7, AddWriteTypes
<1>8. CASE ReloadLast(c)
  BY <1>8, ReloadLastTypes
<1>9. CASE \E i \in list[c] : SetQty(c, i, i.qty - 1) \/ SetQty(c, i, i.qty + 1)
  <2>1. PICK i \in list[c] : SetQty(c, i, i.qty - 1) \/ SetQty(c, i, i.qty + 1)
    BY <1>9
  <2> QED
    BY <2>1, SetQtyTypes
<1>10. CASE SetAnswered(c)
  BY <1>10, SetAnsweredTypes
<1>11. CASE DropAgain(c)
  BY <1>11, DropAgainTypes
<1>12. CASE Sweep(c)
  BY <1>12, SweepTypes
<1>13. CASE Complete(c)
  BY <1>13, CompleteTypes
<1>14. CASE Placed(c)
  BY <1>14, PlacedTypes
<1>15. CASE EmptyCart(c)
  BY <1>15, EmptyCartTypes
<1>16. CASE \E i \in todo[c] : TakeNext(c, i)
  BY <1>16, TakeNextTypes
<1>17. CASE TakeRead(c)
  BY <1>17, TakeReadTypes
<1>18. CASE TakeWrite(c)
  BY <1>18, TakeWriteTypes
<1>19. CASE Finish(c)
  BY <1>19, FinishTypes
<1> QED
  BY <1>1, <1>2, <1>3, <1>4, <1>5, <1>6, <1>7, <1>8, <1>9, <1>10, <1>11, <1>12,
     <1>13, <1>14, <1>15, <1>16, <1>17, <1>18, <1>19 DEF CustomerStep

LEMMA TypeStep == TypeOK /\ [Next]_vars => TypeOK'
<1> SUFFICES ASSUME TypeOK, [Next]_vars PROVE TypeOK'
  OBVIOUS
<1>1. ASSUME NEW c \in Customers, CustomerStep(c), UNCHANGED inventoryVars
      PROVE  TypeOK'
  BY <1>1, CustomerStepTypes DEF TypeOK, InventoryTypeOK, inventoryVars
<1>2. CASE FetchInventory /\ UNCHANGED cartPageVars
  BY <1>2, FetchInventoryTypes DEF TypeOK, CartPageTypeOK, cartPageVars, pageVars,
     checkoutVars
<1>3. ASSUME NEW p \in Products, FarmerStep(p), UNCHANGED cartPageVars
      PROVE  TypeOK'
  BY <1>3, FarmerStepTypes DEF TypeOK, CartPageTypeOK, cartPageVars, pageVars,
     checkoutVars
<1>4. ASSUME NEW p \in Products, NEW n \in 1 .. MaxQty, FarmerSaves(p, n)
      PROVE  TypeOK'
  BY <1>4, FarmerSavesTypes
<1>5. CASE UNCHANGED vars
  BY <1>5 DEF TypeOK, StoreTypeOK, CartPageTypeOK, InventoryTypeOK, vars, storeVars,
     productVars, cartVars, cartPageVars, pageVars, checkoutVars, inventoryVars
<1> QED
  BY <1>1, <1>2, <1>3, <1>4, <1>5 DEF Next

\* Every variable keeps its type, no stock below zero and no cart quantity
\* below -1: updateProductQty clamps at zero, and a failed getProductTotalQty
\* is the only source of -1.
THEOREM ShopTypes == Spec => []TypeOK
<1> QED
  BY InitTypes, TypeStep, PTL DEF Spec

----------------------------------------------------------------------------
\* The stock: StockInv is inductive, given the types.

stockInvVars == <<productVars, taking, rows, selected>>

LEMMA StockFrame ==
  ASSUME StockInv, UNCHANGED stockInvVars
  PROVE  StockInv'
BY DEF StockInv, StockAccounted, SoldOutHidden, CopyAccounted, ReadAccounted, Listed,
   stockInvVars, productVars

\* All a customer's device does to the stock is in updateProductQty.
LEMMA QuietSteps ==
  ASSUME NEW c \in Customers, CustomerStep(c),
         \A i \in todo[c] : ~TakeNext(c, i), ~TakeRead(c), ~TakeWrite(c)
  PROVE  UNCHANGED <<productVars, taking>>
<1>1. CASE ReadCart(c) \/ FindNothing(c) \/ Land(c) \/ LandEmpty(c)
  BY <1>1 DEF ReadCart, FindNothing, FetchMoves, Land, LandEmpty, NewList, checkoutVars
<1>2. CASE \E i \in list[c] \cup late[c] : Validate(c, i)
  BY <1>2 DEF Validate, Validated
<1>3. CASE Refresh(c) \/ ReloadLast(c)
  BY <1>3 DEF Refresh, ReloadLast, Reload, ReloadWith, storeVars
<1>4. CASE \E p \in Products, n \in 1 .. MaxAdd : AddNew(c, p, n)
  BY <1>4 DEF AddNew, checkoutVars
<1>5. CASE \E i \in list[c], n \in 1 .. MaxAdd : AddMore(c, i, n)
  BY <1>5 DEF AddMore, ReloadWith
<1>6. CASE AddWrite(c)
  BY <1>6 DEF AddWrite, checkoutVars
<1>7. CASE \E i \in list[c] : SetQty(c, i, i.qty - 1) \/ SetQty(c, i, i.qty + 1)
  BY <1>7 DEF SetQty, storeVars, checkoutVars
<1>8. CASE SetAnswered(c)
  BY <1>8 DEF SetAnswered, SetRefused, SetWritten, SetRemoved, Reload, ReloadWith,
     checkoutVars
<1>9. CASE DropAgain(c) \/ Sweep(c)
  BY <1>9 DEF DropAgain, Sweep, storeVars, checkoutVars
<1>10. CASE Complete(c) \/ Placed(c) \/ EmptyCart(c) \/ Finish(c)
  BY <1>10 DEF Complete, Placed, EmptyCart, Finish, storeVars
<1> QED
  BY <1>1, <1>2, <1>3, <1>4, <1>5, <1>6, <1>7, <1>8, <1>9, <1>10 DEF CustomerStep

LEMMA TakeNextStock ==
  ASSUME TypeOK, StockInv, NEW c \in Customers, NEW i \in todo[c], TakeNext(c, i),
         UNCHANGED inventoryVars
  PROVE  StockInv'
<1>1. UNCHANGED <<productVars, rows, selected>>
  BY DEF TakeNext, storeVars, inventoryVars
<1>2. \A d \in Customers :
        taking'[d] = taking[d] \/ ~(taking'[d].on /\ taking'[d].read)
  BY DEF TakeNext, TypeOK, CartPageTypeOK
<1> QED
  BY <1>1, <1>2 DEF StockInv, StockAccounted, SoldOutHidden, CopyAccounted,
     ReadAccounted, Listed, productVars

LEMMA TakeReadStock ==
  ASSUME TypeOK, StockInv, NEW c \in Customers, TakeRead(c), UNCHANGED inventoryVars
  PROVE  StockInv'
<1>1. PICK t : t = taking[c]
  OBVIOUS
<1>2. t \in Taking /\ t.on /\ t.prod \in Products
  BY <1>1, TakingType DEF TakeRead, TypeOK, CartPageTypeOK
<1>3. UNCHANGED <<product, supply, taken, raced, rows, selected>>
  BY DEF TakeRead, productVars, inventoryVars
<1>4. ReadAccounted(taking[c])'
  <2>1. CASE taking' = [taking EXCEPT ![c] = NoTaking]
    BY <2>1 DEF ReadAccounted, NoTaking, TypeOK, CartPageTypeOK
  <2>2. CASE /\ Listed(t.prod)
             /\ taking' = [taking EXCEPT ![c] =
                    [t EXCEPT !.read = TRUE, !.left = product[t.prod].qty]]
    <3>1. taking'[c].prod = t.prod /\ taking'[c].left = product[t.prod].qty
      BY <1>2, <2>2 DEF TypeOK, CartPageTypeOK, Taking
    <3> QED
      BY <1>2, <1>3, <2>2, <3>1 DEF StockInv, StockAccounted, ReadAccounted, Listed
  <2> QED
    BY <1>1, <2>1, <2>2 DEF TakeRead
<1>5. \A d \in Customers : d # c => taking'[d] = taking[d]
  BY DEF TakeRead, TypeOK, CartPageTypeOK
<1>6. \A d \in Customers : ReadAccounted(taking[d])'
  BY <1>3, <1>4, <1>5 DEF StockInv, ReadAccounted, Listed
<1> QED
  BY <1>3, <1>6 DEF StockInv, StockAccounted, SoldOutHidden, CopyAccounted, Listed

LEMMA TakeWriteStock ==
  ASSUME TypeOK, StockInv, NEW c \in Customers, TakeWrite(c), UNCHANGED inventoryVars
  PROVE  StockInv'
<1>1. PICK p \in Products, n \in Int, left \in Nat, old \in BOOLEAN :
        p = taking[c].prod /\ n = taking[c].qty /\ left = taking[c].left
        /\ old = taking[c].old
  BY TakingType DEF TakeWrite
<1>2. taking' = [taking EXCEPT ![c] = NoTaking] /\ UNCHANGED <<rows, selected>>
  BY DEF TakeWrite, inventoryVars
<1>3. \A d \in Customers : taking'[d].on => taking'[d] = taking[d]
  BY <1>2 DEF TypeOK, CartPageTypeOK, NoTaking
<1>4. CASE UNCHANGED productVars
  BY <1>2, <1>3, <1>4 DEF StockInv, StockAccounted, SoldOutHidden, CopyAccounted,
     ReadAccounted, Listed, productVars
<1>5. CASE WriteStock(p, left, n, old) /\ Listed(p)
  <2> DEFINE rest == AtLeast0(left - n)
             sold == AtLeast0(n)
  <2>1. rest \in Nat /\ sold \in Nat /\ rest + sold >= left
    BY AtLeast0Nat
  <2>2. /\ product' = [product EXCEPT ![p] =
                [status |-> "listed", qty |-> rest,
                 hidden |-> product[p].hidden \/ rest = 0]]
        /\ taken' = [taken EXCEPT ![p] = taken[p] + sold]
        /\ raced' = [raced EXCEPT ![p] = raced[p] \/ old]
        /\ supply' = supply
    BY <1>5 DEF WriteStock
  <2> HIDE DEF rest, sold
  <2>3. /\ taken[p] \in Nat /\ supply[p] \in Nat
        /\ taken'[p] = taken[p] + sold /\ raced'[p] = (raced[p] \/ old)
        /\ product'[p].qty = rest /\ product'[p].hidden = (product[p].hidden \/ rest = 0)
        /\ product'[p].status = "listed" /\ product[p].status = "listed"
    BY <1>5, <2>2 DEF TypeOK, StoreTypeOK, Listed
  <2>4. \A q \in Products : q # p =>
          product'[q] = product[q] /\ taken'[q] = taken[q] /\ raced'[q] = raced[q]
    BY <2>2 DEF TypeOK, StoreTypeOK
  <2>5. ~old /\ ~raced[p] => left + taken[p] >= supply[p]
    BY <1>1, <1>5 DEF StockInv, ReadAccounted, TakeWrite
  <2>a. /\ taken[p] \in Nat /\ supply[p] \in Nat /\ supply'[p] = supply[p]
        /\ taken'[p] = taken[p] + sold /\ product'[p].qty = rest
    BY <2>2, <2>3
  <2>b. ~raced'[p] => ~raced[p] /\ ~old
    BY <2>3, Zenon
  <2>6. ~raced'[p] => product'[p].qty + taken'[p] >= supply'[p]
    BY <2>1, <2>a, <2>b, <2>5
  <2>7. StockAccounted'
    BY <2>2, <2>4, <2>6 DEF StockInv, StockAccounted, Listed
  <2>8. SoldOutHidden'
    BY <2>3, <2>4 DEF StockInv, SoldOutHidden, Listed
  <2>9. ASSUME NEW copy \in Copy, NEW q \in Products, CopyAccounted(copy, q)
        PROVE  CopyAccounted(copy, q)'
    <3>1. copy # NoCopy => copy.qty \in Nat
      BY DEF Copy, NoCopy
    <3>2. CASE q = p
      BY <1>5, <2>1, <2>a, <2>b, <2>9, <3>1, <3>2 DEF CopyAccounted, Listed
    <3>3. CASE q # p
      BY <2>2, <2>4, <2>9, <3>3 DEF CopyAccounted, Listed
    <3> QED
      BY <3>2, <3>3
  <2>10. \A q \in Products :
           /\ CopyAccounted(rows[q], q)'
           /\ CopyAccounted(selected[q], q)'
           /\ product'[q].status = "none" => rows'[q] = NoCopy /\ selected'[q] = NoCopy
    BY <1>2, <2>3, <2>4, <2>9 DEF StockInv, CopyAccounted, TypeOK, InventoryTypeOK
  <2>11. ASSUME NEW d \in Customers
         PROVE  ReadAccounted(taking[d])'
    <3>1. CASE ~(taking'[d].on /\ taking'[d].read)
      BY <3>1 DEF ReadAccounted
    <3>2. CASE taking'[d].on /\ taking'[d].read
      <4>1. taking'[d] = taking[d] /\ taking[d].on /\ taking[d].read
        BY <1>3, <3>2
      <4>2. PICK t : t = taking[d]
        OBVIOUS
      <4>3. t.prod \in Products /\ t.left \in Nat /\ ReadAccounted(t) /\ t.on /\ t.read
        BY <4>1, <4>2, TakingType DEF StockInv
      <4>4. CASE t.prod = p
        <5>1. product'[p].status = "listed"
          BY <2>3
        <5>2. ~raced'[p] /\ ~t.old => t.left + taken'[p] >= supply'[p]
          BY <1>5, <2>1, <2>a, <2>b, <4>3, <4>4 DEF ReadAccounted, Listed
        <5> QED
          BY <4>1, <4>2, <4>4, <5>1, <5>2 DEF ReadAccounted, Listed
      <4>5. CASE t.prod # p
        BY <2>2, <2>4, <4>1, <4>2, <4>3, <4>5 DEF ReadAccounted, Listed
      <4> QED
        BY <4>4, <4>5
    <3> QED
      BY <3>1, <3>2
  <2> QED
    BY <2>7, <2>8, <2>10, <2>11 DEF StockInv
<1> QED
  BY <1>1, <1>4, <1>5 DEF TakeWrite, WriteStock

\* What a step of the farmer's device has to show, product by product.
LEMMA StockPerProduct ==
  ASSUME \A p \in Products :
           /\ Listed(p)' /\ ~raced'[p] => product'[p].qty + taken'[p] >= supply'[p]
           /\ Listed(p)' /\ product'[p].qty = 0 => product'[p].hidden
           /\ CopyAccounted(rows[p], p)'
           /\ CopyAccounted(selected[p], p)'
           /\ product'[p].status = "none" => rows'[p] = NoCopy /\ selected'[p] = NoCopy,
         \A c \in Customers : ReadAccounted(taking[c])'
  PROVE  StockInv'
BY DEF StockInv, StockAccounted, SoldOutHidden, Listed

LEMMA FetchInventoryStock ==
  ASSUME TypeOK, StockInv, FetchInventory, UNCHANGED cartPageVars
  PROVE  StockInv'
<1>1. UNCHANGED <<productVars, taking, selected>>
  BY DEF FetchInventory, storeVars, cartPageVars, checkoutVars
<1>2. ASSUME NEW p \in Products
      PROVE  CopyAccounted(rows[p], p)' /\ (~Listed(p) => rows'[p] = NoCopy)
  <2>1. CASE Listed(p)
    <3>1. rows'[p] = CopyOf(p)
      BY <2>1 DEF FetchInventory
    <3> QED
      BY <1>1, <2>1, <3>1 DEF CopyAccounted, CopyOf, StockInv, StockAccounted,
         SoldOutHidden, Listed, productVars
  <2>2. CASE ~Listed(p)
    <3>1. rows'[p] = NoCopy
      BY <2>2 DEF FetchInventory
    <3> QED
      BY <2>2, <3>1 DEF CopyAccounted
  <2> QED
    BY <2>1, <2>2
<1> QED
  BY <1>1, <1>2 DEF StockInv, StockAccounted, SoldOutHidden, CopyAccounted,
     ReadAccounted, Listed, productVars

LEMMA SelectStock ==
  ASSUME TypeOK, StockInv, NEW p \in Products, Select(p), UNCHANGED cartPageVars
  PROVE  StockInv'
<1>1. UNCHANGED <<productVars, taking, rows>>
  BY DEF Select, storeVars, cartPageVars, checkoutVars
<1>2. \A q \in Products : selected'[q] = rows[q] \/ selected'[q] = NoCopy
  BY DEF Select
<1> QED
  BY <1>1, <1>2 DEF StockInv, StockAccounted, SoldOutHidden, CopyAccounted,
     ReadAccounted, Listed, productVars

LEMMA WritePromotionStock ==
  ASSUME TypeOK, StockInv, NEW p \in Products, WritePromotion(p),
         UNCHANGED cartPageVars
  PROVE  StockInv'
<1>1. UNCHANGED <<taking, rows, selected>>
  BY DEF WritePromotion, cartPageVars, checkoutVars
<1>2. CASE UNCHANGED productVars
  BY <1>1, <1>2, StockFrame DEF stockInvVars
<1>3. CASE WriteCopy(p, selected[p]) /\ Listed(p)
  <2>1. PICK copy : copy = selected[p]
    OBVIOUS
  <2>2. /\ copy \in Copy /\ copy # NoCopy /\ CopyAccounted(copy, p)
        /\ copy.qty \in Nat
    BY <2>1 DEF WritePromotion, StockInv, TypeOK, InventoryTypeOK, Copy, NoCopy
  <2>3. /\ product'[p] = [status |-> "listed", qty |-> copy.qty,
                          hidden |-> product[p].hidden \/ copy.hidden]
        /\ raced'[p] = (raced[p] \/ copy.old)
        /\ \A q \in Products : q # p => product'[q] = product[q] /\ raced'[q] = raced[q]
        /\ UNCHANGED <<supply, taken>>
    BY <1>3, <2>1 DEF TypeOK, StoreTypeOK, WriteCopy
  <2>4. ~raced'[p] => ~raced[p] /\ ~copy.old
    BY <2>3, Zenon
  <2>5. Listed(p)' /\ product'[p].status # "none"
    BY <2>3 DEF Listed
  <2>6. ~raced'[p] => product'[p].qty + taken'[p] >= supply'[p]
    BY <1>3, <2>2, <2>3, <2>4 DEF CopyAccounted
  <2>7. product'[p].qty = 0 => product'[p].hidden
    <3>1. product'[p].qty = 0 => copy.hidden
      BY <2>2, <2>3 DEF CopyAccounted
    <3>2. product'[p].hidden = (product[p].hidden \/ copy.hidden)
      BY <2>3
    <3> QED
      BY <3>1, <3>2, Zenon
  <2>8. \A q \in Products : CopyAccounted(rows[q], q)' /\ CopyAccounted(selected[q], q)'
    BY <1>1, <1>3, <2>3, <2>4 DEF StockInv, CopyAccounted, Listed
  <2>9. \A c \in Customers : ReadAccounted(taking[c])'
    <3> SUFFICES ASSUME NEW c \in Customers, taking[c].on, taking[c].read
                 PROVE  ReadAccounted(taking[c])'
      BY <1>1 DEF ReadAccounted
    <3>1. taking[c].prod \in Products /\ ReadAccounted(taking[c])
      BY TakingType DEF StockInv
    <3> QED
      BY <1>1, <1>3, <2>3, <2>4, <2>5, <3>1 DEF ReadAccounted, Listed
  <2>10. ASSUME NEW q \in Products
         PROVE  /\ Listed(q)' /\ ~raced'[q] => product'[q].qty + taken'[q] >= supply'[q]
                /\ Listed(q)' /\ product'[q].qty = 0 => product'[q].hidden
                /\ product'[q].status = "none" => rows'[q] = NoCopy /\ selected'[q] = NoCopy
    BY <1>1, <2>3, <2>5, <2>6, <2>7 DEF StockInv, StockAccounted, SoldOutHidden, Listed
  <2> QED
    BY <2>8, <2>9, <2>10, StockPerProduct
<1> QED
  BY <1>2, <1>3 DEF WritePromotion, WriteCopy

LEMMA PostProductStock ==
  ASSUME TypeOK, StockInv, NEW p \in Products, NEW n \in 1 .. MaxQty,
         PostProduct(p, n), UNCHANGED cartPageVars
  PROVE  StockInv'
<1>1. UNCHANGED <<taking, rows, selected>>
  BY DEF PostProduct, cartPageVars, checkoutVars
<1>2. /\ product[p].status = "none"
      /\ product'[p] = [status |-> "listed", qty |-> n, hidden |-> FALSE]
      /\ supply'[p] = n
      /\ \A q \in Products : q # p => product'[q] = product[q] /\ supply'[q] = supply[q]
      /\ UNCHANGED <<taken, raced>>
  BY DEF PostProduct, AddProduct, TypeOK, StoreTypeOK
<1>3. taken[p] \in Nat /\ rows[p] = NoCopy /\ selected[p] = NoCopy
  BY <1>2 DEF TypeOK, StoreTypeOK, StockInv
<1>4. product'[p].qty + taken'[p] >= supply'[p] /\ product'[p].qty # 0
      /\ product'[p].status = "listed"
  BY <1>2, <1>3
<1>5. \A c \in Customers : ReadAccounted(taking[c])'
  <2> SUFFICES ASSUME NEW c \in Customers, taking[c].on, taking[c].read
               PROVE  ReadAccounted(taking[c])'
    BY <1>1 DEF ReadAccounted
  <2>1. taking[c].prod \in Products /\ ReadAccounted(taking[c]) /\ taking[c].prod # p
    BY <1>2, TakingType DEF StockInv, ReadAccounted
  <2> QED
    BY <1>1, <1>2, <2>1 DEF ReadAccounted, Listed
<1>6. ASSUME NEW q \in Products
      PROVE  /\ Listed(q)' /\ ~raced'[q] => product'[q].qty + taken'[q] >= supply'[q]
             /\ Listed(q)' /\ product'[q].qty = 0 => product'[q].hidden
             /\ CopyAccounted(rows[q], q)'
             /\ CopyAccounted(selected[q], q)'
             /\ product'[q].status = "none" => rows'[q] = NoCopy /\ selected'[q] = NoCopy
  BY <1>1, <1>2, <1>3, <1>4 DEF StockInv, StockAccounted, SoldOutHidden,
     CopyAccounted, Listed
<1> QED
  BY <1>5, <1>6, StockPerProduct

LEMMA RemoveProductStock ==
  ASSUME TypeOK, StockInv, NEW p \in Products, RemoveProduct(p),
         UNCHANGED cartPageVars
  PROVE  StockInv'
<1>1. /\ UNCHANGED <<taking, selected, supply, taken, raced>>
      /\ \A q \in Products : rows'[q] = rows[q] \/ rows'[q] = NoCopy
  BY DEF RemoveProduct, DeleteProduct, cartPageVars, checkoutVars, TypeOK,
         InventoryTypeOK
<1>2. /\ product'[p].status = "deleted"
      /\ \A q \in Products : q # p => product'[q] = product[q]
  BY DEF RemoveProduct, DeleteProduct, TypeOK, StoreTypeOK
<1>3. \A c \in Customers : ReadAccounted(taking[c])'
  <2> SUFFICES ASSUME NEW c \in Customers, taking[c].on, taking[c].read
               PROVE  ReadAccounted(taking[c])'
    BY <1>1 DEF ReadAccounted
  <2>1. taking[c].prod \in Products /\ ReadAccounted(taking[c])
    BY TakingType DEF StockInv
  <2> QED
    BY <1>1, <1>2, <2>1 DEF ReadAccounted, Listed
<1>4. ASSUME NEW q \in Products
      PROVE  /\ Listed(q)' /\ ~raced'[q] => product'[q].qty + taken'[q] >= supply'[q]
             /\ Listed(q)' /\ product'[q].qty = 0 => product'[q].hidden
             /\ CopyAccounted(rows[q], q)'
             /\ CopyAccounted(selected[q], q)'
             /\ product'[q].status = "none" => rows'[q] = NoCopy /\ selected'[q] = NoCopy
  <2>1. CASE q = p
    BY <1>1, <1>2, <2>1 DEF StockInv, CopyAccounted, Listed
  <2>2. CASE q # p
    BY <1>1, <1>2, <2>2 DEF StockInv, StockAccounted, SoldOutHidden, CopyAccounted, Listed
  <2> QED
    BY <2>1, <2>2
<1> QED
  BY <1>3, <1>4, StockPerProduct

LEMMA FarmerSavesStock ==
  ASSUME TypeOK, StockInv, NEW p \in Products, NEW n \in 1 .. MaxQty,
         FarmerSaves(p, n)
  PROVE  StockInv'
<1>1. /\ Listed(p)
      /\ product'[p] = [status |-> "listed", qty |-> n, hidden |-> TRUE]
      /\ supply'[p] = n + taken[p]
      /\ raced'[p] = FALSE
      /\ UNCHANGED taken
      /\ \A q \in Products : q # p => /\ product'[q] = product[q]
                                      /\ supply'[q] = supply[q] /\ raced'[q] = raced[q]
  BY DEF FarmerSaves, UpdateProduct, SaveProduct, TypeOK, StoreTypeOK
<1>2. /\ rows'[p] = Older(rows[p]) /\ selected'[p] = Older(selected[p])
      /\ \A q \in Products : q # p => rows'[q] = rows[q] /\ selected'[q] = selected[q]
  BY DEF FarmerSaves, UpdateProduct, TypeOK, InventoryTypeOK
<1>3. taken[p] \in Nat /\ n # 0 /\ product'[p].qty = n /\ product'[p].hidden
      /\ product'[p].status = "listed"
  BY <1>1 DEF TypeOK, StoreTypeOK
<1>4. ASSUME NEW copy \in Copy, CopyAccounted(copy, p)
      PROVE  LET o == Older(copy) IN o # NoCopy =>
               /\ o.qty = 0 => o.hidden
               /\ o.old
  BY <1>4 DEF CopyAccounted, Older, Copy, NoCopy
<1>5. CopyAccounted(rows[p], p)' /\ CopyAccounted(selected[p], p)'
  <2>1. rows[p] \in Copy /\ selected[p] \in Copy
        /\ CopyAccounted(rows[p], p) /\ CopyAccounted(selected[p], p)
    BY DEF TypeOK, InventoryTypeOK, StockInv
  <2> QED
    BY <1>2, <1>4, <2>1 DEF CopyAccounted
<1>6. \A c \in Customers : ReadAccounted(taking[c])'
  <2> SUFFICES ASSUME NEW c \in Customers PROVE ReadAccounted(taking[c])'
    OBVIOUS
  <2>1. taking[c] \in Taking /\ ReadAccounted(taking[c])
    BY DEF TypeOK, CartPageTypeOK, StockInv
  <2>2. CASE taking[c].on /\ taking[c].read /\ taking[c].prod = p
    <3>1. taking'[c] = [taking[c] EXCEPT !.old = TRUE]
      BY <2>2 DEF FarmerSaves
    <3>2. taking'[c].on /\ taking'[c].prod = p /\ taking'[c].old
      BY <2>1, <2>2, <3>1 DEF Taking
    <3> QED
      BY <1>3, <3>2 DEF ReadAccounted
  <2>3. CASE ~(taking[c].on /\ taking[c].read /\ taking[c].prod = p)
    <3>1. taking'[c] = taking[c]
      BY <2>3 DEF FarmerSaves
    <3>2. taking[c].on /\ taking[c].read => taking[c].prod \in Products /\ taking[c].prod # p
      BY <2>1, <2>3 DEF Taking
    <3> QED
      BY <1>1, <2>1, <3>1, <3>2 DEF ReadAccounted, Listed
  <2> QED
    BY <2>2, <2>3
<1>7. ASSUME NEW q \in Products
      PROVE  /\ Listed(q)' /\ ~raced'[q] => product'[q].qty + taken'[q] >= supply'[q]
             /\ Listed(q)' /\ product'[q].qty = 0 => product'[q].hidden
             /\ CopyAccounted(rows[q], q)'
             /\ CopyAccounted(selected[q], q)'
             /\ product'[q].status = "none" => rows'[q] = NoCopy /\ selected'[q] = NoCopy
  <2>1. CASE q = p
    BY <1>1, <1>3, <1>5, <2>1
  <2>2. CASE q # p
    BY <1>1, <1>2, <2>2 DEF StockInv, StockAccounted, SoldOutHidden, CopyAccounted, Listed
  <2> QED
    BY <2>1, <2>2
<1> QED
  BY <1>6, <1>7, StockPerProduct

LEMMA StockStart == Init => StockInv
<1> SUFFICES ASSUME Init PROVE StockInv
  OBVIOUS
<1>1. TypeOK
  BY InitTypes
<1>2. \A p \in Products :
        /\ supply[p] = product[p].qty /\ taken[p] = 0 /\ product[p].qty \in Nat
        /\ rows[p] = NoCopy /\ selected[p] = NoCopy
        /\ product[p].status = "listed" => product[p].qty \in 1 .. MaxQty
  BY <1>1 DEF Init, StoreInit, InventoryInit, TypeOK, StoreTypeOK, Product
<1>3. \A c \in Customers : ~taking[c].on
  BY DEF Init, CartPageInit, NoTaking
<1> QED
  BY <1>2, <1>3 DEF StockInv, StockAccounted, SoldOutHidden, CopyAccounted,
     ReadAccounted, Listed

LEMMA StockStep == TypeOK /\ StockInv /\ [Next]_vars => StockInv'
<1> SUFFICES ASSUME TypeOK, StockInv, [Next]_vars PROVE StockInv'
  OBVIOUS
<1>1. ASSUME NEW c \in Customers, CustomerStep(c), UNCHANGED inventoryVars
      PROVE  StockInv'
  <2>1. CASE \E i \in todo[c] : TakeNext(c, i)
    BY <1>1, <2>1, TakeNextStock
  <2>2. CASE TakeRead(c)
    BY <1>1, <2>2, TakeReadStock
  <2>3. CASE TakeWrite(c)
    BY <1>1, <2>3, TakeWriteStock
  <2>4. CASE ~TakeWrite(c) /\ ~TakeRead(c) /\ \A i \in todo[c] : ~TakeNext(c, i)
    BY <1>1, <2>4, QuietSteps, StockFrame DEF stockInvVars, inventoryVars
  <2> QED
    BY <2>1, <2>2, <2>3, <2>4
<1>2. CASE FetchInventory /\ UNCHANGED cartPageVars
  BY <1>2, FetchInventoryStock
<1>3. ASSUME NEW p \in Products, FarmerStep(p), UNCHANGED cartPageVars
      PROVE  StockInv'
  BY <1>3, SelectStock, WritePromotionStock, PostProductStock, RemoveProductStock
     DEF FarmerStep
<1>4. ASSUME NEW p \in Products, NEW n \in 1 .. MaxQty, FarmerSaves(p, n)
      PROVE  StockInv'
  BY <1>4, FarmerSavesStock
<1>5. CASE UNCHANGED vars
  BY <1>5, StockFrame DEF vars, storeVars, cartPageVars, checkoutVars, inventoryVars,
     stockInvVars
<1> QED
  BY <1>1, <1>2, <1>3, <1>4, <1>5 DEF Next

\* StockInv holds in every reachable state.
THEOREM ShopStock == Spec => []StockInv
<1>1. Init => TypeOK /\ StockInv
  BY InitTypes, StockStart
<1>2. TypeOK /\ StockInv /\ [Next]_vars => (TypeOK /\ StockInv)'
  BY TypeStep, StockStep
<1> QED
  BY <1>1, <1>2, PTL DEF Spec

\* Stock never disappears unsold: what is left of a product and what
\* checkouts took make up what the farmer put on sale, unless a copy older
\* than his last edit was written after it (updateProductQty writes what an
\* earlier read found, createPromotion a whole product).
THEOREM ShopStockAccounted == Spec => []StockAccounted
<1>1. StockInv => StockAccounted
  BY DEF StockInv
<1> QED
  BY <1>1, ShopStock, PTL

\* A product that updateProductQty has brought to zero is hidden, and stays
\* so when a promotion writes an older copy of it.
THEOREM ShopSoldOutHidden == Spec => []SoldOutHidden
<1>1. StockInv => SoldOutHidden
  BY DEF StockInv
<1> QED
  BY <1>1, ShopStock, PTL

LEMMA HiddenStep ==
  ASSUME TypeOK, [Next]_vars, NEW p \in Products,
         Listed(p), product[p].hidden, Listed(p)'
  PROVE  product'[p].hidden
<1>1. CASE UNCHANGED product
  BY <1>1
<1>2. ASSUME NEW q \in Products, NEW n \in Nat, NEW b,
             product' = [product EXCEPT ![q] =
                [status |-> "listed", qty |-> n, hidden |-> product[q].hidden \/ b]]
      PROVE  product'[p].hidden
  <2>1. CASE q = p
    <3>1. product'[p].hidden = (product[p].hidden \/ b)
      BY <1>2, <2>1 DEF TypeOK, StoreTypeOK
    <3> QED
      BY <3>1, Zenon
  <2>2. CASE q # p
    BY <1>2, <2>2 DEF TypeOK, StoreTypeOK
  <2> QED
    BY <2>1, <2>2
<1>3. ASSUME NEW c \in Customers, CustomerStep(c)
      PROVE  product'[p].hidden
  <2>1. CASE TakeRead(c) \/ \E i \in todo[c] : TakeNext(c, i)
    BY <1>1, <2>1 DEF TakeRead, TakeNext, storeVars, productVars
  <2>2. CASE TakeWrite(c)
    <3>1. PICK q \in Products, n \in Int, left \in Nat, old \in BOOLEAN :
            q = taking[c].prod /\ n = taking[c].qty /\ left = taking[c].left
            /\ old = taking[c].old
      BY <2>2, TakingType DEF TakeWrite
    <3>2. AtLeast0(left - n) \in Nat
      BY AtLeast0Nat
    <3>3. CASE UNCHANGED productVars
      BY <1>1, <3>3 DEF productVars
    <3>4. CASE WriteStock(q, left, n, old) /\ Listed(q)
      BY <1>2, <3>2, <3>4 DEF WriteStock
    <3> QED
      BY <2>2, <3>1, <3>3, <3>4 DEF TakeWrite, WriteStock
  <2>3. CASE ~TakeWrite(c) /\ ~TakeRead(c) /\ \A i \in todo[c] : ~TakeNext(c, i)
    BY <1>1, <1>3, <2>3, QuietSteps DEF productVars
  <2> QED
    BY <2>1, <2>2, <2>3
<1>4. CASE FetchInventory
  BY <1>1, <1>4 DEF FetchInventory, storeVars, productVars
<1>5. ASSUME NEW q \in Products, FarmerStep(q)
      PROVE  product'[p].hidden
  <2>1. CASE Select(q)
    BY <1>1, <2>1 DEF Select, storeVars, productVars
  <2>2. CASE WritePromotion(q)
    <3>1. CASE UNCHANGED productVars
      BY <1>1, <3>1 DEF productVars
    <3>2. CASE WriteCopy(q, selected[q]) /\ Listed(q)
      <4>1. selected[q].qty \in Nat
        BY <2>2 DEF WritePromotion, TypeOK, InventoryTypeOK, Copy, NoCopy
      <4> QED
        BY <1>2, <3>2, <4>1 DEF WriteCopy
    <3> QED
      BY <2>2, <3>1, <3>2 DEF WritePromotion, WriteCopy
  <2>3. ASSUME NEW n \in 1 .. MaxQty, PostProduct(q, n)
        PROVE  product'[p].hidden
    BY <2>3 DEF PostProduct, AddProduct, TypeOK, StoreTypeOK, Listed
  <2>4. CASE RemoveProduct(q)
    BY <2>4 DEF RemoveProduct, DeleteProduct, TypeOK, StoreTypeOK, Listed
  <2> QED
    BY <1>5, <2>1, <2>2, <2>3, <2>4 DEF FarmerStep
<1>6. ASSUME NEW q \in Products, NEW n \in 1 .. MaxQty, FarmerSaves(q, n)
      PROVE  product'[p].hidden
  BY <1>6 DEF FarmerSaves, UpdateProduct, SaveProduct, TypeOK, StoreTypeOK
<1>7. CASE UNCHANGED vars
  BY <1>1, <1>7 DEF vars, storeVars, productVars
<1> QED
  BY <1>3, <1>4, <1>5, <1>6, <1>7 DEF Next

\* Once hidden, a product is never shown again: the product form writes
\* isHidden = true with every edit, a promotion writes the flag only if its
\* copy has it, and updateProductQty only ever sets it.
THEOREM ShopHiddenForGood == Spec => HiddenForGood
<1>1. TypeOK /\ [Next]_vars =>
        [\A p \in Products :
           Listed(p) /\ product[p].hidden /\ Listed(p)' => product'[p].hidden]_vars
  BY HiddenStep
<1> QED
  BY <1>1, ShopTypes, PTL DEF Spec, HiddenForGood

----------------------------------------------------------------------------
\* The checkout: CheckoutInv is inductive, given the types.

\* What CheckoutOf is about.
checkoutInvVars == <<list, op, stage, owed, placed, moved, todo, taking>>

LEMMA SubstOnePerProduct ==
  ASSUME NEW S, NEW i, NEW j, j.prod = i.prod, OnePerProduct(S)
  PROVE  /\ OnePerProduct(Subst(S, i, j))
         /\ \A k \in Subst(S, i, j) : \E m \in S : m.prod = k.prod
BY DEF OnePerProduct, Subst

LEMMA SubstCovered ==
  ASSUME NEW S \in SUBSET Item, NEW i \in Item, NEW j \in Item,
         NEW owes \in [Products -> Int],
         j.prod = i.prod, j.qty <= i.qty, Covered(S, owes)
  PROVE  Covered(Subst(S, i, j), owes)
<1>1. i.qty \in Int /\ j.qty \in Int /\ i.prod \in Products
  BY DEF Item, CartQty
<1>2. AtLeast0(j.qty) <= AtLeast0(i.qty) /\ AtLeast0(j.qty) \in Int
      /\ AtLeast0(i.qty) \in Int
  BY <1>1, AtLeast0Monotone, AtLeast0Nat
<1>3. i \in S => AtLeast0(j.qty) <= owes[j.prod]
  BY <1>1, <1>2 DEF Covered
<1> QED
  BY <1>3 DEF Covered, Subst

\* getCartProducts empties the list; what updateProduct still iterates is
\* left alone or dropped, unless `moved' records that it changed.
LEMMA ReloadCheckout ==
  ASSUME TypeOK, NEW c \in Customers, CheckoutOf(c), NEW i, NEW j, ReloadWith(c, i, j),
         i = j \/ j.prod = i.prod
  PROVE  CheckoutOf(c)'
<1>1. /\ list'[c] = {}
      /\ todo'[c] = IF tied[c] THEN {} ELSE Subst(todo[c], i, j)
      /\ moved'[c] = (moved[c] \/ stage[c] = "placing" \/ (~tied[c] /\ i \in todo[c]))
      /\ UNCHANGED <<stage, owed, placed, taking>>
  BY DEF TypeOK, CartPageTypeOK, ReloadWith
<1>2. /\ OnePerProduct(todo'[c])
      /\ \A k \in todo'[c] : \E m \in todo[c] : m.prod = k.prod
  BY <1>1, SubstOnePerProduct, SubstSelf DEF CheckoutOf, OnePerProduct
<1>3. taking'[c].on => \A k \in todo'[c] : k.prod # taking'[c].prod
  BY <1>1, <1>2 DEF CheckoutOf
<1>4. todo[c] = {} => todo'[c] = {}
  BY <1>1 DEF Subst
<1>5. ~moved'[c] => ~moved[c] /\ stage[c] # "placing" /\ (tied[c] \/ i \notin todo[c])
  BY <1>1, Zenon
<1>6. ~moved'[c] => todo'[c] = {} \/ todo'[c] = todo[c]
  BY <1>1, <1>5 DEF Subst
<1>7. PlacingInv(c)'
  BY <1>1, <1>4, <1>5 DEF CheckoutOf, PlacingInv
<1>8. TakingInv(c)'
  BY <1>1, <1>5, <1>6 DEF CheckoutOf, TakingInv, Covered
<1> QED
  BY <1>1, <1>2, <1>3, <1>7, <1>8 DEF CheckoutOf, OnePerProduct

\* The answer of getCartProducts: one object per product, each with an id.
LEMMA NewListCheckout ==
  ASSUME TypeOK, NEW c \in Customers, CheckoutOf(c),
         NEW ids \in SUBSET InCart(c), NEW f \in FetchStage, NewList(c, f, ids),
         \A i, k \in ids : cart[c][i].prod = cart[c][k].prod => i = k
  PROVE  CheckoutOf(c)'
<1>1. /\ list'[c] = {[id |-> i, prod |-> cart[c][i].prod, qty |-> cart[c][i].qty,
                      checking |-> TRUE] : i \in ids}
      /\ moved'[c] = (moved[c] \/ stage[c] = "placing")
      /\ UNCHANGED <<op, stage, owed, placed, todo, taking>>
  BY DEF TypeOK, CartPageTypeOK, NewList
<1>2. OnePerProduct(list'[c]) /\ \A i \in list'[c] : i.id # 0
  <2>1. ASSUME NEW a \in list'[c]
        PROVE  \E i \in ids : a = [id |-> i, prod |-> cart[c][i].prod,
                                   qty |-> cart[c][i].qty, checking |-> TRUE]
    BY <1>1
  <2>2. \A i \in ids : i # 0
    BY DEF InCart, Ids
  <2>3. \A a \in list'[c] : a.id # 0
    BY <2>1, <2>2
  <2>4. ASSUME NEW a \in list'[c], NEW b \in list'[c], a.prod = b.prod
        PROVE  a = b
    <3>1. PICK i \in ids : a = [id |-> i, prod |-> cart[c][i].prod,
                                qty |-> cart[c][i].qty, checking |-> TRUE]
      BY <2>1
    <3>2. PICK k \in ids : b = [id |-> k, prod |-> cart[c][k].prod,
                                qty |-> cart[c][k].qty, checking |-> TRUE]
      BY <2>1
    <3>3. cart[c][i].prod = cart[c][k].prod
      BY <2>4, <3>1, <3>2
    <3> QED
      BY <3>1, <3>2, <3>3
  <2> QED
    BY <2>3, <2>4 DEF OnePerProduct
<1>3. ~moved'[c] => ~moved[c] /\ stage[c] # "placing"
  BY <1>1, Zenon
<1> QED
  BY <1>1, <1>2, <1>3 DEF CheckoutOf, PlacingInv, TakingInv, Covered, OnePerProduct

LEMMA LandCheckout ==
  ASSUME TypeOK, NEW c \in Customers, CheckoutOf(c), Land(c) \/ LandEmpty(c)
  PROVE  CheckoutOf(c)'
<1>1. PICK f \in FetchStage, kept \in SUBSET InCart(c) :
        /\ \A j, k \in kept : cart[c][j].prod = cart[c][k].prod => j = k
        /\ NewList(c, f, kept)
  <2>1. CASE Land(c)
    BY <2>1 DEF Land, FetchStage
  <2>2. CASE LandEmpty(c)
    <3>1. {} \in SUBSET InCart(c) /\ "nothing" \in FetchStage /\ "items" \in FetchStage
      BY DEF FetchStage
    <3> QED
      BY <2>2, <3>1 DEF LandEmpty
  <2> QED
    BY <2>1, <2>2
<1> QED
  BY <1>1, NewListCheckout

\* A validation only lowers quantities, of objects in the list and of
\* objects that updateProduct has not reached.
LEMMA ValidateCheckout ==
  ASSUME TypeOK, NEW c \in Customers, CheckoutOf(c),
         NEW i \in list[c] \cup late[c], Validate(c, i)
  PROVE  CheckoutOf(c)'
<1>1. i \in Item
  BY DEF TypeOK, CartPageTypeOK
<1>2. i.prod \in Products /\ i.qty \in CartQty
  BY <1>1 DEF Item
<1>3. PICK n \in {TotalQty(i.prod), -1} : Validated(c, i, n)
  BY DEF Validate
<1>4. n \in CartQty
  BY <1>2, <1>3, TotalQtyType
<1>5. PICK v : v = IF i.qty > n THEN n ELSE i.qty
  OBVIOUS
<1>6. v \in CartQty /\ v <= i.qty
  BY <1>2, <1>4, <1>5 DEF CartQty
<1>7. PICK j : j = [i EXCEPT !.qty = v, !.checking = FALSE]
  OBVIOUS
<1>8. j \in Item /\ j.prod = i.prod /\ j.id = i.id /\ j.qty <= i.qty
  BY <1>1, <1>6, <1>7, ItemQty
<1>9. /\ list'[c] = Subst(list[c], i, j) /\ todo'[c] = Subst(todo[c], i, j)
      /\ op'[c] = SubstOp(op[c], i, j)
      /\ UNCHANGED <<stage, owed, placed, moved, taking>>
  BY <1>3, <1>5, <1>7 DEF TypeOK, CartPageTypeOK, Validated
<1>10. list[c] \in SUBSET Item /\ todo[c] \in SUBSET Item
       /\ owed[c] \in [Products -> Int]
  BY DEF TypeOK, CartPageTypeOK
<1>11. OnePerProduct(list'[c]) /\ OnePerProduct(todo'[c])
       /\ \A k \in todo'[c] : \E m \in todo[c] : m.prod = k.prod
  BY <1>8, <1>9, SubstOnePerProduct DEF CheckoutOf
<1>12. op'[c].kind \in {"none", "set", "drop", "sweep"} => \A k \in list'[c] : k.id # 0
  <2>1. op'[c].kind = op[c].kind
    BY <1>8, <1>9, SubstOpType DEF TypeOK, CartPageTypeOK
  <2> QED
    BY <1>8, <1>9, <2>1 DEF CheckoutOf, Subst
<1>13. taking'[c].on => \A k \in todo'[c] : k.prod # taking'[c].prod
  BY <1>9, <1>11 DEF CheckoutOf
<1>14. (list[c] # {} => list'[c] # {}) /\ (todo[c] = {} => todo'[c] = {})
  BY <1>9 DEF Subst
<1>15. /\ Covered(list[c], owed[c]) => Covered(list'[c], owed'[c])
       /\ Covered(todo[c], owed[c]) => Covered(todo'[c], owed'[c])
  BY <1>1, <1>8, <1>9, <1>10, SubstCovered
<1>16. PlacingInv(c)'
  BY <1>9, <1>14, <1>15 DEF CheckoutOf, PlacingInv
<1>17. TakingInv(c)'
  BY <1>9, <1>15 DEF CheckoutOf, TakingInv
<1> QED
  BY <1>11, <1>12, <1>13, <1>16, <1>17 DEF CheckoutOf

LEMMA AddNewCheckout ==
  ASSUME TypeOK, NEW c \in Customers, CheckoutOf(c),
         NEW p \in Products, NEW n \in 1 .. MaxAdd, AddNew(c, p, n)
  PROVE  CheckoutOf(c)'
<1>1. /\ list'[c] = list[c] \cup {[id |-> 0, prod |-> p, qty |-> n, checking |-> FALSE]}
      /\ op'[c].kind = "add"
      /\ UNCHANGED checkoutVars
  BY DEF TypeOK, CartPageTypeOK, AddNew
<1>2. op[c].kind = "none" /\ stage[c] = "idle"
  BY DEF AddNew, Tap, NoOp
<1>3. \A i \in list[c] : i.prod # p
  BY <1>2 DEF CheckoutOf, AddNew
<1>4. OnePerProduct(list'[c])
  <2>1. PICK k : k = [id |-> 0, prod |-> p, qty |-> n, checking |-> FALSE]
    OBVIOUS
  <2>2. k.prod = p /\ list'[c] = list[c] \cup {k}
    BY <1>1, <2>1
  <2> QED
    BY <1>3, <2>2 DEF CheckoutOf, OnePerProduct
<1>5. UNCHANGED <<stage, owed, placed, moved, todo, taking>>
  BY <1>1 DEF checkoutVars
<1>6. PlacingInv(c)'
  BY <1>2, <1>5 DEF PlacingInv
<1>7. TakingInv(c)'
  BY <1>5 DEF CheckoutOf, TakingInv, Covered
<1>8. OnePerProduct(todo'[c]) /\ (taking'[c].on => \A i \in todo'[c] : i.prod # taking'[c].prod)
  BY <1>5 DEF CheckoutOf
<1> QED
  BY <1>1, <1>4, <1>6, <1>7, <1>8 DEF CheckoutOf

LEMMA SetAnsweredCheckout ==
  ASSUME TypeOK, NEW c \in Customers, CheckoutOf(c), SetAnswered(c)
  PROVE  CheckoutOf(c)'
<1>1. PICK n : SetRefused(c, n) \/ SetWritten(c, n) \/ SetRemoved(c, n)
  BY DEF SetAnswered
<1>2. CASE SetRefused(c, n)
  <2>1. UNCHANGED <<list, checkoutVars>>
    BY <1>2 DEF SetRefused
  <2>2. \A i \in list[c] : i.id # 0
    BY DEF SetAnswered, CheckoutOf
  <2> QED
    BY <2>1, <2>2 DEF checkoutVars, CheckoutOf, PlacingInv, TakingInv, Covered,
       OnePerProduct
<1>3. CASE SetWritten(c, n)
  <2>1. op[c] \in Op /\ op[c].kind = "set"
    BY DEF TypeOK, CartPageTypeOK, SetAnswered
  <2>2. PICK i \in Item : i = op[c].item
    BY <2>1 DEF Op
  <2>3. PICK j : j = [i EXCEPT !.qty = op[c].qty]
    OBVIOUS
  <2>4. ReloadWith(c, i, j) /\ j.prod = i.prod
    BY <1>3, <2>2, <2>3 DEF SetWritten, Item
  <2> QED
    BY <2>4, ReloadCheckout
<1>4. CASE SetRemoved(c, n)
  BY <1>4, ReloadCheckout DEF SetRemoved, Reload
<1> QED
  BY <1>1, <1>2, <1>3, <1>4

LEMMA DropAgainCheckout ==
  ASSUME TypeOK, NEW c \in Customers, CheckoutOf(c), DropAgain(c)
  PROVE  CheckoutOf(c)'
<1>1. op[c].kind = "drop" /\ UNCHANGED <<list, checkoutVars>>
  BY DEF DropAgain
<1>2. \A i \in list[c] : i.id # 0
  BY <1>1 DEF CheckoutOf
<1> QED
  BY <1>1, <1>2 DEF checkoutVars, CheckoutOf, PlacingInv, TakingInv, Covered,
     OnePerProduct

LEMMA SweepCheckout ==
  ASSUME TypeOK, NEW c \in Customers, CheckoutOf(c), Sweep(c)
  PROVE  CheckoutOf(c)'
<1>1. /\ list'[c] \in SUBSET list[c]
      /\ todo'[c] = {} \/ todo'[c] = todo[c]
      /\ moved'[c] = (moved[c] \/ (stage[c] = "placing" /\ list'[c] # list[c]))
      /\ UNCHANGED <<stage, owed, placed, taking>>
  BY DEF TypeOK, CartPageTypeOK, Sweep
<1>2. ~moved'[c] => ~moved[c] /\ (stage[c] = "placing" => list'[c] = list[c])
  BY <1>1, Zenon
<1>3. \A i \in list'[c] : i.id # 0
  BY <1>1 DEF CheckoutOf, Sweep
<1>4. PlacingInv(c)'
  BY <1>1, <1>2 DEF CheckoutOf, PlacingInv, Covered
<1>5. TakingInv(c)'
  BY <1>1, <1>2 DEF CheckoutOf, TakingInv, Covered
<1> QED
  BY <1>1, <1>3, <1>4, <1>5 DEF CheckoutOf, OnePerProduct

\* postOrderComplete: the order lists every object of the list.
LEMMA CompleteCheckout ==
  ASSUME TypeOK, NEW c \in Customers, CheckoutOf(c), Complete(c)
  PROVE  CheckoutOf(c)'
<1>1. /\ stage'[c] = "placing" /\ ~placed'[c] /\ ~moved'[c]
      /\ owed'[c] = [p \in Products |-> Ordered(list[c], p)]
      /\ list[c] # {} /\ todo[c] = {} /\ taking[c] = NoTaking
      /\ UNCHANGED <<list, op, todo, taking>>
  BY DEF TypeOK, CartPageTypeOK, Complete
<1>2. list[c] \in SUBSET Item
  BY DEF TypeOK, CartPageTypeOK
<1>3. \A p \in Products : owed'[c][p] >= 0
  BY <1>1, <1>2, OrderedType
<1>4. ASSUME NEW i \in list[c]
      PROVE  AtLeast0(i.qty) <= owed'[c][i.prod]
  <2>1. i.prod \in Products /\ i.qty \in Int
    BY <1>2 DEF Item, CartQty
  <2>2. (CHOOSE k \in list[c] : k.prod = i.prod) = i
    BY DEF CheckoutOf, OnePerProduct
  <2>3. Ordered(list[c], i.prod) = AtLeast0(i.qty)
    BY <2>2 DEF Ordered
  <2> QED
    BY <1>1, <2>1, <2>3, AtLeast0Nat
<1>5. Covered(list'[c], owed'[c])
  BY <1>1, <1>4 DEF Covered
<1> QED
  BY <1>1, <1>3, <1>5 DEF CheckoutOf, PlacingInv, TakingInv, OnePerProduct, NoTaking,
     Covered

LEMMA PlacedCheckout ==
  ASSUME TypeOK, NEW c \in Customers, CheckoutOf(c), Placed(c)
  PROVE  CheckoutOf(c)'
<1>1. /\ stage[c] = "placing" /\ stage'[c] # "placing"
      /\ todo'[c] = IF list[c] = {} THEN todo[c] ELSE list[c]
      /\ UNCHANGED <<list, op, owed, moved, taking>>
  BY DEF TypeOK, CartPageTypeOK, Placed, pageVars
<1>2. todo[c] = {} /\ taking[c] = NoTaking /\ todo'[c] = list[c]
  BY <1>1 DEF CheckoutOf, PlacingInv
<1> QED
  BY <1>1, <1>2 DEF CheckoutOf, PlacingInv, TakingInv, OnePerProduct, NoTaking, Covered

LEMMA TakeNextCheckout ==
  ASSUME TypeOK, NEW c \in Customers, CheckoutOf(c), NEW i \in todo[c], TakeNext(c, i)
  PROVE  CheckoutOf(c)'
<1>1. /\ todo'[c] = todo[c] \ {i}
      /\ taking[c] = NoTaking
      /\ UNCHANGED <<list, op, stage, owed, placed, moved>>
      /\ taking'[c].on
      /\ taking'[c].prod = i.prod /\ taking'[c].qty = i.qty
  BY DEF TypeOK, CartPageTypeOK, TakeNext, pageVars
<1>2. stage[c] # "placing"
  BY DEF CheckoutOf, PlacingInv
<1>3. \A k \in todo'[c] : k.prod # i.prod
  BY <1>1 DEF CheckoutOf, OnePerProduct
<1>4. PlacingInv(c)'
  BY <1>1, <1>2 DEF PlacingInv
<1>5. TakingInv(c)'
  BY <1>1 DEF CheckoutOf, TakingInv, Covered, NoTaking
<1> QED
  BY <1>1, <1>3, <1>4, <1>5 DEF CheckoutOf, OnePerProduct, NoTaking

LEMMA TakeReadCheckout ==
  ASSUME TypeOK, NEW c \in Customers, CheckoutOf(c), TakeRead(c)
  PROVE  CheckoutOf(c)'
<1>1. /\ taking[c].on
      /\ UNCHANGED <<list, op, stage, owed, placed, moved, todo>>
  BY DEF TakeRead, pageVars
<1>2. taking[c] \in Taking /\ taking[c] # NoTaking
  BY <1>1 DEF TypeOK, CartPageTypeOK, NoTaking
<1>3. \/ taking'[c] = NoTaking
      \/ /\ taking'[c].prod = taking[c].prod
         /\ taking'[c].qty = taking[c].qty
  <2>1. PICK t : t = taking[c]
    OBVIOUS
  <2>2. PICK n : \/ taking' = [taking EXCEPT ![c] = NoTaking]
                 \/ taking' = [taking EXCEPT ![c] = [t EXCEPT !.read = TRUE, !.left = n]]
    BY <2>1 DEF TakeRead
  <2>3. taking'[c] = NoTaking \/ taking'[c] = [t EXCEPT !.read = TRUE, !.left = n]
    BY <2>2 DEF TypeOK, CartPageTypeOK
  <2>4. t \in [on : {TRUE}, prod : Products, qty : CartQty,
                read : BOOLEAN, left : Nat, old : BOOLEAN]
    BY <1>1, <1>2, <2>1 DEF Taking
  <2> QED
    BY <2>1, <2>3, <2>4
<1>4. PlacingInv(c)'
  BY <1>1, <1>2 DEF CheckoutOf, PlacingInv
<1>5. TakingInv(c)'
  BY <1>1, <1>3 DEF CheckoutOf, TakingInv, Covered, NoTaking
<1> QED
  BY <1>1, <1>3, <1>4, <1>5 DEF CheckoutOf, OnePerProduct, NoTaking

LEMMA TakeWriteCheckout ==
  ASSUME TypeOK, NEW c \in Customers, CheckoutOf(c), TakeWrite(c)
  PROVE  CheckoutOf(c)'
<1>1. /\ taking[c].on
      /\ taking'[c] = NoTaking
      /\ UNCHANGED <<list, op, stage, placed, moved, todo>>
  BY DEF TypeOK, CartPageTypeOK, TakeWrite, pageVars
<1>2. PICK p \in Products, n \in Int : p = taking[c].prod /\ n = taking[c].qty
  BY <1>1, TakingType
<1>3. AtLeast0(n) \in Nat
  BY AtLeast0Nat
<1>4. \/ owed'[c] = owed[c]
      \/ owed'[c] = [owed[c] EXCEPT ![p] = owed[c][p] - AtLeast0(n)]
  BY <1>2 DEF TypeOK, CartPageTypeOK, TakeWrite
<1>5. owed[c] \in [Products -> Int]
  BY DEF TypeOK, CartPageTypeOK
<1>6. stage[c] # "placing"
  BY <1>1 DEF CheckoutOf, PlacingInv, NoTaking
<1>7. PlacingInv(c)'
  BY <1>1, <1>6 DEF PlacingInv
<1>8. ASSUME placed[c], ~moved[c]
      PROVE  (\A q \in Products : owed'[c][q] >= 0) /\ Covered(todo'[c], owed'[c])
  <2>1. /\ \A q \in Products : owed[c][q] >= 0
        /\ Covered(todo[c], owed[c])
        /\ AtLeast0(n) <= owed[c][p]
        /\ \A i \in todo[c] : i.prod # p
    BY <1>1, <1>2, <1>8 DEF CheckoutOf, TakingInv
  <2>2. \A q \in Products : q # p => owed'[c][q] = owed[c][q]
    BY <1>4, <1>5
  <2>3. owed'[c][p] >= 0
    BY <1>3, <1>4, <1>5, <2>1
  <2>4. todo[c] \in SUBSET Item
    BY DEF TypeOK, CartPageTypeOK
  <2> QED
    BY <1>1, <2>1, <2>2, <2>3, <2>4 DEF Covered, Item
<1>9. TakingInv(c)'
  BY <1>1, <1>8 DEF TakingInv, NoTaking
<1> QED
  BY <1>1, <1>7, <1>9 DEF CheckoutOf, OnePerProduct, NoTaking

LEMMA FinishCheckout ==
  ASSUME TypeOK, NEW c \in Customers, CheckoutOf(c), Finish(c)
  PROVE  CheckoutOf(c)'
<1>1. /\ list'[c] = {} /\ stage'[c] = "idle"
      /\ todo'[c] = {} \/ todo'[c] = todo[c]
      /\ UNCHANGED <<op, owed, placed, moved, taking>>
  BY DEF TypeOK, CartPageTypeOK, Finish
<1> QED
  BY <1>1 DEF CheckoutOf, PlacingInv, TakingInv, OnePerProduct, Covered

LEMMA CheckoutFrame ==
  ASSUME NEW c, CheckoutOf(c),
         list'[c] = list[c], op'[c] = op[c], stage'[c] = stage[c], owed'[c] = owed[c],
         placed'[c] = placed[c], moved'[c] = moved[c], todo'[c] = todo[c],
         taking'[c] = taking[c]
  PROVE  CheckoutOf(c)'
BY DEF CheckoutOf, PlacingInv, TakingInv, Covered, OnePerProduct

\* One device's steps do not touch another's page.
LEMMA OthersPages ==
  ASSUME TypeOK, NEW c \in Customers, NEW d \in Customers, d # c, CustomerStep(c)
  PROVE  /\ list'[d] = list[d] /\ op'[d] = op[d] /\ stage'[d] = stage[d]
         /\ owed'[d] = owed[d] /\ placed'[d] = placed[d] /\ moved'[d] = moved[d]
         /\ todo'[d] = todo[d] /\ taking'[d] = taking[d] /\ parent'[d] = parent[d]
         /\ fetches'[d] = fetches[d] /\ crossed'[d] = crossed[d]
<1> USE DEF TypeOK, CartPageTypeOK, StoreTypeOK
<1>1. CASE ReadCart(c) \/ FindNothing(c) \/ Land(c) \/ LandEmpty(c)
  <2>1. CASE ReadCart(c) \/ FindNothing(c)
    BY <2>1 DEF ReadCart, FindNothing, FetchMoves, cartVars, checkoutVars
  <2>2. CASE Land(c) \/ LandEmpty(c)
    <3>1. CASE Land(c)
      BY <3>1 DEF Land, NewList
    <3>2. CASE LandEmpty(c)
      BY <3>2 DEF LandEmpty, NewList, cartVars
    <3> QED
      BY <2>2, <3>1, <3>2
  <2> QED
    BY <1>1, <2>1, <2>2
<1>2. CASE \E i \in list[c] \cup late[c] : Validate(c, i)
  BY <1>2 DEF Validate, Validated
<1>3. CASE Refresh(c) \/ ReloadLast(c)
  BY <1>3 DEF Refresh, ReloadLast, Reload, ReloadWith, storeVars, cartVars
<1>4. CASE \E p \in Products, n \in 1 .. MaxAdd : AddNew(c, p, n)
  BY <1>4 DEF AddNew, checkoutVars
<1>5. CASE \E i \in list[c], n \in 1 .. MaxAdd : AddMore(c, i, n)
  BY <1>5 DEF AddMore, ReloadWith
<1>6. CASE AddWrite(c)
  BY <1>6 DEF AddWrite, checkoutVars
<1>7. CASE \E i \in list[c] : SetQty(c, i, i.qty - 1) \/ SetQty(c, i, i.qty + 1)
  BY <1>7 DEF SetQty, storeVars, cartVars, checkoutVars
<1>8. CASE SetAnswered(c)
  BY <1>8 DEF SetAnswered, SetRefused, SetWritten, SetRemoved, Reload, ReloadWith,
     checkoutVars
<1>9. CASE DropAgain(c) \/ Sweep(c)
  BY <1>9 DEF DropAgain, Sweep, storeVars, cartVars, checkoutVars
<1>10. CASE Complete(c) \/ Placed(c) \/ EmptyCart(c) \/ Finish(c)
  <2>1. CASE Complete(c)
    BY <2>1 DEF Complete, storeVars, cartVars
  <2>2. CASE Placed(c)
    BY <2>2 DEF Placed, cartVars, pageVars
  <2>3. CASE EmptyCart(c)
    BY <2>3 DEF EmptyCart, pageVars
  <2>4. CASE Finish(c)
    BY <2>4 DEF Finish, storeVars, cartVars
  <2> QED BY <1>10, <2>1, <2>2, <2>3, <2>4
<1>11. CASE TakeRead(c) \/ \E i \in todo[c] : TakeNext(c, i)
  BY <1>11 DEF TakeRead, TakeNext, pageVars, storeVars, cartVars
<1>12. CASE TakeWrite(c)
  BY <1>12 DEF TakeWrite, pageVars, cartVars
<1> QED
  BY <1>1, <1>2, <1>3, <1>4, <1>5, <1>6, <1>7, <1>8, <1>9, <1>10, <1>11, <1>12
     DEF CustomerStep

LEMMA CustomerCheckout ==
  ASSUME TypeOK, NEW c \in Customers, CheckoutOf(c), CustomerStep(c)
  PROVE  CheckoutOf(c)'
<1>1. CASE ReadCart(c) \/ FindNothing(c)
  <2>1. UNCHANGED <<list, op, checkoutVars>>
    BY <1>1 DEF ReadCart, FindNothing, FetchMoves
  <2> QED
    BY <2>1, CheckoutFrame DEF checkoutVars
<1>2. CASE Land(c) \/ LandEmpty(c)
  BY <1>2, LandCheckout
<1>3. CASE \E i \in list[c] \cup late[c] : Validate(c, i)
  BY <1>3, ValidateCheckout
<1>4. CASE Refresh(c) \/ ReloadLast(c)
  BY <1>4, ReloadCheckout DEF Refresh, ReloadLast, Reload
<1>5. CASE \E p \in Products, n \in 1 .. MaxAdd : AddNew(c, p, n)
  BY <1>5, AddNewCheckout
<1>6. ASSUME NEW i \in list[c], NEW n \in 1 .. MaxAdd, AddMore(c, i, n)
      PROVE  CheckoutOf(c)'
  <2>1. i \in Item
    BY DEF TypeOK, CartPageTypeOK
  <2>2. PICK j : j = [i EXCEPT !.qty = i.qty + n]
    OBVIOUS
  <2>3. ReloadWith(c, i, j) /\ j.prod = i.prod
    BY <1>6, <2>1, <2>2 DEF AddMore, Item
  <2> QED
    BY <2>3, ReloadCheckout
<1>7. CASE AddWrite(c)
  <2>1. op'[c].kind = "reload" /\ UNCHANGED <<list, checkoutVars>>
    BY <1>7 DEF AddWrite, ReloadNext, TypeOK, CartPageTypeOK
  <2> QED
    BY <2>1 DEF checkoutVars, CheckoutOf, PlacingInv, TakingInv, Covered, OnePerProduct
<1>8. CASE \E i \in list[c] : SetQty(c, i, i.qty - 1) \/ SetQty(c, i, i.qty + 1)
  <2>1. op[c].kind = "none" /\ UNCHANGED <<list, checkoutVars>>
    BY <1>8 DEF SetQty, NoOp
  <2> QED
    BY <2>1 DEF checkoutVars, CheckoutOf, PlacingInv, TakingInv, Covered, OnePerProduct
<1>9. CASE SetAnswered(c)
  BY <1>9, SetAnsweredCheckout
<1>10. CASE DropAgain(c)
  BY <1>10, DropAgainCheckout
<1>11. CASE Sweep(c)
  BY <1>11, SweepCheckout
<1>12. CASE Complete(c)
  BY <1>12, CompleteCheckout
<1>13. CASE Placed(c)
  BY <1>13, PlacedCheckout
<1>14. CASE EmptyCart(c)
  BY <1>14 DEF EmptyCart, pageVars, CheckoutOf, PlacingInv, TakingInv, Covered,
     OnePerProduct, TypeOK, CartPageTypeOK
<1>15. CASE \E i \in todo[c] : TakeNext(c, i)
  BY <1>15, TakeNextCheckout
<1>16. CASE TakeRead(c)
  BY <1>16, TakeReadCheckout
<1>17. CASE TakeWrite(c)
  BY <1>17, TakeWriteCheckout
<1>18. CASE Finish(c)
  BY <1>18, FinishCheckout
<1> QED
  BY <1>1, <1>2, <1>3, <1>4, <1>5, <1>6, <1>7, <1>8, <1>9, <1>10, <1>11, <1>12,
     <1>13, <1>14, <1>15, <1>16, <1>17, <1>18 DEF CustomerStep

LEMMA CheckoutStart == Init => CheckoutInv
BY DEF Init, CartPageInit, CheckoutInv, CheckoutOf, PlacingInv, TakingInv, NoTaking,
   OnePerProduct, NoOp

LEMMA CheckoutStep == TypeOK /\ CheckoutInv /\ [Next]_vars => CheckoutInv'
<1> SUFFICES ASSUME TypeOK, CheckoutInv, [Next]_vars, NEW d \in Customers
             PROVE  CheckoutOf(d)'
  BY DEF CheckoutInv
<1>1. CheckoutOf(d)
  BY DEF CheckoutInv
<1>2. ASSUME NEW c \in Customers, CustomerStep(c)
      PROVE  CheckoutOf(d)'
  <2>1. CASE c = d
    BY <1>1, <1>2, <2>1, CustomerCheckout
  <2>2. CASE c # d
    BY <1>1, <1>2, <2>2, OthersPages, CheckoutFrame
  <2> QED
    BY <2>1, <2>2
<1>3. CASE UNCHANGED cartPageVars
  BY <1>1, <1>3, CheckoutFrame DEF cartPageVars, pageVars, checkoutVars
<1>4. ASSUME NEW p \in Products, NEW n \in 1 .. MaxQty, FarmerSaves(p, n)
      PROVE  CheckoutOf(d)'
  <2>1. UNCHANGED <<list, op, stage, owed, placed, moved, todo>>
    BY <1>4 DEF FarmerSaves, pageVars
  <2>2. taking[d] \in Taking /\ NoTaking.on = FALSE
    BY DEF TypeOK, CartPageTypeOK, NoTaking
  <2>3. \/ taking'[d] = taking[d]
        \/ /\ taking[d].on /\ taking'[d].on
           /\ taking'[d].prod = taking[d].prod /\ taking'[d].qty = taking[d].qty
    BY <1>4, <2>2 DEF FarmerSaves, Taking
  <2>4. taking'[d] = NoTaking \/ taking[d] # NoTaking
    BY <2>2, <2>3
  <2> QED
    BY <1>1, <2>1, <2>3, <2>4 DEF CheckoutOf, PlacingInv, TakingInv, Covered,
       OnePerProduct
<1>5. CASE UNCHANGED vars
  BY <1>3, <1>5 DEF vars
<1> QED
  BY <1>2, <1>3, <1>4, <1>5 DEF Next

\* CheckoutInv holds in every reachable state.
THEOREM ShopCheckout == Spec => []CheckoutInv
<1>1. Init => TypeOK /\ CheckoutInv
  BY InitTypes, CheckoutStart
<1>2. TypeOK /\ CheckoutInv /\ [Next]_vars => (TypeOK /\ CheckoutInv)'
  BY TypeStep, CheckoutStep
<1> QED
  BY <1>1, <1>2, PTL DEF Spec

\* A checkout takes from the stock at most what its order lists, although
\* updateProduct runs unawaited over the live list: validations only lower
\* its quantities, no product is in it twice, and once emptied it is dropped.
THEOREM ShopTakesOnlyWhatItOrdered == Spec => []TakesOnlyWhatItOrdered
<1>1. CheckoutInv => TakesOnlyWhatItOrdered
  BY DEF CheckoutInv, CheckoutOf, TakingInv, TakesOnlyWhatItOrdered
<1> QED
  BY <1>1, ShopCheckout, PTL

\* postOrderComplete fails about an order that exists only if getCartProducts
\* emptied or replaced the list while the order was being placed.
THEOREM ShopFailureOnlyAfterReload == Spec => FailureOnlyAfterReload
<1>1. ASSUME TypeOK, CheckoutInv, [Next]_vars, NEW d \in Customers,
             stage[d] = "placing", stage'[d] = "idle"
      PROVE  moved[d]
  <2>1. ASSUME NEW c \in Customers, CustomerStep(c)
        PROVE  moved[d]
    <3>1. c = d
      BY <1>1, <2>1, OthersPages
    <3>2. Placed(d) \/ stage'[d] = stage[d]
      <4>1. CASE ReadCart(d) \/ FindNothing(d) \/ Land(d) \/ LandEmpty(d)
        BY <4>1 DEF ReadCart, FindNothing, FetchMoves, Land, LandEmpty, NewList,
           checkoutVars
      <4>2. CASE \E i \in list[d] \cup late[d] : Validate(d, i)
        BY <4>2 DEF Validate, Validated
      <4>3. CASE Refresh(d) \/ ReloadLast(d)
        BY <4>3 DEF Refresh, ReloadLast, Reload, ReloadWith
      <4>4. CASE \E p \in Products, n \in 1 .. MaxAdd : AddNew(d, p, n)
        BY <4>4 DEF AddNew, checkoutVars
      <4>5. CASE \E i \in list[d], n \in 1 .. MaxAdd : AddMore(d, i, n)
        BY <4>5 DEF AddMore, ReloadWith
      <4>6. CASE AddWrite(d)
        BY <4>6 DEF AddWrite, checkoutVars
      <4>7. CASE \E i \in list[d] : SetQty(d, i, i.qty - 1) \/ SetQty(d, i, i.qty + 1)
        BY <4>7 DEF SetQty, checkoutVars
      <4>8. CASE SetAnswered(d)
        BY <4>8 DEF SetAnswered, SetRefused, SetWritten, SetRemoved, Reload,
           ReloadWith, checkoutVars
      <4>9. CASE \/ DropAgain(d) \/ Sweep(d) \/ TakeRead(d) \/ TakeWrite(d)
                 \/ \E i \in todo[d] : TakeNext(d, i)
        BY <4>9 DEF DropAgain, Sweep, TakeNext, TakeRead, TakeWrite, checkoutVars
      <4>10. CASE Complete(d) \/ EmptyCart(d) \/ Finish(d)
        BY <1>1, <4>10 DEF Complete, EmptyCart, Finish
      <4> QED
        BY <2>1, <3>1, <4>1, <4>2, <4>3, <4>4, <4>5, <4>6, <4>7, <4>8, <4>9, <4>10
           DEF CustomerStep
    <3>3. CASE Placed(d)
      <4>1. list[d] = {}
        BY <1>1, <3>3 DEF Placed, TypeOK, CartPageTypeOK
      <4> QED
        BY <1>1, <4>1 DEF CheckoutInv, CheckoutOf, PlacingInv
    <3> QED
      BY <1>1, <3>2, <3>3
  <2>2. CASE UNCHANGED stage
    BY <1>1, <2>2
  <2> QED
    BY <1>1, <2>1, <2>2 DEF Next, FarmerSaves, cartPageVars, checkoutVars, vars
<1>2. TypeOK /\ CheckoutInv /\ [Next]_vars =>
        [\A c \in Customers :
           stage[c] = "placing" /\ stage'[c] = "idle" /\ placed'[c] => moved[c]]_vars
  BY <1>1
<1> QED
  BY <1>2, ShopTypes, ShopCheckout, PTL DEF Spec, FailureOnlyAfterReload

----------------------------------------------------------------------------
\* The emptied cart: EmptiedInv is inductive, given the types.

LEMMA EmptiedFrame ==
  ASSUME NEW c, EmptiedOf(c),
         parent'[c] = parent[c], crossed'[c] = crossed[c], fetches'[c] = fetches[c],
         stage'[c] = stage[c], list'[c] = list[c]
  PROVE  EmptiedOf(c)'
BY DEF EmptiedOf

\* A fetch that starts now has yet to ask for the cart.
LEMMA ReloadEmptied ==
  ASSUME TypeOK, NEW c \in Customers, EmptiedOf(c), UNCHANGED parent,
         NEW i, NEW j, ReloadWith(c, i, j)
  PROVE  EmptiedOf(c)'
<1>1. /\ list'[c] = {} /\ fetches'[c]["items"] = fetches[c]["items"]
      /\ UNCHANGED <<stage, crossed>>
  BY DEF TypeOK, CartPageTypeOK, ReloadWith, FetchStage
<1> QED
  BY <1>1 DEF EmptiedOf

\* No cart, no items: fetchInitialCart goes on with the id null.
LEMMA FetchMovesEmptied ==
  ASSUME TypeOK, NEW c \in Customers, EmptiedOf(c), ReadCart(c) \/ FindNothing(c)
  PROVE  EmptiedOf(c)'
<1>1. fetches[c] \in [FetchStage -> Nat]
  BY DEF TypeOK, CartPageTypeOK
<1>2. UNCHANGED <<parent, crossed, stage, list>>
  BY DEF ReadCart, FindNothing, FetchMoves, cartVars, checkoutVars
<1>3. ~parent[c] => \/ FetchMoves(c, "cart", "nothing")
                    \/ FetchMoves(c, "items", "nothing")
  BY DEF ReadCart, FindNothing
<1>4. ~parent[c] => fetches'[c]["items"] = 0 \/ fetches[c]["items"] # 0
  BY <1>1, <1>3 DEF FetchMoves, FetchStage, TypeOK, CartPageTypeOK
<1> QED
  BY <1>2, <1>4 DEF EmptiedOf

LEMMA LandEmptied ==
  ASSUME TypeOK, NEW c \in Customers, EmptiedOf(c), Land(c) \/ LandEmpty(c)
  PROVE  EmptiedOf(c)'
<1>1. fetches[c] \in [FetchStage -> Nat]
  BY DEF TypeOK, CartPageTypeOK
<1>2. CASE Land(c)
  <2>1. fetches[c]["items"] > 0 /\ UNCHANGED <<parent, crossed>>
    BY <1>2 DEF Land, NewList
  <2> QED
    BY <2>1 DEF EmptiedOf
<1>3. CASE LandEmpty(c)
  <2>1. PICK f \in FetchStage : NewList(c, f, {})
    BY <1>3 DEF LandEmpty, FetchStage
  <2>2. list'[c] = {} /\ UNCHANGED <<parent, crossed>>
    BY <1>3, <2>1 DEF LandEmpty, NewList, cartVars, TypeOK, CartPageTypeOK
  <2>3. fetches[c]["items"] = 0 => fetches'[c]["items"] = 0
    BY <1>1, <2>1 DEF NewList, FetchStage, TypeOK, CartPageTypeOK
  <2> QED
    BY <2>2, <2>3 DEF EmptiedOf
<1> QED
  BY <1>2, <1>3

LEMMA CustomerEmptied ==
  ASSUME TypeOK, NEW c \in Customers, EmptiedOf(c), CustomerStep(c)
  PROVE  EmptiedOf(c)'
<1> USE DEF TypeOK, CartPageTypeOK, StoreTypeOK
<1>1. CASE ReadCart(c) \/ FindNothing(c)
  BY <1>1, FetchMovesEmptied
<1>2. CASE Land(c) \/ LandEmpty(c)
  BY <1>2, LandEmptied
<1>3. ASSUME NEW i \in list[c] \cup late[c], Validate(c, i)
      PROVE  EmptiedOf(c)'
  <2>1. PICK n : Validated(c, i, n)
    BY <1>3 DEF Validate
  <2>2. PICK j : list'[c] = Subst(list[c], i, j)
    BY <2>1 DEF Validated
  <2>3. list[c] = {} => list'[c] = {}
    BY <2>2 DEF Subst
  <2> QED
    BY <2>1, <2>3 DEF EmptiedOf, Validated
<1>4. CASE Refresh(c) \/ ReloadLast(c)
  BY <1>4, ReloadEmptied DEF Refresh, ReloadLast, Reload, storeVars, cartVars
<1>5. CASE \E p \in Products, n \in 1 .. MaxAdd : AddNew(c, p, n)
  BY <1>5 DEF AddNew, EmptiedOf
<1>6. CASE \E i \in list[c], n \in 1 .. MaxAdd : AddMore(c, i, n)
  BY <1>6, ReloadEmptied DEF AddMore
<1>7. CASE AddWrite(c)
  BY <1>7, EmptiedFrame DEF AddWrite, checkoutVars
<1>8. CASE \E i \in list[c] : SetQty(c, i, i.qty - 1) \/ SetQty(c, i, i.qty + 1)
  BY <1>8, EmptiedFrame DEF SetQty, storeVars, cartVars, checkoutVars
<1>9. CASE SetAnswered(c)
  <2>1. PICK n : SetRefused(c, n) \/ SetWritten(c, n) \/ SetRemoved(c, n)
    BY <1>9 DEF SetAnswered
  <2>2. UNCHANGED parent
    BY <1>9 DEF SetAnswered
  <2>3. CASE SetRefused(c, n)
    BY <2>2, <2>3, EmptiedFrame DEF SetRefused, checkoutVars
  <2>4. CASE SetWritten(c, n)
    BY <2>2, <2>4, ReloadEmptied DEF SetWritten
  <2>5. CASE SetRemoved(c, n)
    BY <2>2, <2>5, ReloadEmptied DEF SetRemoved, Reload
  <2> QED
    BY <2>1, <2>3, <2>4, <2>5
<1>10. CASE DropAgain(c)
  BY <1>10, EmptiedFrame DEF DropAgain, checkoutVars
<1>11. CASE Sweep(c)
  <2>1. list[c] = {} => list'[c] = {}
    BY <1>11 DEF Sweep
  <2> QED
    BY <1>11, <2>1 DEF Sweep, storeVars, cartVars, EmptiedOf
<1>12. CASE Complete(c)
  BY <1>12 DEF Complete, storeVars, cartVars, EmptiedOf
<1>13. CASE Placed(c)
  <2>1. stage'[c] = "idle" => list[c] = {}
    BY <1>13 DEF Placed
  <2> QED
    BY <1>13, <2>1 DEF Placed, cartVars, pageVars, EmptiedOf
<1>14. CASE EmptyCart(c)
  <2>1. stage'[c] = "dialog" /\ UNCHANGED fetches
    BY <1>14 DEF EmptyCart, pageVars
  <2>2. CASE UNCHANGED <<parent, crossed>>
    BY <2>1, <2>2 DEF EmptiedOf
  <2>3. CASE crossed' = [crossed EXCEPT ![c] = fetches[c]["items"] > 0]
    <3>1. fetches[c]["items"] \in Nat
      BY DEF FetchStage
    <3>2. crossed'[c] = (fetches[c]["items"] > 0)
      BY <2>3
    <3>3. ~crossed'[c] => ~(fetches[c]["items"] > 0)
      BY <3>2, Zenon
    <3>4. ~crossed'[c] => fetches[c]["items"] = 0
      BY <3>1, <3>3
    <3> QED
      BY <2>1, <3>4 DEF EmptiedOf
  <2> QED
    BY <1>14, <2>2, <2>3 DEF EmptyCart
<1>15. CASE TakeRead(c) \/ \E i \in todo[c] : TakeNext(c, i)
  BY <1>15, EmptiedFrame DEF TakeRead, TakeNext, pageVars, storeVars, cartVars
<1>16. CASE TakeWrite(c)
  BY <1>16, EmptiedFrame DEF TakeWrite, pageVars, cartVars
<1>17. CASE Finish(c)
  <2>1. list'[c] = {}
    BY <1>17 DEF Finish
  <2> QED
    BY <1>17, <2>1 DEF Finish, storeVars, cartVars, EmptiedOf
<1> QED
  BY <1>1, <1>2, <1>3, <1>4, <1>5, <1>6, <1>7, <1>8, <1>9, <1>10, <1>11, <1>12,
     <1>13, <1>14, <1>15, <1>16, <1>17 DEF CustomerStep

LEMMA EmptiedStart == Init => EmptiedInv
BY DEF Init, CartPageInit, EmptiedInv, EmptiedOf, NoFetch, FetchStage

LEMMA EmptiedStep == TypeOK /\ EmptiedInv /\ [Next]_vars => EmptiedInv'
<1> SUFFICES ASSUME TypeOK, EmptiedInv, [Next]_vars, NEW d \in Customers
             PROVE  EmptiedOf(d)'
  BY DEF EmptiedInv
<1>1. EmptiedOf(d)
  BY DEF EmptiedInv
<1>2. ASSUME NEW c \in Customers, CustomerStep(c)
      PROVE  EmptiedOf(d)'
  <2>1. CASE c = d
    BY <1>1, <1>2, <2>1, CustomerEmptied
  <2>2. CASE c # d
    BY <1>1, <1>2, <2>2, OthersPages, EmptiedFrame
  <2> QED
    BY <2>1, <2>2
<1>3. CASE UNCHANGED <<list, stage, parent, fetches, crossed>>
  BY <1>1, <1>3, EmptiedFrame
<1>4. CASE FetchInventory /\ UNCHANGED cartPageVars
  BY <1>3, <1>4 DEF FetchInventory, storeVars, cartVars, cartPageVars, pageVars,
     checkoutVars
<1>5. ASSUME NEW p \in Products, FarmerStep(p), UNCHANGED cartPageVars
      PROVE  EmptiedOf(d)'
  BY <1>3, <1>5 DEF FarmerStep, Select, WritePromotion, PostProduct, RemoveProduct,
     storeVars, cartVars, cartPageVars, pageVars, checkoutVars
<1>6. ASSUME NEW p \in Products, NEW n \in 1 .. MaxQty, FarmerSaves(p, n)
      PROVE  EmptiedOf(d)'
  BY <1>3, <1>6 DEF FarmerSaves, UpdateProduct, cartVars, pageVars
<1>7. CASE UNCHANGED vars
  BY <1>3, <1>7 DEF vars, storeVars, cartVars, cartPageVars, pageVars, checkoutVars
<1> QED
  BY <1>2, <1>4, <1>5, <1>6, <1>7 DEF Next

\* After a cartDelete the cart stays empty to the customer's eyes until he
\* adds something, although cartDelete leaves the documents of its items:
\* every fetch asks for the cart before it reads them.  Only one that had
\* asked before the deletion (`crossed') shows what was ordered once more.
THEOREM ShopEmptiedCart == Spec => []EmptiedCartShowsNothing
<1>1. Init => TypeOK /\ EmptiedInv
  BY InitTypes, EmptiedStart
<1>2. TypeOK /\ EmptiedInv /\ [Next]_vars => (TypeOK /\ EmptiedInv)'
  BY TypeStep, EmptiedStep
<1>3. EmptiedInv => EmptiedCartShowsNothing
  BY DEF EmptiedInv, EmptiedOf, EmptiedCartShowsNothing
<1> QED
  BY <1>1, <1>2, <1>3, PTL DEF Spec

=============================================================================
