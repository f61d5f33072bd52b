---------------------------- MODULE ProductStore ----------------------------
(***************************************************************************)
(* The `products' collection of one farmer and the `cart' collections of   *)
(* his customers, with the operations FirebaseHelper performs on them.     *)
(* Every write touches one document; the stock is decremented by a read    *)
(* and a write with nothing that ties them together.                       *)
(*                                                                         *)
(* A failed call is caught inside FirebaseHelper: a failed write is lost   *)
(* without notice, a failed read of the stock answers -1.  MaxUpsets       *)
(* bounds the failed calls and the farmer's writes together.               *)
(***************************************************************************)
EXTENDS Integers, FiniteSets

CONSTANTS
  Customers,  \* uids of customers, one device each
  Products,   \* document ids of products, each given to one product
  MaxQty,     \* bound on a quantity the farmer enters
  MaxAdd,     \* bound on the pieces of a product added to a cart at once
  MaxItems,   \* bound on the documents ever added to one customer's cart
  MaxUpsets   \* bound on failed calls and writes of the farmer together

ASSUME StoreAssumption ==
  /\ MaxQty \in Nat \ {0}
  /\ MaxAdd \in Nat
  /\ MaxItems \in Nat
  /\ MaxUpsets \in Nat

VARIABLES
  product,  \* [Products -> Product], the product documents
  parent,   \* [Customers -> BOOLEAN], document cart/{farmer} exists
  cart,     \* [Customers -> [Ids -> CartDoc or NoDoc]], its products
  nextId,   \* [Customers -> 1 .. MaxItems + 1], first cart id not yet used
  upsets,   \* number of failed calls and writes of the farmer so far
  supply,   \* history, [Products -> Nat]: what the farmer has put on sale
  taken,    \* history, [Products -> Nat]: what checkouts took of it
  raced     \* history, [Products -> BOOLEAN]: a copy of the stock that was
            \* read before the farmer's last edit was written after it

productVars == <<product, supply, taken, raced>>
cartVars == <<parent, cart, nextId>>
storeVars == <<productVars, cartVars, upsets>>

\* The quantity of a product in a cart; -1 comes from a failed stock read.
CartQty == {n \in Int : n >= -1}

Product == [status : {"none", "listed", "deleted"}, qty : Nat, hidden : BOOLEAN]

Ids == 1 .. MaxItems
NoDoc == [prod |-> "none", qty |-> 0]
CartDoc == [prod : Products, qty : CartQty]

StoreTypeOK ==
  /\ product \in [Products -> Product]
  /\ parent \in [Customers -> BOOLEAN]
  /\ cart \in [Customers -> [Ids -> CartDoc \cup {NoDoc}]]
  /\ nextId \in [Customers -> 1 .. MaxItems + 1]
  /\ upsets \in 0 .. MaxUpsets
  /\ supply \in [Products -> Nat]
  /\ taken \in [Products -> Nat]
  /\ raced \in [Products -> BOOLEAN]

StoreInit ==
  /\ product \in [Products -> {[status |-> "none", qty |-> 0, hidden |-> FALSE]}
                      \cup {[status |-> "listed", qty |-> n, hidden |-> FALSE] :
                              n \in 1 .. MaxQty}]
  /\ parent = [c \in Customers |-> FALSE]
  /\ cart = [c \in Customers |-> [i \in Ids |-> NoDoc]]
  /\ nextId = [c \in Customers |-> 1]
  /\ upsets = 0
  /\ supply = [p \in Products |-> product[p].qty]
  /\ taken = [p \in Products |-> 0]
  /\ raced = [p \in Products |-> FALSE]

(***************************************************************************)
(* Whether the call that an action makes succeeds.                         *)
(***************************************************************************)
Succeeds == UNCHANGED upsets

Upset ==
  /\ upsets < MaxUpsets
  /\ upsets' = upsets + 1

Fails == Upset

----------------------------------------------------------------------------
\* Product documents.

Listed(p) == product[p].status = "listed"

\* getProductTotalQty: -1 for a product that is not there.
TotalQty(p) == IF Listed(p) THEN product[p].qty ELSE -1

AtLeast0(n) == IF n < 0 THEN 0 ELSE n

\* What a caller of it gets: a failed read answers -1 as well.
ReadsTotal(p, n) ==
  \/ n = TotalQty(p) /\ Succeeds
  \/ n = -1 /\ Fails

\* Mutants of WriteStock: the difference is written as it is; `<= 1' for
\* `< 0'; a sold-out product stays visible.
WriteStockUncut(p, left, n, old) ==
  LET rest == left - n IN
  IF Listed(p)
  THEN /\ product' = [product EXCEPT ![p] =
              [status |-> "listed", qty |-> rest,
               hidden |-> product[p].hidden \/ rest = 0]]
       /\ taken' = [taken EXCEPT ![p] = @ + AtLeast0(n)]
       /\ raced' = [raced EXCEPT ![p] = @ \/ old]
       /\ UNCHANGED supply
  ELSE UNCHANGED productVars

WriteStockOffByOne(p, left, n, old) ==
  LET rest == IF left - n <= 1 THEN 0 ELSE left - n IN
  IF Listed(p)
  THEN /\ product' = [product EXCEPT ![p] =
              [status |-> "listed", qty |-> rest,
               hidden |-> product[p].hidden \/ rest = 0]]
       /\ taken' = [taken EXCEPT ![p] = @ + AtLeast0(n)]
       /\ raced' = [raced EXCEPT ![p] = @ \/ old]
       /\ UNCHANGED supply
  ELSE UNCHANGED productVars

WriteStockShown(p, left, n, old) ==
  IF Listed(p)
  THEN /\ product' = [product EXCEPT ![p].qty = AtLeast0(left - n)]
       /\ taken' = [taken EXCEPT ![p] = @ + AtLeast0(n)]
       /\ raced' = [raced EXCEPT ![p] = @ \/ old]
       /\ UNCHANGED supply
  ELSE UNCHANGED productVars

\* The update at the end of updateProductQty: the stock becomes what the
\* reader found (`left') minus the ordered quantity n, and a product that is
\* sold out is hidden.  The update of a deleted document fails.
WriteStock(p, left, n, old) ==
  LET rest == AtLeast0(left - n) IN
  IF Listed(p)
  THEN /\ product' = [product EXCEPT ![p] =
              [status |-> "listed", qty |-> rest,
               hidden |-> product[p].hidden \/ rest = 0]]
       /\ taken' = [taken EXCEPT ![p] = @ + AtLeast0(n)]
       /\ raced' = [raced EXCEPT ![p] = @ \/ old]
       /\ UNCHANGED supply
  ELSE UNCHANGED productVars

\* addProductToFarmer: a new document, without an isHidden field.
AddProduct(p, n) ==
  /\ product[p].status = "none"
  /\ product' = [product EXCEPT ![p] =
         [status |-> "listed", qty |-> n, hidden |-> FALSE]]
  /\ supply' = [supply EXCEPT ![p] = n]
  /\ UNCHANGED <<taken, raced>>

\* Mutant of SaveProduct: the form's quantity is not written.
SaveProductUncounted(p, n) ==
  /\ Listed(p)
  /\ product' = [product EXCEPT ![p].hidden = TRUE]
  /\ supply' = [supply EXCEPT ![p] = n + taken[p]]
  /\ raced' = [raced EXCEPT ![p] = FALSE]
  /\ UNCHANGED taken

\* updateProductToFarmer with the fields of the product form: the quantity is
\* overwritten and isHidden becomes true.
SaveProduct(p, n) ==
  /\ Listed(p)
  /\ product' = [product EXCEPT ![p] =
         [status |-> "listed", qty |-> n, hidden |-> TRUE]]
  /\ supply' = [supply EXCEPT ![p] = n + taken[p]]
  /\ raced' = [raced EXCEPT ![p] = FALSE]
  /\ UNCHANGED taken

\* Mutant of WriteCopy: a copy without isHidden writes it as false.
WriteCopyShown(p, copy) ==
  IF Listed(p)
  THEN /\ product' = [product EXCEPT ![p] =
              [status |-> "listed", qty |-> copy.qty, hidden |-> copy.hidden]]
       /\ raced' = [raced EXCEPT ![p] = @ \/ copy.old]
       /\ UNCHANGED <<supply, taken>>
  ELSE UNCHANGED productVars

\* updateProductToFarmer with a listed product's map: all fields as they
\* were when the list was fetched; isHidden only if the copy had it.
WriteCopy(p, copy) ==
  IF Listed(p)
  THEN /\ product' = [product EXCEPT ![p] =
              [status |-> "listed", qty |-> copy.qty,
               hidden |-> product[p].hidden \/ copy.hidden]]
       /\ raced' = [raced EXCEPT ![p] = @ \/ copy.old]
       /\ UNCHANGED <<supply, taken>>
  ELSE UNCHANGED productVars

\* deleteFarmProduct.
DeleteProduct(p) ==
  /\ Listed(p)
  /\ product' = [product EXCEPT ![p] =
         [status |-> "deleted", qty |-> 0, hidden |-> FALSE]]
  /\ UNCHANGED <<supply, taken, raced>>

----------------------------------------------------------------------------
\* Cart documents.  Only the customer's own device writes them, and a read
\* of a Firestore client sees its own pending writes, so that a write counts
\* from the moment it is issued.

InCart(c) == {i \in Ids : cart[c][i] # NoDoc}

\* updateProductInCart (a merging set, which also creates the document) of
\* the item with this id; an empty id (0) makes doc('') throw.
PutDoc(c, id, p, n) ==
  cart' = IF id \in Ids
          THEN [cart EXCEPT ![c][id] = [prod |-> p, qty |-> n]]
          ELSE cart

\* removeFromCart of some documents; an empty id makes doc('') throw.
DropDocs(c, ids) ==
  cart' = [cart EXCEPT ![c] =
              [i \in Ids |-> IF i \in ids THEN NoDoc ELSE cart[c][i]]]

\* The query and the write of addProductsToCart: a first document with this
\* product gets the quantity added, otherwise a document is added.
AddDoc(c, p, n) ==
  \/ \E i \in InCart(c) :
       /\ cart[c][i].prod = p
       /\ cart' = [cart EXCEPT ![c][i] = [prod |-> p, qty |-> cart[c][i].qty + n]]
       /\ UNCHANGED nextId
  \/ /\ \A i \in InCart(c) : cart[c][i].prod # p
     /\ nextId[c] <= MaxItems
     /\ cart' = [cart EXCEPT ![c][nextId[c]] = [prod |-> p, qty |-> n]]
     /\ nextId' = [nextId EXCEPT ![c] = @ + 1]

=============================================================================
