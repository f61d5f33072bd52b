------------------------ MODULE SessionContractProofs ------------------------
(***************************************************************************)
(* The device implements UserContract, for any people and login types, and *)
(* what that means for the documents.                                      *)
(***************************************************************************)
EXTENDS SessionProofs

----------------------------------------------------------------------------
\* Who has an account.

LEMMA InitAccounts == Init => AccountInv
<1> SUFFICES ASSUME Init PROVE AccountInv
  OBVIOUS
<1>1. \A u \in Users : account[u] = IF \E f \in signedUp : f.user = u
                                    THEN "used" ELSE "free"
  BY DEF Init
<1>2. \A u \in Users : account[u] = "free" <=> \A f \in signedUp : f.user # u
  BY <1>1
<1>3. \A f, g \in signedUp : f.user = g.user => f = g
  BY DEF Init
<1>4. session = NoUser /\ \A u \in Users : signUps[u] = NoForm
  BY DEF Init
<1> QED
  BY <1>2, <1>3, <1>4 DEF AccountInv

\* Accounts are touched by three steps only.
LEMMA AccountsKept ==
  ASSUME AccountInv, UNCHANGED <<account, signedUp>>,
         session' = session \/ session' = NoUser,
         \A u \in Users : signUps'[u] = signUps[u] \/ signUps'[u] = NoForm
  PROVE  AccountInv'
BY DEF AccountInv

LEMMA CreatedAccounts ==
  ASSUME TypeOK, OwnInv, AccountInv, NEW u \in Users, Created(u)
  PROVE  AccountInv'
<1>1. /\ signUps[u] \in Form /\ signUps[u].user = u
      /\ \A f \in signedUp : f.user # u
  BY DEF Created, TypeOK, OwnInv, SignUpsOwn, AccountInv
<1>2. /\ account' = [account EXCEPT ![u] = "used"]
      /\ signUps' = [signUps EXCEPT ![u] = NoForm]
      /\ signedUp' = signedUp \cup {signUps[u]}
      /\ session' = u
  BY DEF Created
<1>3. \A v \in Users : /\ account'[v] = IF v = u THEN "used" ELSE account[v]
                       /\ signUps'[v] = IF v = u THEN NoForm ELSE signUps[v]
  BY <1>2 DEF TypeOK
<1>4. \A v \in Users : account'[v] = "free" <=> \A f \in signedUp' : f.user # v
  <2> SUFFICES ASSUME NEW v \in Users
               PROVE  account'[v] = "free" <=> \A f \in signedUp' : f.user # v
    OBVIOUS
  <2>1. CASE v = u
    BY <1>1, <1>2, <1>3, <2>1
  <2>2. CASE v # u
    BY <1>1, <1>2, <1>3, <2>2 DEF AccountInv
  <2> QED
    BY <2>1, <2>2
<1>5. \A f, g \in signedUp' : f.user = g.user => f = g
  BY <1>1, <1>2 DEF AccountInv
<1>6. \A v \in Users : signUps'[v] # NoForm => account'[v] = "free"
  BY <1>3 DEF AccountInv
<1>7. session' # NoUser => account'[session'] = "used"
  BY <1>2, <1>3
<1> QED
  BY <1>4, <1>5, <1>6, <1>7 DEF AccountInv

LEMMA AccountStep ==
  ASSUME TypeOK, OwnInv, AccountInv, [Next]_vars
  PROVE  AccountInv'
<1>1. CASE UNCHANGED vars \/ SplashDecides \/ BackToTypes \/ ListenerOpens
           \/ (\E t \in Types : ChooseType(t)) \/ (\E f \in due : Listen(f))
           \/ SignOut \/ LoggedOut \/ DeleteDocument \/ UserNotDeleted \/ Deleted
  <2>1. /\ UNCHANGED <<account, signedUp, signUps>>
        /\ session' = session \/ session' = NoUser
    BY <1>1 DEF vars, SplashDecides, BackToTypes, ListenerOpens, ChooseType, Listen,
       SignOut, LoggedOut, DeleteDocument, UserNotDeleted, Deleted, calls, history
  <2> QED
    BY <2>1, AccountsKept
<1>2. CASE Restart
  <2>1. /\ UNCHANGED <<account, signedUp, session>>
        /\ \A u \in Users : signUps'[u] = NoForm
    BY <1>2 DEF Restart
  <2> QED
    BY <2>1, AccountsKept
<1>3. CASE DeleteUser
  <2>1. /\ UNCHANGED <<signedUp, signUps>> /\ session' = NoUser
        /\ account' = IF session = NoUser THEN account
                      ELSE [account EXCEPT ![session] = "gone"]
    BY <1>3 DEF DeleteUser, history
  <2>2. CASE session = NoUser
    BY <2>1, <2>2, AccountsKept
  <2>3. CASE session # NoUser
    <3>1. session \in Users /\ account[session] = "used"
      BY <2>3 DEF TypeOK, AccountInv
    <3>2. \A v \in Users : account'[v] = IF v = session THEN "gone" ELSE account[v]
      BY <2>1, <2>3, <3>1 DEF TypeOK
    <3>3. \A v \in Users : account'[v] = "free" <=> account[v] = "free"
      BY <3>1, <3>2
    <3> QED
      BY <2>1, <3>3 DEF AccountInv
  <2> QED
    BY <2>2, <2>3
<1>4. ASSUME NEW u \in Users, UserStep(u)
      PROVE  AccountInv'
  <2>1. CASE SignUp(u)
    <3>1. /\ UNCHANGED <<account, signedUp, session>> /\ account[u] = "free"
          /\ \A v \in Users \ {u} : signUps'[v] = signUps[v]
      BY <2>1 DEF SignUp, history, TypeOK
    <3> QED
      BY <3>1 DEF AccountInv
  <2>2. CASE SignedIn(u)
    <3>1. /\ UNCHANGED <<account, signedUp, signUps>>
          /\ session' = u /\ account[u] = "used"
      BY <2>2 DEF SignedIn, SignsIn
    <3> QED
      BY <3>1 DEF AccountInv
  <2>3. CASE NotCreated(u)
    <3>1. /\ UNCHANGED <<account, signedUp, session>>
          /\ \A v \in Users : signUps'[v] = signUps[v] \/ signUps'[v] = NoForm
      BY <2>3 DEF NotCreated, history, TypeOK
    <3> QED
      BY <3>1, AccountsKept
  <2>4. CASE StartLogin(u) \/ NotSignedIn(u) \/ TypeRead(u) \/ PresentRead(u)
    <3>1. UNCHANGED <<account, signedUp, session, signUps>>
      BY <2>4 DEF StartLogin, NotSignedIn, TypeRead, PresentRead, history
    <3> QED
      BY <3>1, AccountsKept
  <2> QED
    BY <1>4, <2>1, <2>2, <2>3, <2>4, CreatedAccounts DEF UserStep
<1> QED
  BY <1>1, <1>2, <1>3, <1>4 DEF Next

ContractInv == TypeOK /\ OwnInv /\ AccountInv

LEMMA SessionContractInv == Spec => []ContractInv
<1>1. Init => ContractInv
  BY InitTypes, InitOwn, InitAccounts DEF ContractInv
<1>2. ContractInv /\ [Next]_vars => ContractInv'
  BY TypeStep, OwnStep, AccountStep DEF ContractInv
<1> QED
  BY <1>1, <1>2, PTL DEF Spec

----------------------------------------------------------------------------
\* Each step is one of the contract, or invisible to it.

\* What a sign-in of u does to the users who are exposed.
LEMMA EnterContract ==
  ASSUME TypeOK, NEW u \in Users, session' = u,
         mixed' = [mixed EXCEPT ![u] = @ \/ \E f \in forms : f.user # u]
  PROVE  Contract!Enter(u)
<1> DEFINE b == mixed[u] \/ \E f \in forms : f.user # u
           old == {v \in Users : mixed[v]}
           new == {v \in Users : mixed'[v]}
<1>1. mixed'[u] = b /\ \A v \in Users \ {u} : mixed'[v] = mixed[v]
  BY DEF TypeOK
<1>2. mixed[u] => mixed'[u]
  BY <1>1, Zenon
<1>3. CASE mixed'[u]
  BY <1>1, <1>3 DEF Contract!Enter
<1>4. CASE ~mixed'[u]
  <2>1. new = old
    BY <1>1, <1>2, <1>4
  <2> QED
    BY <2>1 DEF Contract!Enter
<1> QED
  BY <1>3, <1>4

LEMMA CreatedContract ==
  ASSUME ContractInv, NEW u \in Users, Created(u)
  PROVE  Contract!Next
<1>1. PICK f \in Form : f = signUps[u]
  BY DEF ContractInv, TypeOK, Created
<1>2. f.user = u /\ account[u] = "free" /\ \A g \in signedUp : g.user # u
  BY <1>1, FormOf DEF ContractInv, OwnInv, SignUpsOwn, AccountInv
<1>3. Contract!Enter(u)
  BY EnterContract DEF ContractInv, Created
<1>4. UNCHANGED doc /\ signedUp' = signedUp \cup {f}
  BY <1>1 DEF Created
<1>5. {v \in Users : account'[v] = "gone"} = {v \in Users : account[v] = "gone"}
  <2>1. account' = [account EXCEPT ![u] = "used"]
    BY DEF Created
  <2>2. \A v \in Users : account'[v] = IF v = u THEN "used" ELSE account[v]
    BY <2>1 DEF ContractInv, TypeOK
  <2> QED
    BY <1>2, <2>2
<1>6. Contract!Enter(f.user)
  BY <1>2, <1>3 DEF Contract!Enter
<1>7. Contract!Register(f)
  BY <1>2, <1>4, <1>5, <1>6 DEF Contract!Register, Contract!Registered
<1> QED
  BY <1>7 DEF Contract!Next, Contract!Form, Form

LEMMA SignedInContract ==
  ASSUME ContractInv, NEW u \in Users, SignedIn(u)
  PROVE  Contract!Next
<1>1. Contract!Enter(u)
  BY EnterContract DEF ContractInv, SignedIn, SignsIn
<1>2. account[u] = "used" /\ UNCHANGED <<account, doc, signedUp>>
  BY DEF SignedIn
<1>3. u \in {f.user : f \in signedUp} \ {v \in Users : account[v] = "gone"}
  BY <1>2 DEF ContractInv, AccountInv
<1>4. Contract!SignIn(u)
  BY <1>1, <1>2, <1>3 DEF Contract!SignIn, Contract!Registered
<1> QED
  BY <1>4 DEF Contract!Next

LEMMA ListenContract ==
  ASSUME ContractInv, NEW g \in due, Listen(g)
  PROVE  [Contract!Next]_(Contract!contractVars)
<1>1. UNCHANGED <<account, session, mixed, signedUp>> /\ g \in forms
  BY DEF Listen, history, ContractInv, TypeOK
<1>2. CASE doc' = doc
  BY <1>1, <1>2 DEF Contract!contractVars
<1>3. CASE doc' # doc
  <2>1. /\ session # NoUser /\ logType # NoType
        /\ doc' = [doc EXCEPT ![logType][session] = g]
    BY <1>3 DEF Listen
  <2>2. PICK t \in Types : t = logType
    BY <2>1 DEF ContractInv, TypeOK
  <2>3. PICK f \in signedUp : f = g
    BY <1>1 DEF ContractInv, OwnInv, FormsSignedUp
  <2>4. f.user = session \/ session \in {u \in Users : mixed[u]}
    BY <1>1, <2>1, <2>3 DEF ContractInv, TypeOK, OwnInv, ListenersOwn, Owned
  <2>5. doc' = [doc EXCEPT ![t][session] = f]
    BY <2>1, <2>2, <2>3
  <2>6. Contract!Write(t, f)
    BY <1>1, <2>1, <2>4, <2>5 DEF Contract!Write
  <2> QED
    BY <2>2, <2>3, <2>6 DEF Contract!Next
<1> QED
  BY <1>2, <1>3

LEMMA EndContract ==
  ASSUME ContractInv, SignOut \/ DeleteDocument \/ DeleteUser
  PROVE  [Contract!Next]_(Contract!contractVars)
<1>1. CASE SignOut
  <2>1. Contract!SignOut
    BY <1>1 DEF SignOut, history, Contract!SignOut
  <2> QED
    BY <2>1 DEF Contract!Next
<1>2. CASE DeleteDocument
  <2>1. PICK t \in Types : t = logType
    BY <1>2 DEF DeleteDocument, ContractInv, TypeOK
  <2>2. Contract!Erase(t)
    BY <1>2, <2>1 DEF DeleteDocument, history, Contract!Erase
  <2> QED
    BY <2>1, <2>2 DEF Contract!Next
<1>3. CASE DeleteUser
  <2>1. UNCHANGED <<doc, signedUp, mixed>> /\ session' = NoUser
    BY <1>3 DEF DeleteUser, history
  <2>2. CASE session = NoUser
    <3>1. UNCHANGED <<account, session>>
      BY <1>3, <2>1, <2>2 DEF DeleteUser
    <3> QED
      BY <2>1, <3>1 DEF Contract!contractVars
  <2>3. CASE session # NoUser
    <3>1. session \in Users /\ account' = [account EXCEPT ![session] = "gone"]
      BY <1>3, <2>3 DEF DeleteUser, ContractInv, TypeOK
    <3>2. {u \in Users : account'[u] = "gone"}
            = {u \in Users : account[u] = "gone"} \cup {session}
      BY <3>1 DEF ContractInv, TypeOK
    <3>3. Contract!Close
      BY <2>1, <2>3, <3>2 DEF Contract!Close
    <3> QED
      BY <3>3 DEF Contract!Next
  <2> QED
    BY <2>2, <2>3
<1> QED
  BY <1>1, <1>2, <1>3

LEMMA StepContract ==
  ASSUME ContractInv, [Next]_vars
  PROVE  [Contract!Next]_(Contract!contractVars)
<1>1. ASSUME UNCHANGED <<account, session, doc, mixed, signedUp>>
      PROVE  UNCHANGED Contract!contractVars
  BY <1>1 DEF Contract!contractVars
<1>2. CASE UNCHANGED vars \/ SplashDecides \/ BackToTypes \/ ListenerOpens
           \/ (\E t \in Types : ChooseType(t)) \/ LoggedOut \/ UserNotDeleted
           \/ Deleted \/ Restart
  BY <1>1, <1>2 DEF vars, SplashDecides, BackToTypes, ListenerOpens, ChooseType,
     LoggedOut, UserNotDeleted, Deleted, Restart, history
<1>3. ASSUME NEW u \in Users, UserStep(u)
      PROVE  [Contract!Next]_(Contract!contractVars)
  <2>1. CASE Created(u) \/ SignedIn(u)
    BY <2>1, CreatedContract, SignedInContract
  <2>2. CASE ~Created(u) /\ ~SignedIn(u)
    BY <1>1, <1>3, <2>2 DEF UserStep, SignUp, NotCreated, StartLogin, NotSignedIn,
       TypeRead, PresentRead, history
  <2> QED
    BY <2>1, <2>2
<1> QED
  BY <1>2, <1>3, ListenContract, EndContract DEF Next

\* The device implements UserContract: a second sign-up does not get an account,
\* a deleted account is not signed in to, and documents are written or erased
\* only for the user of the session, with a form of his own unless others'
\* listeners were there when he signed in (firebase_helper.dart:28-47,
\* 205-226, 1007-1012).
THEOREM Refinement == Spec => KeepsContract
<1>1. Init => Contract!Init
  <2> SUFFICES ASSUME Init PROVE Contract!Init
    OBVIOUS
  <2>1. \A u \in Users : account[u] # "gone" /\ ~mixed[u]
    BY DEF Init
  <2>2. /\ {u \in Users : account[u] = "gone"} = {}
        /\ {u \in Users : mixed[u]} = {}
    BY <2>1
  <2>3. /\ session = NoUser
        /\ signedUp \in SUBSET Form
        /\ \A f, g \in signedUp : f.user = g.user => f = g
        /\ doc = [t \in Types |-> [u \in Users |->
                   IF [user |-> u, type |-> t] \in signedUp
                   THEN [user |-> u, type |-> t] ELSE NoForm]]
    BY DEF Init
  <2> QED
    BY <2>2, <2>3 DEF Contract!Init, Contract!Form, Form
<1>2. ContractInv /\ [Next]_vars => [Contract!Next]_(Contract!contractVars)
  BY StepContract
<1> QED
  BY <1>1, <1>2, SessionContractInv, PTL DEF Spec, KeepsContract, Contract!Spec

----------------------------------------------------------------------------
\* What a step may do to a document.
WritesInSession ==
  \A t \in Types, u \in Users :
    doc'[t][u] # doc[t][u] => session = u /\ account[u] = "used"

LEMMA StepWritesInSession ==
  ASSUME ContractInv, [Next]_vars
  PROVE  WritesInSession
<1>1. CASE UNCHANGED doc
  BY <1>1 DEF WritesInSession
<1>2. CASE \E t \in Types, f \in Form \cup {NoForm} :
             session # NoUser /\ doc' = [doc EXCEPT ![t][session] = f]
  <2>1. PICK t \in Types, f \in Form \cup {NoForm} :
          session # NoUser /\ doc' = [doc EXCEPT ![t][session] = f]
    BY <1>2
  <2>2. session \in Users /\ account[session] = "used"
    BY <2>1 DEF ContractInv, TypeOK, AccountInv
  <2>3. ASSUME NEW s \in Types, NEW u \in Users, u # session
        PROVE  doc'[s][u] = doc[s][u]
    BY <2>1, <2>2, <2>3 DEF ContractInv, TypeOK
  <2> QED
    BY <2>2, <2>3 DEF WritesInSession
<1>3. ASSUME NEW g \in due, Listen(g), doc' # doc
      PROVE  \E t \in Types, f \in Form \cup {NoForm} :
               session # NoUser /\ doc' = [doc EXCEPT ![t][session] = f]
  <2>1. /\ session # NoUser /\ logType # NoType
        /\ doc' = [doc EXCEPT ![logType][session] = g]
    BY <1>3 DEF Listen
  <2>2. logType \in Types /\ g \in Form \cup {NoForm}
    BY <2>1 DEF ContractInv, TypeOK
  <2> QED
    BY <2>1, <2>2
<1>4. ASSUME DeleteDocument
      PROVE  \E t \in Types, f \in Form \cup {NoForm} :
               session # NoUser /\ doc' = [doc EXCEPT ![t][session] = f]
  BY <1>4 DEF DeleteDocument, ContractInv, TypeOK
<1>5. UNCHANGED doc \/ DeleteDocument \/ \E g \in due : Listen(g)
  BY DEF Next, vars, SplashDecides, BackToTypes, ListenerOpens, ChooseType, UserStep,
     SignUp, Created, NotCreated, StartLogin, SignedIn, NotSignedIn, TypeRead,
     PresentRead, SignOut, LoggedOut, DeleteUser, UserNotDeleted, Deleted, Restart
<1> QED
  BY <1>1, <1>2, <1>3, <1>4, <1>5

\* A document changes only during a session of its own user: no listener, call
\* or deletion that is still under way when he signs out or deletes his account
\* reaches it (firebase_helper.dart:34-39, 205-226, 1007-1012).
THEOREM DocumentsOnlyInSession == Spec => [][WritesInSession]_vars
<1>1. ContractInv /\ [Next]_vars => [WritesInSession]_vars
  BY StepWritesInSession
<1> QED
  BY <1>1, SessionContractInv, PTL DEF Spec

=============================================================================
