---------------------------- MODULE SessionProofs ----------------------------
(***************************************************************************)
(* Proofs about Session, for any people, any login types and any bound.    *)
(***************************************************************************)
EXTENDS Session, TLAPS

----------------------------------------------------------------------------
\* Lemmas about the records.

LEMMA FormOf ==
  \A f \in Form : /\ f.user \in Users /\ f.type \in Types
                  /\ f = [user |-> f.user, type |-> f.type]
                  /\ f # NoForm
<1> SUFFICES ASSUME NEW f \in Form
             PROVE  /\ f.user \in Users /\ f.type \in Types
                    /\ f = [user |-> f.user, type |-> f.type]
                    /\ f # NoForm
  OBVIOUS
<1>1. f.user \in Users /\ f.type \in Types
  BY DEF Form
<1>2. f = [user |-> f.user, type |-> f.type]
  BY DEF Form
<1>3. NoForm.user \notin Users
  BY TypesAssumption DEF NoForm
<1> QED
  BY <1>1, <1>2, <1>3

LEMMA NoFormType == NoForm.type = NoType /\ NoForm.user = NoUser
BY DEF NoForm

LEMMA LoginStages ==
  /\ NoLogin \in Login
  /\ [stage |-> "signing"] \in Login
  /\ \A t \in Types \cup {NoType} :
       [stage |-> "typeRead", typeAt |-> t] \in Login
  /\ \A t, g \in Types \cup {NoType} :
       [stage |-> "presentRead", typeAt |-> t, found |-> g] \in Login
BY DEF Login, NoLogin

\* What a login has read is a login type or nothing.
LEMMA LoginParts ==
  ASSUME NEW l \in Login
  PROVE  /\ l.stage = "typeRead" => l.typeAt \in Types \cup {NoType}
         /\ l.stage = "presentRead"
              => /\ l.typeAt \in Types \cup {NoType}
                 /\ l.found \in Types \cup {NoType}
<1>1. CASE l \in [stage : {"none", "signing"}]
  BY <1>1
<1>2. CASE l \in [stage : {"typeRead"}, typeAt : Types \cup {NoType}]
  BY <1>2
<1>3. CASE l \in [stage : {"presentRead"}, typeAt : Types \cup {NoType},
                  found : Types \cup {NoType}]
  BY <1>3
<1> QED
  BY <1>1, <1>2, <1>3 DEF Login

\* A read finds the user's document or nothing.
LEMMA FoundForm ==
  ASSUME TypeOK, NEW u \in Users, NEW t \in Types \cup {NoType},
         NEW f \in FoundAt(t, u)
  PROVE  /\ f = NoForm \/ (t \in Types /\ f = doc[t][u] /\ f \in Form)
         /\ f.type \in Types \cup {NoType}
<1>1. CASE t = NoType
  BY <1>1, NoFormType DEF FoundAt
<1>2. CASE t # NoType
  <2>1. t \in Types /\ f \in {doc[t][u], NoForm}
    BY <1>2 DEF FoundAt
  <2>2. doc[t][u] \in Form \cup {NoForm}
    BY <2>1 DEF TypeOK
  <2> QED
    BY <2>1, <2>2, FormOf, NoFormType
<1> QED
  BY <1>1, <1>2

----------------------------------------------------------------------------
\* Type correctness.

LEMMA InitTypes == Init => TypeOK
<1> SUFFICES ASSUME Init PROVE TypeOK
  OBVIOUS
<1>1. signedUp \in SUBSET Form
  BY DEF Init
<1>2. account \in [Users -> {"free", "used", "gone"}]
  BY DEF Init
<1>3. doc \in [Types -> [Users -> Form \cup {NoForm}]]
  BY DEF Init, Form
<1>4. logins \in [Users -> Login]
  BY LoginStages DEF Init
<1>5. /\ taps \in 0 .. MaxTaps
      /\ session \in Users \cup {NoUser}
      /\ isLogin \in BOOLEAN /\ timer \in BOOLEAN
      /\ logType \in Types \cup {NoType}
      /\ page \in {"splash", "types", "login", "dashboard"}
      /\ ending \in {"none", "logout", "delete", "deleted"}
  <2>1. 0 \in 0 .. MaxTaps
    BY TypesAssumption
  <2> QED
    BY <2>1, Zenon DEF Init
<1>6. /\ forms \in SUBSET Form /\ due \in SUBSET forms
      /\ opening \in BOOLEAN /\ cut \in BOOLEAN
      /\ signUps \in [Users -> Form \cup {NoForm}]
      /\ mixed \in [Users -> BOOLEAN]
  BY DEF Init
<1> QED
  BY <1>1, <1>2, <1>3, <1>4, <1>5, <1>6 DEF TypeOK

LEMMA PageTypes ==
  ASSUME TypeOK
  PROVE  /\ SplashDecides => TypeOK'
         /\ BackToTypes => TypeOK'
         /\ \A t \in Types : ChooseType(t) => TypeOK'
         /\ ListenerOpens => TypeOK'
<1>1. SplashDecides => TypeOK'
  BY DEF TypeOK, SplashDecides, stored, listeners, calls, history
<1>2. BackToTypes => TypeOK'
  BY DEF TypeOK, BackToTypes, stored, listeners, calls, history
<1>3. ASSUME NEW t \in Types, ChooseType(t) PROVE TypeOK'
  <2>1. taps' \in 0 .. MaxTaps
    BY <1>3, TypesAssumption DEF TypeOK, ChooseType, Tap
  <2> QED
    BY <1>3, <2>1 DEF TypeOK, ChooseType, listeners, calls, history
<1>4. ListenerOpens => TypeOK'
  BY DEF TypeOK, ListenerOpens, stored, calls, history
<1> QED
  BY <1>1, <1>2, <1>3, <1>4

LEMMA TapTypes == ASSUME TypeOK, Tap PROVE taps' \in 0 .. MaxTaps
BY TypesAssumption DEF TypeOK, Tap

\* A step of u's call changes one entry of logins.
LEMMA LoginChange ==
  ASSUME TypeOK, NEW u \in Users, NEW l \in Login,
         logins' = [logins EXCEPT ![u] = l]
  PROVE  logins' \in [Users -> Login]
BY DEF TypeOK

LEMMA SignUpTypeStep ==
  ASSUME TypeOK, NEW u \in Users, SignUp(u) \/ Created(u) \/ NotCreated(u)
  PROVE  TypeOK'
<1>1. CASE SignUp(u)
  <2>1. taps' \in 0 .. MaxTaps
    BY <1>1, TapTypes DEF SignUp
  <2>2. [user |-> u, type |-> logType] \in Form
    BY <1>1, TypesAssumption DEF SignUp, Form
  <2>3. signUps' \in [Users -> Form \cup {NoForm}]
    BY <1>1, <2>2 DEF SignUp, TypeOK
  <2> QED
    BY <1>1, <2>1, <2>3 DEF TypeOK, SignUp, stored, listeners, history
<1>2. CASE Created(u)
  <2>1. signUps[u] \in Form
    BY <1>2 DEF Created, TypeOK
  <2>2. /\ signedUp' \in SUBSET Form
        /\ forms' \in SUBSET Form
        /\ due' \in SUBSET forms'
    BY <1>2, <2>1 DEF Created, TypeOK
  <2>3. mixed' \in [Users -> BOOLEAN]
    <3>1. mixed' = [mixed EXCEPT ![u] = mixed[u] \/ \E f \in forms : f.user # u]
      BY <1>2 DEF Created
    <3>2. (mixed[u] \/ \E f \in forms : f.user # u) \in BOOLEAN
      OBVIOUS
    <3> QED
      BY <3>1, <3>2, Zenon DEF TypeOK
  <2>4. /\ account' \in [Users -> {"free", "used", "gone"}]
        /\ signUps' \in [Users -> Form \cup {NoForm}]
        /\ session' \in Users \cup {NoUser}
        /\ cut' \in BOOLEAN
    BY <1>2 DEF Created, TypeOK
  <2> QED
    BY <1>2, <2>2, <2>3, <2>4 DEF TypeOK, Created, stored
<1>3. CASE NotCreated(u)
  BY <1>3 DEF TypeOK, NotCreated, stored, listeners, history
<1> QED
  BY <1>1, <1>2, <1>3

LEMMA LoginTypeStep ==
  ASSUME TypeOK, NEW u \in Users,
         StartLogin(u) \/ SignedIn(u) \/ NotSignedIn(u)
           \/ TypeRead(u) \/ PresentRead(u)
  PROVE  TypeOK'
<1>1. CASE StartLogin(u)
  <2>1. taps' \in 0 .. MaxTaps
    BY <1>1, TapTypes DEF StartLogin
  <2>2. logins' \in [Users -> Login]
    BY <1>1, LoginStages, LoginChange DEF StartLogin
  <2> QED
    BY <1>1, <2>1, <2>2 DEF TypeOK, StartLogin, stored, listeners, history
<1>2. CASE SignedIn(u)
  <2>1. logType \in Types \cup {NoType}
    BY DEF TypeOK
  <2>2. logins' \in [Users -> Login]
    BY <1>2, <2>1, LoginStages, LoginChange DEF SignedIn
  <2>3. mixed' \in [Users -> BOOLEAN]
    <3>1. mixed' = [mixed EXCEPT ![u] = mixed[u] \/ \E f \in forms : f.user # u]
      BY <1>2 DEF SignedIn, SignsIn
    <3>2. (mixed[u] \/ \E f \in forms : f.user # u) \in BOOLEAN
      OBVIOUS
    <3> QED
      BY <3>1, <3>2, Zenon DEF TypeOK
  <2>4. /\ session' \in Users \cup {NoUser}
        /\ cut' \in BOOLEAN
        /\ due' \in SUBSET forms
    BY <1>2 DEF SignedIn, SignsIn, TypeOK
  <2> QED
    BY <1>2, <2>2, <2>3, <2>4 DEF TypeOK, SignedIn, stored
<1>3. CASE NotSignedIn(u)
  <2>1. logins' \in [Users -> Login]
    BY <1>3, LoginStages, LoginChange DEF NotSignedIn
  <2> QED
    BY <1>3, <2>1 DEF TypeOK, NotSignedIn, stored, listeners, history
<1>4. CASE TypeRead(u)
  <2>1. logins[u].typeAt \in Types \cup {NoType}
    BY <1>4, LoginParts DEF TypeRead, TypeOK
  <2>2. PICK f \in FoundAt(logins[u].typeAt, u) :
          logins' = [logins EXCEPT ![u] =
            [stage |-> "presentRead", typeAt |-> logType, found |-> f.type]]
    BY <1>4 DEF TypeRead
  <2>3. f.type \in Types \cup {NoType}
    BY <2>1, <2>2, FoundForm
  <2>4. logType \in Types \cup {NoType}
    BY DEF TypeOK
  <2>5. logins' \in [Users -> Login]
    BY <2>2, <2>3, <2>4, LoginStages, LoginChange
  <2> QED
    BY <1>4, <2>5 DEF TypeOK, TypeRead, stored, listeners, history
<1>5. CASE PresentRead(u)
  <2>1. logins' \in [Users -> Login]
    BY <1>5, LoginStages, LoginChange DEF PresentRead
  <2>2. (isLogin' = TRUE /\ page' = "dashboard") \/ UNCHANGED <<isLogin, page>>
    BY <1>5 DEF PresentRead
  <2>3. isLogin' \in BOOLEAN /\ page' \in {"splash", "types", "login", "dashboard"}
    BY <2>2 DEF TypeOK
  <2> QED
    BY <1>5, <2>1, <2>3 DEF TypeOK, PresentRead, listeners, history
<1> QED
  BY <1>1, <1>2, <1>3, <1>4, <1>5

LEMMA ListenTypes ==
  ASSUME TypeOK, NEW f \in due, Listen(f)
  PROVE  TypeOK'
<1>1. due' \in SUBSET forms /\ forms' = forms
  BY DEF TypeOK, Listen
<1>2. isLogin' \in BOOLEAN /\ opening' \in BOOLEAN
  BY DEF TypeOK, Listen
<1>3. doc' \in [Types -> [Users -> Form \cup {NoForm}]]
  <2>1. CASE doc' = doc
    BY <2>1 DEF TypeOK
  <2>2. CASE doc' # doc
    <3>1. /\ session # NoUser /\ logType # NoType
          /\ doc' = [doc EXCEPT ![logType][session] = f]
      BY <2>2 DEF Listen
    <3>2. session \in Users /\ logType \in Types /\ f \in Form
      BY <3>1 DEF TypeOK
    <3>3. [doc[logType] EXCEPT ![session] = f] \in [Users -> Form \cup {NoForm}]
      BY <3>2 DEF TypeOK
    <3> QED
      BY <3>1, <3>2, <3>3 DEF TypeOK
  <2> QED
    BY <2>1, <2>2
<1> QED
  BY <1>1, <1>2, <1>3 DEF TypeOK, Listen, calls, history

LEMMA EndTypes ==
  ASSUME TypeOK,
         SignOut \/ LoggedOut \/ DeleteDocument \/ DeleteUser
           \/ UserNotDeleted \/ Deleted \/ Restart
  PROVE  TypeOK'
<1>0. ASSUME Tap PROVE taps' \in 0 .. MaxTaps
  BY <1>0, TapTypes
<1>1. CASE SignOut
  BY <1>0, <1>1 DEF TypeOK, SignOut, stored, listeners, history
<1>2. CASE LoggedOut
  BY <1>2 DEF TypeOK, LoggedOut, listeners
<1>3. CASE DeleteDocument
  <2>1. session \in Users /\ logType \in Types
    BY <1>3 DEF TypeOK, DeleteDocument
  <2>2. [doc[logType] EXCEPT ![session] = NoForm]
          \in [Users -> Form \cup {NoForm}]
    BY <2>1 DEF TypeOK
  <2>3. doc' = [doc EXCEPT ![logType] = [doc[logType] EXCEPT ![session] = NoForm]]
    BY <1>3 DEF DeleteDocument
  <2>4. doc' \in [Types -> [Users -> Form \cup {NoForm}]]
    BY <2>1, <2>2, <2>3 DEF TypeOK
  <2> QED
    BY <1>0, <1>3, <2>4 DEF TypeOK, DeleteDocument, stored, listeners, history
<1>4. CASE DeleteUser
  BY <1>4 DEF TypeOK, DeleteUser, stored, listeners, history
<1>5. CASE UserNotDeleted
  BY <1>5 DEF TypeOK, UserNotDeleted, stored, listeners, history
<1>6. CASE Deleted
  BY <1>6 DEF TypeOK, Deleted, listeners
<1>7. CASE Restart
  <2>1. logins' \in [Users -> Login]
    BY <1>7, LoginStages DEF Restart
  <2>2. (cut \/ ending \in {"logout", "deleted"}) \in BOOLEAN
    BY DEF TypeOK
  <2>3. cut' \in BOOLEAN
    BY <1>7, <2>2 DEF Restart
  <2> QED
    BY <1>7, <2>1, <2>3 DEF TypeOK, Restart, stored
<1> QED
  BY <1>1, <1>2, <1>3, <1>4, <1>5, <1>6, <1>7

LEMMA TypeStep == TypeOK /\ [Next]_vars => TypeOK'
<1> SUFFICES ASSUME TypeOK, [Next]_vars PROVE TypeOK'
  OBVIOUS
<1>1. CASE UNCHANGED vars
  BY <1>1 DEF TypeOK, vars, stored, listeners, calls, history
<1>2. ASSUME NEW u \in Users, UserStep(u) PROVE TypeOK'
  BY <1>2, SignUpTypeStep, LoginTypeStep DEF UserStep
<1> QED
  BY <1>1, <1>2, PageTypes, ListenTypes, EndTypes DEF Next

\* Every variable keeps to its type; events belong to listeners that exist.
THEOREM SessionTypes == Spec => []TypeOK
BY InitTypes, TypeStep, PTL DEF Spec

----------------------------------------------------------------------------
\* Whose document it is.

LEMMA InitOwn == Init => OwnInv
<1> SUFFICES ASSUME Init PROVE OwnInv
  OBVIOUS
<1>1. ASSUME NEW t \in Types, NEW u \in Users, doc[t][u] # NoForm
      PROVE  Owned(doc[t][u], u)
  <2>1. doc[t][u] = IF [user |-> u, type |-> t] \in signedUp
                    THEN [user |-> u, type |-> t] ELSE NoForm
    BY DEF Init
  <2> QED
    BY <1>1, <2>1 DEF Owned
<1>2. DocumentsOwn
  BY <1>1 DEF DocumentsOwn
<1>3. FormsSignedUp /\ SignUpsOwn /\ ListenersOwn
  BY DEF Init, FormsSignedUp, SignUpsOwn, ListenersOwn
<1>4. FoundTypes
  <2>1. \A u \in Users : logins[u].stage = "none"
    BY DEF Init, NoLogin
  <2> QED
    BY <2>1 DEF FoundTypes
<1> QED
  BY <1>2, <1>3, <1>4 DEF OwnInv

\* Nothing but these variables matters; more sign-ups and more mixing do not.
LEMMA OwnKept ==
  ASSUME TypeOK, OwnInv,
         signedUp \subseteq signedUp',
         \A u \in Users : mixed[u] => mixed'[u]
  PROVE  /\ doc' = doc => DocumentsOwn'
         /\ logins' = logins => FoundTypes'
         /\ forms' = forms /\ session' = session => ListenersOwn'
         /\ forms' \subseteq forms => FormsSignedUp'
         /\ signUps' = signUps => SignUpsOwn'
<1> USE DEF OwnInv
<1>1. doc' = doc => DocumentsOwn'
  BY DEF DocumentsOwn, Owned
<1>2. logins' = logins => FoundTypes'
  BY DEF FoundTypes
<1>3. ASSUME forms' = forms, session' = session PROVE ListenersOwn'
  <2> SUFFICES ASSUME session' # NoUser, NEW f \in forms'
               PROVE  Owned(f, session)' \/ mixed'[session']
    BY DEF ListenersOwn
  <2>1. Owned(f, session) \/ mixed[session]
    BY <1>3 DEF ListenersOwn
  <2>2. CASE Owned(f, session)
    BY <1>3, <2>2 DEF Owned
  <2>3. CASE mixed[session]
    BY <1>3, <2>3 DEF TypeOK
  <2> QED
    BY <2>1, <2>2, <2>3
<1>4. forms' \subseteq forms => FormsSignedUp'
  BY DEF FormsSignedUp
<1>5. signUps' = signUps => SignUpsOwn'
  BY DEF SignUpsOwn
<1> QED
  BY <1>1, <1>2, <1>3, <1>4, <1>5

\* After a sign-in of u the listeners are u's own, or u counts as mixed.
LEMMA SignInOwn ==
  ASSUME TypeOK, OwnInv, NEW u \in Users,
         signedUp \subseteq signedUp',
         session' = u,
         mixed' = [mixed EXCEPT ![u] = @ \/ \E f \in forms : f.user # u]
  PROVE  /\ \A f \in forms : Owned(f, u)' \/ mixed'[u]
         /\ \A v \in Users : mixed[v] => mixed'[v]
<1> DEFINE foreign == \E f \in forms : f.user # u
<1>1. mixed'[u] = (mixed[u] \/ foreign)
  BY DEF TypeOK
<1>2. \A v \in Users : v # u => mixed'[v] = mixed[v]
  BY DEF TypeOK
<1>3. mixed[u] => mixed'[u]
  BY <1>1, Zenon
<1>4. ASSUME NEW v \in Users, mixed[v] PROVE mixed'[v]
  BY <1>2, <1>3, <1>4
<1>5. ASSUME NEW f \in forms PROVE Owned(f, u)' \/ mixed'[u]
  <2>1. CASE f.user = u
    BY <2>1 DEF OwnInv, FormsSignedUp, Owned
  <2>2. CASE f.user # u
    <3>1. foreign
      BY <2>2
    <3> QED
      BY <1>1, <3>1, Zenon
  <2> QED
    BY <2>1, <2>2
<1> QED
  BY <1>4, <1>5

LEMMA CreatedOwn ==
  ASSUME TypeOK, OwnInv, NEW u \in Users, Created(u)
  PROVE  OwnInv'
<1>1. signUps[u] \in Form /\ signUps[u].user = u
  BY DEF Created, TypeOK, OwnInv, SignUpsOwn
<1>2. /\ signedUp \subseteq signedUp' /\ signUps[u] \in signedUp'
      /\ forms' = forms \cup {signUps[u]} /\ session' = u
      /\ doc' = doc /\ logins' = logins
  BY DEF Created, stored
<1>3. /\ \A f \in forms : Owned(f, u)' \/ mixed'[u]
      /\ \A v \in Users : mixed[v] => mixed'[v]
  <2>1. mixed' = [mixed EXCEPT ![u] = @ \/ \E f \in forms : f.user # u]
    BY DEF Created
  <2> QED
    BY <1>2, <2>1, SignInOwn
<1>4. DocumentsOwn' /\ FoundTypes'
  BY <1>2, <1>3, OwnKept
<1>5. FormsSignedUp'
  BY <1>2 DEF OwnInv, FormsSignedUp
<1>6. ListenersOwn'
  <2>1. \A f \in forms' : Owned(f, u)' \/ mixed'[u]
    <3> TAKE f \in forms'
    <3>1. CASE f \in forms
      BY <1>3, <3>1
    <3>2. CASE f = signUps[u]
      BY <1>1, <1>2, <3>2 DEF Owned
    <3> QED
      BY <1>2, <3>1, <3>2
  <2> QED
    BY <1>2, <2>1 DEF ListenersOwn, Owned
<1>7. SignUpsOwn'
  BY DEF SignUpsOwn, OwnInv, Created, TypeOK
<1> QED
  BY <1>4, <1>5, <1>6, <1>7 DEF OwnInv

LEMMA ListenOwn ==
  ASSUME TypeOK, OwnInv, NEW g \in due, Listen(g)
  PROVE  OwnInv'
<1>1. /\ UNCHANGED <<signedUp, mixed, forms, session, logins, signUps>>
      /\ g \in forms
  BY DEF Listen, history, calls, TypeOK
<1>2. FoundTypes' /\ ListenersOwn' /\ FormsSignedUp' /\ SignUpsOwn'
  BY <1>1, OwnKept
<1>3. CASE doc' = doc
  BY <1>1, <1>2, <1>3, OwnKept DEF OwnInv
<1>4. CASE doc' # doc
  <2>1. /\ session # NoUser /\ logType # NoType
        /\ doc' = [doc EXCEPT ![logType][session] = g]
    BY <1>4 DEF Listen
  <2>2. session \in Users /\ logType \in Types
    BY <2>1 DEF TypeOK
  <2>3. Owned(g, session) \/ mixed[session]
    BY <1>1, <2>1 DEF OwnInv, ListenersOwn
  <2>4. ASSUME NEW t \in Types, NEW u \in Users
        PROVE  doc'[t][u] = IF t = logType /\ u = session THEN g ELSE doc[t][u]
    BY <2>1, <2>2 DEF TypeOK
  <2>5. DocumentsOwn'
    BY <1>1, <2>3, <2>4 DEF OwnInv, DocumentsOwn, Owned
  <2> QED
    BY <1>2, <2>5 DEF OwnInv
<1> QED
  BY <1>3, <1>4

LEMMA LoginOwn ==
  ASSUME TypeOK, OwnInv, NEW u \in Users,
         StartLogin(u) \/ SignedIn(u) \/ NotSignedIn(u)
           \/ TypeRead(u) \/ PresentRead(u)
  PROVE  OwnInv'
<1>1. /\ signedUp' = signedUp /\ doc' = doc /\ signUps' = signUps /\ forms' = forms
  BY DEF StartLogin, SignedIn, NotSignedIn, TypeRead, PresentRead, history,
     listeners
<1>2. ASSUME NEW l, logins' = [logins EXCEPT ![u] = l],
             \A v \in Users : mixed[v] => mixed'[v],
             (l.stage = "presentRead" /\ l.found # NoType)
               => [user |-> u, type |-> l.found] \in signedUp' \/ mixed'[u]
      PROVE  FoundTypes'
  BY <1>1, <1>2 DEF FoundTypes, OwnInv, TypeOK
<1>3. CASE SignedIn(u)
  <2>1. /\ \A f \in forms : Owned(f, u)' \/ mixed'[u]
        /\ \A v \in Users : mixed[v] => mixed'[v]
    <3>1. /\ session' = u
          /\ mixed' = [mixed EXCEPT ![u] = @ \/ \E f \in forms : f.user # u]
      BY <1>3 DEF SignedIn, SignsIn
    <3> QED
      BY <1>1, <3>1, SignInOwn
  <2>2. session' = u
    BY <1>3 DEF SignedIn, SignsIn
  <2>3. ListenersOwn'
    BY <1>1, <2>1, <2>2 DEF ListenersOwn, Owned
  <2>4. FoundTypes'
    <3>1. logins' = [logins EXCEPT ![u] = [stage |-> "typeRead", typeAt |-> logType]]
      BY <1>3 DEF SignedIn
    <3> QED
      BY <1>2, <2>1, <3>1
  <2> QED
    BY <1>1, <2>1, <2>3, <2>4, OwnKept DEF OwnInv
<1>4. CASE ~SignedIn(u)
  <2>1. session' = session /\ mixed' = mixed
    BY <1>4 DEF StartLogin, NotSignedIn, TypeRead, PresentRead, history
  <2>2. CASE StartLogin(u) \/ NotSignedIn(u) \/ PresentRead(u)
    <3>1. PICK l : /\ logins' = [logins EXCEPT ![u] = l]
                   /\ l.stage # "presentRead"
      BY <2>2 DEF StartLogin, NotSignedIn, PresentRead, NoLogin
    <3>2. FoundTypes'
      BY <1>2, <2>1, <3>1
    <3> QED
      BY <1>1, <2>1, <3>2, OwnKept DEF OwnInv
  <2>3. CASE TypeRead(u)
    <3>1. PICK f \in FoundAt(logins[u].typeAt, u) :
            logins' = [logins EXCEPT ![u] =
              [stage |-> "presentRead", typeAt |-> logType, found |-> f.type]]
      BY <2>3 DEF TypeRead
    <3>2. logins[u].typeAt \in Types \cup {NoType}
      BY <2>3, LoginParts DEF TypeRead, TypeOK
    <3>3. ASSUME f = NoForm PROVE FoundTypes'
      BY <1>2, <2>1, <3>1, <3>3, NoFormType
    <3>4. ASSUME f # NoForm PROVE FoundTypes'
      <4>1. /\ logins[u].typeAt \in Types /\ f \in Form
            /\ f = doc[logins[u].typeAt][u]
        BY <3>1, <3>2, <3>4, FoundForm
      <4>2. Owned(f, u) \/ mixed[u]
        BY <3>4, <4>1 DEF OwnInv, DocumentsOwn
      <4>3. [user |-> u, type |-> f.type] \in signedUp \/ mixed[u]
        BY <4>1, <4>2, FormOf DEF Owned
      <4> QED
        BY <1>1, <1>2, <2>1, <3>1, <4>3
    <3>5. FoundTypes'
      BY <3>3, <3>4
    <3> QED
      BY <1>1, <2>1, <3>5, OwnKept DEF OwnInv
  <2> QED
    BY <1>4, <2>2, <2>3
<1> QED
  BY <1>3, <1>4

LEMMA OwnStep ==
  ASSUME TypeOK, OwnInv, [Next]_vars
  PROVE  OwnInv'
<1>1. ASSUME /\ UNCHANGED <<doc, logins, forms, session, signUps, signedUp, mixed>>
      PROVE  OwnInv'
  BY <1>1, OwnKept DEF OwnInv
<1>2. CASE UNCHANGED vars \/ SplashDecides \/ BackToTypes \/ ListenerOpens
  BY <1>1, <1>2 DEF vars, SplashDecides, BackToTypes, ListenerOpens, stored,
     listeners, calls, history
<1>3. ASSUME NEW t \in Types, ChooseType(t) PROVE OwnInv'
  BY <1>1, <1>3 DEF ChooseType, listeners, calls, history
<1>4. ASSUME NEW u \in Users, SignUp(u) PROVE OwnInv'
  <2>1. SignUpsOwn'
    BY <1>4 DEF SignUp, SignUpsOwn, OwnInv, TypeOK
  <2>2. UNCHANGED <<doc, logins, forms, session, signedUp, mixed>>
    BY <1>4 DEF SignUp, listeners, history
  <2> QED
    BY <2>1, <2>2, OwnKept DEF OwnInv
<1>5. ASSUME NEW u \in Users, NotCreated(u) PROVE OwnInv'
  <2>1. SignUpsOwn'
    BY <1>5 DEF NotCreated, SignUpsOwn, OwnInv, TypeOK
  <2>2. UNCHANGED <<doc, logins, forms, session, signedUp, mixed>>
    BY <1>5 DEF NotCreated, listeners, history
  <2> QED
    BY <2>1, <2>2, OwnKept DEF OwnInv
<1>6. ASSUME NEW u \in Users, UserStep(u) PROVE OwnInv'
  BY <1>4, <1>5, <1>6, CreatedOwn, LoginOwn DEF UserStep
<1>7. ASSUME NEW f \in due, Listen(f) PROVE OwnInv'
  BY <1>7, ListenOwn
<1>8. CASE SignOut \/ DeleteUser
  <2>1. /\ UNCHANGED <<doc, logins, forms, signUps, signedUp, mixed>>
        /\ session' = NoUser
    BY <1>8 DEF SignOut, DeleteUser, listeners, history
  <2>2. ListenersOwn'
    BY <2>1 DEF ListenersOwn
  <2> QED
    BY <2>1, <2>2, OwnKept DEF OwnInv
<1>9. CASE LoggedOut \/ Deleted \/ UserNotDeleted
  BY <1>1, <1>9 DEF LoggedOut, Deleted, UserNotDeleted, listeners, history
<1>10. CASE DeleteDocument
  <2>1. UNCHANGED <<logins, forms, session, signUps, signedUp, mixed>>
    BY <1>10 DEF DeleteDocument, listeners, history
  <2>2. session \in Users /\ logType \in Types
    BY <1>10 DEF TypeOK, DeleteDocument
  <2>3. ASSUME NEW t \in Types, NEW u \in Users
        PROVE  doc'[t][u] = doc[t][u] \/ doc'[t][u] = NoForm
    BY <1>10, <2>2 DEF DeleteDocument, TypeOK
  <2>4. DocumentsOwn'
    BY <2>1, <2>3 DEF OwnInv, DocumentsOwn, Owned
  <2> QED
    BY <2>1, <2>4, OwnKept DEF OwnInv
<1>11. CASE Restart
  <2>1. /\ UNCHANGED <<doc, session, signedUp, mixed>>
        /\ forms' = {}
        /\ \A u \in Users : signUps'[u] = NoForm /\ logins'[u].stage = "none"
    BY <1>11 DEF Restart, NoLogin
  <2>2. ListenersOwn' /\ SignUpsOwn' /\ FoundTypes'
    BY <2>1 DEF ListenersOwn, SignUpsOwn, FoundTypes
  <2> QED
    BY <2>1, <2>2, OwnKept DEF OwnInv
<1> QED
  BY <1>2, <1>3, <1>6, <1>7, <1>8, <1>9, <1>10, <1>11 DEF Next

LEMMA SessionOwn == Spec => [](TypeOK /\ OwnInv)
<1>1. Init => TypeOK /\ OwnInv
  BY InitTypes, InitOwn
<1>2. (TypeOK /\ OwnInv) /\ [Next]_vars => (TypeOK /\ OwnInv)'
  BY TypeStep, OwnStep
<1> QED
  BY <1>1, <1>2, PTL DEF Spec

\* A user's document is the one he registered with, unless a listener of
\* another user's sign-up was there when he signed in.
THEOREM SessionOwnDocument == Spec => []OwnDocument
<1>1. OwnInv => OwnDocument
  BY DEF OwnInv, DocumentsOwn, Owned, OwnDocument
<1> QED
  BY <1>1, SessionOwn, PTL

LEMMA LoginStepKeepsType ==
  ASSUME TypeOK, OwnInv, [Next]_vars, NEW u \in Users,
         logins[u].stage = "presentRead", logins'[u] = NoLogin,
         ~isLogin, isLogin'
  PROVE  [user |-> u, type |-> logType] \in signedUp \/ mixed[u]
<1>1. logins'[u] # logins[u]
  BY DEF NoLogin
<1>2. CASE PresentRead(u)
  <2>1. logType = logins[u].found /\ logins[u].found # NoType
    BY <1>2 DEF PresentRead, Admits
  <2> QED
    BY <2>1 DEF OwnInv, FoundTypes
<1>3. ASSUME NEW v \in Users, UserStep(v), ~PresentRead(u)
      PROVE  FALSE
  <2>1. CASE PresentRead(v)
    <3>1. logins'[u] = logins[u]
      BY <1>3, <2>1 DEF PresentRead, TypeOK
    <3> QED
      BY <1>1, <3>1
  <2>2. CASE ~PresentRead(v)
    <3>1. isLogin' = isLogin
      BY <1>3, <2>2 DEF UserStep, SignUp, Created, NotCreated, StartLogin, SignedIn,
         NotSignedIn, TypeRead, stored
    <3> QED
      BY <3>1
  <2> QED
    BY <2>1, <2>2
<1>4. ASSUME NEW f \in due, Listen(f) PROVE FALSE
  BY <1>1, <1>4 DEF Listen, calls
<1>5. ASSUME UNCHANGED isLogin PROVE FALSE
  BY <1>5
<1>6. CASE UNCHANGED vars \/ SplashDecides \/ BackToTypes \/ ListenerOpens
           \/ SignOut \/ DeleteDocument \/ DeleteUser \/ UserNotDeleted \/ Restart
  BY <1>5, <1>6 DEF vars, SplashDecides, BackToTypes, ListenerOpens, SignOut,
     DeleteDocument, DeleteUser, UserNotDeleted, Restart, stored
<1>7. CASE LoggedOut \/ Deleted
  BY <1>7 DEF LoggedOut, Deleted
<1>8. ASSUME NEW t \in Types, ChooseType(t) PROVE FALSE
  BY <1>5, <1>8 DEF ChooseType
<1> QED
  BY <1>2, <1>3, <1>4, <1>6, <1>7, <1>8 DEF Next

\* A login opens the dashboard only for a type its user registered as.
THEOREM SessionLoginKeepsType == Spec => LoginKeepsType
<1>1. TypeOK /\ OwnInv /\ [Next]_vars =>
        [\A u \in Users :
           (/\ logins[u].stage = "presentRead" /\ logins'[u] = NoLogin
            /\ ~isLogin /\ isLogin')
           => [user |-> u, type |-> logType] \in signedUp \/ mixed[u]]_vars
  BY LoginStepKeepsType
<1> QED
  BY <1>1, SessionOwn, PTL DEF Spec, LoginKeepsType

----------------------------------------------------------------------------
\* The end of a session.

LEMMA EndStep ==
  ASSUME TypeOK, EndInv, [Next]_vars
  PROVE  EndInv'
<1> SUFFICES ASSUME session' = NoUser,
                    isLogin' \/ page' = "dashboard" \/ InFlight'
             PROVE  ending' \in {"logout", "deleted"} \/ cut'
  BY DEF EndInv
<1>1. ASSUME session = NoUser, isLogin \/ page = "dashboard" \/ InFlight
      PROVE  ending \in {"logout", "deleted"} \/ cut
  BY <1>1 DEF EndInv
<1>2. ASSUME UNCHANGED <<session, logins, opening>> PROVE InFlight' => InFlight
  BY <1>2 DEF InFlight
<1>3. CASE UNCHANGED vars
  BY <1>1, <1>2, <1>3 DEF vars, stored, listeners, calls, history
<1>4. CASE SplashDecides \/ BackToTypes
  BY <1>1, <1>2, <1>4 DEF SplashDecides, BackToTypes, stored, listeners, calls,
     history
<1>5. ASSUME NEW t \in Types, ChooseType(t)
      PROVE  ending' \in {"logout", "deleted"} \/ cut'
  BY <1>1, <1>2, <1>5 DEF ChooseType, listeners, calls, history
<1>6. CASE ListenerOpens
  <2>1. InFlight
    BY <1>6 DEF ListenerOpens, InFlight
  <2> QED
    BY <1>1, <1>6, <2>1 DEF ListenerOpens, stored, calls, history
<1>7. ASSUME NEW f \in due, Listen(f)
      PROVE  ending' \in {"logout", "deleted"} \/ cut'
  BY <1>1, <1>2, <1>7 DEF Listen, calls, history
<1>8. ASSUME NEW u \in Users, UserStep(u)
      PROVE  ending' \in {"logout", "deleted"} \/ cut'
  <2>1. CASE SignedIn(u) \/ Created(u)
    BY <2>1, TypesAssumption DEF SignedIn, SignsIn, Created
  <2>2. CASE SignUp(u) \/ NotCreated(u)
    BY <1>1, <1>2, <2>2 DEF SignUp, NotCreated, stored, listeners, history
  <2>3. CASE StartLogin(u) \/ NotSignedIn(u)
    <3>1. InFlight' => InFlight
      <4>1. PICK l : /\ logins' = [logins EXCEPT ![u] = l]
                     /\ l.stage \in {"none", "signing"}
        BY <2>3 DEF StartLogin, NotSignedIn, NoLogin
      <4> QED
        BY <2>3, <4>1 DEF InFlight, TypeOK, StartLogin, NotSignedIn, listeners
    <3> QED
      BY <1>1, <2>3, <3>1 DEF StartLogin, NotSignedIn, stored, listeners, history
  <2>4. CASE TypeRead(u) \/ PresentRead(u)
    <3>1. InFlight
      BY <2>4 DEF InFlight, TypeRead, PresentRead
    <3> QED
      BY <1>1, <2>4, <3>1 DEF TypeRead, PresentRead, listeners, history
  <2> QED
    BY <1>8, <2>1, <2>2, <2>3, <2>4 DEF UserStep
<1>9. CASE SignOut \/ DeleteUser
  BY <1>9 DEF SignOut, DeleteUser
<1>10. CASE LoggedOut \/ Deleted
  <2>1. InFlight' => InFlight
    BY <1>10 DEF LoggedOut, Deleted, listeners, InFlight
  <2>2. ~isLogin' /\ page' # "dashboard" /\ session = NoUser
    BY <1>10 DEF LoggedOut, Deleted
  <2> QED
    BY <1>10, <2>1, <2>2 DEF LoggedOut, Deleted
<1>11. CASE DeleteDocument \/ UserNotDeleted
  BY <1>11 DEF DeleteDocument, UserNotDeleted
<1>12. CASE Restart
  <2>1. ~InFlight' /\ page' # "dashboard" /\ isLogin' = isLogin /\ session = NoUser
    BY <1>12 DEF Restart, InFlight, NoLogin, stored
  <2>2. cut' = (cut \/ ending \in {"logout", "deleted"})
    BY <1>12 DEF Restart
  <2> QED
    BY <1>1, <2>1, <2>2, Zenon
<1> QED
  BY <1>3, <1>4, <1>5, <1>6, <1>7, <1>8, <1>9, <1>10, <1>11, <1>12 DEF Next

\* Nobody is led to the dashboard without a session, but around its end.
THEOREM SessionBehindTheLogin == Spec => []SessionBehindLogin
<1>1. Init => TypeOK /\ EndInv
  <2>1. Init => EndInv
    BY DEF Init, EndInv, InFlight, NoLogin
  <2> QED
    BY <2>1, InitTypes
<1>2. (TypeOK /\ EndInv) /\ [Next]_vars => (TypeOK /\ EndInv)'
  BY TypeStep, EndStep
<1>3. EndInv => SessionBehindLogin
  BY DEF EndInv, SessionBehindLogin
<1> QED
  BY <1>1, <1>2, <1>3, PTL DEF Spec

=============================================================================
