------------------------------ MODULE Session ------------------------------
(***************************************************************************)
(* Sign-up, login, logout and account deletion on one device, with its     *)
(* restarts.  Three things say who is using the app: the Firebase session  *)
(* (currentUser), isLogin in the local storage, which decides where the    *)
(* splash screen leads, and the chosen login type, which names the         *)
(* collection of the user's document.  Each is written at its own moment.  *)
(*                                                                         *)
(* signUp leaves a listener of authStateChanges behind, never cancelled:   *)
(* at every later sign-in of the process it writes its registration form   *)
(* into the document of whoever is signed in then.  The session and the    *)
(* local storage outlive the process, listeners and calls do not.          *)
(***************************************************************************)
EXTENDS Integers, FiniteSets

CONSTANTS
  Users,        \* people with an e-mail address and, once registered, a uid
  Types,        \* the login types, which are also the names of collections
  SignUpTypes,  \* those with a registration form
  MaxTaps       \* bound on what the user does

NoUser == "nobody"
NoType == ""

ASSUME TypesAssumption ==
  /\ SignUpTypes \subseteq Types
  /\ MaxTaps \in Nat
  /\ NoUser \notin Users
  /\ NoType \notin Types

VARIABLES
  account,   \* [Users -> {"free", "used", "gone"}], Firebase accounts
  doc,       \* [Types -> [Users -> Form or NoForm]], users' documents
  session,   \* currentUser, a user or NoUser
  isLogin,   \* stored: the splash screen leads to the dashboard
  logType,   \* stored: the chosen login type or NoType
  page,      \* the page on top: splash, types, login or dashboard
  taps,      \* number of things the user did
  timer,     \* the splash screen's delayed decision is pending
  forms,     \* SUBSET Form, registerUser maps of the listeners there are
  due,       \* SUBSET Form, those with a sign-in event not yet handled
  opening,   \* a listener's setUserData has yet to return
  logins,    \* [Users -> Login], the login call of each user
  signUps,   \* [Users -> Form or NoForm], sign-ups awaiting their account
  ending,    \* where logout or deleteCurrentUser is
  mixed,     \* history, [Users -> BOOLEAN]: another user's listener was there
             \* when this user signed in
  signedUp,  \* history, SUBSET Form: the forms that gave a user his account
  cut        \* history: the process ended, or calls were still in flight,
             \* when the user was signed out

stored == <<isLogin, logType>>
listeners == <<forms, due, opening>>
calls == <<logins, signUps, ending>>
history == <<mixed, signedUp, cut>>
vars == <<account, doc, session, stored, page, taps, timer, listeners, calls,
          history>>

Form == [user : Users, type : Types]
NoForm == [user |-> NoUser, type |-> NoType]

\* typeAt: the collection a read was addressed to; found: the userType read.
Login ==
  [stage : {"none", "signing"}]
    \cup [stage : {"typeRead"}, typeAt : Types \cup {NoType}]
    \cup [stage : {"presentRead"}, typeAt : Types \cup {NoType},
          found : Types \cup {NoType}]

NoLogin == [stage |-> "none"]

TypeOK ==
  /\ account \in [Users -> {"free", "used", "gone"}]
  /\ doc \in [Types -> [Users -> Form \cup {NoForm}]]
  /\ session \in Users \cup {NoUser}
  /\ isLogin \in BOOLEAN
  /\ logType \in Types \cup {NoType}
  /\ page \in {"splash", "types", "login", "dashboard"}
  /\ taps \in 0 .. MaxTaps
  /\ timer \in BOOLEAN
  /\ forms \in SUBSET Form
  /\ due \in SUBSET forms
  /\ opening \in BOOLEAN
  /\ logins \in [Users -> Login]
  /\ signUps \in [Users -> Form \cup {NoForm}]
  /\ ending \in {"none", "logout", "delete", "deleted"}
  /\ mixed \in [Users -> BOOLEAN]
  /\ signedUp \in SUBSET Form
  /\ cut \in BOOLEAN

\* A fresh installation; some users registered earlier, on other devices.
Init ==
  /\ signedUp \in {F \in SUBSET Form : \A f, g \in F : f.user = g.user => f = g}
  /\ account = [u \in Users |->
         IF \E f \in signedUp : f.user = u THEN "used" ELSE "free"]
  /\ doc = [t \in Types |-> [u \in Users |->
         IF [user |-> u, type |-> t] \in signedUp
         THEN [user |-> u, type |-> t] ELSE NoForm]]
  /\ session = NoUser
  /\ isLogin = FALSE
  /\ logType = NoType
  /\ page = "splash"
  /\ taps = 0
  /\ timer = TRUE
  /\ forms = {}
  /\ due = {}
  /\ opening = FALSE
  /\ logins = [u \in Users |-> NoLogin]
  /\ signUps = [u \in Users |-> NoForm]
  /\ ending = "none"
  /\ mixed = [u \in Users |-> FALSE]
  /\ cut = FALSE

----------------------------------------------------------------------------
\* Pages.

Tap ==
  /\ taps < MaxTaps
  /\ taps' = taps + 1

\* isLoggedIn of the splash screen, 1.8 seconds after it was opened.
SplashDecides ==
  /\ timer
  /\ timer' = FALSE
  /\ page' = IF isLogin THEN "dashboard" ELSE "types"
  /\ UNCHANGED <<account, doc, session, stored, listeners, calls, history,
                 taps>>

ChooseType(t) ==
  /\ Tap
  /\ page = "types"
  /\ logType' = t
  /\ page' = "login"
  /\ UNCHANGED <<account, doc, session, isLogin, timer, listeners, calls,
                 history>>

\* The back arrow of the login page; the login page's own calls go on.
BackToTypes ==
  /\ page = "login"
  /\ page' = "types"
  /\ UNCHANGED <<account, doc, session, stored, taps, timer, listeners, calls,
                 history>>

----------------------------------------------------------------------------
\* The Firebase session.

\* A sign-in of u; every listener's event has yet to be handled.  Whether
\* there is one when u was signed in already is left open.
SignsIn(u) ==
  /\ session' = u
  /\ due' = due \cup forms \/ (session = u /\ due' = due)
  /\ mixed' = [mixed EXCEPT ![u] = @ \/ \E f \in forms : f.user # u]
  /\ cut' = FALSE

\* createAccount: the form is filled in with the chosen type.
SignUp(u) ==
  /\ Tap
  /\ page = "login"
  /\ logType \in SignUpTypes
  /\ account[u] = "free"
  /\ signUps[u] = NoForm
  /\ signUps' = [signUps EXCEPT ![u] = [user |-> u, type |-> logType]]
  /\ UNCHANGED <<account, doc, session, stored, page, timer, listeners, logins,
                 ending, history>>

\* Mutant of Created: the listener is there before the account, so that it
\* also handles the session there was.
CreatedLate(u) ==
  /\ signUps[u] # NoForm
  /\ signedUp' = signedUp \cup {signUps[u]}
  /\ forms' = forms \cup {signUps[u]}
  /\ due' = due \cup forms'
  /\ signUps' = [signUps EXCEPT ![u] = NoForm]
  /\ account' = [account EXCEPT ![u] = "used"]
  /\ UNCHANGED <<doc, session, stored, page, taps, timer, opening, logins,
                 ending,
                 mixed, cut>>

\* createUserWithEmailAndPassword has returned, which signs the user in, and
\* the listener is added: its first event tells of the current user.
Created(u) ==
  /\ signUps[u] # NoForm
  /\ account' = [account EXCEPT ![u] = "used"]
  /\ session' = u
  /\ mixed' = [mixed EXCEPT ![u] = @ \/ \E f \in forms : f.user # u]
  /\ cut' = FALSE
  /\ signedUp' = signedUp \cup {signUps[u]}
  /\ forms' = forms \cup {signUps[u]}
  /\ due' = due \cup forms'
  /\ signUps' = [signUps EXCEPT ![u] = NoForm]
  /\ UNCHANGED <<doc, stored, page, taps, timer, opening, logins, ending>>

NotCreated(u) ==
  /\ signUps[u] # NoForm
  /\ signUps' = [signUps EXCEPT ![u] = NoForm]
  /\ UNCHANGED <<account, doc, session, stored, page, taps, timer, listeners,
                 logins,
                 ending, history>>

\* Mutant of Listen: the form is written under the uid it was registered with.
ListenForOwner(f) ==
  /\ f \in due
  /\ due' = due \ {f}
  /\ IF session = NoUser
     THEN UNCHANGED <<doc, isLogin, opening>>
     ELSE /\ isLogin' = TRUE
          /\ opening' = TRUE
          /\ \/ /\ logType # NoType
                /\ doc' = [doc EXCEPT ![logType][f.user] = f]
             \/ UNCHANGED doc
  /\ UNCHANGED <<account, session, logType, page, taps, timer, forms, calls,
                 history>>

\* A listener handles its event: isLogin, and setUserData up to its write,
\* under the user and the login type there are now.  Its write may fail, as
\* it does without a login type.
Listen(f) ==
  /\ f \in due
  /\ due' = due \ {f}
  /\ IF session = NoUser
     THEN UNCHANGED <<doc, isLogin, opening>>
     ELSE /\ isLogin' = TRUE
          /\ opening' = TRUE
          /\ \/ /\ logType # NoType
                /\ doc' = [doc EXCEPT ![logType][session] = f]
             \/ UNCHANGED doc
  /\ UNCHANGED <<account, session, logType, page, taps, timer, forms, calls,
                 history>>

\* Its setUserData has returned, or failed, and it opens the dashboard.
ListenerOpens ==
  /\ opening
  /\ opening' = FALSE
  /\ page' = "dashboard"
  /\ UNCHANGED <<account, doc, session, stored, taps, timer, forms, due, calls,
                 history>>

----------------------------------------------------------------------------
\* login().

StartLogin(u) ==
  /\ Tap
  /\ page = "login"
  /\ account[u] = "used"
  /\ logins[u] = NoLogin
  /\ logins' = [logins EXCEPT ![u] = [stage |-> "signing"]]
  /\ UNCHANGED <<account, doc, session, stored, page, timer, listeners, signUps,
                 ending, history>>

\* signInWithEmailAndPassword has returned and getUserType reads the user's
\* document in the collection of the type chosen now.
SignedIn(u) ==
  /\ logins[u].stage = "signing"
  /\ account[u] = "used"
  /\ SignsIn(u)
  /\ logins' = [logins EXCEPT ![u] = [stage |-> "typeRead", typeAt |-> logType]]
  /\ UNCHANGED <<account, doc, stored, page, taps, timer, forms, opening,
                 signUps, ending,
                 signedUp>>

NotSignedIn(u) ==
  /\ logins[u].stage = "signing"
  /\ logins' = [logins EXCEPT ![u] = NoLogin]
  /\ UNCHANGED <<account, doc, session, stored, page, taps, timer, listeners,
                 signUps,
                 ending, history>>

\* What a read of the user's document finds; a failed read finds nothing.
FoundAt(t, u) == IF t = NoType THEN {NoForm} ELSE {doc[t][u], NoForm}

\* getUserType has returned; isUidPresent reads the document again.
TypeRead(u) ==
  /\ logins[u].stage = "typeRead"
  /\ \E f \in FoundAt(logins[u].typeAt, u) :
       logins' = [logins EXCEPT ![u] =
           [stage |-> "presentRead", typeAt |-> logType, found |-> f.type]]
  /\ UNCHANGED <<account, doc, session, stored, page, taps, timer, listeners,
                 signUps,
                 ending, history>>

\* Mutant of Admits: whether the document is there is all that counts.
AdmitsPresent(u, present) == present

\* The chosen type, as it is now, against the type that was read; a missing
\* one is null and equals no chosen type.
Admits(u, present) ==
  /\ present
  /\ logType = logins[u].found
  /\ logins[u].found # NoType

\* isUidPresent has returned.  A user who is turned away ("Invalid User")
\* stays signed in with Firebase.
PresentRead(u) ==
  /\ logins[u].stage = "presentRead"
  /\ \E f \in FoundAt(logins[u].typeAt, u) :
       IF Admits(u, f # NoForm)
       THEN isLogin' = TRUE /\ page' = "dashboard"
       ELSE UNCHANGED <<isLogin, page>>
  /\ logins' = [logins EXCEPT ![u] = NoLogin]
  /\ UNCHANGED <<account, doc, session, logType, taps, timer, listeners,
                 signUps, ending,
                 history>>

----------------------------------------------------------------------------
\* The end of a session.

\* Calls that open the dashboard without looking at the session again.
InFlight ==
  opening \/ \E u \in Users : logins[u].stage \in {"typeRead", "presentRead"}

\* logout, from the profile page or, on any page, from onTokenRefresh: the
\* session ends first,
SignOut ==
  /\ Tap
  /\ ending = "none"
  /\ session' = NoUser
  /\ ending' = "logout"
  /\ UNCHANGED <<account, doc, stored, page, timer, listeners, logins, signUps,
                 history>>

\* Mutant of LoggedOut: isLogin is not reset.
LoggedOutStays ==
  /\ ending = "logout"
  /\ ending' = "none"
  /\ logType' = NoType
  /\ page' = "splash"
  /\ timer' = TRUE
  /\ cut' = (InFlight /\ session = NoUser)
  /\ UNCHANGED <<account, doc, session, isLogin, listeners, logins, signUps,
                 mixed,
                 signedUp, taps>>

\* then what is stored of it, and the splash screen is opened.
LoggedOut ==
  /\ ending = "logout"
  /\ ending' = "none"
  /\ isLogin' = FALSE
  /\ logType' = NoType
  /\ page' = "splash"
  /\ timer' = TRUE
  /\ cut' = (InFlight /\ session = NoUser)
  /\ UNCHANGED <<account, doc, session, listeners, logins, signUps, mixed,
                 signedUp, taps>>

\* deleteCurrentUser deletes the user's document, then whoever is the current
\* user, then what is stored of the session but for the login type.  Nothing
\* catches an exception on the way.
DeleteDocument ==
  /\ Tap
  /\ page = "dashboard"
  /\ ending = "none"
  /\ session # NoUser
  /\ logType # NoType
  /\ doc' = [doc EXCEPT ![logType][session] = NoForm]
  /\ ending' = "delete"
  /\ UNCHANGED <<account, session, stored, page, timer, listeners, logins,
                 signUps,
                 history>>

DeleteUser ==
  /\ ending = "delete"
  /\ ending' = "deleted"
  /\ account' = IF session = NoUser THEN account
                ELSE [account EXCEPT ![session] = "gone"]
  /\ session' = NoUser
  /\ UNCHANGED <<doc, stored, page, taps, timer, listeners, logins, signUps,
                 history>>

UserNotDeleted ==
  /\ ending = "delete"
  /\ session # NoUser
  /\ ending' = "none"
  /\ UNCHANGED <<account, doc, session, stored, page, taps, timer, listeners,
                 logins,
                 signUps, history>>

Deleted ==
  /\ ending = "deleted"
  /\ ending' = "none"
  /\ isLogin' = FALSE
  /\ page' = "splash"
  /\ timer' = TRUE
  /\ cut' = (InFlight /\ session = NoUser)
  /\ UNCHANGED <<account, doc, session, logType, listeners, logins, signUps,
                 mixed,
                 signedUp, taps>>

\* Mutant of Restart: an event survives its listener.
RestartDue ==
  /\ page' = "splash"
  /\ timer' = TRUE
  /\ forms' = {}
  /\ opening' = FALSE
  /\ logins' = [u \in Users |-> NoLogin]
  /\ signUps' = [u \in Users |-> NoForm]
  /\ ending' = "none"
  /\ cut' = (cut \/ ending \in {"logout", "deleted"})
  /\ UNCHANGED <<account, doc, session, stored, taps, due, mixed, signedUp>>

\* The process ends, at any point, and the app is opened again.
Restart ==
  /\ page' = "splash"
  /\ timer' = TRUE
  /\ forms' = {}
  /\ due' = {}
  /\ opening' = FALSE
  /\ logins' = [u \in Users |-> NoLogin]
  /\ signUps' = [u \in Users |-> NoForm]
  /\ ending' = "none"
  /\ cut' = (cut \/ ending \in {"logout", "deleted"})
  /\ UNCHANGED <<account, doc, session, stored, taps, mixed, signedUp>>

UserStep(u) ==
  \/ SignUp(u) \/ Created(u) \/ NotCreated(u)
  \/ StartLogin(u) \/ SignedIn(u) \/ NotSignedIn(u)
  \/ TypeRead(u) \/ PresentRead(u)

Next ==
  \/ SplashDecides \/ BackToTypes
  \/ \E t \in Types : ChooseType(t)
  \/ \E u \in Users : UserStep(u)
  \/ \E f \in due : Listen(f)
  \/ ListenerOpens
  \/ SignOut \/ LoggedOut
  \/ DeleteDocument \/ DeleteUser \/ UserNotDeleted \/ Deleted
  \/ Restart

Spec == Init /\ [][Next]_vars

----------------------------------------------------------------------------
\* A user's document is the one he registered with: the listeners that signUp
\* leaves behind overwrite it with another user's form only if they were
\* there when he signed in.  They are not after a restart, nor on a device
\* nobody else registered on.
OwnDocument ==
  \A t \in Types, u \in Users :
    doc[t][u] # NoForm => doc[t][u].user = u \/ mixed[u]

\* A login opens the dashboard only for a type its user registered as,
\* although it reads the document twice and the chosen type three times, with
\* other logins, sign-ups, listeners and choices in between; but for a user
\* whose document another user's listener may have written.
LoginKeepsType ==
  [][\A u \in Users :
       (/\ logins[u].stage = "presentRead" /\ logins'[u] = NoLogin
        /\ ~isLogin /\ isLogin')
       => [user |-> u, type |-> logType] \in signedUp \/ mixed[u]]_vars

\* Nobody is led to the dashboard, now or by the next splash screen, without
\* a Firebase session, unless the session is just being ended, the process
\* ended between the end of the session and the reset of isLogin, or a login
\* or a listener was still in flight when the session ended.
SessionBehindLogin ==
  (isLogin \/ page = "dashboard") /\ session = NoUser
    => ending \in {"logout", "deleted"} \/ cut

\* The device implements UserContract: nobody gets a second account, a deleted
\* one is never signed in to again, and no call or listener that outlives its
\* session writes or erases a document of a user who is not signed in, such as
\* that of a user who has deleted his account (firebase_helper.dart:34-39,
\* 205-226, 1007-1037).
Contract == INSTANCE UserContract WITH
  registered <- signedUp,
  closed <- {u \in Users : account[u] = "gone"},
  current <- session,
  exposed <- {u \in Users : mixed[u]},
  docs <- doc

KeepsContract == Contract!Spec

----------------------------------------------------------------------------
\* The inductive invariants behind these properties, for SessionProofs.

\* Forms that may be written into the document of u.
Owned(f, u) == f.user = u /\ f \in signedUp

FormsSignedUp == forms \subseteq signedUp

SignUpsOwn == \A u \in Users : signUps[u] # NoForm => signUps[u].user = u

ListenersOwn ==
  session # NoUser => \A f \in forms : Owned(f, session) \/ mixed[session]

DocumentsOwn ==
  \A t \in Types, u \in Users :
    doc[t][u] # NoForm => Owned(doc[t][u], u) \/ mixed[u]

FoundTypes ==
  \A u \in Users :
    (logins[u].stage = "presentRead" /\ logins[u].found # NoType)
    => [user |-> u, type |-> logins[u].found] \in signedUp \/ mixed[u]

OwnInv ==
  FormsSignedUp /\ SignUpsOwn /\ ListenersOwn /\ DocumentsOwn /\ FoundTypes

\* Who has an account: those who registered, once.  A sign-up that waits for
\* its account has none yet, a session has one that is in use.
AccountInv ==
  /\ \A u \in Users : account[u] = "free" <=> \A f \in signedUp : f.user # u
  /\ \A f, g \in signedUp : f.user = g.user => f = g
  /\ \A u \in Users : signUps[u] # NoForm => account[u] = "free"
  /\ session # NoUser => account[session] = "used"

EndInv ==
  session = NoUser /\ (isLogin \/ page = "dashboard" \/ InFlight)
    => ending \in {"logout", "deleted"} \/ cut

=============================================================================
