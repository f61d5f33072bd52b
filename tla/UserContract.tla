---------------------------- MODULE UserContract ----------------------------
(***************************************************************************)
(* What the accounts and the users' documents promise to everyone who      *)
(* reads them.  A person registers once, with one form; a closed account   *)
(* is never used again; and a document is written or erased only while its *)
(* user is signed in.  What is written there is a form somebody registered *)
(* with, the user's own unless listeners of other sign-ups were on the     *)
(* device when he signed in.  Documents may outlive their account and may  *)
(* be missing: the sign-up, the deletion and the session are not one step. *)
(***************************************************************************)
CONSTANTS Users, Types, NoUser, NoForm

VARIABLES
  registered,  \* the forms that gave a user an account
  closed,      \* users whose account was deleted
  current,     \* who is signed in, or NoUser
  exposed,     \* users who ever signed in among other users' listeners
  docs         \* [Types -> [Users -> form or NoForm]]

contractVars == <<registered, closed, current, exposed, docs>>

Form == [user : Users, type : Types]
Registered == {f.user : f \in registered}

Init ==
  /\ registered \in SUBSET Form
  /\ \A f, g \in registered : f.user = g.user => f = g
  /\ closed = {} /\ current = NoUser /\ exposed = {}
  /\ docs = [t \in Types |-> [u \in Users |->
       IF [user |-> u, type |-> t] \in registered
       THEN [user |-> u, type |-> t] ELSE NoForm]]

\* Signing in may expose u to the listeners of others.
Enter(u) ==
  /\ current' = u
  /\ exposed' = exposed \/ exposed' = exposed \cup {u}

Register(f) ==
  /\ f.user \notin Registered
  /\ registered' = registered \cup {f}
  /\ Enter(f.user)
  /\ UNCHANGED <<closed, docs>>

SignIn(u) ==
  /\ u \in Registered \ closed
  /\ Enter(u)
  /\ UNCHANGED <<registered, closed, docs>>

SignOut ==
  /\ current' = NoUser
  /\ UNCHANGED <<registered, closed, exposed, docs>>

Close ==
  /\ current # NoUser
  /\ closed' = closed \cup {current}
  /\ current' = NoUser
  /\ UNCHANGED <<registered, exposed, docs>>

Write(t, f) ==
  /\ current # NoUser
  /\ f.user = current \/ current \in exposed
  /\ docs' = [docs EXCEPT ![t][current] = f]
  /\ UNCHANGED <<registered, closed, current, exposed>>

Erase(t) ==
  /\ current # NoUser
  /\ docs' = [docs EXCEPT ![t][current] = NoForm]
  /\ UNCHANGED <<registered, closed, current, exposed>>

Next ==
  \/ \E f \in Form : Register(f)
  \/ \E u \in Users : SignIn(u)
  \/ SignOut
  \/ Close
  \/ \E t \in Types : Erase(t) \/ \E f \in registered : Write(t, f)

Spec == Init /\ [][Next]_contractVars

=============================================================================
