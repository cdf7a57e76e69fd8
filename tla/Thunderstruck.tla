---------------------------- MODULE Thunderstruck ----------------------------
(***************************************************************************)
(* Registration and login (thunderstruck/src/thunderstruck.py).  An account *)
(* is a node of the Cortex, an external database, with a password's hash   *)
(* and a view of its own.  register_user asks the Cortex four times and    *)
(* awaits each answer, while the handlers of other requests run; the       *)
(* database knows no transaction over the four.  Any of the calls may fail *)
(* and end the request with what was done so far.  What an account sees in *)
(* its view, and the admin's page, are left out.                           *)
(***************************************************************************)
EXTENDS Integers, FiniteSets

CONSTANTS
  Registrants, \* registrations, each with a password of its own
  NameOf, \* the name that each asks for
  Nobody, \* no password
  MaxFailures \* bound: failing calls of the Cortex

ASSUME RegistrantsAssumption ==
  IsFiniteSet(Registrants) /\ Nobody \notin Registrants /\ MaxFailures \in Nat

VARIABLES
  handler, \* how far each registration got
  account, \* per name: the password whose hash is stored, and the views
  cookies, \* the registrants who logged in
  failures

thunderVars == <<handler, account, cookies, failures>>

Names == {NameOf[r] : r \in Registrants}
Account(r) == account[NameOf[r]]

ThunderInit ==
  /\ handler = [r \in Registrants |-> "form"]
  /\ account = [n \in Names |-> [password |-> Nobody, views |-> {}]]
  /\ cookies = {} /\ failures = 0

At(r, from, to) == handler[r] = from /\ handler' = [handler EXCEPT ![r] = to]

(* The name is free, or the registration is refused.                       *)
CheckName(r) ==
  /\ At(r, "form", IF Account(r).password = Nobody THEN "free" ELSE "refused")
  /\ UNCHANGED <<account, cookies, failures>>

(* An edit makes the node, or changes it if it is there.                   *)
AddCredentials(r) ==
  /\ At(r, "free", "added")
  /\ account' = [account EXCEPT ![NameOf[r]].password = r]
  /\ UNCHANGED <<cookies, failures>>

ForkView(r) ==
  /\ At(r, "added", "forked")
  /\ account' = [account EXCEPT ![NameOf[r]].views = @ \union {r}]
  /\ UNCHANGED <<cookies, failures>>

(* Mutant: any number of views will do.                                    *)
CountSomeViews(r) ==
  /\ At(r, "forked", IF Account(r).views # {} THEN "registered" ELSE "refused")
  /\ UNCHANGED <<account, cookies, failures>>

CountViews(r) ==
  /\ At(r, "forked", IF Cardinality(Account(r).views) = 1 THEN "registered" ELSE "refused")
  /\ UNCHANGED <<account, cookies, failures>>

(* A call fails, before or after the Cortex did what it asked for.         *)
CortexFails(r) ==
  /\ failures < MaxFailures /\ failures' = failures + 1
  /\ \/ handler[r] \in {"form", "free", "added", "forked"} /\ UNCHANGED account
     \/ handler[r] = "free" /\ account' = [account EXCEPT ![NameOf[r]].password = r]
     \/ /\ handler[r] = "added"
        /\ account' = [account EXCEPT ![NameOf[r]].views = @ \union {r}]
  /\ handler' = [handler EXCEPT ![r] = "failed"]
  /\ UNCHANGED cookies

Finished(r) == handler[r] \in {"registered", "refused", "failed"}

(* User.login_user compares the hash of the password.                      *)
Login(r) ==
  /\ Finished(r) /\ Account(r).password = r
  /\ cookies' = cookies \union {r}
  /\ UNCHANGED <<handler, account, failures>>

Logout(r) ==
  /\ r \in cookies
  /\ cookies' = cookies \ {r}
  /\ UNCHANGED <<handler, account, failures>>

ThunderNext ==
  \E r \in Registrants :
    \/ CheckName(r) \/ AddCredentials(r) \/ ForkView(r) \/ CountViews(r)
    \/ CortexFails(r) \/ Login(r) \/ Logout(r)

ThunderSpec == ThunderInit /\ [][ThunderNext]_thunderVars

-----------------------------------------------------------------------------
(* Properties *)

ThunderTypeOK ==
  /\ handler \in [Registrants -> {"form", "free", "added", "forked",
                                  "registered", "refused", "failed"}]
  /\ account \in [Names -> [password : Registrants \union {Nobody},
                            views : SUBSET Registrants]]
  /\ cookies \subseteq Registrants /\ failures \in 0 .. MaxFailures

(* A name is promised once: however the steps of several registrations of  *)
(* one name interleave, and whichever of them fail half-way, one of them   *)
(* at most is told that it succeeded (count of the views == 1).            *)
NamePromisedOnce ==
  \A r, q \in Registrants :
    (NameOf[r] = NameOf[q] /\ handler[r] = "registered" /\ handler[q] = "registered")
      => r = q
=============================================================================
