------------------------------ MODULE Accounts ------------------------------
(***************************************************************************)
(* How operators' accounts come into being (StoreCreditor.Web on ASP.NET   *)
(* Core Identity), by the registration form or by a first Microsoft Entra  *)
(* sign-in, and which role they get.  A step is one call on the user       *)
(* store.  Provisioning takes several: is there the account?  is anybody   *)
(* there?  create the account, add the role and, for Entra, link the       *)
(* login.  The requests of different browsers interleave.  Signing in to   *)
(* an account, and its lockout, are the subject of AccountRecovery; here   *)
(* browsers sign in only where provisioning does it.                       *)
(*                                                                         *)
(* The ghost variable founders is the set of the addresses that were being *)
(* provisioned when the first account was stored.                          *)
(***************************************************************************)
EXTENDS Naturals, FiniteSets

CONSTANTS Browsers,
          Emails,       \* addresses of the allowed domain; both ways to an
                        \* account turn the others away before they look
          NoOne,        \* an absent address
          Faults        \* which of AccountFaults the environment may cause

AccountFaults == {"crash", "dbError"}

ASSUME AccountAssumption ==
    /\ NoOne \notin Emails
    /\ Faults \subseteq AccountFaults

VARIABLES users,     \* AspNetUsers, with each user's AspNetUserRoles and logins
          step,      \* where each browser's provisioning request is
          mail,      \* the address it provisions
          entrance,  \* how it came: "form" or "entra"
          isFirst,   \* what it remembers of the look at the user table
          session,   \* whom the browser's application cookie names
          founders

request == <<step, mail, entrance, isFirst>>
vars == <<users, request, session, founders>>

Roles == {"Admin", "Operator"}

User == [roles : SUBSET Roles, entra : BOOLEAN]

Steps == {"idle", "find", "count", "create", "role", "link"}

Registered == DOMAIN users

Admins == {e \in Registered : "Admin" \in users[e].roles}

-----------------------------------------------------------------------------
Init ==
    /\ users = [e \in {} |-> 0]
    /\ step = [b \in Browsers |-> "idle"]
    /\ mail = [b \in Browsers |-> NoOne]
    /\ entrance = [b \in Browsers |-> "form"]
    /\ isFirst = [b \in Browsers |-> FALSE]
    /\ session = [b \in Browsers |-> NoOne]
    /\ founders = {}

Goto(b, label) == step' = [step EXCEPT ![b] = label]

(* The request is answered, or ends with an exception. *)
EndRequest(b) ==
    /\ Goto(b, "idle")
    /\ mail' = [mail EXCEPT ![b] = NoOne]
    /\ isFirst' = [isFirst EXCEPT ![b] = FALSE]
    /\ entrance' = [entrance EXCEPT ![b] = "form"]

SignIn(b, e) == session' = [session EXCEPT ![b] = e]

Enter(b, e, how, label) ==
    /\ Goto(b, label)
    /\ mail' = [mail EXCEPT ![b] = e]
    /\ entrance' = [entrance EXCEPT ![b] = how]
    /\ UNCHANGED <<users, isFirst, session>>

-----------------------------------------------------------------------------
(* The registration form, of the Razor page or of the MVC controller. *)
Register(b, e) ==
    /\ step[b] = "idle"
    /\ Enter(b, e, "form", "count")
    /\ UNCHANGED founders

(* Mutant of EntraCallback: signs in before there is an account. *)
EntraSignsInFirst(b, e) ==
    /\ step[b] = "idle"
    /\ SignIn(b, e)
    /\ UNCHANGED <<users, request, founders>>

(* The return from Entra with identity e: a linked login signs in, unless   *)
(* the account is locked; otherwise the account is looked for.              *)
EntraCallback(b, e) ==
    /\ step[b] = "idle"
    /\ \/ /\ e \in Registered /\ users[e].entra
          /\ SignIn(b, e)
          /\ UNCHANGED <<users, request>>
       \/ Enter(b, e, "entra", "find")
    /\ UNCHANGED founders

(* A known address is linked, an unknown one gets an account. *)
FindByEmail(b) ==
    /\ step[b] = "find"
    /\ Goto(b, IF mail[b] \in Registered THEN "link" ELSE "count")
    /\ UNCHANGED <<users, mail, entrance, isFirst, session, founders>>

(* Mutant of CountUsers: looks for an administrator, not for a user. *)
CountAdmins(b) ==
    /\ step[b] = "count"
    /\ isFirst' = [isFirst EXCEPT ![b] = (Admins = {})]
    /\ Goto(b, "create")
    /\ UNCHANGED <<users, mail, entrance, session, founders>>

CountUsers(b) ==
    /\ step[b] = "count"
    /\ isFirst' = [isFirst EXCEPT ![b] = (Registered = {})]
    /\ Goto(b, "create")
    /\ UNCHANGED <<users, mail, entrance, session, founders>>

NewUser == [roles |-> {}, entra |-> FALSE]

(* Mutant of CreateAccount: an address that is taken goes through as well. *)
CreateOrReuse(b) ==
    /\ step[b] = "create"
    /\ users' = IF mail[b] \in Registered THEN users
                ELSE [e \in Registered \cup {mail[b]} |->
                        IF e = mail[b] THEN NewUser ELSE users[e]]
    /\ founders' = IF Registered = {} THEN {mail[c] : c \in {d \in Browsers : step[d] = "create"}}
                   ELSE founders
    /\ Goto(b, "role")
    /\ UNCHANGED <<mail, entrance, isFirst, session>>

(* CreateAsync, backed by the unique index on the user name, which is the   *)
(* address: only one account per address.  It may also turn the password of *)
(* the form down.                                                           *)
CreateAccount(b) ==
    /\ step[b] = "create"
    /\ \/ /\ mail[b] \in Registered \/ entrance[b] = "form"
          /\ EndRequest(b)
          /\ UNCHANGED <<users, founders>>
       \/ /\ mail[b] \notin Registered
          /\ users' = [e \in Registered \cup {mail[b]} |->
                         IF e = mail[b] THEN NewUser ELSE users[e]]
          /\ founders' = IF Registered = {}
                         THEN {mail[c] : c \in {d \in Browsers : step[d] = "create"}}
                         ELSE founders
          /\ Goto(b, "role")
          /\ UNCHANGED <<mail, entrance, isFirst>>
    /\ UNCHANGED session

(* Mutant of AssignedRole: the branches are swapped. *)
SwappedRole(b) == IF isFirst[b] THEN "Operator" ELSE "Admin"

AssignedRole(b) == IF isFirst[b] THEN "Admin" ELSE "Operator"

(* Both roles exist: SeedIdentityAsync adds them before the first request.  *)
(* If the row was stored in between (a sign-in to the new account fails, a  *)
(* login is linked to it), Identity answers ConcurrencyFailure.  Nobody     *)
(* looks at the answer; linking a login then fails as well.                 *)
AddToRole(b) ==
    /\ step[b] = "role"
    /\ \/ /\ users' = [users EXCEPT ![mail[b]].roles = @ \cup {AssignedRole(b)}]
          /\ \/ /\ entrance[b] = "form"
                /\ EndRequest(b)
             \/ /\ entrance[b] = "entra"
                /\ Goto(b, "link")
                /\ UNCHANGED <<mail, entrance, isFirst>>
       \/ EndRequest(b) /\ UNCHANGED users
    /\ UNCHANGED <<session, founders>>

(* AddLoginAsync fails when the login is there already, and when the row    *)
(* was stored in between.                                                   *)
LinkLogin(b) ==
    /\ step[b] = "link"
    /\ \/ UNCHANGED <<users, session>>
       \/ /\ ~users[mail[b]].entra
          /\ users' = [users EXCEPT ![mail[b]].entra = TRUE]
          /\ SignIn(b, mail[b])
    /\ EndRequest(b)
    /\ UNCHANGED founders

-----------------------------------------------------------------------------
(* The surroundings. *)

(* By the user, or the cookie expires. *)
Logout(b) ==
    /\ step[b] = "idle"
    /\ session[b] # NoOne
    /\ session' = [session EXCEPT ![b] = NoOne]
    /\ UNCHANGED <<users, request, founders>>

(* A store call throws; what the request stored before stays.  *)
AbortRequest(b) ==
    /\ "dbError" \in Faults
    /\ step[b] # "idle"
    /\ EndRequest(b)
    /\ UNCHANGED <<users, session, founders>>

(* The process dies; cookies outlive it, their keys are in the database. *)
Crash ==
    /\ "crash" \in Faults
    /\ step' = [b \in Browsers |-> "idle"]
    /\ mail' = [b \in Browsers |-> NoOne]
    /\ entrance' = [b \in Browsers |-> "form"]
    /\ isFirst' = [b \in Browsers |-> FALSE]
    /\ UNCHANGED <<users, session, founders>>

Provision(b) ==
    \/ \E e \in Emails : Register(b, e) \/ EntraCallback(b, e)
    \/ FindByEmail(b) \/ CountUsers(b) \/ CreateAccount(b) \/ AddToRole(b) \/ LinkLogin(b)
    \/ AbortRequest(b)

Next ==
    \/ \E b \in Browsers : Provision(b) \/ Logout(b)
    \/ Crash

Spec == Init /\ [][Next]_vars

-----------------------------------------------------------------------------
TypeOK ==
    /\ Registered \subseteq Emails
    /\ users \in [Registered -> User]
    /\ step \in [Browsers -> Steps]
    /\ mail \in [Browsers -> Emails \cup {NoOne}]
    /\ entrance \in [Browsers -> {"form", "entra"}]
    /\ isFirst \in [Browsers -> BOOLEAN]
    /\ session \in [Browsers -> Registered \cup {NoOne}]
    /\ founders \subseteq Emails

(* Nobody is both administrator and operator, however many requests, from   *)
(* whichever entrance, provision the same address at once.                  *)
OneRolePerAccount == \A e \in Registered : Cardinality(users[e].roles) <= 1

(* The role of administrator is not given away between two requests: once   *)
(* there are accounts and each has its role, one of them is administrator.  *)
(* (An account whose request died before AddToRole, or met a conflict in    *)
(* it, never gets a role.)                                                  *)
AdminNotLost ==
    /\ Registered # {}
    /\ \A e \in Registered : users[e].roles # {}
    => Admins # {}

(* Later users are operators: nobody whose provisioning began after the     *)
(* first account was stored becomes an administrator.                       *)
OnlyFoundersAreAdmins == Admins \subseteq founders

(* The first registered user is the administrator, and only the first.      *)
SingleAdmin == Cardinality(Admins) <= 1

=============================================================================
