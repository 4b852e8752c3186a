--------------------------- MODULE AccountsProofs ---------------------------
(***************************************************************************)
(* Theorems about Accounts, for any number of browsers and addresses and   *)
(* with or without faults.                                                 *)
(***************************************************************************)
EXTENDS Accounts, FiniteSetTheorems, TLAPS

-----------------------------------------------------------------------------
(* A request under way has an address, and past CreateAccount that address  *)
(* has an account.                                                          *)
RequestInv ==
    \A b \in Browsers :
        /\ step[b] # "idle" => mail[b] \in Emails
        /\ step[b] \in {"role", "link"} => mail[b] \in Registered

TypeInv == TypeOK /\ RequestInv

LEMMA NewUserType == NewUser \in User
BY DEF NewUser, User, Roles

LEMMA TypeInit == Init => TypeInv
BY DEF Init, TypeInv, TypeOK, RequestInv, Registered, Steps

LEMMA TypeNext == TypeInv /\ [Next]_vars => TypeInv'
<1> SUFFICES ASSUME TypeInv, [Next]_vars PROVE TypeInv'
  OBVIOUS
<1> USE DEF TypeInv, TypeOK, RequestInv, Steps, Goto, EndRequest
<1>1. ASSUME NEW b \in Browsers, NEW e \in Emails, Register(b, e) PROVE TypeInv'
  BY <1>1 DEF Register, Enter, Registered
<1>2. ASSUME NEW b \in Browsers, NEW e \in Emails, EntraCallback(b, e) PROVE TypeInv'
  BY <1>2 DEF EntraCallback, Enter, SignIn, request, Registered
<1>3. ASSUME NEW b \in Browsers, CountUsers(b) PROVE TypeInv'
  BY <1>3 DEF CountUsers, Registered
<1>4. ASSUME NEW b \in Browsers, CreateAccount(b) PROVE TypeInv'
  <2>1. CASE EndRequest(b) /\ UNCHANGED <<users, founders>>
    BY <1>4, <2>1 DEF CreateAccount, Registered
  <2>2. CASE ~(EndRequest(b) /\ UNCHANGED <<users, founders>>)
    <3>1. /\ users' = [e \in Registered \cup {mail[b]} |->
                         IF e = mail[b] THEN NewUser ELSE users[e]]
          /\ step' = [step EXCEPT ![b] = "role"]
          /\ UNCHANGED <<mail, entrance, isFirst, session>>
          /\ mail[b] \in Emails
      BY <1>4, <2>2 DEF CreateAccount
    <3>2. Registered' = Registered \cup {mail[b]}
      BY <3>1 DEF Registered
    <3>3. users' \in [Registered' -> User]
      BY <3>1, <3>2, NewUserType DEF Registered
    <3>4. founders' \subseteq Emails
      <4>1. \A c \in Browsers : step[c] = "create" => mail[c] \in Emails
        OBVIOUS
      <4> QED  BY <4>1, <1>4, <2>2 DEF CreateAccount
    <3>5. RequestInv' /\ step' \in [Browsers -> Steps]
      BY <3>1, <3>2
    <3> QED  BY <3>1, <3>2, <3>3, <3>4, <3>5
  <2> QED  BY <2>1, <2>2
<1>5. ASSUME NEW b \in Browsers, AddToRole(b) PROVE TypeInv'
  <2>1. /\ users' \in [Registered -> User]
        /\ Registered' = Registered
    BY <1>5 DEF AddToRole, AssignedRole, User, Roles, Registered
  <2> QED  BY <1>5, <2>1 DEF AddToRole
<1>6. ASSUME NEW b \in Browsers, LinkLogin(b) PROVE TypeInv'
  <2>1. /\ users' \in [Registered -> User]
        /\ Registered' = Registered
    BY <1>6 DEF LinkLogin, User, Registered
  <2> QED  BY <1>6, <2>1 DEF LinkLogin, SignIn
<1>7. ASSUME NEW b \in Browsers, AbortRequest(b) PROVE TypeInv'
  BY <1>7 DEF AbortRequest, Registered
<1>8. ASSUME NEW b \in Browsers, FindByEmail(b) PROVE TypeInv'
  BY <1>8 DEF FindByEmail, Registered
<1>9. ASSUME NEW b \in Browsers, Logout(b) PROVE TypeInv'
  BY <1>9 DEF Logout, request, Registered
<1>10. CASE Crash
  BY <1>10 DEF Crash, Registered
<1>11. CASE UNCHANGED vars
  BY <1>11 DEF vars, request, Registered
<1> QED
  BY <1>1, <1>2, <1>3, <1>4, <1>5, <1>6, <1>7, <1>8, <1>9, <1>10, <1>11 DEF Next, Provision

(* The state of every account, browser and request is of its type.          *)
THEOREM TypeCorrect == Spec => []TypeOK
<1>1. Spec => []TypeInv
  BY TypeInit, TypeNext, PTL DEF Spec
<1>2. TypeInv => TypeOK
  BY DEF TypeInv
<1> QED  BY <1>1, <1>2, PTL

-----------------------------------------------------------------------------
(* What a step can do to roles: nothing, or one of three of provisioning.   *)

NoRoleStep ==
    /\ Registered' = Registered
    /\ \A e \in Registered : users'[e].roles = users[e].roles
    /\ founders' = founders
    /\ \A b \in Browsers : step'[b] \in {"create", "role"} =>
          step'[b] = step[b] /\ mail'[b] = mail[b] /\ isFirst'[b] = isFirst[b]

Creates(b) ==
    /\ step[b] = "create"
    /\ mail[b] \in Emails \ Registered
    /\ Registered' = Registered \cup {mail[b]}
    /\ \A e \in Registered : users'[e].roles = users[e].roles
    /\ users'[mail[b]].roles = {}
    /\ Registered = {} => \A c \in Browsers : step[c] = "create" => mail[c] \in founders'
    /\ Registered # {} => founders' = founders
    /\ step' = [step EXCEPT ![b] = "role"]
    /\ UNCHANGED <<mail, isFirst>>

Promotes(b) ==
    /\ step[b] = "role"
    /\ Registered' = Registered
    /\ users'[mail[b]].roles = users[mail[b]].roles \cup {AssignedRole(b)}
    /\ \A e \in Registered \ {mail[b]} : users'[e].roles = users[e].roles
    /\ founders' = founders
    /\ step'[b] \notin {"create", "role"}
    /\ \A c \in Browsers \ {b} :
          step'[c] = step[c] /\ mail'[c] = mail[c] /\ isFirst'[c] = isFirst[c]

LEMMA RoleSteps ==
    TypeInv /\ [Next]_vars =>
        \/ NoRoleStep
        \/ \E b \in Browsers : CountUsers(b) \/ Creates(b) \/ Promotes(b)
<1> SUFFICES ASSUME TypeInv, [Next]_vars,
                    ~(\E b \in Browsers : CountUsers(b) \/ Creates(b) \/ Promotes(b))
             PROVE  NoRoleStep
  OBVIOUS
<1> USE DEF TypeInv, TypeOK, RequestInv, Goto, EndRequest, NoRoleStep
<1>1. ASSUME NEW b \in Browsers, NEW e \in Emails, Register(b, e) PROVE NoRoleStep
  BY <1>1 DEF Register, Enter, Registered
<1>2. ASSUME NEW b \in Browsers, NEW e \in Emails, EntraCallback(b, e) PROVE NoRoleStep
  BY <1>2 DEF EntraCallback, Enter, SignIn, request, Registered
<1>3. ASSUME NEW b \in Browsers, CreateAccount(b) PROVE NoRoleStep
  <2>1. CASE EndRequest(b) /\ UNCHANGED <<users, founders>>
    BY <2>1 DEF Registered
  <2>2. CASE ~(EndRequest(b) /\ UNCHANGED <<users, founders>>)
    <3>1. /\ users' = [e \in Registered \cup {mail[b]} |->
                         IF e = mail[b] THEN NewUser ELSE users[e]]
          /\ step[b] = "create" /\ mail[b] \in Emails /\ mail[b] \notin Registered
          /\ step' = [step EXCEPT ![b] = "role"]
          /\ UNCHANGED <<mail, isFirst>>
      BY <1>3, <2>2 DEF CreateAccount
    <3>2. /\ Registered' = Registered \cup {mail[b]}
          /\ \A e \in Registered : users'[e].roles = users[e].roles
          /\ users'[mail[b]].roles = {}
      BY <3>1 DEF Registered, NewUser
    <3>3. /\ Registered = {} => \A c \in Browsers : step[c] = "create" => mail[c] \in founders'
          /\ Registered # {} => founders' = founders
      BY <1>3, <2>2 DEF CreateAccount
    <3> QED  BY <3>1, <3>2, <3>3 DEF Creates
  <2> QED  BY <2>1, <2>2
<1>4. ASSUME NEW b \in Browsers, AddToRole(b) PROVE NoRoleStep
  <2>1. CASE EndRequest(b) /\ UNCHANGED users
    BY <1>4, <2>1 DEF AddToRole, Registered
  <2>2. CASE ~(EndRequest(b) /\ UNCHANGED users)
    <3>1. /\ Registered' = Registered
          /\ users'[mail[b]].roles = users[mail[b]].roles \cup {AssignedRole(b)}
          /\ \A e \in Registered \ {mail[b]} : users'[e].roles = users[e].roles
      BY <1>4, <2>2 DEF AddToRole, Registered, User
    <3>2. /\ founders' = founders /\ step[b] = "role"
          /\ step'[b] \notin {"create", "role"}
          /\ \A c \in Browsers \ {b} :
                step'[c] = step[c] /\ mail'[c] = mail[c] /\ isFirst'[c] = isFirst[c]
      BY <1>4 DEF AddToRole
    <3> QED  BY <3>1, <3>2 DEF Promotes
  <2> QED  BY <2>1, <2>2
<1>5. ASSUME NEW b \in Browsers, LinkLogin(b) PROVE NoRoleStep
  <2>1. /\ Registered' = Registered
        /\ \A e \in Registered : users'[e].roles = users[e].roles
    BY <1>5 DEF LinkLogin, User, Registered
  <2> QED  BY <1>5, <2>1 DEF LinkLogin
<1>6. ASSUME NEW b \in Browsers, AbortRequest(b) PROVE NoRoleStep
  BY <1>6 DEF AbortRequest, Registered
<1>7. ASSUME NEW b \in Browsers, FindByEmail(b) PROVE NoRoleStep
  BY <1>7 DEF FindByEmail, Registered
<1>8. ASSUME NEW b \in Browsers, Logout(b) PROVE NoRoleStep
  BY <1>8 DEF Logout, request, Registered
<1>9. CASE Crash
  BY <1>9 DEF Crash, Registered
<1>10. CASE UNCHANGED vars
  BY <1>10 DEF vars, request, Registered
<1> QED
  BY <1>1, <1>2, <1>3, <1>4, <1>5, <1>6, <1>7, <1>8, <1>9, <1>10 DEF Next, Provision

-----------------------------------------------------------------------------
(* One role per account: only the request that stored an account adds a     *)
(* role to it, and only one request did.                                    *)

RoleInv ==
    /\ \A e \in Registered :
          users[e].roles = {} \/ \E r \in Roles : users[e].roles = {r}
    /\ \A b \in Browsers : step[b] = "role" => users[mail[b]].roles = {}
    /\ \A b, c \in Browsers :
          step[b] = "role" /\ step[c] = "role" /\ mail[b] = mail[c] => b = c

LEMMA RoleNext == TypeInv /\ RoleInv /\ [Next]_vars => RoleInv'
<1> SUFFICES ASSUME TypeInv, RoleInv, [Next]_vars PROVE RoleInv'
  OBVIOUS
<1> USE DEF RoleInv
<1>1. CASE NoRoleStep
  BY <1>1 DEF NoRoleStep, TypeInv, RequestInv, TypeOK
<1>2. ASSUME NEW b \in Browsers, CountUsers(b) PROVE RoleInv'
  BY <1>2 DEF CountUsers, Goto, TypeInv, TypeOK, Registered
<1>3. ASSUME NEW b \in Browsers, Creates(b) PROVE RoleInv'
  BY <1>3 DEF Creates, TypeInv, RequestInv, TypeOK
<1>4. ASSUME NEW b \in Browsers, Promotes(b) PROVE RoleInv'
  <2>1. users'[mail[b]].roles = {AssignedRole(b)} /\ AssignedRole(b) \in Roles
    BY <1>4 DEF Promotes, AssignedRole, Roles
  <2>2. \A c \in Browsers : step'[c] = "role" =>
          c # b /\ step[c] = "role" /\ mail'[c] = mail[c] /\ mail[c] # mail[b]
    BY <1>4 DEF Promotes
  <2> QED  BY <1>4, <2>1, <2>2 DEF Promotes, TypeInv, RequestInv
<1> QED  BY <1>1, <1>2, <1>3, <1>4, RoleSteps

(* However requests race for an address, its account has one role at most.  *)
THEOREM OneRolePerAccountHolds == Spec => []OneRolePerAccount
<1>1. Init => RoleInv
  BY DEF Init, RoleInv, Registered
<1>2. Spec => [](TypeInv /\ RoleInv)
  BY <1>1, TypeInit, TypeNext, RoleNext, PTL DEF Spec
<1>3. RoleInv => OneRolePerAccount
  <2> SUFFICES ASSUME RoleInv, NEW e \in Registered
               PROVE  Cardinality(users[e].roles) <= 1
    BY DEF OneRolePerAccount
  <2>1. CASE users[e].roles = {}
    BY <2>1, FS_EmptySet
  <2>2. ASSUME NEW r \in Roles, users[e].roles = {r}
        PROVE  Cardinality(users[e].roles) <= 1
    <3>1. Cardinality({r}) = 1
      BY FS_Singleton
    <3> QED  BY <2>2, <3>1
  <2> QED  BY <2>1, <2>2 DEF RoleInv
<1> QED  BY <1>2, <1>3, PTL

-----------------------------------------------------------------------------
(* An administrator: the request that stores the first account looked       *)
(* before there was one, so it gives that account the role, or never comes  *)
(* to give it any.                                                          *)

AdminOrNothing(e) ==
    \/ "Admin" \in users[e].roles
    \/ /\ users[e].roles = {}
       /\ \A b \in Browsers : step[b] = "role" /\ mail[b] = e => isFirst[b]

AdminInv ==
    /\ \A b \in Browsers : step[b] = "create" /\ ~isFirst[b] => Registered # {}
    /\ Registered # {} => \E e \in Registered : AdminOrNothing(e)

LEMMA AdminNext == TypeInv /\ AdminInv /\ [Next]_vars => AdminInv'
<1> SUFFICES ASSUME TypeInv, AdminInv, [Next]_vars PROVE AdminInv'
  OBVIOUS
<1> USE DEF AdminInv, AdminOrNothing
<1>1. CASE NoRoleStep
  BY <1>1 DEF NoRoleStep
<1>2. ASSUME NEW b \in Browsers, CountUsers(b) PROVE AdminInv'
  <2>1. /\ Registered' = Registered /\ users' = users /\ mail' = mail
        /\ isFirst'[b] = (Registered = {})
        /\ step'[b] = "create"
        /\ \A c \in Browsers \ {b} : step'[c] = step[c] /\ isFirst'[c] = isFirst[c]
    BY <1>2 DEF CountUsers, Goto, TypeInv, TypeOK, Registered
  <2>2. \A c \in Browsers : step'[c] = "create" /\ ~isFirst'[c] => Registered # {}
    BY <2>1
  <2>3. \A e \in Registered : AdminOrNothing(e) => AdminOrNothing(e)'
    BY <2>1
  <2> QED  BY <2>1, <2>2, <2>3
<1>3. ASSUME NEW b \in Browsers, Creates(b) PROVE AdminInv'
  <2>1. CASE Registered = {}
    <3>1. \A c \in Browsers : step'[c] = "role" => c = b
      BY <1>3, <2>1 DEF Creates, TypeInv, RequestInv, TypeOK
    <3>2. isFirst[b]
      BY <1>3, <2>1 DEF Creates
    <3> QED  BY <1>3, <2>1, <3>1, <3>2 DEF Creates, TypeInv, TypeOK
  <2>2. CASE Registered # {}
    <3>1. PICK e \in Registered : AdminOrNothing(e)
      BY <2>2
    <3>2. AdminOrNothing(e)'
      BY <1>3, <3>1 DEF Creates, TypeInv, TypeOK
    <3> QED  BY <1>3, <3>1, <3>2 DEF Creates, TypeInv, TypeOK
  <2> QED  BY <2>1, <2>2
<1>4. ASSUME NEW b \in Browsers, Promotes(b) PROVE AdminInv'
  <2>1. mail[b] \in Registered
    BY <1>4 DEF Promotes, TypeInv, RequestInv
  <2>2. PICK e \in Registered : AdminOrNothing(e)
    BY <2>1
  <2>3. CASE e = mail[b]
    <3>1. "Admin" \in users'[e].roles
      BY <1>4, <2>2, <2>3 DEF Promotes, AssignedRole
    <3> QED  BY <1>4, <3>1 DEF Promotes
  <2>4. CASE e # mail[b]
    BY <1>4, <2>2, <2>4 DEF Promotes
  <2> QED  BY <2>3, <2>4
<1> QED  BY <1>1, <1>2, <1>3, <1>4, RoleSteps

(* With or without crashes: once every account has its role, one of them is *)
(* the administrator's.                                                     *)
THEOREM AdminNotLostHolds == Spec => []AdminNotLost
<1>1. Init => AdminInv
  BY DEF Init, AdminInv, Registered
<1>2. Spec => [](TypeInv /\ AdminInv)
  BY <1>1, TypeInit, TypeNext, AdminNext, PTL DEF Spec
<1>3. AdminInv => AdminNotLost
  BY DEF AdminInv, AdminNotLost, AdminOrNothing, Admins
<1> QED  BY <1>2, <1>3, PTL

-----------------------------------------------------------------------------
(* Founders: a request that still believes to be the first was under way    *)
(* when the first account was stored.                                       *)

FoundersInv ==
    /\ Admins \subseteq founders
    /\ \A b \in Browsers :
          step[b] \in {"create", "role"} /\ isFirst[b] /\ Registered # {} =>
              mail[b] \in founders

LEMMA FoundersNext == TypeInv /\ FoundersInv /\ [Next]_vars => FoundersInv'
<1> SUFFICES ASSUME TypeInv, FoundersInv, [Next]_vars PROVE FoundersInv'
  OBVIOUS
<1> USE DEF FoundersInv, Admins
<1>1. CASE NoRoleStep
  BY <1>1 DEF NoRoleStep
<1>2. ASSUME NEW b \in Browsers, CountUsers(b) PROVE FoundersInv'
  BY <1>2 DEF CountUsers, Goto, TypeInv, TypeOK, Registered
<1>3. ASSUME NEW b \in Browsers, Creates(b) PROVE FoundersInv'
  <2>1. Admins' \subseteq Admins
    BY <1>3 DEF Creates
  <2>2. CASE Registered = {}
    BY <1>3, <2>1, <2>2 DEF Creates, TypeInv, RequestInv, TypeOK
  <2>3. CASE Registered # {}
    BY <1>3, <2>1, <2>3 DEF Creates, TypeInv, TypeOK
  <2> QED  BY <2>2, <2>3
<1>4. ASSUME NEW b \in Browsers, Promotes(b) PROVE FoundersInv'
  <2>1. mail[b] \in Registered
    BY <1>4 DEF Promotes, TypeInv, RequestInv
  <2>2. Admins' \subseteq founders'
    BY <1>4, <2>1 DEF Promotes, AssignedRole
  <2> QED  BY <1>4, <2>2 DEF Promotes
<1> QED  BY <1>1, <1>2, <1>3, <1>4, RoleSteps

(* Whoever begins to register after the first account was stored becomes an *)
(* operator.                                                                *)
THEOREM OnlyFoundersAreAdminsHolds == Spec => []OnlyFoundersAreAdmins
<1>1. Init => FoundersInv
  BY DEF Init, FoundersInv, Registered, Admins
<1>2. Spec => [](TypeInv /\ FoundersInv)
  BY <1>1, TypeInit, TypeNext, FoundersNext, PTL DEF Spec
<1>3. FoundersInv => OnlyFoundersAreAdmins
  BY DEF FoundersInv, OnlyFoundersAreAdmins
<1> QED  BY <1>2, <1>3, PTL

-----------------------------------------------------------------------------
(* How many administrators the race of the first registrations can make:    *)
(* the founders come one from each browser.                                 *)

Creating == {d \in Browsers : step[d] = "create"}

FewFounders ==
    /\ IsFiniteSet(founders)
    /\ Cardinality(founders) <= Cardinality(Browsers)

LEMMA FoundersStep ==
    [Next]_vars => founders' = founders \/ founders' = {mail[c] : c \in Creating}
BY DEF Next, vars, Provision, Register, EntraCallback, FindByEmail, CountUsers, CreateAccount,
   AddToRole, LinkLogin, AbortRequest, Logout, Crash, Creating

LEMMA FewFoundersNext ==
    ASSUME IsFiniteSet(Browsers), FewFounders, [Next]_vars
    PROVE  FewFounders'
<1>1. CASE founders' = founders
  BY <1>1 DEF FewFounders
<1>2. CASE founders' = {mail[c] : c \in Creating}
  <2> DEFINE from == [c \in Creating |-> mail[c]]
  <2>1. IsFiniteSet(Creating) /\ Cardinality(Creating) <= Cardinality(Browsers)
    BY FS_Subset DEF Creating
  <2>2. from \in Surjection(Creating, founders')
    BY <1>2 DEF Surjection
  <2>3. IsFiniteSet(founders') /\ Cardinality(founders') <= Cardinality(Creating)
    BY <2>1, <2>2, FS_Surjection
  <2>4. /\ Cardinality(Creating) \in Nat /\ Cardinality(Browsers) \in Nat
        /\ Cardinality(founders') \in Nat
    BY <2>1, <2>3, FS_CardinalityType
  <2> QED  BY <2>1, <2>3, <2>4 DEF FewFounders
<1> QED  BY <1>1, <1>2, FoundersStep

(* There are never more administrators than browsers: the finding of the    *)
(* run Accounts_twoadmins gets no worse than one for each request that was  *)
(* under way, whatever happens later.                                       *)
THEOREM AdminsBounded ==
    ASSUME IsFiniteSet(Browsers)
    PROVE  Spec => [](IsFiniteSet(Admins) /\ Cardinality(Admins) <= Cardinality(Browsers))
<1>1. Init => FewFounders
  <2>1. Cardinality({}) = 0 /\ IsFiniteSet({}) /\ Cardinality(Browsers) \in Nat
    BY FS_EmptySet, FS_CardinalityType
  <2> QED  BY <2>1 DEF Init, FewFounders
<1>2. FewFounders /\ [Next]_vars => FewFounders'
  BY FewFoundersNext
<1>3. FewFounders /\ OnlyFoundersAreAdmins
        => IsFiniteSet(Admins) /\ Cardinality(Admins) <= Cardinality(Browsers)
  <2> SUFFICES ASSUME FewFounders, Admins \subseteq founders
               PROVE  IsFiniteSet(Admins) /\ Cardinality(Admins) <= Cardinality(Browsers)
    BY DEF OnlyFoundersAreAdmins
  <2>1. IsFiniteSet(Admins) /\ Cardinality(Admins) <= Cardinality(founders)
    BY FS_Subset DEF FewFounders
  <2>2. /\ Cardinality(Admins) \in Nat /\ Cardinality(founders) \in Nat
        /\ Cardinality(Browsers) \in Nat
    BY <2>1, FS_CardinalityType DEF FewFounders
  <2> QED  BY <2>1, <2>2 DEF FewFounders
<1> QED  BY <1>1, <1>2, <1>3, OnlyFoundersAreAdminsHolds, PTL DEF Spec

(* Registrations that come one after the other make one administrator, also *)
(* when some of them die half way.                                          *)
THEOREM SingleAdminOfOneBrowser ==
    ASSUME NEW b, Browsers = {b}
    PROVE  Spec => []SingleAdmin
<1>1. IsFiniteSet(Browsers) /\ Cardinality(Browsers) = 1
  BY FS_Singleton
<1>2. Cardinality(Admins) <= Cardinality(Browsers) => SingleAdmin
  BY <1>1 DEF SingleAdmin
<1> QED  BY <1>1, <1>2, AdminsBounded, PTL

=============================================================================
