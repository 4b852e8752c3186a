--------------------------- MODULE AccountRecovery ---------------------------
(***************************************************************************)
(* What an operator does with an account that exists: recover or change    *)
(* the password, switch two-factor sign-in, edit the profile, confirm the  *)
(* address, sign in with a password, a mailed code or Microsoft Entra,     *)
(* from several browsers at once.  One account is modelled: no step looks  *)
(* at two.                                                                 *)
(*                                                                         *)
(* A request loads the user with one call and stores the whole row again   *)
(* with another; ASP.NET Identity's concurrency stamp makes the second     *)
(* fail if the row was stored by somebody else in between.  The security   *)
(* stamp is renewed with the password and the two-factor switch; reset     *)
(* links, sign-in codes and session cookies carry the stamp they were made *)
(* under; the two-factor cookie carries none.  Stamps are random in the    *)
(* code and never come back: here they count the stores of the row.        *)
(*                                                                         *)
(* Ghosts: the password that was typed to have a code mailed, the password *)
(* a session rests on, and uses, how many resets a link has led to.        *)
(***************************************************************************)
EXTENDS Naturals, FiniteSets

CONSTANTS Browsers,
          Passwords,
          NoPassword,  \* what a visitor from Entra gave
          MaxSaves,    \* the row is stored at most that often
          MaxMails,    \* so many links and codes lie in the mailbox at a time
          Faults       \* subset of {"crash"}

ASSUME RecoveryAssumption ==
    /\ NoPassword \notin Passwords
    /\ MaxSaves \in Nat /\ MaxMails \in Nat
    /\ Faults \subseteq {"crash"}

VARIABLES user,      \* the row of AspNetUsers, with the login in AspNetUserLogins
          links,     \* reset links that were mailed and are not a day old
          codes,     \* sign-in codes that were mailed and have not expired
          request,   \* what each browser's request has loaded and was given
          pending,   \* has the browser a two-factor cookie?
          session,   \* each browser's application cookie
          uses

mails == <<links, codes>>
cookies == <<pending, session>>
vars == <<user, mails, request, cookies, uses>>

Stamps == 0..MaxSaves

User == [password : Passwords, twoFactor : BOOLEAN, linked : BOOLEAN, locked : BOOLEAN,
         stamp : Stamps, version : Stamps]

Code == [stamp : Stamps, typed : Passwords]

Ops == {"reset", "change", "toggle", "update", "lock", "ask", "clear", "clearForCode", "link",
        "signIn", "code"}

(* given is the password the visitor typed to prove who it is, token the    *)
(* stamp in the visitor's link, new the password to be set.                 *)
Request == [op : Ops, copy : User, token : Stamps, given : Passwords \cup {NoPassword},
            new : Passwords]

NoRequest == [op |-> "none"]

NoSession == [open |-> FALSE]

Session == [open : {TRUE}, stamp : Stamps, given : Passwords \cup {NoPassword}]

-----------------------------------------------------------------------------
Init ==
    /\ user \in [password : Passwords, twoFactor : BOOLEAN, linked : BOOLEAN,
                 locked : {FALSE}, stamp : {0}, version : {0}]
    /\ links = {} /\ codes = {}
    /\ request = [b \in Browsers |-> NoRequest]
    /\ pending = [b \in Browsers |-> FALSE]
    /\ session = [b \in Browsers |-> NoSession]
    /\ uses = [t \in Stamps |-> 0]

(* The request loads the user and checks what it was given against it. *)
Load(b, op, token, given, new) ==
    /\ request[b] = NoRequest
    /\ request' = [request EXCEPT ![b] =
           [op |-> op, copy |-> user, token |-> token, given |-> given, new |-> new]]
    /\ UNCHANGED <<user, mails, cookies, uses>>

EndRequest(b) == request' = [request EXCEPT ![b] = NoRequest]

MailboxHasRoom == Cardinality(links) + Cardinality(codes) < MaxMails

(* The user asks for a link; the mail may be lost, which the page hides.    *)
ForgotPassword ==
    /\ MailboxHasRoom
    /\ links' = links \cup {user.stamp}
    /\ UNCHANGED <<user, codes, request, cookies, uses>>

LinkExpires(t) ==
    /\ t \in links
    /\ links' = links \ {t}
    /\ UNCHANGED <<user, codes, request, cookies, uses>>

CodeExpires(c) ==
    /\ c \in codes
    /\ codes' = codes \ {c}
    /\ UNCHANGED <<user, links, request, cookies, uses>>

(* A link made under another stamp is refused at once. *)
ResetPassword(b) ==
    \E token \in links, new \in Passwords :
        /\ token = user.stamp
        /\ Load(b, "reset", token, user.password, new)

(* The pages for a signed-in user go by the cookie; that the cookie is      *)
(* stale is noticed only when it is validated.                              *)
ChangePassword(b) ==
    /\ session[b].open
    /\ \E new \in Passwords : Load(b, "change", user.stamp, user.password, new)

ToggleTwoFactor(b) ==
    /\ session[b].open
    /\ Load(b, "toggle", user.stamp, user.password, user.password)

(* The row is stored again, what matters here stays: a display name, the    *)
(* confirmation of an address (all are confirmed when the account is made), *)
(* a failure to count.                                                      *)
LoadToUpdate(b) == Load(b, "update", user.stamp, user.password, user.password)

UpdateProfile(b) == session[b].open /\ LoadToUpdate(b)

ConfirmEmail(b) == LoadToUpdate(b)

(* AccessFailedAsync.  How many failures lock the account is left open: any *)
(* one may be the last.                                                     *)
CountFailure(b) ==
    LoadToUpdate(b) \/ Load(b, "lock", user.stamp, user.password, user.password)

(* A right password signs in, at once or, if failures were counted, after   *)
(* the count is cleared; an account with two factors is asked for a code,   *)
(* unless UseOtp is off.  Only this load looks at the lockout.              *)
Login(b) ==
    /\ ~user.locked
    /\ \E given \in Passwords :
        \/ given # user.password /\ CountFailure(b)
        \/ /\ given = user.password
           /\ \E op \in {IF user.twoFactor THEN "ask" ELSE "clear", "signIn"} :
                  Load(b, op, user.stamp, given, user.password)

(* Mutant of CodeHolds: a code is bound to the account alone. *)
AnyCodeHolds(c) == c \in codes

(* A code holds if it was made under the user's stamp. *)
CodeHolds(c) == c \in codes /\ c.stamp = user.stamp

(* A later request.  The two-factor cookie only names the user, so any code *)
(* that holds will do, whoever had it mailed; a wrong one is counted.       *)
LoginWith2fa(b) ==
    /\ pending[b] /\ ~user.locked
    /\ \/ \E c \in codes, op \in {"clearForCode", "code"} :
              CodeHolds(c) /\ Load(b, op, user.stamp, c.typed, user.password)
       \/ CountFailure(b)

(* Back from Entra, past two-factor sign-in.  The first time the login is   *)
(* linked to the account, locked or not; a linked login of a locked account *)
(* is turned away (linking it again fails).                                 *)
EntraCallback(b) ==
    \/ /\ user.linked /\ ~user.locked
       /\ Load(b, "signIn", user.stamp, NoPassword, user.password)
    \/ ~user.linked /\ Load(b, "link", user.stamp, NoPassword, user.password)

-----------------------------------------------------------------------------
Stores == {"reset", "change", "toggle", "update", "lock", "clear", "clearForCode", "link"}

(* Mutant of Edited: a changed password leaves the stamp alone. *)
EditedKeepingStamp(r) ==
    [password  |-> IF r.op \in {"reset", "change"} THEN r.new ELSE r.copy.password,
     twoFactor |-> IF r.op = "toggle" THEN ~r.copy.twoFactor ELSE r.copy.twoFactor,
     linked    |-> r.copy.linked \/ r.op = "link",
     locked    |-> r.copy.locked \/ r.op = "lock",
     stamp     |-> IF r.op = "toggle" THEN user.version + 1 ELSE r.copy.stamp,
     version   |-> user.version + 1]

(* The row a request stores: its copy, edited. *)
Edited(r) ==
    [password  |-> IF r.op \in {"reset", "change"} THEN r.new ELSE r.copy.password,
     twoFactor |-> IF r.op = "toggle" THEN ~r.copy.twoFactor ELSE r.copy.twoFactor,
     linked    |-> r.copy.linked \/ r.op = "link",
     locked    |-> r.copy.locked \/ r.op = "lock",
     stamp     |-> IF r.op \in {"reset", "change", "toggle"} THEN user.version + 1
                   ELSE r.copy.stamp,
     version   |-> user.version + 1]

(* Mutant of Unchanged: there is no concurrency stamp. *)
AlwaysUnchanged(r) == TRUE

(* Nobody stored the row since r loaded it. *)
Unchanged(r) == r.copy.version = user.version

(* What is left to do when the row is stored: sign in, with the row as      *)
(* stored.  A change of password renews the own cookie.                     *)
Rest(r) ==
    IF r.op \in {"change", "clear", "clearForCode", "link"}
    THEN [r EXCEPT !.op = IF r.op = "clearForCode" THEN "code" ELSE "signIn",
                   !.copy = Edited(r),
                   !.given = IF r.op = "change" THEN r.new ELSE r.given]
    ELSE NoRequest

(* UpdateAsync. *)
Store(b) ==
    LET r == request[b]
    IN  /\ r.op \in Stores
        /\ Unchanged(r)
        /\ user.version < MaxSaves
        /\ user' = Edited(r)
        /\ request' = [request EXCEPT ![b] = Rest(r)]
        /\ uses' = IF r.op = "reset" THEN [uses EXCEPT ![r.token] = @ + 1] ELSE uses
        /\ UNCHANGED <<mails, cookies>>

(* Somebody did: Identity answers ConcurrencyFailure.  (The profile page    *)
(* says "Profile updated." all the same.)                                   *)
Conflict(b) ==
    /\ request[b].op \in Stores
    /\ ~Unchanged(request[b])
    /\ EndRequest(b)
    /\ UNCHANGED <<user, mails, cookies, uses>>

(* The first factor was right: the two-factor cookie is set and a code made *)
(* from the user as loaded is mailed.                                       *)
AskForCode(b) ==
    LET r == request[b]
    IN  /\ r.op = "ask"
        /\ MailboxHasRoom
        /\ pending' = [pending EXCEPT ![b] = TRUE]
        /\ codes' = codes \cup {[stamp |-> r.copy.stamp, typed |-> r.given]}
        /\ EndRequest(b)
        /\ UNCHANGED <<user, links, session, uses>>

(* The cookie is made from the user as loaded, or as stored by this         *)
(* request.  A sign-in by code uses up the two-factor cookie.               *)
IssueCookie(b) ==
    LET r == request[b]
    IN  /\ r.op \in {"signIn", "code"}
        /\ session' = [session EXCEPT ![b] =
               [open |-> TRUE, stamp |-> r.copy.stamp, given |-> r.given]]
        /\ pending' = [pending EXCEPT ![b] = @ /\ r.op # "code"]
        /\ EndRequest(b)
        /\ UNCHANGED <<user, mails, uses>>

(* Every half hour the middleware compares the stamps. *)
ValidateSession(b) ==
    /\ session[b].open
    /\ session[b].stamp # user.stamp
    /\ session' = [session EXCEPT ![b] = NoSession]
    /\ UNCHANGED <<user, mails, request, pending, uses>>

(* The two-factor cookie goes too, but with an Entra sign-out it may stay.  *)
Logout(b) ==
    /\ session[b].open
    /\ session' = [session EXCEPT ![b] = NoSession]
    /\ \/ pending' = [pending EXCEPT ![b] = FALSE]
       \/ user.linked /\ UNCHANGED pending
    /\ UNCHANGED <<user, mails, request, uses>>

(* The two-factor cookie is good for five minutes. *)
PendingLapses(b) ==
    /\ pending[b]
    /\ pending' = [pending EXCEPT ![b] = FALSE]
    /\ UNCHANGED <<user, mails, request, session, uses>>

(* Fifteen minutes are over; also for those that have loaded the row.       *)
LockoutEnds ==
    /\ user.locked
    /\ user' = [user EXCEPT !.locked = FALSE]
    /\ request' = [b \in Browsers |->
           IF request[b] = NoRequest THEN NoRequest
           ELSE [request[b] EXCEPT !.copy.locked = FALSE]]
    /\ UNCHANGED <<mails, cookies, uses>>

Crash ==
    /\ "crash" \in Faults
    /\ request' = [b \in Browsers |-> NoRequest]
    /\ UNCHANGED <<user, mails, cookies, uses>>

Next ==
    \/ ForgotPassword
    \/ \E t \in Stamps : LinkExpires(t)
    \/ \E c \in codes : CodeExpires(c)
    \/ \E b \in Browsers :
        \/ ResetPassword(b) \/ ChangePassword(b) \/ ToggleTwoFactor(b)
        \/ UpdateProfile(b) \/ ConfirmEmail(b)
        \/ Login(b) \/ LoginWith2fa(b) \/ EntraCallback(b)
        \/ Store(b) \/ Conflict(b) \/ AskForCode(b) \/ IssueCookie(b)
        \/ ValidateSession(b) \/ Logout(b) \/ PendingLapses(b)
    \/ LockoutEnds
    \/ Crash

Spec == Init /\ [][Next]_vars

-----------------------------------------------------------------------------
(* Besides the types: no stamp is ahead of the row. *)
TypeOK ==
    /\ user \in User /\ user.stamp <= user.version
    /\ links \subseteq 0..user.stamp
    /\ codes \subseteq Code
    /\ request \in [Browsers -> Request \cup {NoRequest}]
    /\ pending \in [Browsers -> BOOLEAN]
    /\ session \in [Browsers -> Session \cup {NoSession}]
    /\ uses \in [Stamps -> Nat]

(* A mailed link resets the password once, however many browsers follow it  *)
(* at the same moment and however often it was mailed.                      *)
LinkWorksOnce == \A t \in Stamps : uses[t] <= 1

(* The password changes only on a proof that is good at that moment: a link *)
(* made since the last change, or the password in force.  A request that    *)
(* was checked against an older row, or stores another column of one,       *)
(* cannot set or bring back a password.                                     *)
PasswordChangeProven ==
    [][user'.password # user.password =>
          \E b \in Browsers :
              \/ request[b].op = "reset" /\ request[b].token = user.stamp
              \/ request[b].op = "change" /\ request[b].given = user.password]_vars

(* Storing the row never ends a lockout: a request that loaded the account  *)
(* before it was locked, to reset its password, to clear its failures, to   *)
(* edit the profile, does not put the unlocked row back.                    *)
LockoutKept ==
    [][user.locked /\ ~user'.locked => user'.version = user.version]_vars

Credentials == {user.password} \cup IF user.linked THEN {NoPassword} ELSE {}

(* A session that passes validation rests on the password in force, also    *)
(* when the sign-in overlapped a change: that password was typed for it, by *)
(* this browser or by the one that had the code mailed; or it came from     *)
(* Entra, with a login that is linked.  (The browser that enters a code may *)
(* have got its two-factor cookie under a password of before.)              *)
SessionRestsOnPassword ==
    \A b \in Browsers :
        session[b].open /\ session[b].stamp = user.stamp => session[b].given \in Credentials

=============================================================================
