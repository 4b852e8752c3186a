------------------------ MODULE AccountRecoveryProofs ------------------------
(***************************************************************************)
(* Theorems about AccountRecovery, for any number of browsers, passwords   *)
(* and stores of the row, with or without crashes.                         *)
(***************************************************************************)
EXTENDS AccountRecovery, TLAPS

-----------------------------------------------------------------------------
(* What a request knows of the row.  Its copy is no newer than the row, and *)
(* is the row if the versions agree; under the row's stamp it has the row's *)
(* password; and the link, or the password, it was given agreed with the    *)
(* copy.                                                                    *)
CopyOf(r) ==
    /\ r \in Request
    /\ r.copy.version <= user.version
    /\ r.copy.stamp <= user.stamp
    /\ r.copy.version = user.version => r.copy = user
    /\ r.copy.stamp = user.stamp => r.copy.password = user.password
    /\ r.op = "reset" => r.token = r.copy.stamp
    /\ r.op \in {"change", "ask", "clear", "clearForCode"} => r.given = r.copy.password
    /\ r.op \in {"signIn", "code"} /\ r.copy.stamp = user.stamp => r.given \in Credentials
    /\ r.op = "link" => r.given = NoPassword

RequestInv == \A b \in Browsers : request[b] # NoRequest => CopyOf(request[b])

SessionInv ==
    \A b \in Browsers : session[b].open =>
        /\ session[b].stamp <= user.stamp
        /\ session[b].stamp = user.stamp => session[b].given \in Credentials

(* A code was mailed to somebody who typed the password of its stamp.       *)
CodeInv ==
    \A c \in codes :
        /\ c.stamp <= user.stamp
        /\ c.stamp = user.stamp => c.typed = user.password

(* The row's stamp, and those to come, have served no reset. *)
LinkInv ==
    /\ \A t \in Stamps : uses[t] \in {0, 1}
    /\ \A t \in Stamps : t >= user.stamp => uses[t] = 0

RecoveryInv == TypeOK /\ RequestInv /\ SessionInv /\ CodeInv /\ LinkInv

-----------------------------------------------------------------------------
LEMMA RecoveryInit == Init => RecoveryInv
<1> SUFFICES ASSUME Init PROVE RecoveryInv
  OBVIOUS
<1>1. 0 \in Stamps
  BY RecoveryAssumption DEF Stamps
<1>2. user \in User /\ user.stamp = 0 /\ user.version = 0
  BY <1>1 DEF Init, User
<1> QED
  BY <1>1, <1>2, RecoveryAssumption
     DEF Init, RecoveryInv, TypeOK, RequestInv, SessionInv, CodeInv, LinkInv, NoSession

(* A request that loads the row has a copy of it. *)
LEMMA LoadEffect ==
    ASSUME RecoveryInv, NEW b \in Browsers, NEW op \in Ops, NEW token \in Stamps,
           NEW given \in Passwords \cup {NoPassword}, NEW new \in Passwords,
           Load(b, op, token, given, new),
           op = "reset" => token = user.stamp,
           op = "link" => given = NoPassword,
           op \notin {"signIn", "link"} => given = user.password,
           op \in {"signIn", "code"} => given \in Credentials
    PROVE  RecoveryInv'
<1> DEFINE r == [op |-> op, copy |-> user, token |-> token, given |-> given, new |-> new]
<1>1. r \in Request
  BY DEF RecoveryInv, TypeOK, Request
<1>2. user.version \in Nat /\ user.stamp \in Nat
  BY RecoveryAssumption DEF RecoveryInv, TypeOK, User, Stamps
<1>3. CopyOf(r)
  BY <1>1, <1>2 DEF CopyOf
<1>4. UNCHANGED <<user, mails, cookies, uses>> /\ request' = [request EXCEPT ![b] = r]
  BY DEF Load
<1>5. TypeOK' /\ SessionInv' /\ CodeInv' /\ LinkInv'
  BY <1>1, <1>4
     DEF RecoveryInv, TypeOK, SessionInv, CodeInv, LinkInv, Credentials, mails, cookies
<1>6. \A c \in Browsers : request'[c] = IF c = b THEN r ELSE request[c]
  BY <1>4 DEF RecoveryInv, TypeOK
<1>7. RequestInv'
  BY <1>3, <1>4, <1>6 DEF RecoveryInv, RequestInv, CopyOf, Credentials
<1> QED  BY <1>5, <1>7 DEF RecoveryInv

(* The row as stored: one version newer; a new password comes with a stamp  *)
(* never seen before, and without one the password stays.                   *)
LEMMA StoreEffect ==
    ASSUME RecoveryInv, NEW b \in Browsers, Store(b)
    PROVE  /\ request[b] # NoRequest /\ request[b].copy = user
           /\ CopyOf(request[b])
           /\ user' = Edited(request[b]) /\ user' \in User
           /\ user'.version = user.version + 1
           /\ user.locked => user'.locked
           /\ user'.stamp = user.stamp => Credentials \subseteq Credentials'
           /\ request[b].op = "link" => NoPassword \in Credentials'
           /\ \/ /\ user'.stamp = user.version + 1
                 /\ user'.password # user.password => request[b].op \in {"reset", "change"}
              \/ /\ user'.stamp = user.stamp /\ user'.password = user.password
                 /\ request[b].op \notin {"reset", "change"}
<1> DEFINE r == request[b]
<1>1. r # NoRequest /\ r.copy.version = user.version /\ r.op \in Stores
  BY DEF Store, Unchanged, Stores, NoRequest
<1>2. CopyOf(r) /\ r.copy = user
  BY <1>1 DEF RecoveryInv, RequestInv, CopyOf
<1>3. user' = Edited(r) /\ user.version < MaxSaves
  BY DEF Store
<1>4. /\ user.version \in Stamps /\ user.version + 1 \in Stamps
      /\ user.stamp \in Stamps /\ user.password \in Passwords
      /\ user.linked \in BOOLEAN /\ user.locked \in BOOLEAN /\ user.twoFactor \in BOOLEAN
  BY <1>3, RecoveryAssumption DEF RecoveryInv, TypeOK, User, Stamps
<1>5. r.new \in Passwords
  BY <1>2 DEF CopyOf, Request
<1>6. /\ user'.version = user.version + 1
      /\ user'.stamp = IF r.op \in {"reset", "change", "toggle"} THEN user.version + 1
                       ELSE user.stamp
      /\ user'.password = IF r.op \in {"reset", "change"} THEN r.new ELSE user.password
      /\ user' \in User
  BY <1>2, <1>3, <1>4, <1>5 DEF Edited, User
<1>7. /\ user.linked \/ r.op = "link" => user'.linked
      /\ user.locked => user'.locked
  BY <1>2, <1>3 DEF Edited
<1>8. user'.stamp = user.stamp => user'.password = user.password
  BY <1>4, <1>6, RecoveryAssumption DEF RecoveryInv, TypeOK, Stamps
<1>9. /\ user'.stamp = user.stamp => Credentials \subseteq Credentials'
      /\ r.op = "link" => NoPassword \in Credentials'
  BY <1>7, <1>8, Zenon DEF Credentials
<1> QED  BY <1>1, <1>2, <1>3, <1>6, <1>7, <1>9

LEMMA StoreKeeps ==
    ASSUME RecoveryInv, NEW b \in Browsers, Store(b)
    PROVE  RecoveryInv'
<1> DEFINE r == request[b]
<1>1. /\ r # NoRequest /\ r.copy = user /\ CopyOf(r) /\ user' \in User
      /\ user' = Edited(r)
      /\ user'.version = user.version + 1
      /\ user'.stamp \in {user.version + 1, user.stamp}
      /\ user'.stamp = user.version + 1 \/ user'.password = user.password
      /\ r.op \in {"reset", "change"} =>
            user'.stamp = user.version + 1 /\ user'.password = r.new
      /\ user'.stamp = user.stamp => Credentials \subseteq Credentials'
      /\ r.op = "link" => NoPassword \in Credentials'
  <2>1. r.op \in {"reset", "change"} => user'.password = r.new
    BY StoreEffect DEF Edited
  <2> QED  BY <2>1, StoreEffect
<1>2. /\ user.version \in Nat /\ user.stamp \in Nat /\ user.stamp <= user.version
      /\ user'.version \in Stamps /\ user'.stamp \in Stamps
  BY <1>1, RecoveryAssumption DEF RecoveryInv, TypeOK, User, Stamps
<1>3. user'.stamp >= user.stamp /\ user'.stamp <= user'.version
  BY <1>1, <1>2
<1>4. user'.stamp # user.stamp \/ user'.password = user.password
  BY <1>1, <1>2
<1>5. ASSUME NEW c \in Browsers, request[c] # NoRequest, request'[c] = request[c]
      PROVE  CopyOf(request[c])'
  <2>1. CopyOf(request[c])
    BY <1>5 DEF RecoveryInv, RequestInv
  <2>2. request[c].copy.version \in Nat /\ request[c].copy.stamp \in Nat
    BY <2>1, RecoveryAssumption DEF CopyOf, Request, User, Stamps
  <2>3. /\ request[c].copy.version < user'.version
        /\ request[c].copy.stamp <= user'.stamp
        /\ request[c].copy.stamp = user'.stamp => request[c].copy.password = user'.password
        /\ request[c].op \in {"signIn", "code"} /\ request[c].copy.stamp = user'.stamp =>
              request[c].given \in Credentials'
    BY <1>1, <1>2, <1>3, <1>4, <2>1, <2>2 DEF CopyOf
  <2> QED  BY <1>2, <1>5, <2>1, <2>2, <2>3 DEF CopyOf, Stamps
<1>6. request' = [request EXCEPT ![b] = Rest(r)]
  BY <1>1 DEF Store
<1>7. \A c \in Browsers : c # b => request'[c] = request[c]
  BY <1>6 DEF RecoveryInv, TypeOK
<1>8. request'[b] = NoRequest \/ (request'[b] \in Request /\ CopyOf(request[b])')
  <2>1. request'[b] = Rest(r)
    BY <1>6 DEF RecoveryInv, TypeOK
  <2>2. CASE r.op \notin {"change", "clear", "clearForCode", "link"}
    BY <2>1, <2>2 DEF Rest
  <2>3. CASE r.op \in {"change", "clear", "clearForCode", "link"}
    <3>1. /\ request'[b] \in Request
          /\ request'[b].op \in {"signIn", "code"} /\ request'[b].copy = user'
          /\ request'[b].given = IF r.op = "change" THEN r.new ELSE r.given
      BY <1>1, <2>1, <2>3 DEF Rest, CopyOf, Request, Ops
    <3>2. r.op = "link" => r.given \in Credentials'
      BY <1>1 DEF CopyOf
    <3>3. r.op \in {"clear", "clearForCode"} => r.given = user'.password
      <4>1. r.op \in {"clear", "clearForCode"} => user'.password = user.password
        BY <1>1, StoreEffect
      <4> QED  BY <1>1, <4>1 DEF CopyOf
    <3>4. user'.password \in Credentials'
      BY DEF Credentials
    <3>5. request'[b].given \in Credentials'
      BY <1>1, <2>3, <3>1, <3>2, <3>3, <3>4
    <3> QED  BY <1>2, <1>3, <3>1, <3>5, RecoveryAssumption DEF CopyOf, Stamps
  <2> QED  BY <2>2, <2>3
<1>9. RequestInv'
  BY <1>5, <1>7, <1>8 DEF RecoveryInv, RequestInv
<1>10. /\ uses' \in [Stamps -> Nat] /\ LinkInv'
  <2>1. CASE r.op # "reset"
    BY <1>2, <1>3, <2>1 DEF RecoveryInv, TypeOK, LinkInv, Store, Stamps
  <2>2. CASE r.op = "reset"
    <3>1. r.token = user.stamp
      BY <1>1, <2>2 DEF CopyOf
    <3>2. uses' = [uses EXCEPT ![user.stamp] = @ + 1]
      BY <2>2, <3>1 DEF Store
    <3>3. user.stamp \in Stamps /\ uses[user.stamp] = 0
      BY <1>2 DEF RecoveryInv, TypeOK, User, LinkInv
    <3>4. user'.stamp > user.stamp
      BY <1>1, <1>2, <2>2
    <3>5. \A t \in Stamps : uses'[t] = IF t = user.stamp THEN 1 ELSE uses[t]
      BY <3>2, <3>3 DEF RecoveryInv, TypeOK
    <3> QED  BY <1>2, <3>2, <3>3, <3>4, <3>5 DEF RecoveryInv, TypeOK, LinkInv, Stamps
  <2> QED  BY <2>1, <2>2
<1>11. UNCHANGED <<links, codes, pending, session>>
  BY DEF Store, mails, cookies
<1>12. SessionInv'
  <2> SUFFICES ASSUME NEW c \in Browsers, session[c].open
               PROVE  /\ session[c].stamp <= user'.stamp
                      /\ session[c].stamp = user'.stamp => session[c].given \in Credentials'
    BY <1>11 DEF SessionInv
  <2>1. session[c] \in Session
    BY DEF RecoveryInv, TypeOK, NoSession
  <2>2. session[c].stamp \in Nat
    <3>1. session[c].stamp \in Stamps
      BY <2>1 DEF Session
    <3> QED  BY <3>1, RecoveryAssumption DEF Stamps
  <2> QED  BY <1>1, <1>2, <1>3, <1>4, <2>2 DEF RecoveryInv, SessionInv
<1>13. CodeInv'
  <2> SUFFICES ASSUME NEW c \in codes
               PROVE  /\ c.stamp <= user'.stamp
                      /\ c.stamp = user'.stamp => c.typed = user'.password
    BY <1>11 DEF CodeInv
  <2>1. c.stamp \in Nat
    BY RecoveryAssumption DEF RecoveryInv, TypeOK, Code, Stamps
  <2> QED  BY <1>1, <1>2, <1>3, <1>4, <2>1 DEF RecoveryInv, CodeInv
<1>14. TypeOK'
  <2>1. links' \subseteq 0..user'.stamp
    BY <1>2, <1>3, <1>11, RecoveryAssumption DEF RecoveryInv, TypeOK, Stamps
  <2>2. request' \in [Browsers -> Request \cup {NoRequest}]
    BY <1>6, <1>7, <1>8 DEF RecoveryInv, TypeOK
  <2> QED  BY <1>1, <1>3, <1>10, <1>11, <2>1, <2>2 DEF RecoveryInv, TypeOK
<1> QED  BY <1>9, <1>10, <1>12, <1>13, <1>14 DEF RecoveryInv

(* A cookie carries the stamp of the row that the password agreed with.     *)
LEMMA CookieKeeps ==
    ASSUME RecoveryInv, NEW b \in Browsers, IssueCookie(b)
    PROVE  RecoveryInv'
<1> DEFINE r == request[b]
           s == [open |-> TRUE, stamp |-> r.copy.stamp, given |-> r.given]
<1>1. r # NoRequest
  BY DEF IssueCookie, NoRequest
<1>2. CopyOf(r)
  BY <1>1 DEF RecoveryInv, RequestInv
<1>3. s \in Session
  BY <1>2 DEF CopyOf, Request, User, Session
<1>4. /\ session' = [session EXCEPT ![b] = s]
      /\ request' = [request EXCEPT ![b] = NoRequest]
      /\ pending' \in [Browsers -> BOOLEAN]
      /\ UNCHANGED <<user, links, codes, uses>>
  BY DEF IssueCookie, EndRequest, mails, RecoveryInv, TypeOK
<1>5. TypeOK' /\ CodeInv' /\ LinkInv'
  BY <1>3, <1>4 DEF RecoveryInv, TypeOK, CodeInv, LinkInv
<1>6. /\ \A c \in Browsers : request'[c] = IF c = b THEN NoRequest ELSE request[c]
      /\ \A c \in Browsers : session'[c] = IF c = b THEN s ELSE session[c]
  BY <1>4 DEF RecoveryInv, TypeOK
<1>7. RequestInv'
  BY <1>4, <1>6 DEF RecoveryInv, RequestInv, CopyOf, Credentials
<1>8. SessionInv'
  <2>1. r.op \in {"signIn", "code"}
    BY DEF IssueCookie
  <2> QED  BY <1>2, <1>4, <1>6, <2>1 DEF RecoveryInv, SessionInv, CopyOf, Credentials
<1> QED  BY <1>5, <1>7, <1>8 DEF RecoveryInv

(* A code is made from a copy that the password agreed with. *)
LEMMA AskKeeps ==
    ASSUME RecoveryInv, NEW b \in Browsers, AskForCode(b)
    PROVE  RecoveryInv'
<1> DEFINE r == request[b]
           c == [stamp |-> r.copy.stamp, typed |-> r.given]
<1>1. r.op = "ask" /\ r # NoRequest
  BY DEF AskForCode, NoRequest
<1>2. CopyOf(r)
  BY <1>1 DEF RecoveryInv, RequestInv
<1>3. c \in Code
  BY <1>1, <1>2 DEF CopyOf, Request, User, Code
<1>4. /\ codes' = codes \cup {c}
      /\ pending' = [pending EXCEPT ![b] = TRUE]
      /\ request' = [request EXCEPT ![b] = NoRequest]
      /\ UNCHANGED <<user, links, session, uses>>
  BY DEF AskForCode, EndRequest
<1>5. TypeOK' /\ SessionInv' /\ LinkInv'
  BY <1>3, <1>4 DEF RecoveryInv, TypeOK, SessionInv, LinkInv, Credentials
<1>6. CodeInv'
  BY <1>1, <1>2, <1>4 DEF RecoveryInv, CodeInv, CopyOf
<1>7. \A d \in Browsers : request'[d] = IF d = b THEN NoRequest ELSE request[d]
  BY <1>4 DEF RecoveryInv, TypeOK
<1>8. RequestInv'
  BY <1>4, <1>7 DEF RecoveryInv, RequestInv, CopyOf, Credentials
<1> QED  BY <1>5, <1>6, <1>8 DEF RecoveryInv

(* The end of a lockout changes the row and the copies alike. *)
LEMMA LockoutEndsKeep ==
    ASSUME RecoveryInv, LockoutEnds
    PROVE  RecoveryInv'
<1>1. /\ user' = [user EXCEPT !.locked = FALSE]
      /\ UNCHANGED <<links, codes, pending, session, uses>>
  BY DEF LockoutEnds, mails, cookies
<1>2. user \in User
  BY DEF RecoveryInv, TypeOK
<1>3. /\ user' \in User
      /\ user'.password = user.password /\ user'.twoFactor = user.twoFactor
      /\ user'.linked = user.linked
      /\ user'.stamp = user.stamp /\ user'.version = user.version
      /\ Credentials' = Credentials
  BY <1>1, <1>2 DEF User, Credentials
<1>4. ASSUME NEW b \in Browsers, request[b] # NoRequest
      PROVE  request'[b] \in Request /\ CopyOf(request[b])'
  <2>1. request[b] \in Request /\ CopyOf(request[b])
    BY <1>4 DEF RecoveryInv, RequestInv, CopyOf
  <2>2. request'[b] = [request[b] EXCEPT !.copy.locked = FALSE]
    BY <1>4 DEF LockoutEnds
  <2>3. request[b].copy \in User
    BY <2>1 DEF Request
  <2>4. request'[b].copy = [request[b].copy EXCEPT !.locked = FALSE]
    BY <2>1, <2>2 DEF Request
  <2>5. /\ request'[b] \in Request
        /\ request'[b].op = request[b].op /\ request'[b].token = request[b].token
        /\ request'[b].given = request[b].given
    BY <2>1, <2>2, <2>3 DEF Request, User
  <2>6. /\ request'[b].copy.version = request[b].copy.version
        /\ request'[b].copy.stamp = request[b].copy.stamp
        /\ request'[b].copy.password = request[b].copy.password
    BY <2>3, <2>4 DEF User
  <2>7. request'[b].copy.version = user'.version => request'[b].copy = user'
    BY <1>1, <1>3, <2>1, <2>4, <2>6 DEF CopyOf
  <2> QED  BY <1>3, <2>1, <2>5, <2>6, <2>7 DEF CopyOf
<1>5. RequestInv' /\ request' \in [Browsers -> Request \cup {NoRequest}]
  <2>1. DOMAIN request' = Browsers /\ request' = [b \in Browsers |-> request'[b]]
    BY DEF LockoutEnds
  <2>2. \A b \in Browsers : request[b] = NoRequest => request'[b] = NoRequest
    BY DEF LockoutEnds
  <2> QED  BY <1>4, <2>1, <2>2 DEF RequestInv
<1> QED
  BY <1>1, <1>3, <1>5 DEF RecoveryInv, TypeOK, SessionInv, CodeInv, LinkInv

(* Ending requests, sessions and mails disturbs nothing. *)
LEMMA EndsKeep ==
    ASSUME RecoveryInv, UNCHANGED <<user, uses>>, links' \subseteq 0..user.stamp,
           codes' \subseteq codes,
           request' \in [Browsers -> Request \cup {NoRequest}],
           pending' \in [Browsers -> BOOLEAN],
           session' \in [Browsers -> Session \cup {NoSession}],
           \A b \in Browsers : request'[b] \in {request[b], NoRequest},
           \A b \in Browsers : session'[b] \in {session[b], NoSession}
    PROVE  RecoveryInv'
BY DEF RecoveryInv, TypeOK, RequestInv, SessionInv, CodeInv, LinkInv, CopyOf, Credentials,
       NoSession

LEMMA RecoveryNext == RecoveryInv /\ [Next]_vars => RecoveryInv'
<1> SUFFICES ASSUME RecoveryInv, [Next]_vars PROVE RecoveryInv'
  OBVIOUS
<1>1. /\ TypeOK /\ user.stamp \in Stamps /\ user.password \in Passwords /\ user.stamp \in Nat
      /\ user.password \in Credentials
  BY RecoveryAssumption DEF RecoveryInv, TypeOK, User, Stamps, Credentials
<1> USE DEF mails, cookies
<1>2. CASE ForgotPassword
  <2>1. links' \subseteq 0..user.stamp
    <3>1. user.stamp \in 0..user.stamp
      BY <1>1
    <3> QED  BY <1>1, <1>2, <3>1 DEF ForgotPassword, TypeOK
  <2> QED  BY <1>1, <1>2, <2>1, EndsKeep DEF ForgotPassword, TypeOK
<1>3. ASSUME NEW t \in Stamps, LinkExpires(t) PROVE RecoveryInv'
  BY <1>1, <1>3, EndsKeep DEF LinkExpires, TypeOK
<1>4. ASSUME NEW c \in codes, CodeExpires(c) PROVE RecoveryInv'
  BY <1>1, <1>4, EndsKeep DEF CodeExpires, TypeOK
<1>5. ASSUME NEW b \in Browsers, ResetPassword(b) PROVE RecoveryInv'
  BY <1>1, <1>5, LoadEffect DEF ResetPassword, Ops
<1>6. ASSUME NEW b \in Browsers, LoadToUpdate(b) \/ CountFailure(b) PROVE RecoveryInv'
  BY <1>1, <1>6, LoadEffect DEF LoadToUpdate, CountFailure, Ops
<1>7. ASSUME NEW b \in Browsers,
             ChangePassword(b) \/ ToggleTwoFactor(b) \/ UpdateProfile(b) \/ ConfirmEmail(b)
      PROVE  RecoveryInv'
  BY <1>1, <1>6, <1>7, LoadEffect
     DEF ChangePassword, ToggleTwoFactor, UpdateProfile, ConfirmEmail, Ops
<1>8. ASSUME NEW b \in Browsers, Login(b) PROVE RecoveryInv'
  <2>1. CASE CountFailure(b)
    BY <1>6, <2>1
  <2>2. ASSUME NEW op \in {"ask", "clear", "signIn"},
               Load(b, op, user.stamp, user.password, user.password)
        PROVE  RecoveryInv'
    BY <1>1, <2>2, LoadEffect DEF Ops
  <2> QED  BY <1>8, <2>1, <2>2 DEF Login
<1>9. ASSUME NEW b \in Browsers, LoginWith2fa(b) PROVE RecoveryInv'
  <2>1. CASE CountFailure(b)
    BY <1>6, <2>1
  <2>2. ASSUME NEW c \in codes, NEW op \in {"clearForCode", "code"}, CodeHolds(c),
               Load(b, op, user.stamp, c.typed, user.password)
        PROVE  RecoveryInv'
    <3>1. c.typed = user.password
      BY <2>2 DEF CodeHolds, RecoveryInv, CodeInv
    <3> QED  BY <1>1, <2>2, <3>1, LoadEffect DEF Ops
  <2> QED  BY <1>9, <2>1, <2>2 DEF LoginWith2fa
<1>10. ASSUME NEW b \in Browsers, EntraCallback(b) PROVE RecoveryInv'
  BY <1>1, <1>10, LoadEffect DEF EntraCallback, Ops, Credentials
<1>11. ASSUME NEW b \in Browsers, Store(b) PROVE RecoveryInv'
  BY <1>11, StoreKeeps
<1>12. ASSUME NEW b \in Browsers, Conflict(b) PROVE RecoveryInv'
  BY <1>1, <1>12, EndsKeep DEF Conflict, EndRequest, TypeOK
<1>13. ASSUME NEW b \in Browsers, AskForCode(b) \/ IssueCookie(b) PROVE RecoveryInv'
  BY <1>13, AskKeeps, CookieKeeps
<1>14. ASSUME NEW b \in Browsers, ValidateSession(b) \/ Logout(b) \/ PendingLapses(b)
       PROVE  RecoveryInv'
  BY <1>1, <1>14, EndsKeep DEF ValidateSession, Logout, PendingLapses, TypeOK
<1>15. CASE LockoutEnds
  BY <1>15, LockoutEndsKeep
<1>16. CASE Crash
  BY <1>1, <1>16, EndsKeep DEF Crash, TypeOK
<1>17. CASE UNCHANGED vars
  BY <1>1, <1>17, EndsKeep DEF vars, TypeOK
<1> QED
  BY <1>2, <1>3, <1>4, <1>5, <1>7, <1>8, <1>9, <1>10, <1>11, <1>12, <1>13, <1>14, <1>15,
     <1>16, <1>17 DEF Next

LEMMA RecoveryInvariant == Spec => []RecoveryInv
BY RecoveryInit, RecoveryNext, PTL DEF Spec

(* Only a store, and the end of a lockout, change the row. *)
LEMMA StoreOrNot ==
    ASSUME RecoveryInv, [Next]_vars
    PROVE  \/ \E b \in Browsers : Store(b)
           \/ user' = user
           \/ user'.password = user.password /\ user'.version = user.version
<1>1. CASE LockoutEnds
  BY <1>1 DEF LockoutEnds, RecoveryInv, TypeOK, User
<1> QED
  BY <1>1 DEF Next, vars, ForgotPassword, LinkExpires, CodeExpires, ResetPassword,
     ChangePassword, ToggleTwoFactor, LoadToUpdate, CountFailure, UpdateProfile, ConfirmEmail,
     Login, LoginWith2fa, EntraCallback, Load, Conflict, AskForCode, IssueCookie,
     ValidateSession, Logout, PendingLapses, Crash

-----------------------------------------------------------------------------
(* The row, the links, every request and every session are of their types,  *)
(* and no stamp is ahead of the row.                                        *)
THEOREM TypeCorrect == Spec => []TypeOK
<1>1. RecoveryInv => TypeOK
  BY DEF RecoveryInv
<1> QED  BY <1>1, RecoveryInvariant, PTL

(* A mailed link resets the password once at most.                          *)
THEOREM LinkWorksOnceHolds == Spec => []LinkWorksOnce
<1>1. RecoveryInv => LinkWorksOnce
  BY DEF RecoveryInv, LinkInv, LinkWorksOnce
<1> QED  BY <1>1, RecoveryInvariant, PTL

(* A session that passes validation rests on the password in force or on    *)
(* Entra.                                                                   *)
THEOREM SessionRestsOnPasswordHolds == Spec => []SessionRestsOnPassword
<1>1. RecoveryInv => SessionRestsOnPassword
  BY DEF RecoveryInv, SessionInv, SessionRestsOnPassword
<1> QED  BY <1>1, RecoveryInvariant, PTL

(* The password changes only on a proof that is good at that moment.        *)
THEOREM PasswordChangeProvenHolds == Spec => PasswordChangeProven
<1> DEFINE Proof == user'.password # user.password =>
             \E b \in Browsers :
                 \/ request[b].op = "reset" /\ request[b].token = user.stamp
                 \/ request[b].op = "change" /\ request[b].given = user.password
<1>1. RecoveryInv /\ [Next]_vars => [Proof]_vars
  <2> SUFFICES ASSUME RecoveryInv, [Next]_vars, user'.password # user.password
               PROVE  \E b \in Browsers :
                          \/ request[b].op = "reset" /\ request[b].token = user.stamp
                          \/ request[b].op = "change" /\ request[b].given = user.password
    OBVIOUS
  <2>1. PICK b \in Browsers : Store(b)
    BY StoreOrNot
  <2>2. request[b].copy = user /\ CopyOf(request[b]) /\ request[b].op \in {"reset", "change"}
    BY <2>1, StoreEffect
  <2> QED  BY <2>2 DEF CopyOf
<1> QED  BY <1>1, RecoveryInvariant, PTL DEF Spec, PasswordChangeProven

(* No request that stores the row ends a lockout. *)
THEOREM LockoutKeptHolds == Spec => LockoutKept
<1> DEFINE Kept == user.locked /\ ~user'.locked => user'.version = user.version
<1>1. RecoveryInv /\ [Next]_vars => [Kept]_vars
  <2> SUFFICES ASSUME RecoveryInv, [Next]_vars, user.locked, ~user'.locked
               PROVE  user'.version = user.version
    OBVIOUS
  <2>1. ASSUME NEW b \in Browsers, Store(b) PROVE FALSE
    BY <2>1, StoreEffect
  <2> QED  BY <2>1, StoreOrNot
<1> QED  BY <1>1, RecoveryInvariant, PTL DEF Spec, LockoutKept

=============================================================================
