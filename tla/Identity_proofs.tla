-------------------------- MODULE Identity_proofs --------------------------
(***************************************************************************)
(* Theorems about Identity: one account, any number of clients, scenarios, *)
(* recovery codes, sessions and tokens; from "Migrations" on, about the    *)
(* processes around the API, of which the worker mails those codes: any    *)
(* number of jobs, workers, lock holders and migration runs; and last      *)
(* about ReceiptForm, the pages of one user: any number of tabs, orders,   *)
(* warehouses and products.                                                *)
(***************************************************************************)
EXTENDS Identity, Platform, ReceiptForm, FiniteSetTheorems, NaturalsInduction, TLAPS

(* The inductive invariant, by the part of the state it is about. *)
UserPart ==
    /\ user \in UserDoc
    /\ accepted \in [RecoveryCodes -> {0, 1}]
    /\ \A r \in user.recoveryCodes : accepted[r] = 0

SessionsPart ==
    /\ sessions \in Seq(AuthSession) /\ touches \subseteq (DOMAIN sessions) \X (Nat \cup {None})
    /\ \A i \in DOMAIN sessions :
          sessions[i].absoluteExpiresAt = sessions[i].createdAt + SessionAbsolute

TokensPart ==
    /\ tokens \in Seq(ResetToken)
    /\ \A i \in DOMAIN tokens : tokens[i].attempts > MaxAttempts => tokens[i].used

CallsPart == DOMAIN client = Clients /\ \A c \in Clients : CallInv(client[c])

RestPart == challenges \subseteq 1..MaxChallenges /\ now \in Nat

LEMMA Parts == IInv <=> UserPart /\ SessionsPart /\ TokensPart /\ CallsPart /\ RestPart
<1>1. 1..MaxChallenges \subseteq Nat
  BY IdentityAssumption
<1>2. CallsPart => \A c \in Clients : "op" \in DOMAIN client[c]
  BY DEF CallsPart, CallInv
<1>. QED
  BY <1>1, <1>2 DEF IInv, TypeOK, UserPart, SessionsPart, TokensPart, CallsPart, RestPart

LEMMA Numbers ==
  /\ FailureThreshold \in Nat \ {0} /\ Lockout \in Nat \ {0} /\ SessionIdle \in Nat \ {0}
  /\ SessionAbsolute \in Nat \ {0} /\ TokenLife \in Nat \ {0} /\ MaxAttempts \in Nat \ {0}
  /\ MaxChallenges \in Nat /\ None \notin Nat
BY IdentityAssumption

-----------------------------------------------------------------------------
(* The user document *)

(* A save by the paths the service changed keeps the codes and the version. *)
LEMMA SavedPaths ==
  ASSUME UserPart, NEW copy, NEW changed,
         DOMAIN changed \subseteq {"status", "failedLoginCount", "lockedUntil"},
         "status" \in DOMAIN changed => changed["status"] \in Status,
         "failedLoginCount" \in DOMAIN changed => changed["failedLoginCount"] \in Nat,
         "lockedUntil" \in DOMAIN changed => changed["lockedUntil"] \in Nat \cup {None}
  PROVE  /\ Written(copy, changed) \in UserDoc
         /\ Written(copy, changed).recoveryCodes = user.recoveryCodes
         /\ Written(copy, changed).rev = user.rev
         /\ Written(copy, changed).status \in {user.status}
               \cup {s \in {changed["status"]} : "status" \in DOMAIN changed
                                                   /\ changed["status"] # copy["status"]}
BY DEF UserPart, UserDoc, Written

LEMMA UserSteps ==
  ASSUME [Next /\ UNCHANGED scenario]_vars
  PROVE  \/ UNCHANGED <<user, accepted>>
         \/ \E c \in Clients : \/ SaveFailedLogin(c) \/ SaveLogin(c) \/ SpendRecoveryCode(c)
                               \/ SaveReset(c) \/ SaveTransition(c) \/ SaveUpdateUser(c)
<1>1. CASE UNCHANGED vars
  BY <1>1 DEF vars
<1>2. ASSUME NEW c \in Clients, Login(c)
      PROVE  UNCHANGED <<user, accepted>> \/ SaveFailedLogin(c) \/ SaveLogin(c)
  BY <1>2 DEF Login, ReadLogin
<1>3. ASSUME NEW c \in Clients, VerifyMfa(c)
      PROVE  UNCHANGED <<user, accepted>> \/ SpendRecoveryCode(c)
  <2>1. ASSUME NEW code, ConsumeMfaChallenge(c, code)
        PROVE  UNCHANGED <<user, accepted>>
    BY <2>1, Zenon DEF ConsumeMfaChallenge
  <2>. QED
    BY <1>3, <2>1 DEF VerifyMfa, CreateMfaChallenge, GetMfaChallenge
<1>4. ASSUME NEW c \in Clients, ResetPassword(c)
      PROVE  UNCHANGED <<user, accepted>> \/ SaveReset(c)
  <2>1. SaveResetCode(c) => UNCHANGED <<user, accepted>>
    BY Zenon DEF SaveResetCode
  <2>. QED
    BY <1>4, <2>1 DEF ResetPassword, GrantToken, MarkTokenUsed, FindResetToken, ReadReset,
       ReadResetCode
<1>5. ASSUME NEW c \in Clients, Administer(c)
      PROVE  UNCHANGED <<user, accepted>> \/ SaveTransition(c) \/ SaveUpdateUser(c)
  BY <1>5 DEF Administer, ReadTransition, ReadUpdateUser
<1>6. ASSUME NEW c \in Clients,
             \/ EstablishSession(c) \/ RevokeSessions(c) \/ Crash(c)
             \/ \E i \in DOMAIN sessions : ChangePassword(c, i)
      PROVE  UNCHANGED <<user, accepted>>
  BY <1>6 DEF EstablishSession, RevokeSessions, Crash, ChangePassword
<1>7. ASSUME \/ \E i \in DOMAIN sessions :
                  \/ ReadSession(i) \/ RequireAuth(i) \/ TouchSession(i)
                  \/ EndSession(i) \/ LogoutAll(i)
             \/ ForgotPassword \/ ExpireMfaChallenge \/ Tick
      PROVE  UNCHANGED <<user, accepted>>
  BY <1>7, Zenon
     DEF ReadSession, RequireAuth, TouchSession, EndSession, LogoutAll, ForgotPassword,
         ExpireMfaChallenge, Tick
<1>. QED
  BY <1>1, <1>2, <1>3, <1>4, <1>5, <1>6, <1>7 DEF Next

(* The codes change with the version only, which never goes back. *)
CodesMove ==
    /\ user'.rev >= user.rev
    /\ user'.rev = user.rev => user'.recoveryCodes = user.recoveryCodes

(* Who was out is in again only by a call that lets in. *)
StaysOut ==
    user.status \in {"locked", "inactive", "archived"} /\ user'.status = "active"
        => \E c \in Clients : LetIn(c)

LEMMA UserKept ==
  ASSUME IInv, [Next /\ UNCHANGED scenario]_vars
  PROVE  UserPart' /\ CodesMove /\ StaysOut
<1>1. UserPart /\ user \in UserDoc /\ user.rev \in Nat /\ user.recoveryCodes \subseteq RecoveryCodes
      /\ now \in Nat
  BY Parts DEF UserPart, UserDoc, RestPart
<1>2. CASE UNCHANGED <<user, accepted>>
  BY <1>1, <1>2 DEF UserPart, CodesMove, StaysOut
<1>3. ASSUME NEW c \in Clients, NEW next \in UserDoc, user' = next, accepted' = accepted,
             next.recoveryCodes = user.recoveryCodes, next.rev \in {user.rev, user.rev + 1},
             next.status = "active" => next.status = user.status \/ LetIn(c)
      PROVE  UserPart' /\ CodesMove /\ StaysOut
  BY <1>1, <1>3 DEF UserPart, CodesMove, StaysOut
<1>4. ASSUME NEW c \in Clients, SaveFailedLogin(c)
      PROVE  UserPart' /\ CodesMove /\ StaysOut
  <2> DEFINE count == client[c].copy.failedLoginCount + 1
  <2>1. count \in Nat /\ accepted' = accepted
    BY <1>4 DEF IInv, CallInv, SaveFailedLogin
  <2>2. PICK until \in Nat : until = now + Lockout
    BY <1>1, Numbers
  <2>3. PICK n \in Nat : n = count
    BY <2>1
  <2>4. PICK copy : copy = client[c].copy
    OBVIOUS
  <2>5. CASE user' = [Written(copy, [failedLoginCount |-> n, status |-> "locked"])
                         EXCEPT !.lockedUntil = until]
    <3>1. PICK w \in UserDoc : /\ w = Written(copy, [failedLoginCount |-> n, status |-> "locked"])
                               /\ w.recoveryCodes = user.recoveryCodes /\ w.rev = user.rev
                               /\ w.status \in {user.status, "locked"}
      BY <1>1, SavedPaths DEF Status
    <3> DEFINE next == [w EXCEPT !.lockedUntil = until]
    <3>2. /\ next \in UserDoc /\ next.recoveryCodes = user.recoveryCodes /\ next.rev = user.rev
          /\ next.status \in {user.status, "locked"} /\ user' = next
      BY <2>5, <3>1 DEF UserDoc
    <3>. HIDE DEF next
    <3>. QED
      BY <1>3, <2>1, <3>2
  <2>6. CASE user' = Written(copy, [failedLoginCount |-> n])
    <3>1. PICK w \in UserDoc : /\ w = Written(copy, [failedLoginCount |-> n])
                               /\ w.recoveryCodes = user.recoveryCodes /\ w.rev = user.rev
                               /\ w.status = user.status
      BY <1>1, SavedPaths
    <3>. QED
      BY <1>3, <2>1, <2>6, <3>1
  <2>. QED
    BY <1>4, <2>2, <2>3, <2>4, <2>5, <2>6 DEF SaveFailedLogin
<1>5. ASSUME NEW c \in Clients, SaveLogin(c)
      PROVE  UserPart' /\ CodesMove /\ StaysOut
  <2>1. PICK copy : copy = client[c].copy
    OBVIOUS
  <2>2. /\ copy.status \in {"invited", "active"} /\ accepted' = accepted
        /\ copy.status = "invited" => LetIn(c)
    BY <1>5, <2>1 DEF IInv, CallInv, SaveLogin, LetIn
  <2>3. PICK w \in UserDoc :
           /\ w = Written(copy, [status |-> "active", failedLoginCount |-> 0, lockedUntil |-> None])
           /\ w.recoveryCodes = user.recoveryCodes /\ w.rev = user.rev
           /\ w.status = user.status \/ copy.status # "active"
    BY <1>1, SavedPaths DEF Status
  <2>4. user' = w
    BY <1>5, <2>1, <2>3 DEF SaveLogin
  <2>. QED
    BY <1>3, <2>2, <2>3, <2>4
<1>6. ASSUME NEW c \in Clients, SaveReset(c)
      PROVE  UserPart' /\ CodesMove /\ StaysOut
  <2>1. PICK copy, status : /\ copy = client[c].copy
                            /\ status = IF copy.status = "invited" THEN "active" ELSE copy.status
    OBVIOUS
  <2>2. /\ copy.status \in Status /\ status \in Status /\ accepted' = accepted
        /\ copy.status = "invited" => LetIn(c)
        /\ status = copy.status \/ copy.status = "invited"
    BY <1>6, <2>1 DEF IInv, CallInv, SaveReset, LetIn, Status
  <2>3. PICK w \in UserDoc :
           /\ w = Written(copy, [failedLoginCount |-> 0, lockedUntil |-> None, status |-> status])
           /\ w.recoveryCodes = user.recoveryCodes /\ w.rev = user.rev
           /\ w.status = user.status \/ copy.status # status
    BY <1>1, <2>2, SavedPaths
  <2>4. user' = w
    BY <1>6, <2>1, <2>3 DEF SaveReset
  <2>. QED
    BY <1>3, <2>2, <2>3, <2>4
<1>7. ASSUME NEW c \in Clients, SaveTransition(c)
      PROVE  UserPart' /\ CodesMove /\ StaysOut
  <2>1. client[c].to \in Status
    BY <1>7 DEF IInv, CallInv, SaveTransition
  <2>2. PICK copy : copy = client[c].copy
    OBVIOUS
  <2>3. PICK to \in Status : to = client[c].to
    BY <2>1
  <2>4. accepted' = accepted /\ (to = "active" => LetIn(c))
    BY <1>7, <2>3 DEF SaveTransition, LetIn
  <2>5. PICK w \in UserDoc :
           /\ w = Written(copy, [status |-> to])
           /\ w.recoveryCodes = user.recoveryCodes /\ w.rev = user.rev
           /\ w.status \in {user.status, to}
    BY <1>1, <2>3, SavedPaths
  <2>6. user' = w
    BY <1>7, <2>3, <2>2, <2>5 DEF SaveTransition
  <2>. QED
    BY <1>3, <2>4, <2>5, <2>6
<1>8. ASSUME NEW c \in Clients, SaveUpdateUser(c)
      PROVE  UserPart' /\ CodesMove /\ StaysOut
  <2>1. CASE UNCHANGED user
    BY <1>2, <1>8, <2>1 DEF SaveUpdateUser
  <2>2. CASE user' = [user EXCEPT !.rev = @ + 1]
    <3>1. PICK n \in Nat : n = user.rev + 1
      BY <1>1
    <3> DEFINE next == [user EXCEPT !.rev = n]
    <3>2. /\ next \in UserDoc /\ next.recoveryCodes = user.recoveryCodes
          /\ next.rev = n /\ next.status = user.status /\ user' = next
      BY <1>1, <2>2, <3>1 DEF UserDoc
    <3>. HIDE DEF next
    <3>. QED
      BY <1>3, <1>8, <3>1, <3>2 DEF SaveUpdateUser
  <2>. QED
    BY <1>8, <2>1, <2>2 DEF SaveUpdateUser
<1>9. ASSUME NEW c \in Clients, SpendRecoveryCode(c)
      PROVE  UserPart' /\ CodesMove /\ StaysOut
  <2>1. CASE UNCHANGED <<user, accepted>>
    BY <1>2, <2>1
  <2>2. CASE /\ client[c].copy.rev = user.rev
             /\ user' = [user EXCEPT !.recoveryCodes = client[c].copy.recoveryCodes
                                                         \ {client[c].code},
                                     !.rev = @ + 1]
             /\ accepted' = [accepted EXCEPT ![client[c].code] = @ + 1]
    <3>1. PICK code, codes : code = client[c].code /\ codes = user.recoveryCodes \ {code}
      OBVIOUS
    <3>2. /\ code \in user.recoveryCodes /\ codes \subseteq RecoveryCodes
          /\ client[c].copy.recoveryCodes \ {client[c].code} = codes
      BY <1>1, <1>9, <2>2, <3>1 DEF IInv, CallInv, SpendRecoveryCode, CodesRead
    <3>3. PICK n \in Nat : n = user.rev + 1
      BY <1>1
    <3>4. /\ user' \in UserDoc /\ user'.recoveryCodes = codes /\ user'.rev = n
          /\ user'.status = user.status
      <4>1. user' = [user EXCEPT !.recoveryCodes = codes, !.rev = n]
        BY <2>2, <3>2, <3>3
      <4>. QED
        BY <1>1, <3>2, <4>1 DEF UserDoc
    <3>5. /\ accepted' \in [RecoveryCodes -> {0, 1}]
          /\ \A r \in codes : accepted'[r] = 0
      BY <1>1, <2>2, <3>1, <3>2 DEF UserPart
    <3>. QED
      BY <1>1, <3>3, <3>4, <3>5 DEF UserPart, CodesMove, StaysOut
  <2>. QED
    BY <1>9, <2>1, <2>2 DEF SpendRecoveryCode
<1>. QED
  BY <1>2, <1>4, <1>5, <1>6, <1>7, <1>8, <1>9, UserSteps

-----------------------------------------------------------------------------
(* The sessions *)

(* A touch that is under way sets that deadline. *)
TouchedTo(i, deadline) == \E t \in Nat : <<i, t>> \in touches /\ deadline = t + SessionIdle

(* A session keeps its age, and stays revoked; its idle deadline is moved  *)
(* by a touch only, and only an open session, or one whose request is being*)
(* checked, is touched.                                                    *)
SessionsMove ==
    /\ \A i \in DOMAIN sessions :
        /\ i \in DOMAIN sessions' /\ sessions'[i].createdAt = sessions[i].createdAt
        /\ sessions[i].revoked => sessions'[i].revoked
        /\ sessions'[i].expiresAt # sessions[i].expiresAt => TouchedTo(i, sessions'[i].expiresAt)
    /\ \A q \in touches' \ touches : Open(q[1]) \/ <<q[1], None>> \in touches

(* A step that keeps the number of sessions, and of each its age. *)
LEMMA SessionsRewritten ==
  ASSUME SessionsPart, NEW f \in [DOMAIN sessions -> AuthSession], sessions' = f,
         touches' \subseteq touches,
         \A i \in DOMAIN sessions : /\ f[i].createdAt = sessions[i].createdAt
                                    /\ f[i].absoluteExpiresAt = sessions[i].absoluteExpiresAt
                                    /\ sessions[i].revoked => f[i].revoked
                                    /\ f[i].expiresAt # sessions[i].expiresAt
                                            => TouchedTo(i, f[i].expiresAt)
  PROVE  SessionsPart' /\ SessionsMove
<1>1. f \in Seq(AuthSession) /\ DOMAIN f = DOMAIN sessions
  BY DEF SessionsPart
<1>. QED
  BY <1>1 DEF SessionsPart, SessionsMove

LEMMA AllRevoked ==
  ASSUME SessionsPart, RevokeAll, touches' = touches
  PROVE  SessionsPart' /\ SessionsMove
<1> DEFINE f == [i \in DOMAIN sessions |-> [sessions[i] EXCEPT !.revoked = TRUE]]
<1>1. ASSUME NEW i \in DOMAIN sessions
      PROVE  /\ f[i] \in AuthSession /\ f[i].createdAt = sessions[i].createdAt
             /\ f[i].absoluteExpiresAt = sessions[i].absoluteExpiresAt /\ f[i].revoked
             /\ f[i].expiresAt = sessions[i].expiresAt
  <2>1. PICK s \in AuthSession : s = sessions[i]
    BY <1>1 DEF SessionsPart
  <2>2. f[i] = [s EXCEPT !.revoked = TRUE]
    BY <1>1, <2>1
  <2>. QED
    BY <2>1, <2>2 DEF AuthSession
<1>2. f \in [DOMAIN sessions -> AuthSession] /\ sessions' = f
  BY <1>1 DEF RevokeAll
<1>. HIDE DEF f
<1>. QED
  BY <1>1, <1>2, SessionsRewritten

(* One session is touched, or ended. *)
LEMMA OneSession ==
  ASSUME SessionsPart, NEW i \in DOMAIN sessions, NEW s \in AuthSession,
         sessions' = [sessions EXCEPT ![i] = s], touches' \subseteq touches,
         s.createdAt = sessions[i].createdAt,
         s.absoluteExpiresAt = sessions[i].absoluteExpiresAt,
         sessions[i].revoked => s.revoked,
         s.expiresAt # sessions[i].expiresAt => TouchedTo(i, s.expiresAt)
  PROVE  SessionsPart' /\ SessionsMove
<1> DEFINE f == [sessions EXCEPT ![i] = s]
<1>1. f \in [DOMAIN sessions -> AuthSession]
  BY DEF SessionsPart
<1>2. \A j \in DOMAIN sessions : f[j] = IF j = i THEN s ELSE sessions[j]
  OBVIOUS
<1>3. sessions' = f
  OBVIOUS
<1>. HIDE DEF f
<1>. QED
  BY <1>1, <1>2, <1>3, SessionsRewritten

LEMMA SessionsKept ==
  ASSUME IInv, [Next /\ UNCHANGED scenario]_vars
  PROVE  SessionsPart' /\ SessionsMove
<1>1. SessionsPart /\ now \in Nat
  BY Parts DEF RestPart
<1>2. CASE /\ UNCHANGED sessions /\ touches' \subseteq (DOMAIN sessions) \X (Nat \cup {None})
           /\ \A q \in touches' \ touches : Open(q[1]) \/ <<q[1], None>> \in touches
  BY <1>1, <1>2 DEF SessionsPart, SessionsMove
<1>3. ASSUME NEW c \in Clients, Login(c) \/ VerifyMfa(c) \/ ResetPassword(c) \/ Administer(c)
      PROVE  SessionsPart' /\ SessionsMove
  <2>1. ASSUME NEW code, ConsumeMfaChallenge(c, code)
        PROVE  UNCHANGED <<sessions, touches>>
    BY <2>1, Zenon DEF ConsumeMfaChallenge
  <2>2. SaveResetCode(c) \/ SaveFailedLogin(c) => UNCHANGED <<sessions, touches>>
    BY Zenon DEF SaveResetCode, SaveFailedLogin
  <2>3. Login(c) \/ VerifyMfa(c) => UNCHANGED <<sessions, touches>>
    BY <2>1, <2>2
       DEF Login, VerifyMfa, CreateMfaChallenge, GetMfaChallenge, SpendRecoveryCode, ReadLogin,
           SaveLogin
  <2>4. ResetPassword(c) \/ Administer(c) => UNCHANGED <<sessions, touches>>
    BY <2>2
       DEF ResetPassword, Administer, GrantToken, MarkTokenUsed, FindResetToken, ReadReset,
           ReadResetCode, SaveReset, ReadTransition, SaveTransition, ReadUpdateUser, SaveUpdateUser
  <2>. QED
    BY <1>1, <1>2, <1>3, <2>3, <2>4 DEF SessionsPart
<1>4. ASSUME NEW c \in Clients, EstablishSession(c)
      PROVE  SessionsPart' /\ SessionsMove
  <2> DEFINE s == [createdAt |-> now, expiresAt |-> now + SessionIdle,
                   absoluteExpiresAt |-> now + SessionAbsolute, revoked |-> FALSE]
  <2>1. s \in AuthSession /\ s.absoluteExpiresAt = s.createdAt + SessionAbsolute
    BY <1>1, Numbers DEF AuthSession
  <2>2. sessions' = Append(sessions, s) /\ touches' = touches
    BY <1>4 DEF EstablishSession
  <2>3. PICK t \in AuthSession : t = s
    BY <2>1
  <2>4. sessions' = Append(sessions, t) /\ t.absoluteExpiresAt = t.createdAt + SessionAbsolute
    BY <2>1, <2>2, <2>3
  <2>. HIDE DEF s
  <2>. QED
    BY <1>1, <2>2, <2>4 DEF SessionsPart, SessionsMove
<1>5. ASSUME NEW c \in Clients, RevokeSessions(c)
      PROVE  SessionsPart' /\ SessionsMove
  BY <1>1, <1>5, AllRevoked DEF RevokeSessions
<1>6. ASSUME NEW c \in Clients, Crash(c) \/ \E i \in DOMAIN sessions : ChangePassword(c, i)
      PROVE  SessionsPart' /\ SessionsMove
  BY <1>1, <1>2, <1>6 DEF Crash, ChangePassword, SessionsPart
<1>7. ASSUME NEW i \in DOMAIN sessions, ReadSession(i) \/ RequireAuth(i)
      PROVE  SessionsPart' /\ SessionsMove
  <2>1. CASE ReadSession(i)
    BY <1>1, <1>2, <2>1 DEF ReadSession, SessionsPart
  <2>2. CASE RequireAuth(i)
    <3>1. /\ UNCHANGED sessions /\ <<i, None>> \in touches
          /\ touches' \subseteq touches \cup {<<i, now>>}
      BY <2>2 DEF RequireAuth, Leaving
    <3>. QED
      BY <1>1, <1>2, <3>1 DEF SessionsPart
  <2>. QED
    BY <1>7, <2>1, <2>2
<1>8. ASSUME NEW i \in DOMAIN sessions, TouchSession(i)
      PROVE  SessionsPart' /\ SessionsMove
  <2>1. PICK o \in AuthSession : o = sessions[i]
    BY <1>1 DEF SessionsPart
  <2>2. PICK t \in 0..now : /\ <<i, t>> \in touches /\ touches' \in Leaving(<<i, t>>)
                            /\ sessions' = [sessions EXCEPT ![i].expiresAt = t + SessionIdle]
    BY <1>8 DEF TouchSession
  <2>3. PICK until \in Nat : until = t + SessionIdle
    BY <1>1, Numbers
  <2> DEFINE s == [o EXCEPT !.expiresAt = until]
  <2>4. /\ s \in AuthSession /\ s.createdAt = o.createdAt /\ s.revoked = o.revoked
        /\ s.absoluteExpiresAt = o.absoluteExpiresAt /\ s.expiresAt = until
    BY <2>1 DEF AuthSession
  <2>5. sessions' = [sessions EXCEPT ![i] = s] /\ touches' \subseteq touches
    BY <2>1, <2>2, <2>3 DEF Leaving
  <2>6. TouchedTo(i, until)
    BY <1>1, <2>2, <2>3 DEF TouchedTo
  <2>. HIDE DEF s
  <2>. QED
    BY <1>1, <2>1, <2>4, <2>5, <2>6, OneSession
<1>9. ASSUME NEW i \in DOMAIN sessions, EndSession(i)
      PROVE  SessionsPart' /\ SessionsMove
  <2>1. PICK o \in AuthSession : o = sessions[i]
    BY <1>1 DEF SessionsPart
  <2> DEFINE s == [o EXCEPT !.revoked = TRUE]
  <2>2. /\ s \in AuthSession /\ s.createdAt = o.createdAt /\ s.revoked
        /\ s.absoluteExpiresAt = o.absoluteExpiresAt /\ s.expiresAt = o.expiresAt
    BY <2>1 DEF AuthSession
  <2>3. sessions' = [sessions EXCEPT ![i] = s] /\ touches' = touches
    BY <1>9, <2>1 DEF EndSession
  <2>. HIDE DEF s
  <2>. QED
    BY <1>1, <2>1, <2>2, <2>3, OneSession
<1>10. ASSUME NEW i \in DOMAIN sessions, LogoutAll(i)
       PROVE  SessionsPart' /\ SessionsMove
  BY <1>1, <1>10, AllRevoked DEF LogoutAll
<1>11. ASSUME ForgotPassword \/ ExpireMfaChallenge \/ Tick \/ UNCHANGED vars
       PROVE  SessionsPart' /\ SessionsMove
  BY <1>1, <1>2, <1>11 DEF ForgotPassword, ExpireMfaChallenge, Tick, vars, SessionsPart
<1>. QED
  BY <1>3, <1>4, <1>5, <1>6, <1>7, <1>8, <1>9, <1>10, <1>11 DEF Next

-----------------------------------------------------------------------------
(* The tokens *)

(* A token that was used stays used. *)
TokensMove ==
    \A i \in DOMAIN tokens :
        i \in DOMAIN tokens' /\ (tokens[i].used => tokens'[i].used)

LEMMA TokenAdded ==
  ASSUME TokensPart, now \in Nat, NEW kind \in {"code", "token"}, AddToken(kind)
  PROVE  TokensPart' /\ TokensMove
<1>1. PICK t \in ResetToken : t = NewToken(kind) /\ ~(t.attempts > MaxAttempts)
  <2>1. NewToken(kind) \in ResetToken /\ ~(NewToken(kind).attempts > MaxAttempts)
    BY Numbers DEF NewToken, ResetToken
  <2>. QED
    BY <2>1
<1>2. tokens' = Append(tokens, t)
  BY <1>1 DEF AddToken
<1>. QED
  BY <1>1, <1>2 DEF TokensPart, TokensMove

LEMMA OneToken ==
  ASSUME TokensPart, NEW i \in DOMAIN tokens, NEW t \in ResetToken,
         tokens' = [tokens EXCEPT ![i] = t],
         t.attempts > MaxAttempts => t.used, tokens[i].used => t.used
  PROVE  TokensPart' /\ TokensMove
BY DEF TokensPart, TokensMove

LEMMA TokensKept ==
  ASSUME IInv, [Next /\ UNCHANGED scenario]_vars
  PROVE  TokensPart' /\ TokensMove
<1>1. TokensPart /\ now \in Nat
  BY Parts DEF RestPart
<1>2. CASE UNCHANGED tokens
  BY <1>1, <1>2 DEF TokensPart, TokensMove
<1>3. ASSUME NEW c \in Clients, Login(c) \/ VerifyMfa(c) \/ Administer(c)
      PROVE  UNCHANGED tokens
  <2>1. ASSUME NEW code, ConsumeMfaChallenge(c, code)
        PROVE  UNCHANGED tokens
    BY <2>1, Zenon DEF ConsumeMfaChallenge
  <2>2. SaveFailedLogin(c) => UNCHANGED tokens
    BY Zenon DEF SaveFailedLogin
  <2>. QED
    BY <1>3, <2>1, <2>2
       DEF Login, VerifyMfa, CreateMfaChallenge, GetMfaChallenge, SpendRecoveryCode, ReadLogin,
           SaveLogin, Administer, ReadTransition, SaveTransition, ReadUpdateUser, SaveUpdateUser
<1>4. ASSUME NEW c \in Clients, SaveResetCode(c)
      PROVE  TokensPart' /\ TokensMove
  <2>1. client[c].token \in DOMAIN tokens /\ client[c].attempts \in 0..(MaxAttempts + 1)
    BY <1>4 DEF IInv, CallInv, SaveResetCode
  <2>2. PICK i \in DOMAIN tokens : i = client[c].token
    BY <2>1
  <2>3. PICK n \in 0..(MaxAttempts + 1) : n = client[c].attempts
    BY <2>1
  <2>4. PICK o \in ResetToken : o = tokens[i]
    BY <1>1 DEF TokensPart
  <2>5. PICK used \in BOOLEAN :
           used <=> \/ tokens[i].used \/ client[c].attempts > MaxAttempts
                    \/ client[c].right /\ ~(client[c].attempts > MaxAttempts)
    OBVIOUS
  <2>6. /\ tokens' = [tokens EXCEPT ![i].attempts = n, ![i].used = used]
        /\ n > MaxAttempts => used
        /\ o.used => used
    BY <1>4, <2>2, <2>3, <2>4, <2>5 DEF SaveResetCode
  <2> DEFINE s == [o EXCEPT !.attempts = n]
             t == [s EXCEPT !.used = used]
  <2>7. t \in ResetToken /\ t.attempts = n /\ t.used = used
    BY <2>4 DEF ResetToken
  <2>8. tokens' = [tokens EXCEPT ![i] = t]
    BY <1>1, <2>4, <2>6 DEF TokensPart
  <2>. HIDE DEF t
  <2>. QED
    BY <1>1, <2>4, <2>6, <2>7, <2>8, OneToken
<1>5. ASSUME NEW c \in Clients, MarkTokenUsed(c)
      PROVE  TokensPart' /\ TokensMove
  <2>1. client[c].token \in DOMAIN tokens
    BY <1>5 DEF IInv, CallInv, MarkTokenUsed
  <2>2. PICK i \in DOMAIN tokens : i = client[c].token
    BY <2>1
  <2>3. PICK o \in ResetToken : o = tokens[i]
    BY <1>1 DEF TokensPart
  <2> DEFINE t == [o EXCEPT !.used = TRUE]
  <2>4. t \in ResetToken /\ t.used
    BY <2>3 DEF ResetToken
  <2>5. tokens' = [tokens EXCEPT ![i] = t]
    BY <1>5, <2>2, <2>3 DEF MarkTokenUsed
  <2>. HIDE DEF t
  <2>. QED
    BY <1>1, <2>4, <2>5, OneToken
<1>6. ASSUME NEW c \in Clients, GrantToken(c)
      PROVE  TokensPart' /\ TokensMove
  BY <1>1, <1>6, TokenAdded DEF GrantToken
<1>7. ASSUME NEW c \in Clients,
             \/ ReadReset(c) \/ SaveReset(c)
             \/ \E i \in DOMAIN tokens :
                  FindResetToken(c, i) \/ \E right \in BOOLEAN : ReadResetCode(c, i, right)
      PROVE  UNCHANGED tokens
  BY <1>7 DEF SaveReset, FindResetToken, ReadReset, ReadResetCode
<1>8. ASSUME NEW c \in Clients,
             \/ EstablishSession(c) \/ RevokeSessions(c) \/ Crash(c)
             \/ \E i \in DOMAIN sessions : ChangePassword(c, i)
      PROVE  UNCHANGED tokens
  BY <1>8 DEF EstablishSession, RevokeSessions, Crash, ChangePassword
<1>9. ASSUME \/ \E i \in DOMAIN sessions :
                  \/ ReadSession(i) \/ RequireAuth(i) \/ TouchSession(i)
                  \/ EndSession(i) \/ LogoutAll(i)
             \/ ExpireMfaChallenge \/ Tick \/ UNCHANGED vars
      PROVE  UNCHANGED tokens
  BY <1>9, Zenon
     DEF ReadSession, RequireAuth, TouchSession, EndSession, LogoutAll, ExpireMfaChallenge, Tick,
         vars
<1>10. ASSUME ForgotPassword
       PROVE  TokensPart' /\ TokensMove
  BY <1>1, <1>10, TokenAdded DEF ForgotPassword
<1>. QED
  BY <1>2, <1>3, <1>4, <1>5, <1>6, <1>7, <1>8, <1>9, <1>10 DEF Next, ResetPassword

-----------------------------------------------------------------------------
(* What the calls know *)

(* What a call knows stays true while other calls save. *)
LEMMA StillKnown ==
  ASSUME UserPart, UserPart', CodesMove, TokensMove, NEW known, CallInv(known)
  PROVE  CallInv(known)'
<1>1. user.rev \in Nat /\ user'.rev \in Nat
  BY DEF UserPart, UserDoc
<1>2. ASSUME NEW copy, CodesRead(copy)
      PROVE  CodesRead(copy)'
  BY <1>1, <1>2 DEF CodesRead, CodesMove
<1>. QED
  BY <1>2 DEF CallInv, TokensMove

LEMMA CallStep ==
  ASSUME CallsPart, UserPart, UserPart', CodesMove, TokensMove,
         NEW c \in Clients, NEW step, client' = [client EXCEPT ![c] = step], CallInv(step)
  PROVE  CallsPart'
<1>1. ASSUME NEW d \in Clients
      PROVE  CallInv(client[d])'
  <2>1. PICK known : known = client'[d]
    OBVIOUS
  <2>2. CallInv(known)
    <3>1. CASE d = c
      BY <2>1, <3>1 DEF CallsPart
    <3>2. CASE d # c
      <4>1. PICK old : old = client[d]
        OBVIOUS
      <4>2. old = known
        BY <2>1, <3>2, <4>1 DEF CallsPart
      <4>3. CallInv(old)
        BY <4>1 DEF CallsPart
      <4>. QED
        BY <4>2, <4>3
    <3>. QED
      BY <3>1, <3>2
  <2>3. CallInv(known)'
    BY <2>2, StillKnown
  <2>. QED
    BY <2>1, <2>3 DEF CallInv
<1>. QED
  BY <1>1 DEF CallsPart

(* A call that reads the account, or a token. *)
LEMMA CallsReading ==
  ASSUME IInv, NEW c \in Clients,
         \/ \E right \in BOOLEAN : ReadLogin(c, right)
         \/ \E i \in DOMAIN tokens :
              FindResetToken(c, i) \/ \E right \in BOOLEAN : ReadResetCode(c, i, right)
         \/ \E to \in {"active", "inactive", "archived"} : ReadTransition(c, to)
         \/ ReadUpdateUser(c)
         \/ \E ch \in challenges : GetMfaChallenge(c, ch)
         \/ \E i \in DOMAIN sessions : ChangePassword(c, i)
  PROVE  \E step : Go(c, step) /\ CallInv(step)
<1>1. UserPart /\ TokensPart /\ Idle = [op |-> "idle"]
  BY Parts DEF Idle
<1>2. /\ user.status \in Status /\ user.failedLoginCount \in Nat
      /\ user.lockedUntil \in Nat \cup {None}
  BY <1>1 DEF UserPart, UserDoc
<1>3. ASSUME NEW right \in BOOLEAN, ReadLogin(c, right)
      PROVE  \E step : Go(c, step) /\ CallInv(step)
  <2> DEFINE step == [op |-> "login", right |-> right,
                      copy |-> Copy({"status", "failedLoginCount", "lockedUntil"})]
  <2>1. CallInv(step)
    BY <1>2, <1>3 DEF CallInv, Copy, ReadLogin, MaySignIn
  <2>. QED
    BY <1>3, <2>1 DEF ReadLogin
<1>4. ASSUME NEW i \in DOMAIN tokens, FindResetToken(c, i)
      PROVE  \E step : Go(c, step) /\ CallInv(step)
  <2>1. CallInv([op |-> "token", token |-> i])
    BY DEF CallInv
  <2>. QED
    BY <1>4, <2>1 DEF FindResetToken
<1>5. ASSUME NEW i \in DOMAIN tokens, NEW right \in BOOLEAN, ReadResetCode(c, i, right)
      PROVE  \E step : Go(c, step) /\ CallInv(step)
  <2>1. PICK t \in ResetToken : t = tokens[i] /\ (t.attempts > MaxAttempts => t.used)
    BY <1>1 DEF TokensPart
  <2>2. tokens[i].attempts + 1 \in 0..(MaxAttempts + 1)
    BY <1>5, <2>1, Numbers DEF ReadResetCode, Live, ResetToken
  <2>3. PICK n \in 0..(MaxAttempts + 1) : n = tokens[i].attempts + 1
    BY <2>2
  <2> DEFINE step == [op |-> "code", token |-> i, right |-> right, attempts |-> n]
  <2>4. CallInv(step)
    BY <1>5 DEF CallInv
  <2>. QED
    BY <1>5, <2>3, <2>4 DEF ReadResetCode
<1>6. ASSUME NEW to \in {"active", "inactive", "archived"}, ReadTransition(c, to)
      PROVE  \E step : Go(c, step) /\ CallInv(step)
  <2> DEFINE step == [op |-> "transition", to |-> to, copy |-> Copy({"status"})]
  <2>1. CallInv(step)
    BY <1>6 DEF CallInv, Status
  <2>. QED
    BY <1>6, <2>1 DEF ReadTransition
<1>7. ASSUME ReadUpdateUser(c)
      PROVE  \E step : Go(c, step) /\ CallInv(step)
  <2>1. CallInv([op |-> "update", copy |-> Copy({"rev"})])
    BY DEF CallInv
  <2>. QED
    BY <1>7, <2>1 DEF ReadUpdateUser
<1>8. ASSUME NEW ch, GetMfaChallenge(c, ch)
      PROVE  \E step : Go(c, step) /\ CallInv(step)
  <2>1. CallInv([op |-> "consume", challenge |-> ch])
    BY DEF CallInv
  <2>. QED
    BY <1>8, <2>1 DEF GetMfaChallenge
<1>9. ASSUME NEW i, ChangePassword(c, i)
      PROVE  \E step : Go(c, step) /\ CallInv(step)
  <2>1. CallInv([op |-> "revoke", next |-> [op |-> "establish"]])
    BY DEF CallInv
  <2>. QED
    BY <1>9, <2>1 DEF ChangePassword
<1>. QED
  BY <1>3, <1>4, <1>5, <1>6, <1>7, <1>8, <1>9

(* A call that goes on, or ends. *)
LEMMA CallsGoingOn ==
  ASSUME IInv, NEW c \in Clients,
         \/ SaveFailedLogin(c) \/ SaveLogin(c) \/ CreateMfaChallenge(c) \/ SpendRecoveryCode(c)
         \/ \E code \in RecoveryCodes \cup {"totp", "wrong"} : ConsumeMfaChallenge(c, code)
         \/ SaveResetCode(c) \/ GrantToken(c) \/ ReadReset(c) \/ SaveReset(c) \/ MarkTokenUsed(c)
         \/ SaveTransition(c) \/ SaveUpdateUser(c)
         \/ EstablishSession(c) \/ RevokeSessions(c) \/ Crash(c)
  PROVE  \E step : Go(c, step) /\ CallInv(step)
<1>1. CallInv(client[c]) /\ UserPart
  BY Parts DEF IInv
<1>2. CallInv(Idle)
  BY DEF CallInv, Idle
<1>3. \A op \in {"challenge", "establish", "grant"} : CallInv([op |-> op])
  BY DEF CallInv
<1>4. CASE Done(c)
  BY <1>2, <1>4 DEF Done
<1>5. CASE SaveLogin(c)
  <2>1. PICK op \in {"challenge", "establish"} : Go(c, [op |-> op])
    BY <1>5 DEF SaveLogin
  <2>. QED
    BY <1>3, <2>1
<1>6. CASE SpendRecoveryCode(c)
  BY <1>2, <1>3, <1>6 DEF SpendRecoveryCode, Done
<1>7. ASSUME NEW code \in RecoveryCodes \cup {"totp", "wrong"}, ConsumeMfaChallenge(c, code)
      PROVE  \E step : Go(c, step) /\ CallInv(step)
  <2>1. \/ Done(c) \/ Go(c, [op |-> "establish"])
        \/ /\ Go(c, [op |-> "spend", code |-> code, copy |-> Copy({"recoveryCodes", "rev"})])
           /\ code \in user.recoveryCodes
    BY <1>7, Zenon DEF ConsumeMfaChallenge
  <2>2. CASE /\ Go(c, [op |-> "spend", code |-> code, copy |-> Copy({"recoveryCodes", "rev"})])
             /\ code \in user.recoveryCodes
    <3> DEFINE step == [op |-> "spend", code |-> code, copy |-> Copy({"recoveryCodes", "rev"})]
    <3>1. CodesRead(Copy({"recoveryCodes", "rev"}))
      BY <1>1 DEF CodesRead, Copy, UserPart, UserDoc
    <3>2. CallInv(step)
      BY <2>2, <3>1 DEF CallInv, Copy
    <3>. QED
      BY <2>2, <3>2
  <2>. QED
    BY <1>3, <1>4, <2>1, <2>2
<1>8. CASE SaveResetCode(c)
  BY <1>3, <1>4, <1>8 DEF SaveResetCode
<1>9. CASE SaveReset(c)
  <2>1. CallInv([op |-> "mark", token |-> client[c].token])
    BY <1>1, <1>9 DEF CallInv, SaveReset
  <2>. QED
    BY <1>9, <2>1 DEF SaveReset
<1>10. CASE MarkTokenUsed(c) \/ SaveTransition(c)
  <2>1. CallInv([op |-> "revoke", next |-> Idle])
    BY DEF CallInv
  <2>. QED
    BY <1>4, <1>10, <2>1 DEF MarkTokenUsed, SaveTransition
<1>11. CASE RevokeSessions(c)
  <2>1. client[c].next \in {Idle, [op |-> "establish"]}
    BY <1>1, <1>11 DEF CallInv, RevokeSessions
  <2>. QED
    BY <1>2, <1>3, <1>11, <2>1 DEF RevokeSessions
<1>12. CASE SaveFailedLogin(c)
  BY <1>4, <1>12, Zenon DEF SaveFailedLogin
<1>13. CASE ReadReset(c)
  <2> DEFINE step == [op |-> "reset", token |-> client[c].token,
                      copy |-> Copy({"status", "failedLoginCount", "lockedUntil"})]
  <2>1. user.status \in Status
    BY <1>1 DEF UserPart, UserDoc
  <2>2. CallInv(step)
    BY <1>1, <1>13, <2>1 DEF CallInv, Copy, ReadReset
  <2>. QED
    BY <1>13, <2>2 DEF ReadReset
<1>. QED
  BY <1>4, <1>5, <1>6, <1>7, <1>8, <1>9, <1>10, <1>11, <1>12, <1>13
     DEF CreateMfaChallenge, GrantToken, SaveUpdateUser, EstablishSession, Crash

LEMMA CallsKept ==
  ASSUME IInv, [Next /\ UNCHANGED scenario]_vars
  PROVE  CallsPart'
<1>1. CallsPart /\ UserPart /\ UserPart' /\ CodesMove /\ TokensMove
  BY Parts, UserKept, TokensKept
<1>2. ASSUME NEW c \in Clients, \E step : Go(c, step) /\ CallInv(step)
      PROVE  CallsPart'
  BY <1>1, <1>2, CallStep DEF Go
<1>3. CASE UNCHANGED client
  <2>1. ASSUME NEW c \in Clients
        PROVE  CallInv(client[c])'
    <3>1. PICK known : known = client[c]
      OBVIOUS
    <3>2. CallInv(known)
      BY <1>1, <3>1 DEF CallsPart
    <3>3. CallInv(known)'
      BY <1>1, <3>2, StillKnown
    <3>. QED
      BY <1>3, <3>1, <3>3 DEF CallInv
  <2>. QED
    BY <1>1, <1>3, <2>1 DEF CallsPart
<1>4. ASSUME NEW c \in Clients,
             \/ Login(c) \/ VerifyMfa(c) \/ ResetPassword(c) \/ Administer(c)
             \/ EstablishSession(c) \/ RevokeSessions(c) \/ Crash(c)
             \/ \E i \in DOMAIN sessions : ChangePassword(c, i)
      PROVE  CallsPart'
  BY <1>2, <1>4, CallsReading, CallsGoingOn DEF Login, VerifyMfa, ResetPassword, Administer
<1>5. ASSUME \/ \E i \in DOMAIN sessions :
                  \/ ReadSession(i) \/ RequireAuth(i) \/ TouchSession(i)
                  \/ EndSession(i) \/ LogoutAll(i)
             \/ ForgotPassword \/ ExpireMfaChallenge \/ Tick \/ UNCHANGED vars
      PROVE  UNCHANGED client
  BY <1>5, Zenon
     DEF ReadSession, RequireAuth, TouchSession, EndSession, LogoutAll, ForgotPassword,
         ExpireMfaChallenge, Tick, vars
<1>. QED
  BY <1>3, <1>4, <1>5 DEF Next

-----------------------------------------------------------------------------
(* The challenges and the clock *)

LEMMA MinChosen ==
  ASSUME NEW S, S \subseteq Nat, S # {}
  PROVE  Min(S) \in S
<1> DEFINE R == OpToRel(<, Nat)
<1>1. PICK x \in S : \A y \in S : <<y, x>> \notin R
  <2>1. IsWellFoundedOn(R, Nat)
    BY NatLessThanWellFounded, Zenon
  <2>. HIDE DEF R
  <2>. QED
    BY <2>1, WFMin
<1>2. \A y \in S : ~(y < x)
  BY <1>1, Zenon DEF OpToRel
<1>3. \A y \in S : x <= y
  BY <1>2
<1>. QED
  BY <1>3 DEF Min

LEMMA RestKept ==
  ASSUME IInv, [Next /\ UNCHANGED scenario]_vars
  PROVE  RestPart' /\ now' >= now
<1>1. RestPart /\ now \in Nat
  BY Parts DEF RestPart
<1>2. CASE UNCHANGED <<challenges, now>>
  BY <1>1, <1>2 DEF RestPart
<1>3. CASE challenges' \subseteq challenges /\ UNCHANGED now
  BY <1>1, <1>3 DEF RestPart
<1>4. ASSUME NEW c \in Clients, CreateMfaChallenge(c)
      PROVE  RestPart' /\ now' >= now
  <2> DEFINE free == (1..MaxChallenges) \ challenges
  <2>1. free # {}
    <3>. SUFFICES ASSUME challenges = 1..MaxChallenges
                  PROVE  ~(Cardinality(challenges) < MaxChallenges)
      BY <1>1, <1>4 DEF RestPart, CreateMfaChallenge
    <3>1. Cardinality(1..MaxChallenges) = MaxChallenges
      BY Numbers, FS_Interval
    <3>. QED
      BY <3>1, Numbers
  <2>2. free \subseteq Nat
    BY Numbers
  <2>3. PICK ch \in 1..MaxChallenges : ch = Min(free)
    BY <2>1, <2>2, MinChosen
  <2>4. challenges' = challenges \cup {ch} /\ UNCHANGED now
    BY <1>4, <2>3 DEF CreateMfaChallenge
  <2>. HIDE DEF free
  <2>. QED
    BY <1>1, <2>4 DEF RestPart
<1>5. ASSUME NEW c \in Clients, NEW code, ConsumeMfaChallenge(c, code)
      PROVE  RestPart' /\ now' >= now
  <2>1. challenges' \subseteq challenges /\ UNCHANGED now
    BY <1>5, Zenon DEF ConsumeMfaChallenge
  <2>. QED
    BY <1>3, <2>1
<1>6. ASSUME NEW c \in Clients,
             \/ Login(c) \/ ResetPassword(c) \/ Administer(c) \/ SpendRecoveryCode(c)
             \/ \E ch \in challenges : GetMfaChallenge(c, ch)
      PROVE  UNCHANGED <<challenges, now>>
  <2>1. SaveResetCode(c) \/ SaveFailedLogin(c) => UNCHANGED <<challenges, now>>
    BY Zenon DEF SaveResetCode, SaveFailedLogin
  <2>2. Login(c) => UNCHANGED <<challenges, now>>
    BY <2>1 DEF Login, ReadLogin, SaveLogin
  <2>3. ResetPassword(c) => UNCHANGED <<challenges, now>>
    BY <2>1 DEF ResetPassword, GrantToken, MarkTokenUsed, FindResetToken, ReadReset,
           ReadResetCode, SaveReset
  <2>4. Administer(c) => UNCHANGED <<challenges, now>>
    BY DEF Administer, ReadTransition, SaveTransition, ReadUpdateUser, SaveUpdateUser
  <2>. QED
    BY <1>6, <2>2, <2>3, <2>4 DEF SpendRecoveryCode, GetMfaChallenge
<1>7. ASSUME NEW c \in Clients,
             \/ EstablishSession(c) \/ RevokeSessions(c) \/ Crash(c)
             \/ \E i \in DOMAIN sessions : ChangePassword(c, i)
      PROVE  UNCHANGED <<challenges, now>>
  BY <1>7 DEF EstablishSession, RevokeSessions, Crash, ChangePassword
<1>8. ASSUME \/ \E i \in DOMAIN sessions :
                  \/ ReadSession(i) \/ RequireAuth(i) \/ TouchSession(i)
                  \/ EndSession(i) \/ LogoutAll(i)
             \/ ForgotPassword \/ UNCHANGED vars
      PROVE  UNCHANGED <<challenges, now>>
  BY <1>8, Zenon
     DEF ReadSession, RequireAuth, TouchSession, EndSession, LogoutAll, ForgotPassword, vars
<1>9. ASSUME ExpireMfaChallenge
      PROVE  RestPart' /\ now' >= now
  BY <1>3, <1>9 DEF ExpireMfaChallenge
<1>10. ASSUME Tick
       PROVE  RestPart' /\ now' >= now
  BY <1>1, <1>10, Numbers DEF RestPart, Tick
<1>. QED
  BY <1>2, <1>4, <1>5, <1>6, <1>7, <1>8, <1>9, <1>10 DEF Next, VerifyMfa

-----------------------------------------------------------------------------
(* The theorems *)

LEMMA InitInv ==
  ASSUME Init
  PROVE  IInv
<1>1. /\ NewUser("invited") \in UserDoc /\ NewUser("active") \in UserDoc
      /\ NewUser("invited").recoveryCodes = RecoveryCodes
      /\ NewUser("active").recoveryCodes = RecoveryCodes
  BY DEF NewUser, UserDoc, Status
<1>2. UserPart
  BY <1>1 DEF Init, UserPart
<1>3. SessionsPart
  BY DEF Init, SessionsPart
<1>4. TokensPart
  <2>1. now = 0
    BY DEF Init
  <2>2. NewToken("token") \in ResetToken /\ ~(NewToken("token").attempts > MaxAttempts)
    BY <2>1, Numbers DEF NewToken, ResetToken
  <2>3. PICK t \in ResetToken : t = NewToken("token") /\ ~(t.attempts > MaxAttempts)
    BY <2>2
  <2>4. CASE tokens = <<t>>
    <3>1. tokens \in Seq(ResetToken) /\ \A i \in DOMAIN tokens : tokens[i] = t
      BY <2>4
    <3>. QED
      BY <2>3, <3>1 DEF TokensPart
  <2>5. CASE tokens = <<>>
    BY <2>5 DEF TokensPart
  <2>. QED
    BY <2>3, <2>4, <2>5 DEF Init
<1>5. CallsPart
  <2>1. CallInv(Idle)
    BY DEF CallInv, Idle
  <2>. QED
    BY <2>1 DEF Init, CallsPart
<1>6. RestPart
  BY Numbers DEF Init, RestPart
<1>. QED
  BY <1>2, <1>3, <1>4, <1>5, <1>6, Parts

LEMMA NextInv ==
  ASSUME IInv, [Next /\ UNCHANGED scenario]_vars
  PROVE  IInv'
<1>1. UserPart' /\ SessionsPart' /\ TokensPart' /\ CallsPart' /\ RestPart'
  BY UserKept, SessionsKept, TokensKept, CallsKept, RestKept
<1>. QED
  BY <1>1, Parts, PTL

(* Between its steps a call knows a token that exists, a status the table  *)
(* of userStatus.ts names, and codes that are the account's as long as its *)
(* version has not moved; a code that was accepted is no longer the        *)
(* account's.                                                              *)
THEOREM IdentityInvariant == Spec => []IInv
<1>1. IInv /\ [Next /\ UNCHANGED scenario]_vars => IInv'
  BY NextInv
<1>. QED
  BY <1>1, InitInv, PTL DEF Spec

(* The documents keep their types under every schedule of saves.           *)
THEOREM IdentityTypes == Spec => []TypeOK
<1>1. IInv => TypeOK
  BY DEF IInv
<1>. QED
  BY <1>1, IdentityInvariant, PTL

(* A recovery code is accepted once, whatever number of requests present   *)
(* it at the same time: the save asks for the version the codes were read  *)
(* with, and every change of the codes moves the version.                  *)
THEOREM RecoveryCodesOnce == Spec => []RecoveryCodeOnce
<1>1. IInv => RecoveryCodeOnce
  BY DEF IInv, RecoveryCodeOnce
<1>. QED
  BY <1>1, IdentityInvariant, PTL

(* A session that was revoked, has reached its absolute age, or has lapsed *)
(* with no touch left that could bring it back, never lets anyone in       *)
(* again: sessions are not deleted, a revocation is not taken back, a touch*)
(* moves the idle deadline alone and no farther than the idle time of its  *)
(* request, and a request on a session that has ended is not let in.       *)
THEOREM EndedSessionsStayEnded == Spec => EndedForGood
<1>1. ASSUME IInv, [Next /\ UNCHANGED scenario]_vars, NEW i \in DOMAIN sessions, Ended(i)
      PROVE  Ended(i)' /\ ~Usable(i)'
  <2>1. SessionsMove /\ SessionsPart /\ SessionsPart' /\ now' >= now /\ now \in Nat /\ now' \in Nat
    BY <1>1, Parts, SessionsKept, RestKept DEF RestPart
  <2>2. PICK old \in AuthSession : old = sessions[i]
    BY <2>1 DEF SessionsPart
  <2>3. PICK new \in AuthSession : new = sessions'[i]
    BY <2>1 DEF SessionsPart, SessionsMove
  <2>4. /\ new.createdAt = old.createdAt /\ (old.revoked => new.revoked)
        /\ new.expiresAt # old.expiresAt => TouchedTo(i, new.expiresAt)
        /\ new.absoluteExpiresAt = new.createdAt + SessionAbsolute
    BY <2>1, <2>2, <2>3 DEF SessionsMove, SessionsPart
  <2>5. /\ old.createdAt \in Nat /\ old.expiresAt \in Nat
        /\ new.expiresAt \in Nat /\ new.absoluteExpiresAt \in Nat
    BY <2>2, <2>3 DEF AuthSession
  <2>6. Ended(i)'
    <3>1. CASE old.revoked \/ now >= old.createdAt + SessionAbsolute
      BY <2>1, <2>2, <2>3, <2>4, <2>5, <3>1, Numbers DEF Ended
    <3>2. CASE old.expiresAt <= now /\ ~MayBeTouched(i)
      <4>1. new.expiresAt <= now
        <5>1. ASSUME NEW t \in Nat, <<i, t>> \in touches
              PROVE  t + SessionIdle <= now
          BY <2>1, <3>2, <5>1, Numbers DEF MayBeTouched
        <5>. QED
          BY <2>4, <3>2, <5>1 DEF TouchedTo
      <4>2. ASSUME NEW q \in touches', q[1] = i
            PROVE  q \in touches
        <5>1. ~Open(i) /\ <<i, None>> \notin touches
          BY <2>1, <2>2, <2>5, <3>2 DEF Open, MayBeTouched
        <5>. QED
          BY <2>1, <4>2, <5>1 DEF SessionsMove
      <4>3. ~MayBeTouched(i)'
        <5>1. ASSUME NEW q \in touches', q[1] = i
              PROVE  q[2] # None /\ ~(q[2] + SessionIdle > now')
          <6>1. q \in touches
            BY <4>2, <5>1
          <6>2. q[2] # None /\ ~(q[2] + SessionIdle > now)
            BY <3>2, <5>1, <6>1 DEF MayBeTouched
          <6>3. q[2] \in Nat
            BY <2>1, <6>1, <6>2 DEF SessionsPart
          <6>. QED
            BY <2>1, <6>2, <6>3, Numbers
        <5>. QED
          BY <5>1 DEF MayBeTouched
      <4>. QED
        BY <2>1, <2>3, <2>5, <4>1, <4>3 DEF Ended
    <3>. QED
      BY <1>1, <2>2, <3>1, <3>2 DEF Ended
  <2>7. ~Usable(i)'
    BY <2>1, <2>3, <2>4, <2>5, <2>6, Numbers DEF Ended, Usable, Open
  <2>. QED
    BY <2>6, <2>7
<1>2. IInv /\ [Next /\ UNCHANGED scenario]_vars
         => [\A i \in DOMAIN sessions : Ended(i) => Ended(i)' /\ ~Usable(i)']_vars
  BY <1>1
<1>. QED
  BY <1>2, IdentityInvariant, PTL DEF Spec, EndedForGood

(* Who was locked out, deactivated or archived is active again only by the *)
(* call of an administrator, or by one that read an invited account: a     *)
(* login or a reset writes the status only where it changed what it read.  *)
THEOREM OutStays == Spec => OutStaysOut
<1>1. IInv /\ [Next /\ UNCHANGED scenario]_vars
         => [user.status \in {"locked", "inactive", "archived"} /\ user'.status = "active"
                => \E c \in Clients : LetIn(c)]_vars
  BY UserKept DEF StaysOut
<1>. QED
  BY <1>1, IdentityInvariant, PTL DEF Spec, OutStaysOut

-----------------------------------------------------------------------------
(* Migrations *)

LEMMA MigrationsInit == MigrationInit => MigrationInv
<1> SUFFICES ASSUME MigrationInit PROVE MigrationInv
  OBVIOUS
<1>1. RecordedIsDone
  BY DEF MigrationInit, RecordedIsDone, Stopped
<1>2. \A r \in Runners : RunnerInv(runner[r])
  BY DEF MigrationInit, RunnerInv, Stopped
<1>. QED
  BY <1>1, <1>2 DEF MigrationInit, MigrationInv, MigrationTypeOK, Stopped

(* A step of run r that records and writes nothing: it is enough to look   *)
(* at where r is now.                                                      *)
LEMMA RunnerMoves ==
  ASSUME MigrationInv, NEW r \in Runners,
         NEW here \in [at : Nat, done : Nat,
                      step : {"stopped", "find", "up", "failed", "finished"}],
         runner' = [runner EXCEPT ![r] = here], RunnerInv(here),
         here.step = "finished" => applied = AllMigrations,
         UNCHANGED <<applied, written>>
  PROVE  MigrationInv'
<1>1. runner'[r] = here /\ \A o \in Runners \ {r} : runner'[o] = runner[o]
  BY DEF MigrationInv
<1>2. \A o \in Runners : RunnerInv(runner[o])'
  BY <1>1 DEF MigrationInv, RunnerInv
<1>3. RecordedIsDone'
  BY <1>1 DEF MigrationInv, RecordedIsDone
<1>. QED
  BY <1>1, <1>2, <1>3 DEF MigrationInv, MigrationTypeOK

LEMMA RecordInv ==
  ASSUME MigrationInv, NEW r \in Runners, Record(r), runner[r].at \notin applied
  PROVE  MigrationInv'
<1> DEFINE at == runner[r].at
           here == Following(r)
<1>1. /\ at \in AllMigrations /\ at \in Nat /\ at \in 1..Len(Writes)
      /\ 1..(at - 1) \subseteq applied
      /\ runner[r].done = Writes[at] /\ 1..Writes[at] \subseteq written[at]
      /\ written[at] \subseteq 1..Writes[at]
  BY MigrationsAssumption DEF MigrationInv, RunnerInv, Record, At, AllMigrations, MigrationTypeOK
<1>2. /\ applied' = applied \cup {at} /\ written' = written
      /\ runner' = [runner EXCEPT ![r] = here]
  BY DEF Record
<1>3. /\ here \in [at : Nat, done : Nat,
                  step : {"stopped", "find", "up", "failed", "finished"}]
      /\ here.at = at + 1 /\ here.step = "find" /\ here.done = 0
  BY <1>1 DEF Following
<1>4. runner'[r] = here /\ \A o \in Runners \ {r} : runner'[o] = runner[o]
  BY <1>2 DEF MigrationInv
<1>5. ASSUME NEW o \in Runners PROVE RunnerInv(runner[o])'
  <2>1. CASE o = r
    <3>1. 1..(here.at - 1) = 1..(at - 1) \cup {at}
      BY <1>1, <1>3
    <3>2. here.at \in 1..(Len(Writes) + 1)
      BY <1>1, <1>3, MigrationsAssumption
    <3>. QED
      BY <1>1, <1>2, <1>3, <1>4, <2>1, <3>1, <3>2 DEF RunnerInv
  <2>2. CASE o # r
    <3>1. RunnerInv(runner[o])
      BY DEF MigrationInv
    <3>. QED
      BY <1>2, <1>4, <2>2, <3>1 DEF RunnerInv
  <2>. QED
    BY <2>1, <2>2
<1>6. RecordedIsDone'
  <2>1. \A i \in applied' : written'[i] = 1..Writes[i] /\ \A j \in 1..(i - 1) : j \in applied'
    BY <1>1, <1>2 DEF MigrationInv, RecordedIsDone
  <2>2. ASSUME NEW o \in Runners, runner'[o].step = "finished"
        PROVE  applied' = AllMigrations
    BY <1>1, <1>2, <1>3, <1>4, <2>2 DEF MigrationInv, RecordedIsDone
  <2>. QED
    BY <2>1, <2>2 DEF RecordedIsDone
<1>. QED
  BY <1>1, <1>2, <1>3, <1>4, <1>5, <1>6 DEF MigrationInv, MigrationTypeOK

LEMMA UpInv ==
  ASSUME MigrationInv, NEW r \in Runners, Up(r)
  PROVE  MigrationInv'
<1> DEFINE at == runner[r].at
           done == runner[r].done
<1>1. /\ at \in AllMigrations /\ at \in 1..(Len(Writes) + 1) /\ done \in Nat /\ done < Writes[at]
      /\ runner[r].step = "up"
      /\ 1..(at - 1) \subseteq applied
      /\ 1..done \subseteq written[at] /\ Writes[at] \in Nat
  <2>1. /\ runner[r] \in [at : Nat, done : Nat,
                          step : {"stopped", "find", "up", "failed", "finished"}]
        /\ RunnerInv(runner[r]) /\ runner[r].step = "up" /\ done < Writes[at]
    BY DEF MigrationInv, Up, At
  <2>. QED
    BY <2>1, MigrationsAssumption DEF RunnerInv, AllMigrations
<1>2. /\ applied' = applied
      /\ written' = [written EXCEPT ![at] = @ \cup {done + 1}]
      /\ runner' = [runner EXCEPT ![r].done = @ + 1]
  BY DEF Up
<1>3. /\ runner' \in [Runners -> [at : Nat, done : Nat,
                                  step : {"stopped", "find", "up", "failed", "finished"}]]
      /\ runner'[r].done = done + 1 /\ runner'[r].at = at /\ runner'[r].step = "up"
      /\ \A o \in Runners \ {r} : runner'[o] = runner[o]
  BY <1>1, <1>2 DEF MigrationInv
<1>4. /\ written'[at] = written[at] \cup {done + 1}
      /\ \A i \in AllMigrations \ {at} : written'[i] = written[i]
      /\ written' \in [AllMigrations -> SUBSET Nat]
  BY <1>1, <1>2 DEF MigrationInv
<1>5. done + 1 \in 1..Writes[at]
  BY <1>1
<1>6. ASSUME NEW o \in Runners PROVE RunnerInv(runner[o])'
  <2>1. CASE o = r
    <3>1. 1..(done + 1) \subseteq written'[at]
      BY <1>1, <1>4
    <3>. QED
      BY <1>1, <1>2, <1>3, <1>5, <2>1, <3>1 DEF RunnerInv
  <2>2. CASE o # r
    BY <1>2, <1>3, <1>4, <2>2 DEF MigrationInv, RunnerInv
  <2>. QED
    BY <2>1, <2>2
<1>7. RecordedIsDone'
  <2>1. RecordedIsDone /\ applied \subseteq AllMigrations
    BY DEF MigrationInv, MigrationTypeOK
  <2>2. ASSUME NEW i \in applied PROVE written'[i] = 1..Writes[i]
    <3>1. written[i] = 1..Writes[i]
      BY <2>1 DEF RecordedIsDone
    <3>2. CASE i = at
      BY <1>4, <1>5, <3>1, <3>2
    <3>. QED
      BY <1>4, <2>1, <3>1, <3>2
  <2>3. ASSUME NEW o \in Runners, runner'[o].step = "finished" PROVE runner[o].step = "finished"
    BY <1>3, <2>3
  <2>. QED
    BY <1>2, <2>1, <2>2, <2>3 DEF RecordedIsDone
<1>. QED
  BY <1>2, <1>3, <1>4, <1>5, <1>6, <1>7 DEF MigrationInv, MigrationTypeOK

LEMMA MigrationsNext == MigrationInv /\ [MigrationNext]_migrationVars => MigrationInv'
<1> SUFFICES ASSUME MigrationInv, [MigrationNext]_migrationVars PROVE MigrationInv'
  OBVIOUS
<1>1. CASE UNCHANGED migrationVars
  BY <1>1 DEF migrationVars, MigrationInv, MigrationTypeOK, RunnerInv, RecordedIsDone
<1>2. ASSUME NEW r \in Runners, RunMigrations(r) \/ RunnerStep(r) \/ StopRunner(r)
      PROVE  MigrationInv'
  <2>0. /\ runner[r] \in [at : Nat, done : Nat,
                          step : {"stopped", "find", "up", "failed", "finished"}]
        /\ RunnerInv(runner[r])
    BY DEF MigrationInv
  <2>1. CASE RunMigrations(r)
    <3> DEFINE here == [at |-> 1, step |-> "find", done |-> 0]
    <3>1. RunnerInv(here)
      BY MigrationsAssumption DEF RunnerInv
    <3>. QED
      BY <2>1, <3>1, RunnerMoves DEF RunMigrations
  <2>2. CASE Finish(r)
    <3> DEFINE here == [runner[r] EXCEPT !.step = "finished"]
    <3>1. applied = AllMigrations
      <4>1. /\ runner[r].at \in 1..(Len(Writes) + 1) /\ 1..(runner[r].at - 1) \subseteq applied
            /\ runner[r].at \notin 1..Len(Writes)
        BY <2>0, <2>2, MigrationsAssumption DEF RunnerInv, Finish, At, AllMigrations
      <4>2. runner[r].at = Len(Writes) + 1
        BY <4>1, MigrationsAssumption
      <4>3. 1..Len(Writes) \subseteq applied
        BY <4>1, <4>2, MigrationsAssumption
      <4>4. AllMigrations = 1..Len(Writes)
        BY MigrationsAssumption DEF AllMigrations
      <4>. QED
        BY <4>3, <4>4 DEF MigrationInv, MigrationTypeOK
    <3>2. RunnerInv(here)
      BY <2>0 DEF RunnerInv
    <3>3. runner' = [runner EXCEPT ![r] = here]
      BY <2>2 DEF Finish
    <3>. QED
      BY <2>0, <2>2, <3>1, <3>2, <3>3, RunnerMoves DEF Finish
  <2>3. CASE FindMigration(r) /\ runner[r].at \in applied
    <3> DEFINE here == Following(r)
    <3>1. runner[r].at \in 1..Len(Writes) /\ 1..(runner[r].at - 1) \subseteq applied
      BY <2>0, <2>3, MigrationsAssumption DEF RunnerInv, FindMigration, At, AllMigrations
    <3>2. /\ here.at = runner[r].at + 1 /\ here.step = "find" /\ here.done = 0
          /\ here \in [at : Nat, done : Nat,
                      step : {"stopped", "find", "up", "failed", "finished"}]
      BY <3>1 DEF Following
    <3>3. RunnerInv(here)
      <4>1. 1..(here.at - 1) = 1..(runner[r].at - 1) \cup {runner[r].at}
        BY <3>1, <3>2
      <4>2. here.at \in 1..(Len(Writes) + 1)
        BY <3>1, <3>2, MigrationsAssumption
      <4>. QED
        BY <2>3, <3>1, <3>2, <4>1, <4>2 DEF RunnerInv
    <3>. QED
      BY <2>3, <3>2, <3>3, RunnerMoves DEF FindMigration
  <2>4. CASE FindMigration(r) /\ runner[r].at \notin applied
    <3> DEFINE here == [runner[r] EXCEPT !.step = "up"]
    <3>1. here.at = runner[r].at /\ here.step = "up" /\ here.done = runner[r].done
      BY <2>0
    <3>2. runner[r].done = 0
      BY <2>0, <2>4 DEF FindMigration, At, RunnerInv
    <3>3. Writes[runner[r].at] \in Nat
      BY <2>4, MigrationsAssumption DEF FindMigration, AllMigrations
    <3>4. RunnerInv(here)
      BY <2>0, <2>4, <3>1, <3>2, <3>3 DEF RunnerInv, FindMigration, At
    <3>5. runner' = [runner EXCEPT ![r] = here]
      BY <2>4 DEF FindMigration
    <3>. QED
      BY <2>0, <2>4, <3>1, <3>4, <3>5, RunnerMoves DEF FindMigration
  <2>5. CASE Up(r)
    BY <2>5, UpInv
  <2>6. CASE UpFails(r) \/ (Record(r) /\ runner[r].at \in applied)
    <3> DEFINE here == [runner[r] EXCEPT !.step = "failed"]
    <3>1. here.step = "failed" /\ RunnerInv(here)
      BY <2>0 DEF RunnerInv
    <3>2. runner' = [runner EXCEPT ![r] = here] /\ UNCHANGED <<applied, written>>
      BY <2>6 DEF UpFails, Record
    <3>. QED
      BY <2>0, <3>1, <3>2, RunnerMoves
  <2>7. CASE Record(r) /\ runner[r].at \notin applied
    BY <2>7, RecordInv
  <2>8. CASE StopRunner(r)
    <3>1. RunnerInv(Stopped)
      BY DEF RunnerInv, Stopped
    <3>. QED
      BY <2>8, <3>1, RunnerMoves DEF StopRunner, Stopped
  <2>. QED
    BY <1>2, <2>1, <2>2, <2>3, <2>4, <2>5, <2>6, <2>7, <2>8 DEF RunnerStep
<1>. QED
  BY <1>1, <1>2 DEF MigrationNext

-----------------------------------------------------------------------------
(* Notifications *)

LEMMA MailInits == MailInit => MailInv
<1> SUFFICES ASSUME MailInit PROVE MailInv
  OBVIOUS
<1>. USE NotificationsAssumption DEF MailInit
<1>1. MailTypeOK
  BY DEF MailTypeOK, JobStates, NoJob
<1>2. ASSUME NEW c \in Calls PROVE JobInv(c)
  BY DEF JobInv, NoJob
<1>3. ASSUME NEW w \in Workers PROVE WorkerInv(w)
  BY DEF WorkerInv
<1>4. CompletedWasSent
  BY DEF CompletedWasSent, NoJob
<1>. QED
  BY <1>1, <1>2, <1>3, <1>4 DEF MailInv

Jobs == [state : JobStates, attempts : 0..Attempts, stalls : 0..(MaxStalls + 1)]
Held == [step : {"find", "send", "return", "throw"}, call : Calls]

(* The state that the steps of the mail's way are proved from. *)
LEMMA MailFacts ==
  ASSUME MailInv
  PROVE  /\ call \in [Calls -> {"idle", "stored", "queued", "answered", "failed"}]
         /\ token \subseteq Calls
         /\ job \in [Calls -> Jobs]
         /\ mails \in [Calls -> Nat] /\ stops \in 0..MaxStops
         /\ \A c \in Calls : JobInv(c)
         /\ \A w \in Workers : WorkerInv(w) /\ (worker[w] = Resting \/ worker[w] \in Held)
         /\ CompletedWasSent
BY DEF MailInv, MailTypeOK, WorkerInv, Held, Jobs

(* A step of the API or the queue with one call: it is enough to look at   *)
(* that call, and that a job some worker holds stays active.               *)
LEMMA CallMoves ==
  ASSUME MailInv, NEW c \in Calls, UNCHANGED <<worker, mails>>,
         call' \in [Calls -> {"idle", "stored", "queued", "answered", "failed"}],
         token' \in SUBSET Calls, stops' \in 0..MaxStops,
         job' \in [Calls -> Jobs],
         \A o \in Calls \ {c} : /\ call'[o] = call[o] /\ job'[o] = job[o]
                                /\ o \in token => o \in token',
         JobInv(c)',
         job'[c].state = job[c].state \/ \A w \in Workers : ~HeldBy(w, c),
         job'[c].state # "completed" \/ job[c].state = "completed"
  PROVE  MailInv'
<1>1. ASSUME NEW o \in Calls PROVE JobInv(o)'
  BY MailFacts DEF JobInv
<1>2. ASSUME NEW w \in Workers PROVE WorkerInv(w)'
  BY MailFacts DEF WorkerInv, HeldBy
<1>3. CompletedWasSent'
  BY MailFacts, NotificationsAssumption DEF CompletedWasSent
<1>4. MailTypeOK'
  BY MailFacts DEF MailInv, MailTypeOK, Jobs
<1>. QED
  BY <1>1, <1>2, <1>3, <1>4 DEF MailInv

(* A step of one worker: it is enough to look at what it holds afterwards  *)
(* and at the job it holds or held.                                        *)
LEMMA WorkerMoves ==
  ASSUME MailInv, NEW w \in Workers, NEW c \in Calls, NEW here \in Held \cup {Resting},
         NEW j \in Jobs, NEW m \in Nat,
         worker[w] # Resting => worker[w].call = c,
         worker[w] = Resting => job[c].state = "waiting",
         worker' = [worker EXCEPT ![w] = here],
         job' = [job EXCEPT ![c] = j], mails' = [mails EXCEPT ![c] = m], m >= mails[c],
         UNCHANGED <<call, token>>, stops' \in 0..MaxStops,
         here # Resting => here.call = c /\ j.state = "active",
         here # Resting /\ here.step = "return" => m > 0 \/ c \notin Found \/ Transport = "none",
         j.state \in {"active", "waiting", "delayed"} => /\ j.attempts < Attempts
                                                         /\ j.stalls <= MaxStalls,
         j.state # "none",
         j.state = "completed" => m > 0 \/ c \notin Found \/ Transport = "none"
  PROVE  MailInv'
<1>0. /\ worker'[w] = here /\ DOMAIN worker' = Workers
      /\ \A v \in Workers \ {w} : worker'[v] = worker[v]
      /\ job'[c] = j /\ mails'[c] = m
      /\ \A o \in Calls \ {c} : job'[o] = job[o] /\ mails'[o] = mails[o]
      /\ job' \in [Calls -> Jobs] /\ mails' \in [Calls -> Nat]
      /\ job[c].state \in {"waiting", "active"}
  BY MailFacts DEF MailInv, WorkerInv
<1>1. ASSUME NEW o \in Calls PROVE JobInv(o)'
  <2>1. CASE o = c
    <3>1. JobInv(c) /\ job[c] # NoJob
      BY <1>0, MailFacts DEF NoJob
    <3>. QED
      BY <1>0, <2>1, <3>1 DEF JobInv
  <2>. QED
    BY <1>0, <2>1, MailFacts DEF JobInv
<1>2. \A v \in Workers \ {w} : ~HeldBy(v, c)
  BY MailFacts DEF WorkerInv, HeldBy
<1>3. ASSUME NEW v \in Workers PROVE WorkerInv(v)'
  <2>1. CASE v = w
    BY <1>0, <1>2, <2>1 DEF WorkerInv, HeldBy, Held
  <2>2. CASE v # w
    <3>1. SUFFICES ASSUME worker[v] # Resting PROVE WorkerInv(v)'
      BY <1>0, <2>2 DEF WorkerInv
    <3>2. worker[v] \in Held /\ WorkerInv(v) /\ worker[v].call # c
      BY <1>2, <2>2, <3>1, MailFacts DEF HeldBy
    <3>3. \A u \in Workers \ {v} : ~HeldBy(u, worker[v].call)'
      BY <1>0, <2>2, <3>1, <3>2 DEF HeldBy, WorkerInv
    <3>. QED
      BY <1>0, <2>2, <3>1, <3>2, <3>3 DEF WorkerInv, Held
  <2>. QED
    BY <2>1, <2>2
<1>4. CompletedWasSent'
  BY <1>0, MailFacts, NotificationsAssumption DEF CompletedWasSent
<1>5. MailTypeOK'
  BY <1>0, MailFacts DEF MailTypeOK, MailInv, Held, Jobs
<1>. QED
  BY <1>0, <1>1, <1>3, <1>4, <1>5 DEF MailInv

LEMMA ApiInv ==
  ASSUME MailInv, NEW c \in Calls, ApiStep(c) \/ StopApi(c)
  PROVE  MailInv'
<1>1. JobInv(c) /\ c \in Calls
  BY MailFacts
<1>2. CASE CreateToken(c)
  <2>1. JobInv(c)'
    BY <1>1, <1>2, MailFacts DEF CreateToken, JobInv
  <2>. QED
    BY <1>2, <2>1, MailFacts, CallMoves DEF CreateToken
<1>3. CASE EnqueueNotification(c)
  <2>1. job[c] = NoJob /\ \A w \in Workers : ~HeldBy(w, c)
    BY <1>1, <1>3, MailFacts DEF EnqueueNotification, JobInv, NoJob, WorkerInv, HeldBy
  <2>2. job'[c] = [state |-> "waiting", attempts |-> 0, stalls |-> 0]
    BY <1>3, <2>1, MailFacts DEF EnqueueNotification, NoJob
  <2>3. job' \in [Calls -> Jobs]
    BY <1>3, MailFacts DEF EnqueueNotification, Jobs, JobStates
  <2>4. JobInv(c)'
    BY <1>1, <1>3, <2>2, MailFacts, NotificationsAssumption DEF EnqueueNotification, JobInv
  <2>. QED
    BY <1>3, <2>1, <2>2, <2>3, <2>4, MailFacts, CallMoves DEF EnqueueNotification
<1>4. CASE EnqueueFails(c) \/ Answer(c)
  <2>1. JobInv(c)'
    BY <1>1, <1>4, MailFacts DEF EnqueueFails, Answer, JobInv
  <2>. QED
    BY <1>4, <2>1, MailFacts, CallMoves DEF EnqueueFails, Answer
<1>5. CASE StopApi(c)
  <2>1. JobInv(c)' /\ stops' \in 0..MaxStops
    BY <1>1, <1>5, MailFacts, NotificationsAssumption DEF StopApi, JobInv
  <2>. QED
    BY <1>5, <2>1, MailFacts, CallMoves DEF StopApi
<1>. QED
  BY <1>2, <1>3, <1>4, <1>5 DEF ApiStep

LEMMA QueueInv ==
  ASSUME MailInv, NEW c \in Calls, QueueStep(c)
  PROVE  MailInv'
<1>1. JobInv(c) /\ job[c].attempts \in 0..Attempts /\ job[c].stalls \in 0..(MaxStalls + 1)
  BY MailFacts DEF Jobs
<1>2. CASE Backoff(c)
  <2>1. \A w \in Workers : ~HeldBy(w, c)
    BY <1>2, MailFacts DEF Backoff, WorkerInv, HeldBy
  <2>2. /\ job' \in [Calls -> Jobs]
        /\ job'[c].state = "waiting" /\ job'[c].attempts = job[c].attempts
        /\ job'[c].stalls = job[c].stalls
        /\ \A o \in Calls \ {c} : job'[o] = job[o]
    BY <1>2, MailFacts DEF Backoff, Jobs, JobStates
  <2>3. JobInv(c)'
    BY <1>1, <1>2, <2>2 DEF Backoff, JobInv, NoJob
  <2>. QED
    BY <1>2, <2>1, <2>2, <2>3, MailFacts, CallMoves DEF Backoff
<1>3. CASE Stalled(c)
  <2>1. job[c].stalls <= MaxStalls /\ job[c].attempts < Attempts
    BY <1>1, <1>3 DEF Stalled, JobInv
  <2>2. PICK j \in Jobs : j = job[c]
    BY MailFacts
  <2> DEFINE counted == [j EXCEPT !.stalls = j.stalls + 1]
             next == [counted EXCEPT !.state = IF j.stalls < MaxStalls THEN "waiting" ELSE "failed"]
  <2>3. j.stalls + 1 \in 0..(MaxStalls + 1) /\ j.stalls \in Nat
    BY <1>1, <2>1, <2>2, NotificationsAssumption
  <2>4. /\ counted \in Jobs /\ counted.stalls = j.stalls + 1 /\ counted.attempts = j.attempts
    BY <2>3 DEF Jobs
  <2>5. /\ next \in Jobs /\ next.stalls = j.stalls + 1 /\ next.attempts = j.attempts
        /\ next.state = (IF j.stalls < MaxStalls THEN "waiting" ELSE "failed")
    <3>. HIDE DEF counted
    <3>. QED
      BY <2>4 DEF Jobs, JobStates
  <2>6. job' = [job EXCEPT ![c] = next]
    BY <1>3, <2>2 DEF Stalled
  <2>. HIDE DEF next
  <2>7. /\ job' \in [Calls -> Jobs] /\ job'[c] = next
        /\ \A o \in Calls \ {c} : job'[o] = job[o]
    BY <2>5, <2>6, MailFacts
  <2>8. UNCHANGED <<call, token, worker, mails, stops>> /\ job[c].state = "active"
    BY <1>3 DEF Stalled
  <2>9. JobInv(c)'
    BY <1>1, <2>1, <2>2, <2>3, <2>5, <2>7, <2>8, NotificationsAssumption DEF JobInv, NoJob
  <2>. QED
    BY <1>3, <2>5, <2>7, <2>8, <2>9, MailFacts, CallMoves DEF Stalled
<1>. QED
  BY <1>2, <1>3 DEF QueueStep

LEMMA WorkersInv ==
  ASSUME MailInv, NEW w \in Workers, WorkerStep(w) \/ StopWorker(w)
  PROVE  MailInv'
<1>1. CASE Take(w)
  <2>1. PICK c \in Calls : /\ job[c].state = "waiting"
                           /\ job' = [job EXCEPT ![c].state = "active"]
                           /\ worker' = [worker EXCEPT ![w] = [step |-> "find", call |-> c]]
    BY <1>1 DEF Take
  <2>2. PICK j \in Jobs, m \in Nat : j = job[c] /\ m = mails[c]
    BY MailFacts
  <2> DEFINE here == [step |-> "find", call |-> c]
             taken == [j EXCEPT !.state = "active"]
  <2>3. here \in Held /\ here.call = c /\ here.step = "find"
    BY DEF Held
  <2>4. /\ taken \in Jobs /\ taken.state = "active"
        /\ taken.attempts = j.attempts /\ taken.stalls = j.stalls
        /\ job' = [job EXCEPT ![c] = taken]
    BY <2>1, <2>2 DEF Jobs, JobStates
  <2>5. j.attempts < Attempts /\ j.stalls <= MaxStalls
    BY <2>1, <2>2, MailFacts DEF JobInv
  <2>6. /\ UNCHANGED <<call, token, stops>> /\ worker[w] = Resting
        /\ mails' = [mails EXCEPT ![c] = m] /\ stops \in 0..MaxStops /\ m >= mails[c]
    BY <1>1, <2>2, MailFacts DEF Take
  <2>7. worker' = [worker EXCEPT ![w] = here]
    BY <2>1
  <2>. HIDE DEF here, taken
  <2>. QED
    BY <2>1, <2>3, <2>4, <2>5, <2>6, <2>7, WorkerMoves
<1>2. CASE worker[w] # Resting
  <2>1. PICK c \in Calls, j \in Jobs, m \in Nat :
           c = worker[w].call /\ j = job[c] /\ m = mails[c]
    BY <1>2, MailFacts DEF Held
  <2>2. /\ j.state = "active" /\ j.attempts < Attempts /\ j.stalls <= MaxStalls
        /\ j.attempts \in 0..Attempts /\ j.stalls \in 0..(MaxStalls + 1)
        /\ worker[w].step = "return" => m > 0 \/ c \notin Found \/ Transport = "none"
    BY <1>2, <2>1, MailFacts DEF WorkerInv, JobInv, Jobs
  <2>3. /\ m >= mails[c] /\ m + 1 >= mails[c] /\ Resting \in Held \cup {Resting}
        /\ UNCHANGED job => job' = [job EXCEPT ![c] = j]
        /\ UNCHANGED mails => mails' = [mails EXCEPT ![c] = m]
        /\ UNCHANGED stops => stops' \in 0..MaxStops
    BY <2>1, MailFacts
  <2>4. ASSUME NEW step \in {"find", "send", "return", "throw"}, Proceed(w, step)
        PROVE  /\ worker' = [worker EXCEPT ![w] = [step |-> step, call |-> c]]
               /\ [step |-> step, call |-> c] \in Held
    <3>1. worker[w] \in Held
      BY <1>2, MailFacts
    <3>2. [worker[w] EXCEPT !.step = step] = [step |-> step, call |-> c]
      BY <2>1, <3>1 DEF Held
    <3>. QED
      BY <2>4, <3>2 DEF Proceed, Held
  <2>5. CASE FindUser(w)
    <3>1. PICK step \in {"send", "return"} :
             /\ Proceed(w, step)
             /\ step = "return" => c \notin Found \/ Transport = "none"
      BY <2>1, <2>5 DEF FindUser
    <3>2. UNCHANGED <<call, token, job, mails, stops>>
      BY <2>5 DEF FindUser
    <3>. QED
      BY <1>2, <2>1, <2>2, <2>3, <2>4, <3>1, <3>2, WorkerMoves
  <2>6. CASE SendMail(w)
    <3>1. PICK step \in {"return", "throw"}, n \in {m, m + 1} :
             /\ Proceed(w, step) /\ mails' = [mails EXCEPT ![c] = n]
             /\ step = "return" => n = m + 1
      BY <2>1, <2>3, <2>6 DEF SendMail
    <3>2. UNCHANGED <<call, token, job, stops>>
      BY <2>6 DEF SendMail
    <3>3. n \in Nat /\ n >= mails[c] /\ (step = "return" => n > 0)
      BY <2>3, <3>1
    <3> DEFINE here == [step |-> step, call |-> c]
    <3>4. here \in Held /\ here.step = step /\ here.call = c /\ worker' = [worker EXCEPT ![w] = here]
      BY <2>4, <3>1
    <3>. HIDE DEF here
    <3>. QED
      BY <1>2, <2>1, <2>2, <2>3, <3>1, <3>2, <3>3, <3>4, WorkerMoves
  <2>7. CASE Completed(w)
    <3> DEFINE done == [j EXCEPT !.state = "completed"]
    <3>1. done \in Jobs /\ done.state = "completed"
      BY DEF Jobs, JobStates
    <3>2. job' = [job EXCEPT ![c] = done] /\ worker[w].step = "return"
      BY <2>1, <2>7 DEF Completed
    <3>3. UNCHANGED <<call, token, mails, stops>> /\ worker' = [worker EXCEPT ![w] = Resting]
      BY <2>7 DEF Completed
    <3>. HIDE DEF done
    <3>. QED
      BY <1>2, <2>1, <2>2, <2>3, <3>1, <3>2, <3>3, WorkerMoves
  <2>8. CASE Failed(w)
    <3> DEFINE counted == [j EXCEPT !.attempts = j.attempts + 1]
               retried == [counted EXCEPT !.state = IF j.attempts + 1 < Attempts
                                                    THEN "delayed" ELSE "failed"]
    <3>0. counted \in Jobs /\ counted.attempts = j.attempts + 1 /\ counted.stalls = j.stalls
      BY <2>2, NotificationsAssumption DEF Jobs
    <3>1. /\ retried.state = (IF j.attempts + 1 < Attempts THEN "delayed" ELSE "failed")
          /\ retried.attempts = j.attempts + 1 /\ retried.stalls = j.stalls
          /\ retried \in Jobs
      <4>. HIDE DEF counted
      <4>. QED
        BY <3>0 DEF Jobs, JobStates
    <3>2. job' = [job EXCEPT ![c] = retried]
      BY <2>1, <2>8 DEF Failed, RetriedJob
    <3>3. UNCHANGED <<call, token, mails, stops>> /\ worker' = [worker EXCEPT ![w] = Resting]
      BY <2>8 DEF Failed
    <3>. HIDE DEF retried
    <3>4. /\ retried.state \in {"delayed", "failed"} /\ retried.stalls <= MaxStalls
          /\ retried.state = "delayed" => retried.attempts < Attempts
      BY <2>2, <3>1
    <3>. QED
      BY <1>2, <2>1, <2>2, <2>3, <3>1, <3>2, <3>3, <3>4, WorkerMoves
  <2>9. CASE StopWorker(w)
    <3>1. /\ UNCHANGED <<call, token, job, mails>> /\ stops' \in 0..MaxStops
          /\ worker' = [worker EXCEPT ![w] = Resting]
      BY <2>9, MailFacts, NotificationsAssumption DEF StopWorker
    <3>. QED
      BY <1>2, <2>1, <2>2, <2>3, <3>1, WorkerMoves
  <2>10. ~Take(w)
    BY <1>2 DEF Take
  <2>. QED
    BY <2>5, <2>6, <2>7, <2>8, <2>9, <2>10 DEF WorkerStep
<1>3. CASE worker[w] = Resting /\ ~Take(w)
  BY <1>3 DEF WorkerStep, StopWorker, FindUser, SendMail, Completed, Failed, Resting
<1>. QED
  BY <1>1, <1>2, <1>3

LEMMA MailNexts == MailInv /\ [MailNext]_mailVars => MailInv'
<1>1. ASSUME MailInv, UNCHANGED mailVars PROVE MailInv'
  BY <1>1 DEF mailVars, MailInv, MailTypeOK, JobInv, WorkerInv, HeldBy, CompletedWasSent
<1>. QED
  BY <1>1, ApiInv, QueueInv, WorkersInv DEF MailNext

-----------------------------------------------------------------------------
(* The lock *)

LEMMA LockInits == LockInit => LockTypeOK
BY DEF LockInit, LockTypeOK

LEMMA LockNexts == LockTypeOK /\ [LockNext]_lockVars => LockTypeOK'
BY DEF lockVars, LockTypeOK, LockNext, AcquireLock, FinishWork, Release, StopHolder, Expire

LEMMA LockSteps ==
  ASSUME LockTypeOK, [LockNext]_lockVars, NEW h \in Holders, key = h, key' # h
  PROVE  (work[h] = "release" /\ work'[h] = "idle") \/ Expire
BY DistributedLockAssumption
   DEF lockVars, LockTypeOK, LockNext, AcquireLock, FinishWork, Release, StopHolder

-----------------------------------------------------------------------------
(* The platform *)

LEMMA PlatformNext == PlatformInv /\ [PlatformStep /\ UNCHANGED followed]_platformVars => PlatformInv'
<1> SUFFICES ASSUME PlatformInv, [PlatformStep /\ UNCHANGED followed]_platformVars PROVE PlatformInv'
  OBVIOUS
<1>1. [MailNext]_mailVars /\ [LockNext]_lockVars /\ [MigrationNext]_migrationVars
  BY DEF platformVars, PlatformStep
<1>. QED
  BY <1>1, MailNexts, LockNexts, MigrationsNext DEF PlatformInv

(* PlatformInvariant: the strengthening of the properties below; how far   *)
(* a migration run is in the list says what is recorded, a job is held by  *)
(* one worker at most, and what that worker does next says what was sent.  *)
THEOREM PlatformInvariant == PlatformSpec => []PlatformInv
<1>1. PlatformInit => PlatformInv
  BY MailInits, LockInits, MigrationsInit DEF PlatformInit, PlatformInv
<1>. QED
  BY <1>1, PlatformNext, PTL DEF PlatformSpec

(* PlatformTypes: every part keeps its type; a job's attempts and stalls   *)
(* stay within what it was queued with.                                    *)
THEOREM PlatformTypes == PlatformSpec => []PlatformTypeOK
<1>1. PlatformInv => PlatformTypeOK
  BY DEF PlatformInv, MailInv, MigrationInv, PlatformTypeOK
<1>. QED
  BY <1>1, PlatformInvariant, PTL

(* MigrationsRecordedWhenDone: whatever runs of db:migrate overlap, fail   *)
(* or stop, a recorded migration was made completely, in the list's order. *)
THEOREM MigrationsRecordedWhenDone == PlatformSpec => []RecordedIsDone
<1>1. PlatformInv => RecordedIsDone
  BY DEF PlatformInv, MigrationInv
<1>. QED
  BY <1>1, PlatformInvariant, PTL

(* CompletedJobsAreSent: a notification job that BullMQ holds as completed *)
(* sent its mail, however often it failed, stalled or changed worker.      *)
THEOREM CompletedJobsAreSent == PlatformSpec => []CompletedWasSent
<1>1. PlatformInv => CompletedWasSent
  BY DEF PlatformInv, MailInv
<1>. QED
  BY <1>1, PlatformInvariant, PTL

(* MailedTokensAreStored: a code or link goes out after its token is       *)
(* stored, so that it can be redeemed when it arrives.                     *)
THEOREM MailedTokensAreStored == PlatformSpec => []MailedIsStored
<1>1. PlatformInv => MailedIsStored
  BY DEF PlatformInv, MailInv, JobInv, MailedIsStored
<1>. QED
  BY <1>1, PlatformInvariant, PTL

(* LockKeptFromOthers: a holder of the lock loses it to its own release or *)
(* to the time to live, never to another holder's late release.            *)
THEOREM LockKeptFromOthers == PlatformSpec => OnlyOwnReleased
<1>1. ASSUME PlatformInv, [PlatformStep /\ UNCHANGED followed]_platformVars
      PROVE  [\A h \in Holders : key = h /\ key' # h =>
                 (work[h] = "release" /\ work'[h] = "idle") \/ Expire]_lockVars
  <2>1. [LockNext]_lockVars
    BY <1>1 DEF platformVars, PlatformStep
  <2>. QED
    BY <1>1, <2>1, LockSteps DEF PlatformInv
<1>. QED
  BY <1>1, PlatformInvariant, PTL DEF PlatformSpec, OnlyOwnReleased

-----------------------------------------------------------------------------
(* The form of a goods receipt *)

PageFields == {"page", "query", "hydrated", "form", "chosen", "origin", "list", "copy"}

-----------------------------------------------------------------------------
(* Forms *)

(* The functions a page, a choice and a receipt are put together from. *)
LEMMA Merged ==
  ASSUME NEW f, NEW g
  PROVE  /\ DOMAIN (f @@ g) = DOMAIN f \cup DOMAIN g
         /\ \A x \in DOMAIN f : (f @@ g)[x] = f[x]
         /\ \A x \in DOMAIN g \ DOMAIN f : (f @@ g)[x] = g[x]
BY DEF @@

LEMMA BlankForm == FormInv(EmptyForm)
BY DEF FormInv, EmptyForm, Fields, Outstanding

LEMMA CopiedForm ==
  ASSUME NEW copy, copy # Null, ReceiptInv(copy)
  PROVE  /\ FormInv(FormOf(copy))
         /\ FormOf(copy).supplier # Null
         /\ \A f \in Fields : FormOf(copy)[f] = copy[f]
<1>1. /\ copy.supplier \in Suppliers /\ copy.warehouse \in Warehouses
      /\ copy.order \in Orders \cup {Null} /\ copy.notes \in 0..1
      /\ copy.product \in Products /\ copy.location \in Locations
      /\ copy.quantity \in 1..Outstanding
      /\ copy.order # Null => WarehouseOf[copy.order] = copy.warehouse
  BY DEF ReceiptInv, Receipt
<1>2. PICK form : form = FormOf(copy)
  OBVIOUS
<1>3. DOMAIN form = Fields /\ \A f \in Fields : form[f] = copy[f]
  BY <1>2 DEF FormOf
<1>4. FormInv(form)
  BY <1>1, <1>3 DEF FormInv, Fields
<1>5. form.supplier # Null
  BY <1>1, <1>3, ReceiptFormAssumption DEF Fields
<1>. QED
  BY <1>2, <1>3, <1>4, <1>5

LEMMA PrefilledForm ==
  ASSUME NEW form, FormInv(form), NEW o \in Orders
  PROVE  /\ FormInv(Prefilled(form, o))
         /\ Prefilled(form, o).order = o
<1>1. SupplierOf(o) \in Suppliers /\ ProductOf(o) \in Products
  BY ReceiptFormAssumption DEF SupplierOf, ProductOf
<1>2. PICK s, p : s = SupplierOf(o) /\ p = ProductOf(o)
  OBVIOUS
<1>3. PICK filledIn : filledIn = Prefilled(form, o)
  OBVIOUS
<1>4. DOMAIN form = Fields
  BY DEF FormInv
<1>5. /\ DOMAIN filledIn = Fields
      /\ filledIn.supplier = s /\ filledIn.warehouse = WarehouseOf[o] /\ filledIn.order = o
      /\ filledIn.product = p /\ filledIn.location = Null /\ filledIn.quantity = Outstanding
      /\ filledIn.notes = form.notes
  BY <1>2, <1>3, <1>4 DEF Prefilled, Fields
<1>6. WarehouseOf[o] \in Warehouses
  BY ReceiptFormAssumption
<1>. QED
  BY <1>1, <1>2, <1>3, <1>5, <1>6 DEF FormInv, Outstanding

-----------------------------------------------------------------------------
(* Pages *)

(* An edit page that has just got its copy may not be filled yet. *)
Arrived(p) ==
    /\ DOMAIN p = PageFields
    /\ p.page \in {"closed", "new", "edit"}
    /\ FormInv(p.form) /\ ReceiptInv(p.copy)
    /\ p.list # Null => DOMAIN p.list \subseteq Orders
    /\ p.page = "edit" =>
        /\ p.query = Null
        /\ DOMAIN p.chosen \subseteq Fields
        /\ \A f \in DOMAIN p.chosen : p.form[f] = p.chosen[f]
        /\ p.hydrated => /\ p.copy # Null
                         /\ p.form.supplier # Null
                         /\ \A f \in Fields \ DOMAIN p.chosen : p.form[f] = p.origin[f]
        /\ ~p.hydrated => DOMAIN p.chosen = {}

LEMMA PageDomain == DOMAIN Closed \cup {"list", "copy"} = PageFields
BY DEF Closed, PageFields

LEMMA TabArrived ==
  ASSUME NEW p, TabInv(p)
  PROVE  Arrived(p)
BY PageDomain DEF TabInv, EditInv, Arrived

(* The effect fills the form of every page that can be filled. *)
LEMMA Hydrated ==
  ASSUME NEW p, Arrived(p)
  PROVE  TabInv(Hydrate(p))
<1>1. CASE ~Ready(p)
  <2>1. Hydrate(p) = p
    BY <1>1 DEF Hydrate
  <2>2. p.page = "edit" => (p.hydrated <=> p.copy # Null)
    BY <1>1 DEF Ready, Arrived
  <2>. QED
    BY <2>1, <2>2, PageDomain DEF TabInv, EditInv, Arrived
<1>2. CASE Ready(p)
  <2>1. PICK form : form = IF p.page = "edit" THEN FormOf(p.copy)
                           ELSE IF p.query # Null /\ p.query \in DOMAIN p.list
                                THEN Prefilled(p.form, p.query)
                                ELSE EmptyForm
    OBVIOUS
  <2>2. PICK q : q = [p EXCEPT !.hydrated = TRUE, !.origin = p.copy, !.form = form]
    OBVIOUS
  <2>3. Hydrate(p) = q
    BY <1>2, <2>1, <2>2 DEF Hydrate
  <2>4. DOMAIN p = PageFields
    BY DEF Arrived
  <2>5. /\ DOMAIN q = PageFields
        /\ q.hydrated = TRUE /\ q.origin = p.copy /\ q.form = form
        /\ q.page = p.page /\ q.query = p.query /\ q.chosen = p.chosen
        /\ q.list = p.list /\ q.copy = p.copy
    BY <2>2, <2>4 DEF PageFields
  <2>6. FormInv(form)
    <3>1. CASE p.page = "edit"
      BY <1>2, <2>1, <3>1, CopiedForm DEF Ready, Arrived
    <3>2. CASE p.page # "edit" /\ p.query # Null /\ p.query \in DOMAIN p.list
      <4>1. p.query \in Orders
        BY <1>2, <3>2 DEF Ready, Arrived
      <4>. QED
        BY <2>1, <3>2, <4>1, PrefilledForm DEF Arrived
    <3>3. CASE p.page # "edit" /\ ~(p.query # Null /\ p.query \in DOMAIN p.list)
      BY <2>1, <3>3, BlankForm
    <3>. QED
      BY <3>1, <3>2, <3>3
  <2>7. ASSUME p.page = "edit"
        PROVE  EditInv(q)
    <3>1. p.copy # Null /\ ReceiptInv(p.copy) /\ p.query = Null /\ DOMAIN p.chosen = {}
      BY <1>2, <2>7 DEF Ready, Arrived
    <3>2. form = FormOf(p.copy)
      BY <2>1, <2>7
    <3>3. form.supplier # Null /\ \A f \in Fields : form[f] = p.copy[f]
      BY <3>1, <3>2, CopiedForm
    <3>. QED
      BY <2>5, <3>1, <3>3 DEF EditInv
  <2>8. /\ q.page \in {"closed", "new", "edit"} /\ ReceiptInv(q.copy)
        /\ q.list # Null => DOMAIN q.list \subseteq Orders
    BY <2>5 DEF Arrived
  <2>. QED
    BY <2>3, <2>5, <2>6, <2>7, <2>8, PageDomain DEF TabInv
<1>. QED
  BY <1>1, <1>2

(* A page that is left or just opened keeps only the answers. *)
LEMMA ClosedPage ==
  ASSUME NEW p, TabInv(p)
  PROVE  TabInv(Closed @@ p) /\ (Closed @@ p).page = "closed"
<1>1. PICK q : q = Closed @@ p
  OBVIOUS
<1>2. /\ DOMAIN q = DOMAIN Closed \cup DOMAIN p
      /\ \A x \in DOMAIN Closed : q[x] = Closed[x]
      /\ \A x \in DOMAIN p \ DOMAIN Closed : q[x] = p[x]
  <2>1. /\ DOMAIN (Closed @@ p) = DOMAIN Closed \cup DOMAIN p
        /\ \A x \in DOMAIN Closed : (Closed @@ p)[x] = Closed[x]
        /\ \A x \in DOMAIN p \ DOMAIN Closed : (Closed @@ p)[x] = p[x]
    BY Merged
  <2>. QED
    BY <1>1, <2>1
<1>3. DOMAIN q = PageFields
  BY <1>2, PageDomain DEF TabInv
<1>4. q.page = "closed" /\ q.form = EmptyForm /\ q.list = p.list /\ q.copy = p.copy
  <2>1. DOMAIN Closed = {"page", "query", "hydrated", "form", "chosen", "origin"}
    BY DEF Closed
  <2>2. Closed.page = "closed" /\ Closed.form = EmptyForm
    BY DEF Closed
  <2>3. DOMAIN p = PageFields
    BY PageDomain DEF TabInv
  <2>. QED
    BY <1>2, <2>1, <2>2, <2>3 DEF PageFields
<1>. QED
  BY <1>1, <1>3, <1>4, BlankForm, PageDomain DEF TabInv

LEMMA OpenedPage ==
  ASSUME NEW p, TabInv(p), NEW page,
         "page" \in DOMAIN page, DOMAIN page \subseteq {"page", "query"},
         page.page \in {"new", "edit"},
         page.page = "edit" => "query" \notin DOMAIN page
  PROVE  Arrived(page @@ Closed @@ p)
<1>1. PICK q : q = page @@ Closed @@ p
  OBVIOUS
<1>2. /\ DOMAIN q = DOMAIN page \cup DOMAIN Closed \cup DOMAIN p
      /\ \A x \in DOMAIN page : q[x] = page[x]
      /\ \A x \in DOMAIN Closed \ DOMAIN page : q[x] = Closed[x]
      /\ \A x \in DOMAIN p \ (DOMAIN page \cup DOMAIN Closed) : q[x] = p[x]
  <2>1. PICK closed : closed = Closed
    OBVIOUS
  <2>2. q = page @@ closed @@ p
    BY <1>1, <2>1
  <2>. QED
    BY <2>1, <2>2 DEF @@
<1>3. /\ DOMAIN Closed = {"page", "query", "hydrated", "form", "chosen", "origin"}
      /\ Closed.form = EmptyForm /\ Closed.query = Null /\ Closed.chosen = Nothing
      /\ Closed.hydrated = FALSE
  BY DEF Closed
<1>4. DOMAIN p = PageFields
  BY PageDomain DEF TabInv
<1>5. /\ DOMAIN q = PageFields
      /\ q.page = page.page /\ q.form = EmptyForm /\ q.chosen = Nothing /\ q.hydrated = FALSE
      /\ q.list = p.list /\ q.copy = p.copy
      /\ q.page = "edit" => q.query = Null
  BY <1>2, <1>3, <1>4 DEF PageFields
<1>6. DOMAIN Nothing = {}
  BY DEF Nothing
<1>7. ReceiptInv(p.copy) /\ (p.list # Null => DOMAIN p.list \subseteq Orders)
  BY DEF TabInv
<1>8. Arrived(q)
  BY <1>5, <1>6, <1>7, BlankForm DEF Arrived
<1>. QED
  BY <1>1, <1>8

-----------------------------------------------------------------------------
(* The steps of a tab *)

LEMMA OneTab ==
  ASSUME ReceiptFormInv, NEW t \in Tabs, NEW p, TabInv(p), tab' = [tab EXCEPT ![t] = p],
         ReceiptInv(receipt'), orders' = orders
  PROVE  ReceiptFormInv'
<1>1. DOMAIN tab' = Tabs /\ \A s \in Tabs : tab'[s] = IF s = t THEN p ELSE tab[s]
  BY DEF ReceiptFormInv
<1>2. \A s \in Tabs : TabInv(tab'[s])
  BY <1>1 DEF ReceiptFormInv
<1>. QED
  BY <1>1, <1>2 DEF ReceiptFormInv

LEMMA Answered ==
  ASSUME ReceiptFormInv, NEW t \in Tabs, ReceiveOrders(t) \/ ReceiveReceipt(t)
  PROVE  ReceiptFormInv'
<1>1. PICK p : p = tab[t]
  OBVIOUS
<1>2. TabInv(p) /\ Arrived(p)
  BY <1>1, TabArrived DEF ReceiptFormInv
<1>3. DOMAIN p = PageFields
  BY <1>2 DEF Arrived
<1>4. ReceiptInv(receipt)
  BY DEF ReceiptFormInv
<1>5. CASE ReceiveOrders(t)
  <2>1. PICK q : q = [p EXCEPT !.list = orders]
    OBVIOUS
  <2>2. /\ DOMAIN q = PageFields /\ q.list = orders
        /\ \A x \in PageFields \ {"list"} : q[x] = p[x]
    BY <1>3, <2>1 DEF PageFields
  <2>3. DOMAIN orders \subseteq Orders
    BY DEF ReceiptFormInv
  <2>4. Arrived(q)
    BY <1>2, <2>2, <2>3 DEF Arrived, PageFields
  <2>5. TabInv(Hydrate(q))
    BY <2>4, Hydrated
  <2>6. tab' = [tab EXCEPT ![t] = Hydrate(q)] /\ receipt' = receipt /\ orders' = orders
    BY <1>1, <1>5, <2>1 DEF ReceiveOrders
  <2>. QED
    BY <1>4, <2>5, <2>6, OneTab
<1>6. CASE ReceiveReceipt(t)
  <2>1. PICK q : q = [p EXCEPT !.copy = receipt]
    OBVIOUS
  <2>2. /\ DOMAIN q = PageFields /\ q.copy = receipt
        /\ \A x \in PageFields \ {"copy"} : q[x] = p[x]
    BY <1>3, <2>1 DEF PageFields
  <2>3. receipt # Null
    BY <1>6 DEF ReceiveReceipt
  <2>4. Arrived(q)
    BY <1>2, <1>4, <2>2, <2>3 DEF Arrived, PageFields
  <2>5. TabInv(Hydrate(q))
    BY <2>4, Hydrated
  <2>6. tab' = [tab EXCEPT ![t] = Hydrate(q)] /\ receipt' = receipt /\ orders' = orders
    BY <1>1, <1>6, <2>1 DEF ReceiveReceipt
  <2>. QED
    BY <1>4, <2>5, <2>6, OneTab
<1>. QED
  BY <1>5, <1>6

LEMMA Opened ==
  ASSUME ReceiptFormInv, NEW t \in Tabs, OpenEdit(t) \/ \E o : OpenNew(t, o)
  PROVE  ReceiptFormInv'
<1>1. PICK p : p = tab[t]
  OBVIOUS
<1>2. TabInv(p)
  BY <1>1 DEF ReceiptFormInv
<1>3. PICK page : /\ page = [page |-> "edit"] \/ \E o : page = [page |-> "new", query |-> o]
                  /\ Visit(t, page)
  BY Zenon DEF OpenEdit, OpenNew
<1>4. /\ "page" \in DOMAIN page /\ DOMAIN page \subseteq {"page", "query"}
      /\ page.page \in {"new", "edit"}
      /\ page.page = "edit" => "query" \notin DOMAIN page
  BY <1>3
<1>5. PICK q : q = page @@ Closed @@ p
  OBVIOUS
<1>6. TabInv(Hydrate(q))
  BY <1>2, <1>4, <1>5, OpenedPage, Hydrated
<1>7. tab' = [tab EXCEPT ![t] = Hydrate(q)] /\ receipt' = receipt /\ orders' = orders
  BY <1>1, <1>3, <1>5 DEF Visit
<1>8. ReceiptInv(receipt')
  BY <1>7 DEF ReceiptFormInv
<1>. QED
  BY <1>6, <1>7, <1>8, OneTab

LEMMA Left ==
  ASSUME ReceiptFormInv, NEW t \in Tabs, Cancel(t)
  PROVE  ReceiptFormInv'
<1>1. TabInv(Closed @@ tab[t])
  BY ClosedPage DEF ReceiptFormInv
<1>2. tab' = [tab EXCEPT ![t] = Closed @@ tab[t]] /\ receipt' = receipt /\ orders' = orders
  BY DEF Cancel
<1>3. ReceiptInv(receipt')
  BY <1>2 DEF ReceiptFormInv
<1>. QED
  BY <1>1, <1>2, <1>3, OneTab

(* A choice of some fields.  A form to be edited changes nowhere else. *)
LEMMA Chosen ==
  ASSUME ReceiptFormInv, NEW t \in Tabs, NEW choice, NEW form, Choose(t, choice, form),
         DOMAIN choice \subseteq Fields, FormInv(form),
         tab[t].page = "edit" =>
             /\ form.supplier # Null
             /\ \A f \in DOMAIN choice : form[f] = choice[f]
             /\ \A f \in Fields \ DOMAIN choice : form[f] = tab[t].form[f]
  PROVE  ReceiptFormInv'
<1>1. PICK p : p = tab[t]
  OBVIOUS
<1>2. TabInv(p) /\ DOMAIN p = PageFields
  BY <1>1, PageDomain DEF ReceiptFormInv, TabInv
<1>3. PICK chosen : chosen = choice @@ p.chosen
  OBVIOUS
<1>4. /\ DOMAIN chosen = DOMAIN choice \cup DOMAIN p.chosen
      /\ \A f \in DOMAIN choice : chosen[f] = choice[f]
      /\ \A f \in DOMAIN p.chosen \ DOMAIN choice : chosen[f] = p.chosen[f]
  BY <1>3 DEF @@
<1>5. PICK p1 : p1 = [p EXCEPT !.chosen = chosen]
  OBVIOUS
<1>6. /\ DOMAIN p1 = PageFields /\ p1.chosen = chosen
      /\ \A x \in PageFields \ {"chosen"} : p1[x] = p[x]
  BY <1>2, <1>5 DEF PageFields
<1>7. PICK q : q = [p1 EXCEPT !.form = form]
  OBVIOUS
<1>8. /\ DOMAIN q = PageFields /\ q.form = form
      /\ \A x \in PageFields \ {"form"} : q[x] = p1[x]
  BY <1>6, <1>7 DEF PageFields
<1>9. /\ q.chosen = chosen /\ q.page = p.page /\ q.query = p.query /\ q.hydrated = p.hydrated
      /\ q.origin = p.origin /\ q.list = p.list /\ q.copy = p.copy
  BY <1>6, <1>8 DEF PageFields
<1>10. tab' = [tab EXCEPT ![t] = q] /\ receipt' = receipt /\ orders' = orders
  <2>1. /\ tab' = [tab EXCEPT ![t].chosen = choice @@ @, ![t].form = form]
        /\ receipt' = receipt /\ orders' = orders
    BY DEF Choose
  <2>2. DOMAIN tab = Tabs
    BY DEF ReceiptFormInv
  <2>3. tab' = [[tab EXCEPT ![t] = p1] EXCEPT ![t].form = form]
    BY <1>1, <1>3, <1>5, <2>1, <2>2
  <2>. QED
    BY <1>7, <2>1, <2>2, <2>3
<1>11. Shown(t)
  BY DEF Choose
<1>12. ASSUME p.page = "edit"
       PROVE  EditInv(q)
  <2>1. p.copy # Null
    BY <1>1, <1>11, <1>12 DEF Shown
  <2>2. EditInv(p) /\ p.hydrated
    BY <1>2, <1>12, <2>1 DEF TabInv, EditInv
  <2>3. /\ form.supplier # Null
        /\ \A f \in DOMAIN choice : form[f] = choice[f]
        /\ \A f \in Fields \ DOMAIN choice : form[f] = p.form[f]
    BY <1>1, <1>12
  <2>4. DOMAIN chosen \subseteq Fields /\ \A f \in DOMAIN chosen : form[f] = chosen[f]
    BY <1>4, <2>2, <2>3 DEF EditInv
  <2>5. \A f \in Fields \ DOMAIN chosen : form[f] = p.origin[f]
    BY <1>4, <2>2, <2>3 DEF EditInv
  <2>. QED
    BY <1>8, <1>9, <2>1, <2>2, <2>3, <2>4, <2>5 DEF EditInv
<1>13. TabInv(q)
  BY <1>2, <1>8, <1>9, <1>12, PageDomain DEF TabInv
<1>14. ReceiptInv(receipt')
  BY <1>10 DEF ReceiptFormInv
<1>. QED
  BY <1>10, <1>13, <1>14, OneTab

LEMMA Changed ==
  ASSUME ReceiptFormInv, NEW t \in Tabs, NEW f \in Fields, NEW v, Change(t, f, v),
         FormInv([tab[t].form EXCEPT ![f] = v]),
         f = "supplier" => v # Null
  PROVE  ReceiptFormInv'
<1>1. PICK form : form = [tab[t].form EXCEPT ![f] = v]
  OBVIOUS
<1>2. PICK choice : choice = f :> v
  OBVIOUS
<1>3. Choose(t, choice, form) /\ FormInv(form)
  BY <1>1, <1>2 DEF Change
<1>4. DOMAIN choice = {f} /\ choice[f] = v
  BY <1>2 DEF :>
<1>5. TabInv(tab[t])
  BY DEF ReceiptFormInv
<1>6. DOMAIN tab[t].form = Fields
  BY <1>5 DEF TabInv, FormInv
<1>7. form[f] = v /\ \A g \in Fields \ {f} : form[g] = tab[t].form[g]
  BY <1>1, <1>6
<1>8. ASSUME tab[t].page = "edit"
      PROVE  form.supplier # Null
  <2>1. tab[t].copy # Null
    BY <1>3, <1>8 DEF Choose, Shown
  <2>2. tab[t].form.supplier # Null
    BY <1>5, <1>8, <2>1 DEF TabInv, EditInv
  <2>3. CASE f = "supplier"
    BY <1>7, <2>3
  <2>4. CASE f # "supplier"
    BY <1>7, <2>2, <2>4 DEF Fields
  <2>. QED
    BY <2>3, <2>4
<1>. QED
  BY <1>3, <1>4, <1>7, <1>8, Chosen

LEMMA Inputs ==
  ASSUME ReceiptFormInv, NEW t \in Tabs, Input(t)
  PROVE  ReceiptFormInv'
<1>1. PICK form : form = tab[t].form
  OBVIOUS
<1>2. FormInv(form) /\ DOMAIN form = Fields
  BY <1>1 DEF ReceiptFormInv, TabInv, FormInv
<1>3. CASE updateLine(t)
  <2>1. ASSUME NEW p \in Products, Change(t, "product", p)
        PROVE  ReceiptFormInv'
    <3>1. FormInv([form EXCEPT !.product = p])
      BY <1>2 DEF FormInv, Fields
    <3>. QED
      BY <1>1, <2>1, <3>1, Changed DEF Fields
  <2>2. ASSUME Change(t, "quantity", Outstanding)
        PROVE  ReceiptFormInv'
    <3>1. FormInv([form EXCEPT !.quantity = Outstanding])
      BY <1>2 DEF FormInv, Fields, Outstanding
    <3>. QED
      BY <1>1, <2>2, <3>1, Changed DEF Fields
  <2>3. ASSUME NEW l \in Locations, Change(t, "location", l)
        PROVE  ReceiptFormInv'
    <3>1. FormInv([form EXCEPT !.location = l])
      BY <1>2 DEF FormInv, Fields
    <3>. QED
      BY <1>1, <2>3, <3>1, Changed DEF Fields
  <2>. QED
    BY <1>3, <2>1, <2>2, <2>3 DEF updateLine
<1>4. CASE EditDetails(t)
  <2>1. ASSUME Change(t, "notes", 1)
        PROVE  ReceiptFormInv'
    <3>1. FormInv([form EXCEPT !.notes = 1])
      BY <1>2 DEF FormInv, Fields
    <3>. QED
      BY <1>1, <2>1, <3>1, Changed DEF Fields
  <2>2. ASSUME NEW s \in Suppliers, Change(t, "supplier", s)
        PROVE  ReceiptFormInv'
    <3>1. FormInv([form EXCEPT !.supplier = s])
      BY <1>2 DEF FormInv, Fields
    <3>2. s # Null
      BY ReceiptFormAssumption
    <3>. QED
      BY <1>1, <2>2, <3>1, <3>2, Changed DEF Fields
  <2>. QED
    BY <1>4, <2>1, <2>2 DEF EditDetails
<1>5. CASE UnlinkOrder(t)
  <2>1. FormInv([form EXCEPT !.order = Null])
    BY <1>2 DEF FormInv, Fields
  <2>. QED
    BY <1>1, <1>5, <2>1, Changed DEF Fields, UnlinkOrder
<1>6. ASSUME NEW w \in Warehouses, SelectWarehouse(t, w)
      PROVE  ReceiptFormInv'
  <2>1. PICK new : new = [form EXCEPT !.warehouse = w, !.order = Null]
    OBVIOUS
  <2>2. PICK choice : choice = "warehouse" :> w @@ "order" :> Null
    OBVIOUS
  <2>3. Choose(t, choice, new)
    BY <1>1, <1>6, <2>1, <2>2 DEF SelectWarehouse
  <2>4. /\ DOMAIN choice = {"warehouse", "order"}
        /\ choice["warehouse"] = w /\ choice["order"] = Null
    BY <2>2 DEF @@, :>
  <2>5. /\ DOMAIN new = Fields /\ new["warehouse"] = w /\ new["order"] = Null
        /\ \A f \in Fields \ {"warehouse", "order"} : new[f] = form[f]
    BY <1>2, <2>1 DEF Fields
  <2>6. FormInv(new)
    BY <1>2, <2>5 DEF FormInv, Fields
  <2>7. ASSUME tab[t].page = "edit"
        PROVE  new.supplier # Null
    <3>1. tab[t].copy # Null
      BY <2>3, <2>7 DEF Choose, Shown
    <3>2. form.supplier # Null
      BY <1>1, <2>7, <3>1 DEF ReceiptFormInv, TabInv, EditInv
    <3>. QED
      BY <2>5, <3>2 DEF Fields
  <2>8. DOMAIN choice \subseteq Fields
    BY <2>4 DEF Fields
  <2>. QED
    BY <1>1, <2>3, <2>4, <2>5, <2>6, <2>7, <2>8, Chosen
<1>7. ASSUME NEW o \in Orders, SelectOrder(t, o)
      PROVE  ReceiptFormInv'
  <2>1. PICK new : new = IF isFormUntouched(form) THEN Prefilled(form, o)
                         ELSE [form EXCEPT !.order = o]
    OBVIOUS
  <2>2. PICK choice : choice = "order" :> o
    OBVIOUS
  <2>3. Choose(t, choice, new) /\ form.warehouse \in {Null, WarehouseOf[o]}
    BY <1>1, <1>7, <2>1, <2>2 DEF SelectOrder, EligiblePurchaseOrders
  <2>4. DOMAIN choice = {"order"} /\ choice["order"] = o
    BY <2>2 DEF :>
  <2>5. FormInv(new)
    <3>1. CASE isFormUntouched(form)
      BY <1>2, <2>1, <3>1, PrefilledForm
    <3>2. CASE ~isFormUntouched(form)
      <4>1. FormInv([form EXCEPT !.order = o])
        BY <1>2, <2>3 DEF FormInv, Fields
      <4>. QED
        BY <2>1, <3>2, <4>1
    <3>. QED
      BY <3>1, <3>2
  <2>6. ASSUME tab[t].page = "edit"
        PROVE  /\ new.supplier # Null /\ new["order"] = o
               /\ \A f \in Fields \ {"order"} : new[f] = form[f]
    <3>1. tab[t].copy # Null
      BY <2>3, <2>6 DEF Choose, Shown
    <3>2. form.supplier # Null
      BY <1>1, <2>6, <3>1 DEF ReceiptFormInv, TabInv, EditInv
    <3>3. new = [form EXCEPT !.order = o]
      BY <2>1, <3>2 DEF isFormUntouched
    <3>. QED
      BY <1>2, <3>2, <3>3 DEF Fields
  <2>7. DOMAIN choice \subseteq Fields
    BY <2>4 DEF Fields
  <2>. QED
    BY <1>1, <2>3, <2>4, <2>5, <2>6, <2>7, Chosen
<1>. QED
  BY <1>3, <1>4, <1>5, <1>6, <1>7 DEF Input

-----------------------------------------------------------------------------
(* Saving *)

(* What is saved: the form, and that the receipt is a draft. *)
LEMMA SavedReceipt ==
  ASSUME NEW t \in Tabs, Save(t), DOMAIN tab[t].form = Fields
  PROVE  \A f \in Fields : receipt'[f] = tab[t].form[f]
BY DEF Save, @@

LEMMA SavedInv ==
  ASSUME ReceiptFormInv, NEW t \in Tabs, Save(t)
  PROVE  ReceiptInv(receipt')
<1>1. PICK form : form = tab[t].form
  OBVIOUS
<1>2. FormInv(form)
  BY <1>1 DEF ReceiptFormInv, TabInv
<1>3. PICK r : r = form @@ [status |-> "draft"]
  OBVIOUS
<1>4. Complete(form) /\ ItemsResolved(form) /\ receipt' = r
  BY <1>1, <1>3 DEF Save
<1>5. form.supplier # Null /\ form.warehouse # Null /\ form.product # Null /\ form.location # Null
  BY <1>4 DEF Complete
<1>6. /\ form.supplier \in Suppliers /\ form.warehouse \in Warehouses
      /\ form.order \in Orders \cup {Null} /\ form.notes \in 0..1
      /\ form.product \in Products /\ form.location \in Locations
      /\ form.quantity \in 1..Outstanding
      /\ form.order # Null => WarehouseOf[form.order] = form.warehouse
  BY <1>2, <1>5 DEF FormInv
<1>7. r = [supplier |-> form.supplier, warehouse |-> form.warehouse, order |-> form.order,
           notes |-> form.notes, product |-> form.product, location |-> form.location,
           quantity |-> form.quantity, status |-> "draft"]
  <2>1. DOMAIN form = Fields
    BY <1>2 DEF FormInv
  <2>. QED
    BY <1>3, <2>1 DEF @@, Fields
<1>8. r \in Receipt
  BY <1>6, <1>7 DEF Receipt
<1>. QED
  BY <1>4, <1>6, <1>7, <1>8 DEF ReceiptInv, ItemsResolved

LEMMA SavedTab ==
  ASSUME ReceiptFormInv, NEW t \in Tabs, Save(t)
  PROVE  ReceiptFormInv'
<1>1. ReceiptInv(receipt')
  BY SavedInv
<1>2. TabInv(Closed @@ tab[t])
  BY ClosedPage DEF ReceiptFormInv
<1>3. tab' = [tab EXCEPT ![t] = Closed @@ tab[t]] /\ orders' = orders
  BY DEF Save
<1>. QED
  BY <1>1, <1>2, <1>3, OneTab

LEMMA Verified ==
  ASSUME ReceiptFormInv, Verify
  PROVE  ReceiptFormInv'
<1>1. PICK r : r = receipt
  OBVIOUS
<1>2. r \in Receipt /\ ReceiptInv(r)
  BY <1>1 DEF ReceiptFormInv, ReceiptInv, Verify
<1>3. PICK q : q = [r EXCEPT !.status = "verified"]
  OBVIOUS
<1>4. /\ q \in Receipt /\ q.order = r.order /\ q.warehouse = r.warehouse
      /\ q.location = r.location
  BY <1>2, <1>3 DEF Receipt
<1>5. r # Null /\ receipt' = q /\ orders' = orders /\ tab' = tab
  BY <1>1, <1>3 DEF Verify
<1>6. ReceiptInv(receipt')
  BY <1>2, <1>4, <1>5 DEF ReceiptInv
<1>. QED
  BY <1>5, <1>6 DEF ReceiptFormInv

LEMMA OrderMoved ==
  ASSUME ReceiptFormInv, NEW o \in Orders, MoveOrder(o)
  PROVE  ReceiptFormInv'
<1>1. PICK was : was = orders
  OBVIOUS
<1>2. PICK status \in {"approved", "closed"} : orders' = o :> status @@ was
  BY <1>1 DEF MoveOrder
<1>3. /\ DOMAIN orders' = {o} \cup DOMAIN was
      /\ \A x \in DOMAIN orders' : orders'[x] = IF x = o THEN status ELSE was[x]
  BY <1>2 DEF @@, :>
<1>4. receipt' = receipt /\ tab' = tab
  BY DEF MoveOrder
<1>5. DOMAIN was \subseteq Orders /\ \A x \in DOMAIN was : was[x] \in {"approved", "closed"}
  BY <1>1 DEF ReceiptFormInv
<1>6. /\ DOMAIN orders' \subseteq Orders
      /\ \A x \in DOMAIN orders' : orders'[x] \in {"approved", "closed"}
  BY <1>3, <1>5
<1>. QED
  BY <1>4, <1>6 DEF ReceiptFormInv

-----------------------------------------------------------------------------
(* The inductive invariant *)

LEMMA FormStart ==
  ASSUME FormInit
  PROVE  ReceiptFormInv
<1>1. PICK p : p = Closed @@ [list |-> Null, copy |-> Null]
  OBVIOUS
<1>2. /\ DOMAIN Closed = {"page", "query", "hydrated", "form", "chosen", "origin"}
      /\ Closed.page = "closed" /\ Closed.form = EmptyForm
  BY DEF Closed
<1>3. /\ DOMAIN p = PageFields /\ p.page = "closed" /\ p.form = EmptyForm
      /\ p.list = Null /\ p.copy = Null
  <2>1. PICK closed : closed = Closed
    OBVIOUS
  <2>2. p = closed @@ [list |-> Null, copy |-> Null]
    BY <1>1, <2>1
  <2>. QED
    BY <1>2, <2>1, <2>2 DEF @@, PageFields
<1>4. TabInv(p)
  BY <1>3, BlankForm, PageDomain DEF TabInv, ReceiptInv
<1>5. tab = [t \in Tabs |-> p] /\ receipt = Null /\ orders = Nothing
  BY <1>1 DEF FormInit
<1>6. DOMAIN orders = {}
  BY <1>5 DEF Nothing
<1>. QED
  BY <1>4, <1>5, <1>6 DEF ReceiptFormInv, ReceiptInv

LEMMA FormStep ==
  ASSUME ReceiptFormInv, [FormNext /\ UNCHANGED filled]_formVars
  PROVE  ReceiptFormInv'
<1>1. ASSUME NEW t \in Tabs,
             \/ ReceiveOrders(t) \/ ReceiveReceipt(t)
             \/ OpenEdit(t) \/ \E o \in DOMAIN orders \cup {Null} : OpenNew(t, o)
             \/ Cancel(t) \/ Input(t) \/ Save(t)
      PROVE  ReceiptFormInv'
  BY <1>1, Answered, Opened, Left, Inputs, SavedTab
<1>2. CASE Verify
  BY <1>2, Verified
<1>3. ASSUME NEW o \in Orders, MoveOrder(o)
      PROVE  ReceiptFormInv'
  BY <1>3, OrderMoved
<1>4. CASE UNCHANGED formVars
  BY <1>4 DEF formVars, ReceiptFormInv
<1>. QED
  BY <1>1, <1>2, <1>3, <1>4 DEF FormNext

(* The inductive invariant of the form: a linked order is always of the    *)
(* form's warehouse, and an edit form holds what was chosen and, elsewhere, *)
(* what it was filled from.                                                *)
THEOREM ReceiptFormInvariant == FormSpec => []ReceiptFormInv
BY FormStart, FormStep, PTL DEF FormSpec

-----------------------------------------------------------------------------
(* What the runs check *)

(* The types of the receipt, of the orders' statuses and of every copy; an *)
(* edit form that was filled has a supplier.                               *)
THEOREM ReceiptFormTypes == FormSpec => []FormTypeOK
<1>1. ASSUME ReceiptFormInv
      PROVE  FormTypeOK
  <2>1. receipt \in Receipt \cup {Null}
    BY <1>1 DEF ReceiptFormInv, ReceiptInv
  <2>2. \A o \in DOMAIN orders : o \in Orders /\ orders[o] \in {"approved", "closed"}
    BY <1>1 DEF ReceiptFormInv
  <2>3. ASSUME NEW t \in Tabs
        PROVE  /\ tab[t].copy \in Receipt \cup {Null}
               /\ tab[t].page = "edit" /\ tab[t].hydrated => tab[t].form.supplier # Null
    BY <1>1, <2>3 DEF ReceiptFormInv, TabInv, EditInv, ReceiptInv
  <2>. QED
    BY <2>1, <2>2, <2>3 DEF FormTypeOK
<1>. QED
  BY ReceiptFormInvariant, <1>1, PTL

(* Whatever is chosen, in however many tabs and from however old a list, a *)
(* saved receipt is for the warehouse of the order it is linked to, though *)
(* the server does not check that when a receipt is updated.               *)
THEOREM LinkedToItsWarehouse == FormSpec => []LinkedOrderIsOfWarehouse
<1>1. ReceiptFormInv => LinkedOrderIsOfWarehouse
  BY DEF ReceiptFormInv, ReceiptInv, LinkedOrderIsOfWarehouse
<1>. QED
  BY ReceiptFormInvariant, <1>1, PTL

(* No answer and no later choice takes back what was filled in by hand in  *)
(* an edit form.                                                           *)
THEOREM TypingSurvives == FormSpec => []EditKeepsTyping
<1>1. ReceiptFormInv => EditKeepsTyping
  BY DEF ReceiptFormInv, TabInv, EditInv, EditKeepsTyping, TypingKept
<1>. QED
  BY ReceiptFormInvariant, <1>1, PTL

(* A save is the only step that closes an edit page and changes the        *)
(* receipt.                                                                *)
LEMMA OnlySaved ==
  ASSUME ReceiptFormInv, [FormNext /\ UNCHANGED filled]_formVars, NEW t \in Tabs, Saved(t)
  PROVE  Save(t)
<1>1. receipt' # receipt /\ tab[t].page = "edit" /\ tab'[t].page = "closed" /\ tab[t] # tab'[t]
  BY DEF Saved
<1>2. ASSUME NEW s \in Tabs, Save(s)
      PROVE  s = t
  <2>1. tab' = [tab EXCEPT ![s] = Closed @@ tab[s]] /\ DOMAIN tab = Tabs
    BY <1>2 DEF Save, ReceiptFormInv
  <2>. QED
    BY <1>1, <2>1
<1>3. ASSUME NEW s \in Tabs,
             \/ ReceiveOrders(s) \/ ReceiveReceipt(s)
             \/ OpenEdit(s) \/ \E o \in DOMAIN orders \cup {Null} : OpenNew(s, o)
             \/ Cancel(s)
      PROVE  FALSE
  BY <1>1, <1>3, Zenon DEF ReceiveOrders, ReceiveReceipt, OpenEdit, OpenNew, Visit, Cancel
<1>4. ASSUME NEW s \in Tabs, Input(s)
      PROVE  FALSE
  <2>1. PICK choice, form : Choose(s, choice, form)
    BY <1>4, Zenon DEF Input, updateLine, EditDetails, UnlinkOrder, SelectWarehouse,
                       SelectOrder, Change
  <2>. QED
    BY <1>1, <2>1 DEF Choose
<1>5. CASE Verify
  BY <1>1, <1>5 DEF Verify
<1>6. ASSUME NEW o \in Orders, MoveOrder(o)
      PROVE  FALSE
  BY <1>1, <1>6 DEF MoveOrder
<1>7. CASE UNCHANGED formVars
  BY <1>1, <1>7 DEF formVars
<1>. QED
  BY <1>2, <1>3, <1>4, <1>5, <1>6, <1>7 DEF FormNext

(* A form filled from the receipt as it still is changes, when it is       *)
(* saved, only what was filled in by hand, although it sends every field.  *)
THEOREM FreshSaves == FormSpec => FreshSaveKeepsTheRest
<1>1. ASSUME ReceiptFormInv, [FormNext /\ UNCHANGED filled]_formVars, NEW t \in Tabs,
             Saved(t), tab[t].origin = receipt
      PROVE  OnlyChosenChanged(t)
  <2>1. Save(t) /\ tab[t].page = "edit"
    BY <1>1, OnlySaved DEF Saved
  <2>2. TabInv(tab[t])
    BY <1>1 DEF ReceiptFormInv
  <2>3. EditInv(tab[t]) /\ DOMAIN tab[t].form = Fields
    BY <2>1, <2>2 DEF TabInv, FormInv
  <2>4. tab[t].copy # Null
    BY <2>1 DEF Save, Shown
  <2>5. \A f \in Fields \ DOMAIN tab[t].chosen : tab[t].form[f] = receipt[f]
    BY <1>1, <2>3, <2>4 DEF EditInv
  <2>6. \A f \in Fields : receipt'[f] = tab[t].form[f]
    BY <2>1, <2>3, SavedReceipt
  <2>. QED
    BY <2>5, <2>6 DEF OnlyChosenChanged
<1>2. ReceiptFormInv /\ [FormNext /\ UNCHANGED filled]_formVars =>
          [\A t \in Tabs : Saved(t) /\ tab[t].origin = receipt => OnlyChosenChanged(t)]_formVars
  BY <1>1
<1>. QED
  BY ReceiptFormInvariant, <1>2, PTL DEF FormSpec, FreshSaveKeepsTheRest
=============================================================================
