------------------------------ MODULE Identity ------------------------------
(***************************************************************************)
(* One account and those who use it at the same time: people signing in    *)
(* (with a second factor or without), resetting and changing the password,   *)
(* an administrator, and the requests that keep sessions alive             *)
(* (apps/api/src/modules/identity, shared/security/requireAuth.ts).        *)
(*                                                                         *)
(* Every service reads a document, decides, and saves it later.  A save of *)
(* mongoose writes the paths the service changed and no others; only a     *)
(* replaced array is guarded, by the version __v (`rev' here), which it    *)
(* also increments.  Passwords are right or wrong when compared; the rate  *)
(* limits, the audit events and the mails are left out.  The clock ticks   *)
(* at any moment, also in the middle of a call.                            *)
(***************************************************************************)
EXTENDS Integers, Sequences, FiniteSets, FiniteSetsExt

CONSTANTS Clients,            \* requests being served at the same time
          Scenarios,          \* what is going on: which services each client calls, what
                              \* else happens, does the account use a second factor, and
                              \* the bounds: until when, how many sessions, and requests
                              \* on them at a time
          RecoveryCodes,      \* its one-time recovery codes
          None,
          FailureThreshold, Lockout, SessionIdle, SessionAbsolute, TokenLife, MaxAttempts,
          MaxTokens, MaxChallenges, MaxUpdates   \* bounds

ASSUME IdentityAssumption ==
    /\ None \notin Nat
    /\ \A s \in Scenarios : /\ DOMAIN s.calls = Clients /\ s.mfa \in BOOLEAN
                            /\ {s.until, s.sessions, s.requests} \subseteq Nat
    /\ {FailureThreshold, Lockout, SessionIdle, SessionAbsolute, TokenLife, MaxAttempts}
            \subseteq Nat \ {0}
    /\ {MaxTokens, MaxChallenges, MaxUpdates} \subseteq Nat

VARIABLES scenario,    \* the scenario, which never changes
          user,        \* the user document
          sessions,    \* the authSessions collection, in order of creation
          tokens,      \* the passwordResetTokens collection, in order of creation
          challenges,  \* the MFA challenges in Redis
          touches,     \* requests on a session: <<i, None>> between the two reads of
                       \* requireAuth, <<i, t>> let in at t, its touch still under way
          client,      \* client[c]: the call client c is being served, between two steps
          now,
          accepted     \* history: how often each recovery code was accepted

vars == <<scenario, user, sessions, tokens, challenges, touches, client, now, accepted>>

Status == {"invited", "active", "locked", "inactive", "archived"}

(* userStatus.ts: the transitions that services may make. *)
May ==
    [invited  |-> {"active", "archived"}, active |-> {"locked", "inactive", "archived"},
     locked   |-> {"active", "archived"}, inactive |-> {"active", "archived"},
     archived |-> {}]

Idle == [op |-> "idle"]

UserDoc ==
    [status : Status, failedLoginCount : Nat, lockedUntil : Nat \cup {None},
     recoveryCodes : SUBSET RecoveryCodes, rev : Nat]

AuthSession == [createdAt : Nat, expiresAt : Nat, absoluteExpiresAt : Nat, revoked : BOOLEAN]

ResetToken ==
    [kind : {"code", "token"}, attempts : 0..(MaxAttempts + 1), used : BOOLEAN, expiresAt : Nat]

TypeOK ==
    /\ user \in UserDoc
    /\ sessions \in Seq(AuthSession) /\ tokens \in Seq(ResetToken)
    /\ challenges \subseteq Nat /\ touches \subseteq (DOMAIN sessions) \X (Nat \cup {None})
    /\ \A c \in Clients : "op" \in DOMAIN client[c]
    /\ now \in Nat

NewUser(status) ==
    [status |-> status, failedLoginCount |-> 0, lockedUntil |-> None,
     recoveryCodes |-> RecoveryCodes, rev |-> 0]

NewToken(kind) == [kind |-> kind, attempts |-> 0, used |-> FALSE, expiresAt |-> now + TokenLife]

(* A user is created invited, with a link to set the password; the first   *)
(* administrator is seeded active.                                         *)
Init ==
    /\ scenario \in Scenarios /\ now = 0
    /\ \/ user = NewUser("invited") /\ tokens = <<NewToken("token")>>
       \/ user = NewUser("active") /\ tokens = <<>>
    /\ sessions = <<>> /\ challenges = {} /\ touches = {}
    /\ client = [c \in Clients |-> Idle]
    /\ accepted = [r \in RecoveryCodes |-> 0]

-----------------------------------------------------------------------------
(* What the steps are made of *)

Free(c, call) == client[c] = Idle /\ call \in scenario.calls[c]
Go(c, step)   == client' = [client EXCEPT ![c] = step]
Done(c)       == Go(c, Idle)

(* The part of the document a call still needs after reading it. *)
Copy(paths) == [f \in paths |-> user[f]]

(* save of a copy the service set `status' (and whatever else) on: the     *)
(* paths that differ from what was read are written.                       *)
Written(copy, changed) ==
    [f \in DOMAIN user |->
        IF f \in DOMAIN changed /\ changed[f] # copy[f] THEN changed[f] ELSE user[f]]

Live(t) == ~t.used /\ t.expiresAt > now

(* requireAuth: the session is neither revoked nor too old nor idle for    *)
(* too long, and the user is active.                                       *)
Open(i) ==
    /\ ~sessions[i].revoked
    /\ sessions[i].absoluteExpiresAt > now /\ sessions[i].expiresAt > now

Usable(i) == Open(i) /\ user.status = "active"

RevokeAll == sessions' = [i \in DOMAIN sessions |-> [sessions[i] EXCEPT !.revoked = TRUE]]

-----------------------------------------------------------------------------
(* login *)

LockedNow(u) == u.status = "locked" /\ u.lockedUntil # None /\ u.lockedUntil > now
MaySignIn(u) == u.status \in {"invited", "active"}

ReadLogin(c, right) ==
    /\ Free(c, "login") /\ ~LockedNow(user)
    /\ right => MaySignIn(user)       \* else the answer is the same, and nothing is saved
    /\ Go(c, [op |-> "login", right |-> right, copy |-> Copy({"status", "failedLoginCount", "lockedUntil"})])
    /\ UNCHANGED <<user, sessions, tokens, challenges, touches, now, accepted>>

SaveFailedLogin(c) ==
    /\ client[c].op = "login" /\ ~client[c].right
    /\ LET copy  == client[c].copy
           count == copy.failedLoginCount + 1
       IN  /\ count <= FailureThreshold + 1        \* bound of the instance
           /\ user' = IF count >= FailureThreshold
                      THEN [Written(copy, [failedLoginCount |-> count, status |-> "locked"])
                                EXCEPT !.lockedUntil = now + Lockout]
                      ELSE Written(copy, [failedLoginCount |-> count])
    /\ Done(c)
    /\ UNCHANGED <<sessions, tokens, challenges, touches, now, accepted>>

(* Faulty save: the whole document as it was read is written back. *)
SaveLoginWhole(c) ==
    /\ client[c].op = "login" /\ client[c].right
    /\ user' = [user EXCEPT !.status = "active", !.failedLoginCount = 0, !.lockedUntil = None]
    /\ Go(c, [op |-> IF scenario.mfa THEN "challenge" ELSE "establish"])
    /\ UNCHANGED <<sessions, tokens, challenges, touches, now, accepted>>

SaveLogin(c) ==
    /\ client[c].op = "login" /\ client[c].right
    /\ user' = Written(client[c].copy, [status |-> "active", failedLoginCount |-> 0,
                                        lockedUntil |-> None])
    /\ Go(c, [op |-> IF scenario.mfa THEN "challenge" ELSE "establish"])
    /\ UNCHANGED <<sessions, tokens, challenges, touches, now, accepted>>

(* AuthSessionModel.create; the cookie's session in Redis is saved after,  *)
(* and a crash in between leaves a record nobody can use.                  *)
EstablishSession(c) ==
    /\ client[c].op = "establish" /\ Len(sessions) < scenario.sessions
    /\ sessions' = Append(sessions,
            [createdAt |-> now, expiresAt |-> now + SessionIdle,
             absoluteExpiresAt |-> now + SessionAbsolute, revoked |-> FALSE])
    /\ Done(c)
    /\ UNCHANGED <<user, tokens, challenges, touches, now, accepted>>

-----------------------------------------------------------------------------
(* The second factor *)

CreateMfaChallenge(c) ==
    /\ client[c].op = "challenge" /\ Cardinality(challenges) < MaxChallenges
    /\ challenges' = challenges \cup {Min((1..MaxChallenges) \ challenges)}
    /\ Done(c)
    /\ UNCHANGED <<user, sessions, tokens, touches, now, accepted>>

ExpireMfaChallenge ==
    /\ \E ch \in challenges : challenges' = challenges \ {ch}
    /\ UNCHANGED <<user, sessions, tokens, touches, client, now, accepted>>

GetMfaChallenge(c, ch) ==
    /\ Free(c, "verifyMfa") /\ ch \in challenges
    /\ Go(c, [op |-> "consume", challenge |-> ch])
    /\ UNCHANGED <<user, sessions, tokens, challenges, touches, now, accepted>>

(* redis.del, then the user is read and the code compared: a code of the   *)
(* authenticator, one of the recovery codes, or a wrong one.               *)
ConsumeMfaChallenge(c, code) ==
    /\ client[c].op = "consume"
    /\ challenges' = challenges \ {client[c].challenge}
    /\ CASE code = "totp"  -> Go(c, [op |-> "establish"])
         [] code = "wrong" -> Done(c)
         [] OTHER -> IF code \in user.recoveryCodes
                     THEN Go(c, [op |-> "spend", code |-> code, copy |-> Copy({"recoveryCodes", "rev"})])
                     ELSE Done(c)
    /\ UNCHANGED <<user, sessions, tokens, touches, now, accepted>>

(* Faulty save: the array is written without asking for its version. *)
SpendRecoveryCodeUnguarded(c) ==
    /\ client[c].op = "spend"
    /\ user' = [user EXCEPT !.recoveryCodes = client[c].copy.recoveryCodes \ {client[c].code},
                            !.rev = @ + 1]
    /\ accepted' = [accepted EXCEPT ![client[c].code] = @ + 1]
    /\ Go(c, [op |-> "establish"])
    /\ UNCHANGED <<sessions, tokens, challenges, touches, now>>

SpendRecoveryCode(c) ==
    /\ client[c].op = "spend"
    /\ IF client[c].copy.rev = user.rev
       THEN /\ user' = [user EXCEPT !.recoveryCodes = client[c].copy.recoveryCodes
                                                        \ {client[c].code},
                                    !.rev = @ + 1]
            /\ accepted' = [accepted EXCEPT ![client[c].code] = @ + 1]
            /\ Go(c, [op |-> "establish"])
       ELSE Done(c) /\ UNCHANGED <<user, accepted>>        \* VersionError
    /\ UNCHANGED <<sessions, tokens, challenges, touches, now>>

-----------------------------------------------------------------------------
(* Requests on a session, and its end *)

(* requireAuth reads the session, then the user, and lets the request in   *)
(* without waiting for its touch, which writes the time it was let in.     *)
(* Several requests of one session may be at the same step, so a step may  *)
(* leave another behind.                                                   *)
Leaving(request) == {touches, touches \ {request}}

ReadSession(i) ==
    /\ "request" \in scenario.ambient
    /\ i \in DOMAIN sessions /\ Open(i) /\ Cardinality(touches) < scenario.requests
    /\ touches' = touches \cup {<<i, None>>}
    /\ UNCHANGED <<user, sessions, tokens, challenges, client, now, accepted>>

RequireAuth(i) ==
    /\ <<i, None>> \in touches
    /\ \E rest \in Leaving(<<i, None>>) :
        touches' = IF user.status = "active" THEN rest \cup {<<i, now>>} ELSE rest
    /\ UNCHANGED <<user, sessions, tokens, challenges, client, now, accepted>>

(* Faulty touch: the record is saved whole, as its request read it.        *)
TouchSessionWhole(i) ==
    /\ \E t \in 0..now :
        /\ <<i, t>> \in touches /\ touches' \in Leaving(<<i, t>>)
        /\ sessions' = [sessions EXCEPT ![i].expiresAt = t + SessionIdle, ![i].revoked = FALSE]
    /\ UNCHANGED <<user, tokens, challenges, client, now, accepted>>

TouchSession(i) ==
    /\ \E t \in 0..now :
        /\ <<i, t>> \in touches /\ touches' \in Leaving(<<i, t>>)
        /\ sessions' = [sessions EXCEPT ![i].expiresAt = t + SessionIdle]
    /\ UNCHANGED <<user, tokens, challenges, client, now, accepted>>

(* logout, and the removal of one session from the profile page. *)
EndSession(i) ==
    /\ "logout" \in scenario.ambient
    /\ i \in DOMAIN sessions /\ ~sessions[i].revoked
    /\ sessions' = [sessions EXCEPT ![i].revoked = TRUE]
    /\ UNCHANGED <<user, tokens, challenges, touches, client, now, accepted>>

LogoutAll(i) ==
    /\ "logout" \in scenario.ambient
    /\ i \in DOMAIN sessions /\ Usable(i)
    /\ RevokeAll
    /\ UNCHANGED <<user, tokens, challenges, touches, client, now, accepted>>

(* revokeAllSessions at the end of a call; changePassword goes on with a   *)
(* session of its own.                                                     *)
RevokeSessions(c) ==
    /\ client[c].op = "revoke"
    /\ RevokeAll
    /\ Go(c, client[c].next)
    /\ UNCHANGED <<user, tokens, challenges, touches, now, accepted>>

-----------------------------------------------------------------------------
(* Forgotten and changed passwords *)

AddToken(kind) ==
    /\ Len(tokens) < MaxTokens
    /\ tokens' = Append(tokens, NewToken(kind))

ForgotPassword ==
    /\ "forgotPassword" \in scenario.ambient /\ user.status \in {"active", "invited"}
    /\ AddToken("code")
    /\ UNCHANGED <<user, sessions, challenges, touches, client, now, accepted>>

ReadResetCode(c, i, right) ==
    /\ Free(c, "reset") /\ i \in DOMAIN tokens /\ tokens[i].kind = "code" /\ Live(tokens[i])
    /\ Go(c, [op |-> "code", token |-> i, right |-> right, attempts |-> tokens[i].attempts + 1])
    /\ UNCHANGED <<user, sessions, tokens, challenges, touches, now, accepted>>

SaveResetCode(c) ==
    /\ client[c].op = "code"
    /\ LET exceeded == client[c].attempts > MaxAttempts
           matches  == client[c].right /\ ~exceeded
       IN  /\ tokens' = [tokens EXCEPT ![client[c].token].attempts = client[c].attempts,
                                       ![client[c].token].used = @ \/ exceeded \/ matches]
           /\ IF matches THEN Go(c, [op |-> "grant"]) ELSE Done(c)
    /\ UNCHANGED <<user, sessions, challenges, touches, now, accepted>>

GrantToken(c) ==
    /\ client[c].op = "grant"
    /\ AddToken("token")
    /\ Done(c)
    /\ UNCHANGED <<user, sessions, challenges, touches, now, accepted>>

FindResetToken(c, i) ==
    /\ Free(c, "reset") /\ i \in DOMAIN tokens /\ tokens[i].kind = "token" /\ Live(tokens[i])
    /\ Go(c, [op |-> "token", token |-> i])
    /\ UNCHANGED <<user, sessions, tokens, challenges, touches, now, accepted>>

ReadReset(c) ==
    /\ client[c].op = "token"
    /\ Go(c, [op |-> "reset", token |-> client[c].token,
              copy |-> Copy({"status", "failedLoginCount", "lockedUntil"})])
    /\ UNCHANGED <<user, sessions, tokens, challenges, touches, now, accepted>>

SaveReset(c) ==
    /\ client[c].op = "reset"
    /\ LET copy == client[c].copy
           status == IF copy.status = "invited" THEN "active" ELSE copy.status
       IN  user' = Written(copy, [failedLoginCount |-> 0, lockedUntil |-> None,
                                  status |-> status])
    /\ Go(c, [op |-> "mark", token |-> client[c].token])
    /\ UNCHANGED <<sessions, tokens, challenges, touches, now, accepted>>

MarkTokenUsed(c) ==
    /\ client[c].op = "mark"
    /\ tokens' = [tokens EXCEPT ![client[c].token].used = TRUE]
    /\ Go(c, [op |-> "revoke", next |-> Idle])
    /\ UNCHANGED <<user, sessions, challenges, touches, now, accepted>>

(* The save writes the password alone, which is not modelled. *)
ChangePassword(c, i) ==
    /\ Free(c, "changePassword") /\ i \in DOMAIN sessions /\ Usable(i)
    /\ Go(c, [op |-> "revoke", next |-> [op |-> "establish"]])
    /\ UNCHANGED <<user, sessions, tokens, challenges, touches, now, accepted>>

-----------------------------------------------------------------------------
(* The administrator *)

ReadTransition(c, to) ==
    /\ Free(c, "transitionStatus") /\ to \in May[user.status]
    /\ Go(c, [op |-> "transition", to |-> to, copy |-> Copy({"status"})])
    /\ UNCHANGED <<user, sessions, tokens, challenges, touches, now, accepted>>

SaveTransition(c) ==
    /\ client[c].op = "transition"
    /\ user' = Written(client[c].copy, [status |-> client[c].to])
    /\ IF client[c].to = "active" THEN Done(c) ELSE Go(c, [op |-> "revoke", next |-> Idle])
    /\ UNCHANGED <<sessions, tokens, challenges, touches, now, accepted>>

(* updateUser replaces the arrays of roles and warehouses. *)
ReadUpdateUser(c) ==
    /\ Free(c, "updateUser") /\ user.status # "archived"
    /\ user.rev < MaxUpdates + Cardinality(RecoveryCodes \ user.recoveryCodes)
    /\ Go(c, [op |-> "update", copy |-> Copy({"rev"})])
    /\ UNCHANGED <<user, sessions, tokens, challenges, touches, now, accepted>>

SaveUpdateUser(c) ==
    /\ client[c].op = "update"
    /\ IF client[c].copy.rev = user.rev THEN user' = [user EXCEPT !.rev = @ + 1]
                                         ELSE UNCHANGED user
    /\ Done(c)
    /\ UNCHANGED <<sessions, tokens, challenges, touches, now, accepted>>

-----------------------------------------------------------------------------
(* The process stops while it serves c. *)
Crash(c) ==
    /\ client[c] # Idle /\ "crash" \in scenario.ambient
    /\ Done(c)
    /\ UNCHANGED <<user, sessions, tokens, challenges, touches, now, accepted>>

Tick ==
    /\ now < scenario.until /\ now' = now + 1
    /\ UNCHANGED <<user, sessions, tokens, challenges, touches, client, accepted>>

Login(c)  == (\E right \in BOOLEAN : ReadLogin(c, right)) \/ SaveFailedLogin(c) \/ SaveLogin(c)
VerifyMfa(c) ==
    \/ CreateMfaChallenge(c) \/ SpendRecoveryCode(c)
    \/ \E ch \in challenges : GetMfaChallenge(c, ch)
    \/ \E code \in RecoveryCodes \cup {"totp", "wrong"} : ConsumeMfaChallenge(c, code)
ResetPassword(c) ==
    \/ SaveResetCode(c) \/ GrantToken(c) \/ ReadReset(c) \/ SaveReset(c) \/ MarkTokenUsed(c)
    \/ \E i \in DOMAIN tokens :
        FindResetToken(c, i) \/ \E right \in BOOLEAN : ReadResetCode(c, i, right)
Administer(c) ==
    \/ \E to \in {"active", "inactive", "archived"} : ReadTransition(c, to)
    \/ SaveTransition(c) \/ ReadUpdateUser(c) \/ SaveUpdateUser(c)

Next ==
    \/ \E c \in Clients :
        \/ Login(c) \/ VerifyMfa(c) \/ ResetPassword(c) \/ Administer(c)
        \/ EstablishSession(c) \/ RevokeSessions(c) \/ Crash(c)
        \/ \E i \in DOMAIN sessions : ChangePassword(c, i)
    \/ \E i \in DOMAIN sessions :
        ReadSession(i) \/ RequireAuth(i) \/ TouchSession(i) \/ EndSession(i) \/ LogoutAll(i)
    \/ ForgotPassword \/ ExpireMfaChallenge \/ Tick

Spec == Init /\ [][Next /\ UNCHANGED scenario]_vars

-----------------------------------------------------------------------------
(* A recovery code signs in once, however many requests present it at the  *)
(* same time and whatever an administrator saves in between.               *)
RecoveryCodeOnce == \A r \in RecoveryCodes : accepted[r] <= 1

(* Whoever was locked out, deactivated or archived stays out until an      *)
(* administrator's activation: no login or reset that read the account     *)
(* before undoes it.  (First logins and resets of an invited account do:   *)
(* they read `invited' and write `active'.)                                *)
LetIn(c) ==
    \/ client[c].op = "transition" /\ client[c].to = "active"
    \/ client[c].op \in {"login", "reset"} /\ client[c].copy.status = "invited"

OutStaysOut ==
    [][user.status \in {"locked", "inactive", "archived"} /\ user'.status = "active"
            => \E c \in Clients : LetIn(c)]_vars

(* A session that has ended never lets anyone in again, however late the   *)
(* touches of its requests arrive: one that was revoked, that has reached  *)
(* its absolute age, or that has lapsed for want of use.  A lapsed session *)
(* has not ended as long as a request found it open before, and may still  *)
(* be touched: such a touch does bring the session back, but only for the  *)
(* idle time of that request.                                              *)
MayBeTouched(i) == \E r \in touches : r[1] = i /\ (r[2] = None \/ r[2] + SessionIdle > now)

Ended(i) ==
    \/ sessions[i].revoked
    \/ now >= sessions[i].createdAt + SessionAbsolute
    \/ sessions[i].expiresAt <= now /\ ~MayBeTouched(i)

EndedForGood ==
    [][\A i \in DOMAIN sessions : Ended(i) => Ended(i)' /\ ~Usable(i)']_vars

(* The status only changes along the table of userStatus.ts. *)
UserTransitions ==
    [][user'.status # user.status => user'.status \in May[user.status]]_vars

(* A lock is temporary: once its time has passed, the right password signs *)
(* the account in again.                                                   *)
LockIsTemporary ==
    (user.status = "locked" /\ user.lockedUntil # None /\ ~LockedNow(user)) => MaySignIn(user)

(* A link to set the password works once: no reset is saved with a token   *)
(* that was used before.                                                   *)
TokenUsedOnce ==
    [][\A c \in Clients : client[c].op = "reset" /\ client'[c].op = "mark"
            => ~tokens[client[c].token].used]_vars
-----------------------------------------------------------------------------
(* The inductive invariant *)

(* A copy with the document's version has the document's codes. *)
CodesRead(copy) ==
    /\ copy.recoveryCodes \subseteq RecoveryCodes /\ copy.rev \in Nat
    /\ copy.rev <= user.rev
    /\ copy.rev = user.rev => copy.recoveryCodes = user.recoveryCodes

(* What a call knows between two of its steps. *)
CallInv(call) ==
    /\ "op" \in DOMAIN call
    /\ call.op = "login" => /\ call.right \in BOOLEAN /\ call.copy.failedLoginCount \in Nat
                            /\ call.right => call.copy.status \in {"invited", "active"}
    /\ call.op = "spend" => CodesRead(call.copy) /\ call.code \in call.copy.recoveryCodes
    /\ call.op = "code" => call.attempts \in 0..(MaxAttempts + 1)
    /\ call.op \in {"code", "token", "reset", "mark"} => call.token \in DOMAIN tokens
    /\ call.op = "reset" => call.copy.status \in Status
    /\ call.op = "transition" => call.to \in Status
    /\ call.op = "revoke" => call.next \in {Idle, [op |-> "establish"]}

IInv ==
    /\ TypeOK
    /\ DOMAIN client = Clients
    /\ \A c \in Clients : CallInv(client[c])
    /\ challenges \subseteq 1..MaxChallenges
    /\ \A i \in DOMAIN sessions :
          sessions[i].absoluteExpiresAt = sessions[i].createdAt + SessionAbsolute
    /\ \A i \in DOMAIN tokens : tokens[i].attempts > MaxAttempts => tokens[i].used
    /\ accepted \in [RecoveryCodes -> {0, 1}]
    /\ \A r \in user.recoveryCodes : accepted[r] = 0
=============================================================================
