----------------------------- MODULE MCIdentity -----------------------------
(* One account with one recovery code, in five scenarios: two sign-ins    *)
(* with a second factor beside the edits of an administrator; a sign-in    *)
(* beside resets and changes of status; a session with two requests on it  *)
(* at a time, used, ended, and ended by changes of the account; two        *)
(* sessions at once, one of which may end the other; two resets at once.   *)
EXTENDS Identity, TLC

CONSTANTS c1, c2, r1

Bounded(until, sessionsAtMost, requestsAtMost) ==
    [until |-> until, sessions |-> sessionsAtMost, requests |-> requestsAtMost]

TwoFactors ==
    [mfa |-> TRUE, ambient |-> {"crash"},
     calls |-> (c1 :> {"login", "verifyMfa"}) @@ (c2 :> {"verifyMfa", "updateUser"})]
    @@ Bounded(2, 2, 0)

InAndOut ==
    [mfa |-> FALSE, ambient |-> {"forgotPassword", "crash"},
     calls |-> (c1 :> {"login"}) @@ (c2 :> {"reset", "transitionStatus"})]
    @@ Bounded(2, 2, 0)

AtWork ==
    [mfa |-> FALSE, ambient |-> {"request", "logout"},
     calls |-> (c1 :> {"login", "changePassword", "transitionStatus"}) @@ (c2 :> {})]
    @@ Bounded(3, 1, 2)

OnTwoDevices ==
    [mfa |-> FALSE, ambient |-> {"request", "logout"},
     calls |-> (c1 :> {"login", "changePassword"}) @@ (c2 :> {})]
    @@ Bounded(3, 2, 1)

TwoResets ==
    [mfa |-> FALSE, ambient |-> {"forgotPassword"}, calls |-> [c \in Clients |-> {"reset"}]]
    @@ Bounded(2, 0, 0)

MCScenarios == {TwoFactors, InAndOut, AtWork, OnTwoDevices, TwoResets}
=============================================================================
