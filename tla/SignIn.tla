------------------------------- MODULE SignIn -------------------------------
(***************************************************************************)
(* How a learner stays signed in: the tabs of a browser (web/src/api.ts    *)
(* apiFetch and refreshAccessToken) renew a short-lived access token with  *)
(* a refresh token in a cookie they share, and the server (auth/service.go,*)
(* db/sql.go RotateRefreshToken) replaces the refresh token every time.    *)
(* A token that comes a second time ends its family, 30 days after the     *)
(* sign-in the family is over, and a refresh that fails on the server is   *)
(* answered as if its token were not valid.                                *)
(***************************************************************************)
EXTENDS Naturals, FiniteSets

CONSTANTS
    Tabs,             \* tabs of one browser
    Calls,            \* requests that may be under way: pairs of a tab and a number
    MaxRefreshTokens, \* bound: refresh tokens ever issued
    MaxAccessLosses,  \* bound: access tokens that expire, pages that are loaded again
                      \* (none after requests have crossed)
    MaxServerEndings  \* bound: families that expire, refreshes that fail on the server
                      \* (none after requests have crossed)

ASSUME CallAssumption == \A c \in Calls : c[1] \in Tabs

VARIABLES
    token,     \* refresh tokens by number: "live", "replaced" or "revoked", with their family
    expired,   \* families whose 30 days are over; a rotation does not prolong them
    cookie,    \* the refresh token of the browser, 0 without one
    tab,       \* tab -> whether it is signed in and has an access token that is accepted
    call,      \* request -> its place
    accessLosses,
    failedRefreshes,
    crossed       \* an answer was lost, two tabs renewed at once, or the learner signed out

serverVars == <<token, expired, failedRefreshes>>
signInVars == <<serverVars, cookie, tab, call, accessLosses, crossed>>

NoRequest == [pc |-> "idle", access |-> FALSE, token |-> 0]
CallsOf(t) == {c \in Calls : c[1] = t}
Issued == DOMAIN token
NextToken == Cardinality(Issued) + 1

\* newSession: the first refresh token of a family.
SignInInit ==
    /\ token = [n \in {1} |-> [state |-> "live", family |-> 1]]
    /\ expired = {}
    /\ cookie = 1
    /\ tab = [t \in Tabs |-> [signedIn |-> TRUE, access |-> TRUE]]
    /\ call = [c \in Calls |-> NoRequest]
    /\ accessLosses = 0
    /\ failedRefreshes = 0
    /\ crossed = FALSE

AccessMayBeLost == accessLosses < MaxAccessLosses /\ ~crossed

\* An access token lives long enough for the request that is sent again with it.
AccessExpires(t) ==
    /\ AccessMayBeLost
    /\ tab[t].access
    /\ \A c \in CallsOf(t) : call[c].pc \notin {"again", "resent"}
    /\ tab' = [tab EXCEPT ![t].access = FALSE]
    /\ accessLosses' = accessLosses + 1
    /\ UNCHANGED <<serverVars, cookie, call, crossed>>

SendCall(c) ==
    /\ tab[c[1]].signedIn
    /\ call[c].pc = "idle"
    /\ call' = [call EXCEPT ![c] = [NoRequest EXCEPT !.pc = "sent", !.access = tab[c[1]].access]]
    /\ UNCHANGED <<serverVars, cookie, tab, accessLosses, crossed>>

\* requireAuth
ServeCall(c) ==
    /\ call[c].pc = "sent"
    /\ call' = [call EXCEPT ![c] = IF @.access THEN NoRequest ELSE [@ EXCEPT !.pc = "unauthorized"]]
    /\ UNCHANGED <<serverVars, cookie, tab, accessLosses, crossed>>

Renewing(t) == {c \in CallsOf(t) : call[c].pc \in {"renewing", "renewed", "refused"}}

Renews(c) ==
    /\ call' = [call EXCEPT ![c].pc = "renewing", ![c].token = cookie]
    /\ crossed' = (crossed \/ \E t \in Tabs \ {c[1]} : Renewing(t) # {})

X_OwnRefresh(c) ==
    /\ call[c].pc = "unauthorized"
    /\ Renews(c)
    /\ UNCHANGED <<serverVars, cookie, tab, accessLosses>>

\* refreshAccessToken: the requests of a tab that are refused share one refresh.
RefreshAccessToken(c) ==
    /\ call[c].pc = "unauthorized"
    /\ IF Renewing(c[1]) = {} THEN Renews(c)
       ELSE call' = [call EXCEPT ![c].pc = "waiting"] /\ UNCHANGED crossed
    /\ UNCHANGED <<serverVars, cookie, tab, accessLosses>>

RevokeFamily(f) == [n \in Issued |-> IF token[n].family = f THEN [token[n] EXCEPT !.state =
                                         IF @ = "live" THEN "revoked" ELSE @] ELSE token[n]]

\* RotateRefreshToken: a token counts until its family is over, even one that was replaced.
Counts(n) == n # 0 /\ token[n].family \notin expired
Valid(n) == Counts(n) /\ token[n].state = "live"
Reused(n) == Counts(n) /\ token[n].state = "replaced"

Rotate(old) ==
    /\ NextToken <= MaxRefreshTokens
    /\ token' = [n \in Issued \cup {NextToken} |->
          IF n = NextToken THEN [state |-> "live", family |-> token[old].family]
          ELSE IF n = old THEN [token[n] EXCEPT !.state = "replaced"] ELSE token[n]]

RefuseRefresh(c) == call' = [call EXCEPT ![c].pc = "refused"]

\* Service.Refresh and RotateRefreshToken.  A token that was replaced ends the family.
RotateRefreshToken(c) ==
    LET old == call[c].token
    IN  /\ call[c].pc = "renewing"
        /\ IF Valid(old)
           THEN Rotate(old) /\ call' = [call EXCEPT ![c].pc = "renewed", ![c].token = NextToken]
           ELSE /\ token' = IF Reused(old) THEN RevokeFamily(token[old].family) ELSE token
                /\ RefuseRefresh(c)
        /\ UNCHANGED <<expired, failedRefreshes, cookie, tab, accessLosses, crossed>>

ServerMayEnd == Cardinality(expired) + failedRefreshes < MaxServerEndings /\ ~crossed

\* A statement of Service.Refresh fails, before the rotation is committed or (its commit, the
\* access token) after: the answer is the one to a token that is not valid.
RefreshFails(c) ==
    /\ call[c].pc = "renewing"
    /\ call[c].token # 0
    /\ ServerMayEnd
    /\ failedRefreshes' = failedRefreshes + 1
    /\ UNCHANGED token \/ (Valid(call[c].token) /\ Rotate(call[c].token))
    /\ RefuseRefresh(c)
    /\ UNCHANGED <<expired, cookie, tab, accessLosses, crossed>>

\* RefreshLifetime is over, at the server and in the browser.
FamilyExpires(f) ==
    /\ ServerMayEnd
    /\ f \notin expired
    /\ expired' = expired \cup {f}
    /\ UNCHANGED <<token, failedRefreshes, cookie, tab, call, accessLosses, crossed>>

CookieExpires ==
    /\ cookie # 0
    /\ ~Counts(cookie)
    /\ cookie' = 0
    /\ UNCHANGED <<serverVars, tab, call, accessLosses, crossed>>

\* Everyone in the tab who waited for the refresh has its outcome.
Settle(c, pc) == [d \in Calls |-> IF d = c \/ (d[1] = c[1] /\ call[d].pc = "waiting")
                                  THEN [call[d] EXCEPT !.pc = pc] ELSE call[d]]

\* The answer of the refresh sets the cookie, or clears the one that was sent.
AcceptRefresh(c) ==
    /\ call[c].pc = "renewed"
    /\ cookie' = call[c].token
    /\ tab' = [tab EXCEPT ![c[1]] = [signedIn |-> TRUE, access |-> TRUE]]
    /\ call' = Settle(c, "again")
    /\ UNCHANGED <<serverVars, accessLosses, crossed>>

RefreshRefused(c) ==
    /\ call[c].pc = "refused"
    /\ cookie' = IF call[c].token = 0 THEN cookie ELSE 0
    /\ call' = Settle(c, "lost")
    /\ UNCHANGED <<serverVars, tab, accessLosses, crossed>>

RefreshAnswerLost(c) ==
    /\ call[c].pc \in {"renewing", "renewed", "refused"}
    /\ crossed' = TRUE
    /\ call' = Settle(c, "lost")
    /\ UNCHANGED <<serverVars, cookie, tab, accessLosses>>

\* The request is sent again once, with the tab's access token of that moment.
ResendCall(c) ==
    /\ call[c].pc = "again"
    /\ call' = [call EXCEPT ![c].pc = "resent", ![c].access = tab[c[1]].access]
    /\ UNCHANGED <<serverVars, cookie, tab, accessLosses, crossed>>

ServeAgain(c) ==
    /\ call[c].pc = "resent"
    /\ call' = [call EXCEPT ![c] = IF @.access THEN NoRequest ELSE [@ EXCEPT !.pc = "lost"]]
    /\ UNCHANGED <<serverVars, cookie, tab, accessLosses, crossed>>

\* onAuthenticationLost
AuthenticationLost(c) ==
    /\ call[c].pc = "lost"
    /\ tab' = [tab EXCEPT ![c[1]] = [signedIn |-> FALSE, access |-> FALSE]]
    /\ call' = [call EXCEPT ![c] = NoRequest]
    /\ UNCHANGED <<serverVars, cookie, accessLosses, crossed>>

\* The page is loaded again: its access token is gone, and the tab asks for the profile.
LoadPage(t) ==
    /\ AccessMayBeLost
    /\ tab[t].signedIn
    /\ accessLosses' = accessLosses + 1
    /\ crossed' = (crossed \/ Renewing(t) # {})
    /\ tab' = [tab EXCEPT ![t].access = FALSE]
    /\ call' = [c \in Calls |-> IF c[1] = t THEN NoRequest ELSE call[c]]
    /\ UNCHANGED <<serverVars, cookie>>

\* Logout of this browser, or of all of the learner's.
SignOut(t, everywhere) ==
    /\ tab[t].signedIn
    /\ token' = [n \in Issued |-> IF token[n].state = "live" /\ (everywhere \/ n = cookie)
                                  THEN [token[n] EXCEPT !.state = "revoked"] ELSE token[n]]
    /\ cookie' = 0
    /\ tab' = [tab EXCEPT ![t] = [signedIn |-> FALSE, access |-> FALSE]]
    /\ crossed' = TRUE
    /\ UNCHANGED <<expired, failedRefreshes, call, accessLosses>>

\* Login or registration: a new family.  (Bound: not after requests have crossed.)
SignInAgain(t) ==
    /\ ~tab[t].signedIn /\ ~crossed
    /\ NextToken <= MaxRefreshTokens
    /\ token' = [n \in Issued \cup {NextToken} |-> IF n = NextToken THEN [state |-> "live", family |-> n] ELSE token[n]]
    /\ cookie' = NextToken
    /\ tab' = [tab EXCEPT ![t] = [signedIn |-> TRUE, access |-> TRUE]]
    /\ UNCHANGED <<expired, failedRefreshes, call, accessLosses, crossed>>

SignInNext ==
    \/ \E c \in Calls :
        \/ SendCall(c) \/ ServeCall(c) \/ RefreshAccessToken(c) \/ RotateRefreshToken(c)
        \/ RefreshFails(c) \/ AcceptRefresh(c) \/ RefreshRefused(c) \/ RefreshAnswerLost(c)
        \/ ResendCall(c) \/ ServeAgain(c) \/ AuthenticationLost(c)
    \/ \E t \in Tabs : AccessExpires(t) \/ LoadPage(t) \/ SignInAgain(t) \/ SignOut(t, TRUE) \/ SignOut(t, FALSE)
    \/ CookieExpires \/ \E n \in Issued : FamilyExpires(token[n].family)

SignInSpec == SignInInit /\ [][SignInNext]_signInVars

-----------------------------------------------------------------------------
\* A tab's own requests never spend a refresh token twice.  Until requests cross, no family
\* is ever ended for a reused token, whatever expires or fails on the server; and a learner
\* who has not signed out finds a tab signed out only after 30 days or a refresh that failed.
\* (Two tabs that renew at the same moment do spend it twice, and so does a refresh whose
\* answer is lost: the family ends and both tabs are signed out.)
StaysSignedIn == ~crossed =>
    /\ \A n \in Issued : token[n].state # "revoked"
    /\ expired = {} /\ failedRefreshes = 0 => \A t \in Tabs : tab[t].signedIn
=============================================================================
