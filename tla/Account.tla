------------------------------ MODULE Account ------------------------------
(***************************************************************************)
(* How a request of the page proves whose it is.  web/lib/api.ts keeps an  *)
(* account token and fetches another when it is about to run out, or when  *)
(* the engine refuses it; app/services/auth.py accepts a token if it is    *)
(* signed with a key that the account service publishes, of which it keeps *)
(* a copy.  Both sides cache, and both fetch, so a rotated key, an outage  *)
(* of the service and a slow load meet in either order.                    *)
(*                                                                         *)
(* A token is the key it is signed with and the life it has left.  A unit  *)
(* of time is longer than a request may take.                              *)
(***************************************************************************)
EXTENDS Integers, FiniteSets

CONSTANTS
    TokenLife,                    \* external: the life of a new token
    JWT_REFRESH_WINDOW_SECONDS,   \* a cached token with no more than this left is not used
    CLOCK_LEEWAY_SECONDS,
    JWKS_CACHE_SECONDS,           \* the life of the engine's copy of the keys
    UNKNOWN_KID_REFRESH_SECONDS,  \* an unknown key refreshes the copy at most this often
    MaxKeys,                      \* bound on signing keys
    Loads                         \* token loads that may be in flight at once

ASSUME AccountAssumption ==
    /\ {JWT_REFRESH_WINDOW_SECONDS, CLOCK_LEEWAY_SECONDS} \subseteq Nat
    /\ {TokenLife, JWKS_CACHE_SECONDS, UNKNOWN_KID_REFRESH_SECONDS, MaxKeys} \subseteq Nat \ {0}
    /\ TokenLife + CLOCK_LEEWAY_SECONDS > 1      \* a new token outlives a request
    /\ Loads \subseteq Nat \ {0}

VARIABLES
    signedIn,        \* external: does the student's account session live?
    authUp,          \* external: do the token routes answer?
    keysUp,          \* external: does the key endpoint answer the engine?
    kid,             \* external: the key new tokens are signed with
    published,       \* external: the keys at the key endpoint
    withdrawnFor,    \* for checking: how long ago each key was withdrawn
    cachedJwt,       \* the page's token
    loads,           \* what each loadJwt in flight is asking, or what answer is under way
    minted,          \* the token under way to each of them
    jwtRequest,      \* the load that callers of getJwt share
    request,         \* the request of the page
    jwks,            \* _cached_jwks: the engine's copy of the keys
    jwksAge,         \* now - _cached_at
    sinceRefresh     \* now - _last_unknown_kid_refresh

serviceVars  == <<signedIn, authUp, keysUp, kid, published, withdrawnFor>>
pageVars     == <<cachedJwt, loads, minted, jwtRequest, request>>
verifierVars == <<jwks, jwksAge, sinceRefresh>>
accountVars  == <<serviceVars, pageVars, verifierVars>>

None == 0

Keys     == 1 .. MaxKeys
NoToken  == [kid |-> None, left |-> 0]
NoTokens == [l \in Loads |-> NoToken]
NoKeys   == {None}
Expired(token) == token.left <= -CLOCK_LEEWAY_SECONDS

(* step: at rest, waiting for a token, sent to the engine, waiting for the *)
(* token of the second try, sent again.  over: a unit of time began.       *)
NoRequest == [what |-> "nothing", step |-> "rest", load |-> None, token |-> NoToken,
              over |-> FALSE]

Waiting == request.step \in {"load", "reload"}
Sent    == request.step \in {"sent", "resent"}

AccountInit ==
    /\ signedIn = TRUE
    /\ authUp = TRUE
    /\ keysUp = TRUE
    /\ kid = 1
    /\ published = {1}
    /\ withdrawnFor = [k \in Keys |-> 0]
    /\ cachedJwt = NoToken
    /\ loads = [l \in Loads |-> "none"]
    /\ minted = NoTokens
    /\ jwtRequest = None
    /\ request = NoRequest
    /\ jwks = NoKeys
    /\ jwksAge = 0
    /\ sinceRefresh = UNKNOWN_KID_REFRESH_SECONDS

-----------------------------------------------------------------------------
(* The page: getJwt, loadJwt and request in web/lib/api.ts.                *)

(* The module of a page that is left, or loaded again, starts anew.        *)
FreshPage ==
    /\ cachedJwt' = NoToken
    /\ loads' = [l \in Loads |-> "none"]
    /\ minted' = NoTokens
    /\ jwtRequest' = None
    /\ request' = NoRequest

StartLoad(l) ==
    /\ loads[l] = "none"
    /\ \A k \in Loads : k < l => loads[k] # "none"
    /\ loads' = [loads EXCEPT ![l] = "token"]
    /\ jwtRequest' = l

(* getJwt(): a token with life left, the load in flight, or a new load.    *)
Begin(what) ==
    /\ request.step = "rest"
    /\ IF cachedJwt.left > JWT_REFRESH_WINDOW_SECONDS
       THEN /\ request' = [NoRequest EXCEPT !.what = what, !.step = "sent", !.token = cachedJwt]
            /\ UNCHANGED <<loads, jwtRequest>>
       ELSE /\ IF jwtRequest # None THEN UNCHANGED <<loads, jwtRequest>>
                                    ELSE \E l \in Loads : StartLoad(l)
            /\ request' = [NoRequest EXCEPT !.what = what, !.step = "load", !.load = jwtRequest']
    /\ UNCHANGED <<cachedJwt, minted, serviceVars, verifierVars>>

(* A route answers; what it gave is under way to the page, and may be      *)
(* overtaken by the answer to a later load.                                *)
Answers(l, answer, token) ==
    /\ loads' = [loads EXCEPT ![l] = answer]
    /\ minted' = [minted EXCEPT ![l] = token]

NewToken == [kid |-> kid, left |-> TokenLife]

(* tokenRouteJwt: the route gives a token, says that the session has ended, *)
(* or fails, and the session route is asked.                               *)
TokenRoute(l) ==
    /\ loads[l] = "token"
    /\ \/ authUp /\ signedIn /\ Answers(l, "given", NewToken)
       \/ authUp /\ ~signedIn /\ Answers(l, "refused", NoToken)
       \/ ~authUp /\ Answers(l, "session", NoToken)
    /\ UNCHANGED <<cachedJwt, jwtRequest, request, serviceVars, verifierVars>>

(* sessionRouteJwt, which may answer where the token route did not.        *)
SessionRoute(l) ==
    /\ loads[l] = "session"
    /\ \/ signedIn /\ Answers(l, "given", NewToken)
       \/ (~authUp \/ ~signedIn) /\ Answers(l, "unavailable", NoToken)
    /\ UNCHANGED <<cachedJwt, jwtRequest, request, serviceVars, verifierVars>>

(* A load ends: its promise is shared no longer.                           *)
EndLoad(l) ==
    /\ Answers(l, "none", NoToken)
    /\ jwtRequest' = IF jwtRequest = l THEN None ELSE jwtRequest

WaitsFor(l) == Waiting /\ request.load = l

(* cacheJwt: the answer is kept, whatever was kept before, and whoever     *)
(* waits for the load sends the request with its token.                    *)
TokenLoaded(l) ==
    /\ loads[l] = "given"
    /\ EndLoad(l)
    /\ cachedJwt' = minted[l]
    /\ request' = IF WaitsFor(l)
                  THEN [request EXCEPT !.step = IF @ = "load" THEN "sent" ELSE "resent",
                                       !.load = None, !.token = minted[l]]
                  ELSE request
    /\ UNCHANGED <<serviceVars, verifierVars>>

(* The token route said that the session has ended: sendToSignIn.          *)
LoadRefused(l) ==
    /\ loads[l] = "refused"
    /\ FreshPage
    /\ UNCHANGED <<serviceVars, verifierVars>>

(* Neither route gave a token and the first did not refuse: the page is    *)
(* told that the sign-in service cannot be reached.                        *)
NoRoute(l) ==
    /\ loads[l] = "unavailable"
    /\ EndLoad(l)
    /\ request' = IF WaitsFor(l) THEN NoRequest ELSE request
    /\ UNCHANGED <<cachedJwt, serviceVars, verifierVars>>

-----------------------------------------------------------------------------
(* The engine: TokenVerifier in app/services/auth.py.                      *)

Fetched(since) == [keys |-> published, age |-> 0, since |-> since, fetched |-> TRUE]
NotFetched(since) == [keys |-> jwks, age |-> jwksAge, since |-> since, fetched |-> FALSE]

Fetch(since) == IF keysUp THEN Fetched(since) ELSE NotFetched(since)

(* _key_for, without its age check.                                        *)
(* Plausible bug, for mutation: a key once known is known for good.        *)
KeyForEver(k) ==
    IF k \in jwks THEN [NotFetched(sinceRefresh) EXCEPT !.fetched = TRUE]
    ELSE IF jwks = NoKeys \/ jwksAge >= JWKS_CACHE_SECONDS THEN Fetch(sinceRefresh)
    ELSE IF sinceRefresh >= UNKNOWN_KID_REFRESH_SECONDS THEN Fetch(0)
    ELSE [NotFetched(sinceRefresh) EXCEPT !.fetched = TRUE]

(* _key_for: what the verifier holds after looking for key k, and whether  *)
(* a fetch failed.  The copy is renewed when it is old, and, at most so    *)
(* often, when it does not have the key.                                   *)
KeyFor(k) ==
    LET old == jwks = NoKeys \/ jwksAge >= JWKS_CACHE_SECONDS
        held == IF old THEN Fetch(sinceRefresh)
                       ELSE [NotFetched(sinceRefresh) EXCEPT !.fetched = TRUE]
    IN  IF held.fetched /\ k \notin held.keys /\ sinceRefresh >= UNKNOWN_KID_REFRESH_SECONDS
        THEN IF keysUp THEN Fetched(0) ELSE [held EXCEPT !.since = 0, !.fetched = FALSE]
        ELSE held

(* verify: is the token accepted, given what _key_for left?                *)
Accepted(token, held) == held.fetched /\ token.kid \in held.keys /\ ~Expired(token)

Verify(token, accepted) ==
    LET held == KeyFor(token.kid)
    IN  /\ accepted = Accepted(token, held)
        /\ jwks' = held.keys
        /\ jwksAge' = held.age
        /\ sinceRefresh' = held.since

(* The engine accepts the token, and the request is answered.              *)
EngineAccepts ==
    /\ Sent
    /\ Verify(request.token, TRUE)
    /\ request' = NoRequest
    /\ UNCHANGED <<cachedJwt, loads, minted, jwtRequest, serviceVars>>

(* Plausible bug, for mutation: the second try uses the token at hand.     *)
EngineRefusesCached ==
    /\ request.step = "sent"
    /\ Verify(request.token, FALSE)
    /\ IF cachedJwt.left > JWT_REFRESH_WINDOW_SECONDS
       THEN /\ request' = [request EXCEPT !.step = "resent", !.token = cachedJwt]
            /\ UNCHANGED <<loads, jwtRequest>>
       ELSE /\ \E l \in Loads : StartLoad(l)
            /\ request' = [request EXCEPT !.step = "reload", !.load = jwtRequest']
    /\ UNCHANGED <<cachedJwt, minted, serviceVars>>

(* The engine refuses the token: getJwt(true) loads another in any case.   *)
EngineRefuses ==
    /\ request.step = "sent"
    /\ Verify(request.token, FALSE)
    /\ \E l \in Loads : StartLoad(l)
    /\ request' = [request EXCEPT !.step = "reload", !.load = jwtRequest']
    /\ UNCHANGED <<cachedJwt, minted, serviceVars>>

(* The engine refuses the new token too: sendToSignIn.                     *)
EngineRefusesAgain ==
    /\ request.step = "resent"
    /\ Verify(request.token, FALSE)
    /\ FreshPage
    /\ UNCHANGED serviceVars

(* Another student's token is looked up, perhaps one of a withdrawn key.   *)
OtherRequest ==
    /\ \E k \in Keys, accepted \in BOOLEAN :
          k <= kid /\ Verify([kid |-> k, left |-> TokenLife], accepted)
    /\ UNCHANGED <<pageVars, serviceVars>>

(* The request ends without an answer: it could not connect, or its        *)
(* deadline passed.  A load it waited for goes on.                         *)
RequestLost ==
    /\ request.step # "rest"
    /\ request' = NoRequest
    /\ UNCHANGED <<cachedJwt, loads, minted, jwtRequest, serviceVars, verifierVars>>

-----------------------------------------------------------------------------
(* External: the account service and time.                                 *)

SessionTurns == signedIn' = ~signedIn /\ UNCHANGED <<authUp, keysUp, kid, published, withdrawnFor>>
AuthTurns    == authUp' = ~authUp /\ UNCHANGED <<signedIn, keysUp, kid, published, withdrawnFor>>
KeysTurn     == keysUp' = ~keysUp /\ UNCHANGED <<signedIn, authUp, kid, published, withdrawnFor>>

(* New tokens are signed with a new key; the old one stays published until *)
(* no request that could carry it is underway.                             *)
RotateKey ==
    /\ kid < MaxKeys
    /\ kid' = kid + 1
    /\ published' = published \cup {kid'}
    /\ UNCHANGED <<signedIn, authUp, keysUp, withdrawnFor>>

WithdrawKey ==
    /\ request.step = "rest"
    /\ \E k \in published \ {kid} : published' = published \ {k}
    /\ UNCHANGED <<signedIn, authUp, keysUp, kid, withdrawnFor>>

(* An engine that restarts has no keys.                                    *)
VerifierForgets ==
    /\ jwks' = NoKeys
    /\ jwksAge' = 0
    /\ sinceRefresh' = UNKNOWN_KID_REFRESH_SECONDS

Older(age, most) == IF age < most THEN age + 1 ELSE age
Shorter(token) ==
    IF token # NoToken /\ ~Expired(token) THEN [token EXCEPT !.left = @ - 1] ELSE token

(* A request lives through at most one change of the unit.                 *)
AccountTick ==
    /\ ~request.over
    /\ request' = [request EXCEPT !.token = Shorter(@), !.over = request.step # "rest"]
    /\ cachedJwt' = Shorter(cachedJwt)
    /\ minted' = [l \in Loads |-> Shorter(minted[l])]
    /\ jwksAge' = IF jwks = NoKeys THEN 0 ELSE Older(jwksAge, JWKS_CACHE_SECONDS)
    /\ sinceRefresh' = Older(sinceRefresh, UNKNOWN_KID_REFRESH_SECONDS)
    /\ withdrawnFor' = [k \in Keys |-> IF k < kid /\ k \notin published
                                       THEN Older(withdrawnFor[k], JWKS_CACHE_SECONDS)
                                       ELSE 0]
    /\ UNCHANGED <<signedIn, authUp, keysUp, kid, published, loads, jwtRequest, jwks>>

-----------------------------------------------------------------------------
(* Properties.                                                             *)

(* The engine goes by no key that was withdrawn as long ago as its copy of *)
(* the keys may live, however often the copy is used in between.           *)
KeysAreCurrent ==
    [][\A k \in Keys :
        EngineAccepts /\ request.token.kid = k =>
            k \in published \/ withdrawnFor[k] < JWKS_CACHE_SECONDS]_accountVars

(* A student whose session lives is told "Your session has ended" only if  *)
(* the engine could not get at the key that signed the newest token: the   *)
(* key endpoint fails, or an unknown key was asked for within the last     *)
(* UNKNOWN_KID_REFRESH_SECONDS.  No token too old, and no key withdrawn,   *)
(* ever sends a signed-in student away.                                    *)
SignInIsNeeded ==
    [][EngineRefusesAgain /\ signedIn =>
           /\ request.token.kid \in published
           /\ ~keysUp \/ (request.token.kid \notin jwks
                            /\ sinceRefresh < UNKNOWN_KID_REFRESH_SECONDS)]_accountVars
=============================================================================
