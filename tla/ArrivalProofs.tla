--------------------------- MODULE ArrivalProofs ---------------------------
(***************************************************************************)
(* What holds of every arrival, for every window, life of a token, life of *)
(* the engine's keys and number of keys: the hook inside it behaves as     *)
(* Engine.tla says, the engine goes by no key withdrawn too long ago, and  *)
(* a signed-in student is sent away only when the newest key is out of the *)
(* engine's reach.                                                         *)
(***************************************************************************)
EXTENDS Arrival, EngineProofs

-----------------------------------------------------------------------------
(* The hook.                                                               *)

LEMMA StepsOfTheHook == [Next]_vars => [EngineNext]_engineVars
<1> SUFFICES ASSUME [Next]_vars PROVE [EngineNext]_engineVars
    OBVIOUS
<1>1. CASE StatusStep
    BY <1>1 DEF StatusStep, Hook, EngineNext
<1>2. CASE StudentActs
    BY <1>2 DEF StudentActs, EngineNext
<1>3. CASE AccountKnown \/ Welcome
    BY <1>3 DEF AccountKnown, Welcome, ToWelcome
<1>4. CASE AskMe \/ Resume \/ PressStart
    BY <1>4 DEF AskMe, Resume, PressStart, Begins
<1>5. CASE NoAccount \/ SentAway
    BY <1>5 DEF NoAccount, SentAway, LeaveForSignIn, EngineNext
<1>6. CASE Returns \/ Reload
    BY <1>6 DEF Returns, Reload, EngineNext
<1>7. CASE Answered \/ DeadlinePasses \/ LoadFails \/ LoadProceeds \/ TriesAgain
    BY <1>7 DEF Answered, DeadlinePasses, LoadFails, LoadProceeds, TriesAgain
<1>8. CASE CannotConnect
    BY <1>8 DEF CannotConnect, EngineNext
<1>9. CASE EngineStarts \/ EngineGoesDown
    BY <1>9 DEF EngineStarts, EngineGoesDown, EngineNext
<1>10. CASE ServiceRecovers \/ ServiceFails \/ KeysChange \/ OthersAsk \/ TimePasses
    BY <1>10 DEF ServiceRecovers, ServiceFails, KeysChange, OthersAsk, TimePasses
<1>11. CASE UNCHANGED vars
    BY <1>11 DEF vars
<1> QED
    BY <1>1, <1>2, <1>3, <1>4, <1>5, <1>6, <1>7, <1>8, <1>9, <1>10, <1>11 DEF Next

(* Whatever the requests, the account and the services do, the hook of an  *)
(* arriving page takes steps of Engine.tla only.                           *)
THEOREM ArrivalKeepsTheHook == Spec => EngineSpec
<1>1. Init => EngineInit
    BY DEF Init
<1> QED  BY <1>1, StepsOfTheHook, PTL DEF Spec, EngineSpec

(* A page that is looked at and not online never stops asking.             *)
THEOREM ArrivalNeverStranded == Spec => []NeverStranded
    BY ArrivalKeepsTheHook, HookNeverStranded, PTL

(* "Offline" is said only after a whole window was watched.                *)
THEOREM ArrivalOfflineIsEarned == Spec => []OfflineIsEarned
    BY ArrivalKeepsTheHook, HookOfflineIsEarned, PTL

-----------------------------------------------------------------------------
(* The keys.                                                               *)

(* The engine's copy was published when it was fetched, so that a key in   *)
(* it has been withdrawn for no longer than the copy is old.               *)
KeysInv ==
    /\ kid \in Keys
    /\ published \subseteq 1 .. kid /\ kid \in published
    /\ withdrawnFor \in [Keys -> 0 .. JWKS_CACHE_SECONDS]
    /\ \A k \in Keys : k \in published \/ k > kid => withdrawnFor[k] = 0
    /\ jwksAge \in 0 .. JWKS_CACHE_SECONDS
    /\ sinceRefresh \in 0 .. UNKNOWN_KID_REFRESH_SECONDS
    /\ jwks = NoKeys \/ jwks \subseteq 1 .. kid
    /\ \A k \in Keys \cap jwks : withdrawnFor[k] <= jwksAge

(* What _key_for leaves: the keys published now, if it fetched them, or    *)
(* the copy it had.                                                        *)
LEMMA KeyForLeaves ==
    ASSUME KeysInv, NEW k
    PROVE  /\ \/ KeyFor(k).keys = published /\ KeyFor(k).age = 0
              \/ KeyFor(k).keys = jwks /\ KeyFor(k).age = jwksAge
           /\ KeyFor(k).since \in {0, sinceRefresh}
<1> USE DEF KeyFor, Fetch, Fetched, NotFetched
<1>1. CASE keysUp
    BY <1>1
<1>2. CASE ~keysUp
    BY <1>2
<1> QED  BY <1>1, <1>2

LEMMA KeysInvInit == AccountInit => KeysInv
    BY AccountAssumption DEF AccountAssumption, AccountInit, KeysInv, Keys, NoKeys, None

LEMMA KeysInvVerify ==
    ASSUME KeysInv, UNCHANGED serviceVars, NEW token, NEW accepted, Verify(token, accepted)
    PROVE  KeysInv'
<1> DEFINE held == KeyFor(token.kid)
<1>1. jwks' = held.keys /\ jwksAge' = held.age /\ sinceRefresh' = held.since
    BY DEF Verify
<1>2. \/ jwks' = published /\ jwksAge' = 0
      \/ jwks' = jwks /\ jwksAge' = jwksAge
    BY <1>1, KeyForLeaves
<1>3. sinceRefresh' \in {0, sinceRefresh}
    BY <1>1, KeyForLeaves
<1> HIDE DEF held
<1> USE AccountAssumption DEF AccountAssumption, KeysInv, serviceVars
<1>4. jwksAge' \in 0 .. JWKS_CACHE_SECONDS /\ sinceRefresh' \in 0 .. UNKNOWN_KID_REFRESH_SECONDS
    BY <1>2, <1>3
<1>5. \A k \in Keys \cap jwks' : withdrawnFor'[k] <= jwksAge'
    BY <1>2
<1>6. jwks' = NoKeys \/ jwks' \subseteq 1 .. kid'
    BY <1>2
<1> QED  BY <1>4, <1>5, <1>6

(* Keys come and go at the endpoint while the engine's copy stays.         *)
LEMMA KeysInvService ==
    ASSUME KeysInv, UNCHANGED verifierVars,
           \/ UNCHANGED serviceVars
           \/ signedIn' \in BOOLEAN /\ UNCHANGED <<kid, published, withdrawnFor>>
           \/ RotateKey \/ WithdrawKey
    PROVE  KeysInv'
<1> USE AccountAssumption DEF AccountAssumption, KeysInv, verifierVars, NoKeys, Keys, None
<1>1. CASE UNCHANGED <<kid, published, withdrawnFor>>
    BY <1>1
<1>2. CASE RotateKey
  <2>1. kid' = kid + 1 /\ kid' \in Keys /\ published' = published \cup {kid'}
        /\ withdrawnFor' = withdrawnFor
    BY <1>2 DEF RotateKey
  <2>2. published' \subseteq 1 .. kid' /\ kid' \in published'
    BY <2>1
  <2>3. \A k \in Keys : k \in published' \/ k > kid' => withdrawnFor'[k] = 0
    BY <2>1
  <2>4. jwks' = NoKeys \/ jwks' \subseteq 1 .. kid'
    BY <2>1
  <2> QED  BY <2>1, <2>2, <2>3, <2>4
<1>3. CASE WithdrawKey
    BY <1>3 DEF WithdrawKey
<1> QED  BY <1>1, <1>2, <1>3 DEF serviceVars

LEMMA KeysInvTick == KeysInv /\ AccountTick => KeysInv'
<1> SUFFICES ASSUME KeysInv, AccountTick PROVE KeysInv'
    OBVIOUS
<1> USE AccountAssumption DEF AccountAssumption, KeysInv, AccountTick, Older
<1>1. jwksAge' \in 0 .. JWKS_CACHE_SECONDS
    OBVIOUS
<1>2. sinceRefresh' \in 0 .. UNKNOWN_KID_REFRESH_SECONDS
    OBVIOUS
<1>3. withdrawnFor' \in [Keys -> 0 .. JWKS_CACHE_SECONDS]
    OBVIOUS
<1>4. \A k \in Keys : k \in published \/ k > kid => withdrawnFor'[k] = 0
    BY DEF Keys
<1>5. ASSUME NEW k \in Keys \cap jwks PROVE withdrawnFor'[k] <= jwksAge'
    BY <1>5 DEF Keys, NoKeys, None
<1> QED  BY <1>1, <1>2, <1>3, <1>4, <1>5

LEMMA KeysInvForget ==
    ASSUME KeysInv, UNCHANGED serviceVars, VerifierForgets
    PROVE  KeysInv'
    BY AccountAssumption
       DEF AccountAssumption, KeysInv, serviceVars, VerifierForgets, Keys, NoKeys, None

(* Every step of an arrival touches keys in one of these ways.             *)
LEMMA StepsOfTheKeys ==
    ASSUME [Next]_vars
    PROVE  \/ UNCHANGED <<kid, published, withdrawnFor, verifierVars>>
           \/ UNCHANGED serviceVars /\ \E token, accepted : Verify(token, accepted)
           \/ UNCHANGED serviceVars /\ VerifierForgets
           \/ UNCHANGED verifierVars /\ (RotateKey \/ WithdrawKey)
           \/ AccountTick
<1> USE DEF accountVars, serviceVars, verifierVars
<1>1. CASE StatusStep \/ StudentActs \/ AccountKnown \/ Welcome \/ EngineStarts
    BY <1>1 DEF StatusStep, Hook, StudentActs, AccountKnown, Welcome, ToWelcome, EngineStarts
<1>2. CASE AskMe \/ Resume \/ PressStart
    BY <1>2 DEF AskMe, Resume, PressStart, Begins, Begin
<1>3. CASE NoAccount \/ Returns \/ Reload
    BY <1>3 DEF NoAccount, Returns, Reload
<1>4. CASE SentAway
    BY <1>4 DEF SentAway, LoadRefused, EngineRefusesAgain
<1>5. CASE Answered \/ TriesAgain \/ OthersAsk
    BY <1>5 DEF Answered, TriesAgain, OthersAsk, EngineAccepts, EngineRefuses, OtherRequest
<1>6. CASE CannotConnect \/ DeadlinePasses
    BY <1>6 DEF CannotConnect, DeadlinePasses, RequestLost
<1>7. CASE LoadFails \/ LoadProceeds
    BY <1>7 DEF LoadFails, LoadProceeds, NoRoute, TokenRoute, SessionRoute, TokenLoaded
<1>8. CASE EngineGoesDown
    BY <1>8 DEF EngineGoesDown
<1>9. CASE ServiceRecovers \/ ServiceFails
    BY <1>9 DEF ServiceRecovers, ServiceFails, AuthTurns, KeysTurn, SessionTurns
<1>10. CASE KeysChange
    BY <1>10 DEF KeysChange
<1>11. CASE TimePasses
    BY <1>11 DEF TimePasses
<1>12. CASE UNCHANGED vars
    BY <1>12 DEF vars
<1> QED
    BY <1>1, <1>2, <1>3, <1>4, <1>5, <1>6, <1>7, <1>8, <1>9, <1>10, <1>11, <1>12 DEF Next

LEMMA KeysInvariant == Spec => []KeysInv
<1>1. Init => KeysInv
    BY KeysInvInit DEF Init
<1>2. KeysInv /\ [Next]_vars => KeysInv'
  <2> SUFFICES ASSUME KeysInv, [Next]_vars PROVE KeysInv'
      OBVIOUS
  <2>1. CASE UNCHANGED <<kid, published, withdrawnFor, verifierVars>>
      BY <2>1 DEF KeysInv, verifierVars
  <2>2. CASE UNCHANGED serviceVars /\ \E token, accepted : Verify(token, accepted)
      BY <2>2, KeysInvVerify
  <2>3. CASE UNCHANGED serviceVars /\ VerifierForgets
      BY <2>3, KeysInvForget
  <2>4. CASE UNCHANGED verifierVars /\ (RotateKey \/ WithdrawKey)
      BY <2>4, KeysInvService
  <2>5. CASE AccountTick
      BY <2>5, KeysInvTick
  <2> QED  BY <2>1, <2>2, <2>3, <2>4, <2>5, StepsOfTheKeys
<1> QED  BY <1>1, <1>2, PTL DEF Spec

(* No key withdrawn longer ago than the engine's copy may live is ever     *)
(* gone by.                                                                *)
THEOREM ArrivalKeysAreCurrent == Spec => KeysAreCurrent
<1>1. ASSUME KeysInv, [Next]_vars
      PROVE  [\A k \in Keys : EngineAccepts /\ request.token.kid = k =>
                  k \in published \/ withdrawnFor[k] < JWKS_CACHE_SECONDS]_accountVars
  <2> SUFFICES ASSUME NEW k \in Keys, EngineAccepts, request.token.kid = k, k \notin published
               PROVE  withdrawnFor[k] < JWKS_CACHE_SECONDS
      OBVIOUS
  <2> DEFINE held == KeyFor(k)
  <2>1. held.fetched /\ k \in held.keys
      BY Zenon DEF EngineAccepts, Verify, Accepted
  <2>2. k \in jwks /\ jwksAge < JWKS_CACHE_SECONDS
    <3>1. CASE jwks = NoKeys \/ jwksAge >= JWKS_CACHE_SECONDS
        BY <2>1, <3>1 DEF KeyFor, Fetch, Fetched, NotFetched
    <3>2. CASE ~(jwks = NoKeys \/ jwksAge >= JWKS_CACHE_SECONDS)
      <4>1. held.keys \in {published, jwks}
          BY <1>1, KeyForLeaves
      <4> QED  BY <1>1, <2>1, <3>2, <4>1, AccountAssumption DEF AccountAssumption, KeysInv
    <3> QED  BY <3>1, <3>2
  <2>3. withdrawnFor[k] <= jwksAge
      BY <1>1, <2>2 DEF KeysInv
  <2> QED
      BY <1>1, <2>2, <2>3, AccountAssumption DEF AccountAssumption, KeysInv
<1> QED  BY <1>1, KeysInvariant, PTL DEF Spec, KeysAreCurrent

-----------------------------------------------------------------------------
(* The second try.                                                         *)

(* A token made for a request's second try: signed with a key that is      *)
(* still published, and no older than the request.                         *)
Remade(token, over) ==
    /\ token = [kid |-> token.kid, left |-> token.left]
    /\ token.kid \in published
    /\ token.left \in Int
    /\ token.left >= (IF over THEN TokenLife - 1 ELSE TokenLife)

(* The second try is made with such a token, and while the request waits   *)
(* for it, its load has none other: a token under way to an earlier load   *)
(* may replace the page's, but not the request's.                          *)
RequestInv ==
    /\ request = [what |-> request.what, step |-> request.step, load |-> request.load,
                  token |-> request.token, over |-> request.over]
    /\ request.over \in BOOLEAN
    /\ loads = [l \in Loads |-> loads[l]]
    /\ minted = [l \in Loads |-> minted[l]]
    /\ request.step = "resent" => Remade(request.token, request.over)
    /\ request.step = "reload" =>
          /\ request.load \in Loads
          /\ loads[request.load] = "given" => Remade(minted[request.load], request.over)

(* Every step of an arrival touches the request and its load in one of     *)
(* these ways.                                                             *)
LEMMA StepsOfTheRequest ==
    ASSUME [Next]_vars
    PROVE  \/ UNCHANGED <<request, loads, minted>> /\ published \subseteq published'
           \/ request' = NoRequest /\ (UNCHANGED <<loads, minted>> \/ FreshPage)
           \/ \E what : Begin(what)
           \/ \E l \in Loads : TokenRoute(l) \/ SessionRoute(l) \/ TokenLoaded(l) \/ NoRoute(l)
           \/ EngineRefuses
           \/ WithdrawKey /\ UNCHANGED <<request, loads, minted>>
           \/ AccountTick
<1> USE DEF accountVars, serviceVars, pageVars
<1>1. CASE StatusStep \/ StudentActs \/ AccountKnown \/ Welcome \/ EngineStarts
    BY <1>1 DEF StatusStep, Hook, StudentActs, AccountKnown, Welcome, ToWelcome, EngineStarts
<1>2. CASE AskMe \/ Resume \/ PressStart
    BY <1>2 DEF AskMe, Resume, PressStart, Begins
<1>3. CASE NoAccount \/ Returns \/ Reload
    BY <1>3 DEF NoAccount, Returns, Reload, FreshPage
<1>4. CASE SentAway
    BY <1>4 DEF SentAway, LoadRefused, EngineRefusesAgain, FreshPage
<1>5. CASE Answered \/ TriesAgain \/ OthersAsk
    BY <1>5 DEF Answered, TriesAgain, OthersAsk, EngineAccepts, OtherRequest
<1>6. CASE CannotConnect \/ DeadlinePasses
    BY <1>6 DEF CannotConnect, DeadlinePasses, RequestLost
<1>7. CASE LoadFails \/ LoadProceeds
    BY <1>7 DEF LoadFails, LoadProceeds
<1>8. CASE EngineGoesDown
    BY <1>8 DEF EngineGoesDown
<1>9. CASE ServiceRecovers \/ ServiceFails
    BY <1>9 DEF ServiceRecovers, ServiceFails, AuthTurns, KeysTurn, SessionTurns
<1>10. CASE KeysChange
    BY <1>10 DEF KeysChange, RotateKey
<1>11. CASE TimePasses
    BY <1>11 DEF TimePasses
<1>12. CASE UNCHANGED vars
    BY <1>12 DEF vars
<1> QED
    BY <1>1, <1>2, <1>3, <1>4, <1>5, <1>6, <1>7, <1>8, <1>9, <1>10, <1>11, <1>12 DEF Next

(* A token made for a request stays so for the one unit it may live on.    *)
LEMMA RemadeAges ==
    ASSUME NEW token, Remade(token, FALSE), UNCHANGED published
    PROVE  Remade(Shorter(token), TRUE)'
<1> DEFINE older == Shorter(token)
<1>1. /\ token.left \in Int /\ token.left >= TokenLife /\ token.kid \in published
      /\ token = [kid |-> token.kid, left |-> token.left]
    BY DEF Remade
<1>2. older = token \/ older = [kid |-> token.kid, left |-> token.left - 1]
    BY <1>1 DEF Shorter
<1> HIDE DEF older
<1>3. CASE older = token
    BY <1>1, <1>3, AccountAssumption DEF AccountAssumption, Remade, older
<1>4. CASE older = [kid |-> token.kid, left |-> token.left - 1]
    BY <1>1, <1>4, AccountAssumption DEF AccountAssumption, Remade, older
<1> QED  BY <1>2, <1>3, <1>4

(* A new token is made for whoever waits for its load.                     *)
LEMMA RequestInvRoute ==
    ASSUME KeysInv, RequestInv, NEW l \in Loads, TokenRoute(l) \/ SessionRoute(l)
    PROVE  RequestInv'
<1>1. PICK answer \in {"given", "refused", "session", "unavailable"},
           token \in {NewToken, NoToken} :
          Answers(l, answer, token) /\ (answer = "given" => token = NewToken)
    BY DEF TokenRoute, SessionRoute
<1>2. /\ loads' = [k \in Loads |-> IF k = l THEN answer ELSE loads[k]]
      /\ minted' = [k \in Loads |-> IF k = l THEN token ELSE minted[k]]
    BY <1>1 DEF Answers, RequestInv
<1>3. request' = request /\ UNCHANGED serviceVars
    BY DEF TokenRoute, SessionRoute
<1>4. Remade(NewToken, request.over)
  <2>1. TokenLife \in Int /\ request.over \in BOOLEAN /\ kid \in published
      BY AccountAssumption DEF AccountAssumption, RequestInv, KeysInv
  <2>2. NewToken.kid = kid /\ NewToken.left = TokenLife
      BY DEF NewToken
  <2>3. TokenLife >= (IF request.over THEN TokenLife - 1 ELSE TokenLife)
      BY <2>1
  <2> QED  BY <2>1, <2>2, <2>3 DEF Remade, NewToken
<1> QED
    BY <1>1, <1>2, <1>3, <1>4 DEF RequestInv, Remade, serviceVars

LEMMA RequestInvLoad ==
    ASSUME RequestInv, NEW l \in Loads, TokenLoaded(l) \/ NoRoute(l)
    PROVE  RequestInv'
<1>1. /\ loads' = [k \in Loads |-> IF k = l THEN "none" ELSE loads[k]]
      /\ minted' = [k \in Loads |-> IF k = l THEN NoToken ELSE minted[k]]
    BY DEF TokenLoaded, NoRoute, EndLoad, Answers, RequestInv
<1>2. published' = published
    BY DEF TokenLoaded, NoRoute, serviceVars
<1>3. CASE TokenLoaded(l) /\ WaitsFor(l)
  <2>1. request' = [what |-> request.what,
                    step |-> IF request.step = "load" THEN "sent" ELSE "resent",
                    load |-> None, token |-> minted[l], over |-> request.over]
      BY <1>3 DEF TokenLoaded, RequestInv
  <2>2. request.step \in {"load", "reload"} /\ request.load = l /\ loads[l] = "given"
      BY <1>3 DEF TokenLoaded, WaitsFor, Waiting
  <2>3. request.step = "reload" => Remade(minted[l], request.over)
      BY <2>2 DEF RequestInv
  <2> QED
      BY <1>1, <1>2, <2>1, <2>2, <2>3 DEF RequestInv, Remade
<1>4. CASE request' = request
    BY <1>1, <1>2, <1>4 DEF RequestInv, Remade
<1>5. CASE request' = NoRequest
    BY <1>1, <1>5 DEF RequestInv, NoRequest
<1> QED  BY <1>3, <1>4, <1>5 DEF TokenLoaded, NoRoute

LEMMA RequestInvTick ==
    ASSUME RequestInv, AccountTick
    PROVE  RequestInv'
<1>1. request' = [what |-> request.what, step |-> request.step, load |-> request.load,
                  token |-> Shorter(request.token), over |-> request.step # "rest"]
    BY DEF AccountTick, RequestInv
<1>2. ~request.over /\ published' = published /\ loads' = loads
    BY DEF AccountTick
<1>3. minted' = [l \in Loads |-> Shorter(minted[l])]
    BY DEF AccountTick
<1>4. ASSUME request.step = "resent" PROVE Remade(request.token, request.over)'
    BY <1>1, <1>2, <1>4, RemadeAges DEF RequestInv, Remade
<1>5. ASSUME request.step = "reload"
      PROVE  /\ request.load \in Loads
             /\ loads[request.load] = "given" => Remade(minted[request.load], request.over)'
    BY <1>1, <1>2, <1>3, <1>5, RemadeAges DEF RequestInv, Remade
<1> QED  BY <1>1, <1>2, <1>3, <1>4, <1>5 DEF RequestInv

LEMMA RequestInvStep == KeysInv /\ RequestInv /\ [Next]_vars => RequestInv'
<1> SUFFICES ASSUME KeysInv, RequestInv, [Next]_vars PROVE RequestInv'
    OBVIOUS
<1>1. CASE UNCHANGED <<request, loads, minted>> /\ published \subseteq published'
    BY <1>1 DEF RequestInv, Remade
<1>2. CASE request' = NoRequest /\ (UNCHANGED <<loads, minted>> \/ FreshPage)
    BY <1>2 DEF RequestInv, NoRequest, FreshPage, NoTokens
<1>3. ASSUME NEW what, Begin(what) PROVE RequestInv'
    BY <1>3 DEF RequestInv, Begin, NoRequest, StartLoad
<1>4. ASSUME NEW l \in Loads, TokenRoute(l) \/ SessionRoute(l) \/ TokenLoaded(l) \/ NoRoute(l)
      PROVE  RequestInv'
    BY <1>4, RequestInvRoute, RequestInvLoad
<1>5. CASE EngineRefuses
    BY <1>5 DEF RequestInv, EngineRefuses, StartLoad
<1>6. CASE WithdrawKey /\ UNCHANGED <<request, loads, minted>>
    BY <1>6 DEF RequestInv, WithdrawKey
<1>7. CASE AccountTick
    BY <1>7, RequestInvTick
<1> QED
    BY <1>1, <1>2, <1>3, <1>4, <1>5, <1>6, <1>7, StepsOfTheRequest

LEMMA RequestInvariant == Spec => []RequestInv
<1>1. Init => RequestInv
    BY DEF Init, AccountInit, RequestInv, NoRequest, NoTokens
<1> QED  BY <1>1, RequestInvStep, KeysInvariant, PTL DEF Spec

(* A signed-in student is sent to sign in only if the key of the newest    *)
(* token is out of the engine's reach.                                     *)
THEOREM ArrivalSignInIsNeeded == Spec => SignInIsNeeded
<1>1. ASSUME KeysInv, RequestInv
      PROVE  [EngineRefusesAgain /\ signedIn =>
                /\ request.token.kid \in published
                /\ ~keysUp \/ (request.token.kid \notin jwks
                                 /\ sinceRefresh < UNKNOWN_KID_REFRESH_SECONDS)]_accountVars
  <2> SUFFICES ASSUME EngineRefusesAgain, keysUp
               PROVE  /\ request.token.kid \in published
                      /\ request.token.kid \notin jwks
                      /\ sinceRefresh < UNKNOWN_KID_REFRESH_SECONDS
      BY <1>1 DEF EngineRefusesAgain, RequestInv, Remade
  <2> DEFINE k == request.token.kid
             held == KeyFor(k)
  <2>1. Remade(request.token, request.over)
      BY <1>1 DEF EngineRefusesAgain, RequestInv
  <2>2. ~Expired(request.token)
    <3>1. request.over \in BOOLEAN
        BY <1>1 DEF RequestInv
    <3>2. request.token.left \in Int /\ request.token.left >= TokenLife - 1
        BY <2>1, <3>1, AccountAssumption DEF AccountAssumption, Remade
    <3> QED  BY <3>2, AccountAssumption DEF AccountAssumption, Expired
  <2>3. ~Accepted(request.token, held)
      BY Zenon DEF EngineRefusesAgain, Verify
  <2>4. ~(held.fetched /\ k \in held.keys)
      BY <2>2, <2>3 DEF Accepted
  <2>5. k \in published
      BY <2>1 DEF Remade
  <2>6. ~(jwks = NoKeys \/ jwksAge >= JWKS_CACHE_SECONDS)
      BY <2>4, <2>5 DEF KeyFor, Fetch, Fetched, NotFetched
  <2>7. k \notin jwks /\ ~(sinceRefresh >= UNKNOWN_KID_REFRESH_SECONDS)
      BY <2>4, <2>5, <2>6 DEF KeyFor, Fetch, Fetched, NotFetched
  <2> QED
      BY <1>1, <2>5, <2>7, AccountAssumption DEF AccountAssumption, KeysInv
<1> QED  BY <1>1, KeysInvariant, RequestInvariant, PTL DEF SignInIsNeeded
=============================================================================
