------------------------------ MODULE Arrival ------------------------------
(***************************************************************************)
(* How a student gets from a loaded page to learning: web/app/page.tsx     *)
(* waits for the account session and for the engine (startupDecision),     *)
(* asks who the student is, and opens a session by itself for a student    *)
(* it knows, or when "Start Learning" is pressed.  Engine.tla says when    *)
(* the engine is believed online, Account.tla how the requests are         *)
(* authorised.  An engine that goes down forgets the keys it held.         *)
(***************************************************************************)
EXTENDS Engine, Account

CONSTANT MaxTroubles   \* bound on everything that goes wrong outside the page

VARIABLES
    stage,        \* what the page shows
    account,      \* what useSession has said of the account
    me,           \* GET /me, once answered
    meRequested,
    resumeRequested,
    troubles      \* what went wrong so far

visitVars == <<stage, account, me, meRequested, resumeRequested>>
vars      == <<engineVars, accountVars, visitVars, troubles>>

FreshVisit ==
    /\ stage' = "resuming"
    /\ account' = "pending"
    /\ me' = "unknown"
    /\ meRequested' = FALSE
    /\ resumeRequested' = FALSE

Init ==
    /\ EngineInit
    /\ AccountInit
    /\ stage = "resuming"
    /\ account = "pending"
    /\ me = "unknown"
    /\ meRequested = FALSE
    /\ resumeRequested = FALSE
    /\ troubles = 0

Trouble == troubles < MaxTroubles /\ troubles' = troubles + 1

(* A callback of the hook changes nothing else.                            *)
Hook(A) == A /\ UNCHANGED <<accountVars, visitVars, troubles>>

StatusStep ==
    Hook(ProbeEnds \/ ScheduledProbeFires \/ GraceFires \/ DeadlineFires \/ Show \/ Render
         \/ WatchTick)

(* The student turns to another tab, or presses "Try again now".           *)
StudentActs ==
    /\ Hide \/ ClickRetry
    /\ Trouble
    /\ UNCHANGED <<accountVars, visitVars>>

Away == stage = "sign-in"

(* The arrival is over: what the page does then is in TutorPage and        *)
(* DiagnosticPage, and its tokens are not followed further.                *)
Arrived == stage = "learning"

-----------------------------------------------------------------------------
(* The page.                                                               *)

(* useSession settles; a session that cannot be read counts as none.       *)
AccountKnown ==
    /\ ~Away /\ account = "pending"
    /\ account' \in (IF signedIn THEN {"in"} ELSE {"out"}) \cup (IF authUp THEN {} ELSE {"out"})
    /\ UNCHANGED <<engineVars, accountVars, stage, me, meRequested, resumeRequested,
                   troubles>>

StartupDecision ==
    CASE account = "pending" -> "wait"
      [] account = "out"     -> "sign-in"
      [] state # "online"    -> "wait"
      [] me = "unknown"      -> "wait"
      [] me = "known"        -> "resume"
      [] me = "new"          -> "welcome"

Begins(what) == Begin(what) /\ UNCHANGED <<engineVars, troubles>>

(* The effect of page.tsx asks who the student is, once.                   *)
AskMe ==
    /\ stage = "resuming"
    /\ account = "in" /\ state = "online" /\ me = "unknown" /\ ~meRequested
    /\ meRequested' = TRUE
    /\ Begins("me")
    /\ UNCHANGED <<stage, account, me, resumeRequested>>

Resume ==
    /\ stage = "resuming" /\ StartupDecision = "resume" /\ ~resumeRequested
    /\ resumeRequested' = TRUE
    /\ Begins("enter")
    /\ UNCHANGED <<stage, account, me, meRequested>>

(* Only the effect of the stage "resuming" reads what it keeps of its      *)
(* requests, and the page comes back to that stage by being loaded anew:   *)
(* once on the welcome the model forgets it.                               *)
ToWelcome ==
    /\ stage' = "welcome"
    /\ me' = "unknown"
    /\ meRequested' = FALSE
    /\ resumeRequested' = FALSE
    /\ UNCHANGED account

Welcome ==
    /\ stage = "resuming" /\ StartupDecision = "welcome"
    /\ ToWelcome
    /\ UNCHANGED <<engineVars, accountVars, troubles>>

(* "Start Learning": canStart.                                             *)
PressStart ==
    /\ stage = "welcome" /\ account # "pending" /\ state = "online"
    /\ Begins("enter")
    /\ UNCHANGED visitVars

(* The page leaves for the sign-in page.                                   *)
LeaveForSignIn ==
    /\ stage' = "sign-in"
    /\ Unmount
    /\ UNCHANGED <<account, me, meRequested, resumeRequested, troubles>>

NoAccount ==
    /\ stage = "resuming" /\ StartupDecision = "sign-in"
    /\ FreshPage
    /\ UNCHANGED <<serviceVars, verifierVars>>
    /\ LeaveForSignIn

SentAway ==
    /\ \/ \E l \in Loads : LoadRefused(l)
       \/ up /\ EngineRefusesAgain
    /\ LeaveForSignIn

(* The student signs in again and comes back.                              *)
Returns ==
    /\ Away
    /\ signedIn' = TRUE
    /\ FreshVisit
    /\ Load
    /\ UNCHANGED <<pageVars, verifierVars, authUp, keysUp, kid, published, withdrawnFor,
                   troubles>>

(* The request is answered.                                                *)
Answered ==
    /\ up
    /\ EngineAccepts
    /\ IF request.what = "me"
       THEN me' \in {"known", "new"} /\ UNCHANGED stage
       ELSE stage' = "learning" /\ UNCHANGED me
    /\ UNCHANGED <<engineVars, account, meRequested, resumeRequested, troubles>>

(* Plausible bug, for mutation: the error is shown, the stage is kept.     *)
ShowsErrorOnly == UNCHANGED visitVars

(* It failed: whatever the page was doing, it shows the welcome.           *)
ShowsError == ToWelcome

(* presentError reports a request that could not connect to the hook.      *)
CannotConnect ==
    /\ Sent /\ ~up
    /\ RequestLost
    /\ ReportUnreachable
    /\ ShowsError
    /\ UNCHANGED <<troubles>>

DeadlinePasses ==
    /\ ~up \/ ~authUp \/ ~keysUp
    /\ RequestLost
    /\ ShowsError
    /\ UNCHANGED <<engineVars, troubles>>

LoadFails ==
    /\ \E l \in Loads : NoRoute(l)
    /\ IF request' # request THEN ShowsError ELSE UNCHANGED visitVars
    /\ UNCHANGED <<engineVars, troubles>>

LoadProceeds ==
    /\ \E l \in Loads : TokenRoute(l) \/ SessionRoute(l) \/ TokenLoaded(l)
    /\ UNCHANGED <<engineVars, visitVars, troubles>>

TriesAgain ==
    /\ up
    /\ EngineRefuses
    /\ UNCHANGED <<engineVars, visitVars, troubles>>

-----------------------------------------------------------------------------
(* Outside the page.                                                       *)

EngineStarts == ~up /\ EngineTurns /\ UNCHANGED <<accountVars, visitVars, troubles>>

EngineGoesDown ==
    /\ up
    /\ EngineTurns
    /\ VerifierForgets
    /\ Trouble
    /\ UNCHANGED <<serviceVars, pageVars, visitVars>>

ServiceRecovers ==
    /\ \/ ~authUp /\ AuthTurns
       \/ ~keysUp /\ KeysTurn
    /\ UNCHANGED <<engineVars, pageVars, verifierVars, visitVars, troubles>>

ServiceFails ==
    /\ \/ authUp /\ AuthTurns
       \/ keysUp /\ KeysTurn
       \/ signedIn /\ SessionTurns
    /\ Trouble
    /\ UNCHANGED <<engineVars, pageVars, verifierVars, visitVars>>

KeysChange ==
    /\ ~Arrived
    /\ RotateKey \/ WithdrawKey
    /\ Trouble
    /\ UNCHANGED <<engineVars, pageVars, verifierVars, visitVars>>

OthersAsk ==
    ~Arrived /\ up /\ OtherRequest /\ UNCHANGED <<engineVars, visitVars, troubles>>

TimePasses == ~Arrived /\ AccountTick /\ UNCHANGED <<engineVars, visitVars, troubles>>

(* The student loads the page again.                                       *)
Reload ==
    /\ ~Away /\ mounted
    /\ FreshPage
    /\ FreshVisit
    /\ Load
    /\ Trouble
    /\ UNCHANGED <<serviceVars, verifierVars>>

Next ==
    \/ StatusStep \/ StudentActs
    \/ AccountKnown \/ AskMe \/ Resume \/ Welcome \/ PressStart \/ NoAccount \/ SentAway
    \/ Returns \/ Answered \/ CannotConnect \/ DeadlinePasses \/ LoadFails \/ LoadProceeds
    \/ TriesAgain
    \/ EngineStarts \/ EngineGoesDown \/ ServiceRecovers \/ ServiceFails \/ KeysChange
    \/ OthersAsk \/ TimePasses \/ Reload

Spec == Init /\ [][Next]_vars

(* The browser runs its callbacks and timers and settles its promises, a   *)
(* server that is up answers, time passes, and the student wants to learn: *)
(* signs in where asked to, and presses "Start Learning".  Nothing makes   *)
(* the student look at the page or a service recover.                      *)
Fairness ==
    /\ WF_vars(Hook(ProbeEnds))
    /\ WF_vars(Hook(ScheduledProbeFires))
    /\ WF_vars(AccountKnown)
    /\ WF_vars(AskMe \/ Resume \/ Welcome \/ NoAccount)
    /\ WF_vars(PressStart)
    /\ WF_vars(Returns)
    /\ WF_vars(LoadProceeds \/ LoadFails \/ SentAway)
    /\ WF_vars(Answered \/ TriesAgain \/ CannotConnect)
    /\ WF_vars(TimePasses)

FairSpec == Spec /\ Fairness

-----------------------------------------------------------------------------
(* Properties.                                                             *)

Calm == up /\ authUp /\ keysUp /\ ~hidden

(* Once everything is up and the page is looked at, the student comes to   *)
(* learn and stays: whatever went wrong before, and in whichever order,    *)
(* leaves no page waiting, no flag set and no token or key that refuses    *)
(* the student again and again.                                            *)
StudentArrives == <>[]Calm => <>[]Arrived
=============================================================================
