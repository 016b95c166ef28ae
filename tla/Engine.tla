------------------------------- MODULE Engine -------------------------------
(***************************************************************************)
(* useEngineStatus in web/lib/engine.ts: how a page finds out whether the  *)
(* tutoring engine answers.  A probe asks /health; while it fails the page *)
(* asks again, says "waking" for a window of time the student really       *)
(* watched, and then "offline".  A hidden page stops every timer; a retry, *)
(* or a request that could not connect, begins a new cycle and disowns a   *)
(* probe still in flight.                                                  *)
(*                                                                         *)
(* Every callback of the event loop is one action.  Timers that only pace  *)
(* the probes fire at any time; the wake deadline is counted.              *)
(***************************************************************************)
EXTENDS Integers

CONSTANT WAKE_WINDOW   \* WAKE_WINDOW_MS, in units of visible time

ASSUME EngineAssumption == WAKE_WINDOW \in Nat \ {0}

VARIABLES
    up,              \* does the engine answer within PROBE_TIMEOUT_MS?
    mounted,         \* is the page with the hook on screen?
    hidden,          \* document.hidden
    state,           \* what the page believes of the engine
    probing,         \* the probe in flight: none, of this cycle, or of an earlier one
    pending,         \* pendingImmediateProbe
    scheduled,       \* scheduledProbe is armed
    grace,           \* the grace before "checking" becomes "waking"
    wakeElapsed,     \* wakeElapsedMs: visible time up to the last time the page was hidden
    visibleFor,      \* now - visibleSince, NoTime while the page is hidden
    deadline,        \* what is left of wakeDeadlineTimer, NoTime if it is not armed
    offered,         \* "Try again now" can be pressed, as React last rendered it
    waited           \* for checking: visible time since the cycle began

statusVars == <<mounted, hidden, state, probing, pending, scheduled, grace, wakeElapsed,
                visibleFor, deadline, offered, waited>>
engineVars == <<up, statusVars>>

NoTime == -1

Clock  == 0 .. WAKE_WINDOW
States == {"checking", "waking", "online", "offline"}

FlagsOK ==
    /\ up \in BOOLEAN /\ mounted \in BOOLEAN /\ hidden \in BOOLEAN
    /\ pending \in BOOLEAN /\ scheduled \in BOOLEAN /\ offered \in BOOLEAN

EngineTypeOK ==
    /\ FlagsOK
    /\ state \in States
    /\ probing \in {"none", "current", "stale"}
    /\ grace \in {"left", "running", "spent"}
    /\ wakeElapsed \in Clock
    /\ visibleFor \in NoTime .. WAKE_WINDOW
    /\ deadline \in NoTime .. WAKE_WINDOW
    /\ waited \in Clock

-----------------------------------------------------------------------------
(* What the callbacks share.                                               *)

InFlight       == probing # "none"
VisibleElapsed == wakeElapsed + (IF visibleFor = NoTime THEN 0 ELSE visibleFor)

(* clearScheduledProbe, clearGraceTimer, clearWakeDeadline.                *)
Unschedule     == scheduled' = FALSE
StopGrace      == grace' = IF grace = "running" THEN "left" ELSE grace
ClearDeadline  == deadline' = NoTime

(* scheduleProbe, from a callback that leaves the state as s.              *)
ScheduleProbe(s) == scheduled' = (mounted /\ ~hidden /\ s # "online")

(* probe() on a visible page that is not online: start one, or remember to *)
(* when the one in flight ends.                                            *)
Probe ==
    /\ probing' = IF InFlight THEN probing ELSE "current"
    /\ pending' = (pending \/ InFlight)

(* The effect of a page that is loaded: a hidden one asks nothing yet.     *)
Mount ==
    /\ mounted' = TRUE
    /\ state' = "checking"
    /\ probing' = IF hidden THEN "none" ELSE "current"
    /\ grace' = IF hidden THEN "left" ELSE "running"
    /\ deadline' = IF hidden THEN NoTime ELSE WAKE_WINDOW
    /\ visibleFor' = IF hidden THEN NoTime ELSE 0
    /\ pending' = FALSE
    /\ scheduled' = FALSE
    /\ wakeElapsed' = 0
    /\ waited' = 0
    /\ offered' = FALSE

EngineInit ==
    /\ up \in BOOLEAN
    /\ hidden \in BOOLEAN
    /\ mounted = TRUE
    /\ state = "checking"
    /\ probing = IF hidden THEN "none" ELSE "current"
    /\ grace = IF hidden THEN "left" ELSE "running"
    /\ deadline = IF hidden THEN NoTime ELSE WAKE_WINDOW
    /\ visibleFor = IF hidden THEN NoTime ELSE 0
    /\ pending = FALSE
    /\ scheduled = FALSE
    /\ wakeElapsed = 0
    /\ waited = 0
    /\ offered = FALSE

-----------------------------------------------------------------------------
(* Callbacks.                                                              *)

(* The engine answered the probe of this cycle.                            *)
ProbeAnswered ==
    /\ mounted /\ probing = "current" /\ up
    /\ probing' = "none"
    /\ state' = "online"
    /\ pending' = FALSE
    /\ Unschedule
    /\ StopGrace
    /\ ClearDeadline
    /\ UNCHANGED <<up, mounted, hidden, wakeElapsed, visibleFor, offered, waited>>

(* It did not answer, or not within PROBE_TIMEOUT_MS.                      *)
ProbeFailed ==
    /\ mounted /\ probing = "current" /\ ~up
    /\ probing' = "none"
    /\ state' = IF state = "offline" \/ VisibleElapsed >= WAKE_WINDOW THEN "offline" ELSE state
    /\ IF state' = "offline" THEN StopGrace ELSE UNCHANGED grace
    /\ ScheduleProbe(state')
    /\ UNCHANGED <<up, mounted, hidden, pending, wakeElapsed, visibleFor, deadline, offered,
                   waited>>

(* A probe of an earlier cycle ended, aborted or just answered: its result *)
(* is dropped, and the probe asked for meanwhile is made.                  *)
StaleProbeEnded ==
    /\ mounted /\ probing = "stale"
    /\ probing' = IF pending /\ ~hidden THEN "current" ELSE "none"
    /\ pending' = (pending /\ hidden)
    /\ UNCHANGED <<up, mounted, hidden, state, scheduled, grace, wakeElapsed, visibleFor,
                   deadline, offered, waited>>

ScheduledProbeFires ==
    /\ scheduled
    /\ Unschedule
    /\ Probe
    /\ UNCHANGED <<up, mounted, hidden, state, grace, wakeElapsed, visibleFor, deadline,
                   offered, waited>>

GraceFires ==
    /\ grace = "running"
    /\ grace' = "spent"
    /\ state' = IF state = "checking" THEN "waking" ELSE state
    /\ UNCHANGED <<up, mounted, hidden, probing, pending, scheduled, wakeElapsed,
                   visibleFor, deadline, offered, waited>>

(* The callback's own tests never fail: hiding the page, an answer and a   *)
(* new cycle each clear the timer.                                         *)
DeadlineFires ==
    /\ deadline = 0 /\ ~hidden /\ state # "online"
    /\ ClearDeadline
    /\ state' = "offline"
    /\ StopGrace
    /\ IF InFlight THEN Unschedule ELSE ScheduleProbe("offline")
    /\ UNCHANGED <<up, mounted, hidden, probing, pending, wakeElapsed, visibleFor, offered,
                   waited>>

(* The page is hidden.  What the grace had left may be nothing.            *)
Hide ==
    /\ mounted /\ ~hidden
    /\ hidden' = TRUE
    /\ wakeElapsed' = VisibleElapsed
    /\ visibleFor' = NoTime
    /\ Unschedule
    /\ ClearDeadline
    /\ grace' \in IF grace = "running" THEN {"left", "spent"} ELSE {grace}
    /\ UNCHANGED <<up, mounted, state, probing, pending, offered, waited>>

(* The page is seen again: what is left of the window is armed, and the    *)
(* engine is asked at once.                                                *)
Show ==
    /\ mounted /\ hidden
    /\ hidden' = FALSE
    /\ visibleFor' = 0
    /\ IF state = "online"
       THEN UNCHANGED <<state, probing, pending, scheduled, grace, deadline>>
       ELSE /\ Unschedule
            /\ deadline' = IF state = "offline" THEN NoTime ELSE WAKE_WINDOW - wakeElapsed
            /\ grace' = IF state = "checking" /\ grace = "left" THEN "running" ELSE grace
            /\ state' = IF state = "checking" /\ grace = "spent" THEN "waking" ELSE state
            /\ pending' = InFlight
            /\ probing' = IF InFlight THEN probing ELSE "current"
    /\ UNCHANGED <<up, mounted, wakeElapsed, offered, waited>>

(* Plausible bug, for mutation: the time of the cycle before still counts. *)
RestartCountingOn ==
    /\ state' = "waking"
    /\ UNCHANGED wakeElapsed
    /\ visibleFor' = IF hidden THEN NoTime ELSE 0
    /\ deadline' = IF hidden THEN NoTime ELSE WAKE_WINDOW - wakeElapsed
    /\ grace' = "spent"
    /\ Unschedule
    /\ probing' = IF InFlight THEN "stale" ELSE IF hidden THEN "none" ELSE "current"
    /\ pending' = (pending \/ InFlight \/ hidden)
    /\ waited' = 0

(* Plausible bug, for mutation: the probe of the old cycle is aborted, and *)
(* nothing is left to ask again.                                           *)
RestartForgetting ==
    /\ state' = "waking"
    /\ wakeElapsed' = 0
    /\ visibleFor' = IF hidden THEN NoTime ELSE 0
    /\ deadline' = IF hidden THEN NoTime ELSE WAKE_WINDOW
    /\ grace' = "spent"
    /\ Unschedule
    /\ probing' = IF InFlight THEN "stale" ELSE IF hidden THEN "none" ELSE "current"
    /\ pending' = (pending \/ hidden)
    /\ waited' = 0

(* restartWakeWindow.                                                      *)
Restart ==
    /\ state' = "waking"
    /\ wakeElapsed' = 0
    /\ visibleFor' = IF hidden THEN NoTime ELSE 0
    /\ deadline' = IF hidden THEN NoTime ELSE WAKE_WINDOW
    /\ grace' = "spent"
    /\ Unschedule
    /\ probing' = IF InFlight THEN "stale" ELSE IF hidden THEN "none" ELSE "current"
    /\ pending' = (pending \/ InFlight \/ hidden)
    /\ waited' = 0

(* "Try again now", on a banner that may be a moment behind the hook: the  *)
(* button was offered when the page was last rendered.                     *)
ClickRetry ==
    /\ mounted /\ ~hidden
    /\ offered
    /\ Restart
    /\ UNCHANGED <<up, mounted, hidden, offered>>

(* reportUnreachable: a request of the page could not connect.             *)
ReportUnreachable ==
    /\ mounted
    /\ IF state = "online"
       THEN Restart
       ELSE UNCHANGED <<state, wakeElapsed, visibleFor, deadline, grace, scheduled, probing,
                        pending, waited>>
    /\ UNCHANGED <<up, mounted, hidden, offered>>

Render ==
    /\ mounted
    /\ offered' = (state \in {"waking", "offline"} /\ ~InFlight)
    /\ UNCHANGED <<up, mounted, hidden, state, probing, pending, scheduled, grace,
                   wakeElapsed, visibleFor, deadline, waited>>

(* The clean-up of the effect; what was in flight ends unheard.            *)
Unmount ==
    /\ mounted
    /\ mounted' = FALSE
    /\ probing' = "none"
    /\ Unschedule
    /\ StopGrace
    /\ ClearDeadline
    /\ UNCHANGED <<up, hidden, state, pending, wakeElapsed, visibleFor, offered, waited>>

Load == Mount /\ UNCHANGED <<up, hidden>>

(* Time passes.  Beyond the window the page cannot tell it apart, and an   *)
(* online page does not count it: the next cycle starts from nothing.      *)
WatchTick ==
    /\ mounted /\ state # "online"
    /\ IF hidden THEN UNCHANGED <<visibleFor, waited>>
                 ELSE /\ VisibleElapsed < WAKE_WINDOW /\ waited < WAKE_WINDOW
                      /\ visibleFor' = visibleFor + 1
                      /\ waited' = waited + 1
    /\ deadline' = IF deadline > 0 THEN deadline - 1 ELSE deadline
    /\ UNCHANGED <<up, mounted, hidden, state, probing, pending, scheduled, grace,
                   wakeElapsed, offered>>

(* External: the host puts the engine to sleep, or it comes up.            *)
EngineTurns == up' = ~up /\ UNCHANGED statusVars

ProbeEnds == ProbeAnswered \/ ProbeFailed \/ StaleProbeEnded

EngineNext ==
    \/ ProbeEnds \/ ScheduledProbeFires \/ GraceFires \/ DeadlineFires
    \/ Hide \/ Show \/ ClickRetry \/ ReportUnreachable \/ Render \/ WatchTick
    \/ Load \/ Unmount \/ EngineTurns

EngineSpec == EngineInit /\ [][EngineNext]_engineVars

-----------------------------------------------------------------------------
(* Properties.                                                             *)

(* A page that is looked at and does not believe the engine online has a   *)
(* probe in flight or a timer that will send one: through every order of   *)
(* hiding, retrying, deadlines and late answers it never stops asking.     *)
NeverStranded ==
    mounted /\ ~hidden /\ state # "online" => InFlight \/ scheduled

(* "Can't reach the tutoring engine" is said only after the student has    *)
(* watched a whole wake window of the present cycle: time in a background  *)
(* tab, and time of an earlier cycle, do not count against the engine.     *)
OfflineIsEarned == mounted /\ state = "offline" => waited >= WAKE_WINDOW
=============================================================================
