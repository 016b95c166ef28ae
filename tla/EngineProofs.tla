---------------------------- MODULE EngineProofs ----------------------------
(***************************************************************************)
(* What holds of the engine status hook for every wake window, whatever    *)
(* the student, the engine and the timers do, and in whichever order.      *)
(***************************************************************************)
EXTENDS Engine, TLAPS

(* The time the hook computes from what it kept is the time that was       *)
(* watched, and an armed deadline is what the window has left of it.       *)
TimesAgree ==
    /\ hidden <=> visibleFor = NoTime
    /\ VisibleElapsed = waited
    /\ deadline # NoTime => /\ mounted /\ ~hidden /\ state # "online"
                            /\ deadline + waited = WAKE_WINDOW

(* Only a page on screen that is not online has probes and timers for      *)
(* them, and a probe that was disowned is to be followed by another.       *)
ProbesFit ==
    /\ InFlight => mounted /\ state # "online"
    /\ scheduled => mounted /\ ~hidden /\ state # "online"
    /\ probing = "stale" /\ ~hidden => pending

EngineInv == EngineTypeOK /\ TimesAgree /\ ProbesFit /\ NeverStranded /\ OfflineIsEarned

LEMMA InitEstablishes == EngineInit => EngineInv
<1> SUFFICES ASSUME EngineInit PROVE EngineInv
    OBVIOUS
<1> USE EngineAssumption DEF EngineAssumption, EngineInit, NoTime
<1>1. EngineTypeOK
  <2>1. FlagsOK
    BY Zenon DEF FlagsOK, EngineTypeOK
  <2> QED  BY <2>1 DEF EngineTypeOK, States, Clock
<1>2. TimesAgree
    BY DEF TimesAgree, VisibleElapsed
<1>3. ProbesFit /\ NeverStranded /\ OfflineIsEarned
    BY DEF ProbesFit, NeverStranded, OfflineIsEarned, InFlight
<1> QED  BY <1>1, <1>2, <1>3 DEF EngineInv

(* Loading the page and beginning a new cycle establish the invariant      *)
(* whatever held before of what they set.                                  *)
LEMMA MountEstablishes ==
    ASSUME EngineTypeOK, Mount, UNCHANGED <<up, hidden>>
    PROVE  EngineInv'
<1> USE EngineAssumption DEF EngineAssumption, Mount, NoTime
<1>1. EngineTypeOK'
  <2>1. FlagsOK'
    BY Zenon DEF FlagsOK, EngineTypeOK
  <2> QED  BY <2>1 DEF EngineTypeOK, States, Clock
<1>2. TimesAgree'
    BY DEF TimesAgree, VisibleElapsed, EngineTypeOK
<1>3. ProbesFit' /\ NeverStranded' /\ OfflineIsEarned'
    BY DEF ProbesFit, NeverStranded, OfflineIsEarned, InFlight, EngineTypeOK
<1> QED  BY <1>1, <1>2, <1>3 DEF EngineInv

LEMMA RestartEstablishes ==
    ASSUME EngineInv, mounted, Restart, UNCHANGED <<up, mounted, hidden, offered>>
    PROVE  EngineInv'
<1> USE EngineAssumption DEF EngineAssumption, Restart, NoTime, Unschedule, EngineInv, InFlight
<1>1. EngineTypeOK'
  <2>1. FlagsOK'
    BY Zenon DEF FlagsOK, EngineTypeOK
  <2> QED  BY <2>1 DEF EngineTypeOK, States, Clock
<1>2. TimesAgree'
    BY DEF TimesAgree, VisibleElapsed, EngineTypeOK
<1>3. ProbesFit' /\ NeverStranded' /\ OfflineIsEarned'
    BY DEF ProbesFit, NeverStranded, OfflineIsEarned, EngineTypeOK
<1> QED  BY <1>1, <1>2, <1>3 DEF EngineInv

LEMMA StepPreserves == EngineInv /\ [EngineNext]_engineVars => EngineInv'
<1> SUFFICES ASSUME EngineInv, [EngineNext]_engineVars PROVE EngineInv'
    OBVIOUS
<1> USE EngineAssumption DEF EngineAssumption, NoTime, InFlight
<1>1. CASE ProbeAnswered
  <2>1. FlagsOK'
    BY <1>1, Zenon DEF ProbeAnswered, Unschedule, StopGrace, ClearDeadline, EngineInv, EngineTypeOK, FlagsOK
  <2> QED
    BY <1>1, <2>1 DEF ProbeAnswered, Unschedule, StopGrace, ClearDeadline, EngineInv, EngineTypeOK,
       States, Clock, TimesAgree, VisibleElapsed, ProbesFit, NeverStranded, OfflineIsEarned
<1>2. CASE ProbeFailed
  <2>1. FlagsOK'
    BY <1>2, Zenon DEF ProbeFailed, ScheduleProbe, StopGrace, EngineInv, EngineTypeOK, FlagsOK
  <2> QED
    BY <1>2, <2>1 DEF ProbeFailed, ScheduleProbe, StopGrace, EngineInv, EngineTypeOK,
       States, Clock, TimesAgree, VisibleElapsed, ProbesFit, NeverStranded, OfflineIsEarned
<1>3. CASE StaleProbeEnded
  <2>1. FlagsOK'
    BY <1>3, Zenon DEF StaleProbeEnded, EngineInv, EngineTypeOK, FlagsOK
  <2> QED
    BY <1>3, <2>1 DEF StaleProbeEnded, EngineInv, EngineTypeOK,
       States, Clock, TimesAgree, VisibleElapsed, ProbesFit, NeverStranded, OfflineIsEarned
<1>4. CASE ScheduledProbeFires
  <2>1. FlagsOK'
    BY <1>4, Zenon DEF ScheduledProbeFires, Unschedule, Probe, EngineInv, EngineTypeOK, FlagsOK
  <2> QED
    BY <1>4, <2>1 DEF ScheduledProbeFires, Unschedule, Probe, EngineInv, EngineTypeOK,
       States, Clock, TimesAgree, VisibleElapsed, ProbesFit, NeverStranded, OfflineIsEarned
<1>5. CASE GraceFires
  <2>1. FlagsOK'
    BY <1>5, Zenon DEF GraceFires, EngineInv, EngineTypeOK, FlagsOK
  <2> QED
    BY <1>5, <2>1 DEF GraceFires, EngineInv, EngineTypeOK,
       States, Clock, TimesAgree, VisibleElapsed, ProbesFit, NeverStranded, OfflineIsEarned
<1>6. CASE DeadlineFires
  <2> USE <1>6 DEF DeadlineFires, Unschedule, ScheduleProbe, StopGrace, ClearDeadline, EngineInv
  <2>1. FlagsOK'
    BY Zenon DEF EngineTypeOK, FlagsOK
  <2>2. EngineTypeOK'
    BY <2>1 DEF EngineTypeOK, States, Clock, TimesAgree, VisibleElapsed
  <2>3. TimesAgree'
    BY DEF EngineTypeOK, Clock, TimesAgree, VisibleElapsed
  <2>4. ProbesFit' /\ NeverStranded'
    BY DEF EngineTypeOK, TimesAgree, ProbesFit, NeverStranded
  <2>5. OfflineIsEarned'
    BY DEF EngineTypeOK, Clock, TimesAgree, OfflineIsEarned
  <2> QED  BY <2>2, <2>3, <2>4, <2>5
<1>7. CASE Hide
  <2>1. FlagsOK'
    BY <1>7, Zenon DEF Hide, Unschedule, ClearDeadline, EngineInv, EngineTypeOK, FlagsOK
  <2> QED
    BY <1>7, <2>1 DEF Hide, Unschedule, ClearDeadline, EngineInv, EngineTypeOK,
       States, Clock, TimesAgree, VisibleElapsed, ProbesFit, NeverStranded, OfflineIsEarned
<1>8. CASE Show
  <2> USE <1>8 DEF Show, Unschedule, EngineInv
  <2>1. FlagsOK'
    BY Zenon DEF EngineTypeOK, FlagsOK
  <2>2. EngineTypeOK'
    BY <2>1 DEF EngineTypeOK, States, Clock, TimesAgree, VisibleElapsed
  <2>3. TimesAgree'
    BY DEF EngineTypeOK, Clock, TimesAgree, VisibleElapsed
  <2>4. ProbesFit' /\ NeverStranded'
    BY DEF EngineTypeOK, TimesAgree, ProbesFit, NeverStranded
  <2>5. OfflineIsEarned'
    BY DEF EngineTypeOK, Clock, TimesAgree, OfflineIsEarned
  <2> QED  BY <2>2, <2>3, <2>4, <2>5
<1>9. CASE ClickRetry
    BY <1>9, RestartEstablishes DEF ClickRetry
<1>10. CASE ReportUnreachable
  <2>1. CASE state = "online"
    BY <1>10, <2>1, RestartEstablishes DEF ReportUnreachable
  <2>2. CASE state # "online"
    BY <1>10, <2>2 DEF ReportUnreachable, EngineInv, EngineTypeOK, FlagsOK, TimesAgree, VisibleElapsed,
                       ProbesFit, NeverStranded, OfflineIsEarned
  <2> QED  BY <2>1, <2>2
<1>11. CASE Render
  <2>1. FlagsOK'
    BY <1>11, Zenon DEF Render, EngineInv, EngineTypeOK, FlagsOK
  <2> QED
    BY <1>11, <2>1 DEF Render, EngineInv, EngineTypeOK,
       States, Clock, TimesAgree, VisibleElapsed, ProbesFit, NeverStranded, OfflineIsEarned
<1>12. CASE WatchTick
  <2>1. FlagsOK'
    BY <1>12, Zenon DEF WatchTick, EngineInv, EngineTypeOK, FlagsOK
  <2> QED
    BY <1>12, <2>1 DEF WatchTick, EngineInv, EngineTypeOK,
       States, Clock, TimesAgree, VisibleElapsed, ProbesFit, NeverStranded, OfflineIsEarned
<1>13. CASE Load
    BY <1>13, MountEstablishes DEF Load, EngineInv
<1>14. CASE Unmount
  <2>1. FlagsOK'
    BY <1>14, Zenon DEF Unmount, Unschedule, StopGrace, ClearDeadline, EngineInv, EngineTypeOK, FlagsOK
  <2> QED
    BY <1>14, <2>1 DEF Unmount, Unschedule, StopGrace, ClearDeadline, EngineInv, EngineTypeOK,
       States, Clock, TimesAgree, VisibleElapsed, ProbesFit, NeverStranded, OfflineIsEarned
<1>15. CASE EngineTurns
  <2>1. FlagsOK'
    BY <1>15, Zenon DEF EngineTurns, statusVars, EngineInv, EngineTypeOK, FlagsOK
  <2> QED
    BY <1>15, <2>1 DEF EngineTurns, statusVars, EngineInv, EngineTypeOK,
       States, Clock, TimesAgree, VisibleElapsed, ProbesFit, NeverStranded, OfflineIsEarned
<1>16. CASE UNCHANGED engineVars
    BY <1>16 DEF engineVars, statusVars, EngineInv, EngineTypeOK, FlagsOK, TimesAgree, VisibleElapsed,
                 ProbesFit, NeverStranded, OfflineIsEarned
<1> QED
    BY <1>1, <1>2, <1>3, <1>4, <1>5, <1>6, <1>7, <1>8, <1>9, <1>10, <1>11, <1>12, <1>13,
       <1>14, <1>15, <1>16 DEF EngineNext, ProbeEnds

(* The invariant holds of every behaviour of the hook.                     *)
LEMMA EngineInvariant == EngineSpec => []EngineInv
    BY InitEstablishes, StepPreserves, PTL DEF EngineSpec

(* Every state of the hook is well typed.                                  *)
THEOREM HookTypeCorrect == EngineSpec => []EngineTypeOK
<1>1. EngineInv => EngineTypeOK
    BY DEF EngineInv
<1> QED  BY <1>1, EngineInvariant, PTL

(* The hook never stops asking while the page is looked at and not online. *)
THEOREM HookNeverStranded == EngineSpec => []NeverStranded
<1>1. EngineInv => NeverStranded
    BY DEF EngineInv
<1> QED  BY <1>1, EngineInvariant, PTL

(* The hook says "offline" only after a whole window was watched.          *)
THEOREM HookOfflineIsEarned == EngineSpec => []OfflineIsEarned
<1>1. EngineInv => OfflineIsEarned
    BY DEF EngineInv
<1> QED  BY <1>1, EngineInvariant, PTL
=============================================================================
