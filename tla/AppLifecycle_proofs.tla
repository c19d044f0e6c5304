------------------------- MODULE AppLifecycle_proofs -------------------------
(***************************************************************************)
(* The safety properties of AppLifecycle, for any number of callers and of *)
(* process runs.                                                           *)
(***************************************************************************)
EXTENDS AppLifecycle, TLAPS

-----------------------------------------------------------------------------
(* The inductive invariant behind the safety properties *)

(* proxyMu is held by the one caller inside a critical section.            *)
LockInv == \A c \in Caller : pc[c] \in Locked <=> proxyMu = c

(* A registered abort belongs to the build in progress, and whoever set it *)
(* cannot have taken the mutex from under that build.                      *)
BuildInv ==
  /\ buildAbort <=> \E c \in Caller : pc[c] = "start_build"
  /\ buildAbort /\ aborted => \E c \in Caller : pc[c] = "stop_lock"

LoadingInv ==
  ui = "loading" => proxyMu # NoCaller \/ \E c \in Caller : pc[c] = "stop_lock"

(* The operation a program counter belongs to.                             *)
WhyInv ==
  \A c \in Caller :
    /\ pc[c] \in {"idle", "start_lock"} \cup StartLocked => why[c] = "start"
    /\ pc[c] \in {"restart_read", "restart_arm_on", "restart_arm_off"} =>
         why[c] = "restart"

(* What a start has brought up so far, and a stop has taken down.          *)
StartStage(c) ==
  /\ pc[c] \in StartLocked => ~proxyOn
  /\ pc[c] \in {"start_register", "start_build", "start_whitelist"} => whitelists = 0
  /\ pc[c] \in {"start_listen", "start_sysproxy", "start_on"} => whitelists = 1
  /\ pc[c] \in StartLocked \ {"start_sysproxy", "start_on"} => ~proxyUp
  /\ pc[c] \in {"start_sysproxy", "start_on"} => proxyUp
  /\ pc[c] \in StartLocked \ {"start_on"} => ~server /\ ~systemProxySet
  /\ pc[c] = "start_on" => server /\ systemProxySet = supported /\ osProxy = supported

StopStage(c) ==
  /\ pc[c] \in StopLocked => proxyOn
  /\ pc[c] \in {"stop_proxy", "stop_whitelist"} =>
       ~server /\ ~systemProxySet /\ ~osProxy
  /\ pc[c] = "stop_whitelist" => ~proxyUp

StageInv == \A c \in Caller : StartStage(c) /\ StopStage(c)

(* While the proxy is on its whitelist server is up, and an OS setting     *)
(* still held is one the manager knows it has to unset.                    *)
OnInv ==
  /\ proxyOn => whitelists = 1 /\ (osProxy => systemProxySet)
  /\ ~supported => ~systemProxySet /\ ~osProxy

(* Nothing of an ended process is left.                                    *)
ExitedInv ==
  proc = "exited" => ~pendingRestart /\ \A c \in Caller : pc[c] = "idle"

IInv ==
  /\ TypeOK
  /\ LockInv
  /\ BuildInv
  /\ StopPendingHasOwner
  /\ LoadingInv
  /\ WhyInv
  /\ ExitedInv
  /\ StageInv
  /\ OnInv
  /\ NothingLeftRunning
  /\ OnMeansServing
  /\ NoSpuriousRelaunch

-----------------------------------------------------------------------------
(* Every label a caller moves to is one of its steps.                       *)
LEMMA Labels ==
  /\ {"idle", "start_lock", "stop_flag", "restart_read", "restart_arm_on",
      "restart_arm_off", "quit_dialog", "stop_abort", "stop_lock"} \subseteq Step
  /\ {"start_register", "start_build", "start_whitelist", "start_listen",
      "start_sysproxy", "start_on"} \subseteq Step
  /\ {"stop_clear", "stop_proxy", "stop_whitelist"} \subseteq Step
BY DEF Step, Locked, StartLocked, StopLocked, StopWaiting

(* A caller's step keeps the number of whitelist servers at most one.       *)
LEMMA CountersStep ==
  ASSUME IInv, NEW c \in Caller, CallerStep(c)
  PROVE  CountersOK'
<1> USE NoCallerAssumption, MaxRunsAssumption
  DEF IInv, TypeOK, CountersOK, StageInv, StartStage, StopStage, OnInv,
      NothingLeftRunning, StartLocked, StopLocked, Goto, Begin, Return, Report,
      StopReturnsNil, StopReturnsError, quitVars, serviceVars
<1>1. CASE ClickButton(c)
  BY <1>1 DEF ClickButton
<1>2. CASE ClickTray(c)
  BY <1>2 DEF ClickTray
<1>3. CASE DomReady(c)
  BY <1>3 DEF DomReady
<1>4. CASE SecondInstanceLaunch(c)
  BY <1>4 DEF SecondInstanceLaunch
<1>5. CASE Quit(c)
  BY <1>5 DEF Quit
<1>6. CASE RestartApplication(c)
  BY <1>6 DEF RestartApplication
<1>7. CASE StartAlreadyOn(c)
  BY <1>7 DEF StartAlreadyOn
<1>8. CASE StartRefused(c)
  BY <1>8 DEF StartRefused
<1>9. CASE StartBegins(c)
  BY <1>9 DEF StartBegins
<1>10. CASE RegisterBuild(c)
  BY <1>10 DEF RegisterBuild
<1>11. CASE BuildFails(c)
  BY <1>11 DEF BuildFails
<1>12. CASE BuildAborts(c)
  BY <1>12 DEF BuildAborts
<1>13. CASE BuildAccepted(c)
  BY <1>13 DEF BuildAccepted
<1>14. CASE StartWhitelist(c)
  BY <1>14 DEF StartWhitelist
<1>15. CASE StartWhitelistFails(c)
  BY <1>15 DEF StartWhitelistFails
<1>16. CASE Listen(c)
  BY <1>16 DEF Listen
<1>17. CASE ListenFails(c)
  BY <1>17 DEF ListenFails
<1>18. CASE SetSystemProxy(c)
  BY <1>18 DEF SetSystemProxy, Sys!SetSucceeds, Sys!SetUnsupported
<1>19. CASE SetSystemProxyFails(c)
  BY <1>19
  DEF SetSystemProxyFails, Sys!SetCannotListen, Sys!SetRollsBack, Sys!sysVars
<1>20. CASE StartDone(c)
  BY <1>20 DEF StartDone
<1>21. CASE StopFindsOff(c)
  BY <1>21 DEF StopFindsOff
<1>22. CASE StopBegins(c)
  BY <1>22 DEF StopBegins
<1>23. CASE FlagStop(c)
  BY <1>23 DEF FlagStop
<1>24. CASE AbortBuild(c)
  BY <1>24 DEF AbortBuild
<1>25. CASE ClearSystemProxy(c)
  BY <1>25
  DEF ClearSystemProxy, Sys!ClearReturnsNil, Sys!ClearNothing,
      Sys!ClearSucceeds, Sys!ClearUnsupported, Sys!NothingToClear, Sys!sysVars
<1>26. CASE ClearSystemProxyFails(c)
  BY <1>26
  DEF ClearSystemProxyFails, Sys!ClearReturnsError, Sys!UnsetFails,
      Sys!CloseReportsError, Sys!ClearSucceeds, Sys!NothingToClear
<1>27. CASE StopServer(c)
  BY <1>27 DEF StopServer
<1>28. CASE StopServerTimesOut(c)
  BY <1>28 DEF StopServerTimesOut
<1>29. CASE StopWhitelistFails(c)
  BY <1>29 DEF StopWhitelistFails
<1>30. CASE StopDone(c)
  BY <1>30 DEF StopDone
<1>31. CASE CancelQuit(c)
  BY <1>31 DEF CancelQuit
<1>32. CASE QuitAnyway(c)
  BY <1>32 DEF QuitAnyway
<1>33. CASE ReadForRestart(c)
  BY <1>33 DEF ReadForRestart
<1>34. CASE ArmRestart(c)
  BY <1>34 DEF ArmRestart
<1>35. QED
  BY <1>1, <1>2, <1>3, <1>4, <1>5, <1>6, <1>7, <1>8, <1>9, <1>10, <1>11, <1>12,
     <1>13, <1>14, <1>15, <1>16, <1>17, <1>18, <1>19, <1>20, <1>21, <1>22,
     <1>23, <1>24, <1>25, <1>26, <1>27, <1>28, <1>29, <1>30, <1>31, <1>32,
     <1>33, <1>34
  DEF CallerStep, Calls, StartEnters, StartProceeds, StopEnters, StopProceeds,
      QuitSteps

(* A caller's step keeps the types of the control state.                    *)
LEMMA LabelsStep ==
  ASSUME IInv, NEW c \in Caller, CallerStep(c)
  PROVE  ControlOK'
<1> USE NoCallerAssumption, MaxRunsAssumption, Labels
  DEF IInv, TypeOK, ControlOK, Reason, Goto, Begin, Return, Report,
      CallEnabled, StopReturnsNil, StopReturnsError, Closing, quitVars
<1>1. CASE ClickButton(c)
  BY <1>1 DEF ClickButton
<1>2. CASE ClickTray(c)
  BY <1>2 DEF ClickTray
<1>3. CASE DomReady(c)
  BY <1>3 DEF DomReady
<1>4. CASE SecondInstanceLaunch(c)
  BY <1>4 DEF SecondInstanceLaunch
<1>5. CASE Quit(c)
  BY <1>5 DEF Quit
<1>6. CASE RestartApplication(c)
  BY <1>6 DEF RestartApplication
<1>7. CASE StartAlreadyOn(c)
  BY <1>7 DEF StartAlreadyOn
<1>8. CASE StartRefused(c)
  BY <1>8 DEF StartRefused
<1>9. CASE StartBegins(c)
  BY <1>9 DEF StartBegins
<1>10. CASE RegisterBuild(c)
  BY <1>10 DEF RegisterBuild
<1>11. CASE BuildFails(c)
  BY <1>11 DEF BuildFails
<1>12. CASE BuildAborts(c)
  BY <1>12 DEF BuildAborts
<1>13. CASE BuildAccepted(c)
  BY <1>13 DEF BuildAccepted
<1>14. CASE StartWhitelist(c)
  BY <1>14 DEF StartWhitelist
<1>15. CASE StartWhitelistFails(c)
  BY <1>15 DEF StartWhitelistFails
<1>16. CASE Listen(c)
  BY <1>16 DEF Listen
<1>17. CASE ListenFails(c)
  BY <1>17 DEF ListenFails
<1>18. CASE SetSystemProxy(c)
  BY <1>18 DEF SetSystemProxy, Sys!SetSucceeds, Sys!SetUnsupported
<1>19. CASE SetSystemProxyFails(c)
  BY <1>19
  DEF SetSystemProxyFails, Sys!SetCannotListen, Sys!SetRollsBack, Sys!sysVars
<1>20. CASE StartDone(c)
  BY <1>20 DEF StartDone
<1>21. CASE StopFindsOff(c)
  BY <1>21 DEF StopFindsOff
<1>22. CASE StopBegins(c)
  BY <1>22 DEF StopBegins
<1>23. CASE FlagStop(c)
  BY <1>23 DEF FlagStop
<1>24. CASE AbortBuild(c)
  BY <1>24 DEF AbortBuild
<1>25. CASE ClearSystemProxy(c)
  BY <1>25
  DEF ClearSystemProxy, Sys!ClearReturnsNil, Sys!ClearNothing,
      Sys!ClearSucceeds, Sys!ClearUnsupported, Sys!NothingToClear, Sys!sysVars
<1>26. CASE ClearSystemProxyFails(c)
  BY <1>26
  DEF ClearSystemProxyFails, Sys!ClearReturnsError, Sys!UnsetFails,
      Sys!CloseReportsError, Sys!ClearSucceeds, Sys!NothingToClear
<1>27. CASE StopServer(c)
  BY <1>27 DEF StopServer
<1>28. CASE StopServerTimesOut(c)
  BY <1>28 DEF StopServerTimesOut
<1>29. CASE StopWhitelistFails(c)
  BY <1>29 DEF StopWhitelistFails
<1>30. CASE StopDone(c)
  BY <1>30 DEF StopDone
<1>31. CASE CancelQuit(c)
  BY <1>31 DEF CancelQuit
<1>32. CASE QuitAnyway(c)
  BY <1>32 DEF QuitAnyway
<1>33. CASE ReadForRestart(c)
  BY <1>33 DEF ReadForRestart
<1>34. CASE ArmRestart(c)
  BY <1>34 DEF ArmRestart
<1>35. QED
  BY <1>1, <1>2, <1>3, <1>4, <1>5, <1>6, <1>7, <1>8, <1>9, <1>10, <1>11, <1>12,
     <1>13, <1>14, <1>15, <1>16, <1>17, <1>18, <1>19, <1>20, <1>21, <1>22,
     <1>23, <1>24, <1>25, <1>26, <1>27, <1>28, <1>29, <1>30, <1>31, <1>32,
     <1>33, <1>34
  DEF CallerStep, Calls, StartEnters, StartProceeds, StopEnters, StopProceeds,
      QuitSteps

(* A caller's step keeps the types of the flags.                            *)
LEMMA FlagsStep ==
  ASSUME IInv, NEW c \in Caller, CallerStep(c)
  PROVE  FlagsOK'
<1> USE NoCallerAssumption, MaxRunsAssumption
  DEF IInv, TypeOK, FlagsOK, Goto, Begin, Return, Report, StopReturnsNil,
      StopReturnsError, quitVars, buildVars, serviceVars, sysVars
<1>1. CASE ClickButton(c)
  BY <1>1 DEF ClickButton
<1>2. CASE ClickTray(c)
  BY <1>2 DEF ClickTray
<1>3. CASE DomReady(c)
  BY <1>3 DEF DomReady
<1>4. CASE SecondInstanceLaunch(c)
  BY <1>4 DEF SecondInstanceLaunch
<1>5. CASE Quit(c)
  BY <1>5 DEF Quit
<1>6. CASE RestartApplication(c)
  BY <1>6 DEF RestartApplication
<1>7. CASE StartAlreadyOn(c)
  BY <1>7 DEF StartAlreadyOn
<1>8. CASE StartRefused(c)
  BY <1>8 DEF StartRefused
<1>9. CASE StartBegins(c)
  BY <1>9 DEF StartBegins
<1>10. CASE RegisterBuild(c)
  BY <1>10 DEF RegisterBuild
<1>11. CASE BuildFails(c)
  BY <1>11 DEF BuildFails
<1>12. CASE BuildAborts(c)
  BY <1>12 DEF BuildAborts
<1>13. CASE BuildAccepted(c)
  BY <1>13 DEF BuildAccepted
<1>14. CASE StartWhitelist(c)
  BY <1>14 DEF StartWhitelist
<1>15. CASE StartWhitelistFails(c)
  BY <1>15 DEF StartWhitelistFails
<1>16. CASE Listen(c)
  BY <1>16 DEF Listen
<1>17. CASE ListenFails(c)
  BY <1>17 DEF ListenFails
<1>18. CASE SetSystemProxy(c)
  BY <1>18 DEF SetSystemProxy, Sys!SetSucceeds, Sys!SetUnsupported
<1>19. CASE SetSystemProxyFails(c)
  BY <1>19
  DEF SetSystemProxyFails, Sys!SetCannotListen, Sys!SetRollsBack, Sys!sysVars
<1>20. CASE StartDone(c)
  BY <1>20 DEF StartDone
<1>21. CASE StopFindsOff(c)
  BY <1>21 DEF StopFindsOff
<1>22. CASE StopBegins(c)
  BY <1>22 DEF StopBegins
<1>23. CASE FlagStop(c)
  BY <1>23 DEF FlagStop
<1>24. CASE AbortBuild(c)
  BY <1>24 DEF AbortBuild
<1>25. CASE ClearSystemProxy(c)
  <2>1. CASE Sys!ClearNothing
    BY <1>25, <2>1 DEF ClearSystemProxy, Sys!ClearNothing, Sys!sysVars
  <2>2. CASE Sys!ClearSucceeds
    BY <1>25, <2>2 DEF ClearSystemProxy, Sys!ClearSucceeds
  <2>3. CASE Sys!ClearUnsupported
    BY <1>25, <2>3 DEF ClearSystemProxy, Sys!ClearUnsupported
  <2>4. QED
    BY <1>25, <2>1, <2>2, <2>3 DEF ClearSystemProxy, Sys!ClearReturnsNil
<1>26. CASE ClearSystemProxyFails(c)
  BY <1>26
  DEF ClearSystemProxyFails, Sys!ClearReturnsError, Sys!UnsetFails,
      Sys!CloseReportsError, Sys!ClearSucceeds, Sys!NothingToClear
<1>27. CASE StopServer(c)
  BY <1>27 DEF StopServer
<1>28. CASE StopServerTimesOut(c)
  BY <1>28 DEF StopServerTimesOut
<1>29. CASE StopWhitelistFails(c)
  BY <1>29 DEF StopWhitelistFails
<1>30. CASE StopDone(c)
  BY <1>30 DEF StopDone
<1>31. CASE CancelQuit(c)
  BY <1>31 DEF CancelQuit
<1>32. CASE QuitAnyway(c)
  BY <1>32 DEF QuitAnyway
<1>33. CASE ReadForRestart(c)
  BY <1>33 DEF ReadForRestart
<1>34. CASE ArmRestart(c)
  BY <1>34 DEF ArmRestart
<1>35. QED
  BY <1>1, <1>2, <1>3, <1>4, <1>5, <1>6, <1>7, <1>8, <1>9, <1>10, <1>11, <1>12,
     <1>13, <1>14, <1>15, <1>16, <1>17, <1>18, <1>19, <1>20, <1>21, <1>22,
     <1>23, <1>24, <1>25, <1>26, <1>27, <1>28, <1>29, <1>30, <1>31, <1>32,
     <1>33, <1>34
  DEF CallerStep, Calls, StartEnters, StartProceeds, StopEnters, StopProceeds,
      QuitSteps

(* A caller's step keeps the mutex and the operations of the callers.       *)
LEMMA ControlStep ==
  ASSUME IInv, NEW c \in Caller, CallerStep(c)
  PROVE  LockInv' /\ WhyInv' /\ ExitedInv'
<1> USE NoCallerAssumption, MaxRunsAssumption
  DEF IInv, TypeOK, ControlOK, FlagsOK, LockInv, WhyInv, ExitedInv, Step, Goto,
      Begin, Return, Report, Locked, StartLocked, StopLocked, StopWaiting,
      CallEnabled, StopReturnsNil, StopReturnsError, Closing, quitVars,
      buildVars, serviceVars, sysVars
<1>1. CASE ClickButton(c)
  BY <1>1 DEF ClickButton
<1>2. CASE ClickTray(c)
  BY <1>2 DEF ClickTray
<1>3. CASE DomReady(c)
  BY <1>3 DEF DomReady
<1>4. CASE SecondInstanceLaunch(c)
  BY <1>4 DEF SecondInstanceLaunch
<1>5. CASE Quit(c)
  BY <1>5 DEF Quit
<1>6. CASE RestartApplication(c)
  BY <1>6 DEF RestartApplication
<1>7. CASE StartAlreadyOn(c)
  BY <1>7 DEF StartAlreadyOn
<1>8. CASE StartRefused(c)
  BY <1>8 DEF StartRefused
<1>9. CASE StartBegins(c)
  BY <1>9 DEF StartBegins
<1>10. CASE RegisterBuild(c)
  BY <1>10 DEF RegisterBuild
<1>11. CASE BuildFails(c)
  BY <1>11 DEF BuildFails
<1>12. CASE BuildAborts(c)
  BY <1>12 DEF BuildAborts
<1>13. CASE BuildAccepted(c)
  BY <1>13 DEF BuildAccepted
<1>14. CASE StartWhitelist(c)
  BY <1>14 DEF StartWhitelist
<1>15. CASE StartWhitelistFails(c)
  BY <1>15 DEF StartWhitelistFails
<1>16. CASE Listen(c)
  BY <1>16 DEF Listen
<1>17. CASE ListenFails(c)
  BY <1>17 DEF ListenFails
<1>18. CASE SetSystemProxy(c)
  BY <1>18 DEF SetSystemProxy, Sys!SetSucceeds, Sys!SetUnsupported
<1>19. CASE SetSystemProxyFails(c)
  BY <1>19
  DEF SetSystemProxyFails, Sys!SetCannotListen, Sys!SetRollsBack, Sys!sysVars
<1>20. CASE StartDone(c)
  BY <1>20 DEF StartDone
<1>21. CASE StopFindsOff(c)
  BY <1>21 DEF StopFindsOff
<1>22. CASE StopBegins(c)
  BY <1>22 DEF StopBegins
<1>23. CASE FlagStop(c)
  BY <1>23 DEF FlagStop
<1>24. CASE AbortBuild(c)
  BY <1>24 DEF AbortBuild
<1>25. CASE ClearSystemProxy(c)
  BY <1>25
  DEF ClearSystemProxy, Sys!ClearReturnsNil, Sys!ClearNothing,
      Sys!ClearSucceeds, Sys!ClearUnsupported, Sys!NothingToClear, Sys!sysVars
<1>26. CASE ClearSystemProxyFails(c)
  BY <1>26
  DEF ClearSystemProxyFails, Sys!ClearReturnsError, Sys!UnsetFails,
      Sys!CloseReportsError, Sys!ClearSucceeds, Sys!NothingToClear
<1>27. CASE StopServer(c)
  BY <1>27 DEF StopServer
<1>28. CASE StopServerTimesOut(c)
  BY <1>28 DEF StopServerTimesOut
<1>29. CASE StopWhitelistFails(c)
  BY <1>29 DEF StopWhitelistFails
<1>30. CASE StopDone(c)
  BY <1>30 DEF StopDone
<1>31. CASE CancelQuit(c)
  BY <1>31 DEF CancelQuit
<1>32. CASE QuitAnyway(c)
  BY <1>32 DEF QuitAnyway
<1>33. CASE ReadForRestart(c)
  BY <1>33 DEF ReadForRestart
<1>34. CASE ArmRestart(c)
  BY <1>34 DEF ArmRestart
<1>35. QED
  BY <1>1, <1>2, <1>3, <1>4, <1>5, <1>6, <1>7, <1>8, <1>9, <1>10, <1>11, <1>12,
     <1>13, <1>14, <1>15, <1>16, <1>17, <1>18, <1>19, <1>20, <1>21, <1>22,
     <1>23, <1>24, <1>25, <1>26, <1>27, <1>28, <1>29, <1>30, <1>31, <1>32,
     <1>33, <1>34
  DEF CallerStep, Calls, StartEnters, StartProceeds, StopEnters, StopProceeds,
      QuitSteps

(* A caller's step keeps what the latch, the abort, the loading state and   *)
(* an armed relaunch say about the other callers.                           *)
LEMMA WaitersStep ==
  ASSUME IInv, NEW c \in Caller, CallerStep(c)
  PROVE  BuildInv' /\ StopPendingHasOwner' /\ LoadingInv' /\ NoSpuriousRelaunch'
<1> USE NoCallerAssumption, MaxRunsAssumption
  DEF IInv, TypeOK, ControlOK, FlagsOK, LockInv, WhyInv, BuildInv,
      StopPendingHasOwner, LoadingInv, NoSpuriousRelaunch, Step, Reason, Goto,
      Begin, Return, Report, Locked, StartLocked, StopLocked, StopWaiting,
      CallEnabled, StopReturnsNil, StopReturnsError, Closing, quitVars,
      buildVars, serviceVars, sysVars
<1>1. CASE ClickButton(c)
  BY <1>1 DEF ClickButton
<1>2. CASE ClickTray(c)
  BY <1>2 DEF ClickTray
<1>3. CASE DomReady(c)
  BY <1>3 DEF DomReady
<1>4. CASE SecondInstanceLaunch(c)
  BY <1>4 DEF SecondInstanceLaunch
<1>5. CASE Quit(c)
  BY <1>5 DEF Quit
<1>6. CASE RestartApplication(c)
  BY <1>6 DEF RestartApplication
<1>7. CASE StartAlreadyOn(c)
  BY <1>7 DEF StartAlreadyOn
<1>8. CASE StartRefused(c)
  BY <1>8 DEF StartRefused
<1>9. CASE StartBegins(c)
  BY <1>9 DEF StartBegins
<1>10. CASE RegisterBuild(c)
  BY <1>10 DEF RegisterBuild
<1>11. CASE BuildFails(c)
  BY <1>11 DEF BuildFails
<1>12. CASE BuildAborts(c)
  BY <1>12 DEF BuildAborts
<1>13. CASE BuildAccepted(c)
  BY <1>13 DEF BuildAccepted
<1>14. CASE StartWhitelist(c)
  BY <1>14 DEF StartWhitelist
<1>15. CASE StartWhitelistFails(c)
  BY <1>15 DEF StartWhitelistFails
<1>16. CASE Listen(c)
  BY <1>16 DEF Listen
<1>17. CASE ListenFails(c)
  BY <1>17 DEF ListenFails
<1>18. CASE SetSystemProxy(c)
  BY <1>18 DEF SetSystemProxy, Sys!SetSucceeds, Sys!SetUnsupported
<1>19. CASE SetSystemProxyFails(c)
  BY <1>19
  DEF SetSystemProxyFails, Sys!SetCannotListen, Sys!SetRollsBack, Sys!sysVars
<1>20. CASE StartDone(c)
  BY <1>20 DEF StartDone
<1>21. CASE StopFindsOff(c)
  BY <1>21 DEF StopFindsOff
<1>22. CASE StopBegins(c)
  BY <1>22 DEF StopBegins
<1>23. CASE FlagStop(c)
  BY <1>23 DEF FlagStop
<1>24. CASE AbortBuild(c)
  BY <1>24 DEF AbortBuild
<1>25. CASE ClearSystemProxy(c)
  BY <1>25
  DEF ClearSystemProxy, Sys!ClearReturnsNil, Sys!ClearNothing,
      Sys!ClearSucceeds, Sys!ClearUnsupported, Sys!NothingToClear, Sys!sysVars
<1>26. CASE ClearSystemProxyFails(c)
  BY <1>26
  DEF ClearSystemProxyFails, Sys!ClearReturnsError, Sys!UnsetFails,
      Sys!CloseReportsError, Sys!ClearSucceeds, Sys!NothingToClear
<1>27. CASE StopServer(c)
  BY <1>27 DEF StopServer
<1>28. CASE StopServerTimesOut(c)
  BY <1>28 DEF StopServerTimesOut
<1>29. CASE StopWhitelistFails(c)
  BY <1>29 DEF StopWhitelistFails
<1>30. CASE StopDone(c)
  BY <1>30 DEF StopDone
<1>31. CASE CancelQuit(c)
  BY <1>31 DEF CancelQuit
<1>32. CASE QuitAnyway(c)
  BY <1>32 DEF QuitAnyway
<1>33. CASE ReadForRestart(c)
  BY <1>33 DEF ReadForRestart
<1>34. CASE ArmRestart(c)
  BY <1>34 DEF ArmRestart
<1>35. QED
  BY <1>1, <1>2, <1>3, <1>4, <1>5, <1>6, <1>7, <1>8, <1>9, <1>10, <1>11, <1>12,
     <1>13, <1>14, <1>15, <1>16, <1>17, <1>18, <1>19, <1>20, <1>21, <1>22,
     <1>23, <1>24, <1>25, <1>26, <1>27, <1>28, <1>29, <1>30, <1>31, <1>32,
     <1>33, <1>34
  DEF CallerStep, Calls, StartEnters, StartProceeds, StopEnters, StopProceeds,
      QuitSteps

(* A caller's step keeps the stages of start and stop.                      *)
LEMMA ServicesStep ==
  ASSUME IInv, NEW c \in Caller, CallerStep(c)
  PROVE  StageInv' /\ OnInv' /\ NothingLeftRunning' /\ OnMeansServing'
<1> USE NoCallerAssumption, MaxRunsAssumption
  DEF IInv, TypeOK, ControlOK, FlagsOK, LockInv, StageInv, StartStage,
      StopStage, OnInv, NothingLeftRunning, OnMeansServing, Serving, Step,
      Goto, Begin, Return, Report, Locked, StartLocked, StopLocked,
      StopWaiting, CallEnabled, StopReturnsNil, StopReturnsError, Closing,
      quitVars, buildVars, serviceVars, sysVars
<1>1. CASE ClickButton(c)
  BY <1>1 DEF ClickButton
<1>2. CASE ClickTray(c)
  BY <1>2 DEF ClickTray
<1>3. CASE DomReady(c)
  BY <1>3 DEF DomReady
<1>4. CASE SecondInstanceLaunch(c)
  BY <1>4 DEF SecondInstanceLaunch
<1>5. CASE Quit(c)
  BY <1>5 DEF Quit
<1>6. CASE RestartApplication(c)
  BY <1>6 DEF RestartApplication
<1>7. CASE StartAlreadyOn(c)
  BY <1>7 DEF StartAlreadyOn
<1>8. CASE StartRefused(c)
  BY <1>8 DEF StartRefused
<1>9. CASE StartBegins(c)
  BY <1>9 DEF StartBegins
<1>10. CASE RegisterBuild(c)
  BY <1>10 DEF RegisterBuild
<1>11. CASE BuildFails(c)
  BY <1>11 DEF BuildFails
<1>12. CASE BuildAborts(c)
  BY <1>12 DEF BuildAborts
<1>13. CASE BuildAccepted(c)
  BY <1>13 DEF BuildAccepted
<1>14. CASE StartWhitelist(c)
  BY <1>14 DEF StartWhitelist
<1>15. CASE StartWhitelistFails(c)
  BY <1>15 DEF StartWhitelistFails
<1>16. CASE Listen(c)
  BY <1>16 DEF Listen
<1>17. CASE ListenFails(c)
  BY <1>17 DEF ListenFails
<1>18. CASE SetSystemProxy(c)
  <2>1. CASE Sys!SetSucceeds
    BY <1>18, <2>1 DEF SetSystemProxy, Sys!SetSucceeds
  <2>2. CASE Sys!SetUnsupported
    BY <1>18, <2>2 DEF SetSystemProxy, Sys!SetUnsupported
  <2>3. QED
    BY <1>18, <2>1, <2>2 DEF SetSystemProxy
<1>19. CASE SetSystemProxyFails(c)
  BY <1>19
  DEF SetSystemProxyFails, Sys!SetCannotListen, Sys!SetRollsBack, Sys!sysVars
<1>20. CASE StartDone(c)
  BY <1>20 DEF StartDone
<1>21. CASE StopFindsOff(c)
  BY <1>21 DEF StopFindsOff
<1>22. CASE StopBegins(c)
  BY <1>22 DEF StopBegins
<1>23. CASE FlagStop(c)
  BY <1>23 DEF FlagStop
<1>24. CASE AbortBuild(c)
  BY <1>24 DEF AbortBuild
<1>25. CASE ClearSystemProxy(c)
  BY <1>25
  DEF ClearSystemProxy, Sys!ClearReturnsNil, Sys!ClearNothing,
      Sys!ClearSucceeds, Sys!ClearUnsupported, Sys!NothingToClear, Sys!sysVars
<1>26. CASE ClearSystemProxyFails(c)
  <2>1. CASE Sys!UnsetFails
    <3>1. proxyOn' /\ ui' = "off" /\ pc'[c] \in {"idle", "quit_dialog"}
      BY <1>26 DEF ClearSystemProxyFails
    <3>2. NothingLeftRunning' /\ OnMeansServing'
      BY <3>1
    <3>3. OnInv'
      <4>1. whitelists' = 1
        BY <1>26 DEF ClearSystemProxyFails
      <4>2. (osProxy => systemProxySet) /\ supported
        BY <1>26, <2>1 DEF ClearSystemProxyFails, Sys!UnsetFails
      <4>3. osProxy' => osProxy
        BY <2>1 DEF Sys!UnsetFails
      <4>4. systemProxySet' = systemProxySet /\ supported' = supported
        BY <2>1 DEF Sys!UnsetFails
      <4>5. QED
        BY <4>1, <4>2, <4>3, <4>4 DEF OnInv
    <3>4. \A d \in Caller : d # c => pc'[d] = pc[d] /\ pc[d] \notin Locked
      BY <1>26 DEF ClearSystemProxyFails
    <3>5. StageInv'
      BY <3>1, <3>4
    <3>6. QED
      BY <3>2, <3>3, <3>5
  <2>2. CASE Sys!CloseReportsError
    BY <1>26, <2>2
    DEF ClearSystemProxyFails, Sys!CloseReportsError, Sys!ClearSucceeds
  <2>3. QED
    BY <1>26, <2>1, <2>2 DEF ClearSystemProxyFails, Sys!ClearReturnsError
<1>27. CASE StopServer(c)
  BY <1>27 DEF StopServer
<1>28. CASE StopServerTimesOut(c)
  BY <1>28 DEF StopServerTimesOut
<1>29. CASE StopWhitelistFails(c)
  BY <1>29 DEF StopWhitelistFails
<1>30. CASE StopDone(c)
  BY <1>30 DEF StopDone
<1>31. CASE CancelQuit(c)
  BY <1>31 DEF CancelQuit
<1>32. CASE QuitAnyway(c)
  BY <1>32 DEF QuitAnyway
<1>33. CASE ReadForRestart(c)
  BY <1>33 DEF ReadForRestart
<1>34. CASE ArmRestart(c)
  BY <1>34 DEF ArmRestart
<1>35. QED
  BY <1>1, <1>2, <1>3, <1>4, <1>5, <1>6, <1>7, <1>8, <1>9, <1>10, <1>11, <1>12,
     <1>13, <1>14, <1>15, <1>16, <1>17, <1>18, <1>19, <1>20, <1>21, <1>22,
     <1>23, <1>24, <1>25, <1>26, <1>27, <1>28, <1>29, <1>30, <1>31, <1>32,
     <1>33, <1>34
  DEF CallerStep, Calls, StartEnters, StartProceeds, StopEnters, StopProceeds,
      QuitSteps

(* A new process starts from the initial state of everything but the OS     *)
(* setting and the desktop it runs on.                                      *)
LEMMA ProcessStep ==
  ASSUME IInv, Exit \/ Crash \/ Launch
  PROVE  IInv'
<1> USE NoCallerAssumption, MaxRunsAssumption
  DEF Reason, Locked, StartLocked, StopLocked, StopWaiting
<1>1. CASE Exit \/ Crash
  <2> USE <1>1 DEF Exit, Crash, ProcessEnds, Sys!ProcessGone
  <2>1. CountersOK'
    BY DEF IInv, TypeOK, CountersOK
  <2>2. ControlOK' /\ FlagsOK'
    BY Labels DEF IInv, TypeOK, ControlOK, FlagsOK
  <2>3. LockInv' /\ BuildInv' /\ WhyInv'
    BY DEF LockInv, BuildInv, WhyInv
  <2>4. StopPendingHasOwner' /\ LoadingInv' /\ NoSpuriousRelaunch' /\ ExitedInv'
    BY DEF ExitedInv, StopPendingHasOwner, LoadingInv, NoSpuriousRelaunch
  <2>5. StageInv' /\ NothingLeftRunning' /\ OnMeansServing'
    BY DEF StageInv, StartStage, StopStage, NothingLeftRunning, OnMeansServing
  <2>6. OnInv'
    BY DEF IInv, OnInv
  <2>7. QED
    BY <2>1, <2>2, <2>3, <2>4, <2>5, <2>6 DEF IInv, TypeOK
<1>2. CASE Launch
  <2> USE <1>2 DEF Launch, buildVars, serviceVars, sysVars
  <2>1. CountersOK'
    BY DEF IInv, TypeOK, CountersOK
  <2>2. ControlOK' /\ FlagsOK'
    BY DEF IInv, TypeOK, ControlOK, FlagsOK
  <2>3. LockInv' /\ BuildInv' /\ WhyInv'
    BY DEF IInv, LockInv, BuildInv, WhyInv
  <2>4. StopPendingHasOwner' /\ LoadingInv'
    BY DEF IInv, StopPendingHasOwner, LoadingInv
  <2>5. NoSpuriousRelaunch' /\ ExitedInv'
    BY DEF IInv, NoSpuriousRelaunch, ExitedInv
  <2>6. StageInv' /\ OnInv' /\ NothingLeftRunning' /\ OnMeansServing'
    BY DEF IInv, StageInv, StartStage, StopStage, OnInv, NothingLeftRunning,
       OnMeansServing, Serving
  <2>7. QED
    BY <2>1, <2>2, <2>3, <2>4, <2>5, <2>6 DEF IInv, TypeOK
<1>3. QED
  BY <1>1, <1>2

(* The inductive invariant holds in every reachable state.                  *)
THEOREM Invariance == Spec => []IInv
<1>1. Init => IInv
  <2> SUFFICES ASSUME Init PROVE IInv
    OBVIOUS
  <2> USE NoCallerAssumption, MaxRunsAssumption
    DEF Init, Sys!Init, Reason, Locked, StartLocked, StopLocked, StopWaiting
  <2>1. CountersOK
    BY DEF CountersOK
  <2>2. ControlOK /\ FlagsOK
    BY Labels DEF ControlOK, FlagsOK
  <2>3. LockInv /\ BuildInv /\ WhyInv
    BY DEF LockInv, BuildInv, WhyInv
  <2>4. StopPendingHasOwner /\ LoadingInv /\ NoSpuriousRelaunch /\ ExitedInv
    BY DEF ExitedInv, StopPendingHasOwner, LoadingInv, NoSpuriousRelaunch
  <2>5. StageInv /\ OnInv /\ NothingLeftRunning /\ OnMeansServing
    BY DEF StageInv, StartStage, StopStage, OnInv, NothingLeftRunning,
       OnMeansServing, Serving
  <2>6. QED
    BY <2>1, <2>2, <2>3, <2>4, <2>5 DEF IInv, TypeOK
<1>2. IInv /\ [Next]_vars => IInv'
  <2> SUFFICES ASSUME IInv, [Next]_vars
               PROVE  IInv'
    OBVIOUS
  <2>1. ASSUME NEW c \in Caller, CallerStep(c)
        PROVE  IInv'
    BY <2>1, CountersStep, LabelsStep, FlagsStep, ControlStep, WaitersStep,
       ServicesStep
    DEF IInv, TypeOK
  <2>2. CASE Exit \/ Crash \/ Launch
    BY <2>2, ProcessStep
  <2>3. CASE UNCHANGED vars
    BY <2>3
    DEF vars, quitVars, buildVars, serviceVars, sysVars, IInv, TypeOK,
        CountersOK, ControlOK, FlagsOK, LockInv, BuildInv, StopPendingHasOwner,
        LoadingInv, WhyInv, StageInv, StartStage, StopStage, OnInv,
        NothingLeftRunning, OnMeansServing, Serving, NoSpuriousRelaunch,
        ExitedInv
  <2>4. QED
    BY <2>1, <2>2, <2>3 DEF Next
<1>3. QED
  BY <1>1, <1>2, PTL DEF Spec

(* Every variable keeps its type, and there are never two whitelist         *)
(* servers: a start that fails has stopped the one it started.              *)
THEOREM TypeCorrect == Spec => []TypeOK
<1>1. IInv => TypeOK
  BY DEF IInv
<1>2. QED
  BY <1>1, Invariance, PTL

(* The latch set by StopProxy always has a StopProxy that will clear it,    *)
(* and a loading window a call that will end it: the silent return of an    *)
(* aborted start is safe.                                                   *)
THEOREM WaitsAreOwned == Spec => []WaitsHaveOwners
<1>1. IInv => StopPendingHasOwner
  BY DEF IInv
<1>2. IInv => LoadingHasAnOwner
  BY DEF IInv, TypeOK, ControlOK, LockInv, LoadingInv, LoadingHasAnOwner
<1>3. QED
  BY <1>1, <1>2, Invariance, PTL DEF WaitsHaveOwners

(* Between calls a proxy that is off holds no listener, no server and no    *)
(* system proxy setting that it would have to unset.                        *)
THEOREM NothingLeaks == Spec => []NothingLeftRunning
<1>1. IInv => NothingLeftRunning
  BY DEF IInv
<1>2. QED
  BY <1>1, Invariance, PTL

(* Between calls a window showing a running proxy shows one that serves.    *)
THEOREM OnIsServing == Spec => []OnMeansServing
<1>1. IInv => OnMeansServing
  BY DEF IInv
<1>2. QED
  BY <1>1, Invariance, PTL

(* A relaunch is armed only for a RestartApplication still in progress.     *)
THEOREM RelaunchIsAskedFor == Spec => []NoSpuriousRelaunch
<1>1. IInv => NoSpuriousRelaunch
  BY DEF IInv
<1>2. QED
  BY <1>1, Invariance, PTL

(* A stop that turns the proxy off leaves the OS setting clear.             *)
THEOREM StopClears == Spec => StopClearsSystemProxy
<1>1. IInv /\ [Next]_vars =>
        [\A c \in Caller : StopDone(c) => ~osProxy']_vars
  BY DEF IInv, StageInv, StopStage, StopDone, sysVars
<1>2. QED
  BY <1>1, Invariance, PTL DEF Spec, StopClearsSystemProxy
=============================================================================
