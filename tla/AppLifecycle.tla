----------------------------- MODULE AppLifecycle -----------------------------
(***************************************************************************)
(* app.App: starting and stopping the proxy, quitting and relaunching.     *)
(*                                                                         *)
(* StartProxy and StopProxy are called by the window's button, the tray,   *)
(* a second instance, the start-up timer and the quit handler, each on a   *)
(* goroutine of its own.  proxyMu serialises them; stopPending and the     *)
(* build's cancel function are what lets a stop reach a start that holds   *)
(* proxyMu.  A caller's program counter names the step it takes next.      *)
(***************************************************************************)
EXTENDS Naturals

CONSTANTS
  Caller,    \* goroutines that can be inside a method of App at once
  NoCaller,
  MaxRuns    \* processes, one after the other (bounds the model only)

ASSUME NoCallerAssumption == NoCaller \notin Caller
ASSUME MaxRunsAssumption == MaxRuns \in Nat \ {0}

VARIABLES
  proc,             \* "running"; "closing": BeforeClose let Wails shut down; "exited"
  runs,             \* processes started so far
  startOnDomReady,  \* the start-up timer has yet to call StartProxy
  pc, why,          \* per caller: its next step, and the operation it is part of
  proxyMu,          \* the caller that holds a.proxyMu
  stopPending, buildAbort, aborted,  \* buildAbort # nil; the cause of abortCtx is set
  proxyOn,
  proxyUp,          \* the proxy's listener is bound
  whitelists,       \* whitelist servers listening
  trayActive,       \* systray's proxyActive
  ui,               \* ProxyState of the window
  pendingRestart, pendingRestartStart,
  server, systemProxySet, osProxy, supported  \* SysProxyManager

Sys == INSTANCE SysProxyManager

buildVars == <<stopPending, buildAbort, aborted>>
serviceVars == <<proxyUp, whitelists>>
sysVars == <<server, systemProxySet, osProxy, supported>>
quitVars == <<proc, runs, startOnDomReady, pendingRestart, pendingRestartStart>>
vars == <<quitVars, pc, why, proxyMu, buildVars, proxyOn, serviceVars,
          trayActive, ui, sysVars>>

StartLocked == {"start_register", "start_build", "start_whitelist",
                "start_listen", "start_sysproxy", "start_on"}
StopLocked == {"stop_clear", "stop_proxy", "stop_whitelist"}
StopWaiting == {"stop_abort", "stop_lock"}
Locked == StartLocked \cup StopLocked
Step == Locked \cup StopWaiting \cup
        {"idle", "start_lock", "stop_flag", "restart_read", "restart_arm_on", "restart_arm_off",
         "quit_dialog"}
Reason == {"start", "stop", "quit", "restart"}

Goto(c, s) == pc' = [pc EXCEPT ![c] = s]
Begin(c, s, w) == Goto(c, s) /\ why' = [why EXCEPT ![c] = w]
Return(c) == Begin(c, "idle", "start")

Init ==
  /\ pc = [c \in Caller |-> "idle"]
  /\ why = [c \in Caller |-> "start"]
  /\ proxyMu = NoCaller
  /\ stopPending = FALSE
  /\ buildAbort = FALSE
  /\ aborted = FALSE
  /\ proxyOn = FALSE
  /\ proxyUp = FALSE
  /\ whitelists = 0
  /\ trayActive = FALSE
  /\ ui = "off"
  /\ pendingRestart = FALSE
  /\ pendingRestartStart = FALSE
  /\ proc = "running"
  /\ runs = 1
  /\ startOnDomReady \in BOOLEAN
  /\ Sys!Init

-----------------------------------------------------------------------------
(* Who calls.  The button is disabled while the state is "loading".        *)

CallEnabled(c) == proc = "running" /\ pc[c] = "idle"

ClickButton(c) ==
  /\ CallEnabled(c)
  /\ \/ ui = "off" /\ Begin(c, "start_lock", "start")
     \/ ui = "on" /\ Begin(c, "stop_flag", "stop")
  /\ UNCHANGED <<quitVars, proxyMu, buildVars, proxyOn, serviceVars,
                 trayActive, ui, sysVars>>

ClickTray(c) ==
  /\ CallEnabled(c)
  /\ \/ ~trayActive /\ Begin(c, "start_lock", "start")
     \/ trayActive /\ Begin(c, "stop_flag", "stop")
  /\ UNCHANGED <<quitVars, proxyMu, buildVars, proxyOn, serviceVars,
                 trayActive, ui, sysVars>>

DomReady(c) ==
  /\ CallEnabled(c)
  /\ startOnDomReady
  /\ startOnDomReady' = FALSE
  /\ Begin(c, "start_lock", "start")
  /\ UNCHANGED <<proc, runs, pendingRestart, pendingRestartStart, proxyMu,
                 buildVars, proxyOn, serviceVars, trayActive, ui, sysVars>>

SecondInstanceLaunch(c) ==
  /\ CallEnabled(c)
  /\ Begin(c, "start_lock", "start")
  /\ UNCHANGED <<quitVars, proxyMu, buildVars, proxyOn, serviceVars,
                 trayActive, ui, sysVars>>

Quit(c) ==
  /\ CallEnabled(c)
  /\ Begin(c, "stop_flag", "quit")
  /\ UNCHANGED <<quitVars, proxyMu, buildVars, proxyOn, serviceVars,
                 trayActive, ui, sysVars>>

RestartApplication(c) ==
  /\ CallEnabled(c)
  /\ Begin(c, "restart_read", "restart")
  /\ UNCHANGED <<quitVars, proxyMu, buildVars, proxyOn, serviceVars,
                 trayActive, ui, sysVars>>

-----------------------------------------------------------------------------
(* StartProxy *)

(* proxyOn: StartProxy returns nil and tells the window nothing.           *)
StartAlreadyOn(c) ==
  /\ pc[c] = "start_lock" /\ proxyMu = NoCaller
  /\ proxyOn
  /\ Return(c)
  /\ UNCHANGED <<quitVars, proxyMu, buildVars, proxyOn, serviceVars,
                 trayActive, ui, sysVars>>

(* A stop is queued behind this start: errBuildAborted, and no event.      *)
StartRefused(c) ==
  /\ pc[c] = "start_lock" /\ proxyMu = NoCaller
  /\ ~proxyOn /\ stopPending
  /\ Return(c)
  /\ UNCHANGED <<quitVars, proxyMu, buildVars, proxyOn, serviceVars,
                 trayActive, ui, sysVars>>

StartBegins(c) ==
  /\ pc[c] = "start_lock" /\ proxyMu = NoCaller
  /\ ~proxyOn /\ ~stopPending
  /\ proxyMu' = c
  /\ ui' = "loading"
  /\ Goto(c, "start_register")
  /\ UNCHANGED <<quitVars, why, buildVars, proxyOn, serviceVars, trayActive,
                 sysVars>>

(* buildFilter up to setBuildAbort.                                        *)
RegisterBuild(c) ==
  /\ pc[c] = "start_register"
  /\ buildAbort' = TRUE
  /\ aborted' = FALSE
  /\ Goto(c, "start_build")
  /\ UNCHANGED <<quitVars, why, proxyMu, stopPending, proxyOn, serviceVars,
                 trayActive, ui, sysVars>>

(* An event that takes the window out of its loading state, and the end of *)
(* the critical section.                                                   *)
Report(c, state) ==
  /\ ui' = state
  /\ proxyMu' = NoCaller
  /\ Return(c)

(* A construction error of the build, when no abort came with it.          *)
BuildFails(c) ==
  /\ pc[c] = "start_build"
  /\ ~aborted
  /\ buildAbort' = FALSE
  /\ Report(c, "on")  \* StartError: the window offers Stop
  /\ UNCHANGED <<quitVars, stopPending, aborted, proxyOn, serviceVars,
                 trayActive, sysVars>>

(* errBuildAborted: no event; the stop that aborted the build will report. *)
BuildAborts(c) ==
  /\ pc[c] = "start_build"
  /\ aborted
  /\ buildAbort' = FALSE
  /\ proxyMu' = NoCaller
  /\ Return(c)
  /\ UNCHANGED <<quitVars, stopPending, aborted, proxyOn, serviceVars,
                 trayActive, ui, sysVars>>

BuildAccepted(c) ==
  /\ pc[c] = "start_build"
  /\ ~aborted
  /\ buildAbort' = FALSE
  /\ Goto(c, "start_whitelist")
  /\ UNCHANGED <<quitVars, why, proxyMu, stopPending, aborted, proxyOn,
                 serviceVars, trayActive, ui, sysVars>>

StartWhitelist(c) ==
  /\ pc[c] = "start_whitelist"
  /\ whitelists' = whitelists + 1
  /\ Goto(c, "start_listen")
  /\ UNCHANGED <<quitVars, why, proxyMu, buildVars, proxyOn, proxyUp,
                 trayActive, ui, sysVars>>

StartWhitelistFails(c) ==
  /\ pc[c] = "start_whitelist"
  /\ Report(c, "on")
  /\ UNCHANGED <<quitVars, buildVars, proxyOn, serviceVars, trayActive,
                 sysVars>>

(* certStore.Init, the certificate generator, NewProxy and proxy.Start.    *)
Listen(c) ==
  /\ pc[c] = "start_listen"
  /\ proxyUp' = TRUE
  /\ Goto(c, "start_sysproxy")
  /\ UNCHANGED <<quitVars, why, proxyMu, buildVars, proxyOn, whitelists,
                 trayActive, ui, sysVars>>

(* Any of them failed: the deferred function stops the whitelist server.   *)
ListenFails(c) ==
  /\ pc[c] = "start_listen"
  /\ whitelists' = whitelists - 1
  /\ Report(c, "on")
  /\ UNCHANGED <<quitVars, buildVars, proxyOn, proxyUp, trayActive,
                 sysVars>>

\* A start that fails and forgets the server it had started.
SetSystemProxyFails_LeaksWhitelist(c) ==
  /\ pc[c] = "start_sysproxy"
  /\ Sys!SetCannotListen \/ Sys!SetRollsBack
  /\ proxyUp' = FALSE
  /\ Report(c, "on")
  /\ UNCHANGED <<quitVars, buildVars, proxyOn, whitelists, trayActive>>

(* The proxy is stopped again, and the whitelist server with it.  An error *)
(* of that proxy.Stop only changes the message: its listener is closed.    *)
SetSystemProxyFails(c) ==
  /\ pc[c] = "start_sysproxy"
  /\ Sys!SetCannotListen \/ Sys!SetRollsBack
  /\ proxyUp' = FALSE
  /\ whitelists' = whitelists - 1
  /\ Report(c, "on")
  /\ UNCHANGED <<quitVars, buildVars, proxyOn, trayActive>>

\* Any error of Set taken for an unsupported desktop.
SetSystemProxy_IgnoresErrors(c) ==
  /\ pc[c] = "start_sysproxy"
  /\ \/ Sys!SetSucceeds
     \/ Sys!SetUnsupported
     \/ Sys!SetCannotListen
  /\ Goto(c, "start_on")
  /\ UNCHANGED <<quitVars, why, proxyMu, buildVars, proxyOn, serviceVars,
                 trayActive, ui>>

SetSystemProxy(c) ==
  /\ pc[c] = "start_sysproxy"
  /\ Sys!SetSucceeds \/ Sys!SetUnsupported
  /\ Goto(c, "start_on")
  /\ UNCHANGED <<quitVars, why, proxyMu, buildVars, proxyOn, serviceVars,
                 trayActive, ui>>

StartDone(c) ==
  /\ pc[c] = "start_on"
  /\ proxyOn' = TRUE
  /\ trayActive' = TRUE
  /\ Report(c, "on")
  /\ UNCHANGED <<quitVars, buildVars, serviceVars, sysVars>>

-----------------------------------------------------------------------------
(* StopProxy, alone or as part of BeforeClose *)

FlagStop(c) ==
  /\ pc[c] = "stop_flag"
  /\ stopPending' = TRUE
  /\ Goto(c, "stop_abort")
  /\ UNCHANGED <<quitVars, why, proxyMu, buildAbort, aborted, proxyOn,
                 serviceVars, trayActive, ui, sysVars>>

(* abortBuild: reaches a build only once it has registered its abort.      *)
AbortBuild(c) ==
  /\ pc[c] = "stop_abort"
  /\ aborted' = (aborted \/ buildAbort)
  /\ Goto(c, "stop_lock")
  /\ UNCHANGED <<quitVars, why, proxyMu, stopPending, buildAbort, proxyOn,
                 serviceVars, trayActive, ui, sysVars>>

(* What follows the return of StopProxy: BeforeClose lets Wails shut down  *)
(* after a success and asks the user after an error.                       *)
Closing(c) == why[c] \in {"quit", "restart"}

StopReturnsNil(c) ==
  /\ ui' = "off"
  /\ proxyMu' = NoCaller
  /\ Return(c)
  /\ proc' = IF Closing(c) THEN "closing" ELSE proc
  /\ UNCHANGED <<runs, startOnDomReady, pendingRestart, pendingRestartStart>>

StopReturnsError(c) ==
  /\ ui' = "off"
  /\ proxyMu' = NoCaller
  /\ IF Closing(c) THEN Goto(c, "quit_dialog") /\ UNCHANGED why ELSE Return(c)
  /\ UNCHANGED quitVars

\* A stop that returns before the function that reports Stopped is deferred.
StopFindsOff_Silently(c) ==
  /\ pc[c] = "stop_lock" /\ proxyMu = NoCaller
  /\ ~proxyOn
  /\ stopPending' = FALSE
  /\ Return(c)
  /\ proc' = IF Closing(c) THEN "closing" ELSE proc
  /\ UNCHANGED <<runs, startOnDomReady, pendingRestart, pendingRestartStart,
                 proxyMu, buildAbort, aborted, proxyOn, serviceVars,
                 trayActive, ui, sysVars>>

StopFindsOff(c) ==
  /\ pc[c] = "stop_lock" /\ proxyMu = NoCaller
  /\ ~proxyOn
  /\ stopPending' = FALSE
  /\ StopReturnsNil(c)
  /\ UNCHANGED <<buildAbort, aborted, proxyOn, serviceVars, trayActive,
                 sysVars>>

\* A stop that takes the mutex and leaves the latch set.
StopBegins_KeepsLatch(c) ==
  /\ pc[c] = "stop_lock" /\ proxyMu = NoCaller
  /\ proxyOn
  /\ proxyMu' = c
  /\ ui' = "loading"
  /\ Goto(c, "stop_clear")
  /\ UNCHANGED <<quitVars, why, buildVars, proxyOn, serviceVars, trayActive,
                 sysVars>>

StopBegins(c) ==
  /\ pc[c] = "stop_lock" /\ proxyMu = NoCaller
  /\ proxyOn
  /\ proxyMu' = c
  /\ stopPending' = FALSE
  /\ ui' = "loading"
  /\ Goto(c, "stop_clear")
  /\ UNCHANGED <<quitVars, why, buildAbort, aborted, proxyOn, serviceVars,
                 trayActive, sysVars>>

ClearSystemProxy(c) ==
  /\ pc[c] = "stop_clear"
  /\ Sys!ClearReturnsNil
  /\ Goto(c, "stop_proxy")
  /\ UNCHANGED <<quitVars, why, proxyMu, buildVars, proxyOn, serviceVars,
                 trayActive, ui>>

(* proxyOn stays true, so that a later stop comes back here.               *)
ClearSystemProxyFails(c) ==
  /\ pc[c] = "stop_clear"
  /\ Sys!ClearReturnsError
  /\ StopReturnsError(c)
  /\ UNCHANGED <<buildVars, proxyOn, serviceVars, trayActive>>

StopServer(c) ==
  /\ pc[c] = "stop_proxy"
  /\ proxyUp' = FALSE
  /\ Goto(c, "stop_whitelist")
  /\ UNCHANGED <<quitVars, why, proxyMu, buildVars, proxyOn, whitelists,
                 trayActive, ui, sysVars>>

(* Shutdown closes the listener first and then gives the requests in       *)
(* flight ten seconds.                                                     *)
StopServerTimesOut(c) ==
  /\ pc[c] = "stop_proxy"
  /\ proxyUp' = FALSE
  /\ StopReturnsError(c)
  /\ UNCHANGED <<buildVars, proxyOn, whitelists, trayActive, sysVars>>

StopWhitelistFails(c) ==
  /\ pc[c] = "stop_whitelist"
  /\ StopReturnsError(c)
  /\ UNCHANGED <<buildVars, proxyOn, serviceVars, trayActive, sysVars>>

StopDone(c) ==
  /\ pc[c] = "stop_whitelist"
  /\ whitelists' = whitelists - 1
  /\ proxyOn' = FALSE
  /\ trayActive' = FALSE
  /\ StopReturnsNil(c)
  /\ UNCHANGED <<buildVars, proxyUp, sysVars>>

-----------------------------------------------------------------------------
(* Quitting and relaunching *)

\* A cancelled quit that leaves the relaunch armed.
CancelQuit_KeepsRestart(c) ==
  /\ pc[c] = "quit_dialog"
  /\ Return(c)
  /\ UNCHANGED <<quitVars, proxyMu, buildVars, proxyOn, serviceVars,
                 trayActive, ui, sysVars>>

CancelQuit(c) ==
  /\ pc[c] = "quit_dialog"
  /\ pendingRestart' = FALSE
  /\ Return(c)
  /\ UNCHANGED <<proc, runs, startOnDomReady, pendingRestartStart,
                 proxyMu, buildVars, proxyOn, serviceVars, trayActive, ui,
                 sysVars>>

(* "Yes", or the dialog itself failed.                                     *)
QuitAnyway(c) ==
  /\ pc[c] = "quit_dialog"
  /\ proc' = "closing"
  /\ Return(c)
  /\ UNCHANGED <<runs, startOnDomReady, pendingRestart, pendingRestartStart,
                 proxyMu, buildVars, proxyOn, serviceVars, trayActive,
                 ui, sysVars>>

(* proxyOn is read under proxyMu and armed after proxyMu is released.      *)
ReadForRestart(c) ==
  /\ pc[c] = "restart_read" /\ proxyMu = NoCaller
  /\ Goto(c, IF proxyOn THEN "restart_arm_on" ELSE "restart_arm_off")
  /\ UNCHANGED <<quitVars, why, proxyMu, buildVars, proxyOn, serviceVars,
                 trayActive, ui, sysVars>>

ArmRestart(c) ==
  /\ pc[c] \in {"restart_arm_on", "restart_arm_off"}
  /\ pendingRestart' = TRUE
  /\ pendingRestartStart' = (pc[c] = "restart_arm_on")
  /\ Goto(c, "stop_flag")
  /\ UNCHANGED <<proc, runs, startOnDomReady, why, proxyMu, buildVars, proxyOn,
                 serviceVars, trayActive, ui, sysVars>>

(* Everything the process held is gone; the OS setting stays.              *)
ProcessEnds ==
  /\ pc' = [c \in Caller |-> "idle"]
  /\ why' = [c \in Caller |-> "start"]
  /\ proxyMu' = NoCaller
  /\ stopPending' = FALSE
  /\ buildAbort' = FALSE
  /\ aborted' = FALSE
  /\ proxyOn' = FALSE
  /\ proxyUp' = FALSE
  /\ whitelists' = 0
  /\ trayActive' = FALSE
  /\ ui' = "off"
  /\ pendingRestart' = FALSE
  /\ pendingRestartStart' = FALSE
  /\ Sys!ProcessGone

(* wails.Run has returned; goroutines still inside App die with it.  A     *)
(* replacement is spawned if one is armed and if it can be.                *)
Exit ==
  /\ proc = "closing"
  /\ ProcessEnds
  /\ \/ /\ pendingRestart
        /\ runs < MaxRuns
        /\ proc' = "running"
        /\ runs' = runs + 1
        /\ startOnDomReady' = pendingRestartStart
     \/ /\ proc' = "exited"
        /\ startOnDomReady' = FALSE
        /\ UNCHANGED runs

(* A crash, a kill or a power cut.                                         *)
Crash ==
  /\ proc # "exited"
  /\ ProcessEnds
  /\ proc' = "exited"
  /\ startOnDomReady' = FALSE
  /\ UNCHANGED runs

Launch ==
  /\ proc = "exited"
  /\ runs < MaxRuns
  /\ proc' = "running"
  /\ runs' = runs + 1
  /\ startOnDomReady' \in BOOLEAN
  /\ UNCHANGED <<pendingRestart, pendingRestartStart, pc, why, proxyMu,
                 buildVars, proxyOn, serviceVars, trayActive, ui, sysVars>>

-----------------------------------------------------------------------------
(* The specification *)

StartEnters(c) == StartAlreadyOn(c) \/ StartRefused(c) \/ StartBegins(c)

StartProceeds(c) ==
  \/ RegisterBuild(c)
  \/ BuildFails(c)
  \/ BuildAborts(c)
  \/ BuildAccepted(c)
  \/ StartWhitelist(c)
  \/ StartWhitelistFails(c)
  \/ Listen(c)
  \/ ListenFails(c)
  \/ SetSystemProxy(c)
  \/ SetSystemProxyFails(c)
  \/ StartDone(c)

StopEnters(c) == StopFindsOff(c) \/ StopBegins(c)

StopProceeds(c) ==
  \/ FlagStop(c)
  \/ AbortBuild(c)
  \/ ClearSystemProxy(c)
  \/ ClearSystemProxyFails(c)
  \/ StopServer(c)
  \/ StopServerTimesOut(c)
  \/ StopWhitelistFails(c)
  \/ StopDone(c)

Calls(c) ==
  \/ ClickButton(c)
  \/ ClickTray(c)
  \/ DomReady(c)
  \/ SecondInstanceLaunch(c)
  \/ Quit(c)
  \/ RestartApplication(c)

QuitSteps(c) ==
  \/ CancelQuit(c)
  \/ QuitAnyway(c)
  \/ ReadForRestart(c)
  \/ ArmRestart(c)

CallerStep(c) ==
  \/ Calls(c)
  \/ StartEnters(c)
  \/ StartProceeds(c)
  \/ StopEnters(c)
  \/ StopProceeds(c)
  \/ QuitSteps(c)

Next ==
  \/ \E c \in Caller : CallerStep(c)
  \/ Exit
  \/ Crash
  \/ Launch

Spec == Init /\ [][Next]_vars

(* A goroutine inside StartProxy or StopProxy is scheduled, every call it  *)
(* makes returns (each is bounded by a timeout), and sync.Mutex hands the  *)
(* lock to a waiter that keeps finding it free.  Nobody has to click, to   *)
(* answer the dialog, or to end the process.                               *)
Fairness ==
  \A c \in Caller :
    /\ WF_vars(StartProceeds(c))
    /\ WF_vars(StopProceeds(c))
    /\ SF_vars(StartEnters(c))
    /\ SF_vars(StopEnters(c))

FairSpec == Spec /\ Fairness

-----------------------------------------------------------------------------
(* Properties *)

CountersOK == runs \in 1..MaxRuns /\ whitelists \in 0..1

ControlOK ==
  /\ proc \in {"running", "closing", "exited"}
  /\ pc \in [Caller -> Step]
  /\ why \in [Caller -> Reason]
  /\ proxyMu \in Caller \cup {NoCaller}
  /\ ui \in {"off", "loading", "on"}

FlagsOK ==
  /\ startOnDomReady \in BOOLEAN
  /\ stopPending \in BOOLEAN /\ buildAbort \in BOOLEAN /\ aborted \in BOOLEAN
  /\ proxyOn \in BOOLEAN /\ proxyUp \in BOOLEAN /\ trayActive \in BOOLEAN
  /\ pendingRestart \in BOOLEAN /\ pendingRestartStart \in BOOLEAN
  /\ server \in BOOLEAN /\ systemProxySet \in BOOLEAN
  /\ osProxy \in BOOLEAN /\ supported \in BOOLEAN

(* Every variable has its type, and there are never two whitelist servers: *)
(* a start that fails has stopped the one it had started.                  *)
TypeOK == CountersOK /\ ControlOK /\ FlagsOK

StopPendingHasOwner ==
  stopPending => \E c \in Caller : pc[c] \in StopWaiting

LoadingHasAnOwner ==
  ui = "loading" => \E c \in Caller : pc[c] \in Locked \cup {"stop_lock"}

(* What holds everybody up has somebody who will end it, however the calls *)
(* overlap.  While the latch that makes StartProxy refuse to run is set, a *)
(* StopProxy has yet to take the mutex and clear it.  And the window is in *)
(* its loading state, its button disabled, only while a call is in its     *)
(* critical section or, after an aborted start, a StopProxy waits for the  *)
(* mutex to report the stop: why StartProxy may return without an event.   *)
WaitsHaveOwners == StopPendingHasOwner /\ LoadingHasAnOwner

(* Between calls a proxy that is off has left nothing behind: no listener, *)
(* no whitelist server, no PAC server, no system proxy still to be unset.  *)
NothingLeftRunning ==
  (proxyMu = NoCaller /\ ~proxyOn) =>
    ~proxyUp /\ whitelists = 0 /\ ~server /\ ~systemProxySet

Serving ==
  /\ proxyOn /\ proxyUp /\ whitelists = 1 /\ server
  /\ systemProxySet = supported
  /\ supported => osProxy

(* Between calls a window that shows "on" over a proxy that is on shows a  *)
(* proxy that serves: a stop that failed half-way never looks like one.    *)
OnMeansServing ==
  (proxyMu = NoCaller /\ proxyOn /\ ui = "on") => Serving

(* A relaunch is armed only while the RestartApplication that asked for it *)
(* is still in progress or the application is closing: a quit that the     *)
(* user cancelled leaves nothing armed for a later one.                    *)
NoSpuriousRelaunch ==
  (pendingRestart /\ proc = "running") =>
    \E c \in Caller : why[c] = "restart" /\ pc[c] # "idle"

(* A stop that turns the proxy off leaves no Zen PAC URL in the OS setting *)
(* whatever failed in the stops before it.                                 *)
StopClearsSystemProxy ==
  [][\A c \in Caller : StopDone(c) => ~osProxy']_vars

StopReturns ==
  \A c \in Caller : pc[c] = "stop_flag" ~> pc[c] \in {"idle", "quit_dialog"}

LoadingEnds == ui = "loading" ~> ui # "loading"

(* Nobody waits for ever: every StopProxy returns, because a start that     *)
(* holds the mutex gives it up whatever fails in it, and the window always *)
(* leaves its loading state, although an aborted start reports nothing.    *)
CallsEnd == StopReturns /\ LoadingEnds

(* StartProxy returning nil means that the proxy serves.                   *)
StartMeansServing ==
  [][\A c \in Caller : StartAlreadyOn(c) \/ StartDone(c) => Serving']_vars

-----------------------------------------------------------------------------
(* Claims of the repository that its code does not keep (README, section 5). *)

(* A StopProxy that waits for the mutex behind a filter build has aborted  *)
(* that build.                                                             *)
StopReachesBuild ==
  \A s, c \in Caller :
    pc[s] = "start_build" /\ pc[c] = "stop_lock" => aborted

(* What a failed unset left in the OS setting is unset again by a later    *)
(* Clear: the manager still knows that it owes one.                        *)
ResidueIsRetried ==
  osProxy /\ ~server /\ proc = "running" => systemProxySet
=============================================================================
