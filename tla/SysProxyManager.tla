--------------------------- MODULE SysProxyManager ---------------------------
(***************************************************************************)
(* sysproxy.Manager: the PAC server of the process and the proxy setting   *)
(* of the operating system.  The manager has no lock of its own: App calls *)
(* it with proxyMu held.  Each operator below is one outcome of one call;  *)
(* AppLifecycle composes them with the steps of StartProxy and StopProxy.  *)
(***************************************************************************)

VARIABLES
  server,          \* m.server # nil: the PAC listener is bound
  systemProxySet,  \* m.systemProxySet
  osProxy,         \* some part of the OS proxy setting holds a PAC URL of Zen's
  supported        \* the desktop environment has a proxy setting Zen can write

sysVars == <<server, systemProxySet, osProxy, supported>>

Init ==
  /\ server = FALSE
  /\ systemProxySet = FALSE
  /\ osProxy = FALSE
  /\ supported \in BOOLEAN

(* The process is gone, and with it the listener; the OS setting stays.    *)
ProcessGone ==
  /\ server' = FALSE
  /\ systemProxySet' = FALSE
  /\ UNCHANGED <<osProxy, supported>>

-----------------------------------------------------------------------------
(* Set *)

SetSucceeds ==
  /\ supported
  /\ server' = TRUE
  /\ systemProxySet' = TRUE
  /\ osProxy' = TRUE
  /\ UNCHANGED supported

(* The user points the browser at the PAC URL by hand: the server stays.   *)
SetUnsupported ==
  /\ ~supported
  /\ server' = TRUE
  /\ UNCHANGED <<systemProxySet, osProxy, supported>>

(* The PAC port cannot be bound: nothing has changed.                      *)
SetCannotListen == UNCHANGED sysVars

\* A Set that leaves the PAC server up when nobody will use it.
SetRollsBack_KeepsServer ==
  /\ supported
  /\ server' = TRUE
  /\ osProxy' \in BOOLEAN
  /\ UNCHANGED <<systemProxySet, supported>>

(* setSystemProxy writes one network service or key after another and      *)
(* fails part of the way; the roll-back's own failure is only logged.      *)
SetRollsBack ==
  /\ supported
  /\ server' = FALSE
  /\ osProxy' \in BOOLEAN
  /\ UNCHANGED <<systemProxySet, supported>>

-----------------------------------------------------------------------------
(* Clear *)

\* A Clear that forgets the unset it still owes once the server is closed.
NothingToClear_ServerOnly == ~server

NothingToClear == ~server /\ ~systemProxySet

ClearNothing == NothingToClear /\ UNCHANGED sysVars

ClearSucceeds ==
  /\ ~NothingToClear
  /\ supported
  /\ server' = FALSE
  /\ systemProxySet' = FALSE
  /\ osProxy' = FALSE
  /\ UNCHANGED supported

(* The server is closed even though the desktop has nothing to unset.      *)
ClearUnsupported ==
  /\ ~NothingToClear
  /\ ~supported
  /\ server' = FALSE
  /\ UNCHANGED <<systemProxySet, osProxy, supported>>

(* unsetSystemProxy failed: systemProxySet makes the next Clear retry it.  *)
UnsetFails ==
  /\ ~NothingToClear
  /\ supported
  /\ server' = FALSE
  /\ osProxy' \in {osProxy, FALSE}
  /\ UNCHANGED <<systemProxySet, supported>>

(* The unset worked and only closing the server reported an error.         *)
CloseReportsError == server /\ ClearSucceeds

ClearReturnsNil == ClearNothing \/ ClearSucceeds \/ ClearUnsupported
ClearReturnsError == UnsetFails \/ CloseReportsError
=============================================================================
