------------------------- MODULE PublicServerWizard -------------------------
(***************************************************************************)
(* The Public Server Wizard while it runs: cmd/road/wizard.go              *)
(* (runTryCloudflarePublicServer, runPublicEngineUntilStopped), the        *)
(* cloudflared child process (cmd/road/tunnel_manager.go) and the wait for *)
(* its URL (cmd/road/tunnel_trycloudflare.go).                             *)
(*                                                                         *)
(* A goroutine waits for the child, runs the cleanup and sends ONE value   *)
(* on proc.done.  The wizard receives from proc.done while it waits for    *)
(* the URL and while the engine runs, and so does every call of Stop; Stop *)
(* is called by a goroutine of its own when the context ends ("ctx") and   *)
(* by the wizard's defer ("main").                                         *)
(***************************************************************************)
EXTENDS Integers

Stoppers == {"ctx", "main"}

VARIABLES
    child,          \* the process: "running", "exited" (by itself) or "killed" (by a signal)
    waiter,         \* the goroutine in cmd.Wait: "wait", "cleanup", "send" or "done"
    doneCh,         \* values in the buffer of proc.done
    ctxDone,        \* the context of signal.NotifyContext is done
    interrupted,    \* history: Ctrl+C was pressed
    engine,         \* "off", "running", "stopping" or "stopped"
    engineCh,       \* values in the buffer of engineDone
    main,           \* where the wizard is
    stop            \* where each call of Stop is

wizardVars == <<child, waiter, doneCh, ctxDone, interrupted, engine, engineCh, main, stop>>
procVars == <<child, waiter>>
engineVars == <<engine, engineCh>>

WizardTypeOK ==
    /\ child \in {"running", "exited", "killed"}
    /\ waiter \in {"wait", "cleanup", "send", "done"}
    /\ doneCh \in 0 .. 1 /\ engineCh \in 0 .. 1
    /\ ctxDone \in BOOLEAN /\ interrupted \in BOOLEAN
    /\ engine \in {"off", "running", "stopping", "stopped"}
    /\ main \in {"url", "check", "engine", "drain", "defer", "cancel", "returned"}
    /\ stop \in [Stoppers -> {"none", "start", "poll", "signal", "select", "kill", "drain", "done"}]

WizardInit ==
    /\ child = "running" /\ waiter = "wait" /\ doneCh = 0
    /\ ctxDone = FALSE /\ interrupted = FALSE
    /\ engine = "off" /\ engineCh = 0
    /\ main = "url"
    /\ stop = [s \in Stoppers |-> "none"]

-----------------------------------------------------------------------------
(* The child process and the goroutine that waits for it. *)

Exit ==
    /\ child = "running"
    /\ child' \in {"exited", "killed"}
    /\ UNCHANGED <<waiter, doneCh, ctxDone, interrupted, engineVars, main, stop>>

Reap ==
    /\ waiter = "wait" /\ child # "running"
    /\ waiter' = "cleanup"
    /\ UNCHANGED <<child, doneCh, ctxDone, interrupted, engineVars, main, stop>>

Cleanup ==
    /\ waiter = "cleanup"
    /\ waiter' = "send"
    /\ UNCHANGED <<child, doneCh, ctxDone, interrupted, engineVars, main, stop>>

SendDone ==
    /\ waiter = "send" /\ doneCh = 0
    /\ waiter' = "done" /\ doneCh' = 1
    /\ UNCHANGED <<child, ctxDone, interrupted, engineVars, main, stop>>

-----------------------------------------------------------------------------
(* The engine, in a goroutine of its own. *)

\* Start returns: on its own with an error, or within the shutdown timeout when
\* the context ends.
EngineStopping ==
    /\ engine = "running" /\ ctxDone
    /\ engine' = "stopping"
    /\ UNCHANGED <<procVars, doneCh, ctxDone, interrupted, engineCh, main, stop>>

EngineReturns ==
    /\ engine \in {"running", "stopping"}
    /\ engine' = "stopped" /\ engineCh' = 1
    /\ UNCHANGED <<procVars, doneCh, ctxDone, interrupted, main, stop>>

-----------------------------------------------------------------------------
(* The wizard. *)

CtrlC ==
    /\ ~interrupted /\ main # "returned"
    /\ interrupted' = TRUE /\ ctxDone' = TRUE
    /\ UNCHANGED <<procVars, doneCh, engineVars, main, stop>>

\* The URL is there, the configuration is built and the engine started.
UrlReady ==
    /\ main = "url"
    /\ main' = "check" /\ engine' = "running"
    /\ UNCHANGED <<procVars, doneCh, ctxDone, interrupted, engineCh, stop>>

\* The URL does not come in time, the context ends first, or the URL or the
\* configuration is no good.
UrlGivenUp ==
    /\ main = "url"
    /\ main' = "defer"
    /\ UNCHANGED <<procVars, doneCh, ctxDone, interrupted, engineVars, stop>>

\* waitForLocalDataPlane: the engine answers, or does not within 3 s (nil too).
CheckDone ==
    /\ main = "check"
    /\ main' = "engine"
    /\ UNCHANGED <<procVars, doneCh, ctxDone, interrupted, engineVars, stop>>

\* It also ends with the context, or with the engine: an engine stopped by the
\* context returns nil and the wizard goes on.
CheckFails ==
    /\ main = "check"
    /\ \/ ctxDone /\ main' = "defer" /\ UNCHANGED engineCh
       \/ engineCh = 1 /\ engineCh' = 0 /\ main' = "defer"
       \/ engineCh = 1 /\ ctxDone /\ engineCh' = 0 /\ main' = "engine"
    /\ UNCHANGED <<procVars, doneCh, ctxDone, interrupted, engine, stop>>

\* Mutant: only the wait for the URL watches the tunnel.
MutantTunnelUnwatched ==
    /\ main = "url" /\ doneCh = 1
    /\ doneCh' = 0 /\ main' = "defer"
    /\ UNCHANGED <<procVars, ctxDone, interrupted, engineVars, stop>>

\* case err := <-proc.done, while waiting for the URL or running the engine.
TunnelGone ==
    /\ main \in {"url", "engine"} /\ doneCh = 1
    /\ doneCh' = 0 /\ main' = "defer"
    /\ UNCHANGED <<procVars, ctxDone, interrupted, engineVars, stop>>

EngineGone ==
    /\ main \in {"engine", "drain"} /\ engineCh = 1
    /\ engineCh' = 0 /\ main' = "defer"
    /\ UNCHANGED <<procVars, doneCh, ctxDone, interrupted, engine, stop>>

\* case <-ctx.Done(): the engine has six seconds to return.
EngineAwaited ==
    /\ main = "engine" /\ ctxDone
    /\ main' = "drain"
    /\ UNCHANGED <<procVars, doneCh, ctxDone, interrupted, engineVars, stop>>

EngineGivenUp ==
    /\ main = "drain"
    /\ main' = "defer"
    /\ UNCHANGED <<procVars, doneCh, ctxDone, interrupted, engineVars, stop>>

\* The defers: tunnel.Stop, then cancel; the lock is released after them.
DeferStop ==
    /\ main = "defer" /\ stop["main"] = "none"
    /\ stop' = [stop EXCEPT !["main"] = "start"]
    /\ UNCHANGED <<procVars, doneCh, ctxDone, interrupted, engineVars, main>>

\* Mutant: the wizard does not wait for its call of Stop.
MutantStopUnawaited ==
    /\ main = "defer" /\ stop["main"] # "none"
    /\ main' = "cancel"
    /\ UNCHANGED <<procVars, doneCh, ctxDone, interrupted, engineVars, stop>>

StopReturned ==
    /\ main = "defer" /\ stop["main"] = "done"
    /\ main' = "cancel"
    /\ UNCHANGED <<procVars, doneCh, ctxDone, interrupted, engineVars, stop>>

Return ==
    /\ main = "cancel"
    /\ main' = "returned" /\ ctxDone' = TRUE
    /\ UNCHANGED <<procVars, doneCh, interrupted, engineVars, stop>>

-----------------------------------------------------------------------------
(* cloudflaredProcess.Stop(5s), by each of its two callers. *)

To(s, label) == stop' = [stop EXCEPT ![s] = label]

ContextStops ==
    /\ ctxDone /\ stop["ctx"] = "none"
    /\ To("ctx", "start")
    /\ UNCHANGED <<procVars, doneCh, ctxDone, interrupted, engineVars, main>>

\* ProcessState.Exited() is true only of a process that was waited for and
\* was not ended by a signal.
CheckState(s) ==
    /\ stop[s] = "start"
    /\ To(s, IF waiter # "wait" /\ child = "exited" THEN "done" ELSE "poll")
    /\ UNCHANGED <<procVars, doneCh, ctxDone, interrupted, engineVars, main>>

\* select { case <-p.done: return; default: }
Poll(s) ==
    /\ stop[s] = "poll"
    /\ doneCh' = 0
    /\ To(s, IF doneCh = 1 THEN "done" ELSE "signal")
    /\ UNCHANGED <<procVars, ctxDone, interrupted, engineVars, main>>

\* The interrupt is a request: the child ends when it likes (Exit).
Signal(s) ==
    /\ stop[s] = "signal"
    /\ To(s, "select")
    /\ UNCHANGED <<procVars, doneCh, ctxDone, interrupted, engineVars, main>>

ReceiveDone(s) ==
    /\ stop[s] \in {"select", "drain"} /\ doneCh = 1
    /\ doneCh' = 0
    /\ To(s, "done")
    /\ UNCHANGED <<procVars, ctxDone, interrupted, engineVars, main>>

Timeout(s) ==
    /\ stop[s] = "select"
    /\ To(s, "kill")
    /\ UNCHANGED <<procVars, doneCh, ctxDone, interrupted, engineVars, main>>

\* Kill; then wait for p.done without a timeout.
Kill(s) ==
    /\ stop[s] = "kill"
    /\ child' = IF child = "running" THEN "killed" ELSE child
    /\ To(s, "drain")
    /\ UNCHANGED <<waiter, doneCh, ctxDone, interrupted, engineVars, main>>

StopStep(s) == CheckState(s) \/ Poll(s) \/ Signal(s) \/ ReceiveDone(s) \/ Timeout(s) \/ Kill(s)

WaiterStep == Reap \/ Cleanup \/ SendDone
MainStep == CheckDone \/ CheckFails \/ TunnelGone \/ EngineGone \/ EngineAwaited \/ EngineGivenUp \/ DeferStop \/ StopReturned \/ Return

WizardNext ==
    \/ Exit \/ WaiterStep \/ CtrlC \/ UrlReady \/ UrlGivenUp
    \/ EngineStopping \/ EngineReturns \/ MainStep \/ ContextStops
    \/ \E s \in Stoppers : StopStep(s)

WizardSpec == WizardInit /\ [][WizardNext]_wizardVars

\* Goroutines run and timers fire; the wait for the URL has a timeout.  Nothing
\* is assumed of the child: it ends when it likes or when it is killed.
FairSpec ==
    /\ WizardSpec
    /\ WF_wizardVars(WaiterStep) /\ WF_wizardVars(MainStep) /\ WF_wizardVars(ContextStops)
    /\ WF_wizardVars(UrlReady \/ UrlGivenUp) /\ WF_wizardVars(EngineStopping)
    /\ \A s \in Stoppers : WF_wizardVars(StopStep(s))

-----------------------------------------------------------------------------
(* Properties. *)

\* The wizard never returns, and so never gives its lock back, while its
\* cloudflared still runs, whichever of the two calls of Stop was first and
\* whatever ended the engine.
NoOrphanTunnel == main \in {"cancel", "returned"} => child # "running"

\* When cloudflared ends by itself and nothing else happens, the wizard ends.
TunnelExitEndsWizard ==
    (child = "exited" /\ ~ctxDone) ~> (main = "returned" \/ interrupted)

\* Ctrl+C ends the wizard.
InterruptEndsWizard == interrupted ~> main = "returned"
=============================================================================
