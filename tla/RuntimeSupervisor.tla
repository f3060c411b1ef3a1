-------------------------- MODULE RuntimeSupervisor --------------------------
(***************************************************************************)
(* `clozn serve`: one supervisor process that launches a private model     *)
(* worker and a public gateway, restarts the worker, and stops both        *)
(* (clozn/cli/runtime_process.py, spawn_engine in                          *)
(* clozn/cli/engine_process.py, cmd_serve in clozn/cli/commands/serve.py). *)
(*                                                                         *)
(* SIGTERM and SIGINT raise KeyboardInterrupt between two Python           *)
(* statements, wherever the supervisor is; `except Exception` does not     *)
(* catch it.  Statements that neither wait nor change anything modelled    *)
(* are part of the step before them, so a signal is not modelled between   *)
(* fork and the try block that guards the child.                           *)
(***************************************************************************)
EXTENDS Naturals

CONSTANT RestartLimit   \* RuntimeConfig.restart_limit

ASSUME SupervisorAssumption == RestartLimit \in Nat \ {0}

VARIABLES
    pc,         \* where cmd_serve is
    worker,     \* the newest worker process
    gateway,    \* the gateway process
    held,       \* stack.worker is that worker
    recent,     \* _restart_times inside restart_window
    row,        \* the runtime's row of daemons.json: none, current, stale
    registered, \* cmd_serve's flag
    outcome     \* how serving ended

vars == <<pc, worker, gateway, held, recent, row, registered, outcome>>

Child == {"none", "booting", "ready", "dead"}
Alive(c) == c \in {"booting", "ready"}

Locations == {"start", "bootWorker", "abortEngine", "launchGateway", "bootGateway",
              "abortGateway", "abortWorker", "register", "mark", "watch",
              "rebootWorker", "abortReboot", "reregister", "stopGateway",
              "stopWorker", "unregister", "exited"}

Init ==
    /\ pc = "start"
    /\ worker = "none" /\ gateway = "none"
    /\ held = FALSE
    /\ recent = 0
    /\ row = "none" /\ registered = FALSE
    /\ outcome = "none"

-----------------------------------------------------------------------------
(* spawn_runtime *)

\* port_is_open: somebody else has the public port.
PortTaken ==
    /\ pc = "start"
    /\ pc' = "exited" /\ outcome' = "error"
    /\ UNCHANGED <<worker, gateway, held, recent, row, registered>>

\* spawn_engine's Popen.
LaunchWorker ==
    /\ pc = "start"
    /\ worker' = "booting"
    /\ pc' = "bootWorker"
    /\ UNCHANGED <<gateway, held, recent, row, registered, outcome>>

\* /health is ok and the protocol handshake succeeds.
WorkerHealthy ==
    /\ pc = "bootWorker" /\ worker = "ready"
    /\ pc' = "launchGateway"
    /\ UNCHANGED <<worker, gateway, held, recent, row, registered, outcome>>

\* The worker died, is incompatible, or was not healthy in time: spawn_engine
\* raises, and its own handler terminates the process first.
WorkerBootFails ==
    /\ pc = "bootWorker"
    /\ pc' = "abortEngine" /\ outcome' = "error"
    /\ UNCHANGED <<worker, gateway, held, recent, row, registered>>

LaunchGateway ==
    /\ pc = "launchGateway"
    /\ gateway' = "booting"
    /\ pc' = "bootGateway"
    /\ UNCHANGED <<worker, held, recent, row, registered, outcome>>

\* /readyz answers ok; the stack takes both processes.
GatewayReady ==
    /\ pc = "bootGateway" /\ gateway = "ready" /\ worker = "ready"
    /\ held' = TRUE
    /\ pc' = "register"
    /\ UNCHANGED <<worker, gateway, recent, row, registered, outcome>>

\* Either process died, or the gateway was not ready in time.
GatewayBootFails ==
    /\ pc = "bootGateway"
    /\ pc' = "abortGateway" /\ outcome' = "error"
    /\ UNCHANGED <<worker, gateway, held, recent, row, registered>>

-----------------------------------------------------------------------------
(* Serving *)

Register ==
    /\ pc = "register"
    /\ row' = "current"
    /\ pc' = "mark"
    /\ UNCHANGED <<worker, gateway, held, recent, registered, outcome>>

Mark ==
    /\ pc = "mark"
    /\ registered' = TRUE
    /\ pc' = "watch"
    /\ UNCHANGED <<worker, gateway, held, recent, row, outcome>>

\* wait() returns the gateway's code and cmd_serve raises.
GatewayExited ==
    /\ pc = "watch" /\ gateway = "dead"
    /\ pc' = "stopGateway" /\ outcome' = "error"
    /\ UNCHANGED <<worker, gateway, held, recent, row, registered>>

\* _restart_worker under its limit: stack.worker is replaced only when
\* spawn_engine returns.
RestartWorker ==
    /\ pc = "watch" /\ gateway # "dead" /\ worker = "dead"
    /\ recent < RestartLimit
    /\ recent' = recent + 1
    /\ worker' = "booting" /\ held' = FALSE
    /\ row' = "stale"
    /\ pc' = "rebootWorker"
    /\ UNCHANGED <<gateway, registered, outcome>>

GiveUp ==
    /\ pc = "watch" /\ gateway # "dead" /\ worker = "dead"
    /\ recent >= RestartLimit
    /\ pc' = "stopGateway" /\ outcome' = "error"
    /\ UNCHANGED <<worker, gateway, held, recent, row, registered>>

Restarted ==
    /\ pc = "rebootWorker" /\ worker = "ready"
    /\ held' = TRUE
    /\ pc' = "reregister"
    /\ UNCHANGED <<worker, gateway, recent, row, registered, outcome>>

RestartFails ==
    /\ pc = "rebootWorker"
    /\ pc' = "abortReboot" /\ outcome' = "error"
    /\ UNCHANGED <<worker, gateway, held, recent, row, registered>>

\* on_worker_restart.
Reregister ==
    /\ pc = "reregister"
    /\ row' = "current"
    /\ pc' = "watch"
    /\ UNCHANGED <<worker, gateway, held, recent, registered, outcome>>

-----------------------------------------------------------------------------
(* Stopping.  Each of these locations is a call of _terminate *)

Terminating == {"abortEngine", "abortReboot", "abortGateway", "abortWorker",
                "stopGateway", "stopWorker"}

\* Mutant: a gateway that fails to boot takes nothing down with it.
AfterForgets(here) ==
    CASE here = "abortEngine" -> "exited"
      [] here = "abortReboot" -> "stopGateway"
      [] here = "abortGateway" -> "exited"
      [] here = "abortWorker" -> "exited"
      [] here = "stopGateway" -> "stopWorker"
      [] here = "stopWorker" -> IF registered THEN "unregister" ELSE "exited"

\* What follows: spawn_runtime's handler goes on from the gateway to the
\* worker, stack.stop() likewise and then cmd_serve unregisters.
After(here) ==
    CASE here = "abortEngine" -> "exited"
      [] here = "abortReboot" -> "stopGateway"
      [] here = "abortGateway" -> "abortWorker"
      [] here = "abortWorker" -> "exited"
      [] here = "stopGateway" -> "stopWorker"
      [] here = "stopWorker" -> IF registered THEN "unregister" ELSE "exited"

\* stop() knows the worker it holds, which during a restart is the dead one.
Target ==
    CASE pc \in {"abortGateway", "stopGateway"} -> gateway
      [] pc = "stopWorker" /\ ~held -> "dead"
      [] OTHER -> worker

\* poll() or wait() finds the process gone.
Terminated ==
    /\ pc \in Terminating
    /\ ~Alive(Target)
    /\ pc' = After(pc)
    /\ UNCHANGED <<worker, gateway, held, recent, row, registered, outcome>>

\* Mutant: a process that ignores SIGTERM is waited for.
NeverKill ==
    /\ pc \in Terminating
    /\ ~Alive(Target)
    /\ UNCHANGED vars

\* It did not exit on SIGTERM within the timeout: SIGKILL.
Kill ==
    /\ pc \in Terminating
    /\ Alive(Target)
    /\ IF pc \in {"abortGateway", "stopGateway"}
       THEN gateway' = "dead" /\ UNCHANGED worker
       ELSE worker' = "dead" /\ UNCHANGED gateway
    /\ UNCHANGED <<pc, held, recent, row, registered, outcome>>

Unregister ==
    /\ pc = "unregister"
    /\ row' = "none"
    /\ pc' = "exited"
    /\ UNCHANGED <<worker, gateway, held, recent, registered, outcome>>

\* Where KeyboardInterrupt takes the supervisor: a boot is aborted, serving is
\* stopped, and a _terminate in progress is left by the handler or finally
\* block it is in, the rest of that block unexecuted.
Interrupted ==
    CASE pc = "bootWorker" -> "abortEngine"
      [] pc = "launchGateway" -> "abortWorker"
      [] pc = "bootGateway" -> "abortGateway"
      [] pc = "rebootWorker" -> "abortReboot"
      [] pc \in {"register", "mark", "watch", "reregister", "abortReboot"} -> "stopGateway"
      [] OTHER -> "exited"

\* A signal that finds the supervisor cleaning up already cuts that short.
Signal ==
    /\ pc # "exited"
    /\ pc' = Interrupted
    /\ outcome' = IF pc \in Terminating \/ outcome = "cutShort" THEN "cutShort" ELSE "interrupt"
    /\ UNCHANGED <<worker, gateway, held, recent, row, registered>>

-----------------------------------------------------------------------------
(* The children and the clock *)

BecomesReady ==
    /\ \/ worker = "booting" /\ worker' = "ready" /\ UNCHANGED gateway
       \/ gateway = "booting" /\ gateway' = "ready" /\ UNCHANGED worker
    /\ UNCHANGED <<pc, held, recent, row, registered, outcome>>

ChildDies ==
    /\ \/ Alive(worker) /\ worker' = "dead" /\ UNCHANGED gateway
       \/ Alive(gateway) /\ gateway' = "dead" /\ UNCHANGED worker
    /\ UNCHANGED <<pc, held, recent, row, registered, outcome>>

\* The oldest restart leaves restart_window.
WindowPasses ==
    /\ recent > 0
    /\ recent' = recent - 1
    /\ UNCHANGED <<pc, worker, gateway, held, row, registered, outcome>>

-----------------------------------------------------------------------------
Supervise ==
    \/ PortTaken \/ LaunchWorker \/ WorkerHealthy \/ WorkerBootFails
    \/ LaunchGateway \/ GatewayReady \/ GatewayBootFails
    \/ Register \/ Mark \/ GatewayExited \/ RestartWorker \/ GiveUp
    \/ Restarted \/ RestartFails \/ Reregister
    \/ Terminated \/ Kill \/ Unregister

Next == Supervise \/ Signal \/ BecomesReady \/ ChildDies \/ WindowPasses

\* The supervisor's own loop runs; every wait in it has a timeout.  Nothing is
\* assumed of the children, of signals or of the passing of the window.
Spec == Init /\ [][Next]_vars
FairSpec == Spec /\ WF_vars(Supervise)

-----------------------------------------------------------------------------
(* Properties *)

TypeOK ==
    /\ pc \in Locations
    /\ worker \in Child /\ gateway \in Child
    /\ held \in BOOLEAN
    /\ recent \in 0..RestartLimit
    /\ row \in {"none", "current", "stale"}
    /\ registered \in BOOLEAN
    /\ outcome \in {"none", "error", "interrupt", "cutShort"}

\* `clozn serve` owns both children: once it has exited, whichever boot step,
\* crash, restart or signal made it, neither of them is left running, unless
\* another signal cut the cleanup itself short.
NoOrphan == pc = "exited" /\ outcome # "cutShort" => ~Alive(worker) /\ ~Alive(gateway)

\* What cleanup relies on: a child that is no longer mentioned is gone, and
\* the stack holds every worker but one that a restart is still booting.
Owned ==
    /\ pc = "start" => worker = "none" /\ gateway = "none"
    /\ pc \in {"bootWorker", "abortEngine", "launchGateway", "abortWorker", "stopWorker"}
           => ~Alive(gateway)
    /\ pc \in {"register", "mark", "watch", "reregister"} => held
    /\ pc \in {"stopGateway", "stopWorker"} => held \/ ~Alive(worker)
    /\ pc \in {"unregister", "exited"} => ~Alive(worker) /\ ~Alive(gateway)

\* The inductive form: ownership is only given up by a cleanup cut short, and
\* then the supervisor is on its way out.
OwnershipInv ==
    /\ outcome # "cutShort" => Owned
    /\ outcome = "cutShort" => pc \in {"stopGateway", "stopWorker", "unregister", "exited"}

\* While it serves, the row in daemons.json names the processes that stop has
\* to signal: no restart leaves the dead worker's pid there.
RowIsCurrent == pc = "watch" => row = "current" /\ held

\* Once serving has ended the supervisor exits, even when a child ignores
\* SIGTERM.
ShutdownEnds == outcome # "none" ~> pc = "exited"

=============================================================================
