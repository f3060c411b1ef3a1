--------------------------- MODULE DaemonRegistry ---------------------------
(***************************************************************************)
(* ~/.clozn/daemons.json: where `clozn serve` lists its runtime and where  *)
(* `clozn run`, `ps` and `stop` find it (clozn/cli/engine_process.py,      *)
(* clozn/cli/commands/serve.py).  Every writer reads the whole file,       *)
(* changes its copy and writes the whole file back; the write is atomic,   *)
(* the read and the write together are not, and nothing locks the file.    *)
(***************************************************************************)
EXTENDS Naturals

CONSTANTS
    Ports,      \* public ports, each served by at most one runtime at a time
    Clis        \* `clozn ps`, `run` and `stop` processes

ASSUME RegistryAssumption == Ports \cap Clis = {}

Processes == Ports \cup Clis

VARIABLES
    reg,        \* the ports daemons.json lists
    answering,  \* the runtime's gateway answers /readyz
    step,       \* where each process is
    copy,       \* its copy of the file
    todo,       \* the ports a CLI still has to probe, or is stopping
    dirty       \* its copy differs from what it read

registryVars == <<reg, answering, step, copy, todo, dirty>>

RuntimeSteps == {"down", "regRead", "regWrite", "serving", "unregRead", "unregWrite"}
CliSteps == {"idle", "probe", "kill", "await", "pruneRead", "pruneWrite"}

RegistryInit ==
    /\ reg = {}
    /\ answering = [p \in Ports |-> FALSE]
    /\ step = [x \in Processes |-> IF x \in Ports THEN "down" ELSE "idle"]
    /\ copy = [x \in Processes |-> {}]
    /\ todo = [c \in Clis |-> {}]
    /\ dirty = [c \in Clis |-> FALSE]

At(x, here) == step[x] = here
Go(x, there) == step' = [step EXCEPT ![x] = there]
Read(x) == copy' = [copy EXCEPT ![x] = reg]
\* What a process holds is dropped when it is done.
Done(x, there) == Go(x, there) /\ copy' = [copy EXCEPT ![x] = {}]

-----------------------------------------------------------------------------
(* One `clozn serve` per port *)

\* spawn_runtime has returned: the public port was free, the gateway is ready.
Boot(p) ==
    /\ At(p, "down")
    /\ answering' = [answering EXCEPT ![p] = TRUE]
    /\ Go(p, "regRead")
    /\ UNCHANGED <<reg, copy, todo, dirty>>

\* _register.
RegRead(p) ==
    /\ At(p, "regRead")
    /\ Read(p) /\ Go(p, "regWrite")
    /\ UNCHANGED <<reg, answering, todo, dirty>>

RegWrite(p) ==
    /\ At(p, "regWrite")
    /\ reg' = copy[p] \cup {p}
    /\ Done(p, "serving")
    /\ UNCHANGED <<answering, todo, dirty>>

\* The worker dies, and /readyz with it, until it has been restarted; then the
\* runtime registers again.
WorkerDown(p) ==
    /\ At(p, "serving") /\ answering[p]
    /\ answering' = [answering EXCEPT ![p] = FALSE]
    /\ UNCHANGED <<reg, step, copy, todo, dirty>>

WorkerRestarted(p) ==
    /\ At(p, "serving") /\ ~answering[p]
    /\ answering' = [answering EXCEPT ![p] = TRUE]
    /\ Go(p, "regRead")
    /\ UNCHANGED <<reg, copy, todo, dirty>>

Serving(p) == step[p] \in {"regRead", "regWrite", "serving"}

\* Ctrl-C, a gateway that exits or a worker past its restart limit: the
\* children are stopped.
Shutdown(p) ==
    /\ Serving(p)
    /\ answering' = [answering EXCEPT ![p] = FALSE]
    /\ Done(p, "unregRead")
    /\ UNCHANGED <<reg, todo, dirty>>

\* cmd_serve's finally block once the children are stopped: _unregister.
UnregRead(p) ==
    /\ At(p, "unregRead")
    /\ IF p \in reg THEN Read(p) /\ Go(p, "unregWrite") ELSE Done(p, "down")
    /\ UNCHANGED <<reg, answering, todo, dirty>>

UnregWrite(p) ==
    /\ At(p, "unregWrite")
    /\ reg' = copy[p] \ {p}
    /\ Done(p, "down")
    /\ UNCHANGED <<answering, todo, dirty>>

\* The supervisor is killed outright, or interrupted while it cleans up.
Killed(p) ==
    /\ step[p] # "down"
    /\ answering' = [answering EXCEPT ![p] = FALSE]
    /\ Done(p, "down")
    /\ UNCHANGED <<reg, todo, dirty>>

-----------------------------------------------------------------------------
(* `clozn ps`, and _find_warm for `clozn run` *)

PsRead(c) ==
    /\ At(c, "idle") /\ reg # {}
    /\ Read(c) /\ Go(c, "probe")
    /\ todo' = [todo EXCEPT ![c] = reg]
    /\ dirty' = [dirty EXCEPT ![c] = FALSE]
    /\ UNCHANGED <<reg, answering>>

\* gateway_health, up to a second for each port: a port that does not answer
\* is dropped from the copy.
PsProbe(c, p) ==
    /\ At(c, "probe") /\ p \in todo[c]
    /\ todo' = [todo EXCEPT ![c] = @ \ {p}]
    /\ IF answering[p]
       THEN UNCHANGED <<copy, dirty>>
       ELSE /\ copy' = [copy EXCEPT ![c] = @ \ {p}]
            /\ dirty' = [dirty EXCEPT ![c] = TRUE]
    /\ UNCHANGED <<reg, answering, step>>

\* Mutant: the pruned copy is not written.
PsKeeps(c) ==
    /\ At(c, "probe") /\ todo[c] = {}
    /\ dirty' = [dirty EXCEPT ![c] = FALSE]
    /\ Done(c, "idle")
    /\ UNCHANGED <<reg, answering, todo>>

PsWrite(c) ==
    /\ At(c, "probe") /\ todo[c] = {}
    /\ reg' = IF dirty[c] THEN copy[c] ELSE reg
    /\ dirty' = [dirty EXCEPT ![c] = FALSE]
    /\ Done(c, "idle")
    /\ UNCHANGED <<answering, todo>>

-----------------------------------------------------------------------------
(* `clozn stop` *)

\* A port, a model's ports or all of them.
StopRead(c, targets) ==
    /\ At(c, "idle")
    /\ targets # {} /\ targets \subseteq reg
    /\ todo' = [todo EXCEPT ![c] = targets]
    /\ Go(c, "kill")
    /\ UNCHANGED <<reg, answering, copy, dirty>>

\* Supervisor, gateway and worker are signalled; a supervisor that was still
\* serving begins its finally block.
StopKill(c) ==
    /\ At(c, "kill")
    /\ answering' = [p \in Ports |-> answering[p] /\ p \notin todo[c]]
    /\ step' = [x \in Processes |->
                  CASE x = c -> "await"
                    [] x \in todo[c] /\ Serving(x) -> "unregRead"
                    [] OTHER -> step[x]]
    /\ copy' = [x \in Processes |-> IF x \in todo[c] /\ Serving(x) THEN {} ELSE copy[x]]
    /\ UNCHANGED <<reg, todo, dirty>>

\* _await_dead returns when they are all gone, or at its deadline.
StopAwaited(c) ==
    /\ At(c, "await")
    /\ Go(c, "pruneRead")
    /\ UNCHANGED <<reg, answering, copy, todo, dirty>>

StopPruneRead(c) ==
    /\ At(c, "pruneRead")
    /\ Read(c) /\ Go(c, "pruneWrite")
    /\ UNCHANGED <<reg, answering, todo, dirty>>

StopPruneWrite(c) ==
    /\ At(c, "pruneWrite")
    /\ reg' = copy[c] \ todo[c]
    /\ todo' = [todo EXCEPT ![c] = {}]
    /\ Done(c, "idle")
    /\ UNCHANGED <<answering, dirty>>

-----------------------------------------------------------------------------
Runtime(p) ==
    \/ Boot(p) \/ RegRead(p) \/ RegWrite(p) \/ WorkerDown(p) \/ WorkerRestarted(p)
    \/ Shutdown(p) \/ UnregRead(p) \/ UnregWrite(p) \/ Killed(p)

Ps(c) == PsRead(c) \/ (\E p \in Ports : PsProbe(c, p)) \/ PsWrite(c)

Stop(c) ==
    \/ \E targets \in SUBSET Ports : StopRead(c, targets)
    \/ StopKill(c) \/ StopAwaited(c) \/ StopPruneRead(c) \/ StopPruneWrite(c)

RegistryNext == (\E p \in Ports : Runtime(p)) \/ (\E c \in Clis : Ps(c) \/ Stop(c))

\* Somebody keeps running `clozn ps` or `clozn run`, between other commands if
\* need be, and a command that has begun is finished; nothing is assumed of the runtimes.
RegistryFairness ==
    \A c \in Clis :
        /\ SF_registryVars(PsRead(c))
        /\ WF_registryVars((\E p \in Ports : PsProbe(c, p)) \/ PsWrite(c))
        /\ WF_registryVars(StopKill(c) \/ StopAwaited(c) \/ StopPruneRead(c) \/ StopPruneWrite(c))

RegistrySpec == RegistryInit /\ [][RegistryNext]_registryVars
RegistryFairSpec == RegistrySpec /\ RegistryFairness

-----------------------------------------------------------------------------
(* Properties *)

\* "Stale entries self-heal": the row of a runtime that is gone does not stay
\* (unless the port is served again).
StaleHeals ==
    \A p \in Ports : p \in reg /\ At(p, "down") ~> p \notin reg \/ ~At(p, "down")

=============================================================================
