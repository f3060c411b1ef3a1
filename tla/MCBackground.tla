--------------------------- MODULE MCBackground ---------------------------
(* What runs around the replies, each protocol on its own; `subject` says    *)
(* which one a behaviour is of.  One supervisor; two runtimes and a command  *)
(* that meet in daemons.json; a watcher with pages of one row behind two     *)
(* writers of three runs, two of which match, in a journal that keeps two,   *)
(* under a clock of three readings; two openers of a run store with two      *)
(* schema steps; a POST handler, a retrain thread and a chat on the lab's    *)
(* prefix; a session and a profile that get corrective policies and lose     *)
(* them again; a configuration file that is connected and edited.            *)
EXTENDS RuntimeSupervisor, DaemonRegistry, RunWatch, RunMigrations,
        PrefixRetrain, CorrectivePolicy, AppConnect

VARIABLE subject

Ids == 1..3
MatchingIds == {1, 3}
MCVersions == 1..2

MCVars == <<vars, registryVars, watchVars, migVars, retrainVars, policyVars,
            connectVars, subject>>

\* A store is opened for the first time or is a legacy one only where stores
\* are opened.
MCInit ==
    /\ Init /\ RegistryInit /\ WatchInit
    /\ MigInit /\ RetrainInit /\ PolicyInit /\ ConnectInit
    /\ subject \in {"supervisor", "registry", "watch", "migrations", "prefix",
                    "policy", "connect"}
    /\ subject # "migrations" => objects = {}
    /\ subject # "connect" => config = NoFile

MCNext ==
    /\ subject' = subject
    /\ \/ /\ subject = "supervisor" /\ Next
          /\ UNCHANGED <<registryVars, watchVars, migVars, retrainVars, policyVars,
                         connectVars>>
       \/ /\ subject = "registry" /\ RegistryNext
          /\ UNCHANGED <<vars, watchVars, migVars, retrainVars, policyVars,
                         connectVars>>
       \/ /\ subject = "watch" /\ WatchNext
          /\ UNCHANGED <<vars, registryVars, migVars, retrainVars, policyVars,
                         connectVars>>
       \/ /\ subject = "migrations" /\ MigNext
          /\ UNCHANGED <<vars, registryVars, watchVars, retrainVars, policyVars,
                         connectVars>>
       \/ /\ subject = "prefix" /\ RetrainNext
          /\ UNCHANGED <<vars, registryVars, watchVars, migVars, policyVars,
                         connectVars>>
       \/ /\ subject = "policy" /\ PolicyNext
          /\ UNCHANGED <<vars, registryVars, watchVars, migVars, retrainVars,
                         connectVars>>
       \/ /\ subject = "connect" /\ ConnectNext
          /\ UNCHANGED <<vars, registryVars, watchVars, migVars, retrainVars,
                         policyVars>>

MCSpec ==
    /\ MCInit /\ [][MCNext]_MCVars
    /\ \/ subject = "supervisor" /\ WF_vars(Supervise)
       \/ subject = "registry" /\ RegistryFairness
       \/ subject = "watch" /\ WF_watchVars(Poll)
       \/ subject = "migrations" /\ MigFairness
       \/ subject = "prefix" /\ RetrainFairness
       \/ subject \in {"policy", "connect"}

-----------------------------------------------------------------------------
(* Properties *)

\* A run that matches is printed, a process that opens the store gets it and
\* the retrain banner goes away, whoever else is at work.
EveryoneGetsThrough == EventuallyPrinted /\ EveryOpenerGetsTheStore /\ BannerClears

=============================================================================
