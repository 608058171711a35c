--------------------------- MODULE ClusterScripts ---------------------------
(***************************************************************************)
(* The scripts that create, upgrade, reconfigure and destroy the local     *)
(* cluster the program is run against (src/scripts), with the part of TiUP *)
(* and of the cluster they rely on.                                        *)
(*                                                                         *)
(* A script is a sequence of commands under `set -euo pipefail': the first *)
(* one that fails ends it.  It may be killed at any point, with the        *)
(* command in hand, and what was done stays done: nothing is undone by a   *)
(* script, and the next one finds what the ones before it left.  One       *)
(* script works on the cluster at a time.                                  *)
(***************************************************************************)
EXTENDS Integers, Sequences

CONSTANTS
    NodeCount,  \* the nodes of each role: 3 in topology-v8.5.5.yaml
    MaxTrouble  \* bound: failures, kills, and scripts started out of turn

ASSUME ScriptsAssumption == NodeCount \in Nat \ {0} /\ MaxTrouble \in Nat

Nodes == 1 .. NodeCount
Roles == {"pd", "tikv", "tidb"}

\* The versions the scripts tell apart; a node that is not deployed has none.
Old == "v8.5.5"
New == "v8.5.6"

-----------------------------------------------------------------------------
(* The scripts.                                                            *)

Do(command) == [do |-> command, arg |-> "none"]
DoWith(command, arg) == [do |-> command, arg |-> arg]

CreateScript ==
    << Do("refuse_existing"), Do("layout"), Do("deploy"), Do("start"), Do("healthy"),
       Do("database"), DoWith("versions", Old) >>

\* Faulty variant: TiKV is patched before PD.
UpgradeScriptTikvFirst ==
    << Do("layout"), Do("healthy"), DoWith("versions", Old),
       DoWith("package", "pd"), DoWith("package", "tikv"), DoWith("package", "tidb"),
       DoWith("patch", "tikv"), DoWith("patched", "tikv"), DoWith("versions", Old),
       DoWith("patch", "pd"), DoWith("patched", "pd"), DoWith("versions", Old),
       DoWith("patch", "tidb"), DoWith("patched", "tidb"), DoWith("versions", New) >>

\* Faulty variant: the patch of TiKV is forgotten.
UpgradeScriptTikvForgotten ==
    << Do("layout"), Do("healthy"), DoWith("versions", Old),
       DoWith("package", "pd"), DoWith("package", "tikv"), DoWith("package", "tidb"),
       DoWith("patch", "pd"), DoWith("patched", "pd"), DoWith("versions", Old),
       DoWith("patch", "tidb"), DoWith("patched", "tidb"), DoWith("versions", New) >>

UpgradeScript ==
    << Do("layout"), Do("healthy"), DoWith("versions", Old),
       DoWith("package", "pd"), DoWith("package", "tikv"), DoWith("package", "tidb"),
       DoWith("patch", "pd"), DoWith("patched", "pd"), DoWith("versions", Old),
       DoWith("patch", "tikv"), DoWith("patched", "tikv"), DoWith("versions", Old),
       DoWith("patch", "tidb"), DoWith("patched", "tidb"), DoWith("versions", New) >>

ToggleScript(value) ==
    << Do("healthy"), DoWith("set", value), DoWith("first_shows", value) >>

\* Faulty variant: the role is reloaded before the variable is set.
RestartingToggleScriptReloadFirst(value) ==
    << Do("healthy"), DoWith("reload", "tidb"), DoWith("set", value),
       DoWith("first_shows", value) >>

RestartingToggleScript(value) ==
    << Do("healthy"), DoWith("set", value), DoWith("first_shows", value),
       DoWith("reload", "tidb"), Do("healthy"), DoWith("all_show", value) >>

\* Faulty variant: the runtime directory and its packages stay.
DestroyScriptKeepsFiles == << Do("skip_unless_listed"), Do("destroy") >>

DestroyScript == << Do("skip_unless_listed"), Do("destroy"), Do("rm") >>

ScriptNames == {"create", "upgrade", "enable", "disable", "enable_only", "destroy"}

Commands(name) ==
    IF name = "create" THEN CreateScript
    ELSE IF name = "upgrade" THEN UpgradeScript
    ELSE IF name = "enable" THEN RestartingToggleScript("on")
    ELSE IF name = "disable" THEN RestartingToggleScript("off")
    ELSE IF name = "destroy" THEN DestroyScript
    ELSE ToggleScript("on")

-----------------------------------------------------------------------------
VARIABLES
    \* the script in progress
    script,     \* its name, or "none"
    at,         \* the command it is at
    rolled,     \* how many nodes the rolling command in hand is through with
    last,       \* the script that ended last, and whether it exited with zero
    trouble,    \* how much has gone wrong so far
    \* what the scripts leave in the file system
    runtimeDir, \* the runtime directory of the cluster exists
    package,    \* the patch package of each role: absent, partial or whole
    deployed,   \* the files of the nodes are where TiUP has put them
    \* TiUP and the cluster
    registered, \* TiUP knows the cluster
    patched,    \* the roles that TiUP displays as patched
    version,    \* per role and node, the version it runs, or ran last
    up,         \* per role and node, whether it runs
    database,   \* the database "test" exists
    setting,    \* the stored value of tidb_foreign_key_check_in_shared_lock
    seen,       \* per TiDB node, the global value it shows
    session     \* per TiDB node, the value a client's open session works with

scriptVars == <<script, at, rolled, last, trouble>>
fileVars == <<runtimeDir, package, deployed>>
nodeVars == <<registered, patched, version, up>>
sqlVars == <<database, setting, seen, session>>
vars == <<scriptVars, fileVars, nodeVars, sqlVars>>

OnNodes(value) == [r \in Roles |-> [n \in Nodes |-> value]]
OnTidb(value) == [n \in Nodes |-> value]

TypeOK ==
    /\ script \in ScriptNames \cup {"none"}
    /\ at \in Nat \ {0} /\ rolled \in 0 .. NodeCount
    /\ last \in [script : ScriptNames \cup {"none"}, status : {"ok", "failed"}]
    /\ trouble \in 0 .. MaxTrouble
    /\ runtimeDir \in BOOLEAN /\ deployed \in BOOLEAN
    /\ registered \in BOOLEAN /\ database \in BOOLEAN
    /\ package \in [Roles -> {"absent", "partial", "whole"}]
    /\ patched \in SUBSET Roles
    /\ version \in [Roles -> [Nodes -> {"none", Old, New}]]
    /\ up \in [Roles -> [Nodes -> BOOLEAN]]
    /\ setting \in {"off", "on"}
    /\ seen \in [Nodes -> {"off", "on"}]
    /\ session \in [Nodes -> {"none", "off", "on"}]

NothingDone == [script |-> "none", status |-> "ok"]

Init ==
    /\ script = "none" /\ at = 1 /\ rolled = 0
    /\ last = NothingDone
    /\ trouble = 0
    /\ runtimeDir = FALSE
    /\ package = [r \in Roles |-> "absent"]
    /\ deployed = FALSE
    /\ registered = FALSE
    /\ patched = {}
    /\ version = OnNodes("none")
    /\ up = OnNodes(FALSE)
    /\ database = FALSE
    /\ setting = "off"
    /\ seen = OnTidb("off")
    /\ session = OnTidb("none")

-----------------------------------------------------------------------------
(* The operator, and the course of a script.                               *)

GoesWrong == trouble < MaxTrouble /\ trouble' = trouble + 1

Begin(name) ==
    /\ script = "none"
    /\ script' = name /\ at' = 1 /\ rolled' = 0
    /\ UNCHANGED <<last, fileVars, nodeVars, sqlVars>>

Upgraded == \A r \in Roles, n \in Nodes : version[r][n] = New

\* The order of the runbook; after any failure the cluster is destroyed and made anew.
NextInTurn ==
    IF last.status = "failed" THEN "destroy"
    ELSE IF last.script \in {"none", "destroy"} THEN "create"
    ELSE IF ~Upgraded THEN "upgrade"
    ELSE IF last.script # "enable" THEN "enable"
    ELSE "none"

BeginInTurn == NextInTurn # "none" /\ Begin(NextInTurn) /\ UNCHANGED trouble

BeginOutOfTurn == \E name \in ScriptNames : Begin(name) /\ GoesWrong

\* The operator has what the runbook promises: not a deadlock.
Done == script = "none" /\ NextInTurn = "none" /\ UNCHANGED vars

AtEnd == script # "none" /\ at > Len(Commands(script))

At(command) ==
    script # "none" /\ at <= Len(Commands(script)) /\ Commands(script)[at].do = command

Arg == Commands(script)[at].arg

Exit(status) ==
    /\ script' = "none" /\ at' = 1 /\ rolled' = 0
    /\ last' = [script |-> script, status |-> status]

Finish == AtEnd /\ Exit("ok") /\ UNCHANGED <<trouble, fileVars, nodeVars, sqlVars>>

GoOn(commands) ==
    /\ at' = at + commands /\ rolled' = 0
    /\ UNCHANGED <<script, last, trouble>>

\* The command in hand fails, or the script is killed with it.
Cut ==
    /\ script # "none" /\ ~AtEnd
    /\ GoesWrong
    /\ Exit("failed")
    /\ UNCHANGED <<fileVars, nodeVars, sqlVars>>

-----------------------------------------------------------------------------
(* Commands that only look.                                                *)

RoleUp(r) == \A n \in Nodes : up[r][n]
RoleAt(r, v) == \A n \in Nodes : version[r][n] = v

\* assert_display_output_healthy looks for some words, of which `Disconnected' is none:
\* that is how a TiKV node is displayed that has stopped a moment ago.
Displayed(r, disconnected) == RoleUp(r) \/ (r = "tikv" /\ disconnected)

\* assert_cluster_display_healthy, assert_all_tidb_sql_versions, assert_role_patched,
\* assert_shared_lock_fk_check_value on the first node and on all of them.
Asserted(disconnected) ==
    \/ At("healthy") /\ registered /\ \A r \in Roles : Displayed(r, disconnected)
    \/ At("versions") /\ RoleUp("tidb") /\ RoleAt("tidb", Arg)
    \/ At("patched") /\ registered /\ Displayed(Arg, disconnected) /\ Arg \in patched
    \/ At("first_shows") /\ up["tidb"][1] /\ seen[1] = Arg
    \/ At("all_show") /\ RoleUp("tidb") /\ \A n \in Nodes : seen[n] = Arg

Assert ==
    /\ At("healthy") \/ At("versions") \/ At("patched") \/ At("first_shows") \/ At("all_show")
    /\ \E disconnected \in BOOLEAN :
         IF Asserted(disconnected) THEN GoOn(1) ELSE Exit("failed") /\ UNCHANGED trouble
    /\ UNCHANGED <<fileVars, nodeVars, sqlVars>>

\* cluster_exists: a list that fails is a list without the cluster, since the pipe is
\* the condition of an `if' and its error output is dropped.
Listed(found) ==
    /\ \/ At("refuse_existing") /\ IF found THEN Exit("failed") /\ UNCHANGED trouble
                                            ELSE GoOn(1)
       \/ At("skip_unless_listed") /\ GoOn(IF found THEN 1 ELSE 2)
    /\ UNCHANGED <<fileVars, nodeVars, sqlVars>>

List == Listed(registered)

ListFails ==
    /\ trouble < MaxTrouble
    /\ \/ At("refuse_existing") /\ at' = at + 1
       \/ At("skip_unless_listed") /\ at' = at + 2
    /\ trouble' = trouble + 1
    /\ rolled' = 0
    /\ UNCHANGED <<script, last, fileVars, nodeVars, sqlVars>>

-----------------------------------------------------------------------------
(* Commands that change files.                                             *)

Layout ==
    /\ At("layout")
    /\ runtimeDir' = TRUE
    /\ GoOn(1)
    /\ UNCHANGED <<package, deployed, nodeVars, sqlVars>>

\* Faulty variant: a package that an earlier upgrade has left is an error.
PackageRefusesExisting ==
    /\ At("package")
    /\ IF package[Arg] = "absent"
       THEN package' = [package EXCEPT ![Arg] = "whole"] /\ GoOn(1)
       ELSE Exit("failed") /\ UNCHANGED <<trouble, package>>
    /\ UNCHANGED <<runtimeDir, deployed, nodeVars, sqlVars>>

\* ensure_patch_package keeps a file that is there, whatever is in it.
Package ==
    /\ At("package")
    /\ package' = [package EXCEPT ![Arg] = IF @ = "absent" THEN "whole" ELSE @]
    /\ GoOn(1)
    /\ UNCHANGED <<runtimeDir, deployed, nodeVars, sqlVars>>

\* tar is cut off.  Its failure alone does not end the script: a command
\* substitution, in which ensure_patch_package runs, has no `set -e'.
PackageFails ==
    /\ At("package")
    /\ package[Arg] = "absent"
    /\ GoesWrong
    /\ package' = [package EXCEPT ![Arg] = "partial"]
    /\ \/ at' = at + 1 /\ rolled' = 0 /\ UNCHANGED <<script, last>>
       \/ Exit("failed")
    /\ UNCHANGED <<runtimeDir, deployed, nodeVars, sqlVars>>

\* rm -rf takes the packages, and the files of the nodes of a cluster still there.  It
\* stops no process: what runs goes on running.
RemoveRuntimeDir ==
    /\ At("rm")
    /\ runtimeDir' = FALSE
    /\ package' = [r \in Roles |-> "absent"]
    /\ deployed' = FALSE
    /\ GoOn(1)
    /\ UNCHANGED <<nodeVars, sqlVars>>

-----------------------------------------------------------------------------
(* Commands of TiUP and SQL statements.                                    *)

\* TiUP refuses to deploy a cluster that it knows.
Deploy ==
    /\ At("deploy")
    /\ IF registered THEN Exit("failed") /\ UNCHANGED <<trouble, deployed, nodeVars, sqlVars>>
       ELSE /\ registered' = TRUE
            /\ deployed' = TRUE
            /\ patched' = {}
            /\ version' = OnNodes(Old)
            /\ database' = FALSE
            /\ setting' = "off" /\ seen' = OnTidb("off")
            /\ GoOn(1)
            /\ UNCHANGED <<up, session>>
    /\ UNCHANGED <<runtimeDir, package>>

StartCluster ==
    /\ At("start")
    /\ up' = OnNodes(TRUE)
    /\ GoOn(1)
    /\ UNCHANGED <<fileVars, registered, patched, version, sqlVars>>

\* Faulty variant: the failure of the statement goes unnoticed.
EnsureDatabaseUnchecked ==
    /\ At("database")
    /\ database' = (database \/ up["tidb"][1])
    /\ GoOn(1)
    /\ UNCHANGED <<fileVars, nodeVars, setting, seen, session>>

EnsureDatabase ==
    /\ At("database")
    /\ IF up["tidb"][1] THEN database' = TRUE /\ GoOn(1)
                        ELSE Exit("failed") /\ UNCHANGED <<trouble, database>>
    /\ UNCHANGED <<fileVars, nodeVars, setting, seen, session>>

\* The node that executes SET GLOBAL shows the value at once, the others in time.
SetGlobal ==
    /\ At("set")
    /\ IF up["tidb"][1]
       THEN setting' = Arg /\ seen' = [seen EXCEPT ![1] = Arg] /\ GoOn(1)
       ELSE Exit("failed") /\ UNCHANGED <<trouble, setting, seen>>
    /\ UNCHANGED <<fileVars, nodeVars, database, session>>

\* TiUP stops the nodes it knows, also those that have lost their files.
Destroy ==
    /\ At("destroy")
    /\ registered' = FALSE
    /\ deployed' = FALSE
    /\ patched' = {}
    /\ version' = OnNodes("none")
    /\ up' = OnNodes(FALSE)
    /\ database' = FALSE
    /\ session' = OnTidb("none")
    /\ GoOn(1)
    /\ UNCHANGED <<runtimeDir, package, setting, seen>>

\* patch and reload restart the nodes of a role one after the other.  A package that is
\* not whole is refused before the first node, and so is a cluster without its files.
Rolling == At("patch") \/ At("reload")

Refused ==
    \/ ~registered
    \/ ~deployed
    \/ At("patch") /\ package[Arg] # "whole"

RollRefused ==
    /\ Rolling /\ Refused
    /\ Exit("failed")
    /\ UNCHANGED <<trouble, fileVars, nodeVars, sqlVars>>

NodeAtHand == rolled + 1

RollTakesDown ==
    /\ Rolling /\ ~Refused
    /\ rolled < NodeCount
    /\ up[Arg][NodeAtHand]
    /\ up' = [up EXCEPT ![Arg][NodeAtHand] = FALSE]
    /\ session' = IF Arg = "tidb" THEN [session EXCEPT ![NodeAtHand] = "none"] ELSE session
    /\ UNCHANGED <<scriptVars, fileVars, registered, patched, version,
                   database, setting, seen>>

\* A TiDB node that starts reads the stored variables.
RollBringsUp ==
    /\ Rolling /\ ~Refused
    /\ rolled < NodeCount
    /\ ~up[Arg][NodeAtHand]
    /\ up' = [up EXCEPT ![Arg][NodeAtHand] = TRUE]
    /\ version' = IF At("patch") THEN [version EXCEPT ![Arg][NodeAtHand] = New] ELSE version
    /\ seen' = IF Arg = "tidb" THEN [seen EXCEPT ![NodeAtHand] = setting] ELSE seen
    /\ rolled' = NodeAtHand
    /\ UNCHANGED <<script, at, last, trouble, fileVars, registered, patched,
                   database, setting, session>>

RollEnds ==
    /\ Rolling
    /\ rolled = NodeCount
    /\ patched' = IF At("patch") THEN patched \cup {Arg} ELSE patched
    /\ GoOn(1)
    /\ UNCHANGED <<fileVars, registered, version, up, sqlVars>>

-----------------------------------------------------------------------------
(* The cluster by itself.                                                  *)

NodeFails(r, n) ==
    /\ up[r][n]
    /\ GoesWrong
    /\ up' = [up EXCEPT ![r][n] = FALSE]
    /\ session' = IF r = "tidb" THEN [session EXCEPT ![n] = "none"] ELSE session
    /\ UNCHANGED <<script, at, rolled, last, fileVars, registered, patched, version,
                   database, setting, seen>>

\* systemd starts a node again, but not the one that TiUP has just stopped.
NodeRestarts(r, n) ==
    /\ deployed
    /\ ~(Rolling /\ r = Arg /\ n = NodeAtHand)
    /\ ~up[r][n]
    /\ up' = [up EXCEPT ![r][n] = TRUE]
    /\ seen' = IF r = "tidb" THEN [seen EXCEPT ![n] = setting] ELSE seen
    /\ UNCHANGED <<scriptVars, fileVars, registered, patched, version,
                   database, setting, session>>

\* A TiDB node learns of a change of the stored variables.
SeesSetting(n) ==
    /\ up["tidb"][n]
    /\ seen[n] # setting
    /\ seen' = [seen EXCEPT ![n] = setting]
    /\ UNCHANGED <<scriptVars, fileVars, nodeVars, database, setting, session>>

\* database/sql opens a session of its pool; it keeps the value it begins with.
OpenSession(n) ==
    /\ up["tidb"][n]
    /\ session[n] = "none"
    /\ session' = [session EXCEPT ![n] = seen[n]]
    /\ UNCHANGED <<scriptVars, fileVars, nodeVars, database, setting, seen>>

Command ==
    \/ Finish \/ Assert \/ List \/ Layout \/ Package \/ RemoveRuntimeDir
    \/ Deploy \/ StartCluster \/ EnsureDatabase \/ SetGlobal \/ Destroy
    \/ RollRefused \/ RollTakesDown \/ RollBringsUp \/ RollEnds

Next ==
    \/ BeginInTurn \/ BeginOutOfTurn \/ Done
    \/ Command
    \/ Cut \/ ListFails \/ PackageFails
    \/ \E r \in Roles, n \in Nodes : NodeFails(r, n) \/ NodeRestarts(r, n)
    \/ \E n \in Nodes : SeesSetting(n) \/ OpenSession(n)

\* TiUP and the SQL client answer, and the operator goes on; nothing has a node see
\* a setting or a client open a session.
Spec == Init /\ [][Next]_vars /\ WF_vars(Command) /\ WF_vars(BeginInTurn)

-----------------------------------------------------------------------------
(* Properties.                                                             *)

Before == {<<"pd", "tikv">>, <<"pd", "tidb">>, <<"tikv", "tidb">>}

\* "PD patch first, TiKV patch second, TiDB patch last": no node of a role runs the
\* new version beside an old node of a role that goes before it, across any number of
\* upgrades that were killed half way and started again.
RolesInOrder ==
    \A pair \in Before, n, m \in Nodes :
        ~(version[pair[1]][n] = Old /\ version[pair[2]][m] = New)

Exited(name) == script = "none" /\ last = [script |-> name, status |-> "ok"]

\* An upgrade that exits with zero has left no node of any role behind, be it with
\* packages and patched marks that earlier upgrades have left.
UpgradeIsWhole == Exited("upgrade") => Upgraded

\* What an upgrade may fail for: a cluster that is not there, a node that is down, a
\* package that tar has left partial, or, before it patches TiDB, a TiDB node that an
\* upgrade before it has patched.
UpgradeHindered ==
    \/ ~registered \/ ~deployed
    \/ \E r \in Roles : ~RoleUp(r) \/ package[r] = "partial"
    \/ at < 13 /\ ~RoleAt("tidb", Old)

\* An upgrade that nothing goes wrong with fails for one of these causes only: whatever
\* upgrades before it have left behind, killed anywhere before their first TiDB node
\* (packages, patched marks, roles that are patched or half patched), it gets past.
UpgradeFailsForCause ==
    [][script = "upgrade" /\ script' = "none" /\ last'.status = "failed" /\ trouble' = trouble
         => UpgradeHindered]_vars

\* A create that exits with zero leaves a cluster TiUP knows, at the old version, with
\* its database, whatever creates and destroys before it were cut off.
CreateIsReady ==
    Exited("create") => registered /\ database /\ \A r \in Roles : RoleAt(r, Old)

\* No client of the node can work with another value.
ShowsOnly(n, value) == seen[n] = value /\ session[n] \in {"none", value}

\* After a toggle with --restart has exited with zero, no node shows and no session
\* works with the other value: a run that starts now meets one lock mode only.
ToggleIsSeen ==
    /\ Exited("enable") => \A n \in Nodes : ShowsOnly(n, "on")
    /\ Exited("disable") => \A n \in Nodes : ShowsOnly(n, "off")

\* Whatever is killed or fails, and whichever script is started at the wrong moment,
\* destroying and making anew ends with an upgraded cluster and the variable enabled.
RepairEnds == <>(Exited("enable") /\ Upgraded)

\* docs/runbooks/tiup-local-upgrade-scripts.md: "`tiup cluster destroy <cluster-name>`
\* completes successfully", and the last line that destroy-cluster.sh prints.
DestroyedIsGone == Exited("destroy") => ~registered /\ ~runtimeDir

\* Every node that has been deployed, or runs, belongs to a cluster TiUP knows, also when
\* a destroy has taken the cluster for absent and removed the files under its running
\* nodes: the next `tiup cluster destroy' reaches them, and no create meets them.
NodesAreKnown ==
    /\ deployed => registered
    /\ \A r \in Roles, n \in Nodes : up[r][n] \/ version[r][n] # "none" => registered

-----------------------------------------------------------------------------
(* The inductive invariant behind the safety properties: what the commands *)
(* that a script is through with have left, and still holds.               *)

CreateProgress ==
    script = "create" =>
        /\ at > 3 => registered /\ \A r \in Roles : RoleAt(r, Old)
        /\ at > 6 => database

\* The patches are the commands 7, 10 and 13.
UpgradeProgress ==
    script = "upgrade" =>
        /\ at > 7 => RoleAt("pd", New)
        /\ at > 10 => RoleAt("tikv", New)
        /\ at > 13 => RoleAt("tidb", New)
        /\ At("patch") => \A n \in 1 .. rolled : version[Arg][n] = New

\* The variable is set by the command 2, the role reloaded by the command 4.
ToggleReached(name, value) ==
    script = name =>
        /\ at > 2 => setting = value
        /\ at = 4 => \A n \in 1 .. rolled : ShowsOnly(n, value)
        /\ at > 4 => \A n \in Nodes : ShowsOnly(n, value)

ToggleProgress == ToggleReached("enable", "on") /\ ToggleReached("disable", "off")

SessionsOK == \A n \in Nodes : session[n] # "none" => up["tidb"][n]

\* What ToggleIsSeen says, with the stored value.
ToggleLeft(name, value) ==
    Exited(name) => setting = value /\ \A n \in Nodes : ShowsOnly(n, value)

ToggleDone == ToggleLeft("enable", "on") /\ ToggleLeft("disable", "off")

Promises == RolesInOrder /\ UpgradeIsWhole /\ CreateIsReady /\ ToggleDone
Progress == CreateProgress /\ UpgradeProgress /\ ToggleProgress /\ SessionsOK

\* What UpgradeFailsForCause needs: the packages made and the roles patched so far.
PatchesProgress ==
    script = "upgrade" =>
        /\ at > 4 => package["pd"] # "absent"
        /\ at > 5 => package["tikv"] # "absent"
        /\ at > 6 => package["tidb"] # "absent"
        /\ at > 7 => "pd" \in patched
        /\ at > 10 => "tikv" \in patched
        /\ at > 13 => "tidb" \in patched

ScriptsInv == TypeOK /\ NodesAreKnown /\ Promises /\ Progress /\ PatchesProgress
=============================================================================
