------------------------ MODULE ClusterScriptsProofs ------------------------
(***************************************************************************)
(* Theorems about ClusterScripts, for every number of nodes of a role and  *)
(* however often something goes wrong.  ScriptsInv is inductive: the       *)
(* properties speak of what a script leaves, so the invariant has to say   *)
(* what it has reached at each of its commands.                            *)
(***************************************************************************)
EXTENDS ClusterScripts, TLAPS

-----------------------------------------------------------------------------
(* Where the commands are that the properties depend on.                   *)

LEMMA CommandsOfCreate ==
    ASSUME script = "create", at \in Nat \ {0}
    PROVE  /\ Len(Commands(script)) = 7
           /\ At("deploy") <=> at = 3
           /\ At("start") <=> at = 4
           /\ At("database") <=> at = 6
           /\ ~At("patch") /\ ~At("reload") /\ ~At("set") /\ ~At("destroy") /\ ~At("rm")
           /\ ~At("skip_unless_listed")
<1>1. Commands(script) = CreateScript
  BY DEF Commands
<1>2. Len(CreateScript) = 7
  BY DEF CreateScript
<1>3. /\ CreateScript[1].do = "refuse_existing" /\ CreateScript[2].do = "layout"
      /\ CreateScript[3].do = "deploy" /\ CreateScript[4].do = "start"
      /\ CreateScript[5].do = "healthy" /\ CreateScript[6].do = "database"
      /\ CreateScript[7].do = "versions"
  BY DEF CreateScript, Do, DoWith
<1>4. at <= 7 => at \in {1, 2, 3, 4, 5, 6, 7}
  OBVIOUS
<1>5. \A c : At(c) <=> at <= 7 /\ CreateScript[at].do = c
  BY <1>1, <1>2 DEF At
<1> QED
  BY <1>1, <1>2, <1>3, <1>4, <1>5

LEMMA CommandsOfUpgrade ==
    ASSUME script = "upgrade", at \in Nat \ {0}
    PROVE  /\ Len(Commands(script)) = 15
           /\ At("patch") <=> at \in {7, 10, 13}
           /\ at = 7 => Arg = "pd"
           /\ at = 10 => Arg = "tikv"
           /\ at = 13 => Arg = "tidb"
           /\ ~At("deploy") /\ ~At("start") /\ ~At("database") /\ ~At("reload") /\ ~At("set")
           /\ ~At("destroy") /\ ~At("rm") /\ ~At("skip_unless_listed")
<1>1. Commands(script) = UpgradeScript
  BY DEF Commands
<1>2. Len(UpgradeScript) = 15
  BY DEF UpgradeScript
<1>3. /\ UpgradeScript[1].do = "layout" /\ UpgradeScript[2].do = "healthy"
      /\ UpgradeScript[3].do = "versions" /\ UpgradeScript[4].do = "package"
      /\ UpgradeScript[5].do = "package" /\ UpgradeScript[6].do = "package"
      /\ UpgradeScript[7] = [do |-> "patch", arg |-> "pd"]
      /\ UpgradeScript[8].do = "patched" /\ UpgradeScript[9].do = "versions"
      /\ UpgradeScript[10] = [do |-> "patch", arg |-> "tikv"]
      /\ UpgradeScript[11].do = "patched" /\ UpgradeScript[12].do = "versions"
      /\ UpgradeScript[13] = [do |-> "patch", arg |-> "tidb"]
      /\ UpgradeScript[14].do = "patched" /\ UpgradeScript[15].do = "versions"
  BY DEF UpgradeScript, Do, DoWith
<1>4. at <= 15 => at \in {1, 2, 3, 4, 5, 6, 7, 8, 9, 10, 11, 12, 13, 14, 15}
  OBVIOUS
<1>5. \A c : At(c) <=> at <= 15 /\ UpgradeScript[at].do = c
  BY <1>1, <1>2 DEF At
<1>6. Arg = UpgradeScript[at].arg
  BY <1>1 DEF Arg
<1> QED
  BY <1>1, <1>2, <1>3, <1>4, <1>5, <1>6

\* The other commands of the upgrade.
LEMMA ChecksOfUpgrade ==
    ASSUME script = "upgrade", at \in Nat \ {0}
    PROVE  /\ At("package") <=> at \in {4, 5, 6}
           /\ At("patched") <=> at \in {8, 11, 14}
           /\ At("healthy") <=> at = 2
           /\ At("versions") <=> at \in {3, 9, 12, 15}
           /\ at \in {3, 9, 12} => Arg = Old
           /\ at = 15 => Arg = New
           /\ at \in {4, 7, 8} => Arg = "pd"
           /\ at \in {5, 10, 11} => Arg = "tikv"
           /\ at \in {6, 13, 14} => Arg = "tidb"
           /\ ~At("refuse_existing") /\ ~At("first_shows") /\ ~At("all_show")
<1>1. Commands(script) = UpgradeScript
  BY DEF Commands
<1>2. Len(UpgradeScript) = 15
  BY DEF UpgradeScript
<1>3. /\ UpgradeScript[1] = Do("layout")
      /\ UpgradeScript[2] = Do("healthy")
      /\ UpgradeScript[3] = DoWith("versions", Old)
      /\ UpgradeScript[4] = DoWith("package", "pd")
      /\ UpgradeScript[5] = DoWith("package", "tikv")
      /\ UpgradeScript[6] = DoWith("package", "tidb")
      /\ UpgradeScript[7] = DoWith("patch", "pd")
      /\ UpgradeScript[8] = DoWith("patched", "pd")
      /\ UpgradeScript[9] = DoWith("versions", Old)
      /\ UpgradeScript[10] = DoWith("patch", "tikv")
      /\ UpgradeScript[11] = DoWith("patched", "tikv")
      /\ UpgradeScript[12] = DoWith("versions", Old)
      /\ UpgradeScript[13] = DoWith("patch", "tidb")
      /\ UpgradeScript[14] = DoWith("patched", "tidb")
      /\ UpgradeScript[15] = DoWith("versions", New)
  BY DEF UpgradeScript
<1>4. at <= 15 => at \in {1, 2, 3, 4, 5, 6, 7, 8, 9, 10, 11, 12, 13, 14, 15}
  OBVIOUS
<1>5. \A c : At(c) <=> at <= 15 /\ UpgradeScript[at].do = c
  BY <1>1, <1>2 DEF At
<1>6. Arg = UpgradeScript[at].arg
  BY <1>1 DEF Arg
<1>7. /\ \A c : Do(c).do = c
      /\ \A c, arg : DoWith(c, arg).do = c /\ DoWith(c, arg).arg = arg
  BY DEF Do, DoWith
<1> QED
  BY <1>3, <1>4, <1>5, <1>6, <1>7

LEMMA CommandsOfRestartingToggle ==
    ASSUME NEW value, at \in Nat \ {0},
           \/ script = "enable" /\ value = "on"
           \/ script = "disable" /\ value = "off"
    PROVE  /\ Len(Commands(script)) = 6
           /\ At("set") <=> at = 2
           /\ at = 2 => Arg = value
           /\ At("reload") <=> at = 4
           /\ at = 4 => Arg = "tidb"
           /\ ~At("deploy") /\ ~At("start") /\ ~At("database") /\ ~At("patch")
           /\ ~At("destroy") /\ ~At("rm") /\ ~At("skip_unless_listed")
<1> DEFINE T == RestartingToggleScript(value)
<1>1. Commands(script) = T
  BY DEF Commands
<1>2. Len(T) = 6
  BY DEF RestartingToggleScript
<1>3. /\ T[1].do = "healthy" /\ T[2] = [do |-> "set", arg |-> value]
      /\ T[3].do = "first_shows" /\ T[4] = [do |-> "reload", arg |-> "tidb"]
      /\ T[5].do = "healthy" /\ T[6].do = "all_show"
  BY DEF RestartingToggleScript, Do, DoWith
<1>4. at <= 6 => at \in {1, 2, 3, 4, 5, 6}
  OBVIOUS
<1> HIDE DEF T
<1> QED
  BY <1>1, <1>2, <1>3, <1>4 DEF At, Arg

LEMMA CommandsOfToggle ==
    ASSUME script = "enable_only", at \in Nat \ {0}
    PROVE  /\ At("set") => Arg = "on"
           /\ ~At("deploy") /\ ~At("start") /\ ~At("database") /\ ~At("patch") /\ ~At("reload")
           /\ ~At("destroy") /\ ~At("rm") /\ ~At("skip_unless_listed")
<1> DEFINE T == ToggleScript("on")
<1>1. Commands(script) = T
  BY DEF Commands
<1>2. Len(T) = 3
  BY DEF ToggleScript
<1>3. /\ T[1].do = "healthy" /\ T[2] = [do |-> "set", arg |-> "on"]
      /\ T[3].do = "first_shows"
  BY DEF ToggleScript, Do, DoWith
<1>4. at <= 3 => at \in {1, 2, 3}
  OBVIOUS
<1> HIDE DEF T
<1> QED
  BY <1>1, <1>2, <1>3, <1>4 DEF At, Arg

LEMMA CommandsOfDestroy ==
    ASSUME script = "destroy", at \in Nat \ {0}
    PROVE  /\ ~At("deploy") /\ ~At("start") /\ ~At("database") /\ ~At("patch") /\ ~At("reload")
           /\ ~At("set")
<1>1. Commands(script) = DestroyScript
  BY DEF Commands
<1>2. Len(DestroyScript) = 3
  BY DEF DestroyScript
<1>3. /\ DestroyScript[1].do = "skip_unless_listed"
      /\ DestroyScript[2].do = "destroy" /\ DestroyScript[3].do = "rm"
  BY DEF DestroyScript, Do
<1>4. at <= 3 => at \in {1, 2, 3}
  OBVIOUS
<1> QED
  BY <1>1, <1>2, <1>3, <1>4 DEF At

\* The scripts and positions of the commands that change what the invariant is about.
LEMMA Positions ==
    ASSUME TypeOK
    PROVE  /\ At("deploy") => script = "create" /\ at = 3
           /\ At("start") => script = "create" /\ at = 4
           /\ At("database") => script = "create" /\ at = 6
           /\ At("patch") => /\ script = "upgrade"
                             /\ \/ at = 7 /\ Arg = "pd"
                                \/ at = 10 /\ Arg = "tikv"
                                \/ at = 13 /\ Arg = "tidb"
           /\ At("set") => \/ script = "enable" /\ at = 2 /\ Arg = "on"
                           \/ script = "disable" /\ at = 2 /\ Arg = "off"
                           \/ script = "enable_only" /\ Arg = "on"
           /\ At("reload") => script \in {"enable", "disable"} /\ at = 4 /\ Arg = "tidb"
           /\ At("destroy") \/ At("rm") \/ At("skip_unless_listed") => script = "destroy"
<1>1. at \in Nat \ {0} /\ script \in ScriptNames \cup {"none"}
  BY DEF TypeOK
<1>2. CASE script = "none"
  BY <1>2 DEF At
<1>3. CASE script = "create"
  BY <1>1, <1>3, CommandsOfCreate
<1>4. CASE script = "upgrade"
  BY <1>1, <1>4, CommandsOfUpgrade
<1>5. CASE script = "enable"
  BY <1>1, <1>5, CommandsOfRestartingToggle
<1>6. CASE script = "disable"
  BY <1>1, <1>6, CommandsOfRestartingToggle
<1>7. CASE script = "enable_only"
  BY <1>1, <1>7, CommandsOfToggle
<1>8. CASE script = "destroy"
  BY <1>1, <1>8, CommandsOfDestroy
<1> QED
  BY <1>1, <1>2, <1>3, <1>4, <1>5, <1>6, <1>7, <1>8 DEF ScriptNames

-----------------------------------------------------------------------------
(* Types.                                                                  *)

LEMMA OnAll ==
    ASSUME NEW value
    PROVE  /\ OnNodes(value) \in [Roles -> [Nodes -> {value}]]
           /\ OnTidb(value) \in [Nodes -> {value}]
           /\ \A r \in Roles, n \in Nodes : OnNodes(value)[r][n] = value
BY DEF OnNodes, OnTidb

LEMMA ScriptTypeInit == Init => TypeOK
<1> SUFFICES ASSUME Init PROVE TypeOK
  OBVIOUS
<1>1. /\ version \in [Roles -> [Nodes -> {"none", Old, New}]]
      /\ up \in [Roles -> [Nodes -> BOOLEAN]]
  BY DEF Init, OnNodes
<1>2. seen \in [Nodes -> {"off", "on"}] /\ session \in [Nodes -> {"none", "off", "on"}]
  BY DEF Init, OnTidb
<1>3. /\ script = "none" /\ at = 1 /\ rolled = 0 /\ trouble = 0
      /\ last \in [script : ScriptNames \cup {"none"}, status : {"ok", "failed"}]
  BY DEF Init, NothingDone
<1>4. package \in [Roles -> {"absent", "partial", "whole"}]
  BY DEF Init
<1>5. /\ runtimeDir \in BOOLEAN /\ deployed \in BOOLEAN
      /\ registered \in BOOLEAN /\ database \in BOOLEAN
      /\ patched \in SUBSET Roles /\ setting \in {"off", "on"}
  BY DEF Init
<1>6. 0 \in 0 .. NodeCount /\ 0 \in 0 .. MaxTrouble
  BY ScriptsAssumption
<1> QED
  BY <1>1, <1>2, <1>3, <1>4, <1>5, <1>6 DEF TypeOK

\* How a script is left, and how it goes on.
LEMMA ExitTyped ==
    ASSUME TypeOK, script # "none", NEW status \in {"ok", "failed"}, Exit(status)
    PROVE  /\ script' = "none" /\ at' = 1 /\ rolled' = 0
           /\ last' \in [script : ScriptNames \cup {"none"}, status : {"ok", "failed"}]
BY DEF Exit, TypeOK

LEMMA GoOnTyped ==
    ASSUME TypeOK, NEW k \in Nat, GoOn(k)
    PROVE  /\ script' \in ScriptNames \cup {"none"} /\ at' \in Nat \ {0}
           /\ rolled' \in 0 .. NodeCount
           /\ last' \in [script : ScriptNames \cup {"none"}, status : {"ok", "failed"}]
           /\ trouble' \in 0 .. MaxTrouble
BY ScriptsAssumption DEF GoOn, TypeOK

LEMMA GoesWrongTyped ==
    ASSUME TypeOK, GoesWrong PROVE trouble' \in 0 .. MaxTrouble
BY ScriptsAssumption DEF GoesWrong, TypeOK

LEMMA TypeBegin ==
    ASSUME TypeOK, BeginInTurn \/ BeginOutOfTurn PROVE TypeOK'
<1> USE DEF TypeOK, fileVars, nodeVars, sqlVars
<1>1. ASSUME NEW name \in ScriptNames, Begin(name), trouble' \in 0 .. MaxTrouble PROVE TypeOK'
  BY <1>1, ScriptsAssumption DEF Begin
<1>2. CASE BeginInTurn
  <2>1. NextInTurn \in ScriptNames
    BY <1>2 DEF BeginInTurn, NextInTurn, ScriptNames
  <2> QED
    BY <1>1, <1>2, <2>1 DEF BeginInTurn
<1>3. CASE BeginOutOfTurn
  BY <1>1, <1>3, ScriptsAssumption DEF BeginOutOfTurn, GoesWrong
<1> QED
  BY <1>2, <1>3

\* A step that ends a script or goes on in it, and leaves the rest in its sets.
LEMMA TypeCourse ==
    ASSUME TypeOK,
           \/ script # "none" /\ (Exit("ok") \/ Exit("failed")) /\ trouble' \in 0 .. MaxTrouble
           \/ \E k \in Nat : GoOn(k),
           UNCHANGED <<fileVars, nodeVars, sqlVars>>
    PROVE  TypeOK'
<1>1. /\ script' \in ScriptNames \cup {"none"} /\ at' \in Nat \ {0}
      /\ rolled' \in 0 .. NodeCount
      /\ last' \in [script : ScriptNames \cup {"none"}, status : {"ok", "failed"}]
      /\ trouble' \in 0 .. MaxTrouble
  BY ExitTyped, GoOnTyped, ScriptsAssumption
<1> QED
  BY <1>1 DEF TypeOK, fileVars, nodeVars, sqlVars

LEMMA TypeFiles ==
    ASSUME TypeOK, Layout \/ Package \/ PackageFails \/ RemoveRuntimeDir
    PROVE  TypeOK'
<1> USE DEF TypeOK, nodeVars, sqlVars
<1>1. CASE Layout
  BY <1>1, GoOnTyped DEF Layout
<1>2. CASE Package
  BY <1>2, GoOnTyped DEF Package
<1>3. CASE PackageFails
  <2>1. package' \in [Roles -> {"absent", "partial", "whole"}]
    BY <1>3 DEF PackageFails
  <2>0. trouble' \in 0 .. MaxTrouble
    BY <1>3, GoesWrongTyped DEF PackageFails
  <2>2. CASE Exit("failed")
    BY <1>3, <2>0, <2>1, <2>2, ExitTyped, ScriptsAssumption DEF PackageFails, At
  <2>3. CASE at' = at + 1 /\ rolled' = 0 /\ UNCHANGED <<script, last>>
    BY <1>3, <2>0, <2>1, <2>3, ScriptsAssumption DEF PackageFails
  <2> QED
    BY <1>3, <2>2, <2>3 DEF PackageFails
<1>4. CASE RemoveRuntimeDir
  BY <1>4, GoOnTyped DEF RemoveRuntimeDir
<1> QED
  BY <1>1, <1>2, <1>3, <1>4

LEMMA TypeCluster ==
    ASSUME TypeOK, Deploy \/ StartCluster \/ Destroy PROVE TypeOK'
<1> USE DEF TypeOK, fileVars, sqlVars
<1>1. CASE Deploy
  <2>1. CASE registered
    BY <1>1, <2>1, TypeCourse DEF Deploy, At
  <2>2. CASE ~registered
    <3>1. /\ version' \in [Roles -> [Nodes -> {"none", Old, New}]]
          /\ seen' \in [Nodes -> {"off", "on"}]
      BY <1>1, <2>2 DEF Deploy, OnNodes, OnTidb, Old
    <3> QED
      BY <1>1, <2>2, <3>1, GoOnTyped DEF Deploy
  <2> QED
    BY <2>1, <2>2
<1>2. CASE StartCluster
  <2>1. up' \in [Roles -> [Nodes -> BOOLEAN]]
    BY <1>2 DEF StartCluster, OnNodes
  <2> QED
    BY <1>2, <2>1, GoOnTyped DEF StartCluster
<1>3. CASE Destroy
  <2>1. /\ version' \in [Roles -> [Nodes -> {"none", Old, New}]]
        /\ up' \in [Roles -> [Nodes -> BOOLEAN]]
        /\ session' \in [Nodes -> {"none", "off", "on"}]
    BY <1>3 DEF Destroy, OnNodes, OnTidb
  <2> QED
    BY <1>3, <2>1, GoOnTyped DEF Destroy
<1> QED
  BY <1>1, <1>2, <1>3

LEMMA TypeSql ==
    ASSUME TypeOK, \/ EnsureDatabase \/ SetGlobal
                   \/ \E n \in Nodes : SeesSetting(n) \/ OpenSession(n)
    PROVE  TypeOK'
<1> USE DEF TypeOK, fileVars, nodeVars
<1>1. CASE EnsureDatabase
  <2>1. CASE up["tidb"][1]
    BY <1>1, <2>1, GoOnTyped DEF EnsureDatabase
  <2>2. CASE ~up["tidb"][1]
    BY <1>1, <2>2, TypeCourse DEF EnsureDatabase, At, sqlVars
  <2> QED
    BY <2>1, <2>2
<1>2. CASE SetGlobal
  <2>1. Arg \in {"off", "on"}
    BY <1>2, Positions DEF SetGlobal
  <2>2. CASE up["tidb"][1]
    <3>1. seen' \in [Nodes -> {"off", "on"}] /\ setting' \in {"off", "on"}
      BY <1>2, <2>1, <2>2 DEF SetGlobal
    <3> QED
      BY <1>2, <2>2, <3>1, GoOnTyped DEF SetGlobal
  <2>3. CASE ~up["tidb"][1]
    BY <1>2, <2>3, TypeCourse DEF SetGlobal, At, sqlVars
  <2> QED
    BY <2>2, <2>3
<1>3. ASSUME NEW n \in Nodes, SeesSetting(n) \/ OpenSession(n) PROVE TypeOK'
  <2>1. CASE SeesSetting(n)
    BY <2>1 DEF SeesSetting, scriptVars
  <2>2. CASE OpenSession(n)
    <3>1. seen[n] \in {"none", "off", "on"}
      OBVIOUS
    <3>2. session' \in [Nodes -> {"none", "off", "on"}]
      BY <2>2, <3>1 DEF OpenSession
    <3> QED
      BY <2>2, <3>2 DEF OpenSession, scriptVars
  <2> QED
    BY <1>3, <2>1, <2>2
<1> QED
  BY <1>1, <1>2, <1>3

\* What is set on one node of one role.
LEMMA OneNode ==
    ASSUME NEW V, NEW f \in [Roles -> [Nodes -> V]], NEW r \in Roles, NEW n \in Nodes,
           NEW v \in V, NEW g, g = [f EXCEPT ![r][n] = v]
    PROVE  /\ g \in [Roles -> [Nodes -> V]]
           /\ \A q \in Roles, m \in Nodes :
                g[q][m] = IF q = r /\ m = n THEN v ELSE f[q][m]
OBVIOUS

LEMMA TypeNode ==
    ASSUME TypeOK,
           \E r \in Roles, n \in Nodes : NodeFails(r, n) \/ NodeRestarts(r, n)
    PROVE  TypeOK'
<1> USE DEF TypeOK, fileVars
<1>1. PICK r \in Roles, n \in Nodes : NodeFails(r, n) \/ NodeRestarts(r, n)
  OBVIOUS
<1>2. CASE NodeFails(r, n)
  <2>1. up' \in [Roles -> [Nodes -> BOOLEAN]]
    BY <1>2, OneNode DEF NodeFails
  <2>2. trouble' \in 0 .. MaxTrouble
    BY <1>2, GoesWrongTyped DEF NodeFails
  <2> QED
    BY <1>2, <2>1, <2>2 DEF NodeFails
<1>3. CASE NodeRestarts(r, n)
  <2>1. up' \in [Roles -> [Nodes -> BOOLEAN]]
    BY <1>3, OneNode DEF NodeRestarts
  <2> QED
    BY <1>3, <2>1 DEF NodeRestarts, scriptVars
<1> QED
  BY <1>1, <1>2, <1>3

LEMMA TypeRoll ==
    ASSUME TypeOK, RollRefused \/ RollTakesDown \/ RollBringsUp \/ RollEnds PROVE TypeOK'
<1> USE DEF TypeOK
<1>1. Arg \in Roles
  BY Positions DEF RollRefused, RollTakesDown, RollBringsUp, RollEnds, Rolling, Roles
<1>2. CASE RollRefused
  BY <1>2, TypeCourse DEF RollRefused, Rolling, At
<1>3. CASE RollTakesDown
  <2>1. NodeAtHand \in Nodes
    BY <1>3, ScriptsAssumption DEF RollTakesDown, NodeAtHand, Nodes
  <2>2. up' \in [Roles -> [Nodes -> BOOLEAN]]
    BY <1>1, <1>3, <2>1, OneNode DEF RollTakesDown
  <2>3. session' \in [Nodes -> {"none", "off", "on"}]
    BY <1>3 DEF RollTakesDown
  <2> QED
    BY <1>3, <2>2, <2>3 DEF RollTakesDown, scriptVars, fileVars
<1>4. CASE RollBringsUp
  <2>1. NodeAtHand \in Nodes /\ NodeAtHand \in 0 .. NodeCount
    BY <1>4, ScriptsAssumption DEF RollBringsUp, NodeAtHand, Nodes
  <2>2. up' \in [Roles -> [Nodes -> BOOLEAN]]
    BY <1>1, <1>4, <2>1, OneNode DEF RollBringsUp
  <2>3. version' \in [Roles -> [Nodes -> {"none", Old, New}]]
    <3>1. CASE version' = version
      BY <3>1
    <3>2. CASE version' = [version EXCEPT ![Arg][NodeAtHand] = New]
      BY <1>1, <2>1, <3>2, OneNode DEF New
    <3> QED
      BY <1>4, <3>1, <3>2 DEF RollBringsUp
  <2>4. seen' \in [Nodes -> {"off", "on"}]
    BY <1>4 DEF RollBringsUp
  <2> QED
    BY <1>4, <2>1, <2>2, <2>3, <2>4 DEF RollBringsUp, fileVars
<1>5. CASE RollEnds
  <2>1. patched' \in SUBSET Roles
    BY <1>1, <1>5 DEF RollEnds
  <2> QED
    BY <1>5, <2>1, GoOnTyped DEF RollEnds, fileVars, sqlVars
<1> QED
  BY <1>2, <1>3, <1>4, <1>5

LEMMA ScriptTypeStep ==
    ASSUME TypeOK, [Next]_vars PROVE TypeOK'
<1>1. CASE UNCHANGED vars \/ Done
  BY <1>1 DEF Done, vars, scriptVars, fileVars, nodeVars, sqlVars, TypeOK
<1>2. CASE Finish \/ Assert \/ List \/ ListFails \/ Cut
  <2>1. CASE Finish
    BY <2>1, TypeCourse DEF Finish, AtEnd, TypeOK
  <2>2. CASE Assert
    BY <2>2, TypeCourse DEF Assert, At, TypeOK
  <2>3. CASE List
    BY <2>3, TypeCourse DEF List, Listed, At, TypeOK
  <2>4. CASE ListFails
    <3>1. /\ at' \in Nat \ {0} /\ rolled' \in 0 .. NodeCount
          /\ trouble' \in 0 .. MaxTrouble
      BY <2>4, ScriptsAssumption DEF ListFails, TypeOK
    <3> QED
      BY <2>4, <3>1 DEF ListFails, TypeOK, fileVars, nodeVars, sqlVars
  <2>5. CASE Cut
    BY <2>5, TypeCourse, GoesWrongTyped DEF Cut
  <2> QED
    BY <1>2, <2>1, <2>2, <2>3, <2>4, <2>5
<1> QED
  BY <1>1, <1>2, TypeBegin, TypeFiles, TypeCluster, TypeSql, TypeNode, TypeRoll
     DEF Next, Command

-----------------------------------------------------------------------------
(* The course of a script.                                                 *)

LEMMA BeginKeeps ==
    ASSUME ScriptsInv, NEW name \in ScriptNames, Begin(name) PROVE Promises' /\ Progress'
<1> USE DEF Promises, Progress, nodeVars, sqlVars, Begin
<1>1. RolesInOrder' /\ SessionsOK'
  BY DEF ScriptsInv, RolesInOrder, SessionsOK
<1>2. script' # "none" /\ at' = 1 /\ rolled' = 0
  BY DEF ScriptNames
<1>3. UpgradeIsWhole' /\ CreateIsReady' /\ ToggleDone'
  BY <1>2 DEF UpgradeIsWhole, CreateIsReady, ToggleDone, ToggleLeft, Exited
<1>4. CreateProgress' /\ UpgradeProgress' /\ ToggleProgress'
  BY <1>2 DEF CreateProgress, UpgradeProgress, ToggleProgress, ToggleReached
<1> QED
  BY <1>1, <1>3, <1>4

LEMMA FailureKeeps ==
    ASSUME ScriptsInv, Exit("failed"), UNCHANGED <<nodeVars, sqlVars>>
    PROVE  Promises' /\ Progress'
<1> USE DEF Promises, Progress, nodeVars, sqlVars, Exit
<1>1. RolesInOrder' /\ SessionsOK'
  BY DEF ScriptsInv, RolesInOrder, SessionsOK
<1>2. script' = "none" /\ last'.status = "failed"
  OBVIOUS
<1>3. UpgradeIsWhole' /\ CreateIsReady' /\ ToggleDone'
  BY <1>2 DEF UpgradeIsWhole, CreateIsReady, ToggleDone, ToggleLeft, Exited
<1>4. CreateProgress' /\ UpgradeProgress' /\ ToggleProgress'
  BY <1>2 DEF CreateProgress, UpgradeProgress, ToggleProgress, ToggleReached
<1> QED
  BY <1>1, <1>3, <1>4

\* The end of a script turns its progress into its promise.
LEMMA FinishKeeps ==
    ASSUME ScriptsInv, Finish PROVE Promises' /\ Progress'
<1> USE DEF Promises, Progress, nodeVars, sqlVars, Exit, Finish
<1>1. RolesInOrder' /\ SessionsOK'
  BY DEF ScriptsInv, RolesInOrder, SessionsOK
<1>2. script' = "none" /\ last' = [script |-> script, status |-> "ok"]
  OBVIOUS
<1>3. at \in Nat \ {0} /\ at > Len(Commands(script))
  BY DEF ScriptsInv, TypeOK, AtEnd
<1>4. UpgradeIsWhole'
  <2>1. script = "upgrade" => at > 15
    BY <1>3, CommandsOfUpgrade
  <2>2. script = "upgrade" => RoleAt("pd", New) /\ RoleAt("tikv", New) /\ RoleAt("tidb", New)
    BY <1>3, <2>1 DEF ScriptsInv, UpgradeProgress
  <2> QED
    BY <1>2, <2>2 DEF UpgradeIsWhole, Exited, Upgraded, RoleAt, Roles
<1>5. CreateIsReady'
  <2>1. script = "create" => at > 7
    BY <1>3, CommandsOfCreate
  <2> QED
    BY <1>2, <1>3, <2>1 DEF ScriptsInv, CreateProgress, CreateIsReady, Exited, RoleAt
<1>6. ToggleDone'
  <2>1. (script = "enable" \/ script = "disable") => at > 6
    BY <1>3, CommandsOfRestartingToggle
  <2> QED
    BY <1>2, <1>3, <2>1 DEF ScriptsInv, ToggleProgress, ToggleReached, ToggleDone,
                            ToggleLeft, Exited, ShowsOnly
<1>7. CreateProgress' /\ UpgradeProgress' /\ ToggleProgress'
  BY <1>2 DEF CreateProgress, UpgradeProgress, ToggleProgress, ToggleReached
<1> QED
  BY <1>1, <1>4, <1>5, <1>6, <1>7

\* A script goes on after a command that progress does not depend on.
LEMMA NextCommandKeeps ==
    ASSUME ScriptsInv, script # "none", NEW k \in {1, 2}, k = 2 => script = "destroy",
           at' = at + k, rolled' = 0, script' = script, last' = last,
           UNCHANGED <<nodeVars, sqlVars>>,
           ~At("deploy"), ~At("database"), ~At("patch"), ~At("set"), ~At("reload")
    PROVE  Promises' /\ Progress'
<1> USE DEF Promises, Progress, nodeVars, sqlVars
<1>1. RolesInOrder' /\ SessionsOK'
  BY DEF ScriptsInv, RolesInOrder, SessionsOK
<1>2. UpgradeIsWhole' /\ CreateIsReady' /\ ToggleDone'
  BY DEF UpgradeIsWhole, CreateIsReady, ToggleDone, ToggleLeft, Exited
<1>3. at \in Nat \ {0}
  BY DEF ScriptsInv, TypeOK
<1>4. CreateProgress'
  <2>1. script = "create" => at # 3 /\ at # 6
    BY <1>3, CommandsOfCreate
  <2> QED
    BY <1>3, <2>1 DEF ScriptsInv, CreateProgress, RoleAt
<1>5. UpgradeProgress'
  <2>1. script = "upgrade" => at # 7 /\ at # 10 /\ at # 13
    BY <1>3, CommandsOfUpgrade
  <2> QED
    BY <1>3, <2>1 DEF ScriptsInv, UpgradeProgress, RoleAt
<1>6. ToggleProgress'
  <2>1. script \in {"enable", "disable"} => at # 2 /\ at # 4
    BY <1>3, CommandsOfRestartingToggle
  <2> QED
    BY <1>3, <2>1 DEF ScriptsInv, ToggleProgress, ToggleReached, ShowsOnly
<1> QED
  BY <1>1, <1>2, <1>4, <1>5, <1>6

-----------------------------------------------------------------------------
(* The cluster by itself: nothing a script has reached is undone.          *)

LEMMA QuietKeeps ==
    ASSUME ScriptsInv,
           UNCHANGED <<script, at, rolled, last, registered, version, database, setting>>,
           \A n \in Nodes : /\ seen'[n] \in {seen[n], setting}
                            /\ session'[n] \in {session[n], "none", seen[n]},
           SessionsOK'
    PROVE  Promises' /\ Progress'
<1> USE DEF Promises, Progress
<1>1. RolesInOrder' /\ UpgradeIsWhole' /\ CreateIsReady'
  BY DEF ScriptsInv, RolesInOrder, UpgradeIsWhole, Upgraded, CreateIsReady, Exited, RoleAt
<1>2. ASSUME NEW n \in Nodes, NEW value, setting = value, ShowsOnly(n, value)
      PROVE  ShowsOnly(n, value)'
  BY <1>2 DEF ShowsOnly
<1>3. ToggleDone'
  BY <1>2 DEF ScriptsInv, ToggleDone, ToggleLeft, Exited
<1>4. CreateProgress' /\ UpgradeProgress'
  BY DEF ScriptsInv, CreateProgress, UpgradeProgress, RoleAt, At, Arg
<1>5. ToggleProgress'
  <2>1. at \in Nat /\ rolled \in 0 .. NodeCount
    BY DEF ScriptsInv, TypeOK
  <2>2. \A n \in 1 .. rolled : n \in Nodes
    BY <2>1, ScriptsAssumption DEF Nodes
  <2> QED
    BY <1>2, <2>1, <2>2 DEF ScriptsInv, ToggleProgress, ToggleReached
<1> QED
  BY <1>1, <1>3, <1>4, <1>5

LEMMA EnvironmentKeeps ==
    ASSUME ScriptsInv,
           \/ \E r \in Roles, n \in Nodes : NodeFails(r, n) \/ NodeRestarts(r, n)
           \/ \E n \in Nodes : SeesSetting(n) \/ OpenSession(n)
    PROVE  Promises' /\ Progress'
<1>0. TypeOK /\ SessionsOK
  BY DEF ScriptsInv, Progress
<1>1. ASSUME NEW r \in Roles, NEW n \in Nodes, NodeFails(r, n)
      PROVE  Promises' /\ Progress'
  <2>1. \A m \in Nodes : session'[m] = IF r = "tidb" /\ m = n THEN "none" ELSE session[m]
    BY <1>0, <1>1 DEF NodeFails, TypeOK
  <2>2. \A m \in Nodes : up'["tidb"][m] = IF r = "tidb" /\ m = n THEN FALSE ELSE up["tidb"][m]
    BY <1>0, <1>1 DEF NodeFails, TypeOK, Roles
  <2>3. SessionsOK'
    BY <1>0, <2>1, <2>2 DEF SessionsOK
  <2> QED
    BY <1>1, <2>1, <2>3, QuietKeeps DEF NodeFails
<1>2. ASSUME NEW r \in Roles, NEW n \in Nodes, NodeRestarts(r, n)
      PROVE  Promises' /\ Progress'
  <2>1. \A m \in Nodes : seen'[m] \in {seen[m], setting}
    BY <1>0, <1>2 DEF NodeRestarts, TypeOK
  <2>2. \A m \in Nodes : up["tidb"][m] => up'["tidb"][m]
    BY <1>0, <1>2 DEF NodeRestarts, TypeOK, Roles
  <2>3. SessionsOK'
    BY <1>0, <1>2, <2>2 DEF SessionsOK, NodeRestarts
  <2> QED
    BY <1>2, <2>1, <2>3, QuietKeeps DEF NodeRestarts, scriptVars
<1>3. ASSUME NEW n \in Nodes, SeesSetting(n) PROVE Promises' /\ Progress'
  <2>1. \A m \in Nodes : seen'[m] \in {seen[m], setting}
    BY <1>0, <1>3 DEF SeesSetting, TypeOK
  <2> QED
    BY <1>0, <1>3, <2>1, QuietKeeps DEF SeesSetting, scriptVars, nodeVars, SessionsOK
<1>4. ASSUME NEW n \in Nodes, OpenSession(n) PROVE Promises' /\ Progress'
  <2>1. \A m \in Nodes : session'[m] = IF m = n THEN seen[n] ELSE session[m]
    BY <1>0, <1>4 DEF OpenSession, TypeOK
  <2>2. SessionsOK'
    BY <1>0, <1>4, <2>1 DEF OpenSession, nodeVars, SessionsOK
  <2> QED
    BY <1>4, <2>1, <2>2, QuietKeeps DEF OpenSession, scriptVars, nodeVars
<1> QED
  BY <1>1, <1>2, <1>3, <1>4

-----------------------------------------------------------------------------
(* The commands that change what the invariant is about.                   *)

\* While a script runs, only the order of the versions is promised.
LEMMA PromisesOfRunning ==
    ASSUME script' # "none", RolesInOrder' PROVE Promises'
BY DEF Promises, UpgradeIsWhole, CreateIsReady, ToggleDone, ToggleLeft, Exited

LEMMA DeployKeeps ==
    ASSUME ScriptsInv, Deploy PROVE Promises' /\ Progress'
<1>1. script = "create" /\ at = 3
  BY Positions DEF ScriptsInv, Deploy
<1>2. CASE registered
  BY <1>2, FailureKeeps DEF Deploy
<1>3. CASE ~registered
  <2>1. script' = "create" /\ at' = 4
    BY <1>1, <1>3 DEF Deploy, GoOn
  <2>2. \A r \in Roles, n \in Nodes : version'[r][n] = Old
    BY <1>3 DEF Deploy, OnNodes
  <2>3. Promises'
    BY <2>1, <2>2, PromisesOfRunning DEF RolesInOrder, Before, Roles, Old, New
  <2>4. CreateProgress'
    BY <1>3, <2>1, <2>2 DEF Deploy, CreateProgress, RoleAt
  <2>5. UpgradeProgress' /\ ToggleProgress'
    BY <2>1 DEF UpgradeProgress, ToggleProgress, ToggleReached
  <2>6. SessionsOK'
    BY <1>3 DEF Deploy, ScriptsInv, Progress, SessionsOK
  <2> QED
    BY <2>3, <2>4, <2>5, <2>6 DEF Progress
<1> QED
  BY <1>2, <1>3

LEMMA StartKeeps ==
    ASSUME ScriptsInv, StartCluster PROVE Promises' /\ Progress'
<1>1. script = "create" /\ at = 4 /\ script' = "create" /\ at' = 5
  BY Positions DEF ScriptsInv, StartCluster, GoOn
<1>2. Promises'
  BY <1>1, PromisesOfRunning DEF StartCluster, ScriptsInv, Promises, RolesInOrder
<1>3. CreateProgress' /\ UpgradeProgress' /\ ToggleProgress'
  BY <1>1 DEF StartCluster, ScriptsInv, Progress, CreateProgress, RoleAt,
              UpgradeProgress, ToggleProgress, ToggleReached
<1>4. SessionsOK'
  BY DEF StartCluster, OnNodes, SessionsOK, Roles
<1> QED
  BY <1>2, <1>3, <1>4 DEF Progress

LEMMA DatabaseKeeps ==
    ASSUME ScriptsInv, EnsureDatabase PROVE Promises' /\ Progress'
<1>1. script = "create" /\ at = 6
  BY Positions DEF ScriptsInv, EnsureDatabase
<1>2. CASE ~up["tidb"][1]
  BY <1>2, FailureKeeps DEF EnsureDatabase, sqlVars
<1>3. CASE up["tidb"][1]
  <2>1. script' = "create" /\ at' = 7 /\ database' = TRUE
    BY <1>1, <1>3 DEF EnsureDatabase, GoOn
  <2>2. Promises'
    BY <2>1, PromisesOfRunning DEF EnsureDatabase, nodeVars, ScriptsInv, Promises, RolesInOrder
  <2>3. CreateProgress' /\ UpgradeProgress' /\ ToggleProgress'
    BY <1>1, <2>1 DEF EnsureDatabase, nodeVars, ScriptsInv, Progress, CreateProgress, RoleAt,
                      UpgradeProgress, ToggleProgress, ToggleReached
  <2>4. SessionsOK'
    BY DEF EnsureDatabase, nodeVars, ScriptsInv, Progress, SessionsOK
  <2> QED
    BY <2>2, <2>3, <2>4 DEF Progress
<1> QED
  BY <1>2, <1>3

LEMMA SetKeeps ==
    ASSUME ScriptsInv, SetGlobal PROVE Promises' /\ Progress'
<1>1. \/ script = "enable" /\ at = 2 /\ Arg = "on"
      \/ script = "disable" /\ at = 2 /\ Arg = "off"
      \/ script = "enable_only"
  BY Positions DEF ScriptsInv, SetGlobal
<1>2. CASE ~up["tidb"][1]
  BY <1>2, FailureKeeps DEF SetGlobal, sqlVars
<1>3. CASE up["tidb"][1]
  <2>1. script' = script /\ at' = at + 1 /\ setting' = Arg
    BY <1>3 DEF SetGlobal, GoOn
  <2>2. Promises'
    BY <1>1, <2>1, PromisesOfRunning
       DEF SetGlobal, nodeVars, ScriptsInv, Promises, RolesInOrder
  <2>3. CreateProgress' /\ UpgradeProgress' /\ ToggleProgress'
    BY <1>1, <2>1 DEF CreateProgress, UpgradeProgress, ToggleProgress, ToggleReached
  <2>4. SessionsOK'
    BY DEF SetGlobal, nodeVars, ScriptsInv, Progress, SessionsOK
  <2> QED
    BY <2>2, <2>3, <2>4 DEF Progress
<1> QED
  BY <1>2, <1>3

LEMMA DestroyKeeps ==
    ASSUME ScriptsInv, Destroy PROVE Promises' /\ Progress'
<1>1. script = "destroy" /\ script' = "destroy"
  BY Positions DEF ScriptsInv, Destroy, GoOn
<1>2. /\ \A r \in Roles, n \in Nodes : version'[r][n] = "none"
      /\ \A n \in Nodes : session'[n] = "none"
  BY DEF Destroy, OnNodes, OnTidb
<1>3. Promises'
  BY <1>1, <1>2, PromisesOfRunning DEF RolesInOrder, Before, Roles, Old, New
<1>4. CreateProgress' /\ UpgradeProgress' /\ ToggleProgress' /\ SessionsOK'
  BY <1>1, <1>2 DEF CreateProgress, UpgradeProgress, ToggleProgress, ToggleReached, SessionsOK
<1> QED
  BY <1>3, <1>4 DEF Progress

-----------------------------------------------------------------------------
(* The rolling commands.                                                   *)

LEMMA TakesDownKeeps ==
    ASSUME ScriptsInv, RollTakesDown PROVE Promises' /\ Progress'
<1>1. TypeOK /\ SessionsOK /\ Arg \in Roles
  BY Positions DEF ScriptsInv, Progress, RollTakesDown, Rolling, Roles
<1>2. \A n \in Nodes :
        session'[n] = IF Arg = "tidb" /\ n = NodeAtHand THEN "none" ELSE session[n]
  BY <1>1 DEF RollTakesDown, TypeOK
<1>3. \A n \in Nodes :
        up["tidb"][n] /\ ~(Arg = "tidb" /\ n = NodeAtHand) => up'["tidb"][n]
  BY <1>1 DEF RollTakesDown, TypeOK, Roles
<1>4. SessionsOK'
  BY <1>1, <1>2, <1>3 DEF SessionsOK
<1> QED
  BY <1>2, <1>4, QuietKeeps DEF RollTakesDown, scriptVars

\* A patched node is one more at the new version, and the roles before are there.
LEMMA PatchedNodeKeeps ==
    ASSUME ScriptsInv, RollBringsUp, At("patch") PROVE Promises' /\ Progress'
<1>1. /\ script = "upgrade"
      /\ \/ at = 7 /\ Arg = "pd"
         \/ at = 10 /\ Arg = "tikv"
         \/ at = 13 /\ Arg = "tidb"
  BY Positions DEF ScriptsInv
<1>2. TypeOK /\ SessionsOK /\ UpgradeProgress /\ RolesInOrder
  BY DEF ScriptsInv, Promises, Progress
<1>3. /\ script' = script /\ at' = at /\ rolled' = rolled + 1
      /\ version' = [version EXCEPT ![Arg][NodeAtHand] = New]
  BY DEF RollBringsUp, NodeAtHand
<1>4. NodeAtHand \in Nodes /\ rolled \in Nat /\ Arg \in Roles
  BY <1>1, <1>2, ScriptsAssumption DEF TypeOK, RollBringsUp, NodeAtHand, Nodes, Roles
<1>5. \A r \in Roles, n \in Nodes :
        version'[r][n] = IF r = Arg /\ n = NodeAtHand THEN New ELSE version[r][n]
  BY <1>2, <1>3, <1>4 DEF TypeOK
<1>6. RolesInOrder'
  <2> SUFFICES ASSUME NEW pair \in Before, NEW n \in Nodes, NEW m \in Nodes,
                      version'[pair[1]][n] = Old, version'[pair[2]][m] = New
               PROVE  FALSE
    BY DEF RolesInOrder
  <2>1. pair[1] \in Roles /\ pair[2] \in Roles
    BY DEF Before, Roles
  <2>2. version[pair[1]][n] = Old
    BY <1>5, <2>1 DEF Old, New
  <2>3. CASE pair[2] # Arg
    BY <1>2, <1>5, <2>1, <2>2, <2>3 DEF RolesInOrder
  <2>4. CASE pair[2] = Arg
    <3>1. \/ Arg = "tikv" /\ pair[1] = "pd"
          \/ Arg = "tidb" /\ pair[1] \in {"pd", "tikv"}
      BY <2>4 DEF Before
    <3>2. version[pair[1]][n] = New
      BY <1>1, <1>2, <3>1 DEF UpgradeProgress, RoleAt
    <3> QED
      BY <2>2, <3>2 DEF Old, New
  <2> QED
    BY <2>3, <2>4
<1>7. Promises'
  BY <1>1, <1>3, <1>6, PromisesOfRunning
<1>8. UpgradeProgress'
  <2>1. \A r \in Roles : RoleAt(r, New) => RoleAt(r, New)'
    BY <1>5 DEF RoleAt
  <2>2. Arg' = Arg
    BY <1>3 DEF Arg
  <2>3. \A n \in 1 .. rolled' : n \in Nodes /\ (n = NodeAtHand \/ n \in 1 .. rolled)
    BY <1>3, <1>4, ScriptsAssumption DEF NodeAtHand, Nodes
  <2>4. \A n \in 1 .. rolled' : version'[Arg][n] = New
    BY <1>1, <1>2, <1>4, <1>5, <2>3 DEF UpgradeProgress
  <2> QED
    BY <1>1, <1>2, <1>3, <2>1, <2>2, <2>4 DEF UpgradeProgress, Roles
<1>9. CreateProgress' /\ ToggleProgress'
  BY <1>1, <1>3 DEF CreateProgress, ToggleProgress, ToggleReached
<1>10. SessionsOK'
  <2>1. \A n \in Nodes : up["tidb"][n] => up'["tidb"][n]
    BY <1>2, <1>4 DEF RollBringsUp, TypeOK, Roles
  <2> QED
    BY <1>2, <2>1 DEF RollBringsUp, SessionsOK
<1> QED
  BY <1>7, <1>8, <1>9, <1>10 DEF Progress

\* A reloaded node shows the stored value, and no session is left on it.
LEMMA ReloadedNodeKeeps ==
    ASSUME ScriptsInv, RollBringsUp, At("reload") PROVE Promises' /\ Progress'
<1>1. script \in {"enable", "disable"} /\ at = 4 /\ Arg = "tidb"
  BY Positions DEF ScriptsInv
<1>2. TypeOK /\ SessionsOK /\ ToggleProgress /\ RolesInOrder /\ ~At("patch")
  BY <1>1, Positions DEF ScriptsInv, Promises, Progress
<1>3. /\ script' = script /\ at' = at /\ rolled' = rolled + 1
      /\ version' = version /\ setting' = setting /\ session' = session
      /\ seen' = [seen EXCEPT ![NodeAtHand] = setting]
  BY <1>1, <1>2 DEF RollBringsUp, NodeAtHand
<1>4. NodeAtHand \in Nodes /\ rolled \in Nat
  BY <1>2, ScriptsAssumption DEF TypeOK, RollBringsUp, NodeAtHand, Nodes
<1>5. session[NodeAtHand] = "none"
  BY <1>1, <1>2, <1>4 DEF RollBringsUp, SessionsOK
<1>6. Promises'
  BY <1>1, <1>2, <1>3, PromisesOfRunning DEF RolesInOrder
<1>7. ASSUME NEW name, NEW value, ToggleReached(name, value), script = name
      PROVE  ToggleReached(name, value)'
  <2>1. setting = value
    BY <1>1, <1>7 DEF ToggleReached
  <2>2. \A n \in 1 .. rolled' : n \in Nodes /\ (n = NodeAtHand \/ n \in 1 .. rolled)
    BY <1>3, <1>4, ScriptsAssumption DEF NodeAtHand, Nodes
  <2>3. \A n \in 1 .. rolled' : ShowsOnly(n, value)'
    BY <1>1, <1>2, <1>3, <1>5, <1>7, <2>1, <2>2 DEF ToggleReached, ShowsOnly, TypeOK
  <2> QED
    BY <1>1, <1>3, <2>1, <2>3 DEF ToggleReached
<1>8. ToggleProgress'
  BY <1>1, <1>2, <1>3, <1>7 DEF ToggleProgress, ToggleReached
<1>9. CreateProgress' /\ UpgradeProgress'
  BY <1>1, <1>3 DEF CreateProgress, UpgradeProgress
<1>10. SessionsOK'
  <2>1. \A n \in Nodes : up["tidb"][n] => up'["tidb"][n]
    BY <1>2, <1>4 DEF RollBringsUp, TypeOK, Roles
  <2> QED
    BY <1>2, <1>3, <2>1 DEF SessionsOK
<1> QED
  BY <1>6, <1>8, <1>9, <1>10 DEF Progress

LEMMA RollEndsKeeps ==
    ASSUME ScriptsInv, RollEnds PROVE Promises' /\ Progress'
<1>1. \/ /\ script = "upgrade" /\ At("patch")
         /\ \/ at = 7 /\ Arg = "pd"
            \/ at = 10 /\ Arg = "tikv"
            \/ at = 13 /\ Arg = "tidb"
      \/ script \in {"enable", "disable"} /\ at = 4
  BY Positions DEF ScriptsInv, RollEnds, Rolling
<1>2. /\ script' = script /\ at' = at + 1 /\ rolled' = 0 /\ rolled = NodeCount
      /\ UNCHANGED <<registered, version, up, sqlVars>>
  BY DEF RollEnds, GoOn
<1>3. Promises'
  BY <1>1, <1>2, PromisesOfRunning DEF ScriptsInv, Promises, RolesInOrder
<1>4. CreateProgress'
  BY <1>1, <1>2 DEF CreateProgress
<1>5. UpgradeProgress'
  BY <1>1, <1>2 DEF ScriptsInv, Progress, UpgradeProgress, RoleAt, Nodes
<1>6. ToggleProgress'
  BY <1>1, <1>2 DEF ScriptsInv, Progress, ToggleProgress, ToggleReached, ShowsOnly,
                    Nodes, sqlVars
<1>7. SessionsOK'
  BY <1>2 DEF ScriptsInv, Progress, SessionsOK, sqlVars
<1> QED
  BY <1>3, <1>4, <1>5, <1>6, <1>7 DEF Progress

-----------------------------------------------------------------------------
(* The nodes TiUP knows, and what upgrades leave to each other.            *)

LEMMA NodesStep ==
    ASSUME TypeOK, NodesAreKnown, CreateProgress, [Next]_vars PROVE NodesAreKnown'
<1> USE DEF NodesAreKnown
<1>1. CASE UNCHANGED <<registered, deployed, version, up>>
  BY <1>1
<1>2. CASE Deploy
  BY <1>2 DEF Deploy, nodeVars
<1>3. CASE StartCluster
  <2>1. registered
    BY <1>3, Positions DEF StartCluster, CreateProgress
  <2> QED
    BY <1>3, <2>1 DEF StartCluster, fileVars
<1>4. CASE Destroy
  BY <1>4, OnAll DEF Destroy
<1>5. CASE RemoveRuntimeDir
  BY <1>5 DEF RemoveRuntimeDir, nodeVars
<1>6. CASE RollTakesDown \/ RollBringsUp
  BY <1>6 DEF RollTakesDown, RollBringsUp, Refused, fileVars
<1>7. ASSUME NEW r \in Roles, NEW n \in Nodes, NodeFails(r, n) PROVE NodesAreKnown'
  <2>1. registered
    BY <1>7 DEF NodeFails
  <2> QED
    BY <1>7, <2>1 DEF NodeFails
<1>8. ASSUME NEW r \in Roles, NEW n \in Nodes, NodeRestarts(r, n) PROVE NodesAreKnown'
  BY <1>8 DEF NodeRestarts, fileVars
<1>9. CASE \/ BeginInTurn \/ BeginOutOfTurn \/ Done \/ Cut \/ ListFails \/ PackageFails
           \/ Finish \/ Assert \/ List \/ Layout \/ Package \/ EnsureDatabase \/ SetGlobal
           \/ RollRefused \/ RollEnds
  <2>1. UNCHANGED <<registered, deployed, version, up>>
    BY <1>9 DEF BeginInTurn, BeginOutOfTurn, Begin, Done, Cut, ListFails, PackageFails,
       Finish, Assert, List, Listed, Layout, Package, EnsureDatabase, SetGlobal,
       RollRefused, RollEnds, vars, fileVars, nodeVars
  <2> QED
    BY <1>1, <2>1
<1>10. CASE \E n \in Nodes : SeesSetting(n) \/ OpenSession(n)
  BY <1>1, <1>10 DEF SeesSetting, OpenSession, fileVars, nodeVars
<1>11. CASE UNCHANGED vars
  BY <1>1, <1>11 DEF vars, fileVars, nodeVars
<1> QED
  BY <1>2, <1>3, <1>4, <1>5, <1>6, <1>7, <1>8, <1>9, <1>10, <1>11 DEF Next, Command

\* A step of an upgrade that keeps its packages and goes on at most to the next command.
LEMMA PatchesGoOn ==
    ASSUME TypeOK, PatchesProgress, script' = script \/ script' # "upgrade",
           at' \in {at, at + 1, 1},
           \A r \in Roles : package[r] # "absent" => package'[r] # "absent",
           \A r \in Roles : r \in patched => r \in patched',
           script = "upgrade" /\ at' = at + 1 =>
             /\ At("package") => package'[Arg] # "absent"
             /\ At("patch") => Arg \in patched'
    PROVE  PatchesProgress'
<1> SUFFICES ASSUME script = "upgrade", script' = "upgrade" PROVE PatchesProgress'
  BY DEF PatchesProgress
<1>1. at \in Nat \ {0} /\ "pd" \in Roles /\ "tikv" \in Roles /\ "tidb" \in Roles
  BY DEF TypeOK, Roles
<1>2. CASE at' = at \/ at' = 1
  BY <1>1, <1>2 DEF PatchesProgress
<1>3. CASE at' = at + 1
  <2>1. /\ at = 4 => package'["pd"] # "absent"
        /\ at = 5 => package'["tikv"] # "absent"
        /\ at = 6 => package'["tidb"] # "absent"
    BY <1>1, <1>3, ChecksOfUpgrade
  <2>2. /\ at = 7 => "pd" \in patched'
        /\ at = 10 => "tikv" \in patched'
        /\ at = 13 => "tidb" \in patched'
    BY <1>1, <1>3, CommandsOfUpgrade
  <2> QED
    BY <1>1, <1>3, <2>1, <2>2 DEF PatchesProgress
<1> QED
  BY <1>2, <1>3

LEMMA PatchesStep ==
    ASSUME TypeOK, PatchesProgress, [Next]_vars PROVE PatchesProgress'
<1>1. CASE BeginInTurn \/ BeginOutOfTurn
  BY <1>1 DEF BeginInTurn, BeginOutOfTurn, Begin, PatchesProgress
<1>2. CASE /\ UNCHANGED <<package, patched>>
           /\ \/ script' = "none"
              \/ UNCHANGED <<script, at>>
              \/ script' = script /\ at' = at + 1 /\ ~At("package") /\ ~At("patch")
              \/ script # "upgrade" /\ script' = script
  <2>1. script # "upgrade" /\ script' = script => PatchesProgress'
    BY DEF PatchesProgress
  <2>2. script' = "none" => PatchesProgress'
    BY DEF PatchesProgress
  <2>3. CASE UNCHANGED <<script, at>>
    BY <1>2, <2>3 DEF PatchesProgress
  <2>4. CASE script' = script /\ at' = at + 1 /\ ~At("package") /\ ~At("patch")
    BY <1>2, <2>4, PatchesGoOn
  <2> QED
    BY <1>2, <2>1, <2>2, <2>3, <2>4
<1>3. CASE Finish \/ Cut \/ Assert \/ List \/ ListFails
  <2>1. At("skip_unless_listed") => script # "upgrade"
    BY Positions
  <2> QED
    BY <1>2, <1>3, <2>1 DEF Finish, Cut, Assert, List, Listed, ListFails, Exit, GoOn, At,
                            fileVars, nodeVars
<1>4. CASE Layout \/ EnsureDatabase \/ SetGlobal \/ RollRefused
  BY <1>2, <1>4 DEF Layout, EnsureDatabase, SetGlobal, RollRefused, Exit, GoOn, At,
                    fileVars, nodeVars
<1>5. CASE Package \/ PackageFails
  <2>1. script # "none" /\ ~At("patch") /\ UNCHANGED patched
    BY <1>5 DEF Package, PackageFails, At, nodeVars
  <2>2. CASE script' = "none"
    BY <2>2 DEF PatchesProgress
  <2>3. CASE script' = script /\ at' = at + 1
    <3>1. \A r \in Roles : package[r] # "absent" => package'[r] # "absent"
      BY <1>5 DEF Package, PackageFails, TypeOK
    <3>2. script = "upgrade" => Arg \in Roles
      <4>1. at \in Nat \ {0} /\ At("package")
        BY <1>5 DEF TypeOK, Package, PackageFails
      <4> QED
        BY <4>1, ChecksOfUpgrade DEF Roles
    <3>3. script = "upgrade" => package'[Arg] # "absent"
      BY <1>5, <3>2 DEF Package, PackageFails, TypeOK
    <3> QED
      BY <2>1, <2>3, <3>1, <3>3, PatchesGoOn
  <2> QED
    BY <1>5, <2>2, <2>3 DEF Package, PackageFails, Exit, GoOn
<1>6. CASE Deploy \/ StartCluster \/ Destroy \/ RemoveRuntimeDir
  <2>1. script # "upgrade"
    BY <1>6, Positions DEF Deploy, StartCluster, Destroy, RemoveRuntimeDir
  <2>2. script' # "upgrade"
    BY <1>6, <2>1 DEF Deploy, StartCluster, Destroy, RemoveRuntimeDir, Exit, GoOn
  <2> QED
    BY <2>2 DEF PatchesProgress
<1>7. CASE RollTakesDown \/ RollBringsUp
  BY <1>2, <1>7 DEF RollTakesDown, RollBringsUp, scriptVars, fileVars
<1>8. CASE RollEnds
  <2>1. script' = script /\ at' = at + 1 /\ package' = package
    BY <1>8 DEF RollEnds, GoOn, fileVars
  <2>2. ~At("package")
    BY <1>8 DEF RollEnds, Rolling, At
  <2>3. patched' = IF At("patch") THEN patched \cup {Arg} ELSE patched
    BY <1>8 DEF RollEnds
  <2>4. \A r \in Roles : r \in patched => r \in patched'
    BY <2>3
  <2>5. At("patch") => Arg \in patched'
    BY <2>3
  <2> QED
    BY <2>1, <2>2, <2>4, <2>5, PatchesGoOn
<1>9. CASE \/ \E r \in Roles, n \in Nodes : NodeFails(r, n) \/ NodeRestarts(r, n)
           \/ \E n \in Nodes : SeesSetting(n) \/ OpenSession(n)
  BY <1>2, <1>9 DEF NodeFails, NodeRestarts, SeesSetting, OpenSession, scriptVars, fileVars,
                    nodeVars
<1>10. CASE Done \/ UNCHANGED vars
  BY <1>2, <1>10 DEF Done, vars, scriptVars, fileVars, nodeVars
<1> QED
  BY <1>1, <1>3, <1>4, <1>5, <1>6, <1>7, <1>8, <1>9, <1>10 DEF Next, Command

\* What an upgrade fails for, assertion by assertion.
LEMMA UpgradeFailure ==
    ASSUME ScriptsInv, Next, script = "upgrade", script' = "none", last'.status = "failed",
           trouble' = trouble
    PROVE  UpgradeHindered
<1> USE DEF ScriptsInv
<1>1. at \in Nat \ {0} /\ trouble \in Nat
  BY DEF TypeOK
<1>2. Assert \/ RollRefused
  <2>1. ~GoesWrong
    BY <1>1 DEF GoesWrong
  <2>2. /\ ~At("deploy") /\ ~At("start") /\ ~At("database") /\ ~At("set") /\ ~At("destroy")
        /\ ~At("rm") /\ ~At("skip_unless_listed") /\ ~At("refuse_existing")
    BY <1>1, CommandsOfUpgrade, ChecksOfUpgrade
  <2>3. ~Finish
    BY DEF Finish, Exit
  <2>4. ~(script' = script)
    OBVIOUS
  <2>5. ~BeginInTurn /\ ~BeginOutOfTurn /\ ~Done /\ ~Cut /\ ~ListFails /\ ~PackageFails
    BY <2>1, <2>2 DEF BeginInTurn, BeginOutOfTurn, Begin, Done, Cut, ListFails, PackageFails
  <2>6. /\ ~List /\ ~Layout /\ ~Package /\ ~RemoveRuntimeDir /\ ~Deploy /\ ~StartCluster
        /\ ~EnsureDatabase /\ ~SetGlobal /\ ~Destroy
    BY <2>2, <2>4 DEF List, Listed, Layout, Package, RemoveRuntimeDir, Deploy, StartCluster,
                      EnsureDatabase, SetGlobal, Destroy, GoOn
  <2>7. ~RollTakesDown /\ ~RollBringsUp /\ ~RollEnds
    BY <2>4 DEF RollTakesDown, RollBringsUp, RollEnds, GoOn, scriptVars
  <2>8. ~\E r \in Roles, n \in Nodes : NodeFails(r, n) \/ NodeRestarts(r, n)
    BY <2>4 DEF NodeFails, NodeRestarts, scriptVars
  <2>9. ~\E n \in Nodes : SeesSetting(n) \/ OpenSession(n)
    BY <2>4 DEF SeesSetting, OpenSession, scriptVars
  <2> QED
    BY <2>3, <2>5, <2>6, <2>7, <2>8, <2>9 DEF Next, Command
<1>3. CASE RollRefused
  <2>1. /\ At("patch") /\ at \in {7, 10, 13}
        /\ Refused
    BY <1>1, <1>3, CommandsOfUpgrade DEF RollRefused, Rolling
  <2>2. Arg \in Roles
    BY <1>1, <2>1, CommandsOfUpgrade DEF Roles
  <2>3. package[Arg] # "absent"
    BY <1>1, <2>1, CommandsOfUpgrade DEF PatchesProgress
  <2>4. package[Arg] \in {"absent", "partial", "whole"}
    BY <2>2 DEF TypeOK
  <2> QED
    BY <2>1, <2>2, <2>3, <2>4 DEF Refused, UpgradeHindered
<1>4. CASE Assert
  <2>1. PICK disconnected \in BOOLEAN : ~Asserted(disconnected)
    BY <1>4 DEF Assert, GoOn
  <2>2. /\ ~At("first_shows") /\ ~At("all_show")
        /\ at \in {2, 3, 9, 12, 15, 8, 11, 14}
    BY <1>1, <1>4, ChecksOfUpgrade DEF Assert
  <2> SUFFICES ASSUME registered, \A r \in Roles : RoleUp(r) PROVE UpgradeHindered
    BY DEF UpgradeHindered
  <2>3. CASE at = 2
    BY <1>1, <2>1, <2>3, ChecksOfUpgrade DEF Asserted, Displayed
  <2>4. CASE at \in {3, 9, 12}
    BY <1>1, <2>1, <2>4, ChecksOfUpgrade DEF Asserted, Roles, UpgradeHindered
  <2>5. CASE at = 15
    BY <1>1, <2>1, <2>5, ChecksOfUpgrade DEF Asserted, Roles, Progress, UpgradeProgress
  <2>6. CASE at \in {8, 11, 14}
    <3>1. Arg \in Roles /\ Arg \in patched
      BY <1>1, <2>6, ChecksOfUpgrade DEF PatchesProgress, Roles
    <3> QED
      BY <1>1, <2>1, <2>6, <3>1, ChecksOfUpgrade DEF Asserted, Displayed
  <2> QED
    BY <2>2, <2>3, <2>4, <2>5, <2>6
<1> QED
  BY <1>2, <1>3, <1>4

-----------------------------------------------------------------------------
(* The theorems.                                                           *)

LEMMA ScriptsInit ==
    ASSUME Init PROVE ScriptsInv
<1>1. \A r \in Roles, n \in Nodes : version[r][n] = "none"
  BY DEF Init, OnNodes
<1>2. \A n \in Nodes : session[n] = "none"
  BY DEF Init, OnTidb
<1>3. Promises
  BY <1>1 DEF Init, Promises, RolesInOrder, Before, Roles, Old, New, UpgradeIsWhole,
              CreateIsReady, ToggleDone, ToggleLeft, Exited, NothingDone
<1>4. Progress /\ PatchesProgress
  BY <1>2 DEF Init, Progress, CreateProgress, UpgradeProgress, ToggleProgress,
              ToggleReached, SessionsOK, PatchesProgress
<1>5. NodesAreKnown
  BY <1>1 DEF Init, OnNodes, NodesAreKnown
<1> QED
  BY <1>3, <1>4, <1>5, ScriptTypeInit DEF ScriptsInv

LEMMA ScriptsStep ==
    ASSUME ScriptsInv, [Next]_vars PROVE ScriptsInv'
<1>1. TypeOK' /\ NodesAreKnown' /\ PatchesProgress'
  BY ScriptTypeStep, NodesStep, PatchesStep DEF ScriptsInv, Progress
<1> SUFFICES Promises' /\ Progress'
  BY <1>1 DEF ScriptsInv
<1>2. CASE UNCHANGED vars \/ Done
  BY <1>2 DEF Done, vars, scriptVars, nodeVars, sqlVars, ScriptsInv, Promises, Progress,
     RolesInOrder, UpgradeIsWhole, Upgraded, CreateIsReady, ToggleDone, ToggleLeft, Exited,
     CreateProgress, UpgradeProgress, ToggleProgress, ToggleReached, ShowsOnly,
     SessionsOK, RoleAt, At, Arg
<1>3. CASE BeginInTurn \/ BeginOutOfTurn
  <2>1. NextInTurn \in ScriptNames \cup {"none"}
    BY DEF NextInTurn, ScriptNames
  <2> QED
    BY <1>3, <2>1, BeginKeeps DEF BeginInTurn, BeginOutOfTurn
<1>4. CASE Cut
  BY <1>4, FailureKeeps DEF Cut
<1>5. CASE Assert
  <2>1. script # "none" /\ ~At("deploy") /\ ~At("database") /\ ~At("patch")
        /\ ~At("set") /\ ~At("reload")
    BY <1>5 DEF Assert, At
  <2> QED
    BY <1>5, <2>1, FailureKeeps, NextCommandKeeps DEF Assert, GoOn
<1>6. CASE List \/ ListFails
  <2>1. script # "none" /\ ~At("deploy") /\ ~At("database") /\ ~At("patch")
        /\ ~At("set") /\ ~At("reload")
    BY <1>6 DEF List, Listed, ListFails, At
  <2>2. At("skip_unless_listed") => script = "destroy"
    BY Positions DEF ScriptsInv
  <2> QED
    BY <1>6, <2>1, <2>2, FailureKeeps, NextCommandKeeps DEF List, Listed, ListFails, GoOn
<1>7. CASE Layout \/ Package \/ PackageFails \/ RemoveRuntimeDir
  <2>1. script # "none" /\ ~At("deploy") /\ ~At("database") /\ ~At("patch")
        /\ ~At("set") /\ ~At("reload")
    BY <1>7 DEF Layout, Package, PackageFails, RemoveRuntimeDir, At
  <2> QED
    BY <1>7, <2>1, FailureKeeps, NextCommandKeeps
       DEF Layout, Package, PackageFails, RemoveRuntimeDir, GoOn
<1>8. CASE RollRefused
  BY <1>8, FailureKeeps DEF RollRefused
<1>9. CASE RollBringsUp
  BY <1>9, PatchedNodeKeeps, ReloadedNodeKeeps DEF RollBringsUp, Rolling
<1> QED
  BY <1>2, <1>3, <1>4, <1>5, <1>6, <1>7, <1>8, <1>9, FinishKeeps, EnvironmentKeeps,
     DeployKeeps, StartKeeps, DatabaseKeeps, SetKeeps, DestroyKeeps, TakesDownKeeps,
     RollEndsKeeps DEF Next, Command

\* What the scripts leave to each other, whatever fails between two of their commands.
THEOREM ScriptsInvariance == Spec => []ScriptsInv
<1>1. Init => ScriptsInv
  BY ScriptsInit
<1>2. ScriptsInv /\ [Next]_vars => ScriptsInv'
  BY ScriptsStep
<1> QED
  BY <1>1, <1>2, PTL DEF Spec

\* Whatever is killed or fails, every node that is deployed or runs is one TiUP knows,
\* also when a destroy has removed the files under it (destroy-cluster.sh, `rm -rf').
THEOREM NodesStayKnown == Spec => []NodesAreKnown
<1>1. ScriptsInv => NodesAreKnown
  BY DEF ScriptsInv
<1> QED
  BY <1>1, ScriptsInvariance, PTL

\* "PD patch first, TiKV patch second, TiDB patch last", however often upgrades are cut
\* off and started again, and whatever else is started in between.
THEOREM RolesAreUpgradedInOrder == Spec => []RolesInOrder
<1>1. ScriptsInv => RolesInOrder
  BY DEF ScriptsInv, Promises
<1> QED
  BY <1>1, ScriptsInvariance, PTL

\* An upgrade that exits with zero has left no node of any role behind.
THEOREM UpgradesAreWhole == Spec => []UpgradeIsWhole
<1>1. ScriptsInv => UpgradeIsWhole
  BY DEF ScriptsInv, Promises
<1> QED
  BY <1>1, ScriptsInvariance, PTL

\* An upgrade that nothing goes wrong with gets past all that upgrades killed before their
\* first TiDB node have left: it fails for the causes of UpgradeHindered only.
THEOREM UpgradesFailForCause == Spec => UpgradeFailsForCause
<1>1. ASSUME ScriptsInv, [Next]_vars
      PROVE  [script = "upgrade" /\ script' = "none" /\ last'.status = "failed"
                /\ trouble' = trouble => UpgradeHindered]_vars
  <2>1. CASE Next
    BY <1>1, <2>1, UpgradeFailure
  <2>2. CASE UNCHANGED vars
    BY <2>2
  <2> QED
    BY <1>1, <2>1, <2>2
<1>2. Spec => []ScriptsInv /\ [][Next]_vars
  BY ScriptsInvariance, PTL DEF Spec
<1> QED
  BY <1>1, <1>2, PTL DEF UpgradeFailsForCause

\* A create that exits with zero leaves the cluster that it promises.
THEOREM CreatesAreReady == Spec => []CreateIsReady
<1>1. ScriptsInv => CreateIsReady
  BY DEF ScriptsInv, Promises
<1> QED
  BY <1>1, ScriptsInvariance, PTL

\* After a toggle with --restart no node shows, and no session works with, the other
\* value, whatever nodes fail and start again in the meantime.
THEOREM TogglesAreSeen == Spec => []ToggleIsSeen
<1>1. ScriptsInv => ToggleIsSeen
  BY DEF ScriptsInv, Promises, ToggleDone, ToggleLeft, ToggleIsSeen
<1> QED
  BY <1>1, ScriptsInvariance, PTL
=============================================================================
