------------------------- MODULE PostgresMgrWrites -------------------------
(***************************************************************************)
(* Proof that a primary never takes writes without a synchronous standby   *)
(* named (NoUnprotectedWrites), outside one-node-write mode, for every set *)
(* of peers, task slots and replication timeout.  A postgres gets its      *)
(* postgresql.conf at a spawn (_restart -> _start) or a SIGHUP, so the     *)
(* proof follows the files to the two places they are read: the restart   *)
(* steps of the pipelines, and the SIGHUP of a catch-up task.              *)
(***************************************************************************)
EXTENDS PostgresMgrProofs

(* What NoUnprotectedWrites says of one process handle.                    *)
Protected(p) ==
    (/\ p # Nil /\ p.alive /\ p.recovery = Nil /\ p.conf.readOnly # "on"
     /\ ~OneNodeWriteMode)
    => p.conf.syncStandby # Nil

(* The steps only _standby's pipeline reaches.                             *)
StandbyPcs == {"stopPostgres", "assertDataset", "restore",
               "updateConfigsAgain", "restartAgain", "destroyBackup"}

(* A pipeline's first steps belong to one of the three pipelines, and      *)
(* _standby runs for a sync or async topology only, which names an         *)
(* upstream; the restore steps are _standby's alone.                       *)
PathShape ==
    /\ op.pc \in {"cancel", "awaitCancel"} => op.path \in {"primary", "updateStandby", "standby"}
    /\ op.path = "standby" /\ op.pc # "none" => op.cfg.role \in {"sync", "async"}
    /\ op.pc \in StandbyPcs => op.path = "standby"

(* The files a restart or SIGHUP step of a pipeline hands to postgres:     *)
(* _primary's and _updateStandby's were made read-only by their            *)
(* updateConfigs step; _standby's name the upstream in recovery.conf,      *)
(* since its restart steps follow a full updateConfigurations() only.      *)
SpawnSafe ==
    /\ op.pc = "sighup" /\ ~OneNodeWriteMode => conf.readOnly = "on"
    /\ op.pc = "restart" /\ op.path = "primary" /\ ~OneNodeWriteMode => conf.readOnly = "on"
    /\ op.pc = "restart" /\ op.path = "standby" => recovery = op.cfg.upstream
    /\ op.pc = "restartAgain" => recovery = op.cfg.upstream

(* A catch-up task about to SIGHUP has just written its standby's name     *)
(* into postgresql.conf, and nothing has rewritten it since: no pipeline   *)
(* writes files while a task is alive.                                     *)
EnableSafe ==
    \A s \in TaskSlots :
        tasks[s] # Idle /\ tasks[s].phase = "sighup"
            => conf = ConfWith([syncStandby |-> tasks[s].stdby])

(* The inductive invariant behind NoUnprotectedWrites.                     *)
Strengthening == PathShape /\ SpawnSafe /\ EnableSafe /\ Protected(postgres)

WInv == IInv /\ Strengthening
-----------------------------------------------------------------------------
(* NoUnprotectedWrites is Protected of the handle.                         *)
LEMMA ProtectedIsProperty == Protected(postgres) <=> NoUnprotectedWrites
BY DEF Protected, NoUnprotectedWrites, PrimaryWritable, LiveDb

(* Once a pipeline has passed its cancel step, no catch-up task is alive.  *)
LEMMA NoTaskAfterCancel ==
    ASSUME IInv, op.pc \in AfterCancelPcs
    PROVE  \A s \in TaskSlots : tasks[s] = Idle
BY ConstantsAssumption DEF IInv, MonitorOwned

(* The fields of the postgresql.conf rewrites the code performs.           *)
LEMMA ConfWithFields ==
    ASSUME NEW d
    PROVE  /\ ConfWith([readOnly |-> "on"]).readOnly = "on"
           /\ ConfWith([syncStandby |-> d]).syncStandby = d
           /\ ConfWith([syncStandby |-> d, readOnly |-> "on"]).readOnly = "on"
BY DEF ConfWith, Template

(* A child spawned from read-only files, or with a recovery.conf, does not *)
(* take writes unprotected.                                                *)
LEMMA SpawnProtected ==
    ASSUME NEW a \in BOOLEAN,
           recovery # Nil \/ OneNodeWriteMode \/ conf.readOnly = "on"
    PROVE  Protected(Spawned(a))
BY DEF Protected, Spawned

(* _stop() either clears the handle or leaves it, possibly dead.           *)
LEMMA StopProtected ==
    ASSUME TypeOK, Protected(postgres), StopOk \/ StopFailed
    PROVE  Protected(postgres')
<1>1. CASE StopOk
  BY <1>1 DEF StopOk, Protected
<1>2. CASE StopFailed
  <2>1. postgres \in ProcValues
    BY <1>2 DEF StopFailed, TypeOK
  <2>. QED
    BY <1>2, <2>1 DEF StopFailed, Protected, ProcValues
<1>. QED
  BY <1>1, <1>2

(* _restart() from files a safe spawn reads keeps the handle protected.   *)
LEMMA RestartProtected ==
    ASSUME TypeOK, Protected(postgres),
           recovery # Nil \/ OneNodeWriteMode \/ conf.readOnly = "on",
           RestartOk \/ RestartFailed
    PROVE  Protected(postgres')
<1>1. \A a \in BOOLEAN : Protected(Spawned(a))
  BY SpawnProtected
<1>2. CASE RestartOk
  BY <1>1, <1>2 DEF RestartOk
<1>3. CASE LiveDb /\ StopFailed
  BY <1>3, StopProtected
<1>4. CASE postgres' = Nil
  BY <1>4 DEF Protected
<1>5. CASE \E a \in BOOLEAN : postgres' = Spawned(a)
  BY <1>1, <1>5
<1>6. CASE UNCHANGED postgres
  BY <1>6
<1>. QED
  BY <1>2, <1>3, <1>4, <1>5, <1>6 DEF RestartFailed

(* A SIGHUP makes the process run with the files' postgresql.conf.         *)
LEMMA SighupProtected ==
    ASSUME TypeOK, postgres # Nil,
           conf.readOnly = "on" \/ conf.syncStandby # Nil \/ OneNodeWriteMode
    PROVE  Protected([postgres EXCEPT !.conf = conf])
<1>1. postgres \in ProcValues
  BY DEF TypeOK
<1>. QED
  BY <1>1 DEF Protected, ProcValues
-----------------------------------------------------------------------------
(* A pipeline that finishes leaves no pc for the path and spawn conjuncts  *)
(* to speak of.                                                            *)
LEMMA FinishStrengthens ==
  ASSUME op' = IdleOp, EnableSafe', Protected(postgres')
  PROVE  Strengthening'
<1>1. PathShape' /\ SpawnSafe'
  BY DEF PathShape, SpawnSafe, IdleOp, StandbyPcs
<1>. QED
  BY <1>1 DEF Strengthening

(* A pipeline step past the cancel leaves the task table, all idle, alone. *)
LEMMA AfterCancelEnable ==
  ASSUME IInv, op.pc \in AfterCancelPcs, UNCHANGED tasks
  PROVE  EnableSafe'
<1>1. \A s \in TaskSlots : tasks'[s] = Idle
  BY NoTaskAfterCancel
<1>. QED
  BY <1>1 DEF EnableSafe, Idle

(* What the two ways a pipeline step ends do to the pipeline record.       *)
LEMMA FinishOp ==
  ASSUME NEW err, Finish(err) PROVE op' = IdleOp
BY DEF Finish

LEMMA GotoOp ==
  ASSUME NEW pc, Goto(pc) PROVE op' = [op EXCEPT !.pc = pc]
BY DEF Goto

(* _startReplCheck only ever adds a task in its "check" phase.            *)
LEMMA StartReplCheckEnable ==
  ASSUME TypeOK, EnableSafe, NEW d, StartReplCheck(d), UNCHANGED conf
  PROVE  EnableSafe'
<1>1. CASE d = Nil
  BY <1>1 DEF StartReplCheck, EnableSafe, taskVars
<1>2. CASE d # Nil
  <2>1. PICK t \in FreeSlots : tasks' = [tasks EXCEPT ![t] = [stdby |-> d, phase |-> "check", stall |-> 0]]
    BY <1>2 DEF StartReplCheck
  <2>2. \A s \in TaskSlots : tasks'[s].phase = "sighup" => tasks'[s] = tasks[s]
    BY <2>1 DEF TypeOK, FreeSlots
  <2>. QED
    BY <2>2 DEF EnableSafe
<1>. QED
  BY <1>1, <1>2

(* A standby pipeline at a restart has an upstream to follow.             *)
LEMMA StandbyUpstream ==
  ASSUME IInv, Strengthening, op.path = "standby", op.pc \in {"restart", "restartAgain"}
  PROVE  op.cfg.upstream # Nil
<1>1. op.cfg \in Configs /\ op.cfg.role \in {"sync", "async"}
  BY DEF IInv, OpCarriesConfig, Strengthening, PathShape
<1>. QED
  BY <1>1 DEF Configs

(* The constructor's state: no process, no pipeline, no task.              *)
LEMMA InitWInv == Init => WInv
BY InitIInv DEF Init, WInv, Strengthening, PathShape, SpawnSafe, EnableSafe, StandbyPcs, IdleOp, Protected

(* Every step keeps the strengthened invariant.                            *)
LEMMA NextWInv == WInv /\ [Next]_vars => WInv'
<1>. SUFFICES ASSUME WInv, [Next]_vars PROVE WInv'
  OBVIOUS
<1>0. IInv' /\ IInv /\ TypeOK /\ OpCarriesConfig /\ MonitorOwned /\ Strengthening
  BY NextIInv DEF WInv, IInv
<1>. SUFFICES Strengthening'
  BY <1>0 DEF WInv
<1>. USE <1>0
<1>1. ASSUME NEW cfg \in Configs, reconfigure(cfg) PROVE Strengthening'
  <2>1. cfg.role \in Roles
    BY ConfigFields
  <2>2. Classify(cfg) = "standby" => cfg.role \in {"sync", "async"}
    BY <2>1 DEF Classify, AlreadyApplied, Roles
  <2>3. FirstPc(Classify(cfg)) = "cancel" => Classify(cfg) \in {"primary", "updateStandby", "standby"}
    BY DEF Classify, FirstPc, AlreadyApplied
  <2>4. FirstPc(Classify(cfg)) \in {"cancel", "noop"}
    BY DEF FirstPc
  <2>. QED
    BY <1>1, <2>2, <2>3, <2>4
       DEF reconfigure, Strengthening, PathShape, SpawnSafe, EnableSafe, StandbyPcs, mgrVars, fileVars, taskVars
<1>2. CASE start
  <2>1. pgConfig.role \in Roles
    BY <1>2, ConfigFields DEF start, TypeOK
  <2>. QED
    BY <1>2, <2>1
       DEF start, Roles, Strengthening, PathShape, SpawnSafe, EnableSafe, StandbyPcs, mgrVars, fileVars, taskVars
<1>3. CASE stop
  BY <1>3 DEF stop, Strengthening, PathShape, SpawnSafe, EnableSafe, StandbyPcs, mgrVars, fileVars, taskVars
<1>4. CASE StopStep
  <2>1. Protected(postgres')
    BY <1>4, StopProtected DEF StopStep, Strengthening
  <2>2. op' = IdleOp /\ EnableSafe'
    BY <1>4, FinishOp DEF StopStep, EnableSafe, Strengthening, fileVars, taskVars
  <2>. QED
    BY <2>1, <2>2, FinishStrengthens
<1>5. CASE NoopStep
  <2>1. op' = IdleOp /\ EnableSafe' /\ Protected(postgres')
    BY <1>5, FinishOp DEF NoopStep, EnableSafe, Strengthening, fileVars, taskVars
  <2>. QED
    BY <2>1, FinishStrengthens
<1>6. CASE CancelTransitioning
  <2>. DEFINE next == IF op.path = "primary" THEN "initDb"
                      ELSE IF op.path = "updateStandby" THEN "updateConfigs"
                      ELSE "stopPostgres"
  <2>1. op' = [op EXCEPT !.pc = next] \/ op' = [op EXCEPT !.pc = "awaitCancel"]
    BY <1>6, GotoOp DEF CancelTransitioning
  <2>2. op.path \in {"primary", "updateStandby", "standby"} /\ op \in Ops
    BY <1>6 DEF CancelTransitioning, Strengthening, PathShape, TypeOK
  <2>3. PathShape' /\ SpawnSafe'
    BY <1>6, <2>1, <2>2 DEF CancelTransitioning, Strengthening, PathShape, SpawnSafe, StandbyPcs, Ops
  <2>4. /\ transitionFunc # Nil => transitionFunc \in TaskSlots
        /\ tasks \in [TaskSlots -> TaskValues]
    BY DEF TypeOK
  <2>5. \A s \in TaskSlots : tasks'[s].phase = "sighup" => tasks'[s] = tasks[s]
    <3>1. CASE transitionFunc = Nil
      BY <1>6, <3>1 DEF CancelTransitioning
    <3>2. CASE transitionFunc # Nil /\ tasks[transitionFunc].phase = "check"
      <4>1. tasks' = [tasks EXCEPT ![transitionFunc].phase = "enable"]
        BY <1>6, <3>2 DEF CancelTransitioning
      <4>2. tasks[transitionFunc] \in TaskValues \ {Idle}
        BY <2>4, <3>2 DEF Idle
      <4>. QED
        BY <2>4, <4>1, <4>2 DEF TaskValues
    <3>3. CASE transitionFunc # Nil /\ tasks[transitionFunc].phase # "check"
      BY <1>6, <3>3 DEF CancelTransitioning
    <3>. QED
      BY <3>1, <3>2, <3>3
  <2>6. EnableSafe'
    BY <1>6, <2>5 DEF CancelTransitioning, Strengthening, EnableSafe, fileVars
  <2>7. Protected(postgres')
    BY <1>6 DEF CancelTransitioning, Strengthening
  <2>. QED
    BY <2>3, <2>6, <2>7 DEF Strengthening
<1>7. CASE AwaitCancel
  <2>. DEFINE next == IF op.path = "primary" THEN "initDb"
                      ELSE IF op.path = "updateStandby" THEN "updateConfigs"
                      ELSE "stopPostgres"
  <2>1. op' = [op EXCEPT !.pc = next]
    BY <1>7, GotoOp DEF AwaitCancel
  <2>2. op.path \in {"primary", "updateStandby", "standby"} /\ op \in Ops
    BY <1>7 DEF AwaitCancel, Strengthening, PathShape, TypeOK
  <2>3. PathShape' /\ SpawnSafe'
    BY <1>7, <2>1, <2>2 DEF AwaitCancel, Strengthening, PathShape, SpawnSafe, StandbyPcs, Ops
  <2>. QED
    BY <1>7, <2>3 DEF AwaitCancel, Strengthening, EnableSafe, fileVars, taskVars
<1>8. CASE PrimaryInitDb
  <2>1. EnableSafe' /\ Protected(postgres')
    BY <1>8, AfterCancelEnable, StopProtected DEF IInv, PrimaryInitDb, AfterCancelPcs, taskVars, Strengthening
  <2>2. op' = IdleOp \/ op' = [op EXCEPT !.pc = "deleteRecoveryConf"]
    BY <1>8, FinishOp, GotoOp DEF PrimaryInitDb
  <2>3. op' = [op EXCEPT !.pc = "deleteRecoveryConf"] => PathShape' /\ SpawnSafe'
    BY <1>8 DEF PrimaryInitDb, Strengthening, PathShape, SpawnSafe, StandbyPcs, TypeOK, Ops
  <2>. QED
    BY <2>1, <2>2, <2>3, FinishStrengthens DEF Strengthening
<1>9. CASE PrimaryDeleteRecoveryConf
  <2>1. EnableSafe' /\ Protected(postgres')
    BY <1>9, AfterCancelEnable DEF PrimaryDeleteRecoveryConf, AfterCancelPcs, taskVars, Strengthening
  <2>2. op' = IdleOp \/ op' = [op EXCEPT !.pc = "updateConfigs"]
    BY <1>9, FinishOp, GotoOp DEF PrimaryDeleteRecoveryConf
  <2>3. op' = [op EXCEPT !.pc = "updateConfigs"] => PathShape' /\ SpawnSafe'
    BY <1>9 DEF PrimaryDeleteRecoveryConf, Strengthening, PathShape, SpawnSafe, StandbyPcs, TypeOK, Ops
  <2>. QED
    BY <2>1, <2>2, <2>3, FinishStrengthens DEF Strengthening
<1>10. CASE PrimaryUpdateConfigs
  <2>1. EnableSafe' /\ Protected(postgres')
    BY <1>10, AfterCancelEnable DEF PrimaryUpdateConfigs, AfterCancelPcs, taskVars, Strengthening
  <2>2. CASE op' = IdleOp
    BY <2>1, <2>2, FinishStrengthens
  <2>3. CASE op' # IdleOp
    <3>1. op' = [op EXCEPT !.pc = "restart"] /\ op.path = "primary"
          /\ (~OneNodeWriteMode => conf' = ConfWith([readOnly |-> "on"]))
      BY <1>10, <2>3, FinishOp, GotoOp DEF PrimaryUpdateConfigs
    <3>2. ConfWith([readOnly |-> "on"]).readOnly = "on"
      BY ConfWithFields
    <3>3. PathShape' /\ SpawnSafe'
      BY <3>1, <3>2 DEF PathShape, SpawnSafe, StandbyPcs, TypeOK, Ops
    <3>. QED
      BY <2>1, <3>3 DEF Strengthening
  <2>. QED
    BY <2>2, <2>3
<1>11. CASE PrimaryRestart
  <2>1. recovery # Nil \/ OneNodeWriteMode \/ conf.readOnly = "on"
    BY <1>11 DEF PrimaryRestart, Strengthening, SpawnSafe
  <2>2. EnableSafe' /\ Protected(postgres')
    BY <1>11, <2>1, AfterCancelEnable, RestartProtected
       DEF IInv, PrimaryRestart, AfterCancelPcs, taskVars, Strengthening
  <2>3. op' = IdleOp \/ op' = [op EXCEPT !.pc = "snapshot"]
    BY <1>11, FinishOp, GotoOp DEF PrimaryRestart
  <2>4. op' = [op EXCEPT !.pc = "snapshot"] => PathShape' /\ SpawnSafe'
    BY <1>11 DEF PrimaryRestart, Strengthening, PathShape, SpawnSafe, StandbyPcs, TypeOK, Ops
  <2>. QED
    BY <2>2, <2>3, <2>4, FinishStrengthens DEF Strengthening
<1>12. CASE PrimarySnapshot
  <2>1. EnableSafe'
    <3>1. CASE StartReplCheck(op.cfg.downstream)
      BY <1>12, <3>1, StartReplCheckEnable DEF PrimarySnapshot, Strengthening, fileVars
    <3>2. CASE UNCHANGED taskVars
      BY <1>12, <3>2 DEF PrimarySnapshot, Strengthening, EnableSafe, fileVars, taskVars
    <3>. QED
      BY <1>12, <3>1, <3>2 DEF PrimarySnapshot
  <2>2. op' = IdleOp /\ Protected(postgres')
    BY <1>12, FinishOp DEF PrimarySnapshot, Strengthening
  <2>. QED
    BY <2>1, <2>2, FinishStrengthens
<1>13. CASE UpdateStandbyUpdateConfigs
  <2>1. EnableSafe' /\ Protected(postgres')
    BY <1>13, AfterCancelEnable DEF UpdateStandbyUpdateConfigs, AfterCancelPcs, taskVars, Strengthening
  <2>2. CASE op' = IdleOp
    BY <2>1, <2>2, FinishStrengthens
  <2>3. CASE op' # IdleOp
    <3>1. op' = [op EXCEPT !.pc = "sighup"] /\ op.path = "updateStandby"
          /\ conf' = IF op.cfg.downstream # Nil
                       THEN ConfWith([syncStandby |-> op.cfg.downstream, readOnly |-> "on"])
                    ELSE IF OneNodeWriteMode THEN Template
                       ELSE ConfWith([readOnly |-> "on"])
      BY <1>13, <2>3, FinishOp, GotoOp DEF UpdateStandbyUpdateConfigs
    <3>2. ~OneNodeWriteMode => conf'.readOnly = "on"
      BY <3>1, ConfWithFields
    <3>3. PathShape' /\ SpawnSafe'
      BY <3>1, <3>2 DEF PathShape, SpawnSafe, StandbyPcs, TypeOK, Ops
    <3>. QED
      BY <2>1, <3>3 DEF Strengthening
  <2>. QED
    BY <2>2, <2>3
<1>14. CASE UpdateStandbySighup
  <2>1. CASE postgres = Nil
    BY <1>14, <2>1 DEF UpdateStandbySighup, Strengthening, PathShape, SpawnSafe, EnableSafe, fileVars, taskVars
  <2>2. CASE postgres # Nil
    <3>1. /\ postgres' = [postgres EXCEPT !.conf = conf]
          /\ StartReplCheck(op.cfg.downstream)
          /\ op' = IdleOp
          /\ UNCHANGED conf
      BY <1>14, <2>2, FinishOp DEF UpdateStandbySighup, fileVars
    <3>2. Protected(postgres')
      BY <1>14, <2>2, <3>1, SighupProtected DEF UpdateStandbySighup, Strengthening, SpawnSafe
    <3>3. EnableSafe'
      BY <3>1, StartReplCheckEnable DEF Strengthening
    <3>. QED
      BY <3>1, <3>2, <3>3, FinishStrengthens
  <2>. QED
    BY <2>1, <2>2
<1>15. CASE StandbyStopPostgres
  <2>1. EnableSafe' /\ Protected(postgres')
    BY <1>15, AfterCancelEnable, StopProtected DEF IInv, StandbyStopPostgres, AfterCancelPcs, taskVars, Strengthening
  <2>2. op' = IdleOp \/ op' = [op EXCEPT !.pc = "assertDataset"]
    BY <1>15, FinishOp, GotoOp DEF StandbyStopPostgres
  <2>3. op' = [op EXCEPT !.pc = "assertDataset"] => PathShape' /\ SpawnSafe'
    BY <1>15 DEF StandbyStopPostgres, Strengthening, PathShape, SpawnSafe, StandbyPcs, TypeOK, Ops
  <2>. QED
    BY <2>1, <2>2, <2>3, FinishStrengthens DEF Strengthening
<1>16. CASE StandbyAssertDataset
  <2>1. EnableSafe' /\ Protected(postgres')
    BY <1>16, AfterCancelEnable DEF StandbyAssertDataset, AfterCancelPcs, taskVars, Strengthening
  <2>2. op' = IdleOp \/ op' = [op EXCEPT !.pc = "updateConfigs"]
    BY <1>16, FinishOp, GotoOp DEF StandbyAssertDataset
  <2>3. op' = [op EXCEPT !.pc = "updateConfigs"] => PathShape' /\ SpawnSafe'
    BY <1>16 DEF StandbyAssertDataset, Strengthening, PathShape, SpawnSafe, StandbyPcs, TypeOK, Ops
  <2>. QED
    BY <2>1, <2>2, <2>3, FinishStrengthens DEF Strengthening
<1>17. CASE StandbyUpdateConfigs
  <2>1. EnableSafe' /\ Protected(postgres')
    BY <1>17, AfterCancelEnable DEF StandbyUpdateConfigs, AfterCancelPcs, taskVars, Strengthening
  <2>2. /\ op' = [op EXCEPT !.pc = IF ConfigurationsUpdated(op.cfg.upstream) THEN "restart" ELSE "restore"]
        /\ op.path = "standby"
    BY <1>17, GotoOp DEF StandbyUpdateConfigs
  <2>3. PathShape' /\ SpawnSafe'
    BY <1>17, <2>2 DEF StandbyUpdateConfigs, ConfigurationsUpdated, Strengthening, PathShape, SpawnSafe,
                       StandbyPcs, TypeOK, Ops
  <2>. QED
    BY <2>1, <2>3 DEF Strengthening
<1>18. CASE StandbyRestart
  <2>1. recovery # Nil
    BY <1>18, StandbyUpstream DEF StandbyRestart, Strengthening, SpawnSafe
  <2>2. EnableSafe' /\ Protected(postgres')
    BY <1>18, <2>1, AfterCancelEnable, RestartProtected
       DEF IInv, StandbyRestart, AfterCancelPcs, taskVars, Strengthening
  <2>3. op' = IdleOp \/ op' = [op EXCEPT !.pc = "restore"]
    BY <1>18, FinishOp, GotoOp DEF StandbyRestart
  <2>4. op' = [op EXCEPT !.pc = "restore"] => PathShape' /\ SpawnSafe'
    BY <1>18 DEF StandbyRestart, Strengthening, PathShape, SpawnSafe, StandbyPcs, TypeOK, Ops
  <2>. QED
    BY <2>2, <2>3, <2>4, FinishStrengthens DEF Strengthening
<1>19. CASE StandbyRestore
  <2>1. EnableSafe' /\ Protected(postgres')
    BY <1>19, AfterCancelEnable DEF StandbyRestore, AfterCancelPcs, taskVars, Strengthening
  <2>2. op' = IdleOp \/ op' = [op EXCEPT !.pc = "updateConfigsAgain", !.saved = Files]
    BY <1>19, FinishOp DEF StandbyRestore
  <2>3. op' = [op EXCEPT !.pc = "updateConfigsAgain", !.saved = Files] => PathShape' /\ SpawnSafe'
    BY <1>19 DEF StandbyRestore, Strengthening, PathShape, SpawnSafe, StandbyPcs, TypeOK, Ops
  <2>. QED
    BY <2>1, <2>2, <2>3, FinishStrengthens DEF Strengthening
<1>20. CASE StandbyUpdateConfigsAgain
  <2>1. EnableSafe' /\ Protected(postgres')
    BY <1>20, AfterCancelEnable DEF StandbyUpdateConfigsAgain, AfterCancelPcs, taskVars, Strengthening
  <2>2. CASE ConfigurationsUpdated(op.cfg.upstream)
    <3>1. op' = [op EXCEPT !.pc = "restartAgain"] /\ recovery' = op.cfg.upstream
      BY <1>20, <2>2, GotoOp DEF StandbyUpdateConfigsAgain, ConfigurationsUpdated
    <3>2. PathShape' /\ SpawnSafe'
      BY <1>20, <3>1 DEF StandbyUpdateConfigsAgain, Strengthening, PathShape, SpawnSafe, StandbyPcs, TypeOK, Ops
    <3>. QED
      BY <2>1, <3>2 DEF Strengthening
  <2>3. CASE ~ConfigurationsUpdated(op.cfg.upstream)
    BY <1>20, <2>1, <2>3, FinishOp, FinishStrengthens DEF StandbyUpdateConfigsAgain
  <2>. QED
    BY <2>2, <2>3
<1>21. CASE StandbyRestartAgain
  <2>1. recovery # Nil
    BY <1>21, StandbyUpstream DEF StandbyRestartAgain, Strengthening, SpawnSafe, PathShape, StandbyPcs
  <2>2. EnableSafe' /\ Protected(postgres')
    BY <1>21, <2>1, AfterCancelEnable, RestartProtected
       DEF IInv, StandbyRestartAgain, AfterCancelPcs, taskVars, Strengthening
  <2>3. op' = IdleOp \/ op' = [op EXCEPT !.pc = "destroyBackup"]
    BY <1>21, FinishOp, GotoOp DEF StandbyRestartAgain
  <2>4. op' = [op EXCEPT !.pc = "destroyBackup"] => PathShape' /\ SpawnSafe'
    BY <1>21 DEF StandbyRestartAgain, Strengthening, PathShape, SpawnSafe, StandbyPcs, TypeOK, Ops
  <2>. QED
    BY <2>2, <2>3, <2>4, FinishStrengthens DEF Strengthening
<1>22. CASE StandbyDestroyBackup
  <2>1. EnableSafe' /\ Protected(postgres') /\ op' = IdleOp
    BY <1>22, AfterCancelEnable, FinishOp DEF StandbyDestroyBackup, AfterCancelPcs, taskVars, Strengthening
  <2>. QED
    BY <2>1, FinishStrengthens
<1>23. ASSUME NEW s \in TaskSlots, CheckRepl(s) PROVE Strengthening'
  <2>1. tasks[s] \in TaskValues \ {Idle}
    BY <1>23 DEF CheckRepl, TypeOK, Idle
  <2>2. \A t \in TaskSlots : tasks'[t].phase = "sighup" => tasks'[t] = tasks[t]
    BY <1>23, <2>1 DEF CheckRepl, TaskDone, TypeOK, Idle, TaskValues
  <2>. QED
    BY <1>23, <2>2 DEF CheckRepl, Strengthening, PathShape, SpawnSafe, EnableSafe, fileVars
<1>24. ASSUME NEW s \in TaskSlots, EnableWrites(s) PROVE Strengthening'
  <2>1. tasks[s] \in TaskValues \ {Idle}
    BY <1>24 DEF EnableWrites, TypeOK, Idle
  <2>2. transitionFunc = s /\ \A t \in TaskSlots \ {s} : tasks[t] = Idle
    BY <2>1, ConstantsAssumption DEF MonitorOwned
  <2>3. op.pc \notin AfterCancelPcs
    BY <2>2, ConstantsAssumption DEF MonitorOwned
  <2>4. PathShape' /\ SpawnSafe' /\ Protected(postgres')
    BY <1>24, <2>3 DEF EnableWrites, Strengthening, PathShape, SpawnSafe, AfterCancelPcs
  <2>5. CASE TaskDone(s) /\ UNCHANGED conf
    <3>1. \A t \in TaskSlots : tasks'[t] = Idle
      BY <2>2, <2>5 DEF TaskDone, TypeOK
    <3>. QED
      BY <2>4, <3>1 DEF Strengthening, EnableSafe
  <2>6. CASE /\ conf' = ConfWith([syncStandby |-> tasks[s].stdby])
             /\ tasks' = [tasks EXCEPT ![s].phase = "sighup"]
    <3>1. tasks'[s] # Idle /\ tasks'[s].stdby = tasks[s].stdby
      BY <2>1, <2>6 DEF TypeOK, Idle, TaskValues
    <3>2. \A t \in TaskSlots \ {s} : tasks'[t] = Idle
      BY <2>2, <2>6 DEF TypeOK
    <3>. QED
      BY <2>4, <2>6, <3>1, <3>2 DEF Strengthening, EnableSafe
  <2>. QED
    BY <1>24, <2>5, <2>6 DEF EnableWrites
<1>25. ASSUME NEW s \in TaskSlots, TaskSighup(s) PROVE Strengthening'
  <2>1. CASE postgres = Nil
    BY <1>25, <2>1 DEF TaskSighup, Strengthening, PathShape, SpawnSafe, EnableSafe, fileVars, taskVars
  <2>2. CASE postgres # Nil
    <3>1. tasks[s] \in TaskValues \ {Idle}
      BY <1>25 DEF TaskSighup, TypeOK, Idle
    <3>2. conf = ConfWith([syncStandby |-> tasks[s].stdby]) /\ tasks[s].stdby \in Peers
      BY <1>25, <3>1 DEF TaskSighup, Strengthening, EnableSafe, TaskValues
    <3>3. conf.syncStandby # Nil
      BY <3>2, ConfWithFields, ConstantsAssumption
    <3>4. Protected(postgres')
      BY <1>25, <2>2, <3>3, SighupProtected DEF TaskSighup
    <3>5. \A t \in TaskSlots : tasks'[t] = Idle \/ tasks'[t] = tasks[t]
      BY <1>25, <2>2 DEF TaskSighup, TaskDone, TypeOK
    <3>6. EnableSafe'
      BY <1>25, <3>5 DEF TaskSighup, Strengthening, EnableSafe, fileVars, Idle
    <3>. QED
      BY <1>25, <3>4, <3>6 DEF TaskSighup, Strengthening, PathShape, SpawnSafe, fileVars
  <2>. QED
    BY <2>1, <2>2
<1>26. CASE SitterRestart
  BY <1>26 DEF SitterRestart, Strengthening, PathShape, SpawnSafe, EnableSafe, StandbyPcs, IdleOp, Protected
<1>27. CASE UNCHANGED vars
  BY <1>27 DEF vars, Strengthening, PathShape, SpawnSafe, EnableSafe
<1>. QED
  BY <1>1, <1>2, <1>3, <1>4, <1>5, <1>6, <1>7, <1>8, <1>9, <1>10, <1>11, <1>12,
     <1>13, <1>14, <1>15, <1>16, <1>17, <1>18, <1>19, <1>20, <1>21, <1>22, <1>23,
     <1>24, <1>25, <1>26, <1>27
     DEF Next, PipelineStep, TaskStep

(* The strengthened invariant holds in every reachable state, for any     *)
(* peers, slots and timeout: the config files a restart or SIGHUP of a    *)
(* pipeline hands to postgres are read-only or name the upstream, a       *)
(* catch-up task about to SIGHUP wrote its standby into postgresql.conf   *)
(* with nothing rewritten since, and the handle itself is protected.      *)
THEOREM WInvHolds == Spec => []WInv
<1>1. Init => WInv
  BY InitWInv
<1>2. WInv /\ [Next]_vars => WInv'
  BY NextWInv
<1>. QED
  BY <1>1, <1>2, PTL DEF Spec

(* Outside one-node-write mode, a postgres running as a primary never      *)
(* takes writes without a synchronous standby named, for any peers, slots  *)
(* and timeout: _primary and _updateStandby start or SIGHUP it read-only,  *)
(* _standby gives it a recovery.conf, and only the catch-up task, which    *)
(* names the standby in the same write, lifts read-only.                   *)
THEOREM WritesProtected == Spec => []NoUnprotectedWrites
<1>1. WInv => NoUnprotectedWrites
  BY ProtectedIsProperty DEF WInv, Strengthening
<1>. QED
  BY <1>1, WInvHolds, PTL
=============================================================================
