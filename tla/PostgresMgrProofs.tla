------------------------- MODULE PostgresMgrProofs -------------------------
(***************************************************************************)
(* Proofs about the replication state machine of PostgresMgr, for every    *)
(* set of peers, every set of task slots and every replication timeout.    *)
(***************************************************************************)
EXTENDS PostgresMgr, FiniteSetTheorems, TLAPS

(* The pipeline steps that run after _cancelTransitioning has seen the     *)
(* previous catch-up task finish.                                          *)
AfterCancelPcs ==
    {"initDb", "deleteRecoveryConf", "updateConfigs", "restart", "snapshot",
     "sighup", "stopPostgres", "assertDataset", "restore",
     "updateConfigsAgain", "restartAgain", "destroyBackup"}

(* A pipeline past its first step carries the topology it applies.         *)
OpCarriesConfig ==
    op.pc \notin {"none", "stop"} => op.cfg \in Configs

(* Every live catch-up task is the one _transitionFunc points at, and      *)
(* none is alive once a pipeline has passed its cancel step: the await in  *)
(* _cancelTransitioning is what keeps a second monitor from starting.      *)
MonitorOwned ==
    /\ \A s \in TaskSlots : tasks[s] # Idle => transitionFunc = s
    /\ op.pc \in AfterCancelPcs => transitionFunc = Nil

(* The inductive invariant: the type invariant, the topology a pipeline  *)
(* carries, and the ownership of the catch-up tasks by _transitionFunc.   *)
IInv == TypeOK /\ OpCarriesConfig /\ MonitorOwned

-----------------------------------------------------------------------------
(* The constructor's state satisfies the strengthened invariant.          *)
LEMMA InitIInv == Init => IInv
<1>. SUFFICES ASSUME Init PROVE IInv
  OBVIOUS
<1>1. IdleOp \in Ops
  BY DEF Ops, IdleOp, Calls, Paths, Pcs, FileValues, ConfValues, Template
<1>2. [s \in TaskSlots |-> Idle] \in [TaskSlots -> TaskValues]
  BY DEF TaskValues
<1>3. TypeOK
  BY <1>1, <1>2 DEF Init, TypeOK
<1>4. OpCarriesConfig /\ MonitorOwned
  BY DEF Init, OpCarriesConfig, MonitorOwned, IdleOp, AfterCancelPcs
<1>. QED
  BY <1>3, <1>4 DEF IInv

(* A topology accepted by reconfigure() has the fields the pipelines read. *)
LEMMA ConfigFields ==
    ASSUME NEW c \in Configs
    PROVE  /\ c.role \in Roles
           /\ c.upstream \in Peers \cup {Nil}
           /\ c.downstream \in Peers \cup {Nil}
BY DEF Configs

(* The catch-up task _startReplCheck registers is well typed and owned.    *)
LEMMA StartReplCheckTyped ==
    ASSUME TypeOK, NEW d \in Peers \cup {Nil}, StartReplCheck(d),
           \A s \in TaskSlots : tasks[s] = Idle
    PROVE  /\ tasks' \in [TaskSlots -> TaskValues]
           /\ transitionFunc' \in TaskSlots \cup {Nil}
           /\ \A s \in TaskSlots : tasks'[s] # Idle => transitionFunc' = s
<1>1. CASE d = Nil
  BY <1>1 DEF StartReplCheck, TypeOK, taskVars
<1>2. CASE d # Nil
  <2>1. PICK s \in FreeSlots :
          /\ tasks' = [tasks EXCEPT ![s] = [stdby |-> d, phase |-> "check", stall |-> 0]]
          /\ transitionFunc' = s
    BY <1>2 DEF StartReplCheck
  <2>2. s \in TaskSlots
    BY <2>1 DEF FreeSlots
  <2>3. [stdby |-> d, phase |-> "check", stall |-> 0] \in TaskValues
    BY <1>2, ConstantsAssumption DEF TaskValues
  <2>4. [stdby |-> d, phase |-> "check", stall |-> 0] # Idle
    BY DEF Idle
  <2>5. tasks' \in [TaskSlots -> TaskValues]
    BY <2>1, <2>2, <2>3 DEF TypeOK
  <2>6. ASSUME NEW t \in TaskSlots, tasks'[t] # Idle PROVE transitionFunc' = t
    <3>1. t = s
      BY <2>1, <2>6 DEF TypeOK
    <3>. QED
      BY <2>1, <3>1
  <2>. QED
    BY <2>1, <2>2, <2>5, <2>6
<1>. QED
  BY <1>1, <1>2
(* The end of a pipeline leaves the manager's variables well typed.        *)
LEMMA FinishTyped ==
    ASSUME TypeOK, NEW err \in BOOLEAN, Finish(err)
    PROVE  /\ op' \in Ops /\ op'.pc = "none"
           /\ pgConfig' \in Configs \cup {Nil}
           /\ appliedPgConfig' \in BOOLEAN
           /\ running' \in BOOLEAN
           /\ transitioning' \in BOOLEAN
           /\ reply' \in {"none", "ok", "error"}
<1>1. IdleOp \in Ops /\ IdleOp.pc = "none"
  BY DEF Ops, IdleOp, Calls, Paths, Pcs, FileValues, ConfValues, Template
<1>2. op.cfg \in Configs \cup {Nil}
  BY DEF TypeOK, Ops
<1>. QED
  BY <1>1, <1>2 DEF Finish, TypeOK

(* A pipeline step moves to the next step of the same pipeline.            *)
LEMMA GotoTyped ==
    ASSUME TypeOK, NEW pc \in Pcs, Goto(pc)
    PROVE  /\ op' \in Ops /\ op'.pc = pc /\ op'.cfg = op.cfg /\ reply' = reply
BY DEF Goto, TypeOK, Ops

(* Stopping, starting and restarting postgres keep its handle well typed. *)
LEMMA HandleTyped ==
    ASSUME TypeOK
    PROVE  /\ StopOk => postgres' \in ProcValues \cup {Nil}
           /\ StopFailed => postgres' \in ProcValues \cup {Nil}
           /\ RestartOk => postgres' \in ProcValues \cup {Nil}
           /\ RestartFailed => postgres' \in ProcValues \cup {Nil}
<1>1. StopOk => postgres' \in ProcValues \cup {Nil}
  BY DEF StopOk
<1>2. StopFailed => postgres' \in ProcValues \cup {Nil}
  <2>. SUFFICES ASSUME StopFailed PROVE postgres' \in ProcValues \cup {Nil}
    OBVIOUS
  <2>1. postgres \in ProcValues
    BY DEF StopFailed, TypeOK
  <2>2. [postgres EXCEPT !.alive = FALSE] \in ProcValues
    BY <2>1 DEF ProcValues
  <2>. QED
    BY <2>1, <2>2 DEF StopFailed
<1>3. \A a \in BOOLEAN : Spawned(a) \in ProcValues
  BY DEF Spawned, ProcValues, TypeOK
<1>4. RestartOk => postgres' \in ProcValues \cup {Nil}
  BY <1>3 DEF RestartOk
<1>5. RestartFailed => postgres' \in ProcValues \cup {Nil}
  BY <1>2, <1>3 DEF RestartFailed, LiveDb, TypeOK
<1>. QED
  BY <1>1, <1>2, <1>4, <1>5

(* A step that ends the pipeline and leaves the catch-up tasks alone keeps *)
(* the invariant, whatever it does to the process and the files.          *)
LEMMA FinishKeeps ==
    ASSUME IInv, NEW err \in BOOLEAN, Finish(err),
           UNCHANGED <<tasks, transitionFunc, thrown, verified>>,
           postgres' \in ProcValues \cup {Nil}, conf' \in ConfValues,
           recovery' \in Peers \cup {Nil}
    PROVE  IInv'
BY FinishTyped DEF IInv, TypeOK, OpCarriesConfig, MonitorOwned, AfterCancelPcs

(* A step that moves to the next step of its pipeline, leaving the         *)
(* manager and the tasks alone, keeps the invariant when the next step     *)
(* is one after the cancel step only once the previous task is gone.       *)
LEMMA GotoKeeps ==
    ASSUME IInv, NEW pc \in Pcs, Goto(pc), op.pc \notin {"none", "stop"},
           pc \notin {"none", "stop"},
           pc \in AfterCancelPcs => transitionFunc = Nil,
           UNCHANGED <<pgConfig, appliedPgConfig, running, transitioning,
                       tasks, transitionFunc, thrown, verified>>,
           postgres' \in ProcValues \cup {Nil}, conf' \in ConfValues,
           recovery' \in Peers \cup {Nil}
    PROVE  IInv'
<1>1. op' \in Ops /\ op'.pc = pc /\ op'.cfg = op.cfg /\ reply' = reply
  BY GotoTyped DEF IInv
<1>2. TypeOK'
  BY <1>1 DEF IInv, TypeOK
<1>3. OpCarriesConfig'
  BY <1>1 DEF IInv, OpCarriesConfig
<1>4. MonitorOwned'
  BY <1>1 DEF IInv, MonitorOwned
<1>. QED
  BY <1>2, <1>3, <1>4 DEF IInv

(* The three rewrites of postgresql.conf the code performs, evaluated.     *)
LEMMA ConfWithValues ==
    ASSUME NEW d \in Peers \cup {Nil}
    PROVE  /\ ConfWith([readOnly |-> "on"]) \in ConfValues
           /\ ConfWith([syncStandby |-> d]) \in ConfValues
           /\ ConfWith([syncStandby |-> d, readOnly |-> "on"]) \in ConfValues
           /\ Template \in ConfValues
BY DEF ConfWith, Template, ConfValues

(* The end of a pipeline that registers a catch-up task for its           *)
(* downstream keeps the invariant, the old task being gone.               *)
LEMMA FinishWithCheckKeeps ==
    ASSUME IInv, Finish(FALSE), transitionFunc = Nil,
           StartReplCheck(op.cfg.downstream), op.pc \notin {"none", "stop"},
           UNCHANGED <<thrown, verified>>,
           postgres' \in ProcValues \cup {Nil}, conf' \in ConfValues,
           recovery' \in Peers \cup {Nil}
    PROVE  IInv'
<1>1. \A s \in TaskSlots : tasks[s] = Idle
  BY ConstantsAssumption DEF IInv, MonitorOwned
<1>2. op.cfg.downstream \in Peers \cup {Nil}
  BY ConfigFields DEF IInv, OpCarriesConfig
<1>3. /\ tasks' \in [TaskSlots -> TaskValues]
      /\ transitionFunc' \in TaskSlots \cup {Nil}
      /\ \A s \in TaskSlots : tasks'[s] # Idle => transitionFunc' = s
  BY <1>1, <1>2, StartReplCheckTyped DEF IInv
<1>4. /\ op' \in Ops /\ op'.pc = "none"
      /\ pgConfig' \in Configs \cup {Nil}
      /\ appliedPgConfig' \in BOOLEAN /\ running' \in BOOLEAN
      /\ transitioning' \in BOOLEAN /\ reply' \in {"none", "ok", "error"}
  BY FinishTyped DEF IInv
<1>. QED
  BY <1>3, <1>4 DEF IInv, TypeOK, OpCarriesConfig, MonitorOwned, AfterCancelPcs

(* A catch-up task ending keeps the invariant: it was the only one.        *)
LEMMA TaskDoneKeeps ==
    ASSUME IInv, NEW s \in TaskSlots, tasks[s] # Idle, TaskDone(s),
           UNCHANGED <<pgConfig, appliedPgConfig, running, transitioning, op, thrown, reply>>,
           verified' \subseteq Peers, postgres' \in ProcValues \cup {Nil},
           conf' \in ConfValues, recovery \in Peers \cup {Nil}, recovery' = recovery
    PROVE  IInv'
<1>1. \A t \in TaskSlots : t # s => tasks[t] = Idle
  BY DEF IInv, MonitorOwned
<1>2. Idle \in TaskValues
  BY DEF TaskValues
<1>. QED
  BY <1>1, <1>2 DEF TaskDone, IInv, TypeOK, OpCarriesConfig, MonitorOwned

(* Every step of the manager, the catch-up tasks and a sitter restart      *)
(* keeps the strengthened invariant.                                       *)
LEMMA NextIInv == IInv /\ [Next]_vars => IInv'
<1>. SUFFICES ASSUME IInv, [Next]_vars PROVE IInv'
  OBVIOUS
<1>. USE DEF IInv, TypeOK, OpCarriesConfig, MonitorOwned, AfterCancelPcs,
             mgrVars, fileVars, taskVars
<1>0. TypeOK /\ OpCarriesConfig /\ MonitorOwned
  OBVIOUS
<1>1. ASSUME NEW cfg \in Configs, reconfigure(cfg) PROVE IInv'
  <2>1. /\ Classify(cfg) \in Paths
        /\ FirstPc(Classify(cfg)) \in Pcs \ (AfterCancelPcs \cup {"none", "stop"})
    BY DEF Classify, FirstPc, AlreadyApplied, Paths, Pcs
  <2>2. CASE ~running
    BY <1>1, <2>2 DEF reconfigure
  <2>3. CASE running /\ Classify(cfg) = "updateStandby" /\ cfg.downstream = Nil
    BY <1>1, <2>3 DEF reconfigure
  <2>4. CASE running /\ ~(Classify(cfg) = "updateStandby" /\ cfg.downstream = Nil)
    <3>1. op' = [call |-> "reconfigure", path |-> Classify(cfg), pc |-> FirstPc(Classify(cfg)),
                 cfg |-> cfg, saved |-> op.saved]
      BY <1>1, <2>4 DEF reconfigure
    <3>2. op' \in Ops
      BY <3>1, <2>1 DEF Ops, Calls
    <3>. QED
      BY <1>1, <2>4, <3>1, <3>2, <2>1 DEF reconfigure
  <2>. QED
    BY <2>2, <2>3, <2>4
<1>2. CASE start
  <2>1. op' \in Ops
    BY <1>2 DEF start, Ops, Calls, Paths, Pcs
  <2>. QED
    BY <1>2, <2>1 DEF start
<1>3. CASE stop
  <2>1. op' \in Ops
    BY <1>3 DEF stop, Ops, Calls, Paths, Pcs
  <2>. QED
    BY <1>3, <2>1 DEF stop
<1>4. CASE StopStep
  BY <1>4, FinishKeeps, HandleTyped DEF StopStep
<1>5. CASE NoopStep
  <2>1. /\ op' \in Ops /\ op'.pc = "none"
        /\ pgConfig' \in Configs \cup {Nil}
        /\ appliedPgConfig' \in BOOLEAN /\ running' \in BOOLEAN
        /\ transitioning' \in BOOLEAN /\ reply' \in {"none", "ok", "error"}
    BY <1>5, FinishTyped DEF NoopStep
  <2>. QED
    BY <1>5, <2>1 DEF NoopStep
<1>6. CASE CancelTransitioning
  <2>1. CASE transitionFunc = Nil
    BY <1>6, <2>1, GotoKeeps DEF CancelTransitioning, Pcs
  <2>2. CASE transitionFunc # Nil
    <3>1. op' \in Ops /\ op'.pc = "awaitCancel" /\ op'.cfg = op.cfg /\ reply' = reply
      BY <1>6, <2>2, GotoTyped DEF CancelTransitioning, Pcs
    <3>2. tasks' \in [TaskSlots -> TaskValues]
      BY <1>6, <2>2 DEF CancelTransitioning, TaskValues, Idle
    <3>3. \A s \in TaskSlots : tasks'[s] # Idle => transitionFunc = s
      BY <1>6, <2>2 DEF CancelTransitioning
    <3>. QED
      BY <1>6, <2>2, <3>1, <3>2, <3>3 DEF CancelTransitioning
  <2>. QED
    BY <2>1, <2>2
<1>7. CASE AwaitCancel
  BY <1>7, GotoKeeps DEF AwaitCancel, Pcs
<1>8. CASE PrimaryInitDb
  BY <1>8, FinishKeeps, GotoKeeps, HandleTyped, ConfWithValues DEF PrimaryInitDb, Pcs
<1>9. CASE PrimaryDeleteRecoveryConf
  BY <1>9, FinishKeeps, GotoKeeps DEF PrimaryDeleteRecoveryConf, Pcs
<1>10. CASE PrimaryUpdateConfigs
  BY <1>10, FinishKeeps, GotoKeeps, ConfWithValues DEF PrimaryUpdateConfigs, Pcs
<1>11. CASE PrimaryRestart
  BY <1>11, FinishKeeps, GotoKeeps, HandleTyped DEF PrimaryRestart, Pcs
<1>12. CASE PrimarySnapshot
  BY <1>12, FinishKeeps, FinishWithCheckKeeps DEF PrimarySnapshot
<1>13. CASE UpdateStandbyUpdateConfigs
  <2>1. op.cfg.downstream \in Peers \cup {Nil}
    BY <1>13, ConfigFields DEF UpdateStandbyUpdateConfigs
  <2>. QED
    BY <1>13, <2>1, FinishKeeps, GotoKeeps, ConfWithValues DEF UpdateStandbyUpdateConfigs, Pcs
<1>14. CASE UpdateStandbySighup
  <2>1. CASE postgres = Nil
    BY <1>14, <2>1 DEF UpdateStandbySighup
  <2>2. CASE postgres # Nil
    <3>1. [postgres EXCEPT !.conf = conf] \in ProcValues
      BY <2>2 DEF ProcValues
    <3>. QED
      BY <1>14, <2>2, <3>1, FinishWithCheckKeeps DEF UpdateStandbySighup
  <2>. QED
    BY <2>1, <2>2
<1>15. CASE StandbyStopPostgres
  BY <1>15, FinishKeeps, GotoKeeps, HandleTyped DEF StandbyStopPostgres, Pcs
<1>16. CASE StandbyAssertDataset
  BY <1>16, FinishKeeps, GotoKeeps DEF StandbyAssertDataset, Pcs
<1>17. CASE StandbyUpdateConfigs
  <2>1. op.cfg.upstream \in Peers \cup {Nil}
    BY <1>17, ConfigFields DEF StandbyUpdateConfigs
  <2>. QED
    BY <1>17, <2>1, GotoKeeps, ConfWithValues
       DEF StandbyUpdateConfigs, UpdateConfigurations, ConfigurationsUpdated, Pcs
<1>18. CASE StandbyRestart
  BY <1>18, FinishKeeps, GotoKeeps, HandleTyped DEF StandbyRestart, Pcs
<1>19. CASE StandbyRestore
  <2>1. CASE op'.pc # "none"
    <3>1. /\ op' = [op EXCEPT !.pc = "updateConfigsAgain", !.saved = Files]
          /\ conf' \in ConfValues /\ recovery' \in Peers \cup {Nil}
          /\ UNCHANGED <<pgConfig, appliedPgConfig, running, transitioning, reply>>
      BY <1>19, <2>1 DEF StandbyRestore, Finish, IdleOp
    <3>2. Files \in FileValues
      BY DEF Files, FileValues
    <3>3. op' \in Ops /\ op'.pc = "updateConfigsAgain" /\ op'.cfg = op.cfg
      BY <3>1, <3>2 DEF Ops, Pcs
    <3>. QED
      BY <1>19, <3>1, <3>3 DEF StandbyRestore
  <2>2. CASE op'.pc = "none"
    <3>1. op' # [op EXCEPT !.pc = "updateConfigsAgain", !.saved = Files]
      BY <2>2 DEF Ops
    <3>2. /\ Finish(TRUE) /\ conf' \in ConfValues /\ recovery' \in Peers \cup {Nil}
          /\ UNCHANGED <<postgres, tasks, transitionFunc, thrown, verified>>
      BY <1>19, <3>1 DEF StandbyRestore
    <3>. QED
      BY <3>2, FinishKeeps
  <2>. QED
    BY <2>1, <2>2
<1>20. CASE StandbyUpdateConfigsAgain
  <2>1. op.cfg.upstream \in Peers \cup {Nil}
    BY <1>20, ConfigFields DEF StandbyUpdateConfigsAgain
  <2>. QED
    BY <1>20, <2>1, FinishKeeps, GotoKeeps, ConfWithValues
       DEF StandbyUpdateConfigsAgain, UpdateConfigurations, ConfigurationsUpdated, Pcs
<1>21. CASE StandbyRestartAgain
  <2>1. op.saved \in FileValues
    BY DEF Ops
  <2>. QED
    BY <1>21, <2>1, FinishKeeps, GotoKeeps, HandleTyped DEF StandbyRestartAgain, FileValues, Pcs
<1>22. CASE StandbyDestroyBackup
  BY <1>22, FinishKeeps DEF StandbyDestroyBackup
<1>23. ASSUME NEW s \in TaskSlots, CheckRepl(s) PROVE IInv'
  <2>1. tasks[s] \in TaskValues \ {Idle}
    BY <1>23 DEF CheckRepl, Idle
  <2>2. tasks[s].stdby \in Peers /\ tasks[s].stall \in 0 .. ReplTimeoutPolls
    BY <2>1 DEF TaskValues, Idle
  <2>3. CASE tasks' = [tasks EXCEPT ![s].stall = 0] /\ UNCHANGED <<transitionFunc, verified>>
    BY <1>23, <2>1, <2>3, ConstantsAssumption DEF CheckRepl, TaskValues, Idle
  <2>4. CASE /\ tasks' = [tasks EXCEPT ![s].phase = "enable"]
             /\ verified' = verified \cup {tasks[s].stdby}
             /\ UNCHANGED transitionFunc
    BY <1>23, <2>1, <2>2, <2>4 DEF CheckRepl, TaskValues, Idle
  <2>5. CASE /\ tasks[s].stall < ReplTimeoutPolls
             /\ tasks' = [tasks EXCEPT ![s].stall = @ + 1]
             /\ UNCHANGED <<transitionFunc, verified>>
    <3>1. tasks[s].stall + 1 \in 0 .. ReplTimeoutPolls
      BY <2>2, <2>5, ConstantsAssumption
    <3>. QED
      BY <1>23, <2>1, <2>5, <3>1 DEF CheckRepl, TaskValues, Idle
  <2>6. CASE TaskDone(s) /\ UNCHANGED verified
    BY <1>23, <2>1, <2>6, TaskDoneKeeps DEF CheckRepl
  <2>. QED
    BY <1>23, <2>3, <2>4, <2>5, <2>6 DEF CheckRepl
<1>24. ASSUME NEW s \in TaskSlots, EnableWrites(s) PROVE IInv'
  <2>1. tasks[s] \in TaskValues \ {Idle}
    BY <1>24 DEF EnableWrites, Idle
  <2>2. ConfWith([syncStandby |-> tasks[s].stdby]) \in ConfValues
    BY <2>1, ConfWithValues DEF TaskValues, Idle
  <2>3. CASE TaskDone(s) /\ UNCHANGED conf
    BY <1>24, <2>1, <2>3, TaskDoneKeeps DEF EnableWrites
  <2>4. CASE /\ conf' = ConfWith([syncStandby |-> tasks[s].stdby])
             /\ tasks' = [tasks EXCEPT ![s].phase = "sighup"]
             /\ UNCHANGED transitionFunc
    BY <1>24, <2>1, <2>2, <2>4 DEF EnableWrites, TaskValues, Idle
  <2>. QED
    BY <1>24, <2>3, <2>4 DEF EnableWrites
<1>25. ASSUME NEW s \in TaskSlots, TaskSighup(s) PROVE IInv'
  <2>1. tasks[s] \in TaskValues \ {Idle}
    BY <1>25 DEF TaskSighup, Idle
  <2>2. CASE postgres = Nil
    BY <1>25, <2>2 DEF TaskSighup
  <2>3. CASE postgres # Nil
    <3>1. [postgres EXCEPT !.conf = conf] \in ProcValues
      BY <2>3 DEF ProcValues
    <3>. QED
      BY <1>25, <2>1, <2>3, <3>1, TaskDoneKeeps DEF TaskSighup
  <2>. QED
    BY <2>2, <2>3
<1>26. CASE SitterRestart
  <2>1. IdleOp \in Ops /\ [s \in TaskSlots |-> Idle] \in [TaskSlots -> TaskValues]
    BY DEF Ops, IdleOp, Calls, Paths, Pcs, FileValues, ConfValues, Template, TaskValues
  <2>. QED
    BY <1>26, <2>1 DEF SitterRestart, IdleOp
<1>27. CASE UNCHANGED vars
  BY <1>27 DEF vars
<1>. QED
  BY <1>1, <1>2, <1>3, <1>4, <1>5, <1>6, <1>7, <1>8, <1>9, <1>10, <1>11, <1>12,
     <1>13, <1>14, <1>15, <1>16, <1>17, <1>18, <1>19, <1>20, <1>21, <1>22, <1>23,
     <1>24, <1>25, <1>26, <1>27
     DEF Next, PipelineStep, TaskStep

(* Every reachable state is well typed, every pipeline past its start     *)
(* carries a topology reconfigure() accepts, and every live catch-up task  *)
(* is the one self._transitionFunc names, none surviving a pipeline's      *)
(* _cancelTransitioning.                                                    *)
THEOREM IInvHolds == Spec => []IInv
<1>1. Init => IInv
  BY InitIInv
<1>2. IInv /\ [Next]_vars => IInv'
  BY NextIInv
<1>. QED
  BY <1>1, <1>2, PTL DEF Spec

(* Type correctness: every variable of the manager, its pipeline, its      *)
(* process handle and its catch-up tasks keeps the type the code gives it. *)
THEOREM TypeCorrect == Spec => []TypeOK
BY IInvHolds, PTL DEF IInv

(* The owner of every live task is _transitionFunc, so at most one is live. *)
LEMMA OwnedMeansOne == IInv => AtMostOneMonitor
<1>. SUFFICES ASSUME IInv PROVE AtMostOneMonitor
  OBVIOUS
<1>1. {s \in TaskSlots : tasks[s] # Idle} \subseteq {transitionFunc}
  BY DEF IInv, MonitorOwned
<1>2. IsFiniteSet({transitionFunc}) /\ Cardinality({transitionFunc}) = 1
  BY FS_Singleton
<1>. QED
  BY <1>1, <1>2, FS_Subset DEF AtMostOneMonitor

(* At most one catch-up monitor is ever alive, for any number of task      *)
(* slots: every pipeline awaits the 'done' of self._transitionFunc in      *)
(* _cancelTransitioning before _startReplCheck registers a new one.        *)
THEOREM MonitorUnique == Spec => []AtMostOneMonitor
BY IInvHolds, OwnedMeansOne, PTL


-----------------------------------------------------------------------------
(* The step TransitionFuncHandover allows: _transitionFunc set only with  *)
(* no task alive, cleared only with the task it names ended.              *)
Handover ==
    transitionFunc' # transitionFunc =>
        \/ transitionFunc = Nil /\ \A s \in TaskSlots : tasks[s] = Idle
        \/ transitionFunc' = Nil /\ tasks'[transitionFunc] = Idle

(* _startReplCheck, reached only past _cancelTransitioning, registers its *)
(* task with no other alive.                                               *)
LEMMA ReplCheckHandover ==
  ASSUME IInv, op.pc \in AfterCancelPcs, NEW stdby, StartReplCheck(stdby)
  PROVE  Handover
<1>1. transitionFunc = Nil /\ \A s \in TaskSlots : tasks[s] = Idle
  BY ConstantsAssumption DEF IInv, MonitorOwned
<1>. QED
  BY <1>1 DEF Handover

(* A task that ends is the one _transitionFunc names.                      *)
LEMMA TaskDoneHandover ==
  ASSUME IInv, NEW s \in TaskSlots, tasks[s] # Idle, TaskDone(s)
  PROVE  Handover
<1>1. transitionFunc = s /\ tasks \in [TaskSlots -> TaskValues]
  BY DEF IInv, MonitorOwned, TypeOK
<1>. QED
  BY <1>1 DEF TaskDone, Handover

(* The steps that leave _transitionFunc alone.                             *)
LEMMA QuietHandover ==
  ASSUME UNCHANGED transitionFunc PROVE Handover
BY DEF Handover

(* A task in a phase of its own is alive.                                  *)
LEMMA PhaseAlive ==
  ASSUME NEW s \in TaskSlots, tasks[s].phase \in {"check", "enable", "sighup"}
  PROVE  tasks[s] # Idle
BY DEF Idle

LEMMA StepHandover == IInv /\ [Next]_vars => Handover
<1>. SUFFICES ASSUME IInv, [Next]_vars PROVE Handover
  OBVIOUS
<1>1. ASSUME NEW cfg \in Configs, reconfigure(cfg) PROVE Handover
  BY <1>1, QuietHandover DEF reconfigure, taskVars
<1>2. CASE start \/ stop \/ StopStep \/ NoopStep \/ CancelTransitioning \/ AwaitCancel
  BY <1>2, QuietHandover
     DEF start, stop, StopStep, NoopStep, CancelTransitioning, AwaitCancel, taskVars
<1>3. CASE PrimaryInitDb \/ PrimaryDeleteRecoveryConf \/ PrimaryUpdateConfigs \/ PrimaryRestart
  BY <1>3, QuietHandover
     DEF PrimaryInitDb, PrimaryDeleteRecoveryConf, PrimaryUpdateConfigs, PrimaryRestart, taskVars
<1>4. CASE UpdateStandbyUpdateConfigs \/ StandbyStopPostgres \/ StandbyAssertDataset
           \/ StandbyUpdateConfigs \/ StandbyRestart
  BY <1>4, QuietHandover
     DEF UpdateStandbyUpdateConfigs, StandbyStopPostgres, StandbyAssertDataset,
         StandbyUpdateConfigs, StandbyRestart, taskVars
<1>5. CASE StandbyRestore \/ StandbyUpdateConfigsAgain \/ StandbyRestartAgain
           \/ StandbyDestroyBackup
  BY <1>5, QuietHandover
     DEF StandbyRestore, StandbyUpdateConfigsAgain, StandbyRestartAgain, StandbyDestroyBackup, taskVars
<1>6. CASE PrimarySnapshot
  <2>1. op.pc \in AfterCancelPcs
    BY <1>6 DEF PrimarySnapshot, AfterCancelPcs
  <2>. QED
    BY <1>6, <2>1, ReplCheckHandover, QuietHandover DEF PrimarySnapshot, taskVars
<1>7. CASE UpdateStandbySighup
  <2>1. op.pc \in AfterCancelPcs
    BY <1>7 DEF UpdateStandbySighup, AfterCancelPcs
  <2>. QED
    BY <1>7, <2>1, ReplCheckHandover, QuietHandover DEF UpdateStandbySighup, taskVars
<1>8. ASSUME NEW s \in TaskSlots, CheckRepl(s) \/ EnableWrites(s) \/ TaskSighup(s)
      PROVE  Handover
  <2>1. tasks[s] # Idle
    BY <1>8, PhaseAlive DEF CheckRepl, EnableWrites, TaskSighup
  <2>. QED
    BY <1>8, <2>1, TaskDoneHandover, QuietHandover DEF CheckRepl, EnableWrites, TaskSighup, taskVars
<1>9. CASE SitterRestart
  <2>1. transitionFunc \in TaskSlots \cup {Nil}
    BY DEF IInv, TypeOK
  <2>. QED
    BY <1>9, <2>1 DEF SitterRestart, Handover
<1>10. CASE UNCHANGED vars
  BY <1>10, QuietHandover DEF vars
<1>. QED
  BY <1>1, <1>2, <1>3, <1>4, <1>5, <1>6, <1>7, <1>8, <1>9, <1>10
     DEF Next, PipelineStep, TaskStep

(* self._transitionFunc is handed over and never overwritten or dropped,  *)
(* for any number of task slots: a pipeline registers a new catch-up task *)
(* only once the old one's 'done' has arrived, and the unconditional      *)
(* self._transitionFunc = null of a 'done' handler only ever runs for the *)
(* task it names.                                                          *)
THEOREM TransitionFuncHandedOver == Spec => TransitionFuncHandover
<1>1. IInv /\ [Next]_vars => [Handover]_vars
  BY StepHandover
<1>. QED
  BY <1>1, IInvHolds, PTL DEF Spec, TransitionFuncHandover, Handover

=============================================================================
