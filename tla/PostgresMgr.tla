---------------------------- MODULE PostgresMgr ----------------------------
(***************************************************************************)
(* The replication state machine of lib/postgresMgr.js: reconfigure(),     *)
(* start(), stop(), the _reconfigure() classification, the three           *)
(* pipelines it runs (_primary, _updateStandby, _standby) and the          *)
(* background catch-up task (_waitForStandby around _checkRepl) that a     *)
(* primary leaves running after a topology change.                         *)
(*                                                                         *)
(* Every callback of the code is one action: a vasync pipeline step whose  *)
(* asynchronous result (success or each failure) is a nondeterministic     *)
(* choice, the steps a pipeline skips synchronously folded into the step   *)
(* before them.  The postgres process is seen through its handle and the   *)
(* settings it runs with; starting and stopping it are single steps here   *)
(* (their signal ladder and health polling belong to a module of their     *)
(* own).  Configuration files are abstracted to the keys the properties    *)
(* read: default_transaction_read_only and synchronous_standby_names in    *)
(* postgresql.conf, and the upstream named by primary_conninfo in          *)
(* recovery.conf.                                                          *)
(***************************************************************************)
EXTENDS Naturals, FiniteSets

CONSTANTS
    Peers,             \* peer identities (pgUrl/backupUrl pairs) of the shard
    Nil,               \* null / undefined
    OneNodeWriteMode,  \* options.oneNodeWriteMode
    ReplTimeoutPolls,  \* replicationTimeout, counted in 1s replication polls
    TaskSlots          \* bound on catch-up tasks alive at once

ASSUME ConstantsAssumption ==
    /\ Nil \notin Peers
    /\ OneNodeWriteMode \in BOOLEAN
    /\ ReplTimeoutPolls \in Nat
    /\ TaskSlots # {}
    /\ Nil \notin TaskSlots

Roles == {"primary", "sync", "async", "none"}

(* The topologies reconfigure() accepts: the shape its assertions check.   *)
Configs ==
    {c \in [role : Roles, upstream : Peers \cup {Nil}, downstream : Peers \cup {Nil}] :
        /\ c.role = "primary" => /\ c.upstream = Nil
                                 /\ OneNodeWriteMode => c.downstream = Nil
        /\ c.role \in {"sync", "async"} => c.upstream # Nil /\ c.downstream = Nil
        /\ c.role = "none" => c.upstream = Nil /\ c.downstream = Nil}

(* postgresql.conf, reduced to the two keys that decide whether a primary  *)
(* takes writes.  "template" is the value of the shipped default file.     *)
ConfValues == [readOnly : {"on", "template"}, syncStandby : Peers \cup {Nil}]
Template == [readOnly |-> "template", syncStandby |-> Nil]

(* _updatePgConf(updates): the shipped file with the given keys set; any  *)
(* key not in updates is back to its template value.                      *)
ConfWith(updates) ==
    [k \in DOMAIN Template |-> IF k \in DOMAIN updates THEN updates[k] ELSE Template[k]]

(* The two files of the data directory the model follows.                 *)
FileValues == [conf : ConfValues, recovery : Peers \cup {Nil}]

(* A child process handle: what the process runs with (postgresql.conf as *)
(* of its start or last SIGHUP, recovery.conf as of its start, which      *)
(* SIGHUP does not reload; recovery = Nil is a primary) and whether the    *)
(* process is still alive.  A handle whose 'exit' listener was removed    *)
(* outlives its process.                                                   *)
ProcValues == [conf : ConfValues, recovery : Peers \cup {Nil}, alive : BOOLEAN]

Idle == [phase |-> "idle"]
TaskValues == {Idle} \cup
    [stdby : Peers, phase : {"check", "enable", "sighup"}, stall : 0 .. ReplTimeoutPolls]

Calls == {"idle", "start", "stop", "reconfigure"}
Paths == {"none", "noop", "alreadyApplied", "primary", "updateStandby", "standby", "stop"}
Pcs == {"none", "cancel", "awaitCancel", "noop", "stop",
        "initDb", "deleteRecoveryConf", "updateConfigs", "restart", "snapshot",
        "sighup", "stopPostgres", "assertDataset", "restore",
        "updateConfigsAgain", "restartAgain", "destroyBackup"}
Ops == [call : Calls, path : Paths, pc : Pcs, cfg : Configs \cup {Nil}, saved : FileValues]
IdleOp == [call |-> "idle", path |-> "none", pc |-> "none", cfg |-> Nil,
           saved |-> [conf |-> Template, recovery |-> Nil]]

VARIABLES
    pgConfig,          \* self._pgConfig
    appliedPgConfig,   \* self._appliedPgConfig
    running,           \* self._running
    transitioning,     \* self._transitioning
    op,                \* the start/stop/reconfigure pipeline in progress
    postgres,          \* self._postgres: Nil, or what the live process runs with
    conf,              \* postgresql.conf in the data directory
    recovery,          \* recovery.conf: Nil when absent, else its upstream
    tasks,             \* catch-up tasks (_waitForStandby emitters) by slot
    transitionFunc,    \* self._transitionFunc: a slot of tasks, or Nil
    thrown,            \* an uncaught TypeError that ended the sitter
    reply,             \* what the last completed pipeline called back with
    verified           \* ghost: standbys _checkRepl has seen caught up

mgrVars  == <<pgConfig, appliedPgConfig, running, transitioning>>
fileVars == <<conf, recovery>>
taskVars == <<tasks, transitionFunc>>
vars == <<pgConfig, appliedPgConfig, running, transitioning, op, postgres,
          conf, recovery, tasks, transitionFunc, thrown, reply, verified>>

Files == [conf |-> conf, recovery |-> recovery]

TypeOK ==
    /\ pgConfig \in Configs \cup {Nil}
    /\ appliedPgConfig \in BOOLEAN
    /\ running \in BOOLEAN
    /\ transitioning \in BOOLEAN
    /\ op \in Ops
    /\ postgres \in ProcValues \cup {Nil}
    /\ conf \in ConfValues
    /\ recovery \in Peers \cup {Nil}
    /\ tasks \in [TaskSlots -> TaskValues]
    /\ transitionFunc \in TaskSlots \cup {Nil}
    /\ thrown \in {"none", "nullDownstream", "sighupNoProcess"}
    /\ reply \in {"none", "ok", "error"}
    /\ verified \subseteq Peers

(* The constructor: nothing configured, no child process.  The files are   *)
(* whatever a previous sitter left in the data directory.                  *)
Init ==
    /\ pgConfig = Nil
    /\ appliedPgConfig = FALSE
    /\ running = FALSE
    /\ transitioning = FALSE
    /\ op = IdleOp
    /\ postgres = Nil
    /\ conf \in ConfValues
    /\ recovery \in Peers \cup {Nil}
    /\ tasks = [s \in TaskSlots |-> Idle]
    /\ transitionFunc = Nil
    /\ thrown = "none"
    /\ reply = "none"
    /\ verified = {}

-----------------------------------------------------------------------------
(* Mutant: onReconfigure() records the topology as applied even when the  *)
(* pipeline failed.                                                        *)
FinishRecordsFailure(err) ==
    /\ op' = IdleOp
    /\ reply' = IF err THEN "error" ELSE "ok"
    /\ transitioning' = FALSE
    /\ IF op.call \in {"start", "reconfigure"} /\ op.path # "alreadyApplied"
          THEN pgConfig' = op.cfg /\ appliedPgConfig' = TRUE
          ELSE UNCHANGED <<pgConfig, appliedPgConfig>>
    /\ running' = CASE ~err /\ op.call = "start" -> TRUE
                    [] ~err /\ op.call = "stop"  -> FALSE
                    [] OTHER                     -> running

(* Completion of a pipeline: onReconfigure() when start/reconfigure, then  *)
(* the public method's callback, which clears _transitioning.              *)
Finish(err) ==
    /\ op' = IdleOp
    /\ reply' = IF err THEN "error" ELSE "ok"
    /\ transitioning' = FALSE
    /\ IF ~err /\ op.call \in {"start", "reconfigure"} /\ op.path # "alreadyApplied"
          THEN pgConfig' = op.cfg /\ appliedPgConfig' = TRUE
          ELSE UNCHANGED <<pgConfig, appliedPgConfig>>
    /\ running' = CASE ~err /\ op.call = "start" -> TRUE
                    [] ~err /\ op.call = "stop"  -> FALSE
                    [] OTHER                     -> running

Goto(pc) == op' = [op EXCEPT !.pc = pc] /\ UNCHANGED reply

(* A database that answers queries: only a live child here.               *)
LiveDb == postgres # Nil /\ postgres.alive

(* _stop(): done at once without a handle, and when 'exit' arrives.  It    *)
(* fails ('SIGKILL failed') when the process outlived SIGINT and SIGQUIT:  *)
(* the error fires right after SIGKILL, before 'exit' can arrive, and the  *)
(* exit listener is removed, so the handle stays set, to a process that    *)
(* SIGKILL may or may not have ended.  A handle whose process is already   *)
(* gone never sees 'exit' again: stopping it always fails.                 *)
StopOk == IF postgres = Nil THEN postgres' = Nil ELSE postgres.alive /\ postgres' = Nil
StopFailed ==
    /\ postgres # Nil
    /\ postgres' \in {postgres, [postgres EXCEPT !.alive = FALSE]}

(* _restart(): a health query; a live database is stopped first, then      *)
(* _start() spawns a new child and polls its health until opsTimeout.     *)
(* With no live database _start() may fail before it spawns anything      *)
(* (resolveVersionedPaths throws), leaving the handle as it was: Nil, or  *)
(* stale.                                                                  *)
Spawned(alive) == [conf |-> conf, recovery |-> recovery, alive |-> alive]
RestartOk == postgres' = Spawned(TRUE)
RestartFailed ==
    \/ LiveDb /\ StopFailed                       \* stopping the running one failed
    \/ postgres' = Nil                            \* the child exited, or timed out and was stopped
    \/ ~LiveDb /\ UNCHANGED postgres              \* _start() failed before spawning
    \/ \E a \in BOOLEAN : postgres' = Spawned(a)  \* timed out, and stopping it failed

FreeSlots == {s \in TaskSlots : tasks[s] = Idle}

(* _startReplCheck: a new _waitForStandby(stdby) registered as            *)
(* _transitionFunc; nothing when there is no standby.                      *)
StartReplCheck(stdby) ==
    IF stdby = Nil
    THEN UNCHANGED taskVars
    ELSE \E s \in FreeSlots :
            /\ tasks' = [tasks EXCEPT ![s] = [stdby |-> stdby, phase |-> "check", stall |-> 0]]
            /\ transitionFunc' = s

-----------------------------------------------------------------------------
(* The classification in _reconfigure(cfg).  The "already applied" test    *)
(* reads self._pgconfig, a property nothing assigns, so it never holds.    *)
AlreadyApplied(cfg) == FALSE

Classify(cfg) ==
    CASE cfg.role = "none" -> "noop"
      [] AlreadyApplied(cfg) -> "alreadyApplied"
      [] postgres # Nil /\ pgConfig # Nil /\ pgConfig.role = "primary"
            /\ cfg.role = "primary" -> "updateStandby"
      [] cfg.role = "primary" -> "primary"
      [] OTHER -> "standby"

FirstPc(path) ==
    CASE path = "noop" -> "noop"
      [] path = "alreadyApplied" -> "noop"
      [] OTHER -> "cancel"

(* reconfigure(pgConfig): store it when not running, else run it.  An      *)
(* update of a primary's standby reads downstream.pgUrl, which throws when *)
(* the new primary topology has no downstream.                             *)
reconfigure(cfg) ==
    /\ ~transitioning
    /\ IF ~running
       THEN /\ pgConfig' = cfg
            /\ appliedPgConfig' = FALSE
            /\ reply' = "ok"
            /\ UNCHANGED <<running, transitioning, op, postgres, fileVars, taskVars, thrown, verified>>
       ELSE LET path == Classify(cfg) IN
            /\ transitioning' = TRUE
            /\ IF path = "updateStandby" /\ cfg.downstream = Nil
                  THEN thrown' = "nullDownstream" /\ UNCHANGED op
                  ELSE op' = [call |-> "reconfigure", path |-> path, pc |-> FirstPc(path),
                              cfg |-> cfg, saved |-> op.saved] /\ UNCHANGED thrown
            /\ UNCHANGED <<pgConfig, appliedPgConfig, running, postgres, fileVars, taskVars, reply, verified>>

(* start(): _reconfigure() without a topology runs the full pipeline for   *)
(* the stored one.                                                         *)
start ==
    /\ ~transitioning
    /\ ~running
    /\ pgConfig # Nil
    /\ pgConfig.role # "none"
    /\ transitioning' = TRUE
    /\ op' = [call |-> "start", pc |-> "cancel", cfg |-> pgConfig, saved |-> op.saved,
              path |-> IF pgConfig.role = "primary" THEN "primary" ELSE "standby"]
    /\ UNCHANGED <<pgConfig, appliedPgConfig, running, postgres, fileVars, taskVars, thrown, reply, verified>>

(* stop(): _stop(), then _running = false.                                 *)
stop ==
    /\ ~transitioning
    /\ running
    /\ transitioning' = TRUE
    /\ op' = [call |-> "stop", path |-> "stop", pc |-> "stop", cfg |-> Nil, saved |-> op.saved]
    /\ UNCHANGED <<pgConfig, appliedPgConfig, running, postgres, fileVars, taskVars, thrown, reply, verified>>

StopStep ==
    /\ op.pc = "stop"
    /\ \/ StopOk /\ Finish(FALSE)
       \/ StopFailed /\ Finish(TRUE)
    /\ UNCHANGED <<fileVars, taskVars, thrown, verified>>

(* role none, and the already-applied branch: setImmediate(callback).     *)
NoopStep ==
    /\ op.pc = "noop"
    /\ Finish(FALSE)
    /\ UNCHANGED <<postgres, fileVars, taskVars, thrown, verified>>

-----------------------------------------------------------------------------
CancelTransitioning ==
    /\ op.pc = "cancel"
    /\ IF transitionFunc = Nil
          THEN Goto(IF op.path = "primary" THEN "initDb"
                    ELSE IF op.path = "updateStandby" THEN "updateConfigs"
                    ELSE "stopPostgres") /\ UNCHANGED tasks
          ELSE /\ Goto("awaitCancel")
               /\ tasks' = IF tasks[transitionFunc].phase = "check"
                              THEN [tasks EXCEPT ![transitionFunc].phase = "enable"]
                              ELSE tasks
    /\ UNCHANGED <<mgrVars, postgres, fileVars, transitionFunc, thrown, verified>>

(* Mutant: the pipeline moves on without waiting for 'done'.             *)
AwaitCancelNoWait ==
    /\ op.pc = "awaitCancel"
    /\ Goto(IF op.path = "primary" THEN "initDb"
            ELSE IF op.path = "updateStandby" THEN "updateConfigs"
            ELSE "stopPostgres")
    /\ UNCHANGED <<mgrVars, postgres, fileVars, taskVars, thrown, verified>>

AwaitCancel ==
    /\ op.pc = "awaitCancel"
    /\ transitionFunc = Nil
    /\ Goto(IF op.path = "primary" THEN "initDb"
            ELSE IF op.path = "updateStandby" THEN "updateConfigs"
            ELSE "stopPostgres")
    /\ UNCHANGED <<mgrVars, postgres, fileVars, taskVars, thrown, verified>>

-----------------------------------------------------------------------------
(* _primary(stdby)                                                         *)

(* _initDb: _stop, assert the dataset, stat/chown/chmod the data dir,      *)
(* initdb (its error ignored) and copy the shipped postgresql.conf in.     *)
PrimaryInitDb ==
    /\ op.pc = "initDb"
    /\ \/ StopFailed /\ Finish(TRUE) /\ UNCHANGED conf
       \/ StopOk /\ Finish(TRUE) /\ UNCHANGED conf
       \/ StopOk /\ Goto("deleteRecoveryConf") /\ conf' = Template /\ UNCHANGED mgrVars
    /\ UNCHANGED <<recovery, taskVars, thrown, verified>>

PrimaryDeleteRecoveryConf ==
    /\ op.pc = "deleteRecoveryConf"
    /\ \/ Goto("updateConfigs") /\ recovery' = Nil /\ UNCHANGED mgrVars
       \/ Finish(TRUE) /\ UNCHANGED recovery
    /\ UNCHANGED <<postgres, conf, taskVars, thrown, verified>>

(* read-only unless one-node-write mode.                                   *)
(* Mutant: READ_ONLY left out whatever the mode.                         *)
PrimaryUpdateConfigsNoReadOnly ==
    /\ op.pc = "updateConfigs"
    /\ op.path = "primary"
    /\ \/ Goto("restart") /\ conf' = Template /\ UNCHANGED mgrVars
       \/ Finish(TRUE) /\ UNCHANGED conf
    /\ UNCHANGED <<postgres, recovery, taskVars, thrown, verified>>

PrimaryUpdateConfigs ==
    /\ op.pc = "updateConfigs"
    /\ op.path = "primary"
    /\ \/ /\ Goto("restart")
          /\ conf' = IF OneNodeWriteMode THEN Template ELSE ConfWith([readOnly |-> "on"])
          /\ UNCHANGED mgrVars
       \/ Finish(TRUE) /\ UNCHANGED conf
    /\ UNCHANGED <<postgres, recovery, taskVars, thrown, verified>>

PrimaryRestart ==
    /\ op.pc = "restart"
    /\ op.path = "primary"
    /\ \/ RestartOk /\ Goto("snapshot") /\ UNCHANGED mgrVars
       \/ RestartFailed /\ Finish(TRUE)
    /\ UNCHANGED <<fileVars, taskVars, thrown, verified>>

(* createSnapshot, then _startReplCheck for the downstream if any.         *)
PrimarySnapshot ==
    /\ op.pc = "snapshot"
    /\ \/ StartReplCheck(op.cfg.downstream) /\ Finish(FALSE)
       \/ Finish(TRUE) /\ UNCHANGED taskVars
    /\ UNCHANGED <<postgres, fileVars, thrown, verified>>

-----------------------------------------------------------------------------
(* _updateStandby(stdby): rewrite the standby name, SIGHUP, new check.     *)

(* With a standby: its name, read-only; without one: read-only unless    *)
(* one-node-write mode.                                                    *)
UpdateStandbyUpdateConfigs ==
    /\ op.pc = "updateConfigs"
    /\ op.path = "updateStandby"
    /\ \/ /\ Goto("sighup")
          /\ conf' = IF op.cfg.downstream # Nil
                        THEN ConfWith([syncStandby |-> op.cfg.downstream, readOnly |-> "on"])
                     ELSE IF OneNodeWriteMode THEN Template
                        ELSE ConfWith([readOnly |-> "on"])
          /\ UNCHANGED mgrVars
       \/ Finish(TRUE) /\ UNCHANGED conf
    /\ UNCHANGED <<postgres, recovery, taskVars, thrown, verified>>

(* _sighup: self._postgres.kill('SIGHUP') throws when the handle is null.  *)
UpdateStandbySighup ==
    /\ op.pc = "sighup"
    /\ IF postgres = Nil
          THEN thrown' = "sighupNoProcess" /\ UNCHANGED <<mgrVars, op, postgres, taskVars, reply>>
          ELSE /\ postgres' = [postgres EXCEPT !.conf = conf]
               /\ StartReplCheck(op.cfg.downstream)
               /\ Finish(FALSE)
               /\ UNCHANGED thrown
    /\ UNCHANGED <<fileVars, verified>>

-----------------------------------------------------------------------------
(* _standby(primUrl, backupUrl)                                            *)

StandbyStopPostgres ==
    /\ op.pc = "stopPostgres"
    /\ \/ StopOk /\ Goto("assertDataset") /\ UNCHANGED mgrVars
       \/ StopFailed /\ Finish(TRUE)
    /\ UNCHANGED <<fileVars, taskVars, thrown, verified>>

StandbyAssertDataset ==
    /\ op.pc = "assertDataset"
    /\ \/ Goto("updateConfigs") /\ UNCHANGED mgrVars
       \/ Finish(TRUE)
    /\ UNCHANGED <<postgres, fileVars, taskVars, thrown, verified>>

(* updateConfigurations(): resolveVersionedPaths, primary_conninfo into    *)
(* recovery.conf, then synchronous_commit into postgresql.conf; any of     *)
(* them may fail after the earlier ones took effect.                       *)
UpdateConfigurations(upstream) ==
    \/ UNCHANGED fileVars                                  \* resolve or recovery.conf failed
    \/ recovery' = upstream /\ UNCHANGED conf               \* postgresql.conf failed
    \/ recovery' = upstream /\ conf' = Template             \* both written
ConfigurationsUpdated(upstream) == recovery' = upstream /\ conf' = Template

(* Mutant: a failed updateConfigurations() still restarts postgres.       *)
StandbyUpdateConfigsIgnoreError ==
    /\ op.pc = "updateConfigs"
    /\ op.path = "standby"
    /\ UpdateConfigurations(op.cfg.upstream)
    /\ Goto("restart")
    /\ UNCHANGED <<mgrVars, postgres, taskVars, thrown, verified>>

(* A failure sets _.isRestore and skips the restart.                       *)
StandbyUpdateConfigs ==
    /\ op.pc = "updateConfigs"
    /\ op.path = "standby"
    /\ UpdateConfigurations(op.cfg.upstream)
    /\ Goto(IF ConfigurationsUpdated(op.cfg.upstream) THEN "restart" ELSE "restore")
    /\ UNCHANGED <<mgrVars, postgres, taskVars, thrown, verified>>

(* Success skips every restore step: the transition is done.               *)
StandbyRestart ==
    /\ op.pc = "restart"
    /\ op.path = "standby"
    /\ \/ RestartOk /\ Finish(FALSE)
       \/ RestartFailed /\ Goto("restore") /\ UNCHANGED mgrVars
    /\ UNCHANGED <<fileVars, taskVars, thrown, verified>>

(* _zfsClient.restore(backupUrl) then chown: the data directory becomes    *)
(* the upstream's, files included.  On failure restoreDataset() rolls back *)
(* to the pre-restore snapshot; its own error is ignored, and a failed     *)
(* rollback leaves the files in any state.                                 *)
StandbyRestore ==
    /\ op.pc = "restore"
    /\ \/ /\ \E c \in ConfValues, r \in Peers \cup {Nil} : conf' = c /\ recovery' = r
          /\ op' = [op EXCEPT !.pc = "updateConfigsAgain", !.saved = Files]
          /\ UNCHANGED reply
          /\ UNCHANGED mgrVars
       \/ UNCHANGED fileVars /\ Finish(TRUE)
       \/ \E c \in ConfValues, r \in Peers \cup {Nil} : conf' = c /\ recovery' = r /\ Finish(TRUE)
    /\ UNCHANGED <<postgres, taskVars, thrown, verified>>

(* No rollback when this fails.                                            *)
StandbyUpdateConfigsAgain ==
    /\ op.pc = "updateConfigsAgain"
    /\ UpdateConfigurations(op.cfg.upstream)
    /\ IF ConfigurationsUpdated(op.cfg.upstream)
          THEN Goto("restartAgain") /\ UNCHANGED mgrVars
          ELSE Finish(TRUE)
    /\ UNCHANGED <<postgres, taskVars, thrown, verified>>

(* A failed restart rolls back to the pre-restore snapshot.                *)
StandbyRestartAgain ==
    /\ op.pc = "restartAgain"
    /\ \/ RestartOk /\ Goto("destroyBackup") /\ UNCHANGED <<mgrVars, fileVars>>
       \/ /\ RestartFailed
          /\ \/ conf' = op.saved.conf /\ recovery' = op.saved.recovery
             \/ \E c \in ConfValues, r \in Peers \cup {Nil} : conf' = c /\ recovery' = r
          /\ Finish(TRUE)
    /\ UNCHANGED <<taskVars, thrown, verified>>

(* exec('zfs destroy -r ...'): its failure fails the transition.           *)
StandbyDestroyBackup ==
    /\ op.pc = "destroyBackup"
    /\ \/ Finish(FALSE)
       \/ Finish(TRUE)
    /\ UNCHANGED <<postgres, fileVars, taskVars, thrown, verified>>

-----------------------------------------------------------------------------
(* The catch-up task of slot s: _checkRepl polls pg_stat_replication once  *)
(* a second; _waitForStandby then writes synchronous_standby_names (with   *)
(* read-only back to its template value) and sends SIGHUP.  Its 'done'     *)
(* handler sets self._transitionFunc = null.                               *)

TaskDone(s) ==
    /\ tasks' = [tasks EXCEPT ![s] = Idle]
    /\ transitionFunc' = Nil

(* One answer of _checkReplStatus: no status (query error, no row, an      *)
(* invalid LSN) or progress reset the timer; flush = sent emits 'done';    *)
(* no progress past replicationTimeout emits 'error', which ends the task. *)
(* Only a live database answers with a row.                                *)
(* Mutant: a poll without progress past the timeout keeps polling.       *)
CheckReplNoTimeout(s) ==
    /\ tasks[s].phase = "check"
    /\ \/ tasks' = [tasks EXCEPT ![s].stall = 0] /\ UNCHANGED <<transitionFunc, verified>>
       \/ /\ LiveDb
          /\ tasks' = [tasks EXCEPT ![s].phase = "enable"]
          /\ verified' = verified \cup {tasks[s].stdby}
          /\ UNCHANGED transitionFunc
       \/ /\ LiveDb
          /\ tasks' = [tasks EXCEPT ![s].stall = @ + 1]
          /\ UNCHANGED <<transitionFunc, verified>>
    /\ UNCHANGED <<mgrVars, op, postgres, fileVars, thrown, reply>>

CheckRepl(s) ==
    /\ tasks[s].phase = "check"
    /\ \/ tasks' = [tasks EXCEPT ![s].stall = 0] /\ UNCHANGED <<transitionFunc, verified>>
       \/ /\ LiveDb
          /\ tasks' = [tasks EXCEPT ![s].phase = "enable"]
          /\ verified' = verified \cup {tasks[s].stdby}
          /\ UNCHANGED transitionFunc
       \/ /\ LiveDb
          /\ tasks[s].stall < ReplTimeoutPolls
          /\ tasks' = [tasks EXCEPT ![s].stall = @ + 1]
          /\ UNCHANGED <<transitionFunc, verified>>
       \/ /\ LiveDb
          /\ tasks[s].stall = ReplTimeoutPolls
          /\ TaskDone(s)
          /\ UNCHANGED verified
    /\ UNCHANGED <<mgrVars, op, postgres, fileVars, thrown, reply>>

EnableWrites(s) ==
    /\ tasks[s].phase = "enable"
    /\ \/ /\ conf' = ConfWith([syncStandby |-> tasks[s].stdby])
          /\ tasks' = [tasks EXCEPT ![s].phase = "sighup"]
          /\ UNCHANGED transitionFunc
       \/ TaskDone(s) /\ UNCHANGED conf
    /\ UNCHANGED <<mgrVars, op, postgres, recovery, thrown, reply, verified>>

TaskSighup(s) ==
    /\ tasks[s].phase = "sighup"
    /\ IF postgres = Nil
          THEN thrown' = "sighupNoProcess" /\ UNCHANGED <<postgres, taskVars>>
          ELSE postgres' = [postgres EXCEPT !.conf = conf] /\ TaskDone(s) /\ UNCHANGED thrown
    /\ UNCHANGED <<mgrVars, op, fileVars, reply, verified>>

-----------------------------------------------------------------------------
(* An uncaught TypeError ends the sitter; its service restarter (outside   *)
(* this code) runs a new one, the old child process dying with it.  The    *)
(* files in the data directory persist.                                    *)
SitterRestart ==
    /\ thrown # "none"
    /\ pgConfig' = Nil
    /\ appliedPgConfig' = FALSE
    /\ running' = FALSE
    /\ transitioning' = FALSE
    /\ op' = IdleOp
    /\ postgres' = Nil
    /\ tasks' = [s \in TaskSlots |-> Idle]
    /\ transitionFunc' = Nil
    /\ thrown' = "none"
    /\ reply' = "none"
    /\ UNCHANGED <<fileVars, verified>>

PipelineStep ==
    \/ StopStep \/ NoopStep \/ CancelTransitioning \/ AwaitCancel
    \/ PrimaryInitDb \/ PrimaryDeleteRecoveryConf \/ PrimaryUpdateConfigs
    \/ PrimaryRestart \/ PrimarySnapshot
    \/ UpdateStandbyUpdateConfigs \/ UpdateStandbySighup
    \/ StandbyStopPostgres \/ StandbyAssertDataset \/ StandbyUpdateConfigs
    \/ StandbyRestart \/ StandbyRestore \/ StandbyUpdateConfigsAgain
    \/ StandbyRestartAgain \/ StandbyDestroyBackup

TaskStep(s) == CheckRepl(s) \/ EnableWrites(s) \/ TaskSighup(s)

Next ==
    \/ /\ thrown = "none"
       /\ \/ \E cfg \in Configs : reconfigure(cfg)
          \/ start \/ stop
          \/ PipelineStep
          \/ \E s \in TaskSlots : TaskStep(s)
    \/ SitterRestart

(* Every pending callback eventually runs: the event loop is fair to the   *)
(* pipeline and the timers of the catch-up task.  Coordinator calls are    *)
(* not assumed to happen.                                                  *)
Fairness ==
    /\ WF_vars(thrown = "none" /\ PipelineStep)
    /\ \A s \in TaskSlots : WF_vars(thrown = "none" /\ TaskStep(s))
    /\ WF_vars(SitterRestart)

Spec == Init /\ [][Next]_vars
FairSpec == Spec /\ Fairness
-----------------------------------------------------------------------------
(* The manager as its coordinator sees it.  A reconfigure() that threw     *)
(* shows as a crashed call holding the mutex; the pipeline in progress is  *)
(* the call, and the topology it carries the one it applies.               *)
ContractCall == IF thrown = "nullDownstream" THEN "crashed" ELSE op.call

Contract == INSTANCE ManagerContract
    WITH Topologies <- Configs, topology <- pgConfig, applied <- appliedPgConfig,
         call <- ContractCall, request <- op.cfg

(* Refinement (spec sections 3 and 4.1): the manager implements its        *)
(* contract.  Only start, stop and a reconfigure() while running take      *)
(* _transitioning, and only their completion (or a sitter restart)         *)
(* releases it; every pipeline step and catch-up task step in between      *)
(* leaves the public state alone; _pgConfig and _appliedPgConfig change    *)
(* only by a store while stopped, a successful start or reconfigure of the *)
(* topology it was given, or a restart; _running only by a successful      *)
(* start or stop.                                                          *)
ContractSpec == Contract!Spec

-----------------------------------------------------------------------------
(* Properties.                                                             *)

(* A live primary that takes writes: no recovery.conf at its start and     *)
(* read-only not forced on.                                                *)
PrimaryWritable ==
    /\ LiveDb
    /\ postgres.recovery = Nil
    /\ postgres.conf.readOnly # "on"

(* Outside one-node-write mode, a postgres running as a primary never      *)
(* takes writes without a synchronous standby named: _primary puts it      *)
(* read-only before restarting it, and only _waitForStandby, which names   *)
(* the standby in the same write, lifts that.                              *)
NoUnprotectedWrites ==
    PrimaryWritable /\ ~OneNodeWriteMode => postgres.conf.syncStandby # Nil

(* At most one catch-up task is alive: each pipeline cancels and awaits    *)
(* the previous _transitionFunc before it registers a new one.             *)
AtMostOneMonitor ==
    Cardinality({s \in TaskSlots : tasks[s] # Idle}) <= 1

(* self._transitionFunc is handed over, never overwritten or dropped: it  *)
(* is set to a new catch-up task only when no task is alive and none is    *)
(* registered (_cancelTransitioning awaited the old one's 'done'), and it  *)
(* is cleared only when the very task it names ends -- the 'done' handler  *)
(* at line 1078 clears it without checking whose 'done' it is -- or when   *)
(* the sitter restarts.                                                    *)
TransitionFuncHandover ==
    [][ transitionFunc' # transitionFunc =>
          \/ transitionFunc = Nil /\ \A s \in TaskSlots : tasks[s] = Idle
          \/ transitionFunc' = Nil /\ tasks'[transitionFunc] = Idle ]_vars

SuccessMeansInPlace ==
    [][ /\ op.call \in {"start", "reconfigure"} /\ op.cfg # Nil
        /\ op.cfg.role # "none"
        /\ op' = IdleOp /\ reply' = "ok"
        => postgres' # Nil /\ postgres'.alive /\ postgres'.recovery = op.cfg.upstream ]_vars

(* spec 4.3: synchronous_standby_names is written, and read-only lifted,   *)
(* only for a standby the monitor saw caught up.                           *)
WritesOnlyAfterCatchUp ==
    PrimaryWritable /\ ~OneNodeWriteMode => postgres.conf.syncStandby \in verified

(* spec 3: running is true only while the child process handle is live.    *)
RunningImpliesHandle ==
    running /\ ~transitioning => LiveDb

(* spec 4.1: a topology is recorded as applied only when fully applied, so *)
(* an applied standby topology has recovery.conf pointing at its upstream. *)
AppliedMeansInPlace ==
    /\ ~transitioning /\ appliedPgConfig /\ pgConfig # Nil
    /\ pgConfig.role \in {"sync", "async"}
    => recovery = pgConfig.upstream

(* spec 8: reconfiguring to the applied topology while running neither     *)
(* restarts postgres nor rewrites its configuration.                       *)
IdempotentReconfigure ==
    /\ op.call = "reconfigure" /\ running /\ appliedPgConfig /\ op.cfg = pgConfig
    => op.path \in {"noop", "alreadyApplied"}

(* spec 4.1a: a primary whose new topology has no standby is updated, not *)
(* crashed: _reconfigure never dereferences a null downstream.             *)
NoNullDownstreamThrow == thrown # "nullDownstream"

(* spec 5: the process handle is signalled only while it exists; no SIGHUP *)
(* is sent through a null self._postgres.                                  *)
NoSighupWithoutProcess == thrown # "sighupNoProcess"
=============================================================================
