------------------------ MODULE PostgresMgrContract ------------------------
(***************************************************************************)
(* Proof that the replication state machine implements ManagerContract,    *)
(* for every set of peers, task slots and replication timeout: every step  *)
(* of a pipeline or of a catch-up task is invisible to the coordinator but *)
(* the one that completes the pipeline, and that one completes exactly the *)
(* call the mutex was taken for.                                           *)
(***************************************************************************)
EXTENDS PostgresMgrProofs

(* What the mutex and the pipeline record say of each other: an idle       *)
(* pipeline is the empty one; _transitioning is held exactly while a       *)
(* pipeline runs or after a reconfigure() threw before starting one; the   *)
(* "already applied" path is never taken.                                  *)
ContractShape ==
    /\ op.call = "idle" => op = IdleOp
    /\ transitioning <=> (op.call # "idle" \/ thrown = "nullDownstream")
    /\ thrown = "nullDownstream" => op.call = "idle"
    /\ op.path # "alreadyApplied"

(* The invariant of the refinement.                                        *)
CInv == IInv /\ ContractShape

(* A step that completes the pipeline.                                     *)
Done == \E e \in BOOLEAN : Finish(e)

(* A step invisible to the coordinator: the manager's fields, the reply    *)
(* and the call the pipeline runs, with its topology, are left alone.      *)
Quiet ==
    /\ UNCHANGED <<mgrVars, reply>>
    /\ op'.call = op.call /\ op'.cfg = op.cfg /\ op'.path = op.path

-----------------------------------------------------------------------------
(* A step of a pipeline moves its pc (and keeps the rest of the record).   *)
LEMMA GotoQuiet ==
  ASSUME op \in Ops, NEW pc, Goto(pc), UNCHANGED mgrVars
  PROVE  Quiet
BY DEF Goto, Ops, Quiet

LEMMA FinishDone ==
  ASSUME NEW e \in BOOLEAN, Finish(e) PROVE Done
BY DEF Done

(* Every pipeline step either completes the pipeline or is quiet; only a   *)
(* SIGHUP through a null handle throws.                                    *)
LEMMA PipelineShape ==
  ASSUME op \in Ops, PipelineStep
  PROVE  /\ op.pc # "none"
         /\ \/ Done /\ UNCHANGED thrown
            \/ Quiet /\ thrown' \in {thrown, "sighupNoProcess"}
<1>. USE FinishDone, GotoQuiet DEF mgrVars
<1>1. CASE StopStep \/ NoopStep
  BY <1>1 DEF StopStep, NoopStep
<1>2. CASE CancelTransitioning \/ AwaitCancel
  BY <1>2 DEF CancelTransitioning, AwaitCancel
<1>3. CASE PrimaryInitDb \/ PrimaryDeleteRecoveryConf
  BY <1>3 DEF PrimaryInitDb, PrimaryDeleteRecoveryConf
<1>4. CASE PrimaryUpdateConfigs \/ PrimaryRestart \/ PrimarySnapshot
  BY <1>4 DEF PrimaryUpdateConfigs, PrimaryRestart, PrimarySnapshot
<1>5. CASE UpdateStandbyUpdateConfigs
  BY <1>5 DEF UpdateStandbyUpdateConfigs
<1>6. CASE UpdateStandbySighup
  <2>1. CASE postgres = Nil
    BY <1>6, <2>1 DEF UpdateStandbySighup, Quiet
  <2>2. CASE postgres # Nil
    BY <1>6, <2>2 DEF UpdateStandbySighup
  <2>. QED
    BY <2>1, <2>2
<1>7. CASE StandbyStopPostgres \/ StandbyAssertDataset \/ StandbyUpdateConfigs
  BY <1>7 DEF StandbyStopPostgres, StandbyAssertDataset, StandbyUpdateConfigs
<1>8. CASE StandbyRestart \/ StandbyUpdateConfigsAgain \/ StandbyDestroyBackup
  BY <1>8 DEF StandbyRestart, StandbyUpdateConfigsAgain, StandbyDestroyBackup
<1>9. CASE StandbyRestore
  <2>1. CASE op' = [op EXCEPT !.pc = "updateConfigsAgain", !.saved = Files]
             /\ UNCHANGED reply /\ UNCHANGED mgrVars
    BY <1>9, <2>1 DEF StandbyRestore, Ops, Quiet
  <2>. QED
    BY <1>9, <2>1 DEF StandbyRestore
<1>10. CASE StandbyRestartAgain
  BY <1>10 DEF StandbyRestartAgain
<1>. QED
  BY <1>1, <1>2, <1>3, <1>4, <1>5, <1>6, <1>7, <1>8, <1>9, <1>10 DEF PipelineStep

(* A catch-up task step is quiet.                                          *)
LEMMA TaskShape ==
  ASSUME NEW s \in TaskSlots, TaskStep(s)
  PROVE  Quiet /\ op' = op /\ thrown' \in {thrown, "sighupNoProcess"}
BY DEF TaskStep, CheckRepl, EnableWrites, TaskSighup, TaskDone, Quiet, mgrVars, taskVars

(* reconfigure() never takes the "already applied" path.                   *)
LEMMA ClassifyPath ==
  ASSUME NEW cfg PROVE Classify(cfg) \in Paths \ {"alreadyApplied"}
BY DEF Classify, AlreadyApplied, Paths

LEMMA InitCInv == Init => CInv
BY InitIInv DEF Init, CInv, ContractShape, IdleOp

(* Every step keeps the mutex and the pipeline record in step.            *)
LEMMA NextCInv == CInv /\ [Next]_vars => CInv'
<1>. SUFFICES ASSUME CInv, [Next]_vars PROVE CInv'
  OBVIOUS
<1>0. IInv' /\ op \in Ops /\ (op.pc # "none" => op.call # "idle")
  BY NextIInv DEF CInv, IInv, TypeOK, ContractShape, IdleOp
<1>. SUFFICES ContractShape'
  BY <1>0 DEF CInv
<1>. USE <1>0 DEF CInv, ContractShape
<1>1. ASSUME NEW cfg \in Configs, thrown = "none", reconfigure(cfg) PROVE ContractShape'
  <2>1. CASE ~running
    BY <1>1, <2>1 DEF reconfigure
  <2>2. CASE running /\ Classify(cfg) = "updateStandby" /\ cfg.downstream = Nil
    BY <1>1, <2>2 DEF reconfigure
  <2>3. CASE running /\ ~(Classify(cfg) = "updateStandby" /\ cfg.downstream = Nil)
    BY <1>1, <2>3, ClassifyPath DEF reconfigure
  <2>. QED
    BY <2>1, <2>2, <2>3
<1>2. CASE thrown = "none" /\ (start \/ stop)
  BY <1>2 DEF start, stop
<1>3. CASE thrown = "none" /\ PipelineStep
  <2>1. op.pc # "none"
    BY <1>3, PipelineShape
  <2>2. CASE Done /\ UNCHANGED thrown
    BY <1>3, <2>2 DEF Done, Finish, IdleOp
  <2>3. CASE Quiet /\ thrown' \in {thrown, "sighupNoProcess"}
    BY <1>3, <2>1, <2>3 DEF Quiet, mgrVars
  <2>. QED
    BY <1>3, <2>2, <2>3, PipelineShape
<1>4. ASSUME NEW s \in TaskSlots, thrown = "none", TaskStep(s) PROVE ContractShape'
  BY <1>4, TaskShape DEF Quiet, mgrVars
<1>5. CASE SitterRestart
  BY <1>5 DEF SitterRestart, IdleOp
<1>6. CASE UNCHANGED vars
  BY <1>6 DEF vars
<1>. QED
  BY <1>1, <1>2, <1>3, <1>4, <1>5, <1>6 DEF Next


-----------------------------------------------------------------------------
(* A quiet step, by a pipeline or a task, with no reconfigure() throwing,  *)
(* is a stutter of the contract.                                           *)
LEMMA QuietStutters ==
  ASSUME Quiet, thrown = "none", thrown' \in {"none", "sighupNoProcess"}
  PROVE  UNCHANGED Contract!cvars
BY DEF Quiet, mgrVars, ContractCall, Contract!cvars

(* The step that completes a pipeline completes the contract's call, with  *)
(* the outcome the pipeline reports.                                       *)
LEMMA DoneCompletes ==
  ASSUME CInv, thrown = "none", UNCHANGED thrown, op.pc # "none",
         NEW e \in BOOLEAN, Finish(e)
  PROVE  Contract!Complete(~e)
<1>1. op \in Ops /\ op.call \in {"start", "stop", "reconfigure"} /\ op.path # "alreadyApplied"
  BY DEF CInv, IInv, TypeOK, ContractShape, Ops, Calls, IdleOp
<1>2. ContractCall = op.call /\ ContractCall' = "idle" /\ op'.cfg = Nil
  BY DEF Finish, ContractCall, IdleOp
<1>. QED
  BY <1>1, <1>2 DEF Finish, Contract!Complete

(* Every step of the manager is a step of its contract or a stutter.       *)
LEMMA StepRefines == CInv /\ [Next]_vars => [Contract!Next]_Contract!cvars
<1>. SUFFICES ASSUME CInv, [Next]_vars PROVE [Contract!Next]_Contract!cvars
  OBVIOUS
<1>1. ASSUME NEW cfg \in Configs, thrown = "none", reconfigure(cfg)
      PROVE  [Contract!Next]_Contract!cvars
  <2>1. CASE ~running
    <3>1. Contract!Store(cfg)
      BY <1>1, <2>1 DEF reconfigure, Contract!Store, ContractCall
    <3>. QED
      BY <3>1 DEF Contract!Next
  <2>2. CASE running /\ Classify(cfg) = "updateStandby" /\ cfg.downstream = Nil
    <3>1. Contract!Crash
      BY <1>1, <2>2 DEF reconfigure, Contract!Crash, ContractCall
    <3>. QED
      BY <3>1 DEF Contract!Next
  <2>3. CASE running /\ ~(Classify(cfg) = "updateStandby" /\ cfg.downstream = Nil)
    <3>1. Contract!Reconfigure(cfg)
      BY <1>1, <2>3 DEF reconfigure, Contract!Reconfigure, Contract!Begin, ContractCall
    <3>. QED
      BY <3>1 DEF Contract!Next
  <2>. QED
    BY <2>1, <2>2, <2>3
<1>2. CASE thrown = "none" /\ start
  <2>1. Contract!Start
    BY <1>2 DEF start, Contract!Start, Contract!Begin, ContractCall
  <2>. QED
    BY <2>1 DEF Contract!Next
<1>3. CASE thrown = "none" /\ stop
  <2>1. Contract!Stop
    BY <1>3 DEF stop, Contract!Stop, Contract!Begin, ContractCall
  <2>. QED
    BY <2>1 DEF Contract!Next
<1>4. CASE thrown = "none" /\ PipelineStep
  <2>1. op \in Ops
    BY DEF CInv, IInv, TypeOK
  <2>2. CASE Done /\ UNCHANGED thrown
    <3>1. PICK e \in BOOLEAN : Finish(e)
      BY <2>2 DEF Done
    <3>2. Contract!Complete(~e)
      BY <1>4, <2>1, <2>2, <3>1, PipelineShape, DoneCompletes
    <3>. QED
      BY <3>2 DEF Contract!Next
  <2>3. CASE Quiet /\ thrown' \in {thrown, "sighupNoProcess"}
    BY <1>4, <2>3, QuietStutters
  <2>. QED
    BY <1>4, <2>1, <2>2, <2>3, PipelineShape
<1>5. ASSUME NEW s \in TaskSlots, thrown = "none", TaskStep(s)
      PROVE  [Contract!Next]_Contract!cvars
  BY <1>5, TaskShape, QuietStutters
<1>6. CASE SitterRestart
  <2>1. Contract!Restart
    BY <1>6 DEF SitterRestart, Contract!Restart, ContractCall, IdleOp
  <2>. QED
    BY <2>1 DEF Contract!Next
<1>7. CASE UNCHANGED vars
  BY <1>7 DEF vars, ContractCall, Contract!cvars
<1>. QED
  BY <1>1, <1>2, <1>3, <1>4, <1>5, <1>6, <1>7 DEF Next

(* Spec sections 3 and 4.1, for every set of peers, task slots and         *)
(* replication timeout: the manager implements its contract.  Only start, *)
(* stop and a reconfigure() while running take _transitioning, and only   *)
(* the completion of that call, or a sitter restart, releases it; no step *)
(* of a pipeline or of a catch-up task in between changes _pgConfig,       *)
(* _appliedPgConfig, _running or the reply; and a completion records the  *)
(* very topology the call was made with, as applied only on success.      *)
THEOREM ContractRefined == Spec => ContractSpec
<1>1. Init => Contract!Init
  BY DEF Init, Contract!Init, ContractCall, IdleOp
<1>2. Spec => []CInv
  BY InitCInv, NextCInv, PTL DEF Spec
<1>. QED
  BY <1>1, <1>2, StepRefines, PTL DEF Spec, ContractSpec, Contract!Spec

=============================================================================
