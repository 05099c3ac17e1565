-------------------------- MODULE ReleaseUpgradeProofs --------------------------
(***************************************************************************)
(* What the two operation files of an upgrade record is true, for any      *)
(* number of commits, crashes and repeated commands.  The invariant        *)
(* relates the step at which a command stands to the state file that a     *)
(* command started after its death will find.                              *)
(***************************************************************************)
EXTENDS ReleaseUpgrade, TLAPS

PositiveBound == MaxSets \in Nat \ {0}

-------------------------------------------------------------------------------
(* The solution upgrader. *)

Unprepared == op.status \in {"none", "preparing"}

(* Until it is prepared, an operation has nothing to undo. *)
UnpreparedInv ==
    /\ Unprepared =>
          /\ step \in {"idle", "staging", "previewing"}
          /\ op.source = NoBundle
          /\ ~op.started
          /\ \A i \in 1..Len(sets) : ~sets[i].upgrade
    /\ ~Unprepared => op.source \in Bundle

(* Only a command of an unprepared operation stands at a step of prepare. *)
PrepareInv == step \in {"staging", "previewing"} => Unprepared

(* started means that the runtime has accepted the target. *)
StartedInv ==
    /\ op.started => op.target \in accepted
    /\ step \in {"installing", "closing"} => op.started
    /\ op.status = "applied" => op.started
    /\ ~op.started => files = "old"

(* No command is under way on an operation that was rolled back. *)
RolledBackInv == op.status = "rolled_back" => step = "idle" /\ files = "old"

SolutionInv ==
    /\ SolutionType
    /\ AppliedBundle \in accepted
    /\ UnpreparedInv
    /\ PrepareInv
    /\ StartedInv
    /\ RolledBackInv
    /\ UpgradeExtendsSource

LEMMA SolutionInitInv ==
  ASSUME PositiveBound, SolutionInit PROVE SolutionInv
<1>1. SolutionType
  BY DEF PositiveBound, SolutionInit, SolutionType, AssignmentSet, Bundle, NoBundle,
         Operation, OpStatus, Files, CommandStep
<1> QED
  BY <1>1 DEF SolutionInit, SolutionInv, AppliedBundle, UnpreparedInv, Unprepared,
              PrepareInv, StartedInv, RolledBackInv, UpgradeExtendsSource

(* A commit appends a set to the history and leaves the applied one alone. *)
LEMMA CommitKeeps ==
  ASSUME PositiveBound, SolutionInv, NEW bundle \in Bundle, NEW upgrade \in BOOLEAN,
         CommitSet(bundle, upgrade)
  PROVE  /\ sets' \in Seq(AssignmentSet)
         /\ Len(sets') = Len(sets) + 1
         /\ Len(sets') \in 1..MaxSets
         /\ \A i \in 1..Len(sets) : sets'[i] = sets[i]
         /\ sets'[Len(sets) + 1] = [bundle |-> bundle, upgrade |-> upgrade]
         /\ row' \in [applied : 1..MaxSets,
                      state : {"pending", "applied", "failed", "operator_required"}]
         /\ row'.applied = row.applied
         /\ AppliedBundle' = AppliedBundle
<1>1. sets \in Seq(AssignmentSet) /\ Len(sets) \in 1..MaxSets /\ row.applied <= Len(sets)
      /\ row \in [applied : 1..MaxSets,
                  state : {"pending", "applied", "failed", "operator_required"}]
  BY DEF SolutionInv, SolutionType
<1>2. [bundle |-> bundle, upgrade |-> upgrade] \in AssignmentSet
  BY DEF AssignmentSet
<1>3. sets' = Append(sets, [bundle |-> bundle, upgrade |-> upgrade])
      /\ row' = [row EXCEPT !.state = "pending"] /\ Len(sets) < MaxSets
  BY DEF CommitSet
<1>4. row.applied \in 1..Len(sets)
  BY <1>1
<1>5. /\ sets' \in Seq(AssignmentSet)
      /\ Len(sets') = Len(sets) + 1
      /\ \A i \in 1..Len(sets) : sets'[i] = sets[i]
      /\ sets'[Len(sets) + 1] = [bundle |-> bundle, upgrade |-> upgrade]
  BY <1>1, <1>2, <1>3
<1>6. row'.applied = row.applied
      /\ row' \in [applied : 1..MaxSets,
                   state : {"pending", "applied", "failed", "operator_required"}]
  BY <1>1, <1>3
<1> QED BY <1>1, <1>3, <1>4, <1>5, <1>6 DEF AppliedBundle, PositiveBound

(* A commit that is no upgrade, whatever the command then does. *)
LEMMA PlainCommit ==
  ASSUME PositiveBound, SolutionInv, NEW bundle \in Bundle,
         CommitSet(bundle, FALSE), UNCHANGED <<accepted, op, files>>,
         step' = step \/ (step = "reverting" /\ step' = "recordingRollback")
  PROVE  SolutionInv'
<1>1. /\ sets' \in Seq(AssignmentSet)
      /\ Len(sets') = Len(sets) + 1
      /\ Len(sets') \in 1..MaxSets
      /\ \A i \in 1..Len(sets) : sets'[i] = sets[i]
      /\ sets'[Len(sets) + 1] = [bundle |-> bundle, upgrade |-> FALSE]
      /\ row' \in [applied : 1..MaxSets,
                   state : {"pending", "applied", "failed", "operator_required"}]
      /\ row'.applied = row.applied
      /\ AppliedBundle' = AppliedBundle
  BY CommitKeeps
<1>2. Len(sets) \in 1..MaxSets /\ Len(sets) \in Nat
  BY DEF SolutionInv, SolutionType
<1>3. SolutionType'
  BY <1>1, <1>2 DEF SolutionInv, SolutionType, CommandStep
<1>4. UpgradeExtendsSource'
  <2> SUFFICES ASSUME NEW i \in 1..Len(sets'), sets'[i].upgrade
               PROVE  i > 1 /\ sets'[i - 1].bundle = op'.source
    BY DEF UpgradeExtendsSource
  <2>1. i \in 1..Len(sets) /\ sets[i].upgrade
    BY <1>1, <1>2
  <2>2. i > 1 /\ sets[i - 1].bundle = op.source
    BY <2>1 DEF SolutionInv, UpgradeExtendsSource
  <2> QED BY <1>1, <1>2, <2>1, <2>2
<1>5. \A i \in 1..Len(sets') : i \in 1..Len(sets) \/ sets'[i].upgrade = FALSE
  BY <1>1, <1>2
<1>6. UnpreparedInv' /\ PrepareInv'
  BY <1>1, <1>5 DEF SolutionInv, UnpreparedInv, PrepareInv, Unprepared
<1>7. StartedInv' /\ RolledBackInv'
  BY DEF SolutionInv, StartedInv, RolledBackInv
<1> QED BY <1>1, <1>3, <1>4, <1>6, <1>7 DEF SolutionInv

(* The edits of operators and the synchronizer's passes. *)
LEMMA DeploymentKeeps ==
  ASSUME PositiveBound, SolutionInv, Deployment PROVE SolutionInv'
<1>1. Len(sets) \in 1..MaxSets /\ sets \in Seq(AssignmentSet)
      /\ Desired \in Bundle /\ MaxSets \in Nat
  <2>1. sets \in Seq(AssignmentSet) /\ Len(sets) \in 1..MaxSets /\ MaxSets \in Nat
    BY DEF SolutionInv, SolutionType, PositiveBound
  <2>2. sets[Len(sets)] \in AssignmentSet
    BY <2>1
  <2> QED BY <2>1, <2>2 DEF Desired, AssignmentSet
<1>2. CASE Edit
  <2>1. CommitSet([sha |-> Len(sets) + 1, image |-> Desired.image], FALSE)
        /\ UNCHANGED <<accepted, op, files, step>>
    BY <1>2 DEF Edit
  <2>2. [sha |-> Len(sets) + 1, image |-> Desired.image] \in Bundle
    BY <1>1 DEF Bundle
  <2> QED BY <2>1, <2>2, PlainCommit
<1>3. CASE SyncApplied
  <2>1. SolutionType' /\ AppliedBundle' \in accepted'
    BY <1>1, <1>3 DEF SolutionInv, SolutionType, SyncApplied, AppliedBundle, Desired
  <2>2. accepted \subseteq accepted' /\ UNCHANGED <<sets, op, files, step>>
    BY <1>3 DEF SyncApplied
  <2>3. UnpreparedInv' /\ PrepareInv' /\ StartedInv' /\ RolledBackInv'
        /\ UpgradeExtendsSource'
    BY <2>2 DEF SolutionInv, UnpreparedInv, PrepareInv, Unprepared, StartedInv,
                RolledBackInv, UpgradeExtendsSource
  <2> QED BY <2>1, <2>3 DEF SolutionInv
<1>4. CASE SyncFailed
  <2>1. /\ row' \in [applied : 1..MaxSets,
                     state : {"pending", "applied", "failed", "operator_required"}]
        /\ row'.applied = row.applied
        /\ UNCHANGED <<sets, accepted, op, files, step>>
    BY <1>4 DEF SolutionInv, SolutionType, SyncFailed
  <2>2. SolutionType' /\ AppliedBundle' \in accepted'
    BY <2>1 DEF SolutionInv, SolutionType, AppliedBundle
  <2>3. UnpreparedInv' /\ PrepareInv' /\ StartedInv' /\ RolledBackInv'
        /\ UpgradeExtendsSource'
    BY <2>1 DEF SolutionInv, UnpreparedInv, PrepareInv, Unprepared, StartedInv,
                RolledBackInv, UpgradeExtendsSource
  <2> QED BY <2>2, <2>3 DEF SolutionInv
<1> QED BY <1>2, <1>3, <1>4 DEF Deployment

(* Steps of the upgrader that leave the deployment alone. *)
LEMMA OwnStep ==
  ASSUME SolutionInv, UNCHANGED deploymentVars,
         op' \in Operation, files' \in Files, step' \in CommandStep,
         op'.source = op.source \/ Unprepared,
         UnpreparedInv', PrepareInv', StartedInv', RolledBackInv'
  PROVE  SolutionInv'
<1>1. SolutionType' /\ AppliedBundle' \in accepted'
  BY DEF SolutionInv, SolutionType, AppliedBundle, deploymentVars
<1>2. UpgradeExtendsSource'
  BY DEF SolutionInv, UnpreparedInv, UpgradeExtendsSource, deploymentVars
<1> QED BY <1>1, <1>2 DEF SolutionInv

LEMMA PrepareSteps ==
  ASSUME PositiveBound, SolutionInv, PrepareStart \/ Stage \/ Preview
  PROVE  SolutionInv'
<1>1. PrepareStart => SolutionInv'
  <2> SUFFICES ASSUME PrepareStart PROVE SolutionInv'
    OBVIOUS
  <2>1. op' = op /\ files' = files /\ UNCHANGED deploymentVars
        /\ Unprepared /\ step' \in {"staging", "previewing"}
    BY DEF PrepareStart, Unprepared
  <2> QED
    BY <2>1, OwnStep DEF SolutionInv, SolutionType, CommandStep, UnpreparedInv, Unprepared,
                         PrepareInv, StartedInv, RolledBackInv, deploymentVars
<1>2. Stage => SolutionInv'
  <2> SUFFICES ASSUME Stage PROVE SolutionInv'
    OBVIOUS
  <2>1. Unprepared /\ op \in Operation
    BY DEF Stage, SolutionInv, SolutionType, PrepareInv
  <2>2. /\ op' \in Operation /\ op'.status = "preparing" /\ op'.source = op.source
        /\ op'.target = op.target /\ op'.started = op.started
        /\ files' = files /\ step' = "previewing" /\ UNCHANGED deploymentVars
    BY <2>1 DEF Stage, Operation, OpStatus
  <2> QED
    BY <2>1, <2>2, OwnStep
    DEF SolutionInv, SolutionType, CommandStep, UnpreparedInv, Unprepared, PrepareInv,
        StartedInv, RolledBackInv, deploymentVars
<1>3. Preview => SolutionInv'
  <2> SUFFICES ASSUME Preview PROVE SolutionInv'
    OBVIOUS
  <2>1. Unprepared /\ op \in Operation /\ ~op.started /\ files = "old"
    BY DEF Preview, SolutionInv, SolutionType, PrepareInv, UnpreparedInv, StartedInv
  <2>2. AppliedBundle \in Bundle /\ Candidate \in Bundle
    <3>1. Len(sets) \in 1..MaxSets /\ MaxSets \in Nat /\ accepted \subseteq Bundle
          /\ AppliedBundle \in accepted
      BY DEF SolutionInv, SolutionType, PositiveBound
    <3> QED BY <3>1 DEF Candidate, Bundle
  <2>3. /\ op' \in Operation /\ op'.status = "prepared" /\ op'.started = op.started
        /\ op'.source \in Bundle
        /\ files' = files /\ step' = "idle" /\ UNCHANGED deploymentVars
    BY <2>1, <2>2 DEF Preview, Operation, OpStatus
  <2> QED
    BY <2>1, <2>3, OwnStep
    DEF SolutionInv, SolutionType, CommandStep, UnpreparedInv, Unprepared, PrepareInv,
        StartedInv, RolledBackInv, deploymentVars
<1> QED BY <1>1, <1>2, <1>3

(* The upgrade is posted at once, or its set is already there. *)
LEMMA PostSteps ==
  ASSUME PositiveBound, SolutionInv, PostUpgrade \/ PostRollback
  PROVE  SolutionInv'
<1>1. step \in {"posting", "reverting"} => ~Unprepared /\ op.status # "rolled_back"
  BY DEF SolutionInv, UnpreparedInv, RolledBackInv
<1>2. op \in Operation /\ Len(sets) \in 1..MaxSets /\ MaxSets \in Nat
  BY DEF SolutionInv, SolutionType, PositiveBound
<1>3. ASSUME UNCHANGED <<deploymentVars, op, files>>, step \in {"posting", "reverting"},
             step' \in {"recording", "waitingRollback"}
      PROVE  SolutionInv'
  <2>1. op' = op /\ files' = files /\ UNCHANGED deploymentVars
    BY <1>3
  <2> QED
    BY <1>1, <1>3, <2>1, OwnStep
    DEF SolutionInv, SolutionType, CommandStep, UnpreparedInv, Unprepared, PrepareInv,
        StartedInv, RolledBackInv, deploymentVars
<1>4. ASSUME PostUpgrade, CandidateUnchanged, CommitSet(op.target, TRUE)
      PROVE  SolutionInv'
  <2>1. op.target \in Bundle
    <3>1. op.target \in Bundle \cup {NoBundle} /\ op.target.sha = Len(sets) + 1
      BY <1>2, <1>4 DEF CandidateUnchanged, Operation
    <3> QED BY <1>2, <3>1 DEF NoBundle
  <2>2. /\ sets' \in Seq(AssignmentSet)
        /\ Len(sets') = Len(sets) + 1
        /\ Len(sets') \in 1..MaxSets
        /\ \A i \in 1..Len(sets) : sets'[i] = sets[i]
        /\ row' \in [applied : 1..MaxSets,
                     state : {"pending", "applied", "failed", "operator_required"}]
        /\ row'.applied = row.applied
        /\ AppliedBundle' = AppliedBundle
    BY <1>4, <2>1, CommitKeeps
  <2>3. step = "posting" /\ step' = "recording" /\ UNCHANGED <<accepted, op, files>>
    BY <1>4 DEF PostUpgrade
  <2>4. SolutionType'
    BY <1>2, <2>2, <2>3 DEF SolutionInv, SolutionType, CommandStep
  <2>5. sets[Len(sets)].bundle = op.source
    BY <1>4 DEF CandidateUnchanged, Stable, AppliedBundle
  <2>6. UpgradeExtendsSource'
    <3> SUFFICES ASSUME NEW i \in 1..Len(sets'), sets'[i].upgrade
                 PROVE  i > 1 /\ sets'[i - 1].bundle = op'.source
      BY DEF UpgradeExtendsSource
    <3>1. CASE i = Len(sets) + 1
      BY <1>2, <2>2, <2>3, <2>5, <3>1
    <3>2. CASE i \in 1..Len(sets)
      <4>1. i > 1 /\ sets[i - 1].bundle = op.source
        BY <2>2, <3>2 DEF SolutionInv, UpgradeExtendsSource
      <4> QED BY <1>2, <2>2, <2>3, <3>2, <4>1
    <3> QED BY <1>2, <2>2, <3>1, <3>2
  <2>7. UnpreparedInv' /\ PrepareInv' /\ StartedInv' /\ RolledBackInv'
    BY <1>1, <2>3 DEF SolutionInv, UnpreparedInv, Unprepared, PrepareInv, StartedInv,
                      RolledBackInv
  <2> QED BY <2>2, <2>3, <2>4, <2>6, <2>7 DEF SolutionInv
<1>5. ASSUME PostRollback, CommitSet(op.source, FALSE), op.status # "rolling_back"
      PROVE  SolutionInv'
  <2>1. op.source \in Bundle
    BY <1>1, <1>5 DEF PostRollback, SolutionInv, UnpreparedInv
  <2> QED BY <1>5, <2>1, PlainCommit DEF PostRollback
<1> QED
  BY <1>3, <1>4, <1>5 DEF PostUpgrade, PostRollback, deploymentVars

(* Steps of activate and rollback that do not touch the deployment. *)
LEMMA LaterSteps ==
  ASSUME SolutionInv, UNCHANGED deploymentVars, ~Unprepared,
         op' \in Operation, files' \in Files,
         step' \in CommandStep \ {"staging", "previewing"},
         op'.source = op.source, op'.target = op.target,
         op'.status \notin {"none", "preparing"},
         StartedInv', RolledBackInv'
  PROVE  SolutionInv'
<1>1. UnpreparedInv' /\ PrepareInv'
  BY DEF SolutionInv, SolutionType, UnpreparedInv, Unprepared, PrepareInv
<1> QED BY <1>1, OwnStep

LEMMA ActivateSteps ==
  ASSUME SolutionInv,
         \/ ActivateStart \/ RecordActivating \/ ActivationApplied
         \/ ActivationRefused \/ ActivationTimeout \/ InstallPipeline
  PROVE  SolutionInv'
<1>1. op \in Operation /\ files \in Files /\ step \in CommandStep
  BY DEF SolutionInv, SolutionType
<1>2. StartedInv /\ RolledBackInv
  BY DEF SolutionInv
<1>3. step \notin {"idle", "staging", "previewing"} =>
        ~Unprepared /\ op.status # "rolled_back"
  BY DEF SolutionInv, UnpreparedInv, RolledBackInv
<1>4. ActivateStart => SolutionInv'
  <2> SUFFICES ASSUME ActivateStart PROVE SolutionInv'
    OBVIOUS
  <2>1. ~Unprepared /\ op.status # "rolled_back" /\ op' = op /\ files' = files
        /\ step' = "posting" /\ UNCHANGED deploymentVars
    BY DEF ActivateStart, Unprepared
  <2> QED
    BY <1>1, <1>2, <2>1, LaterSteps
    DEF CommandStep, Unprepared, StartedInv, RolledBackInv, deploymentVars
<1>5. RecordActivating => SolutionInv'
  <2> SUFFICES ASSUME RecordActivating PROVE SolutionInv'
    OBVIOUS
  <2>1. /\ op' \in Operation /\ op'.status = "activating" /\ op'.source = op.source
        /\ op'.target = op.target /\ op'.started = op.started
        /\ ~Unprepared /\ files' = files
        /\ step' = "waiting" /\ UNCHANGED deploymentVars
    BY <1>1, <1>3 DEF RecordActivating, Operation, OpStatus
  <2> QED
    BY <1>1, <1>2, <2>1, LaterSteps
    DEF CommandStep, StartedInv, RolledBackInv, deploymentVars
<1>6. ActivationApplied => SolutionInv'
  <2> SUFFICES ASSUME ActivationApplied PROVE SolutionInv'
    OBVIOUS
  <2>1. /\ op' \in Operation /\ op'.status = "finalizing" /\ op'.source = op.source
        /\ op'.target = op.target /\ op'.started
        /\ ~Unprepared /\ files' = files
        /\ step' = "installing" /\ UNCHANGED deploymentVars
    BY <1>1, <1>3 DEF ActivationApplied, Operation, OpStatus
  <2>2. op.target \in accepted
    BY DEF ActivationApplied, IsApplied, SolutionInv
  <2> QED
    BY <1>1, <2>1, <2>2, LaterSteps
    DEF CommandStep, StartedInv, RolledBackInv, deploymentVars
<1>7. ActivationRefused \/ ActivationTimeout => SolutionInv'
  <2> SUFFICES ASSUME ActivationRefused \/ ActivationTimeout PROVE SolutionInv'
    OBVIOUS
  <2>1. /\ op' \in Operation /\ op'.status \in {"activation_failed", "activation_timeout"}
        /\ op'.source = op.source
        /\ op'.target = op.target /\ op'.started = op.started
        /\ ~Unprepared /\ files' = files
        /\ step' \in {"idle", "reverting"} /\ UNCHANGED deploymentVars
    BY <1>1, <1>3 DEF ActivationRefused, ActivationTimeout, Operation, OpStatus
  <2> QED
    BY <1>1, <1>2, <2>1, LaterSteps
    DEF CommandStep, StartedInv, RolledBackInv, deploymentVars
<1>8. InstallPipeline => SolutionInv'
  <2> SUFFICES ASSUME InstallPipeline PROVE SolutionInv'
    OBVIOUS
  <2>1. /\ op' \in Operation /\ op'.status \in {op.status, "applied"}
        /\ op'.source = op.source
        /\ op'.target = op.target /\ op'.started = op.started /\ op.started
        /\ ~Unprepared /\ op.status # "rolled_back" /\ files' \in Files
        /\ step' \in {"idle", "closing"} /\ UNCHANGED deploymentVars
    BY <1>1, <1>2, <1>3
    DEF InstallPipeline, Operation, OpStatus, Files, StartedInv
  <2> QED
    BY <1>1, <1>2, <2>1, LaterSteps
    DEF CommandStep, Unprepared, StartedInv, RolledBackInv, deploymentVars
<1> QED BY <1>4, <1>5, <1>6, <1>7, <1>8

LEMMA RollbackSteps ==
  ASSUME SolutionInv,
         \/ RollbackStart \/ RecordRollback \/ RollbackApplied
         \/ RollbackNotApplied \/ RestoreFiles
  PROVE  SolutionInv'
<1>1. op \in Operation /\ files \in Files /\ step \in CommandStep
  BY DEF SolutionInv, SolutionType
<1>2. StartedInv /\ RolledBackInv
  BY DEF SolutionInv
<1>3. step \notin {"idle", "staging", "previewing"} =>
        ~Unprepared /\ op.status # "rolled_back"
  BY DEF SolutionInv, UnpreparedInv, RolledBackInv
<1>4. RollbackStart \/ RollbackApplied => SolutionInv'
  <2> SUFFICES ASSUME RollbackStart \/ RollbackApplied PROVE SolutionInv'
    OBVIOUS
  <2>1. ~Unprepared /\ op.status # "rolled_back"
    BY <1>3 DEF RollbackStart, RollbackApplied, SolutionInv, UnpreparedInv
  <2>2. op' = op /\ files' = files /\ step' \in {"reverting", "restoring"}
        /\ UNCHANGED deploymentVars
    BY DEF RollbackStart, RollbackApplied
  <2> QED
    BY <1>1, <1>2, <2>1, <2>2, LaterSteps
    DEF CommandStep, Unprepared, StartedInv, RolledBackInv, deploymentVars
<1>5. RecordRollback \/ RollbackNotApplied => SolutionInv'
  <2> SUFFICES ASSUME RecordRollback \/ RollbackNotApplied PROVE SolutionInv'
    OBVIOUS
  <2>1. /\ op' \in Operation
        /\ op'.status \in {"rolling_back", "rollback_failed", "rollback_timeout"}
        /\ op'.source = op.source
        /\ op'.target = op.target /\ op'.started = op.started
        /\ ~Unprepared /\ files' = files
        /\ step' \in {"idle", "waitingRollback"} /\ UNCHANGED deploymentVars
    BY <1>1, <1>3 DEF RecordRollback, RollbackNotApplied, Operation, OpStatus
  <2> QED
    BY <1>1, <1>2, <2>1, LaterSteps
    DEF CommandStep, StartedInv, RolledBackInv, deploymentVars
<1>6. RestoreFiles => SolutionInv'
  <2> SUFFICES ASSUME RestoreFiles PROVE SolutionInv'
    OBVIOUS
  <2>1. /\ op' \in Operation /\ op'.status = "rolled_back"
        /\ op'.source = op.source
        /\ op'.target = op.target /\ op'.started = op.started
        /\ ~Unprepared /\ files' = "old"
        /\ step' = "idle" /\ UNCHANGED deploymentVars
    BY <1>1, <1>2, <1>3 DEF RestoreFiles, Operation, OpStatus, StartedInv
  <2> QED
    BY <1>1, <1>2, <2>1, LaterSteps
    DEF CommandStep, Files, StartedInv, RolledBackInv, deploymentVars
<1> QED BY <1>4, <1>5, <1>6

(* A killed command leaves its files and the state file as they are. *)
LEMMA ChildKilled ==
  ASSUME SolutionInv, UNCHANGED <<deploymentVars, op>>, step' = "idle",
         \/ UNCHANGED files
         \/ step = "restoring" /\ op.started /\ files' \in {"mixed", "old"}
  PROVE  SolutionInv'
<1>1. op' = op /\ UNCHANGED deploymentVars /\ op \in Operation /\ files \in Files
  BY DEF SolutionInv, SolutionType
<1>2. files' \in Files
  BY <1>1 DEF Files
<1>3. op.status = "rolled_back" => files' = files
  BY DEF SolutionInv, RolledBackInv
<1>4. UnpreparedInv' /\ PrepareInv' /\ StartedInv' /\ RolledBackInv'
  BY <1>1, <1>3
  DEF SolutionInv, UnpreparedInv, Unprepared, PrepareInv, StartedInv, RolledBackInv,
      deploymentVars
<1> QED BY <1>1, <1>2, <1>4, OwnStep DEF CommandStep

Starts == PrepareStart \/ ActivateStart \/ RollbackStart

LEMMA SolutionKeeps ==
  ASSUME PositiveBound, SolutionInv,
         Starts \/ SolutionStep \/ CommandDies \/ Deployment \/ UNCHANGED solutionVars
  PROVE  SolutionInv'
<1>1. CASE Starts \/ SolutionStep
  BY <1>1, PrepareSteps, PostSteps, ActivateSteps, RollbackSteps DEF Starts, SolutionStep
<1>2. CASE CommandDies
  BY <1>2, ChildKilled DEF CommandDies
<1>3. CASE Deployment
  BY <1>3, DeploymentKeeps
<1>4. CASE UNCHANGED solutionVars
  <2>1. op' = op /\ files' = files /\ step' = step /\ UNCHANGED deploymentVars
    BY <1>4 DEF solutionVars, deploymentVars
  <2>2. UnpreparedInv' /\ PrepareInv' /\ StartedInv' /\ RolledBackInv'
    BY <2>1 DEF SolutionInv, UnpreparedInv, Unprepared, PrepareInv, StartedInv,
                RolledBackInv, deploymentVars
  <2> QED BY <2>1, <2>2, OwnStep DEF SolutionInv, SolutionType
<1> QED BY <1>1, <1>2, <1>3, <1>4

(* What was started stays so: only prepare, before any start, goes back. *)
LEMMA StartedStays ==
  ASSUME PositiveBound, SolutionInv, op.started,
         Starts \/ SolutionStep \/ CommandDies \/ Deployment \/ UNCHANGED solutionVars
  PROVE  op'.started
<1>1. op \in Operation
  BY DEF SolutionInv, SolutionType
<1>2. CASE UNCHANGED op
  BY <1>2
<1>3. CASE SolutionStep
  BY <1>1, <1>3
  DEF SolutionStep, Stage, Preview, PostUpgrade, RecordActivating, ActivationApplied,
      ActivationRefused, ActivationTimeout, InstallPipeline, PostRollback,
      RecordRollback, RollbackApplied, RollbackNotApplied, RestoreFiles, Operation
<1>4. Starts \/ CommandDies \/ Deployment \/ UNCHANGED solutionVars => UNCHANGED op
  BY DEF Starts, PrepareStart, ActivateStart, RollbackStart, CommandDies, Deployment,
         Edit, SyncApplied, SyncFailed, solutionVars
<1> QED BY <1>2, <1>3, <1>4

-------------------------------------------------------------------------------
(* The coordinator. *)

(* The status that a step of a command finds in the release's state file. *)
StepInv ==
    /\ at \in {"staging", "building", "publishing", "solutionPrepare",
               "platformPrepare"} => rel.status = "preparing"
    /\ at = "begin" =>
         \/ rel.status = "prepared"
         \/ rel.status = "preparing" /\ plan.platform # "host"
    /\ at \in {"components", "recordComponents", "application", "checkReport",
               "solution", "complete"} => rel.status = "activating"

(* A release is prepared, and stays usable, only when it is staged. *)
StagedInv ==
    \/ at \in {"publishing", "solutionPrepare", "platformPrepare", "begin"}
    \/ rel.status \notin {"none", "preparing", "rolled_back"}
    => host.staged = "staged"

(* The coordinator, and what it recorded of the solution. *)
ReleaseInv ==
    /\ plan \in Plan /\ rel \in Release /\ host \in Host /\ at \in At
    /\ child \in {"none", "prepare", "activate", "rollback"}
    /\ StepInv
    /\ StagedInv
    /\ LinkedReleaseStaged
    /\ ActivatedOnPreparedPlatform
    /\ rel.solution => op.started

UpgradeInv == SolutionInv /\ ReleaseInv

LEMMA InitInv ==
  ASSUME PositiveBound, UpgradeInit PROVE UpgradeInv
<1>1. SolutionInv
  BY SolutionInitInv DEF UpgradeInit
<1>2. plan \in Plan
  BY DEF UpgradeInit, BuildPlan, Plan
<1>3. rel \in Release /\ host \in Host /\ at \in At /\ child = "none"
  BY DEF UpgradeInit, Release, RelStatus, Host, At
<1>4. StepInv /\ StagedInv /\ LinkedReleaseStaged /\ ActivatedOnPreparedPlatform
      /\ ~rel.solution
  BY DEF UpgradeInit, StepInv, StagedInv, LinkedReleaseStaged, ActivatedOnPreparedPlatform
<1> QED BY <1>1, <1>2, <1>3, <1>4 DEF UpgradeInv, ReleaseInv

(* The upgrader and the deployment leave the coordinator's state alone. *)
LEMMA NestedStep ==
  ASSUME PositiveBound, UpgradeInv, UNCHANGED <<plan, rel, host>>,
         UNCHANGED <<at, child>> \/ (UNCHANGED at /\ child' \in {"prepare", "activate", "rollback"}),
         Starts \/ SolutionStep \/ CommandDies \/ Deployment \/ UNCHANGED solutionVars
  PROVE  UpgradeInv'
<1>1. SolutionInv'
  BY SolutionKeeps DEF UpgradeInv
<1>2. rel.solution => op'.started
  BY StartedStays DEF UpgradeInv, ReleaseInv
<1>3. StepInv' /\ StagedInv' /\ LinkedReleaseStaged' /\ ActivatedOnPreparedPlatform'
  BY DEF UpgradeInv, ReleaseInv, StepInv, StagedInv, LinkedReleaseStaged,
         ActivatedOnPreparedPlatform
<1>4. (plan \in Plan /\ rel \in Release /\ host \in Host /\ at \in At
       /\ child \in {"none", "prepare", "activate", "rollback"})'
  BY DEF UpgradeInv, ReleaseInv
<1> QED BY <1>1, <1>2, <1>3, <1>4 DEF UpgradeInv, ReleaseInv

(* A step of the coordinator itself. *)
LEMMA CoordinatorStep ==
  ASSUME PositiveBound, UpgradeInv, UNCHANGED solutionVars, UNCHANGED plan,
         rel' \in Release, host' \in Host, at' \in At,
         child' \in {"none", child},
         StepInv', StagedInv', LinkedReleaseStaged', ActivatedOnPreparedPlatform',
         rel'.solution => op.started
  PROVE  UpgradeInv'
<1>1. SolutionInv'
  BY SolutionKeeps DEF UpgradeInv
<1>2. op' = op
  BY DEF solutionVars
<1> QED BY <1>1, <1>2 DEF UpgradeInv, ReleaseInv

LEMMA PreparationSteps ==
  ASSUME PositiveBound, UpgradeInv,
         \/ PrepareRelease \/ StageRelease \/ FinishStaging \/ PublishImages
         \/ SolutionPrepared \/ PreparePlatform \/ RecordPrepared
         \/ VerifyPlatform \/ RebootHost
  PROVE  UpgradeInv'
<1>1. rel \in Release /\ host \in Host /\ at \in At /\ plan \in Plan
      /\ (rel.solution => op.started)
  BY DEF UpgradeInv, ReleaseInv
<1>2. StepInv /\ StagedInv /\ LinkedReleaseStaged /\ ActivatedOnPreparedPlatform
  BY DEF UpgradeInv, ReleaseInv
<1>3. UNCHANGED <<solutionVars, plan>> /\ child' \in {"none", child}
  BY DEF PrepareRelease, StageRelease, FinishStaging, PublishImages, SolutionPrepared,
         PreparePlatform, RecordPrepared, VerifyPlatform, RebootHost
<1>4. rel' \in Release /\ rel'.solution = rel.solution
  BY <1>1
  DEF PrepareRelease, StageRelease, FinishStaging, PublishImages, SolutionPrepared,
      PreparePlatform, RecordPrepared, VerifyPlatform, RebootHost, Release, RelStatus
<1>5. host' \in Host
  BY <1>1
  DEF PrepareRelease, StageRelease, FinishStaging, PublishImages, SolutionPrepared,
      PreparePlatform, RecordPrepared, VerifyPlatform, RebootHost, Host
<1>6. at' \in At
  BY <1>1
  DEF PrepareRelease, StageRelease, FinishStaging, PublishImages, SolutionPrepared,
      PreparePlatform, RecordPrepared, VerifyPlatform, RebootHost, At, AfterSolution
<1>7. StepInv'
  BY <1>1, <1>2, <1>3
  DEF PrepareRelease, StageRelease, FinishStaging, PublishImages, SolutionPrepared,
      PreparePlatform, RecordPrepared, VerifyPlatform, RebootHost, AfterSolution, Release,
      StepInv
<1>8. StagedInv'
  BY <1>1, <1>2, <1>3
  DEF PrepareRelease, StageRelease, FinishStaging, PublishImages, SolutionPrepared,
      PreparePlatform, RecordPrepared, VerifyPlatform, RebootHost, AfterSolution, Release,
      Host, StepInv, StagedInv
<1>9. LinkedReleaseStaged'
  BY <1>1, <1>2
  DEF PrepareRelease, StageRelease, FinishStaging, PublishImages, SolutionPrepared,
      PreparePlatform, RecordPrepared, VerifyPlatform, RebootHost, Host,
      LinkedReleaseStaged
<1>10. ActivatedOnPreparedPlatform'
  BY <1>1, <1>2, <1>3
  DEF PrepareRelease, StageRelease, FinishStaging, PublishImages, SolutionPrepared,
      PreparePlatform, RecordPrepared, VerifyPlatform, RebootHost, Release, Host, StepInv,
      ActivatedOnPreparedPlatform
<1> QED BY <1>1, <1>3, <1>4, <1>5, <1>6, <1>7, <1>8, <1>9, <1>10, CoordinatorStep

LEMMA ActivationSteps ==
  ASSUME PositiveBound, UpgradeInv,
         \/ ActivateRelease \/ ApplyComponents \/ RecordComponents
         \/ SkipApplication \/ UpgradeApplication \/ CheckReport
         \/ SolutionActivated \/ CompleteRelease
  PROVE  UpgradeInv'
<1>1. rel \in Release /\ host \in Host /\ at \in At /\ plan \in Plan
      /\ (rel.solution => op.started)
  BY DEF UpgradeInv, ReleaseInv
<1>2. StepInv /\ StagedInv /\ LinkedReleaseStaged /\ ActivatedOnPreparedPlatform
  BY DEF UpgradeInv, ReleaseInv
<1>3. UNCHANGED <<solutionVars, plan>> /\ child' \in {"none", child}
  BY DEF ActivateRelease, ApplyComponents, RecordComponents, SkipApplication,
         UpgradeApplication, CheckReport, SolutionActivated, CompleteRelease
<1>4. rel' \in Release /\ (rel'.solution => rel.solution \/ ActivationDone)
      /\ rel'.status \in {"activating", "operator_required", "applied"}
      /\ rel.status \in {"prepared", "activating", "operator_required"}
  BY <1>1, <1>2
  DEF ActivateRelease, ApplyComponents, RecordComponents, SkipApplication,
      UpgradeApplication, CheckReport, SolutionActivated, CompleteRelease,
      NeedsOperator, Release, RelStatus, StepInv
<1>5. ActivationDone => op.started
  BY DEF ActivationDone, UpgradeInv, SolutionInv, StartedInv
<1>6. /\ host' \in Host /\ host'.staged = host.staged
      /\ host'.preparation = host.preparation
  BY <1>1
  DEF ActivateRelease, ApplyComponents, RecordComponents, SkipApplication,
      UpgradeApplication, CheckReport, SolutionActivated, CompleteRelease, Host
<1>7. at' \in At
  BY <1>1
  DEF ActivateRelease, ApplyComponents, RecordComponents, SkipApplication,
      UpgradeApplication, CheckReport, SolutionActivated, CompleteRelease,
      NeedsOperator, At
<1>8. StepInv'
  BY <1>1, <1>2
  DEF ActivateRelease, ApplyComponents, RecordComponents, SkipApplication,
      UpgradeApplication, CheckReport, SolutionActivated, CompleteRelease,
      NeedsOperator, Release, StepInv
<1>9. host.staged = "staged"
  BY <1>2, <1>4 DEF StagedInv
<1>10. StagedInv' /\ LinkedReleaseStaged'
  BY <1>6, <1>9 DEF StagedInv, LinkedReleaseStaged
<1>11. ActivatedOnPreparedPlatform'
  BY <1>2, <1>3, <1>4, <1>6 DEF ActivatedOnPreparedPlatform
<1> QED BY <1>1, <1>3, <1>4, <1>5, <1>6, <1>7, <1>8, <1>10, <1>11, CoordinatorStep

LEMMA UndoSteps ==
  ASSUME PositiveBound, UpgradeInv,
         \/ RollbackRelease \/ SolutionRolledBack \/ RestoreApplication
         \/ RecordRestored \/ RecordRolledBack
  PROVE  UpgradeInv'
<1>1. rel \in Release /\ host \in Host /\ at \in At /\ plan \in Plan
      /\ (rel.solution => op.started)
  BY DEF UpgradeInv, ReleaseInv
<1>2. StagedInv /\ LinkedReleaseStaged /\ ActivatedOnPreparedPlatform
  BY DEF UpgradeInv, ReleaseInv
<1>3. UNCHANGED <<solutionVars, plan>> /\ child' \in {"none", child}
      /\ at' \in {"idle", "undoSolution", "undoApplication", "recordUndo", "undone"}
  BY DEF RollbackRelease, SolutionRolledBack, RestoreApplication, RecordRestored,
         RecordRolledBack
<1>4. /\ rel' \in Release /\ (rel'.solution => rel.solution)
      /\ rel'.status \in {rel.status, "rolled_back"}
  BY <1>1
  DEF RollbackRelease, SolutionRolledBack, RestoreApplication, RecordRestored,
      RecordRolledBack, Release, RelStatus
<1>5. /\ host' \in Host /\ host'.staged = host.staged
      /\ host'.preparation = host.preparation
      /\ host'.link \in {"old", host.link}
  BY <1>1
  DEF RollbackRelease, SolutionRolledBack, RestoreApplication, RecordRestored,
      RecordRolledBack, Host
<1>6. at' \in At /\ StepInv'
  BY <1>3 DEF At, StepInv
<1>7. StagedInv' /\ LinkedReleaseStaged'
  BY <1>2, <1>3, <1>4, <1>5 DEF StagedInv, LinkedReleaseStaged
<1>8. ActivatedOnPreparedPlatform'
  BY <1>2, <1>3, <1>4, <1>5 DEF ActivatedOnPreparedPlatform
<1> QED BY <1>1, <1>3, <1>4, <1>5, <1>6, <1>7, <1>8, CoordinatorStep

(* Coordinator and child are gone; the link may already be moved. *)
LEMMA CrashKeeps ==
  ASSUME PositiveBound, UpgradeInv, Crash PROVE UpgradeInv'
<1>1. rel \in Release /\ host \in Host /\ StepInv /\ StagedInv /\ LinkedReleaseStaged
      /\ ActivatedOnPreparedPlatform /\ SolutionInv
  BY DEF UpgradeInv, ReleaseInv
<1>2. UNCHANGED <<deploymentVars, op, files, plan, rel>> /\ at' = "idle"
      /\ child' = "none" /\ step' = "idle"
  BY DEF Crash
<1>3. /\ host' \in Host /\ host'.staged = host.staged
      /\ host'.preparation = host.preparation
      /\ host'.link = host.link \/ at = "application"
  BY <1>1 DEF Crash, Host
<1>4. SolutionInv'
  BY <1>1, <1>2, ChildKilled
<1>5. StepInv' /\ StagedInv' /\ LinkedReleaseStaged' /\ ActivatedOnPreparedPlatform'
  BY <1>1, <1>2, <1>3
  DEF StepInv, StagedInv, LinkedReleaseStaged, ActivatedOnPreparedPlatform
<1> QED BY <1>2, <1>3, <1>4, <1>5 DEF UpgradeInv, ReleaseInv, At

LEMMA NextInv ==
  ASSUME PositiveBound, UpgradeInv, [UpgradeNext]_upgradeVars PROVE UpgradeInv'
<1>1. CASE PrepareSolution \/ ActivateSolution \/ RollbackSolution
  BY <1>1, NestedStep
  DEF PrepareSolution, ActivateSolution, RollbackSolution, Launch, Starts
<1>2. CASE ChildStep \/ Others
  BY <1>2, NestedStep DEF ChildStep, Others, releaseVars
<1>3. CASE UNCHANGED upgradeVars
  BY <1>3, NestedStep DEF upgradeVars, releaseVars
<1>4. CASE Crash
  BY <1>4, CrashKeeps
<1> QED
  BY <1>1, <1>2, <1>3, <1>4, PreparationSteps, ActivationSteps, UndoSteps DEF UpgradeNext

-------------------------------------------------------------------------------
LEMMA UpgradeInvariant == PositiveBound => (UpgradeSpec => []UpgradeInv)
<1> SUFFICES ASSUME PositiveBound PROVE UpgradeSpec => []UpgradeInv
  OBVIOUS
<1>1. UpgradeInit => UpgradeInv
  BY InitInv
<1>2. UpgradeInv /\ [UpgradeNext]_upgradeVars => UpgradeInv'
  BY NextInv
<1> QED BY <1>1, <1>2, PTL DEF UpgradeSpec

(***************************************************************************)
(* An edit committed between preview and activation is never undone by an  *)
(* activation, however many sets are committed and commands repeated.      *)
(***************************************************************************)
THEOREM NoEditLost == PositiveBound => (UpgradeSpec => []UpgradeExtendsSource)
<1>1. UpgradeInv => UpgradeExtendsSource
  BY DEF UpgradeInv, SolutionInv
<1> QED BY <1>1, UpgradeInvariant, PTL

(***************************************************************************)
(* Wherever the commands of an upgrade died, their state files say what is true of *)
(* the host and of the runtime.                                            *)
(***************************************************************************)
THEOREM RecordsAreTrue == PositiveBound => (UpgradeSpec => []RecordsHold)
<1>1. UpgradeInv => RecordsHold
  BY DEF UpgradeInv, SolutionInv, StartedInv, RolledBackInv, ReleaseInv, RecordsHold,
         FilesFollowRuntime, RolledBackFiles, SolutionRecorded
<1> QED BY <1>1, UpgradeInvariant, PTL

(***************************************************************************)
(* A release that changes the host's packages is activated only on a       *)
(* platform that was verified after its reboot.                            *)
(***************************************************************************)
THEOREM PlatformVerified == PositiveBound => (UpgradeSpec => []ActivatedOnPreparedPlatform)
<1>1. UpgradeInv => ActivatedOnPreparedPlatform
  BY DEF UpgradeInv, ReleaseInv
<1> QED BY <1>1, UpgradeInvariant, PTL

===============================================================================
