------------------------- MODULE DeploymentSyncProofs -------------------------
(***************************************************************************)
(* Theorems about DeploymentSync, for every number of workers, revisions,  *)
(* images and faults.                                                      *)
(***************************************************************************)
EXTENDS DeploymentSync, TLAPS

-------------------------------------------------------------------------------
(* Type correctness. *)

(* The revisions that rows and attempts hold are those of committed sets. *)
Committed ==
    /\ sync.desired = Len(sets)
    /\ sync.applied \in 0..Len(sets)
    /\ \A w \in Workers : /\ work[w].set \in 0..Len(sets)
                          /\ work[w].previous \in 0..Len(sets)

TypeInv == TypeOK /\ Committed

(* The bundle of a committed set is a bundle, its credential a version. *)
LEMMA SetContents ==
    ASSUME CommitType, NEW r \in 0..Len(sets)
    PROVE  /\ BundleOf(r) \in Bundle \cup {Absent}
           /\ r # 0 => BundleOf(r) \in Bundle
           /\ CredentialOf(r) \in Nat
<1>1. CASE r = 0
  BY <1>1 DEF BundleOf, CredentialOf
<1>2. CASE r # 0
  <2>1. r \in 1..Len(sets)
    BY <1>2 DEF CommitType
  <2>2. sets[r] \in AssignmentSet
    BY <2>1 DEF CommitType
  <2>. QED
    BY <1>2, <2>2 DEF AssignmentSet, BundleOf, CredentialOf
<1>. QED
  BY <1>1, <1>2

(* A committed bundle, and no other, takes part in a next set. *)
LEMMA CommitKeepsTypes ==
    ASSUME CommitType, sync.desired = Len(sets), sync.applied \in 0..Len(sets),
           NEW b \in Bundle, NEW c \in Nat, AddSet(b, c)
    PROVE  /\ sets' \in Seq(AssignmentSet)
           /\ Len(sets') <= MaxRevision
           /\ Len(sets') = Len(sets) + 1
           /\ \A r \in 1..Len(sets) : sets'[r] = sets[r]
           /\ sync' \in SyncRow
           /\ sync'.desired = Len(sets')
           /\ sync'.applied = sync.applied
           /\ sync'.state = "pending"
           /\ sync'.token = sync.token
<1>1. [bundle |-> b, credential |-> c] \in AssignmentSet
  BY DEF AssignmentSet
<1>2. /\ sets' = Append(sets, [bundle |-> b, credential |-> c])
      /\ Len(sets) + 1 \in Revision
  BY DEF AddSet, NextRevision
<1>3. /\ sets' \in Seq(AssignmentSet)
      /\ Len(sets') = Len(sets) + 1
      /\ \A r \in 1..Len(sets) : sets'[r] = sets[r]
  BY <1>1, <1>2 DEF CommitType
<1>4. Len(sets') <= MaxRevision
  BY <1>2, <1>3, RevisionAssumption DEF Revision, CommitType
<1>5. sync' = [sync EXCEPT !.desired = Len(sets) + 1, !.state = "pending",
                           !.due = TRUE]
  BY DEF AddSet, SetDesired, NextRevision
<1>6. /\ sync' \in SyncRow
      /\ sync'.desired = Len(sets')
      /\ sync'.applied = sync.applied
      /\ sync'.state = "pending"
      /\ sync'.token = sync.token
  BY <1>2, <1>3, <1>5 DEF CommitType, SyncRow, SyncState
<1>. QED
  BY <1>3, <1>4, <1>6

(* Every kind of commit adds one well-typed set. *)
LEMMA CommitAddsSet ==
    ASSUME CommitType, sync.desired = Len(sets), Commit
    PROVE  /\ \E b \in Bundle, c \in Nat : AddSet(b, c)
           /\ credential' \in Nat
           /\ intent' \in {0, 1}
<1>1. CASE CommitCatalogDeployment
  <2>1. PICK image \in Images :
          AddSet([image |-> image, replicas |-> intent, sha |-> NextRevision],
                 credential)
    BY <1>1 DEF CommitCatalogDeployment
  <2>2. [image |-> image, replicas |-> intent, sha |-> NextRevision] \in Bundle
    BY <2>1 DEF AddSet, Bundle, CommitType
  <2>. QED
    BY <1>1, <2>1, <2>2 DEF CommitCatalogDeployment, CommitType
<1>2. ASSUME Deployed
      PROVE  BundleOf(sync.desired) \in Bundle /\ CredentialOf(sync.desired) \in Nat
  <2>1. sync.desired \in 0..Len(sets) /\ sync.desired # 0
    BY <1>2 DEF Deployed, CommitType
  <2>. QED
    BY <2>1, SetContents
<1>3. CASE QueueCameraGeometry
  <2>1. AddSet([BundleOf(sync.desired) EXCEPT !.sha = NextRevision],
               CredentialOf(sync.desired)) /\ NextRevision \in Revision
    BY <1>3 DEF QueueCameraGeometry, AddSet
  <2>2. [BundleOf(sync.desired) EXCEPT !.sha = NextRevision] \in Bundle
    BY <1>2, <1>3, <2>1 DEF QueueCameraGeometry, Bundle
  <2>. QED
    BY <1>2, <1>3, <2>1, <2>2 DEF QueueCameraGeometry, CommitType
<1>4. CASE RotateCredentials
  BY <1>2, <1>4 DEF RotateCredentials, CommitType
<1>5. CASE SetLifecycle
  <2>1. PICK replicas \in {0, 1} :
          /\ AddSet([BundleOf(sync.desired) EXCEPT !.replicas = replicas],
                    CredentialOf(sync.desired))
          /\ intent' = replicas
    BY <1>5 DEF SetLifecycle
  <2>2. [BundleOf(sync.desired) EXCEPT !.replicas = replicas] \in Bundle
    BY <1>2, <1>5 DEF SetLifecycle, Bundle
  <2>. QED
    BY <1>2, <1>5, <2>1, <2>2 DEF SetLifecycle, CommitType
<1>6. CASE Rollback
  <2>1. PICK r \in 1..Len(sets) : AddSet(BundleOf(r), credential)
    BY <1>6 DEF Rollback
  <2>2. r \in 0..Len(sets) /\ r # 0
    BY DEF CommitType
  <2>3. BundleOf(r) \in Bundle
    BY <2>2, SetContents
  <2>. QED
    BY <1>6, <2>1, <2>3 DEF Rollback, CommitType
<1>. QED
  BY <1>1, <1>3, <1>4, <1>5, <1>6 DEF Commit

-------------------------------------------------------------------------------
(* kubectl commands and controller steps keep the cluster well-typed. *)
LEMMA CommandTypes ==
    ASSUME NEW c \in Cluster, NEW r \in Revision \cup {0},
           NEW b \in Bundle \cup {Absent}
    PROVE  /\ ApplyInputs(c, r) \in Cluster
           /\ ApplyTemplate(c, b) \in Cluster
           /\ RestartPods(c) \in Cluster
BY DEF Cluster, ApplyInputs, ApplyTemplate, RestartPods

(* A step of the Kubernetes controllers keeps the cluster well-typed. *)
LEMMA ClusterStepTypes == ClusterType /\ ClusterNext => ClusterType'
<1>. SUFFICES ASSUME ClusterType, ClusterNext
              PROVE  cluster' \in Cluster
  BY DEF ClusterType
<1>1. CASE RollPods
  <2>1. cluster.template.replicas # 0 => cluster.template \in Bundle
    BY DEF ClusterType, Cluster, Absent
  <2>. QED
    BY <1>1, <2>1 DEF RollPods, ClusterType, Cluster, Pods, NoPods
<1>2. CASE PodsReady
  BY <1>2 DEF PodsReady, ClusterType, Cluster, Pods
<1>3. CASE RefreshConfig
  BY <1>3 DEF RefreshConfig, ClusterType, Cluster, Pods
<1>. QED
  BY <1>1, <1>2, <1>3 DEF ClusterNext

(* A command cut off half-way leaves a well-typed cluster too. *)
LEMMA CommandEffectType ==
    ASSUME TypeInv, NEW w \in Workers
    PROVE  CommandEffect(w) \in Cluster
<1>1. /\ cluster \in Cluster
      /\ work[w].set \in Revision \cup {0}
      /\ work[w].previous \in Revision \cup {0}
  BY DEF TypeInv, TypeOK, ClusterType, Attempt
<1>2. /\ BundleOf(work[w].set) \in Bundle \cup {Absent}
      /\ BundleOf(work[w].previous) \in Bundle \cup {Absent}
  BY SetContents DEF TypeInv, TypeOK, Committed
<1>. QED
  BY <1>1, <1>2, CommandTypes DEF CommandEffect

(***************************************************************************)
(* Almost every action of a worker keeps the database and moves its own    *)
(* attempt to another step without changing what the attempt works on.     *)
(***************************************************************************)
Moves(w, next) ==
    /\ work' = [work EXCEPT ![w] = next]
    /\ next \in Attempt
    /\ next.set = work[w].set
    /\ next.previous = work[w].previous
    /\ next.step \notin RecordSteps \cup {"idle", "load"}
    /\ work[w].step \notin {"idle", "load"}

LocalAction(w) ==
    \/ EnterPhase(w)
    \/ Preflight(w) \/ ApplySecrets(w) \/ ApplyBundle(w)
    \/ AwaitRuntime(w) \/ FallBack(w)
    \/ RestartDeployment(w) \/ AwaitRollout(w)
    \/ RestoreSecrets(w) \/ RestoreBundle(w) \/ AwaitRestored(w)
    \/ RejectSuccess(w) \/ CommandFails(w)

(* The row keeps everything but the lease. *)
KeepsRow ==
    /\ sync' \in SyncRow
    /\ sync'.desired = sync.desired
    /\ sync'.applied = sync.applied
    /\ sync'.state = sync.state
    /\ sync'.token = sync.token

WorkStep(w) ==
    /\ \E next \in Attempt : Moves(w, next)
    /\ KeepsRow
    /\ cluster' \in Cluster
    /\ torn' \in BOOLEAN
    /\ faults' \in 0..MaxFaults
    /\ UNCHANGED commitVars

(* A Goto to a command step, the recording step or the failure handler. *)
LEMMA GotoMoves ==
    ASSUME TypeOK, NEW w \in Workers, work[w].step \notin {"idle", "load"},
           NEW step \in CommandSteps \cup {"record", "giveup"},
           NEW m \in BOOLEAN, NEW r \in BOOLEAN, NEW s \in BOOLEAN
    PROVE  LET next == [work[w] EXCEPT !.step = step, !.fenced = FALSE,
                          !.mutated = m, !.recovered = r, !.restarted = s]
           IN  /\ next \in Attempt
               /\ work' = [work EXCEPT ![w] = next] => Moves(w, next)
<1>. DEFINE next == [work[w] EXCEPT !.step = step, !.fenced = FALSE,
                       !.mutated = m, !.recovered = r, !.restarted = s]
<1>1. work[w] \in Attempt
  BY DEF TypeOK
<1>2. step \in Steps /\ step \notin RecordSteps \cup {"idle", "load"}
  BY DEF Steps, CommandSteps, RestoreSteps, RecordSteps
<1>3. next \in Attempt /\ next.step = step
  BY <1>1, <1>2 DEF Attempt
<1>4. next.set = work[w].set /\ next.previous = work[w].previous
  BY <1>1 DEF Attempt
<1>. HIDE DEF next
<1>5. work' = [work EXCEPT ![w] = next] => Moves(w, next)
  BY <1>2, <1>3, <1>4 DEF Moves
<1>. QED
  BY <1>3, <1>5 DEF next

(* The steps that only move one attempt: each is a WorkStep. *)
LEMMA LocalActionIsWorkStep ==
    ASSUME TypeInv, NEW w \in Workers, LocalAction(w)
    PROVE  WorkStep(w)
<1>. DEFINE Next5(step, m, r, s) ==
       [work[w] EXCEPT !.step = step, !.fenced = FALSE, !.mutated = m,
                       !.recovered = r, !.restarted = s]
<1>1. /\ work \in [Workers -> Attempt]
      /\ work[w] \in Attempt
      /\ cluster \in Cluster
      /\ sync \in SyncRow
      /\ torn \in BOOLEAN
      /\ faults \in 0..MaxFaults
  BY DEF TypeInv, TypeOK, ClusterType, CommitType
<1>2. /\ work[w].set \in Revision \cup {0}
      /\ work[w].previous \in Revision \cup {0}
      /\ BundleOf(work[w].set) \in Bundle \cup {Absent}
      /\ BundleOf(work[w].previous) \in Bundle \cup {Absent}
  BY <1>1, SetContents DEF TypeInv, TypeOK, Committed, Attempt
<1>3. ASSUME UNCHANGED sync PROVE KeepsRow
  BY <1>1, <1>3 DEF KeepsRow
<1>4. ASSUME NEW step \in CommandSteps \cup {"record", "giveup"},
             NEW m \in BOOLEAN, NEW r \in BOOLEAN, NEW s \in BOOLEAN,
             work[w].step \notin {"idle", "load"},
             work' = [work EXCEPT ![w] = Next5(step, m, r, s)]
      PROVE  \E next \in Attempt : Moves(w, next)
  BY <1>4, GotoMoves DEF TypeInv
<1>5. ASSUME NEW step
      PROVE  Goto(w, step) =
               [work EXCEPT ![w] = Next5(step, work[w].mutated,
                                         work[w].recovered, work[w].restarted)]
  BY <1>1 DEF Goto, Attempt
<1>6. ASSUME NEW step \in CommandSteps \cup {"record", "giveup"},
             work[w].step \notin {"idle", "load"}, work' = Goto(w, step)
      PROVE  \E next \in Attempt : Moves(w, next)
  BY <1>1, <1>4, <1>5, <1>6 DEF Attempt
<1>7. OnError(w) \in CommandSteps \cup {"record", "giveup"}
  BY DEF OnError, CommandSteps, RestoreSteps
<1>8. AfterBundle(w) \in CommandSteps \cup {"record", "giveup"}
  BY DEF AfterBundle, CommandSteps
<1>9. \A step \in CommandSteps : step \notin {"idle", "load"}
  BY DEF CommandSteps, RestoreSteps
<1>10. CASE EnterPhase(w)
  <2>1. work[w].step \notin {"idle", "load"}
    BY <1>10 DEF EnterPhase, PhasedSteps
  <2>2. CASE sync.token = w
    <3>1. KeepsRow
      BY <1>1, <1>10, <2>2 DEF EnterPhase, KeepsRow, SyncRow
    <3>2. Moves(w, [work[w] EXCEPT !.fenced = TRUE])
      BY <1>1, <1>10, <2>1, <2>2
         DEF EnterPhase, Moves, Attempt, PhasedSteps, RecordSteps
    <3>. QED
      BY <1>1, <1>10, <3>1, <3>2 DEF WorkStep, Moves, EnterPhase
  <2>3. CASE sync.token # w
    BY <1>1, <1>3, <1>6, <1>7, <1>10, <2>1, <2>3 DEF WorkStep, EnterPhase
  <2>. QED
    BY <2>2, <2>3
<1>11. CASE Preflight(w)
  BY <1>1, <1>3, <1>6, <1>11 DEF WorkStep, Preflight, Ready, At, CommandSteps
<1>12. CASE ApplySecrets(w)
  <2>1. work' = [work EXCEPT ![w] = Next5("bundle", TRUE, work[w].recovered,
                                          work[w].restarted)]
    BY <1>1, <1>12 DEF ApplySecrets, Goto, Attempt
  <2>2. work[w].step \notin {"idle", "load"} /\ "bundle" \in CommandSteps
    BY <1>12 DEF ApplySecrets, Ready, At, CommandSteps
  <2>3. \E next \in Attempt : Moves(w, next)
    BY <1>1, <1>4, <2>1, <2>2 DEF Attempt
  <2>4. cluster' \in Cluster
    BY <1>1, <1>2, <1>12, CommandTypes DEF ApplySecrets
  <2>. QED
    BY <1>1, <1>3, <1>12, <2>3, <2>4 DEF WorkStep, ApplySecrets
<1>13. CASE ApplyBundle(w)
  <2>1. work[w].step \notin {"idle", "load"} /\ "wait" \in CommandSteps
    BY <1>13 DEF ApplyBundle, Ready, At, CommandSteps
  <2>2. \E next \in Attempt : Moves(w, next)
    BY <1>6, <1>8, <1>13, <2>1 DEF ApplyBundle
  <2>3. cluster' \in Cluster
    BY <1>1, <1>2, <1>13, CommandTypes DEF ApplyBundle
  <2>. QED
    BY <1>1, <1>3, <1>13, <2>2, <2>3 DEF WorkStep, ApplyBundle
<1>14. CASE AwaitRuntime(w)
  BY <1>1, <1>3, <1>6, <1>14 DEF WorkStep, AwaitRuntime, Ready, At
<1>15. CASE FallBack(w)
  <2>1. cluster' \in Cluster
    BY <1>1, <1>2, <1>15, CommandTypes DEF FallBack
  <2>. QED
    BY <1>1, <1>3, <1>6, <1>8, <1>15, <2>1 DEF WorkStep, FallBack, Ready, At
<1>16. CASE RestartDeployment(w)
  <2>1. work' = [work EXCEPT ![w] = Next5("status", work[w].mutated,
                                          work[w].recovered, TRUE)]
    BY <1>1, <1>16 DEF RestartDeployment, Goto, Attempt
  <2>2. work[w].step \notin {"idle", "load"} /\ "status" \in CommandSteps
    BY <1>16 DEF RestartDeployment, Ready, At, CommandSteps
  <2>3. \E next \in Attempt : Moves(w, next)
    BY <1>1, <1>4, <2>1, <2>2 DEF Attempt
  <2>4. cluster' \in Cluster
    BY <1>1, <1>2, <1>16, CommandTypes DEF RestartDeployment
  <2>. QED
    BY <1>1, <1>3, <1>16, <2>3, <2>4 DEF WorkStep, RestartDeployment
<1>17. CASE AwaitRollout(w)
  BY <1>1, <1>3, <1>6, <1>17 DEF WorkStep, AwaitRollout, Ready, At
<1>18. CASE RestoreSecrets(w)
  <2>1. cluster' \in Cluster
    BY <1>1, <1>2, <1>18, CommandTypes DEF RestoreSecrets
  <2>2. "restoreBundle" \in CommandSteps
    BY DEF CommandSteps, RestoreSteps
  <2>. QED
    BY <1>1, <1>3, <1>6, <1>18, <2>1, <2>2 DEF WorkStep, RestoreSecrets, Ready, At
<1>19. CASE RestoreBundle(w)
  <2>1. work[w].step \notin {"idle", "load"} /\ "restoreStatus" \in CommandSteps
    BY <1>19 DEF RestoreBundle, Ready, At, CommandSteps, RestoreSteps
  <2>2. CASE BundleOf(work[w].previous).replicas = 0
    <3>1. work' = [work EXCEPT ![w] = Next5("giveup", work[w].mutated, TRUE,
                                            work[w].restarted)]
      BY <1>1, <1>19, <2>2 DEF RestoreBundle, Goto, Attempt
    <3>2. \E next \in Attempt : Moves(w, next)
      BY <1>1, <1>4, <2>1, <3>1 DEF Attempt
    <3>3. cluster' \in Cluster
      BY <1>1, <1>2, <1>19, <2>2, CommandTypes DEF RestoreBundle
    <3>. QED
      BY <1>1, <1>3, <1>19, <3>2, <3>3 DEF WorkStep, RestoreBundle
  <2>3. CASE BundleOf(work[w].previous).replicas # 0
    <3>1. \E next \in Attempt : Moves(w, next)
      BY <1>6, <1>19, <2>1, <2>3 DEF RestoreBundle
    <3>2. cluster' \in Cluster
      BY <1>1, <1>2, <1>19, <2>3, CommandTypes DEF RestoreBundle
    <3>. QED
      BY <1>1, <1>3, <1>19, <3>1, <3>2 DEF WorkStep, RestoreBundle
  <2>. QED
    BY <2>2, <2>3
<1>20. CASE AwaitRestored(w)
  <2>1. work' = [work EXCEPT ![w] = Next5("giveup", work[w].mutated, TRUE,
                                          work[w].restarted)]
    BY <1>1, <1>20 DEF AwaitRestored, Goto, Attempt
  <2>2. work[w].step \notin {"idle", "load"}
    BY <1>20 DEF AwaitRestored, Ready, At
  <2>3. \E next \in Attempt : Moves(w, next)
    BY <1>1, <1>4, <2>1, <2>2 DEF Attempt
  <2>. QED
    BY <1>1, <1>3, <1>20, <2>3 DEF WorkStep, AwaitRestored
<1>21. CASE RejectSuccess(w)
  BY <1>1, <1>3, <1>6, <1>7, <1>21 DEF WorkStep, RejectSuccess, At
<1>22. CASE CommandFails(w)
  <2>1. work[w].step \notin {"idle", "load"}
    BY <1>9, <1>22 DEF CommandFails, Ready, At
  <2>2. cluster' \in Cluster
    BY <1>1, <1>22, CommandEffectType DEF CommandFails
  <2>3. faults' \in 0..MaxFaults
    BY <1>1, <1>22, ModeAssumption DEF CommandFails, Fault
  <2>. QED
    BY <1>1, <1>3, <1>6, <1>7, <1>22, <2>1, <2>2, <2>3 DEF WorkStep, CommandFails
<1>. QED
  BY <1>10, <1>11, <1>12, <1>13, <1>14, <1>15, <1>16, <1>17, <1>18, <1>19,
     <1>20, <1>21, <1>22 DEF LocalAction

(***************************************************************************)
(* A step that replaces the attempt of one worker preserves the invariant  *)
(* if the row stays well-typed and no revision appears from nowhere.       *)
(***************************************************************************)
LEMMA AttemptKeepsTypes ==
    ASSUME TypeInv, NEW w \in Workers, NEW next \in Attempt,
           work' = [work EXCEPT ![w] = next],
           next.set \in 0..Len(sets), next.previous \in 0..Len(sets),
           sync' \in SyncRow, sync'.desired = sync.desired,
           sync'.applied \in 0..Len(sets),
           cluster' \in Cluster, torn' \in BOOLEAN, faults' \in 0..MaxFaults,
           UNCHANGED commitVars
    PROVE  TypeInv'
<1>1. /\ work \in [Workers -> Attempt]
      /\ sets' = sets /\ credential' = credential /\ intent' = intent
  BY DEF TypeInv, TypeOK, commitVars
<1>2. work' \in [Workers -> Attempt]
  BY <1>1
<1>3. CommitType'
  BY <1>1 DEF TypeInv, TypeOK, CommitType
<1>4. TypeOK'
  BY <1>2, <1>3 DEF TypeOK, ClusterType
<1>5. \A v \in Workers : work'[v] = IF v = w THEN next ELSE work[v]
  BY <1>1
<1>6. Committed'
  BY <1>1, <1>5 DEF TypeInv, Committed
<1>. QED
  BY <1>4, <1>6 DEF TypeInv

(* A step outside the attempts changes only the row, within its type. *)
LEMMA RowKeepsTypes ==
    ASSUME TypeInv, UNCHANGED <<commitVars, work, torn, faults>>,
           cluster' \in Cluster, sync' \in SyncRow,
           sync'.desired = sync.desired, sync'.applied = sync.applied
    PROVE  TypeInv'
BY DEF TypeInv, TypeOK, Committed, CommitType, ClusterType, commitVars

(* The first commit establishes the invariant. *)
LEMMA InitTypes == Init => TypeInv
<1>. SUFFICES ASSUME Init PROVE TypeInv
  OBVIOUS
<1>1. ClusterType
  BY DEF Init, ClusterInit, ClusterType, Cluster, Pods, NoPods, Absent
<1>2. CommitType /\ sync.desired = Len(sets) /\ sync.applied = 0
  BY RevisionAssumption
     DEF Init, CommitInit, CommitType, SyncRow, SyncState, Revision
<1>3. Idle \in Attempt /\ Idle.set = 0 /\ Idle.previous = 0
  BY DEF Idle, Attempt, Steps, SyncState
<1>4. /\ work \in [Workers -> Attempt]
      /\ \A w \in Workers : work[w].set = 0 /\ work[w].previous = 0
  BY <1>3 DEF Init
<1>5. torn \in BOOLEAN
  BY DEF Init
<1>6. faults \in 0..MaxFaults
  BY ModeAssumption DEF Init
<1>7. Len(sets) = 0
  BY DEF Init, CommitInit
<1>. QED
  BY <1>1, <1>2, <1>4, <1>5, <1>6, <1>7 DEF TypeInv, TypeOK, Committed

(* The actions of a worker that are not local to its attempt. *)
LEMMA WorkerKeepsTypes ==
    ASSUME TypeInv, NEW w \in Workers, Progress(w) \/ CommandFails(w) \/ Crash(w)
    PROVE  TypeInv'
<1>1. /\ work[w] \in Attempt
      /\ cluster \in Cluster
      /\ sync \in SyncRow
      /\ torn \in BOOLEAN
      /\ faults \in 0..MaxFaults
      /\ work \in [Workers -> Attempt]
  BY DEF TypeInv, TypeOK, ClusterType, CommitType
<1>2. /\ Idle \in Attempt /\ Idle.set = 0 /\ Idle.previous = 0
      /\ 0 \in 0..Len(sets)
  BY DEF Idle, Attempt, Steps, SyncState, TypeInv, TypeOK, CommitType
<1>3. /\ work[w].set \in 0..Len(sets)
      /\ work[w].previous \in 0..Len(sets)
      /\ sync.applied \in 0..Len(sets)
      /\ sync.desired = Len(sets)
      /\ sync.desired \in 0..Len(sets)
  BY DEF TypeInv, TypeOK, CommitType, Committed
<1>4. CASE LocalAction(w)
  <2>1. WorkStep(w)
    BY <1>4, LocalActionIsWorkStep
  <2>2. PICK next \in Attempt : Moves(w, next)
    BY <2>1 DEF WorkStep
  <2>. QED
    BY <1>3, <2>1, <2>2, AttemptKeepsTypes DEF WorkStep, KeepsRow, Moves
<1>5. CASE Claim(w)
  <2>. DEFINE next == [Idle EXCEPT !.step = "load", !.set = sync.desired]
  <2>1. next \in Attempt /\ next.set = sync.desired /\ next.previous = 0
    BY <1>1, <1>2 DEF Attempt, Steps, SyncRow
  <2>2. /\ sync' \in SyncRow
        /\ sync'.desired = sync.desired
        /\ sync'.applied = sync.applied
    BY <1>1, <1>5 DEF Claim, SyncRow, SyncState
  <2>3. /\ work' = [work EXCEPT ![w] = next]
        /\ UNCHANGED <<cluster, commitVars, torn, faults>>
    BY <1>5 DEF Claim
  <2>. HIDE DEF next
  <2>. QED
    BY <1>1, <1>2, <1>3, <2>1, <2>2, <2>3, AttemptKeepsTypes
<1>6. CASE LoadWork(w)
  <2>. DEFINE next == [work[w] EXCEPT !.step = "preflight", !.fenced = FALSE,
                                      !.previous = sync.applied]
  <2>1. /\ next \in Attempt
        /\ next.set = work[w].set
        /\ next.previous = sync.applied
    BY <1>1 DEF Attempt, Steps, CommandSteps, SyncRow
  <2>2. /\ work' = [work EXCEPT ![w] = next]
        /\ UNCHANGED <<cluster, commitVars, sync, torn, faults>>
    BY <1>1, <1>6 DEF LoadWork, Goto, Attempt
  <2>. HIDE DEF next
  <2>. QED
    BY <1>1, <1>3, <2>1, <2>2, AttemptKeepsTypes
<1>7. ASSUME NEW step \in RecordSteps, ReadRow(w, step),
             UNCHANGED <<cluster, commitVars, sync, torn, faults>>
      PROVE  TypeInv'
  <2>. DEFINE next == [work[w] EXCEPT !.step = step, !.fenced = FALSE,
                         !.seen = [desired |-> sync.desired,
                                   state |-> sync.state]]
  <2>1. /\ next \in Attempt
        /\ next.set = work[w].set
        /\ next.previous = work[w].previous
    BY <1>1 DEF Attempt, Steps, RecordSteps, SyncRow
  <2>2. work' = [work EXCEPT ![w] = next]
    BY <1>1, <1>7 DEF ReadRow, Goto, Attempt
  <2>. HIDE DEF next
  <2>. QED
    BY <1>1, <1>3, <1>7, <2>1, <2>2, AttemptKeepsTypes
<1>8. CASE BeginSuccess(w) \/ BeginFailure(w)
  BY <1>7, <1>8 DEF BeginSuccess, BeginFailure, RecordSteps
<1>9. CASE RecordSuccess(w)
  <2>1. Written(w, SuccessState(w)) \in SyncState
    BY <1>1 DEF Written, SuccessState, SyncState, SyncRow
  <2>2. /\ sync' \in SyncRow
        /\ sync'.desired = sync.desired
        /\ sync'.applied = work[w].set
    BY <1>1, <1>9, <2>1 DEF RecordSuccess, SyncRow, Attempt
  <2>3. torn' \in BOOLEAN
    BY <1>9 DEF RecordSuccess
  <2>. QED
    BY <1>1, <1>2, <1>3, <1>9, <2>2, <2>3, AttemptKeepsTypes DEF RecordSuccess
<1>10. CASE RecordFailure(w)
  <2>1. Written(w, FailureState(w)) \in SyncState
    BY <1>1 DEF Written, FailureState, SyncState, SyncRow
  <2>2. /\ sync' \in SyncRow
        /\ sync'.desired = sync.desired
        /\ sync'.applied = sync.applied
    BY <1>1, <1>10, <2>1 DEF RecordFailure, SyncRow
  <2>3. torn' \in BOOLEAN
    BY <1>10 DEF RecordFailure
  <2>. QED
    BY <1>1, <1>2, <1>3, <1>10, <2>2, <2>3, AttemptKeepsTypes DEF RecordFailure
<1>11. CASE AbandonFailure(w)
  <2>1. torn' \in BOOLEAN
    BY <1>11 DEF AbandonFailure
  <2>. QED
    BY <1>1, <1>2, <1>3, <1>11, <2>1, AttemptKeepsTypes DEF AbandonFailure
<1>12. CASE Crash(w)
  <2>1. torn' \in BOOLEAN
    BY <1>12 DEF Crash
  <2>2. cluster' \in Cluster
    BY <1>1, <1>12, CommandEffectType DEF Crash
  <2>3. faults' \in 0..MaxFaults
    BY <1>1, <1>12, ModeAssumption DEF Crash, Fault
  <2>. QED
    BY <1>1, <1>2, <1>3, <1>12, <2>1, <2>2, <2>3, AttemptKeepsTypes DEF Crash
<1>. QED
  BY <1>4, <1>5, <1>6, <1>8, <1>9, <1>10, <1>11, <1>12 DEF Progress, LocalAction

(* Every step of the system preserves the invariant. *)
LEMMA NextKeepsTypes == TypeInv /\ [Next]_vars => TypeInv'
<1>. SUFFICES ASSUME TypeInv, [Next]_vars PROVE TypeInv'
  OBVIOUS
<1>1. ASSUME NEW w \in Workers, Progress(w) \/ CommandFails(w) \/ Crash(w)
      PROVE  TypeInv'
  BY <1>1, WorkerKeepsTypes
<1>2. CASE ManagementCommit
  <2>1. /\ CommitType /\ sync.desired = Len(sets) /\ Commit
        /\ sync.applied \in 0..Len(sets) /\ Len(sets) \in Nat
        /\ UNCHANGED <<cluster, work, torn, faults>>
    BY <1>2 DEF ManagementCommit, TypeInv, TypeOK, CommitType, Committed
  <2>2. PICK b \in Bundle, c \in Nat : AddSet(b, c)
    BY <2>1, CommitAddsSet
  <2>3. credential' \in Nat /\ intent' \in {0, 1}
    BY <2>1, CommitAddsSet
  <2>4. /\ sets' \in Seq(AssignmentSet)
        /\ Len(sets') <= MaxRevision
        /\ Len(sets') = Len(sets) + 1
        /\ sync' \in SyncRow
        /\ sync'.desired = Len(sets')
        /\ sync'.applied = sync.applied
    BY <2>1, <2>2, CommitKeepsTypes
  <2>5. TypeOK'
    BY <2>1, <2>3, <2>4 DEF TypeInv, TypeOK, CommitType, ClusterType
  <2>6. Committed'
    BY <2>1, <2>4 DEF TypeInv, Committed
  <2>. QED
    BY <2>5, <2>6 DEF TypeInv
<1>3. CASE ClusterStep
  <2>1. cluster' \in Cluster
    BY <1>3, ClusterStepTypes DEF ClusterStep, TypeInv, TypeOK, ClusterType
  <2>2. sync \in SyncRow
    BY DEF TypeInv, TypeOK, CommitType
  <2>. QED
    BY <1>3, <2>1, <2>2, RowKeepsTypes DEF ClusterStep
<1>4. CASE LeaseExpires \/ RetryDue
  <2>1. /\ sync' \in SyncRow
        /\ sync'.desired = sync.desired /\ sync'.applied = sync.applied
    BY <1>4 DEF LeaseExpires, RetryDue, TypeInv, TypeOK, CommitType, SyncRow
  <2>2. cluster \in Cluster
    BY DEF TypeInv, TypeOK, ClusterType
  <2>. QED
    BY <1>4, <2>1, <2>2, RowKeepsTypes DEF LeaseExpires, RetryDue
<1>5. CASE UNCHANGED vars
  <2>1. cluster \in Cluster /\ sync \in SyncRow
    BY DEF TypeInv, TypeOK, CommitType, ClusterType
  <2>. QED
    BY <1>5, <2>1, RowKeepsTypes DEF vars, commitVars
<1>. QED
  BY <1>1, <1>2, <1>3, <1>4, <1>5 DEF Next

(***************************************************************************)
(* The row, the attempts and the cluster only ever hold committed          *)
(* revisions and bundles, and the row one of its five states.              *)
(***************************************************************************)
THEOREM TypeCorrect == Spec => []TypeOK
<1>1. Init => TypeInv
  BY InitTypes
<1>2. TypeInv /\ [Next]_vars => TypeInv'
  BY NextKeepsTypes
<1>3. TypeInv => TypeOK
  BY DEF TypeInv
<1>. QED
  BY <1>1, <1>2, <1>3, PTL DEF Spec

-------------------------------------------------------------------------------
(***************************************************************************)
(* The synchronization row, when no commit and no other worker writes it   *)
(* inside a recording transaction (SerializedRecords).                     *)
(***************************************************************************)

(* The row by itself. *)
RowInv ==
    /\ sync.applied <= sync.desired
    /\ sync.state = "applied" => sync.desired # 0 /\ sync.applied = sync.desired
    /\ sync.desired # 0 /\ sync.applied = sync.desired => sync.state = "applied"
    /\ sync.desired = 0 => sync.state = "pending"
    /\ sync.state \notin {"pending", "applying"} => sync.token = None
    /\ HeldIsUpgrade

(* An attempt against the row: the token makes what it loaded current. *)
Sound(w) ==
    /\ work[w].step # "idle" => work[w].set # 0
    /\ sync.token = w /\ work[w].step # "idle" => sync.applied < work[w].set
    /\ sync.token = w /\ work[w].step \notin {"idle", "load"} =>
         work[w].previous = sync.applied
    /\ work[w].step \in RecordSteps =>
         /\ sync.token = w
         /\ work[w].seen = [desired |-> sync.desired, state |-> sync.state]

SyncInv ==
    /\ TypeInv
    /\ RowInv
    /\ \A w \in Workers : Sound(w)

(* What every step needs to know of the types. *)
LEMMA SyncInvTypes ==
    ASSUME SyncInv
    PROVE  /\ work \in [Workers -> Attempt]
           /\ sync \in SyncRow
           /\ sync.desired \in Nat /\ sync.applied \in Nat
           /\ sync.desired = Len(sets)
           /\ \A w \in Workers : work[w].set \in 0..Len(sets)
           /\ Len(sets) \in Nat
<1>1. /\ work \in [Workers -> Attempt] /\ sync \in SyncRow
      /\ CommitType /\ Committed
  BY DEF SyncInv, TypeInv, TypeOK, CommitType
<1>2. sync.desired \in Nat /\ sync.applied \in Nat
  BY <1>1, RevisionAssumption DEF SyncRow, Revision
<1>3. Len(sets) \in Nat
  BY <1>1 DEF CommitType
<1>. QED
  BY <1>1, <1>2, <1>3 DEF Committed

(* The first commit: no attempt is running and the row is pending. *)
LEMMA InitSync == Init => SyncInv
<1>. SUFFICES ASSUME Init PROVE SyncInv
  OBVIOUS
<1>1. TypeInv
  BY InitTypes
<1>2. RowInv
  BY DEF Init, CommitInit, RowInv, HeldIsUpgrade
<1>3. \A w \in Workers : Sound(w)
  BY WorkerAssumption DEF Init, CommitInit, Idle, Sound, RecordSteps
<1>. QED
  BY <1>1, <1>2, <1>3 DEF SyncInv

(* A step that keeps all of the row but the lease. *)
LEMMA KeptRow ==
    ASSUME RowInv, KeepsRow, sets' = sets
    PROVE  RowInv'
BY DEF RowInv, KeepsRow, HeldIsUpgrade, BundleOf

(* One worker moves and the row is kept: only that worker needs a look. *)
LEMMA KeptAttempts ==
    ASSUME SyncInv, KeepsRow, NEW w \in Workers, NEW next \in Attempt,
           work' = [work EXCEPT ![w] = next], Sound(w)'
    PROVE  \A v \in Workers : Sound(v)'
<1>. SUFFICES ASSUME NEW v \in Workers, v # w PROVE Sound(v)'
  OBVIOUS
<1>1. work'[v] = work[v] /\ Sound(v)
  BY SyncInvTypes DEF SyncInv
<1>. QED
  BY <1>1 DEF Sound, KeepsRow

(* A step inside an attempt keeps row and commits. *)
LEMMA LocalKeepsSync ==
    ASSUME SyncInv, TypeInv', NEW w \in Workers, LocalAction(w)
    PROVE  SyncInv'
<1>1. WorkStep(w)
  BY LocalActionIsWorkStep DEF SyncInv
<1>2. PICK next \in Attempt : Moves(w, next)
  BY <1>1 DEF WorkStep
<1>3. sets' = sets /\ KeepsRow
  BY <1>1 DEF WorkStep, commitVars
<1>4. work' = [work EXCEPT ![w] = next] /\ work'[w] = next
  BY <1>2, SyncInvTypes DEF Moves
<1>5. Sound(w)'
  <2>1. Sound(w)
    BY DEF SyncInv
  <2>. QED
    BY <1>2, <1>3, <1>4, <2>1 DEF Sound, Moves, KeepsRow
<1>6. RowInv'
  BY <1>3, KeptRow DEF SyncInv
<1>. QED
  BY <1>3, <1>4, <1>5, <1>6, KeptAttempts DEF SyncInv

-------------------------------------------------------------------------------
(* The actions that are not local to an attempt. *)

(* A claim takes the token over: attempts of others become stale. *)
LEMMA ClaimKeepsSync ==
    ASSUME SerializedRecords, SyncInv, TypeInv', NEW w \in Workers, Claim(w)
    PROVE  SyncInv'
<1>1. /\ work' = [work EXCEPT ![w] = [Idle EXCEPT !.step = "load",
                                                  !.set = sync.desired]]
      /\ sync' = [sync EXCEPT !.state = "applying", !.token = w, !.leased = TRUE]
      /\ sets' = sets
      /\ sync.desired # 0
      /\ sync.state \in {"pending", "failed", "applying"}
      /\ \A v \in Workers \ {w} : work[v].step \notin RecordSteps
  BY DEF Claim, Claimable, Deployed, RowFree, commitVars
<1>2. sync.applied < sync.desired
  BY <1>1, SyncInvTypes DEF SyncInv, RowInv
<1>3. /\ sync'.desired = sync.desired /\ sync'.applied = sync.applied
      /\ sync'.state = "applying" /\ sync'.token = w
  BY <1>1, SyncInvTypes DEF SyncRow
<1>4. RowInv'
  BY <1>1, <1>2, <1>3, SyncInvTypes DEF SyncInv, RowInv, HeldIsUpgrade
<1>5. Sound(w)'
  <2>1. work'[w].step = "load" /\ work'[w].set = sync.desired
    BY <1>1, SyncInvTypes DEF Idle
  <2>. QED
    BY <1>1, <1>2, <1>3, <2>1 DEF Sound, RecordSteps
<1>6. ASSUME NEW v \in Workers, v # w PROVE Sound(v)'
  <2>1. work'[v] = work[v] /\ Sound(v) /\ work[v].step \notin RecordSteps
    BY <1>1, <1>6, SyncInvTypes DEF SyncInv
  <2>. QED
    BY <1>3, <1>6, <2>1 DEF Sound
<1>. QED
  BY <1>4, <1>5, <1>6 DEF SyncInv

(* The work item names the desired and the applied set of the row. *)
LEMMA LoadKeepsSync ==
    ASSUME SyncInv, TypeInv', NEW w \in Workers, LoadWork(w)
    PROVE  SyncInv'
<1>. DEFINE next == [work[w] EXCEPT !.step = "preflight", !.fenced = FALSE,
                                    !.previous = sync.applied]
<1>1. work[w] \in Attempt /\ work \in [Workers -> Attempt] /\ sync \in SyncRow
  BY SyncInvTypes
<1>2. /\ next \in Attempt
      /\ next.step = "preflight"
      /\ next.set = work[w].set
      /\ next.previous = sync.applied
  BY <1>1 DEF Attempt, Steps, CommandSteps, SyncRow
<1>3. work' = [work EXCEPT ![w] = next] /\ UNCHANGED <<sets, sync>>
  BY <1>1 DEF LoadWork, Goto, Attempt, commitVars
<1>4. work[w].step = "load"
  BY DEF LoadWork, At
<1>. HIDE DEF next
<1>5. KeepsRow /\ work'[w] = next
  BY <1>1, <1>3 DEF KeepsRow
<1>6. Sound(w)'
  <2>1. Sound(w)
    BY DEF SyncInv
  <2>. QED
    BY <1>2, <1>3, <1>4, <1>5, <2>1 DEF Sound, RecordSteps
<1>7. RowInv'
  BY <1>3, <1>5, KeptRow DEF SyncInv
<1>. QED
  BY <1>2, <1>3, <1>5, <1>6, <1>7, KeptAttempts DEF SyncInv

(* The fence of a recording transaction: the token is the worker's. *)
LEMMA ReadKeepsSync ==
    ASSUME SyncInv, TypeInv', NEW w \in Workers, BeginSuccess(w) \/ BeginFailure(w)
    PROVE  SyncInv'
<1>1. PICK step \in RecordSteps : ReadRow(w, step)
  BY DEF BeginSuccess, BeginFailure, RecordSteps
<1>. DEFINE next == [work[w] EXCEPT !.step = step, !.fenced = FALSE,
                       !.seen = [desired |-> sync.desired,
                                 state |-> sync.state]]
<1>2. work[w] \in Attempt /\ work \in [Workers -> Attempt] /\ sync \in SyncRow
  BY SyncInvTypes
<1>3. /\ next \in Attempt
      /\ next.step = step
      /\ next.set = work[w].set
      /\ next.previous = work[w].previous
      /\ next.seen = [desired |-> sync.desired, state |-> sync.state]
  BY <1>2 DEF Attempt, Steps, RecordSteps, SyncRow
<1>4. work' = [work EXCEPT ![w] = next]
  BY <1>1, <1>2 DEF ReadRow, Goto, Attempt
<1>. HIDE DEF next
<1>5. /\ work[w].step \in {"record", "giveup"}
      /\ UNCHANGED <<sets, sync>>
      /\ sync.token = w
  BY <1>1 DEF BeginSuccess, BeginFailure, At, commitVars, ReadRow
<1>6. KeepsRow /\ work'[w] = next
  BY <1>2, <1>4, <1>5 DEF KeepsRow
<1>7. Sound(w)'
  <2>1. Sound(w)
    BY DEF SyncInv
  <2>. QED
    BY <1>3, <1>5, <1>6, <2>1 DEF Sound, RecordSteps
<1>8. RowInv'
  BY <1>5, <1>6, KeptRow DEF SyncInv
<1>. QED
  BY <1>3, <1>4, <1>6, <1>7, <1>8, KeptAttempts DEF SyncInv

(***************************************************************************)
(* What a recording transaction is entitled to believe: the row it has     *)
(* read is the row it writes, and its set is newer than the applied one.   *)
(***************************************************************************)
LEMMA Recording ==
    ASSUME SyncInv, NEW w \in Workers, work[w].step \in RecordSteps
    PROVE  /\ sync.token = w
           /\ sync.state \in {"pending", "applying"}
           /\ work[w].seen.desired = sync.desired
           /\ work[w].seen.state = sync.state
           /\ sync.applied < work[w].set
           /\ work[w].set <= sync.desired
           /\ work[w].previous = sync.applied
           /\ \A v \in Workers \ {w} : work[v].step \notin RecordSteps
<1>1. Sound(w) /\ \A v \in Workers : Sound(v)
  BY DEF SyncInv
<1>2. work[w].step \notin {"idle", "load"}
  BY DEF RecordSteps
<1>3. sync.token = w /\ w # None
  BY <1>1, WorkerAssumption DEF Sound
<1>4. sync.state \in {"pending", "applying"}
  BY <1>3 DEF SyncInv, RowInv
<1>5. work[w].set <= sync.desired
  BY SyncInvTypes
<1>. QED
  BY <1>1, <1>2, <1>3, <1>4, <1>5 DEF Sound

(* An attempt that ends with the row released leaves only sound attempts. *)
LEMMA ReleasedAttempts ==
    ASSUME SyncInv, NEW w \in Workers, work' = [work EXCEPT ![w] = Idle],
           sync'.token = None,
           \A v \in Workers \ {w} : work[v].step \notin RecordSteps
    PROVE  \A v \in Workers : Sound(v)'
<1>. SUFFICES ASSUME NEW v \in Workers PROVE Sound(v)'
  OBVIOUS
<1>1. v # None
  BY WorkerAssumption
<1>2. CASE v = w
  <2>1. work'[v].step = "idle"
    BY <1>2, SyncInvTypes DEF Idle
  <2>. QED
    BY <1>1, <2>1 DEF Sound, RecordSteps
<1>3. CASE v # w
  <2>1. work'[v] = work[v] /\ Sound(v) /\ work[v].step \notin RecordSteps
    BY <1>3, SyncInvTypes DEF SyncInv
  <2>. QED
    BY <1>1, <2>1 DEF Sound
<1>. QED
  BY <1>2, <1>3

(* Recording a success leaves a sound row. *)
LEMMA SuccessKeepsSync ==
    ASSUME SyncInv, TypeInv', NEW w \in Workers, RecordSuccess(w)
    PROVE  /\ SyncInv'
           /\ sync'.desired = sync.desired
           /\ sync'.applied = work[w].set
           /\ sync'.state = IF work[w].set = sync.desired
                              THEN "applied" ELSE "pending"
<1>1. work[w].step \in RecordSteps
  BY DEF RecordSuccess, At, RecordSteps
<1>2. Written(w, SuccessState(w)) = SuccessState(w)
  BY <1>1, Recording DEF Written
<1>3. /\ sync'.desired = sync.desired
      /\ sync'.applied = work[w].set
      /\ sync'.state = SuccessState(w)
      /\ sync'.token = None
  BY <1>2, SyncInvTypes DEF RecordSuccess, SyncRow
<1>4. sync'.state = IF work[w].set = sync.desired THEN "applied" ELSE "pending"
  BY <1>1, <1>3, Recording DEF SuccessState
<1>5. work[w].set \in Nat /\ work[w].set # 0 /\ sync.desired # 0
  BY <1>1, Recording, SyncInvTypes
<1>6. RowInv'
  BY <1>1, <1>3, <1>4, <1>5, Recording, SyncInvTypes DEF RowInv, HeldIsUpgrade
<1>7. \A v \in Workers : Sound(v)'
  BY <1>1, <1>3, Recording, ReleasedAttempts DEF RecordSuccess
<1>. QED
  BY <1>3, <1>4, <1>6, <1>7 DEF SyncInv

(* Recording a failure leaves a sound row. *)
LEMMA FailureKeepsSync ==
    ASSUME SyncInv, TypeInv', NEW w \in Workers, RecordFailure(w)
    PROVE  /\ SyncInv'
           /\ sync'.desired = sync.desired
           /\ sync'.applied = sync.applied
           /\ sync'.state \in {"pending", "failed", "operator_required"}
<1>1. work[w].step \in RecordSteps
  BY DEF RecordFailure, At, RecordSteps
<1>2. Written(w, FailureState(w)) = FailureState(w)
  BY <1>1, Recording DEF Written
<1>3. /\ sync'.desired = sync.desired
      /\ sync'.applied = sync.applied
      /\ sync'.state = FailureState(w)
      /\ sync'.token = None
      /\ sets' = sets
  BY <1>2, SyncInvTypes DEF RecordFailure, SyncRow, commitVars
<1>4. FailureState(w) \in {"pending", "failed", "operator_required"}
  BY DEF FailureState
<1>5. FailureState(w) = "operator_required" =>
        /\ sync.applied # 0
        /\ BundleOf(sync.desired).image # BundleOf(sync.applied).image
  BY <1>1, Recording DEF FailureState, OperatorRequired, ImageChanged
<1>6. HeldIsUpgrade'
  BY <1>3, <1>5 DEF HeldIsUpgrade, BundleOf
<1>7. sync.applied < sync.desired
  BY <1>1, Recording, SyncInvTypes
<1>8. RowInv'
  BY <1>3, <1>4, <1>6, <1>7, SyncInvTypes DEF RowInv
<1>9. \A v \in Workers : Sound(v)'
  BY <1>1, <1>3, Recording, ReleasedAttempts DEF RecordFailure
<1>. QED
  BY <1>3, <1>4, <1>8, <1>9 DEF SyncInv

(* An attempt that ends without a word to the row. *)
LEMMA EndKeepsSync ==
    ASSUME SyncInv, TypeInv', NEW w \in Workers, AbandonFailure(w) \/ Crash(w)
    PROVE  SyncInv'
<1>1. work' = [work EXCEPT ![w] = Idle] /\ UNCHANGED <<sets, sync>>
  BY DEF AbandonFailure, Crash, commitVars
<1>2. Idle \in Attempt /\ work'[w].step = "idle"
  BY <1>1, SyncInvTypes DEF Idle, Attempt, Steps, SyncState
<1>3. KeepsRow
  BY <1>1, SyncInvTypes DEF KeepsRow
<1>4. Sound(w)'
  BY <1>2 DEF Sound, RecordSteps
<1>5. RowInv'
  BY <1>1, <1>3, KeptRow DEF SyncInv
<1>. QED
  BY <1>1, <1>2, <1>3, <1>4, <1>5, KeptAttempts DEF SyncInv

(* A commit only moves the desired revision forward. *)
LEMMA CommitKeepsSync ==
    ASSUME SerializedRecords, SyncInv, TypeInv', ManagementCommit
    PROVE  /\ SyncInv'
           /\ sync'.desired = sync.desired + 1
           /\ sync'.applied = sync.applied
           /\ sync'.state = "pending"
<1>1. /\ CommitType /\ sync.desired = Len(sets) /\ Commit
      /\ sync.applied \in 0..Len(sets)
      /\ \A v \in Workers : work[v].step \notin RecordSteps
      /\ work' = work
  BY DEF ManagementCommit, NoRecordOpen, SyncInv, TypeInv, TypeOK, Committed
<1>2. PICK b \in Bundle, c \in Nat : AddSet(b, c)
  BY <1>1, CommitAddsSet
<1>3. /\ sync'.desired = sync.desired + 1
      /\ sync'.applied = sync.applied
      /\ sync'.state = "pending"
      /\ sync'.token = sync.token
  BY <1>1, <1>2, CommitKeepsTypes
<1>4. RowInv'
  BY <1>3, SyncInvTypes DEF SyncInv, RowInv, HeldIsUpgrade
<1>5. \A v \in Workers : Sound(v)'
  BY <1>1, <1>3 DEF SyncInv, Sound
<1>. QED
  BY <1>3, <1>4, <1>5 DEF SyncInv

(* Steps outside the workers keep the row but for its timers. *)
LEMMA OtherKeepsSync ==
    ASSUME SyncInv, TypeInv',
           ClusterStep \/ LeaseExpires \/ RetryDue \/ UNCHANGED vars
    PROVE  SyncInv' /\ KeepsRow
<1>1. sets' = sets /\ work' = work
  BY DEF ClusterStep, LeaseExpires, RetryDue, vars, commitVars
<1>2. KeepsRow
  BY SyncInvTypes DEF ClusterStep, LeaseExpires, RetryDue, vars, KeepsRow, SyncRow
<1>3. RowInv'
  BY <1>1, <1>2, KeptRow DEF SyncInv
<1>4. \A v \in Workers : Sound(v)'
  BY <1>1, <1>2 DEF SyncInv, Sound, KeepsRow
<1>. QED
  BY <1>2, <1>3, <1>4 DEF SyncInv

(* Every step of the system preserves the invariant. *)
LEMMA NextKeepsSync == SerializedRecords /\ SyncInv /\ [Next]_vars => SyncInv'
<1>. SUFFICES ASSUME SerializedRecords, SyncInv, [Next]_vars PROVE SyncInv'
  OBVIOUS
<1>1. TypeInv'
  BY NextKeepsTypes DEF SyncInv
<1>2. ASSUME NEW w \in Workers, Progress(w) \/ CommandFails(w) \/ Crash(w)
      PROVE  SyncInv'
  <2>1. CASE LocalAction(w)
    BY <1>1, <2>1, LocalKeepsSync
  <2>2. CASE Claim(w)
    BY <1>1, <2>2, ClaimKeepsSync
  <2>3. CASE LoadWork(w)
    BY <1>1, <2>3, LoadKeepsSync
  <2>4. CASE BeginSuccess(w) \/ BeginFailure(w)
    BY <1>1, <2>4, ReadKeepsSync
  <2>5. CASE RecordSuccess(w)
    BY <1>1, <2>5, SuccessKeepsSync
  <2>6. CASE RecordFailure(w)
    BY <1>1, <2>6, FailureKeepsSync
  <2>7. CASE AbandonFailure(w) \/ Crash(w)
    BY <1>1, <2>7, EndKeepsSync
  <2>. QED
    BY <1>2, <2>1, <2>2, <2>3, <2>4, <2>5, <2>6, <2>7 DEF Progress, LocalAction
<1>3. CASE ManagementCommit
  BY <1>1, <1>3, CommitKeepsSync
<1>. QED
  BY <1>1, <1>2, <1>3, OtherKeepsSync DEF Next

(* The inductive invariant holds in every reachable state. *)
LEMMA SyncInvariant == ASSUME SerializedRecords PROVE Spec => []SyncInv
<1>1. Init => SyncInv
  BY InitSync
<1>2. SyncInv /\ [Next]_vars => SyncInv'
  BY NextKeepsSync
<1>. QED
  BY <1>1, <1>2, PTL DEF Spec

(***************************************************************************)
(* A deployment whose row says applied serves its newest desired revision: *)
(* no commit is lost under a state that claim never selects.               *)
(***************************************************************************)
THEOREM SettledIsDesired == ASSUME SerializedRecords PROVE Spec => []AppliedIsDesired
<1>1. SyncInv => AppliedIsDesired
  BY DEF SyncInv, RowInv, AppliedIsDesired
<1>. QED
  BY <1>1, SyncInvariant, PTL

(***************************************************************************)
(* Only an image upgrade of a deployment that was applied before is ever   *)
(* held for an operator.                                                   *)
(***************************************************************************)
THEOREM HeldIsAnUpgrade == ASSUME SerializedRecords PROVE Spec => []HeldIsUpgrade
<1>1. SyncInv => HeldIsUpgrade
  BY DEF SyncInv, RowInv
<1>. QED
  BY <1>1, SyncInvariant, PTL

-------------------------------------------------------------------------------
(* Refinement. *)

(* A step that keeps the abstract state is a stutter of DesiredState. *)
LEMMA KeptRowStutters ==
    ASSUME KeepsRow
    PROVE  UNCHANGED Abstract!abstractVars
BY DEF KeepsRow, Abstract!abstractVars, Phase

(* Every step maps to a step of DesiredState or a stutter. *)
LEMMA StepRefines ==
    SerializedRecords /\ SyncInv /\ [Next]_vars =>
      [Abstract!Step]_(Abstract!abstractVars)
<1>. SUFFICES ASSUME SerializedRecords, SyncInv, [Next]_vars
              PROVE  Abstract!Step \/ UNCHANGED Abstract!abstractVars
  OBVIOUS
<1>1. TypeInv' /\ TypeInv
  BY NextKeepsTypes DEF SyncInv
<1>2. /\ sync.desired \in Nat /\ sync.applied \in Nat
      /\ \A w \in Workers : work[w].set \in Nat
      /\ sync \in SyncRow
  BY SyncInvTypes
<1>3. ASSUME NEW w \in Workers, Progress(w) \/ CommandFails(w) \/ Crash(w)
      PROVE  Abstract!Step \/ UNCHANGED Abstract!abstractVars
  <2>1. CASE LocalAction(w)
    BY <1>1, <2>1, LocalActionIsWorkStep, KeptRowStutters DEF WorkStep
  <2>2. CASE Claim(w)
    <3>1. /\ sync'.desired = sync.desired /\ sync'.applied = sync.applied
          /\ sync'.state = "applying"
          /\ sync.state \in {"pending", "failed", "applying"}
      BY <1>2, <2>2 DEF Claim, Claimable, SyncRow
    <3>. QED
      BY <3>1 DEF Abstract!abstractVars, Phase
  <2>3. CASE /\ sync' = sync
             /\ LoadWork(w) \/ BeginSuccess(w) \/ BeginFailure(w)
                  \/ AbandonFailure(w) \/ Crash(w)
    BY <2>3 DEF Abstract!abstractVars, Phase
  <2>4. CASE RecordSuccess(w)
    <3>1. /\ sync'.desired = sync.desired
          /\ sync'.applied = work[w].set
          /\ sync'.state = IF work[w].set = sync.desired
                             THEN "applied" ELSE "pending"
      BY <1>1, <2>4, SuccessKeepsSync
    <3>2. /\ sync.state \in {"pending", "applying"}
          /\ sync.applied < work[w].set
          /\ work[w].set <= sync.desired
      BY <2>4, Recording DEF RecordSuccess, At, RecordSteps
    <3>3. work[w].set \in (sync.applied + 1)..sync.desired
      BY <1>2, <3>2
    <3>4. Phase = "converging"
      BY <3>2 DEF Phase
    <3>5. Phase' = IF sync'.applied = sync.desired THEN "settled" ELSE "converging"
      BY <3>1 DEF Phase
    <3>. QED
      BY <3>1, <3>3, <3>4, <3>5 DEF Abstract!Step, Abstract!RecordApplied
  <2>5. CASE RecordFailure(w)
    <3>1. /\ sync'.desired = sync.desired
          /\ sync'.applied = sync.applied
          /\ sync'.state \in {"pending", "failed", "operator_required"}
          /\ SyncInv'
      BY <1>1, <2>5, FailureKeepsSync
    <3>2. /\ sync.state \in {"pending", "applying"}
          /\ sync.applied < sync.desired
      BY <1>2, <2>5, Recording DEF RecordFailure, At, RecordSteps
    <3>3. CASE sync'.state = "operator_required"
      <4>1. sync.applied # 0
        BY <3>1, <3>3 DEF SyncInv, RowInv, HeldIsUpgrade
      <4>. QED
        BY <1>2, <3>1, <3>2, <3>3, <4>1
           DEF Abstract!Step, Abstract!HoldForOperator, Phase
    <3>4. CASE sync'.state # "operator_required"
      BY <3>1, <3>2, <3>4 DEF Abstract!abstractVars, Phase
    <3>. QED
      BY <3>3, <3>4
  <2>6. LoadWork(w) \/ BeginSuccess(w) \/ BeginFailure(w)
          \/ AbandonFailure(w) \/ Crash(w) => sync' = sync
    BY DEF LoadWork, BeginSuccess, BeginFailure, AbandonFailure, Crash
  <2>. QED
    BY <1>3, <2>1, <2>2, <2>3, <2>4, <2>5, <2>6 DEF Progress, LocalAction
<1>4. CASE ManagementCommit
  BY <1>1, <1>4, CommitKeepsSync
     DEF Abstract!Step, Abstract!CommitRevision, Phase
<1>5. CASE ClusterStep \/ LeaseExpires \/ RetryDue \/ UNCHANGED vars
  BY <1>1, <1>5, OtherKeepsSync, KeptRowStutters
<1>. QED
  BY <1>3, <1>4, <1>5 DEF Next

(***************************************************************************)
(* The worker, its commits and their faults implement DesiredState: the    *)
(* applied revision only moves forward and only to a committed set, it is  *)
(* settled exactly when it is the newest one, and only a commit releases a *)
(* held deployment.                                                        *)
(***************************************************************************)
THEOREM Refinement == ASSUME SerializedRecords PROVE Spec => ImplementsDesiredState
<1>1. Init => Abstract!Start
  BY DEF Init, CommitInit, Abstract!Start, Phase
<1>2. SyncInv /\ [Next]_vars => [Abstract!Step]_(Abstract!abstractVars)
  BY StepRefines
<1>. QED
  BY <1>1, <1>2, SyncInvariant, PTL
     DEF Spec, ImplementsDesiredState, Abstract!Promise

===============================================================================
