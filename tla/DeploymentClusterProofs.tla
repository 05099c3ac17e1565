------------------------ MODULE DeploymentClusterProofs ------------------------
(***************************************************************************)
(* What the cluster runs against what the synchronization row says of it,  *)
(* when one worker process serves the deployment: for every number of      *)
(* revisions, images, failed commands and crashes, and with commits in the *)
(* middle of recording transactions.                                       *)
(***************************************************************************)
EXTENDS DeploymentSyncProofs

-------------------------------------------------------------------------------
(* The cluster. *)

(* When no rollout is requested the Pods are those of the template. *)
Follows(c) ==
    ~c.rolling =>
        IF c.template.replicas = 0
          THEN c.pods = NoPods
          ELSE c.pods.bundle = c.template /\ c.pods.status # "none"

(* The resources of b run, and no rollout is going to replace the Pods. *)
Serves(c, b) ==
    /\ Resources(c.template) = Resources(b)
    /\ b.replicas = 1 => /\ ~c.rolling
                         /\ c.pods.status = "ready"
                         /\ Resources(c.pods.bundle) = Resources(b)

(* Revision r, whose bundle is b, runs in full, with its own inputs. *)
Restored(c, r, b) ==
    /\ c.inputs = r
    /\ c.template = b
    /\ b.replicas = 1 => /\ ~c.rolling
                         /\ c.pods.status = "ready"
                         /\ c.pods.bundle = b
                         /\ c.pods.mount = r
                         /\ c.pods.config = r

(* Running in full is more than serving the resources. *)
LEMMA RestoredServes ==
    ASSUME NEW c, NEW r, NEW b, Restored(c, r, b)
    PROVE  Serves(c, b)
BY DEF Restored, Serves

(* Every command leaves a cluster whose Pods follow, or are going to. *)
LEMMA CommandFollows ==
    ASSUME NEW c \in Cluster, Follows(c), NEW r, NEW b
    PROVE  /\ Follows(ApplyInputs(c, r))
           /\ Follows(ApplyTemplate(c, b))
           /\ Follows(RestartPods(c))
BY DEF Cluster, Follows, ApplyInputs, ApplyTemplate, RestartPods

(* So does a command cut off half-way. *)
LEMMA EffectFollows ==
    ASSUME TypeInv, NEW w \in Workers, Follows(cluster)
    PROVE  Follows(CommandEffect(w))
<1>1. cluster \in Cluster
  BY DEF TypeInv, TypeOK, ClusterType
<1>. QED
  BY <1>1, CommandFollows DEF CommandEffect

(* An applied template is the one stored. *)
LEMMA TemplateApplied ==
    ASSUME NEW c \in Cluster, NEW b \in Bundle \cup {Absent}
    PROVE  /\ ApplyTemplate(c, b).template = b
           /\ ApplyTemplate(c, b).inputs = c.inputs
           /\ ApplyTemplate(c, b).pods = c.pods
           /\ b.replicas # 1 => Serves(ApplyTemplate(c, b), b)
BY DEF Cluster, ApplyTemplate, Serves

(* A complete rollout of b serves b. *)
LEMMA RolledOutServes ==
    ASSUME NEW c \in Cluster, Follows(c), RolledOut(c), c.template.replicas = 1
    PROVE  Serves(c, c.template) /\ c.pods.bundle = c.template
BY DEF Cluster, Follows, RolledOut, Serves

(* Whatever is served stays served while the controllers reconcile. *)
LEMMA ControllersKeep ==
    ASSUME ClusterType, Follows(cluster), ClusterNext
    PROVE  /\ Follows(cluster')
           /\ cluster'.inputs = cluster.inputs
           /\ cluster'.template = cluster.template
           /\ \A b : Serves(cluster, b) => Serves(cluster', b)
           /\ \A r, b : Restored(cluster, r, b) => Restored(cluster', r, b)
           /\ ~cluster'.rolling /\ cluster.template.replicas = 1 =>
                \/ /\ cluster.rolling
                   /\ cluster'.pods.mount = cluster.inputs
                   /\ cluster'.pods.config = cluster.inputs
                \/ /\ ~cluster.rolling
                   /\ cluster'.pods.mount = cluster.pods.mount
                   /\ cluster'.pods.config \in {cluster.pods.config, cluster.inputs}
<1>1. CASE RollPods
  <2>1. /\ cluster.rolling
        /\ cluster'.rolling = FALSE
        /\ cluster'.inputs = cluster.inputs
        /\ cluster'.template = cluster.template
        /\ cluster'.pods = IF cluster.template.replicas = 0
                             THEN NoPods
                             ELSE [status |-> "starting",
                                   bundle |-> cluster.template,
                                   mount  |-> cluster.inputs,
                                   config |-> cluster.inputs]
    BY <1>1 DEF RollPods, ClusterType, Cluster
  <2>2. \A b : Serves(cluster, b) => b.replicas # 1
    BY <2>1 DEF Serves
  <2>3. \A r, b : Restored(cluster, r, b) => b.replicas # 1
    BY <2>1 DEF Restored
  <2>. QED
    BY <2>1, <2>2, <2>3 DEF Follows, Serves, Restored
<1>2. CASE PodsReady
  <2>1. /\ cluster.pods.status = "starting"
        /\ cluster'.rolling = cluster.rolling
        /\ cluster'.inputs = cluster.inputs
        /\ cluster'.template = cluster.template
        /\ cluster'.pods.status = "ready"
        /\ cluster'.pods.bundle = cluster.pods.bundle
        /\ cluster'.pods.mount = cluster.pods.mount
        /\ cluster'.pods.config = cluster.pods.config
    BY <1>2 DEF PodsReady, ClusterType, Cluster, Pods
  <2>2. cluster.pods # NoPods
    BY <2>1 DEF NoPods
  <2>. QED
    BY <2>1, <2>2 DEF Follows, Serves, Restored
<1>3. CASE RefreshConfig
  <2>1. /\ cluster.pods.status # "none"
        /\ cluster'.rolling = cluster.rolling
        /\ cluster'.inputs = cluster.inputs
        /\ cluster'.template = cluster.template
        /\ cluster'.pods.status = cluster.pods.status
        /\ cluster'.pods.bundle = cluster.pods.bundle
        /\ cluster'.pods.mount = cluster.pods.mount
        /\ cluster'.pods.config = cluster.inputs
    BY <1>3 DEF RefreshConfig, ClusterType, Cluster, Pods
  <2>2. cluster.pods # NoPods
    BY <2>1 DEF NoPods
  <2>. QED
    BY <2>1, <2>2 DEF Follows, Serves, Restored
<1>. QED
  BY <1>1, <1>2, <1>3 DEF ClusterNext

-------------------------------------------------------------------------------
(* The attempt, the row and the cluster. *)

(* No Secret apply has succeeded; no bundle restoration is complete yet. *)
UntouchedSteps == {"idle", "load", "preflight", "secrets"}

ForwardSteps ==
    {"bundle", "wait", "rollout", "restart", "status", "record", "succeeding"}

FinalStates == {"applied", "operator_required"}

(* What the flags of an attempt say of the steps it has behind it. *)
AttemptSound(a) ==
    /\ a.step # "idle" => a.set # 0
    /\ a.step \in UntouchedSteps => ~a.mutated
    /\ a.step \in ForwardSteps => a.mutated
    /\ a.step \in RestoreSteps => a.mutated /\ a.previous # 0
    /\ a.step \in UntouchedSteps \cup {"bundle", "wait"} => ~a.restarted
    /\ a.step \notin {"giveup", "failing"} => ~a.recovered
    /\ a.recovered => a.previous # 0
    /\ a.step \in RecordSteps => a.seen.state \notin FinalStates

(***************************************************************************)
(* What an attempt finds in the cluster, where new and old are the bundles *)
(* of its two sets: between the steps that write them, and only if nothing *)
(* torn lies below (t) or the rollout was forced, its resources run.       *)
(***************************************************************************)
AttemptServes(a, c, t, new, old) ==
    /\ a.step \in ForwardSteps => c.inputs = a.set
    /\ a.step = "bundle" /\ ~t /\ a.previous # 0 => Serves(c, old)
    /\ a.step = "wait" /\ ~t => Serves(c, new)
    /\ a.step \in {"rollout", "restart", "status"} =>
         c.template = new /\ new.replicas = 1
    /\ a.step \in {"record", "succeeding"} /\ (~t \/ a.restarted) =>
         Serves(c, new)
    /\ a.step \in {"restoreBundle", "restoreStatus"} => c.inputs = a.previous
    /\ a.step = "restoreStatus" =>
         /\ c.template = old
         /\ old.replicas = 1
         /\ ~c.rolling => /\ c.pods.mount = a.previous
                          /\ c.pods.config = a.previous
    /\ a.recovered => Restored(c, a.previous, old)

(* What the row says of the cluster; b is the applied bundle. *)
RowServes(a, c, t, row, b) ==
    /\ row.state \in FinalStates => a.step = "idle" /\ row.applied # 0
    /\ row.state = "applied" => c.inputs = row.applied
    /\ row.state = "operator_required" => Restored(c, row.applied, b)
    /\ a.step \notin {"idle", "load"} => a.previous = row.applied
    /\ ~a.mutated /\ ~t /\ row.applied # 0 => Serves(c, b)

Good(a, c, t, row) ==
    /\ Follows(c)
    /\ AttemptSound(a)
    /\ AttemptServes(a, c, t, BundleOf(a.set), BundleOf(a.previous))
    /\ RowServes(a, c, t, row, BundleOf(row.applied))

ClusterInv ==
    /\ TypeInv
    /\ \A w \in Workers : Good(work[w], cluster, torn, sync)

SingleWorker == \E w : Workers = {w}

(* The types that the steps of an attempt need. *)
LEMMA AttemptTypes ==
    ASSUME TypeInv, NEW w \in Workers
    PROVE  /\ work \in [Workers -> Attempt]
           /\ work[w] \in Attempt
           /\ cluster \in Cluster
           /\ sync \in SyncRow
           /\ torn \in BOOLEAN
           /\ BundleOf(work[w].set) \in Bundle \cup {Absent}
           /\ BundleOf(work[w].previous) \in Bundle \cup {Absent}
           /\ BundleOf(sync.applied) \in Bundle \cup {Absent}
           /\ work[w].set # 0 => BundleOf(work[w].set) \in Bundle
           /\ work[w].previous # 0 => BundleOf(work[w].previous) \in Bundle
<1>1. /\ CommitType
      /\ work[w].set \in 0..Len(sets)
      /\ work[w].previous \in 0..Len(sets)
      /\ sync.applied \in 0..Len(sets)
  BY DEF TypeInv, TypeOK, Committed
<1>2. /\ work \in [Workers -> Attempt] /\ work[w] \in Attempt
      /\ cluster \in Cluster /\ sync \in SyncRow /\ torn \in BOOLEAN
  BY DEF TypeInv, TypeOK, CommitType, ClusterType
<1>. QED
  BY <1>1, <1>2, SetContents

(* One worker moves, the sets stay: its new attempt is all there is to see. *)
LEMMA OneMoves ==
    ASSUME SingleWorker, TypeInv, TypeInv', NEW w \in Workers, NEW next,
           work' = [work EXCEPT ![w] = next], sets' = sets,
           Good(next, cluster', torn', sync')
    PROVE  ClusterInv'
<1>. SUFFICES ASSUME NEW v \in Workers
              PROVE  Good(work[v], cluster, torn, sync)'
  BY DEF ClusterInv
<1>1. v = w
  BY DEF SingleWorker
<1>2. work'[v] = next
  BY <1>1, AttemptTypes
<1>3. \A r : BundleOf(r)' = BundleOf(r)
  BY DEF BundleOf
<1>. QED
  BY <1>2, <1>3 DEF Good

(***************************************************************************)
(* An attempt that meets an error goes to the restoration or gives up.     *)
(* That is sound if whatever it wrote is known to it, or to torn.          *)
(***************************************************************************)
LEMMA ErrorGood ==
    ASSUME NEW a, NEW next, NEW c, NEW t \in BOOLEAN, NEW row,
           Good(a, c, t, row),
           a.step \notin {"idle", "load", "giveup"} \cup RecordSteps,
           \/ next.step = "giveup"
           \/ next.step = "restoreSecrets" /\ a.mutated /\ a.previous # 0,
           next.set = a.set, next.previous = a.previous,
           next.mutated = a.mutated, next.recovered = a.recovered,
           NEW d, Follows(d), NEW u \in BOOLEAN,
           ~a.mutated /\ ~u => ~t /\ d = c
    PROVE  Good(next, d, u, row)
<1>1. AttemptSound(next)
  BY DEF Good, AttemptSound, UntouchedSteps, ForwardSteps, RestoreSteps,
         RecordSteps
<1>2. AttemptServes(next, d, u, BundleOf(next.set), BundleOf(next.previous))
  BY DEF Good, AttemptSound, AttemptServes, ForwardSteps, RecordSteps
<1>3. RowServes(next, d, u, row, BundleOf(row.applied))
  BY DEF Good, RowServes, FinalStates
<1>. QED
  BY <1>1, <1>2, <1>3 DEF Good

(* The first state: the worker is idle, nothing was ever applied. *)
LEMMA InitCluster == Init => ClusterInv
<1>. SUFFICES ASSUME Init, NEW w \in Workers
              PROVE  Good(work[w], cluster, torn, sync)
  BY InitTypes DEF ClusterInv
<1>1. work[w] = Idle
  BY DEF Init
<1>2. Follows(cluster)
  BY DEF Init, ClusterInit, Follows, Absent
<1>3. AttemptSound(work[w])
  BY <1>1 DEF AttemptSound, Idle, ForwardSteps, RestoreSteps, RecordSteps
<1>4. AttemptServes(work[w], cluster, torn, BundleOf(work[w].set),
                    BundleOf(work[w].previous))
  BY <1>1 DEF AttemptServes, Idle, ForwardSteps
<1>5. RowServes(work[w], cluster, torn, sync, BundleOf(sync.applied))
  BY <1>1 DEF RowServes, Idle, Init, CommitInit, FinalStates
<1>. QED
  BY <1>2, <1>3, <1>4, <1>5 DEF Good

-------------------------------------------------------------------------------
(* The steps of an attempt. *)

(* The attempt after a step to step, with these flags. *)
Moved(a, step, m, r, s) ==
    [a EXCEPT !.step = step, !.fenced = FALSE,
              !.mutated = m, !.recovered = r, !.restarted = s]

LEMMA MovedFields ==
    ASSUME NEW a \in Attempt, NEW step,
           NEW m \in BOOLEAN, NEW r \in BOOLEAN, NEW s \in BOOLEAN
    PROVE  /\ Moved(a, step, m, r, s).step = step
           /\ Moved(a, step, m, r, s).set = a.set
           /\ Moved(a, step, m, r, s).previous = a.previous
           /\ Moved(a, step, m, r, s).mutated = m
           /\ Moved(a, step, m, r, s).recovered = r
           /\ Moved(a, step, m, r, s).restarted = s
           /\ Moved(a, step, m, r, s).seen = a.seen
BY DEF Moved, Attempt

(* Goto in that form, alone or with one flag set. *)
LEMMA GotoMoved ==
    ASSUME TypeInv, NEW w \in Workers, NEW step, NEW yes \in BOOLEAN, yes
    PROVE  LET a == work[w]
           IN  /\ Goto(w, step) = [work EXCEPT ![w] =
                    Moved(a, step, a.mutated, a.recovered, a.restarted)]
               /\ [Goto(w, step) EXCEPT ![w].mutated = TRUE] = [work EXCEPT ![w] =
                    Moved(a, step, yes, a.recovered, a.restarted)]
               /\ [Goto(w, step) EXCEPT ![w].recovered = TRUE] = [work EXCEPT ![w] =
                    Moved(a, step, a.mutated, yes, a.restarted)]
               /\ [Goto(w, step) EXCEPT ![w].restarted = TRUE] = [work EXCEPT ![w] =
                    Moved(a, step, a.mutated, a.recovered, yes)]
BY AttemptTypes DEF Goto, Moved, Attempt

(* A running attempt to another step of it: what is left to be shown. *)
LEMMA MoveGood ==
    ASSUME SingleWorker, ClusterInv, TypeInv', NEW w \in Workers, NEW step,
           NEW m \in BOOLEAN, NEW r \in BOOLEAN, NEW s \in BOOLEAN,
           work' = [work EXCEPT ![w] = Moved(work[w], step, m, r, s)],
           UNCHANGED <<commitVars, sync>>,
           work[w].step \notin {"idle", "load"},
           step \notin {"idle", "load"} \cup RecordSteps,
           \/ m
           \/ /\ ~work[w].mutated
              /\ torn' = torn
              /\ cluster'.template = cluster.template
              /\ cluster'.rolling = cluster.rolling
              /\ cluster'.pods = cluster.pods,
           Follows(cluster'),
           AttemptSound(Moved(work[w], step, m, r, s)),
           AttemptServes(Moved(work[w], step, m, r, s), cluster', torn',
                         BundleOf(work[w].set), BundleOf(work[w].previous))
    PROVE  ClusterInv'
<1>. DEFINE next == Moved(work[w], step, m, r, s)
<1>1. /\ next.step = step
      /\ next.set = work[w].set
      /\ next.previous = work[w].previous
      /\ next.mutated = m
  BY AttemptTypes, MovedFields DEF ClusterInv
<1>2. Good(work[w], cluster, torn, sync)
  BY DEF ClusterInv
<1>. HIDE DEF next
<1>3. RowServes(next, cluster', torn', sync', BundleOf(sync'.applied))
  BY <1>1, <1>2 DEF Good, RowServes, FinalStates, Serves
<1>4. Good(next, cluster', torn', sync')
  BY <1>1, <1>3 DEF Good, next
<1>. QED
  BY <1>4, OneMoves DEF ClusterInv, next, commitVars

(* The steps of run_once that write or wait for the claimed set. *)
LEMMA AdvanceKeepsCluster ==
    ASSUME SingleWorker, ClusterInv, TypeInv', NEW w \in Workers,
           \/ Preflight(w) \/ ApplySecrets(w) \/ ApplyBundle(w)
           \/ AwaitRuntime(w) \/ FallBack(w)
           \/ RestartDeployment(w) \/ AwaitRollout(w)
    PROVE  ClusterInv'
<1>. DEFINE a == work[w]
            new == BundleOf(work[w].set)
            old == BundleOf(work[w].previous)
<1>1. /\ TypeInv
      /\ a \in Attempt
      /\ cluster \in Cluster
      /\ new \in Bundle \cup {Absent}
      /\ a.set # 0 => new \in Bundle
      /\ Follows(cluster)
      /\ AttemptSound(a)
      /\ AttemptServes(a, cluster, torn, new, old)
      /\ RowServes(a, cluster, torn, sync, BundleOf(sync.applied))
  BY AttemptTypes DEF ClusterInv, Good
<1>2. new.replicas = 0 \/ new.replicas = 1
  BY <1>1 DEF Bundle, Absent
<1>3. /\ a.mutated \in BOOLEAN /\ a.recovered \in BOOLEAN
      /\ a.restarted \in BOOLEAN
  BY <1>1 DEF Attempt
<1>. PICK yes \in BOOLEAN : yes
  OBVIOUS
<1>4. CASE Preflight(w)
  <2>. DEFINE next == Moved(a, "secrets", a.mutated, a.recovered, a.restarted)
  <2>1. /\ work' = [work EXCEPT ![w] = next]
        /\ a.step = "preflight"
        /\ UNCHANGED <<cluster, commitVars, sync, torn>>
    BY <1>1, <1>4, GotoMoved DEF Preflight, Ready, At
  <2>f. /\ next.step = "secrets"
        /\ next.set = a.set /\ next.previous = a.previous
        /\ next.mutated = a.mutated
        /\ next.recovered = a.recovered
        /\ next.restarted = a.restarted
        /\ next.seen = a.seen
    BY <1>1, <1>3, MovedFields
  <2>. HIDE DEF next
  <2>2. AttemptSound(next)
    BY <1>1, <2>f, <2>1 DEF AttemptSound, UntouchedSteps, ForwardSteps,
                            RestoreSteps, RecordSteps
  <2>3. AttemptServes(next, cluster', torn', new, old)
    BY <1>1, <2>f, <2>1, <2>2 DEF AttemptSound, AttemptServes, ForwardSteps
  <2>4. ~a.mutated
    BY <1>1, <2>1 DEF AttemptSound, UntouchedSteps
  <2>. QED
    BY <1>1, <2>1, <2>2, <2>3, <2>4, <1>3, MoveGood DEF RecordSteps, next
<1>5. CASE ApplySecrets(w)
  <2>. DEFINE next == Moved(a, "bundle", yes, a.recovered, a.restarted)
  <2>1. /\ work' = [work EXCEPT ![w] = next]
        /\ a.step = "secrets"
        /\ cluster' = ApplyInputs(cluster, a.set)
        /\ UNCHANGED <<commitVars, sync, torn>>
    BY <1>1, <1>5, GotoMoved DEF ApplySecrets, Ready, At
  <2>f. /\ next.step = "bundle"
        /\ next.set = a.set /\ next.previous = a.previous
        /\ next.mutated
        /\ next.recovered = a.recovered
        /\ next.restarted = a.restarted
        /\ next.seen = a.seen
    BY <1>1 DEF Moved, Attempt
  <2>. HIDE DEF next
  <2>2. AttemptSound(next)
    BY <1>1, <2>f, <2>1 DEF AttemptSound, UntouchedSteps, ForwardSteps,
                            RestoreSteps, RecordSteps
  <2>3. /\ cluster'.inputs = a.set
        /\ cluster'.template = cluster.template
        /\ cluster'.rolling = cluster.rolling
        /\ cluster'.pods = cluster.pods
    BY <1>1, <2>1 DEF ApplyInputs, Cluster
  <2>4. ~a.mutated /\ a.previous = sync.applied
    BY <1>1, <2>1 DEF AttemptSound, UntouchedSteps, RowServes
  <2>5. AttemptServes(next, cluster', torn', new, old)
    BY <1>1, <2>f, <2>1, <2>2, <2>3, <2>4
       DEF AttemptSound, AttemptServes, ForwardSteps, RowServes, Serves
  <2>6. Follows(cluster')
    BY <1>1, <2>1, CommandFollows
  <2>. QED
    BY <1>1, <2>1, <2>2, <2>5, <2>6, <1>3, MoveGood DEF RecordSteps, next
<1>6. ASSUME a.step \in {"bundle", "wait"},
             cluster' = ApplyTemplate(cluster, new),
             NEW step, step = AfterBundle(w), work' = Goto(w, step),
             UNCHANGED <<commitVars, sync, torn>>
      PROVE  ClusterInv'
  <2>. DEFINE next == Moved(a, step, a.mutated, a.recovered, a.restarted)
  <2>1. work' = [work EXCEPT ![w] = next]
    BY <1>1, <1>6, GotoMoved
  <2>2. /\ step \in {"record", "rollout", "restart"}
        /\ step = "record" <=> new.replicas = 0
    BY <1>6 DEF AfterBundle
  <2>3. a.mutated /\ ~a.recovered /\ a.set # 0 /\ cluster.inputs = a.set
    BY <1>1, <1>6 DEF AttemptSound, AttemptServes, ForwardSteps
  <2>4. /\ cluster'.inputs = a.set /\ cluster'.template = new
        /\ new.replicas = 0 => Serves(cluster', new)
    BY <1>1, <1>6, <2>3, TemplateApplied
  <2>f. /\ next.step = step
        /\ next.set = a.set /\ next.previous = a.previous
        /\ next.mutated = a.mutated
        /\ next.recovered = a.recovered
        /\ next.restarted = a.restarted
        /\ next.seen = a.seen
    BY <1>1, <1>3, MovedFields
  <2>. HIDE DEF next
  <2>5. AttemptSound(next)
    BY <1>1, <2>f, <2>2, <2>3 DEF AttemptSound, UntouchedSteps, ForwardSteps,
                            RestoreSteps, RecordSteps
  <2>6. AttemptServes(next, cluster', torn', new, old)
    BY <1>2, <2>f, <2>2, <2>3, <2>4 DEF AttemptServes, ForwardSteps
  <2>7. Follows(cluster')
    BY <1>1, <1>6, CommandFollows
  <2>. QED
    BY <1>1, <1>3, <1>6, <2>1, <2>2, <2>3, <2>5, <2>6, <2>7, MoveGood DEF RecordSteps, next
<1>7. CASE ApplyBundle(w)
  <2>1. CASE ~LiveReloadCandidate(w)
    BY <1>6, <1>7, <2>1 DEF ApplyBundle, Ready, At
  <2>2. CASE LiveReloadCandidate(w)
    <3>. DEFINE step == IF new.replicas = 0 THEN "record" ELSE "wait"
                next == Moved(a, step, a.mutated, a.recovered, a.restarted)
    <3>1. /\ work' = [work EXCEPT ![w] = next]
          /\ a.step = "bundle"
          /\ UNCHANGED <<cluster, commitVars, sync, torn>>
      BY <1>1, <1>7, <2>2, GotoMoved DEF ApplyBundle, Ready, At
    <3>2. /\ a.mutated /\ ~a.recovered /\ ~a.restarted /\ a.set # 0
          /\ cluster.inputs = a.set
      BY <1>1, <3>1 DEF AttemptSound, AttemptServes, ForwardSteps, UntouchedSteps
    <3>3. ~torn => Serves(cluster, new)
      <4>1. a.previous # 0 /\ Resources(new) = Resources(old)
        BY <2>2 DEF LiveReloadCandidate
      <4>2. ~torn => Serves(cluster, old)
        BY <1>1, <3>1, <4>1 DEF AttemptServes
      <4>. QED
        BY <4>1, <4>2 DEF Serves, Resources
    <3>4. step \in {"record", "wait"}
      OBVIOUS
    <3>. HIDE DEF step
    <3>f. /\ next.step = step
          /\ next.set = a.set /\ next.previous = a.previous
          /\ next.mutated = a.mutated
          /\ next.recovered = a.recovered
          /\ next.restarted = a.restarted
          /\ next.seen = a.seen
      BY <1>1, <1>3, MovedFields
    <3>. HIDE DEF next
    <3>5. AttemptSound(next)
      BY <1>1, <3>f, <3>2, <3>4 DEF AttemptSound, UntouchedSteps, ForwardSteps,
                            RestoreSteps, RecordSteps
    <3>6. AttemptServes(next, cluster', torn', new, old)
      BY <3>f, <3>1, <3>2, <3>3, <3>4 DEF AttemptServes, ForwardSteps
    <3>. QED
      BY <1>1, <3>1, <3>2, <3>4, <3>5, <3>6, <1>3, MoveGood DEF RecordSteps, next
  <2>. QED
    BY <2>1, <2>2
<1>8. CASE FallBack(w)
  BY <1>6, <1>8 DEF FallBack, Ready, At
<1>9. CASE AwaitRuntime(w)
  <2>. DEFINE next == Moved(a, "record", a.mutated, a.recovered, a.restarted)
  <2>1. /\ work' = [work EXCEPT ![w] = next]
        /\ a.step = "wait"
        /\ UNCHANGED <<cluster, commitVars, sync, torn>>
    BY <1>1, <1>9, GotoMoved DEF AwaitRuntime, Ready, At
  <2>2. /\ a.mutated /\ ~a.restarted /\ ~a.recovered
        /\ cluster.inputs = a.set
    BY <1>1, <2>1 DEF AttemptSound, AttemptServes, ForwardSteps, UntouchedSteps
  <2>f. /\ next.step = "record"
        /\ next.set = a.set /\ next.previous = a.previous
        /\ next.mutated = a.mutated
        /\ next.recovered = a.recovered
        /\ next.restarted = a.restarted
        /\ next.seen = a.seen
    BY <1>1, <1>3, MovedFields
  <2>. HIDE DEF next
  <2>3. AttemptSound(next)
    BY <1>1, <2>f, <2>1, <2>2 DEF AttemptSound, UntouchedSteps, ForwardSteps,
                            RestoreSteps, RecordSteps
  <2>4. AttemptServes(next, cluster', torn', new, old)
    BY <1>1, <2>f, <2>1, <2>2 DEF AttemptServes, ForwardSteps
  <2>. QED
    BY <1>1, <2>1, <2>2, <2>3, <2>4, <1>3, MoveGood DEF RecordSteps, next
<1>10. CASE RestartDeployment(w)
  <2>. DEFINE next == Moved(a, "status", a.mutated, a.recovered, yes)
  <2>1. /\ work' = [work EXCEPT ![w] = next]
        /\ a.step = "restart"
        /\ cluster' = RestartPods(cluster)
        /\ UNCHANGED <<commitVars, sync, torn>>
    BY <1>1, <1>10, GotoMoved DEF RestartDeployment, Ready, At
  <2>2. /\ a.mutated /\ ~a.recovered
        /\ cluster'.inputs = a.set
        /\ cluster'.template = new /\ new.replicas = 1
    BY <1>1, <2>1 DEF AttemptSound, AttemptServes, ForwardSteps, RestartPods,
                      Cluster
  <2>f. /\ next.step = "status"
        /\ next.set = a.set /\ next.previous = a.previous
        /\ next.mutated = a.mutated
        /\ next.recovered = a.recovered
        /\ next.restarted
        /\ next.seen = a.seen
    BY <1>1 DEF Moved, Attempt
  <2>. HIDE DEF next
  <2>3. AttemptSound(next)
    BY <1>1, <2>f, <2>1, <2>2 DEF AttemptSound, UntouchedSteps, ForwardSteps,
                            RestoreSteps, RecordSteps
  <2>4. AttemptServes(next, cluster', torn', new, old)
    BY <2>f, <2>1, <2>2 DEF AttemptServes, ForwardSteps
  <2>5. Follows(cluster')
    BY <1>1, <2>1, CommandFollows
  <2>. QED
    BY <1>1, <2>1, <2>2, <2>3, <2>4, <2>5, <1>3, MoveGood DEF RecordSteps, next
<1>11. CASE AwaitRollout(w)
  <2>. DEFINE next == Moved(a, "record", a.mutated, a.recovered, a.restarted)
  <2>1. /\ work' = [work EXCEPT ![w] = next]
        /\ a.step \in {"rollout", "status"}
        /\ RolledOut(cluster)
        /\ UNCHANGED <<cluster, commitVars, sync, torn>>
    BY <1>1, <1>11, GotoMoved DEF AwaitRollout, Ready, At
  <2>2. /\ a.mutated /\ ~a.recovered
        /\ cluster.inputs = a.set
        /\ cluster.template = new /\ new.replicas = 1
    BY <1>1, <2>1 DEF AttemptSound, AttemptServes, ForwardSteps
  <2>3. Serves(cluster, new)
    BY <1>1, <2>1, <2>2, RolledOutServes
  <2>f. /\ next.step = "record"
        /\ next.set = a.set /\ next.previous = a.previous
        /\ next.mutated = a.mutated
        /\ next.recovered = a.recovered
        /\ next.restarted = a.restarted
        /\ next.seen = a.seen
    BY <1>1, <1>3, MovedFields
  <2>. HIDE DEF next
  <2>4. AttemptSound(next)
    BY <1>1, <2>f, <2>1, <2>2 DEF AttemptSound, UntouchedSteps, ForwardSteps,
                            RestoreSteps, RecordSteps
  <2>5. AttemptServes(next, cluster', torn', new, old)
    BY <2>f, <2>1, <2>2, <2>3 DEF AttemptServes, ForwardSteps
  <2>. QED
    BY <1>1, <2>1, <2>2, <2>4, <2>5, <1>3, MoveGood DEF RecordSteps, next
<1>. QED
  BY <1>4, <1>5, <1>7, <1>8, <1>9, <1>10, <1>11

(* What the other steps find: the parts of the invariant, for one worker. *)
LEMMA Parts ==
    ASSUME ClusterInv, NEW w \in Workers
    PROVE  /\ TypeInv
           /\ work[w] \in Attempt
           /\ cluster \in Cluster
           /\ torn \in BOOLEAN
           /\ work[w].mutated \in BOOLEAN
           /\ work[w].recovered \in BOOLEAN
           /\ work[w].restarted \in BOOLEAN
           /\ Good(work[w], cluster, torn, sync)
           /\ Follows(cluster)
           /\ AttemptSound(work[w])
           /\ AttemptServes(work[w], cluster, torn, BundleOf(work[w].set),
                            BundleOf(work[w].previous))
           /\ RowServes(work[w], cluster, torn, sync, BundleOf(sync.applied))
BY AttemptTypes DEF ClusterInv, Good, Attempt

(* The restoration writes the previous set back and waits for it. *)
LEMMA RestoreKeepsCluster ==
    ASSUME SingleWorker, ClusterInv, TypeInv', NEW w \in Workers,
           RestoreSecrets(w) \/ RestoreBundle(w) \/ AwaitRestored(w)
    PROVE  ClusterInv'
<1>. DEFINE a == work[w]
            new == BundleOf(work[w].set)
            old == BundleOf(work[w].previous)
<1>1. /\ TypeInv
      /\ a \in Attempt
      /\ cluster \in Cluster
      /\ a.mutated \in BOOLEAN /\ a.recovered \in BOOLEAN
      /\ a.restarted \in BOOLEAN
      /\ Follows(cluster)
      /\ AttemptSound(a)
      /\ AttemptServes(a, cluster, torn, new, old)
  BY Parts
<1>2. old \in Bundle \cup {Absent} /\ (old.replicas = 0 \/ old.replicas = 1)
  BY <1>1, AttemptTypes DEF Bundle, Absent
<1>3. a.step \in RestoreSteps => /\ a.mutated /\ ~a.recovered
                                 /\ a.set # 0 /\ a.previous # 0
  BY <1>1 DEF AttemptSound, RestoreSteps
<1>. PICK yes \in BOOLEAN : yes
  OBVIOUS
<1>4. CASE RestoreSecrets(w)
  <2>. DEFINE next == Moved(a, "restoreBundle", a.mutated, a.recovered, a.restarted)
  <2>1. /\ work' = [work EXCEPT ![w] = next]
        /\ a.step = "restoreSecrets"
        /\ cluster' = ApplyInputs(cluster, a.previous)
        /\ UNCHANGED <<commitVars, sync, torn>>
    BY <1>1, <1>4, GotoMoved DEF RestoreSecrets, Ready, At
  <2>2. /\ next.step = "restoreBundle"
        /\ next.set = a.set /\ next.previous = a.previous
        /\ next.mutated = a.mutated
        /\ next.recovered = a.recovered
    BY <1>1, MovedFields
  <2>. HIDE DEF next
  <2>3. AttemptSound(next)
    BY <1>3, <2>1, <2>2 DEF AttemptSound, UntouchedSteps, ForwardSteps,
                            RestoreSteps, RecordSteps
  <2>4. cluster'.inputs = a.previous /\ Follows(cluster')
    BY <1>1, <2>1, CommandFollows DEF ApplyInputs, Cluster
  <2>5. AttemptServes(next, cluster', torn', new, old)
    BY <1>3, <2>1, <2>2, <2>4 DEF AttemptServes, ForwardSteps, RestoreSteps
  <2>. QED
    BY <1>1, <1>3, <2>1, <2>3, <2>4, <2>5, MoveGood
       DEF RecordSteps, RestoreSteps, next
<1>5. CASE RestoreBundle(w) /\ old.replicas = 0
  <2>. DEFINE next == Moved(a, "giveup", a.mutated, yes, a.restarted)
  <2>1. /\ work' = [work EXCEPT ![w] = next]
        /\ a.step = "restoreBundle"
        /\ cluster' = ApplyTemplate(cluster, old)
        /\ UNCHANGED <<commitVars, sync, torn>>
    BY <1>1, <1>5, GotoMoved DEF RestoreBundle, Ready, At
  <2>2. /\ next.step = "giveup"
        /\ next.set = a.set /\ next.previous = a.previous
        /\ next.mutated = a.mutated
    BY <1>1 DEF Moved, Attempt
  <2>. HIDE DEF next
  <2>3. AttemptSound(next)
    BY <1>3, <2>1, <2>2 DEF AttemptSound, UntouchedSteps, ForwardSteps,
                            RestoreSteps, RecordSteps
  <2>4. cluster.inputs = a.previous
    BY <1>1, <2>1 DEF AttemptServes
  <2>5. Restored(cluster', a.previous, old) /\ Follows(cluster')
    BY <1>1, <1>2, <1>5, <2>1, <2>4, CommandFollows, TemplateApplied DEF Restored
  <2>6. AttemptServes(next, cluster', torn', new, old)
    BY <2>2, <2>5 DEF AttemptServes, ForwardSteps
  <2>. QED
    BY <1>1, <1>3, <2>1, <2>3, <2>5, <2>6, MoveGood
       DEF RecordSteps, RestoreSteps, next
<1>6. CASE RestoreBundle(w) /\ old.replicas # 0
  <2>. DEFINE next == Moved(a, "restoreStatus", a.mutated, a.recovered, a.restarted)
              c == ApplyTemplate(cluster, old)
  <2>1. /\ work' = [work EXCEPT ![w] = next]
        /\ a.step = "restoreBundle"
        /\ cluster' = RestartPods(c)
        /\ UNCHANGED <<commitVars, sync, torn>>
    BY <1>1, <1>6, GotoMoved DEF RestoreBundle, Ready, At
  <2>2. /\ next.step = "restoreStatus"
        /\ next.set = a.set /\ next.previous = a.previous
        /\ next.mutated = a.mutated
        /\ next.recovered = a.recovered
    BY <1>1, MovedFields
  <2>. HIDE DEF next
  <2>3. AttemptSound(next)
    BY <1>3, <2>1, <2>2 DEF AttemptSound, UntouchedSteps, ForwardSteps,
                            RestoreSteps, RecordSteps
  <2>4. cluster.inputs = a.previous
    BY <1>1, <2>1 DEF AttemptServes
  <2>5. /\ cluster'.inputs = a.previous
        /\ cluster'.template = old
        /\ cluster'.rolling
    BY <1>1, <2>1, <2>4 DEF Cluster, ApplyTemplate, RestartPods
  <2>6. AttemptServes(next, cluster', torn', new, old)
    BY <1>2, <1>3, <1>6, <2>1, <2>2, <2>5
       DEF AttemptServes, ForwardSteps, RestoreSteps
  <2>7. Follows(cluster')
    BY <2>5 DEF Follows
  <2>. QED
    BY <1>1, <1>3, <2>1, <2>3, <2>6, <2>7, MoveGood
       DEF RecordSteps, RestoreSteps, next
<1>7. CASE AwaitRestored(w)
  <2>. DEFINE next == Moved(a, "giveup", a.mutated, yes, a.restarted)
  <2>1. /\ work' = [work EXCEPT ![w] = next]
        /\ a.step = "restoreStatus"
        /\ RolledOut(cluster)
        /\ UNCHANGED <<cluster, commitVars, sync, torn>>
    BY <1>1, <1>7, GotoMoved DEF AwaitRestored, Ready, At
  <2>2. /\ next.step = "giveup"
        /\ next.set = a.set /\ next.previous = a.previous
        /\ next.mutated = a.mutated
    BY <1>1 DEF Moved, Attempt
  <2>. HIDE DEF next
  <2>3. AttemptSound(next)
    BY <1>3, <2>1, <2>2 DEF AttemptSound, UntouchedSteps, ForwardSteps,
                            RestoreSteps, RecordSteps
  <2>4. Restored(cluster, a.previous, old)
    BY <1>1, <2>1, RolledOutServes DEF AttemptServes, Restored, RolledOut
  <2>5. AttemptServes(next, cluster', torn', new, old)
    BY <2>1, <2>2, <2>4 DEF AttemptServes, ForwardSteps
  <2>. QED
    BY <1>1, <1>3, <2>1, <2>3, <2>5, MoveGood DEF RecordSteps, RestoreSteps, next
<1>. QED
  BY <1>4, <1>5, <1>6, <1>7

(* Errors: the claim was taken over, or a command failed. *)
LEMMA ErrorKeepsCluster ==
    ASSUME SingleWorker, ClusterInv, TypeInv', NEW w \in Workers,
           \/ EnterPhase(w) /\ sync.token # w
           \/ RejectSuccess(w)
           \/ CommandFails(w)
    PROVE  ClusterInv'
<1>. PICK step : step = OnError(w)
  OBVIOUS
<1>. DEFINE a == work[w]
            next == [a EXCEPT !.step = step, !.fenced = FALSE]
<1>1. /\ TypeInv
      /\ a \in Attempt
      /\ cluster \in Cluster
      /\ torn \in BOOLEAN
      /\ Good(a, cluster, torn, sync)
      /\ Follows(cluster)
      /\ AttemptSound(a)
  BY Parts
<1>2. \/ step = "giveup"
      \/ step = "restoreSecrets" /\ a.mutated /\ a.previous # 0
  BY DEF OnError
<1>3. /\ a.step \notin {"idle", "load", "giveup"} \cup RecordSteps
      /\ work' = Goto(w, step)
      /\ UNCHANGED <<commitVars, sync>>
  BY DEF EnterPhase, RejectSuccess, CommandFails, PhasedSteps, CommandSteps,
         RestoreSteps, RecordSteps, Ready, At
<1>4. work' = [work EXCEPT ![w] = next]
  BY <1>1, <1>3, AttemptTypes DEF Goto, Attempt
<1>5. /\ Follows(cluster')
      /\ torn' \in BOOLEAN
      /\ ~a.mutated /\ ~torn' => ~torn /\ cluster' = cluster
  <2>1. CASE EnterPhase(w) \/ RejectSuccess(w)
    <3>1. cluster' = cluster /\ torn' = torn
      BY <2>1 DEF EnterPhase, RejectSuccess
    <3>. QED
      BY <1>1, <3>1
  <2>2. CASE CommandFails(w)
    <3>1. Follows(cluster')
      BY <1>1, <2>2, EffectFollows DEF CommandFails
    <3>2. torn' = (torn \/ (At(w, "secrets") /\ cluster' # cluster))
      BY <2>2 DEF CommandFails
    <3>3. ASSUME ~a.mutated, a.step # "secrets" PROVE cluster' = cluster
      <4>1. a.step = "preflight"
        BY <1>1, <2>2, <3>3 DEF CommandFails, CommandSteps, RestoreSteps, Ready,
                                At, AttemptSound, ForwardSteps
      <4>2. CommandEffect(w) = cluster
        BY <4>1 DEF CommandEffect, At
      <4>. QED
        BY <2>2, <4>2 DEF CommandFails
    <3>. QED
      BY <1>1, <3>1, <3>2, <3>3 DEF At
  <2>. QED
    BY <2>1, <2>2
<1>6. /\ next.step = step
      /\ next.set = a.set /\ next.previous = a.previous
      /\ next.mutated = a.mutated /\ next.recovered = a.recovered
  BY <1>1 DEF Attempt
<1>. HIDE DEF next
<1>7. Good(next, cluster', torn', sync)
  <2>. PICK d : d = cluster'
    OBVIOUS
  <2>1. PICK u \in BOOLEAN : u = torn'
    BY <1>5
  <2>2. Follows(d) /\ (~a.mutated /\ ~u => ~torn /\ d = cluster)
    BY <1>5, <2>1
  <2>3. Good(next, d, u, sync)
    BY <1>1, <1>2, <1>3, <1>6, <2>2, ErrorGood
  <2>. QED
    BY <2>1, <2>3
<1>. QED
  BY <1>1, <1>3, <1>4, <1>7, OneMoves DEF commitVars

-------------------------------------------------------------------------------
(* Claiming, loading and recording. *)

(* A claimed row is in no final state, and the attempt starts afresh. *)
LEMMA ClaimKeepsCluster ==
    ASSUME SingleWorker, ClusterInv, TypeInv', NEW w \in Workers, Claim(w)
    PROVE  ClusterInv'
<1>. DEFINE next == [Idle EXCEPT !.step = "load", !.set = sync.desired]
<1>1. /\ work' = [work EXCEPT ![w] = next]
      /\ UNCHANGED <<cluster, commitVars, torn>>
      /\ work[w].step = "idle"
      /\ sync' = [sync EXCEPT !.state = "applying", !.token = w, !.leased = TRUE]
      /\ sync.desired # 0
  BY DEF Claim, Claimable, Deployed, At
<1>2. /\ next.step = "load" /\ next.set = sync.desired /\ next.previous = 0
      /\ next.mutated = FALSE /\ next.recovered = FALSE /\ next.restarted = FALSE
  BY DEF Idle
<1>. HIDE DEF next
<1>3. sync'.state = "applying" /\ sync'.applied = sync.applied
  BY <1>1, AttemptTypes DEF ClusterInv, SyncRow
<1>4. AttemptSound(next)
  BY <1>1, <1>2 DEF AttemptSound, UntouchedSteps, ForwardSteps, RestoreSteps,
                    RecordSteps
<1>5. AttemptServes(next, cluster', torn', BundleOf(next.set),
                    BundleOf(next.previous))
  BY <1>2 DEF AttemptServes, ForwardSteps
<1>6. ~work[w].mutated
  BY <1>1, Parts DEF AttemptSound, UntouchedSteps
<1>7. RowServes(next, cluster', torn', sync', BundleOf(sync'.applied))
  BY <1>1, <1>2, <1>3, <1>6, Parts DEF RowServes, FinalStates
<1>8. Good(next, cluster', torn', sync')
  BY <1>1, <1>4, <1>5, <1>7, Parts DEF Good
<1>. QED
  BY <1>1, <1>8, Parts, OneMoves DEF commitVars

(* Steps that keep the cluster and what the row says of it. *)
LEMMA QuietKeepsCluster ==
    ASSUME SingleWorker, ClusterInv, TypeInv', NEW w \in Workers,
           \/ LoadWork(w)
           \/ EnterPhase(w) /\ sync.token = w
           \/ BeginSuccess(w) \/ BeginFailure(w)
    PROVE  ClusterInv'
<1>. DEFINE a == work[w]
            new == BundleOf(work[w].set)
            old == BundleOf(work[w].previous)
<1>1. /\ TypeInv
      /\ a \in Attempt
      /\ Follows(cluster)
      /\ AttemptSound(a)
      /\ AttemptServes(a, cluster, torn, new, old)
      /\ RowServes(a, cluster, torn, sync, BundleOf(sync.applied))
      /\ work \in [Workers -> Attempt]
      /\ sync \in SyncRow
  BY Parts, AttemptTypes
<1>2. CASE LoadWork(w)
  <2>. DEFINE next == [a EXCEPT !.step = "preflight", !.fenced = FALSE,
                                !.previous = sync.applied]
  <2>1. /\ work' = [work EXCEPT ![w] = next]
        /\ a.step = "load"
        /\ UNCHANGED <<cluster, commitVars, sync, torn>>
    BY <1>1, <1>2 DEF LoadWork, Goto, At, Attempt
  <2>2. /\ next.step = "preflight"
        /\ next.set = a.set /\ next.previous = sync.applied
        /\ next.mutated = a.mutated
        /\ next.recovered = a.recovered
        /\ next.restarted = a.restarted
    BY <1>1 DEF Attempt
  <2>. HIDE DEF next
  <2>3. AttemptSound(next)
    BY <1>1, <2>1, <2>2 DEF AttemptSound, UntouchedSteps, ForwardSteps,
                            RestoreSteps, RecordSteps
  <2>4. ~a.recovered
    BY <1>1, <2>1 DEF AttemptSound
  <2>5. AttemptServes(next, cluster, torn, new, BundleOf(sync.applied))
    BY <2>2, <2>4 DEF AttemptServes, ForwardSteps
  <2>6. RowServes(next, cluster, torn, sync, BundleOf(sync.applied))
    BY <1>1, <2>1, <2>2 DEF RowServes
  <2>7. Good(next, cluster', torn', sync')
    BY <1>1, <2>1, <2>2, <2>3, <2>5, <2>6 DEF Good
  <2>. QED
    BY <1>1, <2>1, <2>7, OneMoves DEF commitVars
<1>3. CASE EnterPhase(w) /\ sync.token = w
  <2>. DEFINE next == [a EXCEPT !.fenced = TRUE]
  <2>1. /\ work' = [work EXCEPT ![w] = next]
        /\ sync' = [sync EXCEPT !.leased = TRUE]
        /\ UNCHANGED <<cluster, commitVars, torn>>
    BY <1>1, <1>3 DEF EnterPhase, Attempt
  <2>2. /\ next.step = a.step
        /\ next.set = a.set /\ next.previous = a.previous
        /\ next.mutated = a.mutated
        /\ next.recovered = a.recovered
        /\ next.restarted = a.restarted
        /\ next.seen = a.seen
        /\ sync'.state = sync.state /\ sync'.applied = sync.applied
    BY <1>1, <2>1 DEF Attempt, SyncRow
  <2>. HIDE DEF next
  <2>3. AttemptSound(next)
    BY <1>1, <2>2 DEF AttemptSound
  <2>4. AttemptServes(next, cluster, torn, new, old)
    BY <1>1, <2>2 DEF AttemptServes
  <2>5. RowServes(next, cluster, torn, sync', BundleOf(sync.applied))
    BY <1>1, <2>2 DEF RowServes
  <2>6. Good(next, cluster', torn', sync')
    BY <1>1, <2>1, <2>2, <2>3, <2>4, <2>5 DEF Good
  <2>. QED
    BY <1>1, <2>1, <2>6, OneMoves DEF commitVars
<1>4. CASE BeginSuccess(w) \/ BeginFailure(w)
  <2>1. PICK step \in RecordSteps :
          /\ ReadRow(w, step)
          /\ \/ a.step = "record" /\ step = "succeeding"
             \/ a.step = "giveup" /\ step = "failing"
    BY <1>4 DEF BeginSuccess, BeginFailure, RecordSteps, At
  <2>. DEFINE next == [a EXCEPT !.step = step, !.fenced = FALSE,
                         !.seen = [desired |-> sync.desired,
                                   state |-> sync.state]]
  <2>2. /\ work' = [work EXCEPT ![w] = next]
        /\ UNCHANGED <<cluster, commitVars, sync, torn>>
    BY <1>1, <1>4, <2>1 DEF ReadRow, BeginSuccess, BeginFailure, Goto, Attempt
  <2>3. /\ next.step = step
        /\ next.set = a.set /\ next.previous = a.previous
        /\ next.mutated = a.mutated
        /\ next.recovered = a.recovered
        /\ next.restarted = a.restarted
        /\ next.seen.state = sync.state
    BY <1>1 DEF Attempt
  <2>. HIDE DEF next
  <2>4. sync.state \notin FinalStates
    BY <1>1, <2>1 DEF RowServes
  <2>5. AttemptSound(next)
    BY <1>1, <2>1, <2>3, <2>4 DEF AttemptSound, UntouchedSteps, ForwardSteps,
                                  RestoreSteps, RecordSteps
  <2>6. AttemptServes(next, cluster, torn, new, old)
    BY <1>1, <2>1, <2>3 DEF AttemptServes, ForwardSteps
  <2>7. RowServes(next, cluster, torn, sync, BundleOf(sync.applied))
    BY <1>1, <2>1, <2>3, <2>4 DEF RowServes, FinalStates
  <2>8. Good(next, cluster', torn', sync')
    BY <1>1, <2>2, <2>3, <2>5, <2>6, <2>7 DEF Good
  <2>. QED
    BY <1>1, <2>2, <2>8, OneMoves DEF commitVars
<1>. QED
  BY <1>2, <1>3, <1>4

(* The end of an attempt: only the row and the cluster matter then. *)
LEMMA EndGood ==
    ASSUME SingleWorker, ClusterInv, TypeInv', NEW w \in Workers,
           work' = [work EXCEPT ![w] = Idle], sets' = sets, Follows(cluster'),
           sync'.state \in FinalStates => sync'.applied # 0,
           sync'.state = "applied" => cluster'.inputs = sync'.applied,
           sync'.state = "operator_required" =>
             Restored(cluster', sync'.applied, BundleOf(sync'.applied)),
           ~torn' /\ sync'.applied # 0 =>
             Serves(cluster', BundleOf(sync'.applied))
    PROVE  ClusterInv'
<1>1. /\ Idle.step = "idle" /\ Idle.mutated = FALSE
      /\ Idle.recovered = FALSE /\ Idle.restarted = FALSE
  BY DEF Idle
<1>2. AttemptSound(Idle)
  BY <1>1 DEF AttemptSound, UntouchedSteps, ForwardSteps, RestoreSteps,
              RecordSteps
<1>3. AttemptServes(Idle, cluster', torn', BundleOf(Idle.set),
                    BundleOf(Idle.previous))
  BY <1>1 DEF AttemptServes, ForwardSteps
<1>4. RowServes(Idle, cluster', torn', sync', BundleOf(sync'.applied))
  BY <1>1 DEF RowServes, FinalStates
<1>5. Good(Idle, cluster', torn', sync')
  BY <1>2, <1>3, <1>4 DEF Good
<1>. QED
  BY <1>5, Parts, OneMoves

(* The attempt is over, recorded or not. *)
LEMMA EndKeepsCluster ==
    ASSUME SingleWorker, ClusterInv, TypeInv', NEW w \in Workers,
           \/ Crash(w) \/ AbandonFailure(w)
           \/ RecordSuccess(w) \/ RecordFailure(w)
    PROVE  ClusterInv'
<1>. DEFINE a == work[w]
            new == BundleOf(work[w].set)
            old == BundleOf(work[w].previous)
<1>1. /\ TypeInv
      /\ a \in Attempt
      /\ sync \in SyncRow
      /\ torn \in BOOLEAN
      /\ a.mutated \in BOOLEAN /\ a.recovered \in BOOLEAN
      /\ a.restarted \in BOOLEAN
      /\ Follows(cluster)
      /\ AttemptSound(a)
      /\ AttemptServes(a, cluster, torn, new, old)
      /\ RowServes(a, cluster, torn, sync, BundleOf(sync.applied))
  BY Parts, AttemptTypes
<1>2. a.step # "idle" => sync.state \notin FinalStates
  BY <1>1 DEF RowServes
<1>3. CASE Crash(w) \/ AbandonFailure(w)
  <2>1. /\ work' = [work EXCEPT ![w] = Idle]
        /\ sets' = sets /\ sync' = sync
        /\ a.step # "idle"
    BY <1>3 DEF Crash, AbandonFailure, At, commitVars
  <2>2. Follows(cluster')
    BY <1>1, <1>3, EffectFollows DEF Crash, AbandonFailure
  <2>3. ~torn' => ~torn /\ ~a.mutated /\ cluster' = cluster
    BY <1>1, <1>3 DEF Crash, AbandonFailure
  <2>4. ~torn' /\ sync.applied # 0 => Serves(cluster', BundleOf(sync.applied))
    BY <1>1, <2>3 DEF RowServes
  <2>. QED
    BY <1>2, <2>1, <2>2, <2>4, EndGood DEF FinalStates
<1>4. CASE RecordSuccess(w)
  <2>1. /\ a.step = "succeeding"
        /\ work' = [work EXCEPT ![w] = Idle]
        /\ sets' = sets /\ cluster' = cluster
        /\ torn' = (torn /\ ~a.restarted)
        /\ sync'.applied = a.set
        /\ sync'.state = Written(w, SuccessState(w))
    BY <1>1, <1>4 DEF RecordSuccess, At, commitVars, SyncRow
  <2>2. a.set # 0 /\ cluster.inputs = a.set
    BY <1>1, <2>1 DEF AttemptSound, AttemptServes, ForwardSteps
  <2>3. sync'.state # "operator_required"
    BY <1>2, <2>1 DEF Written, SuccessState, FinalStates
  <2>4. ~torn' => Serves(cluster, new)
    BY <1>1, <2>1 DEF AttemptServes
  <2>. QED
    BY <1>1, <2>1, <2>2, <2>3, <2>4, EndGood
<1>5. CASE RecordFailure(w)
  <2>1. /\ a.step = "failing"
        /\ work' = [work EXCEPT ![w] = Idle]
        /\ sets' = sets /\ cluster' = cluster
        /\ torn' = (~a.recovered /\ (torn \/ a.mutated))
        /\ sync'.applied = sync.applied
        /\ sync'.state = Written(w, FailureState(w))
    BY <1>1, <1>5 DEF RecordFailure, At, commitVars, SyncRow
  <2>2. a.previous = sync.applied
    BY <1>1, <2>1 DEF RowServes
  <2>3. a.recovered => /\ sync.applied # 0
                       /\ Restored(cluster, sync.applied, BundleOf(sync.applied))
    BY <1>1, <2>2 DEF AttemptSound, AttemptServes
  <2>4. /\ sync'.state # "applied"
        /\ sync'.state = "operator_required" => a.recovered
    BY <1>2, <2>1 DEF Written, FailureState, OperatorRequired, FinalStates
  <2>5. ~torn' /\ sync.applied # 0 => Serves(cluster, BundleOf(sync.applied))
    <3>1. CASE a.recovered
      BY <2>3, <3>1, RestoredServes
    <3>2. CASE ~a.recovered
      BY <1>1, <2>1, <3>2 DEF RowServes
    <3>. QED
      BY <3>1, <3>2
  <2>. QED
    BY <1>1, <2>1, <2>3, <2>4, <2>5, EndGood DEF FinalStates
<1>. QED
  BY <1>3, <1>4, <1>5

-------------------------------------------------------------------------------
(* The rest of the system. *)

(* A commit adds a set and makes the row pending: the cluster is as it was. *)
LEMMA CommitKeepsCluster ==
    ASSUME ClusterInv, TypeInv', ManagementCommit
    PROVE  ClusterInv'
<1>. SUFFICES ASSUME NEW w \in Workers
              PROVE  Good(work[w], cluster, torn, sync)'
  BY DEF ClusterInv
<1>1. /\ CommitType /\ sync.desired = Len(sets) /\ Commit
      /\ sync.applied \in 0..Len(sets)
      /\ work[w].set \in 0..Len(sets)
      /\ work[w].previous \in 0..Len(sets)
      /\ UNCHANGED <<cluster, work, torn>>
  BY DEF ClusterInv, ManagementCommit, TypeInv, TypeOK, Committed
<1>2. PICK b \in Bundle, c \in Nat : AddSet(b, c)
  BY <1>1, CommitAddsSet
<1>3. /\ sync'.applied = sync.applied
      /\ sync'.state = "pending"
      /\ \A r \in 1..Len(sets) : sets'[r] = sets[r]
      /\ Len(sets) \in Nat
  BY <1>1, <1>2, CommitKeepsTypes DEF CommitType
<1>4. /\ BundleOf(work[w].set)' = BundleOf(work[w].set)
      /\ BundleOf(work[w].previous)' = BundleOf(work[w].previous)
      /\ BundleOf(sync.applied)' = BundleOf(sync.applied)
  BY <1>1, <1>3 DEF BundleOf
<1>5. AttemptServes(work[w], cluster, torn, BundleOf(work[w].set),
                    BundleOf(work[w].previous))'
  BY <1>1, <1>4, Parts
<1>6. RowServes(work[w], cluster, torn, sync, BundleOf(sync.applied))'
  BY <1>1, <1>3, <1>4, Parts DEF RowServes, FinalStates
<1>. QED
  BY <1>1, <1>5, <1>6, Parts DEF Good

(* The controllers keep what is served; the clocks do not touch it. *)
LEMMA OtherKeepsCluster ==
    ASSUME ClusterInv, TypeInv',
           ClusterStep \/ LeaseExpires \/ RetryDue \/ UNCHANGED vars
    PROVE  ClusterInv'
<1>. SUFFICES ASSUME NEW w \in Workers
              PROVE  Good(work[w], cluster, torn, sync)'
  BY DEF ClusterInv
<1>. DEFINE a == work[w]
            new == BundleOf(work[w].set)
            old == BundleOf(work[w].previous)
<1>1. /\ work' = work /\ torn' = torn /\ sets' = sets
      /\ sync'.state = sync.state /\ sync'.applied = sync.applied
      /\ \A r : BundleOf(r)' = BundleOf(r)
  BY Parts, AttemptTypes
     DEF ClusterStep, LeaseExpires, RetryDue, vars, commitVars, SyncRow, BundleOf
<1>2. /\ Follows(cluster)
      /\ AttemptServes(a, cluster, torn, new, old)
      /\ RowServes(a, cluster, torn, sync, BundleOf(sync.applied))
      /\ ClusterType
  BY Parts DEF ClusterType
<1>3. CASE cluster' = cluster
  <2>1. RowServes(a, cluster, torn, sync', BundleOf(sync.applied))
    BY <1>1, <1>2 DEF RowServes
  <2>. QED
    BY <1>1, <1>3, <2>1, Parts DEF Good
<1>4. CASE ClusterStep
  <2>1. /\ Follows(cluster')
        /\ cluster'.inputs = cluster.inputs
        /\ cluster'.template = cluster.template
        /\ \A b : Serves(cluster, b) => Serves(cluster', b)
        /\ \A r, b : Restored(cluster, r, b) => Restored(cluster', r, b)
    BY <1>2, <1>4, ControllersKeep DEF ClusterStep
  <2>2. ASSUME a.step = "restoreStatus", ~cluster'.rolling
        PROVE  cluster'.pods.mount = a.previous /\ cluster'.pods.config = a.previous
    <3>1. /\ cluster.inputs = a.previous
          /\ cluster.template.replicas = 1
          /\ ~cluster.rolling => /\ cluster.pods.mount = a.previous
                                 /\ cluster.pods.config = a.previous
      BY <1>2, <2>2 DEF AttemptServes
    <3>. QED
      BY <1>2, <1>4, <2>2, <3>1, ControllersKeep DEF ClusterStep
  <2>3. AttemptServes(a, cluster', torn, new, old)
    BY <1>2, <2>1, <2>2 DEF AttemptServes
  <2>4. RowServes(a, cluster', torn, sync', BundleOf(sync.applied))
    BY <1>1, <1>2, <2>1 DEF RowServes
  <2>. QED
    BY <1>1, <2>1, <2>3, <2>4, Parts DEF Good
<1>. QED
  BY <1>3, <1>4 DEF LeaseExpires, RetryDue, vars

(* Every step of the system preserves the invariant. *)
LEMMA NextKeepsCluster == SingleWorker /\ ClusterInv /\ [Next]_vars => ClusterInv'
<1>. SUFFICES ASSUME SingleWorker, ClusterInv, [Next]_vars PROVE ClusterInv'
  OBVIOUS
<1>1. TypeInv'
  BY NextKeepsTypes DEF ClusterInv
<1>2. ASSUME NEW w \in Workers, Progress(w) \/ CommandFails(w) \/ Crash(w)
      PROVE  ClusterInv'
  <2>1. CASE \/ Preflight(w) \/ ApplySecrets(w) \/ ApplyBundle(w)
             \/ AwaitRuntime(w) \/ FallBack(w)
             \/ RestartDeployment(w) \/ AwaitRollout(w)
    BY <1>1, <2>1, AdvanceKeepsCluster
  <2>2. CASE RestoreSecrets(w) \/ RestoreBundle(w) \/ AwaitRestored(w)
    BY <1>1, <2>2, RestoreKeepsCluster
  <2>3. CASE \/ EnterPhase(w) /\ sync.token # w
             \/ RejectSuccess(w)
             \/ CommandFails(w)
    BY <1>1, <2>3, ErrorKeepsCluster
  <2>4. CASE Claim(w)
    BY <1>1, <2>4, ClaimKeepsCluster
  <2>5. CASE \/ LoadWork(w)
             \/ EnterPhase(w) /\ sync.token = w
             \/ BeginSuccess(w) \/ BeginFailure(w)
    BY <1>1, <2>5, QuietKeepsCluster
  <2>6. CASE \/ Crash(w) \/ AbandonFailure(w)
             \/ RecordSuccess(w) \/ RecordFailure(w)
    BY <1>1, <2>6, EndKeepsCluster
  <2>. QED
    BY <1>2, <2>1, <2>2, <2>3, <2>4, <2>5, <2>6 DEF Progress
<1>3. CASE ManagementCommit
  BY <1>1, <1>3, CommitKeepsCluster
<1>. QED
  BY <1>1, <1>2, <1>3, OtherKeepsCluster DEF Next

(* The inductive invariant holds in every reachable state. *)
LEMMA ClusterInvariant == ASSUME SingleWorker PROVE Spec => []ClusterInv
<1>1. Init => ClusterInv
  BY InitCluster
<1>2. ClusterInv /\ [Next]_vars => ClusterInv'
  BY NextKeepsCluster
<1>. QED
  BY <1>1, <1>2, PTL DEF Spec

-------------------------------------------------------------------------------
(* Theorems. *)

(***************************************************************************)
(* The ConfigMap and the Secret in the cluster are those of the applied    *)
(* revision whenever the row says applied: no crash, retry or failed       *)
(* restoration leaves a deployment applied with the inputs of another set. *)
(***************************************************************************)
THEOREM InputsAreApplied == ASSUME SingleWorker PROVE Spec => []AppliedInputs
<1>1. ClusterInv => AppliedInputs
  <2>. SUFFICES ASSUME ClusterInv, sync.state = "applied"
                PROVE  cluster.inputs = sync.applied
    BY DEF AppliedInputs, Applied
  <2>. PICK w : Workers = {w}
    BY DEF SingleWorker
  <2>. QED
    BY Parts DEF RowServes
<1>. QED
  BY <1>1, ClusterInvariant, PTL

(***************************************************************************)
(* An applied deployment runs the image and the replicas it records,       *)
(* through every fault except the writes of an attempt that neither        *)
(* finished nor restored.                                                  *)
(***************************************************************************)
THEOREM ResourcesAreApplied == ASSUME SingleWorker PROVE Spec => []AppliedResources
<1>1. ClusterInv => AppliedResources
  <2>. SUFFICES ASSUME ClusterInv, Quiet, sync.state = "applied", ~torn
                PROVE  RunsResourcesOf(BundleOf(sync.applied))
    BY DEF AppliedResources, Applied
  <2>. PICK w : Workers = {w}
    BY DEF SingleWorker
  <2>1. work[w].step = "idle" /\ ~work[w].mutated /\ sync.applied # 0
    BY Parts DEF Quiet, At, AttemptSound, UntouchedSteps, RowServes, FinalStates
  <2>2. Serves(cluster, BundleOf(sync.applied))
    BY <2>1, Parts DEF RowServes
  <2>. QED
    BY <2>2 DEF Serves, RunsResourcesOf
<1>. QED
  BY <1>1, ClusterInvariant, PTL

(***************************************************************************)
(* While an operator is awaited the applied set runs in full, with its own *)
(* inputs mounted and loaded, whatever earlier attempts had left behind.   *)
(***************************************************************************)
THEOREM HeldIsRestored == ASSUME SingleWorker PROVE Spec => []HeldServesApplied
<1>1. ClusterInv => HeldServesApplied
  <2>. SUFFICES ASSUME ClusterInv
                PROVE  sync.state = "operator_required" =>
                         Restored(cluster, sync.applied, BundleOf(sync.applied))
    BY DEF HeldServesApplied, Restored
  <2>. PICK w : Workers = {w}
    BY DEF SingleWorker
  <2>. QED
    BY Parts DEF RowServes
<1>. QED
  BY <1>1, ClusterInvariant, PTL

===============================================================================
