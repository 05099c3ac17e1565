------------------------------ MODULE Qualification ------------------------------
(***************************************************************************)
(* The acceptance run of a deployed workload (src/tvt_edge/qualification.py) *)
(* beside a deployment that goes on living.  A run reads the database, the *)
(* Deployment, the Pod, the claim and the Pod's endpoints one after the    *)
(* other; its report is compared with an earlier report after a reboot or  *)
(* a rollback.                                                             *)
(*                                                                         *)
(* Every check goes on after a failed one, and only a run without a failed *)
(* check passes.  A failed run still commits what was asked for; of what   *)
(* it does afterwards nothing is kept.  What a check reads of the host,    *)
(* the registry or the node is pass or fail.                               *)
(***************************************************************************)
EXTENDS Naturals, Sequences

CONSTANTS
    Images,
    NoImage,
    MaxCommits,     \* bound on the committed sets
    MaxPods,        \* bound on the Pods that are created
    MaxStateClaims  \* bound on the claims that are created

ASSUME QualAssumption == {MaxCommits, MaxPods, MaxStateClaims} \subseteq Nat \ {0}

VARIABLES
    committed,      \* committed sets, the last one is desired
    sync,           \* the synchronizer's row and the set of its attempt
    deployed,       \* image in the Deployment's Pod template
    pod,            \* the workload's Pod
    claim,          \* the state claim: uid, and whether it is bound
    created,        \* Pods and claims created so far
    qualification,  \* the qualification run
    baseline        \* a passing report that was kept

qualVars ==
    <<committed, sync, deployed, pod, claim, created, qualification, baseline>>

CommittedSet == [bundle : 1..MaxCommits, image : Images]

SyncRow == [applied : 0..MaxCommits, attempt : 0..MaxCommits,
            state : {"pending", "applied", "failed", "operator_required"}]

NoPod == [name |-> 0, image |-> NoImage, claim |-> 0, ready |-> FALSE]

WorkloadPod ==
    [name : 1..MaxPods, image : Images, claim : 1..MaxStateClaims, ready : BOOLEAN]
      \cup {NoPod}

(* uid 0: the claim was deleted. *)
Claim == [uid : 0..MaxStateClaims, bound : BOOLEAN]

Checkpoint == {"steady", "pre-reboot", "post-reboot", "post-rollback"}

(* The invariants of a report. *)
Evidence == [bundle : 0..MaxCommits, image : Images \cup {NoImage},
             claim : 0..MaxStateClaims]

NoEvidence == [bundle |-> 0, image |-> NoImage, claim |-> 0]

RunStep == {"idle", "host", "change", "rollback", "wait", "catalog", "workload",
            "pod", "claim", "telemetry", "events", "report"}

(* wanted: image of the desired catalog entry; seen: the Pod that was read; *)
(* settled: history, the desired set was the applied one at that moment.    *)
Run == [step : RunStep, checkpoint : Checkpoint, commit : BOOLEAN, ok : BOOLEAN,
        evidence : Evidence, wanted : Images \cup {NoImage}, seen : WorkloadPod,
        settled : BOOLEAN]

IdleRun == [step |-> "idle", checkpoint |-> "steady", commit |-> FALSE,
            ok |-> TRUE, evidence |-> NoEvidence, wanted |-> NoImage,
            seen |-> NoPod, settled |-> FALSE]

QualType ==
    /\ committed \in Seq(CommittedSet) /\ Len(committed) \in 1..MaxCommits
    /\ sync \in SyncRow
    /\ deployed \in Images
    /\ pod \in WorkloadPod
    /\ claim \in Claim
    /\ created \in [pods : 0..MaxPods, claims : 0..MaxStateClaims]
    /\ qualification \in Run
    /\ baseline \in Evidence

QualInit ==
    \E image \in Images :
      /\ committed = <<[bundle |-> 1, image |-> image]>>
      /\ sync = [applied |-> 1, attempt |-> 1, state |-> "applied"]
      /\ deployed = image
      /\ pod = [name |-> 1, image |-> image, claim |-> 1, ready |-> TRUE]
      /\ claim = [uid |-> 1, bound |-> TRUE]
      /\ created = [pods |-> 1, claims |-> 1]
      /\ qualification = IdleRun
      /\ baseline = NoEvidence

clusterVars == <<committed, sync, deployed, pod, claim, created>>

DesiredSet == committed[Len(committed)]

CommitDesired(set) ==
    /\ Len(committed) < MaxCommits
    /\ committed' = Append(committed, set)
    /\ sync' = [sync EXCEPT !.state = "pending"]

-------------------------------------------------------------------------------
(* The deployment. *)

Commit ==
    /\ \E image \in Images :
         CommitDesired([bundle |-> Len(committed) + 1, image |-> image])
    /\ UNCHANGED <<deployed, pod, claim, created, qualification, baseline>>

(* An attempt on the desired set; a claim that is missing is created. *)
ApplyDesired ==
    /\ sync.state \in {"pending", "failed"}
    /\ sync' = [sync EXCEPT !.attempt = Len(committed)]
    /\ deployed' = DesiredSet.image
    /\ IF claim.uid # 0
       THEN UNCHANGED <<claim, created>>
       ELSE /\ created.claims < MaxStateClaims
            /\ claim' = [uid |-> created.claims + 1, bound |-> FALSE]
            /\ created' = [created EXCEPT !.claims = @ + 1]
    /\ UNCHANGED <<committed, pod, qualification, baseline>>

(* A commit during the attempt stays pending or is lost (DeploymentSync). *)
RecordApplied ==
    /\ sync.state \in {"pending", "failed"}
    /\ sync.attempt # sync.applied
    /\ deployed = committed[sync.attempt].image
    /\ pod.ready /\ pod.image = deployed
    /\ \E state \in IF sync.attempt = Len(committed) THEN {"applied"}
                                                     ELSE {"applied", "pending"} :
         sync' = [sync EXCEPT !.applied = sync.attempt, !.state = state]
    /\ UNCHANGED <<committed, deployed, pod, claim, created,
                   qualification, baseline>>

(* The runtime does not take the new image: the applied one is restored. *)
RecordFailure ==
    /\ sync.state \in {"pending", "failed"}
    /\ \E state \in {"failed", "operator_required"} :
         sync' = [sync EXCEPT !.attempt = sync.applied, !.state = state]
    /\ deployed' = committed[sync.applied].image
    /\ UNCHANGED <<committed, pod, claim, created, qualification, baseline>>

(* Recreate: the next Pod starts when the old one is gone. *)
PodEnds ==
    /\ pod # NoPod
    /\ pod' = NoPod
    /\ UNCHANGED <<committed, sync, deployed, claim, created,
                   qualification, baseline>>

PodStarts ==
    /\ pod = NoPod
    /\ claim.uid # 0
    /\ created.pods < MaxPods
    /\ pod' = [name |-> created.pods + 1, image |-> deployed,
               claim |-> claim.uid, ready |-> FALSE]
    /\ claim' = [claim EXCEPT !.bound = TRUE]
    /\ created' = [created EXCEPT !.pods = @ + 1]
    /\ UNCHANGED <<committed, sync, deployed, qualification, baseline>>

ReadinessChanges ==
    /\ pod # NoPod
    /\ pod' = [pod EXCEPT !.ready = ~@]
    /\ UNCHANGED <<committed, sync, deployed, claim, created,
                   qualification, baseline>>

(* A claim in use is protected. *)
DeleteClaim ==
    /\ pod = NoPod
    /\ claim.uid # 0
    /\ claim' = [uid |-> 0, bound |-> FALSE]
    /\ UNCHANGED <<committed, sync, deployed, pod, created, qualification, baseline>>

-------------------------------------------------------------------------------
(* The run. *)

(* After a reboot or a rollback a passing report is required; a steady run *)
(* that is given one is like the run after a reboot.                       *)
Start ==
    /\ qualification.step = "idle"
    /\ \E checkpoint \in Checkpoint, commit \in BOOLEAN :
         /\ checkpoint \in {"post-reboot", "post-rollback"} =>
              baseline # NoEvidence
         /\ commit => checkpoint # "post-rollback"
         /\ qualification' = [IdleRun EXCEPT !.step = "host",
                                             !.checkpoint = checkpoint,
                                             !.commit = commit]
    /\ UNCHANGED <<clusterVars, baseline>>

(* A failed check; only the changes that were asked for still happen. *)
Fail(step) ==
    qualification' =
      IF step \in {"change", "rollback"}
        THEN [IdleRun EXCEPT !.step = step, !.ok = FALSE,
                             !.checkpoint = qualification.checkpoint,
                             !.commit = qualification.commit]
        ELSE IdleRun

(* One check: what it read is kept if it passed and nothing failed before. *)
RunCheck(passed, read) ==
    IF qualification.ok /\ passed THEN qualification' = read ELSE Fail(read.step)

(* Contracts, platform, devices, accelerators, services, registry. *)
HostChecks ==
    /\ qualification.step = "host"
    /\ \E passed \in BOOLEAN :
         RunCheck(passed, [qualification EXCEPT !.step = "change"])
    /\ UNCHANGED <<clusterVars, baseline>>

(* The preview is committed even by a run that has already failed. *)
PrepareRequestedChange ==
    /\ qualification.step = "change"
    /\ \/ /\ ~qualification.commit
          /\ qualification' = [qualification EXCEPT !.step = "rollback"]
          /\ UNCHANGED <<committed, sync>>
       \/ /\ qualification.commit
          /\ \E image \in Images :
               CommitDesired([bundle |-> Len(committed) + 1, image |-> image])
          /\ qualification' = [qualification EXCEPT !.step = "rollback"]
       \/ /\ qualification.commit
          /\ Fail("rollback")
          /\ UNCHANGED <<committed, sync>>
    /\ UNCHANGED <<deployed, pod, claim, created, baseline>>

(* The set of the baseline's bundle is committed again. *)
RequestRollback ==
    /\ qualification.step = "rollback"
    /\ \/ /\ qualification.checkpoint # "post-rollback"
          /\ RunCheck(TRUE, [qualification EXCEPT !.step = "wait"])
          /\ UNCHANGED <<committed, sync>>
       \/ /\ qualification.checkpoint = "post-rollback"
          /\ \E r \in 1..Len(committed) :
               committed[r].bundle = baseline.bundle /\ CommitDesired(committed[r])
          /\ RunCheck(TRUE, [qualification EXCEPT !.step = "wait"])
       \/ /\ qualification.checkpoint = "post-rollback"
          /\ Fail("wait")
          /\ UNCHANGED <<committed, sync>>
    /\ UNCHANGED <<deployed, pod, claim, created, baseline>>

RevisionsMatch == sync.applied = Len(committed)

(* Waits for the state "applied", at most until the deadline. *)
WaitForDeployment ==
    /\ qualification.step = "wait"
    /\ \/ /\ sync.state = "applied"
          /\ RunCheck(RevisionsMatch,
               [qualification EXCEPT
                  !.step = "catalog",
                  !.settled = (sync.applied = Len(committed)),
                  !.wanted = DesiredSet.image,
                  !.evidence.bundle = committed[sync.applied].bundle,
                  !.evidence.image = committed[sync.applied].image])
       \/ /\ sync.state # "applied"
          /\ Fail("catalog")
    /\ UNCHANGED <<clusterVars, baseline>>

(* The desired entry is available under the applied digest; the image lock, *)
(* the imported image and the node are as qualified.                        *)
CatalogChecks ==
    /\ qualification.step = "catalog"
    /\ \E passed \in BOOLEAN :
         RunCheck(passed /\ qualification.wanted = qualification.evidence.image,
                  [qualification EXCEPT !.step = "workload"])
    /\ UNCHANGED <<clusterVars, baseline>>

WorkloadContract ==
    /\ qualification.step = "workload"
    /\ RunCheck(deployed = qualification.wanted,
                [qualification EXCEPT !.step = "pod"])
    /\ UNCHANGED <<clusterVars, baseline>>

ReadPod ==
    /\ qualification.step = "pod"
    /\ RunCheck(pod.ready /\ pod.image = qualification.evidence.image,
                [qualification EXCEPT !.step = "claim", !.seen = pod])
    /\ UNCHANGED <<clusterVars, baseline>>

ReadClaim ==
    /\ qualification.step = "claim"
    /\ RunCheck(claim.bound,
                [qualification EXCEPT !.step = "telemetry",
                                      !.evidence.claim = claim.uid])
    /\ UNCHANGED <<clusterVars, baseline>>

(* The Pod that is there now. *)
Telemetry ==
    /\ qualification.step = "telemetry"
    /\ RunCheck(pod.ready, [qualification EXCEPT !.step = "events"])
    /\ UNCHANGED <<clusterVars, baseline>>

(* Mutant: the events of any Pod of the workload. *)
StreamsEventsOfAny == pod # NoPod

(* The events are asked of the Pod by the name that was read. *)
StreamsEvents == pod # NoPod /\ pod.name = qualification.seen.name

Events ==
    /\ qualification.step = "events"
    /\ \E arrived \in BOOLEAN :
         RunCheck(StreamsEvents /\ arrived,
                  [qualification EXCEPT !.step = "report"])
    /\ UNCHANGED <<clusterVars, baseline>>

MatchesBaseline ==
    qualification.checkpoint \in {"post-reboot", "post-rollback"} =>
      qualification.evidence = baseline

Passes == qualification.step = "report" /\ MatchesBaseline

(* The report; a passing one may become the next baseline. *)
WriteReport ==
    /\ qualification.step = "report"
    /\ \/ UNCHANGED baseline
       \/ Passes /\ baseline' = qualification.evidence
    /\ qualification' = IdleRun
    /\ UNCHANGED clusterVars

HostReboots ==
    /\ pod' = NoPod
    /\ qualification' = IdleRun
    /\ <<pod, qualification>> # <<NoPod, IdleRun>>
    /\ UNCHANGED <<committed, sync, deployed, claim, created, baseline>>

QualNext ==
    \/ Commit \/ ApplyDesired \/ RecordApplied \/ RecordFailure
    \/ PodEnds \/ PodStarts \/ ReadinessChanges \/ DeleteClaim
    \/ Start \/ HostChecks \/ PrepareRequestedChange \/ RequestRollback
    \/ WaitForDeployment \/ CatalogChecks \/ WorkloadContract
    \/ ReadPod \/ ReadClaim \/ Telemetry \/ Events \/ WriteReport
    \/ HostReboots

-------------------------------------------------------------------------------
(* Properties. *)

(***************************************************************************)
(* What a passing report says was true of one Pod, though it was read in   *)
(* six places while commits, rollouts and the deletion of a claim went on: *)
(* the desired set was the applied one, its image ran in a ready Pod, and  *)
(* that Pod used the reported claim.  After a reboot or a rollback this is *)
(* the claim, the image and the bundle of the baseline.                    *)
(***************************************************************************)
PassedIsWitnessed ==
    Passes =>
      /\ qualification.settled
      /\ \E r \in 1..Len(committed) :
           /\ committed[r].bundle = qualification.evidence.bundle
           /\ committed[r].image = qualification.evidence.image
      /\ qualification.seen.ready
      /\ qualification.seen.image = qualification.evidence.image
      /\ qualification.seen.claim = qualification.evidence.claim
      /\ qualification.checkpoint \in {"post-reboot", "post-rollback"} =>
           [bundle |-> qualification.evidence.bundle, image |-> qualification.seen.image,
            claim |-> qualification.seen.claim] = baseline

===============================================================================
