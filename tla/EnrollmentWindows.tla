---------------------------- MODULE EnrollmentWindows ----------------------------
(***************************************************************************)
(* The control plane's enrollment windows                                  *)
(* (src/apexfabric/control_plane/enrollment_windows.py, server.py): one    *)
(* camera of a deployment is switched to face_enrollment and back through  *)
(* the desired-state ConfigMap that operators update too.  Every request   *)
(* is a job in a thread of its own; the windows' table has a lock, the     *)
(* ConfigMap has none.                                                     *)
(***************************************************************************)
EXTENDS Integers, Sequences

CONSTANTS
    Jobs,               \* threads that may serve a request
    MaxWindowRevision,  \* bound on the revisions operators write
    MaxWindows          \* bound on the windows

VARIABLES
    config,         \* the ConfigMap: revision and apps of the camera
    windows,        \* enrollment_windows
    job,            \* the jobs
    overtaken,      \* history: a job overwrote a revision it had not seen, or
                    \* ended a window and then failed
    byOperator      \* history: an operator's document put the camera into
                    \* enrollment, or kept it there, while it had no window

windowVars == <<config, windows, job, overtaken, byOperator>>

Apps == {"recognition", "other", "enrollment"}

Config == [revision : Nat, apps : Apps]

Window == [prior : Apps, status : {"active", "reverted"}]

NoJob == [kind |-> "none"]

Job == [kind : {"start", "stop", "update"}, step : {"window", "read", "check", "apply"},
        window : Nat, old : Config, new : Config, seen : Nat]

WindowType ==
    /\ config \in Config
    /\ windows \in Seq(Window)
    /\ job \in [Jobs -> Job \cup {NoJob}]
    /\ overtaken \in BOOLEAN
    /\ byOperator \in BOOLEAN

WindowInit ==
    /\ config = [revision |-> 1, apps |-> "recognition"]
    /\ windows = <<>>
    /\ job = [j \in Jobs |-> NoJob]
    /\ overtaken = FALSE
    /\ byOperator = FALSE

-------------------------------------------------------------------------------
(* In place of a configuration that a job has not read, or not computed. *)
Unread == [revision |-> 1, apps |-> "recognition"]

Begin(j, kind, step, window, old) ==
    /\ job[j] = NoJob
    /\ job' = [job EXCEPT ![j] = [kind |-> kind, step |-> step, window |-> window,
                                  old |-> old, new |-> Unread, seen |-> 0]]
    /\ UNCHANGED <<config, windows, overtaken, byOperator>>

AtStep(j, kind, step) == job[j] # NoJob /\ job[j].kind = kind /\ job[j].step = step

(* Stops that took the camera's window and have still to restore it. *)
Restoring == {j \in Jobs : job[j] # NoJob /\ job[j].kind = "stop" /\ job[j].step # "window"}

Active == {w \in DOMAIN windows : windows[w].status = "active"}

Wanted(apps) == [revision |-> config.revision + 1, apps |-> apps]

(* start_enrollment reads the configuration and refuses other cameras. *)
StartReads(j) == config.apps = "recognition" /\ Begin(j, "start", "window", 0, config)

(* Mutant: a window that is open still is not looked for. *)
StartWindowAgain(j) ==
    /\ AtStep(j, "start", "window")
    /\ Len(windows) < MaxWindows
    /\ windows' = Append(windows, [prior |-> job[j].old.apps, status |-> "active"])
    /\ job' = [job EXCEPT ![j] =
                 [@ EXCEPT !.step = "check", !.window = Len(windows) + 1,
                           !.new = [revision |-> job[j].old.revision + 1,
                                    apps |-> "enrollment"]]]
    /\ UNCHANGED <<config, overtaken, byOperator>>

(* start_window, for a camera without an active one; the new state is that *)
(* which was read before.                                                  *)
StartWindow(j) ==
    /\ AtStep(j, "start", "window")
    /\ Active = {}
    /\ Len(windows) < MaxWindows
    /\ windows' = Append(windows, [prior |-> job[j].old.apps, status |-> "active"])
    /\ job' = [job EXCEPT ![j] =
                 [@ EXCEPT !.step = "check", !.window = Len(windows) + 1,
                           !.new = [revision |-> job[j].old.revision + 1,
                                    apps |-> "enrollment"]]]
    /\ UNCHANGED <<config, overtaken, byOperator>>

(* stop_enrollment, called by operators and for expired windows; end_window *)
(* is the first thing it does.                                             *)
StopBegins(j) == \E w \in Active : Begin(j, "stop", "window", w, Unread)

EndWindow(j) ==
    /\ AtStep(j, "stop", "window")
    /\ job[j].window \in Active
    /\ windows' = [windows EXCEPT ![job[j].window].status = "reverted"]
    /\ job' = [job EXCEPT ![j].step = "read"]
    /\ UNCHANGED <<config, overtaken, byOperator>>

StopReads(j) ==
    /\ AtStep(j, "stop", "read")
    /\ job' = [job EXCEPT ![j] =
                 [@ EXCEPT !.step = "check",
                           !.new = Wanted(windows[job[j].window].prior)]]
    /\ UNCHANGED <<config, windows, overtaken, byOperator>>

(* An operator's update is a whole document, made from some earlier one;    *)
(* the schema lets it say face_enrollment, as it does during a window.     *)
UpdateBegins(j) ==
    /\ job[j] = NoJob
    /\ \E apps \in Apps, r \in 2..MaxWindowRevision :
         job' = [job EXCEPT ![j] = [kind |-> "update", step |-> "check", window |-> 0,
                                    old |-> Unread, seen |-> 0,
                                    new |-> [revision |-> r, apps |-> apps]]]
    /\ UNCHANGED <<config, windows, overtaken, byOperator>>

Newer(new) == new.revision > config.revision

(* update_runtime_configuration reads the configuration (again). *)
CheckRevision(j) ==
    /\ \E kind \in {"start", "stop", "update"} : AtStep(j, kind, "check")
    /\ Newer(job[j].new)
    /\ job' = [job EXCEPT ![j] = [@ EXCEPT !.step = "apply", !.seen = config.revision]]
    /\ UNCHANGED <<config, windows, overtaken, byOperator>>

(* kubectl apply has no precondition. *)
Apply(j) ==
    /\ \E kind \in {"start", "stop", "update"} : AtStep(j, kind, "apply")
    /\ config' = job[j].new
    /\ overtaken' = (overtaken \/ config.revision # job[j].seen)
    /\ byOperator' =
         /\ job[j].new.apps = "enrollment"
         /\ byOperator \/ (job[j].kind = "update" /\ Active = {} /\ Restoring = {})
    /\ job' = [job EXCEPT ![j] = NoJob]
    /\ UNCHANGED windows

(* A refused request, a failing command, a restart of the server. *)
JobFails(j) ==
    /\ job[j] # NoJob
    /\ overtaken' = (overtaken \/ (job[j].kind = "stop" /\ job[j].step # "window"))
    /\ job' = [job EXCEPT ![j] = NoJob]
    /\ UNCHANGED <<config, windows, byOperator>>

WindowNext ==
    \E j \in Jobs :
        \/ StartReads(j) \/ StartWindow(j)
        \/ StopBegins(j) \/ EndWindow(j) \/ StopReads(j)
        \/ UpdateBegins(j)
        \/ CheckRevision(j) \/ Apply(j)
        \/ JobFails(j)

-------------------------------------------------------------------------------
(***************************************************************************)
(* A camera has one window at a time, which knows the applications to      *)
(* return to.  Unless an operator's document left it there, or a job       *)
(* overwrote a revision it had not seen or failed after it ended the       *)
(* window, a camera in enrollment has an active window or is being         *)
(* restored: it is not forgotten there.                                    *)
(***************************************************************************)
EnrollmentHasWindow ==
    /\ \A w, v \in Active : w = v
    /\ \A w \in DOMAIN windows : windows[w].prior = "recognition"
    /\ config.apps = "enrollment" /\ ~overtaken /\ ~byOperator
         => Active # {} \/ Restoring # {}

===============================================================================
