------------------------------- MODULE Deploy -------------------------------
(***************************************************************************)
(* Deployment on push: deploy/webhook-receiver.py starts detached runs of  *)
(* deploy/auto-deploy.sh, each under flock and from a copy of the script   *)
(* of its own, and a run brings checkout, image and containers to the      *)
(* newest commit of master.                                                *)
(*                                                                         *)
(* Commits are numbered in the order they are pushed.  A handler thread of *)
(* the receiver acts in one step: it shares nothing but the directory of   *)
(* script copies.  The script is one action per command that another run,  *)
(* a failure or a reboot can come in between.                              *)
(***************************************************************************)
EXTENDS Naturals

CONSTANTS
  Runs,        \* processes that run the script
  MaxPushes,   \* bound on pushes to master
  Others,      \* the other requests that may be posted, each once
  SecretSet,   \* the receiver has a secret to check signatures with
  Spaced,      \* no two runs are started within one second
  DirectRuns,  \* the runs an operator may start by hand, without flock
  MaxFaults,   \* bound on failing commands, crashes, timeouts and reboots
  None

Commits == 0 .. MaxPushes

(* What is posted to /deploy/: GitHub's pushes to master, its pushes to    *)
(* other branches (or anything else without master's ref, like the {} of a *)
(* manual trigger), its pings, and bodies that are not JSON.               *)
Kinds == {"master", "branch", "ping", "garbled"}
Request == [kind : Kinds, commit : Commits, signed : BOOLEAN]
PushOf(c) == [kind |-> "master", commit |-> c, signed |-> TRUE]
Deliveries == {PushOf(c) : c \in 1 .. MaxPushes} \cup Others
Fates == {"unsent", "sent", "started", "ignored", "pong", "rejected", "forbidden",
          "failed", "lost"}

ASSUME DeployAssumption ==
  /\ MaxPushes \in Nat /\ MaxFaults \in Nat
  /\ Others \subseteq {d \in Request : d.kind # "master" /\ d.commit = 0}
  /\ SecretSet \in BOOLEAN /\ Spaced \in BOOLEAN
  /\ DirectRuns \subseteq Runs
  /\ None \notin Runs \cup Nat

VARIABLES
  remote,    \* origin/master at GitHub
  delivery,  \* delivery[d]: what became of the request d
  receiver,  \* the receiver listens
  name,      \* the name a script copy gets now: run-<second>-<pid>.sh
  copies,    \* names of the script copies on disk
  run,       \* run[r]: program counter and script copy of process r
  lock,      \* the run that holds /var/lock/mosharan-deploy.lock
  tracking,  \* the checkout's origin/master
  head,      \* the checkout's HEAD
  tag,       \* MOSHARAN_IMAGE_TAG in .env
  image,     \* image[t]: the commit that the image tagged t was built from
  live,      \* the commit the containers run
  backend,   \* the backend container is running
  healthy,   \* the last commit whose containers a run found healthy
  missed,    \* since then a backend of it stopped by itself, or a look for it failed
  backup,    \* the commit that ran when the database was last backed up
  faults

hostVars == <<remote, delivery, receiver, name>>
checkoutVars == <<tracking, head, tag>>
dockerVars == <<image, live, backend, healthy, missed, backup>>
vars == <<hostVars, copies, run, lock, checkoutVars, dockerVars, faults>>

Script == {"fetch", "compare", "backup", "pull", "tag", "build", "up", "wait",
           "receiver", "health"}
Ends == {"noop", "done", "failed"}

At(r, pc) == run[r].pc = pc
Working(r) == run[r].pc \in Script
Goto(r, pc) == run' = [run EXCEPT ![r].pc = pc]

-----------------------------------------------------------------------------
(* Pushes and other requests.                                              *)

Push ==
  /\ remote < MaxPushes
  /\ remote' = remote + 1
  /\ delivery' = [delivery EXCEPT ![PushOf(remote + 1)] = "sent"]
  /\ UNCHANGED <<receiver, name, copies, run, lock, checkoutVars, dockerVars, faults>>

Send(d) ==
  /\ d \in Others
  /\ delivery[d] = "unsent"
  /\ delivery' = [delivery EXCEPT ![d] = "sent"]
  /\ UNCHANGED <<remote, receiver, name, copies, run, lock, checkoutVars, dockerVars, faults>>

(* do_POST, short of starting the run.                                     *)
Verdict(d) ==
  CASE SecretSet /\ ~d.signed -> "forbidden"
    [] d.kind = "garbled" -> "rejected"
    [] d.kind = "ping" -> "pong"
    [] d.kind = "master" -> "started"
    [] OTHER -> "ignored"

Handle(d) ==
  /\ receiver
  /\ delivery[d] = "sent"
  /\ Verdict(d) # "started"
  /\ delivery' = [delivery EXCEPT ![d] = Verdict(d)]
  /\ UNCHANGED <<remote, receiver, name, copies, run, lock, checkoutVars, dockerVars, faults>>

(* The name of a script copy that exists or existed.                       *)
Used(n) == \E r \in Runs : run[r].copy = n

(* start_deploy: copy the script, start flock.                             *)
StartDeploy(d, r) ==
  /\ receiver
  /\ delivery[d] = "sent"
  /\ Verdict(d) = "started"
  /\ At(r, "unused") /\ r \notin DirectRuns
  /\ Spaced => ~Used(name)
  /\ delivery' = [delivery EXCEPT ![d] = "started"]
  /\ copies' = copies \cup {name}
  /\ run' = [run EXCEPT ![r] = [pc |-> "waiting", copy |-> name]]
  /\ UNCHANGED <<remote, receiver, name, lock, checkoutVars, dockerVars, faults>>

(* Copying or starting fails: 500.                                         *)
StartFails(d) ==
  /\ receiver
  /\ faults < MaxFaults
  /\ delivery[d] = "sent"
  /\ Verdict(d) = "started"
  /\ delivery' = [delivery EXCEPT ![d] = "failed"]
  /\ faults' = faults + 1
  /\ UNCHANGED <<remote, receiver, name, copies, run, lock, checkoutVars, dockerVars>>

(* Nobody listens; GitHub does not repeat a delivery.                      *)
Lose(d) ==
  /\ ~receiver
  /\ delivery[d] = "sent"
  /\ delivery' = [delivery EXCEPT ![d] = "lost"]
  /\ UNCHANGED <<remote, receiver, name, copies, run, lock, checkoutVars, dockerVars, faults>>

(* The second of the current name is over.                                 *)
NextSecond ==
  /\ Used(name)
  /\ name' = name + 1
  /\ UNCHANGED <<remote, delivery, receiver, copies, run, lock, checkoutVars, dockerVars, faults>>

(* The receiver listens again, with another process id.                    *)
ReceiverUp ==
  /\ ~receiver
  /\ receiver' = TRUE
  /\ name' = IF Used(name) THEN name + 1 ELSE name
  /\ UNCHANGED <<remote, delivery, copies, run, lock, checkoutVars, dockerVars, faults>>

-----------------------------------------------------------------------------
(* The end of a run: its trap removes the copy, its exit frees the lock.   *)
Exit(r, end) ==
  /\ Goto(r, end)
  /\ copies' = copies \ {run[r].copy}
  /\ lock' = IF lock = r THEN None ELSE lock

BeginWithoutLock(r) ==  \* mutant: no flock around the run
  /\ At(r, "waiting")
  /\ IF run[r].copy \in copies THEN lock' = r /\ Goto(r, "fetch")
                               ELSE lock' = lock /\ Goto(r, "failed")
  /\ UNCHANGED <<hostVars, copies, checkoutVars, dockerVars, faults>>
BeginOrSkip(r) ==  \* mutant: flock -n instead of flock -w
  /\ At(r, "waiting")
  /\ IF lock = None /\ run[r].copy \in copies THEN lock' = r /\ Goto(r, "fetch")
                                              ELSE lock' = lock /\ Goto(r, "failed")
  /\ UNCHANGED <<hostVars, copies, checkoutVars, dockerVars, faults>>
(* flock gets the lock and starts bash on the copy, if it is still there.  *)
Begin(r) ==
  /\ At(r, "waiting")
  /\ lock = None
  /\ IF run[r].copy \in copies THEN lock' = r /\ Goto(r, "fetch")
                               ELSE lock' = lock /\ Goto(r, "failed")
  /\ UNCHANGED <<hostVars, copies, checkoutVars, dockerVars, faults>>

(* flock -w 1800: half an hour is over, and nobody is told.                *)
GiveUp(r) ==
  /\ faults < MaxFaults
  /\ At(r, "waiting")
  /\ lock # None
  /\ Goto(r, "failed")
  /\ faults' = faults + 1
  /\ UNCHANGED <<hostVars, copies, lock, checkoutVars, dockerVars>>

(* An operator runs the script of the checkout: no lock, no copy.          *)
BeginDirectly(r) ==
  /\ r \in DirectRuns
  /\ At(r, "unused")
  /\ Goto(r, "fetch")
  /\ UNCHANGED <<hostVars, copies, lock, checkoutVars, dockerVars, faults>>

Fetch(r) ==
  /\ At(r, "fetch")
  /\ tracking' = remote
  /\ Goto(r, "compare")
  /\ UNCHANGED <<hostVars, copies, lock, head, tag, dockerVars, faults>>

Compare(r) ==
  /\ At(r, "compare")
  /\ IF head = tracking THEN Exit(r, "noop")
                        ELSE Goto(r, "backup") /\ UNCHANGED <<copies, lock>>
  /\ UNCHANGED <<hostVars, checkoutVars, dockerVars, faults>>

(* Only a running backend is backed up.                                    *)
Backup(r) ==
  /\ At(r, "backup")
  /\ backup' = IF backend THEN live ELSE backup
  /\ Goto(r, "pull")
  /\ UNCHANGED <<hostVars, copies, lock, checkoutVars, image, live, backend, healthy, missed, faults>>

(* docker compose ps fails: set -e does not see it in a test, and nothing  *)
(* found is nothing running.                                               *)
LookFails(r) ==
  /\ faults < MaxFaults
  /\ At(r, "backup")
  /\ missed' = (missed \/ live = healthy)
  /\ Goto(r, "pull")
  /\ faults' = faults + 1
  /\ UNCHANGED <<hostVars, copies, lock, checkoutVars, image, live, backend, healthy, backup>>

(* The pull fetches again, and may get more than the comparison saw.       *)
Pull(r) ==
  /\ At(r, "pull")
  /\ tracking' = remote
  /\ head' = remote
  /\ Goto(r, "tag")
  /\ UNCHANGED <<hostVars, copies, lock, tag, dockerVars, faults>>

KeepTag(r) ==  \* mutant: sed finds no line to replace in .env
  /\ At(r, "tag")
  /\ Goto(r, "build")
  /\ UNCHANGED <<hostVars, copies, lock, checkoutVars, dockerVars, faults>>
(* TAG=$(git rev-parse HEAD) and sed; head cannot change between the two   *)
(* but by a run without the lock.                                          *)
SetTag(r) ==
  /\ At(r, "tag")
  /\ tag' = head
  /\ Goto(r, "build")
  /\ UNCHANGED <<hostVars, copies, lock, tracking, head, dockerVars, faults>>

(* docker compose build, with the tag of .env and the files of the checkout *)
Build(r) ==
  /\ At(r, "build")
  /\ image' = [image EXCEPT ![tag] = head]
  /\ Goto(r, "up")
  /\ UNCHANGED <<hostVars, copies, lock, checkoutVars, live, backend, healthy, missed, backup, faults>>

(* docker compose up builds the image that .env names if it is missing,    *)
(* and replaces the containers.  The new backend starts, or fails at once: *)
(* its entrypoint migrates the database before it serves.                  *)
Up(r) ==
  /\ At(r, "up")
  /\ image' = [image EXCEPT ![tag] = IF @ = None THEN head ELSE @]
  /\ live' = image'[tag]
  /\ \/ backend' = TRUE /\ faults' = faults
     \/ backend' = FALSE /\ faults < MaxFaults /\ faults' = faults + 1
  /\ Goto(r, "wait")
  /\ UNCHANGED <<hostVars, copies, lock, checkoutVars, healthy, missed, backup>>

WaitAnyway(r) ==  \* mutant: docker compose up -d, without --wait
  /\ At(r, "wait")
  /\ healthy' = live /\ missed' = FALSE
  /\ Goto(r, "receiver")
  /\ UNCHANGED <<hostVars, copies, lock, checkoutVars, image, live, backend, backup, faults>>
(* --wait: the containers are healthy,                                    *)
Wait(r) ==
  /\ At(r, "wait")
  /\ backend
  /\ healthy' = live /\ missed' = FALSE
  /\ Goto(r, "receiver")
  /\ UNCHANGED <<hostVars, copies, lock, checkoutVars, image, live, backend, backup, faults>>

(* or the backend is down and the run fails, with the containers replaced. *)
(* (A backend that runs and is not healthy: CommandFails.)                 *)
WaitFails(r) ==
  /\ At(r, "wait")
  /\ ~backend
  /\ Exit(r, "failed")
  /\ UNCHANGED <<hostVars, checkoutVars, dockerVars, faults>>

(* Restarting an active receiver kills it with its unanswered requests;    *)
(* the runs it started go on (KillMode=process).                           *)
RestartReceiver(r) ==
  /\ At(r, "receiver")
  /\ receiver' = FALSE
  /\ Goto(r, "health")
  /\ UNCHANGED <<remote, delivery, name, copies, lock, checkoutVars, dockerVars, faults>>

(* A failing health check of the site does not change the outcome.         *)
Finish(r) ==
  /\ At(r, "health")
  /\ Exit(r, "done")
  /\ UNCHANGED <<hostVars, checkoutVars, dockerVars, faults>>

-----------------------------------------------------------------------------
(* set -e: any command but the last ones may fail and end the run.         *)
CommandFails(r) ==
  /\ faults < MaxFaults
  /\ run[r].pc \in Script \ {"compare", "receiver", "health"}
  /\ Exit(r, "failed")
  /\ faults' = faults + 1
  /\ UNCHANGED <<hostVars, checkoutVars, dockerVars>>

(* The host restarts: all runs are gone, their copies are not.             *)
Reboot ==
  /\ faults < MaxFaults
  /\ run' = [r \in Runs |-> IF At(r, "waiting") \/ Working(r)
                            THEN [run[r] EXCEPT !.pc = "failed"] ELSE run[r]]
  /\ lock' = None
  /\ receiver' = FALSE
  /\ faults' = faults + 1
  /\ UNCHANGED <<remote, delivery, name, copies, checkoutVars, dockerVars>>

(* The backend container exits, and Docker restarts it (unless-stopped):   *)
(* by itself, or again and again after an upgrade that fails.              *)
StopBackend ==
  /\ faults < MaxFaults
  /\ backend
  /\ backend' = FALSE
  /\ missed' = (missed \/ live = healthy)
  /\ faults' = faults + 1
  /\ UNCHANGED <<hostVars, copies, run, lock, checkoutVars, image, live, healthy, backup>>
RestartBackend ==
  /\ ~backend
  /\ backend' = TRUE
  /\ UNCHANGED <<hostVars, copies, run, lock, checkoutVars, image, live, healthy, missed, backup, faults>>

-----------------------------------------------------------------------------
Init ==
  /\ remote = 0
  /\ delivery = [d \in Deliveries |-> "unsent"]
  /\ receiver = TRUE
  /\ name = 0
  /\ copies = {}
  /\ run = [r \in Runs |-> [pc |-> "unused", copy |-> None]]
  /\ lock = None
  /\ tracking = 0 /\ head = 0 /\ tag = 0
  /\ image = [c \in Commits |-> IF c = 0 THEN 0 ELSE None]
  /\ live = 0
  /\ backend = TRUE
  /\ healthy = 0 /\ missed = FALSE
  /\ backup = None
  /\ faults = 0

(* What the script does by itself.                                         *)
Step(r) ==
  \/ Begin(r) \/ Fetch(r) \/ Compare(r) \/ Backup(r) \/ Pull(r) \/ SetTag(r)
  \/ Build(r) \/ Up(r) \/ Wait(r) \/ WaitFails(r) \/ RestartReceiver(r)
  \/ Finish(r)

Next ==
  \/ Push
  \/ \E d \in Deliveries :
       Send(d) \/ Handle(d) \/ StartFails(d) \/ Lose(d) \/ \E r \in Runs : StartDeploy(d, r)
  \/ NextSecond \/ ReceiverUp
  \/ \E r \in Runs : Step(r) \/ GiveUp(r) \/ BeginDirectly(r) \/ LookFails(r) \/ CommandFails(r)
  \/ Reboot \/ StopBackend \/ RestartBackend

Spec == Init /\ [][Next]_vars

(* A run goes on, as long as none of its commands hangs.  flock is not a   *)
(* queue, but a process that waits gets the lock once nobody else wants it. *)
FairSpec == Spec /\ \A r \in Runs : WF_vars(Step(r))

-----------------------------------------------------------------------------
(* Types of all variables.                                                 *)
TypeOK ==
  /\ remote \in Commits
  /\ delivery \in [Deliveries -> Fates]
  /\ receiver \in BOOLEAN
  /\ name \in Nat
  /\ copies \subseteq Nat
  /\ run \in [Runs -> [pc : {"unused", "waiting"} \cup Script \cup Ends, copy : Nat \cup {None}]]
  /\ lock \in Runs \cup {None}
  /\ tracking \in Commits /\ head \in Commits /\ tag \in Commits
  /\ image \in [Commits -> Commits \cup {None}]
  /\ live \in Commits
  /\ backend \in BOOLEAN
  /\ healthy \in Commits /\ missed \in BOOLEAN
  /\ backup \in Commits \cup {None}
  /\ faults \in Nat

(* Runs started by the receiver never overlap, whatever pushes, failures,  *)
(* timeouts, reboots and runs of operators there are.                      *)
OneAtATime ==
  \A q, r \in Runs \ DirectRuns : Working(q) /\ Working(r) => q = r

(* An image has the content its tag says, although checkout, .env and      *)
(* image are three pieces of state that a run changes one after the other  *)
(* and may leave behind half changed: this is what a rollback to a         *)
(* retained tag relies on.                                                 *)
ImagesTrue == \A c \in Commits : image[c] \in {c, None}

(* A run that reports success leaves its checkout live, and that is at     *)
(* least what it fetched.                                                  *)
DoneIsLive ==
  [][\A r \in Runs : At(r, "health") /\ run'[r].pc = "done" =>
       live = head /\ tag = head /\ tracking <= live]_vars

(* Whatever fails, the containers are replaced only if the database was    *)
(* backed up since the last deployment that was found healthy ("takes a    *)
(* consistent SQLite backup"): also when the look before the backup finds  *)
(* no running backend and skips it, because the run before this one left a *)
(* backend that crashes.  Excepted is a healthy deployment that was missed *)
(* because its backend had stopped by itself or the look failed.           *)
BackedUp == missed \/ (backup # None /\ backup >= healthy)
UpgradeBackedUp == [][live' # live => BackedUp]_vars

(* A deploy attempt "no-ops when already current", not otherwise.          *)
NoOpWhenCurrent ==
  [][\A r \in Runs : At(r, "compare") /\ run'[r].pc = "noop" => live = head]_vars

(* A push whose delivery was answered with "deploy started" gets deployed. *)
StartedIsDeployed ==
  \A d \in Deliveries : delivery[d] = "started" ~> live >= d.commit
=============================================================================
