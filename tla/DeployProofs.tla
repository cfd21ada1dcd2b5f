---------------------------- MODULE DeployProofs ----------------------------
(***************************************************************************)
(* Proofs about Deploy.  Types and the mutual exclusion of the receiver's  *)
(* runs hold for every value of the constants; what the steps of one run   *)
(* achieve together is proved for an installation in which nobody starts   *)
(* the script by hand, because that bypasses the lock.                     *)
(***************************************************************************)
EXTENDS Deploy, TLAPS

-----------------------------------------------------------------------------
RunRow == [pc : {"unused", "waiting"} \cup Script \cup Ends, copy : Nat \cup {None}]

LEMMA GotoType ==
  ASSUME TypeOK, NEW r \in Runs, NEW pc \in {"unused", "waiting"} \cup Script \cup Ends,
         Goto(r, pc)
  PROVE  /\ run' \in [Runs -> RunRow]
         /\ run'[r].pc = pc
         /\ \A q \in Runs \ {r} : run'[q] = run[q]
<1>1. [run[r] EXCEPT !.pc = pc] \in RunRow BY DEF TypeOK, RunRow
<1>2. QED BY <1>1 DEF Goto, TypeOK, RunRow

LEMMA TypeInit == Init => TypeOK
<1> SUFFICES ASSUME Init PROVE TypeOK
  OBVIOUS
<1> USE DeployAssumption
<1>1. run \in [Runs -> RunRow]
  <2>1. [pc |-> "unused", copy |-> None] \in RunRow BY DEF RunRow
  <2>2. QED BY <2>1 DEF Init
<1>2. delivery \in [Deliveries -> Fates] BY DEF Init, Fates
<1>3. image \in [Commits -> Commits \cup {None}] BY DEF Init, Commits
<1>4. /\ remote \in Commits /\ name \in Nat /\ faults \in Nat /\ healthy \in Commits
      /\ tracking \in Commits /\ head \in Commits /\ tag \in Commits /\ live \in Commits
  BY DEF Init, Commits
<1>5. receiver \in BOOLEAN /\ backend \in BOOLEAN /\ missed \in BOOLEAN
  BY DEF Init
<1>6. copies \subseteq Nat /\ lock \in Runs \cup {None} /\ backup \in Commits \cup {None}
  BY DEF Init
<1>7. QED BY <1>1, <1>2, <1>3, <1>4, <1>5, <1>6 DEF TypeOK, RunRow

LEMMA TypeStep == TypeOK /\ [Next]_vars => TypeOK'
<1> SUFFICES ASSUME TypeOK, [Next]_vars PROVE TypeOK'
  OBVIOUS
<1> USE DeployAssumption
<1> DEFINE RunType == run' \in [Runs -> RunRow]
<1>1. CASE Push
  <2>1. delivery' \in [Deliveries -> Fates] BY <1>1 DEF Push, TypeOK, Fates
  <2>2. remote' \in Commits BY <1>1 DEF Push, TypeOK, Commits
  <2>3. QED BY <1>1, <2>1, <2>2 DEF Push, TypeOK, checkoutVars, dockerVars
<1>2. ASSUME NEW d \in Deliveries, Send(d) \/ Handle(d) \/ StartFails(d) \/ Lose(d)
      PROVE  TypeOK'
  <2>1. Verdict(d) \in Fates BY DEF Verdict, Fates
  <2>2. delivery' \in [Deliveries -> Fates]
    BY <1>2, <2>1 DEF Send, Handle, StartFails, Lose, TypeOK, Fates
  <2>3. faults' \in Nat
    BY <1>2 DEF Send, Handle, StartFails, Lose, TypeOK
  <2>4. QED BY <1>2, <2>2, <2>3 DEF Send, Handle, StartFails, Lose, TypeOK, checkoutVars, dockerVars
<1>3. ASSUME NEW d \in Deliveries, NEW r \in Runs, StartDeploy(d, r)
      PROVE  TypeOK'
  <2>1. delivery' \in [Deliveries -> Fates]
    BY <1>3 DEF StartDeploy, TypeOK, Fates
  <2>2. [pc |-> "waiting", copy |-> name] \in RunRow BY DEF TypeOK, RunRow
  <2>3. RunType BY <1>3, <2>2 DEF StartDeploy, TypeOK, RunRow
  <2>4. QED BY <1>3, <2>1, <2>3 DEF StartDeploy, TypeOK, RunRow, checkoutVars, dockerVars
<1>4. CASE NextSecond \/ ReceiverUp
  <2>1. name' \in Nat BY <1>4 DEF NextSecond, ReceiverUp, TypeOK
  <2>2. receiver' \in BOOLEAN BY <1>4 DEF NextSecond, ReceiverUp, TypeOK
  <2>3. QED BY <1>4, <2>1, <2>2 DEF NextSecond, ReceiverUp, TypeOK, checkoutVars, dockerVars
<1>5. ASSUME NEW r \in Runs, Begin(r) \/ GiveUp(r) \/ BeginDirectly(r)
      PROVE  TypeOK'
  <2>1. RunType BY <1>5, GotoType DEF Begin, GiveUp, BeginDirectly, Script, Ends
  <2>2. lock' \in Runs \cup {None} BY <1>5 DEF Begin, GiveUp, BeginDirectly, TypeOK
  <2>3. faults' \in Nat BY <1>5 DEF Begin, GiveUp, BeginDirectly, TypeOK
  <2>4. QED BY <1>5, <2>1, <2>2, <2>3
    DEF Begin, GiveUp, BeginDirectly, TypeOK, RunRow, hostVars, checkoutVars, dockerVars
<1>6. ASSUME NEW r \in Runs, Compare(r) \/ WaitFails(r) \/ Finish(r) \/ CommandFails(r)
      PROVE  TypeOK'
  <2>1. RunType
    BY <1>6, GotoType DEF Compare, WaitFails, Finish, CommandFails, Exit, Script, Ends
  <2>2. copies' \subseteq Nat /\ lock' \in Runs \cup {None}
    <3>1. \/ copies' = copies /\ lock' = lock
          \/ copies' = copies \ {run[r].copy} /\ lock' = IF lock = r THEN None ELSE lock
      BY <1>6 DEF Compare, WaitFails, Finish, CommandFails, Exit
    <3>2. QED BY <3>1 DEF TypeOK
  <2>3. faults' \in Nat BY <1>6 DEF Compare, WaitFails, Finish, CommandFails, TypeOK
  <2>4. QED BY <2>3, <1>6, <2>1, <2>2
    DEF Compare, WaitFails, Finish, CommandFails, TypeOK, RunRow, hostVars, checkoutVars, dockerVars
<1>7. ASSUME NEW r \in Runs, Fetch(r) \/ Pull(r) \/ SetTag(r)
      PROVE  TypeOK'
  <2>1. RunType BY <1>7, GotoType DEF Fetch, Pull, SetTag, Script
  <2>2. QED BY <1>7, <2>1
    DEF Fetch, Pull, SetTag, TypeOK, RunRow, hostVars, checkoutVars, dockerVars
<1>8. ASSUME NEW r \in Runs,
             Backup(r) \/ LookFails(r) \/ Build(r) \/ Wait(r) \/ RestartReceiver(r)
      PROVE  TypeOK'
  <2>1. RunType BY <1>8, GotoType DEF Backup, LookFails, Build, Wait, RestartReceiver, Script
  <2>2. /\ image' \in [Commits -> Commits \cup {None}] /\ backup' \in Commits \cup {None}
        /\ healthy' \in Commits /\ missed' \in BOOLEAN
    <3>1. CASE Backup(r) \/ Build(r) \/ RestartReceiver(r)
      BY <3>1 DEF Backup, Build, RestartReceiver, TypeOK, dockerVars
    <3>2. CASE LookFails(r)
      BY <3>2 DEF LookFails, TypeOK
    <3>3. CASE Wait(r)
      BY <3>3 DEF Wait, TypeOK
    <3>4. QED BY <1>8, <3>1, <3>2, <3>3
  <2>3. faults' \in Nat
    BY <1>8 DEF Backup, LookFails, Build, Wait, RestartReceiver, TypeOK
  <2>4. QED BY <1>8, <2>1, <2>2, <2>3
    DEF Backup, LookFails, Build, Wait, RestartReceiver, TypeOK, RunRow, hostVars, checkoutVars, dockerVars
<1>9. ASSUME NEW r \in Runs, Up(r)
      PROVE  TypeOK'
  <2>1. RunType BY <1>9, GotoType DEF Up, Script
  <2>2. image' \in [Commits -> Commits \cup {None}] /\ live' \in Commits
    BY <1>9 DEF Up, TypeOK
  <2>3. faults' \in Nat
    <3>1. faults' = faults \/ faults' = faults + 1 BY <1>9 DEF Up
    <3>2. QED BY <3>1 DEF TypeOK
  <2>4. backend' \in BOOLEAN BY <1>9, Zenon DEF Up
  <2>5. QED BY <1>9, <2>1, <2>2, <2>3, <2>4 DEF Up, TypeOK, RunRow, hostVars, checkoutVars
<1>10. CASE Reboot
  <2>1. RunType BY <1>10 DEF Reboot, TypeOK, RunRow, Ends
  <2>2. lock' \in Runs \cup {None} BY <1>10 DEF Reboot
  <2>3. receiver' \in BOOLEAN BY <1>10 DEF Reboot
  <2>4. faults' \in Nat BY <1>10 DEF Reboot, TypeOK
  <2>5. QED BY <1>10, <2>1, <2>2, <2>3, <2>4 DEF Reboot, TypeOK, RunRow, checkoutVars, dockerVars
<1>11. CASE StopBackend \/ RestartBackend
  <2>1. backend' \in BOOLEAN BY <1>11 DEF StopBackend, RestartBackend
  <2>2. faults' \in Nat /\ missed' \in BOOLEAN
    BY <1>11 DEF StopBackend, RestartBackend, TypeOK
  <2>3. QED BY <1>11, <2>1, <2>2 DEF StopBackend, RestartBackend, TypeOK, hostVars, checkoutVars
<1>12. CASE UNCHANGED vars
  BY <1>12 DEF vars, hostVars, checkoutVars, dockerVars, TypeOK
<1>13. QED
  BY <1>1, <1>2, <1>3, <1>4, <1>5, <1>6, <1>7, <1>8, <1>9, <1>10, <1>11, <1>12 DEF Next, Step

(* Every variable keeps its type, whatever fails.                          *)
THEOREM TypeCorrect == Spec => []TypeOK
<1>1. QED BY TypeInit, TypeStep, PTL DEF Spec

-----------------------------------------------------------------------------
(* Mutual exclusion: a run of the receiver that is at work holds the lock. *)
HoldsLock == \A r \in Runs \ DirectRuns : Working(r) => lock = r
LockInv == TypeOK /\ HoldsLock

LEMMA LockInit == Init => LockInv
<1>1. Init => HoldsLock BY DEF Init, HoldsLock, Working, Script
<1>2. QED BY <1>1, TypeInit DEF LockInv

LEMMA LockStep == LockInv /\ [Next]_vars => LockInv'
<1> SUFFICES ASSUME LockInv, [Next]_vars PROVE HoldsLock'
  BY TypeStep DEF LockInv
<1> USE DEF LockInv, HoldsLock, Working
<1>1. CASE run' = run /\ lock' = lock
  BY <1>1
<1>2. ASSUME NEW d \in Deliveries, NEW r \in Runs, StartDeploy(d, r)
      PROVE  HoldsLock'
  BY <1>2 DEF StartDeploy, TypeOK, Script
<1>3. ASSUME NEW r \in Runs, Begin(r)
      PROVE  HoldsLock'
  <2>1. PICK pc \in {"fetch", "failed"} : Goto(r, pc) /\ lock' = IF pc = "fetch" THEN r ELSE lock
    BY <1>3 DEF Begin
  <2>2. run'[r].pc = pc /\ \A q \in Runs \ {r} : run'[q] = run[q]
    BY <2>1, GotoType DEF Script, Ends
  <2>3. QED BY <1>3, <2>1, <2>2, DeployAssumption DEF Begin, Script
<1>4. ASSUME NEW r \in Runs, GiveUp(r) \/ BeginDirectly(r)
      PROVE  HoldsLock'
  <2>1. lock' = lock BY <1>4 DEF GiveUp, BeginDirectly
  <2>2. CASE GiveUp(r)
    <3>1. run'[r].pc = "failed" /\ \A q \in Runs \ {r} : run'[q] = run[q]
      BY <2>2, GotoType DEF GiveUp, Ends
    <3>2. QED BY <2>1, <3>1 DEF Script
  <2>3. CASE BeginDirectly(r)
    <3>1. r \in DirectRuns /\ \A q \in Runs \ {r} : run'[q] = run[q]
      BY <2>3, GotoType DEF BeginDirectly, Script
    <3>2. QED BY <2>1, <3>1
  <2>4. QED BY <1>4, <2>2, <2>3
<1>5. ASSUME NEW r \in Runs, NEW end \in Ends, Exit(r, end)
      PROVE  HoldsLock'
  <2>1. run'[r].pc = end /\ \A q \in Runs \ {r} : run'[q] = run[q]
    BY <1>5, GotoType DEF Exit
  <2>2. QED BY <1>5, <2>1 DEF Exit, Script, Ends
<1>6. ASSUME NEW r \in Runs, Working(r), NEW pc \in Script, Goto(r, pc), lock' = lock
      PROVE  HoldsLock'
  <2>1. \A q \in Runs \ {r} : run'[q] = run[q] BY <1>6, GotoType
  <2>2. QED BY <1>6, <2>1
<1>7. CASE Reboot
  BY <1>7 DEF Reboot, TypeOK, At, Script, Ends
<1>8. ASSUME NEW r \in Runs, Step(r) \/ LookFails(r) \/ CommandFails(r)
      PROVE  HoldsLock'
  <2>1. CASE Begin(r) BY <1>3, <2>1
  <2>2. CASE Compare(r) \/ WaitFails(r) \/ Finish(r) \/ CommandFails(r)
    <3>1. \/ \E end \in Ends : Exit(r, end)
          \/ Working(r) /\ Goto(r, "backup") /\ lock' = lock
      BY <2>2 DEF Compare, WaitFails, Finish, CommandFails, At, Ends, Script
    <3>2. QED BY <3>1, <1>5, <1>6 DEF Script
  <2>3. CASE Fetch(r) \/ Backup(r) \/ LookFails(r) \/ Pull(r) \/ SetTag(r) \/ Build(r) \/ Up(r)
             \/ Wait(r) \/ RestartReceiver(r)
    <3>1. Working(r) /\ lock' = lock /\ \E pc \in Script : Goto(r, pc)
      BY <2>3 DEF Fetch, Backup, LookFails, Pull, SetTag, Build, Up, Wait, RestartReceiver, At, Script
    <3>2. QED BY <3>1, <1>6
  <2>4. QED BY <1>8, <2>1, <2>2, <2>3 DEF Step
<1>9. ASSUME NEW d \in Deliveries, Send(d) \/ Handle(d) \/ StartFails(d) \/ Lose(d)
      PROVE  HoldsLock'
  <2>1. run' = run /\ lock' = lock BY <1>9 DEF Send, Handle, StartFails, Lose
  <2>2. QED BY <2>1, <1>1
<1>10. CASE Push \/ NextSecond \/ ReceiverUp \/ StopBackend \/ RestartBackend \/ UNCHANGED vars
  <2>1. run' = run /\ lock' = lock
    BY <1>10 DEF Push, NextSecond, ReceiverUp, StopBackend, RestartBackend, vars
  <2>2. QED BY <2>1, <1>1
<1>11. QED
  BY <1>2, <1>4, <1>7, <1>8, <1>9, <1>10 DEF Next

(* Runs of the receiver never overlap, however many pushes, failures and   *)
(* reboots there are and even if operators run the script by hand.         *)
THEOREM MutualExclusion == Spec => []OneAtATime
<1>1. LockInv => OneAtATime BY DEF LockInv, HoldsLock, OneAtATime
<1>2. QED BY <1>1, LockInit, LockStep, PTL DEF Spec

-----------------------------------------------------------------------------
(* What one run achieves, if no other run touches checkout, .env and       *)
(* containers: DirectRuns is empty.                                        *)

(* The run that holds the lock, by how far it is: the tag names the        *)
(* checkout from SetTag on, the containers run it from Up on; between the  *)
(* look at the backend and Up there is a backup.                           *)
Staged ==
  \A r \in Runs :
    /\ run[r].pc \in {"build", "up"} => tag = head
    /\ run[r].pc \in {"tag", "build", "up"} => tracking <= head
    /\ run[r].pc \in {"wait", "receiver", "health"} =>
         tag = head /\ live = head /\ tracking <= head
    /\ run[r].pc \in {"pull", "tag", "build", "up"} => BackedUp

(* Commits are deployed in the order of their numbers.                     *)
Ordered == healthy <= live /\ live <= head /\ head <= remote

(* At any time there is a backup, unless what was found healthy is live    *)
(* and its backend runs: then the look will find it.                       *)
Covered == BackedUp \/ (backend /\ live = healthy)

Achieved == Staged /\ ImagesTrue /\ Ordered /\ Covered
DeployInv == LockInv /\ Achieved

LEMMA DeployInit == Init => DeployInv
<1>1. Init => Staged /\ ImagesTrue /\ Ordered /\ Covered
  BY DeployAssumption DEF Init, Staged, ImagesTrue, Ordered, Covered
<1>2. QED BY <1>1, LockInit DEF DeployInv, Achieved

(* What concerns run r is kept by a step of another run, which would need  *)
(* the lock, and by every step that leaves checkout and containers alone.  *)
LEMMA StagedStep ==
  ASSUME DirectRuns = {}, DeployInv, NEW r \in Runs,
         Step(r) \/ LookFails(r) \/ CommandFails(r)
  PROVE  Achieved'
<1> USE DeployAssumption DEF DeployInv, LockInv, Achieved
<1>1. \A q \in Runs : Working(q) => lock = q
  BY DEF HoldsLock
<1>2. ASSUME NEW pc, Goto(r, pc), pc \in {"unused", "waiting"} \cup Script \cup Ends,
             UNCHANGED <<remote, checkoutVars, dockerVars>>,
             pc \in {"build", "up", "tag", "pull"} => FALSE,
             pc \in {"wait", "receiver", "health"} => Working(r) /\ run[r].pc \in {"wait", "receiver", "health"}
      PROVE  Achieved'
  <2>1. run'[r].pc = pc /\ \A q \in Runs \ {r} : run'[q] = run[q]
    BY <1>2, GotoType
  <2>2. BackedUp' = BackedUp BY <1>2 DEF BackedUp, dockerVars
  <2>3. Staged' BY <1>2, <2>1, <2>2 DEF Staged, checkoutVars, dockerVars
  <2>4. ImagesTrue' /\ Ordered' /\ Covered'
    BY <1>2, <2>2 DEF ImagesTrue, Ordered, Covered, dockerVars, checkoutVars
  <2>5. QED BY <2>3, <2>4
<1>3. CASE Begin(r) \/ Compare(r) \/ WaitFails(r) \/ RestartReceiver(r) \/ Finish(r) \/ CommandFails(r)
  <2>1. PICK pc \in {"fetch", "failed", "noop", "backup", "receiver", "health", "done"} :
          /\ Goto(r, pc)
          /\ pc \in {"receiver", "health"} => run[r].pc \in {"wait", "receiver"}
    BY <1>3 DEF Begin, Compare, WaitFails, RestartReceiver, Finish, CommandFails, Exit, At
  <2>2. UNCHANGED <<remote, checkoutVars, dockerVars>>
    BY <1>3 DEF Begin, Compare, WaitFails, RestartReceiver, Finish, CommandFails, hostVars
  <2>3. QED BY <2>1, <2>2, <1>2 DEF Working, Script, Ends
(* The other steps are of the holder of the lock, so no other run works.   *)
<1>4. ASSUME Working(r), NEW pc \in Script, Goto(r, pc)
      PROVE  run'[r].pc = pc /\ \A q \in Runs \ {r} : run'[q].pc \notin Script
  <2>1. run'[r].pc = pc /\ \A q \in Runs \ {r} : run'[q] = run[q]
    BY <1>4, GotoType
  <2>2. QED BY <2>1, <1>1, <1>4 DEF Working
<1>5. CASE Fetch(r)
  <2>1. run'[r].pc = "compare" /\ \A q \in Runs \ {r} : run'[q].pc \notin Script
    BY <1>5, <1>4 DEF Fetch, At, Working, Script
  <2>2. Staged' BY <2>1 DEF Staged, Script
  <2>3. ImagesTrue' /\ Ordered' /\ Covered'
    BY <1>5 DEF Fetch, ImagesTrue, Ordered, Covered, BackedUp, dockerVars, hostVars
  <2>4. QED BY <2>2, <2>3
<1>6. CASE Backup(r) \/ LookFails(r)
  <2>1. run'[r].pc = "pull" /\ \A q \in Runs \ {r} : run'[q].pc \notin Script
    BY <1>6, <1>4 DEF Backup, LookFails, At, Working, Script
  <2>2. BackedUp'
    <3>1. CASE Backup(r)
      <4>1. CASE backend
        BY <3>1, <4>1 DEF Backup, BackedUp, Ordered, TypeOK, Commits
      <4>2. CASE ~backend
        BY <3>1, <4>2 DEF Backup, BackedUp, Covered
      <4>3. QED BY <4>1, <4>2
    <3>2. CASE LookFails(r)
      BY <3>2 DEF LookFails, BackedUp, Covered, TypeOK
    <3>3. QED BY <1>6, <3>1, <3>2
  <2>3. Staged' BY <2>1, <2>2 DEF Staged, Script
  <2>4. ImagesTrue' /\ Ordered'
    BY <1>6 DEF Backup, LookFails, ImagesTrue, Ordered, hostVars, checkoutVars
  <2>5. QED BY <2>2, <2>3, <2>4 DEF Covered
<1>7. CASE Pull(r)
  <2>1. run'[r].pc = "tag" /\ \A q \in Runs \ {r} : run'[q].pc \notin Script
    BY <1>7, <1>4 DEF Pull, At, Working, Script
  <2>2. tracking' <= head' /\ Ordered'
    BY <1>7 DEF Pull, TypeOK, Commits, Ordered, dockerVars, hostVars
  <2>3. BackedUp' BY <1>7 DEF Pull, Staged, At, BackedUp, dockerVars
  <2>4. Staged' BY <2>1, <2>2, <2>3 DEF Staged, Script
  <2>5. ImagesTrue' BY <1>7 DEF Pull, ImagesTrue, dockerVars
  <2>6. QED BY <2>2, <2>3, <2>4, <2>5 DEF Covered
<1>8. CASE SetTag(r)
  <2>1. run'[r].pc = "build" /\ \A q \in Runs \ {r} : run'[q].pc \notin Script
    BY <1>8, <1>4 DEF SetTag, At, Working, Script
  <2>2. tag' = head' /\ tracking' <= head'
    BY <1>8 DEF SetTag, Staged, At
  <2>3. BackedUp' BY <1>8 DEF SetTag, Staged, At, BackedUp, dockerVars
  <2>4. Staged' BY <2>1, <2>2, <2>3 DEF Staged, Script
  <2>5. ImagesTrue' /\ Ordered' BY <1>8 DEF SetTag, ImagesTrue, Ordered, dockerVars, hostVars
  <2>6. QED BY <2>3, <2>4, <2>5 DEF Covered
<1>9. CASE Build(r)
  <2>1. run'[r].pc = "up" /\ \A q \in Runs \ {r} : run'[q].pc \notin Script
    BY <1>9, <1>4 DEF Build, At, Working, Script
  <2>2. tag = head /\ tracking <= head /\ BackedUp
    BY <1>9 DEF Build, Staged, At
  <2>3. BackedUp' /\ tag' = head' /\ tracking' <= head'
    BY <1>9, <2>2 DEF Build, BackedUp, checkoutVars
  <2>4. Staged' BY <2>1, <2>3 DEF Staged, Script
  <2>5. ImagesTrue' BY <1>9, <2>2 DEF Build, ImagesTrue, TypeOK
  <2>6. Ordered' BY <1>9 DEF Build, Ordered, checkoutVars, hostVars
  <2>7. QED BY <2>3, <2>4, <2>5, <2>6 DEF Covered
<1>10. CASE Up(r)
  <2>1. run'[r].pc = "wait" /\ \A q \in Runs \ {r} : run'[q].pc \notin Script
    BY <1>10, <1>4 DEF Up, At, Working, Script
  <2>2. tag = head /\ tracking <= head /\ BackedUp
    BY <1>10 DEF Up, Staged, At
  <2>3. ImagesTrue' /\ live' = head BY <1>10, <2>2 DEF Up, ImagesTrue, TypeOK
  <2>4. Staged' BY <1>10, <2>1, <2>2, <2>3 DEF Up, Staged, checkoutVars, Script
  <2>5. Ordered' BY <1>10, <2>3 DEF Up, Ordered, TypeOK, Commits, checkoutVars, hostVars
  <2>6. BackedUp' BY <1>10, <2>2 DEF Up, BackedUp
  <2>7. QED BY <2>3, <2>4, <2>5, <2>6 DEF Covered
<1>11. CASE Wait(r)
  <2>1. run'[r].pc = "receiver" /\ \A q \in Runs \ {r} : run'[q].pc \notin Script
    BY <1>11, <1>4 DEF Wait, At, Working, Script
  <2>2. Staged' BY <1>11, <2>1 DEF Wait, Staged, At, checkoutVars, Script
  <2>3. ImagesTrue' BY <1>11 DEF Wait, ImagesTrue
  <2>4. Ordered' /\ Covered'
    BY <1>11 DEF Wait, Ordered, Covered, TypeOK, Commits, checkoutVars, hostVars
  <2>5. QED BY <2>2, <2>3, <2>4
<1>12. QED BY <1>3, <1>5, <1>6, <1>7, <1>8, <1>9, <1>10, <1>11 DEF Step

LEMMA DeployStep == DirectRuns = {} /\ DeployInv /\ [Next]_vars => DeployInv'
<1> SUFFICES ASSUME DirectRuns = {}, DeployInv, [Next]_vars
             PROVE  Achieved'
  BY LockStep DEF DeployInv
<1> USE DEF DeployInv, Achieved
<1>1. ASSUME UNCHANGED <<checkoutVars, image, live, healthy, backup>>,
             remote' = remote \/ remote' = remote + 1,
             \/ backend' = backend /\ missed' = missed
             \/ backend' = TRUE /\ missed' = missed
             \/ missed' = (missed \/ live = healthy),
             \A q \in Runs : run'[q].pc = run[q].pc \/ run'[q].pc \in {"waiting"} \cup Ends
      PROVE  Achieved'
  <2>1. BackedUp => BackedUp' BY <1>1 DEF BackedUp
  <2>2. Staged' BY <1>1, <2>1 DEF Staged, checkoutVars, Ends
  <2>3. Ordered' BY <1>1 DEF Ordered, checkoutVars, LockInv, TypeOK, Commits
  <2>4. Covered'
    <3>1. CASE BackedUp BY <2>1, <3>1 DEF Covered
    <3>2. CASE backend /\ live = healthy BY <1>1, <3>2 DEF Covered, BackedUp
    <3>3. QED BY <3>1, <3>2 DEF Covered
  <2>5. ImagesTrue' BY <1>1 DEF ImagesTrue
  <2>6. QED BY <2>2, <2>3, <2>4, <2>5
<1>2. ASSUME NEW r \in Runs, Step(r) \/ LookFails(r) \/ CommandFails(r)
      PROVE  Achieved'
  BY <1>2, StagedStep
<1>3. ASSUME NEW r \in Runs, GiveUp(r) \/ BeginDirectly(r)
      PROVE  Achieved'
  <2>1. GiveUp(r) BY <1>3 DEF BeginDirectly
  <2>2. run'[r].pc = "failed" /\ \A q \in Runs \ {r} : run'[q] = run[q]
    BY <2>1, GotoType DEF GiveUp, Ends, LockInv
  <2>3. QED BY <1>1, <2>1, <2>2 DEF GiveUp, dockerVars, hostVars, Ends
<1>4. ASSUME NEW d \in Deliveries, NEW r \in Runs, StartDeploy(d, r)
      PROVE  Achieved'
  <2>1. \A q \in Runs : run'[q].pc = run[q].pc \/ run'[q].pc = "waiting"
    BY <1>4 DEF StartDeploy, LockInv, TypeOK
  <2>2. QED BY <1>1, <1>4, <2>1 DEF StartDeploy, dockerVars
<1>5. ASSUME NEW d \in Deliveries, Send(d) \/ Handle(d) \/ StartFails(d) \/ Lose(d)
      PROVE  Achieved'
  BY <1>1, <1>5 DEF Send, Handle, StartFails, Lose, dockerVars
<1>6. CASE Reboot
  <2>1. \A q \in Runs : run'[q].pc = run[q].pc \/ run'[q].pc = "failed"
    BY <1>6 DEF Reboot, LockInv, TypeOK
  <2>2. QED BY <1>1, <1>6, <2>1 DEF Reboot, dockerVars, Ends
<1>7. CASE Push \/ NextSecond \/ ReceiverUp \/ StopBackend \/ RestartBackend \/ UNCHANGED vars
  <2>1. /\ run' = run /\ UNCHANGED <<checkoutVars, image, live, healthy, backup>>
        /\ remote' = remote \/ remote' = remote + 1
        /\ \/ backend' = backend /\ missed' = missed
           \/ backend' = TRUE /\ missed' = missed
           \/ missed' = (missed \/ live = healthy)
    BY <1>7 DEF Push, NextSecond, ReceiverUp, StopBackend, RestartBackend, vars, dockerVars, hostVars
  <2>2. QED BY <2>1, <1>1
<1>8. QED
  BY <1>2, <1>3, <1>4, <1>5, <1>6, <1>7 DEF Next

(* An image has the content its tag says, wherever runs fail.              *)
THEOREM TagsTellTheTruth == ASSUME DirectRuns = {} PROVE Spec => []ImagesTrue
<1>1. DeployInv => ImagesTrue BY DEF DeployInv, Achieved
<1>2. DeployInv /\ [Next]_vars => DeployInv' BY DeployStep
<1>3. QED BY <1>1, <1>2, DeployInit, PTL DEF Spec

(* A run that reports success leaves its checkout live.                    *)
THEOREM SuccessIsLive == ASSUME DirectRuns = {} PROVE Spec => DoneIsLive
<1>1. DeployInv /\ [Next]_vars =>
        [\A r \in Runs : At(r, "health") /\ run'[r].pc = "done" =>
           live = head /\ tag = head /\ tracking <= live]_vars
  BY DEF DeployInv, Achieved, Staged, At
<1>2. DeployInv /\ [Next]_vars => DeployInv' BY DeployStep
<1>3. QED BY <1>1, <1>2, DeployInit, PTL DEF Spec, DoneIsLive

(* The containers are never replaced without a backup that is as new as    *)
(* the last deployment found healthy, whatever fails and crashes: but for  *)
(* a healthy backend that stopped by itself or a look that failed.         *)
THEOREM NoUpgradeWithoutBackup ==
  ASSUME DirectRuns = {} PROVE Spec => UpgradeBackedUp
<1>1. DeployInv /\ [Next]_vars => [live' # live => BackedUp]_vars
  <2> SUFFICES ASSUME DeployInv, Next, live' # live PROVE BackedUp
    OBVIOUS
  <2>1. PICK r \in Runs : Up(r)
    BY DEF Next, Step, Push, Send, Handle, StartFails, Lose, StartDeploy, NextSecond,
           ReceiverUp, Begin, Fetch, Compare, Backup, LookFails, Pull, SetTag, Build, Wait,
           WaitFails, RestartReceiver, Finish, GiveUp, BeginDirectly, CommandFails, Reboot,
           StopBackend, RestartBackend, dockerVars
  <2>2. QED BY <2>1 DEF Up, At, DeployInv, Achieved, Staged
<1>2. DeployInv /\ [Next]_vars => DeployInv' BY DeployStep
<1>3. QED BY <1>1, <1>2, DeployInit, PTL DEF Spec, UpgradeBackedUp
=============================================================================
