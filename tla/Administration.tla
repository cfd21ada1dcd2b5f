---------------------------- MODULE Administration ----------------------------
(***************************************************************************)
(* One tab of a superuser who goes to and fro between the administration   *)
(* workspace, a module page and other pages, while other administrators    *)
(* change the same records.                                                *)
(***************************************************************************)
EXTENDS AdminWorkspace, ModulePage

CONSTANTS FirstResource, FirstSection

(* What a page shows first is one of the resources and sections it has.    *)
ASSUME FirstAssumption == FirstResource \in Resources /\ FirstSection \in Sections

vars == <<server, network, route, workspaceVars, moduleVars>>

Init ==
  /\ ManagementInit
  /\ WorkspaceInit(FirstResource) /\ ModuleInit(FirstSection)

(* The tab goes from one page to another; the state of both is gone.       *)
Go(p) ==
  /\ Mount(p) /\ WorkspaceAnew(FirstResource) /\ ModuleAnew(FirstSection)
  /\ UNCHANGED server

Outside ==
  /\ \/ OtherAdministrator
     \/ \E c \in calls : Serve(c) \/ Fail(c) \/ Forget(c)
  /\ UNCHANGED <<workspaceVars, moduleVars>>

Next ==
  \/ Outside
  \/ \E p \in {"workspace", "module", "elsewhere"} : Go(p)
  \/ WorkspaceNext /\ UNCHANGED moduleVars
  \/ ModuleNext /\ UNCHANGED workspaceVars

Spec == Init /\ [][Next]_vars

Arrives(c) ==
  \/ (LoadArrives(c) \/ MutationArrives(c) \/ TokenArrives(c)) /\ UNCHANGED moduleVars
  \/ (DataArrives(c) \/ SaveArrives(c)) /\ UNCHANGED workspaceVars

(* Every call is answered, if only by a network error, and every answer    *)
(* reaches the page.                                                       *)
Fairness ==
  \A n \in 1..MaxCalls :
    /\ WF_vars(\E c \in calls : /\ c.n = n /\ c.answer = Null /\ (Serve(c) \/ Fail(c))
                                /\ UNCHANGED <<workspaceVars, moduleVars>>)
    /\ WF_vars(\E c \in calls : c.n = n /\ Arrives(c))

FairSpec == Spec /\ Fairness

TypeOK == WorkspaceTypeOK /\ ModuleTypeOK

(* No dialog stays busy for ever: every mutation of the workspace, every   *)
(* token and every save of a module page comes to an end, with its reload, *)
(* whether it succeeds, is refused or is lost.  A page that is loading     *)
(* goes on to be ready or to report an error.                              *)
Busy(what) ==
  CASE what = "mutation" -> Here /\ mutationBusy
    [] what = "token" -> Here /\ tokenBusy
    [] what = "save" -> Opened /\ saving
    [] what = "workspace" -> Here /\ loadState = "loading"
    [] what = "module" -> Opened /\ dataState = "loading"

DialogsRelease ==
  \A what \in {"mutation", "token", "save", "workspace", "module"} :
    Busy(what) ~> ~Busy(what) \/ sent = MaxCalls
=============================================================================
