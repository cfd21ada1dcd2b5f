---------------------------- MODULE AdminWorkspace ----------------------------
(***************************************************************************)
(* The administration workspace (AdminWorkspace.tsx with the dialogs of    *)
(* RecordFormDialog.tsx and ConfirmDialog.tsx).  Dialogs are modal: while  *)
(* one is open nothing behind it can be clicked, and none can be closed    *)
(* while it is busy.  An asynchronous function goes on in one step per     *)
(* answer.  Search, notices and the wording of errors are left out.        *)
(***************************************************************************)
EXTENDS Management

VARIABLES
  activeResource,
  snapshot,        \* [at |-> write, rows |-> rows] or Null
  loadState,       \* "loading", "ready" or "error"
  editor,          \* Null or [type |-> type, record |-> record, base |-> write, n |-> calls before]
  mutationBusy,
  mutationError,   \* Null, or the editor it was set for
  token,           \* Null or [gateway, value, error]: the token dialog
  tokenBusy,
  acknowledged     \* the last write the server confirmed to this visit

(* Null is no token dialog.                                                *)
ASSUME NullAssumption == Null \notin [gateway : Records, value : Nat \cup {Null}, error : BOOLEAN]

editing == <<editor, mutationBusy, mutationError>>
tokenDialog == <<token, tokenBusy>>
loading == <<snapshot, loadState>>
workspaceVars == <<activeResource, loading, editing, tokenDialog, acknowledged>>

WorkspaceInit(resource) ==
  /\ activeResource = resource /\ snapshot = Null /\ loadState = "loading"
  /\ editor = Null /\ mutationBusy = FALSE /\ mutationError = Null
  /\ token = Null /\ tokenBusy = FALSE /\ acknowledged = 0

(* A page that is mounted or unmounted starts anew.                        *)
WorkspaceAnew(resource) ==
  /\ activeResource' = resource /\ snapshot' = Null /\ loadState' = "loading"
  /\ editor' = Null /\ mutationBusy' = FALSE /\ mutationError' = Null
  /\ token' = Null /\ tokenBusy' = FALSE /\ acknowledged' = 0

Modal == editor # Null \/ token # Null
Here == page = "workspace"
Listed(r) == Exists(snapshot.rows, r) /\ ResourceOf(r) = activeResource

-----------------------------------------------------------------------------
(* load: the outcome of a load, whatever it was made for.                  *)
Loaded(answer) ==
  IF answer.ok THEN snapshot' = [at |-> answer.at, rows |-> answer.rows] /\ loadState' = "ready"
  ELSE loadState' = "error" /\ UNCHANGED snapshot

Refresh ==
  /\ Here /\ ~Modal /\ loadState # "loading"
  /\ loadState' = "loading" /\ Send(Load("refresh"))
  /\ UNCHANGED <<server, route, activeResource, snapshot, editing, tokenDialog, acknowledged>>

LoadArrives(c) ==
  /\ Here /\ Mine(c) /\ c.kind = "load"
  /\ Loaded(c.answer) /\ Done(c)
  /\ IF c.for = "mutation" THEN editor' = Null /\ mutationBusy' = FALSE /\ UNCHANGED mutationError
     ELSE UNCHANGED editing
  /\ tokenBusy' = IF c.for = "token" THEN FALSE ELSE tokenBusy
  /\ UNCHANGED <<server, route, activeResource, token, acknowledged>>

SelectResource(resource) ==
  /\ Here /\ ~Modal /\ activeResource' = resource
  /\ editor' = Null /\ mutationError' = Null /\ UNCHANGED mutationBusy
  /\ UNCHANGED <<server, network, route, loading, tokenDialog, acknowledged>>

-----------------------------------------------------------------------------
(* The editors.                                                            *)

(* Mutant: the error of the editor before is kept.                         *)
OpenEditorWithError(type, record, base) ==
  /\ Here /\ ~Modal /\ loadState = "ready"
  /\ editor' = [type |-> type, record |-> record, base |-> base, n |-> sent]
  /\ UNCHANGED <<mutationBusy, mutationError, server, network, route, activeResource, loading,
                 tokenDialog, acknowledged>>

OpenEditor(type, record, base) ==
  /\ Here /\ ~Modal /\ loadState = "ready"
  /\ editor' = [type |-> type, record |-> record, base |-> base, n |-> sent]
  /\ mutationError' = Null
  /\ UNCHANGED <<mutationBusy, server, network, route, activeResource, loading, tokenDialog,
                 acknowledged>>

Open ==
  \/ OpenEditor("create", activeResource, Null)
  \/ \E r \in Records, type \in {"edit", "delete", "password"} :
       /\ snapshot # Null /\ Listed(r)
       /\ type = "password" => activeResource = "users"
       /\ OpenEditor(type, r, snapshot.rows[r])

CloseEditor ==
  /\ Here /\ editor # Null /\ ~mutationBusy /\ editor' = Null
  /\ UNCHANGED <<server, network, route, activeResource, loading, mutationBusy, mutationError,
                 tokenDialog, acknowledged>>

(* saveRecord, deleteRecord and updatePassword up to their first answer.   *)
Submit ==
  /\ Here /\ editor # Null /\ ~mutationBusy
  /\ mutationBusy' = TRUE /\ mutationError' = Null
  /\ Send(Call(editor.type, "mutation", editor.record, editor.base))
  /\ UNCHANGED <<server, route, activeResource, loading, editor, tokenDialog, acknowledged>>

(* Mutant: the dialog closes before the records are loaded again.          *)
MutationClosesFirst(c) ==
  /\ Here /\ Mine(c) /\ c.for = "mutation" /\ c.kind # "load"
  /\ IF ~c.answer.ok
     THEN mutationBusy' = FALSE /\ mutationError' = editor /\ Done(c) /\ UNCHANGED <<editor, acknowledged>>
     ELSE /\ editor' = Null /\ mutationBusy' = FALSE /\ UNCHANGED mutationError
          /\ IF c.kind = "password" THEN Done(c) /\ UNCHANGED acknowledged
             ELSE SendAfter(c, Load("refresh")) /\ acknowledged' = c.answer.at
  /\ UNCHANGED <<server, route, activeResource, loading, tokenDialog>>

(* reloadAfterMutation keeps the dialog busy until the load is over; a new *)
(* password needs no load; handleMutationError keeps the dialog open.      *)
MutationArrives(c) ==
  /\ Here /\ Mine(c) /\ c.for = "mutation" /\ c.kind # "load"
  /\ IF ~c.answer.ok
     THEN mutationBusy' = FALSE /\ mutationError' = editor /\ Done(c) /\ UNCHANGED <<editor, acknowledged>>
     ELSE IF c.kind = "password"
     THEN editor' = Null /\ mutationBusy' = FALSE /\ Done(c) /\ UNCHANGED <<mutationError, acknowledged>>
     ELSE SendAfter(c, Load("mutation")) /\ acknowledged' = c.answer.at /\ UNCHANGED editing
  /\ UNCHANGED <<server, route, activeResource, loading, tokenDialog>>

-----------------------------------------------------------------------------
(* The token of a gateway.                                                 *)

IssueGatewayToken(g) ==
  /\ Here /\ ~Modal /\ loadState = "ready" /\ activeResource = "gateways" /\ Listed(g)
  /\ token' = [gateway |-> g, value |-> Null, error |-> FALSE] /\ tokenBusy' = TRUE
  /\ Send(Call("rotate", "token", g, Null))
  /\ UNCHANGED <<server, route, activeResource, loading, editing, acknowledged>>

TokenArrives(c) ==
  /\ Here /\ Mine(c) /\ c.kind = "rotate"
  /\ IF c.answer.ok
     THEN /\ token' = [token EXCEPT !.value = c.answer.at] /\ acknowledged' = c.answer.at
          /\ SendAfter(c, Load("token")) /\ UNCHANGED tokenBusy
     ELSE /\ token' = [token EXCEPT !.error = TRUE] /\ tokenBusy' = FALSE
          /\ Done(c) /\ UNCHANGED acknowledged
  /\ UNCHANGED <<server, route, activeResource, loading, editing>>

(* Mutant: the token dialog may be closed at any time.                     *)
CloseTokenAnytime ==
  /\ Here /\ token # Null /\ token' = Null
  /\ UNCHANGED <<tokenBusy, server, network, route, activeResource, loading, editing, acknowledged>>

CloseToken ==
  /\ Here /\ token # Null /\ ~tokenBusy /\ token' = Null
  /\ UNCHANGED <<tokenBusy, server, network, route, activeResource, loading, editing, acknowledged>>

WorkspaceNext ==
  \/ Refresh \/ Open \/ CloseEditor \/ Submit \/ CloseToken
  \/ \E resource \in Resources : SelectResource(resource)
  \/ \E g \in Records : snapshot # Null /\ IssueGatewayToken(g)
  \/ \E c \in calls : LoadArrives(c) \/ MutationArrives(c) \/ TokenArrives(c)

-----------------------------------------------------------------------------
InFlight(kinds) == {c \in calls : c.visit = visit /\ c.kind \in kinds}

WorkspaceTypeOK ==
  /\ activeResource \in Resources
  /\ loadState \in {"loading", "ready", "error"}
  /\ snapshot # Null => snapshot.at \in 0..clock
  /\ editor # Null /\ editor.type = "password" => ResourceOf(editor.record) = "users"
  /\ token # Null => ResourceOf(token.gateway) = "gateways"
  /\ mutationBusy \in BOOLEAN /\ tokenBusy \in BOOLEAN
  /\ acknowledged \in 0..clock

(* The workspace never works on records older than its own last change:    *)
(* one load at a time is under way, whose answer is therefore not          *)
(* overtaken; a list that can be edited includes every write that the      *)
(* server confirmed to it; and a save that the server has yet to see       *)
(* replaces a version it was not made from only if that version is newer   *)
(* than the last write that was confirmed.                                 *)
WorkspaceIsFresh ==
  Here =>
    /\ Cardinality(InFlight({"load"})) <= 1
    /\ loadState = "ready" /\ ~mutationBusy /\ ~tokenBusy /\ InFlight({"load"}) = {}
         => snapshot.at >= acknowledged
    /\ \A c \in InFlight({"edit"}) :
         c.answer = Null /\ Exists(rows, c.record) /\ rows[c.record] # c.base
           => rows[c.record].v > acknowledged

(* An open editor shows only errors of its own submissions, and is busy    *)
(* exactly while a mutation of this visit is under way: no answer can      *)
(* reach an editor that was opened after it was asked for.                 *)
EditorIsTold ==
  Here =>
    /\ editor # Null /\ mutationError # Null => mutationError = editor
    /\ mutationBusy = (\E c \in calls : c.visit = visit /\ c.for = "mutation")
    /\ mutationBusy => editor # Null
    /\ \A c \in calls : c.visit = visit /\ c.for = "mutation" => editor.n < c.n

(* A token that is shown is the token of the gateway that the dialog       *)
(* names, and works unless somebody else issued another one since.         *)
ShownTokenWorks ==
  /\ token # Null /\ token.value # Null =>
       \/ tokens[token.gateway] = Row("live", token.value, visit)
       \/ tokens[token.gateway].v > token.value /\ tokens[token.gateway].by # visit
  /\ tokenBusy => token # Null
=============================================================================
