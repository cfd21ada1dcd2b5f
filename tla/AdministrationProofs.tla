------------------------ MODULE AdministrationProofs ------------------------
(***************************************************************************)
(* The administration workspace and the module page keep what they         *)
(* promise, for any records, resources and sections, any number of writes, *)
(* calls and visits, and any other administrators.                         *)
(*                                                                         *)
(* The invariant says, of the calls of the visit that is mounted, which    *)
(* wait each of them is for (a workspace has one call under way at most,   *)
(* a module page one save), and how old the rows are that a page shows,    *)
(* that a load brings, and that an editor was opened on.                   *)
(***************************************************************************)
EXTENDS Administration, FiniteSetTheorems, TLAPS

Kinds == {"load", "edit", "delete", "create", "password", "rotate"}
Rows == [is : {"unused", "live", "gone"}, v : Nat, by : Nat]
Tables == [Records -> Rows]

IsCall(c) ==
  c = [n |-> c.n, visit |-> c.visit, kind |-> c.kind, for |-> c.for,
       record |-> c.record, base |-> c.base, answer |-> c.answer]

(* The rows of a snapshot are those of the server, or older than its.      *)
Behind(s) ==
  /\ s.at \in Nat /\ s.at <= clock
  /\ \A r \in Records : rows[r] = s.rows[r] \/ rows[r].v > s.at

Confirmed(answer) == answer # Null /\ answer # Failed

AnswerOK(c) ==
  Confirmed(c.answer) =>
    /\ c.answer.ok = TRUE /\ c.answer.at \in Nat /\ c.answer.at <= clock
    /\ c.kind = "load" => Behind(c.answer)

CallOK(c) ==
  /\ IsCall(c) /\ c.kind \in Kinds
  /\ c.visit \in Nat /\ c.visit <= visit
  /\ c.kind = "rotate" => c.record \in Records
  /\ AnswerOK(c)

ServerInv == rows \in Tables /\ tokens \in Tables /\ clock \in Nat
NetworkInv ==
  /\ sent \in Nat /\ visit \in Nat
  /\ page \in {"workspace", "module", "elsewhere"}
  /\ page # "elsewhere" => visit # Other
  /\ \A c \in calls : CallOK(c)

-----------------------------------------------------------------------------
(* The workspace.                                                          *)
Ours == {c \in calls : c.visit = visit}
Works(value) ==
  \/ tokens[token.gateway] = Row("live", value, visit)
  \/ tokens[token.gateway].v > value /\ tokens[token.gateway].by # visit

WorkspaceState ==
  /\ activeResource \in Resources
  /\ loadState \in {"loading", "ready", "error"}
  /\ snapshot # Null => Behind(snapshot)
  /\ editor # Null =>
       /\ editor.n \in Nat /\ editor.n <= sent
       /\ editor.type \in {"create", "edit", "delete", "password"}
       /\ editor.type # "create" => editor.record \in Records
       /\ editor.type = "password" => ResourceOf(editor.record) = "users"
  /\ editor # Null /\ mutationError # Null => mutationError = editor
  /\ token # Null =>
       /\ token \in [gateway : Records, value : Nat \cup {Null}, error : BOOLEAN]
       /\ ResourceOf(token.gateway) = "gateways"
       /\ token.value # Null => token.value <= clock /\ Works(token.value)
  /\ mutationBusy \in BOOLEAN /\ tokenBusy \in BOOLEAN
  /\ acknowledged \in Nat /\ acknowledged <= clock
  /\ mutationBusy => editor # Null
  /\ tokenBusy => token # Null
  /\ editor # Null => token = Null
  /\ Modal => loadState # "loading"

(* What call c of this visit is waited for.                                *)
WaitedFor(c) ==
  \/ /\ c.for \in {"mount", "refresh"} /\ c.kind = "load"
     /\ loadState = "loading"
  \/ /\ c.for = "mutation" /\ mutationBusy /\ editor.n < c.n
     /\ \/ c.kind = "load"
        \/ c.kind = editor.type /\ c.record = editor.record /\ c.base = editor.base
  \/ /\ c.for = "token" /\ tokenBusy
     /\ \/ c.kind = "load"
        \/ /\ c.kind = "rotate" /\ c.record = token.gateway /\ token.value = Null
           /\ Confirmed(c.answer) => Works(c.answer.at)

LoadAway == \E c \in Ours : c.kind = "load"

WorkspaceCalls ==
  Here =>
    /\ \A c, d \in Ours : c = d
    /\ \A c \in Ours : WaitedFor(c)
    /\ loadState = "loading" => \E c \in Ours : c.for \in {"mount", "refresh"}
    /\ mutationBusy => \E c \in Ours : c.for = "mutation"
    /\ tokenBusy => \E c \in Ours : c.for = "token"

WorkspaceFreshness ==
  Here =>
    /\ \A c \in Ours : c.kind = "load" /\ Confirmed(c.answer) => c.answer.at >= acknowledged
    /\ loadState = "ready" /\ ~LoadAway => snapshot.at >= acknowledged
    /\ editor # Null /\ editor.type = "edit" /\ ~LoadAway =>
         rows[editor.record] = editor.base \/ rows[editor.record].v > acknowledged

-----------------------------------------------------------------------------
(* The module page.                                                        *)
ModuleState ==
  /\ section \in Sections /\ dataState \in {"loading", "ready", "error"}
  /\ data # Null => data.at \in Nat /\ data.at <= clock
  /\ selected # Null => selected.section \in Sections /\ selected.record \in Records
  /\ saving \in BOOLEAN /\ overlapped \in BOOLEAN
  /\ saved \in Nat /\ saved <= clock
  /\ draft # Null => DialogShown /\ edited = draft

ModuleCalls ==
  Opened =>
    /\ \A c \in Ours : c.kind \in {"load", "edit"}
    /\ \A c, d \in Ours : c.kind = "edit" /\ d.kind = "edit" => c = d
    /\ saving = (\E c \in Ours : c.kind = "edit")
    /\ dataState = "loading" => LoadAway

ModuleFreshness ==
  Opened /\ ~overlapped =>
    /\ \A c, d \in Ours : c.kind = "load" /\ d.kind = "load" => c = d
    /\ \A c \in Ours : c.kind = "load" /\ Confirmed(c.answer) => c.answer.at >= saved
    /\ dataState = "ready" /\ ~LoadAway => data.at >= saved

(* A page that is not mounted has no state.                                *)
NotMounted ==
  /\ ~Here => snapshot = Null /\ editor = Null /\ token = Null /\ ~mutationBusy /\ ~tokenBusy
  /\ ~Opened => data = Null /\ selected = Null /\ draft = Null

IInv ==
  /\ ServerInv /\ NetworkInv
  /\ WorkspaceState /\ WorkspaceCalls /\ WorkspaceFreshness
  /\ ModuleState /\ ModuleCalls /\ ModuleFreshness
  /\ NotMounted

-----------------------------------------------------------------------------
(* Calls.                                                                  *)

Same(c, d) ==
  /\ d.n = c.n /\ d.visit = c.visit /\ d.kind = c.kind /\ d.for = c.for
  /\ d.record = c.record /\ d.base = c.base

(* An answered call is the call it was, with the answer.                   *)
LEMMA AnswerChangesNothingElse ==
  ASSUME NEW c, NEW a, IsCall(c)
  PROVE  LET d == [c EXCEPT !.answer = a]
         IN Same(c, d) /\ IsCall(d) /\ d.answer = a
<1> DEFINE d == [n |-> c.n, visit |-> c.visit, kind |-> c.kind, for |-> c.for,
                 record |-> c.record, base |-> c.base, answer |-> a]
<1>1. [c EXCEPT !.answer = a] = d
  BY DEF IsCall
<1>2. Same(c, d) /\ IsCall(d) /\ d.answer = a
  BY DEF Same, IsCall
<1> QED  BY <1>1, <1>2

(* What a new call says.                                                   *)
LEMMA NewCall ==
  ASSUME NEW kind, NEW for, NEW record, NEW base
  PROVE  LET c == Call(kind, for, record, base)
         IN /\ IsCall(c) /\ c.n = sent + 1 /\ c.visit = visit /\ c.kind = kind
            /\ c.for = for /\ c.record = record /\ c.base = base /\ c.answer = Null
BY DEF Call, IsCall

-----------------------------------------------------------------------------
(* Steps of the server and of other administrators.                        *)

(* Every write gives what it changes a number that was not used before.    *)
ServerGrows ==
  /\ ServerInv' /\ clock <= clock'
  /\ \A r \in Records : rows'[r] = rows[r] \/ rows'[r].v > clock

(* Only a call that this visit waits for issues a token in its name.       *)
TokensKept ==
  Here => \A r \in Records :
    \/ tokens'[r] = tokens[r]
    \/ tokens'[r].v > clock /\ tokens'[r].by # visit
    \/ \E c \in Ours : c.kind = "rotate" /\ c.answer = Null

(* A snapshot stays one.                                                   *)
LEMMA SnapshotsStay ==
  ASSUME ServerInv, ServerGrows, NEW s, Behind(s)
  PROVE  Behind(s)'
<1>1. \A r \in Records : rows'[r] \in Rows /\ rows[r] \in Rows
  BY DEF ServerInv, ServerGrows, Tables
<1>2. \A r \in Records : rows'[r].v \in Nat /\ rows[r].v \in Nat
  BY <1>1 DEF Rows
<1>3. s.at \in Nat /\ s.at <= clock /\ clock \in Nat /\ clock' \in Nat /\ clock <= clock'
  BY DEF ServerInv, ServerGrows, Behind
<1>4. s.at <= clock'
  BY <1>3
<1>5. ASSUME NEW r \in Records
      PROVE  rows'[r] = s.rows[r] \/ rows'[r].v > s.at
  <2>1. rows[r] = s.rows[r] \/ rows[r].v > s.at
    BY DEF Behind
  <2>2. rows'[r] = rows[r] \/ rows'[r].v > clock
    BY DEF ServerGrows
  <2>3. rows'[r].v > clock => rows'[r].v > s.at
    BY <1>2, <1>3
  <2> QED  BY <2>1, <2>2, <2>3
<1> QED  BY <1>3, <1>4, <1>5 DEF Behind

(* A call that is not answered in the step keeps its answer.               *)
LEMMA CallsStay ==
  ASSUME ServerInv, ServerGrows, visit \in Nat, visit' \in Nat, visit <= visit', NEW c, CallOK(c)
  PROVE  CallOK(c)'
<1>1. clock \in Nat /\ clock' \in Nat /\ clock <= clock'
  BY DEF ServerInv, ServerGrows
<1>2. ASSUME Confirmed(c.answer)
      PROVE  /\ c.answer.ok = TRUE /\ c.answer.at \in Nat /\ c.answer.at <= clock'
             /\ c.kind = "load" => Behind(c.answer)'
  <2>1. c.answer.ok = TRUE /\ c.answer.at \in Nat /\ c.answer.at <= clock
    BY <1>2 DEF CallOK, AnswerOK
  <2>2. c.kind = "load" => Behind(c.answer)
    BY <1>2 DEF CallOK, AnswerOK
  <2>3. c.kind = "load" => Behind(c.answer)'
    BY <2>2, SnapshotsStay
  <2> QED  BY <1>1, <2>1, <2>3
<1>3. AnswerOK(c)'
  BY <1>2 DEF AnswerOK, Confirmed
<1>4. c.visit \in Nat /\ c.visit <= visit'
  BY DEF CallOK
<1> QED  BY <1>3, <1>4 DEF CallOK, IsCall

(* A token that works goes on working or is replaced by somebody else.     *)
LEMMA TokensWork ==
  ASSUME ServerInv, ServerGrows, TokensKept, UNCHANGED <<visit, token>>, Here,
         token.gateway \in Records,
         ~ \E c \in Ours : c.kind = "rotate" /\ c.answer = Null,
         NEW value \in Nat, value <= clock, Works(value)
  PROVE  Works(value)'
<1> DEFINE g == token.gateway
<1>1. tokens'[g] = tokens[g] \/ (tokens'[g].v > clock /\ tokens'[g].by # visit)
  BY DEF TokensKept
<1>2. tokens'[g] \in Rows /\ clock \in Nat
  BY DEF ServerInv, ServerGrows, Tables
<1>3. tokens'[g].v \in Nat
  BY <1>2 DEF Rows
<1>4. CASE tokens'[g] = tokens[g]
  BY <1>4 DEF Works
<1>5. CASE tokens'[g].v > clock /\ tokens'[g].by # visit
  <2>1. tokens'[g].v > value
    BY <1>2, <1>3, <1>5
  <2> QED  BY <1>5, <2>1 DEF Works
<1> QED  BY <1>1, <1>4, <1>5

(* A step that leaves the pages alone keeps what they hold.                *)
LEMMA PagesStay ==
  ASSUME IInv, ServerGrows, TokensKept, UNCHANGED <<sent, route, workspaceVars, moduleVars>>
  PROVE  WorkspaceState' /\ ModuleState' /\ NotMounted'
<1> USE DEF IInv
<1>1. clock \in Nat /\ clock' \in Nat /\ clock <= clock'
  BY DEF ServerInv, ServerGrows
<1>2. /\ activeResource' = activeResource /\ snapshot' = snapshot /\ loadState' = loadState
      /\ editor' = editor /\ mutationBusy' = mutationBusy /\ mutationError' = mutationError
      /\ token' = token /\ tokenBusy' = tokenBusy /\ acknowledged' = acknowledged
      /\ sent' = sent /\ page' = page /\ visit' = visit
  BY DEF workspaceVars, loading, editing, tokenDialog, route
<1>3. /\ section' = section /\ data' = data /\ dataState' = dataState /\ selected' = selected
      /\ edited' = edited /\ draft' = draft /\ saving' = saving /\ saved' = saved
      /\ overlapped' = overlapped
  BY DEF moduleVars
<1>4. snapshot # Null => Behind(snapshot)'
  BY <1>2, SnapshotsStay DEF WorkspaceState, Behind
<1>5. ASSUME token # Null, token.value # Null
      PROVE  token.value <= clock' /\ Works(token.value)'
  <2>1. /\ token.gateway \in Records /\ token.value \in Nat
        /\ token.value <= clock /\ Works(token.value)
    BY <1>5 DEF WorkspaceState
  <2>2. Here
    BY <1>5 DEF NotMounted
  <2>3. ~ \E c \in Ours : c.kind = "rotate" /\ c.answer = Null
    BY <1>5, <2>2 DEF WorkspaceCalls, WaitedFor, WorkspaceState
  <2>4. Works(token.value)'
    BY <1>2, <2>1, <2>2, <2>3, TokensWork
  <2> QED  BY <1>1, <2>1, <2>4
<1>6. acknowledged' \in Nat /\ acknowledged' <= clock' /\ saved' \in Nat /\ saved' <= clock'
  BY <1>1, <1>2, <1>3 DEF WorkspaceState, ModuleState
<1>7. data' # Null => data'.at \in Nat /\ data'.at <= clock'
  BY <1>1, <1>3 DEF ModuleState
<1>8. WorkspaceState'
  BY <1>2, <1>4, <1>5, <1>6 DEF WorkspaceState, Modal
<1>9. ModuleState'
  BY <1>3, <1>6, <1>7 DEF ModuleState, DialogShown, SelectedRow, RowOf
<1>10. NotMounted'
  BY <1>2, <1>3 DEF NotMounted, Here, Opened
<1> QED  BY <1>8, <1>9, <1>10

(* What a call is waited for does not change while nothing arrives.        *)
LEMMA WaitsStay ==
  ASSUME IInv, ServerGrows, TokensKept, UNCHANGED <<sent, route, workspaceVars, moduleVars>>,
         Here, NEW e \in Ours
  PROVE  WaitedFor(e)'
<1> USE DEF IInv
<1>1. /\ loadState' = loadState /\ editor' = editor /\ mutationBusy' = mutationBusy
      /\ token' = token /\ tokenBusy' = tokenBusy /\ visit' = visit
  BY DEF workspaceVars, loading, editing, tokenDialog, route
<1>2. WaitedFor(e) /\ \A c, d \in Ours : c = d
  BY DEF WorkspaceCalls
<1>3. ASSUME tokenBusy, e.kind = "rotate", e.record = token.gateway, Confirmed(e.answer),
             Works(e.answer.at)
      PROVE  Works(e.answer.at)'
  <2>1. e.answer.at \in Nat /\ e.answer.at <= clock
    BY <1>3 DEF NetworkInv, CallOK, AnswerOK, Ours
  <2>2. token.gateway \in Records
    BY <1>3 DEF WorkspaceState
  <2>3. ~ \E c \in Ours : c.kind = "rotate" /\ c.answer = Null
    BY <1>2, <1>3 DEF Confirmed
  <2> QED  BY <1>1, <1>3, <2>1, <2>2, <2>3, TokensWork DEF Works
<1>4. tokenBusy /\ e.kind = "rotate" /\ e.record = token.gateway /\ Confirmed(e.answer)
        => (Works(e.answer.at) => Works(e.answer.at)')
  BY <1>3
<1> QED  BY <1>1, <1>2, <1>4 DEF WaitedFor, Confirmed

(* An editor that was opened on a current row, or on one that somebody     *)
(* changed since, stays so.                                                *)
LEMMA EditorsStay ==
  ASSUME IInv, ServerGrows, UNCHANGED <<route, workspaceVars>>, Here,
         editor # Null, editor.type = "edit", ~LoadAway
  PROVE  rows'[editor.record] = editor.base \/ rows'[editor.record].v > acknowledged
<1> USE DEF IInv
<1> DEFINE r == editor.record
<1>1. rows[r] = editor.base \/ rows[r].v > acknowledged
  BY DEF WorkspaceFreshness
<1>2. r \in Records /\ acknowledged \in Nat /\ acknowledged <= clock /\ clock \in Nat
  BY DEF WorkspaceState, ServerInv
<1>3. rows'[r] \in Rows
  BY <1>2 DEF ServerGrows, ServerInv, Tables
<1>4. rows'[r].v \in Nat
  BY <1>3 DEF Rows
<1>5. rows'[r] = rows[r] \/ rows'[r].v > clock
  BY <1>2 DEF ServerGrows
<1>6. rows'[r].v > clock => rows'[r].v > acknowledged
  BY <1>2, <1>4
<1> QED  BY <1>1, <1>5, <1>6

(* An answer, or an error, to a call that is under way.                    *)
LEMMA AnswerStep ==
  ASSUME IInv, ServerGrows, TokensKept, UNCHANGED <<sent, route, workspaceVars, moduleVars>>,
         NEW c \in calls, NEW d, calls' = (calls \ {c}) \cup {d}, Same(c, d), CallOK(d)',
         d.kind = "load" /\ Confirmed(d.answer) => d.answer.at >= clock \/ d.answer = c.answer,
         Here /\ c \in Ours /\ d.kind = "rotate" /\ Confirmed(d.answer) => Works(d.answer.at)'
  PROVE  IInv'
<1> USE DEF IInv
<1>1. WorkspaceState' /\ ModuleState' /\ NotMounted'
  BY PagesStay
<1>2. /\ activeResource' = activeResource /\ snapshot' = snapshot /\ loadState' = loadState
      /\ editor' = editor /\ mutationBusy' = mutationBusy /\ mutationError' = mutationError
      /\ token' = token /\ tokenBusy' = tokenBusy /\ acknowledged' = acknowledged
      /\ sent' = sent /\ page' = page /\ visit' = visit
  BY DEF workspaceVars, loading, editing, tokenDialog, route
<1>3. /\ data' = data /\ dataState' = dataState /\ saving' = saving /\ saved' = saved
      /\ overlapped' = overlapped
  BY DEF moduleVars
<1>4. \A e \in calls' : CallOK(e)'
  BY <1>2, CallsStay DEF NetworkInv
<1>5. ServerInv' /\ NetworkInv'
  BY <1>2, <1>4 DEF ServerGrows, NetworkInv
<1>6. /\ \A e \in Ours' : (e \in Ours /\ e # c) \/ (e = d /\ c \in Ours)
      /\ \A e \in Ours : e = c \/ e \in Ours'
      /\ c \in Ours => d \in Ours'
  BY <1>2 DEF Ours, Same
<1>7. /\ d.kind = c.kind /\ d.for = c.for /\ d.n = c.n /\ d.record = c.record /\ d.base = c.base
  BY DEF Same
<1>8. LoadAway' = LoadAway
  BY <1>6, <1>7 DEF LoadAway
<1>9. Confirmed(d.answer)' = Confirmed(d.answer)
  BY DEF Confirmed
<1>10. ASSUME Here
       PROVE  \A e \in Ours' : WaitedFor(e)'
  <2>1. \A e \in Ours : WaitedFor(e)'
    BY <1>10, WaitsStay
  <2>2. c \in Ours => WaitedFor(d)'
    BY <1>7, <1>9, <1>10, <2>1 DEF WaitedFor
  <2> QED  BY <1>6, <2>1, <2>2
<1>11. WorkspaceCalls'
  <2> SUFFICES ASSUME Here' PROVE WorkspaceCalls'
    BY DEF WorkspaceCalls
  <2>1. Here
    BY <1>2 DEF Here
  <2>2. \A e, f \in Ours' : e = f
    BY <1>6, <2>1 DEF WorkspaceCalls
  <2>3. \A e \in Ours : \E f \in Ours' : f.for = e.for
    BY <1>6, <1>7
  <2>4. /\ loadState = "loading" => \E e \in Ours' : e.for \in {"mount", "refresh"}
        /\ mutationBusy => \E e \in Ours' : e.for = "mutation"
        /\ tokenBusy => \E e \in Ours' : e.for = "token"
    BY <2>1, <2>3 DEF WorkspaceCalls
  <2> QED  BY <1>2, <1>10, <2>1, <2>2, <2>3, <2>4 DEF WorkspaceCalls
<1>12. WorkspaceFreshness'
  <2> SUFFICES ASSUME Here' PROVE WorkspaceFreshness'
    BY DEF WorkspaceFreshness
  <2>1. Here
    BY <1>2 DEF Here
  <2>2. acknowledged \in Nat /\ acknowledged <= clock /\ clock \in Nat
    BY DEF WorkspaceState, ServerInv
  <2>3. Confirmed(d.answer) => d.answer.at \in Nat
    BY <1>9 DEF CallOK, AnswerOK
  <2>4. ASSUME c \in Ours, d.kind = "load", Confirmed(d.answer)
        PROVE  d.answer.at >= acknowledged
    <3>1. CASE d.answer.at >= clock
      BY <2>2, <2>3, <2>4, <3>1
    <3>2. CASE d.answer = c.answer
      <4>1. c.kind = "load" /\ Confirmed(c.answer)
        BY <1>7, <2>4, <3>2
      <4>2. c.answer.at >= acknowledged
        BY <2>1, <2>4, <4>1 DEF WorkspaceFreshness
      <4> QED  BY <3>2, <4>2
    <3> QED  BY <2>4, <3>1, <3>2
  <2>5. \A e \in Ours' : e.kind = "load" /\ Confirmed(e.answer) => e.answer.at >= acknowledged
    BY <1>6, <2>1, <2>4 DEF WorkspaceFreshness
  <2>6. editor # Null /\ editor.type = "edit" /\ ~LoadAway =>
          rows'[editor.record] = editor.base \/ rows'[editor.record].v > acknowledged
    BY <2>1, EditorsStay
  <2> QED  BY <1>2, <1>8, <2>1, <2>5, <2>6 DEF WorkspaceFreshness, Confirmed
<1>13. ModuleCalls'
  <2> SUFFICES ASSUME Opened' PROVE ModuleCalls'
    BY DEF ModuleCalls
  <2>1. Opened
    BY <1>2 DEF Opened
  <2>2. /\ \A e \in Ours' : e.kind \in {"load", "edit"}
        /\ \A e, f \in Ours' : e.kind = "edit" /\ f.kind = "edit" => e = f
    BY <1>6, <1>7, <2>1 DEF ModuleCalls
  <2>3. (\E e \in Ours' : e.kind = "edit") = (\E e \in Ours : e.kind = "edit")
    BY <1>6, <1>7
  <2> QED  BY <1>3, <1>8, <2>1, <2>2, <2>3 DEF ModuleCalls
<1>14. ModuleFreshness'
  <2> SUFFICES ASSUME Opened', ~overlapped' PROVE ModuleFreshness'
    BY DEF ModuleFreshness
  <2>1. Opened /\ ~overlapped
    BY <1>2, <1>3 DEF Opened
  <2>2. saved \in Nat /\ saved <= clock /\ clock \in Nat
    BY DEF ModuleState, ServerInv
  <2>3. Confirmed(d.answer) => d.answer.at \in Nat
    BY <1>9 DEF CallOK, AnswerOK
  <2>4. ASSUME c \in Ours, d.kind = "load", Confirmed(d.answer)
        PROVE  d.answer.at >= saved
    <3>1. CASE d.answer.at >= clock
      BY <2>2, <2>3, <2>4, <3>1
    <3>2. CASE d.answer = c.answer
      <4>1. c.kind = "load" /\ Confirmed(c.answer)
        BY <1>7, <2>4, <3>2
      <4>2. c.answer.at >= saved
        BY <2>1, <2>4, <4>1 DEF ModuleFreshness
      <4> QED  BY <3>2, <4>2
    <3> QED  BY <2>4, <3>1, <3>2
  <2>5. \A e \in Ours' : e.kind = "load" /\ Confirmed(e.answer) => e.answer.at >= saved
    BY <1>6, <2>1, <2>4 DEF ModuleFreshness
  <2>6. \A e, f \in Ours' : e.kind = "load" /\ f.kind = "load" => e = f
    BY <1>6, <1>7, <2>1 DEF ModuleFreshness
  <2> QED  BY <1>3, <1>8, <2>1, <2>5, <2>6 DEF ModuleFreshness, Confirmed
<1> QED  BY <1>1, <1>5, <1>11, <1>12, <1>13, <1>14

(* A step that answers nothing to this visit.                              *)
LEMMA QuietStep ==
  ASSUME IInv, ServerGrows, TokensKept, UNCHANGED <<sent, route, workspaceVars, moduleVars>>,
         calls' \subseteq calls, Ours' = Ours
  PROVE  IInv'
<1> USE DEF IInv
<1>1. WorkspaceState' /\ ModuleState' /\ NotMounted'
  BY PagesStay
<1>2. /\ activeResource' = activeResource /\ snapshot' = snapshot /\ loadState' = loadState
      /\ editor' = editor /\ mutationBusy' = mutationBusy /\ mutationError' = mutationError
      /\ token' = token /\ tokenBusy' = tokenBusy /\ acknowledged' = acknowledged
      /\ sent' = sent /\ page' = page /\ visit' = visit
  BY DEF workspaceVars, loading, editing, tokenDialog, route
<1>3. /\ data' = data /\ dataState' = dataState /\ saving' = saving /\ saved' = saved
      /\ overlapped' = overlapped
  BY DEF moduleVars
<1>4. \A e \in calls' : CallOK(e)'
  BY <1>2, CallsStay DEF NetworkInv
<1>5. ServerInv' /\ NetworkInv'
  BY <1>2, <1>4 DEF ServerGrows, NetworkInv
<1>6. LoadAway' = LoadAway
  BY DEF LoadAway
<1>7. WorkspaceCalls'
  <2> SUFFICES ASSUME Here' PROVE WorkspaceCalls'
    BY DEF WorkspaceCalls
  <2>1. Here
    BY <1>2 DEF Here
  <2>2. \A e \in Ours : WaitedFor(e)'
    BY <2>1, WaitsStay
  <2> QED  BY <1>2, <2>1, <2>2 DEF WorkspaceCalls
<1>8. WorkspaceFreshness'
  <2> SUFFICES ASSUME Here' PROVE WorkspaceFreshness'
    BY DEF WorkspaceFreshness
  <2>1. Here
    BY <1>2 DEF Here
  <2>2. editor # Null /\ editor.type = "edit" /\ ~LoadAway =>
          rows'[editor.record] = editor.base \/ rows'[editor.record].v > acknowledged
    BY <2>1, EditorsStay
  <2> QED  BY <1>2, <1>6, <2>1, <2>2 DEF WorkspaceFreshness, Confirmed
<1>9. ModuleCalls'
  BY <1>2, <1>3, <1>6 DEF ModuleCalls, Opened
<1>10. ModuleFreshness'
  BY <1>2, <1>3, <1>6 DEF ModuleFreshness, Opened, Confirmed
<1> QED  BY <1>1, <1>5, <1>7, <1>8, <1>9, <1>10

(* A stamp is a row, of a number that was not used before.                 *)
LEMMA StampIsRow ==
  ASSUME ServerInv, NEW is \in {"live", "gone"}, NEW by \in Nat
  PROVE  Row(is, clock + 1, by) \in Rows /\ Row(is, clock + 1, by).v > clock
<1>1. clock + 1 \in Nat /\ clock + 1 > clock
  BY DEF ServerInv
<1> QED  BY <1>1 DEF Row, Rows

(* Nothing was written.                                                    *)
LEMMA ServerIdle ==
  ASSUME ServerInv, UNCHANGED server
  PROVE  ServerGrows /\ TokensKept
BY DEF ServerInv, server, ServerGrows, TokensKept

(* A record was written.                                                   *)
LEMMA RowWritten ==
  ASSUME ServerInv, clock' = clock + 1, UNCHANGED tokens, NEW r \in Records, NEW is \in {"live", "gone"},
         NEW by \in Nat, rows' = [rows EXCEPT ![r] = Row(is, clock + 1, by)]
  PROVE  ServerGrows /\ TokensKept
<1>1. Row(is, clock + 1, by) \in Rows /\ Row(is, clock + 1, by).v > clock
  BY StampIsRow
<1>2. /\ rows' \in Tables /\ rows'[r] = Row(is, clock + 1, by)
      /\ \A s \in Records : s # r => rows'[s] = rows[s]
  BY <1>1 DEF ServerInv, Tables
<1>3. \A s \in Records : rows'[s] = rows[s] \/ rows'[s].v > clock
  BY <1>1, <1>2
<1>4. clock \in Nat /\ clock + 1 \in Nat /\ clock <= clock + 1
  BY DEF ServerInv
<1> QED  BY <1>2, <1>3, <1>4 DEF ServerGrows, ServerInv, TokensKept

(* A token was issued.                                                     *)
LEMMA TokenWritten ==
  ASSUME ServerInv, clock' = clock + 1, UNCHANGED rows, NEW r \in Records, NEW by \in Nat,
         tokens' = [tokens EXCEPT ![r] = Row("live", clock + 1, by)],
         Here => by # visit \/ \E c \in Ours : c.kind = "rotate" /\ c.answer = Null
  PROVE  ServerGrows /\ TokensKept /\ tokens'[r] = Row("live", clock + 1, by)
<1>1. Row("live", clock + 1, by) \in Rows /\ Row("live", clock + 1, by).v > clock
  BY StampIsRow
<1>2. /\ tokens' \in Tables /\ tokens'[r] = Row("live", clock + 1, by)
      /\ \A s \in Records : s # r => tokens'[s] = tokens[s]
  BY <1>1 DEF ServerInv, Tables
<1>3. Row("live", clock + 1, by).by = by
  BY DEF Row
<1>4. TokensKept
  BY <1>1, <1>2, <1>3 DEF TokensKept
<1>5. clock \in Nat /\ clock + 1 \in Nat /\ clock <= clock + 1
  BY DEF ServerInv
<1> QED  BY <1>2, <1>4, <1>5 DEF ServerGrows, ServerInv

LEMMA OtherAdministratorKeeps ==
  ASSUME IInv, OtherAdministrator, UNCHANGED <<workspaceVars, moduleVars>>
  PROVE  IInv'
<1>1. clock' = clock + 1 /\ UNCHANGED <<calls, sent, page, visit>>
  BY DEF OtherAdministrator, network, route
<1>2. ServerInv /\ visit \in Nat
  BY DEF IInv, NetworkInv
<1>3. Ours' = Ours
  BY <1>1 DEF Ours
<1>4. PICK r \in Records :
        \/ \E is \in {"live", "gone"} : /\ rows' = [rows EXCEPT ![r] = Row(is, clock + 1, Other)]
                                        /\ UNCHANGED tokens
        \/ tokens' = [tokens EXCEPT ![r] = Row("live", clock + 1, Other)] /\ UNCHANGED rows
  BY DEF OtherAdministrator
<1>5. CASE \E is \in {"live", "gone"} : /\ rows' = [rows EXCEPT ![r] = Row(is, clock + 1, Other)]
                                        /\ UNCHANGED tokens
  <2>1. ServerGrows /\ TokensKept
    BY <1>1, <1>2, <1>5, RowWritten DEF Other
  <2> QED  BY <1>1, <1>3, <2>1, QuietStep DEF route
<1>6. CASE tokens' = [tokens EXCEPT ![r] = Row("live", clock + 1, Other)] /\ UNCHANGED rows
  <2>1. Here => visit # Other
    BY DEF IInv, NetworkInv, Here
  <2>2. ServerGrows /\ TokensKept
    <3>1. ServerInv /\ clock' = clock + 1 /\ rows' = rows /\ Other \in Nat
          /\ tokens' = [tokens EXCEPT ![r] = Row("live", clock + 1, Other)]
      BY <1>1, <1>2, <1>6 DEF Other
    <3>2. Here => Other # visit
      BY <2>1
    <3> QED  BY <3>1, <3>2, TokenWritten
  <2> QED  BY <1>1, <1>3, <2>2, QuietStep DEF route
<1> QED  BY <1>4, <1>5, <1>6

LEMMA FailKeeps ==
  ASSUME IInv, NEW c \in calls, Fail(c), UNCHANGED <<workspaceVars, moduleVars>>
  PROVE  IInv'
<1> DEFINE d == [c EXCEPT !.answer = Failed]
<1>1. CallOK(c) /\ ServerInv
  BY DEF IInv, NetworkInv
<1>2. Same(c, d) /\ IsCall(d) /\ d.answer = Failed
  BY <1>1, AnswerChangesNothingElse DEF CallOK
<1>3. calls' = (calls \ {c}) \cup {d} /\ UNCHANGED <<server, sent, route>>
  BY DEF Fail, Answered
<1>4. ServerGrows /\ TokensKept
  BY <1>1, <1>3, ServerIdle
<1>5. ~Confirmed(d.answer)
  BY <1>2 DEF Confirmed
<1>6. visit' = visit
  BY <1>3 DEF route
<1>7. CallOK(d)'
  BY <1>1, <1>2, <1>5, <1>6 DEF CallOK, AnswerOK, Same, IsCall, Confirmed
<1> HIDE DEF d
<1> QED  BY <1>2, <1>3, <1>4, <1>5, <1>7, AnswerStep

LEMMA ForgetKeeps ==
  ASSUME IInv, NEW c \in calls, Forget(c), UNCHANGED <<workspaceVars, moduleVars>>
  PROVE  IInv'
<1>1. c.visit # visit /\ calls' = calls \ {c} /\ UNCHANGED <<server, sent, route>>
  BY DEF Forget, Done
<1>2. Ours' = Ours
  BY <1>1 DEF Ours, route
<1>3. ServerGrows /\ TokensKept
  BY <1>1, ServerIdle DEF IInv
<1> QED  BY <1>1, <1>2, <1>3, QuietStep

(* A load is answered with the rows as they are.                           *)
LEMMA LoadServed ==
  ASSUME IInv, NEW c \in calls, Serve(c), c.kind = "load",
         UNCHANGED <<workspaceVars, moduleVars>>
  PROVE  IInv'
<1>0. PICK a : a = [ok |-> TRUE, at |-> clock, rows |-> rows]
  OBVIOUS
<1> DEFINE d == [c EXCEPT !.answer = a]
<1>1. CallOK(c) /\ ServerInv
  BY DEF IInv, NetworkInv
<1>2. Same(c, d) /\ IsCall(d) /\ d.answer = a
  BY <1>1, AnswerChangesNothingElse DEF CallOK
<1>3. calls' = (calls \ {c}) \cup {d} /\ UNCHANGED <<server, sent, route>>
  BY <1>0 DEF Serve, Answered
<1>4. ServerGrows /\ TokensKept
  BY <1>1, <1>3, ServerIdle
<1>5. a.ok = TRUE /\ a.at = clock /\ a.rows = rows
  BY <1>0
<1>6. visit' = visit /\ clock' = clock /\ rows' = rows /\ clock \in Nat
  BY <1>1, <1>3 DEF route, server, ServerInv
<1>7. a.at \in Nat /\ a.at <= clock' /\ \A r \in Records : rows'[r] = a.rows[r]
  BY <1>5, <1>6
<1>8. AnswerOK(d)'
  BY <1>2, <1>5, <1>7 DEF AnswerOK, Behind
<1>9. CallOK(d)'
  BY <1>1, <1>2, <1>6, <1>8 DEF CallOK, Same, IsCall
<1>10. d.answer.at >= clock /\ d.kind # "rotate"
  BY <1>2, <1>5, <1>6 DEF Same
<1> HIDE DEF d
<1> QED  BY <1>2, <1>3, <1>4, <1>9, <1>10, AnswerStep

(* A change of a record or of a password is carried out.                   *)
LEMMA ChangeServed ==
  ASSUME IInv, NEW c \in calls, Serve(c), c.kind \in {"edit", "delete", "create", "password"},
         UNCHANGED <<workspaceVars, moduleVars>>
  PROVE  IInv'
<1>1. CallOK(c) /\ ServerInv /\ c.visit \in Nat
  BY DEF IInv, NetworkInv, CallOK
<1>2. \E at \in {clock, clock + 1} :
        Answered(c, [ok |-> TRUE, at |-> at]) /\ ServerGrows /\ TokensKept /\ at <= clock'
  <2>1. CASE c.kind = "password"
    <3>1. Answered(c, [ok |-> TRUE, at |-> clock]) /\ UNCHANGED server
      BY <2>1 DEF Serve
    <3>2. ServerGrows /\ TokensKept
      BY <1>1, <3>1, ServerIdle
    <3> QED  BY <3>1, <3>2 DEF ServerGrows
  <2>2. CASE c.kind \in {"edit", "delete", "create"}
    <3>1. PICK r \in Records :
            /\ Write(c)
            /\ rows' = [rows EXCEPT ![r] = Stamp(IF c.kind = "delete" THEN "gone" ELSE "live", c)]
            /\ Answered(c, [ok |-> TRUE, at |-> clock + 1]) /\ UNCHANGED tokens
      BY <2>2 DEF Serve
    <3>2. clock' = clock + 1
      BY <3>1 DEF Write
    <3>3. PICK is \in {"live", "gone"} : rows' = [rows EXCEPT ![r] = Row(is, clock + 1, c.visit)]
      BY <3>1 DEF Stamp
    <3>4. ServerGrows /\ TokensKept
      BY <1>1, <3>1, <3>2, <3>3, RowWritten
    <3>5. clock + 1 <= clock'
      BY <1>1, <3>2 DEF ServerInv
    <3> QED  BY <3>1, <3>4, <3>5
  <2> QED  BY <2>1, <2>2
<1>3. PICK at \in {clock, clock + 1} :
        Answered(c, [ok |-> TRUE, at |-> at]) /\ ServerGrows /\ TokensKept /\ at <= clock'
  BY <1>2
<1> DEFINE a == [ok |-> TRUE, at |-> at]
           d == [c EXCEPT !.answer = a]
<1>4. a.ok = TRUE /\ a.at = at /\ at \in Nat
  BY <1>1 DEF ServerInv
<1> HIDE DEF a
<1>5. Same(c, d) /\ IsCall(d) /\ d.answer = a
  BY <1>1, AnswerChangesNothingElse DEF CallOK
<1>6. calls' = (calls \ {c}) \cup {d}
  BY <1>3 DEF Answered, a
<1>7. UNCHANGED <<sent, route>> /\ visit' = visit
  BY DEF Serve, route
<1>8. AnswerOK(d)'
  BY <1>3, <1>4, <1>5 DEF AnswerOK, Same, Confirmed
<1>9. CallOK(d)'
  BY <1>1, <1>5, <1>7, <1>8 DEF CallOK, Same, IsCall
<1>10. d.kind # "load" /\ d.kind # "rotate"
  BY <1>5 DEF Same
<1> HIDE DEF d
<1> QED  BY <1>3, <1>5, <1>6, <1>7, <1>9, <1>10, AnswerStep

(* A token is issued to the call that asked for it.                        *)
LEMMA TokenServed ==
  ASSUME IInv, NEW c \in calls, Serve(c), c.kind = "rotate",
         UNCHANGED <<workspaceVars, moduleVars>>
  PROVE  IInv'
<1>0. PICK a : a = [ok |-> TRUE, at |-> clock + 1]
  OBVIOUS
<1> DEFINE d == [c EXCEPT !.answer = a]
<1>1. CallOK(c) /\ ServerInv /\ c.visit \in Nat /\ c.record \in Records
  BY DEF IInv, NetworkInv, CallOK
<1>2. /\ c.answer = Null /\ clock' = clock + 1 /\ UNCHANGED <<rows, sent, route>>
      /\ tokens' = [tokens EXCEPT ![c.record] = Row("live", clock + 1, c.visit)]
      /\ calls' = (calls \ {c}) \cup {d}
  BY <1>0 DEF Serve, Write, Stamp, Answered
<1>3. Same(c, d) /\ IsCall(d) /\ d.answer = a
  BY <1>1, AnswerChangesNothingElse DEF CallOK
<1>4. c.visit = visit => c \in Ours
  BY DEF Ours
<1>5. /\ ServerGrows /\ TokensKept
      /\ tokens'[c.record] = Row("live", clock + 1, c.visit)
  BY <1>1, <1>2, <1>4, TokenWritten
<1>6. a.ok = TRUE /\ a.at = clock + 1 /\ clock + 1 \in Nat /\ clock + 1 <= clock'
  BY <1>0, <1>1, <1>2 DEF ServerInv
<1>7. visit' = visit
  BY <1>2 DEF route
<1>8. AnswerOK(d)'
  BY <1>3, <1>6 DEF AnswerOK, Same, Confirmed
<1>9. CallOK(d)'
  BY <1>1, <1>3, <1>7, <1>8 DEF CallOK, Same, IsCall
<1>10. ASSUME Here, c \in Ours
       PROVE  Works(d.answer.at)'
  <2>1. WaitedFor(c) /\ (mutationBusy => editor.type # "rotate")
    BY <1>10 DEF IInv, WorkspaceCalls, WorkspaceState
  <2>2. c.record = token.gateway
    BY <2>1 DEF WaitedFor
  <2>3. token' = token /\ c.visit = visit
    BY <1>10 DEF workspaceVars, tokenDialog, Ours
  <2>4. tokens'[token'.gateway] = Row("live", d.answer.at, visit')
    BY <1>3, <1>5, <1>6, <1>7, <2>2, <2>3
  <2> QED  BY <2>4 DEF Works
<1>11. d.kind # "load"
  BY <1>3 DEF Same
<1> HIDE DEF d
<1> QED  BY <1>2, <1>3, <1>5, <1>9, <1>10, <1>11, AnswerStep

LEMMA OutsideKeeps == IInv /\ Outside => IInv'
<1> SUFFICES ASSUME IInv, Outside PROVE IInv'
  OBVIOUS
<1>1. UNCHANGED <<workspaceVars, moduleVars>>
  BY DEF Outside
<1>2. CASE OtherAdministrator
  BY <1>1, <1>2, OtherAdministratorKeeps
<1>3. ASSUME NEW c \in calls, Serve(c)
      PROVE  IInv'
  <2>1. c.kind \in Kinds
    BY DEF IInv, NetworkInv, CallOK
  <2> QED  BY <1>1, <1>3, <2>1, LoadServed, ChangeServed, TokenServed DEF Kinds
<1>4. ASSUME NEW c \in calls, Fail(c)
      PROVE  IInv'
  BY <1>1, <1>4, FailKeeps
<1>5. ASSUME NEW c \in calls, Forget(c)
      PROVE  IInv'
  BY <1>1, <1>5, ForgetKeeps
<1> QED  BY <1>2, <1>3, <1>4, <1>5 DEF Outside

-----------------------------------------------------------------------------
(* The pages.                                                              *)

LEMMA InitKeeps == Init => IInv
<1> SUFFICES ASSUME Init PROVE IInv
  OBVIOUS
<1> USE DEF Init, ManagementInit, WorkspaceInit, ModuleInit
<1>1. \A r \in Records : /\ Row("unused", 0, Other) \in Rows
                         /\ Row("live", 0, Other) \in Rows
  BY DEF Row, Rows, Other
<1>2. ServerInv
  BY <1>1 DEF ServerInv, Tables
<1>3. NetworkInv
  BY DEF NetworkInv
<1>4. 0 \in Nat /\ 0 <= clock
  OBVIOUS
<1>6. WorkspaceState
  BY <1>4, FirstAssumption DEF WorkspaceState, Modal
<1>7. ModuleState
  BY <1>4, FirstAssumption DEF ModuleState
<1>5. page = "elsewhere"
  OBVIOUS
<1> QED  BY <1>2, <1>3, <1>5, <1>6, <1>7
         DEF IInv, WorkspaceCalls, WorkspaceFreshness, ModuleCalls, ModuleFreshness, NotMounted,
             Here, Opened

(* The calls of an earlier visit are not the calls of the new one.         *)
LEMMA GoKeeps ==
  ASSUME IInv, NEW p \in {"workspace", "module", "elsewhere"}, Go(p)
  PROVE  IInv'
<1> DEFINE new == [Load("mount") EXCEPT !.visit = visit + 1]
<1>1. /\ ServerInv /\ sent \in Nat /\ visit \in Nat /\ \A c \in calls : CallOK(c)
      /\ visit' = visit + 1 /\ page' = p /\ UNCHANGED server
      /\ WorkspaceAnew(FirstResource) /\ ModuleAnew(FirstSection)
  BY DEF IInv, NetworkInv, Go, Mount
<1>2. /\ rows' = rows /\ tokens' = tokens /\ clock' = clock
  BY <1>1 DEF server
<1>3. \/ p = "elsewhere" /\ calls' \subseteq calls /\ sent' = sent
      \/ /\ p # "elsewhere" /\ new \in calls' /\ calls' \subseteq calls \cup {new}
         /\ sent' = sent + 1
  BY DEF Go, Mount
<1>4. PICK m : m = new
  OBVIOUS
<1>5. /\ IsCall(m) /\ m.visit = visit + 1 /\ m.kind = "load" /\ m.for = "mount" /\ m.answer = Null
  BY <1>4 DEF Load, Call, IsCall
<1>6. \/ p = "elsewhere" /\ calls' \subseteq calls /\ sent' = sent
      \/ p # "elsewhere" /\ m \in calls' /\ calls' \subseteq calls \cup {m} /\ sent' = sent + 1
  BY <1>3, <1>4
<1> HIDE DEF new
<1>7. ServerGrows
  BY <1>1, ServerIdle
<1>8. \A c \in calls : CallOK(c)'
  BY <1>1, <1>7, CallsStay
<1>9. CallOK(m)'
  BY <1>1, <1>5 DEF CallOK, AnswerOK, IsCall, Confirmed, Kinds
<1>10. visit' # Other /\ visit' \in Nat /\ sent' \in Nat
  BY <1>1, <1>6 DEF Other
<1>11. NetworkInv'
  BY <1>1, <1>6, <1>8, <1>9, <1>10 DEF NetworkInv
<1>12. \A c \in calls : c.visit # visit'
  BY <1>1 DEF CallOK
<1>13. p # "elsewhere" => Ours' = {m}
  BY <1>1, <1>5, <1>6, <1>12 DEF Ours
<1>14. ServerInv'
  BY <1>7 DEF ServerGrows
<1>15. WorkspaceState'
  <2>1. /\ activeResource' = FirstResource /\ snapshot' = Null /\ loadState' = "loading"
        /\ editor' = Null /\ mutationBusy' = FALSE /\ mutationError' = Null
        /\ token' = Null /\ tokenBusy' = FALSE /\ acknowledged' = 0
    BY <1>1 DEF WorkspaceAnew
  <2>2. 0 \in Nat /\ 0 <= clock'
    BY <1>14 DEF ServerInv
  <2> QED  BY <2>1, <2>2, FirstAssumption DEF WorkspaceState, Modal
<1>16. ModuleState'
  <2>1. /\ section' = FirstSection /\ data' = Null /\ dataState' = "loading" /\ selected' = Null
        /\ edited' = Null /\ draft' = Null /\ saving' = FALSE /\ saved' = 0 /\ overlapped' = FALSE
    BY <1>1 DEF ModuleAnew
  <2>2. 0 \in Nat /\ 0 <= clock'
    BY <1>14 DEF ServerInv
  <2> QED  BY <2>1, <2>2, FirstAssumption DEF ModuleState
<1>17. NotMounted'
  BY <1>1 DEF WorkspaceAnew, ModuleAnew, NotMounted
<1>18. /\ loadState' = "loading" /\ mutationBusy' = FALSE /\ tokenBusy' = FALSE
       /\ editor' = Null /\ dataState' = "loading" /\ saving' = FALSE
  BY <1>1 DEF WorkspaceAnew, ModuleAnew
<1>19. WorkspaceCalls'
  BY <1>1, <1>5, <1>13, <1>18 DEF WorkspaceCalls, WaitedFor, Here
<1>20. WorkspaceFreshness'
  BY <1>1, <1>5, <1>13, <1>18 DEF WorkspaceFreshness, Here, Confirmed
<1>21. ModuleCalls'
  BY <1>1, <1>5, <1>13, <1>18 DEF ModuleCalls, Opened, LoadAway
<1>22. ModuleFreshness'
  BY <1>1, <1>5, <1>13, <1>18 DEF ModuleFreshness, Opened, LoadAway, Confirmed
<1> QED  BY <1>11, <1>14, <1>15, <1>16, <1>17, <1>19, <1>20, <1>21, <1>22 DEF IInv

(* A step of a page leaves the server alone and sends one call at most.    *)
LEMMA NetworkStays ==
  ASSUME IInv, UNCHANGED <<server, route>>, sent' \in {sent, sent + 1}, NEW new,
         calls' \subseteq calls \cup {new},
         /\ IsCall(new) /\ new.kind \in Kinds /\ new.visit = visit /\ new.answer = Null
         /\ new.kind = "rotate" => new.record \in Records
  PROVE  ServerInv' /\ NetworkInv'
<1>1. /\ ServerInv /\ sent \in Nat /\ visit \in Nat /\ visit' = visit /\ page' = page
      /\ \A c \in calls : CallOK(c)
  BY DEF IInv, NetworkInv, route
<1>2. ServerGrows
  BY <1>1, ServerIdle
<1>3. \A c \in calls : CallOK(c)'
  BY <1>1, <1>2, CallsStay
<1>4. CallOK(new)'
  BY <1>1 DEF CallOK, AnswerOK, IsCall, Confirmed
<1>5. sent' \in Nat
  BY <1>1
<1>6. page' \in {"workspace", "module", "elsewhere"} /\ (page' # "elsewhere" => visit' # Other)
  BY <1>1 DEF IInv, NetworkInv
<1> QED  BY <1>1, <1>2, <1>3, <1>4, <1>5, <1>6 DEF NetworkInv, ServerGrows

LEMMA NetworkQuiet ==
  ASSUME IInv, UNCHANGED <<server, route>>, UNCHANGED sent, calls' \subseteq calls
  PROVE  ServerInv' /\ NetworkInv'
<1>1. /\ ServerInv /\ visit \in Nat /\ visit' = visit /\ page' = page
      /\ \A c \in calls : CallOK(c)
  BY DEF IInv, NetworkInv, route
<1>2. ServerGrows
  BY <1>1, ServerIdle
<1>3. \A c \in calls : CallOK(c)'
  BY <1>1, <1>2, CallsStay
<1>4. page' \in {"workspace", "module", "elsewhere"} /\ (page' # "elsewhere" => visit' # Other)
  BY <1>1 DEF IInv, NetworkInv
<1> QED  BY <1>1, <1>2, <1>3, <1>4 DEF IInv, NetworkInv, ServerGrows

(* The workspace does not touch the module page.                           *)
LEMMA ModuleStays ==
  ASSUME IInv, Here, UNCHANGED <<server, route, moduleVars>>
  PROVE  ModuleState' /\ ModuleCalls' /\ ModuleFreshness' /\ NotMounted'
<1>1. /\ page' = page /\ clock' = clock
      /\ section' = section /\ data' = data /\ dataState' = dataState /\ selected' = selected
      /\ edited' = edited /\ draft' = draft /\ saving' = saving /\ saved' = saved
      /\ overlapped' = overlapped
  BY DEF route, server, moduleVars
<1>2. ~Opened'
  BY <1>1 DEF Here, Opened
<1>3. ModuleState'
  BY <1>1 DEF IInv, ModuleState, DialogShown, SelectedRow, RowOf
<1>4. NotMounted'
  BY <1>1 DEF IInv, NotMounted, Here, Opened
<1> QED  BY <1>2, <1>3, <1>4 DEF ModuleCalls, ModuleFreshness

(* The module page does not touch the workspace.                           *)
LEMMA WorkspaceStays ==
  ASSUME IInv, Opened, UNCHANGED <<server, route, workspaceVars>>
  PROVE  WorkspaceState' /\ WorkspaceCalls' /\ WorkspaceFreshness' /\ NotMounted'
<1>1. /\ activeResource' = activeResource /\ snapshot' = snapshot /\ loadState' = loadState
      /\ editor' = editor /\ mutationBusy' = mutationBusy /\ mutationError' = mutationError
      /\ token' = token /\ tokenBusy' = tokenBusy /\ acknowledged' = acknowledged
      /\ page' = page /\ clock' = clock
  BY DEF workspaceVars, loading, editing, tokenDialog, route, server
<1>2. ~Here' /\ ~Here
  BY <1>1 DEF Here, Opened
<1>3. snapshot = Null /\ editor = Null /\ token = Null
  BY <1>2 DEF IInv, NotMounted
<1>4. WorkspaceState'
  BY <1>1, <1>3 DEF IInv, WorkspaceState, Modal
<1>5. NotMounted'
  BY <1>1, <1>2 DEF IInv, NotMounted, Here, Opened
<1> QED  BY <1>2, <1>4, <1>5 DEF WorkspaceCalls, WorkspaceFreshness

-----------------------------------------------------------------------------
(* The workspace.                                                          *)

(* Nothing is under way for a workspace that waits for nothing.            *)
LEMMA NothingAway ==
  ASSUME IInv, Here, loadState # "loading", ~mutationBusy, ~tokenBusy
  PROVE  Ours = {}
BY DEF IInv, WorkspaceCalls, WaitedFor

(* One dialog is open at a time, and what is busy is open.                 *)
LEMMA NothingBusy ==
  ASSUME IInv
  PROVE  /\ mutationBusy \in BOOLEAN /\ tokenBusy \in BOOLEAN
         /\ editor = Null => ~mutationBusy
         /\ token = Null => ~tokenBusy
         /\ editor # Null => token = Null /\ ~tokenBusy
         /\ token # Null => editor = Null /\ ~mutationBusy
         /\ Modal => loadState # "loading"
BY DEF IInv, WorkspaceState

(* The one call that was under way is over, or another one follows it.     *)
LEMMA OneCallAway ==
  ASSUME UNCHANGED visit, NEW new, new.visit = visit,
         \/ Ours = {} /\ calls' = calls \cup {new}
         \/ \E c : Ours = {c} /\ calls' = (calls \ {c}) \cup {new}
  PROVE  Ours' = {new}
BY DEF Ours

LEMMA OursIsOne ==
  ASSUME IInv, Here, NEW c \in calls, c.visit = visit
  PROVE  Ours = {c} /\ WaitedFor(c) /\ CallOK(c)
BY DEF IInv, WorkspaceCalls, NetworkInv, Ours

LEMMA RefreshKeeps ==
  ASSUME IInv, Refresh, UNCHANGED moduleVars
  PROVE  IInv'
<1> USE DEF IInv
<1>1. /\ Here /\ ~Modal /\ loadState # "loading" /\ loadState' = "loading"
      /\ UNCHANGED <<server, route>> /\ sent' = sent + 1 /\ calls' = calls \cup {Load("refresh")}
  BY DEF Refresh, Send
<1>2. /\ activeResource' = activeResource /\ snapshot' = snapshot
      /\ editor' = editor /\ mutationBusy' = mutationBusy /\ mutationError' = mutationError
      /\ token' = token /\ tokenBusy' = tokenBusy /\ acknowledged' = acknowledged
      /\ page' = page /\ visit' = visit /\ clock' = clock /\ rows' = rows /\ tokens' = tokens
  BY DEF Refresh, editing, tokenDialog, route, server
<1>3. editor = Null /\ token = Null /\ ~mutationBusy /\ ~tokenBusy
  BY <1>1, NothingBusy DEF Modal
<1>4. Ours = {}
  BY <1>1, <1>3, NothingAway
<1>5. PICK new : /\ new = Load("refresh") /\ IsCall(new) /\ new.visit = visit /\ new.kind = "load"
                 /\ new.for = "refresh" /\ new.answer = Null
  BY NewCall DEF Load
<1>6. Ours' = {new}
  BY <1>1, <1>2, <1>4, <1>5, OneCallAway
<1>7. ServerInv' /\ NetworkInv'
  BY <1>1, <1>5, NetworkStays DEF Kinds
<1>8. ModuleState' /\ ModuleCalls' /\ ModuleFreshness' /\ NotMounted'
  BY <1>1, ModuleStays
<1>9. WorkspaceState'
  BY <1>1, <1>2, <1>3 DEF WorkspaceState, Modal, Behind
<1>10. WorkspaceCalls'
  BY <1>1, <1>2, <1>3, <1>5, <1>6 DEF WorkspaceCalls, WaitedFor
<1>11. WorkspaceFreshness'
  BY <1>1, <1>2, <1>3, <1>5, <1>6 DEF WorkspaceFreshness, Confirmed
<1> QED  BY <1>7, <1>8, <1>9, <1>10, <1>11

LEMMA SelectResourceKeeps ==
  ASSUME IInv, NEW resource \in Resources, SelectResource(resource), UNCHANGED moduleVars
  PROVE  IInv'
<1> USE DEF IInv
<1>1. /\ Here /\ ~Modal /\ activeResource' = resource /\ editor' = Null /\ mutationError' = Null
      /\ UNCHANGED <<server, route>> /\ UNCHANGED sent /\ calls' = calls
  BY DEF SelectResource, network
<1>2. /\ snapshot' = snapshot /\ loadState' = loadState /\ mutationBusy' = mutationBusy
      /\ token' = token /\ tokenBusy' = tokenBusy /\ acknowledged' = acknowledged
      /\ page' = page /\ visit' = visit /\ clock' = clock /\ rows' = rows /\ tokens' = tokens
  BY DEF SelectResource, loading, tokenDialog, route, server
<1>3. editor = Null /\ token = Null /\ ~mutationBusy /\ ~tokenBusy
  BY <1>1, NothingBusy DEF Modal
<1>4. Ours' = Ours
  BY <1>1, <1>2 DEF Ours
<1>5. ServerInv' /\ NetworkInv'
  BY <1>1, NetworkQuiet
<1>6. ModuleState' /\ ModuleCalls' /\ ModuleFreshness' /\ NotMounted'
  BY <1>1, ModuleStays
<1>7. WorkspaceState'
  BY <1>1, <1>2, <1>3 DEF WorkspaceState, Modal, Behind, Resources
<1>8. WorkspaceCalls'
  BY <1>1, <1>2, <1>3, <1>4 DEF WorkspaceCalls, WaitedFor
<1>9. WorkspaceFreshness'
  BY <1>1, <1>2, <1>3, <1>4 DEF WorkspaceFreshness, Confirmed, LoadAway
<1> QED  BY <1>5, <1>6, <1>7, <1>8, <1>9

(* An editor is opened on a row that is current, or that somebody changed  *)
(* since, because nothing is under way.                                    *)
LEMMA OpenKeeps ==
  ASSUME IInv, Open, UNCHANGED moduleVars
  PROVE  IInv'
<1> USE DEF IInv
<1>1. PICK type, record, base :
        /\ type \in {"create", "edit", "delete", "password"}
        /\ OpenEditor(type, record, base)
        /\ type # "create" =>
             /\ record \in Records /\ base = snapshot.rows[record] /\ snapshot # Null
             /\ ResourceOf(record) = activeResource
        /\ type = "password" => activeResource = "users"
  BY DEF Open, Listed
<1>2. /\ Here /\ ~Modal /\ loadState = "ready" /\ mutationError' = Null
      /\ editor' = [type |-> type, record |-> record, base |-> base, n |-> sent]
      /\ UNCHANGED <<server, route>> /\ UNCHANGED sent /\ calls' = calls
  BY <1>1 DEF OpenEditor, network
<1>3. /\ activeResource' = activeResource /\ snapshot' = snapshot /\ loadState' = loadState
      /\ mutationBusy' = mutationBusy /\ token' = token /\ tokenBusy' = tokenBusy
      /\ acknowledged' = acknowledged /\ sent' = sent
      /\ page' = page /\ visit' = visit /\ clock' = clock /\ rows' = rows /\ tokens' = tokens
  BY <1>1 DEF OpenEditor, network, loading, tokenDialog, route, server
<1>4. editor = Null /\ token = Null /\ ~mutationBusy /\ ~tokenBusy
  BY <1>2, NothingBusy DEF Modal
<1>5. Ours = {} /\ Ours' = {}
  BY <1>2, <1>3, <1>4, NothingAway DEF Ours
<1>6. ServerInv' /\ NetworkInv'
  BY <1>2, NetworkQuiet
<1>7. ModuleState' /\ ModuleCalls' /\ ModuleFreshness' /\ NotMounted'
  BY <1>2, ModuleStays
<1>8. editor'.type = type /\ editor'.record = record /\ editor'.base = base /\ editor'.n = sent
  BY <1>2
<1>9. sent \in Nat
  BY DEF NetworkInv
<1>10. WorkspaceState'
  BY <1>1, <1>2, <1>3, <1>4, <1>8, <1>9 DEF WorkspaceState, Modal, Behind
<1>11. WorkspaceCalls'
  BY <1>2, <1>3, <1>4, <1>5 DEF WorkspaceCalls
<1>12. snapshot.at >= acknowledged
  BY <1>2, <1>5 DEF WorkspaceFreshness, LoadAway
<1>13. ASSUME type = "edit"
       PROVE  rows[record] = base \/ rows[record].v > acknowledged
  <2>1. record \in Records /\ base = snapshot.rows[record] /\ Behind(snapshot)
    BY <1>1, <1>13 DEF WorkspaceState
  <2>2. rows[record] = base \/ rows[record].v > snapshot.at
    BY <2>1 DEF Behind
  <2>3. rows[record] \in Rows /\ snapshot.at \in Nat /\ acknowledged \in Nat
    BY <2>1 DEF Behind, ServerInv, Tables, WorkspaceState
  <2>4. rows[record].v \in Nat
    BY <2>3 DEF Rows
  <2> QED  BY <1>12, <2>2, <2>3, <2>4
<1>14. WorkspaceFreshness'
  BY <1>2, <1>3, <1>5, <1>8, <1>12, <1>13 DEF WorkspaceFreshness
<1> QED  BY <1>6, <1>7, <1>10, <1>11, <1>14

LEMMA CloseEditorKeeps ==
  ASSUME IInv, CloseEditor, UNCHANGED moduleVars
  PROVE  IInv'
<1> USE DEF IInv
<1>1. /\ Here /\ editor # Null /\ ~mutationBusy /\ editor' = Null
      /\ UNCHANGED <<server, route>> /\ UNCHANGED sent /\ calls' = calls
  BY DEF CloseEditor, network
<1>2. /\ activeResource' = activeResource /\ snapshot' = snapshot /\ loadState' = loadState
      /\ mutationBusy' = mutationBusy /\ token' = token /\ tokenBusy' = tokenBusy
      /\ acknowledged' = acknowledged
      /\ page' = page /\ visit' = visit /\ clock' = clock /\ rows' = rows /\ tokens' = tokens
  BY DEF CloseEditor, loading, tokenDialog, route, server
<1>3. token = Null /\ ~tokenBusy /\ loadState # "loading"
  BY <1>1, NothingBusy DEF Modal
<1>4. Ours = {} /\ Ours' = {}
  BY <1>1, <1>2, <1>3, NothingAway DEF Ours
<1>5. ServerInv' /\ NetworkInv'
  BY <1>1, NetworkQuiet
<1>6. ModuleState' /\ ModuleCalls' /\ ModuleFreshness' /\ NotMounted'
  BY <1>1, ModuleStays
<1>7. WorkspaceState'
  BY <1>1, <1>2, <1>3 DEF WorkspaceState, Modal, Behind
<1>8. WorkspaceCalls'
  BY <1>1, <1>2, <1>3, <1>4 DEF WorkspaceCalls
<1>9. WorkspaceFreshness'
  BY <1>1, <1>2, <1>4 DEF WorkspaceFreshness, LoadAway
<1> QED  BY <1>5, <1>6, <1>7, <1>8, <1>9

LEMMA SubmitKeeps ==
  ASSUME IInv, Submit, UNCHANGED moduleVars
  PROVE  IInv'
<1> USE DEF IInv
<1> DEFINE call == Call(editor.type, "mutation", editor.record, editor.base)
<1>1. /\ Here /\ editor # Null /\ ~mutationBusy /\ mutationBusy' = TRUE /\ mutationError' = Null
      /\ UNCHANGED <<server, route>> /\ sent' = sent + 1 /\ calls' = calls \cup {call}
  BY DEF Submit, Send
<1>2. /\ activeResource' = activeResource /\ snapshot' = snapshot /\ loadState' = loadState
      /\ editor' = editor /\ token' = token /\ tokenBusy' = tokenBusy
      /\ acknowledged' = acknowledged
      /\ page' = page /\ visit' = visit /\ clock' = clock /\ rows' = rows /\ tokens' = tokens
  BY DEF Submit, loading, tokenDialog, route, server
<1>3. token = Null /\ ~tokenBusy /\ loadState # "loading"
  BY <1>1, NothingBusy DEF Modal
<1>4. Ours = {}
  BY <1>1, <1>3, NothingAway
<1>5. PICK new : /\ new = call /\ IsCall(new) /\ new.visit = visit /\ new.kind = editor.type
                 /\ new.for = "mutation" /\ new.record = editor.record /\ new.base = editor.base
                 /\ new.n = sent + 1 /\ new.answer = Null
  BY NewCall
<1>6. Ours' = {new}
  BY <1>1, <1>2, <1>4, <1>5, OneCallAway
<1>7. /\ new.kind \in {"create", "edit", "delete", "password"}
      /\ editor.n \in Nat /\ editor.n <= sent /\ sent \in Nat
  BY <1>1, <1>5 DEF WorkspaceState, NetworkInv
<1>8. editor.n < new.n /\ new.kind \in Kinds /\ new.kind # "rotate"
  BY <1>5, <1>7 DEF Kinds
<1>9. sent' \in {sent, sent + 1} /\ calls' \subseteq calls \cup {new}
  BY <1>1, <1>5
<1> HIDE DEF call
<1>10. ServerInv' /\ NetworkInv'
  BY <1>1, <1>5, <1>8, <1>9, NetworkStays
<1>11. ModuleState' /\ ModuleCalls' /\ ModuleFreshness' /\ NotMounted'
  BY <1>1, ModuleStays
<1>12. editor.n <= sent'
  BY <1>1, <1>7
<1>13. WorkspaceState'
  BY <1>1, <1>2, <1>3, <1>12 DEF WorkspaceState, Modal, Behind
<1>14. WorkspaceCalls'
  <2>1. WaitedFor(new)'
    BY <1>1, <1>2, <1>5, <1>8 DEF WaitedFor
  <2> QED  BY <1>1, <1>2, <1>3, <1>5, <1>6, <2>1 DEF WorkspaceCalls
<1>15. WorkspaceFreshness'
  <2>1. ~LoadAway
    BY <1>4 DEF LoadAway
  <2> QED  BY <1>1, <1>2, <1>5, <1>6, <1>7, <2>1 DEF WorkspaceFreshness, LoadAway
<1> QED  BY <1>10, <1>11, <1>13, <1>14, <1>15

(* The load of a workspace arrives: nothing else is under way, and the     *)
(* snapshot is as new as what was confirmed.                               *)
LEMMA LoadArrivesKeeps ==
  ASSUME IInv, NEW c \in calls, LoadArrives(c), UNCHANGED moduleVars
  PROVE  IInv'
<1> USE DEF IInv
<1>1. /\ Here /\ c.visit = visit /\ c.answer # Null /\ c.kind = "load"
      /\ Loaded(c.answer) /\ calls' = calls \ {c} /\ UNCHANGED sent
      /\ IF c.for = "mutation" THEN editor' = Null /\ mutationBusy' = FALSE /\ UNCHANGED mutationError
         ELSE UNCHANGED editing
      /\ tokenBusy' = IF c.for = "token" THEN FALSE ELSE tokenBusy
      /\ UNCHANGED <<server, route>>
  BY DEF LoadArrives, Mine, Done
<1>2. /\ activeResource' = activeResource /\ mutationError' = mutationError
      /\ token' = token /\ acknowledged' = acknowledged /\ sent' = sent
      /\ page' = page /\ visit' = visit /\ clock' = clock /\ rows' = rows /\ tokens' = tokens
  BY <1>1 DEF LoadArrives, editing, route, server
<1>3. Ours = {c} /\ WaitedFor(c) /\ CallOK(c)
  BY <1>1, OursIsOne
<1>4. Ours' = {}
  BY <1>1, <1>2, <1>3 DEF Ours
<1>5. ~mutationBusy' /\ ~tokenBusy' /\ mutationBusy' \in BOOLEAN /\ tokenBusy' \in BOOLEAN
  BY <1>1, <1>3, NothingBusy DEF WaitedFor, WorkspaceCalls, editing
<1>6. editor' = Null
  BY <1>1, <1>3, NothingBusy DEF WaitedFor, Modal, editing
<1>7. \/ /\ Confirmed(c.answer) /\ snapshot' = [at |-> c.answer.at, rows |-> c.answer.rows]
         /\ loadState' = "ready"
      \/ loadState' = "error" /\ snapshot' = snapshot
  BY <1>1 DEF Loaded, Confirmed, Failed
<1>8. ASSUME Confirmed(c.answer), snapshot' = [at |-> c.answer.at, rows |-> c.answer.rows]
      PROVE  Behind(snapshot)' /\ snapshot'.at >= acknowledged
  <2>1. snapshot'.at = c.answer.at /\ snapshot'.rows = c.answer.rows
    BY <1>8
  <2>2. Behind(c.answer) /\ c.answer.at >= acknowledged
    BY <1>1, <1>3, <1>8 DEF CallOK, AnswerOK, WorkspaceFreshness
  <2> QED  BY <1>2, <2>1, <2>2 DEF Behind
<1>9. ServerInv' /\ NetworkInv'
  BY <1>1, NetworkQuiet
<1>10. ModuleState' /\ ModuleCalls' /\ ModuleFreshness' /\ NotMounted'
  BY <1>1, ModuleStays
<1>11. WorkspaceState'
  <2>1. snapshot' # Null => Behind(snapshot)'
    BY <1>2, <1>7, <1>8 DEF WorkspaceState, Behind
  <2>2. loadState' \in {"ready", "error"}
    BY <1>7
  <2> QED  BY <1>2, <1>5, <1>6, <2>1, <2>2 DEF WorkspaceState, Modal, Works
<1>12. WorkspaceCalls'
  BY <1>4, <1>5, <1>7 DEF WorkspaceCalls
<1>13. WorkspaceFreshness'
  BY <1>2, <1>4, <1>6, <1>7, <1>8 DEF WorkspaceFreshness
<1> QED  BY <1>9, <1>10, <1>11, <1>12, <1>13

(* A mutation ends, or is followed by the load that shows it.              *)
LEMMA MutationArrivesKeeps ==
  ASSUME IInv, NEW c \in calls, MutationArrives(c), UNCHANGED moduleVars
  PROVE  IInv'
<1> USE DEF IInv
<1>1. /\ Here /\ c.visit = visit /\ c.answer # Null /\ c.for = "mutation" /\ c.kind # "load"
      /\ UNCHANGED <<server, route>>
  BY DEF MutationArrives, Mine
<1>2. /\ activeResource' = activeResource /\ snapshot' = snapshot /\ loadState' = loadState
      /\ token' = token /\ tokenBusy' = tokenBusy
      /\ page' = page /\ visit' = visit /\ clock' = clock /\ rows' = rows /\ tokens' = tokens
  BY DEF MutationArrives, loading, tokenDialog, route, server
<1>3. Ours = {c} /\ WaitedFor(c) /\ CallOK(c)
  BY <1>1, OursIsOne
<1>4. /\ mutationBusy /\ editor # Null /\ token = Null /\ ~tokenBusy /\ loadState # "loading"
      /\ loadState \in {"ready", "error"}
  BY <1>1, <1>3, NothingBusy DEF WaitedFor, Modal, WorkspaceState
<1>5. ModuleState' /\ ModuleCalls' /\ ModuleFreshness' /\ NotMounted'
  BY <1>1, ModuleStays
<1>6. ~LoadAway
  BY <1>1, <1>3 DEF LoadAway
<1>7. CASE ~c.answer.ok
  <2>1. /\ mutationBusy' = FALSE /\ mutationError' = editor /\ calls' = calls \ {c}
        /\ sent' = sent /\ editor' = editor /\ acknowledged' = acknowledged
    BY <1>7 DEF MutationArrives, Done
  <2>2. Ours' = {}
    BY <1>2, <1>3, <2>1 DEF Ours
  <2>3. ServerInv' /\ NetworkInv'
    BY <1>1, <2>1, NetworkQuiet
  <2>4. WorkspaceState'
    BY <1>2, <1>4, <2>1 DEF WorkspaceState, Modal, Behind
  <2>5. WorkspaceCalls'
    BY <1>2, <1>4, <2>1, <2>2 DEF WorkspaceCalls
  <2>6. WorkspaceFreshness'
    BY <1>1, <1>2, <1>6, <2>1, <2>2 DEF WorkspaceFreshness
  <2> QED  BY <1>5, <2>3, <2>4, <2>5, <2>6
<1>8. CASE c.answer.ok /\ c.kind = "password"
  <2>1. /\ mutationBusy' = FALSE /\ editor' = Null /\ calls' = calls \ {c}
        /\ sent' = sent /\ mutationError' = mutationError /\ acknowledged' = acknowledged
    BY <1>8 DEF MutationArrives, Done
  <2>2. Ours' = {}
    BY <1>2, <1>3, <2>1 DEF Ours
  <2>3. ServerInv' /\ NetworkInv'
    BY <1>1, <2>1, NetworkQuiet
  <2>4. WorkspaceState'
    BY <1>2, <1>4, <2>1 DEF WorkspaceState, Modal, Behind
  <2>5. WorkspaceCalls'
    BY <1>2, <1>4, <2>1, <2>2 DEF WorkspaceCalls
  <2>6. WorkspaceFreshness'
    BY <1>1, <1>2, <1>6, <2>1, <2>2 DEF WorkspaceFreshness
  <2> QED  BY <1>5, <2>3, <2>4, <2>5, <2>6
<1>9. CASE c.answer.ok /\ c.kind # "password"
  <2>1. /\ calls' = (calls \ {c}) \cup {Load("mutation")} /\ sent' = sent + 1
        /\ acknowledged' = c.answer.at /\ editor' = editor /\ mutationBusy' = mutationBusy
        /\ mutationError' = mutationError
    BY <1>9 DEF MutationArrives, SendAfter, editing
  <2>2. PICK new : /\ new = Load("mutation") /\ IsCall(new) /\ new.visit = visit
                   /\ new.kind = "load" /\ new.for = "mutation" /\ new.n = sent + 1
                   /\ new.answer = Null
    BY NewCall DEF Load
  <2>3. Ours' = {new}
    BY <1>2, <1>3, <2>1, <2>2, OneCallAway
  <2>4. ServerInv' /\ NetworkInv'
    BY <1>1, <2>1, <2>2, NetworkStays DEF Kinds
  <2>5. Confirmed(c.answer)
    BY <1>1, <1>9 DEF Confirmed, Failed
  <2>6. acknowledged' \in Nat /\ acknowledged' <= clock'
    BY <1>2, <1>3, <2>1, <2>5 DEF CallOK, AnswerOK
  <2>7. editor.n \in Nat /\ editor.n <= sent /\ sent \in Nat
    BY <1>4 DEF WorkspaceState, NetworkInv
  <2>8. editor.n <= sent' /\ editor.n < new.n
    BY <2>1, <2>2, <2>7
  <2>9. WorkspaceState'
    BY <1>2, <1>4, <2>1, <2>6, <2>8 DEF WorkspaceState, Modal, Behind
  <2>10. WaitedFor(new)'
    BY <1>4, <2>1, <2>2, <2>8 DEF WaitedFor
  <2>11. WorkspaceCalls'
    BY <1>2, <1>4, <2>2, <2>3, <2>10 DEF WorkspaceCalls
  <2>12. WorkspaceFreshness'
    BY <1>1, <1>2, <2>2, <2>3 DEF WorkspaceFreshness, LoadAway, Confirmed
  <2> QED  BY <1>5, <2>4, <2>9, <2>11, <2>12
<1> QED  BY <1>7, <1>8, <1>9

LEMMA IssueGatewayTokenKeeps ==
  ASSUME IInv, NEW g \in Records, IssueGatewayToken(g), UNCHANGED moduleVars
  PROVE  IInv'
<1> USE DEF IInv
<1> DEFINE call == Call("rotate", "token", g, Null)
<1>1. /\ Here /\ ~Modal /\ loadState = "ready" /\ ResourceOf(g) = "gateways"
      /\ token' = [gateway |-> g, value |-> Null, error |-> FALSE] /\ tokenBusy' = TRUE
      /\ UNCHANGED <<server, route>> /\ sent' = sent + 1 /\ calls' = calls \cup {call}
  BY DEF IssueGatewayToken, Send, Listed
<1>2. /\ activeResource' = activeResource /\ snapshot' = snapshot /\ loadState' = loadState
      /\ editor' = editor /\ mutationBusy' = mutationBusy /\ mutationError' = mutationError
      /\ acknowledged' = acknowledged
      /\ page' = page /\ visit' = visit /\ clock' = clock /\ rows' = rows /\ tokens' = tokens
  BY DEF IssueGatewayToken, loading, editing, route, server
<1>3. editor = Null /\ token = Null /\ ~mutationBusy /\ ~tokenBusy
  BY <1>1, NothingBusy DEF Modal
<1>4. Ours = {}
  BY <1>1, <1>3, NothingAway
<1>5. PICK new : /\ new = call /\ IsCall(new) /\ new.visit = visit /\ new.kind = "rotate"
                 /\ new.for = "token" /\ new.record = g /\ new.answer = Null
  BY NewCall
<1>6. Ours' = {new}
  BY <1>1, <1>2, <1>4, <1>5, OneCallAway
<1>7. sent' \in {sent, sent + 1} /\ calls' \subseteq calls \cup {new} /\ new.kind \in Kinds
  BY <1>1, <1>5 DEF Kinds
<1> HIDE DEF call
<1>8. ServerInv' /\ NetworkInv'
  BY <1>1, <1>5, <1>7, NetworkStays
<1>9. ModuleState' /\ ModuleCalls' /\ ModuleFreshness' /\ NotMounted'
  BY <1>1, ModuleStays
<1>10. /\ token' \in [gateway : Records, value : Nat \cup {Null}, error : BOOLEAN]
       /\ token'.gateway = g /\ token'.value = Null
  BY <1>1
<1>11. token' # Null
  BY <1>10, NullAssumption
<1>12. WorkspaceState'
  BY <1>1, <1>2, <1>3, <1>10, <1>11 DEF WorkspaceState, Modal, Behind
<1>13. WorkspaceCalls'
  <2>1. WaitedFor(new)'
    BY <1>1, <1>5, <1>10 DEF WaitedFor, Confirmed
  <2> QED  BY <1>1, <1>2, <1>3, <1>5, <1>6, <2>1 DEF WorkspaceCalls
<1>14. WorkspaceFreshness'
  <2>1. ~LoadAway
    BY <1>4 DEF LoadAway
  <2> QED  BY <1>1, <1>2, <1>3, <1>5, <1>6, <2>1 DEF WorkspaceFreshness
<1> QED  BY <1>8, <1>9, <1>12, <1>13, <1>14

(* The token that arrives is the one that was issued last in the name of   *)
(* this visit.                                                             *)
LEMMA TokenArrivesKeeps ==
  ASSUME IInv, NEW c \in calls, TokenArrives(c), UNCHANGED moduleVars
  PROVE  IInv'
<1> USE DEF IInv
<1>1. /\ Here /\ c.visit = visit /\ c.answer # Null /\ c.kind = "rotate"
      /\ UNCHANGED <<server, route>>
  BY DEF TokenArrives, Mine
<1>2. /\ activeResource' = activeResource /\ snapshot' = snapshot /\ loadState' = loadState
      /\ editor' = editor /\ mutationBusy' = mutationBusy /\ mutationError' = mutationError
      /\ page' = page /\ visit' = visit /\ clock' = clock /\ rows' = rows /\ tokens' = tokens
  BY DEF TokenArrives, loading, editing, route, server
<1>3. Ours = {c} /\ WaitedFor(c) /\ CallOK(c)
  BY <1>1, OursIsOne
<1>4. ~mutationBusy \/ editor.type \in {"create", "edit", "delete", "password"}
  BY NothingBusy DEF WorkspaceState
<1>5. /\ c.for = "token" /\ tokenBusy /\ token.value = Null
      /\ Confirmed(c.answer) => Works(c.answer.at)
  BY <1>1, <1>3, <1>4 DEF WaitedFor
<1>6. /\ token # Null /\ editor = Null /\ ~mutationBusy /\ loadState # "loading"
      /\ loadState \in {"ready", "error"}
      /\ token \in [gateway : Records, value : Nat \cup {Null}, error : BOOLEAN]
      /\ ResourceOf(token.gateway) = "gateways"
  BY <1>5, NothingBusy DEF Modal, WorkspaceState
<1>7. ModuleState' /\ ModuleCalls' /\ ModuleFreshness' /\ NotMounted'
  BY <1>1, ModuleStays
<1>8. ~LoadAway
  BY <1>1, <1>3 DEF LoadAway
<1>9. CASE c.answer.ok
  <2>1. /\ token' = [token EXCEPT !.value = c.answer.at] /\ acknowledged' = c.answer.at
        /\ calls' = (calls \ {c}) \cup {Load("token")} /\ sent' = sent + 1
        /\ tokenBusy' = tokenBusy
    BY <1>9 DEF TokenArrives, SendAfter
  <2>2. PICK new : /\ new = Load("token") /\ IsCall(new) /\ new.visit = visit
                   /\ new.kind = "load" /\ new.for = "token" /\ new.answer = Null
    BY NewCall DEF Load
  <2>3. Ours' = {new}
    BY <1>2, <1>3, <2>1, <2>2, OneCallAway
  <2>4. ServerInv' /\ NetworkInv'
    BY <1>1, <2>1, <2>2, NetworkStays DEF Kinds
  <2>5. Confirmed(c.answer)
    BY <1>1, <1>9 DEF Confirmed, Failed
  <2>6. c.answer.at \in Nat /\ c.answer.at <= clock
    BY <1>3, <2>5 DEF CallOK, AnswerOK
  <2>7. /\ token' \in [gateway : Records, value : Nat \cup {Null}, error : BOOLEAN]
        /\ token'.gateway = token.gateway /\ token'.value = c.answer.at
    BY <1>6, <2>1, <2>6
  <2>8. token' # Null
    BY <2>7, NullAssumption
  <2>9. Works(token.value)'
    BY <1>2, <1>5, <2>5, <2>7 DEF Works
  <2>10. WorkspaceState'
    BY <1>2, <1>6, <2>1, <2>6, <2>7, <2>8, <2>9 DEF WorkspaceState, Modal, Behind
  <2>11. WaitedFor(new)'
    BY <1>5, <2>1, <2>2 DEF WaitedFor
  <2>12. WorkspaceCalls'
    BY <1>2, <1>6, <2>2, <2>3, <2>11 DEF WorkspaceCalls
  <2>13. WorkspaceFreshness'
    BY <1>1, <1>2, <1>6, <2>2, <2>3 DEF WorkspaceFreshness, LoadAway, Confirmed
  <2> QED  BY <1>7, <2>4, <2>10, <2>12, <2>13
<1>10. CASE ~c.answer.ok
  <2>1. /\ token' = [token EXCEPT !.error = TRUE] /\ tokenBusy' = FALSE
        /\ calls' = calls \ {c} /\ sent' = sent /\ acknowledged' = acknowledged
    BY <1>10 DEF TokenArrives, Done
  <2>2. Ours' = {}
    BY <1>2, <1>3, <2>1 DEF Ours
  <2>3. ServerInv' /\ NetworkInv'
    BY <1>1, <2>1, NetworkQuiet
  <2>4. /\ token' \in [gateway : Records, value : Nat \cup {Null}, error : BOOLEAN]
        /\ token'.gateway = token.gateway /\ token'.value = Null
    BY <1>5, <1>6, <2>1
  <2>5. WorkspaceState'
    BY <1>2, <1>6, <2>1, <2>4 DEF WorkspaceState, Modal, Behind
  <2>6. WorkspaceCalls'
    BY <1>2, <1>6, <2>1, <2>2 DEF WorkspaceCalls
  <2>7. WorkspaceFreshness'
    BY <1>1, <1>2, <1>6, <1>8, <2>1, <2>2 DEF WorkspaceFreshness
  <2> QED  BY <1>7, <2>3, <2>5, <2>6, <2>7
<1> QED  BY <1>9, <1>10

LEMMA CloseTokenKeeps ==
  ASSUME IInv, CloseToken, UNCHANGED moduleVars
  PROVE  IInv'
<1> USE DEF IInv
<1>1. /\ Here /\ token # Null /\ ~tokenBusy /\ token' = Null
      /\ UNCHANGED <<server, route>> /\ UNCHANGED sent /\ calls' = calls
  BY DEF CloseToken, network
<1>2. /\ activeResource' = activeResource /\ snapshot' = snapshot /\ loadState' = loadState
      /\ editor' = editor /\ mutationBusy' = mutationBusy /\ mutationError' = mutationError
      /\ tokenBusy' = tokenBusy /\ acknowledged' = acknowledged
      /\ page' = page /\ visit' = visit /\ clock' = clock /\ rows' = rows /\ tokens' = tokens
  BY DEF CloseToken, loading, editing, route, server
<1>3. editor = Null /\ ~mutationBusy /\ loadState # "loading"
  BY <1>1, NothingBusy DEF Modal
<1>4. Ours = {} /\ Ours' = {}
  BY <1>1, <1>2, <1>3, NothingAway DEF Ours
<1>5. ServerInv' /\ NetworkInv'
  BY <1>1, NetworkQuiet
<1>6. ModuleState' /\ ModuleCalls' /\ ModuleFreshness' /\ NotMounted'
  BY <1>1, ModuleStays
<1>7. WorkspaceState'
  BY <1>1, <1>2, <1>3 DEF WorkspaceState, Modal, Behind
<1>8. WorkspaceCalls'
  BY <1>1, <1>2, <1>3, <1>4 DEF WorkspaceCalls
<1>9. WorkspaceFreshness'
  BY <1>1, <1>2, <1>3, <1>4 DEF WorkspaceFreshness, LoadAway
<1> QED  BY <1>5, <1>6, <1>7, <1>8, <1>9

LEMMA WorkspaceKeeps == IInv /\ WorkspaceNext /\ UNCHANGED moduleVars => IInv'
BY RefreshKeeps, SelectResourceKeeps, OpenKeeps, CloseEditorKeeps, SubmitKeeps,
   IssueGatewayTokenKeeps, CloseTokenKeeps, LoadArrivesKeeps, MutationArrivesKeeps,
   TokenArrivesKeeps
DEF WorkspaceNext

-----------------------------------------------------------------------------
(* The module page.                                                        *)

(* What the page holds, when its data were not replaced.                   *)
LEMMA ModuleQuiet ==
  ASSUME IInv, Opened, UNCHANGED <<server, route, data, dataState, saving, saved, overlapped>>,
         calls' = calls
  PROVE  ModuleCalls' /\ ModuleFreshness'
<1>1. /\ page' = page /\ visit' = visit /\ data' = data /\ dataState' = dataState
      /\ saving' = saving /\ saved' = saved /\ overlapped' = overlapped
  BY DEF route
<1>2. Ours' = Ours
  BY <1>1 DEF Ours
<1> QED  BY <1>1, <1>2
         DEF IInv, ModuleCalls, ModuleFreshness, LoadAway, Confirmed, Opened

(* A dialog that is shown keeps the draft of the record it edits.          *)
LEMMA RenderKeepsDraft ==
  ASSUME draft # Null => edited' = draft, Render
  PROVE  draft' # Null => DialogShown' /\ edited' = draft'
BY DEF Render, DialogShown, SelectedRow

LEMMA ModuleQuietKeeps ==
  ASSUME IInv, Opened, UNCHANGED <<server, route, network, workspaceVars>>,
         UNCHANGED <<data, dataState, saving, saved, overlapped>>,
         section' \in Sections,
         selected' # Null => selected'.section \in Sections /\ selected'.record \in Records,
         draft' # Null => DialogShown' /\ edited' = draft'
  PROVE  IInv'
<1>1. /\ clock' = clock /\ sent' = sent /\ calls' = calls /\ page' = page
      /\ data' = data /\ dataState' = dataState /\ saving' = saving /\ saved' = saved
      /\ overlapped' = overlapped
  BY DEF server, network, route
<1>2. ServerInv' /\ NetworkInv'
  BY <1>1, NetworkQuiet
<1>3. WorkspaceState' /\ WorkspaceCalls' /\ WorkspaceFreshness'
  BY WorkspaceStays
<1>4. ModuleCalls' /\ ModuleFreshness'
  BY <1>1, ModuleQuiet
<1>5. ModuleState'
  BY <1>1 DEF IInv, ModuleState
<1>6. NotMounted'
  BY <1>1, WorkspaceStays
<1> QED  BY <1>2, <1>3, <1>4, <1>5, <1>6 DEF IInv

(* The steps that neither ask the server for anything nor hear from it.    *)
LEMMA BrowsingKeeps ==
  ASSUME IInv, UNCHANGED workspaceVars,
         \/ Back \/ EditDetail \/ CloseDialog
         \/ \E s \in Sections : ChangeSection(s)
         \/ \E r \in Records : OpenDetail(r)
  PROVE  IInv'
<1>1. /\ section \in Sections
      /\ selected # Null => selected.section \in Sections /\ selected.record \in Records
      /\ draft # Null => DialogShown /\ edited = draft
  BY DEF IInv, ModuleState
<1>2. CASE Back
  <2>1. /\ Opened /\ draft = Null
        /\ UNCHANGED <<server, network, route, section, data, dataState, draft, saving, saved, overlapped>>
        /\ selected' = Null
    BY <1>1, <1>2 DEF Back
  <2> QED  BY <1>1, <2>1, ModuleQuietKeeps
<1>3. CASE EditDetail
  <2>1. /\ Opened /\ draft = Null /\ Render
        /\ UNCHANGED <<server, network, route, section, data, dataState, selected, saving, saved, overlapped>>
    BY <1>1, <1>3 DEF EditDetail
  <2>2. draft' # Null => DialogShown' /\ edited' = draft'
    BY <2>1, RenderKeepsDraft
  <2> QED  BY <1>1, <2>1, <2>2, ModuleQuietKeeps
<1>4. CASE CloseDialog
  <2>1. /\ Opened /\ draft' = Null
        /\ UNCHANGED <<server, network, route, section, data, dataState, selected, saving, saved, overlapped>>
    BY <1>4 DEF CloseDialog
  <2> QED  BY <1>1, <2>1, ModuleQuietKeeps
<1>5. ASSUME NEW s \in Sections, ChangeSection(s)
      PROVE  IInv'
  <2>1. /\ Opened /\ section' = s /\ Render
        /\ UNCHANGED <<server, network, route, data, dataState, selected, edited, saving, saved, overlapped>>
    BY <1>5 DEF ChangeSection
  <2>2. draft' # Null => DialogShown' /\ edited' = draft'
    BY <1>1, <2>1, RenderKeepsDraft
  <2> QED  BY <1>1, <2>1, <2>2, ModuleQuietKeeps
<1>6. ASSUME NEW r \in Records, OpenDetail(r)
      PROVE  IInv'
  <2>1. /\ Opened /\ selected' = [section |-> section, record |-> r] /\ Render
        /\ UNCHANGED <<server, network, route, section, data, dataState, edited, saving, saved, overlapped>>
    BY <1>6 DEF OpenDetail
  <2>2. draft' # Null => DialogShown' /\ edited' = draft'
    BY <1>1, <2>1, RenderKeepsDraft
  <2>3. selected'.section \in Sections /\ selected'.record \in Records
    BY <1>1, <2>1
  <2> QED  BY <1>1, <2>1, <2>2, <2>3, ModuleQuietKeeps
<1> QED  BY <1>2, <1>3, <1>4, <1>5, <1>6

LEMMA LoadsAreOurs == (Loads # {}) = LoadAway
BY DEF Loads, LoadAway, Ours

LEMMA RefreshDataKeeps ==
  ASSUME IInv, RefreshData, UNCHANGED workspaceVars
  PROVE  IInv'
<1>1. /\ Opened /\ dataState' = "loading" /\ sent' = sent + 1
      /\ calls' = calls \cup {Load("refresh")}
      /\ overlapped' = (overlapped \/ LoadAway)
      /\ UNCHANGED <<server, route>>
  BY LoadsAreOurs DEF RefreshData, LoadData, Send
<1>2. /\ section' = section /\ data' = data /\ selected' = selected /\ edited' = edited
      /\ draft' = draft /\ saving' = saving /\ saved' = saved
      /\ page' = page /\ visit' = visit /\ clock' = clock
  BY <1>1 DEF RefreshData, server, route
<1>3. PICK new : /\ new = Load("refresh") /\ IsCall(new) /\ new.visit = visit
                 /\ new.kind = "load" /\ new.for = "refresh" /\ new.answer = Null
  BY NewCall DEF Load
<1>4. ServerInv' /\ NetworkInv'
  BY <1>1, <1>3, NetworkStays DEF Kinds
<1>5. WorkspaceState' /\ WorkspaceCalls' /\ WorkspaceFreshness' /\ NotMounted'
  BY <1>1, WorkspaceStays
<1>6. Ours' = Ours \cup {new}
  BY <1>1, <1>2, <1>3 DEF Ours
<1>7. ModuleState'
  BY <1>1, <1>2 DEF IInv, ModuleState, DialogShown, SelectedRow, RowOf
<1>8. ModuleCalls'
  BY <1>1, <1>2, <1>3, <1>6 DEF IInv, ModuleCalls, LoadAway
<1>9. ModuleFreshness'
  BY <1>1, <1>2, <1>3, <1>6 DEF IInv, ModuleFreshness, LoadAway, Confirmed
<1> QED  BY <1>4, <1>5, <1>7, <1>8, <1>9 DEF IInv

LEMMA DataArrivesKeeps ==
  ASSUME IInv, NEW c \in calls, DataArrives(c), UNCHANGED workspaceVars
  PROVE  IInv'
<1>1. /\ Opened /\ c.visit = visit /\ c.answer # Null /\ c.kind = "load"
      /\ calls' = calls \ {c} /\ sent' = sent /\ UNCHANGED <<server, route>> /\ Render
  BY DEF DataArrives, Mine, Done
<1>2. /\ section' = section /\ selected' = selected /\ edited' = edited
      /\ saving' = saving /\ saved' = saved /\ overlapped' = overlapped
      /\ page' = page /\ visit' = visit /\ clock' = clock
  BY DEF DataArrives, server, route
<1>3. \/ /\ Confirmed(c.answer) /\ data' = [at |-> c.answer.at, rows |-> c.answer.rows]
         /\ dataState' = "ready"
      \/ dataState' = "error" /\ data' = data
  BY <1>1 DEF DataArrives, Confirmed, Failed
<1>4. CallOK(c) /\ c \in Ours
  BY <1>1 DEF IInv, NetworkInv, Ours
<1>5. Ours' = Ours \ {c}
  BY <1>1, <1>2 DEF Ours
<1>6. ServerInv' /\ NetworkInv'
  BY <1>1, NetworkQuiet
<1>7. WorkspaceState' /\ WorkspaceCalls' /\ WorkspaceFreshness' /\ NotMounted'
  BY <1>1, WorkspaceStays
<1>8. draft' # Null => DialogShown' /\ edited' = draft'
  BY <1>1, <1>2, RenderKeepsDraft DEF IInv, ModuleState
<1>9. data' # Null => data'.at \in Nat /\ data'.at <= clock'
  BY <1>2, <1>3, <1>4 DEF IInv, ModuleState, CallOK, AnswerOK
<1>10. ModuleState'
  BY <1>2, <1>3, <1>8, <1>9 DEF IInv, ModuleState
<1>11. ModuleCalls'
  BY <1>1, <1>2, <1>3, <1>5 DEF IInv, ModuleCalls
<1>12. ModuleFreshness'
  <2> SUFFICES ASSUME ~overlapped PROVE ModuleFreshness'
    BY <1>2 DEF ModuleFreshness
  <2>1. ~LoadAway'
    BY <1>1, <1>4, <1>5 DEF IInv, ModuleFreshness, LoadAway
  <2>2. Confirmed(c.answer) => c.answer.at >= saved
    BY <1>1, <1>4 DEF IInv, ModuleFreshness
  <2>3. dataState' = "ready" => data'.at >= saved
    BY <1>3, <2>2
  <2> QED  BY <1>2, <2>1, <2>3 DEF ModuleFreshness, LoadAway
<1> QED  BY <1>6, <1>7, <1>10, <1>11, <1>12 DEF IInv

LEMMA SaveEditKeeps ==
  ASSUME IInv, SaveEdit, UNCHANGED workspaceVars
  PROVE  IInv'
<1> DEFINE call == Call("edit", "save", edited.record, draft.base)
<1>1. /\ Opened /\ ~saving /\ saving' = TRUE /\ sent' = sent + 1
      /\ calls' = calls \cup {call} /\ UNCHANGED <<server, route>>
  BY DEF SaveEdit, Send
<1>2. /\ section' = section /\ data' = data /\ dataState' = dataState /\ selected' = selected
      /\ edited' = edited /\ draft' = draft /\ saved' = saved /\ overlapped' = overlapped
      /\ page' = page /\ visit' = visit /\ clock' = clock
  BY DEF SaveEdit, server, route
<1>3. PICK new : /\ new = call /\ IsCall(new) /\ new.visit = visit /\ new.kind = "edit"
                 /\ new.answer = Null
  BY NewCall
<1>4. sent' \in {sent, sent + 1} /\ calls' \subseteq calls \cup {new} /\ new.kind \in Kinds
  BY <1>1, <1>3 DEF Kinds
<1>5. Ours' = Ours \cup {new}
  BY <1>1, <1>2, <1>3 DEF Ours
<1> HIDE DEF call
<1>6. ServerInv' /\ NetworkInv'
  BY <1>1, <1>3, <1>4, NetworkStays
<1>7. WorkspaceState' /\ WorkspaceCalls' /\ WorkspaceFreshness' /\ NotMounted'
  BY <1>1, WorkspaceStays
<1>8. ModuleState'
  BY <1>1, <1>2 DEF IInv, ModuleState, DialogShown, SelectedRow, RowOf
<1>9. LoadAway' = LoadAway
  BY <1>3, <1>5 DEF LoadAway
<1>10. ModuleCalls'
  BY <1>1, <1>2, <1>3, <1>5, <1>9 DEF IInv, ModuleCalls
<1>11. ModuleFreshness'
  BY <1>1, <1>2, <1>3, <1>5, <1>9 DEF IInv, ModuleFreshness, Confirmed
<1> QED  BY <1>6, <1>7, <1>8, <1>10, <1>11 DEF IInv

(* A save ends, or is followed by the load that shows it.                  *)
LEMMA SaveArrivesKeeps ==
  ASSUME IInv, NEW c \in calls, SaveArrives(c), UNCHANGED workspaceVars
  PROVE  IInv'
<1>1. /\ Opened /\ c.visit = visit /\ c.answer # Null /\ c.kind = "edit" /\ saving' = FALSE
      /\ UNCHANGED <<server, route>>
  BY DEF SaveArrives, Mine
<1>2. /\ section' = section /\ data' = data /\ selected' = selected
      /\ page' = page /\ visit' = visit /\ clock' = clock
  BY DEF SaveArrives, server, route
<1>3. CallOK(c) /\ c \in Ours
  BY <1>1 DEF IInv, NetworkInv, Ours
<1>4. \A d \in Ours : d.kind = "edit" => d = c
  BY <1>1, <1>3 DEF IInv, ModuleCalls
<1>5. WorkspaceState' /\ WorkspaceCalls' /\ WorkspaceFreshness' /\ NotMounted'
  BY <1>1, WorkspaceStays
<1>6. CASE c.answer.ok
  <2>1. /\ edited' = Null /\ draft' = Null /\ saved' = c.answer.at /\ dataState' = "loading"
        /\ calls' = (calls \ {c}) \cup {Load("refresh")} /\ sent' = sent + 1
        /\ overlapped' = (overlapped \/ LoadAway)
    BY <1>6, LoadsAreOurs DEF SaveArrives, SendAfter
  <2>2. PICK new : /\ new = Load("refresh") /\ IsCall(new) /\ new.visit = visit
                   /\ new.kind = "load" /\ new.for = "refresh" /\ new.answer = Null
    BY NewCall DEF Load
  <2>3. ServerInv' /\ NetworkInv'
    BY <1>1, <2>1, <2>2, NetworkStays DEF Kinds
  <2>4. Ours' = (Ours \ {c}) \cup {new}
    BY <1>2, <2>1, <2>2 DEF Ours
  <2>5. c.answer.at \in Nat /\ c.answer.at <= clock
    BY <1>1, <1>3, <1>6 DEF CallOK, AnswerOK, Confirmed, Failed
  <2>6. ModuleState'
    BY <1>1, <1>2, <2>1, <2>5 DEF IInv, ModuleState
  <2>7. ModuleCalls'
    BY <1>1, <1>2, <1>4, <2>1, <2>2, <2>4 DEF IInv, ModuleCalls, LoadAway
  <2>8. ModuleFreshness'
    BY <1>1, <1>2, <2>1, <2>2, <2>4 DEF IInv, ModuleFreshness, LoadAway, Confirmed
  <2> QED  BY <1>5, <2>3, <2>6, <2>7, <2>8 DEF IInv
<1>7. CASE ~c.answer.ok
  <2>1. /\ edited' = edited /\ draft' = draft /\ saved' = saved /\ dataState' = dataState
        /\ overlapped' = overlapped /\ calls' = calls \ {c} /\ sent' = sent
    BY <1>7 DEF SaveArrives, Done
  <2>2. ServerInv' /\ NetworkInv'
    BY <1>1, <2>1, NetworkQuiet
  <2>3. Ours' = Ours \ {c}
    BY <1>2, <2>1 DEF Ours
  <2>4. LoadAway' = LoadAway
    BY <1>1, <2>3 DEF LoadAway
  <2>5. ModuleState'
    BY <1>1, <1>2, <2>1 DEF IInv, ModuleState, DialogShown, SelectedRow, RowOf
  <2>6. ModuleCalls'
    BY <1>1, <1>2, <1>4, <2>1, <2>3, <2>4 DEF IInv, ModuleCalls
  <2>7. ModuleFreshness'
    BY <1>1, <1>2, <2>1, <2>3, <2>4 DEF IInv, ModuleFreshness, Opened, Confirmed
  <2> QED  BY <1>5, <2>2, <2>5, <2>6, <2>7 DEF IInv
<1> QED  BY <1>6, <1>7

LEMMA ModuleKeeps == IInv /\ ModuleNext /\ UNCHANGED workspaceVars => IInv'
BY BrowsingKeeps, RefreshDataKeeps, SaveEditKeeps, DataArrivesKeeps, SaveArrivesKeeps
DEF ModuleNext

-----------------------------------------------------------------------------
(* The invariant.                                                          *)

LEMMA StutterKeeps == IInv /\ UNCHANGED vars => IInv'
<1> SUFFICES ASSUME IInv, UNCHANGED vars PROVE IInv'
  OBVIOUS
<1>1. /\ UNCHANGED <<server, sent, route, workspaceVars, moduleVars>> /\ calls' = calls
      /\ visit' = visit
  BY DEF vars, network, route
<1>2. ServerGrows /\ TokensKept
  BY <1>1, ServerIdle DEF IInv
<1>3. Ours' = Ours
  BY <1>1 DEF Ours
<1> QED  BY <1>1, <1>2, <1>3, QuietStep

LEMMA NextKeeps == IInv /\ [Next]_vars => IInv'
<1>1. IInv /\ Outside => IInv'
  BY OutsideKeeps
<1>2. ASSUME IInv, NEW p \in {"workspace", "module", "elsewhere"}, Go(p)
      PROVE  IInv'
  BY <1>2, GoKeeps
<1> QED  BY <1>1, <1>2, WorkspaceKeeps, ModuleKeeps, StutterKeeps DEF Next

(* Whatever was answered, lost or changed by others, each call under way   *)
(* is waited for by the dialog that sent it.                               *)
THEOREM Invariant == Spec => []IInv
BY InitKeeps, NextKeeps, PTL DEF Spec

(* The state of the pages has the types that their components declare.     *)
THEOREM Typed == Spec => []TypeOK
<1>1. IInv => WorkspaceTypeOK
  <2> SUFFICES ASSUME IInv PROVE WorkspaceTypeOK
    OBVIOUS
  <2>1. clock \in Nat
    BY DEF IInv, ServerInv
  <2>2. snapshot # Null => snapshot.at \in 0..clock
    BY <2>1 DEF IInv, WorkspaceState, Behind
  <2>3. acknowledged \in 0..clock
    BY <2>1 DEF IInv, WorkspaceState
  <2> QED  BY <2>2, <2>3 DEF IInv, WorkspaceState, WorkspaceTypeOK
<1>2. IInv => ModuleTypeOK
  <2> SUFFICES ASSUME IInv PROVE ModuleTypeOK
    OBVIOUS
  <2>1. clock \in Nat
    BY DEF IInv, ServerInv
  <2>2. data # Null => data.at \in 0..clock
    BY <2>1 DEF IInv, ModuleState
  <2>3. saved \in 0..clock
    BY <2>1 DEF IInv, ModuleState
  <2> QED  BY <2>2, <2>3 DEF IInv, ModuleState, ModuleTypeOK
<1> QED  BY <1>1, <1>2, Invariant, PTL DEF TypeOK

(* The workspace has one load under way at most, lists every write that    *)
(* was confirmed to it, and saves a draft over another version only if     *)
(* that version is newer than what was confirmed (load, openEditor and     *)
(* reloadAfterMutation of AdminWorkspace.tsx).                             *)
THEOREM WorkspaceFresh == Spec => []WorkspaceIsFresh
<1>1. IInv => WorkspaceIsFresh
  <2> SUFFICES ASSUME IInv, Here PROVE WorkspaceIsFresh
    BY DEF WorkspaceIsFresh
  <2>1. \A c, d \in Ours : c = d
    BY DEF IInv, WorkspaceCalls
  <2>2. Cardinality(InFlight({"load"})) <= 1
    <3>1. CASE InFlight({"load"}) = {}
      BY <3>1, FS_EmptySet
    <3>2. ASSUME NEW c \in InFlight({"load"})
          PROVE  Cardinality(InFlight({"load"})) <= 1
      <4>1. InFlight({"load"}) = {c}
        BY <2>1 DEF InFlight, Ours
      <4> QED  BY <4>1, FS_Singleton
    <3> QED  BY <3>1, <3>2
  <2>3. loadState = "ready" /\ InFlight({"load"}) = {} => snapshot.at >= acknowledged
    <3>1. InFlight({"load"}) = {} => ~LoadAway
      BY DEF InFlight, LoadAway, Ours
    <3> QED  BY <3>1 DEF IInv, WorkspaceFreshness
  <2>4. ASSUME NEW c \in InFlight({"edit"}), rows[c.record] # c.base
        PROVE  rows[c.record].v > acknowledged
    <3>1. c \in Ours /\ c.kind = "edit"
      BY DEF InFlight, Ours
    <3>2. WaitedFor(c) /\ ~LoadAway
      BY <2>1, <3>1 DEF IInv, WorkspaceCalls, LoadAway
    <3>3. mutationBusy /\ editor.type = "edit" /\ c.record = editor.record /\ c.base = editor.base
      BY <3>1, <3>2 DEF WaitedFor
    <3>4. editor # Null
      BY <3>3, NothingBusy
    <3> QED  BY <2>4, <3>2, <3>3, <3>4 DEF IInv, WorkspaceFreshness
  <2> QED  BY <2>2, <2>3, <2>4 DEF WorkspaceIsFresh
<1> QED  BY <1>1, Invariant, PTL

(* No answer reaches an editor that was opened after it was asked for: an  *)
(* editor shows the errors of its own submissions, and is busy exactly     *)
(* while one of them is under way (handleMutationError, closeEditor).      *)
THEOREM EditorTold == Spec => []EditorIsTold
<1>1. IInv => EditorIsTold
  <2> SUFFICES ASSUME IInv, Here PROVE EditorIsTold
    BY DEF EditorIsTold
  <2>1. \A c \in Ours : c.for = "mutation" => mutationBusy /\ editor.n < c.n
    BY DEF IInv, WorkspaceCalls, WaitedFor
  <2>2. mutationBusy => \E c \in Ours : c.for = "mutation"
    BY DEF IInv, WorkspaceCalls
  <2>3. mutationBusy = (\E c \in calls : c.visit = visit /\ c.for = "mutation")
    BY <2>1, <2>2, NothingBusy DEF Ours
  <2>4. \A c \in calls : c.visit = visit /\ c.for = "mutation" => editor.n < c.n
    BY <2>1 DEF Ours
  <2> QED  BY <2>3, <2>4, NothingBusy DEF EditorIsTold, IInv, WorkspaceState
<1> QED  BY <1>1, Invariant, PTL

(* The token a dialog shows is the one its gateway has, unless somebody    *)
(* else issued a newer one (issueGatewayToken).                            *)
THEOREM TokenWorks == Spec => []ShownTokenWorks
<1>1. IInv => ShownTokenWorks
  BY NothingBusy DEF IInv, WorkspaceState, ShownTokenWorks, Works
<1> QED  BY <1>1, Invariant, PTL

(* A module page that is ready shows every save that was confirmed to it,  *)
(* unless its loads overlapped; the draft is that of the record it saves   *)
(* (load, saveEdit of ModulePage.tsx).                                     *)
THEOREM ModuleShows == Spec => []ModuleShowsItsSaves
<1>1. IInv => ModuleShowsItsSaves
  <2> SUFFICES ASSUME IInv, Opened PROVE ModuleShowsItsSaves
    BY DEF ModuleShowsItsSaves
  <2>1. (Loads # {}) = LoadAway
    BY LoadsAreOurs
  <2>2. dataState = "ready" /\ Loads = {} /\ ~overlapped => data.at >= saved
    BY <2>1 DEF IInv, ModuleFreshness
  <2>3. saving = (\E c \in calls : c.visit = visit /\ c.kind = "edit")
    BY DEF IInv, ModuleCalls, Ours
  <2>4. dataState = "loading" => Loads # {}
    BY <2>1 DEF IInv, ModuleCalls
  <2>5. draft # Null => edited = draft
    BY DEF IInv, ModuleState
  <2> QED  BY <2>2, <2>3, <2>4, <2>5 DEF ModuleShowsItsSaves
<1> QED  BY <1>1, Invariant, PTL
=============================================================================
