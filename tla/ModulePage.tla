------------------------------ MODULE ModulePage ------------------------------
(***************************************************************************)
(* A module page (ModulePage.tsx) of a superuser: the rows of a section,   *)
(* the detail of one of them, and the editor of its record.  The page      *)
(* stays mounted while its section changes.  Unlike the workspace it       *)
(* closes the editor before it loads the records again, and leaves the     *)
(* detail in place while it does.  Other accounts see the same page        *)
(* without editor.  Search and the text of the cells are left out.         *)
(***************************************************************************)
EXTENDS Management

CONSTANT Sections     \* the sections whose rows are records

VARIABLES
  section,
  data,          \* [at |-> write, rows |-> rows] or Null
  dataState,     \* "loading", "ready" or "error"
  selected,      \* Null or [section, record]
  edited,        \* Null or [record, base]: the editor, shown over a detail only
  draft,         \* Null or what the dialog that is shown was mounted with
  saving,
  saved,         \* the last write the server confirmed to this visit
  overlapped     \* whether two loads of this visit were ever under way at once

moduleVars == <<section, data, dataState, selected, edited, draft, saving, saved, overlapped>>

ModuleInit(s) ==
  /\ section = s /\ data = Null /\ dataState = "loading" /\ selected = Null
  /\ edited = Null /\ draft = Null /\ saving = FALSE /\ saved = 0 /\ overlapped = FALSE

ModuleAnew(s) ==
  /\ section' = s /\ data' = Null /\ dataState' = "loading" /\ selected' = Null
  /\ edited' = Null /\ draft' = Null /\ saving' = FALSE /\ saved' = 0 /\ overlapped' = FALSE

Opened == page = "module"
RowOf(sel, table, s) ==
  IF sel # Null /\ table # Null /\ sel.section = s /\ Exists(table.rows, sel.record)
  THEN sel.record ELSE Null
SelectedRow == RowOf(selected, data, section)
DialogShown == SelectedRow # Null /\ edited # Null
Loads == {c \in calls : c.visit = visit /\ c.kind = "load"}

(* RecordFormDialog takes its draft when it is mounted and keeps it until  *)
(* it is unmounted.                                                        *)
Render ==
  draft' = IF RowOf(selected', data', section') = Null \/ edited' = Null THEN Null
           ELSE IF draft = Null THEN edited' ELSE draft

-----------------------------------------------------------------------------
(* load *)
LoadData ==
  /\ dataState' = "loading" /\ Send(Load("refresh"))
  /\ overlapped' = (overlapped \/ Loads # {})

RefreshData ==
  /\ Opened /\ SelectedRow = Null /\ dataState # "loading"
  /\ LoadData
  /\ UNCHANGED <<server, route, section, data, selected, edited, draft, saving, saved>>

DataArrives(c) ==
  /\ Opened /\ Mine(c) /\ c.kind = "load" /\ Done(c)
  /\ IF c.answer.ok THEN data' = [at |-> c.answer.at, rows |-> c.answer.rows] /\ dataState' = "ready"
     ELSE dataState' = "error" /\ UNCHANGED data
  /\ UNCHANGED <<server, route, section, selected, edited, saving, saved, overlapped>>
  /\ Render

-----------------------------------------------------------------------------
(* Rows, details and the editor.                                           *)

ChangeSection(s) ==
  /\ Opened /\ s # section /\ section' = s
  /\ UNCHANGED <<server, network, route, data, dataState, selected, edited, saving, saved, overlapped>>
  /\ Render

OpenDetail(r) ==
  /\ Opened /\ SelectedRow = Null /\ dataState = "ready"
  /\ Exists(data.rows, r) /\ ResourceOf(r) = section
  /\ selected' = [section |-> section, record |-> r]
  /\ UNCHANGED <<server, network, route, section, data, dataState, edited, saving, saved, overlapped>>
  /\ Render

Back ==
  /\ Opened /\ SelectedRow # Null /\ ~DialogShown /\ selected' = Null
  /\ UNCHANGED <<server, network, route, section, data, dataState, edited, draft, saving, saved, overlapped>>

EditDetail ==
  /\ Opened /\ SelectedRow # Null /\ ~DialogShown
  /\ edited' = [record |-> SelectedRow, base |-> data.rows[SelectedRow]]
  /\ UNCHANGED <<server, network, route, section, data, dataState, selected, saving, saved, overlapped>>
  /\ Render

CloseDialog ==
  /\ Opened /\ DialogShown /\ ~saving /\ edited' = Null /\ draft' = Null
  /\ UNCHANGED <<server, network, route, section, data, dataState, selected, saving, saved, overlapped>>

(* saveEdit up to its first answer: the record is the editor's, the fields *)
(* are the draft's.                                                        *)
SaveEdit ==
  /\ Opened /\ DialogShown /\ ~saving /\ saving' = TRUE
  /\ Send(Call("edit", "save", edited.record, draft.base))
  /\ UNCHANGED <<server, route, section, data, dataState, selected, edited, draft, saved, overlapped>>

(* Mutant: the page stays busy when a save fails.                          *)
SaveHangs(c) ==
  /\ Opened /\ Mine(c) /\ c.kind = "edit"
  /\ IF c.answer.ok
     THEN /\ edited' = Null /\ draft' = Null /\ saving' = FALSE /\ saved' = c.answer.at
          /\ dataState' = "loading" /\ SendAfter(c, Load("refresh"))
          /\ overlapped' = (overlapped \/ Loads # {})
     ELSE Done(c) /\ UNCHANGED <<saving, edited, draft, saved, dataState, overlapped>>
  /\ UNCHANGED <<server, route, section, data, selected>>

(* Mutant: a save is not followed by a load.                               *)
SaveWithoutLoad(c) ==
  /\ Opened /\ Mine(c) /\ c.kind = "edit" /\ saving' = FALSE /\ Done(c)
  /\ IF c.answer.ok THEN edited' = Null /\ draft' = Null /\ saved' = c.answer.at
     ELSE UNCHANGED <<edited, draft, saved>>
  /\ UNCHANGED <<server, route, section, data, selected, dataState, overlapped>>

SaveArrives(c) ==
  /\ Opened /\ Mine(c) /\ c.kind = "edit" /\ saving' = FALSE
  /\ IF c.answer.ok
     THEN /\ edited' = Null /\ draft' = Null /\ saved' = c.answer.at
          /\ dataState' = "loading" /\ SendAfter(c, Load("refresh"))
          /\ overlapped' = (overlapped \/ Loads # {})
     ELSE Done(c) /\ UNCHANGED <<edited, draft, saved, dataState, overlapped>>
  /\ UNCHANGED <<server, route, section, data, selected>>

ModuleNext ==
  \/ RefreshData \/ Back \/ EditDetail \/ CloseDialog \/ SaveEdit
  \/ \E s \in Sections : ChangeSection(s)
  \/ \E r \in Records : OpenDetail(r)
  \/ \E c \in calls : DataArrives(c) \/ SaveArrives(c)

-----------------------------------------------------------------------------
ModuleTypeOK ==
  /\ section \in Sections /\ dataState \in {"loading", "ready", "error"}
  /\ data # Null => data.at \in 0..clock
  /\ selected # Null => selected.section \in Sections /\ selected.record \in Records
  /\ saving \in BOOLEAN /\ overlapped \in BOOLEAN /\ saved \in 0..clock

(* Once everything is answered, a page that reports no error shows every   *)
(* save the server confirmed to it; only where two of its loads overlapped *)
(* may the older one have been shown last.  A save writes the draft of the *)
(* record it names, whichever rows, details and sections were shown        *)
(* meanwhile.                                                              *)
ModuleShowsItsSaves ==
  Opened =>
    /\ dataState = "ready" /\ Loads = {} /\ ~overlapped => data.at >= saved
    /\ draft # Null => edited = draft
    /\ dataState = "loading" => Loads # {}
    /\ saving = (\E c \in calls : c.visit = visit /\ c.kind = "edit")
=============================================================================
