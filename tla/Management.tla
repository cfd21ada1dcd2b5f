------------------------------ MODULE Management ------------------------------
(***************************************************************************)
(* The management API as the pages of one browser tab see it               *)
(* (managementApi.ts over apiRequest in http.ts): calls that are answered  *)
(* late, in any order, or fail with or without effect; other               *)
(* administrators who change the same records; and the route that decides  *)
(* which page is mounted (App.tsx).                                        *)
(*                                                                         *)
(* A row is whether its record exists, the number of the write that left   *)
(* it as it is and the visit that wrote it; Other is everybody else.  The  *)
(* snapshot a load returns is read at once, although the server runs a     *)
(* query per table.                                                        *)
(* A visit is a mount of a page.  React ignores what a component that is   *)
(* unmounted sets, so an answer to an earlier visit changes nothing.       *)
(***************************************************************************)
EXTENDS Naturals, FiniteSets

CONSTANTS
  Records,          \* primary keys, each of one resource
  ResourceOf(_),    \* the resource of a record
  Initially,        \* the records that exist at first
  MaxWrites, MaxCalls, MaxVisits,  \* bounds
  Null

VARIABLES
  rows,     \* rows[r]: [is |-> "unused", "live" or "gone", v |-> write, by |-> visit]
  tokens,   \* tokens[r]: the same for the ingest token of gateway r
  clock,    \* writes so far
  calls,    \* calls of this tab that are under way
  sent,     \* calls so far
  page,     \* the page that is mounted
  visit

server == <<rows, tokens, clock>>
network == <<calls, sent>>
route == <<page, visit>>

Other == 0
Resources == {ResourceOf(r) : r \in Records}
Row(is, v, by) == [is |-> is, v |-> v, by |-> by]
Exists(table, r) == table[r].is = "live"
Failed == [ok |-> FALSE]

ManagementInit ==
  /\ rows = [r \in Records |-> Row(IF r \in Initially THEN "live" ELSE "unused", 0, Other)]
  /\ tokens = [r \in Records |-> Row("live", 0, Other)]
  /\ clock = 0 /\ calls = {} /\ sent = 0 /\ page = "elsewhere" /\ visit = 0

-----------------------------------------------------------------------------
(* kind: what is asked; for: why a load is made; base: the write the draft *)
(* of a save was made from; abort: whether leaving the page cancels it.    *)
Call(kind, for, record, base) ==
  [n |-> sent + 1, visit |-> visit, kind |-> kind, for |-> for,
   record |-> record, base |-> base, answer |-> Null]
Load(for) == Call("load", for, Null, Null)

Send(call) ==
  /\ sent < MaxCalls /\ sent' = sent + 1
  /\ calls' = calls \cup {call}

(* The call that follows call c in the same asynchronous function.         *)
SendAfter(c, call) ==
  /\ sent < MaxCalls /\ sent' = sent + 1
  /\ calls' = (calls \ {c}) \cup {call}

Done(c) == calls' = calls \ {c} /\ UNCHANGED sent

Mine(c) == c \in calls /\ c.visit = visit /\ c.answer # Null
Answered(c, answer) == calls' = (calls \ {c}) \cup {[c EXCEPT !.answer = answer]}

Write(c) == clock < MaxWrites /\ clock' = clock + 1
Stamp(is, c) == Row(is, clock + 1, c.visit)

(* The server answers; an edit is refused if its record is gone, and may   *)
(* be refused for reasons of its own.                                      *)
Serve(c) ==
  /\ c.answer = Null
  /\ CASE c.kind = "load" ->
            Answered(c, [ok |-> TRUE, at |-> clock, rows |-> rows]) /\ UNCHANGED server
       [] c.kind \in {"edit", "delete", "create"} ->
            \E r \in Records :
              /\ IF c.kind = "create" THEN rows[r].is = "unused" /\ ResourceOf(r) = c.record
                 ELSE r = c.record /\ Exists(rows, r)
              /\ Write(c)
              /\ rows' = [rows EXCEPT ![r] = Stamp(IF c.kind = "delete" THEN "gone" ELSE "live", c)]
              /\ Answered(c, [ok |-> TRUE, at |-> clock + 1]) /\ UNCHANGED tokens
       [] c.kind = "rotate" ->
            /\ Exists(rows, c.record)
            /\ Write(c) /\ tokens' = [tokens EXCEPT ![c.record] = Stamp("live", c)]
            /\ Answered(c, [ok |-> TRUE, at |-> clock + 1]) /\ UNCHANGED rows
       [] c.kind = "password" -> Answered(c, [ok |-> TRUE, at |-> clock]) /\ UNCHANGED server
  /\ UNCHANGED <<sent, route>>

(* An error answer, a network error, or an answer lost on its way.  What   *)
(* takes effect after its caller was told of a failure is the write of     *)
(* somebody this visit knows nothing of: OtherAdministrator.               *)
(*                                                                         *)
(* A body that breaks off after its headers is no failure to apiRequest,   *)
(* which returns undefined.  Nobody reads what an edit answers (Serve); a  *)
(* token that is undefined throws in its caller (Fail after Serve).  Left  *)
(* out is an undefined snapshot: the workspace breaks at its next          *)
(* rendering, and a module page has no rows until it loads again.          *)
Fail(c) ==
  /\ c.answer # Failed
  /\ Answered(c, Failed)
  /\ UNCHANGED <<server, sent, route>>

(* Another administrator, another tab or a script.                         *)
OtherAdministrator ==
  /\ clock < MaxWrites /\ clock' = clock + 1
  /\ \E r \in Records :
       /\ Exists(rows, r)
       /\ \/ /\ \E is \in {"live", "gone"} : rows' = [rows EXCEPT ![r] = Row(is, clock + 1, Other)]
             /\ UNCHANGED tokens
          \/ tokens' = [tokens EXCEPT ![r] = Row("live", clock + 1, Other)] /\ UNCHANGED rows
  /\ UNCHANGED <<network, route>>

(* What an earlier visit asked for is answered to nobody.                  *)
Forget(c) ==
  /\ c \in calls /\ c.visit # visit /\ c.answer # Null /\ Done(c)
  /\ UNCHANGED <<server, route>>

(* A page is mounted.  The first load of the page before is aborted; its   *)
(* other calls go on.                                                      *)
Mount(p) ==
  /\ visit < MaxVisits /\ visit' = visit + 1
  /\ page # p /\ page' = p
  /\ LET kept == {c \in calls : c.for # "mount"}
     IN IF p = "elsewhere" THEN calls' = kept /\ UNCHANGED sent
        ELSE /\ sent < MaxCalls /\ sent' = sent + 1
             /\ calls' = kept \cup {[Load("mount") EXCEPT !.visit = visit + 1]}
=============================================================================
