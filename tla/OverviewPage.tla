----------------------------- MODULE OverviewPage -----------------------------
(***************************************************************************)
(* The dashboard page (OverviewPage.tsx, dashboardApi.ts) in a tab with a  *)
(* session: an effect loads the dashboard of a device and a range whenever *)
(* one of them or the reload key changes, and aborts the load before.  The *)
(* first load names no device and learns one from its answer.              *)
(*                                                                         *)
(* An abort before the headers of an answer have come rejects the call and *)
(* is ignored.  Once the body is being read the abort makes it break off   *)
(* as a lost connection does, and parseResponse turns that into an         *)
(* undefined answer which the page takes for a dashboard.                  *)
(***************************************************************************)
EXTENDS BrowserSession

CONSTANTS
  Ranges, FirstRange,
  DevicesOf(_),     \* the devices a user sees, the first of them first
  MaxLoads,         \* bound
  Undefined

Visible(who) == IF who = Null THEN {} ELSE {DevicesOf(who)[k] : k \in DOMAIN DevicesOf(who)}
DeviceIds == UNION {Visible(u) : u \in Users}
Dashboards ==
  [owner : Users, range : Ranges, device : DeviceIds \cup {Null}, selected : DeviceIds \cup {Null}]

ASSUME OverviewAssumption ==
  /\ FirstRange \in Ranges
  /\ \A u \in Users : Visible(u) = {} \/ 1 \in DOMAIN DevicesOf(u)
  /\ Undefined # Null /\ {Null, Undefined} \cap Dashboards = {}

VARIABLES
  mounted,
  range, deviceId,
  dashboard,        \* Null, Undefined or [owner, range, device, selected]
  loadState,        \* "loading", "ready" or "error"
  loads, loadsSent,
  crashed,          \* whether a render failed, which unmounts the application
  pressedAgain      \* whether the range that was shown has been pressed since the last load

selection == <<range, deviceId>>
shown == <<dashboard, loadState>>
overviewVars == <<mounted, selection, shown, loads, loadsSent, crashed, pressedAgain>>

Default(who) == IF Visible(who) = {} THEN Null ELSE DevicesOf(who)[1]

Asked(n, r, d) == [n |-> n, range |-> r, device |-> d, phase |-> "asked", owner |-> Null, selected |-> Null]

(* Mutant: the effect has no cleanup.                                      *)
KeepAll == loads

(* The cleanup of the effect: AbortController.abort.                       *)
Aborted ==
  {[l EXCEPT !.phase = "undefined"] : l \in {m \in loads : m.phase \in {"body", "undefined"}}}

Effect(r, d) ==
  /\ loadsSent < MaxLoads /\ loadsSent' = loadsSent + 1
  /\ loads' = Aborted \cup {Asked(loadsSent + 1, r, d)}
  /\ range' = r /\ deviceId' = d /\ pressedAgain' = FALSE

OverviewInit ==
  /\ mounted = FALSE /\ range = FirstRange /\ deviceId = Null /\ dashboard = Null
  /\ loadState = "loading" /\ loads = {} /\ loadsSent = 0 /\ crashed = FALSE /\ pressedAgain = FALSE

Mount ==
  /\ ~mounted /\ mounted' = TRUE /\ Effect(FirstRange, Null)
  /\ dashboard' = Null /\ loadState' = "loading" /\ UNCHANGED crashed

(* Nothing that was asked for reaches a page that is gone.                 *)
Unmount ==
  /\ mounted' = FALSE /\ loads' = {} /\ range' = FirstRange /\ deviceId' = Null
  /\ dashboard' = Null /\ loadState' = "loading" /\ pressedAgain' = FALSE /\ UNCHANGED <<loadsSent, crashed>>

-----------------------------------------------------------------------------
(* changeRange: the pressed button sets the same range, which asks for     *)
(* nothing.                                                                *)
ChangeRange(r) ==
  /\ mounted /\ loadState' = "loading"
  /\ IF r = range THEN pressedAgain' = TRUE /\ UNCHANGED <<selection, loads, loadsSent>>
     ELSE Effect(r, deviceId)
  /\ UNCHANGED <<mounted, dashboard, crashed>>

ChangeDevice(d) ==
  /\ mounted /\ loadState # "loading" /\ dashboard \notin {Null, Undefined} /\ d # deviceId
  /\ d \in Visible(dashboard.owner) /\ d # dashboard.selected
  /\ loadState' = "loading" /\ Effect(range, d)
  /\ UNCHANGED <<mounted, dashboard, crashed>>

(* The refresh button, and the one of an error.                            *)
RefreshDashboard ==
  /\ mounted /\ loadState # "loading"
  /\ loadState' = "loading" /\ Effect(range, deviceId)
  /\ UNCHANGED <<mounted, dashboard, crashed>>

-----------------------------------------------------------------------------
LoadTo(l, m) == loads' = (loads \ {l}) \cup {m}
               /\ UNCHANGED <<mounted, selection, shown, loadsSent, crashed, pressedAgain>>

(* get_dashboard: there is no answer for a device that is not visible.     *)
LoadServed(l) ==
  /\ l.phase = "asked" /\ cookie # Null /\ l.device \in Visible(cookie) \cup {Null}
  /\ LoadTo(l, [l EXCEPT !.phase = "body", !.owner = cookie,
                         !.selected = IF l.device = Null THEN Default(cookie) ELSE l.device])

(* The first answer selects a device, and with it loads again.             *)
DashboardArrives(l) ==
  /\ l.phase = "body"
  /\ dashboard' = [owner |-> l.owner, range |-> l.range, device |-> l.device, selected |-> l.selected]
  /\ loadState' = "ready"
  /\ IF l.device = Null /\ l.selected # Null
     THEN /\ loadsSent < MaxLoads /\ loadsSent' = loadsSent + 1 /\ deviceId' = l.selected
          /\ loads' = (loads \ {l}) \cup {Asked(loadsSent + 1, range, l.selected)}
          /\ UNCHANGED range /\ pressedAgain' = FALSE
     ELSE loads' = loads \ {l} /\ UNCHANGED <<selection, loadsSent, pressedAgain>>
  /\ UNCHANGED <<mounted, crashed>>

(* The body broke off.  With a device the tabs of undefined are read while *)
(* rendering; without one its selectedDeviceId is read in the handler,     *)
(* which is an error.                                                      *)
UndefinedArrives(l) ==
  /\ l.phase \in {"body", "undefined"} /\ loads' = loads \ {l} /\ dashboard' = Undefined
  /\ IF l.device = Null THEN loadState' = "error" /\ UNCHANGED crashed
     ELSE loadState' = "ready" /\ crashed' = TRUE
  /\ UNCHANGED <<mounted, selection, loadsSent, pressedAgain>>

(* Refused (no session, no such device), or no answer at all.              *)
LoadFails(l) ==
  /\ l.phase = "asked" /\ loads' = loads \ {l} /\ loadState' = "error"
  /\ UNCHANGED <<mounted, selection, dashboard, loadsSent, crashed, pressedAgain>>

OverviewClicked ==
  \/ RefreshDashboard
  \/ \E r \in Ranges : ChangeRange(r)
  \/ \E d \in DeviceIds : ChangeDevice(d)
LoadProceeds(l) == LoadServed(l) \/ LoadFails(l) \/ DashboardArrives(l) \/ UndefinedArrives(l)

-----------------------------------------------------------------------------
LoadRow ==
  [n : Nat, range : Ranges, device : DeviceIds \cup {Null},
   phase : {"asked", "body", "undefined"}, owner : Users \cup {Null},
   selected : DeviceIds \cup {Null}]

OverviewTypeOK ==
  /\ mounted \in BOOLEAN /\ range \in Ranges /\ deviceId \in DeviceIds \cup {Null}
  /\ dashboard \in Dashboards \cup {Null, Undefined}
  /\ loadState \in {"loading", "ready", "error"}
  /\ loadsSent \in Nat /\ crashed \in BOOLEAN /\ pressedAgain \in BOOLEAN
  /\ loads \subseteq LoadRow
  /\ \A l \in loads : l.phase = "body" => l.owner \in Users

Intact == ~crashed /\ dashboard # Undefined

(* A dashboard that is ready answers what is selected: whatever ranges and *)
(* devices were chosen while earlier loads were under way, none of their   *)
(* answers is shown under a later choice.  And a dashboard that is loading *)
(* waits for a load: only the range that is already selected, pressed      *)
(* again, leaves it waiting for nothing.                                   *)
ReadyIsCurrent ==
  mounted /\ Intact =>
    /\ loadState = "loading" => loads # {} \/ pressedAgain
    /\ loadState = "ready" /\ loads = {} =>
         /\ dashboard # Null
         /\ dashboard.range = range /\ dashboard.device = deviceId
         /\ deviceId = Null => dashboard.selected = Null
=============================================================================
