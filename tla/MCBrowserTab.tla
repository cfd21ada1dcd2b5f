----------------------------- MODULE MCBrowserTab -----------------------------
(* Alice sees two devices, Bob none.                                       *)
EXTENDS BrowserTab, TLC

MCDevicesOf(u) == IF u = "alice" THEN <<"d1", "d2">> ELSE <<>>

(* The session and the dashboard call to their own bounds; the last call   *)
(* of the session (a login overtakes a second logout) leaves room for one  *)
(* load.                                                                   *)
Bounded == sent < MaxCalls \/ loadsSent <= 1

(* The two accounts do the same.                                           *)
Symmetry == Permutations(Accounts)
=============================================================================
