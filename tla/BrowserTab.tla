------------------------------ MODULE BrowserTab ------------------------------
(***************************************************************************)
(* One tab: the session decides whether a page is mounted at all (App.tsx),*)
(* and here the page is the dashboard or another one.                      *)
(***************************************************************************)
EXTENDS OverviewPage

vars == <<sessionVars, overviewVars>>

Init == SessionInit /\ OverviewInit

SignedIn == status = "authenticated" /\ user # Null

(* Mutant: the pages stay when the session ends.                           *)
PagesStay == UNCHANGED overviewVars

(* A change of the session that ends it unmounts the pages.                *)
Pages == IF status' = "authenticated" /\ user' # Null THEN UNCHANGED overviewVars ELSE Unmount

Session ==
  /\ ~crashed
  /\ Clicked \/ Elsewhere \/ \E c \in calls : CallProceeds(c)
  /\ Pages

Reloaded == Reload /\ mounted' = FALSE /\ loads' = {} /\ range' = FirstRange /\ deviceId' = Null
            /\ dashboard' = Null /\ loadState' = "loading" /\ pressedAgain' = FALSE
            /\ crashed' = FALSE /\ UNCHANGED loadsSent

(* The route: the dashboard or another page.                               *)
GoTo == ~crashed /\ SignedIn /\ (Mount \/ (mounted /\ Unmount)) /\ UNCHANGED sessionVars

Overview ==
  /\ ~crashed /\ UNCHANGED sessionVars
  /\ OverviewClicked \/ \E l \in loads : LoadProceeds(l)

Next == Session \/ Reloaded \/ GoTo \/ Overview

Spec == Init /\ [][Next]_vars

TypeOK == SessionTypeOK /\ OverviewTypeOK /\ (mounted => SignedIn)

(* What the page shows belongs to the user the tab names, also when one    *)
(* user follows another in the same tab, unless another tab changed the    *)
(* cookies.                                                                *)
ShownDataIsMine ==
  mounted /\ Intact /\ ~disturbed /\ ~truncated /\ dashboard # Null => dashboard.owner = user

(* An aborted load changes nothing: the page returns from an AbortError    *)
(* without touching its state (OverviewPage.tsx:57-62).                    *)
AbortedIsIgnored ==
  [][mounted' => \A l \in loads \ loads' : l.phase = "undefined" => UNCHANGED shown]_vars
=============================================================================
