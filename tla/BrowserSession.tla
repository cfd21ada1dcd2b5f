---------------------------- MODULE BrowserSession ----------------------------
(***************************************************************************)
(* The session of one browser tab: AuthProvider.tsx, LoginPage.tsx and     *)
(* SidebarAccount.tsx over apiRequest of http.ts, which fetches a CSRF     *)
(* token before the first call that changes something and keeps it.  The   *)
(* cookies are shared with other tabs, and Django makes a new secret at    *)
(* every login.  AppShell.tsx mounts two accounts with a logout button     *)
(* each, and only the width of the window says which of them is shown.     *)
(*                                                                         *)
(* A call waits for a token ("csrf", "token"), is on its way ("sent") and  *)
(* is answered; a body that breaks off while it is read is undefined to    *)
(* the caller (parseResponse), although the call succeeded.                *)
(***************************************************************************)
EXTENDS Naturals

CONSTANTS
  Users,
  Accounts,               \* what AppShell mounts: the sidebar's and the one of mobile navigation
  MaxCalls, MaxSecrets,   \* bounds
  Null

ASSUME SessionAssumption == Null \notin Users

VARIABLES
  cookie,      \* the user of the session in the browser's cookies, or Null
  secret,      \* the CSRF secret in the cookies
  csrfToken,   \* the secret of the token http.ts keeps, or Null
  status, user,
  submitting,
  loggingOut,  \* loggingOut[a]: the number of the logout that account a waits for, or 0
  calls, sent,
  disturbed,   \* whether the cookies changed without this tab
  crossed,     \* whether a token was fetched across a login
  truncated,   \* whether a body broke off
  overtaken    \* whether a login began before a logout was over

cookies == <<cookie, secret>>
account == <<status, user>>
busy == <<submitting, loggingOut>>
network == <<calls, sent>>
history == <<disturbed, crossed, truncated, overtaken>>
sessionVars == <<cookies, csrfToken, account, busy, network, history>>

Call(kind, who) ==
  [n |-> sent + 1, kind |-> kind, who |-> who, answer |-> Null, token |-> csrfToken,
   phase |-> IF kind = "me" \/ csrfToken # Null THEN "sent" ELSE "csrf"]
Begin(kind, who) ==
  sent < MaxCalls /\ sent' = sent + 1 /\ calls' = calls \cup {Call(kind, who)}
To(c, d) == calls' = (calls \ {c}) \cup {d} /\ UNCHANGED sent
Answered(c, answer) == To(c, [c EXCEPT !.phase = "answered", !.answer = answer])
Over(c) == calls' = calls \ {c} /\ UNCHANGED sent
AuthCalls == {c \in calls : c.kind \in {"me", "login", "logout"}}
Logouts == {c \in calls : c.kind = "logout"}
Idle == [a \in Accounts |-> 0]

SessionInit ==
  /\ cookie \in Users \cup {Null} /\ secret = 0 /\ csrfToken = Null
  /\ status = "loading" /\ user = Null /\ submitting = FALSE /\ loggingOut = Idle
  /\ calls = {[n |-> 1, kind |-> "me", who |-> Null, answer |-> Null, token |-> Null,
               phase |-> "sent"]}
  /\ sent = 1 /\ disturbed = FALSE /\ crossed = FALSE /\ truncated = FALSE /\ overtaken = FALSE

(* The page is loaded again: the effect of AuthProvider asks who is there. *)
Reload ==
  /\ sent < MaxCalls /\ sent' = sent + 1
  /\ calls' = {[Call("me", Null) EXCEPT !.token = Null]}
  /\ csrfToken' = Null /\ status' = "loading" /\ user' = Null
  /\ submitting' = FALSE /\ loggingOut' = Idle
  /\ disturbed' = FALSE /\ crossed' = FALSE /\ truncated' = FALSE /\ overtaken' = FALSE
  /\ UNCHANGED cookies

-----------------------------------------------------------------------------
(* What is clicked.                                                        *)

LoadSession ==
  /\ status = "error" /\ status' = "loading" /\ Begin("me", Null)
  /\ UNCHANGED <<cookies, csrfToken, user, busy, history>>

(* Mutant: the form may be submitted while it is being submitted.          *)
LogInAgain(who) ==
  /\ status = "anonymous" /\ submitting' = TRUE /\ Begin("login", who)
  /\ overtaken' = (overtaken \/ Logouts # {})
  /\ UNCHANGED <<cookies, csrfToken, account, loggingOut, disturbed, crossed, truncated>>

LogIn(who) ==
  /\ status = "anonymous" /\ ~submitting /\ submitting' = TRUE /\ Begin("login", who)
  /\ overtaken' = (overtaken \/ Logouts # {})
  /\ UNCHANGED <<cookies, csrfToken, account, loggingOut, disturbed, crossed, truncated>>

(* An account disables its own button only: after a resize the other one   *)
(* may be pressed too.                                                     *)
LogOut(a) ==
  /\ status = "authenticated" /\ user # Null
  /\ loggingOut[a] = 0 /\ loggingOut' = [loggingOut EXCEPT ![a] = sent + 1]
  /\ Begin("logout", Null)
  /\ UNCHANGED <<cookies, csrfToken, account, submitting, history>>

(* Any other call that changes something; its page may be left before it   *)
(* is answered.                                                            *)
Save ==
  /\ status = "authenticated" /\ user # Null /\ ~\E c \in calls : c.kind = "save"
  /\ Begin("save", Null)
  /\ UNCHANGED <<cookies, csrfToken, account, busy, history>>

-----------------------------------------------------------------------------
(* ensureCsrfToken: two calls may both fetch a token.                      *)
CsrfServed(c) ==
  /\ c.phase = "csrf" /\ To(c, [c EXCEPT !.phase = "token", !.token = secret])
  /\ UNCHANGED <<cookies, csrfToken, account, busy, history>>
CsrfArrives(c) ==
  /\ c.phase = "token" /\ To(c, [c EXCEPT !.phase = "sent"]) /\ csrfToken' = c.token
  /\ UNCHANGED <<cookies, account, busy, history>>

(* The server: who the caller is, or why not.                              *)
Yes(who) == [ok |-> TRUE, who |-> who, status |-> 200]
No(code) == [ok |-> FALSE, who |-> Null, status |-> code]

Serve(c) ==
  /\ c.phase = "sent"
  /\ IF c.kind = "me"
     THEN Answered(c, IF cookie = Null THEN No(401) ELSE Yes(cookie)) /\ UNCHANGED <<cookies, crossed>>
     ELSE IF c.token # secret THEN Answered(c, No(403)) /\ UNCHANGED <<cookies, crossed>>
     ELSE IF c.kind = "login"
     THEN /\ secret < MaxSecrets /\ secret' = secret + 1 /\ cookie' = c.who
          /\ Answered(c, Yes(c.who))
          /\ crossed' = (crossed \/ \E d \in calls \ {c} : d.phase = "token")
     ELSE IF cookie = Null THEN Answered(c, No(401)) /\ UNCHANGED <<cookies, crossed>>
     ELSE /\ Answered(c, Yes(cookie))
          /\ cookie' = IF c.kind = "logout" THEN Null ELSE cookie
          /\ UNCHANGED <<secret, crossed>>
  /\ UNCHANGED <<csrfToken, account, busy, disturbed, truncated, overtaken>>

(* A logout whose answer is lost, another tab that logs in or out, a       *)
(* session that expires; once between two reloads of the tab.              *)
Elsewhere ==
  /\ ~disturbed
  /\ \/ \E who \in Users :
          secret < MaxSecrets /\ secret' = secret + 1 /\ cookie' = who /\ UNCHANGED network
     \/ cookie # Null /\ cookie' = Null /\ UNCHANGED <<secret, network>>
     \/ \E c \in calls :
          /\ c.kind = "logout" /\ c.phase = "sent" /\ c.token = secret /\ cookie # Null
          /\ Answered(c, No(0)) /\ cookie' = Null /\ UNCHANGED secret
  /\ disturbed' = TRUE
  /\ UNCHANGED <<csrfToken, account, busy, crossed, truncated, overtaken>>

-----------------------------------------------------------------------------
(* The answers: what the tab does with each.                               *)

MeOver(c, answer) ==
  /\ Over(c)
  /\ user' = answer.who
  /\ status' = IF answer.ok THEN "authenticated"
               ELSE IF answer.status = 401 THEN "anonymous" ELSE "error"
  /\ UNCHANGED <<cookies, csrfToken, busy, history>>

(* Mutant: the token of before the login is kept.                          *)
LogInKeepsToken(c, answer) ==
  /\ Over(c) /\ submitting' = FALSE
  /\ IF answer.ok THEN user' = answer.who /\ status' = "authenticated" ELSE UNCHANGED account
  /\ UNCHANGED <<cookies, csrfToken, loggingOut, history>>

LogInOver(c, answer) ==
  /\ Over(c) /\ submitting' = FALSE
  /\ IF answer.ok
     THEN csrfToken' = Null /\ user' = answer.who /\ status' = "authenticated"
     ELSE UNCHANGED <<csrfToken, account>>
  /\ UNCHANGED <<cookies, loggingOut, history>>

(* A logout that succeeds unmounts both accounts, and with them what they  *)
(* wait for; the other logout goes on and may come to its end later, in    *)
(* whatever state the tab is then.                                         *)
LogOutOver(c, answer) ==
  /\ Over(c)
  /\ IF answer.ok
     THEN csrfToken' = Null /\ user' = Null /\ status' = "anonymous" /\ loggingOut' = Idle
     ELSE /\ loggingOut' = [a \in Accounts |-> IF loggingOut[a] = c.n THEN 0 ELSE loggingOut[a]]
          /\ UNCHANGED <<csrfToken, account>>
  /\ UNCHANGED <<cookies, submitting, history>>

SaveOver(c) == Over(c) /\ UNCHANGED <<cookies, csrfToken, account, busy, history>>

Ends(c, answer) ==
  \/ c.kind = "me" /\ MeOver(c, answer)
  \/ c.kind = "login" /\ LogInOver(c, answer)
  \/ c.kind = "logout" /\ LogOutOver(c, answer)
  \/ c.kind = "save" /\ SaveOver(c)

Arrives(c) == c.phase = "answered" /\ Ends(c, c.answer)

(* A wrong password, an error of the server or of the network.             *)
Fails(c) == c.phase # "answered" /\ Ends(c, No(IF c.kind = "login" THEN 401 ELSE 0))

(* parseResponse returns undefined when the body cannot be read.           *)
BodyBreaksOff(c) ==
  /\ c.phase = "answered" /\ c.kind \in {"me", "login"} /\ c.answer.ok
  /\ ~truncated /\ To(c, [c EXCEPT !.answer.who = Null])
  /\ truncated' = TRUE
  /\ UNCHANGED <<cookies, csrfToken, account, busy, disturbed, crossed, overtaken>>

Clicked ==
  LoadSession \/ Save \/ (\E a \in Accounts : LogOut(a)) \/ (\E who \in Users : LogIn(who))
CallProceeds(c) ==
  CsrfServed(c) \/ CsrfArrives(c) \/ Serve(c) \/ BodyBreaksOff(c) \/ Arrives(c) \/ Fails(c)

-----------------------------------------------------------------------------
(* Types.                                                                  *)
Answers == [ok : BOOLEAN, who : Users \cup {Null}, status : Nat]
CallRow ==
  [n : Nat, kind : {"me", "login", "logout", "save"}, who : Users \cup {Null},
   answer : Answers \cup {Null}, token : Nat \cup {Null},
   phase : {"csrf", "token", "sent", "answered"}]

SessionTypeOK ==
  /\ cookie \in Users \cup {Null} /\ secret \in Nat /\ csrfToken \in Nat \cup {Null}
  /\ status \in {"loading", "authenticated", "anonymous", "error"}
  /\ user \in Users \cup {Null}
  /\ submitting \in BOOLEAN /\ loggingOut \in [Accounts -> Nat]
  /\ sent \in Nat
  /\ calls \subseteq CallRow
  /\ \A c \in calls : c.phase = "answered" => c.answer \in Answers

(* Two accounts may log out at once, and a logout may outlive its session, *)
(* but nothing else overlaps: restoring a session overlaps neither a login *)
(* nor a logout, and there is one login at a time, so no late answer of    *)
(* one names another user than the last.  And nothing waits in vain: a     *)
(* session that is being restored, a form and each button that are busy    *)
(* have a call of their own under way whose answer or failure ends the     *)
(* wait.                                                                   *)
OnlyLogoutsOverlap ==
  /\ \A c, d \in AuthCalls \ Logouts : c = d
  /\ Logouts # {} => status \in {"authenticated", "anonymous"}
  /\ status = "loading" <=> \E c \in calls : c.kind = "me"
  /\ submitting <=> \E c \in calls : c.kind = "login"
  /\ submitting => status = "anonymous"
  /\ \A a \in Accounts : loggingOut[a] # 0 =>
       status = "authenticated" /\ \E c \in Logouts : c.n = loggingOut[a]

(* While nobody else touches the cookies, a tab that waits for no answer   *)
(* shows the user its session is of, and the token it keeps is one the     *)
(* server still takes.  Only a second logout that the next login overtook  *)
(* may have ended that session behind the tab's back.                      *)
TabAgrees ==
  ~disturbed /\ ~truncated =>
    /\ AuthCalls = {} /\ status # "error" =>
         /\ user = cookie \/ (overtaken /\ cookie = Null)
         /\ status = "authenticated" <=> user # Null
    /\ ~crossed /\ AuthCalls = {} => csrfToken \in {Null, secret}
=============================================================================
