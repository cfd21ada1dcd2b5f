--------------------------- MODULE BrowserTabProofs ---------------------------
(***************************************************************************)
(* Proofs about BrowserTab, for any number of users, devices, ranges,      *)
(* calls and loads.                                                        *)
(***************************************************************************)
EXTENDS BrowserTab, TLAPS

-----------------------------------------------------------------------------
(* Types.                                                                  *)

(* What a call may do without a click.                                     *)
LEMMA CallTypes ==
  ASSUME SessionTypeOK, NEW c \in calls, CallProceeds(c)
  PROVE  SessionTypeOK'
<1> USE SessionAssumption DEF SessionTypeOK, CallRow, Answers, cookies, account, busy, network, history
<1>1. CASE CsrfServed(c) BY <1>1 DEF CsrfServed, To
<1>2. CASE CsrfArrives(c) BY <1>2 DEF CsrfArrives, To
<1>3. CASE Serve(c)
  <2>1. \A who \in Users \cup {Null}, code \in Nat : Yes(who) \in Answers /\ No(code) \in Answers
    BY DEF Yes, No
  <2>2. PICK a \in Answers : Answered(c, a)
    BY <1>3, <2>1 DEF Serve
  <2>3. cookie' \in Users \cup {Null} /\ secret' \in Nat
    BY <1>3 DEF Serve
  <2>4. [c EXCEPT !.phase = "answered", !.answer = a] \in CallRow
    OBVIOUS
  <2>5. sent' = sent /\ calls' \subseteq CallRow /\ \A d \in calls' : d.phase = "answered" => d.answer \in Answers
    BY <2>2, <2>4 DEF Answered, To
  <2>6. QED BY <1>3, <2>3, <2>5 DEF Serve
<1>4. CASE BodyBreaksOff(c)
  <2>1. c.answer \in Answers BY <1>4 DEF BodyBreaksOff
  <2>2. [c.answer EXCEPT !.who = Null] \in Answers BY <2>1
  <2>3. QED BY <1>4, <2>1, <2>2 DEF BodyBreaksOff, To
<1>5. ASSUME NEW a \in Answers, Ends(c, a) PROVE SessionTypeOK'
  <2>1. loggingOut' \in [Accounts -> Nat]
    <3>1. CASE UNCHANGED loggingOut BY <3>1
    <3>2. CASE LogOutOver(c, a)
      <4>1. \/ loggingOut' = [b \in Accounts |-> 0]
            \/ loggingOut' = [b \in Accounts |-> IF loggingOut[b] = c.n THEN 0 ELSE loggingOut[b]]
        BY <3>2 DEF LogOutOver, Idle
      <4>2. QED BY <4>1
    <3>3. QED BY <1>5, <3>1, <3>2 DEF Ends, MeOver, LogInOver, SaveOver
  <2>2. submitting' \in BOOLEAN BY <1>5 DEF Ends, MeOver, LogInOver, LogOutOver, SaveOver
  <2>3. calls' \subseteq calls /\ UNCHANGED <<cookie, secret, sent>>
    BY <1>5 DEF Ends, MeOver, LogInOver, LogOutOver, SaveOver, Over
  <2>4. /\ csrfToken' \in Nat \cup {Null} /\ user' \in Users \cup {Null}
        /\ status' \in {"loading", "authenticated", "anonymous", "error"}
    BY <1>5 DEF Ends, MeOver, LogInOver, LogOutOver, SaveOver
  <2>5. QED BY <2>1, <2>2, <2>3, <2>4
<1>6. CASE Arrives(c) BY <1>6, <1>5 DEF Arrives
<1>7. CASE Fails(c)
  <2>1. No(IF c.kind = "login" THEN 401 ELSE 0) \in Answers BY DEF No
  <2>2. QED BY <1>7, <1>5, <2>1 DEF Fails
<1>8. QED BY <1>1, <1>2, <1>3, <1>4, <1>6, <1>7 DEF CallProceeds

LEMMA ClickTypes ==
  ASSUME SessionTypeOK, Clicked \/ Elsewhere \/ Reload
  PROVE  SessionTypeOK'
<1> USE SessionAssumption DEF SessionTypeOK, CallRow, Answers, cookies, account, busy, network, history
<1>1. \A kind \in {"me", "login", "logout", "save"}, who \in Users \cup {Null} :
        Call(kind, who) \in CallRow /\ Call(kind, who).phase # "answered"
  BY DEF Call
<1>2. CASE LoadSession BY <1>1, <1>2 DEF LoadSession, Begin
<1>3. ASSUME NEW a \in Accounts, LogOut(a) PROVE SessionTypeOK' BY <1>1, <1>3 DEF LogOut, Begin
<1>4. CASE Save BY <1>1, <1>4 DEF Save, Begin
<1>5. ASSUME NEW who \in Users, LogIn(who) PROVE SessionTypeOK' BY <1>1, <1>5 DEF LogIn, Begin
<1>6. CASE Elsewhere
  <2>1. No(0) \in Answers BY DEF No
  <2>2. cookie' \in Users \cup {Null} /\ secret' \in Nat BY <1>6 DEF Elsewhere
  <2>3. ASSUME NEW c \in calls, Answered(c, No(0))
        PROVE  calls' \subseteq CallRow /\ \A d \in calls' : d.phase = "answered" => d.answer \in Answers
    BY <2>1, <2>3 DEF Answered, To
  <2>4. sent' \in Nat /\ calls' \subseteq CallRow /\ \A d \in calls' : d.phase = "answered" => d.answer \in Answers
    BY <1>6, <2>3 DEF Elsewhere, Answered, To
  <2>5. QED BY <1>6, <2>2, <2>4 DEF Elsewhere
<1>7. CASE Reload
  <2>1. Call("me", Null) \in CallRow /\ Call("me", Null).phase = "sent" BY <1>1 DEF Call
  <2>2. calls' = {[Call("me", Null) EXCEPT !.token = Null]} BY <1>7 DEF Reload
  <2>3. calls' \subseteq CallRow /\ \A d \in calls' : d.phase = "sent" BY <2>1, <2>2
  <2>4. /\ cookie' = cookie /\ secret' = secret /\ csrfToken' = Null
        /\ status' = "loading" /\ user' = Null /\ sent' = sent + 1
    BY <1>7 DEF Reload
  <2>5. submitting' = FALSE /\ loggingOut' \in [Accounts -> Nat] BY <1>7 DEF Reload, Idle
  <2>6. \A d \in calls' : d.phase = "answered" => d.answer \in Answers BY <2>3
  <2>7. submitting' \in BOOLEAN /\ loggingOut' \in [Accounts -> Nat] BY <2>5
  <2>8. cookie' \in Users \cup {Null} /\ secret' \in Nat BY <2>4
  <2>9. csrfToken' \in Nat \cup {Null} /\ user' \in Users \cup {Null} /\ sent' \in Nat BY <2>4
  <2>10. status' \in {"loading", "authenticated", "anonymous", "error"} BY <2>4
  <2> HIDE DEF CallRow, Answers
  <2>11. QED BY <2>3, <2>6, <2>7, <2>8, <2>9, <2>10
<1>8. QED BY <1>2, <1>3, <1>4, <1>5, <1>6, <1>7 DEF Clicked

-----------------------------------------------------------------------------
(* Which calls of the session may be under way together.                   *)

(* Also in the invariant: a login next to a logout has overtaken it.       *)
Exists(kind) == \E c \in calls : c.kind = kind
Overtaking == Exists("login") /\ Exists("logout") => overtaken
Separate == OnlyLogoutsOverlap /\ Overtaking

(* A call that takes another step stays a call of its kind.                *)
LEMMA SameKind ==
  ASSUME SessionTypeOK, Separate, NEW c \in calls, NEW d, d.kind = c.kind, d.n = c.n,
         To(c, d), UNCHANGED <<account, busy, overtaken>>
  PROVE  Separate'
<1> USE DEF AuthCalls, Logouts, account, busy
<1>1. calls' = (calls \ {c}) \cup {d} BY DEF To
<1>2. \A kind : (\E e \in calls' : e.kind = kind) <=> (\E e \in calls : e.kind = kind)
  BY <1>1
<1>3. \A e, f \in AuthCalls' \ Logouts' : e = f
  BY <1>1 DEF Separate, OnlyLogoutsOverlap
<1>4. \A k : (\E e \in Logouts' : e.n = k) <=> (\E e \in Logouts : e.n = k)
  BY <1>1
<1>5. Logouts' # {} <=> Logouts # {}
  BY <1>1
<1>6. status' = status /\ (submitting' <=> submitting) /\ loggingOut' = loggingOut /\ (overtaken' <=> overtaken)
  OBVIOUS
<1> HIDE DEF AuthCalls, Logouts
<1> USE DEF Separate, OnlyLogoutsOverlap
<1>7. Logouts' # {} => status' \in {"authenticated", "anonymous"} BY <1>5, <1>6
<1>8. status' = "loading" <=> \E e \in calls' : e.kind = "me"
  <2>1. status = "loading" <=> \E e \in calls : e.kind = "me" OBVIOUS
  <2>2. QED BY <2>1, <1>2, <1>6
<1>9. submitting' <=> \E e \in calls' : e.kind = "login"
  <2>1. submitting <=> \E e \in calls : e.kind = "login" OBVIOUS
  <2>2. QED BY <2>1, <1>2, <1>6
<1>10. submitting' => status' = "anonymous" BY <1>6
<1>11. \A b \in Accounts : loggingOut'[b] # 0 =>
         status' = "authenticated" /\ \E e \in Logouts' : e.n = loggingOut'[b]
  BY <1>4, <1>6
<1>12. Overtaking' BY <1>2, <1>6 DEF Overtaking, Exists
<1>13. QED BY <1>3, <1>7, <1>8, <1>9, <1>10, <1>11, <1>12

(* A call is over, and nothing waits for it any more.                      *)
LEMMA EndsSeparate ==
  ASSUME SessionTypeOK, Separate, NEW c \in calls, NEW a \in Answers, Ends(c, a)
  PROVE  Separate'
<1> USE DEF Separate, OnlyLogoutsOverlap, Overtaking, Exists, AuthCalls, Logouts, Over, account, busy, history
<1>0. calls' = calls \ {c} /\ overtaken' = overtaken
  BY DEF Ends, MeOver, LogInOver, LogOutOver, SaveOver
<1>1. CASE c.kind = "me" /\ MeOver(c, a)
  <2>1. status = "loading" /\ ~submitting /\ Logouts = {} BY <1>1
  <2>2. \A e \in calls' : e.kind \notin {"me", "login", "logout"} BY <1>0, <1>1, <2>1
  <2>3. status' # "loading" /\ ~submitting' /\ loggingOut' = loggingOut BY <1>1, <2>1 DEF MeOver
  <2>4. \A b \in Accounts : loggingOut[b] = 0 BY <2>1
  <2>5. QED BY <2>2, <2>3, <2>4
<1>2. CASE c.kind = "login" /\ LogInOver(c, a)
  <2>1. status = "anonymous" BY <1>2
  <2>2. \A e \in calls' : e.kind \notin {"me", "login"} BY <1>0, <1>2
  <2>3. status' \in {"anonymous", "authenticated"} /\ ~submitting' /\ loggingOut' = loggingOut
    BY <1>2, <2>1 DEF LogInOver
  <2>4. \A b \in Accounts : loggingOut[b] = 0 BY <2>1
  <2>5. QED BY <2>2, <2>3, <2>4
<1>3. CASE c.kind = "logout" /\ LogOutOver(c, a)
  <2>1. status \in {"authenticated", "anonymous"} BY <1>3
  <2>2. submitting' = submitting BY <1>3 DEF LogOutOver
  <2>3. \A kind \in {"me", "login"} : (\E e \in calls' : e.kind = kind) <=> (\E e \in calls : e.kind = kind)
    BY <1>0, <1>3
  <2>4. CASE a.ok
    <3>1. status' = "anonymous" /\ \A b \in Accounts : loggingOut'[b] = 0
      BY <1>3, <2>4 DEF LogOutOver, Idle
    <3>2. QED BY <1>0, <2>1, <2>2, <2>3, <3>1
  <2>5. CASE ~a.ok
    <3>1. status' = status BY <1>3, <2>5 DEF LogOutOver
    <3>2. ASSUME NEW b \in Accounts, loggingOut'[b] # 0
          PROVE  status' = "authenticated" /\ \E e \in Logouts' : e.n = loggingOut'[b]
      <4>1. loggingOut'[b] = loggingOut[b] /\ loggingOut[b] # c.n BY <1>3, <2>5, <3>2 DEF LogOutOver
      <4>2. PICK e \in Logouts : e.n = loggingOut[b] BY <3>2, <4>1
      <4>3. e \in Logouts' BY <1>0, <4>1, <4>2
      <4>4. QED BY <3>1, <3>2, <4>1, <4>2, <4>3
    <3>3. QED BY <1>0, <2>1, <2>2, <2>3, <3>1, <3>2
  <2>6. QED BY <2>4, <2>5
<1>4. CASE c.kind = "save" /\ SaveOver(c)
  <2>1. UNCHANGED <<account, busy>> BY <1>4 DEF SaveOver
  <2>2. AuthCalls' = AuthCalls /\ Logouts' = Logouts BY <1>0, <1>4
  <2>3. \A kind \in {"me", "login", "logout"} :
          (\E e \in calls' : e.kind = kind) <=> (\E e \in calls : e.kind = kind)
    BY <1>0, <1>4
  <2>4. QED BY <1>0, <2>1, <2>2, <2>3
<1>5. QED BY <1>1, <1>2, <1>3, <1>4 DEF Ends

LEMMA CallSeparate ==
  ASSUME SessionTypeOK, Separate, NEW c \in calls, CallProceeds(c)
  PROVE  Separate'
<1> USE DEF SessionTypeOK, CallRow, Answers
<1>1. CASE CsrfServed(c)
  BY <1>1, SameKind DEF CsrfServed, account, busy, history
<1>2. CASE CsrfArrives(c)
  BY <1>2, SameKind DEF CsrfArrives, account, busy, history
<1>3. CASE Serve(c)
  <2>1. PICK a : Answered(c, a) BY <1>3 DEF Serve
  <2> DEFINE d == [c EXCEPT !.phase = "answered", !.answer = a]
  <2>2. d.kind = c.kind /\ d.n = c.n OBVIOUS
  <2>3. To(c, d) BY <2>1 DEF Answered
  <2>4. UNCHANGED <<account, busy, overtaken>> BY <1>3 DEF Serve
  <2> HIDE DEF d
  <2>5. QED BY <2>2, <2>3, <2>4, SameKind
<1>4. CASE BodyBreaksOff(c)
  BY <1>4, SameKind DEF BodyBreaksOff, account, busy
<1>5. CASE Arrives(c)
  BY <1>5, EndsSeparate DEF Arrives
<1>6. CASE Fails(c)
  <2>1. No(IF c.kind = "login" THEN 401 ELSE 0) \in Answers BY DEF No
  <2>2. QED BY <1>6, <2>1, EndsSeparate DEF Fails
<1>7. QED BY <1>1, <1>2, <1>3, <1>4, <1>5, <1>6 DEF CallProceeds

LEMMA ClickSeparate ==
  ASSUME SessionTypeOK, Separate, Clicked \/ Elsewhere \/ Reload
  PROVE  Separate'
<1> USE DEF Separate, OnlyLogoutsOverlap, Overtaking, Exists, AuthCalls, Logouts, account, busy, history
<1>1. \A kind, who : Call(kind, who).kind = kind /\ Call(kind, who).n = sent + 1 BY DEF Call
<1>2. CASE LoadSession
  <2>1. status = "error" /\ status' = "loading" /\ UNCHANGED <<busy, history>>
    BY <1>2 DEF LoadSession
  <2>2. AuthCalls = {} /\ ~submitting /\ \A b \in Accounts : loggingOut[b] = 0 BY <2>1
  <2>3. calls' = calls \cup {Call("me", Null)} BY <1>2 DEF LoadSession, Begin
  <2>4. QED BY <1>1, <2>1, <2>2, <2>3
<1>3. ASSUME NEW a \in Accounts, LogOut(a) PROVE Separate'
  <2>1. status = "authenticated" /\ loggingOut' = [loggingOut EXCEPT ![a] = sent + 1]
    BY <1>3 DEF LogOut
  <2>2. UNCHANGED <<status, submitting, overtaken>> BY <1>3 DEF LogOut
  <2>3. ~submitting /\ \A e \in calls : e.kind \notin {"me", "login"} BY <2>1
  <2>4. calls' = calls \cup {Call("logout", Null)} BY <1>3 DEF LogOut, Begin
  <2>5. \A e \in calls' : e.kind \notin {"me", "login"} BY <1>1, <2>3, <2>4
  <2>6. ASSUME NEW b \in Accounts, loggingOut'[b] # 0
        PROVE  \E e \in Logouts' : e.n = loggingOut'[b]
    <3>1. CASE b = a
      <4>1. loggingOut'[b] = sent + 1 BY <2>1, <3>1 DEF SessionTypeOK
      <4>2. Call("logout", Null) \in Logouts' BY <1>1, <2>4
      <4>3. QED BY <1>1, <4>1, <4>2
    <3>2. CASE b # a
      <4>1. loggingOut'[b] = loggingOut[b] BY <2>1, <3>2 DEF SessionTypeOK
      <4>2. QED BY <2>4, <2>6, <4>1
    <3>3. QED BY <3>1, <3>2
  <2>7. QED BY <2>1, <2>2, <2>3, <2>5, <2>6
<1>4. CASE Save
  <2>1. UNCHANGED <<account, busy, overtaken>> BY <1>4 DEF Save
  <2>2. calls' = calls \cup {Call("save", Null)} BY <1>4 DEF Save, Begin
  <2>3. AuthCalls' = AuthCalls /\ Logouts' = Logouts BY <1>1, <2>2
  <2>4. \A kind \in {"me", "login", "logout"} :
          (\E e \in calls' : e.kind = kind) <=> (\E e \in calls : e.kind = kind)
    BY <1>1, <2>2
  <2>5. QED BY <2>1, <2>3, <2>4
<1>5. ASSUME NEW who \in Users, LogIn(who) PROVE Separate'
  <2>1. status = "anonymous" /\ ~submitting /\ submitting' = TRUE /\ overtaken' = (overtaken \/ Logouts # {})
    BY <1>5 DEF LogIn
  <2>2. status' = status /\ loggingOut' = loggingOut BY <1>5 DEF LogIn
  <2>3. \A e \in calls : e.kind \notin {"me", "login"} BY <2>1
  <2>4. calls' = calls \cup {Call("login", who)} BY <1>5 DEF LogIn, Begin
  <2>5. Logouts' = Logouts BY <1>1, <2>4
  <2>6. \A b \in Accounts : loggingOut'[b] = 0 BY <2>1, <2>2
  <2>7. OnlyLogoutsOverlap' BY <1>1, <2>1, <2>2, <2>3, <2>4, <2>5, <2>6
  <2>8. Overtaking' BY <2>1, <2>5
  <2>9. QED BY <2>7, <2>8
<1>6. CASE Elsewhere
  <2>1. ASSUME NEW c \in calls, Answered(c, No(0)), UNCHANGED <<account, busy, overtaken>> PROVE Separate'
    BY <2>1, SameKind DEF Answered, SessionTypeOK, CallRow
  <2>2. QED BY <1>6, <2>1 DEF Elsewhere, network
<1>7. CASE Reload
  <2>1. calls' = {[Call("me", Null) EXCEPT !.token = Null]} /\ status' = "loading"
    BY <1>7 DEF Reload
  <2>2. [Call("me", Null) EXCEPT !.token = Null].kind = "me" BY DEF Call
  <2>3. ~submitting' /\ \A b \in Accounts : loggingOut'[b] = 0 BY <1>7 DEF Reload, Idle
  <2>4. QED BY <2>1, <2>2, <2>3
<1>8. QED BY <1>2, <1>3, <1>4, <1>5, <1>6, <1>7 DEF Clicked

-----------------------------------------------------------------------------
(* The cookies, the user and the token.                                    *)

(* What the cookies are while nobody else touches them: the session of the *)
(* user, unless an answer that says otherwise is on its way.               *)
AnsweredOk(kind) == \E c \in calls : c.kind = kind /\ c.phase = "answered" /\ c.answer.ok

OkLogout(c) == c.kind = "logout" /\ c.phase = "answered" /\ c.answer.ok

Coherent(c) ==
  /\ c.kind = "login" => c.who \in Users
  /\ c.phase = "answered" /\ c.kind = "me" =>
       \/ c.answer.ok /\ cookie \in Users /\ c.answer.who = cookie
       \/ ~c.answer.ok /\ cookie = Null /\ c.answer.who = Null /\ c.answer.status = 401
  /\ c.phase = "answered" /\ c.kind = "login" /\ c.answer.ok =>
       c.answer.who \in Users /\ (cookie = c.answer.who \/ (overtaken /\ cookie = Null))

(* A logout that succeeded is the only one whose answer is on its way, and *)
(* came before the session ended in the tab or after the next login.       *)
Cookies ==
  ~disturbed /\ ~truncated =>
    /\ \A c \in calls : Coherent(c)
    /\ \A c, d \in calls : OkLogout(c) /\ OkLogout(d) => c = d
    /\ AnsweredOk("logout") => cookie = Null /\ (status = "authenticated" \/ AnsweredOk("login"))
    /\ status = "authenticated" =>
         user \in Users /\ (cookie = user \/ (cookie = Null /\ (overtaken \/ AnsweredOk("logout"))))
    /\ status = "anonymous" => user = Null /\ (cookie = Null \/ AnsweredOk("login"))

(* Every token is of the secret in the cookies, unless a login that        *)
(* replaced the secret has yet to reset it.                                *)
Tokens ==
  ~disturbed /\ ~truncated /\ ~crossed =>
    /\ \A c \in calls : c.phase = "token" => c.token = secret
    /\ csrfToken \in {Null, secret} \/ AnsweredOk("login")

SessionInv == SessionTypeOK /\ Separate /\ Cookies /\ Tokens

LEMMA NewCall ==
  ASSUME NEW kind, NEW who
  PROVE  /\ Call(kind, who).kind = kind /\ Call(kind, who).who = who
         /\ Call(kind, who).phase \in {"csrf", "sent"}
BY DEF Call

LEMMA ClickCookies ==
  ASSUME SessionInv, Clicked \/ Elsewhere \/ Reload
  PROVE  Cookies' /\ Tokens'
<1> USE DEF SessionInv, Cookies, Tokens, AnsweredOk, OkLogout, Coherent, cookies, account, history
<1>1. CASE LoadSession
  <2>1. calls' = calls \cup {Call("me", Null)} /\ UNCHANGED <<cookies, csrfToken, user, history>>
        /\ status' = "loading" /\ status = "error"
    BY <1>1 DEF LoadSession, Begin
  <2>2. \A c \in calls : c.kind \notin {"login", "logout"}
    BY <2>1 DEF Separate, OnlyLogoutsOverlap, Logouts
  <2>3. QED BY <2>1, <2>2, NewCall
<1>2. ASSUME NEW a \in Accounts, LogOut(a) PROVE Cookies' /\ Tokens'
  <2>1. calls' = calls \cup {Call("logout", Null)} /\ UNCHANGED <<cookies, csrfToken, account, history>>
    BY <1>2 DEF LogOut, Begin
  <2>2. QED BY <2>1, NewCall
<1>3. CASE Save
  <2>1. calls' = calls \cup {Call("save", Null)} /\ UNCHANGED <<cookies, csrfToken, account, history>>
    BY <1>3 DEF Save, Begin
  <2>2. QED BY <2>1, NewCall
<1>4. ASSUME NEW who \in Users, LogIn(who) PROVE Cookies' /\ Tokens'
  <2>1. /\ calls' = calls \cup {Call("login", who)}
        /\ UNCHANGED <<cookies, csrfToken, account, disturbed, crossed, truncated>>
        /\ overtaken => overtaken'
    BY <1>4 DEF LogIn, Begin
  <2>2. QED BY <2>1, NewCall
<1>5. CASE Elsewhere
  BY <1>5 DEF Elsewhere
<1>6. CASE Reload
  <2>1. calls' = {[Call("me", Null) EXCEPT !.token = Null]} /\ status' = "loading" /\ csrfToken' = Null
    BY <1>6 DEF Reload
  <2>2. \A c \in calls' : c.kind = "me" /\ c.phase = "sent" BY <2>1, NewCall DEF Call
  <2>3. QED BY <2>1, <2>2
<1>7. QED BY <1>1, <1>2, <1>3, <1>4, <1>5, <1>6 DEF Clicked

LEMMA EndsCookies ==
  ASSUME SessionInv, NEW c \in calls, NEW a \in Answers, Ends(c, a),
         \/ c.phase = "answered" /\ a = c.answer
         \/ c.phase # "answered" /\ a = No(IF c.kind = "login" THEN 401 ELSE 0)
  PROVE  Cookies' /\ Tokens'
<1> USE DEF Over, cookies, account, history, Cookies, Tokens, AnsweredOk, OkLogout, Coherent
<1>1. \A d \in calls : d.kind = c.kind /\ c.kind \in {"me", "login"} => d = c
  BY DEF SessionInv, Separate, OnlyLogoutsOverlap, AuthCalls, Logouts, SessionTypeOK, CallRow
<1>2. UNCHANGED history /\ calls' = calls \ {c} /\ UNCHANGED cookies
  BY DEF Ends, MeOver, LogInOver, LogOutOver, SaveOver
<1>3. c.phase # "answered" => ~a.ok /\ a.who = Null BY DEF No
<1>4. CASE c.kind = "me" /\ MeOver(c, a)
  <2>1. user' = a.who /\ csrfToken' = csrfToken BY <1>4 DEF MeOver
  <2>2. Tokens' BY <1>2, <1>4, <2>1 DEF SessionInv
  <2>3. ASSUME ~disturbed, ~truncated PROVE Cookies'
    <3>1. a.ok => status' = "authenticated" /\ a.who \in Users /\ a.who = cookie
      BY <1>3, <1>4, <2>3 DEF SessionInv, MeOver
    <3>2. \A e \in calls : e.kind # "logout"
      BY <1>4 DEF SessionInv, Separate, OnlyLogoutsOverlap, Logouts
    <3>3. CASE a.ok BY <1>2, <2>1, <2>3, <3>1, <3>2, <3>3 DEF SessionInv
    <3>4. CASE ~a.ok
      <4>1. a.who = Null /\ (a.status = 401 => cookie = Null)
        BY <1>3, <1>4, <2>3, <3>4 DEF SessionInv, No
      <4>2. status' \in {"anonymous", "error"} /\ (status' = "anonymous" => a.status = 401)
        BY <1>4, <3>4 DEF MeOver
      <4>3. QED BY <1>2, <2>1, <2>3, <3>2, <4>1, <4>2 DEF SessionInv
    <3>5. QED BY <3>3, <3>4
  <2>4. QED BY <1>2, <2>2, <2>3
<1>5. CASE c.kind = "login" /\ LogInOver(c, a)
  <2>1. status = "anonymous" BY <1>5 DEF SessionInv, Separate, OnlyLogoutsOverlap
  <2>2. CASE a.ok
    <3>1. user' = a.who /\ status' = "authenticated" /\ csrfToken' = Null
      BY <1>5, <2>2 DEF LogInOver
    <3>2. ~disturbed /\ ~truncated => a.who \in Users /\ (cookie = a.who \/ (overtaken /\ cookie = Null))
      BY <1>3, <1>5, <2>2 DEF SessionInv
    <3>3. QED BY <1>2, <3>1, <3>2 DEF SessionInv
  <2>3. CASE ~a.ok
    <3>1. UNCHANGED <<csrfToken, account>> BY <1>5, <2>3 DEF LogInOver
    <3>2. ~AnsweredOk("login") BY <1>1, <1>5, <2>3
    <3>3. QED BY <1>2, <2>1, <3>1, <3>2 DEF SessionInv
  <2>4. QED BY <2>2, <2>3
<1>6. CASE c.kind = "logout" /\ LogOutOver(c, a)
  <2>1. AnsweredOk("login") => AnsweredOk("login")'
    BY <1>2, <1>6
  <2>2. CASE a.ok
    <3>1. user' = Null /\ status' = "anonymous" /\ csrfToken' = Null
      BY <1>6, <2>2 DEF LogOutOver
    <3>2. OkLogout(c) BY <1>3, <1>6, <2>2
    <3>3. ~disturbed /\ ~truncated => cookie = Null /\ ~AnsweredOk("logout")'
      BY <1>2, <3>2 DEF SessionInv
    <3>4. QED BY <1>2, <3>1, <3>3 DEF SessionInv
  <2>3. CASE ~a.ok
    <3>1. UNCHANGED <<csrfToken, account>> BY <1>6, <2>3 DEF LogOutOver
    <3>2. AnsweredOk("logout")' <=> AnsweredOk("logout") BY <1>2, <1>3, <2>3
    <3>3. QED BY <1>2, <2>1, <3>1, <3>2 DEF SessionInv
  <2>4. QED BY <2>2, <2>3
<1>7. CASE c.kind = "save" /\ SaveOver(c)
  <2>1. UNCHANGED <<csrfToken, account>> BY <1>7 DEF SaveOver
  <2>2. \A kind \in {"login", "logout"} : AnsweredOk(kind)' <=> AnsweredOk(kind)
    BY <1>2, <1>7
  <2>3. QED BY <1>2, <2>1, <2>2 DEF SessionInv
<1>8. QED BY <1>4, <1>5, <1>6, <1>7 DEF Ends

(* A call that takes a step of its own before it is answered.              *)
LEMMA StepCookies ==
  ASSUME SessionInv, NEW c \in calls, NEW d, d.kind = c.kind, d.who = c.who,
         c.phase # "answered", d.phase # "answered",
         calls' = (calls \ {c}) \cup {d}, UNCHANGED <<cookies, account, history>>
  PROVE  Cookies' /\ \A kind : AnsweredOk(kind)' <=> AnsweredOk(kind)
<1>1. \A kind : AnsweredOk(kind)' <=> AnsweredOk(kind) BY DEF AnsweredOk
<1>2. ASSUME ~disturbed, ~truncated PROVE \A e \in calls' : Coherent(e)'
  BY <1>2 DEF SessionInv, Cookies, Coherent, cookies, history
<1>3. \A e \in calls' : OkLogout(e) => e \in calls BY DEF OkLogout
<1>4. QED BY <1>1, <1>2, <1>3 DEF SessionInv, Cookies, OkLogout, cookies, account, history

(* A call that is answered without a change of the cookies.                *)
LEMMA AnswerCookies ==
  ASSUME SessionInv, NEW c \in calls, NEW d, d.kind = c.kind,
         c.phase = "sent", d.phase = "answered", ~disturbed /\ ~truncated => Coherent(d), ~OkLogout(d),
         calls' = (calls \ {c}) \cup {d}, UNCHANGED <<cookies, csrfToken, account, history>>
  PROVE  Cookies' /\ Tokens'
<1>1. \A kind : AnsweredOk(kind) => AnsweredOk(kind)' BY DEF AnsweredOk
<1>2. ASSUME ~disturbed, ~truncated PROVE \A e \in calls' : Coherent(e)'
  BY <1>2 DEF SessionInv, Cookies, Coherent, cookies, history
<1>3. \A e \in calls' : OkLogout(e) => e \in calls OBVIOUS
<1>4. AnsweredOk("logout")' => AnsweredOk("logout") BY <1>3 DEF AnsweredOk, OkLogout
<1>5. Cookies' BY <1>1, <1>2, <1>3, <1>4 DEF SessionInv, Cookies, OkLogout, cookies, account, history
<1>6. Tokens' BY <1>1 DEF SessionInv, Tokens, cookies, history
<1>7. QED BY <1>5, <1>6

LEMMA ServeCookies ==
  ASSUME SessionInv, NEW c \in calls, Serve(c)
  PROVE  Cookies' /\ Tokens'
<1> DEFINE D(a) == [c EXCEPT !.phase = "answered", !.answer = a]
<1>1. c.phase = "sent" /\ UNCHANGED <<csrfToken, account, busy, disturbed, truncated, overtaken>>
  BY DEF Serve
<1>2. \A a : D(a).kind = c.kind /\ D(a).who = c.who /\ D(a).phase = "answered" /\ D(a).answer = a
  BY DEF SessionInv, SessionTypeOK, CallRow
<1>3. \A a : Answered(c, a) => calls' = (calls \ {c}) \cup {D(a)}
  BY DEF Answered, To
<1> HIDE DEF D
<1>4. c.kind \in {"login", "logout"} =>
        \A e \in calls \ {c} : e.kind \in {"save", "logout"} \/ (e.kind = "login" /\ c.kind = "logout")
  BY DEF SessionInv, SessionTypeOK, Separate, OnlyLogoutsOverlap, AuthCalls, Logouts, CallRow
<1>5. ASSUME NEW a, Answered(c, a), UNCHANGED <<cookies, crossed>>,
             ~disturbed /\ ~truncated => Coherent(D(a)), c.kind = "logout" => ~a.ok
      PROVE  Cookies' /\ Tokens'
  <2>1. UNCHANGED <<cookies, csrfToken, account, history>> BY <1>1, <1>5 DEF history
  <2>2. D(a).kind = c.kind /\ D(a).phase = "answered" /\ ~OkLogout(D(a)) BY <1>2, <1>5 DEF OkLogout
  <2>3. QED BY <1>1, <1>3, <1>5, <2>1, <2>2, AnswerCookies
<1>6. CASE c.kind = "me"
  <2>1. CASE cookie = Null
    <3>1. Coherent(D(No(401))) BY <1>2, <1>6, <2>1 DEF Coherent, No
    <3>2. QED BY <1>5, <1>6, <2>1, <3>1 DEF Serve
  <2>2. CASE cookie # Null
    <3>1. Coherent(D(Yes(cookie))) BY <1>2, <1>6, <2>2 DEF Coherent, Yes, SessionInv, SessionTypeOK
    <3>2. QED BY <1>5, <1>6, <2>2, <3>1 DEF Serve
  <2>3. QED BY <2>1, <2>2
<1>7. ASSUME NEW code, c.kind # "me", Answered(c, No(code)), UNCHANGED <<cookies, crossed>>
      PROVE  Cookies' /\ Tokens'
  <2>1. ~disturbed /\ ~truncated /\ c.kind = "login" => c.who \in Users
    BY DEF SessionInv, Cookies, Coherent
  <2>2. ~disturbed /\ ~truncated => Coherent(D(No(code))) BY <1>2, <1>7, <2>1 DEF Coherent, No
  <2>3. ~No(code).ok BY DEF No
  <2>4. QED BY <1>5, <1>7, <2>2, <2>3
<1>8. CASE c.kind # "me" /\ c.token # secret
  BY <1>7, <1>8 DEF Serve
<1>9. CASE c.kind = "login" /\ c.token = secret
  <2>1. cookie' = c.who /\ calls' = (calls \ {c}) \cup {D(Yes(c.who))}
    BY <1>3, <1>9 DEF Serve
  <2>2. crossed' = (crossed \/ \E d \in calls \ {c} : d.phase = "token")
    BY <1>9 DEF Serve
  <2>3. status = "anonymous" BY <1>9 DEF SessionInv, Separate, OnlyLogoutsOverlap
  <2>4. AnsweredOk("login")' BY <1>2, <1>9, <2>1 DEF AnsweredOk, Yes
  <2>5. Tokens' BY <1>1, <1>2, <2>1, <2>2, <2>4 DEF Tokens
  <2>6. ~AnsweredOk("login") BY <1>1, <1>4, <1>9 DEF AnsweredOk
  <2>7. ASSUME ~disturbed, ~truncated PROVE Cookies'
    <3>1. c.who \in Users /\ user = Null BY <1>9, <2>3, <2>7 DEF SessionInv, Cookies, Coherent
    <3>2. Coherent(D(Yes(c.who)))' BY <1>2, <1>9, <2>1, <3>1 DEF Coherent, Yes
    <3>3. \A e \in calls' : Coherent(e)' BY <1>4, <1>9, <2>1, <3>2 DEF Coherent
    <3>4. ~AnsweredOk("logout") BY <2>3, <2>6, <2>7 DEF SessionInv, Cookies
    <3>5. \A e \in calls' : ~OkLogout(e) BY <1>2, <1>9, <2>1, <3>4 DEF OkLogout, AnsweredOk
    <3>6. QED BY <1>1, <2>3, <2>4, <3>1, <3>3, <3>5 DEF Cookies, OkLogout, AnsweredOk, account
  <2>8. QED BY <1>1, <2>5, <2>7 DEF Cookies
<1>10. CASE c.kind \in {"logout", "save"} /\ c.token = secret /\ cookie = Null
  BY <1>7, <1>10 DEF Serve
<1>11. CASE c.kind = "save" /\ c.token = secret /\ cookie # Null
  <2>1. Answered(c, Yes(cookie)) /\ UNCHANGED <<cookies, crossed>>
    BY <1>11 DEF Serve, cookies
  <2>2. Coherent(D(Yes(cookie))) BY <1>2, <1>11 DEF Coherent
  <2>3. QED BY <1>5, <1>11, <2>1, <2>2
<1>12. CASE c.kind = "logout" /\ c.token = secret /\ cookie # Null
  <2>1. /\ cookie' = Null /\ secret' = secret /\ crossed' = crossed
        /\ calls' = (calls \ {c}) \cup {D(Yes(cookie))}
    BY <1>3, <1>12 DEF Serve
  <2>2. status \in {"authenticated", "anonymous"}
    BY <1>12 DEF SessionInv, Separate, OnlyLogoutsOverlap, Logouts
  <2>3. AnsweredOk("logout")' BY <1>2, <1>12, <2>1 DEF AnsweredOk, Yes
  <2>4. AnsweredOk("login") => AnsweredOk("login")' BY <1>12, <2>1 DEF AnsweredOk
  <2>5. Tokens' BY <1>1, <1>2, <2>1, <2>4 DEF Tokens, SessionInv
  <2>6. ASSUME ~disturbed, ~truncated PROVE Cookies'
    <3>1. \A e \in calls' \ {D(Yes(cookie))} : e \in calls /\ e.kind \in {"login", "logout", "save"}
      BY <1>4, <1>12, <2>1
    <3>2. \A e \in calls' : e.kind = "login" => overtaken'
      BY <1>1, <1>2, <1>12, <3>1 DEF SessionInv, Separate, Overtaking, Exists
    <3>3. ASSUME NEW e \in calls' PROVE Coherent(e)'
      <4>1. CASE e = D(Yes(cookie)) BY <1>2, <1>12, <4>1 DEF Coherent
      <4>2. CASE e # D(Yes(cookie))
        BY <2>1, <2>6, <3>1, <3>2, <4>2 DEF Coherent, SessionInv, Cookies
      <4>3. QED BY <4>1, <4>2
    <3>4. \A e \in calls : ~OkLogout(e)
      BY <1>12, <2>6 DEF SessionInv, Cookies, OkLogout, AnsweredOk
    <3>5. \A e \in calls' : OkLogout(e) => e = D(Yes(cookie)) BY <3>1, <3>4
    <3>6. status = "authenticated" \/ AnsweredOk("login")
      BY <1>12, <2>2, <2>6 DEF SessionInv, Cookies
    <3>7. status = "authenticated" => user \in Users BY <2>6 DEF SessionInv, Cookies
    <3>8. status = "anonymous" => user = Null BY <2>6 DEF SessionInv, Cookies
    <3>9. QED BY <1>1, <2>1, <2>3, <2>4, <3>3, <3>5, <3>6, <3>7, <3>8 DEF Cookies, account
  <2>7. QED BY <1>1, <2>5, <2>6 DEF Cookies
<1>13. c.kind \in {"me", "login", "logout", "save"} BY DEF SessionInv, SessionTypeOK, CallRow
<1>14. QED BY <1>6, <1>8, <1>9, <1>10, <1>11, <1>12, <1>13

LEMMA CallCookies ==
  ASSUME SessionInv, NEW c \in calls, CallProceeds(c)
  PROVE  Cookies' /\ Tokens'
<1> USE DEF cookies, account, history, Cookies, Tokens, AnsweredOk, OkLogout, Coherent
<1>0. c \in CallRow BY DEF SessionInv, SessionTypeOK
<1>1. CASE CsrfServed(c)
  <2>1. calls' = (calls \ {c}) \cup {[c EXCEPT !.phase = "token", !.token = secret]} /\ c.phase = "csrf"
    BY <1>1 DEF CsrfServed, To
  <2>2. UNCHANGED <<cookies, csrfToken, account, history>> BY <1>1 DEF CsrfServed
  <2> DEFINE d == [c EXCEPT !.phase = "token", !.token = secret]
  <2>3. d.kind = c.kind /\ d.who = c.who /\ d.phase = "token" /\ d.token = secret
    BY <1>0 DEF CallRow
  <2> HIDE DEF d
  <2> HIDE DEF cookies, account, history, Cookies, AnsweredOk, OkLogout, Coherent
  <2>4. /\ c.phase # "answered" /\ d.phase # "answered"
        /\ calls' = (calls \ {c}) \cup {d}
        /\ UNCHANGED <<cookies, account, history>>
    BY <2>1, <2>2, <2>3 DEF d
  <2>5. Cookies' /\ \A kind : AnsweredOk(kind)' <=> AnsweredOk(kind)
    BY <2>3, <2>4, StepCookies
  <2>6. Cookies' /\ (AnsweredOk("login")' <=> AnsweredOk("login"))
    BY <2>5
  <2> USE DEF cookies, account, history
  <2>7. QED BY <2>1, <2>2, <2>3, <2>6 DEF SessionInv, d
<1>2. CASE CsrfArrives(c)
  <2>1. calls' = (calls \ {c}) \cup {[c EXCEPT !.phase = "sent"]} /\ c.phase = "token"
    BY <1>2 DEF CsrfArrives, To
  <2>2. UNCHANGED <<cookies, account, history>> /\ csrfToken' = c.token BY <1>2 DEF CsrfArrives
  <2> DEFINE d == [c EXCEPT !.phase = "sent"]
  <2>3. d.kind = c.kind /\ d.who = c.who /\ d.phase = "sent" BY <1>0 DEF CallRow
  <2> HIDE DEF d
  <2> HIDE DEF cookies, account, history, Cookies, AnsweredOk, OkLogout, Coherent
  <2>4. /\ c.phase # "answered" /\ d.phase # "answered"
        /\ calls' = (calls \ {c}) \cup {d}
        /\ UNCHANGED <<cookies, account, history>>
    BY <2>1, <2>2, <2>3 DEF d
  <2>5. Cookies' /\ \A kind : AnsweredOk(kind)' <=> AnsweredOk(kind)
    BY <2>3, <2>4, StepCookies
  <2>6. Cookies' /\ (AnsweredOk("login")' <=> AnsweredOk("login"))
    BY <2>5
  <2> USE DEF cookies, account, history
  <2>7. QED BY <2>1, <2>2, <2>3, <2>6 DEF SessionInv, d
<1>3. CASE Serve(c) BY <1>3, ServeCookies
<1>4. CASE BodyBreaksOff(c)
  BY <1>4 DEF BodyBreaksOff
<1>5. CASE Arrives(c)
  BY <1>5, EndsCookies DEF Arrives, SessionInv, SessionTypeOK
<1>6. CASE Fails(c)
  <2>1. No(IF c.kind = "login" THEN 401 ELSE 0) \in Answers BY DEF No, Answers
  <2>2. QED BY <1>6, <2>1, EndsCookies DEF Fails
<1>7. QED BY <1>1, <1>2, <1>3, <1>4, <1>5, <1>6 DEF CallProceeds

-----------------------------------------------------------------------------
(* The dashboard.                                                          *)

(* What is loaded and shown is the user's.                                 *)
Owned ==
  /\ mounted => SignedIn
  /\ mounted /\ ~disturbed /\ ~truncated =>
       /\ \A l \in loads : l.phase = "body" => l.owner = user
       /\ dashboard \notin {Null, Undefined} => dashboard.owner = user

(* A load that is not aborted is the only one, and asks for what is        *)
(* selected.                                                               *)
Current ==
  mounted =>
    /\ \A l \in loads : l.phase # "undefined" => l.range = range /\ l.device = deviceId
    /\ \A l, m \in loads : l.phase # "undefined" /\ m.phase # "undefined" => l = m
    /\ loadState = "loading" => loads # {} \/ pressedAgain
    /\ loadState = "ready" /\ Intact =>
         \/ \E l \in loads : l.phase # "undefined"
         \/ /\ dashboard # Null
            /\ dashboard.range = range /\ dashboard.device = deviceId
            /\ deviceId = Null => dashboard.selected = Null

TabInv == SessionInv /\ OverviewTypeOK /\ Owned /\ Current

LEMMA Asking ==
  ASSUME NEW n \in Nat, NEW r \in Ranges, NEW d \in DeviceIds \cup {Null}
  PROVE  /\ Asked(n, r, d) \in LoadRow /\ Asked(n, r, d).phase = "asked"
         /\ Asked(n, r, d).range = r /\ Asked(n, r, d).device = d
BY DEF Asked, LoadRow

LEMMA Aborting ==
  ASSUME OverviewTypeOK
  PROVE  Aborted \subseteq LoadRow /\ \A l \in Aborted : l.phase = "undefined"
BY DEF Aborted, OverviewTypeOK, LoadRow

LEMMA EffectTypes ==
  ASSUME OverviewTypeOK, NEW r \in Ranges, NEW d \in DeviceIds \cup {Null}, Effect(r, d)
  PROVE  /\ range' \in Ranges /\ deviceId' \in DeviceIds \cup {Null} /\ loadsSent' \in Nat
         /\ pressedAgain' \in BOOLEAN /\ loads' \subseteq LoadRow
         /\ \A l \in loads' : l.phase # "body"
         /\ \A l \in loads' : l.phase # "undefined" => l = Asked(loadsSent + 1, r, d)
         /\ Asked(loadsSent + 1, r, d) \in loads'
<1> DEFINE new == Asked(loadsSent + 1, r, d)
<1>1. new \in LoadRow /\ new.phase = "asked" BY Asking DEF OverviewTypeOK
<1>2. loads' = Aborted \cup {new} BY DEF Effect
<1>3. range' = r /\ deviceId' = d /\ loadsSent' \in Nat BY DEF Effect, OverviewTypeOK
<1>4. pressedAgain' \in BOOLEAN
  <2>1. pressedAgain' = FALSE BY DEF Effect
  <2>2. QED BY <2>1
<1> HIDE DEF new
<1>5. /\ loads' \subseteq LoadRow
      /\ \A l \in loads' : l.phase # "body" /\ (l.phase # "undefined" => l = new)
  BY <1>1, <1>2, Aborting
<1>6. QED BY <1>2, <1>3, <1>4, <1>5 DEF new

(* The clicks of the page, and its coming.                                 *)
LEMMA Selects ==
  ASSUME OverviewTypeOK, Owned, Current, mounted',
         \/ Mount /\ SignedIn
         \/ OverviewClicked
         , UNCHANGED sessionVars
  PROVE  OverviewTypeOK' /\ Owned' /\ Current'
<1> USE DEF sessionVars, account, history, selection
<1>1. ASSUME NEW r \in Ranges, NEW d \in DeviceIds \cup {Null}, Effect(r, d), loadState' = "loading",
             UNCHANGED crashed, mounted', SignedIn,
             \/ mounted /\ UNCHANGED dashboard
             \/ dashboard' = Null
      PROVE  OverviewTypeOK' /\ Owned' /\ Current'
  <2>1. OverviewTypeOK'
    BY <1>1, EffectTypes DEF OverviewTypeOK
  <2>2. Owned'
    BY <1>1, EffectTypes DEF Owned, SignedIn
  <2>3. range' = r /\ deviceId' = d BY <1>1 DEF Effect
  <2>4. Asked(loadsSent + 1, r, d).range = r /\ Asked(loadsSent + 1, r, d).device = d
    BY Asking DEF OverviewTypeOK
  <2>5. \A l \in loads' : l.phase # "undefined" => l = Asked(loadsSent + 1, r, d)
    BY <1>1, EffectTypes
  <2>6. loads' # {} BY <1>1, EffectTypes
  <2>7. QED BY <1>1, <2>1, <2>2, <2>3, <2>4, <2>5, <2>6 DEF Current
<1>2. CASE Mount /\ SignedIn
  BY <1>1, <1>2, OverviewAssumption DEF Mount
<1>3. CASE RefreshDashboard
  BY <1>1, <1>3 DEF RefreshDashboard, Owned, OverviewTypeOK
<1>4. ASSUME NEW d \in DeviceIds, ChangeDevice(d) PROVE OverviewTypeOK' /\ Owned' /\ Current'
  BY <1>1, <1>4 DEF ChangeDevice, Owned, OverviewTypeOK
<1>5. ASSUME NEW r \in Ranges, ChangeRange(r) PROVE OverviewTypeOK' /\ Owned' /\ Current'
  <2>1. CASE r = range
    <3>1. /\ loadState' = "loading" /\ pressedAgain' = TRUE
          /\ UNCHANGED <<mounted, selection, dashboard, loads, loadsSent, crashed>>
      BY <1>5, <2>1 DEF ChangeRange
    <3>2. OverviewTypeOK' BY <3>1 DEF OverviewTypeOK
    <3>3. Owned' BY <3>1 DEF Owned, SignedIn
    <3>4. Current' BY <3>1 DEF Current
    <3>5. QED BY <3>2, <3>3, <3>4
  <2>2. CASE r # range
    BY <1>1, <1>5, <2>2 DEF ChangeRange, Owned, OverviewTypeOK
  <2>3. QED BY <2>1, <2>2
<1>6. QED BY <1>2, <1>3, <1>4, <1>5 DEF OverviewClicked

(* An answer, or none.                                                     *)
LEMMA Proceeds ==
  ASSUME TabInv, NEW l \in loads, LoadProceeds(l), UNCHANGED sessionVars
  PROVE  OverviewTypeOK' /\ Owned' /\ Current'
<1> USE DEF sessionVars, account, history, selection, shown, cookies
<1>0. /\ l \in LoadRow /\ loads \subseteq LoadRow
      /\ OverviewTypeOK /\ Owned /\ Current
      /\ \A m \in loads : m.phase = "body" => m.owner \in Users
  BY DEF TabInv, OverviewTypeOK
<1>1. CASE LoadServed(l)
  <2> DEFINE selects == IF l.device = Null THEN Default(cookie) ELSE l.device
             m == [l EXCEPT !.phase = "body", !.owner = cookie, !.selected = selects]
  <2>1. cookie \in Users /\ l.phase = "asked" BY <1>1 DEF LoadServed, TabInv, SessionInv, SessionTypeOK
  <2>2. Default(cookie) \in DeviceIds \cup {Null}
    BY <2>1, OverviewAssumption, SessionAssumption DEF Default, Visible, DeviceIds
  <2>3. m \in LoadRow /\ m.phase = "body" /\ m.owner = cookie /\ m.range = l.range /\ m.device = l.device
    BY <1>0, <2>1, <2>2 DEF LoadRow
  <2>4. loads' = (loads \ {l}) \cup {m}
        /\ UNCHANGED <<mounted, selection, shown, loadsSent, crashed, pressedAgain>>
    BY <1>1 DEF LoadServed, LoadTo
  <2> HIDE DEF m
  <2>5. OverviewTypeOK' BY <1>0, <2>1, <2>3, <2>4 DEF OverviewTypeOK
  <2>6. mounted /\ ~disturbed /\ ~truncated => cookie = user
    BY <2>1, SessionAssumption DEF TabInv, SessionInv, Cookies, Owned, SignedIn
  <2>7. Owned' BY <1>0, <2>3, <2>4, <2>6 DEF Owned, SignedIn
  <2>8. Current' BY <1>0, <2>1, <2>3, <2>4 DEF Current, Intact
  <2>9. QED BY <2>5, <2>7, <2>8
<1>2. CASE DashboardArrives(l)
  <2> DEFINE answer == [owner |-> l.owner, range |-> l.range, device |-> l.device, selected |-> l.selected]
  <2>1. l.phase = "body" /\ dashboard' = answer /\ loadState' = "ready" /\ UNCHANGED <<mounted, crashed>>
    BY <1>2 DEF DashboardArrives
  <2>2. answer \in Dashboards /\ answer \notin {Null, Undefined}
    BY <1>0, <2>1, OverviewAssumption DEF LoadRow, Dashboards
  <2>3. /\ answer.owner = l.owner /\ answer.range = l.range
        /\ answer.device = l.device /\ answer.selected = l.selected
    OBVIOUS
  <2>4. mounted /\ ~disturbed /\ ~truncated => l.owner = user BY <1>0, <2>1 DEF Owned
  <2> HIDE DEF answer
  <2>5. CASE l.device = Null /\ l.selected # Null
    <3> DEFINE m == Asked(loadsSent + 1, range, l.selected)
    <3>1. /\ loadsSent' = loadsSent + 1 /\ deviceId' = l.selected /\ range' = range /\ ~pressedAgain'
          /\ loads' = (loads \ {l}) \cup {m}
      BY <1>2, <2>5 DEF DashboardArrives
    <3>2. pressedAgain' \in BOOLEAN BY <1>2, <2>5 DEF DashboardArrives
    <3>3. m \in LoadRow /\ m.phase = "asked" /\ m.range = range /\ m.device = l.selected
      BY <1>0, Asking DEF OverviewTypeOK, LoadRow
    <3>4. l.selected \in DeviceIds \cup {Null} /\ loadsSent' \in Nat
      BY <1>0, <3>1 DEF LoadRow, OverviewTypeOK
    <3> HIDE DEF m
    <3>5. OverviewTypeOK' BY <1>0, <2>1, <2>2, <3>1, <3>2, <3>3, <3>4 DEF OverviewTypeOK
    <3>6. Owned' BY <1>0, <2>1, <2>3, <2>4, <3>1, <3>3 DEF Owned, SignedIn
    <3>7. Current' BY <1>0, <2>1, <3>1, <3>3 DEF Current
    <3>8. QED BY <3>5, <3>6, <3>7
  <2>6. CASE ~(l.device = Null /\ l.selected # Null)
    <3>1. loads' = loads \ {l} /\ UNCHANGED <<selection, loadsSent, pressedAgain>>
      BY <1>2, <2>6 DEF DashboardArrives
    <3>2. OverviewTypeOK' BY <1>0, <2>1, <2>2, <3>1 DEF OverviewTypeOK
    <3>3. Owned' BY <1>0, <2>1, <2>3, <2>4, <3>1 DEF Owned, SignedIn
    <3>4. mounted => l.range = range /\ l.device = deviceId BY <1>0, <2>1 DEF Current
    <3>5. Current' BY <1>0, <2>1, <2>2, <2>3, <2>6, <3>1, <3>4 DEF Current
    <3>6. QED BY <3>2, <3>3, <3>5
  <2>7. QED BY <2>5, <2>6
<1>3. CASE UndefinedArrives(l)
  <2>1. /\ loads' = loads \ {l} /\ dashboard' = Undefined
        /\ UNCHANGED <<mounted, selection, loadsSent, pressedAgain>>
        /\ loadState' \in {"ready", "error"}
    BY <1>3 DEF UndefinedArrives
  <2>2. crashed' \in BOOLEAN BY <1>0, <1>3 DEF UndefinedArrives, OverviewTypeOK
  <2>3. OverviewTypeOK' BY <1>0, <2>1, <2>2 DEF OverviewTypeOK
  <2>4. Owned' BY <1>0, <2>1 DEF Owned, SignedIn
  <2>5. Current' BY <1>0, <2>1 DEF Current, Intact
  <2>6. QED BY <2>3, <2>4, <2>5
<1>4. CASE LoadFails(l)
  <2>1. /\ loads' = loads \ {l} /\ loadState' = "error"
        /\ UNCHANGED <<mounted, selection, dashboard, loadsSent, crashed, pressedAgain>>
    BY <1>4 DEF LoadFails
  <2>2. OverviewTypeOK' BY <1>0, <2>1 DEF OverviewTypeOK
  <2>3. Owned' BY <1>0, <2>1 DEF Owned, SignedIn
  <2>4. Current' BY <1>0, <2>1 DEF Current
  <2>5. QED BY <2>2, <2>3, <2>4
<1>5. QED BY <1>1, <1>2, <1>3, <1>4 DEF LoadProceeds

-----------------------------------------------------------------------------
(* The tab.                                                                *)

LEMMA Leaving ==
  ASSUME OverviewTypeOK, Unmount
  PROVE  OverviewTypeOK' /\ Owned' /\ Current'
<1>1. mounted' = FALSE /\ pressedAgain' = FALSE BY DEF Unmount
<1>2. OverviewTypeOK' BY <1>1, OverviewAssumption DEF Unmount, OverviewTypeOK
<1>3. QED BY <1>1, <1>2 DEF Owned, Current

(* Once somebody is signed in and stays so, nobody else is.                *)
LEMMA SameUser ==
  ASSUME SessionInv, Session, SignedIn, status' = "authenticated"
  PROVE  user' = user
<1> USE DEF account, SignedIn
<1>1. CASE Clicked \/ Elsewhere
  <2>1. ~LoadSession /\ \A who \in Users : ~LogIn(who) BY DEF LoadSession, LogIn
  <2>2. QED BY <1>1, <2>1 DEF Clicked, LogOut, Save, Elsewhere
<1>2. ASSUME NEW c \in calls, CallProceeds(c) PROVE user' = user
  <2>1. c.kind \notin {"me", "login"} BY DEF SessionInv, Separate, OnlyLogoutsOverlap
  <2>2. ASSUME NEW a, Ends(c, a) PROVE user' = user
    BY <2>1, <2>2 DEF Ends, LogOutOver, SaveOver
  <2>3. QED BY <1>2, <2>2 DEF CallProceeds, CsrfServed, CsrfArrives, Serve, BodyBreaksOff, Arrives, Fails
<1>3. QED BY <1>1, <1>2 DEF Session

LEMMA SessionKeeps ==
  ASSUME SessionInv,
         (Clicked \/ Elsewhere \/ Reload \/ \E c \in calls : CallProceeds(c)) \/ UNCHANGED sessionVars
  PROVE  SessionInv'
<1>1. CASE Clicked \/ Elsewhere \/ Reload
  BY <1>1, ClickTypes, ClickSeparate, ClickCookies DEF SessionInv
<1>2. ASSUME NEW c \in calls, CallProceeds(c) PROVE SessionInv'
  BY <1>2, CallTypes, CallSeparate, CallCookies DEF SessionInv
<1>3. CASE UNCHANGED sessionVars
  <2>1. /\ UNCHANGED <<cookie, secret, csrfToken, status, user, submitting, loggingOut>>
        /\ UNCHANGED <<calls, sent, disturbed, crossed, truncated, overtaken>>
    BY <1>3 DEF sessionVars, cookies, account, busy, network, history
  <2>2. SessionTypeOK' BY <2>1 DEF SessionInv, SessionTypeOK
  <2>3. Separate' BY <2>1 DEF SessionInv, Separate, OnlyLogoutsOverlap, Overtaking, Exists, AuthCalls, Logouts
  <2>4. Cookies' BY <2>1 DEF SessionInv, Cookies, Coherent, AnsweredOk, OkLogout
  <2>5. Tokens' BY <2>1 DEF SessionInv, Tokens, AnsweredOk
  <2>6. QED BY <2>2, <2>3, <2>4, <2>5 DEF SessionInv
<1>4. QED BY <1>1, <1>2, <1>3

LEMMA TabInit == Init => TabInv
<1> SUFFICES ASSUME Init PROVE TabInv OBVIOUS
<1> USE DEF Init, SessionInit, OverviewInit
<1>1. SessionTypeOK
  <2>1. submitting \in BOOLEAN /\ loggingOut \in [Accounts -> Nat]
    <3>1. submitting = FALSE /\ loggingOut = [a \in Accounts |-> 0] BY DEF Idle
    <3>2. loggingOut \in [Accounts -> Nat] BY <3>1
    <3>3. QED BY <3>1, <3>2
  <2>2. calls \subseteq CallRow /\ \A c \in calls : c.phase = "sent" BY DEF CallRow
  <2>3. QED BY <2>1, <2>2 DEF SessionTypeOK
<1>2. Separate
  <2>1. \A a \in Accounts : loggingOut[a] = 0 BY DEF Idle
  <2>2. QED BY <2>1 DEF Separate, OnlyLogoutsOverlap, Overtaking, Exists, AuthCalls, Logouts
<1>3. Cookies /\ Tokens BY DEF Cookies, Tokens, Coherent, AnsweredOk, OkLogout
<1>4. OverviewTypeOK BY OverviewAssumption DEF OverviewTypeOK
<1>5. QED BY <1>1, <1>2, <1>3, <1>4 DEF TabInv, SessionInv, Owned, Current

LEMMA TabStep == TabInv /\ [Next]_vars => TabInv'
<1> SUFFICES ASSUME TabInv, [Next]_vars PROVE TabInv' OBVIOUS
<1>0. SessionInv /\ OverviewTypeOK /\ Owned /\ Current BY DEF TabInv
<1>1. SessionInv'
  BY <1>0, SessionKeeps DEF Next, Session, Reloaded, GoTo, Overview, vars
<1>2. CASE Session
  <2>1. CASE status' = "authenticated" /\ user' # Null
    <3>1. UNCHANGED overviewVars BY <1>2, <2>1 DEF Session, Pages
    <3>2. UNCHANGED <<mounted, range, deviceId, dashboard, loadState, loads, loadsSent, crashed, pressedAgain>>
      BY <3>1 DEF overviewVars, selection, shown
    <3>3. mounted => user' = user /\ SignedIn' BY <1>0, <1>2, <2>1, SameUser DEF Owned, SignedIn
    <3>4. disturbed => disturbed'
      BY <1>2 DEF Session, Clicked, LoadSession, LogIn, LogOut, Save, Elsewhere, CallProceeds, CsrfServed,
         CsrfArrives, Serve, BodyBreaksOff, Arrives, Fails, Ends, MeOver, LogInOver, LogOutOver, SaveOver, history
    <3>5. truncated => truncated'
      BY <1>2 DEF Session, Clicked, LoadSession, LogIn, LogOut, Save, Elsewhere, CallProceeds, CsrfServed,
         CsrfArrives, Serve, BodyBreaksOff, Arrives, Fails, Ends, MeOver, LogInOver, LogOutOver, SaveOver, history
    <3>6. OverviewTypeOK' BY <1>0, <3>2 DEF OverviewTypeOK
    <3>7. Owned' BY <1>0, <3>2, <3>3, <3>4, <3>5 DEF Owned, SignedIn
    <3>8. Current' BY <1>0, <3>2 DEF Current, Intact
    <3>9. QED BY <1>1, <3>6, <3>7, <3>8 DEF TabInv
  <2>2. CASE ~(status' = "authenticated" /\ user' # Null)
    <3>1. Unmount BY <1>2, <2>2 DEF Session, Pages
    <3>2. QED BY <1>0, <1>1, <3>1, Leaving DEF TabInv
  <2>3. QED BY <2>1, <2>2
<1>3. CASE Reloaded
  <2>1. mounted' = FALSE /\ loads' = {} /\ pressedAgain' = FALSE /\ crashed' = FALSE
    BY <1>3 DEF Reloaded
  <2>2. OverviewTypeOK' BY <1>0, <1>3, <2>1, OverviewAssumption DEF Reloaded, OverviewTypeOK
  <2>3. QED BY <1>1, <2>1, <2>2 DEF TabInv, Owned, Current
<1>4. CASE GoTo
  <2>1. CASE Mount
    <3>1. mounted' = TRUE BY <2>1 DEF Mount
    <3>2. QED BY <1>0, <1>1, <1>4, <2>1, <3>1, Selects DEF GoTo, TabInv
  <2>2. CASE Unmount BY <1>0, <1>1, <2>2, Leaving DEF TabInv
  <2>3. QED BY <1>4, <2>1, <2>2 DEF GoTo
<1>5. CASE Overview
  <2>1. CASE OverviewClicked
    <3>1. mounted' = mounted /\ mounted
      BY <2>1 DEF OverviewClicked, RefreshDashboard, ChangeRange, ChangeDevice
    <3>2. QED BY <1>0, <1>1, <1>5, <2>1, <3>1, Selects DEF Overview, TabInv
  <2>2. ASSUME NEW l \in loads, LoadProceeds(l) PROVE TabInv'
    BY <1>1, <1>5, <2>2, Proceeds DEF Overview, TabInv
  <2>3. QED BY <1>5, <2>1, <2>2 DEF Overview
<1>6. CASE UNCHANGED vars
  <2>1. /\ UNCHANGED <<mounted, range, deviceId, dashboard, loadState, loads, loadsSent, crashed, pressedAgain>>
        /\ UNCHANGED <<status, user, disturbed, truncated>>
    BY <1>6 DEF vars, overviewVars, sessionVars, selection, shown, account, history
  <2>2. OverviewTypeOK' BY <1>0, <2>1 DEF OverviewTypeOK
  <2>3. Owned' BY <1>0, <2>1 DEF Owned, SignedIn
  <2>4. Current' BY <1>0, <2>1 DEF Current, Intact
  <2>5. QED BY <1>1, <2>2, <2>3, <2>4 DEF TabInv
<1>7. QED BY <1>2, <1>3, <1>4, <1>5, <1>6 DEF Next

LEMMA TabHolds == Spec => []TabInv
BY TabInit, TabStep, PTL DEF Spec

(* Every variable of the tab keeps its type, and a page is mounted only    *)
(* for a user who is signed in (App.tsx, AuthProvider.tsx).                *)
THEOREM TypeCorrect == Spec => []TypeOK
<1>1. TabInv => TypeOK BY DEF TabInv, SessionInv, Owned, TypeOK
<1>2. QED BY <1>1, TabHolds, PTL

(* Only logouts overlap other calls of the session, and nothing waits in   *)
(* vain, however many accounts with a logout button are mounted and calls  *)
(* are made (AuthProvider.tsx, LoginPage.tsx, SidebarAccount.tsx).         *)
THEOREM OnlyLogoutsEverOverlap == Spec => []OnlyLogoutsOverlap
<1>1. TabInv => OnlyLogoutsOverlap BY DEF TabInv, SessionInv, Separate
<1>2. QED BY <1>1, TabHolds, PTL

(* A tab that waits for nothing shows the user of its cookies and keeps a  *)
(* token the server takes, as long as nobody else changes the cookies and  *)
(* no body breaks off (AuthProvider.tsx, http.ts).                         *)
THEOREM TabAlwaysAgrees == Spec => []TabAgrees
<1>1. TabInv => TabAgrees
  <2> SUFFICES ASSUME TabInv, ~disturbed, ~truncated, AuthCalls = {}
               PROVE  /\ status # "error" =>
                           /\ user = cookie \/ (overtaken /\ cookie = Null)
                           /\ status = "authenticated" <=> user # Null
                      /\ ~crossed => csrfToken \in {Null, secret}
    BY DEF TabAgrees
  <2>1. \A kind \in {"me", "login", "logout"} : ~AnsweredOk(kind)
    BY DEF AnsweredOk, AuthCalls
  <2>2. status \in {"authenticated", "anonymous", "error"}
    BY DEF AuthCalls, TabInv, SessionInv, SessionTypeOK, Separate, OnlyLogoutsOverlap
  <2>3. QED BY <2>1, <2>2, SessionAssumption DEF TabInv, SessionInv, Cookies, Tokens
<1>2. QED BY <1>1, TabHolds, PTL

(* A dashboard that is ready is of the range and the device selected, and  *)
(* one that is loading waits for an answer (OverviewPage.tsx).             *)
THEOREM ReadyAlwaysCurrent == Spec => []ReadyIsCurrent
<1>1. TabInv => ReadyIsCurrent BY DEF TabInv, Current, ReadyIsCurrent
<1>2. QED BY <1>1, TabHolds, PTL

(* What the dashboard shows is the data of the user whose name the tab     *)
(* shows (App.tsx, OverviewPage.tsx).                                      *)
THEOREM ShownDataAlwaysMine == Spec => []ShownDataIsMine
<1>1. TabInv => ShownDataIsMine BY DEF TabInv, Owned, ShownDataIsMine, Intact
<1>2. QED BY <1>1, TabHolds, PTL
=============================================================================
