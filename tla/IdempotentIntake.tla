-------------------------- MODULE IdempotentIntake --------------------------
(***************************************************************************)
(* What ingestion promises, without its steps: a ledger that gives each    *)
(* message id to the first envelope that used it and completes it at most  *)
(* once, with a result no other message shares; and acceptances that only  *)
(* ever quote the ledger.                                                  *)
(*                                                                         *)
(* The result of a completion is left open (it is the set of readings that *)
(* were stored), so the actions relate the old and the new ledger entry.   *)
(***************************************************************************)
CONSTANTS Clients, Messages, Envelopes, None

VARIABLES
  ledger,  \* ledger[m]: envelope, status and result of message m, or None
  reply    \* reply[c]: the acceptance client c is being given, or None

Acceptance(m) == [envelope |-> ledger[m].envelope, result |-> ledger[m].result]

Init == /\ ledger = [m \in Messages |-> None]
        /\ reply = [c \in Clients |-> None]

(* Only the entry of m changes.                                            *)
Rewrites(m) == ledger' = [ledger EXCEPT ![m] = ledger'[m]]

(* An envelope claims an unused message id.                                *)
Claim(env) ==
  /\ ledger[env.message] = None
  /\ ledger' = [ledger EXCEPT ![env.message] =
                  [envelope |-> env, status |-> "received", result |-> {}]]
  /\ UNCHANGED reply

(* An attempt fails; nothing of it is kept but its failure.                *)
Fail(m) ==
  /\ ledger[m] # None
  /\ ledger[m].status # "processed"
  /\ ledger' = [ledger EXCEPT ![m].status = "failed"]
  /\ UNCHANGED reply

(* An attempt succeeds, once, and its client is told the result.           *)
Complete(m, c) ==
  /\ ledger[m] # None
  /\ ledger[m].status # "processed"
  /\ Rewrites(m)
  /\ ledger'[m].status = "processed"
  /\ ledger'[m].envelope = ledger[m].envelope
  /\ \A n \in Messages \ {m} :
       ledger[n] # None => ledger'[m].result \cap ledger[n].result = {}
  /\ reply' = [reply EXCEPT ![c] = Acceptance(m)']

(* A retry of a completed message is told the same.                        *)
Repeat(m, c) ==
  /\ ledger[m] # None
  /\ ledger[m].status = "processed"
  /\ reply' = [reply EXCEPT ![c] = Acceptance(m)]
  /\ UNCHANGED ledger

(* Acceptances reach their clients or are lost.                            *)
Forget ==
  /\ \A c \in Clients : reply'[c] \in {reply[c], None}
  /\ reply' = [c \in Clients |-> reply'[c]]
  /\ UNCHANGED ledger

Next == \/ \E env \in Envelopes : Claim(env)
        \/ \E m \in Messages : Fail(m)
        \/ \E m \in Messages, c \in Clients : Complete(m, c) \/ Repeat(m, c)
        \/ Forget

Spec == Init /\ [][Next]_<<ledger, reply>>
=============================================================================
