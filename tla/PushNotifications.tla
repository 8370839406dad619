-------------------------- MODULE PushNotifications --------------------------
(***************************************************************************)
(* Push notifications from PushNotificationSenderAuth in the server to     *)
(* PushNotificationReceiverAuth in the listener of the CLI host            *)
(* (samples/common/utils/push_notification_auth.py,                        *)
(* samples/hosts/cli/push_notification_listener.py).                       *)
(*                                                                         *)
(* Each run of the agent posts its notifications one after the other       *)
(* (send_task_notification is awaited).  The network may lose a            *)
(* notification or the answer to it, and may hold it back, also longer     *)
(* than the sender waits.  The server may crash and start anew.            *)
(*                                                                         *)
(* External: the network, and PyJWKClient, which keeps the keys it has     *)
(* fetched for a while and fetches again when it misses one.               *)
(***************************************************************************)
EXTENDS Naturals, Sequences

CONSTANTS
  Runs,          (* the runs of the agent that notify                      *)
  PostTimeout,   (* ticks the sender waits: 10 s                           *)
  Freshness,     (* ticks a token is good for: 5 min                       *)
  MaxUpdates,    (* bound: notifications per run                           *)
  MaxRestarts    (* bound: restarts of the server                          *)

ASSUME PushAssumption ==
  /\ PostTimeout \in Nat /\ Freshness \in Nat /\ PostTimeout < Freshness
  /\ MaxUpdates \in Nat /\ MaxRestarts \in Nat

VARIABLES
  key,         (* private_key_jwk: number of the signing key               *)
  publicKeys,  (* public_keys of the sender                                *)
  keys,        (* the key set the receiver's PyJWKClient holds             *)
  sent,        (* notifications a run has begun to post                    *)
  posting,     (* the one its coroutine waits for, 0 if none               *)
  waited,      (* ticks it has waited                                      *)
  gone,        (* runs that died with the server                           *)
  inFlight,    (* notifications under way: run, n, kid, ticks since iat    *)
  accepted,    (* history: what handle_notification has taken, in order    *)
  abandoned    (* history: what the sender has given up                    *)

sender   == <<key, publicKeys, sent, gone>>
waiting  == <<posting, waited, abandoned>>
receiver == <<keys, accepted>>
vars     == <<key, publicKeys, sent, gone, posting, waited, abandoned, keys, accepted, inFlight>>

MaxAge == Freshness + 1   (* older ones are all alike                      *)
Keys   == 1..(MaxRestarts + 1)
Notes  == [run : Runs, n : 1..MaxUpdates]

TypeOK ==
  /\ key \in Keys
  /\ publicKeys = {key}
  /\ keys \subseteq 1..key
  /\ sent \in [Runs -> 0..MaxUpdates]
  /\ posting \in [Runs -> 0..MaxUpdates]
  /\ waited \in [Runs -> 0..PostTimeout]
  /\ gone \subseteq Runs
  /\ inFlight \subseteq [run : Runs, n : 1..MaxUpdates, kid : 1..key, age : 0..MaxAge]
  /\ accepted \in Seq(Notes)
  /\ abandoned \subseteq Notes

(* load_jwks names the endpoint; the first token makes it fetch the keys.  *)
Init ==
  /\ key = 1
  /\ publicKeys = {1}
  /\ keys = {}
  /\ sent = [r \in Runs |-> 0]
  /\ posting = [r \in Runs |-> 0]
  /\ waited = [r \in Runs |-> 0]
  /\ gone = {}
  /\ inFlight = {}
  /\ accepted = <<>>
  /\ abandoned = {}

-----------------------------------------------------------------------------
(* The sender.                                                             *)

Note(m) == [run |-> m.run, n |-> m.n]

(* send_push_notification: sign the snapshot of the task and POST it.      *)
Notify_DoesNotWait(r) ==
  /\ r \notin gone /\ sent[r] < MaxUpdates
  /\ sent' = [sent EXCEPT ![r] = @ + 1]
  /\ posting' = [posting EXCEPT ![r] = sent'[r]]
  /\ waited' = [waited EXCEPT ![r] = 0]
  /\ inFlight' = inFlight \cup {[run |-> r, n |-> sent'[r], kid |-> key, age |-> 0]}
  /\ UNCHANGED <<key, publicKeys, gone, abandoned, receiver>>

Notify(r) ==
  /\ r \notin gone /\ sent[r] < MaxUpdates
  /\ posting[r] = 0
  /\ sent' = [sent EXCEPT ![r] = @ + 1]
  /\ posting' = [posting EXCEPT ![r] = sent'[r]]
  /\ waited' = [waited EXCEPT ![r] = 0]
  /\ inFlight' = inFlight \cup {[run |-> r, n |-> sent'[r], kid |-> key, age |-> 0]}
  /\ UNCHANGED <<key, publicKeys, gone, abandoned, receiver>>

(* The POST fails or times out: logged, and not tried again.               *)
GiveUp_Retries(r) ==
  /\ posting[r] # 0
  /\ waited' = [waited EXCEPT ![r] = 0]
  /\ inFlight' = inFlight \cup {[run |-> r, n |-> posting[r], kid |-> key, age |-> 0]}
  /\ UNCHANGED <<sender, posting, abandoned, receiver>>

GiveUp(r) ==
  /\ posting[r] # 0
  /\ posting' = [posting EXCEPT ![r] = 0]
  /\ abandoned' = abandoned \cup {[run |-> r, n |-> posting[r]]}
  /\ UNCHANGED <<sender, waited, receiver, inFlight>>

(* generate_jwk.                                                           *)
GenerateJwk_NotPublished(published) ==
  /\ key' = key + 1
  /\ publicKeys' = published

GenerateJwk(published) ==
  /\ key' = key + 1
  /\ publicKeys' = published \cup {key'}

(* The server crashes, its runs with it, and starts with a new sender.     *)
Restart ==
  /\ key <= MaxRestarts
  /\ GenerateJwk({})
  /\ gone' = gone \cup {r \in Runs : sent[r] > 0}
  /\ posting' = [r \in Runs |-> 0]
  /\ abandoned' = abandoned \cup {[run |-> r, n |-> posting[r]] : r \in {q \in Runs : posting[q] # 0}}
  /\ UNCHANGED <<sent, waited, receiver, inFlight>>

-----------------------------------------------------------------------------
(* The receiver.                                                           *)

(* get_signing_key_from_jwt: the keys it holds if the token's is among     *)
(* them and they are not too old, else those of the JWKS endpoint.         *)
KeysFor(kid) == IF kid \in keys THEN {keys, publicKeys} ELSE {publicKeys}

Fresh_InMilliseconds(m) == m.age = 0
Fresh(m) == m.age <= Freshness

(* handle_notification: verify the signature and the age.  A refusal, too, *)
(* is an answer (500) that ends the POST, unless it is lost.               *)
Deliver(m) ==
  /\ keys' \in KeysFor(m.kid)
  /\ accepted' = IF m.kid \in keys' /\ Fresh(m) THEN Append(accepted, Note(m)) ELSE accepted
  /\ inFlight' = inFlight \ {m}
  /\ \E answered \in BOOLEAN :
       posting' = IF answered /\ posting[m.run] = m.n THEN [posting EXCEPT ![m.run] = 0]
                                                      ELSE posting
  /\ UNCHANGED <<sender, waited, abandoned>>

Lose(m) ==
  /\ inFlight' = inFlight \ {m}
  /\ UNCHANGED <<sender, waiting, receiver>>

(* A tick of time; no POST waits beyond its timeout.                       *)
Tick ==
  /\ \A r \in Runs : posting[r] # 0 => waited[r] < PostTimeout
  /\ waited' = [r \in Runs |-> IF posting[r] # 0 THEN waited[r] + 1 ELSE 0]
  /\ inFlight' = {[m EXCEPT !.age = IF @ < MaxAge THEN @ + 1 ELSE @] : m \in inFlight}
  /\ UNCHANGED <<sender, posting, abandoned, receiver>>

Next ==
  \/ \E r \in Runs : Notify(r) \/ GiveUp(r)
  \/ \E m \in inFlight : Deliver(m) \/ Lose(m)
  \/ Restart
  \/ Tick

Spec == Init /\ [][Next]_vars

(* Time passes, and a POST whose time is up is given up.  The network owes *)
(* nothing.                                                                *)
FairSpec ==
  /\ Spec
  /\ WF_vars(Tick)
  /\ \A r \in Runs : WF_vars(waited[r] = PostTimeout /\ GiveUp(r))

-----------------------------------------------------------------------------
(* Properties.                                                             *)

(* Of one run, the listener takes a notification after a later one only if *)
(* the sender had given the earlier one up.                                *)
OvertakenWasAbandoned ==
  \A i, j \in DOMAIN accepted :
    (i < j /\ accepted[i].run = accepted[j].run /\ accepted[i].n > accepted[j].n) =>
      accepted[j] \in abandoned

(* No notification is taken twice, also when its answer was lost.          *)
AtMostOnce == \A i, j \in DOMAIN accepted : accepted[i] = accepted[j] => i = j

(* A notification that reaches the listener in time is taken, whether or   *)
(* not the listener already knew the key; only one that is too old or was  *)
(* signed by a process that is gone may be refused.                        *)
GoodOnesAreTaken ==
  [][\A m \in inFlight : (Deliver(m) /\ m.kid = key /\ m.age <= Freshness) =>
       accepted' # accepted]_vars

(* No notification holds up the request it belongs to for ever.            *)
PostsEnd == \A r \in Runs : (posting[r] # 0) ~> (posting[r] = 0)

(* The inductive invariant.  A notification under way is the only one of   *)
(* its number, the receiver has not taken it, and its coroutine still      *)
(* waits for it or has given it up; nothing beyond what was sent arrives.  *)
OnlyCopy ==
  /\ \A m1, m2 \in inFlight : Note(m1) = Note(m2) => m1 = m2
  /\ \A m \in inFlight, i \in DOMAIN accepted : accepted[i] # Note(m)

AwaitedOrAbandoned == \A m \in inFlight : posting[m.run] = m.n \/ Note(m) \in abandoned

WithinSent ==
  /\ \A r \in Runs : posting[r] \in {0, sent[r]}
  /\ \A m \in inFlight : m.n <= sent[m.run]
  /\ \A i \in DOMAIN accepted : accepted[i].n <= sent[accepted[i].run]

PInv ==
  /\ TypeOK
  /\ OnlyCopy
  /\ AwaitedOrAbandoned
  /\ WithinSent
  /\ AtMostOnce
  /\ OvertakenWasAbandoned
=============================================================================
