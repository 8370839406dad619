----------------------------- MODULE EventTopic -----------------------------
(***************************************************************************)
(* What the SSE half of InMemoryTaskManager promises, without queues:      *)
(* every topic (a task) is a log that only grows, and every reader (a      *)
(* tasks/sendSubscribe call) reads the log of its topic from the point     *)
(* where it subscribed, each entry once and in order, up to the first      *)
(* entry that ends a stream, unless it leaves before.                      *)
(***************************************************************************)
EXTENDS Naturals, Sequences

CONSTANTS
  Readers,
  Topics,
  NoTopic,
  Ends(_)      (* is this the last entry a reader is shown?                *)

VARIABLES
  log,         (* per topic, what has been published                       *)
  topic,       (* per reader, the topic it subscribed to                   *)
  from,        (* per reader, the length of the log at that moment         *)
  got,         (* per reader, what it has been shown                       *)
  open         (* the readers that may be shown more                       *)

tvars == <<log, topic, from, got, open>>

TopicInit ==
  /\ log = [t \in Topics |-> <<>>]
  /\ topic = [r \in Readers |-> NoTopic]
  /\ from = [r \in Readers |-> 0]
  /\ got = [r \in Readers |-> <<>>]
  /\ open = {}

Publish(t) ==
  /\ Len(log[t]) < Len(log'[t])
  /\ SubSeq(log'[t], 1, Len(log[t])) = log[t]
  /\ log' = [log EXCEPT ![t] = log'[t]]
  /\ UNCHANGED <<topic, from, got, open>>

Subscribe(r, t) ==
  /\ topic[r] = NoTopic
  /\ topic' = [topic EXCEPT ![r] = t]
  /\ from' = [from EXCEPT ![r] = Len(log[t])]
  /\ open' = open \cup {r}
  /\ UNCHANGED <<log, got>>

NextEntry(r) == log[topic[r]][from[r] + Len(got[r]) + 1]

Read(r) ==
  /\ r \in open
  /\ from[r] + Len(got[r]) < Len(log[topic[r]])
  /\ got' = [got EXCEPT ![r] = Append(@, NextEntry(r))]
  /\ open' = IF Ends(NextEntry(r)) THEN open \ {r} ELSE open
  /\ UNCHANGED <<log, topic, from>>

Leave(r) ==
  /\ r \in open
  /\ open' = open \ {r}
  /\ UNCHANGED <<log, topic, from, got>>

TopicNext ==
  \/ \E t \in Topics : Publish(t)
  \/ \E r \in Readers, t \in Topics : Subscribe(r, t)
  \/ \E r \in Readers : Read(r) \/ Leave(r)

TopicSpec == TopicInit /\ [][TopicNext]_tvars
=============================================================================
