------------------------ MODULE PushNotificationsProofs ------------------------
(***************************************************************************)
(* Proofs about PushNotifications: the receiver takes no notification      *)
(* twice, takes an overtaken one only if it had been given up, and refuses *)
(* none that is good.                                                      *)
(***************************************************************************)
EXTENDS PushNotifications, SequenceTheorems, TLAPS

-----------------------------------------------------------------------------
(* Sequences and times.                                                    *)

LEMMA OneTaken ==
  ASSUME NEW S, NEW s \in Seq(S), NEW e \in S
  PROVE  /\ Append(s, e) \in Seq(S)
         /\ DOMAIN s = 1..Len(s) /\ Len(s) \in Nat
         /\ DOMAIN Append(s, e) = 1..(Len(s) + 1)
         /\ \A i \in DOMAIN s : Append(s, e)[i] = s[i]
         /\ Append(s, e)[Len(s) + 1] = e
BY AppendProperties, LenProperties

LEMMA NextKey == ASSUME NEW k \in Nat PROVE 1..k \subseteq 1..(k + 1)
OBVIOUS

Envelopes(k) == [run : Runs, n : 1..MaxUpdates, kid : 1..k, age : 0..MaxAge]

LEMMA NoteTyped ==
  ASSUME TypeOK, NEW m \in inFlight
  PROVE  /\ Note(m) \in Notes /\ m.run \in Runs /\ m.n \in 1..MaxUpdates
         /\ Note(m).run = m.run /\ Note(m).n = m.n
BY DEF TypeOK, Note, Notes

-----------------------------------------------------------------------------
(* Type correctness.                                                       *)

LEMMA NextTypeOK ==
  ASSUME TypeOK, WithinSent, [Next]_vars
  PROVE  TypeOK'
<1> USE PushAssumption DEF TypeOK, Keys, sender, waiting, receiver
<1>0. key \in Nat
  OBVIOUS
<1>1. ASSUME NEW r \in Runs, Notify(r)
      PROVE  TypeOK'
  <2>1. sent[r] + 1 \in 1..MaxUpdates /\ sent'[r] = sent[r] + 1
    BY <1>1 DEF Notify
  <2>2. [run |-> r, n |-> sent'[r], kid |-> key, age |-> 0] \in Envelopes(key)
    BY <2>1 DEF Envelopes, MaxAge
  <2>3. inFlight' \subseteq Envelopes(key)
    BY <1>1, <2>2 DEF Notify, Envelopes
  <2> QED
    BY <1>1, <2>1, <2>3 DEF Notify, Envelopes
<1>2. ASSUME NEW r \in Runs, GiveUp(r)
      PROVE  TypeOK'
  <2>1. [run |-> r, n |-> posting[r]] \in Notes
    BY <1>2 DEF GiveUp, Notes
  <2> QED
    BY <1>2, <2>1 DEF GiveUp
<1>3. ASSUME NEW m \in inFlight, Deliver(m)
      PROVE  TypeOK'
  <2>1. keys' \subseteq 1..key /\ UNCHANGED <<key, publicKeys, sent, gone, waited, abandoned>>
    BY <1>3 DEF Deliver, KeysFor
  <2>2. accepted' \in Seq(Notes)
    BY <1>3, NoteTyped, OneTaken DEF Deliver
  <2>3. posting' \in [Runs -> 0..MaxUpdates]
    BY <1>3 DEF Deliver
  <2>4. inFlight' \subseteq inFlight
    BY <1>3 DEF Deliver
  <2> QED
    BY <2>1, <2>2, <2>3, <2>4
<1>4. ASSUME NEW m \in inFlight, Lose(m)
      PROVE  TypeOK'
  BY <1>4 DEF Lose
<1>5. CASE Restart
  <2>1. key' = key + 1 /\ key' \in Keys /\ publicKeys' = {key'}
    BY <1>5 DEF Restart, GenerateJwk
  <2>2. keys' \subseteq 1..key' /\ inFlight' \subseteq Envelopes(key')
    <3>1. 1..key \subseteq 1..key'
      BY <1>0, <2>1, NextKey
    <3>2. Envelopes(key) \subseteq Envelopes(key')
      BY <3>1 DEF Envelopes
    <3> QED
      BY <1>5, <3>1, <3>2 DEF Restart, Envelopes
  <2>3. \A q \in Runs : posting[q] # 0 => [run |-> q, n |-> posting[q]] \in Notes
    BY DEF Notes
  <2>4. abandoned' \subseteq Notes
    BY <1>5, <2>3 DEF Restart
  <2> QED
    BY <1>5, <2>1, <2>2, <2>4 DEF Restart, Envelopes
<1>6. CASE Tick
  <2>1. waited' \in [Runs -> 0..PostTimeout]
    BY <1>6 DEF Tick
  <2>2. inFlight' \subseteq Envelopes(key)
    <3>1. ASSUME NEW m \in inFlight
          PROVE  [m EXCEPT !.age = IF @ < MaxAge THEN @ + 1 ELSE @] \in Envelopes(key)
      <4> DEFINE age == IF m.age < MaxAge THEN m.age + 1 ELSE m.age
      <4>1. m \in Envelopes(key)
        BY DEF Envelopes
      <4>2. age \in 0..MaxAge
        BY <4>1 DEF Envelopes, MaxAge
      <4>3. [m EXCEPT !.age = age] \in Envelopes(key)
        <5> HIDE DEF age
        <5> QED
          BY <4>1, <4>2 DEF Envelopes
      <4> QED
        BY <4>3
    <3> QED
      BY <1>6, <3>1 DEF Tick
  <2> QED
    BY <1>6, <2>1, <2>2 DEF Tick, Envelopes
<1>7. CASE UNCHANGED vars
  BY <1>7 DEF vars
<1> QED
  BY <1>1, <1>2, <1>3, <1>4, <1>5, <1>6, <1>7 DEF Next

-----------------------------------------------------------------------------
(* The rest of the invariant, one lemma per action.                        *)

Rest == OnlyCopy /\ AwaitedOrAbandoned /\ WithinSent /\ AtMostOnce /\ OvertakenWasAbandoned

(* As long as the receiver takes nothing, its history stays as it should.  *)
LEMMA UntakenHistory ==
  ASSUME AtMostOnce, OvertakenWasAbandoned, UNCHANGED accepted, abandoned \subseteq abandoned'
  PROVE  AtMostOnce' /\ OvertakenWasAbandoned'
BY DEF AtMostOnce, OvertakenWasAbandoned

LEMMA NotifyRest ==
  ASSUME TypeOK, Rest, NEW r \in Runs, Notify(r)
  PROVE  Rest'
<1> DEFINE new == [run |-> r, n |-> sent'[r], kid |-> key, age |-> 0]
<1>1. /\ posting[r] = 0 /\ sent'[r] = sent[r] + 1 /\ posting'[r] = sent'[r]
      /\ sent[r] \in Nat /\ sent'[r] > sent[r]
      /\ \A q \in Runs : q # r => sent'[q] = sent[q] /\ posting'[q] = posting[q]
      /\ inFlight' = inFlight \cup {new}
      /\ UNCHANGED <<abandoned, accepted>>
  BY DEF Notify, receiver, TypeOK
<1>2. new.run = r /\ new.n = sent'[r] /\ Note(new) = [run |-> r, n |-> sent'[r]]
  BY DEF Note
<1> HIDE DEF new
<1>3. ASSUME NEW m \in inFlight
      PROVE  /\ m.run \in Runs /\ m.n \in Nat /\ m.n <= sent[m.run]
             /\ Note(m).run = m.run /\ Note(m).n = m.n
             /\ m.n # 0 /\ Note(m) # Note(new)
  BY <1>1, <1>2, NoteTyped DEF Rest, WithinSent
<1>4. ASSUME NEW i \in DOMAIN accepted
      PROVE  /\ accepted[i].run \in Runs /\ accepted[i].n \in Nat
             /\ accepted[i].n <= sent[accepted[i].run] /\ accepted[i] # Note(new)
  <2>1. accepted[i] \in Notes
    BY DEF TypeOK
  <2> QED
    BY <1>1, <1>2, <2>1 DEF Rest, WithinSent, Notes
<1>5. OnlyCopy'
  BY <1>1, <1>3, <1>4 DEF Rest, OnlyCopy, Note
<1>6. AwaitedOrAbandoned'
  <2>1. ASSUME NEW m \in inFlight
        PROVE  posting'[m.run] = m.n \/ Note(m) \in abandoned'
    BY <1>1, <1>3 DEF Rest, AwaitedOrAbandoned
  <2> QED
    BY <1>1, <1>2, <2>1 DEF AwaitedOrAbandoned, Note
<1>7. WithinSent'
  <2>1. \A q \in Runs : sent[q] \in Nat /\ sent'[q] \in Nat /\ sent[q] <= sent'[q]
    BY <1>1 DEF TypeOK
  <2>2. \A m \in inFlight : m.n <= sent'[m.run]
    BY <1>3, <2>1
  <2>3. \A i \in DOMAIN accepted : accepted[i].n <= sent'[accepted[i].run]
    BY <1>4, <2>1
  <2> QED
    BY <1>1, <1>2, <2>1, <2>2, <2>3 DEF Rest, WithinSent
<1> QED
  BY <1>1, <1>5, <1>6, <1>7, UntakenHistory DEF Rest

LEMMA GiveUpRest ==
  ASSUME TypeOK, Rest, NEW r \in Runs, GiveUp(r)
  PROVE  Rest'
<1>1. /\ posting'[r] = 0 /\ posting[r] # 0
      /\ \A q \in Runs : q # r => posting'[q] = posting[q]
      /\ abandoned' = abandoned \cup {[run |-> r, n |-> posting[r]]}
      /\ UNCHANGED <<inFlight, accepted, sent>>
  BY DEF GiveUp, receiver, sender, TypeOK
<1>2. OnlyCopy' /\ WithinSent'
  BY <1>1 DEF Rest, OnlyCopy, WithinSent, Note
<1>3. AwaitedOrAbandoned'
  <2>1. ASSUME NEW m \in inFlight
        PROVE  posting'[m.run] = m.n \/ Note(m) \in abandoned'
    <3>1. m.run \in Runs /\ Note(m) = [run |-> m.run, n |-> m.n]
      BY NoteTyped DEF Note
    <3>2. posting[m.run] = m.n \/ Note(m) \in abandoned
      BY DEF Rest, AwaitedOrAbandoned
    <3> QED
      BY <1>1, <3>1, <3>2
  <2> QED
    BY <1>1, <2>1 DEF AwaitedOrAbandoned, Note
<1> QED
  BY <1>1, <1>2, <1>3, UntakenHistory DEF Rest

LEMMA RestartRest ==
  ASSUME TypeOK, Rest, Restart
  PROVE  Rest'
<1>1. /\ posting' = [r \in Runs |-> 0]
      /\ abandoned' = abandoned \cup
           {[run |-> r, n |-> posting[r]] : r \in {q \in Runs : posting[q] # 0}}
      /\ UNCHANGED <<inFlight, accepted, sent>>
  BY DEF Restart, receiver
<1>2. OnlyCopy' /\ WithinSent'
  BY <1>1 DEF Rest, OnlyCopy, WithinSent, Note
<1>3. AwaitedOrAbandoned'
  <2>1. ASSUME NEW m \in inFlight
        PROVE  Note(m) \in abandoned'
    <3>1. m.run \in Runs /\ m.n \in 1..MaxUpdates /\ Note(m) = [run |-> m.run, n |-> m.n]
      BY NoteTyped DEF Note
    <3>2. m.n # 0
      BY <3>1, PushAssumption
    <3>3. posting[m.run] = m.n \/ Note(m) \in abandoned
      BY DEF Rest, AwaitedOrAbandoned
    <3> QED
      BY <1>1, <3>1, <3>2, <3>3
  <2> QED
    BY <1>1, <2>1 DEF AwaitedOrAbandoned, Note
<1> QED
  BY <1>1, <1>2, <1>3, UntakenHistory DEF Rest

LEMMA DeliverRest ==
  ASSUME TypeOK, Rest, NEW m \in inFlight, Deliver(m)
  PROVE  Rest'
<1> DEFINE note == Note(m)
<1>1. /\ note \in Notes /\ m.run \in Runs /\ m.n \in 1..MaxUpdates
      /\ note.run = m.run /\ note.n = m.n
  BY NoteTyped
<1>2. /\ accepted' \in {accepted, Append(accepted, note)}
      /\ inFlight' = inFlight \ {m}
      /\ UNCHANGED <<sent, abandoned>>
      /\ posting' = posting \/ (posting[m.run] = m.n /\ posting' = [posting EXCEPT ![m.run] = 0])
  BY DEF Deliver, sender
<1> HIDE DEF note
<1>3. ASSUME NEW w \in inFlight'
      PROVE  /\ w \in inFlight /\ w.run \in Runs /\ w.n \in 1..MaxUpdates
             /\ Note(w) # note /\ Note(w) = [run |-> w.run, n |-> w.n]
             /\ (w.run # m.run \/ w.n # m.n)
  BY <1>1, <1>2, NoteTyped DEF Rest, OnlyCopy, Note, note
<1>4. /\ DOMAIN accepted = 1..Len(accepted) /\ Len(accepted) \in Nat
      /\ \A i \in DOMAIN accepted : accepted[i] \in Notes /\ accepted[i] # note
  BY LenProperties DEF TypeOK, Rest, OnlyCopy, note
<1>5. accepted \in Seq(Notes)
  BY DEF TypeOK
<1>6. /\ DOMAIN Append(accepted, note) = 1..(Len(accepted) + 1)
      /\ \A i \in DOMAIN accepted : Append(accepted, note)[i] = accepted[i]
      /\ Append(accepted, note)[Len(accepted) + 1] = note
  BY <1>1, <1>5, OneTaken
<1>7. \A i \in DOMAIN accepted' :
        \/ i \in DOMAIN accepted /\ accepted'[i] = accepted[i]
        \/ i = Len(accepted) + 1 /\ accepted'[i] = note
  <2>1. CASE accepted' = accepted
    BY <2>1
  <2>2. CASE accepted' = Append(accepted, note)
    BY <1>4, <1>6, <2>2
  <2> QED
    BY <1>2, <2>1, <2>2
<1>8. OnlyCopy'
  <2>1. \A m1, m2 \in inFlight' : Note(m1) = Note(m2) => m1 = m2
    BY <1>3 DEF Rest, OnlyCopy
  <2>2. \A w \in inFlight', i \in DOMAIN accepted' : accepted'[i] # Note(w)
    BY <1>3, <1>7 DEF Rest, OnlyCopy
  <2> QED
    BY <2>1, <2>2 DEF OnlyCopy, Note
<1>9. AwaitedOrAbandoned'
  <2>1. ASSUME NEW w \in inFlight'
        PROVE  posting'[w.run] = w.n \/ Note(w) \in abandoned'
    <3>1. posting[w.run] = w.n \/ Note(w) \in abandoned
      BY <1>3 DEF Rest, AwaitedOrAbandoned
    <3>2. posting[w.run] = w.n => posting'[w.run] = w.n
      BY <1>1, <1>2, <1>3 DEF TypeOK
    <3> QED
      BY <1>2, <3>1, <3>2
  <2> QED
    BY <2>1 DEF AwaitedOrAbandoned, Note
<1>10. note.n <= sent[note.run]
  BY <1>1 DEF Rest, WithinSent
<1>11. WithinSent'
  <2>1. \A r \in Runs : posting'[r] \in {0, sent'[r]}
    BY <1>1, <1>2 DEF Rest, WithinSent, TypeOK
  <2>2. \A w \in inFlight' : w.n <= sent'[w.run]
    BY <1>2, <1>3 DEF Rest, WithinSent
  <2>3. \A i \in DOMAIN accepted' : accepted'[i].n <= sent'[accepted'[i].run]
    BY <1>2, <1>7, <1>10 DEF Rest, WithinSent
  <2> QED
    BY <2>1, <2>2, <2>3 DEF WithinSent
<1>12. AtMostOnce'
  BY <1>4, <1>7 DEF Rest, AtMostOnce
<1>13. OvertakenWasAbandoned'
  <2>1. ASSUME NEW i \in DOMAIN accepted', NEW j \in DOMAIN accepted',
               i < j, accepted'[i].run = accepted'[j].run, accepted'[i].n > accepted'[j].n
        PROVE  accepted'[j] \in abandoned'
    <3>1. CASE j \in DOMAIN accepted
      <4>1. /\ i \in DOMAIN accepted
            /\ accepted'[i] = accepted[i] /\ accepted'[j] = accepted[j]
        BY <1>4, <1>7, <2>1, <3>1
      <4> QED
        BY <1>2, <2>1, <3>1, <4>1 DEF Rest, OvertakenWasAbandoned
    <3>2. CASE j \notin DOMAIN accepted
      <4>1. /\ j = Len(accepted) + 1 /\ accepted'[j] = note
            /\ i \in DOMAIN accepted /\ accepted'[i] = accepted[i]
        BY <1>4, <1>7, <2>1, <3>2
      <4>2. accepted[i].run = m.run /\ accepted[i].n > m.n /\ accepted[i].n <= sent[m.run]
        BY <1>1, <2>1, <4>1 DEF Rest, WithinSent
      <4>3. /\ m.n # sent[m.run] /\ m.n # 0
        BY <1>1, <1>4, <4>1, <4>2 DEF TypeOK, Notes
      <4>4. posting[m.run] # m.n
        BY <1>1, <4>3 DEF Rest, WithinSent
      <4> QED
        BY <1>2, <4>1, <4>4 DEF Rest, AwaitedOrAbandoned, note
    <3> QED
      BY <3>1, <3>2
  <2> QED
    BY <2>1 DEF OvertakenWasAbandoned
<1> QED
  BY <1>8, <1>9, <1>11, <1>12, <1>13 DEF Rest

LEMMA LoseRest ==
  ASSUME TypeOK, Rest, NEW m \in inFlight, Lose(m)
  PROVE  Rest'
<1>1. inFlight' \subseteq inFlight /\ UNCHANGED <<sent, posting, abandoned, accepted>>
  BY DEF Lose, sender, waiting, receiver
<1>2. OnlyCopy' /\ AwaitedOrAbandoned' /\ WithinSent'
  BY <1>1 DEF Rest, OnlyCopy, AwaitedOrAbandoned, WithinSent, Note
<1> QED
  BY <1>1, <1>2, UntakenHistory DEF Rest

(* Time changes the age of what is under way, and nothing else about it.   *)
LEMMA TickRest ==
  ASSUME TypeOK, Rest, Tick
  PROVE  Rest'
<1> DEFINE aged(m) == [m EXCEPT !.age = IF @ < MaxAge THEN @ + 1 ELSE @]
<1>1. /\ inFlight' = {aged(m) : m \in inFlight}
      /\ UNCHANGED <<sent, posting, abandoned, accepted>>
  BY DEF Tick, sender, receiver
<1>2. ASSUME NEW m \in inFlight
      PROVE  aged(m).run = m.run /\ aged(m).n = m.n /\ Note(aged(m)) = Note(m)
  BY DEF TypeOK, Note
<1> HIDE DEF aged
<1>3. OnlyCopy'
  <2>1. \A m1, m2 \in inFlight' : Note(m1) = Note(m2) => m1 = m2
    BY <1>1, <1>2 DEF Rest, OnlyCopy
  <2>2. \A m \in inFlight', i \in DOMAIN accepted' : accepted'[i] # Note(m)
    BY <1>1, <1>2 DEF Rest, OnlyCopy
  <2> QED
    BY <2>1, <2>2 DEF OnlyCopy, Note
<1>4. AwaitedOrAbandoned'
  <2>1. \A m \in inFlight' : posting'[m.run] = m.n \/ Note(m) \in abandoned'
    BY <1>1, <1>2 DEF Rest, AwaitedOrAbandoned
  <2> QED
    BY <2>1 DEF AwaitedOrAbandoned, Note
<1>5. WithinSent'
  BY <1>1, <1>2 DEF Rest, WithinSent
<1> QED
  BY <1>1, <1>3, <1>4, <1>5, UntakenHistory DEF Rest

LEMMA NextRest ==
  ASSUME TypeOK, Rest, [Next]_vars
  PROVE  Rest'
<1>1. CASE UNCHANGED vars
  <2>1. UNCHANGED <<inFlight, sent, posting, abandoned, accepted>>
    BY <1>1 DEF vars
  <2>2. OnlyCopy' /\ AwaitedOrAbandoned' /\ WithinSent'
    BY <2>1 DEF Rest, OnlyCopy, AwaitedOrAbandoned, WithinSent, Note
  <2> QED
    BY <2>1, <2>2, UntakenHistory DEF Rest
<1> QED
  BY <1>1, NotifyRest, GiveUpRest, RestartRest, DeliverRest, LoseRest, TickRest DEF Next

-----------------------------------------------------------------------------
(* The inductive invariant, and what follows from it.                      *)

LEMMA InitPInv == Init => PInv
<1> SUFFICES ASSUME Init
             PROVE  PInv
  OBVIOUS
<1>1. TypeOK
  BY PushAssumption DEF Init, TypeOK, Keys
<1>2. OnlyCopy /\ AwaitedOrAbandoned /\ WithinSent /\ AtMostOnce /\ OvertakenWasAbandoned
  BY DEF Init, OnlyCopy, AwaitedOrAbandoned, WithinSent, AtMostOnce, OvertakenWasAbandoned
<1> QED
  BY <1>1, <1>2 DEF PInv

LEMMA NextPInv == PInv /\ [Next]_vars => PInv'
BY NextTypeOK, NextRest DEF PInv, Rest

(* PInv holds in every reachable state.                                    *)
THEOREM PushInductive == Spec => []PInv
BY InitPInv, NextPInv, PTL DEF Spec

(* The variables of sender, network and receiver keep their shape.         *)
THEOREM PushTypeCorrect == Spec => []TypeOK
<1>1. PInv => TypeOK
  BY DEF PInv
<1> QED
  BY <1>1, PushInductive, PTL

(* A notification is signed and posted once, so that the listener takes it *)
(* at most once, also when the answer was lost and the sender gave it up.  *)
THEOREM NoDuplicate == Spec => []AtMostOnce
<1>1. PInv => AtMostOnce
  BY DEF PInv
<1> QED
  BY <1>1, PushInductive, PTL

(* send_task_notification is awaited: a later notification of the same run *)
(* overtakes an earlier one only if that had failed or timed out.          *)
THEOREM OvertakingIsExplained == Spec => []OvertakenWasAbandoned
<1>1. PInv => OvertakenWasAbandoned
  BY DEF PInv
<1> QED
  BY <1>1, PushInductive, PTL

(* The listener refuses no fresh notification that the running sender has  *)
(* signed: a key it does not hold makes it fetch those that are published. *)
THEOREM GoodOnesAreNotRefused == Spec => GoodOnesAreTaken
<1>1. PInv /\ [Next]_vars =>
        [\A m \in inFlight : (Deliver(m) /\ m.kid = key /\ m.age <= Freshness) =>
           accepted' # accepted]_vars
  <2> SUFFICES ASSUME TypeOK, NEW m \in inFlight, Deliver(m), m.kid = key, m.age <= Freshness
               PROVE  accepted' # accepted
    BY DEF PInv
  <2>1. key \in keys'
    BY DEF Deliver, KeysFor, TypeOK
  <2>2. accepted' = Append(accepted, Note(m))
    BY <2>1 DEF Deliver, Fresh
  <2>3. Len(accepted') = Len(accepted) + 1 /\ Len(accepted) \in Nat
    BY <2>2, NoteTyped, AppendProperties, LenProperties DEF TypeOK
  <2> QED
    BY <2>3
<1> QED
  BY <1>1, PushInductive, PTL DEF Spec, GoodOnesAreTaken
=============================================================================
