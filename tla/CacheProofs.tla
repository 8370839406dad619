------------------------------ MODULE CacheProofs ------------------------------
(***************************************************************************)
(* Proofs about InMemoryCache: double-checked locking creates one cache    *)
(* and lets no thread use a half-made one, and the operations of all       *)
(* threads together behave as Cache promises.                              *)
(***************************************************************************)
EXTENDS InMemoryCache, FiniteSetTheorems, TLAPS

-----------------------------------------------------------------------------
(* Type correctness.                                                       *)

LEMMA OneIsObject ==
  ASSUME NEW t \in Threads
  PROVE  1 \in Objects
<1>1. Cardinality(Threads) \in Nat /\ Cardinality(Threads) # 0
  BY CacheAssumption, FS_CardinalityType, FS_EmptySet
<1> QED
  BY <1>1 DEF Objects

Maps(S) == [Objects -> [Keys -> S]]

LEMMA EmptyMaps ==
  /\ NoData \in [Keys -> Values \cup {Absent}]
  /\ NoExpiry \in [Keys -> Nat \cup {Never}]
BY DEF NoData, NoExpiry

(* A write under one key of one object changes nothing else.               *)
LEMMA WriteOne ==
  ASSUME NEW S, NEW map \in Maps(S), NEW i \in Objects, NEW k \in Keys, NEW v \in S,
         NEW after, after = [map EXCEPT ![i][k] = v]
  PROVE  /\ after \in Maps(S)
         /\ after[i][k] = v
         /\ \A l \in Keys : l # k => after[i][l] = map[i][l]
         /\ \A j \in Objects : j # i => after[j] = map[j]
BY DEF Maps

(* A thread in an operation has an object and, but for clear, a key.       *)
LEMMA OperationTyped ==
  ASSUME TypeOK, OneObject, NEW t \in Threads, pc[t] \notin {"idle", "new_lock", "new_body"}
  PROVE  self[t] \in Objects /\ self[t] = 1 /\ instance = 1
BY OneIsObject DEF OneObject

LEMMA KeyTyped ==
  ASSUME InOperation, NEW t \in Threads,
         pc[t] \in {"set_value", "set_ttl", "get_value", "get_ttl", "delete_value", "delete_ttl"}
  PROVE  /\ op[t].key \in Keys
         /\ pc[t] \in {"set_value", "set_ttl"} => /\ op[t].value \in Values
                                                  /\ op[t].ttl \in Ttls \cup {Never}
BY DEF InOperation, SetOperation, KeyOperation

LEMMA ConstructionTypeOK ==
  ASSUME TypeOK, OneObject, NEW t \in Threads, Construction(t)
  PROVE  TypeOK'
<1> USE OneIsObject DEF TypeOK, ConstructionPcs, OperationPcs, Goto, object, storage, history
<1>1. CASE Construct(t)
  BY <1>1 DEF Construct
<1>2. CASE AcquireClassLock(t)
  BY <1>2 DEF AcquireClassLock
<1>3. CASE NewBody(t)
  <2>1. instance' \in Objects /\ created' \in Objects
    BY <1>3 DEF NewBody, OneObject
  <2>2. UNCHANGED <<initialized, data, expires, dataLock, op, contents, result, clock>>
    BY <1>3 DEF NewBody
  <2> QED
    BY <1>3, <2>1, <2>2 DEF NewBody
<1>4. CASE InitCheck(t) \/ InitDone(t)
  BY <1>4 DEF InitCheck, InitDone
<1>5. CASE InitStorage(t)
  BY <1>5, EmptyMaps DEF InitStorage
<1>6. CASE InitFlag(t)
  BY <1>6 DEF InitFlag
<1> QED
  BY <1>1, <1>2, <1>3, <1>4, <1>5, <1>6 DEF Construction

LEMMA BeginTypeOK ==
  ASSUME TypeOK, NEW t \in Threads, Begin(t)
  PROVE  TypeOK'
<1> USE DEF TypeOK, ConstructionPcs, OperationPcs, object, history
<1>1. PICK o \in SetOperation \cup KeyOperation \cup {NoOperation},
            label \in {"set_value", "get_value", "delete_value", "clear_data"} :
        Call(t, o, label)
  BY DEF Begin
<1>2. /\ op' = [op EXCEPT ![t] = o] /\ pc' = [pc EXCEPT ![t] = label]
      /\ dataLock' = [dataLock EXCEPT ![self[t]] = t]
      /\ UNCHANGED <<instance, created, classLock, initialized, self, data, expires,
                     contents, result, clock>>
  BY <1>1 DEF Begin, Call, Goto
<1> QED
  BY <1>2

(* What the steps inside a with block do to the two maps.                  *)
LEMMA ReturnTypeOK ==
  ASSUME TypeOK, NEW t \in Threads, NEW v \in Values \cup {Absent} \cup BOOLEAN,
         self[t] \in Objects,
         data' \in Maps(Values \cup {Absent}), expires' \in Maps(Nat \cup {Never}),
         Return(t, v)
  PROVE  TypeOK'
<1> USE DEF TypeOK, ConstructionPcs, OperationPcs, object, history
<1>1. contents' \in [Keys -> [value : Values \cup {Absent}, expires : Nat \cup {Never}]]
  BY DEF Return, Entry, Maps
<1>2. result' \in [Threads -> Values \cup {Absent} \cup BOOLEAN]
  BY DEF Return
<1>3. dataLock' \in [Objects -> Threads \cup {Nobody, NoLock}]
  BY DEF Return
<1> QED
  BY <1>1, <1>2, <1>3 DEF Return, Goto, Maps

LEMMA ContinueTypeOK ==
  ASSUME TypeOK, NEW t \in Threads, NEW label \in OperationPcs,
         data' \in Maps(Values \cup {Absent}), expires' \in Maps(Nat \cup {Never}),
         Continue(t, label)
  PROVE  TypeOK'
BY DEF TypeOK, Continue, Goto, Maps, object, history

(* The accesses of an operation after Begin.                               *)
Access(t) ==
  \/ SetValue(t) \/ SetTtl(t) \/ GetValue(t) \/ GetTtl(t)
  \/ DeleteValue(t) \/ DeleteTtl(t) \/ ClearData(t) \/ ClearTtl(t)

LEMMA WritesTyped ==
  ASSUME TypeOK, NEW t \in Threads, self[t] \in Objects, op[t].key \in Keys
  PROVE  /\ \A v \in Values \cup {Absent} : WriteData(t, v) => data' \in Maps(Values \cup {Absent})
         /\ \A e \in Nat \cup {Never} : WriteExpiry(t, e) => expires' \in Maps(Nat \cup {Never})
         /\ data[self[t]][op[t].key] \in Values \cup {Absent}
         /\ ExpiryOf(t) \in Nat \cup {Never}
<1>0. data \in Maps(Values \cup {Absent}) /\ expires \in Maps(Nat \cup {Never})
  BY DEF TypeOK, Maps
<1>1. ASSUME NEW v \in Values \cup {Absent}, WriteData(t, v)
      PROVE  data' \in Maps(Values \cup {Absent})
  BY <1>0, <1>1, WriteOne DEF WriteData
<1>2. ASSUME NEW e \in Nat \cup {Never}, WriteExpiry(t, e)
      PROVE  expires' \in Maps(Nat \cup {Never})
  BY <1>0, <1>2, WriteOne DEF WriteExpiry
<1>3. /\ data[self[t]][op[t].key] \in Values \cup {Absent}
      /\ expires[self[t]][op[t].key] \in Nat \cup {Never}
  BY <1>0 DEF Maps
<1> QED
  BY <1>1, <1>2, <1>3 DEF ExpiryOf

LEMMA AccessTypeOK ==
  ASSUME TypeOK, OneObject, InOperation, NEW t \in Threads, Access(t)
  PROVE  TypeOK'
<1>0. /\ pc[t] \in OperationPcs /\ self[t] \in Objects
      /\ data \in Maps(Values \cup {Absent}) /\ expires \in Maps(Nat \cup {Never})
  <2>1. pc[t] \in OperationPcs
    BY DEF Access, SetValue, SetTtl, GetValue, GetTtl, DeleteValue, DeleteTtl, ClearData,
           ClearTtl, OperationPcs
  <2> QED
    BY <2>1, OperationTyped DEF OperationPcs, TypeOK, Maps
<1>1. CASE SetValue(t)
  <2>1. op[t].key \in Keys /\ op[t].value \in Values
    BY <1>1, KeyTyped DEF SetValue
  <2>2. data' \in Maps(Values \cup {Absent}) /\ expires' \in Maps(Nat \cup {Never})
    BY <1>0, <1>1, <2>1, WritesTyped DEF SetValue
  <2> QED
    BY <1>1, <2>2, ContinueTypeOK DEF SetValue, OperationPcs
<1>2. CASE SetTtl(t)
  <2> DEFINE e == IF op[t].ttl = Never THEN Never ELSE clock + op[t].ttl
  <2>1. op[t].key \in Keys /\ op[t].ttl \in Ttls \cup {Never}
    BY <1>2, KeyTyped DEF SetTtl
  <2>2. e \in Nat \cup {Never}
    <3>1. CASE op[t].ttl = Never
      BY <3>1
    <3>2. CASE op[t].ttl # Never
      <4>1. op[t].ttl \in Nat
        BY <2>1, <3>2, CacheAssumption
      <4>3. clock \in Nat
        BY CacheAssumption DEF TypeOK
      <4>2. clock + op[t].ttl \in Nat
        BY <4>1, <4>3
      <4> QED
        BY <3>2, <4>2
    <3> QED
      BY <3>1, <3>2
  <2>3. WriteExpiry(t, e) /\ UNCHANGED data /\ Return(t, Absent)
    BY <1>2 DEF SetTtl
  <2> HIDE DEF e
  <2>4. expires' \in Maps(Nat \cup {Never})
    BY <1>0, <2>1, <2>2, <2>3, WritesTyped
  <2> QED
    BY <1>0, <2>3, <2>4, ReturnTypeOK
<1>3. CASE GetValue(t)
  <2>1. op[t].key \in Keys
    BY <1>3, KeyTyped DEF GetValue
  <2>2. CASE ExpiryOf(t) # Never /\ clock > ExpiryOf(t)
    <3>1. WriteData(t, Absent) /\ Continue(t, "get_ttl") /\ UNCHANGED expires
      BY <1>3, <2>2 DEF GetValue
    <3> QED
      BY <1>0, <2>1, <3>1, WritesTyped, ContinueTypeOK DEF OperationPcs
  <2>3. CASE ~(ExpiryOf(t) # Never /\ clock > ExpiryOf(t))
    <3>1. UNCHANGED <<data, expires>> /\ Return(t, data[self[t]][op[t].key])
      BY <1>3, <2>3 DEF GetValue
    <3>2. data[self[t]][op[t].key] \in Values \cup {Absent}
      BY <1>0, <2>1, WritesTyped
    <3> QED
      BY <1>0, <3>1, <3>2, ReturnTypeOK
  <2> QED
    BY <2>2, <2>3
<1>4. CASE GetTtl(t) \/ DeleteTtl(t)
  <2>1. op[t].key \in Keys
    BY <1>4, KeyTyped DEF GetTtl, DeleteTtl
  <2>2. WriteExpiry(t, Never) /\ UNCHANGED data /\ (Return(t, Absent) \/ Return(t, TRUE))
    BY <1>4 DEF GetTtl, DeleteTtl
  <2> QED
    BY <1>0, <2>1, <2>2, WritesTyped, ReturnTypeOK
<1>5. CASE DeleteValue(t)
  <2>1. op[t].key \in Keys
    BY <1>5, KeyTyped DEF DeleteValue
  <2>2. \/ UNCHANGED <<data, expires>> /\ Return(t, FALSE)
        \/ WriteData(t, Absent) /\ UNCHANGED expires /\ Continue(t, "delete_ttl")
    BY <1>5 DEF DeleteValue
  <2> QED
    BY <1>0, <2>1, <2>2, WritesTyped, ReturnTypeOK, ContinueTypeOK DEF OperationPcs
<1>6. CASE ClearData(t)
  <2>1. data' \in Maps(Values \cup {Absent})
    BY <1>0, <1>6, EmptyMaps DEF ClearData, Maps
  <2> QED
    BY <1>0, <1>6, <2>1, ContinueTypeOK DEF ClearData, OperationPcs
<1>7. CASE ClearTtl(t)
  <2>1. expires' \in Maps(Nat \cup {Never})
    BY <1>0, <1>7, EmptyMaps DEF ClearTtl, Maps
  <2> QED
    BY <1>0, <1>7, <2>1, ReturnTypeOK DEF ClearTtl
<1> QED
  BY <1>1, <1>2, <1>3, <1>4, <1>5, <1>6, <1>7 DEF Access

LEMMA NextTypeOK ==
  ASSUME TypeOK, OneObject, InOperation, [Next]_vars
  PROVE  TypeOK'
<1>1. CASE Tick
  BY <1>1, CacheAssumption DEF Tick, TypeOK, object, storage, history
<1>2. CASE UNCHANGED vars
  BY <1>2 DEF vars, TypeOK
<1> QED
  BY <1>1, <1>2, ConstructionTypeOK, BeginTypeOK, AccessTypeOK DEF Next, OperationStep, Access

-----------------------------------------------------------------------------
(* Locks, the object and its flag.                                         *)

Control == Locks /\ OneObject /\ FlagIsHonest

LEMMA ConstructionControl ==
  ASSUME TypeOK, Control, NEW t \in Threads, Construction(t)
  PROVE  Control'
<1> USE CacheAssumption, OneIsObject DEF TypeOK, Control, Locks, OneObject, FlagIsHonest,
        ConstructionPcs, OperationPcs, Goto, object, storage, history
<1>1. CASE Construct(t)
  BY <1>1 DEF Construct
<1>2. CASE AcquireClassLock(t)
  BY <1>2 DEF AcquireClassLock
<1>3. CASE NewBody(t)
  <2>1. /\ pc[t] = "new_body" /\ classLock = t /\ classLock' = Nobody
        /\ pc' = [pc EXCEPT ![t] = "init_check"] /\ self' = [self EXCEPT ![t] = 1]
        /\ instance' = 1 /\ created' = 1 /\ UNCHANGED <<initialized, dataLock>>
    <3>1. pc[t] = "new_body" /\ classLock = t /\ instance \in {0, 1} /\ created = instance
      BY <1>3 DEF NewBody
    <3>2. instance' = 1 /\ created' = 1
      BY <1>3, <3>1 DEF NewBody
    <3> QED
      BY <1>3, <3>1, <3>2 DEF NewBody
  <2>2. Locks'
    BY <2>1
  <2>3. OneObject'
    <3>1. ASSUME NEW s \in Threads
          PROVE  IF pc'[s] \in {"idle", "new_lock", "new_body"}
                 THEN self'[s] = 0 ELSE self'[s] = 1
      <4>1. CASE s = t
        BY <2>1, <4>1
      <4>2. CASE s # t
        <5>1. pc'[s] = pc[s] /\ self'[s] = self[s]
          BY <2>1, <4>2
        <5> QED
          BY <5>1
      <4> QED
        BY <4>1, <4>2
    <3> QED
      BY <2>1, <3>1
  <2>4. FlagIsHonest'
    <3>1. ASSUME NEW i \in Objects, initialized'[i]
          PROVE  i = instance' /\ dataLock'[i] # NoLock
      <4>1. i = instance /\ dataLock[i] # NoLock /\ i # 0
        BY <2>1, <3>1 DEF Objects
      <4> QED
        BY <2>1, <4>1
    <3>2. ASSUME NEW s \in Threads
          PROVE  /\ pc'[s] \notin ConstructionPcs => initialized'[self'[s]]
                 /\ pc'[s] = "init_flag" => ~initialized'[self'[s]] /\ dataLock'[self'[s]] = Nobody
      BY <2>1
    <3> QED
      BY <3>1, <3>2
  <2> QED
    BY <2>2, <2>3, <2>4
<1>4. CASE InitCheck(t)
  BY <1>4 DEF InitCheck
<1>5. CASE InitDone(t)
  BY <1>5 DEF InitDone
<1>6. CASE InitStorage(t)
  <2>1. /\ pc[t] = "init_storage" /\ classLock = t
        /\ self[t] = 1 /\ instance = 1 /\ ~initialized[1]
        /\ dataLock' = [dataLock EXCEPT ![1] = Nobody]
        /\ pc' = [pc EXCEPT ![t] = "init_flag"]
        /\ UNCHANGED <<instance, created, classLock, initialized, self>>
    BY <1>6 DEF InitStorage
  <2>2. \A s \in Threads : pc[s] \in ConstructionPcs
    BY <2>1
  <2> QED
    BY <2>1, <2>2
<1>7. CASE InitFlag(t)
  <2>1. /\ pc[t] = "init_flag" /\ classLock = t /\ classLock' = Nobody
        /\ self[t] = 1 /\ instance = 1 /\ dataLock[1] = Nobody
        /\ initialized' = [initialized EXCEPT ![1] = TRUE]
        /\ pc' = [pc EXCEPT ![t] = "ready"]
        /\ UNCHANGED <<instance, created, dataLock, self>>
    <3>1. pc[t] = "init_flag"
      BY <1>7 DEF InitFlag
    <3>2. self[t] = 1 /\ instance = 1 /\ classLock = t /\ dataLock[1] = Nobody
      BY <3>1
    <3> QED
      BY <1>7, <3>1, <3>2 DEF InitFlag
  <2>2. Locks' /\ OneObject'
    BY <2>1
  <2>3. FlagIsHonest'
    <3>1. \A i \in Objects : initialized'[i] => i = instance' /\ dataLock'[i] # NoLock
      BY <2>1
    <3>2. ASSUME NEW s \in Threads
          PROVE  /\ pc'[s] \notin ConstructionPcs => initialized'[self'[s]]
                 /\ pc'[s] = "init_flag" => ~initialized'[self'[s]] /\ dataLock'[self'[s]] = Nobody
      <4>1. CASE s = t
        BY <2>1, <4>1
      <4>2. CASE s # t
        <5>1. pc'[s] = pc[s] /\ pc[s] # "init_flag"
          BY <2>1, <4>2
        <5>2. pc[s] \notin ConstructionPcs => self[s] = 1
          BY <2>1
        <5> QED
          BY <2>1, <5>1, <5>2
      <4> QED
        BY <4>1, <4>2
    <3> QED
      BY <3>1, <3>2
  <2> QED
    BY <2>2, <2>3
<1> QED
  BY <1>1, <1>2, <1>3, <1>4, <1>5, <1>6, <1>7 DEF Construction

LEMMA AccessSteps ==
  ASSUME NEW t \in Threads, Access(t)
  PROVE  /\ pc[t] \in OperationPcs
         /\ \/ \E v : Return(t, v)
            \/ \E label \in OperationPcs : Continue(t, label)
BY DEF Access, SetValue, SetTtl, GetValue, GetTtl, DeleteValue, DeleteTtl, ClearData,
       ClearTtl, OperationPcs

LEMMA OperationControl ==
  ASSUME TypeOK, Control, NEW t \in Threads, OperationStep(t)
  PROVE  Control'
<1> USE CacheAssumption, OneIsObject DEF TypeOK, Control, Locks, OneObject, FlagIsHonest,
        ConstructionPcs, OperationPcs, Goto, object, storage, history
<1>1. CASE Begin(t)
  <2>1. PICK label \in {"set_value", "get_value", "delete_value", "clear_data"} :
          pc' = [pc EXCEPT ![t] = label]
    BY <1>1 DEF Begin, Call
  <2>2. /\ pc[t] = "ready" /\ dataLock[self[t]] = Nobody
        /\ dataLock' = [dataLock EXCEPT ![self[t]] = t]
        /\ UNCHANGED <<instance, created, classLock, initialized, self>>
    BY <1>1 DEF Begin
  <2> QED
    BY <2>1, <2>2
<1>2. CASE Access(t)
  <2>1. pc[t] \in OperationPcs
    BY <1>2, AccessSteps
  <2>2. ASSUME NEW v, Return(t, v)
        PROVE  Control'
    BY <2>1, <2>2 DEF Return
  <2>3. ASSUME NEW label \in OperationPcs, Continue(t, label)
        PROVE  Control'
    BY <2>1, <2>3 DEF Continue
  <2> QED
    BY <1>2, <2>2, <2>3, AccessSteps
<1> QED
  BY <1>1, <1>2 DEF OperationStep, Access

LEMMA NextControl ==
  ASSUME TypeOK, Control, [Next]_vars
  PROVE  Control'
<1>1. CASE Tick \/ UNCHANGED vars
  BY <1>1 DEF Tick, vars, object, storage, Control, Locks, OneObject, FlagIsHonest
<1> QED
  BY <1>1, ConstructionControl, OperationControl DEF Next

-----------------------------------------------------------------------------
(* The two maps and the history of the map they implement.                 *)

Storage == StorageIsContents /\ InOperation

(* One thread's conjunct of InOperation, and one object's of               *)
(* StorageIsContents.                                                      *)
Doing(t) ==
  LET k == op[t].key IN
  /\ pc[t] \in {"set_value", "set_ttl"} => op[t] \in SetOperation
  /\ pc[t] \in {"get_value", "get_ttl", "delete_value", "delete_ttl"} => op[t] \in KeyOperation
  /\ pc[t] = "set_ttl" => data[self[t]][k] = op[t].value
  /\ pc[t] \in {"get_ttl", "delete_ttl"} => data[self[t]][k] = Absent
  /\ pc[t] = "get_ttl" => contents[k].expires # Never /\ clock > contents[k].expires
  /\ pc[t] = "delete_ttl" => contents[k].value # Absent
  /\ pc[t] = "clear_ttl" => data[self[t]] = NoData

NothingYet == contents = [k \in Keys |-> Entry(Absent, Never)]
Consistent == \A k \in Keys : contents[k].expires # Never => contents[k].value # Absent
SomeHalfway(k) == \E t \in Threads : Halfway(t, k)
Shows(i) ==
  IF initialized[i]
  THEN \A k \in Keys : SomeHalfway(k) \/ contents[k] = Entry(data[i][k], expires[i][k])
  ELSE data[i] = NoData /\ expires[i] = NoExpiry

LEMMA StorageParts ==
  Storage <=> /\ (\A i \in Objects : ~initialized[i]) => NothingYet
              /\ Consistent
              /\ \A i \in Objects : Shows(i)
              /\ \A t \in Threads : Doing(t)
BY DEF Storage, StorageIsContents, InOperation, NothingYet, Consistent, Shows, SomeHalfway, Doing

LEMMA StoragePartsNext ==
  Storage' <=> /\ (\A i \in Objects : ~initialized'[i]) => NothingYet'
               /\ Consistent'
               /\ \A i \in Objects : Shows(i)'
               /\ \A t \in Threads : Doing(t)'
BY DEF Storage, StorageIsContents, InOperation, NothingYet, Consistent, Shows, SomeHalfway, Doing

(* Only the holder of the data lock is in an operation.                    *)
LEMMA OneInside ==
  ASSUME TypeOK, Control, NEW t \in Threads, pc[t] \in OperationPcs
  PROVE  /\ 1 \in Objects /\ self[t] = 1 /\ instance = 1 /\ initialized[1]
         /\ \A s \in Threads : pc[s] \in OperationPcs => s = t
         /\ \A i \in Objects : i # 1 => ~initialized[i]
<1>1. pc[t] \notin ConstructionPcs
  BY DEF ConstructionPcs, OperationPcs
<1>2. self[t] = 1 /\ instance = 1 /\ 1 \in Objects
  BY <1>1, OperationTyped DEF Control, ConstructionPcs
<1>3. initialized[1] /\ dataLock[1] = t
  BY <1>1, <1>2 DEF Control, FlagIsHonest, Locks
<1>4. ASSUME NEW s \in Threads, pc[s] \in OperationPcs
      PROVE  s = t
  <2>1. pc[s] \notin {"idle", "new_lock", "new_body"}
    BY <1>4 DEF OperationPcs
  <2>2. self[s] = 1
    BY <2>1, OperationTyped DEF Control
  <2> QED
    BY <1>3, <1>4, <2>2 DEF Control, Locks
<1> QED
  BY <1>2, <1>3, <1>4 DEF Control, FlagIsHonest

LEMMA HalfwayInside ==
  ASSUME NEW t, NEW k, Halfway(t, k)
  PROVE  pc[t] \in OperationPcs
BY DEF Halfway, OperationPcs

(* What the operation of t knows: under the keys it is not halfway with,   *)
(* the two maps are the contents.                                          *)
LEMMA InsideShows ==
  ASSUME TypeOK, Control, Storage, NEW t \in Threads, pc[t] \in OperationPcs,
         NEW k \in Keys, ~Halfway(t, k)
  PROVE  contents[k] = Entry(data[1][k], expires[1][k])
<1>1. ~SomeHalfway(k)
  BY OneInside, HalfwayInside DEF SomeHalfway
<1> QED
  BY <1>1, OneInside, StorageParts DEF Shows

(* A step of t outside the operations that leaves the maps alone.          *)
LEMMA OutsideStorage ==
  ASSUME TypeOK, Storage, NEW t \in Threads, NEW label,
         pc[t] \notin OperationPcs, label \notin OperationPcs,
         pc' = [pc EXCEPT ![t] = label],
         \A s \in Threads : s # t => self'[s] = self[s],
         UNCHANGED <<initialized, data, expires, op, contents, clock>>
  PROVE  Storage'
<1>1. pc \in [Threads -> ConstructionPcs \cup {"ready"} \cup OperationPcs]
  BY DEF TypeOK
<1>2. ASSUME NEW s \in Threads
      PROVE  (pc'[s] = pc[s] /\ self'[s] = self[s])
             \/ (pc[s] \notin OperationPcs /\ pc'[s] \notin OperationPcs)
  BY <1>1
<1>3. ASSUME NEW s \in Threads, NEW k \in Keys
      PROVE  Halfway(s, k)' <=> Halfway(s, k)
  BY <1>2 DEF Halfway, OperationPcs
<1>4. \A k \in Keys : SomeHalfway(k)' <=> SomeHalfway(k)
  BY <1>3 DEF SomeHalfway
<1>5. \A i \in Objects : Shows(i)'
  BY <1>4, StorageParts DEF Shows
<1>6. \A s \in Threads : Doing(s)'
  BY <1>2, StorageParts DEF Doing, OperationPcs
<1>7. Consistent' /\ ((\A i \in Objects : ~initialized'[i]) => NothingYet')
  BY StorageParts DEF Consistent, NothingYet
<1> QED
  BY <1>5, <1>6, <1>7, StoragePartsNext

LEMMA ConstructionStorage ==
  ASSUME TypeOK, Control, Storage, NEW t \in Threads, Construction(t)
  PROVE  Storage'
<1> USE DEF object, storage, history
<1>0. self \in [Threads -> {0} \cup Objects]
  BY DEF TypeOK
<1>1. CASE Construct(t) \/ AcquireClassLock(t) \/ NewBody(t) \/ InitCheck(t) \/ InitDone(t)
  <2>1. PICK label \in {"new_lock", "init_check", "new_body", "init_storage", "ready", "init_lock"} :
          pc' = [pc EXCEPT ![t] = label]
    BY <1>1 DEF Construct, AcquireClassLock, NewBody, InitCheck, InitDone, Goto
  <2>2. pc[t] \notin OperationPcs
    BY <1>1 DEF Construct, AcquireClassLock, NewBody, InitCheck, InitDone, OperationPcs
  <2>3. \A s \in Threads : s # t => self'[s] = self[s]
    BY <1>0, <1>1 DEF Construct, AcquireClassLock, NewBody, InitCheck, InitDone
  <2>4. UNCHANGED <<initialized, data, expires, op, contents, clock>>
    BY <1>1 DEF Construct, AcquireClassLock, NewBody, InitCheck, InitDone
  <2>5. label \notin OperationPcs
    BY DEF OperationPcs
  <2> QED
    BY <2>1, <2>2, <2>3, <2>4, <2>5, OutsideStorage
<1>2. CASE InitStorage(t)
  <2>1. pc[t] = "init_storage" /\ ~initialized[self[t]] /\ self[t] \in Objects
    BY <1>2, OperationTyped DEF InitStorage, Control
  <2>2. data[self[t]] = NoData /\ expires[self[t]] = NoExpiry
    BY <2>1, StorageParts DEF Shows
  <2>3. data' = data /\ expires' = expires
    BY <1>2, <2>1, <2>2 DEF InitStorage, TypeOK
  <2>4. pc[t] \notin OperationPcs /\ "init_flag" \notin OperationPcs
    BY <2>1 DEF OperationPcs
  <2>5. /\ pc' = [pc EXCEPT ![t] = "init_flag"]
        /\ UNCHANGED <<self, initialized, op, contents, clock>>
    BY <1>2 DEF InitStorage, Goto
  <2> QED
    BY <2>3, <2>4, <2>5, OutsideStorage
<1>3. CASE InitFlag(t)
  <2>1. pc[t] = "init_flag" /\ self[t] = 1 /\ 1 \in Objects /\ instance = 1
    BY <1>3, OperationTyped, OneIsObject DEF InitFlag, Control
  <2>2. \A i \in Objects : ~initialized[i]
    BY <2>1 DEF Control, FlagIsHonest
  <2>3. /\ initialized' = [initialized EXCEPT ![1] = TRUE]
        /\ pc' = [pc EXCEPT ![t] = "ready"]
        /\ UNCHANGED <<self, data, expires, op, contents, clock>>
    BY <1>3, <2>1 DEF InitFlag, Goto
  <2>4. ASSUME NEW i \in Objects
        PROVE  Shows(i)'
    <3>1. contents = [k \in Keys |-> Entry(Absent, Never)]
      BY <2>2, StorageParts DEF NothingYet
    <3>2. data[i] = NoData /\ expires[i] = NoExpiry
      BY <2>2, StorageParts DEF Shows
    <3>3. \A k \in Keys : contents[k] = Entry(data[i][k], expires[i][k])
      BY <3>1, <3>2 DEF NoData, NoExpiry
    <3> QED
      BY <2>3, <3>2, <3>3 DEF Shows
  <2>5. ASSUME NEW s \in Threads
        PROVE  Doing(s)'
    <3>1. pc[s] \notin OperationPcs
      BY <2>2, OneInside
    <3>2. pc'[s] \notin OperationPcs
      BY <2>3, <3>1 DEF TypeOK, OperationPcs
    <3> QED
      BY <3>2 DEF Doing, OperationPcs
  <2>6. initialized'[1]
    BY <2>1, <2>3 DEF TypeOK
  <2>7. Consistent'
    BY <2>3, StorageParts DEF Consistent
  <2> QED
    BY <2>1, <2>4, <2>5, <2>6, <2>7, StoragePartsNext
<1> QED
  BY <1>1, <1>2, <1>3 DEF Construction

LEMMA TickStorage ==
  ASSUME TypeOK, Control, Storage, Tick
  PROVE  Storage'
<1>1. clock' = clock + 1 /\ UNCHANGED <<initialized, self, data, expires, pc, op, contents>>
  BY DEF Tick, object, storage, history
<1>2. ASSUME NEW i \in Objects
      PROVE  Shows(i)'
  BY <1>1, StorageParts DEF Shows, SomeHalfway, Halfway
<1>3. ASSUME NEW t \in Threads
      PROVE  Doing(t)'
  <2>1. CASE pc[t] = "get_ttl"
    <3>1. op[t] \in KeyOperation /\ data[self[t]][op[t].key] = Absent
          /\ contents[op[t].key].expires # Never /\ clock > contents[op[t].key].expires
      BY <2>1, StorageParts DEF Doing
    <3>2. op[t].key \in Keys
      BY <3>1 DEF KeyOperation
    <3>3. contents[op[t].key].expires \in Nat
      BY <3>1, <3>2 DEF TypeOK
    <3>4. clock \in Nat
      BY CacheAssumption DEF TypeOK
    <3>5. clock + 1 > contents[op[t].key].expires
      BY <3>1, <3>3, <3>4
    <3> QED
      BY <1>1, <2>1, <3>1, <3>5 DEF Doing
  <2>2. CASE pc[t] # "get_ttl"
    BY <1>1, <2>2, StorageParts DEF Doing
  <2> QED
    BY <2>1, <2>2
<1>4. Consistent' /\ ((\A i \in Objects : ~initialized'[i]) => NothingYet')
  BY <1>1, StorageParts DEF Consistent, NothingYet
<1> QED
  BY <1>2, <1>3, <1>4, StoragePartsNext

LEMMA BeginStorage ==
  ASSUME TypeOK, Control, Storage, NEW t \in Threads, Begin(t)
  PROVE  Storage'
<1>1. PICK o \in SetOperation \cup KeyOperation \cup {NoOperation},
            label \in {"set_value", "get_value", "delete_value", "clear_data"} :
        /\ Call(t, o, label)
        /\ label = "set_value" => o \in SetOperation
        /\ label \in {"get_value", "delete_value"} => o \in KeyOperation
  BY DEF Begin
<1>2. /\ op' = [op EXCEPT ![t] = o] /\ pc' = [pc EXCEPT ![t] = label] /\ pc[t] = "ready"
      /\ UNCHANGED <<initialized, self, data, expires, contents, clock>>
  BY <1>1 DEF Begin, Call, Goto, object, history
<1>3. ASSUME NEW s \in Threads
      PROVE  \/ s # t /\ pc'[s] = pc[s] /\ op'[s] = op[s]
             \/ s = t /\ pc'[s] = label /\ op'[s] = o
  BY <1>2 DEF TypeOK
<1>4. ASSUME NEW s \in Threads, NEW k \in Keys
      PROVE  Halfway(s, k)' <=> Halfway(s, k)
  BY <1>2, <1>3 DEF Halfway
<1>5. \A k \in Keys : SomeHalfway(k)' <=> SomeHalfway(k)
  BY <1>4 DEF SomeHalfway
<1>6. \A i \in Objects : Shows(i)'
  BY <1>2, <1>5, StorageParts DEF Shows
<1>7. ASSUME NEW s \in Threads
      PROVE  Doing(s)'
  BY <1>1, <1>2, <1>3, StorageParts DEF Doing
<1>8. Consistent' /\ ((\A i \in Objects : ~initialized'[i]) => NothingYet')
  BY <1>2, StorageParts DEF Consistent, NothingYet
<1> QED
  BY <1>6, <1>7, <1>8, StoragePartsNext

(* The first access of an operation of two: what it wrote is halfway.      *)
LEMMA ContinueStorage ==
  ASSUME TypeOK, Control, Storage, NEW t \in Threads, NEW label \in OperationPcs,
         pc[t] \in {"set_value", "get_value", "delete_value", "clear_data"},
         Continue(t, label), UNCHANGED expires,
         \A i \in Objects : i # 1 => data'[i] = data[i],
         \A k \in Keys : Halfway(t, k)' \/ data'[1][k] = data[1][k],
         Doing(t)'
  PROVE  Storage'
<1>0. pc[t] \in OperationPcs
  BY DEF OperationPcs
<1>1. /\ pc' = [pc EXCEPT ![t] = label]
      /\ UNCHANGED <<instance, initialized, self, op, contents, clock>>
  BY DEF Continue, Goto, object, history
<1>2. ASSUME NEW i \in Objects
      PROVE  Shows(i)'
  <2>1. CASE i = 1
    <3>1. ASSUME NEW k \in Keys, ~Halfway(t, k)'
          PROVE  contents[k] = Entry(data'[1][k], expires'[1][k])
      <4>1. ~Halfway(t, k)
        BY DEF Halfway
      <4> QED
        BY <1>0, <3>1, <4>1, InsideShows
    <3>2. \A k \in Keys : SomeHalfway(k)' \/ contents'[k] = Entry(data'[1][k], expires'[1][k])
      BY <1>1, <3>1 DEF SomeHalfway
    <3> QED
      BY <1>0, <1>1, <2>1, <3>2, OneInside DEF Shows
  <2>2. CASE i # 1
    <3>1. ~initialized[i] /\ data'[i] = data[i] /\ expires'[i] = expires[i]
      BY <1>0, <2>2, OneInside
    <3> QED
      BY <1>1, <3>1, StorageParts DEF Shows
  <2> QED
    BY <2>1, <2>2
<1>3. ASSUME NEW s \in Threads
      PROVE  Doing(s)'
  <2>1. CASE s = t
    BY <2>1
  <2>2. CASE s # t
    <3>1. pc'[s] \notin OperationPcs
      BY <1>0, <1>1, <2>2, OneInside DEF TypeOK
    <3> QED
      BY <3>1 DEF Doing, OperationPcs
  <2> QED
    BY <2>1, <2>2
<1>4. Consistent' /\ ((\A i \in Objects : ~initialized'[i]) => NothingYet')
  BY <1>1, StorageParts DEF Consistent, NothingYet
<1> QED
  BY <1>2, <1>3, <1>4, StoragePartsNext

(* The last access: the two maps become the contents.                      *)
LEMMA ReturnStorage ==
  ASSUME TypeOK, Control, Storage, NEW t \in Threads, NEW v, pc[t] \in OperationPcs,
         Return(t, v),
         \A i \in Objects : i # 1 => data'[i] = data[i] /\ expires'[i] = expires[i],
         \A k \in Keys : expires'[1][k] # Never => data'[1][k] # Absent
  PROVE  Storage'
<1>1. /\ pc' = [pc EXCEPT ![t] = "ready"]
      /\ UNCHANGED <<initialized, self, clock>>
  BY DEF Return, Goto, object
<1>2. contents' = [k \in Keys |-> Entry(data'[1][k], expires'[1][k])]
  BY OneInside DEF Return
<1>3. ASSUME NEW i \in Objects
      PROVE  Shows(i)'
  <2>1. CASE i = 1
    <3>1. initialized'[i]
      BY <1>1, <2>1, OneInside
    <3> QED
      BY <1>2, <2>1, <3>1 DEF Shows
  <2>2. CASE i # 1
    <3>1. ~initialized[i] /\ data'[i] = data[i] /\ expires'[i] = expires[i]
      BY <2>2, OneInside
    <3> QED
      BY <1>1, <3>1, StorageParts DEF Shows
  <2> QED
    BY <2>1, <2>2
<1>4. ASSUME NEW s \in Threads
      PROVE  Doing(s)'
  <2>1. pc'[s] \notin OperationPcs
    BY <1>1, OneInside DEF TypeOK, OperationPcs
  <2> QED
    BY <2>1 DEF Doing, OperationPcs
<1>5. Consistent'
  BY <1>2 DEF Consistent, Entry
<1>6. initialized'[1] /\ 1 \in Objects
  BY <1>1, OneInside
<1> QED
  BY <1>3, <1>4, <1>5, <1>6, StoragePartsNext

(* Nothing under the keys an operation has not touched is inconsistent.    *)
LEMMA ConsistentInside ==
  ASSUME TypeOK, Control, Storage, NEW t \in Threads, pc[t] \in OperationPcs,
         NEW k \in Keys, ~Halfway(t, k), expires[1][k] # Never
  PROVE  data[1][k] # Absent
<1>1. contents[k] = Entry(data[1][k], expires[1][k])
  BY InsideShows
<1>2. contents[k].value = data[1][k] /\ contents[k].expires = expires[1][k]
  BY <1>1 DEF Entry
<1> QED
  BY <1>2, StorageParts DEF Consistent

LEMMA DataWritten ==
  ASSUME data \in Maps(Values \cup {Absent}), NEW t \in Threads, self[t] = 1, 1 \in Objects,
         op[t].key \in Keys, NEW v, WriteData(t, v)
  PROVE  /\ data'[1][op[t].key] = v
         /\ \A k \in Keys : k # op[t].key => data'[1][k] = data[1][k]
         /\ \A i \in Objects : i # 1 => data'[i] = data[i]
<1>1. data' = [data EXCEPT ![1][op[t].key] = v]
  BY DEF WriteData
<1> QED
  BY <1>1 DEF Maps

LEMMA AccessStorage ==
  ASSUME TypeOK, Control, Storage, NEW t \in Threads, Access(t)
  PROVE  Storage'
<1>0. /\ pc[t] \in OperationPcs /\ self[t] = 1 /\ 1 \in Objects /\ Doing(t)
      /\ data \in Maps(Values \cup {Absent}) /\ expires \in Maps(Nat \cup {Never})
  BY AccessSteps, OneInside, StorageParts DEF TypeOK, Maps
<1>1. CASE SetValue(t)
  <2>1. /\ pc[t] = "set_value" /\ op[t] \in SetOperation /\ WriteData(t, op[t].value)
        /\ UNCHANGED expires /\ Continue(t, "set_ttl")
    BY <1>0, <1>1 DEF SetValue, Doing
  <2>2. op[t].key \in Keys /\ op[t].value \in Values
    BY <2>1 DEF SetOperation
  <2>3. /\ data'[1][op[t].key] = op[t].value
        /\ \A k \in Keys : k # op[t].key => data'[1][k] = data[1][k]
        /\ \A i \in Objects : i # 1 => data'[i] = data[i]
    BY <1>0, <2>1, <2>2, DataWritten
  <2>4. pc'[t] = "set_ttl" /\ op' = op /\ self' = self
    BY <2>1 DEF Continue, Goto, TypeOK, object
  <2>5. Doing(t)'
    <3>1. /\ pc'[t] = "set_ttl" /\ op'[t] \in SetOperation
          /\ data'[self'[t]][op'[t].key] = op'[t].value
      BY <1>0, <2>1, <2>3, <2>4
    <3> QED
      BY <3>1 DEF Doing
  <2>6. \A k \in Keys : Halfway(t, k)' \/ data'[1][k] = data[1][k]
    BY <2>3, <2>4 DEF Halfway
  <2> QED
    BY <2>1, <2>3, <2>5, <2>6, ContinueStorage DEF OperationPcs
<1>2. CASE SetTtl(t)
  <2> DEFINE e == IF op[t].ttl = Never THEN Never ELSE clock + op[t].ttl
  <2>1. /\ pc[t] = "set_ttl" /\ op[t] \in SetOperation /\ data[1][op[t].key] = op[t].value
        /\ WriteExpiry(t, e) /\ UNCHANGED data /\ Return(t, Absent)
    BY <1>0, <1>2 DEF SetTtl, Doing
  <2> HIDE DEF e
  <2>2. op[t].key \in Keys /\ op[t].value \in Values
    BY <2>1 DEF SetOperation
  <2>3. /\ \A k \in Keys : k # op[t].key => expires'[1][k] = expires[1][k]
        /\ \A i \in Objects : i # 1 => expires'[i] = expires[i]
    BY <1>0, <2>1, <2>2 DEF WriteExpiry, Maps
  <2>4. ASSUME NEW k \in Keys, expires'[1][k] # Never
        PROVE  data'[1][k] # Absent
    <3>1. CASE k = op[t].key
      BY <2>1, <2>2, <3>1, CacheAssumption
    <3>2. CASE k # op[t].key
      <4>1. ~Halfway(t, k) /\ expires[1][k] # Never
        BY <2>1, <2>3, <2>4, <3>2 DEF Halfway
      <4> QED
        BY <1>0, <2>1, <4>1, ConsistentInside
    <3> QED
      BY <3>1, <3>2
  <2> QED
    BY <1>0, <2>1, <2>3, <2>4, ReturnStorage
<1>3. CASE GetValue(t)
  <2>1. pc[t] = "get_value" /\ op[t] \in KeyOperation /\ UNCHANGED expires
    BY <1>0, <1>3 DEF GetValue, Doing
  <2>2. op[t].key \in Keys
    BY <2>1 DEF KeyOperation
  <2>3. \A k \in Keys : ~Halfway(t, k)
    BY <2>1 DEF Halfway
  <2>4. CASE ExpiryOf(t) # Never /\ clock > ExpiryOf(t)
    <3>1. WriteData(t, Absent) /\ Continue(t, "get_ttl")
      BY <1>3, <2>4 DEF GetValue
    <3>2. /\ data'[1][op[t].key] = Absent
          /\ \A k \in Keys : k # op[t].key => data'[1][k] = data[1][k]
          /\ \A i \in Objects : i # 1 => data'[i] = data[i]
      BY <1>0, <2>2, <3>1, DataWritten
    <3>3. /\ pc'[t] = "get_ttl" /\ op' = op /\ self' = self /\ contents' = contents
          /\ clock' = clock
      BY <3>1 DEF Continue, Goto, TypeOK, object, history
    <3>4. contents[op[t].key].expires = ExpiryOf(t)
      <4>1. contents[op[t].key] = Entry(data[1][op[t].key], expires[1][op[t].key])
        BY <1>0, <2>2, <2>3, InsideShows
      <4> QED
        BY <1>0, <4>1 DEF Entry, ExpiryOf
    <3>5. Doing(t)'
      <4>1. /\ pc'[t] = "get_ttl" /\ op'[t] \in KeyOperation
            /\ data'[self'[t]][op'[t].key] = Absent
        BY <1>0, <2>1, <3>2, <3>3
      <4>2. contents'[op'[t].key].expires # Never /\ clock' > contents'[op'[t].key].expires
        BY <2>4, <3>3, <3>4
      <4> QED
        BY <4>1, <4>2 DEF Doing
    <3>6. \A k \in Keys : Halfway(t, k)' \/ data'[1][k] = data[1][k]
      BY <3>2, <3>3 DEF Halfway
    <3> QED
      BY <2>1, <3>1, <3>2, <3>5, <3>6, ContinueStorage DEF OperationPcs
  <2>5. CASE ~(ExpiryOf(t) # Never /\ clock > ExpiryOf(t))
    <3>1. UNCHANGED <<data, expires>> /\ Return(t, data[self[t]][op[t].key])
      BY <1>3, <2>1, <2>5 DEF GetValue
    <3>2. \A k \in Keys : expires'[1][k] # Never => data'[1][k] # Absent
      BY <1>0, <2>3, <3>1, ConsistentInside
    <3> QED
      BY <1>0, <3>1, <3>2, ReturnStorage
  <2> QED
    BY <2>4, <2>5
<1>4. CASE GetTtl(t) \/ DeleteTtl(t)
  <2>1. /\ pc[t] \in {"get_ttl", "delete_ttl"} /\ op[t] \in KeyOperation
        /\ WriteExpiry(t, Never) /\ UNCHANGED data
        /\ \/ Return(t, Absent)
           \/ Return(t, TRUE)
    BY <1>0, <1>4 DEF GetTtl, DeleteTtl, Doing
  <2>2. op[t].key \in Keys
    BY <2>1 DEF KeyOperation
  <2>3. /\ expires'[1][op[t].key] = Never
        /\ \A k \in Keys : k # op[t].key => expires'[1][k] = expires[1][k]
        /\ \A i \in Objects : i # 1 => expires'[i] = expires[i]
    BY <1>0, <2>1, <2>2, WriteOne DEF WriteExpiry
  <2>4. ASSUME NEW k \in Keys, expires'[1][k] # Never
        PROVE  data'[1][k] # Absent
    <3>1. k # op[t].key
      BY <2>3, <2>4
    <3>2. ~Halfway(t, k) /\ expires[1][k] # Never
      BY <2>1, <2>3, <2>4, <3>1 DEF Halfway
    <3> QED
      BY <1>0, <2>1, <3>2, ConsistentInside
  <2> QED
    BY <1>0, <2>1, <2>3, <2>4, ReturnStorage
<1>5. CASE DeleteValue(t)
  <2>1. pc[t] = "delete_value" /\ op[t] \in KeyOperation /\ UNCHANGED expires
    BY <1>0, <1>5 DEF DeleteValue, Doing
  <2>2. op[t].key \in Keys
    BY <2>1 DEF KeyOperation
  <2>3. \A k \in Keys : ~Halfway(t, k)
    BY <2>1 DEF Halfway
  <2>4. CASE data[1][op[t].key] = Absent
    <3>1. UNCHANGED <<data, expires>> /\ Return(t, FALSE)
      BY <1>0, <1>5, <2>1, <2>4 DEF DeleteValue
    <3>2. \A k \in Keys : expires'[1][k] # Never => data'[1][k] # Absent
      BY <1>0, <2>3, <3>1, ConsistentInside
    <3> QED
      BY <1>0, <3>1, <3>2, ReturnStorage
  <2>5. CASE data[1][op[t].key] # Absent
    <3>1. WriteData(t, Absent) /\ Continue(t, "delete_ttl")
      BY <1>0, <1>5, <2>5 DEF DeleteValue
    <3>2. /\ data'[1][op[t].key] = Absent
          /\ \A k \in Keys : k # op[t].key => data'[1][k] = data[1][k]
          /\ \A i \in Objects : i # 1 => data'[i] = data[i]
      BY <1>0, <2>2, <3>1, DataWritten
    <3>3. pc'[t] = "delete_ttl" /\ op' = op /\ self' = self /\ contents' = contents
      BY <3>1 DEF Continue, Goto, TypeOK, object, history
    <3>4. contents[op[t].key].value # Absent
      <4>1. contents[op[t].key] = Entry(data[1][op[t].key], expires[1][op[t].key])
        BY <1>0, <2>2, <2>3, InsideShows
      <4> QED
        BY <2>5, <4>1 DEF Entry
    <3>5. Doing(t)'
      <4>1. /\ pc'[t] = "delete_ttl" /\ op'[t] \in KeyOperation
            /\ data'[self'[t]][op'[t].key] = Absent
            /\ contents'[op'[t].key].value # Absent
        BY <1>0, <2>1, <3>2, <3>3, <3>4
      <4> QED
        BY <4>1 DEF Doing
    <3>6. \A k \in Keys : Halfway(t, k)' \/ data'[1][k] = data[1][k]
      BY <3>2, <3>3 DEF Halfway
    <3> QED
      BY <2>1, <3>1, <3>2, <3>5, <3>6, ContinueStorage DEF OperationPcs
  <2> QED
    BY <2>4, <2>5
<1>6. CASE ClearData(t)
  <2>1. /\ pc[t] = "clear_data" /\ Continue(t, "clear_ttl") /\ UNCHANGED expires
        /\ data' = [data EXCEPT ![1] = NoData]
    BY <1>0, <1>6 DEF ClearData
  <2>2. pc'[t] = "clear_ttl" /\ self' = self
    BY <2>1 DEF Continue, Goto, TypeOK, object
  <2>3. Doing(t)'
    BY <1>0, <2>1, <2>2 DEF Doing, Maps
  <2>4. \A k \in Keys : Halfway(t, k)'
    BY <2>2 DEF Halfway
  <2>5. \A i \in Objects : i # 1 => data'[i] = data[i]
    BY <1>0, <2>1 DEF Maps
  <2> QED
    BY <2>1, <2>3, <2>4, <2>5, ContinueStorage DEF OperationPcs
<1>7. CASE ClearTtl(t)
  <2>1. /\ pc[t] = "clear_ttl" /\ Return(t, TRUE) /\ UNCHANGED data
        /\ expires' = [expires EXCEPT ![1] = NoExpiry]
    BY <1>0, <1>7 DEF ClearTtl
  <2>2. \A i \in Objects : i # 1 => expires'[i] = expires[i]
    BY <1>0, <2>1 DEF Maps
  <2>3. \A k \in Keys : expires'[1][k] = Never
    BY <1>0, <2>1 DEF Maps, NoExpiry
  <2> QED
    BY <1>0, <2>1, <2>2, <2>3, ReturnStorage
<1> QED
  BY <1>1, <1>2, <1>3, <1>4, <1>5, <1>6, <1>7 DEF Access

LEMMA NextStorage ==
  ASSUME TypeOK, Control, Storage, [Next]_vars
  PROVE  Storage'
<1>1. CASE UNCHANGED vars
  <2>1. UNCHANGED <<initialized, data, expires, pc, self, op, contents, clock>>
    BY <1>1 DEF vars
  <2>2. ASSUME NEW i \in Objects
        PROVE  Shows(i)'
    BY <2>1, StorageParts DEF Shows, SomeHalfway, Halfway
  <2>3. ASSUME NEW t \in Threads
        PROVE  Doing(t)'
    BY <2>1, StorageParts DEF Doing
  <2>4. Consistent' /\ ((\A i \in Objects : ~initialized'[i]) => NothingYet')
    BY <2>1, StorageParts DEF Consistent, NothingYet
  <2> QED
    BY <2>2, <2>3, <2>4, StoragePartsNext
<1> QED
  BY <1>1, TickStorage, ConstructionStorage, BeginStorage, AccessStorage
  DEF Next, OperationStep, Access

-----------------------------------------------------------------------------
(* Theorems.                                                               *)

(* The state of the locks, of the object and its flag, and how far the two *)
(* maps are from the map the operations implement, hold in every state.    *)
THEOREM CacheInductive == Spec => []CInv
<1>1. Init => CInv
  <2> SUFFICES ASSUME Init PROVE CInv
    OBVIOUS
  <2> USE DEF Init
  <2>1. TypeOK
    <3>1. contents \in [Keys -> [value : Values \cup {Absent}, expires : Nat \cup {Never}]]
      BY DEF Entry
    <3> QED
      BY <3>1, EmptyMaps, CacheAssumption DEF TypeOK, ConstructionPcs
  <2>2. Locks /\ OneObject /\ FlagIsHonest
    BY CacheAssumption DEF Locks, OneObject, FlagIsHonest, ConstructionPcs, OperationPcs
  <2>3. StorageIsContents
    BY DEF StorageIsContents, Entry
  <2>4. InOperation
    BY DEF InOperation
  <2> QED
    BY <2>1, <2>2, <2>3, <2>4 DEF CInv
<1>2. CInv /\ [Next]_vars => CInv'
  <2> SUFFICES ASSUME CInv, [Next]_vars PROVE CInv'
    OBVIOUS
  <2>1. TypeOK /\ Control /\ Storage
    BY DEF CInv, Control, Storage
  <2>2. TypeOK' /\ Control' /\ Storage'
    BY <2>1, NextTypeOK, NextControl, NextStorage DEF Control, Storage
  <2> QED
    BY <2>2 DEF CInv, Control, Storage
<1> QED
  BY <1>1, <1>2, PTL DEF Spec

(* Every variable of the cache has its type: values and expiry times stay  *)
(* in maps of their own.                                                   *)
THEOREM CacheTypeCorrect == Spec => []TypeOK
<1>1. CInv => TypeOK
  BY DEF CInv
<1> QED
  BY <1>1, CacheInductive, PTL

(* However many threads construct the cache at once, they hold the same    *)
(* object.                                                                 *)
THEOREM OneCache == Spec => []Singleton
<1>1. CInv => Singleton
  BY DEF CInv, OneObject, Singleton
<1> QED
  BY <1>1, CacheInductive, PTL

(* A thread past __init__ uses attributes that exist, although it may have *)
(* read the flag without the lock.                                         *)
THEOREM NoHalfMadeCache == Spec => []ReadyIsInitialized
<1>1. CInv => ReadyIsInitialized
  <2> SUFFICES ASSUME CInv, NEW t \in Threads, pc[t] \notin ConstructionPcs
               PROVE  initialized[self[t]] /\ dataLock[self[t]] # NoLock
    BY DEF ReadyIsInitialized
  <2>1. self[t] \in Objects
    BY OperationTyped DEF CInv, ConstructionPcs
  <2> QED
    BY <2>1 DEF CInv, FlagIsHonest
<1> QED
  BY <1>1, CacheInductive, PTL

(* With no operation under way, no key of any cache has an expiry without  *)
(* a value.                                                                *)
THEOREM NoOrphanExpiry == Spec => []ExpiryHasValue
<1>1. CInv => ExpiryHasValue
  <2> SUFFICES ASSUME CInv, NEW i \in Objects, dataLock[i] = Nobody,
                      NEW k \in Keys, expires[i][k] # Never
               PROVE  data[i][k] # Absent
    BY DEF ExpiryHasValue
  <2>1. TypeOK /\ Control /\ Storage
    BY DEF CInv, Control, Storage
  <2>2. initialized[i]
    BY <2>1, StorageParts DEF Shows, NoExpiry
  <2>3. i = instance /\ i = 1
    BY <2>1, <2>2 DEF Control, FlagIsHonest, OneObject, Objects
  <2>4. ~SomeHalfway(k)
    <3> SUFFICES ASSUME NEW t \in Threads, Halfway(t, k) PROVE FALSE
      BY DEF SomeHalfway
    <3>1. pc[t] \in OperationPcs
      BY HalfwayInside
    <3>2. self[t] = 1 /\ dataLock[self[t]] = t
      BY <2>1, <3>1, OneInside DEF Control, Locks
    <3> QED
      BY <2>3, <3>2, CacheAssumption
  <2>5. contents[k] = Entry(data[i][k], expires[i][k])
    BY <2>1, <2>2, <2>4, StorageParts DEF Shows
  <2>6. contents[k].value = data[i][k] /\ contents[k].expires = expires[i][k]
    BY <2>5 DEF Entry
  <2> QED
    BY <2>1, <2>6, StorageParts DEF Consistent
<1> QED
  BY <1>1, CacheInductive, PTL

-----------------------------------------------------------------------------
(* Refinement: each operation is one step of Cache, taken when it returns. *)

(* What an operation returns with is the contents with one key rewritten.  *)
LEMMA ReturnWritesOne ==
  ASSUME TypeOK, Control, Storage, NEW t \in Threads, NEW v, pc[t] \in OperationPcs,
         Return(t, v), NEW k \in Keys,
         \A j \in Keys : j # k => /\ ~Halfway(t, j)
                                  /\ data'[1][j] = data[1][j]
                                  /\ expires'[1][j] = expires[1][j]
  PROVE  /\ contents' = [contents EXCEPT ![k] = Entry(data'[1][k], expires'[1][k])]
         /\ result' = [result EXCEPT ![t] = v]
         /\ UNCHANGED clock
<1>1. contents' = [j \in Keys |-> Entry(data'[1][j], expires'[1][j])]
  BY OneInside DEF Return
<1>2. contents \in [Keys -> [value : Values \cup {Absent}, expires : Nat \cup {Never}]]
  BY DEF TypeOK
<1>3. ASSUME NEW j \in Keys, j # k
      PROVE  contents'[j] = contents[j]
  <2>1. contents[j] = Entry(data[1][j], expires[1][j])
    BY <1>3, InsideShows
  <2> QED
    BY <1>1, <1>3, <2>1
<1>4. contents'[k] = Entry(data'[1][k], expires'[1][k])
  BY <1>1
<1>5. contents' = [contents EXCEPT ![k] = Entry(data'[1][k], expires'[1][k])]
  BY <1>1, <1>2, <1>3, <1>4
<1> QED
  BY <1>5 DEF Return

LEMMA ExpiryWritten ==
  ASSUME expires \in Maps(Nat \cup {Never}), NEW t \in Threads, self[t] = 1, 1 \in Objects,
         op[t].key \in Keys, NEW e, WriteExpiry(t, e)
  PROVE  /\ expires'[1][op[t].key] = e
         /\ \A k \in Keys : k # op[t].key => expires'[1][k] = expires[1][k]
<1>1. expires' = [expires EXCEPT ![1][op[t].key] = e]
  BY DEF WriteExpiry
<1> QED
  BY <1>1 DEF Maps

LEMMA AccessRefines ==
  ASSUME TypeOK, Control, Storage, NEW t \in Threads, Access(t)
  PROVE  Abstract!CacheNext \/ UNCHANGED <<contents, result, clock>>
<1> DEFINE k == op[t].key
<1>0. /\ pc[t] \in OperationPcs /\ self[t] = 1 /\ 1 \in Objects /\ Doing(t)
      /\ data \in Maps(Values \cup {Absent}) /\ expires \in Maps(Nat \cup {Never})
  BY AccessSteps, OneInside, StorageParts DEF TypeOK, Maps
<1>1. CASE SetValue(t) \/ ClearData(t)
  BY <1>1 DEF SetValue, ClearData, Continue, history
<1>2. CASE SetTtl(t)
  <2> DEFINE e == IF op[t].ttl = Never THEN Never ELSE clock + op[t].ttl
  <2>1. /\ pc[t] = "set_ttl" /\ op[t] \in SetOperation /\ data[1][k] = op[t].value
        /\ WriteExpiry(t, e) /\ UNCHANGED data /\ Return(t, Absent)
    BY <1>0, <1>2 DEF SetTtl, Doing
  <2>2. k \in Keys /\ op[t].value \in Values /\ op[t].ttl \in Ttls \cup {Never}
    BY <2>1 DEF SetOperation
  <2>3. expires'[1][k] = e /\ \A j \in Keys : j # k => expires'[1][j] = expires[1][j]
    BY <1>0, <2>1, <2>2, ExpiryWritten
  <2>4. \A j \in Keys : j # k => ~Halfway(t, j)
    BY <2>1 DEF Halfway
  <2>5. /\ contents' = [contents EXCEPT ![k] = Entry(op[t].value, e)]
        /\ result' = [result EXCEPT ![t] = Absent] /\ UNCHANGED clock
    <3>1. /\ contents' = [contents EXCEPT ![k] = Entry(data'[1][k], expires'[1][k])]
          /\ result' = [result EXCEPT ![t] = Absent] /\ UNCHANGED clock
      BY <1>0, <2>1, <2>2, <2>3, <2>4, ReturnWritesOne
    <3> QED
      BY <2>1, <2>3, <3>1
  <2>6. Abstract!Set(t, k, op[t].value, op[t].ttl)
    BY <2>5 DEF Abstract!Set, Abstract!Entry, Entry
  <2> QED
    BY <2>2, <2>6 DEF Abstract!CacheNext
<1>3. CASE GetValue(t)
  <2>1. pc[t] = "get_value" /\ op[t] \in KeyOperation /\ UNCHANGED expires
    BY <1>0, <1>3 DEF GetValue, Doing
  <2>2. k \in Keys /\ \A j \in Keys : ~Halfway(t, j)
    BY <2>1 DEF KeyOperation, Halfway
  <2>3. contents[k].value = data[1][k] /\ contents[k].expires = expires[1][k]
    <3>1. contents[k] = Entry(data[1][k], expires[1][k])
      BY <1>0, <2>2, InsideShows
    <3> QED
      BY <3>1 DEF Entry
  <2>4. CASE ExpiryOf(t) # Never /\ clock > ExpiryOf(t)
    BY <1>3, <2>4 DEF GetValue, Continue, history
  <2>5. CASE ~(ExpiryOf(t) # Never /\ clock > ExpiryOf(t))
    <3>1. UNCHANGED <<data, expires>> /\ Return(t, data[1][k])
      BY <1>0, <1>3, <2>1, <2>5 DEF GetValue
    <3>2. /\ contents' = [contents EXCEPT ![k] = Entry(data'[1][k], expires'[1][k])]
          /\ result' = [result EXCEPT ![t] = data[1][k]] /\ UNCHANGED clock
      BY <1>0, <2>2, <3>1, ReturnWritesOne
    <3>3. contents' = contents
      <4>1. Entry(data'[1][k], expires'[1][k]) = contents[k]
        BY <1>0, <2>2, <3>1, InsideShows
      <4> QED
        BY <2>2, <3>2, <4>1 DEF TypeOK
    <3>4. ~Abstract!Expired(contents[k], clock)
      BY <1>0, <2>3, <2>5 DEF Abstract!Expired, ExpiryOf
    <3>5. Abstract!Get(t, k)
      BY <2>3, <3>2, <3>3, <3>4 DEF Abstract!Get
    <3> QED
      BY <2>2, <3>5 DEF Abstract!CacheNext
  <2> QED
    BY <2>4, <2>5
<1>4. CASE GetTtl(t) \/ DeleteTtl(t)
  <2> DEFINE v == IF pc[t] = "get_ttl" THEN Absent ELSE TRUE
  <2>1. /\ pc[t] \in {"get_ttl", "delete_ttl"} /\ op[t] \in KeyOperation /\ data[1][k] = Absent
        /\ WriteExpiry(t, Never) /\ UNCHANGED data
    BY <1>0, <1>4 DEF GetTtl, DeleteTtl, Doing
  <2>2. Return(t, v)
    BY <1>4 DEF GetTtl, DeleteTtl
  <2> HIDE DEF v
  <2>3. k \in Keys
    BY <2>1 DEF KeyOperation
  <2>4. expires'[1][k] = Never /\ \A j \in Keys : j # k => expires'[1][j] = expires[1][j]
    BY <1>0, <2>1, <2>3, ExpiryWritten
  <2>5. \A j \in Keys : j # k => ~Halfway(t, j)
    BY <2>1 DEF Halfway
  <2>6. /\ contents' = [contents EXCEPT ![k] = Entry(data'[1][k], expires'[1][k])]
        /\ result' = [result EXCEPT ![t] = v] /\ UNCHANGED clock
    BY <1>0, <2>1, <2>2, <2>3, <2>4, <2>5, ReturnWritesOne
  <2>7. contents' = [contents EXCEPT ![k] = Abstract!NoEntry]
    BY <2>1, <2>4, <2>6 DEF Abstract!NoEntry, Abstract!Entry, Entry
  <2>8. CASE pc[t] = "get_ttl"
    <3>1. contents[k].expires # Never /\ clock > contents[k].expires
      BY <1>0, <2>8 DEF Doing
    <3>2. Abstract!Expired(contents[k], clock)
      BY <3>1 DEF Abstract!Expired
    <3>3. result' = [result EXCEPT ![t] = Absent]
      BY <2>6, <2>8 DEF v
    <3>4. Abstract!Get(t, k)
      BY <2>6, <2>7, <3>2, <3>3 DEF Abstract!Get
    <3> QED
      BY <2>3, <3>4 DEF Abstract!CacheNext
  <2>9. CASE pc[t] = "delete_ttl"
    <3>1. (contents[k].value # Absent) = TRUE
      BY <1>0, <2>9 DEF Doing
    <3>2. result' = [result EXCEPT ![t] = TRUE]
      BY <2>6, <2>9 DEF v
    <3>3. Abstract!Delete(t, k)
      BY <2>6, <2>7, <3>1, <3>2 DEF Abstract!Delete
    <3> QED
      BY <2>3, <3>3 DEF Abstract!CacheNext
  <2> QED
    BY <2>1, <2>8, <2>9
<1>5. CASE DeleteValue(t)
  <2>1. pc[t] = "delete_value" /\ op[t] \in KeyOperation /\ UNCHANGED expires
    BY <1>0, <1>5 DEF DeleteValue, Doing
  <2>2. k \in Keys /\ \A j \in Keys : ~Halfway(t, j)
    BY <2>1 DEF KeyOperation, Halfway
  <2>3. CASE data[1][k] # Absent
    BY <1>0, <1>5, <2>3 DEF DeleteValue, Continue, history
  <2>4. CASE data[1][k] = Absent
    <3>1. UNCHANGED <<data, expires>> /\ Return(t, FALSE)
      BY <1>0, <1>5, <2>1, <2>4 DEF DeleteValue
    <3>2. expires[1][k] = Never
      BY <1>0, <2>2, <2>4, ConsistentInside
    <3>3. /\ contents' = [contents EXCEPT ![k] = Entry(data'[1][k], expires'[1][k])]
          /\ result' = [result EXCEPT ![t] = FALSE] /\ UNCHANGED clock
      BY <1>0, <2>2, <3>1, ReturnWritesOne
    <3>4. contents' = [contents EXCEPT ![k] = Abstract!NoEntry]
      BY <2>4, <3>1, <3>2, <3>3 DEF Abstract!NoEntry, Abstract!Entry, Entry
    <3>5. (contents[k].value # Absent) = FALSE
      <4>1. contents[k] = Entry(data[1][k], expires[1][k])
        BY <1>0, <2>2, InsideShows
      <4> QED
        BY <2>4, <4>1 DEF Entry
    <3>6. Abstract!Delete(t, k)
      BY <3>3, <3>4, <3>5 DEF Abstract!Delete
    <3> QED
      BY <2>2, <3>6 DEF Abstract!CacheNext
  <2> QED
    BY <2>3, <2>4
<1>6. CASE ClearTtl(t)
  <2>1. /\ Return(t, TRUE) /\ UNCHANGED data /\ data[1] = NoData
        /\ expires' = [expires EXCEPT ![1] = NoExpiry]
    BY <1>0, <1>6 DEF ClearTtl, Doing
  <2>2. expires'[1] = NoExpiry
    BY <1>0, <2>1 DEF Maps
  <2>3. contents' = [j \in Keys |-> Abstract!NoEntry]
    BY <1>0, <2>1, <2>2 DEF Return, NoData, NoExpiry, Entry, Abstract!NoEntry, Abstract!Entry
  <2>4. Abstract!Clear(t)
    BY <2>1, <2>3 DEF Abstract!Clear, Return
  <2> QED
    BY <2>4 DEF Abstract!CacheNext
<1> QED
  BY <1>1, <1>2, <1>3, <1>4, <1>5, <1>6 DEF Access

(* However the threads interleave, while they construct the cache or use   *)
(* it, their operations take effect one at a time as Cache says.           *)
THEOREM CacheRefines == Spec => ImplementsCache
<1>1. Init => Abstract!CacheInit
  BY DEF Init, Abstract!CacheInit, Abstract!NoEntry, Abstract!Entry, Entry
<1>2. CInv /\ [Next]_vars => [Abstract!CacheNext]_(Abstract!cvars)
  <2> SUFFICES ASSUME CInv, [Next]_vars
               PROVE  Abstract!CacheNext \/ UNCHANGED <<contents, result, clock>>
    BY DEF Abstract!cvars
  <2>1. CASE UNCHANGED vars
    BY <2>1 DEF vars
  <2>2. CASE Tick
    BY <2>2 DEF Tick, history, Abstract!Tick, Abstract!CacheNext
  <2>3. ASSUME NEW t \in Threads, Construction(t) \/ Begin(t)
        PROVE  UNCHANGED <<contents, result, clock>>
    BY <2>3 DEF Construction, Construct, AcquireClassLock, NewBody, InitCheck, InitDone,
                InitStorage, InitFlag, Begin, history
  <2>4. TypeOK /\ Control /\ Storage
    BY DEF CInv, Control, Storage
  <2> QED
    BY <2>1, <2>2, <2>3, <2>4, AccessRefines DEF Next, OperationStep, Access
<1> QED
  BY <1>1, <1>2, CacheInductive, PTL DEF Spec, ImplementsCache, Abstract!CacheSpec
=============================================================================
