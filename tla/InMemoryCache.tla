---------------------------- MODULE InMemoryCache ----------------------------
(***************************************************************************)
(* samples/common/utils/in_memory_cache.py: a singleton that threads       *)
(* create lazily by double-checked locking and then share.  A thread may   *)
(* be preempted anywhere, so an action is one access to a shared attribute *)
(* or one acquisition of a lock (with the access that follows it, where    *)
(* the lock alone protects that access); the last access of a with block   *)
(* also releases its lock.                                                 *)
(***************************************************************************)
EXTENDS Naturals, FiniteSets

CONSTANTS
  Threads,
  Keys,
  Values,
  Ttls,        (* the ttl arguments of set, in clock ticks                 *)
  Absent,      (* no value under this key; also the default of get         *)
  Never,       (* ttl None: no entry in _ttl                               *)
  Nobody,      (* the holder of a free lock                                *)
  NoLock,      (* the attribute _data_lock before __init__ has assigned it *)
  MaxTime      (* bound: ticks of the clock                                *)

ASSUME CacheAssumption ==
  /\ IsFiniteSet(Threads)
  /\ Ttls \subseteq Nat /\ MaxTime \in Nat
  /\ Absent \notin Values
  /\ Never \notin Nat
  /\ Nobody \notin Threads /\ NoLock \notin Threads \cup {Nobody}

VARIABLES
  instance,    (* cls._instance; 0 is None                                 *)
  created,     (* how many objects __new__ has created                     *)
  classLock,   (* holder of cls._lock                                      *)
  initialized, (* per object, self._initialized                            *)
  data,        (* per object, self._cache_data                             *)
  expires,     (* per object, self._ttl                                    *)
  dataLock,    (* per object, holder of self._data_lock                    *)
  pc,
  self,        (* per thread, the object it constructed                    *)
  op,          (* per thread, the arguments of its operation               *)
  contents,    (* history: the map as the last operation left it           *)
  result,      (* history: what the thread's last operation returned       *)
  clock        (* time.time()                                              *)

object  == <<instance, created, classLock, initialized, self>>
storage == <<data, expires, dataLock>>
history == <<contents, result>>
vars    == <<instance, created, classLock, initialized, data, expires, dataLock,
             pc, self, op, contents, result, clock>>

Objects == 1 .. Cardinality(Threads)

NoData    == [k \in Keys |-> Absent]
NoExpiry  == [k \in Keys |-> Never]

(* The arguments of an operation; those it does not have are absent.       *)
SetOperation == [key : Keys, value : Values, ttl : Ttls \cup {Never}]
KeyOperation == [key : Keys, value : {Absent}, ttl : {Never}]
NoOperation  == [key |-> Absent, value |-> Absent, ttl |-> Never]

Entry(v, e) == [value |-> v, expires |-> e]

ConstructionPcs == {"idle", "new_lock", "new_body", "init_check", "init_lock",
                    "init_storage", "init_flag"}
OperationPcs    == {"set_value", "set_ttl", "get_value", "get_ttl", "delete_value",
                    "delete_ttl", "clear_data", "clear_ttl"}

(* Values and expiry times stay in maps of their own.                      *)
TypeOK ==
  /\ instance \in {0} \cup Objects
  /\ created \in {0} \cup Objects
  /\ classLock \in Threads \cup {Nobody}
  /\ initialized \in [Objects -> BOOLEAN]
  /\ data \in [Objects -> [Keys -> Values \cup {Absent}]]
  /\ expires \in [Objects -> [Keys -> Nat \cup {Never}]]
  /\ dataLock \in [Objects -> Threads \cup {Nobody, NoLock}]
  /\ pc \in [Threads -> ConstructionPcs \cup {"ready"} \cup OperationPcs]
  /\ self \in [Threads -> {0} \cup Objects]
  /\ op \in [Threads -> SetOperation \cup KeyOperation \cup {NoOperation}]
  /\ contents \in [Keys -> [value : Values \cup {Absent}, expires : Nat \cup {Never}]]
  /\ result \in [Threads -> Values \cup {Absent} \cup BOOLEAN]
  /\ clock \in 0 .. MaxTime

Init ==
  /\ instance = 0 /\ created = 0 /\ classLock = Nobody
  /\ initialized = [i \in Objects |-> FALSE]
  /\ data = [i \in Objects |-> NoData]
  /\ expires = [i \in Objects |-> NoExpiry]
  /\ dataLock = [i \in Objects |-> NoLock]
  /\ pc = [t \in Threads |-> "idle"]
  /\ self = [t \in Threads |-> 0]
  /\ op = [t \in Threads |-> NoOperation]
  /\ contents = [k \in Keys |-> Entry(Absent, Never)]
  /\ result = [t \in Threads |-> Absent]
  /\ clock = 0

Goto(t, label) == pc' = [pc EXCEPT ![t] = label]

-----------------------------------------------------------------------------
(* InMemoryCache(): __new__, then __init__ on what it returned.            *)

(* The first, unlocked test of cls._instance.                              *)
Construct(t) ==
  /\ pc[t] = "idle"
  /\ self' = [self EXCEPT ![t] = instance]
  /\ Goto(t, IF instance = 0 THEN "new_lock" ELSE "init_check")
  /\ UNCHANGED <<instance, created, classLock, initialized, storage, op, history, clock>>

AcquireClassLock(t) ==
  /\ pc[t] \in {"new_lock", "init_lock"}
  /\ classLock = Nobody
  /\ classLock' = t
  /\ Goto(t, IF pc[t] = "new_lock" THEN "new_body" ELSE "init_storage")
  /\ UNCHANGED <<instance, created, initialized, self, storage, op, history, clock>>

(* The second test, under the lock, and the creation.                      *)
NewBody_NoRecheck(t) ==
  /\ pc[t] = "new_body"
  /\ created' = created + 1
  /\ instance' = created'
  /\ self' = [self EXCEPT ![t] = instance']
  /\ classLock' = Nobody
  /\ Goto(t, "init_check")
  /\ UNCHANGED <<initialized, storage, op, history, clock>>

NewBody(t) ==
  /\ pc[t] = "new_body"
  /\ created' = IF instance = 0 THEN created + 1 ELSE created
  /\ instance' = IF instance = 0 THEN created' ELSE instance
  /\ self' = [self EXCEPT ![t] = instance']
  /\ classLock' = Nobody
  /\ Goto(t, "init_check")
  /\ UNCHANGED <<initialized, storage, op, history, clock>>

(* The first, unlocked test of self._initialized.                          *)
InitCheck(t) ==
  /\ pc[t] = "init_check"
  /\ Goto(t, IF initialized[self[t]] THEN "ready" ELSE "init_lock")
  /\ UNCHANGED <<object, storage, op, history, clock>>

(* The second test, under the lock: another thread was faster.             *)
InitDone(t) ==
  /\ pc[t] = "init_storage"
  /\ initialized[self[t]]
  /\ classLock' = Nobody
  /\ Goto(t, "ready")
  /\ UNCHANGED <<instance, created, initialized, self, storage, op, history, clock>>

InitStorage_NoRecheck(t) ==
  /\ pc[t] = "init_storage"
  /\ data' = [data EXCEPT ![self[t]] = NoData]
  /\ expires' = [expires EXCEPT ![self[t]] = NoExpiry]
  /\ dataLock' = [dataLock EXCEPT ![self[t]] = Nobody]
  /\ Goto(t, "init_flag")
  /\ UNCHANGED <<object, op, history, clock>>

InitStorage_FlagFirst(t) ==
  /\ pc[t] = "init_storage"
  /\ ~initialized[self[t]]
  /\ initialized' = [initialized EXCEPT ![self[t]] = TRUE]
  /\ Goto(t, "init_flag")
  /\ UNCHANGED <<instance, created, classLock, self, storage, op, history, clock>>

(* The three attributes are assigned one by one, but no other thread can   *)
(* use any of them before the flag is set.                                 *)
InitStorage(t) ==
  /\ pc[t] = "init_storage"
  /\ ~initialized[self[t]]
  /\ data' = [data EXCEPT ![self[t]] = NoData]
  /\ expires' = [expires EXCEPT ![self[t]] = NoExpiry]
  /\ dataLock' = [dataLock EXCEPT ![self[t]] = Nobody]
  /\ Goto(t, "init_flag")
  /\ UNCHANGED <<object, op, history, clock>>

InitFlag(t) ==
  /\ pc[t] = "init_flag"
  /\ initialized' = [initialized EXCEPT ![self[t]] = TRUE]
  /\ classLock' = Nobody
  /\ Goto(t, "ready")
  /\ UNCHANGED <<instance, created, self, storage, op, history, clock>>

-----------------------------------------------------------------------------
(* The operations, each inside with self._data_lock.                       *)

Call(t, operation, label) == op' = [op EXCEPT ![t] = operation] /\ Goto(t, label)

Begin(t) ==
  /\ pc[t] = "ready"
  /\ dataLock[self[t]] = Nobody
  /\ dataLock' = [dataLock EXCEPT ![self[t]] = t]
  /\ \/ \E o \in SetOperation : Call(t, o, "set_value")
     \/ \E o \in KeyOperation : Call(t, o, "get_value") \/ Call(t, o, "delete_value")
     \/ Call(t, NoOperation, "clear_data")
  /\ UNCHANGED <<object, data, expires, history, clock>>

(* The operation leaves its with block and returns value.                  *)
Return(t, value) ==
  /\ dataLock' = [dataLock EXCEPT ![self[t]] = Nobody]
  /\ contents' = [k \in Keys |-> Entry(data'[self[t]][k], expires'[self[t]][k])]
  /\ result' = [result EXCEPT ![t] = value]
  /\ op' = [op EXCEPT ![t] = NoOperation]
  /\ Goto(t, "ready")
  /\ UNCHANGED <<object, clock>>

(* A step inside the block that goes on at label.                          *)
Continue(t, label) ==
  /\ Goto(t, label)
  /\ UNCHANGED <<object, dataLock, op, history, clock>>

WriteData(t, value)   == data' = [data EXCEPT ![self[t]][op[t].key] = value]
WriteExpiry(t, value) == expires' = [expires EXCEPT ![self[t]][op[t].key] = value]

SetValue(t) ==
  /\ pc[t] = "set_value"
  /\ WriteData(t, op[t].value)
  /\ UNCHANGED expires
  /\ Continue(t, "set_ttl")

SetTtl_IntoData(t) ==
  /\ pc[t] = "set_ttl"
  /\ IF op[t].ttl = Never THEN UNCHANGED data ELSE WriteData(t, clock + op[t].ttl)
  /\ UNCHANGED expires
  /\ Return(t, Absent)

SetTtl(t) ==
  /\ pc[t] = "set_ttl"
  /\ WriteExpiry(t, IF op[t].ttl = Never THEN Never ELSE clock + op[t].ttl)
  /\ UNCHANGED data
  /\ Return(t, Absent)

ExpiryOf(t) == expires[self[t]][op[t].key]

GetValue(t) ==
  /\ pc[t] = "get_value"
  /\ UNCHANGED expires
  /\ IF ExpiryOf(t) # Never /\ clock > ExpiryOf(t)
     THEN WriteData(t, Absent) /\ Continue(t, "get_ttl")
     ELSE UNCHANGED data /\ Return(t, data[self[t]][op[t].key])

GetTtl(t) ==
  /\ pc[t] = "get_ttl"
  /\ WriteExpiry(t, Never)
  /\ UNCHANGED data
  /\ Return(t, Absent)

DeleteValue_KeepsTtl(t) ==
  /\ pc[t] = "delete_value"
  /\ WriteData(t, Absent)
  /\ UNCHANGED expires
  /\ Return(t, data[self[t]][op[t].key] # Absent)

DeleteValue(t) ==
  /\ pc[t] = "delete_value"
  /\ UNCHANGED expires
  /\ IF data[self[t]][op[t].key] = Absent
     THEN UNCHANGED data /\ Return(t, FALSE)
     ELSE WriteData(t, Absent) /\ Continue(t, "delete_ttl")

DeleteTtl(t) ==
  /\ pc[t] = "delete_ttl"
  /\ WriteExpiry(t, Never)
  /\ UNCHANGED data
  /\ Return(t, TRUE)

ClearData(t) ==
  /\ pc[t] = "clear_data"
  /\ data' = [data EXCEPT ![self[t]] = NoData]
  /\ UNCHANGED expires
  /\ Continue(t, "clear_ttl")

ClearTtl(t) ==
  /\ pc[t] = "clear_ttl"
  /\ expires' = [expires EXCEPT ![self[t]] = NoExpiry]
  /\ UNCHANGED data
  /\ Return(t, TRUE)

-----------------------------------------------------------------------------
Tick ==
  /\ clock < MaxTime
  /\ clock' = clock + 1
  /\ UNCHANGED <<object, storage, pc, op, history>>

Construction(t) ==
  \/ Construct(t) \/ AcquireClassLock(t) \/ NewBody(t)
  \/ InitCheck(t) \/ InitDone(t) \/ InitStorage(t) \/ InitFlag(t)

OperationStep(t) ==
  \/ Begin(t)
  \/ SetValue(t) \/ SetTtl(t) \/ GetValue(t) \/ GetTtl(t)
  \/ DeleteValue(t) \/ DeleteTtl(t) \/ ClearData(t) \/ ClearTtl(t)

Next == Tick \/ \E t \in Threads : Construction(t) \/ OperationStep(t)

Spec == Init /\ [][Next]_vars

-----------------------------------------------------------------------------
(* Properties.                                                             *)

(* However many threads construct the cache at once, they all hold the     *)
(* same object ("Ensures only one instance of the cache exists").          *)
Singleton ==
  \A t \in Threads : self[t] # 0 => self[t] = instance

(* A thread that __init__ let through uses attributes that exist: the flag *)
(* read without the lock is set only after they are assigned.              *)
ReadyIsInitialized ==
  \A t \in Threads : pc[t] \notin ConstructionPcs =>
    initialized[self[t]] /\ dataLock[self[t]] # NoLock

(* Between operations a key has an expiry only while it has a value: get   *)
(* deletes both and would raise KeyError on an expiry without a value.     *)
ExpiryHasValue ==
  \A i \in Objects : dataLock[i] = Nobody =>
    \A k \in Keys : expires[i][k] # Never => data[i][k] # Absent

(* Every operation is atomic and does what Cache says: results are those   *)
(* of some sequential order, no set is undone by a late __init__, no       *)
(* stale expiry outlives the value it was given for.                       *)
Abstract == INSTANCE Cache

ImplementsCache == Abstract!CacheSpec

(* The inductive invariant.  The holder of the class lock and of the data  *)
(* lock; the one object and who has it; what its flag says.                *)
Locks ==
  \A t \in Threads :
    /\ pc[t] \in {"new_body", "init_storage", "init_flag"} <=> classLock = t
    /\ pc[t] \in OperationPcs => dataLock[self[t]] = t

OneObject ==
  /\ instance \in {0, 1} /\ created = instance
  /\ \A t \in Threads : IF pc[t] \in {"idle", "new_lock", "new_body"}
                        THEN self[t] = 0
                        ELSE self[t] = instance /\ instance # 0

FlagIsHonest ==
  /\ \A i \in Objects : initialized[i] => i = instance /\ dataLock[i] # NoLock
  /\ \A t \in Threads :
       /\ pc[t] \notin ConstructionPcs => initialized[self[t]]
       /\ pc[t] = "init_flag" => ~initialized[self[t]] /\ dataLock[self[t]] = Nobody

(* While no thread is between its two accesses, the two maps are the map   *)
(* the last operation left; the thread in between knows what is to come.   *)
Halfway(t, k) ==
  \/ pc[t] \in {"set_ttl", "get_ttl", "delete_ttl"} /\ op[t].key = k
  \/ pc[t] = "clear_ttl"

StorageIsContents ==
  /\ (\A i \in Objects : ~initialized[i]) => contents = [k \in Keys |-> Entry(Absent, Never)]
  /\ \A k \in Keys : contents[k].expires # Never => contents[k].value # Absent
  /\ \A i \in Objects :
       IF initialized[i]
       THEN \A k \in Keys : (\E t \in Threads : Halfway(t, k))
                            \/ contents[k] = Entry(data[i][k], expires[i][k])
       ELSE data[i] = NoData /\ expires[i] = NoExpiry

InOperation ==
  \A t \in Threads :
    LET k == op[t].key IN
    /\ pc[t] \in {"set_value", "set_ttl"} => op[t] \in SetOperation
    /\ pc[t] \in {"get_value", "get_ttl", "delete_value", "delete_ttl"} => op[t] \in KeyOperation
    /\ pc[t] = "set_ttl" => data[self[t]][k] = op[t].value
    /\ pc[t] \in {"get_ttl", "delete_ttl"} => data[self[t]][k] = Absent
    /\ pc[t] = "get_ttl" => contents[k].expires # Never /\ clock > contents[k].expires
    /\ pc[t] = "delete_ttl" => contents[k].value # Absent
    /\ pc[t] = "clear_ttl" => data[self[t]] = NoData

CInv ==
  /\ TypeOK
  /\ Locks
  /\ OneObject
  /\ FlagIsHonest
  /\ StorageIsContents
  /\ InOperation
=============================================================================
