------------------------------- MODULE Cache -------------------------------
(***************************************************************************)
(* What InMemoryCache promises its callers: one map from keys to values,   *)
(* each with an optional time after which it is gone, on which set, get,   *)
(* delete and clear are indivisible, whichever threads call them.          *)
(***************************************************************************)
EXTENDS Naturals

CONSTANTS Threads, Keys, Values, Ttls,
          Absent,     (* no value under this key; also get's default       *)
          Never       (* no expiry; also the ttl None                      *)

VARIABLES contents,   (* per key, its value and when it expires            *)
          result,     (* per thread, what its last operation returned      *)
          clock

cvars == <<contents, result, clock>>

Entry(v, e) == [value |-> v, expires |-> e]
NoEntry     == Entry(Absent, Never)

Expired(entry, now) == entry.expires # Never /\ now > entry.expires

CacheInit ==
  /\ contents = [k \in Keys |-> NoEntry]
  /\ result = [t \in Threads |-> Absent]
  /\ clock = 0

Set(t, k, v, ttl) ==
  /\ contents' = [contents EXCEPT
                    ![k] = Entry(v, IF ttl = Never THEN Never ELSE clock + ttl)]
  /\ result' = [result EXCEPT ![t] = Absent]
  /\ UNCHANGED clock

Get(t, k) ==
  LET gone == Expired(contents[k], clock) IN
  /\ contents' = IF gone THEN [contents EXCEPT ![k] = NoEntry] ELSE contents
  /\ result' = [result EXCEPT ![t] = IF gone THEN Absent ELSE contents[k].value]
  /\ UNCHANGED clock

Delete(t, k) ==
  /\ contents' = [contents EXCEPT ![k] = NoEntry]
  /\ result' = [result EXCEPT ![t] = contents[k].value # Absent]
  /\ UNCHANGED clock

Clear(t) ==
  /\ contents' = [k \in Keys |-> NoEntry]
  /\ result' = [result EXCEPT ![t] = TRUE]
  /\ UNCHANGED clock

Tick == clock' = clock + 1 /\ UNCHANGED <<contents, result>>

CacheNext ==
  \/ \E t \in Threads, k \in Keys :
       \/ Get(t, k) \/ Delete(t, k)
       \/ \E v \in Values, ttl \in Ttls \cup {Never} : Set(t, k, v, ttl)
  \/ \E t \in Threads : Clear(t)
  \/ Tick

CacheSpec == CacheInit /\ [][CacheNext]_cvars
=============================================================================
