--------------------------- MODULE RefDataCache ---------------------------
(***************************************************************************)
(* The server's read-through caches: the generic single-flight cell of     *)
(* go/lib/cache and the containers built on it (incident types, outcomes,  *)
(* areas, crews, metrics).  A container lazily creates one cell per key    *)
(* (the event; one key for the global lists) under its own mutex c.mu; a   *)
(* cell holds a value with a time and a mutex writeMu taken by whoever     *)
(* refreshes or empties it.  What a key's rows say is abstracted to the    *)
(* number of writes committed to them.                                     *)
(***************************************************************************)
EXTENDS Integers, FiniteSets

CONSTANTS Procs,      \* goroutines serving requests
          Keys,       \* events, or one key for a global list
          MaxVersion  \* bound: writes committed per key

ASSUME CacheAssumption == /\ <<>> \notin Procs
                          /\ MaxVersion \in Nat

VARIABLES
  db,       \* db[k]: writes committed to the rows behind key k
  created,  \* keys whose cell exists (byEvent / inner # nil)
  cmu,      \* holder of the container's mutex, <<>> when free
  writeMu,  \* writeMu[k]: holder of the cell's mutex, <<>> when free
  data,     \* data[k]: the value in the cell, 0 for the empty one
  valid,    \* keys whose stored value is stillValid
  where,    \* where each goroutine is
  key,      \* the key a goroutine works on
  rd,       \* the value its refresher read
  wrote,    \* wrote[p][k]: the version p committed and has to invalidate
  todo,     \* cells InvalidateAll has not emptied yet
  acked,    \* acked[k]: highest version whose Invalidate returned (history)
  floor,    \* acked[key] when the goroutine's Get began (history)
  ret       \* what its last Get returned, -1 when nothing (history)

cacheVars == <<db, created, cmu, writeMu, data, valid, where, key, rd, wrote,
               todo, acked, floor, ret>>

Nobody == <<>>
CacheLocations == {"idle", "load", "lock", "query", "store",
                   "invalidate", "drop", "invalidateAll", "dropAll"}

(* emptyVal: no data, and a time long in the past.                         *)
StoreEmptyVal(k) == /\ data' = [data EXCEPT ![k] = 0]
                    /\ valid' = valid \ {k}

Larger(a, b) == IF a > b THEN a ELSE b

CacheInit ==
  /\ db = [k \in Keys |-> 0]
  /\ created = {}
  /\ cmu = Nobody
  /\ writeMu = [k \in Keys |-> Nobody]
  /\ data = [k \in Keys |-> 0]
  /\ valid = {}
  /\ where = [p \in Procs |-> "idle"]
  /\ key \in [Procs -> Keys]
  /\ rd = [p \in Procs |-> 0]
  /\ wrote = [p \in Procs |-> [k \in Keys |-> 0]]
  /\ todo = {}
  /\ acked = [k \in Keys |-> 0]
  /\ floor = [p \in Procs |-> 0]
  /\ ret = [p \in Procs |-> -1]

---------------------------------------------------------------------------
(* Get: find or create the cell under c.mu, then use it without c.mu.      *)
GetCell(p, k) ==
  /\ where[p] = "idle"
  /\ cmu = Nobody
  /\ created' = created \cup {k}
  /\ where' = [where EXCEPT ![p] = "load"]
  /\ key' = [key EXCEPT ![p] = k]
  /\ floor' = [floor EXCEPT ![p] = acked[k]]
  /\ ret' = [ret EXCEPT ![p] = -1]
  /\ UNCHANGED <<db, cmu, writeMu, data, valid, rd, wrote, todo, acked>>

(* The lock-free load at the top of maybeRefreshAndGet.                    *)
LoadHit(p) ==
  /\ where[p] = "load"
  /\ key[p] \in valid
  /\ where' = [where EXCEPT ![p] = "idle"]
  /\ ret' = [ret EXCEPT ![p] = data[key[p]]]
  /\ UNCHANGED <<db, created, cmu, writeMu, data, valid, key, rd, wrote,
                 todo, acked, floor>>

LoadMiss(p) ==
  /\ where[p] = "load"
  /\ key[p] \notin valid
  /\ where' = [where EXCEPT ![p] = "lock"]
  /\ UNCHANGED <<db, created, cmu, writeMu, data, valid, key, rd, wrote,
                 todo, acked, floor, ret>>

(* writeMu is taken and the value looked at again: another caller may have *)
(* refreshed it meanwhile, and then nothing is read.                       *)
LockedHit(p) ==
  /\ where[p] = "lock"
  /\ writeMu[key[p]] = Nobody
  /\ key[p] \in valid
  /\ where' = [where EXCEPT ![p] = "idle"]
  /\ ret' = [ret EXCEPT ![p] = data[key[p]]]
  /\ UNCHANGED <<db, created, cmu, writeMu, data, valid, key, rd, wrote,
                 todo, acked, floor>>

LockedMiss(p) ==
  /\ where[p] = "lock"
  /\ writeMu[key[p]] = Nobody
  /\ key[p] \notin valid
  /\ where' = [where EXCEPT ![p] = "query"]
  /\ writeMu' = [writeMu EXCEPT ![key[p]] = p]
  /\ UNCHANGED <<db, created, cmu, data, valid, key, rd, wrote, todo, acked,
                 floor, ret>>

(* The refresher runs under writeMu: it reads the committed rows, or fails *)
(* and hands its caller the error, caching nothing.                        *)
RefreshReads(p) ==
  /\ where[p] = "query"
  /\ rd' = [rd EXCEPT ![p] = db[key[p]]]
  /\ where' = [where EXCEPT ![p] = "store"]
  /\ UNCHANGED <<db, created, cmu, writeMu, data, valid, key, wrote, todo,
                 acked, floor, ret>>

(* A failing refresh that keeps the cell locked.                           *)
RefreshFailsLocked(p) ==
  /\ where[p] = "query"
  /\ where' = [where EXCEPT ![p] = "idle"]
  /\ UNCHANGED <<db, created, cmu, writeMu, data, valid, key, rd, wrote, todo,
                 acked, floor, ret>>

RefreshFails(p) ==
  /\ where[p] = "query"
  /\ where' = [where EXCEPT ![p] = "idle"]
  /\ writeMu' = [writeMu EXCEPT ![key[p]] = Nobody]
  /\ UNCHANGED <<db, created, cmu, data, valid, key, rd, wrote, todo, acked,
                 floor, ret>>

StoreCell(p) ==
  /\ where[p] = "store"
  /\ data' = [data EXCEPT ![key[p]] = rd[p]]
  /\ valid' = valid \cup {key[p]}
  /\ ret' = [ret EXCEPT ![p] = rd[p]]
  /\ writeMu' = [writeMu EXCEPT ![key[p]] = Nobody]
  /\ where' = [where EXCEPT ![p] = "idle"]
  /\ UNCHANGED <<db, created, cmu, key, rd, wrote, todo, acked, floor>>

(* stillValid turns false when the TTL has run out.                        *)
ExpireCell(k) ==
  /\ k \in valid
  /\ valid' = valid \ {k}
  /\ UNCHANGED <<db, created, cmu, writeMu, data, where, key, rd, wrote, todo,
                 acked, floor, ret>>

---------------------------------------------------------------------------
(* A handler commits a write to one key's rows and then invalidates it.    *)
CommitWrite(p, k) ==
  /\ where[p] = "idle"
  /\ db[k] < MaxVersion
  /\ db' = [db EXCEPT ![k] = @ + 1]
  /\ wrote' = [wrote EXCEPT ![p] = [j \in Keys |-> IF j = k THEN db[k] + 1
                                                            ELSE 0]]
  /\ where' = [where EXCEPT ![p] = "invalidate"]
  /\ key' = [key EXCEPT ![p] = k]
  /\ ret' = [ret EXCEPT ![p] = -1]
  /\ UNCHANGED <<created, cmu, writeMu, data, valid, rd, todo, acked, floor>>

(* The versions p committed are visible to every Get that starts now.      *)
Acknowledge(p) ==
  acked' = [k \in Keys |-> Larger(acked[k], wrote[p][k])]

(* InvalidateEvent / Invalidate: look the cell up under c.mu; nothing to   *)
(* do when it was never created.                                           *)
FindCell(p) ==
  /\ where[p] = "invalidate"
  /\ cmu = Nobody
  /\ key[p] \in created
  /\ where' = [where EXCEPT ![p] = "drop"]
  /\ UNCHANGED <<db, created, cmu, writeMu, data, valid, key, rd, wrote,
                 todo, acked, floor, ret>>

FindNoCell(p) ==
  /\ where[p] = "invalidate"
  /\ cmu = Nobody
  /\ key[p] \notin created
  /\ where' = [where EXCEPT ![p] = "idle"]
  /\ Acknowledge(p)
  /\ UNCHANGED <<db, created, cmu, writeMu, data, valid, key, rd, wrote,
                 todo, floor, ret>>

(* An Invalidate that stores emptyVal without waiting for writeMu.         *)
EmptyCellNoLock(p) ==
  /\ where[p] = "drop"
  /\ StoreEmptyVal(key[p])
  /\ where' = [where EXCEPT ![p] = "idle"]
  /\ Acknowledge(p)
  /\ UNCHANGED <<db, created, cmu, writeMu, key, rd, wrote, todo, floor,
                 ret>>

(* InMemory.Invalidate waits for a refresh in flight, then empties.        *)
EmptyCell(p) ==
  /\ where[p] = "drop"
  /\ writeMu[key[p]] = Nobody
  /\ StoreEmptyVal(key[p])
  /\ where' = [where EXCEPT ![p] = "idle"]
  /\ Acknowledge(p)
  /\ UNCHANGED <<db, created, cmu, writeMu, key, rd, wrote, todo, floor,
                 ret>>

(* A write to data every key aggregates, followed by InvalidateAll.        *)
CommitGlobalWrite(p) ==
  /\ where[p] = "idle"
  /\ \A k \in Keys : db[k] < MaxVersion
  /\ db' = [k \in Keys |-> db[k] + 1]
  /\ wrote' = [wrote EXCEPT ![p] = [k \in Keys |-> db[k] + 1]]
  /\ where' = [where EXCEPT ![p] = "invalidateAll"]
  /\ ret' = [ret EXCEPT ![p] = -1]
  /\ UNCHANGED <<created, cmu, writeMu, data, valid, key, rd, todo, acked,
                 floor>>

(* InvalidateAll keeps c.mu while it waits for cell after cell.            *)
LockContainer(p) ==
  /\ where[p] = "invalidateAll"
  /\ cmu = Nobody
  /\ cmu' = p
  /\ todo' = created
  /\ where' = [where EXCEPT ![p] = "dropAll"]
  /\ UNCHANGED <<db, created, writeMu, data, valid, key, rd, wrote, acked,
                 floor, ret>>

EmptyNextCell(p, k) ==
  /\ where[p] = "dropAll"
  /\ k \in todo
  /\ writeMu[k] = Nobody
  /\ StoreEmptyVal(k)
  /\ todo' = todo \ {k}
  /\ UNCHANGED <<db, created, cmu, writeMu, where, key, rd, wrote, acked, floor,
                 ret>>

UnlockContainer(p) ==
  /\ where[p] = "dropAll"
  /\ todo = {}
  /\ cmu' = Nobody
  /\ where' = [where EXCEPT ![p] = "idle"]
  /\ Acknowledge(p)
  /\ UNCHANGED <<db, created, writeMu, data, valid, key, rd, wrote, todo,
                 floor, ret>>

---------------------------------------------------------------------------
(* What a goroutine inside a call does next.                               *)
Step(p) ==
  \/ LoadHit(p) \/ LoadMiss(p) \/ LockedHit(p) \/ LockedMiss(p)
  \/ RefreshReads(p) \/ RefreshFails(p) \/ StoreCell(p)
  \/ FindCell(p) \/ FindNoCell(p) \/ EmptyCell(p)
  \/ LockContainer(p) \/ (\E k \in Keys : EmptyNextCell(p, k))
  \/ UnlockContainer(p)

CacheNext ==
  \/ \E p \in Procs : \/ \E k \in Keys : GetCell(p, k) \/ CommitWrite(p, k)
                      \/ CommitGlobalWrite(p)
                      \/ Step(p)
  \/ \E k \in Keys : ExpireCell(k)

CacheSpec == CacheInit /\ [][CacheNext]_cacheVars

(* Goroutines in a call are scheduled.  A goroutine waiting for a mutex    *)
(* gets it even though others keep taking it: sync.Mutex hands over to a   *)
(* waiter starved for a millisecond.                                       *)
FairCacheSpec == CacheSpec /\ \A p \in Procs : SF_cacheVars(Step(p))

---------------------------------------------------------------------------
CacheTypeOK ==
  /\ db \in [Keys -> Nat]
  /\ created \in SUBSET Keys
  /\ cmu \in Procs \cup {Nobody}
  /\ writeMu \in [Keys -> Procs \cup {Nobody}]
  /\ data \in [Keys -> Nat]
  /\ valid \in SUBSET Keys
  /\ where \in [Procs -> CacheLocations]
  /\ key \in [Procs -> Keys]
  /\ rd \in [Procs -> Nat]
  /\ wrote \in [Procs -> [Keys -> Nat]]
  /\ todo \in SUBSET Keys
  /\ acked \in [Keys -> Nat]
  /\ floor \in [Procs -> Nat]
  /\ ret \in [Procs -> Nat \cup {-1}]

(* A Get that begins after a write's Invalidate has returned never         *)
(* returns a value read before that write, whatever refresh was in flight  *)
(* when it was invalidated (Invalidate waits for writeMu).                 *)
NoStaleRead == \A p \in Procs : ret[p] # -1 => ret[p] >= floor[p]

(* Concurrent readers of one key coalesce onto one refresh: two goroutines *)
(* are never both in the refresher, and nobody runs it while the cell      *)
(* holds a valid value (the second look under writeMu).                    *)
SingleFlight ==
  \A p \in Procs : where[p] \in {"query", "store"} =>
    /\ key[p] \notin valid
    /\ \A q \in Procs \ {p} : where[q] \in {"query", "store"} => key[q] # key[p]

(* Every Get and every Invalidate returns: InvalidateAll waiting for cells *)
(* while it holds c.mu, and readers waiting for c.mu or a cell, never all  *)
(* wait on each other.                                                     *)
CallsReturn == \A p \in Procs : where[p] # "idle" ~> where[p] = "idle"

---------------------------------------------------------------------------
(* The inductive invariant behind NoStaleRead and SingleFlight.            *)

(* Who refreshes holds the cell's mutex; InvalidateAll holds c.mu.         *)
LockInv ==
  \A p \in Procs :
    /\ where[p] \in {"query", "store"} => writeMu[key[p]] = p
    /\ where[p] = "dropAll" => cmu = p

(* A cell that was never created has never been filled or refreshed.       *)
CreatedInv ==
  /\ valid \subseteq created
  /\ \A p \in Procs :
       where[p] \in {"load", "lock", "query", "store"} => key[p] \in created
  /\ \A p \in Procs : where[p] = "dropAll" => todo \subseteq created

(* Versions are ordered: acknowledged and pending ones are committed.      *)
VersionInv ==
  /\ \A k \in Keys : acked[k] <= db[k]
  /\ \A p \in Procs, k \in Keys : wrote[p][k] <= db[k]
  /\ \A p \in Procs : where[p] \in {"invalidate", "drop"} =>
       \A k \in Keys \ {key[p]} : wrote[p][k] = 0

(* A valid value, and one about to be stored, is as new as every           *)
(* acknowledged write and as every write InvalidateAll has passed.         *)
FreshInv ==
  /\ \A k \in valid : data[k] >= acked[k]
  /\ \A p \in Procs : where[p] = "store" => rd[p] >= acked[key[p]]
  /\ \A p \in Procs : where[p] = "dropAll" =>
       /\ \A k \in valid \ todo : data[k] >= wrote[p][k]
       /\ \A q \in Procs : where[q] = "store" /\ key[q] \notin todo
                              => rd[q] >= wrote[p][key[q]]

(* What a Get in progress has to return at least.                          *)
FloorInv ==
  \A p \in Procs :
    where[p] \in {"load", "lock", "query", "store"} => floor[p] <= acked[key[p]]

CacheInv == /\ CacheTypeOK /\ LockInv /\ CreatedInv /\ VersionInv /\ FreshInv
        /\ FloorInv /\ NoStaleRead /\ SingleFlight
===========================================================================
