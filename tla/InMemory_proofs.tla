-------------------------- MODULE InMemory_proofs --------------------------
(***************************************************************************)
(* Proofs about what the server keeps in memory only: the caches of the    *)
(* reference data and the hub of the live watch feed.                      *)
(*                                                                         *)
(* For any number of goroutines, keys and writes, the caches never serve a *)
(* value older than an acknowledged invalidation, and never run two        *)
(* refreshes of one key at a time.                                         *)
(*                                                                         *)
(* For any number of streams, pokes and publishes and any queue length the *)
(* live feed loses no poke silently, never sends on a closed channel,      *)
(* sends neither late nor hidden pokes, and implements PokeFeed.           *)
(***************************************************************************)
EXTENDS RefDataCache, WatchHub, TLAPS

(***************************************************************************)
(* The caches.                                                             *)
(***************************************************************************)
(* The initial state satisfies the inductive invariant.                    *)
LEMMA CacheInitInv == CacheInit => CacheInv
BY CacheAssumption
   DEF CacheInit, CacheInv, CacheTypeOK, LockInv, CreatedInv, VersionInv, FreshInv, FloorInv,
       NoStaleRead, SingleFlight, CacheLocations, Nobody

(* Every action preserves the inductive invariant.                         *)
LEMMA CacheStepInv == CacheInv /\ [CacheNext]_cacheVars => CacheInv'
<1> SUFFICES ASSUME CacheInv, [CacheNext]_cacheVars PROVE CacheInv'
  OBVIOUS
<1> USE CacheAssumption DEF CacheLocations, Nobody
<1>1. ASSUME NEW p \in Procs, NEW k \in Keys, GetCell(p, k)
      PROVE  CacheInv'
  <2>1. CacheTypeOK'
    BY <1>1 DEF CacheInv, CacheTypeOK, GetCell
  <2>2. LockInv'
    BY <1>1 DEF CacheInv, LockInv, CacheTypeOK, GetCell
  <2>3. CreatedInv'
    BY <1>1 DEF CacheInv, CreatedInv, CacheTypeOK, LockInv, GetCell
  <2>4. VersionInv'
    BY <1>1 DEF CacheInv, VersionInv, CacheTypeOK, GetCell
  <2>5. FreshInv'
    BY <1>1 DEF CacheInv, FreshInv, CacheTypeOK, LockInv, CreatedInv, VersionInv, GetCell
  <2>6. FloorInv'
    <3> SUFFICES ASSUME NEW q \in Procs,
                        where'[q] \in {"load", "lock", "query", "store"}
                 PROVE  floor'[q] <= acked'[key'[q]]
      BY DEF FloorInv
    <3>1. CASE q = p
      <4>1. floor'[p] = acked[k] /\ key'[p] = k /\ acked' = acked
        BY <1>1 DEF CacheInv, CacheTypeOK, GetCell
      <4>2. acked[k] \in Nat
        BY DEF CacheInv, CacheTypeOK
      <4> QED BY <3>1, <4>1, <4>2
    <3>2. CASE q # p
      BY <1>1, <3>2 DEF CacheInv, FloorInv, CacheTypeOK, GetCell
    <3> QED BY <3>1, <3>2
  <2>7. NoStaleRead'
    BY <1>1 DEF CacheInv, NoStaleRead, CacheTypeOK, FloorInv, FreshInv, GetCell
  <2>8. SingleFlight'
    BY <1>1 DEF CacheInv, SingleFlight, CacheTypeOK, LockInv, GetCell
  <2> QED BY <2>1, <2>2, <2>3, <2>4, <2>5, <2>6, <2>7, <2>8 DEF CacheInv
<1>2. ASSUME NEW p \in Procs, LoadHit(p)
      PROVE  CacheInv'
  <2>1. CacheTypeOK'
    BY <1>2 DEF CacheInv, CacheTypeOK, LoadHit
  <2>2. LockInv'
    BY <1>2 DEF CacheInv, LockInv, CacheTypeOK, LoadHit
  <2>3. CreatedInv'
    BY <1>2 DEF CacheInv, CreatedInv, CacheTypeOK, LockInv, LoadHit
  <2>4. VersionInv'
    BY <1>2 DEF CacheInv, VersionInv, CacheTypeOK, LoadHit
  <2>5. FreshInv'
    BY <1>2 DEF CacheInv, FreshInv, CacheTypeOK, LockInv, CreatedInv, VersionInv, LoadHit
  <2>6. FloorInv'
    BY <1>2 DEF CacheInv, FloorInv, CacheTypeOK, VersionInv, LoadHit
  <2>7. NoStaleRead'
    BY <1>2, SMTT(15) DEF CacheInv, NoStaleRead, CacheTypeOK, FloorInv, FreshInv, LoadHit
  <2>8. SingleFlight'
    BY <1>2 DEF CacheInv, SingleFlight, CacheTypeOK, LockInv, LoadHit
  <2> QED BY <2>1, <2>2, <2>3, <2>4, <2>5, <2>6, <2>7, <2>8 DEF CacheInv
<1>3. ASSUME NEW p \in Procs, LoadMiss(p)
      PROVE  CacheInv'
  <2>1. CacheTypeOK'
    BY <1>3 DEF CacheInv, CacheTypeOK, LoadMiss
  <2>2. LockInv'
    BY <1>3 DEF CacheInv, LockInv, CacheTypeOK, LoadMiss
  <2>3. CreatedInv'
    BY <1>3 DEF CacheInv, CreatedInv, CacheTypeOK, LockInv, LoadMiss
  <2>4. VersionInv'
    BY <1>3 DEF CacheInv, VersionInv, CacheTypeOK, LoadMiss
  <2>5. FreshInv'
    BY <1>3 DEF CacheInv, FreshInv, CacheTypeOK, LockInv, CreatedInv, VersionInv,
                LoadMiss
  <2>6. FloorInv'
    BY <1>3 DEF CacheInv, FloorInv, CacheTypeOK, VersionInv, LoadMiss
  <2>7. NoStaleRead'
    BY <1>3 DEF CacheInv, NoStaleRead, CacheTypeOK, FloorInv, FreshInv, LoadMiss
  <2>8. SingleFlight'
    BY <1>3 DEF CacheInv, SingleFlight, CacheTypeOK, LockInv, LoadMiss
  <2> QED BY <2>1, <2>2, <2>3, <2>4, <2>5, <2>6, <2>7, <2>8 DEF CacheInv
<1>4. ASSUME NEW p \in Procs, LockedHit(p)
      PROVE  CacheInv'
  <2>1. CacheTypeOK'
    BY <1>4 DEF CacheInv, CacheTypeOK, LockedHit
  <2>2. LockInv'
    BY <1>4 DEF CacheInv, LockInv, CacheTypeOK, LockedHit
  <2>3. CreatedInv'
    BY <1>4 DEF CacheInv, CreatedInv, CacheTypeOK, LockInv, LockedHit
  <2>4. VersionInv'
    BY <1>4 DEF CacheInv, VersionInv, CacheTypeOK, LockedHit
  <2>5. FreshInv'
    BY <1>4 DEF CacheInv, FreshInv, CacheTypeOK, LockInv, CreatedInv, VersionInv,
                LockedHit
  <2>6. FloorInv'
    BY <1>4 DEF CacheInv, FloorInv, CacheTypeOK, VersionInv, LockedHit
  <2>7. NoStaleRead'
    BY <1>4, SMTT(15) DEF CacheInv, NoStaleRead, CacheTypeOK, FloorInv, FreshInv, LockedHit
  <2>8. SingleFlight'
    BY <1>4 DEF CacheInv, SingleFlight, CacheTypeOK, LockInv, LockedHit
  <2> QED BY <2>1, <2>2, <2>3, <2>4, <2>5, <2>6, <2>7, <2>8 DEF CacheInv
<1>5. ASSUME NEW p \in Procs, LockedMiss(p)
      PROVE  CacheInv'
  <2>1. CacheTypeOK'
    BY <1>5 DEF CacheInv, CacheTypeOK, LockedMiss
  <2>2. LockInv'
    BY <1>5 DEF CacheInv, LockInv, CacheTypeOK, LockedMiss
  <2>3. CreatedInv'
    BY <1>5 DEF CacheInv, CreatedInv, CacheTypeOK, LockInv, LockedMiss
  <2>4. VersionInv'
    BY <1>5 DEF CacheInv, VersionInv, CacheTypeOK, LockedMiss
  <2>5. FreshInv'
    BY <1>5 DEF CacheInv, FreshInv, CacheTypeOK, LockInv, CreatedInv, VersionInv,
                LockedMiss
  <2>6. FloorInv'
    BY <1>5 DEF CacheInv, FloorInv, CacheTypeOK, VersionInv, LockedMiss
  <2>7. NoStaleRead'
    BY <1>5 DEF CacheInv, NoStaleRead, CacheTypeOK, FloorInv, FreshInv, LockedMiss
  <2>8. SingleFlight'
    <3>1. \A q \in Procs : where[q] \in {"query", "store"} => key[q] # key[p]
      BY <1>5 DEF CacheInv, CacheTypeOK, LockInv, LockedMiss
    <3>2. \A q \in Procs : q # p => where'[q] = where[q]
      BY <1>5 DEF CacheInv, CacheTypeOK, LockedMiss
    <3>3. key' = key /\ valid' = valid /\ key[p] \notin valid
      BY <1>5 DEF LockedMiss
    <3> QED BY <3>1, <3>2, <3>3 DEF CacheInv, SingleFlight
  <2> QED BY <2>1, <2>2, <2>3, <2>4, <2>5, <2>6, <2>7, <2>8 DEF CacheInv
<1>6. ASSUME NEW p \in Procs, RefreshReads(p)
      PROVE  CacheInv'
  <2>1. CacheTypeOK'
    BY <1>6 DEF CacheInv, CacheTypeOK, RefreshReads
  <2>2. LockInv'
    BY <1>6 DEF CacheInv, LockInv, CacheTypeOK, RefreshReads
  <2>3. CreatedInv'
    BY <1>6 DEF CacheInv, CreatedInv, CacheTypeOK, LockInv, RefreshReads
  <2>4. VersionInv'
    BY <1>6 DEF CacheInv, VersionInv, CacheTypeOK, RefreshReads
  <2>5. FreshInv'
    BY <1>6 DEF CacheInv, FreshInv, CacheTypeOK, LockInv, CreatedInv, VersionInv,
                RefreshReads
  <2>6. FloorInv'
    BY <1>6 DEF CacheInv, FloorInv, CacheTypeOK, VersionInv, RefreshReads
  <2>7. NoStaleRead'
    BY <1>6 DEF CacheInv, NoStaleRead, CacheTypeOK, FloorInv, FreshInv, RefreshReads
  <2>8. SingleFlight'
    BY <1>6 DEF CacheInv, SingleFlight, CacheTypeOK, LockInv, RefreshReads
  <2> QED BY <2>1, <2>2, <2>3, <2>4, <2>5, <2>6, <2>7, <2>8 DEF CacheInv
<1>7. ASSUME NEW p \in Procs, RefreshFails(p)
      PROVE  CacheInv'
  <2>1. CacheTypeOK'
    BY <1>7 DEF CacheInv, CacheTypeOK, RefreshFails
  <2>2. LockInv'
    BY <1>7 DEF CacheInv, LockInv, CacheTypeOK, RefreshFails
  <2>3. CreatedInv'
    BY <1>7 DEF CacheInv, CreatedInv, CacheTypeOK, LockInv, RefreshFails
  <2>4. VersionInv'
    BY <1>7 DEF CacheInv, VersionInv, CacheTypeOK, RefreshFails
  <2>5. FreshInv'
    BY <1>7 DEF CacheInv, FreshInv, CacheTypeOK, LockInv, CreatedInv, VersionInv,
                RefreshFails
  <2>6. FloorInv'
    BY <1>7 DEF CacheInv, FloorInv, CacheTypeOK, VersionInv, RefreshFails
  <2>7. NoStaleRead'
    BY <1>7 DEF CacheInv, NoStaleRead, CacheTypeOK, FloorInv, FreshInv, RefreshFails
  <2>8. SingleFlight'
    BY <1>7 DEF CacheInv, SingleFlight, CacheTypeOK, LockInv, RefreshFails
  <2> QED BY <2>1, <2>2, <2>3, <2>4, <2>5, <2>6, <2>7, <2>8 DEF CacheInv
<1>8. ASSUME NEW p \in Procs, StoreCell(p)
      PROVE  CacheInv'
  <2>1. CacheTypeOK'
    BY <1>8 DEF CacheInv, CacheTypeOK, StoreCell
  <2>2. LockInv'
    BY <1>8 DEF CacheInv, LockInv, CacheTypeOK, StoreCell
  <2>3. CreatedInv'
    BY <1>8, SMTT(15) DEF CacheInv, CreatedInv, CacheTypeOK, LockInv, StoreCell
  <2>4. VersionInv'
    BY <1>8 DEF CacheInv, VersionInv, CacheTypeOK, StoreCell
  <2>5. FreshInv'
    <3>1. \A j \in valid' : data'[j] >= acked'[j]
      BY <1>8 DEF CacheInv, FreshInv, CacheTypeOK, StoreCell
    <3>2. \A q \in Procs : where'[q] = "store" => rd'[q] >= acked'[key'[q]]
      BY <1>8 DEF CacheInv, FreshInv, CacheTypeOK, StoreCell
    <3>3. ASSUME NEW q \in Procs, where'[q] = "dropAll"
          PROVE  /\ \A j \in valid' \ todo' : data'[j] >= wrote'[q][j]
                 /\ \A r \in Procs : where'[r] = "store" /\ key'[r] \notin todo'
                                        => rd'[r] >= wrote'[q][key'[r]]
      <4>1. where[q] = "dropAll"
        BY <1>8, <3>3 DEF CacheInv, CacheTypeOK, StoreCell
      <4>2. ASSUME NEW j \in valid' \ todo'
            PROVE  data'[j] >= wrote'[q][j]
        <5>1. CASE j = key[p]
          BY <1>8, <4>1, <4>2, <5>1 DEF CacheInv, FreshInv, CacheTypeOK, StoreCell
        <5>2. CASE j # key[p]
          BY <1>8, <4>1, <4>2, <5>2 DEF CacheInv, FreshInv, CacheTypeOK, StoreCell
        <5> QED BY <5>1, <5>2
      <4>3. ASSUME NEW r \in Procs, where'[r] = "store", key'[r] \notin todo'
            PROVE  rd'[r] >= wrote'[q][key'[r]]
        BY <1>8, <4>1, <4>3 DEF CacheInv, FreshInv, CacheTypeOK, StoreCell
      <4> QED BY <4>2, <4>3
    <3> QED BY <3>1, <3>2, <3>3 DEF FreshInv
  <2>6. FloorInv'
    BY <1>8 DEF CacheInv, FloorInv, CacheTypeOK, VersionInv, StoreCell
  <2>7. NoStaleRead'
    BY <1>8 DEF CacheInv, NoStaleRead, CacheTypeOK, FloorInv, FreshInv, StoreCell
  <2>8. SingleFlight'
    BY <1>8 DEF CacheInv, SingleFlight, CacheTypeOK, LockInv, StoreCell
  <2> QED BY <2>1, <2>2, <2>3, <2>4, <2>5, <2>6, <2>7, <2>8 DEF CacheInv
<1>9. ASSUME NEW k \in Keys, ExpireCell(k)
      PROVE  CacheInv'
  <2>1. CacheTypeOK'
    BY <1>9 DEF CacheInv, CacheTypeOK, ExpireCell
  <2>2. LockInv'
    BY <1>9 DEF CacheInv, LockInv, CacheTypeOK, ExpireCell
  <2>3. CreatedInv'
    BY <1>9 DEF CacheInv, CreatedInv, CacheTypeOK, LockInv, ExpireCell
  <2>4. VersionInv'
    BY <1>9 DEF CacheInv, VersionInv, CacheTypeOK, ExpireCell
  <2>5. FreshInv'
    BY <1>9 DEF CacheInv, FreshInv, CacheTypeOK, LockInv, CreatedInv, VersionInv,
                ExpireCell
  <2>6. FloorInv'
    BY <1>9 DEF CacheInv, FloorInv, CacheTypeOK, VersionInv, ExpireCell
  <2>7. NoStaleRead'
    BY <1>9 DEF CacheInv, NoStaleRead, CacheTypeOK, FloorInv, FreshInv, ExpireCell
  <2>8. SingleFlight'
    BY <1>9 DEF CacheInv, SingleFlight, CacheTypeOK, LockInv, ExpireCell
  <2> QED BY <2>1, <2>2, <2>3, <2>4, <2>5, <2>6, <2>7, <2>8 DEF CacheInv
<1>10. ASSUME NEW p \in Procs, NEW k \in Keys, CommitWrite(p, k)
      PROVE  CacheInv'
  <2>1. CacheTypeOK'
    <3>1. [j \in Keys |-> IF j = k THEN db[k] + 1 ELSE 0] \in [Keys -> Nat]
      <4>1. \A j \in Keys : db[j] \in Nat
        BY DEF CacheInv, CacheTypeOK
      <4>2. db[k] + 1 \in Nat
        BY <4>1
      <4> QED BY <4>2
    <3>2. db' \in [Keys -> Nat] /\ wrote' \in [Procs -> [Keys -> Nat]]
      BY <1>10, <3>1 DEF CacheInv, CacheTypeOK, CommitWrite
    <3> QED BY <1>10, <3>2 DEF CacheInv, CacheTypeOK, CommitWrite
  <2>2. LockInv'
    BY <1>10 DEF CacheInv, LockInv, CacheTypeOK, CommitWrite
  <2>3. CreatedInv'
    BY <1>10 DEF CacheInv, CreatedInv, CacheTypeOK, LockInv, CommitWrite
  <2>4. VersionInv'
    <3>1. \A j \in Keys : db[j] \in Nat /\ db'[j] \in Nat /\ db[j] <= db'[j]
      <4>1. \A j \in Keys : db[j] \in Nat
        BY DEF CacheInv, CacheTypeOK
      <4>2. \A j \in Keys : db'[j] = IF j = k THEN db[j] + 1 ELSE db[j]
        BY <1>10 DEF CacheInv, CacheTypeOK, CommitWrite
      <4> QED BY <4>1, <4>2
    <3>2. \A j \in Keys : wrote'[p][j] = (IF j = k THEN db[k] + 1 ELSE 0)
      BY <1>10 DEF CacheInv, CacheTypeOK, CommitWrite
    <3>3. db'[k] = db[k] + 1 /\ acked' = acked
      BY <1>10 DEF CacheInv, CacheTypeOK, CommitWrite
    <3>4. \A q \in Procs \ {p} : wrote'[q] = wrote[q] /\ key'[q] = key[q]
                                 /\ where'[q] = where[q]
      BY <1>10 DEF CacheInv, CacheTypeOK, CommitWrite
    <3>5. key'[p] = k
      BY <1>10 DEF CacheInv, CacheTypeOK, CommitWrite
    <3>6. \A j \in Keys : acked[j] \in Nat /\ \A q \in Procs : wrote[q][j] \in Nat
      BY DEF CacheInv, CacheTypeOK
    <3>7. \A j \in Keys : acked'[j] <= db'[j]
      BY <3>1, <3>3, <3>6 DEF CacheInv, VersionInv
    <3>8. \A q \in Procs, j \in Keys : wrote'[q][j] <= db'[j]
      BY <3>1, <3>2, <3>3, <3>4, <3>6 DEF CacheInv, VersionInv
    <3>9. \A q \in Procs : where'[q] \in {"invalidate", "drop"} =>
            \A j \in Keys \ {key'[q]} : wrote'[q][j] = 0
      BY <3>2, <3>4, <3>5 DEF CacheInv, VersionInv
    <3> QED BY <3>7, <3>8, <3>9 DEF VersionInv
  <2>5. FreshInv'
    BY <1>10 DEF CacheInv, FreshInv, CacheTypeOK, LockInv, CreatedInv, VersionInv,
                 CommitWrite
  <2>6. FloorInv'
    BY <1>10 DEF CacheInv, FloorInv, CacheTypeOK, VersionInv, CommitWrite
  <2>7. NoStaleRead'
    BY <1>10 DEF CacheInv, NoStaleRead, CacheTypeOK, FloorInv, FreshInv, CommitWrite
  <2>8. SingleFlight'
    BY <1>10 DEF CacheInv, SingleFlight, CacheTypeOK, LockInv, CommitWrite
  <2> QED BY <2>1, <2>2, <2>3, <2>4, <2>5, <2>6, <2>7, <2>8 DEF CacheInv
<1>11. ASSUME NEW p \in Procs, FindCell(p)
      PROVE  CacheInv'
  <2>1. CacheTypeOK'
    BY <1>11 DEF CacheInv, CacheTypeOK, FindCell
  <2>2. LockInv'
    BY <1>11 DEF CacheInv, LockInv, CacheTypeOK, FindCell
  <2>3. CreatedInv'
    BY <1>11 DEF CacheInv, CreatedInv, CacheTypeOK, LockInv, FindCell
  <2>4. VersionInv'
    BY <1>11 DEF CacheInv, VersionInv, CacheTypeOK, FindCell
  <2>5. FreshInv'
    BY <1>11 DEF CacheInv, FreshInv, CacheTypeOK, LockInv, CreatedInv, VersionInv,
                 FindCell
  <2>6. FloorInv'
    BY <1>11 DEF CacheInv, FloorInv, CacheTypeOK, VersionInv, FindCell
  <2>7. NoStaleRead'
    BY <1>11 DEF CacheInv, NoStaleRead, CacheTypeOK, FloorInv, FreshInv, FindCell
  <2>8. SingleFlight'
    BY <1>11 DEF CacheInv, SingleFlight, CacheTypeOK, LockInv, FindCell
  <2> QED BY <2>1, <2>2, <2>3, <2>4, <2>5, <2>6, <2>7, <2>8 DEF CacheInv
<1>12. ASSUME NEW p \in Procs, FindNoCell(p)
      PROVE  CacheInv'
  <2>1. CacheTypeOK'
    BY <1>12 DEF CacheInv, CacheTypeOK, FindNoCell, Acknowledge, Larger
  <2>2. LockInv'
    BY <1>12 DEF CacheInv, LockInv, CacheTypeOK, FindNoCell, Acknowledge, Larger
  <2>3. CreatedInv'
    BY <1>12 DEF CacheInv, CreatedInv, CacheTypeOK, LockInv, FindNoCell, Acknowledge,
                 Larger
  <2>4. VersionInv'
    BY <1>12 DEF CacheInv, VersionInv, CacheTypeOK, FindNoCell, Acknowledge, Larger
  <2>5. FreshInv'
    <3>1. \A j \in Keys \ {key[p]} : acked'[j] = acked[j]
      BY <1>12 DEF CacheInv, CacheTypeOK, VersionInv, FindNoCell, Acknowledge, Larger
    <3>2. key[p] \notin valid
      BY <1>12 DEF CacheInv, CreatedInv, FindNoCell
    <3>3. \A q \in Procs : where[q] = "store" => key[q] \in Keys \ {key[p]}
      BY <1>12 DEF CacheInv, CacheTypeOK, CreatedInv, FindNoCell
    <3>4. valid \subseteq Keys
      BY DEF CacheInv, CacheTypeOK
    <3>5. \A q \in Procs : q # p => where'[q] = where[q]
      BY <1>12 DEF CacheInv, CacheTypeOK, FindNoCell
    <3>6. where'[p] = "idle" /\ UNCHANGED <<data, valid, key, rd, wrote, todo>>
      BY <1>12 DEF CacheInv, CacheTypeOK, FindNoCell
    <3> QED BY <3>1, <3>2, <3>3, <3>4, <3>5, <3>6 DEF CacheInv, FreshInv
  <2>6. FloorInv'
    BY <1>12 DEF CacheInv, FloorInv, CacheTypeOK, VersionInv, FindNoCell, Acknowledge,
                 Larger
  <2>7. NoStaleRead'
    BY <1>12 DEF CacheInv, NoStaleRead, CacheTypeOK, FloorInv, FreshInv, FindNoCell,
                 Acknowledge, Larger
  <2>8. SingleFlight'
    BY <1>12 DEF CacheInv, SingleFlight, CacheTypeOK, LockInv, FindNoCell, Acknowledge,
                 Larger
  <2> QED BY <2>1, <2>2, <2>3, <2>4, <2>5, <2>6, <2>7, <2>8 DEF CacheInv
<1>13. ASSUME NEW p \in Procs, EmptyCell(p)
      PROVE  CacheInv'
  <2>1. CacheTypeOK'
    <3>1. acked' \in [Keys -> Nat]
      BY <1>13 DEF CacheInv, CacheTypeOK, EmptyCell, Acknowledge, Larger
    <3> QED BY <1>13, <3>1 DEF CacheInv, CacheTypeOK, EmptyCell, StoreEmptyVal
  <2>2. LockInv'
    BY <1>13 DEF CacheInv, LockInv, CacheTypeOK, EmptyCell, Acknowledge, Larger,
                 StoreEmptyVal
  <2>3. CreatedInv'
    BY <1>13 DEF CacheInv, CreatedInv, CacheTypeOK, LockInv, EmptyCell, Acknowledge,
                 Larger, StoreEmptyVal
  <2>4. VersionInv'
    BY <1>13 DEF CacheInv, VersionInv, CacheTypeOK, EmptyCell, Acknowledge, Larger,
                 StoreEmptyVal
  <2>5. FreshInv'
    <3>1. \A j \in Keys \ {key[p]} : acked'[j] = acked[j] /\ data'[j] = data[j]
      BY <1>13 DEF CacheInv, CacheTypeOK, VersionInv, EmptyCell, Acknowledge, Larger,
                   StoreEmptyVal
    <3>2. valid' = valid \ {key[p]} /\ valid \subseteq Keys
      BY <1>13 DEF CacheInv, CacheTypeOK, EmptyCell, StoreEmptyVal
    <3>3. \A q \in Procs : where[q] = "store" => key[q] \in Keys \ {key[p]}
      BY <1>13 DEF CacheInv, CacheTypeOK, LockInv, EmptyCell
    <3>4. \A q \in Procs : q # p => where'[q] = where[q]
      BY <1>13 DEF CacheInv, CacheTypeOK, EmptyCell
    <3>5. where'[p] = "idle" /\ UNCHANGED <<key, rd, wrote, todo>>
      BY <1>13 DEF CacheInv, CacheTypeOK, EmptyCell
    <3> QED BY <3>1, <3>2, <3>3, <3>4, <3>5 DEF CacheInv, FreshInv
  <2>6. FloorInv'
    BY <1>13 DEF CacheInv, FloorInv, CacheTypeOK, VersionInv, EmptyCell, Acknowledge,
                 Larger, StoreEmptyVal
  <2>7. NoStaleRead'
    BY <1>13 DEF CacheInv, NoStaleRead, CacheTypeOK, FloorInv, FreshInv, EmptyCell,
                 Acknowledge, Larger, StoreEmptyVal
  <2>8. SingleFlight'
    BY <1>13 DEF CacheInv, SingleFlight, CacheTypeOK, LockInv, EmptyCell, Acknowledge,
                 Larger, StoreEmptyVal
  <2> QED BY <2>1, <2>2, <2>3, <2>4, <2>5, <2>6, <2>7, <2>8 DEF CacheInv
<1>14. ASSUME NEW p \in Procs, CommitGlobalWrite(p)
      PROVE  CacheInv'
  <2>1. CacheTypeOK'
    <3>1. [j \in Keys |-> db[j] + 1] \in [Keys -> Nat]
      <4>1. \A j \in Keys : db[j] \in Nat
        BY DEF CacheInv, CacheTypeOK
      <4>2. \A j \in Keys : db[j] + 1 \in Nat
        BY <4>1
      <4> QED BY <4>2
    <3>2. db' \in [Keys -> Nat] /\ wrote' \in [Procs -> [Keys -> Nat]]
      BY <1>14, <3>1 DEF CacheInv, CacheTypeOK, CommitGlobalWrite
    <3> QED BY <1>14, <3>2 DEF CacheInv, CacheTypeOK, CommitGlobalWrite
  <2>2. LockInv'
    BY <1>14 DEF CacheInv, LockInv, CacheTypeOK, CommitGlobalWrite
  <2>3. CreatedInv'
    BY <1>14 DEF CacheInv, CreatedInv, CacheTypeOK, LockInv, CommitGlobalWrite
  <2>4. VersionInv'
    <3>1. \A j \in Keys : db[j] \in Nat /\ db'[j] = db[j] + 1
      BY <1>14 DEF CacheInv, CacheTypeOK, CommitGlobalWrite
    <3>2. \A j \in Keys : wrote'[p][j] = db'[j]
      BY <1>14 DEF CacheInv, CacheTypeOK, CommitGlobalWrite
    <3>3. \A q \in Procs \ {p} : wrote'[q] = wrote[q] /\ where'[q] = where[q]
      BY <1>14 DEF CacheInv, CacheTypeOK, CommitGlobalWrite
    <3>4. where'[p] = "invalidateAll" /\ key' = key /\ acked' = acked
      BY <1>14 DEF CacheInv, CacheTypeOK, CommitGlobalWrite
    <3>5. \A j \in Keys : acked[j] \in Nat /\ \A q \in Procs : wrote[q][j] \in Nat
      BY DEF CacheInv, CacheTypeOK
    <3>6. \A j \in Keys : acked'[j] <= db'[j]
      BY <3>1, <3>4, <3>5 DEF CacheInv, VersionInv
    <3>7. \A q \in Procs, j \in Keys : wrote'[q][j] <= db'[j]
      BY <3>1, <3>2, <3>3, <3>5 DEF CacheInv, VersionInv
    <3>8. \A q \in Procs : where'[q] \in {"invalidate", "drop"} =>
            \A j \in Keys \ {key'[q]} : wrote'[q][j] = 0
      BY <3>3, <3>4 DEF CacheInv, VersionInv
    <3> QED BY <3>6, <3>7, <3>8 DEF VersionInv
  <2>5. FreshInv'
    BY <1>14 DEF CacheInv, FreshInv, CacheTypeOK, LockInv, CreatedInv, VersionInv,
                 CommitGlobalWrite
  <2>6. FloorInv'
    BY <1>14 DEF CacheInv, FloorInv, CacheTypeOK, VersionInv, CommitGlobalWrite
  <2>7. NoStaleRead'
    BY <1>14 DEF CacheInv, NoStaleRead, CacheTypeOK, FloorInv, FreshInv,
                 CommitGlobalWrite
  <2>8. SingleFlight'
    BY <1>14 DEF CacheInv, SingleFlight, CacheTypeOK, LockInv, CommitGlobalWrite
  <2> QED BY <2>1, <2>2, <2>3, <2>4, <2>5, <2>6, <2>7, <2>8 DEF CacheInv
<1>15. ASSUME NEW p \in Procs, LockContainer(p)
      PROVE  CacheInv'
  <2>1. CacheTypeOK'
    BY <1>15 DEF CacheInv, CacheTypeOK, LockContainer
  <2>2. LockInv'
    BY <1>15 DEF CacheInv, LockInv, CacheTypeOK, LockContainer
  <2>3. CreatedInv'
    BY <1>15 DEF CacheInv, CreatedInv, CacheTypeOK, LockInv, LockContainer
  <2>4. VersionInv'
    BY <1>15 DEF CacheInv, VersionInv, CacheTypeOK, LockContainer
  <2>5. FreshInv'
    BY <1>15 DEF CacheInv, FreshInv, CacheTypeOK, LockInv, CreatedInv, VersionInv,
                 LockContainer
  <2>6. FloorInv'
    BY <1>15 DEF CacheInv, FloorInv, CacheTypeOK, VersionInv, LockContainer
  <2>7. NoStaleRead'
    BY <1>15 DEF CacheInv, NoStaleRead, CacheTypeOK, FloorInv, FreshInv, LockContainer
  <2>8. SingleFlight'
    BY <1>15 DEF CacheInv, SingleFlight, CacheTypeOK, LockInv, LockContainer
  <2> QED BY <2>1, <2>2, <2>3, <2>4, <2>5, <2>6, <2>7, <2>8 DEF CacheInv
<1>16. ASSUME NEW p \in Procs, NEW k \in Keys, EmptyNextCell(p, k)
      PROVE  CacheInv'
  <2>1. CacheTypeOK'
    BY <1>16 DEF CacheInv, CacheTypeOK, EmptyNextCell, StoreEmptyVal
  <2>2. LockInv'
    BY <1>16 DEF CacheInv, LockInv, CacheTypeOK, EmptyNextCell, StoreEmptyVal
  <2>3. CreatedInv'
    BY <1>16 DEF CacheInv, CreatedInv, CacheTypeOK, LockInv, EmptyNextCell, StoreEmptyVal
  <2>4. VersionInv'
    BY <1>16 DEF CacheInv, VersionInv, CacheTypeOK, EmptyNextCell, StoreEmptyVal
  <2>5. FreshInv'
    BY <1>16 DEF CacheInv, FreshInv, CacheTypeOK, LockInv, CreatedInv, VersionInv,
                 EmptyNextCell, StoreEmptyVal
  <2>6. FloorInv'
    BY <1>16 DEF CacheInv, FloorInv, CacheTypeOK, VersionInv, EmptyNextCell,
                 StoreEmptyVal
  <2>7. NoStaleRead'
    BY <1>16 DEF CacheInv, NoStaleRead, CacheTypeOK, FloorInv, FreshInv, EmptyNextCell,
                 StoreEmptyVal
  <2>8. SingleFlight'
    BY <1>16 DEF CacheInv, SingleFlight, CacheTypeOK, LockInv, EmptyNextCell,
                 StoreEmptyVal
  <2> QED BY <2>1, <2>2, <2>3, <2>4, <2>5, <2>6, <2>7, <2>8 DEF CacheInv
<1>17. ASSUME NEW p \in Procs, UnlockContainer(p)
      PROVE  CacheInv'
  <2>1. CacheTypeOK'
    BY <1>17 DEF CacheInv, CacheTypeOK, UnlockContainer, Acknowledge, Larger
  <2>2. LockInv'
    BY <1>17 DEF CacheInv, LockInv, CacheTypeOK, UnlockContainer, Acknowledge, Larger
  <2>3. CreatedInv'
    BY <1>17 DEF CacheInv, CreatedInv, CacheTypeOK, LockInv, UnlockContainer,
                 Acknowledge, Larger
  <2>4. VersionInv'
    BY <1>17 DEF CacheInv, VersionInv, CacheTypeOK, UnlockContainer, Acknowledge, Larger
  <2>5. FreshInv'
    BY <1>17 DEF CacheInv, FreshInv, CacheTypeOK, LockInv, CreatedInv, VersionInv,
                 UnlockContainer, Acknowledge, Larger
  <2>6. FloorInv'
    BY <1>17 DEF CacheInv, FloorInv, CacheTypeOK, VersionInv, UnlockContainer,
                 Acknowledge, Larger
  <2>7. NoStaleRead'
    BY <1>17 DEF CacheInv, NoStaleRead, CacheTypeOK, FloorInv, FreshInv,
                 UnlockContainer, Acknowledge, Larger
  <2>8. SingleFlight'
    BY <1>17 DEF CacheInv, SingleFlight, CacheTypeOK, LockInv, UnlockContainer,
                 Acknowledge, Larger
  <2> QED BY <2>1, <2>2, <2>3, <2>4, <2>5, <2>6, <2>7, <2>8 DEF CacheInv
<1>18. CASE UNCHANGED cacheVars
  BY <1>18 DEF cacheVars, CacheInv, CacheTypeOK, LockInv, CreatedInv, VersionInv, FreshInv,
               FloorInv, NoStaleRead, SingleFlight
<1> QED
  BY <1>1, <1>2, <1>3, <1>4, <1>5, <1>6, <1>7, <1>8, <1>9, <1>10, <1>11, <1>12,
     <1>13, <1>14, <1>15, <1>16, <1>17, <1>18
     DEF CacheNext, Step

(* The inductive invariant holds in every reachable state.                 *)
THEOREM CacheInvariant == CacheSpec => []CacheInv
BY CacheInitInv, CacheStepInv, PTL DEF CacheSpec

(* Type correctness of the caches.                                         *)
THEOREM CacheTypeCorrect == CacheSpec => []CacheTypeOK
<1> CacheInv => CacheTypeOK
  BY DEF CacheInv
<1> QED BY CacheInvariant, PTL

(* A Get begun after an Invalidate has returned is never older than the    *)
(* write it invalidated (InMemory.Invalidate waits for writeMu).           *)
THEOREM CacheNoStaleRead == CacheSpec => []NoStaleRead
<1> CacheInv => NoStaleRead
  BY DEF CacheInv
<1> QED BY CacheInvariant, PTL

(* maybeRefreshAndGet coalesces concurrent readers onto one refresh.       *)
THEOREM CacheSingleFlight == CacheSpec => []SingleFlight
<1> CacheInv => SingleFlight
  BY DEF CacheInv
<1> QED BY CacheInvariant, PTL

(***************************************************************************)
(* The live watch feed.                                                    *)
(***************************************************************************)
(* Taking the head of a queue: what is taken, and what is left.            *)
LEMMA HeadOfQueue ==
  ASSUME NEW q \in Seq(Pokes), q # <<>>
  PROVE  /\ Head(q) \in Pokes
         /\ Tail(q) \in Seq(Pokes)
         /\ Len(q) \in Nat
         /\ Len(Tail(q)) = Len(q) - 1
OBVIOUS

(* The initial state satisfies the inductive invariant.                    *)
LEMMA HubInitInv == Init => IInv
<1> SUFFICES ASSUME Init PROVE IInv
  OBVIOUS
<1>1. TypeOK
  <2>1. pokes \in [Sessions -> Seq(Pokes)]
    BY DEF Init
  <2>2. \A s \in Sessions : Len(pokes[s]) = 0
    BY DEF Init
  <2>3. WatchBuffer \in Nat
    BY HubAssumption
  <2>4. token \in [Sessions -> {"none", "valid", "expired"}]
    BY DEF Init
  <2>5. hand \in [Sessions -> {<<>>} \cup {<<p>> : p \in Pokes}]
    BY DEF Init
  <2>6. ASSUME NEW s \in Sessions PROVE Len(pokes[s]) <= WatchBuffer
    <3>1. 0 <= WatchBuffer
      BY <2>3
    <3> QED BY <2>2, <3>1
  <2> QED BY <2>1, <2>4, <2>5, <2>6 DEF Init, TypeOK, Locations, Results
<1>2. NoSilentLoss
  <2>1. \A s \in Sessions : /\ Held(s) = 0 /\ Len(pokes[s]) = 0
                            /\ due[s] = 0 /\ dealt[s] = 0
                            /\ Missed(s) = 0
    BY DEF Init, Held, Missed
  <2>2. ASSUME NEW s \in Sessions
        PROVE  due[s] = dealt[s] + Held(s) + Len(pokes[s]) + Missed(s)
    <3>1. 0 = 0 + 0 + 0 + 0
      OBVIOUS
    <3> QED BY <2>1, <3>1
  <2> QED BY <2>2 DEF NoSilentLoss
<1> QED
  BY <1>1, <1>2 DEF Init, IInv, AttachInv, HandInv, LateInv, ResultInv,
                    HiddenPokesWithheld, Expired

(* Every action preserves the inductive invariant.                         *)
LEMMA HubStepInv == IInv /\ [Next]_vars => IInv'
<1> SUFFICES ASSUME IInv, [Next]_vars PROVE IInv'
  OBVIOUS
<1> USE HubAssumption DEF Locations, Results
<1>1. ASSUME NEW p \in Pokes, Publish(p)
      PROVE  IInv'
  <2>1. TypeOK'
    BY <1>1, SMTT(20) DEF IInv, TypeOK, Publish, End, Full, Watching
  <2>2. AttachInv'
    BY <1>1 DEF IInv, AttachInv, TypeOK, Serving, HandInv, Publish, End, Full,
                Watching
  <2>3. HandInv'
    BY <1>1 DEF IInv, HandInv, TypeOK, Publish, End, Full, Watching
  <2>4. LateInv'
    BY <1>1 DEF IInv, LateInv, TypeOK, Expired, Publish, End, Full, Watching
  <2>5. ResultInv'
    BY <1>1 DEF IInv, ResultInv, TypeOK, AttachInv, HandInv, Publish, End,
                Full, Watching
  <2>6. NoSilentLoss'
    BY <1>1 DEF IInv, NoSilentLoss, Held, Missed, TypeOK, AttachInv, Publish,
                End, Full, Watching
  <2>7. HiddenPokesWithheld'
    BY <1>1 DEF IInv, HiddenPokesWithheld, TypeOK, HandInv, Publish, End, Full,
                Watching
  <2> QED BY <2>1, <2>2, <2>3, <2>4, <2>5, <2>6, <2>7 DEF IInv
<1>2. ASSUME CloseHub
      PROVE  IInv'
  <2>1. TypeOK'
    BY <1>2 DEF IInv, TypeOK, CloseHub, End
  <2>2. AttachInv'
    BY <1>2 DEF IInv, AttachInv, TypeOK, Serving, HandInv, CloseHub, End
  <2>3. HandInv'
    BY <1>2 DEF IInv, HandInv, TypeOK, CloseHub, End
  <2>4. LateInv'
    BY <1>2 DEF IInv, LateInv, TypeOK, Expired, CloseHub, End
  <2>5. ResultInv'
    BY <1>2 DEF IInv, ResultInv, TypeOK, AttachInv, HandInv, CloseHub, End
  <2>6. NoSilentLoss'
    BY <1>2 DEF IInv, NoSilentLoss, Held, Missed, TypeOK, AttachInv, CloseHub,
                End
  <2>7. HiddenPokesWithheld'
    BY <1>2 DEF IInv, HiddenPokesWithheld, TypeOK, HandInv, CloseHub, End
  <2> QED BY <2>1, <2>2, <2>3, <2>4, <2>5, <2>6, <2>7 DEF IInv
<1>3. ASSUME NEW s \in Sessions, Open(s)
      PROVE  IInv'
  <2>1. TypeOK'
    BY <1>3 DEF IInv, TypeOK, Open, hubVars, envVars
  <2>2. AttachInv'
    BY <1>3 DEF IInv, AttachInv, TypeOK, Serving, HandInv, Open, hubVars,
                envVars
  <2>3. HandInv'
    BY <1>3 DEF IInv, HandInv, TypeOK, Open, hubVars, envVars
  <2>4. LateInv'
    BY <1>3 DEF IInv, LateInv, TypeOK, Expired, Open, hubVars, envVars
  <2>5. ResultInv'
    BY <1>3 DEF IInv, ResultInv, TypeOK, AttachInv, HandInv, Open, hubVars,
                envVars
  <2>6. NoSilentLoss'
    BY <1>3 DEF IInv, NoSilentLoss, Held, Missed, TypeOK, AttachInv, Open,
                hubVars, envVars
  <2>7. HiddenPokesWithheld'
    BY <1>3 DEF IInv, HiddenPokesWithheld, TypeOK, HandInv, Open, hubVars,
                envVars
  <2> QED BY <2>1, <2>2, <2>3, <2>4, <2>5, <2>6, <2>7 DEF IInv
<1>4. ASSUME NEW s \in Sessions, OpenRefused(s)
      PROVE  IInv'
  <2>1. TypeOK'
    BY <1>4 DEF IInv, TypeOK, OpenRefused, hubVars, envVars, Refuse
  <2>2. AttachInv'
    BY <1>4 DEF IInv, AttachInv, TypeOK, Serving, HandInv, OpenRefused,
                hubVars, envVars, Refuse
  <2>3. HandInv'
    BY <1>4 DEF IInv, HandInv, TypeOK, OpenRefused, hubVars, envVars, Refuse
  <2>4. LateInv'
    BY <1>4 DEF IInv, LateInv, TypeOK, Expired, OpenRefused, hubVars, envVars,
                Refuse
  <2>5. ResultInv'
    BY <1>4 DEF IInv, ResultInv, TypeOK, AttachInv, HandInv, OpenRefused,
                hubVars, envVars, Refuse
  <2>6. NoSilentLoss'
    BY <1>4 DEF IInv, NoSilentLoss, Held, Missed, TypeOK, AttachInv,
                OpenRefused, hubVars, envVars, Refuse
  <2>7. HiddenPokesWithheld'
    BY <1>4 DEF IInv, HiddenPokesWithheld, TypeOK, HandInv, OpenRefused,
                hubVars, envVars, Refuse
  <2> QED BY <2>1, <2>2, <2>3, <2>4, <2>5, <2>6, <2>7 DEF IInv
<1>5. ASSUME NEW s \in Sessions, GatePasses(s)
      PROVE  IInv'
  <2>1. TypeOK'
    BY <1>5 DEF IInv, TypeOK, GatePasses, hubVars, envVars
  <2>2. AttachInv'
    BY <1>5 DEF IInv, AttachInv, TypeOK, Serving, HandInv, GatePasses, hubVars,
                envVars
  <2>3. HandInv'
    BY <1>5 DEF IInv, HandInv, TypeOK, GatePasses, hubVars, envVars
  <2>4. LateInv'
    BY <1>5 DEF IInv, LateInv, TypeOK, Expired, GatePasses, hubVars, envVars
  <2>5. ResultInv'
    BY <1>5 DEF IInv, ResultInv, TypeOK, AttachInv, HandInv, GatePasses,
                hubVars, envVars
  <2>6. NoSilentLoss'
    BY <1>5 DEF IInv, NoSilentLoss, Held, Missed, TypeOK, AttachInv,
                GatePasses, hubVars, envVars
  <2>7. HiddenPokesWithheld'
    BY <1>5 DEF IInv, HiddenPokesWithheld, TypeOK, HandInv, GatePasses,
                hubVars, envVars
  <2> QED BY <2>1, <2>2, <2>3, <2>4, <2>5, <2>6, <2>7 DEF IInv
<1>6. ASSUME NEW s \in Sessions, GateDenies(s)
      PROVE  IInv'
  <2>1. TypeOK'
    BY <1>6 DEF IInv, TypeOK, GateDenies, hubVars, envVars, Refuse
  <2>2. AttachInv'
    BY <1>6 DEF IInv, AttachInv, TypeOK, Serving, HandInv, GateDenies, hubVars,
                envVars, Refuse
  <2>3. HandInv'
    BY <1>6 DEF IInv, HandInv, TypeOK, GateDenies, hubVars, envVars, Refuse
  <2>4. LateInv'
    BY <1>6 DEF IInv, LateInv, TypeOK, Expired, GateDenies, hubVars, envVars,
                Refuse
  <2>5. ResultInv'
    BY <1>6 DEF IInv, ResultInv, TypeOK, AttachInv, HandInv, GateDenies,
                hubVars, envVars, Refuse
  <2>6. NoSilentLoss'
    BY <1>6 DEF IInv, NoSilentLoss, Held, Missed, TypeOK, AttachInv,
                GateDenies, hubVars, envVars, Refuse
  <2>7. HiddenPokesWithheld'
    BY <1>6 DEF IInv, HiddenPokesWithheld, TypeOK, HandInv, GateDenies,
                hubVars, envVars, Refuse
  <2> QED BY <2>1, <2>2, <2>3, <2>4, <2>5, <2>6, <2>7 DEF IInv
<1>7. ASSUME NEW s \in Sessions, Subscribe(s)
      PROVE  IInv'
  <2>1. TypeOK'
    BY <1>7 DEF IInv, TypeOK, Subscribe, hubVars, envVars
  <2>2. AttachInv'
    BY <1>7 DEF IInv, AttachInv, TypeOK, Serving, HandInv, Subscribe, hubVars,
                envVars
  <2>3. HandInv'
    BY <1>7 DEF IInv, HandInv, TypeOK, Subscribe, hubVars, envVars
  <2>4. LateInv'
    BY <1>7 DEF IInv, LateInv, TypeOK, Expired, Subscribe, hubVars, envVars
  <2>5. ResultInv'
    BY <1>7 DEF IInv, ResultInv, TypeOK, AttachInv, HandInv, Subscribe,
                hubVars, envVars
  <2>6. NoSilentLoss'
    BY <1>7 DEF IInv, NoSilentLoss, Held, Missed, TypeOK, AttachInv, Subscribe,
                hubVars, envVars
  <2>7. HiddenPokesWithheld'
    BY <1>7 DEF IInv, HiddenPokesWithheld, TypeOK, HandInv, Subscribe, hubVars,
                envVars
  <2> QED BY <2>1, <2>2, <2>3, <2>4, <2>5, <2>6, <2>7 DEF IInv
<1>8. ASSUME NEW s \in Sessions, Beat(s)
      PROVE  IInv'
  <2>1. TypeOK'
    <3>1. late' \in [Sessions -> Nat]
      BY <1>8 DEF IInv, TypeOK, Beat, CountLate
    <3> QED BY <1>8, <3>1 DEF IInv, TypeOK, Beat, hubVars, envVars
  <2>2. AttachInv'
    BY <1>8 DEF IInv, AttachInv, TypeOK, Serving, HandInv, Beat, hubVars,
                envVars, CountLate, Expired
  <2>3. HandInv'
    BY <1>8 DEF IInv, HandInv, TypeOK, Beat, hubVars, envVars, CountLate,
                Expired
  <2>4. LateInv'
    BY <1>8 DEF IInv, LateInv, TypeOK, Expired, Beat, hubVars, envVars,
                CountLate
  <2>5. ResultInv'
    BY <1>8 DEF IInv, ResultInv, TypeOK, AttachInv, HandInv, Beat, hubVars,
                envVars, CountLate, Expired
  <2>6. NoSilentLoss'
    BY <1>8 DEF IInv, NoSilentLoss, Held, Missed, TypeOK, AttachInv, Beat,
                hubVars, envVars, CountLate, Expired
  <2>7. HiddenPokesWithheld'
    BY <1>8 DEF IInv, HiddenPokesWithheld, TypeOK, HandInv, Beat, hubVars,
                envVars, CountLate, Expired
  <2> QED BY <2>1, <2>2, <2>3, <2>4, <2>5, <2>6, <2>7 DEF IInv
<1>9. ASSUME NEW s \in Sessions, SendFails(s)
      PROVE  IInv'
  <2>1. TypeOK'
    BY <1>9 DEF IInv, TypeOK, SendFails, hubVars, envVars, Return
  <2>2. AttachInv'
    BY <1>9 DEF IInv, AttachInv, TypeOK, Serving, HandInv, SendFails, hubVars,
                envVars, Return
  <2>3. HandInv'
    BY <1>9 DEF IInv, HandInv, TypeOK, SendFails, hubVars, envVars, Return
  <2>4. LateInv'
    BY <1>9 DEF IInv, LateInv, TypeOK, Expired, SendFails, hubVars, envVars,
                Return
  <2>5. ResultInv'
    BY <1>9 DEF IInv, ResultInv, TypeOK, AttachInv, HandInv, SendFails,
                hubVars, envVars, Return
  <2>6. NoSilentLoss'
    BY <1>9 DEF IInv, NoSilentLoss, Held, Missed, TypeOK, AttachInv, SendFails,
                hubVars, envVars, Return
  <2>7. HiddenPokesWithheld'
    BY <1>9 DEF IInv, HiddenPokesWithheld, TypeOK, HandInv, SendFails, hubVars,
                envVars, Return
  <2> QED BY <2>1, <2>2, <2>3, <2>4, <2>5, <2>6, <2>7 DEF IInv
<1>10. ASSUME NEW s \in Sessions, ContextDone(s)
      PROVE  IInv'
  <2>1. TypeOK'
    BY <1>10 DEF IInv, TypeOK, ContextDone, hubVars, envVars, Return
  <2>2. AttachInv'
    BY <1>10 DEF IInv, AttachInv, TypeOK, Serving, HandInv, ContextDone,
                 hubVars, envVars, Return
  <2>3. HandInv'
    BY <1>10 DEF IInv, HandInv, TypeOK, ContextDone, hubVars, envVars, Return
  <2>4. LateInv'
    BY <1>10 DEF IInv, LateInv, TypeOK, Expired, ContextDone, hubVars, envVars,
                 Return
  <2>5. ResultInv'
    BY <1>10 DEF IInv, ResultInv, TypeOK, AttachInv, HandInv, ContextDone,
                 hubVars, envVars, Return
  <2>6. NoSilentLoss'
    BY <1>10 DEF IInv, NoSilentLoss, Held, Missed, TypeOK, AttachInv,
                 ContextDone, hubVars, envVars, Return
  <2>7. HiddenPokesWithheld'
    BY <1>10 DEF IInv, HiddenPokesWithheld, TypeOK, HandInv, ContextDone,
                 hubVars, envVars, Return
  <2> QED BY <2>1, <2>2, <2>3, <2>4, <2>5, <2>6, <2>7 DEF IInv
<1>11. ASSUME NEW s \in Sessions, Tick(s)
      PROVE  IInv'
  <2>1. TypeOK'
    BY <1>11 DEF IInv, TypeOK, Tick, hubVars, envVars, Expired
  <2>2. AttachInv'
    BY <1>11 DEF IInv, AttachInv, TypeOK, Serving, HandInv, Tick, hubVars,
                 envVars, Expired
  <2>3. HandInv'
    BY <1>11 DEF IInv, HandInv, TypeOK, Tick, hubVars, envVars, Expired
  <2>4. LateInv'
    BY <1>11 DEF IInv, LateInv, TypeOK, Expired, Tick, hubVars, envVars
  <2>5. ResultInv'
    BY <1>11 DEF IInv, ResultInv, TypeOK, AttachInv, HandInv, Tick, hubVars,
                 envVars, Expired
  <2>6. NoSilentLoss'
    BY <1>11 DEF IInv, NoSilentLoss, Held, Missed, TypeOK, AttachInv, Tick,
                 hubVars, envVars, Expired
  <2>7. HiddenPokesWithheld'
    BY <1>11 DEF IInv, HiddenPokesWithheld, TypeOK, HandInv, Tick, hubVars,
                 envVars, Expired
  <2> QED BY <2>1, <2>2, <2>3, <2>4, <2>5, <2>6, <2>7 DEF IInv
<1>12. ASSUME NEW s \in Sessions, TickExpired(s)
      PROVE  IInv'
  <2>1. TypeOK'
    BY <1>12 DEF IInv, TypeOK, TickExpired, hubVars, envVars, Expired, Return
  <2>2. AttachInv'
    BY <1>12 DEF IInv, AttachInv, TypeOK, Serving, HandInv, TickExpired,
                 hubVars, envVars, Expired, Return
  <2>3. HandInv'
    BY <1>12 DEF IInv, HandInv, TypeOK, TickExpired, hubVars, envVars, Expired,
                 Return
  <2>4. LateInv'
    BY <1>12 DEF IInv, LateInv, TypeOK, Expired, TickExpired, hubVars, envVars,
                 Return
  <2>5. ResultInv'
    BY <1>12 DEF IInv, ResultInv, TypeOK, AttachInv, HandInv, TickExpired,
                 hubVars, envVars, Expired, Return
  <2>6. NoSilentLoss'
    BY <1>12 DEF IInv, NoSilentLoss, Held, Missed, TypeOK, AttachInv,
                 TickExpired, hubVars, envVars, Expired, Return
  <2>7. HiddenPokesWithheld'
    BY <1>12 DEF IInv, HiddenPokesWithheld, TypeOK, HandInv, TickExpired,
                 hubVars, envVars, Expired, Return
  <2> QED BY <2>1, <2>2, <2>3, <2>4, <2>5, <2>6, <2>7 DEF IInv
<1>13. ASSUME NEW s \in Sessions, Take(s)
      PROVE  IInv'
  <2>1. TypeOK'
    <3>1. /\ Head(pokes[s]) \in Pokes
          /\ Tail(pokes[s]) \in Seq(Pokes)
          /\ Len(pokes[s]) \in Nat
          /\ Len(Tail(pokes[s])) = Len(pokes[s]) - 1
      BY <1>13, HeadOfQueue DEF IInv, TypeOK, Take, PickUp
    <3>2. hand' \in [Sessions -> {<<>>} \cup {<<p>> : p \in Pokes}]
      BY <1>13, <3>1 DEF IInv, TypeOK, Take, PickUp
    <3>3. pokes' \in [Sessions -> Seq(Pokes)]
      BY <1>13, <3>1 DEF IInv, TypeOK, Take, PickUp
    <3>4. \A r \in Sessions : Len(pokes'[r]) <= WatchBuffer
      <4>1. \A r \in Sessions : pokes'[r] = IF r = s THEN Tail(pokes[s])
                                                    ELSE pokes[r]
        BY <1>13 DEF IInv, TypeOK, Take, PickUp
      <4>2. \A r \in Sessions : Len(pokes[r]) <= WatchBuffer
        BY DEF IInv, TypeOK
      <4>3. WatchBuffer \in Nat
        BY HubAssumption
      <4>4. Len(Tail(pokes[s])) <= WatchBuffer
        BY <3>1, <4>2, <4>3
      <4> QED BY <4>1, <4>2, <4>4
    <3>5. blind' \in SUBSET Sessions
      BY <1>13 DEF IInv, TypeOK, Take, PickUp
    <3> QED BY <1>13, <3>2, <3>3, <3>4, <3>5
            DEF IInv, TypeOK, Take, envVars
  <2>2. AttachInv'
    BY <1>13 DEF IInv, AttachInv, TypeOK, Serving, HandInv, Take, hubVars,
                 envVars, Expired, PickUp
  <2>3. HandInv'
    <3>1. hand'[s] = <<Head(pokes[s])>> /\ pc'[s] = "visible"
      BY <1>13 DEF IInv, TypeOK, Take, PickUp
    <3>2. hand'[s] # <<>> /\ Head(hand'[s]) = Head(pokes[s])
      BY <3>1
    <3>3. s \in blind' /\ s \notin blind => <<s, Head(pokes[s])>> \in hidden'
      BY <1>13 DEF Take, PickUp, envVars
    <3>4. s \notin blind
      BY <1>13 DEF IInv, HandInv, Take
    <3>6. hidden' = hidden
      BY <1>13 DEF Take, envVars
    <3>7. s \in blind' => <<s, Head(hand'[s])>> \in hidden'
      BY <3>2, <3>3, <3>4
    <3>8. ASSUME NEW r \in Sessions
          PROVE  /\ pc'[r] \in {"idle", "gate", "subscribe", "beat", "loop"}
                      => hand'[r] = <<>>
                 /\ pc'[r] \in {"visible", "send"} => hand'[r] # <<>>
                 /\ r \in blind' => hand'[r] # <<>>
                 /\ pc'[r] = "visible" /\ r \in blind'
                      => <<r, Head(hand'[r])>> \in hidden'
      <4>1. CASE r = s
        BY <3>1, <3>2, <3>7, <4>1
      <4>2. CASE r # s
        <5>1. hand'[r] = hand[r] /\ pc'[r] = pc[r] /\ (r \in blind' => r \in blind)
          BY <1>13, <4>2 DEF IInv, TypeOK, Take, PickUp
        <5> QED BY <3>6, <5>1 DEF IInv, HandInv
      <4> QED BY <4>1, <4>2
    <3> QED BY <3>8 DEF HandInv
  <2>4. LateInv'
    BY <1>13 DEF IInv, LateInv, TypeOK, Expired, Take, hubVars, envVars, PickUp
  <2>5. ResultInv'
    BY <1>13 DEF IInv, ResultInv, TypeOK, AttachInv, HandInv, Take, hubVars,
                 envVars, Expired, PickUp
  <2>6. NoSilentLoss'
    <3>1. /\ Len(pokes[s]) \in Nat
          /\ Len(Tail(pokes[s])) = Len(pokes[s]) - 1
      BY <1>13, HeadOfQueue DEF IInv, TypeOK, Take, PickUp
    <3>2. /\ hand[s] = <<>> /\ Held(s)' = 1
          /\ pokes'[s] = Tail(pokes[s])
      BY <1>13 DEF IInv, TypeOK, HandInv, Take, PickUp, Held
    <3>3. \A r \in Sessions \ {s} : hand'[r] = hand[r] /\ pokes'[r] = pokes[r]
      BY <1>13 DEF IInv, TypeOK, Take, PickUp
    <3>4. UNCHANGED <<due, dealt, reason>>
      BY <1>13 DEF Take
    <3>5. due[s] \in Nat /\ dealt[s] \in Nat
      BY DEF IInv, TypeOK
    <3>6. Held(s) = 0
      BY <3>2 DEF Held
    <3>7. NoSilentLoss
      BY DEF IInv
    <3>9. Missed(s) \in Nat /\ Missed(s)' = Missed(s)
      BY <3>4 DEF Missed
    <3>8. due'[s] = dealt'[s] + Held(s)' + Len(pokes'[s]) + Missed(s)'
      BY <3>1, <3>2, <3>4, <3>5, <3>6, <3>7, <3>9 DEF NoSilentLoss
    <3> QED BY <3>3, <3>4, <3>7, <3>8 DEF NoSilentLoss, Held, Missed
  <2>7. HiddenPokesWithheld'
    BY <1>13 DEF IInv, HiddenPokesWithheld, TypeOK, HandInv, Take, hubVars,
                 envVars, Expired, PickUp
  <2> QED BY <2>1, <2>2, <2>3, <2>4, <2>5, <2>6, <2>7 DEF IInv
<1>14. ASSUME NEW s \in Sessions, TakeExpired(s)
      PROVE  IInv'
  <2>1. TypeOK'
    <3>1. /\ Head(pokes[s]) \in Pokes
          /\ Tail(pokes[s]) \in Seq(Pokes)
          /\ Len(pokes[s]) \in Nat
          /\ Len(Tail(pokes[s])) = Len(pokes[s]) - 1
      BY <1>14, HeadOfQueue DEF IInv, TypeOK, TakeExpired, PickUp
    <3>2. hand' \in [Sessions -> {<<>>} \cup {<<p>> : p \in Pokes}]
      BY <1>14, <3>1 DEF IInv, TypeOK, TakeExpired, PickUp
    <3>3. pokes' \in [Sessions -> Seq(Pokes)]
      BY <1>14, <3>1 DEF IInv, TypeOK, TakeExpired, PickUp
    <3>4. \A r \in Sessions : Len(pokes'[r]) <= WatchBuffer
      <4>1. \A r \in Sessions : pokes'[r] = IF r = s THEN Tail(pokes[s])
                                                    ELSE pokes[r]
        BY <1>14 DEF IInv, TypeOK, TakeExpired, PickUp
      <4>2. \A r \in Sessions : Len(pokes[r]) <= WatchBuffer
        BY DEF IInv, TypeOK
      <4>3. WatchBuffer \in Nat
        BY HubAssumption
      <4>4. Len(Tail(pokes[s])) <= WatchBuffer
        BY <3>1, <4>2, <4>3
      <4> QED BY <4>1, <4>2, <4>4
    <3>5. blind' \in SUBSET Sessions
      BY <1>14 DEF IInv, TypeOK, TakeExpired, PickUp
    <3> QED BY <1>14, <3>2, <3>3, <3>4, <3>5
            DEF IInv, TypeOK, TakeExpired, envVars, Return
  <2>2. AttachInv'
    BY <1>14 DEF IInv, AttachInv, TypeOK, Serving, HandInv, TakeExpired,
                 hubVars, envVars, Expired, PickUp, Return
  <2>3. HandInv'
    BY <1>14 DEF IInv, HandInv, TypeOK, TakeExpired, hubVars, envVars, Expired,
                 PickUp, Return
  <2>4. LateInv'
    BY <1>14 DEF IInv, LateInv, TypeOK, Expired, TakeExpired, hubVars, envVars,
                 PickUp, Return
  <2>5. ResultInv'
    BY <1>14 DEF IInv, ResultInv, TypeOK, AttachInv, HandInv, TakeExpired,
                 hubVars, envVars, Expired, PickUp, Return
  <2>6. NoSilentLoss'
    <3>1. /\ Len(pokes[s]) \in Nat
          /\ Len(Tail(pokes[s])) = Len(pokes[s]) - 1
      BY <1>14, HeadOfQueue DEF IInv, TypeOK, TakeExpired, PickUp
    <3>2. /\ hand[s] = <<>> /\ Held(s)' = 1
          /\ pokes'[s] = Tail(pokes[s])
      BY <1>14 DEF IInv, TypeOK, HandInv, TakeExpired, PickUp, Held
    <3>3. \A r \in Sessions \ {s} : hand'[r] = hand[r] /\ pokes'[r] = pokes[r]
      BY <1>14 DEF IInv, TypeOK, TakeExpired, PickUp
    <3>4. UNCHANGED <<due, dealt, reason>>
      BY <1>14 DEF TakeExpired
    <3>5. due[s] \in Nat /\ dealt[s] \in Nat
      BY DEF IInv, TypeOK
    <3>6. Held(s) = 0
      BY <3>2 DEF Held
    <3>7. NoSilentLoss
      BY DEF IInv
    <3>9. Missed(s) \in Nat /\ Missed(s)' = Missed(s)
      BY <3>4 DEF Missed
    <3>8. due'[s] = dealt'[s] + Held(s)' + Len(pokes'[s]) + Missed(s)'
      BY <3>1, <3>2, <3>4, <3>5, <3>6, <3>7, <3>9 DEF NoSilentLoss
    <3> QED BY <3>3, <3>4, <3>7, <3>8 DEF NoSilentLoss, Held, Missed
  <2>7. HiddenPokesWithheld'
    BY <1>14 DEF IInv, HiddenPokesWithheld, TypeOK, HandInv, TakeExpired,
                 hubVars, envVars, Expired, PickUp, Return
  <2> QED BY <2>1, <2>2, <2>3, <2>4, <2>5, <2>6, <2>7 DEF IInv
<1>15. ASSUME NEW s \in Sessions, ChannelClosed(s)
      PROVE  IInv'
  <2>1. TypeOK'
    BY <1>15 DEF IInv, TypeOK, ChannelClosed, hubVars, envVars, Return
  <2>2. AttachInv'
    BY <1>15 DEF IInv, AttachInv, TypeOK, Serving, HandInv, ChannelClosed,
                 hubVars, envVars, Return
  <2>3. HandInv'
    BY <1>15 DEF IInv, HandInv, TypeOK, ChannelClosed, hubVars, envVars, Return
  <2>4. LateInv'
    BY <1>15 DEF IInv, LateInv, TypeOK, Expired, ChannelClosed, hubVars,
                 envVars, Return
  <2>5. ResultInv'
    BY <1>15, ZenonT(30) DEF IInv, ResultInv, TypeOK, AttachInv, HandInv, ChannelClosed,
                 hubVars, envVars, Return
  <2>6. NoSilentLoss'
    BY <1>15 DEF IInv, NoSilentLoss, Held, Missed, TypeOK, AttachInv,
                 ChannelClosed, hubVars, envVars, Return
  <2>7. HiddenPokesWithheld'
    BY <1>15 DEF IInv, HiddenPokesWithheld, TypeOK, HandInv, ChannelClosed,
                 hubVars, envVars, Return
  <2> QED BY <2>1, <2>2, <2>3, <2>4, <2>5, <2>6, <2>7 DEF IInv
<1>16. ASSUME NEW s \in Sessions, CheckPasses(s)
      PROVE  IInv'
  <2>1. TypeOK'
    BY <1>16 DEF IInv, TypeOK, CheckPasses, hubVars, envVars
  <2>2. AttachInv'
    BY <1>16 DEF IInv, AttachInv, TypeOK, Serving, HandInv, CheckPasses,
                 hubVars, envVars
  <2>3. HandInv'
    BY <1>16 DEF IInv, HandInv, TypeOK, CheckPasses, hubVars, envVars
  <2>4. LateInv'
    BY <1>16 DEF IInv, LateInv, TypeOK, Expired, CheckPasses, hubVars, envVars
  <2>5. ResultInv'
    BY <1>16 DEF IInv, ResultInv, TypeOK, AttachInv, HandInv, CheckPasses,
                 hubVars, envVars
  <2>6. NoSilentLoss'
    BY <1>16 DEF IInv, NoSilentLoss, Held, Missed, TypeOK, AttachInv,
                 CheckPasses, hubVars, envVars
  <2>7. HiddenPokesWithheld'
    BY <1>16 DEF IInv, HiddenPokesWithheld, TypeOK, HandInv, CheckPasses,
                 hubVars, envVars
  <2> QED BY <2>1, <2>2, <2>3, <2>4, <2>5, <2>6, <2>7 DEF IInv
<1>17. ASSUME NEW s \in Sessions, Withhold(s)
      PROVE  IInv'
  <2>1. TypeOK'
    BY <1>17, SMTT(15) DEF IInv, TypeOK, Withhold, hubVars, envVars, PutDown
  <2>2. AttachInv'
    BY <1>17 DEF IInv, AttachInv, TypeOK, Serving, HandInv, Withhold, hubVars,
                 envVars, PutDown
  <2>3. HandInv'
    BY <1>17 DEF IInv, HandInv, TypeOK, Withhold, hubVars, envVars, PutDown
  <2>4. LateInv'
    BY <1>17 DEF IInv, LateInv, TypeOK, Expired, Withhold, hubVars, envVars,
                 PutDown
  <2>5. ResultInv'
    BY <1>17 DEF IInv, ResultInv, TypeOK, AttachInv, HandInv, Withhold,
                 hubVars, envVars, PutDown
  <2>6. NoSilentLoss'
    <3>1. /\ Held(s) = 1 /\ Held(s)' = 0
          /\ dealt'[s] = dealt[s] + 1
      BY <1>17 DEF IInv, TypeOK, HandInv, Withhold, PutDown, Held
    <3>2. \A r \in Sessions \ {s} : hand'[r] = hand[r] /\ dealt'[r] = dealt[r]
      BY <1>17 DEF IInv, TypeOK, Withhold, PutDown
    <3>3. UNCHANGED <<due, reason, pokes>>
      BY <1>17 DEF Withhold, hubVars
    <3>4. /\ due[s] \in Nat /\ dealt[s] \in Nat
          /\ Len(pokes[s]) \in Nat
      BY DEF IInv, TypeOK
    <3>5. NoSilentLoss
      BY DEF IInv
    <3>7. Missed(s) \in Nat /\ Missed(s)' = Missed(s)
      BY <3>3 DEF Missed
    <3>6. due'[s] = dealt'[s] + Held(s)' + Len(pokes'[s]) + Missed(s)'
      BY <3>1, <3>3, <3>4, <3>5, <3>7 DEF NoSilentLoss
    <3> QED BY <3>2, <3>3, <3>5, <3>6 DEF NoSilentLoss, Held, Missed
  <2>7. HiddenPokesWithheld'
    BY <1>17 DEF IInv, HiddenPokesWithheld, TypeOK, HandInv, Withhold, hubVars,
                 envVars, PutDown
  <2> QED BY <2>1, <2>2, <2>3, <2>4, <2>5, <2>6, <2>7 DEF IInv
<1>18. ASSUME NEW s \in Sessions, Send(s)
      PROVE  IInv'
  <2>1. TypeOK'
    BY <1>18 DEF IInv, TypeOK, Send, hubVars, envVars, PutDown, CountLate,
                 Expired
  <2>2. AttachInv'
    BY <1>18 DEF IInv, AttachInv, TypeOK, Serving, HandInv, Send, hubVars,
                 envVars, PutDown, CountLate, Expired
  <2>3. HandInv'
    BY <1>18 DEF IInv, HandInv, TypeOK, Send, hubVars, envVars, PutDown,
                 CountLate, Expired
  <2>4. LateInv'
    BY <1>18 DEF IInv, LateInv, TypeOK, Expired, Send, hubVars, envVars,
                 PutDown, CountLate
  <2>5. ResultInv'
    BY <1>18 DEF IInv, ResultInv, TypeOK, AttachInv, HandInv, Send, hubVars,
                 envVars, PutDown, CountLate, Expired
  <2>6. NoSilentLoss'
    <3>1. /\ Held(s) = 1 /\ Held(s)' = 0
          /\ dealt'[s] = dealt[s] + 1
      BY <1>18 DEF IInv, TypeOK, HandInv, Send, PutDown, Held
    <3>2. \A r \in Sessions \ {s} : hand'[r] = hand[r] /\ dealt'[r] = dealt[r]
      BY <1>18 DEF IInv, TypeOK, Send, PutDown
    <3>3. UNCHANGED <<due, reason, pokes>>
      BY <1>18 DEF Send, hubVars
    <3>4. /\ due[s] \in Nat /\ dealt[s] \in Nat
          /\ Len(pokes[s]) \in Nat
      BY DEF IInv, TypeOK
    <3>5. NoSilentLoss
      BY DEF IInv
    <3>7. Missed(s) \in Nat /\ Missed(s)' = Missed(s)
      BY <3>3 DEF Missed
    <3>6. due'[s] = dealt'[s] + Held(s)' + Len(pokes'[s]) + Missed(s)'
      BY <3>1, <3>3, <3>4, <3>5, <3>7 DEF NoSilentLoss
    <3> QED BY <3>2, <3>3, <3>5, <3>6 DEF NoSilentLoss, Held, Missed
  <2>7. HiddenPokesWithheld'
    BY <1>18 DEF IInv, HiddenPokesWithheld, TypeOK, HandInv, Send, hubVars,
                 envVars, PutDown, CountLate, Expired
  <2> QED BY <2>1, <2>2, <2>3, <2>4, <2>5, <2>6, <2>7 DEF IInv
<1>19. ASSUME NEW s \in Sessions, CloseSession(s)
      PROVE  IInv'
  <2>1. TypeOK'
    BY <1>19 DEF IInv, TypeOK, CloseSession, End, envVars
  <2>2. AttachInv'
    BY <1>19 DEF IInv, AttachInv, TypeOK, Serving, HandInv, CloseSession, End,
                 envVars
  <2>3. HandInv'
    BY <1>19 DEF IInv, HandInv, TypeOK, CloseSession, End, envVars
  <2>4. LateInv'
    BY <1>19 DEF IInv, LateInv, TypeOK, Expired, CloseSession, End, envVars
  <2>5. ResultInv'
    BY <1>19 DEF IInv, ResultInv, TypeOK, AttachInv, HandInv, CloseSession,
                 End, envVars
  <2>6. NoSilentLoss'
    BY <1>19 DEF IInv, NoSilentLoss, Held, Missed, TypeOK, AttachInv,
                 CloseSession, End, envVars
  <2>7. HiddenPokesWithheld'
    BY <1>19 DEF IInv, HiddenPokesWithheld, TypeOK, HandInv, CloseSession, End,
                 envVars
  <2> QED BY <2>1, <2>2, <2>3, <2>4, <2>5, <2>6, <2>7 DEF IInv
<1>20. ASSUME NEW s \in Sessions, ExpireToken(s)
      PROVE  IInv'
  <2>1. TypeOK'
    BY <1>20 DEF IInv, TypeOK, ExpireToken, hubVars
  <2>2. AttachInv'
    BY <1>20 DEF IInv, AttachInv, TypeOK, Serving, HandInv, ExpireToken, hubVars
  <2>3. HandInv'
    BY <1>20 DEF IInv, HandInv, TypeOK, ExpireToken, hubVars
  <2>4. LateInv'
    BY <1>20 DEF IInv, LateInv, TypeOK, Expired, ExpireToken, hubVars
  <2>5. ResultInv'
    BY <1>20 DEF IInv, ResultInv, TypeOK, AttachInv, HandInv, ExpireToken,
                 hubVars
  <2>6. NoSilentLoss'
    BY <1>20 DEF IInv, NoSilentLoss, Held, Missed, TypeOK, AttachInv,
                 ExpireToken, hubVars
  <2>7. HiddenPokesWithheld'
    BY <1>20 DEF IInv, HiddenPokesWithheld, TypeOK, HandInv, ExpireToken,
                 hubVars
  <2> QED BY <2>1, <2>2, <2>3, <2>4, <2>5, <2>6, <2>7 DEF IInv
<1>21. ASSUME NEW s \in Sessions, NEW p \in Pokes, Hide(s, p)
      PROVE  IInv'
  <2>1. TypeOK'
    BY <1>21, SMTT(20) DEF IInv, TypeOK, Hide, hubVars
  <2>2. AttachInv'
    BY <1>21 DEF IInv, AttachInv, TypeOK, Serving, HandInv, Hide, hubVars
  <2>3. HandInv'
    BY <1>21 DEF IInv, HandInv, TypeOK, Hide, hubVars
  <2>4. LateInv'
    BY <1>21 DEF IInv, LateInv, TypeOK, Expired, Hide, hubVars
  <2>5. ResultInv'
    BY <1>21 DEF IInv, ResultInv, TypeOK, AttachInv, HandInv, Hide, hubVars
  <2>6. NoSilentLoss'
    BY <1>21 DEF IInv, NoSilentLoss, Held, Missed, TypeOK, AttachInv, Hide,
                 hubVars
  <2>7. HiddenPokesWithheld'
    BY <1>21 DEF IInv, HiddenPokesWithheld, TypeOK, HandInv, Hide, hubVars
  <2> QED BY <2>1, <2>2, <2>3, <2>4, <2>5, <2>6, <2>7 DEF IInv
<1>22. ASSUME NEW s \in Sessions, NEW p \in Pokes, Show(s, p)
      PROVE  IInv'
  <2>1. TypeOK'
    BY <1>22 DEF IInv, TypeOK, Show, hubVars
  <2>2. AttachInv'
    BY <1>22 DEF IInv, AttachInv, TypeOK, Serving, HandInv, Show, hubVars
  <2>3. HandInv'
    BY <1>22 DEF IInv, HandInv, TypeOK, Show, hubVars
  <2>4. LateInv'
    BY <1>22 DEF IInv, LateInv, TypeOK, Expired, Show, hubVars
  <2>5. ResultInv'
    BY <1>22 DEF IInv, ResultInv, TypeOK, AttachInv, HandInv, Show, hubVars
  <2>6. NoSilentLoss'
    BY <1>22 DEF IInv, NoSilentLoss, Held, Missed, TypeOK, AttachInv, Show,
                 hubVars
  <2>7. HiddenPokesWithheld'
    BY <1>22 DEF IInv, HiddenPokesWithheld, TypeOK, HandInv, Show, hubVars
  <2> QED BY <2>1, <2>2, <2>3, <2>4, <2>5, <2>6, <2>7 DEF IInv
<1>23. CASE UNCHANGED vars
  BY <1>23 DEF vars, hubVars, envVars, IInv, TypeOK, AttachInv, HandInv,
               LateInv, ResultInv, NoSilentLoss, HiddenPokesWithheld, Expired,
               Serving, Held, Missed
<1> QED
  BY <1>1, <1>2, <1>3, <1>4, <1>5, <1>6, <1>7, <1>8, <1>9, <1>10, <1>11, <1>12,
     <1>13, <1>14, <1>15, <1>16, <1>17, <1>18, <1>19, <1>20, <1>21, <1>22,
     <1>23
     DEF Next, Handler

(* The inductive invariant holds in every reachable state.                 *)
THEOREM HubInvariant == Spec => []IInv
BY HubInitInv, HubStepInv, PTL DEF Spec

(* Type correctness; in particular no queue ever exceeds watchBuffer.      *)
THEOREM HubTypeCorrect == Spec => []TypeOK
<1> IInv => TypeOK
  BY DEF IInv
<1> QED BY HubInvariant, PTL

(* Publish never sends on a closed channel, and no channel is closed       *)
(* twice: WatchSession.end runs once per session.                          *)
THEOREM HubNoSendOnClosed == Spec => []NoSendOnClosed
<1> IInv => NoSendOnClosed
  BY DEF IInv, TypeOK, AttachInv, NoSendOnClosed, Serving
<1> QED BY HubInvariant, PTL

(* Every poke published to an attached session is accounted for, and the   *)
(* one a full queue cost it is recorded as errFellBehind.                  *)
THEOREM HubNoSilentLoss == Spec => []NoSilentLoss
<1> IInv => NoSilentLoss
  BY DEF IInv
<1> QED BY HubInvariant, PTL

(* Stream reports errFellBehind and errShuttingDown truthfully.            *)
THEOREM HubReasonIsHonest == Spec => []ReasonIsHonest
<1>1. ASSUME IInv PROVE ReasonIsHonest
  <2> SUFFICES ASSUME NEW s \in Sessions
               PROVE  /\ result[s] = "fellBehind" => due[s] = dealt[s] + 1
                      /\ result[s] = "shuttingDown" => down /\ due[s] = dealt[s]
    BY DEF ReasonIsHonest
  <2>1. due[s] = dealt[s] + Held(s) + Len(pokes[s]) + Missed(s)
    BY <1>1 DEF IInv, NoSilentLoss
  <2>2. due[s] \in Nat /\ dealt[s] \in Nat
    BY <1>1 DEF IInv, TypeOK
  <2>3. ASSUME result[s] \in {"fellBehind", "shuttingDown"}
        PROVE  Held(s) = 0 /\ Len(pokes[s]) = 0 /\ reason[s] = result[s]
    BY <1>1, <2>3 DEF IInv, ResultInv, Held
  <2>4. ASSUME result[s] = "fellBehind" PROVE due[s] = dealt[s] + 1
    <3>1. Missed(s) = 1
      BY <2>3, <2>4 DEF Missed
    <3> QED BY <2>1, <2>2, <2>3, <2>4, <3>1
  <2>5. ASSUME result[s] = "shuttingDown" PROVE down /\ due[s] = dealt[s]
    <3>1. Missed(s) = 0
      BY <2>3, <2>5 DEF Missed
    <3>2. down
      BY <1>1, <2>3, <2>5 DEF IInv, AttachInv
    <3>3. due[s] = dealt[s]
      BY <2>1, <2>2, <2>3, <2>5, <3>1
    <3> QED BY <3>2, <3>3
  <2> QED BY <2>4, <2>5
<1> QED BY <1>1, HubInvariant, PTL

(* A stream writes at most one message after its token has expired.        *)
THEOREM HubAtMostOneLateSend == Spec => []AtMostOneLateSend
<1> IInv => AtMostOneLateSend
  BY DEF IInv, LateInv, AtMostOneLateSend
<1> QED BY HubInvariant, PTL

(* A poke hidden since before it was taken is never about to be sent.      *)
THEOREM HubHiddenPokesWithheld == Spec => []HiddenPokesWithheld
<1> IInv => HiddenPokesWithheld
  BY DEF IInv
<1> QED BY HubInvariant, PTL

(* All that Stream owes a subscriber, for any sessions, pokes and buffer.  *)
THEOREM HubIsSafe == Spec => []HubSafe
<1> QED BY HubNoSendOnClosed, HubNoSilentLoss, HubReasonIsHonest,
           HubAtMostOneLateSend, HubHiddenPokesWithheld, PTL DEF HubSafe

(***************************************************************************)
(* The hub implements the feed.                                            *)
(***************************************************************************)
(* What is still owed to a session, as Feed maps it.                       *)
OwedTo(s) ==
  IF StageOf(s) \in {"on", "cut"} THEN hand[s] \o pokes[s] ELSE <<>>

(* How many pokes it was to get, as Feed maps it.                          *)
DueTo(s) == IF StageOf(s) \in {"on", "cut"} THEN due[s] ELSE 0

(* The step means nothing to a session.                                    *)
SameFor(s) == /\ StageOf(s)' = StageOf(s)
              /\ OwedTo(s)' = OwedTo(s)
              /\ DueTo(s)' = DueTo(s)

(* Nothing is queued for a session before it is attached.                  *)
Unattached ==
  \A s \in Sessions :
    pc[s] \in {"idle", "gate", "subscribe"} => pokes[s] = <<>> /\ due[s] = 0

FInv == IInv /\ Unattached

(* The poke in hand and the queue behind it, as one sequence.              *)
LEMMA HandThenQueue ==
  ASSUME NEW q \in Seq(Pokes)
  PROVE  /\ <<>> \o q = q
         /\ q # <<>> => <<Head(q)>> \o Tail(q) = q
         /\ \A p \in Pokes : <<p>> \o q # <<>> /\ Tail(<<p>> \o q) = q
         /\ \A h, p \in Pokes :
              <<h>> \o Append(q, p) = Append(<<h>> \o q, p)
         /\ \A p \in Pokes : <<>> \o Append(q, p) = Append(<<>> \o q, p)
OBVIOUS

(* The invariant of the refinement holds at first.                         *)
LEMMA HubInitFInv == Init => FInv
BY HubInitInv DEF FInv, Unattached, Init

(* Every action preserves it: pokes are queued for attached sessions only, *)
(* and no handler goes back to before its Subscribe.                       *)
LEMMA HubStepFInv == FInv /\ [Next]_vars => FInv'
<1> SUFFICES ASSUME FInv, [Next]_vars PROVE FInv'
  OBVIOUS
<1>1. IInv'
  BY HubStepInv DEF FInv
<1>2. Unattached'
  <2>1. ASSUME NEW p \in Pokes, Publish(p) PROVE Unattached'
    BY <2>1 DEF FInv, IInv, TypeOK, AttachInv, Serving, Unattached, Publish
  <2>2. CASE UNCHANGED <<pokes, pc, due>>
    BY <2>2 DEF FInv, Unattached
  <2>3. ASSUME NEW s \in Sessions, Handler(s) PROVE Unattached'
    <3>1. \A r \in Sessions : pc'[r] \in {"idle", "gate", "subscribe"} =>
              pc[r] \in {"idle", "gate", "subscribe"} /\ pokes'[r] = pokes[r] /\ due'[r] = due[r]
      BY <2>3 DEF FInv, IInv, TypeOK, Handler, Open, OpenRefused, GatePasses,
           GateDenies, Subscribe, Beat, SendFails, ContextDone, Tick, TickExpired,
           Take, TakeExpired, ChannelClosed, CheckPasses, Withhold, Send,
           CloseSession, Refuse, Return, PickUp, hubVars
    <3> QED BY <3>1 DEF FInv, Unattached
  <2>4. CloseHub => UNCHANGED <<pokes, pc, due>>
    BY DEF CloseHub
  <2>5. \A s \in Sessions : ExpireToken(s) => UNCHANGED <<pokes, pc, due>>
    BY DEF ExpireToken, hubVars
  <2>6. \A s \in Sessions, p \in Pokes :
          Hide(s, p) \/ Show(s, p) => UNCHANGED <<pokes, pc, due>>
    BY DEF Hide, Show, hubVars
  <2>7. UNCHANGED vars => UNCHANGED <<pokes, pc, due>>
    BY DEF vars, hubVars
  <2> QED BY <2>1, <2>2, <2>3, <2>4, <2>5, <2>6, <2>7 DEF Next
<1> QED BY <1>1, <1>2 DEF FInv

(* The initial states are the feed's.                                      *)
LEMMA FeedInit == Init => Feed!Init
BY DEF Init, Feed!Init, StageOf

(* A step that changes neither a stage nor what is owed is no step of the  *)
(* feed.                                                                   *)
LEMMA FeedStutters ==
  ASSUME \A r \in Sessions : SameFor(r)
  PROVE  UNCHANGED Feed!feedVars
BY DEF Feed!feedVars, OwedTo, DueTo, SameFor

(* A step by which the stream of one session ends.                         *)
LEMMA FeedOver ==
  ASSUME NEW s \in Sessions,
         \A r \in Sessions \ {s} : SameFor(r),
         StageOf(s)' = "over"
  PROVE  Feed!Over(s)
BY DEF Feed!Over, OwedTo, DueTo, SameFor

(* A step by which a session is given the oldest poke it is owed.          *)
LEMMA FeedGive ==
  ASSUME NEW s \in Sessions,
         \A r \in Sessions \ {s} : SameFor(r),
         StageOf(s)' = StageOf(s), DueTo(s)' = DueTo(s),
         StageOf(s) \in {"on", "cut"}, OwedTo(s) # <<>>,
         OwedTo(s)' = Tail(OwedTo(s))
  PROVE  Feed!Give(s)
BY DEF Feed!Give, OwedTo, DueTo, SameFor

(* Every step of a handler is a step of the feed or none.                  *)
LEMMA FeedHandler ==
  ASSUME FInv, NEW s \in Sessions, Handler(s)
  PROVE  Feed!Next \/ UNCHANGED Feed!feedVars
<1>1. \A r \in Sessions \ {s} : /\ pc'[r] = pc[r] /\ hand'[r] = hand[r]
                                /\ pokes'[r] = pokes[r]
                                /\ r \in subs' <=> r \in subs
  BY DEF FInv, IInv, TypeOK, Handler, Open, OpenRefused, GatePasses,
       GateDenies, Subscribe, Beat, SendFails, ContextDone, Tick, TickExpired,
       Take, TakeExpired, ChannelClosed, CheckPasses, Withhold, Send,
       CloseSession, Refuse, Return, PickUp, PutDown, hubVars
<1>2. UNCHANGED due
  BY DEF Handler, Open, OpenRefused, GatePasses, GateDenies, Subscribe, Beat,
         SendFails, ContextDone, Tick, TickExpired, Take, TakeExpired,
         ChannelClosed, CheckPasses, Withhold, Send, CloseSession
<1>3. \A r \in Sessions \ {s} : SameFor(r)
  BY <1>1, <1>2 DEF StageOf, OwedTo, DueTo, SameFor
<1>4. CASE Open(s) \/ GatePasses(s) \/ Beat(s) \/ Tick(s) \/ CheckPasses(s)
  <2>1. /\ UNCHANGED <<hand, pokes, subs>>
        /\ StageOf(s)' = StageOf(s)
    BY <1>4 DEF FInv, IInv, TypeOK, Open, GatePasses, Beat, Tick, CheckPasses,
                StageOf, hubVars
  <2>2. OwedTo(s)' = OwedTo(s) /\ DueTo(s)' = DueTo(s)
    BY <1>2, <2>1 DEF OwedTo, DueTo
  <2> QED BY <1>3, <1>2, <2>1, <2>2, FeedStutters DEF SameFor
<1>5. CASE OpenRefused(s) \/ GateDenies(s) \/ SendFails(s) \/ ContextDone(s)
           \/ TickExpired(s) \/ TakeExpired(s) \/ ChannelClosed(s)
  <2>1. pc'[s] \in {"closing", "done"}
    BY <1>5 DEF FInv, IInv, TypeOK, OpenRefused, GateDenies, SendFails, ContextDone,
                TickExpired, TakeExpired, ChannelClosed, Refuse, Return
  <2>2. StageOf(s)' = "over"
    BY <2>1 DEF StageOf
  <2> QED BY <1>3, <1>2, <2>2, FeedOver DEF Feed!Next
<1>6. CASE Subscribe(s)
  <2>1. /\ pc[s] = "subscribe" /\ pc'[s] = "beat" /\ s \in subs'
        /\ UNCHANGED <<hand, pokes>>
    BY <1>6 DEF FInv, IInv, TypeOK, Subscribe
  <2>2. hand[s] = <<>> /\ pokes[s] = <<>> /\ due[s] = 0
    BY <2>1 DEF FInv, IInv, HandInv, Unattached
  <2>3. StageOf(s) = "off" /\ StageOf(s)' = "on"
    BY <2>1 DEF StageOf
  <2>4. OwedTo(s)' = <<>> /\ DueTo(s)' = 0
    BY <1>2, <2>1, <2>2, <2>3 DEF OwedTo, DueTo
  <2>5. Feed!Attach(s)
    BY <1>3, <1>2, <2>3, <2>4 DEF Feed!Attach, OwedTo, DueTo, SameFor
  <2> QED BY <2>5 DEF Feed!Next
<1>7. CASE Take(s)
  <2>1. /\ pc[s] = "loop" /\ pc'[s] = "visible" /\ UNCHANGED subs
        /\ pokes[s] # <<>> /\ pokes[s] \in Seq(Pokes)
        /\ hand'[s] = <<Head(pokes[s])>> /\ pokes'[s] = Tail(pokes[s])
    BY <1>7 DEF FInv, IInv, TypeOK, Take, PickUp
  <2>2. hand[s] = <<>>
    BY <2>1 DEF FInv, IInv, HandInv
  <2>3. hand'[s] \o pokes'[s] = hand[s] \o pokes[s]
    BY <2>1, <2>2, HandThenQueue
  <2>4. StageOf(s)' = StageOf(s)
    BY <2>1 DEF StageOf
  <2>5. OwedTo(s)' = OwedTo(s) /\ DueTo(s)' = DueTo(s)
    BY <1>2, <2>3, <2>4 DEF OwedTo, DueTo
  <2> QED BY <1>3, <1>2, <2>4, <2>5, FeedStutters DEF SameFor
<1>8. CASE Withhold(s) \/ Send(s)
  <2>1. /\ pc[s] \in {"visible", "send"} /\ pc'[s] = "loop"
        /\ UNCHANGED <<subs, pokes>> /\ hand'[s] = <<>> /\ pokes[s] \in Seq(Pokes)
    BY <1>8 DEF FInv, IInv, TypeOK, Withhold, Send, PutDown, hubVars
  <2>2. PICK p \in Pokes : hand[s] = <<p>>
    <3>1. hand[s] \in {<<>>} \cup {<<h>> : h \in Pokes}
      BY DEF FInv, IInv, TypeOK
    <3>2. hand[s] # <<>>
      BY <2>1 DEF FInv, IInv, HandInv
    <3> QED BY <3>1, <3>2
  <2>3. /\ hand[s] \o pokes[s] # <<>>
        /\ hand'[s] \o pokes'[s] = Tail(hand[s] \o pokes[s])
    BY <2>1, <2>2, HandThenQueue
  <2>4. StageOf(s) \in {"on", "cut"} /\ StageOf(s)' = StageOf(s)
    BY <2>1 DEF StageOf
  <2>5. /\ OwedTo(s) # <<>> /\ OwedTo(s)' = Tail(OwedTo(s))
        /\ DueTo(s)' = DueTo(s)
    BY <1>2, <2>3, <2>4 DEF OwedTo, DueTo
  <2> QED BY <1>3, <1>2, <2>4, <2>5, FeedGive DEF Feed!Next
<1>9. CASE CloseSession(s)
  <2>1. pc[s] = "closing" /\ pc'[s] = "done"
    BY <1>9 DEF FInv, IInv, TypeOK, CloseSession
  <2>2. StageOf(s) = "over" /\ StageOf(s)' = "over"
    BY <2>1 DEF StageOf
  <2>3. OwedTo(s)' = OwedTo(s) /\ DueTo(s)' = DueTo(s)
    BY <2>2 DEF OwedTo, DueTo
  <2> QED BY <1>3, <1>2, <2>2, <2>3, FeedStutters DEF SameFor
<1> QED BY <1>4, <1>5, <1>6, <1>7, <1>8, <1>9 DEF Handler

(* A publication is an announcement to the attached sessions whose handler *)
(* is still at work; those with a full queue are cut.                      *)
LEMMA FeedPublish ==
  ASSUME FInv, NEW p \in Pokes, Publish(p)
  PROVE  Feed!Next
<1> DEFINE S == {s \in subs : Watching(s, p) /\ pc[s] # "closing"}
           cut == {s \in S : Full(s)}
<1>1. S \in SUBSET Sessions /\ cut \in SUBSET Sessions /\ cut \subseteq S
  BY DEF FInv, IInv, TypeOK
<1>2. UNCHANGED <<pc, hand>>
  BY DEF Publish
<1>3. \A s \in S : StageOf(s) = "on"
  BY DEF FInv, IInv, AttachInv, Serving, StageOf, TypeOK
<1>4. ASSUME NEW s \in Sessions
      PROVE  StageOf(s)' = IF s \in cut THEN "cut" ELSE StageOf(s)
  <2>1. s \in subs' <=> s \in subs /\ ~(Watching(s, p) /\ Full(s))
    BY DEF Publish
  <2>2. s \in subs => pc[s] \in Serving
    BY DEF FInv, IInv, AttachInv
  <2> QED BY <1>2, <2>1, <2>2 DEF StageOf, Serving
<1>5. ASSUME NEW s \in Sessions
      PROVE  OwedTo(s)' = IF s \in S \ cut THEN Append(OwedTo(s), p) ELSE OwedTo(s)
  <2>1. CASE s \in S \ cut
    <3>1. pokes'[s] = Append(pokes[s], p)
      BY <2>1 DEF Publish
    <3>2. /\ pokes[s] \in Seq(Pokes)
          /\ hand[s] \in {<<>>} \cup {<<h>> : h \in Pokes}
      BY DEF FInv, IInv, TypeOK
    <3>3. hand[s] \o Append(pokes[s], p) = Append(hand[s] \o pokes[s], p)
      <4>1. CASE hand[s] = <<>>
        BY <3>2, <4>1, HandThenQueue
      <4>2. ASSUME NEW h \in Pokes, hand[s] = <<h>>
            PROVE  hand[s] \o Append(pokes[s], p) = Append(hand[s] \o pokes[s], p)
        BY <3>2, <4>2, HandThenQueue
      <4> QED BY <3>2, <4>1, <4>2
    <3>4. StageOf(s) = "on" /\ StageOf(s)' = "on"
      BY <1>3, <1>4, <2>1
    <3> QED BY <1>2, <2>1, <3>1, <3>3, <3>4 DEF OwedTo
  <2>2. CASE s \notin S /\ s \in subs /\ Watching(s, p)
    <3>1. StageOf(s) = "over" /\ StageOf(s)' = "over"
      BY <1>4, <2>2 DEF StageOf
    <3> QED BY <2>2, <3>1 DEF OwedTo
  <2>3. CASE s \in cut \/ ~(s \in subs /\ Watching(s, p))
    <3>1. pokes'[s] = pokes[s]
      BY <2>3 DEF Publish
    <3>2. StageOf(s)' \in {"on", "cut"} <=> StageOf(s) \in {"on", "cut"}
      BY <1>3, <1>4
    <3> QED BY <1>2, <2>3, <3>1, <3>2 DEF OwedTo
  <2> QED BY <2>1, <2>2, <2>3
<1>6. ASSUME NEW s \in Sessions
      PROVE  DueTo(s)' = IF s \in S THEN DueTo(s) + 1 ELSE DueTo(s)
  <2>1. due'[s] = IF s \in subs /\ Watching(s, p) THEN due[s] + 1 ELSE due[s]
    BY DEF Publish
  <2>2. s \in S => StageOf(s) = "on" /\ StageOf(s)' \in {"on", "cut"}
    BY <1>3, <1>4
  <2>3. StageOf(s)' \in {"on", "cut"} <=> StageOf(s) \in {"on", "cut"}
    BY <1>3, <1>4
  <2>4. s \in subs /\ Watching(s, p) /\ s \notin S => StageOf(s) = "over"
    BY DEF StageOf
  <2> QED BY <2>1, <2>2, <2>3, <2>4 DEF DueTo
<1>7. S = {s \in Sessions :
              /\ s \in [q \in Pokes |-> {r \in Sessions : Watching(r, q)}][p]
              /\ [r \in Sessions |-> StageOf(r)][s] = "on"}
  <2>1. \A s \in Sessions : StageOf(s) = "on" => s \in subs /\ pc[s] # "closing"
    BY DEF StageOf
  <2> QED BY <1>1, <1>3, <2>1
<1>8. Feed!Announce(p, cut)
  BY <1>1, <1>4, <1>5, <1>6, <1>7 DEF Feed!Announce, OwedTo, DueTo
<1> HIDE DEF S, cut
<1>9. \E B \in SUBSET Sessions : Feed!Announce(p, B)
  BY <1>1, <1>8 DEF Feed!Announce
<1> QED BY <1>9 DEF Feed!Next

(* The shutdown cuts every attached session.                               *)
LEMMA FeedClose ==
  ASSUME FInv, CloseHub
  PROVE  Feed!Next
<1>1. UNCHANGED <<pc, hand, pokes, due>> /\ subs' = {}
  BY DEF CloseHub
<1>2. ASSUME NEW s \in Sessions
      PROVE  StageOf(s)' = IF StageOf(s) = "on" THEN "cut" ELSE StageOf(s)
  BY <1>1 DEF StageOf
<1>3. \A s \in Sessions : OwedTo(s)' = OwedTo(s) /\ DueTo(s)' = DueTo(s)
  BY <1>1, <1>2 DEF OwedTo, DueTo
<1>4. Feed!CutAll
  BY <1>1, <1>2, <1>3 DEF Feed!CutAll, OwedTo, DueTo
<1> QED BY <1>4 DEF Feed!Next

(* Every step of the hub is a step of the feed or none.                    *)
LEMMA FeedStep == FInv /\ [Next]_vars => [Feed!Next]_(Feed!feedVars)
<1> SUFFICES ASSUME FInv, [Next]_vars
             PROVE  Feed!Next \/ UNCHANGED Feed!feedVars
  OBVIOUS
<1>1. CASE UNCHANGED <<pc, hand, pokes, subs, due>>
  <2>1. \A r \in Sessions : StageOf(r)' = StageOf(r)
    BY <1>1 DEF StageOf
  <2>2. \A r \in Sessions : OwedTo(r)' = OwedTo(r) /\ DueTo(r)' = DueTo(r)
    BY <1>1, <2>1 DEF OwedTo, DueTo
  <2> QED BY <1>1, <2>1, <2>2, FeedStutters DEF SameFor
<1>2. \A s \in Sessions :
        ExpireToken(s) => UNCHANGED <<pc, hand, pokes, subs, due>>
  BY DEF ExpireToken, hubVars
<1>3. \A s \in Sessions, p \in Pokes :
        Hide(s, p) \/ Show(s, p) => UNCHANGED <<pc, hand, pokes, subs, due>>
  BY DEF Hide, Show, hubVars
<1>4. UNCHANGED vars => UNCHANGED <<pc, hand, pokes, subs, due>>
  BY DEF vars, hubVars, envVars
<1>5. \A p \in Pokes : Publish(p) => Feed!Next
  BY FeedPublish
<1>6. CloseHub => Feed!Next
  BY FeedClose
<1>7. \A s \in Sessions : Handler(s) => Feed!Next \/ UNCHANGED Feed!feedVars
  BY FeedHandler
<1> QED BY <1>1, <1>2, <1>3, <1>4, <1>5, <1>6, <1>7 DEF Next

(* The hub, its queues and the Stream handlers implement PokeFeed.         *)
THEOREM HubImplementsFeed == Spec => ImplementsFeed
<1>1. Spec => []FInv
  BY HubInitFInv, HubStepFInv, PTL DEF Spec
<1> QED BY <1>1, FeedInit, FeedStep, PTL DEF Spec, ImplementsFeed, Feed!Spec
===========================================================================
