--------------------------- MODULE GkCacheProofs ---------------------------
(***************************************************************************)
(* Proofs about GkCache for every value of the constants: the type         *)
(* invariant, and that total_entry_count always equals the number of       *)
(* records in the trees.  Neither holds alone: the counter stays a natural *)
(* only because every decrement removes a record that was counted, so the  *)
(* two are proved together as the inductive invariant IInv.                *)
(***************************************************************************)
EXTENDS GkCache, FiniteSetTheorems, TLAPS

(* The set of (device, tree, key) slots is finite. *)
LEMMA SlotsFinite == IsFiniteSet(Slots)
<1>1. IsFiniteSet(AllTrees)
  <2> DEFINE S1 == {"hostname"}
             S2 == S1 \cup {"url"}
             S3 == S2 \cup {"ipv4"}
             S4 == S3 \cup {"ipv6"}
             S5 == S4 \cup {"app"}
             S6 == S5 \cup {"inbound"}
             S7 == S6 \cup {"outbound"}
  <2>1. IsFiniteSet(S1)  BY FS_Singleton
  <2>2. IsFiniteSet(S2)  BY <2>1, FS_AddElement
  <2>3. IsFiniteSet(S3)  BY <2>2, FS_AddElement
  <2>4. IsFiniteSet(S4)  BY <2>3, FS_AddElement
  <2>5. IsFiniteSet(S5)  BY <2>4, FS_AddElement
  <2>6. IsFiniteSet(S6)  BY <2>5, FS_AddElement
  <2>7. IsFiniteSet(S7)  BY <2>6, FS_AddElement
  <2>8. S7 = AllTrees
    BY DEF AllTrees
  <2>9. QED  BY <2>7, <2>8
<1>2. IsFiniteSet(TreeSet)
  BY <1>1, TreesAssumption, FS_Subset
<1>3. IsFiniteSet(Devices \X (TreeSet \X Keys))
  BY <1>2, FiniteAssumption, FS_Product
<1>4. [s \in Slots |-> <<s[1], <<s[2], s[3]>>>>]
         \in Injection(Slots, Devices \X (TreeSet \X Keys))
  BY DEF Slots, Injection, IsInjective
<1>5. QED
  BY <1>3, <1>4, FS_Injection

(* Records is a finite set, so its cardinality is a natural. *)
LEMMA RecordsFinite == IsFiniteSet(Records) /\ Cardinality(Records) \in Nat
BY SlotsFinite, FS_Subset, FS_CardinalityType DEF Records

(* Removing a set of records with Without leaves exactly the others, and  *)
(* the count of records drops by the size of the removed set.             *)
LEMMA WithoutRecords ==
  ASSUME TypeOK, NEW gone \in SUBSET Records
  PROVE  /\ {s \in Slots : Without(gone)[s[1]][s[2]][s[3]] # NoEntry}
              = Records \ gone
         /\ Without(gone) \in [Devices -> [TreeSet -> [Keys -> Info \cup {NoEntry}]]]
         /\ IsFiniteSet(gone)
         /\ Cardinality(gone) \in Nat
         /\ Cardinality(Records \ gone) = Cardinality(Records) - Cardinality(gone)
<1>1. {s \in Slots : Without(gone)[s[1]][s[2]][s[3]] # NoEntry} = Records \ gone
  BY DEF Without, Records, At, Slots, TypeOK
<1>2. Without(gone) \in [Devices -> [TreeSet -> [Keys -> Info \cup {NoEntry}]]]
  BY DEF Without, TypeOK
<1>3. IsFiniteSet(gone) /\ Cardinality(gone) \in Nat
  BY RecordsFinite, FS_Subset, FS_CardinalityType
<1>4. Records \cap gone = gone
  OBVIOUS
<1>5. Cardinality(Records \ gone) = Cardinality(Records) - Cardinality(gone)
  BY <1>4, RecordsFinite, FS_Difference
<1>6. QED  BY <1>1, <1>2, <1>3, <1>5

-----------------------------------------------------------------------------
(* The inductive invariant: the type invariant and the counter invariant. *)
IInv == TypeOK /\ CountExact

LEMMA InitIInv == Init => IInv
<1> SUFFICES ASSUME Init PROVE IInv
  OBVIOUS
<1>1. TypeOK
  <2>1. cache \in [Devices -> [TreeSet -> [Keys -> Info \cup {NoEntry}]]]
    BY DEF Init, EmptyDevice, EmptyTree
  <2>2. now \in 0..MaxTime
    BY TimeAssumption DEF Init
  <2>3. QED  BY <2>1, <2>2 DEF Init, TypeOK
<1>2. Records = {}
  BY DEF Init, Records, At, EmptyDevice, EmptyTree, Slots
<1>3. QED
  BY <1>1, <1>2, FS_EmptySet DEF IInv, CountExact, Init

(* Every step keeps the counter equal to the number of records: each     *)
(* action changes both by the same amount.                               *)
LEMMA NextIInv == IInv /\ [Next]_vars => IInv'
<1> SUFFICES ASSUME IInv, [Next]_vars PROVE IInv'
  OBVIOUS
<1>0. /\ TypeOK
      /\ count = Cardinality(Records)
      /\ IsFiniteSet(Records)
      /\ Cardinality(Records) \in Nat
  BY RecordsFinite DEF IInv, CountExact
<1>1. CASE CacheInit
  <2>1. Records' = Records
    BY <1>1 DEF CacheInit, Records, At
  <2>2. QED  BY <1>0, <1>1, <2>1 DEF CacheInit, IInv, TypeOK, CountExact
<1>2. ASSUME NEW d \in Devices, NEW t \in TreeSet, NEW k \in Keys,
             NEW ttl \in TTLs, NEW redirect \in BOOLEAN,
             Insert(d, t, k, ttl, redirect)
      PROVE  IInv'
  <2>1. TypeOK'
    <3>1. sweeping' \in BOOLEAN
      BY <1>2 DEF Insert
    <3>2. cache' \in [Devices -> [TreeSet -> [Keys -> Info \cup {NoEntry}]]]
      BY <1>0, <1>2, TimeAssumption DEF Insert, TypeOK, Info
    <3>3. QED  BY <1>0, <1>2, <3>1, <3>2 DEF Insert, TypeOK
  <2>2. Records' = Records \cup {<<d, t, k>>}
    <3>1. [ts |-> now, ttl |-> ttl, redirect |-> redirect] # NoEntry
      BY <1>0, TimeAssumption, NoEntryAssumption DEF TypeOK, Info
    <3>2. ASSUME NEW s \in Slots
          PROVE  (At(s)' # NoEntry) <=> (At(s) # NoEntry \/ s = <<d, t, k>>)
      BY <1>0, <1>2, <3>1 DEF Insert, At, Slots, TypeOK
    <3>3. <<d, t, k>> \in Slots
      BY DEF Slots
    <3>4. QED  BY <3>2, <3>3 DEF Records
  <2>3. <<d, t, k>> \notin Records
    BY <1>2 DEF Insert, Records, At
  <2>4. count' = Cardinality(Records')
    BY <1>0, <1>2, <2>2, <2>3, FS_AddElement DEF Insert
  <2>5. QED  BY <2>1, <2>4 DEF IInv, CountExact
<1>3. ASSUME NEW d \in Devices, NEW kind \in AttrKinds, NEW k \in Keys,
             DeleteAttribute(d, kind, k)
      PROVE  IInv'
  <2> DEFINE t == TreeOf[kind]
  <2>1. t \in TreeSet
    BY DEF AttrKinds
  <2>2. <<d, t, k>> \in Records
    BY <1>3, <2>1 DEF DeleteAttribute, Records, At, Slots
  <2>3. Records' = Records \ {<<d, t, k>>}
    <3>1. ASSUME NEW s \in Slots
          PROVE  (At(s)' # NoEntry) <=> (At(s) # NoEntry /\ s # <<d, t, k>>)
      BY <1>0, <1>3, <2>1 DEF DeleteAttribute, At, Slots, TypeOK
    <3>2. QED  BY <3>1 DEF Records
  <2>4. /\ IsFiniteSet(Records')
        /\ Cardinality(Records') = Cardinality(Records) - 1
    BY <1>0, <2>2, <2>3, FS_RemoveElement
  <2>5. Cardinality(Records') \in Nat
    BY <2>4, FS_CardinalityType
  <2>6. count' = Cardinality(Records')
    BY <1>0, <1>3, <2>4 DEF DeleteAttribute
  <2>7. TypeOK'
    <3>1. sweeping' \in BOOLEAN /\ count' \in Nat
      BY <1>3, <2>5, <2>6 DEF DeleteAttribute
    <3>2. cache' \in [Devices -> [TreeSet -> [Keys -> Info \cup {NoEntry}]]]
      BY <1>0, <1>3, <2>1 DEF DeleteAttribute, TypeOK
    <3>3. QED  BY <1>0, <1>3, <3>1, <3>2 DEF DeleteAttribute, TypeOK
  <2>8. QED  BY <2>6, <2>7 DEF IInv, CountExact
<1>4. ASSUME NEW failed \in SUBSET devs, SweepExpired(failed)
      PROVE  IInv'
  <2> DEFINE gone == {s \in Records : s[1] \notin failed /\ Expired(At(s))}
  <2>1. gone \in SUBSET Records
    OBVIOUS
  <2>2. Records' = Records \ gone
    BY <1>0, <1>4, <2>1, WithoutRecords DEF SweepExpired, Records, At
  <2>3. count' = Cardinality(Records')
    BY <1>0, <1>4, <2>1, <2>2, WithoutRecords DEF SweepExpired
  <2>4. IsFiniteSet(Records') /\ Cardinality(Records') \in Nat
    BY <1>0, <2>2, FS_Difference, FS_CardinalityType
  <2>5. TypeOK'
    BY <1>0, <1>4, <2>1, <2>3, <2>4, WithoutRecords DEF SweepExpired, TypeOK
  <2>6. QED  BY <2>3, <2>5 DEF IInv, CountExact
<1>5. ASSUME NEW d \in Devices, PurgeDevice(d)
      PROVE  IInv'
  <2>1. RecordsOf(d) \in SUBSET Records
    BY DEF RecordsOf
  <2>2. Records' = Records \ RecordsOf(d)
    BY <1>0, <1>5, <2>1, WithoutRecords DEF PurgeDevice, Records, At
  <2>3. count' = Cardinality(Records')
    BY <1>0, <1>5, <2>1, <2>2, WithoutRecords DEF PurgeDevice
  <2>4. IsFiniteSet(Records') /\ Cardinality(Records') \in Nat
    BY <1>0, <2>2, FS_Difference, FS_CardinalityType
  <2>5. TypeOK'
    BY <1>0, <1>5, <2>1, <2>3, <2>4, WithoutRecords DEF PurgeDevice, TypeOK
  <2>6. QED  BY <2>3, <2>5 DEF IInv, CountExact
<1>6. CASE Cleanup
  <2>1. Records' = {}
    BY <1>6 DEF Cleanup, Records, At, EmptyDevice, EmptyTree, Slots
  <2>2. TypeOK'
    <3>1. sweeping' \in BOOLEAN
      BY <1>6 DEF Cleanup
    <3>2. cache' \in [Devices -> [TreeSet -> [Keys -> Info \cup {NoEntry}]]]
      BY <1>6 DEF Cleanup, EmptyDevice, EmptyTree
    <3>3. QED  BY <1>0, <1>6, <3>1, <3>2 DEF Cleanup, TypeOK
  <2>3. QED  BY <1>6, <2>1, <2>2, FS_EmptySet DEF Cleanup, IInv, CountExact
<1>7. CASE Tick
  <2>1. Records' = Records
    BY <1>7 DEF Tick, Records, At
  <2>2. TypeOK'
    <3>1. sweeping' \in BOOLEAN
      BY <1>7 DEF Tick
    <3>2. now' \in 0..MaxTime
      BY <1>0, <1>7, TimeAssumption DEF Tick, TypeOK
    <3>3. QED  BY <1>0, <1>7, <3>1, <3>2 DEF Tick, TypeOK
  <2>3. QED  BY <1>0, <1>7, <2>1, <2>2 DEF Tick, IInv, CountExact
<1>8. CASE UNCHANGED vars
  <2>1. Records' = Records
    BY <1>8 DEF vars, Records, At
  <2>2. QED  BY <1>0, <1>8, <2>1 DEF vars, IInv, TypeOK, CountExact
<1>9. QED
  BY <1>1, <1>2, <1>3, <1>4, <1>5, <1>6, <1>7, <1>8 DEF Next

(* The type invariant and the counter invariant hold in every state of   *)
(* every behaviour of the cache.                                          *)
THEOREM IInvariant == Spec => []IInv
BY InitIInv, NextIInv, PTL DEF Spec

(* Spec section 3: in every reachable state total_entry_count equals the  *)
(* number of records in all trees of all devices.                         *)
THEOREM CountCorrect == Spec => []CountExact
BY IInvariant, PTL DEF IInv

(* Every reachable state is well typed; in particular the unsigned counter *)
(* is never decremented below zero.                                       *)
THEOREM TypeCorrect == Spec => []TypeOK
BY IInvariant, PTL DEF IInv


-----------------------------------------------------------------------------
(* Refinement of the cache's contract GkCacheAbs.  The abstract store is   *)
(* read off the trees slot by slot.                                        *)
AbsEntries == [s \in Slots |-> At(s)]

LEMMA AbsInit == Init => Abs!Init
<1> SUFFICES ASSUME Init PROVE Abs!Init
  OBVIOUS
<1>1. ASSUME NEW s \in Slots PROVE At(s) = NoEntry
  BY DEF Init, At, Slots, EmptyDevice, EmptyTree
<1> QED
  BY <1>1 DEF Abs!Init, Abs!Slots, Slots, Init

(* An insert into an empty slot is the abstract Put. *)
LEMMA AbsInsert ==
  ASSUME TypeOK, NEW d \in Devices, NEW t \in TreeSet, NEW k \in Keys,
         NEW ttl \in TTLs, NEW redirect \in BOOLEAN,
         Insert(d, t, k, ttl, redirect)
  PROVE  Abs!Next
<1> DEFINE rec == [ts |-> now, ttl |-> ttl, redirect |-> redirect]
<1>1. <<d, t, k>> \in Slots /\ At(<<d, t, k>>) = NoEntry
  BY DEF Insert, At, Slots
<1>2. ASSUME NEW s \in Slots
      PROVE  At(s)' = IF s = <<d, t, k>> THEN rec ELSE At(s)
  BY DEF Insert, At, Slots, TypeOK
<1>3. AbsEntries' = [AbsEntries EXCEPT ![<<d, t, k>>] = rec]
  BY <1>1, <1>2 DEF AbsEntries
<1>4. Abs!Put(<<d, t, k>>, ttl, redirect)
  BY <1>1, <1>3 DEF Abs!Put, AbsEntries, Insert
<1> QED
  BY <1>1, <1>4 DEF Abs!Next, Abs!Slots, Slots

(* gkc_del_attr removing a stored record is the abstract Remove. *)
LEMMA AbsDelete ==
  ASSUME TypeOK, NEW d \in Devices, NEW kind \in AttrKinds, NEW k \in Keys,
         DeleteAttribute(d, kind, k)
  PROVE  Abs!Next
<1> DEFINE t == TreeOf[kind]
<1>1. <<d, t, k>> \in Slots /\ At(<<d, t, k>>) # NoEntry
  BY DEF DeleteAttribute, At, Slots, AttrKinds
<1>2. ASSUME NEW s \in Slots
      PROVE  At(s)' = IF s = <<d, t, k>> THEN NoEntry ELSE At(s)
  BY <1>1 DEF DeleteAttribute, At, Slots, TypeOK
<1>3. AbsEntries' = [AbsEntries EXCEPT ![<<d, t, k>>] = NoEntry]
  BY <1>1, <1>2 DEF AbsEntries
<1>4. Abs!Remove(<<d, t, k>>)
  BY <1>1, <1>3 DEF Abs!Remove, AbsEntries, DeleteAttribute
<1> QED
  BY <1>1, <1>4 DEF Abs!Next, Abs!Slots, Slots


(* The cache after Without(gone), read slot by slot. *)
LEMMA AbsWithout ==
  ASSUME TypeOK, NEW gone \in SUBSET Slots, cache' = Without(gone)
  PROVE  AbsEntries' = [s \in Slots |-> IF s \in gone THEN NoEntry
                                                    ELSE AbsEntries[s]]
<1>1. ASSUME NEW s \in Slots
      PROVE  At(s)' = IF s \in gone THEN NoEntry ELSE At(s)
  BY DEF Without, At, Slots, TypeOK
<1> QED
  BY <1>1 DEF AbsEntries

(* A TTL sweep removes only records whose TTL has run out: Evict. *)
LEMMA AbsSweep ==
  ASSUME TypeOK, NEW failed \in SUBSET devs, SweepExpired(failed)
  PROVE  Abs!Next
<1> DEFINE gone == {s \in Records : s[1] \notin failed /\ Expired(At(s))}
<1>1. ASSUME NEW s \in gone
      PROVE  /\ s \in Slots
             /\ AbsEntries[s] # NoEntry
             /\ now - AbsEntries[s].ts >= AbsEntries[s].ttl
  <2>1. s \in Slots /\ At(s) # NoEntry /\ Expired(At(s))
    BY DEF Records
  <2>2. At(s) \in Info
    BY <2>1 DEF At, Slots, TypeOK
  <2>3. now \in Nat
    BY TimeAssumption DEF TypeOK
  <2> QED
    BY <2>1, <2>2, <2>3 DEF Expired, Info, AbsEntries
<1>2. gone \in SUBSET Abs!ExpiredSlots
  BY <1>1 DEF Abs!ExpiredSlots, Abs!Slots, Slots, Abs!IsExpired, AbsEntries
<1>3. AbsEntries' = [s \in Slots |-> IF s \in gone THEN NoEntry
                                                 ELSE AbsEntries[s]]
  BY AbsWithout DEF SweepExpired, Records
<1>4. Abs!Evict(gone)
  BY <1>2, <1>3 DEF Abs!Evict, Abs!Slots, Slots, AbsEntries, SweepExpired
<1> QED
  BY <1>2, <1>4 DEF Abs!Next

(* Purging a device drops all of its records: Discard. *)
LEMMA AbsPurge ==
  ASSUME TypeOK, NEW d \in Devices, PurgeDevice(d)
  PROVE  Abs!Next
<1>1. AbsEntries' = [s \in Slots |-> IF s \in RecordsOf(d) THEN NoEntry
                                                         ELSE AbsEntries[s]]
  BY AbsWithout DEF PurgeDevice, RecordsOf, Records
<1>2. AbsEntries' = [s \in Slots |-> IF s[1] = d THEN NoEntry
                                                ELSE AbsEntries[s]]
  BY <1>1 DEF RecordsOf, Records, AbsEntries
<1>3. Abs!Discard(d)
  BY <1>2 DEF Abs!Discard, Abs!Slots, Slots, AbsEntries, PurgeDevice
<1> QED
  BY <1>3 DEF Abs!Next


(* Every step of the cache is a step of its contract or leaves the        *)
(* abstract store and clock unchanged.                                     *)
LEMMA AbsStep == TypeOK /\ [Next]_vars => [Abs!Next]_Abs!absVars
<1> SUFFICES ASSUME TypeOK, [Next]_vars PROVE [Abs!Next]_Abs!absVars
  OBVIOUS
<1>1. CASE CacheInit
  BY <1>1 DEF CacheInit, Abs!absVars, At
<1>2. ASSUME NEW d \in Devices, NEW t \in TreeSet, NEW k \in Keys,
             NEW ttl \in TTLs, NEW redirect \in BOOLEAN,
             Insert(d, t, k, ttl, redirect)
      PROVE  [Abs!Next]_Abs!absVars
  BY <1>2, AbsInsert
<1>3. ASSUME NEW d \in Devices, NEW kind \in AttrKinds, NEW k \in Keys,
             DeleteAttribute(d, kind, k)
      PROVE  [Abs!Next]_Abs!absVars
  BY <1>3, AbsDelete
<1>4. ASSUME NEW failed \in SUBSET devs, SweepExpired(failed)
      PROVE  [Abs!Next]_Abs!absVars
  BY <1>4, AbsSweep
<1>5. ASSUME NEW d \in Devices, PurgeDevice(d)
      PROVE  [Abs!Next]_Abs!absVars
  BY <1>5, AbsPurge
<1>6. CASE Cleanup
  <2>1. ASSUME NEW s \in Slots PROVE At(s)' = NoEntry
    BY <1>6 DEF Cleanup, At, Slots, EmptyDevice, EmptyTree
  <2>2. Abs!DiscardAll
    BY <1>6, <2>1 DEF Abs!DiscardAll, Abs!Slots, Slots, Cleanup
  <2> QED
    BY <2>2 DEF Abs!Next
<1>7. CASE Tick
  <2>1. Abs!Advance
    BY <1>7 DEF Tick, Abs!Advance, At
  <2> QED
    BY <2>1 DEF Abs!Next
<1>8. CASE UNCHANGED vars
  BY <1>8 DEF vars, Abs!absVars, At
<1> QED
  BY <1>1, <1>2, <1>3, <1>4, <1>5, <1>6, <1>7, <1>8 DEF Next

(* The cache implements the safety part of its contract for every set of  *)
(* devices, keys, trees, TTLs and clock bound: inserts fill empty slots    *)
(* stamped with time(NULL), gkc_del_attr removes one stored record, the    *)
(* TTL sweep of gk_cache_check_ttl_device_tree removes only records whose  *)
(* TTL has run out, and purge and cleanup drop a device's or all records.  *)
THEOREM Refinement == Spec => Abs!Safety
<1>1. Init => Abs!Init
  BY AbsInit
<1>2. TypeOK /\ [Next]_vars => [Abs!Next]_Abs!absVars
  BY AbsStep
<1> QED
  BY <1>1, <1>2, TypeCorrect, PTL DEF Spec, Abs!Safety

=============================================================================
