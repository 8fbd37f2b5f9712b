------------------------------ MODULE GkCache ------------------------------
(***************************************************************************)
(* The gatekeeper verdict cache (src/lib/gatekeeper_cache): the process-   *)
(* wide manager holding the per-device caches, each with one tree per      *)
(* attribute kind and one per flow direction, and the live-entry counter   *)
(* total_entry_count.  Every operation runs to completion on the agent's   *)
(* single event-loop thread, so each one is a single atomic action.        *)
(*                                                                         *)
(* A tree is a function from keys (attribute values or flow identities,    *)
(* abstracted to model values) to the stored record or NoEntry: a key is   *)
(* unique within its tree and an absent value is never stored.  A record   *)
(* keeps what the deletion paths look at: its creation time cache_ts, its  *)
(* cache_ttl, and whether it owns an fqdn_redirect buffer.  Memory that a  *)
(* removal path forgets to free is collected in `leaked`.                  *)
(***************************************************************************)
EXTENDS Integers, FiniteSets

CONSTANTS
    Devices,    \* device MAC addresses that may appear
    Keys,       \* attribute values / flow identities
    TreeSet,    \* the per-device trees the instance keeps
    TTLs,       \* cache_ttl values handed in by the insert path
    MaxTime,    \* last value of the wall clock time(NULL) explored
    NoEntry     \* a key that has no node in its tree

(* The seven trees of struct per_device_cache. *)
AllTrees == {"hostname", "url", "ipv4", "ipv6", "app", "inbound", "outbound"}

(* A stored record: cache_ts, cache_ttl and whether fqdn_redirect is set. *)
Info == [ts : Nat, ttl : Nat, redirect : BOOLEAN]

ASSUME TreesAssumption == TreeSet \subseteq AllTrees /\ TreeSet # {}
ASSUME TimeAssumption == MaxTime \in Nat /\ TTLs \subseteq Nat /\ TTLs # {}
ASSUME NoEntryAssumption == NoEntry \notin Info
ASSUME FiniteAssumption == IsFiniteSet(Devices) /\ IsFiniteSet(Keys)

(* gk_get_attribute_tree: the request types and the tree each one selects; *)
(* hostname, FQDN, HTTP host and SNI share the hostname tree.  A request   *)
(* type outside this domain selects no tree.                               *)
TreeOf == [INTERNAL_HOSTNAME |-> "hostname", FQDN |-> "hostname",
           HOST |-> "hostname", SNI |-> "hostname", URL |-> "url",
           IPV4 |-> "ipv4", IPV6 |-> "ipv6", APP |-> "app"]
(* gkc_is_attr_present: the request types a delete can name, those with a  *)
(* case in its switch (any other type matches nothing), whose tree is     *)
(* modelled.                                                              *)
AttrKinds == {kd \in DOMAIN TreeOf : TreeOf[kd] \in TreeSet}

(* gkc_free_attr_entry: fqdn_redirect is released only when the record is *)
(* freed under the INTERNAL_HOSTNAME or FQDN request type; under HOST and  *)
(* SNI the switch starts below that FREE.                                  *)
FreesRedirect(kind) == kind \in {"INTERNAL_HOSTNAME", "FQDN"}

VARIABLES
    initialized,  \* mgr->initialized
    devs,         \* the MACs that have a node in mgr->per_device_tree
    cache,        \* cache[d][t][k]: the record under key k of tree t of d
    count,        \* mgr->total_entry_count
    now,          \* the wall clock read by time(NULL)
    leaked,       \* <<device, key>> whose fqdn_redirect was never freed
    sweeping      \* the last step was a TTL sweep (a history variable)

vars == <<initialized, devs, cache, count, now, leaked, sweeping>>

EmptyTree == [k \in Keys |-> NoEntry]
EmptyDevice == [t \in TreeSet |-> EmptyTree]

(* Every (device, tree, key) slot, and the ones holding a record. *)
Slots == Devices \X TreeSet \X Keys
At(s) == cache[s[1]][s[2]][s[3]]
Records == {s \in Slots : At(s) # NoEntry}
RecordsOf(d) == {s \in Records : s[1] = d}

(* gkc_attr_ttl_expired: a record is kept while now - cache_ts < cache_ttl. *)
Expired(e) == ~(now - e.ts < e.ttl)

(* The cache after the records in the set `gone` are removed. *)
Without(gone) ==
    [d \in Devices |-> [t \in TreeSet |-> [k \in Keys |->
        IF <<d, t, k>> \in gone THEN NoEntry ELSE cache[d][t][k]]]]

TypeOK ==
    /\ initialized \in BOOLEAN
    /\ devs \subseteq Devices
    /\ cache \in [Devices -> [TreeSet -> [Keys -> Info \cup {NoEntry}]]]
    /\ count \in Nat
    /\ now \in 0..MaxTime
    /\ leaked \subseteq Devices \X Keys
    /\ sweeping \in BOOLEAN

Init ==
    /\ initialized = FALSE
    /\ devs = {}
    /\ cache = [d \in Devices |-> EmptyDevice]
    /\ count = 0
    /\ now = 0
    /\ leaked = {}
    /\ sweeping = FALSE

-----------------------------------------------------------------------------
(* gk_cache_init (not under src/): the manager is set up once. *)
CacheInit ==
    /\ ~initialized
    /\ initialized' = TRUE
    /\ UNCHANGED <<devs, cache, count, now, leaked, sweeping>>

(* The insert path (not under src/): a verdict for key k of tree t of d,   *)
(* stamped with the current time; the device node is created on its first *)
(* insert, an existing key is rejected, and the counter goes up once.      *)
(* Only hostname-family records carry a redirect.                          *)
Insert(d, t, k, ttl, redirect) ==
    /\ initialized
    /\ cache[d][t][k] = NoEntry
    /\ redirect => t = "hostname"
    /\ devs' = devs \cup {d}
    /\ cache' = [cache EXCEPT ![d][t][k] =
                    [ts |-> now, ttl |-> ttl, redirect |-> redirect]]
    /\ count' = count + 1
    /\ sweeping' = FALSE
    /\ UNCHANGED <<initialized, now, leaked>>

(***************************************************************************)
(* Mutants: plausible slips in the code each property must catch.          *)
(***************************************************************************)
(* The record is also counted down inside gkc_del_attr, so a delete        *)
(* decrements total_entry_count twice.                                     *)
DeleteAttributeTwice(d, kind, k) ==
    LET t == TreeOf[kind]
        e == cache[d][t][k]
    IN  /\ d \in devs
        /\ e # NoEntry
        /\ cache' = [cache EXCEPT ![d][t][k] = NoEntry]
        /\ count' = count - 2
        /\ leaked' = IF e.redirect /\ ~FreesRedirect(kind)
                        THEN leaked \cup {<<d, k>>} ELSE leaked
        /\ sweeping' = FALSE
        /\ UNCHANGED <<initialized, devs, now>>

(* The TTL sweep frees and unlinks expired records but forgets the        *)
(* mgr->total_entry_count-- line.                                         *)
SweepExpiredNoCount(failed) ==
    LET gone == {s \in Records : s[1] \notin failed /\ ~(now - At(s).ts < At(s).ttl)}
    IN  /\ initialized
        /\ cache' = Without(gone)
        /\ sweeping' = TRUE
        /\ UNCHANGED <<initialized, devs, count, now, leaked>>

(* The sweep's early continue is inverted (if (ttl_expired == true)        *)
(* continue;), so it frees the records that are still live.               *)
SweepExpiredInverted(failed) ==
    LET gone == {s \in Records : s[1] \notin failed /\ ~Expired(At(s))}
    IN  /\ initialized
        /\ cache' = Without(gone)
        /\ count' = count - Cardinality(gone)
        /\ sweeping' = TRUE
        /\ UNCHANGED <<initialized, devs, now, leaked>>

(* gkc_del_attr_from_dev with gkc_del_attr, reached from the manager's     *)
(* delete entry point (not under src/), which locates the device and       *)
(* decrements the counter on success.  The tree is scanned for a record    *)
(* whose value equals the request's; it is freed under the request's type  *)
(* and removed.  A missing device, tree or value changes nothing.          *)
DeleteAttribute(d, kind, k) ==
    LET t == TreeOf[kind]
        e == cache[d][t][k]
    IN  /\ d \in devs
        /\ e # NoEntry
        /\ cache' = [cache EXCEPT ![d][t][k] = NoEntry]
        /\ count' = count - 1
        /\ leaked' = IF e.redirect /\ ~FreesRedirect(kind)
                        THEN leaked \cup {<<d, k>>} ELSE leaked
        /\ sweeping' = FALSE
        /\ UNCHANGED <<initialized, devs, now>>

(* gk_cache_check_ttl_device_tree: for every device whose per-sweep        *)
(* gkc_del_info_s is allocated (those in `failed` are skipped), every tree *)
(* is walked and each expired record is freed (the hostname tree under     *)
(* INTERNAL_HOSTNAME), removed, and subtracted from the counter.           *)
SweepExpired(failed) ==
    LET gone == {s \in Records : s[1] \notin failed /\ Expired(At(s))}
    IN  /\ initialized
        /\ cache' = Without(gone)
        /\ count' = count - Cardinality(gone)
        /\ sweeping' = TRUE
        /\ UNCHANGED <<initialized, devs, now, leaked>>

(* gk_clean_per_device_entry, called when a device is purged (the caller, *)
(* not under src/, then removes the device node): every tree of d is      *)
(* emptied, one decrement per record, and the MAC buffer is released.     *)
PurgeDevice(d) ==
    /\ d \in devs
    /\ cache' = Without(RecordsOf(d))
    /\ count' = count - Cardinality(RecordsOf(d))
    /\ devs' = devs \ {d}
    /\ sweeping' = FALSE
    /\ UNCHANGED <<initialized, now, leaked>>

(* gk_cache_cleanup: a no-op before initialisation; otherwise every device *)
(* is purged and removed, and the counter is reset to zero.               *)
Cleanup ==
    /\ initialized
    /\ devs' = {}
    /\ cache' = [d \in Devices |-> EmptyDevice]
    /\ count' = 0
    /\ sweeping' = FALSE
    /\ UNCHANGED <<initialized, now, leaked>>

(* The wall clock advances. *)
Tick ==
    /\ now < MaxTime
    /\ now' = now + 1
    /\ sweeping' = FALSE
    /\ UNCHANGED <<initialized, devs, cache, count, leaked>>

Next ==
    \/ CacheInit
    \/ \E d \in Devices, t \in TreeSet, k \in Keys, ttl \in TTLs,
          redirect \in BOOLEAN : Insert(d, t, k, ttl, redirect)
    \/ \E d \in Devices, kind \in AttrKinds, k \in Keys :
          DeleteAttribute(d, kind, k)
    \/ \E failed \in SUBSET devs : SweepExpired(failed)
    \/ \E d \in Devices : PurgeDevice(d)
    \/ Cleanup
    \/ Tick

(* The janitor timer keeps firing, and an allocation failure is transient: *)
(* a sweep in which every per-device allocation succeeds eventually runs.  *)
Fairness == WF_vars(SweepExpired({}))

Spec == Init /\ [][Next]_vars /\ Fairness

-----------------------------------------------------------------------------
(* Spec section 3: total_entry_count equals the number of records held in *)
(* all trees of all devices, after any mix of insert, delete, TTL sweep    *)
(* with skipped devices, device purge and cleanup.                         *)
CountExact == count = Cardinality(Records)

(* Spec section 8, no leak: every buffer a record owns is released when   *)
(* the record is removed, whichever alias of the hostname family the       *)
(* delete request names (gkc_free_attr_entry).                             *)
RedirectFreed == leaked = {}

-----------------------------------------------------------------------------
(* The cache's contract (GkCacheAbs) seen through the slots of the trees:   *)
(* the device collection, the counter and the leak bookkeeping are hidden;  *)
(* the history variable tells a TTL sweep from a caller's delete.           *)
Abs == INSTANCE GkCacheAbs WITH entries <- [s \in Slots |-> At(s)], clock <- now,
                                swept <- sweeping

(* The cache implements its contract: inserts fill empty slots stamped     *)
(* with time(NULL), gkc_del_attr removes one record, the TTL sweep of      *)
(* gk_cache_check_ttl_device_tree removes only records whose TTL has run   *)
(* out and, under the janitor timer's fairness, eventually every one of    *)
(* them, and purge and cleanup drop a device's or all records.              *)
AbsSpec == Abs!Spec

=============================================================================
