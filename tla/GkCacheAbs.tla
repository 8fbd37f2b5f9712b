----------------------------- MODULE GkCacheAbs -----------------------------
(***************************************************************************)
(* What the gatekeeper verdict cache promises its callers, without trees,  *)
(* the device collection, the entry counter or the freeing of buffers: a   *)
(* store of verdict records, one slot per (device, tree, key).  A record   *)
(* enters an empty slot stamped with the current time (spec section 3:     *)
(* a value is unique within its tree); it leaves by an explicit delete, by *)
(* a purge of its device or a full cleanup, or by a TTL sweep, which may   *)
(* only take records whose TTL has run out (sections 4.1, 4.4, 8); and     *)
(* every expired record is eventually taken by a sweep.  Which operation  *)
(* made the last change is part of the state, so that a sweep cannot pass *)
(* for a caller's delete.                                                   *)
(***************************************************************************)
EXTENDS Integers

CONSTANTS Devices, Keys, TreeSet, TTLs, MaxTime, NoEntry

Slots == Devices \X TreeSet \X Keys

VARIABLES
    entries,   \* entries[s]: the record held in slot s, or NoEntry
    clock,     \* the time the cache reads
    swept      \* the last change was made by a TTL sweep

absVars == <<entries, clock, swept>>

(* Spec section 4.1, is_expired: now - created_at >= ttl. *)
IsExpired(e) == clock - e.ts >= e.ttl

ExpiredSlots == {s \in Slots : entries[s] # NoEntry /\ IsExpired(entries[s])}

Init ==
    /\ entries = [s \in Slots |-> NoEntry]
    /\ clock = 0
    /\ swept = FALSE

(* A verdict is stored in an empty slot; only hostname-family records      *)
(* carry a redirect target.                                                *)
Put(s, ttl, redirect) ==
    /\ entries[s] = NoEntry
    /\ redirect => s[2] = "hostname"
    /\ entries' = [entries EXCEPT ![s] = [ts |-> clock, ttl |-> ttl,
                                         redirect |-> redirect]]
    /\ swept' = FALSE
    /\ UNCHANGED clock

(* delete_attribute removes one stored record. *)
Remove(s) ==
    /\ entries[s] # NoEntry
    /\ entries' = [entries EXCEPT ![s] = NoEntry]
    /\ swept' = FALSE
    /\ UNCHANGED clock

(* sweep_expired removes some of the expired records, never a live one. *)
Evict(gone) ==
    /\ gone \subseteq ExpiredSlots
    /\ entries' = [s \in Slots |-> IF s \in gone THEN NoEntry ELSE entries[s]]
    /\ swept' = TRUE
    /\ UNCHANGED clock

(* purge_device drops every record of one device. *)
Discard(d) ==
    /\ entries' = [s \in Slots |-> IF s[1] = d THEN NoEntry ELSE entries[s]]
    /\ swept' = FALSE
    /\ UNCHANGED clock

(* cleanup drops every record. *)
DiscardAll ==
    /\ entries' = [s \in Slots |-> NoEntry]
    /\ swept' = FALSE
    /\ UNCHANGED clock

Advance ==
    /\ clock < MaxTime
    /\ clock' = clock + 1
    /\ swept' = FALSE
    /\ UNCHANGED entries

Next ==
    \/ \E s \in Slots, ttl \in TTLs, redirect \in BOOLEAN : Put(s, ttl, redirect)
    \/ \E s \in Slots : Remove(s)
    \/ \E gone \in SUBSET ExpiredSlots : Evict(gone)
    \/ \E d \in Devices : Discard(d)
    \/ DiscardAll
    \/ Advance

Safety == Init /\ [][Next]_absVars

(* The periodic sweep that finds every expired record, when there is one. *)
EvictAll == ExpiredSlots # {} /\ Evict(ExpiredSlots)

Spec == Safety /\ WF_absVars(EvictAll)

=============================================================================
