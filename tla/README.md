# Formal models of the plume-pml gatekeeper cache and its neighbours

These TLA+ modules model the code under `src/`. TLC checks them on small
instances, and TLAPS proves the central invariants for every value of the
constants. Source paths are relative to `src/src/`.

## 1. Inventory

### 1.1 Gatekeeper verdict cache (`lib/gatekeeper_cache/src/gatekeeper_cache_attr_del.c`)

This is the core of the system. The gatekeeper agent asks a cloud service
for a verdict on each FQDN, SNI, host, URL, app or IP it sees. It caches
those verdicts per device. This file holds the cache's deletion side.

**State** (held in `struct gk_cache_mgr`, reached through `gk_cache_get_mgr()`):
- `initialized`.
- `per_device_tree`: one `per_device_cache` per device MAC. Each holds
  five attribute trees and two flow trees:
  - `hostname_tree`, shared by the INTERNAL_HOSTNAME, FQDN, HOST and SNI
    request types;
  - `url_tree`, `ipv4_tree`, `ipv6_tree` and `app_tree`;
  - `inbound_tree` and `outbound_tree`, for flows.
- `total_entry_count`.

A record owns these buffers: its value, `gk_policy`, and, for hostname
records, `fqdn_redirect`. It also stores `cache_ts` and `cache_ttl`.

**Operations in this file**
| Function | What it does |
|---|---|
| `gkc_free_attr_entry` | Frees a record's buffers. Which buffers depends on the request type passed in. |
| `gk_clean_attribute_tree`, `gk_clean_flow_tree` | Empty one tree and decrement the counter once per record. |
| `gk_clean_per_device_entry` | Empties all seven trees and frees the MAC. Returns how far the counter dropped. |
| `gk_free_cache_tree`, `gk_cache_cleanup` | Purge every device and reset the counter. `gk_cache_cleanup` is a no-op before init. |
| `gkc_attr_ttl_expired` | `now - cache_ts >= cache_ttl`, where `now = time(NULL)`. |
| `gkc_cleanup_ttl_attribute_tree`, `gk_cache_check_ttl_per_device`, `gk_cache_check_ttl_device_tree` | The TTL sweep. It walks every device and tree and evicts expired records. If the per-device `CALLOC` fails, that device is skipped. |
| `gk_get_attribute_tree`, `gk_get_attribute_value` | Map a request type to its tree or its value field. |
| `gkc_is_attr_present`, `gkc_del_attr`, `gkc_del_attr_from_dev` | Explicit delete of one value. |

**Not in this file.** The insert and lookup paths, the manager's
delete entry point, `gk_cache_init` and the flow TTL walk
`gkc_cleanup_ttl_flow_tree` are code of this repository outside `src/`.
They are modelled from `spec.md` and marked `spec_modelled` in the map.

**Interaction.** The packet path calls lookup and insert. An event-loop
timer calls the sweep. Disconnect and invalidation handlers call delete
and purge. Process teardown calls cleanup. Everything runs on one
event-loop thread (spec section 5), so each operation is atomic with
respect to the others.

**Hard parts**
- Four request aliases share one tree, but buffers are freed according
  to the alias in the request.
- The counter must stay exact across five removal paths.
- Every loop frees nodes while it walks the tree.
- The TTL boundary.
- Allocation failure during a sweep.
- `time(NULL)` is a wall clock, so it can step backwards.

**What makes it correct**
- The counter equals the number of records (spec section 3).
- No buffer leaks and none is freed twice (section 8).
- Expired records are eventually evicted (sections 4.4 and 8).
- Deleting under any alias of the hostname family removes the record
  (section 8).
- The sweep keeps exactly the records that have not expired (section 8).

### 1.2 Gatekeeper cloud client (`lib/gatekeeper_plugin/src/gatekeeper_single_curl.c`)

This is the resolver the cache sits in front of.

**State**, per session:
- `ecurl.connection_active`, `curl_handle` and `connection_time`;
- `health_stats.cloud_lookups`;
- per request: the growing response buffer `chunk`, and the reply
  fields `action`, `category_id`, `confidence_level`, `gk_policy`,
  `connection_error` and `to_report`.

**Operations**
- `gk_curl_easy_init` and `gk_curl_easy_cleanup`: these pair
  `curl_global_init` with `curl_global_cleanup`.
- `gk_send_request`: lazily initialises the connection, then posts the
  request.
- `gk_curl_callback`: the write callback. It appends with `realloc`.
- `gk_process_curl_response` and `gk_set_policy`: pick the reply header
  for the request type.
- `gk_get_fsm_action`: REDIRECT maps to BLOCK.
- `gk_set_report_info`: `strdup`s the policy.

**Hard parts.** Failure paths:
- A failed init is ignored, and the request goes out with a NULL handle.
- A `realloc` failure inside the callback aborts the transfer.
- An empty reply.
- A NULL `url_reply`: it is dereferenced on the error path at line 446,
  but checked in `gk_set_policy`.

### 1.3 MAP-T eligibility (`maptm/src/maptm_eligibility.c`, `maptm/src/maptm.h`)

This is an event-driven state machine on the WAN side.

**State**: `strucWanConfig` (`mapt_support`, `mapt_95_Option`,
`mapt_mode`, `link_up`, `option_23`, `option_24`, `mapt_EnableIpv6`),
`wait95Option`, and the 15 s `cs_timer`. In OVSDB it writes:
- the `br-wan` `ip_assign_scheme`;
- `DHCPv6_Client.enable`;
- the options set of `DHCPv6_Server`;
- `Node_State` `maptMode`.

**Operations**
- `maptm_eligibilityStart` and `maptm_eligibilityStop`;
- `maptm_callback_Timer`;
- `callback_DHCP_Option`, which handles OVSDB NEW, MODIFY and DEL of
  options 26, 95, 23 and 24;
- `StartStop_DHCPv4` and `StartStop_DHCPv6`;
- `maptm_dhcpv6_server_add_option`;
- the option 15/95 updates.

**Hard parts**
- OVSDB events interleave with the timer.
- The timer is re-armed while it may still be active.
- `StartStop_DHCPv4` writes the empty string when the requested state
  already holds: it zeroes `iconf_update` and always sets
  `ip_assign_scheme_exists`.
- Option 23/24 uuids go stale when their rows are deleted before
  option 95.
- `intit_eligibility` forces `mapt_EnableIpv6`, which makes the IPv4-only
  branches unreachable.

### 1.4 Not modelled

- `lib/osn/src/osn_vlan_linux.c` delegates every call to `lnx_vlan_*`,
  which is kernel I/O outside this repository.
- `lib/dns_parse/inc/network.h`, `iotm/inc/iotm_service.h`,
  `wano/src/wano_internal.h` and `lib/target/inc/osn_maptm.h` contain
  only declarations.

## 2. Plan

1. **Done.** `GkCache`, the cache manager as one module,
   with `MCGkCache` as its TLC instance and `GkCacheProofs` for its
   proofs. Proved: the type invariant and the counter invariant.
2. **Contract. Done:** `GkCacheAbs`, with `GkCache` refining it (TLC
   with liveness, TLAPS for safety). A node-by-node model of the tree
   walks was dropped. Every walk runs to completion on the one
   event-loop thread, and each one captures `next` before freeing the
   current node. No other actor can observe an intermediate state, so
   such a model would only restate `Without`. Still open: a clock that
   can step back, to state how long a record can outlive its TTL.
3. **`GkCurl`. Done** (see section 3): the connection life cycle and
   every request path, with a crash/restart fault model. Still open:
   the `strdup` of `gk_policy` repeated on one reply, which depends on
   the plugin code that calls `gk_send_request`.
4. **`Maptm`. Done** (see section 3). Still open:
   - a clock-free statement of what `maptm_eligibilityStop` must
     guarantee, once the WAN orchestrator that calls it is available;
   - the `EmptyWriteApplied = TRUE` instance, if the schema turns out to
     accept the empty scheme.
5. **Proofs.**
   - Done: the refinement `GkCache => GkCacheAbs!Safety`.
   - Done: the type, reference-count, stale-handle and
     success-has-verdict invariants of `GkCurl`.
   - Done: the refinement `GkCurl => GkClientAbs`.
   - Done: `Maptm`'s action property `ServerGainsLiveOptions`.
   - Left to TLC:
     - the liveness property `IPv4Provided` and the weak-fairness part
       of `AbsSpec`. Their proofs need `ENABLED` and fairness
       reasoning, which the installed back ends do not handle;
     - the violation runs, which are counterexamples rather than
       theorems.

## 3. Modules

### GkCache (`GkCache.tla`)

| Variable | Code |
|---|---|
| `initialized` | `mgr->initialized` |
| `devs` | the MACs that have a node in `per_device_tree` |
| `cache[d][t][k]` | the record under key `k` in tree `t` of device `d`, or `NoEntry` |
| `count` | `total_entry_count` |
| `now` | `time(NULL)` |
| `leaked` | redirect buffers that were never freed |
| `sweeping` | the last step was a TTL sweep. This history variable does not change the control, and the refinement mapping reads it. |

A tree is a function from keys to records, so each key appears at most
once per tree. Attribute values and flow identities are model values.
A record keeps:
- `ts`, which is `cache_ts`;
- `ttl`, which is `cache_ttl`;
- `redirect`, which is TRUE when `fqdn_redirect` is non-NULL.

| Action | Code |
|---|---|
| `CacheInit` | `gk_cache_init` (spec) |
| `Insert` | the insert path (spec). It rejects an existing key, creates the device on its first insert and increments the counter. |
| `DeleteAttribute` | `gkc_del_attr_from_dev` and `gkc_del_attr`, plus the caller that locates the device and decrements the counter (spec). |
| `SweepExpired(failed)` | `gk_cache_check_ttl_device_tree`. Devices in `failed` are the ones whose allocation fails. |
| `PurgeDevice` | `gk_clean_per_device_entry`, plus the caller's removal of the device node. |
| `Cleanup` | `gk_cache_cleanup` |
| `Tick` | the clock advances |

A request type outside the switch selects no tree, and a missing
device or value produces no change. The model leaves both out, because
they are stutter steps.

### Runs

All runs use two devices, two keys, TTLs {0, 1}, clock 0..1, and the
hostname tree, which is where the aliases and the redirect live.

| Run | Properties | Result |
|---|---|---|
| `cache_counter` (`MCGkCache.cfg`) | `TypeOK`, `CountExact` | Pass. About 60,000 distinct states, with symmetry over devices and keys. |
| `cache_redirect_leak` (`MCGkCacheLeak.cfg`) | `RedirectFreed` | Violation, described below. |
| `cache_refinement` (`MCGkCacheRefine.cfg`) | `AbsSpec` | Pass. 1,090 states, with one key per device so that the liveness part stays small. |

The redirect leak takes four steps:
1. init;
2. insert a hostname record with a redirect;
3. delete it with kind HOST or SNI;
4. the redirect is never freed.

The other trees run the same code, apart from the redirect. Two devices
are enough to show cross-device counter accounting and purging one
device while the other keeps records. TTL 0 and TTL 1, with a clock that
reaches 1, cover three cases:
- a record that has expired at insertion;
- a record that expires exactly at `now - ts = ttl`;
- a record that never expires within the run.

**Fairness.** The assumption is `WF_vars(SweepExpired({}))`. The janitor
timer keeps firing, and allocation failure is transient (spec section 7:
"the next scheduled sweep retries"). So a sweep in which every
allocation succeeds eventually runs. Without this, a run of failed
allocations could postpone eviction forever.

### The cache's contract (`GkCacheAbs.tla`)

`GkCacheAbs` states what the cache promises its callers (spec sections
3, 4.1, 4.4 and 8), with no trees, device collection, counter or
freeing. `entries[s]` is the record in slot `s` = (device, tree, key).
- `Put` fills an empty slot with a record stamped with the clock.
- `Remove` takes one stored record.
- `Evict(gone)` takes only records for which `is_expired`
  (`now - created_at >= ttl`) holds.
- `Discard(d)` and `DiscardAll` drop a device's or all records.
- `Advance` is a clock tick.
- `WF(EvictAll)`: every expired record is eventually swept. `EvictAll`
  is enabled only while some record has expired.
- `swept` records whether the last change was an `Evict`. Every other
  action clears it. Without it, a sweep that took a single live record
  would look exactly like a caller's `Remove`, and the contract would
  allow it.

`GkCache` defines `Abs == INSTANCE GkCacheAbs WITH entries <- [s \in
Slots |-> At(s)], clock <- now, swept <- sweeping`. The run
`cache_refinement` checks
`AbsSpec == Abs!Spec` as a PROPERTY. Of everything checked on the cache,
only the refinement rules out a sweep that evicts records still within
their TTL. The mutant with the sweep's early `continue` inverted breaks
it.

The refinement is also the only check of the TTL boundary. The
abstract `IsExpired` is written from the spec, not from the code's
`gkc_attr_ttl_expired`, so it catches either error:
- a sweep whose boundary is off by one and keeps a record at
  `now - ts = ttl`;
- a sweep that takes a TTL-0 record too late.

An earlier property, `ExpiredEventuallyEvicted`, has been dropped. It
was stated with the same `Expired` the sweep uses, so it agreed with
whatever boundary the code has. The eventual eviction it stated is the
`WF(EvictAll)` part of `AbsSpec`. That part rests on the fairness above,
so a device whose allocation fails forever is not covered.

### Proofs (`GkCacheProofs.tla`)

`IInv == TypeOK /\ CountExact` is inductive. Neither conjunct is
inductive alone:
- `count \in Nat` survives a delete or a sweep only because the counter
  equals the number of records, and every decrement removes a counted
  record;
- the counter equation needs the type facts.

The step proof has one case per action, and each case shows that the
record set changes in the same way as the counter:
- `Insert` adds one slot that was absent (`FS_AddElement`);
- `DeleteAttribute` removes one present slot (`FS_RemoveElement`);
- `SweepExpired` and `PurgeDevice` remove a subset (lemma
  `WithoutRecords`, through `FS_Difference`);
- `Cleanup` empties the record set.

`SlotsFinite` derives finiteness of `Devices \X TreeSet \X Keys` from
the assumption that `Devices` and `Keys` are finite, using an injection
into a nested product. The theorems are `CountCorrect`
(`Spec => []CountExact`) and `TypeCorrect` (`Spec => []TypeOK`).

`Refinement` (`Spec => Abs!Safety`) proves the safety part of the
contract. `AbsInit` maps the initial state. `AbsStep` shows that, under
`TypeOK`, every step is an abstract step or a stutter, with one lemma
per action:
- `AbsInsert` maps `Insert` to `Put`;
- `AbsDelete` maps `DeleteAttribute` to `Remove`;
- `AbsSweep` maps `SweepExpired` to `Evict`. Each removed record is
  expired in the abstract sense, because `~(now - ts < ttl)` is
  `now - ts >= ttl` on naturals;
- `AbsPurge` maps `PurgeDevice` to `Discard`;
- `Cleanup` maps to `DiscardAll` and `Tick` to `Advance`;
- `CacheInit` is a stutter.

`AbsWithout` reads `Without(gone)` slot by slot. The step needs only
`TypeOK`, which comes from `TypeCorrect`.

Each lemma also carries the history flag: `SweepExpired` sets
`sweeping`, which maps to `swept` of `Evict`, and every other action
clears it. So the theorem does rule out a sweep that removes a live
record. Such a sweep cannot be read as a caller's `Remove`.

Only TLC checks the following:
- **The fairness part of `AbsSpec`.** It needs ENABLED.
- **The redirect leak.**

### Maptm (`Maptm.tla`, `MCMaptm.tla`, `MaptmProofs.tla`)

`maptm_eligibility.c` runs on the manager's libev loop: the OVSDB
monitor callback, the timer callback and the WAN side's calls of
`maptm_eligibilityStart`/`Stop` never overlap, so each is one action.

| Variable | Code |
|---|---|
| `wait95Option` | the global `wait95Option` |
| `mapt95`, `mode`, `option23`, `option24`, `support`, `linkUp` | the fields of `strucWanConfig` |
| `rows` | the DHCP_Option rows of tags 23, 24, 95 (present, enable, generation; the uuid is `<<tag, gen>>`) |
| `scheme` | `Wifi_Inet_Config` `br-wan` `ip_assign_scheme` |
| `dhcp6` | `DHCPv6_Client.enable` |
| `serverOpts` | `DHCPv6_Server.options` |
| `maptRunning` | MAP-T configured by `config_mapt`, removed by `stop_mapt` |
| `timerArmed` | `cs_timer` active |
| `reinitActive` | `ev_timer_init` applied to the active `cs_timer` |
| `phase` | the last call of the WAN side (a history variable) |

| Action | Code |
|---|---|
| `EligibilityStart(cfg)` | `maptm_eligibilityStart` with `intit_eligibility` (helper `StartEffects`) |
| `EligibilityStop` | `maptm_eligibilityStop` |
| `TimerFire(ok)` | `cs_timer` expiring into `maptm_callback_Timer` (helpers `TimerBody`, `ApplyTimerBody`); `ok` is the result of `config_mapt` |
| `OptionNew(tag, enable, ok)` | `callback_DHCP_Option`, `OVSDB_UPDATE_NEW` |
| `OptionModify(tag, enable)` | `callback_DHCP_Option`, `OVSDB_UPDATE_MODIFY` |
| `OptionDelete(tag)` | `callback_DHCP_Option`, `OVSDB_UPDATE_DEL` |
| `LinkChange` | the WAN link handler flipping `link_up` (environment) |

`StartStopV4` is `StartStop_DHCPv4` by what it writes. The update always
sets `ip_assign_scheme_exists`, so when the requested state already
holds, the empty string is written. The constant `EmptyWriteApplied`
says whether OVSDB stores it. The runs use `FALSE`: the column is an
enum without `""`, so the transaction is refused and the scheme stays.
Because `mapt_EnableIpv6` is forced to true, configurations 0 and 0x10
behave as 1 and 0x11, and the IPv4-only cases are dead code.

The environment is kept as free as the code lets it be:
- the WAN side may start or stop at any time, with any configuration;
- the DHCPv6 client inserts or modifies a row only while it is enabled,
  and it may delete a row at any time;
- the link may flip at any time.

`MaxGen = 1` lets every tag be inserted once, deleted, and so on. That
covers every handler branch and every order of the three tags against
the timer (87,004 states).

| Run | Properties | Result |
|---|---|---|
| `maptm_timer_options` (`MCMaptm.cfg`) | `TypeOK`, `TimerNotAfterCallback`, `RecordedOptionsLive` | Pass. |
| `maptm_ipv4_after_timer` (`MCMaptmLive.cfg`) | `IPv4Provided` | Pass, under `WF` of `TimerFire`: libev runs an expired timer, and the callback is the only thing the property waits for. |
| `maptm_server_options` (`MCMaptmServer.cfg`) | `ServerGainsLiveOptions` (action property) | Pass. |
| `maptm_restart_keeps_mapt` (`MCMaptmMode.cfg`) | `MaptOnlyInMaptMode` | Violation. |

`ServerGainsLiveOptions` is about steps, not states. Every uuid that a
step adds to `DHCPv6_Server.options` must meet three conditions:
- it is an option 23 or 24 uuid;
- its row is present after the step;
- it is that row's current uuid.

The uuid can come from the timer callback, which copies `option_23` and
`option_24`, or from the option 95 NEW handler, which re-runs the
callback. A DEL handler that forgets to clear the recorded uuid breaks
the property (mutant `OptionDeleteKeep23`).

The violation: neither the restart of the option 95 DEL handler
("Restart the state machine if the 95 option is removed", line 216) nor
`intit_eligibility` calls `stop_mapt`. A later timer without option 95
turns DHCPv4 on and writes Dual-Stack while MAP-T stays configured. TLC
reaches the same state when the WAN side starts dual stack while MAP-T
is up.

Two behaviours are reachable in the model, but nothing in the repository
states what should happen, so no run asserts them (see the hazards):
- a start within the 15 s wait re-initialises the active timer;
- a stop leaves the timer armed, so the timer can turn DHCPv4 back on
  after the stop.

**Proofs.** `IInv == TypeOK /\ TimerNotAfterCallback /\
RecordedOptionsLive` is inductive.
- The timer conjunct needs the fact that the Dual-Stack re-run of the
  option 95 NEW branch is only taken when `wait95Option` is already set,
  so the timer is off.
- The option conjunct needs the fact that a NEW row for a tag is only
  inserted when the previous row is gone, so the recorded uuid was
  already cleared.
- Lemmas `StartStopV4Type`, `ServerOptionType`, `TimerBodyType` and
  `StartEffectsType` carry the helper facts.

The theorems `TimerCallbackOnce`, `RecordedOptionsAreLive` and
`MaptmTypeCorrect` hold for every `MaxGen`.

`ServerOptionsLive` proves `Spec => ServerGainsLiveOptions` from the
same `IInv`. The step lemma `NextServerGain` states
`IInv /\ [Next]_vars => ServerGain`, and PTL lifts it to the boxed
action formula. It rests on four lemmas:
- `ServerOptionGains`: what `ServerOption` can add;
- `ServerOptionRemoves`: what it can remove;
- `RecordedLive`: a recorded uuid names a present row;
- `GainFromBody`: what the timer body adds.

The module has 341 obligations.
`IPv4Provided` is liveness and stays with TLC.

### GkCurl (`GkClientAbs.tla`, `GkCurl.tla`, `MCGkCurl.tla`, `GkCurlProofs.tla`)

Each FSM session owns one easy handle; libcurl's global state is shared
by the process and reference counted. A request is one blocking
`curl_easy_perform` on the plugin's event loop, so every call is one
atomic action. libcurl, `malloc`, the protobuf unpacker and the server
are the environment: each call's outcome is chosen nondeterministically.

| Variable | Code |
|---|---|
| `active[s]` | `ecurl.connection_active` |
| `handle[s]` | `ecurl.curl_handle`; a handle is `<<s, n>>`, the n-th made by `s`, or `NullHandle` |
| `made[s]`, `freed` | the handles created so far, and those passed to `curl_easy_cleanup` (bookkeeping) |
| `globalRefs` | libcurl's `curl_global_init` count |
| `lookups[s]` | `health_stats.cloud_lookups` |
| `req[r]` | request type, whether `req_info->reply` exists, the returned result, `policy_req->reply.action`, `connection_error`, `to_report` |
| `staleUse`, `crashed` | a curl call on a freed handle; a NULL dereference |

| Action | Code |
|---|---|
| `EasyInit(s)` with `InitEffects` | `gk_curl_easy_init` (lines 321-351), its error path included |
| `EasyCleanup(s)` | `gk_curl_easy_cleanup` (298-313); `curl_handle` is left dangling |
| `Send(s, r, out, hdr)` | `gk_send_request` (405-466), with `PerformFails` (`gk_send_curl_request`), `ProcessResponse` (`gk_process_curl_response`), `SetPolicy` (`gk_set_policy`) and `FsmAction` (`gk_get_fsm_action`) |
| `Restart` | the process manager restarting the plugin after a crash (fault model) |

`out` is where the send stops: `malloc_failed`, `perform_failed` (a
transfer error, a NULL handle, or the write callback's `realloc`
failing), `no_data`, `unpack_failed` or `answered`; `hdr` is the reply
header of the part the request's type selects, or `NoHeader`. A failed
`curl_easy_init` inside the send is ignored as in the code (line 430),
so only the failure outcomes are possible then.

**Runs** (`MCGkCurl`: two sessions, two requests, two handles per
session, symmetry over sessions and requests):
- `curl_handles` (`MCGkCurl.cfg`, 8,302 states) checks four invariants:
  - `TypeOK`;
  - `GlobalRefsBalanced`: the global count equals the number of active
    sessions;
  - `NoStaleHandle`: no curl call is made on a freed handle;
  - `ResultHasVerdict`: a request that `gk_send_request` reports as
    successful carries a verdict. Two handles per
  session let a session go init, cleanup, re-init, which is the path on
  which the dangling pointer could be reused. The run has
  `CHECK_DEADLOCK FALSE`: once every request is sent and every session
  has used up its handles, nothing more is enabled; the real plugin just
  waits for new requests.
- `curl_client_contract` (`MCGkCurlClient.cfg`, 29,889 states, no
  symmetry) checks the refinement `ClientSpec`, described below.
- `curl_null_reply` (`MCGkCurlCrash.cfg`, violation of
  `NoNullReplyDeref`): one send of a request with no reply whose
  transfer fails reaches `url_reply->connection_error` at line 446 on a
  NULL pointer (finding).

**The client's contract** (`GkClientAbs.tla`). This is what the
function comments of `gatekeeper_single_curl.c` promise the FSM plugin.
Its variables:
- `conn[s]`: session `s` has an open connection;
- `status[r]`: `pending`, `decided` or `failed`;
- `verdict[r]`: the verdict for request `r`.

Its actions:
- `Open(s)` and `Close(s)`;
- `Serve(s, r)`: a pending request is served once. Its session's
  connection may be opened on the way. The request is either decided
  with one of `NONE`, `ALLOW` or `BLOCK`, or it fails and keeps its
  verdict;
- `Reset`: every connection is closed.

`GkCurl` maps onto it through `Client == INSTANCE GkClientAbs`:
- `conn` is `active`;
- `status` is derived from `sent` and `result` (`ClientStatus`);
- `verdict` is `req[r].action`.

What each concrete step refines:
- a successful `EasyInit` is an `Open`, and a failed one is a stutter;
- `EasyCleanup` is a `Close`;
- every `Send` is a `Serve`;
- `Restart` is a `Reset`.

Writing the verdict before the `url_reply == NULL` check breaks the
refinement (mutant `SetPolicyEarlyVerdict`). So does serving a request
twice.

**Proofs** (`GkCurlProofs.tla`, 414 obligations). `IInv` is
`TypeOK /\ GlobalRefsBalanced /\ HandlesFresh /\ NoStaleHandle`.
`HandlesFresh` is the strengthening: an active session holds its newest
handle `<<s, made[s]>>`, which is not freed, and every freed handle of a
session is numbered at most `made[s]`. Without it, `NoStaleHandle` is
not inductive, because a send on an active session could use any handle.
Each action gets a lemma (`EasyInitIInv`, `EasyCleanupIInv`,
`SendIInv`, `RestartIInv`). The count steps use `ActivateCount` and
`DeactivateCount`, from `FS_AddElement` and `FS_RemoveElement`.
`NullNotFreed` shows that a failed init's NULL handle is never among the
freed ones. The theorems `GlobalRefsCorrect`, `NoStaleHandleUse` and
`CurlTypeCorrect` hold for every number of sessions, requests and
handles.

`SuccessHasVerdict` (`Spec => []ResultHasVerdict`) holds for the same
range of constants. The proof takes `ResultHasVerdict` together with
`IInv` as the inductive invariant. `SendRecordVerdict` shows that every
branch of the send's `CASE` other than a `gk_set_policy` success
returns false.

`ClientRefinement` (`Spec => ClientSpec`) is proved step by step:
- `ClientInit`: initial states map to initial states;
- `EasyInitClient`, `EasyCleanupClient` and `SendClient`: one lemma per
  action;
- `ClientStep`: every step maps to a step of the contract or a stutter.

`SendRecordClient` carries the per-branch facts about the record a send
leaves. `StatusOthers` shows that the requests not sent keep their
status. The only invariant the proof needs is `TypeOK`.

## 4. Assumptions and abstractions

- All operations are atomic because the code runs on one event-loop
  thread (spec section 5).
- A sweep reads the clock once. The code calls `time(NULL)` once per
  record, so a sweep that crosses a second boundary judges later records
  one second later. Those records are merely evicted earlier, which no
  property here distinguishes.
- The counter is modelled as a natural number. The theorem
  `TypeCorrect` shows that it never goes below zero, so the unsigned
  wrap never happens.
- The model abstracts away data and freeing that no property
  distinguishes:
  - values, verdicts and policies;
  - logging;
  - the freeing of the value and policy strings, which every path does
    unconditionally.
