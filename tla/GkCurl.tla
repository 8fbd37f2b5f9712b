------------------------------- MODULE GkCurl -------------------------------
(***************************************************************************)
(* The gatekeeper cloud client (src/lib/gatekeeper_plugin/src/            *)
(* gatekeeper_single_curl.c).  Each FSM session owns one curl easy handle  *)
(* (fsm_gk_session->ecurl) that is created lazily by gk_send_request or    *)
(* directly by gk_curl_easy_init, and destroyed by gk_curl_easy_cleanup.   *)
(* curl_global_init/cleanup are reference counted by libcurl.  A request   *)
(* is one blocking curl_easy_perform on the plugin's event loop, so every  *)
(* call is one atomic action; its outcome (allocation, transfer, unpack,   *)
(* reply contents) is chosen by the environment.  A NULL dereference ends  *)
(* the process; the process manager restarts it.                          *)
(***************************************************************************)
EXTENDS Naturals, FiniteSets

CONSTANTS
    Sessions,    \* FSM gatekeeper sessions
    Requests,    \* policy requests handed to gk_send_request
    ReqTypes,    \* request types gk_set_policy has a case for
    BadType,     \* a request type outside the switch (default branch)
    MaxHandles   \* curl easy handles a session may create over a run

ASSUME SessionsAssumption == IsFiniteSet(Sessions)
ASSUME HandlesAssumption == MaxHandles \in Nat
ASSUME BadTypeAssumption == BadType \notin ReqTypes

Handles == Sessions \X (1..MaxHandles)
NullHandle == <<>>

(* Gatekeeper__Southbound__V1__GatekeeperAction values; "UNKNOWN" stands  *)
(* for any value outside the enum, which the switch sends to default.     *)
GkActions == {"UNSPECIFIED", "ACCEPT", "BLOCK", "REDIRECT", "UNKNOWN"}
NoHeader == "NO_HEADER"

(* Mutant of FsmAction: REDIRECT is passed through instead of mapped to BLOCK. *)
FsmActionRedirect == [UNSPECIFIED |-> "NONE", ACCEPT |-> "ALLOW", BLOCK |-> "BLOCK",
                      REDIRECT |-> "REDIRECT", UNKNOWN |-> "NONE"]

(* gk_get_fsm_action *)
FsmAction == [UNSPECIFIED |-> "NONE", ACCEPT |-> "ALLOW", BLOCK |-> "BLOCK",
              REDIRECT |-> "BLOCK", UNKNOWN |-> "NONE"]
Unset == "UNSET"

(* Where gk_send_request leaves the request after the transfer. *)
Outcomes == {"malloc_failed", "perform_failed", "no_data", "unpack_failed",
             "answered"}

VARIABLES
    active,      \* ecurl.connection_active per session
    handle,      \* ecurl.curl_handle per session (may dangle after cleanup)
    made,        \* handles created so far per session
    freed,       \* handles passed to curl_easy_cleanup
    globalRefs,  \* libcurl's curl_global_init reference count
    lookups,     \* health_stats.cloud_lookups per session
    req,         \* per request: type, reply present, sent, result, verdict
    staleUse,    \* a curl call was made on a freed handle
    crashed      \* the process died on a NULL dereference

vars == <<active, handle, made, freed, globalRefs, lookups, req, staleUse,
          crashed>>

ReqInfo == [type : ReqTypes \cup {BadType}, reply : BOOLEAN, sent : BOOLEAN,
            result : BOOLEAN, action : {"NONE", "ALLOW", "BLOCK", Unset},
            connErr : BOOLEAN, toReport : BOOLEAN]

TypeOK ==
    /\ active \in [Sessions -> BOOLEAN]
    /\ handle \in [Sessions -> Handles \cup {NullHandle}]
    /\ made \in [Sessions -> 0..MaxHandles]
    /\ freed \subseteq Handles
    /\ globalRefs \in Nat
    /\ lookups \in [Sessions -> Nat]
    /\ req \in [Requests -> ReqInfo]
    /\ staleUse \in BOOLEAN
    /\ crashed \in BOOLEAN

(* A request as the FSM hands it over: fqdn_req->to_report set, no verdict; *)
(* req_info->reply may be NULL.                                             *)
Init ==
    /\ active = [s \in Sessions |-> FALSE]
    /\ handle = [s \in Sessions |-> NullHandle]
    /\ made = [s \in Sessions |-> 0]
    /\ freed = {}
    /\ globalRefs = 0
    /\ lookups = [s \in Sessions |-> 0]
    /\ req \in [Requests -> {[type |-> t, reply |-> rp, sent |-> FALSE,
                              result |-> FALSE, action |-> Unset,
                              connErr |-> FALSE, toReport |-> TRUE] :
                             t \in ReqTypes \cup {BadType}, rp \in BOOLEAN}]
    /\ staleUse = FALSE
    /\ crashed = FALSE

-----------------------------------------------------------------------------
(* Mutant of InitEffects: the error path forgets curl_global_cleanup. *)
InitEffectsKeepGlobal(s, ok) ==
    /\ made[s] < MaxHandles
    /\ handle' = [handle EXCEPT ![s] = IF ok THEN <<s, made[s] + 1>>
                                             ELSE NullHandle]
    /\ made' = [made EXCEPT ![s] = IF ok THEN @ + 1 ELSE @]
    /\ active' = [active EXCEPT ![s] = ok]
    /\ globalRefs' = globalRefs + 1

(* gk_curl_easy_init on an inactive session: curl_global_init, then       *)
(* curl_easy_init; on failure the handle is NULL and the global reference *)
(* is dropped again.  ok is whether curl_easy_init returned a handle.     *)
InitEffects(s, ok) ==
    /\ made[s] < MaxHandles
    /\ handle' = [handle EXCEPT ![s] = IF ok THEN <<s, made[s] + 1>>
                                             ELSE NullHandle]
    /\ made' = [made EXCEPT ![s] = IF ok THEN @ + 1 ELSE @]
    /\ active' = [active EXCEPT ![s] = ok]
    /\ globalRefs' = IF ok THEN globalRefs + 1 ELSE globalRefs

(* The plugin calls gk_curl_easy_init; an active session returns at once. *)
EasyInit(s) ==
    /\ ~crashed
    /\ ~active[s]
    /\ \E ok \in BOOLEAN : InitEffects(s, ok)
    /\ UNCHANGED <<freed, lookups, req, staleUse, crashed>>

(* gk_curl_easy_cleanup: only an active session with a handle is cleaned; *)
(* curl_handle is not reset.                                              *)
EasyCleanup(s) ==
    /\ ~crashed
    /\ active[s]
    /\ handle[s] # NullHandle
    /\ freed' = freed \cup {handle[s]}
    /\ globalRefs' = IF globalRefs > 0 THEN globalRefs - 1 ELSE 0
    /\ active' = [active EXCEPT ![s] = FALSE]
    /\ UNCHANGED <<handle, made, lookups, req, staleUse, crashed>>

(* Mutant of SetPolicy: the header == NULL check is dropped, so a reply    *)
(* without the request's part still counts as a success.                  *)
SetPolicyNoHeaderCheck(r, hdr) ==
    LET header == IF req[r].type \in ReqTypes THEN hdr ELSE NoHeader
        ok == req[r].reply
    IN  [req[r] EXCEPT !.result = ok,
                       !.action = IF ok /\ header # NoHeader
                                     THEN FsmAction[header] ELSE @]

(* Mutant of SetPolicy: policy_req->reply.action is written from the      *)
(* header before the url_reply == NULL check returns false.               *)
SetPolicyEarlyVerdict(r, hdr) ==
    LET header == IF req[r].type \in ReqTypes THEN hdr ELSE NoHeader
        ok == req[r].reply /\ header # NoHeader
    IN  [req[r] EXCEPT !.result = ok,
                       !.action = IF header # NoHeader
                                     THEN FsmAction[header] ELSE @]

(* gk_set_policy with the unpacked reply: hdr is the header of the reply  *)
(* part the request's own type selects (NoHeader when that part is        *)
(* absent).  The verdict is written only when the reply and header exist. *)
SetPolicy(r, hdr) ==
    LET header == IF req[r].type \in ReqTypes THEN hdr ELSE NoHeader
        ok == req[r].reply /\ header # NoHeader
    IN  [req[r] EXCEPT !.result = ok,
                       !.action = IF ok THEN FsmAction[header] ELSE @]

(* gk_send_curl_request: the options are set on the handle and the call  *)
(* fails exactly when curl_easy_perform does (a NULL handle, a transfer   *)
(* error, or gk_curl_callback's realloc failing, which aborts the write).  *)
PerformFails(out) == out = "perform_failed"

(* gk_process_curl_response: a reply that does not unpack fails the        *)
(* request; otherwise gk_set_policy decides it.                            *)
ProcessResponse(r, out, hdr) ==
    IF out = "unpack_failed"
       THEN [req[r] EXCEPT !.sent = TRUE, !.result = FALSE]
       ELSE [SetPolicy(r, hdr) EXCEPT !.sent = TRUE]

(* Mutant of Send: the connection_active check before sending is dropped. *)
SendNoReinit(s, r, out, hdr) ==
    LET h == handle[s]
        done == [req[r] EXCEPT !.sent = TRUE]
    IN
    /\ ~crashed
    /\ ~req[r].sent
    /\ UNCHANGED <<active, handle, made, globalRefs>>
    /\ out = "malloc_failed" \/ PerformFails(out) \/ h # NullHandle
    /\ staleUse' = (staleUse \/ (out # "malloc_failed" /\ h \in freed))
    /\ lookups' = [lookups EXCEPT ![s] = IF out = "malloc_failed" \/ PerformFails(out)
                                         THEN @ ELSE @ + 1]
    /\ crashed' = (PerformFails(out) /\ ~req[r].reply)
    /\ req' = [req EXCEPT ![r] =
                 CASE PerformFails(out) ->
                        [done EXCEPT !.connErr = TRUE, !.toReport = FALSE,
                                     !.result = FALSE]
                   [] out \in {"unpack_failed", "answered"} ->
                        ProcessResponse(r, out, hdr)
                   [] OTHER -> [done EXCEPT !.result = FALSE]]
    /\ UNCHANGED freed

(* gk_send_request(session s, request r): create the handle when the      *)
(* connection is inactive (its failure is ignored), allocate the chunk,   *)
(* perform the transfer, count the lookup and unpack the reply.  A failed *)
(* transfer writes url_reply->connection_error, a NULL dereference when   *)
(* the request has no reply.                                              *)
Send(s, r, out, hdr) ==
    LET h == IF active[s] THEN handle[s] ELSE handle'[s]
        done == [req[r] EXCEPT !.sent = TRUE]
    IN
    /\ ~crashed
    /\ ~req[r].sent
    /\ IF active[s]
          THEN UNCHANGED <<active, handle, made, globalRefs>>
          ELSE \E ok \in BOOLEAN : InitEffects(s, ok)
    /\ out = "malloc_failed" \/ PerformFails(out) \/ h # NullHandle
    /\ staleUse' = (staleUse \/ (out # "malloc_failed" /\ h \in freed))
    /\ lookups' = [lookups EXCEPT ![s] = IF out = "malloc_failed" \/ PerformFails(out)
                                         THEN @ ELSE @ + 1]
    /\ crashed' = (PerformFails(out) /\ ~req[r].reply)
    /\ req' = [req EXCEPT ![r] =
                 CASE PerformFails(out) ->
                        [done EXCEPT !.connErr = TRUE, !.toReport = FALSE,
                                     !.result = FALSE]
                   [] out \in {"unpack_failed", "answered"} ->
                        ProcessResponse(r, out, hdr)
                   [] OTHER -> [done EXCEPT !.result = FALSE]]
    /\ UNCHANGED freed

(* The process manager restarts the plugin after a crash: every session   *)
(* starts without a connection and libcurl's global state is gone.        *)
Restart ==
    /\ crashed
    /\ active' = [s \in Sessions |-> FALSE]
    /\ handle' = [s \in Sessions |-> NullHandle]
    /\ globalRefs' = 0
    /\ crashed' = FALSE
    /\ UNCHANGED <<made, freed, lookups, req, staleUse>>

Next ==
    \/ \E s \in Sessions : EasyInit(s) \/ EasyCleanup(s)
    \/ \E s \in Sessions, r \in Requests, out \in Outcomes,
          hdr \in GkActions \cup {NoHeader} :
          /\ (out = "answered" \/ hdr = NoHeader)
          /\ Send(s, r, out, hdr)
    \/ Restart

Spec == Init /\ [][Next]_vars

-----------------------------------------------------------------------------
(* libcurl's global state is initialised exactly once per session with an *)
(* active connection: gk_curl_easy_init takes a global reference and its   *)
(* error path returns it, gk_curl_easy_cleanup returns it once, and a      *)
(* restart starts from nothing.  A missing or doubled curl_global_cleanup  *)
(* tears libcurl down under another session's live handle.                 *)
GlobalRefsBalanced == globalRefs = Cardinality({s \in Sessions : active[s]})

(* No curl call is ever made on a handle that curl_easy_cleanup freed,      *)
(* although gk_curl_easy_cleanup leaves curl_handle dangling: every send on *)
(* an inactive session creates a new handle first.                          *)
NoStaleHandle == ~staleUse



(* gk_send_request returns true only when gk_set_policy wrote a verdict   *)
(* into policy_req->reply.action: every failure path (allocation,         *)
(* transfer, empty reply, unpacking, a missing reply or header) returns   *)
(* false, so the caller never acts on a verdict the server did not give.  *)
ResultHasVerdict == \A r \in Requests : req[r].result => req[r].action # Unset

(* gk_send_request returns false on failure (its header comment), and     *)
(* gk_set_policy treats a request without url_reply as a failure; the     *)
(* failed-transfer path must not dereference that missing reply either.   *)
NoNullReplyDeref == ~crashed


-----------------------------------------------------------------------------
(* The client as its callers see it: a session's connection_active flag,   *)
(* whether gk_send_request has served a request and with which result, and *)
(* the verdict in policy_req->reply.action.                                 *)
ClientStatus(r) ==
    IF ~req[r].sent THEN "pending" ELSE IF req[r].result THEN "decided" ELSE "failed"

Client == INSTANCE GkClientAbs
              WITH conn <- active,
                   status <- [r \in Requests |-> ClientStatus(r)],
                   verdict <- [r \in Requests |-> req[r].action]

(* gk_curl_easy_init, gk_curl_easy_cleanup, gk_send_request and a restart   *)
(* together implement the client contract of GkClientAbs: connections open  *)
(* and close only through init, cleanup and restart, each request is served *)
(* once, a verdict is written only to a request decided in that call, and a *)
(* failure (transfer, unpacking, missing reply or header) keeps the old one.*)
ClientSpec == Client!Spec

=============================================================================
