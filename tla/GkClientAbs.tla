----------------------------- MODULE GkClientAbs -----------------------------
(***************************************************************************)
(* What the gatekeeper cloud client promises the FSM plugin, as its        *)
(* function comments state it (gatekeeper_single_curl.c): a session's      *)
(* connection is opened by gk_curl_easy_init and closed by                 *)
(* gk_curl_easy_cleanup; gk_send_request serves one policy request once,   *)
(* returning true with a verdict or false; a verdict is written only to a  *)
(* request that is decided in that call, and a failed request keeps the    *)
(* verdict it had.  A restart of the process closes every connection.      *)
(***************************************************************************)
CONSTANTS Sessions, Requests

Verdicts == {"NONE", "ALLOW", "BLOCK"}
NoVerdict == "UNSET"
Statuses == {"pending", "decided", "failed"}

VARIABLES
    conn,      \* conn[s]: session s has an open connection
    status,    \* status[r]: not yet served, served with true, with false
    verdict    \* verdict[r]: the FSM action written for r, or NoVerdict

clientVars == <<conn, status, verdict>>

Init ==
    /\ conn = [s \in Sessions |-> FALSE]
    /\ status = [r \in Requests |-> "pending"]
    /\ verdict = [r \in Requests |-> NoVerdict]

Open(s) ==
    /\ ~conn[s]
    /\ conn' = [conn EXCEPT ![s] = TRUE]
    /\ UNCHANGED <<status, verdict>>

Close(s) ==
    /\ conn[s]
    /\ conn' = [conn EXCEPT ![s] = FALSE]
    /\ UNCHANGED <<status, verdict>>

(* A pending request is served on session s, which may open its          *)
(* connection first; the request is decided with a verdict or fails.      *)
Serve(s, r) ==
    /\ status[r] = "pending"
    /\ \E opened \in BOOLEAN : conn' = [conn EXCEPT ![s] = @ \/ opened]
    /\ \/ \E v \in Verdicts :
             /\ status' = [status EXCEPT ![r] = "decided"]
             /\ verdict' = [verdict EXCEPT ![r] = v]
       \/ /\ status' = [status EXCEPT ![r] = "failed"]
          /\ UNCHANGED verdict

Reset ==
    /\ conn' = [s \in Sessions |-> FALSE]
    /\ UNCHANGED <<status, verdict>>

Next ==
    \/ \E s \in Sessions : Open(s) \/ Close(s)
    \/ \E s \in Sessions, r \in Requests : Serve(s, r)
    \/ Reset

Spec == Init /\ [][Next]_clientVars

=============================================================================
