--------------------------- MODULE GkCurlProofs ---------------------------
(* Proofs about the gatekeeper cloud client model, for every number of   *)
(* sessions, requests and handles.                                        *)
EXTENDS GkCurl, FiniteSetTheorems, TLAPS

ActiveSet == {s \in Sessions : active[s]}

(* An active session holds the newest handle it made, which is not freed; *)
(* every freed handle is one its session made earlier.                    *)
HandlesFresh ==
    /\ \A s \in Sessions :
          active[s] => /\ made[s] \in 1..MaxHandles
                       /\ handle[s] = <<s, made[s]>>
                       /\ handle[s] \notin freed
    /\ \A h \in freed : h[2] <= made[h[1]]

IInv == TypeOK /\ GlobalRefsBalanced /\ HandlesFresh /\ NoStaleHandle

LEMMA ActiveSetFinite ==
    ASSUME TypeOK PROVE IsFiniteSet(ActiveSet)
BY SessionsAssumption, FS_Subset DEF ActiveSet

(* Activating an inactive session adds one to the active count. *)
LEMMA ActivateCount ==
    ASSUME TypeOK, NEW s \in Sessions, ~active[s],
           active' = [active EXCEPT ![s] = TRUE]
    PROVE  Cardinality(ActiveSet') = Cardinality(ActiveSet) + 1
<1>1. ActiveSet' = ActiveSet \cup {s}
    BY DEF ActiveSet, TypeOK
<1>2. s \notin ActiveSet
    BY DEF ActiveSet
<1> QED
    BY <1>1, <1>2, ActiveSetFinite, FS_AddElement

(* Deactivating an active session takes one from the active count. *)
LEMMA DeactivateCount ==
    ASSUME TypeOK, NEW s \in Sessions, active[s],
           active' = [active EXCEPT ![s] = FALSE]
    PROVE  Cardinality(ActiveSet') = Cardinality(ActiveSet) - 1
<1>1. ActiveSet' = ActiveSet \ {s}
    BY DEF ActiveSet, TypeOK
<1>2. s \in ActiveSet
    BY DEF ActiveSet
<1> QED
    BY <1>1, <1>2, ActiveSetFinite, FS_RemoveElement

LEMMA InitIInv == Init => IInv
<1> SUFFICES ASSUME Init PROVE IInv
    OBVIOUS
<1>1. TypeOK
  <2>1. req \in [Requests -> ReqInfo]
    <3>1. {[type |-> t, reply |-> rp, sent |-> FALSE, result |-> FALSE,
            action |-> Unset, connErr |-> FALSE, toReport |-> TRUE] :
           t \in ReqTypes \cup {BadType}, rp \in BOOLEAN} \subseteq ReqInfo
      <4>1. ASSUME NEW t \in ReqTypes \cup {BadType}, NEW rp \in BOOLEAN
            PROVE  [type |-> t, reply |-> rp, sent |-> FALSE, result |-> FALSE,
                    action |-> Unset, connErr |-> FALSE, toReport |-> TRUE]
                     \in ReqInfo
          BY Zenon DEF ReqInfo
      <4> QED
          BY <4>1
    <3> QED
        BY <3>1 DEF Init
  <2>2. made \in [Sessions -> 0..MaxHandles]
      BY HandlesAssumption DEF Init
  <2>3. handle \in [Sessions -> Handles \cup {NullHandle}]
      BY DEF Init
  <2>4. lookups \in [Sessions -> Nat] /\ active \in [Sessions -> BOOLEAN]
      BY DEF Init
  <2> QED
      BY <2>1, <2>2, <2>3, <2>4 DEF Init, TypeOK
<1>2. ActiveSet = {}
    BY DEF Init, ActiveSet
<1>3. GlobalRefsBalanced
    BY <1>2, FS_EmptySet DEF Init, GlobalRefsBalanced, ActiveSet
<1> QED
    BY <1>1, <1>3 DEF Init, IInv, HandlesFresh, NoStaleHandle


(* gk_curl_easy_init on an inactive session keeps the invariant (with the *)
(* freed set untouched) and leaves a handle that is NULL or not freed.     *)
LEMMA InitEffectsIInv ==
    ASSUME IInv, NEW s \in Sessions, ~active[s], NEW ok \in BOOLEAN,
           InitEffects(s, ok), freed' = freed
    PROVE  /\ active' \in [Sessions -> BOOLEAN]
           /\ handle' \in [Sessions -> Handles \cup {NullHandle}]
           /\ made' \in [Sessions -> 0..MaxHandles]
           /\ globalRefs' \in Nat
           /\ GlobalRefsBalanced'
           /\ HandlesFresh'
           /\ handle'[s] = NullHandle \/ handle'[s] \notin freed
<1> USE DEF IInv, TypeOK
<1>1. CASE ok
  <2>1. active' = [active EXCEPT ![s] = TRUE]
      BY <1>1 DEF InitEffects
  <2>2. Cardinality(ActiveSet') = Cardinality(ActiveSet) + 1
      BY <2>1, ActivateCount
  <2>3. GlobalRefsBalanced'
      BY <1>1, <2>2 DEF InitEffects, GlobalRefsBalanced, ActiveSet
  <2>4. <<s, made[s] + 1>> \notin freed
      BY DEF HandlesFresh
  <2>5. ASSUME NEW t \in Sessions, active'[t]
        PROVE  /\ made'[t] \in 1..MaxHandles
               /\ handle'[t] = <<t, made'[t]>>
               /\ handle'[t] \notin freed'
    <3>1. CASE t = s
        BY <1>1, <2>4, <3>1, HandlesAssumption DEF InitEffects
    <3>2. CASE t # s
        BY <1>1, <2>5, <3>2 DEF InitEffects, HandlesFresh
    <3> QED
        BY <3>1, <3>2
  <2>6. ASSUME NEW h \in freed' PROVE h[2] <= made'[h[1]]
    <3>1. h \in Handles /\ h[2] <= made[h[1]]
        BY DEF HandlesFresh
    <3>2. h[1] \in Sessions /\ h[2] \in Nat
        BY <3>1 DEF Handles
    <3>3. made[h[1]] \in Nat /\ made'[h[1]] \in Nat /\ made[h[1]] <= made'[h[1]]
        BY <1>1, <3>2, HandlesAssumption DEF InitEffects
    <3> QED
        BY <3>1, <3>2, <3>3, HandlesAssumption
  <2>7. HandlesFresh'
      BY <2>5, <2>6 DEF HandlesFresh
  <2> QED
      BY <1>1, <2>3, <2>4, <2>7, HandlesAssumption DEF InitEffects, Handles
<1>2. CASE ~ok
  <2>1. active' = active
      BY <1>2 DEF InitEffects
  <2> QED
      BY <1>2, <2>1 DEF InitEffects, GlobalRefsBalanced, ActiveSet,
                        HandlesFresh
<1> QED
    BY <1>1, <1>2


(* The record gk_send_request leaves behind is a well-formed request. *)
LEMMA SendReqType ==
    ASSUME TypeOK, NEW r \in Requests, NEW out \in Outcomes,
           NEW hdr \in GkActions \cup {NoHeader}
    PROVE  LET done == [req[r] EXCEPT !.sent = TRUE]
           IN  (CASE PerformFails(out) ->
                       [done EXCEPT !.connErr = TRUE, !.toReport = FALSE,
                                    !.result = FALSE]
                  [] out \in {"unpack_failed", "answered"} ->
                       ProcessResponse(r, out, hdr)
                  [] OTHER -> [done EXCEPT !.result = FALSE]) \in ReqInfo
<1> DEFINE done == [req[r] EXCEPT !.sent = TRUE]
<1>1. req[r] \in ReqInfo
    BY DEF TypeOK
<1>2. done \in ReqInfo
    BY <1>1 DEF ReqInfo
<1>3. [done EXCEPT !.connErr = TRUE, !.toReport = FALSE, !.result = FALSE]
        \in ReqInfo
    BY <1>2 DEF ReqInfo
<1>4. [done EXCEPT !.result = FALSE] \in ReqInfo
    BY <1>2 DEF ReqInfo
<1>5. [SetPolicy(r, hdr) EXCEPT !.sent = TRUE] \in ReqInfo
      /\ [req[r] EXCEPT !.sent = TRUE, !.result = FALSE] \in ReqInfo
  <2> DEFINE header == IF req[r].type \in ReqTypes THEN hdr ELSE NoHeader
             ok == req[r].reply /\ header # NoHeader
  <2>1. ok => FsmAction[header] \in {"NONE", "ALLOW", "BLOCK"}
      BY DEF FsmAction, GkActions, NoHeader
  <2>2. (IF ok THEN FsmAction[header] ELSE req[r].action)
          \in {"NONE", "ALLOW", "BLOCK", Unset}
      BY <1>1, <2>1 DEF ReqInfo
  <2> QED
      BY <1>1, <2>2 DEF SetPolicy, ReqInfo
<1>6. ProcessResponse(r, out, hdr) \in ReqInfo
    BY <1>5 DEF ProcessResponse
<1> QED
    BY <1>3, <1>4, <1>6


LEMMA EasyInitIInv ==
    ASSUME IInv, NEW s \in Sessions, EasyInit(s) PROVE IInv'
<1>1. PICK ok \in BOOLEAN : InitEffects(s, ok)
    BY DEF EasyInit
<1>2. /\ active' \in [Sessions -> BOOLEAN]
      /\ handle' \in [Sessions -> Handles \cup {NullHandle}]
      /\ made' \in [Sessions -> 0..MaxHandles]
      /\ globalRefs' \in Nat
      /\ GlobalRefsBalanced'
      /\ HandlesFresh'
    BY <1>1, InitEffectsIInv DEF EasyInit
<1>3. TypeOK'
    BY <1>2 DEF EasyInit, IInv, TypeOK
<1> QED
    BY <1>2, <1>3 DEF EasyInit, IInv, NoStaleHandle

(* A set with an element has a positive cardinality. *)
LEMMA ActiveNonEmpty ==
    ASSUME TypeOK, NEW s \in Sessions, active[s]
    PROVE  Cardinality(ActiveSet) >= 1
<1>1. IsFiniteSet(ActiveSet) /\ ActiveSet # {}
    BY ActiveSetFinite DEF ActiveSet
<1> QED
    BY <1>1, FS_CardinalityType, FS_EmptySet

LEMMA EasyCleanupIInv ==
    ASSUME IInv, NEW s \in Sessions, EasyCleanup(s) PROVE IInv'
<1> USE DEF IInv, TypeOK
<1>1. handle[s] = <<s, made[s]>> /\ handle[s] \in Handles
    BY DEF EasyCleanup, HandlesFresh
<1>2. TypeOK'
    BY <1>1 DEF EasyCleanup
<1>3. GlobalRefsBalanced'
  <2>1. Cardinality(ActiveSet') = Cardinality(ActiveSet) - 1
      BY DeactivateCount DEF EasyCleanup
  <2>2. Cardinality(ActiveSet) >= 1
      BY ActiveNonEmpty DEF EasyCleanup
  <2> QED
      BY <2>1, <2>2 DEF EasyCleanup, GlobalRefsBalanced, ActiveSet
<1>4. HandlesFresh'
  <2>1. ASSUME NEW t \in Sessions, active'[t]
        PROVE  /\ made'[t] \in 1..MaxHandles
               /\ handle'[t] = <<t, made'[t]>>
               /\ handle'[t] \notin freed'
    <3>1. t # s /\ active[t]
        BY <2>1 DEF EasyCleanup
    <3>2. handle[t] = <<t, made[t]>> /\ handle[t] \notin freed
          /\ made[t] \in 1..MaxHandles
        BY <3>1 DEF HandlesFresh
    <3>3. handle[t] # handle[s]
        BY <1>1, <3>1, <3>2
    <3> QED
        BY <3>2, <3>3 DEF EasyCleanup
  <2>2. ASSUME NEW h \in freed' PROVE h[2] <= made'[h[1]]
    <3>1. CASE h \in freed
        BY <3>1 DEF EasyCleanup, HandlesFresh
    <3>2. CASE h = handle[s]
        BY <1>1, <3>2, HandlesAssumption DEF EasyCleanup
    <3> QED
        BY <3>1, <3>2 DEF EasyCleanup
  <2> QED
      BY <2>1, <2>2 DEF HandlesFresh
<1> QED
    BY <1>2, <1>3, <1>4 DEF EasyCleanup, NoStaleHandle


(* The NULL handle is never among the freed ones. *)
LEMMA NullNotFreed ==
    ASSUME TypeOK PROVE NullHandle \notin freed
<1> SUFFICES ASSUME NEW x \in freed PROVE x # NullHandle
    OBVIOUS
<1>1. PICK a \in Sessions, b \in 1..MaxHandles : x = <<a, b>>
    BY DEF TypeOK, Handles
<1>2. DOMAIN x = {1, 2} /\ DOMAIN NullHandle = {}
    BY <1>1 DEF NullHandle
<1> QED
    BY <1>2

LEMMA SendIInv ==
    ASSUME IInv, NEW s \in Sessions, NEW r \in Requests, NEW out \in Outcomes,
           NEW hdr \in GkActions \cup {NoHeader}, Send(s, r, out, hdr)
    PROVE  IInv'
<1>1. /\ active' \in [Sessions -> BOOLEAN]
      /\ handle' \in [Sessions -> Handles \cup {NullHandle}]
      /\ made' \in [Sessions -> 0..MaxHandles]
      /\ globalRefs' \in Nat
      /\ GlobalRefsBalanced'
      /\ HandlesFresh'
      /\ (IF active[s] THEN handle[s] ELSE handle'[s]) \notin freed
  <2>1. CASE active[s]
    <3>1. handle[s] \notin freed
        BY <2>1 DEF IInv, HandlesFresh
    <3> QED
        BY <2>1, <3>1 DEF Send, IInv, TypeOK, GlobalRefsBalanced,
                         HandlesFresh, ActiveSet
  <2>2. CASE ~active[s]
    <3>1. PICK ok \in BOOLEAN : InitEffects(s, ok)
        BY <2>2 DEF Send
    <3>2. handle'[s] = NullHandle \/ handle'[s] \notin freed
        BY <2>2, <3>1, InitEffectsIInv DEF Send
    <3>3. handle'[s] \notin freed
        BY <3>2, NullNotFreed DEF IInv
    <3> QED
        BY <2>2, <3>1, <3>3, InitEffectsIInv DEF Send
  <2> QED
      BY <2>1, <2>2
<1>2. staleUse' = FALSE
    BY <1>1 DEF Send, IInv, NoStaleHandle
<1>3. req' \in [Requests -> ReqInfo]
    BY SendReqType DEF Send, IInv, TypeOK
<1>4. lookups' \in [Sessions -> Nat] /\ crashed' \in BOOLEAN
    BY DEF Send, IInv, TypeOK
<1>5. TypeOK'
    BY <1>1, <1>2, <1>3, <1>4 DEF Send, IInv, TypeOK
<1> QED
    BY <1>1, <1>2, <1>5 DEF IInv, NoStaleHandle

LEMMA RestartIInv ==
    ASSUME IInv, Restart PROVE IInv'
<1>1. ActiveSet' = {}
    BY DEF Restart, ActiveSet
<1>2. GlobalRefsBalanced'
    BY <1>1, FS_EmptySet DEF Restart, GlobalRefsBalanced, ActiveSet
<1>3. TypeOK'
    BY DEF Restart, IInv, TypeOK
<1>4. HandlesFresh'
    BY DEF Restart, IInv, HandlesFresh
<1> QED
    BY <1>2, <1>3, <1>4 DEF Restart, IInv, NoStaleHandle

LEMMA NextIInv == IInv /\ [Next]_vars => IInv'
<1> SUFFICES ASSUME IInv, [Next]_vars PROVE IInv'
    OBVIOUS
<1>1. ASSUME NEW s \in Sessions, EasyInit(s) PROVE IInv'
    BY <1>1, EasyInitIInv
<1>2. ASSUME NEW s \in Sessions, EasyCleanup(s) PROVE IInv'
    BY <1>2, EasyCleanupIInv
<1>3. ASSUME NEW s \in Sessions, NEW r \in Requests, NEW out \in Outcomes,
             NEW hdr \in GkActions \cup {NoHeader}, Send(s, r, out, hdr)
      PROVE  IInv'
    BY <1>3, SendIInv
<1>4. CASE Restart
    BY <1>4, RestartIInv
<1>5. CASE UNCHANGED vars
    BY <1>5 DEF vars, IInv, TypeOK, GlobalRefsBalanced, HandlesFresh,
                NoStaleHandle, ActiveSet
<1> QED
    BY <1>1, <1>2, <1>3, <1>4, <1>5 DEF Next

THEOREM IInvariant == Spec => []IInv
BY InitIInv, NextIInv, PTL DEF Spec

(* libcurl's global reference count equals the number of sessions with an *)
(* active connection (gk_curl_easy_init, its error path, and              *)
(* gk_curl_easy_cleanup), for any number of sessions and handles.         *)
THEOREM GlobalRefsCorrect == Spec => []GlobalRefsBalanced
BY IInvariant, PTL DEF IInv

(* gk_send_request never calls curl on a handle gk_curl_easy_cleanup      *)
(* freed, for any number of sessions, requests and handles.               *)
THEOREM NoStaleHandleUse == Spec => []NoStaleHandle
BY IInvariant, PTL DEF IInv

(* Every state of the client is well typed. *)
THEOREM CurlTypeCorrect == Spec => []TypeOK
BY IInvariant, PTL DEF IInv


-----------------------------------------------------------------------------
(* The record a send leaves is a success only with a verdict written. *)
LEMMA SendRecordVerdict ==
    ASSUME TypeOK, NEW r \in Requests, NEW out \in Outcomes,
           NEW hdr \in GkActions \cup {NoHeader}
    PROVE  LET done == [req[r] EXCEPT !.sent = TRUE]
               rec == CASE PerformFails(out) ->
                             [done EXCEPT !.connErr = TRUE, !.toReport = FALSE,
                                          !.result = FALSE]
                        [] out \in {"unpack_failed", "answered"} ->
                             ProcessResponse(r, out, hdr)
                        [] OTHER -> [done EXCEPT !.result = FALSE]
           IN  rec.result => rec.action # Unset
<1> DEFINE done == [req[r] EXCEPT !.sent = TRUE]
<1>1. req[r] \in ReqInfo
    BY DEF TypeOK
<1>2. [done EXCEPT !.connErr = TRUE, !.toReport = FALSE, !.result = FALSE].result = FALSE
      /\ [done EXCEPT !.result = FALSE].result = FALSE
      /\ [req[r] EXCEPT !.sent = TRUE, !.result = FALSE].result = FALSE
    BY <1>1 DEF ReqInfo
<1>3. LET sp == [SetPolicy(r, hdr) EXCEPT !.sent = TRUE]
      IN  sp.result => sp.action # Unset
  <2> DEFINE header == IF req[r].type \in ReqTypes THEN hdr ELSE NoHeader
             ok == req[r].reply /\ header # NoHeader
  <2>1. ok => FsmAction[header] # Unset
      BY DEF FsmAction, GkActions, NoHeader, Unset
  <2> QED
      BY <1>1, <2>1 DEF SetPolicy, ReqInfo
<1>4. ProcessResponse(r, out, hdr).result => ProcessResponse(r, out, hdr).action # Unset
    BY <1>2, <1>3 DEF ProcessResponse
<1> QED
    BY <1>2, <1>4

(* ResultHasVerdict is kept by every step, given the invariant. *)
LEMMA NextResult ==
    IInv /\ ResultHasVerdict /\ [Next]_vars => ResultHasVerdict'
<1> SUFFICES ASSUME IInv, ResultHasVerdict, [Next]_vars
             PROVE  ResultHasVerdict'
    OBVIOUS
<1>1. ASSUME NEW s \in Sessions, NEW r \in Requests, NEW out \in Outcomes,
             NEW hdr \in GkActions \cup {NoHeader}, Send(s, r, out, hdr)
      PROVE  ResultHasVerdict'
  <2>1. ASSUME NEW q \in Requests PROVE req'[q].result => req'[q].action # Unset
    <3>1. CASE q = r
        BY <1>1, <3>1, SendRecordVerdict DEF Send, IInv, TypeOK
    <3>2. CASE q # r
        BY <1>1, <3>2 DEF Send, IInv, TypeOK, ResultHasVerdict
    <3> QED
        BY <3>1, <3>2
  <2> QED
      BY <2>1 DEF ResultHasVerdict
<1>2. CASE UNCHANGED req
    BY <1>2 DEF ResultHasVerdict
<1> QED
    BY <1>1, <1>2 DEF Next, EasyInit, EasyCleanup, Restart, vars

(* gk_send_request reports success only after gk_set_policy wrote the     *)
(* server's verdict into policy_req->reply.action, whatever the numbers   *)
(* of sessions, requests and handles.                                    *)
THEOREM SuccessHasVerdict == Spec => []ResultHasVerdict
<1>1. Init => ResultHasVerdict
    BY DEF Init, ResultHasVerdict
<1>2. IInv /\ ResultHasVerdict /\ [Next]_vars => ResultHasVerdict'
    BY NextResult
<1> QED
    BY <1>1, <1>2, IInvariant, PTL DEF Spec


-----------------------------------------------------------------------------
(* Refinement of the client contract GkClientAbs. *)

(* The record a send leaves is served; a success carries one of the FSM    *)
(* verdicts, and a failure keeps the verdict the request had.              *)
LEMMA SendRecordClient ==
    ASSUME TypeOK, NEW r \in Requests, NEW out \in Outcomes,
           NEW hdr \in GkActions \cup {NoHeader}
    PROVE  LET done == [req[r] EXCEPT !.sent = TRUE]
               rec == CASE PerformFails(out) ->
                             [done EXCEPT !.connErr = TRUE, !.toReport = FALSE,
                                          !.result = FALSE]
                        [] out \in {"unpack_failed", "answered"} ->
                             ProcessResponse(r, out, hdr)
                        [] OTHER -> [done EXCEPT !.result = FALSE]
           IN  /\ rec.sent = TRUE
               /\ rec.result => rec.action \in Client!Verdicts
               /\ ~rec.result => rec.action = req[r].action
<1> DEFINE done == [req[r] EXCEPT !.sent = TRUE]
<1>1. req[r] \in ReqInfo
    BY DEF TypeOK
<1>2. LET f1 == [done EXCEPT !.connErr = TRUE, !.toReport = FALSE, !.result = FALSE]
          f2 == [done EXCEPT !.result = FALSE]
          f3 == [req[r] EXCEPT !.sent = TRUE, !.result = FALSE]
      IN  /\ f1.sent = TRUE /\ f1.result = FALSE /\ f1.action = req[r].action
          /\ f2.sent = TRUE /\ f2.result = FALSE /\ f2.action = req[r].action
          /\ f3.sent = TRUE /\ f3.result = FALSE /\ f3.action = req[r].action
    BY <1>1 DEF ReqInfo
<1>3. LET sp == [SetPolicy(r, hdr) EXCEPT !.sent = TRUE]
      IN  /\ sp.sent = TRUE
          /\ sp.result => sp.action \in Client!Verdicts
          /\ ~sp.result => sp.action = req[r].action
  <2> DEFINE header == IF req[r].type \in ReqTypes THEN hdr ELSE NoHeader
             ok == req[r].reply /\ header # NoHeader
  <2>1. ok => FsmAction[header] \in Client!Verdicts
      BY DEF FsmAction, GkActions, NoHeader, Client!Verdicts
  <2> QED
      BY <1>1, <2>1 DEF SetPolicy, ReqInfo
<1>4. LET pr == ProcessResponse(r, out, hdr)
      IN  /\ pr.sent = TRUE
          /\ pr.result => pr.action \in Client!Verdicts
          /\ ~pr.result => pr.action = req[r].action
    BY <1>2, <1>3 DEF ProcessResponse
<1> QED
    BY <1>2, <1>4

(* A request's status changes only when a send serves it. *)
LEMMA StatusOthers ==
    ASSUME NEW r \in Requests, NEW rec, req' = [req EXCEPT ![r] = rec],
           NEW q \in Requests, q # r
    PROVE  ClientStatus(q)' = ClientStatus(q)
BY DEF ClientStatus

LEMMA ClientInit == Init => Client!Init
<1> SUFFICES ASSUME Init PROVE Client!Init
    OBVIOUS
<1>1. \A r \in Requests : req[r].sent = FALSE /\ req[r].action = Unset
    BY DEF Init
<1> QED
    BY <1>1 DEF Client!Init, ClientStatus, Init, Unset, Client!NoVerdict

(* gk_curl_easy_init opens the session's connection or, failing, changes  *)
(* nothing the client's callers see.                                       *)
LEMMA EasyInitClient ==
    ASSUME TypeOK, NEW s \in Sessions, EasyInit(s)
    PROVE  [Client!Next]_Client!clientVars
<1>1. PICK ok \in BOOLEAN : InitEffects(s, ok)
    BY DEF EasyInit
<1>2. UNCHANGED <<[r \in Requests |-> ClientStatus(r)],
                  [r \in Requests |-> req[r].action]>>
    BY DEF EasyInit, ClientStatus
<1>3. CASE ok
    <2>1. Client!Open(s)
        BY <1>1, <1>2, <1>3 DEF EasyInit, InitEffects, Client!Open
    <2> QED
        BY <2>1 DEF Client!Next
<1>4. CASE ~ok
    <2>1. active' = active
        BY <1>1, <1>4 DEF EasyInit, InitEffects, TypeOK
    <2> QED
        BY <1>2, <2>1 DEF Client!clientVars
<1> QED
    BY <1>3, <1>4

LEMMA EasyCleanupClient ==
    ASSUME TypeOK, NEW s \in Sessions, EasyCleanup(s)
    PROVE  Client!Close(s)
BY DEF EasyCleanup, Client!Close, ClientStatus

(* gk_send_request serves the request once, opening the connection when   *)
(* it was inactive and curl_easy_init succeeds.                            *)
LEMMA SendClient ==
    ASSUME TypeOK, NEW s \in Sessions, NEW r \in Requests, NEW out \in Outcomes,
           NEW hdr \in GkActions \cup {NoHeader}, Send(s, r, out, hdr)
    PROVE  Client!Serve(s, r)
<1> DEFINE done == [req[r] EXCEPT !.sent = TRUE]
           rec == CASE PerformFails(out) ->
                         [done EXCEPT !.connErr = TRUE, !.toReport = FALSE,
                                      !.result = FALSE]
                    [] out \in {"unpack_failed", "answered"} ->
                         ProcessResponse(r, out, hdr)
                    [] OTHER -> [done EXCEPT !.result = FALSE]
           st == [q \in Requests |-> ClientStatus(q)]
           vd == [q \in Requests |-> req[q].action]
<1>1. req' = [req EXCEPT ![r] = rec]
    BY DEF Send
<1>2. /\ rec.sent = TRUE
      /\ rec.result => rec.action \in Client!Verdicts
      /\ ~rec.result => rec.action = req[r].action
    BY SendRecordClient
<1>3. st[r] = "pending"
    BY DEF Send, ClientStatus
<1>4. \E opened \in BOOLEAN : active' = [active EXCEPT ![s] = @ \/ opened]
  <2>1. CASE active[s]
    <3>1. active' = [active EXCEPT ![s] = @ \/ FALSE]
        BY <2>1 DEF Send, TypeOK
    <3> QED
        BY <3>1
  <2>2. CASE ~active[s]
    <3>1. PICK ok \in BOOLEAN : InitEffects(s, ok)
        BY <2>2 DEF Send
    <3>2. active' = [active EXCEPT ![s] = @ \/ ok]
        BY <2>2, <3>1 DEF InitEffects
    <3> QED
        BY <3>2
  <2> QED
      BY <2>1, <2>2
<1>5. \A q \in Requests : q # r => st'[q] = st[q] /\ vd'[q] = vd[q]
  <2>1. ASSUME NEW q \in Requests, q # r
        PROVE  ClientStatus(q)' = ClientStatus(q) /\ req'[q].action = req[q].action
    <3>1. ClientStatus(q)' = ClientStatus(q)
        BY <1>1, <2>1, StatusOthers
    <3>2. req'[q] = req[q]
        BY <1>1, <2>1 DEF TypeOK
    <3> QED
        BY <3>1, <3>2
  <2> QED
      BY <2>1
<1>6. st' = [st EXCEPT ![r] = IF rec.result THEN "decided" ELSE "failed"]
    BY <1>1, <1>2, <1>5 DEF ClientStatus, TypeOK
<1>7. vd' = [vd EXCEPT ![r] = rec.action]
  <2>1. req'[r].action = rec.action
      BY <1>1 DEF TypeOK
  <2> QED
      BY <1>5, <2>1
<1>8. CASE rec.result
    <2>1. \E v \in Client!Verdicts :
             /\ st' = [st EXCEPT ![r] = "decided"]
             /\ vd' = [vd EXCEPT ![r] = v]
        BY <1>2, <1>6, <1>7, <1>8
    <2> QED
        BY <1>3, <1>4, <2>1 DEF Client!Serve
<1>9. CASE ~rec.result
    <2>1. /\ st' = [st EXCEPT ![r] = "failed"]
          /\ vd' = vd
        BY <1>2, <1>6, <1>7, <1>9 DEF TypeOK
    <2> QED
        BY <1>3, <1>4, <2>1 DEF Client!Serve
<1> QED
    BY <1>8, <1>9

LEMMA ClientStep ==
    TypeOK /\ [Next]_vars => [Client!Next]_Client!clientVars
<1> SUFFICES ASSUME TypeOK, [Next]_vars PROVE [Client!Next]_Client!clientVars
    OBVIOUS
<1>1. ASSUME NEW s \in Sessions, EasyInit(s)
      PROVE  [Client!Next]_Client!clientVars
    BY <1>1, EasyInitClient
<1>2. ASSUME NEW s \in Sessions, EasyCleanup(s)
      PROVE  [Client!Next]_Client!clientVars
    BY <1>2, EasyCleanupClient DEF Client!Next
<1>3. ASSUME NEW s \in Sessions, NEW r \in Requests, NEW out \in Outcomes,
             NEW hdr \in GkActions \cup {NoHeader}, Send(s, r, out, hdr)
      PROVE  [Client!Next]_Client!clientVars
    BY <1>3, SendClient DEF Client!Next
<1>4. CASE Restart
    <2>1. Client!Reset
        BY <1>4 DEF Restart, Client!Reset, ClientStatus
    <2> QED
        BY <2>1 DEF Client!Next
<1>5. CASE UNCHANGED vars
    BY <1>5 DEF vars, Client!clientVars, ClientStatus
<1> QED
    BY <1>1, <1>2, <1>3, <1>4, <1>5 DEF Next

(* The cloud client implements the contract its callers rely on           *)
(* (ClientSpec): gk_curl_easy_init, gk_curl_easy_cleanup, gk_send_request *)
(* and a restart each map to an open, a close, one serving of a pending   *)
(* request or a reset, for any numbers of sessions, requests and handles. *)
THEOREM ClientRefinement == Spec => ClientSpec
<1>1. Init => Client!Init
    BY ClientInit
<1>2. TypeOK /\ [Next]_vars => [Client!Next]_Client!clientVars
    BY ClientStep
<1> QED
    BY <1>1, <1>2, CurlTypeCorrect, PTL DEF Spec, ClientSpec, Client!Spec

=============================================================================
