---------------------------- MODULE MaptmProofs ----------------------------
(* Proofs about the MAP-T eligibility model, for every MaxGen. *)
EXTENDS Maptm, TLAPS

Schemes == {"dhcp", "none", EmptyString}

(* StartStop_DHCPv4 leaves a scheme from the column's value set. *)
LEMMA StartStopV4Type ==
    ASSUME NEW s \in Schemes, NEW refresh \in BOOLEAN
    PROVE  StartStopV4(s, refresh) \in Schemes
BY DEF StartStopV4, Schemes

(* maptm_dhcpv6_server_add_option keeps the server's options row uuids. *)
LEMMA ServerOptionType ==
    ASSUME NEW opts \in SUBSET Uuids, NEW uuid \in Uuids \cup {NoUuid},
           NEW add \in BOOLEAN
    PROVE  ServerOption(opts, uuid, add) \in SUBSET Uuids
BY DEF ServerOption

(* The values maptm_callback_Timer leaves behind are of their types. *)
BodyOK(r) ==
    /\ r.mode \in Modes
    /\ r.scheme \in Schemes
    /\ r.running \in BOOLEAN
    /\ r.opts \in SUBSET Uuids

LEMMA TimerBodyType ==
    ASSUME TypeOK, NEW m95 \in BOOLEAN, NEW s \in Schemes, NEW ok \in BOOLEAN
    PROVE  BodyOK(TimerBody(m95, s, ok))
<1>1. StartStopV4(s, TRUE) \in Schemes
    BY StartStopV4Type
<1>2. ServerOption(ServerOption(serverOpts, option23, TRUE), option24, TRUE)
        \in SUBSET Uuids
    BY ServerOptionType DEF TypeOK
<1> QED
    BY <1>1, <1>2 DEF TimerBody, BodyOK, TypeOK, Modes

(* Applying the callback's results sets wait95Option and keeps the types. *)
LEMMA ApplyTimerBodyType ==
    ASSUME NEW r, BodyOK(r), ApplyTimerBody(r)
    PROVE  /\ wait95Option' = TRUE
           /\ mode' \in Modes
           /\ scheme' \in Schemes
           /\ maptRunning' \in BOOLEAN
           /\ serverOpts' \in SUBSET Uuids
BY DEF BodyOK, ApplyTimerBody

(* A row inserted below the generation bound keeps rows typed. *)
LEMMA NewRowType ==
    ASSUME TypeOK, NEW tag \in OptionTags, NEW enable \in BOOLEAN,
           rows[tag].gen < MaxGen
    PROVE  [rows EXCEPT ![tag] = [present |-> TRUE, enable |-> enable,
                                  gen |-> rows[tag].gen + 1]]
             \in [OptionTags -> RowInfo]
<1>1. rows[tag] \in RowInfo
    BY DEF TypeOK
<1>2. [present |-> TRUE, enable |-> enable, gen |-> rows[tag].gen + 1] \in RowInfo
    BY <1>1, GenAssumption DEF RowInfo
<1> QED
    BY <1>2 DEF TypeOK

(* maptm_eligibilityStart resets wait95Option and keeps the types. *)
LEMMA StartEffectsType ==
    ASSUME TypeOK, NEW cfg \in WanConfigs, StartEffects(cfg)
    PROVE  /\ wait95Option' = FALSE
           /\ dhcp6' \in BOOLEAN
           /\ scheme' \in Schemes
           /\ mode' \in Modes
           /\ timerArmed' \in BOOLEAN
           /\ reinitActive' \in BOOLEAN
<1>1. /\ StartStopV4(scheme, FALSE) \in Schemes
      /\ StartStopV4(StartStopV4(scheme, FALSE), TRUE) \in Schemes
    BY StartStopV4Type DEF TypeOK, Schemes
<1>2. CASE (IF cfg % 2 = 0 THEN cfg + 1 ELSE cfg) = 1
    BY <1>1, <1>2 DEF StartEffects, TypeOK, Modes
<1>3. CASE (IF cfg % 2 = 0 THEN cfg + 1 ELSE cfg) # 1
    BY <1>1, <1>3 DEF StartEffects, TypeOK
<1> QED
    BY <1>2, <1>3

(* The inductive invariant: the type, the timer invariant and the recorded *)
(* option uuids.  The two properties are inductive together with TypeOK.  *)
IInv == TypeOK /\ TimerNotAfterCallback /\ RecordedOptionsLive

LEMMA InitIInv == Init => IInv
<1> SUFFICES ASSUME Init PROVE IInv
    OBVIOUS
<1>1. rows \in [OptionTags -> RowInfo]
  <2>1. [present |-> FALSE, enable |-> FALSE, gen |-> 0] \in RowInfo
      BY GenAssumption DEF RowInfo
  <2> QED
      BY <2>1 DEF Init
<1>2. TypeOK
    BY <1>1, Zenon DEF Init, TypeOK, Modes
<1>3. RecordedOptionsLive
    BY DEF Init, RecordedOptionsLive
<1>4. TimerNotAfterCallback
    BY DEF Init, TimerNotAfterCallback
<1> QED
    BY <1>2, <1>3, <1>4 DEF IInv


(* Every step of the event loop preserves IInv. *)
LEMMA NextIInv == IInv /\ [Next]_vars => IInv'
<1> SUFFICES ASSUME IInv, [Next]_vars PROVE IInv'
    OBVIOUS
<1> USE DEF IInv
<1>1. ASSUME NEW cfg \in WanConfigs, EligibilityStart(cfg) PROVE IInv'
  <2>1. /\ wait95Option' = FALSE
        /\ dhcp6' \in BOOLEAN
        /\ scheme' \in Schemes
        /\ mode' \in Modes
        /\ timerArmed' \in BOOLEAN
        /\ reinitActive' \in BOOLEAN
      BY <1>1, StartEffectsType DEF EligibilityStart
  <2> QED
      BY <1>1, <2>1 DEF EligibilityStart, TypeOK, TimerNotAfterCallback,
                        RecordedOptionsLive, UuidOf, Schemes
<1>2. ASSUME EligibilityStop PROVE IInv'
  <2>1. scheme' \in Schemes
      BY <1>2, StartStopV4Type DEF EligibilityStop, TypeOK, Schemes
  <2> QED
      BY <1>2, <2>1 DEF EligibilityStop, TypeOK, TimerNotAfterCallback,
                        RecordedOptionsLive, UuidOf, Schemes
<1>3. ASSUME NEW ok \in BOOLEAN, TimerFire(ok) PROVE IInv'
  <2>1. BodyOK(TimerBody(mapt95, scheme, ok))
      BY TimerBodyType DEF TypeOK, Schemes
  <2>2. /\ wait95Option' = TRUE
        /\ mode' \in Modes
        /\ scheme' \in Schemes
        /\ maptRunning' \in BOOLEAN
        /\ serverOpts' \in SUBSET Uuids
      BY <1>3, <2>1, ApplyTimerBodyType DEF TimerFire
  <2>3. TypeOK'
      BY <1>3, <2>2 DEF TimerFire, TypeOK, Schemes
  <2>4. TimerNotAfterCallback'
      BY <1>3 DEF TimerFire, TimerNotAfterCallback
  <2>5. RecordedOptionsLive'
      BY <1>3 DEF TimerFire, RecordedOptionsLive, UuidOf
  <2> QED
      BY <2>3, <2>4, <2>5
<1>4. ASSUME NEW tag \in OptionTags, NEW enable \in BOOLEAN,
             NEW ok \in BOOLEAN, OptionNew(tag, enable, ok)
      PROVE  IInv'
  <2>1. rows' \in [OptionTags -> RowInfo]
      BY <1>4, NewRowType DEF OptionNew
  <2>2. CASE tag = 95
    <3> DEFINE m95 == IF enable THEN TRUE ELSE mapt95
    <3>1. /\ BodyOK(TimerBody(m95, scheme, ok))
          /\ BodyOK(TimerBody(m95, StartStopV4(scheme, FALSE), ok))
      <4>1. StartStopV4(scheme, FALSE) \in Schemes
          BY StartStopV4Type DEF TypeOK, Schemes
      <4> QED
          BY <4>1, TimerBodyType DEF TypeOK, Schemes
    <3>2. /\ UNCHANGED <<option23, option24, support, linkUp, dhcp6,
                         reinitActive, phase>>
          /\ mapt95' \in BOOLEAN
          /\ rows'[23] = rows[23] /\ rows'[24] = rows[24]
      <4>1. UNCHANGED <<option23, option24, support, linkUp, dhcp6,
                        reinitActive, phase>>
          BY <1>4, <2>2 DEF OptionNew
      <4>2. mapt95' \in BOOLEAN
          BY <1>4, <2>2 DEF OptionNew, TypeOK
      <4>3. rows'[23] = rows[23] /\ rows'[24] = rows[24]
        <5>1. rows \in [OptionTags -> RowInfo]
            BY DEF TypeOK
        <5> QED
            BY <1>4, <2>2, <5>1 DEF OptionNew, OptionTags
      <4> QED
          BY <4>1, <4>2, <4>3
    <3>3. RecordedOptionsLive'
        BY <3>2 DEF RecordedOptionsLive, UuidOf
    <3>4. CASE support /\ ~wait95Option /\ linkUp
      <4>1. /\ wait95Option' = TRUE
            /\ mode' \in Modes
            /\ scheme' \in Schemes
            /\ maptRunning' \in BOOLEAN
            /\ serverOpts' \in SUBSET Uuids
          BY <1>4, <2>2, <3>1, <3>4, ApplyTimerBodyType DEF OptionNew
      <4>2. timerArmed' = FALSE
          BY <1>4, <2>2, <3>4 DEF OptionNew
      <4>3. TypeOK'
          BY <2>1, <3>2, <4>1, <4>2 DEF TypeOK, Schemes
      <4> QED
          BY <3>3, <4>2, <4>3 DEF TimerNotAfterCallback
    <3>5. CASE ~(support /\ ~wait95Option /\ linkUp)
               /\ support /\ linkUp /\ mode = "Dual-Stack"
      <4>1. /\ wait95Option' = TRUE
            /\ mode' \in Modes
            /\ scheme' \in Schemes
            /\ maptRunning' \in BOOLEAN
            /\ serverOpts' \in SUBSET Uuids
          BY <1>4, <2>2, <3>1, <3>5, ApplyTimerBodyType DEF OptionNew
      <4>2. timerArmed' = FALSE
        <5>1. wait95Option
            BY <3>5
        <5>2. timerArmed = FALSE
            BY <5>1 DEF TimerNotAfterCallback
        <5> QED
            BY <1>4, <2>2, <3>5, <5>2 DEF OptionNew
      <4>3. TypeOK'
          BY <2>1, <3>2, <4>1, <4>2 DEF TypeOK, Schemes
      <4> QED
          BY <3>3, <4>2, <4>3 DEF TimerNotAfterCallback
    <3>6. CASE ~(support /\ ~wait95Option /\ linkUp)
               /\ ~(support /\ linkUp /\ mode = "Dual-Stack")
      <4>1. UNCHANGED <<wait95Option, mode, scheme, maptRunning, serverOpts,
                        timerArmed>>
          BY <1>4, <2>2, <3>6 DEF OptionNew
      <4>2. TypeOK'
          BY <2>1, <3>2, <4>1 DEF TypeOK
      <4> QED
          BY <3>3, <4>1, <4>2 DEF TimerNotAfterCallback
    <3> QED
        BY <3>4, <3>5, <3>6
  <2>3. CASE tag # 95
    <3>1. TypeOK'
        BY <1>4, <2>1, <2>3 DEF OptionNew, TypeOK, OptionTags, Uuids, RowInfo
    <3>2. TimerNotAfterCallback'
        BY <1>4, <2>3 DEF OptionNew, TimerNotAfterCallback
    <3>3. RecordedOptionsLive'
        BY <1>4, <2>3 DEF OptionNew, RecordedOptionsLive, UuidOf, TypeOK,
                          NoUuid
    <3> QED
        BY <3>1, <3>2, <3>3
  <2> QED
      BY <2>2, <2>3
<1>5. ASSUME NEW tag \in OptionTags, NEW enable \in BOOLEAN,
             OptionModify(tag, enable)
      PROVE  IInv'
    BY <1>5 DEF OptionModify, TypeOK, RowInfo, TimerNotAfterCallback,
                RecordedOptionsLive, UuidOf
<1>6. ASSUME NEW tag \in OptionTags, OptionDelete(tag) PROVE IInv'
  <2>1. rows' \in [OptionTags -> RowInfo]
      BY <1>6 DEF OptionDelete, TypeOK, RowInfo
  <2>2. CASE tag = 95
    <3>1. serverOpts' \in SUBSET Uuids
      <4>1. ServerOption(ServerOption(serverOpts, option24, FALSE), option23, FALSE)
              \in SUBSET Uuids
          BY ServerOptionType DEF TypeOK
      <4> QED
          BY <1>6, <2>2, <4>1 DEF OptionDelete
    <3>2. /\ UNCHANGED <<option23, option24, support, linkUp, maptRunning,
                         phase>>
          /\ mapt95' = FALSE
          /\ rows'[23] = rows[23] /\ rows'[24] = rows[24]
      <4>1. rows \in [OptionTags -> RowInfo]
          BY DEF TypeOK
      <4> QED
          BY <1>6, <2>2, <4>1 DEF OptionDelete, OptionTags
    <3>3. RecordedOptionsLive'
        BY <3>2 DEF RecordedOptionsLive, UuidOf
    <3>4. CASE mode = "MAP-T" /\ support /\ linkUp
      <4>1. /\ wait95Option' = FALSE
            /\ dhcp6' \in BOOLEAN
            /\ scheme' \in Schemes
            /\ mode' \in Modes
            /\ timerArmed' \in BOOLEAN
            /\ reinitActive' \in BOOLEAN
          BY <1>6, <2>2, <3>4, StartEffectsType DEF OptionDelete, WanConfigs
      <4>2. TypeOK'
          BY <2>1, <3>1, <3>2, <4>1 DEF TypeOK, Schemes
      <4> QED
          BY <3>3, <4>1, <4>2 DEF TimerNotAfterCallback
    <3>5. CASE ~(mode = "MAP-T" /\ support /\ linkUp)
      <4>1. UNCHANGED <<wait95Option, dhcp6, scheme, mode, timerArmed,
                        reinitActive>>
          BY <1>6, <2>2, <3>5 DEF OptionDelete
      <4>2. TypeOK'
          BY <2>1, <3>1, <3>2, <4>1 DEF TypeOK
      <4> QED
          BY <3>3, <4>1, <4>2 DEF TimerNotAfterCallback
    <3> QED
        BY <3>4, <3>5
  <2>3. CASE tag # 95
      BY <1>6, <2>1, <2>3 DEF OptionDelete, TypeOK, TimerNotAfterCallback,
                              RecordedOptionsLive, UuidOf, NoUuid
  <2> QED
      BY <2>2, <2>3
<1>7. ASSUME LinkChange PROVE IInv'
    BY <1>7 DEF LinkChange, TypeOK, TimerNotAfterCallback,
                RecordedOptionsLive, UuidOf
<1>8. CASE UNCHANGED vars
    BY <1>8 DEF vars, TypeOK, TimerNotAfterCallback, RecordedOptionsLive,
                UuidOf
<1> QED
    BY <1>1, <1>2, <1>3, <1>4, <1>5, <1>6, <1>7, <1>8 DEF Next


(* IInv holds in every reachable state of the eligibility machine. *)
THEOREM IInvariant == Spec => []IInv
BY InitIInv, NextIInv, PTL DEF Spec

(* For every MaxGen: once maptm_callback_Timer has run, cs_timer is no    *)
(* longer pending, so the callback never runs twice for one start.       *)
THEOREM TimerCallbackOnce == Spec => []TimerNotAfterCallback
BY IInvariant, PTL DEF IInv

(* For every MaxGen: the option 23/24 uuids that the timer callback adds  *)
(* to the DHCPv6 server always name the live DHCP_Option row of the tag.  *)
THEOREM RecordedOptionsAreLive == Spec => []RecordedOptionsLive
BY IInvariant, PTL DEF IInv

(* For every MaxGen: every variable of the eligibility machine stays in  *)
(* its type.                                                              *)
THEOREM MaptmTypeCorrect == Spec => []TypeOK
BY IInvariant, PTL DEF IInv


-----------------------------------------------------------------------------
(* The one-step formula of ServerGainsLiveOptions. *)
ServerGain ==
    \A u \in serverOpts' \ serverOpts :
        /\ u[1] \in {23, 24}
        /\ rows'[u[1]].present
        /\ u = UuidOf(u[1])'

(* maptm_dhcpv6_server_add_option adds at most the uuid it is given, and   *)
(* only when that uuid is not empty.                                       *)
LEMMA ServerOptionGains ==
    ASSUME NEW opts, NEW uuid, NEW add \in BOOLEAN
    PROVE  ServerOption(opts, uuid, add) \subseteq opts \cup ({uuid} \ {NoUuid})
BY DEF ServerOption

(* A removal never adds an option. *)
LEMMA ServerOptionRemoves ==
    ASSUME NEW opts, NEW uuid
    PROVE  ServerOption(opts, uuid, FALSE) \subseteq opts
BY DEF ServerOption

(* A recorded uuid names the live row of its tag. *)
LEMMA RecordedLive ==
    ASSUME TypeOK, RecordedOptionsLive,
           NEW u \in {option23, option24}, u # NoUuid
    PROVE  /\ u[1] \in {23, 24}
           /\ rows[u[1]].present
           /\ u = UuidOf(u[1])
<1>1. CASE u = option23
    BY <1>1 DEF RecordedOptionsLive, UuidOf
<1>2. CASE u = option24
    BY <1>2 DEF RecordedOptionsLive, UuidOf
<1> QED
    BY <1>1, <1>2

(* When the timer callback's options are installed and the rows of 23    *)
(* and 24 stay as they are, every option gained is a live recorded one.   *)
LEMMA GainFromBody ==
    ASSUME TypeOK, RecordedOptionsLive,
           NEW m95, NEW sc, NEW ok,
           serverOpts' = TimerBody(m95, sc, ok).opts,
           rows'[23] = rows[23], rows'[24] = rows[24]
    PROVE  ServerGain
<1> SUFFICES ASSUME NEW u \in serverOpts' \ serverOpts
             PROVE  /\ u[1] \in {23, 24}
                    /\ rows'[u[1]].present
                    /\ u = UuidOf(u[1])'
    BY DEF ServerGain
<1>1. TimerBody(m95, sc, ok).opts \subseteq
        serverOpts \cup ({option23} \ {NoUuid}) \cup ({option24} \ {NoUuid})
  <2>1. ServerOption(serverOpts, option23, TRUE)
          \subseteq serverOpts \cup ({option23} \ {NoUuid})
      BY ServerOptionGains
  <2>2. ServerOption(ServerOption(serverOpts, option23, TRUE), option24, TRUE)
          \subseteq ServerOption(serverOpts, option23, TRUE) \cup ({option24} \ {NoUuid})
      BY ServerOptionGains
  <2> QED
      BY <2>1, <2>2 DEF TimerBody
<1>2. u \in {option23, option24} /\ u # NoUuid
    BY <1>1
<1>3. /\ u[1] \in {23, 24}
      /\ rows[u[1]].present
      /\ u = UuidOf(u[1])
    BY <1>2, RecordedLive
<1> QED
    BY <1>3 DEF UuidOf

(* Every step gives the DHCPv6 server only live recorded options. *)
LEMMA NextServerGain == IInv /\ [Next]_vars => ServerGain
<1> SUFFICES ASSUME IInv, [Next]_vars PROVE ServerGain
    OBVIOUS
<1> USE DEF IInv
<1>0. CASE serverOpts' \subseteq serverOpts
    BY <1>0 DEF ServerGain
<1>1. ASSUME NEW ok \in BOOLEAN, TimerFire(ok) PROVE ServerGain
    BY <1>1, GainFromBody DEF TimerFire, ApplyTimerBody
<1>2. ASSUME NEW tag \in OptionTags, NEW enable \in BOOLEAN, NEW ok \in BOOLEAN,
             OptionNew(tag, enable, ok)
      PROVE  ServerGain
  <2>1. CASE tag = 95
    <3>1. rows'[23] = rows[23] /\ rows'[24] = rows[24]
        BY <1>2, <2>1 DEF OptionNew, TypeOK
    <3>2. CASE support /\ ~wait95Option /\ linkUp
        BY <1>2, <2>1, <3>1, <3>2, GainFromBody DEF OptionNew, ApplyTimerBody
    <3>3. CASE ~(support /\ ~wait95Option /\ linkUp)
               /\ support /\ linkUp /\ mode = "Dual-Stack"
        BY <1>2, <2>1, <3>1, <3>3, GainFromBody DEF OptionNew, ApplyTimerBody
    <3>4. CASE ~(support /\ ~wait95Option /\ linkUp)
               /\ ~(support /\ linkUp /\ mode = "Dual-Stack")
        BY <1>0, <1>2, <2>1, <3>4 DEF OptionNew
    <3> QED
        BY <3>2, <3>3, <3>4
  <2>2. CASE tag # 95
      BY <1>0, <1>2, <2>2 DEF OptionNew
  <2> QED
      BY <2>1, <2>2
<1>3. ASSUME NEW tag \in OptionTags, OptionDelete(tag) PROVE ServerGain
  <2>1. CASE tag = 95
    <3>1. ServerOption(ServerOption(serverOpts, option24, FALSE), option23, FALSE)
            \subseteq serverOpts
        BY ServerOptionRemoves
    <3> QED
        BY <1>0, <1>3, <2>1, <3>1 DEF OptionDelete
  <2>2. CASE tag # 95
      BY <1>0, <1>3, <2>2 DEF OptionDelete
  <2> QED
      BY <2>1, <2>2
<1>4. CASE \/ \E cfg \in WanConfigs : EligibilityStart(cfg)
           \/ EligibilityStop
           \/ \E tag \in OptionTags, enable \in BOOLEAN : OptionModify(tag, enable)
           \/ LinkChange
           \/ UNCHANGED vars
    BY <1>0, <1>4 DEF EligibilityStart, EligibilityStop, OptionModify,
                      LinkChange, vars
<1> QED
    BY <1>1, <1>2, <1>3, <1>4 DEF Next

(* For every MaxGen: an option the DHCPv6 server gains is always the live *)
(* row of option 23 or 24, so the timer callback and the option 95 NEW     *)
(* handler never hand the server a deleted row's uuid.                    *)
THEOREM ServerOptionsLive == Spec => ServerGainsLiveOptions
<1>1. IInv /\ [Next]_vars => [ServerGain]_vars
    BY NextServerGain
<1> QED
    BY <1>1, IInvariant, PTL DEF Spec, ServerGainsLiveOptions, ServerGain

=============================================================================
