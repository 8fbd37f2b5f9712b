------------------------------- MODULE Maptm -------------------------------
(***************************************************************************)
(* MAP-T eligibility (src/maptm/src/maptm_eligibility.c).  The manager     *)
(* decides between MAP-T and dual stack on the WAN: it turns the DHCPv4    *)
(* and DHCPv6 clients on and off through OVSDB, arms a 15 s timer, and     *)
(* reacts to the DHCP_Option rows (options 95, 23, 24) that the DHCPv6     *)
(* client writes.  The OVSDB monitor callback, the timer callback and the  *)
(* calls of maptm_eligibilityStart/Stop all run on the one libev loop, so  *)
(* each is one atomic action.                                              *)
(***************************************************************************)
EXTENDS Naturals

CONSTANTS
    MaxGen,           \* DHCP_Option rows a tag may get over a run (uuid supply)
    EmptyWriteApplied \* whether OVSDB stores ip_assign_scheme = "" when written

ASSUME GenAssumption == MaxGen \in Nat \ {0}
ASSUME EmptyWriteAssumption == EmptyWriteApplied \in BOOLEAN

OptionTags == {23, 24, 95}
Uuids == OptionTags \X (1..MaxGen)
NoUuid == <<0, 0>>
(* The empty C string: the zeroed mapt_mode and the zeroed scheme update. *)
EmptyString == ""
Modes == {EmptyString, "MAP-T", "Dual-Stack", "IPv4 Only"}
(* The WanConfig values of maptm.h: eligibility bit 0x10, IPv6 bit 0x01. *)
WanConfigs == {0, 1, 16, 17}

VARIABLES
    wait95Option,  \* wait95Option
    mapt95,        \* strucWanConfig.mapt_95_Option
    mode,          \* strucWanConfig.mapt_mode = Node_State maptMode
    option23,      \* strucWanConfig.option_23 (uuid of the row, or "")
    option24,      \* strucWanConfig.option_24
    support,       \* strucWanConfig.mapt_support (set by the MAP-T config)
    linkUp,        \* strucWanConfig.link_up (set by the WAN link handler)
    rows,          \* DHCP_Option rows per tag: present, enable, generation
    scheme,        \* Wifi_Inet_Config br-wan ip_assign_scheme
    dhcp6,         \* DHCPv6_Client enable
    serverOpts,    \* DHCPv6_Server options (a set of DHCP_Option uuids)
    maptRunning,   \* MAP-T configured by config_mapt, removed by stop_mapt
    timerArmed,    \* cs_timer is active
    reinitActive,  \* ev_timer_init was applied to the active cs_timer
    phase          \* last call of the WAN side: "down", "started", "stopped"

vars == <<wait95Option, mapt95, mode, option23, option24, support, linkUp,
          rows, scheme, dhcp6, serverOpts, maptRunning, timerArmed,
          reinitActive, phase>>

RowInfo == [present : BOOLEAN, enable : BOOLEAN, gen : 0..MaxGen]
UuidOf(tag) == <<tag, rows[tag].gen>>

TypeOK ==
    /\ wait95Option \in BOOLEAN
    /\ mapt95 \in BOOLEAN
    /\ mode \in Modes
    /\ option23 \in Uuids \cup {NoUuid}
    /\ option24 \in Uuids \cup {NoUuid}
    /\ support \in BOOLEAN
    /\ linkUp \in BOOLEAN
    /\ rows \in [OptionTags -> RowInfo]
    /\ scheme \in {"dhcp", "none", EmptyString}
    /\ dhcp6 \in BOOLEAN
    /\ serverOpts \subseteq Uuids
    /\ maptRunning \in BOOLEAN
    /\ timerArmed \in BOOLEAN
    /\ reinitActive \in BOOLEAN
    /\ phase \in {"down", "started", "stopped"}

Init ==
    /\ wait95Option = FALSE
    /\ mapt95 = FALSE
    /\ mode = EmptyString
    /\ option23 = NoUuid
    /\ option24 = NoUuid
    /\ support \in BOOLEAN
    /\ linkUp \in BOOLEAN
    /\ rows = [tag \in OptionTags |-> [present |-> FALSE, enable |-> FALSE, gen |-> 0]]
    /\ scheme \in {"dhcp", "none"}
    /\ dhcp6 \in BOOLEAN
    /\ serverOpts = {}
    /\ maptRunning = FALSE
    /\ timerArmed = FALSE
    /\ reinitActive = FALSE
    /\ phase = "down"

-----------------------------------------------------------------------------
(* StartStop_DHCPv4: the scheme br-wan has after the call, from scheme s.  *)
(* iconf_update is zeroed and ip_assign_scheme_exists is always set, so     *)
(* when the requested state already holds the empty string is written.     *)
StartStopV4(s, refresh) ==
    LET active == s = "dhcp"
        written == IF ~refresh /\ active THEN "none"
                   ELSE IF refresh /\ ~active THEN "dhcp"
                   ELSE EmptyString
    IN  IF written = EmptyString /\ ~EmptyWriteApplied THEN s ELSE written

(* Mutant of ServerOption: the empty-uuid check is dropped. *)
ServerOptionNoEmptyCheck(opts, uuid, add) ==
    IF add THEN opts \cup {uuid} ELSE opts \ {uuid}

(* maptm_dhcpv6_server_add_option: an empty uuid is ignored, otherwise the  *)
(* uuid is inserted into or deleted from the server's options.            *)
ServerOption(opts, uuid, add) ==
    IF uuid = NoUuid THEN opts
    ELSE IF add THEN opts \cup {uuid} ELSE opts \ {uuid}

(* Mutant of TimerBody: the failure branches leave DHCPv4 off. *)
TimerBodyNoDhcp(m95, s, ok) ==
    IF m95 /\ ok
    THEN [mode |-> "MAP-T", scheme |-> s, running |-> TRUE,
          opts |-> ServerOption(ServerOption(serverOpts, option23, TRUE),
                                option24, TRUE)]
    ELSE [mode |-> "Dual-Stack", scheme |-> s,
          running |-> maptRunning, opts |-> serverOpts]

(* maptm_callback_Timer, entered with option 95 flag m95, DHCPv4 scheme s *)
(* and outcome ok of config_mapt: the values it leaves behind.            *)
TimerBody(m95, s, ok) ==
    IF m95 /\ ok
    THEN [mode |-> "MAP-T", scheme |-> s, running |-> TRUE,
          opts |-> ServerOption(ServerOption(serverOpts, option23, TRUE),
                                option24, TRUE)]
    ELSE [mode |-> "Dual-Stack", scheme |-> StartStopV4(s, TRUE),
          running |-> maptRunning, opts |-> serverOpts]

(* What maptm_callback_Timer leaves behind: wait95Option set, and the mode, *)
(* scheme, MAP-T state and server options its branch produced.            *)
ApplyTimerBody(r) ==
    /\ wait95Option' = TRUE
    /\ mode' = r.mode
    /\ scheme' = r.scheme
    /\ maptRunning' = r.running
    /\ serverOpts' = r.opts

(* Mutant of StartEffects: intit_eligibility forgets to reset wait95Option. *)
StartEffectsNoReset(cfg) ==
    LET s1 == StartStopV4(scheme, FALSE)
        c == IF cfg % 2 = 0 THEN cfg + 1 ELSE cfg
    IN  /\ UNCHANGED wait95Option
        /\ dhcp6' = TRUE
        /\ IF c = 1
              THEN /\ mode' = "Dual-Stack"
                   /\ scheme' = StartStopV4(s1, TRUE)
                   /\ UNCHANGED <<timerArmed, reinitActive>>
              ELSE /\ scheme' = s1
                   /\ timerArmed' = TRUE
                   /\ reinitActive' = (reinitActive \/ timerArmed)
                   /\ UNCHANGED mode

(* maptm_eligibilityStart with intit_eligibility: wait95Option is reset,   *)
(* both DHCP clients are stopped, and mapt_EnableIpv6 is forced to true,   *)
(* so the IPv6 bit is always added and only the two IPv6 cases are taken.  *)
(* Dual stack restarts both clients; MAP-T eligibility starts DHCPv6 and   *)
(* (re)initialises and starts cs_timer.                                   *)
StartEffects(cfg) ==
    LET s1 == StartStopV4(scheme, FALSE)
        c == IF cfg % 2 = 0 THEN cfg + 1 ELSE cfg
    IN  /\ wait95Option' = FALSE
        /\ dhcp6' = TRUE
        /\ IF c = 1
              THEN /\ mode' = "Dual-Stack"
                   /\ scheme' = StartStopV4(s1, TRUE)
                   /\ UNCHANGED <<timerArmed, reinitActive>>
              ELSE /\ scheme' = s1
                   /\ timerArmed' = TRUE
                   /\ reinitActive' = (reinitActive \/ timerArmed)
                   /\ UNCHANGED mode

-----------------------------------------------------------------------------
(* The WAN side calls maptm_eligibilityStart(cfg). *)
EligibilityStart(cfg) ==
    /\ StartEffects(cfg)
    /\ phase' = "started"
    /\ UNCHANGED <<mapt95, option23, option24, support, linkUp, rows,
                   serverOpts, maptRunning>>

(* maptm_eligibilityStop: both DHCP clients off, MAP-T stopped if it is    *)
(* the current mode; cs_timer is left as it is.                           *)
EligibilityStop ==
    /\ dhcp6' = FALSE
    /\ scheme' = StartStopV4(scheme, FALSE)
    /\ maptRunning' = IF mode = "MAP-T" THEN FALSE ELSE maptRunning
    /\ phase' = "stopped"
    /\ UNCHANGED <<wait95Option, mapt95, mode, option23, option24, support,
                   linkUp, rows, serverOpts, timerArmed, reinitActive>>

(* cs_timer expires (one shot) and maptm_callback_Timer runs. *)
TimerFire(ok) ==
    /\ timerArmed
    /\ timerArmed' = FALSE
    /\ ApplyTimerBody(TimerBody(mapt95, scheme, ok))
    /\ UNCHANGED <<mapt95, option23, option24, support, linkUp, rows, dhcp6,
                   reinitActive, phase>>

(* The DHCPv6 client inserts a DHCP_Option row; callback_DHCP_Option runs *)
(* with OVSDB_UPDATE_NEW.  Option 95 sets the flag when enabled and, with  *)
(* MAP-T support and the link up, either cuts the wait short (timer        *)
(* stopped, callback run at once) or, once the wait is over and the WAN   *)
(* is in dual stack, stops DHCPv4 and reruns the callback.  Options 23 and *)
(* 24 record their row's uuid when enabled.                               *)
OptionNew(tag, enable, ok) ==
    LET uuid == <<tag, rows[tag].gen + 1>>
        m95 == IF enable THEN TRUE ELSE mapt95
    IN
    /\ dhcp6
    /\ ~rows[tag].present
    /\ rows[tag].gen < MaxGen
    /\ rows' = [rows EXCEPT ![tag] = [present |-> TRUE, enable |-> enable,
                                      gen |-> @.gen + 1]]
    /\ IF tag = 95
          THEN /\ mapt95' = m95
               /\ IF support /\ ~wait95Option /\ linkUp
                     THEN /\ timerArmed' = FALSE
                          /\ ApplyTimerBody(TimerBody(m95, scheme, ok))
                     ELSE IF support /\ linkUp /\ mode = "Dual-Stack"
                     THEN /\ ApplyTimerBody(TimerBody(m95, StartStopV4(scheme, FALSE), ok))
                          /\ UNCHANGED timerArmed
                     ELSE UNCHANGED <<wait95Option, mode, scheme, maptRunning,
                                      serverOpts, timerArmed>>
               /\ UNCHANGED <<option23, option24>>
          ELSE /\ option23' = IF tag = 23 /\ enable THEN uuid ELSE option23
               /\ option24' = IF tag = 24 /\ enable THEN uuid ELSE option24
               /\ UNCHANGED <<mapt95, wait95Option, mode, scheme, maptRunning,
                              serverOpts, timerArmed>>
    /\ UNCHANGED <<support, linkUp, dhcp6, reinitActive, phase>>

(* A column of a DHCP_Option row changes (OVSDB_UPDATE_MODIFY): only       *)
(* option 95 is handled, and only its flag follows the row's enable.      *)
OptionModify(tag, enable) ==
    /\ dhcp6
    /\ rows[tag].present
    /\ rows' = [rows EXCEPT ![tag].enable = enable]
    /\ mapt95' = IF tag = 95 THEN enable ELSE mapt95
    /\ UNCHANGED <<wait95Option, mode, option23, option24, support, linkUp,
                   scheme, dhcp6, serverOpts, maptRunning, timerArmed,
                   reinitActive, phase>>

(* Mutant of OptionDelete: the DEL handler keeps the uuid of option 23. *)
OptionDeleteKeep23(tag) ==
    /\ rows[tag].present
    /\ rows' = [rows EXCEPT ![tag].present = FALSE]
    /\ IF tag = 95
          THEN /\ mapt95' = FALSE
               /\ serverOpts' = ServerOption(ServerOption(serverOpts, option24, FALSE),
                                             option23, FALSE)
               /\ IF mode = "MAP-T" /\ support /\ linkUp
                     THEN StartEffects(17)
                     ELSE UNCHANGED <<wait95Option, dhcp6, scheme, mode,
                                      timerArmed, reinitActive>>
               /\ UNCHANGED <<option23, option24>>
          ELSE /\ option24' = IF tag = 24 THEN NoUuid ELSE option24
               /\ UNCHANGED <<option23, mapt95, serverOpts, wait95Option, dhcp6,
                              scheme, mode, timerArmed, reinitActive>>
    /\ UNCHANGED <<support, linkUp, maptRunning, phase>>

(* A DHCP_Option row is deleted (OVSDB_UPDATE_DEL).  Option 95: the flag   *)
(* is cleared, the state machine restarts in MAP-T mode with support and   *)
(* link, and options 24 and 23 leave the DHCPv6 server.  Options 23/24:   *)
(* the recorded uuid is cleared.                                          *)
OptionDelete(tag) ==
    /\ rows[tag].present
    /\ rows' = [rows EXCEPT ![tag].present = FALSE]
    /\ IF tag = 95
          THEN /\ mapt95' = FALSE
               /\ serverOpts' = ServerOption(ServerOption(serverOpts, option24, FALSE),
                                             option23, FALSE)
               /\ IF mode = "MAP-T" /\ support /\ linkUp
                     THEN StartEffects(17)
                     ELSE UNCHANGED <<wait95Option, dhcp6, scheme, mode,
                                      timerArmed, reinitActive>>
               /\ UNCHANGED <<option23, option24>>
          ELSE /\ option23' = IF tag = 23 THEN NoUuid ELSE option23
               /\ option24' = IF tag = 24 THEN NoUuid ELSE option24
               /\ UNCHANGED <<mapt95, serverOpts, wait95Option, dhcp6, scheme,
                              mode, timerArmed, reinitActive>>
    /\ UNCHANGED <<support, linkUp, maptRunning, phase>>

(* The WAN link handler (outside this file) flips strucWanConfig.link_up. *)
LinkChange ==
    /\ linkUp' = ~linkUp
    /\ UNCHANGED <<wait95Option, mapt95, mode, option23, option24, support,
                   rows, scheme, dhcp6, serverOpts, maptRunning, timerArmed,
                   reinitActive, phase>>

Next ==
    \/ \E cfg \in WanConfigs : EligibilityStart(cfg)
    \/ EligibilityStop
    \/ \E ok \in BOOLEAN : TimerFire(ok)
    \/ \E tag \in OptionTags, enable \in BOOLEAN, ok \in BOOLEAN :
          OptionNew(tag, enable, ok)
    \/ \E tag \in OptionTags, enable \in BOOLEAN : OptionModify(tag, enable)
    \/ \E tag \in OptionTags : OptionDelete(tag)
    \/ LinkChange

(* libev runs an armed timer when it expires. *)
Spec == Init /\ [][Next]_vars /\ WF_vars(\E ok \in BOOLEAN : TimerFire(ok))

-----------------------------------------------------------------------------
(* Once maptm_callback_Timer has run for a start (wait95Option set), cs_timer *)
(* is no longer pending: an option 95 arriving during the wait stops the    *)
(* timer before running the callback itself, and the Dual-Stack re-run only *)
(* happens after the wait, so the callback never runs twice for one start.  *)
TimerNotAfterCallback == timerArmed => ~wait95Option

(* The option 23/24 uuids kept in strucWanConfig, which the timer callback   *)
(* adds to the DHCPv6 server, always name the live DHCP_Option row of their  *)
(* tag: the DEL handler forgets them and a NEW row replaces them.           *)
RecordedOptionsLive ==
    \A tag \in {23, 24} :
        LET rec == IF tag = 23 THEN option23 ELSE option24
        IN  rec # NoUuid => rows[tag].present /\ rec = UuidOf(tag)


(* Every option the DHCPv6 server gains in a step is option 23 or 24 and   *)
(* names the DHCP_Option row of its tag that is live after the step: the   *)
(* timer callback and the option 95 NEW handler hand the server only the   *)
(* uuids strucWanConfig kept, which the DEL handler must have forgotten.   *)
ServerGainsLiveOptions ==
    [][\A u \in serverOpts' \ serverOpts :
           /\ u[1] \in {23, 24}
           /\ rows'[u[1]].present
           /\ u = UuidOf(u[1])']_vars

(* MAP-T is configured (config_mapt succeeded and stop_mapt has not run     *)
(* since) only while Node_State maptMode says MAP-T.  The comment of the     *)
(* option 95 DEL handler promises a restart of the state machine, and       *)
(* maptm_eligibilityStop pairs the mode with stop_mapt.                      *)
MaptOnlyInMaptMode == maptRunning => mode = "MAP-T"

(* Every time cs_timer is armed, the WAN eventually gets an IPv4 path: the   *)
(* timer callback either configures MAP-T or turns DHCPv4 back on.          *)
IPv4Provided == timerArmed ~> (scheme = "dhcp" \/ maptRunning)

=============================================================================
