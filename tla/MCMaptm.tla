------------------------------ MODULE MCMaptm ------------------------------
(* Small instance of Maptm: each option tag gets one DHCP_Option row over *)
(* a run, which can be inserted, modified and deleted.                    *)
EXTENDS Maptm

MCMaxGen == 1

(* ip_assign_scheme is an enum column without "", so OVSDB rejects the     *)
(* empty string StartStop_DHCPv4 writes and the scheme is left alone.      *)
MCEmptyWriteApplied == FALSE

=============================================================================
