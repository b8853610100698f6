--------------------------- MODULE MCDeliveryStore ---------------------------
(***************************************************************************)
(* Small instances of DeliveryStore for TLC.                               *)
(***************************************************************************)
EXTENDS DeliveryStore

MCFourDomains    == {Commands, Tasks, Durations, Selected}
MCCommandDomains == {Commands, Durations}
=============================================================================
