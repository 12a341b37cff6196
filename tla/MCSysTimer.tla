----------------------------- MODULE MCSysTimer -----------------------------
(***************************************************************************)
(* Two names, one of which may be registered more than once; seconds of    *)
(* two ticks, so that timers are added between seconds, and a wheel of two *)
(* seconds, so that a call may miss it.                                    *)
(***************************************************************************)
EXTENDS SysTimer

MCKeys     == {"save", "#rank"}
MCHash     == {"#rank"}
MCStarts   == {1}
MCEndTimes == {0, 1}
MCLoops    == {0, 1}
MCDelays   == {1, 2}
=============================================================================
