---------------------------- MODULE MCAutomation ----------------------------
(* Schedules for checking Automation with TLC. *)
EXTENDS Automation

Plan(kind, wps) == [kind |-> kind, wps |-> wps]
MCInterval == {Plan("interval", FALSE)}
MCPlans == {Plan("interval", FALSE), Plan("calendar", FALSE), Plan("calendar", TRUE), Plan("once", FALSE)}
=============================================================================
