---------------------------- MODULE MCScheduler ----------------------------
(* Small instances of Scheduler for TLC. *)
EXTENDS Scheduler, TLC

Draft(kind, at, enabled) ==
    [trigger |-> [kind |-> kind, at |-> at], enabled |-> enabled]

\* A once trigger sent paused, and a cron trigger whose time has passed, due at once.
TwoDrafts == {Draft("once", "later", FALSE), Draft("cron", "due", TRUE)}
OneDraft  == {Draft("interval", "later", TRUE)}
=============================================================================
