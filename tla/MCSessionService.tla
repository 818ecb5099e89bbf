-------------------------- MODULE MCSessionService --------------------------
(* Instances of SessionService for TLC. *)
EXTENDS SessionService, TLC

CONSTANTS pi, claude

Bounds(w, st, cb, stop, m, sw, any) ==
    [window |-> w, steer |-> st, callback |-> cb, stop |-> stop, mode |-> m, switch |-> sw,
     any |-> any]

\* Two messages of the window, and any two of the other things.
MCTurns == Bounds(2, 1, 1, 1, 1, 1, 4)

\* A message of the window and a steering text.
MCMeeting == Bounds(1, 1, 0, 0, 0, 0, 2)
=============================================================================
