---------------------------- MODULE MCFusionHost ----------------------------
(* Bounds for checking FusionHost with TLC. *)
EXTENDS FusionHost, TLC

CONSTANTS u1, u2, u3, u4, u5

\* No caller reuses a key for another action, and the owner stays online.
MCLogged == [u \in Update |-> "logged"]

\* u1 and u2 reuse the key of an earlier event.
MCSilent == [u \in Update |-> IF u \in {u1, u2} THEN "silent" ELSE "logged"]

\* u1 is the owner going offline.
MCOffline == [u \in Update |-> IF u = u1 THEN "offline" ELSE "logged"]

\* One update of each kind, and a second logged one.
MCMixed == [u \in Update |-> CASE u = u1 -> "offline" [] u = u2 -> "online"
                               [] u = u3 -> "silent" [] OTHER -> "logged"]
=============================================================================
