------------------------ MODULE MCLicenseLifecycle ------------------------
(* LicenseLifecycle for TLC: requests are interchangeable, and a history   *)
(* tells the behaviours in which they come one at a time.                  *)
EXTENDS LicenseLifecycle, TLC

VARIABLE apart   \* history: no two requests were under way at a time

Symmetry == Permutations(Requests)

MCVars == <<vars, apart>>

MCInit == Init /\ apart = TRUE

MCNext ==
    /\ Next
    /\ apart' = (apart /\ \A r, s \in Requests :
                             req'[r].pc # "idle" /\ req'[s].pc # "idle" => r = s)

MCSpec == MCInit /\ [][MCNext]_MCVars
-----------------------------------------------------------------------------
\* Of requests that come one at a time, none makes a deactivated activation
\* active again (UpdateLastSeen and TrackMachine are to change the last-seen time
\* and nothing else), and only an administrator's status update brings a revoked
\* licence back (a renewal changes the expiry date and nothing else).  A heartbeat
\* in flight during a deactivation, and a renewal in flight during a revocation,
\* do undo it.
EndingsAreFinal == [][apart' => KeepsDeactivations /\ KeepsRevocations]_MCVars
===========================================================================
