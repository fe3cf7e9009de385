--------------------------- MODULE ClientLifecycle ---------------------------
(* What a RemoteClient (src/remote/client.ts) promises the code that shows   *)
(* its status: the four values of ConnectionStatus and the steps between     *)
(* them.  RemoteConnection implements it; InstanceManager relies on it.      *)

VARIABLE status     \* ConnectionStatus

ConnectionStatus == {"disconnected", "connecting", "connected", "reconnecting"}

Init == status = "disconnected"

Connect     == status = "disconnected" /\ status' = "connecting"
Established == status = "connecting"   /\ status' = "connected"
Refused     == status = "connecting"   /\ status' = "disconnected"
Lost        == status = "connected"    /\ status' = "reconnecting"
Recovered   == status = "reconnecting" /\ status' = "connected"
GaveUp      == status = "reconnecting" /\ status' = "disconnected"
Disconnect  == status' = "disconnected"

\* The steps the client takes by itself.
OwnStep == Established \/ Refused \/ Lost \/ Recovered \/ GaveUp

Next == Connect \/ OwnStep \/ Disconnect

\* An attempt to connect and the retries after a loss both come to an end.
Fairness ==
    /\ WF_status(Established \/ Refused)
    /\ WF_status(Recovered \/ GaveUp)

Steps == Init /\ [][Next]_status

Spec == Steps /\ Fairness
=============================================================================
