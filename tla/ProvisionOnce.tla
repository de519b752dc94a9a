---------------------------- MODULE ProvisionOnce ----------------------------
(***************************************************************************)
(* What the request workflow promises about cloud resources, with no       *)
(* sessions, locks or statuses: a request is open until one handler claims *)
(* it; a claim may launch one creation call at the cloud; a creation       *)
(* either delivers VMs that the portal knows, or is lost.  Nothing goes    *)
(* back: a request is launched at most once in its whole life.             *)
(***************************************************************************)

CONSTANT Requests

VARIABLE phase   \* phase[r]: how far request r has got

Phases == {"open", "claimed", "launched", "delivered", "closed"}

PhaseOK == phase \in [Requests -> Phases]

Init == phase = [r \in Requests |-> "open"]

\* A handler takes an open request for itself.
Claim(r) ==
    /\ phase[r] = "open"
    /\ phase' = [phase EXCEPT ![r] = "claimed"]

\* The claiming handler calls the cloud.
Launch(r) ==
    /\ phase[r] = "claimed"
    /\ phase' = [phase EXCEPT ![r] = "launched"]

\* The VMs of the launched call are recorded in the portal's database.
Deliver(r) ==
    /\ phase[r] = "launched"
    /\ phase' = [phase EXCEPT ![r] = "delivered"]

\* Requests that will get no VMs from the portal: an open one is turned down,
\* or the work on some of them is lost (a failure, or a restart of the server,
\* which loses all of it at once).
Close(S) ==
    /\ \A r \in S : phase[r] \in {"open", "claimed", "launched"}
    /\ phase' = [r \in Requests |-> IF r \in S THEN "closed" ELSE phase[r]]

Next ==
    \/ \E r \in Requests : Claim(r) \/ Launch(r) \/ Deliver(r)
    \/ \E S \in SUBSET Requests : Close(S)

Spec == Init /\ [][Next]_phase

=============================================================================
