---------------------------- MODULE ExposeService ---------------------------
(***************************************************************************)
(* What the control plane promises its clients: a port of the host stands  *)
(* for at most one endpoint, from the moment it is exposed, for UDP and    *)
(* TCP at once, to the moment it is taken back.  Exposures do not survive  *)
(* the daemon.                                                             *)
(***************************************************************************)

CONSTANTS HostPorts,     \* the ports the service hands out
          Targets        \* the endpoints a client may ask to expose

VARIABLE exposures       \* the exposures in force: records [port, target]

Init == exposures = {}

Expose(port, target) ==
  /\ \A e \in exposures : e.port # port
  /\ exposures' = exposures \cup {[port |-> port, target |-> target]}

Unexpose(e) ==
  /\ e \in exposures
  /\ exposures' = exposures \ {e}

Reset == exposures' = {}

Next ==
  \/ \E port \in HostPorts, target \in Targets : Expose(port, target)
  \/ \E e \in exposures : Unexpose(e)
  \/ Reset

Spec == Init /\ [][Next]_exposures
=============================================================================
