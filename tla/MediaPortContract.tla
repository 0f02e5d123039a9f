-------------------------- MODULE MediaPortContract --------------------------
(***************************************************************************)
(* What the bridge promises pjsip about the memory of a call's media port. *)
(* The conference bridge's clock thread calls into a port from the moment  *)
(* it is added until its REMOVE_PORT operation has completed, so a port    *)
(* may be destroyed only before the one or with the other                  *)
(* (media_port.rs:126-131, callbacks.rs:389-418).  How the setup task, the *)
(* main loop and the callbacks agree on who does that is left open.        *)
(***************************************************************************)
CONSTANT Ports

VARIABLE status  \* "none", "created", "attached", "removing" or "destroyed"

Init == status = [p \in Ports |-> "none"]

Becomes(p, from, to) ==
    /\ status[p] = from
    /\ status' = [status EXCEPT ![p] = to]

Create(p)   == Becomes(p, "none", "created")
Attach(p)   == Becomes(p, "created", "attached")
Remove(p)   == Becomes(p, "attached", "removing")
Complete(p) == Becomes(p, "removing", "destroyed")
Discard(p)  == Becomes(p, "created", "destroyed")

Next == \E p \in Ports :
          Create(p) \/ Attach(p) \/ Remove(p) \/ Complete(p) \/ Discard(p)

Spec == Init /\ [][Next]_status
=============================================================================
