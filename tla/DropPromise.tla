----------------------------- MODULE DropPromise -----------------------------
(***************************************************************************)
(* What the core module promises whoever calls it about the drops it is    *)
(* asked for, with no threads, no slot and no tombstones: a request key    *)
(* starts at most one drop, and only while no other runs; a drop ends      *)
(* once, and is cancelled only if it was asked to stop; its result is let  *)
(* go of only after it has one.                                            *)
(***************************************************************************)
CONSTANT Key

VARIABLES
  status,  \* what has become of the drop of each request key
  listed   \* the keys whose drop can still be asked about

Terminal == {"succeeded", "failed", "cancelled", "outcome_unknown"}
Running  == {k \in Key : status[k] \in {"running", "stopping"}}

Init ==
  /\ status = [k \in Key |-> "none"]
  /\ listed = {}

Start(k) ==
  /\ status[k] = "none"
  /\ Running = {}
  /\ status' = [status EXCEPT ![k] = "running"]
  /\ listed' = listed \cup {k}

\* A cancel, or a shutdown.
Stop(k) ==
  /\ status[k] = "running"
  /\ status' = [status EXCEPT ![k] = "stopping"]
  /\ UNCHANGED listed

End(k) ==
  /\ status[k] \in {"running", "stopping"}
  /\ \E outcome \in Terminal :
       /\ outcome = "cancelled" => status[k] = "stopping"
       /\ status' = [status EXCEPT ![k] = outcome]
  /\ UNCHANGED listed

Release(k) ==
  /\ k \in listed
  /\ status[k] \in Terminal
  /\ listed' = listed \ {k}
  /\ UNCHANGED status

Next == \E k \in Key : Start(k) \/ Stop(k) \/ End(k) \/ Release(k)

Spec == Init /\ [][Next]_<<status, listed>>

=============================================================================
