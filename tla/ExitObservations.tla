-------------------------- MODULE ExitObservations --------------------------
(***************************************************************************)
(* What the Position Monitor promises the execution engine about its       *)
(* observation slots (position_monitor/handoff.py): at most one            *)
(* observation of each kind per position, an EOD one only where no         *)
(* protective one exists, none for a position the consumer reported        *)
(* closed, and none taken back except by the consumer or with the          *)
(* position itself.                                                        *)
(***************************************************************************)
CONSTANTS Positions

VARIABLES
  slot,      \* slot[p][k]: the state of the observation of kind k
  visible,   \* the open positions the monitor last read
  finished   \* positions the consumer reported closed

vars == <<slot, visible, finished>>

Kinds == {"protective", "eod"}
None == "none"
NoSlots == [k \in Kinds |-> None]
States == {None, "pending", "acknowledged", "expired"}

Init ==
  /\ slot \in [Positions -> [Kinds -> States \ {"pending"}]]
  /\ visible = {}
  /\ finished = {}

(* One reading of the positions and of the market: what left the snapshot  *)
(* is forgotten, what is in it may be observed, each position by one kind. *)
Read(p) ==
  \/ slot'[p] = slot[p]
  \/ p \in visible \ visible' /\ slot'[p] = NoSlots
  \/ /\ p \in visible' \ finished
     /\ slot[p]["protective"] = None
     /\ \E k \in Kinds :
          slot[p][k] = None /\ slot'[p] = [slot[p] EXCEPT ![k] = "pending"]

ReadAll ==
  /\ slot' \in [Positions -> [Kinds -> States]]
  /\ visible' \in SUBSET Positions
  /\ finished' = finished \ (visible \ visible')
  /\ \A p \in Positions : Read(p)

Acknowledge(p, k) ==
  /\ slot[p][k] \notin {None, "expired"}
  /\ slot' = [slot EXCEPT ![p][k] = "acknowledged"]
  /\ UNCHANGED <<visible, finished>>

Expire(p) ==
  /\ slot[p]["eod"] = "pending"
  /\ slot' = [slot EXCEPT ![p]["eod"] = "expired"]
  /\ UNCHANGED <<visible, finished>>

Retract(p, k) ==
  /\ slot[p][k] # None
  /\ slot' = [slot EXCEPT ![p][k] = None]
  /\ UNCHANGED <<visible, finished>>

Finish(p) ==
  /\ slot' = [slot EXCEPT ![p] = NoSlots]
  /\ finished' = finished \cup {p}
  /\ UNCHANGED visible

Next ==
  \/ ReadAll
  \/ \E p \in Positions :
       \/ \E k \in Kinds : Acknowledge(p, k) \/ Retract(p, k)
       \/ Expire(p) \/ Finish(p)

Spec == Init /\ [][Next]_vars
=============================================================================
