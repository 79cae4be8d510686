---------------------------- MODULE CyclePromise ----------------------------
(***************************************************************************)
(* What etherbone.h promises of a cycle (the comments on eb_cycle_open,    *)
(* eb_cycle_abort and eb_device_close), without queues, packets, answers   *)
(* or timeouts: a cycle that is closed gets exactly one call of its        *)
(* callback, one that is aborted gets none, no two callbacks run at once,  *)
(* and a device does not go away before all that was promised for it.      *)
(***************************************************************************)
CONSTANTS Cycle, Device, None

VARIABLES
  dev,      \* the device each cycle is for
  stage,    \* unused, open, closed, called, over or aborted
  device,   \* open, closing or gone
  running   \* the cycle whose callback is running

vars == <<dev, stage, device, running>>

Init ==
  /\ dev \in [Cycle -> Device]
  /\ stage = [c \in Cycle |-> "unused"]
  /\ device = [d \in Device |-> "open"]
  /\ running = None

Of(d) == {c \in Cycle : dev[c] = d}

Moves(c, from, to) ==
  /\ stage[c] = from
  /\ stage' = [stage EXCEPT ![c] = to]

Open(c) ==
  /\ device[dev[c]] = "open"
  /\ Moves(c, "unused", "open")
  /\ UNCHANGED <<dev, device, running>>

Close(c) ==
  /\ device[dev[c]] = "open"
  /\ Moves(c, "open", "closed")
  /\ UNCHANGED <<dev, device, running>>

Abort(c) ==
  /\ device[dev[c]] = "open"
  /\ Moves(c, "open", "aborted")
  /\ UNCHANGED <<dev, device, running>>

\* The callback is called while the device it is given still exists
Call(c) ==
  /\ device[dev[c]] # "gone"
  /\ running = None
  /\ running' = c
  /\ Moves(c, "closed", "called")
  /\ UNCHANGED <<dev, device>>

Return(c) ==
  /\ running = c
  /\ running' = None
  /\ Moves(c, "called", "over")
  /\ UNCHANGED <<dev, device>>

\* eb_device_close is refused while cycles are open ...
BeginClose(d) ==
  /\ device[d] = "open"
  /\ \A c \in Of(d) : stage[c] # "open"
  /\ device' = [device EXCEPT ![d] = "closing"]
  /\ UNCHANGED <<dev, stage, running>>

\* ... and returns when all callbacks have been called and have returned
EndClose(d) ==
  /\ device[d] = "closing"
  /\ \A c \in Of(d) : stage[c] \in {"unused", "over", "aborted"}
  /\ device' = [device EXCEPT ![d] = "gone"]
  /\ UNCHANGED <<dev, stage, running>>

Next ==
  \/ \E c \in Cycle : Open(c) \/ Close(c) \/ Abort(c) \/ Call(c) \/ Return(c)
  \/ \E d \in Device : BeginClose(d) \/ EndClose(d)

Spec == Init /\ [][Next]_vars

=============================================================================
