------------------------------ MODULE EkfReset ------------------------------
(***************************************************************************)
(* What a position reset of the estimator does to the target of the        *)
(* position loop: the estimator publishes vehicle_local_position with      *)
(* reset counters; on its publication the flight mode manager and the      *)
(* position loop are put on their FIFO work queue, the former not every    *)
(* time because its subscription has an interval.  Whoever makes           *)
(* trajectory setpoints, and the position loop on the one it holds, has    *)
(* its own way to follow the reset.                                        *)
(*                                                                         *)
(* A position is abstracted to its frame: the number of resets it has been *)
(* through.  Of the timestamps only the order is kept.                     *)
(***************************************************************************)
EXTENDS Naturals, Sequences, Functions

CONSTANTS
  MaxPositionResets, \* position resets of the estimator
  Modes              \* modes flown: of {"task", "offboard", "other"}

ASSUME ResetAssumption ==
  /\ MaxPositionResets \in Nat
  /\ Modes \subseteq {"task", "offboard", "other"}

VARIABLES
  preempts,  \* the thread of the work queue pre-empts the estimator: never changes
  lpos,      \* frame of the vehicle_local_position last published
  traj,      \* the trajectory_setpoint last published: see SetpointType
  pos_queue, \* the work queue
  mode,      \* who makes setpoints; no position control in "other"
  pos        \* the position loop: [counter, sp, on], its counters, _setpoint and
             \* whether its last run followed it

resetVars == <<preempts, lpos, traj, pos_queue, mode, pos>>

(* Its frame, whether it is older than the local position published, and   *)
(* whether it is from a flight task that has been in charge ever since.    *)
SetpointType ==
  [frame : 0 .. MaxPositionResets + 1, older : BOOLEAN, from : {"none", "task", "others"}]

ResetTypeOK ==
  /\ preempts \in BOOLEAN
  /\ lpos \in 0 .. MaxPositionResets
  /\ traj \in [sp : SetpointType, unread : BOOLEAN]
  /\ pos_queue \in Seq({"task", "pos"}) /\ Len(pos_queue) <= 2 /\ IsInjective(pos_queue)
  /\ mode \in Modes
  /\ pos \in [counter : 0 .. MaxPositionResets, sp : SetpointType, on : BOOLEAN]

ResetInit ==
  /\ preempts \in BOOLEAN
  /\ lpos = 0
  /\ traj = [sp |-> [frame |-> 0, older |-> TRUE, from |-> "none"], unread |-> FALSE]
  /\ pos_queue = <<>>
  /\ mode \in Modes
  /\ pos = [counter |-> 0, sp |-> traj.sp, on |-> FALSE]

-----------------------------------------------------------------------------
(* An item already on the queue is not put there again.                    *)
Enqueue(q, item) == IF item \in Range(q) THEN q ELSE Append(q, item)

Aged(sp) == [sp EXCEPT !.older = TRUE]

(* A filter update, with or without a reset, which does not happen before  *)
(* the position loop has seen the last one.  The callbacks run in the      *)
(* order of their registration, so the manager's comes first or second.    *)
PublishPosition ==
  /\ preempts => pos_queue = <<>>
  /\ \/ lpos' = lpos
     \/ lpos < MaxPositionResets /\ pos.counter = lpos /\ lpos' = lpos + 1
  /\ \/ pos_queue' = Enqueue(pos_queue, "pos")
     \/ pos_queue' = Enqueue(Enqueue(pos_queue, "task"), "pos")
     \/ pos_queue' = Enqueue(Enqueue(pos_queue, "pos"), "task")
  /\ traj' = [traj EXCEPT !.sp = Aged(@)]
  /\ pos' = [pos EXCEPT !.sp = Aged(@)]
  /\ UNCHANGED <<preempts, mode>>

PublishSetpoint(frame, maker) ==
  traj' = [sp |-> [frame |-> frame, older |-> FALSE, from |-> maker], unread |-> TRUE]

(* The flight mode manager: the flight task makes its setpoint from the    *)
(* latest local position, having followed the reset on its own.            *)
TaskRun ==
  /\ pos_queue # <<>> /\ Head(pos_queue) = "task"
  /\ pos_queue' = Tail(pos_queue)
  /\ IF mode = "task" THEN PublishSetpoint(lpos, "task") ELSE UNCHANGED traj
  /\ UNCHANGED <<preempts, lpos, mode, pos>>

(* The MAVLink receiver in Offboard, in a thread of its own.  The nodes of *)
(* the experiments repeat coordinates they chose at the start.             *)
OffboardSetpoint ==
  /\ mode = "offboard"
  /\ PublishSetpoint(0, "others")
  /\ UNCHANGED <<preempts, lpos, pos_queue, mode, pos>>

-----------------------------------------------------------------------------
(* Mutant: a setpoint is shifted whenever a counter changes.               *)
Shifted_Always(sp) ==
  IF pos.counter # lpos THEN [sp EXCEPT !.frame = @ + 1] ELSE sp

(* A setpoint older than the local position is shifted when a counter has  *)
(* changed.                                                                *)
Shifted(sp) ==
  IF sp.older /\ pos.counter # lpos THEN [sp EXCEPT !.frame = @ + 1] ELSE sp

(* Mutant: a new setpoint is ignored once it is older than the position.   *)
PositionLoopRun_IgnoresOlder ==
  /\ pos_queue # <<>> /\ Head(pos_queue) = "pos"
  /\ pos_queue' = Tail(pos_queue)
  /\ IF mode # "other"
       THEN /\ pos' = [counter |-> lpos, on |-> TRUE,
                       sp |-> Shifted(IF traj.unread /\ ~traj.sp.older THEN traj.sp ELSE pos.sp)]
            /\ traj' = [traj EXCEPT !.unread = FALSE]
       ELSE /\ pos' = [pos EXCEPT !.counter = lpos, !.on = FALSE]
            /\ UNCHANGED traj
  /\ UNCHANGED <<preempts, lpos, mode>>

(* The position loop takes a new setpoint and shifts the one it has.  The  *)
(* counters are saved in every mode.                                       *)
PositionLoopRun ==
  /\ pos_queue # <<>> /\ Head(pos_queue) = "pos"
  /\ pos_queue' = Tail(pos_queue)
  /\ IF mode # "other"
       THEN /\ pos' = [counter |-> lpos, on |-> TRUE,
                       sp |-> Shifted(IF traj.unread THEN traj.sp ELSE pos.sp)]
            /\ traj' = [traj EXCEPT !.unread = FALSE]
       ELSE /\ pos' = [pos EXCEPT !.counter = lpos, !.on = FALSE]
            /\ UNCHANGED traj
  /\ UNCHANGED <<preempts, lpos, mode>>

Superseded(sp) == [sp EXCEPT !.from = IF @ = "task" THEN "others" ELSE @]

(* The commander.                                                          *)
ChangeMode ==
  /\ mode' \in Modes \ {mode}
  /\ traj' = [traj EXCEPT !.sp = Superseded(@)]
  /\ pos' = [pos EXCEPT !.sp = Superseded(@)]
  /\ UNCHANGED <<preempts, lpos, pos_queue>>

ResetNext ==
  \/ PublishPosition
  \/ TaskRun
  \/ OffboardSetpoint
  \/ PositionLoopRun
  \/ ChangeMode

(* The estimator is driven by the sensors and the work queue by it.  The   *)
(* interval of the manager's subscription lets it run again and again.     *)
ResetFairness ==
  /\ WF_resetVars(PublishPosition)
  /\ WF_resetVars(PositionLoopRun)
  /\ WF_resetVars(TaskRun)
  /\ SF_resetVars(PublishPosition /\ "task" \in Range(pos_queue'))

ResetSpec == ResetInit /\ [][ResetNext]_resetVars /\ ResetFairness

-----------------------------------------------------------------------------
(* However late the loops run, a setpoint made in the current mode has     *)
(* been through all resets the loop knows of: none is missed because the   *)
(* setpoint seemed newer than the local position.  And where the work      *)
(* queue pre-empts the estimator through none besides: a reset is applied  *)
(* once, by the task or by the loop.                                       *)
TargetHeld ==
  pos.sp.from = "task" =>
    pos.sp.frame >= pos.counter /\ (preempts => pos.sp.frame = pos.counter)

(* If a flight task stays in charge, the position loop ends up following a *)
(* setpoint in the frame of the local position.                            *)
TargetRecovers == <>[](mode = "task") => <>[](pos.sp.frame = pos.counter)

(* The comment on the EKF reset says that the target is shifted with the   *)
(* frame and the vehicle does not dash because the frame has changed.      *)
(* A loop that comes back to position control follows the setpoint it had, *)
(* whose resets it has acknowledged but not applied.                       *)
TargetNeverStale == pos.on /\ pos.sp.from # "none" => pos.sp.frame >= pos.counter

(* In Offboard the shift of a setpoint lasts until the next one, which     *)
(* undoes it.                                                              *)
ShiftNotUndone ==
  [][mode = "offboard" /\ pos.sp.from = "others" => pos'.sp.frame >= pos.sp.frame]_resetVars
=============================================================================
