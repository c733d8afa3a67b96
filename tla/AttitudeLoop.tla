---------------------------- MODULE AttitudeLoop ----------------------------
(***************************************************************************)
(* What a heading reset of the estimator does to the attitude loop.        *)
(*                                                                         *)
(* The estimator runs in a thread of its own.  It publishes the attitude   *)
(* first and only then runs its filter, which may reset the heading, and   *)
(* publishes the local position.  Each publication puts the loop that      *)
(* listens to it on one FIFO work queue, where the position loop and       *)
(* ESOMulticopterAttitudeControl::Run take turns.                          *)
(*                                                                         *)
(* A heading is abstracted to its frame: the number of heading resets it   *)
(* has been through.  Of the timestamps only the order is kept.            *)
(***************************************************************************)
EXTENDS Integers, Sequences, FiniteSets, Functions

CONSTANTS
  MaxResets  \* heading resets of the estimator

ASSUME AttitudeAssumption == MaxResets \in Nat

VARIABLES
  ekf,      \* [frame, phase]: the estimator and what it does next
  topic,    \* frames of the attitude, the position and the setpoint published
  stamp,    \* order of the attitude, the setpoint and _last_attitude_setpoint
  queue,    \* the work queue
  vehicle,  \* [mode, armed, landed]: the control mode and the land detector
  att,      \* the attitude loop: see AttType
  hist      \* history: [calm, derived], see HistType

vars == <<ekf, topic, stamp, queue, vehicle, att, hist>>

Frames == 0 .. MaxResets + 1

(* "stick" is Stabilized, where the attitude loop makes its own setpoints; *)
(* "position" is any mode in which the position loop does; "rates" is Acro.*)
Vehicles == [mode : {"stick", "position", "rates"}, armed : BOOLEAN, landed : BOOLEAN]

(* _quat_reset_counter, the frame of _man_yaw_sp, that of the setpoint in  *)
(* use, _reset_yaw_sp, _was_armed, _was_run_att_ctrl, _omega_r_prev_valid. *)
AttType ==
  [counter : Frames, man : Frames, applied : Frames, reset_yaw : BOOLEAN,
   was_armed : BOOLEAN, was_run : BOOLEAN, prev_valid : BOOLEAN]

(* Whether the last run of the loop was an armed one that controlled the   *)
(* attitude, and whether it differentiated the rates of two such runs      *)
(* ("yes"), of others ("spike"), or not at all.                            *)
HistType == [calm : BOOLEAN, derived : {"no", "yes", "spike"}]

TypeOK ==
  /\ ekf \in [frame : 0 .. MaxResets, phase : {"attitude", "filter"}]
  /\ topic \in [attitude : Frames, position : Frames, setpoint : Frames]
  /\ stamp \in [attitude : 0 .. 3, setpoint : 0 .. 3, last : 0 .. 3]
  /\ queue \in Seq({"att", "pos"}) /\ Len(queue) <= 2 /\ IsInjective(queue)
  /\ vehicle \in Vehicles
  /\ att \in AttType
  /\ hist \in HistType

Init ==
  /\ ekf = [frame |-> 0, phase |-> "attitude"]
  /\ topic = [attitude |-> 0, position |-> 0, setpoint |-> 0]
  /\ stamp = [attitude |-> 0, setpoint |-> 0, last |-> 0]
  /\ queue = <<>>
  /\ vehicle \in {v \in Vehicles : ~v.armed /\ v.landed}
  /\ att = [counter |-> 0, man |-> 0, applied |-> 0, reset_yaw |-> TRUE,
            was_armed |-> FALSE, was_run |-> FALSE, prev_valid |-> FALSE]
  /\ hist = [calm |-> FALSE, derived |-> "no"]

-----------------------------------------------------------------------------
(* The timestamps s renumbered from 0 in the same order.                   *)
Renumbered(s) ==
  [f \in DOMAIN s |-> Cardinality({s[g] : g \in {h \in DOMAIN s : s[h] < s[f]}})]

(* The timestamps once those of the fields fs are taken from the clock.    *)
StampedNow(s, fs) == Renumbered([f \in DOMAIN s |-> IF f \in fs THEN 4 ELSE s[f]])

(* An item already on the queue is not put there again.                    *)
ScheduleNow(q, item) == IF item \in Range(q) THEN q ELSE Append(q, item)

PublishAttitude ==
  /\ ekf.phase = "attitude"
  /\ ekf' = [ekf EXCEPT !.phase = "filter"]
  /\ topic' = [topic EXCEPT !.attitude = ekf.frame]
  /\ stamp' = StampedNow(stamp, {"attitude"})
  /\ queue' = ScheduleNow(queue, "att")
  /\ UNCHANGED <<vehicle, att, hist>>

(* The filter is not due with every sample.  When it runs it may reset the *)
(* heading, though not before the loops know of the previous reset.        *)
FilterIdle ==
  /\ ekf.phase = "filter"
  /\ ekf' = [ekf EXCEPT !.phase = "attitude"]
  /\ UNCHANGED <<topic, stamp, queue, vehicle, att, hist>>

PublishLocalPosition ==
  /\ ekf.phase = "filter"
  /\ \E reset \in BOOLEAN :
       /\ reset => ekf.frame < MaxResets /\ att.counter = ekf.frame
       /\ ekf' = [frame |-> ekf.frame + (IF reset THEN 1 ELSE 0), phase |-> "attitude"]
       /\ topic' = [topic EXCEPT !.position = ekf'.frame]
  /\ queue' = ScheduleNow(queue, "pos")
  /\ UNCHANGED <<stamp, vehicle, att, hist>>

-----------------------------------------------------------------------------
(* The position loop: an attitude setpoint in the frame of the position.   *)
PositionRun ==
  /\ queue # <<>> /\ Head(queue) = "pos"
  /\ queue' = Tail(queue)
  /\ IF vehicle.mode = "position"
       THEN /\ topic' = [topic EXCEPT !.setpoint = topic.position]
            /\ stamp' = StampedNow(stamp, {"setpoint"})
       ELSE UNCHANGED <<topic, stamp>>
  /\ UNCHANGED <<ekf, vehicle, att, hist>>

-----------------------------------------------------------------------------
(* Mutant: a setpoint is taken over if it is newer than the attitude.      *)
NewSetpoint_NewerThanAttitude(a) ==
  IF stamp.setpoint > stamp.attitude THEN [a EXCEPT !.applied = topic.setpoint] ELSE a

(* A setpoint is taken over if it is newer than the one in use.            *)
NewSetpoint(a) ==
  IF stamp.setpoint > stamp.last THEN [a EXCEPT !.applied = topic.setpoint] ELSE a

(* Mutant: the heading of the stick is turned together with the setpoint.  *)
HeadingReset_Together(a, accepted) ==
  IF a.counter = topic.attitude THEN a
  ELSE [a EXCEPT !.man = @ + (IF stamp.attitude > accepted THEN 1 ELSE 0),
                 !.applied = @ + (IF stamp.attitude > accepted THEN 1 ELSE 0),
                 !.counter = topic.attitude]

(* Mutant: a setpoint older than the attitude is turned in every run.      *)
HeadingReset_EveryRun(a, accepted) ==
  [a EXCEPT !.man = @ + (IF a.counter = topic.attitude THEN 0 ELSE 1),
            !.applied = @ + (IF stamp.attitude > accepted THEN 1 ELSE 0),
            !.counter = topic.attitude]

(* Both headings are turned when the attitude comes with a new counter,    *)
(* that of the setpoint unless it was made after the attitude.             *)
HeadingReset(a, accepted) ==
  IF a.counter = topic.attitude THEN a
  ELSE [a EXCEPT !.man = @ + 1,
                 !.applied = @ + (IF stamp.attitude > accepted THEN 1 ELSE 0),
                 !.counter = topic.attitude]

(* Mutant: arming does not reset the derivative.                           *)
DerivativeReset_NotOnArming(a, run) ==
  IF ~vehicle.armed \/ a.was_run # run
    THEN [a EXCEPT !.prev_valid = FALSE] ELSE a

(* The derivative starts afresh while disarmed, on arming, and when        *)
(* attitude control goes on or off.                                        *)
DerivativeReset(a, run) ==
  IF ~vehicle.armed \/ (~a.was_armed /\ vehicle.armed) \/ a.was_run # run
    THEN [a EXCEPT !.prev_valid = FALSE] ELSE a

(* generate_attitude_setpoint: the heading of the stick, which starts from *)
(* the current one.                                                        *)
Generated(a) ==
  LET man == IF a.reset_yaw THEN topic.attitude ELSE a.man
  IN  [a EXCEPT !.man = man, !.applied = man]

AttitudeRun ==
  /\ queue # <<>> /\ Head(queue) = "att"
  /\ queue' = Tail(queue)
  /\ LET accepted == IF stamp.setpoint > stamp.last THEN stamp.setpoint ELSE stamp.last
         run == vehicle.mode # "rates"
         stick == vehicle.mode = "stick"
         ready == DerivativeReset(HeadingReset(NewSetpoint(att), accepted), run)
         done == IF stick THEN Generated(ready) ELSE ready
     IN  /\ att' = [done EXCEPT !.reset_yaw = ~stick \/ vehicle.landed,
                                !.was_armed = vehicle.armed, !.was_run = run,
                                !.prev_valid = ready.prev_valid \/ run]
         /\ topic' = IF stick THEN [topic EXCEPT !.setpoint = done.applied] ELSE topic
         /\ stamp' = IF stick THEN StampedNow(stamp, {"setpoint", "last"})
                     ELSE Renumbered([stamp EXCEPT !.last = accepted])
         /\ hist' = [calm |-> vehicle.armed /\ run,
                     derived |-> IF ~(run /\ ready.prev_valid) THEN "no"
                                 ELSE IF hist.calm /\ vehicle.armed THEN "yes" ELSE "spike"]
  /\ UNCHANGED <<ekf, vehicle>>

(* The commander and the land detector.                                    *)
Commander ==
  /\ vehicle' \in Vehicles \ {vehicle}
  /\ UNCHANGED <<ekf, topic, stamp, queue, att, hist>>

Next ==
  \/ PublishAttitude
  \/ FilterIdle
  \/ PublishLocalPosition
  \/ PositionRun
  \/ AttitudeRun
  \/ Commander

(* The estimator is driven by the sensors and its filter runs once a delay *)
(* of samples is full; the thread of the work queue runs what is on it.    *)
Fairness ==
  /\ WF_vars(PublishAttitude)
  /\ WF_vars(FilterIdle \/ PublishLocalPosition)
  /\ SF_vars(PublishLocalPosition)
  /\ WF_vars(PositionRun \/ AttitudeRun)

Spec == Init /\ [][Next]_vars /\ Fairness

-----------------------------------------------------------------------------
(* Inductive strengthening.  The loop is at most one reset behind the      *)
(* estimator; a setpoint that it has not taken over was made since it ran  *)
(* last; one that is newer than an attitude with a new counter was made    *)
(* from a position after the reset; and the loop remembers how it ran.     *)
FrameInv ==
  /\ att.counter <= topic.attitude /\ topic.attitude <= ekf.frame
  /\ topic.position = ekf.frame /\ ekf.frame <= att.counter + 1
  /\ att.man = att.counter
  /\ stamp.setpoint > stamp.last => topic.setpoint \in {att.counter, att.counter + 1}
  /\ topic.attitude # att.counter =>
       /\ stamp.last < stamp.attitude
       /\ stamp.setpoint >= stamp.attitude => topic.setpoint = att.counter + 1
  /\ hist.calm = (att.was_armed /\ att.was_run)

-----------------------------------------------------------------------------
(* The heading that the stick holds is in the frame of the attitude the    *)
(* loop last ran on, however late the loop runs and whichever messages it  *)
(* misses, unless it is going to be taken from the attitude anyway.        *)
HeadingHeld == ~att.reset_yaw => att.man = att.counter

(* A setpoint in use has been turned by every heading reset the attitude   *)
(* has: one the estimator publishes through vehicle_attitude is never      *)
(* missed because the setpoint seemed newer.  And by at most one more: a   *)
(* setpoint that the position loop made after a reset is turned by it a    *)
(* second time, never by an earlier one again, however the loops and the   *)
(* resets interleave.                                                      *)
ResetWithinOne == att.applied \in {att.counter, att.counter + 1}

(* _omega_r_dot compares the rates of two consecutive armed runs of the    *)
(* loop, never those before and after arming or a change of the mode.      *)
DerivativeContinuous == hist.derived # "spike"

(* With the position loop in charge the setpoint in use ends up in the     *)
(* frame of the attitude, once the estimator resets its heading no more.   *)
SettlesInFrame == <>[](vehicle.mode = "position") => <>[](att.applied = att.counter)

(* adaptAttitudeSetpoint is there "to avoid glitches when attitude         *)
(* estimate reference e.g. heading changes": the setpoint in use is in the *)
(* frame of the attitude.  The loop turns a setpoint that the position     *)
(* loop has already turned: the reset reaches the position loop first, and *)
(* its setpoint is older than the attitude that brings the reset.          *)
NoHeadingGlitch == att.was_run => att.applied = att.counter
=============================================================================
