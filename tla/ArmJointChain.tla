--------------------------- MODULE ArmJointChain ---------------------------
(***************************************************************************)
(* The arm joint link end to end: the ROS bridge script, the MAVLink path  *)
(* (which loses and reorders named values and delays them up to            *)
(* MAX_TRANSIT), PX4's receiver and the arm_joint_bridge module.           *)
(***************************************************************************)
EXTENDS RosJointBridge, ArmJointBridge

vars == <<now, net, rosVars, px4Vars>>

TypeOK ==
  /\ now \in Time
  /\ net \subseteq NamedValue
  /\ RosTypeOK
  /\ Px4TypeOK

Init ==
  /\ now = 1
  /\ net = {}
  /\ RosInit
  /\ Px4Init

JointStateCallback ==
  /\ \/ \E hasAll \in BOOLEAN : CbBegin(hasAll)
     \/ \E finite \in BOOLEAN : CbJoint(finite)
     \/ CbStamp
  /\ UNCHANGED <<now, net, px4Vars>>

Spin ==
  /\ \/ SpinFresh /\ UNCHANGED net
     \/ SpinSend
  /\ UNCHANGED <<now, px4Vars>>

MavlinkReceiver ==
  /\ HandleNamedValue
  /\ UNCHANGED <<now, rosVars>>

BridgeRun ==
  /\ RunUpdate \/ RunDecide \/ RunPublish
  /\ UNCHANGED <<now, net, rosVars>>

(* A full publisher queue, MAVROS or UDP drops a named value.              *)
Lose ==
  /\ \E m \in net : net' = net \ {m}
  /\ UNCHANGED <<now, rosVars, px4Vars>>

(* Time passes while no named value has been on its way for MAX_TRANSIT.   *)
Tick ==
  /\ now < MaxTime
  /\ \A m \in net : now - m.sent < MAX_TRANSIT
  /\ spin.pc = "send" => now - spin.time < MAX_TRANSIT
  /\ now' = now + 1
  /\ UNCHANGED <<net, rosVars, px4Vars>>

Next == JointStateCallback \/ Spin \/ MavlinkReceiver \/ BridgeRun \/ Lose \/ Tick

Spec == Init /\ [][Next]_vars

-----------------------------------------------------------------------------
(* The promise to the controllers: a published message that says valid is  *)
(* at most SourceBound younger than the newest joint state the ROS script  *)
(* has accepted, across the script's timeout, the transit of AJVAL and the *)
(* bridge's FIELD_TIMEOUT.  A dead joint state source cannot be reported   *)
(* valid any longer than that, whatever is lost, delayed or overwritten.   *)
ValidHasLiveSource ==
  joints.valid => joints.timestamp - latest_stamp <= SourceBound

(* fieldFresh subtracts unsigned times: no field the bridge holds is       *)
(* stamped later than the clock it is compared with, whichever thread      *)
(* stamped it and however long it waited, so the difference never wraps.   *)
FieldStampsInThePast == \A k \in Keys : field[k].timestamp <= now

(* Why ValidHasLiveSource holds: at every stage of the link the sample     *)
(* that AJVAL reports fresh has been accepted, and is no older, at the     *)
(* time the stage goes by, than the delays before that stage add up to.    *)
Witnessed(sample, time, age) ==
  sample # 0 => sample <= latest_stamp /\ time - sample <= age

SourceInv == latest_stamp <= cb.stamp /\ cb.stamp <= now
SpinInv ==
  /\ spin.time <= now
  /\ spin.pc = "send" => now - spin.time <= MAX_TRANSIT
  /\ Witnessed(spin.fresh, spin.time, JOINT_STATE_TIMEOUT)
NetInv == \A m \in net :
  /\ m.sent <= now
  /\ now - m.sent <= MAX_TRANSIT
  /\ m.key = AJVAL => Witnessed(m.sample, m.sent, JOINT_STATE_TIMEOUT)
TopicInv == \A m \in topic :
  /\ m.timestamp <= now
  /\ m.key = AJVAL => Witnessed(m.sample, m.timestamp, JOINT_STATE_TIMEOUT + MAX_TRANSIT)
FlagInv ==
  Witnessed(field[AJVAL].sample, field[AJVAL].timestamp, JOINT_STATE_TIMEOUT + MAX_TRANSIT)

LinkInv ==
  /\ TypeOK
  /\ SourceInv
  /\ SpinInv
  /\ NetInv
  /\ TopicInv
  /\ FieldStampsInThePast
  /\ FlagInv
  /\ ValidHasLiveSource

(* The link implements the abstract feed.                                  *)
Feed == INSTANCE JointFeed WITH
          Bound <- SourceBound,
          source <- latest_stamp,
          feed <- joints
FeedImplemented == Feed!FeedSpec

(* "publishes arm_joint_states at 50 Hz with a 200 ms freshness timeout":  *)
(* the joint values of a message published as valid are recent, even when  *)
(* the script's own timeout and the transit are allowed for.               *)
ValidJointsRecent ==
  run = "publish" /\ AllFresh =>
    \A k \in Keys : k % N < REQUIRED => now - field[k].sample <= SourceBound
=============================================================================
