--------------------------- MODULE RosJointBridge ---------------------------
(***************************************************************************)
(* uam_v5_arm_joint_state_bridge.py: a subscriber thread that stores the   *)
(* joints of the last JointState message, and the main loop that sends one *)
(* named value per turn, in rotation.  No lock protects the snapshot, so   *)
(* the two threads interleave statement by statement.                      *)
(***************************************************************************)
EXTENDS JointLink

VARIABLES
  complete,       \* _joint_state_complete
  latest_stamp,   \* _latest_stamp (0: None)
  values,         \* _joint_positions and _joint_velocities, by joint
  cb,             \* the callback: next statement, stamp of its message, joint
  message_index,  \* _message_index
  spin            \* the turn of the loop: next statement, sample found fresh, time

rosVars == <<complete, latest_stamp, values, cb, message_index, spin>>

RosTypeOK ==
  /\ complete \in BOOLEAN
  /\ latest_stamp \in Time
  /\ values \in [Joints -> Time]
  /\ cb \in [pc : {"idle", "joint", "stamp"}, stamp : Time, joint : Joints]
  /\ message_index \in Keys
  /\ spin \in [pc : {"sleep", "send"}, fresh : Time, time : Time]

RosInit ==
  /\ complete = FALSE
  /\ latest_stamp = 0
  /\ values = [j \in Joints |-> 0]
  /\ cb = [pc |-> "idle", stamp |-> 0, joint |-> 0]
  /\ message_index = 0
  /\ spin = [pc |-> "sleep", fresh |-> 0, time |-> 0]

(* A JointState message that has every required joint, or misses one.      *)
(* Messages carry increasing stamps.                                       *)
CbBegin(hasAll) ==
  /\ cb.pc = "idle"
  /\ cb.stamp < now
  /\ complete' = hasAll
  /\ cb' = [pc |-> IF hasAll THEN "joint" ELSE "idle", stamp |-> now, joint |-> 0]
  /\ UNCHANGED <<latest_stamp, values, message_index, spin>>

(* One joint: the test that its values are finite, and their store.  A     *)
(* value that is not ends the callback, with the snapshot incomplete and   *)
(* the joints before this one already replaced.                            *)
CbJoint(finite) ==
  /\ cb.pc = "joint"
  /\ \/ /\ finite
        /\ values' = [values EXCEPT ![cb.joint] = cb.stamp]
        /\ cb' = IF cb.joint + 1 < REQUIRED
                   THEN [cb EXCEPT !.joint = @ + 1]
                   ELSE [cb EXCEPT !.pc = "stamp", !.joint = 0]
        /\ UNCHANGED complete
     \/ /\ ~finite
        /\ complete' = FALSE
        /\ cb' = [cb EXCEPT !.pc = "idle", !.joint = 0]
        /\ UNCHANGED values
  /\ UNCHANGED <<latest_stamp, message_index, spin>>

CbStamp ==
  /\ cb.pc = "stamp"
  /\ latest_stamp' = cb.stamp
  /\ cb' = [cb EXCEPT !.pc = "idle"]
  /\ UNCHANGED <<complete, values, message_index, spin>>

(* Mutant: the age of the snapshot is not tested.                          *)
JointStateFresh_NoTimeout == complete /\ latest_stamp # 0

JointStateFresh == complete /\ latest_stamp # 0 /\ now - latest_stamp <= JOINT_STATE_TIMEOUT

(* A turn of the loop: the clock and the freshness test.  rate.sleep makes *)
(* it one turn per time unit.  The turn keeps the sample it found fresh.   *)
SpinFresh ==
  /\ spin.pc = "sleep"
  /\ spin.time < now
  /\ spin' = [pc |-> "send", fresh |-> IF JointStateFresh THEN latest_stamp ELSE 0,
              time |-> now]
  /\ UNCHANGED <<complete, latest_stamp, values, cb, message_index>>

(* The entry of the values dictionary for a key: q, dq, or the flag.       *)
ValueOf(key) == IF key = AJVAL THEN spin.fresh ELSE values[key % N]

SpinSend ==
  /\ spin.pc = "send"
  /\ net' = net \cup {[key |-> message_index, sample |-> ValueOf(message_index),
                       sent |-> spin.time]}
  /\ message_index' = (message_index + 1) % (AJVAL + 1)
  /\ spin' = [spin EXCEPT !.pc = "sleep", !.fresh = 0]
  /\ UNCHANGED <<complete, latest_stamp, values, cb>>
=============================================================================
