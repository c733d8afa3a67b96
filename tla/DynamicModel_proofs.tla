------------------------ MODULE DynamicModel_proofs ------------------------
(***************************************************************************)
(* Proofs about the controllers' choice of a model, for any bound of the   *)
(* feed, any timeout and any backup period.                                *)
(***************************************************************************)
EXTENDS DynamicModel, TLAPS

(* The feed: what the link has promised of the last message.               *)
FeedInv ==
  /\ source <= now
  /\ feed.timestamp <= now
  /\ feed.valid => feed.timestamp - source <= Bound

(* The position controller runs in time, so it reads a message at most a   *)
(* backup period after it was published.                                   *)
RanInv ==
  /\ ran <= now
  /\ now - ran <= RUN_BACKUP
  /\ Readable("pos") => ran <= feed.timestamp

(* What a computed centre of mass rests on.                                *)
DynInv ==
  /\ dyn.at <= ran
  /\ dyn.valid => dyn.at - source <= Bound + RUN_BACKUP
  /\ model["pos"] # Static => dyn.valid /\ ran - dyn.at <= DYNAMIC_COM_TIMEOUT

ModelInv == TypeOK /\ FeedInv /\ RanInv /\ DynInv /\ InvalidFeedDropped

(* The steps that are not the position controller's.                       *)
LEMMA OtherStep ==
  ASSUME ModelInv,
         \/ \E c \in Controllers : ModelRun(c)
         \/ ParameterUpdate \/ StartStopBridge \/ FeedPublish \/ FeedAccept \/ TimePasses
  PROVE  ModelInv'
PROOF
<1> USE FeedAssumption, ModelAssumption DEF ModelInv, TypeOK, FeedTypeOK, FeedInv, RanInv, DynInv,
        InvalidFeedDropped, Static, Readable, feedVars, ownVars
<1>1. ASSUME NEW c \in Controllers, ModelRun(c) PROVE ModelInv'
  BY <1>1 DEF ModelRun, Done, Configured, Controllers
<1>2. CASE ParameterUpdate
  BY <1>2 DEF ParameterUpdate
<1>3. CASE StartStopBridge
  BY <1>3 DEF StartStopBridge
<1>4. CASE FeedPublish
  BY <1>4 DEF FeedPublish, Publish, Controllers
<1>5. CASE FeedAccept
  BY <1>5 DEF FeedAccept, Accept
<1>6. CASE TimePasses
  BY <1>6 DEF TimePasses, Tick
<1> QED
  BY <1>1, <1>2, <1>3, <1>4, <1>5, <1>6

(* The position controller's run.                                          *)
LEMMA PosStep ==
  ASSUME ModelInv, NEW finite \in BOOLEAN, PosRun(finite)
  PROVE  ModelInv'
PROOF
<1> USE FeedAssumption, ModelAssumption DEF ModelInv, TypeOK, FeedTypeOK, FeedInv, RanInv, DynInv,
        Static, feedVars
<1>1. /\ UNCHANGED <<now, source, feed, bridge>>
      /\ unread' \subseteq unread /\ unread \subseteq unread' \cup {"pos"}
      /\ Readable("pos") \/ unread' = unread
      /\ params' = params \ {"pos"} /\ ran' = now /\ ~Readable("pos")'
  BY DEF PosRun, Done, Readable
<1>2. CASE Readable("pos") /\ ~feed.valid
  <2>1. /\ dyn' = [dyn EXCEPT !.valid = FALSE]
        /\ model' = [model EXCEPT !["pos"] = Static]
    BY <1>2 DEF PosRun
  <2>2. /\ dyn' \in [valid : BOOLEAN, at : Nat] /\ ~dyn'.valid /\ dyn'.at = dyn.at
        /\ model' \in [Controllers -> Nat] /\ model'["pos"] = Static
        /\ \A c \in Controllers \ {"pos"} : model'[c] = model[c]
    BY <2>1 DEF Controllers
  <2>3. InvalidFeedDropped'
    BY <1>1, <2>2 DEF InvalidFeedDropped
  <2> QED
    BY <1>1, <2>2, <2>3
<1>3. CASE Readable("pos") /\ feed.valid /\ finite
  <2>1. /\ dyn' = [valid |-> TRUE, at |-> now]
        /\ model' = [model EXCEPT !["pos"] = feed.timestamp]
    BY <1>3 DEF PosRun
  <2> QED
    BY <1>1, <1>3, <2>1 DEF InvalidFeedDropped, Controllers
<1>4. CASE Readable("pos") => feed.valid /\ ~finite
  <2>1. /\ dyn' = dyn
        /\ model' = [model EXCEPT !["pos"] =
              IF DynamicComFresh THEN Configured("pos") ELSE Static]
    BY <1>4 DEF PosRun
  <2>2. (IF DynamicComFresh THEN Configured("pos") ELSE Static) \in Nat
    BY DEF Configured, Controllers
  <2>3. model' \in [Controllers -> Nat] /\ \A c \in Controllers \ {"pos"} : model'[c] = model[c]
    BY <2>1, <2>2
  <2>4. model'["pos"] # Static => DynamicComFresh /\ model["pos"] # Static
    BY <2>1 DEF Configured, Controllers
  <2>5. RanInv' /\ DynInv'
    BY <1>1, <2>1, <2>3, <2>4 DEF DynamicComFresh
  <2>6. InvalidFeedDropped'
    BY <1>1, <1>4, <2>3, <2>4 DEF InvalidFeedDropped, Controllers
  <2> QED
    BY <1>1, <2>1, <2>3, <2>5, <2>6
<1> QED
  BY <1>2, <1>3, <1>4

(* ModelInv is inductive.                                                  *)
THEOREM ModelInvariant == Spec => []ModelInv
PROOF
<1>1. Init => ModelInv
  BY FeedAssumption, ModelAssumption
     DEF Init, FeedInit, ModelInv, TypeOK, FeedTypeOK, FeedInv, RanInv, DynInv, InvalidFeedDropped,
         Static, Readable, Controllers
<1>2. ModelInv /\ [Next]_vars => ModelInv'
  <2> SUFFICES ASSUME ModelInv, [Next]_vars PROVE ModelInv'
    OBVIOUS
  <2>1. CASE UNCHANGED vars
    BY <2>1 DEF vars, feedVars, ownVars, ModelInv, TypeOK, FeedTypeOK, FeedInv, RanInv, DynInv,
                InvalidFeedDropped, Readable
  <2> QED
    BY <2>1, OtherStep, PosStep DEF Next
<1> QED
  BY <1>1, <1>2, PTL DEF Spec

(* Type correctness of the controllers' state.                             *)
THEOREM ModelTypeCorrect == Spec => []TypeOK
PROOF
<1>1. ModelInv => TypeOK
  BY DEF ModelInv
<1> QED
  BY <1>1, ModelInvariant, PTL

(* The end-to-end age of a computed centre of mass, for every bound.       *)
THEOREM ComSourceTheorem == Spec => []ComHasLiveSource
PROOF
<1>1. ModelInv => ComHasLiveSource
  BY FeedAssumption, ModelAssumption
     DEF ModelInv, TypeOK, FeedTypeOK, FeedInv, RanInv, DynInv, ComHasLiveSource
<1> QED
  BY <1>1, ModelInvariant, PTL

(* An invalid message, once taken, leaves no controller on its old model.  *)
THEOREM InvalidFeedTheorem == Spec => []InvalidFeedDropped
PROOF
<1>1. ModelInv => InvalidFeedDropped
  BY DEF ModelInv
<1> QED
  BY <1>1, ModelInvariant, PTL

(* The attitude and rate controllers, which have no timeout, are never on  *)
(* the model of a message that a later one has replaced and they have read.*)
THEOREM ModelCurrentTheorem == Spec => []ModelIsCurrent
PROOF
<1> USE DEF ModelIsCurrent, Static
<1>1. Init => ModelIsCurrent
  BY DEF Init, Controllers
<1>2. TypeOK /\ ModelIsCurrent /\ [Next]_vars => ModelIsCurrent'
  <2> SUFFICES ASSUME TypeOK, ModelIsCurrent, [Next]_vars PROVE ModelIsCurrent'
    OBVIOUS
  <2> USE DEF TypeOK, Controllers
  <2>1. ASSUME NEW c \in Controllers, ModelRun(c) PROVE ModelIsCurrent'
    BY <2>1 DEF ModelRun, Done, Configured, feedVars
  <2>2. ASSUME NEW finite \in BOOLEAN, PosRun(finite) PROVE ModelIsCurrent'
    <3>1. \A c \in {"att", "rate"} : model'[c] = model[c]
      BY <2>2 DEF PosRun
    <3> QED
      BY <2>2, <3>1 DEF PosRun, Done, feedVars
  <2>3. CASE ParameterUpdate
    BY <2>3 DEF ParameterUpdate, feedVars
  <2>4. CASE StartStopBridge
    BY <2>4 DEF StartStopBridge, feedVars
  <2>5. CASE FeedPublish
    BY <2>5 DEF FeedPublish
  <2>6. CASE FeedAccept
    BY <2>6 DEF FeedAccept, Accept, ownVars
  <2>7. CASE TimePasses
    BY <2>7 DEF TimePasses, Tick, ownVars
  <2>8. CASE UNCHANGED vars
    BY <2>8 DEF vars, feedVars, ownVars
  <2> QED
    BY <2>1, <2>2, <2>3, <2>4, <2>5, <2>6, <2>7, <2>8 DEF Next
<1> QED
  BY <1>1, <1>2, ModelTypeCorrect, PTL DEF Spec

=============================================================================
