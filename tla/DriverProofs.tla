---------------------------- MODULE DriverProofs ----------------------------
(***************************************************************************)
(* Type correctness and the two safety properties of the driver control    *)
(* server, for any set of sessions and any numbers of frames.              *)
(***************************************************************************)
EXTENDS DriverControl, FiniteSetTheorems, TLAPS

-----------------------------------------------------------------------------
(***************************************************************************)
(* The invariant.  Up to Apart it holds whatever the two threads do;       *)
(* Apart says what a stop and a request leave behind that did not overlap. *)
(***************************************************************************)
\* The phase bounds the status, which both threads write.
StatusFits ==
    /\ driver = "init" => status = phase
    /\ driver \in {"clear", "reset", "halted", "advance"} =>
          \/ status = HaltedIn[phase]
          \/ driver = "advance" /\ status = phase
          \/ phase = "LateDeviceInit" /\ status \in {"Running", "Paused"}
    /\ phase = "Done" => status \in {"Running", "Paused"}

\* A request is that of a connected session that has not been answered.
RequestIsOwn ==
    msg.pc # "idle" => msg.s \in Sessions /\ sess[msg.s] = "receive"

\* A pause is made of a driver past its last halt.
PauseIsLate ==
    msg.pc = "clear" => phase \in {"LateDeviceInit", "Done"} /\ driver # "init"

\* The status a step has seen is at most one phase behind.
SeenIsRecent ==
    msg.pc = "step" =>
        /\ msg.seen \in Statuses
        /\ msg.seen \in {"HaltedPostDeviceInit", "Running", "Paused"} =>
              phase \in {"LateDeviceInit", "Done"} /\ driver # "init"
        /\ msg.seen = "HaltedOnPlatformInit" =>
              \/ phase = "PlatformInit" /\ driver # "init"
              \/ phase = "EarlyDeviceInit" /\ driver = "init"
        /\ msg.seen = "HaltedOnDeviceInit" =>
              \/ phase = "EarlyDeviceInit" /\ driver # "init"
              \/ phase = "LateDeviceInit" /\ driver = "init"

Stopped == {"Paused", "HaltedPostDeviceInit"}
Quiet == msg.pc \in {"idle", "step"}

Apart ==
    ~overlap =>
        /\ DriverIsStopping => Quiet /\ status = IF driver = "pause" THEN "Paused" ELSE HaltedIn[phase]
        /\ status \in Stopped /\ Quiet /\ driver \notin {"clear", "pause"} => ~event
        /\ msg.pc \in {"signal", "stepSignal"} => status \notin Stopped
        /\ status = "Running" /\ Waiting => msg.pc # "clear" /\ (Quiet => event)
        /\ initStep /\ driver = "halted" /\ msg.pc # "stepSignal" => event
        /\ initStep => phase # "Done" /\ (phase = "LateDeviceInit" => driver \in {"init", "clear", "reset"})

IInv == TypeOK /\ StatusFits /\ RequestIsOwn /\ PauseIsLate /\ SeenIsRecent /\ Apart

-----------------------------------------------------------------------------
Drivers == {"init", "clear", "reset", "halted", "advance", "frame", "pause", "check", "paused"}

\* TypeOK without the sessions.
Scalars ==
    /\ status \in Statuses
    /\ event \in BOOLEAN /\ initStep \in BOOLEAN /\ initClient \in BOOLEAN
    /\ counter \in Nat
    /\ phase \in Phases \cup {"Done"}
    /\ driver \in Drivers
    /\ driver \in {"frame", "pause", "check", "paused"} <=> phase = "Done"
    /\ msg.pc \in {"idle", "clear", "signal", "step", "stepSignal"}

Connected == {s \in Sessions : sess[s] # "down"}
Counted == sess \in [Sessions -> {"down", "receive", "step", "send"}] /\ numSessions = Cardinality(Connected)

LEMMA TypeParts == TypeOK <=> Scalars /\ Counted
BY DEF TypeOK, Scalars, Counted, Connected, Drivers

LEMMA Tables ==
    /\ HaltedIn["PlatformInit"] = "HaltedOnPlatformInit" /\ After["PlatformInit"] = "EarlyDeviceInit"
    /\ HaltedIn["EarlyDeviceInit"] = "HaltedOnDeviceInit" /\ After["EarlyDeviceInit"] = "LateDeviceInit"
    /\ HaltedIn["LateDeviceInit"] = "HaltedPostDeviceInit" /\ After["LateDeviceInit"] = "Running"
    /\ Halted = {"HaltedOnPlatformInit", "HaltedOnDeviceInit", "HaltedPostDeviceInit"}
BY DEF HaltedIn, After, Phases, Halted

(***************************************************************************)
(* The count of the sessions.                                              *)
(***************************************************************************)
LEMMA ConnectedIsFinite == IsFiniteSet(Connected) /\ Cardinality(Connected) \in Nat
BY DriverAssumption, FS_Subset, FS_CardinalityType DEF Connected

LEMMA CountKept == Counted /\ UNCHANGED <<sess, numSessions>> => Counted'
BY DEF Counted, Connected

LEMMA AnswerKeepsCount ==
    ASSUME Counted, NEW s \in Sessions, sess[s] # "down", NEW x \in {"receive", "step", "send"},
           sess' = [sess EXCEPT ![s] = x], UNCHANGED numSessions
    PROVE  Counted'
<1>1. Connected' = Connected
  BY DEF Counted, Connected
<1> QED BY <1>1 DEF Counted

LEMMA EstablishedIsCounted ==
    ASSUME Counted, NEW s \in Sessions, SessionEstablished(s)
    PROVE  Counted'
<1>1. Connected' = Connected \cup {s} /\ s \notin Connected
  BY DEF Counted, Connected, SessionEstablished
<1>2. Cardinality(Connected') = Cardinality(Connected) + 1
  BY <1>1, ConnectedIsFinite, FS_AddElement
<1> QED BY <1>2 DEF Counted, SessionEstablished

LEMMA TerminatedIsCounted ==
    ASSUME Counted, NEW s \in Sessions, SessionTerminated(s)
    PROVE  Counted'
<1>1. Connected' = Connected \ {s} /\ s \in Connected
  BY DEF Counted, Connected, SessionTerminated
<1>2. Cardinality(Connected') = Cardinality(Connected) - 1
  BY <1>1, ConnectedIsFinite, FS_RemoveElement
<1> QED BY <1>2 DEF Counted, SessionTerminated

-----------------------------------------------------------------------------
LEMMA InitInv == Init => IInv
<1> SUFFICES ASSUME Init PROVE IInv
  OBVIOUS
<1>1. Scalars
  BY DEF Init, Scalars, Drivers, Statuses, Phases, NoRequest
<1>2. Counted
  <2>1. Connected = {}
    BY DEF Init, Connected
  <2> QED BY <2>1, FS_EmptySet DEF Init, Counted
<1>3. StatusFits /\ RequestIsOwn /\ PauseIsLate /\ SeenIsRecent
  BY DEF Init, StatusFits, RequestIsOwn, PauseIsLate, SeenIsRecent, NoRequest
<1>4. Apart
  BY DEF Init, Apart, DriverIsStopping, Waiting, NoRequest, Stopped, Quiet
<1> QED BY <1>1, <1>2, <1>3, <1>4, TypeParts DEF IInv

(***************************************************************************)
(* The steps of the driver thread.                                         *)
(***************************************************************************)
Parts == Scalars /\ StatusFits /\ PauseIsLate /\ SeenIsRecent /\ Apart

LEMMA InvParts ==
    /\ IInv <=> Parts /\ Counted /\ RequestIsOwn
    /\ IInv' <=> Parts' /\ Counted' /\ RequestIsOwn'
BY DEF IInv, Parts, TypeOK, Scalars, Counted, Connected, Drivers

LEMMA DriverSteps ==
    ASSUME IInv, DriverStep
    PROVE  IInv'
<1>1. Parts /\ Counted /\ RequestIsOwn
  BY InvParts
<1>2. UNCHANGED <<sess, numSessions, msg>>
  BY DEF DriverStep, AdvanceDriverInitState, ClearEvent, ResetStepRequest, Resumed, WaitTimesOut,
         NextPhase, CountFrame, CheckPaused
<1>3. Counted' /\ RequestIsOwn'
  BY <1>1, <1>2, CountKept DEF RequestIsOwn
<1> USE Tables DEF Parts, Scalars, Drivers, Statuses, Phases, StatusFits, PauseIsLate, SeenIsRecent,
                   Apart, DriverIsStopping, Waiting, Stopped, Quiet, RequestIsMade, Overlaps, Unlocked
<1>4. Parts'
  <2>1. CASE AdvanceDriverInitState
    <3> USE <1>1, <2>1 DEF AdvanceDriverInitState, DiscoverHaltRequests
    <3>1. CASE driver' = "clear"
      OBVIOUS
    <3>2. CASE driver' = "advance"
      <4>1. UNCHANGED <<status, overlap>> /\ ~initStep
        BY <3>2
      <4>2. Scalars' /\ StatusFits' /\ PauseIsLate' /\ SeenIsRecent'
        BY <3>2, <4>1
      <4>3. Apart'
        BY <3>2, <4>1
      <4> QED BY <4>2, <4>3
    <3>3. driver' \in {"clear", "advance"}
      OBVIOUS
    <3> HIDE DEF Parts
    <3> QED BY <3>1, <3>2, <3>3
  <2>2. CASE ClearEvent
    <3> USE <1>1, <2>2 DEF ClearEvent
    <3>1. Scalars' /\ StatusFits' /\ PauseIsLate' /\ SeenIsRecent'
      BY ZenonT(40)
    <3>2. CASE driver = "clear"
      <4>1. Apart'
        BY <3>2
      <4> QED BY <3>1, <4>1
    <3>3. CASE driver = "pause"
      <4>1. Apart'
        BY <3>3
      <4> QED BY <3>1, <4>1
    <3> HIDE DEF Parts
    <3> QED BY <3>2, <3>3
  <2>3. CASE ResetStepRequest
    BY <1>1, <2>3 DEF ResetStepRequest
  <2>4. CASE Resumed
    BY <1>1, <2>4 DEF Resumed
  <2>5. CASE WaitTimesOut
    BY <1>1, <2>5 DEF WaitTimesOut
  <2>6. CASE NextPhase
    <3>1. CASE phase = "LateDeviceInit"
      BY <1>1, <2>6, <3>1 DEF NextPhase
    <3>2. CASE phase = "EarlyDeviceInit"
      BY <1>1, <2>6, <3>2 DEF NextPhase
    <3>3. CASE phase = "PlatformInit"
      BY <1>1, <2>6, <3>3 DEF NextPhase
    <3> QED BY <1>1, <2>6, <3>1, <3>2, <3>3 DEF NextPhase
  <2>7. CASE CountFrame
    <3> USE <1>1, <2>7 DEF CountFrame
    <3>1. phase = "Done" /\ counter' \in Nat /\ UNCHANGED <<event, initStep, initClient, phase, msg>>
      OBVIOUS
    <3>2. CASE counter = 1
      <4>1. ~overlap' => ~overlap /\ ~RequestIsMade
        BY <3>2
      <4>2. status' = "Paused" /\ driver' = "pause" /\ driver = "frame" /\ Unlocked
        BY <3>2
      <4>3. Scalars' /\ StatusFits' /\ PauseIsLate' /\ SeenIsRecent'
        BY <3>1, <4>2
      <4>4. Apart'
        BY <3>1, <4>1, <4>2
      <4> QED BY <4>3, <4>4
    <3>3. CASE counter # 1
      BY <3>1, <3>3
    <3> QED BY <3>2, <3>3
  <2>8. CASE CheckPaused
    BY <1>1, <2>8 DEF CheckPaused
  <2> QED BY <2>1, <2>2, <2>3, <2>4, <2>5, <2>6, <2>7, <2>8 DEF DriverStep
<1> QED BY <1>3, <1>4, InvParts

(***************************************************************************)
(* The steps of the message thread.  None of them moves the driver.        *)
(***************************************************************************)
LEMMA RequestSteps ==
    ASSUME IInv, InsideRequest
    PROVE  IInv'
<1>1. Parts /\ Counted /\ RequestIsOwn
  BY InvParts
<1>2. UNCHANGED <<driverVars, numSessions>>
  BY DEF InsideRequest, SetEvent, StepDriver, SignalStep
<1>3. msg.pc # "idle" /\ msg.s \in Sessions /\ sess[msg.s] = "receive"
  BY <1>1 DEF InsideRequest, SetEvent, StepDriver, SignalStep, RequestIsOwn
<1>4. Counted' /\ RequestIsOwn'
  <2>1. CASE sess' = sess /\ msg' = InRequest("stepSignal", msg.s)
    <3>1. RequestIsOwn'
      BY <1>3, <2>1 DEF RequestIsOwn, InRequest
    <3> QED BY <1>1, <1>2, <2>1, <3>1, CountKept
  <2>2. CASE msg' = NoRequest /\ \E x \in {"step", "send"} : sess' = [sess EXCEPT ![msg.s] = x]
    <3>1. RequestIsOwn'
      BY <2>2 DEF RequestIsOwn, NoRequest
    <3>2. Counted'
      BY <1>1, <1>2, <1>3, <2>2, AnswerKeepsCount
    <3> QED BY <3>1, <3>2
  <2> QED BY <2>1, <2>2 DEF InsideRequest, SetEvent, StepDriver, SignalStep, Answers
<1> USE Tables, <1>1, <1>2, DriverAssumption
        DEF Parts, Scalars, Drivers, Statuses, Phases, StatusFits, PauseIsLate, SeenIsRecent,
            Apart, DriverIsStopping, Waiting, Stopped, Quiet, Overlaps, driverVars, InRequest, NoRequest
<1>5. ASSUME SetEvent PROVE Parts'
  <2> USE <1>5 DEF SetEvent
  <2>1. ~overlap' => ~overlap /\ ~DriverIsStopping
    OBVIOUS
  <2>2. msg'.pc = "idle" /\ UNCHANGED <<status, counter, initStep>> /\ event' \in BOOLEAN
    OBVIOUS
  <2>3. Scalars' /\ StatusFits' /\ PauseIsLate' /\ SeenIsRecent'
    BY <2>2
  <2>4. Apart'
    <3>1. CASE msg.pc = "signal"
      <4>1. event'
        BY <3>1
      <4> QED BY <2>1, <2>2, <3>1, <4>1
    <3>2. CASE msg.pc = "clear"
      <4>1. ~event'
        BY <3>2
      <4> QED BY <2>1, <2>2, <3>2, <4>1
    <3> HIDE DEF Apart
    <3> QED BY <3>1, <3>2
  <2> QED BY <2>3, <2>4
<1>6. ASSUME SignalStep PROVE Parts'
  BY <1>6 DEF SignalStep
<1>7. ASSUME StepDriver PROVE Parts'
  <2> USE <1>7 DEF StepDriver
  <2>1. CASE msg'.pc = "idle"
    BY <2>1
  <2>2. CASE msg'.pc = "stepSignal"
    <3>1. ~overlap' => ~overlap /\ ~DriverIsStopping
      <4>1. overlap' = (overlap \/ DriverIsStopping)
        <5> HIDE DEF DriverIsStopping
        <5> QED BY <2>2
      <4> QED BY <4>1, Zenon
    <3>2. CASE msg.seen \in {"Paused", "HaltedPostDeviceInit"}
      <4>1. status' = "Running" /\ counter' \in Nat /\ UNCHANGED <<event, initStep>>
        BY <3>2, <2>2
      <4>2. Scalars' /\ StatusFits' /\ PauseIsLate' /\ SeenIsRecent'
        BY <2>2, <3>2, <4>1
      <4>3. Apart'
        BY <2>2, <3>1, <3>2, <4>1
      <4> QED BY <4>2, <4>3
    <3>3. CASE msg.seen \in {"HaltedOnPlatformInit", "HaltedOnDeviceInit"}
      <4>1. UNCHANGED <<event, status, counter>> /\ initStep'
        BY <3>3, <2>2
      <4>2. Scalars' /\ StatusFits' /\ PauseIsLate' /\ SeenIsRecent'
        BY <2>2, <3>3, <4>1
      <4>3. Apart'
        BY <2>2, <3>1, <3>3, <4>1
      <4> QED BY <4>2, <4>3
    <3>4. msg.seen \in {"Paused", "HaltedPostDeviceInit"} \/ msg.seen \in {"HaltedOnPlatformInit", "HaltedOnDeviceInit"}
      BY <2>2
    <3> HIDE DEF Parts
    <3> QED BY <3>2, <3>3, <3>4
  <2>3. msg'.pc \in {"idle", "stepSignal"}
    OBVIOUS
  <2> HIDE DEF Parts
  <2> QED BY <2>1, <2>2, <2>3
<1> HIDE DEF Parts
<1> QED BY <1>4, <1>5, <1>6, <1>7, InvParts DEF InsideRequest


LEMMA SessionSteps ==
    ASSUME IInv, NEW s \in Sessions,
           \/ SessionEstablished(s) \/ SessionTerminated(s) \/ HandleOtherRequest(s)
           \/ StepIsComplete(s) \/ SendPayload(s)
    PROVE  IInv'
<1>1. Parts /\ Counted /\ RequestIsOwn
  BY InvParts
<1>2. UNCHANGED <<status, event, counter, initStep, initClient, phase, driver, msg, overlap>> /\ msg.pc = "idle"
  BY DEF SessionEstablished, SessionTerminated, HandleOtherRequest, StepIsComplete, SendPayload, Receives, driverVars
<1>3. Parts' /\ RequestIsOwn'
  BY <1>1, <1>2 DEF Parts, Scalars, StatusFits, PauseIsLate, SeenIsRecent, Apart, DriverIsStopping, Waiting,
                    Stopped, Quiet, RequestIsOwn
<1>4. Counted'
  <2>1. CASE SessionEstablished(s)
    BY <1>1, <2>1, EstablishedIsCounted
  <2>2. CASE SessionTerminated(s)
    BY <1>1, <2>2, TerminatedIsCounted
  <2>3. CASE HandleOtherRequest(s) \/ StepIsComplete(s) \/ SendPayload(s)
    <3>1. sess[s] # "down" /\ UNCHANGED numSessions /\ \E x \in {"receive", "send"} : sess' = [sess EXCEPT ![s] = x]
      BY <2>3 DEF HandleOtherRequest, StepIsComplete, SendPayload, Receives, Answers
    <3> QED BY <1>1, <3>1, AnswerKeepsCount
  <2> QED BY <2>1, <2>2, <2>3
<1> QED BY <1>3, <1>4, InvParts

LEMMA RequestBegins ==
    ASSUME IInv, NEW s \in Sessions,
           HandlePauseDriverRequest(s) \/ HandleResumeDriverRequest(s) \/ HandleStepDriverRequest(s)
    PROVE  IInv'
<1>1. Parts /\ Counted /\ RequestIsOwn
  BY InvParts
<1>2. UNCHANGED <<event, counter, initStep, initClient, phase, driver, numSessions>> /\ Receives(s)
  BY DEF HandlePauseDriverRequest, HandleResumeDriverRequest, HandleStepDriverRequest, driverVars
<1>3. Counted' /\ RequestIsOwn'
  <2>1. CASE sess' = sess /\ msg'.s = s
    BY <1>1, <1>2, <2>1, CountKept DEF RequestIsOwn, Receives
  <2>2. CASE Answers(s) /\ msg' = msg
    BY <1>1, <1>2, <2>2, AnswerKeepsCount DEF RequestIsOwn, Receives, Answers
  <2> QED BY <2>1, <2>2 DEF HandlePauseDriverRequest, HandleResumeDriverRequest, HandleStepDriverRequest, InRequest
<1> USE Tables, <1>1, <1>2
        DEF Parts, Scalars, Drivers, Statuses, Phases, StatusFits, PauseIsLate, SeenIsRecent, Receives,
            Apart, DriverIsStopping, Waiting, Stopped, Quiet, InRequest
<1>4. ASSUME msg' = msg, UNCHANGED <<status, overlap>> PROVE Parts'
  BY <1>4
<1>5. ASSUME HandlePauseDriverRequest(s), status = "Running" PROVE Parts'
  <2>1. status' = "Paused" /\ msg'.pc = "clear"
    BY <1>5 DEF HandlePauseDriverRequest
  <2>2. ~overlap' => ~overlap /\ ~DriverIsStopping
    BY <1>5 DEF HandlePauseDriverRequest, Overlaps
  <2>3. Scalars' /\ StatusFits' /\ PauseIsLate' /\ SeenIsRecent'
    BY <1>5, <2>1
  <2>4. Apart'
    BY <1>5, <2>1, <2>2
  <2> QED BY <2>3, <2>4
<1>6. ASSUME HandleResumeDriverRequest(s), IsHalted \/ status = "Paused" PROVE Parts'
  <2>1. /\ status' = IF status \in {"HaltedPostDeviceInit", "Paused"} THEN "Running" ELSE status
        /\ msg'.pc = "signal" /\ status \in Halted \cup {"Paused"}
    BY <1>6 DEF HandleResumeDriverRequest, IsHalted
  <2>2. ~overlap' => ~overlap /\ ~DriverIsStopping
    BY <1>6 DEF HandleResumeDriverRequest, Overlaps
  <2>3. Scalars' /\ StatusFits' /\ PauseIsLate' /\ SeenIsRecent'
    BY <2>1
  <2>4. Apart'
    BY <2>1, <2>2
  <2> QED BY <2>3, <2>4
<1>7. ASSUME HandleStepDriverRequest(s) PROVE Parts'
  <2>1. msg'.pc = "step" /\ msg'.seen = status /\ UNCHANGED <<status, overlap>>
    BY <1>7 DEF HandleStepDriverRequest
  <2>2. Scalars' /\ StatusFits' /\ PauseIsLate'
    BY <2>1
  <2>3. SeenIsRecent'
    BY <2>1
  <2>4. Apart'
    BY <2>1
  <2> QED BY <2>2, <2>3, <2>4
<1> HIDE DEF Parts
<1>8. Parts'
  BY <1>4, <1>5, <1>6, <1>7 DEF HandlePauseDriverRequest, HandleResumeDriverRequest, HandleStepDriverRequest
<1> QED BY <1>3, <1>8, InvParts

-----------------------------------------------------------------------------
LEMMA NextInv == IInv /\ [Next]_vars => IInv'
<1> SUFFICES ASSUME IInv, [Next]_vars PROVE IInv'
  OBVIOUS
<1>1. CASE Next
  BY <1>1, DriverSteps, RequestSteps, SessionSteps, RequestBegins DEF Next
<1>2. CASE UNCHANGED vars
  BY <1>2 DEF vars, IInv, TypeOK, StatusFits, RequestIsOwn, PauseIsLate, SeenIsRecent, Apart,
              DriverIsStopping, Waiting, Stopped, Quiet
<1> QED BY <1>1, <1>2

LEMMA InvHolds == Spec => []IInv
BY InitInv, NextInv, PTL DEF Spec

(***************************************************************************)
(* The count of the sessions, by which WaitForResume decides whether its   *)
(* wait may time out, is the number of sessions that are connected, and    *)
(* the driver thread and the status are where the code puts them.          *)
(***************************************************************************)
THEOREM DriverTypeCorrect == Spec => []TypeOK
<1>1. IInv => TypeOK
  BY DEF IInv
<1> QED BY <1>1, InvHolds, PTL

(***************************************************************************)
(* Without an overlap, a driver that waits is woken exactly when it was    *)
(* told to go on, for any number of sessions that pause, resume and step.  *)
(***************************************************************************)
THEOREM WaitIsWokenByStatus == Spec => []WaitFollowsStatus
<1>1. IInv => WaitFollowsStatus
  BY DEF IInv, TypeOK, Apart, WaitFollowsStatus, Waiting, Stopped, Quiet
<1> QED BY <1>1, InvHolds, PTL

(***************************************************************************)
(* Without an overlap, no step request is left open by a driver that gets  *)
(* through its initialization.                                             *)
(***************************************************************************)
THEOREM StepRequestHalts == Spec => []StepHaltsInit
<1>1. IInv => StepHaltsInit
  BY DEF IInv, Apart, StepHaltsInit
<1> QED BY <1>1, InvHolds, PTL

=============================================================================
