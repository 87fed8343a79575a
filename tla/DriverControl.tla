---------------------------- MODULE DriverControl ----------------------------
(***************************************************************************)
(* The driver control server (protocols/driverControlServer.cpp).  The     *)
(* driver thread goes through the phases of its initialization, where it   *)
(* halts when a client asks for it, and then calls DriverTick every frame, *)
(* where it stops while it is paused.  The message thread handles the      *)
(* requests of the sessions, one at a time, which pause, resume and step   *)
(* the driver.                                                             *)
(*                                                                         *)
(* The threads share m_driverStatus, the (manual reset) event on which the *)
(* driver waits, m_stepCounter and m_initStepRequested.  A stop or a       *)
(* resume writes the status and then sets or clears the event; only some   *)
(* of these pairs are made under m_mutex, so each is two steps here.       *)
(***************************************************************************)
EXTENDS Naturals, FiniteSets

CONSTANTS
    Sessions,       \* sessions of the protocol
    Counts          \* the numbers of frames a client steps

ASSUME DriverAssumption ==
    /\ IsFiniteSet(Sessions)
    /\ Counts \subseteq Nat

VARIABLES
    status,         \* m_driverStatus
    event,          \* m_driverResumedEvent is set
    counter,        \* m_stepCounter
    initStep,       \* m_initStepRequested
    initClient,     \* m_driverInitClientId is valid
    phase,          \* the phase of initialization the driver is in, or "Done"
    driver,         \* what the driver thread does next
    sess,           \* the state of each session
    numSessions,    \* m_numSessions
    msg,            \* the request the message thread is in the middle of
    overlap         \* a stop and a request have been interleaved, see Overlaps

vars == <<status, event, counter, initStep, initClient, phase, driver, sess,
          numSessions, msg, overlap>>

Phases == {"PlatformInit", "EarlyDeviceInit", "LateDeviceInit"}
HaltedIn == [p \in Phases |-> CASE p = "PlatformInit" -> "HaltedOnPlatformInit"
                                [] p = "EarlyDeviceInit" -> "HaltedOnDeviceInit"
                                [] p = "LateDeviceInit" -> "HaltedPostDeviceInit"]
After == [p \in Phases |-> CASE p = "PlatformInit" -> "EarlyDeviceInit"
                             [] p = "EarlyDeviceInit" -> "LateDeviceInit"
                             [] p = "LateDeviceInit" -> "Running"]
Halted == {HaltedIn[p] : p \in Phases}
Statuses == Phases \cup Halted \cup {"Running", "Paused"}

IsHalted == status \in Halted
IsDriverInitialized == status \in {"HaltedPostDeviceInit", "Running", "Paused"}

NoRequest == [pc |-> "idle"]
InRequest(pc, s) == [pc |-> pc, s |-> s]

\* With the exact count of the sessions, on which the timeout of a wait hangs.
TypeOK ==
    /\ status \in Statuses
    /\ event \in BOOLEAN /\ initStep \in BOOLEAN /\ initClient \in BOOLEAN
    /\ counter \in Nat
    /\ phase \in Phases \cup {"Done"}
    /\ driver \in {"init", "clear", "reset", "halted", "advance", "frame", "pause", "check", "paused"}
    /\ driver \in {"frame", "pause", "check", "paused"} <=> phase = "Done"
    /\ sess \in [Sessions -> {"down", "receive", "step", "send"}]
    /\ numSessions = Cardinality({s \in Sessions : sess[s] # "down"})
    /\ msg.pc \in {"idle", "clear", "signal", "step", "stepSignal"}

Init ==
    /\ status = "PlatformInit"
    /\ event = TRUE
    /\ counter = 0 /\ initStep = FALSE /\ initClient = FALSE
    /\ phase = "PlatformInit" /\ driver = "init"
    /\ sess = [s \in Sessions |-> "down"] /\ numSessions = 0
    /\ msg = NoRequest
    /\ overlap = FALSE

\* Who holds m_mutex between two steps: DriverTick, or HandleStepDriverRequest.
Unlocked == driver # "pause" /\ msg.pc \notin {"step", "stepSignal"}

(***************************************************************************)
(* The driver is between its write of the status and its wait, or a        *)
(* request between its write of the status and its event: if the other     *)
(* thread starts an update of its own now, the two overlap.                *)
(***************************************************************************)
DriverIsStopping == driver \in {"clear", "reset", "pause"}
RequestIsMade == msg.pc \in {"clear", "signal", "stepSignal"}
Overlaps(b) == overlap' = (overlap \/ b)

-----------------------------------------------------------------------------
(***************************************************************************)
(* The driver thread.                                                      *)
(***************************************************************************)
\* Changed: a step request of a client is not looked at.
DiscoverHaltRequestsByClient(found) == phase # "LateDeviceInit" /\ (initClient \/ found)

\* A step was requested, or a client that wants the driver to halt is known
\* or found on the bus.
DiscoverHaltRequests(found) ==
    initStep \/ (phase # "LateDeviceInit" /\ (initClient \/ found))

\* StartEarlyDeviceInit, StartLateDeviceInit and FinishDeviceInit.  The request
\* to step is read under the mutex and once more after the unlock, a client is
\* searched for, and the status is written at the end; all this is one step.
\* Until the status is written every request to pause, resume or step is refused,
\* as the status is that of a phase, so that initStep is the same in both reads
\* and whatever is handled in between could as well be handled before.
AdvanceDriverInitState ==
    /\ driver = "init" /\ Unlocked
    /\ \E found \in BOOLEAN :
          /\ found => ~initStep /\ phase # "LateDeviceInit" /\ ~initClient
          /\ initClient' = (initClient \/ found)
          /\ IF DiscoverHaltRequests(found)
             THEN /\ status' = HaltedIn[phase]
                  /\ driver' = "clear"
                  /\ Overlaps(RequestIsMade)
             ELSE /\ driver' = "advance"
                  /\ UNCHANGED <<status, overlap>>
    /\ UNCHANGED <<event, counter, initStep, phase, sess, numSessions, msg>>

ClearEvent ==
    /\ driver \in {"clear", "pause"}
    /\ event' = FALSE
    /\ driver' = IF driver = "clear" THEN "reset" ELSE "check"
    /\ UNCHANGED <<status, counter, initStep, initClient, phase, sess, numSessions, msg, overlap>>

\* Changed: the step request is still there after the halt it asked for.
KeepStepRequest ==
    /\ driver = "reset" /\ Unlocked
    /\ driver' = "halted"
    /\ UNCHANGED <<status, event, counter, initStep, initClient, phase, sess, numSessions, msg, overlap>>

ResetStepRequest ==
    /\ driver = "reset" /\ Unlocked
    /\ initStep' = FALSE
    /\ driver' = "halted"
    /\ UNCHANGED <<status, event, counter, initClient, phase, sess, numSessions, msg, overlap>>

\* WaitForResume: it waits for the event for as long as there is a session.
Waiting == driver \in {"halted", "paused"}

Resumed ==
    /\ Waiting /\ event
    /\ driver' = IF driver = "halted" THEN "advance" ELSE "frame"
    /\ UNCHANGED <<status, event, counter, initStep, initClient, phase, sess, numSessions, msg, overlap>>

WaitTimesOut ==
    /\ Waiting /\ numSessions = 0
    /\ driver' = IF driver = "halted" THEN "advance" ELSE "frame"
    /\ UNCHANGED <<status, event, counter, initStep, initClient, phase, sess, numSessions, msg, overlap>>

\* The end of AdvanceDriverInitState.
NextPhase ==
    /\ driver = "advance"
    /\ status' = After[phase]
    /\ phase' = IF phase = "LateDeviceInit" THEN "Done" ELSE After[phase]
    /\ driver' = IF phase = "LateDeviceInit" THEN "frame" ELSE "init"
    /\ UNCHANGED <<event, counter, initStep, initClient, sess, numSessions, msg, overlap>>

\* DriverTick, under the mutex: one frame less, and PauseDriver after the last.
CountFrame ==
    /\ driver = "frame" /\ Unlocked
    /\ counter' = IF counter > 0 THEN counter - 1 ELSE 0
    /\ IF counter = 1
       THEN status' = "Paused" /\ driver' = "pause" /\ Overlaps(RequestIsMade)
       ELSE driver' = "check" /\ UNCHANGED <<status, overlap>>
    /\ UNCHANGED <<event, initStep, initClient, phase, sess, numSessions, msg>>

\* The rest of DriverTick.
CheckPaused ==
    /\ driver = "check"
    /\ driver' = IF status = "Paused" THEN "paused" ELSE "frame"
    /\ UNCHANGED <<status, event, counter, initStep, initClient, phase, sess, numSessions, msg, overlap>>

DriverStep ==
    \/ AdvanceDriverInitState \/ ClearEvent \/ ResetStepRequest \/ Resumed
    \/ WaitTimesOut \/ NextPhase \/ CountFrame \/ CheckPaused

-----------------------------------------------------------------------------
(***************************************************************************)
(* The message thread.                                                     *)
(***************************************************************************)
driverVars == <<initClient, phase, driver>>

SessionEstablished(s) ==
    /\ msg.pc = "idle" /\ sess[s] = "down"
    /\ sess' = [sess EXCEPT ![s] = "receive"]
    /\ numSessions' = numSessions + 1
    /\ UNCHANGED <<status, event, counter, initStep, driverVars, msg, overlap>>

\* Changed: only a session that is between two requests is counted off.
SessionTerminatedIdle(s) ==
    /\ msg.pc = "idle" /\ sess[s] # "down"
    /\ sess' = [sess EXCEPT ![s] = "down"]
    /\ numSessions' = IF sess[s] = "receive" THEN numSessions - 1 ELSE numSessions
    /\ UNCHANGED <<status, event, counter, initStep, driverVars, msg, overlap>>

SessionTerminated(s) ==
    /\ msg.pc = "idle" /\ sess[s] # "down"
    /\ sess' = [sess EXCEPT ![s] = "down"]
    /\ numSessions' = numSessions - 1
    /\ UNCHANGED <<status, event, counter, initStep, driverVars, msg, overlap>>

\* A request is there to be handled; its answer waits to be sent.
Receives(s) == msg.pc = "idle" /\ sess[s] = "receive"
Answers(s) == sess' = [sess EXCEPT ![s] = "send"]

\* Queries, the clock mode and IgnoreDriver, answered at once.
HandleOtherRequest(s) ==
    /\ Receives(s) /\ Unlocked
    /\ Answers(s)
    /\ UNCHANGED <<status, event, counter, initStep, driverVars, numSessions, msg, overlap>>

HandlePauseDriverRequest(s) ==
    /\ Receives(s)
    /\ IF status = "Running"
       THEN /\ status' = "Paused"
            /\ msg' = InRequest("clear", s)
            /\ Overlaps(DriverIsStopping)
            /\ UNCHANGED sess
       ELSE Answers(s) /\ UNCHANGED <<status, msg, overlap>>
    /\ UNCHANGED <<event, counter, initStep, driverVars, numSessions>>

HandleResumeDriverRequest(s) ==
    /\ Receives(s)
    /\ IF IsHalted \/ status = "Paused"
       THEN /\ status' = IF status \in {"HaltedPostDeviceInit", "Paused"} THEN "Running" ELSE status
            /\ msg' = InRequest("signal", s)
            /\ Overlaps(DriverIsStopping)
            /\ UNCHANGED sess
       ELSE Answers(s) /\ UNCHANGED <<status, msg, overlap>>
    /\ UNCHANGED <<event, counter, initStep, driverVars, numSessions>>

\* Changed: a pause leaves the event as it is.
SetEventOnResume ==
    /\ msg.pc \in {"clear", "signal"}
    /\ event' = (event \/ msg.pc = "signal")
    /\ Answers(msg.s)
    /\ msg' = NoRequest
    /\ Overlaps(DriverIsStopping)
    /\ UNCHANGED <<status, counter, initStep, driverVars, numSessions>>

\* The event of a pause or a resume.
SetEvent ==
    /\ msg.pc \in {"clear", "signal"}
    /\ event' = (msg.pc = "signal")
    /\ Answers(msg.s)
    /\ msg' = NoRequest
    /\ Overlaps(DriverIsStopping)
    /\ UNCHANGED <<status, counter, initStep, driverVars, numSessions>>

\* HandleStepDriverRequest takes the mutex and looks at the status ...
HandleStepDriverRequest(s) ==
    /\ Receives(s) /\ Unlocked
    /\ msg' = [pc |-> "step", s |-> s, seen |-> status]
    /\ UNCHANGED <<status, event, counter, initStep, driverVars, sess, numSessions, overlap>>

\* ... and acts on it.
StepDriver ==
    /\ msg.pc = "step"
    /\ \/ /\ msg.seen \in {"Paused", "HaltedPostDeviceInit"} /\ counter = 0
          /\ \E n \in Counts : counter' = IF n = 0 THEN 1 ELSE n
          /\ status' = "Running"
          /\ msg' = InRequest("stepSignal", msg.s)
          /\ Overlaps(DriverIsStopping)
          /\ UNCHANGED <<initStep, sess>>
       \/ /\ msg.seen \in {"HaltedOnPlatformInit", "HaltedOnDeviceInit"}
          /\ initStep' = TRUE
          /\ msg' = InRequest("stepSignal", msg.s)
          /\ Overlaps(DriverIsStopping)
          /\ UNCHANGED <<status, counter, sess>>
       \/ /\ msg.seen \notin {"HaltedOnPlatformInit", "HaltedOnDeviceInit"}
          /\ msg.seen \in {"Paused", "HaltedPostDeviceInit"} => counter # 0
          /\ Answers(msg.s)
          /\ msg' = NoRequest
          /\ UNCHANGED <<status, counter, initStep, overlap>>
    /\ UNCHANGED <<event, driverVars, numSessions>>

SignalStep ==
    /\ msg.pc = "stepSignal"
    /\ event' = TRUE
    /\ sess' = [sess EXCEPT ![msg.s] = "step"]
    /\ msg' = NoRequest
    /\ UNCHANGED <<status, counter, initStep, driverVars, numSessions, overlap>>

\* UpdateSession in SessionState::StepDriver.
StepIsComplete(s) ==
    /\ msg.pc = "idle" /\ sess[s] = "step" /\ Unlocked
    /\ \/ IsHalted /\ ~initStep
       \/ IsDriverInitialized /\ counter = 0
    /\ Answers(s)
    /\ UNCHANGED <<status, event, counter, initStep, driverVars, numSessions, msg, overlap>>

SendPayload(s) ==
    /\ msg.pc = "idle" /\ sess[s] = "send"
    /\ sess' = [sess EXCEPT ![s] = "receive"]
    /\ UNCHANGED <<status, event, counter, initStep, driverVars, numSessions, msg, overlap>>

InsideRequest == SetEvent \/ StepDriver \/ SignalStep

Next ==
    \/ DriverStep \/ InsideRequest
    \/ \E s \in Sessions :
          \/ SessionEstablished(s) \/ SessionTerminated(s)
          \/ HandleOtherRequest(s) \/ HandlePauseDriverRequest(s)
          \/ HandleResumeDriverRequest(s) \/ HandleStepDriverRequest(s)
          \/ StepIsComplete(s) \/ SendPayload(s)

(***************************************************************************)
(* Both threads run: the driver initializes and then calls DriverTick      *)
(* every frame, the mutex comes to who keeps asking for it, a thread that  *)
(* waits on an event that is set again and again wakes up, and the message *)
(* thread updates every session.                                           *)
(***************************************************************************)
Fairness ==
    /\ WF_vars(DriverStep)
    /\ SF_vars(AdvanceDriverInitState) /\ SF_vars(ResetStepRequest)
    /\ SF_vars(CountFrame) /\ SF_vars(Resumed)
    /\ WF_vars(InsideRequest)
    /\ \A s \in Sessions : SF_vars(StepIsComplete(s))

Spec == Init /\ [][Next]_vars /\ Fairness

-----------------------------------------------------------------------------
(***************************************************************************)
(* A driver that waits is woken exactly when it was told to go on: paused  *)
(* it does not run through its wait, resumed or stepped it does not sleep  *)
(* on.  This is so as long as no request is handled while the driver       *)
(* stops; a request in between is answered with Success and its event is   *)
(* lost, or undone.                                                        *)
(***************************************************************************)
WaitFollowsStatus ==
    Waiting /\ msg.pc = "idle" /\ ~overlap =>
        /\ status \in {"Paused", "HaltedPostDeviceInit"} => ~event
        /\ status = "Running" \/ initStep => event

(***************************************************************************)
(* A step taken while the driver is halted in its initialization ends in   *)
(* the next phase: the driver does not get through its initialization with *)
(* the step request still open.  The status is looked at by the handler    *)
(* and the request by the driver under the mutex, the status is written    *)
(* without it.                                                             *)
(***************************************************************************)
StepHaltsInit == initStep /\ ~overlap => phase # "Done"

(***************************************************************************)
(* A step is answered: "We send a response to the StepDriverRequest once   *)
(* the stepping is complete", unless another session pauses the driver for *)
(* good, or an overlap has lost the step.                                  *)
(***************************************************************************)
StepIsAnswered ==
    \A s \in Sessions :
        sess[s] = "step" ~> (sess[s] # "step" \/ overlap \/ [](status = "Paused"))

(***************************************************************************)
(* A driver that waits goes on, or has a client to wait for: WaitForResume *)
(* blocks "until a timeout occurs if there is no client connection or it   *)
(* is lost".                                                               *)
(***************************************************************************)
DriverProceeds ==
    Waiting ~> (~Waiting \/ \E s \in Sessions : sess[s] # "down")
=============================================================================
