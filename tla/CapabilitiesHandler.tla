------------------------- MODULE CapabilitiesHandler -------------------------
(***************************************************************************)
(* The capability query of OMXCameraAdapter.cpp: CameraAdapter_Capabilities*)
(* (3920-3998) walks the sensors, and for each one gets a fresh camera     *)
(* component (OMXCameraGetHandle), lets a CapabilitiesHandler drive it     *)
(* (fetchCapabilitiesForSensor: disable every port, select the sensor,     *)
(* switch to Idle, read the capabilities, switch back to Loaded) and frees *)
(* it.  The handler's waits are mCondition.waitRelative under mLock for    *)
(* three seconds; processEvent, run on the component's callback thread     *)
(* under the same mLock, decides whether the awaited event has come and    *)
(* signals.  The component queues the commands it is sent, completes an    *)
(* OMX_ALL port disable one port at a time, may fail with                  *)
(* OMX_ErrorHardware, or may stop answering altogether.                    *)
(*                                                                         *)
(* mLock is held by the query thread from the top of disableAllPorts and   *)
(* switchToState to their return, except inside waitRelative, and those    *)
(* stretches make no other blocking call: each is one step here, so       *)
(* processEvent runs only while the thread waits or is outside them.       *)
(***************************************************************************)
EXTENDS OMXEventSignalQ, Integers, Sequences, FiniteSets

CONSTANTS
    CameraPorts,  \* the component's ports; OMX_CAMERA_NUM_PORTS is their number
    NumSensors,   \* the sensor ids OMX_TI_IndexConfigSensorSelect accepts
    MaxCamera,    \* max_camera - starting_camera
    MaxTimeouts,  \* waitRelative expiries while an answer is still coming
    MaxFatal      \* component failures: OMX_ErrorHardware or no answer at all

ASSUME NumSensors \in Nat /\ MaxCamera \in Nat
ASSUME MaxTimeouts \in Nat /\ MaxFatal \in Nat

OMX_CAMERA_NUM_PORTS == Cardinality(CameraPorts)

VARIABLES
    qpc,                 \* where CameraAdapter_Capabilities is
    omxInit,             \* its OMX_Init calls not yet matched by OMX_Deinit
    num_cameras_supported,
    err,                 \* fetchCapabilitiesForSensor did not return NO_ERROR
    \* the CapabilitiesHandler of this iteration
    mComponent,          \* TRUE while handler.mComponent != NULL
    mState, mIsAborted, mIsOk, mPortsLeftToDisable,
    signalled,           \* mCondition was signalled while the thread waited
    \* the component
    hwState, enabled, hwCmds, hwEvents, hung,
    \* budgets and history
    timeouts, fatals, idleSeen

handlerVars == <<mState, mIsAborted, mIsOk, mPortsLeftToDisable, signalled>>
hwVars == <<hwState, enabled, hwCmds, hwEvents, hung>>
vars == <<qpc, omxInit, num_cameras_supported, err, mComponent, handlerVars,
          hwVars, timeouts, fatals, idleSeen>>

Waits == {"dp_wait", "ss_wait"}

-----------------------------------------------------------------------------
(* The component.                                                          *)

\* An OMX call succeeds on a component that is neither failed nor gone.
OmxOk == mComponent /\ hwState # OMX_StateInvalid

SendCommand(cmd, param) ==
    hwCmds' = Append(hwCmds, [cmd |-> cmd, param |-> param,
                              left |-> IF param = OMX_ALL THEN CameraPorts
                                       ELSE {param}])

\* Loaded->Idle needs every enabled port populated; the query gives no
\* buffers, so it needs every port disabled first.
HwReady(c) ==
    c.cmd = OMX_CommandStateSet /\ hwState = OMX_StateLoaded
        /\ c.param = OMX_StateIdle => enabled = {}

HwCanRun ==
    /\ mComponent /\ ~hung /\ hwState # OMX_StateInvalid
    /\ hwCmds # <<>> /\ HwReady(Head(hwCmds))

\* The oldest command makes progress: a port disable completes on its
\* lowest remaining port, a state set completes or is refused.
HwStep ==
    LET c == Head(hwCmds)
        p == CHOOSE q \in c.left : \A r \in c.left : q <= r
        legal == <<hwState, c.param>> \in {<<OMX_StateLoaded, OMX_StateIdle>>,
                                           <<OMX_StateIdle, OMX_StateLoaded>>}
    IN  /\ HwCanRun
        /\ IF c.cmd = OMX_CommandStateSet
           THEN /\ hwCmds' = Tail(hwCmds)
                /\ IF legal
                   THEN /\ hwState' = c.param
                        /\ hwEvents' = Append(hwEvents, [ev |-> OMX_EventCmdComplete,
                                                         d1 |-> c.cmd, d2 |-> c.param])
                        /\ idleSeen' = (idleSeen \/ c.param = OMX_StateIdle)
                   ELSE /\ hwEvents' = Append(hwEvents, [ev |-> OMX_EventError,
                                 d1 |-> OMX_ErrorIncorrectStateTransition, d2 |-> 0])
                        /\ UNCHANGED <<hwState, idleSeen>>
                /\ UNCHANGED enabled
           ELSE /\ hwCmds' = IF c.left = {p} THEN Tail(hwCmds)
                             ELSE [hwCmds EXCEPT ![1].left = @ \ {p}]
                /\ enabled' = enabled \ {p}
                /\ hwEvents' = Append(hwEvents, [ev |-> OMX_EventCmdComplete,
                                                 d1 |-> c.cmd, d2 |-> p])
                /\ UNCHANGED <<hwState, idleSeen>>
        /\ UNCHANGED <<qpc, omxInit, num_cameras_supported, err, mComponent,
                       handlerVars, hung, timeouts, fatals>>

\* The component fails and says so, or stops answering without a word.
HwFail ==
    /\ fatals < MaxFatal
    /\ mComponent /\ ~hung /\ hwState # OMX_StateInvalid
    /\ fatals' = fatals + 1
    /\ \/ /\ hwState' = OMX_StateInvalid
          /\ hwCmds' = <<>>
          /\ hwEvents' = Append(hwEvents, [ev |-> OMX_EventError,
                                           d1 |-> OMX_ErrorHardware, d2 |-> 0])
          /\ UNCHANGED hung
       \/ /\ hung' = TRUE
          /\ UNCHANGED <<hwState, hwCmds, hwEvents>>
    /\ UNCHANGED <<qpc, omxInit, num_cameras_supported, err, mComponent,
                   handlerVars, enabled, timeouts, idleSeen>>

-----------------------------------------------------------------------------
(* The callback thread: eventCallback (3823-3846) checks the handle and    *)
(* calls processEvent (3848-3908) under mLock.  Nothing is done once the   *)
(* wait it served has been given up (mIsAborted).  A StateSet completion   *)
(* records whether it reached mState; port disable completions count down *)
(* to zero; an error event leaves mIsOk false.  signal() wakes the thread  *)
(* if it is waiting and is lost otherwise.                                 *)
Signal == signalled' = (signalled \/ qpc \in Waits)

processEvent ==
    LET e == Head(hwEvents)
    IN  /\ mComponent /\ ~hung /\ hwEvents # <<>>
        /\ hwEvents' = Tail(hwEvents)
        /\ IF mIsAborted
           THEN UNCHANGED handlerVars
           ELSE CASE e.ev = OMX_EventCmdComplete /\ e.d1 = OMX_CommandStateSet ->
                       /\ mIsOk' = (e.d2 = mState)
                       /\ Signal
                       /\ UNCHANGED <<mState, mIsAborted, mPortsLeftToDisable>>
                  [] e.ev = OMX_EventCmdComplete /\ e.d1 = OMX_CommandPortDisable ->
                       /\ mPortsLeftToDisable' = mPortsLeftToDisable - 1
                       /\ IF mPortsLeftToDisable - 1 = 0
                          THEN mIsOk' = TRUE /\ Signal
                          ELSE UNCHANGED <<mIsOk, signalled>>
                       /\ UNCHANGED <<mState, mIsAborted>>
                  [] e.ev = OMX_EventError ->
                       /\ Signal
                       /\ UNCHANGED <<mState, mIsAborted, mIsOk, mPortsLeftToDisable>>
        /\ UNCHANGED <<qpc, omxInit, num_cameras_supported, err, mComponent,
                       hwState, enabled, hwCmds, hung, timeouts, fatals, idleSeen>>

-----------------------------------------------------------------------------
(* The query thread.                                                       *)

QueryUnchanged == UNCHANGED <<hwState, enabled, hwEvents, hung, fatals, idleSeen>>

\* 3939-3943: OMX_Init; on failure return at once.
CameraAdapter_Capabilities_Init ==
    /\ qpc = "init"
    /\ \/ qpc' = "loop" /\ omxInit' = omxInit + 1
       \/ qpc' = "done" /\ UNCHANGED omxInit
    /\ UNCHANGED <<num_cameras_supported, err, mComponent, handlerVars, hwCmds,
                   timeouts>>
    /\ QueryUnchanged

(* 3947-3961: while a camera is left, a new CapabilitiesHandler (mComponent *)
(* NULL, mIsAborted true, 3643-3647) and OMXCameraGetHandle, whose five     *)
(* attempts (3612-3637) either give a fresh component, Loaded with every    *)
(* port enabled, or leave the handle NULL and go to EXIT.                   *)
CameraAdapter_Capabilities_GetHandle ==
    /\ qpc = "loop"
    /\ IF num_cameras_supported < MaxCamera
       THEN \/ /\ qpc' = "dp_send"
               /\ mComponent' = TRUE
               /\ hwState' = OMX_StateLoaded /\ enabled' = CameraPorts
               /\ hung' = FALSE /\ idleSeen' = FALSE
            \/ /\ qpc' = "exit"
               /\ UNCHANGED <<mComponent, hwState, enabled, hung, idleSeen>>
       ELSE /\ qpc' = "exit"
            /\ UNCHANGED <<mComponent, hwState, enabled, hung, idleSeen>>
    /\ mIsAborted' = TRUE /\ signalled' = FALSE /\ err' = FALSE
    /\ UNCHANGED <<omxInit, num_cameras_supported, mState, mIsOk,
                   mPortsLeftToDisable, hwCmds, hwEvents, fatals, timeouts>>

\* Slip: the count started one higher, as if OMX_ALL were a port of its own.
disableAllPorts_SendOneMore ==
    /\ qpc = "dp_send"
    /\ mPortsLeftToDisable' = OMX_CAMERA_NUM_PORTS + 1
    /\ mIsOk' = FALSE /\ mIsAborted' = FALSE
    /\ IF OmxOk
       THEN qpc' = "dp_wait" /\ SendCommand(OMX_CommandPortDisable, OMX_ALL) /\ UNCHANGED err
       ELSE qpc' = "cleanup" /\ err' = TRUE /\ UNCHANGED hwCmds
    /\ UNCHANGED <<omxInit, num_cameras_supported, mComponent, mState, signalled,
                   timeouts>>
    /\ QueryUnchanged

(* disableAllPorts (3659-3699) up to its wait: under mLock, expect one     *)
(* completion per port and send OMX_CommandPortDisable for OMX_ALL; a      *)
(* refused send returns the error.                                         *)
disableAllPorts_Send ==
    /\ qpc = "dp_send"
    /\ mPortsLeftToDisable' = OMX_CAMERA_NUM_PORTS
    /\ mIsOk' = FALSE /\ mIsAborted' = FALSE
    /\ IF OmxOk
       THEN qpc' = "dp_wait" /\ SendCommand(OMX_CommandPortDisable, OMX_ALL) /\ UNCHANGED err
       ELSE qpc' = "cleanup" /\ err' = TRUE /\ UNCHANGED hwCmds
    /\ UNCHANGED <<omxInit, num_cameras_supported, mComponent, mState, signalled,
                   timeouts>>
    /\ QueryUnchanged

\* waitRelative(mLock, 3 s) ends when signalled; it may expire instead, and
\* while an answer is still coming (the component can go on, or has events
\* for the callback thread) only MaxTimeouts times.
AnswerDue == (HwCanRun \/ (hwEvents # <<>> /\ ~hung))

\* Slip: Condition::wait without a time limit.
WaitExpiresNever == FALSE

WaitExpires ==
    /\ ~signalled
    /\ timeouts < MaxTimeouts \/ ~AnswerDue
    /\ timeouts' = IF AnswerDue THEN timeouts + 1 ELSE timeouts

(* The rest of disableAllPorts: TIMED_OUT on expiry, UNKNOWN_ERROR when    *)
(* woken without mIsOk; otherwise mIsAborted is set and NO_ERROR returned. *)
(* fetchCapabilitiesForSensor turns any error into UNKNOWN_ERROR           *)
(* (3749-3759).                                                            *)
disableAllPorts_Wait ==
    /\ qpc = "dp_wait"
    /\ \/ /\ signalled /\ mIsOk
          /\ qpc' = "select" /\ mIsAborted' = TRUE
          /\ UNCHANGED <<err, timeouts>>
       \/ /\ signalled /\ ~mIsOk
          /\ qpc' = "cleanup" /\ err' = TRUE
          /\ UNCHANGED <<mIsAborted, timeouts>>
       \/ /\ WaitExpires
          /\ qpc' = "cleanup" /\ err' = TRUE
          /\ UNCHANGED mIsAborted
    /\ UNCHANGED <<omxInit, num_cameras_supported, mComponent, mState, mIsOk,
                   mPortsLeftToDisable, signalled, hwCmds>>
    /\ QueryUnchanged

(* 3761-3800: OMX_SetConfig(sensor select) and OMX_SetParameter(camera     *)
(* mode); BAD_VALUE when either is refused, which is how the loop learns   *)
(* that the sensors are used up.  Then switchToState(OMX_StateIdle).       *)
fetchCapabilitiesForSensor_Select ==
    /\ qpc = "select"
    /\ IF OmxOk /\ num_cameras_supported < NumSensors
       THEN qpc' = "ss_send" /\ mState' = OMX_StateIdle /\ UNCHANGED err
       ELSE qpc' = "cleanup" /\ err' = TRUE /\ UNCHANGED mState
    /\ UNCHANGED <<omxInit, num_cameras_supported, mComponent, mIsAborted, mIsOk,
                   mPortsLeftToDisable, signalled, hwCmds, timeouts>>
    /\ QueryUnchanged

(* switchToState (3701-3745) up to its wait: under mLock, send the state   *)
(* set to mState; a refused send returns the error.                        *)
switchToState_Send ==
    /\ qpc = "ss_send"
    /\ mIsOk' = FALSE /\ mIsAborted' = FALSE
    /\ IF OmxOk
       THEN qpc' = "ss_wait" /\ SendCommand(OMX_CommandStateSet, mState) /\ UNCHANGED err
       ELSE qpc' = "cleanup" /\ err' = TRUE /\ UNCHANGED hwCmds
    /\ UNCHANGED <<omxInit, num_cameras_supported, mComponent, mState,
                   mPortsLeftToDisable, signalled, timeouts>>
    /\ QueryUnchanged

\* Slip: the !mIsOk test after the wait left out.
switchToState_WaitIgnoringIsOk ==
    /\ qpc = "ss_wait"
    /\ mIsAborted' = TRUE
    /\ \/ /\ signalled
          /\ qpc' = IF mState = OMX_StateIdle THEN "caps" ELSE "cleanup"
          /\ UNCHANGED <<err, timeouts>>
       \/ /\ WaitExpires
          /\ qpc' = "cleanup" /\ err' = TRUE
    /\ UNCHANGED <<omxInit, num_cameras_supported, mComponent, mState, mIsOk,
                   mPortsLeftToDisable, signalled, hwCmds>>
    /\ QueryUnchanged

(* The rest of switchToState: give up the wait (mIsAborted), TIMED_OUT on  *)
(* expiry, UNKNOWN_ERROR without mIsOk, else NO_ERROR; after the switch to *)
(* Idle fetchCapabilitiesForSensor reads the capabilities (3802-3810),      *)
(* after the switch to Loaded it returns (3812-3819).                      *)
switchToState_Wait ==
    /\ qpc = "ss_wait"
    /\ mIsAborted' = TRUE
    /\ \/ /\ signalled /\ mIsOk
          /\ qpc' = IF mState = OMX_StateIdle THEN "caps" ELSE "cleanup"
          /\ UNCHANGED <<err, timeouts>>
       \/ /\ signalled /\ ~mIsOk
          /\ qpc' = "cleanup" /\ err' = TRUE
          /\ UNCHANGED timeouts
       \/ /\ WaitExpires
          /\ qpc' = "cleanup" /\ err' = TRUE
    /\ UNCHANGED <<omxInit, num_cameras_supported, mComponent, mState, mIsOk,
                   mPortsLeftToDisable, signalled, hwCmds>>
    /\ QueryUnchanged

(* getCaps (3810) reads parameters through the handle; then                *)
(* switchToState(OMX_StateLoaded).                                         *)
fetchCapabilitiesForSensor_GetCaps ==
    /\ qpc = "caps"
    /\ qpc' = "ss_send" /\ mState' = OMX_StateLoaded
    /\ UNCHANGED <<omxInit, num_cameras_supported, err, mComponent, mIsAborted,
                   mIsOk, mPortsLeftToDisable, signalled, hwCmds, timeouts>>
    /\ QueryUnchanged

\* Slip: the error test moved above the clean up, leaking the component.
CameraAdapter_Capabilities_BreakFirst ==
    /\ qpc = "cleanup"
    /\ IF err
       THEN qpc' = "exit" /\ UNCHANGED <<mComponent, hwCmds, hwEvents, num_cameras_supported>>
       ELSE /\ qpc' = "loop"
            /\ mComponent' = FALSE /\ hwCmds' = <<>> /\ hwEvents' = <<>>
            /\ num_cameras_supported' = num_cameras_supported + 1
    /\ UNCHANGED <<omxInit, err, handlerVars, hwState, enabled, hung, fatals,
                   timeouts, idleSeen>>

(* 3967-3979: OMX_FreeHandle the component, which goes with whatever it    *)
(* still had queued; then break on an error, or count the camera.          *)
CameraAdapter_Capabilities_Cleanup ==
    /\ qpc = "cleanup"
    /\ mComponent' = FALSE /\ hwCmds' = <<>> /\ hwEvents' = <<>>
    /\ IF err
       THEN qpc' = "exit" /\ UNCHANGED num_cameras_supported
       ELSE qpc' = "loop" /\ num_cameras_supported' = num_cameras_supported + 1
    /\ UNCHANGED <<omxInit, err, handlerVars, hwState, enabled, hung, fatals,
                   timeouts, idleSeen>>

\* EXIT (3981-3997): OMX_Deinit, and return.
CameraAdapter_Capabilities_Exit ==
    /\ qpc = "exit"
    /\ qpc' = "done"
    /\ omxInit' = omxInit - 1
    /\ UNCHANGED <<num_cameras_supported, err, mComponent, handlerVars, hwCmds,
                   timeouts>>
    /\ QueryUnchanged

-----------------------------------------------------------------------------
Init ==
    /\ qpc = "init"
    /\ omxInit = 0
    /\ num_cameras_supported = 0
    /\ err = FALSE
    /\ mComponent = FALSE
    /\ mState = OMX_StateLoaded
    /\ mIsAborted = TRUE
    /\ mIsOk = FALSE
    /\ mPortsLeftToDisable = 0
    /\ signalled = FALSE
    /\ hwState = OMX_StateLoaded
    /\ enabled = CameraPorts
    /\ hwCmds = <<>>
    /\ hwEvents = <<>>
    /\ hung = FALSE
    /\ timeouts = 0
    /\ fatals = 0
    /\ idleSeen = FALSE

QueryStep ==
    \/ CameraAdapter_Capabilities_Init \/ CameraAdapter_Capabilities_GetHandle
    \/ disableAllPorts_Send \/ disableAllPorts_Wait
    \/ fetchCapabilitiesForSensor_Select \/ switchToState_Send \/ switchToState_Wait
    \/ fetchCapabilitiesForSensor_GetCaps \/ CameraAdapter_Capabilities_Cleanup
    \/ CameraAdapter_Capabilities_Exit

Next == QueryStep \/ processEvent \/ HwStep \/ HwFail

\* The query thread and the callback thread are scheduled, and the
\* component finishes the commands it can run; a failure is not assured.
Spec == Init /\ [][Next]_vars
        /\ WF_vars(QueryStep) /\ WF_vars(processEvent) /\ WF_vars(HwStep)

-----------------------------------------------------------------------------
Labels == {"init", "loop", "dp_send", "dp_wait", "select", "ss_send", "ss_wait",
           "caps", "cleanup", "exit", "done"}

TypeOK ==
    /\ qpc \in Labels
    /\ omxInit \in 0..1
    /\ num_cameras_supported \in 0..MaxCamera
    /\ {err, mComponent, mIsAborted, mIsOk, signalled, hung, idleSeen} \subseteq BOOLEAN
    /\ mState \in {OMX_StateIdle, OMX_StateLoaded}
    /\ mPortsLeftToDisable \in 0..OMX_CAMERA_NUM_PORTS
    /\ hwState \in {OMX_StateInvalid, OMX_StateLoaded, OMX_StateIdle}
    /\ enabled \subseteq CameraPorts
    /\ timeouts \in 0..MaxTimeouts /\ fatals \in 0..MaxFatal

(* fetchCapabilitiesForSensor goes on only after the component has done    *)
(* what it waited for: past disableAllPorts every port is disabled, and    *)
(* getCaps reads a component that completed the switch to Idle.  Both rest *)
(* on processEvent's counting and mIsOk, against completions, errors and   *)
(* expiries arriving in any order.                                         *)
AdvancesOnlyOnConfirmation ==
    /\ qpc \in {"select", "ss_send", "ss_wait", "caps"} => enabled = {}
    /\ qpc = "caps" => idleSeen

(* CameraAdapter_Capabilities returns with every component it got freed    *)
(* and its OMX_Init matched by one OMX_Deinit, on every path: the sensors  *)
(* running out, a failed handle, a timeout or a component failure.         *)
QueryLeavesNothing ==
    qpc = "done" => omxInit = 0 /\ ~mComponent

(* CameraAdapter_Capabilities always returns, even when the component      *)
(* fails or stops answering: every wait of the handler is bounded.         *)
QueryTerminates == <>(qpc = "done")
=============================================================================
