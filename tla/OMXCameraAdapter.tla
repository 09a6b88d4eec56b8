--------------------------- MODULE OMXCameraAdapter ---------------------------
(***************************************************************************)
(* The preview life cycle of OMXCameraAdapter (OMXCameraAdapter.cpp):      *)
(* initialize, UseBuffersPreview, startPreview, stopPreview (with           *)
(* flushBuffers and switchToLoaded) and the destructor, run by the camera  *)
(* service thread; OMXCameraAdapterEventHandler, run by the OMX callback   *)
(* thread; and the camera component behind mHandleComp, which queues the   *)
(* commands it is sent, completes them in order, and may fail with          *)
(* OMX_ErrorHardware at any time.                                          *)
(*                                                                         *)
(* The service thread makes the calls CameraHal makes: in the order its    *)
(* state machine allows, advancing only on success, and destroying the     *)
(* adapter at the end.                                                     *)
(***************************************************************************)
EXTENDS OMXEventSignalQ, Naturals, Sequences, FiniteSets
LOCAL INSTANCE SequencesExt

CONSTANTS
    PrevPort,        \* mPrevPortIndex (OMX_CAMERA_PORT_VIDEO_OUT_PREVIEW)
    CameraPorts,     \* the ports an OMX_ALL port command addresses
    MaxTimeouts,     \* WaitTimeout expiries while a completion is still due
    MaxFatal,        \* OMX_ErrorHardware failures of the component
    MaxCalls,        \* calls the service makes before destroying the adapter
    RetryAfterError, \* whether the service calls again after a failed call
    CaptureSwitch,   \* whether the capture path's switchToExecuting is called
    FrameBufs        \* the preview buffers (mBufferHeader[i]->pBuffer)

ASSUME PrevPort \in CameraPorts
ASSUME MaxTimeouts \in Nat /\ MaxFatal \in Nat /\ MaxCalls \in Nat
ASSUME RetryAfterError \in BOOLEAN /\ CaptureSwitch \in BOOLEAN
ASSUME "exit" \notin FrameBufs

\* The Semaphore members the preview path waits on.
Sems == {"Init", "UsePreview", "StartPreview", "StopPreview", "Flush",
         "SwitchToLoaded", "SwitchToExec"}
NoSem == "none"
OMXStates == {OMX_StateInvalid, OMX_StateLoaded, OMX_StateIdle, OMX_StateExecuting}

VARIABLES
    \* adapter state shared by the threads
    mComponentState, \* what the adapter believes the component's state is
    mHandleComp,     \* TRUE while mCameraAdapterParameters.mHandleComp != NULL
    mOmxInitialized,
    mEventSignalQ,
    sem,             \* Semaphore counts
    mStateSwitchLock,\* "app" while held, "free" otherwise
    \* the camera service thread
    pc, call, phase, err, ret, waitOk, retTo, calls,
    \* the CommandHandler thread: mCommandMsgQ and where its Handler() is
    cmdQ, hpc,
    \* the frame path: where each preview buffer is, the OMXCallbackHandler's
    \* mCommandMsgQ and thread, and the display thread inside fillThisBuffer
    bufAt, fbdQ, cbpc, dpc,
    \* the camera component
    hwState, hwCmds, hwEvents, prevEnabled, populated,
    \* environment budgets and the history the properties read
    timeouts, fatals, nullCall, badUnlock, staleHeader

adapterVars == <<mComponentState, mHandleComp, mOmxInitialized, mEventSignalQ,
                 sem, mStateSwitchLock>>
appVars == <<pc, call, phase, err, ret, waitOk, retTo, calls>>
hwVars == <<hwState, hwCmds, hwEvents, prevEnabled, populated>>
histVars == <<timeouts, fatals, nullCall, badUnlock>>
cmdVars == <<cmdQ, hpc>>
frameVars == <<bufAt, fbdQ, cbpc, dpc, staleHeader>>
vars == <<adapterVars, appVars, hwVars, histVars, cmdVars, frameVars>>

-----------------------------------------------------------------------------
(* The component as seen through an OMX call.                              *)

\* An OMX call succeeds only on a live handle of a component not in Invalid
\* (OMX_ErrorInvalidState otherwise).
OmxOk == mHandleComp /\ hwState # OMX_StateInvalid

\* Calling through a NULL mHandleComp dereferences it: recorded, not survived.
NoteOmxCall == nullCall' = (nullCall \/ ~mHandleComp)

\* OMX_SendCommand: queued by the component when the call succeeds.
SendCommand(cmd, param) ==
    /\ hwCmds' = IF OmxOk THEN Append(hwCmds, [cmd |-> cmd, param |-> param])
                          ELSE hwCmds
    /\ NoteOmxCall

SemSignal(s, q, e) ==
    LET t == SignalledSem(q, e.ev, e.d1, e.d2, NoSem)
    IN  [x \in Sems |-> IF x = t THEN s[x] + 1 ELSE s[x]]

(* performCleanupAfterError (296-308): free the handle if there is one,    *)
(* OMX_Deinit unconditionally, and mark the component Invalid.  Freeing    *)
(* the handle destroys the component with whatever it still had queued.    *)
performCleanupAfterError ==
    /\ mHandleComp' = FALSE
    /\ mComponentState' = OMX_StateInvalid
    /\ hwCmds' = <<>>
    /\ hwEvents' = <<>>

-----------------------------------------------------------------------------
(* The camera service (CameraHal, outside this repository) calls the       *)
(* adapter in the order its state machine allows and advances only when a *)
(* call returns NO_ERROR.                                                  *)
\* switchToExecuting is called by the capture path (OMXCapture.cpp) with the
\* component back in Loaded; preview then resumes with useBuffers.
SwitchCalls == IF CaptureSwitch THEN {"switchToExecuting"} ELSE {}
Allowed == [new |-> {"initialize"}, loaded |-> {"useBuffers"} \cup SwitchCalls,
            buffers |-> {"startPreview"}, preview |-> {"stopPreview"}]
Advance == [initialize |-> "loaded", useBuffers |-> "buffers",
            startPreview |-> "preview", stopPreview |-> "loaded",
            switchToExecuting |-> "loaded"]
Entry == [initialize |-> "I_start", useBuffers |-> "U_start",
          startPreview |-> "S_start", stopPreview |-> "P_start",
          switchToExecuting |-> "T_start"]

\* A call returns; isErr is whether its status_t is not NO_ERROR.
Return(isErr) ==
    /\ pc' = "caller"
    /\ ret' = IF isErr THEN "err" ELSE "ok"
    /\ phase' = IF isErr THEN phase ELSE Advance[call]

Call(f) ==
    /\ pc = "caller"
    /\ f \in Allowed[phase]
    /\ calls < MaxCalls
    /\ ret = "ok" \/ RetryAfterError
    /\ pc' = Entry[f]
    /\ call' = f
    /\ calls' = calls + 1
    /\ err' = FALSE
    /\ UNCHANGED <<adapterVars, phase, ret, waitOk, retTo, hwVars, histVars>>

(* ~OMXCameraAdapter (3524-3546): switchToLoaded when OMX was initialised, *)
(* then the D_free step.                                                   *)
Destroy ==
    /\ pc = "caller"
    /\ pc' = IF mOmxInitialized THEN "L_lock" ELSE "D_free"
    /\ retTo' = "D_free"
    /\ UNCHANGED <<adapterVars, call, phase, err, ret, waitOk, calls,
                   hwVars, histVars>>

-----------------------------------------------------------------------------
(* WaitTimeout on a semaphore: a pending Signal is taken at once; with no  *)
(* signal the wait may expire.  An expiry while the component still has a  *)
(* completion to deliver uses the MaxTimeouts budget; one while it has     *)
(* nothing left to deliver is what always happens, and is not bounded.     *)
WaitSem == [I_wait |-> "Init", U_wait |-> "UsePreview", S_wait |-> "StartPreview",
            F_wait |-> "Flush", P_wait |-> "StopPreview",
            L_waitIdle |-> "SwitchToLoaded", L_waitLoaded |-> "SwitchToLoaded",
            L_waitEnable |-> "SwitchToLoaded"]
AfterWait == [I_wait |-> "I_after", U_wait |-> "U_after", S_wait |-> "S_after",
              F_wait |-> "F_after", P_wait |-> "P_after",
              L_waitIdle |-> "L_afterIdle", L_waitLoaded |-> "L_afterLoaded",
              L_waitEnable |-> "L_afterEnable"]

-----------------------------------------------------------------------------
(* The camera component.  Commands complete in the order they were sent.  *)
(* Loaded->Idle waits until the enabled preview port has its buffers       *)
(* (OMX_UseBuffer), Idle->Loaded and disabling the preview port wait until *)
(* they are freed (OMX_FreeBuffer); enabling it outside Loaded waits for   *)
(* buffers.  An illegal transition is reported as a non-fatal error event. *)
LegalTransitions ==
    {<<OMX_StateLoaded, OMX_StateIdle>>, <<OMX_StateIdle, OMX_StateLoaded>>,
     <<OMX_StateIdle, OMX_StateExecuting>>, <<OMX_StateExecuting, OMX_StateIdle>>}

PortsOf(p) == IF p = OMX_ALL THEN CameraPorts ELSE {p}

Ready(c) ==
    CASE c.cmd = OMX_CommandStateSet /\ hwState = OMX_StateLoaded
                                     /\ c.param = OMX_StateIdle
            -> populated \/ ~prevEnabled
      [] c.cmd = OMX_CommandStateSet /\ hwState = OMX_StateIdle
                                     /\ c.param = OMX_StateLoaded
            -> ~populated
      [] c.cmd = OMX_CommandPortDisable /\ PrevPort \in PortsOf(c.param)
            -> ~populated
      [] c.cmd = OMX_CommandPortEnable /\ hwState # OMX_StateLoaded
            -> populated
      [] OTHER -> TRUE

HwCanRun ==
    /\ mHandleComp
    /\ hwState # OMX_StateInvalid
    /\ hwCmds # <<>>
    /\ Ready(Head(hwCmds))

CmdComplete(cmd, p) == [ev |-> OMX_EventCmdComplete, d1 |-> cmd, d2 |-> p]

\* The events completing command c, one per port for a port command.
Completions(c) ==
    IF c.cmd = OMX_CommandStateSet
    THEN IF <<hwState, c.param>> \in LegalTransitions
         THEN <<CmdComplete(c.cmd, c.param)>>
         ELSE <<[ev |-> OMX_EventError, d1 |-> OMX_ErrorIncorrectStateTransition,
                 d2 |-> 0]>>
    ELSE [i \in 1..Cardinality(PortsOf(c.param)) |->
            CmdComplete(c.cmd, SetToSortSeq(PortsOf(c.param), <)[i])]

\* The preview buffers the component holds.
Held == {b \in FrameBufs : bufAt[b] = "ducati"}

\* A flush or disable of the preview port, or leaving Executing for Idle,
\* hands every held buffer back through FillBufferDone before the command
\* completes (OMX IL 1.1.2, 3.1.1.2 and 3.2.2.6).
ReturnsBuffers(c) ==
    \/ c.cmd \in {OMX_CommandFlush, OMX_CommandPortDisable} /\ PrevPort \in PortsOf(c.param)
    \/ /\ c.cmd = OMX_CommandStateSet /\ c.param = OMX_StateIdle
       /\ hwState = OMX_StateExecuting

\* The component accepts OMX_FillThisBuffer on the preview port while it is
\* enabled in Idle or Executing and no disable of it is queued.
AcceptsFill ==
    /\ OmxOk /\ prevEnabled
    /\ hwState \in {OMX_StateIdle, OMX_StateExecuting}
    /\ \A i \in DOMAIN hwCmds : ~(/\ hwCmds[i].cmd = OMX_CommandPortDisable
                                  /\ PrevPort \in PortsOf(hwCmds[i].param))

(* The component completes its oldest command; the buffers it hands back   *)
(* go, one FillBufferDone each, through OMXCameraAdapterFillBufferDone      *)
(* (2914-2935), which puts a CAMERA_FILL_BUFFER_DONE message on            *)
(* mOMXCallbackHandler's queue.                                            *)
HwCompleteCommand ==
    LET c    == Head(hwCmds)
        back == IF ReturnsBuffers(c) THEN SetToSeq(Held) ELSE <<>>
    IN  /\ HwCanRun
        /\ hwCmds' = Tail(hwCmds)
        /\ hwEvents' = hwEvents \o Completions(c)
        /\ fbdQ' = fbdQ \o back
        /\ bufAt' = [b \in FrameBufs |-> IF b \in Range(back) THEN "msg" ELSE bufAt[b]]
        /\ hwState' = IF c.cmd = OMX_CommandStateSet
                         /\ <<hwState, c.param>> \in LegalTransitions
                      THEN c.param ELSE hwState
        /\ prevEnabled' =
              CASE c.cmd = OMX_CommandPortDisable /\ PrevPort \in PortsOf(c.param)
                     -> FALSE
                [] c.cmd = OMX_CommandPortEnable /\ PrevPort \in PortsOf(c.param)
                     -> TRUE
                [] OTHER -> prevEnabled
        /\ UNCHANGED <<adapterVars, appVars, populated, histVars, cbpc, dpc,
                       staleHeader>>

\* A preview frame is filled: OMXCameraAdapterFillBufferDone (2914-2935) on
\* the component's thread posts it to mOMXCallbackHandler.
HwFillBufferDone(b) ==
    /\ mHandleComp /\ hwState = OMX_StateExecuting /\ prevEnabled
    /\ bufAt[b] = "ducati"
    /\ bufAt' = [bufAt EXCEPT ![b] = "msg"]
    /\ fbdQ' = Append(fbdQ, b)
    /\ UNCHANGED <<adapterVars, appVars, hwVars, histVars, cmdVars, cbpc, dpc,
                   staleHeader>>

\* The component fails: it drops its queued commands and reports the error.
HwFail ==
    /\ fatals < MaxFatal
    /\ mHandleComp
    /\ hwState # OMX_StateInvalid
    /\ fatals' = fatals + 1
    /\ hwState' = OMX_StateInvalid
    /\ hwCmds' = <<>>
    /\ hwEvents' = Append(hwEvents, [ev |-> OMX_EventError, d1 |-> OMX_ErrorHardware,
                                     d2 |-> 0])
    /\ UNCHANGED <<adapterVars, appVars, prevEnabled, populated, timeouts,
                   nullCall, badUnlock>>

\* Slip: SignalEvent signalling the matching entry without removing it.
EventHandlerKeepingEntry ==
    LET e     == Head(hwEvents)
        fatal == /\ e.ev = OMX_EventError
                 /\ e.d1 = OMX_ErrorHardware
                 /\ mComponentState # OMX_StateInvalid
    IN  /\ mHandleComp
        /\ hwEvents # <<>>
        /\ hwEvents' = Tail(hwEvents)
        /\ IF fatal
           THEN /\ mComponentState' = OMX_StateInvalid
                /\ sem' = [s \in Sems |-> sem[s] + DrainCount(mEventSignalQ, s)]
                /\ mEventSignalQ' = <<>>
           ELSE /\ sem' = SemSignal(sem, mEventSignalQ, e)
                /\ UNCHANGED <<mComponentState, mEventSignalQ>>
        /\ UNCHANGED <<mHandleComp, mOmxInitialized, mStateSwitchLock, appVars,
                       hwState, hwCmds, prevEnabled, populated, histVars>>

(* OMXCameraAdapterEventHandler (2625-2736), on the OMX callback thread,   *)
(* for the oldest undelivered event.  OMX_ErrorHardware while the adapter  *)
(* is not yet Invalid marks it Invalid, signals the semaphore of every     *)
(* registered entry and clears mEventSignalQ; every event then goes        *)
(* through SignalEvent (2738-2782).                                        *)
OMXCameraAdapterEventHandler ==
    LET e     == Head(hwEvents)
        fatal == /\ e.ev = OMX_EventError
                 /\ e.d1 = OMX_ErrorHardware
                 /\ mComponentState # OMX_StateInvalid
    IN  /\ mHandleComp
        /\ hwEvents # <<>>
        /\ hwEvents' = Tail(hwEvents)
        /\ IF fatal
           THEN /\ mComponentState' = OMX_StateInvalid
                /\ sem' = [s \in Sems |-> sem[s] + DrainCount(mEventSignalQ, s)]
                /\ mEventSignalQ' = <<>>
           ELSE /\ sem' = SemSignal(sem, mEventSignalQ, e)
                /\ mEventSignalQ' = WithoutMatch(mEventSignalQ, e.ev, e.d1, e.d2)
                /\ UNCHANGED mComponentState
        /\ UNCHANGED <<mHandleComp, mOmxInitialized, mStateSwitchLock, appVars,
                       hwState, hwCmds, prevEnabled, populated, histVars>>

-----------------------------------------------------------------------------
HwBusy == hwEvents # <<>> \/ HwCanRun

\* Slip: taking a signal that is not there (the count not tested).
WaitSignalledUnguarded ==
    /\ pc \in DOMAIN WaitSem
    /\ sem' = [sem EXCEPT ![WaitSem[pc]] = @ - 1]
    /\ waitOk' = TRUE
    /\ pc' = AfterWait[pc]
    /\ UNCHANGED <<mComponentState, mHandleComp, mOmxInitialized, mEventSignalQ,
                   mStateSwitchLock, call, phase, err, ret, retTo, calls,
                   hwVars, histVars>>

WaitSignalled ==
    /\ pc \in DOMAIN WaitSem
    /\ sem[WaitSem[pc]] > 0
    /\ sem' = [sem EXCEPT ![WaitSem[pc]] = @ - 1]
    /\ waitOk' = TRUE
    /\ pc' = AfterWait[pc]
    /\ UNCHANGED <<mComponentState, mHandleComp, mOmxInitialized, mEventSignalQ,
                   mStateSwitchLock, call, phase, err, ret, retTo, calls,
                   hwVars, histVars>>

WaitTimedOut ==
    /\ pc \in DOMAIN WaitSem
    /\ sem[WaitSem[pc]] = 0
    /\ HwBusy => timeouts < MaxTimeouts
    /\ timeouts' = IF HwBusy THEN timeouts + 1 ELSE timeouts
    /\ waitOk' = FALSE
    /\ pc' = AfterWait[pc]
    /\ UNCHANGED <<adapterVars, call, phase, err, ret, retTo, calls,
                   hwVars, fatals, nullCall, badUnlock>>

-----------------------------------------------------------------------------
(* The register / send / wait / check pattern every state change uses.    *)

\* RegisterForEvent(CmdComplete, cmd, param, s) then OMX_SendCommand(cmd,
\* param); a failed send goes to failPc where the code jumps to EXIT and
\* leaves the registration in place.
RegisterAndSend(cmd, param, s, okPc, failPc) ==
    /\ mEventSignalQ' = RegisterForEvent(mEventSignalQ, OMX_EventCmdComplete,
                                         cmd, param, s)
    /\ SendCommand(cmd, param)
    /\ pc' = IF OmxOk THEN okPc ELSE failPc
    /\ err' = (err \/ ~OmxOk)

\* After WaitTimeout: "if (mComponentState == OMX_StateInvalid) goto EXIT;"
\* then on success go on, on expiry RemoveEvent(CmdComplete, cmd, param)
\* and goto EXIT with ret holding the timeout.
CheckWait(cmd, param, okPc, exitPc) ==
    \/ /\ mComponentState = OMX_StateInvalid
       /\ pc' = exitPc
       /\ UNCHANGED <<mEventSignalQ, err>>
    \/ /\ mComponentState # OMX_StateInvalid
       /\ waitOk
       /\ pc' = okPc
       /\ UNCHANGED <<mEventSignalQ, err>>
    \/ /\ mComponentState # OMX_StateInvalid
       /\ ~waitOk
       /\ mEventSignalQ' = WithoutMatch(mEventSignalQ, OMX_EventCmdComplete,
                                        cmd, param)
       /\ pc' = exitPc
       /\ err' = TRUE

\* The variables a step of the service thread that only moves on leaves alone.
StepUnchanged ==
    UNCHANGED <<mComponentState, mHandleComp, mOmxInitialized, sem,
                mStateSwitchLock, call, phase, ret, waitOk, retTo, calls,
                hwState, hwEvents, prevEnabled, populated, timeouts, fatals,
                badUnlock>>

\* EXIT: performCleanupAfterError; the variables it leaves alone.
CleanupUnchanged ==
    UNCHANGED <<mOmxInitialized, mEventSignalQ, sem, call, waitOk, calls,
                hwState, prevEnabled, populated, timeouts, fatals,
                nullCall>>

-----------------------------------------------------------------------------
(* initialize (47-294)                                                     *)

initialize_NoInit ==
    /\ pc = "I_start"
    /\ sem["Init"] # 0
    /\ Return(TRUE)
    /\ UNCHANGED <<adapterVars, call, err, waitOk, retTo, calls, hwVars,
                   histVars>>

\* OMX_Init succeeds; OMXCameraGetHandle gives up after its retries.
initialize_GetHandleFails ==
    /\ pc = "I_start"
    /\ sem["Init"] = 0
    /\ mOmxInitialized' = TRUE
    /\ performCleanupAfterError
    /\ Return(TRUE)
    /\ UNCHANGED <<mEventSignalQ, sem, mStateSwitchLock, call, err, waitOk, retTo,
                   calls, hwState, prevEnabled, populated, timeouts, fatals,
                   nullCall, badUnlock>>

\* 70-118: a new component in Loaded, and OMX_ALL ports disabled without
\* registering for the completions.
initialize_GetHandle ==
    /\ pc = "I_start"
    /\ sem["Init"] = 0
    /\ mOmxInitialized' = TRUE
    /\ mHandleComp' = TRUE
    /\ mComponentState' = OMX_StateLoaded
    /\ hwState' = OMX_StateLoaded
    /\ hwCmds' = <<[cmd |-> OMX_CommandPortDisable, param |-> OMX_ALL]>>
    /\ hwEvents' = <<>>
    /\ prevEnabled' = TRUE
    /\ populated' = FALSE
    /\ pc' = "I_enable"
    /\ UNCHANGED <<mEventSignalQ, sem, mStateSwitchLock, call, phase, err, ret,
                   waitOk, retTo, calls, timeouts, fatals,
                   nullCall, badUnlock>>

\* 121-139: register for and send the preview port enable.
initialize_EnablePreview ==
    /\ pc = "I_enable"
    /\ RegisterAndSend(OMX_CommandPortEnable, PrevPort, "Init", "I_wait", "I_exit")
    /\ StepUnchanged

\* 142-294 after the wait: there is no Invalid check here.  The sensor
\* select SetConfig failing returns BAD_VALUE without cleanup; otherwise
\* 219-258 start the CommandHandler and OMXCallbackHandler threads (running
\* ones stay as they are).
initialize_Ready ==
    /\ pc = "I_after"
    /\ waitOk
    /\ NoteOmxCall
    /\ Return(~OmxOk)
    /\ hpc' = IF OmxOk /\ hpc = "none" THEN "idle" ELSE hpc
    /\ cbpc' = IF OmxOk /\ cbpc = "none" THEN "run" ELSE cbpc
    /\ UNCHANGED <<adapterVars, call, err, waitOk, retTo, calls, hwVars,
                   timeouts, fatals, badUnlock, cmdQ, bufAt, fbdQ, dpc,
                   staleHeader>>

\* 143-153: on expiry RemoveEvent and goto EXIT; eError is still
\* OMX_ErrorNone, and only eError is returned.
initialize_Timeout ==
    /\ pc = "I_after"
    /\ ~waitOk
    /\ mEventSignalQ' = WithoutMatch(mEventSignalQ, OMX_EventCmdComplete,
                                     OMX_CommandPortEnable, PrevPort)
    /\ pc' = "I_exit"
    /\ StepUnchanged
    /\ UNCHANGED <<err, nullCall, hwCmds>>

initialize_Exit ==
    /\ pc = "I_exit"
    /\ performCleanupAfterError
    /\ Return(err)
    /\ UNCHANGED <<mStateSwitchLock, err, retTo, badUnlock>>
    /\ CleanupUnchanged

-----------------------------------------------------------------------------
(* UseBuffersPreview (1501-1766), reached through useBuffers(CAMERA_PREVIEW) *)

UseBuffersPreview_NoInit ==
    /\ pc = "U_start"
    /\ sem["UsePreview"] # 0
    /\ Return(TRUE)
    /\ UNCHANGED <<adapterVars, call, err, waitOk, retTo, calls, hwVars,
                   histVars>>

\* 1537-1591: mStateSwitchLock.lock() (kept on every return below), then the
\* pending settings and the sensor orientation SetConfig, errors ignored.
UseBuffersPreview_Lock ==
    /\ pc = "U_start"
    /\ sem["UsePreview"] = 0
    /\ mStateSwitchLock = "free"
    /\ mStateSwitchLock' = "app"
    /\ NoteOmxCall
    /\ pc' = "U_register"
    /\ UNCHANGED <<mComponentState, mHandleComp, mOmxInitialized, mEventSignalQ, sem,
                   call, phase, err, ret, waitOk, retTo, calls, hwVars,
                   timeouts, fatals, badUnlock>>

\* 1593-1617: from Loaded, go to Idle.
UseBuffersPreview_ToIdle ==
    /\ pc = "U_register"
    /\ mComponentState = OMX_StateLoaded
    /\ RegisterAndSend(OMX_CommandStateSet, OMX_StateIdle, "UsePreview",
                       "U_setIdle", "U_exit")
    /\ StepUnchanged

\* 1618: the state is recorded as Idle before the transition completes.
UseBuffersPreview_SetIdle ==
    /\ pc = "U_setIdle"
    /\ mComponentState' = OMX_StateIdle
    /\ pc' = "U_useBuffer"
    /\ UNCHANGED <<mHandleComp, mOmxInitialized, mEventSignalQ, sem,
                   mStateSwitchLock, call, phase, err, ret, waitOk, retTo, calls,
                   hwVars, histVars>>

\* 1620-1641: otherwise enable the preview port; a failed send is ignored.
UseBuffersPreview_EnablePort ==
    /\ pc = "U_register"
    /\ mComponentState # OMX_StateLoaded
    /\ RegisterAndSend(OMX_CommandPortEnable, PrevPort, "UsePreview",
                       "U_useBuffer", "U_useBuffer")
    /\ StepUnchanged

\* 1643-1713: OMX_SetParameter and OMX_UseBuffer for every buffer.
UseBuffersPreview_UseBuffer ==
    /\ pc = "U_useBuffer"
    /\ NoteOmxCall
    /\ populated' = (populated \/ OmxOk)
    /\ pc' = IF OmxOk THEN "U_wait" ELSE "U_exit"
    /\ err' = (err \/ ~OmxOk)
    /\ UNCHANGED <<adapterVars, call, phase, ret, waitOk, retTo, calls,
                   hwState, hwCmds, hwEvents, prevEnabled, timeouts, fatals,
                   badUnlock>>

\* 1717-1754 after the wait.  On expiry the code removes the Idle entry only
\* if mComponentState is still Loaded; otherwise it SignalEvent()s a preview
\* port enable completion itself, which signals whatever entry that matches.
UseBuffersPreview_AfterWait ==
    /\ pc = "U_after"
    /\ \/ /\ mComponentState = OMX_StateInvalid
          /\ pc' = "U_exit"
          /\ UNCHANGED <<mEventSignalQ, sem, err, ret, phase>>
       \/ /\ mComponentState # OMX_StateInvalid
          /\ waitOk
          /\ Return(FALSE)
          /\ UNCHANGED <<mEventSignalQ, sem, err>>
       \/ /\ mComponentState # OMX_StateInvalid
          /\ ~waitOk
          /\ IF mComponentState = OMX_StateLoaded
             THEN /\ mEventSignalQ' = WithoutMatch(mEventSignalQ, OMX_EventCmdComplete,
                                            OMX_CommandStateSet, OMX_StateIdle)
                  /\ UNCHANGED sem
             ELSE LET e == CmdComplete(OMX_CommandPortEnable, PrevPort)
                  IN  /\ sem' = SemSignal(sem, mEventSignalQ, e)
                      /\ mEventSignalQ' = WithoutMatch(mEventSignalQ, e.ev, e.d1, e.d2)
          /\ pc' = "U_exit"
          /\ err' = TRUE
          /\ UNCHANGED <<ret, phase>>
    /\ UNCHANGED <<mComponentState, mHandleComp, mOmxInitialized, mStateSwitchLock,
                   call, waitOk, retTo, calls, hwVars, histVars>>

\* EXIT (1760-1765): cleanup; mStateSwitchLock stays locked.
UseBuffersPreview_Exit ==
    /\ pc = "U_exit"
    /\ performCleanupAfterError
    /\ Return(err)
    /\ UNCHANGED <<mStateSwitchLock, err, retTo, badUnlock>>
    /\ CleanupUnchanged

-----------------------------------------------------------------------------
(* startPreview (1768-1924)                                                *)

\* Unlock of mStateSwitchLock; unlocking a mutex nobody holds is recorded.
UnlockStateSwitch ==
    /\ mStateSwitchLock' = "free"
    /\ badUnlock' = (badUnlock \/ mStateSwitchLock # "app")

startPreview_NoInit ==
    /\ pc = "S_start"
    /\ sem["StartPreview"] # 0
    /\ Return(TRUE)
    /\ UNCHANGED <<adapterVars, call, err, waitOk, retTo, calls, hwVars,
                   histVars>>

\* 1788-1810: from Idle go to Executing; a failed send is only logged.
startPreview_ToExecuting ==
    /\ pc = "S_start"
    /\ sem["StartPreview"] = 0
    /\ mComponentState = OMX_StateIdle
    /\ RegisterAndSend(OMX_CommandStateSet, OMX_StateExecuting, "StartPreview",
                       "S_wait", "S_wait")
    /\ StepUnchanged

startPreview_NotIdle ==
    /\ pc = "S_start"
    /\ sem["StartPreview"] = 0
    /\ mComponentState # OMX_StateIdle
    /\ pc' = "S_unlock"
    /\ StepUnchanged
    /\ UNCHANGED <<mEventSignalQ, err, nullCall, hwCmds>>

startPreview_AfterWait ==
    /\ pc = "S_after"
    /\ CheckWait(OMX_CommandStateSet, OMX_StateExecuting, "S_setExec", "S_exit")
    /\ StepUnchanged
    /\ UNCHANGED <<nullCall, hwCmds>>

\* 1841: recorded as Executing after the check above, not atomically with it.
startPreview_SetExecuting ==
    /\ pc = "S_setExec"
    /\ mComponentState' = OMX_StateExecuting
    /\ pc' = "S_unlock"
    /\ UNCHANGED <<mHandleComp, mOmxInitialized, mEventSignalQ, sem,
                   mStateSwitchLock, call, phase, err, ret, waitOk, retTo, calls,
                   hwVars, histVars>>

\* 1845-1860: unlock, then queue the preview buffers (OMX_FillThisBuffer);
\* a failure goes to EXIT.  PREVIEW_ACTIVE is committed only when the call
\* has returned, so frames filled from here on are dropped until then.  The
\* code queues every header; a buffer the display or the callback queue
\* still holds from the last preview is left there (CameraHal's part).
startPreview_Queue ==
    /\ pc = "S_unlock"
    /\ OmxOk
    /\ UnlockStateSwitch
    /\ NoteOmxCall
    /\ bufAt' = [b \in FrameBufs |-> IF bufAt[b] = "cam" THEN "ducati" ELSE bufAt[b]]
    /\ pc' = "S_config"
    /\ UNCHANGED <<mComponentState, mHandleComp, mOmxInitialized, mEventSignalQ,
                   sem, call, phase, err, ret, waitOk, retTo, calls, hwVars,
                   timeouts, fatals, cmdVars, fbdQ, cbpc, dpc, staleHeader>>

\* 1897-1914: enable the ancillary data (OMX_SetConfig), EXIT on failure.
startPreview_Config ==
    /\ pc = "S_config"
    /\ NoteOmxCall
    /\ IF OmxOk
       THEN /\ Return(err)
            /\ UNCHANGED err
       ELSE /\ pc' = "S_exit"
            /\ err' = TRUE
            /\ UNCHANGED <<phase, ret>>
    /\ UNCHANGED <<adapterVars, call, waitOk, retTo, calls, hwVars, timeouts,
                   fatals, badUnlock>>

startPreview_QueueFails ==
    /\ pc = "S_unlock"
    /\ ~OmxOk
    /\ UnlockStateSwitch
    /\ NoteOmxCall
    /\ pc' = "S_exit"
    /\ err' = TRUE
    /\ UNCHANGED <<mComponentState, mHandleComp, mOmxInitialized, mEventSignalQ,
                   sem, call, phase, ret, waitOk, retTo, calls, hwVars,
                   timeouts, fatals>>

\* EXIT (1919-1923): cleanup and unlock again.
startPreview_Exit ==
    /\ pc = "S_exit"
    /\ performCleanupAfterError
    /\ UnlockStateSwitch
    /\ Return(err)
    /\ UNCHANGED <<err, retTo>>
    /\ CleanupUnchanged

-----------------------------------------------------------------------------
(* stopPreview (1926-2121) with flushBuffers (961-1040)                    *)

stopPreview_NotExecuting ==
    /\ pc = "P_start"
    /\ mComponentState # OMX_StateExecuting
    /\ Return(TRUE)
    /\ UNCHANGED <<adapterVars, call, err, waitOk, retTo, calls, hwVars,
                   histVars>>

\* 1950-1992: wait for the first frame (bounded), cancel autofocus and turn
\* focus assist off (OMX_SetConfig, errors ignored); then 1994-1998 return
\* NO_INIT if mStopPreviewSem is signalled.  disableImagePort (OMXCapture.cpp)
\* finds the image port disabled in preview and returns NO_ERROR.
stopPreview_Start ==
    /\ pc = "P_start"
    /\ mComponentState = OMX_StateExecuting
    /\ NoteOmxCall
    /\ IF sem["StopPreview"] # 0
       THEN Return(TRUE)
       ELSE /\ pc' = "F_start"
            /\ UNCHANGED <<ret, phase>>
    /\ UNCHANGED <<adapterVars, call, err, waitOk, retTo, calls, hwVars,
                   timeouts, fatals, badUnlock>>

\* flushBuffers 968-1002: NO_INIT when mFlushSem is signalled (stopPreview
\* then goes to its EXIT), else register for and send the flush.  A count
\* left on mFlushSem always comes with a cleanup to Invalid, after which
\* stopPreview returns before flushing, so the first branch is not reached.
flushBuffers_Flush ==
    /\ pc = "F_start"
    /\ IF sem["Flush"] # 0
       THEN /\ pc' = "P_exit"
            /\ err' = TRUE
            /\ UNCHANGED <<mEventSignalQ, nullCall, hwCmds>>
       ELSE RegisterAndSend(OMX_CommandFlush, PrevPort, "Flush", "F_wait", "F_exit")
    /\ StepUnchanged

\* flushBuffers 1004-1029
flushBuffers_AfterWait ==
    /\ pc = "F_after"
    /\ CheckWait(OMX_CommandFlush, PrevPort, "P_register", "F_exit")
    /\ StepUnchanged
    /\ UNCHANGED <<nullCall, hwCmds>>

\* flushBuffers EXIT (1035-1039) returns ret | eError, which is NO_ERROR on
\* the Invalid path; stopPreview 2008-2012 goes to its own EXIT only on an
\* error and otherwise carries on.
flushBuffers_Exit ==
    /\ pc = "F_exit"
    /\ performCleanupAfterError
    /\ pc' = IF err THEN "P_exit" ELSE "P_register"
    /\ UNCHANGED <<mStateSwitchLock, phase, err, ret, retTo, badUnlock>>
    /\ CleanupUnchanged

\* 2015-2064: register for and send the preview port disable (results not
\* checked), then OMX_FreeBuffer every buffer, a failure going to EXIT.
stopPreview_DisablePort ==
    /\ pc = "P_register"
    /\ mEventSignalQ' = RegisterForEvent(mEventSignalQ, OMX_EventCmdComplete,
                                         OMX_CommandPortDisable, PrevPort,
                                         "StopPreview")
    /\ SendCommand(OMX_CommandPortDisable, PrevPort)
    /\ populated' = (populated /\ ~OmxOk)
    /\ pc' = IF OmxOk THEN "P_wait" ELSE "P_exit"
    /\ err' = (err \/ ~OmxOk)
    /\ retTo' = "P_finish"
    /\ UNCHANGED <<mComponentState, mHandleComp, mOmxInitialized, sem,
                   mStateSwitchLock, call, phase, ret, waitOk, calls,
                   hwState, hwEvents, prevEnabled, timeouts, fatals,
                   badUnlock>>

\* 2066-2092, then switchToLoaded() at 2095.
stopPreview_AfterWait ==
    /\ pc = "P_after"
    /\ CheckWait(OMX_CommandPortDisable, PrevPort, "L_lock", "P_exit")
    /\ StepUnchanged
    /\ UNCHANGED <<nullCall, hwCmds>>

\* 2097-2107: the status of switchToLoaded is dropped; ret | eError is the
\* NO_ERROR of the port disable wait.
stopPreview_Finish ==
    /\ pc = "P_finish"
    /\ Return(FALSE)
    /\ UNCHANGED <<adapterVars, call, err, waitOk, retTo, calls, hwVars,
                   histVars>>

stopPreview_Exit ==
    /\ pc = "P_exit"
    /\ performCleanupAfterError
    /\ Return(err)
    /\ UNCHANGED <<mStateSwitchLock, err, retTo, badUnlock>>
    /\ CleanupUnchanged

-----------------------------------------------------------------------------
(* switchToLoaded (1314-1499): Idle, then Loaded, then re-enable the       *)
(* preview port, all under Mutex::Autolock(mStateSwitchLock).  It returns   *)
(* to retTo (stopPreview or the destructor, which both drop its status).   *)

\* 1321-1326: the Autolock blocks while the lock is held, by anyone.
switchToLoaded_Skip ==
    /\ pc = "L_lock"
    /\ mStateSwitchLock = "free"
    /\ mComponentState \in {OMX_StateLoaded, OMX_StateInvalid}
    /\ pc' = retTo
    /\ StepUnchanged
    /\ UNCHANGED <<mEventSignalQ, err, nullCall, hwCmds>>

\* 1328-1353: "goto EXIT" when mSwitchToLoadedSem is signalled, else go Idle.
switchToLoaded_ToIdle ==
    /\ pc = "L_lock"
    /\ mStateSwitchLock = "free"
    /\ mComponentState \notin {OMX_StateLoaded, OMX_StateInvalid}
    /\ mStateSwitchLock' = "app"
    /\ IF sem["SwitchToLoaded"] # 0
       THEN /\ pc' = "L_exit"
            /\ UNCHANGED <<mEventSignalQ, err, nullCall, hwCmds>>
       ELSE RegisterAndSend(OMX_CommandStateSet, OMX_StateIdle, "SwitchToLoaded",
                            "L_waitIdle", "L_exit")
    /\ UNCHANGED <<mComponentState, mHandleComp, mOmxInitialized, sem,
                   call, phase, ret, waitOk, retTo, calls,
                   hwState, hwEvents, prevEnabled, populated, timeouts, fatals,
                   badUnlock>>

switchToLoaded_AfterIdle ==
    /\ pc = "L_afterIdle"
    /\ CheckWait(OMX_CommandStateSet, OMX_StateIdle, "L_toLoaded", "L_exit")
    /\ StepUnchanged
    /\ UNCHANGED <<nullCall, hwCmds>>

\* 1397-1417
switchToLoaded_ToLoaded ==
    /\ pc = "L_toLoaded"
    /\ RegisterAndSend(OMX_CommandStateSet, OMX_StateLoaded, "SwitchToLoaded",
                       "L_waitLoaded", "L_exit")
    /\ StepUnchanged

switchToLoaded_AfterLoaded ==
    /\ pc = "L_afterLoaded"
    /\ CheckWait(OMX_CommandStateSet, OMX_StateLoaded, "L_setLoaded", "L_exit")
    /\ StepUnchanged
    /\ UNCHANGED <<nullCall, hwCmds>>

\* 1440-1466: recorded as Loaded, then re-enable the preview port.
switchToLoaded_SetLoaded ==
    /\ pc = "L_setLoaded"
    /\ mComponentState' = OMX_StateLoaded
    /\ RegisterAndSend(OMX_CommandPortEnable, PrevPort, "SwitchToLoaded",
                       "L_waitEnable", "L_exit")
    /\ UNCHANGED <<mHandleComp, mOmxInitialized, sem, mStateSwitchLock, call,
                   phase, ret, waitOk, retTo, calls, hwState, hwEvents,
                   prevEnabled, populated, timeouts, fatals,
                   badUnlock>>

switchToLoaded_AfterEnable ==
    /\ pc = "L_afterEnable"
    /\ CheckWait(OMX_CommandPortEnable, PrevPort, "L_done", "L_exit")
    /\ StepUnchanged
    /\ UNCHANGED <<nullCall, hwCmds>>

\* 1492: return, the Autolock releasing the lock.
switchToLoaded_Done ==
    /\ pc = "L_done"
    /\ pc' = retTo
    /\ mStateSwitchLock' = "free"
    /\ UNCHANGED <<mComponentState, mHandleComp, mOmxInitialized, mEventSignalQ,
                   sem, call, phase, err, ret, waitOk, retTo, calls,
                   hwVars, histVars>>

\* EXIT (1494-1498)
switchToLoaded_Exit ==
    /\ pc = "L_exit"
    /\ performCleanupAfterError
    /\ mStateSwitchLock' = "free"
    /\ pc' = retTo
    /\ UNCHANGED <<phase, err, ret, retTo, badUnlock>>
    /\ CleanupUnchanged

-----------------------------------------------------------------------------
(* ~OMXCameraAdapter after switchToLoaded (3535-3564): free the handle in  *)
(* Loaded or Invalid, OMX_Deinit, then signal every entry left in          *)
(* mEventSignalQ and clear it.  The command handler is stopped next.       *)
Destructor_Free ==
    /\ pc = "D_free"
    /\ LET free == mOmxInitialized /\ mHandleComp
                   /\ mComponentState \in {OMX_StateLoaded, OMX_StateInvalid}
       IN  /\ mHandleComp' = (mHandleComp /\ ~free)
           /\ hwCmds' = IF free THEN <<>> ELSE hwCmds
           /\ hwEvents' = IF free THEN <<>> ELSE hwEvents
    /\ mOmxInitialized' = FALSE
    /\ sem' = [s \in Sems |-> sem[s] + DrainCount(mEventSignalQ, s)]
    /\ mEventSignalQ' = <<>>
    /\ pc' = "D_stopCmd"
    /\ UNCHANGED <<mComponentState, mStateSwitchLock, call, phase, err, ret,
                   waitOk, retTo, calls, hwState, prevEnabled, populated,
                   timeouts, fatals, nullCall, badUnlock>>

\* 3566-3576: clearCommandQ(), put(COMMAND_EXIT), requestExitAndWait().
Destructor_StopCommandHandler ==
    /\ pc = "D_stopCmd"
    /\ IF hpc = "none"
       THEN /\ pc' = "D_stopCb"
            /\ UNCHANGED cmdQ
       ELSE /\ pc' = "D_join"
            /\ cmdQ' = <<"exit">>
    /\ UNCHANGED <<adapterVars, call, phase, err, ret, waitOk, retTo, calls,
                   hwVars, histVars, hpc>>

Destructor_Join ==
    /\ pc = "D_join"
    /\ hpc = "gone"
    /\ pc' = "D_stopCb"
    /\ UNCHANGED <<adapterVars, call, phase, err, ret, waitOk, retTo, calls,
                   hwVars, histVars, cmdVars>>

\* 3578-3588: the same for mOMXCallbackHandler; the FillBufferDone messages
\* still queued are dropped by clearCommandQ().
Destructor_StopCallbackHandler ==
    /\ pc = "D_stopCb"
    /\ IF cbpc = "none"
       THEN /\ pc' = "gone"
            /\ UNCHANGED <<bufAt, fbdQ>>
       ELSE /\ pc' = "D_joinCb"
            /\ fbdQ' = <<"exit">>
            /\ bufAt' = [b \in FrameBufs |-> IF bufAt[b] = "msg" THEN "cam" ELSE bufAt[b]]
    /\ UNCHANGED <<adapterVars, call, phase, err, ret, waitOk, retTo, calls,
                   hwVars, histVars, cmdVars, cbpc, dpc, staleHeader>>

Destructor_JoinCallbackHandler ==
    /\ pc = "D_joinCb"
    /\ cbpc = "gone"
    /\ pc' = "gone"
    /\ UNCHANGED <<adapterVars, call, phase, err, ret, waitOk, retTo, calls,
                   hwVars, histVars, cmdVars, frameVars>>

-----------------------------------------------------------------------------
\* Slip: posting the request without taking mStateSwitchLock.
SwitchToExecutingWithoutLock ==
    /\ pc = "T_start"
    /\ cmdQ' = IF hpc = "none" THEN cmdQ ELSE Append(cmdQ, "switch")
    /\ nullCall' = (nullCall \/ hpc = "none")
    /\ Return(FALSE)
    /\ UNCHANGED <<mComponentState, mHandleComp, mOmxInitialized, mEventSignalQ,
                   sem, mStateSwitchLock, call, err, waitOk, retTo, calls, hwVars,
                   timeouts, fatals, badUnlock, hpc>>

(* switchToExecuting (1197-1212) runs on the calling thread: it locks     *)
(* mStateSwitchLock and posts CAMERA_SWITCH_TO_EXECUTING; the command     *)
(* handler thread runs doSwitchToExecuting, which unlocks it.  When        *)
(* initialize never reached 219-221, mCommandHandler is NULL and put()     *)
(* dereferences it: recorded with the NULL handle calls, nothing posted.   *)
switchToExecuting ==
    /\ pc = "T_start"
    /\ mStateSwitchLock = "free"
    /\ mStateSwitchLock' = "app"
    /\ cmdQ' = IF hpc = "none" THEN cmdQ ELSE Append(cmdQ, "switch")
    /\ nullCall' = (nullCall \/ hpc = "none")
    /\ Return(FALSE)
    /\ UNCHANGED <<mComponentState, mHandleComp, mOmxInitialized, mEventSignalQ,
                   sem, call, err, waitOk, retTo, calls, hwVars, timeouts, fatals,
                   badUnlock, hpc>>

\* CommandHandler::Handler (3382-3430): take the oldest message; a failed
\* task's status is dropped and the loop goes on; COMMAND_EXIT ends it.
CommandHandler_Switch ==
    /\ hpc = "idle"
    /\ cmdQ # <<>>
    /\ Head(cmdQ) = "switch"
    /\ cmdQ' = Tail(cmdQ)
    /\ hpc' = "X_start"
    /\ UNCHANGED <<adapterVars, appVars, hwVars, histVars>>

CommandHandler_Exit ==
    /\ hpc = "idle"
    /\ cmdQ # <<>>
    /\ Head(cmdQ) = "exit"
    /\ cmdQ' = Tail(cmdQ)
    /\ hpc' = "gone"
    /\ UNCHANGED <<adapterVars, appVars, hwVars, histVars>>

(* doSwitchToExecuting (1214-1310) on the command handler thread.  Every   *)
(* wait is on mSwitchToExecSem; no expiry removes its registration.        *)

\* The variables a step of the handler that only registers, sends or moves
\* on leaves alone.
HandlerUnchanged ==
    UNCHANGED <<mComponentState, mHandleComp, mOmxInitialized, sem,
                mStateSwitchLock, appVars, hwState, hwEvents, prevEnabled,
                populated, timeouts, fatals, badUnlock, cmdQ>>

\* RegisterForEvent(CmdComplete, cmd, param, mSwitchToExecSem), then
\* OMX_SendCommand; failPc is where a failed send leads.
HandlerRegisterAndSend(cmd, param, okPc, failPc) ==
    /\ mEventSignalQ' = RegisterForEvent(mEventSignalQ, OMX_EventCmdComplete,
                                         cmd, param, "SwitchToExec")
    /\ SendCommand(cmd, param)
    /\ hpc' = IF OmxOk THEN okPc ELSE failPc

\* Slip: the early return leaving mStateSwitchLock locked.
DoneKeepingLock ==
    /\ hpc = "X_start"
    /\ mComponentState \in {OMX_StateExecuting, OMX_StateInvalid}
    /\ hpc' = "idle"
    /\ UNCHANGED <<mComponentState, mHandleComp, mOmxInitialized, mEventSignalQ,
                   sem, mStateSwitchLock, appVars, hwVars, histVars, cmdQ>>

\* 1220-1224: nothing to do in Executing or Invalid; unlock and return.
doSwitchToExecuting_Done ==
    /\ hpc = "X_start"
    /\ mComponentState \in {OMX_StateExecuting, OMX_StateInvalid}
    /\ UnlockStateSwitch
    /\ hpc' = "idle"
    /\ UNCHANGED <<mComponentState, mHandleComp, mOmxInitialized, mEventSignalQ,
                   sem, appVars, hwVars, timeouts, fatals, nullCall, cmdQ>>

\* 1226-1245: goto EXIT on a pending count, else register for and send the
\* preview port disable, its OMX_SendCommand result not checked.
doSwitchToExecuting_DisablePort ==
    /\ hpc = "X_start"
    /\ mComponentState \notin {OMX_StateExecuting, OMX_StateInvalid}
    /\ IF sem["SwitchToExec"] # 0
       THEN /\ hpc' = "X_exit"
            /\ UNCHANGED <<mEventSignalQ, nullCall, hwCmds>>
       ELSE HandlerRegisterAndSend(OMX_CommandPortDisable, PrevPort,
                                   "X_waitPD", "X_waitPD")
    /\ HandlerUnchanged

\* 1253-1268: register for and send Idle; a failed send goes to EXIT.
doSwitchToExecuting_ToIdle ==
    /\ hpc = "X_toIdle"
    /\ HandlerRegisterAndSend(OMX_CommandStateSet, OMX_StateIdle,
                              "X_waitIdle", "X_exit")
    /\ HandlerUnchanged

\* 1274-1292: recorded as Idle, then register for and send Executing.
doSwitchToExecuting_SetIdle ==
    /\ hpc = "X_setIdle"
    /\ mComponentState' = OMX_StateIdle
    /\ HandlerRegisterAndSend(OMX_CommandStateSet, OMX_StateExecuting,
                              "X_waitExec", "X_exit")
    /\ UNCHANGED <<mHandleComp, mOmxInitialized, sem, mStateSwitchLock, appVars,
                   hwState, hwEvents, prevEnabled, populated, timeouts, fatals,
                   badUnlock, cmdQ>>

\* 1298-1304: recorded as Executing, unlock, return.
doSwitchToExecuting_SetExecuting ==
    /\ hpc = "X_setExec"
    /\ mComponentState' = OMX_StateExecuting
    /\ UnlockStateSwitch
    /\ hpc' = "idle"
    /\ UNCHANGED <<mHandleComp, mOmxInitialized, mEventSignalQ, sem, appVars,
                   hwVars, timeouts, fatals, nullCall, cmdQ>>

\* EXIT (1306-1310): cleanup and unlock.
doSwitchToExecuting_Exit ==
    /\ hpc = "X_exit"
    /\ performCleanupAfterError
    /\ UnlockStateSwitch
    /\ hpc' = "idle"
    /\ UNCHANGED <<mOmxInitialized, mEventSignalQ, sem, appVars, hwState,
                   prevEnabled, populated, timeouts, fatals, nullCall, cmdQ>>

\* WaitTimeout on mSwitchToExecSem (1246, 1269, 1293), bounded as the
\* service thread's waits are.  Only the checks after the Idle and Executing
\* waits goto EXIT on expiry; after the port disable the expiry is logged.
HandlerWait == [X_waitPD   |-> [ok |-> "X_toIdle",  late |-> "X_toIdle"],
                X_waitIdle |-> [ok |-> "X_setIdle", late |-> "X_exit"],
                X_waitExec |-> [ok |-> "X_setExec", late |-> "X_exit"]]

doSwitchToExecuting_Signalled ==
    /\ hpc \in DOMAIN HandlerWait
    /\ sem["SwitchToExec"] > 0
    /\ sem' = [sem EXCEPT !["SwitchToExec"] = @ - 1]
    /\ hpc' = HandlerWait[hpc].ok
    /\ UNCHANGED <<mComponentState, mHandleComp, mOmxInitialized, mEventSignalQ,
                   mStateSwitchLock, appVars, hwVars, histVars, cmdQ>>

doSwitchToExecuting_TimedOut ==
    /\ hpc \in DOMAIN HandlerWait
    /\ sem["SwitchToExec"] = 0
    /\ HwBusy => timeouts < MaxTimeouts
    /\ timeouts' = IF HwBusy THEN timeouts + 1 ELSE timeouts
    /\ hpc' = HandlerWait[hpc].late
    /\ UNCHANGED <<adapterVars, appVars, hwVars, fatals, nullCall, badUnlock,
                   cmdQ>>

-----------------------------------------------------------------------------
(* The frame path.  PREVIEW_ACTIVE is BaseCameraAdapter's committed state  *)
(* (outside this repository): set when startPreview has returned NO_ERROR  *)
(* and cleared when stopPreview has, which is the service's phase.  A      *)
(* buffer header lives from OMX_UseBuffer to OMX_FreeBuffer or the freeing *)
(* of the component.                                                        *)
PreviewActive == phase = "preview"
HeaderLive == mHandleComp /\ populated

(* OMXCallbackHandler::Handler (3432-3462) takes the oldest message.  For  *)
(* CAMERA_FILL_BUFFER_DONE, OMXCameraAdapterFillBufferDone (2940-3199)     *)
(* reads the header (nOutputPortIndex, pBuffer) first; on the preview port *)
(* it returns unless PREVIEW_ACTIVE, and otherwise sendCallBacks hands the *)
(* frame to the subscribers, the display among them.                       *)
OMXCallbackHandler_FillBufferDone ==
    LET b == Head(fbdQ)
    IN  /\ cbpc = "run"
        /\ fbdQ # <<>>
        /\ b # "exit"
        /\ fbdQ' = Tail(fbdQ)
        /\ staleHeader' = (staleHeader \/ ~HeaderLive)
        /\ bufAt' = [bufAt EXCEPT ![b] = IF PreviewActive THEN "display" ELSE "cam"]
        /\ UNCHANGED <<adapterVars, appVars, hwVars, histVars, cmdVars, cbpc, dpc>>

OMXCallbackHandler_Exit ==
    /\ cbpc = "run"
    /\ fbdQ # <<>>
    /\ Head(fbdQ) = "exit"
    /\ fbdQ' = Tail(fbdQ)
    /\ cbpc' = "gone"
    /\ UNCHANGED <<adapterVars, appVars, hwVars, histVars, cmdVars, bufAt, dpc,
                   staleHeader>>

(* fillThisBuffer (337-356) on the display thread, for a frame the display *)
(* gives back: NO_INIT unless PREVIEW_ACTIVE, the frame then left with the *)
(* camera HAL; otherwise go on with the frame.                              *)
fillThisBuffer_Check ==
    /\ dpc = "idle"
    /\ \E b \in FrameBufs :
          /\ bufAt[b] = "display"
          /\ IF PreviewActive
             THEN /\ dpc' = b
                  /\ UNCHANGED bufAt
             ELSE /\ bufAt' = [bufAt EXCEPT ![b] = "cam"]
                  /\ UNCHANGED dpc
    /\ UNCHANGED <<adapterVars, appVars, hwVars, histVars, cmdVars, fbdQ, cbpc,
                   staleHeader>>

(* 368-398: scan mBufferHeader[i]->pBuffer for the frame and              *)
(* OMX_FillThisBuffer it.  On an error, EXIT (400-407) runs               *)
(* performCleanupAfterError on the display thread.  A freed header is read *)
(* without knowing it: the scan may then find no match and do nothing.     *)
fillThisBuffer_Queue ==
    /\ dpc \in FrameBufs
    /\ dpc' = "idle"
    /\ staleHeader' = (staleHeader \/ ~HeaderLive)
    /\ \/ /\ AcceptsFill /\ HeaderLive
          /\ bufAt' = [bufAt EXCEPT ![dpc] = "ducati"]
          /\ NoteOmxCall
          /\ UNCHANGED <<mComponentState, mHandleComp, hwCmds, hwEvents>>
       \/ /\ ~(AcceptsFill /\ HeaderLive)
          /\ bufAt' = [bufAt EXCEPT ![dpc] = "cam"]
          /\ NoteOmxCall
          /\ performCleanupAfterError
       \/ /\ ~HeaderLive
          /\ bufAt' = [bufAt EXCEPT ![dpc] = "cam"]
          /\ UNCHANGED <<mComponentState, mHandleComp, hwCmds, hwEvents, nullCall>>
    /\ UNCHANGED <<mOmxInitialized, mEventSignalQ, sem, mStateSwitchLock, appVars,
                   hwState, prevEnabled, populated, timeouts, fatals, badUnlock,
                   cmdVars, fbdQ, cbpc>>

-----------------------------------------------------------------------------
(* The constructor (3484-3522): no component, state Invalid, every         *)
(* semaphore created with count 0.                                         *)
Init ==
    /\ mComponentState = OMX_StateInvalid
    /\ mHandleComp = FALSE
    /\ mOmxInitialized = FALSE
    /\ mEventSignalQ = <<>>
    /\ sem = [s \in Sems |-> 0]
    /\ mStateSwitchLock = "free"
    /\ pc = "caller"
    /\ call = "none"
    /\ phase = "new"
    /\ err = FALSE
    /\ ret = "ok"
    /\ waitOk = FALSE
    /\ retTo = "caller"
    /\ calls = 0
    /\ hwState = OMX_StateInvalid
    /\ hwCmds = <<>>
    /\ hwEvents = <<>>
    /\ prevEnabled = FALSE
    /\ populated = FALSE
    /\ timeouts = 0
    /\ fatals = 0
    /\ nullCall = FALSE
    /\ badUnlock = FALSE
    /\ cmdQ = <<>>
    /\ hpc = "none"
    /\ bufAt = [b \in FrameBufs |-> "cam"]
    /\ fbdQ = <<>>
    /\ cbpc = "none"
    /\ dpc = "idle"
    /\ staleHeader = FALSE

ServiceStep ==
    /\ \/ \E f \in DOMAIN Entry : Call(f)
       \/ Destroy
    /\ UNCHANGED <<cmdVars, frameVars>>

PreviewStep ==
    \/ initialize_NoInit \/ initialize_GetHandleFails \/ initialize_GetHandle
    \/ initialize_EnablePreview \/ initialize_Timeout
    \/ initialize_Exit
    \/ UseBuffersPreview_NoInit \/ UseBuffersPreview_Lock
    \/ UseBuffersPreview_ToIdle \/ UseBuffersPreview_SetIdle
    \/ UseBuffersPreview_EnablePort \/ UseBuffersPreview_UseBuffer
    \/ UseBuffersPreview_AfterWait \/ UseBuffersPreview_Exit
    \/ startPreview_NoInit \/ startPreview_ToExecuting \/ startPreview_NotIdle
    \/ startPreview_AfterWait \/ startPreview_SetExecuting \/ startPreview_Config
    \/ startPreview_QueueFails \/ startPreview_Exit
    \/ stopPreview_NotExecuting \/ stopPreview_Start \/ flushBuffers_Flush \/ flushBuffers_AfterWait \/ flushBuffers_Exit
    \/ stopPreview_DisablePort \/ stopPreview_AfterWait \/ stopPreview_Finish
    \/ stopPreview_Exit
    \/ switchToLoaded_Skip \/ switchToLoaded_ToIdle \/ switchToLoaded_AfterIdle
    \/ switchToLoaded_ToLoaded \/ switchToLoaded_AfterLoaded
    \/ switchToLoaded_SetLoaded \/ switchToLoaded_AfterEnable
    \/ switchToLoaded_Done \/ switchToLoaded_Exit
    \/ Destructor_Free
    \/ WaitSignalled \/ WaitTimedOut

\* The service thread's steps.
AdapterStep ==
    \/ PreviewStep /\ UNCHANGED <<cmdVars, frameVars>>
    \/ initialize_Ready \/ startPreview_Queue
    \/ /\ \/ switchToExecuting
          \/ Destructor_StopCommandHandler \/ Destructor_Join
       /\ UNCHANGED frameVars
    \/ Destructor_StopCallbackHandler \/ Destructor_JoinCallbackHandler

\* The command handler thread's steps.
HandlerStep ==
    /\ \/ CommandHandler_Switch \/ CommandHandler_Exit
       \/ doSwitchToExecuting_Done \/ doSwitchToExecuting_DisablePort
       \/ doSwitchToExecuting_ToIdle \/ doSwitchToExecuting_SetIdle
       \/ doSwitchToExecuting_SetExecuting \/ doSwitchToExecuting_Exit
       \/ doSwitchToExecuting_Signalled \/ doSwitchToExecuting_TimedOut
    /\ UNCHANGED frameVars

\* The OMXCallbackHandler thread's steps.
CallbackStep == OMXCallbackHandler_FillBufferDone \/ OMXCallbackHandler_Exit

\* The display thread returning frames.
DisplayStep == fillThisBuffer_Check \/ fillThisBuffer_Queue

ComponentStep ==
    \/ HwCompleteCommand /\ UNCHANGED cmdVars
    \/ (HwFail \/ OMXCameraAdapterEventHandler) /\ UNCHANGED <<cmdVars, frameVars>>
    \/ \E b \in FrameBufs : HwFillBufferDone(b)

Next == ServiceStep \/ AdapterStep \/ HandlerStep \/ CallbackStep \/ DisplayStep
        \/ ComponentStep

(* Every thread runs while it can: the service thread, the command handler *)
(* thread, the OMXCallbackHandler thread, the display thread returning     *)
(* frames, the callback thread delivering events, and the component        *)
(* completing the commands it holds.  The service eventually destroys the *)
(* adapter.  HwFail and the filling of frames are not fair.               *)
Fairness ==
    /\ WF_vars(AdapterStep)
    /\ WF_vars(HandlerStep)
    /\ WF_vars(CallbackStep)
    /\ WF_vars(DisplayStep)
    /\ WF_vars(Destroy /\ UNCHANGED <<cmdVars, frameVars>>)
    /\ WF_vars(HwCompleteCommand /\ UNCHANGED cmdVars)
    /\ WF_vars(OMXCameraAdapterEventHandler /\ UNCHANGED <<cmdVars, frameVars>>)

Spec == Init /\ [][Next]_vars /\ Fairness

-----------------------------------------------------------------------------
Labels == {"caller", "gone", "D_free", "D_stopCmd", "D_join", "D_stopCb",
           "D_joinCb", "T_start"}
          \cup DOMAIN WaitSem
          \cup {AfterWait[l] : l \in DOMAIN AfterWait}
          \cup {"I_start", "I_enable", "I_exit", "U_start", "U_register",
                "U_setIdle", "U_useBuffer", "U_exit", "S_start", "S_setExec",
                "S_unlock", "S_config", "S_exit", "P_start", "F_start", "F_exit",
                "P_register", "P_finish", "P_exit", "L_lock", "L_toLoaded",
                "L_setLoaded", "L_done", "L_exit"}

TypeOK ==
    /\ mComponentState \in OMXStates
    /\ mHandleComp \in BOOLEAN /\ mOmxInitialized \in BOOLEAN
    /\ mEventSignalQ \in Seq([command : {OMX_EventCmdComplete}, arg1 : Nat,
                              arg2 : Nat, arg3 : Sems])
    /\ sem \in [Sems -> Nat]
    /\ mStateSwitchLock \in {"free", "app"}
    /\ pc \in Labels /\ retTo \in Labels
    /\ phase \in DOMAIN Allowed \cup {"new"}
    /\ ret \in {"ok", "err"}
    /\ hwState \in OMXStates
    /\ hwCmds \in Seq([cmd : Nat, param : Nat])
    /\ hwEvents \in Seq([ev : Nat, d1 : Nat, d2 : Nat])
    /\ cmdQ \in Seq({"switch", "exit"})
    /\ hpc \in {"none", "idle", "gone", "X_start", "X_toIdle", "X_setIdle",
                "X_setExec", "X_exit"} \cup DOMAIN HandlerWait
    /\ bufAt \in [FrameBufs -> {"cam", "ducati", "msg", "display"}]
    /\ fbdQ \in Seq(FrameBufs \cup {"exit"})
    /\ cbpc \in {"none", "run", "gone"}
    /\ dpc \in FrameBufs \cup {"idle"}

\* No thread of the adapter is inside an operation: the service thread is
\* between calls and the command handler waits on an empty mCommandMsgQ.
Quiescent == pc = "caller" /\ hpc \in {"none", "idle"} /\ cmdQ = <<>>

(* When a call has returned NO_ERROR, no posted switch is still running,  *)
(* and neither side knows of a failure, the state the adapter records in  *)
(* mComponentState is the state the component is really in: every wait    *)
(* that let the call succeed was ended by the completion it registered for.*)
StateAgreement ==
    (/\ Quiescent /\ ret = "ok" /\ mHandleComp
     /\ mComponentState # OMX_StateInvalid /\ hwState # OMX_StateInvalid)
    => mComponentState = hwState

(* No OMX call is made through mHandleComp after performCleanupAfterError *)
(* has set it to NULL, and no request is put through a NULL mCommandHandler.*)
NoCallOnFreedHandle == ~nullCall

(* mStateSwitchLock is only unlocked by the thread holding it: startPreview *)
(* unlocks at 1845 and again on its EXIT path.                              *)
NoUnlockOfFreeLock == ~badUnlock

(* Once the adapter has recorded the component as Invalid, only a new     *)
(* initialize (a new handle) leaves Invalid: the fatal error handler's     *)
(* verdict is never overwritten by a thread that checked the state before. *)
InvalidIsFinal ==
    [][mComponentState = OMX_StateInvalid
       => (mComponentState' = OMX_StateInvalid \/ pc = "I_start")]_mComponentState

(* Between calls and switches, while the component is usable, no          *)
(* registration is left in mEventSignalQ and no semaphore holds a stale   *)
(* Signal: every wait's entry was consumed by its completion or removed on *)
(* expiry, so the next call neither returns NO_INIT nor wakes early.       *)
NothingLeftBehind ==
    (Quiescent /\ mComponentState # OMX_StateInvalid)
    => /\ mEventSignalQ = <<>>
       /\ \A s \in Sems : sem[s] = 0

(* The camera service can always destroy the adapter: the destructor runs *)
(* to its end, whatever failures and expiries happened before.             *)
DestroyCompletes == <>(pc = "gone")

\* A CAMERA_SWITCH_TO_EXECUTING request is queued or being run.
SwitchPending == "switch" \in Range(cmdQ) \/ hpc \notin {"none", "idle", "gone"}

(* doSwitchToExecuting runs on the command handler thread, serialised with *)
(* the service thread's state changes only by mStateSwitchLock, which      *)
(* switchToExecuting takes on the calling thread: while a switch is queued *)
(* or running, the service thread is between calls or blocked on the lock  *)
(* (in useBuffers, switchToExecuting or the destructor's switchToLoaded), *)
(* never sending commands of its own.                                       *)
SwitchSerialized ==
    SwitchPending => pc \in {"caller", "U_start", "T_start", "L_lock"}

(* Every switch request switchToExecuting posts is run by the command     *)
(* handler, and the mStateSwitchLock it took on the calling thread is      *)
(* released on every return path of doSwitchToExecuting: a request is      *)
(* never left behind with the lock held (not by the destructor's           *)
(* clearCommandQ either), which would block the service's next call.       *)
SwitchReleasesLock ==
    SwitchPending ~> (~SwitchPending /\ mStateSwitchLock = "free")

(* The OMXCallbackHandler thread (OMXCameraAdapterFillBufferDone) and the  *)
(* display thread (fillThisBuffer) dereference a preview buffer header     *)
(* only while it is allocated: between OMX_UseBuffer and the OMX_FreeBuffer *)
(* of stopPreview, and while the component exists.                         *)
HeaderUsedWhileAllocated == ~staleHeader
=============================================================================
