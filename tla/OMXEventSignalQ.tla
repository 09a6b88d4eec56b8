--------------------------- MODULE OMXEventSignalQ ---------------------------
(***************************************************************************)
(* The event registry of OMXCameraAdapter (mEventSignalQ): a list of       *)
(* TIUTILS::Message records {command, arg1, arg2, arg3 = semaphore}        *)
(* appended by RegisterForEvent and consumed by SignalEvent (which signals  *)
(* the semaphore) or RemoveEvent (which does not).  Both scan in insertion *)
(* order and take the first entry accepted by the test at lines 2758-2761, *)
(* where a zero argument is a wildcard.                                    *)
(*                                                                         *)
(* The OMX enumeration values are those of the Khronos OMX_Core.h that the *)
(* adapter is built against; the test depends on them because it compares *)
(* the stored arguments with 0.                                            *)
(***************************************************************************)
EXTENDS Naturals, Sequences
LOCAL INSTANCE SequencesExt

\* OMX_EVENTTYPE
OMX_EventCmdComplete == 0
OMX_EventError == 1
\* OMX_COMMANDTYPE
OMX_CommandStateSet == 0
OMX_CommandFlush == 1
OMX_CommandPortDisable == 2
OMX_CommandPortEnable == 3
\* OMX_STATETYPE
OMX_StateInvalid == 0
OMX_StateLoaded == 1
OMX_StateIdle == 2
OMX_StateExecuting == 3
\* OMX_ERRORTYPE values reported in OMX_EventError (nData1): 0x80001009 and
\* 0x80001017 exceed TLC's integers; the code only tests them for equality
\* and against 0, which these distinct nonzero stand-ins preserve.
OMX_ErrorHardware == 1009
OMX_ErrorIncorrectStateTransition == 1017
\* nParam of a port command addressing every port (0xFFFFFFFF, stand-in)
OMX_ALL == 255

(* RegisterForEvent (2827-2858): the message appended to mEventSignalQ.    *)
(* The allocation failure branch (malloc / add returning NO_MEMORY) is not *)
(* modelled: the list holds at most a handful of entries.                  *)
EventMsg(eEvent, nData1, nData2, semaphore) ==
    [command |-> eEvent, arg1 |-> nData1, arg2 |-> nData2, arg3 |-> semaphore]

RegisterForEvent(q, eEvent, nData1, nData2, semaphore) ==
    Append(q, EventMsg(eEvent, nData1, nData2, semaphore))

(* Slips in the entry test: the command (nData1) not compared at all.    *)
EventMatchesAnyCommand(msg, eEvent, nData1, nData2) ==
    /\ msg.command # 0 \/ msg.command = eEvent
    /\ msg.arg2 = 0 \/ msg.arg2 = nData2

(* The entry test shared by SignalEvent and RemoveEvent (2758-2761 and     *)
(* 2803-2806).  The first conjunct is written "command != 0 || command ==  *)
(* eEvent" in the code; a zero argument accepts any value.  arg3 is always *)
(* a semaphore here (every caller passes one), so "&& msg->arg3" is TRUE.  *)
EventMatches(msg, eEvent, nData1, nData2) ==
    /\ msg.command # 0 \/ msg.command = eEvent
    /\ msg.arg1 = 0 \/ msg.arg1 = nData1
    /\ msg.arg2 = 0 \/ msg.arg2 = nData2

(* The scan loop of SignalEvent/RemoveEvent: the index of the first entry  *)
(* that matches, 0 when none does.  Written as the loop it translates.     *)
RECURSIVE ScanFrom(_, _, _, _, _)
ScanFrom(q, i, eEvent, nData1, nData2) ==
    IF i > Len(q) THEN 0
    ELSE IF EventMatches(q[i], eEvent, nData1, nData2) THEN i
    ELSE ScanFrom(q, i + 1, eEvent, nData1, nData2)

MatchIndex(q, eEvent, nData1, nData2) == ScanFrom(q, 1, eEvent, nData1, nData2)

(* The queue after SignalEvent or RemoveEvent (removeAt(i) of the match).  *)
WithoutMatch(q, eEvent, nData1, nData2) ==
    LET i == MatchIndex(q, eEvent, nData1, nData2)
    IN  IF i = 0 THEN q ELSE RemoveAt(q, i)

(* The semaphore SignalEvent signals, or NoSem when nothing matches.       *)
SignalledSem(q, eEvent, nData1, nData2, NoSem) ==
    LET i == MatchIndex(q, eEvent, nData1, nData2)
    IN  IF i = 0 THEN NoSem ELSE q[i].arg3

(* The semaphores signalled when the whole queue is drained (the fatal     *)
(* error branch 2676-2694 and the destructor 3549-3564): one Signal() per  *)
(* entry, so a semaphore named by k entries gains k.                       *)
DrainCount(q, s) == Len(SelectSeq(q, LAMBDA m : m.arg3 = s))
=============================================================================
