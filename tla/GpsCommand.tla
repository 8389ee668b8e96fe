----------------------------- MODULE GpsCommand -----------------------------
(***************************************************************************)
(* firmware/libs/gps/src/gps.c: the GPS driver.  Two tasks share it:       *)
(*                                                                         *)
(*   - the gps task (gps_testTask) calls the GPS_Set... and GPS_Get...     *)
(*     functions, which send a command and wait for its acknowledgement    *)
(*     (GPS_SendWaiteNormalAck, GPS_GetVersion, GPS_SendCMDWaitAck);       *)
(*   - the main task calls GPS_Update for every UART event and runs the    *)
(*     time-out callback OnCmdAckFail, which an expired timer queues.      *)
(*                                                                         *)
(* An action is a stretch of one task that reads or writes one shared      *)
(* variable.  With Preemptive the tasks may be switched between any two    *)
(* actions; without it a task runs until it blocks, which is what two      *)
(* tasks of the same priority do under a scheduler without time slices.    *)
(*                                                                         *)
(* A byte string is a sequence of tokens, pieces of what the chip sends:   *)
(* a sentence, a sentence cut after "VTG", the rest of a cut sentence, an  *)
(* acknowledgement, whole or cut.  gpsNmeaBuffer is the bounded queue of   *)
(* module BoundedFifo, with tokens for bytes.                              *)
(***************************************************************************)
EXTENDS Integers, Sequences

CONSTANTS
    Request,        \* the commands the gps task may send (records, see below)
    Preemptive,     \* may the scheduler switch tasks anywhere?
    CutAfterVTG,    \* may a UART event end between "VTG" and its "\r\n"?
    MallocFails,    \* may OS_Malloc return NULL?
    StaleCallback,  \* may a callback that is already queued to the main task
                    \* survive OS_StopCallbackTimer?
    Capacity,       \* GPS_DATA_BUFFER_MAX_LENGTH - 1, in tokens
    FrameLength,    \* GPS_NMEA_FRAME_BUFFER_LENGTH, in tokens
    MaxChunk,       \* bound: the tokens of one UART event
    MaxRx,          \* bound: the tokens the UART driver holds
    MaxReq          \* bound: the commands sent in a behaviour

(* A request has a kind (which acknowledgement the chip sends for it), the *)
(* command number, the format of the bytes sent and, for a GPD pack, its   *)
(* number.                                                                 *)
Kind   == {"normal", "version", "gpd"}
Format == {"nmea", "binary"}

ASSUME GpsCommandAssumption ==
    /\ \A r \in Request : r.kind \in Kind /\ r.fmt \in Format
    /\ Preemptive \in BOOLEAN /\ CutAfterVTG \in BOOLEAN /\ MallocFails \in BOOLEAN
    /\ StaleCallback \in BOOLEAN
    /\ Capacity \in Nat /\ FrameLength \in Nat
    /\ MaxChunk \in Nat /\ MaxRx \in Nat /\ MaxReq \in Nat

VARIABLES
    running,          \* the task that has the processor, "none" at a switch
    \* shared by the two tasks (static variables of gps.c)
    isCmdSendTimeOut,
    semCmdSending,    \* NULL or a handle: the number of the request
    gpsNmeaBuffer,    \* queued tokens
    gpsAckMsg,        \* NULL or an acknowledgement
    \* operating system: the semaphore behind the handle, the timer and the
    \* callbacks of expired timers that are queued to the main task
    semLive, semCount, timerArmed, callbacks,
    \* main task
    mpc, header, need, tmp,
    \* gps task
    gpc, n, req, result,
    \* the chip and the UART driver
    chipIn, rx,
    \* history: the requests the chip executed with success, whether the
    \* time-out callback ever ran, and whether one ever outlived the stop of
    \* its timer
    executed, expired, stale

timerVars == <<timerArmed, callbacks, stale>>
osVars   == <<semLive, semCount, timerVars>>
mainVars == <<mpc, header, need, tmp>>
gpsVars  == <<gpc, n, req, result>>
chipVars == <<chipIn, rx, executed>>
vars == <<running, isCmdSendTimeOut, semCmdSending, gpsNmeaBuffer, gpsAckMsg,
          osVars, mainVars, gpsVars, chipVars, expired>>

NULL == 0            \* the null handle; handles are the request numbers 1, 2, ...
NoMsg == [null |-> TRUE]
Failed == [ret |-> FALSE, ackNo |-> 0]

Ack   == [no : 0..MaxReq, req : Request, res : {"ok", "fail"}, good : BOOLEAN]
Token == [k : {"line", "vtg", "tail"}, crlf : BOOLEAN]
            \cup [k : {"ack"}, crlf : BOOLEAN, msg : Ack]
Pending == [no : 0..MaxReq, req : Request]

MainPc == {"idle", "branch", "frames", "takeFrame", "search", "takeAck",
           "checkSem", "alloc", "release", "ackFail"}
GpsPc  == {"idle", "create", "clear", "send", "arm", "wait", "delete", "null",
           "checkTimeOut", "stop", "inspect", "free", "crashed"}

-----------------------------------------------------------------------------
(* Scheduling *)

MayRun(task) == running \in {task, "none"}
Continue(task) == running' = IF Preemptive THEN "none" ELSE task
Yield == running' = "none"

(* The operating system's part of the synchronisation.  A release of a     *)
(* handle that is not live reaches no waiter.                              *)
OS_ReleaseSemaphore ==
    semCount' = IF semLive THEN semCount + 1 ELSE semCount

-----------------------------------------------------------------------------
(* The gps task: GPS_SendWaiteNormalAck and GPS_GetVersion *)

Init ==
    /\ running = "none"
    /\ isCmdSendTimeOut = FALSE /\ semCmdSending = NULL
    /\ gpsNmeaBuffer = <<>> /\ gpsAckMsg = NoMsg
    /\ semLive = FALSE /\ semCount = 0
    /\ timerArmed = FALSE /\ callbacks = 0 /\ stale = FALSE
    /\ mpc = "idle" /\ header = "nmea" /\ need = 0 /\ tmp = <<>>
    /\ gpc = "idle" /\ n = 0 /\ req \in Request
    /\ result = Failed
    /\ chipIn = <<>> /\ rx = <<>>
    /\ executed = {} /\ expired = FALSE

GpsStep(from, to) == gpc = from /\ gpc' = to /\ MayRun("gps")

SendBegin(r) ==
    /\ GpsStep("idle", "create") /\ Continue("gps")
    /\ n < MaxReq
    /\ n' = n + 1 /\ req' = r
    /\ result' = Failed
    /\ isCmdSendTimeOut' = FALSE
    /\ UNCHANGED <<semCmdSending, gpsNmeaBuffer, gpsAckMsg, osVars, mainVars,
                   chipVars, expired>>

\* Mutant: the handle of the new semaphore is not stored.
CreateForgotten ==
    /\ GpsStep("create", IF req.fmt = "nmea" THEN "clear" ELSE "send")
    /\ Continue("gps")
    /\ semLive' = TRUE /\ semCount' = 0
    /\ UNCHANGED <<isCmdSendTimeOut, semCmdSending, gpsNmeaBuffer, gpsAckMsg,
                   timerVars, mainVars, n, req, result, chipVars, expired>>

SendCreate ==
    /\ GpsStep("create", IF req.fmt = "nmea" THEN "clear" ELSE "send")
    /\ Continue("gps")
    /\ semCmdSending' = n /\ semLive' = TRUE /\ semCount' = 0
    /\ UNCHANGED <<isCmdSendTimeOut, gpsNmeaBuffer, gpsAckMsg, timerVars,
                   mainVars, n, req, result, chipVars, expired>>

SendClear ==
    /\ GpsStep("clear", "send") /\ Continue("gps")
    /\ gpsNmeaBuffer' = <<>>
    /\ UNCHANGED <<isCmdSendTimeOut, semCmdSending, gpsAckMsg, osVars, mainVars,
                   n, req, result, chipVars, expired>>

\* UART_Write may block, so the main task may run before the timer is armed.
SendWrite ==
    /\ GpsStep("send", "arm") /\ Yield
    /\ chipIn' = Append(chipIn, [no |-> n, req |-> req])
    /\ UNCHANGED <<isCmdSendTimeOut, semCmdSending, gpsNmeaBuffer, gpsAckMsg,
                   osVars, mainVars, n, req, result, rx, executed, expired>>

\* Mutant: the timer is not started.
ArmForgotten ==
    /\ GpsStep("arm", "wait") /\ Yield
    /\ UNCHANGED <<isCmdSendTimeOut, semCmdSending, gpsNmeaBuffer, gpsAckMsg,
                   osVars, mainVars, n, req, result, chipVars, expired>>

SendArm ==
    /\ GpsStep("arm", "wait") /\ Yield
    /\ timerArmed' = TRUE
    /\ UNCHANGED <<isCmdSendTimeOut, semCmdSending, gpsNmeaBuffer, gpsAckMsg,
                   semLive, semCount, callbacks, stale, mainVars, n, req, result, chipVars, expired>>

SendWait ==
    /\ GpsStep("wait", "delete") /\ Continue("gps")
    /\ semCount > 0
    /\ semCount' = semCount - 1
    /\ UNCHANGED <<isCmdSendTimeOut, semCmdSending, gpsNmeaBuffer, gpsAckMsg,
                   semLive, timerVars, mainVars, n, req, result, chipVars, expired>>

\* The count goes with the semaphore.
SendDelete ==
    /\ GpsStep("delete", "null") /\ Continue("gps")
    /\ semLive' = FALSE /\ semCount' = 0
    /\ UNCHANGED <<isCmdSendTimeOut, semCmdSending, gpsNmeaBuffer, gpsAckMsg,
                   timerVars, mainVars, n, req, result, chipVars, expired>>

SendNull ==
    /\ GpsStep("null", "checkTimeOut") /\ Continue("gps")
    /\ semCmdSending' = NULL
    /\ UNCHANGED <<isCmdSendTimeOut, gpsNmeaBuffer, gpsAckMsg, osVars, mainVars,
                   n, req, result, chipVars, expired>>

SendCheckTimeOut ==
    /\ GpsStep("checkTimeOut", IF isCmdSendTimeOut THEN "free" ELSE "stop")
    /\ Continue("gps")
    /\ UNCHANGED <<isCmdSendTimeOut, semCmdSending, gpsNmeaBuffer, gpsAckMsg,
                   osVars, mainVars, n, req, result, chipVars, expired>>

\* Mutant: the timer is not stopped when the acknowledgement came.
StopForgotten ==
    /\ GpsStep("stop", "inspect") /\ Continue("gps")
    /\ UNCHANGED <<isCmdSendTimeOut, semCmdSending, gpsNmeaBuffer, gpsAckMsg,
                   osVars, mainVars, n, req, result, chipVars, expired>>

\* OS_StopCallbackTimer: the timer is stopped; a callback that its expiry has
\* already queued is taken back, or is not (the SDK's code is not here).
SendStop ==
    /\ GpsStep("stop", "inspect") /\ Continue("gps")
    /\ timerArmed' = FALSE
    /\ callbacks' \in 0..callbacks
    /\ callbacks' > 0 => StaleCallback
    /\ stale' = (stale \/ callbacks' > 0)
    /\ UNCHANGED <<isCmdSendTimeOut, semCmdSending, gpsNmeaBuffer, gpsAckMsg,
                   semLive, semCount, mainVars, n, req, result, chipVars, expired>>

\* Mutant: the result in the acknowledgement is not looked at.
AckResultIgnored(a, r) ==
    \/ a.req.kind = "gpd" /\ a.req.pack = r.pack
    \/ a.req.kind = "normal" /\ a.req.id = r.id

\* What GPS_SendWaiteNormalAck asks of an acknowledgement: that it reports
\* success, for the pack that was sent or for the command number.
NormalAck(a, r) ==
    /\ a.res = "ok"
    /\ \/ a.req.kind = "gpd" /\ a.req.pack = r.pack
       \/ a.req.kind = "normal" /\ a.req.id = r.id

\* What GPS_GetVersion asks: that it is the answer with the version.
VersionAck(a) == a.req.kind = "version"

\* GPS_CheckParity, GPS_GetAckCmd and GPS_AckCheck: does the acknowledgement a
\* say that request r was executed?
AckAccepted(a, r) ==
    a.good /\ IF r.kind = "version" THEN VersionAck(a) ELSE NormalAck(a, r)

\* Without a message the code dereferences a null pointer.
SendInspect ==
    /\ GpsStep("inspect", IF gpsAckMsg = NoMsg THEN "crashed" ELSE "free")
    /\ Continue("gps")
    /\ result' = IF gpsAckMsg = NoMsg THEN result
                 ELSE [ret   |-> AckAccepted(gpsAckMsg, req),
                       ackNo |-> gpsAckMsg.no]
    /\ UNCHANGED <<isCmdSendTimeOut, semCmdSending, gpsNmeaBuffer, gpsAckMsg,
                   osVars, mainVars, n, req, chipVars, expired>>

\* Mutant: the message is freed and not forgotten.
FreeDangling ==
    /\ GpsStep("free", "idle") /\ Yield
    /\ UNCHANGED <<isCmdSendTimeOut, semCmdSending, gpsNmeaBuffer, gpsAckMsg,
                   osVars, mainVars, n, req, result, chipVars, expired>>

\* The success and the fail path both free the message and forget it.
SendFree ==
    /\ GpsStep("free", "idle") /\ Yield
    /\ gpsAckMsg' = NoMsg
    /\ UNCHANGED <<isCmdSendTimeOut, semCmdSending, gpsNmeaBuffer, osVars,
                   mainVars, n, req, result, chipVars, expired>>

\* The rest of a call, once it has begun.
GpsCall == \/ SendCreate \/ SendClear \/ SendWrite \/ SendArm \/ SendWait
           \/ SendDelete \/ SendNull \/ SendCheckTimeOut \/ SendStop
           \/ SendInspect \/ SendFree

-----------------------------------------------------------------------------
(* The main task: GPS_Update and OnCmdAckFail *)

MainStep(from, to) ==
    /\ mpc = from /\ mpc' = to /\ MayRun("main")
    /\ IF to = "idle" THEN Yield ELSE Continue("main")

First(S) == CHOOSE i \in S : \A j \in S : i <= j
Shorter(a, b) == IF a <= b THEN a ELSE b

VTGs(s)  == {i \in 1..Len(s) : s[i].k = "vtg"}
CRLFs(s) == {i \in 1..Len(s) : s[i].crlf}
Acks(fmt, s) == {i \in 1..Len(s) : s[i].k = "ack" /\ s[i].msg.req.fmt = fmt}

\* The two queries of GPS_Update: where the "\r\n" lies that ends what begins
\* at the first of the positions starts; none when either is missing.
Ends(starts, s) == {j \in CRLFs(s) : starts # {} /\ First(starts) <= j}

\* Mutant: a put does not look at the room left.
PutsUnbounded(k) ==
    /\ MainStep("idle", "branch")
    /\ k \in 1..Shorter(MaxChunk, Len(rx))
    /\ rx' = SubSeq(rx, k + 1, Len(rx))
    /\ gpsNmeaBuffer' = gpsNmeaBuffer \o SubSeq(rx, 1, k)
    /\ UNCHANGED <<isCmdSendTimeOut, semCmdSending, gpsAckMsg, osVars, header, need, tmp,
                   gpsVars, chipIn, executed, expired>>

\* A UART event: Buffer_Puts of its tokens, all or none of them.
UpdatePuts(k) ==
    /\ MainStep("idle", "branch")
    /\ k \in 1..Shorter(MaxChunk, Len(rx))
    /\ rx' = SubSeq(rx, k + 1, Len(rx))
    /\ gpsNmeaBuffer' = IF Len(gpsNmeaBuffer) + k <= Capacity
                        THEN gpsNmeaBuffer \o SubSeq(rx, 1, k)
                        ELSE gpsNmeaBuffer
    /\ UNCHANGED <<isCmdSendTimeOut, semCmdSending, gpsAckMsg, osVars, header, need, tmp,
                   gpsVars, chipIn, executed, expired>>

UpdateBranch ==
    /\ MainStep("branch", IF semCmdSending = NULL THEN "frames" ELSE "search")
    /\ UNCHANGED <<isCmdSendTimeOut, semCmdSending, gpsNmeaBuffer, gpsAckMsg,
                   osVars, header, need, tmp, gpsVars, chipVars, expired>>

\* One round of while(1): no "VTG" ends the call; "VTG" with its "\r\n" is a
\* frame; "VTG" without "\r\n" goes round again and changes nothing.
FrameLoop ==
    LET vtg  == VTGs(gpsNmeaBuffer)
        crlf == Ends(vtg, gpsNmeaBuffer)
    IN  /\ \/ vtg = {} /\ MainStep("frames", "idle") /\ need' = need
           \/ /\ crlf # {}
              /\ MainStep("frames", "takeFrame")
              /\ need' = Shorter(First(crlf), FrameLength)
           \/ /\ vtg # {} /\ crlf = {}
              /\ MainStep("frames", "frames") /\ need' = need
        /\ UNCHANGED <<isCmdSendTimeOut, semCmdSending, gpsNmeaBuffer, gpsAckMsg,
                       osVars, header, tmp, gpsVars, chipVars, expired>>

\* Mutant: the bytes are copied and stay in the queue.
GetsKeeps(from, to) ==
    /\ need' = 0
    /\ \/ /\ Len(gpsNmeaBuffer) < need
          /\ MainStep(from, "idle") /\ tmp' = tmp
       \/ /\ Len(gpsNmeaBuffer) >= need
          /\ MainStep(from, to)
          /\ tmp' = IF to = "checkSem" THEN SubSeq(gpsNmeaBuffer, 1, need) ELSE <<>>
    /\ UNCHANGED gpsNmeaBuffer

\* Buffer_Gets: fails when the buffer was cleared since the query.  need and
\* tmp are reset when the call no longer reads them.
Gets(from, to) ==
    /\ need' = 0
    /\ \/ /\ Len(gpsNmeaBuffer) < need
          /\ MainStep(from, "idle")
          /\ UNCHANGED <<gpsNmeaBuffer, tmp>>
       \/ /\ Len(gpsNmeaBuffer) >= need
          /\ MainStep(from, to)
          /\ tmp' = IF to = "checkSem" THEN SubSeq(gpsNmeaBuffer, 1, need) ELSE <<>>
          /\ gpsNmeaBuffer' = SubSeq(gpsNmeaBuffer, need + 1, Len(gpsNmeaBuffer))

\* The frame goes to SaveToTFCard and GPS_Parse, and round again.
FrameTake ==
    /\ Gets("takeFrame", "frames")
    /\ UNCHANGED <<isCmdSendTimeOut, semCmdSending, gpsAckMsg, osVars, header, gpsVars,
                   chipVars, expired>>

\* While a command is being sent: "$PGKC" or, if there is none, the binary
\* header, and the "\r\n" after it.
HeaderFormat(s) == IF Acks("nmea", s) # {} THEN "nmea" ELSE "binary"

AckSearch ==
    LET fmt  == HeaderFormat(gpsNmeaBuffer)
        crlf == Ends(Acks(fmt, gpsNmeaBuffer), gpsNmeaBuffer)
    IN  /\ \/ /\ crlf = {}
              /\ MainStep("search", "idle") /\ UNCHANGED <<header, need>>
           \/ /\ crlf # {}
              /\ MainStep("search", "takeAck")
              /\ header' = fmt
              /\ need' = Shorter(First(crlf), FrameLength)
        /\ UNCHANGED <<isCmdSendTimeOut, semCmdSending, gpsNmeaBuffer, gpsAckMsg,
                       osVars, tmp, gpsVars, chipVars, expired>>

AckTake ==
    /\ Gets("takeAck", "checkSem")
    /\ UNCHANGED <<isCmdSendTimeOut, semCmdSending, gpsAckMsg, osVars, header, gpsVars,
                   chipVars, expired>>

AckCheckSem ==
    /\ MainStep("checkSem", IF semCmdSending = NULL THEN "idle" ELSE "alloc")
    /\ tmp' = IF semCmdSending = NULL THEN <<>> ELSE tmp
    /\ UNCHANGED <<isCmdSendTimeOut, semCmdSending, gpsNmeaBuffer, gpsAckMsg,
                   osVars, header, need, gpsVars, chipVars, expired>>

\* index0: the same header in tmp, if it is there.  strstr stops at a zero
\* byte, and every binary acknowledgement contains one.
Index0(fmt, s) ==
    {i \in Acks(fmt, s) : fmt = "nmea" => \A j \in Acks("binary", s) : i < j}

\* The message copied from index0 on.  A cut acknowledgement that its own
\* rest does not follow fails the parity check.
Message ==
    LET h     == First(Index0(header, tmp))
        whole == tmp[h].crlf \/ (h < Len(tmp) /\ tmp[h + 1].k = "tail")
    IN  [tmp[h].msg EXCEPT !.good = @ /\ whole]

\* With index0 = NULL the length wraps round and OS_Malloc returns NULL.
AckAlloc ==
    /\ \/ /\ Index0(header, tmp) # {}
          /\ MainStep("alloc", "release")
          /\ gpsAckMsg' = Message
       \/ /\ Index0(header, tmp) = {} \/ MallocFails
          /\ MainStep("alloc", "idle")
          /\ gpsAckMsg' = NoMsg
    /\ tmp' = <<>>
    /\ UNCHANGED <<isCmdSendTimeOut, semCmdSending, gpsNmeaBuffer, osVars, header,
                   need, gpsVars, chipVars, expired>>

AckRelease ==
    /\ MainStep("release", "idle")
    /\ OS_ReleaseSemaphore
    /\ UNCHANGED <<isCmdSendTimeOut, semCmdSending, gpsNmeaBuffer, gpsAckMsg,
                   semLive, timerVars, header, need, tmp, gpsVars, chipVars, expired>>

\* The timer expires: OnCmdAckFail is queued to the main task, whichever task
\* is running.
TimerExpires ==
    /\ timerArmed
    /\ timerArmed' = FALSE
    /\ callbacks' = callbacks + 1
    /\ UNCHANGED <<running, isCmdSendTimeOut, semCmdSending, gpsNmeaBuffer, gpsAckMsg,
                   semLive, semCount, stale, mainVars, gpsVars, chipVars, expired>>

\* Mutant: the callback releases the semaphore and does not say why.
AckFailSilent ==
    /\ callbacks > 0
    /\ MainStep("idle", "ackFail")
    /\ callbacks' = callbacks - 1
    /\ expired' = TRUE
    /\ UNCHANGED <<isCmdSendTimeOut, semCmdSending, gpsNmeaBuffer, gpsAckMsg, semLive,
                   semCount, timerArmed, stale, header, need, tmp, gpsVars, chipVars>>

\* The first statement of OnCmdAckFail, once the main task comes to the queued
\* callback.
OnCmdAckFail ==
    /\ callbacks > 0
    /\ MainStep("idle", "ackFail")
    /\ callbacks' = callbacks - 1
    /\ isCmdSendTimeOut' = TRUE
    /\ expired' = TRUE
    /\ UNCHANGED <<semCmdSending, gpsNmeaBuffer, gpsAckMsg, semLive, semCount,
                   timerArmed, stale, header, need, tmp, gpsVars, chipVars>>

\* The second: whatever semCmdSending is by now is released.
OnCmdAckFailRelease ==
    /\ MainStep("ackFail", "idle")
    /\ OS_ReleaseSemaphore
    /\ UNCHANGED <<isCmdSendTimeOut, semCmdSending, gpsNmeaBuffer, gpsAckMsg,
                   semLive, timerVars, header, need, tmp, gpsVars, chipVars, expired>>

\* A call of GPS_Update or OnCmdAckFail, once it has begun.
MainCall == \/ UpdateBranch \/ FrameLoop \/ FrameTake \/ AckSearch \/ AckTake
            \/ AckCheckSem \/ AckAlloc \/ AckRelease \/ OnCmdAckFailRelease

-----------------------------------------------------------------------------
(* The chip: it sends sentences at any time, and for each command it       *)
(* received, in order, one acknowledgement after any delay, or none.       *)

Emit(tokens) ==
    /\ Len(rx) + Len(tokens) <= MaxRx
    /\ rx' = rx \o tokens

chipUnchanged == <<running, isCmdSendTimeOut, semCmdSending, gpsNmeaBuffer,
                   gpsAckMsg, osVars, mainVars, gpsVars, expired>>

Tail_ == [k |-> "tail", crlf |-> TRUE]

ChipSentence ==
    /\ \/ \E kind \in {"line", "vtg"} : Emit(<<[k |-> kind, crlf |-> TRUE]>>)
       \/ CutAfterVTG /\ Emit(<<[k |-> "vtg", crlf |-> FALSE], Tail_>>)
    /\ UNCHANGED <<chipUnchanged, chipIn, executed>>

ChipAnswer ==
    /\ chipIn # <<>>
    /\ chipIn' = Tail(chipIn)
    /\ \E res \in {"ok", "fail"}, good \in BOOLEAN, cut \in BOOLEAN :
         /\ res = "ok" \/ (good /\ Head(chipIn).req.kind # "version")
         /\ LET msg == [no |-> Head(chipIn).no, req |-> Head(chipIn).req,
                        res |-> res, good |-> good]
                ack == [k |-> "ack", crlf |-> ~cut, msg |-> msg]
            IN  Emit(IF cut THEN <<ack, Tail_>> ELSE <<ack>>)
         /\ executed' = IF res = "ok" THEN executed \cup {Head(chipIn).req} ELSE executed
    /\ UNCHANGED chipUnchanged

ChipIgnores ==
    /\ chipIn # <<>>
    /\ chipIn' = Tail(chipIn)
    /\ UNCHANGED <<chipUnchanged, rx, executed>>

-----------------------------------------------------------------------------
Next == \/ \E r \in Request : SendBegin(r)
        \/ GpsCall
        \/ \E k \in 1..MaxChunk : UpdatePuts(k)
        \/ TimerExpires \/ OnCmdAckFail
        \/ MainCall
        \/ ChipSentence \/ ChipAnswer \/ ChipIgnores

Spec == Init /\ [][Next]_vars

(* A task that is ready is run in turn: strong fairness, because a         *)
(* scheduler without time slices makes it wait for the other to block.     *)
(* A timer that is not stopped expires; its callback is queued with the    *)
(* task's other events, so it too is run in turn.                          *)
Fairness == /\ SF_vars(GpsCall)
            /\ SF_vars(MainCall)
            /\ WF_vars(TimerExpires)
            /\ SF_vars(OnCmdAckFail)
            /\ SF_vars(\E k \in 1..MaxChunk : UpdatePuts(k))
FairSpec == Spec /\ Fairness

-----------------------------------------------------------------------------
(* Properties *)

\* The driver's variables keep their types: the queue never outgrows its
\* array and no frame outgrows tmp.
TypeOK ==
    /\ running \in {"none", "main", "gps"}
    /\ isCmdSendTimeOut \in BOOLEAN
    /\ semCmdSending \in 0..MaxReq
    /\ gpsNmeaBuffer \in Seq(Token) /\ Len(gpsNmeaBuffer) <= Capacity
    /\ gpsAckMsg \in Ack \cup {NoMsg}
    /\ semLive \in BOOLEAN /\ semCount \in Nat
    /\ timerArmed \in BOOLEAN /\ callbacks \in Nat /\ stale \in BOOLEAN
    /\ mpc \in MainPc /\ header \in Format /\ need \in 0..Shorter(Capacity, FrameLength)
    /\ tmp \in Seq(Token) /\ Len(tmp) <= FrameLength
    /\ gpc \in GpsPc /\ n \in 0..MaxReq /\ req \in Request
    /\ result \in [ret : BOOLEAN, ackNo : 0..MaxReq]
    /\ chipIn \in Seq(Pending) /\ rx \in Seq(Token) /\ Len(rx) <= MaxRx
    /\ executed \subseteq Request /\ expired \in BOOLEAN

\* GPS_SendCMDWaitAck reads gpsAckMsg[0] only when the semaphore was released
\* for a message that is still there: it never dereferences NULL.
AckPresent == gpc = "inspect" => gpsAckMsg # NoMsg

\* GPS_Update releases the semaphore of the command being sent, never NULL or
\* a handle that OS_DeleteSemaphore already destroyed.  OnCmdAckFail releases the
\* semaphore on which the very command waits whose time-out it is, as long as
\* OS_StopCallbackTimer takes back the callbacks it comes too late for.
ReleaseOnLive ==
    /\ mpc = "release" => semLive /\ semCmdSending # NULL
    /\ mpc = "ackFail" /\ ~stale => gpc = "wait" /\ semLive /\ semCmdSending = n

\* A command's timer and the callback it queues are over before the function
\* returns, whichever way its wait ends: the timer is stopped or has expired,
\* the callback is taken back or has begun.  Once one callback has outlived its
\* timer this is lost: it ends the next wait as timed out, and that command
\* returns without stopping its own timer.  Under preemption a callback that
\* has begun may still be before its release when the next command waits.
TimerScoped ==
    ~stale /\ (timerArmed \/ callbacks > 0)
        => gpc \in {"wait", "delete", "null", "checkTimeOut", "stop"}

\* When no command is being sent no message is allocated: what one call left
\* behind is never taken for the acknowledgement of the next.
NoAckOutsideCommand == gpc = "idle" => gpsAckMsg = NoMsg

\* A function that returns true has been told by the chip itself that it
\* executed this command or an earlier one with the same command number (for
\* a GPD pack, the same pack), whatever was lost, late, cut or corrupted.
TrueMeansExecuted ==
    result.ret => \E e \in executed :
                      e.kind = req.kind /\ e.id = req.id /\ e.pack = req.pack

\* The acknowledgement carries no sequence number, so it can belong to an
\* earlier request; that takes an earlier time-out.
MisattributedOnlyAfterTimeOut ==
    result.ret /\ result.ackNo # n => expired

\* gps.c:158, 199: gpsAckMsg is assigned without a look at what it holds.  The
\* block it held is lost only when the late answer to a timed-out command and
\* the answer to the present one both come while this one waits.
AckOverwrittenOnlyAfterTimeOut ==
    mpc = "alloc" /\ gpsAckMsg # NoMsg => expired

\* Every command returns: by its acknowledgement or by the time-out.
CommandReturns == (gpc = "create") ~> (gpc \in {"idle", "crashed"})

\* The main task always comes back to its event loop.
EventsArePolled == []<>(mpc = "idle")
=============================================================================
