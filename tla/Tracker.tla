------------------------------- MODULE Tracker ------------------------------
(***************************************************************************)
(* The gps task of firmware/app/src/app.c (gps_testTask) beside the main   *)
(* task: wait for the network and for a first position, then again and     *)
(* again read the position, decide whether it is credible, post it to the  *)
(* server, feed the watchdog and sleep.                                    *)
(*                                                                         *)
(* A position is a pair of integers, or NaN: what the conversion gives     *)
(* when the fields of the RMC sentence are empty (minmea leaves value and  *)
(* scale 0, and 0/0 is not a number).  Time passes in ticks.  The main     *)
(* task and the gps task share networkFlag, isGpsOn and the position.      *)
(* Between reading the position and checking it the gps task writes to     *)
(* UART1, which may block: the main task may run there.                    *)
(* The fix type is left out: with USE_GPS_FIXED 0 it decides nothing.      *)
(***************************************************************************)
EXTENDS MainTask, Integers

CONSTANTS
    Position,       \* the positions the chip may report: pairs of integers
    BlankPossible,  \* may the chip report an empty position?
    Threshold,      \* LAT_THRESHOLD_MAX and LONG_THRESHOLD_MAX
    StatusFails,    \* may Network_GetActiveStatus fail?
    ServerHangs,    \* may Http_Post fail to return?
    Limit,          \* the watchdog's 180 seconds, in ticks
    SleepMoving, SleepStill,  \* the two sleeps, in ticks
    HttpTicks       \* the longest an Http_Post that returns takes, in ticks

ASSUME TrackerAssumption ==
    /\ Position \subseteq Int \X Int
    /\ BlankPossible \in BOOLEAN /\ StatusFails \in BOOLEAN /\ ServerHangs \in BOOLEAN
    /\ Threshold \in Nat /\ Limit \in Nat /\ HttpTicks \in Nat
    /\ SleepMoving \in Nat /\ SleepStill \in Nat

VARIABLES
    bufferReady,    \* has GPS_Init been called?
    info,           \* g_gps_info: the position last parsed
    gpc,            \* where the gps task is
    cur,            \* the position of this round
    prev, falseGPS, motion,
    dog,            \* ticks since the watchdog was fed
    wait            \* ticks of the current sleep, or spent in Http_Post

gpsVars == <<bufferReady, info, gpc, cur, prev, falseGPS, motion, dog, wait>>
vars == <<mainVars, gpsVars>>

NaN == <<>>
Origin == <<0, 0>>          \* the zero-initialised variables
DogOff == -1                \* WatchDog_Open not called yet

GpsPc == {"start", "waitNetwork", "open", "waitPosition", "loop", "report",
          "decide", "post", "load", "feed", "sleep"}

GpsInit ==
    /\ bufferReady = FALSE
    /\ info = Origin
    /\ gpc = "start"
    /\ cur = Origin
    /\ prev = Origin /\ falseGPS = TRUE /\ motion = TRUE
    /\ dog = DogOff /\ wait = 0

Init == MainInit /\ GpsInit

\* A restart of the device: the initial state, with the network down.
Restart ==
    /\ networkFlag' = FALSE /\ isGpsOn' = TRUE /\ led_status' = "LED_SYS_ON"
    /\ gpsHw' = FALSE /\ events' = <<>>
    /\ net' = "none" /\ attachReq' = FALSE /\ activeReq' = FALSE
    /\ bufferReady' = FALSE /\ info' = Origin
    /\ gpc' = "start" /\ cur' = Origin
    /\ prev' = Origin /\ falseGPS' = TRUE /\ motion' = TRUE
    /\ dog' = DogOff /\ wait' = 0

-----------------------------------------------------------------------------
(* The start of gps_testTask *)

\* A watchdog that is due leaves the task no time.
GpsStep(from, to) == gpc = from /\ gpc' = to /\ dog < Limit

\* Mutant: the watchdog is not started.
WatchDogForgotten ==
    /\ GpsStep("start", "waitNetwork")
    /\ UNCHANGED <<mainVars, bufferReady, info, cur, prev, falseGPS, motion, dog, wait>>

WatchDogOpen ==
    /\ GpsStep("start", "waitNetwork")
    /\ dog' = 0
    /\ UNCHANGED <<mainVars, bufferReady, info, cur, prev, falseGPS, motion, wait>>

\* while(!networkFlag) and while(latitude.value == 0) poll; a poll that fails
\* changes nothing, and neither loop feeds the watchdog.
NetworkReady ==
    /\ networkFlag
    /\ GpsStep("waitNetwork", "open")
    /\ UNCHANGED <<mainVars, bufferReady, info, cur, prev, falseGPS, motion, dog, wait>>

GpsOpen ==
    /\ GpsStep("open", "waitPosition")
    /\ bufferReady' = TRUE /\ gpsHw' = TRUE
    /\ UNCHANGED <<networkFlag, isGpsOn, led_status, events, net, attachReq, activeReq,
                   info, cur, prev, falseGPS, motion, dog, wait>>

\* The commands that configure the chip come next (module GpsCommand); none
\* of their results changes what follows, and their time is spent here.
PositionReady ==
    /\ info # NaN /\ info[1] # 0
    /\ GpsStep("waitPosition", "loop")
    /\ UNCHANGED <<mainVars, bufferReady, info, cur, prev, falseGPS, motion, dog, wait>>

-----------------------------------------------------------------------------
(* The loop of gps_testTask *)

Distance(a, b) == IF a <= b THEN b - a ELSE a - b
Near(p, q) == p # NaN /\ q # NaN /\ \A i \in {1, 2} : Distance(p[i], q[i]) < Threshold

\* prev_lat > 0.0 && prev_long > 0.0; a comparison with NaN is false.
HavePrevious == prev # NaN /\ prev[1] > 0 /\ prev[2] > 0

\* Mutant: a far position does not set falseGPS again.
FalseGPSNotSet(p) == IF HavePrevious /\ Near(p, prev) THEN FALSE ELSE falseGPS

\* The check against the previous position; without one the old answer stays.
CheckFalseGPS(p) == IF HavePrevious THEN ~Near(p, prev) ELSE falseGPS

\* Read and convert the position; the UART writes come next.
Read ==
    /\ isGpsOn
    /\ GpsStep("loop", "report")
    /\ cur' = info
    /\ UNCHANGED <<mainVars, bufferReady, info, prev, falseGPS, motion, dog, wait>>

\* Check the position that was read against the previous one.
Check ==
    /\ GpsStep("report", "decide")
    /\ falseGPS' = CheckFalseGPS(cur)
    /\ motion' = IF HavePrevious THEN cur # prev ELSE motion
    /\ UNCHANGED <<mainVars, bufferReady, info, cur, prev, dog, wait>>

\* INFO_GetIMEI fails: Assert(false, "NO IMEI"), which does not return; the
\* device restarts.
NoImei ==
    /\ gpc = "report"
    /\ Restart

\* The integer division by the scale 0 of an empty position may also trap,
\* which restarts the device.
ReadTraps ==
    /\ isGpsOn /\ gpc = "loop" /\ info = NaN
    /\ Restart

\* Mutant: the watchdog is fed only when the GPS is on.
SkipFeed ==
    /\ ~isGpsOn
    /\ GpsStep("loop", "sleep")
    /\ wait' = IF motion THEN SleepMoving ELSE SleepStill
    /\ UNCHANGED <<mainVars, bufferReady, info, cur, prev, falseGPS, motion, dog>>

SkipRead ==
    /\ ~isGpsOn
    /\ GpsStep("loop", "feed")
    /\ UNCHANGED <<mainVars, bufferReady, info, cur, prev, falseGPS, motion, dog, wait>>

\* What Network_GetActiveStatus leaves in status: whether the context is
\* active, or anything when the call fails, for status is uninitialized.
ActiveStatus == {net = "active"} \cup (IF StatusFails THEN BOOLEAN ELSE {})

Decide ==
    /\ \E status \in ActiveStatus :
          GpsStep("decide", IF status /\ ~falseGPS THEN "post" ELSE "load")
    /\ UNCHANGED <<mainVars, bufferReady, info, cur, prev, falseGPS, motion, dog, wait>>

\* Http_Post returns, with or without success: the result is only traced.
Posted ==
    /\ GpsStep("post", "load")
    /\ wait' = 0
    /\ UNCHANGED <<mainVars, bufferReady, info, cur, prev, falseGPS, motion, dog>>

\* Mutant: the previous position is never loaded.
ForgetPrevious ==
    /\ GpsStep("load", "feed")
    /\ UNCHANGED <<mainVars, bufferReady, info, cur, prev, falseGPS, motion, dog, wait>>

LoadPrevious ==
    /\ GpsStep("load", "feed")
    /\ prev' = cur
    /\ UNCHANGED <<mainVars, bufferReady, info, cur, falseGPS, motion, dog, wait>>

WatchDogKeepAlive ==
    /\ GpsStep("feed", "sleep")
    /\ dog' = 0
    /\ wait' = IF motion THEN SleepMoving ELSE SleepStill
    /\ UNCHANGED <<mainVars, bufferReady, info, cur, prev, falseGPS, motion>>

WakeUp ==
    /\ wait = 0
    /\ GpsStep("sleep", "loop")
    /\ UNCHANGED <<mainVars, bufferReady, info, cur, prev, falseGPS, motion, dog, wait>>

GpsTask == \/ WatchDogOpen \/ NetworkReady \/ GpsOpen \/ PositionReady
           \/ Read \/ SkipRead \/ Check \/ Decide \/ LoadPrevious \/ WatchDogKeepAlive \/ WakeUp

-----------------------------------------------------------------------------
(* The chip, time and the watchdog *)

\* The main task parses a frame: EventDispatch gives it to GPS_Update, whose
\* ring GPS_Init has set up.
GpsReport ==
    /\ gpsHw /\ bufferReady
    /\ \E p \in Position \cup (IF BlankPossible THEN {NaN} ELSE {}) : info' = p
    /\ UNCHANGED <<mainVars, bufferReady, gpc, cur, prev, falseGPS, motion, dog, wait>>

\* A UART2 event before GPS_Init (the GPS was opened by a UART1 command): the
\* ring has size 0 and Buffer_Puts takes a remainder by it.  That traps and
\* restarts the device; where it does not, nothing is stored.
GpsReportTraps ==
    /\ gpsHw /\ ~bufferReady
    /\ Restart

\* Mutant: a sleep of no length counts below zero.
TickUnderflow ==
    /\ dog # DogOff /\ dog < Limit
    /\ dog' = dog + 1
    /\ gpc = "sleep" /\ wait' = wait - 1
    /\ UNCHANGED <<mainVars, bufferReady, info, gpc, cur, prev, falseGPS, motion>>

\* Time passes while the gps task waits: for the network, for a position, for
\* the server, or asleep.  The rest of a round takes no time.
Tick ==
    /\ dog # DogOff /\ dog < Limit
    /\ dog' = dog + 1
    /\ \/ gpc \in {"waitNetwork", "waitPosition"} /\ wait' = wait
       \/ gpc = "post" /\ wait < HttpTicks /\ wait' = wait + 1
       \/ gpc = "post" /\ ServerHangs /\ wait' = wait
       \/ gpc = "sleep" /\ wait > 0 /\ wait' = wait - 1
    /\ UNCHANGED <<mainVars, bufferReady, info, gpc, cur, prev, falseGPS, motion>>

\* The watchdog restarts the device.
WatchDogReset ==
    /\ dog = Limit
    /\ Restart

MainStep == MainNext /\ UNCHANGED gpsVars

Traps == ReadTraps \/ NoImei \/ GpsReportTraps

Next == MainStep \/ GpsTask \/ Traps \/ Posted \/ GpsReport \/ Tick \/ WatchDogReset

Spec == Init /\ [][Next]_vars

-----------------------------------------------------------------------------
(* Properties *)

PositionOrNaN == Position \cup {Origin, NaN}

\* The variables of the gps task (app.c) keep their types; a position is one
\* the chip reported, the initial zeros or not a number.
TypeOK ==
    /\ MainTypeOK
    /\ bufferReady \in BOOLEAN
    /\ info \in PositionOrNaN
    /\ gpc \in GpsPc
    /\ cur \in PositionOrNaN /\ prev \in PositionOrNaN /\ falseGPS \in BOOLEAN /\ motion \in BOOLEAN
    /\ dog \in -1..Limit /\ wait \in Nat

\* app.c:939: "If no falseGPS signal received": a position is posted only when
\* it lies within the threshold of the one read before it.
PostsOnlyCredible == gpc = "post" => Near(cur, prev)

\* The watchdog bites only while the gps task waits for the network or for a
\* first position or, with a server that may hang, in a call of Http_Post: the
\* rounds of a working tracker, moving or still, with the GPS on or off, are
\* never cut off in their sleep or between their steps.
NoNeedlessReset ==
    dog = Limit => gpc \in {"waitNetwork", "waitPosition"} \/ (ServerHangs /\ gpc = "post")

\* Whatever the network, the chip and the server do, the gps task comes round
\* to feeding the watchdog or the watchdog restarts it.
NeverStuck == []<>(gpc \in {"start", "feed"})
=============================================================================
