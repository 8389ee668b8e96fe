---------------------------- MODULE TrackerHttp -----------------------------
(***************************************************************************)
(* The tracker with its HTTP client: module Tracker, in which Http_Post is *)
(* one place of the gps task, and module HttpPost, composed.  The exchange *)
(* runs while the gps task is at "post"; the watchdog runs beside it and   *)
(* may restart the device in the middle of an exchange.                    *)
(*                                                                         *)
(* ServerHangs says that calls which wait for the other side (the name     *)
(* server, connect, send) may not return, and that the server may close    *)
(* the connection without an answer.                                       *)
(***************************************************************************)
EXTENDS Tracker, HttpPost

allVars == <<vars, httpVars>>

HttpTrackerInit == Init /\ HttpInit

\* The calls that depend on the other side, and those that always return.
HttpRemote == DNS_GetHostByName2 \/ connect \/ send \/ sendBody
HttpLocal  == \/ Http_Post \/ OS_Malloc \/ socket \/ recv
              \/ SelectTimeOut /\ wait = HttpTicks

\* A watchdog that is due leaves the task no time.
InPost == gpc = "post" /\ dog < Limit

HttpRun ==
    /\ InPost
    /\ \/ HttpRemote \/ HttpLocal \/ select
       \/ ServerHangs /\ (RecvZero \/ ClosedError)
    /\ UNCHANGED vars

\* Http_Post returns to gps_testTask, which only traces the result.
HttpReturn ==
    /\ hpc \in {"failed", "done"} /\ hpc' = "idle"
    /\ UNCHANGED <<fd, temp>>
    /\ Posted

\* Time passes in Http_Post: select waits at most HttpTicks, the calls that do
\* not return and the loop on a closed connection for ever.
HttpTick ==
    /\ Tick
    /\ gpc = "post" =>
          \/ hpc = "select" /\ wait' = wait + 1
          \/ hpc \in {"dns", "connect", "send", "sendBody", "closed"} /\ wait' = wait
    /\ UNCHANGED httpVars

HttpTrackerNext ==
    \/ (MainStep \/ GpsTask \/ GpsReport) /\ UNCHANGED httpVars
    \/ HttpRun \/ HttpReturn \/ HttpTick
    \/ (Traps \/ WatchDogReset) /\ HttpOff

HttpTrackerSpec == HttpTrackerInit /\ [][HttpTrackerNext]_allVars

(* The tasks run when they can, time passes, and a watchdog that is due    *)
(* fires.  A call that waits for the other side is fair only when          *)
(* ServerHangs is FALSE.  Nothing is assumed of the network.               *)
HttpTrackerFairness ==
    /\ WF_allVars(GpsTask /\ UNCHANGED httpVars)
    /\ WF_allVars(TakeEvent /\ UNCHANGED <<gpsVars, httpVars>>)
    /\ WF_allVars(InPost /\ HttpLocal /\ UNCHANGED vars)
    /\ WF_allVars(HttpReturn)
    /\ WF_allVars(HttpTick)
    /\ WF_allVars(WatchDogReset /\ HttpOff)
    /\ (~ServerHangs => WF_allVars(InPost /\ HttpRemote /\ UNCHANGED vars))
HttpTrackerFairSpec == HttpTrackerSpec /\ HttpTrackerFairness

-----------------------------------------------------------------------------
(* Properties *)

\* Outside Http_Post (app.c:584-718) the tracker holds no socket and no block,
\* whichever of its calls failed, timed out or was cut off by the watchdog.
NothingLeaks ==
    gpc # "post" \/ hpc \in {"idle", "failed", "done"} => ~fd /\ ~temp

\* The tracker has started, its GPS is on, its packet data context active and
\* its position within half the threshold of p.
ServingNear(p) ==
    /\ gpc \notin {"start", "waitNetwork", "open", "waitPosition"}
    /\ isGpsOn /\ net = "active"
    /\ info # NaN /\ \A i \in {1, 2} : 2 * Distance(info[i], p[i]) < Threshold

\* The request was not sent: a call before select failed, or
\* Network_GetActiveStatus did.
Unsent == \/ hpc' = "failed" /\ hpc \notin {"select", "recv", "closed"}
          \/ gpc = "decide" /\ gpc' = "load" /\ ~falseGPS /\ net = "active"

\* README.md:5 "Get GPS Data from device and send it to cloud": a tracker that
\* serves from some time on, moving or still in one neighbourhood, sends
\* request after request as long as its calls on the way there succeed.
PositionsReachServer ==
    \A p \in Position :
        <>[]ServingNear(p) /\ <>[][~Unsent]_allVars => []<>(hpc = "select")
=============================================================================
