--------------------------- MODULE TrackerProofs ----------------------------
(***************************************************************************)
(* Proofs about the gps task and its HTTP client, for every set of         *)
(* positions and every choice of the times.  They are about Tracker, and   *)
(* carried over to TrackerHttp by HttpRefines.                             *)
(***************************************************************************)
EXTENDS TrackerHttp, SequenceTheorems, TLAPS

-----------------------------------------------------------------------------
(* The exchange in the tracker *)

\* What the exchange holds where, and that it runs only at "post".
HoldsInv ==
    /\ hpc # "idle" => gpc = "post"
    /\ fd => hpc \in {"connect", "send", "sendBody", "select", "recv", "closed"}
    /\ temp => hpc \in {"socket", "connect", "send", "sendBody", "select", "recv", "closed"}

\* No call of Http_Post loses a socket or a block.
LEMMA HttpStepHolds ==
    ASSUME HoldsInv, HttpRun
    PROVE  HoldsInv'
  <1>1. gpc' = gpc /\ gpc = "post"
    BY DEF HttpRun, InPost, vars, gpsVars
  <1>2. CASE Http_Post \/ DNS_GetHostByName2 \/ OS_Malloc \/ socket
    BY <1>1, <1>2 DEF HoldsInv, Http_Post, DNS_GetHostByName2, OS_Malloc, socket, HttpStep
  <1>3. CASE connect \/ send \/ sendBody \/ select
    BY <1>1, <1>3 DEF HoldsInv, connect, send, sendBody, select, OnSocket, HttpStep
  <1>4. CASE SelectTimeOut \/ recv \/ RecvZero \/ ClosedError
    BY <1>1, <1>4 DEF HoldsInv, SelectTimeOut, recv, RecvZero, ClosedError, HttpStep
  <1> QED
    BY <1>2, <1>3, <1>4 DEF HttpRun, HttpRemote, HttpLocal

\* The gps task does not leave "post" but by the return of Http_Post.
LEMMA TaskNotInPost ==
    ASSUME GpsTask
    PROVE  gpc # "post"
  BY DEF GpsTask, WatchDogOpen, NetworkReady, GpsOpen, PositionReady, Read, SkipRead,
         Check, Decide, LoadPrevious, WatchDogKeepAlive, WakeUp, GpsStep

\* Every step of the composition keeps what the exchange holds.
LEMMA HttpNextHolds == HoldsInv /\ [HttpTrackerNext]_allVars => HoldsInv'
  <1> SUFFICES ASSUME HoldsInv, [HttpTrackerNext]_allVars PROVE HoldsInv'
    OBVIOUS
  <1>1. CASE GpsTask /\ UNCHANGED httpVars
    BY <1>1, TaskNotInPost DEF HoldsInv, httpVars
  <1>2. CASE (MainStep \/ GpsReport \/ UNCHANGED vars) /\ UNCHANGED httpVars
    BY <1>2 DEF HoldsInv, httpVars, MainStep, GpsReport, gpsVars, vars
  <1>3. CASE HttpRun
    BY <1>3, HttpStepHolds
  <1>4. CASE HttpReturn
    BY <1>4 DEF HoldsInv, HttpReturn
  <1>5. CASE HttpTick
    BY <1>5 DEF HoldsInv, HttpTick, Tick, httpVars
  <1>6. CASE HttpOff
    BY <1>6 DEF HoldsInv, HttpOff
  <1> QED
    BY <1>1, <1>2, <1>3, <1>4, <1>5, <1>6 DEF HttpTrackerNext, allVars

\* Outside Http_Post (app.c:584-718) no socket is open and no block allocated,
\* whichever of its calls failed or was cut off by a restart.
THEOREM HttpNothingLeaks == HttpTrackerSpec => []NothingLeaks
  <1>1. HttpTrackerInit => HoldsInv
    BY DEF HttpTrackerInit, HttpInit, HoldsInv
  <1>2. HoldsInv => NothingLeaks
    BY DEF HoldsInv, NothingLeaks
  <1> QED
    BY <1>1, <1>2, HttpNextHolds, PTL DEF HttpTrackerSpec

-----------------------------------------------------------------------------
(* The composition *)

\* A step of the composition is a step of Tracker or leaves its variables.
LEMMA HttpStepRefines == [HttpTrackerNext]_allVars => [Next]_vars
  BY DEF HttpTrackerNext, HttpRun, HttpReturn, HttpTick, Next, allVars

\* What is proved of Tracker holds with Http_Post call by call.
LEMMA HttpRefines == HttpTrackerSpec => Spec
  <1>1. HttpTrackerInit => Init
    BY DEF HttpTrackerInit
  <1> QED
    BY <1>1, HttpStepRefines, PTL DEF HttpTrackerSpec, Spec

-----------------------------------------------------------------------------
(* Types *)

\* EventDispatch and the network keep the types of the main task.
LEMMA MainNextTypeOK ==
    ASSUME MainTypeOK, MainNext
    PROVE  MainTypeOK'
  <1>1. events \in Seq(Event) /\ Len(events) <= MaxEvents /\ Len(events) \in Nat /\ MaxEvents \in Nat
    BY MainTaskAssumption, LenProperties DEF MainTypeOK
  <1>2. CASE TakeEvent
    <2>1. Tail(events) \in Seq(Event) /\ Len(Tail(events)) = Len(events) - 1
      BY <1>1, <1>2, HeadTailProperties DEF TakeEvent
    <2>2. events' \in Seq(Event) /\ Len(events') <= MaxEvents
      BY <1>1, <1>2, <2>1 DEF TakeEvent
    <2>3. /\ networkFlag' \in BOOLEAN /\ isGpsOn' \in BOOLEAN /\ gpsHw' \in BOOLEAN
          /\ attachReq' \in BOOLEAN /\ activeReq' \in BOOLEAN
      BY <1>2 DEF TakeEvent, EventDispatch, NetworkSearching, NetworkRegistered, Registered,
                  NetworkAttached, NetworkActivated, UartReceived, MainTypeOK
    <2>4. led_status' \in {"LED_SYS_ON", "LED_NO_NETWORK"} /\ net' = net
      BY <1>2 DEF TakeEvent, LedStatus, MainTypeOK
    <2> QED
      BY <2>2, <2>3, <2>4 DEF MainTypeOK
  <1>3. ASSUME NEW e \in Event, Post(e)
        PROVE  events' \in Seq(Event) /\ Len(events') <= MaxEvents
    <2>1. Append(events, e) \in Seq(Event) /\ Len(Append(events, e)) = Len(events) + 1
      BY <1>1, AppendProperties
    <2> QED
      BY <1>1, <1>3, <2>1 DEF Post
  <1>4. CASE NetworkAnswers \/ NetworkLost \/ NetworkSearches \/ NetworkDeactivates
    <2>1. \E e \in {"SEARCHING", "REGISTERED", "ATTACHED", "ACTIVATED", "IGNORED"} : Post(e)
      BY <1>4 DEF NetworkAnswers, NetworkRegisters, NetworkAttaches, NetworkActivates,
                  NetworkLost, NetworkSearches, NetworkDeactivates
    <2>2. events' \in Seq(Event) /\ Len(events') <= MaxEvents
      BY <1>3, <2>1 DEF Event
    <2> QED
      BY <1>4, <2>2 DEF NetworkAnswers, NetworkRegisters, NetworkAttaches,
                NetworkActivates, NetworkLost, NetworkSearches, NetworkDeactivates, MainTypeOK, Net
  <1>5. CASE \E command \in UartCommand : UartInput(command)
    <2>1. events' \in Seq(Event) /\ Len(events') <= MaxEvents
      BY <1>3, <1>5 DEF UartInput, Event
    <2> QED
      BY <1>5, <2>1 DEF UartInput, MainTypeOK
  <1> QED
    BY <1>2, <1>4, <1>5 DEF MainNext

\* The device starts, and starts again, with values of the right types.
LEMMA RestartTypeOK == (Init => TypeOK) /\ (Restart => TypeOK')
  <1>1. <<>> \in Seq(Event) /\ Len(<<>>) <= MaxEvents
    BY MainTaskAssumption
  <1>2. Origin \in PositionOrNaN /\ DogOff \in -1..Limit
    BY TrackerAssumption DEF PositionOrNaN, DogOff
  <1>3. ASSUME Init PROVE TypeOK
    <2>1. MainTypeOK
      BY <1>1, <1>3 DEF Init, MainInit, MainTypeOK, Net
    <2> QED
      BY <1>2, <1>3, <2>1 DEF Init, GpsInit, TypeOK, GpsPc
  <1>4. ASSUME Restart PROVE TypeOK'
    <2>1. MainTypeOK'
      BY <1>1, <1>4 DEF Restart, MainTypeOK, Net
    <2> QED
      BY <1>2, <1>4, <2>1 DEF Restart, TypeOK, GpsPc
  <1> QED
    BY <1>3, <1>4

\* Every step of gps_testTask, of the main task and of the time keeps them.
LEMMA NextTypeOK ==
    ASSUME TypeOK, [Next]_vars
    PROVE  TypeOK'
  <1> USE TrackerAssumption
  <1>1. CASE MainStep
    BY <1>1, MainNextTypeOK DEF MainStep, gpsVars, TypeOK
  <1>2. CASE GpsTask \/ Posted \/ GpsReport \/ Tick
    <2>1. MainTypeOK'
      <3>1. CASE GpsOpen
        BY <3>1 DEF GpsOpen, TypeOK, MainTypeOK
      <3>2. CASE UNCHANGED mainVars
        BY <3>2 DEF mainVars, TypeOK, MainTypeOK
      <3> QED
        BY <1>2, <3>1, <3>2 DEF GpsTask, WatchDogOpen, NetworkReady, PositionReady, Read,
           SkipRead, Check, Decide, LoadPrevious, WatchDogKeepAlive, WakeUp, Posted, GpsReport, Tick
    <2>2. CASE WatchDogOpen \/ NetworkReady \/ GpsOpen \/ PositionReady \/ SkipRead
      <3>1. dog' \in -1..Limit /\ gpc' \in GpsPc
        BY <2>2 DEF WatchDogOpen, NetworkReady, GpsOpen, PositionReady, SkipRead,
                    GpsStep, TypeOK, GpsPc
      <3>2. UNCHANGED <<info, cur, prev, falseGPS, motion, wait>> /\ bufferReady' \in BOOLEAN
        BY <2>2 DEF WatchDogOpen, NetworkReady, GpsOpen, PositionReady, SkipRead, TypeOK
      <3> QED
        BY <2>1, <3>1, <3>2 DEF TypeOK
    <2>3. CASE Read
      BY <2>1, <2>3 DEF Read, GpsStep, TypeOK, GpsPc
    <2>4. CASE Decide \/ LoadPrevious \/ WatchDogKeepAlive \/ WakeUp \/ Posted
      BY <2>1, <2>4 DEF Decide, LoadPrevious, WatchDogKeepAlive, WakeUp, Posted,
                        GpsStep, TypeOK, GpsPc
    <2>5. CASE GpsReport
      BY <2>1, <2>5 DEF GpsReport, TypeOK, PositionOrNaN
    <2>6. CASE Tick
      BY <2>1, <2>6 DEF Tick, TypeOK, DogOff
    <2>7. CASE Check
      <3>1. falseGPS' \in BOOLEAN /\ motion' \in BOOLEAN
        BY <2>7 DEF Check, CheckFalseGPS, TypeOK
      <3> QED
        BY <2>1, <2>7, <3>1 DEF Check, GpsStep, TypeOK, GpsPc
    <2> QED
      BY <1>2, <2>2, <2>3, <2>4, <2>5, <2>6, <2>7 DEF GpsTask
  <1>3. CASE Traps \/ WatchDogReset
    BY <1>3, RestartTypeOK DEF Traps, ReadTraps, NoImei, GpsReportTraps, WatchDogReset
  <1>4. CASE UNCHANGED vars
    BY <1>4 DEF vars, mainVars, gpsVars, TypeOK, MainTypeOK
  <1> QED
    BY <1>1, <1>2, <1>3, <1>4 DEF Next

\* The gps task and the main task of app.c keep their types: no event queue
\* outgrows its length, the watchdog's time never passes its limit and a sleep
\* never counts below zero.
THEOREM TrackerTypeOK == HttpTrackerSpec => []TypeOK
  <1>1. Init => TypeOK
    BY RestartTypeOK
  <1>2. TypeOK /\ [Next]_vars => TypeOK'
    BY NextTypeOK
  <1> QED
    BY <1>1, <1>2, HttpRefines, PTL DEF Spec

-----------------------------------------------------------------------------
(* Credible positions *)

\* North of the equator and east of Greenwich.
Positive == \A p \in Position : p[1] > 0 /\ p[2] > 0

Known(p) == p \in Position

\* Positions are known, empty or the initial zeros; the zeros are gone once
\* the loop runs.
PlacesInv ==
    /\ info \in PositionOrNaN /\ cur \in PositionOrNaN /\ prev \in PositionOrNaN
    /\ gpc \notin {"start", "waitNetwork", "open", "waitPosition"} => info # Origin
    /\ gpc = "report" => cur # Origin

\* Without a known position to compare with, falseGPS is true: the answer that
\* a skipped check leaves in force is never an old "credible".
AnswerInv ==
    /\ falseGPS \in BOOLEAN
    /\ ~Known(prev) => falseGPS
    /\ gpc \in {"decide", "post", "load"} /\ ~Known(cur) => falseGPS
    /\ gpc \in {"decide", "post"} /\ ~falseGPS => Near(cur, prev)
    /\ gpc = "post" => ~falseGPS

CredibleInv == PlacesInv /\ AnswerInv

\* A known position can be compared with; an empty one and the zeros cannot.
LEMMA PreviousLemma ==
    ASSUME Positive, PlacesInv
    PROVE  /\ HavePrevious <=> Known(prev)
           /\ NaN \notin Position /\ Origin \notin Position
  <1>1. Position \subseteq Int \X Int
    BY TrackerAssumption
  <1>2. NaN \notin Position /\ Origin \notin Position
    BY <1>1 DEF Positive, NaN, Origin
  <1>3. CASE Known(prev)
    BY <1>1, <1>2, <1>3 DEF Known, HavePrevious, Positive
  <1>4. CASE ~Known(prev)
    BY <1>2, <1>4 DEF Known, PlacesInv, PositionOrNaN, HavePrevious, NaN, Origin
  <1> QED
    BY <1>2, <1>3, <1>4

\* Every step of Tracker keeps the answer right.
LEMMA NextCredible ==
    ASSUME Positive, CredibleInv, [Next]_vars
    PROVE  CredibleInv'
  <1> USE DEF CredibleInv
  <1>0. /\ HavePrevious <=> Known(prev)
        /\ NaN \notin Position /\ Origin \notin Position
    BY PreviousLemma
  <1>1. CASE Check
    <2> USE <1>1 DEF Check, GpsStep
    <2>1. PlacesInv'
      BY DEF PlacesInv
    <2>2. CASE Known(prev)
      <3>1. falseGPS' = ~Near(cur, prev)
        BY <1>0, <2>2 DEF CheckFalseGPS
      <3>2. Near(cur, prev) \in BOOLEAN
        BY DEF Near
      <3>3. ~Known(cur) => ~Near(cur, prev)
        BY DEF PlacesInv, PositionOrNaN, Known, Near
      <3>4. Near(cur', prev') <=> Near(cur, prev)
        BY DEF Near
      <3> QED
        BY <2>1, <2>2, <3>1, <3>2, <3>3, <3>4 DEF AnswerInv, Known
    <2>3. CASE ~Known(prev)
      <3>1. falseGPS' = falseGPS /\ falseGPS
        BY <1>0, <2>3 DEF CheckFalseGPS, AnswerInv
      <3> QED
        BY <2>1, <2>3, <3>1 DEF AnswerInv, Known
    <2> QED
      BY <2>2, <2>3
  <1>2. CASE PositionReady
    <2>1. info # Origin
      BY <1>2 DEF PositionReady, Origin
    <2> QED
      BY <1>2, <2>1 DEF PositionReady, GpsStep, PlacesInv, AnswerInv, Known
  <1>3. CASE WatchDogOpen \/ NetworkReady \/ GpsOpen \/ SkipRead \/ WatchDogKeepAlive \/ WakeUp
    BY <1>3 DEF WatchDogOpen, NetworkReady, GpsOpen, SkipRead, WatchDogKeepAlive, WakeUp,
                GpsStep, PlacesInv, AnswerInv, Known
  <1>4. CASE Decide
    <2> USE <1>4 DEF Decide, GpsStep
    <2>1. PlacesInv'
      BY DEF PlacesInv
    <2>2. Near(cur', prev') <=> Near(cur, prev)
      BY DEF Near
    <2> QED
      BY <2>1, <2>2 DEF AnswerInv, Known
  <1>5. CASE LoadPrevious
    BY <1>5 DEF LoadPrevious, GpsStep, PlacesInv, AnswerInv, Known
  <1>6. CASE Posted
    BY <1>6 DEF Posted, GpsStep, PlacesInv, AnswerInv, Known
  <1>7. CASE GpsReport
    <2> USE <1>7 DEF GpsReport
    <2>1. info' \in Position \cup {NaN}
      OBVIOUS
    <2>2. NaN # Origin
      BY DEF NaN, Origin
    <2>3. PlacesInv'
      BY <1>0, <2>1, <2>2 DEF PlacesInv, PositionOrNaN
    <2>4. Near(cur', prev') <=> Near(cur, prev)
      BY DEF Near
    <2> QED
      BY <2>3, <2>4 DEF AnswerInv, Known
  <1>8. CASE Restart
    BY <1>8 DEF Restart, PlacesInv, PositionOrNaN, AnswerInv
  <1>9. CASE Tick \/ MainStep \/ UNCHANGED vars
    <2> USE <1>9 DEF Tick, MainStep, vars, gpsVars
    <2>1. PlacesInv'
      BY DEF PlacesInv
    <2>2. Near(cur', prev') <=> Near(cur, prev)
      BY DEF Near
    <2> QED
      BY <2>1, <2>2 DEF AnswerInv, Known
  <1>10. CASE Read
    BY <1>10 DEF Read, GpsStep, PlacesInv, AnswerInv, Known
  <1> QED
    BY <1>1, <1>2, <1>3, <1>4, <1>5, <1>6, <1>7, <1>8, <1>9, <1>10
    DEF Next, GpsTask, Traps, ReadTraps, NoImei, GpsReportTraps, WatchDogReset

\* app.c:939: with positive coordinates a position is posted only when it lies
\* within the threshold of the one read before it, however empty positions,
\* restarts and "close" commands come between.
THEOREM CrediblePosts ==
    ASSUME Positive
    PROVE  HttpTrackerSpec => []PostsOnlyCredible
  <1>1. Init => CredibleInv
    BY DEF Init, GpsInit, CredibleInv, PlacesInv, PositionOrNaN, AnswerInv
  <1>2. CredibleInv /\ [Next]_vars => CredibleInv'
    BY NextCredible
  <1>3. CredibleInv => PostsOnlyCredible
    BY DEF CredibleInv, AnswerInv, PostsOnlyCredible
  <1> QED
    BY <1>1, <1>2, <1>3, HttpRefines, PTL DEF Spec

-----------------------------------------------------------------------------
(* The watchdog *)

\* Both sleeps are shorter than the watchdog's limit, and a remote call may
\* take for ever.
SleepsShort == ServerHangs /\ SleepMoving < Limit /\ SleepStill < Limit

\* Since the watchdog was fed the sleep has taken the rest of its time, and
\* nothing else takes time but the waits and Http_Post.
DogInv ==
    /\ dog \in Int /\ wait \in Nat
    /\ gpc = "sleep" => dog + wait <= SleepMoving \/ dog + wait <= SleepStill
    /\ gpc \notin {"waitNetwork", "waitPosition", "post"} => dog < Limit

\* Every step of Tracker keeps the watchdog from being due.
LEMMA NextDog ==
    ASSUME SleepsShort, DogInv, [Next]_vars
    PROVE  DogInv'
  <1> USE TrackerAssumption DEF SleepsShort
  <1>1. CASE GpsTask
    <2>1. CASE WatchDogKeepAlive
      BY <2>1 DEF WatchDogKeepAlive, GpsStep, DogInv
    <2>2. CASE WatchDogOpen
      BY <2>2 DEF WatchDogOpen, GpsStep, DogInv
    <2>3. CASE NetworkReady \/ GpsOpen \/ PositionReady \/ Read \/ SkipRead \/ Check
      BY <2>3 DEF NetworkReady, GpsOpen, PositionReady, Read, SkipRead, Check, GpsStep, DogInv
    <2>4. CASE Decide \/ LoadPrevious \/ WakeUp
      BY <2>4 DEF Decide, LoadPrevious, WakeUp, GpsStep, DogInv
    <2> QED
      BY <1>1, <2>1, <2>2, <2>3, <2>4 DEF GpsTask
  <1>2. CASE Posted
    BY <1>2 DEF Posted, GpsStep, DogInv
  <1>3. CASE Tick
    BY <1>3 DEF Tick, DogInv
  <1>4. CASE Restart
    BY <1>4 DEF Restart, DogInv, DogOff
  <1>5. CASE GpsReport \/ MainStep \/ UNCHANGED vars
    BY <1>5 DEF GpsReport, MainStep, vars, gpsVars, DogInv
  <1> QED
    BY <1>1, <1>2, <1>3, <1>4, <1>5 DEF Next, Traps, ReadTraps, NoImei, GpsReportTraps, WatchDogReset

\* The watchdog bites only in the two waits of gps_testTask at its start and
\* in Http_Post, for every pair of sleeps shorter than its limit.
THEOREM WatchDogBitesInWaits ==
    ASSUME SleepsShort
    PROVE  HttpTrackerSpec => []NoNeedlessReset
  <1>1. Init => DogInv
    BY TrackerAssumption DEF Init, GpsInit, DogInv, DogOff
  <1>2. DogInv /\ [Next]_vars => DogInv'
    BY NextDog
  <1>3. DogInv => NoNeedlessReset
    BY TrackerAssumption DEF DogInv, NoNeedlessReset, SleepsShort
  <1> QED
    BY <1>1, <1>2, <1>3, HttpRefines, PTL DEF Spec
=============================================================================
