------------------------------ MODULE MainTask ------------------------------
(***************************************************************************)
(* The main task of firmware/app/src/app.c: gps_MainTask takes one event   *)
(* after the other and gives it to EventDispatch.  The events that change  *)
(* state here are those of the GSM network and the UART1 commands "open"   *)
(* and "close"; StatusLed and Tracker add the LED timer and the gps task.  *)
(*                                                                         *)
(* The network is external.  It is modelled from the calls and events the  *)
(* code uses: Network_StartAttach and Network_StartActive are requests     *)
(* that it answers later, or fails; registration and the packet data       *)
(* context may be lost at any time.  Every change is reported by an event, *)
(* which waits in a queue until the main task takes it; a loss by one of   *)
(* several, of which EventDispatch heeds only some.                        *)
(***************************************************************************)
EXTENDS Naturals, Sequences

CONSTANTS MaxEvents,    \* bound: the events that wait in the queue
          UartCommand,  \* the UART1 commands that may be typed
          LossPossible, \* may the registration be lost?
          DropPossible  \* may the packet data context alone be lost?

ASSUME MainTaskAssumption ==
    /\ MaxEvents \in Nat \ {0} /\ UartCommand \subseteq {"open", "close"}
    /\ LossPossible \in BOOLEAN /\ DropPossible \in BOOLEAN

VARIABLES networkFlag, isGpsOn, led_status,
          gpsHw,        \* is the GPS hardware open (GPS_Open, GPS_Close)?
          events,       \* the event queue of the main task
          net,          \* the state of the network connection
          attachReq, activeReq    \* requests the network has not answered

mainVars == <<networkFlag, isGpsOn, led_status, gpsHw, events, net, attachReq, activeReq>>

Net   == {"none", "registered", "attached", "active"}
Event == {"SEARCHING", "REGISTERED", "ATTACHED", "ACTIVATED", "IGNORED"} \cup UartCommand

MainTypeOK ==
    /\ networkFlag \in BOOLEAN /\ isGpsOn \in BOOLEAN /\ gpsHw \in BOOLEAN
    /\ led_status \in {"LED_SYS_ON", "LED_NO_NETWORK"}
    /\ events \in Seq(Event) /\ Len(events) <= MaxEvents
    /\ net \in Net /\ attachReq \in BOOLEAN /\ activeReq \in BOOLEAN

MainInit ==
    /\ networkFlag = FALSE /\ isGpsOn = TRUE /\ led_status = "LED_SYS_ON"
    /\ gpsHw = FALSE
    /\ events = <<>>
    /\ net = "none" /\ attachReq = FALSE /\ activeReq = FALSE

-----------------------------------------------------------------------------
(* EventDispatch: the effect of one event.  NO_SIMCARD does what           *)
(* REGISTER_SEARCHING does.  IGNORED stands for the events that fall       *)
(* through to a trace or to default: REGISTER_DENIED, REGISTER_NO,         *)
(* DEREGISTER, SIMCARD_DROP, KEY_DOWN, ATTACH_FAILED, DETACHED,            *)
(* ACTIVATE_FAILED, DEACTIVED.                                             *)

\* On registration: attach, or activate when already attached.  When
\* Network_GetAttachStatus fails, status is uninitialized: either branch.
Registered(statusKnown) ==
    \/ /\ statusKnown => net \notin {"attached", "active"}
       /\ attachReq' = TRUE /\ activeReq' = activeReq
    \/ /\ statusKnown => net \in {"attached", "active"}
       /\ activeReq' = TRUE /\ attachReq' = attachReq

\* Mutant: a lost registration leaves networkFlag set.
SearchingKeepsFlag ==
    UNCHANGED <<networkFlag, isGpsOn, gpsHw, attachReq, activeReq>>

NetworkSearching ==
    networkFlag' = FALSE /\ UNCHANGED <<isGpsOn, gpsHw, attachReq, activeReq>>
NetworkRegistered ==
    (\E known \in BOOLEAN : Registered(known)) /\ UNCHANGED <<networkFlag, isGpsOn, gpsHw>>
NetworkAttached ==
    activeReq' = TRUE /\ UNCHANGED <<networkFlag, isGpsOn, gpsHw, attachReq>>
NetworkActivated ==
    networkFlag' = TRUE /\ UNCHANGED <<isGpsOn, gpsHw, attachReq, activeReq>>
UartReceived(on) ==
    gpsHw' = on /\ isGpsOn' = on /\ UNCHANGED <<networkFlag, attachReq, activeReq>>

EventDispatch(event) ==
    CASE event = "SEARCHING"  -> NetworkSearching
      [] event = "REGISTERED" -> NetworkRegistered
      [] event = "ATTACHED"   -> NetworkAttached
      [] event = "ACTIVATED"  -> NetworkActivated
      [] event = "close"      -> UartReceived(FALSE)
      [] event = "open"       -> UartReceived(TRUE)
      [] OTHER -> UNCHANGED <<networkFlag, isGpsOn, gpsHw, attachReq, activeReq>>

\* Mutant: the flags are tested before the event is dispatched.
LedStatusStale ==
    led_status' = CASE isGpsOn /\ networkFlag        -> "LED_SYS_ON"
                    [] Head(events) = "SEARCHING"    -> "LED_NO_NETWORK"
                    [] OTHER                         -> led_status

\* led_status is set by the SEARCHING event and then, after any event, by the
\* test of the flags.
LedStatus ==
    led_status' = CASE isGpsOn' /\ networkFlag'      -> "LED_SYS_ON"
                    [] Head(events) = "SEARCHING"    -> "LED_NO_NETWORK"
                    [] OTHER                         -> led_status

\* One round of the event loop.
TakeEvent ==
    /\ events # <<>>
    /\ events' = Tail(events)
    /\ EventDispatch(Head(events))
    /\ LedStatus
    /\ net' = net

-----------------------------------------------------------------------------
(* External: the network and the UART *)

Post(event) == Len(events) < MaxEvents /\ events' = Append(events, event)

NetworkRegisters ==
    /\ net = "none" /\ net' = "registered"
    /\ Post("REGISTERED")
    /\ UNCHANGED <<networkFlag, isGpsOn, led_status, gpsHw, attachReq, activeReq>>

NetworkAttaches ==
    /\ attachReq /\ attachReq' = FALSE
    /\ \/ net = "registered" /\ net' = "attached" /\ Post("ATTACHED")
       \/ net' = net /\ Post("IGNORED")
    /\ UNCHANGED <<networkFlag, isGpsOn, led_status, gpsHw, activeReq>>

NetworkActivates ==
    /\ activeReq /\ activeReq' = FALSE
    /\ \/ net \in {"attached", "active"} /\ net' = "active" /\ Post("ACTIVATED")
       \/ net' = net /\ Post("IGNORED")
    /\ UNCHANGED <<networkFlag, isGpsOn, led_status, gpsHw, attachReq>>

\* The registration is lost and with it everything above it.  The event says
\* that the modem searches (or has no card), or is one of those EventDispatch
\* ignores: REGISTER_DENIED, REGISTER_NO, DEREGISTER, SIMCARD_DROP.
NetworkLost ==
    /\ LossPossible
    /\ net # "none" /\ net' = "none"
    /\ \E event \in {"SEARCHING", "IGNORED"} : Post(event)
    /\ UNCHANGED <<networkFlag, isGpsOn, led_status, gpsHw, attachReq, activeReq>>

\* Without registration the modem may report at any time that it searches.
NetworkSearches ==
    /\ net = "none"
    /\ Post("SEARCHING")
    /\ UNCHANGED <<networkFlag, isGpsOn, led_status, gpsHw, net, attachReq, activeReq>>

\* The packet data context alone is lost.
NetworkDeactivates ==
    /\ DropPossible
    /\ net = "active" /\ net' = "attached"
    /\ Post("IGNORED")
    /\ UNCHANGED <<networkFlag, isGpsOn, led_status, gpsHw, attachReq, activeReq>>

UartInput(command) ==
    /\ Post(command)
    /\ UNCHANGED <<networkFlag, isGpsOn, led_status, gpsHw, net, attachReq, activeReq>>

NetworkAnswers == NetworkRegisters \/ NetworkAttaches \/ NetworkActivates

MainNext == \/ TakeEvent
            \/ NetworkAnswers \/ NetworkLost \/ NetworkSearches \/ NetworkDeactivates
            \/ \E command \in UartCommand : UartInput(command)
=============================================================================
