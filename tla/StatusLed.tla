----------------------------- MODULE StatusLed ------------------------------
(***************************************************************************)
(* The system status LED of firmware/app/src/app.c: LED_Blink, a callback  *)
(* timer that the main task runs once a second and that starts itself      *)
(* again.  The callback and the event loop are the same task, so one       *)
(* never interrupts the other.                                             *)
(***************************************************************************)
EXTENDS MainTask

CONSTANT CountCap   \* bound: a count above 11 matches nothing and stays

ASSUME StatusLedAssumption == CountCap \in Nat /\ CountCap > 11

VARIABLES count,    \* static int count of LED_Blink
          led,      \* the level of GPIO SYSTEM_STATUS_LED
          reported  \* history: since the registration was lost, has an event
                    \* said so that EventDispatch heeds?

ledVars == <<count, led>>
vars == <<mainVars, ledVars, reported>>

Init == MainInit /\ count = 0 /\ led = FALSE /\ reported = FALSE

Incremented == IF count < CountCap THEN count + 1 ELSE count

\* Mutant: the count goes on when the LED is switched off.
BlinkOnce(at) ==
    /\ count' = Incremented
    /\ led' = IF Incremented = at THEN TRUE ELSE IF Incremented = at + 1 THEN FALSE ELSE led

\* One status blinks: on when the count reaches it, off one tick later.
Blink(at) ==
    \/ /\ Incremented = at
       /\ led' = TRUE /\ count' = at
    \/ /\ Incremented = at + 1
       /\ led' = FALSE /\ count' = 0
    \/ /\ Incremented \notin {at, at + 1}
       /\ led' = led /\ count' = Incremented

LED_Blink ==
    /\ \/ led_status = "LED_SYS_ON" /\ Blink(10)
       \/ led_status = "LED_NO_NETWORK" /\ Blink(2)
    /\ UNCHANGED <<mainVars, reported>>

Report == reported' = /\ net' = "none"
                      /\ reported \/ events' = Append(events, "SEARCHING")

MainStep == MainNext /\ Report /\ UNCHANGED ledVars

Next == LED_Blink \/ MainStep

Spec == Init /\ [][Next]_vars
\* The timer is periodic and the main task takes its events.
FairSpec == Spec /\ WF_vars(LED_Blink) /\ WF_vars(TakeEvent /\ Report /\ UNCHANGED ledVars)

-----------------------------------------------------------------------------
\* When the registration is lost, an event that EventDispatch heeds has said so
\* and the queue is empty, networkFlag is false, whatever activations, losses
\* and answers overlapped on the way (app.c:143-159).  A loss that is reported
\* only by REGISTER_DENIED, REGISTER_NO or DEREGISTER leaves the flag set.
FlagClearedWhenLost ==
    events = <<>> /\ net = "none" /\ reported => ~networkFlag

\* Once every event is taken led_status is that of the network as it is, not as
\* it was: LED_NO_NETWORK after a loss that was reported, LED_SYS_ON with an
\* active context and the GPS on, in whichever order loss, recovery, "open" and
\* "close" came (app.c:150, 158, 1176).  It says nothing of the states between:
\* with the GPS off LED_NO_NETWORK stays when the network returns.
LedTellsNetwork ==
    events = <<>> =>
        /\ net = "none" /\ reported => led_status = "LED_NO_NETWORK"
        /\ net = "active" /\ isGpsOn => led_status = "LED_SYS_ON"

\* app.c:1014, 1026: each status has its own rhythm, and all share one count.  A
\* status that begins when the count is not past its rhythm, and stays, blinks
\* for ever.  (One that begins later leaves the LED as it is, without end.)
BlinksFor(status, at) ==
    []((count <= at /\ [](led_status = status)) => []<>led /\ []<>~led)
KeepsRhythm == BlinksFor("LED_SYS_ON", 10) /\ BlinksFor("LED_NO_NETWORK", 2)
=============================================================================
