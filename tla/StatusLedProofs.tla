-------------------------- MODULE StatusLedProofs ---------------------------
(***************************************************************************)
(* Proofs about the main task and its status LED, for every length of the  *)
(* event queue, every set of UART commands and every choice of what the    *)
(* network may do.                                                         *)
(***************************************************************************)
EXTENDS StatusLed, SequenceTheorems, TLAPS

-----------------------------------------------------------------------------
(* The event queue *)

\* What gps_MainTask takes from the queue and what it leaves.
LEMMA TakenEvent ==
    ASSUME NEW T, NEW s \in Seq(T), s # <<>>
    PROVE  /\ Head(s) = s[1] /\ Head(s) \in T
           /\ Tail(s) \in Seq(T) /\ Len(s) \in Nat /\ Len(s) >= 1
           /\ Len(Tail(s)) = Len(s) - 1
           /\ \A i \in 1..(Len(s) - 1) : Tail(s)[i] = s[i + 1]
<1>1. Len(s) \in Nat /\ Len(s) # 0
      BY EmptySeq
<1> QED BY <1>1, HeadTailProperties

\* What an event that is posted adds.
LEMMA PostedEvent ==
    ASSUME NEW T, NEW s \in Seq(T), NEW e \in T
    PROVE  /\ Append(s, e) \in Seq(T) /\ Len(s) \in Nat
           /\ Len(Append(s, e)) = Len(s) + 1
           /\ \A i \in 1..Len(s) : Append(s, e)[i] = s[i]
           /\ Append(s, e)[Len(s) + 1] = e
BY AppendProperties, LenProperties

-----------------------------------------------------------------------------
(* Types *)

\* EventDispatch and the network keep the types of the main task.
LEMMA MainNextTypeOK ==
    ASSUME MainTypeOK, MainNext
    PROVE  MainTypeOK'
<1>1. CASE TakeEvent
  <2>1. events \in Seq(Event) /\ events # <<>> /\ Len(events) <= MaxEvents
        BY <1>1 DEF TakeEvent, MainTypeOK
  <2>2. events' \in Seq(Event) /\ Len(events') <= MaxEvents
    <3>1. Tail(events) \in Seq(Event) /\ Len(events) \in Nat /\ Len(Tail(events)) = Len(events) - 1
          BY <2>1, TakenEvent
    <3> QED BY <1>1, <2>1, <3>1, MainTaskAssumption DEF TakeEvent
  <2>3. /\ networkFlag' \in BOOLEAN /\ isGpsOn' \in BOOLEAN /\ gpsHw' \in BOOLEAN
        /\ attachReq' \in BOOLEAN /\ activeReq' \in BOOLEAN
        BY <1>1 DEF TakeEvent, EventDispatch, NetworkSearching, NetworkRegistered, Registered,
                    NetworkAttached, NetworkActivated, UartReceived, MainTypeOK
  <2>4. led_status' \in {"LED_SYS_ON", "LED_NO_NETWORK"} /\ net' = net
        BY <1>1 DEF TakeEvent, LedStatus, MainTypeOK
  <2> QED BY <2>2, <2>3, <2>4 DEF MainTypeOK
<1>2. ASSUME NEW e \in Event, Post(e)
      PROVE  events' \in Seq(Event) /\ Len(events') <= MaxEvents
  <2>1. Append(events, e) \in Seq(Event) /\ Len(Append(events, e)) = Len(events) + 1 /\ Len(events) \in Nat
        BY PostedEvent DEF MainTypeOK
  <2> QED BY <1>2, <2>1, MainTaskAssumption DEF Post
<1>3. CASE NetworkAnswers \/ NetworkLost \/ NetworkSearches \/ NetworkDeactivates
  <2>1. \E e \in {"SEARCHING", "REGISTERED", "ATTACHED", "ACTIVATED", "IGNORED"} : Post(e)
        BY <1>3 DEF NetworkAnswers, NetworkRegisters, NetworkAttaches, NetworkActivates,
                    NetworkLost, NetworkSearches, NetworkDeactivates
  <2>2. events' \in Seq(Event) /\ Len(events') <= MaxEvents
        BY <1>2, <2>1 DEF Event
  <2> QED BY <1>3, <2>2 DEF NetworkAnswers, NetworkRegisters, NetworkAttaches,
                NetworkActivates, NetworkLost, NetworkSearches, NetworkDeactivates, MainTypeOK, Net
<1>4. CASE \E command \in UartCommand : UartInput(command)
  <2>1. events' \in Seq(Event) /\ Len(events') <= MaxEvents
        BY <1>2, <1>4 DEF UartInput, Event
  <2> QED BY <1>4, <2>1 DEF UartInput, MainTypeOK
<1> QED BY <1>1, <1>3, <1>4 DEF MainNext

\* The main task and the LED keep their types.
LEMMA LedTypeOK == Spec => []MainTypeOK
<1>1. Init => MainTypeOK
  <2>1. <<>> \in Seq(Event) /\ Len(<<>>) <= MaxEvents
        BY MainTaskAssumption
  <2> QED BY <2>1 DEF Init, MainInit, MainTypeOK, Net
<1>2. MainTypeOK /\ [Next]_vars => MainTypeOK'
  <2> SUFFICES ASSUME MainTypeOK, [Next]_vars PROVE MainTypeOK'
      OBVIOUS
  <2>1. CASE MainNext
        BY <2>1, MainNextTypeOK
  <2>2. CASE UNCHANGED mainVars
        BY <2>2 DEF mainVars, MainTypeOK
  <2> QED BY <2>1, <2>2 DEF Next, MainStep, LED_Blink, vars
<1> QED BY <1>1, <1>2, PTL DEF Spec

-----------------------------------------------------------------------------
(* The order of the events in the queue *)

\* b waits in the queue s; every a in it is followed by a b.
Waits(s, b) == \E i \in 1..Len(s) : s[i] = b
Follows(s, a, b) ==
    \A i \in 1..Len(s) : s[i] = a => \E j \in 1..Len(s) : i < j /\ s[j] = b

\* Taking an event keeps what follows it.
LEMMA TakeFollows ==
    ASSUME NEW T, NEW s \in Seq(T), s # <<>>, NEW a, NEW b, Follows(s, a, b)
    PROVE  /\ Follows(Tail(s), a, b)
           /\ Waits(s, b) /\ Head(s) # b => Waits(Tail(s), b)
           /\ Head(s) = a => Waits(Tail(s), b)
<1> DEFINE t == Tail(s)
<1>1. /\ Head(s) = s[1] /\ Len(s) \in Nat /\ Len(s) >= 1 /\ Len(t) = Len(s) - 1
      /\ \A i \in 1..(Len(s) - 1) : t[i] = s[i + 1]
      BY TakenEvent
<1> HIDE DEF t
<1>2. Follows(t, a, b)
  <2> SUFFICES ASSUME NEW i \in 1..Len(t), t[i] = a
               PROVE  \E j \in 1..Len(t) : i < j /\ t[j] = b
      BY DEF Follows
  <2>1. i + 1 \in 1..Len(s) /\ s[i + 1] = a
        BY <1>1
  <2>2. PICK j \in 1..Len(s) : i + 1 < j /\ s[j] = b
        BY <2>1 DEF Follows
  <2>3. j - 1 \in 1..Len(t) /\ i < j - 1 /\ t[j - 1] = b
        BY <1>1, <2>2
  <2> QED BY <2>3
<1>3. ASSUME NEW j \in 1..Len(s), j > 1, s[j] = b PROVE Waits(t, b)
  <2>1. j - 1 \in 1..Len(t) /\ t[j - 1] = b
        BY <1>1, <1>3
  <2> QED BY <2>1 DEF Waits
<1>4. Waits(s, b) /\ Head(s) # b => Waits(t, b)
      BY <1>1, <1>3 DEF Waits
<1>5. Head(s) = a => Waits(t, b)
      BY <1>1, <1>3 DEF Follows
<1> QED BY <1>2, <1>4, <1>5 DEF t

\* Posting b, or anything but a.
LEMMA PostFollows ==
    ASSUME NEW T, NEW s \in Seq(T), NEW e \in T, NEW a, NEW b, a # b
    PROVE  /\ e = b => Waits(Append(s, e), b) /\ Follows(Append(s, e), a, b)
           /\ Waits(s, b) => Waits(Append(s, e), b)
           /\ e # a /\ Follows(s, a, b) => Follows(Append(s, e), a, b)
<1> DEFINE t == Append(s, e)
<1>1. /\ Len(s) \in Nat /\ Len(t) = Len(s) + 1 /\ t[Len(s) + 1] = e
      /\ \A i \in 1..Len(s) : t[i] = s[i]
      BY PostedEvent
<1> HIDE DEF t
<1>2. ASSUME e = b PROVE Waits(t, b) /\ Follows(t, a, b)
  <2>1. Len(t) \in 1..Len(t) /\ t[Len(t)] = b
        BY <1>1, <1>2
  <2>2. \A i \in 1..Len(t) : t[i] = a => i < Len(t)
        BY <1>1, <2>1
  <2> QED BY <2>1, <2>2 DEF Waits, Follows
<1>3. Waits(s, b) => Waits(t, b)
      BY <1>1 DEF Waits
<1>4. ASSUME e # a, Follows(s, a, b) PROVE Follows(t, a, b)
  <2> SUFFICES ASSUME NEW i \in 1..Len(t), t[i] = a
               PROVE  \E j \in 1..Len(t) : i < j /\ t[j] = b
      BY DEF Follows
  <2>1. i \in 1..Len(s) /\ s[i] = a
        BY <1>1, <1>4
  <2>2. PICK j \in 1..Len(s) : i < j /\ s[j] = b
        BY <1>4, <2>1 DEF Follows
  <2> QED BY <1>1, <2>2
<1> QED BY <1>2, <1>3, <1>4 DEF t

-----------------------------------------------------------------------------
(* networkFlag and led_status *)

\* After a loss that was reported, the report is still to come: after every
\* activation that waits, and as long as the flag or the LED has not seen it.
LostInv ==
    reported =>
        /\ net = "none"
        /\ Follows(events, "ACTIVATED", "SEARCHING")
        /\ networkFlag \/ led_status # "LED_NO_NETWORK" => Waits(events, "SEARCHING")

\* With an active context its activation is still to come: after every loss
\* that waits, and as long as the flag is not set.
ActiveInv ==
    net = "active" =>
        /\ Follows(events, "SEARCHING", "ACTIVATED")
        /\ ~networkFlag => Waits(events, "ACTIVATED")

\* The flags change only in EventDispatch, and the test that follows in the
\* same round sees the change.
FlagsInv == isGpsOn /\ networkFlag => led_status = "LED_SYS_ON"

NetworkInv == LostInv /\ ActiveInv /\ FlagsInv

\* What one round of the event loop does to the flag and to led_status.
LEMMA TakeEffect ==
    ASSUME TakeEvent
    PROVE  /\ net' = net /\ events # <<>> /\ events' = Tail(events)
           /\ Head(events) = "SEARCHING" => ~networkFlag' /\ led_status' = "LED_NO_NETWORK"
           /\ Head(events) = "ACTIVATED" => networkFlag'
           /\ Head(events) \notin {"SEARCHING", "ACTIVATED"} => networkFlag' = networkFlag
           /\ ~networkFlag' /\ Head(events) # "SEARCHING" => led_status' = led_status
           /\ isGpsOn' /\ networkFlag' => led_status' = "LED_SYS_ON"
<1>1. /\ Head(events) = "SEARCHING" => ~networkFlag'
      /\ Head(events) = "ACTIVATED" => networkFlag'
      /\ Head(events) \notin {"SEARCHING", "ACTIVATED"} => networkFlag' = networkFlag
      BY DEF TakeEvent, EventDispatch, NetworkSearching, NetworkRegistered,
             NetworkAttached, NetworkActivated, UartReceived
<1> QED BY <1>1 DEF TakeEvent, LedStatus

\* Taking an event from the queue.
LEMMA TakeNetwork ==
    ASSUME MainTypeOK, NetworkInv, TakeEvent, Report
    PROVE  NetworkInv'
<1> DEFINE s == events  t == events'
<1>1. s \in Seq(Event) /\ s # <<>> /\ t = Tail(s)
      BY TakeEffect DEF MainTypeOK
<1>2. reported' => reported
  <2>1. Len(t) # Len(Append(s, "SEARCHING"))
    <3>1. Len(t) = Len(s) - 1 /\ Len(s) \in Nat
          BY <1>1, TakenEvent
    <3>2. Len(Append(s, "SEARCHING")) = Len(s) + 1
          BY <1>1, PostedEvent DEF Event
    <3> QED BY <3>1, <3>2
  <2> QED BY <2>1, TakeEffect DEF Report
<1>3. LostInv'
  <2> SUFFICES ASSUME reported'
               PROVE  /\ net' = "none"
                      /\ Follows(t, "ACTIVATED", "SEARCHING")
                      /\ networkFlag' \/ led_status' # "LED_NO_NETWORK" => Waits(t, "SEARCHING")
      BY DEF LostInv
  <2>1. /\ net = "none"
        /\ Follows(s, "ACTIVATED", "SEARCHING")
        /\ networkFlag \/ led_status # "LED_NO_NETWORK" => Waits(s, "SEARCHING")
        BY <1>2 DEF NetworkInv, LostInv
  <2> HIDE DEF s, t
  <2>2. /\ Follows(t, "ACTIVATED", "SEARCHING")
        /\ Waits(s, "SEARCHING") /\ Head(s) # "SEARCHING" => Waits(t, "SEARCHING")
        /\ Head(s) = "ACTIVATED" => Waits(t, "SEARCHING")
        BY <1>1, <2>1, TakeFollows
  <2> QED BY <2>1, <2>2, TakeEffect DEF s
<1>4. ActiveInv'
  <2> SUFFICES ASSUME net' = "active"
               PROVE  Follows(t, "SEARCHING", "ACTIVATED") /\ (~networkFlag' => Waits(t, "ACTIVATED"))
      BY DEF ActiveInv
  <2>1. Follows(s, "SEARCHING", "ACTIVATED") /\ (~networkFlag => Waits(s, "ACTIVATED"))
        BY TakeEffect DEF NetworkInv, ActiveInv
  <2> HIDE DEF s, t
  <2>2. /\ Follows(t, "SEARCHING", "ACTIVATED")
        /\ Waits(s, "ACTIVATED") /\ Head(s) # "ACTIVATED" => Waits(t, "ACTIVATED")
        /\ Head(s) = "SEARCHING" => Waits(t, "ACTIVATED")
        BY <1>1, <2>1, TakeFollows
  <2> QED BY <2>1, <2>2, TakeEffect DEF s
<1>5. FlagsInv'
      BY TakeEffect DEF FlagsInv
<1> QED BY <1>3, <1>4, <1>5 DEF NetworkInv

\* Posting an event: SEARCHING only without a registration, ACTIVATED only with
\* an active context, and a context becomes active only with its event.
LEMMA PostNetwork ==
    ASSUME MainTypeOK, NetworkInv, Report, NEW e \in Event, Post(e),
           UNCHANGED <<networkFlag, isGpsOn, led_status>>,
           e = "SEARCHING" => net' = "none",
           e = "ACTIVATED" => net' = "active",
           net' = "active" /\ e # "ACTIVATED" => net = "active"
    PROVE  NetworkInv'
<1> DEFINE s == events  t == events'
<1>1. s \in Seq(Event) /\ t = Append(s, e)
      BY DEF Post, MainTypeOK
<1>2. reported' => net' = "none" /\ (e = "SEARCHING" \/ reported)
  <2> SUFFICES ASSUME Append(s, e) = Append(s, "SEARCHING") PROVE e = "SEARCHING"
      BY <1>1 DEF Report
  <2>1. Append(s, e)[Len(s) + 1] = e
        BY <1>1, PostedEvent
  <2>2. Append(s, "SEARCHING")[Len(s) + 1] = "SEARCHING"
        BY <1>1, PostedEvent DEF Event
  <2> QED BY <2>1, <2>2
<1>3. LostInv'
  <2> SUFFICES ASSUME reported'
               PROVE  /\ net' = "none"
                      /\ Follows(t, "ACTIVATED", "SEARCHING")
                      /\ networkFlag \/ led_status # "LED_NO_NETWORK" => Waits(t, "SEARCHING")
      BY DEF LostInv
  <2>1. /\ e = "SEARCHING" => Waits(t, "SEARCHING") /\ Follows(t, "ACTIVATED", "SEARCHING")
        /\ Waits(s, "SEARCHING") => Waits(t, "SEARCHING")
        /\ e # "ACTIVATED" /\ Follows(s, "ACTIVATED", "SEARCHING") => Follows(t, "ACTIVATED", "SEARCHING")
        BY <1>1, PostFollows
  <2>2. net' = "none" /\ e # "ACTIVATED" /\ (e = "SEARCHING" \/ reported)
        BY <1>2
  <2> QED BY <2>1, <2>2 DEF NetworkInv, LostInv
<1>4. ActiveInv'
  <2> SUFFICES ASSUME net' = "active"
               PROVE  Follows(t, "SEARCHING", "ACTIVATED") /\ (~networkFlag => Waits(t, "ACTIVATED"))
      BY DEF ActiveInv
  <2>1. /\ e = "ACTIVATED" => Waits(t, "ACTIVATED") /\ Follows(t, "SEARCHING", "ACTIVATED")
        /\ Waits(s, "ACTIVATED") => Waits(t, "ACTIVATED")
        /\ e # "SEARCHING" /\ Follows(s, "SEARCHING", "ACTIVATED") => Follows(t, "SEARCHING", "ACTIVATED")
        BY <1>1, PostFollows
  <2> QED BY <2>1 DEF NetworkInv, ActiveInv
<1>5. FlagsInv'
      BY DEF NetworkInv, FlagsInv
<1> QED BY <1>3, <1>4, <1>5 DEF NetworkInv

\* Every step of the main task and of LED_Blink keeps the order.
LEMMA NextNetwork ==
    ASSUME MainTypeOK, NetworkInv, [Next]_vars
    PROVE  NetworkInv'
<1>1. CASE TakeEvent /\ Report
      BY <1>1, TakeNetwork
<1>2. CASE (NetworkAnswers \/ NetworkLost \/ NetworkSearches \/ NetworkDeactivates) /\ Report
  <2>1. \E e \in {"SEARCHING", "REGISTERED", "ATTACHED", "ACTIVATED", "IGNORED"} :
           /\ Post(e)
           /\ e = "SEARCHING" => net' = "none"
           /\ e = "ACTIVATED" => net' = "active"
           /\ net' = "active" /\ e # "ACTIVATED" => net = "active"
        BY <1>2 DEF NetworkAnswers, NetworkRegisters, NetworkAttaches, NetworkActivates,
                    NetworkLost, NetworkSearches, NetworkDeactivates
  <2>2. UNCHANGED <<networkFlag, isGpsOn, led_status>>
        BY <1>2 DEF NetworkAnswers, NetworkRegisters, NetworkAttaches, NetworkActivates,
                    NetworkLost, NetworkSearches, NetworkDeactivates
  <2> QED BY <1>2, <2>1, <2>2, PostNetwork DEF Event
<1>3. CASE (\E command \in UartCommand : UartInput(command)) /\ Report
  <2>1. PICK command \in UartCommand : UartInput(command)
        BY <1>3
  <2>2. command \in Event /\ command \notin {"SEARCHING", "ACTIVATED"}
        BY MainTaskAssumption DEF Event
  <2> QED BY <1>3, <2>1, <2>2, PostNetwork DEF UartInput
<1>4. CASE UNCHANGED <<mainVars, reported>>
      BY <1>4 DEF mainVars, NetworkInv, LostInv, ActiveInv, FlagsInv
<1> QED BY <1>1, <1>2, <1>3, <1>4 DEF Next, MainStep, MainNext, LED_Blink, vars

\* The order of the events is right from the start and stays so.
LEMMA NetworkOrder == Spec => []NetworkInv
<1>1. Init => NetworkInv
      BY DEF Init, MainInit, NetworkInv, LostInv, ActiveInv, FlagsInv
<1>2. MainTypeOK /\ NetworkInv /\ [Next]_vars => NetworkInv'
      BY NextNetwork
<1> QED BY <1>1, <1>2, LedTypeOK, PTL DEF Spec

\* An empty queue holds no event.
LEMMA NothingWaits == ASSUME NEW b PROVE ~Waits(<<>>, b)
<1>1. Len(<<>>) = 0
      OBVIOUS
<1> QED BY <1>1 DEF Waits

\* However activations, losses and answers overlap, and also when the loss was
\* first reported by an event that app.c ignores, networkFlag is false once an
\* event that EventDispatch heeds (app.c:143-159) has been taken.
THEOREM LostClearsFlag == Spec => []FlagClearedWhenLost
<1>1. NetworkInv => FlagClearedWhenLost
      BY NothingWaits DEF NetworkInv, LostInv, FlagClearedWhenLost
<1> QED BY <1>1, NetworkOrder, PTL

\* For every length of the queue: when app.c has taken every event, led_status
\* is LED_NO_NETWORK after a loss that was reported and LED_SYS_ON with an
\* active context and the GPS on.
THEOREM LedFollowsNetwork == Spec => []LedTellsNetwork
<1>1. NetworkInv => LedTellsNetwork
      BY NothingWaits DEF NetworkInv, LostInv, ActiveInv, FlagsInv, LedTellsNetwork
<1> QED BY <1>1, NetworkOrder, PTL
=============================================================================
