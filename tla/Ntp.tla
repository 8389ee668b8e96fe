--------------------------------- MODULE Ntp --------------------------------
(***************************************************************************)
(* The NTP client of libs/utils/src/ntp.c: NTP_Update asks a server for    *)
(* the time, corrects for the way there and back, and may set the clock.   *)
(*                                                                         *)
(* Time passes in steps of half a second, because time(NULL) and the       *)
(* stamps of the server are whole seconds of clocks that do not change     *)
(* together.  Stamps in a packet and the variables of NTP_Update have the  *)
(* width of Modulus; now and the local clock are unbounded, to compare.    *)
(***************************************************************************)
EXTENDS Integers

CONSTANTS Modulus,    \* 2^32
          Start,      \* when the call begins, in half seconds since 1900
          Ahead,      \* by how much the local clock may be ahead of UTC
          TimeOut,    \* timeoutS, in half seconds
          PacketLen   \* the 48 bytes of a packet, in cells

ASSUME NtpAssumption ==
    /\ Modulus \in Nat \ {0} /\ Start \in Nat /\ Ahead \subseteq Int
    /\ \A a \in Ahead : Start + a >= 0
    /\ TimeOut \in Nat /\ PacketLen \in Nat \ {0}

VARIABLES pc, rc,             \* where NTP_Update is, and what it returned
          sockfd,             \* is the socket open?
          now, ahead, waited, \* UTC, the local clock, the time spent in select
          srv,                \* the server: "none", "request", "received", "sent"
          origTm_s, rxTm_s, txTm_s,   \* the stamps, as seconds since 1900
          recvLen,
          timeNow             \* the result

stamps == <<origTm_s, rxTm_s, txTm_s>>
clock  == <<now, ahead>>
vars == <<pc, rc, sockfd, clock, waited, srv, stamps, recvLen, timeNow>>

Utc   == now \div 2
Local == (now + ahead) \div 2      \* time(NULL) + NTP_TIMESTAMP_70_YEARS

Init ==
    /\ pc = "idle" /\ rc = 0 /\ sockfd = FALSE
    /\ now = Start /\ ahead \in Ahead /\ waited = 0
    /\ srv = "none" /\ origTm_s = 0 /\ rxTm_s = 0 /\ txTm_s = 0
    /\ recvLen = 0 /\ timeNow = 0

Step(from, to) == pc = from /\ pc' = to

\* A return with an error that closes the socket.
Fail(code) == pc' = "idle" /\ rc' = code /\ sockfd' = FALSE

-----------------------------------------------------------------------------
\* A new call.  The clock may have been set since the last one; UTC starts
\* again, so that the instance stays small.
NTP_Update ==
    /\ pc = "idle" /\ pc' = "socket"
    /\ rc' = 0 /\ sockfd' = FALSE
    /\ now' = Start /\ ahead' \in Ahead /\ waited' = 0
    /\ srv' = "none" /\ origTm_s' = 0 /\ rxTm_s' = 0 /\ txTm_s' = 0
    /\ recvLen' = 0 /\ timeNow' = 0

socket ==
    /\ \/ Step("socket", "dns") /\ sockfd' = TRUE /\ rc' = rc
       \/ pc = "socket" /\ Fail(-1)
    /\ UNCHANGED <<clock, waited, srv, stamps, recvLen, timeNow>>

\* The return here leaves the socket open.
DNS_GetHostByName2 ==
    /\ \/ Step("dns", "connect") /\ rc' = rc
       \/ Step("dns", "idle") /\ rc' = -11
    /\ UNCHANGED <<sockfd, clock, waited, srv, stamps, recvLen, timeNow>>

\* Mutant: the socket is not closed when connect fails.
ConnectKeeps ==
    /\ \/ Step("connect", "write") /\ rc' = rc
       \/ Step("connect", "idle") /\ rc' = -2
    /\ UNCHANGED <<sockfd, clock, waited, srv, stamps, recvLen, timeNow>>

connect ==
    /\ \/ Step("connect", "write") /\ UNCHANGED <<rc, sockfd>>
       \/ pc = "connect" /\ Fail(-2)
    /\ UNCHANGED <<clock, waited, srv, stamps, recvLen, timeNow>>

\* The server returns the stamp of the request as the originate stamp.
write ==
    /\ \/ /\ Step("write", "select") /\ UNCHANGED <<rc, sockfd>>
          /\ srv' = "request" /\ origTm_s' = Local
       \/ pc = "write" /\ Fail(-3) /\ UNCHANGED <<srv, origTm_s>>
    /\ UNCHANGED <<clock, waited, rxTm_s, txTm_s, recvLen, timeNow>>

SelectError ==
    /\ pc = "select" /\ Fail(-4)
    /\ UNCHANGED <<clock, waited, srv, stamps, recvLen, timeNow>>

\* Mutant: the wait has no end.
SelectNoTimeOut == pc = "select" /\ waited = TimeOut /\ UNCHANGED vars

SelectTimeOut ==
    /\ pc = "select" /\ waited = TimeOut /\ Fail(-5)
    /\ UNCHANGED <<clock, waited, srv, stamps, recvLen, timeNow>>

\* The datagram is there, and is the whole packet.
read ==
    /\ pc = "select" /\ srv = "sent" /\ recvLen = 0
    /\ recvLen' = PacketLen
    /\ pc' = "compute" /\ sockfd' = FALSE
    /\ UNCHANGED <<rc, clock, waited, srv, stamps, timeNow>>

\* It is too short: the loop waits, with a new time limit, for the rest, which
\* is not going to come.
ReadShort(len) ==
    /\ pc = "select" /\ srv = "sent" /\ len \in 1..(PacketLen - 1)
    /\ recvLen' = recvLen + len
    /\ waited' = 0 /\ srv' = "none"
    /\ UNCHANGED <<pc, rc, sockfd, clock, stamps, timeNow>>

\* An error or an empty datagram.
ReadFails ==
    /\ pc = "select" /\ srv = "sent" /\ (Fail(-6) \/ Fail(-7))
    /\ UNCHANGED <<clock, waited, srv, stamps, recvLen, timeNow>>

\* Mutant: the way back is not corrected for.
DeltaOneWay(orig, rx, tx, t4) == ((tx - orig) % Modulus) \div 2

\* The sum is unsigned when it is halved.
Delta(orig, rx, tx, t4) == (((rx - orig) + (tx - t4)) % Modulus) \div 2

Compute ==
    /\ pc = "compute" /\ pc' = "setRTC"
    /\ timeNow' = (Local + Delta(origTm_s, rxTm_s, txTm_s, Local)) % Modulus
    /\ UNCHANGED <<rc, sockfd, clock, waited, srv, stamps, recvLen>>

\* With isSetRTC, TIME_SetSystemTime may fail.
SetRTC ==
    /\ Step("setRTC", "idle")
    /\ rc' \in {0, -8}
    /\ UNCHANGED <<sockfd, clock, waited, srv, stamps, recvLen, timeNow>>

Client == \/ socket \/ DNS_GetHostByName2 \/ connect \/ write
          \/ SelectTimeOut \/ read
          \/ (\E len \in 1..PacketLen : ReadShort(len)) \/ ReadFails \/ Compute \/ SetRTC

-----------------------------------------------------------------------------
(* Time and the server: the request and the answer take any time, and may  *)
(* be lost.                                                                *)

Tick ==
    /\ pc = "select" /\ waited < TimeOut
    /\ waited' = waited + 1 /\ now' = now + 1
    /\ UNCHANGED <<pc, rc, sockfd, ahead, srv, stamps, recvLen, timeNow>>

ServerReceives ==
    /\ srv = "request" /\ pc = "select" /\ srv' = "received" /\ rxTm_s' = Utc
    /\ UNCHANGED <<pc, rc, sockfd, clock, waited, origTm_s, txTm_s, recvLen, timeNow>>

ServerSends ==
    /\ srv = "received" /\ pc = "select" /\ srv' = "sent" /\ txTm_s' = Utc
    /\ UNCHANGED <<pc, rc, sockfd, clock, waited, origTm_s, rxTm_s, recvLen, timeNow>>

Next == NTP_Update \/ Client \/ SelectError \/ Tick \/ ServerReceives \/ ServerSends

\* The calls return and time passes; nothing is assumed of the server.
Spec == Init /\ [][Next]_vars /\ WF_vars(Client) /\ WF_vars(Tick)

-----------------------------------------------------------------------------
(* Properties *)

\* The distance of two times of the width, the short way round.
Apart(a, b) ==
    LET d == (a - b) % Modulus IN IF 2 * d <= Modulus THEN d ELSE Modulus - d

\* "time utc(from 1970)" (ntp.c:176): the time computed differs from UTC by no
\* more than the time the exchange took, and a second for the clocks' steps,
\* also where the stamps wrap round; but only if the local stamps are
\* together no later than the server's.  (If they are later, the unsigned sum
\* is halved wrongly and the time is off by half the range, 68 years.)
NtpTimeIsUtc ==
    pc = "setRTC" /\ rxTm_s + txTm_s >= origTm_s + Local =>
       Apart(timeNow, Utc) <= (Local - origTm_s) + 1

\* Every return closes the socket, except the one for a name that cannot be
\* resolved.
NtpSocketReleased == pc = "idle" /\ sockfd => rc = -11

\* Every call returns, whatever the server does.
NtpReturns == []<>(pc = "idle")
=============================================================================
