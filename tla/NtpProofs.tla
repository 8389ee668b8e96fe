----------------------------- MODULE NtpProofs ------------------------------
(***************************************************************************)
(* Proofs about NTP_Update, for every width of the stamps, every start,    *)
(* every offset of the local clock and every time limit.                   *)
(***************************************************************************)
EXTENDS Ntp, TLAPS

-----------------------------------------------------------------------------
(* The socket *)

\* Where the socket is open.
SocketInv ==
    sockfd => pc \in {"dns", "connect", "write", "select"} \/ (pc = "idle" /\ rc = -11)

\* Every return of NTP_Update closes its socket, except the one for a name
\* that cannot be resolved.
THEOREM SocketReleased == Spec => []NtpSocketReleased
<1>1. Init => SocketInv
      BY DEF Init, SocketInv
<1>2. SocketInv /\ [Next]_vars => SocketInv'
  <2> SUFFICES ASSUME SocketInv, [Next]_vars PROVE SocketInv'
      OBVIOUS
  <2> USE DEF SocketInv, Step, Fail
  <2>1. CASE NTP_Update \/ socket \/ DNS_GetHostByName2 \/ connect \/ write
        BY <2>1 DEF NTP_Update, socket, DNS_GetHostByName2, connect, write
  <2>2. CASE SelectTimeOut \/ SelectError \/ read \/ ReadFails \/ Compute \/ SetRTC
        BY <2>2 DEF SelectTimeOut, SelectError, read, ReadFails, Compute, SetRTC
  <2>3. CASE \E len \in 1..PacketLen : ReadShort(len)
        BY <2>3 DEF ReadShort
  <2>4. CASE Tick \/ ServerReceives \/ ServerSends \/ UNCHANGED vars
        BY <2>4 DEF Tick, ServerReceives, ServerSends, vars
  <2> QED BY <2>1, <2>2, <2>3, <2>4 DEF Next, Client
<1>3. SocketInv => NtpSocketReleased
      BY DEF SocketInv, NtpSocketReleased
<1> QED BY <1>1, <1>2, <1>3, PTL DEF Spec

-----------------------------------------------------------------------------
(* The arithmetic *)

\* A remainder and its quotient, for any width.
LEMMA Remainder ==
    ASSUME NEW a \in Int, NEW m \in Nat \ {0}
    PROVE  a % m \in 0..(m - 1) /\ \E q \in Int : a = m * q + (a % m)
<1>1. a = m * (a \div m) + (a % m) /\ a % m \in 0..(m - 1) /\ a \div m \in Int
      BY SMT
<1> QED BY <1>1

\* Two times whose difference is e before the first is cut to the width are at
\* most e apart on the circle.
LEMMA ApartBound ==
    ASSUME NEW x \in Int, NEW u \in Int, NEW b \in Int, Modulus \in Nat \ {0},
           x - u <= b, u - x <= b
    PROVE  Apart(x % Modulus, u) <= b
<1> DEFINE r == x % Modulus  d == (r - u) % Modulus
<1>1. PICK q \in Int : x = Modulus * q + r
      BY Remainder
<1>2. r \in Int
      BY Remainder
<1>3. d \in 0..(Modulus - 1)
      BY <1>2, Remainder
<1> HIDE DEF r
<1>4. PICK p \in Int : r - u = Modulus * p + d
  <2>1. r - u \in Int
        BY <1>2
  <2>2. \E p \in Int : r - u = Modulus * p + ((r - u) % Modulus)
        BY <2>1, Remainder, Zenon
  <2> QED BY <2>2
<1> HIDE DEF d
<1>5. x - u = Modulus * (q + p) + d
      BY <1>1, <1>2, <1>3, <1>4
<1>6. CASE q + p >= 0
  <2>1. Modulus * (q + p) >= 0
        BY <1>6
  <2>2. d <= b /\ (2 * d > Modulus => Modulus - d <= b)
        BY <1>3, <1>5, <2>1
  <2> QED BY <1>3, <2>2 DEF Apart, r, d
<1>7. CASE q + p <= -1
  <2>1. Modulus * (q + p) <= -Modulus
        BY <1>7
  <2>2. Modulus - d <= b /\ (2 * d <= Modulus => d <= b)
        BY <1>3, <1>5, <2>1
  <2> QED BY <1>3, <2>2 DEF Apart, r, d
<1> QED BY <1>6, <1>7

\* Half seconds counted by two clocks that started a apart: one counts at
\* most one second more than the other.
LEMMA ClocksAgree ==
    ASSUME NEW t0 \in Int, NEW t \in Int, NEW a \in Int, t0 <= t
    PROVE  /\ t0 \div 2 \in Int /\ t \div 2 \in Int
           /\ (t0 + a) \div 2 \in Int /\ (t + a) \div 2 \in Int
           /\ t0 \div 2 <= t \div 2 /\ (t0 + a) \div 2 <= (t + a) \div 2
           /\ (t \div 2) - (t0 \div 2) <= ((t + a) \div 2) - ((t0 + a) \div 2) + 1
           /\ (t \div 2) - ((t0 + a) \div 2) <= ((t - t0) - a + 1) \div 2
OBVIOUS

-----------------------------------------------------------------------------
(* The time *)

\* The local clock is behind UTC by less than half the range of the stamps (68
\* years), with the two time limits of an exchange to spare.
NotFarBehind == \A a \in Ahead : 2 * TimeOut + 1 - a < Modulus

Places == {"idle", "socket", "dns", "connect", "write", "select", "compute", "setRTC"}
InExchange == pc \in {"select", "compute", "setRTC"}
Utc0 == Start \div 2

\* What has been stamped, and when.  A short datagram starts the time limit
\* again, but only once: the server sends nothing more.
TimeInv ==
    /\ pc \in Places /\ srv \in {"none", "request", "received", "sent"}
    /\ now \in Int /\ ahead \in Ahead /\ waited \in 0..TimeOut /\ recvLen \in Nat
    /\ origTm_s \in Int /\ rxTm_s \in Int /\ txTm_s \in Int
    /\ pc \in {"socket", "dns", "connect", "write"} =>
          now = Start /\ waited = 0 /\ recvLen = 0 /\ srv = "none"
    /\ InExchange =>
          /\ Start <= now /\ origTm_s = (Start + ahead) \div 2
          /\ srv \in {"received", "sent"} => Utc0 <= rxTm_s /\ rxTm_s <= Utc
          /\ srv = "sent" => Utc0 <= txTm_s /\ txTm_s <= Utc
    /\ pc = "select" /\ srv # "none" => recvLen = 0
    /\ pc = "select" /\ recvLen = 0 => now = Start + waited
    /\ InExchange => now <= Start + 2 * TimeOut
    /\ pc = "select" => now <= Start + TimeOut + waited
    /\ pc \in {"compute", "setRTC"} => srv = "sent"
    /\ pc = "setRTC" =>
          timeNow = (Local + Delta(origTm_s, rxTm_s, txTm_s, Local)) % Modulus

\* Every step of NTP_Update, of the server and of the clocks keeps the stamps.
LEMMA NextTime ==
    ASSUME TimeInv, [Next]_vars
    PROVE  TimeInv'
<1> USE NtpAssumption DEF TimeInv, InExchange, Places, Step, Fail, clock, stamps
<1>1. ahead \in Int
      BY NtpAssumption
<1>2. CASE NTP_Update
      BY <1>2 DEF NTP_Update
<1>3. CASE socket \/ DNS_GetHostByName2 \/ connect
      BY <1>3 DEF socket, DNS_GetHostByName2, connect, Local, Utc
<1>4. CASE write
      BY <1>1, <1>4 DEF write, Local, Utc
<1>5. CASE SelectTimeOut \/ SelectError \/ ReadFails \/ SetRTC
      BY <1>5 DEF SelectTimeOut, SelectError, ReadFails, SetRTC, Local, Utc
<1>6. CASE read
      BY <1>6 DEF read, Local, Utc
<1>7. CASE \E len \in 1..PacketLen : ReadShort(len)
      BY <1>7 DEF ReadShort, Local, Utc
<1>8. CASE Compute
      BY <1>8 DEF Compute, Local, Utc
<1>9. CASE Tick
      BY <1>9 DEF Tick, Local, Utc
<1>10. CASE ServerReceives
      BY <1>10 DEF ServerReceives, Local, Utc, Utc0
<1>11. CASE ServerSends
      BY <1>11 DEF ServerSends, Local, Utc, Utc0
<1>12. CASE UNCHANGED vars
      BY <1>12 DEF vars, Local, Utc
<1> QED BY <1>2, <1>3, <1>4, <1>5, <1>6, <1>7, <1>8, <1>9, <1>10, <1>11, <1>12
        DEF Next, Client

\* The stamps of a whole exchange give UTC.
LEMMA TimeOfStamps ==
    ASSUME NotFarBehind, TimeInv
    PROVE  NtpTimeIsUtc
<1> SUFFICES ASSUME pc = "setRTC", rxTm_s + txTm_s >= origTm_s + Local
             PROVE  Apart(timeNow, Utc) <= (Local - origTm_s) + 1
    BY DEF NtpTimeIsUtc
<1>1. /\ now \in Int /\ ahead \in Int /\ Start \in Int /\ Start <= now
      /\ Modulus \in Nat \ {0} /\ TimeOut \in Nat
      /\ now <= Start + 2 * TimeOut /\ 2 * TimeOut + 1 - ahead < Modulus
      BY NtpAssumption DEF TimeInv, InExchange, NotFarBehind
<1>2. /\ origTm_s = (Start + ahead) \div 2 /\ rxTm_s \in Int /\ txTm_s \in Int
      /\ Utc0 <= rxTm_s /\ rxTm_s <= Utc /\ Utc0 <= txTm_s /\ txTm_s <= Utc
      BY DEF TimeInv, InExchange
<1>3. /\ Utc0 \in Int /\ Utc \in Int /\ origTm_s \in Int /\ Local \in Int
      /\ origTm_s <= Local /\ Utc - Utc0 <= Local - origTm_s + 1
      /\ 2 * (Utc - origTm_s) <= (now - Start) - ahead + 1
      BY <1>1, <1>2, ClocksAgree DEF Utc, Utc0, Local
<1> DEFINE sum == (rxTm_s - origTm_s) + (txTm_s - Local)
<1>4. sum \in 0..(Modulus - 1)
      BY <1>1, <1>2, <1>3
<1>5. sum % Modulus = sum
      BY <1>1, <1>4
<1>6. timeNow = (Local + (sum \div 2)) % Modulus
      BY <1>5 DEF TimeInv, Delta
<1> DEFINE x == Local + (sum \div 2)
<1>7. x \in Int /\ x - Utc <= (Local - origTm_s) + 1 /\ Utc - x <= (Local - origTm_s) + 1
      BY <1>2, <1>3, <1>4
<1> DEFINE b == (Local - origTm_s) + 1
<1>8. b \in Int
      BY <1>3
<1> HIDE DEF sum, x, b
<1>9. Apart(x % Modulus, Utc) <= b
      BY <1>1, <1>3, <1>7, <1>8, ApartBound DEF b
<1> QED BY <1>6, <1>9 DEF x, b

\* The time NTP_Update computes (ntp.c:176) differs from UTC by no more than
\* the time the exchange took and a second for the clocks' steps, wherever the
\* stamps wrap round, when the local stamps are together no later than the
\* server's and the local clock is not half the range behind.
THEOREM TimeIsUtc ==
    ASSUME NotFarBehind
    PROVE  Spec => []NtpTimeIsUtc
<1>1. Init => TimeInv
      BY NtpAssumption DEF Init, TimeInv, InExchange, Places
<1>2. TimeInv /\ [Next]_vars => TimeInv'
      BY NextTime
<1>3. TimeInv => NtpTimeIsUtc
      BY TimeOfStamps
<1> QED BY <1>1, <1>2, <1>3, PTL DEF Spec
=============================================================================
