----------------------------- MODULE AgpsProofs -----------------------------
(***************************************************************************)
(* What GPS_AGPS leaves behind, for every size of buffer, segment, pack    *)
(* and file and every number of retries.                                   *)
(***************************************************************************)
EXTENDS Agps, TLAPS

Places == {"idle", "malloc", "dns", "socket", "connect", "send", "recv", "response",
           "binary", "packs", "giveUp", "nmea", "rtc", "location"}

\* The types of what is counted.
Types ==
    /\ pc \in Places
    /\ recvLen \in Nat /\ gpdLen \in Nat /\ i \in Nat /\ sendFailTimes \in Nat
    /\ total \in Nat
    /\ fd \in BOOLEAN /\ buffer \in BOOLEAN /\ ret \in BOOLEAN /\ ok \in BOOLEAN
    /\ shortRead \in BOOLEAN /\ unacked \in BOOLEAN

\* While the file is sent, the chip is in binary format.
ChipInv == mode = "binary" => unacked \/ pc \in {"packs", "giveUp", "nmea"}

\* Which places have the socket, and what is known once the download is done.
HoldsInv ==
    /\ fd => pc \in {"connect", "send", "recv"}
    /\ pc = "malloc" => ~buffer
    /\ pc \in {"binary", "packs", "giveUp", "nmea"} => ok /\ recvLen >= Header
    /\ pc = "idle" /\ buffer => ~ret /\ ok /\ recvLen >= Header

\* The packs before the i-th are stored, and from "nmea" on these are all.
PackInv ==
    /\ 0..(i - 1) \subseteq got
    /\ pc = "nmea" => i * Pack > gpdLen

\* The inductive invariant.
AgpsInv == Types /\ ChipInv /\ HoldsInv /\ PackInv /\ DownloadWhole

\* A product grows with its first factor.
LEMMA TimesMonotone ==
    ASSUME NEW a \in Nat, NEW b \in Nat, NEW p \in Nat, a <= b
    PROVE  a * p <= b * p
  <1>1. b = a + (b - a) /\ b - a \in Nat
    OBVIOUS
  <1>2. b * p = a * p + (b - a) * p
    BY <1>1
  <1>3. (b - a) * p \in Nat
    BY <1>1
  <1> QED
    BY <1>2, <1>3

\* The padded length of a file (gps.c) is a length.
LEMMA PaddedNat ==
    ASSUME NEW len \in Nat
    PROVE  Padded(len) \in Nat
  <1>1. Pack \in Nat \ {0}
    BY AgpsAssumption
  <1>2. (len + Pack - 1) \div Pack \in Nat
    BY <1>1
  <1> QED
    BY <1>1, <1>2 DEF Padded

-----------------------------------------------------------------------------
\* The invariant holds before the first call.
LEMMA InitInv == Init => AgpsInv
  <1> SUFFICES ASSUME Init PROVE AgpsInv
    OBVIOUS
  <1> USE DEF Init
  <1>1. Types
    BY DEF Types, Places
  <1>2. PackInv
    BY DEF PackInv
  <1>3. ChipInv /\ HoldsInv /\ DownloadWhole
    BY DEF ChipInv, HoldsInv, DownloadWhole
  <1> QED
    BY <1>1, <1>2, <1>3 DEF AgpsInv

\* Every call of a library function and every command preserves it.
LEMMA NextInv == AgpsInv /\ [Next]_vars => AgpsInv'
  <1> SUFFICES ASSUME AgpsInv, [Next]_vars PROVE AgpsInv'
    OBVIOUS
  <1> USE DEF AgpsInv
  <1>1. ASSUME NEW download \in BOOLEAN, GPS_AGPS(download) PROVE AgpsInv'
    <2> USE <1>1 DEF GPS_AGPS, Step
    <2>1. Types'
      BY DEF Types, Places
    <2>2. PackInv'
      BY DEF PackInv, Types
    <2>3. ChipInv' /\ HoldsInv' /\ DownloadWhole'
      BY DEF ChipInv, HoldsInv, DownloadWhole
    <2> QED
      BY <2>1, <2>2, <2>3
  <1>2. CASE OS_Malloc
    <2> USE <1>2 DEF OS_Malloc, Return, locals, server, chip
    <2>1. Types'
      BY DEF Types, Places
    <2>2. PackInv'
      BY DEF PackInv
    <2>3. ChipInv' /\ HoldsInv' /\ DownloadWhole'
      BY DEF ChipInv, HoldsInv, DownloadWhole
    <2> QED
      BY <2>1, <2>2, <2>3
  <1>3. ASSUME HttpGetFails, pc \notin {"packs", "giveUp", "nmea"} PROVE AgpsInv'
    <2> USE <1>3 DEF HttpGetFails, Return, locals, server, chip
    <2>1. Types'
      BY DEF Types, Places
    <2>2. PackInv'
      BY DEF PackInv
    <2>3. ChipInv' /\ HoldsInv' /\ DownloadWhole'
      BY DEF ChipInv, HoldsInv, DownloadWhole
    <2> QED
      BY <2>1, <2>2, <2>3
  <1>4. CASE GetHostByName \/ socket \/ connect
    <2>1. CASE \/ pc = "dns" /\ HttpGetFails
               \/ pc = "socket" /\ HttpGetFails
               \/ pc = "connect" /\ HttpGetFails
      BY <2>1, <1>3
    <2>2. CASE ~(\/ pc = "dns" /\ HttpGetFails
                 \/ pc = "socket" /\ HttpGetFails
                 \/ pc = "connect" /\ HttpGetFails)
      <3> USE <2>2, <1>4 DEF GetHostByName, socket, connect, Step, locals, server, chip
      <3>1. Types'
        BY DEF Types, Places
      <3>2. PackInv'
        BY DEF PackInv
      <3>3. ChipInv' /\ HoldsInv' /\ DownloadWhole'
        BY DEF ChipInv, HoldsInv, DownloadWhole, Types
      <3> QED
        BY <3>1, <3>2, <3>3
    <2> QED
      BY <2>1, <2>2
  <1>5. CASE send
    <2>1. CASE pc = "send" /\ HttpGetFails
      BY <2>1, <1>3
    <2>2. CASE ~(pc = "send" /\ HttpGetFails)
      <3> USE <2>2, <1>5 DEF send, Step, locals, chip
      <3>1. Types'
        <4>1. total' \in Nat
          BY AgpsAssumption
        <4> QED
          BY <4>1 DEF Types, Places
      <3>2. PackInv'
        BY DEF PackInv
      <3>3. ChipInv' /\ HoldsInv' /\ DownloadWhole'
        BY DEF ChipInv, HoldsInv, DownloadWhole
      <3> QED
        BY <3>1, <3>2, <3>3
    <2> QED
      BY <2>1, <2>2
  <1>6. ASSUME NEW len \in 1..BufferLen, recv(len) PROVE AgpsInv'
    <2>1. /\ len \in Nat /\ recvLen \in Nat /\ total \in Nat /\ BufferLen \in Nat
          /\ Segment \in Nat /\ len <= total - recvLen
      BY <1>6, AgpsAssumption DEF Types, recv, Least
    <2> USE <1>6 DEF recv, chip
    <2>2. Types'
      <3>1. recvLen' \in Nat
        BY <2>1
      <3>2. pc' \in Places /\ fd' \in BOOLEAN
        BY DEF Types, Places
      <3>3. shortRead' \in BOOLEAN
        BY DEF Types
      <3> QED
        BY <3>1, <3>2, <3>3 DEF Types
    <2>3. PackInv'
      BY DEF PackInv
    <2>4. ChipInv' /\ HoldsInv'
      BY DEF ChipInv, HoldsInv
    <2>5. DownloadWhole'
      <3> SUFFICES ASSUME pc' = "response", ~shortRead' PROVE recvLen' = total'
        BY DEF DownloadWhole
      <3>1. len < Segment
        BY DEF LastSegment
      <3>2. ~(len < Least(Segment, total - recvLen))
        OBVIOUS
      <3>3. len = total - recvLen
        BY <2>1, <3>1, <3>2 DEF Least
      <3> QED
        BY <2>1, <3>3
    <2> QED
      BY <2>2, <2>3, <2>4, <2>5
  <1>7. CASE RecvFails
    BY <1>7, <1>3 DEF RecvFails
  <1>8. CASE Response
    <2>1. CASE pc = "response" /\ HttpGetFails
      BY <2>1, <1>3
    <2>2. CASE ~(pc = "response" /\ HttpGetFails)
      <3> USE <2>2, <1>8 DEF Response, Step, server, chip
      <3>1. Types'
        <4>1. recvLen - Header \in Nat
          BY AgpsAssumption DEF Types
        <4>2. gpdLen' \in Nat
          BY <4>1, PaddedNat
        <4> QED
          BY <4>2 DEF Types, Places
      <3>2. PackInv'
        BY DEF PackInv
      <3>3. ChipInv' /\ HoldsInv' /\ DownloadWhole'
        BY DEF ChipInv, HoldsInv, DownloadWhole
      <3> QED
        BY <3>1, <3>2, <3>3
    <2> QED
      BY <2>1, <2>2
  <1>9. ASSUME NEW executed \in BOOLEAN, NEW acked \in BOOLEAN,
               \/ GPS_SetBinaryMode(executed, acked)
               \/ GiveUp(executed, acked)
               \/ GPS_SetNMEAMode(executed, acked)
        PROVE  AgpsInv'
    <2> USE <1>9 DEF GPS_SetBinaryMode, GiveUp, GPS_SetNMEAMode, SetFormat, Command,
                     Return, locals, server
    <2>1. Types'
      BY DEF Types, Places
    <2>2. PackInv'
      BY DEF PackInv
    <2>3. ChipInv'
      BY DEF ChipInv, Types
    <2>4. HoldsInv' /\ DownloadWhole'
      BY DEF HoldsInv, DownloadWhole
    <2> QED
      BY <2>1, <2>2, <2>3, <2>4
  <1>10. ASSUME NEW executed \in BOOLEAN, NEW acked \in BOOLEAN,
                GPS_SendGPDPack(executed, acked)
         PROVE  AgpsInv'
    <2> USE <1>10 DEF GPS_SendGPDPack, Again, server
    <2>1. Types'
      BY DEF Types, Places
    <2>2. PackInv'
      <3>1. got \subseteq got'
        OBVIOUS
      <3>2. (i' = i) \/ (i' = i + 1 /\ i \in got')
        OBVIOUS
      <3>3. pc' # "nmea"
        OBVIOUS
      <3> QED
        BY <3>1, <3>2, <3>3 DEF PackInv, Types
    <2>3. ChipInv' /\ HoldsInv' /\ DownloadWhole'
      BY DEF ChipInv, HoldsInv, DownloadWhole
    <2> QED
      BY <2>1, <2>2, <2>3
  <1>11. ASSUME NEW executed \in BOOLEAN, NEW acked \in BOOLEAN, SendEnd(executed, acked)
         PROVE  AgpsInv'
    <2> USE <1>11 DEF SendEnd, Again, server, chip
    <2>1. Types'
      BY DEF Types, Places
    <2>2. PackInv'
      BY DEF PackInv, AllSent
    <2>3. ChipInv' /\ HoldsInv' /\ DownloadWhole'
      BY DEF ChipInv, HoldsInv, DownloadWhole
    <2> QED
      BY <2>1, <2>2, <2>3
  <1>12. CASE GPS_SetRtcTime \/ GPS_SetLocationTime
    <2> USE <1>12 DEF GPS_SetRtcTime, GPS_SetLocationTime, Step, Return, locals, server, chip
    <2>1. Types'
      BY DEF Types, Places
    <2>2. PackInv'
      BY DEF PackInv
    <2>3. ChipInv' /\ HoldsInv' /\ DownloadWhole'
      BY DEF ChipInv, HoldsInv, DownloadWhole
    <2> QED
      BY <2>1, <2>2, <2>3
  <1>13. CASE UNCHANGED vars
    BY <1>13 DEF vars, locals, server, chip, Types, ChipInv, HoldsInv, PackInv, DownloadWhole
  <1> QED
    BY <1>1, <1>2, <1>4, <1>5, <1>6, <1>7, <1>8, <1>9, <1>10, <1>11, <1>12, <1>13
    DEF Next, Running, ChipCommand

\* Every state of GPS_AGPS satisfies the inductive invariant.
LEMMA AgpsInvariant == Spec => []AgpsInv
  BY InitInv, NextInv, PTL DEF Spec

-----------------------------------------------------------------------------
(* The theorems *)

\* Between calls the chip is in NMEA format unless a format command of
\* GPS_AGPS went unacknowledged (gps.c:867).
THEOREM AgpsChipBack == Spec => []ChipBackInNmea
  <1>1. AgpsInv => ChipBackInNmea
    BY DEF AgpsInv, ChipInv, ChipBackInNmea
  <1> QED
    BY <1>1, AgpsInvariant, PTL

\* Between calls no socket is open, and the buffer is lost only by a call that
\* failed after its download (gps.c:867).
THEOREM AgpsLeakConfined == Spec => []LeakConfined
  <1>1. AgpsInv => LeakConfined
    BY DEF AgpsInv, HoldsInv, LeakConfined
  <1> QED
    BY <1>1, AgpsInvariant, PTL

\* A download is the whole response when no segment was cut (gps.c:784).
THEOREM AgpsDownloadWhole == Spec => []DownloadWhole
  BY AgpsInvariant, PTL DEF AgpsInv

\* A call that switches back has had every pack of the file stored, for every
\* length of pack and file (gps.c:931-961).
THEOREM AgpsPacksStored == Spec => []EveryPackStored
  <1>1. AgpsInv => EveryPackStored
    <2> SUFFICES ASSUME AgpsInv, pc = "nmea", NEW k \in 0..MaxBody, k * Pack < gpdLen
                 PROVE  k \in got
      BY DEF EveryPackStored
    <2>1. k \in Nat /\ i \in Nat /\ Pack \in Nat /\ gpdLen \in Nat
      BY AgpsAssumption DEF AgpsInv, Types
    <2>2. ~(i <= k)
      <3> SUFFICES ASSUME i <= k PROVE FALSE
        OBVIOUS
      <3>1. i * Pack <= k * Pack
        BY <2>1, TimesMonotone
      <3>2. i * Pack > gpdLen
        BY DEF AgpsInv, PackInv
      <3>3. i * Pack \in Nat /\ k * Pack \in Nat
        BY <2>1
      <3> QED
        BY <2>1, <3>1, <3>2, <3>3
    <2> QED
      BY <2>1, <2>2 DEF AgpsInv, PackInv
  <1> QED
    BY <1>1, AgpsInvariant, PTL
=============================================================================
