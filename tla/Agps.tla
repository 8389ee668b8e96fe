-------------------------------- MODULE Agps --------------------------------
(***************************************************************************)
(* Assisted GPS, libs/gps/src/gps.c: GPS_AGPS downloads a file (Http_Get), *)
(* switches the chip to its binary format, sends the file in packs, and    *)
(* switches it back.  Lengths are in cells, of which a pack, a segment of  *)
(* the network and the header of the response have some number.            *)
(*                                                                         *)
(* A command to the chip does what module GpsCommand shows of it: when it  *)
(* returns true the chip has executed it (for a pack, this one or the same *)
(* pack sent before); when it returns false the chip may have executed it  *)
(* all the same, and its acknowledgement was late or lost.  A chip in one  *)
(* format does not understand a command in the other.                      *)
(***************************************************************************)
EXTENDS Naturals

CONSTANTS BufferLen,  \* the 5120 bytes of the download buffer
          Segment,    \* 1352 bytes: a recv of less is taken for the last
          Pack,       \* 512 bytes
          Header,     \* the header of the response
          MaxBody,    \* bound: the length of the file
          MaxRetry    \* 3

ASSUME AgpsAssumption ==
    /\ {BufferLen, MaxBody, MaxRetry} \subseteq Nat
    /\ {Segment, Pack, Header} \subseteq Nat \ {0}

VARIABLES
    pc,                   \* where GPS_AGPS is
    downloadGPD,          \* its parameter
    fd, buffer,           \* is the socket open, is the block allocated?
    recvLen, gpdLen, i, sendFailTimes,  \* the locals
    ret,                  \* what it returned
    total, ok,            \* the response: its length, and is it "200 OK"?
    mode, got,            \* the chip: its format, and the packs it stored
    \* history: did a recv return less than there was, of a segment; did a
    \* format command go unacknowledged?
    shortRead, unacked

locals == <<recvLen, gpdLen, i, sendFailTimes>>
server == <<total, ok, shortRead>>
chip   == <<mode, got, unacked>>
vars == <<pc, downloadGPD, fd, buffer, locals, ret, server, chip>>

Init ==
    /\ pc = "idle" /\ downloadGPD = FALSE
    /\ fd = FALSE /\ buffer = FALSE
    /\ recvLen = 0 /\ gpdLen = 0 /\ i = 0 /\ sendFailTimes = 0
    /\ ret = FALSE
    /\ total = 0 /\ ok = FALSE /\ shortRead = FALSE
    /\ mode = "nmea" /\ got = {} /\ unacked = FALSE

Step(from, to) == pc = from /\ pc' = to

\* GPS_AGPS returns; a new call finds new locals.
Return(result) == pc' = "idle" /\ ret' = result

-----------------------------------------------------------------------------
(* 1. Get the file from the server *)

\* A call before this one may have left its block behind; it is lost.
GPS_AGPS(download) ==
    /\ Step("idle", IF download THEN "malloc" ELSE "rtc")
    /\ downloadGPD' = download
    /\ recvLen' = 0 /\ gpdLen' = 0 /\ i' = 0 /\ sendFailTimes' = 0
    /\ buffer' = FALSE /\ got' = {} /\ shortRead' = FALSE
    /\ UNCHANGED <<fd, ret, total, ok, mode, unacked>>

OS_Malloc ==
    /\ pc = "malloc"
    /\ \/ pc' = "dns" /\ buffer' = TRUE /\ ret' = ret
       \/ Return(FALSE) /\ buffer' = buffer
    /\ UNCHANGED <<downloadGPD, fd, locals, server, chip>>

\* Mutant: the buffer is kept when the download fails.
HttpGetFailsKeeps ==
    /\ Return(FALSE)
    /\ fd' = FALSE /\ buffer' = buffer
    /\ UNCHANGED <<downloadGPD, locals, server, chip>>

\* Http_Get fails: the socket is closed, the buffer freed.
HttpGetFails ==
    /\ Return(FALSE)
    /\ fd' = FALSE /\ buffer' = FALSE
    /\ UNCHANGED <<downloadGPD, locals, server, chip>>

GetHostByName ==
    \/ /\ Step("dns", "socket")
       /\ UNCHANGED <<downloadGPD, fd, buffer, locals, ret, server, chip>>
    \/ pc = "dns" /\ HttpGetFails

socket ==
    \/ /\ Step("socket", "connect") /\ fd' = TRUE
       /\ UNCHANGED <<downloadGPD, buffer, locals, ret, server, chip>>
    \/ pc = "socket" /\ HttpGetFails

connect ==
    \/ /\ Step("connect", "send")
       /\ UNCHANGED <<downloadGPD, fd, buffer, locals, ret, server, chip>>
    \/ pc = "connect" /\ HttpGetFails

send ==
    \/ /\ Step("send", "recv")
       /\ total' \in Header..(Header + MaxBody) /\ ok' \in BOOLEAN
       /\ UNCHANGED <<downloadGPD, fd, buffer, locals, ret, shortRead, chip>>
    \/ pc = "send" /\ HttpGetFails

Least(a, b) == IF a <= b THEN a ELSE b

\* Mutant: a full segment is taken for the last.
LastSegmentFull(len) == len <= Segment

LastSegment(len) == len < Segment

\* select reports data and recv returns len cells of them.
recv(len) ==
    /\ pc = "recv"
    /\ len \in 1..Least(total - recvLen, BufferLen - recvLen)
    /\ recvLen' = recvLen + len
    /\ shortRead' = (shortRead \/ len < Least(Segment, total - recvLen))
    /\ IF LastSegment(len) THEN pc' = "response" /\ fd' = FALSE ELSE UNCHANGED <<pc, fd>>
    /\ UNCHANGED <<downloadGPD, buffer, gpdLen, i, sendFailTimes, ret, total, ok, chip>>

\* Mutant: the loop goes on when the connection is closed.
RecvGoesOn ==
    /\ pc = "recv"
    /\ \/ recvLen < total /\ HttpGetFails
       \/ recvLen = total /\ UNCHANGED vars

\* select fails or waits 12 seconds for nothing; recv fails, finds the
\* connection closed, or the buffer full.
RecvFails == pc = "recv" /\ HttpGetFails

Padded(len) == ((len + Pack - 1) \div Pack) * Pack

\* "200 OK", the end of the header, and the padding.
Response ==
    \/ /\ Step("response", "binary")
       /\ ok /\ recvLen >= Header
       /\ gpdLen' = Padded(recvLen - Header)
       /\ UNCHANGED <<downloadGPD, fd, buffer, recvLen, i, sendFailTimes, ret, server, chip>>
    \/ pc = "response" /\ ~(ok /\ recvLen >= Header) /\ HttpGetFails

-----------------------------------------------------------------------------
(* 2. to 4. Send it to the chip *)

\* A command in a format: executed or not, and what its function returns.
Command(format, executed, acked) ==
    /\ executed => mode = format
    /\ acked => executed

SetFormat(from, to, executed, acked) ==
    /\ Command(from, executed, acked)
    /\ mode' = IF executed THEN to ELSE mode
    /\ unacked' = (unacked \/ ~acked)
    /\ got' = got

GPS_SetBinaryMode(executed, acked) ==
    /\ pc = "binary"
    /\ SetFormat("nmea", "binary", executed, acked)
    /\ IF acked THEN pc' = "packs" /\ ret' = ret ELSE Return(FALSE)
    /\ UNCHANGED <<downloadGPD, fd, buffer, locals, server>>

\* i*512 > gpdLen: the pack that begins where the data end is sent as well.
AllSent == i * Pack > gpdLen

\* A failed attempt is repeated, up to MaxRetry times.
Again(again) ==
    /\ sendFailTimes' = sendFailTimes + 1
    /\ pc' = IF sendFailTimes + 1 > MaxRetry THEN "giveUp" ELSE again

\* Mutant: the next pack is sent after a failed one.
SendNextPack(executed, acked) ==
    /\ pc = "packs" /\ ~AllSent
    /\ executed => mode = "binary"
    /\ acked => executed \/ i \in got
    /\ got' = IF executed THEN got \cup {i} ELSE got
    /\ i' = i + 1
    /\ IF acked THEN pc' = pc /\ sendFailTimes' = 0 ELSE Again("packs")
    /\ UNCHANGED <<downloadGPD, fd, buffer, recvLen, gpdLen, ret, server, mode, unacked>>

\* An acknowledgement may be the late one of the same pack's first sending.
GPS_SendGPDPack(executed, acked) ==
    /\ pc = "packs" /\ ~AllSent
    /\ executed => mode = "binary"
    /\ acked => executed \/ i \in got
    /\ got' = IF executed THEN got \cup {i} ELSE got
    /\ IF acked THEN pc' = pc /\ i' = i + 1 /\ sendFailTimes' = 0
                ELSE i' = i /\ Again("packs")
    /\ UNCHANGED <<downloadGPD, fd, buffer, recvLen, gpdLen, ret, server, mode, unacked>>

\* The pack 0xffff says that this was all.
SendEnd(executed, acked) ==
    /\ pc = "packs" /\ AllSent
    /\ Command("binary", executed, acked)
    /\ IF acked THEN pc' = "nmea" /\ sendFailTimes' = sendFailTimes
                ELSE Again("packs")
    /\ UNCHANGED <<downloadGPD, fd, buffer, recvLen, gpdLen, i, ret, server, chip>>

\* Mutant: the chip is left in its binary format.
GiveUpAtOnce(executed, acked) ==
    /\ pc = "giveUp"
    /\ Return(FALSE)
    /\ UNCHANGED <<downloadGPD, fd, buffer, locals, server, chip>>

\* "send gpd file max retry"
GiveUp(executed, acked) ==
    /\ pc = "giveUp"
    /\ SetFormat("binary", "nmea", executed, acked)
    /\ Return(FALSE)
    /\ UNCHANGED <<downloadGPD, fd, buffer, locals, server>>

GPS_SetNMEAMode(executed, acked) ==
    /\ pc = "nmea"
    /\ SetFormat("binary", "nmea", executed, acked)
    /\ IF acked THEN pc' = "rtc" /\ ret' = ret ELSE Return(FALSE)
    /\ UNCHANGED <<downloadGPD, fd, buffer, locals, server>>

ChipCommand ==
    \E executed, acked \in BOOLEAN :
       \/ GPS_SetBinaryMode(executed, acked) \/ GPS_SendGPDPack(executed, acked)
       \/ SendEnd(executed, acked) \/ GiveUp(executed, acked)
       \/ GPS_SetNMEAMode(executed, acked)

-----------------------------------------------------------------------------
(* 5. and 6. Time and place: their results are only traced *)

GPS_SetRtcTime ==
    /\ Step("rtc", "location")
    /\ UNCHANGED <<downloadGPD, fd, buffer, locals, ret, server, chip>>

GPS_SetLocationTime ==
    /\ pc = "location"
    /\ Return(TRUE)
    /\ buffer' = FALSE
    /\ UNCHANGED <<downloadGPD, fd, locals, server, chip>>

Running ==
    \/ OS_Malloc \/ GetHostByName \/ socket \/ connect \/ send
    \/ (\E len \in 1..BufferLen : recv(len)) \/ RecvFails \/ Response
    \/ ChipCommand
    \/ GPS_SetRtcTime \/ GPS_SetLocationTime

Next == (\E download \in BOOLEAN : GPS_AGPS(download)) \/ Running

\* Every library call and every command returns; select has its time limit.
Spec == Init /\ [][Next]_vars /\ WF_vars(Running)

-----------------------------------------------------------------------------
(* Properties *)

\* gps.c:784: a short recv is taken for the end.  A download that succeeds is
\* the whole response when no recv before the last one was short.
DownloadWhole == pc = "response" /\ ~shortRead => recvLen = total

\* gps.c:931-961: a call that gets as far as switching back has had the chip
\* store every pack of the file, whatever was lost, late or sent twice.
EveryPackStored == pc = "nmea" => {k \in 0..MaxBody : k * Pack < gpdLen} \subseteq got

\* gps.c:867: between calls the chip is in NMEA format, however they ended,
\* unless a format command went unacknowledged.
ChipBackInNmea == pc = "idle" /\ mode = "binary" => unacked

\* gps.c:867: between calls no socket is open, and the buffer is freed unless
\* the call failed after its download (the four returns there do not free it).
LeakConfined ==
    pc = "idle" => ~fd /\ (buffer => ~ret /\ ok /\ recvLen >= Header)

\* Every call returns, however the server and the chip behave.
AgpsReturns == []<>(pc = "idle")
=============================================================================
