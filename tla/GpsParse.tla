------------------------------ MODULE GpsParse ------------------------------
(***************************************************************************)
(* The frame parser of libs/gps/src/gps_parse.c: GPS_Parse finds one       *)
(* sentence after the other in a frame and gives it to ParseOneNmea, which *)
(* stores it in g_gps_info.  The main task parses; the gps task reads the  *)
(* position in between (app.c:868-871), and the two interleave freely.     *)
(*                                                                         *)
(* A frame is a sequence of cells: "$" with the sentence it begins, "n"    *)
(* for "\r\n", "x" for any other bytes, so that sentences and garbage have *)
(* lengths.  Of the sentences RMC, GSA and GSV are told apart: RMC is what *)
(* the tracker reads, the other two fill arrays.  A sentence is "good",    *)
(* fails the check of minmea ("bad"), or is cut short and has no checksum  *)
(* any more ("open"): minmea reads such a sentence up to the cut.          *)
(***************************************************************************)
EXTENDS Integers, Sequences, FiniteSets

CONSTANTS Frame,       \* the frames that GPS_Update may take from its buffer
          MaxGsa, MaxGsv,  \* GPS_PARSE_MAX_GSA_NUMBER, GPS_PARSE_MAX_GSV_NUMBER
          FlagMod,     \* 2^8, the values of the frame number flag
          MaxEmpty     \* bound: the frames in a row that hold no sentence

ASSUME GpsParseAssumption ==
    /\ \A f \in Frame : Len(f) \in Nat /\ DOMAIN f = 1..Len(f)
    /\ MaxGsa \in Nat /\ MaxGsv \in Nat
    /\ FlagMod \in Nat /\ MaxEmpty \in Nat /\ MaxEmpty + 2 <= FlagMod

VARIABLES
    flag, flag_old, gsa_count, gsv_count,   \* the static variables
    gsa, gsv,           \* the entries of the arrays stored in this frame
    rmc,                \* g_gps_info.rmc: latitude and longitude
    mpc, frame, nmeas,  \* the main task in GPS_Parse
    line,               \* index1, while an RMC sentence is scanned
    rpc, read,          \* the gps task, and the latitude it has read
    \* history: the sentences parsed in this frame, the frames without one,
    \* the last position reported, whether a cut sentence has spoilt it since,
    \* and whether a parse has overlapped the reading
    parsed, empties, reported, spoilt, overlap

tables  == <<flag_old, gsa_count, gsv_count, gsa, gsv>>
history == <<parsed, empties, reported, spoilt>>
reader  == <<rpc, read>>
vars == <<flag, tables, rmc, mpc, frame, nmeas, line, reader, history, overlap>>

Init ==
    /\ flag = 0 /\ flag_old = FlagMod - 1
    /\ gsa_count = 0 /\ gsv_count = 0
    /\ gsa = {} /\ gsv = {}
    /\ rmc = <<0, 0>>
    /\ mpc = "idle" /\ frame = <<>> /\ nmeas = 1 /\ line = 0
    /\ rpc = "idle" /\ read = 0
    /\ parsed = <<>> /\ empties = 0 /\ reported = <<0, 0>> /\ spoilt = FALSE
    /\ overlap = FALSE

MainStep(from, to) == mpc = from /\ mpc' = to

-----------------------------------------------------------------------------
(* GPS_Parse *)

First(S) == CHOOSE i \in S : \A j \in S : i <= j

Dollars(from) == {i \in from..Len(frame) : frame[i].c = "$"}
CRLFs(from)   == {i \in from..Len(frame) : frame[i].c = "n"}

HasSentence(f) == \E i \in DOMAIN f : \E j \in i..Len(f) : f[i].c = "$" /\ f[j].c = "n"

GPS_Parse(f) ==
    /\ MainStep("idle", "parse")
    /\ HasSentence(f) \/ empties < MaxEmpty
    /\ frame' = f /\ nmeas' = 1
    /\ parsed' = <<>> /\ empties' = IF HasSentence(f) THEN 0 ELSE empties + 1
    /\ UNCHANGED <<flag, tables, rmc, line, reader, reported, spoilt, overlap>>

Index1 == First(Dollars(nmeas))
Index2 == First(CRLFs(Index1))
Found  == Dollars(nmeas) # {} /\ CRLFs(Index1) # {}

\* Mutant: one more than the length of the line.
AdvancePastEnd == nmeas + (Index2 - Index1 + 2)

\* nmeas += index2-index1+2: by the length of the sentence, whatever lay
\* before it.
Advance == nmeas + (Index2 - Index1 + 1)

\* minmea_check of the line at i: a second "$" before its end means that the
\* rest of the first sentence was lost, and the checksum is not its own.
Check(i) ==
    IF \E j \in Dollars(i + 1) : j < First(CRLFs(i)) THEN "bad" ELSE frame[i].s.check

Room(count, max) == count < max

\* The static counts, set back by the first sentence of a frame.
GsaCount == IF flag # flag_old THEN 0 ELSE gsa_count
GsvCount == IF flag # flag_old THEN 0 ELSE gsv_count

\* One round of the loop: a sentence that cannot be scanned takes its entry,
\* too.  It goes up to the scanning of an RMC sentence.
ParseOneNmea ==
    LET i    == Index1
        id   == IF Check(i) = "bad" THEN "MINMEA_INVALID" ELSE frame[i].s.id
        toGsa == id = "GSA" /\ Room(GsaCount, MaxGsa)
        toGsv == id = "GSV" /\ Room(GsvCount, MaxGsv)
    IN  /\ Found
        /\ MainStep("parse", IF id = "RMC" THEN "latitude" ELSE "parse")
        /\ nmeas' = Advance /\ line' = IF id = "RMC" THEN i ELSE 0
        /\ parsed' = Append(parsed, i)
        /\ flag_old' = flag
        /\ gsa_count' = IF toGsa THEN GsaCount + 1 ELSE GsaCount
        /\ gsv_count' = IF toGsv THEN GsvCount + 1 ELSE GsvCount
        /\ gsa' = IF toGsa THEN gsa \cup {GsaCount} ELSE gsa
        /\ gsv' = IF toGsv THEN gsv \cup {GsvCount} ELSE gsv
        /\ UNCHANGED <<flag, rmc, frame, reader, empties, reported, spoilt, overlap>>

\* Mutant: the frame number stays.
ParseEndSameFlag ==
    /\ ~Found
    /\ MainStep("parse", "idle")
    /\ frame' = <<>> /\ nmeas' = 1 /\ parsed' = <<>>
    /\ gsa' = {} /\ gsv' = {}
    /\ UNCHANGED <<flag, flag_old, gsa_count, gsv_count, rmc, line, reader, empties, reported, spoilt, overlap>>

\* Mutant: a "$" without its "\r\n" does not leave the loop.
ParseEndNoBreak ==
    /\ Dollars(nmeas) = {}
    /\ MainStep("parse", "idle")
    /\ flag' = (flag + 1) % FlagMod
    /\ frame' = <<>> /\ nmeas' = 1 /\ parsed' = <<>>
    /\ gsa' = {} /\ gsv' = {}
    /\ UNCHANGED <<flag_old, gsa_count, gsv_count, rmc, line, reader, empties, reported, spoilt, overlap>>

\* No sentence is left.  The result of GPS_Parse is not used by GPS_Update.
\* The locals are forgotten, and what was stored is no longer this frame's.
ParseEnd ==
    /\ ~Found
    /\ MainStep("parse", "idle")
    /\ flag' = (flag + 1) % FlagMod
    /\ frame' = <<>> /\ nmeas' = 1 /\ parsed' = <<>>
    /\ gsa' = {} /\ gsv' = {}
    /\ UNCHANGED <<flag_old, gsa_count, gsv_count, rmc, line, reader, empties, reported, spoilt, overlap>>

-----------------------------------------------------------------------------
(* minmea_parse_rmc: the scan stores the coordinates without their signs,  *)
(* and the directions are multiplied in afterwards.                        *)

RmcUnchanged ==
    /\ line' = IF mpc' = "parse" THEN 0 ELSE line
    /\ UNCHANGED <<flag, tables, frame, nmeas, reader, parsed, empties>>

\* An open sentence ends in its latitude.
ScanLatitude ==
    /\ MainStep("latitude", IF frame[line].s.check = "open" THEN "parse" ELSE "longitude")
    /\ rmc' = [rmc EXCEPT ![1] = frame[line].s.lat]
    /\ spoilt' = TRUE /\ reported' = reported
    /\ overlap' = (rpc = "latitude")
    /\ RmcUnchanged

ScanLongitude ==
    /\ MainStep("longitude", "north")
    /\ rmc' = [rmc EXCEPT ![2] = frame[line].s.lon]
    /\ overlap' = (rpc = "latitude")
    /\ UNCHANGED <<reported, spoilt>>
    /\ RmcUnchanged

MultiplyLatitude ==
    /\ MainStep("north", "east")
    /\ rmc' = [rmc EXCEPT ![1] = @ * frame[line].s.ns]
    /\ overlap' = (rpc = "latitude")
    /\ UNCHANGED <<reported, spoilt>>
    /\ RmcUnchanged

\* Mutant: the longitude takes the sign of the latitude.
MultiplyByLatitude ==
    /\ MainStep("east", "parse")
    /\ rmc' = [rmc EXCEPT ![2] = @ * frame[line].s.ns]
    /\ overlap' = (rpc = "latitude")
    /\ reported' = <<frame[line].s.lat * frame[line].s.ns, frame[line].s.lon * frame[line].s.ew>>
    /\ spoilt' = FALSE
    /\ RmcUnchanged

MultiplyLongitude ==
    /\ MainStep("east", "parse")
    /\ rmc' = [rmc EXCEPT ![2] = @ * frame[line].s.ew]
    /\ overlap' = (rpc = "latitude")
    /\ reported' = <<frame[line].s.lat * frame[line].s.ns, frame[line].s.lon * frame[line].s.ew>>
    /\ spoilt' = FALSE
    /\ RmcUnchanged

ParseStep == \/ ParseOneNmea \/ ParseEnd
             \/ ScanLatitude \/ ScanLongitude \/ MultiplyLatitude \/ MultiplyLongitude

-----------------------------------------------------------------------------
(* The gps task reads the latitude, then the longitude *)

ReadUnchanged == UNCHANGED <<flag, tables, rmc, mpc, frame, nmeas, line, history>>

InRmc == mpc \in {"longitude", "north", "east"}

ReadLatitude ==
    /\ rpc = "idle" /\ rpc' = "latitude"
    /\ read' = rmc[1]
    /\ overlap' = InRmc
    /\ ReadUnchanged

\* The position is <<read, rmc[2]>>; it is used at once.
ReadLongitude ==
    /\ rpc = "latitude" /\ rpc' = "idle"
    /\ read' = 0 /\ overlap' = FALSE
    /\ ReadUnchanged

-----------------------------------------------------------------------------
Next == (\E f \in Frame : GPS_Parse(f)) \/ ParseStep \/ ReadLatitude \/ ReadLongitude

\* The task that parses is not starved.
Spec == Init /\ [][Next]_vars /\ WF_vars(ParseStep)

(* Properties *)

FrameDone == mpc = "parse" /\ ~Found

\* A line of the frame that begins with "$" and ends with "\r\n".
WholeLines ==
    {i \in Dollars(1) : (i = 1 \/ frame[i - 1].c = "n") /\ CRLFs(i) # {}}

AllLinesWhole ==
    \A i \in 1..Len(frame) :
       (i = 1 \/ frame[i - 1].c = "n") => frame[i].c = "$"

\* gps_parse.c:152: however the lengths of garbage and sentences fall, no line
\* is passed over and none is parsed after a later one; a frame without
\* garbage has every line parsed once.
ParsesEveryLine ==
    FrameDone =>
       /\ WholeLines \subseteq {parsed[k] : k \in 1..Len(parsed)}
       /\ \A k \in 2..Len(parsed) : parsed[k - 1] <= parsed[k]
       /\ AllLinesWhole => Len(parsed) = Cardinality(WholeLines)

\* "flag: alway the same if this one message from the same message frame"
\* (gps_parse.c:26): after a frame with a sentence the entries that are
\* counted are this frame's and no others are, in an array that is never
\* overrun.
TablesOfThisFrame ==
    FrameDone /\ empties = 0 =>
       /\ gsa_count <= MaxGsa /\ gsa = 0..gsa_count - 1
       /\ gsv_count <= MaxGsv /\ gsv = 0..gsv_count - 1

\* app.c:868-871: a position read while no RMC sentence is being stored is,
\* with its signs, the one the last whole RMC sentence reported, unless a
\* sentence without a checksum has overwritten its latitude.
ReadsReported ==
    [][ReadLongitude /\ ~overlap /\ ~spoilt => <<read, rmc[2]>> = reported]_vars

\* GPS_Parse comes to the end of every frame.
ParseReturns == (mpc = "parse") ~> (mpc = "idle")
=============================================================================
