--------------------------- MODULE GpsParseProofs ---------------------------
(***************************************************************************)
(* Proofs about GPS_Parse and the reading of the position, for every set   *)
(* of frames, every length of the arrays and every width of the frame      *)
(* number.                                                                 *)
(***************************************************************************)
EXTENDS GpsParse, SequenceTheorems, FiniteSetTheorems, WellFoundedInduction, TLAPS

-----------------------------------------------------------------------------
(* The search for a sentence *)

\* A non-empty set of positions has a first one: what strstr returns.
LEMMA FirstLemma ==
    ASSUME NEW S, S \subseteq Nat, S # {}
    PROVE  First(S) \in S /\ \A j \in S : First(S) <= j
<1> DEFINE R == {p \in Nat \X Nat : p[1] < p[2]}
<1>1. IsWellFoundedOn(R, Nat)
      BY NatLessThanWellFounded, Zenon DEF OpToRel
<1>2. PICK i \in S : \A j \in S : ~(<<j, i>> \in R)
      BY <1>1, WFMin, Zenon
<1>3. \A j \in S : ~(j < i)
  <2> SUFFICES ASSUME NEW j \in S, j < i PROVE FALSE
      OBVIOUS
  <2>1. <<j, i>> \in R
        BY SMT
  <2> QED BY <2>1, <1>2, Zenon
<1>4. \A j \in S : i <= j
      BY <1>3, SMT
<1> QED BY <1>4, Zenon DEF First

\* The line that the loop of GPS_Parse takes: the first "$" that is left and
\* the first "\r\n" after it.
LEMMA FoundLine ==
    ASSUME Len(frame) \in Nat, nmeas \in Nat, nmeas >= 1, Found
    PROVE  /\ Index1 \in nmeas..Len(frame) /\ frame[Index1].c = "$"
           /\ Index2 \in Index1..Len(frame) /\ frame[Index2].c = "n"
           /\ \A d \in Dollars(nmeas) : Index1 <= d
           /\ \A e \in CRLFs(Index1) : Index2 <= e
<1>1. Dollars(nmeas) \subseteq Nat
      BY DEF Dollars
<1>2. Index1 \in Dollars(nmeas) /\ \A d \in Dollars(nmeas) : Index1 <= d
      BY <1>1, FirstLemma DEF Found, Index1
<1>3. Index1 \in nmeas..Len(frame) /\ frame[Index1].c = "$" /\ Index1 \in Nat
      BY <1>2 DEF Dollars
<1>4. CRLFs(Index1) \subseteq Nat
      BY <1>3 DEF CRLFs
<1>5. Index2 \in CRLFs(Index1) /\ \A e \in CRLFs(Index1) : Index2 <= e
      BY <1>4, FirstLemma DEF Found, Index2
<1> QED BY <1>2, <1>3, <1>5 DEF CRLFs

\* The search fails only when no "$" that is left has a "\r\n" after it.
LEMMA NotFoundLine ==
    ASSUME Len(frame) \in Nat, nmeas \in Nat, nmeas >= 1, ~Found,
           NEW d \in Dollars(nmeas)
    PROVE  CRLFs(d) = {}
<1>1. Dollars(nmeas) \subseteq Nat
      BY DEF Dollars
<1>2. Index1 \in Nat /\ Index1 <= d
      BY <1>1, FirstLemma DEF Index1
<1>3. CRLFs(Index1) = {}
      BY DEF Found
<1>4. CRLFs(d) \subseteq CRLFs(Index1)
      BY <1>1, <1>2 DEF CRLFs
<1> QED BY <1>3, <1>4

\* A frame holds a sentence when the first search succeeds.
LEMMA FirstSearch ==
    ASSUME Len(frame) \in Nat, DOMAIN frame = 1..Len(frame), nmeas = 1
    PROVE  HasSentence(frame) <=> Found
<1>1. ASSUME Found PROVE HasSentence(frame)
  <2>1. /\ Index1 \in nmeas..Len(frame) /\ frame[Index1].c = "$"
        /\ Index2 \in Index1..Len(frame) /\ frame[Index2].c = "n"
        BY <1>1, FoundLine
  <2> QED BY <2>1 DEF HasSentence
<1>2. ASSUME HasSentence(frame), ~Found PROVE FALSE
  <2>1. PICK i \in 1..Len(frame) : \E j \in i..Len(frame) : frame[i].c = "$" /\ frame[j].c = "n"
        BY <1>2 DEF HasSentence
  <2>2. i \in Dollars(nmeas) /\ CRLFs(i) # {}
        BY <2>1 DEF Dollars, CRLFs
  <2> QED BY <1>2, <2>2, NotFoundLine
<1> QED BY <1>1, <1>2

-----------------------------------------------------------------------------
(* The tables *)

\* The frame number is k steps after flag_old, round the width.
Later(k) == flag = flag_old + k \/ flag = flag_old + k - FlagMod

\* The entries of one array: those of this frame, in order from 0.
Entries(s, count, max) == count \in Nat /\ count <= max /\ s = 0..(count - 1)

\* Between frames the number is one more than the frames without a sentence;
\* the first sentence of a frame brings flag_old up to it.
TablesInv ==
    /\ Len(frame) \in Nat /\ DOMAIN frame = 1..Len(frame)
    /\ flag \in 0..(FlagMod - 1) /\ flag_old \in 0..(FlagMod - 1)
    /\ empties \in 0..MaxEmpty
    /\ mpc = "idle" => parsed = <<>> /\ Later(empties + 1)
    /\ mpc \notin {"idle", "parse"} => parsed # <<>>
    /\ mpc # "idle" /\ parsed = <<>> =>
          nmeas = 1 /\ (HasSentence(frame) <=> empties = 0)
    /\ mpc # "idle" /\ parsed = <<>> /\ empties = 0 => flag # flag_old
    /\ mpc # "idle" /\ empties > 0 => parsed = <<>> /\ Later(empties)
    /\ parsed = <<>> => gsa = {} /\ gsv = {}
    /\ parsed # <<>> => /\ flag = flag_old
                        /\ Entries(gsa, gsa_count, MaxGsa)
                        /\ Entries(gsv, gsv_count, MaxGsv)
    /\ parsed \in Seq(Nat) /\ nmeas \in Nat /\ nmeas >= 1

\* Storing an entry.
LEMMA EntryStored ==
    ASSUME NEW s, NEW count, NEW max \in Nat, Entries(s, count, max), NEW b \in BOOLEAN
    PROVE  LET to == b /\ Room(count, max)
           IN  Entries(IF to THEN s \cup {count} ELSE s,
                       IF to THEN count + 1 ELSE count, max)
<1>1. CASE b /\ Room(count, max)
  <2>1. 0..count = (0..(count - 1)) \cup {count}
        BY DEF Entries
  <2>2. count + 1 \in Nat /\ count + 1 <= max /\ (count + 1) - 1 = count
        BY <1>1 DEF Entries, Room
  <2> QED BY <1>1, <2>1, <2>2 DEF Entries
<1>2. CASE ~(b /\ Room(count, max))
      BY <1>2
<1> QED BY <1>1, <1>2

\* A sentence parsed.
LEMMA ParseOneTables ==
    ASSUME TablesInv, ParseOneNmea
    PROVE  TablesInv'
<1>1. /\ Len(frame) \in Nat /\ nmeas \in Nat /\ nmeas >= 1 /\ Found /\ mpc = "parse"
      /\ parsed \in Seq(Nat) /\ MaxGsa \in Nat /\ MaxGsv \in Nat
      BY GpsParseAssumption DEF TablesInv, ParseOneNmea, MainStep
<1>2. Index1 \in Nat /\ Index2 \in Nat /\ Index1 <= Index2
      BY <1>1, FoundLine
<1>3. parsed' \in Seq(Nat) /\ parsed' # <<>>
  <2>1. parsed' = Append(parsed, Index1)
        BY DEF ParseOneNmea
  <2> QED BY <1>1, <1>2, <2>1, AppendProperties
<1>4. nmeas' \in Nat /\ nmeas' >= 1
      BY <1>1, <1>2 DEF ParseOneNmea, Advance
<1>5. empties = 0
  <2>1. CASE parsed = <<>>
        BY <1>1, <2>1, FirstSearch DEF TablesInv
  <2>2. CASE parsed # <<>>
        BY <1>1, <2>2 DEF TablesInv
  <2> QED BY <2>1, <2>2
<1>6. Entries(gsa, GsaCount, MaxGsa) /\ Entries(gsv, GsvCount, MaxGsv)
  <2>1. CASE parsed = <<>>
        BY <1>1, <1>5, <2>1 DEF TablesInv, GsaCount, GsvCount, Entries
  <2>2. CASE parsed # <<>>
        BY <2>2 DEF TablesInv, GsaCount, GsvCount
  <2> QED BY <2>1, <2>2
<1> DEFINE id == IF Check(Index1) = "bad" THEN "MINMEA_INVALID" ELSE frame[Index1].s.id
           toGsa == id = "GSA" /\ Room(GsaCount, MaxGsa)
           toGsv == id = "GSV" /\ Room(GsvCount, MaxGsv)
<1>7. /\ gsa_count' = IF toGsa THEN GsaCount + 1 ELSE GsaCount
      /\ gsv_count' = IF toGsv THEN GsvCount + 1 ELSE GsvCount
      /\ gsa' = IF toGsa THEN gsa \cup {GsaCount} ELSE gsa
      /\ gsv' = IF toGsv THEN gsv \cup {GsvCount} ELSE gsv
      BY DEF ParseOneNmea
<1>8. (id = "GSA") \in BOOLEAN /\ (id = "GSV") \in BOOLEAN
      OBVIOUS
<1> HIDE DEF id
<1>9. Entries(gsa', gsa_count', MaxGsa)
      BY <1>1, <1>6, <1>7, <1>8, EntryStored
<1>10. Entries(gsv', gsv_count', MaxGsv)
      BY <1>1, <1>6, <1>7, <1>8, EntryStored
<1>11. mpc' # "idle" /\ flag_old' = flag /\ UNCHANGED <<flag, frame, empties>>
      BY DEF ParseOneNmea, MainStep
<1> QED BY <1>3, <1>4, <1>5, <1>9, <1>10, <1>11 DEF TablesInv

\* Every step of GPS_Parse and of the reader.
LEMMA NextTables ==
    ASSUME TablesInv, [Next]_vars
    PROVE  TablesInv'
<1> USE GpsParseAssumption
<1>1. CASE \E f \in Frame : GPS_Parse(f)
  <2>1. PICK f \in Frame : GPS_Parse(f)
        BY <1>1
  <2>2. /\ frame' = f /\ nmeas' = 1 /\ parsed' = <<>> /\ mpc = "idle" /\ mpc' = "parse"
        /\ empties' = IF HasSentence(f) THEN 0 ELSE empties + 1
        /\ HasSentence(f) \/ empties < MaxEmpty
        /\ UNCHANGED <<flag, flag_old, gsa, gsv>>
        BY <2>1 DEF GPS_Parse, MainStep, tables
  <2>3. Len(f) \in Nat /\ DOMAIN f = 1..Len(f) /\ <<>> \in Seq(Nat)
        OBVIOUS
  <2>4. empties' \in 0..MaxEmpty /\ (HasSentence(f) <=> empties' = 0)
        BY <2>2 DEF TablesInv
  <2>5. CASE HasSentence(f)
    <3>1. flag # flag_old
          BY <2>2 DEF TablesInv, Later
    <3> QED BY <2>2, <2>3, <2>4, <2>5, <3>1 DEF TablesInv
  <2>6. CASE ~HasSentence(f)
    <3>1. Later(empties)'
          BY <2>2, <2>6 DEF TablesInv, Later
    <3> QED BY <2>2, <2>3, <2>4, <2>6, <3>1 DEF TablesInv
  <2> QED BY <2>5, <2>6
<1>2. CASE ParseOneNmea
      BY <1>2, ParseOneTables
<1>3. CASE ParseEnd
  <2>1. /\ ~Found /\ mpc = "parse" /\ mpc' = "idle" /\ flag' = (flag + 1) % FlagMod
        /\ frame' = <<>> /\ nmeas' = 1 /\ parsed' = <<>> /\ gsa' = {} /\ gsv' = {}
        /\ UNCHANGED <<flag_old, empties>>
        BY <1>3 DEF ParseEnd, MainStep
  <2>2. Later(empties)
    <3>1. empties = 0 => parsed # <<>>
          BY <2>1, FirstSearch DEF TablesInv
    <3> QED BY <2>1, <3>1 DEF TablesInv, Later
  <2>3. flag' = IF flag + 1 = FlagMod THEN 0 ELSE flag + 1
    <3>1. flag + 1 \in 0..FlagMod /\ FlagMod > 0
          BY DEF TablesInv
    <3>2. CASE flag + 1 = FlagMod
          BY <2>1, <3>1, <3>2
    <3>3. CASE flag + 1 # FlagMod
          BY <2>1, <3>1, <3>3
    <3> QED BY <3>2, <3>3
  <2>4. flag' \in 0..(FlagMod - 1) /\ Later(empties + 1)'
        BY <2>1, <2>2, <2>3 DEF TablesInv, Later
  <2>5. <<>> \in Seq(Nat) /\ Len(<<>>) = 0 /\ DOMAIN <<>> = 1..0
        OBVIOUS
  <2> QED BY <2>1, <2>4, <2>5 DEF TablesInv
<1>4. CASE ScanLatitude \/ ScanLongitude \/ MultiplyLatitude \/ MultiplyLongitude
  <2>1. /\ mpc \notin {"idle", "parse"} /\ mpc' # "idle"
        /\ UNCHANGED <<flag, flag_old, gsa_count, gsv_count, gsa, gsv, frame, nmeas, parsed, empties>>
        BY <1>4 DEF ScanLatitude, ScanLongitude, MultiplyLatitude, MultiplyLongitude,
                    MainStep, RmcUnchanged, tables
  <2> QED BY <2>1 DEF TablesInv, Later
<1>5. CASE ReadLatitude \/ ReadLongitude \/ UNCHANGED vars
  <2>1. UNCHANGED <<flag, flag_old, gsa_count, gsv_count, gsa, gsv, mpc, frame, nmeas, parsed, empties>>
        BY <1>5 DEF ReadLatitude, ReadLongitude, ReadUnchanged, vars, tables, history
  <2> QED BY <2>1 DEF TablesInv, Later
<1> QED BY <1>1, <1>2, <1>3, <1>4, <1>5 DEF Next, ParseStep

\* TablesInv holds from the start.
LEMMA TablesInvariant == Spec => []TablesInv
<1>1. Init => TablesInv
  <2>1. <<>> \in Seq(Nat) /\ Len(<<>>) = 0 /\ DOMAIN <<>> = 1..0
        OBVIOUS
  <2> QED BY <2>1, GpsParseAssumption DEF Init, TablesInv, Later
<1>2. TablesInv /\ [Next]_vars => TablesInv'
      BY NextTables
<1> QED BY <1>1, <1>2, PTL DEF Spec

\* gps_parse.c:26: after a frame with a sentence the entries that are counted
\* are this frame's and no others are, and no array is overrun, for every
\* width of the frame number that is larger than the frames in a row without
\* a sentence.
THEOREM CountsThisFrame == Spec => []TablesOfThisFrame
<1>1. TablesInv => TablesOfThisFrame
  <2> SUFFICES ASSUME TablesInv, FrameDone, empties = 0
               PROVE  /\ gsa_count <= MaxGsa /\ gsa = 0..gsa_count - 1
                      /\ gsv_count <= MaxGsv /\ gsv = 0..gsv_count - 1
      BY DEF TablesOfThisFrame
  <2>1. parsed # <<>>
        BY FirstSearch DEF TablesInv, FrameDone
  <2> QED BY <2>1 DEF TablesInv, Entries
<1> QED BY <1>1, TablesInvariant, PTL

-----------------------------------------------------------------------------
(* The lines *)

\* The lines before nmeas are parsed, in order; in a frame without garbage
\* nmeas is where a line begins, and each line before it was parsed once.
LineInv ==
    /\ \A w \in WholeLines : w < nmeas => \E k \in 1..Len(parsed) : parsed[k] = w
    /\ \A k \in 1..Len(parsed), d \in Dollars(nmeas) : parsed[k] <= d
    /\ \A k \in 2..Len(parsed) : parsed[k - 1] <= parsed[k]
    /\ AllLinesWhole =>
          /\ nmeas = 1 \/ (nmeas - 1 \in 1..Len(frame) /\ frame[nmeas - 1].c = "n")
          /\ \A k \in 1..Len(parsed) : parsed[k] \in WholeLines /\ parsed[k] < nmeas
          /\ \A k, l \in 1..Len(parsed) : k < l => parsed[k] < parsed[l]

\* A sentence parsed.
LEMMA ParseOneLine ==
    ASSUME TablesInv, LineInv, ParseOneNmea
    PROVE  LineInv'
<1>1. /\ Len(frame) \in Nat /\ nmeas \in Nat /\ nmeas >= 1 /\ Found
      /\ parsed \in Seq(Nat) /\ frame' = frame
      BY DEF TablesInv, ParseOneNmea
<1>2. /\ Index1 \in nmeas..Len(frame) /\ frame[Index1].c = "$"
      /\ Index2 \in Index1..Len(frame) /\ frame[Index2].c = "n"
      /\ \A d \in Dollars(nmeas) : Index1 <= d
      /\ \A e \in CRLFs(Index1) : Index2 <= e
      BY <1>1, FoundLine
<1> DEFINE i == Index1  j == Index2  n == Len(parsed)
<1>3. i \in Nat /\ j \in Nat /\ nmeas <= i /\ i < j /\ j <= Len(frame) /\ Index1 \in Nat
  <2>1. i # j
        BY <1>2
  <2> QED BY <1>1, <1>2, <2>1
<1>4. nmeas' = nmeas + (j - i + 1) /\ parsed' = Append(parsed, i)
      BY DEF ParseOneNmea, Advance
<1>5. nmeas' \in Nat /\ nmeas < nmeas' /\ nmeas' <= j + 1
      BY <1>1, <1>3, <1>4
<1>6. /\ n \in Nat /\ Len(parsed') = n + 1 /\ parsed'[n + 1] = i
      /\ \A k \in 1..n : parsed'[k] = parsed[k]
      BY <1>1, <1>3, <1>4, AppendProperties, LenProperties
<1>7. WholeLines' = WholeLines /\ AllLinesWhole' = AllLinesWhole
      BY <1>1 DEF WholeLines, AllLinesWhole, Dollars, CRLFs
<1>8. \A d \in Dollars(nmeas)' : d \in Dollars(nmeas)
      BY <1>1, <1>5 DEF Dollars
<1>9. \A w \in WholeLines : w \in 1..Len(frame) /\ frame[w].c = "$"
                               /\ (w = 1 \/ frame[w - 1].c = "n")
      BY DEF WholeLines, Dollars
<1>10. i \in Dollars(nmeas)
      BY <1>1, <1>2 DEF Dollars
<1>11. ASSUME NEW w \in WholeLines, w < nmeas', ~(w < nmeas) PROVE w = i
  <2>1. w \in Dollars(nmeas) /\ i <= w
        BY <1>1, <1>2, <1>9, <1>11 DEF Dollars
  <2>2. w < j
    <3>1. w <= j /\ w # j
          BY <1>2, <1>3, <1>5, <1>9, <1>11
    <3> QED BY <1>3, <1>9, <3>1
  <2>3. ASSUME i < w PROVE FALSE
    <3>1. w - 1 \in i..Len(frame) /\ frame[w - 1].c = "n"
          BY <1>1, <1>3, <1>9, <2>3
    <3>2. w - 1 \in CRLFs(Index1)
          BY <3>1 DEF CRLFs
    <3> QED BY <1>2, <1>3, <1>9, <2>2, <3>2
  <2> QED BY <1>3, <1>9, <2>1, <2>3
<1> HIDE DEF i, j, n
<1>12. \A w \in WholeLines : w < nmeas' => \E k \in 1..(n + 1) : parsed'[k] = w
  <2> SUFFICES ASSUME NEW w \in WholeLines, w < nmeas'
               PROVE  \E k \in 1..(n + 1) : parsed'[k] = w
      OBVIOUS
  <2>1. CASE w < nmeas
    <3>1. PICK k \in 1..n : parsed[k] = w
          BY <2>1 DEF LineInv, n
    <3> QED BY <1>6, <3>1
  <2>2. CASE ~(w < nmeas)
    <3>1. w = i
          BY <1>11, <2>2
    <3> QED BY <1>6, <3>1
  <2> QED BY <2>1, <2>2
<1>13. \A k \in 1..n, d \in Dollars(nmeas) : parsed[k] <= d
      BY DEF LineInv, n
<1>14. \A k \in 1..(n + 1), d \in Dollars(nmeas)' : parsed'[k] <= d
  <2> SUFFICES ASSUME NEW k \in 1..(n + 1), NEW d \in Dollars(nmeas)' PROVE parsed'[k] <= d
      OBVIOUS
  <2>1. CASE k = n + 1
        BY <1>2, <1>6, <1>8, <2>1 DEF i
  <2>2. CASE k # n + 1
        BY <1>6, <1>8, <1>13, <2>2
  <2> QED BY <2>1, <2>2
<1>15. \A k \in 2..(n + 1) : parsed'[k - 1] <= parsed'[k]
  <2> SUFFICES ASSUME NEW k \in 2..(n + 1) PROVE parsed'[k - 1] <= parsed'[k]
      OBVIOUS
  <2>1. CASE k = n + 1
        BY <1>6, <1>10, <1>13, <2>1
  <2>2. CASE k # n + 1
    <3>1. k \in 2..n /\ k - 1 \in 1..n /\ k \in 1..n
          BY <1>6, <2>2
    <3> QED BY <1>6, <3>1 DEF LineInv, n
  <2> QED BY <2>1, <2>2
<1>16. ASSUME AllLinesWhole
       PROVE  /\ nmeas' - 1 \in 1..Len(frame) /\ frame[nmeas' - 1].c = "n"
              /\ \A k \in 1..(n + 1) : parsed'[k] \in WholeLines /\ parsed'[k] < nmeas'
              /\ \A k, l \in 1..(n + 1) : k < l => parsed'[k] < parsed'[l]
  <2>1. nmeas = 1 \/ (nmeas - 1 \in 1..Len(frame) /\ frame[nmeas - 1].c = "n")
        BY <1>16 DEF LineInv
  <2>2. frame[nmeas].c = "$" /\ nmeas \in 1..Len(frame)
        BY <1>1, <1>2, <1>16, <2>1 DEF AllLinesWhole, i
  <2>3. i = nmeas
    <3>1. nmeas \in Dollars(nmeas)
          BY <1>1, <2>2 DEF Dollars
    <3> QED BY <1>1, <1>2, <1>3, <3>1 DEF i
  <2>4. nmeas' = j + 1
        BY <1>3, <1>4, <2>3
  <2>5. nmeas' - 1 \in 1..Len(frame) /\ frame[nmeas' - 1].c = "n"
        BY <1>2, <1>3, <2>4 DEF j
  <2>6. i \in WholeLines
    <3>1. j \in CRLFs(i)
          BY <1>2 DEF CRLFs, i, j
    <3> QED BY <1>1, <1>2, <2>1, <2>2, <2>3, <3>1 DEF WholeLines, Dollars
  <2>7. /\ \A k \in 1..n : parsed[k] \in WholeLines /\ parsed[k] < nmeas
        /\ \A k, l \in 1..n : k < l => parsed[k] < parsed[l]
        BY <1>16 DEF LineInv, n
  <2>8. \A k \in 1..(n + 1) : parsed'[k] \in WholeLines /\ parsed'[k] < nmeas'
    <3> SUFFICES ASSUME NEW k \in 1..(n + 1)
                 PROVE  parsed'[k] \in WholeLines /\ parsed'[k] < nmeas'
        OBVIOUS
    <3>1. CASE k = n + 1
          BY <1>5, <1>6, <2>3, <2>6, <3>1
    <3>2. CASE k # n + 1
          BY <1>1, <1>5, <1>6, <1>9, <2>7, <3>2
    <3> QED BY <3>1, <3>2
  <2>9. \A k, l \in 1..(n + 1) : k < l => parsed'[k] < parsed'[l]
    <3> SUFFICES ASSUME NEW k \in 1..(n + 1), NEW l \in 1..(n + 1), k < l
                 PROVE  parsed'[k] < parsed'[l]
        OBVIOUS
    <3>1. k \in 1..n /\ parsed'[k] = parsed[k]
          BY <1>6
    <3>2. CASE l = n + 1
          BY <1>6, <2>3, <2>7, <3>1, <3>2
    <3>3. CASE l # n + 1
          BY <1>6, <2>7, <3>1, <3>3
    <3> QED BY <3>2, <3>3
  <2> QED BY <2>5, <2>8, <2>9
<1> QED BY <1>1, <1>6, <1>7, <1>12, <1>14, <1>15, <1>16 DEF LineInv

\* A new frame, or none: nothing is parsed.
LEMMA NothingParsed ==
    ASSUME Len(frame) \in Nat, parsed = <<>>, nmeas = 1
    PROVE  LineInv
<1>1. Len(parsed) = 0
      OBVIOUS
<1>2. \A w \in WholeLines : ~(w < nmeas)
      BY DEF WholeLines, Dollars
<1> QED BY <1>1, <1>2 DEF LineInv

\* Every step of GPS_Parse and of the reader.
LEMMA NextLine ==
    ASSUME TablesInv, TablesInv', LineInv, [Next]_vars
    PROVE  LineInv'
<1>1. CASE ParseOneNmea
      BY <1>1, ParseOneLine
<1>2. CASE (\E f \in Frame : GPS_Parse(f)) \/ ParseEnd
  <2>1. parsed' = <<>> /\ nmeas' = 1
        BY <1>2 DEF GPS_Parse, ParseEnd
  <2>2. Len(frame') \in Nat
        BY DEF TablesInv
  <2>3. Len(parsed') = 0
        BY <2>1
  <2>4. \A w \in WholeLines' : ~(w < nmeas')
        BY <2>1, <2>2 DEF WholeLines, Dollars
  <2> QED BY <2>1, <2>3, <2>4 DEF LineInv
<1>3. CASE UNCHANGED <<frame, nmeas, parsed>>
      BY <1>3 DEF LineInv, WholeLines, AllLinesWhole, Dollars, CRLFs
<1>4. CASE ScanLatitude \/ ScanLongitude \/ MultiplyLatitude \/ MultiplyLongitude
  <2>1. UNCHANGED <<frame, nmeas, parsed>>
        BY <1>4 DEF ScanLatitude, ScanLongitude, MultiplyLatitude, MultiplyLongitude, RmcUnchanged
  <2> QED BY <1>3, <2>1
<1>5. CASE ReadLatitude \/ ReadLongitude \/ UNCHANGED vars
  <2>1. UNCHANGED <<frame, nmeas, parsed>>
        BY <1>5 DEF ReadLatitude, ReadLongitude, ReadUnchanged, vars, history
  <2> QED BY <1>3, <2>1
<1> QED BY <1>1, <1>2, <1>4, <1>5 DEF Next, ParseStep

\* At the end of a frame.
LEMMA LinesDone ==
    ASSUME TablesInv, LineInv
    PROVE  ParsesEveryLine
<1> SUFFICES ASSUME FrameDone
             PROVE  /\ WholeLines \subseteq {parsed[k] : k \in 1..Len(parsed)}
                    /\ \A k \in 2..Len(parsed) : parsed[k - 1] <= parsed[k]
                    /\ AllLinesWhole => Len(parsed) = Cardinality(WholeLines)
    BY DEF ParsesEveryLine
<1>1. /\ Len(frame) \in Nat /\ nmeas \in Nat /\ nmeas >= 1 /\ ~Found
      /\ parsed \in Seq(Nat) /\ Len(parsed) \in Nat /\ DOMAIN parsed = 1..Len(parsed)
      BY LenProperties DEF TablesInv, FrameDone
<1>2. ASSUME NEW w \in WholeLines PROVE \E k \in 1..Len(parsed) : parsed[k] = w
  <2>1. w \in Dollars(1) /\ CRLFs(w) # {}
        BY DEF WholeLines
  <2>2. ASSUME ~(w < nmeas) PROVE FALSE
    <3>1. w \in Dollars(nmeas)
          BY <1>1, <2>1, <2>2 DEF Dollars
    <3> QED BY <1>1, <2>1, <3>1, NotFoundLine
  <2> QED BY <2>2 DEF LineInv
<1>3. \A k \in 2..Len(parsed) : parsed[k - 1] <= parsed[k]
      BY DEF LineInv
<1>4. ASSUME AllLinesWhole PROVE Len(parsed) = Cardinality(WholeLines)
  <2>1. /\ \A k \in 1..Len(parsed) : parsed[k] \in WholeLines
        /\ \A k, l \in 1..Len(parsed) : k < l => parsed[k] < parsed[l]
        BY <1>4 DEF LineInv
  <2>2. parsed \in [1..Len(parsed) -> WholeLines]
    <3>1. parsed \in [1..Len(parsed) -> Nat]
          BY <1>1, LenProperties
    <3> QED BY <2>1, <3>1
  <2>3. ASSUME NEW k \in 1..Len(parsed), NEW l \in 1..Len(parsed), parsed[k] = parsed[l]
        PROVE  k = l
    <3>1. parsed[k] \in Nat /\ parsed[l] \in Nat
          BY <1>1, ElementOfSeq
    <3> QED BY <1>1, <2>1, <2>3, <3>1
  <2>4. parsed \in Bijection(1..Len(parsed), WholeLines)
        BY <1>2, <2>2, <2>3 DEF Bijection, Injection, Surjection, IsInjective
  <2>5. ExistsBijection(1..Len(parsed), WholeLines)
        BY <2>4 DEF ExistsBijection
  <2> QED BY <1>1, <2>5, FS_CountingElements
<1> QED BY <1>2, <1>3, <1>4

\* gps_parse.c:152: however the lengths of garbage and sentences fall, no line
\* of a frame is passed over, none is parsed after a later one, and without
\* garbage each is parsed once.
THEOREM EveryLineParsed == Spec => []ParsesEveryLine
<1>1. Init => LineInv
  <2>1. ASSUME Init PROVE Len(frame) \in Nat /\ parsed = <<>> /\ nmeas = 1
        BY <2>1 DEF Init
  <2> QED BY <2>1, NothingParsed
<1>2. TablesInv /\ TablesInv' /\ LineInv /\ [Next]_vars => LineInv'
      BY NextLine
<1>3. TablesInv /\ LineInv => ParsesEveryLine
      BY LinesDone
<1> QED BY <1>1, <1>2, <1>3, TablesInvariant, PTL DEF Spec

-----------------------------------------------------------------------------
(* The position *)

\* What g_gps_info.rmc holds while a sentence is stored, and what the reader
\* has read of it.
PositionInv ==
    /\ rmc = <<rmc[1], rmc[2]>>
    /\ mpc = "longitude" => rmc[1] = frame[line].s.lat
    /\ mpc = "north" => rmc[1] = frame[line].s.lat /\ rmc[2] = frame[line].s.lon
    /\ mpc = "east" => /\ rmc[1] = frame[line].s.lat * frame[line].s.ns
                       /\ rmc[2] = frame[line].s.lon
    /\ ~spoilt => rmc = reported /\ mpc \notin {"longitude", "north", "east"}
    /\ rpc = "latitude" /\ ~overlap => read = rmc[1]

\* One coordinate stored leaves the other.
LEMMA PairUpdate ==
    ASSUME NEW p, p = <<p[1], p[2]>>, NEW v
    PROVE  [p EXCEPT ![1] = v] = <<v, p[2]>> /\ [p EXCEPT ![2] = v] = <<p[1], v>>
<1> DEFINE q == <<p[1], p[2]>>
<1>1. [q EXCEPT ![1] = v] = <<v, p[2]>> /\ [q EXCEPT ![2] = v] = <<p[1], v>>
      OBVIOUS
<1> QED BY <1>1

\* Every step of the scan and of the reader.
LEMMA NextPosition ==
    ASSUME PositionInv, [Next]_vars
    PROVE  PositionInv'
<1> USE DEF PositionInv, MainStep
<1>1. CASE \E f \in Frame : GPS_Parse(f)
      BY <1>1 DEF GPS_Parse, reader
<1>2. CASE ParseOneNmea
      BY <1>2 DEF ParseOneNmea, reader
<1>3. CASE ParseEnd
      BY <1>3 DEF ParseEnd, reader
<1>4. CASE ScanLatitude
  <2>1. rmc' = <<frame[line].s.lat, rmc[2]>>
        BY <1>4, PairUpdate DEF ScanLatitude
  <2>2. /\ rmc' = <<rmc'[1], rmc'[2]>>
        /\ rmc'[1] = frame[line].s.lat /\ rmc'[2] = rmc[2]
        BY <2>1
  <2>3. ~(rpc' = "latitude" /\ ~overlap')
        BY <1>4 DEF ScanLatitude, RmcUnchanged, reader
  <2>4. spoilt' /\ mpc' \in {"parse", "longitude"} /\ frame' = frame
        BY <1>4 DEF ScanLatitude, RmcUnchanged
  <2>5. mpc' = "longitude" => line' = line
        BY <1>4 DEF ScanLatitude, RmcUnchanged
  <2> QED BY <1>4, <2>2, <2>3, <2>4, <2>5
<1>5. CASE ScanLongitude
  <2>1. rmc' = <<rmc[1], frame[line].s.lon>>
        BY <1>5, PairUpdate DEF ScanLongitude
  <2>2. /\ rmc' = <<rmc'[1], rmc'[2]>>
        /\ rmc'[1] = rmc[1] /\ rmc'[2] = frame[line].s.lon
        BY <2>1
  <2>3. ~(rpc' = "latitude" /\ ~overlap')
        BY <1>5 DEF ScanLongitude, RmcUnchanged, reader
  <2>4. spoilt' /\ UNCHANGED <<line, frame>>
        BY <1>5 DEF ScanLongitude, RmcUnchanged
  <2> QED BY <1>5, <2>2, <2>3, <2>4 DEF ScanLongitude
<1>6. CASE MultiplyLatitude
  <2>1. rmc' = <<rmc[1] * frame[line].s.ns, rmc[2]>>
        BY <1>6, PairUpdate DEF MultiplyLatitude
  <2>2. /\ rmc' = <<rmc'[1], rmc'[2]>>
        /\ rmc'[1] = rmc[1] * frame[line].s.ns /\ rmc'[2] = rmc[2]
        BY <2>1
  <2>3. ~(rpc' = "latitude" /\ ~overlap')
        BY <1>6 DEF MultiplyLatitude, RmcUnchanged, reader
  <2>4. spoilt' /\ UNCHANGED <<line, frame>>
        BY <1>6 DEF MultiplyLatitude, RmcUnchanged
  <2> QED BY <1>6, <2>2, <2>3, <2>4 DEF MultiplyLatitude
<1>7. CASE MultiplyLongitude
  <2>1. rmc' = <<rmc[1], rmc[2] * frame[line].s.ew>>
        BY <1>7, PairUpdate DEF MultiplyLongitude
  <2>2. /\ rmc' = <<rmc'[1], rmc'[2]>>
        /\ rmc'[1] = rmc[1] /\ rmc'[2] = rmc[2] * frame[line].s.ew
        BY <2>1
  <2>3. ~(rpc' = "latitude" /\ ~overlap')
        BY <1>7 DEF MultiplyLongitude, RmcUnchanged, reader
  <2>4. rmc' = reported' /\ mpc' = "parse"
        BY <1>7, <2>1 DEF MultiplyLongitude
  <2> QED BY <1>7, <2>2, <2>3, <2>4
<1>8. CASE ReadLatitude \/ ReadLongitude
      BY <1>8 DEF ReadLatitude, ReadLongitude, ReadUnchanged, history
<1>9. CASE UNCHANGED vars
      BY <1>9 DEF vars, reader, history
<1> QED BY <1>1, <1>2, <1>3, <1>4, <1>5, <1>6, <1>7, <1>8, <1>9 DEF Next, ParseStep

\* app.c:868-871: a position read while no RMC sentence is being stored is,
\* with its signs, the one the last whole RMC sentence reported, unless a
\* sentence without a checksum has overwritten its latitude.
THEOREM ReadIsReported == Spec => ReadsReported
<1>1. Init => PositionInv
      BY DEF Init, PositionInv
<1>2. PositionInv /\ [Next]_vars => PositionInv'
      BY NextPosition
<1>3. PositionInv /\ [Next]_vars =>
         [ReadLongitude /\ ~overlap /\ ~spoilt => <<read, rmc[2]>> = reported]_vars
      BY DEF PositionInv, ReadLongitude
<1> QED BY <1>1, <1>2, <1>3, PTL DEF Spec, ReadsReported
=============================================================================
