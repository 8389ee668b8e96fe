-------------------------- MODULE GpsCommandProofs --------------------------
(***************************************************************************)
(* Proofs about GpsCommand, for every set of requests and every bound.     *)
(***************************************************************************)
EXTENDS GpsCommand, SequenceTheorems, WellFoundedInduction, TLAPS

-----------------------------------------------------------------------------
(* The operators of GPS_Update *)

\* A non-empty set of naturals has a first element, so the position that
\* Buffer_Query returns is one of the positions it looks for.
LEMMA FirstLemma ==
    ASSUME NEW S, S \subseteq Nat, S # {}
    PROVE  First(S) \in S /\ \A j \in S : First(S) <= j
<1> DEFINE R == {p \in Nat \X Nat : p[1] < p[2]}
<1>1. IsWellFoundedOn(R, Nat)
      BY NatLessThanWellFounded, Zenon DEF OpToRel
<1>2. PICK i \in S : \A j \in S : ~(<<j, i>> \in R)
      BY <1>1, WFMin, Zenon
<1>3. \A j \in S : ~(j < i)
  <2> SUFFICES ASSUME NEW j \in S, j < i PROVE FALSE
      OBVIOUS
  <2>1. <<j, i>> \in R
        BY SMT
  <2> QED BY <2>1, <1>2, Zenon
<1>4. \A j \in S : i <= j
      BY <1>3, SMT
<1> QED BY <1>4, Zenon DEF First

\* The positions a query looks at lie inside the queue.
LEMMA PositionsLemma ==
    ASSUME NEW T, NEW s \in Seq(T), NEW starts, NEW fmt
    PROVE  /\ Acks(fmt, s) \subseteq Nat
           /\ Ends(starts, s) \subseteq 1..Len(s)
           /\ Ends(starts, s) # {} => First(Ends(starts, s)) \in Ends(starts, s)
<1>1. Len(s) \in Nat
      OBVIOUS
<1>2. Acks(fmt, s) \subseteq Nat
      BY <1>1 DEF Acks
<1>3. Ends(starts, s) \subseteq 1..Len(s)
      BY <1>1 DEF Ends, CRLFs
<1>4. Ends(starts, s) \subseteq Nat
      BY <1>1, <1>3
<1> QED BY <1>2, <1>3, <1>4, FirstLemma

\* What Buffer_Gets takes and what it leaves.
LEMMA SplitLemma ==
    ASSUME NEW T, NEW s \in Seq(T), NEW k \in Nat, k <= Len(s)
    PROVE  /\ SubSeq(s, 1, k) \in Seq(T) /\ Len(SubSeq(s, 1, k)) = k
           /\ SubSeq(s, k + 1, Len(s)) \in Seq(T)
           /\ Len(SubSeq(s, k + 1, Len(s))) = Len(s) - k
<1>1. Len(s) \in Nat /\ \A i \in 1..Len(s) : s[i] \in T
      BY LenProperties, ElementOfSeq
<1>2. \A i \in 1..k : s[i] \in T
      BY <1>1
<1>3. \A i \in (k + 1)..Len(s) : s[i] \in T
      BY <1>1
<1>4. SubSeq(s, 1, k) \in Seq(T) /\ Len(SubSeq(s, 1, k)) = k
      BY <1>1, <1>2, SubSeqProperties
<1>5. /\ SubSeq(s, k + 1, Len(s)) \in Seq(T)
      /\ Len(SubSeq(s, k + 1, Len(s))) = Len(s) - k
      BY <1>1, <1>3, SubSeqProperties
<1> QED BY <1>4, <1>5

\* The length GPS_Update passes to Buffer_Gets.
LEMMA NeedLemma ==
    ASSUME NEW s \in Seq(Token), Len(s) <= Capacity, NEW starts, Ends(starts, s) # {}
    PROVE  LET need_ == Shorter(First(Ends(starts, s)), FrameLength)
           IN  need_ \in 0..Shorter(Capacity, FrameLength) /\ need_ <= Len(s)
<1>1. Len(s) \in Nat /\ Capacity \in Nat /\ FrameLength \in Nat
      BY GpsCommandAssumption
<1>2. First(Ends(starts, s)) \in 1..Len(s)
      BY PositionsLemma
<1> QED BY <1>1, <1>2 DEF Shorter

\* The message of an acknowledgement found in tmp.
LEMMA MessageLemma ==
    ASSUME tmp \in Seq(Token), Index0(header, tmp) # {}
    PROVE  Message \in Ack
<1> DEFINE h == First(Index0(header, tmp))
<1>1. h \in Acks(header, tmp)
      BY PositionsLemma, FirstLemma DEF Index0
<1>2. h \in 1..Len(tmp) /\ tmp[h].k = "ack"
      BY <1>1 DEF Acks
<1>3. tmp[h] \in Token
      BY <1>2, ElementOfSeq
<1>4. tmp[h].msg \in Ack
      BY <1>2, <1>3 DEF Token
<1> DEFINE whole == tmp[h].crlf \/ (h < Len(tmp) /\ tmp[h + 1].k = "tail")
<1>5. (tmp[h].msg.good /\ whole) \in BOOLEAN
      OBVIOUS
<1>6. \A m \in Ack, b \in BOOLEAN : [m EXCEPT !.good = b] \in Ack
      BY DEF Ack
<1>7. Message = [tmp[h].msg EXCEPT !.good = tmp[h].msg.good /\ whole]
      BY DEF Message
<1> QED BY <1>4, <1>5, <1>6, <1>7

-----------------------------------------------------------------------------
(* Type correctness *)

\* The statics of gps.c start with values of their types.
LEMMA InitTypeOK == Init => TypeOK
<1> SUFFICES ASSUME Init PROVE TypeOK
    OBVIOUS
<1>1. <<>> \in Seq(Token) /\ <<>> \in Seq(Pending) /\ Len(<<>>) = 0
      BY EmptySeq
<1>2. /\ Capacity \in Nat /\ FrameLength \in Nat
      /\ MaxRx \in Nat /\ MaxReq \in Nat
      BY GpsCommandAssumption
<1>3. 0 \in 0..Shorter(Capacity, FrameLength)
      BY <1>2 DEF Shorter
<1>4. Failed \in [ret : BOOLEAN, ackNo : 0..MaxReq]
      BY <1>2 DEF Failed
<1>5. result \in [ret : BOOLEAN, ackNo : 0..MaxReq]
      BY <1>4 DEF Init
<1>6. /\ gpsNmeaBuffer \in Seq(Token) /\ Len(gpsNmeaBuffer) <= Capacity
      /\ tmp \in Seq(Token) /\ Len(tmp) <= FrameLength
      /\ chipIn \in Seq(Pending) /\ rx \in Seq(Token) /\ Len(rx) <= MaxRx
      BY <1>1, <1>2 DEF Init
<1>7. /\ semCmdSending \in 0..MaxReq /\ n \in 0..MaxReq /\ semCount \in Nat
      /\ need \in 0..Shorter(Capacity, FrameLength)
      BY <1>2, <1>3 DEF Init, NULL
<1> QED BY <1>5, <1>6, <1>7 DEF Init, TypeOK, MainPc, GpsPc, Format

\* The steps of the gps task.
LEMMA GpsTypeOK ==
    ASSUME TypeOK, (\E r \in Request : SendBegin(r)) \/ GpsCall
    PROVE  TypeOK'
<1> USE DEF GpsStep, Continue, Yield, osVars, timerVars, mainVars, gpsVars, chipVars
<1>1. MaxReq \in Nat
      BY GpsCommandAssumption
<1>2. CASE \E r \in Request : SendBegin(r)
  <2>1. Failed \in [ret : BOOLEAN, ackNo : 0..MaxReq]
        BY <1>1 DEF Failed
  <2>2. PICK r \in Request : SendBegin(r)
        BY <1>2
  <2>3. result' \in [ret : BOOLEAN, ackNo : 0..MaxReq]
        BY <2>1, <2>2 DEF SendBegin
  <2>4. n' \in 0..MaxReq /\ req' \in Request
        BY <1>1, <2>2 DEF SendBegin, TypeOK
  <2> QED BY <2>2, <2>3, <2>4 DEF SendBegin, TypeOK, GpsPc
<1>3. CASE SendCreate
      BY <1>1, <1>3 DEF SendCreate, TypeOK, GpsPc
<1>4. CASE SendClear
      BY <1>4, GpsCommandAssumption, EmptySeq DEF SendClear, TypeOK, GpsPc
<1>5. CASE SendWrite
  <2>1. [no |-> n, req |-> req] \in Pending
        BY DEF Pending, TypeOK
  <2> QED BY <1>5, <2>1 DEF SendWrite, TypeOK, GpsPc
<1>6. CASE SendArm
      BY <1>6 DEF SendArm, TypeOK, GpsPc
<1>7. CASE SendWait
      BY <1>7 DEF SendWait, TypeOK, GpsPc
<1>8. CASE SendDelete
      BY <1>8 DEF SendDelete, TypeOK, GpsPc
<1>9. CASE SendNull
      BY <1>9, <1>1 DEF SendNull, NULL, TypeOK, GpsPc
<1>10. CASE SendCheckTimeOut
      BY <1>10 DEF SendCheckTimeOut, TypeOK, GpsPc
<1>11. CASE SendStop
  <2>1. callbacks' \in Nat
        BY <1>11 DEF SendStop, TypeOK
  <2>2. stale' \in BOOLEAN
        BY <1>11, Zenon DEF SendStop
  <2> QED BY <1>11, <2>1, <2>2 DEF SendStop, TypeOK, GpsPc
<1>12. CASE SendInspect
  <2>1. CASE gpsAckMsg = NoMsg
        BY <1>12, <2>1 DEF SendInspect, TypeOK, GpsPc
  <2>2. CASE gpsAckMsg # NoMsg
    <3>1. gpsAckMsg.no \in 0..MaxReq
          BY <2>2, <1>1 DEF TypeOK, Ack
    <3>2. AckAccepted(gpsAckMsg, req) \in BOOLEAN
          BY DEF AckAccepted
    <3>3. result' \in [ret : BOOLEAN, ackNo : 0..MaxReq]
          BY <1>12, <2>2, <3>1, <3>2 DEF SendInspect
    <3> QED BY <1>12, <2>2, <3>3 DEF SendInspect, TypeOK, GpsPc
  <2> QED BY <2>1, <2>2
<1>13. CASE SendFree
      BY <1>13 DEF SendFree, TypeOK, GpsPc
<1> QED BY <1>2, <1>3, <1>4, <1>5, <1>6, <1>7, <1>8, <1>9, <1>10, <1>11,
           <1>12, <1>13 DEF GpsCall

\* The steps of the main task.
LEMMA MainTypeOK ==
    ASSUME TypeOK, (\E k \in 1..MaxChunk : UpdatePuts(k)) \/ TimerExpires
               \/ OnCmdAckFail \/ MainCall
    PROVE  TypeOK'
<1> USE DEF MainStep, Continue, Yield, osVars, timerVars, gpsVars, chipVars
<1>1. /\ Capacity \in Nat /\ FrameLength \in Nat
      /\ MaxChunk \in Nat /\ MaxRx \in Nat /\ Shorter(Capacity, FrameLength) \in Nat
      /\ Shorter(Capacity, FrameLength) <= FrameLength
      BY GpsCommandAssumption DEF Shorter
<1>2. CASE \E k \in 1..MaxChunk : UpdatePuts(k)
  <2>1. PICK k \in 1..MaxChunk : UpdatePuts(k)
        BY <1>2
  <2>2. k \in Nat /\ k <= Len(rx) /\ rx \in Seq(Token) /\ Len(rx) \in Nat
        BY <2>1, <1>1 DEF UpdatePuts, Shorter, TypeOK
  <2>3. /\ rx' \in Seq(Token) /\ Len(rx') <= MaxRx
    <3>1. /\ SubSeq(rx, k + 1, Len(rx)) \in Seq(Token)
          /\ Len(SubSeq(rx, k + 1, Len(rx))) = Len(rx) - k
          BY <2>2, SplitLemma
    <3>2. rx' = SubSeq(rx, k + 1, Len(rx))
          BY <2>1 DEF UpdatePuts
    <3> QED BY <2>2, <3>1, <3>2, <1>1 DEF TypeOK
  <2>4. /\ gpsNmeaBuffer' \in Seq(Token) /\ Len(gpsNmeaBuffer') <= Capacity
    <3>1. SubSeq(rx, 1, k) \in Seq(Token) /\ Len(SubSeq(rx, 1, k)) = k
          BY <2>2, SplitLemma
    <3> QED BY <2>1, <3>1, ConcatProperties DEF UpdatePuts, TypeOK
  <2> QED BY <2>1, <2>3, <2>4 DEF UpdatePuts, TypeOK, MainPc
<1>3. CASE TimerExpires \/ OnCmdAckFail
  <2>0. callbacks \in Nat /\ timerArmed \in BOOLEAN
        BY DEF TypeOK
  <2>1. callbacks' \in Nat
        BY <1>3, <2>0 DEF TimerExpires, OnCmdAckFail
  <2> QED BY <1>3, <2>0, <2>1 DEF TimerExpires, OnCmdAckFail, mainVars, TypeOK, MainPc
<1>4. CASE UpdateBranch
      BY <1>4 DEF UpdateBranch, TypeOK, MainPc
<1>5. CASE FrameLoop
  <2>1. need' \in 0..Shorter(Capacity, FrameLength)
        BY <1>5, NeedLemma DEF FrameLoop, TypeOK
  <2> QED BY <1>5, <2>1 DEF FrameLoop, TypeOK, MainPc
<1>6. ASSUME NEW from, NEW to \in MainPc, Gets(from, to), UNCHANGED header
      PROVE  /\ mpc' \in MainPc /\ need' \in 0..Shorter(Capacity, FrameLength)
             /\ gpsNmeaBuffer' \in Seq(Token) /\ Len(gpsNmeaBuffer') <= Capacity
             /\ tmp' \in Seq(Token) /\ Len(tmp') <= FrameLength
             /\ running' \in {"none", "main", "gps"}
  <2>1. need' \in 0..Shorter(Capacity, FrameLength)
        BY <1>1, <1>6 DEF Gets
  <2>2. mpc' \in MainPc /\ running' \in {"none", "main", "gps"}
        BY <1>6 DEF Gets, MainPc
  <2>3. CASE Len(gpsNmeaBuffer) < need
        BY <1>6, <2>1, <2>2, <2>3 DEF Gets, TypeOK
  <2>4. CASE Len(gpsNmeaBuffer) >= need
    <3>1. need \in Nat /\ need <= FrameLength /\ Len(gpsNmeaBuffer) \in Nat
          BY <1>1 DEF TypeOK
    <3>2. /\ SubSeq(gpsNmeaBuffer, 1, need) \in Seq(Token)
          /\ Len(SubSeq(gpsNmeaBuffer, 1, need)) = need
          /\ SubSeq(gpsNmeaBuffer, need + 1, Len(gpsNmeaBuffer)) \in Seq(Token)
          /\ Len(SubSeq(gpsNmeaBuffer, need + 1, Len(gpsNmeaBuffer))) = Len(gpsNmeaBuffer) - need
          BY <2>4, <3>1, SplitLemma DEF TypeOK
    <3>3. ~(Len(gpsNmeaBuffer) < need)
          BY <2>4, <3>1
    <3>4. /\ tmp' = IF to = "checkSem" THEN SubSeq(gpsNmeaBuffer, 1, need) ELSE <<>>
          /\ gpsNmeaBuffer' = SubSeq(gpsNmeaBuffer, need + 1, Len(gpsNmeaBuffer))
          BY <1>6, <3>3 DEF Gets
    <3>5. gpsNmeaBuffer' \in Seq(Token) /\ Len(gpsNmeaBuffer') <= Capacity
          BY <3>1, <3>2, <3>4, <1>1 DEF TypeOK
    <3>6. tmp' \in Seq(Token) /\ Len(tmp') <= FrameLength
          BY <3>1, <3>2, <3>4, <1>1, EmptySeq
    <3> QED BY <2>1, <2>2, <3>5, <3>6
  <2> QED BY <2>3, <2>4, <1>1 DEF TypeOK
<1>7. CASE FrameTake
      BY <1>6, <1>7 DEF FrameTake, TypeOK, MainPc
<1>8. CASE AckSearch
  <2>1. need' \in 0..Shorter(Capacity, FrameLength)
        BY <1>8, NeedLemma DEF AckSearch, TypeOK
  <2> QED BY <1>8, <2>1 DEF AckSearch, HeaderFormat, Format, TypeOK, MainPc
<1>9. CASE AckTake
      BY <1>6, <1>9 DEF AckTake, TypeOK, MainPc
<1>10. CASE AckCheckSem
      BY <1>10, <1>1, EmptySeq DEF AckCheckSem, TypeOK, MainPc
<1>11. CASE AckAlloc
  <2>1. gpsAckMsg' \in Ack \cup {NoMsg}
        BY <1>11, MessageLemma DEF AckAlloc, TypeOK
  <2> QED BY <1>11, <2>1, <1>1, EmptySeq DEF AckAlloc, TypeOK, MainPc
<1>12. CASE AckRelease
      BY <1>12 DEF AckRelease, OS_ReleaseSemaphore, TypeOK, MainPc
<1>13. CASE OnCmdAckFailRelease
      BY <1>13 DEF OnCmdAckFailRelease, OS_ReleaseSemaphore, TypeOK, MainPc
<1> QED BY <1>2, <1>3, <1>4, <1>5, <1>7, <1>8, <1>9, <1>10, <1>11, <1>12, <1>13
        DEF MainCall

\* The steps of the chip.
LEMMA ChipTypeOK ==
    ASSUME TypeOK, ChipSentence \/ ChipAnswer \/ ChipIgnores
    PROVE  TypeOK'
<1> USE DEF chipUnchanged, osVars, timerVars, mainVars, gpsVars
<1>1. MaxRx \in Nat /\ MaxReq \in Nat
      BY GpsCommandAssumption
<1>2. ASSUME NEW tokens \in Seq(Token), Emit(tokens)
      PROVE  rx' \in Seq(Token) /\ Len(rx') <= MaxRx
      BY <1>2, ConcatProperties DEF Emit, TypeOK
<1>3. Tail_ \in Token
      BY DEF Tail_, Token
<1>4. CASE ChipSentence
  <2>1. \A kind \in {"line", "vtg"}, b \in BOOLEAN : [k |-> kind, crlf |-> b] \in Token
        BY DEF Token
  <2>2. rx' \in Seq(Token) /\ Len(rx') <= MaxRx
    <3>1. CASE \E kind \in {"line", "vtg"} : Emit(<<[k |-> kind, crlf |-> TRUE]>>)
      <4>1. PICK kind \in {"line", "vtg"} : Emit(<<[k |-> kind, crlf |-> TRUE]>>)
            BY <3>1
      <4>2. [k |-> kind, crlf |-> TRUE] \in Token
            BY <2>1
      <4>3. <<[k |-> kind, crlf |-> TRUE]>> \in Seq(Token)
            BY <4>2
      <4> QED BY <1>2, <4>1, <4>3
    <3>2. CASE Emit(<<[k |-> "vtg", crlf |-> FALSE], Tail_>>)
      <4>1. [k |-> "vtg", crlf |-> FALSE] \in Token
            BY <2>1
      <4>2. <<[k |-> "vtg", crlf |-> FALSE], Tail_>> \in Seq(Token)
            BY <4>1, <1>3
      <4> QED BY <1>2, <3>2, <4>2
    <3> QED BY <1>4, <3>1, <3>2 DEF ChipSentence
  <2> QED BY <1>4, <2>2 DEF ChipSentence, TypeOK
<1>5. ASSUME chipIn # <<>>
      PROVE  Head(chipIn) \in Pending /\ Tail(chipIn) \in Seq(Pending)
      BY <1>5, HeadTailProperties DEF TypeOK
<1>6. CASE ChipAnswer
  <2>1. Head(chipIn) \in Pending /\ chipIn' \in Seq(Pending)
        BY <1>5, <1>6 DEF ChipAnswer
  <2>2. PICK res \in {"ok", "fail"}, good \in BOOLEAN, cut \in BOOLEAN :
          /\ LET msg == [no |-> Head(chipIn).no, req |-> Head(chipIn).req,
                         res |-> res, good |-> good]
                 ack == [k |-> "ack", crlf |-> ~cut, msg |-> msg]
             IN  Emit(IF cut THEN <<ack, Tail_>> ELSE <<ack>>)
          /\ executed' = IF res = "ok" THEN executed \cup {Head(chipIn).req} ELSE executed
        BY <1>6 DEF ChipAnswer
  <2> DEFINE msg == [no |-> Head(chipIn).no, req |-> Head(chipIn).req,
                     res |-> res, good |-> good]
             ack == [k |-> "ack", crlf |-> ~cut, msg |-> msg]
  <2>3. msg \in Ack
        BY <2>1 DEF Pending, Ack
  <2>4. ack \in Token
    <3> HIDE DEF msg
    <3>1. (~cut) \in BOOLEAN
          BY Zenon
    <3> QED BY <2>3, <3>1 DEF Token
  <2>5. rx' \in Seq(Token) /\ Len(rx') <= MaxRx
    <3> HIDE DEF ack
    <3>1. <<ack, Tail_>> \in Seq(Token) /\ <<ack>> \in Seq(Token)
          BY <2>4, <1>3
    <3>2. Emit(<<ack, Tail_>>) \/ Emit(<<ack>>)
          BY <2>2 DEF ack
    <3> QED BY <1>2, <3>1, <3>2
  <2>6. executed' \subseteq Request
        BY <2>1, <2>2 DEF Pending, TypeOK
  <2> QED BY <1>6, <2>1, <2>5, <2>6 DEF ChipAnswer, TypeOK
<1>7. CASE ChipIgnores
      BY <1>5, <1>7 DEF ChipIgnores, TypeOK
<1> QED BY <1>4, <1>6, <1>7

\* Every step of GPS_Update, of a command and of the chip keeps the types.
LEMMA NextTypeOK == TypeOK /\ [Next]_vars => TypeOK'
<1> SUFFICES ASSUME TypeOK, [Next]_vars PROVE TypeOK'
    OBVIOUS
<1>1. CASE UNCHANGED vars
      BY <1>1 DEF vars, osVars, timerVars, mainVars, gpsVars, chipVars, TypeOK
<1>2. CASE Next
      BY <1>2, GpsTypeOK, MainTypeOK, ChipTypeOK DEF Next
<1> QED BY <1>1, <1>2

\* The driver of gps.c keeps its types whatever the tasks, the chip and the
\* scheduler do: no queue outgrows its array, no frame outgrows tmp.
THEOREM GpsTypeCorrect == Spec => []TypeOK
BY InitTypeOK, NextTypeOK, PTL DEF Spec

-----------------------------------------------------------------------------
(* The timer *)

\* TimerScoped alone is not inductive: the time-out path returns without
\* stopping the timer, which is right because isCmdSendTimeOut is true only
\* when the timer has expired and its one callback has begun.
TimerInv ==
    ~stale =>
        /\ TimerScoped
        /\ timerArmed \/ callbacks > 0 => ~isCmdSendTimeOut
        /\ callbacks > 0 => callbacks = 1 /\ ~timerArmed
        /\ gpc \in {"create", "clear", "send", "arm"} => ~isCmdSendTimeOut

\* No step arms, fires or forgets the timer outside a command.
LEMMA NextTimerInv == TypeOK /\ TimerInv /\ [Next]_vars => TimerInv'
<1> SUFFICES ASSUME TypeOK, TimerInv, [Next]_vars PROVE TimerInv'
    OBVIOUS
<1> USE DEF TimerInv, TimerScoped, GpsStep, MainStep, osVars, timerVars, mainVars, gpsVars
<1>1. CASE UNCHANGED vars
      BY <1>1 DEF vars
<1>2. CASE \E r \in Request : SendBegin(r)
      BY <1>2 DEF SendBegin
<1>3. CASE \E k \in 1..MaxChunk : UpdatePuts(k)
      BY <1>3 DEF UpdatePuts
<1>4. CASE SendCreate
      BY <1>4 DEF SendCreate
<1>5. CASE SendClear
      BY <1>5 DEF SendClear
<1>6. CASE SendWrite
      BY <1>6 DEF SendWrite
<1>7. CASE SendArm
      BY <1>7 DEF SendArm
<1>8. CASE SendWait
      BY <1>8 DEF SendWait
<1>9. CASE SendDelete
      BY <1>9 DEF SendDelete
<1>10. CASE SendNull
      BY <1>10 DEF SendNull
<1>11. CASE SendCheckTimeOut
      BY <1>11 DEF SendCheckTimeOut
<1>12. CASE SendStop
      BY <1>12 DEF SendStop
<1>13. CASE SendInspect
      BY <1>13 DEF SendInspect
<1>14. CASE SendFree
      BY <1>14 DEF SendFree
<1>15. CASE OnCmdAckFail
      BY <1>15 DEF OnCmdAckFail
<1>16. CASE UpdateBranch
      BY <1>16 DEF UpdateBranch
<1>17. CASE FrameLoop
      BY <1>17 DEF FrameLoop
<1>18. CASE FrameTake
      BY <1>18 DEF FrameTake, Gets
<1>19. CASE AckSearch
      BY <1>19 DEF AckSearch
<1>20. CASE AckTake
      BY <1>20 DEF AckTake, Gets
<1>21. CASE AckCheckSem
      BY <1>21 DEF AckCheckSem
<1>22. CASE AckAlloc
      BY <1>22 DEF AckAlloc
<1>23. CASE AckRelease
      BY <1>23 DEF AckRelease, OS_ReleaseSemaphore
<1>24. CASE OnCmdAckFailRelease
      BY <1>24 DEF OnCmdAckFailRelease, OS_ReleaseSemaphore
<1>25. CASE ChipSentence
      BY <1>25 DEF ChipSentence, chipUnchanged
<1>26. CASE ChipAnswer
      BY <1>26 DEF ChipAnswer, chipUnchanged
<1>27. CASE ChipIgnores
      BY <1>27 DEF ChipIgnores, chipUnchanged
<1>28. CASE TimerExpires
  <2>1. callbacks \in Nat
        BY DEF TypeOK
  <2> QED BY <1>28, <2>1 DEF TimerExpires
<1> QED BY <1>1, <1>2, <1>3, <1>4, <1>5, <1>6, <1>7, <1>8, <1>9, <1>10,
           <1>11, <1>12, <1>13, <1>14, <1>15, <1>16, <1>17, <1>18, <1>19,
           <1>20, <1>21, <1>22, <1>23, <1>24, <1>25, <1>26, <1>27, <1>28
        DEF Next, GpsCall, MainCall

\* For every scheduler, the timer of a command of gps.c and the callback it
\* queues are over before the function returns, until one callback outlives its
\* timer.
THEOREM TimerIsScoped == Spec => []TimerScoped
<1>1. Init => TimerInv
      BY DEF Init, TimerInv, TimerScoped
<1>2. TypeOK /\ TimerInv /\ [Next]_vars => TimerInv'
      BY NextTimerInv
<1>3. TimerInv => TimerScoped
      BY DEF TimerInv, TimerScoped
<1> QED BY <1>1, <1>2, <1>3, GpsTypeCorrect, PTL DEF Spec

-----------------------------------------------------------------------------
(* Two tasks that only switch when one blocks *)

\* Who runs, and what the semaphore is at each place of the gps task.
CoopInv ==
    /\ running = "main" <=> mpc # "idle"
    /\ running = "gps" <=> gpc \notin {"idle", "arm", "wait"}
    /\ gpc # "idle" => n > 0
    /\ semLive <=> gpc \in {"clear", "send", "arm", "wait", "delete"}
    /\ semCmdSending # NULL <=> gpc \in {"clear", "send", "arm", "wait", "delete", "null"}
    /\ mpc \in {"search", "takeAck", "checkSem", "alloc", "release"} => gpc \in {"arm", "wait"}
    /\ gpc \in {"clear", "send", "arm", "wait", "delete", "null"} => semCmdSending = n
    /\ mpc = "ackFail" /\ ~stale => gpc = "wait"
    /\ gpc \in {"idle", "create"} => gpsAckMsg = NoMsg

\* Without preemption no step of one task changes what the other relies on.
LEMMA NextCoopInv ==
    ASSUME ~Preemptive, TypeOK, TimerInv, CoopInv, [Next]_vars
    PROVE  CoopInv'
<1> USE DEF CoopInv, GpsStep, MainStep, MayRun, Continue, Yield, osVars, timerVars, mainVars, gpsVars
<1>1. CASE UNCHANGED vars
      BY <1>1 DEF vars
<1>2. CASE \E r \in Request : SendBegin(r)
      BY <1>2 DEF SendBegin, TypeOK
<1>3. CASE \E k \in 1..MaxChunk : UpdatePuts(k)
      BY <1>3 DEF UpdatePuts
<1>4. CASE SendCreate
      BY <1>4 DEF SendCreate, NULL, TypeOK
<1>5. CASE SendClear
      BY <1>5 DEF SendClear
<1>6. CASE SendWrite
      BY <1>6 DEF SendWrite
<1>7. CASE SendArm
      BY <1>7 DEF SendArm
<1>8. CASE SendWait
      BY <1>8 DEF SendWait
<1>9. CASE SendDelete
      BY <1>9 DEF SendDelete
<1>10. CASE SendNull
      BY <1>10 DEF SendNull, NULL
<1>11. CASE SendCheckTimeOut
      BY <1>11 DEF SendCheckTimeOut
<1>12. CASE SendStop
      BY <1>12 DEF SendStop
<1>13. CASE SendInspect
      BY <1>13 DEF SendInspect
<1>14. CASE SendFree
      BY <1>14 DEF SendFree
<1>15. CASE OnCmdAckFail
      BY <1>15 DEF OnCmdAckFail, TimerInv, TimerScoped
<1>16. CASE UpdateBranch
      BY <1>16 DEF UpdateBranch, NULL
<1>17. CASE FrameLoop
      BY <1>17 DEF FrameLoop
<1>18. CASE FrameTake
      BY <1>18 DEF FrameTake, Gets
<1>19. CASE AckSearch
      BY <1>19 DEF AckSearch
<1>20. CASE AckTake
      BY <1>20 DEF AckTake, Gets
<1>21. CASE AckCheckSem
      BY <1>21 DEF AckCheckSem
<1>22. CASE AckAlloc
      BY <1>22 DEF AckAlloc
<1>23. CASE AckRelease
      BY <1>23 DEF AckRelease, OS_ReleaseSemaphore
<1>24. CASE OnCmdAckFailRelease
      BY <1>24 DEF OnCmdAckFailRelease, OS_ReleaseSemaphore
<1>25. CASE ChipSentence
      BY <1>25 DEF ChipSentence, chipUnchanged
<1>26. CASE ChipAnswer
      BY <1>26 DEF ChipAnswer, chipUnchanged
<1>27. CASE ChipIgnores
      BY <1>27 DEF ChipIgnores, chipUnchanged
<1>28. CASE TimerExpires
      BY <1>28 DEF TimerExpires
<1> QED BY <1>1, <1>2, <1>3, <1>4, <1>5, <1>6, <1>7, <1>8, <1>9, <1>10,
           <1>11, <1>12, <1>13, <1>14, <1>15, <1>16, <1>17, <1>18, <1>19,
           <1>20, <1>21, <1>22, <1>23, <1>24, <1>25, <1>26, <1>27, <1>28
        DEF Next, GpsCall, MainCall

\* Before the first command there is no timer, no semaphore and no message.
LEMMA InitInvs == Init => TimerInv /\ CoopInv
BY DEF Init, TimerInv, TimerScoped, CoopInv, NULL

\* What CoopInv says of the two tasks of gps.c holds when they switch only
\* where one blocks.
LEMMA CoopInvariant ==
    ASSUME ~Preemptive
    PROVE  Spec => []CoopInv
<1>1. Init => TimerInv /\ CoopInv
      BY InitInvs
<1>2. TypeOK /\ TimerInv /\ CoopInv /\ [Next]_vars => TimerInv' /\ CoopInv'
      BY NextTimerInv, NextCoopInv
<1> QED BY <1>1, <1>2, GpsTypeCorrect, PTL DEF Spec

\* When the tasks switch only where one blocks, GPS_Update releases only the
\* semaphore of the command being sent, and OnCmdAckFail only that of the
\* command that waits and whose time-out it is, until a callback outlives its
\* timer.
THEOREM CooperativeSemaphore ==
    ASSUME ~Preemptive
    PROVE  Spec => []ReleaseOnLive
<1>1. CoopInv => ReleaseOnLive
      BY DEF CoopInv, ReleaseOnLive
<1> QED BY <1>1, CoopInvariant, PTL

\* When the tasks switch only where one blocks, no acknowledgement is left in
\* gpsAckMsg between two commands.
THEOREM CooperativeNoAckLeft ==
    ASSUME ~Preemptive
    PROVE  Spec => []NoAckOutsideCommand
<1>1. CoopInv => NoAckOutsideCommand
      BY DEF CoopInv, NoAckOutsideCommand
<1> QED BY <1>1, CoopInvariant, PTL

\* Whatever made the semaphore count: a message, or the time-out.
AckInv ==
    /\ semCount > 0 /\ gpc \in {"clear", "send", "arm", "wait"}
          => isCmdSendTimeOut \/ gpsAckMsg # NoMsg
    /\ gpc \in {"delete", "null", "checkTimeOut"} => isCmdSendTimeOut \/ gpsAckMsg # NoMsg
    /\ gpc \in {"stop", "inspect"} => gpsAckMsg # NoMsg
    /\ mpc = "release" => gpsAckMsg # NoMsg
    /\ mpc = "ackFail" => isCmdSendTimeOut
    /\ mpc = "takeAck" => /\ need <= Len(gpsNmeaBuffer) /\ header = "nmea"
                          /\ \E i \in Acks("nmea", gpsNmeaBuffer) : i <= need
    /\ mpc \in {"checkSem", "alloc"} => header = "nmea" /\ Acks("nmea", tmp) # {}

\* Under this condition GPS_Update finds in tmp the header it found in the
\* queue: every acknowledgement is an NMEA sentence and tmp holds the queue.
NmeaOnly == (\A r \in Request : r.fmt = "nmea") /\ Capacity <= FrameLength

\* The queue then holds no binary acknowledgement.
LEMMA NoBinary ==
    ASSUME NmeaOnly, NEW s \in Seq(Token)
    PROVE  Acks("binary", s) = {}
<1>1. ASSUME NEW i \in 1..Len(s), s[i].k = "ack" PROVE s[i].msg.req.fmt = "nmea"
  <2>1. s[i] \in Token
        BY ElementOfSeq
  <2>2. s[i].msg \in Ack
        BY <1>1, <2>1 DEF Token
  <2>3. s[i].msg.req \in Request
        BY <2>2 DEF Ack
  <2> QED BY <2>3 DEF NmeaOnly
<1> QED BY <1>1 DEF Acks

\* The semaphore is released only for a message or for the time-out.
LEMMA NextAckInv ==
    ASSUME ~Preemptive, ~MallocFails, NmeaOnly,
           TypeOK, CoopInv, AckInv, [Next]_vars
    PROVE  AckInv'
<1> USE DEF AckInv, CoopInv, GpsStep, MainStep, MayRun, Continue, Yield,
            osVars, timerVars, mainVars, gpsVars
<1>1. CASE UNCHANGED vars
      BY <1>1 DEF vars
<1>2. CASE \E r \in Request : SendBegin(r)
      BY <1>2 DEF SendBegin
<1>3. CASE \E k \in 1..MaxChunk : UpdatePuts(k)
      BY <1>3 DEF UpdatePuts
<1>4. CASE SendCreate
      BY <1>4 DEF SendCreate
<1>5. CASE SendClear
      BY <1>5 DEF SendClear
<1>6. CASE SendWrite
      BY <1>6 DEF SendWrite
<1>7. CASE SendArm
      BY <1>7 DEF SendArm
<1>8. CASE SendWait
      BY <1>8 DEF SendWait, TypeOK
<1>9. CASE SendDelete
      BY <1>9 DEF SendDelete
<1>10. CASE SendNull
      BY <1>10 DEF SendNull
<1>11. CASE SendCheckTimeOut
      BY <1>11 DEF SendCheckTimeOut
<1>12. CASE SendStop
      BY <1>12 DEF SendStop
<1>13. CASE SendInspect
      BY <1>13 DEF SendInspect
<1>14. CASE SendFree
      BY <1>14 DEF SendFree
<1>15. CASE OnCmdAckFail
      BY <1>15 DEF OnCmdAckFail
<1>16. CASE UpdateBranch
      BY <1>16 DEF UpdateBranch
<1>17. CASE FrameLoop
      BY <1>17 DEF FrameLoop
<1>18. CASE FrameTake
      BY <1>18 DEF FrameTake, Gets
<1>19. CASE AckSearch
  <2> DEFINE s == gpsNmeaBuffer  fmt == HeaderFormat(s)  crlf == Ends(Acks(fmt, s), s)
  <2>1. CASE crlf = {}
        BY <1>19, <2>1 DEF AckSearch
  <2>2. CASE crlf # {}
    <3>1. s \in Seq(Token) /\ Len(s) <= Capacity /\ Len(s) \in Nat
          BY DEF TypeOK
    <3>2. Acks(fmt, s) # {} /\ fmt = "nmea"
          BY <2>2, <3>1, NoBinary DEF Ends, HeaderFormat
    <3>3. First(Acks(fmt, s)) \in Acks(fmt, s)
          BY <3>1, <3>2, PositionsLemma, FirstLemma
    <3>4. First(crlf) \in crlf /\ First(crlf) \in 1..Len(s)
          BY <2>2, <3>1, PositionsLemma
    <3>5. First(Acks(fmt, s)) <= First(crlf)
          BY <3>4 DEF Ends
    <3>6. need' = First(crlf) /\ header' = "nmea" /\ mpc' = "takeAck"
      <4>1. need' = Shorter(First(crlf), FrameLength) /\ header' = fmt /\ mpc' = "takeAck"
            BY <1>19, <2>2 DEF AckSearch
      <4> QED BY <4>1, <3>1, <3>2, <3>4, GpsCommandAssumption DEF Shorter, NmeaOnly
    <3>7. UNCHANGED <<semCount, gpc, gpsAckMsg, isCmdSendTimeOut, gpsNmeaBuffer>>
          BY <1>19 DEF AckSearch
    <3>8. need' <= Len(gpsNmeaBuffer') /\ \E i \in Acks("nmea", gpsNmeaBuffer') : i <= need'
          BY <3>2, <3>3, <3>4, <3>5, <3>6, <3>7
    <3> QED BY <3>6, <3>7, <3>8
  <2> QED BY <2>1, <2>2
<1>20. CASE AckTake
  <2> DEFINE s == gpsNmeaBuffer
  <2>1. /\ mpc = "takeAck" /\ header' = header
        /\ UNCHANGED <<semCount, gpc, gpsAckMsg, isCmdSendTimeOut>>
        BY <1>20 DEF AckTake, Gets
  <2>2. /\ need \in Nat /\ need <= Len(s) /\ header = "nmea"
        /\ s \in Seq(Token) /\ Len(s) \in Nat
        BY <2>1, GpsCommandAssumption DEF TypeOK, Shorter
  <2>3. mpc' = "checkSem" /\ tmp' = SubSeq(s, 1, need)
        BY <1>20, <2>2 DEF AckTake, Gets
  <2>4. PICK i \in Acks("nmea", s) : i <= need
        BY <2>1
  <2>5. i \in 1..need /\ s[i].k = "ack" /\ s[i].msg.req.fmt = "nmea"
        BY <2>2, <2>4 DEF Acks
  <2>6. \A j \in 1..need : s[j] \in Token
        BY <2>2, ElementOfSeq
  <2>7. Len(tmp') = need /\ tmp'[i] = s[i]
        BY <2>2, <2>3, <2>5, <2>6, SubSeqProperties
  <2>8. i \in Acks("nmea", tmp')
        BY <2>5, <2>7 DEF Acks
  <2> QED BY <2>1, <2>2, <2>3, <2>8
<1>21. CASE AckCheckSem
      BY <1>21 DEF AckCheckSem, NULL
<1>22. CASE AckAlloc
  <2>1. mpc = "alloc" /\ header = "nmea" /\ tmp \in Seq(Token) /\ Acks("nmea", tmp) # {}
        BY <1>22 DEF AckAlloc, TypeOK
  <2>2. Index0(header, tmp) # {}
        BY <2>1, NoBinary DEF Index0
  <2>3. Message \in Ack
        BY <2>1, <2>2, MessageLemma
  <2>4. NoMsg \notin Ack
    <3>1. ASSUME NoMsg \in Ack PROVE FALSE
      <4>1. DOMAIN NoMsg = {"no", "req", "res", "good"}
            BY <3>1 DEF Ack
      <4>2. DOMAIN NoMsg = {"null"}
            BY DEF NoMsg
      <4> QED BY <4>1, <4>2
    <3> QED BY <3>1
  <2>5. gpsAckMsg' # NoMsg
        BY <1>22, <2>2, <2>3, <2>4 DEF AckAlloc
  <2>6. mpc' = "release" /\ UNCHANGED <<semCount, gpc, isCmdSendTimeOut>>
        BY <1>22, <2>2 DEF AckAlloc
  <2> QED BY <2>5, <2>6
<1>23. CASE AckRelease
      BY <1>23 DEF AckRelease, OS_ReleaseSemaphore
<1>24. CASE OnCmdAckFailRelease
      BY <1>24 DEF OnCmdAckFailRelease, OS_ReleaseSemaphore
<1>25. CASE ChipSentence
      BY <1>25 DEF ChipSentence, chipUnchanged
<1>26. CASE ChipAnswer
      BY <1>26 DEF ChipAnswer, chipUnchanged
<1>27. CASE ChipIgnores
      BY <1>27 DEF ChipIgnores, chipUnchanged
<1>28. CASE TimerExpires
      BY <1>28 DEF TimerExpires
<1> QED BY <1>1, <1>2, <1>3, <1>4, <1>5, <1>6, <1>7, <1>8, <1>9, <1>10,
           <1>11, <1>12, <1>13, <1>14, <1>15, <1>16, <1>17, <1>18, <1>19,
           <1>20, <1>21, <1>22, <1>23, <1>24, <1>25, <1>26, <1>27, <1>28
        DEF Next, GpsCall, MainCall

\* When the tasks switch only where one blocks, memory is not exhausted and
\* every acknowledgement is a sentence that fits tmp, GPS_SendCMDWaitAck never
\* reads through a null gpsAckMsg.
THEOREM CooperativeAckPresent ==
    ASSUME ~Preemptive, ~MallocFails, NmeaOnly
    PROVE  Spec => []AckPresent
<1>1. Init => TimerInv /\ CoopInv /\ AckInv
      BY InitInvs DEF Init, AckInv
<1>2. TypeOK /\ TimerInv /\ CoopInv /\ AckInv /\ [Next]_vars
         => TimerInv' /\ CoopInv' /\ AckInv'
      BY NextTimerInv, NextCoopInv, NextAckInv
<1>3. AckInv => AckPresent
      BY DEF AckInv, AckPresent
<1> QED BY <1>1, <1>2, <1>3, GpsTypeCorrect, PTL DEF Spec

-----------------------------------------------------------------------------
(* What the chip said *)

\* GPS_CMD_t of gps.h has one number for the GPD packs, one for the
\* version query, others for the rest; only a GPD pack has a pack number.
Numbering ==
    \E gpdId, versionId, noPack : \A r \in Request :
        /\ r.kind = "gpd" => r.id = gpdId /\ r.pack # noPack
        /\ r.kind = "version" => r.id = versionId /\ r.pack = noPack
        /\ r.kind = "normal" => r.id # gpdId /\ r.pack = noPack

\* An acknowledgement the driver would take for a success names a request
\* that the chip executed, wherever the acknowledgement is on its way.
Honest(m, E) == m.res = "ok" \/ m.req.kind = "version" => m.req \in E
HonestToken(E) == {t \in Token : t.k = "ack" => Honest(t.msg, E)}
HonestInv ==
    /\ rx \in Seq(HonestToken(executed))
    /\ gpsNmeaBuffer \in Seq(HonestToken(executed))
    /\ tmp \in Seq(HonestToken(executed))
    /\ gpsAckMsg # NoMsg => Honest(gpsAckMsg, executed)
    /\ TrueMeansExecuted

\* An acknowledgement accepted by GPS_AckCheck answers the same command, or
\* for a GPD pack the same pack.
LEMMA AcceptedLemma ==
    ASSUME Numbering, NEW a \in Ack, NEW r \in Request, NEW E,
           Honest(a, E), AckAccepted(a, r)
    PROVE  \E e \in E : e.kind = r.kind /\ e.id = r.id /\ e.pack = r.pack
<1>1. a.req \in Request /\ r.kind \in Kind /\ a.req.kind \in Kind
      BY GpsCommandAssumption DEF Ack
<1>2. PICK gpdId, versionId, noPack : \A q \in Request :
        /\ q.kind = "gpd" => q.id = gpdId /\ q.pack # noPack
        /\ q.kind = "version" => q.id = versionId /\ q.pack = noPack
        /\ q.kind = "normal" => q.id # gpdId /\ q.pack = noPack
      BY Zenon DEF Numbering
<1>3. a.req \in E
      BY DEF Honest, AckAccepted, NormalAck, VersionAck
<1>4. a.req.kind = r.kind /\ a.req.id = r.id /\ a.req.pack = r.pack
      BY <1>1, <1>2 DEF AckAccepted, NormalAck, VersionAck, Kind
<1> QED BY <1>3, <1>4

\* What the chip has executed stays executed.
LEMMA HonestMonotone ==
    ASSUME NEW E, NEW F, E \subseteq F, NEW s \in Seq(HonestToken(E))
    PROVE  s \in Seq(HonestToken(F))
<1>1. HonestToken(E) \subseteq HonestToken(F)
      BY DEF HonestToken, Honest
<1>2. Len(s) \in Nat /\ s \in [1..Len(s) -> HonestToken(E)]
      BY LenProperties
<1>3. s \in [1..Len(s) -> HonestToken(F)]
      BY <1>1, <1>2
<1> QED BY <1>2, <1>3, SeqDef

\* The message GPS_Update copies is the acknowledgement as the chip sent it,
\* but for the parity.
LEMMA HonestMessage ==
    ASSUME NEW E, tmp \in Seq(HonestToken(E)), Index0(header, tmp) # {}
    PROVE  Honest(Message, E)
<1> DEFINE h == First(Index0(header, tmp))
<1>1. h \in Acks(header, tmp)
      BY PositionsLemma, FirstLemma DEF Index0
<1>2. h \in 1..Len(tmp) /\ tmp[h].k = "ack"
      BY <1>1 DEF Acks
<1>3. tmp[h] \in HonestToken(E)
      BY <1>2, ElementOfSeq
<1>4. Honest(tmp[h].msg, E) /\ tmp[h].msg \in Ack
      BY <1>2, <1>3 DEF HonestToken, Token
<1> DEFINE whole == tmp[h].crlf \/ (h < Len(tmp) /\ tmp[h + 1].k = "tail")
<1>5. \A m \in Ack, b \in BOOLEAN :
        [m EXCEPT !.good = b].res = m.res /\ [m EXCEPT !.good = b].req = m.req
      BY DEF Ack
<1>6. Message = [tmp[h].msg EXCEPT !.good = tmp[h].msg.good /\ whole]
      BY DEF Message
<1>7. (tmp[h].msg.good /\ whole) \in BOOLEAN
      OBVIOUS
<1>8. Message.res = tmp[h].msg.res /\ Message.req = tmp[h].msg.req
      BY <1>4, <1>5, <1>6, <1>7
<1> QED BY <1>4, <1>8 DEF Honest

\* Buffer_Puts and Buffer_Gets move acknowledgements and change none.
LEMMA HonestMain ==
    ASSUME TypeOK, HonestInv,
           (\E k \in 1..MaxChunk : UpdatePuts(k)) \/ TimerExpires
               \/ OnCmdAckFail \/ MainCall
    PROVE  HonestInv'
<1> USE DEF osVars, timerVars, mainVars, gpsVars, chipVars
<1> DEFINE HT == HonestToken(executed)
<1>1. UNCHANGED <<executed, result, req>>
      BY DEF UpdatePuts, TimerExpires, OnCmdAckFail, MainCall, UpdateBranch, FrameLoop, FrameTake,
             AckSearch, AckTake, AckCheckSem, AckAlloc, AckRelease, OnCmdAckFailRelease
<1>2. TrueMeansExecuted'
      BY <1>1 DEF HonestInv, TrueMeansExecuted
<1>3. <<>> \in Seq(HT)
      BY EmptySeq
<1>4. CASE \E k \in 1..MaxChunk : UpdatePuts(k)
  <2>1. PICK k \in 1..MaxChunk : UpdatePuts(k)
        BY <1>4
  <2>2. k \in Nat /\ k <= Len(rx) /\ rx \in Seq(HT) /\ gpsNmeaBuffer \in Seq(HT)
        BY <2>1, GpsCommandAssumption DEF UpdatePuts, Shorter, HonestInv, TypeOK
  <2>3. SubSeq(rx, 1, k) \in Seq(HT) /\ SubSeq(rx, k + 1, Len(rx)) \in Seq(HT)
        BY <2>2, SplitLemma
  <2>4. rx' \in Seq(HT)
        BY <2>1, <2>3 DEF UpdatePuts
  <2>5. gpsNmeaBuffer' \in Seq(HT)
        BY <2>1, <2>2, <2>3, ConcatProperties DEF UpdatePuts
  <2>6. UNCHANGED <<tmp, gpsAckMsg>>
        BY <2>1 DEF UpdatePuts
  <2> QED BY <1>1, <1>2, <2>4, <2>5, <2>6 DEF HonestInv
<1>5. ASSUME NEW from, NEW to, Gets(from, to)
      PROVE  tmp' \in Seq(HT) /\ gpsNmeaBuffer' \in Seq(HT)
  <2>1. need \in Nat /\ gpsNmeaBuffer \in Seq(HT) /\ tmp \in Seq(HT) /\ Len(gpsNmeaBuffer) \in Nat
        BY GpsCommandAssumption DEF TypeOK, HonestInv, Shorter
  <2>2. CASE Len(gpsNmeaBuffer) < need
        BY <1>5, <2>1, <2>2 DEF Gets
  <2>3. CASE need <= Len(gpsNmeaBuffer)
    <3>1. /\ SubSeq(gpsNmeaBuffer, 1, need) \in Seq(HT)
          /\ SubSeq(gpsNmeaBuffer, need + 1, Len(gpsNmeaBuffer)) \in Seq(HT)
          BY <2>1, <2>3, SplitLemma
    <3> QED BY <1>3, <1>5, <2>1, <2>3, <3>1 DEF Gets
  <2> QED BY <2>1, <2>2, <2>3
<1>6. CASE FrameTake \/ AckTake
  <2>1. tmp' \in Seq(HT) /\ gpsNmeaBuffer' \in Seq(HT)
        BY <1>5, <1>6 DEF FrameTake, AckTake
  <2>2. UNCHANGED <<rx, gpsAckMsg>>
        BY <1>6 DEF FrameTake, AckTake
  <2> QED BY <1>1, <1>2, <2>1, <2>2 DEF HonestInv
<1>7. CASE AckCheckSem
      BY <1>1, <1>2, <1>3, <1>7 DEF AckCheckSem, HonestInv
<1>8. CASE AckAlloc
  <2>1. gpsAckMsg' # NoMsg => Honest(gpsAckMsg', executed)
        BY <1>8, HonestMessage DEF AckAlloc, HonestInv
  <2>2. tmp' = <<>> /\ UNCHANGED <<rx, gpsNmeaBuffer>>
        BY <1>8 DEF AckAlloc
  <2> QED BY <1>1, <1>2, <1>3, <2>1, <2>2 DEF HonestInv
<1>9. CASE \/ UpdateBranch \/ FrameLoop \/ AckSearch \/ AckRelease
           \/ TimerExpires \/ OnCmdAckFail \/ OnCmdAckFailRelease
  <2>1. UNCHANGED <<rx, gpsNmeaBuffer, tmp, gpsAckMsg>>
        BY <1>9 DEF UpdateBranch, FrameLoop, AckSearch, AckRelease,
                    TimerExpires, OnCmdAckFail, OnCmdAckFailRelease
  <2> QED BY <1>1, <1>2, <2>1 DEF HonestInv
<1> QED BY <1>4, <1>6, <1>7, <1>8, <1>9 DEF MainCall

\* The gps task looks at a message and forgets it.
LEMMA HonestGps ==
    ASSUME Numbering, TypeOK, HonestInv, (\E r \in Request : SendBegin(r)) \/ GpsCall
    PROVE  HonestInv'
<1> USE DEF osVars, timerVars, mainVars, chipVars
<1>1. UNCHANGED <<executed, rx, tmp>>
      BY DEF SendBegin, GpsCall, SendCreate, SendClear, SendWrite, SendArm, SendWait,
             SendDelete, SendNull, SendCheckTimeOut, SendStop, SendInspect, SendFree
<1>2. CASE \E r \in Request : SendBegin(r)
  <2>1. ~result'.ret /\ UNCHANGED <<gpsNmeaBuffer, gpsAckMsg>>
        BY <1>2 DEF SendBegin, Failed
  <2> QED BY <1>1, <2>1 DEF HonestInv, TrueMeansExecuted
<1>3. CASE SendClear
  <2>1. gpsNmeaBuffer' = <<>> /\ UNCHANGED <<gpsAckMsg, result, req>>
        BY <1>3 DEF SendClear
  <2>2. <<>> \in Seq(HonestToken(executed))
        BY EmptySeq
  <2> QED BY <1>1, <2>1, <2>2 DEF HonestInv, TrueMeansExecuted
<1>4. CASE SendInspect
  <2>1. UNCHANGED <<gpsNmeaBuffer, gpsAckMsg, req>>
        BY <1>4 DEF SendInspect
  <2>2. CASE gpsAckMsg = NoMsg
        BY <1>1, <1>4, <2>1, <2>2 DEF SendInspect, HonestInv, TrueMeansExecuted
  <2>3. CASE gpsAckMsg # NoMsg
    <3>1. result'.ret <=> AckAccepted(gpsAckMsg, req)
          BY <1>4, <2>3 DEF SendInspect
    <3>2. gpsAckMsg \in Ack /\ req \in Request /\ Honest(gpsAckMsg, executed)
          BY <2>3 DEF TypeOK, HonestInv
    <3>3. TrueMeansExecuted'
          BY <1>1, <2>1, <3>1, <3>2, AcceptedLemma DEF TrueMeansExecuted
    <3> QED BY <1>1, <2>1, <3>3 DEF HonestInv
  <2> QED BY <2>2, <2>3
<1>5. CASE SendFree
      BY <1>1, <1>5 DEF SendFree, HonestInv, TrueMeansExecuted
<1>6. CASE \/ SendCreate \/ SendWrite \/ SendArm \/ SendWait
           \/ SendDelete \/ SendNull \/ SendCheckTimeOut \/ SendStop
  <2>1. UNCHANGED <<gpsNmeaBuffer, gpsAckMsg, result, req>>
        BY <1>6 DEF SendCreate, SendWrite, SendArm, SendWait, SendDelete, SendNull,
                    SendCheckTimeOut, SendStop
  <2> QED BY <1>1, <2>1 DEF HonestInv, TrueMeansExecuted
<1> QED BY <1>2, <1>3, <1>4, <1>5, <1>6 DEF GpsCall

\* The chip acknowledges with success only what it executed.
LEMMA HonestChip ==
    ASSUME TypeOK, HonestInv, ChipSentence \/ ChipAnswer \/ ChipIgnores
    PROVE  HonestInv'
<1> USE DEF chipUnchanged, osVars, timerVars, mainVars, gpsVars
<1> DEFINE HT == HonestToken(executed')
<1>1. executed \subseteq executed'
      BY DEF ChipSentence, ChipAnswer, ChipIgnores
<1>2. UNCHANGED <<gpsNmeaBuffer, tmp, gpsAckMsg, result, req>>
      BY DEF ChipSentence, ChipAnswer, ChipIgnores
<1>3. gpsNmeaBuffer' \in Seq(HT) /\ tmp' \in Seq(HT) /\ rx \in Seq(HT)
      BY <1>1, <1>2, HonestMonotone DEF HonestInv
<1>4. (gpsAckMsg # NoMsg => Honest(gpsAckMsg, executed)) => 
      (gpsAckMsg' # NoMsg => Honest(gpsAckMsg', executed'))
      BY <1>1, <1>2 DEF Honest
<1>5. TrueMeansExecuted'
      BY <1>1, <1>2 DEF HonestInv, TrueMeansExecuted
<1>6. \A kind \in {"line", "vtg", "tail"}, b \in BOOLEAN : [k |-> kind, crlf |-> b] \in HT
      BY DEF Token, HonestToken
<1>7. Tail_ \in HT
      BY <1>6 DEF Tail_
<1>8. ASSUME NEW tokens \in Seq(HT), Emit(tokens) PROVE rx' \in Seq(HT)
      BY <1>3, <1>8, ConcatProperties DEF Emit
<1>9. ASSUME ChipSentence PROVE rx' \in Seq(HT)
  <2> HIDE DEF HT
  <2>1. CASE \E kind \in {"line", "vtg"} : Emit(<<[k |-> kind, crlf |-> TRUE]>>)
    <3>1. PICK kind \in {"line", "vtg"} : Emit(<<[k |-> kind, crlf |-> TRUE]>>)
          BY <2>1
    <3>2. [k |-> kind, crlf |-> TRUE] \in HT
          BY <1>6
    <3>3. <<[k |-> kind, crlf |-> TRUE]>> \in Seq(HT)
          BY <3>2
    <3> QED BY <1>8, <3>1, <3>3
  <2>2. CASE Emit(<<[k |-> "vtg", crlf |-> FALSE], Tail_>>)
    <3>1. [k |-> "vtg", crlf |-> FALSE] \in HT
          BY <1>6
    <3>2. <<[k |-> "vtg", crlf |-> FALSE], Tail_>> \in Seq(HT)
          BY <3>1, <1>7
    <3> QED BY <1>8, <2>2, <3>2
  <2> QED BY <1>9, <2>1, <2>2 DEF ChipSentence
<1>10. ASSUME ChipAnswer PROVE rx' \in Seq(HT)
  <2>1. Head(chipIn) \in Pending
        BY <1>10, HeadTailProperties DEF ChipAnswer, TypeOK
  <2>2. PICK res \in {"ok", "fail"}, good \in BOOLEAN, cut \in BOOLEAN :
          /\ res = "ok" \/ (good /\ Head(chipIn).req.kind # "version")
          /\ LET msg == [no |-> Head(chipIn).no, req |-> Head(chipIn).req,
                         res |-> res, good |-> good]
                 ack == [k |-> "ack", crlf |-> ~cut, msg |-> msg]
             IN  Emit(IF cut THEN <<ack, Tail_>> ELSE <<ack>>)
          /\ executed' = IF res = "ok" THEN executed \cup {Head(chipIn).req} ELSE executed
        BY <1>10 DEF ChipAnswer
  <2> DEFINE msg == [no |-> Head(chipIn).no, req |-> Head(chipIn).req,
                     res |-> res, good |-> good]
             ack == [k |-> "ack", crlf |-> ~cut, msg |-> msg]
  <2>3. msg \in Ack
        BY <2>1 DEF Pending, Ack
  <2>4. Honest(msg, executed')
        BY <2>2 DEF Honest
  <2>5. ack \in HT
    <3> HIDE DEF msg
    <3>1. (~cut) \in BOOLEAN
          BY Zenon
    <3>2. ack \in Token
          BY <2>3, <3>1 DEF Token
    <3> QED BY <3>2, <2>4 DEF HonestToken
  <2> HIDE DEF ack, HT
  <2>6. <<ack, Tail_>> \in Seq(HT) /\ <<ack>> \in Seq(HT)
        BY <2>5, <1>7
  <2>7. Emit(<<ack, Tail_>>) \/ Emit(<<ack>>)
        BY <2>2 DEF ack
  <2> QED BY <1>8, <2>6, <2>7
<1>11. ASSUME ChipIgnores PROVE rx' \in Seq(HT)
      BY <1>3, <1>11 DEF ChipIgnores
<1>12. rx' \in Seq(HT)
      BY <1>9, <1>10, <1>11
<1> QED BY <1>3, <1>4, <1>5, <1>12 DEF HonestInv

\* For every scheduler, and whatever is lost, late, cut or corrupted: a
\* GPS_Set... or GPS_Get... function returns true only when the chip executed
\* the command, now or, after a time-out, at an earlier try.
THEOREM TrueMeansItIsExecuted ==
    ASSUME Numbering
    PROVE  Spec => []TrueMeansExecuted
<1>1. Init => HonestInv
  <2>1. <<>> \in Seq(HonestToken({}))
        BY EmptySeq
  <2> QED BY <2>1 DEF Init, HonestInv, TrueMeansExecuted, Failed
<1>2. TypeOK /\ HonestInv /\ [Next]_vars => HonestInv'
  <2> SUFFICES ASSUME TypeOK, HonestInv, [Next]_vars PROVE HonestInv'
      OBVIOUS
  <2>1. CASE UNCHANGED vars
        BY <2>1 DEF vars, mainVars, gpsVars, chipVars, HonestInv, TrueMeansExecuted
  <2>2. CASE Next
        BY <2>2, HonestGps, HonestMain, HonestChip DEF Next
  <2> QED BY <2>1, <2>2
<1>3. HonestInv => TrueMeansExecuted
      BY DEF HonestInv
<1> QED BY <1>1, <1>2, <1>3, GpsTypeCorrect, PTL DEF Spec

-----------------------------------------------------------------------------
(* Before the first time-out there is one acknowledgement at a time *)

\* The acknowledgements among the tokens s; OwnAck: at most one, for request m.
AckAt(s)     == {i \in 1..Len(s) : s[i].k = "ack"}
HasAck(s)    == AckAt(s) # {}
OwnAck(s, m) == /\ \A i \in AckAt(s) : s[i].msg.no = m
                /\ \A i, j \in AckAt(s) : i = j

\* The gps task waits, or is about to, and nothing woke it yet.
Waiting == /\ gpc \in {"arm", "wait"} /\ semCount = 0
           /\ gpsAckMsg = NoMsg /\ mpc # "release"

\* The answer to the present command is in one place: on the way to the chip
\* as the command, in the UART, in the queue, in tmp, or in gpsAckMsg.
OwnInv ==
    /\ chipIn # <<>> => Len(chipIn) = 1 /\ chipIn[1].no = n
    /\ OwnAck(rx, n) /\ OwnAck(gpsNmeaBuffer, n) /\ OwnAck(tmp, n)
    /\ chipIn # <<>> => ~HasAck(rx) /\ ~HasAck(gpsNmeaBuffer) /\ ~HasAck(tmp)
    /\ HasAck(rx) => ~HasAck(gpsNmeaBuffer) /\ ~HasAck(tmp)
    /\ HasAck(gpsNmeaBuffer) => ~HasAck(tmp)
    /\ chipIn # <<>> \/ HasAck(rx) \/ HasAck(gpsNmeaBuffer) \/ HasAck(tmp) => Waiting
    /\ mpc # "ackFail"
    /\ mpc = "release" => gpc \in {"arm", "wait"} /\ semCount = 0
    /\ mpc \in {"takeAck", "checkSem", "alloc"} => gpsAckMsg = NoMsg
    /\ gpsAckMsg # NoMsg => gpsAckMsg.no = n
    /\ gpc \in {"idle", "create", "clear", "send"} => gpsAckMsg = NoMsg
    /\ gpc \in {"clear", "send"} => semCount = 0
    /\ result.ret => result.ackNo = n
OwnAnswer == ~expired => OwnInv

\* No acknowledgement is one's own.
LEMMA OwnNone ==
    /\ ~HasAck(<<>>)
    /\ \A s, m : ~HasAck(s) => OwnAck(s, m)
BY DEF HasAck, AckAt, OwnAck

\* An acknowledgement that Buffer_Gets meets is taken or left, not both.
LEMMA OwnSplit ==
    ASSUME NEW T, NEW s \in Seq(T), NEW k \in Nat, k <= Len(s), NEW m, OwnAck(s, m)
    PROVE  LET p == SubSeq(s, 1, k)  q == SubSeq(s, k + 1, Len(s))
           IN  /\ OwnAck(p, m) /\ OwnAck(q, m) /\ ~(HasAck(p) /\ HasAck(q))
               /\ HasAck(p) \/ HasAck(q) => HasAck(s)
<1> DEFINE p == SubSeq(s, 1, k)  q == SubSeq(s, k + 1, Len(s))
<1>1. Len(s) \in Nat /\ \A i \in 1..Len(s) : s[i] \in T
      BY LenProperties, ElementOfSeq
<1>2. Len(p) = k /\ \A i \in 1..k : p[i] = s[i]
  <2>1. \A i \in 1..k : s[i] \in T
        BY <1>1
  <2> QED BY <1>1, <2>1, SubSeqProperties
<1>3. Len(q) = Len(s) - k /\ \A i \in 1..(Len(s) - k) : q[i] = s[k + i]
  <2>1. \A i \in (k + 1)..Len(s) : s[i] \in T
        BY <1>1
  <2>2. Len(q) = Len(s) - k /\ \A i \in 1..(Len(s) - k) : q[i] = s[(k + 1) + i - 1]
        BY <1>1, <2>1, SubSeqProperties
  <2> QED BY <1>1, <2>2
<1> HIDE DEF p, q
<1>4. \A i \in AckAt(p) : i \in AckAt(s) /\ i <= k /\ p[i] = s[i]
      BY <1>1, <1>2 DEF AckAt
<1>5. \A i \in AckAt(q) : i \in Nat /\ i >= 1 /\ k + i \in AckAt(s) /\ q[i] = s[k + i]
      BY <1>1, <1>3 DEF AckAt
<1>6. OwnAck(p, m)
      BY <1>4 DEF OwnAck
<1>7. OwnAck(q, m)
      BY <1>5 DEF OwnAck
<1>8. ~(HasAck(p) /\ HasAck(q))
  <2> SUFFICES ASSUME NEW i \in AckAt(p), NEW j \in AckAt(q) PROVE FALSE
      BY DEF HasAck
  <2> QED BY <1>4, <1>5 DEF OwnAck
<1>9. HasAck(p) \/ HasAck(q) => HasAck(s)
      BY <1>4, <1>5 DEF HasAck
<1> QED BY <1>6, <1>7, <1>8, <1>9 DEF p, q

\* Nor does Buffer_Puts or the UART add one.
LEMMA OwnConcat ==
    ASSUME NEW T, NEW s \in Seq(T), NEW t \in Seq(T), NEW m,
           OwnAck(s, m), OwnAck(t, m), ~(HasAck(s) /\ HasAck(t))
    PROVE  OwnAck(s \o t, m) /\ (HasAck(s \o t) => HasAck(s) \/ HasAck(t))
<1>1. /\ Len(s) \in Nat /\ Len(t) \in Nat /\ Len(s \o t) = Len(s) + Len(t)
      /\ \A i \in 1..(Len(s) + Len(t)) :
            (s \o t)[i] = IF i <= Len(s) THEN s[i] ELSE t[i - Len(s)]
      BY LenProperties, ConcatProperties
<1>2. \A i \in AckAt(s \o t) :
        /\ i \in Nat
        /\ i <= Len(s) => i \in AckAt(s) /\ (s \o t)[i] = s[i]
        /\ ~(i <= Len(s)) => i - Len(s) \in AckAt(t) /\ (s \o t)[i] = t[i - Len(s)]
      BY <1>1 DEF AckAt
<1>3. \A i, j \in AckAt(s \o t) : i = j
      BY <1>1, <1>2 DEF OwnAck, HasAck
<1>4. ASSUME NEW i \in AckAt(s \o t) PROVE (s \o t)[i].msg.no = m
  <2>1. CASE i <= Len(s)
    <3>1. i \in AckAt(s) /\ (s \o t)[i] = s[i]
          BY <1>2, <2>1
    <3> QED BY <3>1 DEF OwnAck
  <2>2. CASE ~(i <= Len(s))
    <3>1. i - Len(s) \in AckAt(t) /\ (s \o t)[i] = t[i - Len(s)]
          BY <1>2, <2>2
    <3> QED BY <3>1 DEF OwnAck
  <2> QED BY <2>1, <2>2
<1> QED BY <1>2, <1>3, <1>4 DEF OwnAck, HasAck

\* The steps of the gps task.
LEMMA OwnGps ==
    ASSUME TypeOK, OwnAnswer, (\E r \in Request : SendBegin(r)) \/ GpsCall
    PROVE  OwnAnswer'
<1> USE DEF GpsStep, osVars, timerVars, mainVars, chipVars, Waiting, OwnAnswer
<1>1. expired' = expired
      BY DEF SendBegin, GpsCall, SendCreate, SendClear, SendWrite, SendArm, SendWait,
             SendDelete, SendNull, SendCheckTimeOut, SendStop, SendInspect, SendFree
<1> SUFFICES ASSUME ~expired, OwnInv PROVE OwnInv'
    BY <1>1
<1>2. CASE \E r \in Request : SendBegin(r)
      BY <1>2, OwnNone DEF SendBegin, OwnInv, Failed
<1>3. CASE SendCreate
      BY <1>3 DEF SendCreate, OwnInv
<1>4. CASE SendClear
      BY <1>4, OwnNone DEF SendClear, OwnInv
<1>5. CASE SendWrite
  <2>1. chipIn = <<>> /\ ~HasAck(rx) /\ ~HasAck(gpsNmeaBuffer) /\ ~HasAck(tmp)
        BY <1>5 DEF SendWrite, OwnInv
  <2>2. chipIn' = <<[no |-> n, req |-> req]>>
        BY <1>5, <2>1 DEF SendWrite
  <2>3. Len(chipIn') = 1 /\ chipIn'[1].no = n
        BY <2>2
  <2> QED BY <1>5, <2>1, <2>3 DEF SendWrite, OwnInv
<1>6. CASE SendArm
      BY <1>6 DEF SendArm, OwnInv
<1>7. CASE SendWait
      BY <1>7 DEF SendWait, OwnInv
<1>8. CASE SendDelete
      BY <1>8 DEF SendDelete, OwnInv
<1>9. CASE SendNull
      BY <1>9 DEF SendNull, OwnInv
<1>10. CASE SendCheckTimeOut
      BY <1>10 DEF SendCheckTimeOut, OwnInv
<1>11. CASE SendStop
      BY <1>11 DEF SendStop, OwnInv
<1>12. CASE SendInspect
      BY <1>12 DEF SendInspect, OwnInv
<1>13. CASE SendFree
      BY <1>13 DEF SendFree, OwnInv
<1> QED BY <1>2, <1>3, <1>4, <1>5, <1>6, <1>7, <1>8, <1>9, <1>10, <1>11,
           <1>12, <1>13 DEF GpsCall

\* The message copied from tmp answers the request of its acknowledgement.
LEMMA OwnMessage ==
    ASSUME tmp \in Seq(Token), OwnAck(tmp, n), Index0(header, tmp) # {}
    PROVE  HasAck(tmp) /\ Message.no = n
<1> DEFINE h == First(Index0(header, tmp))
<1>1. h \in Acks(header, tmp)
      BY PositionsLemma, FirstLemma DEF Index0
<1>2. h \in AckAt(tmp)
      BY <1>1 DEF Acks, AckAt
<1>3. tmp[h] \in Token /\ tmp[h].k = "ack"
      BY <1>2, ElementOfSeq DEF AckAt
<1>4. tmp[h].msg \in Ack /\ tmp[h].msg.no = n
      BY <1>2, <1>3 DEF Token, OwnAck
<1> DEFINE good == tmp[h].msg.good /\ (tmp[h].crlf \/ (h < Len(tmp) /\ tmp[h + 1].k = "tail"))
<1>5. \A b : \A m \in Ack : [m EXCEPT !.good = b].no = m.no
      BY DEF Ack
<1>6. Message = [tmp[h].msg EXCEPT !.good = good]
      BY DEF Message
<1> HIDE DEF good, h
<1> QED BY <1>2, <1>4, <1>5, <1>6 DEF HasAck

\* The steps of the main task.
LEMMA OwnMain ==
    ASSUME TypeOK, OwnAnswer,
           (\E k \in 1..MaxChunk : UpdatePuts(k)) \/ TimerExpires
               \/ OnCmdAckFail \/ MainCall
    PROVE  OwnAnswer'
<1> USE DEF MainStep, osVars, timerVars, gpsVars, chipVars, Waiting, OwnAnswer
<1>0. CASE TimerExpires
      BY <1>0 DEF TimerExpires, mainVars, OwnInv
<1>1. CASE OnCmdAckFail
      BY <1>1 DEF OnCmdAckFail
<1> SUFFICES ASSUME ~expired, OwnInv,
                    (\E k \in 1..MaxChunk : UpdatePuts(k)) \/ MainCall
             PROVE  OwnInv'
  <2>1. ASSUME (\E k \in 1..MaxChunk : UpdatePuts(k)) \/ MainCall
        PROVE  expired' = expired
        BY <2>1 DEF UpdatePuts, MainCall, UpdateBranch, FrameLoop, FrameTake, AckSearch,
               AckTake, AckCheckSem, AckAlloc, AckRelease, OnCmdAckFailRelease
  <2> QED BY <1>0, <1>1, <2>1
<1>2. CASE \E k \in 1..MaxChunk : UpdatePuts(k)
  <2>1. PICK k \in 1..MaxChunk : UpdatePuts(k)
        BY <1>2
  <2>2. k \in Nat /\ k <= Len(rx) /\ rx \in Seq(Token) /\ gpsNmeaBuffer \in Seq(Token)
        BY <2>1, GpsCommandAssumption DEF UpdatePuts, Shorter, TypeOK
  <2> DEFINE p == SubSeq(rx, 1, k)
  <2>3. p \in Seq(Token)
        BY <2>2, SplitLemma
  <2>4. /\ OwnAck(p, n) /\ OwnAck(rx', n) /\ ~(HasAck(p) /\ HasAck(rx'))
        /\ HasAck(p) \/ HasAck(rx') => HasAck(rx)
    <3>1. OwnAck(rx, n) /\ rx' = SubSeq(rx, k + 1, Len(rx))
          BY <2>1 DEF OwnInv, UpdatePuts
    <3> QED BY <2>2, <3>1, OwnSplit
  <2> HIDE DEF p
  <2>5. /\ OwnAck(gpsNmeaBuffer', n)
        /\ HasAck(gpsNmeaBuffer') => HasAck(gpsNmeaBuffer) \/ HasAck(p)
    <3>1. gpsNmeaBuffer' = gpsNmeaBuffer \/ gpsNmeaBuffer' = gpsNmeaBuffer \o p
          BY <2>1 DEF UpdatePuts, p
    <3>2. OwnAck(gpsNmeaBuffer, n) /\ ~(HasAck(gpsNmeaBuffer) /\ HasAck(p))
          BY <2>4 DEF OwnInv
    <3>3. /\ OwnAck(gpsNmeaBuffer \o p, n)
          /\ HasAck(gpsNmeaBuffer \o p) => HasAck(gpsNmeaBuffer) \/ HasAck(p)
          BY <2>2, <2>3, <2>4, <3>2, OwnConcat
    <3> QED BY <3>1, <3>2, <3>3
  <2> QED BY <2>1, <2>4, <2>5 DEF UpdatePuts, OwnInv
<1>3. CASE UpdateBranch
      BY <1>3 DEF UpdateBranch, OwnInv
<1>4. CASE FrameLoop
      BY <1>4 DEF FrameLoop, OwnInv
<1>5. ASSUME NEW from, NEW to, Gets(from, to)
      PROVE  /\ OwnAck(tmp', n) /\ OwnAck(gpsNmeaBuffer', n)
             /\ ~(HasAck(tmp') /\ HasAck(gpsNmeaBuffer'))
             /\ HasAck(tmp') => HasAck(tmp) \/ HasAck(gpsNmeaBuffer)
             /\ HasAck(gpsNmeaBuffer') => HasAck(gpsNmeaBuffer)
  <2>1. need \in Nat /\ gpsNmeaBuffer \in Seq(Token) /\ Len(gpsNmeaBuffer) \in Nat
        BY GpsCommandAssumption DEF TypeOK, Shorter
  <2>2. CASE Len(gpsNmeaBuffer) < need
        BY <1>5, <2>1, <2>2 DEF Gets, OwnInv
  <2>3. CASE need <= Len(gpsNmeaBuffer)
    <3> DEFINE p == SubSeq(gpsNmeaBuffer, 1, need)
    <3>1. /\ gpsNmeaBuffer' = SubSeq(gpsNmeaBuffer, need + 1, Len(gpsNmeaBuffer))
          /\ tmp' = p \/ tmp' = <<>>
          BY <1>5, <2>1, <2>3 DEF Gets
    <3>2. OwnAck(gpsNmeaBuffer, n)
          BY DEF OwnInv
    <3>3. /\ OwnAck(p, n) /\ OwnAck(gpsNmeaBuffer', n) /\ ~(HasAck(p) /\ HasAck(gpsNmeaBuffer'))
          /\ HasAck(p) \/ HasAck(gpsNmeaBuffer') => HasAck(gpsNmeaBuffer)
          BY <2>1, <2>3, <3>1, <3>2, OwnSplit
    <3> HIDE DEF p
    <3> QED BY <3>1, <3>3, OwnNone
  <2> QED BY <2>1, <2>2, <2>3
<1>6. CASE FrameTake
      BY <1>5, <1>6 DEF FrameTake, Gets, OwnInv
<1>7. CASE AckSearch
  <2>1. ASSUME NEW fmt, Ends(Acks(fmt, gpsNmeaBuffer), gpsNmeaBuffer) # {}
        PROVE  HasAck(gpsNmeaBuffer)
        BY <2>1 DEF Ends, Acks, HasAck, AckAt
  <2>2. mpc' = "takeAck" => HasAck(gpsNmeaBuffer)
        BY <1>7, <2>1 DEF AckSearch
  <2> QED BY <1>7, <2>2 DEF AckSearch, OwnInv
<1>8. CASE AckTake
      BY <1>5, <1>8 DEF AckTake, Gets, OwnInv
<1>9. CASE AckCheckSem
      BY <1>9, OwnNone DEF AckCheckSem, OwnInv
<1>10. CASE AckAlloc
  <2>1. Index0(header, tmp) # {} => HasAck(tmp) /\ Message.no = n
        BY OwnMessage DEF TypeOK, OwnInv
  <2>2. tmp' = <<>> /\ UNCHANGED <<semCount, gpsVars, gpsNmeaBuffer, rx, chipIn>>
        BY <1>10 DEF AckAlloc
  <2>3. CASE Index0(header, tmp) # {} /\ mpc' = "release" /\ gpsAckMsg' = Message
        BY <2>1, <2>2, <2>3, OwnNone DEF OwnInv
  <2>4. CASE mpc' = "idle" /\ gpsAckMsg' = NoMsg
        BY <2>2, <2>4, OwnNone DEF OwnInv
  <2> QED BY <1>10, <2>3, <2>4 DEF AckAlloc
<1>11. CASE AckRelease
      BY <1>11 DEF AckRelease, OwnInv
<1>12. CASE OnCmdAckFailRelease
      BY <1>12 DEF OnCmdAckFailRelease, OwnInv
<1> QED BY <1>2, <1>3, <1>4, <1>6, <1>7, <1>8, <1>9, <1>10, <1>11, <1>12 DEF MainCall

\* The chip answers a command once.
LEMMA OwnChip ==
    ASSUME TypeOK, OwnAnswer, ChipSentence \/ ChipAnswer \/ ChipIgnores
    PROVE  OwnAnswer'
<1> USE DEF chipUnchanged, osVars, timerVars, mainVars, gpsVars, Waiting, OwnAnswer
<1>1. UNCHANGED chipUnchanged
      BY DEF ChipSentence, ChipAnswer, ChipIgnores
<1> SUFFICES ASSUME ~expired, OwnInv PROVE OwnInv'
    BY <1>1
<1>2. rx \in Seq(Token) /\ chipIn \in Seq(Pending)
      BY DEF TypeOK
<1>3. Tail_ \in Token /\ Tail_.k = "tail"
      BY DEF Tail_, Token
<1>4. ASSUME NEW tokens \in Seq(Token), ~HasAck(tokens), Emit(tokens)
      PROVE  OwnAck(rx', n) /\ (HasAck(rx') => HasAck(rx))
      BY <1>2, <1>4, OwnNone, OwnConcat DEF Emit, OwnInv
<1>5. CASE ChipSentence
  <2>1. \A kind \in {"line", "vtg"}, b \in BOOLEAN :
           [k |-> kind, crlf |-> b] \in Token /\ [k |-> kind, crlf |-> b].k # "ack"
        BY DEF Token
  <2>2. ASSUME NEW a \in Token, NEW b \in Token, a.k # "ack", b.k # "ack"
        PROVE  /\ <<a>> \in Seq(Token) /\ ~HasAck(<<a>>)
               /\ <<a, b>> \in Seq(Token) /\ ~HasAck(<<a, b>>)
        BY <2>2 DEF HasAck, AckAt
  <2>3. OwnAck(rx', n) /\ (HasAck(rx') => HasAck(rx))
    <3>1. CASE \E kind \in {"line", "vtg"} : Emit(<<[k |-> kind, crlf |-> TRUE]>>)
      <4>1. PICK kind \in {"line", "vtg"} : Emit(<<[k |-> kind, crlf |-> TRUE]>>)
            BY <3>1
      <4> DEFINE a == [k |-> kind, crlf |-> TRUE]
      <4>2. a \in Token /\ a.k # "ack"
            BY <2>1
      <4> HIDE DEF a
      <4>3. <<a>> \in Seq(Token) /\ ~HasAck(<<a>>)
            BY <2>2, <4>2
      <4> QED BY <1>4, <4>1, <4>3 DEF a
    <3>2. CASE Emit(<<[k |-> "vtg", crlf |-> FALSE], Tail_>>)
      <4> DEFINE a == [k |-> "vtg", crlf |-> FALSE]
      <4>1. a \in Token /\ a.k # "ack"
            BY <2>1
      <4> HIDE DEF a
      <4>2. <<a, Tail_>> \in Seq(Token) /\ ~HasAck(<<a, Tail_>>)
            BY <1>3, <2>2, <4>1
      <4> QED BY <1>4, <3>2, <4>2 DEF a
    <3> QED BY <1>5, <3>1, <3>2 DEF ChipSentence
  <2> QED BY <1>5, <2>3 DEF ChipSentence, OwnInv
<1>6. ASSUME chipIn # <<>>
      PROVE  Head(chipIn) = chipIn[1] /\ Head(chipIn) \in Pending /\ Tail(chipIn) = <<>>
  <2>1. Len(chipIn) = 1
        BY <1>6 DEF OwnInv
  <2>2. Head(chipIn) = chipIn[1] /\ Head(chipIn) \in Pending
        BY <1>2, <1>6, HeadTailProperties
  <2>3. Tail(chipIn) \in Seq(Pending) /\ Len(Tail(chipIn)) = 0
        BY <1>2, <1>6, <2>1, HeadTailProperties
  <2>4. Tail(chipIn) = <<>>
        BY <2>3, EmptySeq
  <2> QED BY <2>2, <2>4
<1>7. CASE ChipAnswer
  <2>1. /\ chipIn # <<>> /\ chipIn' = <<>> /\ Head(chipIn) \in Pending
        /\ Head(chipIn).no = n
        BY <1>6, <1>7 DEF ChipAnswer, OwnInv
  <2>2. PICK res \in {"ok", "fail"}, good \in BOOLEAN, cut \in BOOLEAN :
          LET msg == [no |-> Head(chipIn).no, req |-> Head(chipIn).req,
                      res |-> res, good |-> good]
              ack == [k |-> "ack", crlf |-> ~cut, msg |-> msg]
          IN  Emit(IF cut THEN <<ack, Tail_>> ELSE <<ack>>)
        BY <1>7 DEF ChipAnswer
  <2> DEFINE msg == [no |-> Head(chipIn).no, req |-> Head(chipIn).req,
                     res |-> res, good |-> good]
             ack == [k |-> "ack", crlf |-> ~cut, msg |-> msg]
  <2>3. msg \in Ack /\ msg.no = n
        BY <2>1 DEF Pending, Ack
  <2>4. ack \in Token /\ ack.k = "ack" /\ ack.msg.no = n
    <3> HIDE DEF msg
    <3>1. (~cut) \in BOOLEAN
          BY Zenon
    <3> QED BY <2>3, <3>1 DEF Token
  <2> HIDE DEF ack
  <2>5. /\ <<ack, Tail_>> \in Seq(Token) /\ <<ack>> \in Seq(Token)
        /\ OwnAck(<<ack, Tail_>>, n) /\ OwnAck(<<ack>>, n)
        BY <1>3, <2>4 DEF OwnAck, AckAt
  <2>6. Emit(<<ack, Tail_>>) \/ Emit(<<ack>>)
        BY <2>2 DEF ack
  <2>7. OwnAck(rx', n)
    <3>1. ~HasAck(rx) /\ OwnAck(rx, n)
          BY <2>1 DEF OwnInv
    <3>2. OwnAck(rx \o <<ack, Tail_>>, n) /\ OwnAck(rx \o <<ack>>, n)
          BY <1>2, <2>5, <3>1, OwnConcat
    <3> QED BY <2>6, <3>2 DEF Emit
  <2> QED BY <1>1, <2>1, <2>7 DEF OwnInv
<1>8. CASE ChipIgnores
      BY <1>6, <1>8 DEF ChipIgnores, OwnInv
<1> QED BY <1>5, <1>7, <1>8

\* Whatever the scheduler does, OwnAnswer is kept.
LEMMA OwnAnswerInvariant == Spec => []OwnAnswer
<1>1. Init => OwnAnswer
      BY OwnNone DEF Init, OwnAnswer, OwnInv, Failed
<1>2. TypeOK /\ OwnAnswer /\ [Next]_vars => OwnAnswer'
  <2> SUFFICES ASSUME TypeOK, OwnAnswer, [Next]_vars PROVE OwnAnswer'
      OBVIOUS
  <2>1. CASE UNCHANGED vars
        BY <2>1 DEF vars, osVars, timerVars, mainVars, gpsVars, chipVars, OwnAnswer, OwnInv, Waiting
  <2>2. CASE Next
        BY <2>2, OwnGps, OwnMain, OwnChip DEF Next
  <2> QED BY <2>1, <2>2
<1> QED BY <1>1, <1>2, GpsTypeCorrect, PTL DEF Spec

\* For every scheduler: a function of gps.c returns true for the answer to
\* another request only after some command timed out.
THEOREM MisattributionNeedsTimeOut == Spec => []MisattributedOnlyAfterTimeOut
<1>1. OwnAnswer => MisattributedOnlyAfterTimeOut
      BY DEF OwnAnswer, OwnInv, MisattributedOnlyAfterTimeOut
<1> QED BY <1>1, OwnAnswerInvariant, PTL

\* For every scheduler: GPS_Update assigns gpsAckMsg over a message, losing
\* its block, only after some command timed out.
THEOREM OverwriteNeedsTimeOut == Spec => []AckOverwrittenOnlyAfterTimeOut
<1>1. OwnAnswer => AckOverwrittenOnlyAfterTimeOut
      BY DEF OwnAnswer, OwnInv, AckOverwrittenOnlyAfterTimeOut
<1> QED BY <1>1, OwnAnswerInvariant, PTL
=============================================================================
