----------------------- MODULE UpstreamStartupProofs ------------------------
(***************************************************************************)
(* What connect returns does not depend on the chunks PostgreSQL's answer  *)
(* arrives in, for every answer, wherever it is cut off.                   *)
(*                                                                         *)
(* The reader is always at the start of a frame, all frames before it were *)
(* sent, accepted and did not end the burst.  Which frame starts at a byte *)
(* is unique because starts grow from frame to frame.                      *)
(***************************************************************************)
EXTENDS UpstreamStartup, WellFoundedInduction, SequenceTheorems, TLAPS

Frames == [tag : STRING, length : Int, code : Int]

\* Induction up to a bound, for a set instead of a predicate.
LEMMA IntervalInduction ==
    ASSUME NEW n \in Nat, NEW Good,
           \A k \in 0 .. n : (\A j \in 0 .. k - 1 : j \in Good) => k \in Good
    PROVE  \A k \in 0 .. n : k \in Good
<1> DEFINE Bad == {k \in 0 .. n : k \notin Good}
<1> SUFFICES ASSUME Bad # {} PROVE FALSE
    OBVIOUS
<1>1. Bad \subseteq Nat
    OBVIOUS
<1> HIDE DEF Bad
<1>2. \E k \in Bad : \A j \in Bad : ~(<<j, k>> \in OpToRel(<, Nat))
    BY <1>1, NatLessThanWellFounded, WFMin
<1>3. PICK k \in Bad : \A j \in Bad : ~(j < k)
    BY <1>1, <1>2 DEF OpToRel
<1>4. k \in 0 .. n /\ k \notin Good
    BY DEF Bad
<1>5. \A j \in 0 .. k - 1 : j \in Good
    BY <1>3, <1>4 DEF Bad
<1> QED
    BY <1>4, <1>5

\* The starts of an answer's frames exist, and are what they are defined to be.
LEMMA StartsDefined ==
    ASSUME NEW answer \in Seq(Frames)
    PROVE  /\ Starts(answer) \in [1 .. Len(answer) + 1 -> Nat]
           /\ \A i \in 1 .. Len(answer) + 1 :
                Starts(answer)[i] = IF i = 1 THEN 0 ELSE Starts(answer)[i - 1] + Size(answer[i - 1])
<1> DEFINE n == Len(answer)
           Domain == 1 .. n + 1
           Upto(g, k) == \A i \in 1 .. k + 1 :
                            g[i] = IF i = 1 THEN 0 ELSE g[i - 1] + Size(answer[i - 1])
           Good == {k \in 0 .. n : \E g \in [Domain -> Nat] : Upto(g, k)}
<1>1. n \in Nat /\ \A i \in 1 .. n : Size(answer[i]) \in Nat
    <2>1. n \in Nat /\ \A i \in 1 .. n : answer[i] \in Frames
        BY ElementOfSeq, LenProperties
    <2>2. \A f \in Frames : Size(f) \in Nat
        BY DEF Frames, Size
    <2> QED
        BY <2>1, <2>2
<1> HIDE DEF n
<1>2. ASSUME NEW k \in 0 .. n, \A j \in 0 .. k - 1 : j \in Good
      PROVE  k \in Good
    <2>1. CASE k = 0
        <3> DEFINE g == [i \in Domain |-> 0]
        <3>1. g \in [Domain -> Nat] /\ Upto(g, k)
            BY <1>1, <2>1
        <3> QED
            BY <3>1
    <2>2. CASE k # 0
        <3>1. PICK g \in [Domain -> Nat] : Upto(g, k - 1)
            BY <1>1, <1>2, <2>2, SMTT(30)
        <3> DEFINE h == [g EXCEPT ![k + 1] = g[k] + Size(answer[k])]
        <3>2. h \in [Domain -> Nat]
            BY <1>1, <2>2
        <3>3. Upto(h, k)
            BY <1>1, <2>2, <3>1
        <3> QED
            BY <3>2, <3>3
    <2> QED
        BY <2>1, <2>2
<1>3. n \in Good
    <2> HIDE DEF Good
    <2>1. \A k \in 0 .. n : k \in Good
        BY <1>1, <1>2, IntervalInduction
    <2> QED
        BY <1>1, <2>1
<1>4. PICK g \in [Domain -> Nat] : Upto(g, n)
    BY <1>3
<1>5. g = [i \in Domain |-> IF i = 1 THEN 0 ELSE g[i - 1] + Size(answer[i - 1])]
    BY <1>4
<1>6. Starts(answer) =
        CHOOSE f : f = [i \in Domain |-> IF i = 1 THEN 0 ELSE f[i - 1] + Size(answer[i - 1])]
    BY DEF Starts, n
<1>7. Starts(answer) =
        [i \in Domain |-> IF i = 1 THEN 0 ELSE Starts(answer)[i - 1] + Size(answer[i - 1])]
    BY <1>5, <1>6
<1>8. \A i \in 1 .. n + 1 :
        Starts(answer)[i] = IF i = 1 THEN 0 ELSE Starts(answer)[i - 1] + Size(answer[i - 1])
    BY <1>7
<1> DEFINE Typed == {k \in 0 .. n : Starts(answer)[k + 1] \in Nat}
<1>9. \A k \in 0 .. n : k \in Typed
    <2>1. ASSUME NEW k \in 0 .. n, \A j \in 0 .. k - 1 : j \in Typed
          PROVE  k \in Typed
        <3>1. CASE k = 0
            BY <1>1, <1>8, <3>1
        <3>2. CASE k # 0
            <4>1. k - 1 \in Typed
                BY <2>1, <3>2
            <4>2. Starts(answer)[k] \in Nat /\ k \in 1 .. n
                BY <4>1, <3>2
            <4> QED
                BY <1>1, <1>8, <4>2, SMTT(30)
        <3> QED
            BY <3>1, <3>2
    <2> HIDE DEF Typed
    <2> QED
        BY <1>1, <2>1, IntervalInduction
<1>10. \A i \in 1 .. n + 1 : Starts(answer)[i] \in Nat
    <2> SUFFICES ASSUME NEW i \in 1 .. n + 1 PROVE Starts(answer)[i] \in Nat
        OBVIOUS
    <2>1. i - 1 \in 0 .. n /\ (i - 1) + 1 = i
        BY <1>1
    <2>2. i - 1 \in Typed
        BY <1>9, <2>1
    <2> QED
        BY <2>1, <2>2
<1>11. Starts(answer) \in [1 .. n + 1 -> Nat]
    BY <1>7, <1>10
<1> QED
    BY <1>8, <1>11 DEF n

\* A later frame starts behind an earlier one.
LEMMA StartsGrow ==
    ASSUME NEW answer \in Seq(Frames), NEW i \in 1 .. Len(answer), NEW k \in i + 1 .. Len(answer) + 1
    PROVE  Starts(answer)[i] + Size(answer[i]) <= Starts(answer)[k]
<1> DEFINE n == Len(answer)
           Good == {x \in 0 .. n : i <= x => Starts(answer)[i] + Size(answer[i]) <= Starts(answer)[x + 1]}
<1>1. /\ n \in Nat /\ i \in 1 .. n /\ k \in i + 1 .. n + 1
      /\ Starts(answer) \in [1 .. n + 1 -> Nat]
      /\ \A x \in 1 .. n : Starts(answer)[x + 1] = Starts(answer)[x] + Size(answer[x])
    <2>1. /\ n \in Nat /\ Starts(answer) \in [1 .. n + 1 -> Nat]
          /\ \A x \in 1 .. n + 1 :
                Starts(answer)[x] = IF x = 1 THEN 0 ELSE Starts(answer)[x - 1] + Size(answer[x - 1])
        BY StartsDefined, LenProperties
    <2> HIDE DEF n
    <2>2. ASSUME NEW x \in 1 .. n
          PROVE  Starts(answer)[x + 1] = Starts(answer)[x] + Size(answer[x])
        <3>1. x + 1 \in 1 .. n + 1 /\ x + 1 # 1 /\ (x + 1) - 1 = x
            BY <2>1
        <3> QED
            BY <2>1, <3>1
    <2> QED
        BY <2>1, <2>2 DEF n
<1>2. \A x \in 1 .. n : Size(answer[x]) \in Nat
    <2>1. \A x \in 1 .. n : answer[x] \in Frames
        BY ElementOfSeq
    <2> QED
        BY <2>1 DEF Frames, Size
<1> HIDE DEF n
<1>3. ASSUME NEW x \in 0 .. n, \A j \in 0 .. x - 1 : j \in Good
      PROVE  x \in Good
    <2>1. CASE x <= i
        BY <1>1, <2>1
    <2>2. CASE x > i
        <3>1. x - 1 \in 0 .. x - 1 /\ i <= x - 1 /\ x \in 1 .. n /\ (x - 1) + 1 = x
            BY <1>1, <2>2
        <3>2. Starts(answer)[i] + Size(answer[i]) <= Starts(answer)[x]
            <4>1. x - 1 \in Good
                BY <1>3, <3>1
            <4> QED
                BY <3>1, <4>1
        <3>3. Starts(answer)[x + 1] = Starts(answer)[x] + Size(answer[x]) /\ Size(answer[x]) \in Nat
            BY <1>1, <1>2, <3>1
        <3>4. /\ Starts(answer)[i] \in Nat /\ Size(answer[i]) \in Nat /\ Starts(answer)[x] \in Nat
            BY <1>1, <1>2, <3>1
        <3> QED
            BY <1>1, <3>2, <3>3, <3>4, SMTT(30)
    <2> QED
        BY <1>1, <2>1, <2>2
<1>4. \A x \in 0 .. n : x \in Good
    <2> HIDE DEF Good
    <2> QED
        BY <1>1, <1>3, IntervalInduction
<1>5. k - 1 \in 0 .. n /\ i <= k - 1 /\ (k - 1) + 1 = k
    BY <1>1
<1>6. k - 1 \in Good
    BY <1>4, <1>5
<1> QED
    BY <1>5, <1>6
----------------------------------------------------------------------------
\* The reader is at the start of frame i,
AtFrame(i) ==
    \/ stage = "Authenticate" /\ i = 1 /\ received = buffered /\ cursor = 0
    \/ /\ stage = "WaitForReady" /\ i > 1
       /\ received - buffered = Start(2) /\ cursor = Start(i) - Start(2)

\* and got through those before it.
Passed(i) ==
    /\ \A j \in 1 .. i - 1 : Complete(j) /\ Acceptable(j)
    /\ i > 1 => AuthenticationError(frames[1]) = "None"
    /\ \A j \in 2 .. i - 1 : ~Terminal(frames[j])

UpstreamTypeOK ==
    /\ frames \in Seq(Frames)
    /\ sent \in 0 .. Start(Len(frames) + 1)
    /\ received \in 0 .. sent
    /\ buffered \in Nat /\ cursor \in Nat
    /\ stage \in {"Connect", "Authenticate", "WaitForReady", "Connected", "Failed"}
    /\ stage = "Connect" => received = 0 /\ buffered = 0 /\ cursor = 0

InStep == Reading => \E i \in 1 .. Len(frames) + 1 : AtFrame(i) /\ Passed(i)

ReaderInv == UpstreamTypeOK /\ InStep /\ ChunksAreInvisible

\* Where frames start.
LEMMA StartsOfFrames ==
    ASSUME UpstreamTypeOK
    PROVE  /\ Len(frames) \in Nat
           /\ \A i \in 1 .. Len(frames) + 1 : Start(i) \in Nat
           /\ Start(1) = 0
           /\ \A i \in 1 .. Len(frames) : /\ frames[i] \in Frames /\ Size(frames[i]) \in Nat \ {0}
                                          /\ Start(i + 1) = Start(i) + Size(frames[i])
           /\ \A i, k \in 1 .. Len(frames) + 1 : i < k => Start(i) < Start(k)
<1>1. frames \in Seq(Frames)
    BY DEF UpstreamTypeOK
<1>2. /\ Len(frames) \in Nat /\ Starts(frames) \in [1 .. Len(frames) + 1 -> Nat]
      /\ \A i \in 1 .. Len(frames) + 1 :
            Starts(frames)[i] = IF i = 1 THEN 0 ELSE Starts(frames)[i - 1] + Size(frames[i - 1])
    BY <1>1, StartsDefined, LenProperties
<1>3. \A i \in 1 .. Len(frames) : frames[i] \in Frames
    BY <1>1, ElementOfSeq
<1>4. \A i \in 1 .. Len(frames) : Size(frames[i]) \in Nat \ {0}
    BY <1>3 DEF Frames, Size
<1>5. ASSUME NEW i \in 1 .. Len(frames)
      PROVE  Start(i + 1) = Start(i) + Size(frames[i])
    <2>1. i + 1 \in 1 .. Len(frames) + 1 /\ i + 1 # 1 /\ (i + 1) - 1 = i
        BY <1>2
    <2> QED
        BY <1>2, <2>1 DEF Start
<1>6. ASSUME NEW i \in 1 .. Len(frames) + 1, NEW k \in 1 .. Len(frames) + 1, i < k
      PROVE  Start(i) < Start(k)
    <2>1. i \in 1 .. Len(frames) /\ k \in i + 1 .. Len(frames) + 1
        BY <1>2, <1>6
    <2>2. Starts(frames)[i] + Size(frames[i]) <= Starts(frames)[k]
        BY <1>1, <2>1, StartsGrow
    <2>3. Starts(frames)[i] \in Nat /\ Starts(frames)[k] \in Nat /\ Size(frames[i]) \in Nat \ {0}
        BY <1>2, <1>4, <2>1
    <2> QED
        BY <2>2, <2>3 DEF Start
<1>7. Start(1) = 0
    <2>1. 1 \in 1 .. Len(frames) + 1
        BY <1>2
    <2> QED
        BY <1>2, <2>1 DEF Start
<1> QED
    BY <1>2, <1>3, <1>4, <1>5, <1>6, <1>7 DEF Start

\* Once its header is read, the current frame is the one the reader is at.
LEMMA CurrentIsKnown ==
    ASSUME UpstreamTypeOK, NEW i \in 1 .. Len(frames) + 1, AtFrame(i), HeaderRead
    PROVE  i \in 1 .. Len(frames) /\ Current = frames[i]
<1>1. /\ Len(frames) \in Nat /\ Start(1) = 0
      /\ \A k \in 1 .. Len(frames) + 1 : Start(k) \in Nat
      /\ \A k \in 1 .. Len(frames) : Size(frames[k]) \in Nat \ {0}
      /\ \A k, l \in 1 .. Len(frames) + 1 : k < l => Start(k) < Start(l)
    BY StartsOfFrames
<1>2. received - buffered + cursor = Start(i)
    <2>1. CASE stage = "Authenticate"
        BY <1>1, <2>1 DEF AtFrame, UpstreamTypeOK
    <2>2. CASE stage # "Authenticate"
        <3>1. received - buffered = Start(2) /\ cursor = Start(i) - Start(2) /\ i > 1
            BY <2>2 DEF AtFrame
        <3>2. 2 \in 1 .. Len(frames) + 1
            BY <1>1, <3>1
        <3>3. Start(2) \in Nat /\ Start(i) \in Nat
            BY <1>1, <3>2
        <3> QED
            BY <3>1, <3>3 DEF UpstreamTypeOK
    <2> QED
        BY <2>1, <2>2
<1>3. i # Len(frames) + 1
    <2>1. Start(i) + 5 <= received
        BY <1>1, <1>2 DEF HeaderRead, UpstreamTypeOK
    <2>2. received <= Start(Len(frames) + 1)
        <3>1. Len(frames) + 1 \in 1 .. Len(frames) + 1
            BY <1>1
        <3>2. Start(Len(frames) + 1) \in Nat
            BY <1>1, <3>1
        <3> QED
            BY <3>2 DEF UpstreamTypeOK
    <2> QED
        BY <1>1, <2>1, <2>2 DEF UpstreamTypeOK
<1>4. i \in 1 .. Len(frames)
    BY <1>1, <1>3
<1>5. DOMAIN frames = 1 .. Len(frames)
    BY LenProperties DEF UpstreamTypeOK
<1>6. {k \in DOMAIN frames : Starts(frames)[k] = received - buffered + cursor} = {i}
    <2>1. ASSUME NEW k \in 1 .. Len(frames), Start(k) = Start(i)
          PROVE  k = i
        <3>1. ~(k < i) /\ ~(i < k)
            BY <1>1, <1>4, <2>1
        <3> QED
            BY <1>1, <1>4, <3>1
    <2> QED
        BY <1>2, <1>4, <1>5, <2>1 DEF Start
<1> QED
    BY <1>4, <1>6 DEF Current

\* What read_frame checks is what the frame promises.
LEMMA LengthIsChecked ==
    ASSUME UpstreamTypeOK, NEW i \in 1 .. Len(frames) + 1, AtFrame(i), HeaderRead
    PROVE  /\ LengthError = "None" <=> Acceptable(i)
           /\ FrameEnd = (IF i = 1 THEN 0 ELSE Start(i) - Start(2)) + Size(frames[i])
           /\ i = 1 <=> stage = "Authenticate"
<1>1. i \in 1 .. Len(frames) /\ Current = frames[i]
    BY CurrentIsKnown
<1>2. /\ Len(frames) \in Nat /\ frames[i] \in Frames /\ Start(i) \in Nat /\ Size(frames[i]) \in Nat \ {0}
    BY <1>1, StartsOfFrames
<1>3. i # 1 => Start(2) \in Nat
    <2>1. i # 1 => 2 \in 1 .. Len(frames) + 1
        BY <1>1, <1>2
    <2> QED
        BY <2>1, StartsOfFrames
<1>4. /\ i = 1 <=> stage = "Authenticate"
      /\ cursor = IF i = 1 THEN 0 ELSE Start(i) - Start(2)
    BY DEF AtFrame
<1>5. frames[i].length \in Int /\ MaxAuthLength \in Nat /\ MaxLength \in Nat /\ MaxUsize \in Nat
    BY <1>2, WidthsAssumption DEF Frames
<1>6. FrameEnd = cursor + Size(frames[i]) /\ cursor \in Nat
    BY <1>1 DEF FrameEnd, UpstreamTypeOK
<1>7. LengthError = "None" <=>
        /\ frames[i].length >= 4
        /\ frames[i].length <= IF i = 1 THEN MaxAuthLength ELSE MaxLength
        /\ cursor + Size(frames[i]) <= MaxUsize
    BY <1>1, <1>2, <1>4, <1>5, <1>6, SMTT(30) DEF LengthError
<1>8. Acceptable(i) <=>
        /\ frames[i].length >= 4
        /\ frames[i].length <= IF i = 1 THEN MaxAuthLength ELSE MaxLength
        /\ cursor + Size(frames[i]) <= MaxUsize
    BY <1>4, <1>5 DEF Acceptable
<1> QED
    BY <1>4, <1>6, <1>7, <1>8

\* A frame that was read is one the stream promised.
LEMMA ReadIsComplete ==
    ASSUME UpstreamTypeOK, NEW i \in 1 .. Len(frames) + 1, AtFrame(i), FrameRead
    PROVE  /\ i \in 1 .. Len(frames) /\ Current = frames[i]
           /\ Complete(i) /\ Acceptable(i)
           /\ FrameEnd \in Nat /\ FrameEnd <= buffered
<1>1. HeaderRead /\ LengthError = "None" /\ buffered >= FrameEnd
    BY DEF FrameRead
<1>2. /\ i \in 1 .. Len(frames) /\ Current = frames[i] /\ Acceptable(i)
      /\ FrameEnd = (IF i = 1 THEN 0 ELSE Start(i) - Start(2)) + Size(frames[i])
    BY <1>1, CurrentIsKnown, LengthIsChecked
<1>3. /\ Start(i) \in Nat /\ Size(frames[i]) \in Nat \ {0} /\ Start(1) = 0 /\ Len(frames) \in Nat
    BY <1>2, StartsOfFrames
<1>4. i # 1 => /\ Start(2) \in Nat /\ Start(i) >= Start(2)
    <2>1. i # 1 => 2 \in 1 .. Len(frames) + 1 /\ (2 < i \/ i = 2)
        BY <1>2, <1>3
    <2> QED
        BY <1>2, <1>3, <2>1, StartsOfFrames
<1>5. Complete(i)
    <2>1. CASE i = 1
        BY <1>1, <1>2, <1>3, <2>1 DEF AtFrame, Complete, UpstreamTypeOK
    <2>2. CASE i # 1
        BY <1>1, <1>2, <1>3, <1>4, <2>2, SMTT(30) DEF AtFrame, Complete, UpstreamTypeOK
    <2> QED
        BY <2>1, <2>2
<1> QED
    BY <1>1, <1>2, <1>3, <1>4, <1>5

\* A reader that stops at a frame it should not get through has missed nothing.
LEMMA StoppedInTime ==
    ASSUME UpstreamTypeOK, NEW i \in 1 .. Len(frames) + 1, Passed(i),
           \/ i = Len(frames) + 1
           \/ ~Complete(i)
           \/ ~Acceptable(i)
           \/ i = 1 /\ AuthenticationError(frames[1]) # "None"
    PROVE  \A h \in Handshake : h = 1 \/ ~Terminal(frames[h])
<1> SUFFICES ASSUME NEW h \in Handshake, h # 1 PROVE ~Terminal(frames[h])
    OBVIOUS
<1>1. Len(frames) \in Nat /\ DOMAIN frames = 1 .. Len(frames)
    BY LenProperties DEF UpstreamTypeOK
<1>2. /\ h \in 1 .. Len(frames)
      /\ \A j \in 1 .. h : Complete(j) /\ Acceptable(j)
      /\ AuthenticationError(frames[1]) = "None"
    BY <1>1 DEF Handshake
<1>3. ~(i <= h)
    BY <1>1, <1>2
<1>4. h \in 2 .. i - 1
    BY <1>1, <1>2, <1>3
<1> QED
    BY <1>4 DEF Passed

\* Bytes that ran out: the frame was not sent in full, or its length is refused.
LEMMA EndIsPremature ==
    ASSUME UpstreamTypeOK, NEW i \in 1 .. Len(frames) + 1, AtFrame(i), Wanting, received = sent
    PROVE  i = Len(frames) + 1 \/ ~Complete(i) \/ ~Acceptable(i)
<1> SUFFICES ASSUME i # Len(frames) + 1, Complete(i), Acceptable(i) PROVE FALSE
    OBVIOUS
<1>1. Len(frames) \in Nat /\ i \in 1 .. Len(frames)
    BY StartsOfFrames
<1>2. /\ Start(i) \in Nat /\ Size(frames[i]) \in Nat \ {0} /\ Start(1) = 0 /\ frames[i] \in Frames
    BY <1>1, StartsOfFrames
<1>3. i # 1 => Start(2) \in Nat
    <2>1. i # 1 => 2 \in 1 .. Len(frames) + 1
        BY <1>1
    <2> QED
        BY <2>1, StartsOfFrames
<1>4. Start(i) + Size(frames[i]) <= sent
    BY DEF Complete
<1>5. buffered >= cursor + Size(frames[i])
    <2>1. CASE i = 1
        BY <1>2, <1>4, <2>1 DEF AtFrame, UpstreamTypeOK
    <2>2. CASE i # 1
        BY <1>2, <1>3, <1>4, <2>2 DEF AtFrame, UpstreamTypeOK
    <2> QED
        BY <2>1, <2>2
<1>6. Size(frames[i]) >= 5
    BY <1>2, WidthsAssumption DEF Acceptable, Size, Frames
<1>7. HeaderRead
    BY <1>5, <1>6, <1>2 DEF HeaderRead, UpstreamTypeOK
<1>8. LengthError = "None" /\ Current = frames[i]
    BY <1>7, LengthIsChecked, CurrentIsKnown
<1> QED
    BY <1>2, <1>5, <1>7, <1>8 DEF Wanting, FrameEnd, UpstreamTypeOK

LEMMA ReaderStarts == Init => ReaderInv
<1> SUFFICES ASSUME Init PROVE ReaderInv
    OBVIOUS
<1>1. frames \in Seq(Frames)
    BY AnswersAssumption DEF Init, Frames
<1>2. Start(Len(frames) + 1) \in Nat
    <2>1. Len(frames) \in Nat /\ Starts(frames) \in [1 .. Len(frames) + 1 -> Nat]
        BY <1>1, StartsDefined, LenProperties
    <2> QED
        BY <2>1 DEF Start
<1> QED
    BY <1>1, <1>2 DEF Init, ReaderInv, UpstreamTypeOK, InStep, ChunksAreInvisible, Reading

\* connect gives up where the answer gives it reason to.
LEMMA FailureIsRight ==
    ASSUME ReaderInv, NEW e, Fail(e),
           e # "Io" => \A h \in Handshake : h = 1 \/ ~Terminal(frames[h])
    PROVE  ReaderInv'
<1>1. /\ stage' = "Failed" /\ outcome' = e
      /\ UNCHANGED <<frames, sent, startup, received, buffered, cursor>>
    BY DEF Fail, upstream
<1>2. UpstreamTypeOK'
    BY <1>1 DEF ReaderInv, UpstreamTypeOK, Start
<1>3. Handshake' = Handshake
    BY <1>1 DEF Handshake, Complete, Acceptable, Start
<1> QED
    BY <1>1, <1>2, <1>3 DEF ReaderInv, InStep, ChunksAreInvisible, Reading

LEMMA ReaderStep == ReaderInv /\ [Next]_vars => ReaderInv'
<1> SUFFICES ASSUME ReaderInv, [Next]_vars PROVE ReaderInv'
    OBVIOUS
<1>0. UpstreamTypeOK /\ InStep /\ ChunksAreInvisible
    BY DEF ReaderInv
<1>1. CASE UNCHANGED vars
    BY <1>0, <1>1 DEF vars, upstream, ReaderInv, UpstreamTypeOK, InStep, ChunksAreInvisible, Reading,
        AtFrame, Passed, Handshake, Complete, Acceptable, Start
<1>2. CASE ConnectFails
    BY <1>2, FailureIsRight DEF ConnectFails
<1>3. ASSUME NEW params \in ClientParams, SendStartup(params)
      PROVE  ReaderInv'
    <2>1. /\ stage = "Connect" /\ stage' = "Authenticate"
          /\ startup' = (params \ {"database", "replication"}) \cup {"leased database"}
          /\ UNCHANGED <<frames, sent, received, buffered, cursor, outcome>>
        BY <1>3 DEF SendStartup, Forwardable, upstream
    <2>2. UpstreamTypeOK'
        BY <1>0, <2>1 DEF UpstreamTypeOK, Start
    <2>3. 1 \in 1 .. Len(frames') + 1 /\ AtFrame(1)' /\ Passed(1)'
        <3>1. Len(frames) \in Nat
            BY <1>0, StartsOfFrames
        <3>2. 1 \in 1 .. Len(frames') + 1
            <4>1. Len(frames') = Len(frames)
                BY <2>1
            <4> QED
                BY <3>1, <4>1
        <3>3. 1 .. 1 - 1 = {} /\ 2 .. 1 - 1 = {} /\ ~(1 > 1)
            OBVIOUS
        <3>4. received' = buffered' /\ cursor' = 0 /\ stage' = "Authenticate"
            BY <1>0, <2>1 DEF UpstreamTypeOK
        <3> QED
            BY <3>2, <3>3, <3>4 DEF AtFrame, Passed
    <2>4. ChunksAreInvisible'
        BY <2>1 DEF ChunksAreInvisible
    <2> QED
        BY <2>2, <2>3, <2>4 DEF ReaderInv, InStep
<1>4. ASSUME NEW n \in 1 .. sent - received, ReadBytes(n)
      PROVE  ReaderInv'
    <2>1. /\ received' = received + n /\ buffered' = buffered + n /\ received + n <= sent
          /\ UNCHANGED <<frames, sent, stage, startup, cursor, outcome>> /\ n \in Nat
          /\ stage \in {"Authenticate", "WaitForReady"}
        BY <1>0, <1>4 DEF ReadBytes, upstream, Wanting, Reading, UpstreamTypeOK
    <2>2. UpstreamTypeOK'
        BY <1>0, <2>1 DEF UpstreamTypeOK, Start
    <2>3. PICK i \in 1 .. Len(frames) + 1 : AtFrame(i) /\ Passed(i)
        BY <1>0, <2>1 DEF InStep, Reading
    <2>4. AtFrame(i)' /\ Passed(i)'
        <3>1. Passed(i)'
            BY <2>1, <2>3 DEF Passed, Complete, Acceptable, Start
        <3>2. received' - buffered' = received - buffered /\ (received = buffered => received' = buffered')
            BY <1>0, <2>1 DEF UpstreamTypeOK
        <3> QED
            BY <2>1, <2>3, <3>1, <3>2 DEF AtFrame, Start
    <2>5. ChunksAreInvisible'
        BY <1>0, <2>1 DEF ChunksAreInvisible, Reading
    <2> QED
        BY <2>1, <2>2, <2>3, <2>4, <2>5 DEF ReaderInv, InStep
<1>5. CASE TaskStep
    <2>1. Reading
        BY <1>5 DEF TaskStep, ConnectionEnds, Wanting, FrameRejected, AuthenticationFails, Authenticated,
            FramePassed, BurstComplete, Reading
    <2>2. PICK i \in 1 .. Len(frames) + 1 : AtFrame(i) /\ Passed(i)
        BY <1>0, <2>1 DEF InStep
    <2>3. Len(frames) \in Nat
        BY <1>0, StartsOfFrames
    <2>4. CASE ConnectionEnds
        <3>1. Wanting /\ received = sent /\ Fail("UnexpectedEof")
            BY <2>4 DEF ConnectionEnds
        <3>2. \A h \in Handshake : h = 1 \/ ~Terminal(frames[h])
            BY <1>0, <2>2, <3>1, EndIsPremature, StoppedInTime
        <3> QED
            BY <3>1, <3>2, FailureIsRight
    <2>5. CASE FrameRejected
        <3>1. HeaderRead /\ LengthError # "None" /\ Fail(LengthError)
            BY <2>5 DEF FrameRejected
        <3>2. ~Acceptable(i)
            BY <1>0, <2>2, <3>1, LengthIsChecked
        <3>3. \A h \in Handshake : h = 1 \/ ~Terminal(frames[h])
            BY <1>0, <2>2, <3>2, StoppedInTime
        <3> QED
            BY <3>1, <3>3, FailureIsRight
    <2>6. CASE AuthenticationFails
        <3>1. /\ stage = "Authenticate" /\ FrameRead /\ AuthenticationError(Current) # "None"
              /\ Fail(AuthenticationError(Current))
            BY <2>6 DEF AuthenticationFails
        <3>2. i = 1 /\ Current = frames[1]
            BY <1>0, <2>2, <3>1, ReadIsComplete DEF AtFrame
        <3>3. \A h \in Handshake : h = 1 \/ ~Terminal(frames[h])
            BY <1>0, <2>2, <3>1, <3>2, StoppedInTime
        <3> QED
            BY <3>1, <3>3, FailureIsRight
    <2>7. CASE Authenticated
        <3>1. /\ stage = "Authenticate" /\ FrameRead /\ AuthenticationError(Current) = "None"
              /\ stage' = "WaitForReady" /\ buffered' = buffered - FrameEnd
              /\ UNCHANGED <<frames, sent, startup, received, cursor, outcome>>
            BY <2>7 DEF Authenticated, upstream
        <3>2. /\ i = 1 /\ received = buffered /\ cursor = 0
            BY <2>2, <3>1 DEF AtFrame
        <3>3. /\ 1 \in 1 .. Len(frames) /\ Current = frames[1] /\ Complete(1) /\ Acceptable(1)
              /\ FrameEnd \in Nat /\ FrameEnd <= buffered
            BY <1>0, <2>2, <3>1, <3>2, ReadIsComplete
        <3>4. FrameEnd = Size(frames[1]) /\ Size(frames[1]) \in Nat
            BY <1>0, <3>2, <3>3, StartsOfFrames DEF FrameEnd
        <3>5. Start(2) = Start(1) + Size(frames[1]) /\ Start(1) = 0
            <4>1. 1 + 1 = 2
                OBVIOUS
            <4> QED
                BY <1>0, <3>3, <4>1, StartsOfFrames
        <3>6. UpstreamTypeOK'
            BY <1>0, <3>1, <3>3 DEF UpstreamTypeOK, Start
        <3>7. AtFrame(2)'
            <4>1. received' - buffered' = Start(2)
                BY <1>0, <3>1, <3>2, <3>4, <3>5 DEF UpstreamTypeOK
            <4>2. cursor' = Start(2) - Start(2) /\ Start(2)' = Start(2)
                BY <3>1, <3>2, <3>4, <3>5 DEF Start
            <4> QED
                BY <3>1, <4>1, <4>2 DEF AtFrame
        <3>8. Passed(2)'
            <4>1. Complete(1)' /\ Acceptable(1)'
                BY <3>1, <3>3 DEF Complete, Acceptable, Start
            <4>2. \A j \in 1 .. 2 - 1 : j = 1
                OBVIOUS
            <4>3. 2 .. 2 - 1 = {}
                OBVIOUS
            <4> QED
                BY <3>1, <3>3, <4>1, <4>2, <4>3 DEF Passed
        <3>9. 2 \in 1 .. Len(frames') + 1
            BY <2>3, <3>1, <3>3
        <3> QED
            BY <1>0, <3>1, <3>6, <3>7, <3>8, <3>9 DEF ReaderInv, InStep, ChunksAreInvisible, Reading
    <2>8. ASSUME stage = "WaitForReady", FrameRead, cursor' = FrameEnd,
                 UNCHANGED <<frames, sent, startup, received, buffered>>
          PROVE  /\ i > 1 /\ i \in 1 .. Len(frames) /\ Current = frames[i] /\ Complete(i) /\ Acceptable(i)
                 /\ received - buffered = Start(2) /\ cursor' \in Nat
                 /\ cursor' = Start(i) + Size(frames[i]) - Start(2)
                 /\ cursor' = Start(i + 1) - Start(2)
        <3>1. i > 1 /\ received - buffered = Start(2) /\ cursor = Start(i) - Start(2)
            BY <2>2, <2>8 DEF AtFrame
        <3>2. /\ i \in 1 .. Len(frames) /\ Current = frames[i] /\ Complete(i) /\ Acceptable(i)
              /\ FrameEnd \in Nat
            BY <1>0, <2>2, <2>8, ReadIsComplete
        <3>3. /\ Start(i) \in Nat /\ Size(frames[i]) \in Nat /\ Start(i + 1) = Start(i) + Size(frames[i])
            BY <1>0, <3>2, StartsOfFrames
        <3>4. Start(2) \in Nat
            <4>1. 2 \in 1 .. Len(frames) + 1
                BY <2>3, <3>1, <3>2
            <4> QED
                BY <1>0, <4>1, StartsOfFrames
        <3> QED
            BY <2>8, <3>1, <3>2, <3>3, <3>4 DEF FrameEnd
    <2>9. CASE FramePassed
        <3>1. /\ stage = "WaitForReady" /\ FrameRead /\ ~Terminal(Current) /\ cursor' = FrameEnd
              /\ UNCHANGED <<frames, sent, stage, startup, received, buffered, outcome>>
            BY <2>9 DEF FramePassed, upstream
        <3>2. /\ i > 1 /\ i \in 1 .. Len(frames) /\ Current = frames[i] /\ Complete(i) /\ Acceptable(i)
              /\ received - buffered = Start(2) /\ cursor' \in Nat
              /\ cursor' = Start(i + 1) - Start(2)
            BY <2>8, <3>1
        <3>3. UpstreamTypeOK'
            BY <1>0, <3>1, <3>2 DEF UpstreamTypeOK, Start
        <3>4. AtFrame(i + 1)'
            BY <3>1, <3>2 DEF AtFrame, Start
        <3>5. Passed(i + 1)'
            <4>1. \A j \in 1 .. i : Complete(j) /\ Acceptable(j)
                <5>1. \A j \in 1 .. i : j = i \/ j \in 1 .. i - 1
                    BY <3>2
                <5> QED
                    BY <2>2, <3>2, <5>1 DEF Passed
            <4>2. \A j \in 2 .. i : ~Terminal(frames[j])
                <5>1. \A j \in 2 .. i : j = i \/ j \in 2 .. i - 1
                    BY <3>2
                <5> QED
                    BY <2>2, <3>1, <3>2, <5>1 DEF Passed
            <4>3. AuthenticationError(frames[1]) = "None" /\ (i + 1) - 1 = i
                BY <2>2, <3>2 DEF Passed
            <4> QED
                BY <3>1, <4>1, <4>2, <4>3 DEF Passed, Complete, Acceptable, Start
        <3>6. i + 1 \in 1 .. Len(frames') + 1
            BY <2>3, <3>1, <3>2
        <3> QED
            BY <1>0, <3>1, <3>3, <3>4, <3>5, <3>6 DEF ReaderInv, InStep, ChunksAreInvisible, Reading
    <2>10. CASE BurstComplete
        <3>1. /\ stage = "WaitForReady" /\ FrameRead /\ Terminal(Current) /\ cursor' = FrameEnd
              /\ stage' = "Connected"
              /\ UNCHANGED <<frames, sent, startup, received, buffered>>
            BY <2>10 DEF BurstComplete, upstream
        <3>2. /\ i > 1 /\ i \in 1 .. Len(frames) /\ Current = frames[i] /\ Complete(i) /\ Acceptable(i)
              /\ received - buffered = Start(2) /\ cursor' \in Nat
              /\ cursor' = Start(i) + Size(frames[i]) - Start(2)
            BY <2>8, <3>1
        <3>3. UpstreamTypeOK'
            BY <1>0, <3>1, <3>2 DEF UpstreamTypeOK, Start
        <3>4. i \in Handshake
            <4>1. \A j \in 1 .. i : j = i \/ j \in 1 .. i - 1
                BY <3>2
            <4>2. i \in DOMAIN frames
                BY <1>0, <3>2, LenProperties DEF UpstreamTypeOK
            <4> QED
                BY <2>2, <3>2, <4>1, <4>2 DEF Passed, Handshake
        <3>5. Handshake' = Handshake
            BY <3>1 DEF Handshake, Complete, Acceptable, Start
        <3>6. ChunksAreInvisible'
            BY <3>1, <3>2, <3>4, <3>5 DEF ChunksAreInvisible, Reading, Start
        <3> QED
            BY <3>1, <3>3, <3>6 DEF ReaderInv, InStep, Reading
    <2> QED
        BY <1>5, <2>4, <2>5, <2>6, <2>7, <2>9, <2>10 DEF TaskStep
<1>6. CASE ReadFails
    BY <1>6, FailureIsRight DEF ReadFails
<1> QED
    BY <1>1, <1>2, <1>3, <1>4, <1>5, <1>6 DEF Next

\* connect succeeds or fails, and splits the burst off, as the bytes PostgreSQL
\* sent demand, whatever chunks read_frame and read_until got them in, for every
\* answer, every place it is cut off and all limits on lengths.
THEOREM ChunksNeverShow == Spec => []ChunksAreInvisible
<1>1. ReaderInv => ChunksAreInvisible
    BY DEF ReaderInv
<1> QED
    BY <1>1, ReaderStarts, ReaderStep, PTL DEF Spec
=============================================================================
