------------------------- MODULE ZincFramingProofs -------------------------
(***************************************************************************)
(* Proofs about ZincFraming for every VarInt base, every set of frame      *)
(* lengths with one- or two-digit prefixes and every number of frames.     *)
(***************************************************************************)
EXTENDS ZincFraming, ZincSumsProofs

\* getVarNumericLength: a prefix has one or two bytes and a frame is longer
\* than its prefix.
LEMMA SizeType ==
  ASSUME NEW length \in Length
  PROVE  /\ length \in Nat /\ length > 0
         /\ Prefix(length) \in {1, 2}
         /\ Size(length) \in Nat /\ Size(length) = Prefix(length) + length
  BY BaseAssumption, LengthAssumption DEF Prefix, Size

\* readVarNumeric on what is there of a frame: the true length when the prefix
\* is complete, a number below Base otherwise.
LEMMA DecodedType ==
  ASSUME NEW length \in Length, input \in Nat
  PROVE  /\ Decoded(length) \in Nat
         /\ input >= Prefix(length) => Decoded(length) = length
  BY SizeType, BaseAssumption DEF Decoded

\* evbuffer_drain never takes more than there is.
LEMMA DrainedType ==
  ASSUME NEW decoded \in Nat, input \in Nat
  PROVE  Drained(decoded) \in 0..input
<1>1. Size(decoded) \in Nat
  BY DEF Size, Prefix
<1> QED BY <1>1 DEF Drained

\* Every frame that was handled is one that was sent.
HandledWasSent == \A i \in DOMAIN handled : handled[i].frame \in DOMAIN frames

IInv == TypeOK /\ HandledWasSent /\ ShortByPrefixAtMost

\* A frame that read() does not wait for is short by its prefix at most.
LEMMA TakenShort ==
  ASSUME TypeOK, Take
  PROVE  /\ Current \in DOMAIN frames /\ frames[Current] \in Length
         /\ \E have \in Nat :
              /\ handled' = Append(handled, [frame |-> Current, have |-> have])
              /\ \/ Size(frames[Current]) - have <= Prefix(frames[Current])
                 \/ have < Prefix(frames[Current])
<1> DEFINE length == frames[Current]
           have   == IF input < Size(length) THEN input ELSE Size(length)
<1>1. Current \in DOMAIN frames /\ length \in Length
  BY DEF Take, Reads, TypeOK
<1>2. have \in Nat /\ input \in Nat
  BY <1>1, SizeType DEF TypeOK
<1>3. ~(Decoded(length) > input)
  BY DEF Take, Waits
<1>4. CASE input >= Prefix(length)
  <2>1. length <= input
    BY <1>1, <1>2, <1>3, <1>4, DecodedType, SizeType
  <2>2. Size(length) - have <= Prefix(length)
    BY <1>1, <1>2, <2>1, SizeType
  <2> QED BY <1>1, <1>2, <2>2 DEF Take
<1>5. CASE input < Prefix(length)
  <2>1. have < Prefix(length)
    BY <1>1, <1>2, <1>5, SizeType
  <2> QED BY <1>1, <1>2, <2>1 DEF Take
<1> QED BY <1>1, <1>2, <1>4, <1>5, SizeType

\* Types: nothing is drained, or comes off the network, that was not there.
LEMMA NextType ==
  ASSUME TypeOK, [Next]_vars
  PROVE  TypeOK'
<1> USE DEF TypeOK
<1>1. ASSUME NEW length \in Length, Send(length) PROVE TypeOK'
  BY <1>1, SizeType, BoundAssumption DEF Send
<1>2. ASSUME NEW n \in 1..inFlight, Arrive(n) PROVE TypeOK'
  BY <1>2 DEF Arrive
<1>3. CASE Wait
  <2>1. input' = input /\ encrypted' = encrypted /\ stale' \in 0..(IF encrypted' THEN input' ELSE 0)
    BY <1>3 DEF Wait, Leave
  <2> QED BY <1>3, <2>1 DEF Wait
<1>4. CASE Take
  <2> DEFINE length == frames[Current]
             rest   == Drained(Decoded(length))
  <2>1. Current \in DOMAIN frames /\ length \in Length
    BY <1>4, TakenShort
  <2>2. rest \in 0..input
    BY <2>1, DecodedType, DrainedType
  <2>3. input' \in Nat /\ input' = rest
    BY <1>4, <2>2 DEF Take, Leave
  <2>4. encrypted' \in BOOLEAN /\ (encrypted => encrypted')
    <3>1. encrypted' = encrypted \/ encrypted' = (encrypted \/ Current > 1)
      BY <1>4 DEF Take
    <3> QED BY <3>1
  <2>5. stale' \in 0..(IF encrypted' THEN input' ELSE 0)
    <3>1. stale' = IF encrypted THEN rest ELSE 0
      BY <1>4 DEF Take, Leave
    <3> QED BY <2>2, <2>3, <2>4, <3>1
  <2>6. Current \in 1..MaxFrames
    BY <2>1, BoundAssumption
  <2>7. handled' \in Seq([frame : 1..MaxFrames, have : Nat])
    <3>1. PICK have \in Nat : handled' = Append(handled, [frame |-> Current, have |-> have])
      BY <1>4, TakenShort
    <3> QED BY <2>6, <3>1
  <2>8. status' \in {"framed", "astray", "dead"}
    BY <1>4 DEF Take
  <2>9. reading' \in BOOLEAN
    BY <1>4 DEF Take
  <2> QED BY <1>4, <2>3, <2>4, <2>5, <2>7, <2>8, <2>9 DEF Take
<1>5. CASE Garble
  BY <1>5 DEF Garble
<1>6. CASE UNCHANGED vars
  BY <1>6 DEF vars
<1> QED BY <1>1, <1>2, <1>3, <1>4, <1>5, <1>6 DEF Next

\* Nothing has been sent or handled at the start.
LEMMA InitIInv == Init => IInv
<1> SUFFICES ASSUME Init PROVE IInv
  OBVIOUS
<1>1. \A S : <<>> \in Seq(S)
  OBVIOUS
<1>2. frames = <<>> /\ handled = <<>> /\ Len(frames) = 0
  BY DEF Init
<1>3. TypeOK
  <2>1. frames \in Seq(Length) /\ Len(frames) <= MaxFrames
    BY <1>1, <1>2, BoundAssumption
  <2>2. handled \in Seq([frame : 1..MaxFrames, have : Nat])
    BY <1>1, <1>2
  <2>3. input = 0 /\ inFlight = 0 /\ encrypted = FALSE /\ stale = 0 /\ reading = FALSE /\ status = "framed"
    BY DEF Init
  <2>4. stale \in 0..(IF encrypted THEN input ELSE 0) /\ input \in Nat /\ inFlight \in Nat
    BY <2>3
  <2> QED BY <2>1, <2>2, <2>3, <2>4 DEF TypeOK
<1> QED BY <1>2, <1>3 DEF IInv, HandledWasSent, ShortByPrefixAtMost

\* ZincFraming.tla's variables keep their types.
THEOREM TypeCorrect == Spec => []TypeOK
<1>1. Init => TypeOK
  BY InitIInv DEF IInv
<1> QED BY <1>1, NextType, PTL DEF Spec

\* The check of ZincConnection::read lets a frame through early only when what
\* is missing is no longer than the length prefix, or the prefix itself is cut.
THEOREM ShortCorrect == Spec => []ShortByPrefixAtMost
<1>1. Init => IInv
  BY InitIInv
<1>2. ASSUME IInv, [Next]_vars PROVE HandledWasSent' /\ ShortByPrefixAtMost'
  <2> USE <1>2 DEF IInv
  <2>1. ASSUME handled' = handled,
               \A i \in DOMAIN frames : i \in DOMAIN frames' /\ frames'[i] = frames[i]
        PROVE  HandledWasSent' /\ ShortByPrefixAtMost'
    BY <2>1 DEF HandledWasSent, ShortByPrefixAtMost
  <2>2. ASSUME NEW length \in Length, Send(length)
        PROVE  HandledWasSent' /\ ShortByPrefixAtMost'
    <3>1. \A i \in DOMAIN frames : i \in DOMAIN frames' /\ frames'[i] = frames[i]
      BY <2>2 DEF Send, TypeOK
    <3> QED BY <2>1, <2>2, <3>1 DEF Send
  <2>3. CASE Take
    <3>1. frames' = frames
      BY <2>3 DEF Take
    <3>2. PICK have \in Nat :
            /\ handled' = Append(handled, [frame |-> Current, have |-> have])
            /\ \/ Size(frames[Current]) - have <= Prefix(frames[Current])
               \/ have < Prefix(frames[Current])
      BY <2>3, TakenShort
    <3>3. /\ DOMAIN handled' = DOMAIN handled \cup {Current}
          /\ handled'[Current] = [frame |-> Current, have |-> have]
          /\ \A i \in DOMAIN handled : handled'[i] = handled[i]
      BY <3>2 DEF TypeOK, Current
    <3>4. Current \in DOMAIN frames
      BY <2>3, TakenShort
    <3> QED BY <3>1, <3>2, <3>3, <3>4 DEF HandledWasSent, ShortByPrefixAtMost
  <2>4. CASE UNCHANGED <<handled, frames>>
    BY <2>1, <2>4
  <2> QED BY <2>2, <2>3, <2>4 DEF Next, Arrive, Wait, Garble, vars
<1>3. IInv /\ [Next]_vars => IInv'
  BY <1>2, NextType DEF IInv
<1>4. IInv => ShortByPrefixAtMost
  BY DEF IInv
<1> QED BY <1>1, <1>3, <1>4, PTL DEF Spec

-----------------------------------------------------------------------------
(* The bytes of the stream are accounted for.                              *)

Sizes(sent) == [i \in DOMAIN sent |-> Size(sent[i])]

\* The positions behind the frames sent, frame by frame.
LEMMA FrameEndUnfolds ==
  ASSUME NEW sent \in Seq(Length)
  PROVE  /\ Len(sent) \in Nat /\ DOMAIN sent = 1..Len(sent)
         /\ Sizes(sent) \in [1..Len(sent) -> Nat]
         /\ FrameEnd(sent, 0) = 0
         /\ \A k \in 0..Len(sent) : FrameEnd(sent, k) \in Nat
         /\ \A k \in 1..Len(sent) : FrameEnd(sent, k) = FrameEnd(sent, k - 1) + Size(sent[k])
<1> DEFINE m == Len(sent)
<1>1. m \in Nat /\ DOMAIN sent = 1..m /\ \A i \in 1..m : sent[i] \in Length
  OBVIOUS
<1> HIDE DEF m
<1>2. Sizes(sent) \in [1..m -> Nat] /\ \A i \in 1..m : Sizes(sent)[i] = Size(sent[i])
  BY <1>1, SizeType DEF Sizes
<1>3. \A k : FrameEnd(sent, k) = End(Sizes(sent), k)
  BY DEF FrameEnd, Sizes
<1>4. /\ End(Sizes(sent), 0) = 0
      /\ \A k \in 0..m : End(Sizes(sent), k) \in Nat
      /\ \A k \in 1..m : End(Sizes(sent), k) = End(Sizes(sent), k - 1) + Sizes(sent)[k]
  BY <1>1, <1>2, EndUnfolds
<1> QED BY <1>1, <1>2, <1>3, <1>4 DEF m

\* A frame that is sent goes behind the others.
LEMMA SendExtends ==
  ASSUME NEW sent \in Seq(Length), NEW length \in Length, NEW next, next = Append(sent, length)
  PROVE  /\ Len(next) = Len(sent) + 1
         /\ \A k \in 0..Len(sent) : FrameEnd(next, k) = FrameEnd(sent, k)
         /\ FrameEnd(next, Len(next)) = FrameEnd(sent, Len(sent)) + Size(length)
<1> DEFINE m == Len(sent)
<1>1. next \in Seq(Length)
  OBVIOUS
<1>2. m \in Nat /\ DOMAIN sent = 1..m /\ Sizes(sent) \in [1..m -> Nat]
  BY FrameEndUnfolds
<1>3. /\ Len(next) = m + 1 /\ DOMAIN next = 1..m + 1
      /\ next[m + 1] = length /\ \A i \in 1..m : next[i] = sent[i]
  BY <1>2
<1>4. /\ Sizes(next) \in [1..m + 1 -> Nat]
      /\ \A k \in 1..m + 1 : FrameEnd(next, k) = FrameEnd(next, k - 1) + Size(next[k])
  BY <1>1, <1>3, FrameEndUnfolds
<1> HIDE DEF m
<1>5. \A i \in 1..m : Sizes(next)[i] = Sizes(sent)[i]
  BY <1>2, <1>3 DEF Sizes
<1>6. ASSUME NEW k \in 0..m PROVE FrameEnd(next, k) = FrameEnd(sent, k)
  <2>1. /\ k \in Nat /\ k <= m /\ k <= m + 1 /\ m + 1 \in Nat
        /\ \A i \in 1..k : Sizes(next)[i] = Sizes(sent)[i]
    BY <1>2, <1>5
  <2>2. End(Sizes(next), k) = End(Sizes(sent), k)
    BY <1>2, <1>4, <2>1, EndOfPrefix
  <2> QED BY <2>2 DEF FrameEnd, Sizes
<1>7. FrameEnd(next, m + 1) = FrameEnd(next, m) + Size(length)
  <2>1. PICK k \in 1..m + 1 : k = m + 1 /\ k - 1 = m
    BY <1>2
  <2>2. FrameEnd(next, k) = FrameEnd(next, k - 1) + Size(next[k])
    BY <1>4
  <2>3. next[k] = length
    BY <1>3, <2>1
  <2>4. FrameEnd(next, k) = FrameEnd(next, m) + Size(length)
    BY <2>1, <2>2, <2>3
  <2> QED BY <2>1, <2>4
<1>8. m \in 0..m
  BY <1>2
<1> QED BY <1>2, <1>3, <1>6, <1>7, <1>8 DEF m

Accounted ==
  /\ Len(handled) <= Len(frames) /\ (reading => status = "framed")
  /\ BytesAccounted

\* A packet that is handed on complete is drained with its prefix, and nothing
\* of the next.
LEMMA TakeAccounts ==
  ASSUME TypeOK, Accounted, Take
  PROVE  Accounted'
<1> DEFINE h == Len(handled)
           length == frames[h + 1]
           have == IF input < Size(length) THEN input ELSE Size(length)
<1>1. h \in Nat /\ h + 1 \in 1..Len(frames) /\ length \in Length /\ frames \in Seq(Length)
  BY TakenShort DEF Current, TypeOK
<1>2. frames' = frames /\ Len(handled') = h + 1
  BY DEF Take, TypeOK
<1>3. Len(handled') <= Len(frames') /\ (reading' => status' = "framed")
  <2>1. reading' = (status' = "framed" /\ Continues(Current) /\ Drained(Decoded(frames[Current])) > 0)
    BY Zenon DEF Take
  <2>2. reading' => status' = "framed"
    BY <2>1, Zenon
  <2> QED BY <1>1, <1>2, <2>2
<1>4. ASSUME status' = "framed"
      PROVE  input' + inFlight' = FrameEnd(frames, Len(frames)) - FrameEnd(frames, h + 1)
  <2>1. input + inFlight = FrameEnd(frames, Len(frames)) - FrameEnd(frames, h)
    <3>1. status = "framed"
      BY <1>1 DEF Take, Reads, Accounted
    <3> QED BY <3>1 DEF Accounted, BytesAccounted
  <2>2. FrameEnd(frames, h + 1) = FrameEnd(frames, h) + Size(length)
    <3>1. h + 1 - 1 = h
      BY <1>1
    <3> QED BY <1>1, <3>1, FrameEndUnfolds
  <2>3. /\ input' = Drained(Decoded(length)) /\ inFlight' = inFlight
        /\ have >= Size(length)
    BY <1>1, <1>4, SizeType DEF Take, Leave, Current
  <2>4. input \in Nat /\ inFlight \in Nat
    BY DEF TypeOK
  <2>5. input >= Size(length)
    BY <1>1, <2>3, <2>4, SizeType
  <2>6. Decoded(length) = length
    <3>1. Prefix(length) \in Nat /\ length \in Nat /\ Size(length) = Prefix(length) + length
      BY <1>1, SizeType
    <3>2. input >= Prefix(length)
      BY <2>4, <2>5, <3>1
    <3> QED BY <1>1, <2>4, <3>2, DecodedType
  <2>7. input' = input - Size(length)
    BY <1>1, <2>3, <2>4, <2>5, <2>6, SizeType DEF Drained
  <2>8. /\ FrameEnd(frames, Len(frames)) \in Nat /\ FrameEnd(frames, h) \in Nat
        /\ Size(length) \in Nat
    <3>1. h \in 0..Len(frames) /\ Len(frames) \in 0..Len(frames)
      BY <1>1
    <3> QED BY <1>1, <3>1, FrameEndUnfolds, SizeType
  <2> HIDE DEF h, length
  <2> QED BY <2>1, <2>2, <2>3, <2>4, <2>7, <2>8
<1> QED BY <1>2, <1>3, <1>4 DEF Accounted, BytesAccounted

\* read() and evbuffer_drain lose no byte and take none twice, however the stream
\* is cut: while the connection is framed, what is in the evbuffer and on the way
\* is exactly the frames not yet handled.
THEOREM BytesCorrect == Spec => []BytesAccounted
<1>1. Init => TypeOK /\ Accounted
  <2> SUFFICES ASSUME Init PROVE TypeOK /\ Accounted
    OBVIOUS
  <2>1. TypeOK
    BY InitIInv DEF IInv
  <2>2. Len(frames) = 0 /\ Len(handled) = 0 /\ input = 0 /\ inFlight = 0
    BY DEF Init
  <2>3. FrameEnd(frames, 0) = 0
    BY <2>1, FrameEndUnfolds DEF TypeOK
  <2>4. reading = FALSE
    BY DEF Init
  <2> QED BY <2>1, <2>2, <2>3, <2>4 DEF Accounted, BytesAccounted
<1>2. ASSUME TypeOK, Accounted, [Next]_vars PROVE Accounted'
  <2>1. /\ Len(frames) \in Nat /\ Len(handled) \in Nat /\ Len(handled) <= Len(frames)
        /\ inFlight \in Nat /\ input \in Nat
        /\ Len(handled) \in 0..Len(frames) /\ Len(frames) \in 0..Len(frames)
        /\ frames \in Seq(Length)
    BY <1>2 DEF TypeOK, Accounted
  <2>2. CASE \E length \in Length : Send(length)
    <3>1. PICK length \in Length : Send(length)
      BY <2>2
    <3>2. frames' = Append(frames, length)
      BY <3>1 DEF Send
    <3>3. /\ Len(frames') = Len(frames) + 1
          /\ FrameEnd(frames', Len(handled)) = FrameEnd(frames, Len(handled))
          /\ FrameEnd(frames', Len(frames')) = FrameEnd(frames, Len(frames)) + Size(length)
      BY <2>1, <3>2, SendExtends
    <3>4. /\ handled' = handled /\ input' = input /\ status' = status /\ reading' = reading
          /\ inFlight' = inFlight + Size(length)
      BY <3>1 DEF Send
    <3>5. /\ FrameEnd(frames, Len(frames)) \in Nat /\ FrameEnd(frames, Len(handled)) \in Nat
          /\ Size(length) \in Nat
      BY <2>1, FrameEndUnfolds, SizeType
    <3>6. status = "framed" => input' + inFlight' = FrameEnd(frames', Len(frames')) - FrameEnd(frames', Len(handled'))
      <4>1. status = "framed" => input + inFlight = FrameEnd(frames, Len(frames)) - FrameEnd(frames, Len(handled))
        BY <1>2 DEF Accounted, BytesAccounted
      <4> QED BY <2>1, <3>3, <3>4, <3>5, <4>1
    <3>7. Len(handled') <= Len(frames') /\ (reading' => status' = "framed")
      BY <1>2, <2>1, <3>3, <3>4 DEF Accounted
    <3> QED BY <3>4, <3>6, <3>7 DEF Accounted, BytesAccounted
  <2>3. CASE \E n \in 1..inFlight : Arrive(n)
    BY <1>2, <2>1, <2>3 DEF Arrive, Accounted, BytesAccounted
  <2>4. CASE Wait
    BY <1>2, <2>4 DEF Wait, Leave, Accounted, BytesAccounted
  <2>5. CASE Take
    BY <1>2, <2>5, TakeAccounts
  <2>6. CASE Garble
    BY <1>2, <2>6 DEF Garble, Accounted, BytesAccounted
  <2>7. CASE UNCHANGED vars
    BY <1>2, <2>7 DEF vars, Accounted, BytesAccounted
  <2> QED BY <1>2, <2>2, <2>3, <2>4, <2>5, <2>6, <2>7 DEF Next
<1>3. TypeOK /\ Accounted /\ [Next]_vars => (TypeOK /\ Accounted)'
  BY <1>2, NextType
<1>4. Accounted => BytesAccounted
  BY DEF Accounted
<1> QED BY <1>1, <1>3, <1>4, PTL DEF Spec
=============================================================================
