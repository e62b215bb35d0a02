-------------------------- MODULE ApduChainingProofs --------------------------
(***************************************************************************)
(* Proofs about ApduChaining, for any lengths of commands and responses,    *)
(* any Le and any size of a piece: as long as the Reader has not given up a *)
(* command on a link, what one side handles is what the other side sent.    *)
(***************************************************************************)
EXTENDS ApduChaining, SequenceTheorems, TLAPS

USE DEF AnyLength, Gone

-----------------------------------------------------------------------------
(* Pieces.                                                                  *)

\* Cutting off the first n elements loses nothing.
LEMMA Cut ==
    ASSUME NEW S, NEW d \in Seq(S), NEW n \in Nat
    PROVE  /\ First(d, n) \in Seq(S) /\ After(d, n) \in Seq(S)
           /\ First(d, n) \o After(d, n) = d
           /\ Len(First(d, n)) <= n /\ Len(First(d, n)) <= Len(d)
           /\ Len(d) <= n => First(d, n) = d /\ After(d, n) = <<>>
           /\ Len(d) > n  => After(d, n) # <<>> /\ Len(After(d, n)) = Len(d) - n
  <1>1. Len(d) \in Nat /\ \A i \in 1 .. Len(d) : d[i] \in S
    BY LenProperties, ElementOfSeq
  <1>2. CASE Len(d) <= n
    BY <1>1, <1>2, ConcatEmptySeq, EmptySeq DEF First, After
  <1>3. CASE Len(d) > n
    <2> DEFINE f == SubSeq(d, 1, n)
               a == SubSeq(d, n + 1, Len(d))
    <2>1. First(d, n) = f /\ After(d, n) = a
      BY <1>1, <1>3 DEF First, After
    <2>2. f \in Seq(S) /\ Len(f) = IF 1 <= n THEN n - 1 + 1 ELSE 0
      <3>1. \A i \in 1 .. n : d[i] \in S
        BY <1>1, <1>3
      <3>2. QED
        BY <3>1, SubSeqProperties
    <2>3. a \in Seq(S) /\ Len(a) = IF n + 1 <= Len(d) THEN Len(d) - (n + 1) + 1 ELSE 0
      <3>1. \A i \in n + 1 .. Len(d) : d[i] \in S
        BY <1>1, <1>3
      <3>2. QED
        BY <1>1, <3>1, SubSeqProperties
    <2>4. f \o a = d
      <3>1. 1 \in 1 .. Len(d) + 1 /\ n \in 1 - 1 .. Len(d) /\ Len(d) \in n .. Len(d)
        BY <1>1, <1>3
      <3>2. f \o a = SubSeq(d, 1, Len(d))
        BY <3>1, ConcatAdjacentSubSeq
      <3>3. QED
        BY <3>2, SubSeqFull
    <2> HIDE DEF f, a
    <2>5. Len(f) = n /\ Len(a) = Len(d) - n
      BY <1>1, <1>3, <2>2, <2>3
    <2>6. a # <<>>
      BY <1>1, <1>3, <2>5, EmptySeq
    <2>7. QED
      BY <1>1, <1>3, <2>1, <2>2, <2>3, <2>4, <2>5, <2>6
  <1>4. QED
    BY <1>1, <1>2, <1>3

\* The data of a command or response.
LEMMA BytesType ==
    ASSUME NEW k \in Nat, NEW n \in Nat
    PROVE  /\ Bytes(k, n) \in Seq(Element) /\ Len(Bytes(k, n)) = n
           /\ \A i \in 1 .. Len(Bytes(k, n)) : Bytes(k, n)[i][1] = k
  BY DEF Bytes, Element

-----------------------------------------------------------------------------
(* Queues.                                                                  *)

\* A message that is put into a quiet queue is the only one.
LEMMA QuietAppend ==
    ASSUME NEW S, NEW q \in Seq(S), NEW m \in S, Quiet(q)
    PROVE  /\ m.type = "busy" => Quiet(Append(q, m))
           /\ m.type # "busy" => Only(Append(q, m), m)
  <1>1. /\ Len(q) \in Nat /\ Len(Append(q, m)) = Len(q) + 1 /\ Append(q, m)[Len(q) + 1] = m
        /\ \A i \in 1 .. Len(q) : Append(q, m)[i] = q[i]
    BY AppendProperties, LenProperties
  <1>2. QED
    BY <1>1 DEF Quiet, Only

\* A busy event changes nothing.
LEMMA OnlyAppend ==
    ASSUME NEW S, NEW q \in Seq(S), NEW b \in S, b.type = "busy", NEW m, Only(q, m)
    PROVE  Only(Append(q, b), m)
  <1>1. /\ Len(q) \in Nat /\ Len(Append(q, b)) = Len(q) + 1 /\ Append(q, b)[Len(q) + 1] = b
        /\ \A i \in 1 .. Len(q) : Append(q, b)[i] = q[i]
    BY AppendProperties, LenProperties
  <1>2. QED
    BY <1>1 DEF Only

\* What is taken from a quiet queue is a busy event.
LEMMA QuietTail ==
    ASSUME NEW S, NEW q \in Seq(S), q # <<>>, Quiet(q)
    PROVE  Head(q).type = "busy" /\ Quiet(Tail(q)) /\ Tail(q) \in Seq(S)
  <1>1. /\ Len(q) \in Nat \ {0} /\ Tail(q) \in Seq(S) /\ Len(Tail(q)) = Len(q) - 1 /\ Head(q) = q[1]
        /\ \A i \in 1 .. Len(Tail(q)) : Tail(q)[i] = q[i + 1]
    BY HeadTailProperties, EmptySeq
  <1>2. QED
    BY <1>1 DEF Quiet

\* From another one it is the only message, or a busy event.
LEMMA OnlyTail ==
    ASSUME NEW S, NEW q \in Seq(S), NEW m, Only(q, m)
    PROVE  /\ q # <<>> /\ Tail(q) \in Seq(S)
           /\ Head(q).type = "busy" => Only(Tail(q), m)
           /\ Head(q).type # "busy" => Head(q) = m /\ Quiet(Tail(q))
  <1>1. PICK i \in 1 .. Len(q) : /\ q[i] = m /\ m.type # "busy"
                                 /\ \A j \in 1 .. Len(q) : j # i => q[j].type = "busy"
    BY DEF Only
  <1>2. q # <<>>
    BY <1>1, EmptySeq
  <1>3. /\ Len(q) \in Nat \ {0} /\ Tail(q) \in Seq(S) /\ Len(Tail(q)) = Len(q) - 1 /\ Head(q) = q[1]
        /\ \A j \in 1 .. Len(Tail(q)) : Tail(q)[j] = q[j + 1]
    BY <1>2, HeadTailProperties, EmptySeq
  <1>4. CASE i = 1
    <2>1. \A j \in 1 .. Len(Tail(q)) : j + 1 \in 1 .. Len(q) /\ j + 1 # 1
      BY <1>3
    <2>2. QED
      BY <1>1, <1>2, <1>3, <1>4, <2>1 DEF Quiet
  <1>5. CASE i # 1
    <2>1. q[1].type = "busy" /\ i - 1 \in 1 .. Len(Tail(q)) /\ Tail(q)[i - 1] = m
      BY <1>1, <1>3, <1>5
    <2>2. \A j \in 1 .. Len(Tail(q)) : j # i - 1 => Tail(q)[j].type = "busy"
      BY <1>1, <1>3, <1>5
    <2>3. QED
      BY <1>1, <1>2, <1>3, <2>1, <2>2 DEF Only
  <1>6. QED
    BY <1>4, <1>5

\* The only message is one of the queue.
LEMMA OnlyType ==
    ASSUME NEW S, NEW q \in Seq(S), NEW m, Only(q, m)
    PROVE  m \in S
  BY ElementOfSeq DEF Only

-----------------------------------------------------------------------------
(* Types.                                                                   *)

\* Pieces have room for at least one byte.
LEMMA RoomType ==
    ASSUME NEW data, NEW le
    PROVE  Room(data, le) \in Nat
  BY ChainingAssumption DEF Room

\* What is sent to the device.
LEMMA DeviceMessageType ==
    /\ \A data \in Seq(Element), room \in Nat, le \in 0 .. AnyLength, class \in BOOLEAN :
          Piece(data, room, le, class) \in MessagesToDevice
    /\ \A le \in 0 .. AnyLength, class \in BOOLEAN : GetResponse(le, class) \in MessagesToDevice
    /\ \A seen \in BOOLEAN : Busy(seen) \in MessagesToDevice
  <1>1. ASSUME NEW data \in Seq(Element), NEW room \in Nat, NEW le \in 0 .. AnyLength,
               NEW class \in BOOLEAN
        PROVE  Piece(data, room, le, class) \in MessagesToDevice
    <2>1. First(data, room) \in Seq(Element) /\ (Len(data) > room) \in BOOLEAN
      BY Cut
    <2>2. QED
      BY <2>1 DEF Piece, Command, MessagesToDevice
  <1>2. \A le \in 0 .. AnyLength, class \in BOOLEAN : GetResponse(le, class) \in MessagesToDevice
    BY EmptySeq DEF GetResponse, MessagesToDevice
  <1>3. \A seen \in BOOLEAN : Busy(seen) \in MessagesToDevice
    BY DEF Busy, MessagesToDevice, Busies
  <1>4. QED
    BY <1>1, <1>2, <1>3

\* What is sent to the Reader.
LEMMA ReaderMessageType ==
    /\ \A data \in Seq(Element), n \in Nat, status \in {"SUCCESS", "ERROR"} :
          Part(data, n, status) \in MessagesToReader
    /\ \A status \in {"SUCCESS", "ERROR"} : Response(<<>>, status, 0) \in MessagesToReader
    /\ \A seen \in BOOLEAN : Busy(seen) \in MessagesToReader
  <1>1. 0 \in 0 .. MaxValueByte /\ MaxValueByte \in Nat
    BY ChainingAssumption
  <1>2. ASSUME NEW data \in Seq(Element), NEW n \in Nat, NEW status \in {"SUCCESS", "ERROR"}
        PROVE  Part(data, n, status) \in MessagesToReader
    <2>1. First(data, n) \in Seq(Element) /\ Len(data) \in Nat
      BY Cut, LenProperties
    <2>2. CASE Final(data, n)
      BY <1>1, <2>1, <2>2 DEF Part, Response, MessagesToReader
    <2>3. CASE ~ Final(data, n)
      <3>1. (IF Len(data) - n <= MaxValueByte THEN Len(data) - n ELSE 0) \in 0 .. MaxValueByte
        BY <1>1, <2>1, <2>3 DEF Final
      <3>2. QED
        BY <2>1, <2>3, <3>1 DEF Part, Response, MessagesToReader
    <2>4. QED
      BY <2>2, <2>3
  <1>3. \A status \in {"SUCCESS", "ERROR"} : Response(<<>>, status, 0) \in MessagesToReader
    BY <1>1, EmptySeq DEF Response, MessagesToReader
  <1>4. \A seen \in BOOLEAN : Busy(seen) \in MessagesToReader
    BY DEF Busy, MessagesToReader, Busies
  <1>5. QED
    BY <1>2, <1>3, <1>4

\* The first message of either queue.
LEMMA HeadType ==
    ASSUME TypeOK
    PROVE  /\ toDevice # <<>> => Head(toDevice) \in MessagesToDevice
                                 /\ Tail(toDevice) \in Seq(MessagesToDevice)
           /\ toReader # <<>> => Head(toReader) \in MessagesToReader
                                 /\ Tail(toReader) \in Seq(MessagesToReader)
  BY HeadTailProperties DEF TypeOK

\* The steps of the Reader keep the types.
LEMMA ReaderTypes ==
    ASSUME TypeOK, Start \/ ReaderStep
    PROVE  TypeOK'
  <1> USE DEF readerVars, deviceVars, history
  <1>1. CASE Start
    <2>1. PICK n \in CommandLengths, le \in Les, class \in BOOLEAN :
             /\ sent' = Command(Bytes(commands + 1, n), FALSE, le, class)
             /\ SendPiece(sent'.data, le)
      BY <1>1 DEF Start
    <2>2. /\ sent'.data \in Seq(Element) /\ sent'.le = le /\ le \in 0 .. AnyLength
          /\ sent'.interindustry \in BOOLEAN /\ commands' \in Nat
      <3>1. n \in Nat /\ le \in 0 .. AnyLength /\ commands + 1 \in Nat /\ commands' = commands + 1
        BY <1>1, ChainingAssumption DEF Start, TypeOK
      <3>2. Bytes(commands + 1, n) \in Seq(Element)
        BY <3>1, BytesType
      <3>3. QED
        BY <2>1, <3>1, <3>2 DEF Command
    <2>3. /\ rest' \in Seq(Element) /\ asked' \in 0 .. AnyLength
          /\ toDevice' \in Seq(MessagesToDevice)
      BY <2>1, <2>2, RoomType, Cut, DeviceMessageType, AppendProperties DEF SendPiece, TypeOK
    <2>4. QED
      BY <1>1, <2>2, <2>3, EmptySeq DEF Start, TypeOK
  <1>2. CASE NextPiece
    <2>1. /\ rest' \in Seq(Element) /\ asked' \in 0 .. AnyLength
          /\ toDevice' \in Seq(MessagesToDevice)
      BY <1>2, RoomType, Cut, DeviceMessageType, AppendProperties DEF NextPiece, SendPiece, TypeOK
    <2>2. toReader' \in Seq(MessagesToReader)
      BY <1>2, HeadType DEF NextPiece
    <2>3. QED
      BY <1>2, <2>1, <2>2 DEF NextPiece, TypeOK
  <1>3. CASE TakeResponse
    <2>1. /\ Head(toReader) \in MessagesToReader /\ Head(toReader).type = "response"
          /\ toReader' \in Seq(MessagesToReader)
      BY <1>3, HeadType DEF TakeResponse
    <2>2. Head(toReader).data \in Seq(Element) /\ Head(toReader).left \in 0 .. MaxValueByte
      BY <2>1 DEF MessagesToReader, Busies
    <2>3. total' \in Seq(Element)
      <3>1. total \o Head(toReader).data \in Seq(Element)
        BY <2>2, ConcatProperties DEF TypeOK
      <3>2. QED
        BY <1>3, <3>1 DEF TakeResponse, Extended
    <2>4. asked' \in 0 .. AnyLength
      <3>1. Head(toReader).left \in 0 .. AnyLength /\ AnyLength \in 0 .. AnyLength
        BY <2>2, ChainingAssumption
      <3>2. asked' \in {Head(toReader).left, AnyLength, asked}
        BY <1>3 DEF TakeResponse
      <3>3. QED
        BY <3>1, <3>2 DEF TypeOK
    <2>5. toDevice' \in Seq(MessagesToDevice)
      <3>1. Append(toDevice, GetResponse(asked', sent.interindustry)) \in Seq(MessagesToDevice)
        BY <2>4, DeviceMessageType, AppendProperties DEF TypeOK
      <3>2. QED
        BY <1>3, <3>1 DEF TakeResponse, TypeOK
    <2>6. reader' \in {"idle", "waiting", "done", "failed"}
      BY <1>3 DEF TakeResponse, TypeOK
    <2>7. QED
      BY <1>3, <2>1, <2>3, <2>4, <2>5, <2>6 DEF TakeResponse, TypeOK
  <1>4. CASE ReaderIsTold
    BY <1>4, HeadType DEF ReaderIsTold, TypeOK
  <1>5. QED
    BY <1>1, <1>2, <1>3, <1>4 DEF ReaderStep

\* So do those of the device.
LEMMA DeviceTypes ==
    ASSUME TypeOK, DeviceStep
    PROVE  TypeOK'
  <1> USE DEF readerVars, deviceVars, history
  <1>0. /\ 0 \in 0 .. MaxResponse /\ MaxResponse \in 0 .. MaxResponse
        /\ \A response \in MessagesToReader :
              Reply(response) => toReader' \in Seq(MessagesToReader)
    <2>1. 0 \in 0 .. MaxResponse /\ MaxResponse \in 0 .. MaxResponse
      BY ChainingAssumption
    <2>2. ASSUME NEW response \in MessagesToReader, Reply(response)
          PROVE  toReader' \in Seq(MessagesToReader)
      BY <2>2, AppendProperties DEF Reply, TypeOK
    <2>3. QED
      BY <2>1, <2>2
  <1>1. CASE Receive
    <2>1. /\ Head(toDevice) \in MessagesToDevice /\ Head(toDevice).type \in {"command", "get"}
          /\ toDevice' \in Seq(MessagesToDevice)
      BY <1>1, HeadType DEF Receive, DeviceGets
    <2>2. /\ Head(toDevice).data \in Seq(Element) /\ Head(toDevice).le \in 0 .. AnyLength
          /\ Gathered(payload, Head(toDevice).data) \in Seq(Element)
      <3>1. Head(toDevice).data \in Seq(Element) /\ Head(toDevice).le \in 0 .. AnyLength
        BY <2>1 DEF MessagesToDevice, Busies
      <3>2. QED
        BY <3>1, ConcatProperties DEF Gathered, TypeOK
    <2>3. PICK data \in Seq(Element) : Complete(data) \/ Acknowledge(data)
      BY <1>1, <2>2 DEF Receive
    <2>4. UNCHANGED <<readerVars, history>>
      BY <1>1 DEF Receive
    <2>5. CASE Complete(data)
      <3>1. length' \in 0 .. MaxResponse
        <4>1. length \in 0 .. MaxResponse /\ MaxResponse \in Nat
          BY ChainingAssumption DEF TypeOK
        <4>2. length' = Limit(Head(toDevice).le)
          BY <2>5 DEF Complete
        <4>3. QED
          BY <2>2, <4>1, <4>2 DEF Limit
      <3>2. interindustry' \in BOOLEAN
        BY <2>1, <2>5 DEF Complete, MessagesToDevice, Busies
      <3>3. QED
        BY <2>1, <2>4, <2>5, <3>1, <3>2 DEF Complete, TypeOK
    <2>6. CASE Acknowledge(data)
      <3>1. toReader' \in Seq(MessagesToReader)
        BY <1>0, <2>6, ReaderMessageType DEF Acknowledge
      <3>2. QED
        BY <2>1, <2>4, <2>6, <3>1 DEF Acknowledge, TypeOK
    <2>7. QED
      BY <2>3, <2>5, <2>6
  <1>2. CASE Respond
    <2>1. PICK n \in ResponseLengths, status \in {"SUCCESS", "ERROR"} :
             LET data == Bytes(commands, n) IN
             \/ /\ Reply(Part(data, length, status))
                /\ device' = (IF Final(data, length) THEN "listening" ELSE "responding")
                /\ chunk' = length /\ left' = After(data, length) /\ length' = MaxResponse
                /\ intended' = data
             \/ device' = "raised" /\ UNCHANGED <<chunk, left, length, toReader, intended>>
      BY <1>2 DEF Respond
    <2>2. Bytes(commands, n) \in Seq(Element) /\ length \in Nat
      <3>1. n \in Nat /\ commands \in Nat /\ length \in Nat
        BY ChainingAssumption DEF TypeOK
      <3>2. QED
        BY <3>1, BytesType
    <2>3. After(Bytes(commands, n), length) \in Seq(Element)
          /\ Part(Bytes(commands, n), length, status) \in MessagesToReader
      BY <2>2, Cut, ReaderMessageType
    <2>4. UNCHANGED <<readerVars, payload, interindustry, toDevice, dirty, commands, busies>>
      BY <1>2 DEF Respond
    <2>5. QED
      BY <1>0, <2>1, <2>2, <2>3, <2>4 DEF TypeOK
  <1>3. CASE Refuse \/ Raise
    <2>1. toReader' \in Seq(MessagesToReader)
      BY <1>0, <1>3, ReaderMessageType DEF Refuse, Raise, ReplyError, TypeOK
    <2>2. QED
      BY <1>0, <1>3, <2>1 DEF Refuse, Raise, ReplyError, TypeOK
  <1>4. CASE RespondNext
    <2>1. toDevice' \in Seq(MessagesToDevice)
      BY <1>4, HeadType DEF RespondNext, DeviceGets
    <2>2. chunk \in Nat /\ left \in Seq(Element)
      BY ChainingAssumption DEF TypeOK
    <2>3. UNCHANGED <<readerVars, payload, interindustry, chunk, history>>
      BY <1>4 DEF RespondNext
    <2>4. CASE Head(toDevice).interindustry
      <3>1. /\ Reply(Part(left, chunk, "SUCCESS")) /\ left' = After(left, chunk)
            /\ device' \in {"listening", "responding"} /\ UNCHANGED length
        BY <1>4, <2>4 DEF RespondNext
      <3>2. toReader' \in Seq(MessagesToReader) /\ left' \in Seq(Element)
        BY <1>0, <2>2, <3>1, Cut, ReaderMessageType
      <3>3. QED
        BY <2>1, <2>3, <3>1, <3>2 DEF TypeOK
    <2>5. CASE ~ Head(toDevice).interindustry
      <3>1. GiveUp /\ UNCHANGED left
        BY <1>4, <2>5 DEF RespondNext
      <3>2. toReader' \in Seq(MessagesToReader) /\ length' \in 0 .. MaxResponse
        BY <1>0, <3>1, ReaderMessageType DEF GiveUp, ReplyError, TypeOK
      <3>3. device' \in Gone
        BY <3>1 DEF GiveUp
      <3>4. QED
        BY <2>1, <2>3, <3>1, <3>2, <3>3 DEF TypeOK
    <2>6. QED
      BY <2>4, <2>5
  <1>5. CASE Interrupted \/ DeviceIsTold \/ BusyOutsideOfChain
    <2>1. toDevice' \in Seq(MessagesToDevice)
      BY <1>5, HeadType DEF Interrupted, DeviceIsTold, BusyOutsideOfChain, DeviceGets
    <2>2. toReader' \in Seq(MessagesToReader)
      BY <1>0, <1>5, ReaderMessageType
      DEF Interrupted, DeviceIsTold, BusyOutsideOfChain, GiveUp, ReplyError, TypeOK
    <2>3. /\ device' \in {device} \cup Gone /\ length' \in {length, MaxResponse}
          /\ dirty' \in {dirty, TRUE}
      BY <1>5 DEF Gone, Interrupted, DeviceIsTold, BusyOutsideOfChain, GiveUp, ReplyError
    <2>4. UNCHANGED <<readerVars, payload, interindustry, chunk, left, intended, commands>>
      BY <1>5 DEF Interrupted, DeviceIsTold, BusyOutsideOfChain
    <2>5. QED
      BY <1>0, <2>1, <2>2, <2>3, <2>4 DEF TypeOK
  <1>6. QED
    BY <1>1, <1>2, <1>3, <1>4, <1>5 DEF DeviceStep

\* And those of the link.
LEMMA LinkTypes ==
    ASSUME TypeOK, TellBusy \/ Reconnect
    PROVE  TypeOK'
  <1> USE DEF readerVars, deviceVars, history
  <1>1. CASE TellBusy
    <2>1. PICK seen \in BOOLEAN :
             \/ toReader' = Append(toReader, Busy(seen)) /\ UNCHANGED toDevice
             \/ toDevice' = Append(toDevice, Busy(seen)) /\ UNCHANGED toReader
      BY <1>1, ChainingAssumption DEF TellBusy
    <2>2. toReader' \in Seq(MessagesToReader) /\ toDevice' \in Seq(MessagesToDevice)
      <3>1. Busy(seen) \in MessagesToReader /\ Busy(seen) \in MessagesToDevice
        BY ReaderMessageType, DeviceMessageType
      <3>2. Append(toReader, Busy(seen)) \in Seq(MessagesToReader)
            /\ Append(toDevice, Busy(seen)) \in Seq(MessagesToDevice)
        BY <3>1, AppendProperties DEF TypeOK
      <3>3. QED
        BY <2>1, <3>2 DEF TypeOK
    <2>3. QED
      BY <1>1, <2>2 DEF TellBusy, TypeOK
  <1>2. CASE Reconnect
    <2>1. length' \in 0 .. MaxResponse
      BY <1>2, ChainingAssumption DEF Reconnect, TypeOK
    <2>2. QED
      BY <1>2, <2>1, EmptySeq DEF Reconnect, TypeOK
  <1>3. QED
    BY <1>1, <1>2

\* Every step keeps the types.
LEMMA TypeKept ==
    ASSUME TypeOK, [Next]_vars
    PROVE  TypeOK'
  <1>1. CASE UNCHANGED vars
    BY <1>1 DEF vars, readerVars, deviceVars, history, TypeOK
  <1>2. CASE Next
    BY <1>2, ReaderTypes, DeviceTypes, LinkTypes DEF Next
  <1>3. QED
    BY <1>1, <1>2

-----------------------------------------------------------------------------
(* Turns.                                                                   *)

\* Busy events that come or go do not change whose turn it is.
LEMMA BusyEvents ==
    ASSUME InTurn, Completed, UNCHANGED <<readerVars, intended, commands>>,
           UNCHANGED <<device, payload, length, chunk, left>>,
           Quiet(toDevice) => Quiet(toDevice'), \A m : Only(toDevice, m) => Only(toDevice', m),
           Quiet(toReader) => Quiet(toReader'), \A m : Only(toReader, m) => Only(toReader', m),
           Stopped => Stopped'
    PROVE  InTurn' /\ Completed'
  <1> USE DEF readerVars
  <1>1. Completed'
    BY DEF Completed
  <1>2. CASE NoCommand \/ Handled
    BY <1>1, <1>2 DEF NoCommand, Handled, InTurn
  <1>3. CASE Stopped
    BY <1>1, <1>3 DEF InTurn
  <1>4. CASE \E m \in MessagesToDevice : OnItsWay(m) \/ Fetching(m)
    <2>1. \E m \in MessagesToDevice : OnItsWay(m)' \/ Fetching(m)'
      BY <1>4 DEF OnItsWay, Fetching, Responding
    <2>2. QED
      BY <1>1, <2>1 DEF InTurn
  <1>5. CASE \E m \in MessagesToReader : Acknowledged(m) \/ Answering(m)
    <2>1. \E m \in MessagesToReader : Acknowledged(m)' \/ Answering(m)'
      BY <1>5 DEF Acknowledged, Answering, Responding
    <2>2. QED
      BY <1>1, <2>1 DEF InTurn
  <1>6. QED
    BY <1>1, <1>2, <1>3, <1>4, <1>5 DEF InTurn

\* A message from the device that is no busy event: it has acknowledged a piece,
\* has answered, or has left.
LEMMA FromDevice ==
    ASSUME TypeOK, InTurn, reader = "waiting", toReader # <<>>, Head(toReader).type # "busy"
    PROVE  \/ Stopped
           \/ /\ Acknowledged(Head(toReader)) \/ Answering(Head(toReader))
              /\ Quiet(Tail(toReader))
  <1>1. ~ Quiet(toReader)
    BY QuietTail DEF TypeOK
  <1>2. \A m : Only(toReader, m) => Head(toReader) = m /\ Quiet(Tail(toReader))
    BY OnlyTail DEF TypeOK
  <1>3. QED
    BY <1>1, <1>2 DEF InTurn, NoCommand, Handled, OnItsWay, Fetching, Acknowledged, Answering

\* A message from the Reader that is no busy event.
LEMMA FromReader ==
    ASSUME TypeOK, InTurn, device \notin Gone, toDevice # <<>>, Head(toDevice).type # "busy"
    PROVE  /\ OnItsWay(Head(toDevice)) \/ Fetching(Head(toDevice))
           /\ Quiet(Tail(toDevice))
  <1>1. ~ Quiet(toDevice)
    BY QuietTail DEF TypeOK
  <1>2. \A m : Only(toDevice, m) => Head(toDevice) = m /\ Quiet(Tail(toDevice))
    BY OnlyTail DEF TypeOK
  <1>3. QED
    BY <1>1, <1>2
    DEF InTurn, NoCommand, Handled, Stopped, OnItsWay, Fetching, Acknowledged, Answering

\* The messages of a device that has left that are left when the first response has
\* been taken.
LEMMA StoppedTail ==
    ASSUME TypeOK, Stopped, toReader # <<>>, toReader' = Tail(toReader), UNCHANGED device,
           asked' \in Nat,
           \/ Head(toReader).type = "response"
           \/ Head(toReader).type = "busy" /\ UNCHANGED <<reader, rest, asked>>
    PROVE  Stopped'
  <1>1. /\ Len(toReader) \in Nat \ {0} /\ Head(toReader) = toReader[1]
        /\ Len(Tail(toReader)) = Len(toReader) - 1
        /\ \A i \in 1 .. Len(Tail(toReader)) : Tail(toReader)[i] = toReader[i + 1]
    BY HeadTailProperties, EmptySeq DEF TypeOK
  <1>2. SUFFICES ASSUME NEW i \in 1 .. Len(toReader'), toReader'[i].type = "response"
                 PROVE  /\ Len(toReader'[i].data) <= asked'
                        /\ toReader'[i].status = "SUCCESS" => rest' # <<>>
                        /\ \/ toReader'[i].data = <<>> /\ toReader'[i].status = "ERROR"
                           \/ /\ reader' = "waiting"
                              /\ \A j \in 1 .. i - 1 : toReader'[j].type = "busy"
    BY DEF Stopped
  <1>3. i \in Nat /\ i + 1 \in 1 .. Len(toReader) /\ toReader'[i] = toReader[i + 1]
    BY <1>1
  <1>4. /\ Len(toReader[i + 1].data) <= asked
        /\ toReader[i + 1].status = "SUCCESS" => rest # <<>>
        /\ \/ toReader[i + 1].data = <<>> /\ toReader[i + 1].status = "ERROR"
           \/ /\ reader = "waiting"
              /\ \A j \in 1 .. (i + 1) - 1 : toReader[j].type = "busy"
    BY <1>2, <1>3 DEF Stopped
  <1>5. CASE toReader[i + 1].data = <<>> /\ toReader[i + 1].status = "ERROR"
    BY <1>3, <1>5, EmptySeq
  <1>6. CASE reader = "waiting" /\ \A j \in 1 .. (i + 1) - 1 : toReader[j].type = "busy"
    <2>1. toReader[1].type = "busy"
      BY <1>3, <1>6
    <2>2. UNCHANGED <<reader, rest, asked>>
      BY <1>1, <2>1
    <2>3. \A j \in 1 .. i - 1 : toReader'[j].type = "busy"
      BY <1>1, <1>3, <1>6
    <2>4. QED
      BY <1>3, <1>4, <1>6, <2>2, <2>3
  <1>7. QED
    BY <1>4, <1>5, <1>6

\* What has been received, a piece and the rest can be put together in any order.
LEMMA Regroup ==
    ASSUME NEW a \in Seq(Element), NEW b \in Seq(Element), NEW c \in Seq(Element)
    PROVE  (a \o b) \o c = a \o (b \o c)
  BY ConcatAssociative

\* A piece and what is left of the data.
LEMMA PieceOf ==
    ASSUME NEW data \in Seq(Element), NEW room \in Nat, NEW le \in 0 .. AnyLength,
           NEW class \in BOOLEAN, NEW m, m = Piece(data, room, le, class)
    PROVE  /\ m \in MessagesToDevice /\ m.type = "command" /\ m.le = le
           /\ m.chained <=> After(data, room) # <<>>
           /\ m.data = First(data, room)
  <1>1. m \in MessagesToDevice
    BY DeviceMessageType
  <1>2. /\ m.type = "command" /\ m.le = le /\ m.data = First(data, room)
        /\ m.chained <=> Len(data) > room
    BY DEF Piece, Command
  <1>3. /\ Len(data) <= room => After(data, room) = <<>>
        /\ Len(data) > room => After(data, room) # <<>>
    BY Cut
  <1>4. Len(data) \in Nat
    BY LenProperties
  <1>5. QED
    BY <1>1, <1>2, <1>3, <1>4

\* A message that is sent to a device with nothing else to do.
LEMMA SentToDevice ==
    ASSUME TypeOK, Quiet(toDevice), NEW m \in MessagesToDevice, m.type # "busy",
           toDevice' = Append(toDevice, m)
    PROVE  Only(toDevice', m)
  <1>1. toDevice \in Seq(MessagesToDevice)
    BY DEF TypeOK
  <1>2. Only(Append(toDevice, m), m)
    BY <1>1, QuietAppend
  <1>3. QED
    BY <1>2

\* A message that is sent to a Reader that has nothing else to read.
LEMMA SentToReader ==
    ASSUME TypeOK, Quiet(toReader), NEW m \in MessagesToReader, m.type # "busy",
           toReader' = Append(toReader, m)
    PROVE  Only(toReader', m)
  <1>1. toReader \in Seq(MessagesToReader)
    BY DEF TypeOK
  <1>2. Only(Append(toReader, m), m)
    BY <1>1, QuietAppend
  <1>3. QED
    BY <1>2

\* A new command, which also clears what there was of the last response.
LEMMA StartTurn ==
    ASSUME TypeOK, InTurn, Start
    PROVE  InTurn' /\ Completed'
  <1> USE DEF readerVars, deviceVars
  <1>1. reader' = "waiting" /\ total' = <<>> /\ UNCHANGED <<deviceVars, toReader>>
    BY DEF Start
  <1>2. Completed'
    BY <1>1 DEF Completed
  <1>3. NoCommand \/ Stopped
    BY DEF Start, InTurn, Handled, OnItsWay, Fetching, Acknowledged, Answering, Responding
  <1>4. PICK n \in CommandLengths, le \in Les, class \in BOOLEAN :
           sent' = Command(Bytes(commands + 1, n), FALSE, le, class) /\ SendPiece(sent'.data, le)
    BY DEF Start
  <1>5. /\ sent'.data \in Seq(Element) /\ sent'.le = le /\ le \in 0 .. AnyLength
        /\ sent'.interindustry \in BOOLEAN
    <2>1. n \in Nat /\ le \in 0 .. AnyLength /\ commands + 1 \in Nat
      BY ChainingAssumption DEF TypeOK
    <2>2. Bytes(commands + 1, n) \in Seq(Element)
      BY <2>1, BytesType
    <2>3. QED
      BY <1>4, <2>1, <2>2 DEF Command
  <1>6. PICK room \in Nat, m \in MessagesToDevice :
           /\ m = Piece(sent'.data, room, le, sent'.interindustry)
           /\ toDevice' = Append(toDevice, m) /\ rest' = After(sent'.data, room) /\ asked' = le
    BY <1>4, <1>5, RoomType, DeviceMessageType DEF SendPiece
  <1>7. /\ m \in MessagesToDevice /\ m.type = "command" /\ m.le = le
        /\ m.chained <=> rest' # <<>>
        /\ m.data \o rest' = sent'.data
    <2>1. m \in MessagesToDevice /\ m.type = "command" /\ m.le = le
      BY <1>5, <1>6, PieceOf
    <2>2. m.chained <=> After(sent'.data, room) # <<>>
      BY <1>5, <1>6, PieceOf
    <2>3. m.data = First(sent'.data, room)
      BY <1>5, <1>6, PieceOf
    <2>4. First(sent'.data, room) \o After(sent'.data, room) = sent'.data
      BY <1>5, <1>6, Cut
    <2>5. QED
      BY <1>6, <2>1, <2>2, <2>3, <2>4
  <1>8. CASE NoCommand
    <2>1. Only(toDevice', m)
      BY <1>6, <1>7, <1>8, SentToDevice DEF NoCommand
    <2>2. Quiet(toReader') /\ device' = "listening"
      BY <1>1, <1>8 DEF NoCommand
    <2>3. OnItsWay(m)'
      BY <1>1, <1>5, <1>6, <1>7, <2>1, <2>2 DEF OnItsWay
    <2>4. QED
      BY <1>2, <1>7, <2>3 DEF InTurn
  <1>9. CASE Stopped
    <2>1. reader # "waiting" /\ asked' \in Nat
      BY <1>5, <1>6 DEF Start
    <2>2. Stopped'
      BY <1>1, <1>9, <2>1, EmptySeq DEF Stopped
    <2>3. QED
      BY <1>2, <2>2 DEF InTurn
  <1>10. QED
    BY <1>3, <1>8, <1>9

\* The next piece, when the last one was acknowledged.
LEMMA NextPieceTurn ==
    ASSUME TypeOK, InTurn, NextPiece
    PROVE  InTurn' /\ Completed'
  <1> USE DEF readerVars, deviceVars, history
  <1>1. /\ reader = "waiting" /\ rest # <<>> /\ toReader # <<>>
        /\ Head(toReader).type = "response" /\ toReader' = Tail(toReader)
        /\ SendPiece(rest, sent.le)
        /\ UNCHANGED <<reader, sent, total, device, payload, left, intended, commands>>
    BY DEF NextPiece
  <1>2. Completed'
    BY <1>1 DEF Completed
  <1>3. rest \in Seq(Element) /\ sent.le \in 0 .. AnyLength /\ sent'.interindustry \in BOOLEAN
    BY <1>1 DEF TypeOK
  <1>4. PICK room \in Nat, m \in MessagesToDevice :
           /\ m = Piece(rest, room, sent.le, sent'.interindustry)
           /\ toDevice' = Append(toDevice, m) /\ rest' = After(rest, room) /\ asked' = sent.le
    BY <1>1, <1>3, RoomType, DeviceMessageType DEF SendPiece
  <1>5. /\ m \in MessagesToDevice /\ m.type = "command" /\ m.le = sent.le
        /\ m.chained <=> rest' # <<>>
        /\ m.data \o rest' = rest
    <2>1. m \in MessagesToDevice /\ m.type = "command" /\ m.le = sent.le
      BY <1>3, <1>4, PieceOf
    <2>2. m.chained <=> After(rest, room) # <<>>
      BY <1>3, <1>4, PieceOf
    <2>3. m.data = First(rest, room)
      BY <1>3, <1>4, PieceOf
    <2>4. First(rest, room) \o After(rest, room) = rest
      BY <1>3, <1>4, Cut
    <2>5. QED
      BY <1>4, <2>1, <2>2, <2>3, <2>4
  <1>6. CASE Stopped
    <2>1. Stopped'
      BY <1>1, <1>3, <1>4, <1>6, StoppedTail
    <2>2. QED
      BY <1>2, <2>1 DEF InTurn
  <1>7. CASE ~ Stopped
    <2>1. Acknowledged(Head(toReader)) /\ Quiet(Tail(toReader))
      BY <1>1, <1>7, FromDevice DEF Answering, Responding
    <2>2. /\ Quiet(toDevice) /\ Quiet(toReader') /\ total = <<>> /\ device = "chained"
          /\ payload \o rest = sent.data
      BY <1>1, <2>1 DEF Acknowledged
    <2>3. Only(toDevice', m)
      BY <1>4, <1>5, <2>2, SentToDevice
    <2>4. OnItsWay(m)'
      BY <1>1, <1>4, <1>5, <2>2, <2>3 DEF OnItsWay
    <2>5. QED
      BY <1>2, <1>5, <2>4 DEF InTurn
  <1>8. QED
    BY <1>6, <1>7

\* A response: the chain goes on, or the command is done or has failed.
LEMMA TakeResponseTurn ==
    ASSUME TypeOK, InTurn, TakeResponse
    PROVE  InTurn' /\ Completed'
  <1> USE DEF readerVars, deviceVars, history
  <1> DEFINE h == Head(toReader)
  <1>1. /\ reader = "waiting" /\ rest = <<>> /\ toReader # <<>> /\ h.type = "response"
        /\ toReader' = Tail(toReader) /\ total' = total \o h.data
        /\ UNCHANGED <<sent, rest, device, payload, length, chunk, left, intended, commands>>
    BY DEF TakeResponse, Extended
  <1>2. \/ /\ h.status = "MORE" /\ asked' = (IF h.left = 0 THEN AnyLength ELSE h.left)
           /\ toDevice' = Append(toDevice, GetResponse(asked', sent.interindustry)) /\ reader' = reader
        \/ /\ h.status # "MORE" /\ reader' = (IF h.status = "SUCCESS" THEN "done" ELSE "failed")
           /\ UNCHANGED <<asked, toDevice>>
    BY DEF TakeResponse
  <1>3. TypeOK'
    BY TypeKept DEF Next, ReaderStep
  <1>4. CASE Stopped
    <2>1. Stopped'
      <3>1. asked' \in Nat
        BY <1>3, ChainingAssumption DEF TypeOK
      <3>2. QED
        BY <1>1, <1>4, <3>1, StoppedTail
    <2>2. h.status # "SUCCESS"
      <3>1. PICK i \in 1 .. Len(toReader) : i = 1 /\ toReader[i] = h
        <4>1. Len(toReader) \in Nat \ {0} /\ h = toReader[1]
          BY <1>1, HeadTailProperties, EmptySeq DEF TypeOK
        <4>2. QED
          BY <4>1
      <3>2. QED
        BY <1>1, <1>4, <3>1 DEF Stopped
    <2>3. reader' # "done"
      BY <1>1, <1>2, <2>2
    <2>4. QED
      BY <2>1, <2>3 DEF InTurn, Completed
  <1>5. CASE ~ Stopped
    <2>1. Answering(h) /\ Quiet(Tail(toReader))
      BY <1>1, <1>5, FromDevice DEF Acknowledged
    <2>2. Quiet(toReader') /\ Quiet(toDevice)
      BY <1>1, <2>1 DEF Answering
    <2>3. CASE h.status = "MORE"
      <3>1. /\ Responding /\ device = "responding" /\ left # <<>>
            /\ h.left = (IF Len(left) <= MaxValueByte THEN Len(left) ELSE 0)
            /\ total \o (h.data \o left) = intended
        BY <2>1, <2>3 DEF Answering
      <3>2. PICK m : m = GetResponse(asked', sent.interindustry) /\ toDevice' = Append(toDevice, m)
        BY <1>2, <2>3
      <3>3. m \in MessagesToDevice /\ m.type = "get"
        BY <1>3, <3>2, DeviceMessageType DEF TypeOK, GetResponse
      <3>4. Only(toDevice', m)
        BY <2>2, <3>2, <3>3, SentToDevice
      <3>5. total' \o left' = intended'
        <4>1. h \in MessagesToReader
          BY <1>1, HeadType
        <4>2. h.data \in Seq(Element)
          BY <1>1, <4>1 DEF MessagesToReader, Busies
        <4>3. (total \o h.data) \o left = total \o (h.data \o left)
          <5>1. total \in Seq(Element) /\ left \in Seq(Element)
            BY DEF TypeOK
          <5>2. \A d \in Seq(Element) : (total \o d) \o left = total \o (d \o left)
            BY <5>1, Regroup
          <5>3. QED
            BY <4>2, <5>2
        <4>4. QED
          BY <1>1, <3>1, <4>3
      <3>6. Len(First(left', chunk')) <= asked'
        <4>1. Len(left) \in Nat \ {0} /\ chunk \in 0 .. MaxResponse /\ left \in Seq(Element)
          BY <3>1, LenProperties, EmptySeq DEF TypeOK
        <4>2. AnyLength \in Nat /\ MaxResponse \in 1 .. AnyLength
          BY ChainingAssumption
        <4>3. /\ Len(First(left, chunk)) <= chunk /\ Len(First(left, chunk)) <= Len(left)
              /\ First(left, chunk) \in Seq(Element)
          BY <4>1, <4>2, Cut
        <4>4. Len(First(left, chunk)) \in Nat
          BY <4>3, LenProperties
        <4>5. Len(left) <= asked' \/ MaxResponse <= asked'
          BY <1>2, <2>3, <3>1, <4>1, <4>2
        <4>6. asked' \in 0 .. AnyLength
          BY <1>3 DEF TypeOK
        <4>7. QED
          BY <1>1, <4>1, <4>2, <4>3, <4>4, <4>5, <4>6
      <3>7. Responding' /\ reader' = "waiting"
        BY <1>1, <1>2, <2>3, <3>1 DEF Responding
      <3>8. Fetching(m)'
        BY <1>1, <2>2, <3>1, <3>3, <3>4, <3>5, <3>6, <3>7 DEF Fetching
      <3>9. QED
        BY <3>3, <3>7, <3>8 DEF InTurn, Completed
    <2>4. CASE h.status # "MORE"
      <3>1. reader' # "waiting" /\ UNCHANGED toDevice /\ (reader' = "done" => h.status = "SUCCESS")
        BY <1>2, <2>4
      <3>2. NoCommand'
        BY <1>1, <2>1, <2>2, <2>4, <3>1 DEF NoCommand, Answering
      <3>3. Completed'
        <4>1. SUFFICES ASSUME reader' = "done"
                       PROVE  /\ total' = intended'
                              /\ \A i \in 1 .. Len(intended') : intended'[i][1] = commands'
          BY DEF Completed
        <4>2. Responding /\ total \o h.data = intended
          BY <2>1, <3>1, <4>1 DEF Answering
        <4>3. QED
          BY <1>1, <4>2 DEF Responding
      <3>4. QED
        BY <3>2, <3>3 DEF InTurn
    <2>5. QED
      BY <2>3, <2>4
  <1>6. QED
    BY <1>4, <1>5

\* A busy event, which an unprepared Reader takes for the end of the command.
LEMMA ReaderIsToldTurn ==
    ASSUME TypeOK, InTurn, Completed, ReaderIsTold
    PROVE  dirty' \/ (InTurn' /\ Completed')
  <1> USE DEF readerVars, deviceVars
  <1>1. /\ toReader # <<>> /\ Head(toReader).type = "busy" /\ toReader' = Tail(toReader)
        /\ UNCHANGED <<sent, rest, total, asked, expect_busy, deviceVars, toDevice, intended, commands>>
    BY DEF ReaderIsTold
  <1>2. CASE dirty'
    BY <1>2
  <1>3. CASE ~ dirty'
    <2>1. UNCHANGED reader
      BY <1>3 DEF ReaderIsTold
    <2>2. Quiet(toReader) => Quiet(toReader')
      BY <1>1, QuietTail DEF TypeOK
    <2>3. \A m : Only(toReader, m) => Only(toReader', m)
      BY <1>1, OnlyTail DEF TypeOK
    <2>4. Stopped => Stopped'
      <3>1. asked' \in Nat
        BY <1>1, ChainingAssumption DEF TypeOK
      <3>2. QED
        BY <1>1, <2>1, <3>1, StoppedTail
    <2>5. QED
      BY <1>1, <2>1, <2>2, <2>3, <2>4, BusyEvents
  <1>4. QED
    BY <1>2, <1>3

\* The device has a command in hand only in its turn.
LEMMA WhileHandling ==
    ASSUME InTurn, device = "handling"
    PROVE  Handled
  BY DEF InTurn, NoCommand, Stopped, OnItsWay, Fetching, Acknowledged, Answering

\* What a device that leaves in a chain, or while it handles a command, has said.
LEMMA Leaving ==
    ASSUME TypeOK, InTurn, device \in {"handling", "chained", "responding"}, device' \in Gone,
           ReplyError \/ UNCHANGED toReader, UNCHANGED <<reader, rest, asked>>
    PROVE  Stopped'
  <1>1. \A i \in 1 .. Len(toReader) : toReader[i].type = "response" =>
           /\ Len(toReader[i].data) <= asked
           /\ toReader[i].status = "SUCCESS" => rest # <<>>
           /\ reader = "waiting"
           /\ \A j \in 1 .. i - 1 : toReader[j].type = "busy"
    <2>1. CASE Quiet(toReader)
      BY <2>1 DEF Quiet
    <2>2. CASE ~ Quiet(toReader)
      <3>1. PICK m \in MessagesToReader : Acknowledged(m) \/ Answering(m)
        BY <2>2 DEF InTurn, NoCommand, Handled, OnItsWay, Fetching, Stopped
      <3>2. /\ Only(toReader, m) /\ Len(m.data) <= asked /\ reader = "waiting"
            /\ m.status = "SUCCESS" => rest # <<>>
        <4>1. CASE Acknowledged(m)
          <5>1. 0 <= asked
            BY ChainingAssumption DEF TypeOK
          <5>2. QED
            BY <4>1, <5>1, EmptySeq DEF Acknowledged
        <4>2. CASE Answering(m)
          BY <4>2 DEF Answering, Responding
        <4>3. QED
          BY <3>1, <4>1, <4>2
      <3>3. PICK k \in 1 .. Len(toReader) :
               toReader[k] = m /\ \A j \in 1 .. Len(toReader) : j # k => toReader[j].type = "busy"
        BY <3>2 DEF Only
      <3>4. Len(toReader) \in Nat
        BY LenProperties DEF TypeOK
      <3>5. ASSUME NEW i \in 1 .. Len(toReader), toReader[i].type = "response"
            PROVE  i = k /\ \A j \in 1 .. i - 1 : toReader[j].type = "busy"
        BY <3>3, <3>4, <3>5
      <3>6. QED
        BY <3>2, <3>3, <3>5
    <2>3. QED
      BY <2>1, <2>2
  <1>2. CASE UNCHANGED toReader
    BY <1>1, <1>2 DEF Stopped
  <1>3. CASE ReplyError
    <2>1. PICK r \in MessagesToReader :
             r.data = <<>> /\ r.status = "ERROR" /\ toReader' = Append(toReader, r)
      BY <1>3, ReaderMessageType DEF ReplyError, Reply, Response
    <2>2. /\ Len(toReader) \in Nat /\ Len(toReader') = Len(toReader) + 1
          /\ toReader'[Len(toReader) + 1] = r
          /\ \A i \in 1 .. Len(toReader) : toReader'[i] = toReader[i]
      BY <2>1, AppendProperties, LenProperties DEF TypeOK
    <2>3. Len(r.data) <= asked
      BY <2>1, EmptySeq, ChainingAssumption DEF TypeOK
    <2>4. SUFFICES ASSUME NEW i \in 1 .. Len(toReader'), toReader'[i].type = "response"
                   PROVE  /\ Len(toReader'[i].data) <= asked'
                          /\ toReader'[i].status = "SUCCESS" => rest' # <<>>
                          /\ \/ toReader'[i].data = <<>> /\ toReader'[i].status = "ERROR"
                             \/ /\ reader' = "waiting"
                                /\ \A j \in 1 .. i - 1 : toReader'[j].type = "busy"
      BY DEF Stopped
    <2>5. CASE i = Len(toReader) + 1
      BY <2>1, <2>2, <2>3, <2>5
    <2>6. CASE i # Len(toReader) + 1
      <3>1. i \in 1 .. Len(toReader) /\ toReader'[i] = toReader[i]
        BY <2>2, <2>6
      <3>2. \A j \in 1 .. i - 1 : toReader'[j] = toReader[j]
        BY <2>2, <3>1
      <3>3. QED
        BY <1>1, <2>4, <3>1, <3>2
    <2>7. QED
      BY <2>5, <2>6
  <1>4. QED
    BY <1>2, <1>3

\* A piece is gathered and acknowledged, or the command is complete.
LEMMA ReceiveTurn ==
    ASSUME TypeOK, InTurn, Receive
    PROVE  InTurn' /\ Completed'
  <1> USE DEF readerVars, history
  <1> DEFINE h == Head(toDevice)
  <1>1. /\ device \in {"listening", "chained"} /\ toDevice # <<>> /\ toDevice' = Tail(toDevice)
        /\ h.type \in {"command", "get"} /\ UNCHANGED <<reader, sent, rest, total, asked>>
    BY DEF Receive, DeviceGets
  <1>2. OnItsWay(h) /\ Quiet(toDevice')
    BY <1>1, FromReader DEF Fetching
  <1>3. /\ reader = "waiting" /\ total = <<>> /\ Quiet(toReader) /\ h.le = asked
        /\ h.chained <=> rest # <<>>
    BY <1>2 DEF OnItsWay
  <1>4. Completed'
    BY <1>1, <1>3 DEF Completed
  <1>5. PICK data \in Seq(Element) :
           /\ data \o rest = sent.data
           /\ IF h.chained THEN Acknowledge(data) ELSE Complete(data)
    <2>1. h \in MessagesToDevice
      BY <1>1, HeadType
    <2>2. h.data \in Seq(Element)
      BY <1>1, <2>1 DEF MessagesToDevice, Busies
    <2>3. CASE device = "listening"
      <3>1. h.data \o rest = sent.data
        BY <1>2, <2>3 DEF OnItsWay
      <3>2. IF h.chained THEN Acknowledge(h.data) ELSE Complete(h.data)
        BY <2>3 DEF Receive
      <3>3. QED
        BY <2>2, <3>1, <3>2
    <2>4. CASE device = "chained"
      <3>1. payload \o (h.data \o rest) = sent.data
        BY <1>2, <2>4 DEF OnItsWay
      <3>2. payload \in Seq(Element) /\ rest \in Seq(Element)
        BY DEF TypeOK
      <3>3. PICK d \in Seq(Element) : d = h.data
        BY <2>2
      <3>4. payload \o d \in Seq(Element) /\ (payload \o d) \o rest = payload \o (d \o rest)
        BY <3>2, Regroup, ConcatProperties
      <3>5. IF h.chained THEN Acknowledge(payload \o d) ELSE Complete(payload \o d)
        BY <2>4, <3>3 DEF Receive, Gathered
      <3>6. QED
        BY <3>1, <3>3, <3>4, <3>5
    <2>5. QED
      BY <1>1, <2>3, <2>4
  <1>6. CASE h.chained
    <2>1. PICK m : /\ m = Response(<<>>, "SUCCESS", 0) /\ toReader' = Append(toReader, m)
                   /\ device' = "chained" /\ payload' = data
      BY <1>5, <1>6 DEF Acknowledge, Reply
    <2>2. m \in MessagesToReader /\ m.type # "busy" /\ m.data = <<>>
      BY <2>1, ReaderMessageType DEF Response
    <2>3. Only(toReader', m)
      BY <1>3, <2>1, <2>2, SentToReader
    <2>4. Acknowledged(m)'
      BY <1>1, <1>2, <1>3, <1>5, <1>6, <2>1, <2>2, <2>3 DEF Acknowledged
    <2>5. QED
      BY <1>4, <2>2, <2>4 DEF InTurn
  <1>7. CASE ~ h.chained
    <2>1. /\ device' = "handling" /\ payload' = data /\ length' = Limit(asked)
          /\ UNCHANGED toReader
      BY <1>3, <1>5, <1>7 DEF Complete
    <2>2. rest = <<>>
      BY <1>3, <1>7
    <2>3. data = sent.data
      BY <1>5, <2>2, ConcatEmptySeq
    <2>4. length' <= asked
      BY <2>1, ChainingAssumption DEF Limit, TypeOK
    <2>5. Handled'
      BY <1>1, <1>2, <1>3, <2>1, <2>2, <2>3, <2>4 DEF Handled
    <2>6. QED
      BY <1>4, <2>5 DEF InTurn
  <1>8. QED
    BY <1>6, <1>7

\* The first part of a response, if the device does not leave over it.
LEMMA RespondTurn ==
    ASSUME TypeOK, InTurn, Respond
    PROVE  InTurn' /\ Completed'
  <1> USE DEF readerVars
  <1>1. device = "handling" /\ UNCHANGED <<reader, rest, total, asked, toDevice, commands>>
    BY DEF Respond
  <1>2. /\ reader = "waiting" /\ rest = <<>> /\ total = <<>>
        /\ Quiet(toDevice) /\ Quiet(toReader) /\ length <= asked
    BY <1>1, WhileHandling DEF Handled
  <1>3. Completed'
    BY <1>1, <1>2 DEF Completed
  <1>4. CASE device' \in Gone
    <2>1. UNCHANGED toReader
      BY <1>4 DEF Respond
    <2>2. Stopped'
      BY <1>1, <1>4, <2>1, Leaving
    <2>3. QED
      BY <1>3, <2>2 DEF InTurn
  <1>5. CASE device' \notin Gone
    <2>1. PICK n \in ResponseLengths, status \in {"SUCCESS", "ERROR"} :
             LET d == Bytes(commands, n) IN
             /\ Reply(Part(d, length, status))
             /\ device' = (IF Final(d, length) THEN "listening" ELSE "responding")
             /\ left' = After(d, length) /\ intended' = d
      BY <1>5 DEF Respond
    <2> DEFINE data == Bytes(commands, n)
    <2>2. /\ data \in Seq(Element) /\ length \in Nat /\ asked \in Nat
          /\ \A i \in 1 .. Len(data) : data[i][1] = commands
      <3>1. n \in Nat /\ commands \in Nat /\ length \in Nat /\ asked \in Nat
        BY ChainingAssumption DEF TypeOK
      <3>2. QED
        BY <3>1, BytesType
    <2> HIDE DEF data
    <2>3. /\ Reply(Part(data, length, status))
           /\ device' = (IF Final(data, length) THEN "listening" ELSE "responding")
           /\ left' = After(data, length) /\ intended' = data
      BY <2>1 DEF data
    <2>4. PICK m \in MessagesToReader :
             m = Part(data, length, status) /\ toReader' = Append(toReader, m)
      BY <2>3, <2>2, ReaderMessageType DEF Reply
    <2>5. m.data = First(data, length) /\ m.type # "busy"
      BY <2>4 DEF Part, Response
    <2>6. Only(toReader', m)
      BY <1>2, <2>4, <2>5, SentToReader
    <2>7. Len(m.data) <= asked'
      <3>1. Len(First(data, length)) <= length /\ First(data, length) \in Seq(Element)
        BY <2>2, Cut
      <3>2. Len(First(data, length)) \in Nat
        BY <3>1, LenProperties
      <3>3. QED
        BY <1>1, <1>2, <2>2, <2>5, <3>1, <3>2
    <2>8. Responding'
      BY <1>1, <1>2, <2>3, <2>2 DEF Responding
    <2>9. total' \o (m.data \o left') = data /\ (Final(data, length) => total' \o m.data = data)
      <3>1. First(data, length) \o After(data, length) = data
        BY <2>2, Cut
      <3>2. Final(data, length) => First(data, length) = data
        BY <2>2, Cut DEF Final
      <3>3. <<>> \o data = data
        BY <2>2, ConcatEmptySeq
      <3>4. QED
        BY <1>1, <1>2, <2>3, <2>5, <3>1, <3>2, <3>3
    <2>10. Answering(m)'
      <3>1. CASE Final(data, length)
        <4>1. m.status = status /\ device' = "listening"
          BY <2>3, <2>4, <3>1 DEF Part, Response
        <4>2. QED
          BY <1>1, <1>2, <2>3, <2>6, <2>7, <2>8, <2>9, <3>1, <4>1 DEF Answering
      <3>2. CASE ~ Final(data, length)
        <4>1. Len(data) > length
          BY <2>2, <3>2, LenProperties DEF Final
        <4>2. left' # <<>> /\ Len(left') = Len(data) - length
          BY <2>3, <2>2, <4>1, Cut
        <4>3. /\ m.status = "MORE" /\ device' = "responding"
              /\ m.left = IF Len(data) - length <= MaxValueByte THEN Len(data) - length ELSE 0
          BY <2>3, <2>4, <3>2 DEF Part, Response
        <4>4. m.left = (IF Len(left') <= MaxValueByte THEN Len(left') ELSE 0)
          BY <4>2, <4>3
        <4>5. QED
          BY <1>1, <1>2, <2>3, <2>6, <2>7, <2>8, <2>9, <4>2, <4>3, <4>4 DEF Answering
      <3>3. QED
        BY <3>1, <3>2
    <2>11. QED
      BY <1>3, <2>10 DEF InTurn
  <1>6. QED
    BY <1>4, <1>5

\* An error in place of a response, or an exception.
LEMMA RefuseTurn ==
    ASSUME TypeOK, InTurn, Refuse \/ Raise
    PROVE  InTurn' /\ Completed'
  <1> USE DEF readerVars, history
  <1>1. /\ device = "handling" /\ UNCHANGED <<reader, rest, total, asked, toDevice, intended, commands>>
        /\ ReplyError \/ UNCHANGED toReader
    BY DEF Refuse, Raise
  <1>2. reader = "waiting" /\ rest = <<>> /\ Quiet(toDevice) /\ Quiet(toReader)
    BY <1>1, WhileHandling DEF Handled
  <1>3. Completed'
    BY <1>1, <1>2 DEF Completed
  <1>4. CASE device' \in Gone
    <2>1. Stopped'
      BY <1>1, <1>4, Leaving
    <2>2. QED
      BY <1>3, <2>1 DEF InTurn
  <1>5. CASE device' \notin Gone
    <2>1. device' = "listening" /\ ReplyError
      BY <1>5 DEF Refuse, Raise
    <2>2. PICK m : m = Response(<<>>, "ERROR", 0) /\ toReader' = Append(toReader, m)
      BY <2>1 DEF ReplyError, Reply
    <2>3. m \in MessagesToReader /\ m.type # "busy" /\ m.data = <<>> /\ m.status = "ERROR"
      BY <2>2, ReaderMessageType DEF Response
    <2>4. Only(toReader', m)
      BY <1>2, <2>2, <2>3, SentToReader
    <2>5. Len(m.data) <= asked'
      BY <1>1, <2>3, EmptySeq, ChainingAssumption DEF TypeOK
    <2>6. Answering(m)'
      BY <1>1, <1>2, <2>1, <2>3, <2>4, <2>5 DEF Answering
    <2>7. QED
      BY <1>3, <2>3, <2>6 DEF InTurn
  <1>6. QED
    BY <1>4, <1>5

\* A further part, or none when the class of the GET RESPONSE is refused.
LEMMA RespondNextTurn ==
    ASSUME TypeOK, InTurn, RespondNext
    PROVE  InTurn' /\ Completed'
  <1> USE DEF readerVars, history
  <1>1. /\ device = "responding" /\ toDevice # <<>> /\ toDevice' = Tail(toDevice)
        /\ Head(toDevice).type = "get"
        /\ UNCHANGED <<reader, rest, total, asked, chunk, intended, commands>>
    BY DEF RespondNext, DeviceGets
  <1>2. Fetching(Head(toDevice)) /\ Quiet(toDevice')
    BY <1>1, FromReader DEF OnItsWay
  <1>3. /\ Responding /\ Quiet(toReader) /\ left # <<>> /\ total \o left = intended
        /\ Len(First(left, chunk)) <= asked
    BY <1>2 DEF Fetching
  <1>4. Completed'
    BY <1>1, <1>3 DEF Completed, Responding
  <1>5. left \in Seq(Element) /\ chunk \in Nat
    BY ChainingAssumption DEF TypeOK
  <1>6. CASE ~ Head(toDevice).interindustry
    <2>1. GiveUp
      BY <1>6 DEF RespondNext
    <2>2. device' \in Gone /\ (ReplyError \/ UNCHANGED toReader)
      BY <2>1 DEF GiveUp
    <2>3. Stopped'
      BY <1>1, <2>2, Leaving
    <2>4. QED
      BY <1>4, <2>3 DEF InTurn
  <1>7. CASE Head(toDevice).interindustry
    <2>1. PICK m \in MessagesToReader :
             /\ m = Part(left, chunk, "SUCCESS") /\ toReader' = Append(toReader, m)
             /\ device' = (IF Final(left, chunk) THEN "listening" ELSE "responding")
             /\ left' = After(left, chunk)
      BY <1>5, <1>7, ReaderMessageType DEF RespondNext, Reply
    <2>2. m \in MessagesToReader /\ m.data = First(left, chunk) /\ m.type # "busy"
      BY <2>1 DEF Part, Response
    <2>3. Only(toReader', m)
      BY <1>3, <2>1, <2>2, SentToReader
    <2>4. Responding' /\ Len(m.data) <= asked'
      BY <1>1, <1>3, <2>2 DEF Responding
    <2>5. /\ First(left, chunk) \o After(left, chunk) = left
          /\ Len(left) <= chunk => First(left, chunk) = left /\ After(left, chunk) = <<>>
          /\ Len(left) > chunk  => /\ After(left, chunk) # <<>>
                                   /\ Len(After(left, chunk)) = Len(left) - chunk
      BY <1>5, Cut
    <2>6. Len(left) \in Nat
      BY <1>5, LenProperties
    <2>7. CASE Final(left, chunk)
      <3>1. m.status = "SUCCESS" /\ device' = "listening" /\ total' \o m.data = intended'
        BY <1>1, <1>3, <2>1, <2>2, <2>5, <2>7 DEF Final, Part, Response
      <3>2. Answering(m)'
        BY <1>2, <2>3, <2>4, <3>1 DEF Answering
      <3>3. QED
        BY <1>4, <2>2, <3>2 DEF InTurn
    <2>8. CASE ~ Final(left, chunk)
      <3>1. left' # <<>> /\ Len(left') = Len(left) - chunk
        BY <1>5, <2>1, <2>5, <2>6, <2>8 DEF Final
      <3>2. /\ m.status = "MORE" /\ device' = "responding"
            /\ m.left = (IF Len(left) - chunk <= MaxValueByte THEN Len(left) - chunk ELSE 0)
        BY <2>1, <2>8 DEF Part, Response
      <3>3. m.left = (IF Len(left') <= MaxValueByte THEN Len(left') ELSE 0)
        BY <3>1, <3>2
      <3>4. total' \o (m.data \o left') = intended'
        BY <1>1, <1>3, <2>1, <2>2, <2>5
      <3>5. Answering(m)'
        BY <1>2, <2>3, <2>4, <3>1, <3>2, <3>3, <3>4 DEF Answering
      <3>6. QED
        BY <1>4, <2>2, <3>5 DEF InTurn
    <2>9. QED
      BY <2>7, <2>8
  <1>8. QED
    BY <1>6, <1>7

\* The device is told something that is not the next message of the chain.
LEMMA DisturbedTurn ==
    ASSUME TypeOK, InTurn, Completed, Interrupted \/ DeviceIsTold \/ BusyOutsideOfChain
    PROVE  InTurn' /\ Completed'
  <1> USE DEF readerVars, deviceVars, history
  <1>1. /\ device \notin Gone /\ toDevice # <<>> /\ toDevice' = Tail(toDevice)
        /\ UNCHANGED <<readerVars, payload, chunk, left, intended, commands>>
    BY DEF Interrupted, DeviceIsTold, BusyOutsideOfChain, DeviceGets
  <1>2. CASE device' \in Gone
    <2>1. device \in {"chained", "responding"} /\ (ReplyError \/ UNCHANGED toReader)
      BY <1>1, <1>2 DEF Interrupted, DeviceIsTold, BusyOutsideOfChain, GiveUp
    <2>2. Stopped'
      BY <1>1, <1>2, <2>1, Leaving
    <2>3. QED
      BY <1>1, <2>2 DEF InTurn, Completed
  <1>3. CASE device' \notin Gone
    <2>1. Head(toDevice).type = "busy" /\ UNCHANGED <<device, length, toReader>>
      BY <1>3 DEF Interrupted, DeviceIsTold, BusyOutsideOfChain, GiveUp, DeviceGets
    <2>2. Quiet(toDevice) => Quiet(toDevice')
      BY <1>1, QuietTail DEF TypeOK
    <2>3. \A m : Only(toDevice, m) => Only(toDevice', m)
      BY <1>1, <2>1, OnlyTail DEF TypeOK
    <2>4. ~ Stopped
      BY <1>1 DEF Stopped
    <2>5. QED
      BY <1>1, <2>1, <2>2, <2>3, <2>4, BusyEvents
  <1>4. QED
    BY <1>2, <1>3

\* A busy event is sent.
LEMMA TellBusyTurn ==
    ASSUME TypeOK, InTurn, Completed, TellBusy
    PROVE  InTurn' /\ Completed'
  <1> USE DEF deviceVars
  <1>1. PICK seen \in BOOLEAN :
           \/ /\ device = "handling" /\ toReader' = Append(toReader, Busy(seen)) /\ UNCHANGED toDevice
           \/ /\ toDevice' = Append(toDevice, Busy(seen)) /\ UNCHANGED toReader
    BY ChainingAssumption DEF TellBusy
  <1>2. UNCHANGED <<readerVars, deviceVars, intended, commands>>
    BY DEF TellBusy
  <1>3. PICK b : /\ b = Busy(seen) /\ b.type = "busy"
                 /\ b \in MessagesToReader /\ b \in MessagesToDevice
    BY ReaderMessageType, DeviceMessageType DEF Busy
  <1>4. CASE device = "handling" /\ toReader' = Append(toReader, Busy(seen)) /\ UNCHANGED toDevice
    <2>1. Quiet(toReader) => Quiet(toReader')
      BY <1>3, <1>4, QuietAppend DEF TypeOK
    <2>2. \A m : Only(toReader, m) => Only(toReader', m)
      BY <1>3, <1>4, OnlyAppend DEF TypeOK
    <2>3. ~ Stopped
      BY <1>4 DEF Stopped
    <2>4. QED
      BY <1>2, <1>4, <2>1, <2>2, <2>3, BusyEvents
  <1>5. CASE toDevice' = Append(toDevice, Busy(seen)) /\ UNCHANGED toReader
    <2>1. Quiet(toDevice) => Quiet(toDevice')
      BY <1>3, <1>5, QuietAppend DEF TypeOK
    <2>2. \A m : Only(toDevice, m) => Only(toDevice', m)
      BY <1>3, <1>5, OnlyAppend DEF TypeOK
    <2>3. Stopped => Stopped'
      BY <1>2, <1>5 DEF Stopped, readerVars
    <2>4. QED
      BY <1>2, <1>5, <2>1, <2>2, <2>3, BusyEvents
  <1>6. QED
    BY <1>1, <1>4, <1>5

\* Both sides begin anew.
LEMMA ReconnectTurn ==
    ASSUME Reconnect
    PROVE  InTurn' /\ Completed'
  <1>1. Quiet(toDevice') /\ Quiet(toReader')
    BY EmptySeq DEF Reconnect, Quiet
  <1>2. NoCommand' /\ Completed'
    BY <1>1 DEF Reconnect, NoCommand, Completed
  <1>3. QED
    BY <1>2 DEF InTurn

\* The invariant holds at first.
LEMMA ChainingInit ==
    ASSUME Init
    PROVE  ChainingInv
  <1>1. MaxResponse \in 0 .. MaxResponse /\ 0 \in 0 .. AnyLength
    BY ChainingAssumption
  <1>2. TypeOK
    BY <1>1, EmptySeq DEF Init, TypeOK, Command
  <1>3. Quiet(toDevice) /\ Quiet(toReader)
    BY EmptySeq DEF Init, Quiet
  <1>4. NoCommand /\ Completed
    BY <1>3 DEF Init, NoCommand, Completed
  <1>5. QED
    BY <1>2, <1>4 DEF ChainingInv, InTurn

\* Every step preserves it: a link on which a command was given up is only
\* left by Reconnect.
LEMMA ChainingKept ==
    ASSUME ChainingInv, [Next]_vars
    PROVE  ChainingInv'
  <1>1. TypeOK /\ TypeOK'
    BY TypeKept DEF ChainingInv
  <1>2. SUFFICES ASSUME ~ dirty' PROVE InTurn' /\ Completed'
    BY <1>1 DEF ChainingInv
  <1>3. CASE Reconnect
    BY <1>3, ReconnectTurn
  <1>4. CASE ~ Reconnect
    <2>1. ~ dirty
      BY <1>1, <1>2, <1>4
      DEF TypeOK, Next, Start, ReaderStep, NextPiece, TakeResponse, ReaderIsTold, DeviceStep, Receive,
          Respond, Refuse, Raise, RespondNext, Interrupted, DeviceIsTold, BusyOutsideOfChain, TellBusy,
          vars, history
    <2>2. InTurn /\ Completed
      BY <2>1 DEF ChainingInv
    <2>3. CASE Start \/ ReaderStep
      BY <1>1, <1>2, <2>2, <2>3, StartTurn, NextPieceTurn, TakeResponseTurn, ReaderIsToldTurn DEF ReaderStep
    <2>4. CASE DeviceStep
      BY <1>1, <2>2, <2>4, ReceiveTurn, RespondTurn, RefuseTurn, RespondNextTurn, DisturbedTurn DEF DeviceStep
    <2>5. CASE TellBusy
      BY <1>1, <2>2, <2>5, TellBusyTurn
    <2>6. CASE UNCHANGED vars
      <3>1. UNCHANGED <<readerVars, deviceVars, toDevice, toReader, intended, commands>>
        BY <2>6 DEF vars, history
      <3>2. Stopped => Stopped'
        BY <3>1 DEF Stopped, readerVars, deviceVars
      <3>3. UNCHANGED <<device, payload, length, chunk, left>>
        BY <3>1 DEF deviceVars
      <3>4. QED
        BY <2>2, <3>1, <3>2, <3>3, BusyEvents
    <2>7. QED
      BY <1>4, <2>3, <2>4, <2>5, <2>6 DEF Next
  <1>5. QED
    BY <1>3, <1>4

-----------------------------------------------------------------------------
(* The theorems.                                                            *)

\* Reader and device take turns on every link on which the Reader has not given
\* up a command, until the device leaves it.
THEOREM ChainingInvariant == Spec => []ChainingInv
  <1>1. Init => ChainingInv
    BY ChainingInit
  <1>2. ChainingInv /\ [Next]_vars => ChainingInv'
    BY ChainingKept
  <1>3. QED
    BY <1>1, <1>2, PTL DEF Spec

\* A handler of the device gets the command that was sent, all of it
\* (handle_chaining_receive_command).
THEOREM CommandIsWhole == Spec => []CommandWhole
  <1>1. ChainingInv => CommandWhole
    BY WhileHandling DEF ChainingInv, CommandWhole, Handled
  <1>2. QED
    BY <1>1, ChainingInvariant, PTL

\* The Reader gets the response to its command, all of it
\* (handle_chaining_send_command and handle_chaining_send_response).
THEOREM ResponseIsWhole == Spec => []ResponseWhole
  <1>1. ChainingInv => ResponseWhole
    BY DEF ChainingInv, ResponseWhole, Completed
  <1>2. QED
    BY <1>1, ChainingInvariant, PTL

\* No part is longer than what the Reader asked for (create_response_chain).
THEOREM PartsAreShort == Spec => []PartsFit
  <1>1. ASSUME ChainingInv, ~ dirty, NEW i \in 1 .. Len(toReader), toReader[i].type = "response"
        PROVE  Len(toReader[i].data) <= asked
    <2>1. TypeOK /\ InTurn
      BY <1>1 DEF ChainingInv
    <2>2. CASE Quiet(toReader)
      BY <1>1, <2>2 DEF Quiet
    <2>3. CASE Stopped
      BY <1>1, <2>3 DEF Stopped
    <2>4. CASE ~ Quiet(toReader) /\ ~ Stopped
      <3>1. PICK m : Acknowledged(m) \/ Answering(m)
        BY <2>1, <2>4 DEF InTurn, NoCommand, Handled, OnItsWay, Fetching
      <3>2. Only(toReader, m)
        BY <3>1 DEF Acknowledged, Answering
      <3>3. toReader[i] = m
        BY <1>1, <3>2 DEF Only
      <3>4. Len(m.data) <= asked
        <4>1. 0 <= asked
          BY <2>1, ChainingAssumption DEF TypeOK
        <4>2. QED
          BY <3>1, <4>1, EmptySeq DEF Acknowledged, Answering
      <3>5. QED
        BY <3>3, <3>4
    <2>5. QED
      BY <2>2, <2>3, <2>4
  <1>2. ChainingInv => PartsFit
    BY <1>1 DEF PartsFit
  <1>3. QED
    BY <1>2, ChainingInvariant, PTL
=============================================================================
