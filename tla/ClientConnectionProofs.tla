------------------------ MODULE ClientConnectionProofs ------------------------
(***************************************************************************)
(* Proofs about one client connection, for every request, every size and   *)
(* limit of the head buffer and every setting of the timers.               *)
(***************************************************************************)
EXTENDS ClientConnection, Induction

-----------------------------------------------------------------------------
\* Neither a field nor an empty line is the request line.
LEMMA LinesDiffer ==
    /\ EndOfHead \in EmptyLines /\ EmptyLine \in EmptyLines
    /\ EmptyLines \subseteq Item /\ RequestLine \in Item
    /\ RequestLine \notin EmptyLines /\ EndOfHead # EmptyLine
    /\ RequestLine.name \in NoField /\ \A z \in EmptyLines : z.name \in NoField
  <1>1. {"(request)", "", "CR LF"} \subseteq STRING
    BY LiteralsAssumption
  <1>2. EndOfHead \in Item /\ EmptyLine \in Item /\ RequestLine \in Item
    BY <1>1 DEF RequestLine, EndOfHead, EmptyLine, Field, Item
  <1>3. /\ EndOfHead.name = "" /\ EmptyLine.name = ""
        /\ RequestLine.name = "(request)"
        /\ EndOfHead.value = "CR LF" /\ EmptyLine.value = ""
    BY DEF RequestLine, EndOfHead, EmptyLine, Field
  <1>4. QED
    BY <1>2, <1>3 DEF EmptyLines, NoField

\* The parts of the request at hand are sequences of items.
LEMMA RequestParts ==
    ASSUME req \in Requests
    PROVE  /\ req.leading \in Seq(Item) /\ ToSet(req.leading) \subseteq EmptyLines
           /\ req.fields \in Seq(Item) /\ req.rest \in Seq(Item)
           /\ \A f \in ToSet(req.fields) : f \in Item /\ f.name \notin NoField
           /\ ToSet(req.fields) \cap EmptyLines = {}
           /\ req.ending \in EmptyLines
           /\ req.len \in Nat /\ req.len > 0 /\ Len(req.rest) \in Nat
  <1>1. req \in Request
    BY RequestsAssumption
  <1>2. /\ req.leading \in Seq(EmptyLines)
        /\ req.fields \in Seq({line \in Item : line.name \notin NoField})
        /\ req.rest \in Seq(Item) /\ req.ending \in EmptyLines
        /\ req.len \in Nat /\ req.len > 0
    BY <1>1 DEF Request
  <1>3. EmptyLines \subseteq Item
    BY LinesDiffer
  <1>4. \A i \in 1..Len(req.leading) : req.leading[i] \in EmptyLines
    BY <1>2, ElementOfSeq
  <1>5. \A i \in 1..Len(req.fields) :
            req.fields[i] \in Item /\ req.fields[i].name \notin NoField
    BY <1>2, ElementOfSeq
  <1>6. /\ DOMAIN req.leading = 1..Len(req.leading) /\ Len(req.leading) \in Nat
        /\ req.leading = [i \in 1..Len(req.leading) |-> req.leading[i]]
        /\ DOMAIN req.fields = 1..Len(req.fields) /\ Len(req.fields) \in Nat
        /\ req.fields = [i \in 1..Len(req.fields) |-> req.fields[i]]
    BY <1>2, LenProperties
  <1>7. req.leading \in Seq(Item)
    BY <1>3, <1>4, <1>6, IsASeq
  <1>8. req.fields \in Seq(Item)
    BY <1>5, <1>6, IsASeq
  <1>9. ToSet(req.leading) \subseteq EmptyLines
    BY <1>4, <1>6 DEF ToSet
  <1>10. \A f \in ToSet(req.fields) : f \in Item /\ f.name \notin NoField
    BY <1>5, <1>6 DEF ToSet
  <1>11. ToSet(req.fields) \cap EmptyLines = {}
    BY <1>10, LinesDiffer
  <1>12. Len(req.rest) \in Nat
    BY <1>2, LenProperties
  <1>13. QED  BY <1>2, <1>7, <1>8, <1>9, <1>10, <1>11, <1>12

\* What the code has established when it connects.
Checked ==
    read_bytes >= req.len /\ ~req.malformed /\ HostOf(req.fields) = "routed"

\* The first part of the invariant: the buffer, and what was found in it.
ReadInv ==
    /\ req \in Requests /\ phase \in Phases
    /\ max_buf \in Nat /\ buf_len \in 0..max_buf /\ read_bytes \in 0..buf_len
    /\ read_bytes <= req.len + Len(req.rest)
    /\ ReadHasRoom
    /\ phase \in {"connecting", "forwarding", "relaying"} => Checked

\* An incomplete head leaves room for the next read, or none is made.
LEMMA ReadKeepsRoom ==
    ASSUME ReadInv, NEW n \in 1..buf_len, Read(n)
    PROVE  ReadInv'
  <1> DEFINE received == read_bytes + n
  <1>1. /\ phase = "reading" /\ n <= buf_len - read_bytes
        /\ read_bytes' = received
        /\ UNCHANGED <<req, max_buf>>
        /\ received <= req.len + Len(req.rest)
    BY DEF Read, Fixed
  <1>2. /\ received \in Nat /\ received > 0 /\ received <= buf_len
        /\ buf_len \in Nat /\ buf_len <= max_buf
        /\ req.len \in Nat /\ Len(req.rest) \in Nat
        /\ received <= req.len + Len(req.rest)
    BY <1>1, RequestParts DEF ReadInv
  <1>3. CASE HeadPartial(received)
    <2>1. CASE received < buf_len /\ Goto("reading") /\ UNCHANGED buf_len
      BY <1>1, <1>2, <2>1 DEF Goto, ReadInv, ReadHasRoom
    <2>2. CASE /\ received >= buf_len /\ buf_len < max_buf
               /\ buf_len' = Min({2 * buf_len, max_buf}) /\ Goto("reading")
      <3>1. /\ buf_len' = IF 2 * buf_len <= max_buf THEN 2 * buf_len ELSE max_buf
            /\ received < buf_len'
        BY <1>2, <2>2, MinOfTwo DEF ReadInv
      <3>2. QED  BY <1>1, <1>2, <2>2, <3>1 DEF Goto, ReadInv, ReadHasRoom
    <2>3. CASE Send(431, "rejecting") /\ UNCHANGED buf_len
      BY <1>1, <1>2, <2>3 DEF Send, ReadInv, ReadHasRoom, Phases
    <2>4. QED  BY <1>3, <2>1, <2>2, <2>3 DEF HeadPartial
  <1>4. CASE HeadComplete(received)
    BY <1>1, <1>2, <1>4
    DEF HeadComplete, Send, Goto, ReadInv, ReadHasRoom, Phases, Checked
  <1>5. CASE HeadMalformed(received)
    BY <1>1, <1>2, <1>5 DEF HeadMalformed, Send, ReadInv, ReadHasRoom, Phases
  <1>6. QED  BY <1>3, <1>4, <1>5 DEF Read

\* The buffer has room for every read, and only requests that were read whole,
\* parsed and routed are connected (listeners.rs:505-566).
THEOREM ReadInvariant == Spec => []ReadInv
  <1>1. Init => ReadInv
    <2> SUFFICES ASSUME Init PROVE ReadInv
      OBVIOUS
    <2>1. max_buf \in Nat
      BY BufferAssumption DEF Init, AsUsize
    <2>2. buf_len = IF FirstBuf <= max_buf THEN FirstBuf ELSE max_buf
      BY <2>1, MinOfTwo, BufferAssumption DEF Init
    <2>3. read_bytes = 0 /\ read_bytes <= req.len + Len(req.rest)
      BY RequestParts DEF Init
    <2>4. QED
      BY <2>1, <2>2, <2>3, BufferAssumption DEF Init, ReadInv, ReadHasRoom, Phases
  <1>2. ReadInv /\ [Next]_vars => ReadInv'
    <2> SUFFICES ASSUME ReadInv, [Next]_vars PROVE ReadInv'
      OBVIOUS
    <2>1. ASSUME NEW n \in 1..buf_len, Read(n)
          PROVE  ReadInv'
      BY <2>1, ReadKeepsRoom
    <2>2. CASE EndOfStream \/ SocketError \/ HeadersTimeout \/ Unavailable
      BY <2>2
      DEF EndOfStream, SocketError, HeadersTimeout, Unavailable, Send, Goto,
          Kept, Fixed, ReadInv, ReadHasRoom, Phases, Checked
    <2>3. CASE WritePage
      BY <2>3
      DEF WritePage, PageBegins, PageWritten, PageFlushed, Send, Goto, Kept,
          Fixed, ReadInv, ReadHasRoom, Phases, Checked
    <2>4. CASE ConnectEnds \/ Forwarded
      BY <2>4
      DEF ConnectEnds, Connected, ConnectRefused, ConnectTimeout, Forwarded,
          Send, Goto, Kept, Fixed, ReadInv, ReadHasRoom, Phases, Checked
    <2>5. CASE RelayBytes \/ RelayEnds \/ BodyTimeout \/ Cancel
      BY <2>5
      DEF RelayBytes, RelayEnds, BodyTimeout, Cancel, Goto, Kept, Fixed,
          ReadInv, ReadHasRoom, Phases, Checked
    <2>6. CASE UNCHANGED vars
      BY <2>6 DEF vars, ReadInv, ReadHasRoom, Checked
    <2>7. QED  BY <2>1, <2>2, <2>3, <2>4, <2>5, <2>6 DEF Next
  <1>3. QED  BY <1>1, <1>2, PTL DEF Spec

\* The socket is never read into a full buffer.
THEOREM ReadHasRoomHolds == Spec => []ReadHasRoom
  BY ReadInvariant, PTL DEF ReadInv

-----------------------------------------------------------------------------
Codes == Rejections \cup Answers \cup {Relayed, 503}
Piece == [code : Codes, whole : BOOLEAN]

\* The pages that may be sent in a phase.
CodesOf(ph) ==
    CASE ph = "rejecting" -> Rejections
      [] ph = "answering" -> Answers
      [] ph = "unavailable" -> {503}
      [] OTHER -> {Relayed}

\* What a page or a piece of output says about the request.
Justified(code) ==
    /\ code = 431 => req.len > max_buf
    /\ code = Relayed => Checked

\* A page about to be begun may follow what there is; a page that was begun
\* is the last piece of the output.
PageFits ==
    phase \in Writing =>
        /\ Justified(page.code)
        /\ page.begun => out # <<>> /\ Last(out).code = page.code
        /\ ~page.begun /\ out # <<>> => page.code \in MayFollow(Last(out))

\* Nothing is written before an answer or the relay begins.
NothingYet ==
    \/ phase \in {"reading", "connecting", "forwarding"}
    \/ phase = "rejecting" /\ ~page.begun

\* The second part of the invariant: what was written to the client.
WriteInv ==
    /\ page \in [code : CodesOf(phase), begun : BOOLEAN]
    /\ out \in Seq(Piece)
    /\ \A i \in 1..Len(out) : Justified(out[i].code)
    /\ PageFits
    /\ NothingYet => out = <<>>
    /\ phase = "relaying" /\ out # <<>> => Last(out).code = Relayed
    /\ AnswersDoNotMix

\* Nothing that is established about a request is lost.
LEMMA JustifiedStays ==
    ASSUME ReadInv, [Next]_vars, NEW code, Justified(code)
    PROVE  Justified(code)'
  <1>1. /\ UNCHANGED <<req, max_buf>>
        /\ read_bytes' = read_bytes \/ \E n \in 1..buf_len : Read(n)
    BY DEF Next, vars, Read, EndOfStream, SocketError, HeadersTimeout, WritePage,
           PageBegins, PageWritten, PageFlushed, ConnectEnds, Connected,
           ConnectRefused, ConnectTimeout, Forwarded, RelayBytes, RelayEnds,
           BodyTimeout, Cancel, Unavailable, Kept, Fixed
  <1>2. read_bytes' >= read_bytes /\ read_bytes' \in Nat /\ req.len \in Nat
    BY <1>1, RequestParts DEF ReadInv, Read
  <1>3. QED  BY <1>1, <1>2 DEF Justified, Checked, ReadInv

\* Going on without a page, to where nothing is written, or to the end.
LEMMA GotoKeeps ==
    ASSUME ReadInv, WriteInv, [Next]_vars, UNCHANGED out, NEW next \in Phases,
           Goto(next), next \notin Writing, next # "closed" => out = <<>>
    PROVE  WriteInv'
  <1>1. \A i \in 1..Len(out) : Justified(out[i].code)'
    BY JustifiedStays DEF WriteInv
  <1>2. page' \in [code : CodesOf(next), begun : BOOLEAN] /\ ~page'.begun
    BY DEF Goto, NoPage, CodesOf, Writing, Relayed
  <1>3. ~NothingYet' \/ out = <<>>
    BY DEF Goto, NothingYet, Writing
  <1>4. QED
    BY <1>1, <1>2, <1>3 DEF WriteInv, Goto, PageFits, AnswersDoNotMix

\* Starting a page that may follow what there is.
LEMMA SendKeeps ==
    ASSUME ReadInv, WriteInv, [Next]_vars, UNCHANGED out, NEW next \in Writing,
           NEW code \in CodesOf(next), Send(code, next), Justified(code)',
           next = "rejecting" => out = <<>>,
           out # <<>> => code \in MayFollow(Last(out))
    PROVE  WriteInv'
  <1>1. \A i \in 1..Len(out) : Justified(out[i].code)'
    BY JustifiedStays DEF WriteInv
  <1>2. /\ page' \in [code : CodesOf(next), begun : BOOLEAN]
        /\ page'.code = code /\ ~page'.begun /\ phase' = next
    BY DEF Send
  <1>3. ~NothingYet' \/ out = <<>>
    BY <1>2 DEF NothingYet, Writing
  <1>4. PageFits'
    BY <1>2 DEF PageFits
  <1>5. QED
    BY <1>1, <1>2, <1>3, <1>4 DEF WriteInv, AnswersDoNotMix, Writing

\* Whatever the connection waits for, the page of the shutdown may follow.
LEMMA ShutdownMayFollow ==
    ASSUME WriteInv, phase \notin {"unavailable", "closed"}, phase \in Phases,
           out # <<>>
    PROVE  503 \in MayFollow(Last(out))
  <1>1. Last(out) \in Piece
    BY DEF WriteInv, Last
  <1>2. Last(out).code # 503
    <2>1. CASE phase = "relaying"
      BY <2>1 DEF WriteInv, Relayed
    <2>2. CASE phase \in Writing /\ page.begun
      BY <2>2 DEF WriteInv, PageFits, CodesOf, Writing, Rejections, Answers
    <2>3. CASE phase \in Writing /\ ~page.begun
      BY <1>1, <2>3 DEF WriteInv, PageFits, MayFollow, Piece, Codes, Rejections,
                        Answers, Relayed
    <2>4. QED
      BY <2>1, <2>2, <2>3 DEF WriteInv, NothingYet, Phases, Writing
  <1>3. QED
    BY <1>1, <1>2 DEF MayFollow, Piece, Codes, Relayed

\* A page is begun: a new last piece.
LEMMA BeginsKeeps ==
    ASSUME ReadInv, WriteInv, PageBegins
    PROVE  WriteInv'
  <1> DEFINE piece == [code |-> page.code, whole |-> FALSE]
  <1>1. /\ out' = Append(out, piece) /\ phase' = phase /\ phase \in Writing
        /\ page' = [page EXCEPT !.begun = TRUE] /\ ~page.begun
        /\ UNCHANGED <<req, max_buf, read_bytes>>
    BY DEF PageBegins, Fixed
  <1>2. piece \in Piece /\ page' \in [code : CodesOf(phase), begun : BOOLEAN]
        /\ page'.code = page.code /\ page'.begun
    BY <1>1 DEF WriteInv, CodesOf, Piece, Codes, Writing
  <1>3. /\ out' \in Seq(Piece) /\ Len(out') = Len(out) + 1 /\ out' # <<>>
        /\ \A i \in 1..Len(out) : out'[i] = out[i]
        /\ out'[Len(out) + 1] = piece
    BY <1>1, <1>2, AppendProperties DEF WriteInv
  <1>4. Last(out') = piece
    BY <1>3 DEF Last
  <1>5. \A i \in 1..Len(out') : Justified(out[i].code)'
    <2>1. \A code : Justified(code) => Justified(code)'
      BY <1>1 DEF Justified, Checked
    <2>2. Justified(page.code)
      BY <1>1 DEF WriteInv, PageFits
    <2>3. QED  BY <1>3, <2>1, <2>2 DEF WriteInv
  <1>6. AnswersDoNotMix'
    <2> SUFFICES ASSUME NEW i \in 2..Len(out')
                 PROVE  out'[i].code \in MayFollow(out'[i - 1])
      BY DEF AnswersDoNotMix
    <2>1. CASE i <= Len(out)
      BY <1>3, <2>1 DEF WriteInv, AnswersDoNotMix
    <2>2. CASE i = Len(out) + 1
      <3>1. out # <<>> /\ out'[i - 1] = Last(out) /\ Len(out) \in Nat
        BY <1>3, <2>2 DEF WriteInv, Last
      <3>2. QED  BY <1>1, <1>3, <2>2, <3>1 DEF WriteInv, PageFits
    <2>3. QED  BY <1>3, <2>1, <2>2 DEF WriteInv
  <1>7. PageFits'
    <2>1. Justified(page.code)'
      BY <1>1 DEF WriteInv, PageFits, Justified, Checked
    <2>2. QED  BY <1>1, <1>2, <1>3, <1>4, <2>1 DEF PageFits
  <1>8. ~NothingYet'
    BY <1>1, <1>2 DEF NothingYet, Writing
  <1>9. QED
    BY <1>1, <1>2, <1>3, <1>5, <1>6, <1>7, <1>8 DEF WriteInv, Writing

\* A page is written whole: the last piece is, what stands before it stays.
LEMMA WrittenKeeps ==
    ASSUME ReadInv, WriteInv, PageWritten
    PROVE  WriteInv'
  <1>1. /\ out' = [out EXCEPT ![Len(out)].whole = TRUE] /\ phase \in Writing
        /\ page.begun /\ out # <<>> /\ out \in Seq(Piece)
        /\ UNCHANGED <<phase, page, req, max_buf, read_bytes>>
    BY DEF PageWritten, Fixed, WriteInv, PageFits
  <1> DEFINE n == Len(out)
             piece == [out[n] EXCEPT !.whole = TRUE]
  <1>2. n \in Nat /\ n > 0 /\ out[n] \in Piece
    BY <1>1
  <1>3. piece \in Piece /\ piece.code = out[n].code
    BY <1>2 DEF Piece
  <1>4. /\ out' \in Seq(Piece) /\ Len(out') = n
        /\ \A i \in 1..n : out'[i] = IF i = n THEN piece ELSE out[i]
    BY <1>1, <1>2, <1>3
  <1>5. \A i \in 1..n : out'[i].code = out[i].code
    BY <1>3, <1>4
  <1>6. out' # <<>> /\ Last(out').code = page.code
    BY <1>1, <1>2, <1>4, <1>5 DEF Last, WriteInv, PageFits
  <1>7. AnswersDoNotMix'
    BY <1>2, <1>4, <1>5 DEF AnswersDoNotMix, WriteInv
  <1>8. \A i \in 1..Len(out') : Justified(out[i].code)'
    BY <1>1, <1>4, <1>5 DEF WriteInv, Justified, Checked
  <1>9. PageFits' /\ ~NothingYet'
    BY <1>1, <1>6
    DEF WriteInv, PageFits, Justified, Checked, NothingYet, Writing
  <1>10. QED
    BY <1>1, <1>4, <1>7, <1>8, <1>9 DEF WriteInv, Writing

\* After a rejection comes a 404, after any other page the end.
LEMMA FlushedKeeps ==
    ASSUME ReadInv, WriteInv, PageFlushed, [Next]_vars
    PROVE  WriteInv'
  <1>1. /\ out' = out /\ phase \in Writing /\ page.begun /\ Last(out).whole
        /\ out # <<>> /\ Last(out).code = page.code
    BY DEF PageFlushed, Kept, WriteInv, PageFits
  <1>2. CASE phase = "rejecting"
    <2>1. Send(404, "answering") /\ page.code \in Rejections
      BY <1>2 DEF PageFlushed, WriteInv, CodesOf
    <2>2. 404 \in MayFollow(Last(out))
      BY <1>1, <2>1 DEF MayFollow, Rejections, Answers, Relayed
    <2>3. Justified(404)'
      BY DEF Justified, Relayed
    <2>4. QED
      BY <1>1, <2>1, <2>2, <2>3, SendKeeps DEF CodesOf, Answers, Writing
  <1>3. CASE phase # "rejecting"
    BY <1>1, <1>3, GotoKeeps DEF PageFlushed, Phases, Writing
  <1>4. QED  BY <1>2, <1>3

\* A read ends in another read, a page, or the connect.
LEMMA ReadKeepsOutput ==
    ASSUME ReadInv, WriteInv, NEW n \in 1..buf_len, Read(n), [Next]_vars
    PROVE  WriteInv'
  <1> DEFINE received == read_bytes + n
  <1>1. /\ out = <<>> /\ UNCHANGED <<out, req, max_buf>>
        /\ received \in Nat /\ req.len \in Nat /\ received <= buf_len
        /\ buf_len \in Nat /\ max_buf \in Nat
    BY RequestParts DEF Read, Fixed, WriteInv, NothingYet, ReadInv
  <1>2. ASSUME NEW next \in {"reading", "connecting"}, Goto(next)
        PROVE  WriteInv'
    BY <1>1, <1>2, GotoKeeps DEF Phases, Writing
  <1>3. ASSUME NEW code \in {404, 502}, Send(code, "answering")
        PROVE  WriteInv'
    <2>1. Justified(code)'
      BY DEF Justified, Relayed
    <2>2. QED  BY <1>1, <1>3, <2>1, SendKeeps DEF CodesOf, Answers, Writing
  <1>4. ASSUME NEW code \in Rejections, Send(code, "rejecting"),
               code = 431 => req.len > max_buf
        PROVE  WriteInv'
    <2>1. Justified(code)'
      BY <1>1, <1>4 DEF Justified, Relayed, Rejections
    <2>2. QED  BY <1>1, <1>4, <2>1, SendKeeps DEF CodesOf, Writing
  <1>5. CASE HeadPartial(received)
    BY <1>1, <1>2, <1>4, <1>5 DEF HeadPartial, Rejections
  <1>6. CASE HeadComplete(received)
    BY <1>2, <1>3, <1>4, <1>6 DEF HeadComplete, Rejections
  <1>7. CASE HeadMalformed(received)
    BY <1>3, <1>7 DEF HeadMalformed
  <1>8. QED  BY <1>5, <1>6, <1>7 DEF Read

\* Whatever fires whenever it may, what was written to the client is in order
\* and justified by the request (listeners.rs:240-248, 284-342, 526-572).
THEOREM WriteInvariant == Spec => []WriteInv
  <1>1. Init => WriteInv
    BY DEF Init, WriteInv, NoPage, CodesOf, Writing, NothingYet, PageFits, Relayed,
           AnswersDoNotMix
  <1>2. ReadInv /\ WriteInv /\ [Next]_vars => WriteInv'
    <2> SUFFICES ASSUME ReadInv, WriteInv, [Next]_vars PROVE WriteInv'
      OBVIOUS
    <2>1. ASSUME NEW n \in 1..buf_len, Read(n)
          PROVE  WriteInv'
      BY <2>1, ReadKeepsOutput
    <2>2. ASSUME NEW code \in {404, 408, 502, 504}, Send(code, "answering"),
                 UNCHANGED out,
                 out # <<>> => code \in MayFollow(Last(out))
          PROVE  WriteInv'
      <3>1. Justified(code)'
        BY DEF Justified, Relayed
      <3>2. QED  BY <2>2, <3>1, SendKeeps DEF CodesOf, Answers, Writing
    <2>3. CASE EndOfStream \/ ConnectRefused \/ ConnectTimeout
      <3>1. out = <<>> /\ UNCHANGED out
        BY <2>3 DEF EndOfStream, ConnectRefused, ConnectTimeout, Kept, WriteInv,
                    NothingYet
      <3>2. QED
        BY <2>2, <2>3, <3>1 DEF EndOfStream, ConnectRefused, ConnectTimeout
    <2>4. CASE HeadersTimeout
      <3>1. Send(408, "answering") /\ UNCHANGED out
        BY <2>4 DEF HeadersTimeout, Kept
      <3>2. ASSUME out # <<>>
            PROVE  408 \in MayFollow(Last(out))
        <4>1. phase = "rejecting" /\ page.begun
          BY <2>4, <3>2 DEF HeadersTimeout, WriteInv, NothingYet
        <4>2. Last(out).code \in Rejections
          BY <3>2, <4>1 DEF WriteInv, PageFits, CodesOf, Writing
        <4>3. QED
          BY <4>2 DEF MayFollow, Rejections, Answers, Relayed
      <3>3. QED  BY <2>2, <3>1, <3>2
    <2>5. CASE SocketError \/ RelayEnds \/ BodyTimeout
      <3>1. Goto("closed") /\ UNCHANGED out
        BY <2>5 DEF SocketError, RelayEnds, BodyTimeout, Kept
      <3>2. QED  BY <3>1, GotoKeeps DEF Phases, Writing
    <2>6. CASE WritePage
      BY <2>6, BeginsKeeps, WrittenKeeps, FlushedKeeps DEF WritePage
    <2>7. CASE Connected \/ Forwarded
      <3>1. /\ out = <<>> /\ UNCHANGED out
            /\ Goto("forwarding") \/ Goto("relaying")
        BY <2>7 DEF Connected, Forwarded, Kept, WriteInv, NothingYet
      <3>2. QED  BY <3>1, GotoKeeps DEF Phases, Writing
    <2>8. CASE RelayBytes
      <3> DEFINE piece == [code |-> Relayed, whole |-> TRUE]
      <3>1. /\ out' = <<piece>> /\ phase = "relaying"
            /\ UNCHANGED <<phase, page, req, max_buf, read_bytes>>
        BY <2>8 DEF RelayBytes, Fixed
      <3>2. piece \in Piece
        BY DEF Piece, Codes
      <3>3. /\ out' \in Seq(Piece) /\ Len(out') = 1 /\ out'[1] = piece
            /\ Last(out') = piece
        BY <3>1, <3>2 DEF Last
      <3>4. Justified(Relayed)'
        BY <3>1 DEF ReadInv, Justified, Checked, Relayed
      <3>5. \A i \in 1..Len(out') : Justified(out[i].code)'
        BY <3>3, <3>4
      <3>6. PageFits' /\ AnswersDoNotMix' /\ ~NothingYet'
        BY <3>1, <3>3 DEF PageFits, AnswersDoNotMix, NothingYet, Writing
      <3>7. QED
        BY <3>1, <3>3, <3>5, <3>6 DEF WriteInv
    <2>9. CASE Unavailable
      <3>1. /\ Send(503, "unavailable") /\ UNCHANGED out
            /\ phase \notin {"unavailable", "closed"} /\ phase \in Phases
        BY <2>9 DEF Unavailable, Kept, ReadInv
      <3>2. Justified(503)'
        BY DEF Justified, Relayed
      <3>3. QED
        BY <3>1, <3>2, SendKeeps, ShutdownMayFollow DEF CodesOf, Writing
    <2>10. CASE Cancel \/ UNCHANGED vars
      BY <2>10
      DEF Cancel, Fixed, vars, WriteInv, Justified, Checked, PageFits, NothingYet,
          AnswersDoNotMix
    <2>11. QED
      BY <2>1, <2>3, <2>4, <2>5, <2>6, <2>7, <2>8, <2>9, <2>10
      DEF Next, ConnectEnds
  <1>3. QED  BY ReadInvariant, <1>1, <1>2, PTL DEF Spec

\* The pages of one connection mix in no other way than the code intends.
THEOREM AnswersDoNotMixHolds == Spec => []AnswersDoNotMix
  BY WriteInvariant, PTL DEF WriteInv

\* A head that fits the buffer is never called too long.
THEOREM FittingHeadIsAcceptedHolds == Spec => []FittingHeadIsAccepted
  <1>1. WriteInv => FittingHeadIsAccepted
    <2> SUFFICES ASSUME WriteInv,
                        page.code = 431 \/ \E i \in DOMAIN out : out[i].code = 431
                 PROVE  req.len > max_buf
      BY DEF FittingHeadIsAccepted
    <2>1. CASE page.code = 431
      <3>1. phase \in Writing
        BY <2>1 DEF WriteInv, CodesOf, Writing, Relayed
      <3>2. QED  BY <2>1, <3>1 DEF WriteInv, PageFits, Justified
    <2>2. CASE \E i \in DOMAIN out : out[i].code = 431
      BY <2>2 DEF WriteInv, Justified
    <2>3. QED  BY <2>1, <2>2
  <1>2. QED  BY WriteInvariant, <1>1, PTL

\* Nothing of a request reaches an upstream before the whole head was read,
\* parsed and routed.
THEOREM OnlyCheckedRequestsAreForwardedHolds ==
    Spec => []OnlyCheckedRequestsAreForwarded
  <1>1. ReadInv /\ WriteInv => OnlyCheckedRequestsAreForwarded
    <2> SUFFICES ASSUME ReadInv, WriteInv,
                        \/ phase \in {"connecting", "forwarding", "relaying"}
                        \/ \E i \in DOMAIN out : out[i].code = Relayed
                 PROVE  Checked /\ req.len <= max_buf
      BY DEF OnlyCheckedRequestsAreForwarded, Checked
    <2>1. Checked
      BY DEF ReadInv, WriteInv, Justified
    <2>2. QED
      BY <2>1, RequestParts DEF Checked, ReadInv
  <1>2. QED  BY ReadInvariant, WriteInvariant, <1>1, PTL

-----------------------------------------------------------------------------
\* The head that the upstream gets.

\* The lines of a name, and those of no name out of some.
LinesOf(name) == {f \in Item : f.name = name}
Without(names) == {f \in Item : f.name \notin names}

\* In these words nothing depends on the lines of the head at hand.
LEMMA NamedIsKept ==
    ASSUME NEW lines \in Seq(Item), NEW name
    PROVE  Named(lines, name) = Keep(lines, LinesOf(name))
  <1> DEFINE S == {f \in ToSet(lines) : f.name = name}
  <1>1. \A f \in ToSet(lines) : f \in Item
    BY ElementOfSeq DEF ToSet
  <1>2. ToSet(lines) \cap S = ToSet(lines) \cap LinesOf(name)
    BY <1>1 DEF LinesOf
  <1> HIDE DEF S
  <1>3. Keep(lines, S) = Keep(lines, LinesOf(name))
    BY <1>2, KeepAgree
  <1>4. QED  BY <1>3 DEF Named, S

\* Nor for what is left of a head.
LEMMA StrippedIsKept ==
    ASSUME NEW lines \in Seq(Item), NEW names
    PROVE  StripHeadersByName(lines, names) = Keep(lines, Without(names))
  <1> DEFINE S == {l \in ToSet(lines) : l.name \notin names}
  <1>1. \A f \in ToSet(lines) : f \in Item
    BY ElementOfSeq DEF ToSet
  <1>2. ToSet(lines) \cap S = ToSet(lines) \cap Without(names)
    BY <1>1 DEF Without
  <1> HIDE DEF S
  <1>3. Keep(lines, S) = Keep(lines, Without(names))
    BY <1>2, KeepAgree
  <1>4. QED  BY <1>3 DEF StripHeadersByName, S

\* The configured lines.
LEMMA SortedLines ==
    ASSUME NEW map, IsHeaderMap(map)
    PROVE  /\ SortedHeaders(map) \in Seq(Item)
           /\ ToSet(SortedHeaders(map)) =
                  {Field(k.name, map[k]) : k \in DOMAIN map}
  <1> DEFINE keys == SetToSeq(DOMAIN map)
             n == Cardinality(DOMAIN map)
             lines == SortedHeaders(map)
  <1>1. /\ n \in Nat /\ DOMAIN keys = 1..n
        /\ keys \in Seq(DOMAIN map) /\ Len(keys) = n
        /\ \A x \in DOMAIN map : \E i \in 1..n : keys[i] = x
    BY SetToSeqLists, FS_CardinalityType DEF IsHeaderMap
  <1>2. \A i \in 1..n : keys[i] \in DOMAIN map
    BY <1>1, ElementOfSeq
  <1>3. lines = [i \in 1..n |-> Field(keys[i].name, map[keys[i]])]
    BY <1>1 DEF SortedHeaders
  <1> HIDE DEF n, keys, lines
  <1>4. \A i \in 1..n : Field(keys[i].name, map[keys[i]]) \in Item
    BY <1>2 DEF IsHeaderMap, Field, Item
  <1>5. lines \in Seq(Item)
    BY <1>1, <1>3, <1>4, IsASeq
  <1>6. ToSet(lines) = {Field(keys[i].name, map[keys[i]]) : i \in 1..n}
    BY <1>3 DEF ToSet
  <1>7. ToSet(lines) = {Field(k.name, map[k]) : k \in DOMAIN map}
    BY <1>1, <1>2, <1>6
  <1>8. QED  BY <1>5, <1>7 DEF lines

Names(map) == {k.name : k \in DOMAIN map}

Parts(lines, map, kept, set) ==
    kept = Keep(lines, Without(Names(map))) /\ set = SortedHeaders(map)

\* What a rewritten head is made of: the lines under other names, then those
\* of the map.
LEMMA RewrittenHead ==
    ASSUME NEW lines \in Seq(Item), NEW map, IsHeaderMap(map),
           NEW kept, NEW set, Parts(lines, map, kept, set)
    PROVE  /\ WithHeaders(lines, map) = kept \o set
           /\ kept \in Seq(Item) /\ set \in Seq(Item)
           /\ WithHeaders(lines, map) \in Seq(Item)
           /\ ToSet(kept) = ToSet(lines) \cap Without(Names(map))
           /\ ToSet(set) = {Field(k.name, map[k]) : k \in DOMAIN map}
           /\ ToSet(set) \cap Without(Names(map)) = {}
  <1>1. WithHeaders(lines, map) = kept \o set
    BY StrippedIsKept DEF WithHeaders, Names, Parts
  <1>2. set \in Seq(Item) /\ ToSet(set) = {Field(k.name, map[k]) : k \in DOMAIN map}
    BY SortedLines DEF Parts
  <1>3. kept \in Seq(Item)
    BY KeepIsSeq DEF Parts
  <1>4. kept \o set \in Seq(Item)
    BY <1>2, <1>3, ConcatProperties
  <1>5. ToSet(kept) = ToSet(lines) \cap Without(Names(map))
    BY KeepElements DEF Parts
  <1>6. ToSet(set) \cap Without(Names(map)) = {}
    BY <1>2 DEF Without, Names, Field
  <1>7. QED  BY <1>1, <1>2, <1>3, <1>4, <1>5, <1>6

\* Rewriting leaves the lines of other names as they are.
LEMMA OthersStay ==
    ASSUME NEW lines \in Seq(Item), NEW map, IsHeaderMap(map),
           NEW S, S \subseteq Without(Names(map))
    PROVE  Keep(WithHeaders(lines, map), S) = Keep(lines, S)
  <1> DEFINE N == Without(Names(map))
             kept == Keep(lines, N)
             set == SortedHeaders(map)
  <1>1. /\ WithHeaders(lines, map) = kept \o set
        /\ kept \in Seq(Item) /\ set \in Seq(Item)
        /\ ToSet(set) \cap N = {}
    <2>1. Parts(lines, map, kept, set)
      BY DEF Parts
    <2> HIDE DEF kept, set
    <2>2. QED  BY <2>1, RewrittenHead
  <1>2. Keep(kept, S) = Keep(lines, N \cap S) /\ N \cap S = S
    BY KeepTwice
  <1> HIDE DEF kept, set, N
  <1>3. Keep(kept \o set, S) = Keep(kept, S) \o Keep(set, S)
    BY <1>1, KeepConcat
  <1>4. Keep(set, S) = <<>>
    <2>1. ToSet(set) \cap S = {}
      BY <1>1 DEF N
    <2>2. QED  BY <1>1, <2>1, KeepNone
  <1>5. Keep(lines, S) \in Seq(Item)
    BY KeepIsSeq
  <1>6. Keep(lines, S) \o <<>> = Keep(lines, S)
    BY <1>5, ConcatEmptySeq
  <1>7. QED  BY <1>1, <1>2, <1>3, <1>4, <1>6

\* What is configured for the upstream: the map, by name.
LEMMA UpstreamMap ==
    ASSUME NEW map, map = UpstreamHeaders(GlobalUpstream, ServiceUpstream)
    PROVE  /\ IsHeaderMap(map)
           /\ DOMAIN map = {ForwardedFor} \cup DOMAIN ServiceUpstream
                                          \cup DOMAIN GlobalUpstream
           /\ \A k \in DOMAIN map : map[k] = Configured(k)
  <1> DEFINE g == GlobalUpstream
             s == ServiceUpstream
             e == Extended(g, s)
  <1>1. IsHeaderMap(g) /\ IsHeaderMap(s)
    BY MapsAssumption
  <1>2. e = [k \in DOMAIN g \cup DOMAIN s |-> IF k \in DOMAIN s THEN s[k] ELSE g[k]]
    BY DEF Extended
  <1>3. /\ map = [k \in DOMAIN e \cup DOMAIN PeerAddress |->
                     IF k \in DOMAIN PeerAddress THEN PeerAddress[k] ELSE e[k]]
    BY DEF UpstreamHeaders, Extended
  <1>4. DOMAIN PeerAddress = {ForwardedFor} /\ PeerAddress[ForwardedFor] = "peer"
    BY DEF PeerAddress
  <1> HIDE DEF g, s, e
  <1>5. /\ DOMAIN e = DOMAIN g \cup DOMAIN s
        /\ \A k \in DOMAIN e : e[k] = IF k \in DOMAIN s THEN s[k] ELSE g[k]
    BY <1>2
  <1>6. /\ DOMAIN map = DOMAIN g \cup DOMAIN s \cup {ForwardedFor}
        /\ map = [k \in DOMAIN map |-> map[k]]
        /\ \A k \in DOMAIN map :
              map[k] = IF k = ForwardedFor THEN "peer"
                       ELSE IF k \in DOMAIN s THEN s[k] ELSE g[k]
    BY <1>3, <1>4, <1>5
  <1>7. IsFiniteSet(DOMAIN map)
    <2> DEFINE T == DOMAIN g \cup DOMAIN s
    <2>1. IsFiniteSet(T) /\ IsFiniteSet({ForwardedFor})
      BY <1>1, FS_Union, FS_Singleton DEF IsHeaderMap
    <2>2. DOMAIN map = T \cup {ForwardedFor}
      BY <1>6
    <2> HIDE DEF T
    <2>3. IsFiniteSet(T \cup {ForwardedFor})
      BY <2>1, FS_Union
    <2>4. QED  BY <2>2, <2>3
  <1>8. ForwardedFor \in [name : STRING \ NoField, spelled : STRING]
    BY LiteralsAssumption DEF ForwardedFor, Key, NoField
  <1>9. DOMAIN map \subseteq [name : STRING \ NoField, spelled : STRING]
    BY <1>1, <1>6, <1>8 DEF IsHeaderMap
  <1>10. \A k \in DOMAIN map : map[k] \in STRING
    <2>1. "peer" \in STRING
      BY LiteralsAssumption
    <2>2. \A k \in DOMAIN g : g[k] \in STRING
      BY <1>1 DEF IsHeaderMap
    <2>3. \A k \in DOMAIN s : s[k] \in STRING
      BY <1>1 DEF IsHeaderMap
    <2>4. QED  BY <1>6, <2>1, <2>2, <2>3
  <1>11. IsHeaderMap(map)
    BY <1>6, <1>7, <1>9, <1>10 DEF IsHeaderMap
  <1>12. \A k \in DOMAIN map : map[k] = Configured(k)
    BY <1>6 DEF Configured, g, s
  <1>13. QED  BY <1>6, <1>11, <1>12 DEF g, s

-----------------------------------------------------------------------------
\* The request as it was read, and what of it is sent.

\* Concatenation under a name of its own, which the provers leave folded.
p \odot q == p \o q

LEMMA Joined ==
    \A p, q \in Seq(Item) :
        p \odot q \in Seq(Item) /\ ToSet(p \odot q) = ToSet(p) \cup ToSet(q)
  <1> TAKE p, q \in Seq(Item)
  <1>1. p \o q \in Seq(Item)
    BY ConcatProperties
  <1>2. ToSet(p \o q) = ToSet(p) \cup ToSet(q)
    BY ToSetConcat
  <1>3. QED  BY <1>1, <1>2 DEF \odot

LEMMA JoinedTwice ==
    \A p, q, r \in Seq(Item) : (p \odot q) \odot r = p \odot (q \odot r)
  <1> TAKE p, q, r \in Seq(Item)
  <1> QED  BY ConcatAssociative DEF \odot

LEMMA KeepJoined ==
    \A p, q \in Seq(Item) : \A S :
        Keep(p \odot q, S) = Keep(p, S) \odot Keep(q, S)
  <1> TAKE p, q \in Seq(Item)
  <1> TAKE S
  <1> QED  BY KeepConcat DEF \odot

LEMMA KeepItems ==
    \A p \in Seq(Item) : \A S :
        Keep(p, S) \in Seq(Item) /\ ToSet(Keep(p, S)) = ToSet(p) \cap S
  <1> TAKE p \in Seq(Item)
  <1> TAKE S
  <1> QED  BY KeepIsSeq, KeepElements

LEMMA OneItem ==
    \A x \in Item :
        /\ One(x) \in Seq(Item) /\ ToSet(One(x)) = {x}
        /\ \A S : x \in S => Keep(One(x), S) = One(x)
  <1> TAKE x \in Item
  <1> QED  BY OneIs, KeepOne

\* The first element of the set S, in the middle of s.
LEMMA FirstItem ==
    ASSUME NEW s, NEW S, NEW a, NEW x, NEW b, Cut(Item, s, S, a, x, b)
    PROVE  /\ FirstIn(s, S) = Len(a) + 1 /\ Len(a) \in Nat
           /\ SubSeq(s, 1, FirstIn(s, S) - 1) = a
           /\ SubSeq(s, FirstIn(s, S) + 1, Len(s)) = b
           /\ SubSeq(s, FirstIn(s, S), Len(s)) = One(x) \odot b
  <1> DEFINE l == Len(a)
  <1>1. /\ FirstIn(s, S) = l + 1
        /\ SubSeq(s, 1, l) = a
        /\ SubSeq(s, l + 2, Len(s)) = b
        /\ SubSeq(s, l + 1, Len(s)) = One(x) \o b
    BY FirstInParts
  <1>2. l \in Nat
    <2>1. a \in Seq(Item)
      BY DEF Cut
    <2>2. QED  BY <2>1, LenProperties
  <1> HIDE DEF l
  <1>3. l + 1 - 1 = l /\ l + 1 + 1 = l + 2
    BY <1>2
  <1>4. QED  BY <1>1, <1>2, <1>3 DEF l, \odot

\* A request behind a part a, with the fields b, the empty line z and what
\* follows it.
Request4(a, b, z, c) ==
    (((a \odot One(RequestLine)) \odot b) \odot One(z)) \odot c

\* What its lines are, and that its parts are joined in any order.
LEMMA RequestItems ==
    \A a, b, c \in Seq(Item), z \in EmptyLines :
        /\ Request4(a, b, z, c) \in Seq(Item)
        /\ ToSet(Request4(a, b, z, c)) =
              ToSet(a) \cup {RequestLine} \cup ToSet(b) \cup {z} \cup ToSet(c)
        /\ Request4(a, b, z, c)
              = (a \odot One(RequestLine)) \odot ((b \odot One(z)) \odot c)
  <1> TAKE a, b, c \in Seq(Item), z \in EmptyLines
  <1> DEFINE r == One(RequestLine)
             e == One(z)
             ar == a \odot r
             arb == ar \odot b
             arbe == arb \odot e
             be == b \odot e
  <1>1. /\ r \in Seq(Item) /\ ToSet(r) = {RequestLine}
        /\ e \in Seq(Item) /\ ToSet(e) = {z}
    BY LinesDiffer, OneItem
  <1> HIDE DEF r, e
  <1>2. ar \in Seq(Item) /\ ToSet(ar) = ToSet(a) \cup {RequestLine}
    BY <1>1, Joined
  <1> HIDE DEF ar
  <1>3. arb \in Seq(Item) /\ ToSet(arb) = ToSet(ar) \cup ToSet(b)
    BY <1>2, Joined
  <1>4. arb \odot e = ar \odot (b \odot e)
    BY <1>1, <1>2, JoinedTwice
  <1> HIDE DEF arb
  <1>5. arbe \in Seq(Item) /\ ToSet(arbe) = ToSet(arb) \cup {z}
    BY <1>1, <1>3, Joined
  <1>6. be \in Seq(Item)
    BY <1>1, Joined
  <1>7. arbe = ar \odot be
    BY <1>4
  <1> HIDE DEF arbe, be
  <1>8. arbe \odot c \in Seq(Item) /\ ToSet(arbe \odot c) = ToSet(arbe) \cup ToSet(c)
    BY <1>5, Joined
  <1>9. (ar \odot be) \odot c = ar \odot (be \odot c)
    BY <1>2, <1>6, JoinedTwice
  <1>10. Request4(a, b, z, c) = arbe \odot c
    BY DEF Request4, arbe, arb, ar, r, e
  <1>11. ar \odot (be \odot c)
            = (a \odot One(RequestLine)) \odot ((b \odot One(z)) \odot c)
    BY DEF ar, be, r, e
  <1>12. QED  BY <1>2, <1>3, <1>5, <1>7, <1>8, <1>9, <1>10, <1>11

\* The fields of a request, and what follows it, as an upstream reads them.
LEMMA ReadsAs ==
    ASSUME NEW a \in Seq(Item), NEW b \in Seq(Item), NEW c \in Seq(Item),
           NEW z \in EmptyLines, NEW s, s = Request4(a, b, z, c),
           RequestLine \notin ToSet(a), ToSet(b) \cap EmptyLines = {}
    PROVE  AsRead(s).fields = b /\ AsRead(s).body = c
  <1> DEFINE r == RequestLine
             t == (b \odot One(z)) \odot c
  <1>1. r \in Item /\ z \in Item /\ One(z) \in Seq(Item)
    BY LinesDiffer, OneItem
  <1>2. b \odot One(z) \in Seq(Item)
    BY <1>1, Joined
  <1>3. t \in Seq(Item)
    BY <1>2, Joined
  <1>4. s = (a \odot One(r)) \odot t
    BY RequestItems
  <1>5. ToSet(a) \cap {r} = {} /\ r \in {r}
    OBVIOUS
  <1> HIDE DEF r, t
  <1>6. SubSeq(s, FirstIn(s, {r}) + 1, Len(s)) = t
    <2>1. Cut(Item, s, {r}, a, r, t)
      BY <1>1, <1>3, <1>4, <1>5 DEF Cut, \odot
    <2>2. QED  BY <2>1, FirstItem
  <1>7. /\ SubSeq(t, 1, FirstIn(t, EmptyLines) - 1) = b
        /\ SubSeq(t, FirstIn(t, EmptyLines) + 1, Len(t)) = c
    <2>1. Cut(Item, t, EmptyLines, b, z, c)
      BY <1>1 DEF t, Cut, \odot
    <2>2. QED  BY <2>1, FirstItem
  <1> DEFINE u == SubSeq(s, FirstIn(s, {r}) + 1, Len(s))
  <1>8. AsRead(s).fields = SubSeq(u, 1, FirstIn(u, EmptyLines) - 1)
    BY DEF AsRead, r
  <1>9. AsRead(s).body = SubSeq(u, FirstIn(u, EmptyLines) + 1, Len(u))
    BY DEF AsRead, r
  <1>10. u = t
    BY <1>6
  <1> HIDE DEF u
  <1>11. QED  BY <1>7, <1>8, <1>9, <1>10

\* The lines of a map are fields, and only fields are stripped.
LEMMA OnlyFieldsChange ==
    ASSUME NEW map, IsHeaderMap(map)
    PROVE  /\ \A k \in DOMAIN map : k.name \notin NoField
           /\ RequestLine \in Without(Names(map))
           /\ EmptyLines \subseteq Without(Names(map))
           /\ \A k \in DOMAIN map : Field(k.name, map[k]) \notin EmptyLines \cup {RequestLine}
  <1>1. \A k \in DOMAIN map : k.name \notin NoField
    BY DEF IsHeaderMap
  <1>2. \A x \in EmptyLines \cup {RequestLine} : x \in Item /\ x.name \in NoField
    BY LinesDiffer
  <1>3. \A k \in DOMAIN map : Field(k.name, map[k]).name = k.name
    BY DEF Field
  <1>4. QED  BY <1>1, <1>2, <1>3 DEF Without, Names

\* A text with the configured lines in it.
LEMMA LinesIn ==
    ASSUME NEW map, IsHeaderMap(map)
    PROVE  /\ SortedHeaders(map) \in Seq(Item)
           /\ ToSet(SortedHeaders(map)) \cap (EmptyLines \cup {RequestLine}) = {}
           /\ \A t \in Seq(Item) :
                 /\ WithHeaders(t, map) =
                       Keep(t, Without(Names(map))) \odot SortedHeaders(map)
                 /\ WithHeaders(t, map) \in Seq(Item)
  <1>1. /\ SortedHeaders(map) \in Seq(Item)
        /\ ToSet(SortedHeaders(map)) = {Field(k.name, map[k]) : k \in DOMAIN map}
    BY SortedLines
  <1>2. ToSet(SortedHeaders(map)) \cap (EmptyLines \cup {RequestLine}) = {}
    BY <1>1, OnlyFieldsChange
  <1>3. ASSUME NEW t \in Seq(Item)
        PROVE  /\ WithHeaders(t, map) =
                     Keep(t, Without(Names(map))) \odot SortedHeaders(map)
               /\ WithHeaders(t, map) \in Seq(Item)
    <2> DEFINE kept == Keep(t, Without(Names(map)))
               set == SortedHeaders(map)
    <2>1. Parts(t, map, kept, set)
      BY DEF Parts
    <2> HIDE DEF kept, set
    <2>2. WithHeaders(t, map) = kept \o set /\ WithHeaders(t, map) \in Seq(Item)
      BY <2>1, RewrittenHead
    <2>3. QED  BY <2>2 DEF kept, set, \odot
  <1>4. QED  BY <1>1, <1>2, <1>3

\* What is sent for a text.
SentFor(text, map) == IF HeadEnd(text) = 0 THEN text ELSE Rewritten(text, map)

\* The text is rewritten at its first CR LF CR LF.
LEMMA RewrittenAt ==
    ASSUME NEW map, IsHeaderMap(map), NEW a \in Seq(Item), NEW b \in Seq(Item),
           EndOfHead \notin ToSet(a),
           NEW t, t = (a \odot One(EndOfHead)) \odot b
    PROVE  SentFor(t, map) = (WithHeaders(a, map) \odot One(EndOfHead)) \odot b
  <1> DEFINE e == EndOfHead
             w == WithHeaders(a, map)
             n == FirstIn(t, {e})
  <1>1. e \in Item /\ One(e) \in Seq(Item) /\ w \in Seq(Item)
    BY LinesDiffer, OneItem, LinesIn
  <1>2. ToSet(a) \cap {e} = {} /\ e \in {e}
    OBVIOUS
  <1>3. /\ n = Len(a) + 1 /\ SubSeq(t, 1, n - 1) = a
        /\ SubSeq(t, n, Len(t)) = One(e) \odot b
    <2>1. Cut(Item, t, {e}, a, e, b)
      BY <1>1, <1>2 DEF Cut, \odot
    <2> HIDE DEF e
    <2>2. QED  BY <2>1, FirstItem
  <1>4. HeadEnd(t) = n /\ n # 0
    <2>1. Len(a) \in Nat
      BY LenProperties
    <2> HIDE DEF n
    <2>2. n # 0
      BY <1>3, <2>1
    <2>3. QED  BY <2>2 DEF HeadEnd, n, e
  <1>5. SentFor(t, map) = w \o (One(e) \odot b)
    <2>1. SentFor(t, map) = WithHeaders(SubSeq(t, 1, n - 1), map) \o SubSeq(t, n, Len(t))
      <3> HIDE DEF n
      <3>1. QED  BY <1>4 DEF SentFor, Rewritten
    <2>2. QED  BY <1>3, <2>1
  <1> HIDE DEF e, w
  <1>6. (w \odot One(e)) \odot b = w \odot (One(e) \odot b)
    BY <1>1, JoinedTwice
  <1>7. QED  BY <1>5, <1>6 DEF e, w, \odot

\* A text without CR LF CR LF is sent as it is.
LEMMA SentUnchanged ==
    ASSUME NEW map, NEW s \in Seq(Item), EndOfHead \notin ToSet(s)
    PROVE  SentFor(s, map) = s
  <1>1. /\ FirstIn(s, {EndOfHead}) \in 0..Len(s)
        /\ FirstIn(s, {EndOfHead}) # 0 => s[FirstIn(s, {EndOfHead})] \in {EndOfHead}
    BY FirstInIs
  <1>2. DOMAIN s = 1..Len(s) /\ Len(s) \in Nat
    BY LenProperties
  <1>3. HeadEnd(s) = 0
    BY <1>1, <1>2 DEF HeadEnd, ToSet
  <1>4. QED  BY <1>3 DEF SentFor

\* Where there is one.
LEMMA SplitAtEnd ==
    ASSUME NEW s \in Seq(Item), EndOfHead \in ToSet(s)
    PROVE  \E a, b \in Seq(Item) :
              s = (a \odot One(EndOfHead)) \odot b /\ EndOfHead \notin ToSet(a)
  <1> DEFINE e == EndOfHead
  <1>1. ToSet(s) \cap {e} # {}
    OBVIOUS
  <1> HIDE DEF e
  <1>2. \E a, x, b : Cut(Item, s, {e}, a, x, b)
    BY <1>1, SplitFirst
  <1>3. PICK a \in Seq(Item), b \in Seq(Item) :
            s = (a \o One(e)) \o b /\ e \notin ToSet(a)
    BY <1>2 DEF Cut
  <1>4. QED  BY <1>3 DEF e, \odot

\* The fields an upstream may read for those of the client: as they came,
\* stripped, or with the configured ones in the place of theirs.
Readings(fields, map) ==
    {fields, Keep(fields, Without(Names(map))), WithHeaders(fields, map)}

IsRequest(L, F, z, P) ==
    /\ L \in Seq(Item) /\ F \in Seq(Item) /\ P \in Seq(Item) /\ z \in EmptyLines
    /\ ToSet(L) \subseteq EmptyLines /\ ToSet(F) \cap EmptyLines = {}

\* A CR LF CR LF before the request line.
LEMMA EndBefore ==
    ASSUME NEW map, IsHeaderMap(map), NEW L, NEW F, NEW z, NEW P,
           IsRequest(L, F, z, P), EndOfHead \in ToSet(L),
           NEW s, s = SentFor(Request4(L, F, z, P), map)
    PROVE  s \in Seq(Item) /\ AsRead(s).fields = F
  <1> DEFINE e == EndOfHead
             r == One(RequestLine)
             t == (F \odot One(z)) \odot P
  <1>1. /\ L \in Seq(Item) /\ F \in Seq(Item) /\ P \in Seq(Item) /\ z \in EmptyLines
        /\ ToSet(L) \subseteq EmptyLines /\ ToSet(F) \cap EmptyLines = {}
    BY DEF IsRequest
  <1>2. PICK a, b \in Seq(Item) : L = (a \odot One(e)) \odot b /\ e \notin ToSet(a)
    BY <1>1, SplitAtEnd
  <1> DEFINE w == WithHeaders(a, map)
             b1 == (b \odot r) \odot t
             a1 == (w \odot One(e)) \odot b
  <1>3. /\ e \in Item /\ One(e) \in Seq(Item) /\ r \in Seq(Item)
        /\ One(z) \in Seq(Item) /\ w \in Seq(Item)
        /\ ToSet(One(e)) = {e} /\ e # RequestLine
    BY <1>1, LinesDiffer, OneItem, LinesIn
  <1>4. t \in Seq(Item)
    <2>1. F \odot One(z) \in Seq(Item)
      BY <1>1, <1>3, Joined
    <2>2. QED  BY <1>1, <2>1, Joined
  <1>5. Request4(L, F, z, P) = (L \odot r) \odot t
    BY <1>1, RequestItems
  <1> DEFINE ae == a \odot One(e)
             we == w \odot One(e)
             br == b \odot r
  <1>6. /\ ae \in Seq(Item) /\ we \in Seq(Item) /\ br \in Seq(Item)
        /\ ToSet(ae) = ToSet(a) \cup {e} /\ ToSet(we) = ToSet(w) \cup {e}
    BY <1>3, Joined
  <1> HIDE DEF e, r, t, w
  <1>7. L = ae \odot b /\ a1 = we \odot b /\ b1 = br \odot t
    BY <1>2
  <1> HIDE DEF ae, we, br, a1, b1
  <1>8. a1 \in Seq(Item) /\ ToSet(a1) = ToSet(we) \cup ToSet(b)
    BY <1>6, <1>7, Joined
  <1>9. b1 \in Seq(Item)
    BY <1>4, <1>6, <1>7, Joined
  <1>10. (L \odot r) \odot t = ae \odot b1
    <2>1. (ae \odot b) \odot r = ae \odot (b \odot r)
      BY <1>3, <1>6, JoinedTwice
    <2>2. (ae \odot br) \odot t = ae \odot (br \odot t)
      BY <1>4, <1>6, JoinedTwice
    <2>3. QED  BY <1>7, <2>1, <2>2 DEF br
  <1>11. (a1 \odot r) \odot t = we \odot b1
    <2>1. (we \odot b) \odot r = we \odot (b \odot r)
      BY <1>3, <1>6, JoinedTwice
    <2>2. (we \odot br) \odot t = we \odot (br \odot t)
      BY <1>4, <1>6, JoinedTwice
    <2>3. QED  BY <1>7, <2>1, <2>2 DEF br
  <1>12. s = we \odot b1
    <2>1. Request4(L, F, z, P) = (a \odot One(EndOfHead)) \odot b1
      BY <1>5, <1>10 DEF ae, e
    <2>2. EndOfHead \notin ToSet(a)
      BY <1>2 DEF e
    <2>3. s = (WithHeaders(a, map) \odot One(EndOfHead)) \odot b1
      BY <1>9, <2>1, <2>2, RewrittenAt
    <2>4. QED  BY <2>3 DEF we, w, e
  <1>13. s = Request4(a1, F, z, P)
    <2>1. Request4(a1, F, z, P) = (a1 \odot r) \odot t
      BY <1>1, <1>8, RequestItems DEF r, t
    <2>2. QED  BY <1>11, <1>12, <2>1
  <1>14. RequestLine \notin ToSet(a1)
    <2>1. ToSet(L) = ToSet(ae) \cup ToSet(b)
      BY <1>6, <1>7, Joined
    <2>2. RequestLine \notin ToSet(a) /\ RequestLine \notin ToSet(b)
      BY <1>1, <1>6, <2>1, LinesDiffer
    <2>3. RequestLine \notin ToSet(w)
      <3> DEFINE kept == Keep(a, Without(Names(map)))
                 set == SortedHeaders(map)
      <3>1. w = kept \odot set /\ kept \in Seq(Item) /\ set \in Seq(Item)
            /\ ToSet(kept) = ToSet(a) \cap Without(Names(map))
            /\ RequestLine \notin ToSet(set)
        BY LinesIn, KeepItems DEF w
      <3> HIDE DEF kept, set
      <3>2. ToSet(w) = ToSet(kept) \cup ToSet(set)
        BY <3>1, Joined
      <3>3. QED  BY <2>2, <3>1, <3>2
    <2>4. QED  BY <1>3, <1>6, <1>8, <2>2, <2>3
  <1>15. s \in Seq(Item)
    BY <1>6, <1>9, <1>12, Joined
  <1>16. AsRead(s).fields = F
    BY <1>1, <1>8, <1>13, <1>14, ReadsAs
  <1>17. QED  BY <1>15, <1>16

\* The head ends with the first CR LF CR LF.
LEMMA EndBehindHead ==
    ASSUME NEW map, IsHeaderMap(map), NEW L, NEW F, NEW P,
           IsRequest(L, F, EndOfHead, P), EndOfHead \notin ToSet(L),
           NEW s, s = SentFor(Request4(L, F, EndOfHead, P), map)
    PROVE  /\ s \in Seq(Item) /\ AsRead(s).fields = WithHeaders(F, map)
           /\ AsRead(s).body = P
  <1> DEFINE e == EndOfHead
             r == One(RequestLine)
             N == Without(Names(map))
             Lr == L \odot r
             h == Lr \odot F
             KL == Keep(L, N)
             KF == Keep(F, N)
             set == SortedHeaders(map)
             w == WithHeaders(F, map)
             a1 == KL \odot r
  <1>1. /\ L \in Seq(Item) /\ F \in Seq(Item) /\ P \in Seq(Item)
        /\ ToSet(L) \subseteq EmptyLines /\ ToSet(F) \cap EmptyLines = {}
        /\ e \in EmptyLines /\ e # RequestLine
        /\ r \in Seq(Item) /\ ToSet(r) = {RequestLine} /\ One(e) \in Seq(Item)
    BY LinesDiffer, OneItem DEF IsRequest
  <1>2. /\ KL \in Seq(Item) /\ ToSet(KL) \subseteq EmptyLines
        /\ KF \in Seq(Item) /\ ToSet(KF) \cap EmptyLines = {}
        /\ set \in Seq(Item) /\ ToSet(set) \cap EmptyLines = {}
        /\ w = KF \odot set /\ w \in Seq(Item)
    BY <1>1, KeepItems, LinesIn
  <1>3. Keep(r, N) = r
    BY LinesDiffer, OneItem, OnlyFieldsChange
  <1> HIDE DEF e, r, N, KL, KF, set, w
  <1>4. /\ Lr \in Seq(Item) /\ ToSet(Lr) = ToSet(L) \cup {RequestLine}
        /\ a1 \in Seq(Item) /\ Keep(Lr, N) = a1
        /\ ToSet(w) \cap EmptyLines = {}
    <2>1. Keep(Lr, N) = Keep(L, N) \odot Keep(r, N)
      BY <1>1, KeepJoined
    <2>2. Keep(Lr, N) = a1
      BY <1>3, <2>1 DEF KL
    <2>3. ToSet(w) = ToSet(KF) \cup ToSet(set)
      BY <1>2, Joined
    <2>4. Lr \in Seq(Item) /\ ToSet(Lr) = ToSet(L) \cup {RequestLine}
      BY <1>1, Joined
    <2>5. a1 \in Seq(Item)
      BY <1>1, <1>2, Joined
    <2>6. QED  BY <1>2, <2>2, <2>3, <2>4, <2>5
  <1> HIDE DEF Lr, a1
  <1>5. h \in Seq(Item) /\ ToSet(h) = ToSet(Lr) \cup ToSet(F) /\ Keep(h, N) = a1 \odot KF
    <2>1. Keep(h, N) = Keep(Lr, N) \odot Keep(F, N)
      BY <1>1, <1>4, KeepJoined
    <2>2. h \in Seq(Item) /\ ToSet(h) = ToSet(Lr) \cup ToSet(F)
      BY <1>1, <1>4, Joined
    <2>3. QED  BY <1>4, <2>1, <2>2 DEF KF
  <1>6. e \notin ToSet(h)
    BY <1>1, <1>4, <1>5, LinesDiffer DEF e
  <1> HIDE DEF h
  <1>7. WithHeaders(h, map) = a1 \odot w
    <2>1. WithHeaders(h, map) = Keep(h, N) \odot set
      BY <1>5, LinesIn DEF N, set
    <2>2. (a1 \odot KF) \odot set = a1 \odot (KF \odot set)
      BY <1>2, <1>4, JoinedTwice
    <2>3. QED  BY <1>2, <1>5, <2>1, <2>2
  <1>8. s = (WithHeaders(h, map) \odot One(e)) \odot P
    <2>1. Request4(L, F, EndOfHead, P) = (h \odot One(EndOfHead)) \odot P
      BY DEF Request4, h, Lr, r
    <2>2. QED  BY <1>1, <1>5, <1>6, <2>1, RewrittenAt DEF e
  <1>9. s = Request4(KL, w, e, P)
    BY <1>7, <1>8 DEF Request4, a1, r
  <1>10. s \in Seq(Item)
    BY <1>1, <1>2, <1>9, RequestItems
  <1>11. RequestLine \notin ToSet(KL)
    BY <1>2, LinesDiffer
  <1>12. AsRead(s).fields = w /\ AsRead(s).body = P
    BY <1>1, <1>2, <1>4, <1>9, <1>11, ReadsAs
  <1>13. QED  BY <1>10, <1>12 DEF w

\* The head ends with a bare LF, and a CR LF CR LF stands behind it.
LEMMA EndInBody ==
    ASSUME NEW map, IsHeaderMap(map), NEW L, NEW F, NEW P,
           IsRequest(L, F, EmptyLine, P), EndOfHead \notin ToSet(L),
           EndOfHead \in ToSet(P),
           NEW s, s = SentFor(Request4(L, F, EmptyLine, P), map)
    PROVE  s \in Seq(Item) /\ AsRead(s).fields = Keep(F, Without(Names(map)))
  <1> DEFINE e == EndOfHead
             y == EmptyLine
             N == Without(Names(map))
             r == One(RequestLine)
             o == One(y)
             KL == Keep(L, N)
             KF == Keep(F, N)
             set == SortedHeaders(map)
  <1>1. /\ L \in Seq(Item) /\ F \in Seq(Item) /\ P \in Seq(Item)
        /\ ToSet(L) \subseteq EmptyLines /\ ToSet(F) \cap EmptyLines = {}
        /\ y \in EmptyLines /\ e \in EmptyLines /\ y # e /\ e # RequestLine
        /\ r \in Seq(Item) /\ ToSet(r) = {RequestLine}
        /\ o \in Seq(Item) /\ ToSet(o) = {y} /\ One(e) \in Seq(Item)
    BY LinesDiffer, OneItem DEF IsRequest
  <1>2. PICK p, q \in Seq(Item) : P = (p \odot One(e)) \odot q /\ e \notin ToSet(p)
    BY <1>1, SplitAtEnd
  <1>3. Keep(r, N) = r /\ Keep(o, N) = o
    BY LinesDiffer, OneItem, OnlyFieldsChange
  <1> DEFINE Kp == Keep(p, N)
             f == (L \odot r) \odot F
             g == (KL \odot r) \odot KF
             fo == f \odot o
             go == g \odot o
             t == fo \odot p
             c == ((Kp \odot set) \odot One(e)) \odot q
  <1>4. /\ KL \in Seq(Item) /\ ToSet(KL) \subseteq EmptyLines
        /\ KF \in Seq(Item) /\ ToSet(KF) \cap EmptyLines = {}
        /\ Kp \in Seq(Item) /\ set \in Seq(Item)
    BY <1>1, KeepItems, LinesIn
  <1> HIDE DEF e, y, N, r, o, set
  <1>5. /\ L \odot r \in Seq(Item) /\ KL \odot r \in Seq(Item)
        /\ Keep(L \odot r, N) = KL \odot r
        /\ ToSet(L \odot r) = ToSet(L) \cup {RequestLine}
    <2>1. Keep(L \odot r, N) = Keep(L, N) \odot Keep(r, N)
      BY <1>1, KeepJoined
    <2>2. QED  BY <1>1, <1>3, <1>4, <2>1, Joined
  <1> HIDE DEF KL
  <1>6. /\ f \in Seq(Item) /\ g \in Seq(Item) /\ Keep(f, N) = g
        /\ ToSet(f) = ToSet(L) \cup {RequestLine} \cup ToSet(F)
    <2>1. Keep(f, N) = Keep(L \odot r, N) \odot Keep(F, N)
      BY <1>1, <1>5, KeepJoined
    <2>2. ToSet(f) = ToSet(L \odot r) \cup ToSet(F)
      BY <1>1, <1>5, Joined
    <2>3. QED  BY <1>1, <1>4, <1>5, <2>1, <2>2, Joined
  <1> HIDE DEF KF, f, g
  <1>7. /\ fo \in Seq(Item) /\ go \in Seq(Item) /\ Keep(fo, N) = go
        /\ ToSet(fo) = ToSet(f) \cup {y}
    <2>1. Keep(fo, N) = Keep(f, N) \odot Keep(o, N)
      BY <1>1, <1>6, KeepJoined
    <2>2. QED  BY <1>1, <1>3, <1>6, <2>1, Joined
  <1> HIDE DEF fo, go
  <1>8. /\ t \in Seq(Item) /\ Keep(t, N) = go \odot Kp
        /\ ToSet(t) = ToSet(fo) \cup ToSet(p)
    <2>1. Keep(t, N) = Keep(fo, N) \odot Kp
      BY <1>7, KeepJoined
    <2>2. QED  BY <1>7, <2>1, Joined
  <1>9. e \notin ToSet(t)
    <2>1. e \notin ToSet(L)
      BY DEF e
    <2>2. QED  BY <1>1, <1>2, <1>6, <1>7, <1>8, <2>1
  <1>10. Request4(L, F, EmptyLine, P) = (t \odot One(e)) \odot q
    <2>1. Request4(L, F, EmptyLine, P) = fo \odot P
      BY DEF Request4, fo, f, r, o, y
    <2>2. p \odot One(e) \in Seq(Item)
      BY <1>1, Joined
    <2>3. fo \odot (p \odot One(e)) = t \odot One(e)
      BY <1>1, <1>7, JoinedTwice
    <2> DEFINE pe == p \odot One(e)
    <2> HIDE DEF pe, t
    <2>4. (fo \odot pe) \odot q = fo \odot (pe \odot q)
      BY <1>7, <2>2, JoinedTwice DEF pe
    <2>5. QED  BY <1>2, <2>1, <2>3, <2>4 DEF pe
  <1>11. WithHeaders(t, map) = (go \odot Kp) \odot set
    BY <1>8, LinesIn DEF N, set
  <1> HIDE DEF t, Kp
  <1>12. s = (((go \odot Kp) \odot set) \odot One(e)) \odot q
    <2>1. s = (WithHeaders(t, map) \odot One(e)) \odot q
      BY <1>8, <1>9, <1>10, RewrittenAt DEF e
    <2>2. QED  BY <1>11, <2>1
  <1>13. c \in Seq(Item) /\ s = go \odot c
    <2> DEFINE k == Kp \odot set
               ke == k \odot One(e)
    <2>1. k \in Seq(Item) /\ (go \odot Kp) \odot set = go \odot k
      BY <1>4, <1>7, Joined, JoinedTwice
    <2> HIDE DEF k
    <2>2. ke \in Seq(Item) /\ (go \odot k) \odot One(e) = go \odot ke
      BY <1>1, <1>7, <2>1, Joined, JoinedTwice
    <2> HIDE DEF ke
    <2>3. ke \odot q \in Seq(Item) /\ (go \odot ke) \odot q = go \odot (ke \odot q)
      BY <1>7, <2>2, Joined, JoinedTwice
    <2>4. c = ke \odot q
      BY DEF ke, k
    <2> HIDE DEF c
    <2>5. QED  BY <1>12, <2>1, <2>2, <2>3, <2>4
  <1> HIDE DEF c
  <1>14. s = Request4(KL, KF, y, c)
    BY <1>13 DEF Request4, go, g, r, o
  <1>15. s \in Seq(Item)
    BY <1>1, <1>4, <1>13, <1>14, RequestItems
  <1>16. RequestLine \notin ToSet(KL)
    BY <1>4, LinesDiffer
  <1>17. AsRead(s).fields = KF
    BY <1>1, <1>4, <1>13, <1>14, <1>16, ReadsAs
  <1>18. QED  BY <1>15, <1>17 DEF KF, N

\* There is none: the text is sent as it is.
LEMMA EndNowhere ==
    ASSUME NEW map, NEW L, NEW F, NEW z, NEW P, IsRequest(L, F, z, P),
           EndOfHead \notin ToSet(L), z # EndOfHead, EndOfHead \notin ToSet(P),
           NEW s, s = SentFor(Request4(L, F, z, P), map)
    PROVE  s \in Seq(Item) /\ AsRead(s).fields = F
  <1> DEFINE t == Request4(L, F, z, P)
  <1>1. /\ L \in Seq(Item) /\ F \in Seq(Item) /\ P \in Seq(Item) /\ z \in EmptyLines
        /\ ToSet(L) \subseteq EmptyLines /\ ToSet(F) \cap EmptyLines = {}
    BY DEF IsRequest
  <1>2. t \in Seq(Item)
    BY <1>1, RequestItems
  <1>3. EndOfHead \notin ToSet(t)
    <2>1. ToSet(t) = ToSet(L) \cup {RequestLine} \cup ToSet(F) \cup {z} \cup ToSet(P)
      BY <1>1, RequestItems
    <2>2. EndOfHead # RequestLine /\ EndOfHead \in EmptyLines
      BY LinesDiffer
    <2>3. QED  BY <1>1, <2>1, <2>2
  <1>4. s = t
    <2> HIDE DEF t
    <2>1. SentFor(t, map) = t
      BY <1>2, <1>3, SentUnchanged
    <2>2. QED  BY <2>1 DEF t
  <1>5. RequestLine \notin ToSet(L)
    BY <1>1, LinesDiffer
  <1>6. AsRead(s).fields = F
    BY <1>1, <1>4, <1>5, ReadsAs
  <1>7. QED  BY <1>2, <1>4, <1>6

\* What an upstream reads of the head it was sent, wherever the code finds the
\* end of it.
LEMMA SentAsRead ==
    ASSUME req \in Requests, read_bytes \in Nat,
           read_bytes <= req.len + Len(req.rest)
    PROVE  LET map == UpstreamHeaders(GlobalUpstream, ServiceUpstream)
               s == ForwardedHead
           IN  /\ s \in Seq(Item)
               /\ AsRead(s).fields \in Readings(req.fields, map)
               /\ EndsItsHead =>
                     /\ AsRead(s).fields = WithHeaders(req.fields, map)
                     /\ AsRead(s).body = SubSeq(req.rest, 1, read_bytes - req.len)
  <1> DEFINE map == UpstreamHeaders(GlobalUpstream, ServiceUpstream)
             L == req.leading
             F == req.fields
             z == req.ending
             P == SubSeq(req.rest, 1, read_bytes - req.len)
             s == ForwardedHead
  <1>1. IsHeaderMap(map)
    BY UpstreamMap
  <1>2. IsRequest(L, F, z, P)
    <2>1. /\ req.rest \in Seq(Item) /\ req.len \in Nat /\ Len(req.rest) \in Nat
          /\ \A i \in 1..Len(req.rest) : req.rest[i] \in Item
      BY RequestParts, LenProperties, ElementOfSeq
    <2>2. \A i \in 1..(read_bytes - req.len) : req.rest[i] \in Item
      BY <2>1
    <2>3. read_bytes - req.len \in Int /\ 1 \in Int
      BY <2>1
    <2>4. P \in Seq(Item)
      BY <2>2, <2>3, SubSeqProperties
    <2> HIDE DEF P
    <2>5. QED  BY <2>4, RequestParts DEF IsRequest
  <1>3. s = SentFor(Request4(L, F, z, P), map)
    BY DEF ForwardedHead, TextRead, Request4, SentFor, One, \odot
  <1>4. z \in {EndOfHead, EmptyLine} /\ EndOfHead # EmptyLine
    BY RequestParts, LinesDiffer DEF EmptyLines
  <1> HIDE DEF map, L, F, z, P, s
  <1>5. CASE EndOfHead \in ToSet(L)
    <2>1. s \in Seq(Item) /\ AsRead(s).fields = F
      BY <1>1, <1>2, <1>3, <1>5, EndBefore
    <2>2. ~EndsItsHead
      BY <1>5 DEF EndsItsHead, L
    <2>3. QED  BY <2>1, <2>2 DEF Readings, s, F
  <1>6. CASE EndOfHead \notin ToSet(L) /\ z = EndOfHead
    <2>1. /\ s \in Seq(Item) /\ AsRead(s).fields = WithHeaders(F, map)
          /\ AsRead(s).body = P
      BY <1>1, <1>2, <1>3, <1>6, EndBehindHead
    <2>2. QED  BY <2>1 DEF Readings, s, F, map, P
  <1>7. CASE EndOfHead \notin ToSet(L) /\ z = EmptyLine
    <2>1. /\ s \in Seq(Item)
          /\ AsRead(s).fields \in {F, Keep(F, Without(Names(map)))}
      <3>1. CASE EndOfHead \in ToSet(P)
        BY <1>1, <1>2, <1>3, <1>7, <3>1, EndInBody
      <3>2. CASE EndOfHead \notin ToSet(P)
        BY <1>2, <1>3, <1>4, <1>7, <3>2, EndNowhere
      <3>3. QED  BY <3>1, <3>2
    <2>2. ~EndsItsHead
      BY <1>4, <1>7 DEF EndsItsHead, z
    <2>3. QED  BY <2>1, <2>2 DEF Readings, s, F, map
  <1>8. QED  BY <1>4, <1>5, <1>6, <1>7

\* The third part of the invariant: what the upstream gets is what was read of
\* a request whose framing was checked, rewritten.
SentInv ==
    /\ sent \in {<<>>, ForwardedHead}
    /\ phase \in {"connecting", "forwarding", "relaying"} \/ sent # <<>>
           => phase # "reading" /\ ~AmbiguousFraming(req.fields)

\* What an upstream gets was checked and rewritten before
\* (listeners.rs:524-528, 349-370).
THEOREM SentInvariant == Spec => []SentInv
  <1>1. Init => SentInv
    BY DEF Init, SentInv
  <1>2. SentInv /\ [Next]_vars => SentInv'
    <2> SUFFICES ASSUME SentInv, [Next]_vars PROVE SentInv'
      OBVIOUS
    <2>1. UNCHANGED req
      BY DEF Next, vars, Read, EndOfStream, SocketError, HeadersTimeout, WritePage,
             PageBegins, PageWritten, PageFlushed, ConnectEnds, Connected,
             ConnectRefused, ConnectTimeout, Forwarded, RelayBytes, RelayEnds,
             BodyTimeout, Cancel, Unavailable, Kept, Fixed
    <2>2. CASE \E n \in 1..buf_len : Read(n)
      <3>1. UNCHANGED sent /\ (phase' = "connecting" => ~AmbiguousFraming(req.fields))
            /\ phase' \notin {"forwarding", "relaying"} /\ phase = "reading"
        BY <2>2 DEF Read, HeadPartial, HeadComplete, HeadMalformed, Send, Goto
      <3>2. sent = <<>>
        BY <3>1 DEF SentInv
      <3>3. QED  BY <2>1, <3>1, <3>2 DEF SentInv
    <2>3. CASE \A n \in 1..buf_len : ~Read(n)
      <3>1. UNCHANGED read_bytes
        BY <2>3 DEF Next, vars, EndOfStream, SocketError, HeadersTimeout, WritePage,
             PageBegins, PageWritten, PageFlushed, ConnectEnds, Connected,
             ConnectRefused, ConnectTimeout, Forwarded, RelayBytes, RelayEnds,
             BodyTimeout, Cancel, Unavailable, Kept, Fixed
      <3>2. ForwardedHead' = ForwardedHead
        BY <2>1, <3>1 DEF ForwardedHead, TextRead
      <3>3. CASE Connected
        BY <2>1, <3>2, <3>3 DEF Connected, Goto, SentInv
      <3>4. CASE ~Connected
        <4>1. /\ UNCHANGED sent
              /\ phase' = "reading" => phase = "reading"
              /\ phase' \in {"connecting", "forwarding", "relaying"} =>
                    phase \in {"connecting", "forwarding", "relaying"}
          BY <2>3, <3>4 DEF Next, vars, EndOfStream, SocketError, HeadersTimeout,
             WritePage, PageBegins, PageWritten, PageFlushed, ConnectEnds,
             ConnectRefused, ConnectTimeout, Forwarded, RelayBytes, RelayEnds,
             BodyTimeout, Cancel, Unavailable, Kept, Fixed, Send, Goto
        <4>2. QED  BY <2>1, <3>2, <4>1 DEF SentInv
      <3>5. QED  BY <3>3, <3>4
    <2>4. QED  BY <2>2, <2>3
  <1>3. QED  BY <1>1, <1>2, PTL DEF Spec

\* No configured header names the framing.
ConfiguresNoFraming ==
    \A k \in DOMAIN GlobalUpstream \cup DOMAIN ServiceUpstream :
        k.name \notin Framing

\* However the fields are read, those of the framing are the client's.
LEMMA FramingIsTheClients ==
    ASSUME ConfiguresNoFraming, req \in Requests,
           NEW head \in Readings(req.fields,
                                 UpstreamHeaders(GlobalUpstream, ServiceUpstream)),
           NEW f \in ToSet(head), f.name \in Framing
    PROVE  f \in ToSet(req.fields)
  <1> DEFINE map == UpstreamHeaders(GlobalUpstream, ServiceUpstream)
             F == req.fields
             kept == Keep(F, Without(Names(map)))
             set == SortedHeaders(map)
  <1>1. F \in Seq(Item)
    BY RequestParts
  <1>2. /\ IsHeaderMap(map)
        /\ DOMAIN map = {ForwardedFor} \cup DOMAIN ServiceUpstream
                                       \cup DOMAIN GlobalUpstream
    BY UpstreamMap
  <1>3. Parts(F, map, kept, set)
    BY DEF Parts
  <1>4. head \in {F, kept, WithHeaders(F, map)}
    BY DEF Readings
  <1> HIDE DEF map, F, kept, set
  <1>5. /\ WithHeaders(F, map) = kept \o set
        /\ kept \in Seq(Item) /\ set \in Seq(Item)
        /\ ToSet(kept) = ToSet(F) \cap Without(Names(map))
        /\ ToSet(set) = {Field(k.name, map[k]) : k \in DOMAIN map}
    BY <1>1, <1>2, <1>3, RewrittenHead
  <1>6. ToSet(WithHeaders(F, map)) = ToSet(kept) \cup ToSet(set)
    BY <1>5, ToSetConcat
  <1>7. \A k \in DOMAIN map : k.name \notin Framing
    <2>1. ForwardedFor.name \notin Framing
      BY DEF ForwardedFor, Key, Framing
    <2>2. QED  BY <1>2, <2>1 DEF ConfiguresNoFraming
  <1>8. f \notin ToSet(set)
    <2>1. \A k \in DOMAIN map : Field(k.name, map[k]).name = k.name
      BY DEF Field
    <2>2. QED  BY <1>5, <1>7, <2>1
  <1>9. QED  BY <1>4, <1>5, <1>6, <1>8 DEF F

\* Fields with one Transfer-Encoding at most that pass the check agree.
LEMMA OneReading ==
    ASSUME NEW F \in Seq(Item), ~AmbiguousFraming(F),
           Len(Named(F, "transfer-encoding")) <= 1,
           NEW f \in ToSet(F), f.name \in Framing
    PROVE  /\ \A g \in ToSet(F) : g.name \in Framing => f = g
           /\ f.name = "transfer-encoding" => f.value = "chunked"
  <1> DEFINE l == Named(F, "content-length")
             c == Named(F, "transfer-encoding")
  <1>1. /\ \A i, j \in DOMAIN l : l[i].value = l[j].value
        /\ l = <<>> \/ c = <<>>
        /\ c = <<>> \/ Last(c).value = "chunked"
    BY DEF AmbiguousFraming
  <1>2. ASSUME NEW name
        PROVE  /\ Named(F, name) \in Seq(Item)
               /\ ToSet(Named(F, name)) = {g \in ToSet(F) : g.name = name}
    <2> DEFINE S == {g \in ToSet(F) : g.name = name}
    <2>1. Keep(F, S) \in Seq(Item) /\ ToSet(Keep(F, S)) = ToSet(F) \cap S
      BY KeepIsSeq, KeepElements
    <2>2. QED  BY <2>1 DEF Named
  <1>3. /\ l \in Seq(Item) /\ ToSet(l) = {g \in ToSet(F) : g.name = "content-length"}
        /\ c \in Seq(Item) /\ ToSet(c) = {g \in ToSet(F) : g.name = "transfer-encoding"}
    BY <1>2
  <1>4. \A g \in ToSet(F) : g \in Item
    BY ElementOfSeq DEF ToSet
  <1>5. Len(c) <= 1
    OBVIOUS
  <1> HIDE DEF l, c
  <1>6. /\ DOMAIN l = 1..Len(l) /\ DOMAIN c = 1..Len(c)
        /\ Len(c) \in Nat
    BY <1>3, LenProperties
  <1>7. ASSUME NEW g \in ToSet(c)
        PROVE  g = c[1] /\ g.value = "chunked"
    <2>1. PICK i \in DOMAIN c : g = c[i]
      BY <1>7 DEF ToSet
    <2>2. i = 1 /\ Len(c) = 1
      BY <1>5, <1>6, <2>1
    <2>3. c # <<>> /\ Last(c) = c[1]
      BY <1>3, <2>2 DEF Last
    <2>4. QED  BY <1>1, <2>1, <2>2, <2>3
  <1>8. ASSUME NEW g \in ToSet(l), NEW h \in ToSet(l)
        PROVE  g = h
    <2>1. g.value = h.value
      BY <1>1 DEF ToSet
    <2>2. g \in Item /\ h \in Item /\ g.name = h.name
      BY <1>3, <1>4
    <2>3. QED  BY <2>1, <2>2 DEF Item
  <1>9. ASSUME NEW g \in ToSet(l), NEW h \in ToSet(c)
        PROVE  FALSE
    BY <1>1 DEF ToSet
  <1>10. \A g \in ToSet(F) : g.name \in Framing => g \in ToSet(l) \cup ToSet(c)
    BY <1>3 DEF Framing
  <1>11. ASSUME NEW g \in ToSet(F), g.name \in Framing
         PROVE  f = g
    BY <1>7, <1>8, <1>9, <1>10, <1>11
  <1>12. f.name = "transfer-encoding" => f \in ToSet(c)
    BY <1>3
  <1>13. QED  BY <1>7, <1>11, <1>12

\* Unless a configured header names the framing, an upstream never gets a head
\* that can be read in two ways, if the client sent one Transfer-Encoding at
\* most (listeners.rs:434-462 with 357-370).
THEOREM UpstreamReadsOneLengthHolds ==
    ASSUME ConfiguresNoFraming
    PROVE  Spec => []UpstreamReadsOneLength
  <1>1. ReadInv /\ SentInv => UpstreamReadsOneLength
    <2> SUFFICES ASSUME ReadInv, SentInv, sent # <<>>,
                        Len(Named(req.fields, "transfer-encoding")) <= 1,
                        NEW f \in ToSet(AsRead(sent).fields), f.name \in Framing,
                        NEW g \in ToSet(AsRead(sent).fields), g.name \in Framing
                 PROVE  f = g /\ (f.name = "transfer-encoding" => f.value = "chunked")
      BY DEF UpstreamReadsOneLength
    <2>1. /\ sent = ForwardedHead /\ ~AmbiguousFraming(req.fields)
          /\ req \in Requests /\ read_bytes \in Nat
          /\ read_bytes <= req.len + Len(req.rest)
      BY DEF SentInv, ReadInv
    <2>2. AsRead(sent).fields \in
              Readings(req.fields, UpstreamHeaders(GlobalUpstream, ServiceUpstream))
      BY <2>1, SentAsRead
    <2>3. f \in ToSet(req.fields) /\ g \in ToSet(req.fields)
      BY <2>1, <2>2, FramingIsTheClients
    <2>4. req.fields \in Seq(Item)
      BY <2>1, RequestParts
    <2>5. QED  BY <2>1, <2>3, <2>4, OneReading
  <1>2. QED  BY ReadInvariant, SentInvariant, <1>1, PTL

\* In a rewritten head the lines under a configured name are the configured
\* ones and no others, and the other lines are the client's, in its order
\* (listeners.rs:349-370, 417-432).
THEOREM UpstreamReadsOurHeadersHolds == Spec => []UpstreamReadsOurHeaders
  <1>1. ReadInv /\ SentInv => UpstreamReadsOurHeaders
    <2> SUFFICES ASSUME ReadInv, SentInv, sent # <<>>, EndsItsHead
                 PROVE  UpstreamReadsOurHeaders
      BY DEF UpstreamReadsOurHeaders
    <2> DEFINE map == UpstreamHeaders(GlobalUpstream, ServiceUpstream)
               keys == {ForwardedFor} \cup DOMAIN ServiceUpstream
                                      \cup DOMAIN GlobalUpstream
               fields == req.fields
               head == AsRead(sent).fields
               lines == ToSet(head) \cup ToSet(fields)
               ours == {f \in lines : f.name \in {k.name : k \in keys}}
               N == Without(Names(map))
               kept == Keep(fields, N)
               set == SortedHeaders(map)
    <2>1. /\ req \in Requests /\ head = WithHeaders(fields, map)
          /\ AsRead(sent).body = SubSeq(req.rest, 1, read_bytes - req.len)
      BY SentAsRead DEF SentInv, ReadInv
    <2>2. /\ IsHeaderMap(map) /\ DOMAIN map = keys
          /\ \A k \in DOMAIN map : map[k] = Configured(k)
      BY UpstreamMap
    <2>3. fields \in Seq(Item)
      BY <2>1, RequestParts
    <2>4. Parts(fields, map, kept, set)
      BY DEF Parts
    <2> HIDE DEF map, keys, fields, head, kept, set
    <2>5. /\ head = kept \o set /\ kept \in Seq(Item) /\ set \in Seq(Item)
          /\ head \in Seq(Item)
          /\ ToSet(kept) = ToSet(fields) \cap N
          /\ ToSet(set) = {Field(k.name, map[k]) : k \in DOMAIN map}
          /\ ToSet(set) \cap N = {}
      BY <2>1, <2>2, <2>3, <2>4, RewrittenHead
    <2>6. ToSet(head) = ToSet(kept) \cup ToSet(set)
      BY <2>5, ToSetConcat
    <2>7. Names(map) = {k.name : k \in keys}
      BY <2>2 DEF Names
    <2>8. lines \subseteq Item
      <3>1. \A f \in ToSet(head) : f \in Item
        BY <2>5, ElementOfSeq DEF ToSet
      <3>2. \A f \in ToSet(fields) : f \in Item
        BY <2>3, ElementOfSeq DEF ToSet
      <3>3. QED  BY <3>1, <3>2
    <2>9. \A f \in lines : f \in ours <=> f \notin N
      BY <2>7, <2>8 DEF Without
    <2>10. ToSet(head) \cap ours = {Field(k.name, Configured(k)) : k \in keys}
      <3>1. ToSet(head) \cap ours = ToSet(set)
        BY <2>5, <2>6, <2>9
      <3>2. ToSet(set) = {Field(k.name, Configured(k)) : k \in keys}
        BY <2>2, <2>5
      <3>3. QED  BY <3>1, <3>2
    <2>11. Keep(head, lines \ ours) = Keep(fields, lines \ ours)
      <3>1. lines \ ours \subseteq N
        BY <2>9
      <3> HIDE DEF lines, ours, N
      <3> DEFINE T == lines \ ours
      <3>2. T \subseteq Without(Names(map))
        BY <3>1 DEF N
      <3> HIDE DEF T
      <3>3. Keep(WithHeaders(fields, map), T) = Keep(fields, T)
        BY <2>2, <2>3, <3>2, OthersStay
      <3>4. QED  BY <2>1, <3>3 DEF T
    <2>12. QED
      BY <2>1, <2>10, <2>11 DEF UpstreamReadsOurHeaders, keys, fields, head
  <1>2. QED  BY ReadInvariant, SentInvariant, <1>1, PTL

\* Type correctness of a client connection: what was read fits the buffer, and
\* the buffer its limit.
THEOREM TypeCorrect == Spec => []TypeOK
  <1>1. Init => timers \in Timers /\ cancelled \in BOOLEAN
    BY DEF Init
  <1>2. (timers \in Timers /\ cancelled \in BOOLEAN) /\ [Next]_vars
            => (timers \in Timers /\ cancelled \in BOOLEAN)'
    BY DEF Next, vars, Read, EndOfStream, SocketError, HeadersTimeout, WritePage,
           PageBegins, PageWritten, PageFlushed, ConnectEnds, Connected,
           ConnectRefused, ConnectTimeout, Forwarded, RelayBytes, RelayEnds,
           BodyTimeout, Cancel, Unavailable, Kept, Fixed
  <1>3. /\ ReadInv /\ WriteInv /\ SentInv
        /\ timers \in Timers /\ cancelled \in BOOLEAN
        => TypeOK
    <2> SUFFICES ASSUME ReadInv, WriteInv, SentInv, timers \in Timers,
                        cancelled \in BOOLEAN
                 PROVE  TypeOK
      OBVIOUS
    <2>1. sent \in Seq(Item)
      <3>1. ForwardedHead \in Seq(Item) /\ <<>> \in Seq(Item)
        BY SentAsRead, EmptySeq DEF ReadInv
      <3>2. QED  BY <3>1 DEF SentInv
    <2>2. page \in [code : Rejections \cup Answers \cup {0, 503}, begun : BOOLEAN]
      <3>1. CodesOf(phase) \subseteq Rejections \cup Answers \cup {0, 503}
        BY DEF CodesOf, Relayed
      <3>2. QED  BY <3>1 DEF WriteInv
    <2>3. QED
      BY <2>1, <2>2 DEF ReadInv, WriteInv, TypeOK, Item, Piece, Codes
  <1>4. QED
    BY ReadInvariant, WriteInvariant, SentInvariant, <1>1, <1>2, <1>3, PTL DEF Spec
=============================================================================
