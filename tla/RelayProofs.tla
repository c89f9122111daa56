------------------------------ MODULE RelayProofs ------------------------------
(***************************************************************************)
(* Proofs about the relay, for all buffer sizes, uploads, responses and    *)
(* configured headers.                                                     *)
(***************************************************************************)
EXTENDS Relay, Induction

\* Of two initial parts of a sequence the shorter is a prefix of the longer.
LEMMA InitialParts ==
    ASSUME NEW S, NEW s \in Seq(S), NEW b \in 0..Len(s), NEW a \in 0..b
    PROVE  /\ SubSeq(s, 1, a) \in Seq(S) /\ Len(SubSeq(s, 1, a)) = a
           /\ SubSeq(SubSeq(s, 1, b), 1, a) = SubSeq(s, 1, a)
  <1>1. Len(s) \in Nat /\ \A i \in 1..Len(s) : s[i] \in S
    BY LenProperties, ElementOfSeq
  <1>2. \A n \in 0..Len(s) :
            SubSeq(s, 1, n) \in Seq(S) /\ Len(SubSeq(s, 1, n)) = n
    BY <1>1, SubSeqProperties
  <1>3. CASE a = 0
    BY <1>1, <1>2, <1>3, SubSeqEmpty
  <1>4. CASE a > 0
    <2>1. SubSeq(SubSeq(s, 1, b), 1, a) = SubSeq(s, 1 + 1 - 1, 1 + a - 1)
      BY <1>1, <1>4, SubSeqOfSubSeq
    <2>2. QED  BY <1>1, <1>2, <2>1
  <1>5. QED  BY <1>1, <1>3, <1>4

\* n items move from what is held to what was passed on.
LEMMA Passing ==
    ASSUME NEW S, NEW s \in Seq(S), NEW r \in 0..Len(s), NEW g \in 0..r,
           NEW n \in 1..(r - g)
    PROVE  LET held == SubSeq(s, g + 1, r) IN
           /\ SubSeq(s, 1, g) \o SubSeq(held, 1, n) = SubSeq(s, 1, g + n)
           /\ SubSeq(held, n + 1, r - g) = SubSeq(s, g + n + 1, r)
  <1> DEFINE held == SubSeq(s, g + 1, r)
  <1>1. /\ Len(s) \in Nat /\ r \in Nat /\ g \in Nat /\ n \in Nat
        /\ \A i \in 1..Len(s) : s[i] \in S
    BY LenProperties, ElementOfSeq
  <1>2. SubSeq(held, 1, n) = SubSeq(s, (g + 1) + 1 - 1, (g + 1) + n - 1)
    BY <1>1, SubSeqOfSubSeq
  <1>3. SubSeq(s, 1, g) \o SubSeq(s, g + 1, g + n) = SubSeq(s, 1, g + n)
    BY <1>1, ConcatAdjacentSubSeq
  <1>4. (g + 1) + 1 - 1 = g + 1 /\ (g + 1) + n - 1 = g + n
    BY <1>1
  <1>5. CASE n < r - g
    <2>1. SubSeq(held, n + 1, r - g)
              = SubSeq(s, (g + 1) + (n + 1) - 1, (g + 1) + (r - g) - 1)
      BY <1>1, <1>5, SubSeqOfSubSeq
    <2>2. (g + 1) + (n + 1) - 1 = g + n + 1 /\ (g + 1) + (r - g) - 1 = r
      BY <1>1
    <2>3. QED  BY <1>2, <1>3, <1>4, <2>1, <2>2
  <1>6. CASE n = r - g
    <2>1. SubSeq(held, n + 1, r - g) = <<>> /\ SubSeq(s, g + n + 1, r) = <<>>
      BY <1>1, <1>6, SubSeqEmpty
    <2>2. QED  BY <1>2, <1>3, <1>4, <2>1
  <1>7. QED  BY <1>1, <1>5, <1>6

\* What is read next continues what is held.
LEMMA HeldAndFollowing ==
    ASSUME NEW S, NEW s \in Seq(S), NEW b \in 0..Len(s), NEW r \in 0..b,
           NEW g \in 0..r
    PROVE  SubSeq(s, g + 1, r) \o SubSeq(s, r + 1, b) = SubSeq(s, g + 1, b)
  <1>1. /\ Len(s) \in Nat /\ b \in Nat /\ r \in Nat /\ g \in Nat
    BY LenProperties
  <1>2. QED  BY <1>1, ConcatAdjacentSubSeq

\* Where a read and a write leave what was read and passed on of l items.
LEMMA ReadNumbers ==
    ASSUME NEW l \in Nat, NEW w \in 0..l, NEW r \in 0..w, NEW g \in 0..r,
           NEW n \in Nat, n <= w - r
    PROVE  /\ r + n \in 0..w /\ r + n \in 0..l
           /\ g \in 0..(r + n) /\ r \in 0..(r + n)
  OBVIOUS

\* A write passes on items that are held.
LEMMA WriteNumbers ==
    ASSUME NEW l \in Nat, NEW w \in 0..l, NEW r \in 0..w, NEW g \in 0..r,
           NEW n \in 1..(r - g)
    PROVE  /\ r \in 0..l /\ g + n \in 0..r /\ g + n \in 0..w /\ g + n \in 0..l
           /\ g \in 0..(g + n) /\ g # g + n /\ g # r
  OBVIOUS

-----------------------------------------------------------------------------
\* The upload: what was sent, read, held and passed on of it.
UploadState ==
    <<stream, written["client"], closed["client"], read["client"],
      hold["client"], got["client"], eof["client"], shut["client"]>>

ByPeer == \A f \in {written, closed, read, hold, got, eof, shut} : DOMAIN f = Peers

\* The invariant: what was passed on and what is held are consecutive parts of
\* what the client sent, up to what was read of it; its end is read behind all
\* of it, and passed on when nothing is held.
UploadInv ==
    LET sent   == stream["client"]
        passed == Len(got["client"])
    IN  /\ sent \in Seq(Item)
        /\ written["client"] \in 0..Len(sent)
        /\ read["client"] \in 0..written["client"]
        /\ passed \in 0..read["client"]
        /\ got["client"] = SubSeq(sent, 1, passed)
        /\ hold["client"] = SubSeq(sent, passed + 1, read["client"])
        /\ closed["client"] \in BOOLEAN
        /\ eof["client"] => closed["client"] /\ read["client"] = written["client"]
        /\ shut["client"] => eof["client"] /\ passed = read["client"]

UploadStep ==
    \/ Send("client") \/ Close("client")
    \/ \E n \in 1..CopyBuf : CopyRead("client", n) \/ CopyWrite("client", n)
    \/ CopyEof("client") \/ CopyShutdown("client")

\* Every other step leaves the upload alone.
LEMMA OtherSteps ==
    ASSUME ByPeer, [Next]_vars
    PROVE  ByPeer' /\ (UploadStep \/ UNCHANGED UploadState)
  <1> USE DEF ByPeer, UploadState, Peers, peers, Configured, Proxy
  <1>1. ASSUME NEW p \in Peers, Send(p) \/ Close(p)
        PROVE  ByPeer' /\ (UploadStep \/ UNCHANGED UploadState)
    BY <1>1 DEF UploadStep, Send, Close, MaySend
  <1>2. ASSUME NEW p \in Peers, Copy(p)
        PROVE  ByPeer' /\ (UploadStep \/ UNCHANGED UploadState)
    <2>1. ASSUME NEW n \in 1..CopyBuf, CopyRead(p, n) \/ CopyWrite(p, n)
          PROVE  ByPeer' /\ (UploadStep \/ UNCHANGED UploadState)
      BY <2>1 DEF UploadStep, CopyRead, CopyWrite, Copying, Takes, Passes
    <2>2. CASE CopyEof(p) \/ CopyShutdown(p)
      BY <2>2 DEF UploadStep, CopyEof, CopyShutdown, Copying
    <2>3. QED  BY <1>2, <2>1, <2>2 DEF Copy
  <1>3. ASSUME NEW n, ReadHead(n)
        PROVE  ByPeer' /\ UNCHANGED UploadState
    <2>1. \E items : Holds(items)
      BY <1>3 DEF ReadHead, HeadRead
    <2>2. QED  BY <1>3, <2>1 DEF ReadHead, Takes, Holds
  <1>4. ASSUME NEW n, WriteHead(n)
        PROVE  ByPeer' /\ UNCHANGED UploadState
    BY <1>4 DEF WriteHead, Passes
  <1>5. CASE HeadEof \/ HeadWritten \/ Copied
    BY <1>5 DEF HeadEof, HeadWritten, Copied, Copying
  <1>6. CASE Fails \/ TimesOut \/ Shutdown
    BY <1>6 DEF Fails, TimesOut, Shutdown, Ends
  <1>7. CASE UNCHANGED vars
    BY <1>7 DEF vars
  <1>8. QED
    BY <1>1, <1>2, <1>3, <1>4, <1>5, <1>6, <1>7 DEF Next, RelayHead

\* The invariant survives a step of which the numbers and the parts are known.
LEMMA UploadKept ==
    ASSUME stream'["client"] \in Seq(Item),
           written'["client"] \in 0..Len(stream'["client"]),
           read'["client"] \in 0..written'["client"],
           NEW m \in 0..read'["client"], Len(got'["client"]) = m,
           got'["client"] = SubSeq(stream'["client"], 1, m),
           hold'["client"] = SubSeq(stream'["client"], m + 1, read'["client"]),
           closed'["client"] \in BOOLEAN,
           eof'["client"] =>
               closed'["client"] /\ read'["client"] = written'["client"],
           shut'["client"] => eof'["client"] /\ m = read'["client"]
    PROVE  UploadInv'
  BY DEF UploadInv

\* What each step of the upload does, and that the invariant survives it.
LEMMA UploadSteps ==
    ASSUME ByPeer, UploadInv, UploadStep
    PROVE  UploadInv' /\ [Upload!Give \/ Upload!Take \/ Upload!End]_(Upload!pipe)
  <1> DEFINE sent   == stream["client"]
             passed == Len(got["client"])
             w      == written["client"]
             r      == read["client"]
  <1>1. /\ sent \in Seq(Item) /\ Len(sent) \in Nat
        /\ w \in 0..Len(sent) /\ r \in 0..w /\ passed \in 0..r
        /\ got["client"] = SubSeq(sent, 1, passed)
        /\ hold["client"] = SubSeq(sent, passed + 1, r)
        /\ Len(hold["client"]) = r - passed
    <2>1. /\ sent \in Seq(Item) /\ Len(sent) \in Nat
          /\ \A i \in 1..Len(sent) : sent[i] \in Item
      BY LenProperties, ElementOfSeq DEF UploadInv
    <2>2. Len(SubSeq(sent, passed + 1, r)) = r - passed
      BY <2>1, SubSeqProperties DEF UploadInv
    <2>3. QED  BY <2>1, <2>2 DEF UploadInv
  <1>2. /\ closed["client"] \in BOOLEAN
        /\ eof["client"] => closed["client"] /\ r = w
        /\ shut["client"] => eof["client"] /\ passed = r
    BY DEF UploadInv
  <1>3. ASSUME NEW b \in 0..Len(sent), NEW a \in 0..b
        PROVE  /\ Len(SubSeq(sent, 1, a)) = a
               /\ Upload!IsPrefix(SubSeq(sent, 1, a), SubSeq(sent, 1, b))
    <2>1. a \in 0..Len(sent) /\ a \in 0..a /\ b \in 0..b
      BY <1>1
    <2>2. /\ Len(SubSeq(sent, 1, a)) = a
          /\ SubSeq(SubSeq(sent, 1, a), 1, a) = SubSeq(sent, 1, a)
      BY <1>1, <2>1, InitialParts
    <2>3. /\ Len(SubSeq(sent, 1, b)) = b
          /\ SubSeq(SubSeq(sent, 1, b), 1, a) = SubSeq(sent, 1, a)
      BY <1>1, <2>1, InitialParts
    <2>4. QED  BY <2>2, <2>3 DEF Upload!IsPrefix
  <1>4. CASE Send("client")
    <2>1. /\ written'["client"] = w + 1 /\ w < Len(sent) /\ ~closed["client"]
          /\ UNCHANGED <<stream, closed, read, hold, got, eof, shut>>
      BY <1>4 DEF Send, MaySend, Proxy, ByPeer, Peers
    <2>2. w + 1 \in 0..Len(sent) /\ w \in 0..(w + 1) /\ r \in 0..(w + 1)
      BY <1>1, <2>1
    <2>3. ~eof["client"] /\ ~shut["client"]
      BY <1>2, <2>1
    <2>4. UploadInv'
      BY <1>1, <1>2, <2>1, <2>2, <2>3, UploadKept
    <2>5. Upload!IsPrefix(SubSeq(sent, 1, w), SubSeq(sent, 1, w + 1))
      BY <1>3, <2>2
    <2>6. Upload!Give
      BY <1>2, <2>1, <2>5 DEF Upload!Give
    <2>7. QED  BY <2>4, <2>6
  <1>5. CASE Close("client")
    <2>1. /\ closed'["client"] = TRUE /\ ~closed["client"]
          /\ UNCHANGED <<stream, written, read, hold, got, eof, shut>>
      BY <1>5 DEF Close, MaySend, Proxy, ByPeer, Peers
    <2>2. UploadInv'
      BY <1>1, <1>2, <2>1, UploadKept
    <2>3. Upload!IsPrefix(SubSeq(sent, 1, w), SubSeq(sent, 1, w))
      BY <1>1, <1>3
    <2>4. Upload!Give
      BY <2>1, <2>3 DEF Upload!Give
    <2>5. QED  BY <2>2, <2>4
  <1>6. ASSUME NEW n \in 1..CopyBuf, CopyRead("client", n)
        PROVE  UploadInv' /\ UNCHANGED Upload!pipe
    <2>1. /\ n <= w - r /\ read'["client"] = r + n /\ ~eof["client"]
          /\ hold'["client"] = hold["client"] \o SubSeq(sent, r + 1, r + n)
          /\ UNCHANGED <<stream, written, closed, got, eof, shut>>
      BY <1>6 DEF CopyRead, Copying, Takes, Following, ByPeer, Peers, peers
    <2>2. n \in Nat /\ n > 0
      BY RelayAssumption
    <2>3. /\ r + n \in 0..w /\ r + n \in 0..Len(sent)
          /\ passed \in 0..(r + n) /\ r \in 0..(r + n)
      BY <1>1, <2>1, <2>2, ReadNumbers
    <2>4. SubSeq(sent, passed + 1, r) \o SubSeq(sent, r + 1, r + n)
              = SubSeq(sent, passed + 1, r + n)
      BY <1>1, <2>3, HeldAndFollowing
    <2>5. hold'["client"] = SubSeq(sent, passed + 1, r + n)
      BY <1>1, <2>1, <2>4
    <2>6. UploadInv'
      BY <1>1, <1>2, <2>1, <2>3, <2>5, UploadKept
    <2>7. QED  BY <2>1, <2>6 DEF Upload!pipe
  <1>7. ASSUME NEW n \in 1..CopyBuf, CopyWrite("client", n)
        PROVE  UploadInv' /\ Upload!Take
    <2>1. /\ n \in 1..(r - passed)
          /\ got'["client"] = got["client"] \o SubSeq(hold["client"], 1, n)
          /\ hold'["client"] = SubSeq(hold["client"], n + 1, r - passed)
          /\ UNCHANGED <<stream, written, closed, read, eof, shut>>
      BY <1>1, <1>7 DEF CopyWrite, Copying, Passes, ByPeer, Peers, peers
    <2>2. /\ r \in 0..Len(sent) /\ passed + n \in 0..r
          /\ passed + n \in 0..w /\ passed + n \in 0..Len(sent)
          /\ passed \in 0..(passed + n) /\ passed # passed + n
          /\ passed # r
      <3>1. /\ Len(sent) \in Nat /\ w \in 0..Len(sent) /\ r \in 0..w
            /\ passed \in 0..r /\ n \in 1..(r - passed)
        BY <1>1, <2>1
      <3> HIDE DEF sent, passed, w, r
      <3>2. QED  BY <3>1, WriteNumbers
    <2>3. /\ got'["client"] = SubSeq(sent, 1, passed + n)
          /\ hold'["client"] = SubSeq(sent, passed + n + 1, r)
      <3>1. LET held == SubSeq(sent, passed + 1, r) IN
            /\ SubSeq(sent, 1, passed) \o SubSeq(held, 1, n)
                   = SubSeq(sent, 1, passed + n)
            /\ SubSeq(held, n + 1, r - passed) = SubSeq(sent, passed + n + 1, r)
        BY <1>1, <2>1, <2>2, Passing
      <3>2. QED  BY <1>1, <2>1, <3>1
    <2>4. /\ Len(got'["client"]) = passed + n
          /\ Upload!IsPrefix(got["client"], got'["client"])
          /\ Upload!IsPrefix(got'["client"], SubSeq(sent, 1, w))
      BY <1>1, <1>3, <2>2, <2>3
    <2>5. ~shut["client"]
      BY <1>2, <2>2
    <2>6. UploadInv'
      BY <1>1, <1>2, <2>1, <2>2, <2>3, <2>4, <2>5, UploadKept
    <2>7. Upload!IsStrictPrefix(got["client"], got'["client"])
      BY <2>2, <2>4 DEF Upload!IsStrictPrefix
    <2>8. QED  BY <2>1, <2>4, <2>5, <2>6, <2>7 DEF Upload!Take
  <1>8. CASE CopyEof("client")
    <2>1. /\ eof'["client"] = TRUE /\ closed["client"] /\ r = w
          /\ UNCHANGED <<stream, written, closed, read, hold, got, shut>>
      BY <1>8 DEF CopyEof, Copying, SawEof, ByPeer, Peers, peers
    <2>2. UploadInv'
      BY <1>1, <1>2, <2>1, UploadKept
    <2>3. QED  BY <2>1, <2>2 DEF Upload!pipe
  <1>9. CASE CopyShutdown("client")
    <2>1. /\ shut'["client"] = TRUE /\ eof["client"] /\ hold["client"] = <<>>
          /\ UNCHANGED <<stream, written, closed, read, hold, got, eof>>
      BY <1>9 DEF CopyShutdown, Copying, ByPeer, Peers, peers
    <2>2. passed = r /\ r = w /\ closed["client"]
      BY <1>1, <1>2, <2>1
    <2>3. UploadInv'
      BY <1>1, <1>2, <2>1, <2>2, UploadKept
    <2>4. got["client"] = SubSeq(sent, 1, w)
      BY <1>1, <2>2
    <2>5. Upload!End
      BY <2>1, <2>2, <2>4 DEF Upload!End
    <2>6. QED  BY <2>3, <2>5
  <1>10. QED
    BY <1>4, <1>5, <1>6, <1>7, <1>8, <1>9 DEF UploadStep

\* Nothing has been sent at first.
LEMMA UploadInit ==
    ASSUME Init
    PROVE  ByPeer /\ UploadInv /\ Upload!PipeInit
  <1>1. ByPeer
    BY DEF Init, ByPeer
  <1>2. /\ stream["client"] \in Seq(Item) /\ Len(stream["client"]) \in Nat
        /\ written["client"] = 0 /\ read["client"] = 0
        /\ hold["client"] = <<>> /\ got["client"] = <<>>
        /\ ~closed["client"] /\ ~eof["client"] /\ ~shut["client"]
    BY StreamsAssumption, LenProperties DEF Init, Peers
  <1>3. /\ SubSeq(stream["client"], 1, 0) = <<>>
        /\ SubSeq(stream["client"], 0 + 1, 0) = <<>> /\ Len(<<>>) = 0
    BY SubSeqEmpty
  <1>4. closed["client"] \in BOOLEAN
    BY DEF Init, Peers
  <1>5. UploadInv
    BY <1>2, <1>3, <1>4 DEF UploadInv
  <1>6. Upload!PipeInit
    BY <1>2, <1>3 DEF Upload!PipeInit
  <1>7. QED  BY <1>1, <1>5, <1>6

\* Both parts of it are sequences of items.
LEMMA UploadIsSeq ==
    ASSUME UploadInv
    PROVE  got["client"] \in Seq(Item) /\ hold["client"] \in Seq(Item)
  <1> DEFINE sent == stream["client"]
             r == read["client"]
             passed == Len(got["client"])
  <1>1. /\ Len(sent) \in Nat /\ r \in 0..Len(sent) /\ passed \in 0..r
        /\ \A i \in 1..Len(sent) : sent[i] \in Item
    BY LenProperties, ElementOfSeq DEF UploadInv
  <1>2. /\ got["client"] = SubSeq(sent, 1, passed)
        /\ hold["client"] = SubSeq(sent, passed + 1, r)
    BY DEF UploadInv
  <1> HIDE DEF sent, r, passed
  <1>3. passed \in Nat /\ r \in Nat /\ 1 \in Nat /\ passed + 1 \in Nat
    BY <1>1
  <1>4. /\ \A i \in 1..passed : sent[i] \in Item
        /\ \A i \in (passed + 1)..r : sent[i] \in Item
    BY <1>1
  <1>5. QED  BY <1>2, <1>3, <1>4, SubSeqProperties

\* For every upload, however it is cut into reads and writes and whenever the
\* copying starts, the upstream gets the client's bytes in order and without
\* loss, and is told of their end behind them (listeners.rs:601-639).
THEOREM UploadIsAPipeHolds == Spec => UploadIsAPipe
  <1>1. Init => ByPeer /\ UploadInv /\ Upload!PipeInit
    BY UploadInit
  <1>2. ByPeer /\ UploadInv /\ [Next]_vars =>
            ByPeer' /\ UploadInv'
            /\ [Upload!Give \/ Upload!Take \/ Upload!End]_(Upload!pipe)
    <2> SUFFICES ASSUME ByPeer, UploadInv, [Next]_vars
                 PROVE  ByPeer' /\ UploadInv'
                        /\ [Upload!Give \/ Upload!Take \/ Upload!End]_(Upload!pipe)
      OBVIOUS
    <2>1. CASE UNCHANGED UploadState
      BY <2>1, OtherSteps DEF UploadState, UploadInv, Upload!pipe
    <2>2. CASE UploadStep
      BY <2>2, OtherSteps, UploadSteps
    <2>3. QED  BY <2>1, <2>2, OtherSteps
  <1>3. QED
    BY <1>1, <1>2, PTL DEF Spec, UploadIsAPipe, Upload!PipeSpec

-----------------------------------------------------------------------------
\* The head of a response.

\* Where a head ends.
LEMMA HeadEndIs ==
    ASSUME NEW s \in Seq(Item)
    PROVE  /\ HeadEnd(s) \in 0..Len(s)
           /\ HeadEnd(s) # 0 => s[HeadEnd(s)] = EndOfHead
           /\ \A i \in 1..Len(s) :
                 s[i] = EndOfHead => HeadEnd(s) # 0 /\ HeadEnd(s) <= i
  BY FirstInIs DEF HeadEnd

\* The end of a head is where it is in every longer part of the response.
LEMMA HeadEndOfPart ==
    ASSUME NEW s \in Seq(Item), NEW b \in 0..Len(s), NEW a \in 0..b,
           NEW x, x = HeadEnd(SubSeq(s, 1, a)),
           NEW y, y = HeadEnd(SubSeq(s, 1, b))
    PROVE  /\ x \in 0..a /\ y \in 0..b
           /\ x # 0 => y = x
           /\ y \in 1..a => x = y
  <1> DEFINE sa == SubSeq(s, 1, a)
             sb == SubSeq(s, 1, b)
  <1>1. Len(s) \in Nat /\ a \in 0..Len(s) /\ b \in 0..b /\ a \in Nat /\ b \in Nat
    BY LenProperties
  <1>2. /\ sa \in Seq(Item) /\ Len(sa) = a
        /\ sb \in Seq(Item) /\ Len(sb) = b
    BY <1>1, InitialParts
  <1>3. /\ \A i \in 1..a : sa[i] = s[i]
        /\ \A i \in 1..b : sb[i] = s[i]
    <2>1. \A i \in 1..Len(s) : s[i] \in Item
      BY ElementOfSeq
    <2>2. \A n \in 0..Len(s) : \A i \in 1..n : SubSeq(s, 1, n)[i] = s[i]
      BY <1>1, <2>1, SubSeqProperties
    <2>3. QED  BY <1>1, <2>2
  <1> HIDE DEF sa, sb
  <1>4. /\ x \in 0..a /\ (x # 0 => sa[x] = EndOfHead)
        /\ \A i \in 1..a : sa[i] = EndOfHead => x # 0 /\ x <= i
    BY <1>2, HeadEndIs DEF sa
  <1>5. /\ y \in 0..b /\ (y # 0 => sb[y] = EndOfHead)
        /\ \A i \in 1..b : sb[i] = EndOfHead => y # 0 /\ y <= i
    BY <1>2, HeadEndIs DEF sb
  <1>6. ASSUME x # 0 PROVE y = x
    <2>1. x \in 1..a /\ x \in 1..b
      BY <1>1, <1>4, <1>6
    <2>2. sb[x] = EndOfHead
      BY <1>3, <1>4, <1>6, <2>1
    <2>3. y # 0 /\ y <= x /\ y \in 1..a
      BY <1>1, <1>5, <2>1, <2>2
    <2>4. y \in 1..b
      BY <1>1, <2>3
    <2>5. sa[y] = EndOfHead
      BY <1>3, <1>5, <2>3, <2>4
    <2>6. x <= y
      BY <1>4, <2>3, <2>5
    <2>7. QED  BY <2>1, <2>3, <2>6
  <1>7. ASSUME y \in 1..a PROVE x = y
    <2>1. y # 0 /\ y \in 1..b
      BY <1>1, <1>7
    <2>2. sa[y] = EndOfHead
      BY <1>3, <1>5, <1>7, <2>1
    <2>3. x # 0
      BY <1>4, <1>7, <2>2
    <2>4. QED  BY <1>6, <2>3
  <1>8. QED  BY <1>4, <1>5, <1>6, <1>7

\* A head with the configured lines in it is a sequence of lines.
LEMMA HeadersAreItems ==
    ASSUME NEW lines \in Seq(Item), NEW map, IsHeaderMap(map)
    PROVE  WithHeaders(lines, map) \in Seq(Item)
  <1> DEFINE names == {k.name : k \in DOMAIN map}
             keys == SetToSeq(DOMAIN map)
             n == Cardinality(DOMAIN map)
  <1>1. StripHeadersByName(lines, names) \in Seq(Item)
    <2> DEFINE S == {l \in ToSet(lines) : l.name \notin names}
    <2>1. StripHeadersByName(lines, names) = Keep(lines, S)
      BY DEF StripHeadersByName
    <2> HIDE DEF S
    <2>2. PICK kept \in [0..Len(lines) -> Seq(Item)] :
                IsKept(lines, S, kept) /\ Keep(lines, S) = kept[Len(lines)]
      BY KeepSteps
    <2>3. Len(lines) \in 0..Len(lines)
      BY LenProperties
    <2>4. QED  BY <2>1, <2>2, <2>3
  <1>2. /\ n \in Nat /\ DOMAIN keys = 1..n
        /\ keys \in Seq(DOMAIN map) /\ Len(keys) = n
    BY SetToSeqLists, FS_CardinalityType DEF IsHeaderMap
  <1>3. \A i \in 1..n : keys[i] \in DOMAIN map
    BY <1>2, ElementOfSeq
  <1> HIDE DEF n
  <1>4. \A i \in 1..n : Field(keys[i].name, map[keys[i]]) \in Item
    BY <1>3 DEF IsHeaderMap, Field, Item
  <1>5. SortedHeaders(map) = [i \in 1..n |-> Field(keys[i].name, map[keys[i]])]
    BY <1>2 DEF SortedHeaders
  <1>6. SortedHeaders(map) \in Seq(Item)
    BY <1>2, <1>4, <1>5, IsASeq
  <1>7. QED
    BY <1>1, <1>6, ConcatProperties DEF WithHeaders

\* The maps the program can have are maps.
LEMMA ExtraIsMap ==
    ASSUME NEW map \in ExtraHeaders
    PROVE  IsHeaderMap(map)
  <1>1. PICK g \in GlobalMaps, s \in ServiceMaps : map = Extended(g, s)
    BY DEF ExtraHeaders, ResponseHeaders
  <1>2. IsHeaderMap(g) /\ IsHeaderMap(s)
    BY MapsAssumption
  <1>3. /\ DOMAIN map = DOMAIN g \cup DOMAIN s
        /\ map = [k \in DOMAIN g \cup DOMAIN s |->
                     IF k \in DOMAIN s THEN s[k] ELSE g[k]]
    BY <1>1 DEF Extended
  <1>4. IsFiniteSet(DOMAIN map)
    BY <1>2, <1>3, FS_Union DEF IsHeaderMap
  <1>5. QED
    BY <1>2, <1>3, <1>4 DEF IsHeaderMap

-----------------------------------------------------------------------------
\* What the proxy makes of the first k items of the response.

Response == stream["upstream"]
Beginning(k) == SubSeq(Response, 1, k)

\* The head ends within the buffer.
Known(k) == HeadEnd(Beginning(k)) \in 1..MaxBuf

\* Whether the head will be rewritten is settled.
Decided(k) == ~Rewriting \/ Known(k) \/ k >= MaxBuf

Emitted(k) == IF Rewriting /\ Known(k) THEN Rewritten(Beginning(k), extra)
                                       ELSE Beginning(k)

\* Behind its head, the rewritten response continues as the response does.
LEMMA RewrittenContinues ==
    ASSUME Response \in Seq(Item), IsHeaderMap(extra),
           NEW b \in 0..Len(Response), NEW a \in 0..b,
           HeadEnd(Beginning(a)) # 0
    PROVE  /\ Rewritten(Beginning(a), extra) \in Seq(Item)
           /\ Rewritten(Beginning(b), extra)
                  = Rewritten(Beginning(a), extra) \o SubSeq(Response, a + 1, b)
  <1> DEFINE s == Response
             e == HeadEnd(Beginning(a))
             top == WithHeaders(SubSeq(s, 1, e - 1), extra)
  <1>1. e \in 0..a /\ e # 0 /\ HeadEnd(Beginning(b)) = e
    BY HeadEndOfPart DEF Beginning
  <1>2. /\ Len(s) \in Nat /\ a \in Nat /\ b \in Nat /\ a <= b /\ b <= Len(s)
        /\ a \in 0..Len(s) /\ a \in 0..a
        /\ \A i \in 1..Len(s) : s[i] \in Item
    BY LenProperties, ElementOfSeq
  <1> HIDE DEF e, s
  <1>3. /\ e \in 1..a /\ e - 1 \in 0..a /\ e - 1 \in 0..b /\ (e - 1) + 1 = e
        /\ e - 1 \in 0..Len(s)
    BY <1>1, <1>2
  <1>4. SubSeq(s, 1, e - 1) \in Seq(Item)
    BY <1>2, <1>3, InitialParts DEF s
  <1>5. top \in Seq(Item)
    BY <1>4, HeadersAreItems
  <1>6. ASSUME NEW k \in Nat, a <= k, k <= b
        PROVE  /\ Rewritten(Beginning(k), extra) = top \o SubSeq(s, e, k)
               /\ SubSeq(s, e, k) \in Seq(Item)
    <2>1. /\ k \in 0..Len(s) /\ e - 1 \in 0..k /\ a \in 0..k
          /\ 1 \in 1..Len(s) /\ k \in 1..Len(s)
          /\ e \in 1..(k - 1 + 1) /\ k \in 1..(k - 1 + 1)
          /\ 1 + e - 1 = e /\ 1 + k - 1 = k
      BY <1>2, <1>3, <1>6
    <2>2. HeadEnd(Beginning(k)) = e
      BY <1>1, <2>1, HeadEndOfPart DEF Beginning, e, s
    <2>3. Len(Beginning(k)) = k /\ SubSeq(Beginning(k), 1, e - 1) = SubSeq(s, 1, e - 1)
      BY <2>1, InitialParts DEF Beginning, s
    <2>4. SubSeq(Beginning(k), e, k) = SubSeq(s, e, k)
      <3>1. SubSeq(SubSeq(s, 1, k), e, k) = SubSeq(s, 1 + e - 1, 1 + k - 1)
        BY <2>1, SubSeqOfSubSeq DEF s
      <3>2. QED  BY <2>1, <3>1 DEF Beginning, s
    <2>5. SubSeq(s, e, k) \in Seq(Item)
      <3>1. \A i \in e..k : s[i] \in Item
        BY <1>2, <1>3, <2>1
      <3>2. QED  BY <1>3, <1>6, <3>1, SubSeqProperties
    <2>6. QED
      BY <2>2, <2>3, <2>4, <2>5 DEF Rewritten
  <1>7. SubSeq(s, e, a) \o SubSeq(s, a + 1, b) = SubSeq(s, e, b)
    BY <1>2, <1>3, HeldAndFollowing DEF s
  <1>8. SubSeq(s, a + 1, b) \in Seq(Item)
    <2>1. \A i \in (a + 1)..b : s[i] \in Item
      BY <1>2
    <2>2. QED  BY <1>2, <2>1, SubSeqProperties
  <1>9. /\ Rewritten(Beginning(a), extra) = top \o SubSeq(s, e, a)
        /\ SubSeq(s, e, a) \in Seq(Item)
    <2>1. a \in Nat /\ a <= a /\ a <= b
      BY <1>2
    <2> HIDE DEF top
    <2>2. QED  BY <2>1, <1>6
  <1>10. Rewritten(Beginning(b), extra) = top \o SubSeq(s, e, b)
    <2>1. b \in Nat /\ a <= b /\ b <= b
      BY <1>2
    <2> HIDE DEF top
    <2>2. QED  BY <2>1, <1>6
  <1> HIDE DEF top
  <1>11. top \o SubSeq(s, e, a) \in Seq(Item)
    BY <1>5, <1>9, ConcatProperties
  <1>12. (top \o SubSeq(s, e, a)) \o SubSeq(s, a + 1, b) = top \o SubSeq(s, e, b)
    <2> DEFINE x == SubSeq(s, e, a)
               y == SubSeq(s, a + 1, b)
    <2>1. x \in Seq(Item) /\ y \in Seq(Item)
      BY <1>8, <1>9
    <2> HIDE DEF x, y
    <2>2. (top \o x) \o y = top \o (x \o y)
      BY <1>5, <2>1, ConcatAssociative
    <2>3. x \o y = SubSeq(s, e, b)
      BY <1>7 DEF x, y
    <2>4. (top \o x) \o y = top \o SubSeq(s, e, b)
      BY <2>2, <2>3
    <2>5. QED  BY <2>4 DEF x, y
  <1>13. QED
    BY <1>9, <1>10, <1>11, <1>12 DEF s

\* Once it is settled how the response is passed on, what comes goes behind
\* what there is.
LEMMA EmittedContinues ==
    ASSUME Response \in Seq(Item), IsHeaderMap(extra),
           NEW b \in 0..Len(Response), NEW a \in 0..b, Decided(a)
    PROVE  /\ Emitted(a) \in Seq(Item)
           /\ Emitted(b) = Emitted(a) \o SubSeq(Response, a + 1, b)
           /\ Decided(b)
  <1>1. /\ Len(Response) \in Nat /\ a \in Nat /\ b \in Nat /\ a <= b
        /\ a \in 0..Len(Response) /\ a \in 0..a /\ 0 \in 0..a /\ MaxBuf \in Nat
    BY LenProperties, RelayAssumption
  <1>2. /\ Beginning(a) \in Seq(Item)
        /\ Beginning(b) = Beginning(a) \o SubSeq(Response, a + 1, b)
    <2>1. SubSeq(Response, 0 + 1, a) \o SubSeq(Response, a + 1, b)
              = SubSeq(Response, 0 + 1, b)
      BY <1>1, HeldAndFollowing
    <2>2. QED  BY <1>1, <2>1, InitialParts DEF Beginning
  <1>3. /\ HeadEnd(Beginning(a)) # 0 => HeadEnd(Beginning(b)) = HeadEnd(Beginning(a))
        /\ HeadEnd(Beginning(b)) \in 1..a
              => HeadEnd(Beginning(a)) = HeadEnd(Beginning(b))
    BY HeadEndOfPart DEF Beginning
  <1>4. CASE ~Rewriting
    BY <1>2, <1>4 DEF Decided, Emitted
  <1>5. CASE Rewriting /\ Known(a)
    <2>1. HeadEnd(Beginning(a)) # 0 /\ Known(b)
      BY <1>1, <1>3, <1>5 DEF Known
    <2>2. QED
      BY <1>5, <2>1, RewrittenContinues DEF Decided, Emitted
  <1>6. CASE Rewriting /\ ~Known(a)
    <2>1. a >= MaxBuf /\ b >= MaxBuf
      BY <1>1, <1>6 DEF Decided
    <2>2. ~Known(b)
      <3>1. ASSUME Known(b) PROVE FALSE
        <4>1. HeadEnd(Beginning(b)) \in 1..a
          BY <1>1, <2>1, <3>1 DEF Known
        <4>2. QED  BY <1>3, <1>6, <3>1, <4>1 DEF Known
      <3>2. QED  BY <3>1
    <2>3. QED
      BY <1>2, <1>6, <2>1, <2>2 DEF Decided, Emitted
  <1>7. QED  BY <1>4, <1>5, <1>6

\* What the client may have, in these words.
LEMMA ReleasedIs ==
    ASSUME Response \in Seq(Item), NEW w \in 0..Len(Response),
           w = written["upstream"]
    PROVE  Released = IF Decided(w) \/ closed["upstream"] THEN Emitted(w) ELSE <<>>
  <1>1. Len(Beginning(w)) = w
    <2>1. w \in 0..w
      BY LenProperties
    <2>2. QED  BY <2>1, InitialParts DEF Beginning
  <1>2. CASE ~Rewriting
    BY <1>2 DEF Released, Emitted, Decided, Beginning, Response
  <1>3. CASE Rewriting /\ Known(w)
    BY <1>3 DEF Released, Emitted, Decided, Beginning, Response, Known
  <1>4. CASE Rewriting /\ ~Known(w)
    BY <1>1, <1>4 DEF Released, Emitted, Decided, Beginning, Response, Known
  <1>5. QED  BY <1>2, <1>3, <1>4

\* A sequence is a prefix of what continues it.
LEMMA PrefixOfConcat ==
    ASSUME NEW S, NEW s \in Seq(S), NEW t \in Seq(S)
    PROVE  Download!IsPrefix(s, s \o t)
  <1>1. /\ Len(s) \in Nat /\ Len(t) \in Nat /\ s \o t \in Seq(S)
        /\ Len(s \o t) = Len(s) + Len(t)
    BY LenProperties, ConcatProperties
  <1>2. SubSeq(s, 1, Len(s)) = SubSeq(s \o t, 1, Len(s))
    <2>1. CASE Len(s) = 0
      BY <2>1, SubSeqEmpty
    <2>2. CASE Len(s) # 0
      BY <1>1, <2>2, SubSeqOfConcat1
    <2>3. QED  BY <2>1, <2>2
  <1>3. QED  BY <1>1, <1>2 DEF Download!IsPrefix

\* A write moves the first n items of what is held behind what was passed on.
Moves(g, h, n, g2, h2) ==
    g2 = g \o SubSeq(h, 1, n) /\ h2 = SubSeq(h, n + 1, Len(h))

\* Such a write loses nothing, and passes something on.
LEMMA PartialWrite ==
    ASSUME NEW S, NEW g \in Seq(S), NEW h \in Seq(S), NEW n \in 1..Len(h),
           NEW g2, NEW h2, Moves(g, h, n, g2, h2)
    PROVE  /\ g2 \in Seq(S) /\ h2 \in Seq(S) /\ g2 \o h2 = g \o h
           /\ Download!IsStrictPrefix(g, g2)
  <1> DEFINE x == SubSeq(h, 1, n)
  <1>1. /\ Len(h) \in Nat /\ n \in Nat /\ n <= Len(h) /\ n > 0
        /\ \A i \in 1..Len(h) : h[i] \in S
    BY LenProperties, ElementOfSeq
  <1>2. x \in Seq(S) /\ Len(x) = n
    BY <1>1, SubSeqProperties
  <1>3. h2 \in Seq(S)
    BY <1>1, SubSeqProperties DEF Moves
  <1>4. x \o h2 = h
    <2>1. x \o h2 = SubSeq(h, 1, Len(h))
      BY <1>1, ConcatAdjacentSubSeq DEF Moves
    <2>2. QED  BY <2>1, SubSeqFull
  <1>5. g2 = g \o x
    BY DEF Moves
  <1> HIDE DEF x
  <1>6. g2 \in Seq(S) /\ Len(g2) = Len(g) + n
    BY <1>2, <1>5, ConcatProperties
  <1>7. g2 \o h2 = g \o h
    <2>1. (g \o x) \o h2 = g \o (x \o h2)
      BY <1>2, <1>3, ConcatAssociative
    <2>2. QED  BY <1>4, <1>5, <2>1, Zenon
  <1>8. g # g2
    <2>1. Len(g) \in Nat
      BY LenProperties
    <2>2. Len(g) # Len(g2)
      BY <1>1, <1>6, <2>1
    <2>3. QED  BY <2>2
  <1>9. Download!IsPrefix(g, g2)
    BY <1>2, <1>5, PrefixOfConcat
  <1>10. QED
    BY <1>3, <1>6, <1>7, <1>8, <1>9 DEF Download!IsStrictPrefix

\* What is emitted is a sequence of items.
LEMMA EmittedIsSeq ==
    ASSUME Response \in Seq(Item), IsHeaderMap(extra), NEW k \in 0..Len(Response)
    PROVE  Emitted(k) \in Seq(Item)
  <1>1. k \in 0..k /\ Beginning(k) \in Seq(Item)
    <2>1. k \in 0..k
      BY LenProperties
    <2>2. QED  BY <2>1, InitialParts DEF Beginning
  <1>2. CASE Decided(k)
    BY <1>1, <1>2, EmittedContinues
  <1>3. CASE ~Decided(k)
    BY <1>1, <1>3 DEF Decided, Emitted
  <1>4. QED  BY <1>2, <1>3

\* What is released after a step.
LEMMA ReleasedAfter ==
    ASSUME Response \in Seq(Item), UNCHANGED <<stream, extra>>,
           NEW w \in 0..Len(Response), w = written'["upstream"]
    PROVE  Released' = IF Decided(w) \/ closed'["upstream"] THEN Emitted(w) ELSE <<>>
  <1> DEFINE s == SubSeq(stream["upstream"], 1, w)
  <1>1. Len(s) = w
    <2>1. w \in 0..w
      BY LenProperties
    <2>2. QED  BY <2>1, InitialParts DEF Response
  <1>2. Released' = CASE ~Rewriting -> s
          [] Rewriting /\ HeadEnd(s) \in 1..MaxBuf -> Rewritten(s, extra)
          [] Rewriting /\ HeadEnd(s) \notin 1..MaxBuf ->
                 IF Len(s) >= MaxBuf \/ closed'["upstream"] THEN s ELSE <<>>
    BY DEF Released, Rewriting, Rewritten
  <1>3. /\ Emitted(w) = IF Rewriting /\ HeadEnd(s) \in 1..MaxBuf THEN Rewritten(s, extra) ELSE s
        /\ Decided(w) <=> ~Rewriting \/ HeadEnd(s) \in 1..MaxBuf \/ w >= MaxBuf
    BY DEF Emitted, Decided, Known, Beginning, Response
  <1> HIDE DEF s
  <1>4. CASE ~Rewriting
    BY <1>2, <1>3, <1>4
  <1>5. CASE Rewriting /\ HeadEnd(s) \in 1..MaxBuf
    BY <1>2, <1>3, <1>5
  <1>6. CASE Rewriting /\ HeadEnd(s) \notin 1..MaxBuf
    BY <1>1, <1>2, <1>3, <1>6
  <1>7. QED  BY <1>4, <1>5, <1>6

-----------------------------------------------------------------------------
\* The download: what was sent, read, held and passed on of it.
DownloadState ==
    <<stream, extra, written["upstream"], closed["upstream"], read["upstream"],
      hold["upstream"], got["upstream"], eof["upstream"], shut["upstream"],
      phase, buf_len>>

\* The invariant: while the head is collected it is what is held, without its
\* end and with room for more; from then on what was passed on and what is
\* held make up what is emitted for what was read, and how it is emitted is
\* settled, or the response is over; its end is read behind all of it, and
\* passed on when nothing is held.
DownloadInv ==
    LET w == written["upstream"]
        r == read["upstream"]
    IN  /\ Response \in Seq(Item) /\ IsHeaderMap(extra)
        /\ w \in 0..Len(Response) /\ r \in 0..w
        /\ got["upstream"] \in Seq(Item) /\ hold["upstream"] \in Seq(Item)
        /\ closed["upstream"] \in BOOLEAN
        /\ phase \in Phases /\ buf_len \in 1..MaxBuf
        /\ phase = "head" =>
              /\ got["upstream"] = <<>> /\ hold["upstream"] = Beginning(r)
              /\ HeadEnd(Beginning(r)) = 0 /\ r < buf_len
        /\ phase \in {"passing", "returning", "copying"} =>
              got["upstream"] \o hold["upstream"] = Emitted(r)
        /\ phase \in {"passing", "copying"} => Decided(r)
        /\ phase = "returning" => closed["upstream"] /\ r = w
        /\ phase \in {"head", "passing", "returning"} =>
              Rewriting /\ ~eof["upstream"]
        /\ eof["upstream"] => closed["upstream"] /\ r = w
        /\ shut["upstream"] => eof["upstream"] /\ got["upstream"] = Emitted(w)

\* The invariant survives a step that leaves the response and the configured
\* headers alone, if it holds of the new numbers.
LEMMA DownloadKept ==
    ASSUME UNCHANGED <<stream, extra>>,
           Response \in Seq(Item), IsHeaderMap(extra),
           NEW w \in 0..Len(Response), w = written'["upstream"],
           NEW r \in 0..w, r = read'["upstream"],
           got'["upstream"] \in Seq(Item), hold'["upstream"] \in Seq(Item),
           closed'["upstream"] \in BOOLEAN,
           phase' \in Phases, buf_len' \in 1..MaxBuf,
           phase' = "head" =>
              /\ got'["upstream"] = <<>> /\ hold'["upstream"] = Beginning(r)
              /\ HeadEnd(Beginning(r)) = 0 /\ r < buf_len',
           phase' \in {"passing", "returning", "copying"} =>
              got'["upstream"] \o hold'["upstream"] = Emitted(r),
           phase' \in {"passing", "copying"} => Decided(r),
           phase' = "returning" => closed'["upstream"] /\ r = w,
           phase' \in {"head", "passing", "returning"} =>
              Rewriting /\ ~eof'["upstream"],
           eof'["upstream"] => closed'["upstream"] /\ r = w,
           shut'["upstream"] => eof'["upstream"] /\ got'["upstream"] = Emitted(w)
    PROVE  DownloadInv'
  <1>1. /\ Response' = Response /\ extra' = extra
        /\ Beginning(read["upstream"])' = Beginning(r)
        /\ Emitted(read["upstream"])' = Emitted(r)
        /\ Emitted(written["upstream"])' = Emitted(w)
        /\ Decided(read["upstream"])' = Decided(r)
        /\ Rewriting' = Rewriting
    BY DEF Response, Beginning, Emitted, Decided, Known, Rewriting, Rewritten
  <1>2. QED  BY <1>1, Zenon DEF DownloadInv

DownloadStep ==
    \/ Send("upstream") \/ Close("upstream")
    \/ \E n \in 1..MaxBuf : ReadHead(n)
    \/ HeadEof \/ HeadWritten
    \/ \E n \in 1..Len(hold["upstream"]) : WriteHead(n)
    \/ \E n \in 1..CopyBuf : CopyRead("upstream", n) \/ CopyWrite("upstream", n)
    \/ CopyEof("upstream") \/ CopyShutdown("upstream")
    \/ Copied \/ Fails \/ TimesOut \/ Shutdown

\* Every other step leaves the download alone.
LEMMA OtherDownloadSteps ==
    ASSUME ByPeer, [Next]_vars
    PROVE  DownloadStep \/ UNCHANGED DownloadState
  <1> USE DEF ByPeer, DownloadState, DownloadStep, Peers, peers, Configured, Proxy
  <1>1. CASE Send("client") \/ Close("client")
    BY <1>1 DEF Send, Close, MaySend
  <1>2. CASE Copy("client")
    <2>1. ASSUME NEW n \in 1..CopyBuf, CopyRead("client", n) \/ CopyWrite("client", n)
          PROVE  UNCHANGED DownloadState
      BY <2>1 DEF CopyRead, CopyWrite, Copying, Takes, Passes
    <2>2. CASE CopyEof("client") \/ CopyShutdown("client")
      BY <2>2 DEF CopyEof, CopyShutdown, Copying
    <2>3. QED  BY <1>2, <2>1, <2>2 DEF Copy
  <1>3. CASE Copy("upstream")
    BY <1>3 DEF Copy
  <1>4. CASE UNCHANGED vars
    BY <1>4 DEF vars
  <1>5. QED
    BY <1>1, <1>2, <1>3, <1>4 DEF Next, RelayHead

\* What the invariant says of the numbers and of what is released.
LEMMA DownloadFacts ==
    ASSUME DownloadInv, NEW w, w = written["upstream"],
           NEW r, r = read["upstream"]
    PROVE  /\ Len(Response) \in Nat /\ w \in Nat /\ r \in Nat /\ r <= w
           /\ w \in 0..Len(Response) /\ r \in 0..w /\ r \in 0..Len(Response)
           /\ w \in 0..w /\ r \in 0..r
           /\ Released = IF Decided(w) \/ closed["upstream"] THEN Emitted(w)
                                                             ELSE <<>>
           /\ phase \in {"passing", "returning", "copying"} =>
                 /\ Emitted(r) \in Seq(Item)
                 /\ \E rest \in Seq(Item) : Released = Emitted(r) \o rest
  <1>1. /\ Len(Response) \in Nat /\ w \in Nat /\ r \in Nat /\ r <= w
        /\ w \in 0..Len(Response) /\ r \in 0..w /\ r \in 0..Len(Response)
        /\ w \in 0..w /\ r \in 0..r
        /\ Response \in Seq(Item) /\ IsHeaderMap(extra)
    BY LenProperties DEF DownloadInv
  <1>2. Released = IF Decided(w) \/ closed["upstream"] THEN Emitted(w) ELSE <<>>
    BY <1>1, ReleasedIs
  <1>3. Emitted(r) \in Seq(Item)
    BY <1>1, EmittedIsSeq
  <1>4. CASE Decided(r)
    <2>1. Emitted(w) = Emitted(r) \o SubSeq(Response, r + 1, w) /\ Decided(w)
      BY <1>1, <1>4, EmittedContinues
    <2>2. SubSeq(Response, r + 1, w) \in Seq(Item)
      <3>1. \A i \in (r + 1)..w : Response[i] \in Item
        BY <1>1, ElementOfSeq
      <3>2. QED  BY <1>1, <3>1, SubSeqProperties
    <2>3. QED  BY <1>1, <1>2, <1>3, <2>1, <2>2
  <1>5. CASE ~Decided(r) /\ phase \in {"passing", "returning", "copying"}
    <2>1. closed["upstream"] /\ r = w
      BY <1>5 DEF DownloadInv
    <2>2. Released = Emitted(r)
      BY <1>2, <2>1
    <2>3. Emitted(r) = Emitted(r) \o <<>> /\ <<>> \in Seq(Item)
      BY <1>3, ConcatEmptySeq, EmptySeq
    <2>4. QED  BY <1>1, <1>2, <1>3, <2>2, <2>3
  <1>6. QED  BY <1>1, <1>2, <1>4, <1>5

\* The invariant survives what the upstream does, and the pipe gets more.
LEMMA DownloadGiven ==
    ASSUME ByPeer, DownloadInv, Send("upstream") \/ Close("upstream")
    PROVE  DownloadInv' /\ Download!Give
  <1> DEFINE w == written["upstream"]
             r == read["upstream"]
             w2 == written'["upstream"]
  <1>1. /\ ~closed["upstream"] /\ phase # "done" /\ phase # "returning"
        /\ ~eof["upstream"] /\ ~shut["upstream"]
    BY DEF Send, Close, MaySend, DownloadInv
  <1>2. /\ UNCHANGED <<stream, extra, read, phase, buf_len, hold, got, eof, shut>>
        /\ \/ w2 = w + 1 /\ w < Len(Response) /\ closed'["upstream"] = FALSE
           \/ w2 = w /\ closed'["upstream"] = TRUE
    BY <1>1 DEF Send, Close, MaySend, Configured, Proxy, ByPeer, Peers, Response,
           DownloadInv
  <1>3. /\ Len(Response) \in Nat /\ w \in Nat /\ r \in Nat /\ r <= w
        /\ w \in 0..Len(Response) /\ r \in 0..w
        /\ Released = IF Decided(w) THEN Emitted(w) ELSE <<>>
        /\ Response \in Seq(Item) /\ IsHeaderMap(extra)
    BY <1>1, DownloadFacts DEF DownloadInv
  <1>4. w2 \in 0..Len(Response) /\ r \in 0..w2 /\ w \in 0..w2 /\ w2 \in 0..w2
    BY <1>2, <1>3
  <1>5. closed'["upstream"] \in BOOLEAN
    BY <1>2
  <1> HIDE DEF w, r, w2
  <1>6. DownloadInv'
    <2>1. /\ w2 = written'["upstream"] /\ r = read'["upstream"]
          /\ r = read["upstream"]
      BY <1>2 DEF w2, r
    <2>2. QED
      BY <1>1, <1>2, <1>3, <1>4, <1>5, <2>1, DownloadKept DEF DownloadInv
  <1>7. Released' = IF Decided(w2) \/ closed'["upstream"] THEN Emitted(w2) ELSE <<>>
    BY <1>2, <1>3, <1>4, ReleasedAfter DEF w2
  <1>8. Emitted(w2) \in Seq(Item)
    BY <1>3, <1>4, EmittedIsSeq
  <1>9. Download!IsPrefix(Released, Released')
    <2>1. CASE Decided(w)
      <3> DEFINE more == SubSeq(Response, w + 1, w2)
      <3>1. /\ Emitted(w2) = Emitted(w) \o more /\ Decided(w2)
            /\ Emitted(w) \in Seq(Item)
        BY <1>3, <1>4, <2>1, EmittedContinues
      <3>2. more \in Seq(Item)
        <4>1. w2 \in Nat /\ \A i \in (w + 1)..w2 : Response[i] \in Item
          BY <1>3, <1>4, ElementOfSeq
        <4>2. QED  BY <1>3, <4>1, SubSeqProperties
      <3> HIDE DEF more
      <3>3. QED  BY <1>3, <1>7, <2>1, <3>1, <3>2, PrefixOfConcat
    <2>2. CASE ~Decided(w)
      <3>1. Released = <<>> /\ Released' \in Seq(Item) /\ <<>> \in Seq(Item)
        BY <1>3, <1>7, <1>8, <2>2, EmptySeq
      <3>2. Released' = <<>> \o Released'
        BY <3>1, ConcatEmptySeq
      <3>3. QED  BY <3>1, <3>2, PrefixOfConcat
    <2>3. QED  BY <2>1, <2>2
  <1>10. QED
    BY <1>1, <1>2, <1>5, <1>6, <1>9 DEF Download!Give

\* What is released depends on nothing but these.
LEMMA SameReleased ==
    ASSUME UNCHANGED <<stream, extra, written["upstream"], closed["upstream"]>>
    PROVE  Released' = Released
  BY DEF Released, Rewriting, Rewritten

\* The invariant survives reading a part of the head.
LEMMA DownloadReadHead ==
    ASSUME ByPeer, DownloadInv, NEW n, ReadHead(n)
    PROVE  DownloadInv' /\ UNCHANGED Download!pipe
  <1> DEFINE w == written["upstream"]
             r == read["upstream"]
             have == hold["upstream"] \o Following("upstream", n)
  <1>1. /\ phase = "head" /\ n \in 1..(buf_len - Len(hold["upstream"]))
        /\ n <= w - r /\ read'["upstream"] = r + n /\ HeadRead(have)
        /\ UNCHANGED <<stream, extra, written, closed, got, eof, shut>>
    BY DEF ReadHead, Takes, Configured, peers, ByPeer, Peers
  <1>2. /\ Len(Response) \in Nat /\ w \in Nat /\ r \in Nat /\ r <= w
        /\ w \in 0..Len(Response) /\ r \in 0..w /\ r \in 0..Len(Response)
        /\ r \in 0..r
    BY DownloadFacts
  <1>3. /\ Response \in Seq(Item) /\ IsHeaderMap(extra)
        /\ got["upstream"] = <<>> /\ hold["upstream"] = Beginning(r)
        /\ r < buf_len /\ buf_len \in 1..MaxBuf /\ MaxBuf \in Nat
        /\ Rewriting /\ ~eof["upstream"] /\ ~shut["upstream"]
        /\ closed["upstream"] \in BOOLEAN
    BY <1>1, RelayAssumption DEF DownloadInv
  <1>4. Len(Beginning(r)) = r
    BY <1>2, <1>3, InitialParts DEF Beginning
  <1> DEFINE r2 == r + n
  <1>5. /\ n \in Nat /\ n > 0 /\ r2 \in 0..w /\ r2 \in Nat /\ r2 <= buf_len
        /\ r2 \in 0..Len(Response) /\ r2 \in 0..r2 /\ r \in 0..r2 /\ 0 \in 0..r
    BY <1>1, <1>2, <1>3, <1>4
  <1>6. /\ have = Beginning(r2) /\ Beginning(r2) \in Seq(Item)
        /\ Len(Beginning(r2)) = r2
    <2>1. SubSeq(Response, 0 + 1, r) \o SubSeq(Response, r + 1, r2)
              = SubSeq(Response, 0 + 1, r2)
      BY <1>2, <1>3, <1>5, HeldAndFollowing
    <2>2. have = Beginning(r) \o SubSeq(Response, r + 1, r2)
      BY <1>3 DEF Following, Response
    <2> HIDE DEF r, r2, have
    <2>3. Beginning(r) \o SubSeq(Response, r + 1, r2) = Beginning(r2)
      <3>1. 0 + 1 = 1
        OBVIOUS
      <3>2. QED  BY <2>1, <3>1, Zenon DEF Beginning
    <2>4. have = Beginning(r2)
      BY <2>2, <2>3
    <2>5. Beginning(r2) \in Seq(Item) /\ Len(Beginning(r2)) = r2
      BY <1>3, <1>5, InitialParts DEF Beginning
    <2>6. QED  BY <2>4, <2>5
  <1>7. HeadEnd(Beginning(r2)) \in 0..r2
    BY <1>6, HeadEndIs
  <1>8. Emitted(r2) \in Seq(Item)
    BY <1>3, <1>5, EmittedIsSeq
  <1>9. <<>> \in Seq(Item) /\ <<>> \o Emitted(r2) = Emitted(r2)
    BY <1>8, EmptySeq, ConcatEmptySeq
  <1>10. /\ w = written'["upstream"] /\ got'["upstream"] = <<>>
         /\ ~eof'["upstream"] /\ ~shut'["upstream"]
         /\ closed'["upstream"] \in BOOLEAN
    BY <1>1, <1>3
  <1>11. Holds(have) => hold'["upstream"] = Beginning(r2)
    BY <1>6 DEF Holds, ByPeer, Peers
  <1> HIDE DEF w, r, r2, have
  <1>12. UNCHANGED Download!pipe
    BY <1>1, SameReleased DEF Download!pipe
  <1>13. read'["upstream"] = r2
    BY <1>1 DEF r2
  <1>14. CASE HeadEnd(have) > 0
    <2>1. hold'["upstream"] = Rewritten(have, extra) /\ phase' = "passing" /\ buf_len' = buf_len
      BY <1>1, <1>14 DEF HeadRead, Holds, ByPeer, Peers
    <2>2. Known(r2)
      BY <1>3, <1>5, <1>6, <1>7, <1>14 DEF Known
    <2>3. Decided(r2) /\ hold'["upstream"] = Emitted(r2)
      BY <1>3, <1>6, <2>1, <2>2 DEF Decided, Emitted
    <2>4. DownloadInv'
      BY <1>1, <1>2, <1>3, <1>5, <1>8, <1>9, <1>10, <1>13, <2>1, <2>3,
         DownloadKept DEF Phases
    <2>5. QED  BY <1>12, <2>4
  <1>15. CASE HeadEnd(have) = 0
    <2>1. hold'["upstream"] = Beginning(r2)
      BY <1>1, <1>11, <1>15 DEF HeadRead
    <2>2. ~Known(r2) /\ Emitted(r2) = Beginning(r2)
      BY <1>6, <1>15, RelayAssumption DEF Known, Emitted
    <2>3. CASE r2 < buf_len
      <3>1. phase' = "head" /\ buf_len' = buf_len
        BY <1>1, <1>3, <1>5, <1>6, <1>15, <2>3 DEF HeadRead
      <3>2. DownloadInv'
        BY <1>1, <1>2, <1>3, <1>5, <1>6, <1>9, <1>10, <1>13, <1>15, <2>1, <2>3,
           <3>1, DownloadKept DEF Phases
      <3>3. QED  BY <1>12, <3>2
    <2>4. CASE r2 = buf_len /\ buf_len < MaxBuf
      <3>1. phase' = "head"
        BY <1>1, <1>3, <1>5, <1>6, <1>15, <2>4 DEF HeadRead
      <3>2. buf_len' \in 1..MaxBuf /\ r2 < buf_len'
        <4>1. 2 * buf_len \in Nat /\ MaxBuf \in Nat
          BY <1>3
        <4>2. buf_len' = Min({2 * buf_len, MaxBuf})
          BY <1>1, <1>3, <1>5, <1>6, <1>15, <2>4 DEF HeadRead
        <4>3. buf_len' = IF 2 * buf_len <= MaxBuf THEN 2 * buf_len ELSE MaxBuf
          BY <4>1, <4>2, MinOfTwo
        <4>4. QED  BY <1>3, <2>4, <4>3
      <3>3. DownloadInv'
        BY <1>1, <1>2, <1>3, <1>5, <1>6, <1>9, <1>10, <1>13, <1>15, <2>1,
           <3>1, <3>2, DownloadKept DEF Phases
      <3>4. QED  BY <1>12, <3>3
    <2>5. CASE r2 = buf_len /\ buf_len >= MaxBuf
      <3>1. phase' = "passing" /\ buf_len' = buf_len
        BY <1>1, <1>3, <1>5, <1>6, <1>15, <2>5 DEF HeadRead
      <3>2. Decided(r2)
        BY <2>5 DEF Decided
      <3>3. DownloadInv'
        BY <1>1, <1>2, <1>3, <1>5, <1>6, <1>9, <1>10, <1>13, <2>1, <2>2,
           <3>1, <3>2, DownloadKept DEF Phases
      <3>4. QED  BY <1>12, <3>3
    <2>6. QED  BY <1>3, <1>5, <2>3, <2>4, <2>5
  <1>16. QED  BY <1>6, <1>7, <1>14, <1>15

\* The invariant survives reading what follows.
LEMMA DownloadCopyRead ==
    ASSUME ByPeer, DownloadInv, NEW n \in 1..CopyBuf, CopyRead("upstream", n)
    PROVE  DownloadInv' /\ UNCHANGED Download!pipe
  <1> DEFINE w == written["upstream"]
             r == read["upstream"]
             more == SubSeq(Response, r + 1, r + n)
  <1>1. /\ phase = "copying" /\ ~eof["upstream"]
        /\ n <= w - r /\ read'["upstream"] = r + n
        /\ hold'["upstream"] = hold["upstream"] \o more
        /\ UNCHANGED <<stream, extra, written, closed, got, eof, shut, phase,
                       buf_len>>
    BY DEF CopyRead, Copying, Takes, Following, Configured, peers, ByPeer, Peers,
           Response
  <1>2. /\ Len(Response) \in Nat /\ w \in Nat /\ r \in Nat /\ r <= w
        /\ w \in 0..Len(Response) /\ r \in 0..w
    BY DownloadFacts
  <1>3. /\ Response \in Seq(Item) /\ IsHeaderMap(extra)
        /\ got["upstream"] \in Seq(Item) /\ hold["upstream"] \in Seq(Item)
        /\ got["upstream"] \o hold["upstream"] = Emitted(r)
        /\ Decided(r) /\ ~shut["upstream"]
        /\ closed["upstream"] \in BOOLEAN /\ buf_len \in 1..MaxBuf
        /\ phase \in Phases
    BY <1>1 DEF DownloadInv
  <1> DEFINE r2 == r + n
  <1>4. n \in Nat /\ r2 \in 0..w /\ r2 \in 0..Len(Response) /\ r \in 0..r2
    <2>1. n \in Nat /\ n <= w - r /\ r2 = r + n
      BY <1>1, RelayAssumption
    <2> HIDE DEF w, r, r2
    <2>2. QED  BY <1>2, <2>1
  <1>5. more \in Seq(Item)
    <2>1. \A i \in (r + 1)..(r + n) : Response[i] \in Item
      BY <1>2, <1>3, <1>4, ElementOfSeq
    <2>2. QED  BY <1>2, <1>4, <2>1, SubSeqProperties
  <1>6. Emitted(r2) = Emitted(r) \o more /\ Decided(r2)
    BY <1>2, <1>3, <1>4, EmittedContinues
  <1> HIDE DEF w, r, r2, more
  <1>7. got["upstream"] \o (hold["upstream"] \o more) = Emitted(r2)
    <2> DEFINE g == got["upstream"]
               h == hold["upstream"]
    <2>1. g \in Seq(Item) /\ h \in Seq(Item) /\ more \in Seq(Item)
      BY <1>3, <1>5
    <2> HIDE DEF g, h
    <2>2. (g \o h) \o more = g \o (h \o more)
      BY <2>1, ConcatAssociative
    <2>3. QED  BY <1>3, <1>6, <2>2 DEF g, h
  <1>8. hold["upstream"] \o more \in Seq(Item)
    BY <1>3, <1>5, ConcatProperties
  <1>9. w = written'["upstream"] /\ r2 = read'["upstream"]
    BY <1>1 DEF w, r2
  <1>10. DownloadInv'
    BY <1>1, <1>2, <1>3, <1>4, <1>6, <1>7, <1>8, <1>9, DownloadKept
  <1>11. UNCHANGED Download!pipe
    BY <1>1, SameReleased DEF Download!pipe
  <1>12. QED  BY <1>10, <1>11

\* A sequence that does not change when something is appended got nothing.
LEMMA NothingAppended ==
    ASSUME NEW S, NEW g \in Seq(S), NEW h \in Seq(S), g \o h = g
    PROVE  h = <<>>
  <1>1. Len(g) \in Nat /\ Len(h) \in Nat /\ Len(g \o h) = Len(g) + Len(h)
    BY LenProperties, ConcatProperties
  <1>2. Len(h) = 0
    BY <1>1
  <1>3. QED  BY <1>2, EmptySeq

\* The invariant survives a write to the client, and the pipe gives.
LEMMA DownloadWrite ==
    ASSUME ByPeer, DownloadInv, NEW n, Passes("upstream", n),
           phase \in {"passing", "returning", "copying"},
           UNCHANGED <<stream, extra, written, closed, read, phase, buf_len,
                       eof, shut>>
    PROVE  DownloadInv' /\ Download!Take
  <1> DEFINE w == written["upstream"]
             r == read["upstream"]
             g == got["upstream"]
             h == hold["upstream"]
             g2 == got'["upstream"]
             h2 == hold'["upstream"]
  <1>1. n \in 1..Len(h) /\ Moves(g, h, n, g2, h2)
    BY DEF Passes, Moves, ByPeer, Peers
  <1>2. /\ Response \in Seq(Item) /\ IsHeaderMap(extra)
        /\ g \in Seq(Item) /\ h \in Seq(Item) /\ g \o h = Emitted(r)
        /\ closed["upstream"] \in BOOLEAN /\ phase \in Phases
        /\ buf_len \in 1..MaxBuf /\ phase # "head"
        /\ phase \in {"passing", "copying"} => Decided(r)
        /\ phase = "returning" => closed["upstream"] /\ r = w
        /\ phase \in {"head", "passing", "returning"} =>
              Rewriting /\ ~eof["upstream"]
        /\ eof["upstream"] => closed["upstream"] /\ r = w
        /\ shut["upstream"] => eof["upstream"] /\ g = Emitted(w)
    BY DEF DownloadInv
  <1>3. /\ w \in 0..Len(Response) /\ r \in 0..w
        /\ w = written'["upstream"] /\ r = read'["upstream"]
    BY DownloadFacts
  <1>4. Released' = Released
    BY SameReleased
  <1>5. PICK rest \in Seq(Item) : Released = Emitted(r) \o rest
    BY DownloadFacts
  <1> HIDE DEF w, r, g, h, g2, h2
  <1>6. /\ g2 \in Seq(Item) /\ h2 \in Seq(Item) /\ g2 \o h2 = g \o h
        /\ Download!IsStrictPrefix(g, g2)
    BY <1>1, <1>2, PartialWrite
  <1>7. ~shut["upstream"]
    <2>1. ASSUME shut["upstream"] PROVE FALSE
      <3>1. g \o h = g
        BY <1>2, <2>1
      <3>2. h = <<>>
        BY <1>2, <3>1, NothingAppended
      <3>3. QED  BY <1>1, <3>2
    <2>2. QED  BY <2>1
  <1>8. DownloadInv'
    BY <1>2, <1>3, <1>6, <1>7, DownloadKept DEF g2, h2
  <1>9. Released = g2 \o (h2 \o rest) /\ h2 \o rest \in Seq(Item)
    <2>1. (g2 \o h2) \o rest = g2 \o (h2 \o rest)
      <3>1. g2 \in Seq(Item) /\ h2 \in Seq(Item) /\ rest \in Seq(Item)
        BY <1>6
      <3>2. QED  BY <3>1, ConcatAssociative
    <2>2. h2 \o rest \in Seq(Item)
      BY <1>5, <1>6, ConcatProperties
    <2>3. Released = (g2 \o h2) \o rest
      BY <1>2, <1>5, <1>6
    <2>4. QED  BY <2>1, <2>2, <2>3, Zenon
  <1> DEFINE t == h2 \o rest
  <1>10. Download!IsPrefix(g2, Released)
    <2>1. t \in Seq(Item) /\ Released = g2 \o t
      BY <1>9
    <2> HIDE DEF t
    <2>2. QED  BY <1>6, <2>1, PrefixOfConcat
  <1>11. QED
    BY <1>4, <1>6, <1>7, <1>8, <1>10 DEF Download!Take, g, g2

\* What is complete when the end was read and nothing is held.
LEMMA AllPassed ==
    ASSUME DownloadInv, closed["upstream"], read["upstream"] = written["upstream"],
           hold["upstream"] = <<>>, phase \in {"passing", "returning", "copying"}
    PROVE  /\ got["upstream"] = Emitted(written["upstream"])
           /\ Released = got["upstream"]
  <1>1. got["upstream"] \o <<>> = got["upstream"]
    BY ConcatEmptySeq DEF DownloadInv
  <1>2. got["upstream"] = Emitted(written["upstream"])
    BY <1>1 DEF DownloadInv
  <1>3. QED  BY <1>2, DownloadFacts

\* The invariant survives reading the end of the response.
LEMMA DownloadCopyEof ==
    ASSUME ByPeer, DownloadInv, CopyEof("upstream")
    PROVE  DownloadInv' /\ UNCHANGED Download!pipe
  <1> DEFINE w == written["upstream"]
             r == read["upstream"]
  <1>1. /\ phase = "copying" /\ ~eof["upstream"] /\ eof'["upstream"] = TRUE
        /\ closed["upstream"] /\ r = w
        /\ UNCHANGED <<stream, extra, written, closed, read, hold, got, shut,
                       phase, buf_len>>
    BY DEF CopyEof, Copying, SawEof, Configured, peers, ByPeer, Peers
  <1>2. /\ w \in 0..Len(Response) /\ r \in 0..w
        /\ w = written'["upstream"] /\ r = read'["upstream"]
    BY <1>1, DownloadFacts
  <1> HIDE DEF w, r
  <1>3. DownloadInv'
    <2>1. r = read["upstream"] /\ w = written["upstream"]
      BY DEF r, w
    <2>2. QED
      BY <1>1, <1>2, <2>1, DownloadKept DEF DownloadInv
  <1>4. QED
    BY <1>1, <1>3, SameReleased DEF Download!pipe

\* The end is passed on behind everything.
LEMMA DownloadCopyShutdown ==
    ASSUME ByPeer, DownloadInv, CopyShutdown("upstream")
    PROVE  DownloadInv' /\ Download!End
  <1> DEFINE w == written["upstream"]
             r == read["upstream"]
  <1>1. /\ phase = "copying" /\ eof["upstream"] /\ hold["upstream"] = <<>>
        /\ shut'["upstream"] = TRUE
        /\ UNCHANGED <<stream, extra, written, closed, read, hold, got, eof,
                       phase, buf_len>>
    BY DEF CopyShutdown, Copying, Configured, peers, ByPeer, Peers
  <1>2. /\ w \in 0..Len(Response) /\ r \in 0..w
        /\ w = written'["upstream"] /\ r = read'["upstream"]
    BY <1>1, DownloadFacts
  <1>3. closed["upstream"] /\ r = w
    BY <1>1 DEF DownloadInv
  <1>4. got["upstream"] = Emitted(w) /\ Released = got["upstream"]
    BY <1>1, <1>3, AllPassed
  <1> HIDE DEF w, r
  <1>5. DownloadInv'
    <2>1. r = read["upstream"] /\ w = written["upstream"]
      BY DEF r, w
    <2>2. QED
      BY <1>1, <1>2, <1>4, <2>1, DownloadKept DEF DownloadInv
  <1>6. QED
    BY <1>1, <1>3, <1>4, <1>5, SameReleased DEF Download!End

\* The invariant survives the steps that change nothing but the phase.
LEMMA DownloadPhase ==
    ASSUME ByPeer, DownloadInv,
           UNCHANGED <<stream, extra, written, closed, read, hold, got, eof,
                       shut, buf_len>>,
           \/ HeadEof \/ HeadWritten
           \/ Copied \/ Fails \/ TimesOut \/ Shutdown
    PROVE  DownloadInv' /\ UNCHANGED Download!pipe
  <1> DEFINE w == written["upstream"]
             r == read["upstream"]
  <1>1. \/ /\ phase = "head" /\ phase' = "returning"
           /\ closed["upstream"] /\ r = w
        \/ phase = "passing" /\ phase' = "copying"
        \/ phase' = "done"
    BY DEF HeadEof, SawEof, HeadWritten, Copied, Fails, TimesOut, Shutdown, Ends
  <1>2. /\ w \in 0..Len(Response) /\ r \in 0..w
        /\ w = written'["upstream"] /\ r = read'["upstream"]
    BY DownloadFacts
  <1>3. phase = "head" => got["upstream"] \o hold["upstream"] = Emitted(r)
    <2>1. CASE phase = "head"
      <3>1. /\ got["upstream"] = <<>> /\ hold["upstream"] = Beginning(r)
            /\ ~Known(r) /\ hold["upstream"] \in Seq(Item)
        BY <2>1, RelayAssumption DEF DownloadInv, Known
      <3>2. <<>> \o hold["upstream"] = hold["upstream"]
        BY <3>1, ConcatEmptySeq
      <3>3. QED  BY <3>1, <3>2 DEF Emitted
    <2>2. QED  BY <2>1
  <1> HIDE DEF w, r
  <1>4. DownloadInv'
    <2>1. r = read["upstream"] /\ w = written["upstream"]
      BY DEF r, w
    <2>2. CASE phase' = "done"
      BY <1>2, <2>1, <2>2, DownloadKept DEF DownloadInv, Phases
    <2>3. CASE phase = "passing" /\ phase' = "copying"
      BY <1>2, <2>1, <2>3, DownloadKept DEF DownloadInv, Phases
    <2>4. CASE /\ phase = "head" /\ phase' = "returning"
               /\ closed["upstream"] /\ r = w
      BY <1>2, <1>3, <2>1, <2>4, DownloadKept DEF DownloadInv, Phases
    <2>5. QED  BY <1>1, <2>2, <2>3, <2>4
  <1>5. QED
    BY <1>4, SameReleased DEF Download!pipe

\* What each step of the download does, and that the invariant survives it.
LEMMA DownloadSteps ==
    ASSUME ByPeer, DownloadInv, DownloadStep
    PROVE  /\ DownloadInv'
           /\ [Download!Give \/ Download!Take \/ Download!End]_(Download!pipe)
  <1>1. CASE Send("upstream") \/ Close("upstream")
    BY <1>1, DownloadGiven
  <1>2. ASSUME NEW n, ReadHead(n)
        PROVE  DownloadInv' /\ UNCHANGED Download!pipe
    BY <1>2, DownloadReadHead
  <1>3. ASSUME NEW n, WriteHead(n)
        PROVE  DownloadInv' /\ Download!Take
    <2>1. /\ Passes("upstream", n) /\ phase \in {"passing", "returning", "copying"}
          /\ UNCHANGED <<stream, extra, written, closed, read, phase, buf_len,
                         eof, shut>>
      BY <1>3 DEF WriteHead, Configured, peers
    <2>2. QED  BY <2>1, DownloadWrite
  <1>4. ASSUME NEW n \in 1..CopyBuf, CopyWrite("upstream", n)
        PROVE  DownloadInv' /\ Download!Take
    <2>1. /\ Passes("upstream", n) /\ phase \in {"passing", "returning", "copying"}
          /\ UNCHANGED <<stream, extra, written, closed, read, phase, buf_len,
                         eof, shut>>
      BY <1>4 DEF CopyWrite, Copying, Configured, peers
    <2>2. QED  BY <2>1, DownloadWrite
  <1>5. ASSUME NEW n \in 1..CopyBuf, CopyRead("upstream", n)
        PROVE  DownloadInv' /\ UNCHANGED Download!pipe
    BY <1>5, DownloadCopyRead
  <1>6. CASE HeadEof \/ HeadWritten \/ Copied \/ Fails \/ TimesOut \/ Shutdown
    <2>1. UNCHANGED <<stream, extra, written, closed, read, hold, got, eof,
                      shut, buf_len>>
      BY <1>6 DEF HeadEof, HeadWritten, Copied, Copying, Fails, TimesOut,
                  Shutdown, Ends, Configured, peers
    <2>2. QED  BY <1>6, <2>1, DownloadPhase
  <1>7. CASE CopyEof("upstream")
    BY <1>7, DownloadCopyEof
  <1>8. CASE CopyShutdown("upstream")
    BY <1>8, DownloadCopyShutdown
  <1>9. QED
    BY <1>1, <1>2, <1>3, <1>4, <1>5, <1>6, <1>7, <1>8 DEF DownloadStep

\* The invariant survives a step that leaves the download alone.
LEMMA DownloadUntouched ==
    ASSUME DownloadInv, UNCHANGED DownloadState
    PROVE  DownloadInv' /\ UNCHANGED Download!pipe
  <1> DEFINE w == written["upstream"]
             r == read["upstream"]
  <1>1. /\ w = written["upstream"] /\ r = read["upstream"]
        /\ w = written'["upstream"] /\ r = read'["upstream"]
    BY DEF DownloadState
  <1> HIDE DEF w, r
  <1>2. w \in 0..Len(Response) /\ r \in 0..w
    BY <1>1, DownloadFacts
  <1>3. DownloadInv'
    BY <1>1, <1>2, DownloadKept DEF DownloadState, DownloadInv
  <1>4. QED
    BY <1>3, SameReleased DEF DownloadState, Download!pipe

\* Nothing has been sent at first, and nothing is released.
LEMMA DownloadInit ==
    ASSUME Init
    PROVE  DownloadInv /\ Download!PipeInit
  <1>1. /\ Response \in Seq(Item) /\ extra \in ExtraHeaders
        /\ written["upstream"] = 0 /\ read["upstream"] = 0
        /\ hold["upstream"] = <<>> /\ got["upstream"] = <<>>
        /\ closed["upstream"] = FALSE /\ ~eof["upstream"] /\ ~shut["upstream"]
        /\ phase = IF Rewriting THEN "head" ELSE "copying"
        /\ buf_len = Min({FirstBuf, MaxBuf})
    BY StreamsAssumption DEF Init, Peers, Response
  <1>2. IsHeaderMap(extra) /\ Len(Response) \in Nat
    BY <1>1, ExtraIsMap, LenProperties
  <1>3. buf_len \in 1..MaxBuf
    <2>1. FirstBuf \in Nat /\ MaxBuf \in Nat /\ FirstBuf > 0 /\ MaxBuf > 0
      BY RelayAssumption
    <2>2. buf_len = IF FirstBuf <= MaxBuf THEN FirstBuf ELSE MaxBuf
      BY <1>1, <2>1, MinOfTwo
    <2>3. QED  BY <2>1, <2>2
  <1>4. Beginning(0) = <<>> /\ HeadEnd(Beginning(0)) = 0
    <2>1. Beginning(0) = <<>> /\ <<>> \in Seq(Item) /\ Len(<<>>) = 0
      BY SubSeqEmpty, EmptySeq DEF Beginning
    <2>2. HeadEnd(<<>>) \in 0..0
      BY <2>1, HeadEndIs
    <2>3. QED  BY <2>1, <2>2
  <1>5. ~Known(0) /\ Emitted(0) = <<>> /\ <<>> \o <<>> = <<>>
    BY <1>4, RelayAssumption, EmptySeq, ConcatEmptySeq DEF Known, Emitted
  <1>6. DownloadInv
    <2>1. /\ 0 \in 0..Len(Response) /\ 0 \in 0..0 /\ 0 < buf_len
          /\ <<>> \in Seq(Item) /\ FALSE \in BOOLEAN
      BY <1>2, <1>3, RelayAssumption, EmptySeq
    <2>2. CASE Rewriting
      BY <1>1, <1>2, <1>3, <1>4, <2>1, <2>2 DEF DownloadInv, Phases
    <2>3. CASE ~Rewriting
      BY <1>1, <1>2, <1>3, <1>5, <2>1, <2>3 DEF DownloadInv, Phases, Decided
    <2>4. QED  BY <2>2, <2>3
  <1>7. Released = <<>>
    BY <1>1, <1>5, <1>6, DownloadFacts
  <1>8. QED
    BY <1>1, <1>6, <1>7 DEF Download!PipeInit

\* For every response and every map of headers to set in it, however it is cut
\* into reads and writes and whatever the size of the buffer, the client gets
\* it in order and without loss, with the configured lines in its head if the
\* head fits the buffer, and is told of its end behind all of it
\* (listeners.rs:601-639).
THEOREM DownloadIsAPipeHolds == Spec => DownloadIsAPipe
  <1>1. Init => ByPeer /\ DownloadInv /\ Download!PipeInit
    BY DownloadInit DEF Init, ByPeer
  <1>2. ByPeer /\ DownloadInv /\ [Next]_vars =>
            ByPeer' /\ DownloadInv'
            /\ [Download!Give \/ Download!Take \/ Download!End]_(Download!pipe)
    <2> SUFFICES ASSUME ByPeer, DownloadInv, [Next]_vars
                 PROVE  ByPeer' /\ DownloadInv'
                        /\ [Download!Give \/ Download!Take \/ Download!End]_(Download!pipe)
      OBVIOUS
    <2>1. ByPeer'
      BY OtherSteps
    <2>2. CASE DownloadStep
      BY <2>1, <2>2, DownloadSteps
    <2>3. CASE UNCHANGED DownloadState
      BY <2>1, <2>3, DownloadUntouched
    <2>4. QED  BY <2>2, <2>3, OtherDownloadSteps
  <1>3. QED
    BY <1>1, <1>2, PTL DEF Spec, DownloadIsAPipe, Download!PipeSpec

-----------------------------------------------------------------------------
\* The relay as a whole.

\* What is left of TypeOK besides the two directions.
Kinds ==
    /\ stream \in [client : Uploads, upstream : Responses]
    /\ extra \in ExtraHeaders /\ timed \in BOOLEAN /\ polite \in BOOLEAN
    /\ outcome \in Outcomes
    /\ closed \in [Peers -> BOOLEAN] /\ eof \in [Peers -> BOOLEAN]
    /\ shut \in [Peers -> BOOLEAN]

\* A relay that returned is done, and had passed on everything.
Returned == outcome = "ok" => phase = "done" /\ ReturnsWhenAllIsPassed

RelayInv == ByPeer /\ Kinds /\ UploadInv /\ DownloadInv /\ Returned

\* Both directions together, after any step.
LEMMA BothDirections ==
    ASSUME ByPeer, UploadInv, DownloadInv, [Next]_vars
    PROVE  ByPeer' /\ UploadInv' /\ DownloadInv'
  <1>1. ByPeer' /\ (UploadStep \/ UNCHANGED UploadState)
    BY OtherSteps
  <1>2. UploadInv'
    BY <1>1, UploadSteps DEF UploadState, UploadInv
  <1>3. CASE DownloadStep
    BY <1>1, <1>2, <1>3, DownloadSteps
  <1>4. CASE UNCHANGED DownloadState
    BY <1>1, <1>2, <1>4, DownloadUntouched
  <1>5. QED  BY <1>3, <1>4, OtherDownloadSteps

\* The kinds of the variables survive any step.
LEMMA KindsKept ==
    ASSUME Kinds, [Next]_vars
    PROVE  Kinds'
  <1> USE DEF Kinds, Peers, peers, Configured, Proxy, Outcomes
  <1>1. ASSUME NEW p \in Peers, Send(p) \/ Close(p)
        PROVE  Kinds'
    BY <1>1 DEF Send, Close, MaySend
  <1>2. ASSUME NEW p \in Peers, Copy(p)
        PROVE  Kinds'
    BY <1>2 DEF Copy, CopyRead, CopyWrite, CopyEof, CopyShutdown, Copying, Passes
  <1>3. ASSUME NEW n, ReadHead(n) \/ WriteHead(n)
        PROVE  Kinds'
    BY <1>3 DEF ReadHead, WriteHead
  <1>4. CASE HeadEof \/ HeadWritten \/ Copied \/ Fails \/ TimesOut \/ Shutdown
    BY <1>4 DEF HeadEof, HeadWritten, Copied, Copying, Fails, TimesOut, Shutdown, Ends
  <1>5. CASE UNCHANGED vars
    BY <1>5 DEF vars
  <1>6. QED
    BY <1>1, <1>2, <1>3, <1>4, <1>5 DEF Next, RelayHead

\* What a relay that returns leaves behind.
LEMMA ReturnedKept ==
    ASSUME RelayInv, [Next]_vars
    PROVE  Returned'
  <1>1. CASE phase = "done" \/ UNCHANGED vars
    <2>1. UNCHANGED vars
      BY <1>1 DEF Next, Send, Close, MaySend, Copy, CopyRead, CopyWrite, CopyEof,
                  CopyShutdown, Copying, RelayHead, ReadHead, WriteHead, HeadEof,
                  HeadWritten, Copied, Fails, TimesOut, Shutdown, Ends
    <2>2. UNCHANGED <<stream, extra, written, closed, got, shut, outcome, phase>>
      BY <2>1 DEF vars, peers
    <2>3. UNCHANGED <<Released, Rewriting>>
      BY <2>2, SameReleased DEF Rewriting
    <2>4. QED
      BY <2>2, <2>3 DEF RelayInv, Returned, ReturnsWhenAllIsPassed
  <1>2. ASSUME phase # "done", Next, outcome' = "ok"
        PROVE  HeadWritten \/ Copied
    <2>1. outcome # "ok"
      BY <1>2 DEF RelayInv, Returned
    <2>2. QED
      BY <1>2, <2>1
         DEF Next, Send, Close, MaySend, Proxy, Copy, CopyRead, CopyWrite, CopyEof,
             CopyShutdown, RelayHead, ReadHead, WriteHead, HeadEof, Fails,
             TimesOut, Shutdown, Ends
  <1>3. CASE HeadWritten /\ outcome' = "ok"
    <2>1. /\ phase = "returning" /\ hold["upstream"] = <<>> /\ phase' = "done"
          /\ UNCHANGED <<stream, extra, written, closed, got, shut>>
      BY <1>3 DEF HeadWritten, RelayInv, Returned, Configured, peers
    <2>2. /\ closed["upstream"] /\ read["upstream"] = written["upstream"]
          /\ Rewriting /\ ~eof["upstream"] /\ ~shut["upstream"]
      BY <2>1 DEF RelayInv, DownloadInv
    <2>3. Released = got["upstream"]
      BY <2>1, <2>2, AllPassed DEF RelayInv
    <2>4. UNCHANGED <<Released, Rewriting>>
      BY <2>1, SameReleased DEF Rewriting
    <2>5. QED
      BY <2>1, <2>2, <2>3, <2>4 DEF Returned, ReturnsWhenAllIsPassed
  <1>4. CASE Copied
    <2>1. /\ phase = "copying" /\ phase' = "done"
          /\ shut["client"] /\ shut["upstream"]
          /\ UNCHANGED <<stream, extra, written, closed, got, shut>>
      BY <1>4 DEF Copied, Copying, Configured, peers, Peers
    <2>2. got["client"] = SubSeq(stream["client"], 1, written["client"])
      BY <2>1 DEF RelayInv, UploadInv
    <2>3. /\ closed["upstream"] /\ read["upstream"] = written["upstream"]
          /\ got["upstream"] = Emitted(written["upstream"])
      BY <2>1 DEF RelayInv, DownloadInv
    <2>4. Released = got["upstream"]
      BY <2>3, DownloadFacts DEF RelayInv
    <2>5. UNCHANGED <<Released, Rewriting>>
      BY <2>1, SameReleased DEF Rewriting
    <2>6. QED
      BY <2>1, <2>2, <2>4, <2>5 DEF Returned, ReturnsWhenAllIsPassed
  <1>5. QED
    BY <1>1, <1>2, <1>3, <1>4 DEF Returned

\* The invariant of the relay holds in every state.
LEMMA RelayInvariant == Spec => []RelayInv
  <1>1. Init => RelayInv
    <2> SUFFICES ASSUME Init PROVE RelayInv
      OBVIOUS
    <2>1. ByPeer
      BY DEF Init, ByPeer
    <2>2. Kinds /\ Returned
      BY DEF Init, Kinds, Returned, Outcomes
    <2>3. UploadInv
      BY UploadInit
    <2>4. DownloadInv
      BY DownloadInit
    <2>5. QED  BY <2>1, <2>2, <2>3, <2>4 DEF RelayInv
  <1>2. RelayInv /\ [Next]_vars => RelayInv'
    BY BothDirections, KindsKept, ReturnedKept DEF RelayInv
  <1>3. QED  BY <1>1, <1>2, PTL DEF Spec

\* A relay that returns without an error has passed on everything, in both
\* directions unless the upstream closed within the head it was awaited for.
THEOREM ReturnsWhenAllIsPassedHolds == Spec => []ReturnsWhenAllIsPassed
  <1>1. RelayInv => ReturnsWhenAllIsPassed
    BY DEF RelayInv, Returned, ReturnsWhenAllIsPassed
  <1>2. QED  BY <1>1, RelayInvariant, PTL

\* Type correctness of the relay: reads never overtake writes, and the buffer
\* of the head stays within its limit.
THEOREM TypeCorrect == Spec => []TypeOK
  <1>1. RelayInv => TypeOK
    <2> SUFFICES ASSUME RelayInv PROVE TypeOK
      OBVIOUS
    <2>1. /\ written["upstream"] \in 0..Len(stream["upstream"])
          /\ read["upstream"] \in 0..written["upstream"]
          /\ got["upstream"] \in Seq(Item) /\ hold["upstream"] \in Seq(Item)
          /\ phase \in Phases /\ buf_len \in 1..MaxBuf
      BY DEF RelayInv, DownloadInv, Response
    <2>2. /\ written["client"] \in 0..Len(stream["client"])
          /\ read["client"] \in 0..written["client"]
          /\ got["client"] \in Seq(Item) /\ hold["client"] \in Seq(Item)
      BY UploadIsSeq DEF RelayInv, UploadInv
    <2>3. QED
      BY <2>1, <2>2 DEF RelayInv, Kinds, TypeOK, Peers
  <1>2. QED  BY <1>1, RelayInvariant, PTL
=============================================================================
