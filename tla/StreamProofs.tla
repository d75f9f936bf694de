---------------------------- MODULE StreamProofs ----------------------------
(***************************************************************************)
(* Proofs about module Stream, for every size of the buffer and every      *)
(* number of bytes: tcp_stream_readuntil implements Splitter.              *)
(*                                                                         *)
(* HeldInv says what the three pieces of memory hold at each place in the  *)
(* code: bytes that follow one another, ending with the last one read, and *)
(* no delimiter in those that are already part of the line.                *)
(***************************************************************************)
EXTENDS Stream, WellFoundedInduction, TLAPS

\* The bytes after place p, one after the other.
Run(s, p) == \A k \in DOMAIN s : s[k] = p + k

Clean(s) == \A k \in DOMAIN s : ~sent[s[k]]

FlagInv ==
  /\ rx \in {"loop", "search", "read", "keep", "done"}
  /\ result \in {"TCP_STREAM_OK", "TCP_STREAM_READE", "TCP_STREAM_NOMEM"}
  /\ peer_closed \in BOOLEAN /\ allocated \in BOOLEAN /\ null_line \in BOOLEAN
  /\ is_killed \in BOOLEAN /\ destroyed \in BOOLEAN
  /\ unterminated \in BOOLEAN /\ undefined \in BOOLEAN
  /\ buff # <<>> => allocated \/ destroyed
  /\ undefined => destroyed \/ unterminated

BytesInv ==
  /\ sent \in Seq(BOOLEAN) /\ Len(sent) <= MaxBytes /\ taken \in 0..Len(sent)
  /\ line \in Seq(Bytes) /\ buff \in Seq(Bytes)
  /\ outbuff \in Seq(Bytes) /\ rest \in Seq(Bytes)

HeldInv ==
  /\ rx \in {"loop", "search"} =>
       /\ outbuff = <<>> /\ rest = <<>>
       /\ Len(buff) <= taken /\ Run(buff, taken - Len(buff))
  /\ rx = "read" =>
       /\ buff = <<>> /\ rest = <<>>
       /\ Len(outbuff) <= taken /\ Run(outbuff, taken - Len(outbuff))
       /\ Clean(outbuff)
  /\ rx = "keep" =>
       /\ buff = <<>> /\ rest # <<>> /\ Len(rest) <= BuffCap
       /\ Len(outbuff) + Len(rest) <= taken
       /\ Run(outbuff, taken - Len(rest) - Len(outbuff)) /\ Clean(outbuff)
       /\ Run(rest, taken - Len(rest)) /\ sent[rest[1]]

StreamInv == FlagInv /\ BytesInv /\ HeldInv

-----------------------------------------------------------------------------
(* Pieces of what was sent.                                                *)

\* Cutting a piece at its i-th byte.
LEMMA Cut ==
  ASSUME NEW s \in Seq(Bytes), NEW p \in Nat, Run(s, p), NEW i \in DOMAIN s
  PROVE  /\ i \in Nat \ {0} /\ i <= Len(s) /\ Len(s) \in Nat
         /\ Before(s, i) \in Seq(Bytes) /\ Len(Before(s, i)) = i - 1
         /\ Run(Before(s, i), p)
         /\ After(s, i) \in Seq(Bytes) /\ Len(After(s, i)) = Len(s) - i
         /\ Run(After(s, i), p + i)
         /\ SubSeq(s, i, Len(s)) \in Seq(Bytes)
         /\ Len(SubSeq(s, i, Len(s))) = Len(s) - i + 1
         /\ Run(SubSeq(s, i, Len(s)), p + i - 1)
<1>1. i \in 1..Len(s) /\ Len(s) \in Nat
  OBVIOUS
<1>2. /\ Before(s, i) \in Seq(Bytes) /\ Len(Before(s, i)) = i - 1
      /\ Run(Before(s, i), p)
  BY <1>1 DEF Before, Run
<1>3. /\ After(s, i) \in Seq(Bytes) /\ Len(After(s, i)) = Len(s) - i
      /\ Run(After(s, i), p + i)
  <2> DEFINE a == SubSeq(s, i + 1, Len(s))
  <2>1. /\ a \in Seq(Bytes) /\ Len(a) = Len(s) - i
        /\ \A k \in 1..(Len(s) - i) : a[k] = s[i + k]
    BY <1>1
  <2>2. \A k \in 1..(Len(s) - i) : i + k \in DOMAIN s /\ k \in Nat
    BY <1>1
  <2> HIDE DEF a
  <2>3. \A k \in DOMAIN a : a[k] = p + i + k
    BY <1>1, <2>1, <2>2 DEF Run
  <2>4. QED
    BY <2>1, <2>3 DEF After, Run, a
<1>4. /\ SubSeq(s, i, Len(s)) \in Seq(Bytes)
      /\ Len(SubSeq(s, i, Len(s))) = Len(s) - i + 1
      /\ Run(SubSeq(s, i, Len(s)), p + i - 1)
  <2> DEFINE a == SubSeq(s, i, Len(s))
  <2>1. /\ a \in Seq(Bytes) /\ Len(a) = Len(s) - i + 1
        /\ \A k \in 1..(Len(s) - i + 1) : a[k] = s[i + k - 1]
    BY <1>1
  <2>2. \A k \in 1..(Len(s) - i + 1) : i + k - 1 \in DOMAIN s /\ k \in Nat
    BY <1>1
  <2> HIDE DEF a
  <2>3. \A k \in DOMAIN a : a[k] = p + i - 1 + k
    BY <1>1, <2>1, <2>2 DEF Run
  <2>4. QED
    BY <2>1, <2>3 DEF Run, a
<1>5. QED
  BY <1>1, <1>2, <1>3, <1>4

\* Joining two pieces.
LEMMA Join ==
  ASSUME NEW s \in Seq(Bytes), NEW t \in Seq(Bytes), NEW p \in Nat,
         Run(s, p), Run(t, p + Len(s))
  PROVE  /\ s \o t \in Seq(Bytes) /\ Len(s \o t) = Len(s) + Len(t)
         /\ Run(s \o t, p)
         /\ Clean(s) /\ Clean(t) => Clean(s \o t)
<1>1. /\ s \o t \in Seq(Bytes) /\ Len(s \o t) = Len(s) + Len(t)
      /\ Len(s) \in Nat /\ Len(t) \in Nat
  OBVIOUS
<1>2. ASSUME NEW k \in DOMAIN (s \o t)
      PROVE  \/ k \in DOMAIN s /\ (s \o t)[k] = s[k]
             \/ k - Len(s) \in DOMAIN t /\ (s \o t)[k] = t[k - Len(s)]
  OBVIOUS
<1>3. Run(s \o t, p)
  <2>1. ASSUME NEW k \in DOMAIN (s \o t) PROVE (s \o t)[k] = p + k
    <3>1. k \in Nat
      BY <1>1
    <3>2. CASE k \in DOMAIN s /\ (s \o t)[k] = s[k]
      BY <3>2 DEF Run
    <3>3. CASE k - Len(s) \in DOMAIN t /\ (s \o t)[k] = t[k - Len(s)]
      <4>1. t[k - Len(s)] = (p + Len(s)) + (k - Len(s))
        BY <3>3 DEF Run
      <4>2. QED
        BY <1>1, <3>1, <3>3, <4>1
    <3>4. QED
      BY <1>2, <3>2, <3>3
  <2>2. QED
    BY <2>1 DEF Run
<1>4. Clean(s) /\ Clean(t) => Clean(s \o t)
  BY <1>2 DEF Clean
<1>5. QED
  BY <1>1, <1>3, <1>4

\* What read() returns.
LEMMA ChunkIs ==
  ASSUME BytesInv, NEW n \in 1..BuffCap, taken + n <= Len(sent)
  PROVE  /\ Chunk(n) \in Seq(Bytes) /\ Len(Chunk(n)) = n
         /\ DOMAIN Chunk(n) = 1..n /\ Run(Chunk(n), taken)
         /\ n \in Nat \ {0} /\ n <= BuffCap /\ taken \in Nat
<1>1. n \in Nat \ {0} /\ n <= BuffCap /\ taken \in Nat /\ Len(sent) \in Nat
      /\ MaxBytes \in Nat /\ Len(sent) <= MaxBytes
  BY CapAssumption DEF BytesInv
<1>2. \A k \in 1..n : taken + k \in Bytes
  BY <1>1 DEF Bytes
<1>3. Chunk(n) \in [1..n -> Bytes]
  BY <1>2 DEF Chunk
<1>4. Chunk(n) \in Seq(Bytes) /\ Len(Chunk(n)) = n
  BY <1>1, <1>3
<1>5. QED
  BY <1>1, <1>4 DEF Chunk, Run

\* The first delimiter of a piece.
LEMMA FirstDelimiter ==
  ASSUME NEW s \in Seq(Bytes), NEW i \in Delimiter(s)
  PROVE  i \in DOMAIN s /\ sent[s[i]] /\ Clean(Before(s, i))
<1>1. /\ i \in DOMAIN s /\ sent[s[i]]
      /\ \A j \in 1..(i - 1) : ~sent[s[j]]
  BY DEF Delimiter
<1>2. /\ i \in 1..Len(s) /\ DOMAIN Before(s, i) = 1..(i - 1)
      /\ \A j \in 1..(i - 1) : Before(s, i)[j] = s[j]
  BY <1>1 DEF Before
<1>3. QED
  BY <1>1, <1>2 DEF Clean

\* Where there is a delimiter there is a first one.
LEMMA NoDelimiter ==
  ASSUME NEW s \in Seq(Bytes), Delimiter(s) = {}
  PROVE  Clean(s)
<1> SUFFICES ASSUME NEW d \in DOMAIN s, sent[s[d]] PROVE FALSE
  BY DEF Clean
<1> DEFINE I == {k \in DOMAIN s : sent[s[k]]}
<1>1. I \in SUBSET Nat /\ I # {}
  OBVIOUS
<1>2. PICK x \in I : \A y \in I : ~(<<y, x>> \in OpToRel(<, Nat))
  BY <1>1, NatLessThanWellFounded, WFMin
<1>3. ASSUME NEW y \in I, y < x PROVE FALSE
  <2>1. <<y, x>> \in {ss \in Nat \X Nat : ss[1] < ss[2]}
    BY <1>1, <1>3
  <2>2. QED
    BY <1>2, <2>1 DEF OpToRel
<1>4. \A j \in 1..(x - 1) : j \in DOMAIN s /\ j < x
  BY <1>1
<1>5. x \in Delimiter(s)
  BY <1>3, <1>4 DEF Delimiter
<1>6. QED
  BY <1>5

\* The rest without its first byte, the delimiter.
LEMMA RestTail ==
  ASSUME NEW s \in Seq(Bytes), s # <<>>, NEW p \in Nat, Run(s, p)
  PROVE  /\ Tail(s) \in Seq(Bytes) /\ Len(Tail(s)) = Len(s) - 1
         /\ Len(s) \in Nat \ {0} /\ Run(Tail(s), p + 1) /\ s[1] = p + 1
<1>1. /\ Tail(s) \in Seq(Bytes) /\ Len(Tail(s)) = Len(s) - 1
      /\ Len(s) \in Nat \ {0} /\ 1 \in DOMAIN s
      /\ \A k \in 1..(Len(s) - 1) : Tail(s)[k] = s[k + 1]
  OBVIOUS
<1>2. \A k \in 1..(Len(s) - 1) : k + 1 \in DOMAIN s /\ k \in Nat
  BY <1>1
<1>3. \A k \in DOMAIN Tail(s) : Tail(s)[k] = p + 1 + k
  BY <1>1, <1>2 DEF Run
<1>4. QED
  BY <1>1, <1>3 DEF Run

\* What has been read keeps its delimiters when the peer sends more.
LEMMA SendKeeps ==
  ASSUME BytesInv, NEW delimiter \in BOOLEAN, sent' = Append(sent, delimiter)
  PROVE  /\ sent' \in Seq(BOOLEAN) /\ Len(sent') = Len(sent) + 1
         /\ \A k \in 1..taken : sent'[k] = sent[k]
  BY DEF BytesInv

-----------------------------------------------------------------------------
(* The invariant.                                                          *)

\* Initially nothing is held.
LEMMA StreamInit == Init => StreamInv
<1> SUFFICES ASSUME Init PROVE StreamInv
  OBVIOUS
<1>1. FlagInv
  BY DEF Init, FlagInv
<1>2. BytesInv
  BY CapAssumption DEF Init, BytesInv
<1>3. HeldInv
  BY DEF Init, HeldInv, Run
<1>4. QED
  BY <1>1, <1>2, <1>3 DEF StreamInv

\* A clean piece before a delimiter that is handed out is the next line.
LEMMA SplitIs ==
  ASSUME Len(sent) \in Nat, UNCHANGED sent, NEW p \in Nat,
         NEW l \in Seq(Bytes), Run(l, p), Clean(l), line' = l,
         p + Len(l) + 1 <= Len(sent), sent[p + Len(l) + 1],
         Pos = p, Pos' = p + Len(l) + 1
  PROVE  S!SSplit
<1> DEFINE n == p + Len(l) + 1
<1>0. Len(l) \in Nat /\ DOMAIN l = 1..Len(l)
  OBVIOUS
<1>1. n \in (p + 1)..Len(sent) /\ n - p - 1 = Len(l)
  BY <1>0
<1>2. ASSUME NEW k \in (p + 1)..(n - 1) PROVE ~sent[k]
  <2>1. k - p \in 1..Len(l) /\ p + (k - p) = k
    BY <1>0
  <2>2. l[k - p] = k
    BY <1>0, <2>1 DEF Run
  <2>3. QED
    BY <1>0, <2>1, <2>2 DEF Clean
<1>3. l = [k \in 1..Len(l) |-> p + k]
  <2>1. l = [k \in 1..Len(l) |-> l[k]]
    BY <1>0
  <2>2. \A k \in 1..Len(l) : l[k] = p + k
    BY <1>0 DEF Run
  <2>3. QED
    BY <2>1, <2>2
<1>4. Pos' = n /\ sent[n]
  OBVIOUS
<1> HIDE DEF n
<1>5. /\ n \in (Pos + 1)..Len(sent) /\ sent[n]
      /\ \A k \in (Pos + 1)..(n - 1) : ~sent[k]
      /\ line' = [k \in 1..(n - Pos - 1) |-> Pos + k]
  BY <1>1, <1>2, <1>3, <1>4
<1>6. QED
  BY <1>4, <1>5 DEF S!SSplit

\* The steps of rx_thread that move bytes, and what each does to the place
\* of the next line and to the line.
LEMMA TakeLineStep ==
  ASSUME StreamInv, TakeLine
  PROVE  /\ BytesInv' /\ HeldInv'
         /\ S!SSplit
<1> USE DEF StreamInv
<1>1. PICK i \in Delimiter(buff) :
        /\ HandOut(Before(buff, i), FALSE) /\ buff' = After(buff, i)
  BY DEF TakeLine, BufferedLine
<1>2. /\ UNCHANGED <<sent, taken, outbuff, rest>> /\ rx = "search"
      /\ line' = Before(buff, i) /\ rx' = "loop"
  BY <1>1 DEF TakeLine, HandOut, Goto, peer
<1>3. /\ buff \in Seq(Bytes) /\ outbuff = <<>> /\ rest = <<>>
      /\ Len(buff) \in Nat /\ Len(buff) <= taken /\ taken \in Nat
      /\ Run(buff, taken - Len(buff)) /\ Len(sent) \in Nat /\ taken <= Len(sent)
  BY <1>2 DEF BytesInv, HeldInv
<1> DEFINE p == taken - Len(buff)
<1>4. p \in Nat /\ i \in DOMAIN buff /\ sent[buff[i]] /\ Clean(Before(buff, i))
  BY <1>3, FirstDelimiter
<1>5. /\ i \in Nat \ {0} /\ i <= Len(buff)
      /\ Before(buff, i) \in Seq(Bytes) /\ Len(Before(buff, i)) = i - 1
      /\ Run(Before(buff, i), p)
      /\ After(buff, i) \in Seq(Bytes) /\ Len(After(buff, i)) = Len(buff) - i
      /\ Run(After(buff, i), p + i)
  <2> HIDE DEF p
  <2>1. Run(buff, p)
    BY <1>3 DEF p
  <2>2. QED
    BY <1>3, <1>4, <2>1, Cut
<1>6. BytesInv'
  BY <1>1, <1>2, <1>5 DEF BytesInv
<1>7. HeldInv'
  <2>1. /\ Len(buff') <= taken' /\ taken' - Len(buff') = p + i
    BY <1>1, <1>2, <1>3, <1>5
  <2>2. Run(buff', taken' - Len(buff'))
    BY <1>1, <1>5, <2>1
  <2>3. QED
    BY <1>2, <1>3, <2>1, <2>2 DEF HeldInv
<1>8. Pos = p /\ Pos' = p + i
  BY <1>1, <1>2, <1>3, <1>5 DEF Pos
<1>9. S!SSplit
  <2>1. p + i <= Len(sent)
    BY <1>3, <1>5
  <2>2. buff[i] = p + i
    BY <1>3, <1>4 DEF Run
  <2> HIDE DEF p
  <2>3. p + Len(Before(buff, i)) + 1 = p + i
    BY <1>4, <1>5
  <2>4. QED
    BY <1>2, <1>3, <1>4, <1>5, <1>8, <2>1, <2>2, <2>3, SplitIs
<1>10. QED
  BY <1>6, <1>7, <1>9

\* A line that was read ends at the delimiter that is dropped.
LEMMA KeepRestStep ==
  ASSUME StreamInv, KeepRest
  PROVE  /\ BytesInv' /\ HeldInv' /\ undefined' = FALSE
         /\ S!SSplit
<1> USE DEF StreamInv
<1>1. /\ UNCHANGED <<sent, taken>> /\ rx = "keep" /\ rx' = "loop"
      /\ buff' = Tail(rest) /\ rest' = <<>> /\ outbuff' = <<>>
      /\ line' = outbuff /\ undefined' = ~Fits(Tail(rest))
  BY DEF KeepRest, HandOut, Goto, peer
<1>2. /\ rest \in Seq(Bytes) /\ outbuff \in Seq(Bytes)
      /\ taken \in Nat /\ Len(sent) \in Nat /\ taken <= Len(sent)
      /\ Len(outbuff) \in Nat /\ Len(rest) \in Nat
  BY DEF BytesInv
<1>3. /\ buff = <<>> /\ rest # <<>> /\ Len(rest) <= BuffCap
      /\ Len(outbuff) + Len(rest) <= taken
      /\ Run(outbuff, taken - Len(rest) - Len(outbuff)) /\ Clean(outbuff)
      /\ Run(rest, taken - Len(rest)) /\ sent[rest[1]]
  BY <1>1 DEF HeldInv
<1>4. taken - Len(rest) \in Nat
  BY <1>2, <1>3
<1>5. /\ Tail(rest) \in Seq(Bytes) /\ Len(Tail(rest)) = Len(rest) - 1
      /\ Len(rest) \in Nat \ {0} /\ Run(Tail(rest), taken - Len(rest) + 1)
      /\ rest[1] = taken - Len(rest) + 1
  BY <1>2, <1>3, <1>4, RestTail
<1>6. BytesInv'
  BY <1>1, <1>2, <1>5 DEF BytesInv
<1>7. HeldInv'
  <2>1. /\ Len(buff') <= taken'
        /\ taken' - Len(buff') = taken - Len(rest) + 1
    BY <1>1, <1>2, <1>3, <1>5
  <2>2. Run(buff', taken' - Len(buff'))
    BY <1>1, <1>5, <2>1
  <2>3. QED
    BY <1>1, <2>1, <2>2 DEF HeldInv
<1>8. undefined' = FALSE
  <2>1. Len(Tail(rest)) <= BuffCap
    BY <1>3, <1>5, CapAssumption
  <2>2. QED
    BY <1>1, <2>1 DEF Fits
<1> DEFINE p == taken - Len(rest) - Len(outbuff)
<1>9. S!SSplit
  <2>1. p \in Nat /\ p + Len(outbuff) + 1 = taken - Len(rest) + 1
    BY <1>2, <1>3
  <2>2. Pos = p /\ Pos' = p + Len(outbuff) + 1
    BY <1>1, <1>2, <1>3, <1>5 DEF Pos
  <2>3. p + Len(outbuff) + 1 <= Len(sent) /\ sent[p + Len(outbuff) + 1]
    BY <1>2, <1>3, <1>5, <2>1
  <2>4. Run(outbuff, p)
    BY <1>3
  <2> HIDE DEF p
  <2>5. QED
    BY <1>1, <1>2, <1>3, <2>1, <2>2, <2>3, <2>4, SplitIs
<1>10. QED
  BY <1>6, <1>7, <1>8, <1>9

\* What is in the buffer begins the line.
LEMMA TakeBufferStep ==
  ASSUME StreamInv, TakeBuffer
  PROVE  BytesInv' /\ HeldInv' /\ Pos' = Pos
<1> USE DEF StreamInv
<1>1. /\ UNCHANGED <<sent, taken, line, rest>> /\ rx = "search" /\ rx' = "read"
      /\ outbuff' = buff /\ buff' = <<>> /\ Delimiter(buff) = {}
  BY DEF TakeBuffer, Goto, peer, handed, BufferedLine, Emptied
<1>2. /\ outbuff = <<>> /\ rest = <<>> /\ Len(buff) <= taken
      /\ Run(buff, taken - Len(buff))
      /\ buff \in Seq(Bytes) /\ Len(buff) \in Nat /\ taken \in Nat
  BY <1>1 DEF HeldInv, BytesInv
<1>3. BytesInv'
  BY <1>1 DEF BytesInv
<1>4. Clean(buff)
  BY <1>1, <1>2, NoDelimiter
<1>5. HeldInv'
  BY <1>1, <1>2, <1>4 DEF HeldInv, Run, Clean
<1>6. Pos' = Pos
  BY <1>1, <1>2 DEF Pos
<1>7. QED
  BY <1>3, <1>5, <1>6

\* What read() returns goes on with the line, up to a delimiter.
LEMMA ReadStep ==
  ASSUME StreamInv, NEW n \in 1..BuffCap, ReadBytes(n)
  PROVE  BytesInv' /\ HeldInv' /\ Pos' = Pos
<1> USE DEF StreamInv
<1> DEFINE r == Chunk(n)
<1>1. /\ UNCHANGED <<sent, line, buff>> /\ rx = "read"
      /\ taken + n <= Len(sent) /\ taken' = taken + n
  BY DEF ReadBytes, peer, handed
<1>2. /\ buff = <<>> /\ rest = <<>>
      /\ outbuff \in Seq(Bytes) /\ Len(outbuff) <= taken
      /\ Run(outbuff, taken - Len(outbuff)) /\ Clean(outbuff)
      /\ Len(outbuff) \in Nat /\ Len(sent) \in Nat
  BY <1>1 DEF HeldInv, BytesInv
<1>3. /\ r \in Seq(Bytes) /\ Len(r) = n /\ DOMAIN r = 1..n /\ Run(r, taken)
      /\ n \in Nat \ {0} /\ n <= BuffCap /\ taken \in Nat
  BY <1>1, ChunkIs
<1>4. \/ /\ Delimiter(r) = {} /\ outbuff' = outbuff \o r
         /\ UNCHANGED <<rest, rx>>
      \/ \E i \in Delimiter(r) :
           /\ outbuff' = outbuff \o Before(r, i)
           /\ rest' = SubSeq(r, i, Len(r)) /\ rx' = "keep"
  BY <1>3 DEF ReadBytes, Goto
<1> HIDE DEF r
<1> DEFINE p == taken - Len(outbuff)
<1>5. p \in Nat /\ p + Len(outbuff) = taken
  BY <1>2, <1>3
<1>6. CASE Delimiter(r) = {} /\ outbuff' = outbuff \o r
           /\ UNCHANGED <<rest, rx>>
  <2>1. Clean(r)
    BY <1>3, <1>6, NoDelimiter
  <2>2. /\ outbuff' \in Seq(Bytes) /\ Len(outbuff') = Len(outbuff) + n
        /\ Run(outbuff', p) /\ Clean(outbuff')
    <3>1. Run(outbuff, p) /\ Run(r, p + Len(outbuff))
      BY <1>2, <1>3, <1>5
    <3> HIDE DEF p
    <3>2. QED
      BY <1>2, <1>3, <1>5, <1>6, <2>1, <3>1, Join
  <2>3. BytesInv'
    BY <1>1, <1>2, <1>3, <1>6, <2>2 DEF BytesInv
  <2>4. Len(outbuff') <= taken' /\ taken' - Len(outbuff') = p
    BY <1>1, <1>2, <1>3, <2>2
  <2>5. HeldInv'
    <3>1. Run(outbuff', taken' - Len(outbuff'))
      BY <2>2, <2>4
    <3>2. Clean(outbuff') /\ sent' = sent
      BY <1>1, <2>2
    <3>3. QED
      BY <1>1, <1>2, <1>6, <2>4, <3>1, <3>2 DEF HeldInv, Clean
  <2>6. Pos' = Pos
    BY <1>1, <1>2, <1>3, <1>6, <2>2 DEF Pos
  <2>7. QED
    BY <2>3, <2>5, <2>6
<1>7. ASSUME NEW i \in Delimiter(r), outbuff' = outbuff \o Before(r, i),
             rest' = SubSeq(r, i, Len(r)), rx' = "keep"
      PROVE  BytesInv' /\ HeldInv' /\ Pos' = Pos
  <2>1. i \in DOMAIN r /\ sent[r[i]] /\ Clean(Before(r, i))
    BY <1>3, FirstDelimiter
  <2>2. /\ i \in Nat \ {0} /\ i <= n
        /\ Before(r, i) \in Seq(Bytes) /\ Len(Before(r, i)) = i - 1
        /\ Run(Before(r, i), taken)
        /\ rest' \in Seq(Bytes) /\ Len(rest') = n - i + 1
        /\ Run(rest', taken + i - 1)
    BY <1>3, <1>7, <2>1, Cut
  <2>3. /\ outbuff' \in Seq(Bytes) /\ Len(outbuff') = Len(outbuff) + (i - 1)
        /\ Run(outbuff', p) /\ Clean(outbuff')
    <3>1. Run(outbuff, p) /\ Run(Before(r, i), p + Len(outbuff))
      BY <1>2, <1>5, <2>2
    <3> HIDE DEF p
    <3>2. QED
      BY <1>2, <1>5, <1>7, <2>1, <2>2, <3>1, Join
  <2>4. BytesInv'
    BY <1>1, <1>2, <1>3, <2>2, <2>3 DEF BytesInv
  <2>5. rest' # <<>> /\ rest'[1] = r[i]
    <3>1. i \in 1..Len(r) /\ Len(r) \in Nat
      BY <1>3, <2>1
    <3>2. Len(SubSeq(r, i, Len(r))) = Len(r) - i + 1
          /\ SubSeq(r, i, Len(r))[1] = r[i]
      BY <1>3, <3>1
    <3>3. Len(rest') # 0
      BY <2>2
    <3>4. QED
      BY <1>7, <3>2, <3>3
  <2>6. /\ taken' - Len(rest') = taken + i - 1
        /\ taken' - Len(rest') - Len(outbuff') = p
        /\ Len(outbuff') + Len(rest') <= taken' /\ Len(rest') <= BuffCap
    BY <1>1, <1>2, <1>3, <1>5, <2>2, <2>3, CapAssumption
  <2>7. HeldInv'
    <3>1. /\ Run(outbuff', taken' - Len(rest') - Len(outbuff'))
          /\ Run(rest', taken' - Len(rest'))
      BY <2>2, <2>3, <2>6
    <3>2. Clean(outbuff') /\ sent'[rest'[1]] /\ sent' = sent
      BY <1>1, <2>1, <2>3, <2>5
    <3>3. QED
      BY <1>1, <1>2, <1>7, <2>5, <2>6, <3>1, <3>2 DEF HeldInv, Clean
  <2>8. Pos' = Pos
    BY <1>1, <1>2, <1>3, <2>2, <2>3 DEF Pos
  <2>9. QED
    BY <2>4, <2>7, <2>8
<1>8. QED
  BY <1>4, <1>6, <1>7

\* The peer sends one more byte.
LEMMA SendStep ==
  ASSUME StreamInv, NEW delimiter \in BOOLEAN, Send(delimiter)
  PROVE  BytesInv' /\ HeldInv' /\ S!SSend
<1> USE DEF StreamInv
<1>1. /\ sent' = Append(sent, delimiter) /\ Len(sent) < MaxBytes
      /\ UNCHANGED <<line, taken, buff, outbuff, rest, rx>>
  BY DEF Send
<1>2. /\ sent' \in Seq(BOOLEAN) /\ Len(sent') = Len(sent) + 1
      /\ \A k \in 1..taken : sent'[k] = sent[k]
  BY <1>1, SendKeeps
<1>3. taken \in Nat /\ Len(sent) \in Nat /\ taken <= Len(sent)
  BY DEF BytesInv
<1>4. BytesInv'
  BY <1>1, <1>2, <1>3, CapAssumption DEF BytesInv
<1>5. ASSUME rx \in {"read", "keep"} PROVE Clean(outbuff)'
  <2>1. outbuff \in Seq(Bytes) /\ Clean(outbuff)
    BY <1>5 DEF BytesInv, HeldInv
  <2>2. \A k \in DOMAIN outbuff : outbuff[k] \in 1..taken
    <3>1. ASSUME NEW k \in DOMAIN outbuff PROVE outbuff[k] \in 1..taken
      <4>1. k \in Nat \ {0} /\ k <= Len(outbuff) /\ Len(outbuff) \in Nat
        BY <2>1
      <4>2. CASE rx = "read"
        BY <1>3, <4>1, <4>2 DEF HeldInv, Run
      <4>3. CASE rx = "keep"
        <5>1. Len(rest) \in Nat
          BY DEF BytesInv
        <5>2. QED
          BY <1>3, <4>1, <4>3, <5>1 DEF HeldInv, Run
      <4>4. QED
        BY <1>5, <4>2, <4>3
    <3>2. QED
      BY <3>1
  <2>3. QED
    BY <1>1, <1>2, <2>1, <2>2 DEF Clean
<1>6. ASSUME rx = "keep" PROVE sent'[rest'[1]]
  <2>1. rest \in Seq(Bytes) /\ rest # <<>> /\ sent[rest[1]]
        /\ Len(outbuff) + Len(rest) <= taken /\ Len(outbuff) \in Nat
        /\ Run(rest, taken - Len(rest))
    BY <1>6 DEF HeldInv, BytesInv
  <2>2. Len(rest) \in Nat \ {0} /\ 1 \in DOMAIN rest
    BY <2>1
  <2>3. rest[1] \in 1..taken
    BY <1>3, <2>1, <2>2 DEF Run
  <2>4. QED
    BY <1>1, <1>2, <2>1, <2>3
<1>7. HeldInv'
  BY <1>1, <1>5, <1>6 DEF HeldInv, Run
<1>8. S!SSend
  BY <1>1 DEF S!SSend, Pos
<1>9. QED
  BY <1>4, <1>7, <1>8

\* A step that moves no byte.
LEMMA NothingMoves ==
  ASSUME BytesInv, HeldInv, UNCHANGED <<sent, taken, line, buff, outbuff, rest>>,
         \/ UNCHANGED rx \/ rx' = "done" \/ (rx = "loop" /\ rx' = "search")
  PROVE  BytesInv' /\ HeldInv' /\ Pos' = Pos
<1>1. BytesInv' /\ Pos' = Pos
  BY DEF BytesInv, Pos
<1>2. HeldInv'
  BY DEF HeldInv, Run, Clean
<1>3. QED
  BY <1>1, <1>2

\* The flags.
LEMMA FlagStep ==
  ASSUME StreamInv, [Next]_vars
  PROVE  FlagInv'
<1> USE DEF StreamInv
<1>1. CASE KeepRest
  <2>1. undefined' = FALSE
    BY <1>1, KeepRestStep
  <2>2. QED
    BY <1>1, <2>1 DEF KeepRest, HandOut, Goto, FlagInv, killer, peer
<1>2. CASE Loop \/ ReadFails \/ NoMemory \/ SetKilled \/ Close
           \/ Unterminated \/ UNCHANGED vars
  <2>1. CASE Loop
    BY <2>1 DEF Loop, Goto, FlagInv, wrong, peer, killer, handed
  <2>2. CASE ReadFails \/ NoMemory
    <3>1. \E code \in {"TCP_STREAM_READE", "TCP_STREAM_NOMEM"} : Fail(code)
      BY <2>2 DEF ReadFails, NoMemory
    <3>2. QED
      BY <3>1 DEF Fail, Goto, FlagInv, wrong, peer, killer
  <2>3. CASE SetKilled
    BY <2>3 DEF SetKilled, FlagInv, wrong, peer, handed
  <2>4. CASE Close
    BY <2>4 DEF Close, FlagInv, wrong, killer
  <2>5. CASE UNCHANGED vars
    BY <2>5 DEF vars, FlagInv
  <2>6. CASE Unterminated
    BY <2>6 DEF Unterminated, FlagInv, wrong, killer, peer, handed
  <2>7. QED
    BY <1>2, <2>1, <2>2, <2>3, <2>4, <2>5, <2>6
<1>3. CASE TakeLine \/ TakeBuffer
  <2>1. buff' # <<>> => allocated' \/ destroyed'
    <3>1. CASE TakeBuffer
      BY <3>1 DEF TakeBuffer, Emptied
    <3>2. CASE TakeLine
      <4>1. buff # <<>>
        BY <3>2 DEF TakeLine, BufferedLine, Delimiter
      <4>2. QED
        BY <3>2, <4>1 DEF TakeLine, FlagInv, wrong, killer
    <3>3. QED
      BY <1>3, <3>1, <3>2
  <2>2. CASE TakeLine
    BY <2>1, <2>2 DEF TakeLine, HandOut, Goto, FlagInv, wrong, killer, peer
  <2>3. CASE TakeBuffer
    BY <2>1, <2>3 DEF TakeBuffer, Goto, FlagInv, wrong, killer, peer, handed
  <2>4. QED
    BY <1>3, <2>2, <2>3
<1>4. ASSUME NEW n \in 1..BuffCap, ReadBytes(n) PROVE FlagInv'
  BY <1>4 DEF ReadBytes, Goto, FlagInv, wrong, killer, peer, handed
<1>5. CASE Destroy
  BY <1>5 DEF Destroy, FlagInv, peer, handed
<1>6. ASSUME NEW delimiter \in BOOLEAN, Send(delimiter) PROVE FlagInv'
  BY <1>6 DEF Send, FlagInv, wrong, killer
<1>7. QED
  BY <1>1, <1>2, <1>3, <1>4, <1>5, <1>6 DEF Next, RxStep

\* Every step keeps the invariant, and cuts the next line, sends a byte or
\* changes nothing that Splitter speaks of.
LEMMA StreamStep ==
  StreamInv /\ [Next]_vars =>
    StreamInv' /\ [S!SSend \/ S!SSplit]_S!svars
<1> SUFFICES ASSUME StreamInv, [Next]_vars
             PROVE  BytesInv' /\ HeldInv' /\ [S!SSend \/ S!SSplit]_S!svars
  BY FlagStep DEF StreamInv
<1>0. BytesInv /\ HeldInv
  BY DEF StreamInv
<1>1. CASE TakeLine
  BY <1>1, TakeLineStep
<1>2. CASE KeepRest
  BY <1>2, KeepRestStep
<1>3. CASE TakeBuffer
  BY <1>3, TakeBufferStep DEF TakeBuffer, S!svars, peer, handed
<1>4. ASSUME NEW n \in 1..BuffCap, ReadBytes(n)
      PROVE  BytesInv' /\ HeldInv' /\ [S!SSend \/ S!SSplit]_S!svars
  BY <1>4, ReadStep DEF ReadBytes, S!svars, peer, handed
<1>5. ASSUME NEW delimiter \in BOOLEAN, Send(delimiter)
      PROVE  BytesInv' /\ HeldInv' /\ [S!SSend \/ S!SSplit]_S!svars
  BY <1>5, SendStep
<1>6. CASE Loop \/ ReadFails \/ NoMemory \/ SetKilled \/ Destroy \/ Close
           \/ Unterminated \/ UNCHANGED vars
  <2>1. /\ UNCHANGED <<sent, taken, line, buff, outbuff, rest>>
        /\ \/ UNCHANGED rx \/ rx' = "done"
           \/ (rx = "loop" /\ rx' = "search")
    BY <1>6 DEF Loop, ReadFails, NoMemory, Fail, SetKilled, Destroy, Close,
       Unterminated, Goto, vars, peer, handed
  <2>2. BytesInv' /\ HeldInv' /\ Pos' = Pos
    BY <1>0, <2>1, NothingMoves
  <2>3. QED
    BY <2>1, <2>2 DEF S!svars
<1>7. QED
  BY <1>1, <1>2, <1>3, <1>4, <1>5, <1>6 DEF Next, RxStep

-----------------------------------------------------------------------------
(* Theorems.                                                               *)

\* Type correctness: what is held are bytes that were sent, and a buffer that
\* is not allocated is empty until terminate() has freed it.
THEOREM StreamTypeCorrect == Spec => []TypeOK
<1>1. StreamInv => TypeOK
  BY DEF StreamInv, FlagInv, BytesInv, TypeOK
<1>2. StreamInv /\ [Next]_vars => StreamInv'
  BY StreamStep
<1>3. QED
  BY <1>1, <1>2, StreamInit, PTL DEF Spec

\* For every size of the buffer, what read() returned after a delimiter fits
\* in the buffer that is kept: memory is misused only where terminate() frees
\* it under rx_thread, or where the last realloc of a line fails.
THEOREM MemoryUsedAsAllocated == Spec => []UsedAsAllocated
<1>1. StreamInv => UsedAsAllocated
  BY DEF StreamInv, FlagInv, UsedAsAllocated
<1>2. StreamInv /\ [Next]_vars => StreamInv'
  BY StreamStep
<1>3. QED
  BY <1>1, <1>2, StreamInit, PTL DEF Spec

\* For every size of the buffer, every number of bytes and every cut of them
\* into reads, rx_thread waits for more only if no finished line is there.
THEOREM FinishedLinesAreOut == Spec => []NothingHeldBack
<1>1. ASSUME StreamInv, rx = "read", NEW n \in (Pos + 1)..taken
      PROVE  ~sent[n]
  <2>1. /\ Len(buff) = 0 /\ Len(rest) = 0 /\ Len(outbuff) \in Nat
        /\ taken \in Nat /\ Len(outbuff) <= taken
    BY <1>1 DEF StreamInv, BytesInv, HeldInv
  <2>2. Pos = taken - Len(outbuff) /\ Pos \in Nat
    BY <2>1 DEF Pos
  <2>3. n - Pos \in 1..Len(outbuff)
    BY <2>1, <2>2
  <2>4. n - Pos \in DOMAIN outbuff
    BY <2>3 DEF StreamInv, BytesInv
  <2>5. outbuff[n - Pos] = Pos + (n - Pos) /\ ~sent[outbuff[n - Pos]]
    BY <1>1, <2>2, <2>4 DEF StreamInv, HeldInv, Run, Clean
  <2>6. Pos + (n - Pos) = n
    BY <2>1, <2>2
  <2>7. QED
    BY <2>5, <2>6
<1>2. StreamInv => NothingHeldBack
  BY <1>1 DEF NothingHeldBack
<1>3. StreamInv /\ [Next]_vars => StreamInv'
  BY StreamStep
<1>4. QED
  BY <1>2, <1>3, StreamInit, PTL DEF Spec

\* For every size of the buffer, every number of bytes and every cut of them
\* into reads, tcp_stream_readuntil implements Splitter: no byte is lost,
\* doubled or moved to another line.
THEOREM StreamImplementsSplitter == Spec => SplitsLines
<1>1. Init => S!SInit
  <2>1. ASSUME Init PROVE Pos = 0
    <3>1. taken = 0 /\ Len(buff) = 0 /\ Len(outbuff) = 0 /\ Len(rest) = 0
      BY <2>1 DEF Init
    <3>2. QED
      BY <3>1 DEF Pos
  <2>2. QED
    BY <2>1 DEF Init, S!SInit
<1>2. StreamInv /\ [Next]_vars =>
        StreamInv' /\ [S!SSend \/ S!SSplit]_S!svars
  BY StreamStep
<1>3. QED
  BY <1>1, <1>2, StreamInit, PTL DEF Spec, SplitsLines, S!SSpec
=============================================================================
