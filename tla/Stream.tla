------------------------------- MODULE Stream -------------------------------
(***************************************************************************)
(* tcp_stream_readuntil and the loop of rx_thread that calls it, against a *)
(* peer that sends bytes and another thread that calls terminate().        *)
(*                                                                         *)
(* A byte is its place in what the peer sent, so that a byte lost, doubled *)
(* or out of place shows. sent and line are as in Splitter. What follows a *)
(* misuse of memory, or of another connection's descriptor, is undefined,  *)
(* and the model stops there.                                              *)
(***************************************************************************)
EXTENDS Naturals, Sequences

CONSTANTS
  BuffCap,    \* TCP_STREAM_BUFF_CAP
  MaxBytes    \* bound: the bytes the peer sends

ASSUME CapAssumption == BuffCap \in Nat \ {0} /\ MaxBytes \in Nat

VARIABLES
  sent, line,
  peer_closed,    \* the peer will send no more
  taken,          \* bytes read() has returned
  buff,           \* stream->buff, its first buff_len bytes
  allocated,      \* stream->buff is not NULL
  outbuff, rest,  \* the line so far, and the last read from the delimiter on
  null_line,      \* the last line was handed out as NULL
  rx,             \* where rx_thread is
  result,         \* the last result of tcp_stream_readuntil
  is_killed, destroyed,  \* terminate() has set its flag, closed the socket
  unterminated,   \* there was no memory for the terminator of a line
  undefined

vars == <<sent, line, peer_closed, taken, buff, allocated, outbuff, rest,
          null_line, rx, result, is_killed, destroyed, unterminated,
          undefined>>

Bytes == 1..MaxBytes

TypeOK ==
  /\ sent \in Seq(BOOLEAN) /\ taken \in 0..Len(sent)
  /\ \A s \in {line, buff, outbuff, rest} : s \in Seq(Bytes)
  /\ rx \in {"loop", "search", "read", "keep", "done"}
  /\ result \in {"TCP_STREAM_OK", "TCP_STREAM_READE", "TCP_STREAM_NOMEM"}
  /\ \A b \in {peer_closed, allocated, null_line, is_killed, destroyed,
               unterminated, undefined} : b \in BOOLEAN
  /\ buff # <<>> => allocated \/ destroyed   \* buff_len > 0

\* As tcp_listener_accept leaves the stream.
Init ==
  /\ sent = <<>> /\ line = <<>> /\ peer_closed = FALSE /\ taken = 0
  /\ buff = <<>> /\ allocated = TRUE /\ outbuff = <<>> /\ rest = <<>>
  /\ null_line = FALSE /\ rx = "loop" /\ result = "TCP_STREAM_OK"
  /\ is_killed = FALSE /\ destroyed = FALSE
  /\ unterminated = FALSE /\ undefined = FALSE

Goto(l) == rx' = l

\* The places of the first delimiter in s: one or none.
Delimiter(s) ==
  {i \in DOMAIN s : sent[s[i]] /\ \A j \in 1..(i - 1) : ~sent[s[j]]}

\* Mutant: the delimiter is kept with what follows it.
AndAfter(s, i) == SubSeq(s, i, Len(s))

Before(s, i) == SubSeq(s, 1, i - 1)
After(s, i)  == SubSeq(s, i + 1, Len(s))

HandOut(l, null) ==
  /\ line' = l /\ null_line' = null
  /\ result' = "TCP_STREAM_OK" /\ Goto("loop")

peer   == <<sent, peer_closed>>
killer == <<is_killed, destroyed>>
handed == <<line, null_line, result>>
wrong  == <<unterminated, undefined>>

-----------------------------------------------------------------------------
(* rx_thread.                                                              *)

\* while (!m_is_killed).
Loop ==
  /\ rx = "loop"
  /\ Goto(IF is_killed THEN "done" ELSE "search")
  /\ UNCHANGED <<peer, taken, buff, allocated, outbuff, rest, handed, killer,
                 wrong>>

\* Mutant: a line that is already in the buffer is not looked for.
NeverBuffered == {}

BufferedLine == Delimiter(buff)

\* A line in the buffer is copied out, and the buffer moved up; an empty one
\* is an empty string.
TakeLine ==
  /\ rx = "search"
  /\ \E i \in BufferedLine :
       /\ HandOut(Before(buff, i), FALSE)
       /\ buff' = After(buff, i)
  /\ UNCHANGED <<peer, taken, allocated, outbuff, rest, killer, wrong>>

\* Mutant: buff_len is not reset.
LengthKept == buff

Emptied == <<>>

\* There is none: the buffer becomes the beginning of the line.
TakeBuffer ==
  /\ rx = "search" /\ BufferedLine = {}
  /\ outbuff' = buff
  /\ buff' = Emptied /\ allocated' = FALSE
  /\ Goto("read")
  /\ UNCHANGED <<peer, taken, rest, handed, killer, wrong>>

Chunk(n) == [k \in 1..n |-> taken + k]

\* read() returns the next n bytes.
ReadBytes(n) ==
  /\ rx = "read" /\ ~destroyed /\ taken + n <= Len(sent)
  /\ taken' = taken + n
  /\ \/ /\ Delimiter(Chunk(n)) = {}
        /\ outbuff' = outbuff \o Chunk(n)
        /\ UNCHANGED <<rest, rx>>
     \/ \E i \in Delimiter(Chunk(n)) :
          /\ outbuff' = outbuff \o Before(Chunk(n), i)
          /\ rest' = SubSeq(Chunk(n), i, n)
          /\ Goto("keep")
  /\ UNCHANGED <<peer, buff, allocated, handed, killer, wrong>>

\* Mutant: the new buffer is allocated too small.
HardlyFits(s) == Len(s) < BuffCap - 1

Fits(s) == Len(s) <= BuffCap

\* What follows the delimiter is kept in a new buffer; an empty line is NULL.
KeepRest ==
  /\ rx = "keep"
  /\ buff' = Tail(rest) /\ allocated' = TRUE /\ rest' = <<>>
  /\ outbuff' = <<>>
  /\ HandOut(outbuff, outbuff = <<>>)
  /\ undefined' = ~Fits(Tail(rest))
  /\ UNCHANGED <<peer, taken, killer, unterminated>>

\* The line's own memory, which read() filled, is made to fit, and no memory
\* for that goes unnoticed: the terminator is written through NULL.
Unterminated ==
  /\ rx = "keep" /\ outbuff # <<>>
  /\ unterminated' = TRUE /\ undefined' = TRUE
  /\ UNCHANGED <<peer, taken, buff, allocated, outbuff, rest, handed, rx,
                 killer>>

Fail(code) ==
  /\ Goto("done") /\ result' = code
  /\ UNCHANGED <<peer, taken, buff, allocated, outbuff, rest, line, null_line,
                 killer, wrong>>

\* read() returns 0 or less: what there is of a line is dropped.
ReadFails ==
  /\ rx = "read" /\ (destroyed \/ (peer_closed /\ taken = Len(sent)))
  /\ Fail("TCP_STREAM_READE")

\* Where memory is asked for: for a line found in the buffer, for what has
\* been read, and for the buffer that keeps what follows the delimiter.
CopiesLine   == rx = "search" /\ BufferedLine # {}
ExtendsLine  == rx = "read" /\ ~destroyed /\ taken < Len(sent)
AllocsBuffer == rx = "keep"

NoMemory ==
  /\ CopiesLine \/ ExtendsLine \/ AllocsBuffer
  /\ Fail("TCP_STREAM_NOMEM")

-----------------------------------------------------------------------------
(* Connection::terminate, called once by a thread of the server.           *)

SetKilled ==
  /\ ~is_killed /\ is_killed' = TRUE
  /\ UNCHANGED <<peer, taken, buff, allocated, outbuff, rest, handed, rx,
                 destroyed, wrong>>

\* tcp_stream_destroy. buff_len stays. rx may be about to search the buffer
\* that is freed here, in the middle of it, or filling it; or just past it.
\* Or it has sockfd in hand and enters read() when the number is another's.
Destroy ==
  /\ is_killed /\ ~destroyed /\ destroyed' = TRUE
  /\ allocated' = FALSE
  /\ undefined' \in IF rx \in {"search", "read", "keep"}
                   THEN BOOLEAN ELSE {FALSE}
  /\ UNCHANGED <<peer, taken, buff, outbuff, rest, handed, rx, is_killed,
                 unterminated>>

-----------------------------------------------------------------------------
(* The peer.                                                               *)

Send(delimiter) ==
  /\ ~peer_closed /\ Len(sent) < MaxBytes
  /\ sent' = Append(sent, delimiter)
  /\ UNCHANGED <<line, peer_closed, taken, buff, allocated, outbuff, rest,
                 null_line, rx, result, killer, wrong>>

Close ==
  /\ ~peer_closed /\ peer_closed' = TRUE
  /\ UNCHANGED <<sent, line, taken, buff, allocated, outbuff, rest, null_line,
                 rx, result, killer, wrong>>

RxStep ==
  /\ ~undefined
  /\ \/ Loop \/ TakeLine \/ TakeBuffer \/ KeepRest \/ Unterminated
     \/ ReadFails \/ NoMemory
     \/ \E n \in 1..BuffCap : ReadBytes(n)

Next ==
  \/ RxStep
  \/ ~undefined /\ (SetKilled \/ Destroy)
  \/ ~undefined /\ (Close \/ \E delimiter \in BOOLEAN : Send(delimiter))

Spec == Init /\ [][Next]_vars /\ WF_vars(RxStep)

-----------------------------------------------------------------------------
(* Properties.                                                             *)

\* The bytes that came out: those read and not held anywhere any more.
Pos == taken - (Len(buff) + Len(outbuff) + Len(rest))

S == INSTANCE Splitter WITH pos <- Pos

\* Whatever chunks read() returns, the lines handed out are the peer's bytes
\* cut at every newline.
SplitsLines == S!SSpec

\* Whatever the reads return, what follows a delimiter fits in the buffer
\* that is allocated for it: but for two causes memory is used as it was
\* allocated. The two are real: terminate() frees the buffer, and closes the
\* descriptor, that rx_thread may be using; and tcp_stream_readuntil does not
\* look whether the last realloc of a line succeeded.
UsedAsAllocated == undefined => destroyed \/ unterminated

\* rx_thread waits in read() for the rest of a line only: whatever else came
\* with the segments read so far, no line of which all bytes are there is held
\* back until the peer sends more.
NothingHeldBack == rx = "read" => \A n \in (Pos + 1)..taken : ~sent[n]

\* Under weak fairness of rx_thread, a line that the peer finished is handed
\* out, unless the connection is being closed or there is no memory.
LinesArrive ==
  \A n \in Bytes :
    (n <= Len(sent) /\ sent[n]) ~>
      (Pos >= n \/ is_killed \/ result = "TCP_STREAM_NOMEM" \/ unterminated)
=============================================================================
