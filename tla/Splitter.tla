------------------------------ MODULE Splitter ------------------------------
(***************************************************************************)
(* What tcp_stream_readuntil promises: the bytes of the peer come out cut  *)
(* at every delimiter, in order, whatever pieces the network delivers them *)
(* in. A byte is told from the others by its place in what the peer sent.  *)
(***************************************************************************)
EXTENDS Naturals, Sequences

VARIABLES
  sent,   \* what the peer sent: TRUE for a delimiter
  pos,    \* the bytes that came out, delimiters included
  line    \* the bytes of the last line that came out

svars == <<sent, pos, line>>

SInit == sent = <<>> /\ pos = 0 /\ line = <<>>

SSend == \E delimiter \in BOOLEAN :
           sent' = Append(sent, delimiter) /\ UNCHANGED <<pos, line>>

\* The next line ends at byte n.
SSplit ==
  \E n \in (pos + 1)..Len(sent) :
    /\ sent[n] /\ \A k \in (pos + 1)..(n - 1) : ~sent[k]
    /\ line' = [k \in 1..(n - pos - 1) |-> pos + k]
    /\ pos' = n
    /\ UNCHANGED sent

SSpec == SInit /\ [][SSend \/ SSplit]_svars
=============================================================================
