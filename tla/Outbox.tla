------------------------------- MODULE Outbox -------------------------------
(***************************************************************************)
(* What a Connection promises to the threads that call send(),             *)
(* send_strliteral() and send_message() on it (connection.hpp, @m_tx_queue:*)
(* "Provides efficient FIFO queuing for the transmission thread"):         *)
(* payloads reach the socket in the order in which they were queued, none  *)
(* skipped, none twice. One payload at a time is under way; once the       *)
(* socket has been closed none begins, though the one under way may end.   *)
(*                                                                         *)
(* Payloads are numbered in the order in which they are queued.            *)
(***************************************************************************)
EXTENDS Naturals, Sequences

VARIABLES
  queued,     \* number of payloads queued so far
  sent,       \* the payloads written to the socket, oldest first
  open,       \* the socket has not been closed by the server
  under_way   \* the payload after the last one sent is being written

ovars == <<queued, sent, open, under_way>>

OInit == queued = 0 /\ sent = <<>> /\ open = TRUE /\ under_way = FALSE

Queue ==
  /\ queued' = queued + 1
  /\ UNCHANGED <<sent, open, under_way>>

Begin ==
  /\ open /\ ~under_way
  /\ Len(sent) < queued
  /\ under_way' = TRUE
  /\ UNCHANGED <<queued, sent, open>>

Transmit ==
  /\ under_way /\ under_way' = FALSE
  /\ sent' = Append(sent, Len(sent) + 1)
  /\ UNCHANGED <<queued, open>>

Fail ==
  /\ under_way /\ under_way' = FALSE
  /\ UNCHANGED <<queued, sent, open>>

Close ==
  /\ open
  /\ open' = FALSE
  /\ UNCHANGED <<queued, sent, under_way>>

ONext == Queue \/ Begin \/ Transmit \/ Fail \/ Close

OSpec == OInit /\ [][ONext]_ovars
=============================================================================
