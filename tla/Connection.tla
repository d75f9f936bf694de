----------------------------- MODULE Connection -----------------------------
(***************************************************************************)
(* One client connection of chatd and every thread that touches it:        *)
(*                                                                         *)
(*   accept   Server::serve_forever -> ConnectionPool::push, then the      *)
(*            destructor of the pool when the server stops                 *)
(*   rx       Connection::rx_thread, reading lines and handling them       *)
(*   tx       Connection::tx_thread, draining the transmission queue       *)
(*   gc       the garbage collector thread of the ConnectionPool           *)
(*   Senders  rx threads of other connections that are inside              *)
(*            ConnectionPool::send_msg and deliver to this connection      *)
(*                                                                         *)
(* pc[t] is where thread t is; the labels name the call it is about to     *)
(* make. Mutexes hold the name of their owner. The ring buffer appears as  *)
(* the fields the threads race on: m_tx_queue.head and .tail as counts of  *)
(* payloads ever pushed and popped (module Ringbuffer says where wrapping  *)
(* and growing put them), .size and .cap as stored. push_payload() runs    *)
(* under m_tx_queue_m, but tx_thread pops after it has released that       *)
(* mutex: the two updates of .size may overlap, and a push may be moving   *)
(* the array tx reads. overlapped records that a push and a pop did.       *)
(*                                                                         *)
(* A payload is handed to the kernel by one send(); a message, which takes *)
(* several, may be cut short between them (module Message).                *)
(***************************************************************************)
EXTENDS Naturals, Sequences

CONSTANTS
  Senders,     \* threads of other connections that may deliver here
  QueueCap,    \* capacity of a new queue, and what growing adds (16 and 16)
  MaxCalls,    \* bound: calls its own rx thread makes on the connection
  MaxSends     \* bound: messages other connections have for it

ASSUME SendersAssumption ==
  Senders \cap {"accept", "rx", "tx", "gc", "none"} = {}
ASSUME BoundsAssumption ==
  MaxCalls \in Nat /\ MaxSends \in Nat /\ QueueCap \in Nat \ {0}

VARIABLES
  pc,             \* program counter of every thread
  m_is_ready, m_is_killed, m_is_gracefully_terminated,   \* the atomic flags
  m_is_running,   \* ConnectionPool::m_is_running
  m_conns,        \* this connection is in ConnectionPool::m_conns
  gc_terminated,  \* local of the collector: this is its last pass
  m_conns_m,      \* owner of the mutex of m_conns
  m_tx_queue_m,   \* owner of the mutex of the transmission queue
  head, tail, size, cap,   \* fields of the transmission queue
  loaded,         \* the value of size a thread loaded and has yet to store, or 0
  tx_item,        \* payload tx has popped and not yet written; 0 is garbage
  tx_initial, tx_terminated,   \* locals of tx_thread
  rx_call,        \* the call handle_payload is making, or last made, for a line
  sock,           \* m_stream.sockfd: "open", or "closed" (-1)
  closes,         \* how often the descriptor was closed
  peer,           \* the client: "up" or "closed"
  calls_left,     \* under the bound MaxCalls
  sends_left,     \* under the bound MaxSends
  sent,           \* payloads handed to the kernel, oldest first
  deleted,        \* ~Connection has run
  overlapped,     \* a push_front and a pop_back have run at the same time
  process         \* "up"; "aborted" by an exception nobody catches; or
                  \* "undefined", where the model says no more

flags  == <<m_is_ready, m_is_killed, m_is_gracefully_terminated>>
pool   == <<m_is_running, m_conns, m_conns_m, gc_terminated>>
queue  == <<head, tail, size, cap, loaded, m_tx_queue_m, overlapped>>
txvars == <<tx_item, tx_initial, tx_terminated>>
net    == <<sock, closes, peer>>
budget == <<calls_left, sends_left>>
hist   == <<sent, deleted, process>>
vars   == <<pc, flags, pool, queue, txvars, rx_call, net, budget, hist>>

Pushers == Senders \cup {"rx"}
Threads == Pushers \cup {"accept", "tx", "gc"}
Calls   == {"literal", "buff", "exit", "message"}

Labels ==
  {"construct", "set_ready", "insert", "serve", "join_gc",
   "unspawned", "wait_ready", "loop", "reading", "handle", "send",
   "lock_conns", "push", "grow", "store", "notify", "unlock_conns",
   "graceful", "graceful_notify", "lock", "waiting", "relock", "drain",
   "commit", "write", "enter", "sending", "blocked", "astray", "check", "kill",
   "destroy", "kill_notify", "idle", "before", "behind", "join_rx",
   "join_tx", "done"}

TypeOK ==
  /\ pc \in [Threads -> Labels]
  /\ m_is_ready \in BOOLEAN /\ m_is_killed \in BOOLEAN
  /\ m_is_gracefully_terminated \in BOOLEAN
  /\ m_is_running \in BOOLEAN /\ gc_terminated \in BOOLEAN
  /\ m_conns \in BOOLEAN
  /\ m_conns_m \in Pushers \cup {"gc", "none"}
  /\ m_tx_queue_m \in Pushers \cup {"none"}
  /\ head \in Nat /\ tail \in Nat /\ size \in Nat /\ cap \in Nat
  /\ loaded \in [Pushers \cup {"tx"} -> Nat]
  /\ tx_item \in Nat /\ tx_initial \in BOOLEAN /\ tx_terminated \in BOOLEAN
  /\ rx_call \in Calls
  /\ sock \in {"open", "closed"} /\ closes \in Nat
  /\ peer \in {"up", "closed"}
  /\ calls_left \in 0..MaxCalls /\ sends_left \in 0..MaxSends
  /\ sent \in Seq(Nat) /\ deleted \in BOOLEAN
  /\ overlapped \in BOOLEAN /\ process \in {"up", "aborted", "undefined"}

Init ==
  /\ pc = [t \in Threads |->
             CASE t = "accept" -> "construct"
               [] t \in {"rx", "tx"} -> "unspawned"
               [] OTHER -> "idle"]
  /\ m_is_ready = FALSE /\ m_is_killed = FALSE
  /\ m_is_gracefully_terminated = FALSE
  /\ m_is_running = TRUE /\ gc_terminated = FALSE
  /\ m_conns = FALSE /\ m_conns_m = "none"
  /\ m_tx_queue_m = "none"
  /\ head = 0 /\ tail = 0 /\ size = 0 /\ cap = QueueCap
  /\ loaded = [t \in Pushers \cup {"tx"} |-> 0]
  /\ tx_item = 0 /\ tx_initial = TRUE /\ tx_terminated = FALSE
  /\ rx_call = "literal"
  /\ sock = "open" /\ closes = 0 /\ peer = "up"
  /\ calls_left = MaxCalls /\ sends_left = MaxSends
  /\ sent = <<>> /\ deleted = FALSE
  /\ overlapped = FALSE /\ process = "up"

Goto(t, label) == pc' = [pc EXCEPT ![t] = label]

\* Thread t goes on to label after m_tx_queue_cv.notify_one(): only tx ever
\* waits on it, and a notification with nobody waiting is lost.
GotoNotifying(t, label) ==
  pc' = [[pc EXCEPT ![t] = label] EXCEPT !["tx"] =
           IF @ = "waiting" THEN "relock" ELSE @]

-----------------------------------------------------------------------------
(* ConnectionPool::push, in the accept thread, and ~ConnectionPool.        *)

\* new Connection; the welcome message is queued before the threads exist.
AcceptConstruct ==
  /\ pc["accept"] = "construct"
  /\ head' = head + 1 /\ size' = size + 1
  /\ pc' = [pc EXCEPT !["accept"] = "set_ready",
                      !["rx"] = "wait_ready", !["tx"] = "wait_ready"]
  /\ UNCHANGED <<flags, pool, tail, cap, loaded, m_tx_queue_m, overlapped,
                 txvars, rx_call, net, budget, hist>>

AcceptSetReady ==
  /\ pc["accept"] = "set_ready"
  /\ m_is_ready' = TRUE
  /\ Goto("accept", "insert")
  /\ UNCHANGED <<m_is_killed, m_is_gracefully_terminated, pool, queue,
                 txvars, rx_call, net, budget, hist>>

AcceptInsert ==
  /\ pc["accept"] = "insert"
  /\ m_conns_m = "none"
  /\ m_conns' = TRUE
  /\ Goto("accept", "serve")
  /\ UNCHANGED <<flags, m_is_running, gc_terminated, m_conns_m, queue,
                 txvars, rx_call, net, budget, hist>>

\* serve_forever() returns (accept failed, or the debug connection limit):
\* the pool goes out of scope.
AcceptStop ==
  /\ pc["accept"] = "serve"
  /\ m_is_running' = FALSE
  /\ Goto("accept", "join_gc")
  /\ UNCHANGED <<flags, gc_terminated, m_conns, m_conns_m, queue, txvars,
                 rx_call, net, budget, hist>>

AcceptJoinGc ==
  /\ pc["accept"] = "join_gc"
  /\ pc["gc"] = "done"
  /\ Goto("accept", "done")
  /\ UNCHANGED <<flags, pool, queue, txvars, rx_call, net, budget, hist>>

-----------------------------------------------------------------------------
(* Connection::push_payload, called by rx and by the senders.              *)

\* tx is inside pop_back; some push is inside push_front, or in its growth.
Popping == pc["tx"] = "commit"
Growing == \E t \in Pushers : pc[t] = "grow"
Pushing == Growing \/ \E t \in Pushers : pc[t] = "store"

\* A push that overlaps a pop goes wrong for good where it grows the array
\* under the pop, or where a size++ was lost and the slot at head is in use.
Corrupts == IF size = cap THEN Popping ELSE head = tail + cap

\* lock_guard; push_front sees a full array, or writes the slot and head and
\* has loaded size for size++.
PushLock(t) ==
  /\ pc[t] = "push"
  /\ m_tx_queue_m = "none"
  /\ m_tx_queue_m' = t
  /\ overlapped' = (overlapped \/ Popping)
  /\ process' = IF Corrupts THEN "undefined" ELSE process
  /\ IF size = cap
     THEN Goto(t, "grow") /\ UNCHANGED <<head, loaded>>
     ELSE /\ Goto(t, "store")
          /\ head' = head + 1
          /\ loaded' = [loaded EXCEPT ![t] = size]
  /\ UNCHANGED <<flags, pool, tail, size, cap, txvars, rx_call, net, budget,
                 sent, deleted>>

\* ringbuffer_expand has moved the array and its slots; push_front goes on.
PushGrow(t) ==
  /\ pc[t] = "grow"
  /\ cap' = cap + QueueCap
  /\ head' = head + 1
  /\ loaded' = [loaded EXCEPT ![t] = size]
  /\ Goto(t, "store")
  /\ UNCHANGED <<flags, pool, tail, size, m_tx_queue_m, overlapped, txvars,
                 rx_call, net, budget, hist>>

\* No memory for the payload (new) or the larger array (C_NOMEM): either is
\* thrown out of the thread's function, and the process ends.
PushNoMemory(t) ==
  /\ pc[t] \in {"push", "grow"}
  /\ process' = "aborted"
  /\ UNCHANGED <<pc, flags, pool, queue, txvars, rx_call, net, budget, sent,
                 deleted>>

\* What size++ and size-- leave in memory: an update of the value loaded,
\* which the other's store may have made stale.
Incremented(t) == loaded[t] + 1
Decremented    == loaded["tx"] - 1

PushStore(t) ==
  /\ pc[t] = "store"
  /\ size' = Incremented(t)
  /\ loaded' = [loaded EXCEPT ![t] = 0]
  /\ m_tx_queue_m' = "none"
  /\ Goto(t, "notify")
  /\ UNCHANGED <<flags, pool, head, tail, cap, overlapped, txvars, rx_call,
                 net, budget, hist>>

\* Where a pusher goes after notify_one().
AfterPush(t) ==
  IF t # "rx" THEN "unlock_conns"
  ELSE CASE rx_call = "exit"    -> "graceful"
         [] rx_call = "message" -> "unlock_conns"
         [] OTHER               -> "handle"

PushNotify(t) ==
  /\ pc[t] = "notify"
  /\ GotoNotifying(t, AfterPush(t))
  /\ UNCHANGED <<flags, pool, queue, txvars, rx_call, net, budget, hist>>

\* ConnectionPool::send_msg has the list: it delivers if this connection is
\* there and its user is the recipient (who may be the sender).
SendMsg(t) ==
  /\ pc[t] = "lock_conns"
  /\ m_conns_m = "none"
  /\ m_conns_m' = t
  /\ \/ m_conns /\ Goto(t, "push")
     \/ Goto(t, "unlock_conns")
  /\ UNCHANGED <<flags, m_is_running, gc_terminated, m_conns, queue, txvars,
                 rx_call, net, budget, hist>>

\* The guard of send_msg goes out of scope.
UnlockConns(t) ==
  /\ pc[t] = "unlock_conns"
  /\ m_conns_m' = "none"
  /\ Goto(t, IF t = "rx" THEN "handle" ELSE "idle")
  /\ UNCHANGED <<flags, m_is_running, gc_terminated, m_conns, queue, txvars,
                 rx_call, net, budget, hist>>

Push(t) == \/ PushLock(t) \/ PushGrow(t) \/ PushNoMemory(t) \/ PushStore(t)
           \/ PushNotify(t) \/ SendMsg(t) \/ UnlockConns(t)

-----------------------------------------------------------------------------
(* The rx threads of other connections.                                    *)

\* One has a message for somebody: send_msg. The last pass of the collector
\* has joined them all.
SenderCalls(s) ==
  /\ pc[s] = "idle" /\ pc["gc"] # "done"
  /\ sends_left > 0 /\ sends_left' = sends_left - 1
  /\ Goto(s, "lock_conns")
  /\ UNCHANGED <<flags, pool, queue, txvars, rx_call, net, calls_left, hist>>

-----------------------------------------------------------------------------
(* Connection::rx_thread.                                                  *)

RxWaitReady ==
  /\ pc["rx"] = "wait_ready"
  /\ \/ m_is_ready /\ Goto("rx", "loop")
     \/ ~m_is_ready /\ m_is_killed /\ Goto("rx", "done")
  /\ UNCHANGED <<flags, pool, queue, txvars, rx_call, net, budget, hist>>

\* while (!m_is_killed), for the first time, or after handle_payload; on the
\* way out handle_payload(NULL, 0) only releases locals of the thread.
RxLoop ==
  /\ pc["rx"] \in {"loop", "handle"}
  /\ rx_call' = "literal"
  /\ Goto("rx", IF m_is_killed THEN "done" ELSE "reading")
  /\ UNCHANGED <<flags, pool, queue, txvars, net, budget, hist>>

\* Mutant: rx leaves without lowering m_is_ready.
StaysReady == m_is_ready

\* The flag after rx saw the stream end.
ReadyAfterReadError == FALSE

\* The client has sent a line: tcp_stream_readuntil returns it and
\* handle_payload starts on it, or there is no memory for it.
RxRead ==
  /\ pc["rx"] = "reading"
  /\ sock = "open" /\ peer # "closed"
  /\ \/ Goto("rx", "handle") /\ UNCHANGED m_is_ready
     \/ Goto("rx", "done") /\ m_is_ready' = ReadyAfterReadError
  /\ UNCHANGED <<m_is_killed, m_is_gracefully_terminated, pool, queue,
                 txvars, rx_call, net, budget, hist>>

\* handle_payload, seen from the connection, is a sequence of calls: queue a
\* literal (the prompts and replies), queue a heap buffer (echoed names, lists
\* of users), relay a message through send_msg (one call per recipient), or,
\* as the last one, say goodbye and terminate gracefully (/logout, "EXIT: ").
Entry(call) ==
  CASE call = "message" -> "lock_conns"
    [] call = "buff"    -> "send"
    [] OTHER            -> "push"

RxCall(call) ==
  /\ pc["rx"] = "handle"
  /\ calls_left > 0 /\ calls_left' = calls_left - 1
  /\ rx_call' = call
  /\ Goto("rx", Entry(call))
  /\ UNCHANGED <<flags, pool, queue, txvars, net, sends_left, hist>>

\* read() fails: the client is gone, or terminate() shut the socket down.
RxReadError ==
  /\ pc["rx"] = "reading"
  /\ sock = "closed" \/ peer = "closed"
  /\ m_is_ready' = ReadyAfterReadError
  /\ Goto("rx", "done")
  /\ UNCHANGED <<m_is_killed, m_is_gracefully_terminated, pool, queue,
                 txvars, rx_call, net, budget, hist>>

\* sockfd was read before terminate() closed it and read() is entered after,
\* when the number may already be another client's: rx waits for that one.
RxStray ==
  /\ pc["rx"] = "reading"
  /\ sock = "closed"
  /\ Goto("rx", "astray")
  /\ UNCHANGED <<flags, pool, queue, txvars, rx_call, net, budget, hist>>

\* A line of the other client's arrives, or he leaves.
RxStrayEnds ==
  /\ pc["rx"] = "astray"
  /\ \/ Goto("rx", "handle") /\ UNCHANGED m_is_ready
     \/ Goto("rx", "done") /\ m_is_ready' = ReadyAfterReadError
  /\ UNCHANGED <<m_is_killed, m_is_gracefully_terminated, pool, queue,
                 txvars, rx_call, net, budget, hist>>

\* Connection::send drops heap buffers once a graceful termination has begun.
RxSendBuff ==
  /\ pc["rx"] = "send"
  /\ Goto("rx", IF m_is_gracefully_terminated THEN "handle" ELSE "push")
  /\ UNCHANGED <<flags, pool, queue, txvars, rx_call, net, budget, hist>>

\* gracefully_terminate(): the exchange, then notify_one().
RxGraceful ==
  /\ pc["rx"] = "graceful"
  /\ m_is_gracefully_terminated' = TRUE
  /\ IF m_is_gracefully_terminated
     THEN Goto("rx", "loop") ELSE Goto("rx", "graceful_notify")
  /\ UNCHANGED <<m_is_ready, m_is_killed, pool, queue, txvars, rx_call, net,
                 budget, hist>>

RxGracefulNotify ==
  /\ pc["rx"] = "graceful_notify"
  /\ GotoNotifying("rx", "loop")
  /\ UNCHANGED <<flags, pool, queue, txvars, rx_call, net, budget, hist>>

Rx == \/ RxWaitReady \/ RxLoop \/ RxReadError \/ RxStray
      \/ RxSendBuff \/ RxGraceful \/ RxGracefulNotify
      \/ Push("rx")
      \/ \E call \in Calls : RxCall(call)

-----------------------------------------------------------------------------
(* Connection::terminate, called by tx and by gc.                          *)

\* Mutant: m_is_killed stored without looking at its old value.
AlwaysFirst == TRUE

\* Mutant: the result of the exchange is tested the wrong way round.
KilledBefore == m_is_killed

\* m_is_killed.exchange(true) returned false.
FirstToKill == ~m_is_killed

AfterTerminate(t) ==
  IF t = "gc" THEN "join_rx" ELSE IF tx_terminated THEN "done" ELSE "loop"

TerminateKill(t) ==
  /\ pc[t] = "kill"
  /\ m_is_killed' = TRUE
  /\ Goto(t, IF FirstToKill THEN "destroy" ELSE AfterTerminate(t))
  /\ UNCHANGED <<m_is_ready, m_is_gracefully_terminated, pool, queue, txvars,
                 rx_call, net, budget, hist>>

\* tcp_stream_destroy: shutdown(SHUT_RD), close, sockfd = -1.
TerminateDestroy(t) ==
  /\ pc[t] = "destroy"
  /\ sock' = "closed" /\ closes' = closes + 1
  /\ Goto(t, "kill_notify")
  /\ UNCHANGED <<flags, pool, queue, txvars, rx_call, peer, budget, hist>>

TerminateNotify(t) ==
  /\ pc[t] = "kill_notify"
  /\ GotoNotifying(t, AfterTerminate(t))
  /\ UNCHANGED <<flags, pool, queue, txvars, rx_call, net, budget, hist>>

Terminate(t) == TerminateKill(t) \/ TerminateDestroy(t) \/ TerminateNotify(t)

-----------------------------------------------------------------------------
(* Connection::tx_thread.                                                  *)

TxWaitReady ==
  /\ pc["tx"] = "wait_ready"
  /\ \/ m_is_ready /\ Goto("tx", "loop")
     \/ ~m_is_ready /\ m_is_killed /\ Goto("tx", "done")
  /\ UNCHANGED <<flags, pool, queue, txvars, rx_call, net, budget, hist>>

TxLoop ==
  /\ pc["tx"] = "loop"
  /\ Goto("tx", IF m_is_killed THEN "done" ELSE "lock")
  /\ UNCHANGED <<flags, pool, queue, txvars, rx_call, net, budget, hist>>

\* The first iteration only passes through the mutex; the others sleep on the
\* condition variable, whatever the queue holds.
TxLock ==
  /\ pc["tx"] = "lock"
  /\ m_tx_queue_m = "none"
  /\ tx_initial' = FALSE
  /\ Goto("tx", IF tx_initial THEN "drain" ELSE "waiting")
  /\ UNCHANGED <<flags, pool, queue, tx_item, tx_terminated, rx_call, net,
                 budget, hist>>

\* wait() returns with the mutex, which is released at once.
TxRelock ==
  /\ pc["tx"] = "relock"
  /\ m_tx_queue_m = "none"
  /\ Goto("tx", "drain")
  /\ UNCHANGED <<flags, pool, queue, txvars, rx_call, net, budget, hist>>

\* Mutant: the queue is popped whatever its size.
PopAlways == TRUE

\* while (m_tx_queue.get_size() && ...): read without the mutex.
QueueNonEmpty == size > 0

\* pop_back: the payload is fetched, tail advances, size-- has loaded size.
\* A slot at or past head was never filled.
TxPop ==
  /\ pc["tx"] = "drain"
  /\ QueueNonEmpty
  /\ tx_item' = IF tail < head THEN tail + 1 ELSE 0
  /\ tail' = tail + 1
  /\ loaded' = [loaded EXCEPT !["tx"] = size]
  /\ overlapped' = (overlapped \/ Pushing)
  /\ process' = IF Growing THEN "undefined" ELSE process
  /\ Goto("tx", "commit")
  /\ UNCHANGED <<flags, pool, head, size, cap, m_tx_queue_m, tx_initial,
                 tx_terminated, rx_call, net, budget, sent, deleted>>

TxCommit ==
  /\ pc["tx"] = "commit"
  /\ size' = Decremented
  /\ loaded' = [loaded EXCEPT !["tx"] = 0]
  /\ Goto("tx", "write")
  /\ UNCHANGED <<flags, pool, head, tail, cap, m_tx_queue_m, overlapped,
                 txvars, rx_call, net, budget, hist>>

\* tcp_stream_write reads sockfd ("write"), enters send() with it ("enter"),
\* and is in the kernel ("sending").
TxWrite ==
  /\ sock = "open"
  /\ \/ pc["tx"] = "write" /\ Goto("tx", "enter")
     \/ pc["tx"] = "enter" /\ Goto("tx", "sending")
  /\ UNCHANGED <<flags, pool, queue, txvars, rx_call, net, budget, hist>>

\* tx deletes the payload it has written, or tried to: there is none behind
\* a slot that was never filled.
AfterDelete == IF tx_item = 0 THEN "undefined" ELSE process

\* The kernel has taken the payload.
TxSent ==
  /\ pc["tx"] = "sending"
  /\ sent' = Append(sent, tx_item)
  /\ Goto("tx", "drain")
  /\ process' = AfterDelete
  /\ UNCHANGED <<flags, pool, queue, txvars, rx_call, net, budget, deleted>>

\* The client does not read and the kernel has no room for the payload, until
\* it reads again. Closing the descriptor, after shutdown(SHUT_RD), does not
\* end a send() that waits.
TxRoom ==
  /\ \/ pc["tx"] = "sending" /\ peer = "up" /\ Goto("tx", "blocked")
     \/ pc["tx"] = "blocked" /\ Goto("tx", "sending")
  /\ UNCHANGED <<flags, pool, queue, txvars, rx_call, net, budget, hist>>

\* Mutant: a failed write goes on with the next payload.
KeepDraining == "drain"

\* Where tx goes after a failed write: out of the draining loop.
AfterWriteError == "check"

WriteFailed ==
  /\ m_is_ready' = FALSE
  /\ tx_terminated' = TRUE
  /\ Goto("tx", AfterWriteError)

TxWriteError ==
  /\ \/ pc["tx"] \in {"write", "enter"} /\ sock = "closed"
     \/ pc["tx"] \in {"sending", "blocked"} /\ peer = "closed"
  /\ WriteFailed
  /\ process' = AfterDelete
  /\ UNCHANGED <<m_is_killed, m_is_gracefully_terminated, pool, queue,
                 tx_item, tx_initial, rx_call, net, budget, sent, deleted>>

\* As RxStray: the payload goes to another client, if that one reads.
TxStray ==
  /\ pc["tx"] = "enter"
  /\ sock = "closed"
  /\ Goto("tx", "astray")
  /\ UNCHANGED <<flags, pool, queue, txvars, rx_call, net, budget, hist>>

TxStrayEnds ==
  /\ pc["tx"] = "astray"
  /\ \/ Goto("tx", "drain") /\ UNCHANGED <<m_is_ready, tx_terminated>>
     \/ WriteFailed
  /\ process' = AfterDelete
  /\ UNCHANGED <<m_is_killed, m_is_gracefully_terminated, pool, queue,
                 tx_item, tx_initial, rx_call, net, budget, sent, deleted>>

TxDrained ==
  /\ pc["tx"] = "drain"
  /\ ~QueueNonEmpty
  /\ Goto("tx", "check")
  /\ UNCHANGED <<flags, pool, queue, txvars, rx_call, net, budget, hist>>

TxCheckGraceful ==
  /\ pc["tx"] = "check"
  /\ Goto("tx", IF m_is_gracefully_terminated THEN "kill"
                ELSE IF tx_terminated THEN "done" ELSE "loop")
  /\ UNCHANGED <<flags, pool, queue, txvars, rx_call, net, budget, hist>>

Tx == \/ TxWaitReady \/ TxLoop \/ TxLock \/ TxRelock \/ TxPop \/ TxCommit
      \/ TxWrite \/ TxSent \/ TxWriteError \/ TxStray \/ TxDrained
      \/ TxCheckGraceful \/ Terminate("tx")

\* A condition variable may also wake up for no reason.
TxSpuriousWakeup ==
  /\ pc["tx"] = "waiting"
  /\ Goto("tx", "relock")
  /\ UNCHANGED <<flags, pool, queue, txvars, rx_call, net, budget, hist>>

-----------------------------------------------------------------------------
(* The garbage collector thread. It holds m_conns_m for a whole pass, over *)
(* the connections before this one in m_conns, this one, and those behind. *)
(* It may shut the others down too, and joining their threads may take for *)
(* ever: how long it is "before" and "behind" is not up to this connection.*)

\* After the sleep: whether this is the last pass is decided, then the pass
\* begins. (One step: m_is_running only ever falls, and nobody else reads it,
\* so that one that falls in between might as well have fallen after.)
GcWake ==
  /\ pc["gc"] = "idle"
  /\ m_conns_m = "none"
  /\ gc_terminated' = ~m_is_running
  /\ m_conns_m' = "gc"
  /\ Goto("gc", "before")
  /\ UNCHANGED <<flags, m_is_running, m_conns, queue, txvars, rx_call, net,
                 budget, hist>>

Collectable == m_conns /\ (gc_terminated \/ ~m_is_ready)

\* The pass has come to this connection: it is taken out of m_conns (left
\* there by the last pass) and shutdown() begins.
GcCollect ==
  /\ pc["gc"] = "before"
  /\ Collectable
  /\ m_conns' = gc_terminated
  /\ Goto("gc", "kill")
  /\ UNCHANGED <<flags, m_is_running, gc_terminated, m_conns_m, queue, txvars,
                 rx_call, net, budget, hist>>

GcSkip ==
  /\ pc["gc"] = "before"
  /\ ~Collectable
  /\ Goto("gc", "behind")
  /\ UNCHANGED <<flags, pool, queue, txvars, rx_call, net, budget, hist>>

GcJoinRx ==
  /\ pc["gc"] = "join_rx"
  /\ pc["rx"] = "done"
  /\ Goto("gc", "join_tx")
  /\ UNCHANGED <<flags, pool, queue, txvars, rx_call, net, budget, hist>>

\* Mutant: shutdown() joins only rx.
TxNotJoined == TRUE

\* m_tx_thread->join() has returned.
TxJoined == pc["tx"] = "done"

\* shutdown() returns and delete conn drops the last reference.
GcJoinTx ==
  /\ pc["gc"] = "join_tx"
  /\ TxJoined
  /\ deleted' = TRUE
  /\ Goto("gc", "behind")
  /\ UNCHANGED <<flags, pool, queue, txvars, rx_call, net, budget, sent,
                 process>>

\* The pass ends. The last one has joined every other rx thread: one that
\* waits for m_conns_m it joins for ever.
EndPass ==
  /\ pc["gc"] = "behind"
  /\ gc_terminated => \A s \in Senders : pc[s] = "idle"
  /\ m_conns_m' = "none"
  /\ Goto("gc", IF gc_terminated THEN "done" ELSE "idle")
  /\ UNCHANGED <<flags, m_is_running, m_conns, gc_terminated, queue, txvars,
                 rx_call, net, budget, hist>>

\* What the collector does by itself, and what waits for the others' threads.
Gc     == GcWake \/ GcJoinRx \/ GcJoinTx \/ Terminate("gc")
GcPass == GcCollect \/ GcSkip \/ EndPass

-----------------------------------------------------------------------------
(* The client (external).                                                  *)

ClientClose ==
  /\ peer = "up"
  /\ peer' = "closed"
  /\ UNCHANGED <<pc, flags, pool, queue, txvars, rx_call, sock, closes,
                 budget, hist>>

-----------------------------------------------------------------------------
AcceptSteps ==
  AcceptConstruct \/ AcceptSetReady \/ AcceptInsert \/ AcceptJoinGc

Running(A) == process = "up" /\ A

\* What a thread does when it can; and what nobody owes it: the decision to
\* stop, a spurious wake-up, the other connections and their clients.
Owed ==
  \/ AcceptSteps \/ Rx \/ Tx \/ Gc \/ \E s \in Senders : Push(s)

Free ==
  \/ AcceptStop \/ TxSpuriousWakeup
  \/ RxRead \/ RxStrayEnds \/ TxStrayEnds \/ TxRoom
  \/ GcPass
  \/ \E s \in Senders : SenderCalls(s)
  \/ ClientClose

Next == process = "up" /\ (Owed \/ Free)

Spec == Init /\ [][Next]_vars

\* Every thread of the server keeps running while it can, as long as the
\* process does; and one that waits for m_conns_m gets it in the end, for the
\* collector sleeps 64 ms after every pass.
Fairness ==
  /\ WF_vars(Running(Tx)) /\ WF_vars(Running(Gc))
  /\ SF_vars(Running(AcceptSteps)) /\ SF_vars(Running(Rx))
  /\ \A s \in Senders : SF_vars(Running(Push(s)))

FairSpec == Spec /\ Fairness

-----------------------------------------------------------------------------
(* Properties that hold.                                                   *)

\* terminate() closes the descriptor at most once, although tx (at the end of
\* a graceful termination) and gc may both be in it: a second close() could
\* hit a descriptor the kernel has meanwhile given to another client.
SocketClosedOnce == closes <= 1

\* ~Connection runs only when no thread can touch the connection any more:
\* rx and tx have ended, no sender is between finding the connection in
\* m_conns and leaving push_payload, and the descriptor has been closed.
DeletedIsQuiescent ==
  deleted => /\ pc["rx"] = "done" /\ pc["tx"] = "done"
             /\ \A s \in Senders :
                  pc[s] \notin {"push", "grow", "store", "notify"}
             /\ sock = "closed"

\* What rx, and tx, cannot go on without.
RxBlocked ==
  \/ pc["rx"] \in {"unspawned", "astray"}
  \/ pc["rx"] = "wait_ready" /\ ~m_is_ready /\ ~m_is_killed
  \/ pc["rx"] = "reading" /\ sock = "open" /\ peer # "closed"
  \/ pc["rx"] = "lock_conns" /\ m_conns_m # "none"
  \/ pc["rx"] = "push" /\ m_tx_queue_m # "none"

TxBlocked ==
  \/ pc["tx"] \in {"unspawned", "waiting", "astray"}
  \/ pc["tx"] = "wait_ready" /\ ~m_is_ready /\ ~m_is_killed
  \/ pc["tx"] \in {"lock", "relock"} /\ m_tx_queue_m # "none"
  \/ pc["tx"] = "blocked" /\ peer = "up"

\* While gc joins rx and then tx it holds m_conns_m, and with it up every
\* relay, login and collection. Of all a thread may wait for, this alone can
\* hold gc up: rx wants m_conns_m itself, to relay a message; tx sleeps past
\* the last notification, or is in a send() its client does not take; one of
\* them uses a descriptor that was closed and given to another client. (rx
\* may also be about to be woken by tx, who came first in terminate().)
CollectorHeldUp ==
  /\ pc["gc"] = "join_rx" /\ RxBlocked =>
       pc["rx"] \in {"lock_conns", "astray"} \/ pc["tx"] = "destroy"
  /\ pc["gc"] = "join_tx" /\ TxBlocked =>
       pc["tx"] \in {"waiting", "blocked", "astray"}

\* Seen from outside, the connection is an Outbox.
O == INSTANCE Outbox WITH queued <- head, sent <- sent,
                          open <- (sock = "open"),
                          under_way <- (pc["tx"] \in {"sending", "blocked"})

\* As long as no pop_back has run at the same time as a push_front, payloads
\* reach the socket in the order push_payload() queued them, without gap or
\* repetition, whatever the threads interleave and however often the queue
\* grows; and after terminate() has closed the socket none does but the one
\* whose send() was under way. (Where the two overlap this does not hold:
\* SentInOrder below.)
OutboxSpec == O!OInit /\ [][O!ONext \/ overlapped']_(O!ovars)

\* The passes of the collector get through with the other connections.
PassesEnd == []<>(pc["gc"] \notin {"before", "behind"})

\* Then a client that leaves is noticed: rx or tx lowers m_is_ready, gc finds
\* it and the descriptor is closed.
PeerLeftClosesSocket ==
  PassesEnd => ((peer = "closed") ~> (sock = "closed" \/ process # "up"))

-----------------------------------------------------------------------------
(* Properties the repository states and the code does not have.            *)

\* @m_tx_queue "provides efficient FIFO queuing for the transmission thread":
\* the order of delivery, whether or not size++ and size-- overlap.
SentInOrder == \A i \in 1..Len(sent) : sent[i] = i

\* "The data is added to the transmission queue and will be sent
\* asynchronously by the TX thread": a queued payload is written unless the
\* connection or the process is going down, the client does not read, or a
\* push and a pop have overlapped.
QueuedIsSent ==
  PassesEnd =>
    \A n \in 1..(MaxCalls + MaxSends + 1) :
      (head >= n) ~> \/ Len(sent) >= n \/ m_is_killed \/ peer = "closed"
                     \/ pc["tx"] = "blocked" \/ overlapped \/ process # "up"

\* Once shutdown() has closed the socket, rx_thread returns, so that it can be
\* joined (or it is waiting for another client's line).
RxThreadExits ==
  (pc["gc"] = "join_rx" /\ sock = "closed")
    ~> (pc["rx"] \in {"done", "astray"} \/ process # "up")

\* gc "deletes non-ready threads, which stopped receiving/sending and are
\* killed".
StoppedIsDeleted ==
  PassesEnd =>
    ((pc["rx"] = "done" /\ pc["tx"] = "done") ~> (deleted \/ process # "up"))
=============================================================================
