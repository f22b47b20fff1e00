------------------------------ MODULE UdpUring ------------------------------
(***************************************************************************)
(* One socket worker of the UDP tracker on io_uring                        *)
(* (crates/udp/src/workers/socket/uring) and the kernel at the other end   *)
(* of its rings.                                                           *)
(*                                                                         *)
(* The worker and the kernel share memory: a send buffer belongs to the    *)
(* kernel from the submission of an entry to the return of its completion, *)
(* and a receive buffer from the moment the buffer ring shows its id until *)
(* a completion hands it over.  The kernel takes its steps at any time; it *)
(* may finish sends in any order and end a multishot receive with any      *)
(* completion.                                                             *)
(*                                                                         *)
(* What the worker answers to a request is decided as in UdpSocket; here a *)
(* request is answered or not, and the answer fits into a send buffer or   *)
(* not: a send buffer has 2048 bytes, while the configuration is validated *)
(* against 8192.                                                           *)
(***************************************************************************)
EXTENDS Integers, Sequences, FiniteSets

CONSTANTS
    Families,                   \* sockets that are open
    Ips, V4Ips,
    ring_entries,               \* a power of two
    TailModulus,                \* 2^16: local_tail is a u16
    NoResponse,
    MaxDatagrams                \* bound

\* Builder::build and RawBufRing::new: a power of two up to 2^15.
valid_ring_entries(n) == \E k \in 0..15 : n = 2^k

\* Without room for every receive and the timeout, the first push would panic.
ASSUME UdpUringAssumption ==
    /\ Families \subseteq {"v4", "v6"}
    /\ V4Ips \subseteq Ips
    /\ ring_entries \in Nat \ {0} /\ valid_ring_entries(ring_entries)
    /\ MaxDatagrams \in Nat
    /\ Cardinality(Families) + 1 <= ring_entries
    /\ TailModulus \in Nat /\ TailModulus % ring_entries = 0
    /\ TailModulus > ring_entries

VARIABLES
    pc, num_send_added, unseen, \* the loop of run_inner
    sq_space,                   \* turns left of the loop that enqueues responses
    resubmittable_sqe_buf,
    local_responses,
    likely_next_free_index, buffers,    \* SendBuffers
    buf_ring, local_tail,       \* ring memory and its tail
    sq,                         \* entries pushed and not submitted
    cq,                         \* completion queue
    \* the kernel
    head,                       \* next entry of the buffer ring to take
    armed,                      \* receives and timeout under way
    sending,                    \* send entries under way
    socket,                     \* datagrams waiting per socket: the senders
    arrived                     \* datagrams so far

worker == <<pc, num_send_added, unseen, sq_space, resubmittable_sqe_buf, local_responses,
            likely_next_free_index, buffers, buf_ring, local_tail, sq>>
vars == <<worker, cq, head, armed, sending, socket, arrived>>

Bids == 0..ring_entries - 1
Indices == 0..ring_entries - 1

\* A response, and the socket and form of address that it goes out with.
Response == [to: Ips, socket: Families]

\* A response that waits, and whether its bytes fit into a send buffer.
LocalResponse == [to: Ips, fits: BOOLEAN]

\* User data of the entries that are not sends.
Resubmittable == Families \cup {"pulse"}

Sqe == [user_data: Resubmittable]
       \cup [user_data: {"send"}, index: Indices, response: Response]

\* A failed receive carries no buffer.
Cqe == [user_data: Families, ok: {TRUE}, bid: Bids, from: Ips, more: BOOLEAN]
       \cup [user_data: Families, ok: {FALSE}, more: {FALSE}]
       \cup [user_data: {"pulse"}] \cup [user_data: {"send"}, index: Indices]

TypeOK ==
    /\ pc \in {"push", "fill", "wait", "reap"}
    /\ num_send_added \in Nat /\ unseen \in Nat /\ sq_space \in Int
    /\ resubmittable_sqe_buf \in Seq(Resubmittable)
    /\ local_responses \in Seq(LocalResponse)
    /\ likely_next_free_index \in 0..ring_entries
    /\ buffers \in [Indices -> [free: BOOLEAN, bytes: Response \cup {NoResponse}]]
    /\ buf_ring \in [0..ring_entries - 1 -> Bids]
    /\ local_tail \in 0..TailModulus - 1 /\ head \in 0..TailModulus - 1
    /\ sq \in Seq(Sqe)
    /\ cq \in Seq(Cqe)
    /\ armed \subseteq Resubmittable
    /\ sending \subseteq Sqe
    /\ socket \in [Families -> Seq(Ips)]
    /\ arrived \in 0..MaxDatagrams

\* RawBufRing::new adds every buffer to the ring.
new_ring == [i \in 0..ring_entries - 1 |-> i]

\* SocketWorker::run
Init ==
    /\ pc = "push"
    /\ num_send_added = 0 /\ unseen = 0 /\ sq_space = 0
    /\ \E order \in {s \in [1..Cardinality(Resubmittable) -> Resubmittable] :
                        s[1] = "pulse" /\ {s[i] : i \in DOMAIN s} = Resubmittable} :
          resubmittable_sqe_buf = order
    /\ local_responses = << >>
    /\ likely_next_free_index = 0
    /\ buffers = [i \in Indices |-> [free |-> TRUE, bytes |-> NoResponse]]
    /\ buf_ring = new_ring
    /\ local_tail = ring_entries % TailModulus
    /\ sq = << >>
    /\ cq = << >>
    /\ head = 0
    /\ armed = {}
    /\ sending = {}
    /\ socket = [f \in Families |-> << >>]
    /\ arrived = 0

----------------------------------------------------------------------------
(***************************************************************************)
(* SendBuffers                                                             *)
(***************************************************************************)
FreeFrom(i) == {j \in Indices : j >= i /\ buffers[j].free}

\* Mutant: the scan trusts its starting point.
next_index == IF likely_next_free_index < ring_entries
              THEN {likely_next_free_index} ELSE {}

\* The first free buffer at or after likely_next_free_index, if any.
next_free_index ==
    {i \in FreeFrom(likely_next_free_index) :
        \A j \in FreeFrom(likely_next_free_index) : i <= j}

\* IPv4 answers leave by the IPv4 socket if it is open, else mapped by the
\* IPv6 socket.
send_socket(ip) == IF ip \in V4Ips /\ "v4" \in Families THEN "v4" ELSE "v6"

\* The address, the bytes and the length are written into the buffer.
prepare_entry(i, r) ==
    /\ buffers' = [buffers EXCEPT ![i] = [free |-> FALSE, bytes |-> r]]
    /\ likely_next_free_index' = i + 1

----------------------------------------------------------------------------
(***************************************************************************)
(* BufRing                                                                 *)
(***************************************************************************)
mask(position) == position % ring_entries

\* dropping_bid: buf_ring_add, then buf_ring_sync shows the tail.
dropping_bid(bid) ==
    /\ buf_ring' = [buf_ring EXCEPT ![mask(local_tail)] = bid]
    /\ local_tail' = (local_tail + 1) % TailModulus

\* Ids between the kernel's head and the tail, in order.
RingLen == (local_tail - head) % TailModulus
RingBid(k) == buf_ring[mask((head + k) % TailModulus)]

----------------------------------------------------------------------------
(***************************************************************************)
(* The loop of run_inner                                                   *)
(***************************************************************************)
PushResubmittable ==
    /\ pc = "push"
    /\ sq' = [i \in DOMAIN resubmittable_sqe_buf |->
                [user_data |-> resubmittable_sqe_buf[i]]]
    /\ resubmittable_sqe_buf' = << >>
    /\ num_send_added' = 0
    /\ sq_space' = ring_entries - Len(resubmittable_sqe_buf)
    /\ pc' = "fill"
    /\ UNCHANGED <<unseen, local_responses, likely_next_free_index, buffers,
                   buf_ring, local_tail, cq, head, armed, sending, socket, arrived>>

\* Positions of the send entries of a queue.
Sends(queue) == {i \in DOMAIN queue : queue[i].user_data = "send"}

\* A turn of the loop that enqueues local responses, while buffer i is free.
TakeResponse(i) ==
    /\ pc = "fill"
    /\ sq_space > 0
    /\ local_responses # << >>
    /\ i \in next_free_index
    /\ sq_space' = sq_space - 1
    /\ local_responses' = Tail(local_responses)
    /\ UNCHANGED <<pc, unseen, resubmittable_sqe_buf, buf_ring, local_tail, cq,
                   head, armed, sending, socket, arrived>>

EnqueueResponse ==
    LET ip == Head(local_responses).to
        r == [to |-> ip, socket |-> send_socket(ip)]
    IN  \E i \in Indices :
           /\ TakeResponse(i)
           /\ Head(local_responses).fits
           /\ prepare_entry(i, r)
           /\ sq' = Append(sq, [user_data |-> "send", index |-> i, response |-> r])
           /\ num_send_added' = num_send_added + 1

\* The response is discarded.  Its turn is spent, and the buffer, which holds
\* the beginning of it, stays free.
SerializationFailed ==
    \E i \in Indices :
       /\ TakeResponse(i)
       /\ ~Head(local_responses).fits
       /\ buffers' = [buffers EXCEPT ![i].bytes = NoResponse]
       /\ UNCHANGED <<likely_next_free_index, sq, num_send_added>>

\* Mutant: the response that found no free buffer is not put back.
without_push_front == IF sq_space > 0 /\ local_responses # << >>
                      THEN Tail(local_responses) ELSE local_responses

\* NoBuffers: the response is pushed to the front again.
push_front == local_responses

\* The turns are spent, no response is left, or there is no free buffer:
\* submit_and_wait.
Submit ==
    /\ pc = "fill"
    /\ sq_space <= 0 \/ local_responses = << >> \/ next_free_index = {}
    /\ local_responses' = push_front
    /\ armed' = armed \cup ({sq[i].user_data : i \in DOMAIN sq} \ {"send"})
    /\ sending' = sending \cup {sq[i] : i \in Sends(sq)}
    /\ sq' = << >>
    /\ sq_space' = 0
    /\ pc' = "wait"
    /\ UNCHANGED <<num_send_added, unseen, resubmittable_sqe_buf,
                   likely_next_free_index, buffers, buf_ring, local_tail, cq,
                   head, socket, arrived>>

\* submit_and_wait returns; completion() shows what is in the queue by now.
Wake ==
    /\ pc = "wait"
    /\ Len(cq) >= num_send_added /\ Len(cq) >= 1
    /\ unseen' = Len(cq)
    /\ pc' = "reap"
    /\ UNCHANGED <<num_send_added, sq_space, resubmittable_sqe_buf, local_responses,
                   likely_next_free_index, buffers, buf_ring, local_tail, sq, cq,
                   head, armed, sending, socket, arrived>>

\* Mutant: the buffer is dropped only if the request was answered.
drop_if_answered(cqe, answered) ==
    IF answered THEN dropping_bid(cqe.bid) ELSE UNCHANGED <<buf_ring, local_tail>>

\* The BufX goes out of scope however handle_recv_cqe returns.
drop_buffer(cqe, answered) == dropping_bid(cqe.bid)

\* RecvHelper::parse: a request, a parse error, or a message that is dropped
\* (truncated, or from port 0).
ParseOutcomes == {"request", "parse_error", "dropped"}

\* Whether handle_request, or a parse error with a valid connection id, gives a
\* response.
handle_request(outcome) == IF outcome = "dropped" THEN {FALSE} ELSE BOOLEAN

\* handle_recv_cqe and the resubmission of a receive that has ended.  An error
\* carries no buffer.
HandleRecv(cqe) ==
    /\ IF cqe.ok
       THEN \E outcome \in ParseOutcomes : \E answered \in handle_request(outcome) :
               /\ \E fits \in BOOLEAN : local_responses' = IF answered
                     THEN Append(local_responses, [to |-> cqe.from, fits |-> fits])
                     ELSE local_responses
               /\ drop_buffer(cqe, answered)
       ELSE UNCHANGED <<local_responses, buf_ring, local_tail>>
    /\ resubmittable_sqe_buf' = IF cqe.more THEN resubmittable_sqe_buf
                                ELSE Append(resubmittable_sqe_buf, cqe.user_data)
    /\ UNCHANGED buffers

HandlePulse ==
    /\ resubmittable_sqe_buf' = Append(resubmittable_sqe_buf, "pulse")
    /\ UNCHANGED <<local_responses, buf_ring, local_tail, buffers>>

\* A send has completed, with or without success: mark_buffer_as_free.
HandleSent(cqe) ==
    /\ buffers' = [buffers EXCEPT ![cqe.index].free = TRUE]
    /\ UNCHANGED <<local_responses, buf_ring, local_tail, resubmittable_sqe_buf>>

handle_cqe ==
    LET cqe == Head(cq) IN
    /\ pc = "reap"
    /\ unseen > 0
    /\ unseen' = unseen - 1
    /\ cq' = Tail(cq)
    /\ CASE cqe.user_data \in Families -> HandleRecv(cqe)
         [] cqe.user_data = "pulse" -> HandlePulse
         [] OTHER -> HandleSent(cqe)
    /\ UNCHANGED <<pc, num_send_added, sq_space, likely_next_free_index, sq, head, armed,
                   sending, socket, arrived>>

ReapDone ==
    /\ pc = "reap"
    /\ unseen = 0
    /\ likely_next_free_index' = 0      \* reset_likely_next_free_index
    /\ pc' = "push"
    /\ UNCHANGED <<num_send_added, unseen, sq_space, resubmittable_sqe_buf, local_responses,
                   buffers, buf_ring, local_tail, sq, cq, head, armed, sending,
                   socket, arrived>>

----------------------------------------------------------------------------
(***************************************************************************)
(* The kernel and the network                                              *)
(***************************************************************************)
\* A datagram goes into the next buffer of the ring.
KernelReceive(f) ==
    /\ f \in armed
    /\ socket[f] # << >>
    /\ RingLen > 0
    /\ \E more \in BOOLEAN :
          /\ cq' = Append(cq, [user_data |-> f, ok |-> TRUE, bid |-> RingBid(0),
                               from |-> Head(socket[f]), more |-> more])
          /\ armed' = IF more THEN armed ELSE armed \ {f}
    /\ head' = (head + 1) % TailModulus
    /\ socket' = [socket EXCEPT ![f] = Tail(@)]
    /\ UNCHANGED <<worker, sending, arrived>>

\* ENOBUFS ends the multishot receive; the datagram stays in the socket.
KernelNoBuffers(f) ==
    /\ f \in armed
    /\ socket[f] # << >>
    /\ RingLen = 0
    /\ cq' = Append(cq, [user_data |-> f, ok |-> FALSE, more |-> FALSE])
    /\ armed' = armed \ {f}
    /\ UNCHANGED <<worker, head, sending, socket, arrived>>

KernelSent(e) ==
    /\ e \in sending
    /\ sending' = sending \ {e}
    /\ cq' = Append(cq, [user_data |-> "send", index |-> e.index])
    /\ UNCHANGED <<worker, head, armed, socket, arrived>>

KernelPulse ==
    /\ "pulse" \in armed
    /\ armed' = armed \ {"pulse"}
    /\ cq' = Append(cq, [user_data |-> "pulse"])
    /\ UNCHANGED <<worker, head, sending, socket, arrived>>

Arrive(f, ip) ==
    /\ arrived < MaxDatagrams
    /\ f = "v4" => ip \in V4Ips
    /\ arrived' = arrived + 1
    /\ socket' = [socket EXCEPT ![f] = Append(@, ip)]
    /\ UNCHANGED <<worker, cq, head, armed, sending>>

run_inner ==
    \/ PushResubmittable \/ EnqueueResponse \/ SerializationFailed \/ Submit
    \/ Wake \/ handle_cqe \/ ReapDone

KernelRecv(f) == KernelReceive(f) \/ KernelNoBuffers(f)

Next ==
    \/ run_inner
    \/ \E f \in Families : KernelRecv(f)
    \/ \E e \in sending : KernelSent(e)
    \/ KernelPulse
    \/ \E f \in Families, ip \in Ips : Arrive(f, ip)

Spec == Init /\ [][Next]_vars

\* The thread runs, the kernel finishes what was submitted to it, and the
\* timeout of five seconds ends.
FairSpec ==
    /\ Spec
    /\ WF_vars(run_inner)
    /\ \A f \in Families : WF_vars(KernelRecv(f))
    /\ WF_vars(\E e \in sending : KernelSent(e))
    /\ WF_vars(KernelPulse)

----------------------------------------------------------------------------
(***************************************************************************)
(* Properties                                                              *)
(***************************************************************************)
Delivered == {i \in DOMAIN cq : cq[i].user_data \in Families /\ cq[i].ok}

\* The kernel sends what was queued: while an entry waits or is under way,
\* its buffer still holds its response, and every buffer that is not free
\* belongs to exactly one entry.  The wait counts completions of any kind, so
\* the next round starts while sends of the last one are still in flight.
SendsWhatWasQueued ==
    /\ \A i \in Sends(sq) : buffers[sq[i].index].bytes = sq[i].response
    /\ \A e \in sending : buffers[e.index].bytes = e.response
    /\ Cardinality({i \in Indices : ~buffers[i].free}) =
          Cardinality(Sends(sq)) + Cardinality(sending) + Cardinality(Sends(cq))

\* Every receive buffer is in the ring or in a completion, never in both and
\* never twice, through the wrapping of the u16 tail: "Dropping a duplicate
\* bid is likely to cause undefined behavior" (dropping_bid_i), and a bid that
\* is not dropped is lost to the kernel.
BufferIdsConserved ==
    /\ RingLen + Cardinality(Delivered) = ring_entries
    /\ {RingBid(k) : k \in 0..RingLen - 1} \cup {cq[i].bid : i \in Delivered} = Bids

\* Every datagram is read, and every answer that fits into a send buffer is
\* handed to the kernel; no answer waits for ever.  Also after a receive ended
\* for want of buffers, after a round that found no free send buffer, and
\* behind answers that are discarded because they do not fit.
EverythingDrained ==
    /\ (local_responses # << >> \/ \E f \in Families : socket[f] # << >>)
          ~> (local_responses = << >> /\ \A f \in Families : socket[f] = << >>)
    /\ \A ip \in Ips :
          (\E i \in DOMAIN local_responses : local_responses[i] = [to |-> ip, fits |-> TRUE])
              ~> (\E e \in sending : e.response.to = ip)
=============================================================================
